# EqualityTest, a TLA+ verification development

The repository holds a private equality test: Alice and Bob each hold a
number and learn whether the two are equal by computing on ciphertexts. Five
C++ implementations (Goldwasser-Micali, Paillier, EC-ElGamal,
Okamoto-Uchiyama, Naccache-Stern) are built on OpenSSL and run side by side by
`ProtocolTest.cpp`. Two C implementations (NTRUEncrypt, Kyber) are built on
modified reference code and have drivers of their own. This directory models
that program in TLA+, model-checks it with TLC and proves the central results
with TLAPS.

## The system

There is one thread in every program, no network and nothing persistent. What
is hard here is not interleaving: it is what a step does when a random draw is
degenerate, what an unchecked library call leaves behind, which modulus an
operation reduces by and when, whether a loop that waits for a lucky draw can
end, whether bits survive being packed across octets, and whether a long
sequence of legal calls stays right.

| Component | State | Operations | Talks to |
| --- | --- | --- | --- |
| `PAILLIER`, `OU`, `ECE`, `NS`, `GM` (`*/<Scheme>.cpp`) | a public and a secret key in the caller's structs | `KeyGen`, `Enc`, `Dec` or `isZero`, `Add`, `Sub`, `Scalar_Mul` (`XOR` in GM) | OpenSSL `BN_*` and `EC_POINT_*` |
| `*_EqualityTest` (`*/EqualityTest_*.cpp`) | the scheme object and its keys, kept between calls | `keyGen`, `equalityTest(alice, bob)`: step 1 Alice encrypts, step 2 Bob encrypts, subtracts, blinds with a random scalar (GM: multiplies bitwise and shuffles), step 3 Alice decrypts and compares with zero | the scheme class; `hex` strings carry numbers and ciphertexts between the steps |
| driver (`ProtocolTest.cpp`) | the five testers, `exactList`, eight lists of accepted numbers, five counts | `main`: five key generations, 30000 iterations of draw, compare, five tests; then printing | the five testers |
| NTRU encryption (`ntru-pke-443/NTRUEncrypt.c`, `poly.c`) | keys and ciphertexts as polynomials | key generation, encryption, decryption (the repository has commented out the masking and the check of the randomness); `EqualityTest_NTRU.c` subtracts two ciphertexts | the random sources |
| NTRU packing and NIST interface (`packing.c`, `encrypt.c`) | octet strings | pack and unpack of keys and ciphertexts; `crypto_encrypt_keypair`, `crypto_encrypt`, `crypto_encrypt_open` | NTRU encryption |
| random sources (`common/fastrandombytes.c`, `common/rng.c`, `kyber512/rng.c`) | the pool with its position, key and nonce; the DRBG's Key and V; a seed expander's counter, buffer and position | `rng_uint16`, `rng_uint64`, `fastrandombytes`, `rng_init`, `rng_cleanup`; `randombytes`, `randombytes_init`; `seedexpander` | the pool takes its keys from the DRBG; NTRU and Kyber draw from both |
| Kyber (`kyber512`) | keys and polynomials | reductions, transform, compression (`reduce.c`, `ntt.c`, `poly.c`, `polyvec.c`), IND-CPA encryption with the added `add` and `randomize_poly` (`indcpa.c`), the KEM (`kem.c`), the driver `EqualityTest_kyber.c` | the hash functions, `rng.c` |
| OpenSSL; hash functions, block and stream ciphers | their contexts | standard algorithms | called by all of the above |

What makes each part correct:

* a scheme class: `Dec` undoes `Enc` for every key its `KeyGen` accepts, and
  any sequence of ciphertext operations is the same arithmetic on plaintexts
  modulo the scheme's plaintext modulus;
* a tester: equal numbers are accepted; different numbers are accepted only
  when the scalar of that very call annihilates their difference; nothing of
  a call leaks into the next;
* key generation: its rejection loops end when some draw can end them, and
  leave a key with the relations decryption relies on;
* the driver: the printed lists and counts tell a reader where a scheme may
  have erred, by accepting different numbers or by rejecting equal ones;
* packing: what is unpacked is what was packed, whatever stood in the octets;
* a random source: no byte of a stream is given twice or skipped, and no
  block of the generator is made twice;
* Kyber: decryption leaves the noise the scheme designs and no more, packing
  and unpacking are approximate inverses, and a decapsulation that fails
  answers with the secret of `z`.

The places where these can fail are the `hazards` of `PROJECT.json`, each at
its line.

## Modules

```
EqualityOracle                 each call answers alice = bob
   ^  refinement
AHETest <- Programs_proofs     the test on plaintexts modulo M
   ^  refinement (AHESpec / AHESteps)
PaillierTest  OUTest  NSTest  ECETest                       GMTest -> EqualityOracle
   |            |       |       |                             |      (each <- its _proofs)
Paillier       OU      NS      ECE                            GM
   \____________|_______|_______|_____________________________/
                     BigNum
HomomorphicCalc                any sequence of ciphertext operations (MCCalc: all five schemes)
ProtocolTest <- Programs_proofs         the driver over five testers
ModLemmas                      the number theory and the sums of the proofs

NTRURing <- NTRUKeyGen, NTRUCrypt <- NTRUTest    the NTRU driver
                            ^-------- NTRUApi    the NIST interface
                  NTRU_proofs, MCNTRU            (both callers over one keygen)

ByteSource                     one stream of bytes, given in order
   ^  refinement (GivesStream)
SeedExpander, RandomPool <- NTRU_proofs          (MCRandom: all sources)

KyberPoly <- KyberCPA <- KyberTest                the Kyber driver
    ^            ^------- KyberKEM <- Programs_proofs
Programs_proofs                                   (MCKyber: both programs)
```

An arrow points from a module to the one it extends, or to what it refines.

| Module | Models | Correspondence |
| --- | --- | --- |
| `BigNum` | the OpenSSL calls, external | `mod_mul`, `mod_exp` (by repeated squaring), `mod_inverse`, `gcd`, `div`, `HasBits`, `PrimesOfBits` by what they return, failures included: `mod_inverse` of a non-invertible number is the zero that `BN_new` left, since `src/` never looks at the return value. `euclid` and `two_to` are recursive functions, so that proofs can speak of them |
| `Paillier`, `OU`, `NS`, `ECE`, `GM` | the scheme classes | one operator per method, on `BIGNUM` values. The hexadecimal overloads convert, call the same arithmetic and convert back, and are mapped with it. A rejection loop appears as the set of draws it can end with (`UsableG`, `FactorsP`, ...). In `NS`, `multiply` is the loop of `KeyGen` that multiplies one half of the list of primes and `num_bits` is `BN_num_bits` |
| `*Test` (the five testers) | the tester classes | variables are the members of the tester and the locals of `equalityTest`; `phase` is how far the current call has come; one action for key generation (one per loop in OU and NS), `Step1`, `Step2`, `Step3` for the three timed steps, `Return` for the end of the call, which destroys its locals |
| `AHETest` | what the four additive testers have in common, on plaintexts | `M` is the plaintext modulus the key fixes, `res` the plaintext under Bob's answer |
| `EqualityOracle` | the caller's expectation, `exactList` in the driver | |
| `HomomorphicCalc` | the interface of the scheme classes | an accumulator ciphertext and the plaintext its user believes it holds |
| `ProtocolTest` | `main` | `pc`/`at` are the program counter; `iteration` is the `i` of `main`. Of a key, `key` keeps the plaintext modulus and whether it is `sound` (an invertible `g`, or two different primes). A call of a tester is one step: `DrawnBy` draws its scalar and whether the random number of either party is invertible, and `Answers` gives what the tester's own module shows for that key and draw (see below). `losses` and `laxes` are history variables that no action reads |
| `NTRURing` | the arithmetic of `poly.c`, and `packing.c` | a polynomial is a function from exponents to coefficients; modulo 2 it is the set of its exponents. Elements of `QBits` bits are laid across octets of `OctetBits`; trits are packed several to an octet. The shifting register `temp` is modelled by the number it holds; `pack_octet` and `unpack_octet` are one turn of the packing loops, an octet out or an octet in, and the loops a recursive function of the turns |
| `NTRUKeyGen` | `keygen`, `trinary_poly_gen`, `ntru_ring_inv` | `DrawOnes` and `DrawMinus` are one iteration of the two `while` loops, `RingInvStart` what `ntru_ring_inv` does before its loop, `RingInvStep` one iteration of it, `Refuse` the return of -1 that makes `keygen` start again, `Finish` the rest of `keygen`. `w` holds the locals of `ntru_ring_inv`, with the two adjacent arrays of `b` and `c` told apart by `c_low` |
| `NTRUCrypt` | `pad_msg`, `recover_msg`, encryption, decryption, `check_keys` | a text of at most `MsgLen` chars becomes the coefficients of its length, its chars and the pad |
| `NTRUTest` | `main` of `EqualityTest_NTRU.c` | one action per call that `main` makes; `e1` and `e2` are history variables, the coefficients of `f*c` before reduction modulo `q`, and no action reads them |
| `NTRUApi` | `encrypt.c` | key pair, encryption, a caller that sends `clen` octets (`Transit`), decryption |
| `ByteSource`, `SeedExpander` | the `seedexpander` of `rng.c` | `buffer_pos`, `length_remaining` and `ctr` as in the struct; each pass of the `while` loop is a step; a byte is its block number and place |
| `RandomPool` | `fastrandombytes.c` over the generator of `rng.c`: `randombytes`, `randombytes_init`, `AES256_CTR_DRBG_Update` | a block of the generator is the pair of the key and the counter value that AES is given. `Stream` is `fastrandombytes` itself; `Take(size)` is the body of `rng_uint16` and `rng_uint64`. `word`, `taken` and `streams` record what was given |
| `KyberPoly`, `KyberCPA` | `reduce.c`, `cbd.c`, `ntt.c`, `poly.c`, `polyvec.c`, `indcpa.c` | an `int16_t` is an integer cut to its width by `short`; a `uint32_t` wraps modulo `R*R`; a transform is a recursive function over its `LogN - 1` layers (seven in the code, two in the runs); octet strings are real (`to_bytes`, `from_bytes`); hashes are constants. The end of `KyberCPA` is the scheme on paper, products modulo `X^N + 1` and the noise they leave, which the properties compare with |
| `KyberTest`, `KyberKEM` | `EqualityTest_kyber.c`, `kem.c` with `verify.c` | one action per call; `Transit` gives `crypto_kem_dec` the ciphertext or one altered slightly |

Encoding: an `int` is written with `std::hex`, so as an unsigned 32-bit word:
`Encode(x) == x % Word`. GM writes it as a `bitset` of `MESSAGE_BIN_SIZE`
bits: `Bits`, two's complement with the highest bit first.

A group element of `ECE` is its discrete logarithm to the base point, zero
being the point at infinity; the order `q` is a prime. The code tests the
second hexadecimal digit of the encoding: `'0'` for infinity (`00`) and `'4'`
for any other point, which is written uncompressed (`04` and the coordinates).

## What is checked

| Run | Instance | Shows |
| --- | --- | --- |
| `ahe` | moduli 6, 7, 10, four plaintexts, all scalars | `EqualAccepted`, `FalseAcceptExplained`: a wrong acceptance comes from the scalar of the same call only |
| `paillier` | all pairs of 3-bit primes (equal ones too), all encryption randomness, scalars of each kind | Under distinct primes equal numbers are rejected only if Alice's randomness shared a factor with `n` (`EqualAccepted`). If Bob's did, `BN_mod_inverse` fails unnoticed and the answer is "equal" (`NonUnitAccepts`). All other steps are steps of `AHETest` (`AHESteps`) and, with invertible scalars, of the oracle (`OracleSteps`) |
| `ou` | all keys that `KeyGen` accepts from 3-bit primes and nine candidates for `g` | `KeyGenEnds`; equal numbers are accepted, even under a `g` with no inverse (`EqualAccepted`); otherwise the test modulo `p` (`AHESteps`), whose scalars include multiples of `p` |
| `ece` | group of order 7, everything in it | `VerdictExact`, and the full refinement `AHESpec` |
| `ns` | `NS(18, 2, 3)` with its key generation loops, degenerate `g` and randomness | a ciphertext without inverse always rejects (`NonUnitRejects`), small scalars never accept wrongly (`NoFalseAccept`), loops end (`KeyGenEnds`), `AHESteps` |
| `gm` | all keys of 3-bit primes with every accepted `g`, 3-bit numbers, every shuffle | different numbers never accepted (`NoFalseAccept`), the decrypted ones count the differing bits (`HammingDistance`), and with an invertible `g` the oracle (`OracleSteps`) |
| `driver` | two iterations, two numbers, sound and degenerate keys and draws, scalars that annihilate differences for each blinding scheme | `ListsComplete`: GM lists `exactList` or, under a `g` without inverse, nothing; ECE's list holds `exactList`; where two lists agree, they hold `exactList` up to the calls with degenerate keys or random numbers. `CountsExplained`: no count is off by more than the calls whose own draws can make the scheme err |
| `calc` | several keys of each scheme, every reachable ciphertext | `Homomorphic` |
| `ntru` | degree 7, every `F` that words of two exponents draw, `q` = 32; for some keys the driver with all pairs of two-bit texts, or the NIST interface | of key generation: the relation the almost-inverse algorithm keeps (`AlmostInverse`), that it returns an inverse or refuses for want of one (`InverseDecides`), that its write past an array does no harm (`OverrunHarmless`), that the lifted keys fit (`KeysFit`), and that it ends (`KeyGenEnds`). Of the driver: a ciphertext that does not wrap decrypts to its text (`OwnTextBack`); the difference of two ciphertexts tells whether the texts are equal (`EqualityReadable`), but `main` does not print it (`DifferenceLost`). Of the interface: keys and ciphertexts survive packing (`KeysSurvivePacking`), and what `crypto_encrypt` sends opens to its text although the last octet is lost, while a text that is too long becomes a ciphertext of zeros (`ApiOpens`) |
| `kyber` | degree 8 modulo 97, 10-bit shorts; the driver, or the KEM with altered ciphertexts | decryption sees the noise that the scheme designs, up to rounding (`NoiseAsDesigned`); the sum of two ciphertexts decrypts to the exclusive or of the messages while the noise is small (`SumIsXor`); of a randomized ciphertext only coefficients that were negative can be lost (`OnlyNegativesLost`); the two secrets agree for an unaltered ciphertext and differ for an altered one (`SecretsAgree`); a failing decapsulation answers with the secret of `z` (`RejectsByKey`) |
| `kyber_randomize` | the same | a finding: see below |
| `rng` | a pool of nine bytes with words of two and four, over the generator, which has other callers too (`DrbgCall`); the generator alone, with a counter `V` modulo 6; an expander with blocks of four bytes | no byte is given twice or read beyond the pool (`WordsFresh`), no stream is made twice (`StreamsDiffer`), no block of the generator is made twice (`FreshBlocks`), the seed expander gives one stream in order (`GivesStream`) |

Deadlock is checked in every run but `driver`, `ntru`, `kyber` and
`kyber_randomize`, where the program ends, and `rng`, where the bounds on keys
and streams end it.

### Bounds, and why they are enough

* Primes of 3 bits (5 and 7; also equal) give moduli with units, zero
  divisors, and both orders of the factors; every ciphertext of such a key is
  reachable, so a degenerate draw cannot be missed. The arithmetic is the same
  for every size; what depends on the real size is probability, which TLA+ does
  not speak about. Hence the properties name degenerate draws instead of
  excluding them.
* OU's literal length 3072 becomes the constant `ModulusBits`; the run takes
  8 with 3-bit primes, so both `n = 175` and `n = 245` are accepted and
  `p*p*q` with equal primes is rejected by its length.
* NS needs two different small primes dividing `p-1` and `q-1`: 18 bits for
  `n` is the smallest length with candidates.
* `Word` is small, but larger than twice any positive number used, and a
  negative number is present wherever the answer depends on the encoding.
* `X^7 - 1` has three factors modulo 2, so among the `F` of degree 7 there are
  polynomials refused for their parity, refused later by the loop, and
  accepted, rotations beyond `N`, and the write past the array of `c`. A word
  gives two exponents here and six in the code: enough to overshoot.
* `q` = 32 has texts that wrap and texts that do not for the same key; with
  2048 and degree 7 nothing could wrap. Elements of five bits over octets of
  four end inside an octet, begin inside one, and fill more than one, as
  elements of eleven bits over octets of eight do.
* Two driver iterations and two numbers are enough for a list to gain or lose
  an element beside a right one, in each order, for each scheme. A scalar of
  each kind is drawn: one that annihilates nothing, and one that annihilates
  a difference (0 for ECE, a zero divisor for Paillier and NS, `p` for OU).
* 97 is the smallest convenient prime with `X^8 + 1` splitting into quadratic
  factors as `X^256 + 1` does modulo 3329, so the transform has its last
  layer missing here too; two layers are the least with a general and a last
  one. Shorts of ten bits leave the same head room, some ten multiples of `q`.
  Some noise polynomials have many coefficients, so that the quarter of `q`
  is passed and decryption fails for some of the seeds.
* A pool of nine is not a multiple of either word, so both can meet its end
  at every distance; the key covers part of it, a cleanup comes before, inside
  and behind what was taken. `MaxStreams` and `MaxSeeds` bound the fills and
  key changes; the nonce counts modulo 3, as many as the streams made:
  it wraps only behind the last of them.

### Fairness

The loops of key generation repeat independent random draws. `OU` and `NS`
assume strong fairness of each accepted draw: each keeps a positive
probability in every round, so that a run that refuses it for ever has
probability zero. That is a statement about the random source, and the only
one made. The termination properties are conditional on an accepted draw
existing, because for some parameters none does (OU with `lambda` other than
1024 never ends). `NTRUKeyGen` assumes strong fairness of a word that sets
some coefficient, and of a last word that makes `f` invertible, for the same
reason, and weak fairness of the deterministic steps, which never block in a
program of one thread. The other runs check safety only, under no fairness.

### Findings

`randomize_poly` (`src/kyber512/indcpa.c:396`), which the repository adds to
Kyber, reduces its result before the inverse transform and not after it. The
last multiplication of `invntt` leaves coefficients between `-q` and `q`;
`csubq` leaves the negative ones negative; `poly_compress` shifts them as
`uint32_t`, and many are packed as other values. `indcpa.c:93` calls
`unpack_ciphertext` the "approximate inverse of pack_ciphertext". Run
`kyber_randomize` states that as `ApproximateInverse` and finds it violated.
`OnlyNegativesLost` of run `kyber` says that nothing else is wrong with the
result: every coefficient that was not negative comes back within its
rounding. The driver prints a `msg4` of zeros and never decrypts `ctx4`,
so no output shows the loss.

Met on the way, and not among the runs, because they are about a
comment or have no effect in this repository:

* `src/Paillier/EqualityTest_Paillier.cpp:53`, `src/OU/EqualityTest_OU.cpp:56`
  and `src/NS/EqualityTest_NS.cpp:80` announce `subResult = Bob - Alice`; the
  `Sub` there computes Alice minus Bob. The answer does not depend on the
  sign. ECE does subtract Alice from Bob, and the refinement mapping of
  `ECETest` swaps the parties.
* `poly.c:419` of NTRU announces "a trinary polynomial with fixed number of
  +/- 1s". The loops look at their counts once per word of six exponents and
  overshoot. That is needed: with the fixed numbers `3F+1` is even at 1,
  never invertible, and `keygen` would repeat for ever.
* `randomize_poly` is given a weight and ignores it: it multiplies by
  `X^(N-1)`.
* `EqualityTest_kyber.c` ends with a stray `q`.
* `rng_cleanup` shreds the key's length of the eight bytes of the nonce;
  `seedexpander` refuses a request for all of what is left. Neither has a
  caller here, like `rng_init` and `rng_uint16`; `randombytes` is
  used without `randombytes_init`.

## What is proved

TLAPS checks the following for every value of the constants that satisfies the
assumptions of the modules and the hypotheses named here.

### The plaintext level

* In `Programs_proofs`: type correctness, `EqualAccepted` (`Completeness`),
  `FalseAcceptExplained` (`WrongAcceptCause`). The invariant `IInv` adds to
  the type that between steps 2 and 3 `res` is the blinded difference of the
  two numbers under a scalar that Bob may draw (`BlindedDifference`) and that
  an answer is `res = 0` (`VerdictOfRes`). Neither of the two properties is
  inductive without them: both speak about the last step only.
* `ImplementsOracle`: if no scalar maps a nonzero residue to zero and the
  plaintexts stay distinct modulo `M` (`SoundBlinding`), the test implements
  `EqualityOracle`. Step 1 maps to a call, step 3 to an answer, key
  generation and step 2 to stutters.

### The five testers

In each of them the inductive invariant has the same form: the keys are those
that the loops of `KeyGen` can have left so far (`KeyFromPrimes`, `KeyAccepted`,
`KeyUsable`, and the phases before), Alice's ciphertext is an encryption of her
number under some random number (`AliceEncrypts`), the answer is built from it
and an encryption of Bob's (`BobAnswers`, `ProductsDecrypt`), and the verdict is
read off the answer (`AnswerFromRes`). The properties speak of numbers and
verdict only, so they are not inductive without what lies between. What the
answer decrypts to is then a fact about the scheme, and there the work is.

* `PaillierTest_proofs`. Raised to `lambda`, a ciphertext becomes `1 + u*n`
  modulo `n*n`, `u` being `lambda` times the plaintext; encryption makes such an
  exponent, `Sub` subtracts two, `Scalar_Mul` multiplies one, `Dec` reads it off.
  From that: `EqualAccepted` and `NonUnitAccepts`, for primes of any size, and
  that the scalar zero always accepts (`ZeroScalarAccepts`);
  `AHESteps` for primes of three bits or more (with 2 and 3 `lambda` has no
  inverse; the program goes nowhere near); and `OracleSteps` if `IntsFit`: the
  ints lie within a word and the modulus is at least as large as the word, 32
  bits against twice the key's length.
* `OUTest_proofs`. The same with `p - 1` and `1 + u*p` modulo `p*p`.
  `EqualAccepted` for every `g` that `KeyGen` accepts; `AHESteps` for every invertible
  one, equal primes included. It accepts multiples of `p`, too: each lemma on
  keys has a half for those, where a ciphertext is 0 or 1 modulo `p*p` and
  decrypts to zero. Under a `g` without inverse every number but zero is accepted
  (`DegenerateKeyAccepts`): the failure of the inversion is ignored.
* `NSTest_proofs`, under `Sized`: the list of small primes has at least two
  and half of `n` has more than `B + 2` bits. A shorter `n` leaves `KeyGen`
  no prime to draw, and a single small prime could be `p` itself; `NS()` takes 30 primes of 12 bits and 3072. `sigma`
  divides `(p-1)(q-1)`; raised to the cofactor, a ciphertext loses its
  random number (Euler's theorem for two primes) and is `G^m`. A `g` that is
  accepted gives `G` exactly the order `sigma`, if it is a unit, because no small
  prime can be left out of an exponent. So `isZero` sees zero and nothing
  else. `KeyGen` does not compare `p` and `q`; that they differ is proved from their
  lengths and from the divisors given to `p-1` and `q-1`. Results:
  `NonUnitRejects`, `NoFalseAccept`, `AHESteps`, and that under a `g` without
  inverse no number but zero is accepted (`DegenerateKeyRejects`).
* `ECETest_proofs`: `VerdictExact`, and `ImplementsAHE`:
  the EC-ElGamal tester implements `AHETest` in a group of any order, for all
  randomness and scalars. The algebraic core is that the randomness
  cancels in decryption (`DecryptedDifference`).
* `GMTest_proofs`. Raised to `(s-1)/2` modulo a prime `s` of the key, the random
  number of a ciphertext becomes 1 and a `g` multiplied in once does not.
  `NoFalseAccept`, for any accepted `g`; with an invertible one,
  `HammingDistance` whatever the shuffle, and `OracleSteps`; with any other, which
  `KeyGen` accepts, it rejects equal numbers but zero (`DegenerateKeyRejects`).

Each of the five modules ends with `OperationsAgree`, the theorem about
`HomomorphicCalc` for its scheme: `Homomorphic` holds after any sequence of
operations, also those and the orders of them that no tester calls. There the
inductive invariant says of the ciphertext what the tester's invariant says of
an answer (`Holds`); for Paillier it needs different primes of three bits or more and
invertible random numbers, for OU, NS and GM an invertible `g`, for NS invertible
random numbers too. Each proves for its scheme what run `calc` checks on small keys.

What these theorems say of degenerate keys and draws, and of regular ones, is
what `Answers` of `ProtocolTest` lets a call of a tester answer; its comment
names the theorem behind each case. Two cases of Paillier have none (equal
primes, and Alice's random number without inverse, with a nonzero scalar),
and there both answers are allowed.

The refinements chain: with Paillier's `AHESteps` and `Completeness`, say, no
sequence of calls with regular draws rejects equal numbers.

### The number theory (`ModLemmas`)

The library's induction theorems take an operator as a parameter and cannot be
used, so the module proves what induction is needed for from the least
element of a set of numbers: induction over a set, that a recursive function
on `Nat` has the values its equation says, and strong recursion for
`euclid` and `mod_exp`. On these rest: `mod_exp` is the residue of the power
(repeated squaring), `mod_inverse` is an inverse exactly for units and zero
otherwise (Bezout), a prime that divides a product divides a factor, Fermat's
little theorem, its form modulo the square of a prime, Euler's theorem for a
product of two, and the binomial power modulo `n*n`.

The other half is about sums over finite sets, which the folds of the community
modules define by a recursion the provers cannot unfold: a sum without one
element and the element, sums of equal, added and exchanged terms, double sums
over pairs; a number as the sum of its digits in any base (`DigitsOfSum`,
`DigitsBelow`); and products of polynomials modulo `X^L - 1`, with integer
coefficients and modulo any number: commutative, associative, distributive, with
rotation as the product with a power of `X`.

### NTRU (`NTRU_proofs`)

For every degree, weight, number of exponents to a word and modulus that is a
power of two up to 2^16 (`RingAssumption`), under the specifications `KeySpec`,
`MainSpec` and `ApiSpec` of its three programs.

* Key generation. The invariant `KeyInv` holds at every iteration of
  `ntru_ring_inv`: the sets of powers stay below the degrees and the
  room that the code keeps for them (`Shape`: `Within`, `Room`), their constant terms are what
  the division waits for (`Ends`), and `b` and `c`, rotated by `k`, relate `f` and
  `g` to the secret polynomial modulo 2 (`Related`). `AlmostInverse` is its part
  that TLC checks. A step of the loop decides and does no harm
  because of the whole of it: when `f` is the constant 1, `b` is the inverse up to a
  rotation; when `f` has become zero, the product of `b` and the secret is zero, while
  `b` is not, having a constant term: the secret is no unit
  (`InverseDecides`); `c` reaches the byte behind its array only in the
  iteration that ends (`OverrunHarmless`). Behind the loop each Newton step squares
  the modulus to which `f_inv` is the inverse (`Precise`), so four of them
  give one modulo 2^16, and `f * h = g` (`KeysFit`).
* The driver. `DriverInv` says of each ciphertext that its product with the
  secret is congruent modulo `q` to coefficients which are congruent modulo 3 to the
  padded text (`Carries`). Decryption that centres them finds the text
  (`OwnTextBack`); the difference of two carries the difference of two texts,
  whose length field is zero (`EqualityReadable`, `DifferenceLost`).

* Packing. The elements of a polynomial are bits of one number (`High`), and so
  are the octets; each turn of either loop has taken the bits up to its place and
  holds the next ones in `temp` (`PackHolds`, `UnpackHolds`). So elements come
  back for any degree and any width of an element between one and two octets
  (`PackingAssumption`). Trits are digits of an octet in base 3.
* The interface. `ApiInv`: the packed keys say the keys (`KeysPacked`), and
  the octets on their way are a ciphertext of the text given, or the zeros that a
  text too long leaves (`Sent`). The last octet, which is lost, only holds bits of the
  last coefficient, and the last coefficient only tells of the pad.
  `KeysSurvivePacking` and `ApiOpens` follow.
  Texts are those of `GivenTextsAssumption`: chars of `CharBits` bits.

`OwnTextBack`, `EqualityReadable` and `ApiOpens` are about ciphertexts whose
coefficients do not wrap; with `N` = 443 and `q` = 2048 almost every one is
such, which is a matter of probability.

### The random sources (the end of `NTRU_proofs`)

* `BlocksFresh`: `FreshBlocks`, for a counter, seeds and calls of any size. The
  key of the generator has not been used and no key that is known descends
  from it (`Unused`, `Barren`), so the next blocks and the next key are new, wherever
  the counter wraps.
* `StreamsNeverRepeat`: `StreamsDiffer`, up to `NonceSize` streams. The key of the
  pool is made of blocks of one call, so a key drawn after a cleanup is new.
  The bound is needed: beyond it the nonce comes round under the same key.
* `FreshWhileStreamsDiffer`, which is `WordsFresh` for
  pools, words and keys of any lengths and any order of calls, as long as
  `StreamsDiffer`. The invariant says that every place of the pool from
  `randpos` on holds a zero that a cleanup left or a byte of a known stream,
  at its own place, that has not been given (`Ready`), and that
  whatever has been given is of a stream already made. `FreshWords` combines the
  three: `WordsFresh` up to `NonceSize` streams, with no assumption on keys.
* `ExpanderGivesStream`: the seed expander implements `ByteSource` for blocks
  of any length and any sequence of requests. The
  invariant ties the position in the buffer and the counter to the number of
  bytes given so far.

### The driver, Kyber's arithmetic and KEM (`Programs_proofs`)

* `DriverTypeCorrect`, and `CountsCorrect` for any number of iterations and any
  numbers, keys and scalars. The invariant `DriverInv` says, between any two
  tests of an iteration, that each count is the length of its list (`Lengths`) and
  is off by no more than the calls noted in `losses` and `laxes` (`Balance`),
  that a loss is a place of `exactList` whose test has run, and never OU's
  (`LossesBefore`), and that a `g` without inverse has emptied or filled the
  list of its scheme (`BadKeys`); the counter `at` says which of the five
  lists have already had their turn in this iteration.
* `ListsTellAll`: `ListsComplete`. The invariant `LInv` says, between any two
  tests, that the list of GM is `exactList` or empty (`GMFollows`), that of ECE has met
  it (`ECEMeets`), and where the lists of a scheme with two of them agree they
  have met it up to `losses` (`AllTrack`), in an increasing sequence of places
  (`Tracks`), except the number whose turn has not come (`Owed`).
* Kyber's two reductions, for every modulus, width of a short
  and fixed-point constant that the assumptions of `KyberPoly` allow, among them
  Kyber's own: `MontgomeryReduces`, `BarrettReduces`, and that a reduction
  followed by `csubq` is canonical (`ReducedFormCanonical`); lemma `Csubq`
  says that a negative number is left alone, which is what the finding is about.
* The KEM, for any hash functions and any encryption: a ciphertext
  that was altered but decrypts to its message is answered with the secret of
  `z`, and an unaltered one with the sender's (`RejectsAltered`); if no two
  messages share a ciphertext under their own coins, `RejectsByKey` follows
  (`FailureAnsweredByKey`). The proof expands nothing of `KyberCPA`.

### Kyber's encryption (the end of `Programs_proofs`)

Everything here holds for polynomials of any degree `N = 2^LogN`, vectors of
any length `K`, any odd `q` and any root whose power `N/2` is -1 (`q` need not
be prime), any widths of compression, and any hash functions. Kyber's own
numbers satisfy the assumptions, for `K` = 2, 3 and 4.

* Transforms. `NttIs`: layer by layer, the coefficients hold the values that a
  polynomial takes modulo `X^b` minus the power of the root at their block's node
  (`Value`); at the end `b` = 2 and the values are a matrix applied to the
  coefficients (`Image`). Each layer adds at most `q` to the magnitude of a
  coefficient, so `HeadroomAssumption` keeps all of them in an `int16_t`.
  Multiplying by `X^N` changes the sign of every value, so products of polynomials
  become products of pairs (`ProductImage`); `InverseIs` is the way back, with its
  Montgomery factor. Together: `TransformMultiplies`, the product through the
  transforms is the product modulo `X^N + 1`.
* The ring. The matrix has an inverse (`Injective`, `ValuesOnto`), so
  polynomials modulo `q` multiply as pairs do: commutatively and associatively. Key
  and ciphertext use one random matrix and its transpose, which are drawn
  in the transformed domain and are images of polynomials (`MatrixDrawn`); then
  the product of the secret with what encryption makes of the matrix is that of
  encryption's noise with what the key made of it (`Transposition`), and what
  decryption takes off is what encryption put on.
* Compression. `CompressionApproximates`: a coefficient in `0..q` comes back within
  `Rounding(d)`, modulo `q`. A sum of products with the small secret multiplies
  that by the secret's weight at most (`Slack`). A negative coefficient is
  outside of the lemma, and that is the finding.
* The driver. `MainInv` says what the variables of `main` are in terms of
  the draws: the key pair, two ciphertexts under the same coins, their sum, the
  product, what was decrypted. It is inductive as it stands; the work is
  in what such values are. `KyberNoise` is `NoiseAsDesigned`, `KyberSum` is
  `SumIsXor`, `KyberRotation` is `OnlyNegativesLost`.
* The KEM. `KyberSecrets` is `SecretsAgree`: with small noise the ciphertext
  decrypts to its message (`NoiseReads`), so encrypting again gives the same
  ciphertext and both secrets are one. That the secrets differ for an altered
  ciphertext is a matter of the key derivation, and the theorem has the
  hypothesis that it does not collide there (`NoCollision`), which the instance
  of the runs satisfies. How likely the noise is small is a
  matter of probability.

The assumptions about the hash functions are those that make the code read
initialized values: `prf` gives octets (`NoiseSeed`), and enough blocks are
squeezed to fill each polynomial (`XofAssumption`).

### Only model-checked

All liveness (`KeyGenEnds` of three programs, under fairness: out of the
prover's reach). `Homomorphic` of run `calc` takes the operations of all five schemes
as parameters; it is proved for each scheme, as `OperationsAgree`.

## What is not modelled

* The hash functions, block and stream ciphers (`fips202.c`, `sha256.c`,
  `sha512.c`, `aes256ctr.c`, `crypto_stream.c`, `crypto_hash_sha512.c`):
  vendored bit-level primitives, of which a model would be a transliteration.
  They are constants or tagged values in the modules that use them.
* OpenSSL itself: `BigNum` and the group in `ECE` are its external model.
* Buffers and their sizes, `strcpy` into fixed arrays, pointers into
  temporary strings, memory that is never freed: the models work on the
  values, with the outcome that the repository's builds produce. These are
  hazards without a property.
* Timing, and the wording and layout of what is printed.
* Probability distributions, and secrecy.
* The parameter sets of NTRU that are not built: only `NTRU_CCA_443` is. Those
  of degree 743 lie outside `FormatAssumption`: their longest texts
  (`param.c:72`, 73 octets) would run into the length field.
* Functions nothing calls here: NTRU's `mask_m`, `unmask_m`,
  `rand_tri_poly_from_seed` and `binary_poly_gen`, its KEM variant of the
  packed secret key and the old two-bit packing; Kyber's `shuffle` and
  `generate_random_poly`; the NTL overload of `pickPrimes`.
* The hash that gives NTRU's `r`: since decryption no longer compares it, any
  draw stands for it.
* A seed that a caller of `randombytes_init` uses twice: the models take
  each seed once, since the generator can only repeat itself otherwise.

## Plan

1. Done: the oracle, the plaintext-level test, the five C++ testers with their
   scheme classes, the calculator interface, the driver.
2. Done: NTRU key generation, encryption, driver, packing and NIST interface
   on a small ring; the random sources; Kyber from its reductions to its KEM.
3. Done: the proofs above: every safety property that a run checks, and the
   refinements.
4. Left: a bound on the number of draws that a key generation needs would be
   a matter of probability, and liveness is checked on small instances only.

## Running

```
tlc -config MCPaillier.cfg MCPaillier        # and the other MC modules
tlc -config MCKyber_randomize.cfg MCKyber    # the finding
tlapm Programs_proofs.tla                    # and the other *_proofs, ModLemmas
```
