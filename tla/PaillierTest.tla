---------------------------- MODULE PaillierTest ----------------------------
(***************************************************************************)
(* Paillier_EqualityTest (src/Paillier/EqualityTest_Paillier.cpp): one     *)
(* tester object, its key pair, and the calls of equalityTest one after    *)
(* the other.  A call runs three steps, timed separately by the code: in   *)
(* step 1 Alice encrypts, in step 2 Bob encrypts, subtracts and blinds, in *)
(* step 3 Alice decrypts and compares with zero.                           *)
(***************************************************************************)
EXTENDS Paillier

CONSTANTS
  PrimeBits,        \* keyGen(lambda): the bits of each prime
  KeyPrimes,        \* the pairs of such primes KeyGen may draw
  Word,             \* 2^32, the width int numbers are written in as hex
  Numbers,          \* the ints the callers pass
  EncRandom(_),     \* values of 0..n-1 that Enc's BN_rand_range may return
  ScalarRandom(_)   \* the same for generate_random_element2

ASSUME WordAssumption == Word \in Nat \ {0}
ASSUME NumbersAssumption == 0 \in Numbers /\ Numbers \subseteq Int
ASSUME KeyPrimesAssumption ==
  KeyPrimes \subseteq PrimesOfBits(PrimeBits) \X PrimesOfBits(PrimeBits)
ASSUME RandomAssumption ==
  \A pq \in KeyPrimes : LET pk == PublicKey(pq[1], pq[2]) IN
    /\ EncRandom(pk.n) \subseteq random_element(pk)
    /\ ScalarRandom(pk.n) \subseteq random_element(pk)

VARIABLES
  publicKey, secretKey,
  phase,                            \* the step the tester has finished
  aliceNumber, bobNumber,           \* arguments of equalityTest
  aliceCipherText, bobCipherText,   \* sent by Alice, computed by Bob
  s, res,                           \* Bob's scalar, the ciphertext he returns
  verdict                           \* what the last call returned

vars == <<publicKey, secretKey, phase, aliceNumber, bobNumber,
          aliceCipherText, bobCipherText, s, res, verdict>>

NoKey == [n |-> 0, g |-> 0]
NoSecret == [lambda |-> 0, mu |-> 0]

Init == /\ publicKey = NoKey /\ secretKey = NoSecret
        /\ phase = "nokey"
        /\ aliceNumber = 0 /\ bobNumber = 0
        /\ aliceCipherText = 0 /\ bobCipherText = 0
        /\ s = 0 /\ res = 0
        /\ verdict = FALSE

(* The two primes are drawn independently: nothing makes them differ.      *)
keyGen ==
  /\ phase = "nokey"
  /\ \E pq \in KeyPrimes :
       /\ publicKey' = PublicKey(pq[1], pq[2])
       /\ secretKey' = SecretKey(pq[1], pq[2])
  /\ phase' = "ready"
  /\ UNCHANGED <<aliceNumber, bobNumber, aliceCipherText, bobCipherText,
                 s, res, verdict>>

(* Mutant of Encode: only the low digits are kept.                         *)
Encode_Narrow(x) == x % (Word \div 4)

(* The plaintext of an int: written by `hex` as an unsigned word, read     *)
(* back by BN_hex2bn.                                                      *)
Encode(x) == x % Word

Step1(x, y) ==
  /\ phase = "ready"
  /\ phase' = "step1"
  /\ aliceNumber' = x /\ bobNumber' = y
  /\ \E r \in EncRandom(publicKey.n) :
       aliceCipherText' = Enc(publicKey, Encode(x), r)
  /\ UNCHANGED <<publicKey, secretKey, bobCipherText, s, res, verdict>>

Step2 ==
  /\ phase = "step1"
  /\ phase' = "step2"
  /\ \E r \in EncRandom(publicKey.n) :
       bobCipherText' = Enc(publicKey, Encode(bobNumber), r)
  /\ LET subResult == Sub(publicKey, aliceCipherText, bobCipherText')
     IN \E x \in ScalarRandom(publicKey.n) :
          /\ s' = x
          /\ res' = Scalar_Mul(publicKey, x, subResult)
  /\ UNCHANGED <<publicKey, secretKey, aliceNumber, bobNumber,
                 aliceCipherText, verdict>>

Step3 ==
  /\ phase = "step2"
  /\ phase' = "done"
  /\ verdict' = (Dec(publicKey, secretKey, res) = 0)
  /\ UNCHANGED <<publicKey, secretKey, aliceNumber, bobNumber,
                 aliceCipherText, bobCipherText, s, res>>

(* The arguments, locals and answer of a call do not outlive it: between   *)
(* two calls the tester keeps its keys only.                               *)
Return == /\ phase = "done"
          /\ phase' = "ready"
          /\ aliceNumber' = 0 /\ bobNumber' = 0
          /\ aliceCipherText' = 0 /\ bobCipherText' = 0
          /\ s' = 0 /\ res' = 0
          /\ verdict' = FALSE
          /\ UNCHANGED <<publicKey, secretKey>>

Next == \/ keyGen
        \/ \E x, y \in Numbers : Step1(x, y)
        \/ Step2
        \/ Step3
        \/ Return

Spec == Init /\ [][Next]_vars

----------------------------------------------------------------------------

DistinctPrimes == \A x \in 1..publicKey.n : x * x # publicKey.n
IsUnit(c) == Coprime(c, publicKey.n)

(***************************************************************************)
(* Under a key of two distinct primes equalityTest returns true for equal  *)
(* numbers, except when Alice's own random number shared a factor with n.  *)
(* Bob's degenerate draws cannot cause a rejection: BN_mod_inverse then    *)
(* fails, and the test goes on with a zero ciphertext.                     *)
(***************************************************************************)
EqualAccepted ==
  (phase = "done" /\ DistinctPrimes /\ aliceNumber = bobNumber /\ ~verdict)
    => ~IsUnit(aliceCipherText)

(***************************************************************************)
(* The ignored failure of BN_mod_inverse: when Bob's ciphertext has no     *)
(* inverse, equalityTest answers "equal" whatever the numbers are.         *)
(***************************************************************************)
NonUnitAccepts ==
  (phase = "done" /\ ~IsUnit(bobCipherText)) => verdict

(***************************************************************************)
(* Neither p = q nor a random number that shares a factor with n has come  *)
(* into the current call.                                                  *)
(***************************************************************************)
Regular ==
  /\ phase # "nokey" => DistinctPrimes
  /\ phase \in {"step1", "step2", "done"} => IsUnit(aliceCipherText)
  /\ phase \in {"step2", "done"} => IsUnit(bobCipherText)

AHE == INSTANCE AHETest
         WITH Moduli <- {pq[1] * pq[2] : pq \in KeyPrimes},
              Plaintexts <- {Encode(x) : x \in Numbers},
              Blinders <- ScalarRandom,
              M <- publicKey.n,
              alice <- Encode(aliceNumber), bob <- Encode(bobNumber),
              res <- IF phase = "nokey" THEN 0
                     ELSE Dec(publicKey, secretKey, res)

(***************************************************************************)
(* The tester implements the plaintext-level test modulo n, up to the      *)
(* calls in which a degenerate draw has come: every other step decrypts to *)
(* a step of AHETest, so the randomness of the ciphertexts never shows.    *)
(***************************************************************************)
AHESteps == AHE!Init /\ [][AHE!Next \/ ~Regular']_(AHE!vars)

Oracle == INSTANCE EqualityOracle
            WITH call <- AHE!CallOf(phase),
                 alice <- aliceNumber, bob <- bobNumber

(***************************************************************************)
(* On the ints the callers pass, negative ones included, the tester is the *)
(* equality oracle up to degenerate draws and scalars without inverse.     *)
(***************************************************************************)
UnitScalar == phase \in {"step2", "done"} => IsUnit(s)
OracleSteps ==
  Oracle!Init /\ [][Oracle!Next \/ ~(Regular /\ UnitScalar)']_(Oracle!vars)
=============================================================================
