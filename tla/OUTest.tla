------------------------------- MODULE OUTest -------------------------------
(***************************************************************************)
(* OU_EqualityTest (src/OU/EqualityTest_OU.cpp): key generation with its   *)
(* two rejection loops, then calls of equalityTest one after the other.    *)
(***************************************************************************)
EXTENDS OU

CONSTANTS
  lambda,           \* the bits of p and q, 1024 in keyGen
  ModulusBits,      \* the length KeyGen insists on, 3072 whatever lambda is
  GRandom(_),       \* values of 0..n-1 that KeyGen's BN_rand_range may return
  EncRandom(_),     \* the same for Enc
  ScalarRandom(_),  \* and for generate_random_element2
  Word,             \* 2^32, the width int numbers are written in as hex
  Numbers           \* the ints the callers pass

ASSUME WordAssumption == Word \in Nat \ {0}
ASSUME NumbersAssumption == 0 \in Numbers /\ Numbers \subseteq Int
ASSUME RandomAssumption ==
  \A p, q \in PrimesOfBits(lambda) : LET n == p * p * q IN
    GRandom(n) \cup EncRandom(n) \cup ScalarRandom(n) \subseteq 0..(n - 1)

VARIABLES
  publicKey, secretKey,
  phase,
  aliceNumber, bobNumber,           \* arguments of equalityTest
  aliceCipherText, bobCipherText,   \* sent by Alice, computed by Bob
  s, res,                           \* Bob's scalar, the ciphertext he returns
  verdict                           \* what the call returned

vars == <<publicKey, secretKey, phase, aliceNumber, bobNumber,
          aliceCipherText, bobCipherText, s, res, verdict>>

callVars == <<aliceNumber, bobNumber, aliceCipherText, bobCipherText,
              s, res, verdict>>

Init == /\ publicKey = [n |-> 0, g |-> 0, h |-> 0]
        /\ secretKey = [p |-> 0, q |-> 0]
        /\ phase = "nokey"
        /\ aliceNumber = 0 /\ bobNumber = 0
        /\ aliceCipherText = 0 /\ bobCipherText = 0
        /\ s = 0 /\ res = 0
        /\ verdict = FALSE

(* One round of KeyGen's first loop; it ends when n has ModulusBits bits.  *)
DrawPrimes ==
  /\ phase = "nokey"
  /\ \E p, q \in PrimesOfBits(lambda) :
       /\ secretKey' = [p |-> p, q |-> q]
       /\ publicKey' = [publicKey EXCEPT !.n = p * p * q]
       /\ phase' = IF UsableModulus(p, q, ModulusBits) THEN "modulus"
                   ELSE "nokey"
  /\ UNCHANGED callVars

(* One round of the second loop, then h.                                   *)
DrawG ==
  /\ phase = "modulus"
  /\ \E g \in GRandom(publicKey.n) :
       IF UsableG(g, secretKey.p)
       THEN /\ publicKey' = PublicKey(secretKey.p, secretKey.q, g)
            /\ phase' = "ready"
       ELSE /\ publicKey' = [publicKey EXCEPT !.g = g]
            /\ UNCHANGED phase
  /\ UNCHANGED <<secretKey, callVars>>

(* The plaintext of an int: written by `hex` as an unsigned word, read     *)
(* back by BN_hex2bn.                                                      *)
Encode(x) == x % Word

Step1(x, y) ==
  /\ phase = "ready"
  /\ phase' = "step1"
  /\ aliceNumber' = x /\ bobNumber' = y
  /\ \E r \in EncRandom(publicKey.n) :
       aliceCipherText' = Enc(publicKey, Encode(x), r)
  /\ UNCHANGED <<publicKey, secretKey, bobCipherText, s, res, verdict>>

Step2 ==
  /\ phase = "step1"
  /\ phase' = "step2"
  /\ \E r \in EncRandom(publicKey.n) :
       bobCipherText' = Enc(publicKey, Encode(bobNumber), r)
  /\ LET subResult == Sub(publicKey, aliceCipherText, bobCipherText')
     IN \E x \in ScalarRandom(publicKey.n) :
          /\ s' = x
          /\ res' = Scalar_Mul(publicKey, x, subResult)
  /\ UNCHANGED <<publicKey, secretKey, aliceNumber, bobNumber,
                 aliceCipherText, verdict>>

Step3 ==
  /\ phase = "step2"
  /\ phase' = "done"
  /\ verdict' = (Dec(publicKey, secretKey, res) = 0)
  /\ UNCHANGED <<publicKey, secretKey, aliceNumber, bobNumber,
                 aliceCipherText, bobCipherText, s, res>>

(* The arguments, locals and answer of a call do not outlive it.           *)
Return == /\ phase = "done"
          /\ phase' = "ready"
          /\ aliceNumber' = 0 /\ bobNumber' = 0
          /\ aliceCipherText' = 0 /\ bobCipherText' = 0
          /\ s' = 0 /\ res' = 0
          /\ verdict' = FALSE
          /\ UNCHANGED <<publicKey, secretKey>>

Next == \/ DrawPrimes
        \/ DrawG
        \/ \E x, y \in Numbers : Step1(x, y)
        \/ Step2
        \/ Step3
        \/ Return

(* A loop of independent random draws ends when it can: each draw that     *)
(* ends it keeps a positive probability, hence strong fairness.            *)
Fairness == /\ SF_vars(DrawPrimes /\ phase' = "modulus")
            /\ SF_vars(DrawG /\ phase' = "ready")

Spec == Init /\ [][Next]_vars /\ Fairness

----------------------------------------------------------------------------

IsUnit(c) == Coprime(c, publicKey.n)

(***************************************************************************)
(* Under any key KeyGen accepts, an invertible g or not, equal numbers     *)
(* are accepted.                                                           *)
(***************************************************************************)
EqualAccepted == (phase = "done" /\ aliceNumber = bobNumber) => verdict

(***************************************************************************)
(* KeyGen ends, with a modulus of the wanted length, whenever some pair of *)
(* primes of lambda bits gives that length.  OU(lambda) with lambda other  *)
(* than 1024 gives none, since the length is the literal 3072.             *)
(***************************************************************************)
KeyGenEnds ==
  (\E p, q \in PrimesOfBits(lambda) : UsableModulus(p, q, ModulusBits))
    => <>(phase = "ready" /\ HasBits(publicKey.n, ModulusBits))

Keyed == phase \notin {"nokey", "modulus"}

(* An invertible g: a key whose ciphertexts are all invertible.            *)
Regular == Keyed => IsUnit(publicKey.g)

(* The scalars Bob may draw under some key whose plaintext modulus is p.   *)
Scalars(p) == UNION {ScalarRandom(p * p * q) : q \in PrimesOfBits(lambda)}

AHE == INSTANCE AHETest
         WITH Moduli <- PrimesOfBits(lambda),
              Plaintexts <- {Encode(x) : x \in Numbers},
              Blinders <- Scalars,
              M <- IF Keyed THEN secretKey.p ELSE 0,
              phase <- IF Keyed THEN phase ELSE "nokey",
              alice <- Encode(aliceNumber), bob <- Encode(bobNumber),
              res <- IF Keyed THEN Dec(publicKey, secretKey, res) ELSE 0

(***************************************************************************)
(* With an invertible g the tester implements the plaintext-level test     *)
(* modulo p, for equal primes too.  Its scalars come from 0..n-1, so the   *)
(* nonzero multiples of p among them make it accept unequal numbers.       *)
(***************************************************************************)
AHESteps == AHE!Init /\ [][AHE!Next \/ ~Regular']_(AHE!vars)
=============================================================================
