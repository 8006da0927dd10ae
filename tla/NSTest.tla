------------------------------- MODULE NSTest -------------------------------
(***************************************************************************)
(* NS_EqualityTest (src/NS/EqualityTest_NS.cpp): the loops of key          *)
(* generation, then calls of equalityTest one after the other.             *)
(***************************************************************************)
EXTENDS NS, FiniteSets, Sequences, Functions

CONSTANTS
  lambda, k, B,     \* bits of n, number of small primes, bits of each
  messageBits,      \* 256 in NS(), k*B-1 in NS(lambda, k, B)
  GRandom(_),       \* values of 0..n-1 that KeyGen may draw for g
  EncRandom(_),     \* values that Enc may draw for x
  ScalarRandom,     \* values that generate_random_element4 may return
  Word,             \* 2^32, the width int numbers are written in as hex
  Numbers           \* the ints the callers pass

ASSUME ParameterAssumption == {lambda, k, B, messageBits} \subseteq Nat \ {0}
ASSUME WordAssumption == Word \in Nat \ {0}
ASSUME NumbersAssumption == 0 \in Numbers /\ Numbers \subseteq Int
ASSUME RandomAssumption ==
  \A n \in two_to[lambda - 1]..(two_to[lambda] - 1) :
    GRandom(n) \subseteq 0..(n - 1) /\ EncRandom(n) \subseteq EncRandomElements(n)
ASSUME ScalarAssumption == ScalarRandom \subseteq ScalarElements(messageBits)

VARIABLES
  publicKey, secretKey,
  phase,
  aliceNumber, bobNumber,           \* arguments of equalityTest
  aliceCipherText, bobCipherText,   \* sent by Alice, computed by Bob
  s, res,                           \* Bob's scalar, the ciphertext he returns
  verdict                           \* what the call returned

keyVars == <<publicKey, secretKey>>
callVars == <<aliceNumber, bobNumber, aliceCipherText, bobCipherText,
              s, res, verdict>>
vars == <<keyVars, phase, callVars>>

Init == /\ publicKey = [n |-> 0, g |-> 0, sigma |-> 0]
        /\ secretKey = [primes |-> <<>>, p |-> 0, q |-> 0]
        /\ phase = "primes"
        /\ aliceNumber = 0 /\ bobNumber = 0
        /\ aliceCipherText = 0 /\ bobCipherText = 0
        /\ s = 0 /\ res = 0
        /\ verdict = FALSE

(* One round of pickPrimes: a prime already in the list is dropped.        *)
PickPrime ==
  /\ phase = "primes"
  /\ \E prime \in PrimesOfBits(B) :
       LET primes == secretKey.primes
           isUnique == prime \notin Range(primes)
           picked == IF isUnique THEN Append(primes, prime) ELSE primes
       IN /\ secretKey' = [secretKey EXCEPT !.primes = picked]
          /\ phase' = IF Len(picked) < k THEN "primes" ELSE "p"
  /\ UNCHANGED <<publicKey, callVars>>

(* The loops for p, for q and for g end with an accepted draw; a refused   *)
(* one changes nothing that is read again.                                 *)
DrawP ==
  /\ phase = "p"
  /\ \E p \in FactorsP(secretKey.primes, k, lambda) :
       secretKey' = [secretKey EXCEPT !.p = p]
  /\ phase' = "q"
  /\ UNCHANGED <<publicKey, callVars>>

(* Mutant of DrawQ: q itself must have half the bits.                      *)
DrawQ_Half ==
  /\ phase = "q"
  /\ \E q \in FactorsQ(secretKey.primes, k, lambda, secretKey.p) :
       /\ HasBits(q, lambda \div 2)
       /\ secretKey' = [secretKey EXCEPT !.q = q]
  /\ phase' = "g"
  /\ UNCHANGED <<publicKey, callVars>>

DrawQ ==
  /\ phase = "q"
  /\ \E q \in FactorsQ(secretKey.primes, k, lambda, secretKey.p) :
       secretKey' = [secretKey EXCEPT !.q = q]
  /\ phase' = "g"
  /\ UNCHANGED <<publicKey, callVars>>

DrawG ==
  /\ phase = "g"
  /\ \E g \in GRandom(secretKey.p * secretKey.q) :
       /\ usable_g(secretKey, secretKey.p * secretKey.q, g)
       /\ publicKey' = PublicKey(secretKey, k, g)
  /\ phase' = "ready"
  /\ UNCHANGED <<secretKey, callVars>>

(* A loop none of whose draws can be accepted runs for ever.               *)
Retry ==
  /\ phase \in {"p", "q", "g"}
  /\ UNCHANGED vars

(* The plaintext of an int: written by `hex` as an unsigned word, read     *)
(* back by BN_hex2bn.                                                      *)
Encode(x) == x % Word

Step1(x, y) ==
  /\ phase = "ready"
  /\ phase' = "step1"
  /\ aliceNumber' = x /\ bobNumber' = y
  /\ \E r \in EncRandom(publicKey.n) :
       aliceCipherText' = Enc(publicKey, Encode(x), r)
  /\ UNCHANGED <<keyVars, bobCipherText, s, res, verdict>>

Step2 ==
  /\ phase = "step1"
  /\ phase' = "step2"
  /\ \E r \in EncRandom(publicKey.n) :
       bobCipherText' = Enc(publicKey, Encode(bobNumber), r)
  /\ LET subResult == Sub(publicKey, aliceCipherText, bobCipherText')
     IN \E x \in ScalarRandom :
          /\ s' = x
          /\ res' = Scalar_Mul(publicKey, x, subResult)
  /\ UNCHANGED <<keyVars, aliceNumber, bobNumber, aliceCipherText, verdict>>

Step3 ==
  /\ phase = "step2"
  /\ phase' = "done"
  /\ verdict' = isZero(publicKey, secretKey, res)
  /\ UNCHANGED <<keyVars, aliceNumber, bobNumber, aliceCipherText,
                 bobCipherText, s, res>>

(* The arguments, locals and answer of a call do not outlive it.           *)
Return == /\ phase = "done"
          /\ phase' = "ready"
          /\ aliceNumber' = 0 /\ bobNumber' = 0
          /\ aliceCipherText' = 0 /\ bobCipherText' = 0
          /\ s' = 0 /\ res' = 0
          /\ verdict' = FALSE
          /\ UNCHANGED keyVars

Next == \/ PickPrime
        \/ DrawP
        \/ DrawQ
        \/ DrawG
        \/ Retry
        \/ \E x, y \in Numbers : Step1(x, y)
        \/ Step2
        \/ Step3
        \/ Return

(* A draw that can be accepted keeps a positive probability in each of the *)
(* independent rounds of its loop.                                         *)
Fairness == /\ SF_vars(PickPrime) /\ SF_vars(DrawP)
            /\ SF_vars(DrawQ) /\ SF_vars(DrawG)

Spec == Init /\ [][Next]_vars /\ Fairness

----------------------------------------------------------------------------

Keyed == phase \notin {"primes", "p", "q", "g"}

IsUnit(c) == Coprime(c, publicKey.n)
Difference == Encode(aliceNumber) - Encode(bobNumber)

(***************************************************************************)
(* Unlike in the other schemes a ciphertext without inverse, Alice's or    *)
(* Bob's, always makes the test answer "different".                        *)
(***************************************************************************)
NonUnitRejects ==
  (phase = "done" /\ ~(IsUnit(aliceCipherText) /\ IsUnit(bobCipherText)))
    => ~verdict

(***************************************************************************)
(* A scalar too small to carry the difference of the numbers to sigma, and *)
(* with the parameters of NS() all of them are, never accepts two          *)
(* different numbers, whatever key and randomness were drawn.              *)
(***************************************************************************)
NoFalseAccept ==
  (phase = "done" /\ verdict /\ -publicKey.sigma < s * Difference
                 /\ s * Difference < publicKey.sigma)
    => Difference = 0

(***************************************************************************)
(* Every loop of KeyGen ends if a draw can end it: pickPrimes when there   *)
(* are k primes of B bits, the others when some prime a, b or some g fits. *)
(***************************************************************************)
PickPrimesEnds ==
  Cardinality(PrimesOfBits(B)) >= k => (phase = "primes" ~> phase # "primes")
DrawsEnd ==
  (/\ phase = "p"
   /\ \E primes \in {secretKey.primes} :
        \E p \in FactorsP(primes, k, lambda) :
          FactorsQ(primes, k, lambda, p) # {})
    ~> Keyed
KeyGenEnds == PickPrimesEnds /\ DrawsEnd

(* No g and no ciphertext that shares a factor with n.                     *)
Regular ==
  /\ Keyed => IsUnit(publicKey.g)
  /\ phase \in {"step1", "step2", "done"} => IsUnit(aliceCipherText)
  /\ phase \in {"step2", "done"} => IsUnit(bobCipherText)

(* The plaintext under c, a discrete logarithm modulo sigma that the code  *)
(* never computes.                                                         *)
Plain(c) ==
  LET e == ((secretKey.p - 1) * (secretKey.q - 1)) \div publicKey.sigma
      g_e == mod_exp(publicKey.g, e, publicKey.n)
      c_e == mod_exp(c, e, publicKey.n)
  IN  CHOOSE m \in 0..(publicKey.sigma - 1) :
        mod_exp(g_e, m, publicKey.n) = c_e

Sigmas == {u(primes, k) * v(primes, k) :
             primes \in {P \in [1..k -> PrimesOfBits(B)] : IsInjective(P)}}

AHE == INSTANCE AHETest
         WITH Moduli <- Sigmas,
              Plaintexts <- {Encode(x) : x \in Numbers},
              Blinders <- LAMBDA m : ScalarRandom,
              M <- publicKey.sigma,
              phase <- IF Keyed THEN phase ELSE "nokey",
              alice <- Encode(aliceNumber), bob <- Encode(bobNumber),
              res <- IF phase \in {"step2", "done"} /\ Regular
                     THEN Plain(res) ELSE 0

(***************************************************************************)
(* With an invertible g and invertible ciphertexts the tester implements   *)
(* the plaintext-level test modulo sigma, though it never decrypts: isZero *)
(* finds a zero plaintext exactly.                                         *)
(***************************************************************************)
AHESteps == AHE!Init /\ [][AHE!Next \/ ~Regular']_(AHE!vars)
=============================================================================
