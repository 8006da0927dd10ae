------------------------------ MODULE ECETest ------------------------------
(***************************************************************************)
(* ECE_EqualityTest (src/ECE/EqualityTest_ECE.cpp): key generation, then   *)
(* calls of equalityTest one after the other.                              *)
(***************************************************************************)
EXTENDS ECE

CONSTANTS
  Word,             \* 2^32, the width int numbers are written in as hex
  Numbers,          \* the ints the callers pass
  ScalarRandom(_)   \* values that getRandomElement may return

ASSUME WordAssumption == Word \in Nat \ {0}
ASSUME NumbersAssumption == 0 \in Numbers /\ Numbers \subseteq Int
ASSUME ScalarAssumption == ScalarRandom(q) \subseteq RandomElements

VARIABLES
  x, X,                             \* private and public key, in object ece
  phase,
  aliceNumber, bobNumber,           \* arguments of equalityTest
  aliceCipherText, bobCipherText,   \* sent by Alice, computed by Bob
  s, res,                           \* Bob's scalar, the ciphertext he returns
  verdict                           \* what the call returned

vars == <<x, X, phase, aliceNumber, bobNumber,
          aliceCipherText, bobCipherText, s, res, verdict>>

callVars == <<aliceNumber, bobNumber, aliceCipherText, bobCipherText,
              s, res, verdict>>

NoCipherText == [C1 |-> Infinity, C2 |-> Infinity]

Init == /\ x = 0 /\ X = Infinity
        /\ phase = "nokey"
        /\ aliceNumber = 0 /\ bobNumber = 0
        /\ aliceCipherText = NoCipherText /\ bobCipherText = NoCipherText
        /\ s = 0 /\ res = NoCipherText
        /\ verdict = FALSE

keyGen == /\ phase = "nokey"
          /\ phase' = "ready"
          /\ x' \in RandomElements
          /\ X' = PublicPoint(x')
          /\ UNCHANGED callVars

(* The plaintext of an int: written by `hex` as an unsigned word, read     *)
(* back by BN_hex2bn.                                                      *)
Encode(i) == i % Word

Step1(i, j) ==
  /\ phase = "ready"
  /\ phase' = "step1"
  /\ aliceNumber' = i /\ bobNumber' = j
  /\ \E r \in RandomElements : aliceCipherText' = Enc(X, Encode(i), r)
  /\ UNCHANGED <<x, X, bobCipherText, s, res, verdict>>

(* Unlike the other schemes this one subtracts Alice from Bob.             *)
Step2 ==
  /\ phase = "step1"
  /\ phase' = "step2"
  /\ \E r \in RandomElements : bobCipherText' = Enc(X, Encode(bobNumber), r)
  /\ \E k \in ScalarRandom(q) :
       /\ s' = k
       /\ res' = Scalar_Mul(k, Sub(bobCipherText', aliceCipherText))
  /\ UNCHANGED <<x, X, aliceNumber, bobNumber, aliceCipherText, verdict>>

(* The second hexadecimal digit of the decrypted point is compared with    *)
(* '0': only the point at infinity has it.                                 *)
Step3 ==
  /\ phase = "step2"
  /\ phase' = "done"
  /\ verdict' = (Dec(x, res)[2] = 0)
  /\ UNCHANGED <<x, X, aliceNumber, bobNumber,
                 aliceCipherText, bobCipherText, s, res>>

(* The arguments, locals and answer of a call do not outlive it.           *)
Return == /\ phase = "done"
          /\ phase' = "ready"
          /\ aliceNumber' = 0 /\ bobNumber' = 0
          /\ aliceCipherText' = NoCipherText /\ bobCipherText' = NoCipherText
          /\ s' = 0 /\ res' = NoCipherText
          /\ verdict' = FALSE
          /\ UNCHANGED <<x, X>>

Next == \/ keyGen
        \/ \E i, j \in Numbers : Step1(i, j)
        \/ Step2
        \/ Step3
        \/ Return

Spec == Init /\ [][Next]_vars

----------------------------------------------------------------------------

TypeOK == /\ x \in 0..(q - 1) /\ X \in Points
          /\ phase \in {"nokey", "ready", "step1", "step2", "done"}
          /\ aliceNumber \in Numbers /\ bobNumber \in Numbers
          /\ aliceCipherText \in CipherTexts /\ bobCipherText \in CipherTexts
          /\ s \in 0..(q - 1) /\ res \in CipherTexts
          /\ verdict \in BOOLEAN

(***************************************************************************)
(* The answer is exactly whether the scalar maps the difference of the     *)
(* numbers to zero modulo the order of the group, for every key, every     *)
(* encryption randomness and every scalar, zero included.                  *)
(***************************************************************************)
VerdictExact ==
  phase = "done" =>
    (verdict <=> (s * (Encode(bobNumber) - Encode(aliceNumber))) % q = 0)

(***************************************************************************)
(* The tester implements the plaintext-level test, with the two parties in *)
(* each other's role.                                                      *)
(***************************************************************************)
AHE == INSTANCE AHETest
         WITH Moduli <- {q},
              Plaintexts <- {Encode(i) : i \in Numbers},
              Blinders <- ScalarRandom,
              M <- IF phase = "nokey" THEN 0 ELSE q,
              alice <- Encode(bobNumber), bob <- Encode(aliceNumber),
              res <- DecPoint(x, res)
AHESpec == AHE!Spec
=============================================================================
