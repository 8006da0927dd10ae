------------------------------ MODULE AHETest ------------------------------
(***************************************************************************)
(* What the equalityTest methods of Paillier, Okamoto-Uchiyama (OU),       *)
(* Naccache-Stern (NS) and EC-ElGamal (ECE) have in common, seen through   *)
(* decryption: the parties compare two plaintexts of an additively         *)
(* homomorphic encryption whose plaintexts are the integers modulo M.      *)
(* Alice encrypts her number (step 1), Bob subtracts the two ciphertexts   *)
(* and multiplies the difference by a random scalar (step 2), Alice        *)
(* decrypts and accepts when the plaintext is zero (step 3).               *)
(*                                                                         *)
(* A tester object generates its key once and then runs any number of      *)
(* tests, one after the other, as ProtocolTest does.                       *)
(***************************************************************************)
EXTENDS Integers

CONSTANTS Moduli,        \* the plaintext moduli key generation may produce
          Plaintexts,    \* the encoded numbers
          Blinders(_)    \* the scalars that may be drawn under a modulus

ASSUME ModuliAssumption == Moduli \subseteq Nat \ {0}
ASSUME PlaintextsAssumption == 0 \in Plaintexts /\ Plaintexts \subseteq Int
ASSUME BlindersAssumption == \A m \in Moduli : Blinders(m) \subseteq Nat

VARIABLES M,             \* plaintext modulus of the generated key, 0 before
          phase,         \* how far the current test has come
          alice, bob,    \* the two encoded numbers
          s,             \* the scalar Bob drew last
          res,           \* the plaintext under the ciphertext Bob returns
          verdict        \* what the test answered

vars == <<M, phase, alice, bob, s, res, verdict>>

Phases == {"nokey", "ready", "step1", "step2", "done"}

Init == /\ M = 0
        /\ phase = "nokey"
        /\ alice = 0 /\ bob = 0
        /\ s = 0 /\ res = 0
        /\ verdict = FALSE

KeyGen == /\ phase = "nokey"
          /\ M' \in Moduli
          /\ phase' = "ready"
          /\ UNCHANGED <<alice, bob, s, res, verdict>>

Step1(x, y) == /\ phase = "ready"
               /\ phase' = "step1"
               /\ alice' = x /\ bob' = y
               /\ UNCHANGED <<M, s, res, verdict>>

(* Mutant of Step2: the plaintexts are added.                              *)
Step2_Adds(x) == /\ phase = "step1"
                 /\ phase' = "step2"
                 /\ s' = x
                 /\ res' = (x * ((alice + bob) % M)) % M
                 /\ UNCHANGED <<M, alice, bob, verdict>>

Step2(x) == /\ phase = "step1"
            /\ phase' = "step2"
            /\ s' = x
            /\ res' = (x * ((alice - bob) % M)) % M
            /\ UNCHANGED <<M, alice, bob, verdict>>

(* Mutant of Step3: the parity of the plaintext is tested.                 *)
Step3_Parity == /\ phase = "step2"
                /\ phase' = "done"
                /\ verdict' = (res % 2 = 0)
                /\ UNCHANGED <<M, alice, bob, s, res>>

Step3 == /\ phase = "step2"
         /\ phase' = "done"
         /\ verdict' = (res = 0)
         /\ UNCHANGED <<M, alice, bob, s, res>>

(* Nothing of a call outlives it but the key it used.                      *)
Return == /\ phase = "done"
          /\ phase' = "ready"
          /\ alice' = 0 /\ bob' = 0
          /\ s' = 0 /\ res' = 0
          /\ verdict' = FALSE
          /\ UNCHANGED M

Next == \/ KeyGen
        \/ \E x, y \in Plaintexts : Step1(x, y)
        \/ \E x \in Blinders(M) : Step2(x)
        \/ Step3
        \/ Return

Spec == Init /\ [][Next]_vars

----------------------------------------------------------------------------

TypeOK == /\ M \in Moduli \cup {0}
          /\ phase \in Phases
          /\ (phase # "nokey") => M \in Moduli
          /\ alice \in Plaintexts /\ bob \in Plaintexts
          /\ s \in Nat /\ res \in Nat
          /\ verdict \in BOOLEAN

(***************************************************************************)
(* A finished test on two equal numbers always accepts, whatever key and   *)
(* scalar were drawn and whatever tests the tester ran before.             *)
(***************************************************************************)
EqualAccepted == (phase = "done" /\ alice = bob) => verdict

(***************************************************************************)
(* A finished test that accepts two numbers that differ modulo M did so    *)
(* because the scalar of this very test is a zero divisor of their         *)
(* difference.                                                             *)
(***************************************************************************)
FalseAcceptExplained ==
  (phase = "done" /\ verdict /\ (alice - bob) % M # 0) =>
     /\ s \in Blinders(M)
     /\ (s * ((alice - bob) % M)) % M = 0

(***************************************************************************)
(* The scalars blind soundly: none maps a nonzero residue to zero, and the *)
(* plaintexts are pairwise distinct modulo every modulus.                  *)
(***************************************************************************)
SoundBlinding ==
  \A m \in Moduli :
    /\ \A x \in Blinders(m) : \A d \in 1..(m - 1) : (x * d) % m # 0
    /\ \A x, y \in Plaintexts : x # y => (x - y) % m # 0

CallOf(ph) == IF ph \in {"step1", "step2"} THEN "running"
              ELSE IF ph = "done" THEN "answered" ELSE "none"

(***************************************************************************)
(* The equality oracle this specification implements when SoundBlinding    *)
(* holds.                                                                  *)
(***************************************************************************)
Oracle == INSTANCE EqualityOracle
            WITH Numbers <- Plaintexts, call <- CallOf(phase)

(* When the scalars blind soundly, the test is the equality oracle.        *)
OracleSpec == Oracle!Spec
=============================================================================
