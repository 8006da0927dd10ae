-------------------------- MODULE HomomorphicCalc --------------------------
(***************************************************************************)
(* What the scheme classes (PAILLIER, OU, NS, ECE, GM) offer their users:  *)
(* arithmetic on ciphertexts.  A user holds one ciphertext and replaces it *)
(* by its sum or difference with a fresh encryption or with itself, or by  *)
(* a scalar multiple, any number of times and in any order; the tests use  *)
(* one such sequence, Add and longer ones belong to the interface only.    *)
(*                                                                         *)
(* The scheme is given by the parameters; m is the plaintext the user      *)
(* believes to be under c.                                                 *)
(***************************************************************************)
EXTENDS Integers

CONSTANTS
  Keys,              \* key pairs, each with the plaintext modulus M
  FreshPlain,        \* plaintexts that are encrypted afresh
  Scalars(_),        \* scalars a user of the key may multiply by
  Fresh(_, _),       \* Fresh(key, x): the encryptions of x
  AddOp(_, _, _), SubOp(_, _, _), MulOp(_, _, _),
  Reads(_, _, _)     \* Reads(key, c, x): the secret key reads x off c

VARIABLES key, c, m

vars == <<key, c, m>>

Init == /\ key \in Keys
        /\ m \in FreshPlain
        /\ c \in Fresh(key, m)

Add(x) == /\ \E c2 \in Fresh(key, x) : c' = AddOp(key, c, c2)
          /\ m' = (m + x) % key.M
          /\ UNCHANGED key

Sub(x) == /\ \E c2 \in Fresh(key, x) : c' = SubOp(key, c, c2)
          /\ m' = (m - x) % key.M
          /\ UNCHANGED key

(* Both arguments the same ciphertext.                                     *)
Double == /\ c' = AddOp(key, c, c)
          /\ m' = (2 * m) % key.M
          /\ UNCHANGED key

Cancel == /\ c' = SubOp(key, c, c)
          /\ m' = 0
          /\ UNCHANGED key

Scalar_Mul(k) == /\ c' = MulOp(key, k, c)
                 /\ m' = (k * m) % key.M
                 /\ UNCHANGED key

Next == \/ \E x \in FreshPlain : Add(x)
        \/ \E x \in FreshPlain : Sub(x)
        \/ Double
        \/ Cancel
        \/ \E k \in Scalars(key) : Scalar_Mul(k)

Spec == Init /\ [][Next]_vars

(***************************************************************************)
(* Whatever was computed on a ciphertext, the secret key reads the         *)
(* plaintext arithmetic modulo M off it: no sequence of operations leaves  *)
(* the plaintext and its ciphertext apart.                                 *)
(***************************************************************************)
Homomorphic == Reads(key, c, m % key.M)
=============================================================================
