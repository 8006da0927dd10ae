-------------------------------- MODULE ECE --------------------------------
(***************************************************************************)
(* The methods of class ECE (src/ECE/ECE.cpp), ElGamal encryption in the   *)
(* exponent over the group of P-256.                                       *)
(*                                                                         *)
(* The group is external (OpenSSL).  It is cyclic of prime order q with    *)
(* generator G, so a point is represented by the k in 0..q-1 with point =  *)
(* kG: 0 is the point at infinity, and the EC_POINT operations are         *)
(* addition, negation and multiplication modulo q.  The methods exchange   *)
(* points as hexadecimal text, which EC_POINT_point2hex and                *)
(* EC_POINT_hex2point convert without loss.                                *)
(***************************************************************************)
EXTENDS Integers

CONSTANT q               \* the order of the group

ASSUME OrderAssumption == q \in Nat \ {0}

Points == 0..(q - 1)
Infinity == 0
CipherTexts == [C1 : Points, C2 : Points]

point_add(P, Q) == (P + Q) % q
point_invert(P) == (-P) % q
point_mul(k, P) == (k * P) % q
base_mul(k) == k % q                       \* kG

(* EC_POINT_point2hex in uncompressed form: "04" and the coordinates, or   *)
(* "00" for the point at infinity.  Only the first two digits matter.      *)
point2hex(P) == IF P = Infinity THEN <<0, 0>> ELSE <<0, 4>>

(* BN_rand_range(r, q)                                                     *)
RandomElements == 0..(q - 1)

PublicPoint(x) == base_mul(x)

Enc(X, m, r) == [C1 |-> base_mul(r),
                 C2 |-> point_add(base_mul(m), point_mul(r, X))]

(* The point the text returned by Dec stands for.                          *)
DecPoint(x, C) == point_add(point_invert(point_mul(x, C.C1)), C.C2)
Dec(x, C) == point2hex(DecPoint(x, C))

(* Mutant of Scalar_Mul: C1 is not multiplied.                             *)
Scalar_Mul_C2(s, C) == [C1 |-> C.C1, C2 |-> point_mul(s, C.C2)]

Scalar_Mul(s, C) == [C1 |-> point_mul(s, C.C1), C2 |-> point_mul(s, C.C2)]

Add(Ci, Cj) == [C1 |-> point_add(Ci.C1, Cj.C1),
                C2 |-> point_add(Ci.C2, Cj.C2)]

(* Mutant of Sub: C2 of the second ciphertext is not inverted.             *)
Sub_NoInvert(Ci, Cj) == [C1 |-> point_add(Ci.C1, point_invert(Cj.C1)),
                         C2 |-> point_add(Ci.C2, Cj.C2)]

Sub(Ci, Cj) == [C1 |-> point_add(Ci.C1, point_invert(Cj.C1)),
                C2 |-> point_add(Ci.C2, point_invert(Cj.C2))]
=============================================================================
