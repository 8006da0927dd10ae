--------------------------------- MODULE GM ---------------------------------
(***************************************************************************)
(* The methods of class GM (src/GM/GM.cpp), Goldwasser-Micali encryption   *)
(* of single bits, as functions of their arguments; the hexadecimal        *)
(* overloads are the BIGNUM ones (see Paillier).  A bit is TRUE or FALSE.  *)
(***************************************************************************)
EXTENDS BigNum

PublicKey(p, q, g) == [n |-> p * q, g |-> g]
SecretKey(p, q) == [p |-> p, q |-> q]

(* What KeyGen's loop asks of g.  A multiple of p or of q passes: its      *)
(* power is 0, not 1.                                                      *)
UsableG(p, q, g) == /\ mod_exp(g, div(p - 1, 2), p) # 1
                    /\ mod_exp(g, div(q - 1, 2), q) # 1

(* The random numbers the loop of Enc ends with.                           *)
EncRandomElements(n) == Units(n)

Enc(pk, bit, r) ==
  LET r_to_2 == mod_exp(r, 2, pk.n)
  IN  IF bit THEN mod_mul(pk.g, r_to_2, pk.n) ELSE r_to_2

(* Mutant of Dec: the bits are swapped.                                    *)
Dec_Swapped(sk, c) == /\ mod_exp(c, div(sk.p, 2), sk.p) = 1
                      /\ mod_exp(c, div(sk.q, 2), sk.q) = 1

(* FALSE exactly when c passes Euler's criterion modulo p and modulo q.    *)
(* The code computes (p-1)/2 as p/2, the same for odd p.                   *)
Dec(sk, c) == ~ /\ mod_exp(c, div(sk.p, 2), sk.p) = 1
                /\ mod_exp(c, div(sk.q, 2), sk.q) = 1

XOR(pk, c1, c2) == mod_mul(c1, c2, pk.n)
=============================================================================
