--------------------------------- MODULE OU ---------------------------------
(***************************************************************************)
(* The methods of class OU (src/OU/OU.cpp), Okamoto-Uchiyama encryption,   *)
(* as functions of their arguments; the hexadecimal overloads are the      *)
(* BIGNUM ones (see Paillier).  n = p^2 * q, plaintexts live modulo p.     *)
(***************************************************************************)
EXTENDS BigNum

L(x, p) == div(x - 1, p)

(* KeyGen repeats the draw of p and q until n has the wanted length, and   *)
(* the draw of g until g^(p-1) mod p^2 is not 1.  It does not ask g to be  *)
(* invertible modulo n.                                                    *)
UsableModulus(p, q, bits) == HasBits(p * p * q, bits)
UsableG(g, p) == mod_exp(g, p - 1, p * p) # 1

(* Mutant of PublicKey: n is p*q.                                          *)
PublicKey_PQ(p, q, g) ==
  LET n == p * q IN [n |-> n, g |-> g, h |-> mod_exp(g, n, n)]

PublicKey(p, q, g) ==
  LET n == p * p * q IN [n |-> n, g |-> g, h |-> mod_exp(g, n, n)]

Enc(pk, m, r) ==
  mod_mul(mod_exp(pk.g, m, pk.n), mod_exp(pk.h, r, pk.n), pk.n)

(* Mutant of Dec: not divided by L of g.                                   *)
Dec_NoG(pk, sk, c) == L(mod_exp(c, sk.p - 1, sk.p * sk.p), sk.p)

Dec(pk, sk, c) ==
  LET p_2 == sk.p * sk.p
      L_c_p == L(mod_exp(c, sk.p - 1, p_2), sk.p)
      L_g_p == L(mod_exp(pk.g, sk.p - 1, p_2), sk.p)
  IN  mod_mul(L_c_p, mod_inverse(L_g_p, sk.p), sk.p)

Add(pk, c1, c2) == mod_mul(c1, c2, pk.n)

(* Mutant of Sub: the inverse is forgotten.                                *)
Sub_Adds(pk, c1, c2) == mod_mul(c1, c2, pk.n)

Sub(pk, c1, c2) == mod_mul(c1, mod_inverse(c2, pk.n), pk.n)

Scalar_Mul(pk, s, c) == mod_exp(c, s, pk.n)
=============================================================================
