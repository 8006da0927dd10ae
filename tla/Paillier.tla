------------------------------ MODULE Paillier ------------------------------
(***************************************************************************)
(* The methods of class PAILLIER (src/Paillier/Paillier.cpp) as functions  *)
(* of their arguments.  The overloads that take and return hexadecimal     *)
(* strings wrap the BIGNUM ones: BN_hex2bn and BN_bn2hex are inverse to    *)
(* each other on the non-negative numbers passed here, so both overloads   *)
(* are the one operator on numbers.                                        *)
(***************************************************************************)
EXTENDS BigNum

n_2(pk) == pk.n * pk.n

L(x, n) == div(x - 1, n)

(* The key pair KeyGen computes from the two primes it generated.          *)
PublicKey(p, q) == [n |-> p * q, g |-> p * q + 1]

SecretKey(p, q) ==
  LET pk == PublicKey(p, q)
      lambda == (p - 1) * (q - 1)
      L_g_lambda == L(mod_exp(pk.g, lambda, n_2(pk)), pk.n)
  IN [lambda |-> lambda, mu |-> mod_inverse(L_g_lambda, pk.n)]

(* generate_random_element1: BN_rand_range(random, pk.n).                  *)
random_element(pk) == 0..(pk.n - 1)

(* Enc with the random number r it draws.                                  *)
Enc(pk, m, r) ==
  mod_mul(mod_exp(pk.g, m, n_2(pk)), mod_exp(r, pk.n, n_2(pk)), n_2(pk))

Dec(pk, sk, c) ==
  LET c_lambda == L(mod_exp(c, sk.lambda, n_2(pk)), pk.n)
  IN  mod_mul(c_lambda, sk.mu, pk.n)

(* Mutant of Add: reduced modulo n instead of n^2.                         *)
Add_ModN(pk, c1, c2) == mod_mul(c1, c2, pk.n)

Add(pk, c1, c2) == mod_mul(c1, c2, n_2(pk))

(* Mutants of Sub: the inverse is forgotten; a failed inverse is skipped.  *)
Sub_Adds(pk, c1, c2) == mod_mul(c1, c2, n_2(pk))
Sub_Skips(pk, c1, c2) ==
  IF Coprime(c2, pk.n) THEN mod_mul(c1, mod_inverse(c2, n_2(pk)), n_2(pk))
  ELSE c1

Sub(pk, c1, c2) == mod_mul(c1, mod_inverse(c2, n_2(pk)), n_2(pk))

(* Mutant of Scalar_Mul: reduced modulo n instead of n^2.                  *)
Scalar_Mul_ModN(pk, s, c) == mod_exp(c, s, pk.n)

Scalar_Mul(pk, s, c) == mod_exp(c, s, n_2(pk))
=============================================================================
