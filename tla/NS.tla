--------------------------------- MODULE NS ---------------------------------
(***************************************************************************)
(* The methods of class NS (src/NS/NS.cpp), the Naccache-Stern encryption, *)
(* as functions of their arguments; the hexadecimal overloads are the      *)
(* BIGNUM ones (see Paillier).  Plaintexts live modulo sigma, the product  *)
(* of k small distinct primes: those of the first half of the list divide  *)
(* p-1, those of the second half q-1.                                      *)
(***************************************************************************)
EXTENDS BigNum

(* The product of the primes from the first-th to the last-th of the list. *)
multiply(primes, first, last) ==
  LET product[i \in 0..last] ==
        IF i < first THEN 1 ELSE product[i - 1] * primes[i]
  IN  product[last]

u(primes, k) == multiply(primes, 1, k \div 2)
v(primes, k) == multiply(primes, k \div 2 + 1, k)

(* The bits of x: BN_num_bits.                                             *)
num_bits(x) == CHOOSE len \in 1..x : HasBits(x, len)

(* What the two do-while loops of KeyGen accept as p and as q.             *)
FactorsP(primes, k, lambda) ==
  LET up == u(primes, k)
  IN  {p \in {2 * a * up + 1 :
                a \in PrimesOfBits(lambda \div 2 - num_bits(up) - 1)} :
         HasBits(p, lambda \div 2) /\ IsPrime(p)}

FactorsQ(primes, k, lambda, p) ==
  LET vq == v(primes, k)
  IN  {q \in {2 * b * vq + 1 :
                b \in PrimesOfBits(lambda \div 2 - num_bits(vq))} :
         IsPrime(q) /\ HasBits(p * q, lambda)}

pi_n(sk, n) == mod_mul(sk.p - 1, sk.q - 1, n)

(* Mutant of usable_g: only the first prime is tested.                     *)
usable_g_First(sk, n, g) ==
  mod_exp(g, mod_mul(pi_n(sk, n), mod_inverse(sk.primes[1], n), n), n) # 1

(* The test the last loop of KeyGen puts to g; it does not ask g to be     *)
(* invertible modulo n.                                                    *)
usable_g(sk, n, g) ==
  \A i \in DOMAIN sk.primes :
    mod_exp(g, mod_mul(pi_n(sk, n), mod_inverse(sk.primes[i], n), n), n) # 1

PublicKey(sk, k, g) ==
  [n |-> sk.p * sk.q, g |-> g, sigma |-> u(sk.primes, k) * v(sk.primes, k)]

(* Enc draws x in 0..n-1 until it has at least two bits.                   *)
EncRandomElements(n) == 2..(n - 1)

Enc(pk, m, x) ==
  mod_mul(mod_exp(x, pk.sigma, pk.n), mod_exp(pk.g, m, pk.n), pk.n)

Add(pk, c1, c2) == mod_mul(c1, c2, pk.n)

(* Mutant of Sub: a failed inverse is skipped.                             *)
Sub_Skips(pk, c1, c2) ==
  IF Coprime(c2, pk.n) THEN mod_mul(c1, mod_inverse(c2, pk.n), pk.n) ELSE c1

Sub(pk, c1, c2) == mod_mul(c1, mod_inverse(c2, pk.n), pk.n)

Scalar_Mul(pk, s, c) == mod_exp(c, s, pk.n)

(* Mutant of isZero: the exponent is not divided by sigma.                 *)
isZero_Phi(pk, sk, c) == mod_exp(c, pi_n(sk, pk.n), pk.n) = 1

(* isZero decides, without a discrete logarithm, whether c encrypts zero.  *)
isZero(pk, sk, c) ==
  LET e == mod_mul(pi_n(sk, pk.n), mod_inverse(pk.sigma, pk.n), pk.n)
  IN  mod_exp(c, e, pk.n) = 1

(* generate_random_element3: a nonzero number of at most bitSize bits, for *)
(* a random bitSize in 2..bits.                                            *)
ScalarElements(bits) == UNION {1..(2^bitSize - 1) : bitSize \in 2..bits}
=============================================================================
