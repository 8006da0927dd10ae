---------------------------- MODULE OUTest_proofs ----------------------------
(***************************************************************************)
(* The Okamoto-Uchiyama tester, for primes of any size and any generator g *)
(* that KeyGen accepts: it accepts equal numbers, and it implements the    *)
(* plaintext-level test modulo the secret p.                               *)
(*                                                                         *)
(* The argument: raised to p - 1 a ciphertext becomes 1 + u*p modulo p^2,  *)
(* u modulo p being the plaintext times a constant of g.  Enc makes such   *)
(* an exponent, Sub subtracts two of them, Scalar_Mul multiplies one, and  *)
(* Dec divides by the constant.  KeyGen accepts a g that is a multiple of  *)
(* p too, so that every lemma on the keys has a second half for it: there  *)
(* a ciphertext is 0 or 1 modulo p^2 and decrypts to zero.                 *)
(***************************************************************************)
EXTENDS OUTest, ModLemmas

(* A ciphertext carries the exponent u when its power l, p - 1 in this     *)
(* scheme, is 1 + u * p modulo p^2.                                        *)
Carries(c, u, l, p) == Congruent(Power(c, l), 1 + p * u, p * p)

(* Only the residue modulo p^2 of a ciphertext matters, and the residue    *)
(* modulo p of an exponent.                                                *)
LEMMA CarriesSame ==
  ASSUME NEW p \in Nat \ {0}, NEW l \in Nat, NEW c \in Int, NEW d \in Int,
         Congruent(c, d, p * p), NEW u \in Int, NEW v \in Int,
         Congruent(u, v, p), Carries(c, u, l, p)
  PROVE  Carries(d, v, l, p)
<1> DEFINE N == p * p  C == Power(c, l)  D == Power(d, l)
           fu == 1 + p * u  fv == 1 + p * v
<1>1. N \in Nat \ {0} /\ fu \in Int /\ fv \in Int
  OBVIOUS
<1>2. PICK k \in Int : u = v + p * k
  BY CongruentMultiple
<1>3. fu = fv + N * k
  BY <1>2
<1>4. Congruent(C, fu, N)
  BY DEF Carries
<1>5. Congruent(c, d, N)
  OBVIOUS
<1> HIDE DEF N, fu, fv
<1>6. Congruent(fu, fv, N)
  BY <1>1, <1>3, CongruentMultiple
<1>7. Congruent(C, D, N)
  BY <1>1, <1>5, CongruentPower
<1>8. Congruent(D, fv, N)
  BY <1>4, <1>6, <1>7, CongruentEquivalence
<1> QED
  BY <1>8 DEF Carries, N, fv

(* Products add the exponents,                                             *)
LEMMA CarriesProduct ==
  ASSUME NEW p \in Nat \ {0}, NEW l \in Nat, NEW c \in Int, NEW d \in Int,
         NEW u \in Int, NEW v \in Int, Carries(c, u, l, p), Carries(d, v, l, p)
  PROVE  Carries(c * d, u + v, l, p)
<1> DEFINE N == p * p  C == Power(c, l)  D == Power(d, l)
           fu == 1 + p * u  fv == 1 + p * v  h == 1 + p * (u + v)
<1>1. N \in Nat \ {0} /\ fu \in Int /\ fv \in Int /\ h \in Int /\ u * v \in Int
  OBVIOUS
<1>2. fu * fv = h + N * (u * v)
  OBVIOUS
<1>3. Congruent(C, fu, N) /\ Congruent(D, fv, N)
  BY DEF Carries
<1>4. C \in Int /\ D \in Int
  BY PowerDef
<1>5. Power(c * d, l) = C * D
  BY PowerMul
<1> DEFINE t == u * v
<1> HIDE DEF N, C, D, fu, fv, h, t
<1>6. Congruent(C * D, fu * fv, N)
  BY <1>1, <1>3, <1>4, CongruentMul
<1>7. Congruent(fu * fv, h, N)
  <2>1. fu * fv \in Int /\ t \in Int /\ fu * fv = h + N * t
    BY <1>1, <1>2 DEF t
  <2> QED
    BY <1>1, <2>1, CongruentMultiple
<1>8. Congruent(C * D, h, N)
  BY <1>6, <1>7, CongruentEquivalence
<1> QED
  BY <1>5, <1>8 DEF Carries, N, h

(* an inverse negates the exponent,                                        *)
LEMMA CarriesInverse ==
  ASSUME NEW p \in Nat \ {0}, NEW l \in Nat, NEW c \in Int, NEW i \in Int,
         Congruent(c * i, 1, p * p), NEW u \in Int, Carries(c, u, l, p)
  PROVE  Carries(i, -u, l, p)
<1> DEFINE N == p * p  C == Power(c, l)  I == Power(i, l)
           f == 1 + p * u  g == 1 + p * (-u)
<1>1. N \in Nat \ {0} /\ f \in Int /\ g \in Int /\ -(u * u) \in Int
      /\ c * i \in Int /\ 1 \in Int
  OBVIOUS
<1>2. f * g = 1 + N * (-(u * u))
  OBVIOUS
<1>3. Congruent(C, f, N) /\ Congruent(c * i, 1, N)
  BY DEF Carries
<1>4. C \in Int /\ I \in Int
  BY PowerDef
<1>5. Power(c * i, l) = C * I
  BY PowerMul
<1> DEFINE t == -(u * u)
<1> HIDE DEF N, f, g
<1>6. Congruent(C * I, 1, N)
  <2>1. Congruent(Power(c * i, l), Power(1, l), N)
    BY <1>1, <1>3, CongruentPower
  <2> QED
    BY <1>5, <2>1, PowerOfOne
<1> HIDE DEF C, I, t
<1>7. Congruent(f * g, 1, N)
  <2>1. f * g \in Int /\ t \in Int /\ f * g = 1 + N * t
    BY <1>1, <1>2 DEF t
  <2> QED
    BY <1>1, <2>1, CongruentMultiple
<1>8. Congruent(f * I, 1, N)
  <2>1. Congruent(C * I, f * I, N)
    BY <1>1, <1>3, <1>4, CongruentScale
  <2> QED
    BY <1>6, <2>1, CongruentEquivalence
<1>9. f * I \in Int /\ f * g \in Int
  BY <1>1, <1>4
<1>10. Congruent((f * I) * g, 1 * g, N)
  BY <1>1, <1>8, <1>9, CongruentScale
<1>11. Congruent((f * g) * I, 1 * I, N)
  BY <1>1, <1>4, <1>7, <1>9, CongruentScale
<1>12. (f * I) * g = (f * g) * I /\ 1 * g = g /\ 1 * I = I
  BY <1>1, <1>4
<1>13. Congruent(I, g, N)
  BY <1>10, <1>11, <1>12, CongruentEquivalence
<1> QED
  BY <1>13 DEF Carries, N, I, g

(* and powers multiply it.                                                 *)
LEMMA CarriesPower ==
  ASSUME NEW p \in Nat \ {0}, NEW l \in Nat, NEW c \in Int, NEW u \in Int,
         Carries(c, u, l, p), NEW k \in Nat
  PROVE  Carries(Power(c, k), k * u, l, p)
<1> DEFINE N == p * p  S == Power(c, k)  C == Power(c, l)
           f == 1 + p * u  h == 1 + p * (k * u)
<1>1. N \in Nat \ {0} /\ f \in Int /\ k * l = l * k
  OBVIOUS
<1>2. Congruent(C, f, N)
  BY DEF Carries
<1>3. Congruent(Power(f, k), h, N)
  BY BinomialPower
<1> HIDE DEF N, f, h
<1>4. C \in Int
  BY PowerDef
<1>5. Power(S, l) = Power(C, k)
  <2>1. Power(Power(c, k), l) = Power(c, k * l)
    BY PowerPower
  <2>2. Power(Power(c, l), k) = Power(c, l * k)
    BY PowerPower
  <2> QED
    BY <1>1, <2>1, <2>2
<1> HIDE DEF S, C
<1>6. Congruent(Power(C, k), Power(f, k), N)
  BY <1>1, <1>2, <1>4, CongruentPower
<1>7. Congruent(Power(S, l), h, N)
  BY <1>3, <1>5, <1>6, CongruentEquivalence
<1> QED
  BY <1>7 DEF Carries, N, S, h

(* One carries nothing.                                                    *)
LEMMA OneCarries ==
  ASSUME NEW p \in Nat \ {0}, NEW l \in Nat
  PROVE  Carries(1, 0, l, p)
<1>1. Power(1, l) = 1
  BY PowerOfOne
<1>2. 1 + p * 0 = 1
  OBVIOUS
<1> QED
  BY <1>1, <1>2, CongruentEquivalence DEF Carries

(* The function L of the scheme reads the exponent modulo p off.           *)
LEMMA LReads ==
  ASSUME NEW p \in Nat \ {0}, p > 1, NEW x \in Int, NEW u \in Int,
         Congruent(x, 1 + p * u, p * p)
  PROVE  L(x % (p * p), p) = u % p
<1> DEFINE N == p * p  w == u % p  b == u \div p  y == 1 + p * w
<1>1. w \in 0..(p - 1) /\ b \in Int /\ u = p * b + w
  BY DivMod
<1> HIDE DEF w, b
<1>2. N \in Nat \ {0} /\ w \in Int
  BY <1>1
<1>3. 1 + p * u = N * b + y
  BY <1>1
<1>4. y \in 0..(N - 1)
  <2>1. p * w <= p * (p - 1) /\ p * w >= 0
    BY <1>1
  <2>2. p * (p - 1) = N - p
    OBVIOUS
  <2> QED
    BY <1>2, <2>1, <2>2
<1>5. x % N = y
  <2>1. x % N = (1 + p * u) % N
    BY DEF Congruent
  <2>2. 1 + p * u \in Int
    OBVIOUS
  <2> DEFINE z == 1 + p * u
  <2> HIDE DEF N, y, z
  <2>3. z % N = y
    BY <1>1, <1>2, <1>3, <1>4, <2>2, QuotientUnique DEF z
  <2> QED
    BY <2>1, <2>3 DEF z
<1>6. y - 1 = p * w + 0 /\ y - 1 \in Int /\ y - 1 >= 0
  BY <1>1
<1>7. (y - 1) \div p = w
  <2>1. 0 \in 0..(p - 1) /\ p * w + 0 \in Int
    BY <1>2
  <2> DEFINE z == y - 1  o == 0
  <2>2. z = p * w + o /\ z \in Int /\ o \in 0..(p - 1)
    BY <1>6, <2>1
  <2> HIDE DEF z, o
  <2>3. z \div p = w
    BY <1>2, <2>2, QuotientUnique
  <2> QED
    BY <2>3 DEF z
<1> HIDE DEF y
<1>8. L(y, p) = w
  BY <1>6, <1>7 DEF L, div
<1> QED
  BY <1>5, <1>8 DEF w, N

(* L(0) is -1 divided by p, which BN_div rounds toward zero.               *)
LEMMA LZero ==
  ASSUME NEW p \in Nat \ {0}, p > 1
  PROVE  L(0, p) = 0
<1>1. 0 \in Int
  OBVIOUS
<1>3. ASSUME NEW x \in Int PROVE -(x - 1) = 1 - x
  OBVIOUS
<1>2. ASSUME NEW x \in Int PROVE x = 0 => L(x, p) = 0
  <2> DEFINE z == -(x - 1)  y == z \div p
  <2>1. z \in Int /\ y \in Int /\ (x = 0 => z = 1)
    BY <1>3
  <2>2. x = 0 => L(x, p) = -y
    <3>1. x = 0 => x - 1 < 0
      OBVIOUS
    <3> QED
      BY <3>1 DEF L, div
  <2> HIDE DEF y, z
  <2>3. x = 0 => y = 0
    <3>1. ASSUME NEW t \in Int PROVE t = 1 => t \div p = 0
      OBVIOUS
    <3> QED
      BY <2>1, <3>1 DEF y
  <2>4. -y = 0 - y
    BY <2>1
  <2> QED
    BY <2>1, <2>2, <2>3, <2>4
<1> QED
  BY <1>1, <1>2

(* The values of L on residues are natural numbers.                        *)
LEMMA LNat ==
  ASSUME NEW p \in Nat \ {0}, p > 1, NEW x \in Nat
  PROVE  L(x, p) \in Nat
<1>1. CASE x = 0
  BY <1>1, LZero
<1>2. CASE x # 0
  <2>1. x - 1 \in Nat
    BY <1>2
  <2> DEFINE y == x - 1
  <2> HIDE DEF y
  <2>2. ASSUME NEW t \in Nat PROVE t \div p \in Nat /\ ~(t < 0)
    OBVIOUS
  <2>3. y \div p \in Nat /\ ~(y < 0)
    BY <2>1, <2>2 DEF y
  <2> QED
    BY <2>3 DEF L, div, y
<1> QED
  BY <1>1, <1>2

(* What Dec multiplies by: the inverse of the exponent of g.               *)
Mu(g, p) == mod_inverse(L(mod_exp(g, p - 1, p * p), p), p)

LEMMA MuInt ==
  ASSUME NEW p \in Nat, p > 1, NEW g \in Nat
  PROVE  Mu(g, p) \in Int
<1> DEFINE N == p * p  l == p - 1  P == Power(g, l)  x == P % N
<1>1. p \in Nat \ {0} /\ N \in Nat \ {0} /\ l \in Nat /\ g \in Int
  OBVIOUS
<1>2. mod_exp(g, l, N) = x
  <2> HIDE DEF N, l
  <2> QED
    BY <1>1, ModExp
<1>3. P \in Int
  <2> HIDE DEF l
  <2> QED
    BY <1>1, PowerDef
<1>4. x \in Nat
  <2> HIDE DEF P, N
  <2>1. x \in 0..(N - 1)
    BY <1>1, <1>3, CongruentResidue
  <2> QED
    BY <1>1, <2>1
<1> HIDE DEF x
<1>5. L(x, p) \in Nat
  BY <1>1, <1>4, LNat
<1>6. mod_inverse(L(x, p), p) \in 0..(p - 1)
  BY <1>1, <1>5, ModInverse
<1> QED
  BY <1>2, <1>6 DEF Mu

(* Dec multiplies the exponent by it, modulo p.                            *)
LEMMA DecReads ==
  ASSUME NEW p \in Nat, p > 1, NEW g \in Nat,
         NEW pk, pk.g = g, NEW sk, sk.p = p,
         NEW c \in Nat, NEW u \in Int, Carries(c, u, p - 1, p)
  PROVE  Dec(pk, sk, c) = (u * Mu(g, p)) % p
<1> DEFINE N == p * p  l == p - 1  C == Power(c, l)  w == u % p  mu == Mu(g, p)
<1>1. p \in Nat \ {0} /\ N \in Nat \ {0} /\ l \in Nat /\ c \in Int
  OBVIOUS
<1>2. mu \in Int
  BY MuInt
<1>3. C \in Int
  <2> HIDE DEF l
  <2> QED
    BY <1>1, PowerDef
<1>4. mod_exp(c, l, N) = C % N
  <2> HIDE DEF N, l
  <2> QED
    BY <1>1, ModExp
<1>5. L(C % N, p) = w
  <2>1. Congruent(C, 1 + p * u, p * p)
    BY DEF Carries
  <2> HIDE DEF C
  <2> QED
    BY <1>1, <1>3, <2>1, LReads
<1>6. Dec(pk, sk, c) = mod_mul(w, mu, p)
  <2>1. Dec(pk, sk, c) = mod_mul(L(mod_exp(c, l, N), p), mu, p)
    BY DEF Dec, Mu
  <2> QED
    BY <1>4, <1>5, <2>1
<1>7. w \in 0..(p - 1) /\ Congruent(w, u, p)
  BY <1>1, CongruentResidue
<1> HIDE DEF w, mu
<1>8. w \in Int
  BY <1>1, <1>7
<1>9. mod_mul(w, mu, p) = (w * mu) % p
  BY <1>1, <1>2, <1>8, ModMulIsProduct
<1>10. Congruent(w * mu, u * mu, p)
  BY <1>1, <1>2, <1>7, <1>8, CongruentScale
<1> QED
  BY <1>6, <1>9, <1>10 DEF Congruent, mu

(* A ciphertext that is zero or one modulo p^2 decrypts to zero.           *)
LEMMA DecTrivial ==
  ASSUME NEW p \in Nat, p > 1, NEW g \in Nat,
         NEW pk, pk.g = g, NEW sk, sk.p = p, NEW c \in Nat,
         Congruent(c, 0, p * p) \/ Congruent(c, 1, p * p)
  PROVE  Dec(pk, sk, c) = 0
<1> DEFINE N == p * p  l == p - 1  C == Power(c, l)  mu == Mu(g, p)
<1>1. p \in Nat \ {0} /\ N \in Nat \ {0} /\ l \in Nat \ {0} /\ l \in Nat
      /\ c \in Int /\ 0 \in Int /\ 1 \in Int
  OBVIOUS
<1>2. mu \in Int
  BY MuInt
<1>3. 0 * mu = 0 /\ 0 % p = 0
  BY <1>2
<1>4. CASE Congruent(c, 0, N)
  <2>1. mod_exp(c, l, N) = C % N
    <3> HIDE DEF N, l
    <3> QED
      BY <1>1, ModExp
  <2>2. C % N = 0 % N
    <3> HIDE DEF N, l
    <3>1. Congruent(C, Power(0, l), N)
      BY <1>1, <1>4, CongruentPower
    <3>2. Power(0, l) = 0
      BY <1>1, PowerOfZero
    <3> QED
      BY <3>1, <3>2 DEF Congruent
  <2>3. 0 % N = 0
    <3> HIDE DEF N
    <3> QED
      BY <1>1
  <2>4. Dec(pk, sk, c) = mod_mul(L(mod_exp(c, l, N), p), mu, p)
    BY DEF Dec, Mu
  <2>5. Dec(pk, sk, c) = mod_mul(0, mu, p)
    BY <1>1, <2>1, <2>2, <2>3, <2>4, LZero
  <2> HIDE DEF mu
  <2>6. mod_mul(0, mu, p) = (0 * mu) % p
    BY <1>1, <1>2, ModMulIsProduct
  <2> QED
    BY <1>3, <2>5, <2>6
<1>5. CASE Congruent(c, 1, N)
  <2>1. Carries(1, 0, l, p)
    BY <1>1, OneCarries
  <2>2. Congruent(1, c, p * p) /\ Congruent(0, 0, p)
    BY <1>5, CongruentEquivalence
  <2> HIDE DEF l
  <2>3. Carries(c, 0, l, p)
    BY <1>1, <2>1, <2>2, CarriesSame
  <2> HIDE DEF mu
  <2>4. Dec(pk, sk, c) = (0 * Mu(g, p)) % p
    BY <1>1, <2>3, DecReads DEF l
  <2> QED
    BY <1>3, <2>4 DEF mu
<1> QED
  BY <1>4, <1>5

(* Every g prime to p that KeyGen accepts carries an exponent that has an  *)
(* inverse modulo p.                                                       *)
LEMMA UsableExponent ==
  ASSUME NEW p \in Nat, IsPrime(p), NEW g \in Nat, Coprime(g, p), UsableG(g, p)
  PROVE  \E u \in Int : Carries(g, u, p - 1, p) /\ Congruent(u * Mu(g, p), 1, p)
<1> DEFINE N == p * p  l == p - 1  P == Power(g, l)
<1>1. p \in Nat \ {0} /\ p > 1 /\ N \in Nat \ {0} /\ l \in Nat /\ g \in Int /\ 1 \in Int
      /\ 0 \in Int
  BY DEF IsPrime
<1>2. P \in Int
  <2> HIDE DEF l
  <2> QED
    BY <1>1, PowerDef
<1>3. Congruent(P, 1, p)
  BY Fermat
<1>4. mod_exp(g, l, N) = P % N
  <2> HIDE DEF N, l
  <2> QED
    BY <1>1, ModExp
<1>5. P % N # 1
  BY <1>4 DEF UsableG
<1>6. Carries(g, 0, l, p) => FALSE
  <2> SUFFICES ASSUME Carries(g, 0, l, p) PROVE FALSE
    OBVIOUS
  <2>1. Congruent(P, 1 + p * 0, N)
    BY DEF Carries
  <2>2. 1 + p * 0 = 1
    BY <1>1
  <2>3. 1 \in 0..(N - 1)
    <3>1. p * p >= p * 1
      BY <1>1
    <3> QED
      BY <1>1, <3>1
  <2>4. 1 % N = 1
    <3> HIDE DEF N
    <3> QED
      BY <1>1, <2>3
  <2> QED
    BY <1>5, <2>1, <2>2, <2>4 DEF Congruent
<1>7. PICK u \in Int : P = 1 + p * u
  <2> HIDE DEF P
  <2> QED
    BY <1>1, <1>2, <1>3, CongruentMultiple
<1>8. Carries(g, u, l, p)
  BY <1>7, CongruentEquivalence DEF Carries
<1> HIDE DEF l, P
<1> DEFINE w == u % p
<1>9. w \in 0..(p - 1) /\ Congruent(w, u, p)
  BY <1>1, CongruentResidue
<1> HIDE DEF w
<1>10. w \in Nat /\ w \in Int
  BY <1>1, <1>9
<1>11. w # 0
  <2> SUFFICES ASSUME w = 0 PROVE FALSE
    OBVIOUS
  <2>1. Congruent(u, 0, p)
    BY <1>9, CongruentEquivalence
  <2>2. Congruent(g, g, p * p)
    BY CongruentEquivalence
  <2> QED
    BY <1>1, <1>6, <1>8, <2>1, <2>2, CarriesSame
<1>12. Coprime(w, p)
  <2>1. w % p = w
    BY <1>1, <1>9
  <2> QED
    BY <1>10, <1>11, <2>1, PrimeCoprime
<1>13. Mu(g, p) = mod_inverse(w, p)
  <2>1. L(P % (p * p), p) = w
    <3>1. Congruent(P, 1 + p * u, p * p)
      BY <1>7, CongruentEquivalence
    <3> QED
      BY <1>1, <1>2, <3>1, LReads DEF w
  <2>2. Mu(g, p) = mod_inverse(L(mod_exp(g, l, N), p), p)
    BY DEF Mu, l
  <2> QED
    BY <1>4, <2>1, <2>2
<1>14. Congruent(w * Mu(g, p), 1, p)
  BY <1>1, <1>10, <1>12, <1>13, ModInverse
<1>15. Congruent(w * Mu(g, p), u * Mu(g, p), p)
  <2>1. Mu(g, p) \in Int
    BY <1>1, MuInt
  <2> QED
    BY <1>1, <1>9, <1>10, <2>1, CongruentScale
<1>16. Congruent(u * Mu(g, p), 1, p)
  BY <1>14, <1>15, CongruentEquivalence
<1> QED
  BY <1>8, <1>16 DEF l

(* Congruence modulo n = p^2 * q is congruence modulo p^2.                 *)
LEMMA ModSquare ==
  ASSUME NEW p \in Nat \ {0}, NEW q \in Nat \ {0}, NEW a \in Int, NEW b \in Int,
         Congruent(a, b, p * p * q)
  PROVE  Congruent(a, b, p * p)
<1>1. p * p \in Nat \ {0}
  OBVIOUS
<1> DEFINE N == p * p
<1>2. Congruent(a, b, N * q)
  OBVIOUS
<1> HIDE DEF N
<1> QED
  BY <1>1, <1>2, CongruentFactor DEF N

(* What KeyGen makes of two primes and g.                                  *)
LEMMA KeyParts ==
  ASSUME NEW p \in Nat, IsPrime(p), NEW q \in Nat, IsPrime(q), NEW g \in Nat
  PROVE  /\ p * p * q \in Nat \ {0} /\ p * p * q > 1
         /\ PublicKey(p, q, g).n = p * p * q
         /\ PublicKey(p, q, g).g = g
         /\ PublicKey(p, q, g).h \in Nat
         /\ Congruent(PublicKey(p, q, g).h, Power(g, p * p * q), p * p * q)
<1> DEFINE n == p * p * q  pk == PublicKey(p, q, g)  P == Power(g, n)
<1>1. p \in Nat /\ q \in Nat /\ p > 1 /\ q > 1 /\ g \in Int
  BY DEF IsPrime
<1>2. n \in Nat \ {0} /\ n > 1
  <2>1. p * p >= p * 1 /\ p * p \in Nat
    BY <1>1
  <2> DEFINE N == p * p
  <2> HIDE DEF N
  <2>2. N \in Nat /\ N > 1
    BY <1>1, <2>1 DEF N
  <2>3. N * q >= N * 1 /\ N * q \in Nat
    BY <1>1, <2>2
  <2> QED
    BY <2>2, <2>3 DEF N
<1>3. pk = [n |-> n, g |-> g, h |-> mod_exp(g, n, n)]
  BY DEF PublicKey
<1> HIDE DEF n, pk
<1>4. P \in Int
  BY <1>1, <1>2, PowerDef
<1>5. mod_exp(g, n, n) = P % n
  BY <1>1, <1>2, ModExp
<1> HIDE DEF P
<1>6. P % n \in 0..(n - 1) /\ Congruent(P % n, P, n)
  BY <1>2, <1>4, CongruentResidue
<1>7. pk.n = n /\ pk.g = g /\ pk.h = P % n
  BY <1>3, <1>5
<1>8. P % n \in Nat
  BY <1>2, <1>6
<1> QED
  BY <1>2, <1>6, <1>7, <1>8 DEF n, pk, P

(* What Enc returns.                                                       *)
LEMMA EncForm ==
  ASSUME NEW pk, pk.n \in Nat \ {0}, pk.g \in Nat, pk.h \in Nat,
         NEW m \in Nat, NEW r \in Nat
  PROVE  /\ Enc(pk, m, r) \in Nat
         /\ Congruent(Enc(pk, m, r), Power(pk.g, m) * Power(pk.h, r), pk.n)
<1> DEFINE n == pk.n  g == pk.g  h == pk.h
           G == Power(g, m)  H == Power(h, r)
           a == mod_exp(g, m, n)  b == mod_exp(h, r, n)  v == a * b
<1>1. n \in Nat \ {0} /\ g \in Int /\ h \in Int
  OBVIOUS
<1>2. Enc(pk, m, r) = mod_mul(a, b, n)
  BY DEF Enc
<1> HIDE DEF n, g, h
<1>3. G \in Int /\ H \in Int
  BY <1>1, PowerDef
<1>4. a = G % n /\ b = H % n
  BY <1>1, ModExp
<1> HIDE DEF G, H, a, b
<1>5. a \in 0..(n - 1) /\ Congruent(a, G, n) /\ b \in 0..(n - 1) /\ Congruent(b, H, n)
  BY <1>1, <1>3, <1>4, CongruentResidue
<1>6. a \in Int /\ b \in Int /\ v \in Int /\ G * H \in Int
  BY <1>3, <1>5
<1>7. Congruent(v, G * H, n)
  BY <1>1, <1>3, <1>5, <1>6, CongruentMul
<1>8. Enc(pk, m, r) = v % n
  BY <1>1, <1>2, <1>6, ModMulIsProduct
<1> HIDE DEF v
<1>9. v % n \in 0..(n - 1) /\ Congruent(v % n, v, n)
  BY <1>1, <1>6, CongruentResidue
<1>10. Congruent(v % n, G * H, n)
  BY <1>7, <1>9, CongruentEquivalence
<1>11. v % n \in Nat
  BY <1>1, <1>9
<1> QED
  BY <1>8, <1>10, <1>11 DEF n, g, h, G, H

(* Powers of a unit are units.                                             *)
LEMMA InversePower ==
  ASSUME NEW n \in Nat \ {0}, NEW x \in Int, NEW y \in Int, Congruent(x * y, 1, n),
         NEW k \in Nat
  PROVE  Congruent(Power(x, k) * Power(y, k), 1, n)
<1>1. Power(x * y, k) = Power(x, k) * Power(y, k)
  BY PowerMul
<1>2. Congruent(Power(x * y, k), Power(1, k), n)
  <2>1. x * y \in Int /\ 1 \in Int
    OBVIOUS
  <2> QED
    BY <2>1, CongruentPower
<1> QED
  BY <1>1, <1>2, PowerOfOne

(* With an invertible g every ciphertext is invertible.                    *)
LEMMA EncUnit ==
  ASSUME NEW p \in Nat, IsPrime(p), NEW q \in Nat, IsPrime(q), NEW g \in Nat,
         Coprime(g, p * p * q), NEW m \in Nat, NEW r \in Nat
  PROVE  Coprime(Enc(PublicKey(p, q, g), m, r), p * p * q)
<1> DEFINE n == p * p * q  pk == PublicKey(p, q, g)  h == pk.h  c == Enc(pk, m, r)
           P == Power(g, n)  G == Power(g, m)  H == Power(h, r)
<1>1. n \in Nat \ {0} /\ pk.n = n /\ pk.g = g /\ h \in Nat /\ Congruent(h, P, n)
  BY KeyParts
<1>2. Coprime(g, n)
  OBVIOUS
<1> HIDE DEF n, pk, h
<1>3. g \in Int /\ h \in Int /\ n \in Nat /\ 1 \in Int
  BY <1>1
<1>4. PICK y \in Int : Congruent(g * y, 1, n)
  BY <1>1, <1>2, UnitInverse
<1> DEFINE z == Power(y, n)  Y == Power(y, m)  Z == Power(z, r)
<1>5. P \in Int /\ G \in Int /\ z \in Int /\ Y \in Int
  BY <1>3, PowerDef
<1>6. Congruent(P * z, 1, n) /\ Congruent(G * Y, 1, n)
  BY <1>1, <1>3, <1>4, InversePower
<1> HIDE DEF P, z
<1>7. Congruent(h * z, 1, n)
  <2>1. Congruent(h * z, P * z, n)
    BY <1>1, <1>3, <1>5, CongruentScale
  <2> QED
    BY <1>6, <2>1, CongruentEquivalence
<1>8. H \in Int /\ Z \in Int
  BY <1>3, <1>5, PowerDef
<1>9. Congruent(H * Z, 1, n)
  BY <1>1, <1>3, <1>5, <1>7, InversePower
<1>10. c \in Nat /\ Congruent(c, G * H, n)
  <2>1. pk.h = h
    BY DEF h
  <2> QED
    BY <1>1, <2>1, EncForm
<1> HIDE DEF c, G, H, Y, Z
<1>11. c \in Int /\ G * H \in Int /\ Y * Z \in Int /\ G * Y \in Int /\ H * Z \in Int
  BY <1>5, <1>8, <1>10
<1>12. Congruent(c * (Y * Z), (G * H) * (Y * Z), n)
  BY <1>1, <1>10, <1>11, CongruentScale
<1>13. (G * H) * (Y * Z) = (G * Y) * (H * Z) /\ 1 * 1 = 1
  BY <1>5, <1>8
<1>14. Congruent((G * Y) * (H * Z), 1 * 1, n)
  BY <1>1, <1>3, <1>6, <1>9, <1>11, CongruentMul
<1>15. Congruent(c * (Y * Z), 1, n)
  BY <1>12, <1>13, <1>14, CongruentEquivalence
<1>16. Coprime(c, n)
  BY <1>1, <1>10, <1>11, <1>15, UnitInverse
<1> QED
  BY <1>16 DEF c, pk, n

(* With another g no ciphertext of a number other than zero is.            *)
LEMMA EncNoUnit ==
  ASSUME NEW p \in Nat, IsPrime(p), NEW q \in Nat, IsPrime(q), NEW g \in Nat,
         ~Coprime(g, p * p * q), NEW m \in Nat \ {0}, NEW r \in Nat
  PROVE  ~Coprime(Enc(PublicKey(p, q, g), m, r), p * p * q)
<1> DEFINE n == p * p * q  pk == PublicKey(p, q, g)  h == pk.h  c == Enc(pk, m, r)
           G == Power(g, m)  H == Power(h, r)
<1>1. n \in Nat \ {0} /\ pk.n = n /\ pk.g = g /\ h \in Nat
  BY KeyParts
<1>2. ~Coprime(g, n)
  OBVIOUS
<1> HIDE DEF n, pk
<1>3. c \in Nat /\ Congruent(c, G * H, n)
  BY <1>1, EncForm
<1> HIDE DEF h, c
<1>4. G \in Nat /\ H \in Nat
  BY <1>1, PowerNatural
<1>5. ~Coprime(G, n)
  BY <1>1, <1>2, UnitPower
<1> HIDE DEF G, H
<1>6. G * H \in Nat
  BY <1>4
<1>7. ~Coprime(G * H, n)
  BY <1>1, <1>4, <1>5, CoprimeMul
<1>8. ~Coprime(c, n)
  BY <1>1, <1>3, <1>6, <1>7, CoprimeCongruent
<1> QED
  BY <1>8 DEF c, pk, n

(* Under a g that carries u the ciphertext of m carries m * u: h carries   *)
(* nothing, and the random number vanishes with it.                        *)
LEMMA EncCarries ==
  ASSUME NEW p \in Nat, IsPrime(p), NEW q \in Nat, IsPrime(q), NEW g \in Nat,
         NEW u \in Int, Carries(g, u, p - 1, p), NEW m \in Nat, NEW r \in Nat
  PROVE  Carries(Enc(PublicKey(p, q, g), m, r), m * u, p - 1, p)
<1> DEFINE n == p * p * q  pk == PublicKey(p, q, g)  h == pk.h  c == Enc(pk, m, r)
           l == p - 1  P == Power(g, n)  G == Power(g, m)  H == Power(h, r)
<1>1. n \in Nat \ {0} /\ pk.n = n /\ pk.g = g /\ h \in Nat /\ Congruent(h, P, n)
  BY KeyParts
<1>2. p \in Nat \ {0} /\ q \in Nat \ {0} /\ l \in Nat /\ g \in Int /\ h \in Int /\ 0 \in Int
  BY <1>1 DEF IsPrime
<1>3. Carries(g, u, l, p)
  OBVIOUS
<1>4. \A a, b \in Int : Congruent(a, b, n) => Congruent(a, b, p * p)
  BY <1>2, ModSquare
<1>5. Congruent(n * u, 0, p)
  <2> DEFINE t == p * q * u
  <2>1. n * u = p * t /\ t \in Int /\ n * u \in Int /\ 0 + p * t = p * t
    OBVIOUS
  <2> HIDE DEF n, t
  <2> QED
    BY <1>2, <2>1, CongruentMultiple
<1> HIDE DEF n, pk, h, l
<1>6. P \in Int /\ G \in Int /\ H \in Int
  BY <1>1, <1>2, PowerDef
<1>7. c \in Nat /\ Congruent(c, G * H, n)
  <2>1. pk.h = h
    BY DEF h
  <2> QED
    BY <1>1, <2>1, EncForm
<1>8. Carries(P, n * u, l, p) /\ Carries(G, m * u, l, p)
  BY <1>1, <1>2, <1>3, CarriesPower
<1> HIDE DEF P, G, c
<1>9. Carries(h, 0, l, p)
  <2>1. Congruent(P, h, p * p)
    BY <1>1, <1>2, <1>4, <1>6, CongruentEquivalence
  <2>2. n * u \in Int
    BY <1>1
  <2> QED
    BY <1>2, <1>5, <1>6, <1>8, <2>1, <2>2, CarriesSame
<1>10. Carries(H, r * 0, l, p)
  BY <1>2, <1>9, CarriesPower
<1> HIDE DEF H
<1>11. m * u \in Int /\ r * 0 = 0 /\ m * u + 0 = m * u
  BY <1>2
<1>12. Carries(G * H, m * u, l, p)
  <2>1. Carries(H, 0, l, p)
    BY <1>10, <1>11
  <2> DEFINE v == m * u
  <2>2. v \in Int /\ v + 0 = v /\ Carries(G, v, l, p)
    BY <1>8, <1>11
  <2> HIDE DEF v
  <2>3. Carries(G * H, v + 0, l, p)
    BY <1>2, <1>6, <2>1, <2>2, CarriesProduct
  <2> QED
    BY <2>2, <2>3 DEF v
<1>13. Congruent(G * H, c, p * p)
  <2>1. G * H \in Int /\ c \in Int
    BY <1>6, <1>7
  <2> QED
    BY <1>4, <1>7, <2>1, CongruentEquivalence
<1>14. G * H \in Int /\ c \in Int /\ Congruent(m * u, m * u, p)
  BY <1>6, <1>7, CongruentEquivalence
<1>15. Carries(c, m * u, l, p)
  BY <1>2, <1>11, <1>12, <1>13, <1>14, CarriesSame
<1> QED
  BY <1>15 DEF c, pk, l

------------------------------------------------------------------------------

(* What Alice decrypts when she sent c and Bob answered with d and k.      *)
Answer(pk, sk, c, d, k) == Dec(pk, sk, Scalar_Mul(pk, k, Sub(pk, c, d)))

(* Bob's two operations, modulo n: the inverse that Sub multiplies by is   *)
(* zero when there is none.                                                *)
LEMMA SubForm ==
  ASSUME NEW pk, pk.n \in Nat \ {0}, NEW c \in Nat, NEW d \in Nat
  PROVE  /\ Sub(pk, c, d) \in Nat
         /\ mod_inverse(d, pk.n) \in Int
         /\ Coprime(d, pk.n) => /\ Congruent(d * mod_inverse(d, pk.n), 1, pk.n)
                                /\ Congruent(Sub(pk, c, d), c * mod_inverse(d, pk.n), pk.n)
         /\ ~Coprime(d, pk.n) => Sub(pk, c, d) = 0
<1> DEFINE n == pk.n  i == mod_inverse(d, n)  w == c * i
<1>1. n \in Nat \ {0} /\ c \in Int
  OBVIOUS
<1>2. Sub(pk, c, d) = mod_mul(c, i, n)
  BY DEF Sub
<1> HIDE DEF n
<1>3. /\ i \in 0..(n - 1)
      /\ Coprime(d, n) => Congruent(d * i, 1, n)
      /\ ~Coprime(d, n) => i = 0
  BY <1>1, ModInverse
<1> HIDE DEF i
<1>4. i \in Int /\ w \in Int
  BY <1>1, <1>3
<1>5. Sub(pk, c, d) = w % n
  BY <1>1, <1>2, <1>4, ModMulIsProduct
<1>6. ~Coprime(d, n) => w = 0
  BY <1>1, <1>3
<1> HIDE DEF w
<1>7. w % n \in 0..(n - 1) /\ Congruent(w % n, w, n)
  BY <1>1, <1>4, CongruentResidue
<1>8. w % n \in Nat /\ 0 % n = 0
  BY <1>1, <1>7
<1> QED
  BY <1>3, <1>4, <1>5, <1>6, <1>7, <1>8 DEF n, i, w

LEMMA ScalarForm ==
  ASSUME NEW pk, pk.n \in Nat \ {0}, NEW c \in Nat, NEW k \in Nat
  PROVE  /\ Scalar_Mul(pk, k, c) \in Nat
         /\ Congruent(Scalar_Mul(pk, k, c), Power(c, k), pk.n)
<1> DEFINE n == pk.n  C == Power(c, k)
<1>1. n \in Nat \ {0} /\ c \in Int
  OBVIOUS
<1>2. C \in Int
  BY <1>1, PowerDef
<1>3. Scalar_Mul(pk, k, c) = C % n
  <2>1. Scalar_Mul(pk, k, c) = mod_exp(c, k, n)
    BY DEF Scalar_Mul
  <2> HIDE DEF n
  <2> QED
    BY <1>1, <2>1, ModExp
<1> HIDE DEF n, C
<1>4. C % n \in 0..(n - 1) /\ Congruent(C % n, C, n)
  BY <1>1, <1>2, CongruentResidue
<1>5. C % n \in Nat
  BY <1>1, <1>4
<1> QED
  BY <1>3, <1>4, <1>5 DEF n, C

(* Zero or one modulo N: such values stay such under powers.               *)
Trivial(c, N) == Congruent(c, 0, N) \/ Congruent(c, 1, N)

LEMMA TrivialPower ==
  ASSUME NEW N \in Nat \ {0}, NEW c \in Int, Trivial(c, N), NEW k \in Nat
  PROVE  Trivial(Power(c, k), N)
<1>1. 0 \in Int /\ 1 \in Int
  OBVIOUS
<1>2. CASE k = 0
  <2>1. Power(c, k) = 1
    BY <1>2, PowerDef
  <2> QED
    BY <2>1, CongruentEquivalence DEF Trivial
<1>3. CASE k # 0 /\ Congruent(c, 0, N)
  <2>1. Congruent(Power(c, k), Power(0, k), N)
    BY <1>1, <1>3, CongruentPower
  <2>2. Power(0, k) = 0
    BY <1>3, PowerOfZero
  <2> QED
    BY <2>1, <2>2 DEF Trivial
<1>4. CASE Congruent(c, 1, N)
  <2>1. Congruent(Power(c, k), Power(1, k), N)
    BY <1>1, <1>4, CongruentPower
  <2> QED
    BY <2>1, PowerOfOne DEF Trivial
<1> QED
  BY <1>2, <1>3, <1>4 DEF Trivial

LEMMA TrivialSame ==
  ASSUME NEW N, NEW c, NEW d, Congruent(c, d, N), Trivial(d, N)
  PROVE  Trivial(c, N)
  BY CongruentEquivalence DEF Trivial

(* When what Bob scales is zero or one modulo p^2, Alice decrypts zero.    *)
LEMMA TrivialAnswer ==
  ASSUME NEW p \in Nat, IsPrime(p), NEW q \in Nat, IsPrime(q), NEW g \in Nat,
         NEW sk, sk.p = p, NEW e \in Nat, Trivial(e, p * p), NEW k \in Nat
  PROVE  Dec(PublicKey(p, q, g), sk, Scalar_Mul(PublicKey(p, q, g), k, e)) = 0
<1> DEFINE n == p * p * q  pk == PublicKey(p, q, g)  f == Scalar_Mul(pk, k, e)
           N == p * p  E == Power(e, k)
<1>1. n \in Nat \ {0} /\ pk.n = n /\ pk.g = g
  BY KeyParts
<1>2. p \in Nat \ {0} /\ q \in Nat \ {0} /\ p > 1 /\ N \in Nat \ {0} /\ e \in Int
  BY DEF IsPrime
<1>3. \A a, b \in Int : Congruent(a, b, n) => Congruent(a, b, N)
  BY <1>2, ModSquare
<1>4. Trivial(e, N)
  OBVIOUS
<1> HIDE DEF n, pk, N
<1>5. E \in Int
  BY <1>2, PowerDef
<1>6. f \in Nat /\ Congruent(f, E, n)
  BY <1>1, ScalarForm
<1>7. Trivial(E, N)
  BY <1>2, <1>4, TrivialPower
<1> HIDE DEF f, E
<1>8. Congruent(f, E, N)
  <2>1. f \in Int
    BY <1>6
  <2> QED
    BY <1>3, <1>5, <1>6, <2>1
<1>9. Congruent(f, 0, p * p) \/ Congruent(f, 1, p * p)
  BY <1>7, <1>8, TrivialSame DEF Trivial, N
<1>10. Dec(pk, sk, f) = 0
  BY <1>1, <1>2, <1>6, <1>9, DecTrivial
<1> QED
  BY <1>10 DEF f, pk

(* When Bob's ciphertext has no inverse, what he returns decrypts to zero. *)
LEMMA NonUnitDecrypts ==
  ASSUME NEW p \in Nat, IsPrime(p), NEW q \in Nat, IsPrime(q), NEW g \in Nat,
         NEW sk, sk.p = p, NEW c \in Nat, NEW d \in Nat, NEW k \in Nat,
         ~Coprime(d, p * p * q)
  PROVE  Answer(PublicKey(p, q, g), sk, c, d, k) = 0
<1> DEFINE pk == PublicKey(p, q, g)
<1>1. pk.n \in Nat \ {0} /\ ~Coprime(d, pk.n)
  BY KeyParts
<1>2. Trivial(0, p * p) /\ 0 \in Nat
  BY CongruentEquivalence DEF Trivial
<1>3. Dec(pk, sk, Scalar_Mul(pk, k, 0)) = 0
  BY <1>2, TrivialAnswer
<1> HIDE DEF pk
<1>4. Sub(pk, c, d) = 0
  BY <1>1, SubForm
<1> QED
  BY <1>3, <1>4 DEF Answer, pk

(* What Alice should decrypt: Bob's scalar times the difference, modulo p. *)
Blinded(k, a, b, p) == (k * ((a - b) % p)) % p

(* The plaintexts a and b, encrypted under a g prime to p, come back as    *)
(* their blinded difference modulo p.                                      *)
LEMMA DifferenceDecrypts ==
  ASSUME NEW p \in Nat, IsPrime(p), NEW q \in Nat, IsPrime(q),
         NEW g \in Nat, Coprime(g, p), UsableG(g, p), NEW sk, sk.p = p,
         NEW a \in Nat, NEW b \in Nat, NEW r1 \in Nat, NEW r2 \in Nat, NEW k \in Nat,
         Coprime(Enc(PublicKey(p, q, g), b, r2), p * p * q)
  PROVE  Answer(PublicKey(p, q, g), sk, Enc(PublicKey(p, q, g), a, r1),
                Enc(PublicKey(p, q, g), b, r2), k) = Blinded(k, a, b, p)
<1> DEFINE n == p * p * q  pk == PublicKey(p, q, g)  l == p - 1  mu == Mu(g, p)
           c == Enc(pk, a, r1)  d == Enc(pk, b, r2)
           e == Sub(pk, c, d)  i == mod_inverse(d, n)
           f == Scalar_Mul(pk, k, e)  E == Power(e, k)
<1>1. n \in Nat \ {0} /\ pk.n = n /\ pk.g = g /\ pk.h \in Nat
  BY KeyParts
<1>2. p \in Nat \ {0} /\ q \in Nat \ {0} /\ p > 1 /\ l \in Nat /\ k \in Int
      /\ a \in Int /\ b \in Int /\ a - b \in Int /\ g \in Int
  BY DEF IsPrime
<1>3. \A x, y \in Int : Congruent(x, y, n) => Congruent(x, y, p * p)
  BY <1>2, ModSquare
<1>4. PICK u \in Int : Carries(g, u, l, p) /\ Congruent(u * mu, 1, p)
  BY UsableExponent
<1>5. Carries(c, a * u, l, p) /\ Carries(d, b * u, l, p)
  BY <1>4, EncCarries
<1>6. mu \in Int
  BY <1>2, MuInt
<1>7. Coprime(d, n)
  OBVIOUS
<1> HIDE DEF n, pk, l, mu
<1>8. c \in Nat /\ d \in Nat
  BY <1>1, EncForm
<1> HIDE DEF c, d
<1>9. e \in Nat /\ i \in Int /\ Congruent(d * i, 1, n) /\ Congruent(e, c * i, n)
  BY <1>1, <1>7, <1>8, SubForm
<1> HIDE DEF e, i
<1>10. c \in Int /\ d \in Int /\ e \in Int /\ d * i \in Int /\ c * i \in Int /\ 1 \in Int
       /\ a * u \in Int /\ b * u \in Int /\ -(b * u) \in Int /\ a * u + (-(b * u)) \in Int
  BY <1>2, <1>8, <1>9
<1> DEFINE x == a * u  y == b * u  z == -y  w == x + z
<1>11. Carries(e, w, l, p)
  <2>1. Congruent(d * i, 1, p * p) /\ Congruent(e, c * i, p * p)
    BY <1>3, <1>9, <1>10
  <2>2. x \in Int /\ y \in Int /\ z \in Int /\ w \in Int
    BY <1>10
  <2>3. Carries(c, x, l, p) /\ Carries(d, y, l, p)
    BY <1>5
  <2> HIDE DEF x, y
  <2>4. Carries(i, z, l, p)
    BY <1>2, <1>9, <1>10, <2>1, <2>2, <2>3, CarriesInverse
  <2> HIDE DEF z
  <2>5. Carries(c * i, w, l, p)
    BY <1>2, <1>9, <1>10, <2>2, <2>3, <2>4, CarriesProduct
  <2> HIDE DEF w
  <2>6. Congruent(c * i, e, p * p) /\ Congruent(w, w, p)
    BY <2>1, CongruentEquivalence
  <2> QED
    BY <1>2, <1>10, <2>2, <2>5, <2>6, CarriesSame
<1>12. w \in Int /\ k * w \in Int
  BY <1>2, <1>10
<1>13. f \in Nat /\ Congruent(f, E, n)
  BY <1>1, <1>9, ScalarForm
<1>14. E \in Int
  BY <1>10, PowerDef
<1>15. Carries(f, k * w, l, p)
  <2> HIDE DEF w
  <2>1. Carries(E, k * w, l, p)
    BY <1>2, <1>10, <1>11, <1>12, CarriesPower
  <2> HIDE DEF E, f
  <2>2. f \in Int
    BY <1>13
  <2>3. Congruent(f, E, p * p)
    BY <1>3, <1>13, <1>14, <2>2
  <2>4. Congruent(E, f, p * p) /\ Congruent(k * w, k * w, p)
    BY <2>3, CongruentEquivalence
  <2> QED
    BY <1>2, <1>12, <1>14, <2>1, <2>2, <2>4, CarriesSame
<1> DEFINE v == k * (a - b)
<1>16. Dec(pk, sk, f) = ((k * w) * mu) % p
  <2> HIDE DEF f, w
  <2> QED
    BY <1>1, <1>2, <1>12, <1>13, <1>15, DecReads DEF mu, l
<1>17. (k * w) * mu = v * (u * mu)
  BY <1>2, <1>6
<1>18. v \in Int /\ u * mu \in Int /\ v * 1 = v /\ 1 \in Int
  BY <1>2, <1>6
<1>19. Congruent(v * (u * mu), v * 1, p)
  <2> HIDE DEF v
  <2> QED
    BY <1>2, <1>4, <1>18, CongruentScale
<1>20. (k * ((a - b) % p)) % p = v % p
  <2> DEFINE t == a - b
  <2>1. t \in Int
    BY <1>2
  <2> HIDE DEF t
  <2>2. (k * (t % p)) % p = (k * t) % p
    BY <1>2, <2>1, ModMul
  <2> QED
    BY <2>2 DEF t
<1>21. Dec(pk, sk, f) = (k * ((a - b) % p)) % p
  <2> HIDE DEF v, w, f
  <2> QED
    BY <1>16, <1>17, <1>18, <1>19, <1>20 DEF Congruent
<1> QED
  BY <1>21 DEF Blinded, Answer, f, e, c, d, pk

(* A g divisible by p: h is zero modulo p^2.                               *)
LEMMA DegenerateH ==
  ASSUME NEW p \in Nat, IsPrime(p), NEW q \in Nat, IsPrime(q),
         NEW g \in Nat, ~Coprime(g, p)
  PROVE  Congruent(g, 0, p) /\ Congruent(PublicKey(p, q, g).h, 0, p * p)
<1> DEFINE n == p * p * q  h == PublicKey(p, q, g).h  P == Power(g, n)
           k == n - 2  K == Power(g, k)  N == p * p
<1>1. n \in Nat \ {0} /\ n > 1 /\ h \in Nat /\ Congruent(h, P, n)
  BY KeyParts
<1>2. p \in Nat \ {0} /\ q \in Nat \ {0} /\ g \in Int /\ h \in Int /\ 0 \in Int
      /\ N \in Nat \ {0}
  BY <1>1 DEF IsPrime
<1>3. \A x, y \in Int : Congruent(x, y, n) => Congruent(x, y, N)
  BY <1>2, ModSquare
<1>4. g % p = 0
  BY PrimeCoprime
<1>5. Congruent(g, 0, p)
  BY <1>2, <1>4, ResidueZero
<1>6. PICK t \in Int : g = 0 + p * t
  BY <1>2, <1>5, CongruentMultiple
<1> HIDE DEF n, h
<1>7. k \in Nat /\ n = (k + 1) + 1 /\ k + 1 \in Nat
  BY <1>1
<1>8. P = g * (g * K) /\ P \in Int /\ K \in Int
  <2> HIDE DEF k
  <2>1. Power(g, k + 1) = g * K /\ K \in Int
    BY <1>2, <1>7, PowerDef
  <2>2. Power(g, (k + 1) + 1) = g * Power(g, k + 1) /\ Power(g, (k + 1) + 1) \in Int
    <3> DEFINE j == k + 1
    <3>1. j \in Nat /\ j + 1 \in Nat
      BY <1>7
    <3> HIDE DEF j
    <3>2. Power(g, j + 1) = g * Power(g, j) /\ Power(g, j + 1) \in Int
      BY <1>2, <3>1, PowerDef
    <3> QED
      BY <3>2 DEF j
  <2> QED
    BY <1>7, <2>1, <2>2
<1> HIDE DEF P, K
<1> DEFINE w == t * (t * K)
<1>9. P = 0 + N * w /\ w \in Int
  <2>1. g = p * t
    BY <1>2, <1>6
  <2>2. (p * t) * ((p * t) * K) = (p * p) * (t * (t * K))
    BY <1>2, <1>8
  <2>3. P = (p * p) * (t * (t * K))
    BY <1>8, <2>1, <2>2
  <2> QED
    BY <1>2, <1>8, <2>3
<1> HIDE DEF w, N
<1>10. Congruent(P, 0, N)
  BY <1>2, <1>8, <1>9, CongruentMultiple
<1>11. Congruent(h, 0, N)
  <2>1. Congruent(h, P, N)
    BY <1>1, <1>2, <1>3, <1>8
  <2> QED
    BY <1>10, <2>1, CongruentEquivalence
<1> QED
  BY <1>5, <1>11 DEF h, N

(* A number that is zero modulo p has no inverse modulo n.                 *)
LEMMA ZeroNoUnit ==
  ASSUME NEW p \in Nat, IsPrime(p), NEW q \in Nat, IsPrime(q), NEW d \in Nat,
         Congruent(d, 0, p)
  PROVE  ~Coprime(d, p * p * q)
<1> DEFINE N == p * p
<1>1. p \in Nat \ {0} /\ q \in Nat \ {0} /\ N \in Nat \ {0} /\ d \in Int
  BY DEF IsPrime
<1>2. Coprime(d, N * q) => Coprime(d, N)
  <2> HIDE DEF N
  <2> QED
    BY <1>1, CoprimeProduct
<1>3. Coprime(d, N) => Coprime(d, p)
  BY <1>1, CoprimeProduct
<1>4. ~Coprime(d, p)
  BY <1>1, ResidueZero, PrimeCoprime
<1> QED
  BY <1>2, <1>3, <1>4

(* Under a g divisible by p, Bob's ciphertext has an inverse only when the *)
(* number and his random number are zero; Alice's is then zero or one.     *)
LEMMA DegenerateDecrypts ==
  ASSUME NEW p \in Nat, IsPrime(p), NEW q \in Nat, IsPrime(q),
         NEW g \in Nat, ~Coprime(g, p), NEW sk, sk.p = p,
         NEW a \in Nat, NEW r1 \in Nat, NEW r2 \in Nat, NEW k \in Nat,
         Coprime(Enc(PublicKey(p, q, g), a, r2), p * p * q)
  PROVE  Answer(PublicKey(p, q, g), sk, Enc(PublicKey(p, q, g), a, r1),
                Enc(PublicKey(p, q, g), a, r2), k) = 0
<1> DEFINE n == p * p * q  pk == PublicKey(p, q, g)  h == pk.h  N == p * p
           c == Enc(pk, a, r1)  d == Enc(pk, a, r2)
           G == Power(g, a)  H1 == Power(h, r1)  H2 == Power(h, r2)
           e == Sub(pk, c, d)  i == mod_inverse(d, n)
<1>1. n \in Nat \ {0} /\ pk.n = n /\ pk.g = g /\ h \in Nat
  BY KeyParts
<1>2. p \in Nat \ {0} /\ q \in Nat \ {0} /\ N \in Nat \ {0} /\ g \in Int /\ h \in Int
      /\ 0 \in Int /\ 1 \in Int
  BY <1>1 DEF IsPrime
<1>3. \A x, y \in Int : Congruent(x, y, n) => Congruent(x, y, N)
  BY <1>2, ModSquare
<1>4. \A x, y \in Int : Congruent(x, y, N) => Congruent(x, y, p)
  BY <1>2, CongruentFactor
<1>5. Congruent(g, 0, p) /\ Congruent(h, 0, N)
  BY DegenerateH
<1>6. Coprime(d, n)
  OBVIOUS
<1>7. d \in Nat => ~Congruent(d, 0, p)
  BY <1>6, ZeroNoUnit
<1> HIDE DEF n, pk, N
<1>8. /\ c \in Nat /\ Congruent(c, G * H1, n)
      /\ d \in Nat /\ Congruent(d, G * H2, n)
  <2>1. pk.h = h
    OBVIOUS
  <2>2. /\ c \in Nat /\ Congruent(c, Power(pk.g, a) * Power(pk.h, r1), pk.n)
        /\ d \in Nat /\ Congruent(d, Power(pk.g, a) * Power(pk.h, r2), pk.n)
    BY <1>1, EncForm
  <2> QED
    BY <1>1, <2>2
<1> HIDE DEF c, d, h
<1>9. e \in Nat /\ i \in Int /\ Congruent(d * i, 1, n) /\ Congruent(e, c * i, n)
  BY <1>1, <1>6, <1>8, SubForm
<1>10. Trivial(H1, N) /\ Trivial(H2, N)
  BY <1>2, <1>5, TrivialPower DEF Trivial
<1>11. G \in Int /\ H1 \in Int /\ H2 \in Int
  BY <1>2, PowerDef
<1>12. a # 0 => Congruent(G, 0, p)
  <2> SUFFICES ASSUME a # 0 PROVE Congruent(G, 0, p)
    OBVIOUS
  <2>1. Congruent(G, Power(0, a), p)
    BY <1>2, <1>5, CongruentPower
  <2>2. Power(0, a) = 0
    BY PowerOfZero
  <2> QED
    BY <2>1, <2>2
<1>13. a = 0 => G = 1
  BY <1>2, PowerDef
<1> HIDE DEF e, i, G, H1, H2
<1>14. c \in Int /\ d \in Int /\ e \in Int /\ d * i \in Int /\ c * i \in Int
       /\ G * H1 \in Int /\ G * H2 \in Int
  BY <1>8, <1>9, <1>11
<1>15. Congruent(c, G * H1, N) /\ Congruent(d, G * H2, N)
       /\ Congruent(d * i, 1, N) /\ Congruent(e, c * i, N)
  BY <1>2, <1>3, <1>8, <1>9, <1>14
<1>16. a = 0
  <2> SUFFICES ASSUME a # 0 PROVE FALSE
    OBVIOUS
  <2>1. Congruent(G * H2, 0 * H2, p)
    BY <1>2, <1>11, <1>12, CongruentScale
  <2>2. 0 * H2 = 0
    BY <1>11
  <2>3. Congruent(d, G * H2, p)
    BY <1>4, <1>14, <1>15
  <2>4. Congruent(d, 0, p)
    BY <2>1, <2>2, <2>3, CongruentEquivalence
  <2> QED
    BY <1>7, <1>8, <2>4
<1>17. G * H1 = H1 /\ G * H2 = H2
  BY <1>11, <1>13, <1>16
<1>18. Congruent(d, 1, N)
  <2>1. Trivial(d, N)
    BY <1>10, <1>15, <1>17, TrivialSame
  <2>2. ~Congruent(d, 0, N)
    BY <1>2, <1>4, <1>7, <1>8, <1>14
  <2> QED
    BY <2>1, <2>2 DEF Trivial
<1>19. Congruent(i, 1, N)
  <2>1. Congruent(d * i, 1 * i, N)
    BY <1>2, <1>9, <1>14, <1>18, CongruentScale
  <2>2. 1 * i = i
    BY <1>9
  <2> QED
    BY <1>15, <2>1, <2>2, CongruentEquivalence
<1>20. Congruent(e, c, N)
  <2>1. Congruent(c * i, c * 1, N)
    BY <1>2, <1>9, <1>14, <1>19, CongruentScale
  <2>2. c * 1 = c
    BY <1>14
  <2> QED
    BY <1>15, <2>1, <2>2, CongruentEquivalence
<1>21. Trivial(e, p * p)
  <2>1. Trivial(c, N)
    BY <1>10, <1>15, <1>17, TrivialSame
  <2> QED
    BY <1>20, <2>1, TrivialSame DEF N
<1>22. Dec(pk, sk, Scalar_Mul(pk, k, e)) = 0
  BY <1>9, <1>21, TrivialAnswer DEF pk
<1> QED
  BY <1>22 DEF Answer, pk, c, d, e

(* Under every g that KeyGen accepts equal plaintexts come back as zero;   *)
(* under a g prime to p different ones as their blinded difference, unless *)
(* Bob's ciphertext has no inverse.                                        *)
Reveals(p, q, g, a, b, c, d, k, z) ==
  /\ a = b => z = 0
  /\ Coprime(g, p) /\ Coprime(d, p * p * q) => z = Blinded(k, a, b, p)

LEMMA EncReveals ==
  ASSUME NEW p \in Nat, IsPrime(p), NEW q \in Nat, IsPrime(q),
         NEW g \in Nat, UsableG(g, p), NEW sk, sk.p = p,
         NEW a \in Nat, NEW b \in Nat, NEW r1 \in Nat, NEW r2 \in Nat, NEW k \in Nat
  PROVE  Reveals(p, q, g, a, b, Enc(PublicKey(p, q, g), a, r1),
                 Enc(PublicKey(p, q, g), b, r2), k,
                 Answer(PublicKey(p, q, g), sk, Enc(PublicKey(p, q, g), a, r1),
                        Enc(PublicKey(p, q, g), b, r2), k))
<1> DEFINE n == p * p * q  pk == PublicKey(p, q, g)
           c == Enc(pk, a, r1)  d == Enc(pk, b, r2)
           z == Answer(pk, sk, c, d, k)
<1>1. p \in Nat \ {0}
  BY DEF IsPrime
<1>2. ASSUME Coprime(g, p), Coprime(d, n) PROVE z = Blinded(k, a, b, p)
  <2>1. Coprime(Enc(PublicKey(p, q, g), b, r2), p * p * q)
    BY <1>2
  <2>2. Answer(PublicKey(p, q, g), sk, Enc(PublicKey(p, q, g), a, r1),
                Enc(PublicKey(p, q, g), b, r2), k) = Blinded(k, a, b, p)
    BY <1>2, <2>1, DifferenceDecrypts
  <2> QED
    BY <2>2
<1>3. ASSUME ~Coprime(d, n) PROVE z = 0
  <2>1. c \in Nat /\ d \in Nat
    <3>1. pk.n \in Nat \ {0} /\ pk.g = g /\ pk.h \in Nat
      BY KeyParts
    <3> HIDE DEF pk
    <3> QED
      BY <3>1, EncForm
  <2> HIDE DEF c, d
  <2> QED
    BY <1>3, <2>1, NonUnitDecrypts
<1>4. ASSUME ~Coprime(g, p), Coprime(d, n), a = b PROVE z = 0
  <2>1. Coprime(Enc(PublicKey(p, q, g), a, r2), p * p * q)
    BY <1>4
  <2>2. Answer(PublicKey(p, q, g), sk, Enc(PublicKey(p, q, g), a, r1),
                Enc(PublicKey(p, q, g), a, r2), k) = 0
    BY <1>4, <2>1, DegenerateDecrypts
  <2> QED
    BY <1>4, <2>2
<1>5. a = b => Blinded(k, a, b, p) = 0
  <2>1. a - a = 0 /\ 0 % p = 0 /\ k * 0 = 0
    BY <1>1
  <2> QED
    BY <2>1 DEF Blinded
<1> HIDE DEF z, n, c, d, pk
<1>6. a = b => z = 0
  BY <1>2, <1>3, <1>4, <1>5
<1> QED
  BY <1>2, <1>6 DEF Reveals, z, n, c, d, pk

------------------------------------------------------------------------------

(***************************************************************************)
(* The inductive invariant: the keys belong together, and every value of a *)
(* call is what the step before made of the numbers under that key.  What  *)
(* Bob's answer decrypts to follows from it (Decrypts, below).             *)
(***************************************************************************)
Phases == {"nokey", "modulus", "ready", "step1", "step2", "done"}

TypeOK == /\ phase \in Phases
          /\ aliceNumber \in Numbers /\ bobNumber \in Numbers
          /\ verdict \in BOOLEAN

KeyShape ==
  publicKey = [n |-> publicKey.n, g |-> publicKey.g, h |-> publicKey.h]

ModulusFromPrimes ==
  phase = "modulus" =>
    \E p, q \in PrimesOfBits(lambda) :
      secretKey = [p |-> p, q |-> q] /\ publicKey.n = p * p * q

KeyAccepted ==
  Keyed =>
    \E p, q \in PrimesOfBits(lambda) : \E g \in GRandom(p * p * q) :
      /\ secretKey = [p |-> p, q |-> q]
      /\ publicKey = PublicKey(p, q, g)
      /\ UsableG(g, p)

AliceEncrypts ==
  phase \in {"step1", "step2", "done"} =>
    \E r \in EncRandom(publicKey.n) :
      aliceCipherText = Enc(publicKey, Encode(aliceNumber), r)

BobAnswers ==
  phase \in {"step2", "done"} =>
    /\ \E r \in EncRandom(publicKey.n) :
         bobCipherText = Enc(publicKey, Encode(bobNumber), r)
    /\ s \in ScalarRandom(publicKey.n)
    /\ res = Scalar_Mul(publicKey, s, Sub(publicKey, aliceCipherText, bobCipherText))

AnswerFromRes ==
  phase = "done" => verdict = (Dec(publicKey, secretKey, res) = 0)

NothingBeforeKey == ~Keyed => res = 0

IInv == /\ TypeOK /\ KeyShape /\ ModulusFromPrimes /\ KeyAccepted
        /\ AliceEncrypts /\ BobAnswers /\ AnswerFromRes /\ NothingBeforeKey

LEMMA InitIInv == Init => IInv
<1> SUFFICES ASSUME Init PROVE IInv
  OBVIOUS
<1>1. TypeOK
  BY NumbersAssumption DEF Init, TypeOK, Phases
<1>2. KeyShape
  BY DEF Init, KeyShape
<1>3. /\ ModulusFromPrimes /\ KeyAccepted /\ AliceEncrypts /\ BobAnswers
      /\ AnswerFromRes /\ NothingBeforeKey
  BY DEF Init, ModulusFromPrimes, KeyAccepted, Keyed, AliceEncrypts, BobAnswers,
         AnswerFromRes, NothingBeforeKey
<1> QED
  BY <1>1, <1>2, <1>3 DEF IInv

LEMMA NextIInv == IInv /\ [Next]_vars => IInv'
<1> SUFFICES ASSUME IInv, [Next]_vars PROVE IInv'
  OBVIOUS
<1>1. CASE DrawPrimes
  <2>0. PICK p \in PrimesOfBits(lambda), q \in PrimesOfBits(lambda) :
          /\ secretKey' = [p |-> p, q |-> q]
          /\ publicKey' = [publicKey EXCEPT !.n = p * p * q]
          /\ phase' = IF UsableModulus(p, q, ModulusBits) THEN "modulus" ELSE "nokey"
    BY <1>1 DEF DrawPrimes
  <2>1. /\ aliceNumber' = aliceNumber /\ bobNumber' = bobNumber
        /\ verdict' = verdict /\ res' = res /\ phase = "nokey"
    BY <1>1 DEF DrawPrimes, callVars
  <2>2. phase' \in {"nokey", "modulus"}
    BY <2>0
  <2>3. publicKey' = [n |-> p * p * q, g |-> publicKey.g, h |-> publicKey.h]
    <3> DEFINE n == p * p * q
    <3> HIDE DEF n
    <3>1. publicKey = [n |-> publicKey.n, g |-> publicKey.g, h |-> publicKey.h]
      BY DEF IInv, KeyShape
    <3>2. publicKey' = [publicKey EXCEPT !.n = n]
      BY <2>0 DEF n
    <3>3. publicKey' = [n |-> n, g |-> publicKey.g, h |-> publicKey.h]
      BY <3>1, <3>2
    <3> QED
      BY <3>3 DEF n
  <2>4. TypeOK'
    BY <2>1, <2>2 DEF IInv, TypeOK, Phases
  <2>5. KeyShape' /\ publicKey'.n = p * p * q
    BY <2>3 DEF KeyShape
  <2>6. ModulusFromPrimes'
    BY <2>0, <2>5 DEF ModulusFromPrimes
  <2>7. KeyAccepted' /\ AliceEncrypts' /\ BobAnswers' /\ AnswerFromRes'
    BY <2>2 DEF KeyAccepted, Keyed, AliceEncrypts, BobAnswers, AnswerFromRes
  <2>8. NothingBeforeKey'
    BY <2>1 DEF IInv, NothingBeforeKey, Keyed
  <2> QED
    BY <2>4, <2>5, <2>6, <2>7, <2>8 DEF IInv
<1>2. CASE DrawG
  <2>0. /\ aliceNumber' = aliceNumber /\ bobNumber' = bobNumber /\ secretKey' = secretKey
        /\ verdict' = verdict /\ res' = res /\ phase = "modulus"
    BY <1>2 DEF DrawG, callVars
  <2>1. PICK g \in GRandom(publicKey.n) :
          IF UsableG(g, secretKey.p)
          THEN /\ publicKey' = PublicKey(secretKey.p, secretKey.q, g)
               /\ phase' = "ready"
          ELSE publicKey' = [publicKey EXCEPT !.g = g] /\ phase' = phase
    BY <1>2 DEF DrawG
  <2>2. PICK p \in PrimesOfBits(lambda), q \in PrimesOfBits(lambda) :
          secretKey = [p |-> p, q |-> q] /\ publicKey.n = p * p * q
    BY <2>0 DEF IInv, ModulusFromPrimes
  <2>3. secretKey.p = p /\ secretKey.q = q
    BY <2>2
  <2>4. phase' \in {"modulus", "ready"}
    BY <2>0, <2>1
  <2>5. TypeOK'
    BY <2>0, <2>4 DEF IInv, TypeOK, Phases
  <2>6. CASE UsableG(g, p)
    <3>1. publicKey' = PublicKey(p, q, g) /\ phase' = "ready"
      BY <2>1, <2>3, <2>6
    <3>2. KeyShape'
      BY <3>1 DEF KeyShape, PublicKey
    <3>3. ModulusFromPrimes' /\ AliceEncrypts' /\ BobAnswers' /\ AnswerFromRes'
      BY <3>1 DEF ModulusFromPrimes, AliceEncrypts, BobAnswers, AnswerFromRes
    <3>4. KeyAccepted'
      <4>1. g \in GRandom(p * p * q) /\ secretKey' = [p |-> p, q |-> q]
        BY <2>0, <2>2
      <4> QED
        BY <2>6, <3>1, <4>1 DEF KeyAccepted
    <3>5. NothingBeforeKey'
      BY <3>1 DEF NothingBeforeKey, Keyed
    <3> QED
      BY <2>5, <3>2, <3>3, <3>4, <3>5 DEF IInv
  <2>7. CASE ~UsableG(g, p)
    <3>1. publicKey' = [publicKey EXCEPT !.g = g] /\ phase' = "modulus"
      BY <2>0, <2>1, <2>3, <2>7
    <3>2. publicKey' = [n |-> publicKey.n, g |-> g, h |-> publicKey.h]
      <4>1. publicKey = [n |-> publicKey.n, g |-> publicKey.g, h |-> publicKey.h]
        BY DEF IInv, KeyShape
      <4> QED
        BY <3>1, <4>1
    <3>3. KeyShape' /\ publicKey'.n = publicKey.n
      BY <3>2 DEF KeyShape
    <3>4. ModulusFromPrimes'
      BY <2>0, <2>2, <3>3 DEF ModulusFromPrimes
    <3>5. KeyAccepted' /\ AliceEncrypts' /\ BobAnswers' /\ AnswerFromRes'
      BY <3>1 DEF KeyAccepted, Keyed, AliceEncrypts, BobAnswers, AnswerFromRes
    <3>6. NothingBeforeKey'
      BY <2>0 DEF IInv, NothingBeforeKey, Keyed
    <3> QED
      BY <2>5, <3>3, <3>4, <3>5, <3>6 DEF IInv
  <2> QED
    BY <2>6, <2>7
<1>3. ASSUME NEW x \in Numbers, NEW y \in Numbers, Step1(x, y) PROVE IInv'
  <2>0. /\ phase = "ready" /\ phase' = "step1" /\ publicKey' = publicKey
        /\ secretKey' = secretKey /\ aliceNumber' = x /\ bobNumber' = y
        /\ verdict' = verdict
    BY <1>3 DEF Step1
  <2>1. TypeOK'
    BY <2>0 DEF IInv, TypeOK, Phases
  <2>2. KeyShape' /\ KeyAccepted' /\ ModulusFromPrimes'
    BY <2>0 DEF IInv, KeyShape, KeyAccepted, Keyed, ModulusFromPrimes
  <2>3. AliceEncrypts'
    <3>1. \E r \in EncRandom(publicKey.n) :
            aliceCipherText' = Enc(publicKey, Encode(x), r)
      BY <1>3 DEF Step1
    <3> QED
      BY <2>0, <3>1 DEF AliceEncrypts, Encode
  <2>4. BobAnswers' /\ AnswerFromRes' /\ NothingBeforeKey'
    BY <2>0 DEF BobAnswers, AnswerFromRes, NothingBeforeKey, Keyed
  <2> QED
    BY <2>1, <2>2, <2>3, <2>4 DEF IInv
<1>4. CASE Step2
  <2>0. /\ phase = "step1" /\ phase' = "step2" /\ publicKey' = publicKey
        /\ secretKey' = secretKey /\ aliceNumber' = aliceNumber
        /\ bobNumber' = bobNumber /\ aliceCipherText' = aliceCipherText
        /\ verdict' = verdict
    BY <1>4 DEF Step2
  <2>1. TypeOK'
    BY <2>0 DEF IInv, TypeOK, Phases
  <2>2. KeyShape' /\ KeyAccepted' /\ ModulusFromPrimes'
    BY <2>0 DEF IInv, KeyShape, KeyAccepted, Keyed, ModulusFromPrimes
  <2>3. AliceEncrypts'
    BY <2>0 DEF IInv, AliceEncrypts, Encode
  <2>4. BobAnswers'
    <3>1. \E r \in EncRandom(publicKey.n) :
            bobCipherText' = Enc(publicKey, Encode(bobNumber), r)
      BY <1>4 DEF Step2
    <3>2. /\ s' \in ScalarRandom(publicKey.n)
          /\ res' = Scalar_Mul(publicKey, s',
                      Sub(publicKey, aliceCipherText, bobCipherText'))
      BY <1>4 DEF Step2
    <3> QED
      BY <2>0, <3>1, <3>2 DEF BobAnswers, Encode
  <2>5. AnswerFromRes' /\ NothingBeforeKey'
    BY <2>0 DEF AnswerFromRes, NothingBeforeKey, Keyed
  <2> QED
    BY <2>1, <2>2, <2>3, <2>4, <2>5 DEF IInv
<1>5. CASE Step3
  <2>0. /\ phase = "step2" /\ phase' = "done" /\ publicKey' = publicKey
        /\ secretKey' = secretKey /\ aliceNumber' = aliceNumber
        /\ bobNumber' = bobNumber /\ aliceCipherText' = aliceCipherText
        /\ bobCipherText' = bobCipherText /\ s' = s /\ res' = res
        /\ verdict' = (Dec(publicKey, secretKey, res) = 0)
    BY <1>5 DEF Step3
  <2>1. TypeOK'
    BY <2>0 DEF IInv, TypeOK, Phases
  <2>2. KeyShape' /\ KeyAccepted' /\ ModulusFromPrimes'
    BY <2>0 DEF IInv, KeyShape, KeyAccepted, Keyed, ModulusFromPrimes
  <2>3. AliceEncrypts'
    BY <2>0 DEF IInv, AliceEncrypts, Encode
  <2>4. BobAnswers'
    BY <2>0 DEF IInv, BobAnswers, Encode
  <2>5. AnswerFromRes' /\ NothingBeforeKey'
    BY <2>0 DEF AnswerFromRes, NothingBeforeKey, Keyed
  <2> QED
    BY <2>1, <2>2, <2>3, <2>4, <2>5 DEF IInv
<1>6. CASE Return
  <2>0. phase = "done" /\ phase' = "ready" /\ publicKey' = publicKey
        /\ secretKey' = secretKey
    BY <1>6 DEF Return
  <2>1. TypeOK'
    BY <1>6, NumbersAssumption DEF IInv, TypeOK, Phases, Return
  <2>2. KeyShape' /\ KeyAccepted' /\ ModulusFromPrimes'
    BY <2>0 DEF IInv, KeyShape, KeyAccepted, Keyed, ModulusFromPrimes
  <2>3. AliceEncrypts' /\ BobAnswers' /\ AnswerFromRes' /\ NothingBeforeKey'
    BY <2>0 DEF AliceEncrypts, BobAnswers, AnswerFromRes, NothingBeforeKey, Keyed
  <2> QED
    BY <2>1, <2>2, <2>3 DEF IInv
<1>7. CASE UNCHANGED vars
  <2>0. /\ phase' = phase /\ publicKey' = publicKey
        /\ secretKey' = secretKey /\ aliceNumber' = aliceNumber
        /\ bobNumber' = bobNumber /\ aliceCipherText' = aliceCipherText
        /\ bobCipherText' = bobCipherText /\ s' = s /\ res' = res
        /\ verdict' = verdict
    BY <1>7 DEF vars
  <2>1. TypeOK'
    BY <2>0 DEF IInv, TypeOK
  <2>2. KeyShape' /\ KeyAccepted' /\ ModulusFromPrimes'
    BY <2>0 DEF IInv, KeyShape, KeyAccepted, Keyed, ModulusFromPrimes
  <2>3. AnswerFromRes' /\ NothingBeforeKey'
    BY <2>0 DEF IInv, AnswerFromRes, NothingBeforeKey, Keyed
  <2>4. AliceEncrypts'
    BY <2>0 DEF IInv, AliceEncrypts, Encode
  <2>5. BobAnswers'
    BY <2>0 DEF IInv, BobAnswers, Encode
  <2> QED
    BY <2>1, <2>2, <2>3, <2>4, <2>5 DEF IInv
<1> QED
  BY <1>1, <1>2, <1>3, <1>4, <1>5, <1>6, <1>7 DEF Next

LEMMA Invariance == Spec => []IInv
  BY InitIInv, NextIInv, PTL DEF Spec

------------------------------------------------------------------------------

(* What the invariant says of the keys, spelled out.                       *)
LEMMA KeyFacts ==
  ASSUME KeyAccepted, Keyed
  PROVE  \E p, q, g \in Nat :
           /\ IsPrime(p) /\ IsPrime(q) /\ UsableG(g, p)
           /\ p \in PrimesOfBits(lambda) /\ q \in PrimesOfBits(lambda)
           /\ publicKey = PublicKey(p, q, g) /\ secretKey = [p |-> p, q |-> q]
           /\ p * p * q \in Nat \ {0}
           /\ publicKey.n = p * p * q /\ publicKey.g = g /\ publicKey.h \in Nat
           /\ EncRandom(p * p * q) \subseteq Nat /\ ScalarRandom(p * p * q) \subseteq Nat
<1>1. PICK p \in PrimesOfBits(lambda), q \in PrimesOfBits(lambda) :
        \E g \in GRandom(p * p * q) :
          /\ secretKey = [p |-> p, q |-> q]
          /\ publicKey = PublicKey(p, q, g)
          /\ UsableG(g, p)
  BY DEF KeyAccepted
<1> DEFINE n == p * p * q
<1>2. PICK g \in GRandom(n) : /\ secretKey = [p |-> p, q |-> q]
                              /\ publicKey = PublicKey(p, q, g)
                              /\ UsableG(g, p)
  BY <1>1
<1>3. IsPrime(p) /\ IsPrime(q) /\ p \in Nat /\ q \in Nat
  <2>1. ASSUME NEW x \in PrimesOfBits(lambda) PROVE x \in Int /\ IsPrime(x)
    BY DEF PrimesOfBits
  <2>2. ASSUME NEW x \in PrimesOfBits(lambda) PROVE x \in Nat
    BY <2>1 DEF IsPrime
  <2> QED
    BY <2>1, <2>2
<1>4. GRandom(n) \cup EncRandom(n) \cup ScalarRandom(n) \subseteq 0..(n - 1)
  BY RandomAssumption
<1>5. n \in Int
  BY <1>3
<1> HIDE DEF n
<1>6. GRandom(n) \subseteq Nat /\ EncRandom(n) \subseteq Nat /\ ScalarRandom(n) \subseteq Nat
  BY <1>4, <1>5
<1>7. g \in Nat
  BY <1>6
<1>8. /\ n \in Nat \ {0} /\ PublicKey(p, q, g).n = n /\ PublicKey(p, q, g).g = g
      /\ PublicKey(p, q, g).h \in Nat
  BY <1>3, <1>7, KeyParts DEF n
<1> QED
  BY <1>2, <1>3, <1>6, <1>7, <1>8 DEF n

LEMMA EncodeNat == \A x \in Numbers : Encode(x) \in Nat
<1> TAKE x \in Numbers
<1>1. x \in Int /\ Word \in Nat \ {0}
  BY NumbersAssumption, WordAssumption
<1> QED
  BY <1>1 DEF Encode

(* What Bob's answer decrypts to.                                          *)
Decrypts ==
  phase \in {"step2", "done"} =>
    LET z == Dec(publicKey, secretKey, res)
    IN  /\ aliceNumber = bobNumber => z = 0
        /\ Regular => z = Blinded(s, Encode(aliceNumber), Encode(bobNumber), secretKey.p)

LEMMA IInvDecrypts == IInv => Decrypts
<1> SUFFICES ASSUME IInv, phase \in {"step2", "done"}
             PROVE  LET z == Dec(publicKey, secretKey, res)
                    IN  /\ aliceNumber = bobNumber => z = 0
                        /\ Regular => z = Blinded(s, Encode(aliceNumber),
                                                  Encode(bobNumber), secretKey.p)
  BY DEF Decrypts
<1>0. KeyAccepted /\ AliceEncrypts /\ BobAnswers /\ Keyed
  BY DEF IInv, Keyed
<1>1. PICK p \in Nat, q \in Nat, g \in Nat :
           /\ IsPrime(p) /\ IsPrime(q) /\ UsableG(g, p)
           /\ p \in PrimesOfBits(lambda) /\ q \in PrimesOfBits(lambda)
           /\ publicKey = PublicKey(p, q, g) /\ secretKey = [p |-> p, q |-> q]
           /\ p * p * q \in Nat \ {0}
           /\ publicKey.n = p * p * q /\ publicKey.g = g /\ publicKey.h \in Nat
           /\ EncRandom(p * p * q) \subseteq Nat /\ ScalarRandom(p * p * q) \subseteq Nat
  BY <1>0, KeyFacts
<1> DEFINE a == Encode(aliceNumber)  b == Encode(bobNumber)  n == p * p * q
           c == aliceCipherText  d == bobCipherText
           z == Dec(publicKey, secretKey, res)
<1>2. a \in Nat /\ b \in Nat
  BY EncodeNat DEF IInv, TypeOK
<1>3. PICK r1 \in EncRandom(n) : c = Enc(publicKey, a, r1)
  BY <1>0, <1>1 DEF AliceEncrypts
<1>4. PICK r2 \in EncRandom(n) : d = Enc(publicKey, b, r2)
  BY <1>0, <1>1 DEF BobAnswers
<1>5. /\ s \in ScalarRandom(n)
      /\ res = Scalar_Mul(publicKey, s, Sub(publicKey, c, d))
  BY <1>0, <1>1 DEF BobAnswers
<1>6. r1 \in Nat /\ r2 \in Nat /\ s \in Nat
  BY <1>1, <1>3, <1>4, <1>5
<1>7. secretKey.p = p
  BY <1>1
<1>8. aliceNumber = bobNumber => a = b
  OBVIOUS
<1>9. Regular => Coprime(g, p * p * q)
  BY <1>0, <1>1 DEF Regular, IsUnit
<1>10. z = Answer(publicKey, secretKey, c, d, s)
  BY <1>5 DEF Answer
<1> HIDE DEF a, b, c, d, z
<1>11. Reveals(p, q, g, a, b, Enc(PublicKey(p, q, g), a, r1),
               Enc(PublicKey(p, q, g), b, r2), s,
               Answer(PublicKey(p, q, g), secretKey, Enc(PublicKey(p, q, g), a, r1),
                      Enc(PublicKey(p, q, g), b, r2), s))
  BY <1>1, <1>2, <1>6, <1>7, EncReveals
<1>12. Reveals(p, q, g, a, b, c, d, s, z)
  BY <1>1, <1>3, <1>4, <1>10, <1>11
<1>13. a = b => z = 0
  BY <1>12 DEF Reveals
<1>14. Regular => z = Blinded(s, a, b, p)
  <2> SUFFICES ASSUME Coprime(g, p * p * q) PROVE z = Blinded(s, a, b, p)
    BY <1>9
  <2>1. Coprime(d, p * p * q)
    <3>1. Coprime(Enc(PublicKey(p, q, g), b, r2), p * p * q)
      BY <1>1, <1>2, <1>6, EncUnit
    <3> QED
      BY <1>1, <1>4, <3>1
  <2>2. Coprime(g, p)
    <3> DEFINE N == p * p
    <3>1. p \in Nat \ {0} /\ q \in Nat \ {0} /\ N \in Nat \ {0}
      BY <1>1 DEF IsPrime
    <3>2. Coprime(g, N)
      <4>1. Coprime(g, N * q)
        OBVIOUS
      <4> HIDE DEF N
      <4> QED
        BY <3>1, <4>1, CoprimeProduct
    <3> QED
      BY <3>1, <3>2, CoprimeProduct
  <2> QED
    BY <1>12, <2>1, <2>2 DEF Reveals
<1> QED
  BY <1>7, <1>8, <1>13, <1>14 DEF z, a, b

LEMMA DecryptsInvariant == Spec => []Decrypts
  BY IInvDecrypts, Invariance, PTL

(***************************************************************************)
(* Completeness of the Okamoto-Uchiyama tester, for primes of any size and *)
(* whatever g KeyGen accepted, one without an inverse included: equal      *)
(* numbers are accepted.                                                   *)
(***************************************************************************)
THEOREM EqualNumbersAccepted == Spec => []EqualAccepted
<1>1. IInv /\ Decrypts => EqualAccepted
  <2> SUFFICES ASSUME IInv, Decrypts, phase = "done", aliceNumber = bobNumber
               PROVE  verdict
    BY DEF EqualAccepted
  <2>1. verdict = (Dec(publicKey, secretKey, res) = 0)
    BY DEF IInv, AnswerFromRes
  <2>2. Dec(publicKey, secretKey, res) = 0
    BY DEF Decrypts
  <2> QED
    BY <2>1, <2>2
<1> QED
  BY <1>1, Invariance, DecryptsInvariant, PTL

------------------------------------------------------------------------------

(* Under a g without inverse every number is accepted.                     *)
DegenerateAccepts ==
  (phase = "done" /\ ~IsUnit(publicKey.g) /\ Encode(bobNumber) # 0) => verdict

(***************************************************************************)
(* A g without an inverse modulo n, which KeyGen does not refuse, makes    *)
(* the tester useless: Bob's ciphertext has no inverse, the failure of     *)
(* BN_mod_inverse (OU.cpp:195) is ignored, and whatever number Alice       *)
(* entered is accepted, unless Bob's is written as zero.                   *)
(***************************************************************************)
THEOREM DegenerateKeyAccepts == Spec => []DegenerateAccepts
<1>1. IInv => DegenerateAccepts
  <2> SUFFICES ASSUME IInv, phase = "done", ~IsUnit(publicKey.g),
                      Encode(bobNumber) # 0
               PROVE  verdict
    BY DEF DegenerateAccepts
  <2>1. KeyAccepted /\ AliceEncrypts /\ BobAnswers /\ AnswerFromRes /\ Keyed
    BY DEF IInv, Keyed
  <2>2. PICK p \in Nat, q \in Nat, g \in Nat :
           /\ IsPrime(p) /\ IsPrime(q)
           /\ publicKey = PublicKey(p, q, g) /\ secretKey = [p |-> p, q |-> q]
           /\ p * p * q \in Nat \ {0}
           /\ publicKey.n = p * p * q /\ publicKey.g = g /\ publicKey.h \in Nat
           /\ EncRandom(p * p * q) \subseteq Nat /\ ScalarRandom(p * p * q) \subseteq Nat
    BY <2>1, KeyFacts
  <2> DEFINE a == Encode(aliceNumber)  b == Encode(bobNumber)  n == p * p * q
             c == aliceCipherText  d == bobCipherText
             z == Dec(publicKey, secretKey, res)
  <2>3. a \in Nat /\ b \in Nat
    BY EncodeNat DEF IInv, TypeOK
  <2>4. PICK r1 \in EncRandom(n) : c = Enc(publicKey, a, r1)
    BY <2>1, <2>2 DEF AliceEncrypts
  <2>5. PICK r2 \in EncRandom(n) : d = Enc(publicKey, b, r2)
    BY <2>1, <2>2 DEF BobAnswers
  <2>6. /\ s \in ScalarRandom(n)
        /\ res = Scalar_Mul(publicKey, s, Sub(publicKey, c, d))
    BY <2>1, <2>2 DEF BobAnswers
  <2>7. r1 \in Nat /\ r2 \in Nat /\ s \in Nat /\ b \in Nat \ {0} /\ secretKey.p = p
    BY <2>2, <2>3, <2>4, <2>5, <2>6
  <2>8. ~Coprime(g, p * p * q)
    BY <2>2 DEF IsUnit
  <2>9. z = Answer(publicKey, secretKey, c, d, s)
    BY <2>6 DEF Answer
  <2> HIDE DEF a, b, c, d, z
  <2>10. c \in Nat /\ d \in Nat
    BY <2>2, <2>3, <2>4, <2>5, <2>7, EncForm
  <2>11. ~Coprime(d, p * p * q)
    BY <2>2, <2>5, <2>7, <2>8, EncNoUnit
  <2>12. z = 0
    BY <2>2, <2>7, <2>9, <2>10, <2>11, NonUnitDecrypts
  <2> QED
    BY <2>1, <2>12 DEF AnswerFromRes, z
<1> QED
  BY <1>1, Invariance, PTL

------------------------------------------------------------------------------

(* What the refinement needs of an accepted key.                           *)
LEMMA KeyTyped ==
  ASSUME KeyAccepted, Keyed
  PROVE  /\ secretKey.p \in PrimesOfBits(lambda)
         /\ ScalarRandom(publicKey.n) \subseteq Scalars(secretKey.p)
         /\ Dec(publicKey, secretKey, 0) = 0
<1>1. PICK p \in Nat, q \in Nat, g \in Nat :
           /\ IsPrime(p) /\ IsPrime(q) /\ UsableG(g, p)
           /\ p \in PrimesOfBits(lambda) /\ q \in PrimesOfBits(lambda)
           /\ publicKey = PublicKey(p, q, g) /\ secretKey = [p |-> p, q |-> q]
           /\ p * p * q \in Nat \ {0}
           /\ publicKey.n = p * p * q /\ publicKey.g = g /\ publicKey.h \in Nat
           /\ EncRandom(p * p * q) \subseteq Nat /\ ScalarRandom(p * p * q) \subseteq Nat
  BY KeyFacts
<1>2. secretKey.p = p
  BY <1>1
<1>3. ScalarRandom(p * p * q) \subseteq Scalars(p)
  BY <1>1 DEF Scalars
<1>4. Dec(publicKey, secretKey, 0) = 0
  <2>1. p > 1 /\ 0 \in Nat /\ Congruent(0, 0, p * p)
    BY <1>1, CongruentEquivalence DEF IsPrime
  <2> QED
    BY <1>1, <1>2, <2>1, DecTrivial
<1> QED
  BY <1>1, <1>2, <1>3, <1>4

(***************************************************************************)
(* For primes of any size, equal ones included, every step under a g with  *)
(* an inverse decrypts to a step of the plaintext-level test modulo p: the *)
(* rounds of KeyGen that reject their draw are stutters, the random        *)
(* numbers of the ciphertexts never show.                                  *)
(***************************************************************************)
THEOREM ImplementsAHE == Spec => AHESteps
<1>1. Init => AHE!Init
  <2> SUFFICES ASSUME Init PROVE AHE!Init
    OBVIOUS
  <2>1. Encode(0) = 0
    BY WordAssumption DEF Encode
  <2>2. ~Keyed
    BY DEF Init, Keyed
  <2> QED
    BY <2>1, <2>2 DEF Init, AHE!Init
<1>2. IInv /\ IInv' /\ Decrypts' /\ [Next]_vars
        => [AHE!Next \/ ~Regular']_(AHE!vars)
  <2> SUFFICES ASSUME IInv, IInv', Decrypts', [Next]_vars, Regular'
               PROVE  [AHE!Next]_(AHE!vars)
    BY DEF AHE!vars
  <2> DEFINE z == IF Keyed THEN Dec(publicKey, secretKey, res) ELSE 0
  <2>0. KeyAccepted /\ KeyAccepted'
    BY DEF IInv
  <2>1. CASE DrawPrimes
    <3>1. /\ aliceNumber' = aliceNumber /\ bobNumber' = bobNumber /\ s' = s
          /\ verdict' = verdict /\ phase = "nokey" /\ phase' \in {"nokey", "modulus"}
      BY <2>1 DEF DrawPrimes, callVars
    <3>2. ~Keyed /\ ~Keyed'
      BY <3>1 DEF Keyed
    <3> QED
      BY <3>1, <3>2 DEF AHE!vars, Encode
  <2>2. CASE DrawG
    <3>1. /\ aliceNumber' = aliceNumber /\ bobNumber' = bobNumber /\ s' = s
          /\ verdict' = verdict /\ res' = res /\ phase = "modulus"
          /\ phase' \in {"modulus", "ready"}
      BY <2>2 DEF DrawG, callVars
    <3>2. ~Keyed
      BY <3>1 DEF Keyed
    <3>3. CASE phase' = "modulus"
      <4>1. ~Keyed'
        BY <3>3 DEF Keyed
      <4> QED
        BY <3>1, <3>2, <4>1 DEF AHE!vars, Encode
    <3>4. CASE phase' = "ready"
      <4>1. Keyed'
        BY <3>4 DEF Keyed
      <4>2. secretKey'.p \in PrimesOfBits(lambda) /\ Dec(publicKey', secretKey', 0) = 0
        <5>1. (KeyAccepted /\ Keyed => /\ secretKey.p \in PrimesOfBits(lambda)
                                       /\ Dec(publicKey, secretKey, 0) = 0)'
          BY KeyTyped, PTL
        <5> QED
          BY <2>0, <4>1, <5>1
      <4>3. res' = 0
        BY <3>1, <3>2 DEF IInv, NothingBeforeKey
      <4>4. z = 0 /\ z' = 0
        BY <3>2, <4>1, <4>2, <4>3
      <4>5. AHE!KeyGen
        BY <3>1, <3>2, <3>4, <4>1, <4>2, <4>4 DEF AHE!KeyGen, Encode
      <4> QED
        BY <4>5 DEF AHE!Next
    <3> QED
      BY <3>1, <3>3, <3>4
  <2>3. ASSUME NEW x \in Numbers, NEW y \in Numbers, Step1(x, y)
        PROVE  AHE!Next
    <3>1. /\ publicKey' = publicKey /\ secretKey' = secretKey /\ res' = res /\ s' = s
          /\ verdict' = verdict /\ phase = "ready" /\ phase' = "step1"
          /\ aliceNumber' = x /\ bobNumber' = y
      BY <2>3 DEF Step1
    <3>2. Keyed /\ Keyed'
      BY <3>1 DEF Keyed
    <3>3. AHE!Step1(Encode(x), Encode(y))
      BY <3>1, <3>2 DEF AHE!Step1, Encode
    <3> QED
      BY <3>3 DEF AHE!Next
  <2>4. CASE Step2
    <3>1. /\ publicKey' = publicKey /\ secretKey' = secretKey
          /\ verdict' = verdict /\ phase = "step1" /\ phase' = "step2"
          /\ aliceNumber' = aliceNumber /\ bobNumber' = bobNumber
      BY <2>4 DEF Step2
    <3>2. Keyed /\ Keyed'
      BY <3>1 DEF Keyed
    <3>3. z' = (s' * ((Encode(aliceNumber) - Encode(bobNumber)) % secretKey.p)) % secretKey.p
      <4>1. Dec(publicKey', secretKey', res') =
              Blinded(s', Encode(aliceNumber'), Encode(bobNumber'), secretKey'.p)
        BY <3>1 DEF Decrypts, Encode
      <4> QED
        BY <3>1, <3>2, <4>1 DEF Blinded
    <3>4. s' \in Scalars(secretKey.p)
      <4>1. s' \in ScalarRandom(publicKey.n)
        BY <3>1 DEF IInv, BobAnswers
      <4> QED
        BY <2>0, <3>2, <4>1, KeyTyped
    <3>5. AHE!Step2(s')
      BY <3>1, <3>2, <3>3 DEF AHE!Step2, Encode
    <3> QED
      BY <3>2, <3>4, <3>5 DEF AHE!Next
  <2>5. CASE Step3
    <3>1. phase = "step2" /\ phase' = "done"
      BY <2>5 DEF Step3
    <3>2. Keyed /\ Keyed'
      BY <3>1 DEF Keyed
    <3>3. AHE!Step3
      BY <2>5, <3>2 DEF Step3, AHE!Step3, Encode
    <3> QED
      BY <3>3 DEF AHE!Next
  <2>6. CASE Return
    <3>1. /\ publicKey' = publicKey /\ secretKey' = secretKey /\ res' = 0 /\ s' = 0
          /\ verdict' = FALSE /\ phase = "done" /\ phase' = "ready"
          /\ aliceNumber' = 0 /\ bobNumber' = 0
      BY <2>6 DEF Return
    <3>2. Keyed /\ Keyed'
      BY <3>1 DEF Keyed
    <3>3. Encode(0) = 0
      BY WordAssumption DEF Encode
    <3>4. Dec(publicKey', secretKey', res') = 0
      BY <2>0, <3>1, <3>2, KeyTyped
    <3>5. AHE!Return
      BY <3>1, <3>2, <3>3, <3>4 DEF AHE!Return, Encode
    <3> QED
      BY <3>5 DEF AHE!Next
  <2>7. CASE UNCHANGED vars
    BY <2>7 DEF vars, AHE!vars, Encode, Keyed
  <2> QED
    BY <2>1, <2>2, <2>3, <2>4, <2>5, <2>6, <2>7 DEF Next
<1> QED
  BY <1>1, <1>2, Invariance, DecryptsInvariant, PTL DEF Spec, AHESteps

(***************************************************************************)
(* Add, Sub and Scalar_Mul in any sequence: HomomorphicCalc on the keys    *)
(* KeyGen makes from primes of any size and an invertible g, with any      *)
(* plaintext, random number and scalar.                                    *)
(***************************************************************************)
VARIABLES pair, held, plain      \* its key, ciphertext and plaintext

PairOf(p, q, g) == [pk |-> PublicKey(p, q, g), sk |-> [p |-> p, q |-> q], M |-> p]
KeyChoices == {k \in Nat \X Nat \X Nat : /\ IsPrime(k[1]) /\ IsPrime(k[2])
                                         /\ Coprime(k[3], k[1] * k[1] * k[2])
                                         /\ UsableG(k[3], k[1])}
Pairs == {PairOf(k[1], k[2], k[3]) : k \in KeyChoices}
AnyScalar(k) == Nat
AnyFresh(k, x) == {Enc(k.pk, x, r) : r \in Nat}
PairAdd(k, c, d) == Add(k.pk, c, d)
PairSub(k, c, d) == Sub(k.pk, c, d)
PairMul(k, x, c) == Scalar_Mul(k.pk, x, c)
PairReads(k, c, x) == Dec(k.pk, k.sk, c) = x

Calc == INSTANCE HomomorphicCalc
          WITH Keys <- Pairs, FreshPlain <- Nat, Scalars <- AnyScalar,
               Fresh <- AnyFresh, AddOp <- PairAdd, SubOp <- PairSub,
               MulOp <- PairMul, Reads <- PairReads,
               key <- pair, c <- held, m <- plain

(* A unit that carries x times u, the exponent g carries.                  *)
Holds(p, q, u, c, x) ==
  /\ c \in Nat /\ Coprime(c, p * p * q)
  /\ Carries(c, x * u, p - 1, p)

IsExponent(p, g, u) == Carries(g, u, p - 1, p) /\ Congruent(u * Mu(g, p), 1, p)

CalcInv ==
  /\ plain \in Nat
  /\ \E k \in KeyChoices, u \in Int :
       /\ pair = PairOf(k[1], k[2], k[3])
       /\ IsExponent(k[1], k[3], u)
       /\ Holds(k[1], k[2], u, held, plain)

LEMMA PairFacts ==
  ASSUME NEW p \in Nat, IsPrime(p), NEW q \in Nat, IsPrime(q), NEW g \in Nat
  PROVE  LET n == p * p * q
         IN  /\ n \in Nat \ {0} /\ p \in Nat \ {0} /\ p > 1 /\ p - 1 \in Nat
             /\ PairOf(p, q, g).pk = PublicKey(p, q, g)
             /\ PairOf(p, q, g).pk.n = n
             /\ \A a, b \in Int : Congruent(a, b, n) => Congruent(a, b, p * p)
<1>1. p \in Nat \ {0} /\ q \in Nat \ {0} /\ p > 1 /\ p - 1 \in Nat
  BY DEF IsPrime
<1>2. PairOf(p, q, g).pk = PublicKey(p, q, g)
  BY DEF PairOf
<1>3. p * p * q \in Nat \ {0} /\ PublicKey(p, q, g).n = p * p * q
  BY KeyParts
<1>4. \A a, b \in Int : Congruent(a, b, p * p * q) => Congruent(a, b, p * p)
  BY <1>1, ModSquare
<1> QED
  BY <1>1, <1>2, <1>3, <1>4

LEMMA FreshHolds ==
  ASSUME NEW p \in Nat, IsPrime(p), NEW q \in Nat, IsPrime(q), NEW g \in Nat,
         Coprime(g, p * p * q), NEW u \in Int, IsExponent(p, g, u),
         NEW x \in Nat, NEW c \in AnyFresh(PairOf(p, q, g), x)
  PROVE  Holds(p, q, u, c, x)
<1>1. PICK r \in Nat : c = Enc(PublicKey(p, q, g), x, r)
  BY DEF AnyFresh, PairOf
<1>2. c \in Nat
  <2> DEFINE pk == PublicKey(p, q, g)
  <2>1. pk.n \in Nat \ {0} /\ pk.g \in Nat /\ pk.h \in Nat /\ c = Enc(pk, x, r)
    BY <1>1, KeyParts
  <2> HIDE DEF pk
  <2> QED
    BY <2>1, EncForm
<1>3. Coprime(c, p * p * q)
  BY <1>1, EncUnit
<1>4. Carries(c, x * u, p - 1, p)
  BY <1>1, EncCarries DEF IsExponent
<1> QED
  BY <1>2, <1>3, <1>4 DEF Holds

LEMMA AddHolds ==
  ASSUME NEW p \in Nat, IsPrime(p), NEW q \in Nat, IsPrime(q), NEW g \in Nat, NEW u \in Int,
         NEW x \in Int, NEW y \in Int, NEW c, NEW d,
         Holds(p, q, u, c, x), Holds(p, q, u, d, y)
  PROVE  Holds(p, q, u, PairAdd(PairOf(p, q, g), c, d), x + y)
<1> DEFINE n == p * p * q  l == p - 1  e == mod_mul(c, d, n)
<1>1. /\ n \in Nat \ {0} /\ p \in Nat \ {0} /\ l \in Nat /\ PairOf(p, q, g).pk.n = n
      /\ \A a, b \in Int : Congruent(a, b, n) => Congruent(a, b, p * p)
  BY PairFacts
<1>2. PairAdd(PairOf(p, q, g), c, d) = e
  BY <1>1 DEF PairAdd, Add
<1>3. c \in Nat /\ Coprime(c, n) /\ d \in Nat /\ Coprime(d, n)
      /\ Carries(c, x * u, l, p) /\ Carries(d, y * u, l, p)
  BY DEF Holds
<1> HIDE DEF n, l
<1>4. e \in Nat /\ Coprime(e, n) /\ Congruent(e, c * d, n)
  BY <1>1, <1>3, UnitProduct
<1> HIDE DEF e
<1> DEFINE a == x * u  b == y * u
<1>5. a \in Int /\ b \in Int /\ (x + y) * u = a + b /\ c \in Int /\ d \in Int
      /\ e \in Int /\ c * d \in Int
  BY <1>3, <1>4
<1>6. Congruent(c * d, e, p * p)
  BY <1>1, <1>4, <1>5, CongruentEquivalence
<1> HIDE DEF a, b
<1>7. Carries(c * d, a + b, l, p)
  BY <1>1, <1>3, <1>5, CarriesProduct DEF a, b
<1>8. a + b \in Int /\ Congruent(a + b, a + b, p)
  BY <1>5, CongruentEquivalence
<1>9. Carries(e, a + b, l, p)
  BY <1>1, <1>5, <1>6, <1>7, <1>8, CarriesSame
<1> QED
  BY <1>2, <1>4, <1>5, <1>9 DEF Holds, n, l

LEMMA SubHolds ==
  ASSUME NEW p \in Nat, IsPrime(p), NEW q \in Nat, IsPrime(q), NEW g \in Nat, NEW u \in Int,
         NEW x \in Int, NEW y \in Int, NEW c, NEW d,
         Holds(p, q, u, c, x), Holds(p, q, u, d, y)
  PROVE  Holds(p, q, u, PairSub(PairOf(p, q, g), c, d), x - y)
<1> DEFINE n == p * p * q  l == p - 1  i == mod_inverse(d, n)  e == mod_mul(c, i, n)
<1>1. /\ n \in Nat \ {0} /\ p \in Nat \ {0} /\ l \in Nat /\ PairOf(p, q, g).pk.n = n
      /\ \A a, b \in Int : Congruent(a, b, n) => Congruent(a, b, p * p)
  BY PairFacts
<1>2. PairSub(PairOf(p, q, g), c, d) = e
  BY <1>1 DEF PairSub, Sub
<1>3. c \in Nat /\ Coprime(c, n) /\ d \in Nat /\ Coprime(d, n)
      /\ Carries(c, x * u, l, p) /\ Carries(d, y * u, l, p)
  BY DEF Holds
<1> HIDE DEF n, l
<1>4. i \in Nat /\ Coprime(i, n) /\ Congruent(d * i, 1, n)
  BY <1>1, <1>3, UnitQuotient
<1> HIDE DEF i
<1>5. e \in Nat /\ Coprime(e, n) /\ Congruent(e, c * i, n)
  BY <1>1, <1>3, <1>4, UnitProduct
<1> HIDE DEF e
<1> DEFINE a == x * u  b == y * u
<1>6. a \in Int /\ b \in Int /\ -b \in Int /\ (x - y) * u = a + (-b)
      /\ c \in Int /\ d \in Int /\ e \in Int /\ i \in Int /\ c * i \in Int /\ d * i \in Int
      /\ 1 \in Int
  BY <1>3, <1>4, <1>5
<1>7. Congruent(c * i, e, p * p) /\ Congruent(d * i, 1, p * p)
  BY <1>1, <1>4, <1>5, <1>6, CongruentEquivalence
<1> HIDE DEF a, b
<1>8. Carries(i, -b, l, p)
  BY <1>1, <1>3, <1>6, <1>7, CarriesInverse DEF b
<1>9. Carries(c * i, a + (-b), l, p)
  BY <1>1, <1>3, <1>6, <1>8, CarriesProduct DEF a
<1>10. a + (-b) \in Int /\ Congruent(a + (-b), a + (-b), p)
  BY <1>6, CongruentEquivalence
<1>11. Carries(e, a + (-b), l, p)
  BY <1>1, <1>6, <1>7, <1>9, <1>10, CarriesSame
<1> QED
  BY <1>2, <1>5, <1>6, <1>11 DEF Holds, n, l

LEMMA MulHolds ==
  ASSUME NEW p \in Nat, IsPrime(p), NEW q \in Nat, IsPrime(q), NEW g \in Nat, NEW u \in Int,
         NEW x \in Int, NEW k \in Nat, NEW c, Holds(p, q, u, c, x)
  PROVE  Holds(p, q, u, PairMul(PairOf(p, q, g), k, c), k * x)
<1> DEFINE n == p * p * q  l == p - 1  e == mod_exp(c, k, n)  E == Power(c, k)
<1>1. /\ n \in Nat \ {0} /\ p \in Nat \ {0} /\ l \in Nat /\ PairOf(p, q, g).pk.n = n
      /\ \A a, b \in Int : Congruent(a, b, n) => Congruent(a, b, p * p)
  BY PairFacts
<1>2. PairMul(PairOf(p, q, g), k, c) = e
  BY <1>1 DEF PairMul, Scalar_Mul
<1>3. c \in Nat /\ Coprime(c, n) /\ Carries(c, x * u, l, p)
  BY DEF Holds
<1> HIDE DEF n, l
<1>4. e \in Nat /\ Coprime(e, n) /\ Congruent(e, E, n)
  BY <1>1, <1>3, UnitExponent
<1> HIDE DEF e
<1> DEFINE a == x * u
<1>5. a \in Int /\ k * a \in Int /\ (k * x) * u = k * a /\ c \in Int /\ e \in Int
  BY <1>3, <1>4
<1>6. E \in Int
  BY <1>5, PowerDef
<1> HIDE DEF a
<1>7. Carries(E, k * a, l, p)
  BY <1>1, <1>3, <1>5, CarriesPower DEF a
<1> HIDE DEF E
<1>8. Congruent(E, e, p * p) /\ Congruent(k * a, k * a, p)
  BY <1>1, <1>4, <1>5, <1>6, CongruentEquivalence
<1>9. Carries(e, k * a, l, p)
  BY <1>1, <1>5, <1>6, <1>7, <1>8, CarriesSame
<1> QED
  BY <1>2, <1>4, <1>5, <1>9 DEF Holds, n, l

(* The user's reduction of the plaintext changes nothing.                  *)
LEMMA ReducedHolds ==
  ASSUME NEW p \in Nat, IsPrime(p), NEW q \in Nat, IsPrime(q), NEW u \in Int,
         NEW x \in Int, NEW c, Holds(p, q, u, c, x)
  PROVE  Holds(p, q, u, c, x % p) /\ x % p \in Nat
<1> DEFINE y == x % p
<1>1. p \in Nat \ {0} /\ p - 1 \in Nat
  BY DEF IsPrime
<1>2. y \in 0..(p - 1) /\ Congruent(y, x, p)
  BY <1>1, CongruentResidue
<1>3. y \in Nat /\ y \in Int
  BY <1>1, <1>2
<1> HIDE DEF y
<1>4. c \in Nat /\ Carries(c, x * u, p - 1, p) /\ c \in Int /\ x * u \in Int /\ y * u \in Int
  BY <1>3 DEF Holds
<1>5. Congruent(x * u, y * u, p)
  BY <1>1, <1>2, <1>3, CongruentEquivalence, CongruentScale
<1>6. Congruent(c, c, p * p)
  BY CongruentEquivalence
<1>7. Carries(c, y * u, p - 1, p)
  <2> DEFINE a == x * u  b == y * u  l == p - 1
  <2>1. a \in Int /\ b \in Int /\ l \in Nat /\ Carries(c, a, l, p) /\ Congruent(a, b, p)
    BY <1>1, <1>4, <1>5
  <2> HIDE DEF a, b, l
  <2>2. Carries(c, b, l, p)
    BY <1>1, <1>4, <1>6, <2>1, CarriesSame
  <2> QED
    BY <2>2 DEF b, l
<1> QED
  BY <1>3, <1>7 DEF Holds, y

LEMMA HoldsReads ==
  ASSUME NEW p \in Nat, IsPrime(p), NEW q \in Nat, IsPrime(q), NEW g \in Nat,
         NEW u \in Int, IsExponent(p, g, u), NEW x \in Int, NEW c, Holds(p, q, u, c, x)
  PROVE  PairReads(PairOf(p, q, g), c, x % p)
<1> DEFINE pk == PublicKey(p, q, g)  sk == [p |-> p, q |-> q]  mu == Mu(g, p)  w == x * u
<1>1. p \in Nat \ {0} /\ p > 1
  BY DEF IsPrime
<1>2. PairReads(PairOf(p, q, g), c, x % p) <=> Dec(pk, sk, c) = x % p
  BY DEF PairReads, PairOf
<1>3. c \in Nat /\ Carries(c, w, p - 1, p) /\ w \in Int /\ Congruent(u * mu, 1, p)
  BY DEF Holds, IsExponent
<1>4. mu \in Int
  BY <1>1, MuInt
<1>5. pk.g = g /\ sk.p = p
  BY KeyParts
<1> HIDE DEF pk, sk, w
<1>6. Dec(pk, sk, c) = (w * mu) % p
  BY <1>1, <1>3, <1>5, DecReads DEF mu
<1> HIDE DEF mu
<1>7. w * mu = x * (u * mu) /\ u * mu \in Int /\ x * 1 = x /\ 1 \in Int
  BY <1>4 DEF w
<1>8. Congruent(x * (u * mu), x * 1, p)
  BY <1>1, <1>3, <1>7, CongruentScale
<1> QED
  BY <1>2, <1>6, <1>7, <1>8 DEF Congruent

(***************************************************************************)
(* Class OU, for primes of any size and every invertible g that KeyGen     *)
(* accepts: whatever sequence of additions, subtractions and scalar        *)
(* multiplications led to a ciphertext, Dec returns the same arithmetic on *)
(* the plaintexts modulo p.                                                *)
(***************************************************************************)
THEOREM OperationsAgree == Calc!Spec => []Calc!Homomorphic
<1>0. ASSUME NEW k \in KeyChoices
      PROVE  /\ k[1] \in Nat /\ IsPrime(k[1]) /\ k[2] \in Nat /\ IsPrime(k[2])
             /\ k[3] \in Nat /\ Coprime(k[3], k[1] * k[1] * k[2]) /\ UsableG(k[3], k[1])
             /\ PairOf(k[1], k[2], k[3]).M = k[1]
  BY DEF KeyChoices, PairOf
<1>1. Calc!Init => CalcInv
  <2> SUFFICES ASSUME Calc!Init PROVE CalcInv
    OBVIOUS
  <2>1. pair \in Pairs /\ plain \in Nat /\ held \in AnyFresh(pair, plain)
    BY DEF Calc!Init
  <2>2. PICK k \in KeyChoices : pair = PairOf(k[1], k[2], k[3])
    BY <2>1 DEF Pairs
  <2> DEFINE p == k[1]  q == k[2]  g == k[3]
  <2>3. /\ p \in Nat /\ IsPrime(p) /\ q \in Nat /\ IsPrime(q) /\ g \in Nat
        /\ Coprime(g, p * p * q) /\ UsableG(g, p) /\ pair = PairOf(p, q, g)
    BY <1>0, <2>2
  <2> HIDE DEF p, q, g
  <2>4. Coprime(g, p)
    <3>1. p \in Nat \ {0} /\ q \in Nat \ {0} /\ p * p \in Nat \ {0}
      BY <2>3 DEF IsPrime
    <3>2. Coprime(g, p * p)
      <4> DEFINE N == p * p
      <4>1. N \in Nat \ {0} /\ Coprime(g, N * q)
        BY <2>3, <3>1
      <4> HIDE DEF N
      <4>2. Coprime(g, N)
        BY <2>3, <3>1, <4>1, CoprimeProduct
      <4> QED
        BY <4>2 DEF N
    <3> QED
      BY <2>3, <3>1, <3>2, CoprimeProduct
  <2>5. PICK u \in Int : IsExponent(p, g, u)
    BY <2>3, <2>4, UsableExponent DEF IsExponent
  <2>6. Holds(p, q, u, held, plain)
    BY <2>1, <2>3, <2>5, FreshHolds
  <2> QED
    BY <2>1, <2>2, <2>5, <2>6 DEF CalcInv, p, q, g
<1>2. CalcInv /\ [Calc!Next]_(Calc!vars) => CalcInv'
  <2> SUFFICES ASSUME CalcInv, [Calc!Next]_(Calc!vars) PROVE CalcInv'
    OBVIOUS
  <2>1. PICK k \in KeyChoices, u \in Int :
          /\ pair = PairOf(k[1], k[2], k[3]) /\ IsExponent(k[1], k[3], u)
          /\ Holds(k[1], k[2], u, held, plain)
    BY DEF CalcInv
  <2> DEFINE p == k[1]  q == k[2]  g == k[3]
  <2>2. /\ p \in Nat /\ IsPrime(p) /\ q \in Nat /\ IsPrime(q) /\ g \in Nat
        /\ Coprime(g, p * p * q) /\ IsExponent(p, g, u)
        /\ pair.M = p /\ pair = PairOf(p, q, g) /\ Holds(p, q, u, held, plain)
    BY <1>0, <2>1
  <2>3. plain \in Nat /\ plain \in Int
    BY DEF CalcInv
  <2>4. ASSUME NEW x \in Int, pair' = pair, plain' = x % p, Holds(p, q, u, held', x)
        PROVE  CalcInv'
    <3> HIDE DEF p, q, g
    <3>1. Holds(p, q, u, held', plain') /\ plain' \in Nat
      BY <2>2, <2>4, ReducedHolds
    <3> QED
      BY <2>1, <2>2, <2>4, <3>1 DEF CalcInv, p, q, g
  <2>5. ASSUME NEW y \in Nat, Calc!Add(y) PROVE CalcInv'
    <3> HIDE DEF p, q, g
    <3>1. PICK d \in AnyFresh(pair, y) : held' = PairAdd(pair, held, d)
      BY <2>5 DEF Calc!Add
    <3>2. Holds(p, q, u, d, y) /\ y \in Int
      BY <2>2, <3>1, FreshHolds
    <3>3. Holds(p, q, u, held', plain + y) /\ plain + y \in Int
      BY <2>2, <2>3, <3>1, <3>2, AddHolds
    <3>4. pair' = pair /\ plain' = (plain + y) % p
      BY <2>2, <2>5 DEF Calc!Add
    <3> QED
      BY <2>4, <3>3, <3>4
  <2>6. ASSUME NEW y \in Nat, Calc!Sub(y) PROVE CalcInv'
    <3> HIDE DEF p, q, g
    <3>1. PICK d \in AnyFresh(pair, y) : held' = PairSub(pair, held, d)
      BY <2>6 DEF Calc!Sub
    <3>2. Holds(p, q, u, d, y) /\ y \in Int
      BY <2>2, <3>1, FreshHolds
    <3>3. Holds(p, q, u, held', plain - y) /\ plain - y \in Int
      BY <2>2, <2>3, <3>1, <3>2, SubHolds
    <3>4. pair' = pair /\ plain' = (plain - y) % p
      BY <2>2, <2>6 DEF Calc!Sub
    <3> QED
      BY <2>4, <3>3, <3>4
  <2>7. CASE Calc!Double
    <3> HIDE DEF p, q, g
    <3>1. held' = PairAdd(pair, held, held) /\ pair' = pair
          /\ plain' = (2 * plain) % p
      BY <2>2, <2>7 DEF Calc!Double
    <3>2. plain + plain = 2 * plain /\ 2 * plain \in Int
      BY <2>3
    <3>3. Holds(p, q, u, held', 2 * plain)
      BY <2>2, <2>3, <3>1, <3>2, AddHolds
    <3> QED
      BY <2>4, <3>1, <3>2, <3>3
  <2>8. CASE Calc!Cancel
    <3> HIDE DEF p, q, g
    <3>1. held' = PairSub(pair, held, held) /\ pair' = pair /\ plain' = 0
      BY <2>8 DEF Calc!Cancel
    <3>2. plain - plain = 0 /\ 0 \in Int
      BY <2>3
    <3>3. Holds(p, q, u, held', 0)
      BY <2>2, <2>3, <3>1, <3>2, SubHolds
    <3> QED
      BY <2>1, <3>1, <3>3 DEF CalcInv, p, q, g
  <2>9. ASSUME NEW j \in AnyScalar(pair), Calc!Scalar_Mul(j) PROVE CalcInv'
    <3> HIDE DEF p, q, g
    <3>1. held' = PairMul(pair, j, held) /\ pair' = pair /\ plain' = (j * plain) % p
          /\ j \in Nat
      BY <2>2, <2>9 DEF Calc!Scalar_Mul, AnyScalar
    <3>2. j * plain \in Int
      BY <2>3, <3>1
    <3>3. Holds(p, q, u, held', j * plain)
      BY <2>2, <2>3, <3>1, MulHolds
    <3> QED
      BY <2>4, <3>1, <3>2, <3>3
  <2>10. CASE UNCHANGED Calc!vars
    BY <2>10 DEF Calc!vars, CalcInv
  <2> QED
    BY <2>5, <2>6, <2>7, <2>8, <2>9, <2>10 DEF Calc!Next
<1>3. CalcInv => Calc!Homomorphic
  <2> SUFFICES ASSUME CalcInv PROVE Calc!Homomorphic
    OBVIOUS
  <2>1. PICK k \in KeyChoices, u \in Int :
          /\ pair = PairOf(k[1], k[2], k[3]) /\ IsExponent(k[1], k[3], u)
          /\ Holds(k[1], k[2], u, held, plain)
    BY DEF CalcInv
  <2>2. plain \in Int
    BY DEF CalcInv
  <2>3. PairReads(pair, held, plain % pair.M)
    BY <1>0, <2>1, <2>2, HoldsReads
  <2> QED
    BY <2>3 DEF Calc!Homomorphic
<1> QED
  BY <1>1, <1>2, <1>3, PTL DEF Calc!Spec
=============================================================================
