------------------------- MODULE PaillierTest_proofs -------------------------
(***************************************************************************)
(* The Paillier tester, for primes of any size, numbers and words of any   *)
(* size and any random numbers: when it accepts equal numbers, when it     *)
(* accepts whatever it is given, and the two specifications it implements, *)
(* the plaintext-level test and the equality oracle.                       *)
(*                                                                         *)
(* The argument: raised to lambda a ciphertext becomes 1 + u*n modulo n^2, *)
(* u being lambda times the plaintext.  Enc makes such an exponent, Sub    *)
(* subtracts two of them, Scalar_Mul multiplies one, and Dec reads it off. *)
(***************************************************************************)
EXTENDS PaillierTest, ModLemmas

(* The random number of a ciphertext vanishes in decryption: n * lambda is *)
(* an exponent of the group of units modulo n^2.                           *)
LEMMA RandomVanishes ==
  ASSUME NEW p \in Nat, IsPrime(p), NEW q \in Nat, IsPrime(q), p # q,
         NEW r \in Nat, Coprime(r, p * q)
  PROVE  Congruent(Power(r, (p * q) * ((p - 1) * (q - 1))), 1, (p * q) * (p * q))
<1>1. p \in Nat \ {0} /\ q \in Nat \ {0} /\ p - 1 \in Nat /\ q - 1 \in Nat /\ r \in Int
  BY DEF IsPrime
<1>2. Coprime(r, p) /\ Coprime(r, q)
  BY <1>1, CoprimeProduct
<1> DEFINE e == (p * q) * ((p - 1) * (q - 1))
           d1 == (p - 1) * p  d2 == (q - 1) * q
<1>3. d1 \in Nat /\ d2 \in Nat /\ e = d1 * d2 /\ e = d2 * d1
  <2>1. d1 \in Nat /\ d2 \in Nat
    BY <1>1
  <2> DEFINE u == p - 1  v == q - 1
  <2>2. u \in Int /\ v \in Int
    OBVIOUS
  <2> HIDE DEF u, v
  <2>3. (p * q) * (u * v) = (u * p) * (v * q) /\ (u * p) * (v * q) = (v * q) * (u * p)
    BY <2>2
  <2> QED
    BY <2>1, <2>3 DEF u, v
<1>4. Congruent(Power(r, d1), 1, p * p) /\ Congruent(Power(r, d2), 1, q * q)
  BY <1>2, FermatSquare
<1>5. p * p \in Nat \ {0} /\ q * q \in Nat \ {0}
  BY <1>1
<1>6. (p * p) * (q * q) = (p * q) * (p * q)
  OBVIOUS
<1>7. Coprime(p * p, q * q)
  BY PrimeSquares
<1> DEFINE P == p * p  Q == q * q
<1> HIDE DEF e, d1, d2, P, Q
<1>8. ASSUME NEW d \in Nat, NEW k \in Nat, NEW N \in Nat \ {0},
             Congruent(Power(r, d), 1, N)
      PROVE  Congruent(Power(r, d * k), 1, N)
  <2>1. Power(Power(r, d), k) = Power(r, d * k)
    BY <1>1, PowerPower
  <2>2. Power(r, d) \in Int
    BY <1>1, PowerDef
  <2>3. 1 \in Int
    OBVIOUS
  <2>4. Congruent(Power(Power(r, d), k), Power(1, k), N)
    BY <1>8, <2>2, <2>3, CongruentPower
  <2> QED
    BY <2>1, <2>4, PowerOfOne
<1>9. Congruent(Power(r, e), 1, P)
  BY <1>3, <1>4, <1>5, <1>8 DEF P
<1>10. Congruent(Power(r, e), 1, Q)
  BY <1>3, <1>4, <1>5, <1>8 DEF Q
<1>11. Power(r, e) \in Int /\ 1 \in Int
  <2>1. e \in Nat
    BY <1>3
  <2> QED
    BY <1>1, <2>1, PowerDef
<1>12. Congruent(Power(r, e), 1, P * Q)
  BY <1>5, <1>7, <1>9, <1>10, <1>11, CongruentCombine DEF P, Q
<1> QED
  BY <1>6, <1>12 DEF P, Q, e

(* Primes of the same length from three bits on leave the exponent lambda  *)
(* invertible modulo n.                                                    *)
LEMMA LambdaInvertible ==
  ASSUME NEW len \in Nat, len >= 3,
         NEW p \in PrimesOfBits(len), NEW q \in PrimesOfBits(len), p # q
  PROVE  Coprime((p - 1) * (q - 1), p * q)
<1>1. len - 1 \in Nat /\ len - 2 \in Nat /\ len - 3 \in Nat
  OBVIOUS
<1> DEFINE T == two_to[len - 1]
<1>2. /\ T \in Nat /\ T >= 4 /\ two_to[len] = 2 * T
  <2>1. two_to[len - 3] \in Nat \ {0} /\ two_to[(len - 3) + 1] = 2 * two_to[len - 3]
    BY <1>1, TwoTo
  <2>2. two_to[(len - 2) + 1] = 2 * two_to[len - 2]
    BY <1>1, TwoTo
  <2>3. two_to[(len - 1) + 1] = 2 * two_to[len - 1]
    BY <1>1, TwoTo
  <2>4. (len - 3) + 1 = len - 2 /\ (len - 2) + 1 = len - 1 /\ (len - 1) + 1 = len
    OBVIOUS
  <2> QED
    BY <2>1, <2>2, <2>3, <2>4
<1>3. p \in T..(2 * T - 1) /\ q \in T..(2 * T - 1) /\ IsPrime(p) /\ IsPrime(q)
  BY <1>2 DEF PrimesOfBits
<1> HIDE DEF T
<1>4. p \in Nat \ {0} /\ q \in Nat \ {0} /\ p >= 4 /\ q >= 4
  BY <1>2, <1>3
<1>5. ASSUME NEW x \in T..(2 * T - 1), IsPrime(x) PROVE x % 2 # 0
  <2>1. x >= 4 /\ x \in Nat
    BY <1>2
  <2>2. 2 \in 2..(x - 1)
    BY <2>1
  <2> QED
    BY <1>5, <2>2 DEF IsPrime
<1>6. ASSUME NEW x \in T..(2 * T - 1), IsPrime(x), NEW y \in T..(2 * T - 1), IsPrime(y)
      PROVE  Coprime(x - 1, y)
  <2>1. x \in Nat /\ y \in Nat /\ x >= 4 /\ x - 1 \in Nat /\ x - 1 < 2 * y
    BY <1>2
  <2>2. x % 2 # 0 /\ y % 2 # 0
    BY <1>5, <1>6
  <2>3. x - 1 # y
    BY <2>1, <2>2
  <2>4. (x - 1) % y # 0
    <3>1. CASE x - 1 < y
      BY <2>1, <3>1
    <3>2. CASE x - 1 > y
      <4>1. x - 1 = y * 1 + (x - 1 - y) /\ x - 1 - y \in 0..(y - 1) /\ x - 1 - y # 0
        BY <2>1, <3>2
      <4>2. y \in Nat \ {0} /\ x - 1 \in Int /\ 1 \in Int
        BY <2>1, <3>2, <4>1
      <4> DEFINE w == x - 1 - y
      <4> HIDE DEF w
      <4>3. (x - 1) % y = w
        BY <4>1, <4>2, QuotientUnique DEF w
      <4> QED
        BY <4>1, <4>3 DEF w
    <3> QED
      BY <2>1, <2>3, <3>1, <3>2
  <2> QED
    BY <1>6, <2>1, <2>4, PrimeCoprime
<1>7. Coprime(p - 1, p) /\ Coprime(p - 1, q) /\ Coprime(q - 1, p) /\ Coprime(q - 1, q)
  BY <1>3, <1>6
<1>8. p - 1 \in Nat /\ q - 1 \in Nat /\ p * q \in Nat \ {0}
  BY <1>4
<1>9. Coprime(p - 1, p * q) /\ Coprime(q - 1, p * q)
  BY <1>4, <1>7, <1>8, CoprimeProduct
<1> QED
  BY <1>8, <1>9, CoprimeMul

----------------------------------------------------------------------------

(* A ciphertext carries the exponent u when its power lambda is 1 + u * n  *)
(* modulo n^2; the operations on ciphertexts act on exponents.             *)
Carries(c, u, l, n) == Congruent(Power(c, l), 1 + n * u, n * n)

(* What Enc returns: the plaintext carried lambda times, the random number *)
(* gone; a ciphertext that is a unit had a unit as random number.          *)
LEMMA EncCongruent ==
  ASSUME NEW n \in Nat \ {0}, NEW g \in Nat, NEW m \in Nat, NEW r \in Nat
  PROVE  /\ Enc([n |-> n, g |-> g], m, r) \in Nat
         /\ Congruent(Enc([n |-> n, g |-> g], m, r), Power(g, m) * Power(r, n), n * n)
<1> DEFINE pk == [n |-> n, g |-> g]  N == n * n
           G == Power(g, m)  R == Power(r, n)
           a == mod_exp(g, m, N)  b == mod_exp(r, n, N)  v == a * b
<1>1. pk.n = n /\ pk.g = g /\ n_2(pk) = N
  BY DEF n_2
<1>2. N \in Nat \ {0} /\ g \in Int /\ r \in Int
  OBVIOUS
<1>3. Enc(pk, m, r) = mod_mul(a, b, N)
  BY <1>1 DEF Enc
<1> HIDE DEF N, pk
<1>4. G \in Int /\ R \in Int
  BY <1>2, PowerDef
<1>5. a = G % N /\ b = R % N
  BY <1>2, ModExp
<1> HIDE DEF G, R, a, b
<1>6. a \in 0..(N - 1) /\ Congruent(a, G, N) /\ b \in 0..(N - 1) /\ Congruent(b, R, N)
  BY <1>2, <1>4, <1>5, CongruentResidue
<1>7. a \in Int /\ b \in Int /\ v \in Int /\ G * R \in Int
  BY <1>4, <1>6
<1>8. Congruent(v, G * R, N)
  BY <1>2, <1>4, <1>6, <1>7, CongruentMul
<1>9. Enc(pk, m, r) = v % N
  BY <1>2, <1>3, <1>7, ModMulIsProduct
<1> HIDE DEF v
<1>10. v % N \in 0..(N - 1) /\ Congruent(v % N, v, N)
  BY <1>2, <1>7, CongruentResidue
<1>11. Congruent(v % N, G * R, N)
  BY <1>8, <1>10, CongruentEquivalence
<1> QED
  BY <1>9, <1>10, <1>11 DEF pk, N, G, R

LEMMA EncUnit ==
  ASSUME NEW n \in Nat \ {0}, NEW g \in Nat, NEW m \in Nat, NEW r \in Nat,
         Coprime(Enc([n |-> n, g |-> g], m, r), n)
  PROVE  Coprime(r, n)
<1> DEFINE c == Enc([n |-> n, g |-> g], m, r)  G == Power(g, m)  R == Power(r, n)
           k == n - 1  Q == Power(r, k)  N == n * n
<1>1. c \in Nat /\ Congruent(c, G * R, N)
  BY EncCongruent
<1>2. n \in Nat \ {0} /\ N \in Nat \ {0} /\ k \in Nat /\ n = k + 1 /\ g \in Int /\ r \in Int
  OBVIOUS
<1>3. G \in Int /\ R \in Int /\ Q \in Int
  BY <1>2, PowerDef
<1>4. R = r * Q
  BY <1>2, PowerDef
<1>5. Coprime(c, n)
  OBVIOUS
<1> HIDE DEF c, G, R, k, Q
<1>6. PICK y \in Int : Congruent(c * y, 1, n)
  BY <1>1, <1>5, UnitInverse
<1>7. G * R \in Int /\ c \in Int
  BY <1>1, <1>3
<1>8. Congruent(c, G * R, n)
  BY <1>1, <1>2, <1>7, CongruentFactor
<1>9. Congruent(c * y, (G * R) * y, n)
  BY <1>2, <1>7, <1>8, CongruentScale
<1>10. (G * R) * y = r * (Q * (G * y)) /\ Q * (G * y) \in Int
  BY <1>2, <1>3, <1>4
<1>11. Congruent(r * (Q * (G * y)), 1, n)
  BY <1>6, <1>9, <1>10, CongruentEquivalence
<1> QED
  BY <1>10, <1>11, UnitInverse

LEMMA EncCarries ==
  ASSUME NEW n \in Nat \ {0}, NEW l \in Nat, NEW m \in Nat, NEW r \in Nat,
         Congruent(Power(r, n * l), 1, n * n)
  PROVE  Carries(Enc([n |-> n, g |-> n + 1], m, r), m * l, l, n)
<1> DEFINE g == n + 1  c == Enc([n |-> n, g |-> g], m, r)  N == n * n
           G == Power(g, m)  R == Power(r, n)
           F == Power(g, m * l)  U == Power(r, n * l)  f == 1 + n * (m * l)
<1>1. n \in Nat \ {0} /\ N \in Nat \ {0} /\ g \in Nat /\ g \in Int /\ r \in Int
      /\ m * l \in Nat /\ n * l \in Nat /\ f \in Int /\ 1 \in Int
  OBVIOUS
<1>2. c \in Nat /\ Congruent(c, G * R, N)
  <2> HIDE DEF g
  <2> QED
    BY <1>1, EncCongruent
<1>3. Congruent(F, f, N)
  <2>1. Congruent(Power(1 + n * 1, m * l), 1 + n * ((m * l) * 1), n * n)
    <3>1. 1 \in Int
      OBVIOUS
    <3> DEFINE k == m * l
    <3>2. k \in Nat
      OBVIOUS
    <3> HIDE DEF k
    <3>3. Congruent(Power(1 + n * 1, k), 1 + n * (k * 1), n * n)
      BY <3>1, <3>2, BinomialPower
    <3> QED
      BY <3>3 DEF k
  <2>2. 1 + n * 1 = g /\ (m * l) * 1 = m * l
    OBVIOUS
  <2> QED
    BY <2>1, <2>2
<1>4. Congruent(U, 1, N)
  OBVIOUS
<1>5. G \in Int /\ R \in Int /\ F \in Int /\ U \in Int
  BY <1>1, PowerDef
<1>6. Power(G, l) = F /\ Power(R, l) = U
  <2> HIDE DEF g
  <2>1. Power(Power(g, m), l) = Power(g, m * l)
    BY <1>1, PowerPower
  <2>2. Power(Power(r, n), l) = Power(r, n * l)
    BY <1>1, PowerPower
  <2> QED
    BY <2>1, <2>2
<1> HIDE DEF N, c, G, R, F, U, f, g
<1>7. Power(G * R, l) = F * U
  <2>1. Power(G * R, l) = Power(G, l) * Power(R, l)
    BY <1>5, PowerMul
  <2> QED
    BY <1>6, <2>1
<1>8. c \in Int /\ G * R \in Int /\ F * U \in Int
  BY <1>2, <1>5
<1>9. Congruent(Power(c, l), F * U, N)
  <2>1. Congruent(Power(c, l), Power(G * R, l), N)
    BY <1>1, <1>2, <1>8, CongruentPower
  <2> QED
    BY <1>7, <2>1
<1>10. Congruent(F * U, f * 1, N)
  BY <1>1, <1>3, <1>4, <1>5, CongruentMul
<1>11. f * 1 = f
  BY <1>1
<1>12. Congruent(Power(c, l), f, N)
  BY <1>9, <1>10, <1>11, CongruentEquivalence
<1> QED
  BY <1>12 DEF Carries, c, f, N, g

(* Sub of two units: the exponents are subtracted.                         *)
LEMMA SubCarries ==
  ASSUME NEW n \in Nat \ {0}, NEW l \in Nat, NEW pk, pk.n = n,
         NEW c \in Nat, NEW u \in Int, Carries(c, u, l, n),
         NEW d \in Nat, NEW v \in Int, Carries(d, v, l, n), Coprime(d, n)
  PROVE  /\ Sub(pk, c, d) \in Nat
         /\ Carries(Sub(pk, c, d), u - v, l, n)
<1> DEFINE N == n * n  i == mod_inverse(d, N)  w == c * i  e == w % N
           C == Power(c, l)  D == Power(d, l)  I == Power(i, l)
           fu == 1 + n * u  fv == 1 + n * v  gv == 1 - n * v
           h == 1 + n * (u - v)
<1>1. N \in Nat \ {0} /\ n \in Nat \ {0} /\ c \in Int /\ d \in Int /\ 1 \in Int
      /\ fu \in Int /\ fv \in Int /\ gv \in Int /\ h \in Int
  OBVIOUS
<1>2. Coprime(d, N)
  BY CoprimeProduct
<1>3. Sub(pk, c, d) = mod_mul(c, i, N)
  BY DEF Sub, n_2
<1>4. Congruent(C, fu, N) /\ Congruent(D, fv, N)
  BY DEF Carries
<1>5. fv * gv = 1 + N * (-(v * v)) /\ fu * gv = h + N * (-(u * v))
      /\ -(v * v) \in Int /\ -(u * v) \in Int
  <2>1. fv * gv = 1 + N * (-(v * v))
    OBVIOUS
  <2>2. fu * gv = h + N * (-(u * v))
    OBVIOUS
  <2> QED
    BY <2>1, <2>2
<1> HIDE DEF N, i, fu, fv, gv, h
<1>6. i \in 0..(N - 1) /\ Congruent(d * i, 1, N)
  BY <1>1, <1>2, ModInverse DEF i
<1>7. i \in Int /\ w \in Int /\ d * i \in Int
  BY <1>1, <1>6
<1>8. C \in Int /\ D \in Int /\ I \in Int
  BY <1>1, <1>7, PowerDef
<1>9. Power(c * i, l) = C * I /\ Power(d * i, l) = D * I
  <2>1. Power(c * i, l) = Power(c, l) * Power(i, l)
    BY <1>1, <1>7, PowerMul
  <2>2. Power(d * i, l) = Power(d, l) * Power(i, l)
    BY <1>1, <1>7, PowerMul
  <2> QED
    BY <2>1, <2>2
<1>10. Congruent(D * I, 1, N)
  <2>1. Congruent(Power(d * i, l), Power(1, l), N)
    BY <1>1, <1>6, <1>7, CongruentPower
  <2> QED
    BY <1>9, <2>1, PowerOfOne
<1>11. Sub(pk, c, d) = e
  BY <1>1, <1>3, <1>7, ModMulIsProduct
<1>12. e \in 0..(N - 1) /\ Congruent(e, w, N)
  <2> HIDE DEF w
  <2> QED
    BY <1>1, <1>7, CongruentResidue
<1> HIDE DEF w, e, C, D, I
<1>13. e \in Nat /\ e \in Int
  BY <1>1, <1>12
<1>14. Congruent(Power(e, l), C * I, N)
  <2>1. Congruent(Power(e, l), Power(w, l), N)
    BY <1>1, <1>7, <1>12, <1>13, CongruentPower
  <2> QED
    BY <1>9, <2>1 DEF w
(* The inverse carries -v: I is congruent to gv. *)
<1>15. Congruent(fv * gv, 1, N) /\ Congruent(fu * gv, h, N)
  <2>1. fv * gv \in Int /\ fu * gv \in Int
    BY <1>1
  <2> QED
    BY <1>1, <1>5, <2>1, CongruentMultiple
<1>16. Congruent(I, gv, N)
  <2>1. Congruent(fv * I, D * I, N)
    <3>1. Congruent(D * I, fv * I, N)
      BY <1>1, <1>4, <1>8, CongruentScale
    <3> QED
      BY <3>1, CongruentEquivalence
  <2>2. Congruent(fv * I, 1, N)
    BY <1>10, <2>1, CongruentEquivalence
  <2>3. fv * I \in Int /\ fv * gv \in Int
    BY <1>1, <1>8
  <2>4. Congruent((fv * I) * gv, 1 * gv, N)
    BY <1>1, <2>2, <2>3, CongruentScale
  <2>5. Congruent((fv * gv) * I, 1 * I, N)
    BY <1>1, <1>8, <1>15, <2>3, CongruentScale
  <2>6. (fv * I) * gv = (fv * gv) * I /\ 1 * gv = gv /\ 1 * I = I
    BY <1>1, <1>8
  <2> QED
    BY <2>4, <2>5, <2>6, CongruentEquivalence
<1>17. Congruent(C * I, fu * gv, N)
  BY <1>1, <1>4, <1>8, <1>16, CongruentMul
<1>18. Congruent(Power(e, l), h, N)
  BY <1>14, <1>15, <1>17, CongruentEquivalence
<1> QED
  BY <1>11, <1>13, <1>18 DEF Carries, h, N

(* Scalar_Mul multiplies the exponent.                                     *)
LEMMA ScalarCarries ==
  ASSUME NEW n \in Nat \ {0}, NEW l \in Nat, NEW pk, pk.n = n,
         NEW c \in Nat, NEW u \in Int, Carries(c, u, l, n), NEW k \in Nat
  PROVE  /\ Scalar_Mul(pk, k, c) \in Nat
         /\ Carries(Scalar_Mul(pk, k, c), k * u, l, n)
<1> DEFINE N == n * n  S == Power(c, k)  e == S % N
           C == Power(c, l)  f == 1 + n * u  h == 1 + n * (k * u)
<1>1. N \in Nat \ {0} /\ c \in Int /\ f \in Int /\ k * l = l * k
  OBVIOUS
<1>2. Scalar_Mul(pk, k, c) = mod_exp(c, k, N)
  BY DEF Scalar_Mul, n_2
<1>3. Congruent(C, f, N)
  BY DEF Carries
<1>4. Congruent(Power(f, k), h, N)
  BY BinomialPower
<1> HIDE DEF N, f, h
<1>5. S \in Int /\ C \in Int
  BY <1>1, PowerDef
<1>6. Scalar_Mul(pk, k, c) = e
  BY <1>1, <1>2, ModExp
<1>7. Power(S, l) = Power(C, k)
  <2>1. Power(Power(c, k), l) = Power(c, k * l)
    BY <1>1, PowerPower
  <2>2. Power(Power(c, l), k) = Power(c, l * k)
    BY <1>1, PowerPower
  <2> QED
    BY <1>1, <2>1, <2>2
<1>8. e \in 0..(N - 1) /\ Congruent(e, S, N)
  <2> HIDE DEF S
  <2> QED
    BY <1>1, <1>5, CongruentResidue
<1> HIDE DEF S, C, e
<1>9. e \in Nat /\ e \in Int
  BY <1>1, <1>8
<1>10. Congruent(Power(e, l), Power(S, l), N)
  BY <1>1, <1>5, <1>8, <1>9, CongruentPower
<1>11. Congruent(Power(C, k), Power(f, k), N)
  BY <1>1, <1>3, <1>5, CongruentPower
<1>12. Congruent(Power(e, l), h, N)
  BY <1>4, <1>7, <1>10, <1>11, CongruentEquivalence
<1> QED
  BY <1>6, <1>9, <1>12 DEF Carries, h, N

(* The function L of the scheme reads the exponent modulo n off.           *)
LEMMA LReads ==
  ASSUME NEW n \in Nat \ {0}, n > 1, NEW x \in Int, NEW u \in Int,
         Congruent(x, 1 + n * u, n * n)
  PROVE  L(x % (n * n), n) = u % n
<1> DEFINE N == n * n  w == u % n  b == u \div n  y == 1 + n * w
<1>1. w \in 0..(n - 1) /\ b \in Int /\ u = n * b + w
  BY DivMod
<1> HIDE DEF w, b
<1>2. N \in Nat \ {0} /\ w \in Int
  BY <1>1
<1>3. 1 + n * u = N * b + y
  BY <1>1
<1>4. y \in 0..(N - 1)
  <2>1. n * w <= n * (n - 1) /\ n * w >= 0
    BY <1>1
  <2>2. n * (n - 1) = N - n
    OBVIOUS
  <2> QED
    BY <1>2, <2>1, <2>2
<1>5. x % N = y
  <2>1. x % N = (1 + n * u) % N
    BY DEF Congruent
  <2>2. 1 + n * u \in Int
    OBVIOUS
  <2> DEFINE z == 1 + n * u
  <2> HIDE DEF N, y, z
  <2>3. z % N = y
    BY <1>1, <1>2, <1>3, <1>4, <2>2, QuotientUnique DEF z
  <2> QED
    BY <2>1, <2>3 DEF z
<1>6. y - 1 = n * w + 0 /\ y - 1 \in Int /\ y - 1 >= 0
  BY <1>1
<1>7. (y - 1) \div n = w
  <2>1. 0 \in 0..(n - 1) /\ n * w + 0 \in Int
    BY <1>2
  <2> DEFINE z == y - 1  o == 0
  <2>2. z = n * w + o /\ z \in Int /\ o \in 0..(n - 1)
    BY <1>6, <2>1
  <2> HIDE DEF z, o
  <2>3. z \div n = w
    BY <1>2, <2>2, QuotientUnique
  <2> QED
    BY <2>3 DEF z
<1> HIDE DEF y
<1>8. L(y, n) = w
  BY <1>6, <1>7 DEF L, div
<1> QED
  BY <1>5, <1>8 DEF w, N

(* Dec multiplies the exponent by mu, modulo n.                            *)
LEMMA DecReads ==
  ASSUME NEW n \in Nat \ {0}, n > 1, NEW l \in Nat, NEW mu \in Nat,
         NEW pk, pk.n = n, NEW sk, sk.lambda = l, sk.mu = mu,
         NEW c \in Nat, NEW u \in Int, Carries(c, u, l, n)
  PROVE  Dec(pk, sk, c) = (u * mu) % n
<1> DEFINE N == n * n  C == Power(c, l)  w == u % n
<1>1. N \in Nat \ {0} /\ c \in Int /\ mu \in Int
  OBVIOUS
<1>2. C \in Int
  BY <1>1, PowerDef
<1>3. mod_exp(c, l, N) = C % N
  BY <1>1, ModExp
<1>4. L(C % N, n) = w
  <2>1. Congruent(C, 1 + n * u, n * n)
    BY DEF Carries
  <2> HIDE DEF C
  <2> QED
    BY <1>2, <2>1, LReads
<1>5. Dec(pk, sk, c) = mod_mul(w, mu, n)
  <2> HIDE DEF C, w
  <2> QED
    BY <1>3, <1>4 DEF Dec, n_2
<1>6. w \in 0..(n - 1) /\ Congruent(w, u, n)
  BY CongruentResidue
<1> HIDE DEF w
<1>7. w \in Int
  BY <1>6
<1>8. mod_mul(w, mu, n) = (w * mu) % n
  BY <1>1, <1>7, ModMulIsProduct
<1>9. Congruent(w * mu, u * mu, n)
  BY <1>1, <1>6, <1>7, CongruentScale
<1> QED
  BY <1>5, <1>8, <1>9 DEF Congruent

(* The zero ciphertext decrypts to zero: L(0) is -1 divided by n, which    *)
(* BN_div rounds toward zero.                                              *)
LEMMA DecZero ==
  ASSUME NEW n \in Nat \ {0}, n > 1, NEW l \in Nat \ {0}, NEW mu \in Nat,
         NEW pk, pk.n = n, NEW sk, sk.lambda = l, sk.mu = mu
  PROVE  Dec(pk, sk, 0) = 0
<1> DEFINE N == n * n
<1>1. N \in Nat \ {0} /\ 0 \in Int /\ mu \in Int /\ l \in Nat
  OBVIOUS
<1>2. 0 % N = 0
  <2>1. 0 \in 0..(N - 1)
    BY <1>1
  <2> HIDE DEF N
  <2> QED
    BY <1>1, <2>1
<1>3. mod_exp(0, l, N) = 0
  <2> HIDE DEF N
  <2>1. mod_exp(0, l, N) = Power(0, l) % N
    BY <1>1, ModExp
  <2> QED
    BY <1>2, <2>1, PowerOfZero
<1>4. L(0, n) = 0
  <2>1. ASSUME NEW x \in Int PROVE -(x - 1) = 1 - x
    OBVIOUS
  <2>2. ASSUME NEW x \in Int PROVE x = 0 => L(x, n) = 0
    <3> DEFINE z == -(x - 1)  y == z \div n
    <3>1. z \in Int /\ y \in Int /\ (x = 0 => z = 1)
      BY <2>1
    <3>2. x = 0 => L(x, n) = -y
      <4>1. x = 0 => x - 1 < 0
        OBVIOUS
      <4> QED
        BY <4>1 DEF L, div
    <3> HIDE DEF y, z
    <3>3. x = 0 => y = 0
      <4>1. ASSUME NEW t \in Int PROVE t = 1 => t \div n = 0
        OBVIOUS
      <4> QED
        BY <3>1, <4>1 DEF y
    <3>4. -y = 0 - y
      BY <3>1
    <3> QED
      BY <3>1, <3>2, <3>3, <3>4
  <2> QED
    BY <1>1, <2>2
<1>5. Dec(pk, sk, 0) = mod_mul(0, mu, n)
  BY <1>3, <1>4 DEF Dec, n_2
<1>6. mod_mul(0, mu, n) = (0 * mu) % n
  BY <1>1, ModMulIsProduct
<1>7. 0 * mu = 0 /\ 0 % n = 0
  OBVIOUS
<1> QED
  BY <1>5, <1>6, <1>7

(* What KeyGen makes of two primes.                                        *)
LEMMA KeyParts ==
  ASSUME NEW p \in Nat, IsPrime(p), NEW q \in Nat, IsPrime(q)
  PROVE  LET n == p * q
             l == (p - 1) * (q - 1)
             sk == SecretKey(p, q)
         IN  /\ n \in Nat \ {0} /\ n > 1 /\ l \in Nat \ {0}
             /\ PublicKey(p, q) = [n |-> n, g |-> n + 1]
             /\ sk.lambda = l /\ sk.mu \in Nat
             /\ Coprime(l, n) => Congruent(l * sk.mu, 1, n)
<1> DEFINE n == p * q  l == (p - 1) * (q - 1)  N == n * n
           pk == PublicKey(p, q)  w == l % n  mu == mod_inverse(w, n)
<1>1. p > 1 /\ q > 1 /\ p - 1 \in Nat \ {0} /\ q - 1 \in Nat \ {0}
  BY DEF IsPrime
<1>2. n \in Nat \ {0} /\ l \in Nat \ {0}
  BY <1>1
<1>3. n > 1
  <2>1. p * q >= p * 1
    BY <1>1
  <2> QED
    BY <1>1, <2>1
<1>4. pk = [n |-> n, g |-> n + 1]
  BY DEF PublicKey
<1>5. SecretKey(p, q) = [lambda |-> l, mu |-> mod_inverse(L(mod_exp(pk.g, l, n_2(pk)), pk.n), pk.n)]
  BY DEF SecretKey
<1>6. pk.n = n /\ pk.g = n + 1 /\ n_2(pk) = N
  BY <1>4 DEF n_2
<1> HIDE DEF n, l, pk
<1>7. L(mod_exp(n + 1, l, N), n) = w
  <2> DEFINE g == n + 1  G == Power(g, l)
  <2>1. g \in Int /\ N \in Nat \ {0} /\ l \in Nat /\ l \in Int /\ 1 \in Int
    BY <1>2
  <2>2. Congruent(Power(1 + n * 1, l), 1 + n * (l * 1), n * n)
    BY <1>2, <2>1, BinomialPower
  <2>3. 1 + n * 1 = g /\ l * 1 = l
    BY <1>2
  <2>4. Congruent(G, 1 + n * l, n * n)
    BY <2>2, <2>3
  <2>5. G \in Int /\ mod_exp(g, l, N) = G % N
    <3> HIDE DEF g, N
    <3> QED
      BY <2>1, PowerDef, ModExp
  <2> HIDE DEF G
  <2>6. L(G % (n * n), n) = l % n
    BY <1>2, <1>3, <2>1, <2>4, <2>5, LReads
  <2> QED
    BY <2>5, <2>6
<1>8. SecretKey(p, q) = [lambda |-> l, mu |-> mu]
  <2> HIDE DEF N, w
  <2> QED
    BY <1>5, <1>6, <1>7
<1>9. w \in 0..(n - 1) /\ Congruent(w, l, n)
  BY <1>2, CongruentResidue
<1> HIDE DEF w
<1>10. w \in Nat /\ w \in Int /\ l \in Int /\ l \in Nat
  BY <1>2, <1>9
<1>11. mu \in 0..(n - 1) /\ (Coprime(w, n) => Congruent(w * mu, 1, n))
  BY <1>2, <1>10, ModInverse
<1> HIDE DEF mu
<1>12. mu \in Nat /\ mu \in Int
  BY <1>2, <1>11
<1>13. Coprime(l, n) => Congruent(l * mu, 1, n)
  <2> SUFFICES ASSUME Coprime(l, n) PROVE Congruent(l * mu, 1, n)
    OBVIOUS
  <2>1. Coprime(w, n)
    BY <1>2, <1>9, <1>10, CoprimeCongruent
  <2>2. Congruent(w * mu, 1, n)
    BY <1>11, <2>1
  <2>3. Congruent(w * mu, l * mu, n)
    BY <1>2, <1>9, <1>10, <1>12, CongruentScale
  <2> QED
    BY <2>2, <2>3, CongruentEquivalence
<1>14. SecretKey(p, q).lambda = l /\ SecretKey(p, q).mu = mu
  BY <1>8
<1> QED
  BY <1>2, <1>3, <1>4, <1>12, <1>13, <1>14 DEF n, l, pk

(* What Alice decrypts when she sent c and Bob answered with d and k.      *)
Answer(p, q, c, d, k) ==
  Dec(PublicKey(p, q), SecretKey(p, q),
      Scalar_Mul(PublicKey(p, q), k, Sub(PublicKey(p, q), c, d)))

(* It is zero for equal plaintexts a and b, and the blinded difference of  *)
(* the plaintexts when lambda has an inverse.                              *)
Reveals(p, q, a, b, c, d, k) ==
  LET z == Answer(p, q, c, d, k)
  IN  /\ a = b => z = 0
      /\ Coprime((p - 1) * (q - 1), p * q) =>
           z = (k * ((a - b) % (p * q))) % (p * q)

(* The answer of the test when neither party drew a degenerate random      *)
(* number: the blinded difference, decrypted.                              *)
LEMMA DifferenceDecrypts ==
  ASSUME NEW p \in Nat, IsPrime(p), NEW q \in Nat, IsPrime(q), p # q,
         NEW a \in Nat, NEW b \in Nat, NEW r1 \in Nat, NEW r2 \in Nat, NEW k \in Nat,
         Coprime(Enc(PublicKey(p, q), a, r1), p * q),
         Coprime(Enc(PublicKey(p, q), b, r2), p * q)
  PROVE  Reveals(p, q, a, b, Enc(PublicKey(p, q), a, r1), Enc(PublicKey(p, q), b, r2), k)
<1> DEFINE n == p * q  l == (p - 1) * (q - 1)
           pk == PublicKey(p, q)  sk == SecretKey(p, q)  mu == sk.mu
           c == Enc(pk, a, r1)  d == Enc(pk, b, r2)
           u == k * (a * l - b * l)
           z == Dec(pk, sk, Scalar_Mul(pk, k, Sub(pk, c, d)))
<1>0. z = Answer(p, q, c, d, k)
  BY DEF Answer
<1>1. /\ n \in Nat \ {0} /\ n > 1 /\ l \in Nat \ {0}
      /\ pk = [n |-> n, g |-> n + 1]
      /\ sk.lambda = l /\ mu \in Nat
      /\ Coprime(l, n) => Congruent(l * mu, 1, n)
  BY KeyParts
<1>2. \A r \in Nat : Coprime(r, n) => Congruent(Power(r, n * l), 1, n * n)
  BY RandomVanishes
<1>3. Coprime(c, n) /\ Coprime(d, n)
  OBVIOUS
<1> HIDE DEF n, l, mu, pk, sk
<1>4. l \in Nat /\ l \in Int /\ n + 1 \in Nat /\ pk.n = n /\ mu \in Int /\ k \in Int
  BY <1>1
<1>5. c = Enc([n |-> n, g |-> n + 1], a, r1) /\ d = Enc([n |-> n, g |-> n + 1], b, r2)
  BY <1>1
<1> HIDE DEF c, d
<1>6. Coprime(r1, n) /\ Coprime(r2, n)
  BY <1>1, <1>3, <1>4, <1>5, EncUnit
<1>7. Carries(c, a * l, l, n) /\ Carries(d, b * l, l, n)
  BY <1>1, <1>2, <1>4, <1>5, <1>6, EncCarries
<1>8. c \in Nat /\ d \in Nat
  BY <1>1, <1>4, <1>5, EncCongruent
<1>9. a * l \in Int /\ b * l \in Int /\ a * l - b * l \in Int /\ u \in Int /\ a - b \in Int
  BY <1>4
<1> DEFINE e == Sub(pk, c, d)  x == a * l  y == b * l  t == x - y
<1>10. e \in Nat /\ Carries(e, x - y, l, n)
  <2> HIDE DEF x, y
  <2> QED
    BY <1>1, <1>3, <1>4, <1>7, <1>8, <1>9, SubCarries DEF x, y
<1>11. Scalar_Mul(pk, k, e) \in Nat /\ Carries(Scalar_Mul(pk, k, e), k * t, l, n)
  <2> HIDE DEF e, t
  <2> QED
    BY <1>1, <1>4, <1>9, <1>10, ScalarCarries DEF t, x, y
<1>12. z = (u * mu) % n
  <2> DEFINE f == Scalar_Mul(pk, k, e)
  <2>1. f \in Nat /\ Carries(f, u, l, n)
    BY <1>11
  <2> HIDE DEF f, u
  <2>2. Dec(pk, sk, f) = (u * mu) % n
    BY <1>1, <1>4, <1>9, <2>1, DecReads DEF mu
  <2> QED
    BY <2>2 DEF f
<1> HIDE DEF z, e
<1>13. ASSUME a = b PROVE z = 0
  <2>1. a * l - b * l = 0
    BY <1>9, <1>13
  <2>2. u * mu = 0
    BY <1>4, <2>1
  <2>3. 0 % n = 0
    BY <1>1
  <2> QED
    BY <1>12, <2>2, <2>3
<1>14. ASSUME Coprime(l, n) PROVE z = (k * ((a - b) % n)) % n
  <2> DEFINE v == k * (a - b)
  <2>1. v \in Int /\ l * mu \in Int /\ 1 \in Int
    BY <1>4, <1>9
  <2>2. u * mu = v * (l * mu)
    <3>1. a \in Int /\ b \in Int
      OBVIOUS
    <3>2. (k * (a * l - b * l)) * mu = (k * (a - b)) * (l * mu)
      BY <1>4, <3>1
    <3> QED
      BY <3>2
  <2>3. (k * ((a - b) % n)) % n = v % n
    <3> DEFINE w == a - b
    <3>1. w \in Int
      BY <1>9
    <3> HIDE DEF w
    <3>2. (k * (w % n)) % n = (k * w) % n
      BY <1>1, <1>4, <3>1, ModMul
    <3> QED
      BY <3>2 DEF w
  <2> HIDE DEF v, u
  <2>4. Congruent(v * (l * mu), v * 1, n)
    BY <1>1, <1>14, <2>1, CongruentScale
  <2>5. v * 1 = v
    BY <2>1
  <2> QED
    BY <1>12, <2>2, <2>3, <2>4, <2>5 DEF Congruent
<1> QED
  BY <1>0, <1>13, <1>14 DEF Reveals, n, l, pk, c, d

(* The scalar zero makes one of any ciphertext, which decrypts to zero.    *)
LEMMA ZeroScalarDecrypts ==
  ASSUME NEW p \in Nat, IsPrime(p), NEW q \in Nat, IsPrime(q),
         NEW c \in Nat, NEW d \in Nat
  PROVE  Answer(p, q, c, d, 0) = 0
<1> DEFINE n == p * q  l == (p - 1) * (q - 1)  N == n * n
           pk == PublicKey(p, q)  sk == SecretKey(p, q)  mu == sk.mu
           f == Sub(pk, c, d)
<1>0. Answer(p, q, c, d, 0) = Dec(pk, sk, Scalar_Mul(pk, 0, f))
  BY DEF Answer
<1>1. /\ n \in Nat \ {0} /\ n > 1 /\ l \in Nat \ {0}
      /\ pk = [n |-> n, g |-> n + 1]
      /\ sk.lambda = l /\ mu \in Nat
  BY KeyParts
<1> HIDE DEF n, l, mu, pk, sk
<1>3. l \in Nat /\ pk.n = n /\ n_2(pk) = N /\ N \in Nat \ {0}
      /\ 1 \in Int /\ 0 \in Int /\ 1 \in Nat /\ 0 \in Nat
  BY <1>1 DEF n_2
<1>4. f \in Int
  <2> DEFINE i == mod_inverse(d, N)
  <2>1. f = mod_mul(c, i, N)
    BY <1>3 DEF Sub
  <2> HIDE DEF N, f
  <2>2. i \in 0..(N - 1)
    BY <1>3, ModInverse
  <2> HIDE DEF i
  <2>3. i \in Int /\ c \in Int /\ c * i \in Int
    BY <1>3, <2>2
  <2>4. f = (c * i) % N
    BY <1>3, <2>1, <2>3, ModMulIsProduct
  <2> QED
    BY <1>3, <2>3, <2>4
<1> HIDE DEF f
<1>5. 1 % N = 1
  <2>1. n * n >= n * 1
    BY <1>1
  <2>2. 1 \in 0..(N - 1)
    BY <1>1, <2>1
  <2> HIDE DEF N
  <2> QED
    BY <1>3, <2>2
<1>6. Scalar_Mul(pk, 0, f) = 1
  <2> HIDE DEF N
  <2>1. Scalar_Mul(pk, 0, f) = mod_exp(f, 0, N)
    BY <1>3 DEF Scalar_Mul
  <2>2. mod_exp(f, 0, N) = Power(f, 0) % N
    BY <1>3, <1>4, ModExp
  <2>3. Power(f, 0) = 1
    BY <1>4, PowerDef
  <2> QED
    BY <1>5, <2>1, <2>2, <2>3
<1>7. Carries(1, 0, l, n)
  <2>1. Power(1, l) = 1
    BY <1>3, PowerOfOne
  <2>2. 1 + n * 0 = 1
    BY <1>1
  <2> QED
    BY <2>1, <2>2, CongruentEquivalence DEF Carries, Congruent
<1>8. Dec(pk, sk, 1) = (0 * mu) % n
  BY <1>1, <1>3, <1>7, DecReads DEF mu
<1>9. 0 * mu = 0 /\ 0 % n = 0
  BY <1>1
<1> QED
  BY <1>0, <1>6, <1>8, <1>9

(* When Bob's ciphertext has no inverse, what he returns decrypts to zero, *)
(* whatever Alice sent and whatever the scalar.                            *)
LEMMA NonUnitDecrypts ==
  ASSUME NEW p \in Nat, IsPrime(p), NEW q \in Nat, IsPrime(q),
         NEW k \in Nat, NEW c \in Nat, NEW d \in Nat, ~Coprime(d, p * q)
  PROVE  Answer(p, q, c, d, k) = 0
<1> DEFINE n == p * q  l == (p - 1) * (q - 1)  N == n * n
           pk == PublicKey(p, q)  sk == SecretKey(p, q)  mu == sk.mu
<1>0. Answer(p, q, c, d, k) = Dec(pk, sk, Scalar_Mul(pk, k, Sub(pk, c, d)))
  BY DEF Answer
<1>1. /\ n \in Nat \ {0} /\ n > 1 /\ l \in Nat \ {0}
      /\ pk = [n |-> n, g |-> n + 1]
      /\ sk.lambda = l /\ mu \in Nat
  BY KeyParts
<1>2. ~Coprime(d, n)
  OBVIOUS
<1> HIDE DEF n, l, mu, pk, sk
<1>3. l \in Nat /\ pk.n = n /\ n_2(pk) = N /\ N \in Nat \ {0}
      /\ 0 \in Int /\ 1 \in Int /\ c \in Int /\ 0 \in Nat /\ 1 \in Nat
  BY <1>1 DEF n_2
<1>4. mod_inverse(d, N) = 0
  <2>1. ~Coprime(d, N)
    BY <1>1, <1>2, CoprimeProduct
  <2> HIDE DEF N
  <2> QED
    BY <1>3, <2>1, ModInverse
<1>5. Sub(pk, c, d) = 0
  <2> HIDE DEF N
  <2>1. Sub(pk, c, d) = mod_mul(c, 0, N)
    BY <1>3, <1>4 DEF Sub
  <2>2. mod_mul(c, 0, N) = (c * 0) % N
    BY <1>3, ModMulIsProduct
  <2>3. c * 0 = 0 /\ 0 % N = 0
    BY <1>3
  <2> QED
    BY <2>1, <2>2, <2>3
<1>6. Scalar_Mul(pk, k, 0) = Power(0, k) % N
  <2> HIDE DEF N
  <2>1. Scalar_Mul(pk, k, 0) = mod_exp(0, k, N)
    BY <1>3 DEF Scalar_Mul
  <2> QED
    BY <1>3, <2>1, ModExp
<1>7. CASE k = 0
  BY <1>7, ZeroScalarDecrypts
<1>8. CASE k # 0
  <2>1. Power(0, k) = 0
    BY <1>8, PowerOfZero
  <2>2. 0 % N = 0
    <3> HIDE DEF N
    <3> QED
      BY <1>3
  <2>3. Dec(pk, sk, 0) = 0
    BY <1>1, <1>3, DecZero DEF mu
  <2> QED
    BY <1>0, <1>5, <1>6, <2>1, <2>2, <2>3
<1> QED
  BY <1>7, <1>8

----------------------------------------------------------------------------

(***************************************************************************)
(* The inductive invariant: the keys belong together, and every value of a *)
(* call is what the step before made of the numbers under that key.  What  *)
(* Bob's answer decrypts to follows from it (Decrypts, below).             *)
(***************************************************************************)
Phases == {"nokey", "ready", "step1", "step2", "done"}

TypeOK == /\ phase \in Phases
          /\ aliceNumber \in Numbers /\ bobNumber \in Numbers
          /\ verdict \in BOOLEAN

KeyFromPrimes ==
  phase # "nokey" =>
    \E pq \in KeyPrimes : /\ publicKey = PublicKey(pq[1], pq[2])
                          /\ secretKey = SecretKey(pq[1], pq[2])

AliceEncrypts ==
  phase \in {"step1", "step2", "done"} =>
    \E r \in EncRandom(publicKey.n) :
      aliceCipherText = Enc(publicKey, Encode(aliceNumber), r)

BobAnswers ==
  phase \in {"step2", "done"} =>
    /\ \E r \in EncRandom(publicKey.n) :
         bobCipherText = Enc(publicKey, Encode(bobNumber), r)
    /\ s \in ScalarRandom(publicKey.n)
    /\ res = Scalar_Mul(publicKey, s, Sub(publicKey, aliceCipherText, bobCipherText))

AnswerFromRes ==
  phase = "done" => verdict = (Dec(publicKey, secretKey, res) = 0)

NothingBeforeKey == phase = "nokey" => res = 0

IInv == /\ TypeOK /\ KeyFromPrimes /\ AliceEncrypts /\ BobAnswers
        /\ AnswerFromRes /\ NothingBeforeKey

LEMMA InitIInv == Init => IInv
<1> SUFFICES ASSUME Init PROVE IInv
  OBVIOUS
<1>1. TypeOK
  BY NumbersAssumption DEF Init, TypeOK, Phases
<1>2. KeyFromPrimes /\ AliceEncrypts /\ BobAnswers /\ AnswerFromRes /\ NothingBeforeKey
  BY DEF Init, KeyFromPrimes, AliceEncrypts, BobAnswers, AnswerFromRes, NothingBeforeKey
<1> QED
  BY <1>1, <1>2 DEF IInv

LEMMA NextIInv == IInv /\ [Next]_vars => IInv'
<1> SUFFICES ASSUME IInv, [Next]_vars PROVE IInv'
  OBVIOUS
<1>1. CASE keyGen
  <2>1. TypeOK'
    BY <1>1 DEF IInv, TypeOK, Phases, keyGen
  <2>2. KeyFromPrimes'
    BY <1>1 DEF keyGen, KeyFromPrimes
  <2>3. phase' = "ready"
    BY <1>1 DEF keyGen
  <2>4. AliceEncrypts' /\ BobAnswers' /\ AnswerFromRes' /\ NothingBeforeKey'
    BY <2>3 DEF AliceEncrypts, BobAnswers, AnswerFromRes, NothingBeforeKey
  <2> QED
    BY <2>1, <2>2, <2>4 DEF IInv
<1>2. ASSUME NEW x \in Numbers, NEW y \in Numbers, Step1(x, y) PROVE IInv'
  <2>0. /\ phase = "ready" /\ phase' = "step1" /\ publicKey' = publicKey
        /\ secretKey' = secretKey /\ aliceNumber' = x /\ bobNumber' = y
        /\ verdict' = verdict
    BY <1>2 DEF Step1
  <2>1. TypeOK'
    BY <2>0 DEF IInv, TypeOK, Phases
  <2>2. KeyFromPrimes'
    BY <2>0 DEF IInv, KeyFromPrimes
  <2>3. AliceEncrypts'
    <3>1. \E r \in EncRandom(publicKey.n) :
            aliceCipherText' = Enc(publicKey, Encode(x), r)
      BY <1>2 DEF Step1
    <3> QED
      BY <2>0, <3>1 DEF AliceEncrypts, Encode
  <2>4. BobAnswers' /\ AnswerFromRes' /\ NothingBeforeKey'
    BY <2>0 DEF BobAnswers, AnswerFromRes, NothingBeforeKey
  <2> QED
    BY <2>1, <2>2, <2>3, <2>4 DEF IInv
<1>3. CASE Step2
  <2>0. /\ phase = "step1" /\ phase' = "step2" /\ publicKey' = publicKey
        /\ secretKey' = secretKey /\ aliceNumber' = aliceNumber
        /\ bobNumber' = bobNumber /\ aliceCipherText' = aliceCipherText
        /\ verdict' = verdict
    BY <1>3 DEF Step2
  <2>1. TypeOK'
    BY <2>0 DEF IInv, TypeOK, Phases
  <2>2. KeyFromPrimes'
    BY <2>0 DEF IInv, KeyFromPrimes
  <2>3. AliceEncrypts'
    BY <2>0 DEF IInv, AliceEncrypts, Encode
  <2>4. BobAnswers'
    <3>1. \E r \in EncRandom(publicKey.n) :
            bobCipherText' = Enc(publicKey, Encode(bobNumber), r)
      BY <1>3 DEF Step2
    <3>2. /\ s' \in ScalarRandom(publicKey.n)
          /\ res' = Scalar_Mul(publicKey, s',
                      Sub(publicKey, aliceCipherText, bobCipherText'))
      BY <1>3 DEF Step2
    <3> QED
      BY <2>0, <3>1, <3>2 DEF BobAnswers, Encode
  <2>5. AnswerFromRes' /\ NothingBeforeKey'
    BY <2>0 DEF AnswerFromRes, NothingBeforeKey
  <2> QED
    BY <2>1, <2>2, <2>3, <2>4, <2>5 DEF IInv
<1>4. CASE Step3
  <2>0. /\ phase = "step2" /\ phase' = "done" /\ publicKey' = publicKey
        /\ secretKey' = secretKey /\ aliceNumber' = aliceNumber
        /\ bobNumber' = bobNumber /\ aliceCipherText' = aliceCipherText
        /\ bobCipherText' = bobCipherText /\ s' = s /\ res' = res
        /\ verdict' = (Dec(publicKey, secretKey, res) = 0)
    BY <1>4 DEF Step3
  <2>1. TypeOK'
    BY <2>0 DEF IInv, TypeOK, Phases
  <2>2. KeyFromPrimes'
    BY <2>0 DEF IInv, KeyFromPrimes
  <2>3. AliceEncrypts'
    BY <2>0 DEF IInv, AliceEncrypts, Encode
  <2>4. BobAnswers'
    BY <2>0 DEF IInv, BobAnswers, Encode
  <2>5. AnswerFromRes' /\ NothingBeforeKey'
    BY <2>0 DEF AnswerFromRes, NothingBeforeKey
  <2> QED
    BY <2>1, <2>2, <2>3, <2>4, <2>5 DEF IInv
<1>5. CASE Return
  <2>0. phase = "done" /\ phase' = "ready" /\ publicKey' = publicKey
        /\ secretKey' = secretKey
    BY <1>5 DEF Return
  <2>1. TypeOK'
    BY <1>5, NumbersAssumption DEF IInv, TypeOK, Phases, Return
  <2>2. KeyFromPrimes'
    BY <2>0 DEF IInv, KeyFromPrimes
  <2>3. AliceEncrypts' /\ BobAnswers' /\ AnswerFromRes' /\ NothingBeforeKey'
    BY <2>0 DEF AliceEncrypts, BobAnswers, AnswerFromRes, NothingBeforeKey
  <2> QED
    BY <2>1, <2>2, <2>3 DEF IInv
<1>6. CASE UNCHANGED vars
  <2>0. /\ phase' = phase /\ publicKey' = publicKey
        /\ secretKey' = secretKey /\ aliceNumber' = aliceNumber
        /\ bobNumber' = bobNumber /\ aliceCipherText' = aliceCipherText
        /\ bobCipherText' = bobCipherText /\ s' = s /\ res' = res
        /\ verdict' = verdict
    BY <1>6 DEF vars
  <2>1. TypeOK'
    BY <2>0 DEF IInv, TypeOK
  <2>2. KeyFromPrimes' /\ AnswerFromRes' /\ NothingBeforeKey'
    BY <2>0 DEF IInv, KeyFromPrimes, AnswerFromRes, NothingBeforeKey
  <2>3. AliceEncrypts'
    BY <2>0 DEF IInv, AliceEncrypts, Encode
  <2>4. BobAnswers'
    BY <2>0 DEF IInv, BobAnswers, Encode
  <2> QED
    BY <2>1, <2>2, <2>3, <2>4 DEF IInv
<1> QED
  BY <1>1, <1>2, <1>3, <1>4, <1>5, <1>6 DEF Next

LEMMA Invariance == Spec => []IInv
  BY InitIInv, NextIInv, PTL DEF Spec

(* What the invariant says of the keys, spelled out.                       *)
LEMMA KeyFacts ==
  ASSUME KeyFromPrimes, phase # "nokey"
  PROVE  \E p, q \in PrimesOfBits(PrimeBits) :
           /\ p \in Nat /\ IsPrime(p) /\ q \in Nat /\ IsPrime(q)
           /\ <<p, q>> \in KeyPrimes
           /\ publicKey = PublicKey(p, q) /\ secretKey = SecretKey(p, q)
           /\ publicKey.n = p * q /\ p * q \in Nat \ {0}
           /\ EncRandom(p * q) \subseteq Nat /\ ScalarRandom(p * q) \subseteq Nat
           /\ DistinctPrimes => p # q
<1>1. PICK pq \in KeyPrimes : /\ publicKey = PublicKey(pq[1], pq[2])
                              /\ secretKey = SecretKey(pq[1], pq[2])
  BY DEF KeyFromPrimes
<1> DEFINE p == pq[1]  q == pq[2]  n == p * q
<1>2. p \in PrimesOfBits(PrimeBits) /\ q \in PrimesOfBits(PrimeBits) /\ pq = <<p, q>>
  BY KeyPrimesAssumption
<1>3. /\ EncRandom(PublicKey(p, q).n) \subseteq random_element(PublicKey(p, q))
      /\ ScalarRandom(PublicKey(p, q).n) \subseteq random_element(PublicKey(p, q))
  BY RandomAssumption
<1>4. publicKey = PublicKey(p, q) /\ secretKey = SecretKey(p, q) /\ <<p, q>> \in KeyPrimes
  BY <1>1, <1>2
<1> HIDE DEF p, q
<1>5. p \in Nat /\ IsPrime(p) /\ q \in Nat /\ IsPrime(q)
  <2>1. ASSUME NEW x \in PrimesOfBits(PrimeBits) PROVE x \in Int /\ IsPrime(x)
    BY DEF PrimesOfBits
  <2>2. ASSUME NEW x \in PrimesOfBits(PrimeBits) PROVE x \in Nat
    BY <2>1 DEF IsPrime
  <2> QED
    BY <1>2, <2>1, <2>2
<1>6. n \in Nat \ {0} /\ n >= p
  <2>1. p > 1 /\ q > 1
    BY <1>5 DEF IsPrime
  <2>2. p * q >= p * 1
    BY <1>5, <2>1
  <2> QED
    BY <1>5, <2>1, <2>2
<1>7. PublicKey(p, q).n = n
  BY DEF PublicKey
<1>8. EncRandom(n) \subseteq Nat /\ ScalarRandom(n) \subseteq Nat
  <2>1. \A x \in random_element(PublicKey(p, q)) : x \in Nat
    BY <1>6, <1>7 DEF random_element
  <2> QED
    BY <1>3, <1>7, <2>1
<1>9. DistinctPrimes => p # q
  <2> SUFFICES ASSUME DistinctPrimes, p = q PROVE FALSE
    OBVIOUS
  <2>1. p \in 1..n /\ p * p = n
    BY <1>5, <1>6 DEF IsPrime
  <2> QED
    BY <1>4, <1>7, <2>1 DEF DistinctPrimes
<1> QED
  BY <1>2, <1>4, <1>5, <1>6, <1>7, <1>8, <1>9

LEMMA EncodeNat == \A x \in Numbers : Encode(x) \in Nat /\ Encode(x) \in 0..(Word - 1)
<1> TAKE x \in Numbers
<1>1. x \in Int /\ Word \in Nat \ {0}
  BY NumbersAssumption, WordAssumption
<1> QED
  BY <1>1 DEF Encode

(* What Bob's answer decrypts to: zero when his ciphertext has no inverse  *)
(* or his scalar is zero, zero for equal numbers, and the blinded          *)
(* difference modulo n when the primes have three bits or more.            *)
Decrypts ==
  phase \in {"step2", "done"} =>
    LET z == Dec(publicKey, secretKey, res)
        n == publicKey.n
    IN  /\ ~IsUnit(bobCipherText) \/ s = 0 => z = 0
        /\ (DistinctPrimes /\ IsUnit(aliceCipherText) /\ aliceNumber = bobNumber)
             => z = 0
        /\ (PrimeBits \in Nat /\ PrimeBits >= 3 /\ Regular)
             => z = (s * ((Encode(aliceNumber) - Encode(bobNumber)) % n)) % n

LEMMA IInvDecrypts == IInv => Decrypts
<1> SUFFICES ASSUME IInv, phase \in {"step2", "done"}
             PROVE  LET z == Dec(publicKey, secretKey, res)
                        n == publicKey.n
                    IN  /\ ~IsUnit(bobCipherText) \/ s = 0 => z = 0
                        /\ (DistinctPrimes /\ IsUnit(aliceCipherText)
                            /\ aliceNumber = bobNumber) => z = 0
                        /\ (PrimeBits \in Nat /\ PrimeBits >= 3 /\ Regular)
                             => z = (s * ((Encode(aliceNumber) - Encode(bobNumber)) % n)) % n
  BY DEF Decrypts
<1>0. KeyFromPrimes /\ AliceEncrypts /\ BobAnswers
  BY DEF IInv
<1>1. PICK p \in PrimesOfBits(PrimeBits), q \in PrimesOfBits(PrimeBits) :
           /\ p \in Nat /\ IsPrime(p) /\ q \in Nat /\ IsPrime(q)
           /\ <<p, q>> \in KeyPrimes
           /\ publicKey = PublicKey(p, q) /\ secretKey = SecretKey(p, q)
           /\ publicKey.n = p * q /\ p * q \in Nat \ {0}
           /\ EncRandom(p * q) \subseteq Nat /\ ScalarRandom(p * q) \subseteq Nat
           /\ DistinctPrimes => p # q
  BY <1>0, KeyFacts
<1> DEFINE a == Encode(aliceNumber)  b == Encode(bobNumber)
           c == aliceCipherText  d == bobCipherText  n == p * q
<1>2. a \in Nat /\ b \in Nat
  BY EncodeNat DEF IInv, TypeOK
<1>3. PICK r1 \in EncRandom(n) : c = Enc(publicKey, a, r1)
  BY <1>0, <1>1 DEF AliceEncrypts
<1>4. PICK r2 \in EncRandom(n) : d = Enc(publicKey, b, r2)
  BY <1>0, <1>1 DEF BobAnswers
<1>5. /\ s \in ScalarRandom(n)
      /\ res = Scalar_Mul(publicKey, s, Sub(publicKey, c, d))
  BY <1>0, <1>1 DEF BobAnswers
<1>6. r1 \in Nat /\ r2 \in Nat /\ s \in Nat
  BY <1>1, <1>3, <1>4, <1>5
<1>7. IsUnit(c) = Coprime(c, n) /\ IsUnit(d) = Coprime(d, n)
  BY <1>1 DEF IsUnit
<1>8. c \in Nat /\ d \in Nat
  <2>1. publicKey = [n |-> n, g |-> n + 1] /\ n \in Nat \ {0} /\ n + 1 \in Nat
    BY <1>1 DEF PublicKey
  <2> HIDE DEF n, a, b, c, d
  <2> QED
    BY <1>2, <1>3, <1>4, <1>6, <2>1, EncCongruent
<1> HIDE DEF a, b, c, d
<1> DEFINE z == Dec(publicKey, secretKey, res)
<1>9. z = Answer(p, q, c, d, s)
  BY <1>1, <1>5 DEF Answer
<1>10. ASSUME DistinctPrimes, IsUnit(c), IsUnit(d)
       PROVE  /\ a = b => z = 0
              /\ Coprime((p - 1) * (q - 1), n) => z = (s * ((a - b) % n)) % n
  <2>1. p # q /\ Coprime(c, p * q) /\ Coprime(d, p * q)
    BY <1>1, <1>7, <1>10
  <2>2. c = Enc(PublicKey(p, q), a, r1) /\ d = Enc(PublicKey(p, q), b, r2)
    BY <1>1, <1>3, <1>4
  <2> HIDE DEF z
  <2>3. /\ p \in Nat /\ IsPrime(p) /\ q \in Nat /\ IsPrime(q) /\ p # q
        /\ a \in Nat /\ b \in Nat /\ r1 \in Nat /\ r2 \in Nat /\ s \in Nat
        /\ Coprime(Enc(PublicKey(p, q), a, r1), p * q)
        /\ Coprime(Enc(PublicKey(p, q), b, r2), p * q)
    BY <1>1, <1>2, <1>6, <2>1, <2>2
  <2>4. Reveals(p, q, a, b, Enc(PublicKey(p, q), a, r1), Enc(PublicKey(p, q), b, r2), s)
    BY <2>3, DifferenceDecrypts
  <2> QED
    BY <1>9, <2>2, <2>4 DEF Reveals
<1>15. ASSUME ~IsUnit(d) PROVE z = 0
  BY <1>1, <1>6, <1>7, <1>8, <1>9, <1>15, NonUnitDecrypts
<1>16. ASSUME s = 0 PROVE z = 0
  BY <1>1, <1>8, <1>9, <1>16, ZeroScalarDecrypts
<1>11. ASSUME PrimeBits \in Nat, PrimeBits >= 3, p # q
       PROVE  Coprime((p - 1) * (q - 1), n)
  BY <1>1, <1>11, LambdaInvertible
<1>12. aliceNumber = bobNumber => a = b
  BY DEF a, b
<1>13. Regular => DistinctPrimes /\ IsUnit(c) /\ IsUnit(d)
  BY DEF Regular, c, d
<1> HIDE DEF z
<1>14. /\ ~IsUnit(d) \/ s = 0 => z = 0
       /\ DistinctPrimes /\ IsUnit(c) /\ aliceNumber = bobNumber => z = 0
       /\ PrimeBits \in Nat /\ PrimeBits >= 3 /\ Regular => z = (s * ((a - b) % n)) % n
  BY <1>1, <1>10, <1>11, <1>12, <1>13, <1>15, <1>16
<1> QED
  BY <1>1, <1>14 DEF z, a, b, c, d

----------------------------------------------------------------------------

LEMMA DecryptsInvariant == Spec => []Decrypts
  BY IInvDecrypts, Invariance, PTL

(***************************************************************************)
(* Completeness of the Paillier tester, for primes of any size: equal      *)
(* numbers are accepted unless the primes coincide or Alice's own random   *)
(* number shares a factor with n.  A failed inverse on Bob's side, which   *)
(* the code ignores, does no harm to equal numbers.                        *)
(***************************************************************************)
THEOREM EqualNumbersAccepted == Spec => []EqualAccepted
<1>1. IInv /\ Decrypts => EqualAccepted
  <2> SUFFICES ASSUME IInv, Decrypts, phase = "done", DistinctPrimes,
                      aliceNumber = bobNumber, ~verdict, IsUnit(aliceCipherText)
               PROVE  FALSE
    BY DEF EqualAccepted
  <2>1. verdict = (Dec(publicKey, secretKey, res) = 0)
    BY DEF IInv, AnswerFromRes
  <2>2. Dec(publicKey, secretKey, res) = 0
    BY DEF Decrypts
  <2> QED
    BY <2>1, <2>2
<1> QED
  BY <1>1, Invariance, DecryptsInvariant, PTL

(***************************************************************************)
(* The failure of BN_mod_inverse that Sub ignores, for every key: when     *)
(* Bob's ciphertext has no inverse the answer is "equal" for any numbers.  *)
(***************************************************************************)
THEOREM IgnoredFailureAccepts == Spec => []NonUnitAccepts
<1>1. IInv /\ Decrypts => NonUnitAccepts
  <2> SUFFICES ASSUME IInv, Decrypts, phase = "done", ~IsUnit(bobCipherText)
               PROVE  verdict
    BY DEF NonUnitAccepts
  <2>1. verdict = (Dec(publicKey, secretKey, res) = 0)
    BY DEF IInv, AnswerFromRes
  <2>2. Dec(publicKey, secretKey, res) = 0
    BY DEF Decrypts
  <2> QED
    BY <2>1, <2>2
<1> QED
  BY <1>1, Invariance, DecryptsInvariant, PTL

(* The scalar zero accepts every number.                                   *)
ZeroScalarAccepted == (phase = "done" /\ s = 0) => verdict

(***************************************************************************)
(* The scalar zero, which Bob's draw does not exclude, accepts whatever    *)
(* the numbers, under every key and every randomness of the ciphertexts.   *)
(***************************************************************************)
THEOREM ZeroScalarAccepts == Spec => []ZeroScalarAccepted
<1>1. IInv /\ Decrypts => ZeroScalarAccepted
  <2> SUFFICES ASSUME IInv, Decrypts, phase = "done", s = 0
               PROVE  verdict
    BY DEF ZeroScalarAccepted
  <2>1. verdict = (Dec(publicKey, secretKey, res) = 0)
    BY DEF IInv, AnswerFromRes
  <2>2. Dec(publicKey, secretKey, res) = 0
    BY DEF Decrypts
  <2> QED
    BY <2>1, <2>2
<1> QED
  BY <1>1, Invariance, DecryptsInvariant, PTL

(* Before a ciphertext has come the decryption is that of zero.            *)
LEMMA DecNothing ==
  ASSUME NEW p \in Nat, IsPrime(p), NEW q \in Nat, IsPrime(q)
  PROVE  Dec(PublicKey(p, q), SecretKey(p, q), 0) = 0
<1> DEFINE n == p * q  l == (p - 1) * (q - 1)
           pk == PublicKey(p, q)  sk == SecretKey(p, q)  mu == sk.mu
<1>1. /\ n \in Nat \ {0} /\ n > 1 /\ l \in Nat \ {0}
      /\ pk = [n |-> n, g |-> n + 1]
      /\ sk.lambda = l /\ mu \in Nat
  BY KeyParts
<1> HIDE DEF n, l, pk, sk, mu
<1>2. pk.n = n
  BY <1>1
<1>3. Dec(pk, sk, 0) = 0
  BY <1>1, <1>2, DecZero DEF mu
<1> QED
  BY <1>3 DEF pk, sk

LEMMA KeyTyped ==
  ASSUME KeyFromPrimes, phase # "nokey"
  PROVE  /\ publicKey.n \in Nat \ {0}
         /\ publicKey.n \in {pq[1] * pq[2] : pq \in KeyPrimes}
         /\ ScalarRandom(publicKey.n) \subseteq Nat
         /\ Dec(publicKey, secretKey, 0) = 0
<1>1. PICK p \in PrimesOfBits(PrimeBits), q \in PrimesOfBits(PrimeBits) :
           /\ p \in Nat /\ IsPrime(p) /\ q \in Nat /\ IsPrime(q)
           /\ <<p, q>> \in KeyPrimes
           /\ publicKey = PublicKey(p, q) /\ secretKey = SecretKey(p, q)
           /\ publicKey.n = p * q /\ p * q \in Nat \ {0}
           /\ EncRandom(p * q) \subseteq Nat /\ ScalarRandom(p * q) \subseteq Nat
           /\ DistinctPrimes => p # q
  BY KeyFacts
<1>2. Dec(publicKey, secretKey, 0) = 0
  <2>1. Dec(PublicKey(p, q), SecretKey(p, q), 0) = 0
    BY <1>1, DecNothing
  <2> QED
    BY <1>1, <2>1
<1>3. p * q \in {pq[1] * pq[2] : pq \in KeyPrimes}
  <2> DEFINE pq == <<p, q>>
  <2>1. pq \in KeyPrimes /\ pq[1] * pq[2] = p * q
    BY <1>1
  <2> HIDE DEF pq
  <2> QED
    BY <2>1
<1> QED
  BY <1>1, <1>2, <1>3

(***************************************************************************)
(* For primes of three bits or more, which no call of the program goes     *)
(* below, the ciphertext-level tester implements the plaintext-level test: *)
(* up to a degenerate draw every step decrypts to a step of AHETest.  Two  *)
(* bits are too few: with the primes 2 and 3 lambda has no inverse.        *)
(***************************************************************************)
THEOREM ImplementsAHE ==
  ASSUME PrimeBits \in Nat, PrimeBits >= 3
  PROVE  Spec => AHESteps
<1>1. Init => AHE!Init
  <2> SUFFICES ASSUME Init PROVE AHE!Init
    OBVIOUS
  <2>1. Encode(0) = 0
    BY WordAssumption DEF Encode
  <2>2. publicKey.n = 0 /\ (IF phase = "nokey" THEN 0 ELSE Dec(publicKey, secretKey, res)) = 0
    BY DEF Init, NoKey
  <2> QED
    BY <2>1, <2>2 DEF Init, AHE!Init
<1>2. IInv /\ IInv' /\ Decrypts' /\ [Next]_vars
        => [AHE!Next \/ ~Regular']_(AHE!vars)
  <2> SUFFICES ASSUME IInv, IInv', Decrypts', [Next]_vars, Regular'
               PROVE  [AHE!Next]_(AHE!vars)
    BY DEF AHE!vars
  <2> DEFINE z == IF phase = "nokey" THEN 0 ELSE Dec(publicKey, secretKey, res)
             E(x) == x % Word
  <2>0. \A x : Encode(x) = E(x)
    BY DEF Encode
  <2>1. CASE keyGen
    <3>1. publicKey'.n \in {pq[1] * pq[2] : pq \in KeyPrimes}
      <4>1. PICK pq \in KeyPrimes : publicKey' = PublicKey(pq[1], pq[2])
        BY <2>1 DEF keyGen
      <4>2. publicKey'.n = pq[1] * pq[2]
        BY <4>1 DEF PublicKey
      <4> QED
        BY <4>2
    <3>2. z = 0 /\ z' = 0
      <4>1. phase = "nokey" /\ phase' = "ready" /\ res' = 0
        BY <2>1 DEF keyGen, IInv, NothingBeforeKey
      <4>2. PICK pq \in KeyPrimes : /\ publicKey' = PublicKey(pq[1], pq[2])
                                    /\ secretKey' = SecretKey(pq[1], pq[2])
        BY <2>1 DEF keyGen
      <4> DEFINE p == pq[1]  q == pq[2]
      <4>3. p \in Nat /\ IsPrime(p) /\ q \in Nat /\ IsPrime(q)
        <5>1. p \in PrimesOfBits(PrimeBits) /\ q \in PrimesOfBits(PrimeBits)
          BY KeyPrimesAssumption
        <5>2. ASSUME NEW x \in PrimesOfBits(PrimeBits) PROVE x \in Nat /\ IsPrime(x)
          <6>1. x \in Int /\ IsPrime(x)
            BY DEF PrimesOfBits
          <6> QED
            BY <6>1 DEF IsPrime
        <5> QED
          BY <5>1, <5>2
      <4>4. Dec(publicKey', secretKey', 0) = 0
        <5> HIDE DEF p, q
        <5>1. Dec(PublicKey(p, q), SecretKey(p, q), 0) = 0
          BY <4>3, DecNothing
        <5> QED
          BY <4>2, <5>1 DEF p, q
      <4> QED
        BY <4>1, <4>4
    <3>3. AHE!KeyGen
      BY <2>1, <3>1, <3>2 DEF keyGen, AHE!KeyGen, Encode
    <3> QED
      BY <3>3 DEF AHE!Next
  <2>2. ASSUME NEW x \in Numbers, NEW y \in Numbers, Step1(x, y)
        PROVE  AHE!Next
    <3>1. /\ publicKey' = publicKey /\ secretKey' = secretKey /\ res' = res /\ s' = s
          /\ verdict' = verdict /\ phase = "ready" /\ phase' = "step1"
          /\ aliceNumber' = x /\ bobNumber' = y
      BY <2>2 DEF Step1
    <3>2. AHE!Step1(Encode(x), Encode(y))
      BY <3>1 DEF AHE!Step1, Encode
    <3> QED
      BY <3>2 DEF AHE!Next
  <2>3. CASE Step2
    <3>1. /\ publicKey' = publicKey /\ secretKey' = secretKey
          /\ verdict' = verdict /\ phase = "step1" /\ phase' = "step2"
          /\ aliceNumber' = aliceNumber /\ bobNumber' = bobNumber
      BY <2>3 DEF Step2
    <3>2. z' = (s' * ((Encode(aliceNumber) - Encode(bobNumber)) % publicKey.n)) % publicKey.n
      <4>1. Dec(publicKey', secretKey', res') =
              (s' * ((Encode(aliceNumber') - Encode(bobNumber')) % publicKey'.n)) % publicKey'.n
        BY <3>1 DEF Decrypts, Encode
      <4> QED
        BY <3>1, <4>1
    <3>3. s' \in ScalarRandom(publicKey.n)
      BY <3>1 DEF IInv, BobAnswers
    <3>4. AHE!Step2(s')
      BY <3>1, <3>2 DEF AHE!Step2, Encode
    <3> QED
      BY <3>3, <3>4 DEF AHE!Next
  <2>4. CASE Step3
    <3>1. AHE!Step3
      BY <2>4 DEF Step3, AHE!Step3, Encode
    <3> QED
      BY <3>1 DEF AHE!Next
  <2>5. CASE Return
    <3>1. /\ publicKey' = publicKey /\ secretKey' = secretKey /\ res' = 0 /\ s' = 0
          /\ verdict' = FALSE /\ phase = "done" /\ phase' = "ready"
          /\ aliceNumber' = 0 /\ bobNumber' = 0
      BY <2>5 DEF Return
    <3>2. Encode(0) = 0
      BY WordAssumption DEF Encode
    <3>3. Dec(publicKey', secretKey', res') = 0
      BY <3>1, KeyTyped DEF IInv
    <3>4. AHE!Return
      BY <3>1, <3>2, <3>3 DEF AHE!Return, Encode
    <3> QED
      BY <3>4 DEF AHE!Next
  <2>6. CASE UNCHANGED vars
    BY <2>6 DEF vars, AHE!vars, Encode
  <2> QED
    BY <2>1, <2>2, <2>3, <2>4, <2>5, <2>6 DEF Next
<1> QED
  BY <1>1, <1>2, Invariance, DecryptsInvariant, PTL DEF Spec, AHESteps

----------------------------------------------------------------------------

(* The ints of the callers lie within one word, and the modulus is at      *)
(* least as large as the word: 32 bits against twice the key length.       *)
IntsFit ==
  /\ PrimeBits \in Nat /\ PrimeBits >= 3
  /\ Word <= two_to[PrimeBits - 1] * two_to[PrimeBits - 1]
  /\ \A x, y \in Numbers : x - y < Word

(* Numbers within a word are equal when their encodings agree modulo n.    *)
LEMMA EncodeInjective ==
  ASSUME NEW n \in Nat \ {0}, NEW W \in Nat \ {0}, W <= n,
         NEW x \in Int, NEW y \in Int, x - y < W, y - x < W,
         Congruent((x % W) - (y % W), 0, n)
  PROVE  x = y
<1> DEFINE a == x % W  b == y % W  da == x \div W  db == y \div W
<1>1. a \in 0..(W - 1) /\ da \in Int /\ x = W * da + a
  BY DivMod
<1>2. b \in 0..(W - 1) /\ db \in Int /\ y = W * db + b
  BY DivMod
<1>3. Congruent(a - b, 0, n)
  OBVIOUS
<1> HIDE DEF a, b, da, db
<1>4. a - b \in Int /\ 0 \in Int
  BY <1>1, <1>2
<1>5. PICK k \in Int : a - b = 0 + n * k
  BY <1>3, <1>4, CongruentMultiple
<1>6. -n < n * k /\ n * k < n
  BY <1>1, <1>2, <1>5
<1>7. k = 0
  BY <1>6, SmallMultiple
<1>8. a = b
  BY <1>1, <1>2, <1>5, <1>7
<1> DEFINE j == da - db
<1>9. j \in Int /\ W * j = x - y
  BY <1>1, <1>2, <1>8
<1> HIDE DEF j
<1>10. j = 0
  BY <1>9, SmallMultiple
<1> QED
  BY <1>9, <1>10

Blinded(k, x, y, W, n) == (k * (((x % W) - (y % W)) % n)) % n

(* A scalar with an inverse maps the difference of different numbers to a  *)
(* residue other than zero.                                                *)
LEMMA DifferenceSeen ==
  ASSUME NEW n \in Nat \ {0}, NEW W \in Nat \ {0}, W <= n,
         NEW x \in Int, NEW y \in Int, x - y < W, y - x < W,
         NEW k \in Nat, Coprime(k, n)
  PROVE  Blinded(k, x, y, W, n) = 0 <=> x = y
<1> DEFINE v == (x % W) - (y % W)  r == v % n  w == k * r
<1>1. v \in Int
  <2>1. x % W \in Int /\ y % W \in Int
    BY DivMod
  <2> QED
    BY <2>1
<1>2. ASSUME x = y PROVE w % n = 0
  <2>1. v = 0
    <3>1. x % W \in Int
      BY DivMod
    <3> QED
      BY <1>2, <3>1
  <2>2. 0 % n = 0 /\ k * 0 = 0
    OBVIOUS
  <2> QED
    BY <2>1, <2>2
<1>3. ASSUME w % n = 0 PROVE x = y
  <2> HIDE DEF v
  <2>1. r \in 0..(n - 1) /\ Congruent(r, v, n)
    BY <1>1, CongruentResidue
  <2>2. w % n = 0
    BY <1>3
  <2> HIDE DEF r
  <2>3. r \in Int /\ w \in Int /\ 0 \in Int /\ k \in Int
    BY <2>1
  <2>4. Congruent(w, 0, n)
    <3> HIDE DEF w
    <3> QED
      BY <2>2, <2>3, ResidueZero
  <2>5. k * 0 = 0
    OBVIOUS
  <2>6. Congruent(k * r, k * 0, n)
    BY <2>4, <2>5
  <2>7. Congruent(r, 0, n)
    BY <2>3, <2>6, CongruentCancel
  <2>8. Congruent(v, 0, n)
    BY <2>1, <2>7, CongruentEquivalence
  <2> QED
    BY <2>8, EncodeInjective DEF v
<1> QED
  BY <1>2, <1>3 DEF Blinded

LEMMA ModulusExceedsWord ==
  ASSUME KeyFromPrimes, phase # "nokey", IntsFit
  PROVE  publicKey.n \in Nat \ {0} /\ Word <= publicKey.n
<1>1. PICK p \in PrimesOfBits(PrimeBits), q \in PrimesOfBits(PrimeBits) :
           /\ p \in Nat /\ IsPrime(p) /\ q \in Nat /\ IsPrime(q)
           /\ <<p, q>> \in KeyPrimes
           /\ publicKey = PublicKey(p, q) /\ secretKey = SecretKey(p, q)
           /\ publicKey.n = p * q /\ p * q \in Nat \ {0}
           /\ EncRandom(p * q) \subseteq Nat /\ ScalarRandom(p * q) \subseteq Nat
           /\ DistinctPrimes => p # q
  BY KeyFacts
<1> DEFINE T == two_to[PrimeBits - 1]
<1>2. T \in Nat
  <2>1. PrimeBits - 1 \in Nat
    BY DEF IntsFit
  <2> QED
    BY <2>1, TwoTo
<1>3. p >= T /\ q >= T
  BY DEF PrimesOfBits
<1>4. Word <= T * T /\ Word \in Nat
  BY WordAssumption DEF IntsFit
<1> HIDE DEF T
<1>5. T * T <= p * q
  <2>1. T * T <= p * T
    BY <1>1, <1>2, <1>3
  <2>2. p * T <= p * q
    BY <1>1, <1>2, <1>3
  <2>3. T * T \in Int /\ p * T \in Int /\ p * q \in Int
    BY <1>1, <1>2
  <2> QED
    BY <2>1, <2>2, <2>3
<1>6. T * T \in Int /\ p * q \in Int
  BY <1>1, <1>2
<1> QED
  BY <1>1, <1>4, <1>5, <1>6

(***************************************************************************)
(* For ints that fit the key, negative ones included, every step of the    *)
(* Paillier tester is a step of the equality oracle or none of its own,    *)
(* up to degenerate draws and scalars without an inverse.                  *)
(***************************************************************************)
THEOREM ImplementsOracle ==
  ASSUME IntsFit
  PROVE  Spec => OracleSteps
<1>0. PrimeBits \in Nat /\ PrimeBits >= 3
  BY DEF IntsFit
<1>1. Init => Oracle!Init
  BY DEF Init, AHE!CallOf, Oracle!Init
<1>2. IInv /\ Decrypts /\ [Next]_vars
        => [Oracle!Next \/ ~(Regular /\ UnitScalar)']_(Oracle!vars)
  <2> SUFFICES ASSUME IInv, Decrypts, [Next]_vars, Regular', UnitScalar'
               PROVE  [Oracle!Next]_(Oracle!vars)
    BY DEF Oracle!vars
  <2>1. CASE keyGen
    BY <2>1 DEF keyGen, AHE!CallOf, Oracle!vars
  <2>2. ASSUME NEW x \in Numbers, NEW y \in Numbers, Step1(x, y)
        PROVE  Oracle!Next
    <3>1. Oracle!Call(x, y)
      BY <2>2 DEF Step1, AHE!CallOf, Oracle!Call
    <3> QED
      BY <3>1 DEF Oracle!Next
  <2>3. CASE Step2
    BY <2>3 DEF Step2, AHE!CallOf, Oracle!vars
  <2>4. CASE Step3
    <3>1. /\ phase = "step2" /\ phase' = "done" /\ publicKey' = publicKey
          /\ secretKey' = secretKey /\ aliceNumber' = aliceNumber
          /\ bobNumber' = bobNumber /\ aliceCipherText' = aliceCipherText
          /\ bobCipherText' = bobCipherText /\ s' = s /\ res' = res
          /\ verdict' = (Dec(publicKey, secretKey, res) = 0)
      BY <2>4 DEF Step3
    <3> DEFINE n == publicKey.n
    <3>2. Regular /\ Coprime(s, n)
      BY <3>1 DEF Regular, UnitScalar, IsUnit, DistinctPrimes
    <3>3. Dec(publicKey, secretKey, res) =
            Blinded(s, aliceNumber, bobNumber, Word, n)
      BY <1>0, <3>1, <3>2 DEF Decrypts, Encode, Blinded
    <3>4. n \in Nat \ {0} /\ Word <= n /\ Word \in Nat \ {0}
      BY <3>1, ModulusExceedsWord, WordAssumption DEF IInv
    <3>5. /\ aliceNumber \in Int /\ bobNumber \in Int
          /\ aliceNumber - bobNumber < Word /\ bobNumber - aliceNumber < Word
      BY NumbersAssumption DEF IInv, TypeOK, IntsFit
    <3>6. s \in Nat
      <4>1. s \in ScalarRandom(n) /\ phase # "nokey"
        BY <3>1 DEF IInv, BobAnswers
      <4> QED
        BY <4>1, KeyTyped DEF IInv
    <3> HIDE DEF n
    <3>7. Blinded(s, aliceNumber, bobNumber, Word, n) = 0
            <=> aliceNumber = bobNumber
      BY <3>2, <3>4, <3>5, <3>6, DifferenceSeen
    <3>8. verdict' = (aliceNumber = bobNumber)
      BY <3>1, <3>3, <3>7
    <3>9. Oracle!Answer
      BY <3>1, <3>8 DEF AHE!CallOf, Oracle!Answer
    <3> QED
      BY <3>9 DEF Oracle!Next
  <2>5. CASE Return
    <3>1. Oracle!Return
      BY <2>5 DEF Return, AHE!CallOf, Oracle!Return
    <3> QED
      BY <3>1 DEF Oracle!Next
  <2>6. CASE UNCHANGED vars
    BY <2>6 DEF vars, AHE!CallOf, Oracle!vars
  <2> QED
    BY <2>1, <2>2, <2>3, <2>4, <2>5, <2>6 DEF Next
<1> QED
  BY <1>1, <1>2, Invariance, DecryptsInvariant, PTL DEF Spec, OracleSteps

(***************************************************************************)
(* Add, Sub and Scalar_Mul in any sequence: HomomorphicCalc on the keys    *)
(* KeyGen makes from two different primes, on encryptions under invertible *)
(* random numbers, with any plaintext and any scalar.                      *)
(***************************************************************************)
VARIABLES pair, held, plain      \* its key, ciphertext and plaintext

PairOf(p, q) == [pk |-> PublicKey(p, q), sk |-> SecretKey(p, q), M |-> p * q]
Pairs == {PairOf(pq[1], pq[2]) : pq \in {pq \in KeyPrimes : pq[1] # pq[2]}}
AnyScalar(k) == Nat
FreshUnit(k, x) == {Enc(k.pk, x, r) : r \in {r \in Nat : Coprime(r, k.M)}}
PairAdd(k, c, d) == Add(k.pk, c, d)
PairSub(k, c, d) == Sub(k.pk, c, d)
PairMul(k, x, c) == Scalar_Mul(k.pk, x, c)
PairReads(k, c, x) == Dec(k.pk, k.sk, c) = x

Calc == INSTANCE HomomorphicCalc
          WITH Keys <- Pairs, FreshPlain <- Nat, Scalars <- AnyScalar,
               Fresh <- FreshUnit, AddOp <- PairAdd, SubOp <- PairSub,
               MulOp <- PairMul, Reads <- PairReads,
               key <- pair, c <- held, m <- plain

(* A unit that carries the plaintext x, times lambda, modulo n.            *)
Holds(p, q, c, x) ==
  LET n == p * q  l == (p - 1) * (q - 1)
  IN  /\ c \in Nat /\ Coprime(c, n)
      /\ \E u \in Int : Carries(c, u, l, n) /\ Congruent(u, x * l, n)

CalcInv ==
  /\ plain \in Nat
  /\ \E pq \in KeyPrimes : /\ pq[1] # pq[2]
                           /\ pair = PairOf(pq[1], pq[2])
                           /\ Holds(pq[1], pq[2], held, plain)

LEMMA AddCarries ==
  ASSUME NEW n \in Nat \ {0}, NEW l \in Nat, NEW e \in Nat,
         NEW c \in Nat, NEW u \in Int, Carries(c, u, l, n),
         NEW d \in Nat, NEW v \in Int, Carries(d, v, l, n),
         Congruent(e, c * d, n * n)
  PROVE  Carries(e, u + v, l, n)
<1> DEFINE N == n * n  C == Power(c, l)  D == Power(d, l)  w == c * d  t == u * v
           fu == 1 + n * u  fv == 1 + n * v  h == 1 + n * (u + v)
<1>1. N \in Nat \ {0} /\ c \in Int /\ d \in Int /\ w \in Int /\ t \in Int /\ e \in Int
      /\ fu \in Int /\ fv \in Int /\ h \in Int
  OBVIOUS
<1>2. fu * fv = h + N * t
  OBVIOUS
<1>3. Congruent(C, fu, N) /\ Congruent(D, fv, N)
  BY DEF Carries
<1>4. C \in Int /\ D \in Int
  BY <1>1, PowerDef
<1>5. Power(w, l) = C * D
  BY <1>1, PowerMul
<1>6. Congruent(e, w, N)
  OBVIOUS
<1> HIDE DEF N, C, D, w, t, fu, fv, h
<1>7. Congruent(Power(e, l), C * D, N)
  BY <1>1, <1>5, <1>6, CongruentPower
<1>8. Congruent(C * D, fu * fv, N)
  BY <1>1, <1>3, <1>4, CongruentMul
<1>9. Congruent(fu * fv, h, N)
  <2>1. fu * fv \in Int
    BY <1>1
  <2> QED
    BY <1>1, <1>2, <2>1, CongruentMultiple
<1>10. Congruent(Power(e, l), h, N)
  BY <1>7, <1>8, <1>9, CongruentEquivalence
<1> QED
  BY <1>10 DEF Carries, N, h

(* The facts about a key that the operations use.                          *)
LEMMA PairFacts ==
  ASSUME NEW p \in Nat, IsPrime(p), NEW q \in Nat, IsPrime(q)
  PROVE  LET n == p * q  l == (p - 1) * (q - 1)
         IN  /\ n \in Nat \ {0} /\ n > 1 /\ l \in Nat /\ l \in Int
             /\ PairOf(p, q).pk = [n |-> n, g |-> n + 1] /\ PairOf(p, q).pk.n = n
             /\ PairOf(p, q).sk = SecretKey(p, q) /\ PairOf(p, q).M = n
             /\ n * n \in Nat \ {0}
             /\ \A c \in Nat : Coprime(c, n * n) <=> Coprime(c, n)
<1> DEFINE n == p * q  l == (p - 1) * (q - 1)
<1>1. n \in Nat \ {0} /\ n > 1 /\ l \in Nat \ {0}
      /\ PublicKey(p, q) = [n |-> n, g |-> n + 1]
  BY KeyParts
<1>2. PairOf(p, q) = [pk |-> PublicKey(p, q), sk |-> SecretKey(p, q), M |-> n]
  BY DEF PairOf
<1> HIDE DEF n, l
<1>3. n * n \in Nat \ {0} /\ l \in Nat /\ l \in Int
  BY <1>1
<1>4. \A c \in Nat : Coprime(c, n * n) <=> Coprime(c, n)
  BY <1>1, CoprimeProduct
<1> QED
  BY <1>1, <1>2, <1>3, <1>4 DEF n, l

LEMMA FreshHolds ==
  ASSUME NEW p \in Nat, IsPrime(p), NEW q \in Nat, IsPrime(q), p # q,
         NEW x \in Nat, NEW c \in FreshUnit(PairOf(p, q), x)
  PROVE  Holds(p, q, c, x)
<1> DEFINE n == p * q  l == (p - 1) * (q - 1)  g == n + 1
<1>1. /\ n \in Nat \ {0} /\ l \in Nat /\ l \in Int
      /\ PairOf(p, q).pk = [n |-> n, g |-> g]
      /\ PairOf(p, q).M = n
  BY PairFacts
<1>2. PICK r \in Nat : Coprime(r, n) /\ c = Enc([n |-> n, g |-> g], x, r)
  BY <1>1 DEF FreshUnit
<1>3. Congruent(Power(r, n * l), 1, n * n)
  BY <1>2, RandomVanishes
<1> HIDE DEF n, l
<1>4. c \in Nat /\ Carries(c, x * l, l, n)
  <2>1. Carries(Enc([n |-> n, g |-> n + 1], x, r), x * l, l, n)
    BY <1>1, <1>2, <1>3, EncCarries
  <2>2. Enc([n |-> n, g |-> n + 1], x, r) \in Nat
    <3>1. n + 1 \in Nat
      BY <1>1
    <3> QED
      BY <1>1, <1>2, <3>1, EncCongruent
  <2> QED
    BY <1>2, <2>1, <2>2
<1>5. x * l \in Int /\ Congruent(x * l, x * l, n)
  BY <1>1, CongruentEquivalence
<1>6. Coprime(c, n)
  <2> DEFINE G == Power(g, x)  R == Power(r, n)
  <2>1. g \in Nat /\ g \in Int /\ n \in Nat /\ 1 \in Nat
    BY <1>1
  <2>2. Congruent(c, G * R, n * n)
    BY <1>1, <1>2, <2>1, EncCongruent
  <2>3. Coprime(g, n)
    <3>1. Congruent(g, 1, n)
      <4>1. 1 \in Int /\ g = 1 + n * 1
        BY <1>1
      <4> QED
        BY <1>1, <2>1, <4>1, CongruentMultiple
    <3> HIDE DEF g
    <3> QED
      BY <1>1, <2>1, <3>1, CoprimeOne, CoprimeCongruent
  <2> HIDE DEF g
  <2>4. G \in Nat /\ R \in Nat /\ Coprime(G, n) /\ Coprime(R, n)
    BY <1>1, <1>2, <2>1, <2>3, PowerNatural, UnitPower
  <2> HIDE DEF G, R
  <2>5. G * R \in Nat /\ G * R \in Int /\ c \in Int /\ Coprime(G * R, n)
    <3>1. G * R \in Nat /\ G * R \in Int /\ c \in Int
      BY <1>4, <2>4
    <3>2. Coprime(G * R, n)
      BY <1>1, <2>4, CoprimeMul
    <3> QED
      BY <3>1, <3>2
  <2>6. Congruent(c, G * R, n)
    BY <1>1, <2>2, <2>5, CongruentFactor
  <2> QED
    BY <1>1, <1>4, <2>5, <2>6, CoprimeCongruent
<1> QED
  BY <1>4, <1>5, <1>6 DEF Holds, n, l

LEMMA AddHolds ==
  ASSUME NEW p \in Nat, IsPrime(p), NEW q \in Nat, IsPrime(q),
         NEW x \in Int, NEW y \in Int, NEW c, NEW d, Holds(p, q, c, x), Holds(p, q, d, y)
  PROVE  Holds(p, q, PairAdd(PairOf(p, q), c, d), x + y)
<1> DEFINE n == p * q  l == (p - 1) * (q - 1)  N == n * n  e == mod_mul(c, d, N)
<1>1. /\ n \in Nat \ {0} /\ l \in Nat /\ l \in Int /\ PairOf(p, q).pk.n = n
      /\ N \in Nat \ {0} /\ \A z \in Nat : Coprime(z, N) <=> Coprime(z, n)
  BY PairFacts
<1>2. PairAdd(PairOf(p, q), c, d) = e
  BY <1>1 DEF PairAdd, Add, n_2
<1>3. c \in Nat /\ Coprime(c, n) /\ d \in Nat /\ Coprime(d, n)
  BY DEF Holds
<1>4. PICK u \in Int : Carries(c, u, l, n) /\ Congruent(u, x * l, n)
  BY DEF Holds
<1>5. PICK v \in Int : Carries(d, v, l, n) /\ Congruent(v, y * l, n)
  BY DEF Holds
<1> HIDE DEF n, l
<1>6. e \in Nat /\ Coprime(e, N) /\ Congruent(e, c * d, N)
  <2> HIDE DEF N
  <2> QED
    BY <1>1, <1>3, UnitProduct
<1> HIDE DEF e
<1>7. Carries(e, u + v, l, n)
  BY <1>1, <1>3, <1>4, <1>5, <1>6, AddCarries
<1>8. x * l \in Int /\ y * l \in Int /\ u + v \in Int
      /\ (x + y) * l = (x * l) + (y * l)
  BY <1>1
<1>9. Congruent(u + v, (x * l) + (y * l), n)
  BY <1>1, <1>4, <1>5, <1>8, CongruentAdd
<1>10. Congruent(u + v, (x + y) * l, n)
  BY <1>8, <1>9
<1>11. Coprime(e, n)
  BY <1>1, <1>6
<1> QED
  BY <1>2, <1>6, <1>7, <1>8, <1>10, <1>11 DEF Holds, n, l

LEMMA SubHolds ==
  ASSUME NEW p \in Nat, IsPrime(p), NEW q \in Nat, IsPrime(q),
         NEW x \in Int, NEW y \in Int, NEW c, NEW d, Holds(p, q, c, x), Holds(p, q, d, y)
  PROVE  Holds(p, q, PairSub(PairOf(p, q), c, d), x - y)
<1> DEFINE n == p * q  l == (p - 1) * (q - 1)  N == n * n  pk == PairOf(p, q).pk
           i == mod_inverse(d, N)  e == mod_mul(c, i, N)
<1>1. /\ n \in Nat \ {0} /\ l \in Nat /\ l \in Int /\ pk.n = n
      /\ N \in Nat \ {0} /\ \A z \in Nat : Coprime(z, N) <=> Coprime(z, n)
  BY PairFacts
<1>2. PairSub(PairOf(p, q), c, d) = Sub(pk, c, d) /\ Sub(pk, c, d) = e
  BY <1>1 DEF PairSub, Sub, n_2
<1>3. c \in Nat /\ Coprime(c, n) /\ d \in Nat /\ Coprime(d, n)
  BY DEF Holds
<1>4. PICK u \in Int : Carries(c, u, l, n) /\ Congruent(u, x * l, n)
  BY DEF Holds
<1>5. PICK v \in Int : Carries(d, v, l, n) /\ Congruent(v, y * l, n)
  BY DEF Holds
<1> HIDE DEF n, l, pk
<1>6. e \in Nat /\ Coprime(e, N)
  <2> HIDE DEF N
  <2>1. i \in Nat /\ Coprime(i, N) /\ Coprime(c, N)
    BY <1>1, <1>3, UnitQuotient
  <2> HIDE DEF i
  <2> QED
    BY <1>1, <1>3, <2>1, UnitProduct
<1> HIDE DEF e
<1>7. Carries(e, u - v, l, n)
  BY <1>1, <1>2, <1>3, <1>4, <1>5, SubCarries
<1>8. x * l \in Int /\ y * l \in Int /\ u - v \in Int
      /\ (x - y) * l = (x * l) - (y * l)
  BY <1>1
<1>9. Congruent(u - v, (x * l) - (y * l), n)
  BY <1>1, <1>4, <1>5, <1>8, CongruentSub
<1>10. Congruent(u - v, (x - y) * l, n)
  BY <1>8, <1>9
<1>11. Coprime(e, n)
  BY <1>1, <1>6
<1> QED
  BY <1>2, <1>6, <1>7, <1>8, <1>10, <1>11 DEF Holds, n, l

LEMMA MulHolds ==
  ASSUME NEW p \in Nat, IsPrime(p), NEW q \in Nat, IsPrime(q),
         NEW x \in Int, NEW k \in Nat, NEW c, Holds(p, q, c, x)
  PROVE  Holds(p, q, PairMul(PairOf(p, q), k, c), k * x)
<1> DEFINE n == p * q  l == (p - 1) * (q - 1)  N == n * n  pk == PairOf(p, q).pk
           e == mod_exp(c, k, N)
<1>1. /\ n \in Nat \ {0} /\ l \in Nat /\ l \in Int /\ pk.n = n
      /\ N \in Nat \ {0} /\ \A z \in Nat : Coprime(z, N) <=> Coprime(z, n)
  BY PairFacts
<1>2. PairMul(PairOf(p, q), k, c) = Scalar_Mul(pk, k, c) /\ Scalar_Mul(pk, k, c) = e
  BY <1>1 DEF PairMul, Scalar_Mul, n_2
<1>3. c \in Nat /\ Coprime(c, n)
  BY DEF Holds
<1>4. PICK u \in Int : Carries(c, u, l, n) /\ Congruent(u, x * l, n)
  BY DEF Holds
<1> HIDE DEF n, l, pk
<1>5. e \in Nat /\ Coprime(e, N)
  <2> HIDE DEF N
  <2> QED
    BY <1>1, <1>3, UnitExponent
<1> HIDE DEF e
<1>6. Carries(e, k * u, l, n)
  BY <1>1, <1>2, <1>3, <1>4, ScalarCarries
<1>7. x * l \in Int /\ k * u \in Int /\ (k * x) * l = k * (x * l)
  BY <1>1
<1>8. Congruent(k * u, k * (x * l), n)
  <2> DEFINE w == x * l
  <2>1. w \in Int /\ k \in Int /\ Congruent(u, w, n)
    BY <1>4, <1>7
  <2> HIDE DEF w
  <2>2. Congruent(k * u, k * w, n)
    BY <1>1, <2>1, CongruentScale
  <2> QED
    BY <2>2 DEF w
<1>9. Congruent(k * u, (k * x) * l, n)
  BY <1>7, <1>8
<1>10. Coprime(e, n)
  BY <1>1, <1>5
<1> QED
  BY <1>2, <1>5, <1>6, <1>7, <1>9, <1>10 DEF Holds, n, l

(* The user's reduction of the plaintext changes nothing.                  *)
LEMMA ReducedHolds ==
  ASSUME NEW p \in Nat, IsPrime(p), NEW q \in Nat, IsPrime(q),
         NEW x \in Int, NEW c, Holds(p, q, c, x)
  PROVE  Holds(p, q, c, x % (p * q)) /\ x % (p * q) \in Nat
<1> DEFINE n == p * q  l == (p - 1) * (q - 1)  y == x % n
<1>1. n \in Nat \ {0} /\ l \in Nat /\ l \in Int
  BY PairFacts
<1>2. c \in Nat /\ Coprime(c, n)
  BY DEF Holds
<1>3. PICK u \in Int : Carries(c, u, l, n) /\ Congruent(u, x * l, n)
  BY DEF Holds
<1> HIDE DEF n, l
<1>4. y \in 0..(n - 1) /\ Congruent(y, x, n)
  BY <1>1, CongruentResidue
<1>5. y \in Nat /\ y \in Int
  BY <1>4
<1> HIDE DEF y
<1>6. Congruent(y * l, x * l, n)
  BY <1>1, <1>4, <1>5, CongruentScale
<1>7. Congruent(u, y * l, n)
  BY <1>3, <1>6, CongruentEquivalence
<1> QED
  BY <1>2, <1>3, <1>5, <1>7 DEF Holds, n, l, y

LEMMA HoldsReads ==
  ASSUME NEW p \in Nat, IsPrime(p), NEW q \in Nat, IsPrime(q),
         Coprime((p - 1) * (q - 1), p * q),
         NEW x \in Int, NEW c, Holds(p, q, c, x)
  PROVE  PairReads(PairOf(p, q), c, x % (p * q))
<1> DEFINE n == p * q  l == (p - 1) * (q - 1)  pk == PublicKey(p, q)  sk == SecretKey(p, q)
           mu == sk.mu
<1>1. /\ n \in Nat \ {0} /\ n > 1 /\ l \in Nat \ {0}
      /\ pk = [n |-> n, g |-> n + 1]
      /\ sk.lambda = l /\ mu \in Nat /\ Congruent(l * mu, 1, n)
  BY KeyParts
<1>2. PairReads(PairOf(p, q), c, x % n) <=> Dec(pk, sk, c) = x % n
  BY DEF PairReads, PairOf
<1>3. c \in Nat
  BY DEF Holds
<1>4. PICK u \in Int : Carries(c, u, l, n) /\ Congruent(u, x * l, n)
  BY DEF Holds
<1> HIDE DEF n, l, pk, sk
<1>5. l \in Nat /\ l \in Int /\ mu \in Int /\ pk.n = n /\ 1 \in Int
  BY <1>1
<1>6. Dec(pk, sk, c) = (u * mu) % n
  BY <1>1, <1>3, <1>4, <1>5, DecReads
<1> HIDE DEF mu
<1>7. x * l \in Int /\ l * mu \in Int /\ (x * l) * mu = x * (l * mu) /\ x * 1 = x
  BY <1>5
<1>8. Congruent(u * mu, (x * l) * mu, n)
  BY <1>1, <1>4, <1>5, <1>7, CongruentScale
<1>9. Congruent(x * (l * mu), x * 1, n)
  BY <1>1, <1>5, <1>7, CongruentScale
<1>10. Congruent(u * mu, x, n)
  BY <1>7, <1>8, <1>9, CongruentEquivalence
<1> QED
  BY <1>2, <1>6, <1>10 DEF Congruent, n

(***************************************************************************)
(* Class PAILLIER, for primes of three bits or more: whatever sequence of  *)
(* additions, subtractions and scalar multiplications led to a ciphertext, *)
(* Dec returns the same arithmetic on the plaintexts modulo n.  Without    *)
(* invertible random numbers or different primes this is false: the        *)
(* theorems above on failed inverses say what happens then.                *)
(***************************************************************************)
THEOREM OperationsAgree ==
  ASSUME PrimeBits \in Nat, PrimeBits >= 3
  PROVE  Calc!Spec => []Calc!Homomorphic
<1>0. ASSUME NEW pq \in KeyPrimes, pq[1] # pq[2]
      PROVE  /\ pq[1] \in Nat /\ IsPrime(pq[1]) /\ pq[2] \in Nat /\ IsPrime(pq[2])
             /\ PairOf(pq[1], pq[2]).M = pq[1] * pq[2]
             /\ Coprime((pq[1] - 1) * (pq[2] - 1), pq[1] * pq[2])
  <2>1. pq[1] \in PrimesOfBits(PrimeBits) /\ pq[2] \in PrimesOfBits(PrimeBits)
    BY KeyPrimesAssumption
  <2> DEFINE p == pq[1]  q == pq[2]
  <2>2. Coprime((p - 1) * (q - 1), p * q)
    <3>1. p \in PrimesOfBits(PrimeBits) /\ q \in PrimesOfBits(PrimeBits) /\ p # q
      BY <1>0, <2>1
    <3> HIDE DEF p, q
    <3> QED
      BY <3>1, LambdaInvertible
  <2>3. PrimeBits - 1 \in Nat /\ two_to[PrimeBits - 1] \in Nat /\ two_to[PrimeBits] \in Nat
    BY TwoTo
  <2>4. p \in Nat /\ IsPrime(p) /\ q \in Nat /\ IsPrime(q)
    BY <2>1, <2>3 DEF PrimesOfBits
  <2> QED
    BY <2>2, <2>4 DEF PairOf
<1>1. Calc!Init => CalcInv
  <2> SUFFICES ASSUME Calc!Init PROVE CalcInv
    OBVIOUS
  <2>1. pair \in Pairs /\ plain \in Nat /\ held \in FreshUnit(pair, plain)
    BY DEF Calc!Init
  <2>2. PICK pq \in KeyPrimes : pq[1] # pq[2] /\ pair = PairOf(pq[1], pq[2])
    BY <2>1 DEF Pairs
  <2>3. Holds(pq[1], pq[2], held, plain)
    BY <1>0, <2>1, <2>2, FreshHolds
  <2> QED
    BY <2>1, <2>2, <2>3 DEF CalcInv
<1>2. CalcInv /\ [Calc!Next]_(Calc!vars) => CalcInv'
  <2> SUFFICES ASSUME CalcInv, [Calc!Next]_(Calc!vars) PROVE CalcInv'
    OBVIOUS
  <2>1. PICK pq \in KeyPrimes : /\ pq[1] # pq[2] /\ pair = PairOf(pq[1], pq[2])
                                /\ Holds(pq[1], pq[2], held, plain)
    BY DEF CalcInv
  <2> DEFINE p == pq[1]  q == pq[2]  n == p * q
  <2>2. p \in Nat /\ IsPrime(p) /\ q \in Nat /\ IsPrime(q) /\ p # q
        /\ pair.M = n /\ pair = PairOf(p, q) /\ Holds(p, q, held, plain)
    BY <1>0, <2>1
  <2>3. plain \in Nat /\ plain \in Int
    BY DEF CalcInv
  <2>4. ASSUME NEW x \in Int, pair' = pair, plain' = x % n, Holds(p, q, held', x)
        PROVE  CalcInv'
    <3> HIDE DEF p, q
    <3>1. Holds(p, q, held', plain') /\ plain' \in Nat
      BY <2>2, <2>4, ReducedHolds
    <3> QED
      BY <2>1, <2>2, <2>4, <3>1 DEF CalcInv, p, q
  <2>5. ASSUME NEW y \in Nat, Calc!Add(y) PROVE CalcInv'
    <3> HIDE DEF p, q
    <3>1. PICK d \in FreshUnit(pair, y) : held' = PairAdd(pair, held, d)
      BY <2>5 DEF Calc!Add
    <3>2. Holds(p, q, d, y) /\ y \in Int
      BY <2>2, <3>1, FreshHolds
    <3>3. Holds(p, q, held', plain + y) /\ plain + y \in Int
      BY <2>2, <2>3, <3>1, <3>2, AddHolds
    <3>4. pair' = pair /\ plain' = (plain + y) % n
      BY <2>2, <2>5 DEF Calc!Add
    <3> QED
      BY <2>4, <3>3, <3>4
  <2>6. ASSUME NEW y \in Nat, Calc!Sub(y) PROVE CalcInv'
    <3> HIDE DEF p, q
    <3>1. PICK d \in FreshUnit(pair, y) : held' = PairSub(pair, held, d)
      BY <2>6 DEF Calc!Sub
    <3>2. Holds(p, q, d, y) /\ y \in Int
      BY <2>2, <3>1, FreshHolds
    <3>3. Holds(p, q, held', plain - y) /\ plain - y \in Int
      BY <2>2, <2>3, <3>1, <3>2, SubHolds
    <3>4. pair' = pair /\ plain' = (plain - y) % n
      BY <2>2, <2>6 DEF Calc!Sub
    <3> QED
      BY <2>4, <3>3, <3>4
  <2>7. CASE Calc!Double
    <3> HIDE DEF p, q
    <3>1. held' = PairAdd(pair, held, held) /\ pair' = pair
          /\ plain' = (2 * plain) % n
      BY <2>2, <2>7 DEF Calc!Double
    <3>2. plain + plain = 2 * plain /\ 2 * plain \in Int
      BY <2>3
    <3>3. Holds(p, q, held', 2 * plain)
      BY <2>2, <2>3, <3>1, <3>2, AddHolds
    <3> QED
      BY <2>4, <3>1, <3>2, <3>3
  <2>8. CASE Calc!Cancel
    <3> HIDE DEF p, q
    <3>1. held' = PairSub(pair, held, held) /\ pair' = pair /\ plain' = 0
      BY <2>8 DEF Calc!Cancel
    <3>2. plain - plain = 0 /\ 0 \in Int
      BY <2>3
    <3>3. Holds(p, q, held', 0)
      BY <2>2, <2>3, <3>1, <3>2, SubHolds
    <3> QED
      BY <2>1, <3>1, <3>3 DEF CalcInv, p, q
  <2>9. ASSUME NEW k \in AnyScalar(pair), Calc!Scalar_Mul(k) PROVE CalcInv'
    <3> HIDE DEF p, q
    <3>1. held' = PairMul(pair, k, held) /\ pair' = pair /\ plain' = (k * plain) % n
          /\ k \in Nat
      BY <2>2, <2>9 DEF Calc!Scalar_Mul, AnyScalar
    <3>2. k * plain \in Int
      BY <2>3, <3>1
    <3>3. Holds(p, q, held', k * plain)
      BY <2>2, <2>3, <3>1, MulHolds
    <3> QED
      BY <2>4, <3>1, <3>2, <3>3
  <2>10. CASE UNCHANGED Calc!vars
    BY <2>10 DEF Calc!vars, CalcInv
  <2> QED
    BY <2>5, <2>6, <2>7, <2>8, <2>9, <2>10 DEF Calc!Next
<1>3. CalcInv => Calc!Homomorphic
  <2> SUFFICES ASSUME CalcInv PROVE Calc!Homomorphic
    OBVIOUS
  <2>1. PICK pq \in KeyPrimes : /\ pq[1] # pq[2] /\ pair = PairOf(pq[1], pq[2])
                                /\ Holds(pq[1], pq[2], held, plain)
    BY DEF CalcInv
  <2>2. plain \in Int
    BY DEF CalcInv
  <2>3. PairReads(pair, held, plain % pair.M)
    BY <1>0, <2>1, <2>2, HoldsReads
  <2> QED
    BY <2>3 DEF Calc!Homomorphic
<1> QED
  BY <1>1, <1>2, <1>3, PTL DEF Calc!Spec
=============================================================================
