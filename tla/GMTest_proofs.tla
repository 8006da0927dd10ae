---------------------------- MODULE GMTest_proofs ----------------------------
(***************************************************************************)
(* The Goldwasser-Micali tester, for primes of any size, numbers of any    *)
(* length, any g that KeyGen accepts, any random numbers and any shuffle:  *)
(* it never accepts different numbers, Alice sees their Hamming distance,  *)
(* and with an invertible g it implements the equality oracle.             *)
(*                                                                         *)
(* The argument is Euler's criterion: raised to (s-1)/2 modulo a prime s   *)
(* of the key, the random number of a ciphertext becomes 1, and a g that   *)
(* was multiplied in once does not.                                        *)
(***************************************************************************)
EXTENDS GMTest, ModLemmas, FiniteSetTheorems

(* The exponents of KeyGen and of Dec are the same half of s - 1, because  *)
(* a g that KeyGen accepts exists for odd primes only.                     *)
LEMMA PrimeHalf ==
  ASSUME NEW s \in Nat, IsPrime(s), NEW g \in Nat,
         mod_exp(g, div(s - 1, 2), s) # 1
  PROVE  /\ div(s, 2) \in Nat
         /\ div(s - 1, 2) = div(s, 2)
         /\ s - 1 = div(s, 2) + div(s, 2)
<1>0. s > 1 /\ s \in Nat \ {0}
  BY DEF IsPrime
<1>1. s # 2
  <2> SUFFICES ASSUME s = 2 PROVE FALSE
    OBVIOUS
  <2>1. div(s - 1, 2) = 0
    BY DEF div
  <2>2. mod_exp(g, 0, s) = Power(g, 0) % s
    <3>1. 0 \in Nat /\ g \in Int
      OBVIOUS
    <3> QED
      BY <1>0, <3>1, ModExp
  <2>3. Power(g, 0) = 1
    BY PowerDef
  <2>4. 1 % s = 1
    OBVIOUS
  <2> QED
    BY <2>1, <2>2, <2>3, <2>4
<1>2. s % 2 # 0
  <2>1. 2 \in 2..(s - 1)
    BY <1>0, <1>1
  <2> QED
    BY <2>1 DEF IsPrime
<1>3. div(s, 2) = s \div 2 /\ div(s - 1, 2) = (s - 1) \div 2
  BY <1>0 DEF div
<1>4. s = 2 * (s \div 2) + 1
  BY <1>2
<1>5. (s - 1) \div 2 = s \div 2
  BY <1>4
<1> QED
  BY <1>3, <1>4, <1>5

(* Euler's criterion for the square of a unit.                             *)
LEMMA EulerSquare ==
  ASSUME NEW s \in Nat, IsPrime(s), NEW h \in Nat, s - 1 = h + h,
         NEW r \in Nat, Coprime(r, s)
  PROVE  Congruent(Power(r * r, h), 1, s)
<1>1. Congruent(Power(r, s - 1), 1, s)
  BY Fermat
<1>2. r \in Int
  OBVIOUS
<1>3. Power(r, h + h) = Power(r, h) * Power(r, h)
  BY <1>2, PowerAdd
<1>4. Power(r * r, h) = Power(r, h) * Power(r, h)
  BY <1>2, PowerMul
<1> QED
  BY <1>1, <1>3, <1>4

(* A ciphertext is a square, times g for a bit that is set.                *)
Marked(bit, g) == IF bit THEN g ELSE 1

LEMMA EncCongruent ==
  ASSUME NEW n \in Nat \ {0}, NEW g \in Nat, NEW b \in BOOLEAN, NEW r \in Nat
  PROVE  /\ Enc([n |-> n, g |-> g], b, r) \in Nat
         /\ Congruent(Enc([n |-> n, g |-> g], b, r), Marked(b, g) * (r * r), n)
<1> DEFINE pk == [n |-> n, g |-> g]  u == r * r  e == mod_exp(r, 2, n)
<1>1. pk.n = n /\ pk.g = g
  OBVIOUS
<1>2. u \in Int /\ g \in Int /\ r \in Int
  OBVIOUS
<1>3. Power(r, 2) = u
  <2>1. Power(r, 1 + 1) = r * Power(r, 1) /\ Power(r, 1) = r
    BY <1>2, PowerDef, PowerOne
  <2> QED
    BY <2>1
<1>4. e = u % n
  <2>1. mod_exp(r, 2, n) = Power(r, 2) % n
    BY <1>2, ModExp
  <2> QED
    BY <1>3, <2>1
<1>5. Enc(pk, b, r) = IF b THEN mod_mul(g, e, n) ELSE e
  BY <1>1 DEF Enc
<1> HIDE DEF pk, u, e
<1>6. e \in 0..(n - 1) /\ Congruent(e, u, n)
  BY <1>2, <1>4, CongruentResidue
<1>7. CASE b
  <2> DEFINE v == g * e
  <2>0. e \in Int
    BY <1>6
  <2>1. v \in Int
    BY <1>2, <2>0
  <2>2. mod_mul(g, e, n) = v % n
    BY <1>2, <2>0, ModMulIsProduct
  <2>3. Congruent(v, g * u, n)
    BY <1>2, <1>6, <2>0, CongruentScale, Zenon
  <2> HIDE DEF v
  <2>4. v % n \in 0..(n - 1) /\ Congruent(v % n, v, n)
    BY <2>1, CongruentResidue
  <2>5. Congruent(v % n, g * u, n)
    BY <2>3, <2>4, CongruentEquivalence
  <2>6. Enc(pk, b, r) = v % n /\ Marked(b, g) = g
    BY <1>5, <1>7, <2>2 DEF Marked
  <2>7. Enc(pk, b, r) \in Nat /\ Congruent(Enc(pk, b, r), Marked(b, g) * u, n)
    BY <2>4, <2>5, <2>6
  <2> QED
    BY <2>7 DEF pk, u
<1>8. CASE ~b
  <2>1. 1 * u = u
    BY <1>2
  <2> QED
    BY <1>5, <1>6, <1>8, <2>1 DEF Marked, pk, u
<1> QED
  BY <1>7, <1>8

(* The power of a product of two ciphertexts modulo a prime factor of n:   *)
(* the random numbers vanish.                                              *)
LEMMA ProductPower ==
  ASSUME NEW s \in Nat, IsPrime(s), NEW h \in Nat, s - 1 = h + h,
         NEW a1 \in Int, NEW a2 \in Int,
         NEW r1 \in Nat, Coprime(r1, s), NEW r2 \in Nat, Coprime(r2, s),
         NEW c \in Int, Congruent(c, (a1 * (r1 * r1)) * (a2 * (r2 * r2)), s)
  PROVE  Congruent(Power(c, h), Power(a1 * a2, h), s)
<1> DEFINE u1 == r1 * r1  u2 == r2 * r2  x == a1 * u1  y == a2 * u2
           A1 == Power(a1, h)  A2 == Power(a2, h)
           U1 == Power(u1, h)  U2 == Power(u2, h)
<1>0. s \in Nat \ {0}
  BY DEF IsPrime
<1>1. u1 \in Int /\ u2 \in Int
  OBVIOUS
<1>2. Congruent(U1, 1, s) /\ Congruent(U2, 1, s)
  BY EulerSquare
<1>3. Congruent(c, x * y, s)
  OBVIOUS
<1> HIDE DEF u1, u2
<1>4. x \in Int /\ y \in Int /\ x * y \in Int
  BY <1>1
<1>5. A1 \in Int /\ A2 \in Int /\ U1 \in Int /\ U2 \in Int
  BY <1>1, PowerDef
<1>6. Power(x, h) = A1 * U1 /\ Power(y, h) = A2 * U2
  <2>1. Power(a1 * u1, h) = Power(a1, h) * Power(u1, h)
    BY <1>1, PowerMul
  <2>2. Power(a2 * u2, h) = Power(a2, h) * Power(u2, h)
    BY <1>1, PowerMul
  <2> QED
    BY <2>1, <2>2
<1>7. Power(a1 * a2, h) = A1 * A2
  BY PowerMul
<1> HIDE DEF x, y, A1, A2, U1, U2
<1>8. Power(x * y, h) = (A1 * U1) * (A2 * U2)
  BY <1>4, <1>6, PowerMul
<1>9. Congruent(Power(c, h), Power(x * y, h), s)
  BY <1>0, <1>3, <1>4, CongruentPower
<1>10. Congruent(A1 * U1, A1 * 1, s) /\ Congruent(A2 * U2, A2 * 1, s)
  <2>1. 1 \in Int
    OBVIOUS
  <2> QED
    BY <1>0, <1>2, <1>5, <2>1, CongruentScale, Zenon
<1>11. A1 * 1 = A1 /\ A2 * 1 = A2 /\ A1 * U1 \in Int /\ A2 * U2 \in Int
  BY <1>5
<1>12. Congruent((A1 * U1) * (A2 * U2), A1 * A2, s)
  BY <1>0, <1>5, <1>10, <1>11, CongruentMul
<1> QED
  BY <1>7, <1>8, <1>9, <1>12, CongruentEquivalence

(* What Dec finds out modulo one prime about the product of two            *)
(* ciphertexts: a g multiplied in once is seen, two of them are not.       *)
LEMMA FactorTest ==
  ASSUME NEW s \in Nat, IsPrime(s), NEW g \in Nat,
         mod_exp(g, div(s - 1, 2), s) # 1,
         NEW b1 \in BOOLEAN, NEW b2 \in BOOLEAN,
         NEW r1 \in Nat, Coprime(r1, s), NEW r2 \in Nat, Coprime(r2, s),
         NEW c \in Nat,
         Congruent(c, (Marked(b1, g) * (r1 * r1)) * (Marked(b2, g) * (r2 * r2)), s)
  PROVE  /\ b1 # b2 => mod_exp(c, div(s, 2), s) # 1
         /\ b1 = b2 /\ (b1 => Coprime(g, s)) => mod_exp(c, div(s, 2), s) = 1
         /\ b1 /\ b2 /\ ~Coprime(g, s) => mod_exp(c, div(s, 2), s) # 1
<1> DEFINE h == div(s, 2)  a1 == Marked(b1, g)  a2 == Marked(b2, g)
<1>1. h \in Nat /\ div(s - 1, 2) = h /\ s - 1 = h + h
  BY PrimeHalf
<1>2. s \in Nat \ {0} /\ s > 1 /\ c \in Int /\ g \in Int
  BY DEF IsPrime
<1>3. a1 \in Int /\ a2 \in Int /\ a1 * a2 \in Int
  BY DEF Marked
<1>4. Congruent(Power(c, h), Power(a1 * a2, h), s)
  <2> HIDE DEF h, a1, a2
  <2> QED
    BY <1>1, <1>2, <1>3, ProductPower DEF a1, a2
<1>5. mod_exp(c, h, s) = Power(a1 * a2, h) % s
  <2> HIDE DEF h, a1, a2
  <2>1. mod_exp(c, h, s) = Power(c, h) % s
    BY <1>1, <1>2, ModExp
  <2> QED
    BY <1>4, <2>1 DEF Congruent
<1>6. mod_exp(g, h, s) # 1 /\ mod_exp(g, h, s) = Power(g, h) % s
  <2> HIDE DEF h
  <2> QED
    BY <1>1, <1>2, ModExp
<1>7. 1 % s = 1
  BY <1>2
<1>8. CASE b1 # b2
  <2>1. a1 * a2 = g
    BY <1>8 DEF Marked
  <2> HIDE DEF h, a1, a2
  <2> QED
    BY <1>5, <1>6, <1>8, <2>1 DEF h
<1>9. CASE b1 = b2 /\ b1 /\ Coprime(g, s)
  <2>1. a1 * a2 = g * g
    BY <1>9 DEF Marked
  <2> HIDE DEF h, a1, a2
  <2>2. Congruent(Power(g * g, h), 1, s)
    BY <1>1, <1>9, EulerSquare
  <2>3. mod_exp(c, h, s) = 1
    BY <1>5, <1>7, <2>1, <2>2 DEF Congruent
  <2> QED
    BY <1>9, <2>3 DEF h
<1>10. CASE b1 = b2 /\ ~b1
  <2>1. a1 * a2 = 1
    BY <1>10 DEF Marked
  <2> HIDE DEF h, a1, a2
  <2>2. Power(1, h) = 1
    BY <1>1, PowerOfOne
  <2>3. mod_exp(c, h, s) = 1
    BY <1>5, <1>7, <2>1, <2>2
  <2> QED
    BY <1>10, <2>3 DEF h
<1>11. CASE b1 /\ b2 /\ ~Coprime(g, s)
  <2>1. a1 * a2 = g * g /\ g * g \in Nat
    BY <1>11 DEF Marked
  <2>2. h # 0
    BY <1>1, <1>2
  <2> HIDE DEF h, a1, a2
  <2>3. ~Coprime(g * g, s)
    BY <1>2, <1>11, CoprimeMul
  <2> DEFINE G == g * g  P == Power(G, h)
  <2>4. G \in Nat /\ ~Coprime(G, s) /\ h \in Nat \ {0}
    BY <1>1, <2>1, <2>2, <2>3
  <2> HIDE DEF G
  <2>5. P \in Nat /\ ~Coprime(P, s)
    BY <1>1, <1>2, <2>4, UnitPower, PowerNatural
  <2>6. P % s = 0
    BY <2>5, PrimeCoprime
  <2>7. mod_exp(c, h, s) = 0
    BY <1>5, <2>1, <2>6 DEF G
  <2> QED
    BY <1>11, <2>7 DEF h
<1> QED
  BY <1>8, <1>9, <1>10, <1>11

(* The product of two ciphertexts decrypts to the exclusive or of the two  *)
(* bits.  Only two bits that are both set need an invertible g; with       *)
(* another one their product decrypts to a one.                            *)
LEMMA XorDecrypts ==
  ASSUME NEW p \in Nat, IsPrime(p), NEW q \in Nat, IsPrime(q), NEW g \in Nat,
         UsableG(p, q, g),
         NEW b1 \in BOOLEAN, NEW b2 \in BOOLEAN,
         NEW r1 \in Nat, Coprime(r1, p * q), NEW r2 \in Nat, Coprime(r2, p * q)
  PROVE  LET pk == PublicKey(p, q, g)
             d == Dec(SecretKey(p, q), XOR(pk, Enc(pk, b1, r1), Enc(pk, b2, r2)))
         IN  /\ b1 # b2 => d
             /\ b1 = b2 /\ (b1 => Coprime(g, p * q)) => ~d
             /\ b1 /\ b2 /\ ~Coprime(g, p * q) => d
<1> DEFINE n == p * q  pk == PublicKey(p, q, g)
           e1 == Enc(pk, b1, r1)  e2 == Enc(pk, b2, r2)
           x1 == Marked(b1, g) * (r1 * r1)  x2 == Marked(b2, g) * (r2 * r2)
           v == e1 * e2  c == v % n
<1>1. p \in Nat \ {0} /\ q \in Nat \ {0} /\ n \in Nat \ {0} /\ q * p = n
  BY DEF IsPrime
<1>2. pk = [n |-> n, g |-> g]
  BY DEF PublicKey
<1>3. /\ e1 \in Nat /\ Congruent(e1, x1, n)
      /\ e2 \in Nat /\ Congruent(e2, x2, n)
  <2> HIDE DEF n, pk
  <2> QED
    BY <1>1, <1>2, EncCongruent
<1>4. x1 \in Int /\ x2 \in Int
  BY DEF Marked
<1>5. XOR(pk, e1, e2) = mod_mul(e1, e2, n)
  BY <1>2 DEF XOR
<1> HIDE DEF n, pk, e1, e2, x1, x2
<1>6. v \in Int /\ e1 \in Int /\ e2 \in Int /\ x1 * x2 \in Int
  BY <1>3, <1>4
<1>7. Congruent(v, x1 * x2, n)
  BY <1>1, <1>3, <1>4, <1>6, CongruentMul
<1>8. XOR(pk, e1, e2) = c
  BY <1>1, <1>5, <1>6, ModMulIsProduct
<1> HIDE DEF v
<1>9. c \in 0..(n - 1) /\ Congruent(c, v, n)
  BY <1>1, <1>6, CongruentResidue
<1> HIDE DEF c
<1>10. c \in Nat /\ c \in Int
  BY <1>9
<1>11. Congruent(c, x1 * x2, n)
  BY <1>7, <1>9, CongruentEquivalence
<1>12. Congruent(c, x1 * x2, p) /\ Congruent(c, x1 * x2, q)
  BY <1>1, <1>6, <1>10, <1>11, CongruentFactor DEF n
<1>13. /\ Coprime(r1, p) /\ Coprime(r1, q) /\ Coprime(r2, p) /\ Coprime(r2, q)
       /\ Coprime(g, p * q) <=> Coprime(g, p) /\ Coprime(g, q)
  BY <1>1, CoprimeProduct
<1>14. mod_exp(g, div(p - 1, 2), p) # 1 /\ mod_exp(g, div(q - 1, 2), q) # 1
  BY DEF UsableG
<1>15. /\ b1 # b2 => mod_exp(c, div(p, 2), p) # 1
       /\ b1 = b2 /\ (b1 => Coprime(g, p)) => mod_exp(c, div(p, 2), p) = 1
       /\ b1 /\ b2 /\ ~Coprime(g, p) => mod_exp(c, div(p, 2), p) # 1
  BY <1>10, <1>12, <1>13, <1>14, FactorTest DEF x1, x2
<1>16. /\ b1 = b2 /\ (b1 => Coprime(g, q)) => mod_exp(c, div(q, 2), q) = 1
       /\ b1 /\ b2 /\ ~Coprime(g, q) => mod_exp(c, div(q, 2), q) # 1
  BY <1>10, <1>12, <1>13, <1>14, FactorTest DEF x1, x2
<1>17. Dec(SecretKey(p, q), c) <=>
         ~ (mod_exp(c, div(p, 2), p) = 1 /\ mod_exp(c, div(q, 2), q) = 1)
  BY DEF Dec, SecretKey
<1>18. /\ b1 # b2 => Dec(SecretKey(p, q), c)
       /\ b1 = b2 /\ (b1 => Coprime(g, p * q)) => ~Dec(SecretKey(p, q), c)
       /\ b1 /\ b2 /\ ~Coprime(g, p * q) => Dec(SecretKey(p, q), c)
  BY <1>13, <1>15, <1>16, <1>17
<1> QED
  BY <1>8, <1>18 DEF pk, e1, e2

----------------------------------------------------------------------------

(* The quotients by the highest power of two are -1 and 0.                 *)
LEMMA TopQuotient ==
  ASSUME NEW T \in Nat \ {0}, NEW z \in (-T)..(T - 1)
  PROVE  z \div T = IF z < 0 THEN -1 ELSE 0
<1>1. CASE z < 0
  <2>1. -1 \in Int /\ z + T \in 0..(T - 1) /\ z = T * (-1) + (z + T)
    BY <1>1
  <2>2. z \in Int
    OBVIOUS
  <2> DEFINE b == -1  r == z + T
  <2> HIDE DEF b, r
  <2>3. z \div T = b
    BY <2>1, <2>2, QuotientUnique DEF b, r
  <2> QED
    BY <1>1, <2>3 DEF b
<1>2. CASE z >= 0
  <2>1. 0 \in Int /\ z \in 0..(T - 1) /\ z = T * 0 + z
    BY <1>2
  <2>2. z \in Int
    OBVIOUS
  <2> DEFINE b == 0
  <2> HIDE DEF b
  <2>3. z \div T = b
    BY <2>1, <2>2, QuotientUnique DEF b
  <2> QED
    BY <1>2, <2>3 DEF b
<1> QED
  BY <1>1, <1>2

(* BinSize bits in two's complement tell the numbers of their range apart. *)
LEMMA BitsInjective ==
  ASSUME NEW x \in -two_to[BinSize - 1]..(two_to[BinSize - 1] - 1),
         NEW y \in -two_to[BinSize - 1]..(two_to[BinSize - 1] - 1),
         \A i \in Positions : Bits(x)[i] = Bits(y)[i]
  PROVE  x = y
<1> DEFINE B == BinSize - 1
           Q(z, k) == z \div two_to[k]
           S == {j \in Nat : j <= B => Q(x, B - j) = Q(y, B - j)}
<1>1. B \in Nat /\ BinSize = B + 1
  BY BinSizeAssumption
<1>2. x \in Int /\ y \in Int /\ \A k \in Nat : two_to[k] \in Nat \ {0}
  BY <1>1, TwoTo
<1>3. \A k \in 0..B : Q(x, k) % 2 = 1 <=> Q(y, k) % 2 = 1
  <2> SUFFICES ASSUME NEW k \in 0..B
               PROVE  Q(x, k) % 2 = 1 <=> Q(y, k) % 2 = 1
    OBVIOUS
  <2>1. BinSize - k \in Positions /\ BinSize - (BinSize - k) = k
    BY <1>1 DEF Positions
  <2> DEFINE i == BinSize - k
  <2>2. ASSUME NEW z PROVE Bits(z)[i] = ((z \div two_to[BinSize - i]) % 2 = 1)
    BY <2>1 DEF Bits
  <2> QED
    BY <2>1, <2>2
<1>4. 0 \in S
  <2> DEFINE T == two_to[B]
  <2>1. T \in Nat \ {0} /\ x \in (-T)..(T - 1) /\ y \in (-T)..(T - 1)
    BY <1>1, <1>2
  <2>2. B - 0 = B /\ B \in 0..B
    BY <1>1
  <2> HIDE DEF B
  <2>3. Q(x, B) = IF x < 0 THEN -1 ELSE 0
    <3> HIDE DEF T
    <3> QED
      BY <2>1, TopQuotient DEF T
  <2>4. Q(y, B) = IF y < 0 THEN -1 ELSE 0
    <3> HIDE DEF T
    <3> QED
      BY <2>1, TopQuotient DEF T
  <2>5. Q(x, B) % 2 = 1 <=> Q(y, B) % 2 = 1
    BY <1>3, <2>2
  <2> HIDE DEF Q
  <2>6. ASSUME NEW u \in Int PROVE (u = -1 => u % 2 = 1) /\ (u = 0 => u % 2 = 0)
    OBVIOUS
  <2>7. Q(x, B) = Q(y, B)
    <3>1. -1 \in Int /\ 0 \in Int
      OBVIOUS
    <3> QED
      BY <2>3, <2>4, <2>5, <2>6, <3>1
  <2> QED
    BY <2>2, <2>7
<1>5. ASSUME NEW j \in Nat, j \in S PROVE j + 1 \in S
  <2> SUFFICES ASSUME j + 1 <= B PROVE Q(x, B - (j + 1)) = Q(y, B - (j + 1))
    OBVIOUS
  <2> DEFINE k == B - (j + 1)  T == two_to[k]
  <2>1. k \in 0..B /\ k \in Nat /\ k + 1 = B - j /\ j <= B
    BY <1>1
  <2>2. Q(x, k + 1) = Q(y, k + 1)
    BY <1>5, <2>1
  <2>3. T \in Nat \ {0} /\ two_to[k + 1] = 2 * T
    BY <2>1, TwoTo
  <2>4. Q(x, k) % 2 = 1 <=> Q(y, k) % 2 = 1
    BY <1>3, <2>1
  <2> HIDE DEF k, T, B
  <2>5. ASSUME NEW z \in Int
        PROVE  /\ Q(z, k + 1) \in Int
               /\ Q(z, k) = 2 * Q(z, k + 1) + (Q(z, k) % 2)
               /\ Q(z, k) % 2 \in {0, 1}
    BY <2>3, HalfQuotient DEF T
  <2> HIDE DEF Q
  <2>6. Q(x, k) % 2 = Q(y, k) % 2
    BY <1>2, <2>4, <2>5
  <2>7. Q(x, k) = Q(y, k)
    BY <1>2, <2>2, <2>5, <2>6
  <2> QED
    BY <2>7 DEF k
<1> HIDE DEF S
<1>6. Nat \subseteq S
  BY <1>4, <1>5, Induction
<1>7. Q(x, 0) = Q(y, 0)
  <2>1. B \in S /\ B - B = 0
    BY <1>1, <1>6
  <2> HIDE DEF B
  <2> QED
    BY <1>1, <2>1 DEF S
<1>8. \A z \in Int : Q(z, 0) = z
  BY TwoTo
<1> QED
  BY <1>2, <1>7, <1>8

(* A shuffle loses no position, and keeps the size of a set of positions.  *)
LEMMA ShuffleBijective ==
  ASSUME NEW pi \in Shuffles
  PROVE  /\ pi \in [Positions -> Positions]
         /\ \A i, j \in Positions : pi[i] = pi[j] => i = j
         /\ \A k \in Positions : \E i \in Positions : pi[i] = k
<1>1. pi \in [Positions -> Positions] /\ IsInjective(pi)
  BY DEF Shuffles
<1>2. IsFiniteSet(Positions)
  BY BinSizeAssumption, FS_Interval DEF Positions
<1>3. pi \in Injection(Positions, Positions)
  BY <1>1 DEF Injection
<1>4. pi \in Surjection(Positions, Positions)
  BY <1>2, <1>3, FS_Injection
<1> QED
  BY <1>1, <1>4 DEF IsInjective, Surjection

LEMMA ShuffleCount ==
  ASSUME NEW pi \in Shuffles, NEW S \in SUBSET Positions,
         NEW T \in SUBSET Positions,
         \A i \in Positions : i \in S <=> pi[i] \in T
  PROVE  Cardinality(S) = Cardinality(T)
<1> DEFINE f == [i \in S |-> pi[i]]
<1>1. /\ pi \in [Positions -> Positions]
      /\ \A i, j \in Positions : pi[i] = pi[j] => i = j
      /\ \A k \in Positions : \E i \in Positions : pi[i] = k
  BY ShuffleBijective
<1>2. f \in Injection(S, T)
  BY <1>1 DEF Injection, IsInjective
<1>3. f \in Surjection(S, T)
  BY <1>1 DEF Surjection
<1>4. ExistsBijection(S, T)
  <2> HIDE DEF f
  <2> QED
    BY <1>2, <1>3 DEF ExistsBijection, Bijection
<1>5. IsFiniteSet(S)
  <2>1. IsFiniteSet(Positions)
    BY BinSizeAssumption, FS_Interval DEF Positions
  <2> QED
    BY <2>1, FS_Subset
<1> QED
  BY <1>4, <1>5, FS_Bijection

----------------------------------------------------------------------------

(***************************************************************************)
(* The inductive invariant.  NoFalseAccept links the verdict with the      *)
(* numbers; between them lie what Alice sent, what Bob returned and what   *)
(* Alice decrypts, and the key all three depend on.                        *)
(***************************************************************************)
Phases == {"nokey", "ready", "step1", "step2", "done"}

TypeOK == /\ phase \in Phases
          /\ aliceNumber \in Numbers /\ bobNumber \in Numbers
          /\ verdict \in BOOLEAN

(* The keys belong together, and g has passed the test of KeyGen.          *)
KeyUsable ==
  phase # "nokey" =>
    \E pq \in KeyPrimes : \E g \in GRandom(pq[1] * pq[2]) :
      /\ UsableG(pq[1], pq[2], g)
      /\ publicKey = PublicKey(pq[1], pq[2], g)
      /\ secretKey = SecretKey(pq[1], pq[2])

(* What Alice sent encrypts the bits of her number.                        *)
AliceEncrypts ==
  phase \in {"step1", "step2", "done"} =>
    \A i \in Positions : \E r \in EncRandom(publicKey.n) :
      aliceCipherText[i] = Enc(publicKey, Bits(aliceNumber)[i], r)

Differ(i) == Bits(aliceNumber)[i] # Bits(bobNumber)[i]
BothSet(i) == Bits(aliceNumber)[i] /\ Bits(bobNumber)[i]

(* What Bob returns decrypts, after some shuffle, to the positions in      *)
(* which the numbers differ; only to those when g is invertible, and to    *)
(* those where both bits are set as well when it is not.                   *)
ProductsDecrypt ==
  phase \in {"step2", "done"} =>
    \E pi \in Shuffles : \A i \in Positions :
      /\ Differ(pi[i]) => Dec(secretKey, xorCipherText[i])
      /\ InvertibleG /\ ~Differ(pi[i]) => ~Dec(secretKey, xorCipherText[i])
      /\ ~InvertibleG /\ BothSet(pi[i]) => Dec(secretKey, xorCipherText[i])

AnswerFromBits ==
  phase = "done" =>
    /\ decResult = [i \in Positions |-> Dec(secretKey, xorCipherText[i])]
    /\ verdict = (\A i \in Positions : ~decResult[i])

IInv == TypeOK /\ KeyUsable /\ AliceEncrypts /\ ProductsDecrypt /\ AnswerFromBits

(* What the invariant says of the keys, spelled out.                       *)
LEMMA KeyFacts ==
  ASSUME KeyUsable, phase # "nokey"
  PROVE  \E p, q \in Nat \ {0} : \E g \in Nat :
           /\ IsPrime(p) /\ IsPrime(q) /\ UsableG(p, q, g)
           /\ publicKey = PublicKey(p, q, g)
           /\ secretKey = SecretKey(p, q)
           /\ publicKey.n = p * q /\ publicKey.g = g
           /\ \A r \in EncRandom(p * q) : r \in Nat /\ Coprime(r, p * q)
<1>0. PICK pq \in KeyPrimes : \E g \in GRandom(pq[1] * pq[2]) :
        /\ UsableG(pq[1], pq[2], g)
        /\ publicKey = PublicKey(pq[1], pq[2], g)
        /\ secretKey = SecretKey(pq[1], pq[2])
  BY DEF KeyUsable
<1>1. PICK g \in GRandom(pq[1] * pq[2]) :
        /\ UsableG(pq[1], pq[2], g)
        /\ publicKey = PublicKey(pq[1], pq[2], g)
        /\ secretKey = SecretKey(pq[1], pq[2])
  BY <1>0
<1> DEFINE p == pq[1]  q == pq[2]  n == p * q
<1>2. p \in Nat /\ q \in Nat /\ IsPrime(p) /\ IsPrime(q)
  BY KeyPrimesAssumption
<1>3. p # 0 /\ q # 0
  BY <1>2 DEF IsPrime
<1>4. GRandom(n) \subseteq 0..(n - 1) /\ EncRandom(n) \subseteq Units(n)
  BY RandomAssumption DEF EncRandomElements
<1>5. publicKey.n = n /\ publicKey.g = g
  BY <1>1 DEF PublicKey
<1>6. UsableG(p, q, g) /\ publicKey = PublicKey(p, q, g) /\ secretKey = SecretKey(p, q)
  BY <1>1
<1>7. g \in GRandom(n)
  OBVIOUS
<1> HIDE DEF p, q
<1>8. n \in Nat
  BY <1>2
<1> HIDE DEF n
<1>9. g \in Nat
  BY <1>4, <1>7, <1>8
<1>10. \A r \in EncRandom(n) : r \in Nat /\ Coprime(r, n)
  BY <1>4, <1>8 DEF Units
<1> QED
  BY <1>2, <1>3, <1>5, <1>6, <1>9, <1>10 DEF n

LEMMA InitIInv == Init => IInv
<1> SUFFICES ASSUME Init PROVE IInv
  OBVIOUS
<1>1. TypeOK
  BY NumbersAssumption DEF Init, TypeOK, Phases
<1>2. KeyUsable /\ AliceEncrypts /\ ProductsDecrypt /\ AnswerFromBits
  BY DEF Init, KeyUsable, AliceEncrypts, ProductsDecrypt, AnswerFromBits
<1> QED
  BY <1>1, <1>2 DEF IInv

LEMMA KeyGenKeeps ==
  ASSUME IInv, keyGen
  PROVE  IInv'
<1>1. TypeOK'
  BY DEF IInv, TypeOK, Phases, keyGen, callVars
<1>2. KeyUsable'
  BY DEF keyGen, KeyUsable
<1>3. phase' = "ready"
  BY DEF keyGen
<1>4. AliceEncrypts' /\ ProductsDecrypt' /\ AnswerFromBits'
  BY <1>3 DEF AliceEncrypts, ProductsDecrypt, AnswerFromBits
<1> QED
  BY <1>1, <1>2, <1>4 DEF IInv

LEMMA Step1Keeps ==
  ASSUME IInv, NEW x \in Numbers, NEW y \in Numbers, Step1(x, y)
  PROVE  IInv'
<1>1. TypeOK'
  BY DEF IInv, TypeOK, Phases, Step1
<1>2. KeyUsable'
  BY DEF IInv, KeyUsable, Step1, keyVars
<1>3. AliceEncrypts'
  <2>1. PICK r \in [Positions -> EncRandom(publicKey.n)] :
          aliceCipherText' = EncBits(x, r)
    BY DEF Step1
  <2>2. publicKey' = publicKey /\ aliceNumber' = x
    BY DEF Step1, keyVars
  <2>3. \A i \in Positions : aliceCipherText'[i] = Enc(publicKey, Bits(x)[i], r[i])
    BY <2>1 DEF EncBits
  <2>4. \A i \in Positions : r[i] \in EncRandom(publicKey.n)
    OBVIOUS
  <2>5. \A i \in Positions : \E z \in EncRandom(publicKey.n) :
          aliceCipherText'[i] = Enc(publicKey, Bits(x)[i], z)
    BY <2>3, <2>4
  <2>6. \A i \in Positions : \E z \in EncRandom(publicKey'.n) :
          aliceCipherText'[i] = Enc(publicKey', Bits(aliceNumber')[i], z)
    BY <2>2, <2>5
  <2> QED
    BY <2>6 DEF AliceEncrypts, Bits
<1>4. phase' = "step1"
  BY DEF Step1
<1>5. ProductsDecrypt' /\ AnswerFromBits'
  BY <1>4 DEF ProductsDecrypt, AnswerFromBits
<1> QED
  BY <1>1, <1>2, <1>3, <1>5 DEF IInv

LEMMA BitsBoolean ==
  ASSUME NEW x, NEW i \in Positions
  PROVE  Bits(x)[i] \in BOOLEAN
  BY DEF Bits

LEMMA Step2Keeps ==
  ASSUME IInv, Step2
  PROVE  IInv'
<1>0. /\ phase = "step1" /\ phase' = "step2"
      /\ publicKey' = publicKey /\ secretKey' = secretKey
      /\ aliceNumber' = aliceNumber /\ bobNumber' = bobNumber
      /\ aliceCipherText' = aliceCipherText /\ verdict' = verdict
  BY DEF Step2, keyVars
<1>1. TypeOK'
  BY <1>0 DEF IInv, TypeOK, Phases
<1>2. KeyUsable'
  BY <1>0 DEF IInv, KeyUsable
<1>3. AliceEncrypts'
  BY <1>0 DEF IInv, AliceEncrypts, Bits
<1>4. ProductsDecrypt'
  <2>1. PICK p \in Nat \ {0}, q \in Nat \ {0}, g \in Nat :
           /\ IsPrime(p) /\ IsPrime(q) /\ UsableG(p, q, g)
           /\ publicKey = PublicKey(p, q, g)
           /\ secretKey = SecretKey(p, q)
           /\ publicKey.n = p * q /\ publicKey.g = g
           /\ \A r \in EncRandom(p * q) : r \in Nat /\ Coprime(r, p * q)
    BY <1>0, KeyFacts DEF IInv
  <2>2. PICK r \in [Positions -> EncRandom(publicKey.n)], pi \in Shuffles :
          xorCipherText' =
            [i \in Positions |->
               XOR(publicKey, aliceCipherText[pi[i]], EncBits(bobNumber, r)[pi[i]])]
    BY DEF Step2
  <2>3. ASSUME NEW i \in Positions
        PROVE  /\ Differ(pi[i]) => Dec(secretKey, xorCipherText'[i])
               /\ InvertibleG /\ ~Differ(pi[i]) => ~Dec(secretKey, xorCipherText'[i])
               /\ ~InvertibleG /\ BothSet(pi[i]) => Dec(secretKey, xorCipherText'[i])
    <3> DEFINE j == pi[i]  b1 == Bits(aliceNumber)[j]  b2 == Bits(bobNumber)[j]
    <3>1. j \in Positions
      BY ShuffleBijective
    <3>2. PICK r1 \in EncRandom(publicKey.n) :
            aliceCipherText[j] = Enc(publicKey, b1, r1)
      BY <1>0, <3>1 DEF IInv, AliceEncrypts
    <3>3. EncBits(bobNumber, r)[j] = Enc(publicKey, b2, r[j])
      BY <3>1 DEF EncBits
    <3>4. xorCipherText'[i] =
            XOR(publicKey, Enc(publicKey, b1, r1), Enc(publicKey, b2, r[j]))
      BY <2>2, <3>2, <3>3
    <3> DEFINE r2 == r[j]
    <3>5. r2 \in EncRandom(publicKey.n)
      BY <3>1
    <3>6. /\ r1 \in Nat /\ Coprime(r1, p * q)
          /\ r2 \in Nat /\ Coprime(r2, p * q)
      <4> HIDE DEF r2
      <4> QED
        BY <2>1, <3>5
    <3>7. b1 \in BOOLEAN /\ b2 \in BOOLEAN
      BY <3>1, BitsBoolean
    <3>8. (Differ(j) <=> b1 # b2) /\ (BothSet(j) <=> b1 /\ b2)
      BY DEF Differ, BothSet
    <3>9. InvertibleG <=> Coprime(g, p * q)
      BY <2>1 DEF InvertibleG
    <3> HIDE DEF j, b1, b2, r2
    <3>10. LET d == Dec(secretKey, xorCipherText'[i])
           IN  /\ b1 # b2 => d
               /\ b1 = b2 /\ (b1 => Coprime(g, p * q)) => ~d
               /\ b1 /\ b2 /\ ~Coprime(g, p * q) => d
      <4>1. LET d == Dec(SecretKey(p, q),
                         XOR(PublicKey(p, q, g), Enc(PublicKey(p, q, g), b1, r1),
                             Enc(PublicKey(p, q, g), b2, r2)))
            IN  /\ b1 # b2 => d
                /\ b1 = b2 /\ (b1 => Coprime(g, p * q)) => ~d
                /\ b1 /\ b2 /\ ~Coprime(g, p * q) => d
        BY <2>1, <3>6, <3>7, XorDecrypts
      <4> QED
        BY <2>1, <3>4, <4>1 DEF r2
    <3>11. /\ Differ(j) => Dec(secretKey, xorCipherText'[i])
           /\ InvertibleG /\ ~Differ(j) => ~Dec(secretKey, xorCipherText'[i])
           /\ ~InvertibleG /\ BothSet(j) => Dec(secretKey, xorCipherText'[i])
      BY <3>8, <3>9, <3>10
    <3> QED
      BY <3>11 DEF j
  <2>4. InvertibleG' = InvertibleG
    BY <1>0 DEF InvertibleG
  <2>5. \A i : Differ(i)' = Differ(i) /\ BothSet(i)' = BothSet(i)
    BY <1>0 DEF Differ, BothSet, Bits
  <2> HIDE DEF Differ, BothSet
  <2>6. ProductsDecrypt' =
          (phase' \in {"step2", "done"} =>
             \E rho \in Shuffles : \A i \in Positions :
               /\ Differ(rho[i])' => Dec(secretKey', xorCipherText'[i])
               /\ InvertibleG' /\ ~Differ(rho[i])' => ~Dec(secretKey', xorCipherText'[i])
               /\ ~InvertibleG' /\ BothSet(rho[i])' => Dec(secretKey', xorCipherText'[i]))
    BY DEF ProductsDecrypt
  <2> QED
    BY <1>0, <2>3, <2>4, <2>5, <2>6
<1>5. AnswerFromBits'
  BY <1>0 DEF AnswerFromBits
<1> QED
  BY <1>1, <1>2, <1>3, <1>4, <1>5 DEF IInv

----------------------------------------------------------------------------

LEMMA Step3Keeps ==
  ASSUME IInv, Step3
  PROVE  IInv'
<1>0. /\ phase = "step2" /\ phase' = "done"
      /\ publicKey' = publicKey /\ secretKey' = secretKey
      /\ aliceNumber' = aliceNumber /\ bobNumber' = bobNumber
      /\ aliceCipherText' = aliceCipherText /\ xorCipherText' = xorCipherText
      /\ decResult' = [i \in Positions |-> Dec(secretKey, xorCipherText[i])]
      /\ verdict' = (\A i \in Positions : ~decResult'[i])
  BY DEF Step3, keyVars
<1>1. TypeOK'
  BY <1>0 DEF IInv, TypeOK, Phases
<1>2. KeyUsable'
  BY <1>0 DEF IInv, KeyUsable
<1>3. AliceEncrypts'
  BY <1>0 DEF IInv, AliceEncrypts, Bits
<1>4. ProductsDecrypt'
  BY <1>0 DEF IInv, ProductsDecrypt, Differ, BothSet, Bits, InvertibleG
<1>5. AnswerFromBits'
  BY <1>0 DEF AnswerFromBits
<1> QED
  BY <1>1, <1>2, <1>3, <1>4, <1>5 DEF IInv

LEMMA ReturnKeeps ==
  ASSUME IInv, Return
  PROVE  IInv'
<1>0. phase = "done" /\ phase' = "ready" /\ publicKey' = publicKey
      /\ secretKey' = secretKey
  BY DEF Return, keyVars
<1>1. TypeOK'
  BY NumbersAssumption DEF IInv, TypeOK, Phases, Return
<1>2. KeyUsable'
  BY <1>0 DEF IInv, KeyUsable
<1>3. AliceEncrypts' /\ ProductsDecrypt' /\ AnswerFromBits'
  BY <1>0 DEF AliceEncrypts, ProductsDecrypt, AnswerFromBits
<1> QED
  BY <1>1, <1>2, <1>3 DEF IInv

LEMMA StutterKeeps ==
  ASSUME IInv, UNCHANGED vars
  PROVE  IInv'
<1>0. /\ phase' = phase /\ publicKey' = publicKey /\ secretKey' = secretKey
      /\ aliceNumber' = aliceNumber /\ bobNumber' = bobNumber
      /\ aliceCipherText' = aliceCipherText /\ xorCipherText' = xorCipherText
      /\ decResult' = decResult /\ verdict' = verdict
  BY DEF vars, keyVars, callVars
<1>1. TypeOK' /\ KeyUsable' /\ AliceEncrypts'
  BY <1>0 DEF IInv, TypeOK, KeyUsable, AliceEncrypts, Bits
<1>2. ProductsDecrypt'
  <2>1. InvertibleG' = InvertibleG
    BY <1>0 DEF InvertibleG
  <2>2. \A i : Differ(i)' = Differ(i) /\ BothSet(i)' = BothSet(i)
    BY <1>0 DEF Differ, BothSet, Bits
  <2> HIDE DEF Differ, BothSet
  <2>3. ProductsDecrypt' =
          (phase' \in {"step2", "done"} =>
             \E rho \in Shuffles : \A i \in Positions :
               /\ Differ(rho[i])' => Dec(secretKey', xorCipherText'[i])
               /\ InvertibleG' /\ ~Differ(rho[i])' => ~Dec(secretKey', xorCipherText'[i])
               /\ ~InvertibleG' /\ BothSet(rho[i])' => Dec(secretKey', xorCipherText'[i]))
    BY DEF ProductsDecrypt
  <2>4. ProductsDecrypt
    BY DEF IInv
  <2> QED
    BY <1>0, <2>1, <2>2, <2>3, <2>4 DEF ProductsDecrypt
<1>3. AnswerFromBits'
  BY <1>0 DEF IInv, AnswerFromBits
<1> QED
  BY <1>1, <1>2, <1>3 DEF IInv

LEMMA Invariance == Spec => []IInv
<1>1. IInv /\ [Next]_vars => IInv'
  BY KeyGenKeeps, Step1Keeps, Step2Keeps, Step3Keeps, ReturnKeeps, StutterKeeps
     DEF Next
<1> QED
  BY <1>1, InitIInv, PTL DEF Spec

LEMMA AliceAndBobInRange ==
  ASSUME IInv, \A i \in Positions : ~Differ(i)
  PROVE  aliceNumber = bobNumber
<1>1. aliceNumber \in Numbers /\ bobNumber \in Numbers
  BY DEF IInv, TypeOK
<1> QED
  BY <1>1, NumbersAssumption, BitsInjective DEF Differ

(* A verdict is "equal" for equal numbers only.                            *)
LEMMA AcceptedAreEqual ==
  ASSUME IInv, phase = "done", verdict
  PROVE  aliceNumber = bobNumber
<1>1. PICK pi \in Shuffles : \A i \in Positions :
        Differ(pi[i]) => Dec(secretKey, xorCipherText[i])
  BY DEF IInv, ProductsDecrypt
<1>2. \A i \in Positions : ~Dec(secretKey, xorCipherText[i])
  BY DEF IInv, AnswerFromBits
<1>3. \A k \in Positions : \E i \in Positions : pi[i] = k
  BY ShuffleBijective
<1>4. \A k \in Positions : ~Differ(k)
  BY <1>1, <1>2, <1>3
<1> QED
  BY <1>4, AliceAndBobInRange

(***************************************************************************)
(* Soundness of the bitwise test: for primes of any size, numbers of any   *)
(* length, any g that KeyGen accepts (degenerate ones included), any       *)
(* randomness and any shuffle, equalityTest returns true for equal numbers *)
(* only.                                                                   *)
(***************************************************************************)
THEOREM Soundness == Spec => []NoFalseAccept
<1>1. IInv => NoFalseAccept
  BY AcceptedAreEqual DEF NoFalseAccept
<1> QED
  BY <1>1, Invariance, PTL

(* Under a g without inverse equal numbers are rejected.                   *)
DegenerateRejects ==
  (phase = "done" /\ ~InvertibleG /\ aliceNumber # 0) => ~verdict

(***************************************************************************)
(* A g that shares a factor with n, which KeyGen accepts when it is a      *)
(* multiple of p or of q (GM.cpp:82), makes the test reject every number   *)
(* but zero, equal ones included: the product of the ciphertexts of two    *)
(* set bits decrypts to a one.                                             *)
(***************************************************************************)
THEOREM DegenerateKeyRejects == Spec => []DegenerateRejects
<1>1. ASSUME IInv, phase = "done", ~InvertibleG, aliceNumber # 0, verdict
      PROVE  FALSE
  <2>1. aliceNumber = bobNumber
    BY <1>1, AcceptedAreEqual
  <2>2. PICK k \in Positions : Bits(aliceNumber)[k]
    <3>1. ASSUME NEW j \in Nat PROVE 0 \div two_to[j] = 0
      <4>1. two_to[j] \in Nat \ {0}
        BY TwoTo
      <4> QED
        BY <4>1
    <3>2. ASSUME NEW i \in Positions PROVE Bits(0)[i] = FALSE
      <4>1. BinSize - i \in Nat
        BY BinSizeAssumption DEF Positions
      <4>2. 0 \div two_to[BinSize - i] = 0 /\ 0 % 2 # 1
        BY <3>1, <4>1
      <4>3. Bits(0)[i] = ((0 \div two_to[BinSize - i]) % 2 = 1)
        BY DEF Bits
      <4> QED
        BY <4>2, <4>3
    <3>3. aliceNumber \in Numbers /\ 0 \in Numbers
      BY <1>1, NumbersAssumption DEF IInv, TypeOK
    <3>4. PICK i \in Positions : Bits(aliceNumber)[i] # Bits(0)[i]
      BY <1>1, <3>3, NumbersAssumption, BitsInjective
    <3> QED
      BY <3>2, <3>4, BitsBoolean
  <2>3. BothSet(k)
    BY <2>1, <2>2 DEF BothSet
  <2>4. PICK pi \in Shuffles : \A i \in Positions :
          ~InvertibleG /\ BothSet(pi[i]) => Dec(secretKey, xorCipherText[i])
    BY <1>1 DEF IInv, ProductsDecrypt
  <2>5. \A i \in Positions : ~Dec(secretKey, xorCipherText[i])
    BY <1>1 DEF IInv, AnswerFromBits
  <2>6. PICK i \in Positions : pi[i] = k
    BY ShuffleBijective
  <2> QED
    BY <1>1, <2>3, <2>4, <2>5, <2>6
<1>2. IInv => DegenerateRejects
  BY <1>1 DEF DegenerateRejects
<1> QED
  BY <1>2, Invariance, PTL

(***************************************************************************)
(* What the answer tells Alice besides: with an invertible g the number of *)
(* ones she decrypts is the Hamming distance of the two numbers, because   *)
(* the shuffle hides the places of the differences but not their number.   *)
(***************************************************************************)
THEOREM DistanceShown == Spec => []HammingDistance
<1>1. ASSUME IInv, phase = "done", InvertibleG
      PROVE  Ones(decResult) = Cardinality({i \in Positions :
                          Bits(aliceNumber)[i] # Bits(bobNumber)[i]})
  <2>1. PICK pi \in Shuffles : \A i \in Positions :
          /\ Differ(pi[i]) => Dec(secretKey, xorCipherText[i])
          /\ InvertibleG /\ ~Differ(pi[i]) => ~Dec(secretKey, xorCipherText[i])
    BY <1>1 DEF IInv, ProductsDecrypt
  <2> DEFINE S == {i \in Positions : decResult[i]}
             T == {i \in Positions : Differ(i)}
  <2>2. \A i \in Positions : decResult[i] = Dec(secretKey, xorCipherText[i])
    BY <1>1 DEF IInv, AnswerFromBits
  <2>3. pi \in [Positions -> Positions]
    BY ShuffleBijective
  <2>4. \A i \in Positions : i \in S <=> pi[i] \in T
    BY <1>1, <2>1, <2>2, <2>3
  <2>5. Cardinality(S) = Cardinality(T)
    <3> HIDE DEF S, T
    <3>1. S \in SUBSET Positions /\ T \in SUBSET Positions
      BY DEF S, T
    <3> QED
      BY <2>4, <3>1, ShuffleCount
  <2> QED
    BY <2>5 DEF Ones, Differ
<1>2. IInv => HammingDistance
  BY <1>1 DEF HammingDistance
<1> QED
  BY <1>2, Invariance, PTL

(***************************************************************************)
(* Under a key with an invertible g every step of the tester, ciphertexts  *)
(* included, is a step of the equality oracle or none of its own.          *)
(***************************************************************************)
THEOREM ImplementsOracle == Spec => OracleSteps
<1>1. Init => Oracle!Init
  BY DEF Init, CallOf, Oracle!Init
<1>2. IInv /\ [Next]_vars => [Oracle!Next \/ ~InvertibleG']_(Oracle!vars)
  <2> SUFFICES ASSUME IInv, [Next]_vars, InvertibleG'
               PROVE  [Oracle!Next]_(Oracle!vars)
    BY DEF Oracle!vars
  <2>1. CASE keyGen
    BY <2>1 DEF keyGen, callVars, CallOf, Oracle!vars
  <2>2. ASSUME NEW x \in Numbers, NEW y \in Numbers, Step1(x, y)
        PROVE  Oracle!Next
    <3>1. Oracle!Call(x, y)
      BY <2>2 DEF Step1, CallOf, Oracle!Call
    <3> QED
      BY <3>1 DEF Oracle!Next
  <2>3. CASE Step2
    BY <2>3 DEF Step2, CallOf, Oracle!vars
  <2>4. CASE Step3
    <3>0. IInv' /\ phase = "step2" /\ phase' = "done" /\ InvertibleG
          /\ UNCHANGED <<secretKey, xorCipherText, aliceNumber, bobNumber>>
      BY <2>4, Step3Keeps DEF Step3, keyVars, InvertibleG
    <3>1. verdict' => aliceNumber = bobNumber
      <4> SUFFICES ASSUME verdict' PROVE aliceNumber = bobNumber
        OBVIOUS
      <4>1. PICK pi \in Shuffles : \A i \in Positions :
              Differ(pi[i]) => Dec(secretKey, xorCipherText[i])
        BY <3>0 DEF IInv, ProductsDecrypt
      <4>2. \A i \in Positions : ~Dec(secretKey, xorCipherText[i])
        BY <2>4 DEF Step3
      <4>3. \A k \in Positions : ~Differ(k)
        BY <4>1, <4>2, ShuffleBijective
      <4> QED
        BY <4>3, AliceAndBobInRange
    <3>2. aliceNumber = bobNumber => verdict'
      <4>1. PICK pi \in Shuffles : \A i \in Positions :
              InvertibleG /\ ~Differ(pi[i]) => ~Dec(secretKey, xorCipherText[i])
        BY <3>0 DEF IInv, ProductsDecrypt
      <4>2. aliceNumber = bobNumber => \A k : ~Differ(k)
        BY DEF Differ
      <4>3. decResult' = [i \in Positions |-> Dec(secretKey, xorCipherText[i])]
            /\ verdict' = (\A i \in Positions : ~decResult'[i])
        BY <2>4 DEF Step3
      <4> QED
        BY <3>0, <4>1, <4>2, <4>3
    <3>3. verdict' = (aliceNumber = bobNumber)
      <4>1. verdict' \in BOOLEAN
        BY <3>0 DEF IInv, TypeOK
      <4> QED
        BY <3>1, <3>2, <4>1
    <3>4. Oracle!Answer
      BY <3>0, <3>3 DEF CallOf, Oracle!Answer
    <3> QED
      BY <3>4 DEF Oracle!Next
  <2>5. CASE Return
    <3>1. Oracle!Return
      BY <2>5 DEF Return, CallOf, Oracle!Return
    <3> QED
      BY <3>1 DEF Oracle!Next
  <2>6. CASE UNCHANGED vars
    BY <2>6 DEF vars, callVars, Oracle!vars
  <2> QED
    BY <2>1, <2>2, <2>3, <2>4, <2>5, <2>6 DEF Next
<1> QED
  BY <1>1, <1>2, Invariance, PTL DEF Spec, OracleSteps

(***************************************************************************)
(* XOR in any sequence: HomomorphicCalc on the keys KeyGen makes from      *)
(* primes of any size and an invertible g.  XOR is the only operation of   *)
(* the class, on bits both the addition and the subtraction.               *)
(***************************************************************************)
VARIABLES pair, held, plain      \* its key, ciphertext and plaintext

PairOf(p, q, g) == [pk |-> PublicKey(p, q, g), sk |-> SecretKey(p, q), M |-> 2]
KeyChoices == {k \in Nat \X Nat \X Nat : /\ IsPrime(k[1]) /\ IsPrime(k[2])
                                         /\ Coprime(k[3], k[1] * k[2])
                                         /\ UsableG(k[1], k[2], k[3])}
Pairs == {PairOf(k[1], k[2], k[3]) : k \in KeyChoices}
NoScalar(k) == {}
FreshBit(k, x) == {Enc(k.pk, x = 1, r) : r \in EncRandomElements(k.pk.n)}
PairXOR(k, c, d) == XOR(k.pk, c, d)
PairReads(k, c, x) == Dec(k.sk, c) <=> x = 1

Calc == INSTANCE HomomorphicCalc
          WITH Keys <- Pairs, FreshPlain <- {0, 1}, Scalars <- NoScalar,
               Fresh <- FreshBit, AddOp <- PairXOR, SubOp <- PairXOR,
               MulOp <- PairXOR, Reads <- PairReads,
               key <- pair, c <- held, m <- plain

(* A square of a unit, times g when the bit is set.                        *)
Holds(p, q, g, c, x) ==
  /\ c \in Nat /\ x \in {0, 1}
  /\ \E r \in Nat : /\ Coprime(r, p * q)
                    /\ Congruent(c, Marked(x = 1, g) * (r * r), p * q)

CalcInv == \E k \in KeyChoices : /\ pair = PairOf(k[1], k[2], k[3])
                                 /\ Holds(k[1], k[2], k[3], held, plain)

LEMMA FreshHolds ==
  ASSUME NEW p \in Nat, IsPrime(p), NEW q \in Nat, IsPrime(q), NEW g \in Nat,
         NEW x \in {0, 1}, NEW c \in FreshBit(PairOf(p, q, g), x)
  PROVE  Holds(p, q, g, c, x)
<1> DEFINE n == p * q
<1>1. n \in Nat \ {0} /\ PublicKey(p, q, g) = [n |-> n, g |-> g]
      /\ PairOf(p, q, g).pk = [n |-> n, g |-> g]
  BY DEF IsPrime, PublicKey, PairOf
<1> HIDE DEF n
<1>2. PICK r \in Units(n) : c = Enc([n |-> n, g |-> g], x = 1, r)
  BY <1>1 DEF FreshBit, EncRandomElements
<1>3. r \in Nat /\ Coprime(r, n) /\ (x = 1) \in BOOLEAN
  BY <1>1, <1>2 DEF Units
<1>4. c \in Nat /\ Congruent(c, Marked(x = 1, g) * (r * r), n)
  <2> DEFINE b == x = 1
  <2>1. b \in BOOLEAN
    BY <1>3
  <2> HIDE DEF b
  <2>2. /\ Enc([n |-> n, g |-> g], b, r) \in Nat
        /\ Congruent(Enc([n |-> n, g |-> g], b, r), Marked(b, g) * (r * r), n)
    BY <1>1, <1>3, <2>1, EncCongruent
  <2> QED
    BY <1>2, <2>2 DEF b
<1> QED
  BY <1>3, <1>4 DEF Holds, n

LEMMA XorHolds ==
  ASSUME NEW p \in Nat, IsPrime(p), NEW q \in Nat, IsPrime(q), NEW g \in Nat,
         Coprime(g, p * q), NEW c, NEW x, NEW d, NEW y,
         Holds(p, q, g, c, x), Holds(p, q, g, d, y)
  PROVE  Holds(p, q, g, PairXOR(PairOf(p, q, g), c, d), (x + y) % 2)
<1> DEFINE n == p * q  w == c * d  e == w % n  z == (x + y) % 2
           a == Marked(x = 1, g)  b == Marked(y = 1, g)  f == Marked(z = 1, g)
<1>1. n \in Nat \ {0} /\ PairOf(p, q, g).pk.n = n
  BY DEF IsPrime, PublicKey, PairOf
<1>2. c \in Nat /\ d \in Nat /\ x \in {0, 1} /\ y \in {0, 1} /\ w \in Int
  BY DEF Holds
<1>3. PICK r \in Nat : Coprime(r, n) /\ Congruent(c, a * (r * r), n)
  BY DEF Holds
<1>4. PICK t \in Nat : Coprime(t, n) /\ Congruent(d, b * (t * t), n)
  BY DEF Holds
<1>5. PairXOR(PairOf(p, q, g), c, d) = e
  <2>1. PairXOR(PairOf(p, q, g), c, d) = mod_mul(c, d, n)
    BY <1>1 DEF PairXOR, XOR
  <2> HIDE DEF n
  <2>2. c \in Int /\ d \in Int
    BY <1>2
  <2> QED
    BY <1>1, <2>1, <2>2, ModMulIsProduct
<1>6. Coprime(g, n)
  OBVIOUS
<1>7. z \in {0, 1} /\ (z = 1 <=> x # y)
  <2>1. x + y \in {0, 1, 2} /\ (x + y = 1 <=> x # y)
    BY <1>2
  <2> QED
    BY <2>1
<1> HIDE DEF n, z
<1>8. a \in Nat /\ b \in Nat /\ f \in Nat /\ a \in Int /\ b \in Int /\ f \in Int
      /\ c \in Int /\ d \in Int /\ r \in Int /\ t \in Int
  BY <1>2 DEF Marked
<1> DEFINE A == a * (r * r)  T == b * (t * t)
<1>9. A \in Int /\ T \in Int
  BY <1>8
<1>10. Congruent(w, A * T, n)
  <2> HIDE DEF A, T, a, b
  <2> QED
    BY <1>1, <1>3, <1>4, <1>8, <1>9, CongruentMul DEF A, T
<1>11. e \in Nat /\ Congruent(e, A * T, n)
  <2> HIDE DEF w
  <2>1. e \in 0..(n - 1) /\ Congruent(e, w, n)
    BY <1>1, <1>2, CongruentResidue
  <2> QED
    BY <1>10, <2>1, CongruentEquivalence
<1>12. \E v \in Nat : Coprime(v, n) /\ A * T = f * (v * v)
  <2> DEFINE s == r * t
  <2>1. s \in Nat /\ Coprime(s, n)
    <3>1. Coprime(s, n)
      BY <1>1, <1>3, <1>4, CoprimeMul
    <3> QED
      BY <3>1
  <2>2. A * T = (a * b) * (s * s)
    <3> HIDE DEF a, b
    <3> QED
      BY <1>8
  <2>3. CASE x = 1 /\ y = 1
    <3> DEFINE v == g * s
    <3>1. a = g /\ b = g /\ f = 1
      BY <1>7, <2>3 DEF Marked
    <3>2. v \in Nat /\ Coprime(v, n)
      <4> HIDE DEF s
      <4> QED
        BY <1>1, <1>6, <2>1, CoprimeMul
    <3>3. (g * g) * (s * s) = 1 * (v * v)
      <4> HIDE DEF s
      <4> QED
        BY <2>1
    <3> HIDE DEF A, T, a, b, f, v, s
    <3> QED
      BY <2>2, <3>1, <3>2, <3>3
  <2>4. CASE ~(x = 1 /\ y = 1)
    <3>1. a * b = f
      BY <1>2, <1>7, <2>4 DEF Marked
    <3> HIDE DEF A, T, a, b, f, s
    <3> QED
      BY <2>1, <2>2, <3>1
  <2> QED
    BY <2>3, <2>4
<1> HIDE DEF e, A, T, f
<1>13. PICK v \in Nat : Coprime(v, n) /\ Congruent(e, f * (v * v), n)
  BY <1>11, <1>12
<1> QED
  BY <1>5, <1>7, <1>11, <1>13 DEF Holds, f, n, z

LEMMA HoldsReads ==
  ASSUME NEW p \in Nat, IsPrime(p), NEW q \in Nat, IsPrime(q), NEW g \in Nat,
         Coprime(g, p * q), UsableG(p, q, g), NEW c, NEW x, Holds(p, q, g, c, x)
  PROVE  PairReads(PairOf(p, q, g), c, x)
<1> DEFINE n == p * q  b == x = 1  A == Marked(b, g)
<1>1. p \in Nat \ {0} /\ q \in Nat \ {0} /\ n \in Nat \ {0} /\ q * p = n
  BY DEF IsPrime
<1>2. c \in Nat /\ x \in {0, 1} /\ b \in BOOLEAN /\ c \in Int
  BY DEF Holds
<1>3. PICK r \in Nat : Coprime(r, n) /\ Congruent(c, A * (r * r), n)
  BY DEF Holds
<1>4. A \in Int /\ A * (r * r) \in Int
  BY DEF Marked
<1> HIDE DEF A
<1>5. PICK o \in Nat, f \in BOOLEAN : o = 1 /\ ~f
  <2>1. 1 \in Nat /\ FALSE \in BOOLEAN
    OBVIOUS
  <2> QED
    BY <2>1
<1> DEFINE D == A * (r * r)  E == D * (Marked(f, g) * (o * o))
<1>6. D = E /\ D \in Int
  BY <1>4, <1>5 DEF Marked
<1>7. Congruent(c, E, p) /\ Congruent(c, E, q)
  <2>1. Congruent(c, D, p * q) /\ Congruent(c, D, q * p)
    BY <1>1, <1>3
  <2> HIDE DEF D, E
  <2>2. Congruent(c, D, p) /\ Congruent(c, D, q)
    BY <1>1, <1>2, <1>6, <2>1, CongruentFactor
  <2> QED
    BY <1>6, <2>2
<1>8. /\ Coprime(r, p) /\ Coprime(r, q) /\ Coprime(g, p) /\ Coprime(g, q)
      /\ Coprime(o, p) /\ Coprime(o, q)
  BY <1>1, <1>3, <1>5, CoprimeProduct, CoprimeOne
<1>9. mod_exp(g, div(p - 1, 2), p) # 1 /\ mod_exp(g, div(q - 1, 2), q) # 1
  BY DEF UsableG
<1> HIDE DEF b
<1>10. /\ b # f => mod_exp(c, div(p, 2), p) # 1
       /\ b = f /\ (b => Coprime(g, p)) => mod_exp(c, div(p, 2), p) = 1
  BY <1>2, <1>7, <1>8, <1>9, FactorTest DEF A
<1>11. b = f /\ (b => Coprime(g, q)) => mod_exp(c, div(q, 2), q) = 1
  BY <1>2, <1>7, <1>8, <1>9, FactorTest DEF A
<1>12. (b = f) <=> ~b
  BY <1>2, <1>5
<1>13. PairOf(p, q, g).sk.p = p /\ PairOf(p, q, g).sk.q = q
  BY DEF PairOf, SecretKey
<1> QED
  BY <1>2, <1>8, <1>10, <1>11, <1>12, <1>13 DEF PairReads, Dec, b

(***************************************************************************)
(* Class GM, for primes of any size and every invertible g that KeyGen     *)
(* accepts: whatever sequence of XORs led to a ciphertext, Dec returns the *)
(* exclusive or of the bits.                                               *)
(***************************************************************************)
THEOREM OperationsAgree == Calc!Spec => []Calc!Homomorphic
<1>0. ASSUME NEW k \in KeyChoices
      PROVE  /\ k[1] \in Nat /\ IsPrime(k[1]) /\ k[2] \in Nat /\ IsPrime(k[2])
             /\ k[3] \in Nat /\ Coprime(k[3], k[1] * k[2]) /\ UsableG(k[1], k[2], k[3])
             /\ PairOf(k[1], k[2], k[3]).M = 2
  BY DEF KeyChoices, PairOf
<1>1. Calc!Init => CalcInv
  <2> SUFFICES ASSUME Calc!Init PROVE CalcInv
    OBVIOUS
  <2>1. pair \in Pairs /\ plain \in {0, 1} /\ held \in FreshBit(pair, plain)
    BY DEF Calc!Init
  <2>2. PICK k \in KeyChoices : pair = PairOf(k[1], k[2], k[3])
    BY <2>1 DEF Pairs
  <2>3. Holds(k[1], k[2], k[3], held, plain)
    BY <1>0, <2>1, <2>2, FreshHolds
  <2> QED
    BY <2>2, <2>3 DEF CalcInv
<1>2. CalcInv /\ [Calc!Next]_(Calc!vars) => CalcInv'
  <2> SUFFICES ASSUME CalcInv, [Calc!Next]_(Calc!vars) PROVE CalcInv'
    OBVIOUS
  <2>1. PICK k \in KeyChoices : /\ pair = PairOf(k[1], k[2], k[3])
                                /\ Holds(k[1], k[2], k[3], held, plain)
    BY DEF CalcInv
  <2> DEFINE p == k[1]  q == k[2]  g == k[3]
  <2>2. /\ p \in Nat /\ IsPrime(p) /\ q \in Nat /\ IsPrime(q) /\ g \in Nat
        /\ Coprime(g, p * q) /\ pair.M = 2 /\ pair = PairOf(p, q, g)
        /\ Holds(p, q, g, held, plain) /\ plain \in {0, 1}
    BY <1>0, <2>1 DEF Holds
  <2>3. ASSUME pair' = pair, Holds(p, q, g, held', plain') PROVE CalcInv'
    BY <2>1, <2>3 DEF CalcInv
  <2> HIDE DEF p, q, g
  <2>4. ASSUME NEW y \in {0, 1}, Calc!Add(y) \/ Calc!Sub(y) PROVE CalcInv'
    <3>1. PICK d \in FreshBit(pair, y) : held' = PairXOR(pair, held, d)
      BY <2>4 DEF Calc!Add, Calc!Sub
    <3>2. Holds(p, q, g, d, y)
      BY <2>2, <3>1, FreshHolds
    <3>3. Holds(p, q, g, held', (plain + y) % 2)
      BY <2>2, <3>1, <3>2, XorHolds
    <3>4. pair' = pair /\ (plain' = (plain + y) % 2 \/ plain' = (plain - y) % 2)
      BY <2>2, <2>4 DEF Calc!Add, Calc!Sub
    <3>5. (plain - y) % 2 = (plain + y) % 2
      <4>1. plain - y \in {-1, 0, 1} /\ plain + y \in {0, 1, 2}
            /\ (plain - y = 0 <=> plain + y \in {0, 2})
        BY <2>2
      <4> QED
        BY <4>1
    <3> QED
      BY <2>3, <3>3, <3>4, <3>5
  <2>5. CASE Calc!Double \/ Calc!Cancel
    <3>1. /\ held' = PairXOR(pair, held, held) /\ pair' = pair
          /\ plain' = (2 * plain) % 2 \/ plain' = 0
      BY <2>2, <2>5 DEF Calc!Double, Calc!Cancel
    <3>2. (plain + plain) % 2 = 0 /\ (2 * plain) % 2 = 0
      BY <2>2
    <3>3. Holds(p, q, g, held', (plain + plain) % 2)
      BY <2>2, <3>1, XorHolds
    <3> QED
      BY <2>3, <3>1, <3>2, <3>3
  <2>6. CASE UNCHANGED Calc!vars
    BY <2>2, <2>3, <2>6 DEF Calc!vars
  <2> QED
    BY <2>4, <2>5, <2>6 DEF Calc!Next, NoScalar
<1>3. CalcInv => Calc!Homomorphic
  <2> SUFFICES ASSUME CalcInv PROVE Calc!Homomorphic
    OBVIOUS
  <2>1. PICK k \in KeyChoices : /\ pair = PairOf(k[1], k[2], k[3])
                                /\ Holds(k[1], k[2], k[3], held, plain)
    BY DEF CalcInv
  <2>2. PairReads(pair, held, plain) /\ pair.M = 2
    BY <1>0, <2>1, HoldsReads
  <2>3. plain % 2 = plain
    <3>1. plain \in {0, 1}
      BY <2>1 DEF Holds
    <3> QED
      BY <3>1
  <2> QED
    BY <2>2, <2>3 DEF Calc!Homomorphic
<1> QED
  BY <1>1, <1>2, <1>3, PTL DEF Calc!Spec
=============================================================================
