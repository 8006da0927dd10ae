--------------------------- MODULE NSTest_proofs ---------------------------
(***************************************************************************)
(* The Naccache-Stern tester, for any number and size of small primes and  *)
(* any length of n for which KeyGen has factors to draw: it rejects every  *)
(* pair with a ciphertext that has no inverse, small scalars never accept  *)
(* different numbers, and it implements the plaintext-level test.          *)
(*                                                                         *)
(* The argument: u*v = sigma divides (p-1)(q-1), with the cofactor e; by   *)
(* Euler's theorem the power e of a ciphertext loses the random number and *)
(* is G^m, with G = g^e and m the plaintext.  KeyGen accepted g because no *)
(* small prime can be left out of an exponent of G, so that G has exactly  *)
(* the order sigma when g is a unit: G^m tells the m modulo sigma apart,   *)
(* and isZero sees m = 0 and nothing else.  p and q have to differ for     *)
(* Euler's theorem; KeyGen does not compare them, but the lengths and the  *)
(* divisors it gave p-1 and q-1 keep them apart.                           *)
(***************************************************************************)
EXTENDS NSTest, ModLemmas

----------------------------------------------------------------------------
(***************************************************************************)
(* Divisors and orders.                                                    *)
(***************************************************************************)

LEMMA DividesCongruent ==
  ASSUME NEW d \in Nat \ {0}, NEW a \in Int
  PROVE  Divides(d, a) <=> Congruent(a, 0, d)
<1>1. 0 \in Int /\ \A x \in Int : 0 + d * x = d * x
  OBVIOUS
<1>2. Congruent(a, 0, d) <=> \E x \in Int : a = 0 + d * x
  BY <1>1, CongruentMultiple
<1> QED
  BY <1>1, <1>2 DEF Divides

LEMMA DividesProduct ==
  ASSUME NEW d \in Int, NEW a \in Int, NEW b \in Int, Divides(d, a)
  PROVE  Divides(d, a * b) /\ Divides(d, b * a)
<1>1. PICK x \in Int : a = d * x
  BY DEF Divides
<1>2. a * b = d * (x * b) /\ b * a = d * (x * b) /\ x * b \in Int
  BY <1>1
<1> QED
  BY <1>2 DEF Divides

(* Different primes are coprime.                                           *)
LEMMA PrimesCoprime ==
  ASSUME NEW p \in Nat, IsPrime(p), NEW x \in Nat, x > p \/ x < p, x # 0,
         x > p => IsPrime(x)
  PROVE  Coprime(x, p)
<1>1. x % p # 0
  <2>1. p > 1
    BY DEF IsPrime
  <2>2. CASE x < p
    <3>1. x % p = x
      BY <2>1, <2>2
    <3> QED
      BY <3>1
  <2>3. CASE x > p
    <3>1. p \in 2..(x - 1) /\ IsPrime(x)
      BY <2>1, <2>3
    <3> QED
      BY <3>1 DEF IsPrime
  <2> QED
    BY <2>2, <2>3
<1> QED
  BY <1>1, PrimeCoprime

(* A prime that divides a prime is that prime.                             *)
LEMMA PrimeDividesPrime ==
  ASSUME NEW p \in Nat, IsPrime(p), NEW r \in Nat, IsPrime(r), Divides(r, p)
  PROVE  r = p
<1>1. p \in Nat \ {0} /\ r > 1
  BY DEF IsPrime
<1>2. r \in 1..p /\ p % r = 0
  BY <1>1, DivisorBound
<1>3. r \in 2..(p - 1) => p % r # 0
  BY DEF IsPrime
<1> QED
  BY <1>1, <1>2, <1>3

(* Euclid: a prime divides a factor of a product, if not the other one.    *)
LEMMA PrimeDividesFactor ==
  ASSUME NEW r \in Nat, IsPrime(r), NEW x \in Nat, NEW y \in Nat,
         Coprime(x, r), Divides(r, x * y)
  PROVE  Divides(r, y)
<1>1. r \in Nat \ {0} /\ x * y \in Int /\ y \in Int
  BY DEF IsPrime
<1>2. Congruent(x * y, 0, r)
  BY <1>1, DividesCongruent
<1>3. Congruent(x * y, x * 0, r)
  BY <1>2
<1>4. Congruent(y, 0, r)
  BY <1>1, <1>3, CongruentCancel
<1> QED
  BY <1>1, <1>4, DividesCongruent

LEMMA PowerOfUnity ==
  ASSUME NEW N \in Nat \ {0}, NEW x \in Int, NEW d \in Nat, NEW j \in Nat,
         Congruent(Power(x, d), 1, N)
  PROVE  Congruent(Power(x, d * j), 1, N)
<1>1. Power(Power(x, d), j) = Power(x, d * j)
  BY PowerPower
<1>2. Power(x, d) \in Int /\ 1 \in Int
  BY PowerDef
<1>3. Congruent(Power(Power(x, d), j), Power(1, j), N)
  BY <1>2, CongruentPower
<1> QED
  BY <1>1, <1>3, PowerOfOne

(* Euler's theorem for a product of two primes.                            *)
LEMMA EulerTwoPrimes ==
  ASSUME NEW p \in Nat, IsPrime(p), NEW q \in Nat, IsPrime(q), p # q,
         NEW x \in Nat, Coprime(x, p * q)
  PROVE  Congruent(Power(x, (p - 1) * (q - 1)), 1, p * q)
<1>1. p \in Nat \ {0} /\ q \in Nat \ {0} /\ p - 1 \in Nat /\ q - 1 \in Nat /\ x \in Int
  BY DEF IsPrime
<1>2. Coprime(x, p) /\ Coprime(x, q)
  BY <1>1, CoprimeProduct
<1>3. Congruent(Power(x, p - 1), 1, p) /\ Congruent(Power(x, q - 1), 1, q)
  BY <1>2, Fermat
<1>4. Coprime(p, q)
  BY <1>1, PrimesCoprime
<1> DEFINE a == p - 1  b == q - 1
<1>5. a \in Nat /\ b \in Nat /\ a * b = b * a /\ a * b \in Nat
  BY <1>1
<1>6. Congruent(Power(x, a), 1, p) /\ Congruent(Power(x, b), 1, q)
  BY <1>3
<1> HIDE DEF a, b
<1>7. Congruent(Power(x, a * b), 1, p) /\ Congruent(Power(x, b * a), 1, q)
  BY <1>1, <1>5, <1>6, PowerOfUnity
<1>8. Power(x, a * b) \in Int /\ 1 \in Int
  BY <1>1, <1>5, PowerDef
<1>9. Congruent(Power(x, a * b), 1, p * q)
  BY <1>1, <1>4, <1>5, <1>7, <1>8, CongruentCombine
<1> QED
  BY <1>9 DEF a, b

(* If a prime r divides an exponent S under which G is one, and is needed  *)
(* there, it divides every exponent under which G is one.                  *)
LEMMA OrderNeeds ==
  ASSUME NEW N \in Nat \ {0}, NEW G \in Int, NEW r \in Nat, IsPrime(r), NEW R \in Nat,
         Congruent(Power(G, r * R), 1, N), ~Congruent(Power(G, R), 1, N),
         NEW m \in Nat, Congruent(Power(G, m), 1, N)
  PROVE  Divides(r, m)
<1> SUFFICES ASSUME ~Divides(r, m) PROVE FALSE
  OBVIOUS
<1>1. r \in Nat \ {0} /\ r > 1 /\ m \in Int
  BY DEF IsPrime
<1>2. ~Congruent(m, 0, r)
  BY <1>1, DividesCongruent
<1>3. Coprime(m, r)
  BY <1>1, <1>2, ResidueZero, PrimeCoprime
<1>4. PICK y0 \in Int : Congruent(m * y0, 1, r)
  BY <1>1, <1>3, UnitInverse
<1> DEFINE y == y0 % r
<1>5. y \in Nat /\ Congruent(y, y0, r)
  <2>1. y \in 0..(r - 1) /\ Congruent(y, y0, r)
    BY <1>1, CongruentResidue
  <2> HIDE DEF y
  <2> QED
    BY <1>1, <2>1
<1> HIDE DEF y
<1>6. y \in Int /\ m * y \in Int /\ m * y0 \in Int /\ 1 \in Int /\ m * y \in Nat
  BY <1>5
<1>7. Congruent(m * y, m * y0, r)
  BY <1>1, <1>5, <1>6, CongruentScale
<1>8. Congruent(m * y, 1, r)
  BY <1>4, <1>7, CongruentEquivalence
<1>9. PICK z \in Int : m * y = 1 + r * z
  BY <1>1, <1>6, <1>8, CongruentMultiple
<1>10. z \in Nat
  <2> SUFFICES ASSUME z < 0 PROVE FALSE
    OBVIOUS
  <2> DEFINE w == -1 - z
  <2>1. w \in Nat /\ z = -1 - w
    OBVIOUS
  <2> HIDE DEF w
  <2>2. r * z = -r - r * w /\ r * w >= 0
    BY <2>1
  <2>3. 1 + r * z < 0
    BY <1>1, <2>1, <2>2
  <2> QED
    BY <1>6, <1>9, <2>3
<1>11. (m * y) * R = R + (r * R) * z
  <2>1. (1 + r * z) * R = R + (r * R) * z
    BY <1>10
  <2> QED
    BY <1>9, <2>1
<1> DEFINE e == m * y  S == r * R
<1>12. e \in Nat /\ S \in Nat /\ S * z \in Nat /\ e * R \in Nat /\ e * R = R + S * z
       /\ m * (y * R) = e * R /\ y * R \in Nat
  <2>1. m * (y * R) = (m * y) * R
    BY <1>6
  <2> QED
    BY <1>5, <1>6, <1>10, <1>11, <2>1
<1>19. Congruent(Power(G, S), 1, N)
  OBVIOUS
<1> HIDE DEF e, S
<1>13. Congruent(Power(G, e * R), 1, N)
  <2>1. Congruent(Power(G, m * (y * R)), 1, N)
    BY <1>12, PowerOfUnity
  <2> QED
    BY <1>12, <2>1
<1>14. Congruent(Power(G, S * z), 1, N)
  BY <1>10, <1>12, <1>19, PowerOfUnity
<1>15. Power(G, e * R) = Power(G, R) * Power(G, S * z)
  <2>1. S * z \in Nat
    BY <1>12
  <2>2. Power(G, R + S * z) = Power(G, R) * Power(G, S * z)
    BY <2>1, PowerAdd
  <2> QED
    BY <1>12, <2>2
<1>16. Power(G, R) \in Int /\ Power(G, S * z) \in Int /\ 1 \in Int
  BY <1>12, PowerDef
<1>17. Congruent(Power(G, R) * Power(G, S * z), Power(G, R) * 1, N)
  BY <1>14, <1>16, CongruentScale
<1>18. Power(G, R) * 1 = Power(G, R)
  BY <1>16
<1> QED
  BY <1>13, <1>15, <1>17, <1>18, CongruentEquivalence

(* Multiplying by the inverse of a divisor is dividing by it.              *)
LEMMA ExactQuotient ==
  ASSUME NEW n \in Nat \ {0}, NEW d \in Nat \ {0}, Coprime(d, n), NEW c \in Nat,
         d * c < n
  PROVE  mod_mul(d * c, mod_inverse(d, n), n) = c
<1> DEFINE i == mod_inverse(d, n)
<1>1. i \in Nat /\ Congruent(d * i, 1, n)
  BY ModInverse
<1> HIDE DEF i
<1>2. i \in Int /\ c \in Int /\ d * i \in Int /\ d * c \in Int /\ 1 \in Int
  BY <1>1
<1>3. (d * c) * i = c * (d * i) /\ c * 1 = c
  BY <1>2
<1>4. Congruent(c * (d * i), c * 1, n)
  BY <1>1, <1>2, CongruentScale
<1>5. mod_mul(d * c, i, n) = ((d * c) * i) % n
  BY <1>2, ModMulIsProduct
<1>6. c % n = c
  <2>1. d * c >= c
    <3> DEFINE x == d - 1
    <3>1. x \in Nat /\ d = x + 1
      OBVIOUS
    <3> HIDE DEF x
    <3>2. (x + 1) * c = x * c + c /\ x * c >= 0
      BY <3>1
    <3> QED
      BY <3>1, <3>2
  <2>2. c < n
    BY <2>1, <1>2
  <2> QED
    BY <2>2
<1>7. ((d * c) * i) % n = c % n
  BY <1>3, <1>4 DEF Congruent
<1> QED
  BY <1>5, <1>6, <1>7 DEF i
----------------------------------------------------------------------------
(***************************************************************************)
(* The products u and v of the small primes.                               *)
(***************************************************************************)

(* The loop that multiplies a part of the list, one factor at a time.      *)
LEMMA MultiplyRecursion ==
  ASSUME NEW primes, NEW first \in Nat \ {0}, NEW top \in Nat,
         \A i \in first..top : primes[i] \in Nat
  PROVE  \A last \in 0..top :
           /\ multiply(primes, first, last) \in Int
           /\ last < first => multiply(primes, first, last) = 1
           /\ last >= first => multiply(primes, first, last)
                                = primes[last] * multiply(primes, first, last - 1)
<1> DEFINE f == [i \in Nat |-> IF i \in first..top THEN primes[i] ELSE 1]
<1>1. f \in [Nat -> Int]
  OBVIOUS
<1>2. \A i \in Nat : f[i] = IF i \in first..top THEN primes[i] ELSE 1
  OBVIOUS
<1> HIDE DEF f
<1>3. /\ Product(f, 0) = 1
      /\ \A j \in Nat : /\ Product(f, j) \in Int
                        /\ Product(f, j + 1) = f[j + 1] * Product(f, j)
  BY <1>1, ProductDef
<1>4. \A i \in Nat : i < first => Product(f, i) = 1
  <2> DEFINE S == {i \in Nat : i < first => Product(f, i) = 1}
  <2>1. 0 \in S
    BY <1>3
  <2>2. ASSUME NEW i \in Nat, i \in S PROVE i + 1 \in S
    <3> SUFFICES ASSUME i + 1 < first PROVE Product(f, i + 1) = 1
      OBVIOUS
    <3>1. Product(f, i) = 1 /\ i + 1 \notin first..top
      BY <2>2
    <3>2. f[i + 1] = 1
      BY <1>2, <3>1
    <3>3. Product(f, i + 1) = f[i + 1] * Product(f, i)
      BY <1>3
    <3> QED
      BY <3>1, <3>2, <3>3
  <2> HIDE DEF S
  <2>3. Nat \subseteq S
    BY <2>1, <2>2, Induction
  <2> QED
    BY <2>3 DEF S
<1>5. ASSUME NEW i \in Nat, i >= first, i <= top
      PROVE  Product(f, i) = primes[i] * Product(f, i - 1)
  <2>1. i - 1 \in Nat /\ (i - 1) + 1 = i /\ i \in first..top
    BY <1>5
  <2>2. Product(f, (i - 1) + 1) = f[(i - 1) + 1] * Product(f, i - 1)
    BY <1>3, <2>1
  <2>3. f[i] = primes[i]
    BY <1>2, <2>1
  <2> QED
    BY <2>1, <2>2, <2>3
<1>6. ASSUME NEW last \in 0..top
      PROVE  multiply(primes, first, last) = Product(f, last)
  <2> DEFINE body(h) == [i \in 0..last |->
                           IF i < first THEN 1 ELSE h[i - 1] * primes[i]]
             P == [i \in 0..last |-> Product(f, i)]
             g == CHOOSE h : h = body(h)
  <2>1. P = body(P)
    <3> SUFFICES ASSUME NEW i \in 0..last
                 PROVE  P[i] = IF i < first THEN 1 ELSE P[i - 1] * primes[i]
      OBVIOUS
    <3>1. CASE i < first
      BY <1>4, <3>1
    <3>2. CASE ~(i < first)
      <4>1. i - 1 \in 0..last /\ i - 1 \in Nat /\ i \in first..top
        BY <3>2
      <4>2. P[i - 1] = Product(f, i - 1) /\ P[i] = Product(f, i)
        BY <4>1
      <4>3. Product(f, i) = primes[i] * Product(f, i - 1)
        BY <1>5, <3>2
      <4>4. primes[i] \in Int /\ Product(f, i - 1) \in Int
        BY <1>3, <4>1
      <4> HIDE DEF P
      <4>5. P[i] = P[i - 1] * primes[i]
        BY <4>2, <4>3, <4>4
      <4> QED
        BY <3>2, <4>5
    <3> QED
      BY <3>1, <3>2
  <2>2. g = body(g)
    <3> HIDE DEF body
    <3> QED
      BY <2>1
  <2>3. multiply(primes, first, last) = g[last]
    BY DEF multiply
  <2> HIDE DEF g, P
  <2>4. \A i \in 0..last : g[i] = IF i < first THEN 1 ELSE g[i - 1] * primes[i]
    BY <2>2
  <2> HIDE DEF body
  <2> DEFINE S == {i \in Nat : i <= last => g[i] = Product(f, i)}
  <2>5. 0 \in S
    <3>1. 0 \in 0..last /\ 0 < first
      OBVIOUS
    <3>2. g[0] = 1
      BY <2>4, <3>1
    <3> QED
      BY <1>3, <3>2
  <2>6. ASSUME NEW i \in Nat, i \in S PROVE i + 1 \in S
    <3> SUFFICES ASSUME i + 1 <= last PROVE g[i + 1] = Product(f, i + 1)
      OBVIOUS
    <3>1. /\ g[i] = Product(f, i) /\ i + 1 \in 0..last /\ (i + 1) - 1 = i
          /\ i + 1 \in Nat
      BY <2>6
    <3>2. g[i + 1] = IF i + 1 < first THEN 1 ELSE g[i] * primes[i + 1]
      BY <2>4, <3>1
    <3>3. CASE i + 1 < first
      BY <1>4, <3>1, <3>2, <3>3
    <3>4. CASE ~(i + 1 < first)
      <4>1. i + 1 >= first /\ i + 1 <= top /\ i + 1 \in first..top
        BY <3>4
      <4>2. Product(f, i + 1) = primes[i + 1] * Product(f, (i + 1) - 1)
        BY <1>5, <3>1, <4>1
      <4>3. primes[i + 1] \in Int /\ Product(f, i) \in Int
        BY <1>3, <4>1
      <4> QED
        BY <3>1, <3>2, <3>4, <4>2, <4>3
    <3> QED
      BY <3>3, <3>4
  <2> HIDE DEF S
  <2>7. Nat \subseteq S
    BY <2>5, <2>6, Induction
  <2>8. last \in Nat /\ last \in S
    BY <2>7
  <2> QED
    BY <2>3, <2>8 DEF S
<1> SUFFICES ASSUME NEW last \in 0..top
             PROVE  /\ multiply(primes, first, last) \in Int
                    /\ last < first => multiply(primes, first, last) = 1
                    /\ last >= first => multiply(primes, first, last)
                                 = primes[last] * multiply(primes, first, last - 1)
  OBVIOUS
<1>7. multiply(primes, first, last) = Product(f, last) /\ last \in Nat /\ last <= top
  BY <1>6
<1>8. last >= first => multiply(primes, first, last - 1) = Product(f, last - 1)
  <2> SUFFICES ASSUME last >= first PROVE last - 1 \in 0..top
    BY <1>6
  <2> QED
    OBVIOUS
<1> QED
  BY <1>3, <1>4, <1>5, <1>7, <1>8

LEMMA MultiplyPositive ==
  ASSUME NEW primes, NEW first \in Nat \ {0}, NEW top \in Nat,
         \A i \in first..top : primes[i] \in Nat \ {0}
  PROVE  \A last \in 0..top : multiply(primes, first, last) \in Nat \ {0}
<1> DEFINE M(j) == multiply(primes, first, j)
           S == {j \in Nat : j <= top => M(j) \in Nat \ {0}}
<1>1. \A last \in 0..top : /\ last < first => M(last) = 1
                           /\ last >= first => M(last) = primes[last] * M(last - 1)
  BY MultiplyRecursion
<1> HIDE DEF M
<1>2. 0 \in S
  BY <1>1
<1>3. ASSUME NEW j \in Nat, j \in S PROVE j + 1 \in S
  <2> SUFFICES ASSUME j + 1 <= top, j + 1 >= first PROVE M(j + 1) \in Nat \ {0}
    BY <1>1
  <2>1. M(j) \in Nat \ {0} /\ j + 1 \in 0..top /\ j + 1 \in first..top /\ (j + 1) - 1 = j
    BY <1>3
  <2>2. M(j + 1) = primes[j + 1] * M(j) /\ primes[j + 1] \in Nat \ {0}
    BY <1>1, <2>1
  <2> QED
    BY <2>1, <2>2
<1> HIDE DEF S
<1>4. Nat \subseteq S
  BY <1>2, <1>3, Induction
<1> QED
  BY <1>4 DEF S, M

(* What is coprime to every prime is coprime to their product.             *)
LEMMA MultiplyCoprime ==
  ASSUME NEW primes, NEW first \in Nat \ {0}, NEW top \in Nat,
         \A i \in first..top : primes[i] \in Nat \ {0},
         NEW x \in Nat \ {0}, \A i \in first..top : Coprime(primes[i], x)
  PROVE  \A last \in 0..top : Coprime(multiply(primes, first, last), x)
<1> DEFINE M(j) == multiply(primes, first, j)
           S == {j \in Nat : j <= top => Coprime(M(j), x)}
<1>1. \A last \in 0..top : /\ last < first => M(last) = 1
                           /\ last >= first => M(last) = primes[last] * M(last - 1)
  BY MultiplyRecursion
<1>5. \A last \in 0..top : M(last) \in Nat
  BY MultiplyPositive
<1> HIDE DEF M
<1>6. Coprime(1, x)
  BY CoprimeOne
<1>2. 0 \in S
  BY <1>1, <1>6
<1>3. ASSUME NEW j \in Nat, j \in S PROVE j + 1 \in S
  <2> SUFFICES ASSUME j + 1 <= top, j + 1 >= first PROVE Coprime(M(j + 1), x)
    BY <1>1, <1>6
  <2>1. /\ Coprime(M(j), x) /\ j + 1 \in 0..top /\ j + 1 \in first..top
        /\ (j + 1) - 1 = j /\ j \in 0..top
    BY <1>3
  <2>2. /\ M(j + 1) = primes[j + 1] * M(j) /\ primes[j + 1] \in Nat
        /\ Coprime(primes[j + 1], x) /\ M(j) \in Nat
    BY <1>1, <1>5, <2>1
  <2> QED
    BY <2>1, <2>2, CoprimeMul
<1> HIDE DEF S
<1>4. Nat \subseteq S
  BY <1>2, <1>3, Induction
<1> QED
  BY <1>4 DEF S, M

(* Every prime of the part divides the product.                            *)
LEMMA MultiplyDivides ==
  ASSUME NEW primes, NEW first \in Nat \ {0}, NEW top \in Nat,
         \A i \in first..top : primes[i] \in Nat \ {0}
  PROVE  \A last \in 0..top : \A i \in first..last :
           Divides(primes[i], multiply(primes, first, last))
<1> DEFINE M(j) == multiply(primes, first, j)
           S == {j \in Nat : j <= top => \A i \in first..j : Divides(primes[i], M(j))}
<1>1. \A last \in 0..top : last >= first => M(last) = primes[last] * M(last - 1)
  BY MultiplyRecursion
<1>5. \A last \in 0..top : M(last) \in Int
  BY MultiplyPositive
<1> HIDE DEF M
<1>2. 0 \in S
  OBVIOUS
<1>3. ASSUME NEW j \in Nat, j \in S PROVE j + 1 \in S
  <2> SUFFICES ASSUME j + 1 <= top, NEW i \in first..(j + 1)
               PROVE  Divides(primes[i], M(j + 1))
    OBVIOUS
  <2>1. /\ j + 1 \in 0..top /\ j + 1 \in first..top
        /\ (j + 1) - 1 = j /\ j \in 0..top /\ i \in first..top
    OBVIOUS
  <2>2. /\ M(j + 1) = primes[j + 1] * M(j) /\ primes[j + 1] \in Int
        /\ M(j) \in Int /\ primes[i] \in Int
    BY <1>1, <1>5, <2>1
  <2>3. CASE i = j + 1
    <3>1. Divides(primes[j + 1], primes[j + 1] * M(j))
      BY <2>2 DEF Divides
    <3> QED
      BY <2>2, <2>3, <3>1
  <2>4. CASE i # j + 1
    <3>1. i \in first..j
      BY <2>4
    <3>2. Divides(primes[i], M(j))
      BY <1>3, <2>1, <3>1
    <3> QED
      BY <2>2, <3>2, DividesProduct
  <2> QED
    BY <2>3, <2>4
<1> HIDE DEF S
<1>4. Nat \subseteq S
  BY <1>2, <1>3, Induction
<1> QED
  BY <1>4 DEF S, M

(* What all of them divide, their product divides.                         *)
LEMMA MultiplyLeast ==
  ASSUME NEW primes, NEW first \in Nat \ {0}, NEW top \in Nat,
         \A i \in first..top : primes[i] \in Nat \ {0},
         \A i, j \in first..top : i # j => Coprime(primes[i], primes[j]),
         NEW m \in Int, \A i \in first..top : Divides(primes[i], m)
  PROVE  \A last \in 0..top : Divides(multiply(primes, first, last), m)
<1> DEFINE M(j) == multiply(primes, first, j)
           S == {j \in Nat : j <= top => Divides(M(j), m)}
<1>1. \A last \in 0..top : /\ last < first => M(last) = 1
                           /\ last >= first => M(last) = primes[last] * M(last - 1)
  BY MultiplyRecursion
<1>5. \A last \in 0..top : M(last) \in Nat \ {0}
  BY MultiplyPositive
<1>7. ASSUME NEW j \in 0..top, j + 1 \in first..top
      PROVE  Coprime(M(j), primes[j + 1])
  <2>1. j \in Nat /\ primes[j + 1] \in Nat \ {0} /\ j \in 0..j
    BY <1>7
  <2>2. \A i \in first..j : primes[i] \in Nat \ {0} /\ Coprime(primes[i], primes[j + 1])
    BY <1>7
  <2> QED
    BY <2>1, <2>2, MultiplyCoprime
<1> HIDE DEF M
<1>6. Divides(1, m)
  <2>1. m = 1 * m
    OBVIOUS
  <2> QED
    BY <2>1 DEF Divides
<1>2. 0 \in S
  BY <1>1, <1>6
<1>3. ASSUME NEW j \in Nat, j \in S PROVE j + 1 \in S
  <2> SUFFICES ASSUME j + 1 <= top, j + 1 >= first PROVE Divides(M(j + 1), m)
    BY <1>1, <1>6
  <2>1. /\ Divides(M(j), m) /\ j + 1 \in 0..top /\ j + 1 \in first..top
        /\ (j + 1) - 1 = j /\ j \in 0..top
    BY <1>3
  <2>2. /\ M(j + 1) = primes[j + 1] * M(j) /\ primes[j + 1] \in Nat \ {0}
        /\ Divides(primes[j + 1], m) /\ M(j) \in Nat \ {0}
        /\ Coprime(M(j), primes[j + 1])
    BY <1>1, <1>5, <1>7, <2>1
  <2> DEFINE a == M(j)  b == primes[j + 1]
  <2>3. a \in Nat \ {0} /\ b \in Nat \ {0} /\ Coprime(a, b) /\ M(j + 1) = b * a
        /\ Divides(a, m) /\ Divides(b, m) /\ 0 \in Int
    BY <2>1, <2>2
  <2> HIDE DEF a, b
  <2>4. Congruent(m, 0, a) /\ Congruent(m, 0, b)
    BY <2>3, DividesCongruent
  <2>5. Congruent(m, 0, a * b)
    BY <2>3, <2>4, CongruentCombine
  <2>6. a * b \in Nat \ {0} /\ a * b = b * a
    BY <2>3
  <2> QED
    BY <2>3, <2>5, <2>6, DividesCongruent
<1> HIDE DEF S
<1>4. Nat \subseteq S
  BY <1>2, <1>3, Induction
<1> QED
  BY <1>4 DEF S, M

----------------------------------------------------------------------------
(***************************************************************************)
(* The numbers of a key.                                                   *)
(***************************************************************************)

(* Both halves of the list of small primes have a prime, and there are     *)
(* bits left for the large factors of p-1 and q-1: without them KeyGen has *)
(* no prime a to draw.                                                     *)
Sized == k >= 2 /\ lambda \div 2 > B + 2

IsList(P) == /\ P \in [1..k -> PrimesOfBits(B)]
             /\ \A i, j \in 1..k : P[i] = P[j] => i = j

LEMMA Parameters ==
  /\ lambda \in Nat \ {0} /\ k \in Nat \ {0} /\ B \in Nat \ {0}
  /\ lambda \div 2 \in Int
  /\ k \div 2 \in Nat /\ k \div 2 <= k
  /\ k >= 2 => k \div 2 >= 1 /\ k \div 2 + 1 <= k
  /\ k >= 3 => k \div 2 + 1 <= k - 1
<1>1. lambda \in Nat \ {0} /\ k \in Nat \ {0} /\ B \in Nat \ {0}
  BY ParameterAssumption
<1> QED
  BY <1>1

LEMMA PrimesOfBitsArePrimes ==
  ASSUME NEW len, NEW x \in PrimesOfBits(len)
  PROVE  x \in Nat \ {0} /\ IsPrime(x)
<1>1. x \in Int /\ IsPrime(x)
  BY DEF PrimesOfBits
<1> QED
  BY <1>1 DEF IsPrime

LEMMA PrimesOfBitsBounds ==
  ASSUME NEW len \in Nat \ {0}, NEW x \in PrimesOfBits(len)
  PROVE  two_to[len - 1] <= x /\ x < two_to[len] /\ two_to[len] = 2 * two_to[len - 1]
<1>1. len - 1 \in Nat /\ (len - 1) + 1 = len
  OBVIOUS
<1>2. two_to[len - 1] \in Nat \ {0} /\ two_to[len] = 2 * two_to[len - 1]
  BY <1>1, TwoTo
<1>3. two_to[len] \in Nat
  BY <1>2
<1>4. x \in two_to[len - 1]..(two_to[len] - 1)
  BY DEF PrimesOfBits
<1> QED
  BY <1>2, <1>3, <1>4

LEMMA TwoToGrows ==
  /\ \A n \in Nat : two_to[n] > n
  /\ \A n, j \in Nat : two_to[n + j] >= two_to[n]
<1>1. \A n \in Nat : two_to[n] > n
  <2> DEFINE S == {n \in Nat : two_to[n] > n}
  <2>1. 0 \in S
    BY TwoTo
  <2>2. ASSUME NEW n \in Nat, n \in S PROVE n + 1 \in S
    <3>1. two_to[n] \in Nat /\ two_to[n + 1] = 2 * two_to[n] /\ two_to[n] > n
      BY <2>2, TwoTo
    <3>2. two_to[n + 1] > n + 1
      BY <3>1
    <3> QED
      BY <3>2
  <2> HIDE DEF S
  <2>3. Nat \subseteq S
    BY <2>1, <2>2, Induction
  <2> QED
    BY <2>3 DEF S
<1>2. ASSUME NEW n \in Nat PROVE \A j \in Nat : two_to[n + j] >= two_to[n]
  <2> DEFINE S == {j \in Nat : two_to[n + j] >= two_to[n]}
  <2>1. 0 \in S
    <3>1. n + 0 = n /\ two_to[n] \in Nat
      BY TwoTo
    <3> QED
      BY <3>1
  <2>2. ASSUME NEW j \in Nat, j \in S PROVE j + 1 \in S
    <3>0. n + j \in Nat /\ n + (j + 1) = (n + j) + 1
      OBVIOUS
    <3>1. /\ two_to[n + j] \in Nat /\ two_to[(n + j) + 1] = 2 * two_to[n + j]
          /\ two_to[n] \in Nat /\ two_to[n + j] >= two_to[n]
      BY <2>2, <3>0, TwoTo
    <3>2. two_to[n + (j + 1)] >= two_to[n]
      BY <3>0, <3>1
    <3> QED
      BY <3>2
  <2> HIDE DEF S
  <2>3. Nat \subseteq S
    BY <2>1, <2>2, Induction
  <2> QED
    BY <2>3 DEF S
<1> QED
  BY <1>1, <1>2

(* A number has one length.                                                *)
LEMMA BitsUnique ==
  ASSUME NEW x \in Nat, NEW l1 \in Nat \ {0}, NEW l2 \in Nat \ {0},
         HasBits(x, l1), HasBits(x, l2)
  PROVE  l1 = l2
<1>1. ASSUME NEW a \in Nat \ {0}, NEW b \in Nat \ {0}, a < b,
             HasBits(x, a), HasBits(x, b)
      PROVE  FALSE
  <2> DEFINE j == (b - 1) - a
  <2>1. j \in Nat /\ a + j = b - 1 /\ b - 1 \in Nat
    BY <1>1
  <2> HIDE DEF j
  <2>2. two_to[b - 1] >= two_to[a]
    BY <2>1, TwoToGrows
  <2>3. two_to[b - 1] <= x /\ x < two_to[a]
    BY <1>1 DEF HasBits
  <2>4. two_to[b - 1] \in Nat /\ two_to[a] \in Nat
    BY <2>1, TwoTo
  <2> QED
    BY <2>2, <2>3, <2>4
<1> QED
  BY <1>1

LEMMA NumBits ==
  ASSUME NEW len \in Nat \ {0}, NEW x \in PrimesOfBits(len)
  PROVE  num_bits(x) = len
<1>1. HasBits(x, len) /\ x \in Nat
  BY PrimesOfBitsBounds, PrimesOfBitsArePrimes DEF HasBits
<1>2. len \in 1..x
  <2>1. len - 1 \in Nat
    OBVIOUS
  <2>2. two_to[len - 1] > len - 1 /\ two_to[len - 1] \in Nat /\ two_to[len - 1] <= x
    BY <2>1, TwoToGrows, TwoTo, <1>1 DEF HasBits
  <2> QED
    BY <1>1, <2>2
<1>3. num_bits(x) \in 1..x /\ HasBits(x, num_bits(x))
  BY <1>1, <1>2 DEF num_bits
<1>4. num_bits(x) \in Nat \ {0}
  BY <1>1, <1>3
<1> QED
  BY <1>1, <1>3, <1>4, BitsUnique

LEMMA ListFacts ==
  ASSUME NEW P, IsList(P)
  PROVE  /\ \A i \in 1..k : P[i] \in Nat \ {0} /\ IsPrime(P[i])
         /\ \A i, j \in 1..k : P[i] < 2 * P[j]
         /\ \A i, j \in 1..k : i # j => Coprime(P[i], P[j])
<1>1. \A i \in 1..k : P[i] \in PrimesOfBits(B)
  BY DEF IsList
<1>2. \A i \in 1..k : P[i] \in Nat \ {0} /\ IsPrime(P[i])
  BY <1>1, PrimesOfBitsArePrimes
<1>3. ASSUME NEW i \in 1..k, NEW j \in 1..k PROVE P[i] < 2 * P[j]
  <2>1. B \in Nat \ {0} /\ two_to[B - 1] \in Nat
    <3>1. B \in Nat \ {0} /\ B - 1 \in Nat
      BY Parameters
    <3> QED
      BY <3>1, TwoTo
  <2>2. two_to[B - 1] <= P[j] /\ P[i] < two_to[B] /\ two_to[B] = 2 * two_to[B - 1]
    BY <1>1, <2>1, PrimesOfBitsBounds
  <2> QED
    BY <1>2, <2>1, <2>2
<1>4. ASSUME NEW i \in 1..k, NEW j \in 1..k, i # j PROVE Coprime(P[i], P[j])
  <2>1. P[i] # P[j]
    BY <1>4 DEF IsList
  <2>2. /\ P[i] \in Nat /\ IsPrime(P[i]) /\ P[i] # 0
        /\ P[j] \in Nat /\ IsPrime(P[j])
    BY <1>2
  <2> DEFINE x == P[i]  y == P[j]
  <2>3. x > y \/ x < y
    BY <2>1, <2>2
  <2> QED
    BY <2>2, <2>3, PrimesCoprime
<1> QED
  BY <1>2, <1>3, <1>4

(* What u and v are good for.                                              *)
LEMMA UVFacts ==
  ASSUME NEW P, IsList(P)
  PROVE  /\ u(P, k) \in Nat \ {0} /\ v(P, k) \in Nat \ {0}
         /\ \A i \in 1..(k \div 2) : Divides(P[i], u(P, k)) /\ Coprime(v(P, k), P[i])
         /\ \A i \in (k \div 2 + 1)..k : Divides(P[i], v(P, k)) /\ Coprime(u(P, k), P[i])
         /\ Coprime(u(P, k), v(P, k))
         /\ \A x \in Nat \ {0} : (\A i \in 1..k : Coprime(P[i], x))
              => Coprime(u(P, k), x) /\ Coprime(v(P, k), x)
         /\ \A x \in Int : (\A i \in 1..k : Divides(P[i], x))
              => Divides(u(P, k) * v(P, k), x)
<1> DEFINE h == k \div 2  U == u(P, k)  V == v(P, k)
<1>1. h \in Nat /\ h + 1 \in Nat \ {0} /\ h <= k /\ 1 \in Nat \ {0} /\ k \in Nat
      /\ h \in 0..h /\ k \in 0..k
  BY Parameters
<1> HIDE DEF h
<1>2. /\ \A i \in 1..h : P[i] \in Nat \ {0} /\ i \in 1..k
      /\ \A i \in (h + 1)..k : P[i] \in Nat \ {0} /\ i \in 1..k
      /\ \A i, j \in 1..k : i # j => Coprime(P[i], P[j])
      /\ \A i \in 1..k : P[i] \in Nat \ {0}
  BY <1>1, ListFacts
<1>3. U = multiply(P, 1, h) /\ V = multiply(P, h + 1, k)
  BY DEF u, v, h
<1> HIDE DEF U, V
<1>4. U \in Nat \ {0} /\ V \in Nat \ {0}
  <2>1. multiply(P, 1, h) \in Nat \ {0}
    BY <1>1, <1>2, MultiplyPositive
  <2>2. multiply(P, h + 1, k) \in Nat \ {0}
    BY <1>1, <1>2, MultiplyPositive
  <2> QED
    BY <1>3, <2>1, <2>2
<1>5. ASSUME NEW x \in Nat \ {0}, \A i \in 1..h : Coprime(P[i], x)
      PROVE  Coprime(U, x)
  <2>1. 1 \in Nat \ {0} /\ h \in Nat /\ h \in 0..h
    BY <1>1
  <2>2. \A i \in 1..h : P[i] \in Nat \ {0} /\ Coprime(P[i], x)
    BY <1>2, <1>5
  <2>3. Coprime(multiply(P, 1, h), x)
    BY <2>1, <2>2, MultiplyCoprime
  <2> QED
    BY <1>3, <2>3
<1>6. ASSUME NEW x \in Nat \ {0}, \A i \in (h + 1)..k : Coprime(P[i], x)
      PROVE  Coprime(V, x)
  <2>1. h + 1 \in Nat \ {0} /\ k \in Nat /\ k \in 0..k
    BY <1>1
  <2>2. \A i \in (h + 1)..k : P[i] \in Nat \ {0} /\ Coprime(P[i], x)
    BY <1>2, <1>6
  <2>3. Coprime(multiply(P, h + 1, k), x)
    BY <2>1, <2>2, MultiplyCoprime
  <2> QED
    BY <1>3, <2>3
<1>7. \A i \in 1..h : Divides(P[i], U) /\ Coprime(V, P[i])
  <2> SUFFICES ASSUME NEW i \in 1..h PROVE Divides(P[i], U) /\ Coprime(V, P[i])
    OBVIOUS
  <2>1. Divides(P[i], U)
    BY <1>1, <1>2, <1>3, MultiplyDivides
  <2>2. \A j \in (h + 1)..k : Coprime(P[j], P[i])
    <3>1. \A j \in (h + 1)..k : j # i
      BY <1>1
    <3> QED
      BY <1>2, <3>1
  <2> QED
    BY <1>2, <1>6, <2>1, <2>2
<1>8. \A i \in (h + 1)..k : Divides(P[i], V) /\ Coprime(U, P[i])
  <2> SUFFICES ASSUME NEW i \in (h + 1)..k PROVE Divides(P[i], V) /\ Coprime(U, P[i])
    OBVIOUS
  <2>1. Divides(P[i], V)
    BY <1>1, <1>2, <1>3, MultiplyDivides
  <2>2. \A j \in 1..h : Coprime(P[j], P[i])
    <3>1. \A j \in 1..h : j # i
      BY <1>1
    <3> QED
      BY <1>2, <3>1
  <2> QED
    BY <1>2, <1>5, <2>1, <2>2
<1>9. Coprime(U, V)
  <2>1. \A i \in 1..h : Coprime(P[i], V)
    <3> SUFFICES ASSUME NEW i \in 1..h PROVE Coprime(P[i], V)
      OBVIOUS
    <3>1. P[i] \in Nat /\ V \in Nat /\ Coprime(V, P[i])
      BY <1>2, <1>4, <1>7
    <3> QED
      BY <3>1, CoprimeSymmetric
  <2> QED
    BY <1>4, <1>5, <2>1
<1>10. ASSUME NEW x \in Int, \A i \in 1..k : Divides(P[i], x)
       PROVE  Divides(U * V, x)
  <2>1. Divides(U, x)
    <3>1. 1 \in Nat \ {0} /\ h \in Nat /\ h \in 0..h
      BY <1>1
    <3>2. /\ \A i \in 1..h : P[i] \in Nat \ {0}
          /\ \A i, j \in 1..h : i # j => Coprime(P[i], P[j])
          /\ \A i \in 1..h : Divides(P[i], x)
      BY <1>2, <1>10
    <3>3. Divides(multiply(P, 1, h), x)
      BY <3>1, <3>2, MultiplyLeast
    <3> QED
      BY <1>3, <3>3
  <2>2. Divides(V, x)
    <3>1. h + 1 \in Nat \ {0} /\ k \in Nat /\ k \in 0..k
      BY <1>1
    <3>2. /\ \A i \in (h + 1)..k : P[i] \in Nat \ {0}
          /\ \A i, j \in (h + 1)..k : i # j => Coprime(P[i], P[j])
          /\ \A i \in (h + 1)..k : Divides(P[i], x)
      BY <1>2, <1>10
    <3>3. Divides(multiply(P, h + 1, k), x)
      BY <3>1, <3>2, MultiplyLeast
    <3> QED
      BY <1>3, <3>3
  <2>3. Congruent(x, 0, U) /\ Congruent(x, 0, V) /\ 0 \in Int /\ U * V \in Nat \ {0}
    BY <1>4, <2>1, <2>2, DividesCongruent
  <2>4. Congruent(x, 0, U * V)
    BY <1>4, <1>9, <2>3, CongruentCombine
  <2> QED
    BY <2>3, <2>4, DividesCongruent
<1>11. ASSUME NEW x \in Nat \ {0}, \A i \in 1..k : Coprime(P[i], x)
       PROVE  Coprime(U, x) /\ Coprime(V, x)
  BY <1>2, <1>5, <1>6, <1>11
<1>12. /\ U \in Nat \ {0} /\ V \in Nat \ {0} /\ Coprime(U, V)
       /\ \A i \in 1..h : Divides(P[i], U) /\ Coprime(V, P[i])
       /\ \A i \in (h + 1)..k : Divides(P[i], V) /\ Coprime(U, P[i])
       /\ \A x \in Nat \ {0} : (\A i \in 1..k : Coprime(P[i], x))
            => Coprime(U, x) /\ Coprime(V, x)
       /\ \A x \in Int : (\A i \in 1..k : Divides(P[i], x)) => Divides(U * V, x)
  BY <1>4, <1>7, <1>8, <1>9, <1>10, <1>11
<1> QED
  BY <1>12 DEF U, V, h

(* The primes that divide p-1 and q-1 and what is left of them.            *)
LEMMA FactorForm ==
  ASSUME NEW P, IsList(P), NEW p \in FactorsP(P, k, lambda),
         NEW q \in FactorsQ(P, k, lambda, p)
  PROVE  /\ p \in Nat /\ IsPrime(p) /\ q \in Nat /\ IsPrime(q)
         /\ HasBits(p * q, lambda)
         /\ \E a, b : /\ a \in PrimesOfBits(lambda \div 2 - num_bits(u(P, k)) - 1)
                      /\ b \in PrimesOfBits(lambda \div 2 - num_bits(v(P, k)))
                      /\ p = 2 * a * u(P, k) + 1
                      /\ q = 2 * b * v(P, k) + 1
<1>1. u(P, k) \in Nat \ {0} /\ v(P, k) \in Nat \ {0}
  BY UVFacts
<1>2. PICK a \in PrimesOfBits(lambda \div 2 - num_bits(u(P, k)) - 1) :
           p = 2 * a * u(P, k) + 1 /\ IsPrime(p)
  BY DEF FactorsP
<1>3. PICK b \in PrimesOfBits(lambda \div 2 - num_bits(v(P, k))) :
           q = 2 * b * v(P, k) + 1 /\ IsPrime(q) /\ HasBits(p * q, lambda)
  BY DEF FactorsQ
<1>4. a \in Nat /\ b \in Nat
  BY PrimesOfBitsArePrimes
<1>5. p \in Nat /\ q \in Nat
  BY <1>1, <1>2, <1>3, <1>4
<1> QED
  BY <1>2, <1>3, <1>5

(* p and q are never the same prime.                                       *)
LEMMA FactorsDiffer ==
  ASSUME Sized, NEW P, IsList(P), NEW p \in FactorsP(P, k, lambda),
         NEW q \in FactorsQ(P, k, lambda, p)
  PROVE  p # q
<1> SUFFICES ASSUME p = q PROVE FALSE
  OBVIOUS
<1> DEFINE U == u(P, k)  V == v(P, k)
<1>1. PICK a, b : /\ a \in PrimesOfBits(lambda \div 2 - num_bits(U) - 1)
                  /\ b \in PrimesOfBits(lambda \div 2 - num_bits(V))
                  /\ p = 2 * a * U + 1
                  /\ q = 2 * b * V + 1
  BY FactorForm
<1>2. /\ U \in Nat \ {0} /\ V \in Nat \ {0}
      /\ \A i \in 1..(k \div 2) : Divides(P[i], U) /\ Coprime(V, P[i])
      /\ \A i \in (k \div 2 + 1)..k : Divides(P[i], V) /\ Coprime(U, P[i])
  BY UVFacts
<1>3. a \in Nat \ {0} /\ IsPrime(a) /\ b \in Nat \ {0} /\ IsPrime(b)
  BY <1>1, PrimesOfBitsArePrimes
<1>4. \A i \in 1..k : P[i] \in Nat \ {0} /\ IsPrime(P[i])
  BY ListFacts
<1> HIDE DEF U, V
<1>5. a * U = V * b /\ V * b = U * a
  <2>1. 2 * a * U = 2 * (a * U) /\ 2 * b * V = 2 * (V * b)
    BY <1>2, <1>3
  <2>2. a * U \in Int /\ V * b \in Int /\ a * U = U * a
    BY <1>2, <1>3
  <2>3. 2 * (a * U) + 1 = 2 * (V * b) + 1
    BY <1>1, <2>1
  <2> QED
    BY <2>2, <2>3
<1>6. ASSUME NEW i \in 1..k, i <= k \div 2 PROVE P[i] = b
  <2>1. i \in 1..(k \div 2)
    BY <1>6, Parameters
  <2>2. Divides(P[i], U) /\ Coprime(V, P[i])
    BY <1>2, <2>1
  <2>3. P[i] \in Nat /\ IsPrime(P[i]) /\ P[i] \in Int /\ U \in Int /\ a \in Int
    BY <1>2, <1>3, <1>4
  <2>4. Divides(P[i], a * U)
    BY <2>2, <2>3, DividesProduct
  <2>5. Divides(P[i], V * b)
    BY <1>5, <2>4
  <2>6. Divides(P[i], b)
    BY <1>2, <1>3, <2>2, <2>3, <2>5, PrimeDividesFactor
  <2> QED
    BY <1>3, <2>3, <2>6, PrimeDividesPrime
<1>7. ASSUME NEW i \in 1..k, i > k \div 2 PROVE P[i] = a
  <2>1. i \in (k \div 2 + 1)..k
    BY <1>7, Parameters
  <2>2. Divides(P[i], V) /\ Coprime(U, P[i])
    BY <1>2, <2>1
  <2>3. P[i] \in Nat /\ IsPrime(P[i]) /\ P[i] \in Int /\ V \in Int /\ b \in Int
    BY <1>2, <1>3, <1>4
  <2>4. Divides(P[i], V * b)
    BY <2>2, <2>3, DividesProduct
  <2>5. Divides(P[i], U * a)
    BY <1>5, <2>4
  <2>6. Divides(P[i], a)
    BY <1>2, <1>3, <2>2, <2>3, <2>5, PrimeDividesFactor
  <2> QED
    BY <1>3, <2>3, <2>6, PrimeDividesPrime
<1>8. CASE k >= 3
  <2>1. k - 1 \in 1..k /\ k \in 1..k /\ k - 1 > k \div 2 /\ k > k \div 2 /\ k # k - 1
    BY <1>8, Parameters
  <2>2. P[k - 1] = P[k]
    BY <1>7, <2>1
  <2> QED
    BY <2>1, <2>2 DEF IsList
<1>9. CASE k = 2
  <2>1. k \div 2 = 1 /\ 1 \in 1..k /\ 2 \in 1..k /\ 1 <= k \div 2 /\ 2 > k \div 2
    BY <1>9
  <2>2. P[1] = b /\ P[2] = a
    BY <1>6, <1>7, <2>1
  <2>3. P[1] \in PrimesOfBits(B) /\ P[2] \in PrimesOfBits(B)
    BY <2>1 DEF IsList
  <2>4. U = P[1] /\ V = P[2]
    <3>1. U = multiply(P, 1, 1) /\ V = multiply(P, 2, 2)
      BY <1>9, <2>1 DEF u, v, U, V
    <3>2. P[1] \in Nat /\ P[2] \in Nat
      BY <1>4, <2>1
    <3>3. multiply(P, 1, 1) = P[1]
      <4>1. 1 \in Nat \ {0} /\ 1 \in Nat /\ 1 \in 0..1 /\ 0 \in 0..1 /\ 1 - 1 = 0
            /\ \A i \in 1..1 : P[i] \in Nat
        BY <3>2
      <4>2. \A last \in 0..1 :
              /\ last < 1 => multiply(P, 1, last) = 1
              /\ last >= 1 => multiply(P, 1, last) = P[last] * multiply(P, 1, last - 1)
        BY <4>1, MultiplyRecursion
      <4>3. multiply(P, 1, 0) = 1 /\ multiply(P, 1, 1) = P[1] * multiply(P, 1, 0)
        BY <4>1, <4>2
      <4> QED
        BY <3>2, <4>3
    <3>4. multiply(P, 2, 2) = P[2]
      <4>1. 2 \in Nat \ {0} /\ 2 \in Nat /\ 2 \in 0..2 /\ 1 \in 0..2 /\ 2 - 1 = 1
            /\ \A i \in 2..2 : P[i] \in Nat
        BY <3>2
      <4>2. \A last \in 0..2 :
              /\ last < 2 => multiply(P, 2, last) = 1
              /\ last >= 2 => multiply(P, 2, last) = P[last] * multiply(P, 2, last - 1)
        BY <4>1, MultiplyRecursion
      <4>3. multiply(P, 2, 1) = 1 /\ multiply(P, 2, 2) = P[2] * multiply(P, 2, 1)
        BY <4>1, <4>2
      <4> QED
        BY <3>2, <4>3
    <3> QED
      BY <3>1, <3>3, <3>4
  <2>5. B \in Nat \ {0} /\ lambda \div 2 \in Int /\ lambda \div 2 > B + 2
    BY Parameters DEF Sized
  <2>6. num_bits(U) = B /\ num_bits(V) = B
    BY <2>3, <2>4, <2>5, NumBits
  <2> DEFINE l1 == lambda \div 2 - B - 1  l2 == lambda \div 2 - B
  <2>7. l1 \in Nat \ {0} /\ l2 \in Nat \ {0} /\ l1 # l2
    BY <2>5
  <2>8. a \in PrimesOfBits(l1) /\ b \in PrimesOfBits(l2)
    BY <1>1, <2>6
  <2> HIDE DEF l1, l2
  <2>9. num_bits(a) = l1 /\ num_bits(b) = l2 /\ num_bits(a) = B /\ num_bits(b) = B
    BY <2>2, <2>3, <2>5, <2>7, <2>8, NumBits
  <2> QED
    BY <2>7, <2>9
<1> QED
  BY <1>8, <1>9, Parameters DEF Sized

(* sigma, and what is left of (p-1)(q-1) when sigma is divided out.        *)
Sigma(P) == u(P, k) * v(P, k)
Cofactor(P, p, q, e) == e \in Nat \ {0} /\ (p - 1) * (q - 1) = Sigma(P) * e

LEMMA CofactorExists ==
  ASSUME NEW P, IsList(P), NEW p \in FactorsP(P, k, lambda),
         NEW q \in FactorsQ(P, k, lambda, p)
  PROVE  \E e : Cofactor(P, p, q, e)
<1> DEFINE U == u(P, k)  V == v(P, k)
<1>1. PICK a, b : /\ a \in PrimesOfBits(lambda \div 2 - num_bits(U) - 1)
                  /\ b \in PrimesOfBits(lambda \div 2 - num_bits(V))
                  /\ p = 2 * a * U + 1
                  /\ q = 2 * b * V + 1
  BY FactorForm
<1>2. U \in Nat \ {0} /\ V \in Nat \ {0}
  BY UVFacts
<1>3. a \in Nat \ {0} /\ b \in Nat \ {0}
  BY <1>1, PrimesOfBitsArePrimes
<1>4. Sigma(P) = U * V
  BY DEF Sigma
<1> HIDE DEF U, V
<1>5. p - 1 = 2 * a * U /\ q - 1 = 2 * b * V
  BY <1>1, <1>2, <1>3
<1> DEFINE e == 4 * (a * b)
<1>6. (2 * a * U) * (2 * b * V) = (U * V) * e
  BY <1>2, <1>3
<1>7. e \in Nat \ {0}
  <2>1. a * b \in Nat \ {0}
    BY <1>3
  <2> DEFINE w == a * b
  <2> HIDE DEF w
  <2>2. 4 * w \in Nat \ {0}
    BY <2>1 DEF w
  <2> QED
    BY <2>2 DEF w
<1> HIDE DEF e
<1>8. Cofactor(P, p, q, e)
  BY <1>4, <1>5, <1>6, <1>7 DEF Cofactor
<1> QED
  BY <1>8

(* Sizes, and n is coprime to the small primes.                            *)
LEMMA ModulusFacts ==
  ASSUME Sized, NEW P, IsList(P), NEW p \in FactorsP(P, k, lambda),
         NEW q \in FactorsQ(P, k, lambda, p)
  PROVE  /\ p * q \in Nat \ {0} /\ p * q > 1 /\ (p - 1) * (q - 1) < p * q
         /\ Sigma(P) \in Nat \ {0}
         /\ \A i \in 1..k : Coprime(P[i], p * q)
         /\ Coprime(Sigma(P), p * q)
<1> DEFINE U == u(P, k)  V == v(P, k)  h == k \div 2
<1>1. PICK a, b : /\ a \in PrimesOfBits(lambda \div 2 - num_bits(U) - 1)
                  /\ b \in PrimesOfBits(lambda \div 2 - num_bits(V))
                  /\ p = 2 * a * U + 1
                  /\ q = 2 * b * V + 1
  BY FactorForm
<1>2. p \in Nat /\ IsPrime(p) /\ q \in Nat /\ IsPrime(q) /\ p > 1 /\ q > 1
  BY FactorForm DEF IsPrime
<1>3. a \in Nat \ {0} /\ b \in Nat \ {0}
  BY <1>1, PrimesOfBitsArePrimes
<1>4. /\ U \in Nat \ {0} /\ V \in Nat \ {0} /\ Sigma(P) = U * V
      /\ Divides(P[1], U) /\ Divides(P[k], V)
      /\ 1 \in 1..k /\ k \in 1..k
      /\ \A x \in Nat \ {0} : (\A i \in 1..k : Coprime(P[i], x))
              => Coprime(U, x) /\ Coprime(V, x)
  <2>1. h >= 1 /\ h + 1 <= k /\ k \in Nat /\ h \in Nat
    BY Parameters DEF Sized
  <2>2. 1 \in 1..h /\ k \in (h + 1)..k
    BY <2>1
  <2> QED
    BY <2>1, <2>2, UVFacts DEF Sigma
<1>5. /\ \A i \in 1..k : P[i] \in Nat \ {0}
      /\ \A i \in 1..k : IsPrime(P[i])
      /\ \A i, j \in 1..k : P[i] < 2 * P[j]
  BY ListFacts
<1> HIDE DEF U, V, h
<1>6. P[1] <= U /\ P[k] <= V
  <2>1. P[1] \in Nat /\ P[k] \in Nat
    BY <1>4, <1>5
  <2>2. P[1] \in 1..U /\ P[k] \in 1..V
    BY <1>4, <2>1, DivisorBound
  <2> QED
    BY <1>4, <2>2
<1>7. 2 * U < p /\ 2 * V < q
  <2>1. ASSUME NEW x \in Nat \ {0}, NEW y \in Nat \ {0} PROVE 2 * y < 2 * x * y + 1
    <3> DEFINE z == x - 1
    <3>1. z \in Nat /\ x = z + 1
      OBVIOUS
    <3> HIDE DEF z
    <3>2. 2 * (z + 1) * y = 2 * (z * y) + 2 * y /\ z * y >= 0 /\ z * y \in Int
      BY <3>1
    <3> QED
      BY <3>1, <3>2
  <2> QED
    BY <1>1, <1>3, <1>4, <2>1
<1>8. \A i \in 1..k : P[i] < p /\ P[i] < q
  <2> SUFFICES ASSUME NEW i \in 1..k PROVE P[i] < p /\ P[i] < q
    OBVIOUS
  <2>1. P[i] < 2 * P[1] /\ P[i] < 2 * P[k] /\ P[i] \in Nat /\ P[1] \in Nat /\ P[k] \in Nat
    BY <1>4, <1>5
  <2> QED
    BY <1>2, <1>4, <1>6, <1>7, <2>1
<1>9. \A i \in 1..k : Coprime(P[i], p * q)
  <2> SUFFICES ASSUME NEW i \in 1..k PROVE Coprime(P[i], p * q)
    OBVIOUS
  <2> DEFINE x == P[i]
  <2>1. x \in Nat /\ x # 0 /\ x < p /\ x < q
    BY <1>5, <1>8
  <2> HIDE DEF x
  <2>2. Coprime(x, p) /\ Coprime(x, q)
    BY <1>2, <2>1, PrimesCoprime
  <2>3. p \in Nat \ {0} /\ q \in Nat \ {0}
    BY <1>2
  <2> QED
    BY <2>1, <2>2, <2>3, CoprimeProduct DEF x
<1>10. p * q \in Nat \ {0} /\ p * q > 1 /\ (p - 1) * (q - 1) < p * q
  <2> DEFINE x == p - 2  y == q - 2
  <2>1. x \in Nat /\ y \in Nat /\ p = x + 2 /\ q = y + 2 /\ p - 1 = x + 1 /\ q - 1 = y + 1
    BY <1>2
  <2> HIDE DEF x, y
  <2>2. /\ (x + 2) * (y + 2) = x * y + 2 * x + 2 * y + 4
        /\ (x + 1) * (y + 1) = x * y + x + y + 1
        /\ x * y \in Nat
    BY <2>1
  <2> QED
    BY <2>1, <2>2
<1>11. Sigma(P) \in Nat \ {0}
  BY <1>4
<1>12. Coprime(U, p * q) /\ Coprime(V, p * q)
  BY <1>4, <1>9, <1>10
<1>13. Coprime(Sigma(P), p * q)
  BY <1>4, <1>10, <1>12, CoprimeMul
<1> QED
  BY <1>9, <1>10, <1>11, <1>13

KeyOf(P, p, q) == [primes |-> P, p |-> p, q |-> q]

(* The exponents with which KeyGen tests g and isZero a ciphertext.        *)
LEMMA Exponents ==
  ASSUME Sized, NEW P, IsList(P), NEW p \in FactorsP(P, k, lambda),
         NEW q \in FactorsQ(P, k, lambda, p), NEW e, Cofactor(P, p, q, e)
  PROVE  /\ pi_n(KeyOf(P, p, q), p * q) = Sigma(P) * e
         /\ mod_mul(pi_n(KeyOf(P, p, q), p * q),
                    mod_inverse(Sigma(P), p * q), p * q) = e
         /\ ((p - 1) * (q - 1)) \div Sigma(P) = e
<1> DEFINE n == p * q  S == Sigma(P)  t == (p - 1) * (q - 1)
<1>1. /\ n \in Nat \ {0} /\ t < n /\ S \in Nat \ {0} /\ Coprime(S, n)
      /\ e \in Nat \ {0} /\ t = S * e
  BY ModulusFacts DEF Cofactor
<1>2. p - 1 \in Int /\ q - 1 \in Int
  BY FactorForm
<1>3. pi_n(KeyOf(P, p, q), n) = mod_mul(p - 1, q - 1, n)
  BY DEF pi_n, KeyOf
<1> HIDE DEF n, S
<1>4. mod_mul(p - 1, q - 1, n) = t % n
  BY <1>1, <1>2, ModMulIsProduct
<1> HIDE DEF t
<1>5. t \in Nat
  BY <1>1
<1>6. t % n = t
  BY <1>1, <1>5
<1>7. mod_mul(S * e, mod_inverse(S, n), n) = e
  BY <1>1, ExactQuotient
<1>8. t \div S = e
  <2>1. t = S * e + 0 /\ 0 \in 0..(S - 1) /\ t \in Int /\ e \in Int
    BY <1>1
  <2> QED
    BY <1>1, <2>1, QuotientUnique
<1> QED
  BY <1>1, <1>3, <1>4, <1>6, <1>7, <1>8 DEF n, S, t

(* The random number of a ciphertext vanishes under that exponent.         *)
LEMMA SigmaVanishes ==
  ASSUME Sized, NEW P, IsList(P), NEW p \in FactorsP(P, k, lambda),
         NEW q \in FactorsQ(P, k, lambda, p), NEW e, Cofactor(P, p, q, e),
         NEW x \in Nat, Coprime(x, p * q)
  PROVE  Congruent(Power(x, Sigma(P) * e), 1, p * q)
<1>1. p \in Nat /\ IsPrime(p) /\ q \in Nat /\ IsPrime(q) /\ p # q
  BY FactorForm, FactorsDiffer
<1>2. Congruent(Power(x, (p - 1) * (q - 1)), 1, p * q)
  BY <1>1, EulerTwoPrimes
<1> QED
  BY <1>2 DEF Cofactor

(* The powers of an accepted g tell the numbers modulo sigma apart.        *)
LEMMA OrderOfG ==
  ASSUME Sized, NEW P, IsList(P), NEW p \in FactorsP(P, k, lambda),
         NEW q \in FactorsQ(P, k, lambda, p), NEW e, Cofactor(P, p, q, e),
         NEW g \in Nat, Coprime(g, p * q), usable_g(KeyOf(P, p, q), p * q, g),
         NEW m \in Nat, Congruent(Power(Power(g, e), m), 1, p * q)
  PROVE  Divides(Sigma(P), m)
<1> DEFINE n == p * q  S == Sigma(P)  G == Power(g, e)
<1>1. /\ n \in Nat \ {0} /\ n > 1 /\ S \in Nat \ {0} /\ Coprime(S, n)
      /\ e \in Nat \ {0} /\ (p - 1) * (q - 1) < n /\ (p - 1) * (q - 1) = S * e
      /\ \A i \in 1..k : Coprime(P[i], n)
  BY ModulusFacts DEF Cofactor
<1>2. pi_n(KeyOf(P, p, q), n) = S * e
  BY Exponents
<1>3. Congruent(Power(g, S * e), 1, n)
  BY SigmaVanishes
<1>4. /\ \A i \in 1..k : P[i] \in Nat \ {0}
      /\ \A i \in 1..k : IsPrime(P[i])
  BY ListFacts
<1>5. \A i \in 1..k : Divides(P[i], S)
  <2> SUFFICES ASSUME NEW i \in 1..k PROVE Divides(P[i], S)
    OBVIOUS
  <2>1. u(P, k) \in Int /\ v(P, k) \in Int /\ P[i] \in Int
    BY <1>4, UVFacts
  <2>2. CASE i <= k \div 2
    <3>1. Divides(P[i], u(P, k))
      <4>1. i \in 1..(k \div 2)
        BY <2>2, Parameters
      <4> QED
        BY <4>1, UVFacts
    <3> QED
      BY <2>1, <3>1, DividesProduct DEF Sigma
  <2>3. CASE i > k \div 2
    <3>1. Divides(P[i], v(P, k))
      <4>1. i \in (k \div 2 + 1)..k
        BY <2>3, Parameters
      <4> QED
        BY <4>1, UVFacts
    <3> QED
      BY <2>1, <3>1, DividesProduct DEF Sigma
  <2> QED
    BY <2>2, <2>3, Parameters
<1>6. \A i \in 1..k :
        mod_exp(g, mod_mul(S * e, mod_inverse(P[i], n), n), n) # 1
  <2>1. KeyOf(P, p, q).primes = P /\ DOMAIN P = 1..k
    BY DEF KeyOf, IsList
  <2>2. \A i \in DOMAIN KeyOf(P, p, q).primes :
          mod_exp(g, mod_mul(pi_n(KeyOf(P, p, q), n),
                             mod_inverse(KeyOf(P, p, q).primes[i], n), n), n) # 1
    BY DEF usable_g
  <2> QED
    BY <1>2, <2>1, <2>2
<1>7. G \in Int /\ Congruent(Power(G, m), 1, n) /\ g \in Int
  BY <1>1, PowerDef
<1>8. \A j \in Nat : Power(G, j) = Power(g, e * j)
  BY <1>1, <1>7, PowerPower
<1>20. Sigma(P) = S
  OBVIOUS
<1> HIDE DEF n, S, G
<1>9. ASSUME NEW i \in 1..k PROVE Divides(P[i], m)
  <2> DEFINE r == P[i]
  <2>1. r \in Nat \ {0} /\ IsPrime(r) /\ Divides(r, S) /\ Coprime(r, n)
        /\ mod_exp(g, mod_mul(S * e, mod_inverse(r, n), n), n) # 1
    BY <1>1, <1>4, <1>5, <1>6
  <2> HIDE DEF r
  <2>2. PICK R \in Int : S = r * R
    BY <2>1 DEF Divides
  <2>3. R \in Nat \ {0}
    <3> SUFFICES ASSUME R <= 0 PROVE FALSE
      BY <2>2
    <3> DEFINE w == -R
    <3>1. w \in Nat /\ R = -w
      OBVIOUS
    <3> HIDE DEF w
    <3>2. r * (-w) = -(r * w) /\ r * w >= 0
      BY <2>1, <3>1
    <3> QED
      BY <1>1, <2>1, <2>2, <3>1, <3>2
  <2> DEFINE c == R * e
  <2>4. c \in Nat /\ S * e = r * c /\ c = e * R
    BY <1>1, <2>1, <2>2, <2>3
  <2> HIDE DEF c
  <2>5. r * c < n
    BY <1>1, <2>4
  <2>6. mod_mul(r * c, mod_inverse(r, n), n) = c
    BY <1>1, <2>1, <2>4, <2>5, ExactQuotient
  <2>7. mod_exp(g, c, n) # 1
    BY <2>1, <2>4, <2>6
  <2>8. mod_exp(g, c, n) = Power(g, c) % n
    BY <1>1, <1>7, <2>4, ModExp
  <2>9. ~Congruent(Power(g, c), 1, n)
    <3>1. 1 % n = 1
      BY <1>1
    <3> QED
      BY <2>7, <2>8, <3>1 DEF Congruent
  <2>10. Power(G, R) = Power(g, c)
    BY <1>8, <2>3, <2>4
  <2>11. ~Congruent(Power(G, R), 1, n)
    BY <2>9, <2>10
  <2>12. Congruent(Power(G, r * R), 1, n)
    <3>1. Power(G, S) = Power(g, e * S)
      BY <1>1, <1>8
    <3>2. e * S = S * e
      BY <1>1
    <3> QED
      BY <1>3, <2>2, <3>1, <3>2
  <2>13. Divides(r, m)
    BY <1>1, <1>7, <2>1, <2>3, <2>11, <2>12, OrderNeeds
  <2> QED
    BY <2>13 DEF r
<1>10. m \in Int
  OBVIOUS
<1>11. Divides(u(P, k) * v(P, k), m)
  BY <1>9, <1>10, UVFacts
<1> QED
  BY <1>11 DEF Sigma

----------------------------------------------------------------------------
(***************************************************************************)
(* Powers modulo n.                                                        *)
(***************************************************************************)

(* Exponents count modulo S when the power S is one.                       *)
LEMMA PowerPeriod ==
  ASSUME NEW n \in Nat \ {0}, NEW S \in Nat \ {0}, NEW G \in Int,
         Congruent(Power(G, S), 1, n),
         NEW a \in Nat, NEW b \in Nat, Congruent(a, b, S)
  PROVE  Congruent(Power(G, a), Power(G, b), n)
<1>1. ASSUME NEW x \in Nat, NEW j \in Nat
      PROVE  Congruent(Power(G, x + S * j), Power(G, x), n)
  <2> DEFINE w == S * j
  <2>1. w \in Nat
    OBVIOUS
  <2>2. Congruent(Power(G, w), 1, n)
    BY PowerOfUnity
  <2> HIDE DEF w
  <2>3. Power(G, x + w) = Power(G, x) * Power(G, w)
    BY <2>1, PowerAdd
  <2>4. Power(G, x) \in Int /\ Power(G, w) \in Int /\ 1 \in Int
    BY <2>1, PowerDef
  <2>5. Congruent(Power(G, x) * Power(G, w), Power(G, x) * 1, n)
    BY <2>2, <2>4, CongruentScale
  <2>6. Power(G, x) * 1 = Power(G, x)
    BY <2>4
  <2> QED
    BY <2>3, <2>5, <2>6 DEF w
<1>2. a \in Int /\ b \in Int
  OBVIOUS
<1>3. PICK z \in Int : a = b + S * z
  BY <1>2, CongruentMultiple
<1>4. CASE z >= 0
  <2>1. Congruent(Power(G, b + S * z), Power(G, b), n)
    BY <1>1, <1>4
  <2> QED
    BY <1>3, <2>1
<1>5. CASE z < 0
  <2> DEFINE w == -z
  <2>1. w \in Nat /\ z = -w
    BY <1>5
  <2> HIDE DEF w
  <2>2. S * (-w) = -(S * w) /\ S * w \in Int
    BY <2>1
  <2>3. b = a + S * w
    BY <1>3, <2>1, <2>2
  <2>4. Congruent(Power(G, a + S * w), Power(G, a), n)
    BY <1>1, <2>1
  <2> QED
    BY <2>3, <2>4, CongruentEquivalence
<1> QED
  BY <1>4, <1>5

----------------------------------------------------------------------------
(***************************************************************************)
(* Ciphertexts.  With S for sigma and e for (p-1)(q-1)/sigma, the power e  *)
(* of a ciphertext that is a unit is a power of G = g^e, and the exponent  *)
(* is the plaintext.                                                       *)
(***************************************************************************)

Setting(n, S, g, e) ==
  /\ n \in Nat \ {0} /\ n > 1 /\ S \in Nat \ {0} /\ e \in Nat \ {0} /\ g \in Nat
  /\ \A x \in Nat : Coprime(x, n) => Congruent(Power(x, S * e), 1, n)
  /\ Coprime(g, n) => \A m \in Nat : Congruent(Power(Power(g, e), m), 1, n)
                                       => Divides(S, m)

Key(n, S, g) == [n |-> n, g |-> g, sigma |-> S]

LEMMA EncCongruent ==
  ASSUME NEW n, NEW S, NEW g, NEW e, Setting(n, S, g, e),
         NEW m \in Nat, NEW x \in Nat
  PROVE  /\ Enc(Key(n, S, g), m, x) \in Nat
         /\ Congruent(Enc(Key(n, S, g), m, x), Power(x, S) * Power(g, m), n)
<1> DEFINE X == Power(x, S)  Y == Power(g, m)
           a == mod_exp(x, S, n)  b == mod_exp(g, m, n)  w == a * b
<1>1. n \in Nat \ {0} /\ S \in Nat /\ g \in Int /\ x \in Int
  BY DEF Setting
<1>2. Enc(Key(n, S, g), m, x) = mod_mul(a, b, n)
  BY DEF Enc, Key
<1>3. X \in Int /\ Y \in Int
  BY <1>1, PowerDef
<1>4. a = X % n /\ b = Y % n
  BY <1>1, ModExp
<1> HIDE DEF X, Y, a, b
<1>5. a \in 0..(n - 1) /\ Congruent(a, X, n) /\ b \in 0..(n - 1) /\ Congruent(b, Y, n)
  BY <1>1, <1>3, <1>4, CongruentResidue
<1>6. a \in Int /\ b \in Int /\ w \in Int
  BY <1>5
<1>7. Congruent(w, X * Y, n)
  BY <1>1, <1>3, <1>5, <1>6, CongruentMul
<1>8. Enc(Key(n, S, g), m, x) = w % n
  BY <1>1, <1>2, <1>6, ModMulIsProduct
<1> HIDE DEF w
<1>9. w % n \in 0..(n - 1) /\ Congruent(w % n, w, n)
  BY <1>1, <1>6, CongruentResidue
<1>10. Congruent(w % n, X * Y, n)
  BY <1>7, <1>9, CongruentEquivalence
<1> QED
  BY <1>8, <1>9, <1>10 DEF X, Y

(* A ciphertext that is a unit had a unit as random number, and a unit as  *)
(* g or zero as plaintext.                                                 *)
LEMMA EncUnit ==
  ASSUME NEW n, NEW S, NEW g, NEW e, Setting(n, S, g, e),
         NEW m \in Nat, NEW x \in Nat, Coprime(Enc(Key(n, S, g), m, x), n)
  PROVE  Coprime(x, n) /\ (m # 0 => Coprime(g, n))
<1> DEFINE c == Enc(Key(n, S, g), m, x)  X == Power(x, S)  Y == Power(g, m)
<1>1. c \in Nat /\ Congruent(c, X * Y, n)
  BY EncCongruent
<1>2. n \in Nat \ {0} /\ S \in Nat \ {0} /\ g \in Nat
  BY DEF Setting
<1>3. X \in Nat /\ Y \in Nat
  BY <1>2, PowerNatural
<1>4. Coprime(c, n)
  OBVIOUS
<1> HIDE DEF c, X, Y
<1>5. X * Y \in Nat
  BY <1>3
<1>6. Coprime(X * Y, n)
  BY <1>1, <1>2, <1>4, <1>5, CoprimeCongruent
<1>7. Coprime(X, n) /\ Coprime(Y, n)
  BY <1>2, <1>3, <1>6, CoprimeMul
<1>8. Coprime(x, n)
  BY <1>2, <1>7, UnitPower DEF X
<1>9. m # 0 => Coprime(g, n)
  BY <1>2, <1>7, UnitPower DEF Y
<1> QED
  BY <1>8, <1>9

Carries(c, t, n, g, e) == Congruent(Power(c, e), Power(Power(g, e), t), n)

LEMMA EncCarries ==
  ASSUME NEW n, NEW S, NEW g, NEW e, Setting(n, S, g, e),
         NEW m \in Nat, NEW x \in Nat, Coprime(x, n)
  PROVE  Carries(Enc(Key(n, S, g), m, x), m, n, g, e)
<1> DEFINE c == Enc(Key(n, S, g), m, x)  X == Power(x, S)  Y == Power(g, m)
<1>1. c \in Nat /\ Congruent(c, X * Y, n)
  BY EncCongruent
<1>2. /\ n \in Nat \ {0} /\ S \in Nat /\ e \in Nat /\ g \in Int /\ x \in Int
      /\ Congruent(Power(x, S * e), 1, n)
  BY DEF Setting
<1>3. X \in Int /\ Y \in Int
  BY <1>2, PowerDef
<1>4. Power(X, e) = Power(x, S * e)
  BY <1>2, PowerPower
<1>5. Power(Y, e) = Power(Power(g, e), m)
  <2>1. Power(Power(g, m), e) = Power(g, m * e) /\ Power(Power(g, e), m) = Power(g, e * m)
    BY <1>2, PowerPower
  <2>2. m * e = e * m
    BY <1>2
  <2> QED
    BY <2>1, <2>2
<1> HIDE DEF c, X, Y
<1>6. Power(X * Y, e) = Power(X, e) * Power(Y, e)
  BY <1>2, <1>3, PowerMul
<1>7. c \in Int /\ X * Y \in Int /\ Power(X, e) \in Int /\ Power(Y, e) \in Int /\ 1 \in Int
  <2>1. Power(X, e) \in Int /\ Power(Y, e) \in Int
    BY <1>2, <1>3, PowerDef
  <2> QED
    BY <1>1, <1>3, <2>1
<1>8. Congruent(Power(c, e), Power(X * Y, e), n)
  BY <1>1, <1>2, <1>7, CongruentPower
<1>9. Congruent(Power(X, e), 1, n)
  BY <1>2, <1>4
<1>10. Congruent(Power(X, e) * Power(Y, e), 1 * Power(Y, e), n)
  BY <1>2, <1>7, <1>9, CongruentScale
<1>11. 1 * Power(Y, e) = Power(Y, e)
  BY <1>7
<1>12. Congruent(Power(c, e), Power(Y, e), n)
  BY <1>6, <1>8, <1>10, <1>11, CongruentEquivalence
<1> QED
  BY <1>5, <1>12 DEF Carries, c

(* With an invertible g, g^e has the order S.                              *)
LEMMA OrderFacts ==
  ASSUME NEW n, NEW S, NEW g, NEW e, Setting(n, S, g, e), Coprime(g, n)
  PROVE  /\ Power(g, e) \in Nat
         /\ Coprime(Power(g, e), n)
         /\ Congruent(Power(Power(g, e), S), 1, n)
         /\ \A a, b \in 0..(S - 1) :
              Congruent(Power(Power(g, e), a), Power(Power(g, e), b), n) => a = b
<1> DEFINE G == Power(g, e)
<1>1. /\ n \in Nat \ {0} /\ S \in Nat \ {0} /\ e \in Nat /\ g \in Nat
      /\ Congruent(Power(g, S * e), 1, n)
      /\ \A m \in Nat : Congruent(Power(Power(g, e), m), 1, n) => Divides(S, m)
  BY DEF Setting
<1>2. G \in Nat /\ Coprime(G, n)
  BY <1>1, PowerNatural, UnitPower
<1>3. Congruent(Power(G, S), 1, n)
  <2>1. g \in Int
    BY <1>1
  <2>2. Power(Power(g, e), S) = Power(g, e * S)
    BY <1>1, <2>1, PowerPower
  <2>3. e * S = S * e
    BY <1>1
  <2> QED
    BY <1>1, <2>2, <2>3
<1>9. \A m \in Nat : Congruent(Power(G, m), 1, n) => Divides(S, m)
  BY <1>1
<1>10. G = Power(g, e)
  OBVIOUS
<1> HIDE DEF G
<1>4. ASSUME NEW a \in 0..(S - 1), NEW b \in 0..(S - 1), a <= b,
             Congruent(Power(G, a), Power(G, b), n)
      PROVE  a = b
  <2> DEFINE d == b - a
  <2>1. a \in Nat /\ d \in Nat /\ b = a + d /\ d < S
    BY <1>1, <1>4
  <2> HIDE DEF d
  <2>2. G \in Int /\ Power(G, a) \in Nat /\ Power(G, d) \in Int /\ 1 \in Int
    BY <1>2, <2>1, PowerNatural
  <2>3. Power(G, a + d) = Power(G, a) * Power(G, d)
    BY <2>1, <2>2, PowerAdd
  <2>4. Power(G, a) * 1 = Power(G, a)
    BY <2>2
  <2>5. Congruent(Power(G, a) * Power(G, d), Power(G, a) * 1, n)
    BY <1>4, <2>1, <2>3, <2>4, CongruentEquivalence
  <2>6. Coprime(Power(G, a), n)
    BY <1>1, <1>2, <2>1, UnitPower
  <2>7. Congruent(Power(G, d), 1, n)
    BY <1>1, <2>2, <2>5, <2>6, CongruentCancel
  <2>8. Divides(S, d)
    BY <1>9, <2>1, <2>7
  <2>9. PICK z \in Int : d = S * z
    BY <2>8 DEF Divides
  <2>10. -S < S * z /\ S * z < S
    BY <1>1, <2>1, <2>9
  <2>11. z = 0
    BY <1>1, <2>10, SmallMultiple
  <2>12. d = 0
    BY <1>1, <2>9, <2>11
  <2> QED
    BY <2>1, <2>12
<1>5. ASSUME NEW a \in 0..(S - 1), NEW b \in 0..(S - 1),
             Congruent(Power(G, a), Power(G, b), n)
      PROVE  a = b
  <2>1. Congruent(Power(G, b), Power(G, a), n)
    BY <1>5, CongruentEquivalence
  <2>2. a <= b \/ b <= a
    BY <1>1
  <2> QED
    BY <1>4, <1>5, <2>1, <2>2
<1> QED
  BY <1>2, <1>3, <1>5, <1>10

(* Sub of two ciphertexts, the second one a unit, subtracts plaintexts.    *)
LEMMA SubCarries ==
  ASSUME NEW n, NEW S, NEW g, NEW e, Setting(n, S, g, e), Coprime(g, n),
         NEW c \in Nat, NEW a \in Nat, Carries(c, a, n, g, e),
         NEW d \in Nat, NEW b \in Nat, Carries(d, b, n, g, e), Coprime(d, n)
  PROVE  /\ Sub(Key(n, S, g), c, d) \in Nat
         /\ (a - b) % S \in 0..(S - 1)
         /\ Carries(Sub(Key(n, S, g), c, d), (a - b) % S, n, g, e)
<1> DEFINE G == Power(g, e)  i == mod_inverse(d, n)  w == c * i  r == w % n
           t == (a - b) % S
           C == Power(c, e)  D == Power(d, e)  I == Power(i, e)  R == Power(r, e)
<1>1. /\ n \in Nat \ {0} /\ S \in Nat \ {0} /\ e \in Nat
      /\ G \in Nat /\ G \in Int /\ Coprime(G, n) /\ Congruent(Power(G, S), 1, n)
  BY OrderFacts DEF Setting
<1>2. i \in 0..(n - 1) /\ Congruent(d * i, 1, n)
  BY <1>1, ModInverse
<1>3. Sub(Key(n, S, g), c, d) = mod_mul(c, i, n)
  BY DEF Sub, Key
<1>4. Congruent(C, Power(G, a), n) /\ Congruent(D, Power(G, b), n)
  BY DEF Carries
<1>5. t \in 0..(S - 1) /\ Congruent(t, a - b, S)
  <2> DEFINE x == a - b
  <2>1. x \in Int
    OBVIOUS
  <2> HIDE DEF x
  <2>2. x % S \in 0..(S - 1) /\ Congruent(x % S, x, S)
    BY <1>1, <2>1, CongruentResidue
  <2> QED
    BY <2>2 DEF x
<1> HIDE DEF G, i, t
<1>6. i \in Int /\ w \in Int /\ d * i \in Int /\ c \in Int /\ d \in Int /\ 1 \in Int
      /\ t \in Nat /\ t \in Int
  BY <1>1, <1>2, <1>5
<1>7. Sub(Key(n, S, g), c, d) = r
  BY <1>1, <1>3, <1>6, ModMulIsProduct
<1>8. r \in 0..(n - 1) /\ Congruent(r, w, n)
  <2> HIDE DEF w
  <2> QED
    BY <1>1, <1>6, CongruentResidue
<1> HIDE DEF r
<1>9. r \in Nat /\ r \in Int
  BY <1>1, <1>8
<1>10. C \in Int /\ D \in Int /\ I \in Int /\ R \in Int
  BY <1>1, <1>6, <1>9, PowerDef
<1>11. Power(w, e) = C * I /\ Power(d * i, e) = D * I
  <2>1. Power(c * i, e) = Power(c, e) * Power(i, e)
    BY <1>1, <1>6, PowerMul
  <2>2. Power(d * i, e) = Power(d, e) * Power(i, e)
    BY <1>1, <1>6, PowerMul
  <2> QED
    BY <2>1, <2>2
<1>12. Congruent(D * I, 1, n)
  <2>1. Congruent(Power(d * i, e), Power(1, e), n)
    BY <1>1, <1>2, <1>6, CongruentPower
  <2> QED
    BY <1>1, <1>11, <2>1, PowerOfOne
<1>13. Congruent(R, C * I, n)
  <2>1. Congruent(Power(r, e), Power(w, e), n)
    BY <1>1, <1>6, <1>8, <1>9, CongruentPower
  <2> QED
    BY <1>11, <2>1
<1> HIDE DEF w, C, D, I, R
(* R * D is C, so R * G^b is G^a, and so is G^t * G^b. *)
<1>14. Congruent(R * D, C, n)
  <2>1. C * I \in Int /\ D * I \in Int
    BY <1>10
  <2>2. Congruent(R * D, (C * I) * D, n)
    BY <1>1, <1>10, <1>13, <2>1, CongruentScale
  <2>3. Congruent(C * (D * I), C * 1, n)
    BY <1>1, <1>6, <1>10, <1>12, <2>1, CongruentScale
  <2>4. (C * I) * D = C * (D * I) /\ C * 1 = C
    BY <1>10
  <2> QED
    BY <2>2, <2>3, <2>4, CongruentEquivalence
<1> DEFINE A == Power(G, a)  E == Power(G, b)  T == Power(G, t)
<1>15. A \in Nat /\ E \in Nat /\ T \in Nat /\ A \in Int /\ E \in Int /\ T \in Int
       /\ Coprime(E, n)
  <2>1. \A j \in Nat : Power(G, j) \in Nat /\ Coprime(Power(G, j), n)
    BY <1>1, PowerNatural, UnitPower
  <2>2. A \in Nat /\ E \in Nat /\ T \in Nat /\ Coprime(E, n)
    BY <1>6, <2>1
  <2> QED
    BY <2>2
<1>16. Power(G, t + b) = T * E
  BY <1>1, <1>6, PowerAdd
<1>17. Congruent(Power(G, t + b), A, n)
  <2>1. Congruent(t + b, (a - b) + b, S)
    <3>1. a - b \in Int /\ b \in Int /\ Congruent(b, b, S)
      BY CongruentEquivalence
    <3> QED
      BY <1>1, <1>5, <1>6, <3>1, CongruentAdd
  <2>2. (a - b) + b = a /\ t + b \in Nat
    BY <1>6
  <2>3. Congruent(t + b, a, S)
    BY <2>1, <2>2
  <2> QED
    BY <1>1, <2>2, <2>3, PowerPeriod
<1>18. Congruent(C, A, n) /\ Congruent(D, E, n)
  BY <1>4 DEF C, D
<1> HIDE DEF A, E, T
<1>19. Congruent(E * R, E * T, n)
  <2>1. Congruent(R * E, R * D, n)
    <3>1. Congruent(E, D, n)
      BY <1>18, CongruentEquivalence
    <3> QED
      BY <1>1, <1>10, <1>15, <3>1, CongruentScale
  <2>2. Congruent(R * E, A, n)
    BY <1>14, <1>18, <2>1, CongruentEquivalence
  <2>3. Congruent(T * E, A, n)
    BY <1>16, <1>17
  <2>4. R * E = E * R /\ T * E = E * T
    BY <1>10, <1>15
  <2> QED
    BY <2>2, <2>3, <2>4, CongruentEquivalence
<1>20. Congruent(R, T, n)
  BY <1>1, <1>10, <1>15, <1>19, CongruentCancel
<1>21. Carries(r, t, n, g, e)
  BY <1>20 DEF Carries, R, T, G
<1> QED
  BY <1>5, <1>7, <1>9, <1>21 DEF t

(* Scalar_Mul multiplies the plaintext.                                    *)
LEMMA ScalarCarries ==
  ASSUME NEW n, NEW S, NEW g, NEW e, Setting(n, S, g, e), Coprime(g, n),
         NEW c \in Nat, NEW t \in Nat, Carries(c, t, n, g, e), NEW j \in Nat
  PROVE  /\ Scalar_Mul(Key(n, S, g), j, c) \in Nat
         /\ (j * t) % S \in 0..(S - 1)
         /\ Carries(Scalar_Mul(Key(n, S, g), j, c), (j * t) % S, n, g, e)
<1> DEFINE G == Power(g, e)  P == Power(c, j)  r == P % n
           w == j * t  z == w % S
           C == Power(c, e)  T == Power(G, t)
<1>1. /\ n \in Nat \ {0} /\ S \in Nat \ {0} /\ e \in Nat
      /\ G \in Int /\ Congruent(Power(G, S), 1, n)
  BY OrderFacts DEF Setting
<1>2. c \in Int /\ w \in Nat /\ w \in Int /\ t * j = w /\ e * j = j * e
  BY <1>1
<1>3. Scalar_Mul(Key(n, S, g), j, c) = mod_exp(c, j, n)
  BY DEF Scalar_Mul, Key
<1>4. Congruent(C, T, n)
  BY DEF Carries
<1> HIDE DEF G, w
<1>5. P \in Int /\ C \in Int /\ T \in Int
  BY <1>1, <1>2, PowerDef
<1>6. Scalar_Mul(Key(n, S, g), j, c) = r
  BY <1>1, <1>2, <1>3, ModExp
<1>7. z \in 0..(S - 1) /\ Congruent(z, w, S)
  BY <1>1, <1>2, CongruentResidue
<1>8. Power(P, e) = Power(C, j)
  <2>1. Power(Power(c, j), e) = Power(c, j * e)
    BY <1>1, <1>2, PowerPower
  <2>2. Power(Power(c, e), j) = Power(c, e * j)
    BY <1>1, <1>2, PowerPower
  <2> QED
    BY <1>2, <2>1, <2>2
<1>9. Power(T, j) = Power(G, w)
  <2>1. Power(Power(G, t), j) = Power(G, t * j)
    BY <1>1, PowerPower
  <2> QED
    BY <1>2, <2>1
<1>10. r \in 0..(n - 1) /\ Congruent(r, P, n)
  <2> HIDE DEF P
  <2> QED
    BY <1>1, <1>5, CongruentResidue
<1> HIDE DEF P, r, C, T, z
<1>11. r \in Nat /\ r \in Int /\ z \in Nat
  BY <1>1, <1>7, <1>10
<1>12. Congruent(Power(r, e), Power(P, e), n)
  BY <1>1, <1>5, <1>10, <1>11, CongruentPower
<1>13. Congruent(Power(C, j), Power(T, j), n)
  BY <1>1, <1>4, <1>5, CongruentPower
<1>14. Congruent(Power(G, w), Power(G, z), n)
  <2>1. Congruent(w, z, S)
    BY <1>7, CongruentEquivalence
  <2> QED
    BY <1>1, <1>2, <1>11, <2>1, PowerPeriod
<1>15. Congruent(Power(r, e), Power(G, z), n)
  BY <1>8, <1>9, <1>12, <1>13, <1>14, CongruentEquivalence
<1>16. Carries(r, z, n, g, e)
  BY <1>15 DEF Carries, G
<1> QED
  BY <1>6, <1>7, <1>11, <1>16 DEF z, w

LEMMA ZeroTest ==
  ASSUME NEW n \in Nat \ {0}, n > 1, NEW e \in Nat, NEW r \in Nat
  PROVE  mod_exp(r, e, n) = 1 <=> Congruent(Power(r, e), 1, n)
<1>1. r \in Int /\ 1 % n = 1
  OBVIOUS
<1>2. mod_exp(r, e, n) = Power(r, e) % n
  BY <1>1, ModExp
<1> QED
  BY <1>1, <1>2 DEF Congruent

LEMMA ZeroNoUnit ==
  ASSUME NEW n \in Nat \ {0}, n > 1
  PROVE  ~Coprime(0, n)
<1> SUFFICES ASSUME Coprime(0, n) PROVE FALSE
  OBVIOUS
<1>1. 0 \in Nat
  OBVIOUS
<1>2. PICK y \in Int : Congruent(0 * y, 1, n)
  BY <1>1, UnitInverse
<1>3. 0 * y = 0 /\ 0 % n = 0 /\ 1 % n = 1
  OBVIOUS
<1>4. 0 % n = 1 % n
  BY <1>2, <1>3 DEF Congruent
<1> QED
  BY <1>3, <1>4

(* What isZero accepts was made from two units: a failed inverse or a      *)
(* factor shared with n survives every operation.                          *)
LEMMA AcceptedUnits ==
  ASSUME NEW n, NEW S, NEW g, NEW e, Setting(n, S, g, e),
         NEW c \in Nat, NEW d \in Nat, NEW j \in Nat \ {0},
         mod_exp(Scalar_Mul(Key(n, S, g), j, Sub(Key(n, S, g), c, d)), e, n) = 1
  PROVE  Coprime(c, n) /\ Coprime(d, n)
<1> DEFINE i == mod_inverse(d, n)  w == c * i  f == w % n  P == Power(f, j)  r == P % n
<1>1. n \in Nat \ {0} /\ n > 1 /\ e \in Nat \ {0}
  BY DEF Setting
<1>2. i \in Nat /\ (~Coprime(d, n) => i = 0)
  BY <1>1, ModInverse
<1>3. Sub(Key(n, S, g), c, d) = mod_mul(c, i, n)
  BY DEF Sub, Key
<1> HIDE DEF i
<1>4. w \in Nat /\ w \in Int /\ c \in Int /\ i \in Int
  BY <1>2
<1>5. Sub(Key(n, S, g), c, d) = f
  BY <1>1, <1>3, <1>4, ModMulIsProduct
<1>6. f \in Nat /\ f \in Int
  <2> HIDE DEF w
  <2>1. w % n \in 0..(n - 1)
    BY <1>1, <1>4
  <2> QED
    BY <1>1, <2>1
<1>7. Scalar_Mul(Key(n, S, g), j, f) = mod_exp(f, j, n)
  BY DEF Scalar_Mul, Key
<1>8. mod_exp(Scalar_Mul(Key(n, S, g), j, f), e, n) = 1
  <2> HIDE DEF f
  <2> QED
    BY <1>5
<1> HIDE DEF f
<1>9. mod_exp(f, j, n) = r
  BY <1>1, <1>6, ModExp
<1>10. P \in Nat
  BY <1>6, PowerNatural
<1> HIDE DEF P
<1>11. r \in Nat
  <2>1. P % n \in 0..(n - 1)
    BY <1>1, <1>10
  <2> QED
    BY <1>1, <2>1
<1>12. mod_exp(r, e, n) = 1
  BY <1>7, <1>8, <1>9
<1> HIDE DEF r
<1>13. Congruent(Power(r, e), 1, n)
  BY <1>1, <1>11, <1>12, ZeroTest
<1>14. Power(r, e) \in Nat /\ 1 \in Nat
  BY <1>1, <1>11, PowerNatural
<1>15. Coprime(Power(r, e), n)
  <2>1. Coprime(1, n)
    BY <1>1, CoprimeOne
  <2> QED
    BY <1>1, <1>13, <1>14, <2>1, CoprimeCongruent
<1>16. Coprime(r, n)
  BY <1>1, <1>11, <1>15, UnitPower
<1>17. Coprime(P, n)
  BY <1>1, <1>10, <1>16, UnitResidue DEF r
<1>18. Coprime(f, n)
  BY <1>1, <1>6, <1>17, UnitPower DEF P
<1>19. Coprime(w, n)
  <2> HIDE DEF w
  <2> QED
    BY <1>1, <1>4, <1>18, UnitResidue DEF f
<1>20. Coprime(c, n) /\ Coprime(i, n)
  BY <1>1, <1>2, <1>19, CoprimeMul
<1>21. ~Coprime(0, n)
  BY <1>1, ZeroNoUnit
<1> QED
  BY <1>2, <1>20, <1>21

(* The plaintext of a ciphertext, and what isZero says of it.              *)
LEMMA PlainOf ==
  ASSUME NEW n, NEW S, NEW g, NEW e, Setting(n, S, g, e), Coprime(g, n),
         NEW c \in Nat, NEW t \in 0..(S - 1), Carries(c, t, n, g, e)
  PROVE  /\ (CHOOSE m \in 0..(S - 1) :
               mod_exp(mod_exp(g, e, n), m, n) = mod_exp(c, e, n)) = t
         /\ mod_exp(c, e, n) = 1 <=> t = 0
<1> DEFINE G == Power(g, e)  y == mod_exp(g, e, n)  C == Power(c, e)
<1>1. /\ n \in Nat \ {0} /\ n > 1 /\ S \in Nat \ {0} /\ e \in Nat /\ g \in Int
      /\ c \in Int /\ t \in Nat
  BY DEF Setting
<1>2. /\ G \in Nat /\ G \in Int
      /\ \A a, b \in 0..(S - 1) :
           Congruent(Power(G, a), Power(G, b), n) => a = b
  BY OrderFacts
<1>3. Congruent(C, Power(G, t), n)
  BY DEF Carries
<1>4. y = G % n /\ mod_exp(c, e, n) = C % n
  BY <1>1, ModExp
<1>5. mod_exp(c, e, n) = 1 <=> Congruent(C, 1, n)
  BY <1>1, ZeroTest
<1>6. Power(G, 0) = 1 /\ 0 \in 0..(S - 1)
  BY <1>1, <1>2, PowerDef
<1> HIDE DEF G, y, C
<1>7. y \in 0..(n - 1) /\ Congruent(y, G, n)
  BY <1>1, <1>2, <1>4, CongruentResidue
<1>8. y \in Int
  BY <1>1, <1>7
<1>9. ASSUME NEW m \in 0..(S - 1)
      PROVE  mod_exp(y, m, n) = C % n <=> m = t
  <2>1. m \in Nat
    BY <1>1
  <2>2. mod_exp(y, m, n) = Power(y, m) % n
    BY <1>1, <1>8, <2>1, ModExp
  <2>3. Congruent(Power(y, m), Power(G, m), n)
    BY <1>1, <1>2, <1>7, <1>8, <2>1, CongruentPower
  <2>4. mod_exp(y, m, n) = C % n <=> Congruent(Power(G, m), Power(G, t), n)
    BY <1>3, <2>2, <2>3 DEF Congruent
  <2>5. Congruent(Power(G, t), Power(G, t), n)
    BY CongruentEquivalence
  <2> QED
    BY <1>2, <2>4, <2>5
<1>10. (CHOOSE m \in 0..(S - 1) : mod_exp(y, m, n) = C % n) = t
  BY <1>9
<1>11. Congruent(C, 1, n) <=> t = 0
  <2>1. ASSUME t = 0 PROVE Congruent(C, 1, n)
    BY <1>3, <1>6, <2>1
  <2>2. ASSUME Congruent(C, 1, n) PROVE t = 0
    <3>1. Congruent(Power(G, t), Power(G, 0), n)
      BY <1>3, <1>6, <2>2 DEF Congruent
    <3> QED
      BY <1>2, <1>6, <3>1
  <2> QED
    BY <2>1, <2>2
<1> QED
  BY <1>4, <1>5, <1>10, <1>11 DEF y

(* A scalar that cannot carry a difference to S shows it.                  *)
LEMMA SmallDifference ==
  ASSUME NEW S \in Nat \ {0}, NEW x \in Int, NEW j \in Nat \ {0},
         -S < j * x, j * x < S, (j * (x % S)) % S = 0
  PROVE  x = 0
<1> DEFINE w == j * x
<1>1. (j * (x % S)) % S = w % S
  <2>1. j \in Int
    OBVIOUS
  <2>2. \A a \in Int : (j * (a % S)) % S = (j * a) % S
    BY <2>1, ModMul
  <2> QED
    BY <2>2
<1>2. w \in Int /\ 0 \in Int /\ -S < w /\ w < S
  OBVIOUS
<1> HIDE DEF w
<1>3. Congruent(w, 0, S)
  BY <1>1, <1>2, ResidueZero
<1>4. PICK z \in Int : w = 0 + S * z
  BY <1>2, <1>3, CongruentMultiple
<1>5. w = S * z /\ -S < S * z /\ S * z < S
  BY <1>2, <1>4
<1>6. z = 0
  BY <1>5, SmallMultiple
<1>7. w = 0
  BY <1>5, <1>6
<1>8. -j < j * x /\ j * x < j
  BY <1>7 DEF w
<1> QED
  BY <1>8, SmallMultiple

----------------------------------------------------------------------------
(***************************************************************************)
(* The inductive invariant: how far key generation has come and with which *)
(* draws it got there, and where the ciphertexts of a call come from.      *)
(***************************************************************************)

IsKey(L, p, q) == /\ IsList(L)
                  /\ p \in FactorsP(L, k, lambda)
                  /\ q \in FactorsQ(L, k, lambda, p)

Phases == {"primes", "p", "q", "g", "ready", "step1", "step2", "done"}

TypeOK == /\ phase \in Phases
          /\ aliceNumber \in Numbers /\ bobNumber \in Numbers

PrimesSoFar ==
  phase = "primes" =>
    \E L \in Seq(PrimesOfBits(B)) :
      /\ secretKey = KeyOf(L, 0, 0)
      /\ Len(L) < k
      /\ \A i, j \in 1..Len(L) : L[i] = L[j] => i = j

SecretSoFar ==
  /\ phase = "p" => \E L : secretKey = KeyOf(L, 0, 0) /\ IsList(L)
  /\ phase = "q" => \E L, p : /\ secretKey = KeyOf(L, p, 0) /\ IsList(L)
                              /\ p \in FactorsP(L, k, lambda)
  /\ phase = "g" => \E L, p, q : secretKey = KeyOf(L, p, q) /\ IsKey(L, p, q)

KeyAccepted ==
  Keyed => \E L, p, q, g : /\ secretKey = KeyOf(L, p, q) /\ IsKey(L, p, q)
                           /\ publicKey = Key(p * q, Sigma(L), g)
                           /\ g \in GRandom(p * q)
                           /\ usable_g(secretKey, p * q, g)

AliceEncrypts ==
  phase \in {"step1", "step2", "done"} =>
    \E x \in EncRandom(publicKey.n) :
      aliceCipherText = Enc(publicKey, Encode(aliceNumber), x)

BobAnswers ==
  phase \in {"step2", "done"} =>
    /\ \E x \in EncRandom(publicKey.n) :
         bobCipherText = Enc(publicKey, Encode(bobNumber), x)
    /\ s \in ScalarRandom
    /\ res = Scalar_Mul(publicKey, s, Sub(publicKey, aliceCipherText, bobCipherText))

AnswerFromRes == phase = "done" => verdict = isZero(publicKey, secretKey, res)

IInv == /\ TypeOK /\ PrimesSoFar /\ SecretSoFar /\ KeyAccepted
        /\ AliceEncrypts /\ BobAnswers /\ AnswerFromRes

CallInv == AliceEncrypts /\ BobAnswers /\ AnswerFromRes

LEMMA InitIInv == Init => IInv
<1> SUFFICES ASSUME Init PROVE IInv
  OBVIOUS
<1>1. TypeOK
  BY NumbersAssumption DEF Init, TypeOK, Phases
<1>2. PrimesSoFar
  <2>1. <<>> \in Seq(PrimesOfBits(B)) /\ Len(<<>>) = 0
    OBVIOUS
  <2>2. 0 < k /\ \A i, j \in 1..0 : <<>>[i] = <<>>[j] => i = j
    BY Parameters
  <2>3. secretKey = KeyOf(<<>>, 0, 0)
    BY DEF Init, KeyOf
  <2> QED
    BY <2>1, <2>2, <2>3 DEF PrimesSoFar
<1>3. phase = "primes"
  BY DEF Init
<1>4. SecretSoFar /\ KeyAccepted
  BY <1>3 DEF SecretSoFar, KeyAccepted, Keyed
<1>5. AliceEncrypts /\ BobAnswers /\ AnswerFromRes
  BY <1>3 DEF AliceEncrypts, BobAnswers, AnswerFromRes
<1> QED
  BY <1>1, <1>2, <1>4, <1>5 DEF IInv

LEMMA PickKeeps == IInv /\ PickPrime => IInv'
<1> SUFFICES ASSUME IInv, PickPrime PROVE IInv'
  OBVIOUS
<1>1. PICK L \in Seq(PrimesOfBits(B)) :
        /\ secretKey = KeyOf(L, 0, 0)
        /\ Len(L) < k
        /\ \A i, j \in 1..Len(L) : L[i] = L[j] => i = j
  BY DEF IInv, PrimesSoFar, PickPrime
<1>2. secretKey.primes = L
  BY <1>1 DEF KeyOf
<1>3. PICK prime \in PrimesOfBits(B) :
        LET picked == IF prime \notin Range(L) THEN Append(L, prime) ELSE L
        IN  /\ secretKey' = [secretKey EXCEPT !.primes = picked]
            /\ phase' = IF Len(picked) < k THEN "primes" ELSE "p"
  BY <1>2 DEF PickPrime
<1> DEFINE N == IF prime \notin Range(L) THEN Append(L, prime) ELSE L
<1>4. secretKey' = KeyOf(N, 0, 0) /\ phase' = IF Len(N) < k THEN "primes" ELSE "p"
  BY <1>1, <1>3 DEF KeyOf
<1>5. /\ N \in Seq(PrimesOfBits(B)) /\ Len(N) <= k
      /\ \A i, j \in 1..Len(N) : N[i] = N[j] => i = j
  <2>1. CASE prime \in Range(L)
    BY <1>1, <2>1, Parameters
  <2>2. CASE prime \notin Range(L)
    <3>1. N = Append(L, prime)
      BY <2>2
    <3> HIDE DEF N
    <3>2. /\ N \in Seq(PrimesOfBits(B)) /\ Len(N) = Len(L) + 1 /\ Len(L) \in Nat
          /\ N[Len(L) + 1] = prime /\ \A i \in 1..Len(L) : N[i] = L[i]
      BY <3>1
    <3>3. \A i \in 1..Len(L) : L[i] # prime
      BY <2>2 DEF Range
    <3>4. ASSUME NEW i \in 1..Len(N), NEW j \in 1..Len(N), N[i] = N[j] PROVE i = j
      <4>1. i \in 1..Len(L) \/ i = Len(L) + 1
        BY <3>2
      <4>2. j \in 1..Len(L) \/ j = Len(L) + 1
        BY <3>2
      <4> QED
        BY <1>1, <3>2, <3>3, <3>4, <4>1, <4>2
    <3> QED
      BY <1>1, <3>2, <3>4, Parameters
  <2> QED
    BY <2>1, <2>2
<1> HIDE DEF N
<1>6. TypeOK'
  BY <1>4 DEF IInv, TypeOK, Phases, PickPrime, callVars
<1>7. PrimesSoFar'
  BY <1>4, <1>5 DEF PrimesSoFar
<1>8. SecretSoFar'
  <2>1. phase' = "p" => IsList(N)
    <3> SUFFICES ASSUME phase' = "p" PROVE IsList(N)
      OBVIOUS
    <3>1. Len(N) = k
      <4>1. Len(N) \in Nat /\ ~(Len(N) < k)
        BY <1>4, <1>5
      <4> QED
        BY <1>5, <4>1, Parameters
    <3>2. N \in [1..k -> PrimesOfBits(B)]
      <4>1. N \in [1..Len(N) -> PrimesOfBits(B)]
        BY <1>5
      <4> QED
        BY <3>1, <4>1
    <3> QED
      BY <1>5, <3>1, <3>2 DEF IsList
  <2> QED
    BY <1>4, <2>1 DEF SecretSoFar
<1>9. KeyAccepted' /\ CallInv'
  BY <1>4 DEF KeyAccepted, Keyed, CallInv, AliceEncrypts, BobAnswers, AnswerFromRes
<1> QED
  BY <1>6, <1>7, <1>8, <1>9 DEF IInv, CallInv

LEMMA DrawKeeps == IInv /\ (DrawP \/ DrawQ \/ DrawG) => IInv'
<1> SUFFICES ASSUME IInv, DrawP \/ DrawQ \/ DrawG PROVE IInv'
  OBVIOUS
<1>1. CASE DrawP
  <2>1. PICK L : secretKey = KeyOf(L, 0, 0) /\ IsList(L)
    BY <1>1 DEF IInv, SecretSoFar, DrawP
  <2>2. secretKey.primes = L
    BY <2>1 DEF KeyOf
  <2>3. PICK p \in FactorsP(L, k, lambda) : secretKey' = [secretKey EXCEPT !.p = p]
    BY <1>1, <2>2 DEF DrawP
  <2>4. secretKey' = KeyOf(L, p, 0) /\ phase' = "q"
    BY <1>1, <2>1, <2>3 DEF KeyOf, DrawP
  <2>5. TypeOK' /\ PrimesSoFar' /\ SecretSoFar'
    <3>1. TypeOK'
      BY <1>1, <2>4 DEF IInv, TypeOK, Phases, DrawP, callVars
    <3> QED
      BY <2>1, <2>4, <3>1 DEF PrimesSoFar, SecretSoFar
  <2>6. KeyAccepted' /\ CallInv'
    BY <2>4 DEF KeyAccepted, Keyed, CallInv, AliceEncrypts, BobAnswers, AnswerFromRes
  <2> QED
    BY <2>5, <2>6 DEF IInv, CallInv
<1>2. CASE DrawQ
  <2>1. PICK L, p : /\ secretKey = KeyOf(L, p, 0) /\ IsList(L)
                    /\ p \in FactorsP(L, k, lambda)
    BY <1>2 DEF IInv, SecretSoFar, DrawQ
  <2>2. secretKey.primes = L /\ secretKey.p = p
    BY <2>1 DEF KeyOf
  <2>3. PICK q \in FactorsQ(L, k, lambda, p) : secretKey' = [secretKey EXCEPT !.q = q]
    BY <1>2, <2>2 DEF DrawQ
  <2>4. secretKey' = KeyOf(L, p, q) /\ phase' = "g"
    BY <1>2, <2>1, <2>3 DEF KeyOf, DrawQ
  <2>5. TypeOK' /\ PrimesSoFar' /\ SecretSoFar'
    <3>1. TypeOK'
      BY <1>2, <2>4 DEF IInv, TypeOK, Phases, DrawQ, callVars
    <3>2. IsKey(L, p, q)
      BY <2>1 DEF IsKey
    <3> QED
      BY <2>4, <3>1, <3>2 DEF PrimesSoFar, SecretSoFar
  <2>6. KeyAccepted' /\ CallInv'
    BY <2>4 DEF KeyAccepted, Keyed, CallInv, AliceEncrypts, BobAnswers, AnswerFromRes
  <2> QED
    BY <2>5, <2>6 DEF IInv, CallInv
<1>3. CASE DrawG
  <2>1. PICK L, p, q : secretKey = KeyOf(L, p, q) /\ IsKey(L, p, q)
    BY <1>3 DEF IInv, SecretSoFar, DrawG
  <2>2. secretKey.primes = L /\ secretKey.p = p /\ secretKey.q = q
    BY <2>1 DEF KeyOf
  <2>3. PICK g \in GRandom(p * q) : /\ usable_g(secretKey, p * q, g)
                                    /\ publicKey' = PublicKey(secretKey, k, g)
    BY <1>3, <2>2 DEF DrawG
  <2>4. publicKey' = Key(p * q, Sigma(L), g)
    BY <2>2, <2>3 DEF PublicKey, Key, Sigma
  <2>5. phase' = "ready" /\ secretKey' = secretKey
    BY <1>3 DEF DrawG
  <2>6. TypeOK' /\ PrimesSoFar' /\ SecretSoFar'
    <3>1. TypeOK'
      BY <1>3, <2>5 DEF IInv, TypeOK, Phases, DrawG, callVars
    <3> QED
      BY <2>5, <3>1 DEF PrimesSoFar, SecretSoFar
  <2>7. KeyAccepted'
    BY <2>1, <2>3, <2>4, <2>5 DEF KeyAccepted
  <2>8. CallInv'
    BY <2>5 DEF CallInv, AliceEncrypts, BobAnswers, AnswerFromRes
  <2> QED
    BY <2>6, <2>7, <2>8 DEF IInv, CallInv
<1> QED
  BY <1>1, <1>2, <1>3

LEMMA NextIInv == IInv /\ [Next]_vars => IInv'
<1> SUFFICES ASSUME IInv, [Next]_vars PROVE IInv'
  OBVIOUS
<1>0. ASSUME UNCHANGED keyVars, phase \notin {"primes", "p", "q", "g"},
             phase' \notin {"primes", "p", "q", "g"}
      PROVE  PrimesSoFar' /\ SecretSoFar' /\ KeyAccepted'
  <2>1. publicKey' = publicKey /\ secretKey' = secretKey
    BY <1>0 DEF keyVars
  <2>2. PrimesSoFar' /\ SecretSoFar'
    BY <1>0 DEF PrimesSoFar, SecretSoFar
  <2>3. KeyAccepted'
    BY <1>0, <2>1 DEF IInv, KeyAccepted, Keyed
  <2> QED
    BY <2>2, <2>3
<1>1. CASE PickPrime
  BY <1>1, PickKeeps
<1>2. CASE DrawP \/ DrawQ \/ DrawG
  BY <1>2, DrawKeeps
<1>3. ASSUME NEW x \in Numbers, NEW y \in Numbers, Step1(x, y) PROVE IInv'
  <2>0. /\ phase = "ready" /\ phase' = "step1" /\ publicKey' = publicKey
        /\ aliceNumber' = x /\ bobNumber' = y /\ UNCHANGED keyVars
    BY <1>3 DEF Step1, keyVars
  <2>1. TypeOK'
    BY <2>0 DEF IInv, TypeOK, Phases
  <2>2. PrimesSoFar' /\ SecretSoFar' /\ KeyAccepted'
    BY <1>0, <2>0
  <2>3. AliceEncrypts'
    <3>1. \E r \in EncRandom(publicKey.n) :
            aliceCipherText' = Enc(publicKey, Encode(x), r)
      BY <1>3 DEF Step1
    <3> QED
      BY <2>0, <3>1 DEF AliceEncrypts, Encode
  <2>4. BobAnswers' /\ AnswerFromRes'
    BY <2>0 DEF BobAnswers, AnswerFromRes
  <2> QED
    BY <2>1, <2>2, <2>3, <2>4 DEF IInv
<1>4. CASE Step2
  <2>0. /\ phase = "step1" /\ phase' = "step2" /\ publicKey' = publicKey
        /\ aliceNumber' = aliceNumber /\ bobNumber' = bobNumber
        /\ aliceCipherText' = aliceCipherText /\ UNCHANGED keyVars
    BY <1>4 DEF Step2, keyVars
  <2>1. TypeOK'
    BY <2>0 DEF IInv, TypeOK, Phases
  <2>2. PrimesSoFar' /\ SecretSoFar' /\ KeyAccepted'
    BY <1>0, <2>0
  <2>3. AliceEncrypts'
    BY <2>0 DEF IInv, AliceEncrypts, Encode
  <2>4. BobAnswers'
    <3>1. \E r \in EncRandom(publicKey.n) :
            bobCipherText' = Enc(publicKey, Encode(bobNumber), r)
      BY <1>4 DEF Step2
    <3>2. /\ s' \in ScalarRandom
          /\ res' = Scalar_Mul(publicKey, s',
                      Sub(publicKey, aliceCipherText, bobCipherText'))
      BY <1>4 DEF Step2
    <3> QED
      BY <2>0, <3>1, <3>2 DEF BobAnswers, Encode
  <2>5. AnswerFromRes'
    BY <2>0 DEF AnswerFromRes
  <2> QED
    BY <2>1, <2>2, <2>3, <2>4, <2>5 DEF IInv
<1>5. CASE Step3
  <2>0. /\ phase = "step2" /\ phase' = "done" /\ publicKey' = publicKey
        /\ secretKey' = secretKey /\ aliceNumber' = aliceNumber
        /\ bobNumber' = bobNumber /\ aliceCipherText' = aliceCipherText
        /\ bobCipherText' = bobCipherText /\ s' = s /\ res' = res
        /\ verdict' = isZero(publicKey, secretKey, res) /\ UNCHANGED keyVars
    BY <1>5 DEF Step3, keyVars
  <2>1. TypeOK'
    BY <2>0 DEF IInv, TypeOK, Phases
  <2>2. PrimesSoFar' /\ SecretSoFar' /\ KeyAccepted'
    BY <1>0, <2>0
  <2>3. AliceEncrypts'
    BY <2>0 DEF IInv, AliceEncrypts, Encode
  <2>4. BobAnswers'
    BY <2>0 DEF IInv, BobAnswers, Encode
  <2>5. AnswerFromRes'
    BY <2>0 DEF AnswerFromRes
  <2> QED
    BY <2>1, <2>2, <2>3, <2>4, <2>5 DEF IInv
<1>6. CASE Return
  <2>0. /\ phase = "done" /\ phase' = "ready" /\ UNCHANGED keyVars
        /\ aliceNumber' = 0 /\ bobNumber' = 0
    BY <1>6 DEF Return
  <2>1. TypeOK'
    BY <2>0, NumbersAssumption DEF TypeOK, Phases
  <2>2. PrimesSoFar' /\ SecretSoFar' /\ KeyAccepted'
    BY <1>0, <2>0
  <2>3. AliceEncrypts' /\ BobAnswers' /\ AnswerFromRes'
    BY <2>0 DEF AliceEncrypts, BobAnswers, AnswerFromRes
  <2> QED
    BY <2>1, <2>2, <2>3 DEF IInv
<1>7. ASSUME UNCHANGED vars PROVE IInv'
  <2>0. /\ phase' = phase /\ publicKey' = publicKey
        /\ secretKey' = secretKey /\ aliceNumber' = aliceNumber
        /\ bobNumber' = bobNumber /\ aliceCipherText' = aliceCipherText
        /\ bobCipherText' = bobCipherText /\ s' = s /\ res' = res
        /\ verdict' = verdict
    BY <1>7 DEF vars, keyVars, callVars
  <2>1. TypeOK' /\ PrimesSoFar' /\ SecretSoFar'
    BY <2>0 DEF IInv, TypeOK, PrimesSoFar, SecretSoFar
  <2>2. KeyAccepted'
    BY <2>0 DEF IInv, KeyAccepted, Keyed
  <2>3. AliceEncrypts'
    BY <2>0 DEF IInv, AliceEncrypts, Encode
  <2>4. BobAnswers' /\ AnswerFromRes'
    BY <2>0 DEF IInv, BobAnswers, AnswerFromRes, Encode
  <2> QED
    BY <2>1, <2>2, <2>3, <2>4 DEF IInv
<1>8. CASE Retry
  BY <1>7, <1>8 DEF Retry
<1> QED
  BY <1>1, <1>2, <1>3, <1>4, <1>5, <1>6, <1>7, <1>8 DEF Next

LEMMA Invariance == Spec => []IInv
  BY InitIInv, NextIInv, PTL DEF Spec

----------------------------------------------------------------------------
(***************************************************************************)
(* What a call answers.                                                    *)
(***************************************************************************)

(* The key of a state, and the numbers the proofs above speak of.          *)
KeySetting(n, S, g, e) ==
  /\ Setting(n, S, g, e)
  /\ publicKey = Key(n, S, g)
  /\ mod_mul(pi_n(secretKey, n), mod_inverse(S, n), n) = e
  /\ ((secretKey.p - 1) * (secretKey.q - 1)) \div S = e
  /\ S \in Sigmas
  /\ EncRandom(n) \subseteq Nat

LEMMA KeySettingExists ==
  ASSUME Sized, KeyAccepted, Keyed
  PROVE  \E n, S, g, e : KeySetting(n, S, g, e)
<1>1. PICK L, p, q, g : /\ secretKey = KeyOf(L, p, q) /\ IsKey(L, p, q)
                        /\ publicKey = Key(p * q, Sigma(L), g)
                        /\ g \in GRandom(p * q)
                        /\ usable_g(secretKey, p * q, g)
  BY DEF KeyAccepted
<1>2. IsList(L) /\ p \in FactorsP(L, k, lambda) /\ q \in FactorsQ(L, k, lambda, p)
  BY <1>1 DEF IsKey
<1>3. PICK e : Cofactor(L, p, q, e)
  BY <1>2, CofactorExists
<1> DEFINE n == p * q  S == Sigma(L)
<1>4. n \in Nat \ {0} /\ n > 1 /\ S \in Nat \ {0}
  BY <1>2, ModulusFacts
<1>5. e \in Nat \ {0}
  BY <1>3 DEF Cofactor
<1>6. /\ mod_mul(pi_n(secretKey, n), mod_inverse(S, n), n) = e
      /\ ((secretKey.p - 1) * (secretKey.q - 1)) \div S = e
  <2>1. secretKey.p = p /\ secretKey.q = q
    BY <1>1 DEF KeyOf
  <2> QED
    BY <1>1, <1>2, <1>3, <2>1, Exponents
<1>7. \A x \in Nat : Coprime(x, n) => Congruent(Power(x, S * e), 1, n)
  BY <1>2, <1>3, SigmaVanishes
<1>8. HasBits(n, lambda)
  BY <1>2, FactorForm
<1>9. GRandom(n) \subseteq 0..(n - 1) /\ EncRandom(n) \subseteq EncRandomElements(n)
  <2>1. lambda \in Nat \ {0} /\ lambda - 1 \in Nat
    BY Parameters
  <2>2. two_to[lambda - 1] \in Nat /\ two_to[lambda] \in Nat
    BY <2>1, TwoTo
  <2>3. n \in two_to[lambda - 1]..(two_to[lambda] - 1)
    BY <1>4, <1>8, <2>2 DEF HasBits
  <2> QED
    BY <2>3, RandomAssumption
<1>10. EncRandom(n) \subseteq Nat /\ g \in Nat
  <2>1. \A x \in EncRandomElements(n) : x \in Nat
    BY <1>4 DEF EncRandomElements
  <2>2. \A x \in 0..(n - 1) : x \in Nat
    BY <1>4
  <2> QED
    BY <1>1, <1>9, <2>1, <2>2
<1>11. Coprime(g, n) => \A m \in Nat : Congruent(Power(Power(g, e), m), 1, n)
                                        => Divides(S, m)
  BY <1>1, <1>2, <1>3, <1>10, OrderOfG
<1>12. S \in Sigmas
  <2>1. L \in {P \in [1..k -> PrimesOfBits(B)] : IsInjective(P)}
    BY <1>2 DEF IsList, IsInjective
  <2> QED
    BY <2>1 DEF Sigmas, Sigma
<1> HIDE DEF n, S
<1>13. Setting(n, S, g, e)
  BY <1>4, <1>5, <1>7, <1>10, <1>11 DEF Setting
<1>14. publicKey = Key(n, S, g)
  BY <1>1 DEF n, S
<1>15. KeySetting(n, S, g, e)
  BY <1>6, <1>10, <1>12, <1>13, <1>14 DEF KeySetting
<1> QED
  BY <1>15

LEMMA EncodeNat == \A x \in Numbers : Encode(x) \in Nat
<1> TAKE x \in Numbers
<1>1. x \in Int /\ Word \in Nat \ {0}
  BY NumbersAssumption, WordAssumption
<1> QED
  BY <1>1 DEF Encode

LEMMA ScalarPositive == ScalarRandom \subseteq Nat \ {0}
<1>1. \A bits : \A x \in ScalarElements(bits) : x \in Nat \ {0}
  BY DEF ScalarElements
<1> QED
  BY <1>1, ScalarAssumption

LEMMA IsZeroReads ==
  ASSUME NEW n, NEW S, NEW g, NEW e, KeySetting(n, S, g, e), NEW c
  PROVE  isZero(publicKey, secretKey, c) <=> mod_exp(c, e, n) = 1
<1>1. publicKey.n = n /\ publicKey.sigma = S
  BY DEF KeySetting, Key
<1>2. mod_mul(pi_n(secretKey, n), mod_inverse(S, n), n) = e
  BY DEF KeySetting
<1> QED
  BY <1>1, <1>2 DEF isZero

(* Where the ciphertexts of a call come from, as numbers.                  *)
LEMMA CallFacts ==
  ASSUME NEW n, NEW S, NEW g, NEW e, KeySetting(n, S, g, e),
         TypeOK, AliceEncrypts, BobAnswers, phase \in {"step2", "done"}
  PROVE  \E x, y \in Nat :
           /\ Encode(aliceNumber) \in Nat /\ Encode(bobNumber) \in Nat
           /\ aliceCipherText = Enc(Key(n, S, g), Encode(aliceNumber), x)
           /\ bobCipherText = Enc(Key(n, S, g), Encode(bobNumber), y)
           /\ aliceCipherText \in Nat /\ bobCipherText \in Nat
           /\ s \in Nat \ {0}
           /\ res = Scalar_Mul(Key(n, S, g), s,
                               Sub(Key(n, S, g), aliceCipherText, bobCipherText))
<1>1. publicKey = Key(n, S, g) /\ publicKey.n = n /\ EncRandom(n) \subseteq Nat
      /\ Setting(n, S, g, e)
  BY DEF KeySetting, Key
<1>2. Encode(aliceNumber) \in Nat /\ Encode(bobNumber) \in Nat
  BY EncodeNat DEF TypeOK
<1>3. PICK x \in Nat : aliceCipherText = Enc(Key(n, S, g), Encode(aliceNumber), x)
  BY <1>1 DEF AliceEncrypts
<1>4. PICK y \in Nat : bobCipherText = Enc(Key(n, S, g), Encode(bobNumber), y)
  BY <1>1 DEF BobAnswers
<1>5. aliceCipherText \in Nat /\ bobCipherText \in Nat
  BY <1>1, <1>2, <1>3, <1>4, EncCongruent
<1>6. s \in Nat \ {0}
  BY ScalarPositive DEF BobAnswers
<1>7. res = Scalar_Mul(Key(n, S, g), s,
                       Sub(Key(n, S, g), aliceCipherText, bobCipherText))
  BY <1>1 DEF BobAnswers
<1> QED
  BY <1>2, <1>3, <1>4, <1>5, <1>6, <1>7

(* With an invertible g and invertible ciphertexts Bob's answer encrypts   *)
(* the blinded difference, and isZero sees whether it is zero.             *)
LEMMA AnswerPlain ==
  ASSUME NEW n, NEW S, NEW g, NEW e, KeySetting(n, S, g, e),
         TypeOK, AliceEncrypts, BobAnswers, phase \in {"step2", "done"},
         Coprime(g, n), Coprime(aliceCipherText, n), Coprime(bobCipherText, n)
  PROVE  /\ Plain(res) = (s * (Difference % S)) % S
         /\ isZero(publicKey, secretKey, res) <=> (s * (Difference % S)) % S = 0
<1> DEFINE a == Encode(aliceNumber)  b == Encode(bobNumber)
           c == aliceCipherText  d == bobCipherText
           K == Key(n, S, g)  f == Sub(K, c, d)  t == (a - b) % S  z == (s * t) % S
<1>1. Setting(n, S, g, e)
  BY DEF KeySetting
<1>2. PICK x \in Nat, y \in Nat :
        /\ a \in Nat /\ b \in Nat /\ c \in Nat /\ d \in Nat /\ s \in Nat \ {0}
        /\ c = Enc(Key(n, S, g), a, x) /\ d = Enc(Key(n, S, g), b, y)
        /\ res = Scalar_Mul(K, s, f)
  BY CallFacts
<1>3. S \in Nat \ {0} /\ t = Difference % S
  BY <1>1 DEF Setting, Difference
<1>4. Coprime(c, n) /\ Coprime(d, n)
  OBVIOUS
<1> HIDE DEF a, b, c, d
<1>5. Coprime(x, n) /\ Coprime(y, n)
  BY <1>1, <1>2, <1>4, EncUnit
<1>6. Carries(c, a, n, g, e) /\ Carries(d, b, n, g, e)
  BY <1>1, <1>2, <1>5, EncCarries
<1>7. f \in Nat /\ t \in 0..(S - 1) /\ Carries(f, t, n, g, e)
  BY <1>1, <1>2, <1>4, <1>6, SubCarries
<1> HIDE DEF f, t
<1>8. t \in Nat /\ s \in Nat
  BY <1>2, <1>3, <1>7
<1>9. Scalar_Mul(K, s, f) \in Nat /\ z \in 0..(S - 1)
      /\ Carries(Scalar_Mul(K, s, f), z, n, g, e)
  BY <1>1, <1>7, <1>8, ScalarCarries
<1> HIDE DEF z
<1>10. res \in Nat /\ Carries(res, z, n, g, e)
  BY <1>2, <1>9
<1>11. /\ (CHOOSE m \in 0..(S - 1) :
             mod_exp(mod_exp(g, e, n), m, n) = mod_exp(res, e, n)) = z
       /\ mod_exp(res, e, n) = 1 <=> z = 0
  BY <1>1, <1>9, <1>10, PlainOf
<1>12. Plain(res) = z
  <2>1. publicKey.n = n /\ publicKey.g = g /\ publicKey.sigma = S
    BY DEF KeySetting, Key
  <2>2. ((secretKey.p - 1) * (secretKey.q - 1)) \div S = e
    BY DEF KeySetting
  <2> QED
    BY <1>11, <2>1, <2>2 DEF Plain
<1>13. isZero(publicKey, secretKey, res) <=> z = 0
  BY <1>11, IsZeroReads
<1>14. z = (s * (Difference % S)) % S
  BY <1>3 DEF z
<1> QED
  BY <1>12, <1>13, <1>14

(* An accepted answer was a unit, and so was all it was computed from.     *)
LEMMA IInvNonUnitRejects ==
  ASSUME Sized, IInv
  PROVE  NonUnitRejects
<1> SUFFICES ASSUME phase = "done", verdict
             PROVE  IsUnit(aliceCipherText) /\ IsUnit(bobCipherText)
  BY DEF NonUnitRejects
<1>1. TypeOK /\ KeyAccepted /\ AliceEncrypts /\ BobAnswers /\ Keyed
      /\ verdict = isZero(publicKey, secretKey, res)
  BY DEF IInv, AnswerFromRes, Keyed
<1>2. PICK n, S, g, e : KeySetting(n, S, g, e)
  BY <1>1, KeySettingExists
<1>3. Setting(n, S, g, e) /\ publicKey.n = n
  BY <1>2 DEF KeySetting, Key
<1>4. /\ aliceCipherText \in Nat /\ bobCipherText \in Nat /\ s \in Nat \ {0}
      /\ res = Scalar_Mul(Key(n, S, g), s,
                          Sub(Key(n, S, g), aliceCipherText, bobCipherText))
  BY <1>1, <1>2, CallFacts
<1>5. mod_exp(res, e, n) = 1
  BY <1>1, <1>2, IsZeroReads
<1>6. Coprime(aliceCipherText, n) /\ Coprime(bobCipherText, n)
  BY <1>3, <1>4, <1>5, AcceptedUnits
<1> QED
  BY <1>3, <1>6 DEF IsUnit

(***************************************************************************)
(* A ciphertext without inverse, Alice's or Bob's, always makes the test   *)
(* answer "different", whatever numbers were compared.                     *)
(***************************************************************************)
THEOREM NonUnitsRejected ==
  ASSUME Sized
  PROVE  Spec => []NonUnitRejects
<1>1. IInv => NonUnitRejects
  BY IInvNonUnitRejects
<1> QED
  BY <1>1, Invariance, PTL

(* Under a g without inverse equal numbers are rejected.                   *)
DegenerateRejects ==
  (phase = "done" /\ ~IsUnit(publicKey.g) /\ Encode(aliceNumber) # 0) => ~verdict

(* Under a g without inverse no ciphertext but one of zero has one.        *)
LEMMA IInvDegenerateRejects ==
  ASSUME Sized, IInv
  PROVE  DegenerateRejects
<1> SUFFICES ASSUME phase = "done", ~IsUnit(publicKey.g),
                    Encode(aliceNumber) # 0, verdict
             PROVE  FALSE
  BY DEF DegenerateRejects
<1>1. TypeOK /\ KeyAccepted /\ AliceEncrypts /\ BobAnswers /\ Keyed
  BY DEF IInv, Keyed
<1>2. PICK n, S, g, e : KeySetting(n, S, g, e)
  BY <1>1, KeySettingExists
<1>3. Setting(n, S, g, e) /\ publicKey.n = n /\ publicKey.g = g
  BY <1>2 DEF KeySetting, Key
<1>4. PICK x \in Nat : /\ Encode(aliceNumber) \in Nat
                       /\ aliceCipherText = Enc(Key(n, S, g), Encode(aliceNumber), x)
  BY <1>1, <1>2, CallFacts
<1>5. Coprime(aliceCipherText, n)
  BY <1>3, IInvNonUnitRejects DEF NonUnitRejects, IsUnit
<1>6. Coprime(g, n)
  <2> DEFINE a == Encode(aliceNumber)
  <2>1. a \in Nat /\ a # 0 /\ Coprime(Enc(Key(n, S, g), a, x), n)
    BY <1>4, <1>5
  <2> HIDE DEF a
  <2> QED
    BY <1>3, <2>1, EncUnit
<1> QED
  BY <1>3, <1>6 DEF IsUnit

(***************************************************************************)
(* A g without inverse modulo n, which usable_g does not refuse, makes the *)
(* test reject every number that is not written as zero, equal ones        *)
(* included: Bob divides by a ciphertext without inverse (NS.cpp:320).     *)
(***************************************************************************)
THEOREM DegenerateKeyRejects ==
  ASSUME Sized
  PROVE  Spec => []DegenerateRejects
<1>1. IInv => DegenerateRejects
  BY IInvDegenerateRejects
<1> QED
  BY <1>1, Invariance, PTL

(* An invertible g shows the blinded difference, which is its own residue; *)
(* with another g only the plaintext zero has invertible ciphertexts.      *)
LEMMA IInvNoFalseAccept ==
  ASSUME Sized, IInv
  PROVE  NoFalseAccept
<1> SUFFICES ASSUME phase = "done", verdict, -publicKey.sigma < s * Difference,
                    s * Difference < publicKey.sigma
             PROVE  Difference = 0
  BY DEF NoFalseAccept
<1>1. TypeOK /\ KeyAccepted /\ AliceEncrypts /\ BobAnswers /\ Keyed
      /\ verdict = isZero(publicKey, secretKey, res)
  BY DEF IInv, AnswerFromRes, Keyed
<1>2. PICK n, S, g, e : KeySetting(n, S, g, e)
  BY <1>1, KeySettingExists
<1>3. /\ Setting(n, S, g, e) /\ publicKey.n = n /\ publicKey.sigma = S
      /\ S \in Nat \ {0}
  BY <1>2 DEF KeySetting, Key, Setting
<1>4. Coprime(aliceCipherText, n) /\ Coprime(bobCipherText, n)
  BY <1>3, IInvNonUnitRejects DEF NonUnitRejects, IsUnit
<1>5. PICK x \in Nat, y \in Nat :
        /\ Encode(aliceNumber) \in Nat /\ Encode(bobNumber) \in Nat
        /\ aliceCipherText = Enc(Key(n, S, g), Encode(aliceNumber), x)
        /\ bobCipherText = Enc(Key(n, S, g), Encode(bobNumber), y)
        /\ s \in Nat \ {0}
  BY <1>1, <1>2, CallFacts
<1>6. CASE Coprime(g, n)
  <2>1. (s * (Difference % S)) % S = 0
    BY <1>1, <1>2, <1>4, <1>6, AnswerPlain
  <2>2. Difference \in Int
    BY <1>5 DEF Difference
  <2> QED
    BY <1>3, <1>5, <2>1, <2>2, SmallDifference
<1>7. CASE ~Coprime(g, n)
  <2>1. Encode(aliceNumber) = 0 /\ Encode(bobNumber) = 0
    BY <1>3, <1>4, <1>5, <1>7, EncUnit
  <2> QED
    BY <2>1 DEF Difference
<1> QED
  BY <1>6, <1>7

(***************************************************************************)
(* A scalar too small to carry the difference of the numbers to sigma      *)
(* never accepts two different numbers, invertible g or not.               *)
(***************************************************************************)
THEOREM SmallScalarsSound ==
  ASSUME Sized
  PROVE  Spec => []NoFalseAccept
<1>1. IInv => NoFalseAccept
  BY IInvNoFalseAccept
<1> QED
  BY <1>1, Invariance, PTL

(* AnswerPlain as a state predicate.                                       *)
AnswerRegular ==
  (phase \in {"step2", "done"} /\ Regular) =>
     /\ Plain(res) = (s * (Difference % publicKey.sigma)) % publicKey.sigma
     /\ isZero(publicKey, secretKey, res) <=> Plain(res) = 0

LEMMA IInvAnswerRegular ==
  ASSUME Sized, IInv
  PROVE  AnswerRegular
<1> SUFFICES ASSUME Regular, phase \in {"step2", "done"}
             PROVE  /\ Plain(res) = (s * (Difference % publicKey.sigma)) % publicKey.sigma
                    /\ isZero(publicKey, secretKey, res) <=> Plain(res) = 0
  BY DEF AnswerRegular
<1>1. TypeOK /\ KeyAccepted /\ AliceEncrypts /\ BobAnswers /\ Keyed
  BY DEF IInv, Keyed
<1>2. PICK n, S, g, e : KeySetting(n, S, g, e)
  BY <1>1, KeySettingExists
<1>3. publicKey.n = n /\ publicKey.g = g /\ publicKey.sigma = S
  BY <1>2 DEF KeySetting, Key
<1>4. Coprime(g, n) /\ Coprime(aliceCipherText, n) /\ Coprime(bobCipherText, n)
  BY <1>1, <1>3 DEF Regular, IsUnit
<1>5. /\ Plain(res) = (s * (Difference % S)) % S
      /\ isZero(publicKey, secretKey, res) <=> (s * (Difference % S)) % S = 0
  BY <1>1, <1>2, <1>4, AnswerPlain
<1> QED
  BY <1>3, <1>5

(***************************************************************************)
(* With an invertible g and invertible ciphertexts every step of the tester*)
(* is a step of the plaintext-level test modulo sigma, or none of its own. *)
(***************************************************************************)
THEOREM ImplementsAHE ==
  ASSUME Sized
  PROVE  Spec => AHESteps
<1>1. Init => AHE!Init
  <2> SUFFICES ASSUME Init PROVE AHE!Init
    OBVIOUS
  <2>1. ~Keyed /\ phase = "primes" /\ publicKey.sigma = 0
    BY DEF Init, Keyed
  <2>2. Encode(0) = 0
    BY WordAssumption DEF Encode
  <2> QED
    BY <2>1, <2>2 DEF Init, AHE!Init
<1>2. IInv /\ AnswerRegular /\ AnswerRegular' /\ [Next]_vars
        => [AHE!Next \/ ~Regular']_(AHE!vars)
  <2> SUFFICES ASSUME IInv, AnswerRegular, AnswerRegular', [Next]_vars, Regular'
               PROVE  [AHE!Next]_(AHE!vars)
    BY DEF AHE!vars
  <2>1. CASE PickPrime \/ DrawP \/ DrawQ
    <3>1. /\ ~Keyed /\ ~Keyed' /\ publicKey' = publicKey /\ UNCHANGED callVars
          /\ phase \notin {"step2", "done"} /\ phase' \notin {"step2", "done"}
      BY <2>1 DEF PickPrime, DrawP, DrawQ, Keyed
    <3> QED
      BY <3>1 DEF AHE!vars, callVars, Encode
  <2>2. CASE DrawG
    <3>1. /\ ~Keyed /\ Keyed' /\ phase' = "ready" /\ UNCHANGED callVars
          /\ phase \notin {"step2", "done"} /\ phase' \notin {"step2", "done"}
      BY <2>2 DEF DrawG, Keyed
    <3>2. publicKey'.sigma \in Sigmas
      <4>0. PICK L, p, q : secretKey = KeyOf(L, p, q) /\ IsKey(L, p, q)
        BY <2>2 DEF IInv, SecretSoFar, DrawG
      <4>1. publicKey'.sigma = Sigma(L)
        BY <2>2, <4>0 DEF DrawG, PublicKey, KeyOf, Sigma
      <4>2. L \in {P \in [1..k -> PrimesOfBits(B)] : IsInjective(P)}
        BY <4>0 DEF IsKey, IsList, IsInjective
      <4>3. Sigma(L) \in Sigmas
        BY <4>2 DEF Sigmas, Sigma
      <4> QED
        BY <4>1, <4>3
    <3>3. AHE!KeyGen
      BY <3>1, <3>2 DEF AHE!KeyGen, callVars, Encode
    <3> QED
      BY <3>3 DEF AHE!Next
  <2>3. ASSUME NEW x \in Numbers, NEW y \in Numbers, Step1(x, y)
        PROVE  AHE!Next
    <3>1. /\ Keyed /\ Keyed' /\ phase = "ready" /\ phase' = "step1"
          /\ publicKey' = publicKey /\ aliceNumber' = x /\ bobNumber' = y
          /\ s' = s /\ verdict' = verdict
      BY <2>3 DEF Step1, Keyed, keyVars
    <3>2. AHE!Step1(Encode(x), Encode(y))
      BY <3>1 DEF AHE!Step1, Encode
    <3> QED
      BY <3>2 DEF AHE!Next
  <2>4. CASE Step2
    <3>1. /\ Keyed /\ Keyed' /\ phase = "step1" /\ phase' = "step2"
          /\ publicKey' = publicKey /\ aliceNumber' = aliceNumber
          /\ bobNumber' = bobNumber /\ verdict' = verdict
      BY <2>4 DEF Step2, Keyed, keyVars
    <3>2. s' \in ScalarRandom
      BY <2>4 DEF Step2
    <3>3. Plain(res)' = (s' * (Difference' % publicKey'.sigma)) % publicKey'.sigma
      <4>1. phase' \in {"step2", "done"}
        BY <3>1
      <4> QED
        BY <4>1 DEF AnswerRegular
    <3>4. Difference' = Encode(aliceNumber) - Encode(bobNumber)
      BY <3>1 DEF Difference, Encode
    <3>5. Regular' /\ Plain(res)' = (s' * ((Encode(aliceNumber) - Encode(bobNumber))
                                  % publicKey.sigma)) % publicKey.sigma
      BY <3>1, <3>3, <3>4
    <3>6. AHE!Step2(s')
      BY <3>1, <3>5 DEF AHE!Step2, Encode
    <3> QED
      BY <3>2, <3>6 DEF AHE!Next
  <2>5. CASE Step3
    <3>1. /\ Keyed /\ Keyed' /\ phase = "step2" /\ phase' = "done"
          /\ publicKey' = publicKey /\ secretKey' = secretKey
          /\ aliceNumber' = aliceNumber /\ bobNumber' = bobNumber
          /\ aliceCipherText' = aliceCipherText /\ bobCipherText' = bobCipherText
          /\ s' = s /\ res' = res
          /\ verdict' = isZero(publicKey, secretKey, res)
      BY <2>5 DEF Step3, Keyed, keyVars
    <3>2. Regular
      BY <3>1 DEF Regular, IsUnit, Keyed
    <3>3. isZero(publicKey, secretKey, res) <=> Plain(res) = 0
      BY <3>1, <3>2 DEF AnswerRegular
    <3>4. verdict' = (Plain(res) = 0)
      <4>1. isZero(publicKey, secretKey, res) \in BOOLEAN
        BY DEF isZero
      <4> QED
        BY <3>1, <3>3, <4>1
    <3>5. Plain(res)' = Plain(res)
      <4>1. publicKey' = publicKey /\ secretKey' = secretKey /\ res' = res
        BY <3>1
      <4> QED
        BY <4>1 DEF Plain
    <3>6. AHE!Step3
      BY <3>1, <3>2, <3>4, <3>5 DEF AHE!Step3, Encode
    <3> QED
      BY <3>6 DEF AHE!Next
  <2>6. CASE Return
    <3>1. /\ Keyed /\ Keyed' /\ phase = "done" /\ phase' = "ready"
          /\ publicKey' = publicKey /\ s' = 0 /\ verdict' = FALSE
          /\ aliceNumber' = 0 /\ bobNumber' = 0
      BY <2>6 DEF Return, Keyed, keyVars
    <3>2. Encode(0) = 0
      BY WordAssumption DEF Encode
    <3>3. AHE!Return
      BY <3>1, <3>2 DEF AHE!Return, Encode
    <3> QED
      BY <3>3 DEF AHE!Next
  <2>7. ASSUME UNCHANGED vars PROVE UNCHANGED AHE!vars
    <3>1. /\ phase' = phase /\ publicKey' = publicKey /\ secretKey' = secretKey
          /\ UNCHANGED callVars /\ Keyed' = Keyed
      BY <2>7 DEF vars, keyVars, Keyed
    <3>2. Regular' = Regular
      BY <3>1 DEF Regular, Keyed, IsUnit, callVars
    <3>3. Plain(res)' = Plain(res)
      BY <3>1 DEF Plain, callVars
    <3> QED
      BY <3>1, <3>2, <3>3 DEF AHE!vars, callVars, Encode
  <2>8. CASE Retry
    BY <2>7, <2>8 DEF Retry
  <2> QED
    BY <2>1, <2>2, <2>3, <2>4, <2>5, <2>6, <2>7, <2>8 DEF Next
<1>3. IInv => AnswerRegular
  BY IInvAnswerRegular
<1> QED
  BY <1>1, <1>2, <1>3, Invariance, PTL DEF Spec, AHESteps

(***************************************************************************)
(* Add, Sub and Scalar_Mul in any sequence: HomomorphicCalc on the keys    *)
(* KeyGen makes with an invertible g, on encryptions under invertible      *)
(* random numbers, with any plaintext and any scalar.                      *)
(***************************************************************************)
VARIABLES pair, held, plain      \* its key, ciphertext and plaintext

PairOf(L, p, q, g) ==
  [pk |-> Key(p * q, Sigma(L), g), sk |-> KeyOf(L, p, q), M |-> Sigma(L)]
KeyChoices ==
  {t \in [1..k -> PrimesOfBits(B)] \X Nat \X Nat \X Nat :
     /\ IsKey(t[1], t[2], t[3])
     /\ Coprime(t[4], t[2] * t[3])
     /\ usable_g(KeyOf(t[1], t[2], t[3]), t[2] * t[3], t[4])}
Pairs == {PairOf(t[1], t[2], t[3], t[4]) : t \in KeyChoices}
AnyScalar(K) == Nat
FreshUnit(K, x) == {Enc(K.pk, x, r) : r \in {r \in Nat : Coprime(r, K.pk.n)}}
PairAdd(K, c, d) == Add(K.pk, c, d)
PairSub(K, c, d) == Sub(K.pk, c, d)
PairMul(K, j, c) == Scalar_Mul(K.pk, j, c)
(* NS has no full decryption: isZero is what it reads.                     *)
PairReads(K, c, x) == isZero(K.pk, K.sk, c) <=> x = 0

Calc == INSTANCE HomomorphicCalc
          WITH Keys <- Pairs, FreshPlain <- Nat, Scalars <- AnyScalar,
               Fresh <- FreshUnit, AddOp <- PairAdd, SubOp <- PairSub,
               MulOp <- PairMul, Reads <- PairReads,
               key <- pair, c <- held, m <- plain

PairSetting(n, S, g, e) ==
  /\ Setting(n, S, g, e) /\ Coprime(g, n)
  /\ pair.pk = Key(n, S, g) /\ pair.M = S
  /\ mod_mul(pi_n(pair.sk, n), mod_inverse(S, n), n) = e

(* A unit that carries the plaintext x.                                    *)
Holds(n, g, e, c, x) == /\ c \in Nat /\ Coprime(c, n) /\ x \in Nat
                        /\ Carries(c, x, n, g, e)

CalcInv == \E n, S, g, e : PairSetting(n, S, g, e) /\ Holds(n, g, e, held, plain)

LEMMA PairSettingExists ==
  ASSUME Sized, pair \in Pairs
  PROVE  \E n, S, g, e : PairSetting(n, S, g, e)
<1>1. PICK t \in KeyChoices : pair = PairOf(t[1], t[2], t[3], t[4])
  BY DEF Pairs
<1> DEFINE L == t[1]  p == t[2]  q == t[3]  g == t[4]
<1>2. /\ IsKey(L, p, q) /\ Coprime(g, p * q) /\ usable_g(KeyOf(L, p, q), p * q, g)
      /\ g \in Nat /\ pair = PairOf(L, p, q, g)
  BY <1>1 DEF KeyChoices
<1> HIDE DEF L, p, q, g
<1>3. IsList(L) /\ p \in FactorsP(L, k, lambda) /\ q \in FactorsQ(L, k, lambda, p)
  BY <1>2 DEF IsKey
<1>4. PICK e : Cofactor(L, p, q, e)
  BY <1>3, CofactorExists
<1> DEFINE n == p * q  S == Sigma(L)
<1>5. n \in Nat \ {0} /\ n > 1 /\ S \in Nat \ {0}
  BY <1>3, ModulusFacts
<1>6. e \in Nat \ {0}
  BY <1>4 DEF Cofactor
<1>7. mod_mul(pi_n(KeyOf(L, p, q), n), mod_inverse(S, n), n) = e
  BY <1>3, <1>4, Exponents
<1>8. \A x \in Nat : Coprime(x, n) => Congruent(Power(x, S * e), 1, n)
  BY <1>3, <1>4, SigmaVanishes
<1>9. \A m \in Nat : Congruent(Power(Power(g, e), m), 1, n) => Divides(S, m)
  BY <1>2, <1>3, <1>4, OrderOfG
<1>10. pair.pk = Key(n, S, g) /\ pair.M = S /\ pair.sk = KeyOf(L, p, q)
  BY <1>2 DEF PairOf
<1> HIDE DEF n, S
<1>11. Setting(n, S, g, e)
  BY <1>2, <1>5, <1>6, <1>8, <1>9 DEF Setting
<1>12. Coprime(g, n)
  BY <1>2 DEF n
<1>13. PairSetting(n, S, g, e)
  BY <1>7, <1>10, <1>11, <1>12 DEF PairSetting
<1> QED
  BY <1>13

LEMMA FreshHolds ==
  ASSUME NEW n, NEW S, NEW g, NEW e, PairSetting(n, S, g, e),
         NEW x \in Nat, NEW c \in FreshUnit(pair, x)
  PROVE  Holds(n, g, e, c, x)
<1>1. Setting(n, S, g, e) /\ Coprime(g, n) /\ pair.pk = Key(n, S, g)
  BY DEF PairSetting
<1>2. n \in Nat \ {0} /\ S \in Nat \ {0} /\ g \in Nat /\ pair.pk.n = n
  BY <1>1 DEF Setting, Key
<1>3. PICK r \in Nat : Coprime(r, n) /\ c = Enc(Key(n, S, g), x, r)
  BY <1>1, <1>2 DEF FreshUnit
<1> DEFINE X == Power(r, S)  Y == Power(g, x)
<1>4. c \in Nat /\ Congruent(c, X * Y, n)
  BY <1>1, <1>3, EncCongruent
<1>5. X \in Nat /\ Y \in Nat /\ Coprime(X, n) /\ Coprime(Y, n)
  BY <1>1, <1>2, <1>3, PowerNatural, UnitPower
<1>6. Carries(c, x, n, g, e)
  BY <1>1, <1>3, EncCarries
<1> HIDE DEF X, Y
<1>7. X * Y \in Nat
  BY <1>5
<1>8. Coprime(X * Y, n)
  BY <1>2, <1>5, CoprimeMul
<1>9. Coprime(c, n)
  BY <1>2, <1>4, <1>7, <1>8, CoprimeCongruent
<1> QED
  BY <1>4, <1>6, <1>9 DEF Holds

LEMMA AddHolds ==
  ASSUME NEW n, NEW S, NEW g, NEW e, PairSetting(n, S, g, e),
         NEW c, NEW x, NEW d, NEW y, Holds(n, g, e, c, x), Holds(n, g, e, d, y)
  PROVE  Holds(n, g, e, PairAdd(pair, c, d), x + y)
<1> DEFINE f == mod_mul(c, d, n)  C == Power(c, e)  D == Power(d, e)  w == c * d
           G == Power(g, e)  X == Power(G, x)  Y == Power(G, y)  F == Power(f, e)
<1>1. /\ n \in Nat \ {0} /\ e \in Nat /\ g \in Int
      /\ pair.pk = Key(n, S, g)
  BY DEF PairSetting, Setting
<1>2. PairAdd(pair, c, d) = f
  BY <1>1 DEF PairAdd, Add, Key
<1>3. /\ c \in Nat /\ Coprime(c, n) /\ d \in Nat /\ Coprime(d, n) /\ x \in Nat /\ y \in Nat
      /\ Congruent(C, X, n) /\ Congruent(D, Y, n)
  BY DEF Holds, Carries
<1>4. f \in Nat /\ Coprime(f, n) /\ Congruent(f, w, n)
  BY <1>1, <1>3, UnitProduct
<1>5. G \in Int
  BY <1>1, PowerDef
<1>6. Power(G, x + y) = X * Y /\ x + y \in Nat /\ X \in Int /\ Y \in Int
  <2> HIDE DEF G
  <2> QED
    BY <1>3, <1>5, PowerAdd, PowerDef
<1>7. c \in Int /\ d \in Int /\ w \in Int /\ f \in Int
  BY <1>3, <1>4
<1>8. Power(w, e) = C * D /\ C \in Int /\ D \in Int
  BY <1>1, <1>7, PowerMul, PowerDef
<1> HIDE DEF w, f, X, Y, C, D
<1>9. Congruent(F, C * D, n)
  BY <1>1, <1>4, <1>7, <1>8, CongruentPower
<1>10. Congruent(C * D, X * Y, n)
  BY <1>1, <1>3, <1>6, <1>8, CongruentMul
<1>11. Congruent(F, Power(G, x + y), n)
  BY <1>6, <1>9, <1>10, CongruentEquivalence
<1> QED
  BY <1>2, <1>4, <1>6, <1>11 DEF Holds, Carries

LEMMA SubHolds ==
  ASSUME NEW n, NEW S, NEW g, NEW e, PairSetting(n, S, g, e),
         NEW c, NEW x, NEW d, NEW y, Holds(n, g, e, c, x), Holds(n, g, e, d, y)
  PROVE  Holds(n, g, e, PairSub(pair, c, d), (x - y) % S)
<1> DEFINE i == mod_inverse(d, n)  f == mod_mul(c, i, n)  z == (x - y) % S
<1>1. /\ n \in Nat \ {0} /\ S \in Nat \ {0} /\ Setting(n, S, g, e) /\ Coprime(g, n)
      /\ pair.pk = Key(n, S, g)
  BY DEF PairSetting, Setting
<1>2. PairSub(pair, c, d) = Sub(Key(n, S, g), c, d) /\ Sub(Key(n, S, g), c, d) = f
  BY <1>1 DEF PairSub, Sub, Key
<1>3. /\ c \in Nat /\ Coprime(c, n) /\ d \in Nat /\ Coprime(d, n) /\ x \in Nat /\ y \in Nat
      /\ Carries(c, x, n, g, e) /\ Carries(d, y, n, g, e)
  BY DEF Holds
<1>4. z \in 0..(S - 1) /\ Carries(Sub(Key(n, S, g), c, d), z, n, g, e)
  BY <1>1, <1>3, SubCarries
<1>5. f \in Nat /\ Coprime(f, n)
  <2>1. i \in Nat /\ Coprime(i, n)
    BY <1>1, <1>3, UnitQuotient
  <2> HIDE DEF i
  <2> QED
    BY <1>1, <1>3, <2>1, UnitProduct
<1> HIDE DEF f, z
<1>6. z \in Nat
  BY <1>1, <1>4
<1> QED
  BY <1>2, <1>4, <1>5, <1>6 DEF Holds, z

LEMMA MulHolds ==
  ASSUME NEW n, NEW S, NEW g, NEW e, PairSetting(n, S, g, e),
         NEW c, NEW x, Holds(n, g, e, c, x), NEW j \in Nat
  PROVE  Holds(n, g, e, PairMul(pair, j, c), (j * x) % S)
<1> DEFINE f == mod_exp(c, j, n)  z == (j * x) % S
<1>1. /\ n \in Nat \ {0} /\ S \in Nat \ {0} /\ Setting(n, S, g, e) /\ Coprime(g, n)
      /\ pair.pk = Key(n, S, g)
  BY DEF PairSetting, Setting
<1>2. PairMul(pair, j, c) = Scalar_Mul(Key(n, S, g), j, c)
      /\ Scalar_Mul(Key(n, S, g), j, c) = f
  BY <1>1 DEF PairMul, Scalar_Mul, Key
<1>3. c \in Nat /\ Coprime(c, n) /\ x \in Nat /\ Carries(c, x, n, g, e)
  BY DEF Holds
<1>4. z \in 0..(S - 1) /\ Carries(Scalar_Mul(Key(n, S, g), j, c), z, n, g, e)
  BY <1>1, <1>3, ScalarCarries
<1>5. f \in Nat /\ Coprime(f, n)
  BY <1>1, <1>3, UnitExponent
<1> HIDE DEF f, z
<1>6. z \in Nat
  BY <1>1, <1>4
<1> QED
  BY <1>2, <1>4, <1>5, <1>6 DEF Holds, z

(* The reduction of a plaintext modulo sigma changes nothing.              *)
LEMMA ReducedHolds ==
  ASSUME NEW n, NEW S, NEW g, NEW e, PairSetting(n, S, g, e),
         NEW c, NEW x, Holds(n, g, e, c, x)
  PROVE  Holds(n, g, e, c, x % S) /\ x % S \in 0..(S - 1)
<1> DEFINE G == Power(g, e)  y == x % S
<1>1. n \in Nat \ {0} /\ S \in Nat \ {0} /\ Setting(n, S, g, e) /\ Coprime(g, n)
  BY DEF PairSetting, Setting
<1>2. c \in Nat /\ Coprime(c, n) /\ x \in Nat /\ Congruent(Power(c, e), Power(G, x), n)
  BY DEF Holds, Carries
<1>3. G \in Nat /\ Congruent(Power(G, S), 1, n)
  BY <1>1, OrderFacts
<1>4. y \in 0..(S - 1) /\ Congruent(x, y, S)
  <2>1. x \in Int
    BY <1>2
  <2> QED
    BY <1>1, <2>1, CongruentResidue, CongruentEquivalence
<1>5. y \in Nat /\ G \in Int
  BY <1>1, <1>3, <1>4
<1> HIDE DEF G, y
<1>6. Congruent(Power(G, x), Power(G, y), n)
  BY <1>1, <1>2, <1>3, <1>4, <1>5, PowerPeriod
<1>7. Congruent(Power(c, e), Power(G, y), n)
  BY <1>2, <1>6, CongruentEquivalence
<1> QED
  BY <1>2, <1>4, <1>5, <1>7 DEF Holds, Carries, G, y

LEMMA HoldsReads ==
  ASSUME NEW n, NEW S, NEW g, NEW e, PairSetting(n, S, g, e),
         NEW c, NEW x, Holds(n, g, e, c, x)
  PROVE  PairReads(pair, c, x % S)
<1> DEFINE y == x % S
<1>1. /\ Setting(n, S, g, e) /\ Coprime(g, n) /\ pair.pk = Key(n, S, g)
      /\ mod_mul(pi_n(pair.sk, n), mod_inverse(S, n), n) = e
  BY DEF PairSetting
<1>2. isZero(pair.pk, pair.sk, c) <=> mod_exp(c, e, n) = 1
  BY <1>1 DEF isZero, Key
<1>3. Holds(n, g, e, c, y) /\ y \in 0..(S - 1)
  BY ReducedHolds
<1> HIDE DEF y
<1>4. mod_exp(c, e, n) = 1 <=> y = 0
  BY <1>1, <1>3, PlainOf DEF Holds
<1> QED
  BY <1>2, <1>4 DEF PairReads, y

(***************************************************************************)
(* Class NS, for lists of primes of any length and size and every          *)
(* invertible g that KeyGen accepts: whatever sequence of additions,       *)
(* subtractions and scalar multiplications led to a ciphertext, isZero     *)
(* says whether the same arithmetic on the plaintexts is zero modulo       *)
(* sigma.                                                                  *)
(***************************************************************************)
THEOREM OperationsAgree ==
  ASSUME Sized
  PROVE  Calc!Spec => []Calc!Homomorphic
<1>1. Calc!Init => CalcInv
  <2> SUFFICES ASSUME Calc!Init PROVE CalcInv
    OBVIOUS
  <2>1. pair \in Pairs /\ plain \in Nat /\ held \in FreshUnit(pair, plain)
    BY DEF Calc!Init
  <2>2. PICK n, S, g, e : PairSetting(n, S, g, e)
    BY <2>1, PairSettingExists
  <2>3. Holds(n, g, e, held, plain)
    BY <2>1, <2>2, FreshHolds
  <2> QED
    BY <2>2, <2>3 DEF CalcInv
<1>2. CalcInv /\ [Calc!Next]_(Calc!vars) => CalcInv'
  <2> SUFFICES ASSUME CalcInv, [Calc!Next]_(Calc!vars) PROVE CalcInv'
    OBVIOUS
  <2>1. PICK n, S, g, e : PairSetting(n, S, g, e) /\ Holds(n, g, e, held, plain)
    BY DEF CalcInv
  <2>2. plain \in Nat /\ pair.M = S /\ S \in Nat \ {0}
    BY <2>1 DEF Holds, PairSetting, Setting
  <2>3. ASSUME pair' = pair, Holds(n, g, e, held', plain') PROVE CalcInv'
    <3>1. PairSetting(n, S, g, e)'
      BY <2>1, <2>3 DEF PairSetting
    <3> QED
      BY <2>3, <3>1 DEF CalcInv
  <2>4. ASSUME NEW y \in Nat, Calc!Add(y) PROVE CalcInv'
    <3>1. PICK d \in FreshUnit(pair, y) : held' = PairAdd(pair, held, d)
      BY <2>4 DEF Calc!Add
    <3>2. Holds(n, g, e, d, y)
      BY <2>1, <3>1, FreshHolds
    <3>3. Holds(n, g, e, held', plain + y)
      BY <2>1, <3>1, <3>2, AddHolds
    <3>4. Holds(n, g, e, held', (plain + y) % S)
      BY <2>1, <3>3, ReducedHolds
    <3>5. pair' = pair /\ plain' = (plain + y) % S
      BY <2>2, <2>4 DEF Calc!Add
    <3> QED
      BY <2>3, <3>4, <3>5
  <2>5. ASSUME NEW y \in Nat, Calc!Sub(y) PROVE CalcInv'
    <3>1. PICK d \in FreshUnit(pair, y) : held' = PairSub(pair, held, d)
      BY <2>5 DEF Calc!Sub
    <3>2. Holds(n, g, e, d, y)
      BY <2>1, <3>1, FreshHolds
    <3>3. Holds(n, g, e, held', (plain - y) % S)
      BY <2>1, <3>1, <3>2, SubHolds
    <3>4. pair' = pair /\ plain' = (plain - y) % S
      BY <2>2, <2>5 DEF Calc!Sub
    <3> QED
      BY <2>3, <3>3, <3>4
  <2>6. CASE Calc!Double
    <3>1. held' = PairAdd(pair, held, held) /\ pair' = pair
          /\ plain' = (2 * plain) % S
      BY <2>2, <2>6 DEF Calc!Double
    <3>2. plain + plain = 2 * plain
      BY <2>2
    <3>3. Holds(n, g, e, held', plain + plain)
      BY <2>1, <3>1, AddHolds
    <3>4. Holds(n, g, e, held', (2 * plain) % S)
      BY <2>1, <3>2, <3>3, ReducedHolds
    <3> QED
      BY <2>3, <3>1, <3>4
  <2>7. CASE Calc!Cancel
    <3>1. held' = PairSub(pair, held, held) /\ pair' = pair /\ plain' = 0
      BY <2>7 DEF Calc!Cancel
    <3>2. (plain - plain) % S = 0
      BY <2>2
    <3>3. Holds(n, g, e, held', (plain - plain) % S)
      BY <2>1, <3>1, SubHolds
    <3> QED
      BY <2>3, <3>1, <3>2, <3>3
  <2>8. ASSUME NEW j \in AnyScalar(pair), Calc!Scalar_Mul(j) PROVE CalcInv'
    <3>1. held' = PairMul(pair, j, held) /\ pair' = pair /\ plain' = (j * plain) % S
          /\ j \in Nat
      BY <2>2, <2>8 DEF Calc!Scalar_Mul, AnyScalar
    <3>2. Holds(n, g, e, held', (j * plain) % S)
      BY <2>1, <3>1, MulHolds
    <3> QED
      BY <2>3, <3>1, <3>2
  <2>9. CASE UNCHANGED Calc!vars
    BY <2>1, <2>3, <2>9 DEF Calc!vars
  <2> QED
    BY <2>4, <2>5, <2>6, <2>7, <2>8, <2>9 DEF Calc!Next
<1>3. CalcInv => Calc!Homomorphic
  <2> SUFFICES ASSUME CalcInv PROVE Calc!Homomorphic
    OBVIOUS
  <2>1. PICK n, S, g, e : PairSetting(n, S, g, e) /\ Holds(n, g, e, held, plain)
    BY DEF CalcInv
  <2>2. PairReads(pair, held, plain % pair.M)
    BY <2>1, HoldsReads DEF PairSetting
  <2> QED
    BY <2>2 DEF Calc!Homomorphic
<1> QED
  BY <1>1, <1>2, <1>3, PTL DEF Calc!Spec
=============================================================================
