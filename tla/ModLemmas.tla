----------------------------- MODULE ModLemmas -----------------------------
(***************************************************************************)
(* The mathematics the schemes rest on: arithmetic of residues, powers,    *)
(* and what the big-number operations of BigNum return for arguments of    *)
(* any size; then sums over finite sets, products of polynomials modulo    *)
(* X^L - 1, and numbers made up of digits, for NTRU.  The proofs about the *)
(* programs cite these lemmas and expand neither mod_exp nor mod_inverse,  *)
(* nor the folds behind the sums.                                          *)
(***************************************************************************)
EXTENDS BigNum, WellFoundedInduction, FiniteSetTheorems, SequenceTheorems, TLAPS

----------------------------------------------------------------------------
(***************************************************************************)
(* Induction and recursion. The theorems of the library take a predicate   *)
(* as parameter; these state the same about sets and functions.            *)
(***************************************************************************)

(* A set of natural numbers that is not empty has a least element.         *)
LEMMA LeastElement ==
  ASSUME NEW T \in SUBSET Nat, T # {}
  PROVE  \E x \in T : \A y \in T : x <= y
<1> DEFINE R == OpToRel(<,Nat)
<1>1. IsWellFoundedOn(R, Nat)
  BY NatLessThanWellFounded
<1>2. \A x, y \in Nat : <<y, x>> \in R <=> y < x
  BY DEF OpToRel
<1> HIDE DEF R
<1>3. PICK x \in T : \A y \in T : ~ (<<y, x>> \in R)
  BY <1>1, WFMin
<1>4. ASSUME NEW y \in T PROVE x <= y
  <2>1. x \in Nat /\ y \in Nat
    OBVIOUS
  <2>2. ~ (y < x)
    BY <1>2, <1>3, <2>1, Zenon
  <2> QED
    BY <2>1, <2>2
<1> QED
  BY <1>4

(* Mathematical induction, on a set instead of a predicate.                *)
LEMMA Induction ==
  ASSUME NEW S, 0 \in S, \A n \in Nat : n \in S => n + 1 \in S
  PROVE  Nat \subseteq S
<1> DEFINE T == Nat \ S
<1> SUFFICES ASSUME T # {} PROVE FALSE
  OBVIOUS
<1>1. PICK x \in T : \A y \in T : x <= y
  BY LeastElement
<1>2. x # 0 /\ x - 1 \in Nat
  BY <1>1
<1>3. x - 1 \notin T
  BY <1>1, <1>2
<1> QED
  BY <1>1, <1>2, <1>3

(* Course-of-values induction: an element may rest on all smaller ones.    *)
LEMMA StrongInduction ==
  ASSUME NEW S, \A n \in Nat : (\A k \in 0..(n - 1) : k \in S) => n \in S
  PROVE  Nat \subseteq S
<1> DEFINE T == Nat \ S
<1> SUFFICES ASSUME T # {} PROVE FALSE
  OBVIOUS
<1>1. PICK x \in T : \A y \in T : x <= y
  BY LeastElement
<1>2. \A k \in 0..(x - 1) : k \in S
  BY <1>1
<1> QED
  BY <1>1, <1>2

(* f runs through the states that next produces one after the other.       *)
IsIteration(f, X, x0, next) ==
  /\ f \in [Nat -> X]
  /\ f[0] = x0
  /\ \A k \in Nat : f[k + 1] = next[k][f[k]]

(* A next state for every state defines a run.                             *)
LEMMA Iteration ==
  ASSUME NEW X, NEW x0 \in X, NEW next \in [Nat -> [X -> X]]
  PROVE  \E f : IsIteration(f, X, x0, next)
<1> DEFINE Runs(n) == {g \in [0..n -> X] :
              g[0] = x0 /\ \A k \in 0..(n - 1) : g[k + 1] = next[k][g[k]]}
<1>1. \A n \in Nat : Runs(n) # {}
  <2> DEFINE S == {n \in Nat : Runs(n) # {}}
  <2>1. 0 \in S
    <3>1. [k \in 0..0 |-> x0] \in Runs(0)
      OBVIOUS
    <3> QED
      BY <3>1
  <2>2. ASSUME NEW n \in Nat, n \in S PROVE n + 1 \in S
    <3>1. PICK g : g \in Runs(n)
      BY <2>2
    <3> DEFINE h == [k \in 0..(n + 1) |-> IF k <= n THEN g[k] ELSE next[n][g[n]]]
    <3>2. h \in [0..(n + 1) -> X]
      BY <3>1
    <3>3. h[0] = x0
      BY <3>1
    <3>4. ASSUME NEW k \in 0..((n + 1) - 1) PROVE h[k + 1] = next[k][h[k]]
      BY <3>1
    <3> HIDE DEF h
    <3>5. h \in Runs(n + 1)
      BY <3>2, <3>3, <3>4
    <3> QED
      BY <3>5
  <2> HIDE DEF S
  <2>3. Nat \subseteq S
    BY <2>1, <2>2, Induction
  <2> QED
    BY <2>3 DEF S
<1>2. ASSUME NEW n \in Nat, NEW m \in Nat, NEW g \in Runs(n), NEW h \in Runs(m)
      PROVE  \A k \in Nat : k <= n /\ k <= m => g[k] = h[k]
  <2> DEFINE S == {k \in Nat : k <= n /\ k <= m => g[k] = h[k]}
  <2>1. 0 \in S
    OBVIOUS
  <2>2. ASSUME NEW k \in Nat, k \in S PROVE k + 1 \in S
    BY <2>2
  <2> HIDE DEF S
  <2>3. Nat \subseteq S
    BY <2>1, <2>2, Induction
  <2> QED
    BY <2>3 DEF S
<1> DEFINE run(n) == CHOOSE g : g \in Runs(n)
           f == [n \in Nat |-> run(n)[n]]
<1>3. \A n \in Nat : run(n) \in Runs(n)
  BY <1>1
<1> HIDE DEF run
<1>4. f \in [Nat -> X] /\ f[0] = x0
  BY <1>3
<1>5. ASSUME NEW k \in Nat PROVE f[k + 1] = next[k][f[k]]
  <2>1. run(k + 1)[k] = run(k)[k]
    <3>1. run(k + 1) \in Runs(k + 1) /\ run(k) \in Runs(k)
      BY <1>3
    <3> HIDE DEF Runs
    <3> QED
      BY <1>2, <3>1
  <2>2. run(k + 1) \in Runs(k + 1)
    BY <1>3
  <2>3. run(k + 1)[k + 1] = next[k][run(k + 1)[k]]
    BY <2>2
  <2> QED
    BY <2>1, <2>3
<1> HIDE DEF f
<1> QED
  BY <1>4, <1>5 DEF IsIteration

(* The value step[k] defines rests on the values below k only.             *)
DependsOnPast(step, R) ==
  \A k \in Nat : \A g, h \in [Nat -> R] :
     (\A j \in 0..(k - 1) : g[j] = h[j]) => step[k][g] = step[k][h]

(* f satisfies the recursive definition step.                              *)
IsRecursion(f, R, step) ==
  f \in [Nat -> R] /\ \A k \in Nat : f[k] = step[k][f]

(* A recursive definition whose values rest on earlier ones has a          *)
(* solution.                                                               *)
LEMMA StrongRecursion ==
  ASSUME NEW R, NEW r0 \in R, NEW step \in [Nat -> [[Nat -> R] -> R]],
         DependsOnPast(step, R)
  PROVE  \E f : IsRecursion(f, R, step)
<1> DEFINE X == [Nat -> R]
           x0 == [j \in Nat |-> r0]
           next == [k \in Nat |-> [g \in X |-> [g EXCEPT ![k] = step[k][g]]]]
<1>1. x0 \in X /\ next \in [Nat -> [X -> X]]
  OBVIOUS
<1> HIDE DEF X, x0, next
<1>2. PICK F : IsIteration(F, X, x0, next)
  BY <1>1, Iteration
<1>3. F \in [Nat -> [Nat -> R]] /\ F[0] = x0
  BY <1>2 DEF X, IsIteration
<1>31. ASSUME NEW k \in Nat
      PROVE  F[k + 1] = [F[k] EXCEPT ![k] = step[k][F[k]]]
  BY <1>2 DEF next, X, IsIteration
<1> DEFINE f == [k \in Nat |-> F[k + 1][k]]
<1>4. \A n \in Nat : \A j \in 0..(n - 1) : F[n][j] = f[j]
  <2> DEFINE S == {n \in Nat : \A j \in 0..(n - 1) : F[n][j] = f[j]}
  <2>1. 0 \in S
    OBVIOUS
  <2>2. ASSUME NEW n \in Nat, n \in S PROVE n + 1 \in S
    <3>1. ASSUME NEW j \in 0..n PROVE F[n + 1][j] = f[j]
      <4>1. CASE j = n
        BY <4>1, <1>3, <1>31
      <4>2. CASE j # n
        <5>1. F[n + 1] = [F[n] EXCEPT ![n] = step[n][F[n]]]
          BY <1>3, <1>31
        <5>2. j \in Nat /\ F[n] \in [Nat -> R]
          BY <1>3, <1>31
        <5>3. F[n + 1][j] = F[n][j]
          BY <5>1, <5>2, <4>2
        <5> QED
          BY <5>3, <2>2, <4>2
      <4> QED
        BY <4>1, <4>2
    <3> QED
      BY <3>1
  <2> HIDE DEF S
  <2>3. Nat \subseteq S
    BY <2>1, <2>2, Induction
  <2> QED
    BY <2>3 DEF S
<1>5. f \in [Nat -> R]
  BY <1>3
<1>6. ASSUME NEW k \in Nat PROVE f[k] = step[k][f]
  <2>1. f[k] = step[k][F[k]]
    <3>1. F[k] \in [Nat -> R]
      BY <1>3
    <3>2. F[k + 1] = [F[k] EXCEPT ![k] = step[k][F[k]]]
      BY <1>31
    <3>3. F[k + 1][k] = step[k][F[k]]
      BY <3>1, <3>2
    <3> QED
      BY <3>3
  <2>2. F[k] \in [Nat -> R] /\ \A j \in 0..(k - 1) : F[k][j] = f[j]
    BY <1>3, <1>4
  <2> HIDE DEF f
  <2>3. step[k][F[k]] = step[k][f]
    BY <2>2, <1>5 DEF DependsOnPast
  <2> QED
    BY <2>1, <2>3
<1> HIDE DEF f
<1> QED
  BY <1>5, <1>6 DEF IsRecursion

----------------------------------------------------------------------------
(***************************************************************************)
(* Residues.                                                               *)
(***************************************************************************)

(* Quotient and residue of an integer.                                     *)
LEMMA DivMod ==
  ASSUME NEW q \in Nat \ {0}, NEW a \in Int
  PROVE  /\ a = q * (a \div q) + (a % q)
         /\ a \div q \in Int
         /\ a % q \in 0..(q - 1)
  OBVIOUS

(* A multiple of q that is smaller than q in magnitude is zero.            *)
LEMMA SmallMultiple ==
  ASSUME NEW q \in Nat \ {0}, NEW k \in Int, -q < q * k, q * k < q
  PROVE  k = 0
<1>1. CASE k >= 1
  <2>1. q * k >= q * 1
    BY <1>1
  <2> QED
    BY <2>1
<1>2. CASE k <= -1
  <2>1. q * k <= q * (-1)
    BY <1>2
  <2> QED
    BY <2>1
<1> QED
  BY <1>1, <1>2

(* Integers that differ by a multiple of q have the same residue.          *)
LEMMA SameResidue ==
  ASSUME NEW q \in Nat \ {0}, NEW a \in Int, NEW b \in Int, NEW k \in Int,
         a = b + q * k
  PROVE  a % q = b % q
<1> DEFINE da == a \div q  ra == a % q  db == b \div q  rb == b % q
<1>1. a = q * da + ra /\ da \in Int /\ ra \in 0..(q - 1)
  BY DivMod
<1>2. b = q * db + rb /\ db \in Int /\ rb \in 0..(q - 1)
  BY DivMod
<1> HIDE DEF da, ra, db, rb
<1>3. q * (db + k - da) = ra - rb
  <2>1. q * (db + k - da) = q * db + q * k - q * da
    BY <1>1, <1>2
  <2> QED
    BY <2>1, <1>1, <1>2
<1>4. -q < ra - rb /\ ra - rb < q
  BY <1>1, <1>2
<1>5. db + k - da = 0
  BY <1>1, <1>2, <1>3, <1>4, SmallMultiple
<1>6. ra - rb = 0
  BY <1>3, <1>5
<1>7. ra = rb
  BY <1>1, <1>2, <1>6
<1> QED
  BY <1>7 DEF ra, rb

(* Taking a residue twice changes nothing.                                 *)
LEMMA ModMod ==
  ASSUME NEW q \in Nat \ {0}, NEW a \in Int
  PROVE  (a % q) % q = a % q
<1>1. a % q \in Int /\ a \div q \in Int /\ a = (a % q) + q * (a \div q)
  BY DivMod
<1> QED
  BY <1>1, SameResidue

(* The residue of a sum, from the residues.                                *)
LEMMA ModAdd ==
  ASSUME NEW q \in Nat \ {0}, NEW a \in Int, NEW b \in Int
  PROVE  ((a % q) + (b % q)) % q = (a + b) % q
<1> DEFINE k == (a \div q) + (b \div q)
<1>1. /\ a % q \in Int /\ a \div q \in Int /\ a = (a % q) + q * (a \div q)
      /\ b % q \in Int /\ b \div q \in Int /\ b = (b % q) + q * (b \div q)
  BY DivMod
<1>2. q * k = q * (a \div q) + q * (b \div q)
  BY <1>1
<1>3. a + b = ((a % q) + (b % q)) + q * k
  BY <1>1, <1>2
<1>4. k \in Int /\ a + b \in Int /\ (a % q) + (b % q) \in Int
  BY <1>1
<1> HIDE DEF k
<1>5. (a + b) % q = ((a % q) + (b % q)) % q
  <2> DEFINE s == a + b  t == (a % q) + (b % q)
  <2>1. s = t + q * k /\ k \in Int /\ s \in Int /\ t \in Int
    BY <1>3, <1>4
  <2> HIDE DEF s, t
  <2>2. s % q = t % q
    BY <2>1, SameResidue
  <2> QED
    BY <2>2 DEF s, t
<1> QED
  BY <1>5

(* The residue of a negated number, from the residue.                      *)
LEMMA ModNeg ==
  ASSUME NEW q \in Nat \ {0}, NEW a \in Int
  PROVE  (-(a % q)) % q = (-a) % q
<1> DEFINE d == a \div q
<1>1. a % q \in Int /\ d \in Int /\ a = (a % q) + q * d
  BY DivMod
<1>2. q * (-d) = -(q * d)
  BY <1>1
<1>3. -a = -(a % q) + q * (-d)
  BY <1>1, <1>2
<1>4. -d \in Int /\ -a \in Int /\ -(a % q) \in Int
  BY <1>1
<1> HIDE DEF d
<1> QED
  BY <1>3, <1>4, SameResidue

(* The residue of a product, from the residue of one factor.               *)
LEMMA ModMul ==
  ASSUME NEW q \in Nat \ {0}, NEW k \in Int, NEW a \in Int
  PROVE  (k * (a % q)) % q = (k * a) % q
<1> DEFINE d == a \div q  r == a % q
<1>1. r \in Int /\ d \in Int /\ a = r + q * d
  BY DivMod
<1> HIDE DEF d, r
<1>2. k * a = k * r + k * (q * d)
  BY <1>1
<1>3. k * (q * d) = q * (k * d)
  BY <1>1
<1>4. k * d \in Int /\ k * r \in Int /\ k * a \in Int
  BY <1>1
<1> DEFINE u == k * a  v == k * r  w == k * d
<1>5. u \in Int /\ v \in Int /\ w \in Int /\ u = v + q * w
  BY <1>2, <1>3, <1>4
<1> HIDE DEF u, v, w
<1>6. u % q = v % q
  BY <1>5, SameResidue
<1>7. (k * a) % q = (k * r) % q
  BY <1>6 DEF u, v
<1> QED
  BY <1>7 DEF r

(* The residue of a product, from the residues of both factors.            *)
LEMMA ModMulBoth ==
  ASSUME NEW q \in Nat \ {0}, NEW a \in Int, NEW b \in Int
  PROVE  ((a % q) * (b % q)) % q = (a * b) % q
<1> DEFINE r == a % q
<1>1. r \in Int
  BY DivMod
<1> HIDE DEF r
<1>2. (r * (b % q)) % q = (r * b) % q
  BY <1>1, ModMul
<1>3. r * b = b * r
  BY <1>1
<1>4. (b * (a % q)) % q = (b * a) % q
  BY ModMul
<1> QED
  BY <1>2, <1>3, <1>4 DEF r

(* mod_mul returns the residue of the product: splitting it for TLC is     *)
(* sound.                                                                  *)
LEMMA ModMulIsProduct ==
  ASSUME NEW m \in Nat \ {0}, NEW x \in Int, NEW y \in Int
  PROVE  mod_mul(x, y, m) = (x * y) % m
<1> DEFINE a == x % m  b == y % m  h == b \div 512  l == b % 512
<1>1. a \in Int /\ b \in Int /\ b \in Nat
  BY DivMod
<1>2. h \in Int /\ l \in Int /\ b = 512 * h + l
  BY <1>1, DivMod
<1>3. (a * b) % m = (x * y) % m
  BY ModMulBoth
<1> DEFINE high == (a * h) % m  low == (a * l) % m
<1>4. mod_mul(x, y, m) = (((high * 512) % m) + low) % m
  BY DEF mod_mul
<1> HIDE DEF a, b, h, l
<1>5. (high * 512) % m = ((a * h) * 512) % m
  <2> DEFINE u == a * h  c == 512
  <2>1. u \in Int /\ c \in Int
    BY <1>1, <1>2
  <2> HIDE DEF u, c
  <2>2. (c * (u % m)) % m = (c * u) % m
    BY <2>1, ModMul
  <2>3. u % m \in Int
    BY <2>1, DivMod
  <2> QED
    BY <2>1, <2>2, <2>3 DEF u, c
<1> DEFINE u == (a * h) * 512  v == a * l
<1>6. u \in Int /\ v \in Int /\ u + v = a * b
  BY <1>1, <1>2
<1>7. mod_mul(x, y, m) = ((u % m) + (v % m)) % m
  BY <1>4, <1>5
<1> HIDE DEF u, v, high, low
<1>8. mod_mul(x, y, m) = (u + v) % m
  BY <1>6, <1>7, ModAdd
<1> QED
  BY <1>3, <1>6, <1>8

(* a and b have the same residue modulo q.                                 *)
Congruent(a, b, q) == a % q = b % q

(* Congruence is an equivalence.                                           *)
LEMMA CongruentEquivalence ==
  ASSUME NEW q, NEW a, NEW b, NEW c
  PROVE  /\ Congruent(a, a, q)
         /\ Congruent(a, b, q) => Congruent(b, a, q)
         /\ Congruent(a, b, q) /\ Congruent(b, c, q) => Congruent(a, c, q)
  BY DEF Congruent

(* A number is congruent to its residue.                                   *)
LEMMA CongruentResidue ==
  ASSUME NEW q \in Nat \ {0}, NEW a \in Int
  PROVE  a % q \in 0..(q - 1) /\ Congruent(a % q, a, q)
  BY DivMod, ModMod DEF Congruent

(* Congruence is kept by products,                                         *)
LEMMA CongruentMul ==
  ASSUME NEW q \in Nat \ {0}, NEW a \in Int, NEW b \in Int,
         NEW c \in Int, NEW d \in Int, Congruent(a, c, q), Congruent(b, d, q)
  PROVE  Congruent(a * b, c * d, q)
<1>1. ((a % q) * (b % q)) % q = (a * b) % q
  BY ModMulBoth
<1>2. ((c % q) * (d % q)) % q = (c * d) % q
  BY ModMulBoth
<1> QED
  BY <1>1, <1>2 DEF Congruent

(* by sums,                                                                *)
LEMMA CongruentAdd ==
  ASSUME NEW q \in Nat \ {0}, NEW a \in Int, NEW b \in Int,
         NEW c \in Int, NEW d \in Int, Congruent(a, c, q), Congruent(b, d, q)
  PROVE  Congruent(a + b, c + d, q)
<1>1. ((a % q) + (b % q)) % q = (a + b) % q
  BY ModAdd
<1>2. ((c % q) + (d % q)) % q = (c + d) % q
  BY ModAdd
<1> QED
  BY <1>1, <1>2 DEF Congruent

(* by negation                                                             *)
LEMMA CongruentNeg ==
  ASSUME NEW q \in Nat \ {0}, NEW a \in Int, NEW c \in Int,
         Congruent(a, c, q)
  PROVE  Congruent(-a, -c, q)
<1>1. (-(a % q)) % q = (-a) % q /\ (-(c % q)) % q = (-c) % q
  BY ModNeg
<1> QED
  BY <1>1 DEF Congruent

(* and by differences.                                                     *)
LEMMA CongruentSub ==
  ASSUME NEW q \in Nat \ {0}, NEW a \in Int, NEW b \in Int,
         NEW c \in Int, NEW d \in Int, Congruent(a, c, q), Congruent(b, d, q)
  PROVE  Congruent(a - b, c - d, q)
<1>1. -b \in Int /\ -d \in Int /\ Congruent(-b, -d, q)
  BY CongruentNeg
<1>2. Congruent(a + (-b), c + (-d), q)
  BY <1>1, CongruentAdd
<1>3. a + (-b) = a - b /\ c + (-d) = c - d
  OBVIOUS
<1> QED
  BY <1>2, <1>3

(* Congruence is divisibility of the difference.                           *)
LEMMA CongruentMultiple ==
  ASSUME NEW q \in Nat \ {0}, NEW a \in Int, NEW b \in Int
  PROVE  Congruent(a, b, q) <=> \E k \in Int : a = b + q * k
<1>1. ASSUME NEW k \in Int, a = b + q * k PROVE Congruent(a, b, q)
  BY <1>1, SameResidue DEF Congruent
<1>2. ASSUME Congruent(a, b, q) PROVE \E k \in Int : a = b + q * k
  <2>1. /\ a = q * (a \div q) + (a % q) /\ a \div q \in Int
        /\ b = q * (b \div q) + (b % q) /\ b \div q \in Int
        /\ a % q \in Int /\ b % q \in Int
    BY DivMod
  <2> DEFINE da == a \div q  db == b \div q
  <2>2. a % q = b % q
    BY <1>2 DEF Congruent
  <2>3. a - b = q * da - q * db /\ da \in Int /\ db \in Int
    BY <2>1, <2>2
  <2> HIDE DEF da, db
  <2>4. q * (da - db) = q * da - q * db /\ da - db \in Int
    BY <2>3
  <2>5. a = b + q * (da - db)
    BY <2>3, <2>4
  <2> QED
    BY <2>4, <2>5
<1> QED
  BY <1>1, <1>2

(* A congruence modulo a product holds modulo the factors.                 *)
LEMMA CongruentFactor ==
  ASSUME NEW p \in Nat \ {0}, NEW q \in Nat \ {0}, NEW a \in Int, NEW b \in Int,
         Congruent(a, b, p * q)
  PROVE  Congruent(a, b, p)
<1>1. p * q \in Nat \ {0}
  OBVIOUS
<1>2. PICK k \in Int : a = b + (p * q) * k
  BY <1>1, CongruentMultiple
<1>3. (p * q) * k = p * (q * k) /\ q * k \in Int
  OBVIOUS
<1> QED
  BY <1>2, <1>3, CongruentMultiple

(* The integers P[k] = x^k. *)
IsPowers(P, x) ==
  /\ P \in [Nat -> Int]
  /\ P[0] = 1
  /\ \A k \in Nat : P[k + 1] = x * P[k]

Power(x, k) == (CHOOSE P : IsPowers(P, x))[k]

(* The recursion that defines Power has a solution.                        *)
LEMMA PowerDef ==
  ASSUME NEW x \in Int
  PROVE  /\ Power(x, 0) = 1
         /\ \A k \in Nat : /\ Power(x, k) \in Int
                           /\ Power(x, k + 1) = x * Power(x, k)
<1> DEFINE next == [k \in Nat |-> [v \in Int |-> x * v]]
<1>1. next \in [Nat -> [Int -> Int]]
  <2>1. \A v \in Int : x * v \in Int
    OBVIOUS
  <2> QED
    BY <2>1
<1> HIDE DEF next
<1>2. PICK P : IsIteration(P, Int, 1, next)
  <2>1. 1 \in Int
    OBVIOUS
  <2> QED
    BY <1>1, <2>1, Iteration
<1>3. IsPowers(P, x)
  BY <1>2 DEF IsIteration, IsPowers, next
<1> DEFINE Q == CHOOSE R : IsPowers(R, x)
<1>4. IsPowers(Q, x)
  BY <1>3
<1>5. \A k : Power(x, k) = Q[k]
  BY DEF Power
<1> HIDE DEF Q
<1> QED
  BY <1>4, <1>5 DEF IsPowers

(* The first power.                                                        *)
LEMMA PowerOne ==
  ASSUME NEW x \in Int
  PROVE  Power(x, 1) = x
<1>1. Power(x, 0 + 1) = x * Power(x, 0) /\ Power(x, 0) = 1
  BY PowerDef
<1> QED
  BY <1>1

(* The powers of a sum of exponents,                                       *)
LEMMA PowerAdd ==
  ASSUME NEW x \in Int, NEW a \in Nat, NEW b \in Nat
  PROVE  Power(x, a + b) = Power(x, a) * Power(x, b)
<1> DEFINE S == {k \in Nat : Power(x, a + k) = Power(x, a) * Power(x, k)}
<1>0. \A k \in Nat : Power(x, k) \in Int
  BY PowerDef
<1>1. 0 \in S
  <2>1. Power(x, 0) = 1 /\ a + 0 = a
    BY PowerDef
  <2> QED
    BY <1>0, <2>1
<1>2. ASSUME NEW k \in Nat, k \in S PROVE k + 1 \in S
  <2> DEFINE u == Power(x, a)  v == Power(x, k)
  <2>1. u \in Int /\ v \in Int
    BY <1>0
  <2>2. Power(x, a + k) = u * v
    BY <1>2
  <2>3. Power(x, (a + k) + 1) = x * Power(x, a + k) /\ Power(x, k + 1) = x * v
    BY PowerDef
  <2>4. (a + k) + 1 = a + (k + 1)
    OBVIOUS
  <2> HIDE DEF u, v
  <2>5. x * (u * v) = u * (x * v)
    BY <2>1
  <2>6. Power(x, a + (k + 1)) = u * Power(x, k + 1)
    BY <2>2, <2>3, <2>4, <2>5
  <2> QED
    BY <2>6 DEF u
<1> HIDE DEF S
<1>3. Nat \subseteq S
  BY <1>1, <1>2, Induction
<1> QED
  BY <1>3 DEF S

(* of a product of bases,                                                  *)
LEMMA PowerMul ==
  ASSUME NEW x \in Int, NEW y \in Int, NEW n \in Nat
  PROVE  Power(x * y, n) = Power(x, n) * Power(y, n)
<1> DEFINE z == x * y
           S == {k \in Nat : Power(z, k) = Power(x, k) * Power(y, k)}
<1>0. z \in Int
  OBVIOUS
<1> HIDE DEF z
<1>1. 0 \in S
  BY <1>0, PowerDef
<1>2. ASSUME NEW k \in Nat, k \in S PROVE k + 1 \in S
  <2> DEFINE u == Power(x, k)  v == Power(y, k)
  <2>1. u \in Int /\ v \in Int
    BY PowerDef
  <2>2. Power(z, k) = u * v
    BY <1>2
  <2>3. /\ Power(z, k + 1) = z * Power(z, k)
        /\ Power(x, k + 1) = x * u
        /\ Power(y, k + 1) = y * v
    BY <1>0, PowerDef
  <2> HIDE DEF u, v
  <2>4. (x * y) * (u * v) = (x * u) * (y * v)
    BY <2>1
  <2>5. Power(z, k + 1) = Power(x, k + 1) * Power(y, k + 1)
    BY <2>2, <2>3, <2>4 DEF z
  <2> QED
    BY <2>5
<1> HIDE DEF S
<1>3. Nat \subseteq S
  BY <1>1, <1>2, Induction
<1> QED
  BY <1>3 DEF S, z

(* of a power.                                                             *)
LEMMA PowerPower ==
  ASSUME NEW x \in Int, NEW a \in Nat, NEW b \in Nat
  PROVE  Power(Power(x, a), b) = Power(x, a * b)
<1> DEFINE y == Power(x, a)
           S == {k \in Nat : Power(y, k) = Power(x, a * k)}
<1>0. y \in Int
  BY PowerDef
<1> HIDE DEF y
<1>1. 0 \in S
  <2>1. a * 0 = 0
    OBVIOUS
  <2> QED
    BY <1>0, <2>1, PowerDef
<1>2. ASSUME NEW k \in Nat, k \in S PROVE k + 1 \in S
  <2>1. Power(y, k + 1) = y * Power(y, k)
    BY <1>0, PowerDef
  <2>2. Power(y, k) = Power(x, a * k)
    BY <1>2
  <2>3. a * k \in Nat /\ a * (k + 1) = a + a * k
    OBVIOUS
  <2> DEFINE ak == a * k
  <2> HIDE DEF ak
  <2>4. Power(x, a + ak) = y * Power(x, ak)
    BY <2>3, PowerAdd DEF ak, y
  <2> QED
    BY <2>1, <2>2, <2>3, <2>4 DEF ak
<1> HIDE DEF S
<1>3. Nat \subseteq S
  BY <1>1, <1>2, Induction
<1> QED
  BY <1>3 DEF S, y

(* Powers of congruent numbers are congruent.                              *)
LEMMA CongruentPower ==
  ASSUME NEW q \in Nat \ {0}, NEW x \in Int, NEW y \in Int, Congruent(x, y, q),
         NEW n \in Nat
  PROVE  Congruent(Power(x, n), Power(y, n), q)
<1> DEFINE S == {k \in Nat : Congruent(Power(x, k), Power(y, k), q)}
<1>1. 0 \in S
  BY PowerDef, CongruentEquivalence
<1>2. ASSUME NEW k \in Nat, k \in S PROVE k + 1 \in S
  <2>1. /\ Power(x, k) \in Int /\ Power(y, k) \in Int
        /\ Congruent(Power(x, k), Power(y, k), q)
    BY <1>2, PowerDef
  <2>2. Congruent(x * Power(x, k), y * Power(y, k), q)
    BY <2>1, CongruentMul
  <2> QED
    BY <2>2, PowerDef
<1> HIDE DEF S
<1>3. Nat \subseteq S
  BY <1>1, <1>2, Induction
<1> QED
  BY <1>3 DEF S

(* The powers of one                                                       *)
LEMMA PowerOfOne ==
  ASSUME NEW n \in Nat
  PROVE  Power(1, n) = 1
<1> DEFINE S == {k \in Nat : Power(1, k) = 1}
<1>0. 1 \in Int
  OBVIOUS
<1>1. 0 \in S
  BY <1>0, PowerDef
<1>2. ASSUME NEW k \in Nat, k \in S PROVE k + 1 \in S
  BY <1>0, <1>2, PowerDef
<1> HIDE DEF S
<1>3. Nat \subseteq S
  BY <1>1, <1>2, Induction
<1> QED
  BY <1>3 DEF S

(* and of zero.                                                            *)
LEMMA PowerOfZero ==
  ASSUME NEW n \in Nat \ {0}
  PROVE  Power(0, n) = 0
<1>1. 0 \in Int /\ n - 1 \in Nat /\ n = (n - 1) + 1
  OBVIOUS
<1>2. Power(0, (n - 1) + 1) = 0 * Power(0, n - 1) /\ Power(0, n - 1) \in Int
  BY <1>1, PowerDef
<1> QED
  BY <1>1, <1>2

----------------------------------------------------------------------------
(***************************************************************************)
(* Repeated squaring.                                                      *)
(***************************************************************************)

(* Halving an exponent makes it smaller and loses its lowest bit only.     *)
LEMMA HalfSmaller ==
  ASSUME NEW k \in Nat
  PROVE  /\ k \div 2 \in Nat
         /\ k # 0 => k \div 2 < k
         /\ k % 2 = 1 => k = (k \div 2 + k \div 2) + 1
         /\ k % 2 # 1 => k = k \div 2 + k \div 2
  OBVIOUS

(* BN_mod_exp computes the residue of the power.                           *)
LEMMA ModExp ==
  ASSUME NEW m \in Nat \ {0}, NEW x \in Int
  PROVE  \A e \in Nat : mod_exp(x, e, m) = Power(x, e) % m
<1> DEFINE square == [y \in Nat |-> mod_mul(y, y, m)]
           times_x == [y \in Nat |-> mod_mul(y, x, m)]
           raise(p, k) ==
             IF k = 0 THEN 1 % m
             ELSE IF k % 2 = 1 THEN times_x[square[p[k \div 2]]]
             ELSE square[p[k \div 2]]
           P == [k \in Nat |-> Power(x, k) % m]
<1>0. \A k \in Nat : Power(x, k) \in Int /\ P[k] \in Int
  BY PowerDef, DivMod
<1>1. ASSUME NEW k \in Nat PROVE P[k] = raise(P, k)
  <2>1. CASE k = 0
    <3>1. Power(x, 0) = 1
      BY PowerDef
    <3> HIDE DEF square, times_x
    <3> QED
      BY <2>1, <3>1
  <2>2. CASE k # 0
    <3> DEFINE h == k \div 2  u == Power(x, h)
    <3>1. h \in Nat
      BY HalfSmaller
    <3>2. u \in Int /\ u % m \in Nat /\ u % m \in Int /\ P[h] = u % m
      <4>1. u \in Int /\ P[h] = u % m
        BY <1>0, <3>1
      <4> HIDE DEF u
      <4> QED
        BY <4>1, DivMod
    <3>0. mod_mul(P[h], P[h], m) \in Nat
      <4>1. mod_mul(P[h], P[h], m) = ((u % m) * (u % m)) % m
        BY <3>2, ModMulIsProduct
      <4> HIDE DEF u, P, h
      <4> DEFINE v == (u % m) * (u % m)
      <4>2. v \in Int
        BY <3>2
      <4> HIDE DEF v
      <4>3. v % m \in Nat
        BY <4>2, DivMod
      <4> QED
        BY <4>1, <4>3 DEF v
    <3>3. Power(x, h + h) = u * u
      BY <3>1, PowerAdd
    <3>4. raise(P, k) =
            IF k % 2 = 1 THEN mod_mul(mod_mul(P[h], P[h], m), x, m)
            ELSE mod_mul(P[h], P[h], m)
      <4>1. P[h] \in Nat
        BY <3>2
      <4> HIDE DEF P, h
      <4>2. square[P[h]] = mod_mul(P[h], P[h], m)
        BY <4>1
      <4> HIDE DEF square
      <4>3. times_x[square[P[h]]] = mod_mul(mod_mul(P[h], P[h], m), x, m)
        BY <4>2, <3>0
      <4> HIDE DEF times_x
      <4> QED
        BY <2>2, <4>2, <4>3 DEF h
    <3> HIDE DEF u, P, raise
    <3>5. mod_mul(P[h], P[h], m) = (u * u) % m
      <4>1. mod_mul(u % m, u % m, m) = ((u % m) * (u % m)) % m
        BY <3>2, ModMulIsProduct
      <4>2. ((u % m) * (u % m)) % m = (u * u) % m
        BY <3>2, ModMulBoth
      <4> QED
        BY <3>2, <4>1, <4>2
    <3>6. CASE k % 2 = 1
      <4>1. k = (h + h) + 1 /\ h + h \in Nat
        BY <3>1, <3>6, HalfSmaller
      <4> DEFINE w == u * u
      <4>2. w \in Int
        BY <3>2
      <4>3. Power(x, (h + h) + 1) = x * w
        BY <4>1, <3>3, PowerDef
      <4> HIDE DEF w, h
      <4>4. mod_mul(w % m, x, m) = (x * (w % m)) % m
        <5>1. w % m \in Int
          BY <4>2, DivMod
        <5>2. (w % m) * x = x * (w % m)
          BY <5>1
        <5> QED
          BY <5>1, <5>2, ModMulIsProduct
      <4>5. (x * (w % m)) % m = (x * w) % m
        BY <4>2, ModMul
      <4>6. P[k] = Power(x, k) % m
        BY DEF P
      <4>7. mod_mul(mod_mul(P[h], P[h], m), x, m) = P[k]
        BY <3>5, <4>1, <4>3, <4>4, <4>5, <4>6 DEF w
      <4> QED
        BY <3>4, <3>6, <4>7
    <3>7. CASE k % 2 # 1
      <4>1. k = h + h
        BY <3>7, HalfSmaller
      <4>2. P[k] = Power(x, k) % m
        BY DEF P
      <4> HIDE DEF h
      <4> QED
        BY <3>3, <3>4, <3>5, <3>7, <4>1, <4>2
    <3> QED
      BY <3>6, <3>7
  <2> QED
    BY <2>1, <2>2
<1> DEFINE F == CHOOSE p : p = [k \in Nat |-> raise(p, k)]
<1>2. P = [k \in Nat |-> raise(P, k)]
  BY <1>1
<1> HIDE DEF P, square, times_x
<1>3. F = [k \in Nat |-> raise(F, k)]
  <2> HIDE DEF raise
  <2> QED
    BY <1>2
<1>4. \A e : mod_exp(x, e, m) = F[e]
  BY DEF mod_exp, square, times_x
<1> HIDE DEF F
<1>5. \A k \in Nat : F[k] = raise(F, k)
  <2> HIDE DEF raise
  <2> QED
    BY <1>3
<1>6. ASSUME NEW k \in Nat, \A j \in 0..(k - 1) : F[j] = P[j]
      PROVE  F[k] = P[k]
  <2>1. k # 0 => F[k \div 2] = P[k \div 2]
    BY <1>6, HalfSmaller
  <2>2. raise(F, k) = raise(P, k)
    BY <2>1
  <2> HIDE DEF raise
  <2> QED
    BY <1>1, <1>5, <2>2
<1> DEFINE S == {k \in Nat : F[k] = P[k]}
<1>7. Nat \subseteq S
  <2>1. ASSUME NEW k \in Nat, \A j \in 0..(k - 1) : j \in S PROVE k \in S
    BY <1>6, <2>1
  <2> HIDE DEF S
  <2> QED
    BY <2>1, StrongInduction
<1> QED
  BY <1>4, <1>7 DEF P

----------------------------------------------------------------------------
(***************************************************************************)
(* The extended Euclidean algorithm.                                       *)
(***************************************************************************)

(* d divides a.                                                            *)
Divides(d, a) == \E k \in Int : a = d * k

(* The values of euclid.                                                   *)
Triples == Nat \X Int \X Int

(* How such a triple is typed.                                             *)
LEMMA TripleType ==
  ASSUME NEW a \in Nat, NEW b \in Int, NEW c \in Int
  PROVE  <<a, b, c>> \in Triples
  BY DEF Triples

(* The defining equation of euclid,                                        *)
EuclidEquation ==
  euclid = [r1 \in Nat |->
              [r0 \in Nat |->
                 IF r1 = 0 THEN <<r0, 1, 0>>
                 ELSE LET e == euclid[r0 % r1][r1]
                      IN <<e[1], e[3], e[2] - (r0 \div r1) * e[3]>>]]

(* which has a solution: each row rests on the rows above it.              *)
LEMMA EuclidRecursion == EuclidEquation
<1> DEFINE R == [Nat -> Triples]
           row(g, r1) == [r0 \in Nat |->
                 IF r1 = 0 THEN <<r0, 1, 0>>
                 ELSE LET e == g[r0 % r1][r1]
                      IN <<e[1], e[3], e[2] - (r0 \div r1) * e[3]>>]
           step == [r1 \in Nat |-> [g \in [Nat -> R] |-> row(g, r1)]]
           start == [r0 \in Nat |-> <<r0, 1, 0>>]
<1>1. ASSUME NEW r1 \in Nat, NEW r0 \in Nat, r1 # 0
      PROVE  r0 % r1 \in 0..(r1 - 1) /\ r0 \div r1 \in Int
  BY <1>1
<1>2. ASSUME NEW g \in [Nat -> R], NEW r1 \in Nat PROVE row(g, r1) \in R
  <2> SUFFICES ASSUME NEW r0 \in Nat PROVE row(g, r1)[r0] \in Triples
    OBVIOUS
  <2>1. CASE r1 = 0
    <3>1. row(g, r1)[r0] = <<r0, 1, 0>>
      BY <2>1
    <3>2. 1 \in Int /\ 0 \in Int
      OBVIOUS
    <3> HIDE DEF row
    <3> QED
      BY <3>1, <3>2, TripleType
  <2>2. CASE r1 # 0
    <3> DEFINE e == g[r0 % r1][r1]
    <3>1. r0 % r1 \in Nat /\ r0 \div r1 \in Int
      BY <1>1, <2>2
    <3>2. e \in Triples
      BY <3>1
    <3>3. row(g, r1)[r0] = <<e[1], e[3], e[2] - (r0 \div r1) * e[3]>>
      BY <2>2
    <3> HIDE DEF e, row
    <3>4. e[1] \in Nat /\ e[2] \in Int /\ e[3] \in Int
      BY <3>2 DEF Triples
    <3>5. e[2] - (r0 \div r1) * e[3] \in Int
      BY <3>1, <3>4
    <3>6. <<e[1], e[3], e[2] - (r0 \div r1) * e[3]>> \in Triples
      BY <3>4, <3>5, TripleType
    <3> QED
      BY <3>3, <3>6, Zenon
  <2> QED
    BY <2>1, <2>2
<1>3. step \in [Nat -> [[Nat -> R] -> R]]
  <2> HIDE DEF row, R
  <2> QED
    BY <1>2
<1>4. start \in R
  BY DEF Triples
<1>5. DependsOnPast(step, R)
  <2> SUFFICES ASSUME NEW k \in Nat, NEW g \in [Nat -> R], NEW h \in [Nat -> R],
                      \A j \in 0..(k - 1) : g[j] = h[j]
               PROVE  step[k][g] = step[k][h]
    BY DEF DependsOnPast
  <2>1. step[k][g] = row(g, k) /\ step[k][h] = row(h, k)
    <3> HIDE DEF row, R
    <3> QED
      OBVIOUS
  <2>2. \A r0 \in Nat : k # 0 => g[r0 % k] = h[r0 % k]
    BY <1>1
  <2>3. row(g, k) = row(h, k)
    BY <2>2
  <2> QED
    BY <2>1, <2>3
<1> HIDE DEF start, R
<1>6. PICK f : IsRecursion(f, R, step)
  <2> HIDE DEF step
  <2> QED
    BY <1>3, <1>4, <1>5, StrongRecursion
<1>7. f = [r1 \in Nat |-> row(f, r1)]
  <2>1. f \in [Nat -> R] /\ \A k \in Nat : f[k] = step[k][f]
    BY <1>6 DEF IsRecursion
  <2> HIDE DEF row
  <2> QED
    BY <2>1
<1> DEFINE E == CHOOSE e : e = [r1 \in Nat |-> row(e, r1)]
<1>8. E = [r1 \in Nat |-> row(E, r1)]
  <2> HIDE DEF row
  <2> QED
    BY <1>7
<1>9. E = euclid
  BY DEF euclid
<1> HIDE DEF E
<1> QED
  BY <1>8, <1>9 DEF EuclidEquation

(* e is a common divisor of r0 and r1 with its coefficients.               *)
IsBezout(e, r0, r1) ==
  /\ e[1] \in Nat /\ e[2] \in Int /\ e[3] \in Int
  /\ e[1] = e[2] * r0 + e[3] * r1
  /\ Divides(e[1], r0) /\ Divides(e[1], r1)

(* The parts of a triple.                                                  *)
LEMMA TripleParts ==
  ASSUME NEW a, NEW b, NEW c
  PROVE  <<a, b, c>>[1] = a /\ <<a, b, c>>[2] = b /\ <<a, b, c>>[3] = c
  OBVIOUS

(* The extended Euclidean algorithm returns a common divisor as a          *)
(* combination.                                                            *)
LEMMA EuclidBezout ==
  ASSUME NEW r0 \in Nat, NEW r1 \in Nat
  PROVE  IsBezout(euclid[r1][r0], r0, r1)
<1> DEFINE S == {b \in Nat : \A a \in Nat : IsBezout(euclid[b][a], a, b)}
<1>1. ASSUME NEW b \in Nat, \A j \in 0..(b - 1) : j \in S,
             NEW a \in Nat
      PROVE  IsBezout(euclid[b][a], a, b)
  <2>0. euclid[b][a] =
          IF b = 0 THEN <<a, 1, 0>>
          ELSE LET e == euclid[a % b][b]
               IN <<e[1], e[3], e[2] - (a \div b) * e[3]>>
    BY EuclidRecursion DEF EuclidEquation
  <2>1. CASE b = 0
    <3>1. euclid[b][a] = <<a, 1, 0>>
      BY <2>0, <2>1
    <3>2. a = 1 * a + 0 * b /\ a = a * 1 /\ b = a * 0
      BY <2>1
    <3>3. Divides(a, a) /\ Divides(a, b)
      BY <3>2 DEF Divides
    <3> QED
      BY <3>1, <3>2, <3>3, TripleParts DEF IsBezout
  <2>2. CASE b # 0
    <3> DEFINE r == a % b  t == a \div b  e == euclid[r][b]
    <3>1. r \in 0..(b - 1) /\ t \in Int /\ a = b * t + r
      BY <2>2, DivMod
    <3>2. IsBezout(e, b, r)
      BY <1>1, <3>1
    <3>3. euclid[b][a] = <<e[1], e[3], e[2] - t * e[3]>>
      BY <2>0, <2>2
    <3> HIDE DEF r, t, e
    <3>4. PICK d \in Nat, x \in Int, y \in Int :
            /\ d = e[1] /\ x = e[2] /\ y = e[3]
            /\ d = x * b + y * r
            /\ Divides(d, b) /\ Divides(d, r)
      BY <3>2 DEF IsBezout
    <3>5. PICK kb \in Int : b = d * kb
      BY <3>4 DEF Divides
    <3>6. PICK kr \in Int : r = d * kr
      BY <3>4 DEF Divides
    <3>7. euclid[b][a] = <<d, y, x - t * y>>
      BY <3>3, <3>4
    <3>8. Divides(d, a)
      <4>1. (d * kb) * t = d * (kb * t)
        BY <3>1, <3>4, <3>5
      <4>2. d * (kb * t + kr) = d * (kb * t) + d * kr
        BY <3>1, <3>4, <3>5, <3>6
      <4>3. a = d * (kb * t + kr) /\ kb * t + kr \in Int
        BY <3>1, <3>4, <3>5, <3>6, <4>1, <4>2
      <4> QED
        BY <4>3 DEF Divides
    <3>9. d = y * a + (x - t * y) * b
      <4>1. y * a = y * (b * t) + y * r
        BY <3>1, <3>4
      <4>2. (x - t * y) * b = x * b - (t * y) * b
        BY <3>1, <3>4
      <4>3. y * (b * t) = (t * y) * b
        BY <3>1, <3>4
      <4>4. /\ y * a \in Int /\ y * (b * t) \in Int /\ y * r \in Int
            /\ x * b \in Int /\ (t * y) * b \in Int
        BY <3>1, <3>4
      <4> QED
        BY <3>4, <4>1, <4>2, <4>3, <4>4
    <3>10. x - t * y \in Int
      BY <3>1, <3>4
    <3> QED
      BY <3>4, <3>7, <3>8, <3>9, <3>10, TripleParts DEF IsBezout
  <2> QED
    BY <2>1, <2>2
<1>2. \A b \in Nat : (\A j \in 0..(b - 1) : j \in S) => b \in S
  BY <1>1
<1> HIDE DEF S
<1>3. Nat \subseteq S
  BY <1>2, StrongInduction
<1> QED
  BY <1>3 DEF S

----------------------------------------------------------------------------
(***************************************************************************)
(* Units modulo m.                                                         *)
(***************************************************************************)

(* A congruence may be multiplied.                                         *)
LEMMA CongruentScale ==
  ASSUME NEW q \in Nat \ {0}, NEW a \in Int, NEW b \in Int, NEW k \in Int,
         Congruent(a, b, q)
  PROVE  Congruent(a * k, b * k, q) /\ Congruent(k * a, k * b, q)
<1>1. Congruent(k, k, q)
  BY CongruentEquivalence
<1> QED
  BY <1>1, CongruentMul

(* One has no other divisor.                                               *)
LEMMA DivisorOfOne ==
  ASSUME NEW d \in Nat, Divides(d, 1)
  PROVE  d = 1
<1>1. PICK k \in Int : 1 = d * k
  BY DEF Divides
<1>2. d # 0
  BY <1>1
<1>3. ~(d >= 2)
  <2> SUFFICES ASSUME d >= 2 PROVE FALSE
    OBVIOUS
  <2>1. CASE k >= 1
    <3>1. d * k >= d * 1
      BY <2>1
    <3> QED
      BY <1>1, <3>1
  <2>2. CASE k <= 0
    <3>1. d * k <= d * 0
      BY <2>2
    <3> QED
      BY <1>1, <3>1
  <2> QED
    BY <2>1, <2>2
<1> QED
  BY <1>2, <1>3

(* A common divisor divides every combination.                             *)
LEMMA DividesCombination ==
  ASSUME NEW d \in Int, NEW x \in Int, NEW y \in Int, NEW s \in Int, NEW t \in Int,
         Divides(d, x), Divides(d, y)
  PROVE  Divides(d, s * x + t * y)
<1>1. PICK a \in Int : x = d * a
  BY DEF Divides
<1>2. PICK b \in Int : y = d * b
  BY DEF Divides
<1>3. s * (d * a) = d * (s * a) /\ t * (d * b) = d * (t * b)
  OBVIOUS
<1>4. d * (s * a + t * b) = d * (s * a) + d * (t * b)
  OBVIOUS
<1>5. s * x + t * y = d * (s * a + t * b)
  BY <1>1, <1>2, <1>3, <1>4
<1>6. s * a + t * b \in Int
  OBVIOUS
<1> QED
  BY <1>5, <1>6 DEF Divides

(* BN_gcd returns a common divisor that is a combination of its arguments. *)
LEMMA GcdBezout ==
  ASSUME NEW x \in Nat, NEW y \in Nat
  PROVE  /\ gcd(x, y) \in Nat
         /\ Divides(gcd(x, y), x) /\ Divides(gcd(x, y), y)
         /\ \E s, t \in Int : gcd(x, y) = s * x + t * y
<1> DEFINE e == euclid[y][x]
<1>1. IsBezout(e, x, y)
  BY EuclidBezout
<1>2. gcd(x, y) = e[1]
  BY DEF gcd
<1> HIDE DEF e
<1> QED
  BY <1>1, <1>2 DEF IsBezout

(* Numbers are coprime when a combination of them is one.                  *)
LEMMA CoprimeBezout ==
  ASSUME NEW x \in Nat, NEW y \in Nat
  PROVE  Coprime(x, y) <=> \E s, t \in Int : s * x + t * y = 1
<1>1. ASSUME NEW s \in Int, NEW t \in Int, s * x + t * y = 1
      PROVE  gcd(x, y) = 1
  <2> DEFINE d == gcd(x, y)
  <2>1. d \in Nat /\ Divides(d, x) /\ Divides(d, y)
    BY GcdBezout
  <2> HIDE DEF d
  <2>2. Divides(d, s * x + t * y)
    BY <2>1, DividesCombination
  <2>3. d = 1
    BY <1>1, <2>1, <2>2, DivisorOfOne
  <2> QED
    BY <2>3 DEF d
<1>2. Coprime(x, y) <=> gcd(x, y) = 1
  BY DEF Coprime
<1>3. PICK s \in Int, t \in Int : gcd(x, y) = s * x + t * y
  BY GcdBezout
<1> QED
  BY <1>1, <1>2, <1>3

(* The numbers coprime to m are those with an inverse modulo m.            *)
LEMMA UnitInverse ==
  ASSUME NEW x \in Nat, NEW m \in Nat \ {0}
  PROVE  Coprime(x, m) <=> \E y \in Int : Congruent(x * y, 1, m)
<1>1. ASSUME NEW s \in Int, NEW t \in Int, s * x + t * m = 1
      PROVE  Congruent(x * s, 1, m)
  <2>1. x * s = 1 + m * (-t)
    <3>1. s * x = x * s /\ t * m = m * t /\ m * (-t) = -(m * t)
      OBVIOUS
    <3>2. x * s \in Int /\ m * t \in Int
      OBVIOUS
    <3> QED
      BY <1>1, <3>1, <3>2
  <2>2. -t \in Int /\ x * s \in Int /\ 1 \in Int
    OBVIOUS
  <2> DEFINE xs == x * s  one == 1
  <2> HIDE DEF xs, one
  <2> QED
    BY <2>1, <2>2, CongruentMultiple DEF xs, one
<1>2. ASSUME NEW y \in Int, Congruent(x * y, 1, m)
      PROVE  \E s, t \in Int : s * x + t * m = 1
  <2>1. x * y \in Int /\ 1 \in Int
    OBVIOUS
  <2>2. PICK k \in Int : x * y = 1 + m * k
    BY <1>2, <2>1, CongruentMultiple
  <2>3. y * x = x * y /\ (-k) * m = -(m * k)
    OBVIOUS
  <2>4. y * x + (-k) * m = 1
    BY <2>2, <2>3
  <2>5. -k \in Int
    OBVIOUS
  <2> QED
    BY <2>4, <2>5
<1> QED
  BY <1>1, <1>2, CoprimeBezout

(* BN_mod_inverse returns the inverse of a unit, and zero for other        *)
(* numbers.                                                                *)
LEMMA ModInverse ==
  ASSUME NEW x \in Nat, NEW m \in Nat \ {0}
  PROVE  /\ mod_inverse(x, m) \in 0..(m - 1)
         /\ Coprime(x, m) => Congruent(x * mod_inverse(x, m), 1, m)
         /\ ~Coprime(x, m) => mod_inverse(x, m) = 0
<1> DEFINE r == x % m  e == euclid[r][m]
<1>1. r \in Nat /\ r \in Int /\ Congruent(r, x, m)
  BY CongruentResidue
<1>2. IsBezout(e, m, r)
  BY <1>1, EuclidBezout
<1>3. mod_inverse(x, m) = IF e[1] = 1 THEN e[3] % m ELSE 0
  BY DEF mod_inverse
<1> HIDE DEF r, e
<1>4. PICK d \in Nat, s \in Int, t \in Int :
        /\ d = e[1] /\ s = e[2] /\ t = e[3]
        /\ d = s * m + t * r
        /\ Divides(d, m) /\ Divides(d, r)
  BY <1>2 DEF IsBezout
<1>5. t % m \in 0..(m - 1) /\ Congruent(t % m, t, m)
  BY CongruentResidue
<1>6. CASE d = 1
  <2>1. mod_inverse(x, m) = t % m
    BY <1>3, <1>4, <1>6
  <2>2. Congruent(x * (t % m), r * t, m)
    <3>1. t % m \in Int /\ x \in Int /\ r \in Int
      BY <1>1, <1>5
    <3>2. Congruent(x, r, m)
      BY <1>1, CongruentEquivalence
    <3> QED
      BY <1>5, <3>1, <3>2, CongruentMul
  <2>3. Congruent(r * t, 1, m)
    <3>1. r * t = 1 + m * (-s)
      <4>1. t * r = r * t /\ s * m = m * s /\ m * (-s) = -(m * s)
        BY <1>1
      <4>2. r * t \in Int /\ m * s \in Int
        BY <1>1
      <4> QED
        BY <1>4, <1>6, <4>1, <4>2
    <3>2. -s \in Int /\ r * t \in Int /\ 1 \in Int
      BY <1>1
    <3> QED
      BY <3>1, <3>2, CongruentMultiple
  <2>4. Congruent(x * (t % m), 1, m)
    BY <2>2, <2>3, CongruentEquivalence
  <2>5. t % m \in Int
    BY <1>5
  <2>6. Coprime(x, m)
    BY <2>4, <2>5, UnitInverse
  <2> QED
    BY <2>1, <2>4, <2>6, <1>5
<1>7. CASE d # 1
  <2>1. ~Coprime(x, m)
    <3> SUFFICES ASSUME Coprime(x, m) PROVE FALSE
      OBVIOUS
    <3>1. PICK y \in Int : Congruent(x * y, 1, m)
      BY UnitInverse
    <3>2. Congruent(r * y, x * y, m)
      <4>1. r \in Int /\ x \in Int
        BY <1>1
      <4> QED
        BY <1>1, <4>1, CongruentScale, Zenon
    <3>3. Congruent(r * y, 1, m)
      BY <3>1, <3>2, CongruentEquivalence
    <3>4. Coprime(r, m)
      BY <1>1, <3>3, UnitInverse
    <3>5. PICK a, b \in Int : a * r + b * m = 1
      BY <1>1, <3>4, CoprimeBezout
    <3>6. Divides(d, a * r + b * m)
      <4>1. d \in Int /\ r \in Int /\ m \in Int
        BY <1>1
      <4> QED
        BY <1>4, <4>1, DividesCombination, Zenon
    <3> QED
      BY <1>4, <1>7, <3>5, <3>6, DivisorOfOne
  <2> QED
    BY <1>3, <1>4, <1>7, <2>1
<1> QED
  BY <1>6, <1>7

(* Coprimality depends on the residue only.                                *)
LEMMA CoprimeCongruent ==
  ASSUME NEW x \in Nat, NEW y \in Nat, NEW m \in Nat \ {0}, Congruent(x, y, m)
  PROVE  Coprime(x, m) <=> Coprime(y, m)
<1>1. ASSUME NEW z \in Int PROVE Congruent(x * z, y * z, m)
  <2>1. x \in Int /\ y \in Int
    OBVIOUS
  <2> QED
    BY <2>1, CongruentScale, Zenon
<1>2. ASSUME NEW z \in Int
      PROVE  Congruent(x * z, 1, m) <=> Congruent(y * z, 1, m)
  BY <1>1, CongruentEquivalence
<1> QED
  BY <1>2, UnitInverse

(* A product is a unit when both factors are.                              *)
LEMMA CoprimeMul ==
  ASSUME NEW x \in Nat, NEW y \in Nat, NEW m \in Nat \ {0}
  PROVE  Coprime(x * y, m) <=> Coprime(x, m) /\ Coprime(y, m)
<1>0. x * y \in Nat
  OBVIOUS
<1>1. ASSUME Coprime(x, m), Coprime(y, m) PROVE Coprime(x * y, m)
  <2>1. PICK a \in Int : Congruent(x * a, 1, m)
    BY <1>1, UnitInverse
  <2>2. PICK b \in Int : Congruent(y * b, 1, m)
    BY <1>1, UnitInverse
  <2>3. x * a \in Int /\ y * b \in Int /\ 1 \in Int /\ a * b \in Int
    OBVIOUS
  <2>4. Congruent((x * a) * (y * b), 1 * 1, m)
    BY <2>1, <2>2, <2>3, CongruentMul
  <2>5. (x * a) * (y * b) = (x * y) * (a * b)
    OBVIOUS
  <2>6. Congruent((x * y) * (a * b), 1, m)
    BY <2>4, <2>5
  <2> QED
    BY <1>0, <2>3, <2>6, UnitInverse
<1>2. ASSUME Coprime(x * y, m) PROVE Coprime(x, m) /\ Coprime(y, m)
  <2>1. PICK a \in Int : Congruent((x * y) * a, 1, m)
    BY <1>0, <1>2, UnitInverse
  <2>2. (x * y) * a = x * (y * a) /\ (x * y) * a = y * (x * a)
    OBVIOUS
  <2>3. y * a \in Int /\ x * a \in Int
    OBVIOUS
  <2> QED
    BY <2>1, <2>2, <2>3, UnitInverse
<1> QED
  BY <1>1, <1>2

(* Coprimality is symmetric.                                               *)
LEMMA CoprimeSymmetric ==
  ASSUME NEW x \in Nat, NEW y \in Nat
  PROVE  Coprime(x, y) <=> Coprime(y, x)
<1>1. ASSUME NEW a \in Nat, NEW b \in Nat, NEW s \in Int, NEW t \in Int,
             s * a + t * b = 1
      PROVE  \E u, v \in Int : u * b + v * a = 1
  <2>1. t * b + s * a = 1
    BY <1>1
  <2> QED
    BY <2>1
<1>2. \A a, b \in Nat : Coprime(a, b) => Coprime(b, a)
  BY <1>1, CoprimeBezout
<1> QED
  BY <1>2

(* A number is coprime to a product when it is to both factors.            *)
LEMMA CoprimeProduct ==
  ASSUME NEW x \in Nat, NEW p \in Nat \ {0}, NEW q \in Nat \ {0}
  PROVE  Coprime(x, p * q) <=> Coprime(x, p) /\ Coprime(x, q)
<1>1. CASE x = 0
  <2>1. p * q \in Nat
    OBVIOUS
  <2>2. \A m \in Nat : Coprime(0, m) <=> m = 1
    <3> SUFFICES ASSUME NEW m \in Nat PROVE Coprime(0, m) <=> m = 1
      OBVIOUS
    <3>1. ASSUME Coprime(0, m) PROVE m = 1
      <4>1. PICK s, t \in Int : s * 0 + t * m = 1
        BY <3>1, CoprimeBezout
      <4>2. 1 = m * t
        BY <4>1
      <4> QED
        BY <4>2, DivisorOfOne DEF Divides
    <3>2. ASSUME m = 1 PROVE Coprime(0, m)
      <4>1. 0 * 0 + 1 * m = 1 /\ 0 \in Int /\ 1 \in Int
        BY <3>2
      <4>2. \E s, t \in Int : s * 0 + t * m = 1
        BY <4>1
      <4> QED
        BY <4>2, CoprimeBezout
    <3> QED
      BY <3>1, <3>2
  <2>3. p * q = 1 <=> p = 1 /\ q = 1
    <3>1. ASSUME p * q = 1 PROVE p = 1 /\ q = 1
      <4>1. q * p = p * q
        OBVIOUS
      <4> QED
        BY <3>1, <4>1, DivisorOfOne DEF Divides
    <3> QED
      BY <3>1
  <2> QED
    BY <1>1, <2>1, <2>2, <2>3
<1>2. CASE x # 0
  <2>1. p * q \in Nat
    OBVIOUS
  <2> QED
    BY <1>2, <2>1, CoprimeMul, CoprimeSymmetric
<1> QED
  BY <1>1, <1>2

(* A unit may be cancelled.                                                *)
LEMMA CongruentCancel ==
  ASSUME NEW m \in Nat \ {0}, NEW c \in Nat, Coprime(c, m),
         NEW a \in Int, NEW b \in Int, Congruent(c * a, c * b, m)
  PROVE  Congruent(a, b, m)
<1>1. PICK y \in Int : Congruent(c * y, 1, m)
  BY UnitInverse
<1>2. c \in Int /\ c * y \in Int /\ c * a \in Int /\ c * b \in Int /\ 1 \in Int
  OBVIOUS
<1>3. ASSUME NEW z \in Int PROVE Congruent(y * (c * z), z, m)
  <2>1. Congruent((c * y) * z, 1 * z, m)
    BY <1>1, <1>2, CongruentScale, Zenon
  <2>2. (c * y) * z = y * (c * z) /\ 1 * z = z
    OBVIOUS
  <2> QED
    BY <2>1, <2>2
<1>4. Congruent(y * (c * a), y * (c * b), m)
  BY <1>2, CongruentScale, Zenon
<1> QED
  BY <1>3, <1>4, CongruentEquivalence, Zenon

(* A divisor of a positive number is at most that number and leaves no     *)
(* rest.                                                                   *)
LEMMA DivisorBound ==
  ASSUME NEW d \in Nat, NEW p \in Nat \ {0}, Divides(d, p)
  PROVE  d \in 1..p /\ p % d = 0
<1>1. PICK k \in Int : p = d * k
  BY DEF Divides
<1>2. d # 0
  BY <1>1
<1>3. k >= 1
  <2> SUFFICES ASSUME k <= 0 PROVE FALSE
    OBVIOUS
  <2>1. d * k <= d * 0
    OBVIOUS
  <2> QED
    BY <1>1, <2>1
<1>4. d * k >= d * 1
  BY <1>3
<1>5. d <= p
  BY <1>1, <1>4
<1>6. d \in Nat \ {0} /\ p \in Int /\ 0 \in Int /\ p = 0 + d * k
  BY <1>1, <1>2
<1>7. p % d = 0 % d
  BY <1>6, SameResidue
<1>8. 0 % d = 0
  BY <1>2
<1> QED
  BY <1>2, <1>5, <1>7, <1>8

(* A residue is zero when the number is congruent to zero.                 *)
LEMMA ResidueZero ==
  ASSUME NEW m \in Nat \ {0}, NEW x \in Int
  PROVE  x % m = 0 <=> Congruent(x, 0, m)
<1>1. 0 % m = 0
  OBVIOUS
<1> QED
  BY <1>1 DEF Congruent

(* A prime is coprime to the numbers that are not its multiples.           *)
LEMMA PrimeCoprime ==
  ASSUME NEW p \in Nat, IsPrime(p), NEW x \in Nat
  PROVE  Coprime(x, p) <=> x % p # 0
<1>0. p > 1 /\ p \in Nat \ {0}
  BY DEF IsPrime
<1>1. ASSUME Coprime(x, p), x % p = 0 PROVE FALSE
  <2>1. PICK y \in Int : Congruent(x * y, 1, p)
    BY <1>0, <1>1, UnitInverse
  <2>2. Congruent(x, 0, p)
    BY <1>0, <1>1, ResidueZero
  <2>3. Congruent(x * y, 0 * y, p)
    <3>1. x \in Int /\ 0 \in Int
      OBVIOUS
    <3> QED
      BY <1>0, <2>2, <3>1, CongruentScale, Zenon
  <2>4. Congruent(1, 0 * y, p) /\ 0 * y = 0
    BY <2>1, <2>3, CongruentEquivalence
  <2>5. 1 % p = 0 % p
    BY <2>4 DEF Congruent
  <2>6. 1 % p = 1 /\ 0 % p = 0
    BY <1>0
  <2> QED
    BY <2>5, <2>6
<1>2. ASSUME x % p # 0 PROVE Coprime(x, p)
  <2> DEFINE d == gcd(x, p)
  <2>1. d \in Nat /\ Divides(d, x) /\ Divides(d, p)
    BY <1>0, GcdBezout
  <2> HIDE DEF d
  <2>2. d \in 1..p /\ p % d = 0
    BY <1>0, <2>1, DivisorBound
  <2>3. d = 1 \/ d = p
    BY <2>2 DEF IsPrime
  <2>4. d # p
    <3> SUFFICES ASSUME d = p PROVE FALSE
      OBVIOUS
    <3>1. PICK k \in Int : x = p * k
      BY <2>1 DEF Divides
    <3>2. x = 0 + p * k /\ x \in Int /\ 0 \in Int
      BY <3>1
    <3>3. Congruent(x, 0, p)
      BY <1>0, <3>2, CongruentMultiple
    <3> QED
      BY <1>0, <1>2, <3>3, ResidueZero
  <2> QED
    BY <2>3, <2>4 DEF Coprime, d
<1> QED
  BY <1>1, <1>2

(* Congruences modulo coprime numbers combine.                             *)
LEMMA CongruentCombine ==
  ASSUME NEW p \in Nat \ {0}, NEW q \in Nat \ {0}, Coprime(p, q),
         NEW a \in Int, NEW b \in Int,
         Congruent(a, b, p), Congruent(a, b, q)
  PROVE  Congruent(a, b, p * q)
<1>1. PICK k \in Int : a = b + p * k
  BY CongruentMultiple
<1>2. PICK l \in Int : a = b + q * l
  BY CongruentMultiple
<1>3. PICK s \in Int, t \in Int : s * p + t * q = 1
  BY CoprimeBezout
<1> DEFINE c == a - b
<1>4. c = p * k /\ c = q * l /\ c \in Int
  BY <1>1, <1>2
<1> HIDE DEF c
<1>5. c = (p * q) * (s * l + t * k)
  <2>1. c = (s * p) * c + (t * q) * c
    <3>1. (s * p + t * q) * c = (s * p) * c + (t * q) * c
      BY <1>4
    <3> QED
      BY <1>3, <1>4, <3>1
  <2>2. (s * p) * (q * l) = (p * q) * (s * l)
    OBVIOUS
  <2>3. (t * q) * (p * k) = (p * q) * (t * k)
    OBVIOUS
  <2>4. (p * q) * (s * l + t * k) = (p * q) * (s * l) + (p * q) * (t * k)
    OBVIOUS
  <2>5. (s * p) * c = (p * q) * (s * l) /\ (t * q) * c = (p * q) * (t * k)
    BY <1>4, <2>2, <2>3
  <2> QED
    BY <2>1, <2>4, <2>5
<1>6. p * q \in Nat \ {0} /\ s * l + t * k \in Int
  OBVIOUS
<1>7. a = b + (p * q) * (s * l + t * k)
  BY <1>5, <1>6 DEF c
<1> QED
  BY <1>6, <1>7, CongruentMultiple

----------------------------------------------------------------------------
(***************************************************************************)
(* Products of several factors and Fermat's little theorem.                *)
(***************************************************************************)

(* The products P[k] = f[1] * ... * f[k].                                  *)
IsProducts(P, f) ==
  /\ P \in [Nat -> Int]
  /\ P[0] = 1
  /\ \A k \in Nat : P[k + 1] = f[k + 1] * P[k]

Product(f, k) == (CHOOSE P : IsProducts(P, f))[k]

(* The recursion that defines Product has a solution.                      *)
LEMMA ProductDef ==
  ASSUME NEW f \in [Nat -> Int]
  PROVE  /\ Product(f, 0) = 1
         /\ \A k \in Nat : /\ Product(f, k) \in Int
                           /\ Product(f, k + 1) = f[k + 1] * Product(f, k)
<1> DEFINE next == [k \in Nat |-> [v \in Int |-> f[k + 1] * v]]
<1>1. next \in [Nat -> [Int -> Int]]
  <2>1. \A k \in Nat : f[k + 1] \in Int
    OBVIOUS
  <2>2. ASSUME NEW k \in Nat, NEW v \in Int PROVE f[k + 1] * v \in Int
    BY <2>1
  <2> QED
    BY <2>2
<1> HIDE DEF next
<1>2. PICK P : IsIteration(P, Int, 1, next)
  <2>1. 1 \in Int
    OBVIOUS
  <2> QED
    BY <1>1, <2>1, Iteration
<1>3. IsProducts(P, f)
  BY <1>2 DEF IsIteration, IsProducts, next
<1> DEFINE Q == CHOOSE R : IsProducts(R, f)
<1>4. IsProducts(Q, f)
  BY <1>3
<1>5. \A k : Product(f, k) = Q[k]
  BY DEF Product
<1> HIDE DEF Q
<1> QED
  BY <1>4, <1>5 DEF IsProducts

(* Two functions that agree have the same product.                         *)
LEMMA ProductSame ==
  ASSUME NEW f \in [Nat -> Int], NEW g \in [Nat -> Int], NEW n \in Nat,
         \A i \in 1..n : f[i] = g[i]
  PROVE  Product(f, n) = Product(g, n)
<1> DEFINE S == {k \in Nat : k <= n => Product(f, k) = Product(g, k)}
<1>1. 0 \in S
  BY ProductDef
<1>2. ASSUME NEW k \in Nat, k \in S PROVE k + 1 \in S
  <2> SUFFICES ASSUME k + 1 <= n PROVE Product(f, k + 1) = Product(g, k + 1)
    OBVIOUS
  <2>1. Product(f, k) = Product(g, k) /\ f[k + 1] = g[k + 1]
    BY <1>2
  <2>2. /\ Product(f, k + 1) = f[k + 1] * Product(f, k)
        /\ Product(g, k + 1) = g[k + 1] * Product(g, k)
    BY ProductDef
  <2> QED
    BY <2>1, <2>2
<1> HIDE DEF S
<1>3. Nat \subseteq S
  BY <1>1, <1>2, Induction
<1> QED
  BY <1>3 DEF S

(* Replacing one factor.                                                   *)
LEMMA ProductReplace ==
  ASSUME NEW f \in [Nat -> Int], NEW g \in [Nat -> Int], NEW n \in Nat,
         NEW j \in 1..n, \A i \in 1..n : i # j => f[i] = g[i]
  PROVE  Product(f, n) * g[j] = Product(g, n) * f[j]
<1> DEFINE S == {k \in Nat : j <= k /\ k <= n =>
                    Product(f, k) * g[j] = Product(g, k) * f[j]}
<1>1. 0 \in S
  OBVIOUS
<1>2. ASSUME NEW k \in Nat, k \in S PROVE k + 1 \in S
  <2> SUFFICES ASSUME j <= k + 1, k + 1 <= n
               PROVE  Product(f, k + 1) * g[j] = Product(g, k + 1) * f[j]
    OBVIOUS
  <2> DEFINE u == Product(f, k)  v == Product(g, k)  a == f[k + 1]  b == g[k + 1]
             x == f[j]  y == g[j]
  <2>1. Product(f, k + 1) = a * u /\ Product(g, k + 1) = b * v
    BY ProductDef
  <2>2. u \in Int /\ v \in Int /\ a \in Int /\ b \in Int /\ x \in Int /\ y \in Int
    BY ProductDef
  <2>3. CASE j = k + 1
    <3>1. \A i \in 1..k : f[i] = g[i]
      BY <2>3
    <3>2. u = v
      BY <3>1, ProductSame
    <3>3. x = a /\ y = b
      BY <2>3
    <3> HIDE DEF u, v, a, b, x, y
    <3>4. (a * u) * b = (b * u) * a
      BY <2>2
    <3> QED
      BY <2>1, <3>2, <3>3, <3>4 DEF x, y
  <2>4. CASE j <= k
    <3>1. a = b
      BY <2>4
    <3>2. u * y = v * x
      BY <1>2, <2>4
    <3> HIDE DEF u, v, a, b, x, y
    <3>3. (a * u) * y = a * (u * y) /\ (a * v) * x = a * (v * x)
      BY <2>2
    <3> QED
      BY <2>1, <3>1, <3>2, <3>3 DEF x, y
  <2> QED
    BY <2>3, <2>4
<1> HIDE DEF S
<1>3. Nat \subseteq S
  BY <1>1, <1>2, Induction
<1> QED
  BY <1>3 DEF S

(* pi permutes 1..n.                                                       *)
IsPermutation(pi, n) ==
  /\ pi \in [1..n -> 1..n]
  /\ \A i, j \in 1..n : pi[i] = pi[j] => i = j
  /\ \A k \in 1..n : \E i \in 1..n : pi[i] = k

(* Reordering the factors.                                                 *)
LEMMA ProductPermuted ==
  ASSUME NEW f \in [Nat -> Int]
  PROVE  \A n \in Nat : \A g \in [Nat -> Int] : \A pi :
           IsPermutation(pi, n) /\ (\A i \in 1..n : g[i] = f[pi[i]])
             => Product(g, n) = Product(f, n)
<1> DEFINE Same(n) == \A g \in [Nat -> Int] : \A pi :
             IsPermutation(pi, n) /\ (\A i \in 1..n : g[i] = f[pi[i]])
               => Product(g, n) = Product(f, n)
           S == {n \in Nat : Same(n)}
<1>1. 0 \in S
  BY ProductDef
<1>2. ASSUME NEW n \in Nat, n \in S PROVE n + 1 \in S
  <2> SUFFICES ASSUME NEW g \in [Nat -> Int], NEW pi, IsPermutation(pi, n + 1),
                      \A i \in 1..(n + 1) : g[i] = f[pi[i]]
               PROVE  Product(g, n + 1) = Product(f, n + 1)
    OBVIOUS
  <2>1. PICK j \in 1..(n + 1) : pi[j] = n + 1
    BY DEF IsPermutation
  <2> DEFINE last == pi[n + 1]
             rho == [i \in 1..n |-> IF i = j THEN last ELSE pi[i]]
             h == [i \in Nat |-> IF i = n + 1 THEN g[j]
                                 ELSE IF i = j THEN g[n + 1] ELSE g[i]]
  <2>2. /\ last \in 1..(n + 1) /\ n + 1 \in 1..(n + 1)
        /\ \A i \in 1..n : i \in 1..(n + 1)
    BY DEF IsPermutation
  <2>3. IsPermutation(rho, n)
    <3>0. /\ pi \in [1..(n + 1) -> 1..(n + 1)]
          /\ \A a, b \in 1..(n + 1) : pi[a] = pi[b] => a = b
          /\ \A k \in 1..(n + 1) : \E i \in 1..(n + 1) : pi[i] = k
      BY DEF IsPermutation
    <3>a. ASSUME j # n + 1 PROVE last # n + 1 /\ last \in 1..n
      <4>1. pi[n + 1] # pi[j]
        BY <2>2, <3>0, <3>a
      <4> QED
        BY <2>1, <2>2, <4>1
    <3>b. ASSUME NEW i \in 1..n, i # j PROVE pi[i] # n + 1 /\ pi[i] \in 1..n
      <4>1. i \in 1..(n + 1) /\ pi[i] \in 1..(n + 1)
        BY <2>2, <3>0
      <4>2. pi[i] # pi[j]
        BY <3>0, <3>b, <4>1
      <4> QED
        BY <2>1, <4>1, <4>2
    <3>c. ASSUME NEW i \in 1..n
          PROVE  rho[i] = IF i = j THEN last ELSE pi[i]
      OBVIOUS
    <3>1. ASSUME NEW i \in 1..n PROVE rho[i] \in 1..n
      <4>1. CASE i = j
        <5>1. rho[i] = last /\ j # n + 1
          BY <3>c, <4>1
        <5> QED
          BY <3>a, <5>1
      <4>2. CASE i # j
        <5>1. rho[i] = pi[i]
          BY <3>c, <4>2
        <5> QED
          BY <3>b, <4>2, <5>1
      <4> QED
        BY <4>1, <4>2
    <3>2. ASSUME NEW a \in 1..n, NEW b \in 1..n, rho[a] = rho[b] PROVE a = b
      <4>0. a \in 1..(n + 1) /\ b \in 1..(n + 1) /\ a # n + 1 /\ b # n + 1
        BY <2>2
      <4>1. CASE a = j /\ b = j
        BY <4>1
      <4>2. CASE a # j /\ b # j
        <5>1. pi[a] = pi[b]
          BY <3>2, <3>c, <4>2
        <5> QED
          BY <3>0, <4>0, <5>1
      <4>3. CASE a = j /\ b # j
        <5>1. pi[n + 1] = pi[b]
          BY <3>2, <3>c, <4>3
        <5> QED
          BY <2>2, <3>0, <4>0, <5>1
      <4>4. CASE a # j /\ b = j
        <5>1. pi[a] = pi[n + 1]
          BY <3>2, <3>c, <4>4
        <5> QED
          BY <2>2, <3>0, <4>0, <5>1
      <4> QED
        BY <4>1, <4>2, <4>3, <4>4
    <3>3. ASSUME NEW k \in 1..n PROVE \E i \in 1..n : rho[i] = k
      <4>1. PICK i \in 1..(n + 1) : pi[i] = k
        BY <3>0
      <4>2. CASE i = n + 1
        <5>1. j # n + 1
          BY <2>1, <4>1, <4>2
        <5>2. j \in 1..n /\ rho[j] = k
          BY <4>1, <4>2, <5>1
        <5> QED
          BY <5>2
      <4>3. CASE i # n + 1
        <5>1. i \in 1..n /\ i # j
          BY <2>1, <4>1, <4>3
        <5> QED
          BY <4>1, <5>1
      <4> QED
        BY <4>2, <4>3
    <3> HIDE DEF rho
    <3>4. rho \in [1..n -> 1..n]
      <4>1. rho = [i \in 1..n |-> rho[i]]
        BY DEF rho
      <4> QED
        BY <3>1, <4>1
    <3> QED
      BY <3>2, <3>3, <3>4 DEF IsPermutation
  <2>4. h \in [Nat -> Int]
    OBVIOUS
  <2>5. \A i \in 1..n : h[i] = f[rho[i]]
    BY <2>1, <2>2
  <2>6. Product(h, n) = Product(f, n)
    <3> HIDE DEF h, rho
    <3> QED
      BY <1>2, <2>3, <2>4, <2>5
  <2>7. Product(h, n + 1) = Product(f, n + 1)
    <3>1. h[n + 1] = f[n + 1]
      BY <2>1
    <3> HIDE DEF h
    <3> QED
      BY <2>4, <2>6, <3>1, ProductDef
  <2>8. Product(h, n + 1) = Product(g, n + 1)
    <3>1. CASE j = n + 1
      <4>1. \A i \in 1..(n + 1) : h[i] = g[i]
        BY <3>1
      <4> HIDE DEF h
      <4> QED
        BY <2>4, <4>1, ProductSame
    <3>2. CASE j # n + 1
      <4>1. j \in 1..n
        BY <3>2
      <4>2. \A i \in 1..n : i # j => h[i] = g[i]
        OBVIOUS
      <4>3. h[j] = g[n + 1] /\ h[n + 1] = g[j]
        BY <3>2
      <4> HIDE DEF h
      <4>4. Product(h, n) * g[j] = Product(g, n) * h[j]
        BY <2>4, <4>1, <4>2, ProductReplace
      <4>5. /\ Product(h, n + 1) = h[n + 1] * Product(h, n)
            /\ Product(g, n + 1) = g[n + 1] * Product(g, n)
            /\ Product(h, n) \in Int /\ Product(g, n) \in Int
        BY <2>4, ProductDef
      <4>6. g[j] \in Int /\ g[n + 1] \in Int
        OBVIOUS
      <4> QED
        BY <4>3, <4>4, <4>5, <4>6
    <3> QED
      BY <3>1, <3>2
  <2> QED
    BY <2>7, <2>8
<1> HIDE DEF S
<1>3. Nat \subseteq S
  BY <1>1, <1>2, Induction
<1> QED
  BY <1>3 DEF S

(* The factors reduced one by one.                                         *)
LEMMA ProductCongruent ==
  ASSUME NEW q \in Nat \ {0}, NEW f \in [Nat -> Int], NEW g \in [Nat -> Int],
         \A i \in Nat : Congruent(f[i], g[i], q), NEW n \in Nat
  PROVE  Congruent(Product(f, n), Product(g, n), q)
<1> DEFINE S == {k \in Nat : Congruent(Product(f, k), Product(g, k), q)}
<1>1. 0 \in S
  BY ProductDef, CongruentEquivalence
<1>2. ASSUME NEW k \in Nat, k \in S PROVE k + 1 \in S
  <2> DEFINE u == Product(f, k)  v == Product(g, k)  a == f[k + 1]  b == g[k + 1]
  <2>1. u \in Int /\ v \in Int /\ a \in Int /\ b \in Int
    BY ProductDef
  <2>2. Congruent(u, v, q) /\ Congruent(a, b, q)
    BY <1>2
  <2>3. Product(f, k + 1) = a * u /\ Product(g, k + 1) = b * v
    BY ProductDef
  <2> HIDE DEF u, v, a, b
  <2>4. Congruent(a * u, b * v, q)
    BY <2>1, <2>2, CongruentMul
  <2> QED
    BY <2>3, <2>4
<1> HIDE DEF S
<1>3. Nat \subseteq S
  BY <1>1, <1>2, Induction
<1> QED
  BY <1>3 DEF S

(* A common factor drawn out.                                              *)
LEMMA ProductScaled ==
  ASSUME NEW a \in Int, NEW f \in [Nat -> Int], NEW g \in [Nat -> Int],
         \A i \in Nat : g[i] = a * f[i], NEW n \in Nat
  PROVE  Product(g, n) = Power(a, n) * Product(f, n)
<1> DEFINE S == {k \in Nat : Product(g, k) = Power(a, k) * Product(f, k)}
<1>0. \A k \in Nat : /\ Power(a, k) \in Int /\ Power(a, k + 1) = a * Power(a, k)
                    /\ Power(a, 0) = 1
  BY PowerDef
<1>1. 0 \in S
  <2>1. Product(f, 0) = 1 /\ Product(g, 0) = 1
    BY ProductDef
  <2> QED
    BY <1>0, <2>1
<1>2. ASSUME NEW k \in Nat, k \in S PROVE k + 1 \in S
  <2> DEFINE u == Product(f, k)  v == Product(g, k)  w == Power(a, k)  x == f[k + 1]
  <2>1. u \in Int /\ v \in Int /\ w \in Int /\ x \in Int
    <3>1. u \in Int /\ v \in Int
      BY ProductDef
    <3> QED
      BY <1>0, <3>1
  <2>2. v = w * u
    BY <1>2
  <2>3. /\ Product(f, k + 1) = x * u
        /\ Product(g, k + 1) = (a * x) * v
        /\ Power(a, k + 1) = a * w
    <3>1. Product(f, k + 1) = x * u /\ Product(g, k + 1) = g[k + 1] * v
      BY ProductDef
    <3>2. g[k + 1] = a * x
      OBVIOUS
    <3> QED
      BY <1>0, <3>1, <3>2
  <2> HIDE DEF u, v, w, x
  <2>4. (a * x) * (w * u) = (a * w) * (x * u)
    BY <2>1
  <2>5. Product(g, k + 1) = Power(a, k + 1) * Product(f, k + 1)
    BY <2>2, <2>3, <2>4
  <2> QED
    BY <2>5
<1> HIDE DEF S
<1>3. Nat \subseteq S
  BY <1>1, <1>2, Induction
<1> QED
  BY <1>3 DEF S

(* Fermat's little theorem.                                                *)
LEMMA Fermat ==
  ASSUME NEW p \in Nat, IsPrime(p), NEW a \in Nat, Coprime(a, p)
  PROVE  Congruent(Power(a, p - 1), 1, p)
<1> DEFINE n == p - 1
           f == [i \in Nat |-> i]
           h == [i \in Nat |-> a * i]
           g == [i \in Nat |-> (a * i) % p]
           pi == [i \in 1..n |-> (a * i) % p]
<1>0. p \in Nat \ {0} /\ n \in Nat /\ p > 1
  BY DEF IsPrime
<1>1. /\ f \in [Nat -> Int] /\ h \in [Nat -> Int] /\ g \in [Nat -> Int]
      /\ \A i \in Nat : a * i \in Nat /\ (a * i) % p \in 0..n
  <2>1. \A i \in Nat : a * i \in Nat
    OBVIOUS
  <2>2. \A i \in Nat : (a * i) % p \in 0..n
    BY <1>0, <2>1
  <2> QED
    BY <2>1, <2>2
<1>2. \A i \in 1..n : Coprime(i, p)
  <2>1. ASSUME NEW i \in 1..n PROVE i % p # 0 /\ i \in Nat
    BY <1>0
  <2> QED
    BY <2>1, PrimeCoprime
<1>3. IsPermutation(pi, n)
  <2>1. ASSUME NEW i \in 1..n PROVE pi[i] \in 1..n
    <3>1. Coprime(a * i, p)
      <4>1. i \in Nat /\ Coprime(i, p)
        BY <1>2
      <4> QED
        BY <1>0, <4>1, CoprimeMul, Zenon
    <3>2. (a * i) % p # 0
      BY <1>1, <3>1, PrimeCoprime
    <3> QED
      BY <1>1, <3>2
  <2>2. ASSUME NEW i \in 1..n, NEW j \in 1..n, pi[i] = pi[j] PROVE i = j
    <3>1. Congruent(a * i, a * j, p)
      BY <2>2 DEF Congruent
    <3>2. i \in Int /\ j \in Int
      OBVIOUS
    <3>3. Congruent(i, j, p)
      BY <1>0, <3>1, <3>2, CongruentCancel
    <3>4. i % p = i /\ j % p = j
      BY <1>0
    <3> QED
      BY <3>3, <3>4 DEF Congruent
  <2>3. ASSUME NEW k \in 1..n PROVE \E i \in 1..n : pi[i] = k
    <3>1. PICK y \in Int : Congruent(a * y, 1, p)
      BY <1>0, UnitInverse
    <3> DEFINE i == (y * k) % p
    <3>2. y * k \in Int /\ a * y \in Int
      OBVIOUS
    <3>3. i \in 0..n /\ Congruent(i, y * k, p)
      BY <1>0, <3>2, CongruentResidue
    <3> HIDE DEF i
    <3>4. Congruent(a * i, a * (y * k), p)
      <4>1. i \in Int /\ a \in Int
        BY <3>3
      <4> QED
        BY <1>0, <3>2, <3>3, <4>1, CongruentScale, Zenon
    <3>5. Congruent((a * y) * k, 1 * k, p)
      <4>1. k \in Int /\ 1 \in Int
        OBVIOUS
      <4> QED
        BY <1>0, <3>1, <3>2, <4>1, CongruentScale, Zenon
    <3>6. a * (y * k) = (a * y) * k /\ 1 * k = k
      OBVIOUS
    <3>7. Congruent(a * i, k, p)
      BY <3>4, <3>5, <3>6, CongruentEquivalence
    <3>8. (a * i) % p = k
      <4>1. k % p = k
        BY <1>0
      <4> QED
        BY <3>7, <4>1 DEF Congruent
    <3>9. i # 0
      <4> SUFFICES ASSUME i = 0 PROVE FALSE
        OBVIOUS
      <4>1. a * i = 0 /\ 0 % p = 0
        BY <1>0
      <4> QED
        BY <3>8, <4>1
    <3>10. i \in 1..n
      BY <1>0, <3>3, <3>9
    <3>11. pi[i] = k
      BY <3>8, <3>10
    <3> QED
      BY <3>10, <3>11
  <2> QED
    BY <2>1, <2>2, <2>3 DEF IsPermutation
<1>4. Product(g, n) = Product(f, n)
  <2>1. \A i \in 1..n : g[i] = f[pi[i]]
    BY <1>1
  <2> HIDE DEF f, g, pi, n
  <2> QED
    BY <1>0, <1>1, <1>3, <2>1, ProductPermuted
<1>5. Product(h, n) = Power(a, n) * Product(f, n)
  <2>1. \A i \in Nat : h[i] = a * f[i]
    OBVIOUS
  <2> HIDE DEF f, h, n
  <2> QED
    BY <1>0, <1>1, <2>1, ProductScaled
<1>6. Congruent(Product(g, n), Product(h, n), p)
  <2>1. ASSUME NEW i \in Nat PROVE Congruent(g[i], h[i], p)
    <3>1. a * i \in Int /\ g[i] = (a * i) % p /\ h[i] = a * i
      OBVIOUS
    <3> QED
      BY <1>0, <3>1, CongruentResidue
  <2> HIDE DEF g, h, n
  <2> QED
    BY <1>0, <1>1, <2>1, ProductCongruent
<1>7. Product(f, n) \in Nat /\ Coprime(Product(f, n), p)
  <2> DEFINE S == {k \in Nat : k <= n => Product(f, k) \in Nat /\ Coprime(Product(f, k), p)}
  <2>1. 0 \in S
    <3>1. 1 % p # 0
      BY <1>0
    <3>2. Coprime(1, p)
      BY <3>1, PrimeCoprime
    <3> HIDE DEF f
    <3>3. Product(f, 0) = 1
      BY <1>1, ProductDef
    <3> QED
      BY <3>2, <3>3
  <2>2. ASSUME NEW k \in Nat, k \in S PROVE k + 1 \in S
    <3> SUFFICES ASSUME k + 1 <= n
                 PROVE  Product(f, k + 1) \in Nat /\ Coprime(Product(f, k + 1), p)
      OBVIOUS
    <3>1. Product(f, k) \in Nat /\ Coprime(Product(f, k), p)
      BY <2>2, <1>0
    <3>2. f[k + 1] = k + 1 /\ k + 1 \in 1..n
      BY <1>0
    <3> HIDE DEF f
    <3>3. Product(f, k + 1) = (k + 1) * Product(f, k)
      BY <1>1, <3>2, ProductDef
    <3>4. Coprime(k + 1, p)
      BY <1>2, <3>2
    <3> DEFINE u == k + 1  v == Product(f, k)
    <3>5. u \in Nat /\ v \in Nat /\ Coprime(u, p) /\ Coprime(v, p)
      BY <3>1, <3>4
    <3> HIDE DEF u, v
    <3>6. u * v \in Nat /\ Coprime(u * v, p)
      BY <1>0, <3>5, CoprimeMul
    <3> QED
      BY <3>3, <3>6 DEF u, v
  <2> HIDE DEF S
  <2>3. Nat \subseteq S
    BY <2>1, <2>2, Induction
  <2> QED
    BY <1>0, <2>3 DEF S
<1> DEFINE c == Product(f, n)  w == Power(a, n)
<1>8. c \in Nat /\ Coprime(c, p) /\ w \in Int
  BY <1>0, <1>7, PowerDef
<1>9. Congruent(c, w * c, p)
  BY <1>4, <1>5, <1>6
<1> HIDE DEF c, w
<1>10. Congruent(c * w, c * 1, p)
  <2>1. w * c = c * w /\ c * 1 = c
    BY <1>8
  <2> QED
    BY <1>9, <2>1, CongruentEquivalence
<1>11. Congruent(w, 1, p)
  <2>1. 1 \in Int
    OBVIOUS
  <2> QED
    BY <1>0, <1>8, <1>10, <2>1, CongruentCancel
<1> QED
  BY <1>11 DEF w

----------------------------------------------------------------------------
(***************************************************************************)
(* Powers modulo the square of a number.                                  *)
(***************************************************************************)

(* The binomial theorem modulo n^2: of (1 + n*t)^k two terms remain.       *)
LEMMA BinomialPower ==
  ASSUME NEW n \in Nat \ {0}, NEW t \in Int, NEW k \in Nat
  PROVE  Congruent(Power(1 + n * t, k), 1 + n * (k * t), n * n)
<1> DEFINE N == n * n  x == 1 + n * t  f(j) == 1 + n * (j * t)
           S == {j \in Nat : Congruent(Power(x, j), f(j), N)}
<1>1. N \in Nat \ {0} /\ x \in Int /\ \A j \in Nat : f(j) \in Int
  OBVIOUS
<1>2. 0 \in S
  <2>1. f(0) = 1 /\ 1 \in Int
    OBVIOUS
  <2> HIDE DEF x, f, N
  <2>2. Power(x, 0) = 1
    BY <1>1, PowerDef
  <2>3. Congruent(1, 1, N)
    BY <1>1, <2>1, CongruentEquivalence
  <2> QED
    BY <2>1, <2>2, <2>3
<1>3. ASSUME NEW j \in Nat, j \in S PROVE j + 1 \in S
  <2>1. x * f(j) = f(j + 1) + N * (j * (t * t))
    <3>1. j * t \in Int
      OBVIOUS
    <3> DEFINE u == j * t
    <3>2. (j + 1) * t = u + t /\ j * (t * t) = u * t
      OBVIOUS
    <3> HIDE DEF u
    <3>3. (1 + n * t) * (1 + n * u) = (1 + n * (u + t)) + (n * n) * (u * t)
      <4>1. u \in Int
        BY <3>1 DEF u
      <4> QED
        BY <4>1
    <3> QED
      BY <3>2, <3>3 DEF u
  <2>2. j * (t * t) \in Int /\ j + 1 \in Nat
    OBVIOUS
  <2> HIDE DEF x, f, N
  <2>3. Power(x, j + 1) = x * Power(x, j) /\ Power(x, j) \in Int
    BY <1>1, PowerDef
  <2>4. Congruent(Power(x, j), f(j), N)
    BY <1>3
  <2>5. Congruent(x * Power(x, j), x * f(j), N)
    BY <1>1, <2>3, <2>4, CongruentScale
  <2>6. f(j) \in Int /\ f(j + 1) \in Int /\ x * f(j) \in Int
    BY <1>1, <2>2
  <2>7. Congruent(x * f(j), f(j + 1), N)
    BY <1>1, <2>1, <2>2, <2>6, CongruentMultiple
  <2>8. Congruent(Power(x, j + 1), f(j + 1), N)
    BY <2>3, <2>5, <2>7, CongruentEquivalence
  <2> QED
    BY <2>2, <2>8
<1> HIDE DEF S
<1>4. k \in S
  BY <1>2, <1>3, Induction
<1> QED
  BY <1>4 DEF S

(* Fermat's theorem lifted to the square of a prime.                       *)
LEMMA FermatSquare ==
  ASSUME NEW p \in Nat, IsPrime(p), NEW a \in Nat, Coprime(a, p)
  PROVE  Congruent(Power(a, (p - 1) * p), 1, p * p)
<1> DEFINE b == Power(a, p - 1)
<1>1. p \in Nat \ {0} /\ p - 1 \in Nat /\ a \in Int
  BY DEF IsPrime
<1>2. b \in Int
  BY <1>1, PowerDef
<1>3. Congruent(b, 1, p)
  BY Fermat
<1>4. Power(b, p) = Power(a, (p - 1) * p)
  BY <1>1, PowerPower
<1> HIDE DEF b
<1>5. PICK t \in Int : b = 1 + p * t
  <2>1. 1 \in Int
    OBVIOUS
  <2> QED
    BY <1>1, <1>2, <1>3, <2>1, CongruentMultiple
<1>6. Congruent(Power(1 + p * t, p), 1 + p * (p * t), p * p)
  BY <1>1, BinomialPower
<1> DEFINE N == p * p
<1>7. 1 + p * (p * t) = 1 + N * t
  BY <1>1
<1>8. N \in Nat \ {0} /\ 1 + N * t \in Int /\ 1 \in Int
  BY <1>1
<1> HIDE DEF N
<1>9. Congruent(1 + N * t, 1, N)
  BY <1>8, CongruentMultiple
<1>10. Congruent(Power(b, p), 1 + N * t, N)
  BY <1>5, <1>6, <1>7 DEF N
<1> QED
  BY <1>4, <1>9, <1>10, CongruentEquivalence DEF N

(* Different primes have coprime squares.                                  *)
LEMMA PrimeSquares ==
  ASSUME NEW p \in Nat, IsPrime(p), NEW q \in Nat, IsPrime(q), p # q
  PROVE  Coprime(p * p, q * q)
<1>1. p \in Nat \ {0} /\ q \in Nat \ {0} /\ p > 1 /\ q > 1
  BY DEF IsPrime
<1>2. p % q # 0
  <2>1. CASE p < q
    BY <1>1, <2>1
  <2>2. CASE q < p
    <3>1. q \in 2..(p - 1)
      BY <1>1, <2>2
    <3> QED
      BY <3>1 DEF IsPrime
  <2> QED
    BY <1>1, <2>1, <2>2
<1>3. Coprime(p, q)
  BY <1>2, PrimeCoprime
<1>4. Coprime(p, q * q)
  BY <1>1, <1>3, CoprimeProduct
<1>5. q * q \in Nat /\ p * p \in Nat
  OBVIOUS
<1>6. Coprime(q * q, p)
  BY <1>4, <1>5, CoprimeSymmetric
<1>7. Coprime(q * q, p * p)
  BY <1>1, <1>5, <1>6, CoprimeProduct
<1> QED
  BY <1>5, <1>7, CoprimeSymmetric

----------------------------------------------------------------------------
(***************************************************************************)
(* Powers of two, and the digits of a number to base two.                  *)
(***************************************************************************)

(* The powers of two.                                                      *)
LEMMA TwoTo ==
  /\ two_to[0] = 1
  /\ \A k \in Nat : /\ two_to[k] \in Nat \ {0}
                    /\ two_to[k + 1] = 2 * two_to[k]
<1> DEFINE next == [k \in Nat |-> [v \in Nat |-> 2 * v]]
           body(f) == [k \in Nat |-> IF k = 0 THEN 1 ELSE 2 * f[k - 1]]
<1>1. PICK f : IsIteration(f, Nat, 1, next)
  <2>1. 1 \in Nat /\ next \in [Nat -> [Nat -> Nat]]
    OBVIOUS
  <2> HIDE DEF next
  <2> QED
    BY <2>1, Iteration
<1>2. f \in [Nat -> Nat] /\ f[0] = 1 /\ \A k \in Nat : f[k + 1] = 2 * f[k]
  BY <1>1 DEF IsIteration
<1>3. f = body(f)
  <2>1. ASSUME NEW k \in Nat PROVE f[k] = body(f)[k]
    <3>1. CASE k = 0
      BY <1>2, <3>1
    <3>2. CASE k # 0
      <4>1. k - 1 \in Nat /\ (k - 1) + 1 = k
        BY <3>2
      <4>2. f[(k - 1) + 1] = 2 * f[k - 1]
        BY <1>2, <4>1
      <4> QED
        BY <3>2, <4>1, <4>2
    <3> QED
      BY <3>1, <3>2
  <2> QED
    BY <1>2, <2>1
<1> DEFINE g == CHOOSE h : h = body(h)
<1>4. g = body(g)
  <2> HIDE DEF body
  <2> QED
    BY <1>3
<1>5. two_to = g
  BY DEF two_to
<1> HIDE DEF g
<1>6. \A k \in Nat : two_to[k] = IF k = 0 THEN 1 ELSE 2 * two_to[k - 1]
  BY <1>4, <1>5
<1> DEFINE S == {k \in Nat : two_to[k] \in Nat \ {0}}
<1>7. Nat \subseteq S
  <2>1. 0 \in S
    BY <1>6
  <2>2. ASSUME NEW k \in Nat, k \in S PROVE k + 1 \in S
    <3>1. k + 1 # 0 /\ (k + 1) - 1 = k /\ k + 1 \in Nat
      OBVIOUS
    <3>2. two_to[k + 1] = 2 * two_to[k]
      BY <1>6, <3>1
    <3> QED
      BY <2>2, <3>2
  <2> HIDE DEF S
  <2> QED
    BY <2>1, <2>2, Induction
<1> QED
  <2>1. ASSUME NEW k \in Nat PROVE two_to[k + 1] = 2 * two_to[k]
    <3>1. k + 1 # 0 /\ (k + 1) - 1 = k /\ k + 1 \in Nat
      OBVIOUS
    <3> QED
      BY <1>6, <3>1
  <2> QED
    BY <1>6, <1>7, <2>1

(* A quotient is known by its residue.                                     *)
LEMMA QuotientUnique ==
  ASSUME NEW m \in Nat \ {0}, NEW x \in Int, NEW b \in Int, NEW r \in 0..(m - 1),
         x = m * b + r
  PROVE  x \div m = b /\ x % m = r
<1> DEFINE d == x \div m  s == x % m
<1>1. x = m * d + s /\ d \in Int /\ s \in 0..(m - 1)
  BY DivMod
<1> HIDE DEF d, s
<1>2. m * (d - b) = r - s
  <2>1. m * (d - b) = m * d - m * b
    BY <1>1
  <2> DEFINE u == m * d  v == m * b
  <2>2. u \in Int /\ v \in Int /\ x = u + s /\ x = v + r
    BY <1>1
  <2> HIDE DEF u, v
  <2>3. u - v = r - s
    BY <1>1, <2>2
  <2> QED
    BY <2>1, <2>3 DEF u, v
<1>3. d - b = 0
  <2>1. d - b \in Int /\ -m < m * (d - b) /\ m * (d - b) < m
    BY <1>1, <1>2
  <2> QED
    BY <2>1, SmallMultiple
<1>4. d = b
  BY <1>1, <1>3
<1>5. m * (d - b) = 0
  BY <1>3
<1>6. r = s
  BY <1>1, <1>2, <1>5
<1> QED
  BY <1>4, <1>6 DEF d, s

(* The digits of a number to base two: dropping one bit more.              *)
LEMMA HalfQuotient ==
  ASSUME NEW T \in Nat \ {0}, NEW x \in Int
  PROVE  /\ x \div (2 * T) \in Int
         /\ x \div T = 2 * (x \div (2 * T)) + ((x \div T) % 2)
         /\ (x \div T) % 2 \in {0, 1}
<1> DEFINE a == x \div T  r == x % T  b == a \div 2  c == a % 2
<1>1. x = T * a + r /\ a \in Int /\ r \in 0..(T - 1)
  BY DivMod
<1> HIDE DEF a, r
<1>2. a = 2 * b + c /\ b \in Int /\ c \in 0..1
  BY <1>1
<1> HIDE DEF b, c
<1>3. x = (2 * T) * b + (T * c + r)
  <2>1. T * a = T * (2 * b) + T * c
    BY <1>1, <1>2
  <2>2. T * (2 * b) = (2 * T) * b
    BY <1>2
  <2>3. T * c \in Int /\ (2 * T) * b \in Int
    BY <1>2
  <2> QED
    BY <1>1, <2>1, <2>2, <2>3
<1>4. T * c + r \in 0..((2 * T) - 1)
  <2>1. T * c = IF c = 0 THEN 0 ELSE T
    BY <1>2
  <2> QED
    BY <1>1, <1>2, <2>1
<1> DEFINE m == 2 * T  s == T * c + r
<1>5. m \in Nat \ {0} /\ s \in 0..(m - 1) /\ x = m * b + s
  BY <1>3, <1>4
<1> HIDE DEF m, s
<1>6. x \div m = b
  BY <1>2, <1>5, QuotientUnique
<1> QED
  BY <1>2, <1>6 DEF a, b, c, m

LEMMA CoprimeOne ==
  ASSUME NEW m \in Nat
  PROVE  Coprime(1, m)
<1>1. \E x, y \in Int : x * 1 + y * m = 1
  <2>1. 1 * 1 + 0 * m = 1 /\ 1 \in Int /\ 0 \in Int
    OBVIOUS
  <2> QED
    BY <2>1
<1>2. 1 \in Nat
  OBVIOUS
<1> QED
  BY <1>1, <1>2, CoprimeBezout

LEMMA PowerNatural ==
  ASSUME NEW x \in Nat
  PROVE  \A j \in Nat : Power(x, j) \in Nat
<1> DEFINE S == {j \in Nat : Power(x, j) \in Nat}
<1>1. x \in Int
  OBVIOUS
<1>2. Power(x, 0) = 1 /\ \A j \in Nat : Power(x, j + 1) = x * Power(x, j)
  BY <1>1, PowerDef
<1>3. 0 \in S
  BY <1>2
<1>4. ASSUME NEW j \in Nat, j \in S PROVE j + 1 \in S
  <2>1. Power(x, j) \in Nat /\ Power(x, j + 1) = x * Power(x, j)
    BY <1>2, <1>4
  <2>2. Power(x, j + 1) \in Nat
    BY <2>1
  <2> QED
    BY <2>2
<1> HIDE DEF S
<1>5. Nat \subseteq S
  BY <1>3, <1>4, Induction
<1> QED
  BY <1>5 DEF S

(* A power is a unit when its base is, and only then.                      *)
LEMMA UnitPower ==
  ASSUME NEW n \in Nat \ {0}, NEW x \in Nat
  PROVE  /\ Coprime(x, n) => \A j \in Nat : Coprime(Power(x, j), n)
         /\ \A j \in Nat \ {0} : Coprime(Power(x, j), n) => Coprime(x, n)
<1>1. x \in Int
  OBVIOUS
<1>2. Power(x, 0) = 1 /\ \A j \in Nat : Power(x, j + 1) = x * Power(x, j)
  BY <1>1, PowerDef
<1>3. \A j \in Nat : Power(x, j) \in Nat
  BY PowerNatural
<1>4. \A j \in Nat : Coprime(Power(x, j + 1), n)
                       <=> Coprime(x, n) /\ Coprime(Power(x, j), n)
  <2> SUFFICES ASSUME NEW j \in Nat
               PROVE  Coprime(Power(x, j + 1), n)
                       <=> Coprime(x, n) /\ Coprime(Power(x, j), n)
    OBVIOUS
  <2>1. Power(x, j) \in Nat
    BY <1>3
  <2>2. Coprime(x * Power(x, j), n) <=> Coprime(x, n) /\ Coprime(Power(x, j), n)
    BY <2>1, CoprimeMul
  <2> QED
    BY <1>2, <2>2
<1>5. ASSUME Coprime(x, n) PROVE \A j \in Nat : Coprime(Power(x, j), n)
  <2> DEFINE S == {j \in Nat : Coprime(Power(x, j), n)}
  <2>1. 0 \in S
    BY <1>2, CoprimeOne
  <2>2. ASSUME NEW j \in Nat, j \in S PROVE j + 1 \in S
    <3>1. Coprime(Power(x, j + 1), n)
      BY <1>4, <1>5, <2>2
    <3> QED
      BY <3>1
  <2> HIDE DEF S
  <2>3. Nat \subseteq S
    BY <2>1, <2>2, Induction
  <2> QED
    BY <2>3 DEF S
<1>6. ASSUME NEW j \in Nat \ {0}, Coprime(Power(x, j), n) PROVE Coprime(x, n)
  <2>1. j - 1 \in Nat /\ (j - 1) + 1 = j
    OBVIOUS
  <2>2. Coprime(Power(x, (j - 1) + 1), n)
    BY <1>6, <2>1
  <2> QED
    BY <1>4, <2>1, <2>2
<1> QED
  BY <1>5, <1>6

(* The residue of a number is a unit when the number is.                   *)
LEMMA UnitResidue ==
  ASSUME NEW n \in Nat \ {0}, NEW x \in Nat, Coprime(x % n, n)
  PROVE  Coprime(x, n)
<1>1. x \in Int
  OBVIOUS
<1> DEFINE r == x % n
<1>2. r \in 0..(n - 1) /\ Congruent(r, x, n)
  BY <1>1, CongruentResidue
<1>3. Coprime(r, n)
  OBVIOUS
<1> HIDE DEF r
<1>4. r \in Nat
  BY <1>2
<1> QED
  BY <1>2, <1>3, <1>4, CoprimeCongruent

(* The operations of the schemes stay among the units: products, products  *)
(* with an inverse, powers.                                                *)
LEMMA UnitProduct ==
  ASSUME NEW n \in Nat \ {0}, NEW c \in Nat, Coprime(c, n), NEW d \in Nat, Coprime(d, n)
  PROVE  /\ mod_mul(c, d, n) \in Nat /\ Coprime(mod_mul(c, d, n), n)
         /\ Congruent(mod_mul(c, d, n), c * d, n)
<1> DEFINE w == c * d  e == w % n
<1>1. w \in Nat /\ w \in Int /\ c \in Int /\ d \in Int
  OBVIOUS
<1>2. mod_mul(c, d, n) = e
  BY <1>1, ModMulIsProduct
<1>3. Coprime(w, n)
  BY CoprimeMul
<1> HIDE DEF w
<1>4. e \in 0..(n - 1) /\ Congruent(e, w, n)
  BY <1>1, CongruentResidue
<1>5. e \in Nat
  BY <1>4
<1>6. Coprime(e, n)
  BY <1>1, <1>3, <1>4, <1>5, CoprimeCongruent
<1> QED
  BY <1>2, <1>4, <1>5, <1>6 DEF w

LEMMA UnitQuotient ==
  ASSUME NEW n \in Nat \ {0}, NEW d \in Nat, Coprime(d, n)
  PROVE  /\ mod_inverse(d, n) \in Nat /\ Coprime(mod_inverse(d, n), n)
         /\ Congruent(d * mod_inverse(d, n), 1, n)
<1> DEFINE i == mod_inverse(d, n)
<1>1. i \in 0..(n - 1) /\ Congruent(d * i, 1, n)
  BY ModInverse
<1> HIDE DEF i
<1>2. i \in Nat /\ d * i \in Nat /\ 1 \in Nat /\ n \in Nat
  BY <1>1
<1>3. Coprime(d * i, n)
  BY <1>1, <1>2, CoprimeOne, CoprimeCongruent
<1>4. Coprime(i, n)
  BY <1>2, <1>3, CoprimeMul
<1> QED
  BY <1>1, <1>2, <1>4 DEF i

LEMMA UnitExponent ==
  ASSUME NEW n \in Nat \ {0}, NEW c \in Nat, Coprime(c, n), NEW k \in Nat
  PROVE  /\ mod_exp(c, k, n) \in Nat /\ Coprime(mod_exp(c, k, n), n)
         /\ Congruent(mod_exp(c, k, n), Power(c, k), n)
<1> DEFINE w == Power(c, k)  e == w % n
<1>0. \A j \in Nat : Power(c, j) \in Nat
  BY PowerNatural
<1>1. w \in Nat /\ c \in Int
  BY <1>0
<1>2. mod_exp(c, k, n) = e
  BY <1>1, ModExp
<1>3. Coprime(w, n)
  BY UnitPower
<1> HIDE DEF w
<1>4. w \in Int
  BY <1>1
<1>5. e \in 0..(n - 1) /\ Congruent(e, w, n)
  BY <1>4, CongruentResidue
<1>6. e \in Nat
  BY <1>5
<1>7. Coprime(e, n)
  BY <1>1, <1>3, <1>5, <1>6, CoprimeCongruent
<1> QED
  BY <1>2, <1>5, <1>6, <1>7 DEF w

----------------------------------------------------------------------------
(***************************************************************************)
(* Sums over finite sets, and exchanging the order of two of them.         *)
(***************************************************************************)

(* Induction on the subsets of a finite set.                               *)
LEMMA SetInduction ==
  ASSUME NEW S, IsFiniteSet(S), NEW X, {} \in X,
         \A T \in SUBSET S : \A x \in S : T \in X /\ x \notin T => T \cup {x} \in X
  PROVE  S \in X
<1> DEFINE C == {n \in Nat : \A T \in SUBSET S : Cardinality(T) = n => T \in X}
<1>1. \A T \in SUBSET S : IsFiniteSet(T) /\ Cardinality(T) \in Nat
  BY FS_Subset, FS_CardinalityType
<1>2. 0 \in C
  BY <1>1, FS_EmptySet
<1>3. ASSUME NEW n \in Nat, n \in C PROVE n + 1 \in C
  <2> SUFFICES ASSUME NEW T \in SUBSET S, Cardinality(T) = n + 1
               PROVE  T \in X
    OBVIOUS
  <2>1. T # {}
    BY FS_EmptySet
  <2>2. PICK x \in T : TRUE
    BY <2>1
  <2>3. Cardinality(T \ {x}) = n
    <3>1. IsFiniteSet(T)
      BY <1>1
    <3>2. Cardinality(T \ {x}) = Cardinality(T) - 1
      BY <3>1, <2>2, FS_RemoveElement
    <3> QED
      BY <3>2
  <2>4. T \ {x} \in X /\ x \notin T \ {x} /\ x \in S /\ T \ {x} \in SUBSET S
    BY <1>3, <2>3
  <2>5. (T \ {x}) \cup {x} = T
    OBVIOUS
  <2> QED
    BY <2>4, <2>5
<1> HIDE DEF C
<1>4. Nat \subseteq C
  BY <1>2, <1>3, Induction
<1>5. Cardinality(S) \in C
  BY <1>1, <1>4
<1> QED
  BY <1>5 DEF C

PickOf(s) == CHOOSE x \in s : TRUE

(* g is the fold that the sum over the subsets of S is defined by.         *)
IsSum(g, f, S) ==
  g = [s \in SUBSET S |-> IF s = {} THEN 0
                          ELSE f[PickOf(s)] + g[s \ {PickOf(s)}]]

Sum(f, S) == SumFunctionOnSet(f, S)

(* The sum of the community module is the value at S of a function that    *)
(* adds one element after the other.                                       *)
LEMMA SumIsChosen ==
  ASSUME NEW f, NEW S
  PROVE  Sum(f, S) = (CHOOSE g : IsSum(g, f, S))[S]
BY DEF Sum, SumFunctionOnSet, FoldFunctionOnSet, MapThenFoldSet, IsSum, PickOf

(* Such a fold exists, and has integer values.                             *)
LEMMA SumExists ==
  ASSUME NEW S, IsFiniteSet(S), NEW f, \A x \in S : f[x] \in Int
  PROVE  \E g \in [SUBSET S -> Int] : IsSum(g, f, S)
<1> DEFINE X == [SUBSET S -> Int]
           x0 == [s \in SUBSET S |-> 0]
           turn(g) == [s \in SUBSET S |-> IF s = {} THEN 0
                                ELSE f[PickOf(s)] + g[s \ {PickOf(s)}]]
           next == [k \in Nat |-> [g \in X |-> turn(g)]]
<1>1. \A s \in SUBSET S : s # {} => PickOf(s) \in s
  BY DEF PickOf
<1>2. ASSUME NEW g \in X PROVE turn(g) \in X
  <2>1. ASSUME NEW s \in SUBSET S, s # {}
        PROVE  f[PickOf(s)] + g[s \ {PickOf(s)}] \in Int
    <3> DEFINE x == PickOf(s)
    <3>1. x \in S
      BY <1>1, <2>1
    <3> HIDE DEF x
    <3>2. f[x] \in Int /\ g[s \ {x}] \in Int
      BY <3>1
    <3> QED
      BY <3>2 DEF x
  <2>2. \A s \in SUBSET S : (IF s = {} THEN 0 ELSE f[PickOf(s)] + g[s \ {PickOf(s)}]) \in Int
    BY <2>1
  <2> QED
    BY <2>2
<1>3. x0 \in X /\ next \in [Nat -> [X -> X]]
  <2>1. x0 \in X
    OBVIOUS
  <2> HIDE DEF X, turn
  <2> QED
    BY <2>1, <1>2
<1> HIDE DEF x0
<1>4. PICK G : IsIteration(G, X, x0, next)
  <2> HIDE DEF X, next
  <2> QED
    BY <1>3, Iteration
<1>5. G \in [Nat -> X] /\ \A k \in Nat : G[k + 1] = turn(G[k])
  <2>1. G \in [Nat -> X] /\ \A k \in Nat : G[k + 1] = next[k][G[k]]
    <3> HIDE DEF X, next
    <3> QED
      BY <1>4 DEF IsIteration
  <2>2. \A k \in Nat : G[k] \in X
    BY <2>1
  <2> QED
    BY <2>1, <2>2
<1> HIDE DEF X, turn, next
<1>6. \A s \in SUBSET S : IsFiniteSet(s) /\ Cardinality(s) \in Nat
  BY FS_Subset, FS_CardinalityType
<1> DEFINE C == {n \in Nat : \A s \in SUBSET S : Cardinality(s) <= n => G[n + 1][s] = G[n][s]}
<1>7. 0 \in C
  <2> SUFFICES ASSUME NEW s \in SUBSET S, Cardinality(s) <= 0
               PROVE  G[1][s] = G[0][s]
    OBVIOUS
  <2>1. s = {}
    BY <1>6, FS_EmptySet
  <2>2. G[0] = x0 /\ G[1] = turn(G[0])
    <3>1. G[0] = x0
      BY <1>4 DEF IsIteration
    <3>2. G[0 + 1] = turn(G[0])
      BY <1>5
    <3> QED
      BY <3>1, <3>2
  <2>3. turn(G[0])[s] = 0 /\ x0[s] = 0
    BY <2>1 DEF turn, x0
  <2> QED
    BY <2>2, <2>3
<1>8. ASSUME NEW n \in Nat, n \in C PROVE n + 1 \in C
  <2> SUFFICES ASSUME NEW s \in SUBSET S, Cardinality(s) <= n + 1
               PROVE  G[(n + 1) + 1][s] = G[n + 1][s]
    OBVIOUS
  <2>1. G[(n + 1) + 1] = turn(G[n + 1]) /\ G[n + 1] = turn(G[n])
    BY <1>5
  <2>2. CASE s = {}
    BY <2>1, <2>2 DEF turn
  <2>3. CASE s # {}
    <3> DEFINE x == PickOf(s)
    <3>1. x \in s
      BY <1>1, <2>3
    <3> HIDE DEF x
    <3>2. Cardinality(s \ {x}) = Cardinality(s) - 1 /\ Cardinality(s) \in Nat
      BY <1>6, <3>1, FS_RemoveElement
    <3>3. s \ {x} \in SUBSET S /\ Cardinality(s \ {x}) <= n
      BY <3>2
    <3>4. G[n + 1][s \ {x}] = G[n][s \ {x}]
      BY <1>8, <3>3
    <3>5. /\ turn(G[n + 1])[s] = f[x] + G[n + 1][s \ {x}]
          /\ turn(G[n])[s] = f[x] + G[n][s \ {x}]
      BY <2>3 DEF turn, x
    <3> QED
      BY <2>1, <3>4, <3>5
  <2> QED
    BY <2>2, <2>3
<1> HIDE DEF C
<1>9. Nat \subseteq C
  BY <1>7, <1>8, Induction
<1> DEFINE n == Cardinality(S)
<1>10. n \in Nat /\ \A s \in SUBSET S : Cardinality(s) <= n
  BY <1>6, FS_Subset
<1> HIDE DEF n
<1>11. \A s \in SUBSET S : G[n + 1][s] = G[n][s]
  BY <1>9, <1>10 DEF C
<1>12. G[n] \in X /\ G[n + 1] = turn(G[n])
  BY <1>5, <1>10
<1>13. G[n] = [s \in SUBSET S |-> turn(G[n])[s]]
  BY <1>11, <1>12 DEF X
<1>14. turn(G[n]) = [s \in SUBSET S |-> turn(G[n])[s]]
  BY DEF turn
<1>15. G[n] = turn(G[n])
  BY <1>13, <1>14
<1> QED
  BY <1>12, <1>15 DEF turn, IsSum, X

(* Folds agree on the subsets they have in common.                         *)
LEMMA SumUnique ==
  ASSUME NEW S, NEW T, T \subseteq S, IsFiniteSet(T), NEW f, NEW g, NEW h,
         IsSum(g, f, S), IsSum(h, f, T)
  PROVE  \A s \in SUBSET T : g[s] = h[s]
<1> SUFFICES ASSUME NEW s0 \in SUBSET T PROVE g[s0] = h[s0]
  OBVIOUS
<1>1. IsFiniteSet(s0) /\ Cardinality(s0) \in Nat
  BY FS_Subset, FS_CardinalityType
<1>2. \A s \in SUBSET S : g[s] = IF s = {} THEN 0
                          ELSE f[PickOf(s)] + g[s \ {PickOf(s)}]
  BY DEF IsSum
<1>3. \A s \in SUBSET T : h[s] = IF s = {} THEN 0
                          ELSE f[PickOf(s)] + h[s \ {PickOf(s)}]
  BY DEF IsSum
<1> DEFINE C == {n \in Nat : \A s \in SUBSET T : Cardinality(s) = n => g[s] = h[s]}
<1>6. \A s \in SUBSET T : IsFiniteSet(s) /\ Cardinality(s) \in Nat
  BY FS_Subset, FS_CardinalityType
<1>4. 0 \in C
  <2>1. \A s \in SUBSET T : Cardinality(s) = 0 => s = {}
    BY <1>6, FS_EmptySet
  <2> QED
    BY <2>1, <1>2, <1>3
<1>5. ASSUME NEW n \in Nat, n \in C PROVE n + 1 \in C
  <2> SUFFICES ASSUME NEW s \in SUBSET T, Cardinality(s) = n + 1
               PROVE  g[s] = h[s]
    OBVIOUS
  <2>1. s # {}
    BY FS_EmptySet
  <2> DEFINE x == PickOf(s)
  <2>2. x \in s
    BY <2>1 DEF PickOf
  <2>3. g[s] = f[x] + g[s \ {x}] /\ h[s] = f[x] + h[s \ {x}]
    BY <2>1, <1>2, <1>3
  <2> HIDE DEF x
  <2>4. IsFiniteSet(s)
    BY <1>6
  <2>5. Cardinality(s \ {x}) = Cardinality(s) - 1
    BY <2>4, <2>2, FS_RemoveElement
  <2>6. s \ {x} \in SUBSET T /\ Cardinality(s \ {x}) = n
    BY <2>5
  <2> QED
    BY <1>5, <2>3, <2>6
<1> HIDE DEF C
<1>7. Nat \subseteq C
  BY <1>4, <1>5, Induction
<1> QED
  BY <1>1, <1>7 DEF C

(* The sum over a set is an integer and loses a term with the element that *)
(* the fold takes first.                                                   *)
LEMMA SumStep ==
  ASSUME NEW S, IsFiniteSet(S), NEW f, \A x \in S : f[x] \in Int
  PROVE  /\ Sum(f, S) \in Int
         /\ Sum(f, {}) = 0
         /\ S # {} => Sum(f, S) = f[PickOf(S)] + Sum(f, S \ {PickOf(S)})
<1> DEFINE chosen(T) == CHOOSE g : IsSum(g, f, T)
<1>1. ASSUME NEW T \in SUBSET S
      PROVE  /\ IsSum(chosen(T), f, T)
             /\ Sum(f, T) = chosen(T)[T]
             /\ \E g \in [SUBSET T -> Int] : IsSum(g, f, T) /\ chosen(T)[T] = g[T]
  <2>1. IsFiniteSet(T)
    BY FS_Subset
  <2>2. PICK g \in [SUBSET T -> Int] : IsSum(g, f, T)
    BY <2>1, SumExists
  <2>3. IsSum(chosen(T), f, T)
    BY <2>2
  <2>4. chosen(T)[T] = g[T]
    <3> HIDE DEF chosen
    <3> QED
      BY <2>1, <2>2, <2>3, SumUnique
  <2>5. Sum(f, T) = chosen(T)[T]
    BY SumIsChosen
  <2> QED
    BY <2>2, <2>3, <2>4, <2>5
<1> HIDE DEF chosen
<1>2. Sum(f, S) \in Int
  <2>1. S \in SUBSET S
    OBVIOUS
  <2>2. PICK g \in [SUBSET S -> Int] : chosen(S)[S] = g[S]
    BY <1>1, <2>1
  <2>3. g[S] \in Int
    BY <2>1
  <2> QED
    BY <1>1, <2>1, <2>2, <2>3
<1>3. {} \in SUBSET S
  OBVIOUS
<1>4. chosen({})[{}] = 0
  BY <1>1, <1>3 DEF IsSum
<1>5. Sum(f, {}) = 0
  BY <1>1, <1>3, <1>4
<1>6. ASSUME S # {} PROVE Sum(f, S) = f[PickOf(S)] + Sum(f, S \ {PickOf(S)})
  <2> DEFINE x == PickOf(S)  T == S \ {x}
  <2>0. S \in SUBSET S /\ IsSum(chosen(S), f, S) /\ Sum(f, S) = chosen(S)[S]
    BY <1>1
  <2>1. Sum(f, S) = f[x] + chosen(S)[T]
    <3> DEFINE h == chosen(S)
    <3>1. IsSum(h, f, S)
      BY <2>0
    <3> HIDE DEF h
    <3>2. h[S] = f[x] + h[T]
      BY <3>1, <1>6, <2>0 DEF IsSum
    <3> QED
      BY <3>2, <2>0 DEF h
  <2> HIDE DEF x
  <2>2. T \in SUBSET S /\ S \in SUBSET S /\ IsFiniteSet(T) /\ T \in SUBSET T
    BY FS_RemoveElement
  <2>3. IsSum(chosen(S), f, S) /\ IsSum(chosen(T), f, T) /\ Sum(f, T) = chosen(T)[T]
    BY <2>2, <1>1
  <2> HIDE DEF T
  <2>4. chosen(S)[T] = chosen(T)[T]
    BY <2>2, <2>3, SumUnique
  <2> QED
    BY <2>1, <2>3, <2>4 DEF T, x
<1> QED
  BY <1>2, <1>5, <1>6

(* Any element may be taken first.                                         *)
LEMMA SumRemove ==
  ASSUME NEW S, IsFiniteSet(S), NEW f, \A y \in S : f[y] \in Int, NEW x \in S
  PROVE  Sum(f, S) = f[x] + Sum(f, S \ {x})
<1> DEFINE Any(T) == \A z \in T : Sum(f, T) = f[z] + Sum(f, T \ {z})
           C == {n \in Nat : \A T \in SUBSET S : Cardinality(T) = n => Any(T)}
<1>1. \A T \in SUBSET S : IsFiniteSet(T) /\ Cardinality(T) \in Nat
  BY FS_Subset, FS_CardinalityType
<1>2. ASSUME NEW T \in SUBSET S
      PROVE  /\ Sum(f, T) \in Int
             /\ T # {} => PickOf(T) \in T /\ Sum(f, T) = f[PickOf(T)] + Sum(f, T \ {PickOf(T)})
  <2>1. IsFiniteSet(T) /\ \A y \in T : f[y] \in Int
    BY <1>1
  <2> QED
    BY <2>1, SumStep DEF PickOf
<1>3. 0 \in C
  <2>1. \A T \in SUBSET S : Cardinality(T) = 0 => T = {}
    BY <1>1, FS_EmptySet
  <2> QED
    BY <2>1
<1>4. ASSUME NEW n \in Nat, n \in C PROVE n + 1 \in C
  <2> SUFFICES ASSUME NEW T \in SUBSET S, Cardinality(T) = n + 1, NEW z \in T
               PROVE  Sum(f, T) = f[z] + Sum(f, T \ {z})
    OBVIOUS
  <2> DEFINE y == PickOf(T)
  <2>1. y \in T /\ Sum(f, T) = f[y] + Sum(f, T \ {y})
    BY <1>2
  <2> HIDE DEF y
  <2>2. CASE y = z
    BY <2>1, <2>2
  <2>3. CASE y # z
    <3>1. IsFiniteSet(T)
      BY <1>1
    <3>2. Cardinality(T \ {y}) = n /\ Cardinality(T \ {z}) = n
      <4>1. /\ Cardinality(T \ {y}) = Cardinality(T) - 1
            /\ Cardinality(T \ {z}) = Cardinality(T) - 1
        BY <3>1, <2>1, FS_RemoveElement
      <4> QED
        BY <4>1
    <3>3. Any(T \ {y}) /\ Any(T \ {z})
      BY <3>2, <1>4
    <3>4. z \in T \ {y} /\ y \in T \ {z}
      BY <2>1, <2>3
    <3>5. /\ Sum(f, T \ {y}) = f[z] + Sum(f, (T \ {y}) \ {z})
          /\ Sum(f, T \ {z}) = f[y] + Sum(f, (T \ {z}) \ {y})
      BY <3>3, <3>4
    <3>6. (T \ {y}) \ {z} = (T \ {z}) \ {y}
      OBVIOUS
    <3> DEFINE rest == Sum(f, (T \ {z}) \ {y})
    <3>7. rest \in Int /\ f[y] \in Int /\ f[z] \in Int
      BY <1>2, <2>1
    <3>8. Sum(f, T) = f[y] + (f[z] + rest) /\ Sum(f, T \ {z}) = f[y] + rest
      BY <2>1, <3>5, <3>6
    <3> HIDE DEF rest
    <3> QED
      BY <3>7, <3>8
  <2> QED
    BY <2>2, <2>3
<1> HIDE DEF C
<1>5. Nat \subseteq C
  BY <1>3, <1>4, Induction
<1>6. Cardinality(S) \in C
  BY <1>1, <1>5
<1> QED
  BY <1>6 DEF C

(* A sum over a set with one more element.                                 *)
LEMMA SumAdd ==
  ASSUME NEW S, IsFiniteSet(S), NEW x, x \notin S, NEW f, \A y \in S \cup {x} : f[y] \in Int
  PROVE  Sum(f, S \cup {x}) = f[x] + Sum(f, S)
<1>1. IsFiniteSet(S \cup {x}) /\ (S \cup {x}) \ {x} = S /\ x \in S \cup {x}
  BY FS_AddElement
<1>2. Sum(f, S \cup {x}) = f[x] + Sum(f, (S \cup {x}) \ {x})
  BY <1>1, SumRemove
<1> QED
  BY <1>1, <1>2

(* A sum of two functions, and of a multiple.                              *)
LEMMA SumLinear ==
  ASSUME NEW S, IsFiniteSet(S), NEW f, NEW g, NEW h, NEW b \in Int, NEW c \in Int,
         \A x \in S : f[x] \in Int /\ g[x] \in Int /\ h[x] = b * f[x] + c * g[x]
  PROVE  Sum(h, S) = b * Sum(f, S) + c * Sum(g, S)
<1> DEFINE X == {T \in SUBSET S : Sum(h, T) = b * Sum(f, T) + c * Sum(g, T)}
<1>0. \A x \in S : h[x] \in Int
  OBVIOUS
<1>1. {} \in X
  <2>1. Sum(f, {}) = 0 /\ Sum(g, {}) = 0 /\ Sum(h, {}) = 0
    BY <1>0, SumStep
  <2> QED
    BY <2>1
<1>2. ASSUME NEW T \in SUBSET S, NEW x \in S, T \in X, x \notin T
      PROVE  T \cup {x} \in X
  <2>1. IsFiniteSet(T)
    BY FS_Subset
  <2>2. /\ \A y \in T \cup {x} : f[y] \in Int
        /\ \A y \in T \cup {x} : g[y] \in Int
        /\ \A y \in T \cup {x} : h[y] \in Int
    BY <1>0
  <2>3. /\ Sum(f, T \cup {x}) = f[x] + Sum(f, T)
        /\ Sum(g, T \cup {x}) = g[x] + Sum(g, T)
        /\ Sum(h, T \cup {x}) = h[x] + Sum(h, T)
    BY <2>1, <2>2, <1>2, SumAdd
  <2> DEFINE sf == Sum(f, T)  sg == Sum(g, T)  fx == f[x]  gx == g[x]
  <2>4. sf \in Int /\ sg \in Int /\ fx \in Int /\ gx \in Int
    BY <2>1, <2>2, SumStep
  <2>5. h[x] = b * fx + c * gx /\ Sum(h, T) = b * sf + c * sg
    BY <1>2
  <2> HIDE DEF sf, sg, fx, gx
  <2>6. (b * fx + c * gx) + (b * sf + c * sg) = b * (fx + sf) + c * (gx + sg)
    BY <2>4
  <2>7. Sum(h, T \cup {x}) = b * Sum(f, T \cup {x}) + c * Sum(g, T \cup {x})
    BY <2>3, <2>5, <2>6 DEF sf, sg, fx, gx
  <2> QED
    BY <2>7
<1> HIDE DEF X
<1>3. S \in X
  BY <1>1, <1>2, SetInduction
<1> QED
  BY <1>3 DEF X

(* Functions that agree on a set have the same sum there.                  *)
LEMMA SumEqual ==
  ASSUME NEW S, IsFiniteSet(S), NEW f, NEW g, \A x \in S : f[x] \in Int /\ f[x] = g[x]
  PROVE  Sum(f, S) = Sum(g, S)
<1> DEFINE X == {T \in SUBSET S : Sum(f, T) = Sum(g, T)}
<1>1. {} \in X
  <2>1. Sum(f, {}) = 0 /\ Sum(g, {}) = 0
    BY SumStep
  <2> QED
    BY <2>1
<1>2. ASSUME NEW T \in SUBSET S, NEW x \in S, T \in X, x \notin T
      PROVE  T \cup {x} \in X
  <2>1. IsFiniteSet(T)
    BY FS_Subset
  <2>2. /\ \A y \in T \cup {x} : f[y] \in Int
        /\ \A y \in T \cup {x} : g[y] \in Int
    OBVIOUS
  <2>3. /\ Sum(f, T \cup {x}) = f[x] + Sum(f, T)
        /\ Sum(g, T \cup {x}) = g[x] + Sum(g, T)
    BY <2>1, <2>2, <1>2, SumAdd
  <2> QED
    BY <2>3, <1>2
<1> HIDE DEF X
<1>3. S \in X
  BY <1>1, <1>2, SetInduction
<1> QED
  BY <1>3 DEF X

(* All terms zero but one.                                                 *)
LEMMA SumOfZeros ==
  ASSUME NEW S, IsFiniteSet(S), NEW f, \A x \in S : f[x] = 0
  PROVE  Sum(f, S) = 0
<1> DEFINE X == {T \in SUBSET S : Sum(f, T) = 0}
<1>1. {} \in X
  <2>1. \A x \in S : f[x] \in Int
    OBVIOUS
  <2>2. Sum(f, {}) = 0
    BY <2>1, SumStep
  <2> QED
    BY <2>2
<1>2. ASSUME NEW T \in SUBSET S, NEW x \in S, T \in X, x \notin T
      PROVE  T \cup {x} \in X
  <2>1. IsFiniteSet(T)
    BY FS_Subset
  <2>2. \A y \in T \cup {x} : f[y] \in Int
    OBVIOUS
  <2>3. Sum(f, T \cup {x}) = f[x] + Sum(f, T)
    BY <2>1, <2>2, <1>2, SumAdd
  <2> QED
    BY <2>3, <1>2
<1> HIDE DEF X
<1>3. S \in X
  BY <1>1, <1>2, SetInduction
<1> QED
  BY <1>3 DEF X

(* A sum with one term that is not zero.                                   *)
LEMMA SumSingle ==
  ASSUME NEW S, IsFiniteSet(S), NEW f, NEW z \in S, f[z] \in Int,
         \A x \in S \ {z} : f[x] = 0
  PROVE  Sum(f, S) = f[z]
<1>1. IsFiniteSet(S \ {z}) /\ \A y \in S : f[y] \in Int
  BY FS_RemoveElement
<1>2. Sum(f, S) = f[z] + Sum(f, S \ {z})
  BY <1>1, SumRemove
<1>3. Sum(f, S \ {z}) = 0
  BY <1>1, SumOfZeros
<1> QED
  BY <1>2, <1>3

(* The terms in another order.                                             *)
LEMMA SumReindex ==
  ASSUME NEW S, IsFiniteSet(S), NEW T, NEW to \in [S -> T],
         \A x, y \in S : to[x] = to[y] => x = y,
         \A y \in T : \E x \in S : to[x] = y,
         NEW f, \A y \in T : f[y] \in Int
  PROVE  Sum([x \in S |-> f[to[x]]], S) = Sum(f, T)
<1> DEFINE g == [x \in S |-> f[to[x]]]
           Image(U) == {to[x] : x \in U}
           X == {U \in SUBSET S : IsFiniteSet(Image(U)) /\ Sum(g, U) = Sum(f, Image(U))}
<1>0. \A x \in S : g[x] = f[to[x]] /\ g[x] \in Int
  OBVIOUS
<1> HIDE DEF g
<1>1. {} \in X
  <2>1. Image({}) = {} /\ IsFiniteSet({})
    BY FS_EmptySet
  <2>2. Sum(f, {}) = 0 /\ Sum(g, {}) = 0
    BY FS_EmptySet, SumStep
  <2> QED
    BY <2>1, <2>2
<1>2. ASSUME NEW U \in SUBSET S, NEW x \in S, U \in X, x \notin U
      PROVE  U \cup {x} \in X
  <2>1. IsFiniteSet(U) /\ IsFiniteSet(Image(U))
    BY <1>2, FS_Subset
  <2>2. Image(U \cup {x}) = Image(U) \cup {to[x]} /\ to[x] \notin Image(U)
    BY <1>2
  <2>3. \A y \in Image(U) \cup {to[x]} : f[y] \in Int
    OBVIOUS
  <2>4. Sum(g, U) = Sum(f, Image(U))
    BY <1>2
  <2> HIDE DEF Image
  <2>5. Sum(f, Image(U) \cup {to[x]}) = f[to[x]] + Sum(f, Image(U))
    BY <2>1, <2>2, <2>3, SumAdd
  <2>6. Sum(g, U \cup {x}) = g[x] + Sum(g, U)
    BY <2>1, <1>0, <1>2, SumAdd
  <2>7. IsFiniteSet(Image(U) \cup {to[x]})
    BY <2>1, FS_AddElement
  <2> QED
    BY <2>2, <2>4, <2>5, <2>6, <2>7, <1>0
<1>3. Image(S) = T
  OBVIOUS
<1> HIDE DEF X, Image
<1>4. S \in X
  BY <1>1, <1>2, SetInduction
<1> QED
  BY <1>3, <1>4 DEF X, g

(* The order of two sums.                                                  *)
LEMMA SumExchange ==
  ASSUME NEW S, IsFiniteSet(S), NEW T, IsFiniteSet(T), NEW F \in [S -> [T -> Int]]
  PROVE  Sum([x \in S |-> Sum(F[x], T)], S)
           = Sum([y \in T |-> Sum([x \in S |-> F[x][y]], S)], T)
<1> DEFINE row == [x \in S |-> Sum(F[x], T)]
           col(y) == [x \in S |-> F[x][y]]
           part(U) == [y \in T |-> Sum(col(y), U)]
           X == {U \in SUBSET S : Sum(row, U) = Sum(part(U), T)}
<1>1. \A x \in S : row[x] = Sum(F[x], T) /\ row[x] \in Int
  BY SumStep
<1>2. \A y \in T : \A x \in S : col(y)[x] = F[x][y] /\ col(y)[x] \in Int
  OBVIOUS
<1> HIDE DEF col, row
<1>3. ASSUME NEW U \in SUBSET S, NEW y \in T
      PROVE  part(U)[y] = Sum(col(y), U) /\ part(U)[y] \in Int
  <2>1. IsFiniteSet(U) /\ \A x \in U : col(y)[x] \in Int
    BY <1>2, FS_Subset
  <2> QED
    BY <2>1, SumStep
<1>4. {} \in X
  <2>1. \A y \in T : part({})[y] = 0
    <3> SUFFICES ASSUME NEW y \in T PROVE part({})[y] = 0
      OBVIOUS
    <3>1. Sum(col(y), {}) = 0
      BY FS_EmptySet, SumStep
    <3> QED
      BY <3>1
  <2>2. Sum(row, {}) = 0
    BY FS_EmptySet, SumStep
  <2> HIDE DEF part
  <2>3. Sum(part({}), T) = 0
    BY <2>1, SumOfZeros
  <2> QED
    BY <2>2, <2>3
<1>5. ASSUME NEW U \in SUBSET S, NEW x \in S, U \in X, x \notin U
      PROVE  U \cup {x} \in X
  <2>1. IsFiniteSet(U)
    BY FS_Subset
  <2>2. Sum(row, U \cup {x}) = row[x] + Sum(row, U)
    BY <2>1, <1>1, <1>5, SumAdd
  <2>3. \A y \in T : Sum(col(y), U \cup {x}) = col(y)[x] + Sum(col(y), U)
    <3> SUFFICES ASSUME NEW y \in T PROVE Sum(col(y), U \cup {x}) = col(y)[x] + Sum(col(y), U)
      OBVIOUS
    <3>1. \A z \in U \cup {x} : col(y)[z] \in Int
      BY <1>2
    <3> QED
      BY <2>1, <3>1, <1>5, SumAdd
  <2>4. \A y \in T : part(U \cup {x})[y] = 1 * F[x][y] + 1 * part(U)[y]
    <3> SUFFICES ASSUME NEW y \in T PROVE part(U \cup {x})[y] = 1 * F[x][y] + 1 * part(U)[y]
      OBVIOUS
    <3>1. part(U \cup {x})[y] = col(y)[x] + Sum(col(y), U)
      BY <2>3
    <3>2. F[x][y] \in Int /\ part(U)[y] \in Int /\ part(U)[y] = Sum(col(y), U)
      BY <1>3
    <3> HIDE DEF part
    <3> QED
      BY <3>1, <3>2, <1>2
  <2>5. \A y \in T : F[x][y] \in Int /\ part(U)[y] \in Int
    BY <1>3
  <2> HIDE DEF part
  <2>6. Sum(part(U \cup {x}), T) = 1 * Sum(F[x], T) + 1 * Sum(part(U), T)
    <3> DEFINE fx == F[x]  before == part(U)  after == part(U \cup {x})
    <3>1. \A y \in T : fx[y] \in Int /\ before[y] \in Int
                      /\ after[y] = 1 * fx[y] + 1 * before[y]
      BY <2>4, <2>5
    <3> HIDE DEF fx, before, after
    <3>2. Sum(after, T) = 1 * Sum(fx, T) + 1 * Sum(before, T)
      BY <3>1, SumLinear
    <3> QED
      BY <3>2 DEF fx, before, after
  <2>7. Sum(F[x], T) \in Int /\ Sum(part(U), T) \in Int
    BY <2>5, SumStep
  <2>8. Sum(row, U) = Sum(part(U), T)
    BY <1>5
  <2>9. Sum(row, U \cup {x}) = Sum(part(U \cup {x}), T)
    BY <2>2, <2>6, <2>7, <2>8, <1>1
  <2> QED
    BY <2>9
<1> HIDE DEF X
<1>6. S \in X
  BY <1>4, <1>5, SetInduction
<1>7. Sum(row, S) = Sum(part(S), T)
  BY <1>6 DEF X
<1> QED
  BY <1>7 DEF row, col, part

(* How many elements of S are in A, as a sum.                              *)
LEMMA SumCounts ==
  ASSUME NEW S, IsFiniteSet(S), NEW A
  PROVE  Cardinality(S \cap A) = Sum([x \in S |-> IF x \in A THEN 1 ELSE 0], S)
<1> DEFINE f == [x \in S |-> IF x \in A THEN 1 ELSE 0]
           X == {T \in SUBSET S : Cardinality(T \cap A) = Sum(f, T)}
<1>0. \A x \in S : f[x] \in Int /\ f[x] = IF x \in A THEN 1 ELSE 0
  OBVIOUS
<1> HIDE DEF f
<1>1. {} \in X
  <2>1. Sum(f, {}) = 0 /\ Cardinality({}) = 0 /\ {} \cap A = {}
    BY FS_EmptySet, SumStep
  <2> QED
    BY <2>1
<1>2. ASSUME NEW T \in SUBSET S, NEW x \in S, T \in X, x \notin T
      PROVE  T \cup {x} \in X
  <2>1. IsFiniteSet(T) /\ IsFiniteSet(T \cap A)
    BY FS_Subset
  <2>2. \A y \in T \cup {x} : f[y] \in Int
    BY <1>0
  <2>3. Sum(f, T \cup {x}) = f[x] + Sum(f, T)
    BY <2>1, <2>2, <1>2, SumAdd
  <2>4. Cardinality(T \cap A) \in Nat
    BY <2>1, FS_CardinalityType
  <2>5. CASE x \in A
    <3>1. (T \cup {x}) \cap A = (T \cap A) \cup {x}
      BY <2>5
    <3>2. Cardinality((T \cap A) \cup {x}) = Cardinality(T \cap A) + 1
      BY <2>1, <1>2, FS_AddElement
    <3>3. f[x] = 1 /\ Sum(f, T) = Cardinality(T \cap A)
      BY <2>5, <1>0, <1>2
    <3> DEFINE n == Sum(f, T)
    <3>4. n \in Nat /\ Cardinality(T \cap A) = n /\ Sum(f, T \cup {x}) = 1 + n
      BY <3>3, <2>3, <2>4
    <3>5. Cardinality((T \cup {x}) \cap A) = n + 1
      BY <3>1, <3>2, <3>4
    <3> HIDE DEF n
    <3> QED
      BY <3>4, <3>5
  <2>6. CASE x \notin A
    <3>1. (T \cup {x}) \cap A = T \cap A
      BY <2>6
    <3>3. f[x] = 0 /\ Sum(f, T) = Cardinality(T \cap A)
      BY <2>6, <1>0, <1>2
    <3> DEFINE n == Sum(f, T)
    <3>4. n \in Nat /\ Cardinality(T \cap A) = n /\ Sum(f, T \cup {x}) = 0 + n
      BY <3>3, <2>3, <2>4
    <3>5. Cardinality((T \cup {x}) \cap A) = n
      BY <3>1, <3>4
    <3> HIDE DEF n
    <3> QED
      BY <3>4, <3>5
  <2> QED
    BY <2>5, <2>6
<1> HIDE DEF X
<1>3. S \in X
  BY <1>1, <1>2, SetInduction
<1> QED
  BY <1>3 DEF X, f


----------------------------------------------------------------------------
(***************************************************************************)
(* Polynomials modulo X^L - 1: products, congruence of coefficients, and   *)
(* the turns that multiplying by a power of X amounts to.                  *)
(***************************************************************************)

(***************************************************************************)
(* Polynomials modulo X^L - 1 with integer coefficients.                   *)
(***************************************************************************)
Places(L) == 0..(L - 1)
Polys(L) == [Places(L) -> Int]

(* The place that i leaves of k.                                           *)
Left(k, i, L) == (k - i) % L
Terms(x, y, k, L) == [i \in Places(L) |-> x[i] * y[Left(k, i, L)]]
Conv(x, y, L) == [k \in Places(L) |-> Sum(Terms(x, y, k, L), Places(L))]

(* The places of a polynomial.                                             *)
LEMMA PlacesFinite ==
  ASSUME NEW L \in Nat \ {0}
  PROVE  IsFiniteSet(Places(L)) /\ Places(L) \subseteq Int /\ 0 \in Places(L)
  BY FS_Interval DEF Places

(* Left is the place of k - i.                                             *)
LEMMA LeftCongruent ==
  ASSUME NEW L \in Nat \ {0}, NEW k \in Int, NEW i \in Int
  PROVE  /\ Left(k, i, L) \in Places(L) /\ Left(k, i, L) \in Int
         /\ Congruent(Left(k, i, L), k - i, L)
<1> DEFINE u == k - i
<1>1. u \in Int
  OBVIOUS
<1> HIDE DEF u
<1>2. u % L \in 0..(L - 1) /\ Congruent(u % L, u, L)
  BY <1>1, CongruentResidue
<1> QED
  BY <1>2 DEF u, Left, Places

(* Two places that are congruent are one place.                            *)
LEMMA CongruentPlaces ==
  ASSUME NEW L \in Nat \ {0}, NEW i \in Places(L), NEW j \in Places(L), Congruent(i, j, L)
  PROVE  i = j
<1>1. ASSUME NEW u \in Places(L) PROVE u % L = u
  BY <1>1 DEF Places
<1> QED
  BY <1>1 DEF Congruent

(* Left yields a place.                                                    *)
LEMMA LeftPlace ==
  ASSUME NEW L \in Nat \ {0}, NEW k \in Int, NEW i \in Int
  PROVE  Left(k, i, L) \in Places(L) /\ Left(k, i, L) \in Int
  BY LeftCongruent

(* A common offset cancels.                                                *)
LEMMA LeftLeft ==
  ASSUME NEW L \in Nat \ {0}, NEW k \in Int, NEW n \in Int, NEW i \in Int
  PROVE  Left(Left(k, n, L), Left(i, n, L), L) = Left(k, i, L)
<1> DEFINE x == Left(k, n, L)  y == Left(i, n, L)  u == k - n  v == i - n  m == k - i
<1>1. u \in Int /\ v \in Int /\ m \in Int /\ u - v = m
  OBVIOUS
<1>2. x \in Int /\ y \in Int /\ Congruent(x, u, L) /\ Congruent(y, v, L)
  BY LeftCongruent
<1> HIDE DEF u, v, x, y
<1>3. Congruent(x - y, u - v, L)
  BY <1>1, <1>2, CongruentSub
<1>4. Congruent(Left(x, y, L), x - y, L) /\ Congruent(Left(k, i, L), m, L)
  BY <1>2, LeftCongruent
<1> HIDE DEF m
<1>5. Congruent(Left(x, y, L), Left(k, i, L), L)
  BY <1>1, <1>3, <1>4 DEF Congruent
<1>6. Left(x, y, L) \in Places(L) /\ Left(k, i, L) \in Places(L)
  BY <1>2, LeftCongruent
<1> QED
  BY <1>5, <1>6, CongruentPlaces DEF x, y

(* Left is its own inverse, and offsets can be taken back.                 *)
LEMMA LeftRound ==
  ASSUME NEW L \in Nat \ {0}, NEW k \in Int, NEW i \in Places(L)
  PROVE  /\ Left(k, Left(k, i, L), L) = i
         /\ Left(Left(i, k, L), -k, L) = i
         /\ Left(Left(i, -k, L), k, L) = i
<1>0. i \in Int /\ -k \in Int
  BY PlacesFinite
<1>1. ASSUME NEW u \in Int, NEW v \in Int, NEW x \in Int, NEW y \in Int,
             Congruent(x, u, L), Congruent(y, v, L), u - v = i
      PROVE  Left(x, y, L) = i
  <2>1. Congruent(x - y, i, L)
    BY <1>1, CongruentSub
  <2>2. Congruent(Left(x, y, L), x - y, L)
    BY LeftCongruent
  <2>3. Congruent(Left(x, y, L), i, L)
    BY <2>1, <2>2 DEF Congruent
  <2>4. Left(x, y, L) \in Places(L)
    BY LeftCongruent
  <2> QED
    BY <2>3, <2>4, CongruentPlaces
<1> DEFINE r == Left(k, i, L)  s == Left(i, k, L)  t == Left(i, -k, L)
           u == k - i  v == i - k  w == i + k  mk == -k
<1>2. /\ r \in Int /\ s \in Int /\ t \in Int
      /\ Congruent(r, u, L) /\ Congruent(s, v, L)
  BY <1>0, LeftCongruent
<1>3. Congruent(t, i - mk, L)
  BY <1>0, LeftCongruent
<1>4. i - mk = w /\ w \in Int /\ u \in Int /\ v \in Int /\ mk \in Int
      /\ k - u = i /\ v - mk = i /\ w - k = i
  BY <1>0
<1> HIDE DEF r, s, t, u, v, w, mk
<1>5. Congruent(k, k, L) /\ Congruent(mk, mk, L) /\ Congruent(t, w, L)
  BY <1>3, <1>4 DEF Congruent
<1>6. Left(k, r, L) = i
  BY <1>1, <1>2, <1>4, <1>5
<1>7. Left(s, mk, L) = i
  BY <1>1, <1>2, <1>4, <1>5
<1>8. Left(t, k, L) = i
  BY <1>1, <1>2, <1>4, <1>5
<1> QED
  BY <1>6, <1>7, <1>8 DEF r, s, t, mk

(* The terms of one coefficient of a product.                              *)
LEMMA TermsAreInts ==
  ASSUME NEW L \in Nat \ {0}, NEW x \in Polys(L), NEW y \in Polys(L), NEW k \in Int
  PROVE  \A i \in Places(L) : /\ Terms(x, y, k, L)[i] = x[i] * y[Left(k, i, L)]
                               /\ x[i] \in Int /\ y[Left(k, i, L)] \in Int
                               /\ Terms(x, y, k, L)[i] \in Int
<1> SUFFICES ASSUME NEW i \in Places(L)
             PROVE  x[i] \in Int /\ y[Left(k, i, L)] \in Int /\ x[i] * y[Left(k, i, L)] \in Int
  BY DEF Terms
<1>1. i \in Int
  BY PlacesFinite
<1>2. Left(k, i, L) \in Places(L)
  BY <1>1, LeftPlace
<1> QED
  BY <1>2 DEF Polys

(* A product of polynomials is a polynomial.                               *)
LEMMA ConvType ==
  ASSUME NEW L \in Nat \ {0}, NEW x \in Polys(L), NEW y \in Polys(L)
  PROVE  Conv(x, y, L) \in Polys(L)
<1> SUFFICES ASSUME NEW k \in Places(L)
             PROVE  Sum(Terms(x, y, k, L), Places(L)) \in Int
  BY DEF Conv, Polys
<1>1. k \in Int /\ IsFiniteSet(Places(L))
  BY PlacesFinite
<1>2. \A i \in Places(L) : Terms(x, y, k, L)[i] \in Int
  BY <1>1, TermsAreInts
<1> QED
  BY <1>1, <1>2, SumStep

(* Turning the places around one of them.                                  *)
LEMMA ConvCommutes ==
  ASSUME NEW L \in Nat \ {0}, NEW x \in Polys(L), NEW y \in Polys(L)
  PROVE  Conv(x, y, L) = Conv(y, x, L)
<1> SUFFICES ASSUME NEW k \in Places(L)
             PROVE  Sum(Terms(x, y, k, L), Places(L)) = Sum(Terms(y, x, k, L), Places(L))
  BY DEF Conv
<1> DEFINE P == Places(L)
           to == [i \in P |-> Left(k, i, L)]
           t == Terms(y, x, k, L)
<1>1. k \in Int /\ IsFiniteSet(P) /\ P \subseteq Int /\ k \in P
  BY PlacesFinite
<1>2. \A i \in P : to[i] \in P /\ Left(k, to[i], L) = i
  <2> SUFFICES ASSUME NEW i \in P PROVE to[i] \in P /\ Left(k, to[i], L) = i
    OBVIOUS
  <2>0. to[i] = Left(k, i, L)
    BY DEF to
  <2> HIDE DEF to
  <2>1. i \in Int
    BY <1>1
  <2>2. Left(k, i, L) \in P
    BY <1>1, <2>1, LeftPlace
  <2>3. Left(k, Left(k, i, L), L) = i
    BY <1>1, <2>1, LeftRound
  <2> QED
    BY <1>1, <2>0, <2>1, <2>2, <2>3
<1>3. \A i \in P : t[i] = y[i] * x[Left(k, i, L)] /\ t[i] \in Int
  BY <1>1, TermsAreInts
<1>4. \A i \in P : Terms(x, y, k, L)[i] = x[i] * y[Left(k, i, L)] /\ x[i] \in Int /\ y[Left(k, i, L)] \in Int
  BY <1>1, TermsAreInts
<1>5. \A i \in P : Terms(x, y, k, L)[i] = t[to[i]] /\ Terms(x, y, k, L)[i] \in Int
  <2> SUFFICES ASSUME NEW i \in P PROVE Terms(x, y, k, L)[i] = t[to[i]] /\ Terms(x, y, k, L)[i] \in Int
    OBVIOUS
  <2>1. t[to[i]] = y[to[i]] * x[i]
    BY <1>2, <1>3
  <2>2. y[to[i]] = y[Left(k, i, L)]
    OBVIOUS
  <2> HIDE DEF t, to
  <2> QED
    BY <2>1, <2>2, <1>4
<1> HIDE DEF t
<1>6. to \in [P -> P] /\ \A i, j \in P : to[i] = to[j] => i = j
  <2>1. \A i, j \in P : to[i] = to[j] => i = j
    BY <1>2
  <2>2. to \in [P -> P]
    BY <1>2
  <2> QED
    BY <2>1, <2>2
<1>7. \A j \in P : \E i \in P : to[i] = j
  <2> SUFFICES ASSUME NEW j \in P PROVE \E i \in P : to[i] = j
    OBVIOUS
  <2>1. to[j] \in P /\ to[to[j]] = j
    BY <1>2
  <2> QED
    BY <2>1
<1> HIDE DEF to, P
<1>8. Sum([i \in P |-> t[to[i]]], P) = Sum(t, P)
  BY <1>1, <1>3, <1>6, <1>7, SumReindex
<1> DEFINE r == [i \in P |-> t[to[i]]]  s == Terms(x, y, k, L)
<1>9. \A i \in P : s[i] \in Int /\ s[i] = r[i]
  BY <1>5
<1> HIDE DEF r, s
<1>10. Sum(s, P) = Sum(r, P)
  BY <1>1, <1>9, SumEqual
<1> QED
  BY <1>8, <1>10 DEF r, s, t, P

(* Products distribute over linear combinations.                           *)
LEMMA ConvLinear ==
  ASSUME NEW L \in Nat \ {0}, NEW x \in Polys(L), NEW z \in Polys(L), NEW y \in Polys(L),
         NEW b \in Int, NEW c \in Int
  PROVE  /\ [i \in Places(L) |-> b * x[i] + c * z[i]] \in Polys(L)
         /\ \A k \in Places(L) :
              Conv([i \in Places(L) |-> b * x[i] + c * z[i]], y, L)[k]
                = b * Conv(x, y, L)[k] + c * Conv(z, y, L)[k]
<1> DEFINE P == Places(L)
           s == [i \in P |-> b * x[i] + c * z[i]]
<1>1. IsFiniteSet(P) /\ P \subseteq Int
  BY PlacesFinite
<1>2. \A i \in P : s[i] = b * x[i] + c * z[i] /\ x[i] \in Int /\ z[i] \in Int /\ s[i] \in Int
  BY DEF Polys
<1>3. s \in Polys(L)
  BY <1>2 DEF Polys
<1> HIDE DEF s
<1>4. ASSUME NEW k \in P PROVE Conv(s, y, L)[k] = b * Conv(x, y, L)[k] + c * Conv(z, y, L)[k]
  <2> DEFINE tx == Terms(x, y, k, L)  tz == Terms(z, y, k, L)  ts == Terms(s, y, k, L)
  <2>1. k \in Int
    BY <1>1
  <2>2. \A i \in P : /\ tx[i] = x[i] * y[Left(k, i, L)]
                     /\ tz[i] = z[i] * y[Left(k, i, L)]
                     /\ ts[i] = s[i] * y[Left(k, i, L)]
                     /\ y[Left(k, i, L)] \in Int
    BY <1>3, <2>1, TermsAreInts
  <2> HIDE DEF tx, tz, ts
  <2>3. \A i \in P : tx[i] \in Int /\ tz[i] \in Int /\ ts[i] = b * tx[i] + c * tz[i]
    <3> SUFFICES ASSUME NEW i \in P PROVE tx[i] \in Int /\ tz[i] \in Int /\ ts[i] = b * tx[i] + c * tz[i]
      OBVIOUS
    <3> DEFINE xi == x[i]  zi == z[i]  yi == y[Left(k, i, L)]
    <3>1. xi \in Int /\ zi \in Int /\ yi \in Int
      BY <1>2, <2>2
    <3>2. tx[i] = xi * yi /\ tz[i] = zi * yi /\ ts[i] = (b * xi + c * zi) * yi
      BY <1>2, <2>2
    <3> HIDE DEF xi, yi, zi
    <3>3. (b * xi + c * zi) * yi = b * (xi * yi) + c * (zi * yi)
      BY <3>1
    <3> QED
      BY <3>1, <3>2, <3>3
  <2>4. Sum(ts, P) = b * Sum(tx, P) + c * Sum(tz, P)
    BY <1>1, <2>3, SumLinear
  <2> QED
    BY <2>4 DEF Conv, tx, tz, ts
<1> QED
  BY <1>3, <1>4 DEF s

(* The product of a factor out of a row.                                   *)
LEMMA SumScaled ==
  ASSUME NEW S, IsFiniteSet(S), NEW f, NEW g, NEW b \in Int,
         \A x \in S : f[x] \in Int /\ g[x] = b * f[x]
  PROVE  Sum(g, S) = b * Sum(f, S)
<1>1. \A x \in S : f[x] \in Int /\ f[x] \in Int /\ g[x] = b * f[x] + 0 * f[x]
  OBVIOUS
<1>2. Sum(g, S) = b * Sum(f, S) + 0 * Sum(f, S)
  BY <1>1, SumLinear
<1>3. Sum(f, S) \in Int
  BY SumStep
<1> QED
  BY <1>2, <1>3

(* Products associate.                                                     *)
LEMMA ConvAssociates ==
  ASSUME NEW L \in Nat \ {0}, NEW x \in Polys(L), NEW y \in Polys(L), NEW z \in Polys(L)
  PROVE  Conv(Conv(x, y, L), z, L) = Conv(x, Conv(y, z, L), L)
<1> DEFINE P == Places(L)  xy == Conv(x, y, L)  yz == Conv(y, z, L)
<1>1. IsFiniteSet(P) /\ P \subseteq Int /\ xy \in Polys(L) /\ yz \in Polys(L)
  BY PlacesFinite, ConvType
<1> SUFFICES ASSUME NEW k \in P
             PROVE  Sum(Terms(xy, z, k, L), P) = Sum(Terms(x, yz, k, L), P)
  BY DEF Conv
<1> DEFINE T(j, i) == (x[i] * y[Left(j, i, L)]) * z[Left(k, j, L)]
           F == [j \in P |-> [i \in P |-> T(j, i)]]
<1>2. k \in Int
  BY <1>1
<1>3. \A i \in P : x[i] \in Int /\ y[i] \in Int /\ z[i] \in Int
  BY DEF Polys
<1>4. \A i, j \in P : Left(j, i, L) \in P /\ Left(k, j, L) \in P
  BY <1>1, <1>2, LeftPlace
<1>5. \A i, j \in P : /\ T(j, i) \in Int
                      /\ x[i] \in Int /\ y[Left(j, i, L)] \in Int /\ z[Left(k, j, L)] \in Int
  <2> SUFFICES ASSUME NEW i \in P, NEW j \in P
               PROVE  /\ (x[i] * y[Left(j, i, L)]) * z[Left(k, j, L)] \in Int
                      /\ x[i] \in Int /\ y[Left(j, i, L)] \in Int /\ z[Left(k, j, L)] \in Int
    OBVIOUS
  <2> DEFINE u == Left(j, i, L)  v == Left(k, j, L)
  <2>1. u \in P /\ v \in P
    BY <1>4
  <2> HIDE DEF u, v, P
  <2>2. x[i] \in Int /\ y[u] \in Int /\ z[v] \in Int
    BY <1>3, <2>1
  <2>3. (x[i] * y[u]) * z[v] \in Int
    BY <2>2
  <2> QED
    BY <2>2, <2>3 DEF u, v
<1>6. F \in [P -> [P -> Int]]
  BY <1>5
<1>7. Sum(Terms(xy, z, k, L), P) = Sum([j \in P |-> Sum(F[j], P)], P)
  <2> DEFINE s == Terms(xy, z, k, L)  r == [j \in P |-> Sum(F[j], P)]
  <2>1. \A j \in P : s[j] \in Int /\ s[j] = r[j]
    <3> SUFFICES ASSUME NEW j \in P PROVE s[j] \in Int /\ s[j] = Sum(F[j], P)
      OBVIOUS
    <3> DEFINE v == z[Left(k, j, L)]  t == Terms(x, y, j, L)  fj == F[j]
    <3>1. s[j] = xy[j] * v /\ xy[j] \in Int /\ v \in Int
      <4>1. s[j] = xy[j] * v /\ xy[j] \in Int
        BY <1>1, <1>2, TermsAreInts
      <4> QED
        BY <4>1, <1>5
    <3>2. xy[j] = Sum(t, P)
      BY DEF Conv
    <3>3. j \in Int
      BY <1>1
    <3>4. \A i \in P : t[i] = x[i] * y[Left(j, i, L)] /\ x[i] \in Int /\ y[Left(j, i, L)] \in Int
      BY <3>3, TermsAreInts
    <3>5. \A i \in P : fj[i] = (x[i] * y[Left(j, i, L)]) * v
      OBVIOUS
    <3> HIDE DEF v, t, fj
    <3>6. \A i \in P : t[i] \in Int /\ fj[i] = v * t[i]
      <4> SUFFICES ASSUME NEW i \in P PROVE t[i] \in Int /\ fj[i] = v * t[i]
        OBVIOUS
      <4> QED
        BY <3>1, <3>4, <3>5
    <3>7. Sum(fj, P) = v * Sum(t, P) /\ Sum(t, P) \in Int
      BY <3>1, <3>6, <1>1, SumScaled, SumStep
    <3> HIDE DEF s, F
    <3>8. s[j] = Sum(fj, P) /\ s[j] \in Int
      BY <3>1, <3>2, <3>7
    <3> QED
      BY <3>8 DEF fj
  <2> HIDE DEF s, r, F
  <2>2. Sum(s, P) = Sum(r, P)
    BY <1>1, <2>1, SumEqual
  <2> QED
    BY <2>2 DEF s, r
<1>8. Sum([j \in P |-> Sum(F[j], P)], P) = Sum([i \in P |-> Sum([j \in P |-> F[j][i]], P)], P)
  <2> HIDE DEF F, P
  <2> QED
    BY <1>1, <1>6, SumExchange
<1>9. Sum([i \in P |-> Sum([j \in P |-> F[j][i]], P)], P) = Sum(Terms(x, yz, k, L), P)
  <2> DEFINE s == [i \in P |-> Sum([j \in P |-> F[j][i]], P)]
             r == Terms(x, yz, k, L)
  <2>1. \A i \in P : r[i] \in Int /\ r[i] = s[i]
    <3> SUFFICES ASSUME NEW i \in P PROVE r[i] \in Int /\ r[i] = Sum([j \in P |-> F[j][i]], P)
      OBVIOUS
    <3> DEFINE n == Left(k, i, L)
               t == Terms(y, z, n, L)
               to == [j \in P |-> Left(j, i, L)]
               back(u) == Left(u, -i, L)
               ft == [j \in P |-> t[to[j]]]
               col == [j \in P |-> F[j][i]]
    <3>1. i \in Int /\ n \in P /\ n \in Int
      BY <1>1, <1>2, LeftPlace
    <3>2. r[i] = x[i] * yz[n] /\ x[i] \in Int /\ yz[n] \in Int
      BY <1>1, <1>2, TermsAreInts
    <3>3. yz[n] = Sum(t, P)
      BY <3>1 DEF Conv
    <3>4. \A j \in P : /\ t[j] = y[j] * z[Left(n, j, L)]
                       /\ t[j] \in Int
      BY <3>1, TermsAreInts
    <3>5. \A j \in P : to[j] \in P /\ Left(n, to[j], L) = Left(k, j, L)
      <4> SUFFICES ASSUME NEW j \in P PROVE to[j] \in P /\ Left(n, to[j], L) = Left(k, j, L)
        OBVIOUS
      <4>0. to[j] = Left(j, i, L)
        BY DEF to
      <4> HIDE DEF to
      <4>1. j \in Int
        BY <1>1
      <4>2. Left(j, i, L) \in P
        BY <3>1, <4>1, LeftPlace
      <4>3. n = Left(k, i, L)
        OBVIOUS
      <4>4. to[j] \in P
        BY <4>0, <4>2
      <4> HIDE DEF n
      <4>5. Left(n, to[j], L) = Left(k, j, L)
        BY <1>2, <3>1, <4>0, <4>1, <4>3, LeftLeft
      <4> QED
        BY <4>4, <4>5
    <3>6. \A j \in P : ft[j] = y[Left(j, i, L)] * z[Left(k, j, L)]
      BY <3>4, <3>5
    <3>7. \A j1, j2 \in P : to[j1] = to[j2] => j1 = j2
      <4> SUFFICES ASSUME NEW j1 \in P, NEW j2 \in P, to[j1] = to[j2] PROVE j1 = j2
        OBVIOUS
      <4>1. \A j \in P : Left(to[j], -i, L) = j
        BY <3>1, LeftRound DEF to
      <4> QED
        BY <4>1
    <3>8. \A u \in P : \E j \in P : to[j] = u
      <4> SUFFICES ASSUME NEW u \in P PROVE back(u) \in P /\ Left(back(u), i, L) = u
        OBVIOUS
      <4>1. u \in Int /\ -i \in Int
        BY <1>1, <3>1
      <4> QED
        BY <3>1, <4>1, LeftPlace, LeftRound
    <3>9. to \in [P -> P]
      BY <3>5
    <3>10. \A j \in P : col[j] = (x[i] * y[Left(j, i, L)]) * z[Left(k, j, L)]
      OBVIOUS
    <3> HIDE DEF F
    <3>11. Sum(ft, P) = Sum(t, P)
      <4> HIDE DEF to, t, P, n
      <4> QED
        BY <1>1, <3>4, <3>7, <3>8, <3>9, SumReindex
    <3> HIDE DEF ft, col, t, to, n
    <3>12. \A j \in P : ft[j] \in Int /\ col[j] = x[i] * ft[j]
      <4> SUFFICES ASSUME NEW j \in P PROVE ft[j] \in Int /\ col[j] = x[i] * ft[j]
        OBVIOUS
      <4> DEFINE xi == x[i]  yj == y[Left(j, i, L)]  zj == z[Left(k, j, L)]
      <4>1. xi \in Int /\ yj \in Int /\ zj \in Int
        BY <1>5
      <4>2. ft[j] = yj * zj /\ col[j] = (xi * yj) * zj
        BY <3>6, <3>10
      <4> HIDE DEF xi, yj, zj
      <4>3. (xi * yj) * zj = xi * (yj * zj)
        BY <4>1
      <4> QED
        BY <4>1, <4>2, <4>3 DEF xi
    <3>13. Sum(col, P) = x[i] * Sum(ft, P)
      BY <1>1, <3>2, <3>12, SumScaled
    <3>14. r[i] = Sum(col, P) /\ r[i] \in Int
      BY <3>2, <3>3, <3>11, <3>13
    <3> QED
      BY <3>14 DEF col
  <2> HIDE DEF s, r, F
  <2>2. Sum(r, P) = Sum(s, P)
    BY <1>1, <2>1, SumEqual
  <2> QED
    BY <2>2 DEF s, r
<1> QED
  BY <1>7, <1>8, <1>9

(* The power X^k.                                                          *)
Mono(k, L) == [i \in Places(L) |-> IF i = k THEN 1 ELSE 0]

(* Multiplying by a power of X turns the coefficients.                     *)
LEMMA ConvMono ==
  ASSUME NEW L \in Nat \ {0}, NEW k \in Places(L), NEW y \in Polys(L)
  PROVE  /\ Mono(k, L) \in Polys(L)
         /\ Conv(Mono(k, L), y, L) = [j \in Places(L) |-> y[Left(j, k, L)]]
<1> DEFINE P == Places(L)  x == Mono(k, L)
<1>1. IsFiniteSet(P) /\ P \subseteq Int
  BY PlacesFinite
<1>2. x \in Polys(L) /\ x[k] = 1 /\ \A i \in P \ {k} : x[i] = 0
  BY DEF Mono, Polys
<1> HIDE DEF x
<1>3. ASSUME NEW j \in P PROVE Sum(Terms(x, y, j, L), P) = y[Left(j, k, L)]
  <2> DEFINE t == Terms(x, y, j, L)
  <2>1. \A i \in P : t[i] = x[i] * y[Left(j, i, L)] /\ y[Left(j, i, L)] \in Int
    BY <1>1, <1>2, TermsAreInts
  <2> HIDE DEF t
  <2>2. t[k] = y[Left(j, k, L)] /\ t[k] \in Int
    BY <1>2, <2>1
  <2>3. \A i \in P \ {k} : t[i] = 0
    BY <1>2, <2>1
  <2>4. Sum(t, P) = t[k]
    BY <1>1, <2>2, <2>3, SumSingle
  <2> QED
    BY <2>2, <2>4 DEF t
<1>4. Conv(x, y, L) = [j \in P |-> y[Left(j, k, L)]]
  BY <1>3 DEF Conv
<1> QED
  BY <1>2, <1>4 DEF x

(* The polynomial 1 is neutral.                                            *)
LEMMA ConvOne ==
  ASSUME NEW L \in Nat \ {0}, NEW y \in Polys(L)
  PROVE  Mono(0, L) \in Polys(L) /\ Conv(Mono(0, L), y, L) = y
<1>1. 0 \in Places(L)
  BY PlacesFinite
<1>2. \A j \in Places(L) : Left(j, 0, L) = j
  <2> SUFFICES ASSUME NEW j \in Places(L) PROVE Left(j, 0, L) = j
    OBVIOUS
  <2> DEFINE z == 0
  <2>1. j \in Int /\ z \in Int /\ j - z = j
    BY PlacesFinite
  <2> HIDE DEF z
  <2>2. Left(j, z, L) \in Places(L) /\ Congruent(Left(j, z, L), j - z, L)
    BY <2>1, LeftCongruent
  <2>3. Left(j, z, L) = j
    BY <2>1, <2>2, CongruentPlaces
  <2> QED
    BY <2>3 DEF z
<1>3. Mono(0, L) \in Polys(L) /\ Conv(Mono(0, L), y, L) = [j \in Places(L) |-> y[Left(j, 0, L)]]
  BY <1>1, ConvMono
<1>4. y = [j \in Places(L) |-> y[j]]
  BY DEF Polys
<1> QED
  BY <1>2, <1>3, <1>4

(* Congruence of all coefficients.                                         *)
Same(x, y, m, L) == \A i \in Places(L) : Congruent(x[i], y[i], m)

(* Congruence of polynomials is an equivalence.                            *)
LEMMA SameEquivalence ==
  ASSUME NEW m, NEW L, NEW x, NEW y, NEW z
  PROVE  /\ Same(x, x, m, L)
         /\ Same(x, y, m, L) => Same(y, x, m, L)
         /\ Same(x, y, m, L) /\ Same(y, z, m, L) => Same(x, z, m, L)
  BY CongruentEquivalence DEF Same

(* Congruent first factors have congruent products.                        *)
LEMMA SameFactor ==
  ASSUME NEW L \in Nat \ {0}, NEW m \in Nat \ {0}, NEW x \in Polys(L), NEW y \in Polys(L),
         NEW z \in Polys(L), Same(x, z, m, L)
  PROVE  Same(Conv(x, y, L), Conv(z, y, L), m, L)
<1> DEFINE P == Places(L)
           t == [i \in P |-> CHOOSE k \in Int : x[i] = z[i] + m * k]
           one == 1
           s == [i \in P |-> one * z[i] + m * t[i]]
<1>1. \A i \in P : t[i] \in Int /\ x[i] = z[i] + m * t[i] /\ z[i] \in Int /\ x[i] \in Int
  <2> SUFFICES ASSUME NEW i \in P PROVE t[i] \in Int /\ x[i] = z[i] + m * t[i] /\ z[i] \in Int /\ x[i] \in Int
    OBVIOUS
  <2>1. x[i] \in Int /\ z[i] \in Int /\ Congruent(x[i], z[i], m)
    BY DEF Polys, Same
  <2>2. \E k \in Int : x[i] = z[i] + m * k
    BY <2>1, CongruentMultiple
  <2>3. t[i] = CHOOSE k \in Int : x[i] = z[i] + m * k
    OBVIOUS
  <2> HIDE DEF t
  <2> QED
    BY <2>1, <2>2, <2>3
<1>2. t \in Polys(L)
  BY <1>1 DEF Polys
<1>2a. DOMAIN x = P /\ x = [i \in P |-> x[i]]
  BY DEF Polys
<1> HIDE DEF t
<1>3. s = x
  <2>1. \A i \in P : 1 * z[i] + m * t[i] = x[i]
    BY <1>1
  <2> QED
    BY <1>2a, <2>1
<1>3a. one \in Int /\ m \in Int
  OBVIOUS
<1> HIDE DEF one
<1>4. \A k \in P : Conv(s, y, L)[k] = one * Conv(z, y, L)[k] + m * Conv(t, y, L)[k]
  BY <1>2, <1>3a, ConvLinear
<1> SUFFICES ASSUME NEW k \in P PROVE Congruent(Conv(x, y, L)[k], Conv(z, y, L)[k], m)
  BY DEF Same
<1> HIDE DEF s
<1> DEFINE cx == Conv(x, y, L)[k]  cz == Conv(z, y, L)[k]  ct == Conv(t, y, L)[k]
<1>5. cx \in Int /\ cz \in Int /\ ct \in Int
  BY <1>2, ConvType DEF Polys
<1>6. cx = one * cz + m * ct
  BY <1>3, <1>4
<1> HIDE DEF cx, cz, ct
<1>7. cx = cz + m * ct
  BY <1>5, <1>6 DEF one
<1>8. Congruent(cx, cz, m)
  BY <1>5, <1>7, CongruentMultiple
<1> QED
  BY <1>8 DEF cx, cz

(* Congruent factors have congruent products.                              *)
LEMMA SameConv ==
  ASSUME NEW L \in Nat \ {0}, NEW m \in Nat \ {0},
         NEW x \in Polys(L), NEW y \in Polys(L), NEW u \in Polys(L), NEW v \in Polys(L),
         Same(x, u, m, L), Same(y, v, m, L)
  PROVE  Same(Conv(x, y, L), Conv(u, v, L), m, L)
<1>1. Same(Conv(x, y, L), Conv(u, y, L), m, L)
  BY SameFactor
<1>2. Same(Conv(y, u, L), Conv(v, u, L), m, L)
  BY SameFactor
<1>3. Conv(y, u, L) = Conv(u, y, L) /\ Conv(v, u, L) = Conv(u, v, L)
  BY ConvCommutes
<1> QED
  BY <1>1, <1>2, <1>3, SameEquivalence

(* Residues of the coefficients.                                           *)
Reduced(x, m, L) == [i \in Places(L) |-> x[i] % m]

(* Reducing the coefficients yields residues and a congruent polynomial.   *)
LEMMA ReducedSame ==
  ASSUME NEW L \in Nat \ {0}, NEW m \in Nat \ {0}, NEW x \in Polys(L)
  PROVE  /\ Reduced(x, m, L) \in Polys(L) /\ Reduced(x, m, L) \in [Places(L) -> 0..(m - 1)]
         /\ Same(Reduced(x, m, L), x, m, L)
<1>1. \A i \in Places(L) : x[i] \in Int /\ Reduced(x, m, L)[i] = x[i] % m
  BY DEF Reduced, Polys
<1>2. \A i \in Places(L) : x[i] % m \in 0..(m - 1) /\ Congruent(x[i] % m, x[i], m)
  BY <1>1, CongruentResidue
<1>3. 0..(m - 1) \subseteq Int
  OBVIOUS
<1>4. Reduced(x, m, L) \in [Places(L) -> 0..(m - 1)]
  BY <1>2 DEF Reduced
<1>5. Reduced(x, m, L) \in Polys(L)
  BY <1>3, <1>4 DEF Polys
<1>6. Same(Reduced(x, m, L), x, m, L)
  BY <1>1, <1>2 DEF Same
<1> QED
  BY <1>4, <1>5, <1>6

(* Congruent polynomials are those that reduce to the same one.            *)
LEMMA SameReduced ==
  ASSUME NEW L, NEW m, NEW x, NEW y
  PROVE  Same(x, y, m, L) <=> Reduced(x, m, L) = Reduced(y, m, L)
<1>1. ASSUME Same(x, y, m, L) PROVE Reduced(x, m, L) = Reduced(y, m, L)
  BY <1>1 DEF Same, Reduced, Congruent
<1>2. ASSUME Reduced(x, m, L) = Reduced(y, m, L), NEW i \in Places(L)
      PROVE  x[i] % m = y[i] % m
  <2>1. Reduced(x, m, L)[i] = x[i] % m /\ Reduced(y, m, L)[i] = y[i] % m
    BY DEF Reduced
  <2> QED
    BY <1>2, <2>1
<1> QED
  BY <1>1, <1>2 DEF Same, Congruent

(* A multiple of a polynomial, plus another.                               *)
Combine(b, x, c, z, L) == [i \in Places(L) |-> b * x[i] + c * z[i]]

(* Products distribute over Combine.                                       *)
LEMMA CombineConv ==
  ASSUME NEW L \in Nat \ {0}, NEW x \in Polys(L), NEW z \in Polys(L), NEW y \in Polys(L),
         NEW b \in Int, NEW c \in Int
  PROVE  /\ Combine(b, x, c, z, L) \in Polys(L)
         /\ Conv(Combine(b, x, c, z, L), y, L) = Combine(b, Conv(x, y, L), c, Conv(z, y, L), L)
<1> DEFINE s == Combine(b, x, c, z, L)
<1>1. s \in Polys(L) /\ \A k \in Places(L) :
         Conv(s, y, L)[k] = b * Conv(x, y, L)[k] + c * Conv(z, y, L)[k]
  BY ConvLinear DEF Combine
<1> HIDE DEF s
<1>2. Conv(s, y, L) = [k \in Places(L) |-> Conv(s, y, L)[k]]
  BY <1>1, ConvType DEF Polys
<1>3. Conv(s, y, L) = Combine(b, Conv(x, y, L), c, Conv(z, y, L), L)
  BY <1>1, <1>2 DEF Combine
<1> QED
  BY <1>1, <1>3 DEF s

(* Combinations of congruent polynomials are congruent.                    *)
LEMMA CombineSame ==
  ASSUME NEW L \in Nat \ {0}, NEW m \in Nat \ {0}, NEW b \in Int, NEW c \in Int,
         NEW x \in Polys(L), NEW y \in Polys(L), NEW u \in Polys(L), NEW v \in Polys(L),
         Same(x, u, m, L), Same(y, v, m, L)
  PROVE  Same(Combine(b, x, c, y, L), Combine(b, u, c, v, L), m, L)
<1> SUFFICES ASSUME NEW i \in Places(L)
             PROVE  Congruent(b * x[i] + c * y[i], b * u[i] + c * v[i], m)
  BY DEF Same, Combine
<1> DEFINE xi == x[i]  yi == y[i]  ui == u[i]  vi == v[i]
<1>1. xi \in Int /\ yi \in Int /\ ui \in Int /\ vi \in Int
      /\ Congruent(xi, ui, m) /\ Congruent(yi, vi, m)
  BY DEF Polys, Same
<1> HIDE DEF xi, yi, ui, vi
<1>2. Congruent(b, b, m) /\ Congruent(c, c, m)
  BY CongruentEquivalence
<1>3. Congruent(b * xi, b * ui, m) /\ Congruent(c * yi, c * vi, m)
  BY <1>1, <1>2, CongruentMul
<1>4. b * xi \in Int /\ b * ui \in Int /\ c * yi \in Int /\ c * vi \in Int
  BY <1>1
<1>5. Congruent(b * xi + c * yi, b * ui + c * vi, m)
  BY <1>3, <1>4, CongruentAdd
<1> QED
  BY <1>5 DEF xi, yi, ui, vi

(* x times X^k.                                                            *)
Rot(x, k, L) == [j \in Places(L) |-> x[Left(j, k, L)]]
Nil(L) == [i \in Places(L) |-> 0]

(* A turned polynomial is one, and what its coefficients are.              *)
LEMMA RotType ==
  ASSUME NEW L \in Nat \ {0}, NEW x \in Polys(L), NEW k \in Int
  PROVE  /\ Rot(x, k, L) \in Polys(L)
         /\ \A j \in Places(L) : Left(j, k, L) \in Places(L)
         /\ \A j \in Places(L) : Rot(x, k, L)[j] = x[Left(j, k, L)]
<1>1. \A j \in Places(L) : j \in Int
  BY PlacesFinite
<1>2. \A j \in Places(L) : Left(j, k, L) \in Places(L)
  BY <1>1, LeftPlace
<1>3. \A j \in Places(L) : Rot(x, k, L)[j] = x[Left(j, k, L)]
  BY DEF Rot
<1>4. \A j \in Places(L) : x[Left(j, k, L)] \in Int
  BY <1>2 DEF Polys
<1> QED
  BY <1>2, <1>3, <1>4 DEF Rot, Polys

(* Places that differ by congruent amounts.                                *)
LEMMA LeftUnique ==
  ASSUME NEW L \in Nat \ {0}, NEW j \in Int, NEW k \in Int, NEW i \in Places(L), Congruent(j - k, i, L)
  PROVE  Left(j, k, L) = i
<1>1. Left(j, k, L) \in Places(L) /\ Left(j, k, L) \in Int /\ Congruent(Left(j, k, L), j - k, L)
  BY LeftCongruent
<1>2. Congruent(Left(j, k, L), i, L)
  BY <1>1, CongruentEquivalence
<1> QED
  BY <1>1, <1>2, CongruentPlaces

(* Left by hand: the difference, or the difference and L.                  *)
LEMMA LeftWraps ==
  ASSUME NEW L \in Nat \ {0}, NEW j \in Int, NEW k \in Int, NEW i \in Places(L),
         (j - k) + L = i \/ j - k = i
  PROVE  Left(j, k, L) = i
<1> DEFINE u == j - k
<1>1. u \in Int /\ i \in Int
  BY PlacesFinite
<1>2. u + L = i \/ u = i
  OBVIOUS
<1> HIDE DEF u
<1>3. \E n \in Int : u = i + L * n
  <2>1. CASE u = i
    <3>1. u = i + L * 0 /\ 0 \in Int
      BY <1>1, <2>1
    <3> QED
      BY <3>1
  <2>2. CASE u + L = i
    <3>1. u = i + L * (-1) /\ -1 \in Int
      BY <1>1, <2>2
    <3> QED
      BY <3>1
  <2> QED
    BY <1>2, <2>1, <2>2
<1>4. Congruent(u, i, L)
  BY <1>1, <1>3, CongruentMultiple
<1> QED
  BY <1>4, LeftUnique DEF u

(* Two offsets add up.                                                     *)
LEMMA LeftTwice ==
  ASSUME NEW L \in Nat \ {0}, NEW j \in Int, NEW n \in Int, NEW k \in Int
  PROVE  Left(Left(j, n, L), k, L) = Left(j, n + k, L)
<1> DEFINE l == Left(j, n, L)  s == n + k  r == Left(j, s, L)
<1>0. s \in Int
  OBVIOUS
<1>1. s \in Int /\ l \in Int /\ Congruent(l, j - n, L)
  <2> HIDE DEF s
  <2> QED
    BY <1>0, LeftCongruent
<1>2. r \in Places(L) /\ r \in Int /\ Congruent(r, j - s, L)
  <2> HIDE DEF s
  <2> QED
    BY <1>1, LeftCongruent
<1>3. j - s = (j - n) - k /\ j - n \in Int /\ j - s \in Int
  OBVIOUS
<1> HIDE DEF l, r, s
<1>4. Congruent(k, k, L)
  BY CongruentEquivalence
<1> DEFINE u == j - n  v == j - s
<1>5. Congruent(l - k, u - k, L)
  <2>1. u \in Int /\ Congruent(l, u, L)
    BY <1>1, <1>3
  <2> HIDE DEF u
  <2> QED
    BY <2>1, <1>1, <1>4, CongruentSub
<1>6. Congruent(v, r, L)
  BY <1>2, CongruentEquivalence
<1>7. Congruent(l - k, r, L)
  BY <1>3, <1>5, <1>6, CongruentEquivalence
<1>8. Left(l, k, L) = r
  BY <1>1, <1>2, <1>7, LeftUnique
<1> QED
  BY <1>8 DEF l, r, s

(* Two turns add up.                                                       *)
LEMMA RotRot ==
  ASSUME NEW L \in Nat \ {0}, NEW x \in Polys(L), NEW k \in Int, NEW n \in Int
  PROVE  Rot(Rot(x, k, L), n, L) = Rot(x, n + k, L)
<1>1. \A j \in Places(L) : j \in Int
  BY PlacesFinite
<1>2. \A j \in Places(L) : Left(Left(j, n, L), k, L) = Left(j, n + k, L)
  BY <1>1, LeftTwice
<1>3. \A j \in Places(L) : Rot(x, k, L)[Left(j, n, L)] = x[Left(Left(j, n, L), k, L)]
  <2>1. \A j \in Places(L) : Left(j, n, L) \in Places(L)
    BY RotType
  <2> QED
    BY <2>1, RotType
<1> QED
  BY <1>2, <1>3 DEF Rot

(* Offset 0 leaves a place where it is.                                    *)
LEMMA LeftZero ==
  ASSUME NEW L \in Nat \ {0}, NEW j \in Places(L)
  PROVE  Left(j, 0, L) = j
<1> DEFINE z == 0
<1>1. j \in Int /\ z \in Int /\ j - z = j
  BY PlacesFinite
<1> HIDE DEF z
<1>2. Left(j, z, L) \in Places(L) /\ Congruent(Left(j, z, L), j - z, L)
  BY <1>1, LeftCongruent
<1>3. Left(j, z, L) = j
  BY <1>1, <1>2, CongruentPlaces
<1> QED
  BY <1>3 DEF z

(* Turning by 0 changes nothing.                                           *)
LEMMA RotZero ==
  ASSUME NEW L \in Nat \ {0}, NEW x \in Polys(L)
  PROVE  Rot(x, 0, L) = x
<1>1. x = [j \in Places(L) |-> x[j]]
  BY DEF Polys
<1> QED
  BY <1>1, LeftZero DEF Rot

(* Only k modulo L matters.                                                *)
LEMMA LeftBy ==
  ASSUME NEW L \in Nat \ {0}, NEW j \in Int, NEW k \in Int, NEW n \in Int, Congruent(k, n, L)
  PROVE  Left(j, k, L) = Left(j, n, L)
<1> DEFINE r == Left(j, n, L)
<1>1. r \in Places(L) /\ r \in Int /\ Congruent(r, j - n, L)
  BY LeftCongruent
<1> HIDE DEF r
<1> DEFINE u == j - n  v == j - k
<1>2. u \in Int /\ v \in Int
  OBVIOUS
<1>3. Congruent(v, u, L)
  <2>1. Congruent(j, j, L)
    BY CongruentEquivalence
  <2> QED
    BY <2>1, CongruentSub
<1>4. Congruent(v, r, L)
  BY <1>1, <1>3, CongruentEquivalence
<1> QED
  BY <1>1, <1>4, LeftUnique DEF r

(* Turning by congruent amounts is the same.                               *)
LEMMA RotBy ==
  ASSUME NEW L \in Nat \ {0}, NEW x \in Polys(L), NEW k \in Int, NEW n \in Int, Congruent(k, n, L)
  PROVE  Rot(x, k, L) = Rot(x, n, L)
<1>1. \A j \in Places(L) : j \in Int
  BY PlacesFinite
<1>2. \A j \in Places(L) : Left(j, k, L) = Left(j, n, L)
  BY <1>1, LeftBy
<1> QED
  BY <1>2 DEF Rot

(* Turning a factor turns the product.                                     *)
LEMMA RotConv ==
  ASSUME NEW L \in Nat \ {0}, NEW x \in Polys(L), NEW y \in Polys(L), NEW k \in Int
  PROVE  Conv(Rot(x, k, L), y, L) = Rot(Conv(x, y, L), k, L)
<1> DEFINE z == 0  n == Left(k, z, L)
<1>0. z \in Int /\ k - z = k
  OBVIOUS
<1>1. n \in Places(L) /\ n \in Int /\ Congruent(n, k - z, L)
  <2> HIDE DEF z
  <2> QED
    BY <1>0, LeftCongruent
<1> HIDE DEF n, z
<1>2. Congruent(k, n, L)
  BY <1>0, <1>1, CongruentEquivalence
<1>3. ASSUME NEW u \in Polys(L)
      PROVE  Rot(u, k, L) = Conv(Mono(n, L), u, L)
  <2>1. Rot(u, k, L) = Rot(u, n, L)
    BY <1>1, <1>2, RotBy
  <2>2. Conv(Mono(n, L), u, L) = [j \in Places(L) |-> u[Left(j, n, L)]]
    BY <1>1, ConvMono
  <2> QED
    BY <2>1, <2>2 DEF Rot
<1>4. Mono(n, L) \in Polys(L) /\ Conv(x, y, L) \in Polys(L)
  BY <1>1, ConvMono, ConvType
<1>5. Conv(Conv(Mono(n, L), x, L), y, L) = Conv(Mono(n, L), Conv(x, y, L), L)
  BY <1>4, ConvAssociates
<1>6. Rot(x, k, L) = Conv(Mono(n, L), x, L)
  BY <1>3
<1>7. Rot(Conv(x, y, L), k, L) = Conv(Mono(n, L), Conv(x, y, L), L)
  BY <1>3, <1>4
<1> QED
  BY <1>5, <1>6, <1>7

(* Turning keeps congruence.                                               *)
LEMMA RotSame ==
  ASSUME NEW L \in Nat \ {0}, NEW x \in Polys(L), NEW y \in Polys(L), NEW k \in Int, NEW m,
         Same(x, y, m, L)
  PROVE  Same(Rot(x, k, L), Rot(y, k, L), m, L)
<1>1. \A j \in Places(L) : Left(j, k, L) \in Places(L)
  BY RotType
<1> QED
  BY <1>1 DEF Same, Rot

(* Turning a combination turns its parts.                                  *)
LEMMA RotCombine ==
  ASSUME NEW L \in Nat \ {0}, NEW x \in Polys(L), NEW y \in Polys(L), NEW k \in Int,
         NEW b \in Int, NEW c \in Int
  PROVE  Rot(Combine(b, x, c, y, L), k, L) = Combine(b, Rot(x, k, L), c, Rot(y, k, L), L)
<1>1. \A j \in Places(L) : Left(j, k, L) \in Places(L)
  BY RotType
<1> QED
  BY <1>1 DEF Rot, Combine

(* The product with the zero polynomial.                                   *)
LEMMA ConvNil ==
  ASSUME NEW L \in Nat \ {0}, NEW x \in Polys(L)
  PROVE  Nil(L) \in Polys(L) /\ Conv(Nil(L), x, L) = Nil(L) /\ Conv(x, Nil(L), L) = Nil(L)
<1> DEFINE o == 0
<1>1. o \in Int
  OBVIOUS
<1>2. ASSUME NEW u \in Polys(L) PROVE Combine(o, u, o, u, L) = Nil(L)
  <2>1. \A i \in Places(L) : u[i] \in Int
    BY DEF Polys
  <2>2. \A i \in Places(L) : o * u[i] + o * u[i] = 0
    BY <2>1
  <2> QED
    BY <2>2 DEF Combine, Nil
<1>3. Nil(L) \in Polys(L)
  BY DEF Nil, Polys
<1> HIDE DEF o
<1>4. Conv(Combine(o, x, o, x, L), x, L) = Combine(o, Conv(x, x, L), o, Conv(x, x, L), L)
  BY <1>1, CombineConv
<1>5. Conv(x, x, L) \in Polys(L)
  BY ConvType
<1>6. Conv(Nil(L), x, L) = Nil(L)
  BY <1>2, <1>4, <1>5
<1>7. Conv(x, Nil(L), L) = Conv(Nil(L), x, L)
  BY <1>3, ConvCommutes
<1> QED
  BY <1>3, <1>6, <1>7

(* What has an inverse divides nothing but zero.                           *)
LEMMA ZeroDivisor ==
  ASSUME NEW L \in Nat \ {0}, NEW m \in Nat \ {0}, NEW x \in Polys(L), NEW y \in Polys(L), NEW z \in Polys(L),
         Same(Conv(y, x, L), Mono(0, L), m, L), Same(Conv(z, x, L), Nil(L), m, L)
  PROVE  Same(z, Nil(L), m, L)
<1> DEFINE one == Mono(0, L)  yx == Conv(y, x, L)  zx == Conv(z, x, L)
<1>1. one \in Polys(L) /\ Conv(one, z, L) = z
  BY ConvOne
<1>2. yx \in Polys(L) /\ zx \in Polys(L) /\ Nil(L) \in Polys(L) /\ Conv(Nil(L), y, L) = Nil(L)
  BY ConvType, ConvNil
<1>3. Same(Conv(one, z, L), Conv(yx, z, L), m, L)
  <2>1. Same(one, yx, m, L)
    BY SameEquivalence
  <2> QED
    BY <1>1, <1>2, <2>1, SameFactor
<1>4. Conv(yx, z, L) = Conv(zx, y, L)
  <2>1. Conv(yx, z, L) = Conv(y, Conv(x, z, L), L)
    BY ConvAssociates
  <2>2. Conv(x, z, L) = zx
    BY ConvCommutes
  <2>3. Conv(y, zx, L) = Conv(zx, y, L)
    BY <1>2, ConvCommutes
  <2> QED
    BY <2>1, <2>2, <2>3
<1>5. Same(Conv(zx, y, L), Conv(Nil(L), y, L), m, L)
  BY <1>2, SameFactor
<1> QED
  BY <1>1, <1>2, <1>3, <1>4, <1>5, SameEquivalence

(* The product with 1 + X + ... has the sum of the coefficients everywhere.*)
LEMMA ConvOfOnes ==
  ASSUME NEW L \in Nat \ {0}, NEW x \in Polys(L)
  PROVE  /\ [i \in Places(L) |-> 1] \in Polys(L)
         /\ \A k \in Places(L) : Conv([i \in Places(L) |-> 1], x, L)[k] = Sum(x, Places(L))
<1> DEFINE P == Places(L)  y == [i \in P |-> 1]
<1>1. y \in Polys(L) /\ \A i \in P : y[i] = 1
  BY DEF Polys
<1> HIDE DEF y
<1>2. ASSUME NEW k \in P PROVE Conv(y, x, L)[k] = Sum(x, P)
  <2> DEFINE to == [i \in P |-> Left(k, i, L)]  t == [i \in P |-> x[to[i]]]
  <2>1. k \in Int /\ \A i \in P : i \in Int /\ x[i] \in Int
    BY PlacesFinite DEF Polys
  <2>2. \A i \in P : to[i] = Left(k, i, L) /\ to[i] \in P /\ Left(k, to[i], L) = i
    BY <2>1, LeftRound, LeftPlace
  <2>3. to \in [P -> P]
    BY <2>2
  <2>4. \A i, j \in P : to[i] = to[j] => i = j
    BY <2>2
  <2>5. \A j \in P : \E i \in P : to[i] = j
    BY <2>2
  <2>6. Sum(t, P) = Sum(x, P)
    <3> HIDE DEF to
    <3> QED
      BY <2>1, <2>3, <2>4, <2>5, PlacesFinite, SumReindex
  <2>7. \A i \in P : Terms(y, x, k, L)[i] = t[i] /\ Terms(y, x, k, L)[i] \in Int
    BY <1>1, <2>1, <2>2, TermsAreInts
  <2> HIDE DEF t
  <2>8. Sum(Terms(y, x, k, L), P) = Sum(t, P)
    BY <2>7, PlacesFinite, SumEqual
  <2> QED
    BY <2>6, <2>8 DEF Conv
<1> QED
  BY <1>1, <1>2 DEF y


----------------------------------------------------------------------------
(***************************************************************************)
(* Numbers as sums of digits times weights, and the bits of a number above *)
(* a place.                                                                *)
(***************************************************************************)

(* The weights of the digits of a number in base D.                        *)
IsWeights(W, D) == /\ W[0] = 1
                   /\ \A k \in Nat : W[k] \in Nat \ {0} /\ W[k + 1] = D * W[k]

Digit(x, j, W, D) == (x \div W[j]) % D
Digits(x, k, W, D) == [j \in Places(k) |-> Digit(x, j, W, D) * W[j]]

(* One more place.                                                         *)
LEMMA PlacesGrow ==
  ASSUME NEW k \in Nat
  PROVE  /\ Places(k + 1) = Places(k) \cup {k} /\ k \notin Places(k)
         /\ IsFiniteSet(Places(k)) /\ Places(0) = {}
         /\ \A j \in Places(k) : j \in Nat /\ j < k
<1>1. IsFiniteSet(0..(k - 1))
  BY FS_Interval
<1> QED
  BY <1>1 DEF Places

(* One more digit.                                                         *)
LEMMA NextDigit ==
  ASSUME NEW D \in Nat \ {0}, NEW T \in Nat \ {0}, NEW x \in Nat
  PROVE  x % (D * T) = ((x \div T) % D) * T + (x % T)
<1> DEFINE y == x \div T  r == x % T  b == y \div D  c == y % D  M == D * T
<1>1. x = T * y + r /\ y \in Int /\ r \in 0..(T - 1)
  BY DivMod
<1> HIDE DEF y, r
<1>2. y = D * b + c /\ b \in Int /\ c \in 0..(D - 1)
  BY <1>1, DivMod
<1> HIDE DEF b, c
<1>3. M \in Nat \ {0}
  OBVIOUS
<1>4. x = M * b + (c * T + r)
  BY <1>1, <1>2
<1>5. c * T + r \in 0..(M - 1)
  <2>1. c \in Nat /\ r \in Nat /\ c <= D - 1 /\ r <= T - 1
    BY <1>1, <1>2
  <2>2. c * T \in Nat /\ c * T <= (D - 1) * T
    BY <2>1
  <2>3. (D - 1) * T = M - T
    OBVIOUS
  <2> HIDE DEF M
  <2> QED
    BY <1>3, <2>1, <2>2, <2>3
<1> HIDE DEF M
<1>6. x % M = c * T + r
  <2> DEFINE s == c * T + r
  <2>1. s \in 0..(M - 1) /\ x = M * b + s /\ x \in Int
    BY <1>4, <1>5
  <2> HIDE DEF s
  <2>2. x % M = s
    BY <1>2, <1>3, <2>1, QuotientUnique
  <2> QED
    BY <2>2 DEF s
<1> QED
  BY <1>6 DEF M, y, r, c

(* The digits of a number make it up.                                      *)
LEMMA DigitsMakeUp ==
  ASSUME NEW D \in Nat \ {0}, NEW W, IsWeights(W, D), NEW x \in Nat, NEW n \in Nat
  PROVE  Sum(Digits(x, n, W, D), Places(n)) = x % W[n]
<1> DEFINE S == {k \in Nat : Sum(Digits(x, k, W, D), Places(k)) = x % W[k]}
<1>1. \A k \in Nat : W[k] \in Nat \ {0}
  BY DEF IsWeights
<1>2. \A k \in Nat : \A j \in Places(k) : /\ Digits(x, k, W, D)[j] = Digit(x, j, W, D) * W[j]
                                          /\ Digits(x, k, W, D)[j] \in Int
  <2> SUFFICES ASSUME NEW k \in Nat, NEW j \in Places(k)
               PROVE  Digit(x, j, W, D) * W[j] \in Int
    BY DEF Digits
  <2>1. j \in Nat
    BY PlacesGrow
  <2> DEFINE t == W[j]
  <2>2. t \in Nat \ {0}
    BY <1>1, <2>1
  <2> HIDE DEF t
  <2>3. x \div t \in Int
    BY <2>2, DivMod
  <2>4. (x \div t) % D \in Int
    BY <2>3, DivMod
  <2>5. Digit(x, j, W, D) \in Int
    BY <2>4 DEF Digit, t
  <2> QED
    BY <2>2, <2>5 DEF t
<1>3. 0 \in S
  <2>1. Places(0) = {} /\ IsFiniteSet(Places(0))
    BY PlacesGrow
  <2>2. Sum(Digits(x, 0, W, D), Places(0)) = 0
    BY <2>1, SumOfZeros
  <2>3. x % 1 = 0 /\ W[0] = 1
    BY DEF IsWeights
  <2> QED
    BY <2>2, <2>3
<1>4. ASSUME NEW k \in Nat, k \in S PROVE k + 1 \in S
  <2> DEFINE f == Digits(x, k + 1, W, D)  g == Digits(x, k, W, D)  P == Places(k)  T == W[k]
             c == Digit(x, k, W, D)
  <2>1. Places(k + 1) = P \cup {k} /\ k \notin P /\ IsFiniteSet(P) /\ k + 1 \in Nat
    BY PlacesGrow
  <2>2. \A j \in P \cup {k} : f[j] \in Int
    BY <1>2, <2>1
  <2>3. \A j \in P : f[j] \in Int /\ f[j] = g[j]
    BY <1>2, <2>1
  <2>4. f[k] = c * T
    BY <1>2, <2>1
  <2> HIDE DEF f, g
  <2>5. Sum(f, P \cup {k}) = f[k] + Sum(f, P)
    BY <2>1, <2>2, SumAdd
  <2>6. Sum(f, P) = Sum(g, P)
    BY <2>1, <2>3, SumEqual
  <2>7. Sum(g, P) = x % T
    BY <1>4 DEF g
  <2>8. W[k + 1] = D * T /\ T \in Nat \ {0}
    BY DEF IsWeights
  <2> HIDE DEF T
  <2>9. x % (D * T) = c * T + (x % T)
    BY <2>8, NextDigit DEF c, Digit, T
  <2> HIDE DEF c
  <2>10. x % W[k + 1] = c * T + (x % T)
    BY <2>8, <2>9
  <2> DEFINE r == x % T  u == c * T
  <2>11. Sum(f, Places(k + 1)) = u + r
    <3>1. Sum(f, Places(k + 1)) = f[k] + Sum(f, P)
      BY <2>1, <2>5
    <3>2. f[k] = u /\ Sum(f, P) = r
      BY <2>4, <2>6, <2>7
    <3> HIDE DEF u, r
    <3> QED
      BY <3>1, <3>2
  <2> QED
    BY <2>10, <2>11 DEF f
<1> HIDE DEF S
<1>5. n \in S
  BY <1>3, <1>4, Induction
<1> QED
  BY <1>5 DEF S

(* The powers of two are the weights of base 2.                            *)
LEMMA BitWeights == IsWeights(two_to, 2) /\ 2 \in Nat \ {0}
  BY TwoTo DEF IsWeights

(***************************************************************************)
(* Numbers as strings of bits.                                             *)
(***************************************************************************)

(* What is left of a number without its e lowest bits.                     *)
High(u, e) == u \div two_to[e]

(* The powers of two, without BigNum's definition.                         *)
LEMMA TwoType == \A k \in Nat : two_to[k] \in Nat \ {0}
  BY TwoTo

(* The power of a sum of exponents.                                        *)
LEMMA TwoAdd ==
  ASSUME NEW j \in Nat, NEW k \in Nat
  PROVE  two_to[j + k] = two_to[j] * two_to[k]
<1> DEFINE S == {n \in Nat : two_to[j + n] = two_to[j] * two_to[n]}
<1>1. 0 \in S
  <2>1. j + 0 = j /\ two_to[0] = 1 /\ two_to[j] \in Nat
    BY TwoTo
  <2> QED
    BY <2>1
<1>2. ASSUME NEW n \in Nat, n \in S PROVE n + 1 \in S
  <2> DEFINE x == two_to[j]  y == two_to[n]  z == two_to[j + n]
  <2>1. x \in Nat /\ y \in Nat /\ z \in Nat /\ z = x * y
    BY <1>2, TwoTo
  <2>2. two_to[n + 1] = 2 * y /\ two_to[(j + n) + 1] = 2 * z /\ (j + n) + 1 = j + (n + 1)
    BY TwoTo
  <2> HIDE DEF x, y, z
  <2>3. 2 * z = x * (2 * y)
    BY <2>1
  <2>4. two_to[j + (n + 1)] = x * two_to[n + 1]
    BY <2>2, <2>3
  <2> QED
    BY <2>4 DEF x
<1> HIDE DEF S
<1>3. k \in S
  BY <1>1, <1>2, Induction
<1> QED
  BY <1>3 DEF S

(* Quotients of natural numbers are natural numbers.                       *)
LEMMA QuotientNat ==
  ASSUME NEW m \in Nat \ {0}, NEW x \in Nat
  PROVE  x \div m \in Nat
<1> DEFINE b == x \div m  r == x % m
<1>0. x \in Int
  OBVIOUS
<1>1. x = m * b + r /\ b \in Int /\ r \in 0..(m - 1)
  BY <1>0, DivMod
<1> HIDE DEF b, r
<1>2. b >= 0
  <2> SUFFICES ASSUME b <= -1 PROVE FALSE
    BY <1>1
  <2>1. m * b <= m * (-1)
    BY <1>1
  <2> QED
    BY <1>1, <2>1
<1> QED
  BY <1>1, <1>2 DEF b

(* Dividing twice is dividing by the product.                              *)
LEMMA QuotientTwice ==
  ASSUME NEW m \in Nat \ {0}, NEW n \in Nat \ {0}, NEW x \in Nat
  PROVE  (x \div m) \div n = x \div (m * n)
<1> DEFINE b == x \div m  r == x % m  c == b \div n  s == b % n  mn == m * n  t == m * s + r
<1>0. x \in Int
  OBVIOUS
<1>1. x = m * b + r /\ b \in Int /\ r \in 0..(m - 1)
  BY <1>0, DivMod
<1>2. b = n * c + s /\ c \in Int /\ s \in 0..(n - 1)
  <2> HIDE DEF b
  <2> QED
    BY <1>1, DivMod
<1> HIDE DEF b, r, c, s
<1>3. mn \in Nat \ {0}
  OBVIOUS
<1>4. x = mn * c + t
  BY <1>1, <1>2
<1>5. t \in 0..(mn - 1)
  <2>1. s \in Nat /\ r \in Nat /\ s <= n - 1 /\ r <= m - 1
    BY <1>1, <1>2
  <2>2. m * s \in Nat /\ m * s <= m * (n - 1)
    BY <2>1
  <2>3. m * (n - 1) = mn - m
    OBVIOUS
  <2> HIDE DEF mn
  <2> QED
    BY <1>3, <2>1, <2>2, <2>3
<1> HIDE DEF mn, t
<1>6. x \div mn = c
  BY <1>2, <1>3, <1>4, <1>5, QuotientUnique
<1> QED
  BY <1>6 DEF mn, c, b

(* Cutting low bits off twice.                                             *)
LEMMA HighAdd ==
  ASSUME NEW u \in Nat, NEW j \in Nat, NEW k \in Nat
  PROVE  /\ High(u, j) \in Nat
         /\ High(High(u, j), k) = High(u, j + k)
<1>1. two_to[j] \in Nat \ {0} /\ two_to[k] \in Nat \ {0}
  BY TwoTo
<1>2. (u \div two_to[j]) \div two_to[k] = u \div (two_to[j] * two_to[k])
  BY <1>1, QuotientTwice
<1>3. u \div two_to[j] \in Nat
  BY <1>1, QuotientNat
<1> QED
  BY <1>2, <1>3, TwoAdd DEF High

(* The next k bits.                                                        *)
LEMMA HighSplit ==
  ASSUME NEW u \in Nat, NEW j \in Nat, NEW k \in Nat
  PROVE  /\ High(u, j) = High(u, j + k) * two_to[k] + (High(u, j) % two_to[k])
         /\ High(u, j) % two_to[k] \in 0..(two_to[k] - 1)
<1> DEFINE x == High(u, j)  m == two_to[k]  b == x \div m
<1>1. x \in Nat /\ High(x, k) = High(u, j + k)
  BY HighAdd
<1>0. m \in Nat \ {0}
  BY TwoTo
<1>2. High(x, k) = b
  BY DEF High
<1> HIDE DEF x, m
<1> DEFINE r == x % m
<1>3. x \in Int /\ x = m * b + r /\ b \in Int /\ r \in 0..(m - 1)
  BY <1>0, <1>1, DivMod
<1> HIDE DEF b, r
<1>4. x = b * m + r
  BY <1>0, <1>3
<1> QED
  BY <1>1, <1>2, <1>3, <1>4 DEF x, m, r

(* Cutting off no bit.                                                     *)
LEMMA HighZero ==
  ASSUME NEW u \in Nat
  PROVE  High(u, 0) = u
<1>1. two_to[0] = 1 /\ u \div 1 = u
  BY TwoTo
<1> QED
  BY <1>1 DEF High

(* The quotient of x followed by y, and of what y only adds to.            *)
LEMMA QuotientOfSum ==
  ASSUME NEW m \in Nat \ {0}, NEW n \in Nat \ {0}, NEW x \in Nat, NEW y \in Nat
  PROVE  (x * (m * n) + y) \div n = x * m + y \div n
<1> DEFINE c == y \div n  r == y % n  u == x * (m * n) + y  e == x * m
<1>1. y = n * c + r /\ c \in Int /\ r \in 0..(n - 1)
  BY DivMod
<1> HIDE DEF c, r
<1>2. e \in Int /\ x * (m * n) = n * e /\ u \in Int
  <2>1. m * n \in Nat
    OBVIOUS
  <2> QED
    BY <2>1
<1>3. u = n * (e + c) + r
  BY <1>1, <1>2
<1> HIDE DEF u, e
<1>4. e + c \in Int
  BY <1>1, <1>2
<1>5. u \div n = e + c
  BY <1>1, <1>2, <1>3, <1>4, QuotientUnique
<1> QED
  BY <1>5 DEF u, e, c

(* Some number has the given digits, the first one highest.                *)
LEMMA NumberOfDigits ==
  ASSUME NEW k \in Nat, NEW n \in Nat, NEW f, \A i \in Places(n) : f[i] \in 0..(two_to[k] - 1)
  PROVE  \E u \in Nat : /\ High(u, k * n) = 0
                        /\ \A i \in Places(n) : High(u, k * (n - 1 - i)) % two_to[k] = f[i]
<1> DEFINE Made(u, j) == /\ High(u, k * j) = 0
                         /\ \A i \in Places(j) : High(u, k * (j - 1 - i)) % two_to[k] = f[i]
           S == {j \in Nat : j <= n => \E u \in Nat : Made(u, j)}
<1>1. 0 \in S
  <2>1. k * 0 = 0 /\ 0 \in Nat
    OBVIOUS
  <2>2. High(0, 0) = 0
    BY <2>1, HighZero
  <2>3. Made(0, 0)
    BY <2>1, <2>2, PlacesGrow
  <2> HIDE DEF Made
  <2> QED
    BY <2>1, <2>3
<1>2. ASSUME NEW j \in Nat, j \in S PROVE j + 1 \in S
  <2> SUFFICES ASSUME j + 1 <= n PROVE \E u \in Nat : Made(u, j + 1)
    OBVIOUS
  <2>1. PICK u \in Nat : Made(u, j)
    BY <1>2
  <2> DEFINE m == two_to[k]  x == f[j]  v == u * m + x
  <2>2. m \in Nat \ {0} /\ x \in Nat /\ x \in 0..(m - 1) /\ v \in Nat
    <3>1. j \in Places(n) /\ m \in Nat \ {0}
      BY TwoTo DEF Places
    <3>2. x \in 0..(m - 1)
      BY <3>1
    <3> HIDE DEF m, x
    <3> QED
      BY <3>1, <3>2
  <2>3. High(v, k) = u /\ v % m = x
    <3> HIDE DEF m, x
    <3>1. v = m * u + x
      BY <2>2
    <3> HIDE DEF v
    <3>2. v \div m = u /\ v % m = x
      BY <2>2, <3>1, QuotientUnique
    <3> QED
      BY <3>2 DEF High, m
  <2> HIDE DEF v, x
  <2>4. \A e \in Nat : High(v, k + e) = High(u, e)
    BY <2>2, <2>3, HighAdd
  <2>5. High(v, k * (j + 1)) = 0
    <3>1. k * (j + 1) = k + k * j /\ k * j \in Nat
      OBVIOUS
    <3> QED
      BY <2>1, <2>4, <3>1
  <2>6. ASSUME NEW i \in Places(j + 1)
        PROVE  High(v, k * ((j + 1) - 1 - i)) % m = f[i]
    <3>1. CASE i = j
      <4>1. k * ((j + 1) - 1 - i) = 0
        BY <3>1
      <4>2. High(v, 0) = v
        BY <2>2, HighZero
      <4> QED
        BY <2>3, <3>1, <4>1, <4>2 DEF x
    <3>2. CASE i # j
      <4>1. i \in Places(j) /\ i \in Nat /\ i < j
        BY <3>2, PlacesGrow
      <4> DEFINE e == k * (j - 1 - i)
      <4>2. k * ((j + 1) - 1 - i) = k + e /\ e \in Nat
        <5>1. j - 1 - i \in Nat /\ (j + 1) - 1 - i = (j - 1 - i) + 1
          BY <4>1
        <5> DEFINE l == j - 1 - i
        <5> HIDE DEF l
        <5>2. k * (l + 1) = k + k * l /\ k * l \in Nat
          BY <5>1 DEF l
        <5> QED
          BY <5>1, <5>2 DEF l
      <4>3. High(u, e) % m = f[i]
        BY <2>1, <4>1
      <4> HIDE DEF e
      <4> QED
        BY <2>4, <4>2, <4>3
    <3> QED
      BY <3>1, <3>2
  <2> QED
    BY <2>2, <2>5, <2>6
<1> HIDE DEF S
<1>3. n \in S
  BY <1>1, <1>2, Induction
<1>4. \E u \in Nat : Made(u, n)
  BY <1>3 DEF S
<1> QED
  BY <1>4

(* There is a number with given digits.                                    *)
LEMMA DigitsExist ==
  ASSUME NEW D \in Nat \ {0}, NEW W, IsWeights(W, D), NEW n \in Nat,
         NEW f \in [Places(n) -> 0..(D - 1)]
  PROVE  \E x \in 0..(W[n] - 1) : \A j \in Places(n) : Digit(x, j, W, D) = f[j]
<1> DEFINE Has(x, h, k) == \A j \in Places(k) : Digit(x, j, W, D) = h[j]
           S == {k \in Nat : \A h \in [Places(k) -> 0..(D - 1)] : \E x \in 0..(W[k] - 1) : Has(x, h, k)}
<1>1. W[0] = 1 /\ \A k \in Nat : W[k] \in Nat \ {0} /\ W[k + 1] = D * W[k]
  BY DEF IsWeights
<1>2. 0 \in S
  <2>1. Places(0) = {} /\ 0 \in 0..(W[0] - 1)
    BY <1>1, PlacesGrow
  <2> QED
    BY <2>1
<1>3. ASSUME NEW k \in Nat, k \in S PROVE k + 1 \in S
  <2> SUFFICES ASSUME NEW h \in [Places(k + 1) -> 0..(D - 1)]
               PROVE  \E x \in 0..(W[k + 1] - 1) : Has(x, h, k + 1)
    OBVIOUS
  <2> DEFINE g == [j \in Places(k) |-> h[j + 1]]
  <2>1. /\ \A j \in Places(k) : j \in Nat /\ j + 1 \in Places(k + 1)
        /\ \A j \in Places(k + 1) : j \in Nat /\ j < k + 1
        /\ 0 \in Places(k + 1)
    BY DEF Places
  <2>2. g \in [Places(k) -> 0..(D - 1)]
    BY <2>1
  <2> HIDE DEF g
  <2>3. PICK y \in 0..(W[k] - 1) : Has(y, g, k)
    BY <1>3, <2>2
  <2> DEFINE T == W[k]  h0 == h[0]  x == D * y + h0
  <2>4. T \in Nat \ {0} /\ W[k + 1] = D * T /\ h0 \in 0..(D - 1)
    BY <1>1, <2>1
  <2>5. y \in Nat /\ y <= T - 1
    BY <2>4
  <2> HIDE DEF T, h0
  <2>6. x \in Nat /\ x <= D * T - 1
    <3>1. D * y <= D * (T - 1) /\ D * (T - 1) = D * T - D /\ D * y \in Nat /\ D * T \in Nat
      BY <2>4, <2>5
    <3> DEFINE dy == D * y  dt == D * T
    <3>2. dy \in Nat /\ dt \in Nat /\ dy <= dt - D
      BY <3>1
    <3> HIDE DEF dy, dt
    <3>3. dy + h0 \in Nat /\ dy + h0 <= dt - 1
      BY <2>4, <3>2
    <3> QED
      BY <3>3 DEF dy, dt
  <2>7. x \in Int /\ x = D * y + h0
    BY <2>6
  <2> HIDE DEF x
  <2>8. x \div D = y /\ x % D = h0
    <3>1. D \in Nat \ {0} /\ x \in Int /\ y \in Int /\ h0 \in 0..(D - 1) /\ x = D * y + h0
      BY <2>4, <2>5, <2>7
    <3>2. \A m_ \in Nat \ {0}, x_ \in Int, b_ \in Int : \A r_ \in 0..(m_ - 1) :
            x_ = m_ * b_ + r_ => x_ \div m_ = b_ /\ x_ % m_ = r_
      BY QuotientUnique
    <3> QED
      BY <3>1, <3>2, Zenon

  <2>9. ASSUME NEW j \in Places(k + 1) PROVE Digit(x, j, W, D) = h[j]
    <3>1. CASE j = 0
      <4>1. x \div 1 = x
        BY <2>6
      <4>2. Digit(x, 0, W, D) = x % D
        BY <1>1, <4>1 DEF Digit
      <4> QED
        BY <2>8, <3>1, <4>2 DEF h0
    <3>2. CASE j # 0
      <4> DEFINE i == j - 1
      <4>1. i \in Nat /\ i + 1 = j /\ i \in Places(k)
        BY <2>1, <3>2 DEF Places
      <4> HIDE DEF i
      <4>2. W[i] \in Nat \ {0} /\ W[j] = D * W[i]
        BY <1>1, <4>1
      <4>3. (x \div D) \div W[i] = x \div (D * W[i])
        BY <2>6, <4>2, QuotientTwice
      <4>4. Digit(x, j, W, D) = Digit(y, i, W, D)
        BY <2>8, <4>2, <4>3 DEF Digit
      <4>5. Digit(y, i, W, D) = h[i + 1]
        BY <2>3, <4>1 DEF g
      <4> QED
        BY <4>1, <4>4, <4>5
    <3> QED
      BY <3>1, <3>2
  <2>10. x \in 0..(W[k + 1] - 1)
    <3> DEFINE dt == D * T
    <3>1. dt \in Nat /\ W[k + 1] = dt /\ x <= dt - 1
      BY <2>4, <2>6
    <3> HIDE DEF dt
    <3> QED
      BY <2>6, <3>1
  <2> QED
    BY <2>9, <2>10
<1>4. \A k \in Nat : k \in S
  <2> HIDE DEF S
  <2> QED
    BY <1>2, <1>3, Induction
<1> QED
  BY <1>4

(* A number written with the highest digit first, and its digits.          *)
LEMMA DigitsOfSum ==
  ASSUME NEW D \in Nat \ {0}, NEW W, IsWeights(W, D), NEW n \in Nat,
         NEW f \in [Places(n) -> 0..(D - 1)],
         NEW h, \A j \in Places(n) : h[j] = f[j] * W[n - 1 - j]
  PROVE  /\ Sum(h, Places(n)) \in 0..(W[n] - 1)
         /\ \A j \in Places(n) : (Sum(h, Places(n)) \div W[n - 1 - j]) % D = f[j]
<1> DEFINE P == Places(n)  to == [j \in P |-> n - 1 - j]  g == [j \in P |-> f[to[j]]]
<1>1. to \in [P -> P] /\ \A j \in P : to[j] = n - 1 - j /\ to[to[j]] = j
  BY DEF Places
<1>2. IsFiniteSet(P) /\ \A j \in P : j \in Nat
  BY PlacesGrow
<1>3. \A k \in Nat : W[k] \in Nat \ {0}
  BY DEF IsWeights
<1> HIDE DEF to, P
<1>4. g \in [P -> 0..(D - 1)]
  BY <1>1 DEF P
<1>5. PICK x \in 0..(W[n] - 1) : \A j \in P : Digit(x, j, W, D) = g[j]
  <2> HIDE DEF g
  <2> QED
    BY <1>4, DigitsExist DEF P
<1> DEFINE dx == Digits(x, n, W, D)
<1>6. \A j \in P : dx[j] = f[to[j]] * W[j]
  BY <1>5 DEF Digits, P
<1>7. \A j \in P : dx[to[j]] = h[j] /\ dx[j] \in Int
  <2> SUFFICES ASSUME NEW j \in P PROVE dx[to[j]] = h[j] /\ dx[j] \in Int
    OBVIOUS
  <2>1. to[j] \in P /\ to[to[j]] = j /\ to[j] = n - 1 - j
    BY <1>1
  <2>2. dx[to[j]] = f[to[to[j]]] * W[to[j]]
    BY <1>6, <2>1
  <2>3. h[j] = f[j] * W[n - 1 - j]
    BY DEF P
  <2>4. f[to[j]] \in Int /\ W[j] \in Int
    BY <1>2, <1>3, <2>1 DEF P
  <2>5. dx[j] \in Int
    BY <1>6, <2>4
  <2> QED
    BY <2>1, <2>2, <2>3, <2>5
<1>8. x \in Nat /\ x % W[n] = x
  <2> DEFINE T == W[n]
  <2>1. T \in Nat \ {0} /\ x \in 0..(T - 1)
    BY <1>3
  <2> HIDE DEF T
  <2>2. x \in Nat /\ x % T = x
    BY <2>1
  <2> QED
    BY <2>2 DEF T
<1>9. Sum(dx, P) = x
  BY <1>8, DigitsMakeUp DEF P
<1> HIDE DEF dx
<1>10. Sum([j \in P |-> dx[to[j]]], P) = Sum(dx, P)
  <2>1. \A j, k \in P : to[j] = to[k] => j = k
    BY <1>1
  <2>2. \A k \in P : \E j \in P : to[j] = k
    BY <1>1
  <2> QED
    BY <1>1, <1>2, <1>7, <2>1, <2>2, SumReindex
<1>11. Sum([j \in P |-> dx[to[j]]], P) = Sum(h, P)
  <2> DEFINE e == [j \in P |-> dx[to[j]]]
  <2>1. \A j \in P : e[j] \in Int /\ e[j] = h[j]
    BY <1>1, <1>7
  <2> HIDE DEF e
  <2>2. Sum(e, P) = Sum(h, P)
    BY <1>2, <2>1, SumEqual
  <2> QED
    BY <2>2 DEF e
<1>12. Sum(h, P) = x
  BY <1>9, <1>10, <1>11
<1>13. ASSUME NEW j \in P PROVE (x \div W[n - 1 - j]) % D = f[j]
  <2>1. to[j] \in P /\ to[to[j]] = j /\ to[j] = n - 1 - j
    BY <1>1
  <2>2. Digit(x, to[j], W, D) = f[j]
    BY <1>5, <2>1
  <2> QED
    BY <2>1, <2>2 DEF Digit
<1> QED
  BY <1>12, <1>13 DEF P
=============================================================================
