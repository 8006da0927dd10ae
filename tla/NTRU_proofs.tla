---------------------------- MODULE NTRU_proofs ----------------------------
(***************************************************************************)
(* Theorems about NTRUEncrypt: key generation (NTRUKeyGen), encryption and *)
(* the equality test of the driver (NTRUTest), packing (NTRURing), and the *)
(* interface that packs keys and ciphertexts (NTRUApi).                    *)
(*                                                                         *)
(* For key generation the invariant is KeyInv: the loop's sets of powers   *)
(* stay within the degrees the code keeps (Shape, Room), their constant    *)
(* terms are what the loop relies on (Ends), and b and c relate f and g to *)
(* the secret (Related, from which AlmostInverse follows); when the loop   *)
(* is left, Newton's iteration squares the modulus to which f_inv is the   *)
(* inverse.  For the driver it is DriverInv: a ciphertext times the secret *)
(* is congruent to the coefficients e that decryption must recover, and e  *)
(* to the padded text modulo 3 (Carries).  For packing the elements are    *)
(* bits of one number, of which each turn takes the next; for the          *)
(* interface the invariant is ApiInv: the packed keys say the keys, and    *)
(* the octets on their way say the text, the last of them apart.           *)
(*                                                                         *)
(* The end of the module is about the random sources of NTRU, which Kyber  *)
(* has copies of, for lengths of any size: SeedExpander implements         *)
(* ByteSource; the words of the pool are fresh when the streams it is      *)
(* filled with are different; and these are different because the blocks   *)
(* of the generator, of which their keys are made, are.                    *)
(***************************************************************************)
EXTENDS NTRUTest, NTRUApi, RandomPool, SeedExpander, ModLemmas

----------------------------------------------------------------------------
(***************************************************************************)
(* Key generation: the state of the loop of ntru_ring_inv and what its     *)
(* steps keep.                                                             *)
(***************************************************************************)

(* The least element of a set of numbers, as Min of the community module.  *)
LEMMA LeastOf ==
  ASSUME NEW S \in SUBSET Nat, S # {}
  PROVE  Min(S) \in S /\ \A y \in S : Min(S) <= y
<1>1. \E x \in S : \A y \in S : x <= y
  BY LeastElement
<1> QED
  BY <1>1 DEF Min

(* The greatest element of a bounded set, as Max of the community module.  *)
LEMMA GreatestOf ==
  ASSUME NEW n \in Nat, NEW S \in SUBSET (0..n), S # {}
  PROVE  Max(S) \in S /\ \A y \in S : y <= Max(S)
<1> DEFINE T == {n - y : y \in S}
<1>1. T \in SUBSET Nat /\ T # {}
  <2>1. \A y \in S : y \in 0..n
    OBVIOUS
  <2>2. \A y \in 0..n : n - y \in Nat
    OBVIOUS
  <2> QED
    BY <2>1, <2>2
<1>2. PICK x \in T : \A y \in T : x <= y
  <2> HIDE DEF T
  <2> QED
    BY <1>1, LeastElement
<1>3. PICK z \in S : x = n - z
  BY <1>2
<1>4. \A y \in S : z >= y
  <2> TAKE y \in S
  <2>1. x <= n - y
    BY <1>2
  <2> QED
    BY <1>3, <2>1
<1>5. Max(S) \in S /\ \A y \in S : Max(S) >= y
  BY <1>4 DEF Max
<1>6. \A y \in 0..n : \A e \in 0..n : y >= e => e <= y
  OBVIOUS
<1>7. Max(S) \in 0..n /\ \A y \in S : y \in 0..n
  BY <1>5
<1> QED
  BY <1>5, <1>6, <1>7

(***************************************************************************)
(* The loop of ntru_ring_inv.  The degrees bound the polynomials beside    *)
(* them; those of b and g, and of c and f, leave room for each other below *)
(* N, and where they use it up the leading coefficient is there.           *)
(***************************************************************************)
LoopState ==
  [f : SUBSET Nat, g : SUBSET Nat, b : SUBSET Nat, c : SUBSET Nat,
   deg_f : Nat, deg_g : Nat, deg_b : Nat, deg_c : Nat,
   k : Nat, c_low : BOOLEAN]

Within(x) ==
  /\ x.f \subseteq 0..x.deg_f /\ x.g \subseteq 0..x.deg_g
  /\ x.b \subseteq 0..x.deg_b /\ x.c \subseteq 0..x.deg_c

Room(x) ==
  /\ x.deg_b + x.deg_g <= N /\ x.deg_c + x.deg_f <= N
  /\ x.deg_b + x.deg_g = N => x.deg_b \in x.b
  /\ x.deg_c + x.deg_f = N => x.deg_c \in x.c

Ends(x) ==
  /\ x.deg_g >= 1 /\ x.deg_c < N
  /\ 0 \in x.g /\ 0 \in x.b
  /\ 0 \in x.f => 0 \notin x.c /\ x.deg_f < N

Shape(x) == x \in LoopState /\ Within(x) /\ Room(x) /\ Ends(x)

(* f and g have constant terms, one of b and c has.                        *)
Divided(x) ==
  /\ x \in LoopState /\ Within(x) /\ Room(x)
  /\ x.deg_g >= 1 /\ x.deg_f < N
  /\ 0 \in x.f /\ 0 \in x.g /\ 0 \in x.b /\ 0 \notin x.c

(* There are at least three coefficients.                                  *)
LEMMA NPositive == N \in Nat \ {0} /\ N >= 3
<1>1. N \in Nat /\ d \in Nat \ {0} /\ CoeffsPerWord \in Nat \ {0}
  BY RingAssumption
<1>2. 2 * (d + CoeffsPerWord) <= N + 1
  BY WeightAssumption
<1> QED
  BY <1>1, <1>2

(* Dividing f by a power of X: c never leaves its array but for a byte of  *)
(* b that is right as it is.                                               *)
LEMMA DivideKeeps ==
  ASSUME NEW x, Shape(x), x.f # {}
  PROVE  /\ Divided(divide(x))
         /\ Min(x.f) \in x.f /\ Min(x.f) \in Nat
         /\ divide(x) = [x EXCEPT !.k = x.k + Min(x.f), !.f = Shift(x.f, -Min(x.f)),
                                  !.deg_f = x.deg_f - Min(x.f),
                                  !.c = Shift(x.c, Min(x.f)), !.deg_c = x.deg_c + Min(x.f)]
         /\ divide(x).deg_c >= N => divide(x).deg_f = 0
<1> DEFINE i == Min(x.f)
           y == [x EXCEPT !.k = x.k + i, !.f = Shift(x.f, -i),
                          !.deg_f = x.deg_f - i,
                          !.c = Shift(x.c, i), !.deg_c = x.deg_c + i]
<1>1. N \in Nat \ {0}
  BY NPositive
<1>2. x \in LoopState
  BY DEF Shape
<1>3. i \in x.f /\ \A e \in x.f : i <= e
  BY <1>2, LeastOf DEF LoopState
<1>4. x.f \subseteq 0..x.deg_f /\ x.g \subseteq 0..x.deg_g
      /\ x.b \subseteq 0..x.deg_b /\ x.c \subseteq 0..x.deg_c
  BY DEF Shape, Within
<1>5. x.deg_f \in Nat /\ x.deg_g \in Nat /\ x.deg_b \in Nat /\ x.deg_c \in Nat /\ x.k \in Nat
      /\ x.f \subseteq Nat /\ x.c \subseteq Nat /\ x.c_low \in BOOLEAN
  BY <1>2 DEF LoopState
<1>6. i \in Nat /\ i <= x.deg_f
  BY <1>3, <1>4, <1>5
<1> HIDE DEF i
<1>7. /\ x.deg_b + x.deg_g <= N /\ x.deg_c + x.deg_f <= N
      /\ x.deg_b + x.deg_g = N => x.deg_b \in x.b
      /\ x.deg_c + x.deg_f = N => x.deg_c \in x.c
  BY DEF Shape, Room
<1>8. /\ x.deg_g >= 1 /\ x.deg_c < N
      /\ 0 \in x.g /\ 0 \in x.b
      /\ 0 \in x.f => 0 \notin x.c /\ x.deg_f < N
  BY DEF Shape, Ends
<1>9. {e \in x.c : e <= x.deg_c} = x.c
  BY <1>4, <1>5
<1>10. Shift(x.f, -i) \subseteq 0..(x.deg_f - i) /\ 0 \in Shift(x.f, -i)
  <2>1. \A e \in x.f : e + (-i) \in 0..(x.deg_f - i)
    BY <1>3, <1>4, <1>5, <1>6
  <2>2. i + (-i) = 0
    BY <1>6
  <2> QED
    BY <1>3, <2>1, <2>2 DEF Shift
<1>11. Shift(x.c, i) \subseteq 0..(x.deg_c + i) /\ (x.deg_c \in x.c => x.deg_c + i \in Shift(x.c, i))
  <2>1. \A e \in x.c : e + i \in 0..(x.deg_c + i)
    BY <1>4, <1>5, <1>6
  <2> QED
    BY <2>1 DEF Shift
<1>12. 0 \notin Shift(x.c, i)
  <2> SUFFICES ASSUME NEW e \in x.c, e + i = 0 PROVE FALSE
    BY DEF Shift
  <2>1. e = 0 /\ i = 0
    BY <1>5, <1>6
  <2> QED
    BY <1>3, <1>8, <2>1
<1>13. y.k = x.k + i /\ y.f = Shift(x.f, -i) /\ y.deg_f = x.deg_f - i /\ y.c = Shift(x.c, i)
       /\ y.deg_c = x.deg_c + i /\ y.g = x.g /\ y.b = x.b /\ y.deg_g = x.deg_g /\ y.deg_b = x.deg_b
       /\ y.c_low = x.c_low
  BY <1>2 DEF LoopState
<1>14. y \in LoopState
  <2>1. x.k + i \in Nat /\ x.deg_f - i \in Nat /\ x.deg_c + i \in Nat
    BY <1>5, <1>6
  <2>2. Shift(x.f, -i) \in SUBSET Nat /\ Shift(x.c, i) \in SUBSET Nat
    BY <1>10, <1>11, <2>1
  <2> QED
    BY <1>2, <2>1, <2>2 DEF LoopState
<1>15. i > 0 /\ x.c_low /\ x.deg_c + i >= N
         => (x.b \ {0}) \cup {e - N : e \in Shift(x.c, i) \cap {N}} = x.b
  <2> SUFFICES ASSUME i > 0, x.deg_c + i >= N
               PROVE  (x.b \ {0}) \cup {e - N : e \in Shift(x.c, i) \cap {N}} = x.b
    OBVIOUS
  <2>1. i = x.deg_f /\ x.deg_c + x.deg_f = N
    BY <1>1, <1>5, <1>6, <1>7
  <2>2. N \in Shift(x.c, i)
    BY <1>7, <1>11, <2>1
  <2>3. N - N = 0
    BY <1>1
  <2>4. Shift(x.c, i) \cap {N} = {N}
    BY <2>2
  <2>5. {e - N : e \in {N}} = {0}
    BY <2>3
  <2> QED
    BY <1>8, <2>4, <2>5
<1>16. divide(x) = y
  <2> DEFINE over == i > 0 /\ x.c_low /\ x.deg_c + i >= N
             b0 == IF over THEN (x.b \ {0}) \cup {e - N : e \in Shift(x.c, i) \cap {N}} ELSE x.b
  <2>1. divide(x) = [x EXCEPT !.k = x.k + i, !.f = Shift(x.f, -i), !.deg_f = x.deg_f - i,
                !.c = Shift(x.c, i), !.deg_c = x.deg_c + i, !.b = b0]
    BY <1>9 DEF divide, i
  <2>2. b0 = x.b
    BY <1>15
  <2> HIDE DEF b0
  <2>3. [x EXCEPT !.k = x.k + i, !.f = Shift(x.f, -i), !.deg_f = x.deg_f - i,
                !.c = Shift(x.c, i), !.deg_c = x.deg_c + i, !.b = x.b] = y
    BY <1>2 DEF LoopState
  <2> QED
    BY <2>1, <2>2, <2>3
<1> HIDE DEF y
<1>17. Within(y)
  BY <1>4, <1>10, <1>11, <1>13 DEF Within
<1>18. Room(y)
  <2>1. y.deg_c + y.deg_f = x.deg_c + x.deg_f
    BY <1>5, <1>6, <1>13
  <2> QED
    BY <1>7, <1>11, <1>13, <2>1 DEF Room
<1>19. y.deg_f < N
  <2>1. CASE i = 0
    BY <1>3, <1>5, <1>8, <1>13, <2>1
  <2>2. CASE i # 0
    BY <1>1, <1>5, <1>6, <1>7, <1>13, <2>2
  <2> QED
    BY <2>1, <2>2
<1>20. Divided(y)
  BY <1>8, <1>10, <1>12, <1>13, <1>14, <1>17, <1>18, <1>19 DEF Divided
<1>21. y.deg_c >= N => y.deg_f = 0
  <2>1. y.deg_c = x.deg_c + i /\ y.deg_f = x.deg_f - i
    BY <1>13
  <2>2. x.deg_c + x.deg_f <= N
    BY <1>7
  <2> QED
    BY <1>1, <1>5, <1>6, <2>1, <2>2
<1> QED
  BY <1>3, <1>6, <1>16, <1>20, <1>21 DEF i, y

(* After the exchange the degree of f is the larger one, both constant     *)
(* terms are 1, and exactly one of b and c has a constant term.            *)
LEMMA ExchangeKeeps ==
  ASSUME NEW x, Divided(x), x.deg_f # 0
  PROVE  /\ exchange(x) \in LoopState /\ Within(exchange(x)) /\ Room(exchange(x))
         /\ exchange(x).deg_f >= exchange(x).deg_g
         /\ exchange(x).deg_g >= 1 /\ exchange(x).deg_g < N
         /\ 0 \in exchange(x).f /\ 0 \in exchange(x).g
         /\ 0 \in exchange(x).b <=> 0 \notin exchange(x).c
<1>1. N \in Nat \ {0}
  BY NPositive
<1>2. x \in LoopState /\ Within(x) /\ Room(x) /\ x.deg_g >= 1 /\ x.deg_f < N
      /\ 0 \in x.f /\ 0 \in x.g /\ 0 \in x.b /\ 0 \notin x.c
  BY DEF Divided
<1>3. x.deg_f \in Nat /\ x.deg_g \in Nat /\ x.deg_b \in Nat /\ x.deg_c \in Nat
  BY <1>2 DEF LoopState
<1>4. CASE x.deg_f >= x.deg_g
  <2>1. exchange(x) = x
    BY <1>4 DEF exchange
  <2>2. x.deg_g < N
    BY <1>1, <1>2, <1>3, <1>4
  <2> QED
    BY <1>2, <1>4, <2>1, <2>2
<1>5. CASE ~(x.deg_f >= x.deg_g)
  <2> DEFINE y == [f |-> x.g, g |-> x.f, b |-> x.c, c |-> x.b,
        deg_f |-> x.deg_g, deg_g |-> x.deg_f,
        deg_b |-> x.deg_c, deg_c |-> x.deg_b,
        k |-> x.k, c_low |-> ~x.c_low]
  <2>1. exchange(x) = y
    BY <1>5 DEF exchange
  <2>2. y \in LoopState
    BY <1>2 DEF LoopState
  <2>3. Within(y)
    BY <1>2 DEF Within
  <2>4. Room(y)
    BY <1>2 DEF Room
  <2>5. y.deg_f >= y.deg_g /\ y.deg_g >= 1 /\ y.deg_g < N
    BY <1>1, <1>2, <1>3, <1>5
  <2>6. 0 \in y.f /\ 0 \in y.g /\ 0 \notin y.b /\ 0 \in y.c
    BY <1>2
  <2> HIDE DEF y
  <2> QED
    BY <2>1, <2>2, <2>3, <2>4, <2>5, <2>6
<1> QED
  BY <1>4, <1>5

(* TopIn finds the highest power, or 0 when there is none.                 *)
LEMMA TopKeeps ==
  ASSUME NEW n \in Nat, NEW S \in SUBSET (0..n)
  PROVE  /\ TopIn(S, n) \in 0..n
         /\ S \subseteq 0..TopIn(S, n)
         /\ S # {} => TopIn(S, n) \in S
         /\ S = {} => TopIn(S, n) = 0
<1>1. {e \in S : e <= n} = S
  <2>1. \A e \in 0..n : e <= n
    OBVIOUS
  <2> QED
    BY <2>1
<1>2. CASE S = {}
  BY <1>1, <1>2 DEF TopIn
<1>3. CASE S # {}
  <2>1. Max(S) \in S /\ \A y \in S : y <= Max(S)
    BY <1>3, GreatestOf
  <2>2. TopIn(S, n) = Max(S)
    BY <1>1, <1>3 DEF TopIn
  <2> HIDE DEF TopIn
  <2>3. \A y \in S : y \in 0..TopIn(S, n)
    BY <2>1, <2>2
  <2> QED
    BY <1>3, <2>1, <2>2, <2>3
<1> QED
  BY <1>2, <1>3

(* Adding g to f and c to b keeps the shape of the state.                  *)
LEMMA AddKeeps ==
  ASSUME NEW x \in LoopState, Within(x), Room(x), x.deg_f >= x.deg_g,
         x.deg_g >= 1, x.deg_g < N, 0 \in x.f, 0 \in x.g, 0 \in x.b <=> 0 \notin x.c
  PROVE  /\ Shape(add_g(x))
         /\ add_g(x).f = SymDiff(x.f, x.g) /\ add_g(x).b = SymDiff(x.b, x.c)
         /\ add_g(x).g = x.g /\ add_g(x).c = x.c /\ add_g(x).k = x.k
<1>1. N \in Nat \ {0}
  BY NPositive
<1>2. x.deg_f \in Nat /\ x.deg_g \in Nat /\ x.deg_b \in Nat /\ x.deg_c \in Nat
  BY DEF LoopState
<1>3. x.f \subseteq 0..x.deg_f /\ x.g \subseteq 0..x.deg_g
      /\ x.b \subseteq 0..x.deg_b /\ x.c \subseteq 0..x.deg_c
  BY DEF Within
<1>4. {e \in x.g : e <= x.deg_g} = x.g /\ {e \in x.c : e <= x.deg_c} = x.c
  BY <1>2, <1>3
<1> DEFINE fg == SymDiff(x.f, x.g)  bc == SymDiff(x.b, x.c)
           top_f == IF x.deg_g = x.deg_f THEN TopIn(fg, x.deg_f) ELSE x.deg_f
           top_b == IF x.deg_c >= x.deg_b THEN TopIn(bc, x.deg_c) ELSE x.deg_b
           y == [x EXCEPT !.f = fg, !.b = bc, !.deg_f = top_f, !.deg_b = top_b]
<1>5. add_g(x) = y
  BY <1>4 DEF add_g
<1>6. fg \subseteq 0..x.deg_f
  BY <1>2, <1>3 DEF SymDiff
<1>7. 0 \notin fg /\ 0 \in bc
  BY DEF SymDiff
<1>8. top_f \in 0..x.deg_f /\ fg \subseteq 0..top_f
  <2>1. TopIn(fg, x.deg_f) \in 0..x.deg_f /\ fg \subseteq 0..TopIn(fg, x.deg_f)
    <3> HIDE DEF fg
    <3> QED
      BY <1>2, <1>6, TopKeeps
  <2> HIDE DEF fg
  <2> QED
    BY <1>2, <1>6, <2>1
<1>9. /\ top_b \in Nat /\ bc \subseteq 0..top_b
      /\ top_b <= x.deg_b \/ top_b <= x.deg_c
      /\ top_b = x.deg_b /\ x.deg_b \in x.b => top_b \in bc \/ x.deg_c >= x.deg_b
      /\ x.deg_c >= x.deg_b => top_b \in bc /\ top_b <= x.deg_c
  <2>1. CASE x.deg_c >= x.deg_b
    <3>1. bc \subseteq 0..x.deg_c /\ bc # {}
      BY <1>2, <1>3, <1>7, <2>1 DEF SymDiff
    <3> HIDE DEF bc
    <3>2. TopIn(bc, x.deg_c) \in 0..x.deg_c /\ bc \subseteq 0..TopIn(bc, x.deg_c) /\ TopIn(bc, x.deg_c) \in bc
      BY <1>2, <3>1, TopKeeps
    <3>3. top_b = TopIn(bc, x.deg_c)
      BY <2>1
    <3> HIDE DEF top_b
    <3> QED
      BY <1>2, <2>1, <3>2, <3>3
  <2>2. CASE ~(x.deg_c >= x.deg_b)
    <3>1. top_b = x.deg_b
      BY <2>2
    <3>2. bc \subseteq 0..x.deg_b
      BY <1>2, <1>3, <2>2 DEF SymDiff
    <3>3. x.deg_b \notin x.c
      BY <1>2, <1>3, <2>2
    <3>4. x.deg_b \in x.b => x.deg_b \in bc
      BY <3>3 DEF SymDiff
    <3> HIDE DEF bc, top_b
    <3> QED
      BY <1>2, <2>2, <3>1, <3>2, <3>4
  <2> QED
    BY <2>1, <2>2
<1>10. y.f = fg /\ y.b = bc /\ y.deg_f = top_f /\ y.deg_b = top_b /\ y.g = x.g /\ y.c = x.c
       /\ y.deg_g = x.deg_g /\ y.deg_c = x.deg_c /\ y.k = x.k
  <2> HIDE DEF fg, bc, top_f, top_b
  <2> QED
    BY DEF LoopState
<1>11. y \in LoopState
  <2>1. fg \in SUBSET Nat /\ bc \in SUBSET Nat
    BY DEF SymDiff, LoopState
  <2>2. top_f \in Nat /\ top_b \in Nat
    <3> HIDE DEF top_f, top_b, bc, fg
    <3> QED
      BY <1>2, <1>8, <1>9
  <2> HIDE DEF fg, bc, top_f, top_b
  <2> QED
    BY <2>1, <2>2 DEF LoopState
<1> HIDE DEF y
<1>12. /\ x.deg_b + x.deg_g <= N /\ x.deg_c + x.deg_f <= N
       /\ x.deg_b + x.deg_g = N => x.deg_b \in x.b
       /\ x.deg_c + x.deg_f = N => x.deg_c \in x.c
  BY DEF Room
<1>13. SymDiff(x.f, x.g) = fg /\ SymDiff(x.b, x.c) = bc
  OBVIOUS
<1> HIDE DEF fg, bc, top_f, top_b
<1>14. Within(y)
  BY <1>3, <1>8, <1>9, <1>10 DEF Within
<1>15. x.deg_c + x.deg_g <= N /\ x.deg_c < N
  BY <1>1, <1>2, <1>12
<1>16. Room(y)
  <2>1. top_b + x.deg_g <= N /\ x.deg_c + top_f <= N
    BY <1>1, <1>2, <1>8, <1>9, <1>12, <1>15
  <2>2. x.deg_c + top_f = N => x.deg_c \in x.c
    BY <1>1, <1>2, <1>8, <1>12
  <2>3. ASSUME top_b + x.deg_g = N PROVE top_b \in bc
    <3>1. CASE x.deg_c >= x.deg_b
      BY <1>9, <3>1
    <3>2. CASE ~(x.deg_c >= x.deg_b)
      <4>1. top_b = x.deg_b
        BY <3>2 DEF top_b
      <4> QED
        BY <1>9, <1>12, <2>3, <3>2, <4>1
    <3> QED
      BY <3>1, <3>2
  <2> QED
    BY <1>10, <2>1, <2>2, <2>3 DEF Room
<1>17. Ends(y)
  BY <1>7, <1>10, <1>15 DEF Ends
<1> QED
  BY <1>5, <1>10, <1>11, <1>13, <1>14, <1>16, <1>17 DEF Shape

----------------------------------------------------------------------------
(***************************************************************************)
(* Key generation: what the sets of powers mean as polynomials modulo 2,   *)
(* and the relation that the loop keeps.                                   *)
(***************************************************************************)

(* The places of a ring element are those of polynomials of N              *)
(* coefficients.                                                           *)
LEMMA IndexPlaces == Index = Places(N) /\ IsFiniteSet(Index) /\ Index \subseteq Nat /\ 0 \in Index
<1>1. N \in Nat \ {0}
  BY NPositive
<1>2. Index = Places(N)
  BY DEF Index, Places
<1>3. Index \subseteq Nat
  BY <1>1 DEF Index
<1> QED
  BY <1>1, <1>2, <1>3, PlacesFinite

(* The polynomial of a set of exponents, X^N being 1.                      *)
Bits(B) == [i \in Index |-> (IF i \in B THEN 1 ELSE 0)
                              + (IF i = 0 /\ N \in B THEN 1 ELSE 0)]

(* The polynomial of a set of powers has coefficients 0 and 1.             *)
LEMMA BitsType ==
  ASSUME NEW B
  PROVE  /\ Bits(B) \in Polys(N)
         /\ \A i \in Index : Bits(B)[i] \in Nat
         /\ B \in SUBSET Index => \A i \in Index : Bits(B)[i] = IF i \in B THEN 1 ELSE 0
<1>1. \A i \in Index : Bits(B)[i] = (IF i \in B THEN 1 ELSE 0) + (IF i = 0 /\ N \in B THEN 1 ELSE 0)
  BY DEF Bits
<1>2. \A i \in Index : Bits(B)[i] \in Nat
  BY <1>1
<1>3. Bits(B) \in Polys(N)
  BY <1>2, IndexPlaces DEF Polys, Bits
<1>4. N \notin Index
  BY NPositive DEF Index
<1> QED
  BY <1>1, <1>2, <1>3, <1>4

(* Adding modulo 2 is the symmetric difference of the powers.              *)
LEMMA BitsSymDiff ==
  ASSUME NEW A, NEW B
  PROVE  Same(Bits(SymDiff(A, B)), Combine(1, Bits(A), 1, Bits(B), N), 2, N)
<1> SUFFICES ASSUME NEW i \in Places(N)
             PROVE  Congruent(Bits(SymDiff(A, B))[i], 1 * Bits(A)[i] + 1 * Bits(B)[i], 2)
  BY DEF Same, Combine
<1>1. i \in Index
  BY IndexPlaces
<1> DEFINE S == SymDiff(A, B)  x == Bits(A)[i]  y == Bits(B)[i]  z == Bits(S)[i]
<1>2. /\ x = (IF i \in A THEN 1 ELSE 0) + (IF i = 0 /\ N \in A THEN 1 ELSE 0)
      /\ y = (IF i \in B THEN 1 ELSE 0) + (IF i = 0 /\ N \in B THEN 1 ELSE 0)
      /\ z = (IF i \in S THEN 1 ELSE 0) + (IF i = 0 /\ N \in S THEN 1 ELSE 0)
  BY <1>1 DEF Bits
<1>3. \A e : e \in S <=> (e \in A /\ e \notin B) \/ (e \in B /\ e \notin A)
  BY DEF SymDiff
<1> HIDE DEF S, x, y, z
<1>4. z % 2 = (1 * x + 1 * y) % 2
  BY <1>2, <1>3
<1> QED
  BY <1>4 DEF Congruent, S, x, y, z

(* Shifting within the array is turning.                                   *)
LEMMA BitsShift ==
  ASSUME NEW i \in 0..N, NEW B \in SUBSET (0..(N - i))
  PROVE  Bits(Shift(B, i)) = Rot(Bits(B), i, N)
<1>1. N \in Nat \ {0} /\ i \in Nat /\ i \in Int
  BY NPositive
<1> SUFFICES ASSUME NEW j \in Index
             PROVE  (IF j \in Shift(B, i) THEN 1 ELSE 0) + (IF j = 0 /\ N \in Shift(B, i) THEN 1 ELSE 0)
                      = Bits(B)[Left(j, i, N)]
  BY IndexPlaces DEF Bits, Rot
<1>2. j \in Nat /\ j < N
  BY <1>1 DEF Index
<1>3. \A e \in B : e \in Nat /\ e <= N - i
  BY <1>1
<1>4. \A e \in Int : e \in Shift(B, i) <=> e - i \in B
  <2> TAKE e \in Int
  <2>1. (e - i) + i = e
    BY <1>1
  <2>2. \A n \in B : (n + i) - i = n
    BY <1>1, <1>3
  <2> QED
    BY <2>1, <2>2 DEF Shift
<1>5. j \in Int /\ N \in Int
  BY <1>1, <1>2
<1>6. (j \in Shift(B, i) <=> j - i \in B) /\ (N \in Shift(B, i) <=> N - i \in B)
  BY <1>4, <1>5
<1>7. CASE i = 0
  <2>1. Left(j, i, N) = j
    BY <1>1, <1>7, IndexPlaces, LeftZero
  <2>2. j - i = j /\ N - i = N
    BY <1>1, <1>2, <1>7
  <2> QED
    BY <1>6, <2>1, <2>2 DEF Bits
<1>8. CASE i # 0 /\ j >= i
  <2> DEFINE l == j - i
  <2>1. l \in Index /\ l \in Int
    BY <1>1, <1>2, <1>8 DEF Index
  <2>2. Congruent(l, l, N)
    BY CongruentEquivalence
  <2>3. Left(j, i, N) = l
    BY <1>1, <1>5, <2>1, <2>2, IndexPlaces, LeftUnique
  <2>4. N \notin B /\ j # 0
    BY <1>1, <1>2, <1>3, <1>8
  <2>5. Bits(B)[l] = (IF l \in B THEN 1 ELSE 0) + (IF l = 0 /\ N \in B THEN 1 ELSE 0)
    BY <2>1 DEF Bits
  <2> HIDE DEF l
  <2> QED
    BY <1>6, <2>3, <2>4, <2>5 DEF l
<1>9. CASE i # 0 /\ ~(j >= i)
  <2> DEFINE v == j - i  l == v + N
  <2>1. l \in Index /\ v + N = l
    BY <1>1, <1>2, <1>9 DEF Index
  <2>3. Left(j, i, N) = l
    <3>1. l \in Places(N)
      BY <2>1, IndexPlaces
    <3> HIDE DEF l
    <3> QED
      BY <1>1, <1>5, <2>1, <3>1, LeftWraps
  <2>4. N \notin B /\ j - i \notin B
    BY <1>1, <1>2, <1>3, <1>9
  <2>5. l \in B <=> j = 0 /\ N - i \in B
    <3>1. l \in B => j = 0
      <4>1. l \in B => l <= N - i
        BY <1>3
      <4> QED
        BY <1>1, <1>2, <4>1
    <3>2. j = 0 => l = N - i
      BY <1>1
    <3> QED
      BY <3>1, <3>2
  <2>6. Bits(B)[l] = (IF l \in B THEN 1 ELSE 0) + (IF l = 0 /\ N \in B THEN 1 ELSE 0)
    BY <2>1 DEF Bits
  <2> HIDE DEF l
  <2> QED
    BY <1>6, <2>3, <2>4, <2>5, <2>6
<1> QED
  BY <1>7, <1>8, <1>9

(* What mult_mod_2 counts.                                                 *)
LEMMA PlaceOfSum ==
  ASSUME NEW i \in Int, NEW j \in Int, NEW k \in Index
  PROVE  (i + j) % N = k <=> Congruent(j, Left(k, i, N), N)
<1>1. N \in Nat \ {0} /\ k \in Places(N) /\ k \in Int
  BY NPositive, IndexPlaces, PlacesFinite
<1> DEFINE s == i + j  r == s % N  l == Left(k, i, N)  u == k - i
<1>2. s \in Int /\ u \in Int
  BY <1>1
<1>3. r \in 0..(N - 1) /\ Congruent(r, s, N)
  <2> HIDE DEF s
  <2> QED
    BY <1>1, <1>2, CongruentResidue
<1>4. l \in Int /\ Congruent(l, u, N)
  BY <1>1, LeftCongruent
<1>5. s - i = j /\ u + i = k /\ j + i = s
  BY <1>1
<1> HIDE DEF s, r, l, u
<1>6. Congruent(i, i, N)
  BY CongruentEquivalence
<1>7. ASSUME r = k PROVE Congruent(j, l, N)
  <2>1. Congruent(s, k, N)
    BY <1>3, <1>7, CongruentEquivalence
  <2>2. Congruent(s - i, k - i, N)
    BY <1>1, <1>2, <1>6, <2>1, CongruentSub
  <2> QED
    BY <1>4, <1>5, <2>2, CongruentEquivalence DEF u
<1>8. ASSUME Congruent(j, l, N) PROVE r = k
  <2>1. Congruent(j, u, N)
    BY <1>4, <1>8, CongruentEquivalence
  <2>2. Congruent(j + i, u + i, N)
    BY <1>1, <1>2, <1>6, <2>1, CongruentAdd
  <2>3. Congruent(r, k, N)
    BY <1>3, <1>5, <2>2, CongruentEquivalence
  <2>4. r \in Places(N)
    BY <1>3 DEF Places
  <2> QED
    BY <1>1, <2>3, <2>4, CongruentPlaces
<1> QED
  BY <1>7, <1>8 DEF r, s, l

(* mult_mod_2 is the product modulo 2.                                     *)
LEMMA MultIsConv ==
  ASSUME NEW A \in SUBSET Index, NEW B \in SUBSET Index
  PROVE  mult_mod_2(A, B) = {k \in Index : Conv(Bits(A), Bits(B), N)[k] % 2 = 1}
<1>1. N \in Nat \ {0} /\ Index = Places(N) /\ IsFiniteSet(Index)
  BY NPositive, IndexPlaces
<1>2. ASSUME NEW k \in Index
      PROVE  Cardinality({ij \in A \X B : (ij[1] + ij[2]) % N = k}) = Conv(Bits(A), Bits(B), N)[k]
  <2> DEFINE C == {i \in A : Left(k, i, N) \in B}
             D == {ij \in A \X B : (ij[1] + ij[2]) % N = k}
             to == [i \in C |-> <<i, Left(k, i, N)>>]
             t == Terms(Bits(A), Bits(B), k, N)
             s == [i \in Index |-> IF i \in C THEN 1 ELSE 0]
  <2>1. k \in Int /\ \A i \in Index : i \in Int
    BY <1>1, PlacesFinite
  <2>2. ASSUME NEW i \in A, NEW j \in B
        PROVE  (i + j) % N = k <=> j = Left(k, i, N)
    <3>1. i \in Int /\ j \in Int /\ j \in Places(N)
      BY <1>1, <2>1
    <3>2. Left(k, i, N) \in Places(N)
      BY <1>1, <2>1, <3>1, LeftPlace
    <3>3. (i + j) % N = k <=> Congruent(j, Left(k, i, N), N)
      BY <3>1, PlaceOfSum
    <3>4. Congruent(j, Left(k, i, N), N) <=> j = Left(k, i, N)
      BY <1>1, <3>1, <3>2, CongruentPlaces, CongruentEquivalence
    <3> QED
      BY <3>3, <3>4
  <2>3. to \in [C -> D]
    <3>1. ASSUME NEW i \in C PROVE <<i, Left(k, i, N)>> \in D
      <4>1. i \in A /\ Left(k, i, N) \in B
        OBVIOUS
      <4>2. (i + Left(k, i, N)) % N = k
        BY <2>2, <4>1
      <4> QED
        BY <4>1, <4>2
    <3> QED
      BY <3>1
  <2>4. \A x, y \in C : to[x] = to[y] => x = y
    OBVIOUS
  <2>5. \A z \in D : \E x \in C : to[x] = z
    <3> TAKE z \in D
    <3>1. z[1] \in A /\ z[2] \in B /\ z = <<z[1], z[2]>> /\ (z[1] + z[2]) % N = k
      OBVIOUS
    <3>2. z[2] = Left(k, z[1], N)
      BY <2>2, <3>1
    <3>3. z[1] \in C
      BY <3>1, <3>2
    <3> QED
      BY <3>1, <3>2, <3>3
  <2>6. IsFiniteSet(C) /\ Index \cap C = C
    <3>1. C \in SUBSET Index
      OBVIOUS
    <3> QED
      BY <1>1, <3>1, FS_Subset
  <2>7. Cardinality(D) = Cardinality(C)
    <3> HIDE DEF to, C, D
    <3>1. to \in Bijection(C, D)
      BY <2>3, <2>4, <2>5 DEF Bijection, Injection, Surjection, IsInjective
    <3> QED
      BY <2>6, <3>1, FS_Bijection DEF ExistsBijection
  <2>8. Cardinality(C) = Sum(s, Index)
    <3> HIDE DEF C
    <3> QED
      BY <1>1, <2>6, SumCounts
  <2>9. \A i \in Index : s[i] \in Int /\ s[i] = t[i]
    <3> TAKE i \in Index
    <3>1. Left(k, i, N) \in Index
      BY <1>1, <2>1, LeftPlace
    <3>2. t[i] = Bits(A)[i] * Bits(B)[Left(k, i, N)]
      BY <1>1, <2>1, BitsType, TermsAreInts
    <3>3. Bits(A)[i] = (IF i \in A THEN 1 ELSE 0)
          /\ Bits(B)[Left(k, i, N)] = (IF Left(k, i, N) \in B THEN 1 ELSE 0)
      BY <3>1, BitsType
    <3>4. s[i] = IF i \in A /\ Left(k, i, N) \in B THEN 1 ELSE 0
      OBVIOUS
    <3> HIDE DEF s, t
    <3> QED
      BY <3>2, <3>3, <3>4
  <2>10. Sum(s, Index) = Sum(t, Index)
    <3> HIDE DEF s, t
    <3> QED
      BY <1>1, <2>9, SumEqual
  <2>11. Conv(Bits(A), Bits(B), N)[k] = Sum(t, Index)
    BY <1>1 DEF Conv
  <2> QED
    BY <2>7, <2>8, <2>10, <2>11
<1> QED
  BY <1>2 DEF mult_mod_2

(* Multiplying by a power of X modulo 2 turns the coefficients.            *)
LEMMA MultPower ==
  ASSUME NEW n \in Nat, NEW B \in SUBSET (0..N)
  PROVE  mult_mod_2({n}, B) = {k \in Index : Rot(Bits(B), n, N)[k] % 2 = 1}
<1>1. N \in Nat \ {0} /\ Index = Places(N) /\ Index = 0..(N - 1) /\ n \in Int
  BY NPositive, IndexPlaces DEF Index
<1>2. ASSUME NEW k \in Index
      PROVE  Cardinality({ij \in {n} \X B : (ij[1] + ij[2]) % N = k}) = Rot(Bits(B), n, N)[k]
  <2> DEFINE D == {ij \in {n} \X B : (ij[1] + ij[2]) % N = k}
             l == Left(k, n, N)
  <2>1. k \in Int /\ 0 \in Places(N)
    BY <1>1, PlacesFinite
  <2>2. l \in Places(N) /\ l \in Nat /\ l < N
    <3>1. l \in Places(N)
      BY <1>1, <2>1, LeftPlace
    <3> HIDE DEF l
    <3> QED
      BY <1>1, <3>1
  <2>3. Rot(Bits(B), n, N)[k] = Bits(B)[l]
    BY <1>1 DEF Rot
  <2>4. Bits(B)[l] = (IF l \in B THEN 1 ELSE 0) + (IF l = 0 /\ N \in B THEN 1 ELSE 0)
    BY <1>1, <2>2 DEF Bits
  <2> HIDE DEF l
  <2>5. ASSUME NEW j \in B
        PROVE  (n + j) % N = k <=> j = l \/ (j = N /\ l = 0)
    <3>1. j \in 0..N /\ j \in Int
      BY <1>1
    <3>2. (n + j) % N = k <=> Congruent(j, l, N)
      BY <1>1, <3>1, PlaceOfSum DEF l
    <3>3. CASE j = N
      <4> DEFINE z == 0
      <4>1. z \in Int /\ z \in Places(N) /\ \E e \in Int : j = z + N * e
        <5>1. j = 0 + N * 1
          BY <1>1, <3>3
        <5> QED
          BY <2>1, <5>1
      <4> HIDE DEF z
      <4>2. Congruent(j, z, N)
        BY <1>1, <3>1, <4>1, CongruentMultiple
      <4>3. Congruent(j, l, N) => z = l
        BY <1>1, <2>2, <4>1, <4>2, CongruentPlaces, CongruentEquivalence
      <4>4. z = l => Congruent(j, l, N)
        BY <4>2
      <4>5. j # l
        BY <1>1, <2>2, <3>3
      <4> QED
        BY <3>2, <3>3, <4>3, <4>4, <4>5 DEF z
    <3>4. CASE j # N
      <4>1. j \in Places(N)
        BY <1>1, <3>1, <3>4
      <4> QED
        BY <1>1, <2>2, <3>2, <3>4, <4>1, CongruentPlaces, CongruentEquivalence
    <3> QED
      BY <3>3, <3>4
  <2>6. \A ij : ij \in D <=> \E j \in B : ij = <<n, j>> /\ (j = l \/ (j = N /\ l = 0))
    <3> TAKE ij
    <3>1. ASSUME ij \in D PROVE \E j \in B : ij = <<n, j>> /\ (j = l \/ (j = N /\ l = 0))
      <4>1. ij = <<n, ij[2]>> /\ ij[2] \in B /\ (n + ij[2]) % N = k
        BY <3>1
      <4> QED
        BY <2>5, <4>1
    <3>2. ASSUME NEW j \in B, ij = <<n, j>>, j = l \/ (j = N /\ l = 0) PROVE ij \in D
      <4>1. (n + j) % N = k
        BY <2>5, <3>2
      <4> QED
        BY <3>2, <4>1
    <3> QED
      BY <3>1, <3>2
  <2> HIDE DEF D
  <2> DEFINE x == <<n, l>>  y == <<n, N>>
  <2>7. x # y /\ IsFiniteSet({}) /\ Cardinality({}) = 0
    BY <1>1, <2>2, FS_EmptySet
  <2>8. (l \in B <=> x \in D) /\ (l = 0 /\ N \in B <=> y \in D) /\ \A ij \in D : ij = x \/ ij = y
    <3>1. l # N
      BY <1>1, <2>2
    <3>2. ASSUME y \in D PROVE l = 0 /\ N \in B
      <4>1. PICK j \in B : y = <<n, j>> /\ (j = l \/ (j = N /\ l = 0))
        BY <2>6, <3>2
      <4>2. j = N
        BY <4>1
      <4> QED
        BY <3>1, <4>1, <4>2
    <3>3. ASSUME x \in D PROVE l \in B
      <4>1. PICK j \in B : x = <<n, j>>
        BY <2>6, <3>3
      <4>2. j = l
        BY <4>1
      <4> QED
        BY <4>2
    <3>4. (l \in B => x \in D) /\ (l = 0 /\ N \in B => y \in D)
      BY <2>6
    <3>5. \A ij \in D : ij = x \/ ij = y
      BY <2>6
    <3> QED
      BY <3>2, <3>3, <3>4, <3>5
  <2> HIDE DEF x, y
  <2> DEFINE X == IF x \in D THEN {} \cup {x} ELSE {}
  <2>9. IsFiniteSet(X) /\ Cardinality(X) = IF x \in D THEN 1 ELSE 0
    <3>1. IsFiniteSet({} \cup {x}) /\ Cardinality({} \cup {x}) = 0 + 1
      BY <2>7, FS_AddElement
    <3> QED
      BY <2>7, <3>1
  <2>10. D = IF y \in D THEN X \cup {y} ELSE X
    BY <2>8
  <2>11. y \notin X
    BY <2>7
  <2> HIDE DEF X
  <2>12. Cardinality(D) = Cardinality(X) + IF y \in D THEN 1 ELSE 0
    <3>1. Cardinality(X \cup {y}) = Cardinality(X) + 1
      BY <2>9, <2>11, FS_AddElement
    <3>2. Cardinality(X) + 0 = Cardinality(X)
      BY <2>9
    <3>3. CASE y \in D
      BY <2>10, <3>1, <3>3
    <3>4. CASE y \notin D
      BY <2>10, <3>2, <3>4
    <3> QED
      BY <3>3, <3>4
  <2>13. Cardinality(D) = Bits(B)[l]
    BY <2>4, <2>8, <2>9, <2>12
  <2> QED
    BY <2>3, <2>13 DEF D
<1> QED
  BY <1>2 DEF mult_mod_2

(* The exponents with odd coefficients say everything modulo 2.            *)
LEMMA OddBits ==
  ASSUME NEW x \in Polys(N)
  PROVE  LET S == {k \in Index : x[k] % 2 = 1}
         IN  S \in SUBSET Index /\ Same(x, Bits(S), 2, N)
<1> DEFINE S == {k \in Index : x[k] % 2 = 1}
<1>1. \A k \in Index : Bits(S)[k] = IF k \in S THEN 1 ELSE 0
  BY BitsType
<1>2. \A k \in Index : x[k] \in Int
  BY IndexPlaces DEF Polys
<1>3. \A k \in Index : k \in S <=> x[k] % 2 = 1
  OBVIOUS
<1> HIDE DEF S
<1>4. \A k \in Index : x[k] % 2 = Bits(S)[k] % 2
  <2> TAKE k \in Index
  <2>1. x[k] \in Int /\ Bits(S)[k] = (IF k \in S THEN 1 ELSE 0) /\ (k \in S <=> x[k] % 2 = 1)
    BY <1>1, <1>2, <1>3
  <2> QED
    BY <2>1
<1>5. S \in SUBSET Index
  BY DEF S
<1> QED
  BY <1>4, <1>5, IndexPlaces DEF Same, Congruent, S

(* Polynomials congruent modulo 2 have the same odd coefficients.          *)
LEMMA SameOdd ==
  ASSUME NEW x, NEW y, Same(x, y, 2, N)
  PROVE  {k \in Index : x[k] % 2 = 1} = {k \in Index : y[k] % 2 = 1}
  BY IndexPlaces DEF Same, Congruent

(* The secret key modulo 2 is a, whose inverse ring_inv_mod_2 looks for.   *)
LEMMA SecretType ==
  ASSUME F \in [Index -> {-1, 0, 1}]
  PROVE  /\ SecretF(F) \in Polys(N)
         /\ a \in SUBSET Index
         /\ Same(SecretF(F), Bits(a), 2, N)
<1>1. p = 3
  BY RingAssumption
<1>2. \A i \in Index : F[i] \in Int /\ p * F[i] + (IF i = 0 THEN 1 ELSE 0) \in Int
  BY <1>1
<1>3. SecretF(F) \in Polys(N) /\ DOMAIN SecretF(F) = Index
  BY <1>2, IndexPlaces DEF SecretF, Polys
<1> DEFINE x == SecretF(F)
<1>4. a = {k \in Index : x[k] % 2 = 1}
  BY <1>3 DEF a, Odd
<1> HIDE DEF x
<1> QED
  BY <1>3, <1>4, OddBits DEF x

(* The sets of powers of 1 and of 0.                                       *)
LEMMA BitsOne ==
  /\ Bits({0}) = Mono(0, N) /\ Bits({}) = Nil(N)
  /\ {0} \in SUBSET Index
  /\ {k \in Index : Mono(0, N)[k] % 2 = 1} = {0}
<1>1. N # 0 /\ 0 \in Index /\ Index = Places(N)
  BY NPositive, IndexPlaces
<1>2. Bits({0}) = Mono(0, N)
  <2>1. \A i \in Index : (IF i \in {0} THEN 1 ELSE 0) + (IF i = 0 /\ N \in {0} THEN 1 ELSE 0)
                           = IF i = 0 THEN 1 ELSE 0
    BY <1>1
  <2> QED
    BY <1>1, <2>1 DEF Bits, Mono
<1>3. Bits({}) = Nil(N)
  BY <1>1 DEF Bits, Nil
<1>4. {k \in Index : Mono(0, N)[k] % 2 = 1} = {0}
  <2>1. \A k \in Index : Mono(0, N)[k] = IF k = 0 THEN 1 ELSE 0
    BY <1>1 DEF Mono
  <2>2. 1 % 2 = 1 /\ 0 % 2 = 0
    OBVIOUS
  <2> QED
    BY <1>1, <2>1, <2>2
<1> QED
  BY <1>1, <1>2, <1>3, <1>4

(* A unit of the ring modulo 2 has an inverse among the polynomials.       *)
LEMMA UnitHasInverse ==
  ASSUME NEW A \in Units2
  PROVE  A \in SUBSET Index /\ \E u \in Polys(N) : Same(Conv(u, Bits(A), N), Mono(0, N), 2, N)
<1>1. N \in Nat \ {0}
  BY NPositive
<1>2. A \in SUBSET Index /\ \E B \in SUBSET Index : mult_mod_2(A, B) = {0}
  BY DEF Units2
<1>3. PICK B \in SUBSET Index : mult_mod_2(A, B) = {0}
  BY <1>2
<1> DEFINE u == Bits(B)  v == Bits(A)  x == Conv(u, v, N)
<1>4. u \in Polys(N) /\ v \in Polys(N)
  BY BitsType
<1>5. x \in Polys(N) /\ Conv(v, u, N) = x
  <2> HIDE DEF u, v
  <2> QED
    BY <1>1, <1>4, ConvType, ConvCommutes
<1>6. {k \in Index : x[k] % 2 = 1} = {0}
  BY <1>2, <1>3, <1>5, MultIsConv
<1> HIDE DEF x
<1>7. Same(x, Bits({0}), 2, N)
  BY <1>5, <1>6, OddBits
<1> QED
  BY <1>2, <1>4, <1>7, BitsOne DEF x

(* What divides zero is no unit.                                           *)
LEMMA NotUnit ==
  ASSUME NEW A, NEW z \in Polys(N), NEW i \in Index, z[i] % 2 = 1,
         Same(Conv(z, Bits(A), N), Nil(N), 2, N)
  PROVE  A \notin Units2
<1>1. N \in Nat \ {0} /\ 2 \in Nat \ {0}
  BY NPositive
<1> SUFFICES ASSUME A \in Units2 PROVE FALSE
  OBVIOUS
<1>2. PICK u \in Polys(N) : Same(Conv(u, Bits(A), N), Mono(0, N), 2, N)
  BY UnitHasInverse
<1>3. Bits(A) \in Polys(N)
  BY BitsType
<1>4. Same(z, Nil(N), 2, N)
  <2> DEFINE x == Bits(A)  n == 2
  <2>1. x \in Polys(N) /\ n \in Nat \ {0} /\ Same(Conv(u, x, N), Mono(0, N), n, N)
         /\ Same(Conv(z, x, N), Nil(N), n, N)
    BY <1>2, <1>3
  <2> HIDE DEF x, n
  <2>2. Same(z, Nil(N), n, N)
    BY <1>1, <2>1, ZeroDivisor
  <2> QED
    BY <2>2 DEF n
<1>5. z[i] % 2 = Nil(N)[i] % 2 /\ Nil(N)[i] = 0
  BY <1>4, IndexPlaces DEF Same, Congruent, Nil
<1> QED
  BY <1>5

(* The parity test.                                                        *)
LEMMA EvenIsNoUnit ==
  ASSUME NEW A \in SUBSET Index, Cardinality(A) % 2 = 0
  PROVE  A \notin Units2
<1>1. N \in Nat \ {0} /\ Index = Places(N) /\ IsFiniteSet(Index) /\ 0 \in Index
  BY NPositive, IndexPlaces
<1> DEFINE z == [i \in Places(N) |-> 1]  x == Bits(A)  y == [i \in Index |-> IF i \in A THEN 1 ELSE 0]
<1>2. x \in Polys(N) /\ \A i \in Index : x[i] \in Int /\ x[i] = IF i \in A THEN 1 ELSE 0
  <2>1. \A i \in Index : Bits(A)[i] = IF i \in A THEN 1 ELSE 0
    BY BitsType
  <2> QED
    BY <2>1, BitsType
<1>3. Index \cap A = A
  OBVIOUS
<1>4. Cardinality(A) = Sum(y, Index)
  BY <1>1, <1>3, SumCounts
<1>5. Sum(x, Index) = Sum(y, Index)
  <2>1. \A i \in Index : x[i] \in Int /\ x[i] = y[i]
    BY <1>2
  <2> HIDE DEF x, y
  <2> QED
    BY <1>1, <2>1, SumEqual
<1> HIDE DEF x, y
<1>6. z \in Polys(N) /\ \A k \in Places(N) : Conv(z, x, N)[k] = Sum(x, Places(N))
  BY <1>1, <1>2, ConvOfOnes
<1>7. z[0] = 1
  BY <1>1
<1> HIDE DEF z
<1>8. Same(Conv(z, x, N), Nil(N), 2, N)
  <2> SUFFICES ASSUME NEW k \in Places(N) PROVE Conv(z, x, N)[k] % 2 = Nil(N)[k] % 2
    BY DEF Same, Congruent
  <2>1. Conv(z, x, N)[k] = Cardinality(A) /\ Nil(N)[k] = 0
    BY <1>1, <1>4, <1>5, <1>6 DEF Nil
  <2> QED
    BY <2>1
<1>9. z[0] % 2 = 1
  BY <1>7
<1> QED
  BY <1>1, <1>6, <1>8, <1>9, NotUnit DEF x

(* b is the inverse of A up to a power of X and the factor f, c up to g.   *)
Related(x, A) ==
  /\ Same(Conv(Bits(x.b), Bits(A), N), Rot(Bits(x.f), x.k, N), 2, N)
  /\ Same(Conv(Bits(x.c), Bits(A), N), Rot(Bits(x.g), x.k, N), 2, N)

(* The sizes that the lemmas on polynomials ask for.                       *)
LEMMA TwoPositive == N \in Nat \ {0} /\ 2 \in Nat \ {0}
  BY NPositive

(* A record of this form is a state of the loop.                           *)
LEMMA StartState ==
  ASSUME NEW ff \in SUBSET Nat, NEW gg \in SUBSET Nat, NEW bb \in SUBSET Nat, NEW cc \in SUBSET Nat,
         NEW l1 \in Nat, NEW l2 \in Nat, NEW l3 \in Nat, NEW l4 \in Nat, NEW k \in Nat, NEW l \in BOOLEAN
  PROVE  [f |-> ff, g |-> gg, b |-> bb, c |-> cc, deg_f |-> l1, deg_g |-> l2,
          deg_b |-> l3, deg_c |-> l4, k |-> k, c_low |-> l] \in LoopState
  BY DEF LoopState

(* The state that ring_inv_mod_2 starts with has its shape, and b and c    *)
(* relate f and g to a.                                                    *)
LEMMA StartRelated ==
  ASSUME NEW A \in SUBSET Index, A # {}, NEW x,
         x = [NoInv EXCEPT !.f = A, !.deg_f = Max(A), !.g = {0, N}, !.deg_g = N, !.b = {0}]
  PROVE  Shape(x) /\ Related(x, A)
<1>1. N \in Nat \ {0} /\ Index = Places(N) /\ Index = 0..(N - 1) /\ N >= 3
  BY NPositive, IndexPlaces DEF Index
<1>2. Max(A) \in A /\ \A y \in A : y <= Max(A)
  BY <1>1, GreatestOf
<1> DEFINE top == Max(A)
<1>3. /\ x.f = A /\ x.g = {0, N} /\ x.b = {0} /\ x.c = {}
      /\ x.deg_f = top /\ x.deg_g = N /\ x.deg_b = 0 /\ x.deg_c = 0
      /\ x.k = 0 /\ x.c_low = FALSE
  BY DEF NoInv
<1>4. x = [f |-> A, g |-> {0, N}, b |-> {0}, c |-> {}, deg_f |-> top, deg_g |-> N,
           deg_b |-> 0, deg_c |-> 0, k |-> 0, c_low |-> FALSE]
  BY DEF NoInv
<1> HIDE DEF top
<1>5. top \in Nat /\ top < N /\ A \subseteq 0..top
  <2>1. \A y \in A : y \in Nat /\ y < N
    BY <1>1
  <2>2. top \in A /\ \A y \in A : y <= top
    BY <1>2 DEF top
  <2> QED
    BY <1>1, <2>1, <2>2
<1>6. x \in LoopState
  <2>1. A \in SUBSET Nat /\ {0, N} \in SUBSET Nat /\ {0} \in SUBSET Nat /\ {} \in SUBSET Nat
    BY <1>1
  <2>2. N \in Nat /\ 0 \in Nat /\ top \in Nat /\ FALSE \in BOOLEAN
    BY <1>1, <1>5
  <2>3. [f |-> A, g |-> {0, N}, b |-> {0}, c |-> {}, deg_f |-> top, deg_g |-> N,
         deg_b |-> 0, deg_c |-> 0, k |-> 0, c_low |-> FALSE] \in LoopState
    <3> DEFINE A1 == {0, N}  A2 == {0}  A3 == {}  z == 0  l == FALSE
    <3>1. A \in SUBSET Nat /\ A1 \in SUBSET Nat /\ A2 \in SUBSET Nat /\ A3 \in SUBSET Nat
          /\ z \in Nat /\ top \in Nat /\ N \in Nat /\ l \in BOOLEAN
      BY <2>1, <2>2
    <3> HIDE DEF A1, A2, A3, z, l
    <3>2. [f |-> A, g |-> A1, b |-> A2, c |-> A3, deg_f |-> top, deg_g |-> N,
         deg_b |-> z, deg_c |-> z, k |-> z, c_low |-> l] \in LoopState
      BY <3>1, StartState
    <3> QED
      BY <3>2 DEF A1, A2, A3, z, l
  <2> QED
    BY <1>4, <2>3
<1>7. Within(x)
  <2>1. {0, N} \subseteq 0..N /\ {0} \subseteq 0..0
    BY <1>1
  <2> QED
    BY <1>3, <1>5, <2>1 DEF Within
<1>8. Room(x)
  BY <1>1, <1>3, <1>5 DEF Room
<1>9. Ends(x)
  BY <1>1, <1>3, <1>5 DEF Ends
<1>10. Bits(A) \in Polys(N) /\ Bits({0, N}) \in Polys(N)
  BY BitsType
<1>11. Conv(Bits({0}), Bits(A), N) = Bits(A) /\ Conv(Bits({}), Bits(A), N) = Nil(N)
  BY <1>1, <1>10, BitsOne, ConvOne, ConvNil
<1>12. Rot(Bits(A), 0, N) = Bits(A) /\ Rot(Bits({0, N}), 0, N) = Bits({0, N})
  BY <1>1, <1>10, RotZero
<1>13. Same(Nil(N), Bits({0, N}), 2, N)
  <2> SUFFICES ASSUME NEW i \in Index PROVE Nil(N)[i] % 2 = Bits({0, N})[i] % 2
    BY <1>1 DEF Same, Congruent
  <2>1. Nil(N)[i] = 0
    BY <1>1 DEF Nil
  <2>2. Bits({0, N})[i] = IF i = 0 THEN 2 ELSE 0
    BY <1>1 DEF Bits
  <2> QED
    BY <2>1, <2>2
<1>14. Related(x, A)
  BY <1>3, <1>11, <1>12, <1>13, SameEquivalence DEF Related
<1> QED
  BY <1>6, <1>7, <1>8, <1>9, <1>14 DEF Shape

(* Dividing f by a power of X keeps the relation.                          *)
LEMMA DivideRelated ==
  ASSUME NEW A, NEW x, Shape(x), x.f # {}, Related(x, A)
  PROVE  Related(divide(x), A)
<1> DEFINE i == Min(x.f)  y == divide(x)
<1>1. N \in Nat \ {0} /\ Index = Places(N)
  BY NPositive, IndexPlaces
<1>2. x \in LoopState
  BY DEF Shape
<1>3. /\ i \in x.f /\ i \in Nat
      /\ y = [x EXCEPT !.k = x.k + i, !.f = Shift(x.f, -i),
                       !.deg_f = x.deg_f - i,
                       !.c = Shift(x.c, i), !.deg_c = x.deg_c + i]
      /\ Divided(y)
  BY DivideKeeps
<1>4. y.k = x.k + i /\ y.f = Shift(x.f, -i) /\ y.deg_f = x.deg_f - i /\ y.c = Shift(x.c, i)
      /\ y.g = x.g /\ y.b = x.b
  BY <1>2, <1>3 DEF LoopState
<1> HIDE DEF i, y
<1>5. /\ x.deg_f \in Nat /\ x.deg_c \in Nat /\ x.k \in Nat /\ i \in Int
      /\ x.f \subseteq 0..x.deg_f /\ x.c \subseteq 0..x.deg_c /\ x.deg_c + x.deg_f <= N
      /\ y.f \subseteq 0..y.deg_f
  BY <1>2, <1>3 DEF Shape, LoopState, Within, Room, Divided
<1>6. i <= x.deg_f /\ i \in 0..N
  BY <1>1, <1>3, <1>5
<1>7. y.f \in SUBSET (0..(N - i)) /\ x.c \in SUBSET (0..(N - i))
  BY <1>1, <1>3, <1>4, <1>5, <1>6
<1>8. Shift(y.f, i) = x.f
  <2>1. \A e \in x.f : (e + (-i)) + i = e
    BY <1>5
  <2> QED
    BY <1>4, <2>1 DEF Shift
<1>9. Bits(x.f) = Rot(Bits(y.f), i, N) /\ Bits(y.c) = Rot(Bits(x.c), i, N)
  BY <1>4, <1>6, <1>7, <1>8, BitsShift
<1>10. /\ Bits(y.f) \in Polys(N) /\ Bits(x.c) \in Polys(N) /\ Bits(A) \in Polys(N) /\ Bits(x.g) \in Polys(N)
       /\ x.k \in Int
  BY <1>5, BitsType
<1>11. Rot(Bits(x.f), x.k, N) = Rot(Bits(y.f), y.k, N)
  <2>1. Rot(Rot(Bits(y.f), i, N), x.k, N) = Rot(Bits(y.f), x.k + i, N)
    BY <1>1, <1>5, <1>10, RotRot
  <2> QED
    BY <1>4, <1>9, <2>1
<1>12. Conv(Bits(y.c), Bits(A), N) = Rot(Conv(Bits(x.c), Bits(A), N), i, N)
  BY <1>1, <1>5, <1>9, <1>10, RotConv
<1>13. Rot(Rot(Bits(x.g), x.k, N), i, N) = Rot(Bits(x.g), i + x.k, N)
  BY <1>1, <1>5, <1>10, RotRot
<1>14. Same(Rot(Conv(Bits(x.c), Bits(A), N), i, N), Rot(Rot(Bits(x.g), x.k, N), i, N), 2, N)
  <2> DEFINE u == Conv(Bits(x.c), Bits(A), N)  v == Rot(Bits(x.g), x.k, N)
  <2>1. u \in Polys(N) /\ v \in Polys(N)
    BY <1>1, <1>10, ConvType, RotType
  <2>2. Same(u, v, 2, N)
    BY DEF Related
  <2> HIDE DEF u, v
  <2>3. Same(Rot(u, i, N), Rot(v, i, N), 2, N)
    BY <1>1, <1>5, <2>1, <2>2, RotSame
  <2> QED
    BY <2>3 DEF u, v
<1>15. i + x.k = y.k
  BY <1>4, <1>5
<1>16. Related(y, A)
  BY <1>4, <1>11, <1>12, <1>13, <1>14, <1>15 DEF Related
<1> QED
  BY <1>16 DEF y

(* Exchanging keeps the relation.                                          *)
LEMMA ExchangeRelated ==
  ASSUME NEW A, NEW x, Related(x, A)
  PROVE  Related(exchange(x), A)
  BY DEF Related, exchange

(* Adding g to f and c to b keeps the relation.                            *)
LEMMA AddRelated ==
  ASSUME NEW A, NEW x, NEW y, x.k \in Nat, Related(x, A),
         y.f = SymDiff(x.f, x.g), y.b = SymDiff(x.b, x.c), y.g = x.g, y.c = x.c, y.k = x.k
  PROVE  Related(y, A)
<1> DEFINE n == 2  one == 1  k == x.k  R == Bits(A)
           bf == Bits(x.f)  bg == Bits(x.g)  bb == Bits(x.b)  bc == Bits(x.c)
           nf == Bits(y.f)  nb == Bits(y.b)
<1>1. N \in Nat \ {0} /\ n \in Nat \ {0} /\ one \in Int /\ k \in Int
  BY NPositive
<1>2. /\ R \in Polys(N) /\ bf \in Polys(N) /\ bg \in Polys(N) /\ bb \in Polys(N) /\ bc \in Polys(N)
      /\ nf \in Polys(N) /\ nb \in Polys(N)
  BY BitsType
<1>3. Same(nf, Combine(one, bf, one, bg, N), n, N) /\ Same(nb, Combine(one, bb, one, bc, N), n, N)
  BY BitsSymDiff
<1>4. Same(Conv(bb, R, N), Rot(bf, k, N), n, N) /\ Same(Conv(bc, R, N), Rot(bg, k, N), n, N)
  BY DEF Related
<1> HIDE DEF n, one, k, R, bf, bg, bb, bc, nf, nb
<1> DEFINE sf == Combine(one, bf, one, bg, N)  sb == Combine(one, bb, one, bc, N)
           pb == Conv(bb, R, N)  pc0 == Conv(bc, R, N)  rf == Rot(bf, k, N)  rg == Rot(bg, k, N)
<1>5. sf \in Polys(N) /\ sb \in Polys(N) /\ pb \in Polys(N) /\ pc0 \in Polys(N) /\ rf \in Polys(N) /\ rg \in Polys(N)
  BY <1>1, <1>2, CombineConv, ConvType, RotType
<1>6. Same(Conv(nb, R, N), Conv(sb, R, N), n, N)
  <2> HIDE DEF sb
  <2> QED
    BY <1>1, <1>2, <1>3, <1>5, SameFactor DEF sb
<1>7. Conv(sb, R, N) = Combine(one, pb, one, pc0, N)
  BY <1>1, <1>2, CombineConv
<1>8. Same(Combine(one, pb, one, pc0, N), Combine(one, rf, one, rg, N), n, N)
  <2>1. Same(pb, rf, n, N) /\ Same(pc0, rg, n, N)
    BY <1>4
  <2> HIDE DEF pb, pc0, rf, rg
  <2> QED
    BY <1>1, <1>5, <2>1, CombineSame
<1>9. Combine(one, rf, one, rg, N) = Rot(sf, k, N)
  BY <1>1, <1>2, RotCombine
<1>10. Same(Rot(sf, k, N), Rot(nf, k, N), n, N)
  <2>1. Same(sf, nf, n, N)
    BY <1>3, SameEquivalence
  <2> HIDE DEF sf
  <2> QED
    BY <1>1, <1>2, <1>5, <2>1, RotSame
<1>11. Same(Conv(nb, R, N), Rot(nf, k, N), n, N)
  BY <1>6, <1>7, <1>8, <1>9, <1>10, SameEquivalence
<1>12. Same(Conv(bc, R, N), Rot(bg, k, N), n, N)
  BY <1>4
<1> QED
  BY <1>11, <1>12 DEF Related, n, k, R, bg, bc, nf, nb

(* f = 0: what is refused here has no inverse.                             *)
LEMMA EmptyIsNoUnit ==
  ASSUME NEW A, NEW x, Shape(x), x.f = {}, Related(x, A)
  PROVE  A \notin Units2
<1>1. N \in Nat \ {0} /\ Index = Places(N) /\ 0 \in Index /\ Index = 0..(N - 1)
  BY NPositive, IndexPlaces DEF Index
<1>2. x \in LoopState /\ x.b \subseteq 0..x.deg_b /\ x.deg_b + x.deg_g <= N /\ x.deg_g >= 1 /\ 0 \in x.b
  BY DEF Shape, Within, Room, Ends
<1>3. x.deg_b \in Nat /\ x.deg_g \in Nat /\ x.k \in Int
  BY <1>2 DEF LoopState
<1>4. x.b \in SUBSET Index
  BY <1>1, <1>2, <1>3
<1>5. Bits(x.b) \in Polys(N) /\ Bits(x.b)[0] = 1
  BY <1>1, <1>2, <1>4, BitsType
<1>6. Rot(Nil(N), x.k, N) = Nil(N)
  <2>1. \A j \in Places(N) : Left(j, x.k, N) \in Places(N)
    BY <1>1, <1>3, BitsType, RotType
  <2> QED
    BY <2>1 DEF Rot, Nil
<1>7. Same(Conv(Bits(x.b), Bits(A), N), Nil(N), 2, N)
  BY <1>6, BitsOne DEF Related
<1>8. 1 % 2 = 1
  OBVIOUS
<1> QED
  BY <1>1, <1>5, <1>7, <1>8, NotUnit

(* f = 1: b, turned back by k places, is the inverse.                      *)
LEMMA RotatedInverts ==
  ASSUME NEW A \in SUBSET Index, NEW x, Divided(x), x.deg_f = 0, Related(x, A)
  PROVE  /\ rotated(x.b, x.k) \in [Index -> {0, 1}]
         /\ Same(Conv(rotated(x.b, x.k), Bits(A), N), Mono(0, N), 2, N)
         /\ mult_mod_2(A, Odd(rotated(x.b, x.k))) = {0}
<1> DEFINE k == x.k  j == IF k >= N THEN k - N ELSE k  z == -k  y == rotated(x.b, k)
<1>1. N \in Nat \ {0} /\ Index = Places(N) /\ 0 \in Index /\ Index = 0..(N - 1)
  BY NPositive, IndexPlaces DEF Index
<1>2. /\ x \in LoopState /\ x.b \subseteq 0..x.deg_b /\ x.deg_b + x.deg_g <= N /\ x.deg_g >= 1
      /\ x.f \subseteq 0..0 /\ 0 \in x.f
  BY DEF Divided, Within, Room
<1>3. x.deg_b \in Nat /\ x.deg_g \in Nat /\ k \in Nat
  BY <1>2 DEF LoopState
<1>4. x.b \in SUBSET Index
  BY <1>1, <1>2, <1>3
<1>5. x.f = {0}
  BY <1>2
<1>6. \A i \in Index : y[i] = IF (i + j) % N \in x.b THEN 1 ELSE 0
  BY DEF rotated
<1>7. y \in [Index -> {0, 1}]
  BY DEF rotated
<1> HIDE DEF y
<1>8. k \in Int /\ z \in Int /\ j \in Int /\ (\E n \in Int : j = k + N * n)
  <2>1. j = k + N * 0 \/ j = k + N * (-1)
    BY <1>1, <1>3
  <2>2. 0 \in Int /\ -1 \in Int
    OBVIOUS
  <2> QED
    BY <1>1, <1>3, <2>1, <2>2
<1> HIDE DEF k, j
<1>9. ASSUME NEW i \in Index PROVE (i + j) % N = Left(i, z, N)
  <2> DEFINE s == i + j  r == s % N  v == i - z
  <2>1. i \in Int /\ s \in Int /\ v \in Int /\ v = i + k
    BY <1>1, <1>8
  <2>2. r \in Places(N) /\ Congruent(r, s, N)
    <3> HIDE DEF s
    <3>1. r \in 0..(N - 1) /\ Congruent(r, s, N)
      BY <1>1, <2>1, CongruentResidue
    <3> QED
      BY <3>1 DEF Places
  <2>3. \E n \in Int : s = v + N * n
    <3>1. PICK n \in Int : j = k + N * n
      BY <1>8
    <3>2. N * n \in Int
      BY <1>1
    <3> DEFINE u == N * n
    <3> HIDE DEF u
    <3>3. s = v + u
      BY <1>8, <2>1, <3>1, <3>2 DEF u
    <3> QED
      BY <3>3 DEF u
  <2> HIDE DEF s, r
  <2>4. Congruent(s, v, N)
    <3> HIDE DEF v
    <3> QED
      BY <1>1, <2>1, <2>3, CongruentMultiple
  <2>5. Congruent(v, r, N)
    BY <2>2, <2>4, CongruentEquivalence
  <2>6. Left(i, z, N) = r
    <3> HIDE DEF z
    <3> QED
      BY <1>1, <1>8, <2>1, <2>2, <2>5, LeftUnique DEF v
  <2> QED
    BY <2>6 DEF r, s
<1> DEFINE bb == Bits(x.b)  R == Bits(A)
<1>10. bb \in Polys(N) /\ R \in Polys(N) /\ Bits({0}) \in Polys(N)
  BY BitsType
<1>11. y = Rot(bb, z, N)
  <2>1. ASSUME NEW i \in Index PROVE y[i] = bb[Left(i, z, N)]
    <3>1. Left(i, z, N) \in Index
      <4>1. i \in Int /\ z \in Int
        BY <1>1, <1>8
      <4> QED
        BY <1>1, <4>1, LeftPlace
    <3>2. bb[Left(i, z, N)] = IF Left(i, z, N) \in x.b THEN 1 ELSE 0
      BY <1>4, <3>1, BitsType
    <3> QED
      BY <1>6, <1>9, <3>2
  <2> QED
    BY <1>1, <1>7, <2>1 DEF Rot
<1> DEFINE bR == Conv(bb, R, N)
<1>12. Same(bR, Rot(Bits({0}), k, N), 2, N)
  BY <1>5 DEF Related, k
<1> HIDE DEF bb, R, z
<1>13. Conv(y, R, N) = Rot(bR, z, N)
  BY <1>1, <1>8, <1>10, <1>11, RotConv
<1>14. Rot(Rot(Bits({0}), k, N), z, N) = Bits({0})
  <2>1. z + k = 0
    BY <1>8 DEF z
  <2>2. Rot(Rot(Bits({0}), k, N), z, N) = Rot(Bits({0}), z + k, N)
    BY <1>1, <1>8, <1>10, RotRot
  <2> QED
    BY <1>1, <1>10, <2>1, <2>2, RotZero
<1>15. Same(Rot(bR, z, N), Rot(Rot(Bits({0}), k, N), z, N), 2, N)
  <2> DEFINE u == Rot(Bits({0}), k, N)
  <2>1. u \in Polys(N) /\ bR \in Polys(N)
    BY <1>1, <1>8, <1>10, RotType, ConvType
  <2> HIDE DEF u, bR
  <2> QED
    BY <1>1, <1>8, <1>12, <2>1, RotSame DEF u
<1>16. Same(Conv(y, R, N), Mono(0, N), 2, N)
  BY <1>13, <1>14, <1>15, BitsOne
<1>17. Odd(y) \in SUBSET Index /\ Bits(Odd(y)) = y /\ y \in Polys(N)
  <2>1. \A i \in Index : y[i] \in {0, 1} /\ y[i] \in Int
    BY <1>7
  <2>2. Odd(y) = {i \in Index : y[i] = 1}
    <3>1. \A i \in Index : y[i] % 2 = 1 <=> y[i] = 1
      BY <2>1
    <3> QED
      BY <1>7, <3>1 DEF Odd
  <2>3. \A i \in Index : Bits(Odd(y))[i] = IF i \in Odd(y) THEN 1 ELSE 0
    BY <2>2, BitsType
  <2>4. \A i \in Index : Bits(Odd(y))[i] = y[i]
    BY <2>1, <2>2, <2>3
  <2>5. DOMAIN Bits(Odd(y)) = Index /\ DOMAIN y = Index /\ y \in Polys(N)
    BY <1>1, <1>7, <2>1 DEF Bits, Polys
  <2> QED
    BY <1>7, <2>2, <2>4, <2>5 DEF Bits
<1>18. Conv(R, y, N) = Conv(y, R, N)
  BY <1>1, <1>10, <1>17, ConvCommutes
<1>19. mult_mod_2(A, Odd(y)) = {i \in Index : Conv(R, y, N)[i] % 2 = 1}
  BY <1>17, MultIsConv DEF R
<1>20. mult_mod_2(A, Odd(y)) = {0}
  BY <1>16, <1>18, <1>19, SameOdd, BitsOne
<1> QED
  BY <1>7, <1>16, <1>20 DEF y, k, R

----------------------------------------------------------------------------
(***************************************************************************)
(* Key generation: products modulo q, Newton's iteration, and the          *)
(* invariant.                                                              *)
(***************************************************************************)

(* The modulus q is at least 2 and divides 2^16.                           *)
LEMMA Modulus ==
  q \in Nat \ {0} /\ q >= 2 /\ p = 3 /\ q \in Int /\ 65536 % q = 0
<1> DEFINE radix == 2^16
<1>1. radix = 65536
  OBVIOUS
<1>2. q \in 2..radix /\ radix % q = 0 /\ p = 3
  BY RingAssumption, Zenon
<1> HIDE DEF radix
<1>3. 65536 % q = 0 /\ p = 3
  BY <1>1, <1>2
<1>4. q \in Nat \ {0} /\ q >= 2 /\ q \in Int
  <2>1. q \in 2..radix
    BY <1>2
  <2> QED
    BY <1>1, <2>1
<1> QED
  BY <1>3, <1>4

(* The words of the C code are reduced modulo a multiple of q.             *)
LEMMA WordMultiple == \E z \in Int : 65536 = q * z
<1> DEFINE x == 65536
<1>2. q \in Nat \ {0}
  BY Modulus
<1>3. x \in Int /\ x % q = 0
  BY Modulus
<1> HIDE DEF x
<1>4. Congruent(x, 0, q)
  BY <1>2, <1>3, ResidueZero
<1>5. PICK z \in Int : x = 0 + q * z
  BY <1>2, <1>3, <1>4, CongruentMultiple
<1> DEFINE u == q * z
<1>6. u \in Int /\ x = 0 + u
  BY <1>2, <1>5
<1> HIDE DEF u
<1>7. x = u
  BY <1>6
<1>8. \E y \in Int : x = q * y
  BY <1>7 DEF u
<1> QED
  BY <1>8 DEF x

(* The product of the module is that of the lemmas.                        *)
LEMMA ProductIsConv ==
  ASSUME NEW x, NEW y
  PROVE  product(x, y) = Conv(x, y, N)
<1>1. ASSUME NEW k
      PROVE  SumFunction([i \in Index |-> x[i] * y[(k - i) % N]]) = Sum(Terms(x, y, k, N), Places(N))
  <2>1. [i \in Index |-> x[i] * y[(k - i) % N]] = Terms(x, y, k, N)
    BY IndexPlaces DEF Terms, Left
  <2>2. DOMAIN Terms(x, y, k, N) = Places(N)
    BY DEF Terms
  <2>3. \A f : SumFunction(f) = Sum(f, DOMAIN f)
    BY DEF SumFunction, Sum
  <2> QED
    BY <2>1, <2>2, <2>3
<1> QED
  BY <1>1, IndexPlaces DEF product, Conv

(* ring_mult reduces the product modulo q.                                 *)
LEMMA RingMult ==
  ASSUME NEW x, NEW y
  PROVE  ring_mult(x, y) = Reduced(Conv(x, y, N), q, N)
  BY ProductIsConv, IndexPlaces DEF ring_mult, Reduced

(* What ring_mult returns.                                                 *)
LEMMA RingMultType ==
  ASSUME NEW x \in Polys(N), NEW y \in Polys(N)
  PROVE  /\ Conv(x, y, N) \in Polys(N)
         /\ ring_mult(x, y) \in [Index -> 0..(q - 1)] /\ ring_mult(x, y) \in Polys(N)
         /\ Same(ring_mult(x, y), Conv(x, y, N), q, N)
<1>1. N \in Nat \ {0} /\ q \in Nat \ {0} /\ Index = Places(N)
  BY NPositive, Modulus, IndexPlaces
<1>2. Conv(x, y, N) \in Polys(N)
  BY <1>1, ConvType
<1> QED
  BY <1>1, <1>2, RingMult, ReducedSame

(* Congruent with 1 modulo n, up to a multiple of q.                       *)
Precise(x, n) ==
  \E t \in Polys(N) : Same(Conv(SecretF(F), x, N), Combine(1, Mono(0, N), n, t, N), q, N)

(* One step of Newton's iteration squares the modulus to which x is the    *)
(* inverse.                                                                *)
LEMMA NewtonStep ==
  ASSUME NEW x \in Polys(N), NEW n \in Int, SecretF(F) \in Polys(N), Precise(x, n)
  PROVE  LET fx == ring_mult(SecretF(F), x)
             y == ring_mult(x, [i \in Index |-> (IF i = 0 THEN 2 ELSE 0) - fx[i]])
         IN  y \in [Index -> 0..(q - 1)] /\ y \in Polys(N) /\ Precise(y, n * n)
<1> DEFINE sf == SecretF(F)  one == Mono(0, N)  fx == ring_mult(sf, x)  s == Conv(sf, x, N)
           c == [i \in Index |-> (IF i = 0 THEN 2 ELSE 0) - fx[i]]  y == ring_mult(x, c)
           k1 == 1  k2 == 2  mn == -n  m1 == -1  nn == n * n
<1>1. N \in Nat \ {0} /\ Index = Places(N) /\ 0 \in Places(N) /\ q \in Nat \ {0} /\ 0 \in Int
  BY NPositive, IndexPlaces, PlacesFinite, Modulus
<1>2. one \in Polys(N) /\ \A i \in Places(N) : one[i] = IF i = 0 THEN 1 ELSE 0
  BY <1>1, ConvMono DEF Mono
<1>3. s \in Polys(N) /\ fx \in Polys(N) /\ Same(fx, s, q, N)
  BY RingMultType
<1> HIDE DEF fx, one
<1>4. k1 \in Int /\ k2 \in Int /\ mn \in Int /\ m1 \in Int /\ nn \in Int
  OBVIOUS
<1>5. c = Combine(k2, one, m1, fx, N)
  <2>1. ASSUME NEW i \in Index
        PROVE  (IF i = 0 THEN 2 ELSE 0) - fx[i] = k2 * one[i] + m1 * fx[i]
    <3>1. fx[i] \in Int
      BY <1>1, <1>3 DEF Polys
    <3> QED
      BY <1>1, <1>2, <3>1
  <2> QED
    BY <1>1, <2>1 DEF Combine
<1>6. c \in Polys(N)
  BY <1>1, <1>2, <1>3, <1>4, <1>5, CombineConv
<1>7. y \in [Index -> 0..(q - 1)] /\ y \in Polys(N) /\ Same(y, Conv(x, c, N), q, N) /\ Conv(x, c, N) \in Polys(N)
  <2> HIDE DEF c
  <2> QED
    BY <1>6, RingMultType
<1>8. PICK t \in Polys(N) : Same(s, Combine(1, one, n, t, N), q, N)
  BY DEF Precise, one
<1> DEFINE u == Combine(k1, one, n, t, N)  v == Combine(k1, one, mn, t, N)
           tt == Conv(t, t, N)  st == Combine(m1, tt, 0, tt, N)
<1>9. Same(s, u, q, N)
  BY <1>8
<1>10. u \in Polys(N) /\ v \in Polys(N) /\ tt \in Polys(N)
  <2> HIDE DEF k1, mn
  <2> QED
    BY <1>1, <1>2, <1>4, <1>8, CombineConv, ConvType
<1>11. st \in Polys(N)
  <2> HIDE DEF m1, tt
  <2> QED
    BY <1>1, <1>4, <1>10, CombineConv
<1>12. Same(c, Combine(k2, one, m1, u, N), q, N)
  <2>1. Same(fx, u, q, N)
    BY <1>3, <1>9, SameEquivalence
  <2>2. Same(one, one, q, N)
    BY SameEquivalence
  <2>3. k2 \in Int /\ m1 \in Int /\ u \in Polys(N)
    BY <1>4, <1>10
  <2> HIDE DEF k2, m1, u, c
  <2>4. Same(Combine(k2, one, m1, fx, N), Combine(k2, one, m1, u, N), q, N)
    BY <1>1, <1>2, <1>3, <2>1, <2>2, <2>3, CombineSame
  <2> QED
    BY <1>5, <2>4
<1>13. Combine(k2, one, m1, u, N) = v
  <2>1. ASSUME NEW i \in Places(N)
        PROVE  2 * one[i] + (-1) * (1 * one[i] + n * t[i]) = 1 * one[i] + (-n) * t[i]
    <3> DEFINE x1 == one[i]  x2 == t[i]  x3 == n * x2
    <3>1. x1 \in Int /\ x2 \in Int
      BY <1>2, <1>8 DEF Polys
    <3>2. x3 \in Int /\ (-n) * x2 = -x3
      BY <3>1
    <3> HIDE DEF x1, x2, x3
    <3>3. 2 * x1 + (-1) * (1 * x1 + x3) = 1 * x1 + (-x3)
      BY <3>1, <3>2
    <3> QED
      BY <3>2, <3>3 DEF x1, x2, x3
  <2>2. \A i \in Places(N) : u[i] = 1 * one[i] + n * t[i]
    BY DEF Combine
  <2> QED
    BY <2>1, <2>2 DEF Combine
<1> HIDE DEF s, u, v, c, sf
<1>14. Same(Conv(s, c, N), Conv(u, v, N), q, N)
  <2>1. Same(c, v, q, N)
    BY <1>12, <1>13
  <2> QED
    BY <1>1, <1>3, <1>6, <1>9, <1>10, <2>1, SameConv
<1>15. Conv(u, v, N) = Combine(k1, v, n, Conv(t, v, N), N)
  <2>1. Conv(u, v, N) = Combine(k1, Conv(one, v, N), n, Conv(t, v, N), N)
    <3> HIDE DEF k1
    <3> QED
      BY <1>1, <1>2, <1>4, <1>8, <1>10, CombineConv DEF u
  <2>2. Conv(one, v, N) = v
    BY <1>1, <1>10, ConvOne DEF one
  <2> QED
    BY <2>1, <2>2
<1>16. Conv(t, v, N) = Combine(k1, t, mn, tt, N)
  <2>1. Conv(t, v, N) = Conv(v, t, N)
    BY <1>1, <1>8, <1>10, ConvCommutes
  <2>2. Conv(v, t, N) = Combine(k1, Conv(one, t, N), mn, Conv(t, t, N), N)
    <3> HIDE DEF k1, mn
    <3> QED
      BY <1>1, <1>2, <1>4, <1>8, CombineConv DEF v
  <2>3. Conv(one, t, N) = t
    BY <1>1, <1>8, ConvOne DEF one
  <2> QED
    BY <2>1, <2>2, <2>3
<1>17. Conv(u, v, N) = Combine(1, one, nn, st, N)
  <2>1. ASSUME NEW i \in Places(N)
        PROVE  1 * (1 * one[i] + (-n) * t[i]) + n * (1 * t[i] + (-n) * tt[i])
                 = 1 * one[i] + (n * n) * ((-1) * tt[i] + 0 * tt[i])
    <3> DEFINE x1 == one[i]  x2 == t[i]  x3 == tt[i]  x4 == n * x2  x5 == n * x3  x6 == n * x5
    <3>1. x1 \in Int /\ x2 \in Int /\ x3 \in Int
      BY <1>2, <1>8, <1>10 DEF Polys
    <3> HIDE DEF x1, x2, x3
    <3>2. x4 \in Int /\ x5 \in Int /\ (-n) * x2 = -x4 /\ (-n) * x3 = -x5
      BY <3>1
    <3>3. x6 \in Int /\ n * n \in Int
      BY <3>2
    <3>4. n * (1 * x2 + (-n) * x3) = x4 - x6
      <4>1. 1 * x2 + (-n) * x3 = x2 - x5
        BY <3>1, <3>2
      <4>2. n * (x2 - x5) = n * x2 - n * x5
        <5> HIDE DEF x5
        <5> QED
          BY <3>1, <3>2
      <4> QED
        BY <4>1, <4>2
    <3>5. (n * n) * ((-1) * x3 + 0 * x3) = -x6
      <4>1. (-1) * x3 + 0 * x3 = -x3
        BY <3>1
      <4>2. (n * n) * (-x3) = -(n * (n * x3))
        BY <3>1
      <4> QED
        BY <4>1, <4>2
    <3>6. 1 * (1 * x1 + (-n) * x2) = x1 - x4
      <4> HIDE DEF x4
      <4>1. 1 * (1 * x1 + (-x4)) = x1 - x4
        BY <3>1, <3>2
      <4> QED
        BY <3>2, <4>1
    <3>7. (x1 - x4) + (x4 - x6) = 1 * x1 + (-x6)
      <4> HIDE DEF x4, x6
      <4> QED
        BY <3>1, <3>2, <3>3
    <3>8. 1 * (1 * x1 + (-n) * x2) + n * (1 * x2 + (-n) * x3)
             = 1 * x1 + (n * n) * ((-1) * x3 + 0 * x3)
      BY <3>4, <3>5, <3>6, <3>7
    <3> QED
      BY <3>8 DEF x1, x2, x3
  <2>2. \A i \in Places(N) : v[i] = 1 * one[i] + (-n) * t[i]
    BY DEF v, Combine
  <2>3. \A i \in Places(N) : Conv(t, v, N)[i] = 1 * t[i] + (-n) * tt[i]
    BY <1>16 DEF Combine
  <2>4. \A i \in Places(N) : st[i] = (-1) * tt[i] + 0 * tt[i]
    BY DEF Combine
  <2> DEFINE tv == Conv(t, v, N)
  <2> HIDE DEF st, tv, tt
  <2>5. \A i \in Places(N) : k1 * v[i] + n * tv[i] = 1 * one[i] + nn * st[i]
    BY <2>1, <2>2, <2>3, <2>4 DEF tv
  <2>6. Combine(k1, v, n, tv, N) = Combine(1, one, nn, st, N)
    <3> HIDE DEF k1, nn
    <3> QED
      BY <2>5 DEF Combine
  <2> QED
    BY <1>15, <2>6 DEF tv
<1>18. Conv(s, c, N) = Conv(sf, Conv(x, c, N), N)
  BY <1>1, <1>6, ConvAssociates DEF s, sf
<1>19. Same(Conv(sf, y, N), Conv(sf, Conv(x, c, N), N), q, N)
  <2>1. Same(sf, sf, q, N) /\ sf \in Polys(N)
    BY SameEquivalence DEF sf
  <2> HIDE DEF y
  <2> QED
    BY <1>1, <1>7, <2>1, SameConv
<1>20. Same(Conv(sf, y, N), Combine(1, one, nn, st, N), q, N)
  BY <1>14, <1>17, <1>18, <1>19, SameEquivalence
<1>21. Precise(y, nn)
  <2> HIDE DEF y, st, nn
  <2> QED
    BY <1>11, <1>20 DEF Precise, sf, one
<1> QED
  BY <1>7, <1>21 DEF y, c, fx, sf

(* Four Newton steps.                                                      *)
LEMMA LiftInverts ==
  ASSUME F \in [Index -> {-1, 0, 1}], NEW x \in [Index -> {0, 1}],
         Same(Conv(x, Bits(a), N), Mono(0, N), 2, N)
  PROVE  /\ ring_lift_inv_pow2(SecretF(F), x) \in [Index -> 0..(q - 1)]
         /\ ring_lift_inv_pow2(SecretF(F), x) \in Polys(N)
         /\ Same(Conv(SecretF(F), ring_lift_inv_pow2(SecretF(F), x), N), Mono(0, N), q, N)
<1> DEFINE sf == SecretF(F)  one == Mono(0, N)
           newton == [z \in [Index -> 0..(q - 1)] |->
              LET fx == ring_mult(sf, z)
              IN  ring_mult(z, [i \in Index |-> (IF i = 0 THEN 2 ELSE 0) - fx[i]])]
           x1 == newton[x]  x2 == newton[x1]  x3 == newton[x2]  x4 == newton[x3]
<1>1. N \in Nat \ {0} /\ Index = Places(N) /\ 0 \in Places(N) /\ q \in Nat \ {0} /\ q >= 2
  BY NPositive, IndexPlaces, PlacesFinite, Modulus
<1>2. one \in Polys(N) /\ Bits(a) \in Polys(N)
  BY <1>1, ConvMono, BitsType
<1>3. sf \in Polys(N) /\ Same(sf, Bits(a), 2, N)
  BY SecretType
<1>4. x \in [Index -> 0..(q - 1)] /\ x \in Polys(N)
  <2>1. 0 \in 0..(q - 1) /\ 1 \in 0..(q - 1) /\ 0..(q - 1) \subseteq Int
    BY <1>1
  <2> QED
    BY <1>1, <2>1 DEF Polys
<1>5. ring_lift_inv_pow2(sf, x) = x4
  BY DEF ring_lift_inv_pow2
<1>6. ASSUME NEW z \in [Index -> 0..(q - 1)], z \in Polys(N), NEW n \in Int, Precise(z, n)
      PROVE  newton[z] \in [Index -> 0..(q - 1)] /\ newton[z] \in Polys(N) /\ Precise(newton[z], n * n)
  BY <1>3, <1>6, NewtonStep
<1>7. Precise(x, 2)
  <2> DEFINE s == Conv(sf, x, N)  t == [i \in Places(N) |-> (s[i] - one[i]) \div 2]
  <2>1. s \in Polys(N) /\ Conv(x, sf, N) = s
    BY <1>1, <1>3, <1>4, ConvType, ConvCommutes
  <2>2. Same(s, one, 2, N)
    <3> DEFINE n == 2  v == Bits(a)
    <3>1. n \in Nat \ {0} /\ Same(sf, v, n, N) /\ v \in Polys(N)
      BY <1>2, <1>3
    <3>2. Same(Conv(x, v, N), one, n, N)
      OBVIOUS
    <3> HIDE DEF n, v, sf, one
    <3>3. Same(x, x, n, N)
      BY SameEquivalence
    <3>4. Same(Conv(x, sf, N), Conv(x, v, N), n, N)
      BY <1>1, <1>3, <1>4, <3>1, <3>3, SameConv
    <3>5. Same(s, one, n, N)
      BY <2>1, <3>2, <3>4, SameEquivalence
    <3> QED
      BY <3>5 DEF n
  <2> HIDE DEF s
  <2>3. ASSUME NEW i \in Places(N)
        PROVE  t[i] \in Int /\ s[i] = 1 * one[i] + 2 * t[i]
    <3>1. s[i] \in Int /\ one[i] \in Int /\ s[i] % 2 = one[i] % 2
      BY <1>2, <2>1, <2>2 DEF Polys, Same, Congruent
    <3> DEFINE z1 == s[i]  z2 == one[i]  z3 == (z1 - z2) \div 2
    <3>2. z1 \in Int /\ z2 \in Int /\ z1 % 2 = z2 % 2
      BY <3>1
    <3>3. t[i] = z3
      OBVIOUS
    <3> HIDE DEF z1, z2, t
    <3>4. z3 \in Int /\ z1 = 1 * z2 + 2 * z3
      BY <3>2
    <3> QED
      BY <3>3, <3>4 DEF z1, z2
  <2>4. t \in Polys(N)
    BY <2>3 DEF Polys
  <2> HIDE DEF t
  <2>5. Same(s, Combine(1, one, 2, t, N), q, N)
    <3>1. \A i \in Places(N) : s[i] = Combine(1, one, 2, t, N)[i]
      BY <2>3 DEF Combine
    <3> QED
      BY <3>1 DEF Same, Congruent
  <2> QED
    BY <2>4, <2>5 DEF Precise, s
<1> HIDE DEF newton
<1>8. x1 \in [Index -> 0..(q - 1)] /\ x1 \in Polys(N) /\ Precise(x1, 4)
  <2>1. 2 * 2 = 4 /\ 2 \in Int
    OBVIOUS
  <2>2. Precise(x1, 2 * 2)
    <3> DEFINE n == 2
    <3>1. n \in Int /\ Precise(x, n)
      BY <1>7
    <3> HIDE DEF n
    <3>2. Precise(x1, n * n)
      BY <1>4, <1>6, <3>1
    <3> QED
      BY <3>2 DEF n
  <2> QED
    BY <1>4, <1>6, <1>7, <2>1, <2>2
<1> HIDE DEF x1
<1>9. x2 \in [Index -> 0..(q - 1)] /\ x2 \in Polys(N) /\ Precise(x2, 16)
  <2> DEFINE n == 4
  <2>1. n \in Int /\ n * n = 16 /\ Precise(x1, n)
    BY <1>8
  <2> HIDE DEF n
  <2>2. x2 \in [Index -> 0..(q - 1)] /\ x2 \in Polys(N) /\ Precise(x2, n * n)
    BY <1>6, <1>8, <2>1
  <2> QED
    BY <2>1, <2>2
<1> HIDE DEF x2
<1>10. x3 \in [Index -> 0..(q - 1)] /\ x3 \in Polys(N) /\ Precise(x3, 256)
  <2> DEFINE n == 16
  <2>1. n \in Int /\ n * n = 256 /\ Precise(x2, n)
    BY <1>9
  <2> HIDE DEF n
  <2>2. x3 \in [Index -> 0..(q - 1)] /\ x3 \in Polys(N) /\ Precise(x3, n * n)
    BY <1>6, <1>9, <2>1
  <2> QED
    BY <2>1, <2>2
<1> HIDE DEF x3
<1>11. x4 \in [Index -> 0..(q - 1)] /\ x4 \in Polys(N) /\ Precise(x4, 65536)
  <2> DEFINE n == 256
  <2>1. n \in Int /\ n * n = 65536 /\ Precise(x3, n)
    BY <1>10
  <2> HIDE DEF n
  <2>2. x4 \in [Index -> 0..(q - 1)] /\ x4 \in Polys(N) /\ Precise(x4, n * n)
    BY <1>6, <1>10, <2>1
  <2> QED
    BY <2>1, <2>2
<1> HIDE DEF x4
<1>12. PICK t \in Polys(N) : Same(Conv(sf, x4, N), Combine(1, one, 65536, t, N), q, N)
  BY <1>11 DEF Precise
<1>13. Same(Combine(1, one, 65536, t, N), one, q, N)
  <2> DEFINE big == 65536
  <2>1. PICK z \in Int : big = q * z
    BY WordMultiple
  <2>2. big \in Int
    OBVIOUS
  <2> SUFFICES ASSUME NEW i \in Places(N)
               PROVE  Congruent(1 * one[i] + big * t[i], one[i], q)
    BY DEF Same, Combine
  <2> HIDE DEF big
  <2> DEFINE y1 == one[i]  y2 == t[i]  y3 == z * y2  y4 == 1 * y1 + big * y2
  <2>3. y1 \in Int /\ y2 \in Int
    BY <1>2 DEF Polys
  <2> HIDE DEF y1, y2, one
  <2>4. y3 \in Int /\ y4 \in Int
    BY <2>2, <2>3
  <2>5. big * y2 = q * y3
    BY <1>1, <2>1, <2>3
  <2>6. y4 = y1 + q * y3
    <3> DEFINE l == q * y3
    <3>1. l \in Int /\ y4 = 1 * y1 + l
      BY <1>1, <2>4, <2>5
    <3> HIDE DEF l, y4
    <3>2. y4 = y1 + l
      BY <2>3, <3>1
    <3> QED
      BY <3>2 DEF l
  <2> HIDE DEF y3, y4
  <2>7. Congruent(y4, y1, q)
    BY <1>1, <2>3, <2>4, <2>6, CongruentMultiple
  <2> QED
    BY <2>7 DEF y4, y1, y2
<1>14. Same(Conv(sf, x4, N), one, q, N)
  BY <1>12, <1>13, SameEquivalence
<1> QED
  BY <1>5, <1>11, <1>14

(* While the loop runs.                                                    *)
Inverting == pc = "inv" => Shape(w) /\ Related(w, a)

(* When it has ended.                                                      *)
Inverted ==
  pc = "lift" => /\ f_inv \in [Index -> {0, 1}]
                 /\ Same(Conv(f_inv, Bits(a), N), Mono(0, N), 2, N)

KeysMade ==
  pc = "done" => /\ f_inv \in [Index -> 0..(q - 1)]
                 /\ Same(Conv(SecretF(F), f_inv, N), Mono(0, N), q, N)
                 /\ g \in GDraws /\ h = ring_mult(f_inv, g)

KeyInv == /\ F \in [Index -> {-1, 0, 1}]
          /\ Inverting /\ Inverted /\ KeysMade

(* The drawn g is a polynomial.                                            *)
LEMMA GType == GDraws \subseteq [Index -> {-1, 0, 1}] /\ GDraws \subseteq Polys(N)
<1>1. GDraws \subseteq TrinaryPolys(N, d)
  BY GAssumption
<1>2. TrinaryPolys(N, d) \subseteq [Index -> {-1, 0, 1}]
  BY DEF TrinaryPolys, Index
<1>3. {-1, 0, 1} \subseteq Int
  OBVIOUS
<1>4. [Index -> {-1, 0, 1}] \subseteq Polys(N)
  BY <1>3, IndexPlaces DEF Polys
<1> QED
  BY <1>1, <1>2, <1>4

(* The invariant holds at the start.                                       *)
LEMMA KeyInitInv == KeyInit => KeyInv
<1> SUFFICES ASSUME KeyInit PROVE KeyInv
  OBVIOUS
<1>1. pc = "ones" /\ F = Zero
  BY DEF KeyInit
<1>2. F \in [Index -> {-1, 0, 1}]
  BY <1>1 DEF Zero
<1> QED
  BY <1>1, <1>2 DEF KeyInv, Inverting, Inverted, KeysMade

(* The odd coefficients of f = 3F + 1, as the set that the loop starts from*)
LEMMA StartHasOdd ==
  ASSUME F \in [Index -> {-1, 0, 1}], ~(Cardinality(a) % 2 = 0)
  PROVE  a # {} /\ a \in SUBSET Index
<1>1. a \in SUBSET Index
  BY SecretType
<1>2. Cardinality({}) = 0
  BY FS_EmptySet
<1>3. 0 % 2 = 0
  OBVIOUS
<1> QED
  BY <1>1, <1>2, <1>3

(* An iteration that does not refuse.                                      *)
LEMMA LoopStep ==
  ASSUME NEW A \in SUBSET Index, NEW x, Shape(x), Related(x, A), {e \in x.f : e <= x.deg_f} # {}
  PROVE  /\ x.f # {} /\ Divided(divide(x)) /\ Related(divide(x), A)
         /\ divide(x).b = x.b
         /\ divide(x).deg_f # 0 =>
              /\ Shape(add_g(exchange(divide(x)))) /\ Related(add_g(exchange(divide(x))), A)
              /\ add_g(exchange(divide(x))).deg_b < N /\ add_g(exchange(divide(x))).deg_c < N
<1>1. x.f # {}
  OBVIOUS
<1>2. Divided(divide(x)) /\ Related(divide(x), A)
  BY <1>1, DivideKeeps, DivideRelated
<1>3. divide(x).b = x.b
  <2>1. x \in LoopState
    BY DEF Shape
  <2> QED
    BY <1>1, <2>1, DivideKeeps DEF LoopState
<1> SUFFICES ASSUME divide(x).deg_f # 0
             PROVE  /\ Shape(add_g(exchange(divide(x)))) /\ Related(add_g(exchange(divide(x))), A)
                    /\ add_g(exchange(divide(x))).deg_b < N /\ add_g(exchange(divide(x))).deg_c < N
  BY <1>1, <1>2, <1>3
<1> DEFINE y == exchange(divide(x))  z == add_g(y)
<1>4. /\ y \in LoopState /\ Within(y) /\ Room(y) /\ y.deg_f >= y.deg_g
      /\ y.deg_g >= 1 /\ y.deg_g < N /\ 0 \in y.f /\ 0 \in y.g
      /\ (0 \in y.b <=> 0 \notin y.c)
  BY <1>2, ExchangeKeeps
<1>5. Related(y, A)
  BY <1>2, ExchangeRelated
<1> HIDE DEF y
<1>6. /\ Shape(z) /\ z.f = SymDiff(y.f, y.g) /\ z.b = SymDiff(y.b, y.c)
      /\ z.g = y.g /\ z.c = y.c /\ z.k = y.k
  BY <1>4, AddKeeps
<1>7. y.k \in Nat
  BY <1>4 DEF LoopState
<1> HIDE DEF z
<1>8. Related(z, A)
  BY <1>5, <1>6, <1>7, AddRelated
<1>9. z.deg_b < N /\ z.deg_c < N
  <2>1. z \in LoopState /\ z.deg_b + z.deg_g <= N /\ z.deg_g >= 1 /\ z.deg_c < N
    BY <1>6 DEF Shape, Room, Ends
  <2>2. z.deg_b \in Nat /\ z.deg_g \in Nat
    BY <2>1 DEF LoopState
  <2> QED
    BY <2>1, <2>2, NPositive
<1> QED
  BY <1>6, <1>8, <1>9 DEF z, y

(* The invariant is kept, and each step from "start" and "inv" decides     *)
(* as it should.                                                           *)
StepDecides ==
  /\ pc \in {"start", "inv"} /\ pc' = "ones" => a \notin Units2
  /\ pc = "inv" /\ pc' = "lift" => mult_mod_2(a, Odd(f_inv')) = {0}

StepHarmless ==
  (pc = "inv" /\ (w'.deg_b >= N \/ w'.deg_c >= N)) => pc' = "lift" /\ w'.b = w.b

(* Drawing coefficients keeps the invariant.                               *)
LEMMA DrawKeeps ==
  ASSUME KeyInv, DrawOnes \/ DrawMinus
  PROVE  KeyInv' /\ StepDecides /\ StepHarmless
<1>1. F \in [Index -> {-1, 0, 1}]
  BY DEF KeyInv
<1>2. F' \in [Index -> {-1, 0, 1}] /\ pc' \in {"ones", "minus", "start"} /\ pc \in {"ones", "minus"}
  <2>1. CASE DrawOnes
    <3>1. PICK S \in Words : F' = [i \in Index |-> IF i \in Free(S) THEN 1 ELSE F[i]]
                             /\ pc' \in {"ones", "minus"} /\ pc = "ones"
      BY <2>1 DEF DrawOnes
    <3> QED
      BY <1>1, <3>1
  <2>2. CASE DrawMinus
    <3>1. PICK S \in Words : F' = [i \in Index |-> IF i \in Free(S) THEN -1 ELSE F[i]]
                             /\ pc' \in {"minus", "start"} /\ pc = "minus"
      BY <2>2 DEF DrawMinus
    <3> QED
      BY <1>1, <3>1
  <2> QED
    BY <2>1, <2>2
<1> QED
  BY <1>2 DEF KeyInv, Inverting, Inverted, KeysMade, StepDecides, StepHarmless

(* Giving a candidate up keeps the invariant and starts the next one with  *)
(* an empty work area.                                                     *)
LEMMA RefuseKeeps ==
  ASSUME KeyInv, Refuse
  PROVE  KeyInv' /\ pc' = "ones" /\ w'.deg_b = 0 /\ w'.deg_c = 0
<1>1. pc' = "ones" /\ F' = Zero /\ w' = NoInv
  BY DEF Refuse
<1>2. F' \in [Index -> {-1, 0, 1}]
  BY <1>1 DEF Zero
<1>3. w'.deg_b = 0 /\ w'.deg_c = 0
  BY <1>1 DEF NoInv
<1> QED
  BY <1>1, <1>2, <1>3 DEF KeyInv, Inverting, Inverted, KeysMade

(* Entering ring_inv_mod_2 keeps the invariant.                            *)
LEMMA StartKeeps ==
  ASSUME KeyInv, RingInvStart
  PROVE  KeyInv' /\ StepDecides /\ StepHarmless
<1>1. F \in [Index -> {-1, 0, 1}]
  BY DEF KeyInv
<1>2. a \in SUBSET Index /\ pc = "start"
  BY <1>1, SecretType DEF RingInvStart
<1>3. CASE Cardinality(a) % 2 = 0
  <2>1. Refuse
    BY <1>3 DEF RingInvStart, a
  <2>2. a \notin Units2
    BY <1>2, <1>3, EvenIsNoUnit
  <2> QED
    BY <1>2, <2>1, <2>2, RefuseKeeps DEF StepDecides, StepHarmless
<1>4. CASE ~(Cardinality(a) % 2 = 0)
  <2>1. /\ pc' = "inv" /\ F' = F
        /\ w' = [NoInv EXCEPT !.f = a, !.deg_f = Max(a), !.g = {0, N}, !.deg_g = N, !.b = {0}]
    BY <1>4 DEF RingInvStart, a
  <2>2. a # {}
    BY <1>1, <1>4, StartHasOdd
  <2>3. Shape(w') /\ Related(w', a)
    BY <1>2, <2>1, <2>2, StartRelated
  <2>4. a' = a
    BY <2>1 DEF a, SecretF
  <2>5. Inverting'
    <3>1. Shape(w)' /\ Related(w, a)'
      BY <2>3, <2>4 DEF Shape, LoopState, Within, Room, Ends, Related
    <3> QED
      BY <3>1 DEF Inverting
  <2> QED
    BY <1>1, <1>2, <2>1, <2>5 DEF KeyInv, Inverted, KeysMade, StepDecides, StepHarmless
<1> QED
  BY <1>3, <1>4

(* A turn of the loop of ring_inv_mod_2 keeps the invariant, decides as it *)
(* should and writes within the arrays.                                    *)
LEMMA StepKeeps ==
  ASSUME KeyInv, RingInvStep
  PROVE  KeyInv' /\ StepDecides /\ StepHarmless
<1>1. F \in [Index -> {-1, 0, 1}] /\ pc = "inv" /\ Shape(w) /\ Related(w, a)
  BY DEF KeyInv, Inverting, RingInvStep
<1>2. a \in SUBSET Index
  BY <1>1, SecretType
<1> DEFINE x == divide(w)
<1>3. CASE {e \in w.f : e <= w.deg_f} = {}
  <2>1. Refuse
    BY <1>3 DEF RingInvStep
  <2>2. w.f = {}
    <3>1. w \in LoopState /\ w.f \subseteq 0..w.deg_f
      BY <1>1 DEF Shape, Within
    <3>2. w.deg_f \in Nat
      BY <3>1 DEF LoopState
    <3>3. \A e \in w.f : e <= w.deg_f
      BY <3>1, <3>2
    <3> QED
      BY <1>3, <3>3
  <2>3. a \notin Units2
    BY <1>1, <2>2, EmptyIsNoUnit
  <2>4. KeyInv' /\ pc' = "ones" /\ w'.deg_b = 0 /\ w'.deg_c = 0
    BY <2>1, RefuseKeeps
  <2> QED
    BY <2>3, <2>4, NPositive DEF StepDecides, StepHarmless
<1>4. CASE {e \in w.f : e <= w.deg_f} # {} /\ x.deg_f = 0
  <2>1. pc' = "lift" /\ f_inv' = rotated(x.b, x.k) /\ w' = x /\ F' = F
    BY <1>4 DEF RingInvStep
  <2>2. Divided(x) /\ Related(x, a) /\ x.b = w.b
    BY <1>1, <1>2, <1>4, LoopStep
  <2> HIDE DEF x
  <2>3. /\ rotated(x.b, x.k) \in [Index -> {0, 1}]
        /\ Same(Conv(rotated(x.b, x.k), Bits(a), N), Mono(0, N), 2, N)
        /\ mult_mod_2(a, Odd(rotated(x.b, x.k))) = {0}
    BY <1>2, <1>4, <2>2, RotatedInverts
  <2>4. a' = a
    BY <2>1 DEF a, SecretF
  <2>5. Inverted'
    BY <2>1, <2>3, <2>4 DEF Inverted
  <2>6. StepDecides
    BY <2>1, <2>3 DEF StepDecides
  <2>7. StepHarmless
    BY <2>1, <2>2 DEF StepHarmless
  <2> QED
    BY <1>1, <2>1, <2>5, <2>6, <2>7 DEF KeyInv, Inverting, KeysMade
<1>5. CASE {e \in w.f : e <= w.deg_f} # {} /\ x.deg_f # 0
  <2> DEFINE y == add_g(exchange(x))
  <2>1. pc' = "inv" /\ w' = y /\ F' = F
    BY <1>5 DEF RingInvStep
  <2>2. Shape(y) /\ Related(y, a) /\ y.deg_b < N /\ y.deg_c < N
    BY <1>1, <1>2, <1>5, LoopStep
  <2> HIDE DEF x, y
  <2>3. a' = a
    BY <2>1 DEF a, SecretF
  <2>4. Inverting'
    <3>1. Shape(w)' /\ Related(w, a)'
      BY <2>1, <2>2, <2>3 DEF Shape, LoopState, Within, Room, Ends, Related
    <3> QED
      BY <3>1 DEF Inverting
  <2>5. StepHarmless
    <3>1. y.deg_b \in Nat /\ y.deg_c \in Nat
      BY <2>2 DEF Shape, LoopState
    <3> QED
      BY <2>1, <2>2, <3>1, NPositive DEF StepHarmless
  <2> QED
    BY <1>1, <2>1, <2>4, <2>5 DEF KeyInv, Inverted, KeysMade, StepDecides
<1> QED
  BY <1>3, <1>4, <1>5

(* Newton's iteration and the draw of g keep the invariant.                *)
LEMMA FinishKeeps ==
  ASSUME KeyInv, Finish
  PROVE  KeyInv' /\ StepDecides /\ StepHarmless
<1>1. /\ F \in [Index -> {-1, 0, 1}] /\ pc = "lift" /\ f_inv \in [Index -> {0, 1}]
      /\ Same(Conv(f_inv, Bits(a), N), Mono(0, N), 2, N)
  BY DEF KeyInv, Inverted, Finish
<1>2. /\ pc' = "done" /\ F' = F /\ f_inv' = ring_lift_inv_pow2(SecretF(F), f_inv)
      /\ g' \in GDraws /\ h' = ring_mult(f_inv', g')
  BY DEF Finish
<1>3. /\ f_inv' \in [Index -> 0..(q - 1)]
      /\ Same(Conv(SecretF(F), f_inv', N), Mono(0, N), q, N)
  BY <1>1, <1>2, LiftInverts
<1>4. SecretF(F') = SecretF(F)
  BY <1>2
<1>5. KeysMade'
  BY <1>2, <1>3, <1>4 DEF KeysMade
<1> QED
  BY <1>1, <1>2, <1>5 DEF KeyInv, Inverting, Inverted, StepDecides, StepHarmless

(* Every step keeps the invariant.                                         *)
LEMMA KeyNextInv ==
  ASSUME KeyInv, [KeyNext]_keyVars
  PROVE  KeyInv' /\ (KeyNext => StepDecides /\ StepHarmless)
<1>1. CASE DrawOnes \/ DrawMinus
  BY <1>1, DrawKeeps
<1>2. CASE RingInvStart
  BY <1>2, StartKeeps
<1>3. CASE RingInvStep
  BY <1>3, StepKeeps
<1>4. CASE Finish
  BY <1>4, FinishKeeps
<1>5. CASE UNCHANGED keyVars
  <2>1. a' = a
    BY <1>5 DEF keyVars, a, SecretF
  <2>2. KeyInv'
    BY <1>5, <2>1 DEF keyVars, KeyInv, Inverting, Inverted, KeysMade, Shape, LoopState, Within, Room, Ends, Related, Bits
  <2> QED
    BY <1>1, <1>2, <1>3, <1>4, <2>2, DrawKeeps, StartKeeps, StepKeeps, FinishKeeps DEF KeyNext
<1> QED
  BY <1>1, <1>2, <1>3, <1>4, <1>5 DEF KeyNext

(* The invariant of key generation (keypair with ring_inv of               *)
(* NTRUEncrypt.c) holds throughout.                                        *)
THEOREM KeyInvariance == KeySpec => []KeyInv
<1>1. KeyInit => KeyInv
  BY KeyInitInv
<1>2. KeyInv /\ [KeyNext]_keyVars => KeyInv'
  BY KeyNextInv
<1> QED
  BY <1>1, <1>2, PTL DEF KeySpec

(* The relation of f, g, b and c, read at b.                               *)
LEMMA KeyInvAlmost == KeyInv => AlmostInverse
<1> SUFFICES ASSUME KeyInv, pc = "inv"
             PROVE  /\ mult_mod_2(w.b, a) = mult_mod_2({w.k}, w.f)
                    /\ mult_mod_2(w.c, a) = mult_mod_2({w.k}, w.g)
                    /\ w.f \subseteq 0..w.deg_f /\ w.g \subseteq 0..w.deg_g
                    /\ w.b \subseteq 0..w.deg_b /\ w.c \subseteq 0..w.deg_c
  BY DEF AlmostInverse
<1>1. Shape(w) /\ Related(w, a) /\ a \in SUBSET Index
  BY SecretType DEF KeyInv, Inverting
<1>2. /\ w \in LoopState
      /\ w.f \subseteq 0..w.deg_f /\ w.g \subseteq 0..w.deg_g
      /\ w.b \subseteq 0..w.deg_b /\ w.c \subseteq 0..w.deg_c
      /\ w.deg_b + w.deg_g <= N /\ w.deg_c + w.deg_f <= N /\ w.deg_g >= 1 /\ w.deg_c < N
  BY <1>1 DEF Shape, Within, Room, Ends
<1>3. w.deg_b \in Nat /\ w.deg_g \in Nat /\ w.deg_c \in Nat /\ w.deg_f \in Nat /\ w.k \in Nat
  BY <1>2 DEF LoopState
<1>4. w.f \in SUBSET (0..N) /\ w.g \in SUBSET (0..N)
  BY <1>2, <1>3, NPositive
<1>5. w.b \in SUBSET Index /\ w.c \in SUBSET Index
  BY <1>2, <1>3, NPositive DEF Index
<1>6. mult_mod_2(w.b, a) = {k \in Index : Conv(Bits(w.b), Bits(a), N)[k] % 2 = 1}
      /\ mult_mod_2(w.c, a) = {k \in Index : Conv(Bits(w.c), Bits(a), N)[k] % 2 = 1}
  BY <1>1, <1>5, MultIsConv
<1>7. mult_mod_2({w.k}, w.f) = {k \in Index : Rot(Bits(w.f), w.k, N)[k] % 2 = 1}
      /\ mult_mod_2({w.k}, w.g) = {k \in Index : Rot(Bits(w.g), w.k, N)[k] % 2 = 1}
  BY <1>3, <1>4, MultPower
<1>8. \A x, y : Same(x, y, 2, N) =>
        {k \in Index : x[k] % 2 = 1} = {k \in Index : y[k] % 2 = 1}
  BY SameOdd
<1>9. mult_mod_2(w.b, a) = mult_mod_2({w.k}, w.f)
  <2>1. Same(Conv(Bits(w.b), Bits(a), N), Rot(Bits(w.f), w.k, N), 2, N)
    BY <1>1 DEF Related
  <2>2. {k \in Index : Conv(Bits(w.b), Bits(a), N)[k] % 2 = 1}
          = {k \in Index : Rot(Bits(w.f), w.k, N)[k] % 2 = 1}
    BY <1>8, <2>1
  <2> QED
    BY <1>6, <1>7, <2>2
<1>10. mult_mod_2(w.c, a) = mult_mod_2({w.k}, w.g)
  <2>1. Same(Conv(Bits(w.c), Bits(a), N), Rot(Bits(w.g), w.k, N), 2, N)
    BY <1>1 DEF Related
  <2>2. {k \in Index : Conv(Bits(w.c), Bits(a), N)[k] % 2 = 1}
          = {k \in Index : Rot(Bits(w.g), w.k, N)[k] % 2 = 1}
    BY <1>8, <2>1
  <2> QED
    BY <1>6, <1>7, <2>2
<1> QED
  BY <1>2, <1>9, <1>10

(* When the keys are made, Newton's iteration has reached precision q: the *)
(* public key times F is g.                                                *)
LEMMA KeyInvFit == KeyInv => KeysFit
<1> SUFFICES ASSUME KeyInv, pc = "done"
             PROVE  /\ check_keys(F, g, h)
                    /\ ring_mult(SecretF(F), f_inv) = [Zero EXCEPT ![0] = 1]
  BY DEF KeysFit
<1> DEFINE sf == SecretF(F)  one == Mono(0, N)
<1>1. N \in Nat \ {0} /\ Index = Places(N) /\ 0 \in Places(N) /\ q \in Nat \ {0} /\ q >= 2
  BY NPositive, IndexPlaces, PlacesFinite, Modulus
<1>2. sf \in Polys(N)
  BY SecretType DEF KeyInv
<1>3. f_inv \in [Index -> 0..(q - 1)] /\ Same(Conv(sf, f_inv, N), one, q, N)
      /\ g \in GDraws /\ h = ring_mult(f_inv, g)
  BY DEF KeyInv, KeysMade
<1>4. g \in Polys(N)
  BY <1>3, GType
<1>5. f_inv \in Polys(N)
  <2>1. 0..(q - 1) \subseteq Int
    BY <1>1
  <2> QED
    BY <1>1, <1>3, <2>1 DEF Polys
<1>6. one \in Polys(N)
  BY <1>1, <1>4, ConvOne
<1> HIDE DEF sf
<1>7. ring_mult(sf, f_inv) = [Zero EXCEPT ![0] = 1]
  <2>1. ring_mult(sf, f_inv) = Reduced(one, q, N)
    BY <1>3, RingMult, SameReduced
  <2>2. 1 % q = 1 /\ 0 % q = 0
    BY <1>1
  <2>3. Reduced(one, q, N) = [i \in Index |-> IF i = 0 THEN 1 ELSE 0]
    BY <1>1, <2>2 DEF Reduced, Mono
  <2>4. [Zero EXCEPT ![0] = 1] = [i \in Index |-> IF i = 0 THEN 1 ELSE 0]
    BY <1>1 DEF Zero
  <2> QED
    BY <2>1, <2>3, <2>4
<1>8. Same(Conv(sf, h, N), g, q, N) /\ h \in Polys(N)
  <2> HIDE DEF one
  <2>1. h \in Polys(N) /\ Same(h, Conv(f_inv, g, N), q, N) /\ Conv(f_inv, g, N) \in Polys(N)
    BY <1>3, <1>4, <1>5, RingMultType
  <2>2. Same(sf, sf, q, N) /\ Same(g, g, q, N)
    BY SameEquivalence
  <2>3. Same(Conv(sf, h, N), Conv(sf, Conv(f_inv, g, N), N), q, N)
    BY <1>1, <1>2, <2>1, <2>2, SameConv
  <2>4. Conv(sf, Conv(f_inv, g, N), N) = Conv(Conv(sf, f_inv, N), g, N)
    BY <1>1, <1>2, <1>4, <1>5, ConvAssociates
  <2>5. Conv(sf, f_inv, N) \in Polys(N)
    BY <1>1, <1>2, <1>5, ConvType
  <2>6. Same(Conv(Conv(sf, f_inv, N), g, N), Conv(one, g, N), q, N)
    BY <1>1, <1>3, <1>4, <1>6, <2>5, SameFactor
  <2>7. Conv(one, g, N) = g
    BY <1>1, <1>4, ConvOne DEF one
  <2> QED
    BY <2>1, <2>3, <2>4, <2>6, <2>7, SameEquivalence
<1>9. check_keys(F, g, h)
  <2>1. ring_mult(sf, h) = Reduced(g, q, N)
    BY <1>8, RingMult, SameReduced
  <2> QED
    BY <1>1, <2>1 DEF check_keys, Reduced, sf
<1> QED
  BY <1>7, <1>9 DEF sf

(* While ring_inv_mod_2 runs, b times the secret is f times the power of X *)
(* still to be divided out, modulo 2: what the loop computes is an inverse *)
(* up to that power.                                                       *)
THEOREM InverseAlmost == KeySpec => []AlmostInverse
  BY KeyInvariance, KeyInvAlmost, PTL

(* Every key pair that keypair returns passes the check that ring_mult(F,  *)
(* h) is g, for every N and q and every order of draws.                    *)
THEOREM KeysCorrect == KeySpec => []KeysFit
  BY KeyInvariance, KeyInvFit, PTL

(* ntru_ring_inv refuses only polynomials that have no inverse, and what   *)
(* it returns for the others is the inverse modulo 2.                      *)
THEOREM InversionDecides == KeySpec => InverseDecides
<1>1. KeyInv /\ [KeyNext]_keyVars => [StepDecides]_keyVars
  BY KeyNextInv
<1>2. [][StepDecides]_keyVars => InverseDecides
  BY PTL DEF StepDecides, InverseDecides
<1> QED
  BY <1>1, <1>2, KeyInvariance, PTL DEF KeySpec

(* An iteration of ring_inv that moves c past the end of its array is the  *)
(* last one, and the byte of b that it overwrites already had that value.  *)
THEOREM OverrunDoesNoHarm == KeySpec => OverrunHarmless
<1>1. KeyInv /\ [KeyNext]_keyVars => [StepHarmless]_keyVars
  BY KeyNextInv
<1>2. [][StepHarmless]_keyVars => OverrunHarmless
  BY PTL DEF StepHarmless, OverrunHarmless
<1> QED
  BY <1>1, <1>2, KeyInvariance, PTL DEF KeySpec

----------------------------------------------------------------------------
(***************************************************************************)
(* Encryption: the bits of texts and lengths, and what decryption reads.   *)
(***************************************************************************)

(* A bit of a number.                                                      *)
LEMMA BitType ==
  ASSUME NEW x \in Nat, NEW j \in Nat
  PROVE  bit(x, j) \in {0, 1}
<1> DEFINE t == two_to[j]
<1>1. t \in Nat \ {0}
  BY TwoTo
<1> HIDE DEF t
<1>2. x \div t \in Int
  BY <1>1, DivMod
<1> DEFINE y == x \div t
<1> HIDE DEF y
<1>3. y % 2 \in {0, 1}
  BY <1>2 DEF y
<1> QED
  BY <1>3 DEF bit, y, t

(* The bits of a number make it up.                                        *)
LEMMA BitsMakeUp ==
  ASSUME NEW n \in Nat, NEW x \in 0..(two_to[n] - 1),
         NEW f, \A j \in Places(n) : f[j] = bit(x, j) * two_to[j]
  PROVE  Sum(f, Places(n)) = x
<1> DEFINE ds == Digits(x, n, two_to, 2)
<1>1. two_to[n] \in Nat \ {0} /\ x \in Nat /\ IsFiniteSet(Places(n))
  BY TwoTo, PlacesGrow
<1>2. Sum(ds, Places(n)) = x % two_to[n]
  BY <1>1, BitWeights, DigitsMakeUp
<1>3. \A j \in Places(n) : f[j] \in Int /\ f[j] = ds[j]
  <2> SUFFICES ASSUME NEW j \in Places(n)
               PROVE  f[j] \in Int /\ f[j] = ds[j]
    OBVIOUS
  <2>1. f[j] = bit(x, j) * two_to[j]
    OBVIOUS
  <2>2. ds[j] = bit(x, j) * two_to[j]
    BY DEF Digits, Digit, bit
  <2>3. bit(x, j) \in Int /\ two_to[j] \in Int
    BY <1>1, BitType, PlacesGrow, TwoTo
  <2> QED
    BY <2>1, <2>2, <2>3
<1> HIDE DEF ds
<1>4. Sum(f, Places(n)) = Sum(ds, Places(n))
  BY <1>1, <1>3, SumEqual
<1>5. x % two_to[n] = x
  <2> DEFINE T == two_to[n]
  <2>1. T \in Nat \ {0} /\ x \in 0..(T - 1)
    BY <1>1
  <2> HIDE DEF T
  <2>2. x % T = x
    BY <2>1
  <2> QED
    BY <2>2 DEF T
<1> QED
  BY <1>2, <1>4, <1>5

(* With what keygen computed, f * h = g modulo q.                          *)
LEMMA KeyEquation ==
  ASSUME KeyInv, pc = "done"
  PROVE  /\ SecretF(F) \in Polys(N) /\ h \in Polys(N) /\ g \in Polys(N)
         /\ Same(Conv(SecretF(F), h, N), g, q, N)
<1> DEFINE sf == SecretF(F)  one == Mono(0, N)
<1>1. N \in Nat \ {0} /\ Index = Places(N) /\ 0 \in Places(N) /\ q \in Nat \ {0} /\ q >= 2
  BY NPositive, IndexPlaces, PlacesFinite, Modulus
<1>2. sf \in Polys(N)
  BY SecretType DEF KeyInv
<1>3. f_inv \in [Index -> 0..(q - 1)] /\ Same(Conv(sf, f_inv, N), one, q, N)
      /\ g \in GDraws /\ h = ring_mult(f_inv, g)
  BY DEF KeyInv, KeysMade
<1>4. g \in Polys(N)
  BY <1>3, GType
<1>5. f_inv \in Polys(N)
  <2>1. 0..(q - 1) \subseteq Int
    BY <1>1
  <2> QED
    BY <1>1, <1>3, <2>1 DEF Polys
<1>6. one \in Polys(N)
  BY <1>1, <1>4, ConvOne
<1> HIDE DEF sf, one
<1>7. h \in Polys(N) /\ Same(h, Conv(f_inv, g, N), q, N) /\ Conv(f_inv, g, N) \in Polys(N)
  BY <1>3, <1>4, <1>5, RingMultType
<1>8. Same(sf, sf, q, N) /\ Same(g, g, q, N)
  BY SameEquivalence
<1>9. Same(Conv(sf, h, N), Conv(sf, Conv(f_inv, g, N), N), q, N)
  BY <1>1, <1>2, <1>7, <1>8, SameConv
<1>10. Conv(sf, Conv(f_inv, g, N), N) = Conv(Conv(sf, f_inv, N), g, N)
  BY <1>1, <1>2, <1>4, <1>5, ConvAssociates
<1>11. Conv(sf, f_inv, N) \in Polys(N)
  BY <1>1, <1>2, <1>5, ConvType
<1>12. Same(Conv(Conv(sf, f_inv, N), g, N), Conv(one, g, N), q, N)
  BY <1>1, <1>3, <1>4, <1>6, <1>11, SameFactor
<1>13. Conv(one, g, N) = g
  BY <1>1, <1>4, ConvOne DEF one
<1>14. Same(Conv(sf, h, N), g, q, N)
  BY <1>9, <1>10, <1>12, <1>13, SameEquivalence
<1> QED
  BY <1>2, <1>4, <1>7, <1>14 DEF sf

CharCodes == 0..(two_to[CharBits] - 1)
Coefficients == {-1, 0, 1}

(* Vectors of small coefficients are polynomials.                          *)
LEMMA CoefficientsToPolys == [Index -> Coefficients] \subseteq Polys(N)
<1>1. Coefficients \subseteq Int
  BY DEF Coefficients
<1> QED
  BY <1>1, IndexPlaces DEF Polys

(* The drawn pads and blinding polynomials are vectors of small            *)
(* coefficients.                                                           *)
LEMMA DrawsType ==
  /\ PadDraws \subseteq [Places(PadLen) -> Coefficients]
  /\ RDraws \subseteq Polys(N)
<1>1. PadDraws \subseteq [Places(PadLen) -> Coefficients]
  BY DrawsAssumption DEF TrinaryPolys, Places, Coefficients
<1>2. RDraws \subseteq [Index -> Coefficients]
  BY DrawsAssumption DEF TrinaryPolys, Index, Coefficients
<1> QED
  BY <1>1, <1>2, CoefficientsToPolys

(* The sizes of the message format: characters, length field and pad fill  *)
(* the vector.                                                             *)
LEMMA Format ==
  /\ CharBits \in Nat \ {0} /\ LenBits \in Nat \ {0} /\ PadLen \in Nat
  /\ MaxMsgLen \in Nat \ {0} /\ MaxMsgLen <= two_to[LenBits] - 1 /\ MaxMsgLen < 65536
  /\ LenAt \in Nat /\ CharBits * MaxMsgLen <= LenAt /\ N = LenAt + LenBits + PadLen
<1>1. /\ CharBits \in Nat \ {0} /\ LenBits \in Nat \ {0} /\ PadLen \in Nat
      /\ MaxMsgLen \in 1..(two_to[LenBits] - 1) /\ MaxMsgLen < 65536
      /\ CharBits * MaxMsgLen <= LenAt
  <2>1. 2^16 = 65536
    OBVIOUS
  <2> QED
    BY <2>1, FormatAssumption
<1>2. two_to[LenBits] \in Nat
  BY <1>1, TwoTo
<1>3. MaxMsgLen \in Nat \ {0} /\ MaxMsgLen <= two_to[LenBits] - 1
  BY <1>1, <1>2
<1>4. LenAt \in Int /\ N = LenAt + LenBits + PadLen
  BY <1>1, NPositive DEF LenAt
<1>5. CharBits * MaxMsgLen \in Nat
  BY <1>1, <1>3
<1>6. LenAt \in Nat
  BY <1>1, <1>4, <1>5
<1> QED
  BY <1>1, <1>3, <1>4, <1>6

(* A text of n chars.                                                      *)
IsText(text_, n) == n \in 0..MaxMsgLen /\ text_ \in [Places(n) -> CharCodes]

(* The length of a text.                                                   *)
LEMMA TextLen ==
  ASSUME NEW t, NEW n \in Nat, t \in [Places(n) -> CharCodes]
  PROVE  len(t) = n
<1>1. DOMAIN t = 0..(n - 1)
  BY DEF Places
<1>2. 0 \in Int /\ n - 1 \in Int
  OBVIOUS
<1>3. Cardinality(0..(n - 1)) = IF 0 > n - 1 THEN 0 ELSE (n - 1) - 0 + 1
  BY <1>2, FS_Interval
<1> QED
  BY <1>1, <1>3 DEF len

(* Where bit j of char i is.                                               *)
LEMMA CharPlace ==
  ASSUME NEW n \in 0..MaxMsgLen, NEW i \in Places(n), NEW j \in Places(CharBits)
  PROVE  /\ i * CharBits + j \in Nat /\ i * CharBits + j < LenAt
         /\ i * CharBits + j < CharBits * n
         /\ (i * CharBits + j) \div CharBits = i /\ (i * CharBits + j) % CharBits = j
<1> DEFINE k == i * CharBits + j
<1>1. /\ CharBits \in Nat \ {0} /\ MaxMsgLen \in Nat /\ LenAt \in Nat
      /\ CharBits * MaxMsgLen <= LenAt
  BY Format
<1>2. n \in Nat /\ n <= MaxMsgLen /\ i \in Nat /\ i <= n - 1 /\ j \in Nat /\ j <= CharBits - 1
  BY <1>1 DEF Places
<1>3. k \in Nat /\ k = CharBits * i + j
  BY <1>1, <1>2
<1>4. CharBits * i <= CharBits * (n - 1) /\ CharBits * n <= CharBits * MaxMsgLen
  BY <1>1, <1>2
<1>5. CharBits * (n - 1) = CharBits * n - CharBits
  BY <1>1, <1>2
<1> DEFINE ci == CharBits * i  cn == CharBits * n  cm == CharBits * MaxMsgLen  cp == CharBits * (n - 1)
<1>6. ci \in Nat /\ cn \in Nat /\ cm \in Nat /\ cp \in Int
  BY <1>1, <1>2
<1>7. k < cn /\ cn <= cm
  <2> HIDE DEF ci, cn, cm, cp, k
  <2>1. k = ci + j /\ ci <= cp /\ cn <= cm /\ cp = cn - CharBits
    BY <1>3, <1>4, <1>5 DEF ci, cn, cm, cp
  <2> QED
    BY <1>1, <1>2, <1>6, <2>1
<1>8. k < CharBits * n /\ k < LenAt
  <2> HIDE DEF k, cn, cm
  <2>1. k < LenAt
    BY <1>1, <1>3, <1>6, <1>7 DEF cm
  <2> QED
    BY <1>7, <2>1 DEF cn
<1>9. k \div CharBits = i /\ k % CharBits = j
  <2>1. j \in 0..(CharBits - 1) /\ k \in Int /\ i \in Int
    BY <1>1, <1>2, <1>3
  <2> HIDE DEF k
  <2> QED
    BY <1>1, <1>3, <2>1, QuotientUnique
<1> QED
  BY <1>3, <1>8, <1>9

(* What pad_msg writes: the bits of the characters, zeros after them, the  *)
(* bits of the length, and a pad.                                          *)
LEMMA PadMsg ==
  ASSUME NEW t, NEW n, IsText(t, n), NEW pad \in PadDraws
  PROVE  LET v == pad_msg(t, pad)
         IN  /\ v \in [Index -> Coefficients] /\ v \in Polys(N)
             /\ \A i \in Places(LenAt) : v[i] \in {0, 1}
             /\ \A i \in Places(LenAt) : i >= CharBits * n => v[i] = 0
             /\ \A j \in Places(LenBits) : /\ LenAt + j \in Index
                                           /\ v[LenAt + j] = bit(n, j)
             /\ \A i \in Places(n), j \in Places(CharBits) :
                  v[i * CharBits + j] = bit(t[i], j)
<1> DEFINE v == pad_msg(t, pad)
<1>1. /\ CharBits \in Nat \ {0} /\ LenBits \in Nat \ {0} /\ PadLen \in Nat
      /\ LenAt \in Nat /\ N = LenAt + LenBits + PadLen /\ MaxMsgLen \in Nat
  BY Format
<1>2. n \in Nat /\ n \in 0..MaxMsgLen /\ t \in [Places(n) -> CharCodes] /\ len(t) = n
  BY <1>1, TextLen DEF IsText
<1>3. \A x \in CharCodes : x \in Nat
  BY TwoTo DEF CharCodes
<1>4. \A i \in Index : v[i] = CASE i >= LenAt + LenBits -> pad[i - LenAt - LenBits]
                                [] LenAt <= i /\ i < LenAt + LenBits -> bit(n, i - LenAt)
                                [] i < CharBits * n -> bit(t[i \div CharBits], i % CharBits)
                                [] OTHER -> 0
  BY <1>2 DEF pad_msg
<1> DEFINE cn == CharBits * n
<1>5. cn \in Nat /\ cn <= LenAt
  <2>1. CharBits * n <= CharBits * MaxMsgLen
    BY <1>1, <1>2
  <2>2. CharBits * MaxMsgLen <= LenAt
    BY Format
  <2> QED
    BY <1>1, <1>2, <2>1, <2>2
<1>6. \A i \in Nat : i < cn => i \div CharBits \in Places(n) /\ i % CharBits \in Places(CharBits)
  <2> SUFFICES ASSUME NEW i \in Nat, i < cn
               PROVE  i \div CharBits \in Places(n) /\ i % CharBits \in Places(CharBits)
    OBVIOUS
  <2> DEFINE b == i \div CharBits  r == i % CharBits
  <2>1. i = CharBits * b + r /\ b \in Int /\ r \in 0..(CharBits - 1)
    BY <1>1, DivMod
  <2> HIDE DEF b, r
  <2>2. b >= 0
    <3> SUFFICES ASSUME b <= -1 PROVE FALSE
      BY <2>1
    <3>1. CharBits * b <= CharBits * (-1)
      BY <1>1, <2>1
    <3> QED
      BY <1>1, <2>1, <3>1
  <2>3. b < n
    <3> SUFFICES ASSUME b >= n PROVE FALSE
      BY <1>2, <2>1
    <3>1. CharBits * b >= CharBits * n
      BY <1>1, <1>2, <2>1
    <3> DEFINE cb == CharBits * b
    <3>2. cb \in Int /\ cb >= cn /\ i = cb + r
      BY <1>1, <2>1, <3>1
    <3> HIDE DEF cb, cn
    <3> QED
      BY <1>1, <1>5, <2>1, <3>2
  <2> QED
    BY <1>2, <2>1, <2>2, <2>3 DEF Places, b, r
<1> HIDE DEF v
<1>7. \A i \in Index : i >= LenAt + LenBits => v[i] \in Coefficients
  <2> SUFFICES ASSUME NEW i \in Index, i >= LenAt + LenBits PROVE v[i] \in Coefficients
    OBVIOUS
  <2>0. ~(LenAt <= i /\ i < LenAt + LenBits) /\ ~(i < cn)
    <3> HIDE DEF cn
    <3> QED
      BY <1>1, <1>5 DEF Index
  <2>1. v[i] = pad[i - LenAt - LenBits]
    BY <1>4, <2>0
  <2>2. i - LenAt - LenBits \in Places(PadLen)
    BY <1>1 DEF Index, Places
  <2> QED
    BY <2>1, <2>2, DrawsType
<1>8. \A j \in Places(LenBits) : LenAt + j \in Index /\ v[LenAt + j] = bit(n, j) /\ bit(n, j) \in {0, 1}
  <2> SUFFICES ASSUME NEW j \in Places(LenBits)
               PROVE  LenAt + j \in Index /\ v[LenAt + j] = bit(n, j) /\ bit(n, j) \in {0, 1}
    OBVIOUS
  <2> DEFINE i == LenAt + j
  <2>1. j \in Nat /\ j < LenBits
    BY <1>1 DEF Places
  <2>2. i \in Index /\ LenAt <= i /\ i < LenAt + LenBits /\ ~(i >= LenAt + LenBits) /\ i - LenAt = j
    BY <1>1, <2>1 DEF Index
  <2> HIDE DEF i
  <2>0. ~(i < cn) /\ i \in Int
    <3> HIDE DEF cn
    <3> QED
      BY <1>1, <1>5, <2>2 DEF Index
  <2>3. v[i] = bit(n, i - LenAt)
    BY <1>4, <2>0, <2>2
  <2>4. bit(n, j) \in {0, 1}
    BY <1>2, <2>1, BitType
  <2> QED
    BY <2>2, <2>3, <2>4 DEF i
<1>9. \A i \in Places(LenAt) : /\ i \in Index /\ i \in Nat
                               /\ v[i] = IF i < cn THEN bit(t[i \div CharBits], i % CharBits) ELSE 0
  <2> SUFFICES ASSUME NEW i \in Places(LenAt)
               PROVE  /\ i \in Index /\ i \in Nat
                      /\ v[i] = IF i < cn THEN bit(t[i \div CharBits], i % CharBits) ELSE 0
    OBVIOUS
  <2>1. i \in Nat /\ i < LenAt /\ i \in Index /\ ~(LenAt <= i) /\ ~(i >= LenAt + LenBits)
    BY <1>1 DEF Places, Index
  <2> QED
    BY <1>4, <2>1
<1>10. \A i \in Places(LenAt) : v[i] \in {0, 1}
  <2> SUFFICES ASSUME NEW i \in Places(LenAt), i < cn
               PROVE  bit(t[i \div CharBits], i % CharBits) \in {0, 1}
    BY <1>9
  <2> DEFINE b == i \div CharBits  r == i % CharBits
  <2>1. b \in Places(n) /\ r \in Places(CharBits)
    BY <1>6, <1>9
  <2> HIDE DEF b, r
  <2>2. t[b] \in Nat /\ r \in Nat
    BY <1>1, <1>2, <1>3, <2>1, PlacesGrow
  <2>3. bit(t[b], r) \in {0, 1}
    BY <2>2, BitType
  <2> QED
    BY <2>3 DEF b, r
<1>11. \A i \in Places(n), j \in Places(CharBits) : v[i * CharBits + j] = bit(t[i], j)
  <2> SUFFICES ASSUME NEW i \in Places(n), NEW j \in Places(CharBits)
               PROVE  v[i * CharBits + j] = bit(t[i], j)
    OBVIOUS
  <2> DEFINE k == i * CharBits + j
  <2>1. k \in Nat /\ k < LenAt /\ k < cn /\ k \div CharBits = i /\ k % CharBits = j
    BY <1>2, CharPlace
  <2> HIDE DEF k, cn
  <2>2. k \in Places(LenAt)
    BY <1>1, <2>1 DEF Places
  <2>3. v[k] = bit(t[k \div CharBits], k % CharBits)
    BY <1>9, <2>1, <2>2
  <2> QED
    BY <2>1, <2>3 DEF k
<1>12. v \in [Index -> Coefficients]
  <2>1. ASSUME NEW i \in Index PROVE v[i] \in Coefficients
    <3>1. {0, 1} \subseteq Coefficients
      BY DEF Coefficients
    <3>2. CASE i >= LenAt + LenBits
      BY <1>7, <3>2
    <3>3. CASE LenAt <= i /\ i < LenAt + LenBits
      <4>1. i - LenAt \in Places(LenBits) /\ LenAt + (i - LenAt) = i
        BY <1>1, <3>3 DEF Index, Places
      <4>2. v[LenAt + (i - LenAt)] \in {0, 1}
        BY <1>8, <4>1
      <4> QED
        BY <3>1, <4>1, <4>2
    <3>4. CASE i < LenAt
      <4>1. i \in Places(LenAt)
        BY <1>1, <3>4 DEF Index, Places
      <4> QED
        BY <1>10, <3>1, <4>1
    <3>5. i \in Int
      BY <1>1 DEF Index
    <3> QED
      BY <1>1, <3>2, <3>3, <3>4, <3>5
  <2>2. v = [i \in Index |-> v[i]]
    BY DEF v, pad_msg
  <2> QED
    BY <2>1, <2>2
<1>13. \A i \in Places(LenAt) : i >= CharBits * n => v[i] = 0
  <2> SUFFICES ASSUME NEW i \in Places(LenAt), i >= cn PROVE v[i] = 0
    OBVIOUS
  <2> HIDE DEF cn
  <2> QED
    BY <1>5, <1>9
<1> QED
  BY <1>8, <1>10, <1>11, <1>12, <1>13, CoefficientsToPolys DEF v

(* The number that decryption must recover, in terms of products.          *)
LEMMA UnreducedIs ==
  ASSUME NEW v \in Polys(N), NEW r \in Polys(N), KeyInv, pc = "done"
  PROVE  LET sf == SecretF(F)
         IN  /\ Unreduced(v, r, F, g) = Combine(p, Conv(r, g, N), 1, Conv(sf, v, N), N)
             /\ Conv(r, g, N) \in Polys(N) /\ Conv(sf, v, N) \in Polys(N)
             /\ Unreduced(v, r, F, g) \in Polys(N)
<1> DEFINE sf == SecretF(F)  rg == Conv(r, g, N)  fv == Conv(sf, v, N)  one == 1
<1>1. N \in Nat \ {0} /\ Index = Places(N) /\ p \in Int /\ one \in Int
  BY NPositive, IndexPlaces, Modulus
<1>2. rg \in Polys(N) /\ fv \in Polys(N)
  BY <1>1, KeyEquation, ConvType
<1>3. Unreduced(v, r, F, g) = [i \in Places(N) |-> p * rg[i] + fv[i]]
  BY <1>1, ProductIsConv DEF Unreduced
<1> HIDE DEF rg, fv
<1>4. \A i \in Places(N) : p * rg[i] + fv[i] = p * rg[i] + one * fv[i]
  BY <1>1, <1>2 DEF Polys
<1>5. Unreduced(v, r, F, g) = Combine(p, rg, one, fv, N)
  BY <1>3, <1>4 DEF Combine
<1> HIDE DEF one
<1>6. Combine(p, rg, one, fv, N) \in Polys(N)
  BY <1>1, <1>2, CombineConv
<1> QED
  BY <1>2, <1>5, <1>6 DEF rg, fv, one

(* f times a ciphertext is, modulo q, the polynomial of Unreduced.         *)
LEMMA CipherCarries ==
  ASSUME NEW v \in Polys(N), NEW r \in Polys(N), KeyInv, pc = "done"
  PROVE  LET c == encrypt_kem(v, r, h)
         IN  /\ c \in Polys(N)
             /\ Same(Conv(c, SecretF(F), N), Unreduced(v, r, F, g), q, N)
<1> DEFINE sf == SecretF(F)  rh == Conv(r, h, N)  t == ring_mult(r, h)  one == 1
           y == Combine(p, t, one, v, N)  z == Combine(p, rh, one, v, N)  c == encrypt_kem(v, r, h)
<1>1. N \in Nat \ {0} /\ Index = Places(N) /\ p \in Int /\ one \in Int /\ q \in Nat \ {0}
  BY NPositive, IndexPlaces, Modulus
<1>2. sf \in Polys(N) /\ h \in Polys(N) /\ g \in Polys(N) /\ Same(Conv(sf, h, N), g, q, N)
  BY KeyEquation
<1>3. rh \in Polys(N) /\ t \in Polys(N) /\ Same(t, rh, q, N)
  BY <1>2, RingMultType
<1>4. c = [i \in Places(N) |-> (p * t[i] + v[i]) % q]
  BY <1>1 DEF encrypt_kem
<1> HIDE DEF sf, rh, t, c
<1>5. y \in Polys(N) /\ z \in Polys(N)
  BY <1>1, <1>3, CombineConv
<1>6. c = Reduced(y, q, N)
  <2>1. \A i \in Places(N) : y[i] = p * t[i] + v[i]
    BY <1>1, <1>3 DEF Combine, Polys
  <2> HIDE DEF y
  <2> QED
    BY <1>4, <2>1 DEF Reduced
<1>7. c \in Polys(N) /\ Same(c, y, q, N)
  <2> HIDE DEF y
  <2> QED
    BY <1>1, <1>5, <1>6, ReducedSame
<1>8. Same(y, z, q, N)
  <2>1. Same(v, v, q, N)
    BY SameEquivalence
  <2> HIDE DEF one
  <2> QED
    BY <1>1, <1>3, <2>1, CombineSame
<1>9. Same(c, z, q, N)
  BY <1>7, <1>8, SameEquivalence
<1>10. Same(Conv(c, sf, N), Conv(z, sf, N), q, N)
  <2> HIDE DEF z
  <2> QED
    BY <1>1, <1>2, <1>5, <1>7, <1>9, SameFactor
<1>11. Conv(z, sf, N) = Combine(p, Conv(rh, sf, N), one, Conv(v, sf, N), N)
  <2> HIDE DEF one
  <2> QED
    BY <1>1, <1>2, <1>3, CombineConv
<1>12. Conv(v, sf, N) = Conv(sf, v, N) /\ Conv(v, sf, N) \in Polys(N)
  BY <1>1, <1>2, ConvCommutes, ConvType
<1>13. Conv(rh, sf, N) \in Polys(N) /\ Conv(r, g, N) \in Polys(N) /\ Same(Conv(rh, sf, N), Conv(r, g, N), q, N)
  <2>1. Conv(rh, sf, N) = Conv(r, Conv(h, sf, N), N)
    BY <1>1, <1>2, ConvAssociates DEF rh
  <2>2. Conv(h, sf, N) = Conv(sf, h, N) /\ Conv(sf, h, N) \in Polys(N)
    BY <1>1, <1>2, ConvCommutes, ConvType
  <2>3. Same(r, r, q, N)
    BY SameEquivalence
  <2>4. Same(Conv(r, Conv(sf, h, N), N), Conv(r, g, N), q, N)
    BY <1>1, <1>2, <2>2, <2>3, SameConv
  <2>5. Conv(rh, sf, N) \in Polys(N) /\ Conv(r, g, N) \in Polys(N)
    BY <1>1, <1>2, <1>3, ConvType
  <2> QED
    BY <2>1, <2>2, <2>4, <2>5
<1>14. Same(Combine(p, Conv(rh, sf, N), one, Conv(v, sf, N), N),
            Combine(p, Conv(r, g, N), one, Conv(v, sf, N), N), q, N)
  <2>1. Same(Conv(v, sf, N), Conv(v, sf, N), q, N)
    BY SameEquivalence
  <2> HIDE DEF one
  <2> QED
    BY <1>1, <1>12, <1>13, <2>1, CombineSame
<1>15. Unreduced(v, r, F, g) = Combine(p, Conv(r, g, N), one, Conv(v, sf, N), N)
  BY <1>12, UnreducedIs DEF sf
<1>16. Same(Conv(c, sf, N), Unreduced(v, r, F, g), q, N)
  <2> HIDE DEF one, z
  <2> QED
    BY <1>10, <1>11, <1>14, <1>15, SameEquivalence
<1> QED
  BY <1>7, <1>16 DEF c, sf

(* ... which is the padded text modulo 3.                                  *)
LEMMA UnreducedModP ==
  ASSUME NEW v \in Polys(N), NEW r \in Polys(N), KeyInv, pc = "done"
  PROVE  Same(Unreduced(v, r, F, g), v, 3, N)
<1> DEFINE sf == SecretF(F)  rg == Conv(r, g, N)  fv == Conv(sf, v, N)  one == Mono(0, N)
<1>1. N \in Nat \ {0} /\ Index = Places(N) /\ p = 3 /\ 3 \in Nat \ {0}
  BY NPositive, IndexPlaces, Modulus
<1>2. sf \in Polys(N)
  BY KeyEquation
<1>3. one \in Polys(N) /\ Conv(one, v, N) = v
  BY <1>1, ConvOne
<1>4. Same(sf, one, 3, N)
  <2> SUFFICES ASSUME NEW i \in Index PROVE sf[i] % 3 = one[i] % 3
    BY <1>1 DEF Same, Congruent
  <2>1. sf[i] = 3 * F[i] + (IF i = 0 THEN 1 ELSE 0) /\ one[i] = IF i = 0 THEN 1 ELSE 0
    BY <1>1 DEF SecretF, Mono
  <2>2. F[i] \in Int
    BY DEF KeyInv
  <2> HIDE DEF sf, one
  <2> QED
    BY <2>1, <2>2
<1> HIDE DEF sf, one
<1>5. Same(fv, v, 3, N)
  <2>1. Same(Conv(sf, v, N), Conv(one, v, N), 3, N)
    BY <1>1, <1>2, <1>3, <1>4, SameFactor
  <2> QED
    BY <1>3, <2>1
<1>6. rg \in Polys(N) /\ fv \in Polys(N) /\ Unreduced(v, r, F, g) = Combine(p, rg, 1, fv, N)
  BY UnreducedIs DEF sf
<1> HIDE DEF rg, fv
<1> SUFFICES ASSUME NEW i \in Places(N) PROVE (p * rg[i] + 1 * fv[i]) % 3 = v[i] % 3
  BY <1>6 DEF Same, Congruent, Combine
<1>7. rg[i] \in Int /\ fv[i] \in Int /\ v[i] \in Int /\ fv[i] % 3 = v[i] % 3
  BY <1>5, <1>6 DEF Same, Congruent, Polys
<1> QED
  BY <1>1, <1>7

(* What stays in the interval of lift_msg is read as it is.                *)
LEMMA LiftReads ==
  ASSUME NEW e \in Polys(N), Fits(e), NEW x \in Polys(N), Same(x, e, q, N)
  PROVE  lift_msg(Reduced(x, q, N)) = [i \in Index |-> ((e[i] + 1) % 3) - 1]
<1> DEFINE c == Reduced(x, q, N)
<1>1. N \in Nat \ {0} /\ Index = Places(N) /\ p = 3 /\ q \in Nat \ {0} /\ q >= 2
  BY NPositive, IndexPlaces, Modulus
<1>2. c = Reduced(e, q, N)
  BY SameReduced
<1>3. ASSUME NEW i \in Index
      PROVE  (IF c[i] > q \div 2 THEN c[i] - q ELSE c[i]) = e[i]
  <2> DEFINE y == e[i]  half == q \div 2
  <2>1. y \in Int /\ -half < y /\ y <= half
    BY <1>1, <1>3 DEF Polys, Fits
  <2>2. c[i] = y % q
    BY <1>1, <1>2, <1>3 DEF Reduced
  <2>3. half \in Nat /\ 2 * half <= q /\ half < q /\ q - half >= half
    BY <1>1
  <2> HIDE DEF c, y, half
  <2>4. CASE y >= 0
    <3>1. y % q = y
      <4>1. y \in 0..(q - 1)
        BY <1>1, <2>1, <2>3, <2>4
      <4> QED
        BY <1>1, <4>1
    <3> QED
      BY <2>1, <2>2, <2>3, <3>1 DEF y, half
  <2>5. CASE y < 0
    <3>1. y % q = y + q
      <4>1. y + q \in 0..(q - 1) /\ q \in Int /\ -1 \in Int
        BY <1>1, <2>1, <2>3, <2>5
      <4> DEFINE s == y + q  mo == -1  u == q * mo
      <4>2. u = -q
        BY <1>1
      <4>3. y = u + s
        BY <1>1, <2>1, <4>2
      <4> HIDE DEF s, mo, u
      <4>4. y = q * mo + s /\ mo \in Int /\ s \in 0..(q - 1)
        BY <4>1, <4>3 DEF u, mo, s
      <4>5. y % q = s
        BY <1>1, <2>1, <4>4, QuotientUnique
      <4> QED
        BY <4>5 DEF s
    <3>2. c[i] > half /\ c[i] - q = y
      BY <1>1, <2>1, <2>2, <2>3, <3>1
    <3> QED
      BY <3>2 DEF y, half
  <2> QED
    BY <2>1, <2>4, <2>5
<1> HIDE DEF c
<1>4. \A i \in Index : (((IF c[i] > q \div 2 THEN c[i] - q ELSE c[i]) + 1) % p) - 1
                          = ((e[i] + 1) % 3) - 1
  BY <1>1, <1>3
<1>5. lift_msg(c) = [i \in Index |-> ((e[i] + 1) % 3) - 1]
  BY <1>4 DEF lift_msg
<1> QED
  BY <1>5 DEF c

(* A ciphertext that carries e decrypts to the residues of e modulo 3,     *)
(* when the coefficients of e fit below q/2.                               *)
LEMMA DecryptReads ==
  ASSUME NEW c \in Polys(N), NEW e \in Polys(N), Fits(e), KeyInv, pc = "done",
         Same(Conv(c, SecretF(F), N), e, q, N)
  PROVE  decrypt_kem(F, c) = [i \in Index |-> ((e[i] + 1) % 3) - 1]
<1> DEFINE x == Conv(c, SecretF(F), N)
<1>1. x \in Polys(N)
  BY KeyEquation, NPositive, ConvType
<1>2. ring_mult(c, SecretF(F)) = Reduced(x, q, N)
  BY RingMult
<1> HIDE DEF x
<1>3. lift_msg(Reduced(x, q, N)) = [i \in Index |-> ((e[i] + 1) % 3) - 1]
  BY <1>1, LiftReads DEF x
<1> QED
  BY <1>2, <1>3 DEF decrypt_kem

(* A vector of small coefficients that e is congruent to is what           *)
(* decryption finds.                                                       *)
LEMMA DecryptReadsCoefficients ==
  ASSUME NEW c \in Polys(N), NEW e \in Polys(N), Fits(e), KeyInv, pc = "done",
         Same(Conv(c, SecretF(F), N), e, q, N),
         NEW v \in [Index -> Coefficients], Same(e, v, 3, N)
  PROVE  decrypt_kem(F, c) = v
<1>1. decrypt_kem(F, c) = [i \in Index |-> ((e[i] + 1) % 3) - 1]
  BY DecryptReads
<1>2. Index = Places(N)
  BY IndexPlaces
<1>3. ASSUME NEW i \in Index PROVE ((e[i] + 1) % 3) - 1 = v[i]
  <2>1. e[i] \in Int /\ v[i] \in {-1, 0, 1} /\ e[i] % 3 = v[i] % 3
    BY <1>2 DEF Polys, Coefficients, Same, Congruent
  <2> QED
    BY <2>1
<1> QED
  BY <1>1, <1>3

(* recover_msg reads the length that pad_msg wrote.                        *)
LEMMA LengthReads ==
  ASSUME NEW t, NEW n, IsText(t, n), NEW v,
         \A j \in Places(LenBits) : v[LenAt + j] = bit(n, j)
  PROVE  msg_len(v) = n
<1> DEFINE f == [j \in Places(LenBits) |-> (v[LenAt + j] % 65536) * two_to[j]]
<1>1. LenBits \in Nat /\ MaxMsgLen \in Nat /\ MaxMsgLen <= two_to[LenBits] - 1
  BY Format
<1>2. n \in Nat /\ n \in 0..(two_to[LenBits] - 1)
  <2>1. two_to[LenBits] \in Nat
    BY <1>1, TwoTo
  <2> QED
    BY <1>1, <2>1 DEF IsText
<1>3. \A j \in Places(LenBits) : f[j] = bit(n, j) * two_to[j]
  <2> SUFFICES ASSUME NEW j \in Places(LenBits)
               PROVE  (v[LenAt + j] % 65536) * two_to[j] = bit(n, j) * two_to[j]
    OBVIOUS
  <2>1. bit(n, j) \in {0, 1}
    BY <1>1, <1>2, PlacesGrow, BitType
  <2>2. \A b \in {0, 1} : b % 65536 = b
    OBVIOUS
  <2>3. v[LenAt + j] % 65536 = bit(n, j)
    BY <2>1, <2>2
  <2> QED
    BY <2>3
<1>4. msg_len(v) = Sum(f, Places(LenBits))
  <2>1. 2^16 = 65536
    OBVIOUS
  <2>2. msg_len(v) = SumFunction([j \in Places(LenBits) |-> (v[LenAt + j] % 2^16) * two_to[j]])
    BY DEF msg_len, Places
  <2>3. msg_len(v) = SumFunction(f)
    BY <2>1, <2>2
  <2>4. DOMAIN f = Places(LenBits)
    OBVIOUS
  <2> HIDE DEF f
  <2> QED
    BY <2>3, <2>4 DEF SumFunction, Sum
<1> HIDE DEF f
<1> QED
  BY <1>1, <1>2, <1>3, <1>4, BitsMakeUp

(* The char that recover_msg makes of the coefficients.                    *)
CharAt(v, i) ==
  SumFunction([j \in 0..(CharBits - 1) |-> v[i * CharBits + j] * two_to[j]])
    % two_to[CharBits]

(* recover_msg reads the characters that pad_msg wrote.                    *)
LEMMA CharReads ==
  ASSUME NEW x \in CharCodes, NEW v, NEW i,
         \A j \in Places(CharBits) : v[i * CharBits + j] = bit(x, j)
  PROVE  CharAt(v, i) = x
<1> DEFINE f == [j \in Places(CharBits) |-> v[i * CharBits + j] * two_to[j]]
           T == two_to[CharBits]
<1>1. CharBits \in Nat /\ T \in Nat \ {0} /\ x \in 0..(T - 1)
  BY Format, TwoTo DEF CharCodes
<1>2. \A j \in Places(CharBits) : f[j] = bit(x, j) * two_to[j]
  OBVIOUS
<1>3. DOMAIN f = Places(CharBits) /\ CharAt(v, i) = SumFunction(f) % T
  BY DEF CharAt, Places
<1> HIDE DEF f
<1>4. Sum(f, Places(CharBits)) = x
  BY <1>1, <1>2, BitsMakeUp DEF T
<1>5. SumFunction(f) = x
  BY <1>3, <1>4 DEF SumFunction, Sum
<1>6. x % T = x
  <2> HIDE DEF T
  <2> QED
    BY <1>1
<1> QED
  BY <1>3, <1>5, <1>6

(* recover_msg without its LETs.                                           *)
LEMMA RecoverIs ==
  ASSUME NEW buf, NEW v
  PROVE  recover_msg(buf, v) =
           IF msg_len(v) > MaxMsgLen THEN [msg |-> buf, len |-> -1]
           ELSE [msg |-> [i \in DOMAIN buf |-> IF i < msg_len(v) THEN CharAt(v, i) ELSE buf[i]],
                 len |-> msg_len(v)]
  BY DEF recover_msg, CharAt

(* A padded text is read back into the buffer.                             *)
LEMMA RecoverReads ==
  ASSUME NEW t, NEW n, IsText(t, n), NEW pad \in PadDraws, NEW buf, DOMAIN buf \subseteq Nat
  PROVE  recover_msg(buf, pad_msg(t, pad)) =
           [msg |-> [i \in DOMAIN buf |-> IF i < n THEN t[i] ELSE buf[i]], len |-> n]
<1> DEFINE v == pad_msg(t, pad)
<1>1. MaxMsgLen \in Nat
  BY Format
<1>2. n \in Nat /\ n <= MaxMsgLen /\ t \in [Places(n) -> CharCodes]
  BY <1>1 DEF IsText
<1>3. /\ \A j \in Places(LenBits) : v[LenAt + j] = bit(n, j)
      /\ \A i \in Places(n), j \in Places(CharBits) : v[i * CharBits + j] = bit(t[i], j)
  BY PadMsg
<1> HIDE DEF v
<1>4. msg_len(v) = n
  BY <1>3, LengthReads
<1>5. \A i \in DOMAIN buf : i < n => CharAt(v, i) = t[i]
  <2> SUFFICES ASSUME NEW i \in DOMAIN buf, i < n PROVE CharAt(v, i) = t[i]
    OBVIOUS
  <2>1. i \in Places(n)
    BY <1>2 DEF Places
  <2>2. t[i] \in CharCodes
    BY <1>2, <2>1
  <2> QED
    BY <1>3, <2>1, <2>2, CharReads
<1>6. [i \in DOMAIN buf |-> IF i < n THEN CharAt(v, i) ELSE buf[i]]
        = [i \in DOMAIN buf |-> IF i < n THEN t[i] ELSE buf[i]]
  BY <1>5
<1>7. ~(n > MaxMsgLen)
  BY <1>1, <1>2
<1>8. recover_msg(buf, v) = [msg |-> [i \in DOMAIN buf |-> IF i < n THEN CharAt(v, i) ELSE buf[i]], len |-> n]
  BY <1>4, <1>7, RecoverIs
<1> QED
  BY <1>6, <1>8 DEF v

(* decrypt_cca passes on what recover_msg returns.                         *)
LEMMA DecryptCca ==
  ASSUME NEW buf, NEW c, NEW f, NEW n \in Nat, n < 65536,
         recover_msg(buf, decrypt_kem(F, c)) = [msg |-> f, len |-> n]
  PROVE  decrypt_cca(buf, F, c) = [msg |-> f, len |-> n]
<1>1. n % 65536 = n /\ 2^16 = 65536
  OBVIOUS
<1> QED
  BY <1>1 DEF decrypt_cca

(***************************************************************************)
(* The driver.                                                             *)
(***************************************************************************)

(* A text was encrypted as c, and e is f * c before any reduction.         *)
Carries(t, c, e) ==
  /\ t \in Texts /\ c \in Polys(N) /\ e \in Polys(N)
  /\ Same(Conv(c, SecretF(F), N), e, q, N)
  /\ \E pad \in PadDraws : Same(e, pad_msg(t, pad), 3, N)

(* The texts of the driver fit the message format.                         *)
LEMMA TextsType ==
  /\ MsgLen \in Nat /\ MsgLen >= 1 /\ MsgLen <= MaxMsgLen /\ MsgLen < 65536
  /\ \A t \in Texts : IsText(t, MsgLen) /\ t \in [Places(MsgLen) -> CharCodes] /\ len(t) = MsgLen
  /\ DOMAIN Unwritten = Places(MsgLen)
<1>1. /\ MaxMsgLen \in Nat /\ MaxMsgLen < 65536
  BY Format
<1>2. MsgLen \in Nat /\ MsgLen >= 1 /\ MsgLen <= MaxMsgLen /\ MsgLen \in 0..MaxMsgLen
  BY <1>1, TextsAssumption
<1>3. \A t \in Texts : t \in [Places(MsgLen) -> CharCodes]
  BY TextsAssumption DEF Places, CharCodes
<1>4. \A t \in Texts : len(t) = MsgLen
  BY <1>2, <1>3, TextLen
<1> QED
  BY <1>1, <1>2, <1>3, <1>4 DEF IsText, Unwritten, Places

(* What an encryption leaves.                                              *)
LEMMA EncryptCarries ==
  ASSUME KeyInv, pc = "done", NEW t \in Texts, NEW pad \in PadDraws, NEW r \in RDraws, NEW c
  PROVE  Carries(t, encrypt_cca(c, t, pad, r, h), Unreduced(pad_msg(t, pad), r, F, g))
<1> DEFINE v == pad_msg(t, pad)
<1>1. IsText(t, MsgLen) /\ len(t) = MsgLen /\ ~(MsgLen > MaxMsgLen)
  BY TextsType, Format
<1>2. encrypt_cca(c, t, pad, r, h) = encrypt_kem(v, r, h)
  BY <1>1 DEF encrypt_cca
<1>3. v \in Polys(N) /\ r \in Polys(N)
  BY <1>1, PadMsg, DrawsType
<1> HIDE DEF v
<1>4. /\ encrypt_kem(v, r, h) \in Polys(N) /\ Unreduced(v, r, F, g) \in Polys(N)
      /\ Same(Conv(encrypt_kem(v, r, h), SecretF(F), N), Unreduced(v, r, F, g), q, N)
      /\ Same(Unreduced(v, r, F, g), v, 3, N)
  BY <1>3, CipherCarries, UnreducedIs, UnreducedModP
<1> QED
  BY <1>2, <1>4 DEF Carries, v

(* What a decryption of it leaves in a buffer.                             *)
LEMMA DecryptBack ==
  ASSUME KeyInv, pc = "done", NEW t, NEW c, NEW e, Carries(t, c, e), Fits(e)
  PROVE  decrypt_cca(Unwritten, F, c).msg = t
<1>1. PICK pad \in PadDraws : Same(e, pad_msg(t, pad), 3, N)
  BY DEF Carries
<1>2. /\ t \in Texts /\ c \in Polys(N) /\ e \in Polys(N) /\ Same(Conv(c, SecretF(F), N), e, q, N)
      /\ IsText(t, MsgLen) /\ t \in [Places(MsgLen) -> CharCodes]
      /\ MsgLen \in Nat /\ MsgLen < 65536 /\ DOMAIN Unwritten = Places(MsgLen)
  BY TextsType DEF Carries
<1>3. decrypt_kem(F, c) = pad_msg(t, pad)
  <2>1. pad_msg(t, pad) \in [Index -> Coefficients]
    BY <1>2, PadMsg
  <2> QED
    BY <1>1, <1>2, <2>1, DecryptReadsCoefficients
<1>4. \A i \in Places(MsgLen) : i \in Nat /\ i < MsgLen
  BY <1>2, PlacesGrow
<1> DEFINE read == [i \in DOMAIN Unwritten |-> IF i < MsgLen THEN t[i] ELSE Unwritten[i]]
<1>5. recover_msg(Unwritten, pad_msg(t, pad)) = [msg |-> read, len |-> MsgLen]
  BY <1>2, <1>4, RecoverReads
<1>6. read = t
  BY <1>2, <1>4
<1> HIDE DEF read
<1>7. decrypt_cca(Unwritten, F, c) = [msg |-> read, len |-> MsgLen]
  BY <1>2, <1>3, <1>5, DecryptCca
<1> QED
  BY <1>6, <1>7

----------------------------------------------------------------------------
(***************************************************************************)
(* The driver: the difference of two ciphertexts, and the invariant.       *)
(***************************************************************************)

Minus2(x, y) == [i \in Index |-> x[i] - y[i]]

(* The difference of two ciphertexts carries the difference.               *)
LEMMA DifferenceCarries ==
  ASSUME KeyInv, pc = "done", NEW t1, NEW d1, NEW f1, Carries(t1, d1, f1),
         NEW t2, NEW d2, NEW f2, Carries(t2, d2, f2)
  PROVE  /\ add(d1, d2) \in Polys(N) /\ Minus2(f1, f2) \in Polys(N)
         /\ Same(Conv(add(d1, d2), SecretF(F), N), Minus2(f1, f2), q, N)
<1> DEFINE sf == SecretF(F)  one == 1  mo == -1  c == add(d1, d2)
           y == Combine(one, d1, mo, d2, N)  z == Combine(one, f1, mo, f2, N)
           u1 == Conv(d1, sf, N)  u2 == Conv(d2, sf, N)
<1>1. N \in Nat \ {0} /\ Index = Places(N) /\ one \in Int /\ mo \in Int /\ q \in Nat \ {0}
  BY NPositive, IndexPlaces, Modulus
<1>2. sf \in Polys(N)
  BY KeyEquation
<1>3. /\ d1 \in Polys(N) /\ d2 \in Polys(N) /\ f1 \in Polys(N) /\ f2 \in Polys(N)
      /\ Same(u1, f1, q, N) /\ Same(u2, f2, q, N)
  BY DEF Carries
<1>4. c = Reduced(y, q, N) /\ z = Minus2(f1, f2)
  <2>1. \A i \in Places(N) : y[i] = d1[i] - d2[i] /\ z[i] = f1[i] - f2[i]
    BY <1>1, <1>3 DEF Combine, Polys
  <2>2. z = [i \in Places(N) |-> z[i]]
    BY DEF Combine
  <2> HIDE DEF y, z
  <2> QED
    BY <1>1, <2>1, <2>2 DEF add, Reduced, Minus2
<1> HIDE DEF sf, one, mo, c
<1>5. y \in Polys(N) /\ z \in Polys(N)
  BY <1>1, <1>3, CombineConv
<1>6. c \in Polys(N) /\ Same(c, y, q, N)
  <2> HIDE DEF y
  <2> QED
    BY <1>1, <1>4, <1>5, ReducedSame
<1>7. Conv(y, sf, N) = Combine(one, u1, mo, u2, N)
  BY <1>1, <1>2, <1>3, CombineConv
<1>8. u1 \in Polys(N) /\ u2 \in Polys(N)
  BY <1>1, <1>2, <1>3, ConvType
<1> HIDE DEF u1, u2
<1>9. Same(Combine(one, u1, mo, u2, N), z, q, N)
  BY <1>1, <1>3, <1>8, CombineSame
<1>10. Same(Conv(c, sf, N), Conv(y, sf, N), q, N)
  <2> HIDE DEF y
  <2> QED
    BY <1>1, <1>2, <1>5, <1>6, SameFactor
<1>11. Same(Conv(c, sf, N), z, q, N)
  BY <1>7, <1>9, <1>10, SameEquivalence
<1> QED
  BY <1>4, <1>5, <1>6, <1>11 DEF c, sf

(* What decryption finds in the place of the texts and of their lengths.   *)
LEMMA DifferenceReads ==
  ASSUME KeyInv, pc = "done", NEW t1, NEW d1, NEW f1, Carries(t1, d1, f1),
         NEW t2, NEW d2, NEW f2, Carries(t2, d2, f2), Fits(Minus2(f1, f2))
  PROVE  LET v == decrypt_kem(F, add(d1, d2))
         IN  /\ \A j \in Places(LenBits) : v[LenAt + j] = 0
             /\ (\A i \in Places(LenAt) : v[i] = 0) <=> t1 = t2
<1> DEFINE c == add(d1, d2)  e == Minus2(f1, f2)  v == decrypt_kem(F, c)
<1>1. v = [i \in Index |-> ((e[i] + 1) % 3) - 1]
  BY DifferenceCarries, DecryptReads
<1>2. PICK pad1 \in PadDraws : Same(f1, pad_msg(t1, pad1), 3, N)
  BY DEF Carries
<1>3. PICK pad2 \in PadDraws : Same(f2, pad_msg(t2, pad2), 3, N)
  BY DEF Carries
<1> DEFINE m1 == pad_msg(t1, pad1)  m2 == pad_msg(t2, pad2)
<1>4. /\ IsText(t1, MsgLen) /\ t1 \in [Places(MsgLen) -> CharCodes]
      /\ IsText(t2, MsgLen) /\ t2 \in [Places(MsgLen) -> CharCodes]
      /\ f1 \in Polys(N) /\ f2 \in Polys(N) /\ MsgLen \in Nat /\ MsgLen \in 0..MaxMsgLen
  BY TextsType DEF Carries, IsText
<1>5. /\ m1 \in Polys(N) /\ \A i \in Places(LenAt) : m1[i] \in {0, 1}
      /\ \A i \in Places(LenAt) : i >= CharBits * MsgLen => m1[i] = 0
      /\ \A j \in Places(LenBits) : LenAt + j \in Index /\ m1[LenAt + j] = bit(MsgLen, j)
      /\ \A i \in Places(MsgLen), j \in Places(CharBits) : m1[i * CharBits + j] = bit(t1[i], j)
  BY <1>4, PadMsg
<1>6. /\ m2 \in Polys(N) /\ \A i \in Places(LenAt) : m2[i] \in {0, 1}
      /\ \A i \in Places(LenAt) : i >= CharBits * MsgLen => m2[i] = 0
      /\ \A j \in Places(LenBits) : LenAt + j \in Index /\ m2[LenAt + j] = bit(MsgLen, j)
      /\ \A i \in Places(MsgLen), j \in Places(CharBits) : m2[i * CharBits + j] = bit(t2[i], j)
  BY <1>4, PadMsg
<1> HIDE DEF v, c
<1>7. /\ LenAt \in Nat /\ LenBits \in Nat /\ Index = Places(N) /\ \A i \in Places(LenAt) : i \in Index
  BY Format, IndexPlaces, NPositive DEF Places
<1>8. \A i \in Index : /\ m1[i] \in Int /\ m2[i] \in Int /\ f1[i] \in Int /\ f2[i] \in Int
                       /\ f1[i] % 3 = m1[i] % 3 /\ f2[i] % 3 = m2[i] % 3
                       /\ e[i] = f1[i] - f2[i]
  BY <1>2, <1>3, <1>4, <1>5, <1>6, <1>7 DEF Same, Congruent, Polys, Minus2
<1> HIDE DEF e
<1>9. ASSUME NEW i \in Index, m1[i] = m2[i]
      PROVE  v[i] = 0
  <2>1. v[i] = ((e[i] + 1) % 3) - 1
    BY <1>1
  <2> DEFINE x == f1[i]  y == f2[i]  k == m1[i]
  <2>2. x \in Int /\ y \in Int /\ k \in Int /\ x % 3 = k % 3 /\ y % 3 = k % 3 /\ e[i] = x - y
    BY <1>8, <1>9
  <2> HIDE DEF x, y, k, m1, m2
  <2>3. ((e[i] + 1) % 3) - 1 = 0
    BY <2>2
  <2> QED
    BY <2>1, <2>3
<1>10. ASSUME NEW i \in Places(LenAt), v[i] = 0
       PROVE  m1[i] = m2[i]
  <2>1. v[i] = ((e[i] + 1) % 3) - 1 /\ i \in Index
    BY <1>1, <1>7
  <2> DEFINE x == f1[i]  y == f2[i]  k == m1[i]  l == m2[i]
  <2>2. /\ x \in Int /\ y \in Int /\ k \in {0, 1} /\ l \in {0, 1}
        /\ x % 3 = k % 3 /\ y % 3 = l % 3 /\ e[i] = x - y
    BY <1>5, <1>6, <1>8, <2>1
  <2> HIDE DEF x, y, k, l, m1, m2
  <2>3. ((x - y + 1) % 3) - 1 = 0
    BY <1>10, <2>1, <2>2
  <2>4. k = l
    BY <2>2, <2>3
  <2> QED
    BY <2>4 DEF k, l
<1>11. \A j \in Places(LenBits) : v[LenAt + j] = 0
  BY <1>5, <1>6, <1>9
<1>12. ASSUME t1 = t2, NEW i \in Places(LenAt)
       PROVE  v[i] = 0
  <2> DEFINE cn == CharBits * MsgLen
  <2>1. m1[i] = m2[i]
    <3>1. CharBits \in Nat /\ PadLen \in Nat /\ N = LenAt + LenBits + PadLen
      BY Format
    <3>2. i \in Index /\ i \in Int /\ ~(LenAt <= i) /\ ~(i >= LenAt + LenBits)
      BY <1>7 DEF Places
    <3>3. m1[i] = IF i < CharBits * len(t1) THEN bit(t1[i \div CharBits], i % CharBits) ELSE 0
      BY <3>2 DEF pad_msg
    <3>4. m2[i] = IF i < CharBits * len(t2) THEN bit(t2[i \div CharBits], i % CharBits) ELSE 0
      BY <3>2 DEF pad_msg
    <3> QED
      BY <1>12, <3>3, <3>4
  <2> HIDE DEF m1, m2
  <2> QED
    BY <1>7, <1>9, <2>1
<1> HIDE DEF m1, m2
<1>13. ASSUME \A i \in Places(LenAt) : v[i] = 0
       PROVE  t1 = t2
  <2>1. ASSUME NEW i \in Places(MsgLen)
        PROVE  t1[i] = t2[i]
    <3>1. \A j \in Places(CharBits) : m1[i * CharBits + j] = bit(t1[i], j)
      BY <1>5
    <3>2. \A j \in Places(CharBits) : m1[i * CharBits + j] = bit(t2[i], j)
      <4> SUFFICES ASSUME NEW j \in Places(CharBits)
                   PROVE  m1[i * CharBits + j] = bit(t2[i], j)
        OBVIOUS
      <4> DEFINE k == i * CharBits + j
      <4>1. k \in Places(LenAt)
        <5>1. k \in Nat /\ k < LenAt
          BY <1>4, CharPlace
        <5> HIDE DEF k
        <5> QED
          BY <1>7, <5>1 DEF Places
      <4>2. m2[k] = bit(t2[i], j)
        BY <1>6
      <4> HIDE DEF k
      <4>3. m1[k] = m2[k]
        BY <1>10, <1>13, <4>1
      <4> QED
        BY <4>2, <4>3 DEF k
    <3>3. t1[i] \in CharCodes /\ t2[i] \in CharCodes
      BY <1>4
    <3>4. CharAt(m1, i) = t1[i]
      BY <3>1, <3>3, CharReads
    <3>5. CharAt(m1, i) = t2[i]
      BY <3>2, <3>3, CharReads
    <3> QED
      BY <3>4, <3>5
  <2> QED
    BY <1>4, <2>1
<1> QED
  BY <1>11, <1>12, <1>13 DEF v, c

(* No char of the difference reaches the buffer.                           *)
LEMMA NothingRead ==
  ASSUME NEW c, \A j \in Places(LenBits) : decrypt_kem(F, c)[LenAt + j] = 0
  PROVE  decrypt_cca(Unwritten, F, c).msg = Unwritten
<1> DEFINE v == decrypt_kem(F, c)  none == [i \in Places(0) |-> 0]
<1>1. LenBits \in Nat /\ MaxMsgLen \in Nat
  BY Format
<1>2. IsText(none, 0)
  <2>1. Places(0) = {}
    BY PlacesGrow
  <2> HIDE DEF none
  <2>2. none \in [Places(0) -> CharCodes]
    BY <2>1 DEF none
  <2> QED
    BY <1>1, <2>2 DEF IsText
<1> HIDE DEF none, v
<1>3. \A j \in Places(LenBits) : v[LenAt + j] = bit(0, j)
  <2> SUFFICES ASSUME NEW j \in Places(LenBits) PROVE bit(0, j) = 0
    BY DEF v
  <2> DEFINE T == two_to[j]
  <2>1. T \in Nat \ {0}
    BY <1>1, TwoTo, PlacesGrow
  <2> HIDE DEF T
  <2>2. 0 \div T = 0
    BY <2>1
  <2>3. 0 % 2 = 0
    OBVIOUS
  <2> QED
    BY <2>2, <2>3 DEF bit, T
<1>4. msg_len(v) = 0
  BY <1>2, <1>3, LengthReads
<1>5. \A i \in DOMAIN Unwritten : ~(i < 0)
  BY TextsType, PlacesGrow
<1>6. ~(0 > MaxMsgLen)
  BY <1>1
<1>7. recover_msg(Unwritten, v) =
        [msg |-> [i \in DOMAIN Unwritten |-> IF i < 0 THEN CharAt(v, i) ELSE Unwritten[i]], len |-> 0]
  BY <1>4, <1>6, RecoverIs
<1>8. [i \in DOMAIN Unwritten |-> IF i < 0 THEN CharAt(v, i) ELSE Unwritten[i]]
        = [i \in DOMAIN Unwritten |-> Unwritten[i]]
  BY <1>5
<1>9. [i \in DOMAIN Unwritten |-> Unwritten[i]] = Unwritten
  BY DEF Unwritten
<1>10. decrypt_cca(Unwritten, F, c) = [msg |-> Unwritten, len |-> 0]
  <2>1. recover_msg(Unwritten, v) = [msg |-> Unwritten, len |-> 0]
    BY <1>7, <1>8, <1>9
  <2>2. 0 \in Nat /\ 0 < 65536
    OBVIOUS
  <2> QED
    BY <2>1, <2>2, DecryptCca DEF v
<1> QED
  BY <1>10

MainInv ==
  /\ mainPc \in {"enc1", "enc2", "dec1", "dec2", "add", "dec3", "end"}
  /\ mainPc # "enc1" => pc = "done" /\ Carries(aliceText, c1, e1)
  /\ mainPc \notin {"enc1", "enc2"} => Carries(bobText, c2, e2)
  /\ aliceDec = Unwritten \/ mainPc \in {"dec2", "add", "dec3", "end"}
  /\ bobDec = Unwritten \/ mainPc \in {"add", "dec3", "end"}
  /\ addDec = Unwritten \/ mainPc = "end"
  /\ mainPc \in {"dec2", "add", "dec3", "end"} /\ Fits(e1) => aliceDec = aliceText
  /\ mainPc \in {"add", "dec3", "end"} /\ Fits(e2) => bobDec = bobText
  /\ mainPc \in {"dec3", "end"} => c3 = add(c1, c2)
  /\ mainPc = "end" /\ Fits(e3) => addDec = Unwritten

DriverInv == KeyInv /\ MainInv

(* The invariant of the driver holds at the start.                         *)
LEMMA MainInitInv == MainInit => MainInv
  BY DEF MainInit, MainInv

(* Key generation keeps the driver's invariant.                            *)
LEMMA KeyStepInv ==
  ASSUME DriverInv, KeyNext, UNCHANGED mainVars
  PROVE  DriverInv'
<1>1. KeyInv'
  BY KeyNextInv DEF DriverInv
<1>2. /\ mainPc' = mainPc /\ aliceText' = aliceText /\ bobText' = bobText
      /\ c1' = c1 /\ c2' = c2 /\ c3' = c3
      /\ aliceDec' = aliceDec /\ bobDec' = bobDec /\ addDec' = addDec
      /\ e1' = e1 /\ e2' = e2
  BY DEF mainVars
<1>3. pc # "done"
  BY DEF KeyNext, DrawOnes, DrawMinus, RingInvStart, RingInvStep, Finish
<1>4. mainPc = "enc1"
  BY <1>3 DEF DriverInv, MainInv
<1> QED
  BY <1>1, <1>2, <1>4 DEF DriverInv, MainInv

(* The key pair does not change once it is made.                           *)
LEMMA KeyStays ==
  ASSUME KeyInv, UNCHANGED keyVars
  PROVE  KeyInv' /\ F' = F /\ pc' = pc
<1>1. KeyInv'
  BY KeyNextInv
<1> QED
  BY <1>1 DEF keyVars

(* Alice's encryption carries her text.                                    *)
LEMMA EncAliceInv ==
  ASSUME DriverInv, pc = "done", UNCHANGED keyVars, EncAlice
  PROVE  MainInv'
<1>1. PICK text_ \in Texts, pad \in PadDraws, r \in RDraws :
        /\ aliceText' = text_ /\ c1' = encrypt_cca(c1, text_, pad, r, h)
        /\ e1' = Unreduced(pad_msg(text_, pad), r, F, g)
  BY DEF EncAlice
<1>2. Carries(text_, encrypt_cca(c1, text_, pad, r, h), Unreduced(pad_msg(text_, pad), r, F, g))
  BY EncryptCarries DEF DriverInv
<1>3. F' = F /\ pc' = "done"
  BY DEF keyVars
<1>4. Carries(aliceText, c1, e1)'
  BY <1>1, <1>2, <1>3 DEF Carries, SecretF
<1>5. /\ mainPc = "enc1" /\ mainPc' = "enc2"
      /\ aliceDec' = aliceDec /\ bobDec' = bobDec /\ addDec' = addDec
  BY DEF EncAlice
<1> QED
  BY <1>3, <1>4, <1>5 DEF DriverInv, MainInv

(* Bob's encryption carries his text.                                      *)
LEMMA EncBobInv ==
  ASSUME DriverInv, pc = "done", UNCHANGED keyVars, EncBob
  PROVE  MainInv'
<1>1. PICK text_ \in Texts, pad \in PadDraws, r \in RDraws :
        /\ bobText' = text_ /\ c2' = encrypt_cca(c2, text_, pad, r, h)
        /\ e2' = Unreduced(pad_msg(text_, pad), r, F, g)
  BY DEF EncBob
<1>2. Carries(text_, encrypt_cca(c2, text_, pad, r, h), Unreduced(pad_msg(text_, pad), r, F, g))
  BY EncryptCarries DEF DriverInv
<1>3. F' = F /\ pc' = "done"
  BY DEF keyVars
<1>4. Carries(bobText, c2, e2)'
  BY <1>1, <1>2, <1>3 DEF Carries, SecretF
<1>5. /\ mainPc = "enc2" /\ mainPc' = "dec1"
      /\ aliceDec' = aliceDec /\ bobDec' = bobDec /\ addDec' = addDec
      /\ aliceText' = aliceText /\ c1' = c1 /\ e1' = e1
  BY DEF EncBob
<1>6. Carries(aliceText, c1, e1)
  BY <1>5 DEF DriverInv, MainInv
<1>7. Carries(aliceText, c1, e1)'
  BY <1>3, <1>5, <1>6 DEF Carries, SecretF
<1> QED
  BY <1>3, <1>4, <1>5, <1>7 DEF DriverInv, MainInv

(* The steps of main that encrypt nothing.                                 *)
LEMMA LaterCarries ==
  ASSUME DriverInv, UNCHANGED keyVars, UNCHANGED <<aliceText, bobText, c1, c2, e1, e2>>,
         mainPc \notin {"enc1", "enc2"}
  PROVE  /\ pc = "done" /\ pc' = "done"
         /\ Carries(aliceText, c1, e1) /\ Carries(bobText, c2, e2)
         /\ Carries(aliceText, c1, e1)' /\ Carries(bobText, c2, e2)'
         /\ (Fits(e1)' <=> Fits(e1)) /\ (Fits(e2)' <=> Fits(e2)) /\ (Fits(e3)' <=> Fits(e3))
<1>1. pc = "done" /\ Carries(aliceText, c1, e1) /\ Carries(bobText, c2, e2)
  BY DEF DriverInv, MainInv
<1>2. F' = F /\ pc' = pc
  BY DEF keyVars
<1>3. Carries(aliceText, c1, e1)' /\ Carries(bobText, c2, e2)'
  BY <1>1, <1>2 DEF Carries, SecretF
<1>4. e3' = e3
  BY DEF e3
<1> QED
  BY <1>1, <1>2, <1>3, <1>4 DEF Fits

(* Alice's ciphertext reads as her text when its coefficients fit.         *)
LEMMA DecAliceInv ==
  ASSUME DriverInv, pc = "done", UNCHANGED keyVars, DecAlice
  PROVE  MainInv'
<1>1. /\ mainPc = "dec1" /\ mainPc' = "dec2"
      /\ aliceDec' = decrypt_cca(aliceDec, F, c1).msg /\ bobDec' = bobDec /\ addDec' = addDec
      /\ UNCHANGED <<aliceText, bobText, c1, c2, e1, e2>>
  BY DEF DecAlice
<1>2. /\ pc' = "done" /\ Carries(aliceText, c1, e1)
      /\ Carries(aliceText, c1, e1)' /\ Carries(bobText, c2, e2)'
      /\ (Fits(e1)' <=> Fits(e1))
  BY <1>1, LaterCarries
<1>3. aliceDec = Unwritten /\ bobDec = Unwritten /\ addDec = Unwritten
  BY <1>1 DEF DriverInv, MainInv
<1>4. Fits(e1) => decrypt_cca(Unwritten, F, c1).msg = aliceText
  BY <1>2, DecryptBack DEF DriverInv
<1> QED
  BY <1>1, <1>2, <1>3, <1>4 DEF MainInv

(* Bob's ciphertext reads as his text when its coefficients fit.           *)
LEMMA DecBobInv ==
  ASSUME DriverInv, pc = "done", UNCHANGED keyVars, DecBob
  PROVE  MainInv'
<1>1. /\ mainPc = "dec2" /\ mainPc' = "add"
      /\ bobDec' = decrypt_cca(bobDec, F, c2).msg /\ aliceDec' = aliceDec /\ addDec' = addDec
      /\ UNCHANGED <<aliceText, bobText, c1, c2, e1, e2>>
  BY DEF DecBob
<1>2. /\ pc' = "done" /\ Carries(bobText, c2, e2)
      /\ Carries(aliceText, c1, e1)' /\ Carries(bobText, c2, e2)'
      /\ (Fits(e1)' <=> Fits(e1)) /\ (Fits(e2)' <=> Fits(e2))
  BY <1>1, LaterCarries
<1>3. bobDec = Unwritten /\ addDec = Unwritten /\ (Fits(e1) => aliceDec = aliceText)
  BY <1>1 DEF DriverInv, MainInv
<1>4. Fits(e2) => decrypt_cca(Unwritten, F, c2).msg = bobText
  BY <1>2, DecryptBack DEF DriverInv
<1> QED
  BY <1>1, <1>2, <1>3, <1>4 DEF MainInv

(* Subtracting the ciphertexts keeps the invariant.                        *)
LEMMA AddInv ==
  ASSUME DriverInv, pc = "done", UNCHANGED keyVars, Add
  PROVE  MainInv'
<1>1. /\ mainPc = "add" /\ mainPc' = "dec3" /\ c3' = add(c1, c2)
      /\ bobDec' = bobDec /\ aliceDec' = aliceDec /\ addDec' = addDec
      /\ UNCHANGED <<aliceText, bobText, c1, c2, e1, e2>>
  BY DEF Add
<1>2. /\ pc' = "done"
      /\ Carries(aliceText, c1, e1)' /\ Carries(bobText, c2, e2)'
      /\ (Fits(e1)' <=> Fits(e1)) /\ (Fits(e2)' <=> Fits(e2))
  BY <1>1, LaterCarries
<1>3. addDec = Unwritten /\ (Fits(e1) => aliceDec = aliceText) /\ (Fits(e2) => bobDec = bobText)
  BY <1>1 DEF DriverInv, MainInv
<1>4. c3' = add(c1', c2')
  BY <1>1
<1>5. add(c1, c2)' = add(c1', c2')
  BY DEF add
<1> QED
  BY <1>1, <1>2, <1>3, <1>4, <1>5 DEF MainInv

(* Decrypting the difference keeps the invariant.                          *)
LEMMA DecAddInv ==
  ASSUME DriverInv, pc = "done", UNCHANGED keyVars, DecAdd
  PROVE  MainInv'
<1>1. /\ mainPc = "dec3" /\ mainPc' = "end" /\ c3' = c3
      /\ addDec' = decrypt_cca(addDec, F, c3).msg /\ aliceDec' = aliceDec /\ bobDec' = bobDec
      /\ UNCHANGED <<aliceText, bobText, c1, c2, e1, e2>>
  BY DEF DecAdd
<1>2. /\ pc' = "done" /\ Carries(aliceText, c1, e1) /\ Carries(bobText, c2, e2)
      /\ Carries(aliceText, c1, e1)' /\ Carries(bobText, c2, e2)'
      /\ (Fits(e1)' <=> Fits(e1)) /\ (Fits(e2)' <=> Fits(e2)) /\ (Fits(e3)' <=> Fits(e3))
  BY <1>1, LaterCarries
<1>3. addDec = Unwritten /\ (Fits(e1) => aliceDec = aliceText) /\ (Fits(e2) => bobDec = bobText)
      /\ c3 = add(c1, c2)
  BY <1>1 DEF DriverInv, MainInv
<1>4. Fits(e3) => decrypt_cca(Unwritten, F, c3).msg = Unwritten
  <2>1. e3 = Minus2(e1, e2)
    BY DEF e3, Minus2
  <2> SUFFICES ASSUME Fits(e3) PROVE decrypt_cca(Unwritten, F, c3).msg = Unwritten
    OBVIOUS
  <2>2. \A j \in Places(LenBits) : decrypt_kem(F, add(c1, c2))[LenAt + j] = 0
    BY <1>2, <2>1, DifferenceReads DEF DriverInv
  <2> QED
    BY <1>3, <2>2, NothingRead
<1>5. c3' = add(c1', c2')
  BY <1>1, <1>3
<1>6. add(c1, c2)' = add(c1', c2')
  BY DEF add
<1> QED
  BY <1>1, <1>2, <1>3, <1>4, <1>5, <1>6 DEF MainInv

(* Every step of the driver keeps the invariant.                           *)
LEMMA MainStepInv ==
  ASSUME DriverInv, MainNext
  PROVE  DriverInv'
<1>1. pc = "done" /\ UNCHANGED keyVars
  BY DEF MainNext
<1>2. KeyInv'
  BY <1>1, KeyStays DEF DriverInv
<1>3. MainInv'
  BY <1>1, EncAliceInv, EncBobInv, DecAliceInv, DecBobInv, AddInv, DecAddInv DEF MainNext
<1> QED
  BY <1>2, <1>3 DEF DriverInv

(* Stuttering keeps the invariant.                                         *)
LEMMA NoStepInv ==
  ASSUME DriverInv, UNCHANGED <<keyVars, mainVars>>
  PROVE  DriverInv'
<1>1. KeyInv' /\ F' = F /\ pc' = pc
  BY KeyStays DEF DriverInv
<1>2. /\ mainPc' = mainPc /\ aliceText' = aliceText /\ bobText' = bobText
      /\ c1' = c1 /\ c2' = c2 /\ c3' = c3
      /\ aliceDec' = aliceDec /\ bobDec' = bobDec /\ addDec' = addDec
      /\ e1' = e1 /\ e2' = e2
  BY DEF mainVars
<1>3. Carries(aliceText, c1, e1)' = Carries(aliceText, c1, e1)
      /\ Carries(bobText, c2, e2)' = Carries(bobText, c2, e2)
  BY <1>1, <1>2 DEF Carries, SecretF
<1>4. Fits(e1)' = Fits(e1) /\ Fits(e2)' = Fits(e2) /\ Fits(e3)' = Fits(e3) /\ add(c1, c2)' = add(c1, c2)
  BY <1>2 DEF Fits, e3, add
<1> QED
  BY <1>1, <1>2, <1>3, <1>4 DEF DriverInv, MainInv

(* The invariant of key generation and the driver (NTRUEncrypt.c and its   *)
(* test program) holds throughout.                                         *)
THEOREM DriverInvariance == MainSpec => []DriverInv
<1>1. KeyInit /\ MainInit => DriverInv
  BY KeyInitInv, MainInitInv DEF DriverInv
<1>2. DriverInv /\ [(KeyNext /\ UNCHANGED mainVars) \/ MainNext]_<<keyVars, mainVars>> => DriverInv'
  BY KeyStepInv, MainStepInv, NoStepInv
<1> QED
  BY <1>1, <1>2, PTL DEF MainSpec

(* The invariant contains what OwnTextBack says.                           *)
LEMMA DriverInvOwn == DriverInv => OwnTextBack
  BY DEF DriverInv, MainInv, OwnTextBack

(* The difference's length field reads 0, so no char is recovered.         *)
LEMMA DriverInvLost == DriverInv => DifferenceLost
  BY DEF DriverInv, MainInv, DifferenceLost

(* The difference decrypts to zeros exactly when the texts agree.          *)
LEMMA DriverInvReadable == DriverInv => EqualityReadable
<1> SUFFICES ASSUME DriverInv, mainPc = "end", Fits(e3)
             PROVE  (\A i \in 0..(LenAt - 1) : decrypt_kem(F, c3)[i] = 0) <=> aliceText = bobText
  BY DEF EqualityReadable
<1>1. /\ pc = "done" /\ Carries(aliceText, c1, e1) /\ Carries(bobText, c2, e2)
      /\ c3 = add(c1, c2) /\ KeyInv
  BY DEF DriverInv, MainInv
<1>2. e3 = Minus2(e1, e2)
  BY DEF e3, Minus2
<1>3. (\A i \in Places(LenAt) : decrypt_kem(F, add(c1, c2))[i] = 0) <=> aliceText = bobText
  BY <1>1, <1>2, DifferenceReads
<1> QED
  BY <1>1, <1>3 DEF Places

(* Each party's ciphertext decrypts to that party's text whenever the      *)
(* coefficients fit below q/2.                                             *)
THEOREM OwnTextRead == MainSpec => []OwnTextBack
  BY DriverInvariance, DriverInvOwn, PTL

(* The difference of two ciphertexts decrypts to zero coefficients exactly *)
(* when the texts are the same, whenever its coefficients fit.             *)
THEOREM EqualityRead == MainSpec => []EqualityReadable
  BY DriverInvariance, DriverInvReadable, PTL

(* The text recovered from the difference is always empty: the length      *)
(* fields cancel, and the buffer keeps what it was allocated with.         *)
THEOREM DifferenceIsLost == MainSpec => []DifferenceLost
  BY DriverInvariance, DriverInvLost, PTL

----------------------------------------------------------------------------
(***************************************************************************)
(* Packing (packing.c): elements and octets are bits of one number, in     *)
(* groups of two sizes.                                                    *)
(***************************************************************************)

(* The sizes of elements and octets, as the packing code assumes them.     *)
LEMMA PackingSizes ==
  /\ OctetBits \in Nat \ {0} /\ QBits \in Nat /\ OctetBits < QBits /\ QBits < 2 * OctetBits
  /\ q = two_to[QBits] /\ Octet \in Nat \ {0} /\ Word = Octet * Octet
  /\ N \in Nat \ {0} /\ Index = Places(N)
<1>1. OctetBits \in Nat \ {0} /\ QBits \in Nat /\ OctetBits < QBits /\ QBits < 2 * OctetBits
      /\ q = two_to[QBits]
  BY PackingAssumption
<1>2. Octet \in Nat \ {0}
  BY <1>1, TwoTo DEF Octet
<1>3. Word = Octet * Octet
  <2>1. 2 * OctetBits = OctetBits + OctetBits
    BY <1>1
  <2> QED
    BY <1>1, <2>1, TwoAdd DEF Word, Octet
<1> QED
  BY <1>1, <1>2, <1>3, NPositive, IndexPlaces

(* The bits of all the octets, and those of them beyond the elements.      *)
Total == OctetBits * packpk
Spare == Total - QBits * N

(* The octets of packpk hold all the elements, and less than an octet      *)
(* more.                                                                   *)
LEMMA TotalIs ==
  packpk \in Nat /\ Total \in Nat /\ Spare \in Nat /\ Spare < OctetBits /\ Total = QBits * N + Spare
<1> DEFINE wd == OctetBits  x == N * QBits + OctetBits - 1  b == x \div wd  r == x % wd
<1>1. wd \in Nat \ {0} /\ x \in Nat /\ x \in Int /\ QBits \in Nat /\ N \in Nat \ {0}
  BY PackingSizes
<1>2. b = packpk
  BY DEF packpk
<1>3. x = wd * b + r /\ r \in 0..(wd - 1) /\ b \in Nat
  <2> HIDE DEF x, wd
  <2> QED
    BY <1>1, DivMod, QuotientNat
<1> HIDE DEF b, r
<1> DEFINE nq == QBits * N  mb == wd * b
<1>4. nq \in Nat /\ mb \in Nat /\ x = nq + wd - 1
  BY <1>1, <1>3
<1> HIDE DEF nq
<1>5. x = mb + r
  BY <1>3
<1> HIDE DEF x, mb
<1>6. mb - nq \in Nat /\ mb - nq < wd
  BY <1>1, <1>3, <1>4, <1>5
<1>7. Total = mb /\ Spare = mb - nq
  BY <1>2 DEF Total, Spare, mb, nq
<1> QED
  BY <1>2, <1>3, <1>4, <1>6, <1>7 DEF wd, nq

(* The k-th octet of the number, and the i-th element.                     *)
OctetOf(u, k) == High(u, Total - OctetBits * k) % Octet
ElementOf(u, i) == High(u, Total - QBits * (i + 1)) % two_to[QBits]

(* u is the number that the elements make up, one after the other.         *)
Elements(u, in) ==
  /\ u \in Nat /\ High(u, Total) = 0 /\ u = High(u, Spare) * two_to[Spare]
  /\ \A i \in Index : in[i] = ElementOf(u, i)

(* Any elements make up such a number.                                     *)
LEMMA ElementsExist ==
  ASSUME NEW in \in [Index -> 0..(q - 1)]
  PROVE  \E u : Elements(u, in)
<1>1. QBits \in Nat /\ N \in Nat /\ q = two_to[QBits] /\ Index = Places(N) /\ Spare \in Nat /\ Total = QBits * N + Spare
  BY PackingSizes, TotalIs
<1>2. \A i \in Places(N) : in[i] \in 0..(two_to[QBits] - 1)
  BY <1>1
<1>3. PICK v \in Nat : /\ High(v, QBits * N) = 0
                       /\ \A i \in Places(N) : High(v, QBits * (N - 1 - i)) % two_to[QBits] = in[i]
  BY <1>1, <1>2, NumberOfDigits
<1> DEFINE wd == two_to[Spare]  u == v * wd
<1>4. wd \in Nat \ {0} /\ u \in Nat
  <2>1. wd \in Nat \ {0}
    BY <1>1, TwoTo
  <2> HIDE DEF wd
  <2> QED
    BY <2>1
<1>5. High(u, Spare) = v
  <2> HIDE DEF wd
  <2> DEFINE z == 0
  <2>1. u = wd * v + z /\ z \in 0..(wd - 1) /\ u \in Int
    BY <1>4
  <2> HIDE DEF u, z
  <2>2. u \div wd = v
    BY <1>4, <2>1, QuotientUnique
  <2> QED
    BY <2>2 DEF High, wd
<1>6. u = High(u, Spare) * two_to[Spare]
  BY <1>5
<1> HIDE DEF wd, u
<1>7. \A e \in Nat : High(u, Spare + e) = High(v, e)
  BY <1>1, <1>4, <1>5, HighAdd
<1>8. High(u, Total) = 0
  <2>1. QBits * N \in Nat /\ Total = Spare + QBits * N
    BY <1>1
  <2> QED
    BY <1>3, <1>7, <2>1
<1>9. ASSUME NEW i \in Index
      PROVE  in[i] = ElementOf(u, i)
  <2> DEFINE e == QBits * (N - 1 - i)
  <2>1. i \in Nat /\ i < N /\ i \in Places(N)
    BY <1>1, PlacesGrow
  <2>2. e \in Nat /\ Total - QBits * (i + 1) = Spare + e
    <3>1. N - 1 - i \in Nat
      BY <1>1, <2>1
    <3>2. QBits * (N - 1 - i) = QBits * N - QBits * (i + 1)
      BY <1>1, <2>1
    <3> DEFINE nq == QBits * N  iq == QBits * (i + 1)
    <3>3. nq \in Nat /\ iq \in Nat /\ e \in Nat /\ e = nq - iq /\ Total = nq + Spare
      BY <1>1, <2>1, <3>1, <3>2
    <3> HIDE DEF nq, iq, e
    <3>4. Total - iq = Spare + e
      BY <1>1, <3>3
    <3> QED
      BY <3>3, <3>4 DEF iq
  <2>3. High(v, e) % two_to[QBits] = in[i]
    BY <1>3, <2>1
  <2> HIDE DEF e
  <2> QED
    BY <1>7, <2>2, <2>3 DEF ElementOf
<1> QED
  BY <1>4, <1>6, <1>8, <1>9 DEF Elements

(* The turns of the packing loop.                                          *)
PackState == [i : Nat, shift : 0..QBits, temp : Int, out : Seq(Int)]
PackStart == [i |-> 0, shift |-> QBits - OctetBits, temp |-> 0, out |-> <<>>]
PackTurn(in, x) == IF x.i < N THEN pack_octet(in, x) ELSE x
IsPacking(f, in) ==
  f = [t \in Nat |-> IF t = 0 THEN PackStart ELSE PackTurn(in, f[t - 1])]
Packing(in) == CHOOSE f : IsPacking(f, in)

(* Packing, in terms of its turns.                                         *)
LEMMA PackedIs ==
  ASSUME NEW in
  PROVE  ntru_elements_2_octets(in) =
           LET end == Packing(in)[2 * N]
           IN  IF end.shift = QBits - OctetBits THEN end.out
               ELSE Append(end.out, end.temp % Octet)
  BY DEF ntru_elements_2_octets, Packing, IsPacking, PackTurn, PackStart

(* One turn of packing, the two cases apart.                               *)
LEMMA PackOctetIs ==
  ASSUME NEW in, NEW x, OctetBits \in Int, x.shift \in Int
  PROVE  LET octet == (x.temp + in[x.i] \div two_to[x.shift]) % Octet
             left == OctetBits - x.shift
         IN  pack_octet(in, x) =
               IF x.shift > OctetBits
               THEN [i |-> x.i, shift |-> x.shift - OctetBits, temp |-> 0, out |-> Append(x.out, octet)]
               ELSE [i |-> x.i + 1, shift |-> QBits - left,
                     temp |-> (in[x.i] * two_to[left]) % Word, out |-> Append(x.out, octet)]
<1> DEFINE left == OctetBits - x.shift
<1>1. left < 0 <=> x.shift > OctetBits
  OBVIOUS
<1>2. -left = x.shift - OctetBits
  OBVIOUS
<1> HIDE DEF left
<1>3. CASE x.shift > OctetBits
  BY <1>1, <1>2, <1>3 DEF pack_octet, left
<1>4. CASE ~(x.shift > OctetBits)
  BY <1>1, <1>4 DEF pack_octet, left
<1> QED
  BY <1>3, <1>4

(* The type of what a turn leaves.                                         *)
LEMMA RecordType ==
  ASSUME NEW j \in Nat, NEW s \in 0..QBits, NEW t \in Int, NEW o \in Seq(Int)
  PROVE  [i |-> j, shift |-> s, temp |-> t, out |-> o] \in PackState
  BY DEF PackState

(* A turn of packing leaves a state of the loop.                           *)
LEMMA PackOctetType ==
  ASSUME NEW in, NEW x \in PackState, in[x.i] \in Int
  PROVE  pack_octet(in, x) \in PackState
<1>1. /\ OctetBits \in Nat \ {0} /\ QBits \in Nat /\ OctetBits < QBits
      /\ Octet \in Nat \ {0} /\ Word \in Nat \ {0}
  BY PackingSizes
<1>2. x.i \in Nat /\ x.shift \in 0..QBits /\ x.temp \in Int /\ x.out \in Seq(Int)
  BY DEF PackState
<1> DEFINE two == two_to[x.shift]  b == in[x.i] \div two  octet == (x.temp + b) % Octet
           left == OctetBits - x.shift  o == Append(x.out, octet)
<1>3. two \in Nat \ {0} /\ x.shift \in Nat
  <2>1. x.shift \in Nat
    BY <1>1, <1>2
  <2> QED
    BY <2>1, TwoTo
<1>4. b \in Int
  <2> HIDE DEF two
  <2> QED
    BY <1>3, DivMod
<1>5. octet \in Int
  <2> DEFINE y == x.temp + b
  <2> HIDE DEF b
  <2>1. y \in Int
    BY <1>2, <1>4
  <2> HIDE DEF y
  <2>2. y % Octet \in Int
    BY <1>1, <2>1, DivMod
  <2> QED
    BY <2>2 DEF y
<1> HIDE DEF octet
<1>6. o \in Seq(Int)
  BY <1>2, <1>5, AppendProperties
<1> HIDE DEF o
<1>7. CASE x.shift > OctetBits
  <2>1. pack_octet(in, x) = [i |-> x.i, shift |-> x.shift - OctetBits, temp |-> 0, out |-> o]
    BY <1>1, <1>3, <1>7, PackOctetIs DEF o, octet
  <2>2. x.shift - OctetBits \in 0..QBits /\ 0 \in Int
    BY <1>1, <1>2, <1>7
  <2> QED
    BY <1>2, <1>6, <2>1, <2>2, RecordType
<1>8. CASE ~(x.shift > OctetBits)
  <2> DEFINE l == two_to[left]  y == in[x.i] * l  t == y % Word
  <2>1. pack_octet(in, x) = [i |-> x.i + 1, shift |-> QBits - left, temp |-> t, out |-> o]
    BY <1>1, <1>3, <1>8, PackOctetIs DEF o, octet
  <2>2. QBits - left \in 0..QBits /\ left \in Nat /\ x.i + 1 \in Nat
    BY <1>1, <1>2, <1>8
  <2>3. y \in Int
    <3>1. l \in Nat
      BY <2>2, TwoTo
    <3> HIDE DEF l
    <3> QED
      BY <3>1
  <2>4. t \in Int
    <3> HIDE DEF y
    <3> QED
      BY <1>1, <2>3, DivMod
  <2> HIDE DEF t, left
  <2> QED
    BY <1>6, <2>1, <2>2, <2>4, RecordType
<1> QED
  BY <1>7, <1>8

(* So does the start.                                                      *)
LEMMA PackStartType == PackStart \in PackState
<1>1. QBits - OctetBits \in 0..QBits /\ 0 \in Nat /\ 0 \in Int /\ <<>> \in Seq(Int)
  BY PackingSizes
<1> QED
  BY <1>1, RecordType DEF PackStart

(* Each turn of packing is made from the one before.                       *)
LEMMA PackingRuns ==
  ASSUME NEW in \in [Index -> Int]
  PROVE  /\ Packing(in)[0] = PackStart
         /\ \A t \in Nat : Packing(in)[t + 1] = PackTurn(in, Packing(in)[t])
<1> DEFINE turn == [x \in PackState |-> PackTurn(in, x)]  next == [t \in Nat |-> turn]
<1>1. turn \in [PackState -> PackState]
  <2> SUFFICES ASSUME NEW x \in PackState, x.i < N PROVE pack_octet(in, x) \in PackState
    BY DEF PackTurn
  <2>1. x.i \in Nat
    BY DEF PackState
  <2>2. x.i \in Index
    BY <2>1, PackingSizes DEF Places
  <2>3. in[x.i] \in Int
    BY <2>2
  <2> QED
    BY <2>3, PackOctetType
<1>2. next \in [Nat -> [PackState -> PackState]]
  <2> HIDE DEF turn
  <2> QED
    BY <1>1
<1>3. PICK f : IsIteration(f, PackState, PackStart, next)
  <2> HIDE DEF next
  <2> QED
    BY <1>2, PackStartType, Iteration
<1>4. f \in [Nat -> PackState] /\ f[0] = PackStart /\ \A t \in Nat : f[t + 1] = PackTurn(in, f[t])
  BY <1>3 DEF IsIteration
<1>5. IsPacking(f, in)
  <2>1. ASSUME NEW t \in Nat, t # 0 PROVE f[t] = PackTurn(in, f[t - 1])
    <3>1. t - 1 \in Nat /\ (t - 1) + 1 = t
      BY <2>1
    <3>2. f[(t - 1) + 1] = PackTurn(in, f[t - 1])
      BY <1>4, <3>1
    <3> QED
      BY <3>1, <3>2
  <2>2. \A t \in Nat : f[t] = IF t = 0 THEN PackStart ELSE PackTurn(in, f[t - 1])
    BY <1>4, <2>1
  <2>3. f = [t \in Nat |-> f[t]]
    BY <1>4
  <2> QED
    BY <2>2, <2>3 DEF IsPacking
<1>6. IsPacking(Packing(in), in)
  BY <1>5 DEF Packing
<1> DEFINE g_ == Packing(in)
<1> HIDE DEF g_
<1>7. \A t \in Nat : g_[t] = IF t = 0 THEN PackStart ELSE PackTurn(in, g_[t - 1])
  BY <1>6 DEF IsPacking, g_
<1>8. ASSUME NEW t \in Nat PROVE g_[t + 1] = PackTurn(in, g_[t])
  <2>1. t + 1 \in Nat /\ t + 1 # 0 /\ (t + 1) - 1 = t
    OBVIOUS
  <2> QED
    BY <1>7, <2>1
<1>9. g_[0] = PackStart
  BY <1>7
<1> QED
  BY <1>8, <1>9 DEF g_

(* What holds after each turn.                                             *)
PackHolds(x, u) ==
  /\ x.i \in 0..N /\ x.shift \in 0..QBits /\ x.temp \in Int /\ x.out \in Seq(Int)
  /\ x.i = N => x.shift >= QBits - OctetBits
  /\ OctetBits * (Len(x.out) + 1) + x.shift = QBits * (x.i + 1)
  /\ Congruent(x.temp, High(u, Total - QBits * x.i) * two_to[QBits - x.shift], Octet)
  /\ \A k \in 1..Len(x.out) : x.out[k] = OctetOf(u, k)

(* At the start nothing is out.                                            *)
LEMMA PackStartHolds ==
  ASSUME NEW in, NEW u, Elements(u, in)
  PROVE  PackHolds(PackStart, u) /\ Len(PackStart.out) = 0
<1>1. /\ OctetBits \in Nat \ {0} /\ QBits \in Nat /\ OctetBits < QBits /\ N \in Nat \ {0}
      /\ Octet \in Nat \ {0} /\ Total \in Nat
  BY PackingSizes, TotalIs
<1> DEFINE x == PackStart
<1>2. x.i = 0 /\ x.shift = QBits - OctetBits /\ x.temp = 0 /\ x.out = <<>>
  BY DEF PackStart
<1>3. Len(<<>>) = 0 /\ <<>> \in Seq(Int)
  OBVIOUS
<1> HIDE DEF x
<1>4. Congruent(x.temp, High(u, Total - QBits * x.i) * two_to[QBits - x.shift], Octet)
  <2>1. Total - QBits * x.i = Total /\ High(u, Total) = 0
    <3>1. QBits * 0 = 0 /\ Total - 0 = Total
      BY <1>1
    <3>2. High(u, Total) = 0
      BY DEF Elements
    <3> QED
      BY <1>2, <3>1, <3>2
  <2>2. QBits - x.shift = OctetBits /\ two_to[OctetBits] \in Nat
    <3>1. QBits - (QBits - OctetBits) = OctetBits
      BY <1>1
    <3>2. two_to[OctetBits] \in Nat
      BY <1>1, TwoType
    <3> QED
      BY <1>2, <3>1, <3>2

  <2>3. High(u, Total - QBits * x.i) * two_to[QBits - x.shift] = 0
    BY <2>1, <2>2
  <2> QED
    BY <1>2, <2>3, CongruentEquivalence
<1>5. OctetBits * (Len(x.out) + 1) + x.shift = QBits * (x.i + 1)
  BY <1>1, <1>2, <1>3
<1> QED
  BY <1>1, <1>2, <1>3, <1>4, <1>5 DEF PackHolds, x

(* The octet that a turn puts out.                                         *)
LEMMA PackTurnOctet ==
  ASSUME NEW in, NEW u, Elements(u, in), NEW x, PackHolds(x, u), x.i < N
  PROVE  LET e == Total - QBits * (x.i + 1)
         IN  /\ e \in Nat /\ in[x.i] = High(u, e) % two_to[QBits]
             /\ in[x.i] \in 0..(two_to[QBits] - 1)
             /\ High(u, e) = High(u, Total - QBits * x.i) * two_to[QBits] + in[x.i]
             /\ High(u, Total - QBits * x.i) \in Nat
             /\ Total - QBits * x.i \in Nat
             /\ (x.temp + in[x.i] \div two_to[x.shift]) % Octet = OctetOf(u, Len(x.out) + 1)
<1> DEFINE e == Total - QBits * (x.i + 1)  e0 == Total - QBits * x.i  s == x.shift  t == x.temp
           y == in[x.i]  hi == High(u, e0)  A == two_to[QBits - s]  B == two_to[s]  n == Len(x.out)
           iq == QBits * x.i  nq == QBits * N
<1>1. /\ OctetBits \in Nat \ {0} /\ QBits \in Nat /\ OctetBits < QBits /\ N \in Nat \ {0}
      /\ Octet \in Nat \ {0} /\ Total \in Nat /\ Spare \in Nat /\ Total = nq + Spare
      /\ Index = Places(N)
  BY PackingSizes, TotalIs
<1>2. /\ x.i \in 0..N /\ s \in 0..QBits /\ t \in Int /\ x.out \in Seq(Int)
      /\ OctetBits * (n + 1) + s = QBits * (x.i + 1)
      /\ Congruent(t, hi * A, Octet)
  BY DEF PackHolds
<1>3. u \in Nat /\ x.i \in Nat /\ x.i \in Index /\ y = ElementOf(u, x.i) /\ s \in Nat /\ QBits - s \in Nat
  <2>1. x.i \in Nat /\ x.i < N /\ s \in Nat /\ QBits - s \in Nat
    BY <1>1, <1>2
  <2>2. x.i \in Index
    BY <1>1, <2>1 DEF Places
  <2>3. u \in Nat /\ y = ElementOf(u, x.i)
    BY <2>2 DEF Elements
  <2> QED
    BY <2>1, <2>2, <2>3
<1>4. e \in Nat /\ e0 = e + QBits
  <2>1. x.i + 1 <= N
    BY <1>1, <1>3
  <2>2. QBits * (x.i + 1) <= QBits * N
    BY <1>1, <1>3, <2>1
  <2>3. QBits * (x.i + 1) = iq + QBits /\ iq \in Nat /\ nq \in Nat
    BY <1>1, <1>3
  <2> HIDE DEF iq, nq
  <2>4. e = Total - (iq + QBits) /\ e0 = Total - iq
    BY <2>3 DEF iq
  <2>5. iq + QBits <= nq
    BY <2>2, <2>3 DEF nq
  <2> HIDE DEF e, e0
  <2> QED
    BY <1>1, <2>3, <2>4, <2>5
<1>5. y = High(u, e) % two_to[QBits]
  BY <1>3 DEF ElementOf
<1> HIDE DEF e, e0, y, s, t, n
<1>6. High(u, e) = hi * two_to[QBits] + y /\ y \in 0..(two_to[QBits] - 1) /\ hi \in Nat
  <2>1. /\ High(u, e) = High(u, e + QBits) * two_to[QBits] + (High(u, e) % two_to[QBits])
        /\ High(u, e) % two_to[QBits] \in 0..(two_to[QBits] - 1)
    BY <1>1, <1>3, <1>4, HighSplit
  <2>2. High(u, e + QBits) \in Nat
    <3>1. e + QBits \in Nat
      BY <1>1, <1>4
    <3> QED
      BY <1>3, <3>1, HighAdd
  <2> QED
    BY <1>4, <1>5, <2>1, <2>2
<1>7. two_to[QBits] = A * B /\ A \in Nat \ {0} /\ B \in Nat \ {0} /\ two_to[QBits] \in Nat
  <2> DEFINE j == QBits - s
  <2>1. j + s = QBits /\ j \in Nat
    BY <1>1, <1>3
  <2> HIDE DEF j
  <2>2. two_to[j + s] = two_to[j] * two_to[s]
    BY <1>3, <2>1, TwoAdd
  <2>3. two_to[j] \in Nat \ {0} /\ two_to[s] \in Nat \ {0} /\ two_to[QBits] \in Nat
    BY <1>1, <1>3, <2>1, TwoType
  <2> QED
    BY <2>1, <2>2, <2>3 DEF j
<1> HIDE DEF A, B, hi
<1>8. y \in Nat
  BY <1>6, <1>7
<1>9. (hi * (A * B) + y) \div B = hi * A + y \div B
  BY <1>6, <1>7, <1>8, QuotientOfSum
<1>10. High(u, e + s) = hi * A + y \div B
  <2>1. High(u, e + s) = High(u, e) \div B
    <3>1. High(High(u, e), s) = High(u, e + s)
      BY <1>3, <1>4, HighAdd
    <3> QED
      BY <3>1 DEF High, B
  <2> QED
    BY <1>6, <1>7, <1>9, <2>1
<1>11. (t + y \div B) % Octet = High(u, e + s) % Octet
  <2> DEFINE c == y \div B  ha == hi * A
  <2>1. c \in Int /\ ha \in Int
    BY <1>6, <1>7, <1>8, QuotientNat
  <2>2. Congruent(t, ha, Octet)
    BY <1>2
  <2>3. High(u, e + s) = ha + c
    BY <1>10
  <2> HIDE DEF c, ha
  <2>4. Congruent(c, c, Octet)
    BY CongruentEquivalence
  <2>5. Congruent(t + c, ha + c, Octet)
    BY <1>1, <1>2, <2>1, <2>2, <2>4, CongruentAdd
  <2> QED
    BY <2>3, <2>5 DEF Congruent, c
<1>12. e + s = Total - OctetBits * (n + 1)
  <2> DEFINE ob == OctetBits * (n + 1)  qb == QBits * (x.i + 1)
  <2>1. n \in Nat
    BY <1>2, LenProperties DEF n
  <2>2. ob \in Int /\ qb \in Int /\ ob + s = qb /\ e = Total - qb
    BY <1>1, <1>2, <1>3, <2>1 DEF e
  <2> HIDE DEF ob, qb
  <2>3. e + s = Total - ob
    BY <1>1, <1>3, <2>2
  <2> QED
    BY <2>3 DEF ob
<1>13. (t + y \div B) % Octet = OctetOf(u, n + 1)
  BY <1>11, <1>12 DEF OctetOf
<1>14. /\ e \in Nat /\ y = High(u, e) % two_to[QBits]
       /\ y \in 0..(two_to[QBits] - 1)
       /\ High(u, e) = High(u, e0) * two_to[QBits] + y
       /\ High(u, e0) \in Nat /\ e0 \in Nat
       /\ (t + y \div two_to[s]) % Octet = OctetOf(u, n + 1)
  <2>1. e0 \in Nat
    BY <1>1, <1>4
  <2> QED
    BY <1>4, <1>5, <1>6, <1>13, <2>1 DEF hi, B
<1> QED
  BY <1>14 DEF e, e0, y, s, t, n

(* Powers of two from that of an octet on do not show in an octet.         *)
LEMMA OctetMultiple ==
  ASSUME NEW j \in Nat, j >= OctetBits, NEW z \in Int
  PROVE  Congruent(z * two_to[j], 0, Octet)
<1> DEFINE k == j - OctetBits  A == two_to[k]
<1>1. OctetBits \in Nat /\ Octet \in Nat \ {0} /\ k \in Nat /\ OctetBits + k = j
  BY PackingSizes
<1>2. two_to[j] = Octet * A /\ A \in Nat
  <2>1. two_to[OctetBits + k] = two_to[OctetBits] * two_to[k]
    BY <1>1, TwoAdd
  <2>2. two_to[k] \in Nat
    BY <1>1, TwoType
  <2> QED
    BY <1>1, <2>1, <2>2 DEF Octet
<1> HIDE DEF A
<1> DEFINE w_ == z * A  v == z * two_to[j]  zero == 0
<1>3. w_ \in Int /\ v = Octet * w_
  BY <1>1, <1>2
<1>4. v \in Int /\ zero \in Int
  BY <1>1, <1>3
<1>5. v = zero + Octet * w_
  <2> DEFINE x == Octet * w_
  <2>1. x \in Int /\ v = x
    BY <1>1, <1>3
  <2> HIDE DEF v, x
  <2>2. v = zero + x
    BY <2>1
  <2> QED
    BY <2>2 DEF x
<1> HIDE DEF w_, v, zero
<1>6. Congruent(v, zero, Octet)
  BY <1>1, <1>3, <1>4, <1>5, CongruentMultiple
<1> QED
  BY <1>6 DEF v, zero

(* Word is a multiple of an octet.                                         *)
LEMMA WordOctet ==
  ASSUME NEW z \in Int
  PROVE  z % Word \in Int /\ Congruent(z % Word, z, Octet)
<1> DEFINE c == z \div Word  r == z % Word  k == Octet * (-c)
<1>1. Octet \in Nat \ {0} /\ Word = Octet * Octet
  BY PackingSizes
<1>2. Word \in Nat \ {0}
  BY <1>1
<1>3. z = Word * c + r /\ c \in Int /\ r \in Int
  BY <1>2, DivMod
<1> HIDE DEF c, r
<1>4. k \in Int /\ r = z + Octet * k
  BY <1>1, <1>3
<1> HIDE DEF k
<1>5. Congruent(r, z, Octet)
  BY <1>1, <1>3, <1>4, CongruentMultiple
<1> QED
  BY <1>3, <1>5 DEF r

(* One more octet out, and one more element in.                            *)
LEMMA Recount ==
  ASSUME NEW o_ \in Nat, NEW b_ \in Nat, NEW n_ \in Nat, NEW i_ \in Nat, NEW s_ \in Int,
         o_ * (n_ + 1) + s_ = b_ * (i_ + 1)
  PROVE  /\ o_ * ((n_ + 1) + 1) + (s_ - o_) = b_ * (i_ + 1)
         /\ o_ * ((n_ + 1) + 1) + (b_ - (o_ - s_)) = b_ * ((i_ + 1) + 1)
<1> DEFINE x == o_ * (n_ + 1)  y == b_ * (i_ + 1)
<1>1. x \in Int /\ y \in Int /\ x + s_ = y
  OBVIOUS
<1>2. o_ * ((n_ + 1) + 1) = x + o_ /\ b_ * ((i_ + 1) + 1) = y + b_
  OBVIOUS
<1> HIDE DEF x, y
<1>3. (x + o_) + (s_ - o_) = y /\ (x + o_) + (b_ - (o_ - s_)) = y + b_
  BY <1>1
<1> QED
  BY <1>2, <1>3 DEF y

(* A turn of packing puts the next octet of the number out.                *)
LEMMA PackTurnHolds ==
  ASSUME NEW in, NEW u, Elements(u, in), NEW x, PackHolds(x, u), x.i < N
  PROVE  PackHolds(pack_octet(in, x), u) /\ Len(pack_octet(in, x).out) = Len(x.out) + 1
<1> DEFINE s == x.shift  n == Len(x.out)  y == in[x.i]  octet == (x.temp + y \div two_to[s]) % Octet
           o == Append(x.out, octet)  z == pack_octet(in, x)
           e == Total - QBits * (x.i + 1)  e0 == Total - QBits * x.i
<1>1. /\ OctetBits \in Nat \ {0} /\ QBits \in Nat /\ OctetBits < QBits /\ N \in Nat \ {0}
      /\ Octet \in Nat \ {0} /\ Total \in Nat
  BY PackingSizes, TotalIs
<1>2. /\ x.i \in 0..N /\ s \in 0..QBits /\ x.temp \in Int /\ x.out \in Seq(Int)
      /\ OctetBits * (n + 1) + s = QBits * (x.i + 1)
      /\ \A k \in 1..n : x.out[k] = OctetOf(u, k)
  BY DEF PackHolds
<1>3. /\ e \in Nat /\ y \in 0..(two_to[QBits] - 1) /\ High(u, e) = High(u, e0) * two_to[QBits] + y
      /\ High(u, e0) \in Nat /\ e0 \in Nat /\ octet = OctetOf(u, n + 1)
  BY PackTurnOctet
<1>4. x.i \in Nat /\ s \in Nat /\ n \in Nat /\ x.i + 1 \in 0..N
  <2>1. n \in Nat
    BY <1>2, LenProperties
  <2> QED
    BY <1>1, <1>2, <2>1
<1>5. octet \in Int
  <2>1. u \in Nat /\ two_to[QBits] \in Nat
    BY <1>1, TwoTo DEF Elements
  <2>2. y \in Nat /\ two_to[s] \in Nat \ {0}
    <3>1. y \in Nat
      BY <1>3, <2>1
    <3>2. two_to[s] \in Nat \ {0}
      BY <1>4, TwoType
    <3> QED
      BY <3>1, <3>2

  <2>3. y \div two_to[s] \in Nat
    BY <2>2, QuotientNat
  <2> DEFINE v == x.temp + y \div two_to[s]
  <2>4. v \in Int
    <3> DEFINE b == y \div two_to[s]
    <3> HIDE DEF b
    <3>1. x.temp + b \in Int
      BY <1>2, <2>3 DEF b
    <3> QED
      BY <3>1 DEF b
  <2> HIDE DEF v
  <2>5. v % Octet \in Int
    BY <1>1, <2>4, DivMod
  <2> QED
    BY <2>5 DEF v
<1>6. o \in Seq(Int) /\ Len(o) = n + 1 /\ \A k \in 1..(n + 1) : o[k] = OctetOf(u, k)
  <2> HIDE DEF octet
  <2>1. o \in Seq(Int) /\ Len(o) = n + 1 /\ (\A k \in 1..n : o[k] = x.out[k]) /\ o[n + 1] = octet
    BY <1>2, <1>5, AppendProperties
  <2>2. ASSUME NEW k \in 1..(n + 1) PROVE o[k] = OctetOf(u, k)
    <3>1. CASE k \in 1..n
      BY <1>2, <2>1, <3>1
    <3>2. CASE k = n + 1
      BY <1>3, <2>1, <3>2
    <3> QED
      BY <1>4, <3>1, <3>2
  <2> QED
    BY <2>1, <2>2
<1> HIDE DEF o
<1>9. /\ OctetBits * ((n + 1) + 1) + (s - OctetBits) = QBits * (x.i + 1)
      /\ OctetBits * ((n + 1) + 1) + (QBits - (OctetBits - s)) = QBits * ((x.i + 1) + 1)
  <2> HIDE DEF s, n
  <2> DEFINE j == x.i
  <2> HIDE DEF j
  <2>1. /\ OctetBits \in Nat /\ QBits \in Nat /\ n \in Nat /\ j \in Nat /\ s \in Int
        /\ OctetBits * (n + 1) + s = QBits * (j + 1)
    BY <1>1, <1>2, <1>4 DEF j
  <2>2. /\ OctetBits * ((n + 1) + 1) + (s - OctetBits) = QBits * (j + 1)
        /\ OctetBits * ((n + 1) + 1) + (QBits - (OctetBits - s)) = QBits * ((j + 1) + 1)
    BY <2>1, Recount
  <2> QED
    BY <2>2 DEF j
<1>7. CASE s > OctetBits
  <2>1. z = [i |-> x.i, shift |-> s - OctetBits, temp |-> 0, out |-> o]
    BY <1>1, <1>4, <1>7, PackOctetIs DEF o
  <2>2. z.i = x.i /\ z.shift = s - OctetBits /\ z.temp = 0 /\ z.out = o
    BY <2>1
  <2> HIDE DEF z, e, e0, s, n, y, octet
  <2>3. s - OctetBits \in 0..QBits
    BY <1>1, <1>2, <1>4, <1>7
  <2>4. Congruent(z.temp, High(u, e0) * two_to[QBits - z.shift], Octet)
    <3>1. QBits - z.shift \in Nat /\ QBits - z.shift >= OctetBits
      BY <1>1, <1>2, <1>4, <2>2
    <3>2. Congruent(High(u, e0) * two_to[QBits - z.shift], 0, Octet)
      BY <1>3, <3>1, OctetMultiple
    <3> QED
      BY <2>2, <3>2, CongruentEquivalence
  <2>5. OctetBits * (Len(z.out) + 1) + z.shift = QBits * (z.i + 1)
    BY <1>6, <1>9, <2>2
  <2>6. Congruent(z.temp, High(u, Total - QBits * z.i) * two_to[QBits - z.shift], Octet)
    BY <2>2, <2>4 DEF e0
  <2>7. z.i # N
    BY <1>1, <1>2, <2>2
  <2>8. PackHolds(z, u) /\ Len(z.out) = n + 1
    BY <1>2, <1>6, <2>2, <2>3, <2>5, <2>6, <2>7 DEF PackHolds
  <2> QED
    BY <2>8 DEF z, n
<1>8. CASE ~(s > OctetBits)
  <2> DEFINE left == OctetBits - s  l == two_to[left]  v == y * l
  <2>1. z = [i |-> x.i + 1, shift |-> QBits - left, temp |-> v % Word, out |-> o]
    BY <1>1, <1>4, <1>8, PackOctetIs DEF o
  <2>2. z.i = x.i + 1 /\ z.shift = QBits - left /\ z.temp = v % Word /\ z.out = o
    BY <2>1
  <2> HIDE DEF z, e, e0, s, n, y, octet
  <2>3. QBits - left \in 0..QBits /\ left \in Nat /\ QBits - (QBits - left) = left /\ QBits - left >= QBits - OctetBits
    BY <1>1, <1>4, <1>8
  <2>4. l \in Nat /\ two_to[QBits] \in Nat
    BY <1>1, <2>3, TwoTo
  <2>5. v \in Int /\ y \in Nat
    <3> HIDE DEF l
    <3>1. y \in Nat
      BY <1>3, <2>4
    <3> QED
      BY <2>4, <3>1
  <2> HIDE DEF l
  <2>6. Congruent(v, High(u, e) * l, Octet)
    <3> DEFINE hi == High(u, e0)  hl == hi * l  big == hl * two_to[QBits]
    <3>1. hl \in Int /\ High(u, e) * l = big + v
      BY <1>3, <2>4, <2>5
    <3>2. Congruent(big, 0, Octet)
      <4> HIDE DEF hl
      <4> QED
        BY <1>1, <3>1, OctetMultiple
    <3>3. big \in Int
      <4> HIDE DEF hl
      <4> QED
        BY <2>4, <3>1
    <3> HIDE DEF big, v
    <3> DEFINE zero == 0
    <3>4. zero \in Int /\ Congruent(big, zero, Octet) /\ Congruent(v, v, Octet)
      BY <3>2, CongruentEquivalence
    <3> HIDE DEF zero
    <3>5. Congruent(big + v, zero + v, Octet)
      BY <1>1, <2>5, <3>3, <3>4, CongruentAdd
    <3>6. zero + v = v
      BY <2>5 DEF zero
    <3> QED
      BY <3>1, <3>5, <3>6, CongruentEquivalence
  <2>7. z.temp \in Int /\ Congruent(z.temp, v, Octet)
    <3> HIDE DEF v
    <3> QED
      BY <2>2, <2>5, WordOctet
  <2>8. Congruent(z.temp, High(u, Total - QBits * z.i) * two_to[QBits - z.shift], Octet)
    <3>1. Total - QBits * z.i = e /\ QBits - z.shift = left
      BY <2>2, <2>3 DEF e
    <3> QED
      BY <2>6, <2>7, <3>1, CongruentEquivalence DEF l
  <2>9. OctetBits * (Len(z.out) + 1) + z.shift = QBits * (z.i + 1)
    BY <1>6, <1>9, <2>2

  <2>10. PackHolds(z, u) /\ Len(z.out) = n + 1
    BY <1>4, <1>6, <2>2, <2>3, <2>7, <2>8, <2>9 DEF PackHolds
  <2> QED
    BY <2>10 DEF z, n
<1> QED
  BY <1>7, <1>8

(* What holds after each turn of packing; while elements are left, a turn  *)
(* puts an octet out.                                                      *)
LEMMA PackRun ==
  ASSUME NEW in \in [Index -> 0..(q - 1)], NEW u, Elements(u, in)
  PROVE  \A t \in Nat : /\ PackHolds(Packing(in)[t], u)
                        /\ Packing(in)[t].i < N => Len(Packing(in)[t].out) = t
<1> DEFINE f_ == Packing(in)
           S == {t \in Nat : PackHolds(f_[t], u) /\ (f_[t].i < N => Len(f_[t].out) = t)}
<1>1. in \in [Index -> Int]
  <2>1. q \in Nat
    BY Modulus
  <2> QED
    BY <2>1
<1>2. f_[0] = PackStart /\ \A t \in Nat : f_[t + 1] = PackTurn(in, f_[t])
  BY <1>1, PackingRuns
<1> HIDE DEF f_
<1>3. 0 \in S
  BY <1>2, PackStartHolds
<1>4. ASSUME NEW t \in Nat, t \in S PROVE t + 1 \in S
  <2> DEFINE x == f_[t]
  <2>1. PackHolds(x, u) /\ (x.i < N => Len(x.out) = t) /\ f_[t + 1] = PackTurn(in, x)
    BY <1>2, <1>4
  <2> HIDE DEF x
  <2>2. CASE x.i < N
    <3>1. f_[t + 1] = pack_octet(in, x)
      BY <2>1, <2>2 DEF PackTurn
    <3>2. PackHolds(pack_octet(in, x), u) /\ Len(pack_octet(in, x).out) = t + 1
      BY <2>1, <2>2, PackTurnHolds
    <3> QED
      BY <3>1, <3>2
  <2>3. CASE ~(x.i < N)
    BY <2>1, <2>3 DEF PackTurn
  <2> QED
    BY <2>2, <2>3
<1>5. \A t \in Nat : t \in S
  <2> HIDE DEF S
  <2> QED
    BY <1>3, <1>4, Induction
<1> QED
  BY <1>5 DEF f_

(* Twice as many turns as elements are enough.                             *)
LEMMA PackEnds ==
  ASSUME NEW in \in [Index -> 0..(q - 1)], NEW u, Elements(u, in)
  PROVE  PackHolds(Packing(in)[2 * N], u) /\ Packing(in)[2 * N].i = N
<1> DEFINE x == Packing(in)[2 * N]  n == Len(x.out)  j == x.i  t == 2 * N
<1>1. N \in Nat \ {0} /\ OctetBits \in Nat \ {0} /\ QBits \in Nat /\ QBits < 2 * OctetBits
  BY PackingSizes
<1>2. PackHolds(x, u) /\ (j < N => n = t)
  BY <1>1, PackRun
<1>3. j \in 0..N /\ x.shift \in 0..QBits /\ OctetBits * (n + 1) + x.shift = QBits * (j + 1)
  BY <1>2 DEF PackHolds
<1> HIDE DEF x, n, j
<1>4. SUFFICES ASSUME j < N PROVE FALSE
  BY <1>1, <1>2, <1>3 DEF x, j
<1>5. OctetBits * (2 * N + 1) + x.shift = QBits * (j + 1)
  BY <1>2, <1>3, <1>4
<1>6. QBits * (j + 1) <= QBits * N
  <2>1. j \in Nat /\ j + 1 <= N
    BY <1>1, <1>3, <1>4
  <2> QED
    BY <1>1, <2>1
<1>7. QBits * N <= (2 * OctetBits) * N
  BY <1>1
<1>8. (2 * OctetBits) * N = OctetBits * (2 * N) /\ OctetBits * (2 * N + 1) = OctetBits * (2 * N) + OctetBits
  BY <1>1
<1> DEFINE y == OctetBits * (2 * N)  z == QBits * (j + 1)  v == QBits * N
<1>9. y \in Int /\ z \in Int /\ v \in Int /\ z <= v /\ v <= y /\ (y + OctetBits) + x.shift = z
  BY <1>1, <1>3, <1>5, <1>6, <1>7, <1>8
<1> HIDE DEF y, z, v
<1> QED
  BY <1>1, <1>3, <1>9

(* Where the loop ends: with all the octets out, or all but the last.      *)
LEMMA LastOctet ==
  ASSUME NEW n \in Nat, NEW s \in 0..QBits, s >= QBits - OctetBits,
         OctetBits * (n + 1) + s = QBits * (N + 1)
  PROVE  /\ s = QBits - OctetBits => n = packpk /\ Spare = 0
         /\ s # QBits - OctetBits => n + 1 = packpk /\ QBits - s = Spare
<1> DEFINE r == s - (QBits - OctetBits)  k == packpk - n  ok == OctetBits * k
<1>1. OctetBits \in Nat \ {0} /\ QBits \in Nat /\ OctetBits < QBits /\ N \in Nat \ {0}
  BY PackingSizes
<1>2. packpk \in Nat /\ Spare \in Nat /\ Spare < OctetBits /\ OctetBits * packpk = QBits * N + Spare
  BY TotalIs DEF Total
<1>3. k \in Int /\ r \in 0..OctetBits /\ s \in Nat
  BY <1>1, <1>2
<1>4. ok = Spare + r
  <2>1. ok = OctetBits * packpk - OctetBits * n
    BY <1>1, <1>2
  <2>2. OctetBits * (n + 1) = OctetBits * n + OctetBits /\ QBits * (N + 1) = QBits * N + QBits
    BY <1>1
  <2> DEFINE x == OctetBits * packpk  y == OctetBits * n  z == QBits * N
  <2>3. x \in Int /\ y \in Int /\ z \in Int /\ ok = x - y /\ (y + OctetBits) + s = z + QBits /\ x = z + Spare
    BY <1>1, <1>2, <2>1, <2>2
  <2> HIDE DEF x, y, z, ok
  <2> QED
    BY <1>1, <1>2, <1>3, <2>3
<1>5. k \in {0, 1}
  <2>1. CASE k >= 2
    <3>1. ok >= OctetBits * 2
      BY <1>1, <1>3, <2>1
    <3> HIDE DEF ok, k
    <3> QED
      BY <1>1, <1>2, <1>3, <1>4, <3>1
  <2>2. CASE k <= -1
    <3>1. ok <= OctetBits * (-1)
      BY <1>1, <1>3, <2>2
    <3>2. OctetBits * (-1) = -OctetBits
      BY <1>1
    <3> HIDE DEF ok, k
    <3> QED
      BY <1>1, <1>2, <1>3, <1>4, <3>1, <3>2
  <2> HIDE DEF k
  <2> QED
    BY <1>3, <2>1, <2>2
<1>6. (k = 0 => ok = 0) /\ (k = 1 => ok = OctetBits)
  BY <1>1
<1> HIDE DEF ok
<1>7. (k = 0 => n = packpk) /\ (k = 1 => n + 1 = packpk)
  BY <1>2
<1> HIDE DEF k
<1> QED
  BY <1>1, <1>2, <1>3, <1>4, <1>5, <1>6, <1>7

(* The octets that packing puts out are those of the number.               *)
LEMMA PackedOctets ==
  ASSUME NEW in \in [Index -> 0..(q - 1)], NEW u, Elements(u, in)
  PROVE  /\ ntru_elements_2_octets(in) \in Seq(Int) /\ Len(ntru_elements_2_octets(in)) = packpk
         /\ \A k \in 1..packpk : ntru_elements_2_octets(in)[k] = OctetOf(u, k)
<1> DEFINE x == Packing(in)[2 * N]  n == Len(x.out)  s == x.shift  o == ntru_elements_2_octets(in)
<1>1. PackHolds(x, u) /\ x.i = N
  BY PackEnds
<1>2. o = IF s = QBits - OctetBits THEN x.out ELSE Append(x.out, x.temp % Octet)
  BY PackedIs
<1> HIDE DEF x, o
<1>3. OctetBits \in Nat \ {0} /\ QBits \in Nat /\ OctetBits < QBits /\ N \in Nat \ {0} /\ Octet \in Nat \ {0}
  BY PackingSizes
<1>4. packpk \in Nat /\ Spare \in Nat /\ Total = QBits * N + Spare /\ Total = OctetBits * packpk
  BY TotalIs DEF Total
<1>5. /\ s \in 0..QBits /\ x.temp \in Int /\ x.out \in Seq(Int) /\ n \in Nat
      /\ s >= QBits - OctetBits
      /\ OctetBits * (n + 1) + s = QBits * (N + 1)
      /\ Congruent(x.temp, High(u, Total - QBits * N) * two_to[QBits - s], Octet)
      /\ \A k \in 1..n : x.out[k] = OctetOf(u, k)
  BY <1>1, LenProperties DEF PackHolds
<1> HIDE DEF s, n
<1>6. /\ s = QBits - OctetBits => n = packpk /\ Spare = 0
      /\ s # QBits - OctetBits => n + 1 = packpk /\ QBits - s = Spare
  BY <1>5, LastOctet
<1>7. CASE s = QBits - OctetBits
  <2>1. o = x.out /\ n = packpk
    BY <1>2, <1>6, <1>7
  <2> QED
    BY <1>5, <2>1 DEF o, n
<1>8. CASE s # QBits - OctetBits
  <2> DEFINE last == x.temp % Octet
  <2>1. o = Append(x.out, last) /\ n + 1 = packpk /\ QBits - s = Spare
    BY <1>2, <1>6, <1>8
  <2>2. last \in Int
    <3> DEFINE z == x.temp
    <3> HIDE DEF z
    <3>1. z \in Int
      BY <1>5 DEF z
    <3>2. z % Octet \in 0..(Octet - 1)
      BY <1>3, <3>1, DivMod
    <3>3. z % Octet \in Int
      BY <1>3, <3>2
    <3> QED
      BY <3>3 DEF z
  <2>3. u = High(u, Spare) * two_to[Spare] /\ u \in Nat
    BY DEF Elements
  <2>4. last = OctetOf(u, packpk)
    <3>1. Total - QBits * N = Spare
      <4> DEFINE z == QBits * N
      <4>1. z \in Int /\ Total = z + Spare
        BY <1>3, <1>4
      <4> HIDE DEF z
      <4> QED
        BY <1>4, <4>1 DEF z
    <3>2. Congruent(x.temp, u, Octet)
      BY <1>5, <2>1, <2>3, <3>1
    <3>3. Total - OctetBits * packpk = 0 /\ High(u, 0) = u
      <4> DEFINE z == OctetBits * packpk
      <4>1. z \in Int /\ Total = z
        BY <1>3, <1>4
      <4> HIDE DEF z
      <4>2. Total - z = 0
        BY <4>1
      <4> QED
        BY <2>3, <4>2, HighZero DEF z
    <3> QED
      BY <3>2, <3>3 DEF OctetOf, Congruent
  <2> HIDE DEF last
  <2>5. o \in Seq(Int) /\ Len(o) = n + 1 /\ (\A k \in 1..n : o[k] = x.out[k]) /\ o[n + 1] = last
    BY <1>5, <2>1, <2>2, AppendProperties DEF n
  <2>6. ASSUME NEW k \in 1..packpk PROVE o[k] = OctetOf(u, k)
    <3>1. CASE k \in 1..n
      BY <1>5, <2>5, <3>1
    <3>2. CASE k = n + 1
      BY <2>1, <2>4, <2>5, <3>2
    <3>3. n \in Nat /\ n + 1 = packpk
      BY <1>5, <2>1
    <3>4. k \in 1..n \/ k = n + 1
      BY <3>3
    <3> QED
      BY <3>1, <3>2, <3>4
  <2> QED
    BY <2>1, <2>5, <2>6 DEF o

<1> QED
  BY <1>7, <1>8 DEF o

----------------------------------------------------------------------------
(***************************************************************************)
(* Unpacking: the octets of the number give its elements.                  *)
(***************************************************************************)

(* A higher power of two is a multiple of a lower one.                     *)
LEMMA TwoMultiple ==
  ASSUME NEW n_ \in Nat, NEW j \in Nat, j >= n_, NEW z \in Int
  PROVE  Congruent(z * two_to[j], 0, two_to[n_])
<1> DEFINE k == j - n_  A == two_to[k]  T == two_to[n_]
<1>1. k \in Nat /\ n_ + k = j
  OBVIOUS
<1>2. A \in Nat /\ T \in Nat \ {0}
  BY <1>1, TwoType
<1>3. two_to[n_ + k] = two_to[n_] * two_to[k]
  BY <1>1, TwoAdd
<1>4. two_to[j] = T * A
  BY <1>1, <1>3
<1> HIDE DEF A, T
<1> DEFINE w_ == z * A  v == z * two_to[j]  zero == 0
<1>5. w_ \in Int /\ v = T * w_
  BY <1>2, <1>4
<1>6. v \in Int /\ zero \in Int
  BY <1>2, <1>5
<1>7. v = zero + T * w_
  <2> DEFINE x == T * w_
  <2>1. x \in Int /\ v = x
    BY <1>5, <1>6
  <2> HIDE DEF v, x
  <2>2. v = zero + x
    BY <2>1
  <2> QED
    BY <2>2 DEF x
<1> HIDE DEF w_, v, zero
<1>8. Congruent(v, zero, T)
  BY <1>2, <1>5, <1>6, <1>7, CongruentMultiple
<1> QED
  BY <1>8 DEF v, zero, T

(* What stands in the word above an element does not show in the element.  *)
LEMMA WordElement ==
  ASSUME NEW z \in Int
  PROVE  z % Word \in Int /\ Congruent(z % Word, z, two_to[QBits])
<1> DEFINE c == z \div Word  r == z % Word  T == two_to[QBits]  v == (-c) * two_to[2 * OctetBits]  zero == 0
<1>1. OctetBits \in Nat \ {0} /\ QBits \in Nat /\ 2 * OctetBits \in Nat /\ 2 * OctetBits >= QBits
  BY PackingSizes
<1>2. Word \in Nat \ {0} /\ T \in Nat \ {0}
  BY <1>1, TwoType DEF Word
<1>3. z = Word * c + r /\ c \in Int /\ r \in Int
  BY <1>2, DivMod
<1> HIDE DEF c, r
<1>4. -c \in Int
  BY <1>3
<1>5. Congruent(v, zero, T)
  BY <1>1, <1>4, TwoMultiple
<1>6. v = Word * (-c) /\ v \in Int /\ r = v + z
  <2> DEFINE W == Word
  <2>1. v = (-c) * W /\ W \in Nat
    BY <1>2 DEF Word
  <2> HIDE DEF W, v
  <2>2. (-c) * W = W * (-c) /\ W * (-c) = -(W * c) /\ z = W * c + r
    BY <1>3, <2>1 DEF W
  <2> DEFINE wc == W * c
  <2>3. wc \in Int /\ v = -wc /\ z = wc + r
    BY <1>3, <2>1, <2>2
  <2> HIDE DEF wc
  <2>4. v \in Int /\ r = v + z
    BY <1>3, <2>3
  <2> QED
    BY <2>1, <2>2, <2>4 DEF W
<1> HIDE DEF v, T
<1>7. Congruent(z, z, T) /\ zero \in Int
  BY CongruentEquivalence
<1> HIDE DEF zero
<1>8. Congruent(v + z, zero + z, T)
  BY <1>2, <1>5, <1>6, <1>7, CongruentAdd
<1>9. zero + z = z
  BY DEF zero
<1> QED
  BY <1>3, <1>6, <1>8, <1>9 DEF r, T

(* The turns of the unpacking loop.                                        *)
UnpackState == [shift : 1..QBits, temp : Int, out : Seq(Int)]
UnpackStart == [shift |-> QBits, temp |-> 0, out |-> <<>>]
IsUnpacking(f, in) ==
  f = [t \in 0..packpk |-> IF t = 0 THEN UnpackStart ELSE unpack_octet(in[t], f[t - 1])]
Unpacking(in) == CHOOSE f : IsUnpacking(f, in)

(* Unpacking, in terms of its turns.                                       *)
LEMMA UnpackedIs ==
  ASSUME NEW in
  PROVE  ntru_octets_2_elements(in) = [i \in Index |-> Unpacking(in)[packpk].out[i + 1]]
  BY DEF ntru_octets_2_elements, Unpacking, IsUnpacking, UnpackStart

(* One turn of unpacking, the two cases apart.                             *)
LEMMA UnpackOctetIs ==
  ASSUME NEW c, NEW x, OctetBits \in Int, x.shift \in Int
  PROVE  LET rest == OctetBits - x.shift
         IN  unpack_octet(c, x) =
               IF x.shift > OctetBits
               THEN [shift |-> x.shift - OctetBits,
                     temp |-> x.temp + c * two_to[x.shift - OctetBits], out |-> x.out]
               ELSE [shift |-> QBits - rest, temp |-> (c * two_to[QBits - rest]) % Word,
                     out |-> Append(x.out, (x.temp + c \div two_to[rest]) % two_to[QBits])]
<1> DEFINE rest == OctetBits - x.shift
<1>1. rest < 0 <=> x.shift > OctetBits
  OBVIOUS
<1>2. -rest = x.shift - OctetBits
  OBVIOUS
<1> HIDE DEF rest
<1>3. CASE x.shift > OctetBits
  BY <1>1, <1>2, <1>3 DEF unpack_octet, rest
<1>4. CASE ~(x.shift > OctetBits)
  BY <1>1, <1>4 DEF unpack_octet, element, rest
<1> QED
  BY <1>3, <1>4

(* The type of what a turn of unpacking leaves.                            *)
LEMMA UnpackRecordType ==
  ASSUME NEW s \in 1..QBits, NEW t \in Int, NEW o \in Seq(Int)
  PROVE  [shift |-> s, temp |-> t, out |-> o] \in UnpackState
  BY DEF UnpackState

(* A turn of unpacking leaves a state of the loop.                         *)
LEMMA UnpackOctetType ==
  ASSUME NEW c \in Int, NEW x \in UnpackState
  PROVE  unpack_octet(c, x) \in UnpackState
<1>1. /\ OctetBits \in Nat \ {0} /\ QBits \in Nat /\ OctetBits < QBits /\ 2 * OctetBits \in Nat
  BY PackingSizes
<1>2. x.shift \in 1..QBits /\ x.temp \in Int /\ x.out \in Seq(Int)
  BY DEF UnpackState
<1>3. CASE x.shift > OctetBits
  <2> DEFINE A == two_to[x.shift - OctetBits]  ca == c * A  t == x.temp + ca
  <2>1. x.shift - OctetBits \in 1..QBits /\ x.shift - OctetBits \in Nat
    BY <1>1, <1>2, <1>3
  <2>2. A \in Nat
    BY <2>1, TwoType
  <2>3. ca \in Int
    <3> HIDE DEF A
    <3> QED
      BY <2>2
  <2>4. t \in Int
    <3> HIDE DEF ca
    <3> QED
      BY <1>2, <2>3
  <2>5. unpack_octet(c, x) = [shift |-> x.shift - OctetBits, temp |-> t, out |-> x.out]
    BY <1>1, <1>2, <1>3, UnpackOctetIs
  <2> HIDE DEF t
  <2> QED
    BY <1>2, <2>1, <2>4, <2>5, UnpackRecordType
<1>4. CASE ~(x.shift > OctetBits)
  <2> DEFINE rest == OctetBits - x.shift  A == two_to[QBits - rest]  y == c * A  t == y % Word
             B == two_to[rest]  b == c \div B  z == x.temp + b  Q == two_to[QBits]
             v == z % Q  o == Append(x.out, v)
  <2>1. rest \in Nat /\ QBits - rest \in Nat /\ QBits - rest \in 1..QBits
    BY <1>1, <1>2, <1>4
  <2>2. A \in Nat /\ B \in Nat \ {0} /\ Q \in Nat \ {0} /\ Word \in Nat \ {0}
    BY <1>1, <2>1, TwoType DEF Word
  <2>3. y \in Int
    <3> HIDE DEF A
    <3> QED
      BY <2>2
  <2>4. t \in Int
    <3> HIDE DEF y
    <3> QED
      BY <2>2, <2>3, DivMod
  <2>5. b \in Int
    <3> HIDE DEF B
    <3> QED
      BY <2>2, DivMod
  <2>6. z \in Int
    <3> HIDE DEF b
    <3> QED
      BY <1>2, <2>5
  <2>7. v \in Int
    <3> HIDE DEF z, Q
    <3> QED
      BY <2>2, <2>6, DivMod
  <2>8. o \in Seq(Int)
    <3> HIDE DEF v
    <3> QED
      BY <1>2, <2>7, AppendProperties
  <2>9. unpack_octet(c, x) = [shift |-> QBits - rest, temp |-> t, out |-> o]
    BY <1>1, <1>2, <1>4, UnpackOctetIs
  <2> HIDE DEF t, o, rest
  <2> QED
    BY <2>1, <2>4, <2>8, <2>9, UnpackRecordType
<1> QED
  BY <1>3, <1>4

(* So does its start.                                                      *)
LEMMA UnpackStartType == UnpackStart \in UnpackState
<1>1. QBits \in 1..QBits /\ 0 \in Int /\ <<>> \in Seq(Int)
  BY PackingSizes
<1> QED
  BY <1>1, UnpackRecordType DEF UnpackStart

(* Each turn of unpacking is made from the one before.                     *)
LEMMA UnpackingRuns ==
  ASSUME NEW in, \A k \in 1..packpk : in[k] \in Int
  PROVE  /\ Unpacking(in)[0] = UnpackStart
         /\ \A t \in 0..(packpk - 1) :
              Unpacking(in)[t + 1] = unpack_octet(in[t + 1], Unpacking(in)[t])
<1> DEFINE turn(t) == [x \in UnpackState |-> IF t < packpk THEN unpack_octet(in[t + 1], x) ELSE x]
           next == [t \in Nat |-> turn(t)]
<1>0. packpk \in Nat
  BY TotalIs
<1>1. ASSUME NEW t \in Nat PROVE turn(t) \in [UnpackState -> UnpackState]
  <2> SUFFICES ASSUME NEW x \in UnpackState, t < packpk PROVE unpack_octet(in[t + 1], x) \in UnpackState
    OBVIOUS
  <2>1. t + 1 \in 1..packpk
    BY <1>0
  <2>2. in[t + 1] \in Int
    BY <2>1
  <2> QED
    BY <2>2, UnpackOctetType
<1>2. next \in [Nat -> [UnpackState -> UnpackState]]
  <2> HIDE DEF turn
  <2> QED
    BY <1>1
<1>3. PICK f : IsIteration(f, UnpackState, UnpackStart, next)
  <2> HIDE DEF next
  <2> QED
    BY <1>2, UnpackStartType, Iteration
<1>4. /\ f \in [Nat -> UnpackState] /\ f[0] = UnpackStart
      /\ \A t \in Nat : t < packpk => f[t + 1] = unpack_octet(in[t + 1], f[t])
  <2>1. f \in [Nat -> UnpackState] /\ f[0] = UnpackStart /\ \A t \in Nat : f[t + 1] = turn(t)[f[t]]
    BY <1>3 DEF IsIteration
  <2>2. ASSUME NEW t \in Nat, t < packpk PROVE f[t + 1] = unpack_octet(in[t + 1], f[t])
    <3>1. f[t] \in UnpackState
      BY <2>1
    <3> QED
      BY <2>1, <2>2, <3>1
  <2> QED
    BY <2>1, <2>2
<1> DEFINE e == [t \in 0..packpk |-> f[t]]
<1>5. IsUnpacking(e, in)
  <2>1. ASSUME NEW t \in 0..packpk, t # 0 PROVE e[t] = unpack_octet(in[t], e[t - 1])
    <3>1. t - 1 \in Nat /\ (t - 1) + 1 = t /\ t - 1 < packpk /\ t - 1 \in 0..packpk
      BY <1>0, <2>1
    <3>2. f[(t - 1) + 1] = unpack_octet(in[(t - 1) + 1], f[t - 1])
      BY <1>4, <3>1
    <3> QED
      BY <3>1, <3>2
  <2>2. 0 \in 0..packpk /\ e[0] = UnpackStart
    BY <1>0, <1>4
  <2>3. \A t \in 0..packpk : e[t] = IF t = 0 THEN UnpackStart ELSE unpack_octet(in[t], e[t - 1])
    BY <2>1, <2>2
  <2>4. e = [t \in 0..packpk |-> e[t]]
    OBVIOUS
  <2> HIDE DEF e
  <2> QED
    BY <2>3, <2>4 DEF IsUnpacking
<1>6. IsUnpacking(Unpacking(in), in)
  BY <1>5 DEF Unpacking
<1> DEFINE g_ == Unpacking(in)
<1> HIDE DEF g_
<1>7. \A t \in 0..packpk : g_[t] = IF t = 0 THEN UnpackStart ELSE unpack_octet(in[t], g_[t - 1])
  BY <1>6 DEF IsUnpacking, g_
<1>8. ASSUME NEW t \in 0..(packpk - 1) PROVE g_[t + 1] = unpack_octet(in[t + 1], g_[t])
  <2>1. t + 1 \in 0..packpk /\ t + 1 # 0 /\ (t + 1) - 1 = t
    BY <1>0
  <2> QED
    BY <1>7, <2>1
<1>9. g_[0] = UnpackStart
  BY <1>0, <1>7
<1> QED
  BY <1>8, <1>9 DEF g_

(* What holds after t octets.                                              *)
UnpackHolds(x, u, t) ==
  /\ x.shift \in 1..QBits /\ x.temp \in Int /\ x.out \in Seq(Int)
  /\ OctetBits * t + x.shift = QBits * (Len(x.out) + 1)
  /\ Congruent(x.temp, High(u, Total - OctetBits * t) * two_to[x.shift], two_to[QBits])
  /\ \A k \in 1..Len(x.out) : x.out[k] = ElementOf(u, k - 1)

(* At the start no element is out.                                         *)
LEMMA UnpackStartHolds ==
  ASSUME NEW u \in Nat, High(u, Total) = 0
  PROVE  UnpackHolds(UnpackStart, u, 0)
<1>1. OctetBits \in Nat \ {0} /\ QBits \in Nat /\ QBits \in 1..QBits /\ Total \in Nat
  BY PackingSizes, TotalIs
<1> DEFINE x == UnpackStart
<1>2. x.shift = QBits /\ x.temp = 0 /\ x.out = <<>>
  BY DEF UnpackStart
<1>3. Len(<<>>) = 0 /\ <<>> \in Seq(Int)
  OBVIOUS
<1> HIDE DEF x
<1>4. Congruent(x.temp, High(u, Total - OctetBits * 0) * two_to[x.shift], two_to[QBits])
  <2>1. Total - OctetBits * 0 = Total
    BY <1>1
  <2>2. two_to[QBits] \in Nat
    BY <1>1, TwoType
  <2>3. High(u, Total - OctetBits * 0) * two_to[x.shift] = 0
    BY <1>2, <2>1, <2>2
  <2> QED
    BY <1>2, <2>3, CongruentEquivalence
<1>5. OctetBits * 0 + x.shift = QBits * (Len(x.out) + 1)
  BY <1>1, <1>2, <1>3
<1> QED
  BY <1>1, <1>2, <1>3, <1>4, <1>5 DEF UnpackHolds, x

(* The octet that a turn takes in, and the number up to it.                *)
LEMMA OctetIn ==
  ASSUME NEW u \in Nat, NEW t \in Nat, t < packpk
  PROVE  LET e == Total - OctetBits * (t + 1)
             c == OctetOf(u, t + 1)
         IN  /\ e \in Nat /\ Total - OctetBits * t = e + OctetBits
             /\ c \in 0..(Octet - 1) /\ c \in Nat
             /\ High(u, Total - OctetBits * t) \in Nat
             /\ High(u, e) = High(u, Total - OctetBits * t) * Octet + c
<1> DEFINE e == Total - OctetBits * (t + 1)  e0 == Total - OctetBits * t  c == OctetOf(u, t + 1)
<1>1. OctetBits \in Nat \ {0} /\ Octet \in Nat \ {0} /\ packpk \in Nat /\ Total = OctetBits * packpk
  BY PackingSizes, TotalIs DEF Total
<1>2. e \in Nat /\ e0 = e + OctetBits
  <2>1. OctetBits * (t + 1) <= OctetBits * packpk
    <3>1. t + 1 <= packpk /\ t + 1 \in Nat
      BY <1>1
    <3> QED
      BY <1>1, <3>1
  <2>2. OctetBits * (t + 1) = OctetBits * t + OctetBits
    BY <1>1
  <2> DEFINE x == OctetBits * t  y == OctetBits * packpk
  <2>3. x \in Nat /\ y \in Nat /\ x + OctetBits <= y /\ e = y - (x + OctetBits) /\ e0 = y - x
    BY <1>1, <2>1, <2>2
  <2> HIDE DEF x, y, e, e0
  <2> QED
    BY <1>1, <2>3
<1>3. c = High(u, e) % two_to[OctetBits]
  BY DEF OctetOf, Octet
<1> HIDE DEF e, e0, c
<1>4. /\ High(u, e) = High(u, e + OctetBits) * two_to[OctetBits] + (High(u, e) % two_to[OctetBits])
      /\ High(u, e) % two_to[OctetBits] \in 0..(two_to[OctetBits] - 1)
  BY <1>1, <1>2, HighSplit
<1>5. High(u, e + OctetBits) \in Nat
  <2>1. e + OctetBits \in Nat
    BY <1>1, <1>2
  <2> QED
    BY <2>1, HighAdd
<1>6. c \in 0..(Octet - 1) /\ High(u, e) = High(u, e0) * Octet + c /\ High(u, e0) \in Nat
  BY <1>2, <1>3, <1>4, <1>5 DEF Octet
<1>7. c \in Nat
  BY <1>1, <1>6
<1> QED
  BY <1>2, <1>6, <1>7 DEF e, e0, c

(* The element of which the octet has the last bits.                       *)
LEMMA ElementDone ==
  ASSUME NEW u \in Nat, NEW t \in Nat, t < packpk, NEW x, UnpackHolds(x, u, t),
         x.shift <= OctetBits
  PROVE  LET rest == OctetBits - x.shift
         IN  (x.temp + OctetOf(u, t + 1) \div two_to[rest]) % two_to[QBits]
               = ElementOf(u, Len(x.out))
<1> DEFINE e == Total - OctetBits * (t + 1)  e0 == Total - OctetBits * t  c == OctetOf(u, t + 1)
           s == x.shift  r == OctetBits - s  hi == High(u, e0)  A == two_to[s]  B == two_to[r]
           T == two_to[QBits]  n == Len(x.out)
<1>1. OctetBits \in Nat \ {0} /\ QBits \in Nat /\ Octet = two_to[OctetBits]
  BY PackingSizes DEF Octet
<1>2. /\ s \in 1..QBits /\ x.temp \in Int /\ n \in Nat
      /\ OctetBits * t + s = QBits * (n + 1)
      /\ Congruent(x.temp, hi * A, T)
  BY LenProperties DEF UnpackHolds
<1>3. /\ e \in Nat /\ e0 = e + OctetBits /\ c \in Nat /\ hi \in Nat
      /\ High(u, e) = hi * Octet + c
  BY OctetIn
<1>4. s \in Nat /\ r \in Nat /\ s + r = OctetBits
  BY <1>1, <1>2
<1> HIDE DEF e, e0, c, s, hi, n
<1>5. A \in Nat \ {0} /\ B \in Nat \ {0} /\ T \in Nat \ {0}
  BY <1>1, <1>4, TwoType
<1>6. Octet = A * B
  <2>1. two_to[s + r] = two_to[s] * two_to[r]
    BY <1>4, TwoAdd
  <2> QED
    BY <1>1, <1>4, <2>1
<1>7. High(u, e + r) = High(u, e) \div B
  <2>1. High(High(u, e), r) = High(u, e + r)
    BY <1>3, <1>4, HighAdd
  <2> QED
    BY <2>1 DEF High
<1>11. e + r = Total - QBits * (n + 1)
  <2>1. OctetBits * (t + 1) = OctetBits * t + OctetBits
    BY <1>1
  <2> DEFINE y == OctetBits * t  z == QBits * (n + 1)
  <2>2. y \in Int /\ z \in Int /\ Total \in Int /\ y + s = z /\ e = Total - (y + OctetBits)
    BY <1>1, <1>2, <2>1, TotalIs DEF e
  <2> HIDE DEF y, z, r
  <2>3. e + r = Total - z
    BY <1>1, <1>4, <2>2
  <2> QED
    BY <2>3 DEF z
<1> HIDE DEF A, B, T, r
<1>8. (hi * (A * B) + c) \div B = hi * A + c \div B
  BY <1>3, <1>5, QuotientOfSum
<1>9. High(u, e + r) = hi * A + c \div B
  BY <1>3, <1>6, <1>7, <1>8
<1>10. (x.temp + c \div B) % T = High(u, e + r) % T
  <2> DEFINE b == c \div B  ha == hi * A
  <2>1. b \in Int /\ ha \in Int
    BY <1>3, <1>5, QuotientNat
  <2>2. Congruent(x.temp, ha, T) /\ High(u, e + r) = ha + b
    BY <1>2, <1>9
  <2> HIDE DEF b, ha
  <2>3. Congruent(b, b, T)
    BY CongruentEquivalence
  <2>4. Congruent(x.temp + b, ha + b, T)
    BY <1>2, <1>5, <2>1, <2>2, <2>3, CongruentAdd
  <2> QED
    BY <2>2, <2>4 DEF Congruent, b
<1>12. (x.temp + c \div B) % T = ElementOf(u, n)
  BY <1>10, <1>11 DEF ElementOf, T
<1> QED
  BY <1>12 DEF c, B, T, r, s, n

(* A turn of unpacking takes the next octet in, and puts an element out    *)
(* when it has the last of its bits.                                       *)
LEMMA UnpackTurnHolds ==
  ASSUME NEW u \in Nat, NEW t \in Nat, t < packpk, NEW x, UnpackHolds(x, u, t)
  PROVE  UnpackHolds(unpack_octet(OctetOf(u, t + 1), x), u, t + 1)
<1> DEFINE e == Total - OctetBits * (t + 1)  e0 == Total - OctetBits * t  c == OctetOf(u, t + 1)
           s == x.shift  hi == High(u, e0)  low == High(u, e)  T == two_to[QBits]  n == Len(x.out)
           z == unpack_octet(c, x)
<1>1. OctetBits \in Nat \ {0} /\ QBits \in Nat /\ OctetBits < QBits /\ Octet = two_to[OctetBits] /\ Octet \in Nat
  BY PackingSizes DEF Octet
<1>2. /\ s \in 1..QBits /\ x.temp \in Int /\ n \in Nat /\ x.out \in Seq(Int)
      /\ OctetBits * t + s = QBits * (n + 1)
      /\ Congruent(x.temp, hi * two_to[s], T)
      /\ \A k \in 1..n : x.out[k] = ElementOf(u, k - 1)
  BY LenProperties DEF UnpackHolds
<1>3. c \in Nat /\ hi \in Nat /\ low = hi * Octet + c
  BY OctetIn
<1>4. OctetBits * (t + 1) = OctetBits * t + OctetBits
  BY <1>1
<1>5. T \in Nat \ {0}
  BY <1>1, TwoType
<1>6. s \in Nat
  BY <1>1, <1>2
<1>7. CASE s > OctetBits
  <2> DEFINE j == s - OctetBits  A == two_to[j]  ca == c * A  ha == hi * two_to[s]
  <2>1. z = [shift |-> j, temp |-> x.temp + ca, out |-> x.out]
    <3>1. OctetBits \in Int /\ x.shift \in Int /\ x.shift > OctetBits
      BY <1>1, <1>6, <1>7
    <3> QED
      BY <3>1, UnpackOctetIs
  <2>2. z.shift = j /\ z.temp = x.temp + ca /\ z.out = x.out
    BY <2>1
  <2>3. j \in 1..QBits /\ j \in Nat /\ OctetBits + j = s
    <3>1. s <= QBits
      BY <1>2
    <3>2. OctetBits \in Nat \ {0} /\ QBits \in Nat
      BY <1>1
    <3> HIDE DEF s
    <3> QED
      BY <1>6, <1>7, <3>1, <3>2
  <2> HIDE DEF z, e, e0, s, n, c, hi, low, T, j
  <2>4. A \in Nat /\ two_to[s] \in Nat
    BY <1>6, <2>3, TwoType
  <2>5. two_to[OctetBits + j] = two_to[OctetBits] * two_to[j]
    BY <1>1, <2>3, TwoAdd
  <2>6. low * A = ha + ca
    <3>1. two_to[s] = Octet * A
      BY <1>1, <2>3, <2>5
    <3>2. (hi * Octet + c) * A = hi * (Octet * A) + c * A
      <4> HIDE DEF A
      <4> QED
        BY <1>1, <1>3, <2>4
    <3> QED
      BY <1>3, <3>1, <3>2
  <2>7. ca \in Int /\ ha \in Int
    <3> HIDE DEF A
    <3> QED
      BY <1>3, <2>4
  <2> HIDE DEF ca, ha
  <2>8. Congruent(x.temp + ca, ha + ca, T) /\ x.temp + ca \in Int
    <3>1. Congruent(ca, ca, T) /\ Congruent(x.temp, ha, T)
      BY <1>2, CongruentEquivalence DEF ha
    <3>2. Congruent(x.temp + ca, ha + ca, T)
      BY <1>2, <1>5, <2>7, <3>1, CongruentAdd
    <3>3. x.temp + ca \in Int
      <4> DEFINE y == x.temp
      <4>1. y \in Int
        BY <1>2
      <4> HIDE DEF y
      <4> QED
        BY <2>7, <4>1 DEF y
    <3> QED
      BY <3>2, <3>3
  <2>9. Congruent(z.temp, High(u, Total - OctetBits * (t + 1)) * two_to[z.shift], T) /\ z.temp \in Int
    BY <2>2, <2>6, <2>8 DEF e, low
  <2>10. OctetBits * (t + 1) + z.shift = QBits * (Len(z.out) + 1)
    <3> DEFINE ob == OctetBits * t  qb == QBits * (n + 1)
    <3>1. ob \in Int /\ ob + s = qb /\ OctetBits * (t + 1) = ob + OctetBits /\ z.shift = s - OctetBits
      BY <1>1, <1>2, <1>4, <2>2 DEF j
    <3> HIDE DEF ob, qb
    <3>2. OctetBits * (t + 1) + z.shift = qb
      BY <1>1, <1>6, <3>1
    <3> QED
      BY <2>2, <3>2 DEF qb, n
  <2>11. UnpackHolds(z, u, t + 1)
    BY <1>2, <2>2, <2>3, <2>9, <2>10 DEF UnpackHolds, n, T
  <2> QED
    BY <2>11 DEF z, c
<1>8. CASE ~(s > OctetBits)
  <2> DEFINE r == OctetBits - s  j == QBits - r  A == two_to[j]  ca == c * A
             v == (x.temp + c \div two_to[r]) % T  o == Append(x.out, v)
  <2>1. z = [shift |-> j, temp |-> ca % Word, out |-> o]
    <3>1. OctetBits \in Int /\ x.shift \in Int /\ ~(x.shift > OctetBits)
      BY <1>1, <1>6, <1>8
    <3> HIDE DEF c
    <3> QED
      BY <3>1, UnpackOctetIs
  <2>2. z.shift = j /\ z.temp = ca % Word /\ z.out = o
    BY <2>1
  <2>3. j \in 1..QBits /\ j \in Nat /\ r \in Nat /\ OctetBits + j >= QBits /\ OctetBits + j \in Nat
        /\ j = QBits - OctetBits + s
    <3>1. s \in 1..QBits
      BY <1>2
    <3> HIDE DEF s
    <3> QED
      BY <1>1, <1>6, <1>8, <3>1

  <2>4. v = ElementOf(u, n)
    BY <1>1, <1>6, <1>8, ElementDone
  <2>5. v \in Int
    <3> DEFINE hh == High(u, Total - QBits * (n + 1))
    <3>1. c \div two_to[r] \in Nat
      <4>1. two_to[r] \in Nat \ {0}
        BY <2>3, TwoType
      <4> HIDE DEF c
      <4> QED
        BY <1>3, <4>1, QuotientNat
    <3> DEFINE b == c \div two_to[r]  y == x.temp + b
    <3>2. y \in Int
      <4> HIDE DEF b
      <4> QED
        BY <1>2, <3>1 DEF b
    <3> HIDE DEF y, T
    <3>3. y % T \in 0..(T - 1)
      BY <1>5, <3>2, DivMod
    <3>4. y % T \in Int
      BY <1>5, <3>3
    <3> QED
      BY <3>4 DEF y
  <2> HIDE DEF v
  <2>6. o \in Seq(Int) /\ Len(o) = n + 1 /\ (\A k \in 1..n : o[k] = x.out[k]) /\ o[n + 1] = v
    BY <1>2, <2>5, AppendProperties
  <2> HIDE DEF z, e, e0, s, n, c, hi, low, T, j, o, r
  <2>7. ASSUME NEW k \in 1..(n + 1) PROVE o[k] = ElementOf(u, k - 1)
    <3>1. CASE k \in 1..n
      BY <1>2, <2>6, <3>1
    <3>2. CASE k = n + 1
      <4>1. k - 1 = n
        BY <1>2, <3>2
      <4> QED
        BY <2>4, <2>6, <3>2, <4>1
    <3>3. k \in 1..n \/ k = n + 1
      BY <1>2
    <3> QED
      BY <3>1, <3>2, <3>3
  <2>8. A \in Nat /\ two_to[OctetBits + j] = Octet * A
    <3>1. two_to[OctetBits + j] = two_to[OctetBits] * two_to[j]
      BY <1>1, <2>3, TwoAdd
    <3>2. two_to[j] \in Nat
      BY <2>3, TwoType
    <3> QED
      BY <1>1, <3>1, <3>2
  <2> DEFINE big == hi * two_to[OctetBits + j]  zero == 0
  <2>9. low * A = big + ca /\ ca \in Int /\ big \in Int
    <3>1. (hi * Octet + c) * A = hi * (Octet * A) + c * A
      <4> HIDE DEF A
      <4> QED
        BY <1>1, <1>3, <2>8
    <3>2. ca \in Int /\ hi * (Octet * A) \in Int
      <4> HIDE DEF A
      <4> QED
        BY <1>1, <1>3, <2>8
    <3> QED
      BY <1>3, <2>8, <3>1, <3>2
  <2>10. Congruent(big, zero, T)
    BY <1>1, <1>3, <2>3, TwoMultiple DEF T
  <2> HIDE DEF big, ca, zero
  <2>11. Congruent(ca, low * A, T)
    <3>1. Congruent(ca, ca, T) /\ zero \in Int /\ zero + ca = ca
      BY <2>9, CongruentEquivalence DEF zero
    <3>2. Congruent(big + ca, zero + ca, T)
      BY <1>5, <2>9, <2>10, <3>1, CongruentAdd
    <3> QED
      BY <2>9, <3>1, <3>2, CongruentEquivalence
  <2>12. z.temp \in Int /\ Congruent(z.temp, ca, T)
    BY <2>2, <2>9, WordElement DEF T
  <2>13. Congruent(z.temp, High(u, Total - OctetBits * (t + 1)) * two_to[z.shift], T)
    <3>1. Congruent(z.temp, low * A, T)
      BY <2>11, <2>12, CongruentEquivalence
    <3> QED
      BY <2>2, <3>1 DEF low, e
  <2>14. OctetBits * (t + 1) + z.shift = QBits * (Len(z.out) + 1)
    <3>1. QBits * ((n + 1) + 1) = QBits * (n + 1) + QBits
      BY <1>1, <1>2
    <3> DEFINE ob == OctetBits * t  qb == QBits * (n + 1)
    <3>2. ob \in Int /\ ob + s = qb /\ OctetBits * (t + 1) = ob + OctetBits
          /\ z.shift = QBits - OctetBits + s /\ QBits * (Len(z.out) + 1) = qb + QBits
      BY <1>1, <1>2, <1>4, <2>2, <2>3, <2>6, <3>1
    <3> HIDE DEF ob, qb
    <3>3. ob + OctetBits + (QBits - OctetBits + s) = qb + QBits
      BY <1>1, <1>6, <3>2
    <3> QED
      BY <3>2, <3>3
  <2>15. UnpackHolds(z, u, t + 1)
    BY <2>2, <2>3, <2>6, <2>7, <2>12, <2>13, <2>14 DEF UnpackHolds, T
  <2> QED
    BY <2>15 DEF z, c
<1> QED
  BY <1>7, <1>8

(* What holds after all the octets.                                        *)
LEMMA UnpackRun ==
  ASSUME NEW u \in Nat, High(u, Total) = 0, NEW in, \A k \in 1..packpk : in[k] = OctetOf(u, k)
  PROVE  UnpackHolds(Unpacking(in)[packpk], u, packpk)
<1> DEFINE f_ == Unpacking(in)
           S == {t \in Nat : t <= packpk => UnpackHolds(f_[t], u, t)}
<1>0. packpk \in Nat
  BY TotalIs
<1>1. \A k \in 1..packpk : in[k] \in Int
  <2> SUFFICES ASSUME NEW k \in 1..packpk PROVE OctetOf(u, k) \in Int
    OBVIOUS
  <2>1. k - 1 \in Nat /\ k - 1 < packpk /\ (k - 1) + 1 = k
    BY <1>0
  <2>2. OctetOf(u, (k - 1) + 1) \in Nat
    BY <2>1, OctetIn
  <2> QED
    BY <2>1, <2>2
<1>2. f_[0] = UnpackStart /\ \A t \in 0..(packpk - 1) : f_[t + 1] = unpack_octet(in[t + 1], f_[t])
  BY <1>1, UnpackingRuns
<1> HIDE DEF f_
<1>3. 0 \in S
  BY <1>2, UnpackStartHolds
<1>4. ASSUME NEW t \in Nat, t \in S PROVE t + 1 \in S
  <2> SUFFICES ASSUME t + 1 <= packpk PROVE UnpackHolds(f_[t + 1], u, t + 1)
    OBVIOUS
  <2>1. t < packpk /\ t \in 0..(packpk - 1) /\ t + 1 \in 1..packpk
    BY <1>0
  <2>2. UnpackHolds(f_[t], u, t) /\ f_[t + 1] = unpack_octet(OctetOf(u, t + 1), f_[t])
    BY <1>0, <1>2, <1>4, <2>1
  <2> QED
    BY <2>1, <2>2, UnpackTurnHolds
<1>5. \A t \in Nat : t \in S
  <2> HIDE DEF S
  <2> QED
    BY <1>3, <1>4, Induction
<1> QED
  BY <1>0, <1>5 DEF f_

(* Unpacking the octets of a number yields its elements.                   *)
LEMMA UnpackedElements ==
  ASSUME NEW u \in Nat, High(u, Total) = 0, NEW in, \A k \in 1..packpk : in[k] = OctetOf(u, k)
  PROVE  ntru_octets_2_elements(in) = [i \in Index |-> ElementOf(u, i)]
<1> DEFINE x == Unpacking(in)[packpk]  n == Len(x.out)  s == x.shift
<1>1. UnpackHolds(x, u, packpk)
  BY UnpackRun
<1>2. ntru_octets_2_elements(in) = [i \in Index |-> x.out[i + 1]]
  BY UnpackedIs
<1> HIDE DEF x
<1>3. /\ s \in 1..QBits /\ n \in Nat
      /\ OctetBits * packpk + s = QBits * (n + 1)
      /\ \A k \in 1..n : x.out[k] = ElementOf(u, k - 1)
  BY <1>1, LenProperties DEF UnpackHolds
<1> HIDE DEF s, n
<1>4. OctetBits \in Nat \ {0} /\ QBits \in Nat \ {0} /\ OctetBits < QBits /\ N \in Nat \ {0} /\ Index = Places(N)
  BY PackingSizes
<1>5. packpk \in Nat /\ Spare \in Nat /\ Spare < OctetBits /\ OctetBits * packpk = QBits * N + Spare
  BY TotalIs DEF Total
<1>6. n = N
  <2> DEFINE k == n - N  qk == QBits * k
  <2>1. qk = Spare + s - QBits
    <3>1. qk = QBits * n - QBits * N /\ QBits * (n + 1) = QBits * n + QBits
      BY <1>3, <1>4
    <3> DEFINE qn == QBits * n  qN == QBits * N  ob == OctetBits * packpk
    <3>2. qn \in Int /\ qN \in Int /\ qk = qn - qN /\ ob + s = qn + QBits /\ ob = qN + Spare /\ ob \in Int
      BY <1>3, <1>4, <1>5, <3>1
    <3> HIDE DEF qn, qN, ob, qk
    <3> QED
      BY <1>3, <1>4, <1>5, <3>2
  <2>2. k \in Int /\ -QBits < qk /\ qk < QBits
    <3> HIDE DEF qk
    <3> QED
      BY <1>3, <1>4, <1>5, <2>1
  <2> HIDE DEF k
  <2>3. k = 0
    BY <1>4, <2>2, SmallMultiple
  <2> QED
    BY <1>3, <1>4, <2>3 DEF k
<1>7. \A i \in Index : x.out[i + 1] = ElementOf(u, i)
  <2> SUFFICES ASSUME NEW i \in Index PROVE x.out[i + 1] = ElementOf(u, i)
    OBVIOUS
  <2>1. i + 1 \in 1..n /\ (i + 1) - 1 = i
    BY <1>4, <1>6 DEF Places
  <2> QED
    BY <1>3, <2>1
<1> QED
  BY <1>2, <1>7

(* Packing and unpacking the elements of the ring gives them back.         *)
LEMMA PackUnpack ==
  ASSUME NEW in \in [Index -> 0..(q - 1)]
  PROVE  unpack_public_key(pack_public_key(in)) = in
<1>1. PICK u : Elements(u, in)
  BY ElementsExist
<1>2. /\ u \in Nat /\ High(u, Total) = 0 /\ \A i \in Index : in[i] = ElementOf(u, i)
      /\ \A k \in 1..packpk : ntru_elements_2_octets(in)[k] = OctetOf(u, k)
  BY <1>1, PackedOctets DEF Elements
<1>3. ntru_octets_2_elements(ntru_elements_2_octets(in)) = [i \in Index |-> ElementOf(u, i)]
  BY <1>2, UnpackedElements
<1>4. in = [i \in Index |-> in[i]]
  OBVIOUS
<1> QED
  BY <1>2, <1>3, <1>4 DEF unpack_public_key, pack_public_key

----------------------------------------------------------------------------
(***************************************************************************)
(* The secret key: five trits in an octet, as digits of base 3.            *)
(***************************************************************************)

(* The powers of three are the weights of base 3.                          *)
LEMMA ThreeWeights == IsWeights(three_to, 3)
<1> DEFINE next == [k \in Nat |-> [v \in Nat |-> 3 * v]]
           powers(f) == [k \in Nat |-> IF k = 0 THEN 1 ELSE 3 * f[k - 1]]
<1>1. PICK f : IsIteration(f, Nat, 1, next)
  <2>1. 1 \in Nat /\ next \in [Nat -> [Nat -> Nat]]
    OBVIOUS
  <2> HIDE DEF next
  <2> QED
    BY <2>1, Iteration
<1>2. f \in [Nat -> Nat] /\ f[0] = 1 /\ \A k \in Nat : f[k + 1] = 3 * f[k]
  BY <1>1 DEF IsIteration
<1>3. f = powers(f)
  <2>1. ASSUME NEW k \in Nat PROVE f[k] = powers(f)[k]
    <3>1. CASE k = 0
      BY <1>2, <3>1
    <3>2. CASE k # 0
      <4>1. k - 1 \in Nat /\ (k - 1) + 1 = k
        BY <3>2
      <4>2. f[(k - 1) + 1] = 3 * f[k - 1]
        BY <1>2, <4>1
      <4> QED
        BY <3>2, <4>1, <4>2
    <3> QED
      BY <3>1, <3>2
  <2> QED
    BY <1>2, <2>1
<1> DEFINE th == CHOOSE hh : hh = powers(hh)
<1>4. th = powers(th)
  <2> HIDE DEF powers
  <2> QED
    BY <1>3
<1>5. three_to = th
  BY DEF three_to
<1> HIDE DEF th
<1>6. \A k \in Nat : three_to[k] = IF k = 0 THEN 1 ELSE 3 * three_to[k - 1]
  BY <1>4, <1>5
<1> DEFINE S == {k \in Nat : three_to[k] \in Nat \ {0}}
<1>7. ASSUME NEW k \in Nat PROVE three_to[k + 1] = 3 * three_to[k]
  <2>1. k + 1 # 0 /\ (k + 1) - 1 = k /\ k + 1 \in Nat
    OBVIOUS
  <2> QED
    BY <1>6, <2>1
<1>8. \A k \in Nat : k \in S
  <2>1. 0 \in S
    BY <1>6
  <2>2. ASSUME NEW k \in Nat, k \in S PROVE k + 1 \in S
    BY <1>7, <2>2
  <2> HIDE DEF S
  <2> QED
    BY <2>1, <2>2, Induction
<1> QED
  BY <1>6, <1>7, <1>8 DEF IsWeights

(* The coefficients that tri_to_string packs.                              *)
PackedCoeff(f_, beyond, i) ==
  CASE i < N -> f_[i]
    [] i > N /\ (i % Trits) # Trits - 1 -> 0
    [] OTHER -> beyond[i]

(* Which coefficient it is.                                                *)
LEMMA CoeffOf ==
  ASSUME NEW f_, NEW beyond, NEW i \in Nat
  PROVE  /\ i < N => PackedCoeff(f_, beyond, i) = f_[i]
         /\ ~(i < N) => PackedCoeff(f_, beyond, i) \in {0, beyond[i]}
<1>1. N \in Nat
  BY PackingSizes
<1>2. ~(i < N /\ i > N)
  BY <1>1
<1> DEFINE odd == (i % Trits) # Trits - 1
<1> HIDE DEF odd
<1>3. PackedCoeff(f_, beyond, i) = CASE i < N -> f_[i] [] i > N /\ odd -> 0 [] OTHER -> beyond[i]
  BY DEF PackedCoeff, odd
<1>4. CASE i < N
  BY <1>2, <1>3, <1>4
<1>5. CASE ~(i < N) /\ (i > N /\ odd)
  BY <1>2, <1>3, <1>5
<1>6. CASE ~(i < N) /\ ~(i > N /\ odd)
  BY <1>2, <1>3, <1>6
<1> QED
  BY <1>4, <1>5, <1>6

TritTerms(f_, beyond, k) ==
  [j \in Places(Trits) |->
     digit(PackedCoeff(f_, beyond, k * Trits + j)) * three_to[Trits - 1 - j]]

(* The octets of the secret key as sums of digits of base 3.               *)
LEMMA TritOctets ==
  ASSUME NEW f_, NEW beyond
  PROVE  tri_to_string(f_, beyond)
           = [k \in 1..packsk |-> Sum(TritTerms(f_, beyond, k - 1), Places(Trits))]
<1>1. \A k : DOMAIN TritTerms(f_, beyond, k) = Places(Trits)
  BY DEF TritTerms
<1>2. \A ff : SumFunction(ff) = Sum(ff, DOMAIN ff)
  BY DEF SumFunction, Sum
<1>3. tri_to_string(f_, beyond) = [k \in 1..packsk |-> SumFunction(TritTerms(f_, beyond, k - 1))]
  BY DEF tri_to_string, TritTerms, PackedCoeff, Places
<1> QED
  BY <1>1, <1>2, <1>3

(* The octets hold all coefficients.                                       *)
LEMMA TritPlaces ==
  /\ Trits \in Nat \ {0} /\ packsk \in Nat
  /\ \A i \in Index : /\ i \div Trits \in 0..(packsk - 1) /\ i % Trits \in Places(Trits)
                      /\ (i \div Trits) * Trits + (i % Trits) = i
<1>1. Trits \in Nat \ {0} /\ N \in Nat \ {0} /\ Index = Places(N)
  BY PackingSizes, PackingAssumption
<1> DEFINE x == N + Trits - 1  b == x \div Trits  r == x % Trits
<1>2. x \in Nat /\ x \in Int
  BY <1>1
<1>3. packsk = b
  BY DEF packsk
<1>4. b \in Nat /\ x = Trits * b + r /\ r \in 0..(Trits - 1)
  <2> HIDE DEF x
  <2> QED
    BY <1>1, <1>2, DivMod, QuotientNat
<1> HIDE DEF b, r
<1>5. ASSUME NEW i \in Index
      PROVE  /\ i \div Trits \in 0..(packsk - 1) /\ i % Trits \in Places(Trits)
             /\ (i \div Trits) * Trits + (i % Trits) = i
  <2> DEFINE c == i \div Trits  s == i % Trits
  <2>1. i \in Nat /\ i \in Int /\ i < N
    BY <1>1 DEF Places
  <2>2. c \in Nat /\ i = Trits * c + s /\ s \in 0..(Trits - 1)
    BY <1>1, <2>1, DivMod, QuotientNat
  <2> HIDE DEF c, s
  <2>3. c < b
    <3> SUFFICES ASSUME b <= c PROVE FALSE
      BY <1>4, <2>2
    <3>1. Trits * b <= Trits * c
      BY <1>1, <1>4, <2>2
    <3> DEFINE tb == Trits * b  tc == Trits * c
    <3>2. tb \in Nat /\ tc \in Nat /\ tb <= tc /\ i = tc + s /\ N + Trits - 1 = tb + r
      BY <1>1, <1>4, <2>2, <3>1
    <3> HIDE DEF tb, tc
    <3> QED
      BY <1>1, <1>4, <2>1, <2>2, <3>2
  <2>4. c * Trits + s = i
    BY <1>1, <2>2
  <2>5. c \in 0..(packsk - 1) /\ s \in Places(Trits)
    BY <1>3, <1>4, <2>2, <2>3 DEF Places
  <2> QED
    BY <2>4, <2>5 DEF c, s
<1> QED
  BY <1>1, <1>3, <1>4, <1>5

(* The digits of such an octet are those it was made of.                   *)
LEMMA TritDigits ==
  ASSUME NEW f_ \in [Index -> {-1, 0, 1}], NEW beyond \in BeyondN, NEW k \in 0..(packsk - 1)
  PROVE  \A j \in Places(Trits) :
           /\ digit(PackedCoeff(f_, beyond, k * Trits + j)) \in 0..2
           /\ (Sum(TritTerms(f_, beyond, k), Places(Trits)) \div three_to[Trits - 1 - j]) % 3
                = digit(PackedCoeff(f_, beyond, k * Trits + j))
<1>1. Trits \in Nat \ {0} /\ N \in Nat \ {0} /\ Index = Places(N) /\ packsk \in Nat
  BY PackingSizes, TritPlaces
<1> DEFINE co(j) == PackedCoeff(f_, beyond, k * Trits + j)
           ds == [j \in Places(Trits) |-> digit(co(j))]
<1>2. ASSUME NEW j \in Places(Trits) PROVE co(j) \in Int
  <2> DEFINE i == k * Trits + j
  <2>1. j \in Nat /\ j <= Trits - 1 /\ k \in Nat /\ k <= packsk - 1
    BY <1>1 DEF Places
  <2>2. i \in Nat /\ i <= packsk * Trits - 1
    <3>1. k * Trits <= (packsk - 1) * Trits /\ (packsk - 1) * Trits = packsk * Trits - Trits
          /\ k * Trits \in Nat /\ packsk * Trits \in Nat
      BY <1>1, <2>1
    <3> DEFINE kt == k * Trits  pt == packsk * Trits
    <3>2. kt \in Nat /\ pt \in Nat /\ kt <= pt - Trits
      BY <3>1
    <3> HIDE DEF kt, pt
    <3>3. kt + j \in Nat /\ kt + j <= pt - 1
      BY <1>1, <2>1, <3>2
    <3> QED
      BY <3>3 DEF kt, pt
  <2>3. packsk * Trits - 1 \in Int
    BY <1>1
  <2> HIDE DEF i
  <2>4. CASE i < N
    <3>1. PackedCoeff(f_, beyond, i) = f_[i] /\ i \in Index
      BY <1>1, <2>2, <2>4, CoeffOf DEF Places
    <3> QED
      BY <3>1 DEF i
  <2>5. CASE ~(i < N)
    <3>1. i \in N..(packsk * Trits - 1)
      BY <1>1, <2>2, <2>3, <2>5
    <3>2. beyond[i] \in 0..2
      BY <3>1 DEF BeyondN
    <3>3. PackedCoeff(f_, beyond, i) \in {0, beyond[i]}
      BY <2>2, <2>5, CoeffOf
    <3> QED
      BY <3>2, <3>3 DEF i
  <2> QED
    BY <2>4, <2>5
<1> HIDE DEF co
<1>3. \A j \in Places(Trits) : digit(co(j)) \in 0..2
  BY <1>2 DEF digit
<1>4. ds \in [Places(Trits) -> 0..(3 - 1)]
  BY <1>3
<1> HIDE DEF ds
<1> DEFINE h_ == TritTerms(f_, beyond, k)
<1>5. \A j \in Places(Trits) : h_[j] = ds[j] * three_to[Trits - 1 - j]
  BY DEF TritTerms, ds, co
<1> HIDE DEF h_
<1>6. \A j \in Places(Trits) : (Sum(h_, Places(Trits)) \div three_to[Trits - 1 - j]) % 3 = ds[j]
  <2>1. Trits \in Nat /\ 3 \in Nat \ {0}
    BY <1>1
  <2> QED
    BY <1>4, <1>5, <2>1, ThreeWeights, DigitsOfSum
<1> QED
  BY <1>3, <1>6 DEF ds, co, h_

(* The secret key comes back from its octets, whatever lay beyond it.      *)
LEMMA TritsBack ==
  ASSUME NEW f_ \in [Index -> {-1, 0, 1}], NEW beyond \in BeyondN,
         NEW in, \A k \in 1..packsk : in[k] = tri_to_string(f_, beyond)[k]
  PROVE  string_to_tri(in) = f_
<1>1. ASSUME NEW i \in Index
      PROVE  trit((in[i \div Trits + 1] \div three_to[Trits - 1 - (i % Trits)]) % 3) = f_[i]
  <2> DEFINE k == i \div Trits  j == i % Trits
  <2>1. k \in 0..(packsk - 1) /\ j \in Places(Trits) /\ k * Trits + j = i /\ packsk \in Nat
    BY TritPlaces
  <2> HIDE DEF k, j
  <2>2. k + 1 \in 1..packsk /\ (k + 1) - 1 = k
    BY <2>1
  <2>3. in[k + 1] = Sum(TritTerms(f_, beyond, k), Places(Trits))
    <3>1. in[k + 1] = tri_to_string(f_, beyond)[k + 1]
      BY <2>2
    <3> QED
      BY <2>2, <3>1, TritOctets
  <2>4. (in[k + 1] \div three_to[Trits - 1 - j]) % 3 = digit(PackedCoeff(f_, beyond, i))
    BY <2>1, <2>3, TritDigits
  <2>5. PackedCoeff(f_, beyond, i) = f_[i]
    <3>1. i \in Nat /\ i < N
      BY PackingSizes DEF Places
    <3> QED
      BY <3>1, CoeffOf
  <2>6. trit(digit(f_[i])) = f_[i]
    <3>1. f_[i] \in {-1, 0, 1}
      OBVIOUS
    <3>2. (-1) % 3 = 2 /\ 0 % 3 = 0 /\ 1 % 3 = 1
      <4> DEFINE x == -1
      <4>1. x \in Int /\ x = 3 * (-1) + 2 /\ 2 \in 0..(3 - 1) /\ 3 \in Nat \ {0} /\ -1 \in Int
        OBVIOUS
      <4> HIDE DEF x
      <4>2. x % 3 = 2
        BY <4>1, QuotientUnique
      <4>3. 0 % 3 = 0 /\ 1 % 3 = 1
        OBVIOUS
      <4> QED
        BY <4>2, <4>3 DEF x
    <3>3. CASE f_[i] = -1
      BY <3>2, <3>3 DEF trit, digit
    <3>4. CASE f_[i] = 0
      BY <3>2, <3>4 DEF trit, digit
    <3>5. CASE f_[i] = 1
      BY <3>2, <3>5 DEF trit, digit
    <3> QED
      BY <3>1, <3>3, <3>4, <3>5
  <2> QED
    BY <2>4, <2>5, <2>6 DEF k, j
<1>2. f_ = [i \in Index |-> f_[i]]
  OBVIOUS
<1> QED
  BY <1>1, <1>2 DEF string_to_tri

(* The packed secret key, and its two parts.                               *)
LEMMA SecretKeyBack ==
  ASSUME NEW f_ \in [Index -> {-1, 0, 1}], NEW h_ \in [Index -> 0..(q - 1)], NEW beyond \in BeyondN
  PROVE  unpack_secret_key_CCA(pack_secret_key_CCA(f_, h_, beyond)) = [F |-> f_, h |-> h_]
<1> DEFINE s1 == tri_to_string(f_, beyond)  s2 == pack_public_key(h_)  s == s1 \o s2
           s1a == SubSeq(s, 1, packsk)  s2a == SubSeq(s, packsk + 1, Len(s))
<1>1. packsk \in Nat /\ packpk \in Nat
  BY TritPlaces, TotalIs
<1>2. PICK u : Elements(u, h_)
  BY ElementsExist
<1>3. s2 \in Seq(Int) /\ Len(s2) = packpk
  BY <1>2, PackedOctets DEF pack_public_key
<1>4. s1 \in Seq(Int) /\ Len(s1) = packsk
  <2>1. ASSUME NEW k \in 1..packsk PROVE Sum(TritTerms(f_, beyond, k - 1), Places(Trits)) \in Int
    <3> DEFINE tt == TritTerms(f_, beyond, k - 1)
    <3>1. k - 1 \in 0..(packsk - 1)
      BY <1>1
    <3>2. \A j \in Places(Trits) : tt[j] \in Int
      <4> SUFFICES ASSUME NEW j \in Places(Trits) PROVE tt[j] \in Int
        OBVIOUS
      <4>1. digit(PackedCoeff(f_, beyond, (k - 1) * Trits + j)) \in Int
        BY <3>1, TritDigits
      <4>2. three_to[Trits - 1 - j] \in Int
        <5>1. Trits - 1 - j \in Nat
          BY TritPlaces DEF Places
        <5> QED
          BY <5>1, ThreeWeights DEF IsWeights
      <4>3. tt[j] = digit(PackedCoeff(f_, beyond, (k - 1) * Trits + j)) * three_to[Trits - 1 - j]
        BY DEF TritTerms
      <4> QED
        BY <4>1, <4>2, <4>3
    <3>3. IsFiniteSet(Places(Trits))
      BY TritPlaces, PlacesGrow
    <3> HIDE DEF tt
    <3>4. Sum(tt, Places(Trits)) \in Int
      BY <3>2, <3>3, SumStep
    <3> QED
      BY <3>4 DEF tt
  <2>2. s1 \in [1..packsk -> Int]
    BY <2>1, TritOctets
  <2> HIDE DEF s1
  <2> QED
    BY <1>1, <2>2
<1> HIDE DEF s1, s2
<1>5. s \in Seq(Int) /\ Len(s) = packsk + packpk
      /\ \A i \in 1..(packsk + packpk) : s[i] = IF i <= packsk THEN s1[i] ELSE s2[i - packsk]
  BY <1>3, <1>4, ConcatProperties
<1> HIDE DEF s
<1>6. \A k \in 1..packsk : s1a[k] = s1[k]
  <2>1. \A i \in 1..packsk : s[i] \in Int
    BY <1>1, <1>3, <1>4, <1>5
  <2>2. \A i \in 1..(packsk - 1 + 1) : s1a[i] = s[1 + i - 1]
    BY <1>1, <2>1, SubSeqProperties
  <2> SUFFICES ASSUME NEW k \in 1..packsk PROVE s1a[k] = s1[k]
    OBVIOUS
  <2>3. k \in 1..(packsk - 1 + 1) /\ 1 + k - 1 = k /\ k <= packsk /\ k \in 1..(packsk + packpk)
    BY <1>1
  <2> HIDE DEF s1a
  <2> QED
    BY <1>5, <2>2, <2>3
<1>7. \A k \in 1..packpk : s2a[k] = s2[k]
  <2>1. \A i \in (packsk + 1)..Len(s) : s[i] \in Int
    BY <1>1, <1>5, ElementOfSeq
  <2>2. \A i \in 1..(Len(s) - (packsk + 1) + 1) : s2a[i] = s[(packsk + 1) + i - 1]
    BY <1>1, <1>5, <2>1, SubSeqProperties
  <2> SUFFICES ASSUME NEW k \in 1..packpk PROVE s2a[k] = s2[k]
    OBVIOUS
  <2>3. k \in 1..(Len(s) - (packsk + 1) + 1) /\ (packsk + 1) + k - 1 = packsk + k
        /\ ~(packsk + k <= packsk) /\ packsk + k \in 1..(packsk + packpk) /\ (packsk + k) - packsk = k
    BY <1>1, <1>5
  <2> HIDE DEF s2a
  <2> QED
    BY <1>5, <2>2, <2>3
<1> HIDE DEF s1a, s2a
<1>8. string_to_tri(s1a) = f_
  BY <1>6, TritsBack DEF s1
<1>9. unpack_public_key(s2a) = h_
  <2>1. /\ u \in Nat /\ High(u, Total) = 0 /\ \A i \in Index : h_[i] = ElementOf(u, i)
    BY <1>2 DEF Elements
  <2>2. \A k \in 1..packpk : s2a[k] = OctetOf(u, k)
    BY <1>2, <1>7, PackedOctets DEF s2, pack_public_key
  <2>3. ntru_octets_2_elements(s2a) = [i \in Index |-> ElementOf(u, i)]
    BY <2>1, <2>2, UnpackedElements
  <2>4. h_ = [i \in Index |-> h_[i]]
    OBVIOUS
  <2> QED
    BY <2>1, <2>3, <2>4 DEF unpack_public_key
<1> QED
  BY <1>8, <1>9 DEF unpack_secret_key_CCA, pack_secret_key_CCA, s1a, s2a, s, s1, s2

----------------------------------------------------------------------------
(***************************************************************************)
(* The interface: a ciphertext on its way, what opening it reads, and the  *)
(* invariant.                                                              *)
(***************************************************************************)

(* Modulo 3, multiplying by the secret f = 3F + 1 changes nothing.         *)
LEMMA SecretModP ==
  ASSUME NEW v \in Polys(N), KeyInv, pc = "done"
  PROVE  Conv(v, SecretF(F), N) \in Polys(N) /\ Same(Conv(v, SecretF(F), N), v, 3, N)
<1> DEFINE sf == SecretF(F)  one == Mono(0, N)
<1>1. N \in Nat \ {0} /\ Index = Places(N) /\ p = 3 /\ 3 \in Nat \ {0}
  BY NPositive, IndexPlaces, Modulus
<1>2. sf \in Polys(N)
  BY KeyEquation
<1>3. one \in Polys(N) /\ Conv(one, v, N) = v
  BY <1>1, ConvOne
<1>4. Same(sf, one, 3, N)
  <2> SUFFICES ASSUME NEW i \in Index PROVE sf[i] % 3 = one[i] % 3
    BY <1>1 DEF Same, Congruent
  <2>1. sf[i] = 3 * F[i] + (IF i = 0 THEN 1 ELSE 0) /\ one[i] = IF i = 0 THEN 1 ELSE 0
    BY <1>1 DEF SecretF, Mono
  <2>2. F[i] \in Int
    BY DEF KeyInv
  <2> HIDE DEF sf, one
  <2> QED
    BY <2>1, <2>2
<1> HIDE DEF sf, one
<1>5. Same(Conv(sf, v, N), Conv(one, v, N), 3, N)
  BY <1>1, <1>2, <1>3, <1>4, SameFactor
<1>6. Conv(v, sf, N) = Conv(sf, v, N) /\ Conv(v, sf, N) \in Polys(N)
  BY <1>1, <1>2, ConvCommutes, ConvType
<1> QED
  BY <1>3, <1>5, <1>6 DEF sf

(* What the last octet has bits of: the last element and no other.         *)
LEMMA LastOctetLost ==
  ASSUME NEW v \in [Index -> 0..(q - 1)], NEW last \in 0..(Octet - 1)
  PROVE  LET sent == [pack_public_key(v) EXCEPT ![packpk] = last]
         IN  /\ unpack_public_key(sent) \in [Index -> 0..(q - 1)]
             /\ \A i \in Index : i # N - 1 => unpack_public_key(sent)[i] = v[i]
<1> DEFINE s == pack_public_key(v)  sent == [s EXCEPT ![packpk] = last]
<1>1. PICK u : Elements(u, v)
  BY ElementsExist
<1>2. u \in Nat /\ High(u, Total) = 0 /\ \A i \in Index : v[i] = ElementOf(u, i)
  BY <1>1 DEF Elements
<1>3. s \in Seq(Int) /\ Len(s) = packpk /\ \A k \in 1..packpk : s[k] = OctetOf(u, k)
  BY <1>1, PackedOctets DEF pack_public_key
<1> HIDE DEF s
<1>4. /\ OctetBits \in Nat \ {0} /\ QBits \in Nat /\ OctetBits < QBits /\ N \in Nat \ {0}
      /\ Octet \in Nat \ {0} /\ Octet = two_to[OctetBits] /\ Index = Places(N) /\ q = two_to[QBits]
  BY PackingSizes DEF Octet
<1>5. packpk \in Nat /\ Spare \in Nat /\ Total \in Nat /\ Total = QBits * N + Spare /\ Total = OctetBits * packpk
  BY TotalIs DEF Total
<1> DEFINE y == High(u, OctetBits)  u2 == Octet * y + last
<1>6. y \in Nat /\ last \in Nat
  <2>1. OctetBits \in Nat /\ last \in Nat /\ 0 \in Nat
    BY <1>4
  <2> QED
    BY <1>2, <2>1, HighAdd
<1> HIDE DEF y
<1>7. u2 \in Nat /\ u2 \in Int /\ u2 = Octet * y + last
  BY <1>4, <1>6
<1> HIDE DEF u2
<1>8. u2 \div Octet = y /\ u2 % Octet = last
  <2>1. y \in Int /\ last \in 0..(Octet - 1)
    BY <1>6
  <2> QED
    BY <1>4, <1>7, <2>1, QuotientUnique
<1>9. High(u2, OctetBits) = y
  BY <1>4, <1>8 DEF High
<1>10. ASSUME NEW e \in Nat, e >= OctetBits PROVE High(u2, e) = High(u, e)
  <2> DEFINE j == e - OctetBits
  <2>1. j \in Nat /\ OctetBits + j = e
    BY <1>4, <1>10
  <2> HIDE DEF j
  <2>4. OctetBits \in Nat /\ u2 \in Nat /\ u \in Nat
    BY <1>2, <1>4, <1>7
  <2>2. High(High(u2, OctetBits), j) = High(u2, OctetBits + j)
    BY <2>1, <2>4, HighAdd
  <2>3. High(High(u, OctetBits), j) = High(u, OctetBits + j)
    BY <2>1, <2>4, HighAdd

  <2> QED
    BY <1>9, <2>1, <2>2, <2>3 DEF y
<1>11. QBits * N >= QBits /\ Total >= OctetBits
  <2>1. QBits * N >= QBits * 1 /\ QBits * 1 = QBits /\ QBits * N \in Nat
    BY <1>4
  <2> DEFINE z == QBits * N
  <2>2. z \in Nat /\ z >= QBits /\ Total = z + Spare
    BY <1>5, <2>1
  <2> HIDE DEF z
  <2> QED
    BY <1>4, <1>5, <2>2 DEF z
<1>12. High(u2, Total) = 0
  BY <1>2, <1>5, <1>10, <1>11
<1>13. \A k \in 1..packpk : sent[k] = OctetOf(u2, k)
  <2> SUFFICES ASSUME NEW k \in 1..packpk PROVE sent[k] = OctetOf(u2, k)
    OBVIOUS
  <2>1. DOMAIN s = 1..packpk
    BY <1>3, <1>5, LenProperties
  <2>2. CASE k = packpk
    <3>1. sent[k] = last
      BY <2>1, <2>2
    <3>2. Total - OctetBits * packpk = 0
      BY <1>5
    <3>3. OctetOf(u2, packpk) = u2 % Octet
      BY <1>7, <3>2, HighZero DEF OctetOf
    <3> QED
      BY <1>8, <2>2, <3>1, <3>3
  <2>3. CASE k # packpk
    <3> DEFINE e == Total - OctetBits * k
    <3>1. sent[k] = OctetOf(u, k)
      BY <1>3, <2>1, <2>3
    <3>2. e \in Nat /\ e >= OctetBits
      <4>1. packpk - k >= 1 /\ packpk - k \in Nat
        BY <1>5, <2>3
      <4>2. OctetBits * (packpk - k) >= OctetBits * 1
        BY <1>4, <4>1
      <4>3. OctetBits * (packpk - k) = OctetBits * packpk - OctetBits * k /\ OctetBits * 1 = OctetBits
            /\ OctetBits * (packpk - k) \in Nat
        BY <1>4, <1>5, <4>1
      <4> DEFINE z == OctetBits * (packpk - k)
      <4>4. e = z /\ z \in Nat /\ z >= OctetBits
        BY <1>5, <4>2, <4>3
      <4> HIDE DEF z, e
      <4> QED
        BY <4>4
    <3> HIDE DEF e
    <3>3. High(u2, e) = High(u, e)
      BY <1>10, <3>2
    <3> QED
      BY <3>1, <3>3 DEF OctetOf, e
  <2> QED
    BY <2>2, <2>3
<1>14. unpack_public_key(sent) = [i \in Index |-> ElementOf(u2, i)]
  <2> HIDE DEF sent
  <2> QED
    BY <1>7, <1>12, <1>13, UnpackedElements DEF unpack_public_key
<1>15. ASSUME NEW i \in Index
       PROVE  ElementOf(u2, i) \in 0..(q - 1) /\ (i # N - 1 => ElementOf(u2, i) = ElementOf(u, i))
  <2> DEFINE e == Total - QBits * (i + 1)
  <2>1. i \in Nat /\ i <= N - 1
    BY <1>4 DEF Places
  <2>2. e \in Nat /\ (i # N - 1 => e >= QBits)
    <3> DEFINE k == N - (i + 1)  z == QBits * k
    <3>1. k \in Nat /\ (i # N - 1 => k >= 1)
      BY <1>4, <2>1
    <3>2. z = QBits * N - QBits * (i + 1)
      BY <1>4, <2>1
    <3>3. z \in Nat /\ (k >= 1 => z >= QBits)
      <4> HIDE DEF k
      <4>1. z \in Nat
        BY <1>4, <3>1
      <4>2. ASSUME k >= 1 PROVE z >= QBits
        <5>1. QBits * k >= QBits * 1 /\ QBits * 1 = QBits
          BY <1>4, <3>1, <4>2
        <5> QED
          BY <5>1
      <4> QED
        BY <4>1, <4>2
    <3> HIDE DEF k
    <3> DEFINE nq == QBits * N  iq == QBits * (i + 1)
    <3>4. nq \in Nat /\ iq \in Nat /\ z = nq - iq /\ e = (nq + Spare) - iq
      BY <1>4, <1>5, <2>1, <3>2
    <3> HIDE DEF nq, iq, z, e
    <3>5. e = z + Spare
      BY <1>5, <3>3, <3>4
    <3> QED
      BY <1>4, <1>5, <3>1, <3>3, <3>5
  <2>3. ElementOf(u2, i) = High(u2, e) % q /\ ElementOf(u, i) = High(u, e) % q
    BY <1>4 DEF ElementOf
  <2> HIDE DEF e
  <2>4. High(u2, e) \in Nat
    BY <1>7, <2>2, HighAdd
  <2>5. q \in Nat \ {0}
    BY Modulus
  <2>6. High(u2, e) % q \in 0..(q - 1)
    BY <2>4, <2>5, DivMod
  <2>7. i # N - 1 => High(u2, e) = High(u, e)
    BY <1>4, <1>10, <2>2
  <2> QED
    BY <2>3, <2>6, <2>7
<1>16. \A i \in Index : v[i] = ElementOf(u, i)
  BY <1>2
<1> HIDE DEF sent
<1>17. /\ unpack_public_key(sent) \in [Index -> 0..(q - 1)]
       /\ \A i \in Index : i # N - 1 => unpack_public_key(sent)[i] = v[i]
  BY <1>14, <1>15, <1>16
<1> QED
  BY <1>17 DEF sent, s

(* The text that a ciphertext ought to say: that given, or none if it is   *)
(* too long.                                                               *)
Sendable(t) == IF len(t) > MaxMsgLen THEN NoChars ELSE t

(* The coefficients e say, modulo 3 and as pad_msg puts it, the text t.    *)
Tells(e, t) ==
  /\ IsText(t, len(t))
  /\ \A j \in Places(LenBits) : Congruent(e[LenAt + j], bit(len(t), j), 3)
  /\ \A i \in Places(len(t)), j \in Places(CharBits) :
       Congruent(e[i * CharBits + j], bit(t[i], j), 3)

(* c is a ciphertext of what is said for t, and e is f * c as integers.    *)
Sent(c, e, t) ==
  /\ c \in [Index -> 0..(q - 1)] /\ e \in Polys(N)
  /\ Same(Conv(c, SecretF(F), N), e, q, N)
  /\ Tells(e, Sendable(t))

(* The text of no chars is a text.                                         *)
LEMMA NoCharsText == len(NoChars) = 0 /\ IsText(NoChars, 0) /\ IsText(NoChars, len(NoChars))
<1>1. Places(0) = {} /\ 0 \in 0..MaxMsgLen
  BY PlacesGrow, Format
<1>2. NoChars \in [Places(0) -> CharCodes]
  BY <1>1 DEF NoChars
<1>3. len(NoChars) = 0
  BY <1>2, TextLen
<1> QED
  BY <1>1, <1>2, <1>3 DEF IsText

(* A text that is not too long is taken as it is.                          *)
LEMMA GivenText ==
  ASSUME NEW t \in GivenTexts, ~(len(t) > MaxMsgLen)
  PROVE  IsText(t, len(t)) /\ Sendable(t) = t
<1>1. IsFiniteSet(DOMAIN t) /\ t \in [0..(len(t) - 1) -> 0..(two_to[CharBits] - 1)]
  BY GivenTextsAssumption
<1>2. len(t) \in Nat
  BY <1>1, FS_CardinalityType DEF len
<1>3. MaxMsgLen \in Nat
  BY Format
<1> QED
  BY <1>1, <1>2, <1>3 DEF IsText, Sendable, Places, CharCodes

(* The zeros that cpoly was allocated with.                                *)
LEMMA ZeroType == Zero \in [Index -> 0..(q - 1)] /\ Zero \in Polys(N) /\ Zero = Nil(N)
<1>1. 0 \in 0..(q - 1)
  BY Modulus
<1> QED
  BY <1>1, IndexPlaces DEF Zero, Polys, Nil

(* The places that the message and its length take.                        *)
LEMMA ToldPlaces ==
  ASSUME NEW t, IsText(t, len(t))
  PROVE  /\ \A j \in Places(LenBits) : LenAt + j \in Index /\ LenAt + j # N - 1
         /\ \A i \in Places(len(t)), j \in Places(CharBits) :
              i * CharBits + j \in Index /\ i * CharBits + j # N - 1
<1>1. LenBits \in Nat \ {0} /\ LenAt \in Nat /\ N = LenAt + LenBits + PadLen /\ Index = Places(N)
  BY Format, IndexPlaces
<1>2. PadLen \in Nat \ {0}
  BY FormatAssumption
<1>3. ASSUME NEW j \in Places(LenBits) PROVE LenAt + j \in Index /\ LenAt + j # N - 1
  BY <1>1, <1>2 DEF Places
<1>4. ASSUME NEW i \in Places(len(t)), NEW j \in Places(CharBits)
      PROVE  i * CharBits + j \in Index /\ i * CharBits + j # N - 1
  <2> DEFINE k == i * CharBits + j
  <2>1. len(t) \in 0..MaxMsgLen
    BY DEF IsText
  <2>2. k \in Nat /\ k < LenAt
    BY <2>1, CharPlace
  <2> HIDE DEF k
  <2>3. k \in Index /\ k # N - 1
    BY <1>1, <1>2, <2>2 DEF Places
  <2> QED
    BY <2>3 DEF k
<1> QED
  BY <1>3, <1>4

(* Coefficients say the same text as others congruent to them everywhere   *)
(* but at the last place, which is the pad's.                              *)
LEMMA TellsKeeps ==
  ASSUME NEW e, NEW e2_, NEW t, Tells(e, t),
         \A i \in Index : i # N - 1 => Congruent(e2_[i], e[i], 3)
  PROVE  Tells(e2_, t)
<1>1. IsText(t, len(t))
  BY DEF Tells
<1>2. \A j \in Places(LenBits) : Congruent(e2_[LenAt + j], bit(len(t), j), 3)
  <2> SUFFICES ASSUME NEW j \in Places(LenBits)
               PROVE  Congruent(e2_[LenAt + j], bit(len(t), j), 3)
    OBVIOUS
  <2>1. LenAt + j \in Index /\ LenAt + j # N - 1
    BY <1>1, ToldPlaces
  <2>2. Congruent(e2_[LenAt + j], e[LenAt + j], 3)
    BY <2>1
  <2>3. Congruent(e[LenAt + j], bit(len(t), j), 3)
    BY DEF Tells
  <2> QED
    BY <2>2, <2>3, CongruentEquivalence
<1>3. \A i \in Places(len(t)), j \in Places(CharBits) :
        Congruent(e2_[i * CharBits + j], bit(t[i], j), 3)
  <2> SUFFICES ASSUME NEW i \in Places(len(t)), NEW j \in Places(CharBits)
               PROVE  Congruent(e2_[i * CharBits + j], bit(t[i], j), 3)
    OBVIOUS
  <2> DEFINE k == i * CharBits + j
  <2>1. k \in Index /\ k # N - 1
    BY <1>1, ToldPlaces
  <2>2. Congruent(e[k], bit(t[i], j), 3)
    BY DEF Tells
  <2> HIDE DEF k
  <2>3. Congruent(e2_[k], e[k], 3)
    BY <2>1
  <2> QED
    BY <2>2, <2>3, CongruentEquivalence DEF k
<1> QED
  BY <1>1, <1>2, <1>3 DEF Tells

(* What crypto_encrypt packs.                                              *)
LEMMA EncryptSends ==
  ASSUME KeyInv, pc = "done", NEW t \in GivenTexts, NEW pad \in PadDraws, NEW r \in RDraws
  PROVE  Sent(encrypt_cca(Zero, t, pad, r, h),
              IF len(t) > MaxMsgLen THEN Zero ELSE Unreduced(pad_msg(t, pad), r, F, g), t)
<1> DEFINE sf == SecretF(F)
<1>1. N \in Nat \ {0} /\ Index = Places(N) /\ sf \in Polys(N) /\ q \in Nat \ {0}
  BY NPositive, IndexPlaces, KeyEquation, Modulus
<1>2. CASE len(t) > MaxMsgLen
  <2>1. encrypt_cca(Zero, t, pad, r, h) = Zero /\ Sendable(t) = NoChars
    BY <1>2 DEF encrypt_cca, Sendable
  <2>2. Conv(Zero, sf, N) = Zero
    BY <1>1, ZeroType, ConvNil
  <2>3. Same(Conv(Zero, sf, N), Zero, q, N)
    BY <2>2, SameEquivalence
  <2>4. Tells(Zero, NoChars)
    <3>1. \A j \in Places(LenBits) : Zero[LenAt + j] = 0 /\ bit(0, j) = 0
      <4> SUFFICES ASSUME NEW j \in Places(LenBits) PROVE Zero[LenAt + j] = 0 /\ bit(0, j) = 0
        OBVIOUS
      <4>1. LenAt + j \in Index
        BY NoCharsText, ToldPlaces
      <4>2. j \in Nat
        BY Format, PlacesGrow
      <4> DEFINE m_ == two_to[j]
      <4>3. m_ \in Nat \ {0}
        BY <4>2, TwoType
      <4> HIDE DEF m_
      <4>4. 0 \div m_ = 0
        BY <4>3
      <4>5. bit(0, j) = 0
        BY <4>4 DEF bit, m_
      <4> QED
        BY <4>1, <4>5 DEF Zero
    <3>2. Places(len(NoChars)) = {}
      BY NoCharsText, PlacesGrow
    <3> QED
      BY <3>1, <3>2, NoCharsText, CongruentEquivalence DEF Tells
  <2> QED
    BY <1>2, <2>1, <2>3, <2>4, ZeroType DEF Sent
<1>3. CASE ~(len(t) > MaxMsgLen)
  <2> DEFINE v == pad_msg(t, pad)  c == encrypt_kem(v, r, h)  e == Unreduced(v, r, F, g)  n == len(t)
  <2>1. encrypt_cca(Zero, t, pad, r, h) = c
    BY <1>3 DEF encrypt_cca
  <2>2. IsText(t, n) /\ Sendable(t) = t
    BY <1>3, GivenText
  <2>3. /\ v \in Polys(N) /\ r \in Polys(N)
        /\ \A j \in Places(LenBits) : v[LenAt + j] = bit(n, j)
        /\ \A i \in Places(n), j \in Places(CharBits) : v[i * CharBits + j] = bit(t[i], j)
    BY <2>2, PadMsg, DrawsType
  <2> HIDE DEF v
  <2>4. /\ c \in Polys(N) /\ e \in Polys(N) /\ Same(Conv(c, sf, N), e, q, N)
        /\ Same(e, v, 3, N)
    BY <2>3, CipherCarries, UnreducedIs, UnreducedModP
  <2>5. c \in [Index -> 0..(q - 1)]
    <3> DEFINE x == [i \in Index |-> p * ring_mult(r, h)[i] + v[i]]
    <3>1. ring_mult(r, h) \in Polys(N) /\ p = 3
      BY <2>3, KeyEquation, RingMultType, Modulus
    <3>2. ASSUME NEW i \in Index PROVE x[i] \in Int
      <4>1. ring_mult(r, h)[i] \in Int /\ v[i] \in Int
        BY <1>1, <2>3, <3>1 DEF Polys
      <4> QED
        BY <3>1, <4>1
    <3>3. c = [i \in Index |-> x[i] % q]
      BY DEF encrypt_kem
    <3> HIDE DEF x, c
    <3>4. \A i \in Index : x[i] % q \in 0..(q - 1)
      BY <1>1, <3>2, DivMod
    <3> QED
      BY <3>3, <3>4
  <2>6. Tells(e, t)
    <3> HIDE DEF e
    <3>1. \A j \in Places(LenBits) : Congruent(e[LenAt + j], bit(n, j), 3)
      <4> SUFFICES ASSUME NEW j \in Places(LenBits) PROVE Congruent(e[LenAt + j], bit(n, j), 3)
        OBVIOUS
      <4>1. LenAt + j \in Index
        BY <2>2, ToldPlaces
      <4> QED
        BY <1>1, <2>3, <2>4, <4>1 DEF Same
    <3>2. \A i \in Places(n), j \in Places(CharBits) : Congruent(e[i * CharBits + j], bit(t[i], j), 3)
      <4> SUFFICES ASSUME NEW i \in Places(n), NEW j \in Places(CharBits)
                   PROVE  Congruent(e[i * CharBits + j], bit(t[i], j), 3)
        OBVIOUS
      <4> DEFINE k == i * CharBits + j
      <4>1. k \in Index
        BY <2>2, ToldPlaces
      <4>2. v[k] = bit(t[i], j)
        BY <2>3
      <4> HIDE DEF k
      <4>3. Congruent(e[k], v[k], 3)
        BY <1>1, <2>4, <4>1 DEF Same
      <4> QED
        BY <4>2, <4>3 DEF k
    <3> QED
      BY <2>2, <3>1, <3>2 DEF Tells
  <2>7. Sent(c, e, t)
    <3> HIDE DEF c, e
    <3> QED
      BY <2>2, <2>4, <2>5, <2>6 DEF Sent
  <2>8. e = IF len(t) > MaxMsgLen THEN Zero ELSE Unreduced(v, r, F, g)
    BY <1>3
  <2> HIDE DEF c, e
  <2>9. Sent(encrypt_cca(Zero, t, pad, r, h),
             IF len(t) > MaxMsgLen THEN Zero ELSE Unreduced(v, r, F, g), t)
    BY <2>1, <2>7, <2>8
  <2> QED
    BY <2>9 DEF v

<1> QED
  BY <1>2, <1>3

(* The last octet is lost: the coefficients that say the text stay.        *)
LEMMA TransitSends ==
  ASSUME KeyInv, pc = "done", NEW c, NEW e, NEW t, Sent(c, e, t), NEW last \in 0..(Octet - 1)
  PROVE  LET after == unpack_public_key([pack_public_key(c) EXCEPT ![packpk] = last])
             change == [i \in Index |-> after[i] - c[i]]
             carried == product(change, SecretF(F))
         IN  Sent(after, [k \in Index |-> e[k] + carried[k]], t)
<1> DEFINE after == unpack_public_key([pack_public_key(c) EXCEPT ![packpk] = last])
           change == [i \in Index |-> after[i] - c[i]]
           sf == SecretF(F)
           carried == product(change, sf)
           e2_ == [k \in Index |-> e[k] + carried[k]]
           one == 1
           u == Conv(c, sf, N)
<1>1. N \in Nat \ {0} /\ Index = Places(N) /\ sf \in Polys(N) /\ q \in Nat \ {0} /\ one \in Int
  BY NPositive, IndexPlaces, KeyEquation, Modulus
<1>2. /\ c \in [Index -> 0..(q - 1)] /\ e \in Polys(N)
      /\ Same(u, e, q, N) /\ Tells(e, Sendable(t))
  BY DEF Sent
<1>3. /\ after \in [Index -> 0..(q - 1)]
      /\ \A i \in Index : i # N - 1 => after[i] = c[i]
  BY <1>2, LastOctetLost
<1> HIDE DEF after
<1>4. /\ \A i \in Index : c[i] \in Int /\ after[i] \in Int /\ e[i] \in Int
      /\ c \in Polys(N)
  BY <1>1, <1>2, <1>3 DEF Polys
<1>5. /\ change \in Polys(N) /\ \A i \in Index : change[i] \in Int
      /\ \A i \in Index : after[i] = one * c[i] + one * change[i]
      /\ \A i \in Index : i # N - 1 => change[i] = 0
  BY <1>1, <1>3, <1>4 DEF Polys
<1> HIDE DEF change
<1>6. carried = Conv(change, sf, N)
  BY ProductIsConv
<1>7. carried \in Polys(N) /\ Same(carried, change, 3, N)
  BY <1>5, <1>6, SecretModP
<1> HIDE DEF carried
<1>8. \A i \in Index : carried[i] \in Int /\ e2_[i] = one * e[i] + one * carried[i]
  BY <1>1, <1>4, <1>7 DEF Polys
<1>9. e2_ = Combine(one, e, one, carried, N)
  BY <1>1, <1>8 DEF Combine
<1>10. after = Combine(one, c, one, change, N)
  <2>1. after = [i \in Index |-> after[i]]
    BY <1>3
  <2> QED
    BY <1>1, <1>5, <2>1 DEF Combine
<1> HIDE DEF one, sf, e2_, u
<1>11. /\ e2_ \in Polys(N)
       /\ Conv(after, sf, N) = Combine(one, u, one, carried, N)
  <2>1. Combine(one, e, one, carried, N) \in Polys(N)
    BY <1>1, <1>2, <1>7, CombineConv
  <2>2. Conv(Combine(one, c, one, change, N), sf, N)
          = Combine(one, Conv(c, sf, N), one, Conv(change, sf, N), N)
    BY <1>1, <1>4, <1>5, CombineConv
  <2> QED
    BY <1>6, <1>9, <1>10, <2>1, <2>2 DEF u
<1>12. Same(Combine(one, u, one, carried, N), Combine(one, e, one, carried, N), q, N)
  <2>1. u \in Polys(N)
    BY <1>1, <1>4, ConvType DEF u
  <2>2. Same(carried, carried, q, N)
    BY SameEquivalence
  <2> QED
    BY <1>1, <1>2, <1>7, <2>1, <2>2, CombineSame
<1>13. Same(Conv(after, sf, N), e2_, q, N)
  BY <1>9, <1>11, <1>12
<1>14. ASSUME NEW i \in Index, i # N - 1 PROVE Congruent(e2_[i], e[i], 3)
  <2>1. carried[i] % 3 = 0 % 3
    BY <1>1, <1>5, <1>7, <1>14 DEF Same, Congruent
  <2>2. e2_[i] = e[i] + carried[i]
    BY DEF e2_
  <2> DEFINE x == e[i]  y == carried[i]
  <2>3. x \in Int /\ y \in Int /\ y % 3 = 0
    BY <1>4, <1>8, <2>1
  <2> HIDE DEF x, y
  <2>4. (x + y) % 3 = x % 3
    BY <2>3
  <2> QED
    BY <2>2, <2>4 DEF Congruent, x, y
<1>15. Tells(e2_, Sendable(t))
  BY <1>2, <1>14, TellsKeeps
<1>16. Sent(after, e2_, t)
  BY <1>3, <1>11, <1>13, <1>15 DEF Sent, sf
<1> QED
  BY <1>16 DEF e2_, carried, change, sf, after

(* A bit comes back from what is congruent to it modulo 3.                 *)
LEMMA BitBack ==
  ASSUME NEW x \in Int, NEW b \in {0, 1}, Congruent(x, b, 3)
  PROVE  ((x + 1) % 3) - 1 = b
<1>1. x % 3 = b % 3
  BY DEF Congruent
<1> QED
  BY <1>1

(* What crypto_encrypt_open makes of it.                                   *)
LEMMA OpenReads ==
  ASSUME KeyInv, pc = "done", NEW c, NEW e, NEW t, Sent(c, e, t), Fits(e)
  PROVE  decrypt_cca(Buffer, F, c) =
           [msg |-> [i \in DOMAIN Buffer |->
                       IF i < len(Sendable(t)) THEN Sendable(t)[i] ELSE Buffer[i]],
            len |-> len(Sendable(t))]
<1> DEFINE x == Sendable(t)  n == len(x)  v == decrypt_kem(F, c)
<1>1. N \in Nat \ {0} /\ Index = Places(N)
  BY NPositive, IndexPlaces
<1>2. /\ c \in [Index -> 0..(q - 1)] /\ e \in Polys(N)
      /\ Same(Conv(c, SecretF(F), N), e, q, N) /\ Tells(e, x)
  BY DEF Sent
<1>3. c \in Polys(N)
  BY <1>1, <1>2 DEF Polys
<1>4. v = [i \in Index |-> ((e[i] + 1) % 3) - 1]
  BY <1>2, <1>3, DecryptReads
<1> HIDE DEF x, v
<1>5. /\ IsText(x, n)
      /\ \A j \in Places(LenBits) : Congruent(e[LenAt + j], bit(n, j), 3)
      /\ \A i \in Places(n), j \in Places(CharBits) : Congruent(e[i * CharBits + j], bit(x[i], j), 3)
  BY <1>2 DEF Tells
<1>6. /\ MaxMsgLen \in Nat /\ MaxMsgLen < 65536 /\ LenBits \in Nat /\ CharBits \in Nat
      /\ two_to[CharBits] \in Nat
  BY Format, TwoType
<1>7. n \in Nat /\ n <= MaxMsgLen /\ x \in [Places(n) -> CharCodes]
  BY <1>5, <1>6 DEF IsText
<1> HIDE DEF n
<1>8. \A i \in Index : e[i] \in Int
  BY <1>1, <1>2 DEF Polys
<1>9. \A j \in Places(LenBits) : v[LenAt + j] = bit(n, j)
  <2> SUFFICES ASSUME NEW j \in Places(LenBits) PROVE v[LenAt + j] = bit(n, j)
    OBVIOUS
  <2>1. LenAt + j \in Index
    BY <1>5, ToldPlaces DEF n
  <2>2. bit(n, j) \in {0, 1}
    BY <1>6, <1>7, PlacesGrow, BitType
  <2>3. Congruent(e[LenAt + j], bit(n, j), 3)
    BY <1>5
  <2> QED
    BY <1>4, <1>8, <2>1, <2>2, <2>3, BitBack
<1>10. \A i \in Places(n), j \in Places(CharBits) : v[i * CharBits + j] = bit(x[i], j)
  <2> SUFFICES ASSUME NEW i \in Places(n), NEW j \in Places(CharBits)
               PROVE  v[i * CharBits + j] = bit(x[i], j)
    OBVIOUS
  <2> DEFINE k == i * CharBits + j
  <2>1. k \in Index
    BY <1>5, ToldPlaces DEF n
  <2>2. x[i] \in Nat
    BY <1>6, <1>7 DEF CharCodes
  <2>3. bit(x[i], j) \in {0, 1}
    BY <1>6, <2>2, PlacesGrow, BitType
  <2>4. Congruent(e[k], bit(x[i], j), 3)
    BY <1>5
  <2> HIDE DEF k
  <2>5. v[k] = bit(x[i], j)
    BY <1>4, <1>8, <2>1, <2>3, <2>4, BitBack
  <2> QED
    BY <2>5 DEF k
<1>11. msg_len(v) = n
  BY <1>5, <1>9, LengthReads DEF n
<1>12. \A i \in DOMAIN Buffer : i < n => CharAt(v, i) = x[i]
  <2> SUFFICES ASSUME NEW i \in DOMAIN Buffer, i < n PROVE CharAt(v, i) = x[i]
    OBVIOUS
  <2>1. i \in Places(n)
    BY <1>6, <1>7 DEF Places, Buffer
  <2>2. x[i] \in CharCodes
    BY <1>7, <2>1
  <2> QED
    BY <1>10, <2>1, <2>2, CharReads
<1> DEFINE read == [i \in DOMAIN Buffer |-> IF i < n THEN CharAt(v, i) ELSE Buffer[i]]
           full == [i \in DOMAIN Buffer |-> IF i < n THEN x[i] ELSE Buffer[i]]
<1>13. read = full
  BY <1>12
<1>14. ~(n > MaxMsgLen) /\ n < 65536
  BY <1>6, <1>7
<1>15. recover_msg(Buffer, v) = [msg |-> read, len |-> n]
  BY <1>11, <1>14, RecoverIs
<1> HIDE DEF read, full
<1>16. decrypt_cca(Buffer, F, c) = [msg |-> full, len |-> n]
  BY <1>7, <1>13, <1>14, <1>15, DecryptCca DEF v
<1> QED
  BY <1>16 DEF full, n, x

(* The packed keys say the keys.                                           *)
KeysPacked ==
  /\ pc = "done"
  /\ unpack_public_key(pk) = h
  /\ unpack_secret_key_CCA(sk) = [F |-> F, h |-> h]

(* The buffer that the text given is opened into.                          *)
Opened(t) == [i \in DOMAIN Buffer |-> IF i < len(Sendable(t)) THEN Sendable(t)[i] ELSE Buffer[i]]

InterfaceInv ==
  /\ apiPc \in {"keypair", "encrypt", "transit", "open", "end"}
  /\ apiPc # "keypair" => KeysPacked
  /\ apiPc # "end" => m = Buffer
  /\ apiPc = "transit" => \E c : blob = pack_public_key(c) /\ Sent(c, ef, text)
  /\ apiPc = "open" => Sent(unpack_public_key(blob), ef, text)
  /\ apiPc = "end" /\ Fits(ef) => m = Opened(text) /\ mlen = len(Sendable(text))

ApiInv == KeyInv /\ InterfaceInv

(* The invariant of the interface holds at the start.                      *)
LEMMA ApiInitInv == ApiInit => InterfaceInv
  BY DEF ApiInit, InterfaceInv

(* Key generation keeps it.                                                *)
LEMMA ApiKeyStepInv ==
  ASSUME ApiInv, KeyNext, UNCHANGED apiVars
  PROVE  ApiInv'
<1>1. KeyInv'
  BY KeyNextInv DEF ApiInv
<1>2. apiPc' = apiPc /\ m' = m
  BY DEF apiVars
<1>3. pc # "done"
  BY DEF KeyNext, DrawOnes, DrawMinus, RingInvStart, RingInvStep, Finish
<1>4. apiPc = "keypair" /\ m = Buffer
  BY <1>3 DEF ApiInv, InterfaceInv, KeysPacked
<1>5. m' = Buffer /\ Buffer' = Buffer /\ apiPc' = "keypair"
  BY <1>2, <1>4 DEF Buffer
<1> QED
  BY <1>1, <1>5 DEF ApiInv, InterfaceInv

(* The keys do not change after keygen.                                    *)
LEMMA Untouched ==
  ASSUME UNCHANGED keyVars
  PROVE  F' = F /\ g' = g /\ h' = h /\ pc' = pc
  BY DEF keyVars

(* crypto_encrypt_keypair packs the keys so that they come back.           *)
LEMMA KeypairInv ==
  ASSUME ApiInv, pc = "done", UNCHANGED keyVars, crypto_encrypt_keypair
  PROVE  InterfaceInv'
<1>1. PICK beyond \in BeyondN : sk' = pack_secret_key_CCA(F, h, beyond)
  BY DEF crypto_encrypt_keypair
<1>2. apiPc = "keypair" /\ apiPc' = "encrypt" /\ pk' = pack_public_key(h) /\ m' = m
  BY DEF crypto_encrypt_keypair
<1>3. F \in [Index -> {-1, 0, 1}] /\ f_inv \in [Index -> 0..(q - 1)] /\ g \in GDraws /\ h = ring_mult(f_inv, g)
  BY DEF ApiInv, KeyInv, KeysMade
<1>4. h \in [Index -> 0..(q - 1)]
  <2>1. f_inv \in Polys(N)
    BY <1>3, Modulus, IndexPlaces DEF Polys
  <2>2. g \in Polys(N)
    BY <1>3, GType
  <2> QED
    BY <1>3, <2>1, <2>2, RingMultType
<1>5. unpack_public_key(pk') = h /\ unpack_secret_key_CCA(sk') = [F |-> F, h |-> h]
  BY <1>1, <1>2, <1>3, <1>4, PackUnpack, SecretKeyBack
<1>6. KeysPacked'
  BY <1>5, Untouched DEF KeysPacked
<1>7. m' = Buffer
  BY <1>2 DEF ApiInv, InterfaceInv
<1> QED
  BY <1>2, <1>6, <1>7 DEF InterfaceInv

(* The keys stay as they were packed.                                      *)
LEMMA KeysStayPacked ==
  ASSUME ApiInv, apiPc # "keypair", UNCHANGED keyVars, UNCHANGED <<pk, sk>>
  PROVE  KeysPacked /\ KeysPacked'
<1>1. KeysPacked
  BY DEF ApiInv, InterfaceInv
<1> QED
  BY <1>1, Untouched DEF KeysPacked

(* crypto_encrypt packs a ciphertext of what is said for the text.         *)
LEMMA EncryptInv ==
  ASSUME ApiInv, pc = "done", UNCHANGED keyVars, crypto_encrypt
  PROVE  InterfaceInv'
<1>1. PICK t \in GivenTexts, pad \in PadDraws, r \in RDraws :
        /\ text' = t
        /\ blob' = pack_public_key(encrypt_cca(Zero, t, pad, r, unpack_public_key(pk)))
        /\ ef' = IF len(t) > MaxMsgLen THEN Zero ELSE Unreduced(pad_msg(t, pad), r, F, g)
  BY DEF crypto_encrypt
<1>2. apiPc = "encrypt" /\ apiPc' = "transit" /\ m' = m /\ UNCHANGED <<pk, sk>>
  BY DEF crypto_encrypt
<1>3. KeysPacked /\ KeysPacked' /\ F' = F
  BY <1>2, KeysStayPacked, Untouched
<1> DEFINE c == encrypt_cca(Zero, t, pad, r, h)
<1>4. blob' = pack_public_key(c)
  BY <1>1, <1>3 DEF KeysPacked
<1>5. Sent(c, ef', t)
  BY <1>1, EncryptSends DEF ApiInv
<1> HIDE DEF c
<1>6. PICK c_ : blob' = pack_public_key(c_) /\ Sent(c_, ef', t)
  BY <1>4, <1>5
<1>7. m' = Buffer
  BY <1>2 DEF ApiInv, InterfaceInv
<1>8. Sent(c_, ef, text)'
  BY <1>1, <1>3, <1>6 DEF Sent, SecretF
<1> QED
  BY <1>2, <1>3, <1>6, <1>7, <1>8 DEF InterfaceInv

(* The loss of the last octet leaves a ciphertext of the same text.        *)
LEMMA TransitInv ==

  ASSUME ApiInv, pc = "done", UNCHANGED keyVars, Transit
  PROVE  InterfaceInv'
<1>1. apiPc = "transit" /\ apiPc' = "open" /\ m' = m /\ text' = text /\ UNCHANGED <<pk, sk>>
  BY DEF Transit
<1>2. KeysPacked /\ KeysPacked' /\ F' = F
  BY <1>1, KeysStayPacked, Untouched
<1>3. PICK c : blob = pack_public_key(c) /\ Sent(c, ef, text)
  BY <1>1 DEF ApiInv, InterfaceInv
<1>4. PICK last \in 0..(Octet - 1) :
        /\ blob' = [blob EXCEPT ![packpk] = last]
        /\ ef' = LET change == [i \in Index |->
                                  unpack_public_key([blob EXCEPT ![packpk] = last])[i]
                                  - unpack_public_key(blob)[i]]
                     carried == product(change, SecretF(F))
                 IN  [k \in Index |-> ef[k] + carried[k]]
  BY DEF Transit
<1>5. unpack_public_key(blob) = c
  BY <1>3, PackUnpack DEF Sent
<1>6. Sent(unpack_public_key(blob'), ef', text)
  BY <1>3, <1>4, <1>5, TransitSends DEF ApiInv
<1>7. Sent(unpack_public_key(blob), ef, text)'
  BY <1>1, <1>2, <1>6 DEF Sent, SecretF
<1>8. m' = Buffer
  BY <1>1 DEF ApiInv, InterfaceInv
<1> QED
  BY <1>1, <1>2, <1>7, <1>8 DEF InterfaceInv

(* crypto_encrypt_open leaves the text when the coefficients fit.          *)
LEMMA OpenInv ==
  ASSUME ApiInv, pc = "done", UNCHANGED keyVars, crypto_encrypt_open
  PROVE  InterfaceInv'
<1>1. /\ apiPc = "open" /\ apiPc' = "end" /\ UNCHANGED <<pk, sk, text, blob, clen, ef>>
      /\ m' = decrypt_cca(m, unpack_secret_key_CCA(sk).F, unpack_public_key(blob)).msg
      /\ mlen' = decrypt_cca(m, unpack_secret_key_CCA(sk).F, unpack_public_key(blob)).len
  BY DEF crypto_encrypt_open
<1>2. KeysPacked /\ KeysPacked'
  BY <1>1, KeysStayPacked
<1>3. m = Buffer /\ unpack_secret_key_CCA(sk).F = F
  BY <1>1, <1>2 DEF ApiInv, InterfaceInv, KeysPacked
<1>4. Sent(unpack_public_key(blob), ef, text)
  BY <1>1 DEF ApiInv, InterfaceInv
<1>5. ASSUME Fits(ef)
      PROVE  decrypt_cca(Buffer, F, unpack_public_key(blob)) = [msg |-> Opened(text), len |-> len(Sendable(text))]
  BY <1>4, <1>5, OpenReads DEF ApiInv, Opened
<1>6. ASSUME Fits(ef)
      PROVE  m' = Opened(text) /\ mlen' = len(Sendable(text))
  BY <1>1, <1>3, <1>5, <1>6
<1>7. text' = text /\ ef' = ef
  BY <1>1
<1>8. Fits(ef)' => m' = Opened(text)' /\ mlen' = len(Sendable(text))'
  BY <1>6, <1>7
<1> QED
  BY <1>1, <1>2, <1>8 DEF InterfaceInv

(* Stuttering keeps the invariant.                                         *)
LEMMA ApiNoStepInv ==
  ASSUME ApiInv, UNCHANGED <<keyVars, apiVars>>
  PROVE  ApiInv'
<1>1. KeyInv' /\ F' = F /\ g' = g /\ h' = h /\ pc' = pc
  BY KeyStays, Untouched DEF ApiInv
<1>2. /\ apiPc' = apiPc /\ pk' = pk /\ sk' = sk /\ text' = text /\ blob' = blob
      /\ m' = m /\ mlen' = mlen /\ ef' = ef
  BY DEF apiVars
<1>3. KeysPacked' = KeysPacked
  BY <1>1, <1>2 DEF KeysPacked
<1>4. ASSUME NEW c PROVE Sent(c, ef, text)' = Sent(c, ef, text)
  BY <1>1, <1>2 DEF Sent, SecretF
<1>5. (\E c : blob = pack_public_key(c) /\ Sent(c, ef, text))' = (\E c : blob = pack_public_key(c) /\ Sent(c, ef, text))
  BY <1>2, <1>4
<1>6. Sent(unpack_public_key(blob), ef, text)' = Sent(unpack_public_key(blob), ef, text)
  BY <1>2, <1>4
<1> QED
  BY <1>1, <1>2, <1>3, <1>5, <1>6 DEF ApiInv, InterfaceInv

(* Every call keeps the invariant.                                         *)
LEMMA ApiStepInv ==
  ASSUME ApiInv, ApiNext
  PROVE  ApiInv'
<1>1. pc = "done" /\ UNCHANGED keyVars
  BY DEF ApiNext
<1>2. KeyInv'
  BY <1>1, KeyStays DEF ApiInv
<1>3. InterfaceInv'
  BY <1>1, KeypairInv, EncryptInv, TransitInv, OpenInv DEF ApiNext
<1> QED
  BY <1>2, <1>3 DEF ApiInv

(* What the interface keeps: the packed keys say the keys, and what is on  *)
(* its way says the text, also when the octet that clen does not count is  *)
(* lost.                                                                   *)
THEOREM ApiInvariance == ApiSpec => []ApiInv
<1>1. KeyInit /\ ApiInit => ApiInv
  BY KeyInitInv, ApiInitInv DEF ApiInv
<1>2. ApiInv /\ [(KeyNext /\ UNCHANGED apiVars) \/ ApiNext]_<<keyVars, apiVars>> => ApiInv'
  BY ApiKeyStepInv, ApiStepInv, ApiNoStepInv
<1> QED
  BY <1>1, <1>2, PTL DEF ApiSpec

(* The invariant contains what KeysSurvivePacking says.                    *)
LEMMA ApiInvKeys == ApiInv => KeysSurvivePacking
  BY DEF ApiInv, InterfaceInv, KeysPacked, KeysSurvivePacking

(* The invariant contains what ApiOpens says.                              *)
LEMMA ApiInvOpens == ApiInv => ApiOpens
<1> SUFFICES ASSUME ApiInv, apiPc = "end", Fits(ef) PROVE ApiOpens
  BY DEF ApiOpens
<1>1. m = Opened(text) /\ mlen = len(Sendable(text))
  BY DEF ApiInv, InterfaceInv
<1>2. \A i \in 0..(MaxMsgLen - 1) : m[i] = IF i < mlen THEN Sendable(text)[i] ELSE Buffer[i]
  BY <1>1 DEF Opened, Buffer
<1> QED
  BY <1>1, <1>2 DEF ApiOpens, Sendable

(* No bit of a key is lost in packing, the last octet of both included.    *)
THEOREM KeysComeBack == ApiSpec => []KeysSurvivePacking
  BY ApiInvariance, ApiInvKeys, PTL

(* A text is opened as it was given, or as none when it was too long,      *)
(* whatever becomes of the octet that clen does not count, as long as      *)
(* nothing wraps.                                                          *)
THEOREM TextsOpen == ApiSpec => []ApiOpens
  BY ApiInvariance, ApiInvOpens, PTL

----------------------------------------------------------------------------

(***************************************************************************)
(* The random sources.                                                     *)
(***************************************************************************)

(* The state of the fields between two steps of the loop.                  *)
Fields == /\ length_remaining \in 0..MaxLen
          /\ xlen \in 0..(MaxLen - length_remaining)
          /\ buffer_pos \in 0..BlockLen
          /\ block \in 0..(CtrSize - 1)
          /\ ctr \in Nat

(* The place in the stream that the next byte of the buffer has; before    *)
(* the first block is made, the buffer has none.                           *)
Place == \/ given = 0 /\ buffer_pos = BlockLen /\ ctr = 0
         \/ given = block * BlockLen + buffer_pos
              /\ ctr = (block + 1) % CtrSize

ExpanderInv == Fields /\ Place /\ out = Source!Stream(given)

LEMMA ExpanderInitInv == seedexpander_init => ExpanderInv
  BY ExpanderAssumption
     DEF seedexpander_init, ExpanderInv, Fields, Place, given, Source!Stream

(* The bytes that Write(n) appends are the next n bytes of the stream.     *)
LEMMA WriteAppends ==
  ASSUME ExpanderInv, NEW n \in 0..(BlockLen - buffer_pos), Write(n)
  PROVE  out' = Source!Stream(given + n)
<1> USE ExpanderAssumption DEF Fields
<1>1. given \in Nat
  BY DEF ExpanderInv, given
<1>2. out' = [k \in 0..(given + n - 1) |->
                IF k < given THEN out[k]
                ELSE block * BlockLen + buffer_pos + (k - given)]
  BY DEF Write
<1>3. ASSUME NEW k \in 0..(given + n - 1)
      PROVE  (IF k < given THEN out[k]
              ELSE block * BlockLen + buffer_pos + (k - given)) = k
  <2>1. CASE k < given
    BY <1>1, <2>1 DEF ExpanderInv, Source!Stream
  <2>2. CASE ~(k < given)
    <3>1. given = block * BlockLen + buffer_pos
      BY <1>1, <2>2 DEF ExpanderInv, Place
    <3>2. block * BlockLen \in Int /\ buffer_pos \in Int
      BY DEF ExpanderInv
    <3> QED
      BY <1>1, <2>2, <3>1, <3>2
  <2> QED BY <2>1, <2>2
<1>4. [k \in 0..(given + n - 1) |->
         IF k < given THEN out[k]
         ELSE block * BlockLen + buffer_pos + (k - given)]
      = [k \in 0..(given + n - 1) |-> k]
  BY <1>3, Zenon
<1>5. out' = [k \in 0..(given + n - 1) |-> k]
  BY <1>2, <1>4, Zenon
<1> QED
  BY <1>1, <1>5 DEF Source!Stream

(* There is no wrap as long as bytes are asked for: the next block starts  *)
(* below MaxLen.                                                           *)
LEMMA NoWrap ==
  ASSUME NEW b \in Nat, NEW L \in Nat \ {0}, NEW C \in Nat \ {0},
         b * L < C * L
  PROVE  b < C
<1> SUFFICES ASSUME b >= C PROVE FALSE
  OBVIOUS
<1> PICK e \in Nat : b = C + e
  <2>1. b - C \in Nat /\ b = C + (b - C)
    OBVIOUS
  <2> QED BY <2>1
<1>1. b * L = C * L + e * L /\ e * L >= 0
  OBVIOUS
<1> QED
  BY <1>1

LEMMA RefillPlace ==
  ASSUME ExpanderInv, Refill
  PROVE  /\ Place' /\ block' \in 0..(CtrSize - 1) /\ ctr' \in Nat
         /\ given' = given + (BlockLen - buffer_pos)
<1> USE ExpanderAssumption
<1>1. /\ given' = given + (BlockLen - buffer_pos)
      /\ xlen > BlockLen - buffer_pos
      /\ given + xlen <= MaxLen
      /\ block' = ctr /\ buffer_pos' = 0 /\ ctr' = (ctr + 1) % CtrSize
  BY DEF Refill, given, ExpanderInv, Fields
<1>2. CASE given = 0 /\ buffer_pos = BlockLen /\ ctr = 0
  BY <1>1, <1>2 DEF Place, ExpanderInv, Fields
<1>3. CASE /\ given = block * BlockLen + buffer_pos
           /\ ctr = (block + 1) % CtrSize
  <2>1. given' = (block + 1) * BlockLen
    BY <1>1, <1>3 DEF ExpanderInv, Fields
  <2>2. (block + 1) * BlockLen < CtrSize * BlockLen
    BY <1>1, <2>1 DEF ExpanderInv, Fields, given
  <2>3. block + 1 < CtrSize
    BY <2>2, NoWrap DEF ExpanderInv, Fields
  <2>4. ctr = block + 1
    BY <1>3, <2>3 DEF ExpanderInv, Fields
  <2>5. given' = block' * BlockLen + buffer_pos'
    BY <1>1, <2>1, <2>4 DEF ExpanderInv, Fields
  <2> QED
    BY <1>1, <2>3, <2>4, <2>5 DEF Place, ExpanderInv, Fields
<1> QED
  BY <1>2, <1>3 DEF ExpanderInv, Place
(* Enough and Refill give bytes; Request accepts; nothing else happens.    *)
LEMMA ExpanderStepInv ==
  ASSUME ExpanderInv, [ExpanderNext]_expanderVars
  PROVE  /\ ExpanderInv'
         /\ [Source!Next]_<<length_remaining, out>>
<1> USE ExpanderAssumption
<1>1. ASSUME NEW n \in 0..MaxLen, Request(n)
      PROVE  ExpanderInv' /\ Source!Accept(n)
  <2>1. given' = given /\ UNCHANGED <<buffer_pos, ctr, block, out>>
    BY <1>1 DEF Request, given, ExpanderInv, Fields
  <2>2. Fields'
    BY <1>1 DEF Request, ExpanderInv, Fields
  <2>3. Place'
    BY <2>1 DEF ExpanderInv, Place
  <2>4. (out = Source!Stream(given))'
    BY <2>1 DEF ExpanderInv, Source!Stream
  <2> QED
    BY <1>1, <2>2, <2>3, <2>4 DEF ExpanderInv, Request, Source!Accept
<1>2. ASSUME Enough
      PROVE  ExpanderInv' /\ \E n \in 0..MaxLen : Source!Give(n)
  <2>1. /\ xlen \in 0..(BlockLen - buffer_pos) /\ Write(xlen)
        /\ xlen' = 0 /\ given' = given + xlen
        /\ xlen > 0
        /\ buffer_pos' = buffer_pos + xlen
        /\ UNCHANGED <<length_remaining, ctr, block>>
    BY <1>2 DEF Enough, given, ExpanderInv, Fields
  <2>2. out' = Source!Stream(given')
    BY <2>1, WriteAppends
  <2>3. Fields'
    BY <2>1 DEF ExpanderInv, Fields
  <2>4. Place'
    BY <2>1 DEF ExpanderInv, Fields, Place
  <2>5. given' \in 0..MaxLen /\ given' <= MaxLen - length_remaining
    BY <2>1 DEF ExpanderInv, Fields, given
  <2> QED
    BY <2>1, <2>2, <2>3, <2>4, <2>5 DEF ExpanderInv, Source!Give, Source!Stream
<1>3. ASSUME Refill
      PROVE  ExpanderInv' /\ \E n \in 0..MaxLen : Source!Give(n)
  <2>1. /\ Write(BlockLen - buffer_pos)
        /\ BlockLen - buffer_pos \in 0..(BlockLen - buffer_pos)
        /\ UNCHANGED length_remaining
        /\ xlen' = xlen - (BlockLen - buffer_pos) /\ xlen' > 0
        /\ buffer_pos' = 0
    BY <1>3 DEF Refill, ExpanderInv, Fields
  <2>2. /\ Place' /\ block' \in 0..(CtrSize - 1) /\ ctr' \in Nat
        /\ given' = given + (BlockLen - buffer_pos)
    BY <1>3, RefillPlace
  <2>3. out' = Source!Stream(given')
    BY <2>1, <2>2, WriteAppends
  <2>4. Fields'
    BY <2>1, <2>2 DEF ExpanderInv, Fields
  <2>5. given' \in 0..MaxLen /\ given' <= MaxLen - length_remaining
    BY <2>1, <2>4 DEF ExpanderInv, Fields, given
  <2> QED
    BY <2>1, <2>2, <2>3, <2>4, <2>5 DEF ExpanderInv, Source!Give, Source!Stream
<1>4. CASE UNCHANGED expanderVars
  BY <1>4 DEF expanderVars, ctx, ExpanderInv, Fields, Place, given, Source!Stream
<1> QED
  BY <1>1, <1>2, <1>3, <1>4 DEF ExpanderNext, Source!Next

(***************************************************************************)
(* seedexpander gives the one stream of its seed, in order, however the    *)
(* requests are split: for every length of a block, every maxlen and every *)
(* width of the counter that has a value for each block of it.             *)
(***************************************************************************)
THEOREM ExpanderGivesStream == ExpanderSpec => GivesStream
<1>1. seedexpander_init => ExpanderInv /\ Source!Init
  BY ExpanderInitInv, ExpanderAssumption
     DEF seedexpander_init, Source!Init, Source!Stream
<1>2. ExpanderInv /\ [ExpanderNext]_expanderVars
        => ExpanderInv' /\ [Source!Next]_<<length_remaining, out>>
  BY ExpanderStepInv
<1> QED
  BY <1>1, <1>2, PTL DEF ExpanderSpec, GivesStream

----------------------------------------------------------------------------

LEMMA Tuples ==
  ASSUME NEW k, NEW n, NEW i
  PROVE  <<k, n, i>> # Zeroed /\ <<k, n, i>> # Beyond /\ Zeroed # Beyond
<1>1. Len(<<k, n, i>>) = 3 /\ Len(<<>>) = 0 /\ Len(<<"beyond the pool">>) = 1
  OBVIOUS
<1>2. 3 # 0 /\ 3 # 1 /\ 0 # 1
  OBVIOUS
<1>3. Len(<<k, n, i>>) # Len(<<>>) /\ Len(<<k, n, i>>) # Len(<<"beyond the pool">>)
        /\ Len(<<>>) # Len(<<"beyond the pool">>)
  BY <1>1, <1>2
<1> QED
  BY <1>3, Zenon DEF Zeroed, Beyond

LEMMA TripleEqual ==
  ASSUME NEW a1, NEW b, NEW c, NEW k, NEW n, NEW i, <<a1, b, c>> = <<k, n, i>>
  PROVE  a1 = k /\ b = n /\ c = i
<1>1. /\ <<a1, b, c>>[1] = a1 /\ <<k, n, i>>[1] = k
      /\ <<a1, b, c>>[2] = b /\ <<k, n, i>>[2] = n
      /\ <<a1, b, c>>[3] = c /\ <<k, n, i>>[3] = i
  OBVIOUS
<1> QED
  BY <1>1, Zenon

(* The streams made so far, and the bytes of streams ids.                  *)
Ids == {streams[j] : j \in DOMAIN streams}
Made(ids) == {<<st[1], st[2], i>> : st \in ids, i \in Bytes}

(* What may stand in the pool from place pos on, when the bytes of used    *)
(* have been given.                                                        *)
Ready(pool, pos, used, ids) ==
  \A i \in pos..(PoolLen - 1) :
    \/ pool[i] = Zeroed /\ i < KeyBytes
    \/ /\ pool[i] \notin used
       /\ \E st \in ids : pool[i] = <<st[1], st[2], i>>

PoolTypes == /\ randpos \in 0..PoolLen
             /\ randpool = [i \in Bytes |-> randpool[i]]
             /\ \E S : streams \in Seq(S)
             /\ \A st \in Ids : st = <<st[1], st[2]>>
             /\ Len(word) \in Nat /\ DOMAIN word = 1..Len(word)

PoolInv == /\ PoolTypes
       /\ taken \cup Given \subseteq Made(Ids) \cup {Zeroed}
       /\ Ready(randpool, randpos, taken \cup Given, Ids)
       /\ WordsFresh

LEMMA PoolInitInv == PoolInit => PoolInv
<1> SUFFICES ASSUME PoolInit PROVE PoolInv
  OBVIOUS
<1>1. PoolLen \in Nat
  BY PoolAssumption
<1>2. word = <<>> /\ Given = {} /\ taken = {} /\ streams = <<>>
  BY DEF PoolInit, Given
<1>3. PoolTypes
  <2>1. streams \in Seq({})
    BY <1>2
  <2> QED
    BY <1>1, <1>2, <2>1 DEF PoolInit, PoolTypes, Ids
<1>4. Ready(randpool, randpos, taken \cup Given, Ids)
  BY <1>1 DEF PoolInit, Ready
<1>5. WordsFresh
  BY <1>2 DEF WordsFresh
<1> QED
  BY <1>2, <1>3, <1>4, <1>5 DEF PoolInv

(* Bytes taken from a pool that is ready are fresh.                        *)
LEMMA TakeFresh ==
  ASSUME NEW pool, NEW pos \in Nat, NEW width \in Nat \ {0}, NEW ids,
         pos + width <= PoolLen,
         Ready(pool, pos, taken \cup Given, ids),
         taken \cup Given \subseteq Made(ids) \cup {Zeroed},
         TakeFrom(pool, pos, width)
  PROVE  /\ randpos' \in 0..PoolLen
         /\ Len(word') \in Nat /\ DOMAIN word' = 1..Len(word')
         /\ (taken \cup Given)' \subseteq Made(ids) \cup {Zeroed}
         /\ Ready(pool, randpos', (taken \cup Given)', ids)
         /\ WordsFresh'
<1> USE PoolAssumption
<1>1. /\ word' = [i \in 1..width |-> pool[pos + i - 1]]
      /\ \A i \in 1..width : pos + i - 1 \in pos..(PoolLen - 1)
                             /\ pos + i - 1 \in Bytes
  <2>1. \A i \in 1..width : pos + i - 1 \in pos..(PoolLen - 1)
                             /\ pos + i - 1 \in Bytes
    BY DEF Bytes
  <2> QED
    BY <2>1 DEF TakeFrom
<1>2. Len(word') = width /\ DOMAIN word' = 1..width
  BY <1>1
<1>3. randpos' = pos + width /\ taken' = taken \cup Given
  BY DEF TakeFrom
<1>4. \A i \in 1..width :
        \/ word'[i] = Zeroed /\ pos + i - 1 < KeyBytes
        \/ /\ word'[i] \notin taken \cup Given
           /\ \E st \in ids : word'[i] = <<st[1], st[2], pos + i - 1>>
  BY <1>1 DEF Ready
<1>5. Given' = {word'[i] : i \in 1..width}
  BY <1>2 DEF Given
<1>6. Given' \subseteq Made(ids) \cup {Zeroed}
  <2> SUFFICES ASSUME NEW i \in 1..width, word'[i] # Zeroed
               PROVE  word'[i] \in Made(ids)
    BY <1>5
  <2>1. PICK st \in ids : word'[i] = <<st[1], st[2], pos + i - 1>>
    BY <1>4
  <2>2. pos + i - 1 \in Bytes
    BY <1>1
  <2> QED
    <3> DEFINE b == pos + i - 1
    <3>1. b \in Bytes /\ word'[i] = <<st[1], st[2], b>>
      BY <2>1, <2>2
    <3> HIDE DEF b
    <3> QED
      BY <3>1 DEF Made
<1>7. Ready(pool, randpos', (taken \cup Given)', ids)
  <2> SUFFICES ASSUME NEW i \in (pos + width)..(PoolLen - 1),
                      ~(pool[i] = Zeroed /\ i < KeyBytes)
               PROVE  /\ pool[i] \notin taken \cup Given \cup Given'
                      /\ \E st \in ids : pool[i] = <<st[1], st[2], i>>
    BY <1>3 DEF Ready
  <2>1. i \in pos..(PoolLen - 1)
    OBVIOUS
  <2>2. /\ pool[i] \notin taken \cup Given
        /\ \E st \in ids : pool[i] = <<st[1], st[2], i>>
    BY <2>1 DEF Ready
  <2>3. ASSUME NEW j \in 1..width PROVE pool[i] # word'[j]
    <3>1. pos + j - 1 # i
      OBVIOUS
    <3> QED
      BY <1>4, <2>2, <3>1, Tuples
  <2> QED
    BY <1>5, <2>2, <2>3
<1>8. WordsFresh'
  <2>1. Beyond \notin Given'
    <3> SUFFICES ASSUME NEW i \in 1..width PROVE word'[i] # Beyond
      BY <1>5
    <3>1. CASE word'[i] = Zeroed
      BY <3>1, Tuples, Zenon
    <3>2. CASE word'[i] # Zeroed
      <4>1. PICK st \in ids : word'[i] = <<st[1], st[2], pos + i - 1>>
        BY <1>4, <3>2
      <4> QED
        BY <4>1, Tuples, Zenon
    <3> QED
      BY <3>1, <3>2
  <2>2. Given' \cap taken' \subseteq {Zeroed}
    BY <1>3, <1>4, <1>5
  <2>3. \A i, j \in 1..width : word'[i] = word'[j] /\ i # j => word'[i] = Zeroed
    <3> SUFFICES ASSUME NEW i \in 1..width, NEW j \in 1..width,
                        word'[i] = word'[j], i # j, word'[i] # Zeroed
                 PROVE  FALSE
      OBVIOUS
    <3>1. PICK st \in ids : word'[i] = <<st[1], st[2], pos + i - 1>>
      BY <1>4
    <3>2. PICK t \in ids : word'[j] = <<t[1], t[2], pos + j - 1>>
      BY <1>4
    <3>3. <<st[1], st[2], pos + i - 1>> = <<t[1], t[2], pos + j - 1>>
      BY <3>1, <3>2, Zenon
    <3>4. pos + i - 1 = pos + j - 1
      BY <3>3, TripleEqual, Zenon
    <3> QED
      BY <3>4
  <2>4. Zeroed \in Given' => randpos' - Len(word') < KeyBytes
    <3> SUFFICES ASSUME NEW i \in 1..width, word'[i] = Zeroed
                 PROVE  pos < KeyBytes
      BY <1>2, <1>3, <1>5
    <3>1. pos + i - 1 < KeyBytes
      BY <1>4, Tuples
    <3> QED
      BY <3>1
  <2> QED
    BY <1>2, <2>1, <2>2, <2>3, <2>4 DEF WordsFresh
<1> QED
  BY <1>2, <1>3, <1>6, <1>7, <1>8

(* A stream that differs from all before it adds its name to Ids.          *)
LEMMA NewStream ==
  ASSUME PoolTypes, Stream, StreamsDiffer'
  PROVE  /\ \E S : streams' \in Seq(S)
         /\ Ids' = Ids \cup {<<key', nonce>>}
         /\ <<key', nonce>> \notin Ids
         /\ \A st \in Ids' : st = <<st[1], st[2]>>
<1> DEFINE new == <<key', nonce>>
<1>1. PICK S : streams \in Seq(S)
  BY DEF PoolTypes
<1>2. streams' = Append(streams, new)
  BY DEF Stream
<1>3. streams' \in Seq(S \cup {new})
  <2> HIDE DEF new
  <2> QED
    BY <1>1, <1>2
<1>4. /\ Len(streams) \in Nat /\ DOMAIN streams = 1..Len(streams)
      /\ DOMAIN streams' = 1..(Len(streams) + 1)
      /\ \A j \in 1..Len(streams) : streams'[j] = streams[j]
      /\ streams'[Len(streams) + 1] = new
  <2> HIDE DEF new
  <2> QED
    BY <1>1, <1>2
<1>5. Ids' = Ids \cup {new}
  <2> HIDE DEF new
  <2> QED
    BY <1>4 DEF Ids
<1>6. new \notin Ids
  <2> HIDE DEF new
  <2> SUFFICES ASSUME NEW j \in 1..Len(streams), streams[j] = new
               PROVE  FALSE
    BY <1>4 DEF Ids
  <2>1. streams'[j] = streams'[Len(streams) + 1]
    BY <1>4
  <2> QED
    BY <1>4, <2>1 DEF StreamsDiffer
<1>7. new = <<new[1], new[2]>>
  OBVIOUS
<1> QED
  BY <1>3, <1>5, <1>6, <1>7 DEF PoolTypes

LEMMA PairOfTriple ==
  ASSUME NEW a1, NEW b, NEW c, NEW k, NEW n, NEW i, <<a1, b, c>> = <<k, n, i>>
  PROVE  <<a1, b>> = <<k, n>>
<1>1. <<a1, b, c>>[1] = a1 /\ <<k, n, i>>[1] = k
  OBVIOUS
<1>2. <<a1, b, c>>[2] = b /\ <<k, n, i>>[2] = n
  OBVIOUS
<1>3. a1 = k /\ b = n
  BY <1>1, <1>2, Zenon
<1> QED
  BY <1>3, Zenon

(* Its bytes were not made before.                                         *)
LEMMA NewBytes ==
  ASSUME PoolTypes, NEW k, NEW n, <<k, n>> \notin Ids, NEW i
  PROVE  <<k, n, i>> \notin Made(Ids)
<1> SUFFICES ASSUME NEW st \in Ids, NEW j \in Bytes,
                    <<st[1], st[2], j>> = <<k, n, i>>
             PROVE  FALSE
  BY DEF Made
<1>1. <<st[1], st[2]>> = <<k, n>>
  BY PairOfTriple, Zenon
<1>2. st = <<st[1], st[2]>>
  BY DEF PoolTypes
<1> QED
  BY <1>1, <1>2, Zenon

(* What was made stays made, and a pool stays ready, when ids grows.       *)
LEMMA MoreIds ==
  ASSUME NEW ids, NEW more, ids \subseteq more
  PROVE  /\ Made(ids) \subseteq Made(more)
         /\ \A pool, pos, used : Ready(pool, pos, used, ids)
                                    => Ready(pool, pos, used, more)
<1>1. Made(ids) \subseteq Made(more)
  BY DEF Made
<1>2. ASSUME NEW pool, NEW pos, NEW used, Ready(pool, pos, used, ids)
      PROVE  Ready(pool, pos, used, more)
  BY <1>2 DEF Ready
<1> QED
  BY <1>1, <1>2

LEMMA FillReady ==
  ASSUME PoolInv, Fill, StreamsDiffer'
  PROVE  /\ randpool' = [i \in Bytes |-> randpool'[i]]
         /\ taken \cup Given \subseteq Made(Ids') \cup {Zeroed}
         /\ Ready(randpool', 0, taken \cup Given, Ids')
<1>1. Stream /\ randpool' = [i \in Bytes |-> <<key', nonce, i>>]
  BY DEF Fill
<1>2. Ids' = Ids \cup {<<key', nonce>>} /\ <<key', nonce>> \notin Ids
  BY <1>1, NewStream DEF PoolInv
<1>3. taken \cup Given \subseteq Made(Ids) \cup {Zeroed}
  BY DEF PoolInv
<1>4. Made(Ids) \subseteq Made(Ids')
  BY <1>2, MoreIds
<1>5. Ready(randpool', 0, taken \cup Given, Ids')
  <2> SUFFICES ASSUME NEW i \in 0..(PoolLen - 1)
               PROVE  /\ randpool'[i] \notin taken \cup Given
                      /\ \E st \in Ids' : randpool'[i] = <<st[1], st[2], i>>
    BY DEF Ready
  <2>1. randpool'[i] = <<key', nonce, i>>
    BY <1>1 DEF Bytes
  <2>2. <<key', nonce, i>> \notin Made(Ids)
    BY <1>2, NewBytes DEF PoolInv
  <2>3. <<key', nonce, i>> # Zeroed
    BY Tuples
  <2>4. randpool'[i] \notin taken \cup Given
    BY <1>3, <2>1, <2>2, <2>3, Zenon
  <2>5. <<key', nonce>> \in Ids' /\ <<key', nonce>>[1] = key'
          /\ <<key', nonce>>[2] = nonce
    BY <1>2
  <2> QED
    BY <2>1, <2>4, <2>5, Zenon
<1> QED
  BY <1>1, <1>3, <1>4, <1>5

LEMMA TakeKeeps ==
  ASSUME PoolInv, NEW width \in 1..Long, Take(width), StreamsDiffer'
  PROVE  PoolInv'
<1> USE PoolAssumption
<1>1. CASE randpos >= PoolLen - width
  <2>1. Fill /\ Stream /\ TakeFrom(randpool', 0, width)
    BY <1>1 DEF Take, Fill
  <2>2. 0 \in Nat /\ width \in Nat \ {0} /\ 0 + width <= PoolLen
    OBVIOUS
  <2>3. /\ randpool' = [i \in Bytes |-> randpool'[i]]
        /\ taken \cup Given \subseteq Made(Ids') \cup {Zeroed}
        /\ Ready(randpool', 0, taken \cup Given, Ids')
    BY <2>1, FillReady
  <2>4. /\ randpos' \in 0..PoolLen
        /\ Len(word') \in Nat /\ DOMAIN word' = 1..Len(word')
        /\ (taken \cup Given)' \subseteq Made(Ids') \cup {Zeroed}
        /\ Ready(randpool', randpos', (taken \cup Given)', Ids')
        /\ WordsFresh'
    BY <2>1, <2>2, <2>3, TakeFresh
  <2>5. /\ \E S : streams' \in Seq(S)
        /\ \A st \in Ids' : st = <<st[1], st[2]>>
    BY <2>1, NewStream DEF PoolInv
  <2>6. PoolTypes'
    BY <2>3, <2>4, <2>5 DEF PoolTypes
  <2> QED
    BY <2>4, <2>6 DEF PoolInv
<1>2. CASE ~(randpos >= PoolLen - width)
  <2>1. TakeFrom(randpool, randpos, width)
        /\ UNCHANGED <<init, key, nonce, randpool, streams, drbgVars>>
    BY <1>2 DEF Take
  <2>2. randpos \in Nat /\ width \in Nat \ {0} /\ randpos + width <= PoolLen
    BY <1>2 DEF PoolInv, PoolTypes
  <2>3. /\ taken \cup Given \subseteq Made(Ids) \cup {Zeroed}
        /\ Ready(randpool, randpos, taken \cup Given, Ids)
    BY DEF PoolInv
  <2>4. /\ randpos' \in 0..PoolLen
        /\ Len(word') \in Nat /\ DOMAIN word' = 1..Len(word')
        /\ (taken \cup Given)' \subseteq Made(Ids) \cup {Zeroed}
        /\ Ready(randpool, randpos', (taken \cup Given)', Ids)
        /\ WordsFresh'
    BY <2>1, <2>2, <2>3, TakeFresh
  <2>5. Ids' = Ids /\ randpool' = randpool /\ streams' = streams
    BY <2>1 DEF Ids
  <2>6. PoolTypes'
    BY <2>4, <2>5 DEF PoolTypes, PoolInv
  <2> QED
    BY <2>4, <2>5, <2>6 DEF PoolInv
<1> QED
  BY <1>1, <1>2

LEMMA InitStep ==
  ASSUME PoolInv, rng_init, StreamsDiffer'
  PROVE  PoolInv'
<1>1. Fill /\ Stream /\ randpos' = 0 /\ UNCHANGED <<word, taken>>
  BY DEF rng_init, Fill
<1>2. /\ randpool' = [i \in Bytes |-> randpool'[i]]
      /\ taken \cup Given \subseteq Made(Ids') \cup {Zeroed}
      /\ Ready(randpool', 0, taken \cup Given, Ids')
  BY <1>1, FillReady
<1>3. /\ \E S : streams' \in Seq(S)
      /\ \A st \in Ids' : st = <<st[1], st[2]>>
  BY <1>1, NewStream DEF PoolInv
<1>4. Given' = Given /\ taken' = taken /\ word' = word
  BY <1>1 DEF Given
<1>5. PoolTypes'
  BY <1>1, <1>2, <1>3, <1>4, PoolAssumption DEF PoolTypes, PoolInv
<1>6. 0 - Len(word) < KeyBytes \/ Zeroed \notin Given
  BY PoolAssumption DEF PoolInv, PoolTypes, WordsFresh, Given
<1>7. WordsFresh'
  BY <1>1, <1>4, <1>6 DEF PoolInv, WordsFresh
<1> QED
  BY <1>1, <1>2, <1>4, <1>5, <1>7 DEF PoolInv

LEMMA StreamOnlyStep ==
  ASSUME PoolInv, fastrandombytes, StreamsDiffer'
  PROVE  PoolInv'
<1>1. Stream /\ UNCHANGED <<randpool, randpos, word, taken>>
  BY DEF fastrandombytes
<1>2. /\ \E S : streams' \in Seq(S)
      /\ Ids \subseteq Ids'
      /\ \A st \in Ids' : st = <<st[1], st[2]>>
  BY <1>1, NewStream DEF PoolInv
<1>3. Given' = Given
  BY <1>1 DEF Given
<1>4. PoolTypes'
  BY <1>1, <1>2 DEF PoolInv, PoolTypes
<1>5. Ready(randpool, randpos, taken \cup Given, Ids')
        /\ Made(Ids) \subseteq Made(Ids')
  BY <1>2, MoreIds DEF PoolInv
<1>6. WordsFresh'
  BY <1>1, <1>3 DEF PoolInv, WordsFresh
<1> QED
  BY <1>1, <1>3, <1>4, <1>5, <1>6 DEF PoolInv

LEMMA CleanupStep ==
  ASSUME PoolInv, rng_cleanup
  PROVE  PoolInv'
<1> USE PoolAssumption
<1>1. UNCHANGED <<randpos, word, taken, streams>>
  BY DEF rng_cleanup
<1>2. Given' = Given /\ Ids' = Ids
  BY <1>1 DEF Given, Ids
<1>3. /\ randpool' = [i \in Bytes |-> randpool'[i]]
      /\ \A i \in Bytes : \/ randpool'[i] = Zeroed /\ i < KeyBytes
                          \/ randpool'[i] = randpool[i]
  BY DEF rng_cleanup, PoolInv, PoolTypes
<1>4. Ready(randpool', randpos, taken \cup Given, Ids)
  <2> SUFFICES ASSUME NEW i \in randpos..(PoolLen - 1),
                      ~(randpool'[i] = Zeroed /\ i < KeyBytes)
               PROVE  /\ randpool'[i] \notin taken \cup Given
                      /\ \E st \in Ids : randpool'[i] = <<st[1], st[2], i>>
    BY DEF Ready
  <2>1. i \in Bytes
    BY DEF PoolInv, PoolTypes, Bytes
  <2>2. randpool'[i] = randpool[i]
    BY <1>3, <2>1
  <2> QED
    BY <2>2 DEF PoolInv, Ready
<1>5. PoolTypes'
  BY <1>1, <1>2, <1>3 DEF PoolInv, PoolTypes
<1>6. WordsFresh'
  BY <1>1, <1>2 DEF PoolInv, WordsFresh
<1> QED
  BY <1>1, <1>2, <1>4, <1>5, <1>6 DEF PoolInv

LEMMA NextKeeps ==
  ASSUME PoolInv, [PoolNext]_poolVars, StreamsDiffer'
  PROVE  PoolInv'
<1> USE PoolAssumption
<1>1. CASE fastrandombytes
  BY <1>1, StreamOnlyStep
<1>2. CASE rng_init
  BY <1>2, InitStep
<1>3. CASE rng_cleanup
  BY <1>3, CleanupStep
<1>4. CASE rng_uint16
  BY <1>4, TakeKeeps DEF rng_uint16
<1>5. CASE rng_uint64
  BY <1>5, TakeKeeps DEF rng_uint64
<1>6. CASE UNCHANGED poolVars
  <2>1. /\ Given' = Given /\ Ids' = Ids
        /\ UNCHANGED <<randpool, randpos, word, taken, streams>>
    BY <1>6 DEF poolVars, Given, Ids
  <2>2. PoolTypes'
    BY <2>1 DEF PoolInv, PoolTypes
  <2>3. WordsFresh'
    BY <2>1 DEF PoolInv, WordsFresh
  <2> QED
    BY <2>1, <2>2, <2>3 DEF PoolInv
<1> QED
  BY <1>1, <1>2, <1>3, <1>4, <1>5, <1>6 DEF PoolNext

(***************************************************************************)
(* As long as no key and nonce come together twice, no byte of a stream is *)
(* given twice by rng_uint16 and rng_uint64, and none from beyond the      *)
(* pool, whatever refills, cleanups and words of either width lie between.  *)
(***************************************************************************)
THEOREM FreshWhileStreamsDiffer ==
  PoolInit /\ [][PoolNext]_poolVars /\ []StreamsDiffer => []WordsFresh
<1>1. PoolInit => PoolInv
  BY PoolInitInv
<1>2. PoolInv /\ [PoolNext]_poolVars /\ StreamsDiffer' => PoolInv'
  BY NextKeeps
<1>3. PoolInv => WordsFresh
  BY DEF PoolInv
<1> QED
  BY <1>1, <1>2, <1>3, PTL

------------------------------------------------------------------------------

LEMMA CounterDistinct ==
  ASSUME NEW n \in Nat, n <= VSize, NEW v \in Nat,
         NEW i \in 1..n, NEW j \in 1..n, (v + i) % VSize = (v + j) % VSize
  PROVE  i = j
<1>1. VSize \in Nat \ {0} /\ v + i \in Int /\ v + j \in Int
  BY DrbgAssumption
<1>2. Congruent(v + i, v + j, VSize)
  BY DEF Congruent
<1>3. PICK k \in Int : v + i = (v + j) + VSize * k
  BY <1>1, <1>2, CongruentMultiple
<1>4. VSize * k = i - j
  BY <1>1, <1>3
<1>5. -VSize < VSize * k /\ VSize * k < VSize
  BY <1>1, <1>4
<1>6. k = 0
  BY <1>1, <1>5, SmallMultiple
<1> QED
  BY <1>1, <1>4, <1>6

LEMMA PairParts ==
  ASSUME NEW a1, NEW b, NEW c, NEW d1, <<a1, b>> = <<c, d1>>
  PROVE  a1 = c /\ b = d1
<1>1. <<a1, b>>[1] = a1 /\ <<c, d1>>[1] = c /\ <<a1, b>>[2] = b /\ <<c, d1>>[2] = d1
  OBVIOUS
<1> QED
  BY <1>1, Zenon

(* Blocks of a call are as many as it asks for.                            *)
LEMMA BlockCount ==
  ASSUME NEW k, NEW v \in Nat, NEW n \in Nat, n <= VSize
  PROVE  IsFiniteSet(Blocks(k, v, n)) /\ Cardinality(Blocks(k, v, n)) = n
<1> DEFINE g1(i) == <<k, (v + i) % VSize>>
           f == [i \in 1..n |-> g1(i)]
<1>1. \A i, j \in 1..n : f[i] = f[j] => i = j
  <2> SUFFICES ASSUME NEW i \in 1..n, NEW j \in 1..n, f[i] = f[j]
               PROVE  i = j
    OBVIOUS
  <2>1. (v + i) % VSize = (v + j) % VSize
    BY PairParts, Zenon
  <2> QED
    BY <2>1, CounterDistinct
<1>2. \A b \in Blocks(k, v, n) : \E i \in 1..n : f[i] = b
  BY DEF Blocks
<1>3. f \in [1..n -> Blocks(k, v, n)]
  <2>1. \A i \in 1..n : g1(i) \in Blocks(k, v, n)
    BY Zenon DEF Blocks
  <2> HIDE DEF g1
  <2> QED
    BY <2>1
<1>4. f \in Injection(1..n, Blocks(k, v, n))
  <2>1. DOMAIN f = 1..n
    OBVIOUS
  <2> HIDE DEF f
  <2> QED
    BY <1>1, <1>3, <2>1, Zenon DEF Injection, IsInjective
<1>5. f \in Surjection(1..n, Blocks(k, v, n))
  BY <1>2, <1>3, Zenon DEF Surjection
<1>6. ExistsBijection(1..n, Blocks(k, v, n))
  BY <1>4, <1>5, Zenon DEF ExistsBijection, Bijection
<1>7. IsFiniteSet(1..n) /\ Cardinality(1..n) = n
  BY FS_Interval
<1> QED
  BY <1>6, <1>7, FS_Bijection

(* The blocks of the keys used so far, and the keys that are known.  A key *)
(* made by Update is a child of the one it replaces.                       *)
Used == {b[1] : b \in made}
Known == Used \cup {Key}
IsChild(k, p1) == \E v, d1 : k = <<p1, v, d1>>

(***************************************************************************)
(* No key that is known comes from the current one, and the current one    *)
(* has not been used: what comes next from it is new.                      *)
(***************************************************************************)
KeyTypes == /\ V \in 0..(VSize - 1)
            /\ IsFiniteSet(made)
            /\ \A k \in Known : k = NoKey \/ \E p1 \in Used : IsChild(k, p1)
Unused == IF Key = NoKey THEN made = {} /\ V = 0 ELSE Key \notin Used
Barren == \A k \in Known : ~IsChild(k, Key)
SeedKeys == \A d1 : <<NoKey, 0, d1>> \in Known => d1 \in seeded

DrbgInv == KeyTypes /\ Unused /\ Barren /\ SeedKeys

LEMMA NoKeyNoChild == ASSUME NEW p1 PROVE ~IsChild(NoKey, p1)
<1> SUFFICES ASSUME NEW v, NEW d1, NoKey = <<p1, v, d1>> PROVE FALSE
  BY DEF IsChild
<1>1. Len(<<p1, v, d1>>) = 3 /\ Len(<<>>) = 0
  OBVIOUS
<1> QED
  BY <1>1 DEF NoKey

LEMMA OneParent ==
  ASSUME NEW k, NEW p1, NEW p2, IsChild(k, p1), IsChild(k, p2)
  PROVE  p1 = p2
<1>1. PICK v, d1 : k = <<p1, v, d1>>
  BY DEF IsChild
<1>2. PICK v2, d2 : k = <<p2, v2, d2>>
  BY DEF IsChild
<1>3. <<p1, v, d1>>[1] = p1 /\ <<p2, v2, d2>>[1] = p2
  OBVIOUS
<1> QED
  BY <1>1, <1>2, <1>3, Zenon

LEMMA DrbgInitInv == DrbgInit => DrbgInv
<1> SUFFICES ASSUME DrbgInit PROVE DrbgInv
  OBVIOUS
<1>1. made = {} /\ Key = NoKey /\ V = 0 /\ Used = {} /\ Known = {NoKey}
  BY DEF DrbgInit, Used, Known
<1>2. IsFiniteSet(made)
  BY <1>1, FS_EmptySet
<1>3. KeyTypes
  BY <1>1, <1>2, DrbgAssumption DEF KeyTypes
<1>4. Unused /\ Barren
  BY <1>1, NoKeyNoChild DEF Unused, Barren
<1>5. SeedKeys
  <2> SUFFICES ASSUME NEW d1, <<NoKey, 0, d1>> \in Known PROVE FALSE
    BY DEF SeedKeys
  <2>1. IsChild(<<NoKey, 0, d1>>, NoKey)
    BY DEF IsChild
  <2> QED
    BY <1>1, <2>1, NoKeyNoChild
<1> QED
  BY <1>3, <1>4, <1>5 DEF DrbgInv

(* A call of randombytes makes new blocks only.                            *)
LEMMA CallBlocks ==
  ASSUME DrbgInv, NEW n \in 1..MaxBlocks, randombytes(n)
  PROVE  /\ made' = made \cup Blocks(Key, V, n + 3)
         /\ made \cap Blocks(Key, V, n + 3) = {}
         /\ Key' = <<Key, (V + n) % VSize, NoData>>
<1> USE DrbgAssumption
<1>1. V \in Nat /\ n \in Nat
  BY DEF DrbgInv, KeyTypes
<1>2. Blocks(Key, V, n) \cup Blocks(Key, V + n, 3) = Blocks(Key, V, n + 3)
  <2> DEFINE f(i) == <<Key, (V + i) % VSize>>
  <2>1. Blocks(Key, V, n) = {f(i) : i \in 1..n}
    BY DEF Blocks
  <2>2. Blocks(Key, V, n + 3) = {f(i) : i \in 1..(n + 3)}
    BY DEF Blocks
  <2>3. Blocks(Key, V + n, 3) = {f(i) : i \in (n + 1)..(n + 3)}
    <3>1. \A j \in 1..3 : n + j \in (n + 1)..(n + 3) /\ (V + n) + j = V + (n + j)
      BY <1>1
    <3>2. \A i \in (n + 1)..(n + 3) : i - n \in 1..3 /\ (V + n) + (i - n) = V + i
      BY <1>1
    <3> QED
      BY <3>1, <3>2 DEF Blocks
  <2> HIDE DEF f
  <2>4. 1..(n + 3) = (1..n) \cup ((n + 1)..(n + 3))
    BY <1>1
  <2> QED
    BY <2>1, <2>2, <2>3, <2>4
<1>3. made' = made \cup Blocks(Key, V, n) \cup Blocks(Key, V + n, 3)
  BY DEF randombytes, Update
<1>4. \A b \in Blocks(Key, V, n + 3) : b[1] = Key
  BY DEF Blocks
<1>5. made \cap Blocks(Key, V, n + 3) = {}
  BY <1>4 DEF DrbgInv, Unused, Used
<1>6. Key' = <<Key, (V + n) % VSize, NoData>>
  BY DEF randombytes, Update
<1> QED
  BY <1>2, <1>3, <1>5, <1>6

LEMMA FirstBlock ==
  ASSUME NEW k, NEW v, NEW n \in Nat \ {0}
  PROVE  /\ <<k, (v + 1) % VSize>> \in Blocks(k, v, n)
         /\ {b[1] : b \in Blocks(k, v, n)} = {k}
<1>1. 1 \in 1..n
  OBVIOUS
<1>2. <<k, (v + 1) % VSize>> \in Blocks(k, v, n)
  BY <1>1, Zenon DEF Blocks
<1>3. \A b \in Blocks(k, v, n) : b[1] = k
  BY DEF Blocks
<1> QED
  BY <1>2, <1>3

(* What Update leaves for the invariant: a child of k, whose blocks have   *)
(* been made, becomes the key.                                             *)
LEMMA ChildKeeps ==
  ASSUME KeyTypes, NEW k, k = NoKey \/ k = Key, IsChild(Key', k), Key' \notin Known \cup {k},
         Used' = Used \cup {k}, IsFiniteSet(made'), V' \in 0..(VSize - 1)
  PROVE  KeyTypes' /\ Unused' /\ Barren' /\ Known' \subseteq Known \cup {k, Key'}
<1>1. Known' \subseteq Known \cup {k, Key'}
  BY DEF Known
<1>2. Key' # NoKey
  BY NoKeyNoChild
<1>3. Unused'
  BY <1>2 DEF Unused, Known
<1>4. \A c \in Known' : c = NoKey \/ \E p1 \in Used' : IsChild(c, p1)
  <2> SUFFICES ASSUME NEW c \in Known', c # NoKey
               PROVE  \E p1 \in Used' : IsChild(c, p1)
    OBVIOUS
  <2>1. CASE c \in Known
    BY <2>1 DEF KeyTypes
  <2>2. CASE c = Key'
    BY <2>2
  <2>3. CASE c = k
    BY <2>1, <2>3 DEF Known
  <2> QED
    BY <1>1, <2>1, <2>2, <2>3
<1>5. \A c \in Known' : ~IsChild(c, Key')
  <2> SUFFICES ASSUME NEW c \in Known', IsChild(c, Key') PROVE FALSE
    OBVIOUS
  <2>1. c # NoKey
    BY NoKeyNoChild
  <2>2. CASE c = Key'
    <3>1. k = Key'
      BY <2>2, OneParent
    <3> QED
      BY <3>1
  <2>3. CASE c \in Known
    <3>1. PICK p1 \in Used : IsChild(c, p1)
      BY <2>1, <2>3 DEF KeyTypes
    <3>2. p1 = Key'
      BY <3>1, OneParent
    <3> QED
      BY <3>2 DEF Known
  <2> QED
    BY <1>1, <2>1, <2>2, <2>3 DEF Known
<1>6. KeyTypes'
  BY <1>4 DEF KeyTypes
<1>7. Barren'
  BY <1>5 DEF Barren
<1> QED
  BY <1>1, <1>3, <1>6, <1>7

LEMMA CallKeeps ==
  ASSUME DrbgInv, NEW n \in 1..MaxBlocks, randombytes(n)
  PROVE  DrbgInv'
<1> USE DrbgAssumption
<1>1. /\ made' = made \cup Blocks(Key, V, n + 3)
      /\ Key' = <<Key, (V + n) % VSize, NoData>>
  BY CallBlocks
<1>2. V \in Nat /\ n + 3 \in Nat \ {0} /\ n + 3 <= VSize
  BY DEF DrbgInv, KeyTypes
<1>3. Used' = Used \cup {Key}
  <2>1. {b[1] : b \in Blocks(Key, V, n + 3)} = {Key}
    BY <1>2, FirstBlock
  <2> QED
    BY <1>1, <2>1 DEF Used
<1>4. IsFiniteSet(made')
  <2>1. IsFiniteSet(Blocks(Key, V, n + 3))
    BY <1>2, BlockCount
  <2> QED
    BY <1>1, <2>1, FS_Union DEF DrbgInv, KeyTypes
<1>5. V' \in 0..(VSize - 1)
  BY DEF randombytes, Update
<1>6. IsChild(Key', Key)
  BY <1>1 DEF IsChild
<1>7. Key' \notin Known \cup {Key}
  BY <1>6 DEF DrbgInv, Barren, Known
<1>8. KeyTypes' /\ Unused' /\ Barren' /\ Known' \subseteq Known \cup {Key, Key'}
  BY <1>3, <1>4, <1>5, <1>6, <1>7, ChildKeeps DEF DrbgInv
<1>9. SeedKeys'
  <2> SUFFICES ASSUME NEW d1, <<NoKey, 0, d1>> \in Known' PROVE d1 \in seeded'
    BY DEF SeedKeys
  <2>1. seeded' = seeded
    BY DEF randombytes
  <2>2. <<NoKey, 0, d1>> # Key'
    <3> SUFFICES ASSUME <<NoKey, 0, d1>> = <<Key, (V + n) % VSize, NoData>>
                 PROVE  FALSE
      BY <1>1
    <3>1. Key = NoKey /\ (V + n) % VSize = 0
      BY TripleEqual
    <3>2. V = 0
      BY <3>1 DEF DrbgInv, Unused
    <3>3. n % VSize = n
      BY <1>2
    <3> QED
      BY <3>1, <3>2, <3>3
  <2>3. <<NoKey, 0, d1>> \in Known
    BY <1>8, <2>2 DEF Known
  <2> QED
    BY <2>1, <2>3 DEF DrbgInv, SeedKeys
<1> QED
  BY <1>8, <1>9 DEF DrbgInv

LEMMA SeedKeeps ==
  ASSUME DrbgInv, NEW seed, randombytes_init(seed)
  PROVE  DrbgInv' /\ made \subseteq made'
<1> USE DrbgAssumption
<1>1. /\ made' = made \cup Blocks(NoKey, 0, 3)
      /\ Key' = <<NoKey, 0 % VSize, seed>> /\ seeded' = seeded \cup {seed}
      /\ seed \notin seeded /\ V' \in 0..(VSize - 1)
  BY DEF randombytes_init, Update
<1>2. 0 % VSize = 0 /\ 3 \in Nat \ {0} /\ 3 <= VSize /\ 0 \in Nat
  OBVIOUS
<1>3. Used' = Used \cup {NoKey}
  <2>1. {b[1] : b \in Blocks(NoKey, 0, 3)} = {NoKey}
    BY <1>2, FirstBlock
  <2> QED
    BY <1>1, <2>1 DEF Used
<1>4. IsFiniteSet(made')
  <2>1. IsFiniteSet(Blocks(NoKey, 0, 3))
    BY <1>2, BlockCount
  <2> QED
    BY <1>1, <2>1, FS_Union DEF DrbgInv, KeyTypes
<1>5. IsChild(Key', NoKey)
  BY <1>1 DEF IsChild
<1>6. Key' \notin Known \cup {NoKey}
  <2>1. Key' # NoKey
    BY <1>5, NoKeyNoChild
  <2>2. Key' \notin Known
    BY <1>1, <1>2 DEF DrbgInv, SeedKeys
  <2> QED
    BY <2>1, <2>2
<1>7. KeyTypes' /\ Unused' /\ Barren' /\ Known' \subseteq Known \cup {NoKey, Key'}
  BY <1>1, <1>3, <1>4, <1>5, <1>6, ChildKeeps DEF DrbgInv
<1>8. SeedKeys'
  <2> SUFFICES ASSUME NEW d1, <<NoKey, 0, d1>> \in Known' PROVE d1 \in seeded'
    BY DEF SeedKeys
  <2>1. <<NoKey, 0, d1>> # NoKey
    <3>1. IsChild(<<NoKey, 0, d1>>, NoKey)
      BY DEF IsChild
    <3> QED
      BY <3>1, NoKeyNoChild
  <2>2. CASE <<NoKey, 0, d1>> = Key'
    <3>1. d1 = seed
      BY <1>1, <2>2, TripleEqual
    <3> QED
      BY <1>1, <3>1
  <2>3. CASE <<NoKey, 0, d1>> \in Known
    BY <1>1, <2>3 DEF DrbgInv, SeedKeys
  <2> QED
    BY <1>7, <2>1, <2>2, <2>3
<1> QED
  BY <1>1, <1>7, <1>8 DEF DrbgInv

LEMMA DrbgStutter ==
  ASSUME DrbgInv, UNCHANGED drbgVars PROVE DrbgInv'
<1>1. Key' = Key /\ V' = V /\ made' = made /\ seeded' = seeded
  BY DEF drbgVars
<1>2. Used' = Used /\ Known' = Known
  BY <1>1 DEF Used, Known
<1> QED
  BY <1>1, <1>2 DEF DrbgInv, KeyTypes, Unused, Barren, SeedKeys

(* Every block of a call is a new one.                                     *)
LEMMA CallCounts ==
  ASSUME DrbgInv, NEW n \in 1..MaxBlocks, randombytes(n)
  PROVE  Cardinality(made') = Cardinality(made) + n + 3
<1> DEFINE B == Blocks(Key, V, n + 3)
<1>1. made' = made \cup B /\ made \cap B = {}
  BY CallBlocks
<1>2. IsFiniteSet(B) /\ Cardinality(B) = n + 3
  BY BlockCount, DrbgAssumption DEF DrbgInv, KeyTypes
<1>3. IsFiniteSet(made) /\ Cardinality(made) \in Nat
  BY FS_CardinalityType DEF DrbgInv, KeyTypes
<1> HIDE DEF B
<1>4. Cardinality(made \cup B) = Cardinality(made) + Cardinality(B) - Cardinality(made \cap B)
  BY <1>2, <1>3, FS_Union
<1>5. Cardinality(made \cap B) = 0
  BY <1>1, FS_EmptySet
<1>6. n \in Int
  OBVIOUS
<1> QED
  BY <1>1, <1>2, <1>3, <1>4, <1>5, <1>6

LEMMA StepKeepsDrbg ==
  ASSUME DrbgInv, RandomNext \/ UNCHANGED <<drbgVars, poolVars>>
  PROVE  DrbgInv' /\ made \subseteq made'
<1>1. \/ \E n \in 1..MaxBlocks : randombytes(n)
      \/ \E seed \in Seeds : randombytes_init(seed)
      \/ UNCHANGED drbgVars
  <2>1. Stream => randombytes(KeyBlocks) \/ UNCHANGED drbgVars
    BY DEF Stream
  <2>2. KeyBlocks \in 1..MaxBlocks
    BY PoolAssumption
  <2>3. \A width : Take(width) => Stream \/ UNCHANGED drbgVars
    BY DEF Take, Fill, drbgVars
  <2>4. PoolNext => Stream \/ UNCHANGED drbgVars
    BY <2>3 DEF PoolNext, fastrandombytes, rng_init, Fill, rng_cleanup,
                rng_uint16, rng_uint64
  <2> QED
    BY <2>1, <2>2, <2>4 DEF RandomNext, DrbgCall
<1>2. ASSUME NEW n \in 1..MaxBlocks, randombytes(n)
      PROVE  DrbgInv' /\ made \subseteq made'
  BY <1>2, CallKeeps, CallBlocks
<1>3. ASSUME NEW seed, randombytes_init(seed)
      PROVE  DrbgInv' /\ made \subseteq made'
  BY <1>3, SeedKeeps
<1>4. ASSUME UNCHANGED drbgVars
      PROVE  DrbgInv' /\ made \subseteq made'
  BY <1>4, DrbgStutter DEF drbgVars
<1> QED
  BY <1>1, <1>2, <1>3, <1>4

LEMMA DrbgInvariance == RandomSpec => []DrbgInv
<1>1. RandomInit => DrbgInv
  BY DrbgInitInv DEF RandomInit
<1>2. DrbgInv /\ [RandomNext]_<<drbgVars, poolVars>> => DrbgInv'
  BY StepKeepsDrbg
<1> QED
  BY <1>1, <1>2, PTL DEF RandomSpec

(***************************************************************************)
(* randombytes never makes a block twice: not the ones it returns, nor the *)
(* three it replaces the key and the counter with, in any sequence of      *)
(* calls and seedings, wherever V wraps.                                   *)
(***************************************************************************)
THEOREM BlocksFresh == RandomSpec => FreshBlocks
<1>1. DrbgInv /\ [RandomNext]_<<drbgVars, poolVars>>
        => [\A n \in 1..MaxBlocks :
              randombytes(n) => Cardinality(made') = Cardinality(made) + n + 3]_drbgVars
  BY CallCounts
<1> QED
  BY <1>1, DrbgInvariance, PTL DEF RandomSpec, FreshBlocks

----------------------------------------------------------------------------

(***************************************************************************)
(* A key of the pool is a set of blocks already made; the current one has  *)
(* been used with nonces below the next one only, unless the nonce has     *)
(* wrapped.                                                                *)
(***************************************************************************)
StreamTypes == /\ \E S : streams \in Seq(S)
               /\ nonce \in 0..(NonceSize - 1) /\ nonce <= Len(streams)
               /\ \A j \in DOMAIN streams : streams[j][2] \in Nat
               /\ init \in BOOLEAN
KeyParts == /\ \A j \in DOMAIN streams :
                 streams[j][1] # {} /\ streams[j][1] \subseteq made
            /\ init => key # {} /\ key \subseteq made
NoncesBelow == init /\ Len(streams) < NonceSize =>
                 \A j \in DOMAIN streams :
                   streams[j][1] = key => streams[j][2] < nonce
Unrepeated == Len(streams) <= NonceSize => StreamsDiffer

StreamInv == StreamTypes /\ KeyParts /\ NoncesBelow /\ Unrepeated

LEMMA StreamInitInv == PoolInit => StreamInv
<1> SUFFICES ASSUME PoolInit PROVE StreamInv
  OBVIOUS
<1>1. streams = <<>> /\ init = FALSE /\ nonce = 0 /\ Len(streams) = 0 /\ DOMAIN streams = {}
  BY DEF PoolInit
<1>2. streams \in Seq({})
  BY <1>1
<1>3. NonceSize \in Nat \ {0}
  BY PoolAssumption
<1>4. StreamTypes
  <2>1. 0 \in 0..(NonceSize - 1) /\ 0 <= 0
    BY <1>3
  <2>2. nonce \in 0..(NonceSize - 1) /\ nonce <= Len(streams) /\ init \in BOOLEAN
    BY <1>1, <2>1, Zenon
  <2>3. \A j \in DOMAIN streams : streams[j][2] \in Nat
    BY <1>1
  <2> QED
    BY <1>2, <2>2, <2>3, Zenon DEF StreamTypes
<1>5. KeyParts /\ NoncesBelow /\ Unrepeated
  BY <1>1 DEF KeyParts, NoncesBelow, Unrepeated, StreamsDiffer
<1> QED
  BY <1>4, <1>5 DEF StreamInv

(* The key of a new stream was made for it, or has had only lower nonces.  *)
LEMMA StreamKey ==
  ASSUME DrbgInv, StreamInv, Stream
  PROVE  /\ key' # {} /\ key' \subseteq made'
         /\ Len(streams) < NonceSize =>
              \A j \in DOMAIN streams : streams[j][1] = key' =>
                /\ key' = key /\ init /\ streams[j][2] < nonce
<1>1. CASE init
  BY <1>1 DEF Stream, StreamInv, KeyParts, NoncesBelow, drbgVars
<1>2. CASE ~init
  <2>1. KeyBlocks \in 1..MaxBlocks
    BY PoolAssumption
  <2>2. key' = Blocks(Key, V, KeyBlocks) /\ randombytes(KeyBlocks)
    BY <1>2 DEF Stream
  <2>3. /\ made' = made \cup Blocks(Key, V, KeyBlocks + 3)
        /\ made \cap Blocks(Key, V, KeyBlocks + 3) = {}
    BY <2>1, <2>2, CallBlocks
  <2>4. key' # {}
    <3>1. KeyBlocks \in Nat \ {0}
      BY <2>1, DrbgAssumption
    <3> QED
      BY <2>2, <3>1, FirstBlock
  <2>5. key' \subseteq Blocks(Key, V, KeyBlocks + 3)
    <3>1. 1..KeyBlocks \subseteq 1..(KeyBlocks + 3)
      BY <2>1, DrbgAssumption
    <3> QED
      BY <2>2, <3>1, Zenon DEF Blocks
  <2>6. \A j \in DOMAIN streams : streams[j][1] # key'
    BY <2>3, <2>4, <2>5 DEF StreamInv, KeyParts
  <2> QED
    BY <2>3, <2>4, <2>5, <2>6
<1> QED
  BY <1>1, <1>2 DEF StreamInv, StreamTypes

LEMMA NewStreamKeeps ==
  ASSUME DrbgInv, StreamInv, Stream, made \subseteq made'
  PROVE  StreamInv'
<1> USE PoolAssumption
<1> DEFINE L == Len(streams)
<1>1. PICK S : streams \in Seq(S)
  BY DEF StreamInv, StreamTypes
<1>2. /\ streams' = Append(streams, <<key', nonce>>)
      /\ streams \in Seq(S \cup {<<key', nonce>>})
  BY <1>1 DEF Stream
<1>3. /\ streams' \in Seq(S \cup {<<key', nonce>>})
      /\ L \in Nat /\ Len(streams') = L + 1
      /\ DOMAIN streams = 1..L /\ DOMAIN streams' = 1..(L + 1)
      /\ \A j \in 1..L : streams'[j] = streams[j]
      /\ streams'[L + 1] = <<key', nonce>>
  BY <1>2
<1>4. <<key', nonce>>[1] = key' /\ <<key', nonce>>[2] = nonce
  OBVIOUS
<1>5. init' = TRUE /\ nonce' = (nonce + 1) % NonceSize
  BY DEF Stream
<1>6. /\ nonce \in 0..(NonceSize - 1) /\ nonce <= L
      /\ nonce' \in 0..(NonceSize - 1) /\ nonce' <= L + 1
      /\ L + 1 < NonceSize => nonce' = nonce + 1
  <2>1. nonce \in 0..(NonceSize - 1) /\ nonce <= L
    BY DEF StreamInv, StreamTypes
  <2>2. nonce + 1 < NonceSize => (nonce + 1) % NonceSize = nonce + 1
    BY <2>1
  <2>3. nonce + 1 = NonceSize => (nonce + 1) % NonceSize = 0
    BY <2>1
  <2> QED
    BY <1>3, <1>5, <2>1, <2>2, <2>3
<1>7. StreamTypes'
  <2>1. \E T : streams' \in Seq(T)
    BY <1>3
  <2>2. \A j \in DOMAIN streams' : streams'[j][2] \in Nat
    <3> SUFFICES ASSUME NEW j \in 1..(L + 1) PROVE streams'[j][2] \in Nat
      BY <1>3
    <3>1. CASE j = L + 1
      BY <1>3, <1>4, <1>6, <3>1
    <3>2. CASE j \in 1..L
      BY <1>3, <3>2 DEF StreamInv, StreamTypes
    <3> QED
      BY <1>3, <3>1, <3>2
  <2> QED
    BY <2>1, <2>2, <1>3, <1>5, <1>6 DEF StreamTypes
<1>8. key' # {} /\ key' \subseteq made'
  BY StreamKey
<1>9. L < NonceSize => \A j \in 1..L : streams[j][1] = key' => streams[j][2] < nonce
  BY <1>3, StreamKey
<1>10. \A j \in 1..(L + 1) : j \in 1..L \/ j = L + 1
  BY <1>3
<1> HIDE DEF L
<1>11. KeyParts'
  <2>1. \A j \in 1..L : streams[j][1] # {} /\ streams[j][1] \subseteq made
    BY <1>3 DEF StreamInv, KeyParts
  <2>2. \A j \in 1..(L + 1) : streams'[j][1] # {} /\ streams'[j][1] \subseteq made'
    BY <1>3, <1>4, <1>8, <1>10, <2>1
  <2> QED
    BY <1>3, <1>8, <2>2 DEF KeyParts
<1>12. NoncesBelow'
  <2> SUFFICES ASSUME L + 1 < NonceSize, NEW j \in 1..(L + 1), streams'[j][1] = key'
               PROVE  streams'[j][2] < nonce'
    BY <1>3 DEF NoncesBelow
  <2>1. nonce' = nonce + 1 /\ nonce \in Int /\ L < NonceSize
    BY <1>3, <1>6
  <2>2. CASE j = L + 1
    BY <1>3, <1>4, <2>1, <2>2
  <2>3. CASE j \in 1..L
    <3>1. streams[j][2] < nonce
      BY <1>3, <1>9, <2>1, <2>3
    <3>2. streams'[j][2] = streams[j][2]
      BY <1>3, <2>3
    <3>3. streams[j][2] \in Int
      BY <1>3, <2>3 DEF StreamInv, StreamTypes
    <3> QED
      BY <2>1, <3>1, <3>2, <3>3
  <2> QED
    BY <1>10, <2>2, <2>3
<1>13. Unrepeated'
  <2> SUFFICES ASSUME L + 1 <= NonceSize, NEW i \in 1..(L + 1), NEW j \in 1..(L + 1),
                      streams'[i] = streams'[j]
               PROVE  i = j
    BY <1>3 DEF Unrepeated, StreamsDiffer
  <2>1. L < NonceSize /\ L <= NonceSize /\ nonce \in Int
    BY <1>3, <1>6
  <2>2. \A k \in 1..L : streams[k] # <<key', nonce>>
    <3> SUFFICES ASSUME NEW k \in 1..L, streams[k] = <<key', nonce>> PROVE FALSE
      OBVIOUS
    <3>1. streams[k][1] = key' /\ streams[k][2] = nonce
      BY <1>4, Zenon
    <3>2. nonce < nonce
      BY <1>9, <2>1, <3>1
    <3> QED
      BY <2>1, <3>2
  <2>3. \A k, l \in 1..L : streams[k] = streams[l] => k = l
    BY <1>3, <2>1 DEF StreamInv, Unrepeated, StreamsDiffer, L
  <2> QED
    BY <1>3, <1>10, <2>2, <2>3
<1> QED
  BY <1>7, <1>11, <1>12, <1>13 DEF StreamInv

LEMMA OtherKeeps ==
  ASSUME StreamInv, made \subseteq made', UNCHANGED streams,
         UNCHANGED <<init, key, nonce>> \/ (init' = FALSE /\ nonce' = 0)
  PROVE  StreamInv'
<1>1. StreamTypes'
  <2>1. PICK S : streams \in Seq(S)
    BY DEF StreamInv, StreamTypes
  <2>2. nonce' \in 0..(NonceSize - 1) /\ nonce' <= Len(streams) /\ init' \in BOOLEAN
    <3>1. 0 \in 0..(NonceSize - 1)
      BY PoolAssumption
    <3>2. Len(streams) \in Nat
      BY <2>1
    <3>3. 0 <= Len(streams)
      BY <3>2
    <3>4. nonce \in 0..(NonceSize - 1) /\ nonce <= Len(streams) /\ init \in BOOLEAN
      BY DEF StreamInv, StreamTypes
    <3> QED
      BY <3>1, <3>3, <3>4
  <2> QED
    BY <2>1, <2>2 DEF StreamInv, StreamTypes
<1>2. KeyParts'
  BY DEF StreamInv, KeyParts
<1>3. NoncesBelow'
  BY DEF StreamInv, NoncesBelow
<1>4. Unrepeated'
  BY DEF StreamInv, Unrepeated, StreamsDiffer
<1> QED
  BY <1>1, <1>2, <1>3, <1>4 DEF StreamInv

LEMMA StreamStep ==
  ASSUME DrbgInv, StreamInv, RandomNext \/ UNCHANGED <<drbgVars, poolVars>>
  PROVE  StreamInv'
<1>1. made \subseteq made'
  BY StepKeepsDrbg
<1>2. \/ Stream
      \/ UNCHANGED streams /\ (UNCHANGED <<init, key, nonce>> \/ (init' = FALSE /\ nonce' = 0))
  <2>1. \A width : Take(width) => Stream \/ UNCHANGED <<streams, init, key, nonce>>
    BY DEF Take, Fill
  <2>2. rng_cleanup => UNCHANGED streams
                       /\ (UNCHANGED <<init, key, nonce>> \/ (init' = FALSE /\ nonce' = 0))
    BY DEF rng_cleanup
  <2>3. UNCHANGED poolVars => UNCHANGED <<streams, init, key, nonce>>
    BY DEF poolVars
  <2> QED
    BY <2>1, <2>2, <2>3 DEF RandomNext, PoolNext, fastrandombytes, rng_init, Fill,
                            rng_uint16, rng_uint64
<1> QED
  BY <1>1, <1>2, NewStreamKeeps, OtherKeeps

LEMMA StreamInvariance == RandomSpec => []StreamInv
<1>1. RandomInit => StreamInv
  BY StreamInitInv DEF RandomInit
<1>2. DrbgInv /\ StreamInv /\ [RandomNext]_<<drbgVars, poolVars>> => StreamInv'
  BY StreamStep
<1> QED
  BY <1>1, <1>2, DrbgInvariance, PTL DEF RandomSpec

(***************************************************************************)
(* Up to NonceSize streams, 2^64 in the code, no key and nonce come        *)
(* together twice, whatever cleanups start the nonce from zero and whoever *)
(* else calls or seeds the generator: a new key is made of new blocks.     *)
(***************************************************************************)
THEOREM StreamsNeverRepeat ==
  RandomSpec => [](Len(streams) <= NonceSize => StreamsDiffer)
<1>1. StreamInv => (Len(streams) <= NonceSize => StreamsDiffer)
  BY DEF StreamInv, Unrepeated
<1> QED
  BY <1>1, StreamInvariance, PTL

(***************************************************************************)
(* From the generator to the words: up to NonceSize streams, no byte of a  *)
(* stream is given twice by rng_uint16 and rng_uint64, and none from       *)
(* beyond the pool.                                                        *)
(***************************************************************************)
THEOREM FreshWords == RandomSpec => [](Len(streams) <= NonceSize => WordsFresh)
<1> DEFINE Few == Len(streams) <= NonceSize
           Inv == Few => PoolInv
<1>1. RandomInit => Inv
  BY PoolInitInv DEF RandomInit
<1>2. StreamInv /\ StreamInv' /\ Inv /\ [RandomNext]_<<drbgVars, poolVars>> => Inv'
  <2> SUFFICES ASSUME StreamInv, StreamInv', Inv, [RandomNext]_<<drbgVars, poolVars>>, Few'
               PROVE  PoolInv'
    OBVIOUS
  <2>1. [PoolNext]_poolVars
    BY DEF RandomNext
  <2>2. Len(streams) \in Nat /\ Len(streams') \in Nat /\ NonceSize \in Nat
    BY PoolAssumption DEF StreamInv, StreamTypes
  <2>3. Len(streams) <= Len(streams')
    <3>1. UNCHANGED streams \/ streams' = Append(streams, <<key', nonce>>)
      <4>1. \A width : Take(width) => Stream \/ UNCHANGED streams
        BY DEF Take, Fill
      <4> QED
        BY <2>1, <4>1 DEF PoolNext, fastrandombytes, rng_init, Fill, Stream, rng_cleanup,
                          rng_uint16, rng_uint64, poolVars
    <3>2. PICK S : streams \in Seq(S)
      BY DEF StreamInv, StreamTypes
    <3>3. streams \in Seq(S \cup {<<key', nonce>>})
      BY <3>2
    <3>4. Len(Append(streams, <<key', nonce>>)) = Len(streams) + 1
      BY <3>3
    <3> QED
      BY <2>2, <3>1, <3>4
  <2>4. PoolInv
    BY <2>2, <2>3
  <2>5. StreamsDiffer'
    BY DEF StreamInv, Unrepeated
  <2> QED
    BY <2>1, <2>4, <2>5, NextKeeps
<1>3. Inv => (Few => WordsFresh)
  BY DEF PoolInv
<1> QED
  BY <1>1, <1>2, <1>3, StreamInvariance, PTL DEF RandomSpec
=============================================================================
