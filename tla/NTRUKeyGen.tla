----------------------------- MODULE NTRUKeyGen -----------------------------
(***************************************************************************)
(* keygen of NTRUEncrypt (NTRUEncrypt.c) with the two functions it repeats *)
(* until they succeed: trinary_poly_gen draws F word by word,              *)
(* ntru_ring_inv looks for the inverse of f = 3F+1 modulo 2 by the         *)
(* almost-inverse algorithm, one iteration of its loop per step.           *)
(***************************************************************************)
EXTENDS NTRURing

CONSTANT GDraws    \* polynomials that may be drawn for g

ASSUME WeightAssumption == 2 * (d + CoeffsPerWord) <= N + 1
ASSUME GAssumption == GDraws \subseteq TrinaryPolys(N, d)

VARIABLES
  pc,         \* "ones" or "minus" while F is drawn, "start" or "inv" while
              \* it is inverted, "lift" before h is computed, "done"
  F, count,   \* the polynomial drawn, locals of trinary_poly_gen
  w,          \* locals of ntru_ring_inv; polynomials as sets of exponents
  f_inv, g, h

keyVars == <<pc, F, count, w, f_inv, g, h>>

(* c_low: c is in the lower of the two adjacent arrays of N bytes, b in    *)
(* the upper one.                                                          *)
NoInv == [f |-> {}, g |-> {}, b |-> {}, c |-> {},
          deg_f |-> 0, deg_g |-> 0, deg_b |-> 0, deg_c |-> 0,
          k |-> 0, c_low |-> FALSE]

KeyInit == /\ pc = "ones"
           /\ F = Zero /\ count = 0
           /\ w = NoInv
           /\ f_inv = Zero /\ g = Zero /\ h = Zero

(* Mutant of Words: one exponent of each word is used.                     *)
Words_Single == {S \in SUBSET Index : Cardinality(S) <= 1}

(* The different exponents below N that a word may give; duplicates and    *)
(* larger exponents are lost.                                              *)
Words == {S \in SUBSET Index : Cardinality(S) <= CoeffsPerWord}

Free(S) == {i \in S : F[i] = 0}

DrawOnes ==
  /\ pc = "ones"
  /\ \E S \in Words :
       LET more == count + Cardinality(Free(S))
       IN  /\ F' = [i \in Index |-> IF i \in Free(S) THEN 1 ELSE F[i]]
           /\ IF more < d + 1 THEN pc' = "ones" /\ count' = more
                              ELSE pc' = "minus" /\ count' = 0
  /\ UNCHANGED <<w, f_inv, g, h>>

DrawMinus ==
  /\ pc = "minus"
  /\ \E S \in Words :
       LET more == count + Cardinality(Free(S))
       IN  /\ F' = [i \in Index |-> IF i \in Free(S) THEN -1 ELSE F[i]]
           /\ IF more < d THEN pc' = "minus" /\ count' = more
                          ELSE pc' = "start" /\ count' = 0
  /\ UNCHANGED <<w, f_inv, g, h>>

(* ntru_ring_inv returned -1: keygen draws another F.                      *)
Refuse == /\ pc' = "ones"
          /\ F' = Zero
          /\ w' = NoInv
          /\ UNCHANGED <<count, f_inv, g, h>>

TopIn(A, deg) == LET B == {e \in A : e <= deg}
                 IN  IF B = {} THEN 0 ELSE Max(B)

(* The parity test and the initial values: b = 1, c = 0, f = a mod 2,      *)
(* g = X^N - 1.                                                            *)
RingInvStart ==
  /\ pc = "start"
  /\ LET f == Odd(SecretF(F))
     IN  IF Cardinality(f) % 2 = 0 THEN Refuse
         ELSE /\ pc' = "inv"
              /\ w' = [NoInv EXCEPT !.f = f, !.deg_f = Max(f),
                                    !.g = {0, N}, !.deg_g = N, !.b = {0}]
              /\ UNCHANGED <<F, count, f_inv, g, h>>

Shift(A, i) == {e + i : e \in A}

(* Mutant of divide: c is not multiplied.                                  *)
divide_OnlyF(x) ==
  LET i == Min(x.f)
  IN  [x EXCEPT !.k = x.k + i, !.f = Shift(x.f, -i), !.deg_f = x.deg_f - i]

(* Mutant of divide: one byte too many is moved.                           *)
divide_OneMore(x) ==
  LET i == Min(x.f)
      c == Shift({e \in x.c : e <= x.deg_c}, i + 1)
      over == x.c_low /\ x.deg_c + i + 1 >= N
  IN  [x EXCEPT !.k = x.k + i, !.f = Shift(x.f, -i), !.deg_f = x.deg_f - i,
                !.c = c, !.deg_c = x.deg_c + i + 1,
                !.b = IF over THEN (x.b \ {0}) \cup {e - N : e \in c \cap {N}}
                      ELSE x.b]

(* While f[0] = 0: f /= X, c *= X.  memmove writes deg_c + i + 1 bytes of  *)
(* the N of c; when they are N + 1, the last one is b[0] if c is the lower *)
(* array, and the first byte of f's array, not read again, if it is not.   *)
divide(x) ==
  LET i == Min(x.f)
      c == Shift({e \in x.c : e <= x.deg_c}, i)
      over == i > 0 /\ x.c_low /\ x.deg_c + i >= N
  IN  [x EXCEPT !.k = x.k + i, !.f = Shift(x.f, -i), !.deg_f = x.deg_f - i,
                !.c = c, !.deg_c = x.deg_c + i,
                !.b = IF over THEN (x.b \ {0}) \cup {e - N : e \in c \cap {N}}
                      ELSE x.b]

(* if deg_f < deg_g, f <-> g, b <-> c                                      *)
exchange(x) ==
  IF x.deg_f >= x.deg_g THEN x
  ELSE [f |-> x.g, g |-> x.f, b |-> x.c, c |-> x.b,
        deg_f |-> x.deg_g, deg_g |-> x.deg_f,
        deg_b |-> x.deg_c, deg_c |-> x.deg_b,
        k |-> x.k, c_low |-> ~x.c_low]

(* f += g, b += c, as far as the degrees kept beside g and c reach.        *)
add_g(x) ==
  LET f == SymDiff(x.f, {e \in x.g : e <= x.deg_g})
      b == SymDiff(x.b, {e \in x.c : e <= x.deg_c})
  IN  [x EXCEPT !.f = f, !.b = b,
                !.deg_f = IF x.deg_g = x.deg_f THEN TopIn(f, x.deg_f)
                          ELSE x.deg_f,
                !.deg_b = IF x.deg_c >= x.deg_b THEN TopIn(b, x.deg_c)
                          ELSE x.deg_b]

(* Mutant of rotated: k is not reduced modulo N.                           *)
rotated_Once(b, k) ==
  [i \in Index |-> IF i + k \in b THEN 1 ELSE 0]

(* The inverse is b rotated by k places.                                   *)
rotated(b, k) ==
  LET j == IF k >= N THEN k - N ELSE k
  IN  [i \in Index |-> IF (i + j) % N \in b THEN 1 ELSE 0]

RingInvStep ==
  /\ pc = "inv"
  /\ IF {e \in w.f : e <= w.deg_f} = {} THEN Refuse
     ELSE LET x == divide(w)
          IN  /\ IF x.deg_f = 0
                 THEN /\ pc' = "lift"
                      /\ f_inv' = rotated(x.b, x.k)
                      /\ w' = x
                 ELSE /\ pc' = "inv"
                      /\ UNCHANGED f_inv
                      /\ w' = add_g(exchange(x))
              /\ UNCHANGED <<F, count, g, h>>

(* Mutant of Finish: h is computed from the inverse modulo 2.              *)
Finish_NotLifted ==
  /\ pc = "lift"
  /\ pc' = "done"
  /\ g' \in GDraws
  /\ h' = ring_mult(f_inv, g')
  /\ w' = NoInv
  /\ UNCHANGED <<F, count, f_inv>>

(* The inverse is lifted to modulo q, g drawn and h = f_inv * g computed.  *)
Finish ==
  /\ pc = "lift"
  /\ pc' = "done"
  /\ f_inv' = ring_lift_inv_pow2(SecretF(F), f_inv)
  /\ g' \in GDraws
  /\ h' = ring_mult(f_inv', g')
  /\ w' = NoInv
  /\ UNCHANGED <<F, count>>

(* That check_keys, which keygen does not call, returns 0.                 *)
check_keys(secret, gg, hh) ==
  ring_mult(SecretF(secret), hh) = [i \in Index |-> gg[i] % q]

KeyNext == DrawOnes \/ DrawMinus \/ RingInvStart \/ RingInvStep \/ Finish

(* Every word has a positive probability: a word that brings a loop of     *)
(* trinary_poly_gen on, and one that makes f invertible, come in time when *)
(* they can come again and again.                                          *)
Fairness ==
  /\ SF_keyVars(DrawOnes /\ F' # F) /\ SF_keyVars(DrawMinus /\ F' # F)
  /\ SF_keyVars(/\ DrawMinus /\ pc' = "start"
             /\ Odd(SecretF(F')) \in Units2)
  /\ WF_keyVars(RingInvStart \/ RingInvStep \/ Finish)

KeySpec == KeyInit /\ [][KeyNext]_keyVars /\ Fairness

----------------------------------------------------------------------------

a == Odd(SecretF(F))

(***************************************************************************)
(* The invariant that gives the algorithm its name: b is the inverse of a  *)
(* up to a power of X and the factor f still to remove, c the same for g;  *)
(* and the degrees the loop keeps never cut off a coefficient.             *)
(***************************************************************************)
AlmostInverse ==
  pc = "inv" =>
    /\ mult_mod_2(w.b, a) = mult_mod_2({w.k}, w.f)
    /\ mult_mod_2(w.c, a) = mult_mod_2({w.k}, w.g)
    /\ w.f \subseteq 0..w.deg_f /\ w.g \subseteq 0..w.deg_g
    /\ w.b \subseteq 0..w.deg_b /\ w.c \subseteq 0..w.deg_c

(***************************************************************************)
(* ntru_ring_inv refuses exactly the polynomials that have no inverse, and *)
(* what it returns for the others is the inverse.                          *)
(***************************************************************************)
InverseDecides ==
  [][/\ pc \in {"start", "inv"} /\ pc' = "ones" => a \notin Units2
     /\ pc = "inv" /\ pc' = "lift" => mult_mod_2(a, Odd(f_inv')) = {0}]_keyVars

(***************************************************************************)
(* An iteration that moves c past its N bytes is the last one, and the     *)
(* byte of b it overwrites already had the value that is written.          *)
(***************************************************************************)
OverrunHarmless ==
  [][(pc = "inv" /\ (w'.deg_b >= N \/ w'.deg_c >= N)) =>
       /\ pc' = "lift"
       /\ w'.b = w.b]_keyVars

(***************************************************************************)
(* check_keys would find nothing: f * h = g, and f * f_inv = 1.            *)
(***************************************************************************)
KeysFit ==
  pc = "done" =>
    /\ check_keys(F, g, h)
    /\ ring_mult(SecretF(F), f_inv) = [Zero EXCEPT ![0] = 1]

(***************************************************************************)
(* keygen ends: some word keeps leading to an invertible f.                *)
(***************************************************************************)
KeyGenEnds == <>(pc = "done")
=============================================================================
