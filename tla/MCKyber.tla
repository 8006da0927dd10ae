------------------------------ MODULE MCKyber -------------------------------
(***************************************************************************)
(* An instance of Kyber for TLC: polynomials of degree 8 modulo 97, 10-bit *)
(* shorts, two layers of the transform, and either of the two programs.    *)
(***************************************************************************)
EXTENDS KyberTest, KyberKEM

VARIABLE prog

allVars == <<prog, testVars, kemVars>>

Init == prog \in {"main", "kem"} /\ TestInit /\ KemInit
Next == /\ UNCHANGED prog
        /\ \/ prog = "main" /\ TestNext /\ UNCHANGED kemVars
           \/ prog = "kem" /\ KemNext /\ UNCHANGED testVars

Spec == Init /\ [][Next]_allVars

(* A seed is a record; what it is hashed to says which half of the hash of *)
(* what it is.                                                             *)
MCDraws == {[draw |-> n] : n \in 1..4}
MCCoins == {[draw |-> n] : n \in 5..8}
MCRejectKeys == {[draw |-> 9]}
MCMessages == {[i \in 0..7 |-> IF i \in S THEN 1 ELSE 0] :
                 S \in {{}, {2, 4}, {4, 7}, {0, 1, 2, 3, 4, 5, 6, 7}}}
MCHashG(x) == <<[half |-> 1, of |-> x], [half |-> 2, of |-> x]>>
MCHashH(x) == [h |-> x]
MCKdf(a, b) == [pre |-> a, hc |-> b]

number(x) == IF "draw" \in DOMAIN x THEN x.draw
             ELSE SumFunction([i \in 0..7 |-> (i + 1) * x.m[i]])
seedNumber(s) == IF "half" \in DOMAIN s THEN 3 * s.half + number(s.of)
                 ELSE number(s)

(* Noise of one or two nonzero coefficients in most polynomials, and of    *)
(* many in some.                                                           *)
Nibbles(a, b, c, d) == [i \in 0..3 |-> <<a, b, c, d>>[i + 1]]
NoiseBytes == << Nibbles(1, 0, 0, 64), Nibbles(0, 52, 0, 0),
                 Nibbles(128, 0, 3, 0), Nibbles(0, 0, 16, 12),
                 Nibbles(2, 0, 0, 1), Nibbles(51, 204, 51, 51),
                 Nibbles(0, 65, 0, 0) >>
MCPrf(seed, nonce) == NoiseBytes[((seedNumber(seed) * 3 + nonce * 5) % 7) + 1]

(* Four buffers of six values; some values are refused, so that two        *)
(* buffers are enough or not.                                              *)
MCXof(seed, x, y) ==
  [b \in 1..4 |->
     [n \in 1..6 |->
        LET k == 6 * b + n
            v == (k * 397 + 211 * x + 89 * y + 57 * seedNumber(seed)) % 1024
        IN  IF (k * (x + 1) + y) % 3 = 0 THEN 1023 ELSE v]]

(* One step in one compressed coefficient.                                 *)
MCAltered(c) ==
  {[c EXCEPT !.v[j] = (@ + 1) % 256] : j \in {0, 2}}
    \cup {[c EXCEPT !.b[k][j] = (@ + d) % 256] :
            k \in {0, 1}, j \in {0, 3}, d \in {1, 32}}
=============================================================================
