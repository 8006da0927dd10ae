--------------------------- MODULE MCProtocolTest ---------------------------
(* An instance of ProtocolTest for TLC: two iterations; sound and unsound  *)
(* keys; the scalar 0 of ECE, zero divisors of Paillier and NS and the     *)
(* multiple p of OU are drawn.  p = q = 5 is the unsound key of Paillier.  *)
EXTENDS ProtocolTest

MCNumbers == {2, 9}
MCKey(m, b) == [m |-> m, sound |-> b]
MCKeys ==
  [gm |-> {MCKey(2, b) : b \in BOOLEAN},
   paillier |-> {MCKey(35, TRUE), MCKey(25, FALSE)},
   ece |-> {MCKey(11, TRUE)},
   ou |-> {MCKey(5, TRUE), MCKey(11, FALSE)},
   ns |-> {MCKey(21, b) : b \in BOOLEAN}]
MCScalars ==
  [paillier |-> [m \in {25, 35} |-> {2, 5}], ece |-> [m \in {11} |-> {0, 3}],
   ou |-> [m \in {5, 11} |-> {2, m}], ns |-> [m \in {21} |-> {2, 3}]]
=============================================================================
