-------------------------------- MODULE MCOU --------------------------------
(* Instances of OUTest for TLC: the 3-bit primes 5 and 7, n in {175, 245}. *)
EXTENDS OUTest

MCNumbers == {-1, 0, 1}          \* -1 is written as the word 4

(* Rejected and accepted g, g sharing a factor with p or with q.           *)
SomeG(n) == {0, 1, 2, 3, 5, 7, 10, 14, 18}
SomeDraws(n) == {0, 1, 2, 3, 5, 7}
SomeScalars(n) == {0, 1, 2, 3, 5, 7, 10, 14, 35}
=============================================================================
