-------------------------------- MODULE MCNS --------------------------------
(* An instance of NSTest for TLC: the small primes 5 and 7, n of 18 bits.  *)
EXTENDS NSTest

MCNumbers == {0, 1, 7}

(* Candidates for g: usable, of an order without 5 or 7, sharing the       *)
(* factor p = 311 or q = 659 with n.                                       *)
SomeG(n) == {1, 2, 14, 311, 659}
SomeDraws(n) == {2, 3, 10, 311, 659}
SomeScalars == {1, 2, 3, 5, 7, 10, 14, 31}
=============================================================================
