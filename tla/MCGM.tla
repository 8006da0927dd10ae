-------------------------------- MODULE MCGM --------------------------------
(* An instance of GMTest for TLC: keys of 3-bit primes, numbers of 3 bits. *)
EXTENDS GMTest

AllPairs == PrimesOfBits(3) \X PrimesOfBits(3)
MCNumbers == {-4, -1, 0, 1, 3}
AllG(n) == 0..(n - 1)
TwoDraws(n) == {1, 3}
=============================================================================
