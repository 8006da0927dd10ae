----------------------------- MODULE MCPaillier -----------------------------
(* Instances of PaillierTest for TLC: the 3-bit primes 5 and 7.            *)
EXTENDS PaillierTest

AllPairs == PrimesOfBits(3) \X PrimesOfBits(3)

MCNumbers == {-1, 0, 1}          \* -1 is written as the word 7

AllDraws(n) == 0..(n - 1)
(* zero, units, multiples of either prime *)
SomeDraws(n) == {0, 1, 2, 3, 5, 7, 10, 14, 18} \cap (0..(n - 1))
=============================================================================
