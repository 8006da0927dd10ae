------------------------------- MODULE MCECE -------------------------------
(* An instance of ECETest for TLC: a group of order 7.                     *)
EXTENDS ECETest

MCNumbers == {-1, 0, 1, 2}       \* -1 is written as the word 6

AllScalars(n) == 0..(n - 1)
=============================================================================
