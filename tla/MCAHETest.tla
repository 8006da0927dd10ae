------------------------------ MODULE MCAHETest ------------------------------
(* An instance of AHETest for TLC: moduli with and without zero divisors.  *)
EXTENDS AHETest

MCModuli == {6, 7, 10}
MCPlaintexts == {0, 1, 2, 5}
AllBlinders(m) == 0..(m - 1)
=============================================================================
