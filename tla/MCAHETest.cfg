\* Every scalar, zero and the zero divisors included.
SPECIFICATION Spec
CONSTANTS
  Moduli <- MCModuli
  Plaintexts <- MCPlaintexts
  Blinders <- AllBlinders
INVARIANTS
  EqualAccepted
  FalseAcceptExplained
