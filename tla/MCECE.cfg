\* Every key, randomness and scalar of a group of order 7.
SPECIFICATION Spec
CONSTANTS
  q = 7
  Word = 7
  Numbers <- MCNumbers
  ScalarRandom <- AllScalars
INVARIANT
  VerdictExact
PROPERTY
  AHESpec
