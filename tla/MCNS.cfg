\* NS(18, 2, 3): every key, degenerate g and randomness included.
SPECIFICATION Spec
CONSTANTS
  lambda = 18
  k = 2
  B = 3
  messageBits = 5
  GRandom <- SomeG
  EncRandom <- SomeDraws
  ScalarRandom <- SomeScalars
  Word = 16
  Numbers <- MCNumbers
INVARIANTS
  NonUnitRejects
  NoFalseAccept
PROPERTIES
  KeyGenEnds
  AHESteps
