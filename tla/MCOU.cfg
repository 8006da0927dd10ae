\* Every key that KeyGen accepts, g degenerate or not.
SPECIFICATION Spec
CONSTANTS
  lambda = 3
  ModulusBits = 8
  GRandom <- SomeG
  EncRandom <- SomeDraws
  ScalarRandom <- SomeScalars
  Word = 5
  Numbers <- MCNumbers
INVARIANT
  EqualAccepted
PROPERTIES
  KeyGenEnds
  AHESteps
