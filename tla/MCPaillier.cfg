\* Every key of two 3-bit primes, equal ones included, and every kind of draw.
SPECIFICATION Spec
CONSTANTS
  PrimeBits = 3
  Word = 8
  KeyPrimes <- AllPairs
  Numbers <- MCNumbers
  EncRandom <- AllDraws
  ScalarRandom <- SomeDraws
INVARIANTS
  EqualAccepted
  NonUnitAccepts
PROPERTIES
  AHESteps
  OracleSteps
