\* Every key of two 3-bit primes, equal primes and degenerate g included.
SPECIFICATION Spec
CONSTANTS
  KeyPrimes <- AllPairs
  GRandom <- AllG
  EncRandom <- TwoDraws
  BinSize = 3
  Numbers <- MCNumbers
INVARIANTS
  NoFalseAccept
  HammingDistance
PROPERTY
  OracleSteps
