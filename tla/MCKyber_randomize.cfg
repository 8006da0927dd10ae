\* What unpack_ciphertext makes of a randomized ciphertext.
SPECIFICATION Spec
CONSTANTS
  q = 97
  R = 1024
  QINV = 929
  BarrettM = 65536
  RejMultiple = 10
  RejDigit = 128
  LogN = 3
  N = 8
  K = 2
  root = 33
  DU = 6
  DV = 3
  DP = 7
  hash_g <- MCHashG
  hash_h <- MCHashH
  kdf <- MCKdf
  prf <- MCPrf
  xof <- MCXof
  Altered <- MCAltered
  Draws <- MCDraws
  Coins <- MCCoins
  RejectKeys <- MCRejectKeys
  Messages <- MCMessages
INVARIANT
  ApproximateInverse
CHECK_DEADLOCK FALSE
