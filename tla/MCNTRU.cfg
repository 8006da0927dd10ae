\* Every F of degree 7 that two-exponent words can draw, and what the
\* driver and the NIST interface do with some of the keys.
SPECIFICATION Spec
CONSTANTS
  N = 7
  q = 32
  p = 3
  CoeffsPerWord = 2
  d = 1
  CharBits = 2
  LenBits = 1
  MsgLen = 1
  MaxMsgLen = 1
  PadLen = 4
  PadD = 1
  OctetBits = 4
  QBits = 5
  Trits = 2
  Texts <- Chars
  GivenTexts <- TextsAndOthers
  GDraws <- SomeG
  PadDraws <- SomePads
  RDraws <- SomeR
  Followed <- SomeF
INVARIANTS
  AlmostInverse
  KeysFit
  OwnTextBack
  EqualityReadable
  DifferenceLost
  KeysSurvivePacking
  ApiOpens
PROPERTIES
  InverseDecides
  OverrunHarmless
  KeyGenEnds
CHECK_DEADLOCK FALSE
