\* The random sources under every order of their calls.
SPECIFICATION Spec
CONSTANTS
  VSize = 6
  VDraws = {0, 4}
  MaxBlocks = 2
  Seeds = {1, 2}
  PoolLen = 9
  Short = 2
  Long = 4
  KeyBlocks = 2
  KeyBytes = 3
  NonceSize = 3
  BlockLen = 4
  CtrSize = 4
  MaxLen = 15
  MaxStreams = 3
  MaxSeeds = 3
INVARIANTS
  WordsFresh
  StreamsDiffer
PROPERTIES
  FreshBlocks
  GivesStream
CHECK_DEADLOCK FALSE
