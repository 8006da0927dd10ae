\* Two iterations over two numbers.
SPECIFICATION DriverSpec
CONSTANTS
  Numbers <- MCNumbers
  Iterations = 2
  Keys <- MCKeys
  Scalars <- MCScalars
INVARIANTS
  ListsComplete
  CountsExplained
CHECK_DEADLOCK FALSE
