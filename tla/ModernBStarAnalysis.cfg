SPECIFICATION Spec
CONSTANTS
  Cap = 2
  Mate = 4
  Node <- DeepNode
  Ply <- DeepPly
  Moves <- DeepMoves
  Exact <- DeepExact
  Mated <- DeepMated
  Guess <- OneGuess
  Score <- AllScore
  NoScore <- MCNoScore
  MaxTreeDepth = 3
  BatchSize = 2
  FirstBudget = 4
  NodeLimit = 7
  FirstWidening = 1
  MaxWidening = 2
  FirstVerifyDepth = 1
  MaxVerifyDepth = 3
  LeelaBudget = 0
  Infinite = TRUE
  EarlyStop = FALSE
INVARIANTS
  NothingHidden
  MateHasWitness
  InfiniteWaits
PROPERTIES
  ClosedStaysClosed
CHECK_DEADLOCK FALSE
