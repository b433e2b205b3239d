SPECIFICATION Spec
CONSTANTS
  Cap = 2
  Mate = 4
  Node <- MCNode
  Ply <- MCPly
  Moves <- MCMoves
  Exact <- MCExact
  Mated <- MCMated
  Guess <- MCGuess
  Score <- MCScore
  NoScore <- MCNoScore
  MaxTreeDepth = 2
  BatchSize = 2
  FirstBudget = 4
  NodeLimit = 5
  FirstWidening = 1
  MaxWidening = 2
  FirstVerifyDepth = 1
  MaxVerifyDepth = 2
  LeelaBudget = 0
  Infinite = FALSE
  EarlyStop = TRUE
INVARIANT ExactIsProved
CHECK_DEADLOCK FALSE
