SPECIFICATION FairSpec
CONSTANTS
  Cap = 2
  Mate = 4
  Node <- MCNode
  Ply <- MCPly
  Moves <- MCMoves
  Exact <- MCExact
  Mated <- MCMated
  Guess <- MCGuess
  Score <- QuietScore
  NoScore <- MCNoScore
  MaxTreeDepth = 2
  BatchSize = 2
  FirstBudget = 4
  NodeLimit = 5
  FirstWidening = 2
  MaxWidening = 2
  FirstVerifyDepth = 1
  MaxVerifyDepth = 2
  LeelaBudget = 1
  Infinite = FALSE
  EarlyStop = TRUE
INVARIANTS
  CorridorsValid
  BudgetHeld
  BackupComplete
PROPERTIES
  VerifiedBeforeExpansion
  FiniteSearchEnds
