CONSTANTS
  MaxWork = 2
  NodeLimit = 1
  GoRequest <- MCGoRequest
SPECIFICATION FairSpec
INVARIANTS
  SearchIsHeard
  ExclusiveSteps
  OneBestmovePerGo
  InfiniteWaits
PROPERTIES
  JoinEnds
  FiniteSearchEnds
  PonderhitEndsSearch
  ImplementsProtocol
