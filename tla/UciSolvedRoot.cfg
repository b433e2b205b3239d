CONSTANTS
  MaxWork = 2
  NodeLimit = 1
  GoRequest <- InfiniteOnly
SPECIFICATION Spec
INVARIANT
  SolvedRootWaits
