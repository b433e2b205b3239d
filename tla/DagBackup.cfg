CONSTANTS
  Node <- MCNode
  Ply <- MCPly
  Evidence <- MCEvidence
  Value <- MCValue
  Own <- MCOwn
  Combine <- MCCombine
SPECIFICATION FairSpec
INVARIANTS
  QuietMeansConsistent
PROPERTIES
  PoppedIsFinal
  PropagationEnds
