CONSTANTS
  LaneCount = 2
  VKey = {0, 1, 2}
  Request <- MCRequest
  Ply = {0, 2, 5}
  Depth = {1, 9}
  Truth <- MCTruth
  Window <- MCWindow
  AgeCycle = 3
  NoMove = 0
  Miss = Miss
SPECIFICATION Spec
INVARIANTS
  CutoffSound
  OneLanePerKey
PROPERTIES
  EvictsStaleFirst
  ImplementsCache
