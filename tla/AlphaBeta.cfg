CONSTANTS
  Node <- MCNode
  Key <- MCKey
  Legal <- MCLegal
  Noisy <- MCNoisy
  InCheck = {9}
  Static <- MCStatic
  Drawn = {}
  Repeated = {6}
  Wdl <- MCWdl
  Limit <- MCUnrestricted
  MaxDepth = 3
  Lo <- MCLo
  Hi <- MCHi
  NoMove = NoMove
  NoScore = NoScore
  NoFrame = NoFrame
  Miss = Miss
SPECIFICATION FairSpec
INVARIANTS
  TableSound
  ScoreSound
  MoveAttainsScore
PROPERTIES
  InterruptedChangesNothing
  GoIsAnswered
