CONSTANTS
  Node <- MCNode
  Key <- MCKey
  Legal <- MCLegal
  Noisy <- MCNoisy
  InCheck = {9}
  Static <- MCStatic
  Drawn = {}
  Repeated = {6}
  Wdl <- MCWdl
  Limit <- MCRestricted
  MaxDepth = 3
  Lo <- MCLo
  Hi <- MCHi
  NoMove = NoMove
  NoScore = NoScore
  NoFrame = NoFrame
  Miss = Miss
SPECIFICATION Spec
INVARIANT
  SearchmovesAnswered
