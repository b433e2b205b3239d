CONSTANTS
  Square <- MCSquare
  Type <- MCType
  Behind <- MCBehind
  CastleRook <- MCCastleRook
  CastleKing <- MCCastleKing
  Width = 4
  Height = 5
  FrameLimit = 2
  DrawClock = 5
  NoGame = NoGame
  NoFrame = NoFrame
  Command <- MCCommand
  NoCommand = NoCommand
  Searchmoves <- MCSearchmoves
  Prior <- MCPrior
  Budget <- MCBudget
  Widening = 1
  Capacity = 2
SPECIFICATION Spec
INVARIANTS
  PositionsHonest
  HistoryExact
  MergesAreSafe
  CacheIsBounded
  AccumulatorsMatch
PROPERTIES
  ArenaIntact
  AllOrNothing
