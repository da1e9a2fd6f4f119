SPECIFICATION Spec
CONSTANTS
  Width = 7
  Height = 3
  NX = 3
  NY = 2
  AbsMin <- MCAbsMin
  AbsMax = 5
  RelScale = 2
  SkipAbove = 20
  HasAbs = FALSE
  HasRel = TRUE
  AbsPoints <- MCOnePoint
  RelMoves <- MCSlowMoves
  MaxCount = 3
INVARIANT SlowMouseMoves
