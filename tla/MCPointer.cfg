SPECIFICATION Spec
CONSTANTS
  Width = 7
  Height = 3
  NX = 3
  NY = 2
  AbsMin <- MCAbsMin
  AbsMax = 5
  RelScale = 2
  SkipAbove = 20
  HasAbs = TRUE
  HasRel = TRUE
  AbsPoints <- MCAbsPoints
  RelMoves <- MCRelMoves
  MaxCount = 2
INVARIANT TypeOK PaintsUnderCursor CrosshairCurrent
PROPERTY IdleTouchYields
