SPECIFICATION FairSpec
CONSTANTS
  NX = 3
  NY = 3
  Hot = 4
  KOne = 4
  KAir = 2
  RNum = 1
  RDen = 4
  Copper <- MCCopper
  Sources <- MCSources
  Keys = {"esc", "space", "p", "+", "-", "other"}
  MaxQueue = 2
  RadInit = 0
  RadMin = 0
  RadMax = 1
  RadStep = 1
  Temp1 = 1
  Temp2 = 2
  NPalettes = 2
  CursorCells <- MCCorner
  StartCell <- MCCornerCell
INVARIANT TypeOK ScreenCurrent
PROPERTY EscQuits FramesUnlessFlooded
