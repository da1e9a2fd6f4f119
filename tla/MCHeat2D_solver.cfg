SPECIFICATION Spec
CONSTANTS
  NX = 4
  NY = 3
  Hot = 4
  KOne = 4
  KAir = 2
  RNum = 1
  RDen = 4
  Copper <- MCCopperBar
  Sources <- MCSources
  Keys = {"esc", "space", "r", "c", "b", "1"}
  MaxQueue = 1
  RadInit = 0
  RadMin = 0
  RadMax = 0
  RadStep = 0
  Temp1 = 1
  Temp2 = 2
  NPalettes = 1
  CursorCells <- MCCorner
  StartCell <- MCCornerCell
INVARIANT PoolsOK
PROPERTY Refinement
