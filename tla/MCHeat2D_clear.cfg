SPECIFICATION Spec
CONSTANTS
  NX = 3
  NY = 3
  Hot = 4
  KOne = 4
  KAir = 2
  RNum = 1
  RDen = 4
  Copper <- MCCopper
  Sources <- MCSources
  Keys = {"space", "c", "b"}
  MaxQueue = 2
  RadInit = 0
  RadMin = 0
  RadMax = 0
  RadStep = 0
  Temp1 = 1
  Temp2 = 2
  NPalettes = 1
  CursorCells <- MCCorner
  StartCell <- MCCornerCell
PROPERTY ClearKeepsSources
