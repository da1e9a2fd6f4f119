SPECIFICATION Spec
CONSTANTS
  NX = 4
  NY = 4
  Hot = 8
  KOne = 7
  KAir = 1
  RNum = 2
  RDen = 8
  Copper <- MCCopper
  Sources <- MCSources
  RadInit = 1
  RadMin = 1
  RadMax = 1
  RadStep = 1
  Temp1 = 4
  Temp2 = 6
  CursorCells <- MCCursorCells
  StartCell <- MCStartCell
  Shades = 3
  DrawSkip = 2
INVARIANT ScreenCurrent
PROPERTY KeepsLaw RoundingNeverHeats
