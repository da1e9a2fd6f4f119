SPECIFICATION Spec
CONSTANTS
  NX = 4
  NY = 4
  Hot = 6
  KOne = 100
  KAir = 1
  RNum = 1
  RDen = 5
  Copper <- MCCopper
  Sources <- MCSources
  BrushCells <- MCBrushCells
  BrushRads = {1}
  BrushTemps = {3, 6}
INVARIANT TypeOK
PROPERTY LawSpec HeatBalance NoSwing
