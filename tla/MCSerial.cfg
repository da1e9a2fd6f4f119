SPECIFICATION SerialSpec
CONSTANTS
  Cores <- MCCores
  BssSizes <- MCBssSizes
  FifoDepth = 2
  N = 5
  Every = 2
  Matrices <- MCMatrices
  CounterMod = 12
INVARIANT MainReady ProductRight RowsFinal
PROPERTY LinesRight NoStaircase BaudSafe ProgramsPrint
CHECK_DEADLOCK FALSE
