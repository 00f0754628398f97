CONSTANTS
  Shapes <- MCShapes
  ArgRegs = 2
  SymRegs = 2
  MaxWords = 16
SPECIFICATION Spec
INVARIANTS
  NoGarbageInFrames
CHECK_DEADLOCK FALSE
