CONSTANTS
  Shapes <- MCShapes
  ArgRegs = 2
  SymRegs = 2
  MaxWords = 19
SPECIFICATION Spec
INVARIANTS
  TypeOK
  RuntimeCallsAligned
  StackRestored
  LiveValuesAreCurrent
  StaleRootsAreKnown
CHECK_DEADLOCK FALSE
