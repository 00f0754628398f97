SPECIFICATION FairSpec
CONSTANTS
  Programs <- Everything
  Inputs <- Inputs1
  MaxSteps = 400
INVARIANTS
  Equivalent
  StackIsAsCompiled
  TailCallsAreLast
PROPERTIES
  Terminates
CHECK_DEADLOCK FALSE
