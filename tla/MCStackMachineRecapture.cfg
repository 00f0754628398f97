SPECIFICATION Spec
CONSTANTS
  Programs <- Recapturing
  Inputs <- Inputs1
  MaxSteps = 400
INVARIANT Equivalent
CHECK_DEADLOCK FALSE
