CONSTANTS
  Insns <- MCInsns
  MaxInsns = 4
  IntBytes = 2
  Builtin <- MCBuiltin
SPECIFICATION Spec
INVARIANTS
  RoundTrip
  ReaderStaysInside
  PublicsAreFound
CHECK_DEADLOCK FALSE
