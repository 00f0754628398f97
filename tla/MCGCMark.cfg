CONSTANTS
  N = 3
  FieldWords = 2
  RootWords = 2
  NotHeap = NotHeap
  Stale = Stale
SPECIFICATION Spec
INVARIANTS
  TypeOK
  QueueIsSound
  MarksOnlyReachable
  MarksAllReachable
PROPERTIES
  ImplementsTriColour
  Terminates
CHECK_DEADLOCK FALSE
