CONSTANTS
  Pages = 12
  PageBytes = 4
  WordBytes = 2
  InitHeapSize = 2
  MinimumHeapCapacity = 2
  Requests = {1, 3}
SPECIFICATION RegionsSpec
INVARIANTS
  HeapIsMapped
  AllocNeverFails
CHECK_DEADLOCK FALSE
