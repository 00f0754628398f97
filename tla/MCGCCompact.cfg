CONSTANTS
  N = 3
  FieldWords = 1
  HeapWords = 8
  StackWords = 2
  CCells = 1
  GlobalWords = 1
  ExtraRoots = 2
  HeapSizes = {6, 8}
  Requests = {5}
  NotHeap = NotHeap
  MinimumHeapCapacity = 4
SPECIFICATION Spec
INVARIANTS
  TypeOK
  NothingOverwritten
  GraphPreserved
  RequestFits
PROPERTIES
  Terminates
CHECK_DEADLOCK FALSE
