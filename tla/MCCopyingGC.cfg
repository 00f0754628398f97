CONSTANTS
  Scan <- MCScan
  Requests <- MCRequests
  InitialSize = 5
  Bases = {100, 400}
  MaxObjects = 2
SPECIFICATION FairSpec
INVARIANTS
  SpacesAreSound
PROPERTIES
  KeepsTheGraph
  CollectionsEnd
CHECK_DEADLOCK FALSE
