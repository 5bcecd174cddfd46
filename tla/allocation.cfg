SPECIFICATION Spec
CONSTANTS
  Horizon = 3
  Requests <- SmallRequests
INVARIANTS
  TriplesLast
  MemoryIsSound
PROPERTIES
  Termination
