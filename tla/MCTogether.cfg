\* Two drivers, calls run at the same time.
CONSTANTS
  Drivers = {d1, d2}
  MaxBatch = 2
  Ceiling = 2
  MaxRequests = 1
  Parallel = TRUE
SPECIFICATION FairSpec
INVARIANTS
  IInv
  RequestsLeaveNothingOpen
PROPERTIES
  KeepsItsPromise
  BusyEnds
