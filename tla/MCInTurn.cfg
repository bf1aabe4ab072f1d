\* Two drivers, three calls run one at a time, the third past the ceiling.
CONSTANTS
  Drivers = {d1, d2}
  MaxBatch = 3
  Ceiling = 2
  MaxRequests = 1
  Parallel = FALSE
SPECIFICATION Spec
SYMMETRY Interchangeable
INVARIANTS
  RequestsLeaveNothingOpen
  IInv
  AnsweredOnce
PROPERTIES
  KeepsItsPromise
