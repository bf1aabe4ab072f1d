\* Two drivers in turn at once.
CONSTANTS
  Drivers = {d1, d2}
  MaxBatch = 1
  Ceiling = 1
  MaxRequests = 1
  Parallel = FALSE
SPECIFICATION TurnsSpec
SYMMETRY Interchangeable
INVARIANTS
  BudgetHolds
