\* One driver, and anybody else interrupting and deciding.
CONSTANTS
  Drivers = {d1}
  MaxBatch = 2
  Ceiling = 2
  MaxRequests = 2
  Parallel = FALSE
SPECIFICATION FairTurns
INVARIANTS
  BudgetHolds
PROPERTIES
  StopHolds
  CallsReturn
