\* An interrupt falls into the last calls a turn has the budget for.
CONSTANTS
  Drivers = {d1}
  MaxBatch = 1
  Ceiling = 1
  MaxRequests = 1
  Parallel = FALSE
SPECIFICATION TurnsSpec
PROPERTIES
  StopEndsWithItsTurn
