\* A stop asked for before the task of the turn has begun.
CONSTANTS
  Task = task
  Desk = desk
  Drivers = {task, desk}
  MaxBatch = 1
  Ceiling = 1
  MaxRequests = 1
  Parallel = FALSE
  Scripts <- Turns
  Limit = 0
  Behind = 1
SPECIFICATION AppSpec
CHECK_DEADLOCK FALSE
PROPERTIES
  StopReachesTurn
