\* A message given to /step while decided calls wait.
CONSTANTS
  Task = task
  Desk = desk
  Drivers = {task, desk}
  MaxBatch = 1
  Ceiling = 1
  MaxRequests = 1
  Parallel = FALSE
  Scripts <- Steps
  Limit = 0
  Behind = 1
SPECIFICATION AppSpec
CHECK_DEADLOCK FALSE
PROPERTIES
  StepsBetweenNothing
