\* Any two lines, and longer scripts; two calls an answer, two requests a turn.
CONSTANTS
  Task = task
  Desk = desk
  Drivers = {task, desk}
  MaxBatch = 2
  Ceiling = 2
  MaxRequests = 2
  Parallel = FALSE
  Scripts <- Lines
  Limit = 2
  Behind = 1
SPECIFICATION AppSpec
CHECK_DEADLOCK FALSE
INVARIANTS
  BusyAsShown
  MessagesInOrder
  CarriedOn
  ChargedInFull
PROPERTIES
  NothingBetween
  ClaimsAreWanted
  DrivesTheKernel

