\* An answer that was finished and is cut off all the same.
CONSTANTS
  Tries = 4
  Quiet = 2
  Patience = 4
  WholePatience = 5
  Linger = 5
  Largest = 3
  Asked <- Waits
SPECIFICATION Spec
CHECK_DEADLOCK FALSE
INVARIANTS
  CutOffIsUnfinished
