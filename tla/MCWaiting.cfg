\* A request, streamed or whole, under any server, network and person.
CONSTANTS
  Tries = 4
  Quiet = 2
  Patience = 4
  WholePatience = 5
  Linger = 5
  Largest = 3
  Asked <- Waits
SPECIFICATION FairSpec
CHECK_DEADLOCK FALSE
INVARIANTS
  PaidOnce
  AnswerKept
PROPERTIES
  StopIsHeard
  ComesBack
