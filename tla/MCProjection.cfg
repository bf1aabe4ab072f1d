\* Every list of up to three items over two calls, and of up to four over one.
CONSTANTS
  MaxItems = 3
  MaxSameCall = 4
  RepairOrphans = TRUE
  UndoDepth = 0
  TopId = 9
  Calls = {a, b}
  NoCall = noCall
  Texts = {words, silence}
  EmptyText = silence
  Metas = {"m"}
  Notes = {"n"}
  NoNote = noNote
  Counters = {"bytes"}
  SomeMeta = "m"
  SomeCounter = "bytes"
SPECIFICATION Spec
CHECK_DEADLOCK FALSE
INVARIANTS
  PairsWhole
  NothingLost
  RepairsReachNoFurther
  MovesReported
