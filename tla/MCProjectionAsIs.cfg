\* With the repair of orphans turned off: results go out whether or not they are asked for.
CONSTANTS
  MaxItems = 4
  MaxSameCall = 4
  RepairOrphans = FALSE
  UndoDepth = 0
  TopId = 9
  Calls = {a}
  NoCall = noCall
  Texts = {words, silence}
  EmptyText = silence
  Metas = {"m"}
  Notes = {"n"}
  NoNote = noNote
  Counters = {"bytes"}
  SomeMeta = "m"
  SomeCounter = "bytes"
SPECIFICATION Spec
CHECK_DEADLOCK FALSE
INVARIANTS
  MovesReported
