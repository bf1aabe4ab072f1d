\* Two runs of one session, the first killed wherever it was.
CONSTANTS
  UndoDepth = 1
  TopId = 40
  Calls = {a, b}
  NoCall = noCall
  Texts = {words}
  Metas = {Ordinary, Whole}
  Ordinary = Ordinary
  Whole = Whole
  Notes = {reason}
  NoNote = noNote
  Counters = {bytes}
  MaxItems = 3
  MaxSeq = 6
  MaxAsks = 6
  MaxBatch = 1
  MaxRuns = 2
SPECIFICATION Spec
INVARIANTS
  NumberedOnce
  CallsApart
  SnapshotsHold
  EditsRepaired
SYMMETRY Symmetry
CHECK_DEADLOCK FALSE
