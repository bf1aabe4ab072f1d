\* Clients edit the items, go back and forth, and swap the token counter.
CONSTANTS
  words = words
  silence = silence
  plainMeta = plainMeta
  bytes = bytes
  RepairOrphans = TRUE
  EmptyText = silence
  UndoDepth = 2
  TopId = 3
  Calls = {}
  NoCall = noCall
  Texts = {words, silence}
  Metas = {plainMeta, hint}
  Notes = {reason}
  NoNote = noNote
  Reason = reason
  Counters = {bytes, pieces}
  Pushable <- PlainOnly
  Recordable = {}
  Together = 1
  Named = 1
  MoveTo = {"Excluded"}
  Planned = {}
  MaxTaken = 3
  MaxSwaps = 2
SPECIFICATION Spec
INVARIANTS
  NoEmptyUndo
  FiguresInForce
PROPERTIES
  RedoOverwritesNothing
