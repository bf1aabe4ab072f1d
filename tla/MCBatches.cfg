\* A turn records its items while clients push, compact, undo and redo.
CONSTANTS
  words = words
  silence = words
  plainMeta = plainMeta
  bytes = bytes
  RepairOrphans = TRUE
  EmptyText = words
  UndoDepth = 2
  TopId = 5
  Calls = {}
  NoCall = noCall
  Texts = {words}
  Metas = {plainMeta}
  Notes = {reason}
  NoNote = noNote
  Reason = reason
  Counters = {bytes}
  Pushable <- PlainOnly
  Recordable <- TurnOnly
  Together = 2
  Named = 1
  MoveTo = {}
  Planned = {1}
  MaxTaken = 5
  MaxSwaps = 0
SPECIFICATION Spec
INVARIANTS
  IInv
  GroupsWhole
PROPERTIES
  NeverReused
