\* set_states with an item named twice.
CONSTANTS
  words = words
  silence = words
  plainMeta = plainMeta
  bytes = bytes
  RepairOrphans = TRUE
  EmptyText = words
  UndoDepth = 2
  TopId = 2
  Calls = {}
  NoCall = noCall
  Texts = {words}
  Metas = {plainMeta}
  Notes = {reason}
  NoNote = noNote
  Reason = reason
  Counters = {bytes}
  Pushable <- PlainOnly
  Recordable = {}
  Together = 2
  Named = 2
  MoveTo = {"Active", "Excluded"}
  Planned = {}
  MaxTaken = 4
  MaxSwaps = 0
SPECIFICATION Spec
PROPERTIES
  SecondStateStands
