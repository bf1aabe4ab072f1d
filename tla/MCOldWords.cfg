\* The notice is rewritten while a request may be under way.
CONSTANTS
  words = words
  silence = silence
  old = old
  new = new
  plainMeta = plainMeta
  bytes = bytes
  RepairOrphans = TRUE
  EmptyText = silence
  UndoDepth = 1
  TopId = 4
  Calls = {a}
  NoCall = noCall
  Texts = {words, silence, old, new}
  Metas = {plainMeta}
  Notes = {reason}
  NoNote = noNote
  Reason = reason
  Counters = {bytes}
  Pushable <- Pushed
  Recordable <- Answers
  Together = 0
  Named = 1
  MoveTo = {"Excluded", "Pinned"}
  Planned <- OneTo2
  MaxTaken = 4
  MaxSwaps = 0
  Summaries <- Summed
  Wordings = {old, new}
  NoticeItem <- Notice
  Limit = 4
  FullAt = 2
  MidRequest = TRUE
  MaxRewrites = 1
SPECIFICATION RequestsSpec
CHECK_DEADLOCK FALSE
INVARIANTS
  OldWordsGo
