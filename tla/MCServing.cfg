CONSTANTS
  pipe = pipe
  terminal = terminal
  Client = {pipe, terminal}
  Paced = {pipe}
  Script <- Typed
  Nobody = nobody
  EventRoom = 1
  VoiceRoom = 1
  Connections = 2
  Unread = 0
  MaxFragments = 1
SPECIFICATION Spec
INVARIANTS
  OwedAnswers
  WordComesLast
  AtRestTheyAgree
PROPERTIES
  NoHoles
  DroppedOnlyIfCut
CHECK_DEADLOCK FALSE
