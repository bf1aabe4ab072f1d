CONSTANTS
  pipe = pipe
  terminal = terminal
  Client = {pipe, terminal}
  Paced = {pipe}
  Script <- Typed
  Nobody = nobody
  EventRoom = 1
  VoiceRoom = 2
  Connections = 2
  Unread = 0
  MaxFragments = 1
SPECIFICATION Spec
CHECK_DEADLOCK FALSE
INVARIANTS
  WaitsForItsTurn
