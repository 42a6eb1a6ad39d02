SPECIFICATION PartsSpec
CONSTANTS
  MaxKeys = 2
  Passwords = {"p", "q"}
  Entities = {"e1", "e2"}
  Tasks = {"t1", "t2"}
  MaxVersion = 3
  MaxEdits = 2
  MaxCrashes = 1
  MaxLeaves = 1
  MaxOpens = 2
  ReconnectAttempts = 1
  Reconnects = {"r1", "r2"}
INVARIANTS Recoverable NoPlainCopy Openable EditKept FinishedOnce Held
PROPERTY KeysForward
CHECK_DEADLOCK FALSE
