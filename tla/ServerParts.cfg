SPECIFICATION PartsSpec
CONSTANTS
  Rows = {1, 2}
  Workers = {"w1", "w2"}
  BatchSize = 1
  MaxAttempts = 2
  DisableAfter = 2
  MaxCrashes = 1
  MaxErrors = 1
  MaxEdits = 0
  Tokens = {"t"}
  NoToken = "none"
  Handlers = {"h1", "h2"}
  CacheTTL = 1
  Timeout = 1
  TouchEvery = 5
  PingEvery = 1
  MaxTime = 5
  Replicas = {"r1", "r2"}
  Subs = {"s"}
  DayTicks = 2
  SendTick = 1
  WeekDays = 2
  QuietEnds = {2}
  MaxTick = 7
  MaxFaults = 3
  MaxPuts = 1
  Users = {"u1", "u2", "u3"}
  Managers = {"u1", "u2"}
  Members = {}
  TeamAdmins = {"u1"}
  TeamOwners = {"u3"}
  MaxVersion = 3
  MaxRequests = 3
  Calls = {"c1", "c2"}
  Hours = {1}
  MaxAsked = 2
  MaxClock = 2
  MaxFails = 1
INVARIANTS StaleForAWhile SocketsEnd OneSender SixAttempts SentOnce OneKeyPerVersion Excluded
PROPERTY PermanentStays
CHECK_DEADLOCK FALSE
