SPECIFICATION CallsSpec
CONSTANTS
  Client = {c1, c2}
  None = None
  MaxPages = 3
  Caller = {c1, c2}
  MaxConcurrency = 1
  MaxRetries = 2
  Address = {a1, a2}
  Refused = {a2}
  MaxCalls = 1
CHECK_DEADLOCK FALSE
INVARIANT OneJobAtATime
INVARIANT CompletedIsWhole
PROPERTY StatusAdvances
PROPERTY JobEnds
INVARIANT SlotsAccounted
INVARIANT WorkOncePerCall
PROPERTY CallsEnd
