SPECIFICATION OcrSpec
CONSTANTS
  Caller = {c1, c2}
  MaxConcurrency = 1
  MaxRetries = 2
  Address = {a1, a2}
  Refused = {a2}
  MaxCalls = 1
CHECK_DEADLOCK FALSE
INVARIANT TimeoutsAreRetried
