SPECIFICATION Spec
CONSTANTS
  d1 = d1
  None = None
  Page = {p1}
  Digest = {d1}
  Content <- MCContent
  Worker = {w1}
  Answered = {w1}
  Pipelines = {"upload", "reindex"}
  MaxJobs = 3
INVARIANT IndexedKeepsReservation
CHECK_DEADLOCK FALSE
