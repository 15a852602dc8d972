SPECIFICATION Spec
CONSTANTS
  d1 = d1
  None = None
  Page = {p1, p2}
  Digest = {d1}
  Content <- MCContent
  Worker = {w1, w2}
  Answered = {w1, w2}
  Pipelines = {"scan", "upload", "unstored"}
  MaxJobs = 3
INVARIANT TypeOK
INVARIANT IndexedKeepsReservation
PROPERTY ImplementsClaims
CHECK_DEADLOCK FALSE
