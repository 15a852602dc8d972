SPECIFICATION FairSpec
CONSTANTS
  d1 = d1
  None = None
  Page = {p1, p2}
  Digest = {d1}
  Content <- MCContent
  Worker = {w1, w2}
  Answered = {w1}
  Pipelines = {"upload", "reindex"}
  MaxJobs = 3
PROPERTY ReservationsSettle
CHECK_DEADLOCK FALSE
