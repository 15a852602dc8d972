SPECIFICATION FairSpec
CONSTANTS
  p1 = p1
  p2 = p2
  p3 = p3
  p4 = p4
  s1 = s1
  s2 = s2
  Page = {p1, p2, p3, p4}
  Scan = {s1, s2}
  ScanOf <- MCScanOf
  Size <- MCSize
  MaxPages = 3
  MaxBytes = 4
  Main = Main
  Idle = Idle
  None = None
  MaxGeneration = 2
  Worker = {w1, w2}
INVARIANT SentOnce
CHECK_DEADLOCK FALSE
PROPERTY IdleFlushes
PROPERTY BackendImplementsDelivery
