SPECIFICATION ClientsSpec
CONSTANTS
  p1 = p1
  p2 = p2
  p3 = p3
  p4 = p4
  s1 = s1
  s2 = s2
  Page = {p1, p2, p3, p4}
  Scan = {s1, s2}
  ScanOf <- MCScanOf
  Size <- MCSize
  Sessions <- MCSessions
  MaxPages = 2
  MaxBytes = 10
  Main = Main
  Idle = Idle
  None = None
  MaxGeneration = 0
  Worker = {w1, w2}
  d1 = d1
  d2 = d2
  Digest = {d1, d2}
  NoPage = NoPage
  Content <- MCContent
  ChunkSize = 2
  MaxAttempts = 2
  MaxFiles = 3
  MaxUploads = 1
  Blank = Blank
  NoFilters = NoFilters
  Term = {t1, Blank}
  Filters = {f1, NoFilters}
  Nil = Nil
  Matches <- MCMatches
  MaxSearches = 3
  MaxLoads = 2
CHECK_DEADLOCK FALSE
INVARIANT NilMeansHandled
INVARIANT ScanLosesNothing
INVARIANT ScansApart
PROPERTY ScanEnds
INVARIANT PagesAreFiles
INVARIANT ResultIsWhole
INVARIANT ArchivedOnce
PROPERTY CancelIsFinal
INVARIANT NewestWins
INVARIANT PagesInOrder
PROPERTY SearchSettles
