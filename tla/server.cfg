SPECIFICATION ServerSpec
CONSTANTS
  limited = limited
  open = open
  Share = {limited, open}
  Request = {r1, r2}
  ExpiresAt <- MCExpiresAt
  MaxViews <- MCMaxViews
  Protected = {limited}
  None = None
  MaxTime = 1
  ClientRetries = 1
  FsPage = {k1}
  FsBytes = {b1, b2}
  FsWriter = {w1, w2}
  Size = 2
  NoFile = NoFile
  B2Page = {k1}
  B2Bytes = {b1, b2}
  B2Caller = {c1, c2}
  Blocks = 2
  LegacyNonce = {1, 7}
  Garbage = Garbage
  NoObject = NoObject
  MaxTries = 1
  Doc = {d1, d2, d3}
  Odd = {d3}
  NoImage = {d2}
  HitsPerPage = 2
  MaxReads = 1
  Path <- MCPath
  BaseName = {"x"}
  BaseOf <- MCBaseOf
  NotAllowed = {}
  MaxWrites = 3
  Process = {p1, p2}
  Serving = {p1}
  Attempts = 3
  acme = acme
  invoice = invoice
  Paper <- MCPaper
  Year = {2}
  PapersPerPage = 2
  MaxPapers = 3
  Unknown = Unknown
  Item = {i1, i2, i3, i4}
  ItemsPerPage = 3
  Retrievals = 2
  MaxDocuments = 3
  NoItem = NoItem
  Text = {t1, t2, e}
  EmptyText = e
  Indexing = {x1, x2}
  Asking = {q1, q2}
  Nothing = Nothing
  MaxIndexed = 2
  Folio = {f1, f2, f3}
  Instant <- MCInstant
  Actionable = {invoice}
  DocType = {invoice, letter}
  SearchSize = 2
  Never = Never
CHECK_DEADLOCK FALSE
INVARIANT ViewsCounted
PROPERTY SharesImplementGrants
PROPERTY FsImplementsStore
PROPERTY B2ImplementsStore
INVARIANT BatchAccounts
INVARIANT NoEventLost
INVARIANT ServersComeUp
INVARIANT InsightsExact
INVARIANT ExportExact
INVARIANT SummaryStaleOnlyByRace
INVARIANT RemindersExact
