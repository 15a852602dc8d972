SPECIFICATION ThumbSpec
CONSTANTS
  Doc = {d1, d2, d3}
  Odd = {d3}
  NoImage = {d2}
  HitsPerPage = 2
  MaxReads = 1
CHECK_DEADLOCK FALSE
INVARIANT ThumbnailIsSent
