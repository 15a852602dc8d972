SPECIFICATION TextSpec
CONSTANTS
  Tops = {0, 8, 16}
  Lefts = {0, 20, 40, 160}
  Blocks = 3
  MergeDistance = 150
  HorizontalDistance = 10
CHECK_DEADLOCK FALSE
INVARIANT ReadsTopFirst
