CONSTANTS
  MaxLen = 4
  Inputs <- Lists
  Gaps = {0, 1, 2}
  Base = 3
  BlockSize = 2
  WordSize = 16
SPECIFICATION MergeSpec
CHECK_DEADLOCK FALSE
INVARIANTS
  ItemsCovered
  ReadsDisjoint
  MergedAsAllowed
  OnlyRepeatsFail
