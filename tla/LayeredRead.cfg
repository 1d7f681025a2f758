CONSTANTS
  Spread = {0, 1, 3, 7}
  Layouts <- SmallLayouts
  Chunks = {0, 1}
  Wants <- SmallWants
  Gaps = {0, 1}
  MaxChunkRequests = {1, 3}
  BatchSizes = {3}
  Concurrency = 2
  Unset = Unset
SPECIFICATION Spec
CHECK_DEADLOCK FALSE
INVARIANTS
  RowsRight
  RequestsTight
  ChunksReadBack
