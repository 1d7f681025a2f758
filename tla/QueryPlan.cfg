CONSTANTS
  grid <- SmallGrid
  subs <- SmallSubs
  BlocksPerUnit = 2
  ValuesPerBlock = 2
  Arrays <- SmallArrays
  Options <- SmallOptions
  Steps = {1, 2, 3, 4, 6}
  None = None
SPECIFICATION Spec
CHECK_DEADLOCK FALSE
INVARIANTS
  QueryExact
  PipelineInvisible
  RaisesForCause
