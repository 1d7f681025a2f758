CONSTANTS
  Values <- SmallValues
  Errors = {0, 64}
  LowBounds <- SmallLows
  HighBounds <- SmallHighs
  MinusInfinity <- FarDown
  Infinity = 3000
  ValuesPerBlock = 2
  ReadBlocks = 2
  MaxBlocks = 2
  RoundOff = 98
  ExtremesOnly = TRUE
SPECIFICATION AggregateSpec
CHECK_DEADLOCK FALSE
INVARIANTS
  CountsEnclosed
  SumEnclosed
  MeanEnclosed
