CONSTANTS
  ByteValues = 4
  CodeValues = 2
  BlockDim = 4
  LeastBits = 9
  WordBits = 64
  Absent = Absent
  PassBits <- SmallPassBits
  StepMultiple = 2
  Fill = 0
  Side = 2
  Gap = 1
  BlockSide = 2
  SubBlocks = 2
  Float32 <- SmallFloats
  Doubles <- SmallDoubles
  MinusInfinity <- SmallMinusInfinity
  Infinity <- SmallInfinity
  NaN = NaN
  None = None
  Inputs <- SmallInputs

SPECIFICATION AlgorithmsSpec

INVARIANTS
  BoundsExact
  PackingExact
  AcceptedReadable
  QuantilesExact
  CountsAgree
  EstimatesHold
  PointSeriesExact

CHECK_DEADLOCK FALSE
