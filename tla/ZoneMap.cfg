CONSTANTS
  b1 = b1
  b2 = b2
  p1 = p1
  p2 = p2
  MaxValue = 2
  Blocks = {b1, b2}
  Points = {p1, p2}
  Originals <- SmallUnits
  Codecs <- BothCodecs
  Errors <- SmallErrors
  Bounds <- BoundsAround
  Steps = 3
  CodeSteps = 3
  Rounding = 1
  EpsRounding = 1
  Slack = 2
SPECIFICATION Spec
CHECK_DEADLOCK FALSE
INVARIANTS
  CodesFit
  RecordEncloses
  ClassIsSound
  MaybeIsNear
