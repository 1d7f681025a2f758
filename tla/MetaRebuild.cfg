CONSTANTS
  v1 = v1
  v2 = v2
  None = None
  Versions = {v1, v2}
  Shapes = {3}
  TChunks = {2, 3}
  Packings = {TRUE, FALSE}
  ByKeys = {TRUE, FALSE}
  WriteDuringBuild = TRUE
  Crashes = TRUE
  MaxWrites = 1
  MaxBuilds = 2
SPECIFICATION Spec
SYMMETRY Symmetry
CHECK_DEADLOCK FALSE
INVARIANTS
  RightOrRaises
  ServedAfterBuild
