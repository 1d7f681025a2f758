CONSTANTS
  v1 = v1
  v2 = v2
  None = None
  Versions = {v1, v2}
  Shapes = {3, 4}
  TChunks = {2}
  Packings = {TRUE, FALSE}
  ByKeys = {TRUE}
  WriteDuringBuild = TRUE
  Crashes = TRUE
  MaxWrites = 2
  MaxBuilds = 2
SPECIFICATION SmallSpec
SYMMETRY Symmetry
CHECK_DEADLOCK FALSE
INVARIANTS
  ResizeIsSafe
