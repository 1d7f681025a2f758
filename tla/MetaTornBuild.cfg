CONSTANTS
  v1 = v1
  v2 = v2
  None = None
  Versions = {v1, v2}
  Shapes = {1}
  TChunks = {1}
  Packings = {FALSE}
  ByKeys = {TRUE}
  WriteDuringBuild = FALSE
  Crashes = TRUE
  MaxWrites = 2
  MaxBuilds = 2
SPECIFICATION Spec
SYMMETRY Symmetry
CHECK_DEADLOCK FALSE
INVARIANTS
  EmptyMeansMatch
