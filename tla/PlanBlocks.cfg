CONSTANTS
  ux = 4
  uy = 6
  uz = 2
  sx = 2
  sy = 3
  sz = 1
  BlocksPerUnit = 2
  Workers = 2
  ZoneMaps <- SmallZoneMaps
  Unset = Unset
SPECIFICATION Spec
CHECK_DEADLOCK FALSE
INVARIANTS
  PlanExact
PROPERTY
  EntriesKept
