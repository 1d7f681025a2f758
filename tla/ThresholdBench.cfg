CONSTANTS
  Inputs <- SmallInputs
  Data <- SmallData
  Length <- SmallLength
  Vars <- SmallVars
  Jobs <- SmallJobs
  VarOf <- SmallVarOf
  MaxRuns = 7
  MaxCrashes = 2
  MaxFailures = 1
  Torn = Torn
  Nothing = Nothing

SPECIFICATION BenchSpec

INVARIANTS
  ThresholdsOfTheirData
  RowsKept

PROPERTY
  RerunsComplete

CHECK_DEADLOCK FALSE
