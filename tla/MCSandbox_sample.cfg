SPECIFICATION Spec
CONSTANTS
  Procs = {p1}
  NumTables = 1
  SampleRows = 1
  SameCluster = TRUE
  Fallback = {}
  IncludeMeta = {}
  InitialDb = {"none"}
  MaxRuns = 1
  MaxOthers = 0
INVARIANTS AtMostSampleRows
CHECK_DEADLOCK FALSE
