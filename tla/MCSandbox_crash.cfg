SPECIFICATION Spec
CONSTANTS
  Procs = {p1}
  NumTables = 1
  SampleRows = 1
  SameCluster = FALSE
  Fallback = {}
  IncludeMeta = {}
  InitialDb = {"none"}
  MaxRuns = 2
  MaxOthers = 0
INVARIANTS LatestRunReadable
CHECK_DEADLOCK FALSE
