SPECIFICATION Spec
CONSTANTS
  Procs = {p1, p2}
  NumTables = 1
  SampleRows = 1
  SameCluster = FALSE
  Fallback = {}
  IncludeMeta = {}
  InitialDb = {"none"}
  MaxRuns = 2
  MaxOthers = 0
INVARIANTS CompleteRunDescribesTables
CHECK_DEADLOCK FALSE
