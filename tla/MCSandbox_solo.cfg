SPECIFICATION FairSpec
CONSTANTS
  Procs = {p1}
  NumTables = 2
  SampleRows = 1
  SameCluster = FALSE
  Fallback = {1}
  IncludeMeta = {TRUE, FALSE}
  InitialDb = {"none", "other"}
  MaxRuns = 2
  MaxOthers = 1
INVARIANTS TypeOK CreatedIsRegistered CompleteRunDescribesTables AtMostSampleRows
PROPERTIES ForeignUntouched CommandsFinish
CHECK_DEADLOCK FALSE
