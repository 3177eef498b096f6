SPECIFICATION Spec
CONSTANTS
  Procs = {p1}
  NumTables = 1
  SampleRows = 1
  SameCluster = FALSE
  Fallback = {}
  IncludeMeta = {FALSE}
  InitialDb = {"none"}
  MaxRuns = 2
  MaxOthers = 1
PROPERTIES NeverDropsForeign
CHECK_DEADLOCK FALSE
