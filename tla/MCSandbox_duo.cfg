SPECIFICATION Spec
SYMMETRY ProcSymmetry
CONSTANTS
  Procs = {p1, p2}
  NumTables = 1
  SampleRows = 1
  SameCluster = TRUE
  Fallback = {1}
  IncludeMeta = {FALSE}
  InitialDb = {"none", "other"}
  MaxRuns = 2
  MaxOthers = 1
INVARIANTS CreatedIsRegistered PublishedIsReversible
PROPERTIES ForeignUntouched PublishesAtomically
CHECK_DEADLOCK FALSE
