SPECIFICATION Spec
CONSTANTS
  MaxRows = 5
  PipeRows = 2
INVARIANTS TypeOK OkMeansAllRows NoFalseAlarm NothingLeftRunning
PROPERTIES InsertsOnce PopulateReturns
CHECK_DEADLOCK FALSE
