SPECIFICATION Spec
CONSTANTS
  Tab = {t1, t2}
  t1 = t1
  t2 = t2
  IndexTabs = {t2}
  MaxQueries = 1
  MaxExpired = 1
  MaxClicks = 2
  MaxAttempts = 8
INVARIANTS TypeOK CallbackFailsForCause
PROPERTIES CodeSentOnce OnlyStaleRefusalsSignOut Settles EveryQuerySettles
CHECK_DEADLOCK FALSE
