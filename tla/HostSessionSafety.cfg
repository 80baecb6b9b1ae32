SPECIFICATION Spec
CONSTANTS
  k1 = k1
  c1 = c1
  c2 = c2
  NoSession = NoSession
  Keys <- MCKeys
  Callers <- MCCallers
  MaxOpened = 2
  MaxSessions = 1
INVARIANTS TypeOK OneWorkerPerKey NoCallAfterDrain NothingSurvivesShutdown
CHECK_DEADLOCK FALSE
