SPECIFICATION FairSpec
CONSTANTS
  k1 = k1
  c1 = c1
  c2 = c2
  NoSession = NoSession
  Keys <- MCKeys
  Callers <- MCCallers
  MaxOpened = 1
  MaxSessions = 1
PROPERTIES ClosingCompletes ShutdownCompletes
CHECK_DEADLOCK FALSE
