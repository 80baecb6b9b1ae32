SPECIFICATION Spec
CONSTANTS
  d1 = d1
  d2 = d2
  None = None
  Devices <- OneDevice
  Events <- MCEvents
  Runs <- MCRuns
  Submissions <- MCSubmissions
  MaxMessages = 2
  MaxRuns = 2
  MaxSubmissions = 2
  MaxRevision = 4
  MaxRevoked = 1
INVARIANTS TypeOK PendingBeforeHost AnsweredOnce
PROPERTIES CursorNeverBack NeverRerunUnasked
CONSTRAINT RevokedEarly
