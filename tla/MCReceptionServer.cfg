SPECIFICATION Spec
CONSTANTS
  d1 = d1
  d2 = d2
  r1 = r1
  r2 = r2
  s1 = s1
  None = None
  Devices <- MCDevices
  Runs <- MCRuns
  Events <- MCEvents
  Submissions <- MCSubmissions
  Origin = 0
  MaxInFlight = 2
  MaxRevision = 2
  MaxRevoked = 1
INVARIANTS TypeOK NoTakeoverUnasked
PROPERTIES ReleasedRunStaysReleased RevisionNamesProgress ImplementsLock
CONSTRAINT RevokedEarly
SYMMETRY Symmetry
