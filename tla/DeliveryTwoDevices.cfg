SPECIFICATION Spec
CONSTANTS
  d1 = d1
  d2 = d2
  None = None
  Devices <- TwoDevices
  Events <- MCEvents
  Runs <- MCRuns
  Submissions <- MCSubmissions
  MaxMessages = 1
  MaxRuns = 2
  MaxSubmissions = 1
  MaxRevision = 3
  MaxRevoked = 0
INVARIANTS HostTurnExclusive
SYMMETRY Symmetry
VIEW Protocol
