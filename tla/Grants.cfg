SPECIFICATION Spec
CONSTANTS
  g1 = g1
  g2 = g2
  i1 = i1
  i2 = i2
  s1 = s1
  s2 = s2
  k1 = k1
  k2 = k2
  p1 = p1
  p2 = p2
  a = a
  None = None
  Grants = {g1, g2}
  Instances = {i1, i2}
  Principals = {p1, p2}
  Submissions = {s1, s2}
  Shapes = {a}
  Requests = {k1, k2}
  Principal <- MCPrincipal
  PerMinute = 1
  MaxTotal = 2
  Lifetime = 3
  Minute = 2
  MaxTime = 3
  MaxRuns = 2
CHECK_DEADLOCK FALSE
INVARIANTS TypeOK WithinLimits ExhaustedMeansSpent
PROPERTIES AuthorizedIsPaid NoneAfterTheEnd NeverStranded LedgerIsFinal
SYMMETRY Symmetry
VIEW Ledger
CONSTRAINT Scoped
