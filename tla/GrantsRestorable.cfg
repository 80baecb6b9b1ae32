SPECIFICATION Spec
CONSTANTS
  g1 = g1
  g2 = g2
  i1 = i1
  i2 = i2
  s1 = s1
  s2 = s2
  k1 = k1
  k2 = k2
  p1 = p1
  p2 = p2
  a = a
  None = None
  Grants = {g1}
  Instances = {i1}
  Principals = {p1}
  Submissions = {s1}
  Shapes = {a}
  Requests = {k1}
  Principal <- MCPrincipal
  PerMinute = 1
  MaxTotal = 2
  Lifetime = 2
  Minute = 1
  MaxTime = 2
  MaxRuns = 2
CHECK_DEADLOCK FALSE
INVARIANT RowsRestorable
