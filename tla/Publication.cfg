SPECIFICATION Spec
CONSTANTS
  s1 = s1
  r1 = r1
  b1 = b1
  b2 = b2
  k1 = k1
  k2 = k2
  None = None
  Sends = {s1}
  Redactions = {r1}
  Bodies = {b1, b2}
  Calls = {k1, k2}
INVARIANTS TypeOK PublishedIsOwn RowTellsTruth EventHasContent WithdrawnBeforeTold NeverCorrupt
SYMMETRY Symmetry
