SPECIFICATION FairSpec
CONSTANTS
  c1 = c1
  u1 = u1
  u2 = u2
  k1 = k1
  e1 = e1
  e2 = e2
  r1 = r1
  None = None
  Contents = {c1}
  Uploads = {u1, u2}
  Cleaners = {k1}
  Events = {e1, e2}
  Readers = {r1}
CHECK_DEADLOCK FALSE
INVARIANTS TypeOK ReadableHasBytes TicketsHonoured
PROPERTIES NeverRevived KeepsPromise EventuallyDeleted
