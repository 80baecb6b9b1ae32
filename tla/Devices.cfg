SPECIFICATION FairSpec
CONSTANTS
  MaxFamilies = 2
  MaxAttempts = 2
  MaxTime = 6
  AccessTtl = 3
  Lead = 1
  ProofAge = 1
  Sliding = 5
  Lifetime = 6
  None = None
INVARIANTS TypeOK Recoverable
PROPERTIES LeftoverHarmless RefreshSettles
CHECK_DEADLOCK FALSE
