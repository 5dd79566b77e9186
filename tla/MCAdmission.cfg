SPECIFICATION Spec
CONSTANTS
  Threads = {t1, t2, t3}
  Requests = 3
  rate_interval_ns = 2
  MaxTime = 5
INVARIANTS
  GrantsWithinQuota
  SlotsSpaced
  RateBounded
SYMMETRY MCSymmetry
