SPECIFICATION Spec
CONSTANTS
  Requests = {r1, r2, r3}
  Threshold = 2
  Window = 4
  BaseCooldown = 1
  MaxCooldown = 3
  RecoveryDelay = 2
  Gaps = {1, 3}
  MaxTime = 15
SYMMETRY Symmetry
INVARIANTS
  NoLeakedProbe
  OverlapOnlyAfterFailure
  BanNeedsThreshold
PROPERTY ClosedByALaterAttempt
\* The clock stops at MaxTime.
CHECK_DEADLOCK FALSE
