SPECIFICATION QuarantineSpec
CONSTANTS
  Requests = {r1, r2}
  SignalThreshold = 2
  Window = 3
  BaseDuration = 1
  MaxDuration = 2
  RecoverySuccesses = 2
  Gaps = {1, 2}
  MaxTime = 15
SYMMETRY Symmetry
PROPERTIES
  HealedByCleanStreak
  QuarantineIsEarned
\* The clock stops at MaxTime.
CHECK_DEADLOCK FALSE
