SPECIFICATION Spec
CONSTANTS
  Processes = {p1, p2}
  Attempts = {a1, a2, a3}
  Bounds = {2}
  Limit = 3
  Window = 3
  Lifetime = 1
  MaxEntries = 2
  MaxTime = 5
SYMMETRY Symmetry
INVARIANT
  WindowNeverOverspent
PROPERTY RecoveryForgivesNothing
\* The clock stops at MaxTime, and a process may serve no further attempt.
CHECK_DEADLOCK FALSE
