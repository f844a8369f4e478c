SPECIFICATION AuthSpec
CONSTANTS
  Requests = {r1, r2}
  StrikeLimit = 2
  QuarantineTime = 4
  AuthTime = 1
  QuotaTimes = {4}
  Spacing = 1
  Gaps = {1}
  MaxTime = 9
SYMMETRY Symmetry
PROPERTY BlocksLiftedByNewerProof
\* The clock stops at MaxTime.
CHECK_DEADLOCK FALSE
