SPECIFICATION Spec
CONSTANTS
  Requests = {r1, r2, r3}
  Origins = {oa, ob}
  OriginThreshold = 2
  Window = 1
  Suppression = 3
  RecoveryDelay = 1
  Gaps = {0, 1}
  MaxTime = 5
INVARIANTS
  RecoveringHasProbe
PROPERTIES
  OfflineIsCorroborated
  RecoveryEnds
