SPECIFICATION FableSpec
CONSTANTS
  Requests = {r1, r2}
  Interval = 2
  FreshTime = 2
  BlockTimes = {6}
  AccountTime = 1
  Gaps = {1}
  MaxTime = 9
PROPERTIES
  ProbesAreRare
  LiftedByLaterEvidence
  ProbeEnds
