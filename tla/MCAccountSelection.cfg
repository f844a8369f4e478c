CONSTANTS
  p1 = p1
  p2 = p2
  c1 = c1
  r1 = r1
  r2 = r2
  none = none
  NoProfile = none
  Requests = {r1, r2}
  Conversations = {c1}
  Profiles <- MCProfiles
  Pools <- MCPools
  Workloads <- MCWorkloads
  Kind <- MCKind
  Leg <- MCLeg
  PoolLimits <- MCLimits
  Snapshots <- MCSnapshots
  Blocks <- MCBlocks
  Identities <- MCProfiles
  ClaudeProvider = "claude"
  Second = 1000

SPECIFICATION SelectionSpec

INVARIANTS
  LeasesBalance
  PoolBeforeFallback
  BackupHasTime

PROPERTIES
  PinUntilBroken

CHECK_DEADLOCK FALSE
