\* The TTL server: safety, its refinement of the expiring map, and liveness.
SPECIFICATION Spec
CONSTANTS
  Key = {k1, k2, k3}
  Value = {v1}
  Seconds = {1}
  MaxKeys = 2
  Period = 1
  MaxTime = 4
INVARIANTS TypeOK CleanupLeavesNone
PROPERTIES IdealSpec ExpiredLeaves
CHECK_DEADLOCK FALSE
