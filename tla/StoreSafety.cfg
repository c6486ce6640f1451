\* Safety of the shared store and its refinement of the atomic lazy map.
SPECIFICATION SafeSpec
CONSTANTS
  Worker = {w1, w2}
  Main = main
  Key = {k1, k2, k3}
  Value = {v1, v2}
  Seconds = {1}
  Op = {"SET", "GET", "EXPIRE", "TTL", "PERSIST", "KEYS", "FLUSHALL", "INFO"}
  MaxKeys = 2
  Period = 1
  MaxTime = 3
  NULL = null
SYMMETRY Symmetry
INVARIANTS TypeOK UniqueKeys IndexFresh CleanupLeavesNone
PROPERTIES LazySpec
CHECK_DEADLOCK FALSE
