\* Every command but KEYS is answered, on a full store too, and expired entries go
\* away although a worker competes with the cleanup for the mutex.
SPECIFICATION Spec
CONSTANTS
  Worker = {w1}
  Main = main
  Key = {k1, k2, k3}
  Value = {v1}
  Seconds = {1}
  Op = {"SET", "GET", "EXPIRE", "TTL", "PERSIST", "FLUSHALL", "INFO"}
  MaxKeys = 2
  Period = 0
  MaxTime = 3
  NULL = null
PROPERTIES CommandsAnswered ExpiredLeaves
CHECK_DEADLOCK FALSE
