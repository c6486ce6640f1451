\* A SET of a key that has expired and is still there is lost.
SPECIFICATION SafeSpec
CONSTANTS
  Worker = {w1, w2}
  Main = main
  Key = {k1}
  Value = {v1, v2}
  Seconds = {1}
  Op = {"SET", "EXPIRE", "GET"}
  MaxKeys = 1
  Period = 5
  MaxTime = 3
  NULL = null
PROPERTIES SetTakesEffect
CHECK_DEADLOCK FALSE
