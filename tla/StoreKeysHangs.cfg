\* KEYS locks store_mutex a second time: it is never answered.
SPECIFICATION Spec
CONSTANTS
  Worker = {w1, w2}
  Main = main
  Key = {k1}
  Value = {v1}
  Seconds = {1}
  Op = {"SET", "GET", "KEYS"}
  MaxKeys = 1
  Period = 1
  MaxTime = 2
  NULL = null
PROPERTIES CommandsAnswered
CHECK_DEADLOCK FALSE
