\* Clients that leave once they are answered: main and a worker close one number.
SPECIFICATION SafeSpec
CONSTANTS
  Client = {c1, c2, c3}
  Worker = {w1, w2}
  FD = {5, 6}
  ServerFD = 3
  MaxParts = 1
  Habit = {"prompt"}
  NULL = null
SYMMETRY Symmetry
INVARIANTS RepliesGoHome
CHECK_DEADLOCK FALSE
