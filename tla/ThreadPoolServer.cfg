\* Requests in two parts and every habit of the clients; descriptors are used again.
SPECIFICATION Spec
CONSTANTS
  Client = {c1, c2}
  Worker = {w1, w2}
  FD = {5, 6}
  ServerFD = 3
  MaxParts = 2
  Habit = {"prompt", "hasty"}
  NULL = null
INVARIANTS TypeOK HandOverHolds NoEventMissed NoFdLeaks
PROPERTIES ConnectionsEnd RequestsAnswered
CHECK_DEADLOCK FALSE
