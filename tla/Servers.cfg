\* Two clients that come and go before each of the three servers: one event per
\* epoll_wait, and a client array of one slot and of two.
SPECIFICATION Spec
CONSTANTS
  Client = {c1, c2}
  FD = {4, 5}
  ServerFD = 3
  MaxEvents = 1
  MaxClients = {1, 2}
  Request <- Requests
  Char <- Chars
  Depth = 3
  Key = {k1, k2}
  Value = {v1, v2}
  MaxKeys = 2
  MaxListed = 2
  NULL = NULL
INVARIANTS ConnectionsOK SlotsExact RequestUnderstood
PROPERTIES MapSpec AllServed
CHECK_DEADLOCK FALSE
