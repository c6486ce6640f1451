------------------------------- MODULE Servers -------------------------------
(***************************************************************************)
(* The three single-threaded servers side by side: a behaviour is one of   *)
(* the epoll server of ch6, of the select server of ch5 or of the blocking *)
(* server of ch4, with the same clients.                                   *)
(***************************************************************************)
EXTENDS EventLoop, SelectLoop, BlockingLoop

vars == <<shared, clients, request>>

Init ==
  \/ EpollInit /\ clients = <<>> /\ request = NoRequest
  \/ SelectInit /\ request = NoRequest
  \/ BlockingInit /\ clients = <<>>

Main ==
  \/ EpollMain /\ UNCHANGED <<clients, request>>
  \/ SelectMain /\ UNCHANGED request
  \/ BlockingMain /\ UNCHANGED clients

Next ==
  \/ Clients /\ UNCHANGED <<clients, request>>
  \/ Main
  \/ program = "epoll" /\ EpollFails /\ UNCHANGED <<clients, request>>

\* The writes of ch5 may block; no other step of main waits for anything but what
\* enables it.
Unblocked == Main /\ ~(program = "select" /\ pc = "write")

\* Main runs, unless it is blocked; the clients owe nothing, not even to read.
Spec == Init /\ [][Next]_vars /\ WF_vars(Unblocked)

-----------------------------------------------------------------------------
(* Properties *)

\* A connection that has something to read, or that its client has closed, is read
\* and drained or closed, and one that is in the backlog is accepted (by the epoll
\* server unless accept fails again and again, which the property leaves out): nothing
\* gets lost in the batches, the edges, the slots or the reuse of a number.  What can
\* keep main from it for ever is the end of the server; a single connection (the epoll
\* server reads on while its client has more, the blocking server waits for a client
\* that is silent, the select server writes to a client that does not read); and in the
\* select server an accept that fails again and again, after which it skips its clients.
Waiting(c) ==
  \/ conn[c] = "open" /\ (inbox[c] \/ gone[c])
  \/ conn[c] = "backlog" /\ program # "epoll"

AllServed ==
  \/ \A c \in Client : Waiting(c) ~> (~Waiting(c) \/ pc = "over")
  \/ \E d \in FD : <>[](fd = d /\ (program # "select" \/ pc = "write"))
  \/ []<><<NoClient>>_vars
=============================================================================
