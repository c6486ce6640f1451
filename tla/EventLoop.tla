------------------------------ MODULE EventLoop ------------------------------
(***************************************************************************)
(* The main of ch6-epoll.c: one thread that accepts connections, watches   *)
(* them with edge-triggered epoll, reads each until EAGAIN and executes    *)
(* what it reads on the array store.  The loops of ch10, ch13 and ch14     *)
(* have the same shape.                                                    *)
(*                                                                         *)
(* What a read returns is taken for one command: of several lines that     *)
(* arrived together execute_command looks at the first.                    *)
(***************************************************************************)
EXTENDS Connections

CONSTANT MaxEvents \* MAX_EVENTS

ASSUME EpollAssumption == MaxEvents \in Nat \ {0}

EpollInit == program = "epoll" /\ ConnectionsInit

-----------------------------------------------------------------------------
(* epoll_wait *)

\* Up to MaxEvents events.  The listening socket is level-triggered and goes to the
\* end of the list again.
EpollWait ==
  LET live == PartAt(ready, {i \in DOMAIN ready : Readable(ready[i])})
      n == Min({MaxEvents, Len(live)})
      rest == SubSeq(live, n + 1, Len(live))
  IN  /\ pc = "wait" /\ live # <<>>
      /\ batch' = SubSeq(live, 1, n)
      /\ ready' = IF ServerFD \in Range(batch') THEN Append(rest, ServerFD) ELSE rest
      /\ pc' = "batch"
      /\ UNCHANGED <<program, socket, backlog, table, fd, data>>

\* epoll_wait fails, as it does with EINTR after a stop and a continue: main leaves
\* the loop, and the server is over.
EpollFails ==
  /\ pc = "wait" /\ pc' = "over"
  /\ UNCHANGED <<program, socket, kernel, batch, fd, data>>

-----------------------------------------------------------------------------
(* The loop over the events *)

Listening == pc = "batch" /\ batch # <<>> /\ Head(batch) = ServerFD

\* EPOLL_CTL_ADD lists the new descriptor at once if there is something to read.
Accept ==
  LET c == Head(backlog)
  IN  /\ Listening /\ Accepted
      /\ ready' = IF inbox[c] \/ gone[c] THEN Append(ready, NewFD) ELSE ready
      /\ batch' = Tail(batch)
      /\ UNCHANGED <<program, pc, fd, data>>

\* accept fails: the process, or the whole system, has no descriptor left.
AcceptFails ==
  /\ Listening
  /\ batch' = Tail(batch)
  /\ UNCHANGED <<program, socket, kernel, pc, fd, data>>

\* set_nonblocking or epoll_ctl fails, and the new connection is closed.
AddFails ==
  /\ Listening /\ Refused
  /\ batch' = Tail(batch)
  /\ UNCHANGED <<program, ready, pc, fd, data>>

TakeEvent ==
  /\ pc = "batch" /\ batch # <<>> /\ Head(batch) # ServerFD
  /\ fd' = Head(batch) /\ batch' = Tail(batch)
  /\ pc' = "read"
  /\ UNCHANGED <<program, socket, kernel, data>>

BatchDone ==
  /\ pc = "batch" /\ batch = <<>>
  /\ pc' = "wait"
  /\ UNCHANGED <<program, socket, kernel, batch, fd, data>>

-----------------------------------------------------------------------------
(* The loop over the reads of one connection *)

Read ==
  /\ pc = "read" /\ Received
  /\ execute_command
  /\ pc' = "write"
  /\ UNCHANGED <<program, kernel, batch, fd>>

\* Mistake: one read for one event.
Write_Once ==
  /\ pc = "write" /\ Written
  /\ pc' = "batch" /\ fd' = NULL
  /\ UNCHANGED <<program, kernel, batch, data>>

Write ==
  /\ pc = "write" /\ Written
  /\ pc' = "read"
  /\ UNCHANGED <<program, kernel, batch, fd, data>>

\* Mistake: main does not leave the loop over the reads after the close.
ReadEnd_NoBreak ==
  /\ pc = "read" /\ EndOfFile /\ Closed
  /\ UNCHANGED <<program, pc, batch, fd, data>>

\* close, and the kernel forgets the events.  The EPOLL_CTL_DEL that follows fails.
ReadEnd ==
  /\ pc = "read" /\ EndOfFile /\ Closed
  /\ pc' = "batch" /\ fd' = NULL
  /\ UNCHANGED <<program, batch, data>>

\* EAGAIN
ReadAgain ==
  /\ pc = "read" /\ ~Readable(fd)
  /\ pc' = "batch" /\ fd' = NULL
  /\ UNCHANGED <<program, socket, kernel, batch, data>>

-----------------------------------------------------------------------------
EpollMain ==
  /\ program = "epoll"
  /\ \/ EpollWait \/ Accept \/ AcceptFails \/ AddFails \/ TakeEvent \/ BatchDone
     \/ Read \/ Write \/ Killed \/ ReadEnd \/ ReadAgain

\* The server and its clients.
EpollSpec == EpollInit /\ [][Clients \/ EpollMain \/ EpollFails]_shared

-----------------------------------------------------------------------------
\* Edge-triggered: an open connection with something to read has an event that main
\* has yet to handle, or is being read; and while a connection waits to be accepted
\* the listening socket is listed.
NoEventMissed ==
  program = "epoll" =>
    /\ \A d \in FD : Readable(d) => d \in Range(ready) \cup Range(batch) \cup {fd}
    /\ Readable(ServerFD) => ServerFD \in Range(ready)
=============================================================================
