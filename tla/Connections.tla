----------------------------- MODULE Connections -----------------------------
(***************************************************************************)
(* The TCP connections of a single-threaded server, as its main loop and   *)
(* its clients see them, and the part the loops of ch4, ch5 and ch6 have   *)
(* in common.  A client connects, sends, leaves and connects again; of     *)
(* what it has sent a flag says whether some is unread.                    *)
(***************************************************************************)
EXTENDS ArrayStore, Arrangement

CONSTANTS Client,   \* the clients; one may connect again
          FD,       \* the descriptors left for connections, numbers
          ServerFD, \* the listening socket
          NULL

ASSUME ConnectionAssumption ==
  /\ FD \subseteq Nat \ {0} /\ ServerFD \in Nat \ FD
  /\ NULL \notin Client \cup FD

VARIABLES program,  \* whose main runs: "epoll" (ch6), "select" (ch5) or "blocking" (ch4)
          conn,     \* conn[c]: "none", "backlog" or "open"
          inbox,    \* inbox[c]: c has sent what nobody has read
          gone,     \* gone[c]: c has closed its end
          torn,     \* torn[c]: a reply went to c after that and provokes a reset
          backlog,  \* the connections to accept, oldest first
          table,    \* table[fd]: the client the descriptor leads to, or NULL
          ready,    \* epoll's list of descriptors with an event, oldest first
          pc,       \* where main is; "over" when the process has ended
          batch,    \* the descriptors reported and still to be handled, in order
          fd        \* the descriptor main reads

socket == <<conn, inbox, gone, torn>>
kernel == <<backlog, table, ready>>
data == <<store, response>>
shared == <<program, socket, kernel, pc, batch, fd, data>>

ConnectionsInit ==
  /\ conn = [c \in Client |-> "none"] /\ inbox = [c \in Client |-> FALSE]
  /\ gone = [c \in Client |-> FALSE] /\ torn = [c \in Client |-> FALSE]
  /\ backlog = <<>> /\ table = [d \in FD |-> NULL] /\ ready = <<>>
  /\ pc = "wait" /\ batch = <<>> /\ fd = NULL
  /\ StoreInit

Free == {d \in FD : table[d] = NULL}

\* read on d would return at once, and so would accept.
Readable(d) ==
  IF d = ServerFD THEN backlog # <<>>
  ELSE table[d] # NULL /\ (inbox[table[d]] \/ gone[table[d]])

\* epoll lists a descriptor once, when something changes on it.
Listed(d) ==
  IF program = "epoll" /\ d \notin Range(ready) THEN Append(ready, d) ELSE ready

Edge(c) ==
  IF \E d \in FD : table[d] = c THEN Listed(CHOOSE d \in FD : table[d] = c) ELSE ready

-----------------------------------------------------------------------------
(* The clients, while the server runs *)

Connect(c) ==
  /\ pc # "over" /\ conn[c] = "none"
  /\ conn' = [conn EXCEPT ![c] = "backlog"]
  /\ backlog' = Append(backlog, c)
  /\ ready' = Listed(ServerFD)
  /\ UNCHANGED <<program, inbox, gone, torn, table, pc, batch, fd, data>>

Send(c) ==
  /\ pc # "over" /\ conn[c] # "none" /\ ~gone[c]
  /\ inbox' = [inbox EXCEPT ![c] = TRUE]
  /\ ready' = Edge(c)
  /\ UNCHANGED <<program, conn, gone, torn, backlog, table, pc, batch, fd, data>>

Leave(c) ==
  /\ pc # "over" /\ conn[c] # "none" /\ ~gone[c]
  /\ gone' = [gone EXCEPT ![c] = TRUE]
  /\ ready' = Edge(c)
  /\ UNCHANGED <<program, conn, inbox, torn, backlog, table, pc, batch, fd, data>>

Clients == \E c \in Client : Connect(c) \/ Send(c) \/ Leave(c)

-----------------------------------------------------------------------------
(* What the calls of main do to a connection *)

\* accept takes the oldest connection and the lowest free number.
NewFD == Min(Free)

Accepted ==
  LET c == Head(backlog)
  IN  /\ Free # {} /\ backlog # <<>>
      /\ backlog' = Tail(backlog)
      /\ conn' = [conn EXCEPT ![c] = "open"]
      /\ table' = [table EXCEPT ![NewFD] = c]
      /\ UNCHANGED <<inbox, gone, torn>>

\* The end of a connection: its client may make a new one.
Forget(c) ==
  /\ conn' = [conn EXCEPT ![c] = "none"] /\ inbox' = [inbox EXCEPT ![c] = FALSE]
  /\ gone' = [gone EXCEPT ![c] = FALSE] /\ torn' = [torn EXCEPT ![c] = FALSE]

\* accept, and close of the new descriptor.
Refused ==
  /\ Free # {} /\ backlog # <<>>
  /\ backlog' = Tail(backlog) /\ Forget(Head(backlog))
  /\ UNCHANGED table

\* close
Closed ==
  /\ Forget(table[fd])
  /\ table' = [table EXCEPT ![fd] = NULL]
  /\ ready' = PartAt(ready, {i \in DOMAIN ready : ready[i] # fd})
  /\ UNCHANGED backlog

\* read returns all there is.
Received ==
  /\ inbox[table[fd]]
  /\ inbox' = [inbox EXCEPT ![table[fd]] = FALSE]
  /\ UNCHANGED <<conn, gone, torn>>

\* read returns 0, or the error of a reset.
EndOfFile == ~inbox[table[fd]] /\ gone[table[fd]]

\* write, whose result nobody looks at: of ch6 on a non-blocking socket, which takes
\* what fits; of ch4 the only one on its connection, which fits; of ch5 on a blocking
\* one, which may take for ever.
Written ==
  /\ torn' = [torn EXCEPT ![table[fd]] = gone[table[fd]]]
  /\ UNCHANGED <<conn, inbox, gone>>

\* The reset that an earlier reply provoked has arrived: SIGPIPE ends the process.
Killed ==
  /\ pc = "write" /\ torn[table[fd]]
  /\ pc' = "over"
  /\ UNCHANGED <<program, socket, kernel, batch, fd, data>>

-----------------------------------------------------------------------------
\* The descriptors main holds, has been told about or reads are those of open
\* connections, or the listening socket, although the numbers are used again.
ConnectionsOK ==
  /\ conn \in [Client -> {"none", "backlog", "open"}]
  /\ inbox \in [Client -> BOOLEAN] /\ gone \in [Client -> BOOLEAN]
  /\ torn \in [Client -> BOOLEAN]
  /\ backlog \in Seq(Client) /\ table \in [FD -> Client \cup {NULL}]
  /\ Range(ready) \cup Range(batch) \subseteq {ServerFD} \cup (FD \ Free)
  /\ fd \in {NULL} \cup (FD \ Free)
  /\ pc \in {"wait", "batch", "scan", "read", "process", "write", "close", "over"}
  /\ pc \in {"read", "write"} => fd # NULL
  /\ WellFormed
=============================================================================
