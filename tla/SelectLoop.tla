----------------------------- MODULE SelectLoop -----------------------------
(***************************************************************************)
(* The main of ch5-select.c: an array of clients, one select per round     *)
(* without a timeout, at most one accept in a round and one read of every  *)
(* client that select reported.                                            *)
(***************************************************************************)
EXTENDS Connections

CONSTANT MaxClients \* the sizes of the array that are tried, for MAX_CLIENTS

ASSUME SelectAssumption == MaxClients \subseteq Nat \ {0}

VARIABLE clients \* the array; NULL is its 0, an empty slot

SelectInit ==
  /\ program = "select" /\ ConnectionsInit
  /\ \E n \in MaxClients : clients = [i \in 1..n |-> NULL]

EmptySlots == {i \in DOMAIN clients : clients[i] = NULL}

-----------------------------------------------------------------------------
\* select returns the readable ones of server_fd and the clients in the array.  The
\* batch is those that main will find set, in the order in which it asks: server_fd,
\* then the slots.  A select that fails changes nothing.
Select ==
  LET asked == <<ServerFD>> \o clients
      set == PartAt(asked, {i \in DOMAIN asked : asked[i] # NULL /\ Readable(asked[i])})
  IN  /\ pc = "wait" /\ set # <<>>
      /\ batch' = set /\ pc' = "scan"
      /\ UNCHANGED <<program, socket, kernel, fd, data, clients>>

NewConnection == pc = "scan" /\ batch # <<>> /\ Head(batch) = ServerFD

\* accept, and the first empty slot.
AddClient ==
  /\ NewConnection /\ Accepted
  /\ EmptySlots # {}
  /\ clients' = [clients EXCEPT ![Min(EmptySlots)] = NewFD]
  /\ batch' = Tail(batch)
  /\ UNCHANGED <<program, ready, pc, fd, data>>

\* "Too many clients!"
TooManyClients ==
  /\ NewConnection /\ Refused
  /\ EmptySlots = {}
  /\ batch' = Tail(batch)
  /\ UNCHANGED <<program, ready, pc, fd, data, clients>>

\* accept fails: `continue' skips the clients, who are left to the next select.
NoClient ==
  /\ NewConnection
  /\ batch' = <<>> /\ pc' = "wait"
  /\ UNCHANGED <<program, socket, kernel, fd, data, clients>>

\* The next slot whose descriptor is set.
TakeClient ==
  /\ pc = "scan" /\ batch # <<>> /\ Head(batch) # ServerFD
  /\ fd' = Head(batch) /\ batch' = Tail(batch)
  /\ pc' = "read"
  /\ UNCHANGED <<program, socket, kernel, data, clients>>

ReadClient ==
  /\ pc = "read" /\ Received
  /\ execute_command \/ BareUninitialized
  /\ pc' = "write"
  /\ UNCHANGED <<program, kernel, batch, fd, clients>>

\* The sockets are blocking: while the client does not read and the buffers are full
\* the step does not happen, and Servers assumes nothing of it.
WriteClient ==
  /\ pc = "write" /\ Written
  /\ pc' = "scan" /\ fd' = NULL
  /\ UNCHANGED <<program, kernel, batch, data, clients>>

\* Mistake: the slot keeps the number of the closed descriptor.
CloseClient_KeepSlot ==
  /\ pc = "read" /\ EndOfFile /\ Closed
  /\ pc' = "scan" /\ fd' = NULL
  /\ UNCHANGED <<program, batch, data, clients>>

\* read returns 0 or an error: close, and the slot is empty.
CloseClient ==
  /\ pc = "read" /\ EndOfFile /\ Closed
  /\ clients' = [clients EXCEPT ![SelectInSeq(clients, LAMBDA d : d = fd)] = NULL]
  /\ pc' = "scan" /\ fd' = NULL
  /\ UNCHANGED <<program, batch, data>>

RoundDone ==
  /\ pc = "scan" /\ batch = <<>>
  /\ pc' = "wait"
  /\ UNCHANGED <<program, socket, kernel, batch, fd, data, clients>>

-----------------------------------------------------------------------------
SelectMain ==
  /\ program = "select"
  /\ \/ Select \/ AddClient \/ TooManyClients \/ NoClient \/ TakeClient
     \/ ReadClient \/ WriteClient \/ CloseClient \/ RoundDone
     \/ Killed /\ UNCHANGED clients

\* The server and its clients.
SelectSpec ==
  SelectInit /\ [][(Clients /\ UNCHANGED clients) \/ SelectMain]_<<shared, clients>>

-----------------------------------------------------------------------------
\* When main builds the set to wait for, every open connection is in one slot.
SlotsExact ==
  program = "select" /\ pc = "wait" =>
    \A d \in FD : Cardinality({i \in DOMAIN clients : clients[i] = d})
                   = IF d \in Free THEN 0 ELSE 1
=============================================================================
