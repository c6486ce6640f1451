--------------------------- MODULE ThreadPoolServer ---------------------------
(***************************************************************************)
(* The life of a connection in ch16-threadpool.c: main accepts it and      *)
(* watches it with edge-triggered epoll, reads a request, queues it and    *)
(* stops watching; a worker answers on the file descriptor number kept in  *)
(* the task and closes it.  Main and the workers share the descriptor      *)
(* table of the process and nothing tells one of them that the other has   *)
(* closed a number, or that the kernel gave it to a new connection.        *)
(*                                                                         *)
(* The queue is the one WorkPool specifies and TaskQueue implements.  What *)
(* a command does to the store is in SharedStore; here a command writes    *)
(* one reply, writes none, or never returns, and which of these it is is   *)
(* chosen when it is executed.                                             *)
(***************************************************************************)
EXTENDS Naturals, Sequences, FiniteSets, FiniteSetsExt

CONSTANTS Client,     \* each makes one connection
          Worker,
          FD,         \* the descriptors left for connections, numbers
          ServerFD,   \* server_fd, the listening socket
          MaxParts,   \* in how many parts at most what a client sends arrives
          Habit,      \* when a client that has sent may close its end, see MayLeave
          NULL

Task == [fd : FD, from : Client]

ASSUME ServerAssumption ==
  /\ FD \subseteq Nat /\ ServerFD \in Nat \ FD
  /\ NULL \notin Client \cup FD \cup Task
  /\ MaxParts \in Nat
  /\ Habit \subseteq {"prompt", "hasty"}

VARIABLES conn,     \* conn[c]: "new", "backlog", "open" or "closed" by the server
          sent,     \* sent[c]: how many parts have arrived from c
          inbox,    \* inbox[c]: the parts that nobody has read
          gone,     \* gone[c]: c has closed its end, the server will read 0
          got,      \* got[c]: whose requests the replies c received answer
          mute,     \* the clients of whom a command was executed that writes no reply
          backlog,  \* the connections to accept, oldest first
          table,    \* table[fd]: the connection the descriptor refers to, or NULL
          watch,    \* the descriptors registered with epoll
          ready,    \* those with an event epoll_wait has not returned
          pc,       \* where main is: "wait", "batch", "read", "hung", and "over" for
                    \* the end of the process
          batch,    \* the events still to be handled: descriptors
          fd,       \* the descriptor main reads
          queue,    \* the task queue: records [fd, from], from for the properties
          task,     \* task[w]: the task w executes, or NULL
          replied,  \* the workers whose command has returned and that have not closed
          hung,     \* the workers whose command never returns
          reread    \* history: main read more, or the end, of a connection whose
                    \* descriptor it had already handed over

clients == <<conn, sent, inbox, gone, got, mute>>
kernel == <<backlog, table, watch, ready>>
main == <<pc, batch, fd>>
pool == <<queue, task, replied, hung>>
vars == <<clients, kernel, main, pool, reread>>

Init ==
  /\ conn = [c \in Client |-> "new"] /\ sent = [c \in Client |-> 0]
  /\ inbox = [c \in Client |-> 0] /\ gone = [c \in Client |-> FALSE]
  /\ got = [c \in Client |-> {}] /\ mute = {}
  /\ backlog = <<>> /\ table = [d \in FD |-> NULL]
  /\ watch = {} /\ ready = {}
  /\ pc = "wait" /\ batch = {} /\ fd = NULL
  /\ queue = <<>> /\ task = [w \in Worker |-> NULL] /\ replied = {} /\ hung = {}
  /\ reread = FALSE

\* The tasks that are queued or executed.
Tasks == ({queue[i] : i \in DOMAIN queue} \cup {task[w] : w \in Worker}) \ {NULL}

\* The process has not ended.
Running == pc # "over"

\* An edge: epoll notes a change on a watched descriptor.
Edge(c) == ready' = ready \cup {d \in watch : table[d] = c}

-----------------------------------------------------------------------------
(* The clients *)

Connect(c) ==
  /\ Running /\ conn[c] = "new"
  /\ conn' = [conn EXCEPT ![c] = "backlog"]
  /\ backlog' = Append(backlog, c)
  /\ UNCHANGED <<sent, inbox, gone, got, mute, table, watch, ready, main, pool, reread>>

Send(c) ==
  /\ Running /\ conn[c] \in {"backlog", "open"} /\ ~gone[c]
  /\ sent[c] < MaxParts
  /\ sent' = [sent EXCEPT ![c] = @ + 1]
  /\ inbox' = [inbox EXCEPT ![c] = @ + 1]
  /\ Edge(c)
  /\ UNCHANGED <<conn, gone, got, mute, backlog, table, watch, main, pool, reread>>

\* When a client may close its end: any time before it has sent.  Once it has sent,
\* the patient one waits for the server to close; the prompt one leaves when it has
\* an answer; the hasty one closes its sending side right away.
MayLeave(c) ==
  \/ sent[c] = 0
  \/ "prompt" \in Habit /\ got[c] # {}
  \/ "hasty" \in Habit

Leave(c) ==
  /\ Running /\ conn[c] \in {"backlog", "open"} /\ ~gone[c]
  /\ MayLeave(c)
  /\ gone' = [gone EXCEPT ![c] = TRUE]
  /\ Edge(c)
  /\ UNCHANGED <<conn, sent, inbox, got, mute, backlog, table, watch, main, pool, reread>>

-----------------------------------------------------------------------------
(* close(d), by main or by a worker *)

\* The kernel ends the connection and forgets the events; a number that is not in
\* use is an error nobody looks at.
Close(d) ==
  /\ conn' = [c \in Client |-> IF table[d] = c THEN "closed" ELSE conn[c]]
  /\ table' = [table EXCEPT ![d] = NULL]
  /\ watch' = watch \ {d}
  /\ ready' = ready \ {d}

-----------------------------------------------------------------------------
(* The loop of main *)

\* epoll_wait returns every event there is (MAX_EVENTS is far above FD here).
EpollWait ==
  /\ pc = "wait"
  /\ batch' = ready \cup (IF backlog # <<>> THEN {ServerFD} ELSE {})
  /\ batch' # {}
  /\ ready' = {}
  /\ pc' = "batch"
  /\ UNCHANGED <<clients, backlog, table, watch, fd, pool, reread>>

\* Mistakes: a new connection is not watched; it is watched only for what comes
\* after it was added.
Accept_NotWatched ==
  /\ pc = "batch" /\ ServerFD \in batch
  /\ \E d \in FD : table[d] = NULL
  /\ LET d == Min({e \in FD : table[e] = NULL})
     IN  table' = [table EXCEPT ![d] = Head(backlog)]
  /\ conn' = [conn EXCEPT ![Head(backlog)] = "open"]
  /\ backlog' = Tail(backlog) /\ batch' = batch \ {ServerFD}
  /\ UNCHANGED <<sent, inbox, gone, got, mute, watch, ready, pc, fd, pool, reread>>

Accept_Unread ==
  /\ pc = "batch" /\ ServerFD \in batch
  /\ \E d \in FD : table[d] = NULL
  /\ LET d == Min({e \in FD : table[e] = NULL})
     IN  table' = [table EXCEPT ![d] = Head(backlog)] /\ watch' = watch \cup {d}
  /\ conn' = [conn EXCEPT ![Head(backlog)] = "open"]
  /\ backlog' = Tail(backlog) /\ batch' = batch \ {ServerFD}
  /\ UNCHANGED <<sent, inbox, gone, got, mute, ready, pc, fd, pool, reread>>

\* One accept for the listening socket, which is level-triggered: the kernel gives
\* the lowest free number.  EPOLL_CTL_ADD reports what is there already.
Accept ==
  LET c == Head(backlog)
      free == {d \in FD : table[d] = NULL}
      d == Min(free)
  IN  /\ pc = "batch" /\ ServerFD \in batch
      /\ batch' = batch \ {ServerFD}
      /\ free # {}
      /\ backlog' = Tail(backlog)
      /\ conn' = [conn EXCEPT ![c] = "open"]
      /\ table' = [table EXCEPT ![d] = c]
      /\ watch' = watch \cup {d}
      /\ ready' = IF inbox[c] > 0 \/ gone[c] THEN ready \cup {d} ELSE ready
      /\ UNCHANGED <<sent, inbox, gone, got, mute, pc, fd, pool, reread>>

\* accept fails, because there is no descriptor left or for want of other resources,
\* and is tried again in the next round.
AcceptFails ==
  /\ pc = "batch" /\ ServerFD \in batch
  /\ batch' = batch \ {ServerFD}
  /\ UNCHANGED <<clients, kernel, pc, fd, pool, reread>>

\* Mistake: the listening socket is not told apart from the connections.
TakeEvent_Listening ==
  /\ pc = "batch"
  /\ \E d \in batch :
       /\ fd' = d
       /\ batch' = batch \ {d}
  /\ pc' = "read"
  /\ UNCHANGED <<clients, kernel, pool, reread>>

\* An event of a client: read it until there is nothing left.
TakeEvent ==
  /\ pc = "batch"
  /\ \E d \in batch \ {ServerFD} :
       /\ fd' = d
       /\ batch' = batch \ {d}
  /\ pc' = "read"
  /\ UNCHANGED <<clients, kernel, pool, reread>>

\* A task names d.
HandedOver(d) == \E t \in Tasks : t.fd = d

\* read returns what is there, or part of it; the task is queued and the descriptor
\* no longer watched; main reads again.
ReadRequest ==
  LET c == table[fd]
  IN  /\ pc = "read" /\ c # NULL
      /\ \E n \in 1..inbox[c] : inbox' = [inbox EXCEPT ![c] = @ - n]
      /\ queue' = Append(queue, [fd |-> fd, from |-> c])
      /\ watch' = watch \ {fd} /\ ready' = ready \ {fd}
      /\ reread' = (reread \/ HandedOver(fd))
      /\ UNCHANGED <<conn, sent, gone, got, mute, backlog, table, main, task, replied, hung>>

\* read returns 0: main closes the descriptor.
ReadEnd ==
  LET c == table[fd]
  IN  /\ pc = "read" /\ c # NULL
      /\ inbox[c] = 0 /\ gone[c]
      /\ Close(fd)
      /\ pc' = "batch" /\ fd' = NULL
      /\ reread' = (reread \/ HandedOver(fd))
      /\ UNCHANGED <<sent, inbox, gone, got, mute, backlog, batch, pool>>

\* read fails, because a worker has closed the number: main closes it again.
ReadFails ==
  /\ pc = "read" /\ table[fd] = NULL
  /\ Close(fd)
  /\ pc' = "batch" /\ fd' = NULL
  /\ UNCHANGED <<sent, inbox, gone, got, mute, backlog, batch, pool, reread>>

\* Mistake: the loop ends on EAGAIN by closing the descriptor as well.
ReadAgain_Closes ==
  LET c == table[fd]
  IN  /\ pc = "read" /\ c # NULL
      /\ inbox[c] = 0 /\ ~gone[c]
      /\ Close(fd)
      /\ pc' = "batch" /\ fd' = NULL
      /\ UNCHANGED <<sent, inbox, gone, got, mute, backlog, batch, pool, reread>>

\* EAGAIN
ReadAgain ==
  LET c == table[fd]
  IN  /\ pc = "read" /\ c # NULL
      /\ inbox[c] = 0 /\ ~gone[c]
      /\ pc' = "batch" /\ fd' = NULL
      /\ UNCHANGED <<clients, kernel, batch, pool, reread>>

BatchDone ==
  /\ pc = "batch" /\ batch = {}
  /\ pc' = "wait"
  /\ UNCHANGED <<clients, kernel, batch, fd, pool, reread>>

\* At the top of the loop, every five seconds, main locks the store to remove expired
\* keys: for ever, when a worker never lets go of it.
Cleanup ==
  /\ pc = "wait" /\ hung # {}
  /\ pc' = "hung"
  /\ UNCHANGED <<clients, kernel, batch, fd, pool, reread>>

-----------------------------------------------------------------------------
(* The workers *)

\* queue_pop
Pop(w) ==
  /\ Running /\ task[w] = NULL /\ queue # <<>>
  /\ task' = [task EXCEPT ![w] = Head(queue)]
  /\ queue' = Tail(queue)
  /\ UNCHANGED <<clients, kernel, main, replied, hung, reread>>

Executing(w) == Running /\ task[w] # NULL /\ w \notin replied \cup hung

\* execute_command: the reply goes to whatever the number refers to by now.
Reply(w) ==
  /\ Executing(w)
  /\ replied' = replied \cup {w}
  /\ got' = [c \in Client |-> IF table[task[w].fd] = c THEN got[c] \cup {task[w].from}
                              ELSE got[c]]
  /\ UNCHANGED <<conn, sent, inbox, gone, mute, kernel, main, queue, task, hung, reread>>

\* KEYS without a pattern returns and has written nothing.
Mute(w) ==
  /\ Executing(w)
  /\ replied' = replied \cup {w} /\ mute' = mute \cup {task[w].from}
  /\ UNCHANGED <<conn, sent, inbox, gone, got, kernel, main, queue, task, hung, reread>>

\* KEYS with a pattern locks store_mutex twice and never returns, and neither does
\* what asks for the mutex later.
Hang(w) ==
  /\ Executing(w)
  /\ hung' = hung \cup {w}
  /\ UNCHANGED <<clients, kernel, main, queue, task, replied, reread>>

\* The reply goes to a client that has gone and has refused a reply before: the write
\* raises SIGPIPE, which nothing handles, and the process ends.
Killed(w) ==
  /\ Executing(w)
  /\ LET c == table[task[w].fd] IN c # NULL /\ gone[c] /\ got[c] # {}
  /\ pc' = "over"
  /\ UNCHANGED <<clients, kernel, batch, fd, pool, reread>>

\* Mistake: the worker forgets to close.
CloseTask_Leaks(w) ==
  /\ Running /\ w \in replied
  /\ task' = [task EXCEPT ![w] = NULL] /\ replied' = replied \ {w}
  /\ UNCHANGED <<clients, kernel, main, queue, hung, reread>>

\* close(task->client_fd); free(task).
CloseTask(w) ==
  /\ Running /\ w \in replied
  /\ Close(task[w].fd)
  /\ task' = [task EXCEPT ![w] = NULL]
  /\ replied' = replied \ {w}
  /\ UNCHANGED <<sent, inbox, gone, got, mute, backlog, main, queue, hung, reread>>

-----------------------------------------------------------------------------
Main ==
  \/ EpollWait \/ Accept \/ AcceptFails \/ TakeEvent
  \/ ReadRequest \/ ReadEnd \/ ReadFails \/ ReadAgain \/ BatchDone \/ Cleanup

Work(w) == Pop(w) \/ Reply(w) \/ Mute(w) \/ Hang(w) \/ Killed(w) \/ CloseTask(w)

Next ==
  \/ \E c \in Client : Connect(c) \/ Send(c) \/ Leave(c)
  \/ Main
  \/ \E w \in Worker : Work(w)

SafeSpec == Init /\ [][Next]_vars

\* Main and the workers run; the clients need not.
Spec == SafeSpec /\ WF_vars(Main) /\ \A w \in Worker : WF_vars(Work(w))

-----------------------------------------------------------------------------
(* Properties *)

TypeOK ==
  /\ conn \in [Client -> {"new", "backlog", "open", "closed"}]
  /\ sent \in [Client -> 0..MaxParts] /\ inbox \in [Client -> 0..MaxParts]
  /\ gone \in [Client -> BOOLEAN] /\ got \in [Client -> SUBSET Client]
  /\ mute \subseteq Client
  /\ backlog \in Seq(Client) /\ table \in [FD -> Client \cup {NULL}]
  /\ watch \subseteq FD /\ ready \subseteq watch
  /\ pc \in {"wait", "batch", "read", "hung", "over"} /\ batch \subseteq FD \cup {ServerFD}
  /\ fd \in FD \cup {NULL}
  /\ queue \in Seq(Task) /\ task \in [Worker -> Task \cup {NULL}]
  /\ replied \subseteq Worker /\ hung \subseteq Worker
  /\ reread \in BOOLEAN

\* The descriptor of a request that is queued or executed is open and refers to the
\* connection the request came from.
TaskOwnsFd == \A t \in Tasks : table[t.fd] = t.from

\* A reply reaches the client whose request it answers and nobody else ("Don't close
\* fd here - worker will handle it").
RepliesGoHome == \A c \in Client : got[c] \subseteq {c}

\* What the hand-over of a descriptor from main to a worker rests on: as long as main
\* has read nothing more, and no end of file, from a connection it had handed over,
\* the descriptor of a task is its connection, replies go home, and no write is
\* answered with SIGPIPE.
HandOverHolds == reread \/ (TaskOwnsFd /\ RepliesGoHome /\ Running)

\* Edge-triggered: a watched connection with something to read has an event that
\* main has yet to handle, or is being read.
NoEventMissed ==
  \A d \in watch :
    inbox[table[d]] > 0 \/ gone[table[d]] => d \in ready \cup batch \cup {fd}

\* An open connection is watched, or has a task; otherwise nobody would ever close
\* it and its descriptor would be lost to the process.
NoFdLeaks ==
  \A d \in FD : table[d] # NULL => d \in watch \/ HandedOver(d)

\* A connection on which something was sent, or whose client has left, is closed by
\* the server, unless KEYS has made a worker hang or SIGPIPE has ended the process.
ConnectionsEnd ==
  \A c \in Client :
    (conn[c] = "open" /\ (sent[c] > 0 \/ gone[c]))
      ~> (conn[c] = "closed" \/ hung # {} \/ pc = "over")

\* Where neither a worker hangs nor main reads on from a connection it handed over,
\* every request on a connection main has accepted is answered before the connection
\* is closed, but for KEYS without a pattern.
RequestsAnswered ==
  \/ <>(reread \/ hung # {})
  \/ \A c \in Client :
       (conn[c] = "open" /\ sent[c] > 0)
         ~> (conn[c] = "closed" /\ (c \in got[c] \/ c \in mute))
=============================================================================
