----------------------- MODULE ThreadPoolServer_proofs -----------------------
(***************************************************************************)
(* Proofs about the connections of ch16-threadpool.c, for any number of    *)
(* clients, workers and descriptors and whatever the clients do: no event  *)
(* is missed, no descriptor is lost, and what the hand-over of descriptors *)
(* from main to the workers rests on.                                      *)
(***************************************************************************)
EXTENDS ThreadPoolServer, CommonLemmas

\* Nothing is read that was not sent.
ConnInv == \A c \in Client : inbox[c] <= sent[c]

\* What main has in its hands; it is told of the listening socket only while a
\* connection waits to be accepted.
MainInv ==
  /\ pc \in {"wait", "hung"} => batch = {}
  /\ (pc = "read" => fd # NULL) /\ (fd # NULL => pc \in {"read", "over"})
  /\ ServerFD \in batch => backlog # <<>>

\* A watched descriptor is open.
WatchInv == \A d \in watch : table[d] # NULL

\* A worker that has replied still has the task.
WorkInv == \A w \in replied : task[w] # NULL

IInv ==
  /\ TypeOK /\ ConnInv /\ MainInv /\ WatchInv /\ WorkInv /\ NoEventMissed /\ NoFdLeaks

-----------------------------------------------------------------------------
(* The tasks *)

\* The tasks are those in the queue and those in the hands of the workers.
LEMMA TasksProperties ==
  ASSUME TypeOK
  PROVE  /\ Tasks \subseteq Task /\ NULL \notin Task
         /\ \A t : t \in Tasks <=> \/ \E i \in DOMAIN queue : t = queue[i]
                                   \/ \E w \in Worker : t = task[w] /\ t # NULL
<1>1. queue \in Seq(Task) /\ task \in [Worker -> Task \cup {NULL}] /\ NULL \notin Task
  BY ServerAssumption DEF TypeOK
<1>2. DOMAIN queue = 1..Len(queue)
  BY <1>1, LenProperties
<1>3. \A i \in DOMAIN queue : queue[i] \in Task
  BY <1>1, <1>2, ElementOfSeq
<1>4. QED
  BY <1>1, <1>3 DEF Tasks

\* A read adds a task.
LEMMA TasksAppend ==
  ASSUME TypeOK, NEW t \in Task, queue' = Append(queue, t), task' = task
  PROVE  Tasks' = Tasks \cup {t}
<1>1. queue \in Seq(Task) /\ NULL \notin Task
  BY ServerAssumption DEF TypeOK
<1>2. /\ DOMAIN queue = 1..Len(queue) /\ Len(queue) \in Nat
      /\ DOMAIN queue' = 1..(Len(queue) + 1) /\ queue'[Len(queue) + 1] = t
      /\ \A i \in 1..Len(queue) : queue'[i] = queue[i]
  BY <1>1, LenProperties, AppendProperties
<1>3. {queue'[i] : i \in DOMAIN queue'} = {queue[i] : i \in DOMAIN queue} \cup {t}
  <2>1. DOMAIN queue' = DOMAIN queue \cup {Len(queue) + 1}
    BY <1>2
  <2>2. QED
    BY <1>2, <2>1
<1>4. QED
  BY <1>1, <1>3 DEF Tasks

\* queue_pop moves a task from the queue to a worker that has none.
LEMMA TasksPop ==
  ASSUME TypeOK, NEW w \in Worker, task[w] = NULL, queue # <<>>,
         task' = [task EXCEPT ![w] = Head(queue)], queue' = Tail(queue)
  PROVE  /\ Tasks' = Tasks /\ Head(queue) \in Task
         /\ \A i \in DOMAIN queue' : i + 1 \in DOMAIN queue /\ queue'[i] = queue[i + 1]
<1>1. queue \in Seq(Task) /\ NULL \notin Task /\ task \in [Worker -> Task \cup {NULL}]
  BY ServerAssumption DEF TypeOK
<1>2. /\ DOMAIN queue = 1..Len(queue) /\ Len(queue) \in Nat /\ Len(queue) # 0
  BY <1>1, LenProperties, EmptySeq
<1>3. /\ Head(queue) = queue[1] /\ queue[1] \in Task
      /\ queue' \in Seq(Task) /\ Len(queue') = Len(queue) - 1
      /\ DOMAIN queue' = 1..(Len(queue) - 1)
      /\ \A i \in 1..(Len(queue) - 1) : queue'[i] = queue[i + 1]
  <2>1. queue[1] \in Task
    BY <1>1, <1>2, ElementOfSeq
  <2>2. queue' \in Seq(Task) /\ Len(queue') = Len(queue) - 1
        /\ \A i \in 1..Len(queue') : queue'[i] = queue[i + 1]
    BY <1>1, HeadTailProperties
  <2>3. DOMAIN queue' = 1..Len(queue')
    BY <2>2, LenProperties
  <2>4. Head(queue) = queue[1]
    BY <1>1
  <2>5. QED
    BY <2>1, <2>2, <2>3, <2>4
<1>4. {queue[i] : i \in DOMAIN queue} = {queue'[i] : i \in DOMAIN queue'} \cup {queue[1]}
  <2>1. ASSUME NEW i \in DOMAIN queue, i # 1
        PROVE  \E j \in DOMAIN queue' : queue'[j] = queue[i]
    <3>1. i - 1 \in 1..(Len(queue) - 1) /\ i - 1 + 1 = i
      BY <1>2, <2>1
    <3>2. QED
      BY <1>3, <3>1
  <2>2. ASSUME NEW j \in DOMAIN queue' PROVE queue'[j] \in {queue[i] : i \in DOMAIN queue}
    <3>1. j + 1 \in DOMAIN queue
      BY <1>2, <1>3
    <3>2. QED
      BY <1>3, <3>1
  <2>3. 1 \in DOMAIN queue
    BY <1>2
  <2>4. QED
    BY <2>1, <2>2, <2>3
<1>5. {task'[v] : v \in Worker} \ {NULL} = ({task[v] : v \in Worker} \ {NULL}) \cup {queue[1]}
  BY <1>1, <1>3
<1>6. \A i \in 1..(Len(queue) - 1) : i + 1 \in DOMAIN queue
  BY <1>2
<1>7. QED
  BY <1>1, <1>3, <1>4, <1>5, <1>6 DEF Tasks

\* A worker that drops its task takes it, and no other, from the tasks.
LEMMA TasksDrop ==
  ASSUME TypeOK, NEW w \in Worker, task' = [task EXCEPT ![w] = NULL], queue' = queue
  PROVE  Tasks' \subseteq Tasks /\ Tasks \subseteq Tasks' \cup {task[w]}
<1>1. task \in [Worker -> Task \cup {NULL}]
  BY DEF TypeOK
<1>2. QED
  BY <1>1 DEF Tasks

-----------------------------------------------------------------------------
(* The steps preserve the invariant *)

\* close(d) in the terms of the invariant.
LEMMA CloseEffect ==
  ASSUME TypeOK, WatchInv, NEW d \in FD, Close(d)
  PROVE  /\ conn' \in [Client -> {"new", "backlog", "open", "closed"}]
         /\ table' \in [FD -> Client \cup {NULL}]
         /\ \A e \in FD : table'[e] = IF e = d THEN NULL ELSE table[e]
         /\ watch' = watch \ {d} /\ ready' = ready \ {d}
         /\ watch' \subseteq FD /\ ready' \subseteq watch'
         /\ WatchInv'
<1>1. /\ conn' \in [Client -> {"new", "backlog", "open", "closed"}]
      /\ table' = [table EXCEPT ![d] = NULL]
      /\ watch' = watch \ {d} /\ ready' = ready \ {d}
  BY DEF Close, TypeOK
<1>2. QED
  BY <1>1 DEF TypeOK, WatchInv

\* A client's step tells epoll of what it does to its connection.
LEMMA ClientStep ==
  ASSUME IInv, NEW c \in Client, Connect(c) \/ Send(c) \/ Leave(c)
  PROVE  IInv'
<1> USE DEF clients, kernel, main, pool
<1>1. UNCHANGED <<got, mute, table, watch, main, pool, reread>> /\ Tasks' = Tasks
  BY DEF Connect, Send, Leave, Tasks
<1>2. TypeOK' /\ ConnInv'
  <2>1. CASE Connect(c)
    <3>1. backlog' \in Seq(Client)
      BY <2>1, AppendProperties DEF Connect, IInv, TypeOK
    <3>2. QED
      BY <1>1, <2>1, <3>1 DEF Connect, IInv, TypeOK, ConnInv
  <2>2. CASE Send(c)
    <3>1. /\ sent[c] < MaxParts /\ sent' = [sent EXCEPT ![c] = @ + 1]
          /\ inbox' = [inbox EXCEPT ![c] = @ + 1] /\ ready' \subseteq watch
          /\ UNCHANGED <<conn, gone, backlog>>
      BY <2>2 DEF Send, Edge, IInv, TypeOK
    <3>2. /\ sent' \in [Client -> 0..MaxParts] /\ inbox' \in [Client -> 0..MaxParts]
          /\ ConnInv'
      BY <3>1, ServerAssumption DEF IInv, TypeOK, ConnInv
    <3>3. QED
      BY <1>1, <3>1, <3>2 DEF IInv, TypeOK
  <2>3. CASE Leave(c)
    <3>1. ready' \subseteq watch /\ gone' = [gone EXCEPT ![c] = TRUE]
          /\ UNCHANGED <<conn, sent, inbox, backlog>>
      BY <2>3 DEF Leave, Edge, IInv, TypeOK
    <3>2. gone' \in [Client -> BOOLEAN]
      BY <3>1 DEF IInv, TypeOK
    <3>3. QED
      BY <1>1, <3>1, <3>2 DEF IInv, TypeOK, ConnInv
  <2>4. QED
    BY <2>1, <2>2, <2>3
<1>3. MainInv' /\ WatchInv' /\ WorkInv'
  <2>1. backlog # <<>> => backlog' # <<>>
    <3>1. CASE Connect(c)
      BY <3>1, AppendProperties, EmptySeq DEF Connect, IInv, TypeOK
    <3>2. CASE Send(c) \/ Leave(c)
      BY <3>2 DEF Send, Leave
    <3>3. QED
      BY <3>1, <3>2
  <2>2. QED
    BY <1>1, <2>1 DEF IInv, MainInv, WatchInv, WorkInv
<1>4. NoEventMissed'
  <2>1. ASSUME NEW d \in watch
        PROVE  \/ d \in ready'
               \/ inbox'[table[d]] = inbox[table[d]] /\ gone'[table[d]] = gone[table[d]]
    <3>1. table[d] \in Client
      BY DEF IInv, TypeOK, WatchInv
    <3>2. CASE Connect(c)
      BY <3>2 DEF Connect
    <3>3. CASE Send(c)
      BY <3>1, <3>3 DEF Send, Edge, IInv, TypeOK
    <3>4. CASE Leave(c)
      BY <3>1, <3>4 DEF Leave, Edge, IInv, TypeOK
    <3>5. QED
      BY <3>2, <3>3, <3>4
  <2>2. ready \subseteq ready'
    BY DEF Connect, Send, Leave, Edge
  <2>3. QED
    BY <1>1, <2>1, <2>2 DEF IInv, NoEventMissed
<1>5. NoFdLeaks'
  BY <1>1 DEF IInv, NoFdLeaks, HandedOver
<1>6. QED
  BY <1>2, <1>3, <1>4, <1>5 DEF IInv

\* epoll_wait moves the events to main.
LEMMA EpollWaitStep ==
  ASSUME IInv, EpollWait
  PROVE  IInv'
<1> USE DEF clients, kernel, main, pool
<1>1. /\ pc = "wait" /\ batch = {} /\ fd = NULL
      /\ batch' = ready \cup (IF backlog # <<>> THEN {ServerFD} ELSE {})
      /\ ready' = {} /\ pc' = "batch"
      /\ UNCHANGED <<clients, backlog, table, watch, fd, pool, reread>>
  BY DEF EpollWait, IInv, MainInv
<1>2. Tasks' = Tasks
  BY <1>1 DEF Tasks
<1>3. batch' \subseteq FD \cup {ServerFD} /\ ready \subseteq batch'
  BY <1>1 DEF IInv, TypeOK
<1>4. TypeOK' /\ ConnInv' /\ WatchInv' /\ WorkInv' /\ NoFdLeaks'
  BY <1>1, <1>2, <1>3 DEF IInv, TypeOK, ConnInv, WatchInv, WorkInv, NoFdLeaks, HandedOver
<1>5. MainInv'
  <2>1. ServerFD \notin ready
    BY ServerAssumption DEF IInv, TypeOK
  <2>2. ServerFD \in batch' => backlog # <<>>
    BY <1>1, <2>1
  <2>3. QED
    BY <1>1, <2>2 DEF MainInv
<1>6. NoEventMissed'
  BY <1>1, <1>3 DEF IInv, NoEventMissed
<1>7. QED
  BY <1>4, <1>5, <1>6 DEF IInv

\* accept puts a connection on a descriptor that was free, and EPOLL_CTL_ADD reports
\* what the client has done meanwhile.
LEMMA AcceptStep ==
  ASSUME IInv, Accept
  PROVE  IInv'
<1> USE DEF clients, kernel, main, pool
<1> DEFINE c == Head(backlog)
           d == Min({e \in FD : table[e] = NULL})
<1>1. d \in FD /\ table[d] = NULL
  <2>1. {e \in FD : table[e] = NULL} \in SUBSET Nat /\ {e \in FD : table[e] = NULL} # {}
    BY ServerAssumption DEF Accept
  <2>2. d \in {e \in FD : table[e] = NULL}
    BY <2>1, MinProperties
  <2>3. QED
    BY <2>2
<1>2. c \in Client /\ Tail(backlog) \in Seq(Client)
  <2>1. backlog \in Seq(Client) /\ backlog # <<>>
    BY DEF Accept, IInv, TypeOK, MainInv
  <2>2. QED
    BY <2>1, HeadTailProperties
<1>3. /\ pc = "batch" /\ ServerFD \in batch /\ batch' = batch \ {ServerFD}
      /\ backlog' = Tail(backlog) /\ conn' = [conn EXCEPT ![c] = "open"]
      /\ table' = [table EXCEPT ![d] = c] /\ watch' = watch \cup {d}
      /\ ready' = IF inbox[c] > 0 \/ gone[c] THEN ready \cup {d} ELSE ready
      /\ UNCHANGED <<sent, inbox, gone, got, mute, pc, fd, pool, reread>>
  BY DEF Accept
<1> HIDE DEF c, d
<1>4. Tasks' = Tasks
  BY <1>3 DEF Tasks
<1>5. TypeOK' /\ ConnInv' /\ WorkInv'
  BY <1>1, <1>2, <1>3 DEF IInv, TypeOK, ConnInv, WorkInv
<1>6. table \in [FD -> Client \cup {NULL}] /\ watch \subseteq FD /\ c # NULL
  BY <1>2, ServerAssumption DEF IInv, TypeOK
<1>7. MainInv' /\ WatchInv' /\ NoFdLeaks'
  BY <1>1, <1>3, <1>4, <1>6 DEF IInv, MainInv, WatchInv, NoFdLeaks, HandedOver
<1>8. NoEventMissed'
  <2>1. ASSUME NEW e \in watch', inbox'[table'[e]] > 0 \/ gone'[table'[e]]
        PROVE  e \in ready' \cup batch' \cup {fd'}
    <3>1. CASE e = d
      BY <1>1, <1>3, <1>6, <2>1, <3>1
    <3>2. CASE e # d
      <4>1. e \in watch /\ table'[e] = table[e] /\ e # ServerFD
        BY <1>3, <1>6, <3>2, <2>1, ServerAssumption
      <4>2. e \in ready \cup batch \cup {fd}
        BY <1>3, <2>1, <4>1 DEF IInv, NoEventMissed
      <4>3. QED
        BY <1>3, <4>1, <4>2
    <3>3. QED
      BY <3>1, <3>2
  <2>2. QED
    BY <2>1 DEF NoEventMissed
<1>9. QED
  BY <1>5, <1>7, <1>8 DEF IInv

\* The listening socket is no client's.
LEMMA AcceptFailsStep ==
  ASSUME IInv, AcceptFails
  PROVE  IInv'
<1> USE DEF clients, kernel, main, pool
<1>1. /\ batch' = batch \ {ServerFD} /\ pc = "batch"
      /\ UNCHANGED <<clients, kernel, pc, fd, pool, reread>> /\ Tasks' = Tasks
  BY DEF AcceptFails, Tasks
<1>2. TypeOK' /\ ConnInv' /\ WatchInv' /\ WorkInv' /\ NoFdLeaks' /\ MainInv'
  BY <1>1 DEF IInv, TypeOK, ConnInv, WatchInv, WorkInv, NoFdLeaks, HandedOver, MainInv
<1>3. \A d \in watch : d # ServerFD
  BY ServerAssumption DEF IInv, TypeOK
<1>4. NoEventMissed'
  BY <1>1, <1>3 DEF IInv, NoEventMissed
<1>5. QED
  BY <1>2, <1>4 DEF IInv

\* The event main handles next.
LEMMA TakeEventStep ==
  ASSUME IInv, TakeEvent
  PROVE  IInv'
<1> USE DEF clients, kernel, main, pool
<1>1. PICK d \in batch \ {ServerFD} : fd' = d /\ batch' = batch \ {d}
  BY DEF TakeEvent
<1>2. /\ pc = "batch" /\ pc' = "read" /\ fd = NULL /\ d \in FD /\ d # NULL
      /\ UNCHANGED <<clients, kernel, pool, reread>> /\ Tasks' = Tasks
  BY <1>1, ServerAssumption DEF TakeEvent, Tasks, IInv, MainInv, TypeOK
<1>3. TypeOK' /\ ConnInv' /\ WatchInv' /\ WorkInv' /\ NoFdLeaks' /\ MainInv'
  BY <1>1, <1>2 DEF IInv, TypeOK, ConnInv, WatchInv, WorkInv, NoFdLeaks, HandedOver, MainInv
<1>4. NoEventMissed'
  <2>1. NULL \notin watch
    BY ServerAssumption DEF IInv, TypeOK
  <2>2. QED
    BY <1>1, <1>2, <2>1 DEF IInv, NoEventMissed
<1>5. QED
  BY <1>3, <1>4 DEF IInv

\* A read hands the descriptor over to a task.
LEMMA ReadRequestStep ==
  ASSUME IInv, ReadRequest
  PROVE  IInv'
<1> USE DEF clients, kernel, main, pool
<1> DEFINE c == table[fd]
           t == [fd |-> fd, from |-> c]
<1>1. pc = "read" /\ fd \in FD /\ c \in Client /\ t \in Task
  BY DEF ReadRequest, IInv, MainInv, TypeOK, Task
<1>2. PICK n \in 1..inbox[c] : inbox' = [inbox EXCEPT ![c] = @ - n]
  BY DEF ReadRequest
<1>3. /\ queue' = Append(queue, t) /\ watch' = watch \ {fd} /\ ready' = ready \ {fd}
      /\ reread' \in BOOLEAN
      /\ UNCHANGED <<conn, sent, gone, got, mute, backlog, table, main, task, replied, hung>>
  BY DEF ReadRequest, IInv, TypeOK
<1>4. t.fd = fd
  OBVIOUS
<1> HIDE DEF t, c
<1>5. inbox[c] \in 0..MaxParts /\ sent \in [Client -> 0..MaxParts]
      /\ inbox \in [Client -> 0..MaxParts] /\ MaxParts \in Nat
  BY <1>1, ServerAssumption DEF IInv, TypeOK
<1>6. inbox' \in [Client -> 0..MaxParts] /\ \A b \in Client : inbox'[b] <= inbox[b]
  BY <1>1, <1>2, <1>5
<1>7. queue' \in Seq(Task) /\ Tasks' = Tasks \cup {t}
  BY <1>1, <1>3, TasksAppend, AppendProperties DEF IInv, TypeOK
<1>8. TypeOK'
  BY <1>3, <1>6, <1>7 DEF IInv, TypeOK
<1>9. ConnInv'
  BY <1>3, <1>5, <1>6 DEF IInv, ConnInv
<1>10. MainInv' /\ WatchInv' /\ WorkInv'
  BY <1>3 DEF IInv, MainInv, WatchInv, WorkInv
<1>11. NoFdLeaks'
  BY <1>3, <1>4, <1>7 DEF IInv, NoFdLeaks, HandedOver
<1>12. NoEventMissed'
  <2>1. ASSUME NEW e \in watch', inbox'[table'[e]] > 0 \/ gone'[table'[e]]
        PROVE  e \in ready' \cup batch' \cup {fd'}
    <3>1. e \in watch /\ e # fd /\ table'[e] = table[e] /\ table[e] \in Client
      BY <1>3, <2>1 DEF IInv, WatchInv, TypeOK
    <3>2. inbox[table[e]] > 0 \/ gone[table[e]]
      BY <1>3, <1>5, <1>6, <2>1, <3>1
    <3>3. QED
      BY <1>3, <3>1, <3>2 DEF IInv, NoEventMissed
  <2>2. QED
    BY <2>1 DEF NoEventMissed
<1>13. QED
  BY <1>8, <1>9, <1>10, <1>11, <1>12 DEF IInv

\* read returned 0, or failed on a number that a worker has closed: main closes it.
LEMMA ReadClosesStep ==
  ASSUME IInv, ReadEnd \/ ReadFails
  PROVE  IInv'
<1> USE DEF clients, kernel, main, pool
<1>1. /\ pc = "read" /\ fd \in FD /\ Close(fd) /\ pc' = "batch" /\ fd' = NULL
      /\ UNCHANGED <<sent, inbox, gone, got, mute, backlog, batch, pool>> /\ Tasks' = Tasks
      /\ reread' \in BOOLEAN
  BY DEF ReadEnd, ReadFails, IInv, MainInv, TypeOK, Tasks
<1>2. /\ conn' \in [Client -> {"new", "backlog", "open", "closed"}]
      /\ table' \in [FD -> Client \cup {NULL}]
      /\ \A e \in FD : table'[e] = IF e = fd THEN NULL ELSE table[e]
      /\ watch' = watch \ {fd} /\ ready' = ready \ {fd}
      /\ watch' \subseteq FD /\ ready' \subseteq watch'
      /\ WatchInv'
  BY <1>1, CloseEffect DEF IInv
<1>3. TypeOK' /\ ConnInv' /\ WorkInv' /\ MainInv' /\ NoFdLeaks'
  BY <1>1, <1>2 DEF IInv, TypeOK, ConnInv, WorkInv, MainInv, NoFdLeaks, HandedOver
<1>4. NoEventMissed'
  <2>1. \A e \in watch' : e \in watch /\ e # fd /\ table'[e] = table[e]
    BY <1>2 DEF IInv, TypeOK
  <2>2. QED
    BY <1>1, <1>2, <2>1 DEF IInv, NoEventMissed
<1>5. QED
  BY <1>2, <1>3, <1>4 DEF IInv

\* The descriptor has been read to the end: the event is handled.
LEMMA ReadAgainStep ==
  ASSUME IInv, ReadAgain
  PROVE  IInv'
<1> USE DEF clients, kernel, main, pool
<1>1. /\ pc = "read" /\ inbox[table[fd]] = 0 /\ ~gone[table[fd]] /\ pc' = "batch" /\ fd' = NULL
      /\ UNCHANGED <<clients, kernel, batch, pool, reread>> /\ Tasks' = Tasks
  BY DEF ReadAgain, Tasks
<1>2. TypeOK' /\ ConnInv' /\ WatchInv' /\ WorkInv' /\ NoFdLeaks' /\ MainInv'
  BY <1>1 DEF IInv, TypeOK, ConnInv, WatchInv, WorkInv, NoFdLeaks, HandedOver, MainInv
<1>3. NoEventMissed'
  BY <1>1 DEF IInv, NoEventMissed
<1>4. QED
  BY <1>2, <1>3 DEF IInv

\* The round is over, or main waits for the store.
LEMMA TopOfLoopStep ==
  ASSUME IInv, BatchDone \/ Cleanup
  PROVE  IInv'
<1> USE DEF clients, kernel, main, pool
<1>1. /\ batch = {} /\ pc \in {"batch", "wait"} /\ pc' \in {"wait", "hung"}
      /\ UNCHANGED <<clients, kernel, batch, fd, pool, reread>> /\ Tasks' = Tasks
  BY DEF BatchDone, Cleanup, IInv, MainInv, Tasks
<1>2. QED
  BY <1>1 DEF IInv, TypeOK, ConnInv, WatchInv, WorkInv, NoFdLeaks, HandedOver, MainInv,
              NoEventMissed

\* A worker takes a task, answers it and closes its descriptor.
LEMMA WorkStep ==
  ASSUME IInv, NEW w \in Worker, Work(w)
  PROVE  IInv'
<1> USE DEF clients, kernel, main, pool
<1>1. CASE Pop(w)
  <2>1. /\ task[w] = NULL /\ queue # <<>> /\ task' = [task EXCEPT ![w] = Head(queue)]
        /\ queue' = Tail(queue) /\ UNCHANGED <<clients, kernel, main, replied, hung, reread>>
    BY <1>1 DEF Pop
  <2>2. Tasks' = Tasks /\ Head(queue) \in Task
    BY <2>1, TasksPop DEF IInv
  <2>3. queue' \in Seq(Task)
    BY <2>1, HeadTailProperties DEF IInv, TypeOK
  <2>4. TypeOK' /\ ConnInv' /\ WatchInv' /\ NoFdLeaks' /\ MainInv' /\ NoEventMissed'
    BY <2>1, <2>2, <2>3 DEF IInv, TypeOK, ConnInv, WatchInv, NoFdLeaks, HandedOver, MainInv, NoEventMissed
  <2>5. WorkInv'
    BY <2>1 DEF IInv, TypeOK, WorkInv
  <2>6. QED
    BY <2>4, <2>5 DEF IInv
<1>2. CASE Reply(w) \/ Mute(w) \/ Hang(w) \/ Killed(w)
  <2>1. /\ task[w] # NULL
        /\ UNCHANGED <<conn, sent, inbox, gone, kernel, batch, fd, queue, task, reread>>
        /\ Tasks' = Tasks
    BY <1>2 DEF Reply, Mute, Hang, Killed, Executing, Tasks
  <2>2. task[w].from \in Client
    BY <2>1 DEF IInv, TypeOK, Task
  <2>3. got' \in [Client -> SUBSET Client] /\ mute' \subseteq Client
    <3>1. CASE Reply(w)
      BY <2>2, <3>1 DEF Reply, IInv, TypeOK
    <3>2. CASE Mute(w) \/ Hang(w) \/ Killed(w)
      BY <2>2, <3>2 DEF Mute, Hang, Killed, IInv, TypeOK
    <3>3. QED
      BY <1>2, <3>1, <3>2
  <2>4. /\ replied' \in {replied, replied \cup {w}} /\ hung' \subseteq Worker
        /\ pc' \in {pc, "over"}
    BY <1>2 DEF Reply, Mute, Hang, Killed, IInv, TypeOK
  <2>5. TypeOK' /\ ConnInv' /\ WorkInv'
    BY <2>1, <2>3, <2>4 DEF IInv, TypeOK, ConnInv, WorkInv
  <2>6. WatchInv' /\ NoFdLeaks' /\ MainInv' /\ NoEventMissed'
    BY <2>1, <2>4 DEF IInv, WatchInv, NoFdLeaks, HandedOver, MainInv, NoEventMissed
  <2>7. QED
    BY <2>5, <2>6 DEF IInv
<1>3. CASE CloseTask(w)
  <2> DEFINE d == task[w].fd
  <2>1. /\ w \in replied /\ Close(d) /\ task' = [task EXCEPT ![w] = NULL]
        /\ replied' = replied \ {w}
        /\ UNCHANGED <<sent, inbox, gone, got, mute, backlog, main, queue, hung, reread>>
    BY <1>3 DEF CloseTask
  <2>2. task[w] \in Task /\ d \in FD
    BY <2>1 DEF IInv, WorkInv, TypeOK, Task
  <2>3. Tasks \subseteq Tasks' \cup {task[w]}
    BY <2>1, TasksDrop DEF IInv
  <2> HIDE DEF d
  <2>4. /\ conn' \in [Client -> {"new", "backlog", "open", "closed"}]
        /\ table' \in [FD -> Client \cup {NULL}]
        /\ \A e \in FD : table'[e] = IF e = d THEN NULL ELSE table[e]
        /\ watch' = watch \ {d} /\ ready' = ready \ {d}
        /\ watch' \subseteq FD /\ ready' \subseteq watch'
        /\ WatchInv'
    BY <2>1, <2>2, CloseEffect DEF IInv
  <2>5. TypeOK' /\ ConnInv' /\ MainInv' /\ WorkInv'
    BY <2>1, <2>4 DEF IInv, TypeOK, ConnInv, MainInv, WorkInv
  <2>6. NoEventMissed'
    <3>1. \A e \in watch' : e \in watch /\ e # d /\ table'[e] = table[e]
      BY <2>4 DEF IInv, TypeOK
    <3>2. QED
      BY <2>1, <2>4, <3>1 DEF IInv, NoEventMissed
  <2>7. NoFdLeaks'
    <3>1. ASSUME NEW e \in FD, table'[e] # NULL
          PROVE  e \in watch' \/ \E t \in Tasks' : t.fd = e
      <4>1. e # d /\ table[e] # NULL
        BY <2>4, <3>1
      <4>2. CASE e \in watch
        BY <2>4, <4>1, <4>2
      <4>3. CASE \E t \in Tasks : t.fd = e
        BY <2>3, <4>1, <4>3 DEF d
      <4>4. QED
        BY <4>1, <4>2, <4>3 DEF IInv, NoFdLeaks, HandedOver
    <3>2. QED
      BY <3>1 DEF NoFdLeaks, HandedOver
  <2>8. QED
    BY <2>4, <2>5, <2>6, <2>7 DEF IInv
<1>4. QED
  BY <1>1, <1>2, <1>3 DEF Work

-----------------------------------------------------------------------------
(* The theorems about every client *)

\* Nothing is open, watched or queued when the server starts.
LEMMA InitIInv == Init => IInv
<1> SUFFICES ASSUME Init PROVE IInv
  OBVIOUS
<1>1. NULL \notin Client /\ NULL \notin FD /\ MaxParts \in Nat
  BY ServerAssumption
<1>2. <<>> \in Seq(Client) /\ <<>> \in Seq(Task)
  BY EmptySeq
<1>3. TypeOK
  <2>1. /\ conn \in [Client -> {"new", "backlog", "open", "closed"}]
        /\ gone \in [Client -> BOOLEAN] /\ got \in [Client -> SUBSET Client]
        /\ table \in [FD -> Client \cup {NULL}] /\ task \in [Worker -> Task \cup {NULL}]
    BY DEF Init
  <2>2. sent \in [Client -> 0..MaxParts] /\ inbox \in [Client -> 0..MaxParts]
    BY <1>1 DEF Init
  <2>3. QED
    BY <1>2, <2>1, <2>2 DEF Init, TypeOK
<1>4. QED
  BY <1>1, <1>3 DEF Init, IInv, ConnInv, MainInv, WatchInv, WorkInv, NoEventMissed, NoFdLeaks

\* Every step preserves the invariant.
LEMMA NextIInv == IInv /\ [Next]_vars => IInv'
<1> SUFFICES ASSUME IInv, [Next]_vars PROVE IInv'
  OBVIOUS
<1>1. ASSUME NEW c \in Client, Connect(c) \/ Send(c) \/ Leave(c) PROVE IInv'
  BY <1>1, ClientStep
<1>2. CASE Main
  BY <1>2, EpollWaitStep, AcceptStep, AcceptFailsStep, TakeEventStep, ReadRequestStep,
     ReadClosesStep, ReadAgainStep, TopOfLoopStep DEF Main
<1>3. ASSUME NEW w \in Worker, Work(w) PROVE IInv'
  BY <1>3, WorkStep
<1>4. CASE UNCHANGED vars
  <2>1. Tasks' = Tasks
    BY <1>4 DEF vars, pool, Tasks
  <2>2. QED
    BY <1>4, <2>1 DEF vars, clients, kernel, main, pool, IInv, TypeOK, ConnInv, MainInv,
                      WatchInv, WorkInv, NoEventMissed, NoFdLeaks, HandedOver
<1>5. QED
  BY <1>1, <1>2, <1>3, <1>4 DEF Next

\* The invariant of the connections, whatever the clients do.
LEMMA Invariant == SafeSpec => []IInv
<1>1. QED
  BY InitIInv, NextIInv, PTL DEF SafeSpec

\* Every variable of the connections has its type: an event is only noted for a
\* descriptor that epoll watches, and main only reads descriptors.
THEOREM TypeCorrect == SafeSpec => []TypeOK
<1>1. IInv => TypeOK
  BY DEF IInv
<1>2. QED
  BY <1>1, Invariant, PTL

\* main, told of an edge only once, reads every connection it watches until nothing
\* is left or the connection ends.
THEOREM EveryEventHandled == SafeSpec => []NoEventMissed
<1>1. IInv => NoEventMissed
  BY DEF IInv
<1>2. QED
  BY <1>1, Invariant, PTL

\* Between main's EPOLL_CTL_DEL and a worker's close there is always a task that
\* names the descriptor.
THEOREM EveryFdFollowed == SafeSpec => []NoFdLeaks
<1>1. IInv => NoFdLeaks
  BY DEF IInv
<1>2. QED
  BY <1>1, Invariant, PTL

-----------------------------------------------------------------------------
(* The hand-over of a descriptor *)

\* A connection has one descriptor, and only an accepted one has; the others wait in
\* the backlog, once each.
TableInv ==
  /\ \A d, e \in FD : table[d] # NULL /\ table[d] = table[e] => d = e
  /\ \A d \in FD : table[d] # NULL => conn[table[d]] = "open"
  /\ \A i, j \in DOMAIN backlog : backlog[i] = backlog[j] => i = j
  /\ \A i \in DOMAIN backlog : conn[backlog[i]] = "backlog"

\* No two tasks name one descriptor.
OneOwner ==
  /\ \A i, j \in DOMAIN queue : queue[i].fd = queue[j].fd => i = j
  /\ \A v, w \in Worker : task[v] # NULL /\ task[w] # NULL /\ task[v].fd = task[w].fd => v = w
  /\ \A i \in DOMAIN queue, w \in Worker : task[w] # NULL => queue[i].fd # task[w].fd

\* Who has an answer gets no other: the connection is closed, or its worker is about
\* to close it.
OnceAnswered ==
  \A c \in Client :
    got[c] # {} => conn[c] = "closed" \/ \E w \in replied : task[w].from = c

HandOver == Running /\ TaskOwnsFd /\ RepliesGoHome /\ OneOwner /\ OnceAnswered

HInv == TableInv /\ (reread \/ HandOver)

\* close(d) takes a connection out of the table and leaves the others there.
LEMMA CloseTable ==
  ASSUME TypeOK, TableInv, NEW d \in FD, Close(d), backlog' = backlog
  PROVE  /\ TableInv'
         /\ table' = [table EXCEPT ![d] = NULL]
         /\ table[d] \in Client => conn'[table[d]] = "closed"
         /\ \A c \in Client : conn[c] = "closed" => conn'[c] = "closed"
<1>1. /\ table' = [table EXCEPT ![d] = NULL] /\ table \in [FD -> Client \cup {NULL}]
      /\ \A c \in Client : conn'[c] = IF table[d] = c THEN "closed" ELSE conn[c]
      /\ backlog \in Seq(Client) /\ NULL \notin Client
  BY ServerAssumption DEF Close, TypeOK
<1>2. \A e \in FD : table'[e] = IF e = d THEN NULL ELSE table[e]
  BY <1>1
<1>3. \A e \in FD : table'[e] # NULL => conn'[table'[e]] = "open"
  BY <1>1, <1>2 DEF TableInv
<1>4. \A i \in DOMAIN backlog : backlog[i] \in Client
  BY <1>1, LenProperties, ElementOfSeq
<1>5. \A i \in DOMAIN backlog : conn'[backlog[i]] = "backlog"
  BY <1>1, <1>4 DEF TableInv
<1>6. QED
  BY <1>1, <1>2, <1>3, <1>5 DEF TableInv

\* The hand-over stays in order when the tasks and their descriptors do and no
\* connection that is closed is opened again.
LEMMA HandOverStays ==
  ASSUME TypeOK, HandOver, Running', UNCHANGED <<got, queue, task, replied>>,
         \A t \in Tasks : table'[t.fd] = table[t.fd],
         \A c \in Client : conn[c] = "closed" => conn'[c] = "closed"
  PROVE  HandOver'
<1>1. Tasks' = Tasks
  BY DEF Tasks
<1>2. TaskOwnsFd'
  BY <1>1 DEF HandOver, TaskOwnsFd
<1>3. QED
  BY <1>2 DEF HandOver, OneOwner, OnceAnswered, RepliesGoHome

\* A client only enters the backlog.
LEMMA ClientHandOver ==
  ASSUME IInv, HInv, NEW c \in Client, Connect(c) \/ Send(c) \/ Leave(c)
  PROVE  HInv'
<1> USE DEF clients, kernel, main, pool
<1>1. UNCHANGED <<got, table, pc, queue, task, replied, reread>>
  BY DEF Connect, Send, Leave
<1>2. CASE Connect(c)
  <2>1. /\ conn[c] = "new" /\ conn' = [conn EXCEPT ![c] = "backlog"]
        /\ backlog' = Append(backlog, c)
        /\ conn \in [Client -> {"new", "backlog", "open", "closed"}] /\ backlog \in Seq(Client)
        /\ table \in [FD -> Client \cup {NULL}]
    BY <1>2 DEF Connect, IInv, TypeOK
  <2>2. /\ DOMAIN backlog = 1..Len(backlog) /\ Len(backlog) \in Nat
        /\ DOMAIN backlog' = 1..(Len(backlog) + 1) /\ backlog'[Len(backlog) + 1] = c
        /\ \A i \in 1..Len(backlog) : backlog'[i] = backlog[i] /\ backlog[i] \in Client
    BY <2>1, LenProperties, AppendProperties, ElementOfSeq
  <2>3. DOMAIN backlog' = DOMAIN backlog \cup {Len(backlog) + 1}
        /\ Len(backlog) + 1 \notin DOMAIN backlog
    BY <2>2
  <2>4. \A i \in DOMAIN backlog : backlog[i] # c /\ backlog'[i] = backlog[i]
    BY <2>1, <2>2 DEF HInv, TableInv
  <2>5. \A d \in FD : table[d] # c
    <3>1. c # NULL
      BY ServerAssumption
    <3>2. QED
      BY <2>1, <3>1 DEF HInv, TableInv
  <2>6. TableInv'
    <3>1. \A i \in DOMAIN backlog' : conn'[backlog'[i]] = "backlog"
      BY <2>1, <2>2, <2>3, <2>4 DEF HInv, TableInv
    <3>2. \A i, j \in DOMAIN backlog' : backlog'[i] = backlog'[j] => i = j
      BY <2>2, <2>3, <2>4 DEF HInv, TableInv
    <3>3. \A d \in FD : table'[d] # NULL => conn'[table'[d]] = "open"
      BY <1>1, <2>1, <2>5 DEF HInv, TableInv
    <3>4. QED
      BY <1>1, <3>1, <3>2, <3>3 DEF HInv, TableInv
  <2>7. \A b \in Client : conn[b] = "closed" => conn'[b] = "closed"
    BY <2>1
  <2>8. HandOver => HandOver'
    BY <1>1, <2>7, HandOverStays DEF HandOver, Running, IInv
  <2>9. QED
    BY <1>1, <2>6, <2>8 DEF HInv
<1>3. CASE Send(c) \/ Leave(c)
  <2>1. UNCHANGED <<conn, backlog>>
    BY <1>3 DEF Send, Leave
  <2>2. HandOver => HandOver'
    BY <1>1, <2>1, HandOverStays DEF HandOver, Running, IInv
  <2>3. QED
    BY <1>1, <2>1, <2>2 DEF HInv, TableInv
<1>4. QED
  BY <1>2, <1>3

\* main gives out free descriptors, and closes and hands over only descriptors
\* without a task, as long as it reads nothing more from those it has handed over.
LEMMA MainHandOver ==
  ASSUME IInv, HInv, Main
  PROVE  HInv'
<1> USE DEF clients, kernel, main, pool
<1>1. /\ table \in [FD -> Client \cup {NULL}] /\ queue \in Seq(Task)
      /\ task \in [Worker -> Task \cup {NULL}] /\ reread \in BOOLEAN
      /\ conn \in [Client -> {"new", "backlog", "open", "closed"}] /\ backlog \in Seq(Client)
  BY DEF IInv, TypeOK
<1>2. \A t \in Tasks : t.fd \in FD /\ t.from \in Client /\ t.from # NULL
  BY TasksProperties, ServerAssumption DEF IInv, Task
<1>3. CASE EpollWait \/ AcceptFails \/ TakeEvent \/ ReadAgain \/ BatchDone \/ Cleanup
  <2>1. UNCHANGED <<conn, got, backlog, table, queue, task, replied, reread>> /\ Running'
    BY <1>3 DEF EpollWait, AcceptFails, TakeEvent, ReadAgain, BatchDone, Cleanup, Running
  <2>2. HandOver => HandOver'
    BY <2>1, HandOverStays DEF IInv
  <2>3. QED
    BY <2>1, <2>2 DEF HInv, TableInv
<1>4. CASE Accept
  <2> DEFINE d == Min({e \in FD : table[e] = NULL})
             c == Head(backlog)
  <2>1. d \in FD /\ table[d] = NULL
    <3>1. {e \in FD : table[e] = NULL} \in SUBSET Nat /\ {e \in FD : table[e] = NULL} # {}
      BY <1>4, ServerAssumption DEF Accept
    <3>2. d \in {e \in FD : table[e] = NULL}
      BY <3>1, MinProperties
    <3>3. QED
      BY <3>2
  <2>2. /\ table' = [table EXCEPT ![d] = c] /\ conn' = [conn EXCEPT ![c] = "open"]
        /\ backlog' = Tail(backlog) /\ pc' = "batch"
        /\ UNCHANGED <<got, queue, task, replied, reread>>
    BY <1>4 DEF Accept
  <2>3. /\ 1 \in DOMAIN backlog /\ c = backlog[1] /\ c \in Client
        /\ \A i \in DOMAIN backlog' : /\ i + 1 \in DOMAIN backlog /\ i + 1 # 1
                                      /\ backlog'[i] = backlog[i + 1]
                                      /\ backlog'[i] \in Client
        /\ DOMAIN backlog' \subseteq Nat
    <3>1. backlog # <<>>
      BY <1>4 DEF Accept, IInv, MainInv
    <3>2. /\ DOMAIN backlog = 1..Len(backlog) /\ Len(backlog) \in Nat /\ Len(backlog) # 0
      BY <1>1, <3>1, LenProperties, EmptySeq
    <3>3. /\ backlog' \in Seq(Client) /\ Len(backlog') = Len(backlog) - 1
          /\ \A i \in 1..Len(backlog') : backlog'[i] = backlog[i + 1]
      BY <1>1, <2>2, <3>1, HeadTailProperties
    <3>4. DOMAIN backlog' = 1..(Len(backlog) - 1)
      BY <3>3, LenProperties
    <3>5. \A i \in 1..(Len(backlog) - 1) : i + 1 \in DOMAIN backlog /\ i + 1 # 1 /\ i \in Nat
      BY <3>2
    <3>6. \A i \in DOMAIN backlog : backlog[i] \in Client
      BY <1>1, <3>2, ElementOfSeq
    <3>7. c = backlog[1] /\ 1 \in DOMAIN backlog
      BY <1>1, <3>2
    <3>8. QED
      BY <3>3, <3>4, <3>5, <3>6, <3>7
  <2> HIDE DEF c, d
  <2>4. conn[c] = "backlog" /\ \A e \in FD : table[e] # c
    <3>1. conn[c] = "backlog" /\ c # NULL
      BY <2>3, ServerAssumption DEF HInv, TableInv
    <3>2. QED
      BY <3>1 DEF HInv, TableInv
  <2>5. \A i, j \in DOMAIN backlog' : i + 1 = j + 1 => i = j
    BY <2>3
  <2>6. TableInv'
    <3>1. \A e \in FD : table'[e] = IF e = d THEN c ELSE table[e]
      BY <1>1, <2>1, <2>2
    <3>2. \A e \in FD : table'[e] # NULL => conn'[table'[e]] = "open"
      BY <1>1, <2>2, <2>3, <2>4, <3>1 DEF HInv, TableInv
    <3>3. \A e, f \in FD : table'[e] # NULL /\ table'[e] = table'[f] => e = f
      BY <2>4, <3>1 DEF HInv, TableInv
    <3>4. \A i \in DOMAIN backlog' : backlog'[i] # c
      BY <2>3 DEF HInv, TableInv
    <3>5. \A i \in DOMAIN backlog' : conn'[backlog'[i]] = "backlog"
      BY <1>1, <2>2, <2>3, <3>4 DEF HInv, TableInv
    <3>6. \A i, j \in DOMAIN backlog' : backlog'[i] = backlog'[j] => i = j
      BY <2>3, <2>5 DEF HInv, TableInv
    <3>7. QED
      BY <3>2, <3>3, <3>5, <3>6 DEF TableInv
  <2>7. ASSUME HandOver PROVE HandOver'
    <3>1. \A t \in Tasks : table'[t.fd] = table[t.fd]
      BY <1>1, <1>2, <2>1, <2>2, <2>7 DEF HandOver, TaskOwnsFd
    <3>2. \A b \in Client : conn[b] = "closed" => conn'[b] = "closed"
      BY <1>1, <2>2, <2>4
    <3>3. QED
      BY <2>2, <2>7, <3>1, <3>2, HandOverStays DEF IInv, Running
  <2>8. QED
    BY <2>2, <2>6, <2>7 DEF HInv
<1>5. CASE ReadEnd \/ ReadFails
  <2>1. /\ pc = "read" /\ fd \in FD /\ Close(fd) /\ pc' = "batch"
        /\ UNCHANGED <<got, backlog, queue, task, replied>>
    BY <1>5 DEF ReadEnd, ReadFails, IInv, MainInv, TypeOK
  <2>2. /\ TableInv' /\ table' = [table EXCEPT ![fd] = NULL]
        /\ \A c \in Client : conn[c] = "closed" => conn'[c] = "closed"
    BY <2>1, CloseTable DEF IInv, HInv
  <2>3. ASSUME ~reread' PROVE HandOver'
    <3>1. HandOver
      BY <1>1, <1>5, <2>3 DEF ReadEnd, ReadFails, HInv
    <3>2. \A t \in Tasks : t.fd # fd
      <4>1. CASE ReadEnd
        BY <2>3, <4>1 DEF ReadEnd, HandedOver
      <4>2. CASE ReadFails
        BY <1>2, <3>1, <4>2 DEF ReadFails, HandOver, TaskOwnsFd
      <4>3. QED
        BY <1>5, <4>1, <4>2
    <3>3. \A t \in Tasks : table'[t.fd] = table[t.fd]
      BY <1>1, <1>2, <2>2, <3>2
    <3>4. QED
      BY <2>1, <2>2, <3>1, <3>3, HandOverStays DEF IInv, Running
  <2>4. QED
    BY <2>2, <2>3 DEF HInv
<1>6. CASE ReadRequest
  <2> DEFINE c == table[fd]
             t == [fd |-> fd, from |-> c]
  <2>1. pc = "read" /\ fd \in FD /\ c \in Client /\ t \in Task
    BY <1>6 DEF ReadRequest, IInv, MainInv, TypeOK, Task
  <2>2. /\ queue' = Append(queue, t) /\ reread' = (reread \/ HandedOver(fd))
        /\ UNCHANGED <<conn, got, backlog, table, pc, task, replied>>
    BY <1>6 DEF ReadRequest
  <2>3. t.fd = fd /\ t.from = c /\ table[fd] = c
    OBVIOUS
  <2> HIDE DEF t, c
  <2>4. TableInv'
    BY <2>2 DEF HInv, TableInv
  <2>5. ASSUME ~reread' PROVE HandOver'
    <3>1. HandOver /\ \A u \in Tasks : u.fd # fd
      BY <2>2, <2>5 DEF HInv, HandedOver
    <3>2. Tasks' = Tasks \cup {t}
      BY <2>1, <2>2, TasksAppend DEF IInv
    <3>3. TaskOwnsFd'
      BY <2>2, <2>3, <3>1, <3>2 DEF HandOver, TaskOwnsFd
    <3>4. OneOwner'
      <4>1. /\ DOMAIN queue' = DOMAIN queue \cup {Len(queue) + 1}
            /\ Len(queue) + 1 \notin DOMAIN queue
            /\ queue'[Len(queue) + 1] = t /\ \A i \in DOMAIN queue : queue'[i] = queue[i]
        <5>1. /\ DOMAIN queue = 1..Len(queue) /\ Len(queue) \in Nat
              /\ DOMAIN queue' = 1..(Len(queue) + 1) /\ queue'[Len(queue) + 1] = t
              /\ \A i \in 1..Len(queue) : queue'[i] = queue[i]
          BY <1>1, <2>1, <2>2, LenProperties, AppendProperties
        <5>2. QED
          BY <5>1
      <4>2. /\ \A i \in DOMAIN queue : queue[i].fd # fd
            /\ \A w \in Worker : task[w] # NULL => task[w].fd # fd
        BY <3>1, TasksProperties DEF IInv
      <4>3. QED
        BY <2>2, <2>3, <3>1, <4>1, <4>2 DEF HandOver, OneOwner
    <3>5. QED
      BY <2>2, <3>1, <3>3, <3>4 DEF HandOver, Running, RepliesGoHome, OnceAnswered
  <2>6. QED
    BY <2>4, <2>5 DEF HInv
<1>7. QED
  BY <1>3, <1>4, <1>5, <1>6 DEF Main

\* A worker answers the client of its task, once, and closes the task's descriptor.
LEMMA WorkHandOver ==
  ASSUME IInv, HInv, NEW w \in Worker, Work(w)
  PROVE  HInv'
<1> USE DEF clients, kernel, main, pool
<1>1. /\ table \in [FD -> Client \cup {NULL}] /\ queue \in Seq(Task)
      /\ task \in [Worker -> Task \cup {NULL}] /\ got \in [Client -> SUBSET Client]
  BY DEF IInv, TypeOK
<1>2. \A t \in Tasks : t.fd \in FD /\ t.from \in Client /\ t.from # NULL
  BY TasksProperties, ServerAssumption DEF IInv, Task
<1>3. CASE Pop(w)
  <2>1. /\ task[w] = NULL /\ queue # <<>> /\ task' = [task EXCEPT ![w] = Head(queue)]
        /\ queue' = Tail(queue)
        /\ UNCHANGED <<clients, kernel, main, replied, hung, reread>>
    BY <1>3 DEF Pop
  <2>2. /\ Tasks' = Tasks /\ Head(queue) \in Task
        /\ \A i \in DOMAIN queue' : i + 1 \in DOMAIN queue /\ queue'[i] = queue[i + 1]
    BY <2>1, TasksPop DEF IInv
  <2>3. /\ 1 \in DOMAIN queue /\ Head(queue) = queue[1] /\ DOMAIN queue \subseteq Nat
        /\ DOMAIN queue' \subseteq Nat \ {0}
    <3>1. DOMAIN queue = 1..Len(queue) /\ Len(queue) \in Nat /\ Len(queue) # 0
      BY <1>1, <2>1, LenProperties, EmptySeq
    <3>2. queue' \in Seq(Task)
      BY <1>1, <2>1, HeadTailProperties
    <3>3. DOMAIN queue' = 1..Len(queue') /\ Len(queue') \in Nat
      BY <3>2, LenProperties
    <3>4. Head(queue) = queue[1]
      BY <1>1, <2>1
    <3>5. QED
      BY <3>1, <3>3, <3>4
  <2>4. \A v \in Worker : task'[v] = IF v = w THEN queue[1] ELSE task[v]
    BY <1>1, <2>1, <2>3
  <2>5. ASSUME HandOver PROVE HandOver'
    <3>1. OneOwner'
      <4>1. \A i, j \in DOMAIN queue' : queue'[i].fd = queue'[j].fd => i = j
        BY <2>2, <2>3, <2>5 DEF HandOver, OneOwner
      <4>2. \A u, v \in Worker :
              task'[u] # NULL /\ task'[v] # NULL /\ task'[u].fd = task'[v].fd => u = v
        BY <2>3, <2>4, <2>5 DEF HandOver, OneOwner
      <4>3. ASSUME NEW i \in DOMAIN queue', NEW v \in Worker, task'[v] # NULL
            PROVE  queue'[i].fd # task'[v].fd
        <5>1. i + 1 \in DOMAIN queue /\ queue'[i] = queue[i + 1] /\ i + 1 # 1
          BY <2>2, <2>3
        <5>2. QED
          BY <2>3, <2>4, <2>5, <4>3, <5>1 DEF HandOver, OneOwner
      <4>4. QED
        BY <4>1, <4>2, <4>3 DEF OneOwner
    <3>2. OnceAnswered'
      <4>1. \A v \in replied : v \in Worker /\ v # w
        BY <2>1 DEF IInv, WorkInv, TypeOK
      <4>2. QED
        BY <2>1, <2>4, <2>5, <4>1 DEF HandOver, OnceAnswered
    <3>3. QED
      BY <2>1, <2>2, <2>5, <3>1, <3>2 DEF HandOver, Running, TaskOwnsFd, RepliesGoHome
  <2>6. QED
    BY <2>1, <2>5 DEF HInv, TableInv
<1>4. CASE Reply(w) \/ Mute(w) \/ Hang(w)
  <2>1. /\ task[w] # NULL /\ Tasks' = Tasks
        /\ UNCHANGED <<conn, backlog, table, pc, queue, task, reread>>
        /\ replied \subseteq replied'
    BY <1>4 DEF Reply, Mute, Hang, Executing, Tasks
  <2>2. ASSUME HandOver PROVE HandOver'
    <3>1. table[task[w].fd] = task[w].from /\ task[w].from \in Client
      BY <1>2, <2>1, <2>2, TasksProperties DEF IInv, HandOver, TaskOwnsFd
    <3>2. \A c \in Client :
            \/ got'[c] = got[c]
            \/ c = task[w].from /\ w \in replied' /\ got'[c] = got[c] \cup {c}
      <4>1. CASE Reply(w)
        BY <1>1, <3>1, <4>1 DEF Reply
      <4>2. CASE Mute(w) \/ Hang(w)
        BY <4>2 DEF Mute, Hang
      <4>3. QED
        BY <1>4, <4>1, <4>2
    <3>3. RepliesGoHome' /\ OnceAnswered'
      BY <2>1, <2>2, <3>2 DEF HandOver, RepliesGoHome, OnceAnswered
    <3>4. QED
      BY <2>1, <2>2, <3>3 DEF HandOver, Running, TaskOwnsFd, OneOwner
  <2>3. QED
    BY <2>1, <2>2 DEF HInv, TableInv
<1>5. CASE Killed(w)
  <2> DEFINE c == table[task[w].fd]
  <2>1. /\ task[w] # NULL /\ w \notin replied /\ c # NULL /\ got[c] # {}
        /\ UNCHANGED <<conn, backlog, table, reread>>
    BY <1>5 DEF Killed, Executing
  <2>2. reread
    <3> SUFFICES ASSUME HandOver PROVE FALSE
      BY DEF HInv
    <3>1. task[w] \in Tasks /\ task[w].fd \in FD
      BY <1>2, <2>1, TasksProperties DEF IInv
    <3>2. c = task[w].from /\ c \in Client /\ conn[c] = "open"
      BY <1>1, <1>2, <2>1, <3>1 DEF HandOver, TaskOwnsFd, HInv, TableInv
    <3>3. PICK v \in replied : task[v].from = c
      BY <2>1, <3>2 DEF HandOver, OnceAnswered
    <3>4. v \in Worker /\ task[v] # NULL /\ task[v] \in Tasks /\ task[v].fd \in FD
      BY <1>2, TasksProperties DEF IInv, WorkInv, TypeOK
    <3>5. table[task[v].fd] = c
      BY <3>3, <3>4 DEF HandOver, TaskOwnsFd
    <3>6. task[v].fd = task[w].fd
      BY <2>1, <3>1, <3>4, <3>5 DEF HInv, TableInv
    <3>7. v = w
      BY <2>1, <3>4, <3>6 DEF HandOver, OneOwner
    <3>8. QED
      BY <2>1, <3>3, <3>7
  <2>3. QED
    BY <2>1, <2>2 DEF HInv, TableInv
<1>6. CASE CloseTask(w)
  <2>1. /\ w \in replied /\ Close(task[w].fd) /\ replied' = replied \ {w}
        /\ task' = [task EXCEPT ![w] = NULL] /\ task[w] # NULL /\ task[w].fd \in FD
        /\ UNCHANGED <<got, backlog, pc, queue, reread>>
    BY <1>2, <1>6, TasksProperties DEF CloseTask, IInv, WorkInv
  <2>2. /\ TableInv' /\ table' = [table EXCEPT ![task[w].fd] = NULL]
        /\ table[task[w].fd] \in Client => conn'[table[task[w].fd]] = "closed"
        /\ \A c \in Client : conn[c] = "closed" => conn'[c] = "closed"
    BY <2>1, CloseTable DEF IInv, HInv
  <2>3. \A v \in Worker : task'[v] = IF v = w THEN NULL ELSE task[v]
    BY <1>1, <2>1
  <2>4. ASSUME HandOver PROVE HandOver'
    <3>1. ASSUME NEW t \in Tasks'
          PROVE  t \in Tasks /\ t.fd # task[w].fd
      <4>1. t \in Tasks
        BY <2>1, TasksDrop DEF IInv
      <4>2. t # NULL
        BY <4>1, TasksProperties DEF IInv
      <4>3. \/ \E i \in DOMAIN queue : t = queue[i]
            \/ \E v \in Worker : t = task'[v]
        BY <2>1 DEF Tasks
      <4>4. QED
        BY <2>1, <2>3, <2>4, <4>1, <4>2, <4>3 DEF HandOver, OneOwner
    <3>2. TaskOwnsFd'
      BY <1>1, <1>2, <2>2, <2>4, <3>1 DEF HandOver, TaskOwnsFd
    <3>3. OneOwner'
      BY <2>1, <2>3, <2>4 DEF HandOver, OneOwner
    <3>4. table[task[w].fd] = task[w].from /\ task[w].from \in Client
      BY <1>2, <2>1, <2>4, TasksProperties DEF IInv, HandOver, TaskOwnsFd
    <3>5. conn'[task[w].from] = "closed"
      BY <2>2, <3>4
    <3>6. OnceAnswered'
      <4>1. replied \subseteq Worker
        BY DEF IInv, TypeOK
      <4>2. QED
        BY <2>1, <2>2, <2>3, <2>4, <3>5, <4>1 DEF HandOver, OnceAnswered
    <3>7. QED
      BY <2>1, <2>4, <3>2, <3>3, <3>6 DEF HandOver, Running, RepliesGoHome
  <2>5. QED
    BY <2>1, <2>2, <2>4 DEF HInv
<1>7. QED
  BY <1>3, <1>4, <1>5, <1>6 DEF Work

\* What main and the workers may rely on.
LEMMA HandOverInvariant == SafeSpec => [](IInv /\ HInv)
<1>1. Init => IInv /\ HInv
  <2> SUFFICES ASSUME Init PROVE HInv
    BY InitIInv
  <2>1. Tasks = {} /\ DOMAIN backlog = {} /\ DOMAIN queue = {}
    BY DEF Init, Tasks
  <2>2. QED
    BY <2>1 DEF Init, HInv, TableInv, HandOver, Running, TaskOwnsFd, RepliesGoHome, OneOwner,
                OnceAnswered
<1>2. IInv /\ HInv /\ [Next]_vars => (IInv /\ HInv)'
  <2> SUFFICES ASSUME IInv, HInv, [Next]_vars PROVE HInv'
    BY NextIInv
  <2>1. ASSUME NEW c \in Client, Connect(c) \/ Send(c) \/ Leave(c) PROVE HInv'
    BY <2>1, ClientHandOver
  <2>2. CASE Main
    BY <2>2, MainHandOver
  <2>3. ASSUME NEW w \in Worker, Work(w) PROVE HInv'
    BY <2>3, WorkHandOver
  <2>4. CASE UNCHANGED vars
    <3>1. UNCHANGED <<conn, got, backlog, table, pc, queue, task, replied, reread>>
      BY <2>4 DEF vars, clients, kernel, main, pool
    <3>2. HandOver => HandOver'
      BY <3>1, HandOverStays DEF HandOver, Running, IInv
    <3>3. QED
      BY <3>1, <3>2 DEF HInv, TableInv
  <2>5. QED
    BY <2>1, <2>2, <2>3, <2>4 DEF Next
<1>3. QED
  BY <1>1, <1>2, PTL DEF SafeSpec

\* Whatever the clients do: until main reads more, or the end, of a connection whose
\* descriptor a task already names, the task's descriptor is its connection, every
\* reply reaches the client that asked, and no write meets SIGPIPE.  The run on
\* PromptClients.cfg shows what such a read does.
THEOREM HandOverIsSafe == SafeSpec => []HandOverHolds
<1>1. IInv /\ HInv => HandOverHolds
  BY DEF HInv, HandOver, HandOverHolds
<1>2. QED
  BY <1>1, HandOverInvariant, PTL

=============================================================================
