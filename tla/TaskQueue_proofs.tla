-------------------------- MODULE TaskQueue_proofs --------------------------
(***************************************************************************)
(* Proofs about the task queue, for any number of workers and tasks.  The  *)
(* inductive invariant adds to the properties of TaskQueue what holds      *)
(* while a thread is inside a critical section: which thread that is, and  *)
(* the shape of the list between the two steps of a push or of a pop.      *)
(***************************************************************************)
EXTENDS TaskQueue, SequenceTheorems, FiniteSetTheorems, TLAPS

Critical == {"link", "signal", "broadcast", "test", "unlink"}

\* The mutex is held by exactly the thread that is in a critical section.
MutexInv == \A th \in Thread : pc[th] \in Critical <=> mutex = th

\* A thread has a Task in its local variable exactly while it needs one.
LocalInv ==
  /\ task[Main] # NULL <=> pc[Main] \in {"push", "link", "signal"}
  /\ \A w \in Worker : task[w] # NULL <=> pc[w] \in {"unlink", "run"}

\* A pop has moved the head and not yet the tail and the count.
Popping == \E w \in Worker : pc[w] = "unlink"

\* The Task a push has linked and not yet made the tail.
Added == IF pc[Main] = "signal" THEN task[Main] ELSE NULL

\* A list carries the tasks of s, followed by the added one if there is one; a
\* pop under way has made the second of them the head.
Shape(h, tl, c, nx, s, added, popping) ==
  /\ \A i \in 1..(Len(s) - 1) : nx[s[i]] = s[i + 1]
  /\ s # <<>> => nx[s[Len(s)]] = added
  /\ tl = IF s = <<>> THEN NULL ELSE s[Len(s)]
  /\ c = Len(s)
  /\ ~popping => h = IF s # <<>> THEN s[1] ELSE added
  /\ popping => h = IF Len(s) = 1 THEN NULL ELSE s[2]

\* The list in every state, and the Tasks the threads in a critical section have.
ListInv ==
  /\ Shape(head, tail, count, next, fifo, Added, Popping)
  /\ task[Main] # NULL => next[task[Main]] = NULL
  /\ \A w \in Worker : pc[w] = "unlink" => fifo # <<>> /\ task[w] = fifo[1]

\* Main is past queue_shutdown exactly when the flag is set, and a worker has
\* returned only from a queue that was empty then.
ShutdownInv ==
  /\ shutdown <=> pc[Main] \in {"join", "done"}
  /\ ExitMeansDrained

IInv ==
  /\ TypeOK /\ MutexInv /\ LocalInv /\ ListInv /\ OneHolderPerTask /\ ShutdownInv

-----------------------------------------------------------------------------
\* The pool begins with an empty queue and with every mutex free.
LEMMA InitIInv == Init => IInv
<1> SUFFICES ASSUME Init PROVE IInv
  OBVIOUS
<1> USE QueueAssumption DEF Init, Thread
<1>1. TypeOK
  <2>1. /\ pc \in [Thread -> WorkerPC \cup MainPC]
        /\ \A w \in Worker : pc[w] \in WorkerPC
        /\ pc[Main] \in MainPC
    BY DEF WorkerPC, MainPC
  <2>2. next \in [Task -> Task \cup {NULL}] /\ task \in [Thread -> Task \cup {NULL}]
    OBVIOUS
  <2>3. fifo \in Seq(Task)
    OBVIOUS
  <2>4. heap \in SUBSET Task
    OBVIOUS
  <2>5. QED
    BY <2>1, <2>2, <2>3, <2>4 DEF TypeOK
<1>2. MutexInv
  <2>1. \A th \in Thread : pc[th] \in {"idle", "pop"} /\ mutex # th
    OBVIOUS
  <2>2. QED
    BY <2>1 DEF MutexInv, Critical
<1>3. LocalInv
  BY DEF LocalInv
<1>4. ListInv
  BY DEF ListInv, Shape, Added, Popping
<1>5. OneHolderPerTask /\ ShutdownInv
  BY DEF OneHolderPerTask, ShutdownInv, ExitMeansDrained
<1>6. QED
  BY <1>1, <1>2, <1>3, <1>4, <1>5 DEF IInv

\* A signal moves the thread that sends it and at most one sleeper.
LEMMA SignalEffect ==
  ASSUME TypeOK, NEW l \in MainPC, Signal(Main, l)
  PROVE  /\ pc' \in [Thread -> WorkerPC \cup MainPC]
         /\ pc'[Main] = l
         /\ \A w \in Worker : pc'[w] = pc[w] \/ (pc[w] = "wait" /\ pc'[w] = "pop")
<1> USE QueueAssumption DEF TypeOK, Thread, WorkerPC, MainPC, Goto
<1> DEFINE sleeping == {w \in Worker : pc[w] = "wait"}
<1>1. CASE sleeping = {}
  <2>1. pc' = [pc EXCEPT ![Main] = l]
    BY <1>1 DEF Signal
  <2>2. QED
    BY <2>1
<1>2. CASE sleeping # {}
  <2>1. PICK w \in sleeping : pc' = [pc EXCEPT ![Main] = l, ![w] = "pop"]
    BY <1>2 DEF Signal
  <2>2. QED
    BY <2>1
<1>3. QED
  BY <1>1, <1>2

\* Every step keeps the types.
LEMMA TypeStep == TypeOK /\ MutexInv /\ LocalInv /\ ListInv /\ [Next]_vars => TypeOK'
<1> SUFFICES ASSUME TypeOK, MutexInv, LocalInv, ListInv, [Next]_vars PROVE TypeOK'
  OBVIOUS
<1> USE QueueAssumption DEF TypeOK, Thread, WorkerPC, MainPC, Goto, Lock, list
<1>1. ASSUME NEW t \in Task, NewTask(t) PROVE TypeOK'
  BY <1>1 DEF NewTask
<1>2. CASE PushLock
  BY <1>2 DEF PushLock
<1>3. CASE PushLink
  BY <1>3 DEF PushLink
<1>4. CASE PushSignal
  <2>1. /\ pc' \in [Thread -> WorkerPC \cup MainPC]
        /\ pc'[Main] = "idle"
        /\ \A w \in Worker : pc'[w] \in WorkerPC
    BY <1>4, SignalEffect DEF PushSignal
  <2>2. task[Main] \in Task
    BY <1>4 DEF PushSignal, LocalInv
  <2>3. QED
    BY <1>4, <2>1, <2>2 DEF PushSignal
<1>5. CASE BeginShutdown
  BY <1>5 DEF BeginShutdown
<1>6. CASE ShutdownLock
  BY <1>6 DEF ShutdownLock
<1>7. CASE ShutdownBroadcast
  BY <1>7 DEF ShutdownBroadcast
<1>8. CASE Join
  BY <1>8 DEF Join
<1>9. ASSUME NEW w \in Worker, PopLock(w) PROVE TypeOK'
  BY <1>9 DEF PopLock
<1>10. ASSUME NEW w \in Worker, PopWait(w) PROVE TypeOK'
  BY <1>10 DEF PopWait
<1>11. ASSUME NEW w \in Worker, PopQuit(w) PROVE TypeOK'
  BY <1>11 DEF PopQuit
<1>12. ASSUME NEW w \in Worker, PopHead(w) PROVE TypeOK'
  BY <1>12 DEF PopHead
<1>13. ASSUME NEW w \in Worker, PopUnlink(w) PROVE TypeOK'
  BY <1>13 DEF PopUnlink, ListInv, Shape
<1>14. ASSUME NEW w \in Worker, RunTask(w) PROVE TypeOK'
  BY <1>14 DEF RunTask
<1>15. ASSUME NEW w \in Worker, SpuriousWakeup(w) PROVE TypeOK'
  BY <1>15 DEF SpuriousWakeup
<1>16. CASE UNCHANGED vars
  BY <1>16 DEF vars
<1>17. QED
  BY <1>1, <1>2, <1>3, <1>4, <1>5, <1>6, <1>7, <1>8, <1>9, <1>10, <1>11, <1>12,
     <1>13, <1>14, <1>15, <1>16 DEF Next, MainStep, WorkerStep, PopStep
\* Every step keeps the queue's mutex with the thread in its critical section.
LEMMA MutexStep == TypeOK /\ MutexInv /\ [Next]_vars => MutexInv'
<1> SUFFICES ASSUME TypeOK, MutexInv, [Next]_vars PROVE MutexInv'
  OBVIOUS
<1> USE QueueAssumption DEF TypeOK, Thread, MutexInv, Critical, Goto, Lock, WorkerPC, MainPC
<1>1. ASSUME NEW t \in Task, NewTask(t) PROVE MutexInv'
  BY <1>1 DEF NewTask
<1>2. CASE PushLock
  BY <1>2 DEF PushLock
<1>3. CASE PushLink
  BY <1>3 DEF PushLink
<1>4. CASE PushSignal
  <2>1. /\ pc'[Main] = "idle"
        /\ \A v \in Worker : pc'[v] = pc[v] \/ (pc[v] = "wait" /\ pc'[v] = "pop")
    BY <1>4, SignalEffect DEF PushSignal
  <2>2. QED
    BY <1>4, <2>1 DEF PushSignal
<1>5. CASE BeginShutdown
  BY <1>5 DEF BeginShutdown
<1>6. CASE ShutdownLock
  BY <1>6 DEF ShutdownLock
<1>7. CASE ShutdownBroadcast
  BY <1>7 DEF ShutdownBroadcast
<1>8. CASE Join
  BY <1>8 DEF Join
<1>9. ASSUME NEW w \in Worker, PopLock(w) PROVE MutexInv'
  BY <1>9 DEF PopLock
<1>10. ASSUME NEW w \in Worker, PopWait(w) PROVE MutexInv'
  BY <1>10 DEF PopWait
<1>11. ASSUME NEW w \in Worker, PopQuit(w) PROVE MutexInv'
  BY <1>11 DEF PopQuit
<1>12. ASSUME NEW w \in Worker, PopHead(w) PROVE MutexInv'
  BY <1>12 DEF PopHead
<1>13. ASSUME NEW w \in Worker, PopUnlink(w) PROVE MutexInv'
  BY <1>13 DEF PopUnlink
<1>14. ASSUME NEW w \in Worker, RunTask(w) PROVE MutexInv'
  BY <1>14 DEF RunTask
<1>15. ASSUME NEW w \in Worker, SpuriousWakeup(w) PROVE MutexInv'
  BY <1>15 DEF SpuriousWakeup
<1>16. CASE UNCHANGED vars
  BY <1>16 DEF vars
<1>17. QED
  BY <1>1, <1>2, <1>3, <1>4, <1>5, <1>6, <1>7, <1>8, <1>9, <1>10, <1>11, <1>12,
     <1>13, <1>14, <1>15, <1>16 DEF Next, MainStep, WorkerStep, PopStep

\* Every step leaves a thread with a Task exactly while it needs one.
LEMMA LocalStep == TypeOK /\ LocalInv /\ ListInv /\ [Next]_vars => LocalInv'
<1> SUFFICES ASSUME TypeOK, LocalInv, ListInv, [Next]_vars PROVE LocalInv'
  OBVIOUS
<1> USE QueueAssumption DEF TypeOK, Thread, LocalInv, Goto, Lock, WorkerPC, MainPC
<1>1. ASSUME NEW t \in Task, NewTask(t) PROVE LocalInv'
  BY <1>1 DEF NewTask
<1>2. CASE PushLock
  BY <1>2 DEF PushLock
<1>3. CASE PushLink
  BY <1>3 DEF PushLink
<1>4. CASE PushSignal
  <2>1. /\ pc'[Main] = "idle"
        /\ \A v \in Worker : pc'[v] = pc[v] \/ (pc[v] = "wait" /\ pc'[v] = "pop")
    BY <1>4, SignalEffect DEF PushSignal
  <2>2. QED
    BY <1>4, <2>1 DEF PushSignal
<1>5. CASE BeginShutdown
  BY <1>5 DEF BeginShutdown
<1>6. CASE ShutdownLock
  BY <1>6 DEF ShutdownLock
<1>7. CASE ShutdownBroadcast
  BY <1>7 DEF ShutdownBroadcast
<1>8. CASE Join
  BY <1>8 DEF Join
<1>9. ASSUME NEW w \in Worker, PopLock(w) PROVE LocalInv'
  BY <1>9 DEF PopLock
<1>10. ASSUME NEW w \in Worker, PopWait(w) PROVE LocalInv'
  BY <1>10 DEF PopWait
<1>11. ASSUME NEW w \in Worker, PopQuit(w) PROVE LocalInv'
  BY <1>11 DEF PopQuit
<1>12. ASSUME NEW w \in Worker, PopHead(w) PROVE LocalInv'
  <2>1. head # NULL
    BY <1>12 DEF PopHead
  <2>2. QED
    BY <1>12, <2>1 DEF PopHead
<1>13. ASSUME NEW w \in Worker, PopUnlink(w) PROVE LocalInv'
  BY <1>13 DEF PopUnlink
<1>14. ASSUME NEW w \in Worker, RunTask(w) PROVE LocalInv'
  BY <1>14 DEF RunTask
<1>15. ASSUME NEW w \in Worker, SpuriousWakeup(w) PROVE LocalInv'
  BY <1>15 DEF SpuriousWakeup
<1>16. CASE UNCHANGED vars
  BY <1>16 DEF vars
<1>17. QED
  BY <1>1, <1>2, <1>3, <1>4, <1>5, <1>6, <1>7, <1>8, <1>9, <1>10, <1>11, <1>12,
     <1>13, <1>14, <1>15, <1>16 DEF Next, MainStep, WorkerStep, PopStep

\* Every step keeps the flag set exactly when main is past queue_shutdown, and the
\* queue empty for a worker that has returned.
LEMMA ShutdownStep == TypeOK /\ MutexInv /\ ListInv /\ ShutdownInv /\ [Next]_vars => ShutdownInv'
<1> SUFFICES ASSUME TypeOK, MutexInv, ListInv, ShutdownInv, [Next]_vars PROVE ShutdownInv'
  OBVIOUS
<1> USE QueueAssumption DEF TypeOK, Thread, ShutdownInv, ExitMeansDrained, Goto, Lock, WorkerPC, MainPC
<1>1. ASSUME NEW t \in Task, NewTask(t) PROVE ShutdownInv'
  BY <1>1 DEF NewTask
<1>2. CASE PushLock
  BY <1>2 DEF PushLock
<1>3. CASE PushLink
  BY <1>3 DEF PushLink
<1>4. CASE PushSignal
  <2>1. /\ pc'[Main] = "idle"
        /\ \A v \in Worker : pc'[v] = pc[v] \/ (pc[v] = "wait" /\ pc'[v] = "pop")
    BY <1>4, SignalEffect DEF PushSignal
  <2>2. QED
    BY <1>4, <2>1 DEF PushSignal
<1>5. CASE BeginShutdown
  BY <1>5 DEF BeginShutdown
<1>6. CASE ShutdownLock
  BY <1>6 DEF ShutdownLock
<1>7. CASE ShutdownBroadcast
  BY <1>7 DEF ShutdownBroadcast
<1>8. CASE Join
  BY <1>8 DEF Join
<1>9. ASSUME NEW w \in Worker, PopLock(w) PROVE ShutdownInv'
  BY <1>9 DEF PopLock
<1>10. ASSUME NEW w \in Worker, PopWait(w) PROVE ShutdownInv'
  BY <1>10 DEF PopWait
<1>11. ASSUME NEW w \in Worker, PopQuit(w) PROVE ShutdownInv'
  <2>1. ~Popping
    BY <1>11 DEF PopQuit, Popping, MutexInv, Critical
  <2>2. fifo = <<>>
    BY <1>11, <2>1 DEF PopQuit, ListInv, Shape, Added, MutexInv, Critical
  <2>3. QED
    BY <1>11, <2>2 DEF PopQuit
<1>12. ASSUME NEW w \in Worker, PopHead(w) PROVE ShutdownInv'
  BY <1>12 DEF PopHead
<1>13. ASSUME NEW w \in Worker, PopUnlink(w) PROVE ShutdownInv'
  BY <1>13 DEF PopUnlink
<1>14. ASSUME NEW w \in Worker, RunTask(w) PROVE ShutdownInv'
  BY <1>14 DEF RunTask
<1>15. ASSUME NEW w \in Worker, SpuriousWakeup(w) PROVE ShutdownInv'
  BY <1>15 DEF SpuriousWakeup
<1>16. CASE UNCHANGED vars
  BY <1>16 DEF vars
<1>17. QED
  BY <1>1, <1>2, <1>3, <1>4, <1>5, <1>6, <1>7, <1>8, <1>9, <1>10, <1>11, <1>12,
     <1>13, <1>14, <1>15, <1>16 DEF Next, MainStep, WorkerStep, PopStep

\* A step that changes neither the list nor who is about to change it.
LEMMA ListFrame ==
  ASSUME ListInv, UNCHANGED <<head, tail, count, next, fifo>>,
         task'[Main] = task[Main],
         pc'[Main] = "signal" <=> pc[Main] = "signal",
         \A w \in Worker : pc'[w] = "unlink" <=> pc[w] = "unlink",
         \A w \in Worker : pc[w] = "unlink" => task'[w] = task[w]
  PROVE  ListInv'
<1>1. Added' = Added
  BY DEF Added
<1>2. Popping' <=> Popping
  BY DEF Popping
<1>3. Shape(head, tail, count, next, fifo, Added, Popping)'
  BY <1>1, <1>2 DEF ListInv, Shape
<1>4. QED
  BY <1>3 DEF ListInv

\* Every step keeps head, tail and the links between them one list.
LEMMA ListStep == TypeOK /\ MutexInv /\ LocalInv /\ ListInv /\ OneHolderPerTask /\ [Next]_vars => ListInv'
<1> SUFFICES ASSUME TypeOK, MutexInv, LocalInv, ListInv, OneHolderPerTask, [Next]_vars PROVE ListInv'
  OBVIOUS
<1> USE QueueAssumption DEF TypeOK, Thread, Goto, Lock, list, WorkerPC, MainPC
<1>1. ASSUME NEW t \in Task, NewTask(t) PROVE ListInv'
  <2>1. task[Main] = NULL /\ \A i \in 1..Len(fifo) : fifo[i] \in Task /\ fifo[i] # t
    BY <1>1 DEF NewTask, LocalInv, OneHolderPerTask
  <2>2. /\ next' = [next EXCEPT ![t] = NULL] /\ pc' = [pc EXCEPT ![Main] = "push"]
        /\ task' = [task EXCEPT ![Main] = t] /\ UNCHANGED <<head, tail, count, fifo>>
    BY <1>1 DEF NewTask
  <2>3. Added = NULL /\ Added' = NULL /\ (Popping' <=> Popping)
    BY <1>1, <2>2 DEF NewTask, Added, Popping
  <2>4. \A i \in 1..Len(fifo) : next'[fifo[i]] = next[fifo[i]]
    BY <2>1, <2>2
  <2>5. Shape(head, tail, count, next, fifo, Added, Popping)'
    BY <2>2, <2>3, <2>4 DEF ListInv, Shape
  <2>6. QED
    BY <2>2, <2>5 DEF ListInv
<1>2. CASE PushLock
  BY <1>2, ListFrame DEF PushLock
<1>3. CASE PushLink
  <2> DEFINE x == task[Main]
  <2>1. pc[Main] = "link" /\ pc' = [pc EXCEPT ![Main] = "signal"]
        /\ UNCHANGED <<tail, count, task, fifo>>
    BY <1>3 DEF PushLink
  <2>2. x \in Task /\ next[x] = NULL /\ Added = NULL /\ Added' = x
    BY <2>1 DEF LocalInv, Added, ListInv
  <2>3. ~Popping /\ ~Popping'
    BY <2>1 DEF Popping, MutexInv, Critical
  <2>4. Shape(head, tail, count, next, fifo, NULL, FALSE)
    BY <2>2, <2>3 DEF ListInv, Shape
  <2>5. /\ \A i, j \in 1..Len(fifo) : fifo[i] = fifo[j] => i = j
        /\ \A i \in 1..Len(fifo) : fifo[i] \in Task /\ fifo[i] # x
    BY <2>1, <2>2 DEF OneHolderPerTask
  <2>6. Shape(head, tail, count, next, fifo, x, FALSE)' /\ next'[x] = NULL
    <3>1. CASE tail # NULL
      <4>1. next' = [next EXCEPT ![tail] = x] /\ head' = head
        BY <1>3, <3>1 DEF PushLink
      <4>2. fifo # <<>> /\ tail = fifo[Len(fifo)] /\ Len(fifo) \in 1..Len(fifo)
        BY <2>4, <3>1 DEF Shape
      <4>3. \A i \in 1..(Len(fifo) - 1) : next'[fifo[i]] = next[fifo[i]]
        BY <2>5, <4>1, <4>2
      <4>4. next'[fifo[Len(fifo)]] = x /\ next'[x] = NULL
        BY <2>2, <2>5, <4>1, <4>2
      <4>5. QED
        BY <2>1, <2>4, <4>1, <4>2, <4>3, <4>4 DEF Shape
    <3>2. CASE tail = NULL
      <4>1. head' = x /\ next' = next
        BY <1>3, <3>2 DEF PushLink
      <4>2. fifo = <<>>
        BY <2>4, <2>5, <3>2 DEF Shape
      <4>3. QED
        BY <2>1, <2>2, <2>4, <4>1, <4>2 DEF Shape
    <3>3. QED
      BY <3>1, <3>2
  <2>7. Shape(head, tail, count, next, fifo, Added, Popping)'
    BY <2>1, <2>2, <2>3, <2>6 DEF Shape
  <2>8. QED
    BY <2>1, <2>3, <2>6, <2>7 DEF ListInv, Popping
<1>4. CASE PushSignal
  <2> DEFINE x == task[Main]
  <2>1. /\ pc'[Main] = "idle"
        /\ \A v \in Worker : pc'[v] = pc[v] \/ (pc[v] = "wait" /\ pc'[v] = "pop")
    BY <1>4, SignalEffect DEF PushSignal
  <2>2. pc[Main] = "signal" /\ task' = [task EXCEPT ![Main] = NULL]
        /\ tail' = x /\ count' = count + 1 /\ fifo' = Append(fifo, x)
        /\ UNCHANGED <<head, next>>
    BY <1>4 DEF PushSignal
  <2>3. x \in Task /\ next[x] = NULL /\ Added = x /\ Added' = NULL
    BY <2>1, <2>2 DEF LocalInv, Added, ListInv
  <2>4. ~Popping /\ ~Popping'
    BY <2>1, <2>2 DEF Popping, MutexInv, Critical
  <2>5. Shape(head, tail, count, next, fifo, x, FALSE)
    BY <2>3, <2>4 DEF ListInv, Shape
  <2>6. /\ Len(fifo') = Len(fifo) + 1 /\ fifo'[Len(fifo) + 1] = x
        /\ \A i \in 1..Len(fifo) : fifo'[i] = fifo[i]
    BY <2>2
  <2>7. Shape(head, tail, count, next, fifo, NULL, FALSE)'
    <3>1. CASE fifo = <<>>
      BY <2>2, <2>3, <2>5, <2>6, <3>1 DEF Shape
    <3>2. CASE fifo # <<>>
      <4>1. \A i \in 1..Len(fifo) : next'[fifo'[i]] = fifo'[i + 1]
        BY <2>2, <2>5, <2>6, <3>2 DEF Shape
      <4>2. next'[fifo'[Len(fifo')]] = NULL
        BY <2>2, <2>3, <2>6
      <4>3. tail' = fifo'[Len(fifo')] /\ count' = Len(fifo') /\ head' = fifo'[1]
        BY <2>2, <2>5, <2>6, <3>2 DEF Shape
      <4>4. QED
        BY <2>6, <4>1, <4>2, <4>3 DEF Shape
    <3>3. QED
      BY <3>1, <3>2
  <2>8. Shape(head, tail, count, next, fifo, Added, Popping)'
    BY <2>3, <2>4, <2>7 DEF Shape
  <2>9. QED
    BY <2>2, <2>4, <2>8 DEF ListInv, Popping
<1>5. CASE BeginShutdown
  BY <1>5, ListFrame DEF BeginShutdown
<1>6. CASE ShutdownLock
  BY <1>6, ListFrame DEF ShutdownLock
<1>7. CASE ShutdownBroadcast
  BY <1>7, ListFrame DEF ShutdownBroadcast
<1>8. CASE Join
  BY <1>8, ListFrame DEF Join
<1>9. ASSUME NEW w \in Worker, PopLock(w) PROVE ListInv'
  BY <1>9, ListFrame DEF PopLock
<1>10. ASSUME NEW w \in Worker, PopWait(w) PROVE ListInv'
  BY <1>10, ListFrame DEF PopWait
<1>11. ASSUME NEW w \in Worker, PopQuit(w) PROVE ListInv'
  BY <1>11, ListFrame DEF PopQuit
<1>12. ASSUME NEW w \in Worker, PopHead(w) PROVE ListInv'
  <2>1. pc[w] = "test" /\ head # NULL /\ pc' = [pc EXCEPT ![w] = "unlink"]
        /\ task' = [task EXCEPT ![w] = head] /\ head' = next[head]
        /\ UNCHANGED <<tail, count, next, fifo>>
    BY <1>12 DEF PopHead
  <2>2. mutex = w /\ ~Popping /\ pc[Main] # "signal"
    BY <2>1 DEF MutexInv, Critical, Popping
  <2>3. Added = NULL /\ Added' = NULL /\ Popping'
    BY <2>1, <2>2 DEF Added, Popping
  <2>4. Shape(head, tail, count, next, fifo, NULL, FALSE)
    BY <2>2, <2>3 DEF ListInv, Shape
  <2>5. fifo # <<>> /\ head = fifo[1] /\ head' = IF Len(fifo) = 1 THEN NULL ELSE fifo[2]
    BY <2>1, <2>4 DEF Shape
  <2>6. Shape(head, tail, count, next, fifo, NULL, TRUE)'
    BY <2>1, <2>4, <2>5 DEF Shape
  <2>7. Shape(head, tail, count, next, fifo, Added, Popping)'
    BY <2>3, <2>6 DEF Shape
  <2>8. \A v \in Worker : pc'[v] = "unlink" => v = w
    BY <2>1, <2>2 DEF Popping
  <2>9. QED
    BY <2>1, <2>5, <2>7, <2>8 DEF ListInv
<1>13. ASSUME NEW w \in Worker, PopUnlink(w) PROVE ListInv'
  <2>1. pc[w] = "unlink" /\ pc' = [pc EXCEPT ![w] = "run"]
        /\ tail' = (IF head = NULL THEN NULL ELSE tail)
        /\ count' = count - 1 /\ fifo' = Tail(fifo)
        /\ UNCHANGED <<head, next, task>>
    BY <1>13 DEF PopUnlink
  <2>2. Popping /\ mutex = w /\ pc[Main] # "signal"
    BY <2>1 DEF MutexInv, Critical, Popping
  <2>3. Added = NULL /\ Added' = NULL /\ ~Popping'
    BY <2>1, <2>2 DEF Added, Popping, MutexInv, Critical
  <2>4. Shape(head, tail, count, next, fifo, NULL, TRUE) /\ fifo # <<>>
    BY <2>1, <2>2, <2>3 DEF ListInv, Shape
  <2>5. /\ Len(fifo') = Len(fifo) - 1
        /\ \A i \in 1..Len(fifo') : fifo'[i] = fifo[i + 1]
    BY <2>1, <2>4
  <2>6. Shape(head, tail, count, next, fifo, NULL, FALSE)'
    <3>1. CASE Len(fifo) = 1
      BY <2>1, <2>4, <2>5, <3>1 DEF Shape
    <3>2. CASE Len(fifo) > 1
      <4>1. head = fifo[2] /\ head # NULL /\ fifo' # <<>>
        BY <2>4, <2>5, <3>2 DEF Shape
      <4>2. \A i \in 1..(Len(fifo') - 1) : next'[fifo'[i]] = fifo'[i + 1]
        BY <2>1, <2>4, <2>5 DEF Shape
      <4>3. tail' = fifo'[Len(fifo')] /\ next'[fifo'[Len(fifo')]] = NULL
        BY <2>1, <2>4, <2>5, <3>2, <4>1 DEF Shape
      <4>4. QED
        BY <2>1, <2>4, <2>5, <4>1, <4>2, <4>3 DEF Shape

    <3>3. Len(fifo) \in Nat \ {0}
      BY <2>4, EmptySeq
    <3>4. Len(fifo) = 1 \/ Len(fifo) > 1
      <4>1. \A n \in Nat \ {0} : n = 1 \/ n > 1
        OBVIOUS
      <4>2. QED
        BY <3>3, <4>1
    <3>5. QED
      BY <3>1, <3>2, <3>4
  <2>7. Shape(head, tail, count, next, fifo, Added, Popping)'
    BY <2>3, <2>6 DEF Shape
  <2>8. QED
    BY <2>1, <2>3, <2>7 DEF ListInv, Popping
<1>14. ASSUME NEW w \in Worker, RunTask(w) PROVE ListInv'
  BY <1>14, ListFrame DEF RunTask
<1>15. ASSUME NEW w \in Worker, SpuriousWakeup(w) PROVE ListInv'
  BY <1>15, ListFrame DEF SpuriousWakeup
<1>16. CASE UNCHANGED vars
  BY <1>16, ListFrame DEF vars
<1>17. QED
  BY <1>1, <1>2, <1>3, <1>4, <1>5, <1>6, <1>7, <1>8, <1>9, <1>10, <1>11, <1>12,
     <1>13, <1>14, <1>15, <1>16 DEF Next, MainStep, WorkerStep, PopStep

\* A step that moves no task.
LEMMA HolderFrame ==
  ASSUME OneHolderPerTask, UNCHANGED <<heap, task, fifo>>,
         \A th \in Thread : pc[th] = "unlink" => pc'[th] = "unlink"
  PROVE  OneHolderPerTask'
  BY DEF OneHolderPerTask

\* Every step leaves a task with one holder.
LEMMA HolderStep == TypeOK /\ MutexInv /\ LocalInv /\ ListInv /\ OneHolderPerTask /\ [Next]_vars => OneHolderPerTask'
<1> SUFFICES ASSUME TypeOK, MutexInv, LocalInv, ListInv, OneHolderPerTask, [Next]_vars PROVE OneHolderPerTask'
  OBVIOUS
<1> USE QueueAssumption DEF TypeOK, Thread, Goto, Lock, list, WorkerPC, MainPC
<1>1. ASSUME NEW t \in Task, NewTask(t) PROVE OneHolderPerTask'
  <2>1. /\ t \in Task /\ t \notin heap /\ heap' = heap \cup {t}
        /\ task' = [task EXCEPT ![Main] = t] /\ pc' = [pc EXCEPT ![Main] = "push"]
        /\ pc[Main] = "idle" /\ fifo' = fifo
    BY <1>1 DEF NewTask
  <2>2. /\ \A i \in 1..Len(fifo) : fifo[i] # t
        /\ \A th \in Thread : task[th] # t
    BY <2>1 DEF OneHolderPerTask
  <2>3. QED
    BY <2>1, <2>2 DEF OneHolderPerTask
<1>2. CASE PushLock
  BY <1>2, HolderFrame DEF PushLock
<1>3. CASE PushLink
  BY <1>3, HolderFrame DEF PushLink
<1>4. CASE PushSignal
  <2> DEFINE x == task[Main]
  <2>1. /\ pc[Main] = "signal" /\ task' = [task EXCEPT ![Main] = NULL]
        /\ fifo' = Append(fifo, x) /\ heap' = heap
    BY <1>4 DEF PushSignal
  <2>2. \A th \in Thread : pc[th] = "unlink" => pc'[th] = "unlink"
    BY <1>4, <2>1, SignalEffect DEF PushSignal
  <2>3. x \in Task /\ x \in heap
    BY <2>1 DEF LocalInv, OneHolderPerTask
  <2>4. /\ Len(fifo') = Len(fifo) + 1 /\ fifo'[Len(fifo) + 1] = x
        /\ \A i \in 1..Len(fifo) : fifo'[i] = fifo[i] /\ fifo[i] # x
    BY <2>1 DEF OneHolderPerTask
  <2>5. \A th \in Thread : task'[th] # x /\ (task'[th] # NULL => task'[th] = task[th])
    BY <2>1, <2>3 DEF OneHolderPerTask
  <2>6. /\ \A i \in 1..Len(fifo') : fifo'[i] \in heap'
        /\ \A i, j \in 1..Len(fifo') : fifo'[i] = fifo'[j] => i = j
    BY <2>1, <2>3, <2>4 DEF OneHolderPerTask
  <2>7. \A th \in Thread, i \in 1..Len(fifo') :
          task'[th] = fifo'[i] => i = 1 /\ pc'[th] = "unlink"
    BY <2>2, <2>4, <2>5 DEF OneHolderPerTask
  <2>8. QED
    BY <2>1, <2>5, <2>6, <2>7 DEF OneHolderPerTask
<1>5. CASE BeginShutdown
  BY <1>5, HolderFrame DEF BeginShutdown
<1>6. CASE ShutdownLock
  BY <1>6, HolderFrame DEF ShutdownLock
<1>7. CASE ShutdownBroadcast
  BY <1>7, HolderFrame DEF ShutdownBroadcast
<1>8. CASE Join
  BY <1>8, HolderFrame DEF Join
<1>9. ASSUME NEW w \in Worker, PopLock(w) PROVE OneHolderPerTask'
  BY <1>9, HolderFrame DEF PopLock
<1>10. ASSUME NEW w \in Worker, PopWait(w) PROVE OneHolderPerTask'
  BY <1>10, HolderFrame DEF PopWait
<1>11. ASSUME NEW w \in Worker, PopQuit(w) PROVE OneHolderPerTask'
  BY <1>11, HolderFrame DEF PopQuit
<1>12. ASSUME NEW w \in Worker, PopHead(w) PROVE OneHolderPerTask'
  <2>1. /\ pc[w] = "test" /\ head # NULL /\ pc' = [pc EXCEPT ![w] = "unlink"]
        /\ task' = [task EXCEPT ![w] = head] /\ UNCHANGED <<heap, fifo>>
    BY <1>12 DEF PopHead
  <2>2. ~Popping /\ pc[Main] # "signal"
    BY <2>1 DEF MutexInv, Critical, Popping
  <2>3. fifo # <<>> /\ head = fifo[1] /\ 1 \in 1..Len(fifo)
    BY <2>1, <2>2 DEF ListInv, Shape, Added
  <2>4. \A th \in Thread : task[th] # head
    BY <2>2, <2>3 DEF OneHolderPerTask, Popping
  <2>5. QED
    BY <2>1, <2>3, <2>4 DEF OneHolderPerTask
<1>13. ASSUME NEW w \in Worker, PopUnlink(w) PROVE OneHolderPerTask'
  <2>1. /\ pc[w] = "unlink" /\ pc' = [pc EXCEPT ![w] = "run"]
        /\ fifo' = Tail(fifo) /\ UNCHANGED <<heap, task>>
    BY <1>13 DEF PopUnlink
  <2>2. fifo # <<>> /\ task[w] = fifo[1]
    BY <2>1 DEF ListInv
  <2>3. /\ Len(fifo') = Len(fifo) - 1
        /\ \A i \in 1..Len(fifo') : fifo'[i] = fifo[i + 1] /\ i + 1 \in 1..Len(fifo)
    BY <2>1, <2>2
  <2>4. \A th \in Thread, i \in 1..Len(fifo') : task'[th] # fifo'[i]
    BY <2>1, <2>3 DEF OneHolderPerTask
  <2>5. /\ \A i \in 1..Len(fifo') : fifo'[i] \in heap'
        /\ \A i, j \in 1..Len(fifo') : fifo'[i] = fifo'[j] => i = j
    <3>1. ASSUME NEW i \in 1..Len(fifo'), NEW j \in 1..Len(fifo'), fifo'[i] = fifo'[j]
          PROVE  i = j
      <4>1. fifo[i + 1] = fifo[j + 1] /\ i + 1 \in 1..Len(fifo) /\ j + 1 \in 1..Len(fifo)
        BY <2>3, <3>1
      <4>2. i + 1 = j + 1
        BY <4>1 DEF OneHolderPerTask
      <4>3. QED
        BY <2>3, <3>1, <4>2
    <3>2. QED
      BY <2>1, <2>3, <3>1 DEF OneHolderPerTask
  <2>6. QED
    BY <2>1, <2>4, <2>5 DEF OneHolderPerTask
<1>14. ASSUME NEW w \in Worker, RunTask(w) PROVE OneHolderPerTask'
  <2>1. /\ pc[w] = "run" /\ pc' = [pc EXCEPT ![w] = "pop"] /\ heap' = heap \ {task[w]}
        /\ task' = [task EXCEPT ![w] = NULL] /\ fifo' = fifo
    BY <1>14 DEF RunTask
  <2>2. task[w] # NULL /\ \A i \in 1..Len(fifo) : fifo[i] # task[w]
    BY <2>1 DEF LocalInv, OneHolderPerTask
  <2>3. \A th \in Thread : task'[th] # NULL => task'[th] = task[th] /\ task[th] # task[w]
    BY <2>1, <2>2 DEF OneHolderPerTask
  <2>4. QED
    BY <2>1, <2>2, <2>3 DEF OneHolderPerTask
<1>15. ASSUME NEW w \in Worker, SpuriousWakeup(w) PROVE OneHolderPerTask'
  BY <1>15, HolderFrame DEF SpuriousWakeup
<1>16. CASE UNCHANGED vars
  BY <1>16, HolderFrame DEF vars
<1>17. QED
  BY <1>1, <1>2, <1>3, <1>4, <1>5, <1>6, <1>7, <1>8, <1>9, <1>10, <1>11, <1>12,
     <1>13, <1>14, <1>15, <1>16 DEF Next, MainStep, WorkerStep, PopStep

-----------------------------------------------------------------------------
\* So the invariant holds in every reachable state.
LEMMA Inductive == SafeSpec => []IInv
<1>1. IInv /\ [Next]_vars => IInv'
  BY TypeStep, MutexStep, LocalStep, ListStep, HolderStep, ShutdownStep DEF IInv
<1>2. QED
  BY <1>1, InitIInv, PTL DEF SafeSpec

\* The fields of the queue, its nodes and the threads' positions have their
\* types, for any number of workers and tasks.
THEOREM TypeCorrect == SafeSpec => []TypeOK
<1>1. IInv => TypeOK
  BY DEF IInv
<1>2. QED
  BY <1>1, Inductive, PTL

\* Whenever the queue's mutex is free, the linked list is the first-in first-out
\* sequence of the tasks pushed and not yet popped.
THEOREM QueueIsFifo == SafeSpec => []ListIsFifo
<1>1. IInv => ListIsFifo
  <2> SUFFICES ASSUME IInv, mutex = NULL PROVE ListIsFifo
    BY DEF ListIsFifo
  <2>1. pc[Main] # "signal" /\ ~Popping
    BY QueueAssumption DEF IInv, MutexInv, Critical, Thread, Popping
  <2>2. Shape(head, tail, count, next, fifo, NULL, FALSE)
    BY <2>1 DEF IInv, ListInv, Added, Shape
  <2>3. fifo \in Seq(Task)
    BY DEF IInv, TypeOK
  <2>4. Linked(head, fifo)
    BY <2>2, <2>3 DEF Shape, Linked
  <2>5. QED
    BY <2>2, <2>4 DEF Shape, ListIsFifo
<1>2. QED
  BY <1>1, Inductive, PTL

\* A Task has one holder until its one free: no double free, no use after free.
THEOREM SingleHolder == SafeSpec => []OneHolderPerTask
<1>1. IInv => OneHolderPerTask
  BY DEF IInv
<1>2. QED
  BY <1>1, Inductive, PTL

\* Shutting the queue down drops no task.
THEOREM DrainedOnExit == SafeSpec => []ExitMeansDrained
<1>1. IInv => ExitMeansDrained
  BY DEF IInv, ShutdownInv
<1>2. QED
  BY <1>1, Inductive, PTL

-----------------------------------------------------------------------------
\* The workers on their way to the queue, or in it.
Awake == {w \in Worker : pc[w] \in {"pop", "test", "unlink"}}

\* A set of workers is finite, and not larger than one that contains it.
LEMMA AwakeBound ==
  ASSUME NEW S \in SUBSET Worker, NEW R \in SUBSET Worker, R \subseteq S
  PROVE  /\ IsFiniteSet(S) /\ IsFiniteSet(R)
         /\ Cardinality(S) \in Nat /\ Cardinality(R) \in Nat
         /\ Cardinality(R) <= Cardinality(S)
<1>1. IsFiniteSet(S)
  BY QueueAssumption, FS_Subset
<1>2. QED
  BY <1>1, FS_Subset, FS_CardinalityType

\* A step that leaves the queue alone, sends nobody to sleep and takes nobody
\* off the queue loses no wakeup.
LEMMA WakeupFrame ==
  ASSUME TypeOK, WakeupsCoverTasks, fifo' = fifo,
         \A w \in Worker : pc'[w] = "wait" => pc[w] = "wait",
         \A w \in Awake : w \in Awake'
  PROVE  WakeupsCoverTasks'
<1> SUFFICES ASSUME \E w \in Worker : pc'[w] = "wait"
             PROVE  Len(fifo') <= Cardinality(Awake')
  BY DEF WakeupsCoverTasks, Awake
<1>1. Len(fifo) <= Cardinality(Awake)
  BY DEF WakeupsCoverTasks, Awake
<1>2. Awake \in SUBSET Worker /\ Awake' \in SUBSET Worker /\ Awake \subseteq Awake'
  BY DEF Awake
<1>3. /\ Cardinality(Awake) \in Nat /\ Cardinality(Awake') \in Nat
      /\ Cardinality(Awake) <= Cardinality(Awake')
  BY <1>2, AwakeBound
<1>4. Len(fifo) \in Nat
  BY LenProperties DEF TypeOK
<1>5. QED
  BY <1>1, <1>3, <1>4

\* A worker that finds no head finds an empty queue: it holds the mutex, so no
\* push or pop is half done.
LEMMA NoHeadNoTask ==
  ASSUME TypeOK, MutexInv, ListInv, NEW w \in Worker, pc[w] = "test", head = NULL
  PROVE  fifo = <<>>
<1> USE QueueAssumption DEF TypeOK, Thread
<1>1. ~Popping /\ pc[Main] # "signal"
  BY DEF Popping, MutexInv, Critical
<1>2. QED
  BY <1>1 DEF ListInv, Shape, Added

\* No step loses a wakeup.
LEMMA WakeupStep == IInv /\ WakeupsCoverTasks /\ [Next]_vars => WakeupsCoverTasks'
<1> SUFFICES ASSUME IInv, WakeupsCoverTasks, [Next]_vars PROVE WakeupsCoverTasks'
  OBVIOUS
<1> USE QueueAssumption DEF IInv, TypeOK, Thread, WorkerPC, MainPC, Goto, Lock, list
<1>0. Len(fifo) \in Nat /\ Awake \in SUBSET Worker /\ Awake' \in SUBSET Worker
  BY LenProperties DEF Awake
<1>1. ASSUME NEW t \in Task, NewTask(t) PROVE WakeupsCoverTasks'
  BY <1>1, WakeupFrame DEF NewTask, Awake
<1>2. CASE PushLock
  BY <1>2, WakeupFrame DEF PushLock, Awake
<1>3. CASE PushLink
  BY <1>3, WakeupFrame DEF PushLink, Awake
<1>4. CASE PushSignal
  <2> DEFINE sleeping == {w \in Worker : pc[w] = "wait"}
  <2>1. Signal(Main, "idle") /\ fifo' = Append(fifo, task[Main])
    BY <1>4 DEF PushSignal
  <2>2. Len(fifo') = Len(fifo) + 1
    BY <2>1
  <2>3. CASE sleeping = {}
    <3>1. pc' = [pc EXCEPT ![Main] = "idle"]
      BY <2>1, <2>3 DEF Signal
    <3>2. ~\E w \in Worker : pc'[w] = "wait"
      BY <2>3, <3>1
    <3>3. QED
      BY <3>2 DEF WakeupsCoverTasks
  <2>4. CASE sleeping # {}
    <3>1. PICK w \in sleeping : pc' = [pc EXCEPT ![Main] = "idle", ![w] = "pop"]
      BY <2>1, <2>4 DEF Signal
    <3>2. w \notin Awake /\ Awake' = Awake \cup {w}
      BY <3>1 DEF Awake
    <3>3. Len(fifo) <= Cardinality(Awake)
      BY <2>4 DEF WakeupsCoverTasks, Awake
    <3>4. IsFiniteSet(Awake) /\ Cardinality(Awake) \in Nat
      BY <1>0, AwakeBound
    <3>5. Cardinality(Awake') = Cardinality(Awake) + 1
      BY <3>2, <3>4, FS_AddElement
    <3>6. Len(fifo') <= Cardinality(Awake')
      BY <1>0, <2>2, <3>3, <3>4, <3>5
    <3>7. QED
      BY <3>6 DEF WakeupsCoverTasks, Awake
  <2>5. QED
    BY <2>3, <2>4
<1>5. CASE BeginShutdown
  BY <1>5, WakeupFrame DEF BeginShutdown, Awake
<1>6. CASE ShutdownLock
  BY <1>6, WakeupFrame DEF ShutdownLock, Awake
<1>7. CASE ShutdownBroadcast
  BY <1>7, WakeupFrame DEF ShutdownBroadcast, Awake
<1>8. CASE Join
  BY <1>8, WakeupFrame DEF Join, Awake
<1>9. ASSUME NEW w \in Worker, PopLock(w) PROVE WakeupsCoverTasks'
  BY <1>9, WakeupFrame DEF PopLock, Awake
<1>10. ASSUME NEW w \in Worker, PopWait(w) \/ PopQuit(w) PROVE WakeupsCoverTasks'
  <2>1. fifo = <<>> /\ fifo' = fifo
    BY <1>10, NoHeadNoTask DEF PopWait, PopQuit
  <2>2. Cardinality(Awake') \in Nat
    BY <1>0, AwakeBound
  <2>3. QED
    BY <2>1, <2>2 DEF WakeupsCoverTasks, Awake
<1>12. ASSUME NEW w \in Worker, PopHead(w) PROVE WakeupsCoverTasks'
  BY <1>12, WakeupFrame DEF PopHead, Awake
<1>13. ASSUME NEW w \in Worker, PopUnlink(w) PROVE WakeupsCoverTasks'
  <2>1. /\ pc[w] = "unlink" /\ pc' = [pc EXCEPT ![w] = "run"] /\ fifo' = Tail(fifo)
    BY <1>13 DEF PopUnlink
  <2>2. Len(fifo') = Len(fifo) - 1
    BY <2>1 DEF ListInv
  <2>3. w \in Awake /\ Awake' = Awake \ {w}
    BY <2>1 DEF Awake
  <2>4. IsFiniteSet(Awake) /\ Cardinality(Awake) \in Nat
    BY <1>0, AwakeBound
  <2>5. Cardinality(Awake') = Cardinality(Awake) - 1
    BY <2>3, <2>4, FS_RemoveElement
  <2>6. SUFFICES ASSUME \E v \in Worker : pc'[v] = "wait"
                 PROVE  Len(fifo') <= Cardinality(Awake')
    BY DEF WakeupsCoverTasks, Awake
  <2>7. Len(fifo) <= Cardinality(Awake)
    BY <2>1, <2>6 DEF WakeupsCoverTasks, Awake
  <2>8. QED
    BY <1>0, <2>2, <2>4, <2>5, <2>7
<1>14. ASSUME NEW w \in Worker, RunTask(w) PROVE WakeupsCoverTasks'
  BY <1>14, WakeupFrame DEF RunTask, Awake
<1>15. ASSUME NEW w \in Worker, SpuriousWakeup(w) PROVE WakeupsCoverTasks'
  BY <1>15, WakeupFrame DEF SpuriousWakeup, Awake
<1>16. CASE UNCHANGED vars
  BY <1>16, WakeupFrame DEF vars, Awake
<1>17. QED
  BY <1>1, <1>2, <1>3, <1>4, <1>5, <1>6, <1>7, <1>8, <1>9, <1>10, <1>12,
     <1>13, <1>14, <1>15, <1>16 DEF Next, MainStep, WorkerStep, PopStep

\* While a worker sleeps, as many workers are on their way to the queue as there
\* are tasks in it: a signal is never lost, and a wakeup that another worker
\* steals or that has no cause takes none away.
THEOREM NoLostWakeup == SafeSpec => []WakeupsCoverTasks
<1>1. Init => WakeupsCoverTasks
  BY QueueAssumption DEF Init, Thread, WakeupsCoverTasks
<1>2. QED
  BY <1>1, WakeupStep, Inductive, PTL DEF SafeSpec

-----------------------------------------------------------------------------
\* A step that moves no task, leaves the flag alone and lets no worker start or
\* leave is a stutter of the pool.
LEMMA PoolStutter ==
  ASSUME UNCHANGED <<fifo, shutdown>>,
         \A w \in Worker : pc'[w] = "run" <=> pc[w] = "run",
         \A w \in Worker : pc'[w] = "exit" <=> pc[w] = "exit",
         \A w \in Worker : pc[w] = "run" => task'[w] = task[w]
  PROVE  UNCHANGED Pool!vars
  BY DEF Pool!vars

\* Every step of the queue is a step of the pool it promises, or a stutter.
LEMMA PoolStep == IInv /\ [Next]_vars => [Pool!Next]_Pool!vars
<1> SUFFICES ASSUME IInv, [Next]_vars PROVE [Pool!Next]_Pool!vars
  OBVIOUS
<1> USE QueueAssumption DEF IInv, TypeOK, Thread, WorkerPC, MainPC, Goto, Lock, list
<1>1. ASSUME NEW t \in Task, NewTask(t) PROVE UNCHANGED Pool!vars
  BY <1>1, PoolStutter DEF NewTask
<1>2. CASE PushLock
  BY <1>2, PoolStutter DEF PushLock
<1>3. CASE PushLink
  BY <1>3, PoolStutter DEF PushLink
<1>4. ASSUME PushSignal PROVE Pool!Submit(task[Main]) /\ task[Main] \in Task
  <2>1. /\ pc[Main] = "signal" /\ task' = [task EXCEPT ![Main] = NULL]
        /\ fifo' = Append(fifo, task[Main]) /\ UNCHANGED shutdown
    BY <1>4 DEF PushSignal
  <2>2. \A w \in Worker : /\ pc'[w] = "run" <=> pc[w] = "run"
                          /\ pc'[w] = "exit" <=> pc[w] = "exit"
                          /\ task'[w] = task[w]
    BY <1>4, <2>1, SignalEffect DEF PushSignal
  <2>3. ~shutdown /\ task[Main] \in Task
    BY <2>1 DEF ShutdownInv, LocalInv
  <2>4. /\ \A i \in DOMAIN fifo : fifo[i] # task[Main]
        /\ \A w \in Worker : task[w] # task[Main]
    BY <2>1, <2>3 DEF OneHolderPerTask
  <2>5. QED
    BY <2>1, <2>2, <2>3, <2>4 DEF Pool!Submit
<1>5. CASE BeginShutdown
  BY <1>5, PoolStutter DEF BeginShutdown
<1>6. CASE ShutdownLock
  BY <1>6, PoolStutter DEF ShutdownLock
<1>7. ASSUME ShutdownBroadcast PROVE Pool!Close
  <2>1. ~shutdown /\ shutdown' /\ shutdown' = TRUE
    BY <1>7 DEF ShutdownBroadcast, ShutdownInv
  <2>2. /\ \A w \in Worker : /\ pc'[w] = "run" <=> pc[w] = "run"
                             /\ pc'[w] = "exit" <=> pc[w] = "exit"
        /\ UNCHANGED <<task, fifo>>
    BY <1>7 DEF ShutdownBroadcast
  <2>3. QED
    BY <2>1, <2>2 DEF Pool!Close
<1>8. CASE Join
  BY <1>8, PoolStutter DEF Join
<1>9. ASSUME NEW w \in Worker, PopLock(w) PROVE UNCHANGED Pool!vars
  BY <1>9, PoolStutter DEF PopLock
<1>10. ASSUME NEW w \in Worker, PopWait(w) PROVE UNCHANGED Pool!vars
  BY <1>10, PoolStutter DEF PopWait
<1>11. ASSUME NEW w \in Worker, PopQuit(w) PROVE Pool!Leave(w)
  <2>1. /\ pc[w] = "test" /\ head = NULL /\ shutdown /\ pc' = [pc EXCEPT ![w] = "exit"]
        /\ UNCHANGED <<fifo, shutdown, task>>
    BY <1>11 DEF PopQuit
  <2>2. ~Popping /\ pc[Main] # "signal"
    BY <2>1 DEF MutexInv, Critical, Popping
  <2>3. fifo = <<>>
    BY <2>1, <2>2 DEF ListInv, Shape, Added
  <2>4. QED
    BY <2>1, <2>3 DEF Pool!Leave
<1>12. ASSUME NEW w \in Worker, PopHead(w) PROVE UNCHANGED Pool!vars
  BY <1>12, PoolStutter DEF PopHead
<1>13. ASSUME NEW w \in Worker, PopUnlink(w) PROVE Pool!Take(w)
  <2>1. /\ pc[w] = "unlink" /\ pc' = [pc EXCEPT ![w] = "run"] /\ fifo' = Tail(fifo)
        /\ UNCHANGED <<shutdown, task>>
    BY <1>13 DEF PopUnlink
  <2>2. fifo # <<>> /\ task[w] = Head(fifo)
    BY <2>1 DEF ListInv
  <2>3. QED
    BY <2>1, <2>2 DEF Pool!Take
<1>14. ASSUME NEW w \in Worker, RunTask(w) PROVE Pool!Finish(w)
  <2>1. /\ pc[w] = "run" /\ pc' = [pc EXCEPT ![w] = "pop"]
        /\ task' = [task EXCEPT ![w] = NULL] /\ UNCHANGED <<fifo, shutdown>>
    BY <1>14 DEF RunTask
  <2>2. task[w] # NULL
    BY <2>1 DEF LocalInv
  <2>3. QED
    BY <2>1, <2>2 DEF Pool!Finish
<1>15. ASSUME NEW w \in Worker, SpuriousWakeup(w) PROVE UNCHANGED Pool!vars
  BY <1>15, PoolStutter DEF SpuriousWakeup
<1>16. CASE UNCHANGED vars
  BY <1>16, PoolStutter DEF vars
<1>17. QED
  BY <1>1, <1>2, <1>3, <1>4, <1>5, <1>6, <1>7, <1>8, <1>9, <1>10, <1>11, <1>12,
     <1>13, <1>14, <1>15, <1>16 DEF Next, MainStep, WorkerStep, PopStep, Pool!Next

\* The linked list, its mutex and its condition variable implement the pool:
\* tasks start in the order of the pushes, each in one worker, none after the
\* shutdown is lost.
THEOREM RefinesPool == SafeSpec => Pool!SafeSpec
<1>1. Init => Pool!Init
  <2> SUFFICES ASSUME Init PROVE Pool!Init
    OBVIOUS
  <2>1. \A w \in Worker : pc[w] = "pop"
    BY QueueAssumption DEF Init, Thread
  <2>2. QED
    BY <2>1 DEF Init, Pool!Init
<1>2. IInv /\ [Next]_vars => [Pool!Next]_Pool!vars
  BY PoolStep
<1>3. QED
  BY <1>1, <1>2, Inductive, PTL DEF SafeSpec, Pool!SafeSpec
=============================================================================
