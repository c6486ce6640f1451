----------------------------- MODULE TaskQueue -----------------------------
(***************************************************************************)
(* The task queue of ch16-threadpool.c: a singly linked list of Task nodes *)
(* guarded by queue->mutex, on which idle workers sleep with               *)
(* pthread_cond_wait(&queue->cond).  Main pushes, the workers run          *)
(* worker_thread, and the cleanup code at the end of main shuts the queue  *)
(* down and joins the workers.                                             *)
(*                                                                         *)
(* A critical section is split where the list is between two shapes, so    *)
(* that the mutex is what makes it atomic.  Its last access and            *)
(* pthread_mutex_unlock are one step: nothing another thread can observe   *)
(* lies between them.                                                      *)
(***************************************************************************)
EXTENDS Naturals, Sequences, FiniteSets

CONSTANTS Worker,  \* the pool's threads (THREAD_COUNT of them)
          Main,    \* the thread that runs main
          Task,    \* the addresses malloc can return for a Task
          NULL     \* the null pointer, and the holder of a free mutex

ASSUME QueueAssumption ==
  /\ IsFiniteSet(Worker)
  /\ Main \notin Worker
  /\ NULL \notin Task \cup Worker \cup {Main}

VARIABLES head, tail, count, shutdown, \* the fields of the TaskQueue
          next,   \* next[t]: the next field of the Task at t
          mutex,  \* the thread that holds queue->mutex, or NULL
          heap,   \* the Tasks allocated and not freed
          pc,     \* where each thread is
          task,   \* task[th]: the thread's local Task pointer
          fifo    \* history: the tasks in the list, in the order of the pushes

list == <<head, tail, count, next>>
vars == <<head, tail, count, shutdown, next, mutex, heap, pc, task, fifo>>

Thread == Worker \cup {Main}
WorkerPC == {"pop", "test", "wait", "unlink", "run", "exit"}
MainPC == {"idle", "push", "link", "signal", "stop", "broadcast", "join", "done"}

Goto(th, l) == pc' = [pc EXCEPT ![th] = l]
\* Mistake for the mutation runs: the mutex excludes nobody.
Lock_NoExclusion(th) == mutex' = th

Lock(th) == mutex = NULL /\ mutex' = th

Init ==
  /\ head = NULL /\ tail = NULL /\ count = 0 /\ shutdown = FALSE
  /\ next = [t \in Task |-> NULL]
  /\ mutex = NULL
  /\ heap = {}
  /\ pc = [th \in Thread |-> IF th = Main THEN "idle" ELSE "pop"]
  /\ task = [th \in Thread |-> NULL]
  /\ fifo = <<>>

-----------------------------------------------------------------------------
(* queue_push, by main *)

\* The Task is built before the mutex is taken.
NewTask(t) ==
  /\ pc[Main] = "idle"
  /\ t \in Task \ heap
  /\ heap' = heap \cup {t}
  /\ task' = [task EXCEPT ![Main] = t]
  /\ next' = [next EXCEPT ![t] = NULL]
  /\ Goto(Main, "push")
  /\ UNCHANGED <<head, tail, count, shutdown, mutex, fifo>>

PushLock ==
  /\ pc[Main] = "push"
  /\ Lock(Main)
  /\ Goto(Main, "link")
  /\ UNCHANGED <<list, shutdown, heap, task, fifo>>

\* queue->tail->next = task, or queue->head = task in an empty queue.
PushLink ==
  /\ pc[Main] = "link"
  /\ IF tail # NULL
     THEN next' = [next EXCEPT ![tail] = task[Main]] /\ UNCHANGED head
     ELSE head' = task[Main] /\ UNCHANGED next
  /\ Goto(Main, "signal")
  /\ UNCHANGED <<tail, count, shutdown, mutex, heap, task, fifo>>

\* pthread_cond_signal: one sleeper, if there is one, goes for the mutex.
Signal(th, l) ==
  LET sleeping == {w \in Worker : pc[w] = "wait"}
  IN  IF sleeping = {} THEN Goto(th, l)
      ELSE \E w \in sleeping : pc' = [pc EXCEPT ![th] = l, ![w] = "pop"]

\* Mistakes: the count is not maintained; only a push into an empty queue
\* signals; no push does.
PushSignal_NoCount ==
  /\ pc[Main] = "signal"
  /\ tail' = task[Main] /\ fifo' = Append(fifo, task[Main])
  /\ task' = [task EXCEPT ![Main] = NULL]
  /\ mutex' = NULL
  /\ Signal(Main, "idle")
  /\ UNCHANGED <<head, next, count, shutdown, heap>>

PushSignal_WhenEmpty ==
  /\ pc[Main] = "signal"
  /\ tail' = task[Main] /\ count' = count + 1 /\ fifo' = Append(fifo, task[Main])
  /\ task' = [task EXCEPT ![Main] = NULL]
  /\ mutex' = NULL
  /\ IF fifo = <<>> THEN Signal(Main, "idle") ELSE Goto(Main, "idle")
  /\ UNCHANGED <<head, next, shutdown, heap>>

PushSignal_Silent ==
  /\ pc[Main] = "signal"
  /\ tail' = task[Main] /\ count' = count + 1 /\ fifo' = Append(fifo, task[Main])
  /\ task' = [task EXCEPT ![Main] = NULL]
  /\ mutex' = NULL
  /\ Goto(Main, "idle")
  /\ UNCHANGED <<head, next, shutdown, heap>>

\* queue->tail = task; queue->count++; signal and unlock.
PushSignal ==
  /\ pc[Main] = "signal"
  /\ tail' = task[Main]
  /\ count' = count + 1
  /\ fifo' = Append(fifo, task[Main])
  /\ task' = [task EXCEPT ![Main] = NULL]
  /\ mutex' = NULL
  /\ Signal(Main, "idle")
  /\ UNCHANGED <<head, next, shutdown, heap>>

-----------------------------------------------------------------------------
(* queue_pop and the loop of worker_thread *)

PopLock(w) ==
  /\ pc[w] = "pop"
  /\ Lock(w)
  /\ Goto(w, "test")
  /\ UNCHANGED <<list, shutdown, heap, task, fifo>>

\* pthread_cond_wait releases the mutex and sleeps in one step.
PopWait(w) ==
  /\ pc[w] = "test"
  /\ head = NULL /\ ~shutdown
  /\ mutex' = NULL
  /\ Goto(w, "wait")
  /\ UNCHANGED <<list, shutdown, heap, task, fifo>>

\* POSIX lets a sleeper return without a signal; the while loop tests again.
SpuriousWakeup(w) ==
  /\ pc[w] = "wait"
  /\ Goto(w, "pop")
  /\ UNCHANGED <<list, shutdown, mutex, heap, task, fifo>>

\* Mistake: a worker leaves on shutdown without looking at the queue.
PopQuit_Undrained(w) ==
  /\ pc[w] = "test" /\ shutdown
  /\ mutex' = NULL
  /\ Goto(w, "exit")
  /\ UNCHANGED <<list, shutdown, heap, task, fifo>>

\* queue_pop returns NULL and worker_thread leaves its loop.
PopQuit(w) ==
  /\ pc[w] = "test"
  /\ head = NULL /\ shutdown
  /\ mutex' = NULL
  /\ Goto(w, "exit")
  /\ UNCHANGED <<list, shutdown, heap, task, fifo>>

\* task = queue->head; queue->head = task->next.
PopHead(w) ==
  /\ pc[w] = "test"
  /\ head # NULL
  /\ task' = [task EXCEPT ![w] = head]
  /\ head' = next[head]
  /\ Goto(w, "unlink")
  /\ UNCHANGED <<tail, count, next, shutdown, mutex, heap, fifo>>

\* Mistake: the tail of an emptied queue is left dangling.
PopUnlink_KeepTail(w) ==
  /\ pc[w] = "unlink"
  /\ count' = count - 1 /\ fifo' = Tail(fifo)
  /\ mutex' = NULL
  /\ Goto(w, "run")
  /\ UNCHANGED <<head, tail, next, shutdown, heap, task>>

\* An emptied queue loses its tail; queue->count--; unlock.
PopUnlink(w) ==
  /\ pc[w] = "unlink"
  /\ tail' = IF head = NULL THEN NULL ELSE tail
  /\ count' = count - 1
  /\ fifo' = Tail(fifo)
  /\ mutex' = NULL
  /\ Goto(w, "run")
  /\ UNCHANGED <<head, next, shutdown, heap, task>>

\* execute_command, close and free(task); back to queue_pop.  execute_command need
\* not return: KEYS locks store_mutex twice, and every command that wants the mutex
\* afterwards waits for ever.
RunTask(w) ==
  /\ pc[w] = "run"
  /\ heap' = heap \ {task[w]}
  /\ task' = [task EXCEPT ![w] = NULL]
  /\ Goto(w, "pop")
  /\ UNCHANGED <<list, shutdown, mutex, fifo>>

-----------------------------------------------------------------------------
(* The cleanup code of main: queue_shutdown, then pthread_join per worker *)

BeginShutdown ==
  /\ pc[Main] = "idle"
  /\ Goto(Main, "stop")
  /\ UNCHANGED <<list, shutdown, mutex, heap, task, fifo>>

ShutdownLock ==
  /\ pc[Main] = "stop"
  /\ Lock(Main)
  /\ Goto(Main, "broadcast")
  /\ UNCHANGED <<list, shutdown, heap, task, fifo>>

\* queue->shutdown = 1; pthread_cond_broadcast wakes every sleeper; unlock.
ShutdownBroadcast ==
  /\ pc[Main] = "broadcast"
  /\ shutdown' = TRUE
  /\ mutex' = NULL
  /\ pc' = [th \in Thread |-> IF th = Main THEN "join"
                              ELSE IF pc[th] = "wait" THEN "pop" ELSE pc[th]]
  /\ UNCHANGED <<list, heap, task, fifo>>

Join ==
  /\ pc[Main] = "join"
  /\ \A w \in Worker : pc[w] = "exit"
  /\ Goto(Main, "done")
  /\ UNCHANGED <<list, shutdown, mutex, heap, task, fifo>>

-----------------------------------------------------------------------------
MainStep ==
  \/ \E t \in Task : NewTask(t)
  \/ PushLock \/ PushLink \/ PushSignal
  \/ BeginShutdown \/ ShutdownLock \/ ShutdownBroadcast \/ Join

\* What a worker does by itself in queue_pop; a wakeup without a cause is not its
\* doing.
PopStep(w) == PopLock(w) \/ PopWait(w) \/ PopQuit(w) \/ PopHead(w) \/ PopUnlink(w)

WorkerStep(w) == PopStep(w) \/ RunTask(w)

Next == MainStep \/ \E w \in Worker : WorkerStep(w) \/ SpuriousWakeup(w)

SafeSpec == Init /\ [][Next]_vars

\* Threads keep running as long as they are in the queue's functions.  Nothing is
\* assumed of how the mutex is handed over, nor that a command returns: a worker may
\* stay in RunTask for ever.  Main need not push, nor shut the queue down.
Fairness ==
  /\ WF_vars(PushLock \/ PushLink \/ PushSignal)
  /\ WF_vars(ShutdownBroadcast)
  /\ \A w \in Worker : WF_vars(PopStep(w))

Spec == SafeSpec /\ Fairness

-----------------------------------------------------------------------------
(* Properties *)

\* Every variable has its type: pointers are NULL or Tasks, counters naturals.
TypeOK ==
  /\ head \in Task \cup {NULL} /\ tail \in Task \cup {NULL}
  /\ count \in Nat /\ shutdown \in BOOLEAN
  /\ next \in [Task -> Task \cup {NULL}]
  /\ mutex \in Thread \cup {NULL}
  /\ heap \in SUBSET Task
  /\ pc \in [Thread -> WorkerPC \cup MainPC]
  /\ \A w \in Worker : pc[w] \in WorkerPC
  /\ pc[Main] \in MainPC
  /\ task \in [Thread -> Task \cup {NULL}]
  /\ fifo \in Seq(Task)

\* The list that starts at h holds exactly the tasks of s, in that order.
Linked(h, s) ==
  /\ h = IF s = <<>> THEN NULL ELSE s[1]
  /\ \A i \in 1..Len(s) : next[s[i]] = IF i = Len(s) THEN NULL ELSE s[i + 1]

\* Whenever the mutex is free, head, tail, next and count describe the pushed
\* and not yet popped tasks in push order: the two-step link of queue_push and
\* the two-step unlink of queue_pop never lose, repeat or reorder a task, and
\* the tail is reset with the last pop so the next push starts a new list.
ListIsFifo ==
  mutex = NULL =>
    /\ Linked(head, fifo)
    /\ tail = IF fifo = <<>> THEN NULL ELSE fifo[Len(fifo)]
    /\ count = Len(fifo)

\* A task is freed by nobody while it is queued or in a thread's hands, and no
\* two holders share it: free(task) in worker_thread is the only free and comes
\* after the last use.
OneHolderPerTask ==
  /\ \A i \in 1..Len(fifo) : fifo[i] \in heap
  /\ \A i, j \in 1..Len(fifo) : fifo[i] = fifo[j] => i = j
  /\ \A th \in Thread : task[th] # NULL => task[th] \in heap
  /\ \A a, b \in Thread : task[a] # NULL /\ task[a] = task[b] => a = b
  /\ \A th \in Thread, i \in 1..Len(fifo) :
       task[th] = fifo[i] => i = 1 /\ pc[th] = "unlink"

\* While a worker sleeps, at least as many workers are on their way to the queue
\* as there are tasks in it: one signal per push, sent after the task is
\* linked, loses no wakeup, whatever wakeups others steal.
WakeupsCoverTasks ==
  (\E w \in Worker : pc[w] = "wait")
    => Len(fifo) <= Cardinality({w \in Worker : pc[w] \in {"pop", "test", "unlink"}})

\* A worker leaves only from a queue that is shut down and empty, and nothing is
\* pushed afterwards: shutting down drops no task.
ExitMeansDrained ==
  (\E w \in Worker : pc[w] = "exit") => shutdown /\ fifo = <<>>

\* The pool's promise: the same behaviour as WorkPool, the queue being the list.
Pool == INSTANCE WorkPool WITH
  queue <- fifo,
  running <- [w \in Worker |-> IF pc[w] = "run" THEN task[w] ELSE NULL],
  closed <- shutdown,
  left <- {w \in Worker : pc[w] = "exit"}

\* Every pushed task is taken by some worker, unless in the end every worker is in a
\* command that does not return: as long as one comes back, the queue, its signals and
\* the workers that are still there lose no task.
EveryTaskIsTaken ==
  \/ <>[](\A w \in Worker : pc[w] = "run")
  \/ \A t \in Task :
       (\E i \in 1..Len(fifo) : fifo[i] = t) ~> (\E w \in Worker : pc[w] = "run" /\ task[w] = t)
=============================================================================
