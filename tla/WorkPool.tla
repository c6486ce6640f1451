------------------------------ MODULE WorkPool ------------------------------
(***************************************************************************)
(* What the thread pool of ch16-threadpool.c promises, without its linked  *)
(* list, mutex or condition variable: tasks are taken in the order they    *)
(* were submitted, each by one worker, and once the pool is closed the     *)
(* workers leave only when nothing is queued any more.                     *)
(***************************************************************************)
EXTENDS Sequences

CONSTANTS Worker,  \* the threads that take tasks
          Task,    \* the tasks
          NULL     \* no task

VARIABLES queue,   \* the submitted tasks nobody has taken, oldest first
          running, \* running[w]: the task worker w executes, or NULL
          closed,  \* no task is submitted any more
          left     \* the workers that have returned

vars == <<queue, running, closed, left>>

Init ==
  /\ queue = <<>>
  /\ running = [w \in Worker |-> NULL]
  /\ closed = FALSE
  /\ left = {}

Submit(t) ==
  /\ ~closed
  /\ \A i \in DOMAIN queue : queue[i] # t
  /\ \A w \in Worker : running[w] # t
  /\ queue' = Append(queue, t)
  /\ UNCHANGED <<running, closed, left>>

Take(w) ==
  /\ running[w] = NULL
  /\ w \notin left
  /\ queue # <<>>
  /\ running' = [running EXCEPT ![w] = Head(queue)]
  /\ queue' = Tail(queue)
  /\ UNCHANGED <<closed, left>>

Finish(w) ==
  /\ running[w] # NULL
  /\ running' = [running EXCEPT ![w] = NULL]
  /\ UNCHANGED <<queue, closed, left>>

Close ==
  /\ ~closed
  /\ closed' = TRUE
  /\ UNCHANGED <<queue, running, left>>

Leave(w) ==
  /\ closed
  /\ queue = <<>>
  /\ running[w] = NULL
  /\ w \notin left
  /\ left' = left \cup {w}
  /\ UNCHANGED <<queue, running, closed>>

Next ==
  \/ \E t \in Task : Submit(t)
  \/ Close
  \/ \E w \in Worker : Take(w) \/ Finish(w) \/ Leave(w)

SafeSpec == Init /\ [][Next]_vars

\* A pool with tasks and a worker that runs none keeps taking them, and a closed,
\* empty pool lets every worker go that comes back from its task.  Nothing is promised
\* of the tasks: one may run for ever.
Fairness ==
  /\ WF_vars(\E w \in Worker : Take(w))
  /\ \A w \in Worker : WF_vars(Leave(w))

Spec == SafeSpec /\ Fairness
=============================================================================
