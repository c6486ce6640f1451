---------------------------- MODULE MCTaskQueue ----------------------------
(* Small instances of the ch16 task queue for TLC. *)
EXTENDS TaskQueue, TLC

Symmetry == Permutations(Worker) \cup Permutations(Task)

PoolSpec == Pool!Spec
=============================================================================
