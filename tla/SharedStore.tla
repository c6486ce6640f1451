----------------------------- MODULE SharedStore -----------------------------
(***************************************************************************)
(* The key-value store of ch16-threadpool.c: the array store[0..key_count) *)
(* guarded by store_mutex, the command handlers the worker threads run on  *)
(* it, and the cleanup main runs on it every few seconds.                  *)
(*                                                                         *)
(* A handler is split at the lock, between the search for the key and the  *)
(* use of the index it found, and at the unlock, so that the mutex is what *)
(* makes it atomic; and after the unlock where it still reads the store.   *)
(* Replies are the values sent, not their text.  PING, unknown commands    *)
(* and malformed arguments touch no shared state and are left out.         *)
(***************************************************************************)
EXTENDS Integers, Sequences, FiniteSets, SequencesExt

CONSTANTS Worker,   \* the pool's threads
          Main,     \* the thread that runs main
          Key, Value,
          Seconds,  \* the positive seconds of EXPIRE
          Op,       \* the commands the clients send
          MaxKeys,  \* MAX_KEYS
          Period,   \* cleanup runs when more than this many seconds passed
          MaxTime,  \* bound of the clock, for TLC
          NULL      \* the holder of a free mutex

ASSUME StoreAssumption ==
  /\ IsFiniteSet(Worker) /\ Main \notin Worker /\ NULL \notin Worker \cup {Main}
  /\ Seconds \subseteq Nat \ {0}
  /\ MaxKeys \in Nat \ {0} /\ Period \in Nat /\ MaxTime \in Nat \ {0}

VARIABLES store,    \* store[0..key_count-1], key_count being its length
          now,      \* time(NULL), in seconds
          mutex,    \* the thread that holds store_mutex, or NULL
          pc,       \* where each thread is
          cmd,      \* cmd[w]: the command of w's task
          idx,      \* idx[th]: the index found, 0 for -1; the cleanup's i
          reply,    \* reply[w]: what w replies to the command
          noTtl,    \* noTtl[w]: the "No TTL" number of w's INFO reply
          last,     \* main's last_cleanup
          start     \* main's local now: when its last cleanup began

local == <<cmd, idx, reply, noTtl>>
vars == <<store, now, mutex, pc, local, last, start>>

Thread == Worker \cup {Main}
WorkerPC == {"idle", "lock", "find", "apply", "unlock", "noTtl", "keys",
             "cleanlock", "scan", "list"}
MainPC == {"loop", "cleanlock", "scan"}

\* The map the array stands for, and how far a thread is with its command.
AsMap ==
  [k \in {store[i].key : i \in DOMAIN store} |->
     LET e == store[CHOOSE i \in DOMAIN store : store[i].key = k]
     IN  [value |-> e.value, expire |-> e.expire]]

Phase ==
  [w \in Worker |->
     CASE pc[w] = "idle" -> "idle"
       [] pc[w] \in {"unlock", "noTtl", "keys"} -> "done"
       [] OTHER -> "called"]

\* The promise, and its commands and replies.
Lazy == INSTANCE LazyMap WITH Client <- Worker, map <- AsMap, phase <- Phase

Init ==
  /\ store = <<>> /\ now = 1 /\ mutex = NULL
  /\ pc = [th \in Thread |-> IF th = Main THEN "loop" ELSE "idle"]
  /\ cmd = [w \in Worker |-> Lazy!NoCommand]
  /\ idx = [th \in Thread |-> 0]
  /\ reply = [w \in Worker |-> Lazy!None]
  /\ noTtl = [w \in Worker |-> 0]
  /\ last = 1 /\ start = 1

Goto(th, l) == pc' = [pc EXCEPT ![th] = l]
At(w, l, ops) == pc[w] = l /\ cmd[w].op \in ops
Expired(e) == e.expire > 0 /\ now > e.expire

-----------------------------------------------------------------------------
(* The steps every handler shares *)

\* execute_command reads the task's command and calls its handler.
Begin(w) ==
  /\ pc[w] = "idle"
  /\ \E c \in Lazy!Command : cmd' = [cmd EXCEPT ![w] = c]
  /\ Goto(w, "lock")
  /\ UNCHANGED <<store, now, mutex, idx, reply, noTtl, last, start>>

\* Mistake: the mutex excludes nobody.
Lock_NoExclusion(w) ==
  /\ pc[w] = "lock"
  /\ mutex' = w
  /\ Goto(w, IF cmd[w].op \in {"SET", "EXPIRE", "TTL", "PERSIST"} THEN "find"
             ELSE IF cmd[w].op = "KEYS" THEN "cleanlock" ELSE "apply")
  /\ UNCHANGED <<store, now, local, last, start>>

\* pthread_mutex_lock(&store_mutex).  KEYS goes on to cleanup_expired_keys.
Lock(w) ==
  /\ pc[w] = "lock"
  /\ mutex = NULL /\ mutex' = w
  /\ Goto(w, IF cmd[w].op \in {"SET", "EXPIRE", "TTL", "PERSIST"} THEN "find"
             ELSE IF cmd[w].op = "KEYS" THEN "cleanlock" ELSE "apply")
  /\ UNCHANGED <<store, now, local, last, start>>

\* The first entry with the key, 0 for none.
IndexOf(k) ==
  LET found == {i \in DOMAIN store : store[i].key = k}
  IN  IF found = {} THEN 0 ELSE CHOOSE i \in found : \A j \in found : i <= j

\* The search loop of SET, EXPIRE, TTL and PERSIST: it does not look at
\* expire_time.
Find(w) ==
  /\ pc[w] = "find"
  /\ idx' = [idx EXCEPT ![w] = IndexOf(cmd[w].key)]
  /\ Goto(w, "apply")
  /\ UNCHANGED <<store, now, mutex, cmd, reply, noTtl, last, start>>

\* A handler's effect on the store, and its reply.
Apply(w, s, r) ==
  /\ store' = s
  /\ reply' = [reply EXCEPT ![w] = r]
  /\ Goto(w, "unlock")
  /\ UNCHANGED <<now, mutex, cmd, idx, noTtl, last, start>>

\* The handler returns, and its locals are gone.
Return(w) ==
  /\ cmd' = [cmd EXCEPT ![w] = Lazy!NoCommand]
  /\ idx' = [idx EXCEPT ![w] = 0]
  /\ reply' = [reply EXCEPT ![w] = Lazy!None]
  /\ noTtl' = [noTtl EXCEPT ![w] = 0]
  /\ Goto(w, "idle")

\* Mistake: a handler returns early on a missing key and keeps the mutex.
Unlock_MissLeaks(w) ==
  /\ pc[w] = "unlock"
  /\ mutex' = IF reply[w] \in {Lazy!Nil, Lazy!Number(0)} THEN mutex ELSE NULL
  /\ IF cmd[w].op = "INFO" THEN Goto(w, "noTtl") /\ UNCHANGED local ELSE Return(w)
  /\ UNCHANGED <<store, now, last, start>>

\* pthread_mutex_unlock; INFO goes on without the mutex.
Unlock(w) ==
  /\ pc[w] = "unlock"
  /\ mutex' = NULL
  /\ IF cmd[w].op = "INFO" THEN Goto(w, "noTtl") /\ UNCHANGED local ELSE Return(w)
  /\ UNCHANGED <<store, now, last, start>>

-----------------------------------------------------------------------------
(* The handlers, with the mutex held *)

\* Mistake: an off-by-one in the capacity check.
SetApply_OneMore(w) ==
  LET i == idx[w]
      e == [key |-> cmd[w].key, value |-> cmd[w].value, expire |-> 0]
  IN  /\ At(w, "apply", {"SET"})
      /\ \/ i # 0 /\ Apply(w, [store EXCEPT ![i].value = cmd[w].value], Lazy!Okay)
         \/ i = 0 /\ Len(store) <= MaxKeys /\ Apply(w, Append(store, e), Lazy!Okay)
         \/ i = 0 /\ Len(store) > MaxKeys /\ Apply(w, store, Lazy!Full)

\* handle_set: an entry that is there keeps its expire_time.
SetApply(w) ==
  LET i == idx[w]
      e == [key |-> cmd[w].key, value |-> cmd[w].value, expire |-> 0]
  IN  /\ At(w, "apply", {"SET"})
      /\ \/ i # 0 /\ Apply(w, [store EXCEPT ![i].value = cmd[w].value], Lazy!Okay)
         \/ i = 0 /\ Len(store) < MaxKeys /\ Apply(w, Append(store, e), Lazy!Okay)
         \/ i = 0 /\ Len(store) >= MaxKeys /\ Apply(w, store, Lazy!Full)

\* handle_get: search, expiry check and removal are one loop.
GetApply(w) ==
  LET i == IndexOf(cmd[w].key)
  IN  /\ At(w, "apply", {"GET"})
      /\ \/ i = 0 /\ Apply(w, store, Lazy!Nil)
         \/ i # 0 /\ Expired(store[i]) /\ Apply(w, RemoveAt(store, i), Lazy!Nil)
         \/ i # 0 /\ ~Expired(store[i]) /\ Apply(w, store, Lazy!Bulk(store[i].value))

\* handle_expire: non-positive seconds persist the key.
ExpireApply(w) ==
  LET i == idx[w]
      until == IF cmd[w].secs = 0 THEN 0 ELSE now + cmd[w].secs
  IN  /\ At(w, "apply", {"EXPIRE"})
      /\ \/ i = 0 /\ Apply(w, store, Lazy!Number(0))
         \/ i # 0 /\ Apply(w, [store EXCEPT ![i].expire = until], Lazy!Number(1))

\* Mistake: a key in its last second counts as expired.
TtlApply_LastSecond(w) ==
  LET i == idx[w]
      ttl == store[i].expire - now
  IN  /\ At(w, "apply", {"TTL"})
      /\ \/ i = 0 /\ Apply(w, store, Lazy!Number(-2))
         \/ i # 0 /\ store[i].expire = 0 /\ Apply(w, store, Lazy!Number(-1))
         \/ i # 0 /\ store[i].expire # 0 /\ ttl > 0 /\ Apply(w, store, Lazy!Number(ttl))
         \/ i # 0 /\ store[i].expire # 0 /\ ttl <= 0 /\ Apply(w, RemoveAt(store, i), Lazy!Number(-2))

\* handle_ttl: a key whose time has passed is removed.
TtlApply(w) ==
  LET i == idx[w]
      ttl == store[i].expire - now
  IN  /\ At(w, "apply", {"TTL"})
      /\ \/ i = 0 /\ Apply(w, store, Lazy!Number(-2))
         \/ i # 0 /\ store[i].expire = 0 /\ Apply(w, store, Lazy!Number(-1))
         \/ i # 0 /\ store[i].expire # 0 /\ ttl >= 0 /\ Apply(w, store, Lazy!Number(ttl))
         \/ i # 0 /\ store[i].expire # 0 /\ ttl < 0 /\ Apply(w, RemoveAt(store, i), Lazy!Number(-2))

\* handle_persist
PersistApply(w) ==
  LET i == idx[w]
  IN  /\ At(w, "apply", {"PERSIST"})
      /\ \/ i = 0 /\ Apply(w, store, Lazy!Number(0))
         \/ i # 0 /\ Apply(w, [store EXCEPT ![i].expire = 0], Lazy!Number(1))

\* handle_flushall: key_count = 0.
FlushApply(w) ==
  /\ At(w, "apply", {"FLUSHALL"})
  /\ Apply(w, <<>>, Lazy!Okay)

\* handle_info counts the entries with a time to live under the mutex...
InfoCount(w) ==
  /\ At(w, "apply", {"INFO"})
  /\ Apply(w, store, Lazy!Number(Cardinality({i \in DOMAIN store : store[i].expire > 0})))

\* ... and reads key_count twice after the unlock, for the arguments of
\* snprintf: C leaves their order open, and gcc loads the last one first.
InfoNoTtl(w) ==
  /\ pc[w] = "noTtl"
  /\ noTtl' = [noTtl EXCEPT ![w] = Len(store) - reply[w].n]
  /\ Goto(w, "keys")
  /\ UNCHANGED <<store, now, mutex, cmd, idx, reply, last, start>>

\* "Keys:" is the key_count of this step.
InfoKeys(w) ==
  /\ pc[w] = "keys"
  /\ Return(w)
  /\ UNCHANGED <<store, now, mutex, last, start>>

-----------------------------------------------------------------------------
(* cleanup_expired_keys, called by main's loop and by handle_keys *)

\* if (now - last_cleanup > 5): now is read at the top of the loop.
CleanupDue ==
  /\ pc[Main] = "loop"
  /\ now - last > Period
  /\ start' = now
  /\ Goto(Main, "cleanlock")
  /\ UNCHANGED <<store, now, mutex, local, last>>

\* The cleanup takes the mutex itself.  A worker that runs KEYS holds it already:
\* store_mutex is not recursive, so its second lock never returns, and what
\* handle_keys does after the cleanup is never reached.
CleanupLock(th) ==
  /\ pc[th] = "cleanlock"
  /\ mutex = NULL /\ mutex' = th
  /\ idx' = [idx EXCEPT ![th] = 1]
  /\ Goto(th, "scan")
  /\ UNCHANGED <<store, now, cmd, reply, noTtl, last, start>>

\* Mistake: the index moves on after a removal and skips an entry.
CleanupStep_Skip(th) ==
  /\ pc[th] = "scan" /\ idx[th] <= Len(store)
  /\ store' = IF Expired(store[idx[th]]) THEN RemoveAt(store, idx[th]) ELSE store
  /\ idx' = [idx EXCEPT ![th] = @ + 1]
  /\ UNCHANGED <<now, mutex, pc, cmd, reply, noTtl, last, start>>

\* One round of the loop: it reads the clock, and removes the entry or moves on.
CleanupStep(th) ==
  /\ pc[th] = "scan" /\ idx[th] <= Len(store)
  /\ IF Expired(store[idx[th]])
     THEN store' = RemoveAt(store, idx[th]) /\ UNCHANGED idx
     ELSE idx' = [idx EXCEPT ![th] = @ + 1] /\ UNCHANGED store
  /\ UNCHANGED <<now, mutex, pc, cmd, reply, noTtl, last, start>>

\* The loop ends; in main, last_cleanup = now follows.
CleanupUnlock(th) ==
  /\ pc[th] = "scan" /\ idx[th] > Len(store)
  /\ mutex' = NULL
  /\ last' = IF th = Main THEN start ELSE last
  /\ idx' = [idx EXCEPT ![th] = 0]
  /\ Goto(th, IF th = Main THEN "loop" ELSE "list")
  /\ UNCHANGED <<store, now, cmd, reply, noTtl, start>>

Tick ==
  /\ now < MaxTime
  /\ now' = now + 1
  /\ UNCHANGED <<store, mutex, pc, local, last, start>>

-----------------------------------------------------------------------------
Cleanup(th) == CleanupLock(th) \/ CleanupStep(th) \/ CleanupUnlock(th)

Handler(w) ==
  \/ Lock(w) \/ Find(w) \/ Unlock(w)
  \/ SetApply(w) \/ GetApply(w) \/ ExpireApply(w) \/ TtlApply(w)
  \/ PersistApply(w) \/ FlushApply(w)
  \/ InfoCount(w) \/ InfoNoTtl(w) \/ InfoKeys(w)

Next ==
  \/ \E w \in Worker : Begin(w) \/ Handler(w)
  \/ CleanupDue
  \/ \E th \in Thread : Cleanup(th)
  \/ Tick

SafeSpec == Init /\ [][Next]_vars

\* Threads run, and a thread that waits for the mutex gets it in the end.
Fairness ==
  /\ WF_vars(Tick)
  /\ WF_vars(CleanupDue) /\ SF_vars(CleanupLock(Main))
  /\ WF_vars(CleanupStep(Main) \/ CleanupUnlock(Main))
  /\ \A w \in Worker : SF_vars(Lock(w)) /\ WF_vars(Handler(w)) /\ SF_vars(CleanupLock(w))

Spec == SafeSpec /\ Fairness

-----------------------------------------------------------------------------
(* Properties *)

Entry == [key : Key, value : Value, expire : Nat]

TypeOK ==
  /\ store \in Seq(Entry) /\ Len(store) <= MaxKeys
  /\ now \in 1..MaxTime /\ last \in 1..MaxTime /\ start \in 1..MaxTime
  /\ mutex \in Thread \cup {NULL}
  /\ pc \in [Thread -> WorkerPC \cup MainPC]
  /\ \A w \in Worker : pc[w] \in WorkerPC
  /\ pc[Main] \in MainPC
  /\ cmd \in [Worker -> Lazy!Command \cup {Lazy!NoCommand}]
  /\ idx \in [Thread -> Nat]
  /\ reply \in [Worker -> Lazy!Reply]
  /\ noTtl \in [Worker -> Int]

\* No key has two entries: two workers that SET the same new key do not both
\* append it, whatever the order of their searches and appends.
UniqueKeys == \A i, j \in DOMAIN store : store[i].key = store[j].key => i = j

\* The index a handler found still names its key when the handler uses it, and a
\* key it did not find is still absent: no removal of another thread shifts the
\* entries in between.
IndexFresh ==
  \A w \in Worker :
    At(w, "apply", {"SET", "EXPIRE", "TTL", "PERSIST"}) =>
      idx[w] = IndexOf(cmd[w].key)

\* Behind the cleanup's index no entry had expired when the cleanup began, so that
\* when it ends every key that was expired at its start is gone.
CleanupLeavesNone ==
  pc[Main] = "scan" =>
    \A i \in DOMAIN store :
      i < idx[Main] => store[i].expire = 0 \/ start <= store[i].expire

\* Every command takes effect at one instant: the array, its lock and its threads
\* behave as the atomic lazy map.
LazySpec == Lazy!Spec

\* A command a client sends is answered (README.md lists KEYS among the commands
\* supported).
CommandsAnswered == \A w \in Worker : (pc[w] = "lock") ~> (pc[w] = "idle")

\* An entry whose time passes early enough for one more cleanup goes away or gets
\* a new time: the periodic cleanup gets the mutex from the workers and misses
\* nothing.
Lingers(k) ==
  \E i \in DOMAIN store :
    store[i].key = k /\ store[i].expire \in 1..(MaxTime - Period - 1)

ExpiredLeaves == \A k \in Key : Lingers(k) ~> ~Lingers(k)

\* A SET that replies +OK makes its key readable: handle_set then logs
\* "SET key = value".
SetTakesEffect ==
  [][\A w \in Worker :
       SetApply(w) /\ reply'[w] = Lazy!Okay =>
         \E i \in DOMAIN store' :
           /\ store'[i].key = cmd[w].key /\ store'[i].value = cmd[w].value
           /\ store'[i].expire = 0 \/ now <= store'[i].expire]_vars

\* The three numbers of an INFO reply, which handle_info labels Keys, With TTL and
\* No TTL, describe one store: the keys are those with and those without.
InfoConsistent ==
  [][\A w \in Worker :
       InfoKeys(w) => noTtl[w] >= 0 /\ Len(store) = reply[w].n + noTtl[w]]_vars
=============================================================================
