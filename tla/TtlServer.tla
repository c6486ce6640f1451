----------------------------- MODULE TtlServer -----------------------------
(***************************************************************************)
(* The single-threaded server of ch14-ttl.c: the array store[0..key_count),*)
(* the handlers, the lazy removal in find_key and get_ttl, and the main    *)
(* loop that cleans up every few seconds between two calls of epoll_wait.  *)
(*                                                                         *)
(* One thread runs, but time passes while it does.  A handler is split     *)
(* wherever it reads the clock again: EXPIRE and TTL after find_key, KEYS  *)
(* and the cleanup at every entry.  PING, unknown commands and malformed   *)
(* arguments touch no state and are left out, as are the sockets.          *)
(***************************************************************************)
EXTENDS Integers, Sequences, FiniteSets, SequencesExt

CONSTANTS Key, Value,
          Seconds,  \* the positive seconds of EXPIRE
          MaxKeys,  \* MAX_KEYS
          Period,   \* cleanup runs when more than this many seconds passed
          MaxTime   \* bound of the clock, for TLC

\* Keys fill char key[MAX_KEY_LEN] at most: there are finitely many.
ASSUME TtlAssumption ==
  /\ IsFiniteSet(Key)
  /\ Seconds \subseteq Nat \ {0}
  /\ MaxKeys \in Nat \ {0} /\ Period \in Nat /\ MaxTime \in Nat \ {0}

VARIABLES store,    \* store[0..key_count-1], key_count being its length
          now,      \* time(NULL)
          pc,       \* where main is
          cmd,      \* the command being executed
          idx,      \* the index find_key returned, or the cleanup's i
          last,     \* last_cleanup
          start,    \* now, as the cleanup under way began
          reply,    \* the last command answered, and the answer
          seen      \* history: the keys that were live when KEYS was called

vars == <<store, now, pc, cmd, idx, last, start, reply, seen>>

Entry == [key : Key, value : Value, expire : Nat]
PC == {"loop", "clean", "wait", "expire", "ttl", "keys"}

Expired(e) == e.expire > 0 /\ now > e.expire

\* The entries that count: those whose time has not passed, and the one that
\* EXPIRE is about to give a new time.
Alive == {e \in ToSet(store) : ~Expired(e) \/ (pc = "expire" /\ e = store[idx])}

\* The map they make up, and the command under way: a TTL has not taken effect yet.
AsMap ==
  [k \in {e.key : e \in Alive} |->
     LET e == CHOOSE d \in Alive : d.key = k IN [value |-> e.value, expire |-> e.expire]]

Pending == IF pc = "ttl" THEN [op |-> "NONE"] ELSE cmd

\* The promise.
Ideal == INSTANCE ExpiringMap WITH data <- AsMap, current <- Pending

Init ==
  /\ store = <<>> /\ now = 1
  /\ pc = "loop" /\ cmd = Ideal!NoCommand /\ idx = 0
  /\ last = 1 /\ start = 1
  /\ reply = [to |-> Ideal!NoCommand, is |-> Ideal!Nil]
  /\ seen = {}

-----------------------------------------------------------------------------
(* find_key *)

\* The first entry with the key, 0 for none.
IndexOf(k) ==
  LET found == {i \in DOMAIN store : store[i].key = k}
  IN  IF found = {} THEN 0 ELSE CHOOSE i \in found : \A j \in found : i <= j

\* The index find_key returns, 0 for -1: an expired entry is not found...
Found(k) ==
  LET i == IndexOf(k) IN IF i # 0 /\ Expired(store[i]) THEN 0 ELSE i

\* ... and removed from the array.
AfterFind(k) ==
  LET i == IndexOf(k) IN IF i # 0 /\ Expired(store[i]) THEN RemoveAt(store, i) ELSE store

-----------------------------------------------------------------------------
(* The handlers, called when main reads a command *)

\* A handler that reads the clock once runs in one step: the store becomes s, the
\* answer is r.
Run(c, s, r) ==
  /\ pc = "wait"
  /\ store' = s
  /\ Ideal!Answer(c, r)
  /\ UNCHANGED <<now, pc, cmd, idx, last, start, seen>>

\* The command of a handler that goes on, from index i.
Start(c, l, i) ==
  /\ pc = "wait" /\ pc' = l
  /\ cmd' = c /\ idx' = i
  /\ UNCHANGED <<now, last, start, reply>>

\* The rest of that handler: answer r, and back to the read loop.
Finish(r) ==
  /\ Ideal!Answer(cmd, r)
  /\ pc' = "wait" /\ cmd' = Ideal!NoCommand /\ idx' = 0
  /\ UNCHANGED <<now, last, start>>

\* Mistake: an off-by-one in the capacity check.
Set_OneMore(c) ==
  LET i == Found(c.key)
      s == AfterFind(c.key)
      e == [key |-> c.key, value |-> c.value, expire |-> 0]
  IN  /\ c.op = "SET"
      /\ \/ i # 0 /\ Run(c, [s EXCEPT ![i].value = c.value], Ideal!Okay)
         \/ i = 0 /\ Len(s) <= MaxKeys /\ Run(c, Append(s, e), Ideal!Okay)
         \/ i = 0 /\ Len(s) > MaxKeys /\ Run(c, s, Ideal!Full)

\* handle_set: an entry that is there keeps its expire_time.
Set(c) ==
  LET i == Found(c.key)
      s == AfterFind(c.key)
      e == [key |-> c.key, value |-> c.value, expire |-> 0]
  IN  /\ c.op = "SET"
      /\ \/ i # 0 /\ Run(c, [s EXCEPT ![i].value = c.value], Ideal!Okay)
         \/ i = 0 /\ Len(s) < MaxKeys /\ Run(c, Append(s, e), Ideal!Okay)
         \/ i = 0 /\ Len(s) >= MaxKeys /\ Run(c, s, Ideal!Full)

Get(c) ==
  LET i == Found(c.key)
  IN  /\ c.op = "GET"
      /\ Run(c, AfterFind(c.key), IF i = 0 THEN Ideal!Nil ELSE Ideal!Bulk(store[i].value))

\* PERSIST, and EXPIRE with non-positive seconds.
Persist(c) ==
  LET i == Found(c.key)
      s == AfterFind(c.key)
  IN  /\ c.op = "PERSIST" \/ (c.op = "EXPIRE" /\ c.secs = 0)
      /\ \/ i = 0 /\ Run(c, s, Ideal!Number(0))
         \/ i # 0 /\ Run(c, [s EXCEPT ![i].expire = 0], Ideal!Number(1))

ExpireFind(c) ==
  LET i == Found(c.key)
  IN  /\ c.op = "EXPIRE" /\ c.secs > 0
      /\ \/ i = 0 /\ Run(c, AfterFind(c.key), Ideal!Number(0))
         \/ i # 0 /\ Start(c, "expire", i) /\ UNCHANGED <<store, seen>>

\* store[idx].expire_time = time(NULL) + seconds.
ExpireSet ==
  /\ pc = "expire"
  /\ store' = [store EXCEPT ![idx].expire = now + cmd.secs]
  /\ Finish(Ideal!Number(1))
  /\ UNCHANGED seen

\* get_ttl: find_key, and the answers that need no clock.
TtlFind(c) ==
  LET i == Found(c.key)
  IN  /\ c.op = "TTL"
      /\ \/ i = 0 /\ Run(c, AfterFind(c.key), Ideal!Number(-2))
         \/ i # 0 /\ store[i].expire = 0 /\ Run(c, store, Ideal!Number(-1))
         \/ i # 0 /\ store[i].expire # 0 /\ Start(c, "ttl", i) /\ UNCHANGED <<store, seen>>

\* Mistake: the second look at the clock is not acted upon.
TtlRest_Stale ==
  /\ pc = "ttl"
  /\ Finish(Ideal!Number(store[idx].expire - now))
  /\ UNCHANGED <<store, seen>>

\* The rest of get_ttl: the key may have expired since find_key looked.
TtlRest ==
  LET remaining == store[idx].expire - now
  IN  /\ pc = "ttl"
      /\ \/ remaining < 0 /\ store' = RemoveAt(store, idx) /\ Finish(Ideal!Number(-2))
         \/ remaining >= 0 /\ store' = store /\ Finish(Ideal!Number(remaining))
      /\ UNCHANGED seen

\* key_count = 0.
FlushAll(c) == c.op = "FLUSHALL" /\ Run(c, <<>>, Ideal!Okay)

\* Expired entries that are still in the array are counted.
Info(c) ==
  LET n == Cardinality({i \in DOMAIN store : store[i].expire > 0})
  IN  c.op = "INFO" /\ Run(c, store, Ideal!Counts(n, Len(store) - n))

\* handle_keys cleans up, then lists what is left without another look at the
\* clock.
KeysCall(c) ==
  /\ c.op = "KEYS"
  /\ Start(c, "keys", 1)
  /\ seen' = {e.key : e \in Alive}
  /\ UNCHANGED store

KeysList ==
  /\ pc = "keys" /\ idx > Len(store)
  /\ Finish(Ideal!List({store[i].key : i \in DOMAIN store} \cap cmd.pattern))
  /\ seen' = {}
  /\ UNCHANGED store

-----------------------------------------------------------------------------
(* cleanup_expired_keys and the loop of main *)

\* Mistake: the index moves on after a removal and skips an entry.
CleanupStep_Skip ==
  /\ pc \in {"clean", "keys"} /\ idx <= Len(store)
  /\ store' = IF Expired(store[idx]) THEN RemoveAt(store, idx) ELSE store
  /\ idx' = idx + 1
  /\ UNCHANGED <<now, pc, cmd, last, start, reply, seen>>

\* One round of the cleanup's loop, for KEYS or for main.
CleanupStep ==
  /\ pc \in {"clean", "keys"} /\ idx <= Len(store)
  /\ IF Expired(store[idx])
     THEN store' = RemoveAt(store, idx) /\ UNCHANGED idx
     ELSE idx' = idx + 1 /\ UNCHANGED store
  /\ UNCHANGED <<now, pc, cmd, last, start, reply, seen>>

\* now = time(NULL); if (now - last_cleanup > 5) cleanup_expired_keys().
CleanupDue ==
  /\ pc = "loop" /\ now - last > Period
  /\ start' = now
  /\ pc' = "clean" /\ idx' = 1
  /\ UNCHANGED <<store, now, cmd, last, reply, seen>>

\* Mistake: last_cleanup is set whether a cleanup ran or not.
CleanupNotDue_Resets ==
  /\ pc = "loop" /\ now - last <= Period
  /\ pc' = "wait" /\ last' = now /\ start' = now
  /\ UNCHANGED <<store, now, cmd, idx, reply, seen>>

CleanupNotDue ==
  /\ pc = "loop" /\ now - last <= Period
  /\ pc' = "wait"
  /\ UNCHANGED <<store, now, cmd, idx, last, start, reply, seen>>

\* last_cleanup = now.
CleanupDone ==
  /\ pc = "clean" /\ idx > Len(store)
  /\ last' = start
  /\ pc' = "wait" /\ idx' = 0
  /\ UNCHANGED <<store, now, cmd, start, reply, seen>>

\* The batch of events is dealt with, or epoll_wait timed out after a second.
NextRound ==
  /\ pc = "wait"
  /\ pc' = "loop"
  /\ UNCHANGED <<store, now, cmd, idx, last, start, reply, seen>>

Tick ==
  /\ now < MaxTime
  /\ now' = now + 1
  /\ UNCHANGED <<store, pc, cmd, idx, last, start, reply, seen>>

-----------------------------------------------------------------------------
Execute(c) ==
  \/ Set(c) \/ Get(c) \/ Persist(c) \/ ExpireFind(c) \/ TtlFind(c)
  \/ FlushAll(c) \/ Info(c) \/ KeysCall(c)

\* The steps main takes without a client.
Continue ==
  \/ ExpireSet \/ TtlRest \/ KeysList
  \/ CleanupStep \/ CleanupDue \/ CleanupNotDue \/ CleanupDone

Next == Continue \/ NextRound \/ Tick \/ \E c \in Ideal!Command : Execute(c)

SafeSpec == Init /\ [][Next]_vars

\* Main runs and time passes.  A client whose commands never stop coming would keep
\* the read loop busy for ever: NextRound assumes that none does.
Fairness == WF_vars(Continue) /\ SF_vars(NextRound) /\ WF_vars(Tick)

Spec == SafeSpec /\ Fairness

-----------------------------------------------------------------------------
(* Properties *)

TypeOK ==
  /\ store \in Seq(Entry) /\ Len(store) <= MaxKeys
  /\ now \in 1..MaxTime /\ last \in 1..MaxTime /\ start \in 1..MaxTime
  /\ pc \in PC
  /\ cmd \in Ideal!Command \cup {Ideal!NoCommand}
  /\ idx \in 0..(MaxKeys + 1)
  /\ seen \subseteq Key

\* Behind the index of main's cleanup no entry had expired when it began.
CleanupLeavesNone ==
  pc = "clean" =>
    \A i \in DOMAIN store : i < idx => store[i].expire = 0 \/ start <= store[i].expire

\* The array with its lazy and its periodic removals behaves as a map whose keys
\* vanish on time: no answer shows a key after its time, or hides it before.
IdealSpec == Ideal!Spec

\* Nothing is left in the array for ever: an entry whose time passes early enough
\* for one more cleanup goes away or gets a new time, even if no client asks.
Lingers(k) ==
  \E i \in DOMAIN store :
    store[i].key = k /\ store[i].expire \in 1..(MaxTime - Period - 1)

ExpiredLeaves == \A k \in Key : Lingers(k) ~> ~Lingers(k)
=============================================================================
