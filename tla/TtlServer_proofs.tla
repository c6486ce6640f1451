-------------------------- MODULE TtlServer_proofs --------------------------
(***************************************************************************)
(* Proofs about the server of ch14-ttl.c, for any keys, values, capacity   *)
(* and times: its type invariant, what its cleanup leaves, and that the    *)
(* array with its lazy and periodic removals implements ExpiringMap.  The  *)
(* inductive invariant adds that keys differ and what main knows of the    *)
(* command, the index and the clock between two steps of a handler.        *)
(***************************************************************************)
EXTENDS TtlServer, CommonLemmas

\* The command under way, and the entry its handler found.
CommandInv ==
  /\ pc \in {"loop", "clean", "wait"} <=> cmd = Ideal!NoCommand
  /\ pc \in {"expire", "ttl"} => idx \in DOMAIN store /\ store[idx].key = cmd.key
  /\ pc = "expire" => cmd.op = "EXPIRE" /\ cmd.secs > 0
  /\ pc = "ttl" => cmd.op = "TTL" /\ store[idx].expire > 0
  /\ pc = "keys" => cmd.op = "KEYS"

\* The cleanup's index is that of an entry or the one behind them.
CleanInv ==
  /\ pc \in {"clean", "keys"} => idx \in 1..(Len(store) + 1)
  /\ start <= now

\* KEYS meets no entry that had expired when it was called: those behind its index
\* are gone, those before it have still expired.
SeenInv ==
  /\ pc # "keys" => seen = {}
  /\ pc = "keys" =>
       \A i \in DOMAIN store : i < idx \/ ~Expired(store[i]) => store[i].key \in seen

IInv ==
  /\ TypeOK /\ KeysDiffer(store) /\ CommandInv /\ CleanInv /\ SeenInv /\ CleanupLeavesNone

-----------------------------------------------------------------------------
(* Commands and arrays *)

\* The fields of the commands.
LEMMA CommandTypes ==
  ASSUME NEW c \in Ideal!Command
  PROVE  /\ c.op \in {"SET", "EXPIRE", "GET", "TTL", "PERSIST"} => c.key \in Key
         /\ c.op = "SET" => c.value \in Value
         /\ c.op = "EXPIRE" => c.secs \in Nat
         /\ c.op # "NONE" /\ c # Ideal!NoCommand
<1> USE DEF Ideal!NoCommand
<1>0. Seconds \cup {0} \subseteq Nat
  BY TtlAssumption
<1>1. CASE c \in [op : {"SET"}, key : Key, value : Value]
  BY <1>1
<1>2. CASE c \in [op : {"EXPIRE"}, key : Key, secs : Seconds \cup {0}]
  BY <1>0, <1>2
<1>3. CASE c \in [op : {"GET", "TTL", "PERSIST"}, key : Key]
  BY <1>3
<1>4. CASE c \in [op : {"KEYS"}, pattern : {Key} \cup {{k} : k \in Key}]
  BY <1>4
<1>5. CASE c \in [op : {"FLUSHALL", "INFO"}]
  BY <1>5
<1>6. QED
  BY <1>1, <1>2, <1>3, <1>4, <1>5 DEF Ideal!Command

\* The store is an array of at most MaxKeys entries with different keys.
GoodStore(s) == s \in Seq(Entry) /\ Len(s) <= MaxKeys /\ KeysDiffer(s)

\* A good array stays good, and its set of entries changes as the array does.
LEMMA GoodChanges ==
  ASSUME NEW s, GoodStore(s)
  PROVE  /\ \A i \in DOMAIN s :
              /\ s[i] \in Entry /\ s[i] \in ToSet(s)
              /\ GoodStore(RemoveAt(s, i)) /\ Len(RemoveAt(s, i)) = Len(s) - 1
              /\ ToSet(RemoveAt(s, i)) = ToSet(s) \ {s[i]}
         /\ \A e \in Entry : e.key \notin KeysOf(s) /\ Len(s) < MaxKeys =>
              GoodStore(Append(s, e)) /\ ToSet(Append(s, e)) = ToSet(s) \cup {e}
         /\ \A i \in DOMAIN s, e \in Entry : e.key = s[i].key =>
              /\ GoodStore([s EXCEPT ![i] = e])
              /\ ToSet([s EXCEPT ![i] = e]) = (ToSet(s) \ {s[i]}) \cup {e}
<1>0. s \in Seq(Entry) /\ Len(s) <= MaxKeys /\ KeysDiffer(s) /\ MaxKeys \in Nat
  BY TtlAssumption DEF GoodStore
<1>1. Len(s) \in Nat /\ DOMAIN s = 1..Len(s)
  BY <1>0, LenProperties
<1>2. ASSUME NEW i \in DOMAIN s
      PROVE  /\ s[i] \in Entry /\ s[i] \in ToSet(s)
             /\ GoodStore(RemoveAt(s, i)) /\ Len(RemoveAt(s, i)) = Len(s) - 1
             /\ ToSet(RemoveAt(s, i)) = ToSet(s) \ {s[i]}
  <2>1. RemoveAt(s, i) \in Seq(Entry) /\ Len(RemoveAt(s, i)) = Len(s) - 1
    BY <1>0, RemoveAtProperties
  <2>2. KeysDiffer(RemoveAt(s, i))
    BY <1>0, KeysDifferRemoveAt
  <2>3. s[i] \in Entry
    BY <1>0, <1>1, ElementOfSeq
  <2>4. s[i] \in ToSet(s) /\ ToSet(RemoveAt(s, i)) = ToSet(s) \ {s[i]}
    BY <1>0, EntriesProperties
  <2>5. Len(RemoveAt(s, i)) <= MaxKeys
    BY <1>0, <1>1, <2>1
  <2>6. QED
    BY <2>1, <2>2, <2>3, <2>4, <2>5 DEF GoodStore
<1>3. ASSUME NEW e \in Entry, e.key \notin KeysOf(s), Len(s) < MaxKeys
      PROVE  GoodStore(Append(s, e)) /\ ToSet(Append(s, e)) = ToSet(s) \cup {e}
  <2>1. Append(s, e) \in Seq(Entry) /\ Len(Append(s, e)) = Len(s) + 1
    BY <1>0, AppendProperties
  <2>2. KeysDiffer(Append(s, e))
    BY <1>0, <1>3, KeysDifferAppend
  <2>3. ToSet(Append(s, e)) = ToSet(s) \cup {e}
    BY <1>0, EntriesProperties
  <2>4. Len(Append(s, e)) <= MaxKeys
    BY <1>0, <1>1, <1>3, <2>1
  <2>5. QED
    BY <2>1, <2>2, <2>3, <2>4 DEF GoodStore
<1>4. ASSUME NEW i \in DOMAIN s, NEW e \in Entry, e.key = s[i].key
      PROVE  /\ GoodStore([s EXCEPT ![i] = e])
             /\ ToSet([s EXCEPT ![i] = e]) = (ToSet(s) \ {s[i]}) \cup {e}
  <2>1. /\ [s EXCEPT ![i] = e] \in Seq(Entry) /\ Len([s EXCEPT ![i] = e]) = Len(s)
        /\ KeysDiffer([s EXCEPT ![i] = e])
    BY <1>0, <1>4, AssignProperties
  <2>2. ToSet([s EXCEPT ![i] = e]) = (ToSet(s) \ {s[i]}) \cup {e}
    BY <1>0, EntriesProperties
  <2>3. QED
    BY <1>0, <2>1, <2>2 DEF GoodStore
<1>5. QED
  BY <1>2, <1>3, <1>4

\* An assignment to an entry puts the new one in the place of the old one.
LEMMA EntriesAssign ==
  ASSUME NEW s, GoodStore(s), NEW i \in DOMAIN s, NEW e \in Entry, e.key = s[i].key
  PROVE  ToSet([s EXCEPT ![i] = e]) = (ToSet(s) \ {s[i]}) \cup {e}
<1>1. s \in Seq(Entry) /\ KeysDiffer(s)
  BY DEF GoodStore
<1>2. QED
  BY <1>1, EntriesProperties

\* An assignment to one field of an entry.
LEMMA FieldChanges ==
  ASSUME NEW s, NEW i \in DOMAIN s, s[i] \in Entry
  PROVE  /\ \A v \in Value :
              /\ [s[i] EXCEPT !.value = v] \in Entry
              /\ [s[i] EXCEPT !.value = v].key = s[i].key
              /\ [s EXCEPT ![i].value = v] = [s EXCEPT ![i] = [s[i] EXCEPT !.value = v]]
         /\ \A n \in Nat :
              /\ [s[i] EXCEPT !.expire = n] \in Entry
              /\ [s[i] EXCEPT !.expire = n].key = s[i].key
              /\ [s EXCEPT ![i].expire = n] = [s EXCEPT ![i] = [s[i] EXCEPT !.expire = n]]
<1>1. \A v \in Value :
        [s[i] EXCEPT !.value = v] \in Entry /\ [s[i] EXCEPT !.value = v].key = s[i].key
  BY DEF Entry
<1>2. \A n \in Nat :
        [s[i] EXCEPT !.expire = n] \in Entry /\ [s[i] EXCEPT !.expire = n].key = s[i].key
  BY DEF Entry
<1>3. QED
  BY <1>1, <1>2

\* The array stays good when one field of an entry changes.
LEMMA GoodAssign ==
  ASSUME NEW s, GoodStore(s), NEW i \in DOMAIN s
  PROVE  /\ \A v \in Value : GoodStore([s EXCEPT ![i].value = v])
         /\ \A n \in Nat : GoodStore([s EXCEPT ![i].expire = n])
<1>1. s[i] \in Entry
  BY GoodChanges
<1>2. ASSUME NEW e \in Entry, e.key = s[i].key PROVE GoodStore([s EXCEPT ![i] = e])
  BY <1>2, GoodChanges
<1>3. ASSUME NEW v \in Value PROVE GoodStore([s EXCEPT ![i].value = v])
  BY <1>1, <1>2, FieldChanges
<1>4. ASSUME NEW n \in Nat PROVE GoodStore([s EXCEPT ![i].expire = n])
  BY <1>1, <1>2, FieldChanges
<1>5. QED
  BY <1>3, <1>4

-----------------------------------------------------------------------------
(* find_key *)

\* The entry find_key returns has the key and has not expired, and find_key left the
\* array alone; if it returns none, no entry it left has the key.  It removes no
\* entry that has not expired.
LEMMA FindProperties ==
  ASSUME IInv, NEW k
  PROVE  /\ GoodStore(AfterFind(k))
         /\ Found(k) # 0 =>
              /\ Found(k) \in DOMAIN store /\ AfterFind(k) = store
              /\ store[Found(k)].key = k /\ ~Expired(store[Found(k)])
              /\ store[Found(k)] \in Entry
         /\ Found(k) = 0 => k \notin KeysOf(AfterFind(k))
         /\ {e \in ToSet(AfterFind(k)) : ~Expired(e)} = {e \in ToSet(store) : ~Expired(e)}
<1> DEFINE i == IndexIn(store, k)
<1>0. GoodStore(store) /\ store \in Seq(Entry) /\ KeysDiffer(store)
  BY DEF IInv, TypeOK, GoodStore
<1>1. i = IndexOf(k)
  BY DEF IndexOf, IndexIn
<1>2. /\ i \in {0} \cup DOMAIN store /\ (i # 0 <=> k \in KeysOf(store))
      /\ i # 0 => store[i].key = k
  BY <1>0, IndexInProperties
<1>3. /\ Found(k) = IF i # 0 /\ Expired(store[i]) THEN 0 ELSE i
      /\ AfterFind(k) = IF i # 0 /\ Expired(store[i]) THEN RemoveAt(store, i) ELSE store
  BY <1>1 DEF Found, AfterFind
<1> HIDE DEF i
<1>4. CASE i # 0 /\ Expired(store[i])
  <2>1. Found(k) = 0 /\ AfterFind(k) = RemoveAt(store, i) /\ i \in DOMAIN store
    BY <1>2, <1>3, <1>4
  <2>2. /\ GoodStore(RemoveAt(store, i))
        /\ ToSet(RemoveAt(store, i)) = ToSet(store) \ {store[i]}
    BY <1>0, <2>1, GoodChanges
  <2>3. KeysOf(RemoveAt(store, i)) = KeysIn(ToSet(store) \ {store[i]})
    BY <2>2, EntriesProperties DEF GoodStore
  <2>4. Keyed(ToSet(store)) /\ store[i] \in ToSet(store)
    BY <1>0, <2>1, EntriesProperties
  <2>5. k \notin KeysOf(RemoveAt(store, i))
    BY <1>2, <1>4, <2>3, <2>4 DEF KeysIn, Keyed
  <2>6. QED
    BY <1>4, <2>1, <2>2, <2>5
<1>5. CASE ~(i # 0 /\ Expired(store[i]))
  <2>1. Found(k) = i /\ AfterFind(k) = store
    BY <1>3, <1>5
  <2>2. i # 0 => store[i] \in Entry
    BY <1>0, <1>2, GoodChanges
  <2>3. QED
    BY <1>0, <1>2, <1>5, <2>1, <2>2
<1>6. QED
  BY <1>4, <1>5

-----------------------------------------------------------------------------
(* The steps preserve the invariant *)

\* A handler that runs in one step.
LEMMA RunStep ==
  ASSUME IInv, NEW c, NEW s, NEW r, Run(c, s, r), GoodStore(s)
  PROVE  IInv'
<1>1. /\ pc = "wait" /\ store' = s
      /\ UNCHANGED <<now, pc, cmd, idx, last, start, seen>>
  BY DEF Run
<1>2. TypeOK' /\ KeysDiffer(store')
  BY <1>1 DEF IInv, TypeOK, GoodStore
<1>3. CommandInv' /\ CleanInv' /\ SeenInv' /\ CleanupLeavesNone'
  BY <1>1 DEF IInv, CommandInv, CleanInv, SeenInv, CleanupLeavesNone
<1>4. QED
  BY <1>2, <1>3 DEF IInv

\* A handler that finishes.
LEMMA FinishStep ==
  ASSUME IInv, NEW r, Finish(r), GoodStore(store'), seen' = {}
  PROVE  IInv'
<1>1. /\ pc' = "wait" /\ cmd' = Ideal!NoCommand /\ idx' = 0
      /\ UNCHANGED <<now, last, start>>
  BY DEF Finish
<1>2. TypeOK' /\ KeysDiffer(store')
  BY <1>1, TtlAssumption DEF IInv, TypeOK, GoodStore, PC
<1>3. CommandInv' /\ CleanInv' /\ SeenInv' /\ CleanupLeavesNone'
  BY <1>1 DEF IInv, CommandInv, CleanInv, SeenInv, CleanupLeavesNone
<1>4. QED
  BY <1>2, <1>3 DEF IInv

\* Every command that main reads keeps the invariant.
LEMMA ExecuteStep ==
  ASSUME IInv, NEW c \in Ideal!Command, Execute(c)
  PROVE  IInv'
<1> DEFINE k == c.key
           i == Found(k)
           s == AfterFind(k)
<1>0. GoodStore(store) /\ store \in Seq(Entry) /\ Len(store) \in Nat /\ DOMAIN store = 1..Len(store)
  BY LenProperties DEF IInv, TypeOK, GoodStore
<1>1. /\ GoodStore(s)
      /\ i # 0 => /\ i \in DOMAIN store /\ s = store
                  /\ store[i].key = k /\ store[i] \in Entry
      /\ i = 0 => k \notin KeysOf(s)
  BY FindProperties
<1> HIDE DEF i, s
<1>2. CASE Set(c)
  <2> DEFINE e == [key |-> k, value |-> c.value, expire |-> 0]
  <2>1. c.op = "SET" /\ k \in Key /\ c.value \in Value
    BY <1>2, CommandTypes DEF Set
  <2>2. e \in Entry /\ e.key = k
    BY <2>1 DEF Entry
  <2>3. ASSUME i # 0 PROVE GoodStore([s EXCEPT ![i].value = c.value])
    BY <1>1, <2>1, <2>3, GoodAssign
  <2>4. ASSUME i = 0, Len(s) < MaxKeys PROVE GoodStore(Append(s, e))
    BY <1>1, <2>2, <2>4, GoodChanges
  <2>5. \/ i # 0 /\ Run(c, [s EXCEPT ![i].value = c.value], Ideal!Okay)
        \/ i = 0 /\ Len(s) < MaxKeys /\ Run(c, Append(s, e), Ideal!Okay)
        \/ Run(c, s, Ideal!Full)
    BY <1>2 DEF Set, i, s
  <2> HIDE DEF e
  <2>6. QED
    BY <1>1, <2>3, <2>4, <2>5, RunStep
<1>3. CASE Get(c)
  BY <1>1, <1>3, RunStep DEF Get, s
<1>4. CASE Persist(c)
  <2>1. ASSUME i # 0 PROVE GoodStore([s EXCEPT ![i].expire = 0])
    BY <1>1, <2>1, GoodAssign
  <2>2. \/ Run(c, s, Ideal!Number(0))
        \/ i # 0 /\ Run(c, [s EXCEPT ![i].expire = 0], Ideal!Number(1))
    BY <1>4 DEF Persist, i, s
  <2>3. QED
    BY <1>1, <2>1, <2>2, RunStep
<1>5. ASSUME NEW l \in {"expire", "ttl"}, i # 0, Start(c, l, i), UNCHANGED <<store, seen>>,
             l = "expire" => c.op = "EXPIRE" /\ c.secs > 0,
             l = "ttl" => c.op = "TTL" /\ store[i].expire # 0
      PROVE  IInv'
  <2>1. /\ pc = "wait" /\ pc' = l /\ cmd' = c /\ idx' = i
        /\ UNCHANGED <<now, last, start>>
    BY <1>5 DEF Start
  <2>2. i \in 0..(MaxKeys + 1)
    BY <1>0, <1>1, <1>5, TtlAssumption DEF GoodStore
  <2>3. TypeOK'
    BY <1>5, <2>1, <2>2 DEF IInv, TypeOK, PC
  <2>4. store[i].expire \in Nat
    BY <1>1, <1>5 DEF Entry
  <2>5. CommandInv'
    BY <1>1, <1>5, <2>1, <2>4, CommandTypes DEF CommandInv
  <2>6. KeysDiffer(store') /\ CleanInv' /\ SeenInv' /\ CleanupLeavesNone'
    BY <1>5, <2>1 DEF IInv, CleanInv, SeenInv, CleanupLeavesNone
  <2>7. QED
    BY <2>3, <2>5, <2>6 DEF IInv
<1>6. CASE ExpireFind(c)
  <2>1. \/ Run(c, s, Ideal!Number(0))
        \/ i # 0 /\ Start(c, "expire", i) /\ UNCHANGED <<store, seen>>
    BY <1>6 DEF ExpireFind, i, s
  <2>2. c.op = "EXPIRE" /\ c.secs > 0
    BY <1>6 DEF ExpireFind
  <2>3. QED
    BY <1>1, <1>5, <2>1, <2>2, RunStep
<1>7. CASE TtlFind(c)
  <2>1. \/ Run(c, s, Ideal!Number(-2))
        \/ Run(c, store, Ideal!Number(-1))
        \/ i # 0 /\ store[i].expire # 0 /\ Start(c, "ttl", i) /\ UNCHANGED <<store, seen>>
    BY <1>7 DEF TtlFind, i, s
  <2>2. c.op = "TTL"
    BY <1>7 DEF TtlFind
  <2>3. QED
    BY <1>0, <1>1, <1>5, <2>1, <2>2, RunStep
<1>8. CASE FlushAll(c)
  <2>1. GoodStore(<<>>)
    BY TtlAssumption DEF GoodStore, KeysDiffer
  <2>2. QED
    BY <1>8, <2>1, RunStep DEF FlushAll
<1>9. CASE Info(c)
  BY <1>0, <1>9, RunStep DEF Info
<1>10. CASE KeysCall(c)
  <2>1. /\ c.op = "KEYS" /\ pc = "wait" /\ pc' = "keys" /\ cmd' = c /\ idx' = 1
        /\ store' = store /\ UNCHANGED <<now, last, start>>
        /\ seen' = {e.key : e \in Alive}
    BY <1>10 DEF KeysCall, Start
  <2>2. \A j \in DOMAIN store : store[j] \in Entry /\ store[j] \in ToSet(store)
    BY <1>0, GoodChanges
  <2>3. Alive = {e \in ToSet(store) : ~Expired(e)}
    BY <2>1 DEF Alive
  <2>4. seen' \subseteq Key
    BY <2>1, <2>2, <2>3 DEF ToSet, Entry
  <2>5. TypeOK'
    BY <2>1, <2>4, TtlAssumption DEF IInv, TypeOK, PC
  <2>6. \A j \in DOMAIN store : ~Expired(store[j]) => store[j].key \in seen'
    BY <2>1, <2>2, <2>3
  <2>7. SeenInv'
    BY <1>0, <2>1, <2>6 DEF SeenInv, Expired
  <2>8. CommandInv' /\ KeysDiffer(store') /\ CleanInv' /\ CleanupLeavesNone'
    BY <1>0, <2>1, CommandTypes DEF IInv, CommandInv, CleanInv, CleanupLeavesNone
  <2>9. QED
    BY <2>5, <2>7, <2>8 DEF IInv
<1>11. QED
  BY <1>2, <1>3, <1>4, <1>6, <1>7, <1>8, <1>9, <1>10 DEF Execute

\* One round of the cleanup's loop keeps the invariant: what moves forward when an
\* entry goes lies at the index, where the cleanup looks next.
LEMMA CleanupStepStep ==
  ASSUME IInv, CleanupStep
  PROVE  IInv'
<1>0. GoodStore(store) /\ store \in Seq(Entry) /\ Len(store) \in Nat /\ DOMAIN store = 1..Len(store)
  BY LenProperties DEF IInv, TypeOK, GoodStore
<1>1. /\ pc \in {"clean", "keys"} /\ idx <= Len(store)
      /\ UNCHANGED <<now, pc, cmd, last, start, reply, seen>>
  BY DEF CleanupStep
<1>2. idx \in 1..(Len(store) + 1) /\ idx \in DOMAIN store /\ start <= now
  BY <1>0, <1>1 DEF IInv, CleanInv
<1>3. \A j \in DOMAIN store : store[j].expire \in Nat
  BY <1>0, GoodChanges DEF Entry
<1>4. now \in Nat /\ start \in Nat
  BY DEF IInv, TypeOK
<1>5. CASE Expired(store[idx])
  <2>1. store' = RemoveAt(store, idx) /\ idx' = idx
    BY <1>5 DEF CleanupStep
  <2>2. GoodStore(store') /\ Len(store') = Len(store) - 1
    BY <1>0, <1>2, <2>1, GoodChanges
  <2>3. /\ DOMAIN store' = 1..(Len(store) - 1)
        /\ \A j \in DOMAIN store' : store'[j] = IF j < idx THEN store[j] ELSE store[j + 1]
    BY <1>0, <1>2, <2>1, RemoveAtProperties
  <2>4. \A j \in DOMAIN store' : j \in DOMAIN store /\ j + 1 \in DOMAIN store
    BY <1>0, <2>3
  <2>5. TypeOK' /\ KeysDiffer(store') /\ CommandInv' /\ CleanInv'
    BY <1>0, <1>1, <1>2, <2>1, <2>2 DEF IInv, TypeOK, GoodStore, CommandInv, CleanInv
  <2>6. CleanupLeavesNone'
    BY <1>1, <2>1, <2>3, <2>4 DEF IInv, CleanupLeavesNone
  <2>7. ASSUME NEW j \in DOMAIN store', pc = "keys", j < idx \/ ~Expired(store'[j])
        PROVE  store'[j].key \in seen
    <3>1. CASE j < idx
      BY <2>3, <2>4, <2>7, <3>1 DEF IInv, SeenInv
    <3>2. CASE ~(j < idx)
      <4>1. store'[j] = store[j + 1] /\ j + 1 \in DOMAIN store /\ ~Expired(store[j + 1])
        BY <2>3, <2>4, <2>7, <3>2
      <4>2. QED
        BY <2>7, <4>1 DEF IInv, SeenInv
    <3>3. QED
      BY <3>1, <3>2
  <2>8. SeenInv'
    <3>2. pc # "keys" => seen' = {}
      BY <1>1 DEF IInv, SeenInv
    <3>3. ASSUME NEW j \in DOMAIN store', pc = "keys",
                 j < idx \/ ~(store'[j].expire > 0 /\ now > store'[j].expire)
          PROVE  store'[j].key \in seen
      BY <2>7, <3>3 DEF Expired
    <3>4. QED
      BY <1>1, <2>1, <3>2, <3>3 DEF SeenInv, Expired
  <2>9. QED
    BY <2>5, <2>6, <2>8 DEF IInv
<1>6. CASE ~Expired(store[idx])
  <2>1. store' = store /\ idx' = idx + 1
    BY <1>6 DEF CleanupStep
  <2>2. idx' \in 0..(MaxKeys + 1) /\ idx' \in 1..(Len(store) + 1)
    BY <1>0, <1>1, <1>2, <2>1, TtlAssumption DEF GoodStore
  <2>3. TypeOK' /\ KeysDiffer(store') /\ CommandInv' /\ CleanInv'
    BY <1>1, <2>1, <2>2 DEF IInv, TypeOK, CommandInv, CleanInv
  <2>4. store[idx].expire = 0 \/ start <= store[idx].expire
    BY <1>2, <1>3, <1>4, <1>6 DEF Expired
  <2>5. \A j \in DOMAIN store : j < idx + 1 => j < idx \/ j = idx
    BY <1>0, <1>2
  <2>6. CleanupLeavesNone'
    BY <1>1, <2>1, <2>4, <2>5 DEF IInv, CleanupLeavesNone
  <2>7. SeenInv'
    <3>1. ASSUME NEW j \in DOMAIN store, pc = "keys", j < idx + 1 \/ ~Expired(store[j])
          PROVE  store[j].key \in seen
      BY <1>6, <2>5, <3>1 DEF IInv, SeenInv
    <3>2. QED
      BY <1>1, <2>1, <3>1 DEF IInv, SeenInv, Expired
  <2>8. QED
    BY <2>3, <2>6, <2>7 DEF IInv
<1>7. QED
  BY <1>5, <1>6

\* The empty array has every part of the invariant.
LEMMA InitIInv == Init => IInv
<1> SUFFICES ASSUME Init PROVE IInv
  OBVIOUS
<1> USE TtlAssumption DEF Init
<1>1. TypeOK
  BY DEF TypeOK, PC
<1>2. KeysDiffer(store)
  BY DEF KeysDiffer
<1>3. CommandInv /\ CleanInv /\ SeenInv /\ CleanupLeavesNone
  BY DEF CommandInv, CleanInv, SeenInv, CleanupLeavesNone
<1>4. QED
  BY <1>1, <1>2, <1>3 DEF IInv

\* Every step keeps the invariant.
LEMMA NextIInv == IInv /\ [Next]_vars => IInv'
<1> SUFFICES ASSUME IInv, [Next]_vars PROVE IInv'
  OBVIOUS
<1>0. /\ GoodStore(store) /\ store \in Seq(Entry) /\ Len(store) \in Nat
      /\ DOMAIN store = 1..Len(store) /\ MaxTime \in Nat /\ MaxKeys \in Nat
      /\ now \in 1..MaxTime /\ start \in 1..MaxTime
  BY LenProperties, TtlAssumption DEF IInv, TypeOK, GoodStore
<1>1. ASSUME NEW c \in Ideal!Command, Execute(c) PROVE IInv'
  BY <1>1, ExecuteStep
<1>2. CASE ExpireSet
  <2>1. pc = "expire" /\ idx \in DOMAIN store /\ store[idx] \in Entry
    BY <1>0, <1>2, GoodChanges DEF ExpireSet, IInv, CommandInv
  <2>2. cmd \in Ideal!Command /\ cmd.secs \in Nat /\ now + cmd.secs \in Nat
    BY <1>0, <2>1, CommandTypes DEF IInv, TypeOK, CommandInv
  <2>3. GoodStore([store EXCEPT ![idx].expire = now + cmd.secs])
    BY <1>0, <2>1, <2>2, GoodAssign
  <2>4. seen' = {}
    BY <1>2, <2>1 DEF ExpireSet, IInv, SeenInv
  <2>5. QED
    BY <1>2, <2>3, <2>4, FinishStep DEF ExpireSet
<1>3. CASE TtlRest
  <2>1. pc = "ttl" /\ idx \in DOMAIN store /\ seen' = {}
    BY <1>3 DEF TtlRest, IInv, CommandInv, SeenInv
  <2>2. GoodStore(store')
    BY <1>0, <1>3, <2>1, GoodChanges DEF TtlRest
  <2>3. \E r : Finish(r)
    BY <1>3 DEF TtlRest
  <2>4. QED
    BY <2>1, <2>2, <2>3, FinishStep
<1>4. CASE KeysList
  BY <1>0, <1>4, FinishStep DEF KeysList
<1>5. CASE CleanupStep
  BY <1>5, CleanupStepStep
<1>6. CASE CleanupDue
  <2>1. 1 \in 0..(MaxKeys + 1) /\ 1 \in 1..(Len(store) + 1)
    BY <1>0
  <2>2. QED
    BY <1>0, <1>6, <2>1 DEF CleanupDue, IInv, TypeOK, PC, CommandInv, CleanInv, SeenInv, CleanupLeavesNone
<1>7. CASE CleanupNotDue
  BY <1>7 DEF CleanupNotDue, IInv, TypeOK, PC, CommandInv, CleanInv, SeenInv, CleanupLeavesNone
<1>8. CASE CleanupDone
  BY <1>0, <1>8 DEF CleanupDone, IInv, TypeOK, PC, CommandInv, CleanInv, SeenInv, CleanupLeavesNone
<1>9. CASE NextRound
  BY <1>9 DEF NextRound, IInv, TypeOK, PC, CommandInv, CleanInv, SeenInv, CleanupLeavesNone
<1>10. CASE Tick
  <2>1. /\ now < MaxTime /\ now' = now + 1
        /\ UNCHANGED <<store, pc, cmd, idx, last, start, reply, seen>>
    BY <1>10 DEF Tick
  <2>2. TypeOK' /\ KeysDiffer(store') /\ CommandInv' /\ CleanInv' /\ CleanupLeavesNone'
    BY <1>0, <2>1 DEF IInv, TypeOK, CommandInv, CleanInv, CleanupLeavesNone
  <2>3. ASSUME NEW i \in DOMAIN store, ~(store[i].expire > 0 /\ now + 1 > store[i].expire)
        PROVE  ~Expired(store[i])
    <3>1. store[i].expire \in Nat
      BY <1>0, GoodChanges DEF Entry
    <3>2. QED
      BY <1>0, <2>3, <3>1 DEF Expired
  <2>4. SeenInv'
    BY <2>1, <2>3 DEF IInv, SeenInv, Expired
  <2>5. QED
    BY <2>2, <2>4 DEF IInv
<1>11. CASE UNCHANGED vars
  BY <1>11 DEF vars, IInv, TypeOK, CommandInv, CleanInv, SeenInv, CleanupLeavesNone, Expired
<1>12. QED
  BY <1>1, <1>2, <1>3, <1>4, <1>5, <1>6, <1>7, <1>8, <1>9, <1>10, <1>11 DEF Next, Continue

\* The invariant holds in every state of every behaviour.
LEMMA Invariant == SafeSpec => []IInv
  BY InitIInv, NextIInv, PTL DEF SafeSpec

-----------------------------------------------------------------------------
\* The array, the clock, the command and the index have their types: in particular
\* SET never puts an entry behind the end of the array.
THEOREM TypeCorrect == SafeSpec => []TypeOK
<1>1. IInv => TypeOK
  BY DEF IInv
<1>2. QED
  BY Invariant, <1>1, PTL

\* Behind the index of the periodic cleanup no entry had expired when it began,
\* wherever the removals moved the others.
THEOREM CleanupComplete == SafeSpec => []CleanupLeavesNone
<1>1. IInv => CleanupLeavesNone
  BY DEF IInv
<1>2. QED
  BY Invariant, <1>1, PTL

-----------------------------------------------------------------------------
(* The server implements ExpiringMap *)

\* ExpiringMap counts as TtlServer does: it has an instance of FiniteSets of its own.
LEMMA SameCardinality ==
  ASSUME NEW S
  PROVE  Ideal!Cardinality(S) = Cardinality(S)
BY DEF Ideal!Cardinality, Cardinality

\* The map is that of the entries alive, which differ in their keys.
LEMMA AliveProperties ==
  ASSUME IInv
  PROVE  /\ Alive \subseteq ToSet(store) /\ ToSet(store) \subseteq Entry
         /\ Keyed(ToSet(store)) /\ Keyed(Alive)
         /\ AsMap = MapIn(Alive) /\ DOMAIN AsMap = KeysIn(Alive)
         /\ \A e \in Alive : AsMap[e.key] = Content(e)
         /\ pc # "expire" => Alive = {e \in ToSet(store) : ~Expired(e)}
<1>1. ToSet(store) \subseteq Entry /\ Keyed(ToSet(store))
  BY EntriesProperties DEF IInv, TypeOK
<1>2. Alive \subseteq ToSet(store) /\ (pc # "expire" => Alive = {e \in ToSet(store) : ~Expired(e)})
  BY DEF Alive
<1>3. Keyed(Alive)
  BY <1>1, <1>2 DEF Keyed
<1>4. AsMap = MapIn(Alive)
  BY DEF AsMap, MapIn, KeysIn, Content
<1>5. QED
  BY <1>1, <1>2, <1>3, <1>4, MapInProperties

\* The next map depends on the next entries alive alone.
LEMMA NextAlive ==
  /\ AsMap' = MapIn(Alive')
  /\ pc' # "expire" /\ now' = now => Alive' = {e \in ToSet(store') : ~Expired(e)}
<1>1. AsMap' = MapIn(Alive')
  BY DEF AsMap, MapIn, KeysIn, Content
<1>2. pc' # "expire" /\ now' = now => Alive' = {e \in ToSet(store') : ~Expired(e)}
  BY DEF Alive, Expired
<1>3. QED
  BY <1>1, <1>2

\* What find_key says of the map.
LEMMA FindInMap ==
  ASSUME IInv, pc = "wait", NEW k
  PROVE  /\ Alive = {e \in ToSet(AfterFind(k)) : ~Expired(e)}
         /\ Found(k) # 0 <=> k \in DOMAIN AsMap
         /\ Found(k) # 0 => /\ store[Found(k)] \in Alive
                            /\ AsMap[k] = Content(store[Found(k)])
<1>1. Alive = {e \in ToSet(AfterFind(k)) : ~Expired(e)} /\ DOMAIN AsMap = KeysIn(Alive)
  BY AliveProperties, FindProperties
<1>2. ASSUME Found(k) # 0
      PROVE  store[Found(k)] \in Alive /\ k \in DOMAIN AsMap /\ AsMap[k] = Content(store[Found(k)])
  <2>1. /\ Found(k) \in DOMAIN store /\ store[Found(k)].key = k /\ ~Expired(store[Found(k)])
        /\ AfterFind(k) = store
    BY <1>2, FindProperties
  <2>2. store[Found(k)] \in Alive
    BY <1>1, <2>1 DEF ToSet
  <2>3. QED
    BY <1>1, <2>1, <2>2, AliveProperties DEF KeysIn
<1>3. ASSUME Found(k) = 0 PROVE k \notin DOMAIN AsMap
  <2>1. k \notin KeysOf(AfterFind(k))
    BY <1>3, FindProperties
  <2>2. QED
    BY <1>1, <2>1 DEF KeysIn, KeysOf, ToSet
<1>4. QED
  BY <1>1, <1>2, <1>3

\* A new value or time for an entry alive is one for its key in the map.
LEMMA AliveAssign ==
  ASSUME IInv, NEW i \in DOMAIN store, store[i] \in Alive, pc = "expire" => i = idx,
         NEW e \in Entry, e.key = store[i].key, ~Expired(e)
  PROVE  store' = [store EXCEPT ![i] = e] /\ now' = now /\ pc' = "wait" =>
           AsMap' = MapPut(AsMap, e.key, Content(e))
<1>1. GoodStore(store) /\ Keyed(ToSet(store)) /\ Keyed(Alive)
  BY AliveProperties DEF IInv, TypeOK, GoodStore
<1>2. ToSet([store EXCEPT ![i] = e]) = (ToSet(store) \ {store[i]}) \cup {e}
  BY <1>1, EntriesAssign
<1> SUFFICES ASSUME store' = [store EXCEPT ![i] = e], now' = now, pc' = "wait"
             PROVE  AsMap' = MapPut(AsMap, e.key, Content(e))
  OBVIOUS
<1>3. Alive' = {d \in ToSet(store') : ~Expired(d)}
  BY NextAlive
<1>4. \A d \in ToSet(store) \ {store[i]} : d \in Alive <=> ~Expired(d)
  BY DEF Alive
<1>5. Alive' = (Alive \ {store[i]}) \cup {e}
  BY <1>2, <1>3, <1>4 DEF Alive
<1>6. QED
  BY <1>1, <1>5, AliveProperties, MapInChanges, NextAlive

\* A value that SET assigns to an entry alive.
LEMMA AliveValue ==
  ASSUME IInv, NEW i \in DOMAIN store, store[i] \in Alive, ~Expired(store[i]), pc # "expire",
         NEW v \in Value, store' = [store EXCEPT ![i].value = v], now' = now, pc' = "wait"
  PROVE  AsMap' = [AsMap EXCEPT ![store[i].key].value = v]
<1> DEFINE e == [store[i] EXCEPT !.value = v]
<1>1. store[i] \in Entry
  BY AliveProperties
<1>2. /\ e \in Entry /\ e.key = store[i].key
      /\ e.value = v /\ e.expire = store[i].expire
  BY <1>1 DEF Entry
<1>3. store' = [store EXCEPT ![i] = e]
  OBVIOUS
<1> HIDE DEF e
<1>4. ~Expired(e)
  BY <1>2 DEF Expired
<1>5. AsMap' = [AsMap EXCEPT ![store[i].key] = [value |-> v, expire |-> store[i].expire]]
  BY <1>2, <1>3, <1>4, AliveAssign DEF MapPut, Content
<1>6. [AsMap[store[i].key] EXCEPT !.value = v] = [value |-> v, expire |-> store[i].expire]
  <2>1. AsMap[store[i].key] = Content(store[i])
    BY AliveProperties
  <2>2. QED
    BY <2>1 DEF Content
<1>7. QED
  BY <1>5, <1>6

\* A time that EXPIRE or PERSIST gives to an entry alive.
LEMMA AliveTime ==
  ASSUME IInv, NEW i \in DOMAIN store, store[i] \in Alive, pc = "expire" => i = idx,
         NEW n \in Nat, n = 0 \/ now <= n,
         store' = [store EXCEPT ![i].expire = n], now' = now, pc' = "wait"
  PROVE  AsMap' = [AsMap EXCEPT ![store[i].key].expire = n]
<1> DEFINE e == [store[i] EXCEPT !.expire = n]
<1>1. store[i] \in Entry
  BY AliveProperties
<1>2. /\ e \in Entry /\ e.key = store[i].key
      /\ e.value = store[i].value /\ e.expire = n
  BY <1>1 DEF Entry
<1>3. store' = [store EXCEPT ![i] = e]
  OBVIOUS
<1> HIDE DEF e
<1>4. ~Expired(e)
  <2>1. now \in Nat
    BY TtlAssumption DEF IInv, TypeOK
  <2>2. QED
    BY <1>2, <2>1 DEF Expired
<1>5. AsMap' = [AsMap EXCEPT ![store[i].key] = [value |-> store[i].value, expire |-> n]]
  BY <1>2, <1>3, <1>4, AliveAssign DEF MapPut, Content
<1>6. [AsMap[store[i].key] EXCEPT !.expire = n] = [value |-> store[i].value, expire |-> n]
  <2>1. AsMap[store[i].key] = Content(store[i])
    BY AliveProperties
  <2>2. QED
    BY <2>1 DEF Content
<1>7. QED
  BY <1>5, <1>6

\* A handler that runs in one step is an atomic command of the map.
LEMMA RunRefines ==
  ASSUME IInv, NEW c, NEW s, NEW r, Run(c, s, r), NEW m, AsMap' = m
  PROVE  Ideal!Do(c, m, r)
<1>1. /\ pc = "wait" /\ Ideal!Answer(c, r)
      /\ UNCHANGED <<now, pc, cmd, idx, last, start, seen>>
  BY DEF Run
<1>2. Pending = Ideal!NoCommand /\ Pending' = Pending
  BY <1>1 DEF Pending, IInv, CommandInv
<1>3. QED
  BY <1>1, <1>2 DEF Ideal!Do

\* find_key itself changes nothing of the map.
LEMMA RunAfterFind ==
  ASSUME IInv, NEW c, NEW k, NEW r, Run(c, AfterFind(k), r)
  PROVE  Ideal!Do(c, AsMap, r)
<1>1. pc = "wait" /\ pc' = "wait" /\ store' = AfterFind(k) /\ now' = now
  BY DEF Run
<1>2. Alive' = Alive
  BY <1>1, FindInMap, NextAlive
<1>3. AsMap' = AsMap
  BY <1>2, NextAlive, AliveProperties
<1>4. QED
  BY <1>3, RunRefines

-----------------------------------------------------------------------------
(* The commands *)

\* SET gives a value to an entry alive or appends one; a dead one is no longer there.
LEMMA SetRefines ==
  ASSUME IInv, NEW c \in Ideal!Command, Set(c)
  PROVE  Ideal!Set(c)
<1> DEFINE k == c.key
           i == Found(k)
           s == AfterFind(k)
           e == [key |-> k, value |-> c.value, expire |-> 0]
<1>1. c.op = "SET" /\ k \in Key /\ c.value \in Value /\ pc = "wait"
  BY CommandTypes DEF Set, Run
<1>2. /\ i # 0 => /\ i \in DOMAIN store /\ s = store
                  /\ store[i].key = k /\ ~Expired(store[i]) /\ store[i] \in Entry
      /\ i = 0 => k \notin KeysOf(s)
      /\ GoodStore(s)
  BY FindProperties
<1>3. /\ i # 0 <=> k \in DOMAIN AsMap
      /\ i # 0 => store[i] \in Alive
      /\ Alive = {d \in ToSet(s) : ~Expired(d)}
  BY <1>1, FindInMap
<1>4. e \in Entry /\ e.key = k /\ Content(e) = [value |-> c.value, expire |-> 0]
  BY <1>1 DEF Entry, Content
<1>5. \/ i # 0 /\ Run(c, [s EXCEPT ![i].value = c.value], Ideal!Okay)
      \/ i = 0 /\ Len(s) < MaxKeys /\ Run(c, Append(s, e), Ideal!Okay)
      \/ i = 0 /\ Run(c, s, Ideal!Full)
  BY DEF Set
<1> HIDE DEF i, e
<1>6. ASSUME i # 0, Run(c, [s EXCEPT ![i].value = c.value], Ideal!Okay)
      PROVE  Ideal!Set(c)
  <2>1. store' = [store EXCEPT ![i].value = c.value] /\ now' = now /\ pc' = "wait"
    BY <1>1, <1>2, <1>6 DEF Run
  <2>2. AsMap' = [AsMap EXCEPT ![k].value = c.value]
    BY <1>1, <1>2, <1>3, <1>6, <2>1, AliveValue
  <2>3. Ideal!Do(c, [AsMap EXCEPT ![k].value = c.value], Ideal!Okay)
    BY <1>6, <2>2, RunRefines
  <2>4. QED
    BY <1>1, <1>3, <1>6, <2>3 DEF Ideal!Set
<1>7. ASSUME i = 0, Len(s) < MaxKeys, Run(c, Append(s, e), Ideal!Okay)
      PROVE  Ideal!Set(c)
  <2>1. store' = Append(s, e) /\ now' = now /\ pc' = "wait"
    BY <1>1, <1>7 DEF Run
  <2> HIDE DEF s
  <2>2. ToSet(store') = ToSet(s) \cup {e}
    BY <1>2, <1>4, <1>7, <2>1, GoodChanges
  <2>3. ~Expired(e)
    BY DEF Expired, e
  <2>4. Alive' = Alive \cup {e}
    BY <1>3, <2>1, <2>2, <2>3, NextAlive
  <2>5. e.key \notin KeysIn(Alive) /\ Keyed(Alive) /\ AsMap = MapIn(Alive)
    BY <1>3, <1>4, <1>7, AliveProperties
  <2>6. AsMap' = MapWith(AsMap, k, [value |-> c.value, expire |-> 0])
    BY <1>4, <2>4, <2>5, MapInChanges, NextAlive
  <2>7. Ideal!Do(c, MapWith(AsMap, k, [value |-> c.value, expire |-> 0]), Ideal!Okay)
    BY <1>7, <2>6, RunRefines
  <2>8. QED
    BY <1>1, <1>3, <1>7, <2>7 DEF Ideal!Set, MapWith
<1>8. ASSUME i = 0, Run(c, s, Ideal!Full)
      PROVE  Ideal!Set(c)
  <2>1. Ideal!Do(c, AsMap, Ideal!Full)
    BY <1>8, RunAfterFind
  <2>2. QED
    BY <1>1, <1>3, <1>8, <2>1 DEF Ideal!Set
<1>9. QED
  BY <1>5, <1>6, <1>7, <1>8

\* GET answers from the entry find_key returns.
LEMMA GetRefines ==
  ASSUME IInv, NEW c \in Ideal!Command, Get(c)
  PROVE  Ideal!Get(c)
<1> DEFINE k == c.key
           i == Found(k)
           r == IF i = 0 THEN Ideal!Nil ELSE Ideal!Bulk(store[i].value)
<1>1. c.op = "GET" /\ pc = "wait" /\ Run(c, AfterFind(k), r)
  BY DEF Get, Run
<1>2. r = IF k \in DOMAIN AsMap THEN Ideal!Bulk(AsMap[k].value) ELSE Ideal!Nil
  <2>1. (i # 0 <=> k \in DOMAIN AsMap) /\ (i # 0 => AsMap[k] = Content(store[i]))
    BY <1>1, FindInMap
  <2>2. i # 0 => AsMap[k].value = store[i].value
    BY <2>1 DEF Content
  <2>3. QED
    BY <2>1, <2>2
<1> HIDE DEF r
<1>3. Ideal!Do(c, AsMap, r)
  BY <1>1, RunAfterFind
<1>4. QED
  BY <1>1, <1>2, <1>3 DEF Ideal!Get

\* PERSIST takes the time of an entry alive away.
LEMMA PersistRefines ==
  ASSUME IInv, NEW c \in Ideal!Command, Persist(c)
  PROVE  Ideal!Persist(c)
<1> DEFINE k == c.key
           i == Found(k)
           s == AfterFind(k)
<1>1. /\ c.op = "PERSIST" \/ (c.op = "EXPIRE" /\ c.secs = 0)
      /\ \/ i = 0 /\ Run(c, s, Ideal!Number(0))
         \/ i # 0 /\ Run(c, [s EXCEPT ![i].expire = 0], Ideal!Number(1))
  BY DEF Persist
<1>2. pc = "wait"
  BY <1>1 DEF Run
<1>3. /\ i # 0 <=> k \in DOMAIN AsMap
      /\ i # 0 => /\ store[i] \in Alive /\ i \in DOMAIN store /\ s = store
                  /\ store[i].key = k
  BY <1>2, FindInMap, FindProperties
<1>4. ASSUME i = 0, Run(c, s, Ideal!Number(0)) PROVE Ideal!Persist(c)
  <2>1. Ideal!Do(c, AsMap, Ideal!Number(0))
    BY <1>4, RunAfterFind
  <2>2. QED
    BY <1>1, <1>3, <1>4, <2>1 DEF Ideal!Persist
<1> HIDE DEF i, s
<1>5. ASSUME i # 0, Run(c, [s EXCEPT ![i].expire = 0], Ideal!Number(1)) PROVE Ideal!Persist(c)
  <2>1. store' = [store EXCEPT ![i].expire = 0] /\ now' = now /\ pc' = "wait"
    BY <1>2, <1>3, <1>5 DEF Run
  <2>2. AsMap' = [AsMap EXCEPT ![k].expire = 0]
    BY <1>2, <1>3, <1>5, <2>1, AliveTime
  <2>3. Ideal!Do(c, [AsMap EXCEPT ![k].expire = 0], Ideal!Number(1))
    BY <1>5, <2>2, RunRefines
  <2>4. QED
    BY <1>1, <1>3, <1>5, <2>3 DEF Ideal!Persist
<1>6. QED
  BY <1>1, <1>4, <1>5

\* A handler that goes on from an entry it found leaves the map alone for now.
LEMMA StartKeepsMap ==
  ASSUME IInv, NEW c \in Ideal!Command, NEW l \in {"expire", "ttl", "keys"}, NEW i,
         Start(c, l, i), UNCHANGED store, l = "expire" => store[i] \in Alive
  PROVE  /\ AsMap' = AsMap /\ Pending = Ideal!NoCommand
         /\ Pending' = IF l = "ttl" THEN Ideal!NoCommand ELSE c
<1>1. /\ pc = "wait" /\ pc' = l /\ cmd' = c /\ idx' = i /\ UNCHANGED now
  BY DEF Start
<1>2. Alive' = Alive
  <2>1. Alive = {e \in ToSet(store) : ~Expired(e)}
    BY <1>1 DEF Alive
  <2>2. Alive' = {e \in ToSet(store) : ~Expired(e) \/ (l = "expire" /\ e = store[i])}
    BY <1>1 DEF Alive, Expired
  <2>3. QED
    BY <2>1, <2>2
<1>3. AsMap' = AsMap
  BY <1>2, NextAlive, AliveProperties
<1>4. QED
  BY <1>1, <1>3 DEF Pending, IInv, CommandInv, Ideal!NoCommand

\* EXPIRE with positive seconds answers 0, or keeps the key it found alive.
LEMMA ExpireFindRefines ==
  ASSUME IInv, NEW c \in Ideal!Command, ExpireFind(c)
  PROVE  Ideal!ExpireMiss(c) \/ Ideal!ExpireHit(c)
<1> DEFINE k == c.key
           i == Found(k)
<1>1. /\ c.op = "EXPIRE" /\ c.secs > 0
      /\ \/ i = 0 /\ Run(c, AfterFind(k), Ideal!Number(0))
         \/ i # 0 /\ Start(c, "expire", i) /\ UNCHANGED <<store, seen>>
  BY DEF ExpireFind
<1>2. pc = "wait"
  BY <1>1 DEF Run, Start
<1>3. /\ i # 0 <=> k \in DOMAIN AsMap
      /\ i # 0 => store[i] \in Alive
  BY <1>2, FindInMap
<1>4. ASSUME i = 0, Run(c, AfterFind(k), Ideal!Number(0)) PROVE Ideal!ExpireMiss(c)
  <2>1. Ideal!Do(c, AsMap, Ideal!Number(0))
    BY <1>4, RunAfterFind
  <2>2. QED
    BY <1>1, <1>3, <1>4, <2>1 DEF Ideal!ExpireMiss
<1> HIDE DEF i
<1>5. ASSUME i # 0, Start(c, "expire", i), UNCHANGED <<store, seen>> PROVE Ideal!ExpireHit(c)
  <2>1. AsMap' = AsMap /\ Pending = Ideal!NoCommand /\ Pending' = c
    BY <1>3, <1>5, StartKeepsMap
  <2>2. QED
    BY <1>1, <1>3, <1>5, <2>1 DEF Ideal!ExpireHit, Start
<1>6. QED
  BY <1>1, <1>4, <1>5

\* TTL answers for a key that is not there or has no time; otherwise it looks at the
\* clock again and has not taken effect yet.
LEMMA TtlFindRefines ==
  ASSUME IInv, NEW c \in Ideal!Command, TtlFind(c)
  PROVE  Ideal!Ttl(c) \/ UNCHANGED Ideal!vars
<1> DEFINE k == c.key
           i == Found(k)
<1>1. /\ c.op = "TTL"
      /\ \/ i = 0 /\ Run(c, AfterFind(k), Ideal!Number(-2))
         \/ i # 0 /\ store[i].expire = 0 /\ Run(c, store, Ideal!Number(-1))
         \/ i # 0 /\ Start(c, "ttl", i) /\ UNCHANGED <<store, seen>>
  BY DEF TtlFind
<1>2. pc = "wait"
  BY <1>1 DEF Run, Start
<1>3. /\ i # 0 <=> k \in DOMAIN AsMap
      /\ i # 0 => AsMap[k] = Content(store[i]) /\ AfterFind(k) = store
  BY <1>2, FindInMap, FindProperties
<1>4. i # 0 => AsMap[k].expire = store[i].expire
  BY <1>3 DEF Content
<1>5. ASSUME i = 0, Run(c, AfterFind(k), Ideal!Number(-2)) PROVE Ideal!Ttl(c)
  <2>1. Ideal!Do(c, AsMap, Ideal!Number(-2))
    BY <1>5, RunAfterFind
  <2>2. QED
    BY <1>1, <1>3, <1>5, <2>1 DEF Ideal!Ttl
<1>6. ASSUME i # 0, store[i].expire = 0, Run(c, store, Ideal!Number(-1)) PROVE Ideal!Ttl(c)
  <2>1. Ideal!Do(c, AsMap, Ideal!Number(-1))
    BY <1>3, <1>6, RunAfterFind
  <2>2. QED
    BY <1>1, <1>3, <1>4, <1>6, <2>1 DEF Ideal!Ttl
<1>7. ASSUME Start(c, "ttl", i), UNCHANGED <<store, seen>> PROVE UNCHANGED Ideal!vars
  <2>1. AsMap' = AsMap /\ Pending' = Pending
    BY <1>7, StartKeepsMap
  <2>2. QED
    BY <1>7, <2>1 DEF Ideal!vars, Start
<1>8. QED
  BY <1>1, <1>5, <1>6, <1>7

\* FLUSHALL empties the map.
LEMMA FlushAllRefines ==
  ASSUME IInv, NEW c \in Ideal!Command, FlushAll(c)
  PROVE  Ideal!FlushAll(c)
<1>1. c.op = "FLUSHALL" /\ Run(c, <<>>, Ideal!Okay)
  BY DEF FlushAll
<1>2. store' = <<>> /\ pc' = "wait" /\ now' = now
  BY <1>1 DEF Run
<1>3. Alive' = {}
  BY <1>2, NextAlive DEF ToSet
<1>4. AsMap' = [k \in {} |-> 0]
  BY <1>3 DEF AsMap
<1>5. Ideal!Do(c, [k \in {} |-> 0], Ideal!Okay)
  BY <1>1, <1>4, RunRefines
<1>6. QED
  BY <1>1, <1>5 DEF Ideal!FlushAll

\* KEYS begins: the keys it may list are those alive.
LEMMA KeysCallRefines ==
  ASSUME IInv, NEW c \in Ideal!Command, KeysCall(c)
  PROVE  Ideal!KeysCall(c)
<1>1. c.op = "KEYS" /\ Start(c, "keys", 1) /\ store' = store /\ seen' = KeysIn(Alive)
  BY DEF KeysCall, KeysIn
<1>2. AsMap' = AsMap /\ Pending = Ideal!NoCommand /\ Pending' = c /\ DOMAIN AsMap = KeysIn(Alive)
  BY <1>1, StartKeepsMap, AliveProperties
<1>3. QED
  BY <1>1, <1>2 DEF Ideal!KeysCall, Start

\* INFO counts as keys with a time those of the map and those that are dead and not
\* yet removed.
LEMMA InfoRefines ==
  ASSUME IInv, NEW c \in Ideal!Command, Info(c)
  PROVE  Ideal!Info(c)
<1> DEFINE E == ToSet(store)
           M == {e \in E : e.expire > 0}
           dead == M \ Alive
           n == Cardinality({i \in DOMAIN store : store[i].expire > 0})
           d == Cardinality(dead)
<1>1. c.op = "INFO" /\ Run(c, store, Ideal!Counts(n, Len(store) - n)) /\ pc = "wait"
  BY DEF Info, Run
<1>2. /\ store \in Seq(Entry) /\ KeysDiffer(store) /\ Keyed(E) /\ E \subseteq Entry
      /\ Alive = {e \in E : ~Expired(e)} /\ Keyed(Alive)
      /\ DOMAIN AsMap = KeysIn(Alive)
      /\ \A e \in Alive : AsMap[e.key] = Content(e)
  BY <1>1, AliveProperties DEF IInv, TypeOK
<1>3. IsFiniteSet(E) /\ Cardinality(E) = Len(store) /\ Cardinality(M) = n
  <2>1. /\ IsFiniteSet(KeysOf(store)) /\ Cardinality(KeysOf(store)) = Len(store)
    BY <1>2, CountKeys
  <2>2. DOMAIN store = 1..Len(store) /\ Len(store) \in Nat
    BY <1>2, LenProperties
  <2>3. IsFiniteSet(DOMAIN store) /\ Cardinality(DOMAIN store) = Len(store)
    <3>1. /\ IsFiniteSet(1..Len(store))
          /\ Cardinality(1..Len(store)) = IF 1 > Len(store) THEN 0 ELSE Len(store) - 1 + 1
      BY <2>2, FS_Interval
    <3>2. QED
      BY <2>2, <3>1
  <2>4. ASSUME NEW D \in SUBSET DOMAIN store
        PROVE  LET S == {store[i] : i \in D}
               IN  IsFiniteSet(S) /\ Cardinality(S) = Cardinality(D)
    <3> DEFINE S == {store[i] : i \in D}
               f == [i \in D |-> store[i]]
    <3>1. IsFiniteSet(D)
      BY <2>3, FS_Subset
    <3>2. f \in [D -> S] /\ \A s \in S : \E i \in D : f[i] = s
      OBVIOUS
    <3>3. \A i, j \in D : f[i] = f[j] => i = j
      BY <1>2 DEF KeysDiffer
    <3> HIDE DEF f, S
    <3>4. f \in Bijection(D, S)
      BY <3>2, <3>3, Fun_IsBij
    <3>5. QED
      BY <3>1, <3>4, FS_Bijection DEF ExistsBijection, S
  <2>5. E = {store[i] : i \in DOMAIN store}
    BY DEF ToSet
  <2>6. M = {store[i] : i \in {i \in DOMAIN store : store[i].expire > 0}}
    BY DEF ToSet
  <2>7. DOMAIN store \in SUBSET DOMAIN store
        /\ {i \in DOMAIN store : store[i].expire > 0} \in SUBSET DOMAIN store
    OBVIOUS
  <2> HIDE DEF E, M
  <2>8. QED
    BY <2>3, <2>4, <2>5, <2>6, <2>7
<1>4. /\ Ideal!Mortal = KeysIn(Alive \cap M)
      /\ DOMAIN AsMap \ Ideal!Mortal = KeysIn(E \ M)
  <2>1. ASSUME NEW e \in Alive PROVE AsMap[e.key].expire = e.expire
    <3>1. AsMap[e.key] = Content(e)
      BY <1>2
    <3>2. QED
      BY <3>1 DEF Content
  <2>2. \A e \in E : e \notin M => e \in Alive
    BY <1>2 DEF Expired
  <2>3. Ideal!Mortal = KeysIn(Alive \cap M)
    BY <1>2, <2>1 DEF Ideal!Mortal, KeysIn
  <2>4. DOMAIN AsMap \ Ideal!Mortal = KeysIn(E \ M)
    <3>1. Alive \subseteq E /\ M \subseteq E
      BY <1>2
    <3>2. KeysIn(Alive) \ KeysIn(Alive \cap M) = KeysIn(Alive \ M)
      BY <1>2 DEF KeysIn, Keyed
    <3>3. Alive \ M = E \ M
      BY <2>2, <3>1
    <3>4. QED
      BY <1>2, <2>3, <3>2, <3>3
  <2>5. QED
    BY <2>3, <2>4
<1>5. Alive \subseteq E /\ M \subseteq E /\ dead \subseteq M /\ E \ M \subseteq Alive
  BY <1>2 DEF Expired
<1> HIDE DEF E, M, n, d
<1>6. /\ IsFiniteSet(M) /\ IsFiniteSet(dead) /\ IsFiniteSet(Alive) /\ IsFiniteSet(Alive \cap M)
      /\ IsFiniteSet(E \ M)
      /\ Keyed(Alive \cap M) /\ Keyed(E \ M)
  <2>1. Alive \cap M \in SUBSET E /\ E \ M \in SUBSET E /\ dead \in SUBSET E
    BY <1>5
  <2>2. QED
    BY <1>2, <1>3, <1>5, <2>1, FS_Subset DEF Keyed
<1>7. /\ Cardinality(Ideal!Mortal) = Cardinality(Alive \cap M)
      /\ Cardinality(DOMAIN AsMap \ Ideal!Mortal) = Cardinality(E \ M)
      /\ Cardinality(DOMAIN AsMap) = Cardinality(Alive)
  BY <1>2, <1>4, <1>6, CountKeysIn
<1>8. /\ Cardinality(M) = Cardinality(Alive \cap M) + d
      /\ Cardinality(E) = Cardinality(M) + Cardinality(E \ M)
      /\ Cardinality(E) = Cardinality(Alive) + d
  <2>1. M = (Alive \cap M) \cup dead /\ (Alive \cap M) \cap dead = {}
    OBVIOUS
  <2>2. E = M \cup (E \ M) /\ M \cap (E \ M) = {}
    BY <1>5
  <2>3. E = Alive \cup dead /\ Alive \cap dead = {}
    BY <1>5
  <2>4. ASSUME NEW S, NEW T, IsFiniteSet(S), IsFiniteSet(T), S \cap T = {}
        PROVE  Cardinality(S \cup T) = Cardinality(S) + Cardinality(T)
    <3>1. Cardinality(S) \in Nat /\ Cardinality(T) \in Nat /\ Cardinality({}) = 0
      BY <2>4, FS_CardinalityType, FS_EmptySet
    <3>2. Cardinality(S \cup T) = Cardinality(S) + Cardinality(T) - Cardinality(S \cap T)
      BY <2>4, FS_Union
    <3>3. Cardinality(S \cap T) = 0
      BY <2>4, <3>1
    <3>4. QED
      BY <3>1, <3>2, <3>3
  <2> HIDE DEF dead
  <2>5. Cardinality((Alive \cap M) \cup dead) = Cardinality(Alive \cap M) + d
    BY <1>6, <2>1, <2>4 DEF d
  <2>6. Cardinality(M \cup (E \ M)) = Cardinality(M) + Cardinality(E \ M)
    BY <1>6, <2>2, <2>4
  <2>7. Cardinality(Alive \cup dead) = Cardinality(Alive) + d
    BY <1>6, <2>3, <2>4 DEF d
  <2>8. QED
    BY <2>1, <2>2, <2>3, <2>5, <2>6, <2>7
<1>9. /\ Cardinality(M) \in Nat /\ d \in Nat /\ Cardinality(Alive) \in Nat
      /\ Cardinality(E \ M) \in Nat /\ Cardinality(Alive \cap M) \in Nat /\ Cardinality(E) \in Nat
  BY <1>3, <1>6, FS_CardinalityType DEF d
<1>10. Cardinality(E) <= Cardinality(Key) /\ Cardinality(Key) \in Nat
  <2>1. Cardinality(KeysIn(E)) = Cardinality(E) /\ KeysIn(E) \in SUBSET Key
    <3>1. KeysIn(E) \in SUBSET Key
      BY <1>2 DEF KeysIn, Entry
    <3>2. QED
      BY <1>2, <1>3, <3>1, CountKeysIn
  <2>2. QED
    BY <2>1, TtlAssumption, FS_Subset, FS_CardinalityType
<1>11. /\ d \in 0..(Ideal!Cardinality(Key) - Ideal!Cardinality(DOMAIN AsMap))
       /\ n = Ideal!Cardinality(Ideal!Mortal) + d
       /\ Len(store) - n = Ideal!Cardinality(DOMAIN AsMap \ Ideal!Mortal)
  <2>1. /\ Ideal!Cardinality(Key) = Cardinality(Key)
        /\ Ideal!Cardinality(DOMAIN AsMap) = Cardinality(Alive)
        /\ Ideal!Cardinality(Ideal!Mortal) = Cardinality(Alive \cap M)
        /\ Ideal!Cardinality(DOMAIN AsMap \ Ideal!Mortal) = Cardinality(E \ M)
    BY <1>7, SameCardinality
  <2>2. d \in 0..(Cardinality(Key) - Cardinality(Alive))
    BY <1>8, <1>9, <1>10
  <2>3. n = Cardinality(Alive \cap M) + d /\ Len(store) - n = Cardinality(E \ M)
    BY <1>3, <1>8, <1>9
  <2>4. QED
    BY <2>1, <2>2, <2>3
<1>12. Ideal!Do(c, AsMap, Ideal!Counts(n, Len(store) - n))
  <2>1. store' = store /\ now' = now /\ pc' = "wait"
    BY <1>1 DEF Run
  <2>2. AsMap' = AsMap
    BY <1>1, <2>1, NextAlive, AliveProperties
  <2>3. QED
    BY <1>1, <2>2, RunRefines
<1>13. QED
  BY <1>1, <1>11, <1>12 DEF Ideal!Info

-----------------------------------------------------------------------------
(* The steps main takes without a client *)

\* EXPIRE sets the new time of the key it kept.
LEMMA ExpireSetRefines ==
  ASSUME IInv, ExpireSet
  PROVE  Ideal!ExpireSet
<1>1. /\ pc = "expire" /\ pc' = "wait" /\ cmd' = Ideal!NoCommand
      /\ store' = [store EXCEPT ![idx].expire = now + cmd.secs]
      /\ Ideal!Answer(cmd, Ideal!Number(1)) /\ UNCHANGED <<now, seen>>
  BY DEF ExpireSet, Finish
<1>2. /\ idx \in DOMAIN store /\ store[idx].key = cmd.key /\ cmd.op = "EXPIRE"
      /\ cmd \in Ideal!Command /\ now \in Nat
  BY <1>1, TtlAssumption DEF IInv, CommandInv, TypeOK
<1>3. cmd.secs \in Nat /\ now + cmd.secs \in Nat /\ now <= now + cmd.secs
  BY <1>2, CommandTypes
<1>4. store[idx] \in Alive
  BY <1>1, <1>2 DEF Alive, ToSet
<1>5. AsMap' = [AsMap EXCEPT ![cmd.key].expire = now + cmd.secs]
  BY <1>1, <1>2, <1>3, <1>4, AliveTime
<1>6. Pending = cmd /\ Pending' = Ideal!NoCommand
  BY <1>1 DEF Pending
<1>7. QED
  BY <1>1, <1>2, <1>5, <1>6 DEF Ideal!ExpireSet

\* The rest of TTL is where the command takes effect: it answers from the clock it
\* reads last, and removes the entry if that clock has passed its time.
LEMMA TtlRestRefines ==
  ASSUME IInv, TtlRest
  PROVE  Ideal!Ttl(cmd) /\ cmd \in Ideal!Command
<1> DEFINE e == store[idx]
<1>1. /\ pc = "ttl" /\ pc' = "wait" /\ cmd' = Ideal!NoCommand /\ UNCHANGED <<now, seen>>
      /\ \/ /\ e.expire - now < 0 /\ store' = RemoveAt(store, idx)
            /\ Ideal!Answer(cmd, Ideal!Number(-2))
         \/ /\ e.expire - now >= 0 /\ store' = store
            /\ Ideal!Answer(cmd, Ideal!Number(e.expire - now))
  BY DEF TtlRest, Finish
<1>2. /\ idx \in DOMAIN store /\ e.key = cmd.key /\ cmd.op = "TTL" /\ e.expire > 0
      /\ cmd \in Ideal!Command /\ now \in Nat /\ GoodStore(store)
  BY <1>1, TtlAssumption DEF IInv, CommandInv, TypeOK, GoodStore
<1>3. e \in ToSet(store) /\ e \in Entry /\ e.expire \in Nat
  BY <1>2, GoodChanges DEF Entry
<1>4. Pending = Ideal!NoCommand /\ Pending' = Ideal!NoCommand
  BY <1>1 DEF Pending, Ideal!NoCommand
<1>5. /\ Alive = {d \in ToSet(store) : ~Expired(d)} /\ Keyed(ToSet(store))
      /\ DOMAIN AsMap = KeysIn(Alive) /\ \A d \in Alive : AsMap[d.key] = Content(d)
      /\ AsMap = MapIn(Alive)
      /\ AsMap' = MapIn(Alive') /\ Alive' = {d \in ToSet(store') : ~Expired(d)}
  BY <1>1, AliveProperties, NextAlive
<1>6. e \in Alive <=> ~(e.expire - now < 0)
  BY <1>2, <1>3, <1>5 DEF Expired
<1>7. cmd.key \in DOMAIN AsMap <=> e \in Alive
  BY <1>2, <1>3, <1>5 DEF KeysIn, Keyed
<1> HIDE DEF e
<1>8. CASE e.expire - now < 0
  <2>1. store' = RemoveAt(store, idx) /\ Ideal!Answer(cmd, Ideal!Number(-2))
    BY <1>1, <1>2, <1>3, <1>8
  <2>2. ToSet(store') = ToSet(store) \ {e}
    BY <1>2, <2>1, GoodChanges DEF e
  <2>3. AsMap' = AsMap
    BY <1>5, <1>6, <1>8, <2>2
  <2>4. Ideal!Do(cmd, AsMap, Ideal!Number(-2))
    BY <1>1, <1>4, <2>1, <2>3 DEF Ideal!Do
  <2>5. QED
    BY <1>2, <1>6, <1>7, <1>8, <2>4 DEF Ideal!Ttl
<1>9. CASE ~(e.expire - now < 0)
  <2>1. store' = store /\ Ideal!Answer(cmd, Ideal!Number(e.expire - now))
    BY <1>1, <1>2, <1>3, <1>9
  <2>2. AsMap' = AsMap
    BY <1>5, <2>1
  <2>3. AsMap[cmd.key] = Content(e) /\ cmd.key \in DOMAIN AsMap
    <3>1. e.key = cmd.key
      BY <1>2 DEF e
    <3>2. QED
      BY <1>5, <1>6, <1>7, <1>9, <3>1
  <2>4. AsMap[cmd.key].expire = e.expire /\ e.expire # 0
    BY <1>2, <1>3, <2>3 DEF Content, e
  <2>5. Ideal!Do(cmd, AsMap, Ideal!Number(e.expire - now))
    BY <1>1, <1>4, <2>1, <2>2 DEF Ideal!Do
  <2>6. QED
    BY <1>2, <2>3, <2>4, <2>5 DEF Ideal!Ttl
<1>10. QED
  BY <1>2, <1>8, <1>9

\* KEYS answers with what is left: all that is alive, nothing that was dead when it
\* was called.
LEMMA KeysListRefines ==
  ASSUME IInv, KeysList
  PROVE  Ideal!KeysAnswer
<1> DEFINE ks == {store[i].key : i \in DOMAIN store}
<1>1. /\ pc = "keys" /\ idx > Len(store) /\ pc' = "wait" /\ cmd' = Ideal!NoCommand
      /\ Ideal!Answer(cmd, Ideal!List(ks \cap cmd.pattern))
      /\ store' = store /\ now' = now /\ seen' = {}
  BY DEF KeysList, Finish
<1>2. /\ cmd.op = "KEYS" /\ store \in Seq(Entry) /\ idx \in Nat
      /\ \A i \in DOMAIN store : i < idx => store[i].key \in seen
  BY <1>1, TtlAssumption DEF IInv, CommandInv, SeenInv, TypeOK
<1>3. DOMAIN store = 1..Len(store) /\ Len(store) \in Nat
  BY <1>2, LenProperties
<1>4. ks \in SUBSET seen
  BY <1>1, <1>2, <1>3
<1>5. DOMAIN AsMap \subseteq ks
  BY AliveProperties DEF KeysIn, ToSet
<1>6. AsMap' = AsMap /\ Pending = cmd /\ Pending' = Ideal!NoCommand
  <2>1. Alive' = Alive
    BY <1>1, AliveProperties, NextAlive
  <2>2. QED
    BY <1>1, <2>1, AliveProperties, NextAlive DEF Pending
<1> HIDE DEF ks
<1>7. QED
  BY <1>1, <1>2, <1>4, <1>5, <1>6 DEF Ideal!KeysAnswer

\* The cleanup removes only entries that are dead.
LEMMA CleanupStepRefines ==
  ASSUME IInv, CleanupStep
  PROVE  UNCHANGED Ideal!vars
<1>1. /\ pc \in {"clean", "keys"} /\ idx <= Len(store)
      /\ UNCHANGED <<now, pc, cmd, reply, seen>>
      /\ \/ Expired(store[idx]) /\ store' = RemoveAt(store, idx)
         \/ store' = store
  BY DEF CleanupStep
<1>2. GoodStore(store) /\ store \in Seq(Entry) /\ idx \in 1..(Len(store) + 1)
  BY <1>1 DEF IInv, TypeOK, CleanInv, GoodStore
<1>3. idx \in DOMAIN store
  BY <1>1, <1>2, LenProperties
<1>4. /\ Alive = {e \in ToSet(store) : ~Expired(e)}
      /\ Alive' = {e \in ToSet(store') : ~Expired(e)}
  BY <1>1, AliveProperties, NextAlive
<1>5. Alive' = Alive
  <2>1. ToSet(RemoveAt(store, idx)) = ToSet(store) \ {store[idx]}
    BY <1>2, <1>3, GoodChanges
  <2>2. QED
    BY <1>1, <1>4, <2>1
<1>6. AsMap' = AsMap
  BY <1>5, NextAlive, AliveProperties
<1>7. QED
  BY <1>1, <1>6 DEF Ideal!vars, Pending

\* A step that leaves the array, the clock and the command alone is not seen.
LEMMA Stutter ==
  ASSUME UNCHANGED <<store, now, cmd, reply, seen>>,
         pc' = pc \/ (pc \notin {"expire", "ttl"} /\ pc' \notin {"expire", "ttl"}),
         pc = "expire" => idx' = idx
  PROVE  UNCHANGED Ideal!vars
<1>1. Alive' = Alive
  BY DEF Alive, Expired
<1>2. AsMap' = AsMap
  BY <1>1 DEF AsMap
<1>3. QED
  BY <1>2 DEF Ideal!vars, Pending

\* A second takes from the map exactly the keys whose last it was, except the one
\* that EXPIRE keeps.
LEMMA TickRefines ==
  ASSUME IInv, Tick
  PROVE  Ideal!Tick
<1> DEFINE held == IF Pending.op = "EXPIRE" THEN {Pending.key} ELSE {}
           live == {k \in DOMAIN AsMap : k \in held \cup (DOMAIN AsMap \ Ideal!Mortal)
                                         \/ now + 1 <= AsMap[k].expire}
           Stays(e) == \/ e.expire = 0 \/ now + 1 <= e.expire
                       \/ pc = "expire" /\ e = store[idx]
<1>1. /\ now < MaxTime /\ now' = now + 1
      /\ UNCHANGED <<store, pc, cmd, idx, last, start, reply, seen>>
  BY DEF Tick
<1>2. /\ Alive \subseteq ToSet(store) /\ ToSet(store) \subseteq Entry
      /\ Keyed(Alive) /\ Keyed(ToSet(store)) /\ AsMap = MapIn(Alive)
      /\ DOMAIN AsMap = KeysIn(Alive)
      /\ \A e \in Alive : AsMap[e.key] = Content(e)
      /\ now \in Nat
  BY AliveProperties, TtlAssumption DEF IInv, TypeOK
<1>3. \A e \in ToSet(store) : e.expire \in Nat
  BY <1>2 DEF Entry
<1>4. Alive' = {e \in Alive : Stays(e)}
  <2>1. Alive' = {e \in ToSet(store) : \/ ~(e.expire > 0 /\ now + 1 > e.expire)
                                       \/ pc = "expire" /\ e = store[idx]}
    BY <1>1 DEF Alive, Expired
  <2>2. \A e \in ToSet(store) :
          ~(e.expire > 0 /\ now + 1 > e.expire) <=> e.expire = 0 \/ now + 1 <= e.expire
    BY <1>2, <1>3
  <2>3. \A e \in ToSet(store) : e.expire = 0 \/ now + 1 <= e.expire => ~Expired(e)
    BY <1>2, <1>3 DEF Expired
  <2>4. QED
    BY <2>1, <2>2, <2>3 DEF Alive
<1>5. \A e \in Alive : e.key \in held <=> pc = "expire" /\ e = store[idx]
  <2>1. CASE pc = "expire"
    <3>1. /\ idx \in DOMAIN store /\ store[idx].key = cmd.key
          /\ Pending = cmd /\ Pending.op = "EXPIRE"
      BY <2>1 DEF IInv, CommandInv, Pending
    <3>2. store[idx] \in ToSet(store)
      BY <3>1 DEF ToSet
    <3>3. QED
      BY <1>2, <2>1, <3>1, <3>2 DEF Keyed
  <2>2. CASE pc # "expire"
    <3>1. Pending.op # "EXPIRE"
      <4>1. CASE pc = "ttl"
        BY <4>1 DEF Pending
      <4>2. CASE pc = "keys"
        BY <4>2 DEF Pending, IInv, CommandInv
      <4>3. CASE pc \in {"loop", "clean", "wait"}
        BY <4>3 DEF Pending, IInv, CommandInv, Ideal!NoCommand
      <4>4. QED
        BY <2>2, <4>1, <4>2, <4>3 DEF IInv, TypeOK, PC
    <3>2. QED
      BY <2>2, <3>1
  <2>3. QED
    BY <2>1, <2>2
<1>6. \A e \in Alive : AsMap[e.key].expire = e.expire
  <2>1. \A e \in Alive : AsMap[e.key] = Content(e)
    BY <1>2
  <2>2. ASSUME NEW e \in Alive PROVE AsMap[e.key].expire = e.expire
    <3>1. AsMap[e.key] = Content(e)
      BY <2>1
    <3>2. QED
      BY <3>1 DEF Content
  <2>3. QED
    BY <2>2
<1>7. live = KeysIn(Alive')
  <2> HIDE DEF held
  <2>1. \A e \in Alive : e.key \in live <=> Stays(e)
    <3>1. \A e \in Alive : e.key \in DOMAIN AsMap /\ (e.key \notin Ideal!Mortal <=> e.expire = 0)
      BY <1>2, <1>3, <1>6 DEF KeysIn, Ideal!Mortal
    <3>2. QED
      BY <1>2, <1>5, <1>6, <3>1
  <2>2. live \subseteq KeysIn(Alive)
    BY <1>2
  <2> HIDE DEF live, Stays
  <2>3. QED
    BY <1>4, <2>1, <2>2 DEF KeysIn
<1> HIDE DEF live, Stays
<1>8. Alive' \in SUBSET Alive
  BY <1>4
<1>9. AsMap' = [k \in live |-> AsMap[k]]
  <2> DEFINE F == Alive'
  <2>1. MapIn(F) = [k \in KeysIn(F) |-> MapIn(Alive)[k]]
    <3> HIDE DEF F
    <3>1. F \in SUBSET Alive
      BY <1>8 DEF F
    <3>2. QED
      BY <1>2, <3>1, MapInChanges
  <2>2. AsMap' = MapIn(F)
    BY NextAlive
  <2>3. live = KeysIn(F)
    BY <1>7
  <2> HIDE DEF F
  <2>4. QED
    BY <1>2, <2>1, <2>2, <2>3
<1>10. Pending' = Pending
  BY <1>1 DEF Pending
<1>11. QED
  BY <1>1, <1>9, <1>10 DEF Ideal!Tick, live

\* The empty array is the empty map.
LEMMA InitRefines == Init => Ideal!Init
<1> SUFFICES ASSUME Init PROVE Ideal!Init
  OBVIOUS
<1>1. Alive = {}
  BY DEF Init, Alive, ToSet
<1>2. AsMap = [k \in {} |-> 0]
  BY <1>1 DEF AsMap
<1>3. Pending = Ideal!NoCommand
  BY DEF Init, Pending
<1>4. QED
  BY <1>2, <1>3 DEF Init, Ideal!Init

\* Every step of the server is one of the map, or not seen.
LEMMA NextRefines ==
  ASSUME IInv, [Next]_vars
  PROVE  [Ideal!Next]_(Ideal!vars)
<1>1. ASSUME NEW c \in Ideal!Command, Execute(c) PROVE [Ideal!Next]_(Ideal!vars)
  <2>1. \/ Ideal!Set(c) \/ Ideal!Get(c) \/ Ideal!Persist(c)
        \/ Ideal!ExpireMiss(c) \/ Ideal!ExpireHit(c) \/ Ideal!Ttl(c) \/ UNCHANGED Ideal!vars
        \/ Ideal!FlushAll(c) \/ Ideal!Info(c) \/ Ideal!KeysCall(c)
    BY <1>1, SetRefines, GetRefines, PersistRefines, ExpireFindRefines, TtlFindRefines,
       FlushAllRefines, InfoRefines, KeysCallRefines DEF Execute
  <2>2. QED
    BY <2>1 DEF Ideal!Next
<1>2. CASE ExpireSet
  BY <1>2, ExpireSetRefines DEF Ideal!Next
<1>3. CASE TtlRest
  BY <1>3, TtlRestRefines DEF Ideal!Next
<1>4. CASE KeysList
  BY <1>4, KeysListRefines DEF Ideal!Next
<1>5. CASE CleanupStep
  BY <1>5, CleanupStepRefines
<1>6. CASE CleanupDue
  BY <1>6, Stutter DEF CleanupDue
<1>7. CASE CleanupNotDue
  BY <1>7, Stutter DEF CleanupNotDue
<1>8. CASE CleanupDone
  BY <1>8, Stutter DEF CleanupDone
<1>9. CASE NextRound
  BY <1>9, Stutter DEF NextRound
<1>10. CASE Tick
  BY <1>10, TickRefines DEF Ideal!Next
<1>11. CASE UNCHANGED vars
  BY <1>11, Stutter DEF vars
<1>12. QED
  BY <1>1, <1>2, <1>3, <1>4, <1>5, <1>6, <1>7, <1>8, <1>9, <1>10, <1>11 DEF Next, Continue

\* Whatever the lazy and the periodic removals leave in the array and whenever the
\* clock ticks, clients see a map whose keys vanish on time.
THEOREM ServerIsExpiringMap == SafeSpec => IdealSpec
<1>1. QED
  BY Invariant, InitRefines, NextRefines, PTL DEF SafeSpec, IdealSpec, Ideal!Spec
=============================================================================
