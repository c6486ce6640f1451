------------------------- MODULE SharedStore_proofs -------------------------
(***************************************************************************)
(* Proofs about the store of ch16-threadpool.c, for any number of workers, *)
(* keys and entries: the invariants of SharedStore, and that the store     *)
(* implements LazyMap.  The inductive invariant adds to the properties     *)
(* which thread store_mutex excludes the others for, and what a handler    *)
(* knows of its command, its reply and the clock between two of its steps. *)
(***************************************************************************)
EXTENDS SharedStore, CommonLemmas

\* The program counters at which a thread holds store_mutex.
Critical(th) == IF th = Main THEN {"scan"} ELSE {"find", "apply", "unlock", "cleanlock"}

\* store_mutex is held by exactly the thread that is in a critical section.
MutexInv == \A th \in Thread : pc[th] \in Critical(th) <=> mutex = th

Searching == {"SET", "EXPIRE", "TTL", "PERSIST"}

\* A handler is at a place of its own command.  A worker that runs KEYS is stuck
\* at its second lock and never scans.
HandlerInv ==
  \A w \in Worker :
    /\ pc[w] \notin {"scan", "list"}
    /\ pc[w] = "idle" <=> cmd[w] = Lazy!NoCommand
    /\ pc[w] = "idle" => reply[w] = Lazy!None
    /\ pc[w] = "find" => cmd[w].op \in Searching
    /\ pc[w] = "apply" => cmd[w].op \in Searching \cup {"GET", "FLUSHALL", "INFO"}
    /\ pc[w] \in {"unlock", "noTtl", "keys"} /\ cmd[w].op = "INFO" =>
         reply[w].n \in Nat /\ reply[w] = Lazy!Number(reply[w].n)
    /\ pc[w] \in {"noTtl", "keys"} => cmd[w].op = "INFO"
    /\ pc[w] # "idle" => cmd[w].op # "NONE"

\* The cleanup began in the past, and its index is that of an entry or the one
\* behind them.
ClockInv ==
  /\ start <= now
  /\ pc[Main] = "scan" => idx[Main] >= 1

IInv ==
  /\ TypeOK /\ MutexInv /\ HandlerInv /\ ClockInv
  /\ UniqueKeys /\ IndexFresh /\ CleanupLeavesNone

-----------------------------------------------------------------------------
(* Commands and entries *)

\* What a command of the clients is made of.
LEMMA CommandTypes ==
  ASSUME NEW c \in Lazy!Command
  PROVE  /\ c.op \in Searching \cup {"GET", "FLUSHALL", "INFO", "KEYS"}
         /\ c.op \in Searching \cup {"GET"} => c.key \in Key
         /\ c.op = "SET" => c.value \in Value
         /\ c.op = "EXPIRE" => c.secs \in Nat
         /\ c # Lazy!NoCommand
<1> USE DEF Searching, Lazy!NoCommand
<1>0. Seconds \cup {0} \subseteq Nat
  BY StoreAssumption
<1>1. CASE c \in [op : {"SET"}, key : Key, value : Value]
  BY <1>1
<1>2. CASE c \in [op : {"EXPIRE"}, key : Key, secs : Seconds \cup {0}]
  BY <1>0, <1>2
<1>3. CASE c \in [op : {"GET", "TTL", "PERSIST"}, key : Key]
  BY <1>3
<1>4. CASE c \in [op : {"FLUSHALL", "INFO", "KEYS"}]
  BY <1>4
<1>5. QED
  BY <1>1, <1>2, <1>3, <1>4 DEF Lazy!Command

\* What TypeOK says of a command that is under way.
LEMMA Under ==
  ASSUME IInv, NEW w \in Worker, pc[w] # "idle"
  PROVE  cmd[w] \in Lazy!Command
BY DEF IInv, TypeOK, HandlerInv

\* The index a handler uses is that of its key.
LEMMA IndexProperties ==
  ASSUME IInv, NEW k
  PROVE  /\ IndexOf(k) \in {0} \cup DOMAIN store
         /\ IndexOf(k) # 0 <=> k \in KeysOf(store)
         /\ IndexOf(k) # 0 => store[IndexOf(k)].key = k
         /\ \A i \in DOMAIN store : store[i].key = k => IndexOf(k) = i
<1>1. KeysDiffer(store) /\ store \in Seq(Entry)
  BY DEF IInv, TypeOK, UniqueKeys, KeysDiffer
<1>2. IndexOf(k) = IndexIn(store, k)
  BY DEF IndexOf, IndexIn
<1>3. QED
  BY <1>1, <1>2, IndexInProperties

\* The array stays an array of at most MaxKeys entries with different keys.
GoodStore(s) == s \in Seq(Entry) /\ Len(s) <= MaxKeys /\ KeysDiffer(s)

\* The shift loop of delete_key keeps the entries typed and their keys different.
LEMMA GoodRemoveAt ==
  ASSUME NEW s, GoodStore(s), NEW i \in DOMAIN s
  PROVE  GoodStore(RemoveAt(s, i))
<1>1. s \in Seq(Entry) /\ Len(s) <= MaxKeys /\ KeysDiffer(s)
  BY DEF GoodStore
<1>2. RemoveAt(s, i) \in Seq(Entry) /\ Len(RemoveAt(s, i)) = Len(s) - 1
  BY <1>1, RemoveAtProperties
<1>3. KeysDiffer(RemoveAt(s, i))
  BY <1>1, KeysDifferRemoveAt
<1>4. Len(s) \in Nat /\ Len(RemoveAt(s, i)) <= MaxKeys
  BY <1>1, <1>2, LenProperties, StoreAssumption
<1>5. QED
  BY <1>2, <1>3, <1>4 DEF GoodStore

\* So does the new entry of a SET.
LEMMA GoodAppend ==
  ASSUME NEW s, GoodStore(s), Len(s) < MaxKeys, NEW e \in Entry, e.key \notin KeysOf(s)
  PROVE  GoodStore(Append(s, e))
<1>1. s \in Seq(Entry) /\ KeysDiffer(s)
  BY DEF GoodStore
<1>2. Append(s, e) \in Seq(Entry) /\ Len(Append(s, e)) = Len(s) + 1 /\ Len(s) \in Nat
  BY <1>1, AppendProperties, LenProperties
<1>3. KeysDiffer(Append(s, e))
  BY <1>1, KeysDifferAppend
<1>4. QED
  BY <1>2, <1>3, StoreAssumption DEF GoodStore

\* An assignment to the value or the time of entry i.
LEMMA GoodAssign ==
  ASSUME NEW s, GoodStore(s), NEW i \in DOMAIN s
  PROVE  /\ \A v \in Value : GoodStore([s EXCEPT ![i].value = v])
         /\ \A n \in Nat : GoodStore([s EXCEPT ![i].expire = n])
<1>1. s \in Seq(Entry) /\ Len(s) <= MaxKeys /\ KeysDiffer(s)
  BY DEF GoodStore
<1>2. s[i] \in Entry /\ i \in 1..Len(s)
  BY <1>1, LenProperties, ElementOfSeq
<1>3. ASSUME NEW e \in Entry, e.key = s[i].key PROVE GoodStore([s EXCEPT ![i] = e])
  <2>1. /\ [s EXCEPT ![i] = e] \in Seq(Entry) /\ Len([s EXCEPT ![i] = e]) = Len(s)
        /\ KeysDiffer([s EXCEPT ![i] = e])
    BY <1>1, <1>2, <1>3, AssignProperties DEF Entry
  <2>2. QED
    BY <1>1, <2>1 DEF GoodStore
<1>4. ASSUME NEW v \in Value PROVE GoodStore([s EXCEPT ![i].value = v])
  <2>1. [s[i] EXCEPT !.value = v] \in Entry /\ [s[i] EXCEPT !.value = v].key = s[i].key
    BY <1>2 DEF Entry
  <2>2. [s EXCEPT ![i].value = v] = [s EXCEPT ![i] = [s[i] EXCEPT !.value = v]]
    OBVIOUS
  <2>3. QED
    BY <2>1, <2>2, <1>3
<1>5. ASSUME NEW n \in Nat PROVE GoodStore([s EXCEPT ![i].expire = n])
  <2>1. [s[i] EXCEPT !.expire = n] \in Entry /\ [s[i] EXCEPT !.expire = n].key = s[i].key
    BY <1>2 DEF Entry
  <2>2. [s EXCEPT ![i].expire = n] = [s EXCEPT ![i] = [s[i] EXCEPT !.expire = n]]
    OBVIOUS
  <2>3. QED
    BY <2>1, <2>2, <1>3
<1>6. QED
  BY <1>4, <1>5

-----------------------------------------------------------------------------
(* The steps *)

\* The handlers' use of the store, which all end with the same assignments.
Applying(w) ==
  \/ SetApply(w) \/ GetApply(w) \/ ExpireApply(w) \/ TtlApply(w)
  \/ PersistApply(w) \/ FlushApply(w) \/ InfoCount(w)

\* All of them go on to the unlock with a reply; of the shared state they change at
\* most the array and the counts.
LEMMA ApplyingShape ==
  ASSUME NEW w \in Worker, Applying(w)
  PROVE  /\ pc[w] = "apply" /\ pc' = [pc EXCEPT ![w] = "unlock"]
         /\ \E r : reply' = [reply EXCEPT ![w] = r]
         /\ UNCHANGED <<now, mutex, cmd, idx, noTtl, last, start>>
BY DEF Applying, SetApply, GetApply, ExpireApply, TtlApply, PersistApply, FlushApply,
       InfoCount, Apply, At, Goto

\* The handlers with the steps before and after the use of the store.
LEMMA HandlerSplit ==
  ASSUME NEW w \in Worker
  PROVE  Handler(w) <=> \/ Lock(w) \/ Find(w) \/ Unlock(w) \/ Applying(w)
                        \/ InfoNoTtl(w) \/ InfoKeys(w)
BY DEF Handler, Applying

\* Only a handler that uses the store and the cleanup's removals write the array.
LEMMA Writers ==
  ASSUME [Next]_vars, store' # store
  PROVE  \/ \E w \in Worker : Applying(w)
         \/ \E th \in Thread : CleanupStep(th)
<1>1. ASSUME NEW w \in Worker, Begin(w) \/ Lock(w) \/ Find(w) \/ Unlock(w) \/ InfoNoTtl(w) \/ InfoKeys(w)
      PROVE  FALSE
  BY <1>1 DEF Begin, Lock, Find, Unlock, InfoNoTtl, InfoKeys
<1>2. ASSUME NEW th \in Thread, CleanupLock(th) \/ CleanupUnlock(th)
      PROVE  FALSE
  BY <1>2 DEF CleanupLock, CleanupUnlock
<1>3. ~CleanupDue /\ ~Tick /\ ~UNCHANGED vars
  BY DEF CleanupDue, Tick, vars
<1>4. QED
  BY <1>1, <1>2, <1>3, HandlerSplit DEF Next, Cleanup

\* A step changes the array as one of the operations does, which keeps the entries
\* typed and their keys different.
LEMMA StoreStep ==
  ASSUME IInv, [Next]_vars
  PROVE  GoodStore(store')
<1>0. GoodStore(store)
  BY DEF IInv, TypeOK, UniqueKeys, GoodStore, KeysDiffer
<1>1. ASSUME NEW i \in DOMAIN store PROVE GoodStore(RemoveAt(store, i))
  BY <1>0, GoodRemoveAt
<1>2. ASSUME NEW w \in Worker, Applying(w) PROVE GoodStore(store')
  <2>0. /\ pc[w] = "apply" /\ cmd[w] \in Lazy!Command
        /\ cmd[w].op \in Searching => idx[w] = IndexOf(cmd[w].key)
    BY <1>2, ApplyingShape, Under DEF IInv, IndexFresh, At, Searching
  <2>1. CASE SetApply(w)
    <3> DEFINE e == [key |-> cmd[w].key, value |-> cmd[w].value, expire |-> 0]
    <3>1. cmd[w].op = "SET" /\ cmd[w].key \in Key /\ cmd[w].value \in Value
      BY <2>0, <2>1, CommandTypes DEF SetApply, At, Searching
    <3>2. e \in Entry /\ e.key = cmd[w].key
      BY <3>1 DEF Entry
    <3>3. idx[w] \in {0} \cup DOMAIN store /\ (idx[w] # 0 <=> e.key \in KeysOf(store))
      BY <2>0, <3>1, <3>2, IndexProperties DEF Searching
    <3>4. \/ idx[w] # 0 /\ store' = [store EXCEPT ![idx[w]].value = cmd[w].value]
          \/ idx[w] = 0 /\ Len(store) < MaxKeys /\ store' = Append(store, e)
          \/ store' = store
      BY <2>1 DEF SetApply, Apply
    <3> HIDE DEF e
    <3>5. CASE idx[w] # 0 /\ store' = [store EXCEPT ![idx[w]].value = cmd[w].value]
      BY <1>0, <3>1, <3>3, <3>5, GoodAssign
    <3>6. CASE idx[w] = 0 /\ Len(store) < MaxKeys /\ store' = Append(store, e)
      BY <1>0, <3>2, <3>3, <3>6, GoodAppend
    <3>7. QED
      BY <1>0, <3>4, <3>5, <3>6
  <2>2. CASE GetApply(w)
    <3>1. IndexOf(cmd[w].key) \in {0} \cup DOMAIN store
      BY IndexProperties
    <3>2. QED
      BY <1>0, <1>1, <2>2, <3>1 DEF GetApply, Apply
  <2>3. CASE ExpireApply(w)
    <3>1. cmd[w].op = "EXPIRE" /\ cmd[w].secs \in Nat /\ now \in Nat
      BY <2>0, <2>3, CommandTypes DEF ExpireApply, At, IInv, TypeOK
    <3>2. idx[w] \in {0} \cup DOMAIN store
      BY <2>0, <3>1, IndexProperties DEF Searching
    <3>3. (IF cmd[w].secs = 0 THEN 0 ELSE now + cmd[w].secs) \in Nat
      BY <3>1
    <3>4. QED
      BY <1>0, <2>3, <3>2, <3>3, GoodAssign DEF ExpireApply, Apply
  <2>4. CASE TtlApply(w)
    <3>1. idx[w] \in {0} \cup DOMAIN store
      BY <2>0, <2>4, IndexProperties DEF TtlApply, At, Searching
    <3>2. QED
      BY <1>0, <1>1, <2>4, <3>1 DEF TtlApply, Apply
  <2>5. CASE PersistApply(w)
    <3>1. idx[w] \in {0} \cup DOMAIN store
      BY <2>0, <2>5, IndexProperties DEF PersistApply, At, Searching
    <3>2. 0 \in Nat
      OBVIOUS
    <3>3. QED
      BY <1>0, <2>5, <3>1, <3>2, GoodAssign DEF PersistApply, Apply
  <2>6. CASE FlushApply(w)
    BY <2>6, StoreAssumption DEF FlushApply, Apply, GoodStore, KeysDiffer
  <2>7. CASE InfoCount(w)
    BY <1>0, <2>7 DEF InfoCount, Apply
  <2>8. QED
    BY <1>2, <2>1, <2>2, <2>3, <2>4, <2>5, <2>6, <2>7 DEF Applying
<1>3. ASSUME NEW th \in Thread, CleanupStep(th) PROVE GoodStore(store')
  <2>1. th = Main
    BY <1>3 DEF CleanupStep, IInv, HandlerInv, Thread
  <2>2. Len(store) \in Nat /\ DOMAIN store = 1..Len(store) /\ idx[Main] \in Nat
    BY LenProperties DEF IInv, TypeOK, Thread
  <2>3. idx[Main] \in DOMAIN store
    BY <1>3, <2>1, <2>2 DEF CleanupStep, IInv, ClockInv
  <2>4. QED
    BY <1>0, <1>1, <1>3, <2>1, <2>3 DEF CleanupStep
<1>4. QED
  BY <1>0, <1>2, <1>3, Writers

\* The reply of a handler that uses the store is one of the kinds there are.
LEMMA ReplyStep ==
  ASSUME IInv, NEW w \in Worker, Applying(w)
  PROVE  /\ reply' \in [Worker -> Lazy!Reply]
         /\ cmd[w].op = "INFO" =>
              reply'[w].n \in Nat /\ reply'[w] = Lazy!Number(reply'[w].n)
<1> USE DEF Lazy!Reply, Lazy!None, Lazy!Okay, Lazy!Full, Lazy!Nil, Lazy!Bulk, Lazy!Number
<1>0. /\ reply \in [Worker -> Lazy!Reply] /\ store \in Seq(Entry) /\ now \in Nat
      /\ DOMAIN store = 1..Len(store) /\ Len(store) \in Nat
      /\ pc[w] = "apply" /\ cmd[w] \in Lazy!Command
      /\ cmd[w].op \in Searching => idx[w] = IndexOf(cmd[w].key)
  BY ApplyingShape, Under, LenProperties DEF IInv, TypeOK, IndexFresh, At, Searching
<1>1. ASSUME NEW i \in DOMAIN store PROVE store[i].value \in Value /\ store[i].expire \in Nat
  <2>1. store[i] \in Entry
    BY <1>0, ElementOfSeq
  <2>2. QED
    BY <2>1 DEF Entry
<1>2. CASE SetApply(w) \/ PersistApply(w) \/ ExpireApply(w) \/ FlushApply(w)
  <2>1. \E r \in {Lazy!Okay, Lazy!Full, Lazy!Number(0), Lazy!Number(1)} :
          reply' = [reply EXCEPT ![w] = r]
    BY <1>2 DEF SetApply, PersistApply, ExpireApply, FlushApply, Apply
  <2>2. cmd[w].op # "INFO"
    BY <1>2 DEF SetApply, PersistApply, ExpireApply, FlushApply, At
  <2>3. QED
    BY <1>0, <2>1, <2>2
<1>3. CASE GetApply(w)
  <2>1. IndexOf(cmd[w].key) \in {0} \cup DOMAIN store
    BY IndexProperties
  <2>2. \E r \in Lazy!Reply : reply' = [reply EXCEPT ![w] = r]
    BY <1>1, <1>3, <2>1 DEF GetApply, Apply
  <2>3. QED
    BY <1>0, <1>3, <2>2 DEF GetApply, At
<1>4. CASE TtlApply(w)
  <2>1. idx[w] \in {0} \cup DOMAIN store
    BY <1>0, <1>4, IndexProperties DEF TtlApply, At, Searching
  <2>2. \E r \in Lazy!Reply : reply' = [reply EXCEPT ![w] = r]
    BY <1>0, <1>1, <1>4, <2>1 DEF TtlApply, Apply
  <2>3. QED
    BY <1>0, <1>4, <2>2 DEF TtlApply, At
<1>5. CASE InfoCount(w)
  <2>1. Cardinality({i \in DOMAIN store : store[i].expire > 0}) \in Nat
    <3>1. IsFiniteSet(DOMAIN store)
      BY <1>0, FS_Interval
    <3>2. IsFiniteSet({i \in DOMAIN store : store[i].expire > 0})
      BY <3>1, FS_Subset
    <3>3. QED
      BY <3>2, FS_CardinalityType
  <2>2. QED
    BY <1>0, <1>5, <2>1 DEF InfoCount, Apply
<1>6. QED
  BY <1>2, <1>3, <1>4, <1>5 DEF Applying

\* Every step keeps the types.
LEMMA TypeStep ==
  ASSUME IInv, [Next]_vars
  PROVE  TypeOK'
<1> USE StoreAssumption DEF Thread, WorkerPC, MainPC, Goto, TypeOK, Lazy!Reply
<1>0. /\ TypeOK
      /\ \A w \in Worker : pc[w] \notin {"scan", "list"}
  BY DEF IInv, HandlerInv
<1>1. store' \in Seq(Entry) /\ Len(store') <= MaxKeys
  BY StoreStep DEF GoodStore
<1>2. ASSUME NEW w \in Worker, Begin(w) PROVE TypeOK'
  BY <1>0, <1>1, <1>2 DEF Begin
<1>3. ASSUME NEW w \in Worker, Lock(w) PROVE TypeOK'
  BY <1>0, <1>1, <1>3 DEF Lock, local
<1>4. ASSUME NEW w \in Worker, Find(w) PROVE TypeOK'
  <2>1. IndexOf(cmd[w].key) \in Nat
    <3>1. IndexOf(cmd[w].key) \in {0} \cup DOMAIN store
      BY IndexProperties
    <3>2. DOMAIN store \subseteq Nat
      BY <1>0, LenProperties
    <3>3. QED
      BY <3>1, <3>2
  <2>2. QED
    BY <1>0, <1>1, <1>4, <2>1 DEF Find
<1>5. ASSUME NEW w \in Worker, Unlock(w) PROVE TypeOK'
  <2>1. CASE cmd[w].op = "INFO"
    BY <1>0, <1>1, <1>5, <2>1 DEF Unlock, local
  <2>2. CASE cmd[w].op # "INFO"
    <3>1. Return(w) /\ mutex' = NULL /\ UNCHANGED <<store, now, last, start>>
      BY <1>5, <2>2 DEF Unlock
    <3>2. /\ cmd' \in [Worker -> Lazy!Command \cup {Lazy!NoCommand}]
          /\ idx' \in [Thread -> Nat] /\ noTtl' \in [Worker -> Int]
      BY <1>0, <3>1 DEF Return
    <3>3. reply' \in [Worker -> Lazy!Reply]
      BY <1>0, <3>1 DEF Return
    <3>4. QED
      BY <1>0, <1>1, <3>1, <3>2, <3>3 DEF Return
  <2>3. QED
    BY <2>1, <2>2
<1>6. ASSUME NEW w \in Worker, Applying(w) PROVE TypeOK'
  <2>1. reply' \in [Worker -> Lazy!Reply]
    BY <1>6, ReplyStep
  <2>2. QED
    BY <1>0, <1>1, <1>6, <2>1, ApplyingShape, ZenonT(30)
<1>7. ASSUME NEW w \in Worker, InfoNoTtl(w) PROVE TypeOK'
  <2>1. Len(store) - reply[w].n \in Int
    BY <1>0, <1>7, LenProperties DEF InfoNoTtl, IInv, HandlerInv
  <2>2. QED
    BY <1>0, <1>1, <1>7, <2>1 DEF InfoNoTtl
<1>8. ASSUME NEW w \in Worker, InfoKeys(w) PROVE TypeOK'
  BY <1>0, <1>1, <1>8 DEF InfoKeys, Return
<1>9. CASE CleanupDue
  BY <1>0, <1>1, <1>9 DEF CleanupDue, local
<1>10. ASSUME NEW th \in Thread, CleanupLock(th) PROVE TypeOK'
  BY <1>0, <1>1, <1>10 DEF CleanupLock
<1>11. ASSUME NEW th \in Thread, CleanupStep(th) PROVE TypeOK'
  BY <1>0, <1>1, <1>11 DEF CleanupStep
<1>12. ASSUME NEW th \in Thread, CleanupUnlock(th) PROVE TypeOK'
  BY <1>0, <1>1, <1>12 DEF CleanupUnlock
<1>13. CASE Tick
  BY <1>0, <1>1, <1>13 DEF Tick, local
<1>14. CASE UNCHANGED vars
  BY <1>0, <1>14 DEF vars, local
<1>15. QED
  BY <1>2, <1>3, <1>4, <1>5, <1>6, <1>7, <1>8, <1>9, <1>10, <1>11, <1>12, <1>13, <1>14,
     HandlerSplit DEF Next, Cleanup

\* Every step keeps store_mutex with the thread that is in its critical section.
LEMMA MutexStep ==
  ASSUME IInv, [Next]_vars
  PROVE  MutexInv'
<1> USE StoreAssumption DEF Thread, Goto, MutexInv, Critical
<1>0. /\ pc \in [Thread -> WorkerPC \cup MainPC] /\ MutexInv
      /\ \A w \in Worker : pc[w] \notin {"scan", "list"}
  BY DEF IInv, HandlerInv, TypeOK
<1>1. ASSUME NEW w \in Worker, Begin(w) PROVE MutexInv'
  BY <1>0, <1>1 DEF Begin
<1>2. ASSUME NEW w \in Worker, Lock(w) PROVE MutexInv'
  <2>1. pc'[w] \in Critical(w)
    BY <1>0, <1>2 DEF Lock
  <2>2. \A th \in Thread \ {w} : pc'[th] = pc[th] /\ pc[th] \notin Critical(th)
    BY <1>0, <1>2 DEF Lock
  <2>3. QED
    BY <1>2, <2>1, <2>2 DEF Lock
<1>3. ASSUME NEW w \in Worker, Find(w) PROVE MutexInv'
  BY <1>0, <1>3 DEF Find
<1>4. ASSUME NEW w \in Worker, Unlock(w) PROVE MutexInv'
  <2>1. mutex = w /\ mutex' = NULL /\ pc[w] = "unlock"
    BY <1>0, <1>4 DEF Unlock
  <2>2. /\ pc'[w] \in {"noTtl", "idle"}
        /\ \A th \in Thread \ {w} : pc'[th] = pc[th]
    BY <1>0, <1>4 DEF Unlock, Return
  <2>3. \A th \in Thread : th # NULL
    OBVIOUS
  <2>4. QED
    BY <1>0, <2>1, <2>2, <2>3
<1>5. ASSUME NEW w \in Worker, Applying(w) PROVE MutexInv'
  BY <1>0, <1>5, ApplyingShape
<1>6. ASSUME NEW w \in Worker, InfoNoTtl(w) PROVE MutexInv'
  BY <1>0, <1>6 DEF InfoNoTtl
<1>7. ASSUME NEW w \in Worker, InfoKeys(w) PROVE MutexInv'
  BY <1>0, <1>7 DEF InfoKeys, Return
<1>8. CASE CleanupDue
  BY <1>0, <1>8 DEF CleanupDue
<1>9. ASSUME NEW th \in Thread, CleanupLock(th) PROVE MutexInv'
  <2>1. th = Main
    BY <1>0, <1>9 DEF CleanupLock
  <2>2. QED
    BY <1>0, <1>9, <2>1 DEF CleanupLock
<1>10. ASSUME NEW th \in Thread, CleanupStep(th) PROVE MutexInv'
  BY <1>0, <1>10 DEF CleanupStep
<1>11. ASSUME NEW th \in Thread, CleanupUnlock(th) PROVE MutexInv'
  <2>1. th = Main
    BY <1>0, <1>11 DEF CleanupUnlock
  <2>2. QED
    BY <1>0, <1>11, <2>1 DEF CleanupUnlock
<1>12. CASE Tick
  BY <1>0, <1>12 DEF Tick
<1>13. CASE UNCHANGED vars
  BY <1>0, <1>13 DEF vars
<1>14. QED
  BY <1>1, <1>2, <1>3, <1>4, <1>5, <1>6, <1>7, <1>8, <1>9, <1>10, <1>11, <1>12, <1>13,
     HandlerSplit DEF Next, Cleanup

\* The thread that holds the mutex is the only one in a critical section.
LEMMA OneInside ==
  ASSUME IInv, NEW th \in Thread, pc[th] \in Critical(th),
         NEW other \in Thread, pc[other] \in Critical(other)
  PROVE  th = other
BY DEF IInv, MutexInv

\* Every step keeps what a handler knows of its command and its reply.
LEMMA HandlerStep ==
  ASSUME IInv, [Next]_vars
  PROVE  HandlerInv'
<1> DEFINE Of(w) ==
      /\ pc[w] \notin {"scan", "list"}
      /\ pc[w] = "idle" <=> cmd[w] = Lazy!NoCommand
      /\ pc[w] = "idle" => reply[w] = Lazy!None
      /\ pc[w] = "find" => cmd[w].op \in Searching
      /\ pc[w] = "apply" => cmd[w].op \in Searching \cup {"GET", "FLUSHALL", "INFO"}
      /\ pc[w] \in {"unlock", "noTtl", "keys"} /\ cmd[w].op = "INFO" =>
           reply[w].n \in Nat /\ reply[w] = Lazy!Number(reply[w].n)
      /\ pc[w] \in {"noTtl", "keys"} => cmd[w].op = "INFO"
      /\ pc[w] # "idle" => cmd[w].op # "NONE"
<1> SUFFICES ASSUME NEW w \in Worker PROVE Of(w)'
  BY DEF HandlerInv
<1> USE StoreAssumption DEF Thread, Goto
<1>0. /\ pc \in [Thread -> WorkerPC \cup MainPC] /\ Of(w)
      /\ cmd \in [Worker -> Lazy!Command \cup {Lazy!NoCommand}]
      /\ reply \in [Worker -> Lazy!Reply]
      /\ \A v \in Worker : pc[v] \notin {"scan", "list"}
  BY DEF IInv, HandlerInv, TypeOK
<1>1. ASSUME pc'[w] = pc[w], cmd'[w] = cmd[w], reply'[w] = reply[w] PROVE Of(w)'
  BY <1>0, <1>1
<1>2. ASSUME NEW v \in Worker, Begin(v) PROVE Of(w)'
  <2>1. \A c \in Lazy!Command : c.op # "NONE" /\ c # Lazy!NoCommand
    BY CommandTypes DEF Searching
  <2>2. CASE v = w
    BY <1>0, <1>2, <2>1, <2>2 DEF Begin
  <2>3. CASE v # w
    BY <1>0, <1>1, <1>2, <2>3 DEF Begin
  <2>4. QED
    BY <2>2, <2>3
<1>3. ASSUME NEW v \in Worker, Lock(v) PROVE Of(w)'
  <2>1. cmd[v].op \in Searching \cup {"GET", "FLUSHALL", "INFO", "KEYS"}
    BY <1>3, Under, CommandTypes DEF Lock
  <2>2. CASE v = w
    BY <1>0, <1>3, <2>1, <2>2 DEF Lock, local, Searching
  <2>3. CASE v # w
    BY <1>0, <1>1, <1>3, <2>3 DEF Lock, local
  <2>4. QED
    BY <2>2, <2>3
<1>4. ASSUME NEW v \in Worker, Find(v) PROVE Of(w)'
  BY <1>0, <1>4 DEF Find
<1>5. ASSUME NEW v \in Worker, Unlock(v) PROVE Of(w)'
  <2>1. CASE v = w /\ cmd[w].op = "INFO"
    BY <1>0, <1>5, <2>1 DEF Unlock, local
  <2>2. CASE v = w /\ cmd[w].op # "INFO"
    BY <1>0, <1>5, <2>2 DEF Unlock, Return
  <2>3. CASE v # w
    BY <1>0, <1>1, <1>5, <2>3 DEF Unlock, Return, local
  <2>4. QED
    BY <2>1, <2>2, <2>3
<1>6. ASSUME NEW v \in Worker, Applying(v) PROVE Of(w)'
  <2>1. CASE v = w
    BY <1>0, <1>6, <2>1, ApplyingShape, ReplyStep
  <2>2. CASE v # w
    BY <1>0, <1>1, <1>6, <2>2, ApplyingShape
  <2>3. QED
    BY <2>1, <2>2
<1>7. ASSUME NEW v \in Worker, InfoNoTtl(v) PROVE Of(w)'
  BY <1>0, <1>7 DEF InfoNoTtl
<1>8. ASSUME NEW v \in Worker, InfoKeys(v) PROVE Of(w)'
  BY <1>0, <1>8 DEF InfoKeys, Return
<1>9. CASE CleanupDue
  BY <1>0, <1>1, <1>9 DEF CleanupDue, local
<1>10. ASSUME NEW th \in Thread, Cleanup(th) PROVE Of(w)'
  <2>1. CASE CleanupLock(th)
    <3>1. th = Main
      BY <1>0, <2>1 DEF CleanupLock, IInv, MutexInv, Critical
    <3>2. QED
      BY <1>0, <1>1, <2>1, <3>1 DEF CleanupLock
  <2>2. CASE CleanupStep(th)
    BY <1>1, <2>2 DEF CleanupStep
  <2>3. CASE CleanupUnlock(th)
    <3>1. th = Main
      BY <1>0, <2>3 DEF CleanupUnlock
    <3>2. QED
      BY <1>0, <1>1, <2>3, <3>1 DEF CleanupUnlock
  <2>4. QED
    BY <1>10, <2>1, <2>2, <2>3 DEF Cleanup
<1>11. CASE Tick
  BY <1>1, <1>11 DEF Tick, local
<1>12. CASE UNCHANGED vars
  BY <1>1, <1>12 DEF vars, local
<1>13. QED
  BY <1>2, <1>3, <1>4, <1>5, <1>6, <1>7, <1>8, <1>9, <1>10, <1>11, <1>12, HandlerSplit DEF Next

\* Without the mutex a thread does not write the array.
LEMMA WriterHolds ==
  ASSUME IInv, [Next]_vars, store' # store
  PROVE  \/ \E w \in Worker : Applying(w)
         \/ CleanupStep(Main) /\ pc[Main] = "scan"
<1>1. ASSUME NEW th \in Thread, CleanupStep(th) PROVE th = Main /\ pc[Main] = "scan"
  BY <1>1 DEF CleanupStep, IInv, HandlerInv, Thread
<1>2. QED
  BY <1>1, Writers

\* No step of another thread moves the entry whose index a handler has found.
LEMMA FreshStep ==
  ASSUME IInv, [Next]_vars
  PROVE  IndexFresh'
<1> USE StoreAssumption DEF Thread, Goto
<1> SUFFICES ASSUME NEW w \in Worker, pc'[w] = "apply", cmd'[w].op \in Searching
             PROVE  (idx[w] = IndexOf(cmd[w].key))'
  BY DEF IndexFresh, At, Searching
<1>0. /\ pc \in [Thread -> WorkerPC \cup MainPC] /\ cmd \in [Worker -> Lazy!Command \cup {Lazy!NoCommand}]
      /\ idx \in [Thread -> Nat]
      /\ \A v \in Worker : pc[v] \notin {"scan", "list"}
  BY DEF IInv, TypeOK, HandlerInv
<1>1. \/ Find(w)
      \/ pc[w] = "apply" /\ UNCHANGED <<cmd[w], idx[w]>>
  <2>1. ASSUME NEW v \in Worker, Begin(v)
        PROVE  pc[w] = "apply" /\ UNCHANGED <<cmd[w], idx[w]>>
    BY <1>0, <2>1 DEF Begin
  <2>2. ASSUME NEW v \in Worker, Lock(v)
        PROVE  pc[w] = "apply" /\ UNCHANGED <<cmd[w], idx[w]>>
    BY <1>0, <2>2 DEF Lock, local, Searching
  <2>3. ASSUME NEW v \in Worker, Find(v)
        PROVE  Find(w) \/ (pc[w] = "apply" /\ UNCHANGED <<cmd[w], idx[w]>>)
    BY <1>0, <2>3 DEF Find
  <2>4. ASSUME NEW v \in Worker, Unlock(v)
        PROVE  pc[w] = "apply" /\ UNCHANGED <<cmd[w], idx[w]>>
    BY <1>0, <2>4 DEF Unlock, Return, local
  <2>5. ASSUME NEW v \in Worker, Applying(v)
        PROVE  pc[w] = "apply" /\ UNCHANGED <<cmd[w], idx[w]>>
    BY <1>0, <2>5, ApplyingShape
  <2>6. ASSUME NEW v \in Worker, InfoNoTtl(v) \/ InfoKeys(v)
        PROVE  pc[w] = "apply" /\ UNCHANGED <<cmd[w], idx[w]>>
    BY <1>0, <2>6 DEF InfoNoTtl, InfoKeys, Return
  <2>7. ASSUME NEW th \in Thread, Cleanup(th)
        PROVE  pc[w] = "apply" /\ UNCHANGED <<cmd[w], idx[w]>>
    <3>1. th = Main
      BY <1>0, <2>7 DEF Cleanup, CleanupLock, CleanupStep, CleanupUnlock, IInv, MutexInv, Critical
    <3>2. QED
      BY <1>0, <2>7, <3>1 DEF Cleanup, CleanupLock, CleanupStep, CleanupUnlock
  <2>8. ASSUME CleanupDue \/ Tick \/ UNCHANGED vars
        PROVE  pc[w] = "apply" /\ UNCHANGED <<cmd[w], idx[w]>>
    BY <1>0, <2>8 DEF CleanupDue, Tick, vars, local
  <2>9. QED
    BY <2>1, <2>2, <2>3, <2>4, <2>5, <2>6, <2>7, <2>8, HandlerSplit DEF Next
<1>2. CASE Find(w)
  <2>1. idx'[w] = IndexOf(cmd[w].key) /\ UNCHANGED <<store, cmd>>
    BY <1>0, <1>2 DEF Find
  <2>2. QED
    BY <2>1 DEF IndexOf
<1>3. CASE pc[w] = "apply" /\ UNCHANGED <<cmd[w], idx[w]>>
  <2>1. idx[w] = IndexOf(cmd[w].key)
    BY <1>3 DEF IInv, IndexFresh, At, Searching
  <2>2. ASSUME NEW v \in Worker, Applying(v) PROVE FALSE
    <3>1. v = w
      BY <1>3, <2>2, ApplyingShape, OneInside DEF Critical
    <3>2. QED
      BY <1>0, <2>2, <3>1, ApplyingShape
  <2>3. pc[Main] # "scan"
    BY <1>3, OneInside DEF Critical
  <2>4. store' = store
    BY <2>2, <2>3, WriterHolds
  <2>5. QED
    BY <1>3, <2>1, <2>4 DEF IndexOf
<1>4. QED
  BY <1>1, <1>2, <1>3

\* The clock goes on, and main's index with the cleanup.
LEMMA MainStep ==
  ASSUME IInv, [Next]_vars
  PROVE  /\ now' \in Nat /\ now <= now'
         /\ \/ start' = start
            \/ start' = now /\ pc'[Main] # "scan"
         /\ pc'[Main] = "scan" =>
              \/ pc[Main] = "scan" /\ idx'[Main] = idx[Main]
              \/ pc[Main] # "scan" /\ idx'[Main] = 1
              \/ CleanupStep(Main)
<1> USE StoreAssumption DEF Thread, Goto
<1>0. /\ pc \in [Thread -> WorkerPC \cup MainPC] /\ idx \in [Thread -> Nat]
      /\ now \in Nat /\ now' \in 1..MaxTime
      /\ \A v \in Worker : pc[v] \notin {"scan", "list"}
  BY TypeStep, SMTT(30) DEF IInv, TypeOK, HandlerInv
<1>1. ASSUME NEW w \in Worker, Begin(w) \/ Handler(w)
      PROVE  UNCHANGED <<now, start, pc[Main], idx[Main]>>
  <2>1. ASSUME Applying(w) PROVE UNCHANGED <<now, start, pc[Main], idx[Main]>>
    BY <1>0, <2>1, ApplyingShape
  <2>2. ASSUME Unlock(w) PROVE UNCHANGED <<now, start, pc[Main], idx[Main]>>
    BY <1>0, <2>2 DEF Unlock, Return, local
  <2>3. ASSUME Begin(w) \/ Lock(w) \/ Find(w) \/ InfoNoTtl(w)
        PROVE  UNCHANGED <<now, start, pc[Main], idx[Main]>>
    BY <1>0, <2>3 DEF Begin, Lock, Find, InfoNoTtl, local
  <2>4. ASSUME InfoKeys(w)
        PROVE  UNCHANGED <<now, start, pc[Main], idx[Main]>>
    BY <1>0, <2>4 DEF InfoKeys, Return
  <2>5. QED
    BY <1>1, <2>1, <2>2, <2>3, <2>4, HandlerSplit
<1>2. ASSUME NEW th \in Thread, Cleanup(th) PROVE th = Main
  BY <1>0, <1>2 DEF Cleanup, CleanupLock, CleanupStep, CleanupUnlock, IInv, MutexInv, Critical
<1>3. CASE CleanupLock(Main)
  BY <1>0, <1>3 DEF CleanupLock
<1>4. CASE CleanupStep(Main)
  BY <1>0, <1>4 DEF CleanupStep
<1>5. CASE CleanupUnlock(Main)
  BY <1>0, <1>5 DEF CleanupUnlock
<1>6. CASE CleanupDue
  BY <1>0, <1>6 DEF CleanupDue, local
<1>7. CASE Tick
  BY <1>0, <1>7 DEF Tick, local
<1>8. CASE UNCHANGED vars
  BY <1>0, <1>8 DEF vars, local
<1>9. QED
  BY <1>0, <1>1, <1>2, <1>3, <1>4, <1>5, <1>6, <1>7, <1>8 DEF Next, Cleanup

\* The clock never goes back behind the cleanup's time.
LEMMA ClockStep ==
  ASSUME IInv, [Next]_vars
  PROVE  ClockInv'
<1>1. start \in Nat /\ now \in Nat /\ start <= now /\ idx[Main] \in Nat
  BY DEF IInv, TypeOK, ClockInv, Thread
<1>2. start' <= now'
  BY <1>1, MainStep
<1>3. ASSUME CleanupStep(Main) PROVE idx'[Main] >= 1
  BY <1>1, <1>3 DEF CleanupStep, IInv, ClockInv, TypeOK, Thread
<1>4. QED
  BY <1>1, <1>2, <1>3, MainStep DEF IInv, ClockInv

\* A step leaves no expired entry behind the cleanup's index.
LEMMA LeavesNoneStep ==
  ASSUME IInv, [Next]_vars
  PROVE  CleanupLeavesNone'
<1> SUFFICES ASSUME pc'[Main] = "scan", NEW i \in DOMAIN store', i < idx'[Main]
             PROVE  store'[i].expire = 0 \/ start' <= store'[i].expire
  BY DEF CleanupLeavesNone
<1>0. /\ store \in Seq(Entry) /\ idx \in [Thread -> Nat] /\ Main \in Thread
      /\ start \in Nat /\ now \in Nat /\ start <= now
      /\ DOMAIN store = 1..Len(store) /\ Len(store) \in Nat /\ i \in Nat \ {0}
  <2>1. /\ store \in Seq(Entry) /\ store' \in Seq(Entry) /\ idx \in [Thread -> Nat]
        /\ start \in Nat /\ now \in Nat /\ start <= now
    BY TypeStep DEF IInv, TypeOK, ClockInv
  <2>2. /\ DOMAIN store = 1..Len(store) /\ Len(store) \in Nat
        /\ DOMAIN store' = 1..Len(store') /\ Len(store') \in Nat
    BY <2>1, LenProperties
  <2>3. QED
    BY <2>1, <2>2 DEF Thread
<1>1. start' = start
  BY MainStep
<1>2. ASSUME pc[Main] = "scan", NEW j \in DOMAIN store, j < idx[Main]
      PROVE  store[j].expire = 0 \/ start <= store[j].expire
  BY <1>2 DEF IInv, CleanupLeavesNone
<1>3. CASE CleanupStep(Main)
  <2>1. pc[Main] = "scan" /\ idx[Main] \in DOMAIN store
    BY <1>0, <1>3 DEF CleanupStep, IInv, ClockInv
  <2>2. CASE Expired(store[idx[Main]])
    <3>1. store' = RemoveAt(store, idx[Main]) /\ idx' = idx
      BY <1>3, <2>2 DEF CleanupStep
    <3>2. i \in 1..(Len(store) - 1) /\ i < idx[Main]
      BY <1>0, <2>1, <3>1, RemoveAtProperties
    <3>3. RemoveAt(store, idx[Main])[i] =
            IF i < idx[Main] THEN store[i] ELSE store[i + 1]
      BY <1>0, <2>1, <3>2, RemoveAtProperties
    <3>4. store'[i] = store[i] /\ i \in DOMAIN store
      BY <1>0, <3>1, <3>2, <3>3
    <3>5. QED
      BY <1>1, <1>2, <2>1, <3>2, <3>4
  <2>3. CASE ~Expired(store[idx[Main]])
    <3>1. store' = store /\ idx'[Main] = idx[Main] + 1
      BY <1>0, <1>3, <2>3 DEF CleanupStep
    <3>2. store[idx[Main]].expire \in Nat
      <4>1. store[idx[Main]] \in Entry
        BY <1>0, <2>1, ElementOfSeq
      <4>2. QED
        BY <4>1 DEF Entry
    <3>3. store[idx[Main]].expire = 0 \/ start <= store[idx[Main]].expire
      BY <1>0, <2>3, <3>2 DEF Expired
    <3>4. i = idx[Main] \/ i < idx[Main]
      BY <1>0, <3>1
    <3>5. QED
      BY <1>1, <1>2, <2>1, <3>1, <3>3, <3>4
  <2>4. QED
    BY <2>2, <2>3
<1>4. CASE ~CleanupStep(Main)
  <2>1. pc[Main] = "scan" /\ idx'[Main] = idx[Main]
    <3>1. ~(i < 1)
      BY <1>0
    <3>2. QED
      BY <1>4, <3>1, MainStep
  <2>2. \A w \in Worker : ~Applying(w)
    BY <2>1, OneInside, ApplyingShape, StoreAssumption DEF Critical, Thread
  <2>3. store' = store
    BY <1>4, <2>2, WriterHolds
  <2>4. QED
    BY <1>1, <1>2, <2>1, <2>3
<1>5. QED
  BY <1>3, <1>4

-----------------------------------------------------------------------------
\* The server begins with an empty array, the mutex free and every worker idle.
LEMMA InitIInv == Init => IInv
<1> SUFFICES ASSUME Init PROVE IInv
  OBVIOUS
<1> USE StoreAssumption DEF Init, Thread
<1>1. TypeOK
  <2>1. /\ pc \in [Thread -> WorkerPC \cup MainPC]
        /\ \A w \in Worker : pc[w] \in WorkerPC
        /\ pc[Main] \in MainPC
    BY DEF WorkerPC, MainPC
  <2>2. /\ cmd \in [Worker -> Lazy!Command \cup {Lazy!NoCommand}]
        /\ reply \in [Worker -> Lazy!Reply]
    BY DEF Lazy!Reply
  <2>3. store \in Seq(Entry) /\ Len(store) = 0
    OBVIOUS
  <2>4. QED
    BY <2>1, <2>2, <2>3 DEF TypeOK
<1>2. MutexInv
  <2>1. \A th \in Thread : pc[th] \in {"idle", "loop"} /\ mutex # th
    OBVIOUS
  <2>2. QED
    BY <2>1 DEF MutexInv, Critical
<1>3. HandlerInv /\ ClockInv
  BY DEF HandlerInv, ClockInv
<1>4. UniqueKeys /\ IndexFresh /\ CleanupLeavesNone
  BY DEF UniqueKeys, IndexFresh, CleanupLeavesNone, At
<1>5. QED
  BY <1>1, <1>2, <1>3, <1>4 DEF IInv

\* No step of a worker, of main or of the clock breaks the invariant.
LEMMA NextIInv == IInv /\ [Next]_vars => IInv'
<1> SUFFICES ASSUME IInv, [Next]_vars PROVE IInv'
  OBVIOUS
<1>1. UniqueKeys'
  BY StoreStep DEF GoodStore, KeysDiffer, UniqueKeys
<1>2. QED
  BY <1>1, TypeStep, MutexStep, HandlerStep, ClockStep, FreshStep, LeavesNoneStep DEF IInv

\* So it holds in every reachable state.
LEMMA Invariant == SafeSpec => []IInv
<1>1. QED
  BY InitIInv, NextIInv, PTL DEF SafeSpec

\* The variables of the store have their types in every state, for any number of
\* workers, keys and entries: an index a handler uses is one of the array's.
THEOREM TypeCorrect == SafeSpec => []TypeOK
<1>1. IInv => TypeOK
  BY DEF IInv
<1>2. QED
  BY Invariant, <1>1, PTL

\* No key ever has two entries, however the SETs of the workers interleave: the
\* mutex is held from the search to the append.
THEOREM KeysStayUnique == SafeSpec => []UniqueKeys
<1>1. IInv => UniqueKeys
  BY DEF IInv
<1>2. QED
  BY Invariant, <1>1, PTL

\* The index a handler found names its key when the handler uses it, although the
\* cleanup and the lazy removals of GET and TTL shift the entries.
THEOREM IndexStaysFresh == SafeSpec => []IndexFresh
<1>1. IInv => IndexFresh
  BY DEF IInv
<1>2. QED
  BY Invariant, <1>1, PTL

\* The cleanup misses no entry that had expired when it began, although a removal
\* shifts the entries under its index.
THEOREM CleanupComplete == SafeSpec => []CleanupLeavesNone
<1>1. IInv => CleanupLeavesNone
  BY DEF IInv
<1>2. QED
  BY Invariant, <1>1, PTL

-----------------------------------------------------------------------------
(* The store implements LazyMap *)

\* LazyMap counts as SharedStore does: it has an instance of FiniteSets of its own.
LEMMA SameCardinality ==
  ASSUME NEW S
  PROVE  Lazy!Cardinality(S) = Cardinality(S)
BY DEF Lazy!Cardinality, Cardinality

\* The map in terms of the array, and the entry a search finds.
LEMMA AsMapProperties ==
  ASSUME IInv
  PROVE  /\ AsMap = MapOf(store) /\ DOMAIN AsMap = KeysOf(store)
         /\ Lazy!Cardinality(DOMAIN AsMap) = Len(store)
         /\ \A i \in DOMAIN store :
              AsMap[store[i].key] = Content(store[i])
<1>1. store \in Seq(Entry) /\ KeysDiffer(store)
  BY DEF IInv, TypeOK, UniqueKeys, KeysDiffer
<1>2. AsMap = MapOf(store)
  BY DEF AsMap, MapOf, KeysOf, Content
<1>3. QED
  BY <1>1, <1>2, MapOfProperties, CountKeys, SameCardinality

\* What each assignment to the array does to the map.
LEMMA AsMapRemoveAt ==
  ASSUME IInv, NEW i \in DOMAIN store, store' = RemoveAt(store, i)
  PROVE  AsMap' = Lazy!Without(AsMap, store[i].key)
<1>1. store \in Seq(Entry) /\ KeysDiffer(store)
  BY DEF IInv, TypeOK, UniqueKeys, KeysDiffer
<1>2. AsMap' = MapOf(store')
  BY DEF AsMap, MapOf, KeysOf, Content
<1>3. QED
  <2>1. AsMap' = MapWithout(AsMap, store[i].key)
    BY <1>1, <1>2, MapOfRemoveAt, AsMapProperties
  <2>2. QED
    BY <2>1 DEF MapWithout, Lazy!Without

\* A new entry adds its key to the map.
LEMMA AsMapAppend ==
  ASSUME IInv, NEW e \in Entry, e.key \notin KeysOf(store), store' = Append(store, e)
  PROVE  AsMap' = Lazy!With(AsMap, e.key, Content(e))
<1>1. store \in Seq(Entry) /\ KeysDiffer(store)
  BY DEF IInv, TypeOK, UniqueKeys, KeysDiffer
<1>2. AsMap' = MapOf(store')
  BY DEF AsMap, MapOf, KeysOf, Content
<1>3. QED
  <2>1. AsMap' = MapWith(AsMap, e.key, Content(e))
    BY <1>1, <1>2, MapOfAppend, AsMapProperties
  <2>2. QED
    BY <2>1 DEF MapWith, Lazy!With

\* An assignment to an entry changes its key's content in the map.
LEMMA AsMapAssign ==
  ASSUME IInv, NEW i \in DOMAIN store
  PROVE  /\ \A v \in Value :
              store' = [store EXCEPT ![i].value = v] =>
                AsMap' = [AsMap EXCEPT ![store[i].key].value = v]
         /\ \A n \in Nat :
              store' = [store EXCEPT ![i].expire = n] =>
                AsMap' = [AsMap EXCEPT ![store[i].key].expire = n]
<1>1. store \in Seq(Entry) /\ KeysDiffer(store)
  BY DEF IInv, TypeOK, UniqueKeys, KeysDiffer
<1>2. AsMap' = MapOf(store')
  BY DEF AsMap, MapOf, KeysOf, Content
<1>3. store[i] \in Entry
  BY <1>1, LenProperties, ElementOfSeq
<1>4. ASSUME NEW e \in Entry, e.key = store[i].key, store' = [store EXCEPT ![i] = e]
      PROVE  AsMap' = [AsMap EXCEPT ![store[i].key] = Content(e)]
  <2>1. MapOf([store EXCEPT ![i] = e]) = MapPut(MapOf(store), e.key, Content(e))
    BY <1>1, <1>4, MapOfAssign
  <2>2. QED
    BY <1>2, <1>4, <2>1, AsMapProperties DEF MapPut
<1>5. AsMap[store[i].key] = Content(store[i])
  BY AsMapProperties
<1>6. ASSUME NEW v \in Value, store' = [store EXCEPT ![i].value = v]
      PROVE  AsMap' = [AsMap EXCEPT ![store[i].key].value = v]
  <2> DEFINE e == [store[i] EXCEPT !.value = v]
  <2>1. e \in Entry /\ e.key = store[i].key /\ e.value = v /\ e.expire = store[i].expire
    BY <1>3 DEF Entry
  <2>2. store' = [store EXCEPT ![i] = e]
    BY <1>6
  <2> HIDE DEF e
  <2>3. AsMap' = [AsMap EXCEPT ![store[i].key] = [value |-> v, expire |-> store[i].expire]]
    BY <1>4, <2>1, <2>2 DEF Content
  <2>4. [AsMap[store[i].key] EXCEPT !.value = v] = [value |-> v, expire |-> store[i].expire]
    BY <1>5 DEF Content
  <2>5. QED
    BY <2>3, <2>4
<1>7. ASSUME NEW n \in Nat, store' = [store EXCEPT ![i].expire = n]
      PROVE  AsMap' = [AsMap EXCEPT ![store[i].key].expire = n]
  <2> DEFINE e == [store[i] EXCEPT !.expire = n]
  <2>1. e \in Entry /\ e.key = store[i].key /\ e.value = store[i].value /\ e.expire = n
    BY <1>3 DEF Entry
  <2>2. store' = [store EXCEPT ![i] = e]
    BY <1>7
  <2> HIDE DEF e
  <2>3. AsMap' = [AsMap EXCEPT ![store[i].key] = [value |-> store[i].value, expire |-> n]]
    BY <1>4, <2>1, <2>2 DEF Content
  <2>4. [AsMap[store[i].key] EXCEPT !.expire = n] = [value |-> store[i].value, expire |-> n]
    BY <1>5 DEF Content
  <2>5. QED
    BY <2>3, <2>4
<1>8. QED
  BY <1>6, <1>7

\* The search for a key, and what it says of the map.
LEMMA IndexInMap ==
  ASSUME IInv, NEW k
  PROVE  /\ IndexOf(k) \in {0} \cup DOMAIN store
         /\ IndexOf(k) # 0 <=> k \in DOMAIN AsMap
         /\ IndexOf(k) # 0 =>
              /\ store[IndexOf(k)].key = k /\ store[IndexOf(k)] \in Entry
              /\ AsMap[k] = Content(store[IndexOf(k)])
<1>1. store \in Seq(Entry) /\ DOMAIN store = 1..Len(store)
  BY LenProperties DEF IInv, TypeOK
<1>2. ASSUME NEW i \in DOMAIN store PROVE store[i] \in Entry
  BY <1>1, ElementOfSeq
<1>3. QED
  BY <1>2, IndexProperties, AsMapProperties

\* A thread's phase is that of its program counter.
LEMMA PhaseMoves ==
  ASSUME IInv, NEW w \in Worker, NEW l, pc' = [pc EXCEPT ![w] = l]
  PROVE  /\ l = "idle" => Phase' = [Phase EXCEPT ![w] = "idle"]
         /\ l \in {"unlock", "noTtl", "keys"} => Phase' = [Phase EXCEPT ![w] = "done"]
         /\ l \in {"lock", "find", "apply", "cleanlock"} => Phase' = [Phase EXCEPT ![w] = "called"]
<1>1. pc \in [Thread -> WorkerPC \cup MainPC] /\ Worker \subseteq Thread
  BY DEF IInv, TypeOK, Thread
<1>2. \A v \in Worker : pc'[v] = IF v = w THEN l ELSE pc[v]
  BY <1>1
<1>3. QED
  BY <1>2 DEF Phase

\* A step of a handler within its call does not change how far the call is.
LEMMA PhaseStays ==
  ASSUME \A w \in Worker : \/ pc'[w] = pc[w]
                           \/ /\ pc[w] \in {"lock", "find", "apply", "cleanlock"}
                              /\ pc'[w] \in {"lock", "find", "apply", "cleanlock"}
                           \/ /\ pc[w] \in {"unlock", "noTtl", "keys"}
                              /\ pc'[w] \in {"unlock", "noTtl", "keys"}
  PROVE  Phase' = Phase
BY DEF Phase

\* A step that leaves the array, the clock, the commands and the replies alone and
\* moves nobody to another phase is a stutter.
LEMMA Stutter ==
  ASSUME UNCHANGED <<store, now, cmd, reply>>, Phase' = Phase
  PROVE  UNCHANGED Lazy!vars
BY DEF Lazy!vars, AsMap

\* A handler's use of the store is where its command takes effect.
LEMMA ApplyingRefines ==
  ASSUME IInv, NEW w \in Worker, Applying(w)
  PROVE  Lazy!Next
<1> DEFINE k == cmd[w].key
           i == IndexOf(k)
<1>0. /\ Phase' = [Phase EXCEPT ![w] = "done"] /\ Phase[w] = "called"
      /\ UNCHANGED <<now, cmd>>
      /\ now \in Nat /\ Len(store) \in Nat
      /\ cmd[w] \in Lazy!Command /\ pc[w] = "apply"
      /\ cmd[w].op \in Searching => idx[w] = i
  <2>1. pc[w] = "apply" /\ pc' = [pc EXCEPT ![w] = "unlock"] /\ UNCHANGED <<now, cmd>>
    BY ApplyingShape
  <2>2. Phase' = [Phase EXCEPT ![w] = "done"] /\ Phase[w] = "called"
    BY <2>1, PhaseMoves DEF Phase
  <2>3. now \in Nat /\ store \in Seq(Entry)
    BY DEF IInv, TypeOK
  <2>4. QED
    BY <2>1, <2>2, <2>3, Under, LenProperties DEF IInv, IndexFresh, At, Searching
<1>1. ASSUME NEW m, NEW r, AsMap' = m, reply' = [reply EXCEPT ![w] = r]
      PROVE  Lazy!Effect(w, m, r)
  BY <1>0, <1>1 DEF Lazy!Effect
<1>2. ASSUME store' = store PROVE AsMap' = AsMap
  BY <1>2 DEF AsMap
<1>3. /\ i \in {0} \cup DOMAIN store
      /\ i # 0 <=> k \in DOMAIN AsMap
      /\ i # 0 => /\ store[i].key = k /\ AsMap[k] = Content(store[i])
                  /\ store[i].value \in Value /\ store[i].expire \in Nat
  BY IndexInMap DEF Entry
<1>4. i # 0 => /\ AsMap[k].value = store[i].value /\ AsMap[k].expire = store[i].expire
               /\ Lazy!Expired(AsMap[k], now) <=> Expired(store[i])
  BY <1>3 DEF Content, Lazy!Expired, Expired
<1> HIDE DEF i
<1>5. CASE SetApply(w)
  <2> DEFINE e == [key |-> k, value |-> cmd[w].value, expire |-> 0]
  <2>1. /\ cmd[w].op = "SET" /\ idx[w] = i
        /\ k \in Key /\ cmd[w].value \in Value
    BY <1>0, <1>5, CommandTypes DEF SetApply, At, Searching
  <2>2. e \in Entry /\ e.key = k /\ Content(e) = [value |-> cmd[w].value, expire |-> 0]
    BY <2>1 DEF Entry, Content
  <2>3. CASE i # 0 /\ Apply(w, [store EXCEPT ![i].value = cmd[w].value], Lazy!Okay)
    <3>1. AsMap' = [AsMap EXCEPT ![k].value = cmd[w].value]
      BY <1>3, <2>1, <2>3, AsMapAssign, ZenonT(30) DEF Apply
    <3>2. Lazy!Effect(w, [AsMap EXCEPT ![k].value = cmd[w].value], Lazy!Okay)
      BY <1>1, <2>3, <3>1 DEF Apply
    <3>3. Lazy!Set(w)
      BY <1>0, <1>3, <2>1, <2>3, <3>2 DEF Lazy!Set, Lazy!Doing
    <3>4. QED
      BY <3>3 DEF Lazy!Next
  <2>4. CASE i = 0 /\ Len(store) < MaxKeys /\ Apply(w, Append(store, e), Lazy!Okay)
    <3>1. AsMap' = Lazy!With(AsMap, k, [value |-> cmd[w].value, expire |-> 0])
      <4>1. e.key \notin KeysOf(store) /\ store' = Append(store, e)
        BY <1>3, <2>2, <2>4, AsMapProperties DEF Apply
      <4> HIDE DEF e
      <4>2. QED
        BY <2>2, <4>1, AsMapAppend
    <3>2. Lazy!Effect(w, Lazy!With(AsMap, k, [value |-> cmd[w].value, expire |-> 0]), Lazy!Okay)
      BY <1>1, <2>4, <3>1 DEF Apply
    <3>3. k \notin DOMAIN AsMap /\ Lazy!Cardinality(DOMAIN AsMap) < MaxKeys
      BY <1>0, <1>3, <2>4, AsMapProperties
    <3>4. Lazy!Set(w)
      BY <1>0, <2>1, <3>2, <3>3 DEF Lazy!Set, Lazy!Doing
    <3>5. QED
      BY <3>4 DEF Lazy!Next
  <2>5. CASE i = 0 /\ Len(store) >= MaxKeys /\ Apply(w, store, Lazy!Full)
    <3>1. Lazy!Effect(w, AsMap, Lazy!Full)
      BY <1>1, <1>2, <2>5 DEF Apply
    <3>2. k \notin DOMAIN AsMap /\ Lazy!Cardinality(DOMAIN AsMap) >= MaxKeys
      BY <1>0, <1>3, <2>5, AsMapProperties
    <3>3. Lazy!Set(w)
      BY <1>0, <2>1, <3>1, <3>2 DEF Lazy!Set, Lazy!Doing
    <3>4. QED
      BY <3>3 DEF Lazy!Next
  <2>6. QED
    BY <1>5, <2>1, <2>3, <2>4, <2>5 DEF SetApply
<1>6. CASE GetApply(w)
  <2>1. cmd[w].op = "GET"
    BY <1>6 DEF GetApply, At
  <2>2. \/ i = 0 /\ Apply(w, store, Lazy!Nil)
        \/ i # 0 /\ Expired(store[i]) /\ Apply(w, RemoveAt(store, i), Lazy!Nil)
        \/ i # 0 /\ ~Expired(store[i]) /\ Apply(w, store, Lazy!Bulk(store[i].value))
    BY <1>6 DEF GetApply, i
  <2>3. CASE i = 0 /\ Apply(w, store, Lazy!Nil)
    <3>1. Lazy!Effect(w, AsMap, Lazy!Nil)
      BY <1>1, <1>2, <2>3 DEF Apply
    <3>2. QED
      BY <1>0, <1>3, <2>1, <2>3, <3>1 DEF Lazy!Get, Lazy!Doing, Lazy!Next
  <2>4. CASE i # 0 /\ Expired(store[i]) /\ Apply(w, RemoveAt(store, i), Lazy!Nil)
    <3>1. Lazy!Effect(w, Lazy!Without(AsMap, k), Lazy!Nil)
      BY <1>1, <1>3, <2>4, AsMapRemoveAt DEF Apply
    <3>2. QED
      BY <1>0, <1>3, <1>4, <2>1, <2>4, <3>1 DEF Lazy!Get, Lazy!Doing, Lazy!Next
  <2>5. CASE i # 0 /\ ~Expired(store[i]) /\ Apply(w, store, Lazy!Bulk(store[i].value))
    <3>1. Lazy!Effect(w, AsMap, Lazy!Bulk(AsMap[k].value))
      BY <1>1, <1>2, <1>4, <2>5 DEF Apply
    <3>2. QED
      BY <1>0, <1>3, <1>4, <2>1, <2>5, <3>1 DEF Lazy!Get, Lazy!Doing, Lazy!Next
  <2>6. QED
    BY <2>2, <2>3, <2>4, <2>5
<1>7. CASE ExpireApply(w)
  <2> DEFINE until == IF cmd[w].secs = 0 THEN 0 ELSE now + cmd[w].secs
  <2>1. cmd[w].op = "EXPIRE" /\ idx[w] = i /\ until \in Nat
    BY <1>0, <1>7, CommandTypes DEF ExpireApply, At, Searching
  <2>2. CASE i = 0 /\ Apply(w, store, Lazy!Number(0))
    <3>1. Lazy!Effect(w, AsMap, Lazy!Number(0))
      BY <1>1, <1>2, <2>2 DEF Apply
    <3>2. QED
      BY <1>0, <1>3, <2>1, <2>2, <3>1 DEF Lazy!Expire, Lazy!Doing, Lazy!Next
  <2>3. CASE i # 0 /\ Apply(w, [store EXCEPT ![i].expire = until], Lazy!Number(1))
    <3>1. AsMap' = [AsMap EXCEPT ![k].expire = until]
      <4> HIDE DEF until
      <4>1. QED
        BY <1>3, <2>1, <2>3, AsMapAssign DEF Apply
    <3>2. Lazy!Effect(w, [AsMap EXCEPT ![k].expire = until], Lazy!Number(1))
      BY <1>1, <2>3, <3>1 DEF Apply
    <3>3. Lazy!Expire(w)
      BY <1>0, <1>3, <2>1, <2>3, <3>2 DEF Lazy!Expire, Lazy!Doing
    <3>4. QED
      BY <3>3 DEF Lazy!Next
  <2>4. QED
    BY <1>7, <2>1, <2>2, <2>3 DEF ExpireApply
<1>8. CASE TtlApply(w)
  <2> DEFINE ttl == store[i].expire - now
  <2>1. cmd[w].op = "TTL" /\ idx[w] = i
    BY <1>0, <1>8 DEF TtlApply, At, Searching
  <2>2. CASE i = 0 /\ Apply(w, store, Lazy!Number(-2))
    <3>1. Lazy!Effect(w, AsMap, Lazy!Number(-2))
      BY <1>1, <1>2, <2>2 DEF Apply
    <3>2. QED
      BY <1>0, <1>3, <2>1, <2>2, <3>1 DEF Lazy!Ttl, Lazy!Doing, Lazy!Next
  <2>3. CASE i # 0 /\ store[i].expire = 0 /\ Apply(w, store, Lazy!Number(-1))
    <3>1. Lazy!Effect(w, AsMap, Lazy!Number(IF AsMap[k].expire = 0 THEN -1 ELSE AsMap[k].expire - now))
      BY <1>1, <1>2, <1>4, <2>3 DEF Apply
    <3>2. ~Lazy!Expired(AsMap[k], now)
      BY <1>4, <2>3 DEF Expired
    <3>3. QED
      BY <1>0, <1>3, <2>1, <2>3, <3>1, <3>2 DEF Lazy!Ttl, Lazy!Doing, Lazy!Next
  <2>4. CASE i # 0 /\ store[i].expire # 0 /\ ttl >= 0 /\ Apply(w, store, Lazy!Number(ttl))
    <3>1. Lazy!Effect(w, AsMap, Lazy!Number(IF AsMap[k].expire = 0 THEN -1 ELSE AsMap[k].expire - now))
      BY <1>1, <1>2, <1>4, <2>4 DEF Apply
    <3>2. ~Lazy!Expired(AsMap[k], now)
      BY <1>0, <1>3, <1>4, <2>4 DEF Expired
    <3>3. QED
      BY <1>0, <1>3, <2>1, <2>4, <3>1, <3>2 DEF Lazy!Ttl, Lazy!Doing, Lazy!Next
  <2>5. CASE i # 0 /\ store[i].expire # 0 /\ ttl < 0 /\ Apply(w, RemoveAt(store, i), Lazy!Number(-2))
    <3>1. Lazy!Effect(w, Lazy!Without(AsMap, k), Lazy!Number(-2))
      BY <1>1, <1>3, <2>5, AsMapRemoveAt DEF Apply
    <3>2. Lazy!Expired(AsMap[k], now)
      BY <1>0, <1>3, <1>4, <2>5 DEF Expired
    <3>3. QED
      BY <1>0, <1>3, <2>1, <2>5, <3>1, <3>2 DEF Lazy!Ttl, Lazy!Doing, Lazy!Next
  <2>6. QED
    BY <1>8, <2>1, <2>2, <2>3, <2>4, <2>5 DEF TtlApply
<1>9. CASE PersistApply(w)
  <2>1. cmd[w].op = "PERSIST" /\ idx[w] = i
    BY <1>0, <1>9 DEF PersistApply, At, Searching
  <2>2. CASE i = 0 /\ Apply(w, store, Lazy!Number(0))
    <3>1. Lazy!Effect(w, AsMap, Lazy!Number(0))
      BY <1>1, <1>2, <2>2 DEF Apply
    <3>2. QED
      BY <1>0, <1>3, <2>1, <2>2, <3>1 DEF Lazy!Persist, Lazy!Doing, Lazy!Next
  <2>3. CASE i # 0 /\ Apply(w, [store EXCEPT ![i].expire = 0], Lazy!Number(1))
    <3> DEFINE never == 0
    <3>1. never \in Nat /\ store' = [store EXCEPT ![i].expire = never]
      BY <2>3 DEF Apply
    <3> HIDE DEF never
    <3>2. i \in DOMAIN store /\ store[i].key = k
      BY <1>3, <2>3
    <3>3. AsMap' = [AsMap EXCEPT ![store[i].key].expire = never]
      BY <3>1, <3>2, AsMapAssign
    <3> USE DEF never
    <3>4. Lazy!Effect(w, [AsMap EXCEPT ![k].expire = 0], Lazy!Number(1))
      BY <1>1, <2>3, <3>2, <3>3 DEF Apply
    <3>5. QED
      BY <1>0, <1>3, <2>1, <2>3, <3>4 DEF Lazy!Persist, Lazy!Doing, Lazy!Next
  <2>4. QED
    BY <1>9, <2>1, <2>2, <2>3 DEF PersistApply
<1>10. CASE FlushApply(w)
  <2>1. AsMap' = [j \in {} |-> 0]
    BY <1>10 DEF FlushApply, Apply, AsMap
  <2>2. Lazy!Effect(w, [j \in {} |-> 0], Lazy!Okay)
    BY <1>1, <1>10, <2>1 DEF FlushApply, Apply
  <2>3. QED
    BY <1>0, <1>10, <2>2 DEF FlushApply, At, Lazy!FlushAll, Lazy!Doing, Lazy!Next
<1>11. CASE InfoCount(w)
  <2> DEFINE n == Cardinality({j \in DOMAIN store : store[j].expire > 0})
             m == Lazy!Cardinality({j \in DOMAIN AsMap : AsMap[j].expire > 0})
  <2>1. n = m
    <3> DEFINE T == Nat \ {0}
    <3>1. ASSUME NEW j \in DOMAIN store PROVE store[j].expire > 0 <=> store[j].expire \in T
      <4>1. store[j] \in Entry
        BY LenProperties, ElementOfSeq DEF IInv, TypeOK
      <4>2. QED
        BY <4>1 DEF Entry
    <3>2. ASSUME NEW j \in DOMAIN AsMap PROVE AsMap[j].expire > 0 <=> AsMap[j].expire \in T
      <4>1. PICK l \in DOMAIN store : store[l].key = j
        BY AsMapProperties DEF KeysOf
      <4>2. AsMap[j] = Content(store[l])
        BY <4>1, AsMapProperties
      <4>3. QED
        BY <3>1, <4>2 DEF Content
    <3>3. /\ n = Cardinality(TimeIn(store, T))
          /\ m = Cardinality(TimeIn(AsMap, T))
      BY <3>1, <3>2, SameCardinality DEF TimeIn
    <3> HIDE DEF T, n, m
    <3>4. store \in Seq(Entry) /\ KeysDiffer(store)
      BY DEF IInv, TypeOK, UniqueKeys, KeysDiffer
    <3>5. QED
      BY <3>3, <3>4, CountKeys, AsMapProperties
  <2>2. Lazy!Effect(w, AsMap, Lazy!Number(n))
    BY <1>1, <1>2, <1>11 DEF InfoCount, Apply
  <2>3. Lazy!Effect(w, AsMap, Lazy!Number(m))
    <3> HIDE DEF n, m
    <3>1. QED
      BY <2>1, <2>2
  <2>4. Lazy!Info(w)
    BY <1>0, <1>11, <2>3 DEF InfoCount, At, Lazy!Info, Lazy!Doing
  <2>5. QED
    BY <2>4 DEF Lazy!Next
<1>12. QED
  BY <1>5, <1>6, <1>7, <1>8, <1>9, <1>10, <1>11 DEF Applying

\* The empty array is the empty map, and no worker has a call.
LEMMA InitRefines == Init => Lazy!Init
<1> SUFFICES ASSUME Init PROVE Lazy!Init
  OBVIOUS
<1>1. AsMap = [k \in {} |-> 0]
  BY DEF Init, AsMap
<1>2. Phase = [w \in Worker |-> "idle"]
  BY StoreAssumption DEF Init, Phase, Thread
<1>3. QED
  BY <1>1, <1>2 DEF Init, Lazy!Init

\* A command begins with a call and ends with a return; the removals of the cleanup
\* are evictions; what a thread does in between is not seen.
LEMMA NextRefines ==
  ASSUME IInv, [Next]_vars
  PROVE  [Lazy!Next]_(Lazy!vars)
<1> USE StoreAssumption DEF Thread, Goto
<1>0. /\ pc \in [Thread -> WorkerPC \cup MainPC]
      /\ \A w \in Worker : pc[w] \notin {"scan", "list"}
  BY DEF IInv, TypeOK, HandlerInv
<1>1. ASSUME NEW w \in Worker, Begin(w) PROVE Lazy!Next
  <2>1. Phase' = [Phase EXCEPT ![w] = "called"] /\ Phase[w] = "idle"
    BY <1>1, PhaseMoves DEF Begin, Phase
  <2>2. AsMap' = AsMap
    BY <1>1 DEF Begin, AsMap
  <2>3. Lazy!Call(w)
    BY <1>1, <2>1, <2>2 DEF Begin, Lazy!Call
  <2>4. QED
    BY <2>3 DEF Lazy!Next
<1>2. ASSUME NEW w \in Worker, Lock(w) PROVE UNCHANGED Lazy!vars
  <2>1. Phase' = Phase
    BY <1>0, <1>2, PhaseStays DEF Lock
  <2>2. QED
    BY <1>2, <2>1, Stutter DEF Lock, local
<1>3. ASSUME NEW w \in Worker, Find(w) PROVE UNCHANGED Lazy!vars
  <2>1. Phase' = Phase
    BY <1>0, <1>3, PhaseStays DEF Find
  <2>2. QED
    BY <1>3, <2>1, Stutter DEF Find
<1>4. ASSUME NEW w \in Worker, Unlock(w) PROVE [Lazy!Next]_(Lazy!vars)
  <2>1. CASE cmd[w].op = "INFO"
    <3>1. Phase' = Phase
      BY <1>0, <1>4, <2>1, PhaseStays DEF Unlock
    <3>2. QED
      BY <1>4, <2>1, <3>1, Stutter DEF Unlock, local
  <2>2. CASE cmd[w].op # "INFO"
    <3>1. Phase' = [Phase EXCEPT ![w] = "idle"] /\ Phase[w] = "done"
      BY <1>4, <2>2, PhaseMoves DEF Unlock, Return, Phase
    <3>2. AsMap' = AsMap
      BY <1>4 DEF Unlock, AsMap
    <3>3. Lazy!Return(w)
      BY <1>4, <2>2, <3>1, <3>2 DEF Unlock, Return, Lazy!Return
    <3>4. QED
      BY <3>3 DEF Lazy!Next
  <2>3. QED
    BY <2>1, <2>2
<1>5. ASSUME NEW w \in Worker, Applying(w) PROVE Lazy!Next
  BY <1>5, ApplyingRefines
<1>6. ASSUME NEW w \in Worker, InfoNoTtl(w) PROVE UNCHANGED Lazy!vars
  <2>1. Phase' = Phase
    BY <1>0, <1>6, PhaseStays DEF InfoNoTtl
  <2>2. QED
    BY <1>6, <2>1, Stutter DEF InfoNoTtl
<1>7. ASSUME NEW w \in Worker, InfoKeys(w) PROVE Lazy!Next
  <2>1. Phase' = [Phase EXCEPT ![w] = "idle"] /\ Phase[w] = "done"
    BY <1>7, PhaseMoves DEF InfoKeys, Return, Phase
  <2>2. AsMap' = AsMap
    BY <1>7 DEF InfoKeys, AsMap
  <2>3. Lazy!Return(w)
    BY <1>7, <2>1, <2>2 DEF InfoKeys, Return, Lazy!Return
  <2>4. QED
    BY <2>3 DEF Lazy!Next
<1>8. CASE CleanupDue
  <2>1. Phase' = Phase
    BY <1>0, <1>8, PhaseStays DEF CleanupDue
  <2>2. QED
    BY <1>8, <2>1, Stutter DEF CleanupDue, local
<1>9. ASSUME NEW th \in Thread, Cleanup(th) PROVE th = Main
  BY <1>0, <1>9 DEF Cleanup, CleanupLock, CleanupStep, CleanupUnlock, IInv, MutexInv, Critical
<1>10. CASE CleanupLock(Main)
  <2>1. Phase' = Phase
    BY <1>0, <1>10, PhaseStays DEF CleanupLock
  <2>2. QED
    BY <1>10, <2>1, Stutter DEF CleanupLock
<1>11. CASE CleanupStep(Main)
  <2>1. Phase' = Phase
    BY <1>11, PhaseStays DEF CleanupStep
  <2>2. CASE ~Expired(store[idx[Main]])
    BY <1>11, <2>1, <2>2, Stutter DEF CleanupStep
  <2>3. CASE Expired(store[idx[Main]])
    <3> DEFINE i == idx[Main]
    <3>1. i \in DOMAIN store /\ store[i] \in Entry
      <4>1. store \in Seq(Entry) /\ i \in Nat
        BY DEF IInv, TypeOK
      <4>2. DOMAIN store = 1..Len(store) /\ Len(store) \in Nat
        BY <4>1, LenProperties
      <4>3. i \in DOMAIN store
        BY <1>11, <4>1, <4>2 DEF CleanupStep, IInv, ClockInv
      <4>4. QED
        BY <4>1, <4>2, <4>3, ElementOfSeq
    <3> HIDE DEF i
    <3>2. AsMap' = Lazy!Without(AsMap, store[i].key)
      BY <1>11, <2>3, <3>1, AsMapRemoveAt DEF CleanupStep, i
    <3>3. /\ store[i].key \in DOMAIN AsMap /\ store[i].key \in Key
          /\ Lazy!Expired(AsMap[store[i].key], now)
      <4>1. AsMap[store[i].key] = Content(store[i]) /\ store[i].key \in DOMAIN AsMap
        BY <3>1, AsMapProperties DEF KeysOf
      <4>2. Lazy!Expired(Content(store[i]), now)
        BY <2>3 DEF Expired, Lazy!Expired, Content, i
      <4>3. QED
        BY <3>1, <4>1, <4>2 DEF Entry
    <3>4. Lazy!Evict(store[i].key)
      BY <1>11, <2>1, <3>2, <3>3 DEF CleanupStep, Lazy!Evict
    <3>5. QED
      BY <3>3, <3>4 DEF Lazy!Next
  <2>4. QED
    BY <2>2, <2>3
<1>12. CASE CleanupUnlock(Main)
  <2>1. Phase' = Phase
    BY <1>0, <1>12, PhaseStays DEF CleanupUnlock
  <2>2. QED
    BY <1>12, <2>1, Stutter DEF CleanupUnlock
<1>13. CASE Tick
  <2>1. Phase' = Phase /\ AsMap' = AsMap
    BY <1>13, PhaseStays DEF Tick, AsMap
  <2>2. Lazy!Tick
    BY <1>13, <2>1 DEF Tick, local, Lazy!Tick
  <2>3. QED
    BY <2>2 DEF Lazy!Next
<1>14. CASE UNCHANGED vars
  <2>1. Phase' = Phase
    BY <1>14, PhaseStays DEF vars
  <2>2. QED
    BY <1>14, <2>1, Stutter DEF vars, local
<1>15. QED
  BY <1>1, <1>2, <1>3, <1>4, <1>5, <1>6, <1>7, <1>8, <1>9, <1>10, <1>11, <1>12, <1>13, <1>14,
     HandlerSplit DEF Next, Cleanup

\* Every command of the server takes effect at one instant between its call and its
\* return, for any number of workers: array, mutex and threads implement the atomic
\* lazy map.
THEOREM StoreIsLazyMap == SafeSpec => LazySpec
<1>1. QED
  BY Invariant, InitRefines, NextRefines, PTL DEF SafeSpec, LazySpec, Lazy!Spec
=============================================================================
