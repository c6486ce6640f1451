------------------------------ MODULE HashTable ------------------------------
(***************************************************************************)
(* The hash table of ch9-hashtable.c and of ch10-redis-with-hashtable.c,   *)
(* and the commands of the server of ch10: chains of entries, new ones at  *)
(* the head.  In ch10 the table doubles when a SET finds it three quarters *)
(* full.  In ch9 that is for ht_set_with_resize, which goes on with the    *)
(* old table when there is no memory for a new one, and ht_set never does  *)
(* it.  A chain is the sequence of its entries, and a call is one step: no *)
(* thread but main uses a table.  DEL and KEYS without an argument leave   *)
(* the reply as it is and are stutters.                                    *)
(***************************************************************************)
EXTENDS Integers, Sequences, FiniteSets, SequencesExt, Arrangement

CONSTANTS Key, Value,
          Hash,        \* Hash[k]: hash_function(k)
          InitialSize, \* the argument of ht_create: 16 in ch10, 8 in ch9
          MinSize      \* the least size that ht_resize of ch9 makes, 16

ASSUME HashTableAssumption ==
  /\ Hash \in [Key -> Nat]
  /\ InitialSize \in Nat \ {0} /\ MinSize \in Nat

VARIABLES program,   \* "ch9" or "ch10"
          buckets,   \* buckets[0..size-1]: the chains
          size, count, threshold,
          reply      \* the last command answered, and the answer

table == <<buckets, size, count, threshold>>
vars == <<program, table, reply>>

Entry == [key : Key, value : Value]

\* The map the chains stand for: a search stops at a key's first entry.
Entries == UNION {Range(buckets[i]) : i \in DOMAIN buckets}
AsMap == [k \in {e.key : e \in Entries} |-> (CHOOSE e \in Entries : e.key = k).value]
Promise == INSTANCE KeyMap WITH map <- AsMap

\* (int)(size * 0.75)
Threshold(n) == (3 * n) \div 4

Empty(n) == [i \in 0..(n - 1) |-> <<>>]

\* ht_create
Init ==
  /\ program \in {"ch9", "ch10"}
  /\ buckets = Empty(InitialSize) /\ size = InitialSize
  /\ count = 0 /\ threshold = Threshold(InitialSize)
  /\ reply = [to |-> <<>>, is |-> Promise!Nil]

-----------------------------------------------------------------------------
(* The table *)

\* The places of the entries: in which chain, and where in it.
Places == UNION {{i} \X DOMAIN buckets[i] : i \in DOMAIN buckets}

\* Every entry, bucket by bucket, in the order of a walk over the table.
Walk ==
  LET at == Arrange(Places, LAMBDA x, y : x[1] < y[1] \/ (x[1] = y[1] /\ x[2] < y[2]))
  IN  [p \in 1..Cardinality(Places) |-> buckets[at[p][1]][at[p][2]]]

\* Mistake: the chains move to the new table as they are.
Rehash_Copy(n) == [i \in 0..(n - 1) |-> IF i < size THEN buckets[i] ELSE <<>>]

\* The entries, in the order of the walk, each at the head of its chain.
Rehash(n) ==
  LET walk == Walk
  IN  [i \in 0..(n - 1) |->
         Reverse(PartAt(walk, {p \in DOMAIN walk : Hash[walk[p].key] % n = i}))]

\* Mistake: count is not reset for the rehash.
Resized_KeepCount(n) ==
  [buckets |-> Rehash(n), size |-> n, threshold |-> Threshold(n), count |-> count + Len(Walk)]

\* ht_resize: the table as it is afterwards.
Resized(n) ==
  [buckets |-> Rehash(n), size |-> n, threshold |-> Threshold(n), count |-> Len(Walk)]

Unchanged == [buckets |-> buckets, size |-> size, threshold |-> threshold, count |-> count]

\* Mistake: the threshold stays that of the table there was no memory for.
Restored_NewThreshold == [Unchanged EXCEPT !.threshold = Threshold(Max({2 * size, MinSize}))]

\* ht_resize of ch9, when calloc fails.
Restored == [Unchanged EXCEPT !.threshold = Threshold(size)]

Full == count >= threshold

\* The position of a key in a chain, 0 if it is not there.
Position(chain, k) == SelectInSeq(chain, LAMBDA e : e.key = k)

Chain(k) == buckets[Hash[k] % size]

\* ht_set behind the resize, on the table t: the entry is updated, or a new one
\* becomes the head of its chain.
Put(t, k, v) ==
  LET i == Hash[k] % t.size
      p == Position(t.buckets[i], k)
      e == [key |-> k, value |-> v]
  IN  /\ size' = t.size /\ threshold' = t.threshold
      /\ \/ /\ p # 0
            /\ buckets' = [t.buckets EXCEPT ![i][p].value = v]
            /\ count' = t.count
         \/ /\ p = 0
            /\ buckets' = [t.buckets EXCEPT ![i] = <<e>> \o @]
            /\ count' = t.count + 1
      /\ Promise!Answer(<<"SET", k, v>>, Promise!Okay)
      /\ UNCHANGED program

-----------------------------------------------------------------------------
(* The calls and commands *)

\* Mistake: the table doubles when it is past the threshold, not when it is at it.
Set_Late(k, v) ==
  /\ program = "ch10"
  /\ Put(IF count > threshold THEN Resized(2 * size) ELSE Unchanged, k, v)

\* ht_set of ch10.
Set(k, v) ==
  /\ program = "ch10"
  /\ Put(IF Full THEN Resized(2 * size) ELSE Unchanged, k, v)

\* ht_set of ch9: the line where it would resize only says so.
SetPlain(k, v) == program = "ch9" /\ Put(Unchanged, k, v)

\* ht_set_with_resize of ch9.
SetWithResize(k, v) ==
  /\ program = "ch9"
  /\ \/ ~Full /\ Put(Unchanged, k, v)
     \/ Full /\ Put(Resized(Max({2 * size, MinSize})), k, v)
     \/ Full /\ Put(Restored, k, v)

\* ht_get
Get(k) ==
  LET p == Position(Chain(k), k)
  IN  /\ Promise!Answer(<<"GET", k>>,
                      IF p = 0 THEN Promise!Nil ELSE Promise!Bulk(Chain(k)[p].value))
      /\ UNCHANGED <<program, table>>

\* Mistake: the chain behind a deleted head is lost.
Del_DropsChain(k) ==
  LET i == Hash[k] % size
      p == Position(buckets[i], k)
  IN  /\ p # 0
      /\ buckets' = [buckets EXCEPT ![i] = SubSeq(@, 1, p - 1)]
      /\ count' = count - 1
      /\ Promise!Answer(<<"DEL", k>>, Promise!Number(1))
      /\ UNCHANGED <<program, size, threshold>>

\* ht_delete: the entry is unlinked from its chain, or there is none.
Del(k) ==
  LET i == Hash[k] % size
      p == Position(buckets[i], k)
  IN  /\ p # 0
      /\ buckets' = [buckets EXCEPT ![i] = RemoveAt(@, p)]
      /\ count' = count - 1
      /\ Promise!Answer(<<"DEL", k>>, Promise!Number(1))
      /\ UNCHANGED <<program, size, threshold>>

DelMissing(k) ==
  /\ Position(Chain(k), k) = 0
  /\ Promise!Answer(<<"DEL", k>>, Promise!Number(0))
  /\ UNCHANGED <<program, table>>

\* ht_get_keys: the keys of a walk over the table go to an array of count keys.
Keys ==
  /\ Promise!Answer(<<"KEYS", "*">>, Promise!List(count, {e.key : e \in Range(Walk)}))
  /\ UNCHANGED <<program, table>>

\* The server's KEYS with another pattern than *, which matches nothing.
KeysNone ==
  /\ program = "ch10"
  /\ Promise!Answer(<<"KEYS", "?">>, Promise!List(0, {}))
  /\ UNCHANGED <<program, table>>

\* ht_free, and a new table of 16 buckets.
FlushAll ==
  /\ program = "ch10"
  /\ buckets' = Empty(InitialSize) /\ size' = InitialSize
  /\ count' = 0 /\ threshold' = Threshold(InitialSize)
  /\ Promise!Answer(<<"FLUSHALL">>, Promise!Okay)
  /\ UNCHANGED program

Info ==
  /\ program = "ch10"
  /\ Promise!Answer(<<"INFO">>, Promise!Number(count))
  /\ UNCHANGED <<program, table>>

\* PING, and what is no command.
Other ==
  /\ program = "ch10"
  /\ \/ Promise!Answer(<<"PING">>, Promise!Pong)
     \/ Promise!Answer(<<"?">>, Promise!Error)
  /\ UNCHANGED <<program, table>>

-----------------------------------------------------------------------------
execute_command ==
  \/ \E k \in Key : Get(k) \/ Del(k) \/ DelMissing(k) \/ \E v \in Value : Set(k, v)
  \/ Keys \/ KeysNone \/ FlushAll \/ Info \/ Other

Next ==
  \/ execute_command
  \/ \E k \in Key, v \in Value : SetPlain(k, v) \/ SetWithResize(k, v)

Spec == Init /\ [][Next]_vars

-----------------------------------------------------------------------------
(* Properties *)

TypeOK ==
  /\ size \in Nat \ {0} /\ count \in Nat /\ threshold = Threshold(size)
  /\ DOMAIN buckets = 0..(size - 1)
  /\ \A i \in DOMAIN buckets : buckets[i] \in Seq(Entry)

\* Every entry is in the chain its hash selects, and no key has two: a resize that
\* comes between two SETs of a key neither hides nor repeats it, and one that fails
\* leaves every key where it was.
EveryKeyPlaced ==
  \A i, j \in DOMAIN buckets :
    \A p \in DOMAIN buckets[i], q \in DOMAIN buckets[j] :
      /\ Hash[buckets[i][p].key] % size = i
      /\ buckets[i][p].key = buckets[j][q].key => i = j /\ p = q

\* count is the number of entries: KEYS allocates an array of count keys and fills
\* it from a walk over all entries.
CountExact == count = Len(Walk)

\* The table of the server is never more than three quarters full: its chains stay
\* short however many keys are set, updated and deleted, in whatever order.
LoadBounded == program = "ch10" => count <= threshold

\* The answers are those of a map.
PromiseSpec == Promise!Spec
=============================================================================
