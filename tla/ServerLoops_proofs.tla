-------------------------- MODULE ServerLoops_proofs --------------------------
(***************************************************************************)
(* Proofs about the epoll server of ch6, the select server of ch5 and the  *)
(* blocking server of ch4, for any clients, descriptors, keys, batch sizes *)
(* and client arrays: main never holds a descriptor that is closed, the    *)
(* client array follows the descriptors exactly, and the arrays answer as  *)
(* a map does, for all of the clients' doings.                             *)
(*                                                                         *)
(* And about the parser and the serializer of ch4, for any characters,     *)
(* numbers, lengths and depth of arrays: a value that is written is read   *)
(* back from wherever it stands in a text.                                 *)
(***************************************************************************)
EXTENDS Servers, CommonLemmas

-----------------------------------------------------------------------------
(* Sequences without repetition *)

Distinct(s) == \A i, j \in DOMAIN s : s[i] = s[j] => i = j

\* Without the first element the others are left.
LEMMA DistinctTail ==
  ASSUME NEW S, NEW s \in Seq(S), s # <<>>, Distinct(s)
  PROVE  /\ Head(s) \in Range(s) /\ Tail(s) \in Seq(S) /\ Distinct(Tail(s))
         /\ Range(Tail(s)) = Range(s) \ {Head(s)}
<1>1. DOMAIN s = 1..Len(s) /\ Len(s) \in Nat \ {0} /\ Head(s) = s[1]
  BY LenProperties, EmptySeq
<1>2. /\ Tail(s) \in Seq(S) /\ Len(Tail(s)) = Len(s) - 1
      /\ \A i \in 1..Len(Tail(s)) : Tail(s)[i] = s[i + 1]
  BY HeadTailProperties
<1> DEFINE t == Tail(s)
<1>3. DOMAIN t = 1..(Len(s) - 1) /\ \A i \in DOMAIN t : i + 1 \in DOMAIN s /\ t[i] = s[i + 1]
  BY <1>1, <1>2, LenProperties
<1>4. \A j \in DOMAIN s : j = 1 \/ (j - 1 \in DOMAIN t /\ t[j - 1] = s[j])
  <2> SUFFICES ASSUME NEW j \in DOMAIN s, j # 1 PROVE j - 1 \in DOMAIN t /\ t[j - 1] = s[j]
    OBVIOUS
  <2>1. j - 1 \in 1..(Len(s) - 1) /\ (j - 1) + 1 = j
    BY <1>1
  <2>2. QED
    BY <1>3, <2>1
<1> HIDE DEF t
<1>5. Distinct(t)
  BY <1>1, <1>3 DEF Distinct
<1>6. \A i \in DOMAIN t : t[i] # s[1]
  BY <1>1, <1>3 DEF Distinct
<1>7. Range(t) = Range(s) \ {s[1]}
  BY <1>1, <1>3, <1>4, <1>6 DEF Range
<1>8. 1 \in DOMAIN s
  BY <1>1
<1>9. s[1] \in Range(s)
  BY <1>8, Zenon DEF Range
<1>10. QED
  BY <1>1, <1>2, <1>5, <1>7, <1>9 DEF t

\* A new element at the end adds one.
LEMMA DistinctAppend ==
  ASSUME NEW S, NEW s \in Seq(S), NEW e \in S
  PROVE  /\ Append(s, e) \in Seq(S) /\ Range(Append(s, e)) = Range(s) \cup {e}
         /\ Distinct(s) /\ e \notin Range(s) => Distinct(Append(s, e))
<1> DEFINE t == Append(s, e)
<1>1. DOMAIN s = 1..Len(s) /\ Len(s) \in Nat
  BY LenProperties
<1>2. /\ t \in Seq(S) /\ Len(t) = Len(s) + 1
      /\ \A i \in 1..Len(s) : t[i] = s[i]
      /\ t[Len(s) + 1] = e
  BY AppendProperties
<1> HIDE DEF t
<1>3. DOMAIN t = DOMAIN s \cup {Len(s) + 1} /\ Len(s) + 1 \notin DOMAIN s
  <2>1. DOMAIN t = 1..(Len(s) + 1)
    BY <1>2, LenProperties
  <2>2. QED
    BY <1>1, <2>1
<1>4. Range(t) = Range(s) \cup {e}
  BY <1>1, <1>2, <1>3 DEF Range
<1>5. Distinct(s) /\ e \notin Range(s) => Distinct(t)
  BY <1>1, <1>2, <1>3 DEF Distinct, Range
<1>6. QED
  BY <1>2, <1>4, <1>5 DEF t

\* The part of a sequence at some positions repeats nothing that the sequence does
\* not have twice there.
LEMMA DistinctPart ==
  ASSUME NEW S, NEW s \in Seq(S), NEW I \in SUBSET DOMAIN s,
         \A i, j \in I : s[i] = s[j] => i = j
  PROVE  /\ PartAt(s, I) \in Seq(S) /\ Distinct(PartAt(s, I))
         /\ Range(PartAt(s, I)) = {s[i] : i \in I}
<1> DEFINE t == PartAt(s, I)
           n == Cardinality(I)
<1>1. t \in Seq(S) /\ Len(t) = n /\ IsFiniteSet(I)
  BY PartAtProperties
<1>2. PICK at \in [1..n -> I] :
              /\ \A p, q \in 1..n : p < q => at[p] < at[q]
              /\ \A i \in I : \E p \in 1..n : at[p] = i
              /\ \A p \in 1..n : t[p] = s[at[p]]
  BY PartAtProperties, SMTT(30)
<1>3. n \in Nat /\ DOMAIN t = 1..n /\ I \subseteq Nat
  BY <1>1, LenProperties, FS_CardinalityType
<1> HIDE DEF t, n
<1>4. \A p, q \in 1..n : at[p] = at[q] => p = q
  BY <1>2, <1>3
<1>5. Distinct(t)
  BY <1>2, <1>3, <1>4 DEF Distinct
<1>6. Range(t) = {s[i] : i \in I}
  <2>1. \A p \in DOMAIN t : \E i \in I : t[p] = s[i]
    BY <1>2, <1>3
  <2>2. \A i \in I : \E p \in DOMAIN t : s[i] = t[p]
    BY <1>2, <1>3
  <2>3. QED
    <3>1. ASSUME NEW x \in Range(t) PROVE x \in {s[i] : i \in I}
      <4>1. PICK p \in DOMAIN t : x = t[p]
        BY DEF Range
      <4>2. QED
        BY <2>1, <4>1
    <3>2. {s[i] : i \in I} \subseteq Range(t)
      BY <2>2, Zenon DEF Range
    <3>3. QED
      BY <3>1, <3>2
<1>7. QED
  BY <1>1, <1>5, <1>6 DEF t

\* A sequence cut in two.
LEMMA DistinctCut ==
  ASSUME NEW S, NEW s \in Seq(S), Distinct(s), NEW n \in Nat, n <= Len(s)
  PROVE  LET front == SubSeq(s, 1, n)
             back == SubSeq(s, n + 1, Len(s))
         IN  /\ front \in Seq(S) /\ back \in Seq(S) /\ Distinct(front) /\ Distinct(back)
             /\ Range(front) \cup Range(back) = Range(s)
             /\ Range(front) \cap Range(back) = {}
<1> DEFINE front == SubSeq(s, 1, n)
           back == SubSeq(s, n + 1, Len(s))
<1>1. DOMAIN s = 1..Len(s) /\ Len(s) \in Nat /\ \A i \in 1..Len(s) : s[i] \in S
  BY LenProperties, ElementOfSeq
<1>2. /\ front \in Seq(S) /\ Len(front) = n
      /\ \A i \in 1..n : front[i] = s[i]
  <2>1. \A i \in 1..n : s[i] \in S
    BY <1>1
  <2>2. /\ front \in Seq(S) /\ Len(front) = IF 1 <= n THEN n - 1 + 1 ELSE 0
        /\ \A i \in 1..(n - 1 + 1) : front[i] = s[1 + i - 1]
    BY <2>1, SubSeqProperties
  <2> HIDE DEF front
  <2>3. n - 1 + 1 = n /\ \A i \in 1..n : 1 + i - 1 = i
    OBVIOUS
  <2>4. QED
    BY <2>2, <2>3
<1>3. /\ back \in Seq(S) /\ Len(back) = Len(s) - n
      /\ \A i \in 1..(Len(s) - n) : back[i] = s[n + i]
  <2>1. \A i \in (n + 1)..Len(s) : s[i] \in S
    BY <1>1
  <2>2. /\ back \in Seq(S) /\ Len(back) = IF n + 1 <= Len(s) THEN Len(s) - (n + 1) + 1 ELSE 0
        /\ \A i \in 1..(Len(s) - (n + 1) + 1) : back[i] = s[(n + 1) + i - 1]
    BY <1>1, <2>1, SubSeqProperties
  <2> HIDE DEF back
  <2>3. Len(s) - (n + 1) + 1 = Len(s) - n /\ \A i \in Nat : (n + 1) + i - 1 = n + i
    BY <1>1
  <2>4. Len(back) = Len(s) - n
    <3>1. CASE n + 1 <= Len(s)
      BY <2>2, <2>3, <3>1
    <3>2. CASE ~(n + 1 <= Len(s))
      <4>1. Len(s) \in Nat
        BY <1>1
      <4>2. Len(s) - n = 0
        BY <3>2, <4>1
      <4>3. Len(back) = 0
        BY <2>2, <3>2
      <4>4. QED
        BY <4>2, <4>3
    <3>3. QED
      BY <3>1, <3>2
  <2>5. ASSUME NEW i \in 1..(Len(s) - n) PROVE back[i] = s[n + i]
    <3>1. i \in 1..(Len(s) - (n + 1) + 1)
      BY <2>3
    <3>2. back[i] = s[(n + 1) + i - 1]
      BY <2>2, <3>1
    <3>3. (n + 1) + i - 1 = n + i
      OBVIOUS
    <3>4. QED
      BY <3>2, <3>3
  <2>6. QED
    BY <2>2, <2>4, <2>5
<1> HIDE DEF front, back
<1>4. DOMAIN front = 1..n /\ DOMAIN back = 1..(Len(s) - n)
  BY <1>2, <1>3, LenProperties
<1>5. /\ \A i \in DOMAIN front : i \in DOMAIN s /\ i <= n /\ front[i] = s[i]
      /\ \A i \in DOMAIN back : n + i \in DOMAIN s /\ ~(n + i <= n) /\ back[i] = s[n + i]
  BY <1>1, <1>2, <1>3, <1>4
<1>6. Distinct(front) /\ Distinct(back)
  <2>1. \A i, j \in DOMAIN back : n + i = n + j => i = j
    BY <1>1, <1>4
  <2>2. QED
    BY <1>5, <2>1 DEF Distinct
<1>7. \A i \in DOMAIN front, j \in DOMAIN back : front[i] # back[j]
  BY <1>5 DEF Distinct
<1>8. Range(front) \cup Range(back) = Range(s)
  <2>1. \A j \in DOMAIN s :
          \/ j \in DOMAIN front /\ s[j] = front[j]
          \/ j - n \in DOMAIN back /\ s[j] = back[j - n]
    <3>1. ASSUME NEW j \in DOMAIN s, j <= n PROVE j \in DOMAIN front /\ s[j] = front[j]
      BY <1>1, <1>2, <1>4, <3>1
    <3>2. ASSUME NEW j \in DOMAIN s, ~(j <= n)
          PROVE  j - n \in DOMAIN back /\ s[j] = back[j - n]
      <4>1. j - n \in 1..(Len(s) - n) /\ n + (j - n) = j
        BY <1>1, <3>2
      <4>2. QED
        BY <1>3, <1>4, <4>1
    <3>3. QED
      BY <3>1, <3>2
  <2>2. QED
    BY <1>5, <2>1 DEF Range
<1>9. QED
  BY <1>2, <1>3, <1>6, <1>7, <1>8 DEF front, back, Range

-----------------------------------------------------------------------------
(* The arrays *)

\* The entries of an array have different keys.
GoodStore(s) == s \in Seq(Entry) /\ KeysDiffer(s)

\* The place at which a search from the front stops, and the map the searches show.
Found(s, k) == SelectInSeq(s, LAMBDA e : e.key = k)

ArrayMap(s) == [k \in KeysOf(s) |-> s[Found(s, k)].value]

\* A search stops at the entry with the key, at 0 if there is none.
LEMMA SearchArray ==
  ASSUME NEW s, GoodStore(s), NEW k
  PROVE  \/ Found(s, k) = 0 /\ k \notin KeysOf(s)
         \/ /\ Found(s, k) \in DOMAIN s /\ Found(s, k) # 0
            /\ s[Found(s, k)].key = k /\ k \in KeysOf(s)
<1> DEFINE I == {i \in 1..Len(s) : s[i].key = k}
<1>1. DOMAIN s = 1..Len(s) /\ Len(s) \in Nat
  BY LenProperties DEF GoodStore
<1>2. Found(s, k) = IF I # {} THEN Min(I) ELSE 0
  BY DEF Found, SelectInSeq
<1>3. I # {} => Min(I) \in I
  <2>1. I \in SUBSET Nat
    BY <1>1
  <2>2. QED
    BY <2>1, MinProperties
<1>4. QED
  BY <1>1, <1>2, <1>3 DEF KeysOf

\* So the array stands for the map of its entries.
LEMMA ArrayMapIs ==
  ASSUME NEW s, GoodStore(s)
  PROVE  /\ ArrayMap(s) = ValueMap(ToSet(s)) /\ DOMAIN ArrayMap(s) = KeysOf(s)
         /\ Keyed(ToSet(s)) /\ KeysIn(ToSet(s)) = KeysOf(s)
         /\ Len(s) = Cardinality(KeysOf(s))
<1> DEFINE E == ToSet(s)
<1>1. Keyed(E) /\ KeysIn(E) = KeysOf(s) /\ Len(s) = Cardinality(KeysOf(s))
  BY EntriesProperties, CountKeys DEF GoodStore
<1>2. IsMap(ArrayMap(s), KeysIn(E)) /\ DOMAIN ArrayMap(s) = KeysOf(s)
  BY <1>1 DEF ArrayMap, IsMap
<1>3. ASSUME NEW i \in DOMAIN s PROVE ArrayMap(s)[s[i].key] = s[i].value
  <2>1. s[i].key \in KeysOf(s)
    BY DEF KeysOf
  <2>2. Found(s, s[i].key) = i
    BY <2>1, SearchArray DEF GoodStore, KeysDiffer
  <2>3. QED
    BY <2>1, <2>2 DEF ArrayMap
<1>4. \A e \in E : ArrayMap(s)[e.key] = e.value
  BY <1>3 DEF ToSet
<1>5. ArrayMap(s) = ValueMap(E)
  BY <1>1, <1>2, <1>4, ValueMapProperties
<1>6. QED
  BY <1>1, <1>2, <1>5

\* What the commands do to the array they do to the map.
LEMMA ArrayChanges ==
  ASSUME NEW s, GoodStore(s)
  PROVE  /\ \A i \in DOMAIN s :
              /\ GoodStore(RemoveAt(s, i))
              /\ ArrayMap(RemoveAt(s, i)) = MapWithout(ArrayMap(s), s[i].key)
         /\ \A e \in Entry : e.key \notin KeysOf(s) =>
              /\ GoodStore(Append(s, e))
              /\ ArrayMap(Append(s, e)) = MapWith(ArrayMap(s), e.key, e.value)
         /\ \A i \in DOMAIN s : \A v \in Value :
              /\ GoodStore([s EXCEPT ![i].value = v])
              /\ ArrayMap([s EXCEPT ![i].value = v]) = MapWith(ArrayMap(s), s[i].key, v)
<1> DEFINE E == ToSet(s)
<1>1. /\ s \in Seq(Entry) /\ KeysDiffer(s) /\ Keyed(E) /\ KeysIn(E) = KeysOf(s)
      /\ ArrayMap(s) = ValueMap(E)
      /\ \A i \in DOMAIN s : s[i] \in Entry /\ s[i] \in E
  <2>1. \A i \in DOMAIN s : s[i] \in Entry
    BY LenProperties, ElementOfSeq DEF GoodStore
  <2>2. QED
    BY <2>1, ArrayMapIs, EntriesProperties DEF GoodStore
<1>2. ASSUME NEW i \in DOMAIN s
      PROVE  /\ GoodStore(RemoveAt(s, i))
             /\ ArrayMap(RemoveAt(s, i)) = MapWithout(ArrayMap(s), s[i].key)
  <2>1. GoodStore(RemoveAt(s, i))
    BY <1>1, RemoveAtProperties, KeysDifferRemoveAt DEF GoodStore
  <2>2. ToSet(RemoveAt(s, i)) = E \ {s[i]}
    BY <1>1, EntriesProperties
  <2>3. ValueMap(E \ {s[i]}) = MapWithout(ValueMap(E), s[i].key)
    BY <1>1, ValueMapChanges
  <2>4. QED
    BY <1>1, <2>1, <2>2, <2>3, ArrayMapIs
<1>3. ASSUME NEW e \in Entry, e.key \notin KeysOf(s)
      PROVE  /\ GoodStore(Append(s, e))
             /\ ArrayMap(Append(s, e)) = MapWith(ArrayMap(s), e.key, e.value)
  <2>1. GoodStore(Append(s, e))
    BY <1>1, <1>3, AppendProperties, KeysDifferAppend DEF GoodStore
  <2>2. ToSet(Append(s, e)) = E \cup {e}
    BY <1>1, EntriesProperties
  <2>3. E = {d \in E : d.key # e.key}
    BY <1>1, <1>3 DEF KeysIn
  <2>4. ValueMap(E \cup {e}) = MapWith(ValueMap(E), e.key, e.value)
    BY <1>1, <2>3, ValueMapChanges, ZenonT(30)
  <2>5. QED
    BY <1>1, <2>1, <2>2, <2>4, ArrayMapIs
<1>4. ASSUME NEW i \in DOMAIN s, NEW v \in Value
      PROVE  /\ GoodStore([s EXCEPT ![i].value = v])
             /\ ArrayMap([s EXCEPT ![i].value = v]) = MapWith(ArrayMap(s), s[i].key, v)
  <2> DEFINE e == [s[i] EXCEPT !.value = v]
             t == [s EXCEPT ![i] = e]
             F == E \ {s[i]}
  <2>1. e \in Entry /\ e.key = s[i].key /\ e.value = v /\ [s EXCEPT ![i].value = v] = t
    BY <1>1 DEF Entry
  <2> HIDE DEF e
  <2>2. GoodStore(t)
    BY <1>1, <2>1, AssignProperties DEF GoodStore
  <2>3. ToSet(t) = F \cup {e}
    BY <1>1, EntriesProperties
  <2>4. F = {d \in E : d.key # e.key}
    BY <1>1, <2>1 DEF Keyed
  <2>5. ValueMap(F \cup {e}) = MapWith(ValueMap(E), e.key, e.value)
    BY <1>1, <2>4, ValueMapChanges, ZenonT(30)
  <2>6. QED
    BY <1>1, <2>1, <2>2, <2>3, <2>5, ArrayMapIs
<1>5. QED
  BY <1>2, <1>3, <1>4

\* The abstract map counts as the module does: it has its own name for the operator.
LEMMA SameCardinality ==
  ASSUME NEW S
  PROVE  Map!Cardinality(S) = Cardinality(S)
BY DEF Map!Cardinality, Cardinality

\* A command keeps the keys of the array different, and is a command of the map with
\* the same answer; DEL and KEYS without an argument do nothing.
LEMMA CommandEffect ==
  ASSUME GoodStore(store), execute_command \/ BareUninitialized
  PROVE  GoodStore(store)' /\ [Map!Next]_(Map!vars)
<1>1. AsMap = ArrayMap(store) /\ AsMap' = ArrayMap(store')
  <2>1. \A k : IndexOf(k) = Found(store, k) /\ IndexOf(k)' = Found(store', k)
    BY DEF IndexOf, Found, SelectInSeq
  <2>2. QED
    BY <2>1 DEF AsMap, ArrayMap, KeysOf
<1>2. \A k : IndexOf(k) = Found(store, k)
  BY DEF IndexOf, Found
<1>3. DOMAIN AsMap = KeysOf(store) /\ Len(store) = Cardinality(KeysOf(store))
  BY <1>1, ArrayMapIs
<1>4. store' = store => GoodStore(store)' /\ AsMap' = AsMap
  BY <1>1
<1>5. ASSUME NEW k \in Key, NEW v \in Value, Set(k, v)
      PROVE  GoodStore(store)' /\ Map!Set(k, v)
  <2>1. GoodStore(store') /\ AsMap' = MapWith(AsMap, k, v)
    <3>1. CASE IndexOf(k) = 0
      <4> DEFINE e == [key |-> k, value |-> v]
      <4>1. e \in Entry /\ e.key = k /\ e.value = v /\ k \notin KeysOf(store)
        BY <1>2, <3>1, SearchArray DEF Entry
      <4>2. store' = Append(store, e)
        BY <1>5, <3>1 DEF Set
      <4> HIDE DEF e
      <4>3. QED
        BY <1>1, <4>1, <4>2, ArrayChanges
    <3>2. CASE IndexOf(k) # 0
      <4>1. IndexOf(k) \in DOMAIN store /\ store[IndexOf(k)].key = k
        BY <1>2, <3>2, SearchArray
      <4>2. store' = [store EXCEPT ![IndexOf(k)].value = v]
        BY <1>5, <3>2 DEF Set
      <4>3. QED
        BY <1>1, <4>1, <4>2, ArrayChanges
    <3>3. QED
      BY <3>1, <3>2
  <2>2. QED
    BY <1>5, <2>1 DEF Set, Map!Set, MapWith
<1>6. ASSUME NEW k \in Key, Get(k)
      PROVE  GoodStore(store)' /\ Map!Get(k)
  <2>1. \/ IndexOf(k) = 0 /\ k \notin DOMAIN AsMap
        \/ IndexOf(k) # 0 /\ k \in DOMAIN AsMap /\ AsMap[k] = store[IndexOf(k)].value
    BY <1>1, <1>2, <1>3, SearchArray DEF ArrayMap
  <2>2. QED
    BY <1>4, <1>6, <2>1 DEF Get, Map!Get
<1>7. ASSUME NEW k \in Key, Del(k)
      PROVE  GoodStore(store)' /\ Map!Del(k)
  <2>1. CASE IndexOf(k) = 0
    <3>1. k \notin DOMAIN AsMap
      BY <1>2, <1>3, <2>1, SearchArray
    <3>2. store' = store /\ Map!Answer(<<"DEL", k>>, Map!Number(0))
      BY <1>7, <2>1 DEF Del
    <3>3. AsMap = [j \in DOMAIN AsMap \ {k} |-> AsMap[j]]
      <4>1. AsMap = [j \in DOMAIN AsMap |-> AsMap[j]]
        BY DEF AsMap
      <4>2. DOMAIN AsMap \ {k} = DOMAIN AsMap
        BY <3>1
      <4>3. QED
        BY <4>1, <4>2
    <3>4. QED
      BY <1>4, <3>1, <3>2, <3>3 DEF Map!Del
  <2>2. CASE IndexOf(k) # 0
    <3>1. IndexOf(k) \in DOMAIN store /\ store[IndexOf(k)].key = k /\ k \in DOMAIN AsMap
      BY <1>2, <1>3, <2>2, SearchArray
    <3>2. store' = RemoveAt(store, IndexOf(k)) /\ Map!Answer(<<"DEL", k>>, Map!Number(1))
      BY <1>7, <2>2 DEF Del
    <3>3. GoodStore(store') /\ AsMap' = MapWithout(AsMap, k)
      BY <1>1, <3>1, <3>2, ArrayChanges
    <3>4. QED
      BY <3>1, <3>2, <3>3 DEF Map!Del, MapWithout
  <2>3. QED
    BY <2>1, <2>2
<1>8. CASE Keys
  <2>1. {store[i].key : i \in DOMAIN store} = DOMAIN AsMap
    BY <1>3 DEF KeysOf
  <2>2. Len(store) = Map!Cardinality(DOMAIN AsMap)
    BY <1>3, SameCardinality
  <2>3. QED
    BY <1>4, <1>8, <2>1, <2>2 DEF Keys, Map!Keys, Map!Next
<1>9. CASE FlushAll
  <2>1. GoodStore(<<>>) /\ KeysOf(<<>>) = {}
    BY DEF GoodStore, KeysDiffer, KeysOf
  <2>2. AsMap' = [k \in {} |-> 0]
    BY <1>1, <1>9, <2>1 DEF FlushAll, ArrayMap
  <2>3. QED
    BY <1>9, <2>1, <2>2 DEF FlushAll, Map!FlushAll, Map!Next
<1>10. CASE Other
  BY <1>4, <1>10 DEF Other, Map!Other, Map!Next
<1>11. CASE Bare
  BY <1>4, <1>11 DEF Bare, Map!vars
<1>12. CASE BareUninitialized
  BY <1>4, <1>12 DEF BareUninitialized, Map!Unanswered, Map!Next
<1>13. QED
  BY <1>5, <1>6, <1>7, <1>8, <1>9, <1>10, <1>11, <1>12 DEF execute_command, Map!Next

\* The empty array is the empty map.
LEMMA StoreInitRefines ==
  ASSUME StoreInit
  PROVE  GoodStore(store) /\ Map!Init
<1>1. GoodStore(<<>>) /\ KeysOf(<<>>) = {}
  BY DEF GoodStore, KeysDiffer, KeysOf
<1>2. AsMap = [k \in {} |-> 0]
  BY <1>1 DEF StoreInit, AsMap, KeysOf
<1>3. QED
  BY <1>1, <1>2 DEF StoreInit, Map!Init

-----------------------------------------------------------------------------
(* Connections *)

Usable == {ServerFD} \cup (FD \ Free)

\* A client has one place at most: in the backlog, or behind one descriptor.
OwnerInv ==
  /\ Distinct(backlog)
  /\ \A c \in Client : c \in Range(backlog) <=> conn[c] = "backlog"
  /\ \A d \in FD \ Free : conn[table[d]] = "open"
  /\ \A d, e \in FD \ Free : table[d] = table[e] => d = e

SocketInv ==
  /\ conn \in [Client -> {"none", "backlog", "open"}]
  /\ inbox \in [Client -> BOOLEAN] /\ gone \in [Client -> BOOLEAN]
  /\ torn \in [Client -> BOOLEAN]
  /\ backlog \in Seq(Client) /\ table \in [FD -> Client \cup {NULL}]
  /\ OwnerInv

\* The ready list and the batch have open descriptors, each once, and the one main
\* reads is open and not in the batch any more.
ReadyInv ==
  ready \in Seq(FD \cup {ServerFD}) /\ Range(ready) \subseteq Usable /\ Distinct(ready)

BatchInv ==
  /\ batch \in Seq(FD \cup {ServerFD}) /\ Range(batch) \subseteq Usable /\ Distinct(batch)
  /\ fd \in {NULL} \cup (FD \ Free)
  /\ pc \in {"wait", "batch", "scan", "read", "process", "write", "close", "over"}
  /\ pc \in {"read", "write"} => fd # NULL /\ fd \notin Range(batch)
  /\ pc \in {"wait", "batch", "scan"} => fd = NULL
  /\ pc = "wait" => batch = <<>>

IInv == SocketInv /\ ReadyInv /\ BatchInv /\ GoodStore(store)

\* The invariant is what ConnectionsOK says, and more.
LEMMA IInvConnections == IInv => ConnectionsOK
<1> SUFFICES ASSUME IInv PROVE WellFormed
  BY DEF IInv, SocketInv, ReadyInv, BatchInv, ConnectionsOK, Usable
<1>1. KeysOf(store) \in SUBSET Key
  <2>1. \A i \in DOMAIN store : store[i] \in Entry
    BY LenProperties, ElementOfSeq DEF IInv, GoodStore
  <2>2. QED
    BY <2>1 DEF KeysOf, Entry
<1>2. Len(store) = Cardinality(KeysOf(store)) /\ Cardinality(KeysOf(store)) <= Cardinality(Key)
  BY <1>1, ArrayMapIs, StoreAssumption, FS_Subset DEF IInv
<1>3. QED
  BY <1>2 DEF IInv, GoodStore, WellFormed

\* The connection that has waited longest leaves the backlog.
LEMMA OldestConnection ==
  ASSUME IInv, backlog # <<>>
  PROVE  /\ Head(backlog) \in Client /\ conn[Head(backlog)] = "backlog"
         /\ Tail(backlog) \in Seq(Client) /\ Distinct(Tail(backlog))
         /\ Range(Tail(backlog)) = Range(backlog) \ {Head(backlog)}
<1>1. backlog \in Seq(Client) /\ Distinct(backlog)
  BY DEF IInv, SocketInv, OwnerInv
<1>2. /\ Head(backlog) \in Range(backlog) /\ Tail(backlog) \in Seq(Client)
      /\ Distinct(Tail(backlog)) /\ Range(Tail(backlog)) = Range(backlog) \ {Head(backlog)}
  BY <1>1, DistinctTail
<1>3. Head(backlog) \in Client
  BY <1>1, HeadTailProperties
<1>4. QED
  BY <1>2, <1>3 DEF IInv, SocketInv, OwnerInv

\* The places of the clients are in three variables.
LEMMA OwnerStays ==
  ASSUME OwnerInv, UNCHANGED <<conn, backlog, table>>
  PROVE  OwnerInv' /\ Free' = Free
BY DEF OwnerInv, Free

\* accept gives the oldest connection a free descriptor.
LEMMA AcceptedEffect ==
  ASSUME IInv, Accepted
  PROVE  /\ SocketInv' /\ NewFD \in Free /\ Free' = Free \ {NewFD}
         /\ Head(backlog) \in Client
<1>1. NewFD \in Free
  <2>1. Free # {} /\ Free \in SUBSET Nat
    BY ConnectionAssumption DEF Accepted, Free
  <2>2. QED
    BY <2>1, MinProperties DEF NewFD
<1> DEFINE c == Head(backlog)
<1>2. /\ c \in Client /\ Tail(backlog) \in Seq(Client) /\ conn[c] = "backlog"
      /\ Distinct(Tail(backlog)) /\ Range(Tail(backlog)) = Range(backlog) \ {c}
  BY OldestConnection DEF Accepted
<1>3. /\ conn' = [conn EXCEPT ![c] = "open"] /\ table' = [table EXCEPT ![NewFD] = c]
      /\ backlog' = Tail(backlog) /\ UNCHANGED <<inbox, gone, torn>>
      /\ conn \in [Client -> {"none", "backlog", "open"}]
      /\ table \in [FD -> Client \cup {NULL}]
  BY DEF Accepted, IInv, SocketInv
<1> HIDE DEF NewFD, c
<1>4. NewFD \in FD /\ NULL # c /\ \A d \in FD : table'[d] = IF d = NewFD THEN c ELSE table[d]
  BY <1>1, <1>2, <1>3, ConnectionAssumption DEF Free
<1>5. Free' = Free \ {NewFD}
  BY <1>1, <1>2, <1>4 DEF Free
<1>6. OwnerInv'
  <2>1. \A e \in Client : conn'[e] = IF e = c THEN "open" ELSE conn[e]
    BY <1>3
  <2>2. \A d \in FD \ Free : table[d] \in Client /\ table[d] # c
    BY <1>2, <1>3 DEF Free, IInv, SocketInv, OwnerInv
  <2>3. \A d \in FD \ Free' : d = NewFD \/ (d \in FD \ Free /\ table'[d] = table[d])
    BY <1>4, <1>5
  <2>4. \A d \in FD \ Free' : conn'[table'[d]] = "open"
    BY <1>2, <1>4, <2>1, <2>2, <2>3 DEF IInv, SocketInv, OwnerInv
  <2>5. \A d, e \in FD \ Free' : table'[d] = table'[e] => d = e
    BY <1>4, <2>2, <2>3 DEF IInv, SocketInv, OwnerInv
  <2>6. \A e \in Client : e \in Range(backlog') <=> conn'[e] = "backlog"
    BY <1>2, <1>3, <2>1 DEF IInv, SocketInv, OwnerInv
  <2>7. QED
    BY <1>2, <1>3, <2>4, <2>5, <2>6 DEF OwnerInv
<1>7. SocketInv'
  BY <1>1, <1>2, <1>3, <1>4, <1>6 DEF IInv, SocketInv, Accepted, Free
<1>8. QED
  BY <1>1, <1>2, <1>5, <1>7 DEF c

\* A connection that is accepted and closed at once.
LEMMA RefusedEffect ==
  ASSUME IInv, Refused
  PROVE  SocketInv' /\ Free' = Free
<1> DEFINE c == Head(backlog)
<1>1. /\ c \in Client /\ Tail(backlog) \in Seq(Client) /\ conn[c] = "backlog"
      /\ Distinct(Tail(backlog)) /\ Range(Tail(backlog)) = Range(backlog) \ {c}
  BY OldestConnection DEF Refused
<1>2. /\ backlog' = Tail(backlog) /\ table' = table /\ Free' = Free /\ Forget(c)
  BY DEF Refused, Free
<1> HIDE DEF c
<1>3. OwnerInv'
  <2>1. \A e \in Client : conn'[e] = IF e = c THEN "none" ELSE conn[e]
    BY <1>2 DEF Forget, IInv, SocketInv
  <2>2. \A d \in FD \ Free : table[d] \in Client /\ table[d] # c
    BY <1>1 DEF Free, IInv, SocketInv, OwnerInv
  <2>3. QED
    BY <1>1, <1>2, <2>1, <2>2 DEF IInv, SocketInv, OwnerInv
<1>4. QED
  BY <1>1, <1>2, <1>3 DEF IInv, SocketInv, Forget

\* close frees the descriptor and takes it off the ready list.
LEMMA ClosedEffect ==
  ASSUME IInv, Closed, fd # NULL
  PROVE  /\ SocketInv' /\ ReadyInv'
         /\ fd \in FD \ Free /\ Free' = Free \cup {fd}
         /\ Range(ready') = Range(ready) \ {fd}
<1>1. fd \in FD /\ table[fd] \in Client /\ fd \notin Free
  BY DEF IInv, SocketInv, BatchInv, Free
<1>2. SocketInv'
  <2> DEFINE c == table[fd]
  <2>1. /\ \A d \in FD : table'[d] = IF d = fd THEN NULL ELSE table[d]
        /\ \A e \in Client : conn'[e] = IF e = c THEN "none" ELSE conn[e]
        /\ backlog' = backlog /\ conn[c] = "open"
    BY <1>1 DEF Closed, Forget, IInv, SocketInv, OwnerInv
  <2>2. \A d \in FD \ Free' : d \in FD \ Free /\ table'[d] = table[d] /\ table[d] # c
    BY <1>1, <2>1 DEF Free, IInv, SocketInv, OwnerInv
  <2>3. \A d \in FD \ Free : table[d] \in Client
    BY DEF Free, IInv, SocketInv
  <2>4. OwnerInv'
    BY <1>1, <2>1, <2>2, <2>3 DEF IInv, SocketInv, OwnerInv
  <2>5. QED
    BY <1>1, <2>4 DEF IInv, SocketInv, Closed, Forget
<1>3. Free' = Free \cup {fd}
  BY <1>1 DEF IInv, SocketInv, Closed, Free
<1> DEFINE I == {i \in DOMAIN ready : ready[i] # fd}
<1>4. /\ ready' \in Seq(FD \cup {ServerFD}) /\ Distinct(ready')
      /\ Range(ready') = {ready[i] : i \in I}
  <2>1. /\ ready \in Seq(FD \cup {ServerFD}) /\ I \in SUBSET DOMAIN ready
        /\ \A i, j \in I : ready[i] = ready[j] => i = j
    BY DEF IInv, ReadyInv, Distinct
  <2>2. ready' = PartAt(ready, I)
    BY DEF Closed
  <2> HIDE DEF I
  <2>3. QED
    BY <2>1, <2>2, DistinctPart
<1>5. Range(ready') = Range(ready) \ {fd}
  BY <1>4 DEF Range
<1>6. ReadyInv'
  BY <1>3, <1>4, <1>5 DEF IInv, ReadyInv, Usable
<1>7. QED
  BY <1>1, <1>2, <1>3, <1>5, <1>6

\* read and write change only what waits at the other end.
LEMMA ReadWriteEffect ==
  ASSUME IInv, Received \/ Written, UNCHANGED <<backlog, table>>, fd # NULL
  PROVE  SocketInv' /\ Free' = Free
<1>1. table[fd] \in Client
  BY DEF IInv, SocketInv, BatchInv, Free
<1>2. OwnerInv' /\ Free' = Free
  BY OwnerStays DEF IInv, SocketInv, Received, Written
<1>3. QED
  BY <1>1, <1>2 DEF IInv, SocketInv, Received, Written

\* The next of the batch is open, and main has it in its hands once.
LEMMA NextOfBatch ==
  ASSUME IInv, batch # <<>>
  PROVE  /\ Head(batch) \in Usable
         /\ Tail(batch) \in Seq(FD \cup {ServerFD}) /\ Distinct(Tail(batch))
         /\ Range(Tail(batch)) \subseteq Usable /\ Head(batch) \notin Range(Tail(batch))
<1>1. batch \in Seq(FD \cup {ServerFD}) /\ Distinct(batch) /\ Range(batch) \subseteq Usable
  BY DEF IInv, BatchInv
<1>2. /\ Head(batch) \in Range(batch) /\ Distinct(Tail(batch))
      /\ Tail(batch) \in Seq(FD \cup {ServerFD})
      /\ Range(Tail(batch)) = Range(batch) \ {Head(batch)}
  BY <1>1, DistinctTail
<1>3. QED
  BY <1>1, <1>2

\* A descriptor with something new is listed, unless it is already.
LEMMA ListedEffect ==
  ASSUME IInv, NEW d \in Usable
  PROVE  /\ Listed(d) \in Seq(FD \cup {ServerFD}) /\ Distinct(Listed(d))
         /\ Range(Listed(d)) \subseteq Usable
<1>1. ready \in Seq(FD \cup {ServerFD}) /\ Distinct(ready) /\ Range(ready) \subseteq Usable
  BY DEF IInv, ReadyInv
<1>2. d \in FD \cup {ServerFD}
  BY DEF Usable
<1>3. CASE Listed(d) = ready
  BY <1>1, <1>3
<1>4. CASE Listed(d) = Append(ready, d) /\ d \notin Range(ready)
  <2>1. /\ Append(ready, d) \in Seq(FD \cup {ServerFD})
        /\ Range(Append(ready, d)) = Range(ready) \cup {d}
        /\ Distinct(Append(ready, d))
    BY <1>1, <1>2, <1>4, DistinctAppend
  <2>2. QED
    BY <1>1, <1>4, <2>1
<1>5. QED
  BY <1>3, <1>4 DEF Listed

\* The clients add to the ready list, and touch nothing main has in its hands.
LEMMA ClientStep ==
  ASSUME IInv, Clients
  PROVE  /\ IInv' /\ UNCHANGED <<program, table, pc, batch, fd, data>>
<1>1. PICK c \in Client : Connect(c) \/ Send(c) \/ Leave(c)
  BY DEF Clients
<1>2. UNCHANGED <<program, table, pc, batch, fd, data>>
  BY <1>1 DEF Connect, Send, Leave
<1>3. Free' = Free /\ Usable' = Usable
  BY <1>2 DEF Free, Usable
<1>4. SocketInv'
  <2>1. CASE Connect(c)
    <3>1. /\ conn[c] = "none" /\ backlog' = Append(backlog, c)
          /\ conn' = [conn EXCEPT ![c] = "backlog"] /\ UNCHANGED <<inbox, gone, torn, table>>
      BY <2>1 DEF Connect
    <3>2. /\ backlog \in Seq(Client) /\ Distinct(backlog) /\ c \notin Range(backlog)
          /\ conn \in [Client -> {"none", "backlog", "open"}]
      BY <3>1 DEF IInv, SocketInv, OwnerInv
    <3>3. /\ Append(backlog, c) \in Seq(Client) /\ Distinct(Append(backlog, c))
          /\ Range(Append(backlog, c)) = Range(backlog) \cup {c}
      BY <3>2, DistinctAppend
    <3>4. \A e \in Client : conn'[e] = IF e = c THEN "backlog" ELSE conn[e]
      BY <3>1, <3>2
    <3>5. \A d \in FD \ Free : table[d] \in Client /\ table[d] # c
      BY <3>1 DEF Free, IInv, SocketInv, OwnerInv
    <3>6. OwnerInv'
      BY <1>3, <3>1, <3>3, <3>4, <3>5 DEF IInv, SocketInv, OwnerInv
    <3>7. QED
      BY <3>1, <3>3, <3>6 DEF IInv, SocketInv
  <2>2. CASE Send(c) \/ Leave(c)
    BY <1>3, <2>2 DEF IInv, SocketInv, OwnerInv, Send, Leave
  <2>3. QED
    BY <1>1, <2>1, <2>2
<1>5. ReadyInv'
  <2>1. ready' = ready \/ \E d \in Usable : ready' = Listed(d)
    <3>1. Edge(c) = ready \/ \E d \in Usable : Edge(c) = Listed(d)
      <4>1. \A d \in FD : table[d] = c => d \in Usable
        BY ConnectionAssumption DEF Usable, Free
      <4>2. QED
        BY <4>1 DEF Edge
    <3>2. ServerFD \in Usable
      BY DEF Usable
    <3>3. QED
      BY <1>1, <3>1, <3>2 DEF Connect, Send, Leave
  <2>2. CASE ready' = ready
    BY <1>3, <2>2 DEF IInv, ReadyInv
  <2>3. ASSUME NEW d \in Usable, ready' = Listed(d) PROVE ReadyInv'
    BY <1>3, <2>3, ListedEffect DEF ReadyInv
  <2>4. QED
    BY <2>1, <2>2, <2>3
<1>6. BatchInv' /\ GoodStore(store)'
  BY <1>2, <1>3 DEF IInv, BatchInv, data
<1>7. QED
  BY <1>2, <1>4, <1>5, <1>6 DEF IInv

\* SIGPIPE ends the server and changes nothing else.
LEMMA KilledStep ==
  ASSUME IInv, Killed
  PROVE  IInv'
BY DEF IInv, SocketInv, OwnerInv, ReadyInv, BatchInv, GoodStore, Usable, Free, Killed,
       socket, kernel, data

-----------------------------------------------------------------------------
(* The loop of ch6 *)

\* epoll_wait takes the front of what is readable; the listening socket goes back
\* to the end, where it is not twice.
LEMMA EpollWaitStep ==
  ASSUME IInv, EpollWait
  PROVE  /\ IInv' /\ UNCHANGED <<program, socket, backlog, table, fd>>
         /\ \A d \in Range(ready) : Readable(d) =>
              /\ d \in Range(ready') \cup Range(batch')
              /\ d = ServerFD => d \in Range(ready')
<1> DEFINE I == {i \in DOMAIN ready : Readable(ready[i])}
           live == PartAt(ready, I)
           n == Min({MaxEvents, Len(live)})
           front == SubSeq(live, 1, n)
           rest == SubSeq(live, n + 1, Len(live))
           S == FD \cup {ServerFD}
<1>1. /\ live \in Seq(S) /\ Distinct(live) /\ Range(live) \subseteq Range(ready)
      /\ \A d \in Range(ready) : Readable(d) => d \in Range(live)
  <2>1. /\ ready \in Seq(S) /\ I \in SUBSET DOMAIN ready
        /\ \A i, j \in I : ready[i] = ready[j] => i = j
    BY DEF IInv, ReadyInv, Distinct
  <2> HIDE DEF I
  <2>2. live \in Seq(S) /\ Distinct(live) /\ Range(live) = {ready[i] : i \in I}
    BY <2>1, DistinctPart
  <2>3. {ready[i] : i \in I} \subseteq Range(ready)
    BY <2>1 DEF Range
  <2>4. \A d \in Range(ready) : Readable(d) => d \in {ready[i] : i \in I}
    BY DEF I, Range
  <2>5. QED
    BY <2>2, <2>3, <2>4
<1>2. /\ pc = "wait" /\ batch' = front /\ pc' = "batch"
      /\ ready' = IF ServerFD \in Range(batch') THEN Append(rest, ServerFD) ELSE rest
      /\ UNCHANGED <<program, socket, backlog, table, fd, data>>
  BY DEF EpollWait
<1> HIDE DEF live
<1>3. n \in Nat /\ n <= Len(live)
  <2>1. {MaxEvents, Len(live)} \in SUBSET Nat /\ {MaxEvents, Len(live)} # {}
    BY <1>1, LenProperties, EpollAssumption
  <2>2. QED
    BY <2>1, MinProperties
<1> HIDE DEF n
<1>4. /\ front \in Seq(S) /\ rest \in Seq(S) /\ Distinct(front) /\ Distinct(rest)
      /\ Range(front) \subseteq Usable /\ Range(rest) \subseteq Usable
      /\ Range(front) \cap Range(rest) = {} /\ Range(front) \cup Range(rest) = Range(live)
  <2>1. /\ front \in Seq(S) /\ rest \in Seq(S) /\ Distinct(front) /\ Distinct(rest)
        /\ Range(front) \cup Range(rest) = Range(live)
        /\ Range(front) \cap Range(rest) = {}
    BY <1>1, <1>3, DistinctCut
  <2>2. Range(ready) \subseteq Usable
    BY DEF IInv, ReadyInv
  <2>3. QED
    BY <1>1, <2>1, <2>2
<1> HIDE DEF front, rest
<1>5. Free' = Free /\ Usable' = Usable /\ ServerFD \in Usable
  BY <1>2 DEF Free, Usable
<1>6. SocketInv' /\ GoodStore(store)'
  BY <1>2, OwnerStays DEF IInv, SocketInv, GoodStore, socket, data
<1>7. BatchInv'
  BY <1>2, <1>4, <1>5 DEF IInv, BatchInv
<1>8. ReadyInv' /\ Range(ready') = Range(rest) \cup (Range(front) \cap {ServerFD})
  <2>1. CASE ServerFD \in Range(front)
    <3>1. /\ Append(rest, ServerFD) \in Seq(S) /\ Distinct(Append(rest, ServerFD))
          /\ Range(Append(rest, ServerFD)) = Range(rest) \cup {ServerFD}
      BY <1>4, <2>1, DistinctAppend
    <3>2. QED
      BY <1>2, <1>4, <1>5, <2>1, <3>1 DEF ReadyInv
  <2>2. CASE ServerFD \notin Range(front)
    BY <1>2, <1>4, <1>5, <2>2 DEF ReadyInv
  <2>3. QED
    BY <2>1, <2>2
<1>9. \A d \in Range(ready) : Readable(d) =>
        /\ d \in Range(ready') \cup Range(batch')
        /\ d = ServerFD => d \in Range(ready')
  BY <1>1, <1>2, <1>4, <1>8
<1>10. QED
  BY <1>2, <1>6, <1>7, <1>8, <1>9 DEF IInv

\* accept, which may fail, in its parts.
LEMMA AcceptStep ==
  ASSUME IInv, Accept \/ AcceptFails \/ AddFails
  PROVE  IInv'
<1>1. /\ pc = "batch" /\ batch # <<>> /\ batch' = Tail(batch)
      /\ UNCHANGED <<pc, fd, data>>
  BY DEF Accept, AcceptFails, AddFails, Listening
<1>2. GoodStore(store)'
  BY <1>1 DEF IInv, GoodStore, data
<1>3. /\ SocketInv' /\ Free' \subseteq Free
      /\ ReadyInv'
  <2>1. CASE Accept
    <3>1. SocketInv' /\ NewFD \in Free /\ Free' = Free \ {NewFD}
      BY <2>1, AcceptedEffect DEF Accept
    <3>2. ready' = ready \/ ready' = Append(ready, NewFD)
      BY <2>1 DEF Accept
    <3> HIDE DEF NewFD
    <3>3. /\ ready \in Seq(FD \cup {ServerFD}) /\ Distinct(ready) /\ Range(ready) \subseteq Usable
          /\ NewFD \in FD /\ NewFD \notin Usable
      BY <3>1, ConnectionAssumption DEF IInv, ReadyInv, Usable, Free
    <3>4. Usable' = Usable \cup {NewFD}
      BY <3>1, <3>3 DEF Usable
    <3>5. /\ Append(ready, NewFD) \in Seq(FD \cup {ServerFD}) /\ Distinct(Append(ready, NewFD))
          /\ Range(Append(ready, NewFD)) = Range(ready) \cup {NewFD}
      BY <3>3, DistinctAppend
    <3>6. QED
      BY <3>1, <3>2, <3>3, <3>4, <3>5 DEF ReadyInv
  <2>2. CASE AcceptFails
    BY <2>2 DEF AcceptFails, IInv, SocketInv, OwnerInv, ReadyInv, Usable, Free, socket, kernel
  <2>3. CASE AddFails
    <3>1. SocketInv' /\ Free' = Free /\ ready' = ready
      BY <2>3, RefusedEffect DEF AddFails
    <3>2. QED
      BY <3>1 DEF IInv, ReadyInv, Usable
  <2>4. QED
    BY <2>1, <2>2, <2>3
<1>4. BatchInv'
  <2>1. Usable \subseteq Usable'
    BY <1>3 DEF Usable
  <2>2. QED
    BY <1>1, <1>3, <2>1, NextOfBatch DEF IInv, BatchInv
<1>5. QED
  BY <1>2, <1>3, <1>4 DEF IInv

\* Main takes a descriptor from the batch, or is done with it.
LEMMA TakeStep ==
  ASSUME IInv, TakeEvent \/ BatchDone
  PROVE  IInv'
<1>1. Free' = Free /\ Usable' = Usable
  BY DEF TakeEvent, BatchDone, kernel, Free, Usable
<1>2. SocketInv' /\ ReadyInv' /\ GoodStore(store)'
  BY <1>1, OwnerStays
     DEF TakeEvent, BatchDone, IInv, SocketInv, ReadyInv, GoodStore, socket, kernel, data
<1>3. CASE TakeEvent
  <2>1. fd' = Head(batch) /\ batch' = Tail(batch) /\ pc' = "read" /\ fd' \in FD \ Free
    BY <1>3, NextOfBatch DEF TakeEvent, Usable
  <2>2. fd' # NULL
    BY <2>1, ConnectionAssumption
  <2>3. QED
    BY <1>1, <1>2, <1>3, <2>1, <2>2, NextOfBatch DEF IInv, BatchInv, TakeEvent
<1>4. CASE BatchDone
  BY <1>1, <1>2, <1>4 DEF IInv, BatchInv, BatchDone
<1>5. QED
  BY <1>3, <1>4

\* One turn of the loop over the reads of a connection.
LEMMA ReadStep ==
  ASSUME IInv, Read \/ Write \/ ReadEnd \/ ReadAgain
  PROVE  IInv'
<1>1. pc \in {"read", "write"} /\ fd # NULL /\ fd \notin Range(batch) /\ batch' = batch
  BY DEF Read, Write, ReadEnd, ReadAgain, IInv, BatchInv
<1>2. GoodStore(store)'
  <2>1. execute_command => GoodStore(store)'
    BY CommandEffect DEF IInv
  <2>2. QED
    BY <2>1 DEF Read, Write, ReadEnd, ReadAgain, IInv, GoodStore, data
<1>3. CASE Read \/ Write
  <2>1. SocketInv' /\ Free' = Free /\ Usable' = Usable
    <3>1. (Received \/ Written) /\ UNCHANGED <<backlog, table>>
      BY <1>3 DEF Read, Write, kernel
    <3>2. QED
      BY <1>1, <3>1, ReadWriteEffect DEF Usable
  <2>2. UNCHANGED <<ready, batch, fd>> /\ pc' \in {"read", "write"}
    BY <1>3 DEF Read, Write, kernel
  <2>3. QED
    BY <1>1, <1>2, <2>1, <2>2 DEF IInv, ReadyInv, BatchInv
<1>4. CASE ReadEnd
  <2>1. SocketInv' /\ ReadyInv' /\ fd \in FD /\ Free' = Free \cup {fd}
    BY <1>1, <1>4, ClosedEffect DEF ReadEnd
  <2>2. pc' = "batch" /\ fd' = NULL /\ Range(batch) \subseteq Usable'
    BY <1>1, <1>4, <2>1 DEF ReadEnd, IInv, BatchInv, Usable
  <2>3. QED
    BY <1>1, <1>2, <2>1, <2>2 DEF IInv, BatchInv
<1>5. CASE ReadAgain
  BY <1>2, <1>5
     DEF ReadAgain, IInv, SocketInv, OwnerInv, ReadyInv, BatchInv, Usable, Free, socket, kernel
<1>6. QED
  BY <1>3, <1>4, <1>5

\* Nothing has happened yet.
LEMMA InitIInv ==
  ASSUME ConnectionsInit
  PROVE  IInv /\ Map!Init
<1>1. Range(<<>>) = {} /\ Distinct(<<>>)
  BY DEF Range, Distinct
<1>2. SocketInv
  <2>1. Free = FD
    BY DEF ConnectionsInit, Free
  <2>2. OwnerInv
    BY <1>1, <2>1 DEF ConnectionsInit, OwnerInv
  <2>3. QED
    BY <2>2 DEF ConnectionsInit, SocketInv
<1>3. ReadyInv /\ BatchInv
  BY <1>1 DEF ConnectionsInit, ReadyInv, BatchInv
<1>4. QED
  BY <1>2, <1>3, StoreInitRefines DEF ConnectionsInit, IInv

\* Every step of ch6 and its clients keeps the invariant.
LEMMA EpollNext == IInv /\ [Clients \/ EpollMain \/ EpollFails]_shared => IInv'
<1> SUFFICES ASSUME IInv, [Clients \/ EpollMain \/ EpollFails]_shared PROVE IInv'
  OBVIOUS
<1>1. CASE Clients
  BY <1>1, ClientStep
<1>2. CASE EpollMain
  BY <1>2, EpollWaitStep, AcceptStep, TakeStep, ReadStep, KilledStep DEF EpollMain
<1>3. CASE EpollFails \/ UNCHANGED shared
  BY <1>3 DEF EpollFails, IInv, SocketInv, OwnerInv, ReadyInv, BatchInv, GoodStore, Usable, Free,
              shared, socket, kernel, data
<1>4. QED
  BY <1>1, <1>2, <1>3

\* The invariant holds for ever in ch6.
LEMMA EpollInvariant == EpollSpec => []IInv
<1>1. EpollInit => IInv
  BY InitIInv DEF EpollInit
<1>2. QED
  BY <1>1, EpollNext, PTL DEF EpollSpec

-----------------------------------------------------------------------------
(* No edge is lost in ch6 *)

\* An event stays where it is, or moves from the list to the batch to the hands of
\* main, as long as there is something to read.
LEMMA EventsStay ==
  ASSUME NoEventMissed, program = "epoll",
         \A d \in FD : Readable(d)' =>
           /\ Readable(d)
           /\ d \in Range(ready) \cup Range(batch) \cup {fd} =>
                d \in Range(ready') \cup Range(batch') \cup {fd'},
         Readable(ServerFD)' =>
           Readable(ServerFD) /\ (ServerFD \in Range(ready) => ServerFD \in Range(ready'))
  PROVE  NoEventMissed'
BY ConnectionAssumption DEF NoEventMissed

\* What can be read after a step that only takes from the connections.
LEMMA ReadableStays ==
  ASSUME IInv
  PROVE  /\ UNCHANGED <<socket, backlog, table>> =>
              \A d : Readable(d)' <=> Readable(d)
         /\ (Received \/ Written) /\ UNCHANGED <<backlog, table>> =>
              \A d \in Usable : Readable(d)' => Readable(d)
<1>1. UNCHANGED <<socket, backlog, table>> => \A d : Readable(d)' <=> Readable(d)
  BY DEF socket, Readable
<1>2. ASSUME Received \/ Written, UNCHANGED <<backlog, table>>, NEW d \in Usable, Readable(d)'
      PROVE  Readable(d)
  <2>1. \A e \in Client : inbox'[e] => inbox[e]
    BY <1>2 DEF Received, Written, IInv, SocketInv
  <2>2. d # ServerFD => table[d] \in Client
    BY DEF Usable, Free, IInv, SocketInv
  <2>3. gone' = gone
    BY <1>2 DEF Received, Written
  <2>4. QED
    BY <1>2, <2>1, <2>2, <2>3 DEF Readable
<1>3. QED
  BY <1>1, <1>2

\* A client that sends or leaves lists its own descriptor, one that connects the
\* listening socket.
LEMMA ClientEvents ==
  ASSUME IInv, NoEventMissed, program = "epoll", Clients
  PROVE  NoEventMissed'
<1>1. PICK c \in Client : Connect(c) \/ Send(c) \/ Leave(c)
  BY DEF Clients
<1>2. UNCHANGED <<program, table, pc, batch, fd, data>>
  BY ClientStep
<1>3. ASSUME NEW d \in Usable
      PROVE  Range(ready) \subseteq Range(Listed(d)) /\ d \in Range(Listed(d))
  <2>1. ready \in Seq(FD \cup {ServerFD}) /\ d \in FD \cup {ServerFD}
    BY DEF IInv, ReadyInv, Usable
  <2>2. Range(Append(ready, d)) = Range(ready) \cup {d}
    BY <2>1, DistinctAppend
  <2>3. QED
    BY <2>2 DEF Listed
<1>4. ASSUME NEW d \in FD, table[d] = c PROVE Edge(c) = Listed(d) /\ d \in Usable
  <2>1. \A e \in FD : table[e] = c => e \in FD \ Free
    BY ConnectionAssumption DEF Free
  <2>2. \A e \in FD : table[e] = c => e = d
    BY <1>4, <2>1 DEF IInv, SocketInv, OwnerInv
  <2>3. QED
    BY <1>4, <2>1, <2>2 DEF Edge, Usable
<1>5. Range(ready) \subseteq Range(ready')
  <2>1. Range(ready) \subseteq Range(Edge(c))
    <3>1. CASE \E d \in FD : table[d] = c
      BY <1>3, <1>4, <3>1
    <3>2. CASE ~\E d \in FD : table[d] = c
      BY <3>2 DEF Edge
    <3>3. QED
      BY <3>1, <3>2
  <2>2. Range(ready) \subseteq Range(Listed(ServerFD))
    BY <1>3 DEF Usable
  <2>3. QED
    BY <1>1, <2>1, <2>2 DEF Connect, Send, Leave
<1>6. ASSUME NEW d \in FD, Readable(d)'
      PROVE  d \in Range(ready') \cup Range(batch') \cup {fd'}
  <2>1. d # ServerFD /\ table[d] # NULL /\ table[d] \in Client
    BY <1>2, <1>6, ConnectionAssumption DEF Readable, IInv, SocketInv
  <2>2. CASE table[d] # c \/ Connect(c)
    <3>1. inbox'[table[d]] = inbox[table[d]] /\ gone'[table[d]] = gone[table[d]]
      BY <1>1, <2>1, <2>2 DEF Connect, Send, Leave, IInv, SocketInv
    <3>2. Readable(d)
      BY <1>2, <1>6, <2>1, <3>1 DEF Readable
    <3>3. QED
      BY <1>2, <1>5, <3>2 DEF NoEventMissed
  <2>3. CASE table[d] = c /\ (Send(c) \/ Leave(c))
    BY <1>3, <1>4, <2>3 DEF Send, Leave
  <2>4. QED
    BY <1>1, <2>2, <2>3
<1>7. ASSUME Readable(ServerFD)' PROVE ServerFD \in Range(ready')
  <2>1. CASE Connect(c)
    BY <1>3, <2>1 DEF Connect, Usable
  <2>2. CASE Send(c) \/ Leave(c)
    BY <1>5, <1>7, <2>2 DEF Send, Leave, Readable, NoEventMissed
  <2>3. QED
    BY <1>1, <2>1, <2>2
<1>8. QED
  BY <1>6, <1>7 DEF NoEventMissed

\* accept takes the listening socket out of the batch only, and lists the new
\* descriptor if there is something to read.
LEMMA AcceptEvents ==
  ASSUME IInv, NoEventMissed, program = "epoll", Accept \/ AcceptFails \/ AddFails
  PROVE  NoEventMissed'
<1>1. /\ batch \in Seq(FD \cup {ServerFD}) /\ batch # <<>> /\ Distinct(batch)
      /\ Head(batch) = ServerFD /\ batch' = Tail(batch) /\ UNCHANGED <<program, fd>>
  BY DEF Accept, AcceptFails, AddFails, Listening, IInv, BatchInv
<1>2. Range(batch') = Range(batch) \ {ServerFD}
  BY <1>1, DistinctTail
<1>3. CASE AcceptFails
  <2>1. UNCHANGED <<socket, backlog, table, ready>>
    BY <1>3 DEF AcceptFails, kernel
  <2>2. QED
    BY <1>1, <1>2, <2>1, ReadableStays, EventsStay, ConnectionAssumption
<1>4. CASE AddFails
  <2> DEFINE c == Head(backlog)
  <2>1. c \in Client /\ conn[c] = "backlog"
    BY <1>4, OldestConnection DEF AddFails, Refused
  <2>2. Forget(c) /\ UNCHANGED <<table, ready>> /\ backlog # <<>>
    BY <1>4 DEF AddFails, Refused
  <2> HIDE DEF c
  <2>3. \A d \in FD : Readable(d)' => Readable(d)
    <3> SUFFICES ASSUME NEW d \in FD, Readable(d)' PROVE Readable(d)
      OBVIOUS
    <3>1. d # ServerFD /\ table[d] \in Client /\ table[d] # NULL
      BY <2>2, ConnectionAssumption DEF Readable, IInv, SocketInv
    <3>2. inbox'[table[d]] => inbox[table[d]]
      BY <2>1, <2>2, <3>1 DEF Forget, IInv, SocketInv
    <3>3. gone'[table[d]] => gone[table[d]]
      BY <2>1, <2>2, <3>1 DEF Forget, IInv, SocketInv
    <3>4. QED
      BY <2>2, <3>1, <3>2, <3>3 DEF Readable
  <2>4. Readable(ServerFD)
    BY <2>2 DEF Readable
  <2>5. QED
    BY <1>1, <1>2, <2>2, <2>3, <2>4, EventsStay, ConnectionAssumption
<1>5. CASE Accept
  <2> DEFINE c == Head(backlog)
  <2>1. NewFD \in Free /\ c \in Client
    BY <1>5, AcceptedEffect DEF Accept
  <2>2. /\ table' = [table EXCEPT ![NewFD] = c] /\ UNCHANGED <<inbox, gone>>
        /\ ready' = IF inbox[c] \/ gone[c] THEN Append(ready, NewFD) ELSE ready
        /\ backlog # <<>>
    BY <1>5 DEF Accept, Accepted
  <2> HIDE DEF NewFD, c
  <2>3. /\ NewFD \in FD /\ ready \in Seq(FD \cup {ServerFD})
        /\ table \in [FD -> Client \cup {NULL}]
    BY <2>1 DEF Free, IInv, ReadyInv, SocketInv
  <2>4. Range(Append(ready, NewFD)) = Range(ready) \cup {NewFD}
    BY <2>3, DistinctAppend
  <2>5. ASSUME NEW d \in FD, Readable(d)'
        PROVE  d \in Range(ready') \cup Range(batch') \cup {fd'}
    <3>1. CASE d = NewFD
      <4>1. table'[d] = c /\ d # ServerFD
        BY <2>2, <2>3, <3>1, ConnectionAssumption
      <4>2. inbox[c] \/ gone[c]
        BY <2>2, <2>5, <4>1 DEF Readable
      <4>3. QED
        BY <2>2, <2>4, <3>1, <4>2
    <3>2. CASE d # NewFD
      <4>1. table'[d] = table[d] /\ d # ServerFD
        BY <2>2, <2>3, <3>2, ConnectionAssumption
      <4>2. Readable(d)
        BY <2>2, <2>5, <4>1 DEF Readable
      <4>3. d \in Range(ready) \cup Range(batch) \cup {fd}
        BY <4>2 DEF NoEventMissed
      <4>4. QED
        BY <1>1, <1>2, <2>2, <2>4, <4>1, <4>3
    <3>3. QED
      BY <3>1, <3>2
  <2>6. ServerFD \in Range(ready')
    <3>1. Readable(ServerFD)
      BY <2>2 DEF Readable
    <3>2. QED
      BY <2>2, <2>4, <3>1 DEF NoEventMissed
  <2>7. QED
    BY <2>5, <2>6 DEF NoEventMissed
<1>6. QED
  BY <1>3, <1>4, <1>5

\* No step of ch6 and its clients loses an event.
LEMMA EventNext ==
  IInv /\ NoEventMissed /\ program = "epoll" /\ [Clients \/ EpollMain \/ EpollFails]_shared
    => NoEventMissed' /\ program' = "epoll"
<1> SUFFICES ASSUME IInv, NoEventMissed, program = "epoll",
                    [Clients \/ EpollMain \/ EpollFails]_shared
             PROVE  NoEventMissed'
  BY DEF Clients, Connect, Send, Leave, EpollMain, EpollWait, Accept, AcceptFails, AddFails,
         TakeEvent, BatchDone, Read, Write, Killed, ReadEnd, ReadAgain, EpollFails, shared
<1>1. CASE Clients
  BY <1>1, ClientEvents
<1>2. CASE EpollWait
  <2>1. fd = NULL /\ batch = <<>> /\ Range(<<>>) = {}
    BY <1>2 DEF EpollWait, IInv, BatchInv, Range
  <2>2. \A d \in FD : d # fd
    BY <2>1, ConnectionAssumption
  <2>3. QED
    BY <1>2, <2>1, <2>2, EpollWaitStep, ReadableStays, EventsStay
<1>3. CASE Accept \/ AcceptFails \/ AddFails
  BY <1>3, AcceptEvents
<1>4. CASE TakeEvent
  <2>1. /\ batch \in Seq(FD \cup {ServerFD}) /\ batch # <<>> /\ Distinct(batch) /\ fd = NULL
        /\ fd' = Head(batch) /\ batch' = Tail(batch) /\ UNCHANGED <<socket, backlog, table, ready>>
    BY <1>4 DEF TakeEvent, IInv, BatchInv, kernel
  <2>2. Range(batch') = Range(batch) \ {fd'} /\ \A d \in FD : d # fd
    BY <2>1, DistinctTail, ConnectionAssumption
  <2>3. QED
    BY <2>1, <2>2, ReadableStays, EventsStay
<1>5. CASE BatchDone \/ Killed \/ EpollFails \/ UNCHANGED shared
  <2>1. UNCHANGED <<socket, backlog, table, ready, batch, fd>>
    BY <1>5 DEF BatchDone, Killed, EpollFails, shared, kernel
  <2>2. QED
    BY <2>1, ReadableStays, EventsStay
<1>6. CASE Read \/ Write
  <2>1. (Received \/ Written) /\ UNCHANGED <<backlog, table, ready, batch, fd>>
    BY <1>6 DEF Read, Write, kernel
  <2>2. \A d \in FD : Readable(d)' => d \in Usable
    BY <2>1, ConnectionAssumption DEF Readable, Usable, Free
  <2>3. Readable(ServerFD)' => Readable(ServerFD)
    BY <2>1 DEF Readable
  <2>4. QED
    BY <2>1, <2>2, <2>3, ReadableStays, EventsStay
<1>7. CASE ReadAgain
  <2>1. UNCHANGED <<socket, backlog, table, ready, batch>> /\ ~Readable(fd)
    BY <1>7 DEF ReadAgain, kernel
  <2>2. QED
    BY <2>1, ReadableStays, EventsStay
<1>8. CASE ReadEnd
  <2>1. fd \in FD \ Free /\ Range(ready') = Range(ready) \ {fd} /\ batch' = batch
    BY <1>8, ClosedEffect DEF ReadEnd, IInv, BatchInv
  <2>2. /\ Forget(table[fd]) /\ table' = [table EXCEPT ![fd] = NULL] /\ backlog' = backlog
        /\ table[fd] \in Client
    BY <1>8, <2>1 DEF ReadEnd, Closed, Free, IInv, SocketInv
  <2>3. \A d \in FD : Readable(d)' => Readable(d) /\ d # fd
    <3> SUFFICES ASSUME NEW d \in FD, Readable(d)' PROVE Readable(d) /\ d # fd
      OBVIOUS
    <3>1. d # fd /\ d # ServerFD /\ table'[d] = table[d] /\ table[d] \in Client
      BY <2>1, <2>2, ConnectionAssumption DEF Readable, IInv, SocketInv
    <3>2. inbox'[table[d]] => inbox[table[d]]
      BY <2>2, <3>1 DEF Forget, IInv, SocketInv
    <3>3. gone'[table[d]] => gone[table[d]]
      BY <2>2, <3>1 DEF Forget, IInv, SocketInv
    <3>4. QED
      BY <3>1, <3>2, <3>3 DEF Readable
  <2>4. Readable(ServerFD)' => Readable(ServerFD)
    BY <2>2 DEF Readable
  <2>5. QED
    BY <2>1, <2>3, <2>4, EventsStay, ConnectionAssumption
<1>9. QED
  BY <1>1, <1>2, <1>3, <1>4, <1>5, <1>6, <1>7, <1>8 DEF EpollMain

-----------------------------------------------------------------------------
(* What is shown of ch6 *)

\* Whatever leaves the arrays and the response alone leaves the map alone.
LEMMA SameMap ==
  ASSUME UNCHANGED data
  PROVE  UNCHANGED Map!vars
<1>1. AsMap = ArrayMap(store) /\ AsMap' = ArrayMap(store')
  <2>1. \A k : IndexOf(k) = Found(store, k) /\ IndexOf(k)' = Found(store', k)
    BY DEF IndexOf, Found, SelectInSeq
  <2>2. QED
    BY <2>1 DEF AsMap, ArrayMap, KeysOf
<1>2. QED
  BY <1>1 DEF data, Map!vars

\* Only a read executes a command.
LEMMA EpollRefines ==
  IInv /\ [Clients \/ EpollMain \/ EpollFails]_shared => [Map!Next]_(Map!vars)
<1> SUFFICES ASSUME IInv, [Clients \/ EpollMain \/ EpollFails]_shared
             PROVE  [Map!Next]_(Map!vars)
  OBVIOUS
<1>1. execute_command \/ UNCHANGED data
  BY ClientStep
     DEF EpollMain, EpollWait, Accept, AcceptFails, AddFails, TakeEvent, BatchDone, Read, Write,
         Killed, ReadEnd, ReadAgain, EpollFails, shared
<1>2. QED
  BY <1>1, SameMap, CommandEffect DEF IInv

\* What main of ch6 holds, has been told about and reads are open descriptors, however
\* often their numbers have been used before, and a client has one connection.
THEOREM EpollConnectionsOK == EpollSpec => []ConnectionsOK
BY EpollInvariant, IInvConnections, PTL

\* Edge-triggered epoll in ch6: what is readable has an event, which is listed, in the
\* batch, or in the hands of main.
THEOREM EpollMissesNothing == EpollSpec => []NoEventMissed
<1> DEFINE J == NoEventMissed /\ program = "epoll"
<1>1. EpollInit => J
  <2> SUFFICES ASSUME EpollInit PROVE NoEventMissed /\ program = "epoll"
    OBVIOUS
  <2>1. \A d \in FD \cup {ServerFD} : ~Readable(d)
    BY ConnectionAssumption DEF EpollInit, ConnectionsInit, Readable
  <2>2. QED
    BY <2>1 DEF NoEventMissed, EpollInit
<1>2. IInv /\ J /\ [Clients \/ EpollMain \/ EpollFails]_shared => J'
  BY EventNext
<1>3. J => NoEventMissed
  OBVIOUS
<1> HIDE DEF J
<1>4. QED
  BY <1>1, <1>2, <1>3, EpollInvariant, PTL DEF EpollSpec

\* The commands that ch6 reads are commands of a map with the answers of a map.
THEOREM EpollAnswersAsMap == EpollSpec => MapSpec
<1>1. EpollInit => Map!Init
  BY InitIInv DEF EpollInit
<1>2. QED
  BY <1>1, EpollInvariant, EpollRefines, PTL DEF EpollSpec, MapSpec, Map!Spec

-----------------------------------------------------------------------------
(* The client array of ch5 *)

\* A slot is empty or has an open descriptor, every open descriptor is in one, and in
\* one only: no slot keeps the number of a closed descriptor.
SlotInv ==
  /\ clients \in Seq(FD \cup {NULL})
  /\ \A i, j \in DOMAIN clients : clients[i] = clients[j] /\ clients[i] # NULL => i = j
  /\ \A d \in FD : (\E i \in DOMAIN clients : clients[i] = d) <=> d \notin Free

\* A slot that is filled or emptied.
LEMMA SlotChange ==
  ASSUME SlotInv, NEW i \in DOMAIN clients, NEW v \in FD \cup {NULL},
         clients' = [clients EXCEPT ![i] = v]
  PROVE  /\ clients' \in Seq(FD \cup {NULL}) /\ DOMAIN clients' = DOMAIN clients
         /\ \A j \in DOMAIN clients : clients'[j] = IF j = i THEN v ELSE clients[j]
<1>1. DOMAIN clients = 1..Len(clients) /\ clients \in Seq(FD \cup {NULL})
  BY LenProperties DEF SlotInv
<1>2. clients' \in Seq(FD \cup {NULL})
  BY <1>1, ExceptSeq
<1>3. QED
  BY <1>2

\* The slots stay exact while neither they nor the descriptors change.
LEMMA SlotsStay ==
  ASSUME SlotInv, UNCHANGED clients, Free' = Free
  PROVE  SlotInv'
BY DEF SlotInv

\* select: main asks for the listening socket and the slots, and is told each once.
LEMMA SelectStep ==
  ASSUME IInv, SlotInv, Select
  PROVE  IInv' /\ SlotInv'
<1> DEFINE asked == <<ServerFD>> \o clients
           I == {i \in DOMAIN asked : asked[i] # NULL /\ Readable(asked[i])}
           set == PartAt(asked, I)
           S == FD \cup {ServerFD, NULL}
<1>1. /\ pc = "wait" /\ batch' = set /\ pc' = "scan"
      /\ UNCHANGED <<program, socket, kernel, fd, data, clients>>
  BY DEF Select
<1>2. /\ clients \in Seq(FD \cup {NULL}) /\ DOMAIN clients = 1..Len(clients)
      /\ Len(clients) \in Nat /\ \A i \in DOMAIN clients : clients[i] \in FD \cup {NULL}
  BY LenProperties, ElementOfSeq DEF SlotInv
<1>3. /\ asked \in Seq(S) /\ DOMAIN asked = 1..(Len(clients) + 1)
      /\ \A i \in DOMAIN asked : asked[i] = IF i = 1 THEN ServerFD ELSE clients[i - 1]
  <2> DEFINE one == <<ServerFD>>
  <2>1. one \in Seq(S) /\ Len(one) = 1 /\ one[1] = ServerFD
    OBVIOUS
  <2>2. clients \in Seq(S)
    BY <1>2, SeqMonotonic
  <2> HIDE DEF one
  <2>3. /\ one \o clients \in Seq(S) /\ Len(one \o clients) = Len(one) + Len(clients)
        /\ \A i \in 1..(Len(one) + Len(clients)) :
             (one \o clients)[i] = IF i <= Len(one) THEN one[i] ELSE clients[i - Len(one)]
    BY <2>1, <2>2, ConcatProperties
  <2>4. DOMAIN (one \o clients) = 1..(Len(clients) + 1)
    BY <1>2, <2>1, <2>3, LenProperties
  <2>5. \A i \in 1..(Len(clients) + 1) :
          (one \o clients)[i] = IF i = 1 THEN ServerFD ELSE clients[i - 1]
    BY <1>2, <2>1, <2>3
  <2>6. QED
    BY <2>3, <2>4, <2>5 DEF one
<1> HIDE DEF asked
<1>4. \A i \in DOMAIN asked : i = 1 \/ (i - 1 \in DOMAIN clients /\ asked[i] = clients[i - 1])
  BY <1>2, <1>3
<1>5. \A i, j \in I : asked[i] = asked[j] => i = j
  <2> SUFFICES ASSUME NEW i \in I, NEW j \in I, asked[i] = asked[j] PROVE i = j
    OBVIOUS
  <2>1. i \in DOMAIN asked /\ j \in DOMAIN asked /\ asked[i] # NULL
    OBVIOUS
  <2>2. CASE i = 1 \/ j = 1
    BY <1>2, <1>3, <1>4, <2>1, <2>2, ConnectionAssumption
  <2>3. CASE i # 1 /\ j # 1
    <3>1. i - 1 = j - 1
      BY <1>4, <2>1, <2>3 DEF SlotInv
    <3>2. QED
      BY <1>3, <2>1, <3>1
  <2>4. QED
    BY <2>2, <2>3
<1>6. \A i \in I : asked[i] \in Usable
  <2> SUFFICES ASSUME NEW i \in I PROVE asked[i] \in Usable
    OBVIOUS
  <2>1. i \in DOMAIN asked /\ asked[i] # NULL /\ Readable(asked[i])
    OBVIOUS
  <2>2. asked[i] \in FD \cup {ServerFD}
    BY <1>2, <1>3, <1>4, <2>1
  <2>3. QED
    BY <2>1, <2>2, ConnectionAssumption DEF Readable, Usable, Free
<1>7. /\ set \in Seq(FD \cup {ServerFD}) /\ Distinct(set) /\ Range(set) \subseteq Usable
  <2>1. I \in SUBSET DOMAIN asked
    OBVIOUS
  <2> HIDE DEF I
  <2>2. set \in Seq(S) /\ Distinct(set) /\ Range(set) = {asked[i] : i \in I}
    BY <1>3, <1>5, <2>1, DistinctPart
  <2>3. Range(set) \subseteq Usable /\ Usable \subseteq FD \cup {ServerFD}
    BY <1>6, <2>2 DEF Usable
  <2>4. set \in Seq(Range(set))
    BY <2>2, SeqOfRange
  <2>5. set \in Seq(FD \cup {ServerFD})
    BY <2>3, <2>4, SeqMonotonic
  <2>6. QED
    BY <2>2, <2>3, <2>5
<1> HIDE DEF set
<1>8. Free' = Free /\ Usable' = Usable
  BY <1>1 DEF Free, Usable, kernel
<1>9. SocketInv' /\ ReadyInv' /\ GoodStore(store)'
  BY <1>1, <1>8, OwnerStays DEF IInv, SocketInv, ReadyInv, GoodStore, socket, kernel, data
<1>10. BatchInv'
  BY <1>1, <1>7, <1>8 DEF IInv, BatchInv
<1>11. QED
  BY <1>1, <1>8, <1>9, <1>10, SlotsStay DEF IInv

\* accept gives the new descriptor the first empty slot.
LEMMA AddClientStep ==
  ASSUME IInv, SlotInv, AddClient
  PROVE  IInv' /\ SlotInv'
<1>1. /\ pc = "scan" /\ batch # <<>> /\ batch' = Tail(batch)
      /\ UNCHANGED <<program, ready, pc, fd, data>>
  BY DEF AddClient, NewConnection
<1>2. SocketInv' /\ NewFD \in Free /\ Free' = Free \ {NewFD}
  BY AcceptedEffect DEF AddClient
<1>3. Min(EmptySlots) \in DOMAIN clients /\ clients[Min(EmptySlots)] = NULL
  <2>1. EmptySlots \in SUBSET Nat /\ EmptySlots # {}
    <3>1. DOMAIN clients = 1..Len(clients) /\ Len(clients) \in Nat
      BY LenProperties DEF SlotInv
    <3>2. QED
      BY <3>1 DEF EmptySlots, AddClient
  <2>2. Min(EmptySlots) \in EmptySlots
    BY <2>1, MinProperties
  <2>3. QED
    BY <2>2 DEF EmptySlots
<1> DEFINE i == Min(EmptySlots)
<1>4. clients' = [clients EXCEPT ![i] = NewFD]
  BY DEF AddClient
<1> HIDE DEF i, NewFD
<1>5. NewFD \in FD /\ NewFD # NULL /\ \A j \in DOMAIN clients : clients[j] # NewFD
  BY <1>2, ConnectionAssumption DEF Free, SlotInv
<1>6. /\ clients' \in Seq(FD \cup {NULL}) /\ DOMAIN clients' = DOMAIN clients
      /\ \A j \in DOMAIN clients : clients'[j] = IF j = i THEN NewFD ELSE clients[j]
  BY <1>3, <1>4, <1>5, SlotChange DEF i
<1>7. SlotInv'
  <2>1. \A d \in FD : d # NewFD =>
          ((\E j \in DOMAIN clients : clients'[j] = d) <=> \E j \in DOMAIN clients : clients[j] = d)
    BY <1>3, <1>6, ConnectionAssumption DEF i
  <2>2. \E j \in DOMAIN clients : clients'[j] = NewFD
    BY <1>3, <1>6 DEF i
  <2>3. ASSUME NEW j \in DOMAIN clients, NEW k \in DOMAIN clients, clients'[j] = clients'[k],
               clients'[j] # NULL
        PROVE  j = k
    BY <1>5, <1>6, <2>3 DEF SlotInv
  <2>4. QED
    BY <1>2, <1>6, <2>1, <2>2, <2>3 DEF SlotInv
<1>8. Usable \subseteq Usable'
  BY <1>2 DEF Usable
<1>9. BatchInv'
  BY <1>1, <1>2, <1>8, NextOfBatch DEF IInv, BatchInv
<1>10. ReadyInv' /\ GoodStore(store)'
  BY <1>1, <1>8 DEF IInv, ReadyInv, GoodStore, data
<1>11. QED
  BY <1>2, <1>7, <1>9, <1>10 DEF IInv

\* accept without a slot or without a connection, and the steps between the reads.
LEMMA ScanStep ==
  ASSUME IInv, SlotInv, TooManyClients \/ NoClient \/ TakeClient \/ RoundDone
  PROVE  IInv' /\ SlotInv'
<1>1. pc = "scan" /\ fd = NULL /\ UNCHANGED <<program, ready, table, data, clients>>
  BY DEF TooManyClients, NoClient, TakeClient, RoundDone, NewConnection, Refused, kernel, IInv,
         BatchInv
<1>2. Free' = Free /\ Usable' = Usable
  BY <1>1 DEF Free, Usable
<1>3. SocketInv'
  <2>1. CASE TooManyClients
    BY <2>1, RefusedEffect DEF TooManyClients
  <2>2. CASE NoClient \/ TakeClient \/ RoundDone
    BY <1>2, <2>2, OwnerStays
       DEF NoClient, TakeClient, RoundDone, IInv, SocketInv, socket, kernel
  <2>3. QED
    BY <2>1, <2>2
<1>4. BatchInv'
  <2>1. CASE TooManyClients
    BY <1>2, <2>1, NextOfBatch DEF TooManyClients, NewConnection, IInv, BatchInv
  <2>2. CASE NoClient
    <3>1. Range(<<>>) = {} /\ Distinct(<<>>)
      BY DEF Range, Distinct
    <3>2. QED
      BY <1>2, <2>2, <3>1 DEF NoClient, NewConnection, IInv, BatchInv
  <2>3. CASE TakeClient
    <3>1. fd' = Head(batch) /\ batch' = Tail(batch) /\ pc' = "read" /\ fd' \in FD \ Free
      BY <2>3, NextOfBatch DEF TakeClient, Usable
    <3>2. fd' # NULL
      BY <3>1, ConnectionAssumption
    <3>3. QED
      BY <1>2, <2>3, <3>1, <3>2, NextOfBatch DEF IInv, BatchInv, TakeClient
  <2>4. CASE RoundDone
    BY <1>2, <2>4 DEF RoundDone, IInv, BatchInv
  <2>5. QED
    BY <2>1, <2>2, <2>3, <2>4
<1>5. ReadyInv' /\ GoodStore(store)'
  BY <1>1, <1>2 DEF IInv, ReadyInv, GoodStore, data
<1>6. QED
  BY <1>1, <1>2, <1>3, <1>4, <1>5, SlotsStay DEF IInv

\* One read of a client, and the answer.
LEMMA ReadClientStep ==
  ASSUME IInv, SlotInv, ReadClient \/ WriteClient
  PROVE  IInv' /\ SlotInv'
<1>1. /\ fd # NULL /\ fd \notin Range(batch) /\ UNCHANGED <<kernel, batch, clients>>
      /\ Received \/ Written
      /\ execute_command \/ BareUninitialized \/ UNCHANGED data
      /\ \/ pc' = "write" /\ fd' = fd
         \/ pc' = "scan" /\ fd' = NULL
  BY DEF ReadClient, WriteClient, IInv, BatchInv
<1>2. GoodStore(store)'
  BY <1>1, CommandEffect DEF IInv, GoodStore, data
<1>3. SocketInv' /\ Free' = Free /\ Usable' = Usable
  <2>1. UNCHANGED <<backlog, table>>
    BY <1>1 DEF kernel
  <2>2. QED
    BY <1>1, <2>1, ReadWriteEffect DEF Usable
<1>4. ReadyInv' /\ BatchInv'
  BY <1>1, <1>3 DEF IInv, ReadyInv, BatchInv, kernel
<1>5. QED
  BY <1>1, <1>2, <1>3, <1>4, SlotsStay DEF IInv

\* close frees the descriptor, and its slot is empty.
LEMMA CloseClientStep ==
  ASSUME IInv, SlotInv, CloseClient
  PROVE  IInv' /\ SlotInv'
<1>1. /\ fd # NULL /\ fd \notin Range(batch) /\ UNCHANGED <<batch, data>>
      /\ pc' = "scan" /\ fd' = NULL
  BY DEF CloseClient, IInv, BatchInv
<1>2. SocketInv' /\ ReadyInv' /\ fd \in FD \ Free /\ Free' = Free \cup {fd}
  BY <1>1, ClosedEffect DEF CloseClient
<1> DEFINE i == SelectInSeq(clients, LAMBDA d : d = fd)
           I == {j \in 1..Len(clients) : clients[j] = fd}
<1>3. i \in DOMAIN clients /\ clients[i] = fd
  <2>1. DOMAIN clients = 1..Len(clients) /\ Len(clients) \in Nat
    BY LenProperties DEF SlotInv
  <2>2. I # {} /\ I \in SUBSET Nat
    BY <1>2, <2>1 DEF SlotInv
  <2>3. Min(I) \in I
    BY <2>2, MinProperties
  <2>4. i = Min(I)
    BY <2>2 DEF SelectInSeq
  <2>5. QED
    BY <2>1, <2>3, <2>4
<1>4. clients' = [clients EXCEPT ![i] = NULL]
  BY DEF CloseClient
<1> HIDE DEF i, I
<1>5. /\ clients' \in Seq(FD \cup {NULL}) /\ DOMAIN clients' = DOMAIN clients
      /\ \A j \in DOMAIN clients : clients'[j] = IF j = i THEN NULL ELSE clients[j]
  BY <1>3, <1>4, SlotChange
<1>6. SlotInv'
  <2>1. \A j \in DOMAIN clients : clients[j] = fd => j = i
    BY <1>1, <1>3 DEF SlotInv
  <2>2. \A d \in FD : (\E j \in DOMAIN clients : clients'[j] = d) <=>
                        (d # fd /\ \E j \in DOMAIN clients : clients[j] = d)
    BY <1>3, <1>5, <2>1, ConnectionAssumption
  <2>3. ASSUME NEW j \in DOMAIN clients, NEW k \in DOMAIN clients, clients'[j] = clients'[k],
               clients'[j] # NULL
        PROVE  j = k
    BY <1>5, <2>3 DEF SlotInv
  <2>4. QED
    BY <1>2, <1>5, <2>2, <2>3 DEF SlotInv
<1>7. BatchInv'
  <2>1. Range(batch) \subseteq Usable'
    BY <1>1, <1>2 DEF IInv, BatchInv, Usable
  <2>2. QED
    BY <1>1, <1>2, <2>1 DEF IInv, BatchInv
<1>8. QED
  BY <1>1, <1>2, <1>6, <1>7 DEF IInv, GoodStore, data

\* What main of ch5 and its clients do.
SelectNext == (Clients /\ UNCHANGED clients) \/ SelectMain

\* Every step of them keeps the invariant.
LEMMA SelectInvNext ==
  IInv /\ SlotInv /\ [SelectNext]_<<shared, clients>> => IInv' /\ SlotInv'
<1> SUFFICES ASSUME IInv, SlotInv, [SelectNext]_<<shared, clients>> PROVE IInv' /\ SlotInv'
  OBVIOUS
<1>1. CASE Clients /\ UNCHANGED clients
  <2>1. Free' = Free
    BY <1>1, ClientStep DEF Free
  <2>2. QED
    BY <1>1, <2>1, ClientStep, SlotsStay
<1>2. CASE SelectMain
  <2>1. CASE Killed /\ UNCHANGED clients
    <3>1. Free' = Free
      BY <2>1 DEF Killed, kernel, Free
    <3>2. QED
      BY <2>1, <3>1, KilledStep, SlotsStay
  <2>2. QED
    BY <1>2, <2>1, SelectStep, AddClientStep, ScanStep, ReadClientStep, CloseClientStep
       DEF SelectMain
<1>3. CASE UNCHANGED <<shared, clients>>
  <2>1. Free' = Free /\ UNCHANGED clients
    BY <1>3 DEF shared, kernel, Free
  <2>2. IInv'
    BY <1>3 DEF IInv, SocketInv, OwnerInv, ReadyInv, BatchInv, GoodStore, Usable, Free,
                shared, socket, kernel, data
  <2>3. QED
    BY <2>1, <2>2, SlotsStay
<1>4. QED
  BY <1>1, <1>2, <1>3 DEF SelectNext

\* All slots are empty at first.
LEMMA InitSlots ==
  ASSUME SelectInit
  PROVE  SlotInv
<1>1. PICK n \in MaxClients : clients = [i \in 1..n |-> NULL]
  BY DEF SelectInit
<1>2. n \in Nat
  BY SelectAssumption
<1>3. clients \in Seq(FD \cup {NULL})
  BY <1>1, <1>2
<1>4. Free = FD /\ \A i \in DOMAIN clients : clients[i] = NULL
  BY <1>1 DEF SelectInit, ConnectionsInit, Free
<1>5. QED
  BY <1>3, <1>4, ConnectionAssumption DEF SlotInv

\* Both hold for ever in ch5.
LEMMA SelectInvariant == SelectSpec => [](IInv /\ SlotInv)
<1>1. SelectInit => IInv /\ SlotInv
  BY InitSlots, InitIInv DEF SelectInit
<1>2. QED
  BY <1>1, SelectInvNext, PTL DEF SelectSpec, SelectNext

-----------------------------------------------------------------------------
(* What is shown of ch5 *)

\* Only a read executes a command.
LEMMA SelectRefines ==
  IInv /\ [SelectNext]_<<shared, clients>> => [Map!Next]_(Map!vars)
<1> SUFFICES ASSUME IInv, [SelectNext]_<<shared, clients>> PROVE [Map!Next]_(Map!vars)
  OBVIOUS
<1>1. execute_command \/ BareUninitialized \/ UNCHANGED data
  BY ClientStep
     DEF SelectNext, SelectMain, Select, AddClient, TooManyClients, NoClient, TakeClient,
         ReadClient, WriteClient, CloseClient, RoundDone, Killed, shared
<1>2. QED
  BY <1>1, SameMap, CommandEffect DEF IInv

\* What main of ch5 holds, has been told about and reads are open descriptors.
THEOREM SelectConnectionsOK == SelectSpec => []ConnectionsOK
BY SelectInvariant, IInvConnections, PTL

\* One slot of an open descriptor is one element of the set that SlotsExact counts.
LEMMA SlotInvExact ==
  ASSUME SlotInv
  PROVE  SlotsExact
<1> SUFFICES ASSUME NEW d \in FD
             PROVE  Cardinality({i \in DOMAIN clients : clients[i] = d})
                      = IF d \in Free THEN 0 ELSE 1
  BY DEF SlotsExact
<1> DEFINE I == {i \in DOMAIN clients : clients[i] = d}
<1>1. CASE d \in Free
  <2>1. I = {}
    BY <1>1 DEF SlotInv
  <2>2. QED
    BY <1>1, <2>1, FS_EmptySet
<1>2. CASE d \notin Free
  <2>1. PICK i \in DOMAIN clients : clients[i] = d
    BY <1>2 DEF SlotInv
  <2>2. I = {i}
    BY <2>1, ConnectionAssumption DEF SlotInv
  <2>3. QED
    BY <1>2, <2>2, FS_Singleton
<1>3. QED
  BY <1>1, <1>2

\* The client array of ch5, whatever its size, has every open descriptor in one slot
\* and no closed one, so that no connection is left out of the next select.
THEOREM SelectSlotsExact == SelectSpec => []SlotsExact
<1>1. SlotInv => SlotsExact
  BY SlotInvExact
<1>2. QED
  BY <1>1, SelectInvariant, PTL

\* The commands that ch5 reads are commands of a map with the answers of a map.
THEOREM SelectAnswersAsMap == SelectSpec => MapSpec
<1>1. SelectInit => Map!Init
  BY InitIInv DEF SelectInit
<1>2. QED
  BY <1>1, SelectInvariant, SelectRefines, PTL DEF SelectSpec, SelectNext, MapSpec, Map!Spec

-----------------------------------------------------------------------------
(* What stands in a text *)

\* w stands in t behind the first pos characters.
Occurs(t, pos, w) ==
  /\ pos + Len(w) <= Len(t)
  /\ \A j \in 1..Len(w) : t[pos + j] = w[j]

\* Its characters, and the slice it fills.
LEMMA OccursProperties ==
  ASSUME NEW t \in Seq(Char), NEW w \in Seq(Char), NEW pos \in Nat, Occurs(t, pos, w)
  PROVE  /\ Len(t) \in Nat /\ Len(w) \in Nat
         /\ \A j \in 0..(Len(w) - 1) : At(t, pos + j) = w[j + 1]
         /\ Slice(t, pos, pos + Len(w)) = w
<1>1. Len(t) \in Nat /\ Len(w) \in Nat
  BY LenProperties
<1>2. ASSUME NEW j \in 0..(Len(w) - 1) PROVE At(t, pos + j) = w[j + 1]
  <2>1. pos + j < Len(t) /\ j + 1 \in 1..Len(w) /\ pos + j + 1 = pos + (j + 1)
    BY <1>1, <1>2 DEF Occurs
  <2>2. t[pos + (j + 1)] = w[j + 1]
    BY <2>1 DEF Occurs
  <2>3. QED
    BY <2>1, <2>2 DEF At
<1>3. Slice(t, pos, pos + Len(w)) = w
  <2> DEFINE to == pos + Len(w)
             s == SubSeq(t, pos + 1, to)
  <2>1. {to, Len(t)} \in SUBSET Nat /\ to <= Len(t) /\ to \in Nat
    BY <1>1 DEF Occurs
  <2> HIDE DEF to
  <2>2. Min({to, Len(t)}) = to
    <3> DEFINE m == Min({to, Len(t)})
    <3>1. m \in {to, Len(t)} /\ \A n \in {to, Len(t)} : m <= n
      BY <2>1, MinProperties
    <3> HIDE DEF m
    <3>2. m \in {to, Len(t)} /\ m <= to
      BY <3>1
    <3>3. m = to
      BY <1>1, <2>1, <3>2
    <3>4. QED
      BY <3>3 DEF m
  <2>3. \A j \in (pos + 1)..to : t[j] \in Char
    BY <1>1, <2>1, ElementOfSeq
  <2>4. /\ s \in Seq(Char) /\ Len(s) = IF pos + 1 <= to THEN to - (pos + 1) + 1 ELSE 0
        /\ \A j \in 1..(to - (pos + 1) + 1) : s[j] = t[pos + 1 + j - 1]
    BY <2>1, <2>3, SubSeqProperties
  <2> HIDE DEF s
  <2>5. Len(s) = Len(w)
    BY <1>1, <2>1, <2>4 DEF to
  <2>6. ASSUME NEW j \in 1..Len(w) PROVE s[j] = w[j]
    <3>1. s[j] = t[pos + j]
      BY <1>1, <2>1, <2>4, <2>6 DEF to
    <3>2. QED
      BY <3>1 DEF Occurs
  <2>7. s = w
    BY <1>1, <2>4, <2>5, <2>6, SeqEqual
  <2>8. QED
    BY <2>2, <2>7 DEF Slice, s, to
<1>4. QED
  BY <1>1, <1>2, <1>3

\* Two texts in a row.
LEMMA OccursConcat ==
  ASSUME NEW t, NEW u \in Seq(Char), NEW w \in Seq(Char), NEW pos \in Nat, Len(t) \in Nat
  PROVE  /\ Len(u \o w) = Len(u) + Len(w) /\ u \o w \in Seq(Char)
         /\ Occurs(t, pos, u \o w) <=> Occurs(t, pos, u) /\ Occurs(t, pos + Len(u), w)
<1> DEFINE c == u \o w
<1>1. Len(u) \in Nat /\ Len(w) \in Nat
  BY LenProperties
<1>2. /\ c \in Seq(Char) /\ Len(c) = Len(u) + Len(w)
      /\ \A j \in 1..(Len(u) + Len(w)) : c[j] = IF j <= Len(u) THEN u[j] ELSE w[j - Len(u)]
  BY ConcatProperties
<1> HIDE DEF c
<1>3. ASSUME Occurs(t, pos, c) PROVE Occurs(t, pos, u) /\ Occurs(t, pos + Len(u), w)
  <2>1. pos + Len(u) <= Len(t) /\ pos + Len(u) + Len(w) <= Len(t)
    BY <1>1, <1>2, <1>3 DEF Occurs
  <2>2. ASSUME NEW j \in 1..Len(u) PROVE t[pos + j] = u[j]
    <3>1. j \in 1..Len(c) /\ c[j] = u[j]
      BY <1>1, <1>2
    <3>2. t[pos + j] = c[j]
      BY <1>3, <3>1 DEF Occurs
    <3>3. QED
      BY <3>1, <3>2
  <2>3. ASSUME NEW j \in 1..Len(w) PROVE t[pos + Len(u) + j] = w[j]
    <3>1. Len(u) + j \in 1..Len(c) /\ ~(Len(u) + j <= Len(u)) /\ (Len(u) + j) - Len(u) = j
          /\ pos + (Len(u) + j) = pos + Len(u) + j
      BY <1>1, <1>2
    <3>2. t[pos + (Len(u) + j)] = c[Len(u) + j]
      BY <1>3, <3>1 DEF Occurs
    <3>3. QED
      BY <1>2, <3>1, <3>2
  <2>4. QED
    BY <2>1, <2>2, <2>3 DEF Occurs
<1>4. ASSUME Occurs(t, pos, u), Occurs(t, pos + Len(u), w) PROVE Occurs(t, pos, c)
  <2>1. pos + Len(c) <= Len(t)
    BY <1>1, <1>2, <1>4 DEF Occurs
  <2>2. ASSUME NEW j \in 1..Len(c) PROVE t[pos + j] = c[j]
    <3>1. CASE j <= Len(u)
      BY <1>1, <1>2, <1>4, <3>1 DEF Occurs
    <3>2. CASE ~(j <= Len(u))
      <4>1. j - Len(u) \in 1..Len(w) /\ pos + Len(u) + (j - Len(u)) = pos + j
        BY <1>1, <1>2, <3>2
      <4>2. t[pos + Len(u) + (j - Len(u))] = w[j - Len(u)]
        BY <1>4, <4>1 DEF Occurs
      <4>3. QED
        BY <1>1, <1>2, <2>2, <3>2, <4>1, <4>2
    <3>3. QED
      BY <3>1, <3>2
  <2>3. QED
    BY <2>1, <2>2 DEF Occurs
<1>5. QED
  BY <1>2, <1>3, <1>4 DEF c

\* The character loops stop at the first character that stops them.
LEMMA FindIs ==
  ASSUME NEW t, Len(t) \in Nat, NEW pos \in Nat, NEW S, NEW q \in Nat, pos <= q, q <= Len(t),
         At(t, q) \in S \cup {Zero}, \A k \in pos..(q - 1) : At(t, k) \notin S \cup {Zero}
  PROVE  Find(t, pos, S) = q
<1> DEFINE top == Max({pos, Len(t)})
           Q == {k \in pos..top : At(t, k) \in S \cup {Zero}}
<1>1. top = Len(t)
  BY DEF Max
<1>2. Q \in SUBSET Nat /\ q \in Q
  BY <1>1
<1>3. Min(Q) \in Q /\ \A k \in Q : Min(Q) <= k
  BY <1>2, MinProperties
<1> DEFINE m == Min(Q)
<1>4. m \in pos..top /\ At(t, m) \in S \cup {Zero} /\ m <= q
  BY <1>2, <1>3
<1> HIDE DEF m, Q
<1>5. m = q
  <2>1. CASE m \in pos..(q - 1)
    BY <1>4, <2>1
  <2>2. CASE m \notin pos..(q - 1)
    BY <1>1, <1>4, <2>2
  <2>3. QED
    BY <2>1, <2>2
<1>6. QED
  BY <1>5 DEF Find, m, Q

\* The first position with a character not in S is the one Skip returns.
LEMMA SkipIs ==
  ASSUME NEW t, Len(t) \in Nat, NEW pos \in Nat, NEW S, NEW q \in Nat, pos <= q, q <= Len(t),
         At(t, q) \notin S, \A k \in pos..(q - 1) : At(t, k) \in S
  PROVE  Skip(t, pos, S) = q
<1> DEFINE top == Max({pos, Len(t)})
           Q == {k \in pos..top : At(t, k) \notin S}
<1>1. top = Len(t)
  BY DEF Max
<1>2. Q \in SUBSET Nat /\ q \in Q
  BY <1>1
<1>3. Min(Q) \in Q /\ \A k \in Q : Min(Q) <= k
  BY <1>2, MinProperties
<1> DEFINE m == Min(Q)
<1>4. m \in pos..top /\ At(t, m) \notin S /\ m <= q
  BY <1>2, <1>3
<1> HIDE DEF m, Q
<1>5. m = q
  <2>1. CASE m \in pos..(q - 1)
    BY <1>4, <2>1
  <2>2. CASE m \notin pos..(q - 1)
    BY <1>1, <1>4, <2>2
  <2>3. QED
    BY <2>1, <2>2
<1>6. QED
  BY <1>5 DEF Skip, m, Q

-----------------------------------------------------------------------------
(* Decimal numbers *)

\* The figures.
LEMMA DigitProperties ==
  /\ \A k \in 0..9 : Figure[k + 1] \in Digit /\ Worth(Figure[k + 1]) = k
  /\ Digit \subseteq Char /\ \A c \in Digit : Worth(c) \in 0..9
  /\ \A c \in {" ", "CR", "LF", "+", "-", ":", "$", "*", Zero} : c \notin Digit
<1>1. DOMAIN Figure = 1..10
  BY DEF Figure
<1>2. ASSUME NEW k \in 0..9 PROVE Figure[k + 1] \in Digit
  BY <1>1 DEF Digit, Range
<1>3. ASSUME NEW k \in 0..9, NEW l \in 0..9, Figure[k + 1] = Figure[l + 1] PROVE k = l
  BY <1>3 DEF Figure
<1>4. ASSUME NEW k \in 0..9 PROVE Worth(Figure[k + 1]) = k
  <2>1. Worth(Figure[k + 1]) \in 0..9 /\ Figure[Worth(Figure[k + 1]) + 1] = Figure[k + 1]
    BY DEF Worth
  <2>2. QED
    BY <1>3, <2>1
<1>5. ASSUME NEW c \in Digit PROVE \E k \in 0..9 : c = Figure[k + 1]
  <2>1. PICK i \in 1..10 : c = Figure[i]
    BY <1>1 DEF Digit, Range
  <2>2. i - 1 \in 0..9 /\ (i - 1) + 1 = i
    OBVIOUS
  <2>3. QED
    BY <2>1, <2>2
<1>6. ASSUME NEW k \in 0..9
      PROVE  Figure[k + 1] \notin {" ", "CR", "LF", "+", "-", ":", "$", "*", Zero}
  <2>1. Figure[k + 1] \in {"0", "1", "2", "3", "4", "5", "6", "7", "8", "9"}
    BY DEF Figure
  <2>2. \A c \in {"0", "1", "2", "3", "4", "5", "6", "7", "8", "9"} :
          c \notin {" ", "CR", "LF", "+", "-", ":", "$", "*", Zero}
    BY DEF Zero
  <2>3. QED
    BY <2>1, <2>2
<1>7. Digit \subseteq Char
  BY CharAssumption
<1>8. ASSUME NEW c \in Digit
      PROVE  Worth(c) \in 0..9 /\ c \notin {" ", "CR", "LF", "+", "-", ":", "$", "*", Zero}
  <2>1. PICK k \in 0..9 : c = Figure[k + 1]
    BY <1>5
  <2>2. QED
    BY <1>4, <1>6, <2>1
<1>9. QED
  BY <1>2, <1>4, <1>7, <1>8

\* What Decimal divides by.
LEMMA DivideByTen ==
  ASSUME NEW k \in Nat
  PROVE  /\ k \div 10 \in Nat /\ k % 10 \in 0..9 /\ k = 10 * (k \div 10) + (k % 10)
         /\ k >= 10 => k \div 10 < k
OBVIOUS

\* The digits w read as the number n.
ReadAs(w, n) ==
  /\ w \in Seq(Digit) /\ w # <<>>
  /\ \E f \in [0..Len(w) -> Nat] :
       /\ f[0] = 0 /\ f[Len(w)] = n
       /\ \A i \in 1..Len(w) : f[i] = 10 * f[i - 1] + Worth(w[i])

\* A text of one character.
LEMMA OneCharacter ==
  ASSUME NEW S, NEW c \in S
  PROVE  <<c>> \in Seq(S) /\ <<c>> # <<>> /\ Len(<<c>>) = 1 /\ <<c>>[1] = c
OBVIOUS

\* A digit more.
LEMMA ReadAsProperties ==
  /\ \A k \in 0..9 : ReadAs(<<Figure[k + 1]>>, k)
  /\ \A n \in Nat, k \in 0..9 : \A w :
       ReadAs(w, n) => ReadAs(w \o <<Figure[k + 1]>>, 10 * n + k)
<1>1. ASSUME NEW k \in 0..9 PROVE ReadAs(<<Figure[k + 1]>>, k)
  <2> DEFINE w == <<Figure[k + 1]>>
             f == [i \in 0..1 |-> IF i = 0 THEN 0 ELSE k]
  <2>0. Figure[k + 1] \in Digit
    BY DigitProperties
  <2>1. w \in Seq(Digit) /\ w # <<>> /\ Len(w) = 1 /\ w[1] = Figure[k + 1]
    BY <2>0, OneCharacter
  <2>2. Worth(w[1]) = k
    BY <2>1, DigitProperties
  <2>3. f \in [0..1 -> Nat] /\ f[0] = 0 /\ f[1] = k
    OBVIOUS
  <2> HIDE DEF w, f
  <2>4. \A i \in 1..1 : f[i] = 10 * f[i - 1] + Worth(w[i])
    BY <2>2, <2>3
  <2>5. ReadAs(w, k)
    BY <2>1, <2>3, <2>4 DEF ReadAs
  <2>6. QED
    BY <2>5 DEF w
<1>2. ASSUME NEW n \in Nat, NEW k \in 0..9, NEW v, ReadAs(v, n)
      PROVE  ReadAs(v \o <<Figure[k + 1]>>, 10 * n + k)
  <2> DEFINE last == <<Figure[k + 1]>>
             w == v \o last
  <2>1. PICK f \in [0..Len(v) -> Nat] :
               /\ f[0] = 0 /\ f[Len(v)] = n
               /\ \A i \in 1..Len(v) : f[i] = 10 * f[i - 1] + Worth(v[i])
    BY <1>2 DEF ReadAs
  <2>2. v \in Seq(Digit) /\ v # <<>> /\ Len(v) \in Nat
    BY <1>2, LenProperties DEF ReadAs
  <2>0. Figure[k + 1] \in Digit
    BY DigitProperties
  <2>3. last \in Seq(Digit) /\ Len(last) = 1 /\ last[1] = Figure[k + 1]
    BY <2>0, OneCharacter
  <2>4. /\ w \in Seq(Digit) /\ Len(w) = Len(v) + Len(last)
        /\ \A i \in 1..(Len(v) + Len(last)) :
             w[i] = IF i <= Len(v) THEN v[i] ELSE last[i - Len(v)]
    <3> HIDE DEF last
    <3>1. QED
      BY <2>2, <2>3, ConcatProperties
  <2>5. w # <<>>
    BY <2>2, <2>3, <2>4, EmptySeq
  <2> DEFINE g == [i \in 0..(Len(v) + 1) |-> IF i <= Len(v) THEN f[i] ELSE 10 * n + k]
  <2> HIDE DEF w, last
  <2>6. g \in [0..Len(w) -> Nat] /\ g[0] = 0 /\ g[Len(w)] = 10 * n + k
    BY <2>1, <2>2, <2>3, <2>4
  <2>7. \A i \in 1..Len(v) : g[i] = f[i] /\ g[i - 1] = f[i - 1] /\ w[i] = v[i]
    BY <2>2, <2>3, <2>4
  <2>8. g[Len(v) + 1] = 10 * n + k /\ g[(Len(v) + 1) - 1] = n
    BY <2>1, <2>2
  <2>9. w[Len(v) + 1] = Figure[k + 1] /\ Len(w) = Len(v) + 1
    <3>1. Len(w) = Len(v) + 1
      BY <2>3, <2>4
    <3>2. /\ Len(v) + 1 \in 1..(Len(v) + Len(last)) /\ ~(Len(v) + 1 <= Len(v))
          /\ (Len(v) + 1) - Len(v) = 1
      BY <2>2, <2>3
    <3>3. w[Len(v) + 1] = last[1]
      BY <2>4, <3>2
    <3>4. QED
      BY <2>3, <3>1, <3>3
  <2>10. Worth(w[Len(v) + 1]) = k
    BY <2>9, DigitProperties
  <2> HIDE DEF g
  <2>11. ASSUME NEW i \in 1..Len(w) PROVE g[i] = 10 * g[i - 1] + Worth(w[i])
    <3>1. CASE i \in 1..Len(v)
      BY <2>1, <2>7, <3>1
    <3>2. CASE i = Len(v) + 1
      BY <2>8, <2>10, <3>2
    <3>3. QED
      BY <2>2, <2>9, <3>1, <3>2
  <2>12. ReadAs(w, 10 * n + k)
    BY <2>4, <2>5, <2>6, <2>11 DEF ReadAs
  <2>13. QED
    BY <2>12 DEF w, last
<1>3. QED
  BY <1>1, <1>2

\* A sign, if the number is negative, and digits that read as the rest: so Decimal
\* writes it.
NumberAs(s, n) ==
  IF n < 0 THEN \E w : s = <<"-">> \o w /\ ReadAs(w, -n) ELSE ReadAs(s, n)

\* The recursion of Decimal up to n.
FiguresTo(n, f) ==
  f = [k \in 0..n |->
         IF k < 10 THEN <<Figure[k + 1]>> ELSE f[k \div 10] \o <<Figure[(k % 10) + 1]>>]

\* The figures of a number read as the number.
LEMMA DecimalProperties ==
  ASSUME NEW n \in Int
  PROVE  NumberAs(Decimal(n), n)
<1> DEFINE abs == IF n < 0 THEN -n ELSE n
           Body(f, k) == IF k < 10 THEN <<Figure[k + 1]>>
                                   ELSE f[k \div 10] \o <<Figure[(k % 10) + 1]>>
           Bad == {m \in Nat : ~\E f : FiguresTo(m, f)}
<1>1. Bad = {}
  <2> SUFFICES ASSUME Bad # {} PROVE FALSE
    OBVIOUS
  <2>1. PICK m \in Bad : \A l \in Bad : m <= l
    BY LeastNumber
  <2>2. CASE m = 0
    <3> DEFINE f == [k \in 0..0 |-> <<Figure[k + 1]>>]
    <3>1. FiguresTo(0, f)
      BY DEF FiguresTo
    <3>2. QED
      BY <2>2, <3>1
  <2>3. CASE m # 0
    <3>1. m - 1 \in Nat /\ m - 1 \notin Bad
      BY <2>1, <2>3
    <3>2. PICK f : FiguresTo(m - 1, f)
      BY <3>1
    <3> DEFINE g == [k \in 0..m |-> IF k < m THEN f[k] ELSE Body(f, k)]
    <3>3. \A k \in 0..(m - 1) : f[k] = Body(f, k)
      BY <3>2 DEF FiguresTo
    <3>4. ASSUME NEW k \in 0..m PROVE g[k] = Body(g, k)
      <4>1. k >= 10 => k \div 10 \in 0..(m - 1) /\ k \div 10 < k
        BY DivideByTen
      <4>2. Body(g, k) = Body(f, k)
        BY <4>1
      <4>3. CASE k < m
        BY <3>1, <3>3, <4>2, <4>3
      <4>4. CASE ~(k < m)
        BY <4>2, <4>4
      <4>5. QED
        BY <4>3, <4>4
    <3>5. g = [k \in 0..m |-> g[k]]
      OBVIOUS
    <3> HIDE DEF g
    <3>6. FiguresTo(m, g)
      BY <3>4, <3>5 DEF FiguresTo
    <3>7. QED
      BY <3>6
  <2>4. QED
    BY <2>2, <2>3
<1>2. abs \in Nat
  OBVIOUS
<1> HIDE DEF abs
<1> DEFINE figures == CHOOSE f : FiguresTo(abs, f)
<1>3. FiguresTo(abs, figures)
  BY <1>1, <1>2
<1>4. Decimal(n) = IF n < 0 THEN <<"-">> \o figures[abs] ELSE figures[abs]
  BY DEF Decimal, FiguresTo, abs
<1> HIDE DEF figures
<1>5. \A k \in 0..abs : figures[k] = Body(figures, k)
  BY <1>3 DEF FiguresTo
<1> DEFINE Wrong == {k \in 0..abs : ~ReadAs(figures[k], k)}
<1>6. Wrong = {}
  <2> SUFFICES ASSUME Wrong # {} PROVE FALSE
    OBVIOUS
  <2>1. Wrong \in SUBSET Nat
    BY <1>2
  <2>2. PICK k \in Wrong : \A l \in Wrong : k <= l
    BY <2>1, LeastNumber
  <2>3. CASE k < 10
    <3>1. k \in 0..9
      BY <1>2, <2>2, <2>3
    <3>3. figures[k] = <<Figure[k + 1]>>
      BY <1>5, <2>2, <2>3
    <3>2. QED
      BY <2>2, <3>1, <3>3, ReadAsProperties
  <2>4. CASE ~(k < 10)
    <3> DEFINE d == k \div 10
               r == k % 10
    <3>1. /\ d \in Nat /\ r \in 0..9 /\ k = 10 * d + r /\ d < k
      BY <1>2, <2>2, <2>4, DivideByTen
    <3>2. figures[k] = figures[d] \o <<Figure[r + 1]>>
      BY <1>5, <2>2, <2>4
    <3> HIDE DEF d, r
    <3>3. d \in 0..abs /\ d \notin Wrong
      BY <1>2, <2>2, <3>1
    <3>4. ReadAs(figures[d], d)
      BY <3>3
    <3>5. ReadAs(figures[k], k)
      BY <3>1, <3>2, <3>4, ReadAsProperties
    <3>6. QED
      BY <2>2, <3>5
  <2>5. QED
    BY <2>3, <2>4
<1>7. abs \in 0..abs
  BY <1>2
<1>8. ReadAs(figures[abs], abs)
  BY <1>6, <1>7
<1>9. QED
  BY <1>4, <1>8 DEF abs, NumberAs

\* strtol reads the digits up to the first character that is none.
AbsOf(t, from, to, f) ==
  f = [i \in from..to |-> IF i = from THEN 0 ELSE 10 * f[i - 1] + Worth(At(t, i - 1))]

\* strtol skips the digits w and, summing them up, arrives at n.
LEMMA DigitsRead ==
  ASSUME NEW t \in Seq(Char), NEW from \in Nat, NEW n \in Nat, NEW w, ReadAs(w, n),
         Occurs(t, from, w), At(t, from + Len(w)) \notin Digit
  PROVE  /\ Len(w) \in Nat \ {0} /\ w \in Seq(Char)
         /\ At(t, from) \in Digit
         /\ Skip(t, from, Digit) = from + Len(w)
         /\ (CHOOSE f : AbsOf(t, from, from + Len(w), f))[from + Len(w)] = n
<1> DEFINE to == from + Len(w)
<1>1. w \in Seq(Digit) /\ w \in Seq(Char) /\ Len(w) \in Nat \ {0} /\ Len(t) \in Nat
  <2>1. w \in Seq(Digit) /\ w # <<>>
    BY DEF ReadAs
  <2>2. Len(w) \in Nat \ {0} /\ \A i \in 1..Len(w) : w[i] \in Digit
    BY <2>1, LenProperties, EmptySeq, ElementOfSeq
  <2>3. \A i \in 1..Len(w) : w[i] \in Char
    BY <2>2, DigitProperties
  <2>4. w \in Seq(Char)
    BY <2>1, <2>2, <2>3
  <2>5. QED
    BY <2>1, <2>2, <2>4, LenProperties
<1>2. ASSUME NEW i \in from..(to - 1)
      PROVE  /\ i - from + 1 \in 1..Len(w) /\ At(t, i) = w[i - from + 1] /\ At(t, i) \in Digit
  <2>1. i - from \in 0..(Len(w) - 1) /\ from + (i - from) = i /\ i - from + 1 \in 1..Len(w)
    BY <1>1
  <2>2. At(t, from + (i - from)) = w[(i - from) + 1]
    <3> DEFINE j == i - from
    <3>1. j \in 0..(Len(w) - 1)
      BY <2>1
    <3> HIDE DEF j
    <3>2. At(t, from + j) = w[j + 1]
      BY <1>1, <3>1, OccursProperties
    <3>3. QED
      BY <3>2 DEF j
  <2>3. w[i - from + 1] \in Digit
    BY <1>1, <2>1, ElementOfSeq
  <2>4. QED
    BY <2>1, <2>2, <2>3
<1>3. Skip(t, from, Digit) = to
  <2>1. to \in Nat /\ from <= to /\ to <= Len(t)
    BY <1>1 DEF Occurs
  <2>2. \A k \in from..(to - 1) : At(t, k) \in Digit
    BY <1>2
  <2>3. At(t, to) \notin Digit
    OBVIOUS
  <2> HIDE DEF to
  <2>4. QED
    BY <1>1, <2>1, <2>2, <2>3, SkipIs
<1>4. PICK f \in [0..Len(w) -> Nat] :
             /\ f[0] = 0 /\ f[Len(w)] = n
             /\ \A i \in 1..Len(w) : f[i] = 10 * f[i - 1] + Worth(w[i])
  BY DEF ReadAs
<1> DEFINE g == [i \in from..to |-> f[i - from]]
           abs == CHOOSE h : AbsOf(t, from, to, h)
<1>5. AbsOf(t, from, to, g)
  <2>1. ASSUME NEW i \in from..to
        PROVE  g[i] = IF i = from THEN 0 ELSE 10 * g[i - 1] + Worth(At(t, i - 1))
    <3>1. CASE i = from
      BY <1>1, <1>4, <3>1
    <3>2. CASE i # from
      <4>1. /\ i - 1 \in from..(to - 1) /\ i - from \in 1..Len(w) /\ i - 1 \in from..to
            /\ (i - 1) - from + 1 = i - from /\ (i - 1) - from = (i - from) - 1
        BY <1>1, <3>2
      <4>2. At(t, i - 1) = w[i - from]
        BY <1>2, <4>1
      <4>3. g[i] = f[i - from] /\ g[i - 1] = f[(i - from) - 1]
        BY <4>1
      <4>4. f[i - from] = 10 * f[(i - from) - 1] + Worth(w[i - from])
        BY <1>4, <4>1
      <4>5. QED
        BY <3>2, <4>2, <4>3, <4>4
    <3>3. QED
      BY <3>1, <3>2
  <2>2. g = [i \in from..to |-> g[i]]
    OBVIOUS
  <2> HIDE DEF g, to
  <2>3. QED
    BY <2>1, <2>2 DEF AbsOf
<1> HIDE DEF g, to
<1>6. AbsOf(t, from, to, abs)
  BY <1>5
<1> HIDE DEF abs
<1>7. \A i \in from..to :
        abs[i] = IF i = from THEN 0 ELSE 10 * abs[i - 1] + Worth(At(t, i - 1))
  BY <1>6 DEF AbsOf
<1>8. \A i \in from..to :
        g[i] = IF i = from THEN 0 ELSE 10 * g[i - 1] + Worth(At(t, i - 1))
  BY <1>5 DEF AbsOf
<1>9. to \in Nat
  BY <1>1 DEF to
<1> DEFINE Bad == {i \in from..to : abs[i] # g[i]}
<1>10. Bad = {}
  <2> SUFFICES ASSUME Bad # {} PROVE FALSE
    OBVIOUS
  <2>1. Bad \in SUBSET Nat
    BY <1>9
  <2>2. PICK i \in Bad : \A l \in Bad : i <= l
    BY <2>1, LeastNumber
  <2>3. i # from
    BY <1>7, <1>8, <2>2
  <2>4. i - 1 \in from..to /\ ~(i <= i - 1)
    BY <1>9, <2>2, <2>3
  <2>5. abs[i - 1] = g[i - 1]
    BY <2>2, <2>4
  <2>6. QED
    BY <1>7, <1>8, <2>2, <2>3, <2>5
<1>11. abs[to] = n
  <2>1. to \in from..to /\ to - from = Len(w)
    BY <1>1, <1>9 DEF to
  <2>2. abs[to] = g[to]
    BY <1>10, <2>1
  <2>3. QED
    BY <1>4, <2>1, <2>2 DEF g
<1>12. At(t, from) \in Digit
  <2>1. from \in from..(to - 1)
    BY <1>1, <1>9 DEF to
  <2>2. QED
    BY <1>2, <2>1
<1>13. QED
  BY <1>1, <1>3, <1>11, <1>12 DEF abs, to

\* The characters of a number.
LEMMA NumberText ==
  ASSUME NEW s, NEW n \in Int, NumberAs(s, n)
  PROVE  s \in Seq(Char) /\ Len(s) \in Nat \ {0}
<1>1. ASSUME NEW w, NEW m, ReadAs(w, m) PROVE w \in Seq(Char) /\ Len(w) \in Nat \ {0}
  <2>1. w \in Seq(Digit) /\ Len(w) \in Nat \ {0}
    BY <1>1, LenProperties, EmptySeq DEF ReadAs
  <2>2. \A i \in 1..Len(w) : w[i] \in Char
    BY <2>1, ElementOfSeq, DigitProperties
  <2>3. QED
    BY <2>1, <2>2
<1>2. CASE n < 0
  <2> DEFINE sign == <<"-">>
  <2>1. PICK w : s = sign \o w /\ ReadAs(w, -n)
    BY <1>2 DEF NumberAs
  <2>2. "-" \in Char
    BY CharAssumption DEF Mark
  <2>3. sign \in Seq(Char) /\ Len(sign) = 1
    BY <2>2, OneCharacter
  <2> HIDE DEF sign
  <2>4. w \in Seq(Char) /\ Len(w) \in Nat \ {0}
    BY <1>1, <2>1
  <2>5. QED
    BY <2>1, <2>3, <2>4, ConcatProperties
<1>3. CASE ~(n < 0)
  BY <1>1, <1>3 DEF NumberAs
<1>4. QED
  BY <1>2, <1>3

\* strtol reads a number up to an end of line.
LEMMA StrtolReads ==
  ASSUME NEW t \in Seq(Char), NEW pos \in Nat, NEW n \in Int, NEW s,
         NumberAs(s, n), Occurs(t, pos, s), At(t, pos + Len(s)) = "CR"
  PROVE  /\ s \in Seq(Char) /\ Len(s) \in Nat \ {0}
         /\ strtol(t, pos) = [n |-> n, end |-> pos + Len(s)]
<1>1. "CR" \notin Digit /\ "-" \notin Digit /\ "+" \notin Digit /\ Digit \cap Blank = {}
  BY DigitProperties DEF Blank
<1>2. Len(t) \in Nat
  BY LenProperties
<1> DEFINE start == Skip(t, pos, Blank)
           from == IF At(t, start) \in {"+", "-"} THEN start + 1 ELSE start
           to == Skip(t, from, Digit)
           abs == CHOOSE f : AbsOf(t, from, to, f)
<1>3. strtol(t, pos) =
        IF from = to THEN [n |-> 0, end |-> pos]
        ELSE [n |-> IF At(t, start) = "-" THEN -abs[to] ELSE abs[to], end |-> to]
  BY DEF strtol, AbsOf
<1>4. ASSUME At(t, pos) \notin Blank, pos <= Len(t) PROVE start = pos
  <2>1. \A k \in pos..(pos - 1) : At(t, k) \in Blank
    OBVIOUS
  <2>2. QED
    BY <1>2, <1>4, <2>1, SkipIs
<1> HIDE DEF start
<1>5. CASE n < 0
  <2> DEFINE sign == <<"-">>
  <2>1. PICK w : s = sign \o w /\ ReadAs(w, -n)
    BY <1>5 DEF NumberAs
  <2>2. "-" \in Char
    BY CharAssumption DEF Mark
  <2>3. sign \in Seq(Char) /\ Len(sign) = 1 /\ sign[1] = "-"
    BY <2>2, OneCharacter
  <2> HIDE DEF sign
  <2>4. w \in Seq(Digit) /\ w # <<>>
    BY <2>1 DEF ReadAs
  <2>5. w \in Seq(Char)
    <3>1. \A i \in 1..Len(w) : w[i] \in Char
      BY <2>4, ElementOfSeq, DigitProperties
    <3>2. QED
      BY <2>4, <3>1
  <2>6. /\ Len(s) = 1 + Len(w) /\ s \in Seq(Char)
        /\ Occurs(t, pos, sign) /\ Occurs(t, pos + 1, w)
    <3>1. Occurs(t, pos, sign \o w)
      BY <2>1
    <3>2. /\ Len(sign \o w) = Len(sign) + Len(w) /\ sign \o w \in Seq(Char)
          /\ Occurs(t, pos, sign) /\ Occurs(t, pos + Len(sign), w)
      BY <1>2, <2>3, <2>5, <3>1, OccursConcat
    <3>3. QED
      BY <2>1, <2>3, <3>2
  <2>7. Len(w) \in Nat
    BY <2>4, LenProperties
  <2>8. pos + 1 + Len(w) = pos + Len(s)
    BY <2>6, <2>7
  <2>9. /\ Len(w) \in Nat \ {0}
        /\ Skip(t, pos + 1, Digit) = pos + 1 + Len(w)
        /\ (CHOOSE f : AbsOf(t, pos + 1, pos + 1 + Len(w), f))[pos + 1 + Len(w)] = -n
    <3>1. pos + 1 \in Nat /\ -n \in Nat /\ At(t, pos + 1 + Len(w)) \notin Digit
      BY <1>1, <1>5, <2>8
    <3>2. QED
      BY <2>1, <2>6, <3>1, DigitsRead
  <2>10. At(t, pos) = "-"
    <3>1. 0 \in 0..(Len(sign) - 1) /\ pos + 0 = pos
      BY <2>3
    <3>2. At(t, pos + 0) = sign[0 + 1]
      BY <2>3, <2>6, <3>1, OccursProperties
    <3>3. QED
      BY <2>3, <3>1, <3>2
  <2>11. start = pos
    <3>1. pos <= Len(t)
      BY <1>2, <2>3, <2>6 DEF Occurs
    <3>2. At(t, pos) \notin Blank
      BY <2>10 DEF Blank
    <3>3. QED
      BY <1>4, <3>1, <3>2
  <2>12. from = pos + 1 /\ to = pos + 1 + Len(w)
    BY <2>9, <2>10, <2>11
  <2>13. abs[to] = -n
    BY <2>9, <2>12
  <2> HIDE DEF from, to, abs
  <2>14. strtol(t, pos) = [n |-> -abs[to], end |-> to]
    BY <1>3, <2>9, <2>10, <2>11, <2>12
  <2>15. QED
    BY <2>6, <2>7, <2>8, <2>12, <2>13, <2>14
<1>6. CASE ~(n < 0)
  <2>1. ReadAs(s, n) /\ n \in Nat
    BY <1>6 DEF NumberAs
  <2>2. Occurs(t, pos, s) /\ At(t, pos + Len(s)) \notin Digit
    BY <1>1
  <2>3. /\ Len(s) \in Nat \ {0} /\ s \in Seq(Char)
        /\ At(t, pos) \in Digit
        /\ Skip(t, pos, Digit) = pos + Len(s)
        /\ (CHOOSE f : AbsOf(t, pos, pos + Len(s), f))[pos + Len(s)] = n
    BY <2>1, <2>2, DigitsRead
  <2>4. start = pos /\ At(t, start) \notin {"+", "-"}
    BY <1>1, <1>2, <1>4, <2>2, <2>3 DEF Occurs
  <2>5. from = pos /\ to = pos + Len(s)
    BY <2>3, <2>4
  <2>6. abs[to] = n
    BY <2>3, <2>5
  <2> HIDE DEF from, to, abs
  <2>7. strtol(t, pos) = [n |-> abs[to], end |-> to]
    BY <1>3, <2>3, <2>4, <2>5
  <2>8. QED
    BY <2>3, <2>5, <2>6, <2>7
<1>7. QED
  BY <1>5, <1>6

-----------------------------------------------------------------------------
(* Values without elements *)

\* The numbers of an int are numbers.
LEMMA NumberProperties == Number \subseteq Int /\ 5 \in Number
BY DEF Number

\* A text of two characters, and of three.
LEMMA TwoCharacters ==
  ASSUME NEW S, NEW c \in S, NEW d \in S
  PROVE  /\ <<c, d>> \in Seq(S) /\ Len(<<c, d>>) = 2
         /\ <<c, d>>[1] = c /\ <<c, d>>[2] = d
         /\ <<c>> \o <<d>> = <<c, d>>
<1>1. <<c, d>> \in Seq(S) /\ Len(<<c, d>>) = 2 /\ <<c, d>>[1] = c /\ <<c, d>>[2] = d
  OBVIOUS
<1> DEFINE u == <<c>>
           w == <<d>>
           cd == <<c, d>>
<1>2. u \in Seq(S) /\ Len(u) = 1 /\ u[1] = c /\ w \in Seq(S) /\ Len(w) = 1 /\ w[1] = d
  BY OneCharacter
<1>3. cd \in Seq(S) /\ Len(cd) = 2 /\ cd[1] = c /\ cd[2] = d
  BY <1>1
<1> HIDE DEF u, w, cd
<1> DEFINE uw == u \o w
<1>4. /\ uw \in Seq(S) /\ Len(uw) = Len(u) + Len(w)
      /\ \A i \in 1..(Len(u) + Len(w)) : uw[i] = IF i <= Len(u) THEN u[i] ELSE w[i - Len(u)]
  BY <1>2, ConcatProperties
<1> HIDE DEF uw
<1>5. Len(uw) = 2 /\ uw[1] = c /\ uw[2] = d
  BY <1>2, <1>4
<1>6. \A i \in 1..Len(uw) : uw[i] = cd[i]
  BY <1>3, <1>5
<1>7. uw = cd
  BY <1>3, <1>4, <1>5, <1>6, SeqEqual
<1>8. QED
  BY <1>1, <1>7 DEF uw, u, w, cd

\* One before two.
LEMMA ThreeCharacters ==
  ASSUME NEW S, NEW c \in S, NEW d \in S, NEW e \in S
  PROVE  <<c>> \o <<d, e>> = <<c, d, e>>
<1> DEFINE u == <<c>>
           w == <<d, e>>
           cde == <<c, d, e>>
<1>1. cde \in Seq(S) /\ Len(cde) = 3 /\ cde[1] = c /\ cde[2] = d /\ cde[3] = e
  OBVIOUS
<1>2. /\ u \in Seq(S) /\ Len(u) = 1 /\ u[1] = c
      /\ w \in Seq(S) /\ Len(w) = 2 /\ w[1] = d /\ w[2] = e
  BY OneCharacter, TwoCharacters
<1> HIDE DEF u, w, cde
<1> DEFINE uw == u \o w
<1>4. /\ uw \in Seq(S) /\ Len(uw) = Len(u) + Len(w)
      /\ \A i \in 1..(Len(u) + Len(w)) : uw[i] = IF i <= Len(u) THEN u[i] ELSE w[i - Len(u)]
  BY <1>2, ConcatProperties
<1> HIDE DEF uw
<1>5. Len(uw) = 3 /\ uw[1] = c /\ uw[2] = d /\ uw[3] = e
  BY <1>2, <1>4
<1>6. \A i \in 1..Len(uw) : uw[i] = cde[i]
  BY <1>1, <1>5
<1>7. uw = cde
  BY <1>1, <1>4, <1>5, <1>6, SeqEqual
<1>8. QED
  BY <1>7 DEF uw, u, w, cde

\* The characters the program writes.
LEMMA CharProperties ==
  /\ CRLF \in Seq(Char) /\ Len(CRLF) = 2 /\ CRLF[1] = "CR" /\ CRLF[2] = "LF"
  /\ "CR" \in Char /\ "LF" \in Char /\ " " \in Char
  /\ "+" \in Char /\ "-" \in Char /\ ":" \in Char /\ "$" \in Char /\ "*" \in Char
  /\ Zero \notin Char
<1>1. /\ "CR" \in Char /\ "LF" \in Char /\ " " \in Char
      /\ "+" \in Char /\ "-" \in Char /\ ":" \in Char /\ "$" \in Char /\ "*" \in Char
      /\ Zero \notin Char
  BY CharAssumption DEF Mark, Blank
<1>2. CRLF \in Seq(Char) /\ Len(CRLF) = 2 /\ CRLF[1] = "CR" /\ CRLF[2] = "LF"
  BY <1>1, TwoCharacters DEF CRLF
<1>3. QED
  BY <1>1, <1>2

\* The text of a line.
LEMMA LineText ==
  ASSUME NEW c \in Char, NEW s \in Seq(Char)
  PROVE  <<c>> \o s \o CRLF \in Seq(Char) /\ Len(<<c>> \o s \o CRLF) = Len(s) + 3
<1> DEFINE mark == <<c>>
           front == mark \o s
<1>1. mark \in Seq(Char) /\ Len(mark) = 1 /\ Len(s) \in Nat
  BY OneCharacter, LenProperties
<1> HIDE DEF mark
<1>2. front \in Seq(Char) /\ Len(front) = Len(mark) + Len(s)
  BY <1>1, ConcatProperties
<1> HIDE DEF front
<1>3. /\ CRLF \in Seq(Char) /\ Len(CRLF) = 2
  BY CharProperties
<1>4. front \o CRLF \in Seq(Char) /\ Len(front \o CRLF) = Len(front) + Len(CRLF)
  BY <1>2, <1>3, ConcatProperties
<1>5. Len(front \o CRLF) = Len(s) + 3
  BY <1>1, <1>2, <1>3, <1>4
<1>6. QED
  BY <1>4, <1>5 DEF front, mark

\* A line of a text: its first character, what follows, and its end.
LEMMA OccursLine ==
  ASSUME NEW t \in Seq(Char), NEW pos \in Nat, NEW c \in Char, NEW s \in Seq(Char),
         Occurs(t, pos, <<c>> \o s \o CRLF)
  PROVE  LET line == <<c>> \o s \o CRLF
         IN  /\ line \in Seq(Char) /\ Len(s) \in Nat /\ Len(line) = Len(s) + 3
             /\ At(t, pos) = c /\ Occurs(t, pos + 1, s)
             /\ At(t, pos + 1 + Len(s)) = "CR" /\ At(t, pos + 2 + Len(s)) = "LF"
             /\ pos + 3 + Len(s) <= Len(t)
<1> DEFINE mark == <<c>>
           front == mark \o s
           line == front \o CRLF
<1>1. Len(t) \in Nat /\ Len(s) \in Nat
  BY LenProperties
<1>2. mark \in Seq(Char) /\ Len(mark) = 1 /\ mark[1] = c
  BY OneCharacter
<1> HIDE DEF mark
<1>3. front \in Seq(Char) /\ Len(front) = 1 + Len(s)
  <2>1. front \in Seq(Char) /\ Len(front) = Len(mark) + Len(s)
    BY <1>2, ConcatProperties
  <2>2. QED
    BY <1>1, <1>2, <2>1
<1>4. Occurs(t, pos, line)
  BY DEF mark
<1>5. /\ line \in Seq(Char) /\ Len(line) = Len(front) + Len(CRLF)
      /\ Occurs(t, pos, front) /\ Occurs(t, pos + Len(front), CRLF)
  <2> HIDE DEF front
  <2>1. QED
    BY <1>1, <1>3, <1>4, OccursConcat, CharProperties
<1>6. Occurs(t, pos, mark) /\ Occurs(t, pos + Len(mark), s)
  BY <1>1, <1>2, <1>5, OccursConcat
<1> HIDE DEF front, line
<1>7. At(t, pos) = c
  <2>1. 0 \in 0..(Len(mark) - 1) /\ pos + 0 = pos
    BY <1>2
  <2>2. At(t, pos + 0) = mark[0 + 1]
    BY <1>2, <1>6, <2>1, OccursProperties
  <2>3. QED
    BY <1>2, <2>1, <2>2
<1>8. LET p == pos + 1 + Len(s) IN At(t, p) = "CR" /\ At(t, p + 1) = "LF" /\ p + 2 <= Len(t)
  <2> DEFINE p == pos + 1 + Len(s)
  <2>1. p \in Nat /\ Occurs(t, p, CRLF)
    <3>1. pos + Len(front) = p
      BY <1>1, <1>3
    <3>2. QED
      BY <1>1, <1>5, <3>1
  <2> HIDE DEF p
  <2>2. CRLF \in Seq(Char) /\ Len(CRLF) = 2 /\ CRLF[1] = "CR" /\ CRLF[2] = "LF"
    BY CharProperties
  <2>3. \A j \in 0..1 : At(t, p + j) = CRLF[j + 1]
    <3>1. \A j \in 0..(Len(CRLF) - 1) : At(t, p + j) = CRLF[j + 1]
      BY <2>1, <2>2, OccursProperties
    <3>2. QED
      BY <2>2, <3>1
  <2>4. At(t, p + 0) = CRLF[1] /\ At(t, p + 1) = CRLF[2] /\ p + 0 = p
    BY <2>1, <2>3
  <2>5. p + 2 <= Len(t)
    BY <2>1, <2>2 DEF Occurs
  <2>6. At(t, p) = "CR" /\ At(t, p + 1) = "LF" /\ p + 2 <= Len(t)
    BY <2>2, <2>4, <2>5
  <2>7. QED
    BY <2>6 DEF p
<1>9. Len(line) = Len(s) + 3 /\ pos + 1 + Len(s) + 1 = pos + 2 + Len(s)
      /\ pos + 1 + Len(s) + 2 = pos + 3 + Len(s)
  <2>1. Len(CRLF) = 2
    BY CharProperties
  <2>2. QED
    BY <1>1, <1>3, <1>5, <2>1
<1>10. QED
  BY <1>1, <1>2, <1>5, <1>6, <1>7, <1>8, <1>9 DEF line, front, mark

\* The position of an end of line is the first behind characters that are none.
LEMMA FindBehind ==
  ASSUME NEW t \in Seq(Char), NEW pos \in Nat, NEW S, NEW s \in Seq(Char), Occurs(t, pos, s),
         \A i \in 1..Len(s) : s[i] \notin S, At(t, pos + Len(s)) \in S
  PROVE  Find(t, pos, S) = pos + Len(s)
<1> DEFINE end == pos + Len(s)
<1>1. Len(t) \in Nat /\ Len(s) \in Nat /\ end \in Nat /\ pos <= end /\ end <= Len(t)
  BY LenProperties DEF Occurs
<1>2. ASSUME NEW k \in pos..(end - 1) PROVE At(t, k) \notin S \cup {Zero}
  <2> DEFINE j == k - pos
  <2>1. j \in 0..(Len(s) - 1) /\ j + 1 \in 1..Len(s) /\ pos + j = k
    BY <1>1
  <2> HIDE DEF j
  <2>2. At(t, pos + j) = s[j + 1]
    BY <2>1, OccursProperties
  <2>3. s[j + 1] \in Char /\ s[j + 1] \notin S
    BY <1>1, <2>1, ElementOfSeq
  <2>4. QED
    BY <2>1, <2>2, <2>3, CharProperties
<1>3. At(t, end) \in S \cup {Zero}
  OBVIOUS
<1> HIDE DEF end
<1>4. Find(t, pos, S) = end
  BY <1>1, <1>2, <1>3, FindIs
<1>5. QED
  BY <1>4 DEF end

\* What serialize_response writes is a text.
LEMMA ScalarText ==
  ASSUME NEW v \in Scalar
  PROVE  serialize_response(v) \in Seq(Char) /\ Len(serialize_response(v)) \in Nat
<1> DEFINE w == serialize_response(v)
<1>0. "$" \in Char /\ ":" \in Char /\ "+" \in Char /\ "-" \in Char
      /\ CRLF \in Seq(Char) /\ Len(CRLF) = 2
  BY CharProperties
<1>1. CASE v \in [type : {"+", "-"}, str : Seq(Char \ {"CR"})]
  <2>1. v.type \in {"+", "-"} /\ v.type \in Char /\ v.str \in Seq(Char \ {"CR"})
    BY <1>0, <1>1
  <2>2. Len(v.str) \in Nat /\ \A i \in 1..Len(v.str) : v.str[i] \in Char
    BY <2>1, LenProperties, ElementOfSeq
  <2>3. v.str \in Seq(Char)
    BY <2>1, <2>2
  <2>4. w = <<v.type>> \o v.str \o CRLF
    BY <2>1 DEF serialize_response
  <2>5. QED
    BY <2>1, <2>2, <2>3, <2>4, LineText
<1>2. CASE v \in [type : {":"}, n : Number]
  <2>1. v.n \in Int /\ w = <<":">> \o Decimal(v.n) \o CRLF
    BY <1>2, NumberProperties DEF serialize_response
  <2>2. Decimal(v.n) \in Seq(Char) /\ Len(Decimal(v.n)) \in Nat
    BY <2>1, DecimalProperties, NumberText
  <2>3. QED
    BY <1>0, <2>1, <2>2, LineText
<1>3. CASE v = Null
  <2>1. w = <<"$", "-", "1">> \o CRLF
    BY <1>3 DEF serialize_response, Null
  <2>2. "1" \in Char
    <3>1. 1 \in 0..9 /\ Figure[1 + 1] = "1"
      BY DEF Figure
    <3>2. Figure[1 + 1] \in Char
      BY <3>1, DigitProperties
    <3>3. QED
      BY <3>1, <3>2
  <2> DEFINE u == <<"$", "-", "1">>
  <2>3. u \in Seq(Char)
    BY <1>0, <2>2
  <2> HIDE DEF u
  <2>4. u \o CRLF \in Seq(Char)
    BY <1>0, <2>3, ConcatProperties
  <2>5. QED
    BY <2>1, <2>4, LenProperties DEF u
<1>4. CASE v \in {b \in [type : {"$"}, len : Number, str : Seq(Char)] : b.len = Len(b.str)}
  <2>1. /\ v.len \in Int /\ v.str \in Seq(Char)
        /\ w = <<"$">> \o Decimal(v.len) \o CRLF \o v.str \o CRLF
    BY <1>4, NumberProperties DEF serialize_response, serialize_bulk
  <2> DEFINE s == Decimal(v.len)
             line == <<"$">> \o s \o CRLF
  <2>2. s \in Seq(Char)
    BY <2>1, DecimalProperties, NumberText
  <2> HIDE DEF s
  <2>3. line \in Seq(Char)
    BY <1>0, <2>2, LineText
  <2> HIDE DEF line
  <2>4. line \o v.str \in Seq(Char)
    BY <2>1, <2>3, ConcatProperties
  <2>5. line \o v.str \o CRLF \in Seq(Char)
    BY <1>0, <2>4, ConcatProperties
  <2>6. QED
    BY <2>1, <2>5, LenProperties DEF line, s
<1>5. QED
  BY <1>1, <1>2, <1>3, <1>4 DEF Scalar

\* A value that is no array is written as a line, a bulk string as two.
LEMMA ScalarRead ==
  ASSUME NEW t \in Seq(Char), NEW pos \in Nat, NEW element, NEW v \in Scalar,
         Occurs(t, pos, serialize_response(v))
  PROVE  LET w == serialize_response(v)
         IN  /\ w \in Seq(Char) /\ Len(w) \in Nat \ {0}
             /\ At(t, pos) \in {"+", "-", ":", "$"}
             /\ parse_value(t, pos, element) = [val |-> v, pos |-> pos + Len(w)]
<1> DEFINE w == serialize_response(v)
           Goal == /\ w \in Seq(Char) /\ Len(w) \in Nat \ {0}
                   /\ At(t, pos) \in {"+", "-", ":", "$"}
                   /\ parse_value(t, pos, element) = [val |-> v, pos |-> pos + Len(w)]
<1>1. CASE v \in [type : {"+", "-"}, str : Seq(Char \ {"CR"})]
  <2> DEFINE c == v.type
             s == v.str
             end == pos + 1 + Len(s)
  <2>1. c \in {"+", "-"} /\ c \in Char /\ s \in Seq(Char \ {"CR"}) /\ v = Line(c, s)
    BY <1>1, CharProperties DEF Line
  <2>2. w = <<c>> \o s \o CRLF
    BY <2>1 DEF serialize_response
  <2>3. Len(s) \in Nat /\ \A i \in 1..Len(s) : s[i] \in Char \ {"CR"}
    BY <2>1, LenProperties, ElementOfSeq
  <2>4. s \in Seq(Char)
    BY <2>1, <2>3
  <2> HIDE DEF c, s, w
  <2>5. /\ w \in Seq(Char) /\ Len(w) = Len(s) + 3
        /\ At(t, pos) = c /\ Occurs(t, pos + 1, s) /\ At(t, pos + 1 + Len(s)) = "CR"
    BY <2>1, <2>2, <2>4, OccursLine DEF w
  <2>6. Find(t, pos + 1, {"CR"}) = end
    BY <2>3, <2>4, <2>5, FindBehind
  <2>7. Slice(t, pos + 1, end) = s
    BY <2>4, <2>5, OccursProperties
  <2>8. At(t, end) # Zero /\ end + 2 = pos + Len(w)
    <3>1. end + 2 = pos + Len(w)
      BY <2>3, <2>5
    <3>2. QED
      BY <2>5, <3>1, CharProperties
  <2>9. parse_value(t, pos, element) = parse_line(t, pos)
    BY <2>1, <2>5 DEF parse_value
  <2> HIDE DEF end
  <2>10. parse_line(t, pos) = [val |-> Line(c, s), pos |-> end + 2]
    BY <2>5, <2>6, <2>7, <2>8 DEF parse_line
  <2>11. QED
    BY <2>1, <2>3, <2>5, <2>8, <2>9, <2>10 DEF w
<1>2. CASE v \in [type : {":"}, n : Number]
  <2> DEFINE n == v.n
             s == Decimal(n)
  <2>1. n \in Int /\ v = Integer(n) /\ ":" \in Char
    BY <1>2, CharProperties, NumberProperties DEF Integer
  <2>2. w = <<":">> \o s \o CRLF
    BY <2>1 DEF serialize_response, Integer
  <2>3. NumberAs(s, n)
    BY <2>1, DecimalProperties
  <2> HIDE DEF n, s, w
  <2>4. s \in Seq(Char)
    BY <2>1, <2>3, NumberText
  <2>5. /\ w \in Seq(Char) /\ Len(w) = Len(s) + 3 /\ Len(s) \in Nat
        /\ At(t, pos) = ":" /\ Occurs(t, pos + 1, s) /\ At(t, pos + 1 + Len(s)) = "CR"
    BY <2>1, <2>2, <2>4, OccursLine DEF w
  <2>6. strtol(t, pos + 1) = [n |-> n, end |-> pos + 1 + Len(s)]
    BY <2>1, <2>3, <2>5, StrtolReads
  <2>7. parse_value(t, pos, element) = [val |-> Integer(n), pos |-> pos + 1 + Len(s) + 2]
    BY <2>5, <2>6 DEF parse_value
  <2>8. pos + 1 + Len(s) + 2 = pos + Len(w)
    BY <2>5
  <2>9. QED
    BY <2>1, <2>5, <2>7, <2>8 DEF w
<1>3. CASE v = Null
  <2> DEFINE s == <<"-", "1">>
  <2>1. w = <<"$", "-", "1">> \o CRLF
    BY <1>3 DEF serialize_response, Null
  <2>2. NumberAs(s, -1) /\ <<"$">> \o s = <<"$", "-", "1">>
    <3>1. Figure[1 + 1] = "1" /\ ReadAs(<<Figure[1 + 1]>>, 1)
      BY ReadAsProperties DEF Figure
    <3>2. s = <<"-">> \o <<"1">> /\ <<"$">> \o s = <<"$", "-", "1">>
      <4>1. "-" \in Char /\ "$" \in Char /\ "1" \in Char
        <5>1. 1 \in 0..9
          OBVIOUS
        <5>2. Figure[1 + 1] \in Char
          BY <5>1, DigitProperties
        <5>3. QED
          BY <3>1, <5>2, CharProperties
      <4>2. <<"-">> \o <<"1">> = <<"-", "1">>
        BY <4>1, TwoCharacters
      <4>3. <<"$">> \o <<"-", "1">> = <<"$", "-", "1">>
        BY <4>1, ThreeCharacters
      <4>4. QED
        BY <4>2, <4>3
    <3>3. \E u : s = <<"-">> \o u /\ ReadAs(u, 1)
      BY <3>1, <3>2, Zenon
    <3>4. -1 < 0 /\ 1 = 0 - -1
      OBVIOUS
    <3>5. QED
      BY <3>2, <3>3, <3>4 DEF NumberAs
  <2>3. w = <<"$">> \o s \o CRLF /\ -1 \in Int
    BY <2>1, <2>2
  <2> HIDE DEF s, w
  <2>4. s \in Seq(Char) /\ "$" \in Char
    BY <2>2, <2>3, NumberText, CharProperties
  <2>5. /\ w \in Seq(Char) /\ Len(w) = Len(s) + 3 /\ Len(s) \in Nat
        /\ At(t, pos) = "$" /\ Occurs(t, pos + 1, s) /\ At(t, pos + 1 + Len(s)) = "CR"
    BY <2>3, <2>4, OccursLine DEF w
  <2>6. strtol(t, pos + 1) = [n |-> -1, end |-> pos + 1 + Len(s)]
    BY <2>2, <2>3, <2>5, StrtolReads
  <2>7. parse_value(t, pos, element) = [val |-> Null, pos |-> pos + 1 + Len(s) + 2]
    BY <2>5, <2>6 DEF parse_value, parse_bulk
  <2>8. pos + 1 + Len(s) + 2 = pos + Len(w)
    BY <2>5
  <2>9. QED
    BY <1>3, <2>5, <2>7, <2>8 DEF w
<1>4. CASE v \in {b \in [type : {"$"}, len : Number, str : Seq(Char)] : b.len = Len(b.str)}
  <2> DEFINE str == v.str
             n == v.len
             s == Decimal(n)
             line == <<"$">> \o s \o CRLF
             front == line \o str
             first == pos + 3 + Len(s)
  <2>1. /\ str \in Seq(Char) /\ n = Len(str) /\ n \in Nat
        /\ v = [type |-> "$", len |-> n, str |-> str]
    BY <1>4, LenProperties
  <2>2. w = front \o CRLF
    BY <2>1 DEF serialize_response, serialize_bulk
  <2>3. NumberAs(s, n) /\ n \in Int
    BY <2>1, DecimalProperties
  <2> HIDE DEF str, n, s, w
  <2>4. s \in Seq(Char) /\ "$" \in Char /\ Len(s) \in Nat /\ Len(t) \in Nat
    BY <2>3, NumberText, CharProperties, LenProperties
  <2>5. line \in Seq(Char)
    BY <2>4, CharProperties, OneCharacter, ConcatProperties
  <2>6. Occurs(t, pos, front \o CRLF)
    BY <2>2 DEF w
  <2> HIDE DEF line
  <2>7. front \in Seq(Char) /\ Len(front) = Len(line) + Len(str)
    BY <2>1, <2>4, <2>5, OccursConcat
  <2> HIDE DEF front
  <2>8. /\ w \in Seq(Char) /\ Len(w) = Len(front) + 2
        /\ Occurs(t, pos, front)
    <3>1. CRLF \in Seq(Char) /\ Len(CRLF) = 2
      BY CharProperties
    <3>2. /\ Len(front \o CRLF) = Len(front) + Len(CRLF) /\ front \o CRLF \in Seq(Char)
          /\ Occurs(t, pos, front)
      BY <2>4, <2>6, <2>7, <3>1, OccursConcat
    <3>3. QED
      BY <2>2, <3>1, <3>2
  <2>9. Occurs(t, pos, line) /\ Occurs(t, pos + Len(line), str)
    BY <2>1, <2>4, <2>5, <2>8, OccursConcat DEF front
  <2>10. /\ Len(line) = Len(s) + 3
         /\ At(t, pos) = "$" /\ Occurs(t, pos + 1, s) /\ At(t, pos + 1 + Len(s)) = "CR"
    BY <2>4, <2>9, OccursLine DEF line
  <2>11. strtol(t, pos + 1) = [n |-> n, end |-> pos + 1 + Len(s)]
    BY <2>3, <2>10, StrtolReads
  <2>12. /\ pos + 1 + Len(s) + 2 = first /\ pos + Len(line) = first /\ first \in Nat
         /\ first + n + 2 = pos + Len(w) /\ n # -1
    BY <2>1, <2>4, <2>7, <2>8, <2>10
  <2>13. Slice(t, first, first + n) = str
    BY <2>1, <2>9, <2>12, OccursProperties
  <2> HIDE DEF first
  <2>14. parse_value(t, pos, element) = parse_bulk(t, pos)
    BY <2>10 DEF parse_value
  <2>15. parse_bulk(t, pos) =
           [val |-> [type |-> "$", len |-> n, str |-> str], pos |-> first + n + 2]
    BY <2>11, <2>12, <2>13 DEF parse_bulk
  <2>16. Len(w) \in Nat \ {0}
    BY <2>1, <2>4, <2>7, <2>8, <2>10
  <2>17. QED
    BY <2>1, <2>8, <2>10, <2>12, <2>14, <2>15, <2>16 DEF w
<1>5. Goal
  BY <1>1, <1>2, <1>3, <1>4 DEF Scalar
<1>6. QED
  BY <1>5

-----------------------------------------------------------------------------
(* Values with elements *)

\* What parse_resp finds behind a position.
Ahead(t, p) == [q \in Nat |-> IF q > p THEN parse_resp(t, q) ELSE Nothing(q)]

\* The recursion of parse_resp ends, for it goes forward in the text.
ParsedFrom(t, m, f) ==
  f = [p \in m..(Len(t) - 1) |->
         parse_value(t, p, [q \in Nat |-> IF q > p /\ q \in 0..(Len(t) - 1)
                                          THEN f[q] ELSE Nothing(q)])]

\* A call of parse_resp is one of parse_value with the calls behind it.
LEMMA ParseRespIs ==
  ASSUME NEW t \in Seq(Char), NEW pos \in Nat
  PROVE  parse_resp(t, pos) =
           IF pos < Len(t) THEN parse_value(t, pos, Ahead(t, pos)) ELSE Nothing(pos)
<1> DEFINE n == Len(t)
           inside == 0..(n - 1)
           In(f, p) == [q \in Nat |-> IF q > p /\ q \in inside THEN f[q] ELSE Nothing(q)]
           Bad == {k \in 0..n : ~\E f : ParsedFrom(t, n - k, f)}
<1>1. n \in Nat
  BY LenProperties
<1>2. \A m, f : ParsedFrom(t, m, f) <=> f = [p \in m..(n - 1) |-> parse_value(t, p, In(f, p))]
  BY DEF ParsedFrom
<1> HIDE DEF n, In
<1>3. Bad = {}
  <2> SUFFICES ASSUME Bad # {} PROVE FALSE
    OBVIOUS
  <2>1. Bad \in SUBSET Nat
    BY <1>1
  <2>2. PICK k \in Bad : \A l \in Bad : k <= l
    BY <2>1, LeastNumber
  <2>3. CASE k = 0
    <3> DEFINE f == [p \in {} |-> p]
    <3>1. (n - 0)..(n - 1) = {}
      BY <1>1
    <3>2. f = [p \in (n - 0)..(n - 1) |-> parse_value(t, p, In(f, p))]
      BY <3>1
    <3>3. ParsedFrom(t, n - 0, f)
      BY <1>2, <3>2
    <3>4. QED
      BY <2>2, <2>3, <3>3
  <2>4. CASE k # 0
    <3> DEFINE m == n - k
    <3>0. k - 1 \in 0..n /\ ~(k <= k - 1) /\ n - (k - 1) = m + 1 /\ m \in 0..(n - 1)
      <4>1. k \in 0..n
        BY <2>2
      <4>2. QED
        BY <1>1, <2>4, <4>1
    <3>1. k - 1 \notin Bad /\ m \in 0..(n - 1)
      BY <2>2, <3>0
    <3>2. PICK f : ParsedFrom(t, m + 1, f)
      <4>1. \E f : ParsedFrom(t, n - (k - 1), f)
        BY <3>0, <3>1
      <4>2. QED
        BY <3>0, <4>1
    <3> DEFINE g == [p \in m..(n - 1) |-> IF p > m THEN f[p] ELSE parse_value(t, p, In(f, p))]
    <3> HIDE DEF m
    <3>3. \A p \in (m + 1)..(n - 1) : f[p] = parse_value(t, p, In(f, p))
      <4>1. f = [p \in (m + 1)..(n - 1) |-> parse_value(t, p, In(f, p))]
        BY <1>2, <3>2
      <4>2. QED
        BY <4>1
    <3>4. ASSUME NEW p \in m..(n - 1) PROVE g[p] = parse_value(t, p, In(g, p))
      <4>1. \A q \in Nat : q > p /\ q \in inside => g[q] = f[q]
        BY <1>1, <3>1
      <4>2. In(g, p) = In(f, p)
        <5> HIDE DEF g
        <5>1. QED
          BY <4>1 DEF In
      <4>3. CASE p > m
        <5>1. p \in (m + 1)..(n - 1) /\ g[p] = f[p]
          BY <1>1, <3>1, <4>3
        <5>2. QED
          BY <3>3, <4>2, <5>1
      <4>4. CASE ~(p > m)
        <5>1. g[p] = parse_value(t, p, In(f, p))
          BY <4>4
        <5>2. QED
          BY <4>2, <5>1
      <4>5. QED
        BY <4>3, <4>4
    <3>5. g = [p \in m..(n - 1) |-> g[p]]
      OBVIOUS
    <3> HIDE DEF g
    <3>6. g = [p \in m..(n - 1) |-> parse_value(t, p, In(g, p))]
      BY <3>4, <3>5
    <3>7. ParsedFrom(t, m, g)
      BY <1>2, <3>6
    <3>8. QED
      BY <2>2, <3>7 DEF m
  <2>5. QED
    BY <2>3, <2>4
<1> DEFINE parsed == CHOOSE f : ParsedFrom(t, 0, f)
<1>4. ParsedFrom(t, 0, parsed)
  <2>1. n \in 0..n /\ n - n = 0
    BY <1>1
  <2>2. \E f : ParsedFrom(t, 0, f)
    BY <1>3, <2>1
  <2>3. QED
    BY <2>2
<1>5. \A q \in Nat : parse_resp(t, q) = IF q \in inside THEN parsed[q] ELSE Nothing(q)
  BY DEF parse_resp, ParsedFrom, n
<1> HIDE DEF parsed
<1>6. CASE pos < n
  <2>1. pos \in inside
    BY <1>1, <1>6
  <2>2. In(parsed, pos) = Ahead(t, pos)
    <3>1. \A q \in Nat : (IF q > pos /\ q \in inside THEN parsed[q] ELSE Nothing(q)) =
                         (IF q > pos THEN parse_resp(t, q) ELSE Nothing(q))
      BY <1>5
    <3>2. QED
      BY <3>1 DEF Ahead, In
  <2>3. parsed[pos] = parse_value(t, pos, In(parsed, pos))
    BY <1>2, <1>4, <2>1
  <2>4. parse_resp(t, pos) = parse_value(t, pos, Ahead(t, pos))
    BY <1>5, <2>1, <2>2, <2>3
  <2>5. QED
    BY <1>6, <2>4 DEF n
<1>7. CASE ~(pos < n)
  <2>1. pos \notin inside
    BY <1>1, <1>7
  <2>2. QED
    BY <1>5, <1>7, <2>1 DEF n
<1>8. QED
  BY <1>6, <1>7

\* The elements are read one after the other.
CursorOf(element, pos, m, f) ==
  f = [i \in 0..m |-> IF i = 0 THEN pos ELSE element[f[i - 1]].pos]

\* The elements are those found at the positions g, the cursor ends at the last.
ElementsAt(element, pos, n, g, m) ==
  parse_elements(element, pos, n) =
    [val |-> Array(n, [i \in 1..n |-> element[g[i - 1]].val]), pos |-> g[m]]

\* The loop over the elements, when the cursors it goes through are known.
LEMMA ElementsRead ==
  ASSUME NEW element, NEW pos, NEW n \in Int, NEW g, NEW m, m = (IF n < 0 THEN 0 ELSE n),
         IsMap(g, 0..m),
         g[0] = pos, \A i \in 1..m : element[g[i - 1]].pos = g[i]
  PROVE  ElementsAt(element, pos, n, g, m)
<1> DEFINE cursor == CHOOSE f : CursorOf(element, pos, m, f)
<1>1. Max({0, n}) = m /\ m \in Nat
  BY DEF Max
<1>2. parse_elements(element, pos, n) =
        [val |-> Array(n, [i \in 1..n |-> element[cursor[i - 1]].val]), pos |-> cursor[m]]
  <2> DEFINE top == Max({0, n})
             cur == CHOOSE f : CursorOf(element, pos, top, f)
  <2>1. parse_elements(element, pos, n) =
          [val |-> Array(n, [i \in 1..n |-> element[cur[i - 1]].val]), pos |-> cur[top]]
    BY DEF parse_elements, CursorOf
  <2>2. top = m
    BY <1>1
  <2> HIDE DEF top
  <2>3. QED
    BY <2>1, <2>2
<1>3. CursorOf(element, pos, m, g)
  <2>1. \A i \in 0..m : g[i] = IF i = 0 THEN pos ELSE element[g[i - 1]].pos
    <3>1. \A i \in 0..m : i = 0 \/ i \in 1..m
      BY <1>1
    <3>2. QED
      BY <3>1
  <2>2. QED
    BY <2>1 DEF CursorOf, IsMap
<1>4. CursorOf(element, pos, m, cursor)
  BY <1>3
<1> HIDE DEF cursor
<1>5. \A i \in 0..m : cursor[i] = IF i = 0 THEN pos ELSE element[cursor[i - 1]].pos
  BY <1>4 DEF CursorOf
<1> DEFINE Bad == {i \in 0..m : cursor[i] # g[i]}
<1>6. Bad = {}
  <2> SUFFICES ASSUME Bad # {} PROVE FALSE
    OBVIOUS
  <2>1. Bad \in SUBSET Nat
    OBVIOUS
  <2>2. PICK i \in Bad : \A l \in Bad : i <= l
    BY <2>1, LeastNumber
  <2>3. i # 0
    BY <1>5, <2>2
  <2>4. i - 1 \in 0..m /\ ~(i <= i - 1) /\ i \in 1..m
    BY <1>1, <2>2, <2>3
  <2>5. cursor[i - 1] = g[i - 1]
    BY <2>2, <2>4
  <2>6. cursor[i] = element[g[i - 1]].pos
    BY <1>5, <2>2, <2>3, <2>5
  <2>7. QED
    BY <2>2, <2>4, <2>6
<1>7. \A i \in 0..m : cursor[i] = g[i]
  BY <1>6
<1>8. \A i \in 1..n : cursor[i - 1] = g[i - 1]
  <2>1. \A i \in 1..n : i - 1 \in 0..m
    BY <1>1
  <2>2. QED
    BY <1>7, <2>1
<1>9. [i \in 1..n |-> element[cursor[i - 1]].val] = [i \in 1..n |-> element[g[i - 1]].val]
  BY <1>8
<1>10. cursor[m] = g[m]
  BY <1>1, <1>7
<1>11. QED
  BY <1>2, <1>9, <1>10 DEF ElementsAt

-----------------------------------------------------------------------------
(* Texts in a row *)

\* The recursion of FlattenSeq.
FlatTo(ws, m, f) == f = [i \in 1..m |-> IF i = 1 THEN ws[i] ELSE f[i - 1] \o ws[i]]

\* Where each of them ends, and that it occurs there.
LEMMA FlattenProperties ==
  ASSUME NEW ws \in Seq(Seq(Char))
  PROVE  /\ FlattenSeq(ws) \in Seq(Char)
         /\ \E end \in [0..Len(ws) -> Nat] :
              /\ end[0] = 0 /\ end[Len(ws)] = Len(FlattenSeq(ws))
              /\ \A i \in 1..Len(ws) : end[i] = end[i - 1] + Len(ws[i])
              /\ \A t \in Seq(Char), p \in Nat : Occurs(t, p, FlattenSeq(ws)) =>
                   \A i \in 1..Len(ws) : Occurs(t, p + end[i - 1], ws[i])
<1> DEFINE n == Len(ws)
           Result(flat, end) ==
              /\ end[0] = 0 /\ end[n] = Len(flat)
              /\ \A i \in 1..n : end[i] = end[i - 1] + Len(ws[i])
              /\ \A t \in Seq(Char), p \in Nat : Occurs(t, p, flat) =>
                   \A i \in 1..n : Occurs(t, p + end[i - 1], ws[i])
<1>1. n \in Nat /\ \A i \in 1..n : ws[i] \in Seq(Char) /\ Len(ws[i]) \in Nat
  <2>1. n \in Nat /\ \A i \in 1..n : ws[i] \in Seq(Char)
    BY LenProperties, ElementOfSeq
  <2>2. QED
    BY <2>1, LenProperties
<1>2. CASE n = 0
  <2> DEFINE end == [i \in 0..0 |-> 0]
  <2>1. FlattenSeq(ws) = <<>>
    <3>1. ws = <<>>
      BY <1>2, EmptySeq
    <3>2. QED
      BY <1>2, <3>1 DEF FlattenSeq
  <2>2. <<>> \in Seq(Char) /\ Len(<<>>) = 0
    BY EmptySeq
  <2>3. end \in [0..n -> Nat] /\ end[0] = 0 /\ end[n] = 0 /\ 1..n = {}
    BY <1>2
  <2> HIDE DEF end
  <2>4. Result(<<>>, end)
    BY <2>2, <2>3
  <2>5. QED
    BY <2>1, <2>2, <2>3, <2>4
<1>3. CASE n # 0
  <2> HIDE DEF n
  <2> DEFINE Bad == {m \in Nat : ~\E f : FlatTo(ws, m, f)}
  <2>1. Bad = {}
    <3> SUFFICES ASSUME Bad # {} PROVE FALSE
      OBVIOUS
    <3>1. PICK m \in Bad : \A l \in Bad : m <= l
      BY LeastNumber
    <3>2. CASE m = 0
      <4> DEFINE f == [i \in {} |-> i]
      <4>1. FlatTo(ws, 0, f)
        BY DEF FlatTo
      <4>2. QED
        BY <3>1, <3>2, <4>1
    <3>3. CASE m # 0
      <4>1. m - 1 \in Nat /\ m - 1 \notin Bad
        BY <3>1, <3>3
      <4>2. PICK f : FlatTo(ws, m - 1, f)
        BY <4>1
      <4> DEFINE g == [i \in 1..m |-> IF i < m THEN f[i]
                                      ELSE IF i = 1 THEN ws[i] ELSE f[i - 1] \o ws[i]]
      <4>3. \A i \in 1..(m - 1) : f[i] = IF i = 1 THEN ws[i] ELSE f[i - 1] \o ws[i]
        BY <4>2 DEF FlatTo
      <4>4. ASSUME NEW i \in 1..m PROVE g[i] = IF i = 1 THEN ws[i] ELSE g[i - 1] \o ws[i]
        <5>1. i # 1 => i - 1 \in 1..m /\ i - 1 < m
          OBVIOUS
        <5>2. i # 1 => g[i - 1] = f[i - 1]
          BY <5>1
        <5>3. i < m => i \in 1..(m - 1) /\ g[i] = f[i]
          BY <4>1
        <5>4. ~(i < m) => g[i] = IF i = 1 THEN ws[i] ELSE f[i - 1] \o ws[i]
          OBVIOUS
        <5> HIDE DEF g
        <5>5. QED
          BY <4>3, <5>2, <5>3, <5>4
      <4>5. g = [i \in 1..m |-> g[i]]
        OBVIOUS
      <4> HIDE DEF g
      <4>6. FlatTo(ws, m, g)
        BY <4>4, <4>5 DEF FlatTo
      <4>7. QED
        BY <3>1, <4>6
    <3>4. QED
      BY <3>2, <3>3
  <2> DEFINE flat == CHOOSE f : FlatTo(ws, n, f)
  <2>2. FlatTo(ws, n, flat)
    BY <1>1, <2>1
  <2>3. FlattenSeq(ws) = flat[n]
    BY <1>3 DEF FlattenSeq, FlatTo, n
  <2> HIDE DEF flat
  <2>4. \A i \in 1..n : flat[i] = IF i = 1 THEN ws[i] ELSE flat[i - 1] \o ws[i]
    BY <2>2 DEF FlatTo
  <2> DEFINE Wrong == {i \in 1..n : flat[i] \notin Seq(Char)}
  <2>5. Wrong = {}
    <3> SUFFICES ASSUME Wrong # {} PROVE FALSE
      OBVIOUS
    <3>1. Wrong \in SUBSET Nat
      OBVIOUS
    <3>2. PICK i \in Wrong : \A l \in Wrong : i <= l
      BY <3>1, LeastNumber
    <3>3. i # 1
      BY <1>1, <2>4, <3>2
    <3>4. i - 1 \in 1..n /\ ~(i <= i - 1)
      BY <1>1, <3>2, <3>3
    <3>5. flat[i - 1] \in Seq(Char)
      BY <3>2, <3>4
    <3>6. flat[i - 1] \o ws[i] \in Seq(Char)
      BY <1>1, <3>2, <3>5, ConcatProperties
    <3>7. QED
      BY <2>4, <3>2, <3>3, <3>6
  <2>6. \A i \in 1..n : flat[i] \in Seq(Char) /\ Len(flat[i]) \in Nat
    BY <2>5, LenProperties
  <2> DEFINE end == [i \in 0..n |-> IF i = 0 THEN 0 ELSE Len(flat[i])]
  <2>7. end \in [0..n -> Nat] /\ end[0] = 0 /\ end[n] = Len(flat[n])
    BY <1>1, <1>3, <2>6
  <2>8. ASSUME NEW i \in 1..n
        PROVE  /\ end[i] = end[i - 1] + Len(ws[i])
               /\ \A t \in Seq(Char), p \in Nat : Occurs(t, p, flat[i]) =>
                    /\ Occurs(t, p + end[i - 1], ws[i])
                    /\ i # 1 => Occurs(t, p, flat[i - 1])
    <3>1. CASE i = 1
      <4>1. flat[i] = ws[i] /\ end[i] = Len(ws[i]) /\ end[i - 1] = 0
        BY <1>1, <2>4, <3>1
      <4>2. \A p \in Nat : p + 0 = p
        OBVIOUS
      <4> HIDE DEF end
      <4>3. QED
        BY <1>1, <3>1, <4>1, <4>2
    <3>2. CASE i # 1
      <4>1. i - 1 \in 1..n
        BY <1>1, <3>2
      <4>2. end[i] = Len(flat[i]) /\ end[i - 1] = Len(flat[i - 1])
        BY <1>1, <3>2, <4>1
      <4> HIDE DEF end
      <4>3. flat[i] = flat[i - 1] \o ws[i] /\ flat[i - 1] \in Seq(Char) /\ ws[i] \in Seq(Char)
        BY <1>1, <2>4, <2>6, <3>2, <4>1
      <4>4. Len(flat[i]) = Len(flat[i - 1]) + Len(ws[i])
        BY <4>3, ConcatProperties
      <4>5. ASSUME NEW t \in Seq(Char), NEW p \in Nat, Occurs(t, p, flat[i])
            PROVE  Occurs(t, p + end[i - 1], ws[i]) /\ Occurs(t, p, flat[i - 1])
        <5>1. Occurs(t, p, flat[i - 1] \o ws[i]) /\ Len(t) \in Nat
          BY <4>3, <4>5, LenProperties
        <5>2. Occurs(t, p, flat[i - 1]) /\ Occurs(t, p + Len(flat[i - 1]), ws[i])
          BY <4>3, <5>1, OccursConcat
        <5>3. QED
          BY <4>2, <5>2
      <4>6. QED
        BY <4>2, <4>4, <4>5
    <3>3. QED
      BY <3>1, <3>2
  <2> HIDE DEF end
  <2>9. ASSUME NEW t \in Seq(Char), NEW p \in Nat, Occurs(t, p, flat[n]), NEW i \in 1..n
        PROVE  Occurs(t, p + end[i - 1], ws[i])
    <3> DEFINE Missing == {k \in 0..(n - 1) : ~Occurs(t, p, flat[n - k])}
    <3>1. Missing = {}
      <4> SUFFICES ASSUME Missing # {} PROVE FALSE
        OBVIOUS
      <4>1. Missing \in SUBSET Nat
        OBVIOUS
      <4>2. PICK k \in Missing : \A l \in Missing : k <= l
        BY <4>1, LeastNumber
      <4>3. k # 0
        <5>1. n - 0 = n
          BY <1>1
        <5>2. QED
          BY <2>9, <4>2, <5>1
      <4>4. /\ k - 1 \in 0..(n - 1) /\ ~(k <= k - 1) /\ n - (k - 1) \in 1..n /\ n - (k - 1) # 1
            /\ (n - (k - 1)) - 1 = n - k
        BY <1>1, <4>2, <4>3
      <4>5. Occurs(t, p, flat[n - (k - 1)])
        BY <4>2, <4>4
      <4>6. Occurs(t, p, flat[n - k])
        <5> DEFINE j == n - (k - 1)
        <5>1. j \in 1..n /\ j # 1 /\ j - 1 = n - k /\ Occurs(t, p, flat[j])
          BY <4>4, <4>5
        <5> HIDE DEF j
        <5>2. Occurs(t, p, flat[j - 1])
          BY <2>8, <5>1
        <5>3. QED
          BY <5>1, <5>2
      <4>7. QED
        BY <4>2, <4>6
    <3>2. n - i \in 0..(n - 1) /\ n - (n - i) = i
      BY <1>1
    <3>3. Occurs(t, p, flat[i])
      <4> DEFINE k == n - i
      <4>1. k \in 0..(n - 1) /\ n - k = i
        BY <3>2
      <4> HIDE DEF k
      <4>2. Occurs(t, p, flat[n - k])
        BY <3>1, <4>1
      <4>3. QED
        BY <4>1, <4>2
    <3>4. QED
      BY <2>8, <3>3
  <2>10. Result(flat[n], end)
    BY <2>7, <2>8, <2>9
  <2>11. n \in 1..n
    BY <1>1, <1>3
  <2>12. QED
    BY <2>3, <2>6, <2>7, <2>10, <2>11 DEF n
<1>4. QED
  BY <1>2, <1>3

-----------------------------------------------------------------------------
(* The values that clients mean, and how they are written *)

\* The recursion of RespValue up to m.
ValuesTo(m, f) ==
  f = [d \in 0..m |-> IF d = 0 THEN Scalar ELSE Scalar \cup ArrayOver(f[d - 1])]

\* A value is a scalar or an array of values that are not as deep.
LEMMA RespValueIs ==
  \A d \in 0..Depth :
    RespValue[d] = IF d = 0 THEN Scalar ELSE Scalar \cup ArrayOver(RespValue[d - 1])
<1> DEFINE Bad == {m \in Nat : ~\E f : ValuesTo(m, f)}
           Body(f, d) == IF d = 0 THEN Scalar ELSE Scalar \cup ArrayOver(f[d - 1])
<1>1. Bad = {}
  <2> SUFFICES ASSUME Bad # {} PROVE FALSE
    OBVIOUS
  <2>1. PICK m \in Bad : \A l \in Bad : m <= l
    BY LeastNumber
  <2>2. CASE m = 0
    <3> DEFINE f == [d \in 0..0 |-> Scalar]
    <3>1. ValuesTo(0, f)
      BY DEF ValuesTo
    <3>2. QED
      BY <2>1, <2>2, <3>1
  <2>3. CASE m # 0
    <3>1. m - 1 \in Nat /\ m - 1 \notin Bad
      BY <2>1, <2>3
    <3>2. PICK f : ValuesTo(m - 1, f)
      BY <3>1
    <3>3. \A d \in 0..(m - 1) : f[d] = Body(f, d)
      BY <3>2 DEF ValuesTo
    <3> DEFINE g == [d \in 0..m |-> IF d < m THEN f[d] ELSE Body(f, d)]
    <3>4. ASSUME NEW d \in 0..m PROVE g[d] = Body(g, d)
      <4>1. d # 0 => d - 1 \in 0..m /\ d - 1 < m
        OBVIOUS
      <4>2. d # 0 => g[d - 1] = f[d - 1]
        BY <4>1
      <4>3. d < m => d \in 0..(m - 1) /\ g[d] = f[d]
        BY <3>1
      <4>4. ~(d < m) => g[d] = Body(f, d)
        OBVIOUS
      <4> HIDE DEF g
      <4>5. QED
        BY <3>3, <4>2, <4>3, <4>4
    <3>5. IsMap(g, 0..m)
      BY DEF IsMap
    <3> HIDE DEF g
    <3>6. ValuesTo(m, g)
      BY <3>4, <3>5 DEF ValuesTo, IsMap
    <3>7. QED
      BY <2>1, <3>6
  <2>4. QED
    BY <2>2, <2>3
<1>2. ValuesTo(Depth, RespValue)
  <2>1. \E f : ValuesTo(Depth, f)
    BY <1>1, DepthAssumption
  <2>2. RespValue = CHOOSE f : ValuesTo(Depth, f)
    BY DEF RespValue, ValuesTo
  <2>3. QED
    BY <2>1, <2>2
<1>3. QED
  BY <1>2 DEF ValuesTo

\* What is written of a value with the writing of its elements.
Writing(v, f) ==
  IF v.type # "*" THEN serialize_response(v)
  ELSE serialize_response(v) \o FlattenSeq([i \in DOMAIN v.array |-> f[v.array[i]]])

\* The recursion of WireOf up to m.
WiresTo(m, f) == f = [d \in 0..m |-> [v \in RespValue[d] |-> Writing(v, f[d - 1])]]

\* A scalar is no array.
LEMMA ScalarType == \A v \in Scalar : v.type \in {"+", "-", ":", "$", "null"}
BY DEF Scalar, Null

\* What is written of a value.
LEMMA WireIs ==
  \A d \in 0..Depth : \A v \in RespValue[d] : WireOf[d][v] = Writing(v, WireOf[d - 1])
<1>0. RespValue[0] = Scalar
  <2>1. 0 \in 0..Depth
    BY DepthAssumption
  <2>2. QED
    BY <2>1, RespValueIs
<1> DEFINE Bad == {m \in 0..Depth : ~\E f : WiresTo(m, f)}
<1>1. Bad = {}
  <2> SUFFICES ASSUME Bad # {} PROVE FALSE
    OBVIOUS
  <2>0. Bad \in SUBSET Nat
    BY DepthAssumption
  <2>1. PICK m \in Bad : \A l \in Bad : m <= l
    BY <2>0, LeastNumber
  <2>2. CASE m = 0
    <3> DEFINE f == [d \in 0..0 |-> [v \in RespValue[d] |-> serialize_response(v)]]
    <3>1. \A v \in RespValue[0] : v.type # "*"
      BY <1>0, ScalarType
    <3>2. \A g : \A v \in RespValue[0] : Writing(v, g) = serialize_response(v)
      BY <3>1 DEF Writing
    <3>3. f = [d \in 0..0 |-> [v \in RespValue[d] |-> Writing(v, f[d - 1])]]
      <4>1. \A d \in 0..0 : d = 0
        OBVIOUS
      <4>2. \A g : [v \in RespValue[0] |-> serialize_response(v)] =
                   [v \in RespValue[0] |-> Writing(v, g)]
        BY <3>2
      <4>3. [v \in RespValue[0] |-> serialize_response(v)] =
              [v \in RespValue[0] |-> Writing(v, f[0 - 1])]
        BY <4>2, Zenon
      <4> DEFINE h == f
      <4>4. IsMap(h, 0..0) /\ h[0] = [v \in RespValue[0] |-> serialize_response(v)]
        BY DEF IsMap
      <4> HIDE DEF h
      <4>5. h[0] = [v \in RespValue[0] |-> Writing(v, h[0 - 1])]
        BY <4>3, <4>4 DEF h
      <4>6. h = [d \in 0..0 |-> [v \in RespValue[d] |-> Writing(v, h[d - 1])]]
        BY <4>1, <4>4, <4>5 DEF IsMap
      <4>7. QED
        BY <4>6 DEF h
    <3>4. WiresTo(0, f)
      BY <3>3 DEF WiresTo
    <3>5. QED
      BY <2>1, <2>2, <3>4
  <2>3. CASE m # 0
    <3>0. m \in 0..Depth
      BY <2>1
    <3>1. m - 1 \in 0..Depth /\ m - 1 \notin Bad /\ m \in Nat \ {0}
      BY <2>1, <2>3, <3>0, DepthAssumption
    <3>2. PICK f : WiresTo(m - 1, f)
      BY <3>1
    <3> DEFINE Body(h, d) == [v \in RespValue[d] |-> Writing(v, h[d - 1])]
    <3>3. \A d \in 0..(m - 1) : f[d] = Body(f, d)
      <4>1. f = [d \in 0..(m - 1) |-> Body(f, d)]
        BY <3>2 DEF WiresTo
      <4> HIDE DEF Body
      <4>2. QED
        BY <4>1
    <3> DEFINE g == [d \in 0..m |-> IF d < m THEN f[d] ELSE Body(f, d)]
    <3> HIDE DEF Body
    <3>4. ASSUME NEW d \in 0..m PROVE g[d] = Body(g, d)
      <4>1. d # 0 => d - 1 \in 0..m /\ d - 1 < m
        BY <3>1
      <4>2. d # 0 => g[d - 1] = f[d - 1]
        BY <4>1
      <4>3. Body(g, d) = Body(f, d)
        <5>1. CASE d # 0
          BY <4>2, <5>1 DEF Body
        <5>2. CASE d = 0
          <6>1. \A v \in RespValue[0] : v.type # "*"
            BY <1>0, ScalarType
          <6>2. \A h : \A v \in RespValue[0] : Writing(v, h) = serialize_response(v)
            BY <6>1 DEF Writing
          <6>3. \A h, k : [v \in RespValue[0] |-> Writing(v, h)] =
                          [v \in RespValue[0] |-> Writing(v, k)]
            BY <6>2
          <6>4. Body(g, 0) = Body(f, 0)
            BY <6>3, Zenon DEF Body
          <6>5. QED
            BY <5>2, <6>4
        <5>3. QED
          BY <5>1, <5>2
      <4>4. d < m => d \in 0..(m - 1) /\ g[d] = f[d]
        BY <3>1
      <4>5. ~(d < m) => g[d] = Body(f, d)
        OBVIOUS
      <4> HIDE DEF g
      <4>6. QED
        BY <3>3, <4>3, <4>4, <4>5
    <3>5. IsMap(g, 0..m)
      BY DEF IsMap
    <3> HIDE DEF g
    <3>6. g = [d \in 0..m |-> Body(g, d)]
      BY <3>4, <3>5 DEF IsMap
    <3>7. WiresTo(m, g)
      BY <3>6 DEF WiresTo, Body
    <3>8. QED
      BY <2>1, <3>7
  <2>4. QED
    BY <2>2, <2>3
<1>2. WiresTo(Depth, WireOf)
  <2>1. \E f : WiresTo(Depth, f)
    BY <1>1, DepthAssumption
  <2>2. WireOf = CHOOSE f : WiresTo(Depth, f)
    BY DEF WireOf, WiresTo, Writing
  <2>3. QED
    BY <2>1, <2>2
<1> DEFINE f == WireOf
<1>3. f = [d \in 0..Depth |-> [v \in RespValue[d] |-> Writing(v, f[d - 1])]]
  BY <1>2 DEF WiresTo
<1> HIDE DEF f
<1>4. ASSUME NEW d \in 0..Depth PROVE f[d] = [v \in RespValue[d] |-> Writing(v, f[d - 1])]
  BY <1>3
<1>5. \A d \in 0..Depth : \A v \in RespValue[d] : f[d][v] = Writing(v, f[d - 1])
  BY <1>4
<1>6. QED
  BY <1>5 DEF f

\* Wherever w stands, parse_resp reads v and leaves the cursor behind it.
ReadsBack(w, v) ==
  /\ w \in Seq(Char) /\ Len(w) \in Nat \ {0}
  /\ \A t \in Seq(Char), p \in Nat :
       Occurs(t, p, w) =>
         /\ At(t, p) \in Mark
         /\ parse_resp(t, p) = [val |-> v, pos |-> p + Len(w)]

\* A value without elements is read back.
LEMMA ScalarReadsBack ==
  ASSUME NEW v \in Scalar
  PROVE  ReadsBack(serialize_response(v), v)
<1> DEFINE w == serialize_response(v)
<1>1. ASSUME NEW t \in Seq(Char), NEW p \in Nat, Occurs(t, p, w)
      PROVE  /\ w \in Seq(Char) /\ Len(w) \in Nat \ {0} /\ At(t, p) \in Mark
             /\ parse_resp(t, p) = [val |-> v, pos |-> p + Len(w)]
  <2> DEFINE element == Ahead(t, p)
  <2>1. /\ w \in Seq(Char) /\ Len(w) \in Nat \ {0}
        /\ At(t, p) \in {"+", "-", ":", "$"}
        /\ parse_value(t, p, element) = [val |-> v, pos |-> p + Len(w)]
    BY <1>1, ScalarRead
  <2>2. p < Len(t) /\ Len(t) \in Nat
    BY <1>1, <2>1, LenProperties DEF Occurs
  <2>3. parse_resp(t, p) = parse_value(t, p, element)
    BY <2>2, ParseRespIs
  <2>4. QED
    BY <2>1, <2>3 DEF Mark
<1>2. w \in Seq(Char) /\ Len(w) \in Nat
  BY ScalarText
<1>3. Occurs(w, 0, w)
  BY <1>2 DEF Occurs
<1>4. w \in Seq(Char) /\ Len(w) \in Nat \ {0}
  <2> HIDE DEF w
  <2>1. 0 \in Nat
    OBVIOUS
  <2>2. QED
    BY <1>1, <1>2, <1>3, <2>1
<1>5. QED
  BY <1>1, <1>4 DEF ReadsBack

\* An array of values that are read back is read back.
LEMMA ArrayReadsBack ==
  ASSUME NEW V, NEW v \in ArrayOver(V), NEW ws \in Seq(Seq(Char)), Len(ws) = Len(v.array),
         \A i \in 1..Len(ws) : ReadsBack(ws[i], v.array[i])
  PROVE  ReadsBack(serialize_response(v) \o FlattenSeq(ws), v)
<1> DEFINE count == v.count
           array == v.array
           m == Len(array)
           s == Decimal(count)
           line == <<"*">> \o s \o CRLF
           flat == FlattenSeq(ws)
           w == line \o flat
<1>1. /\ count \in Int /\ array \in Seq(V) /\ v = Array(count, array)
      /\ count = m \/ (count = -1 /\ array = <<>>)
  BY NumberProperties DEF ArrayOver, Array
<1>2. serialize_response(v) = line
  BY <1>1 DEF serialize_response, Array
<1> HIDE DEF count, array
<1>3. m \in Nat /\ m = (IF count < 0 THEN 0 ELSE count) /\ DOMAIN array = 1..m
      /\ 1..count = 1..m
  <2>1. m \in Nat /\ DOMAIN array = 1..m
    BY <1>1, LenProperties
  <2>2. CASE count = m
    BY <2>1, <2>2
  <2>3. CASE count = -1 /\ array = <<>>
    <3>1. m = 0
      BY <2>3, EmptySeq
    <3>2. QED
      BY <2>1, <2>3, <3>1
  <2>4. QED
    BY <1>1, <2>2, <2>3
<1> HIDE DEF m
<1>4. Len(ws) = m /\ \A i \in 1..m : ReadsBack(ws[i], array[i])
  BY DEF m, array
<1>5. PICK end \in [0..m -> Nat] :
        /\ end[0] = 0 /\ end[m] = Len(flat)
        /\ \A i \in 1..m : end[i] = end[i - 1] + Len(ws[i])
        /\ \A t \in Seq(Char), p \in Nat : Occurs(t, p, flat) =>
             \A i \in 1..m : Occurs(t, p + end[i - 1], ws[i])
  BY <1>4, FlattenProperties
<1>6. flat \in Seq(Char) /\ Len(flat) \in Nat
  BY FlattenProperties, LenProperties
<1>7. NumberAs(s, count) /\ s \in Seq(Char) /\ Len(s) \in Nat
  BY <1>1, DecimalProperties, NumberText
<1>8. line \in Seq(Char) /\ Len(line) = Len(s) + 3
  BY <1>7, CharProperties, LineText
<1> HIDE DEF flat, s, line
<1>14. m \in Nat /\ Len(s) \in Nat /\ Len(line) = Len(s) + 3 /\ Len(flat) \in Nat
  BY <1>3, <1>6, <1>7, <1>8
<1>9. w \in Seq(Char) /\ Len(w) = Len(line) + Len(flat)
  BY <1>6, <1>8, ConcatProperties
<1>10. ASSUME NEW t \in Seq(Char), NEW p \in Nat, Occurs(t, p, w)
       PROVE  At(t, p) = "*" /\ parse_resp(t, p) = [val |-> v, pos |-> p + Len(w)]
  <2> DEFINE start == p + Len(line)
             g == [i \in 0..m |-> start + end[i]]
             element == Ahead(t, p)
  <2>0. Len(t) \in Nat
    BY LenProperties
  <2>1. Occurs(t, p, line) /\ Occurs(t, start, flat)
    BY <1>6, <1>8, <1>10, <2>0, OccursConcat
  <2>2. /\ At(t, p) = "*" /\ Occurs(t, p + 1, s) /\ At(t, p + 1 + Len(s)) = "CR"
        /\ p + 3 + Len(s) <= Len(t)
    <3>1. "*" \in Char /\ Occurs(t, p, <<"*">> \o s \o CRLF) /\ s \in Seq(Char)
      BY <1>7, <2>1, CharProperties DEF line
    <3>2. QED
      BY <3>1, OccursLine
  <2>3. strtol(t, p + 1) = [n |-> count, end |-> p + 1 + Len(s)]
    <3>1. p + 1 \in Nat
      OBVIOUS
    <3>2. count \in Int /\ NumberAs(s, count)
      BY <1>1, <1>7
    <3>3. Occurs(t, p + 1, s) /\ At(t, p + 1 + Len(s)) = "CR"
      BY <2>2
    <3>4. QED
      BY <3>1, <3>2, <3>3, StrtolReads
  <2>4. start \in Nat /\ p + 1 + Len(s) + 2 = start /\ p < start
    BY <1>14
  <2>5. parse_value(t, p, element) = parse_elements(element, start, count)
    BY <2>2, <2>3, <2>4 DEF parse_value
  <2> HIDE DEF element, start
  <2>6. ASSUME NEW i \in 1..m
        PROVE  element[g[i - 1]] = [val |-> array[i], pos |-> g[i]]
    <3>1. i - 1 \in 0..m /\ i \in 0..m
      BY <1>14
    <3>2. end[i - 1] \in Nat /\ end[i] \in Nat /\ end[i] = end[i - 1] + Len(ws[i])
      BY <1>5, <3>1
    <3> DEFINE q == start + end[i - 1]
    <3>3. q \in Nat /\ g[i - 1] = q /\ q > p
      BY <2>4, <3>1, <3>2
    <3>4. Occurs(t, q, ws[i])
      BY <1>5, <2>1, <2>4
    <3>5. g[i] = q + Len(ws[i])
      <4>1. Len(ws[i]) \in Nat
        BY <1>4 DEF ReadsBack
      <4>2. QED
        <5>1. g[i] = start + end[i] /\ end[i] = end[i - 1] + Len(ws[i])
          BY <3>1, <3>2
        <5>2. start + (end[i - 1] + Len(ws[i])) = start + end[i - 1] + Len(ws[i])
          <6>1. \A a, b, c \in Nat : a + (b + c) = a + b + c
            OBVIOUS
          <6>2. start \in Nat /\ end[i - 1] \in Nat /\ Len(ws[i]) \in Nat
            BY <2>4, <3>2, <4>1
          <6>3. QED
            BY <6>1, <6>2, Zenon
        <5>3. QED
          BY <5>1, <5>2
    <3> HIDE DEF q, g
    <3>6. parse_resp(t, q) = [val |-> array[i], pos |-> q + Len(ws[i])]
      BY <1>4, <3>3, <3>4 DEF ReadsBack
    <3>7. element[q] = parse_resp(t, q)
      BY <3>3 DEF element, Ahead
    <3>8. QED
      BY <3>3, <3>5, <3>6, <3>7
  <2>7. IsMap(g, 0..m) /\ g[0] = start /\ g[m] = p + Len(w)
    <3>1. 0 \in 0..m /\ m \in 0..m /\ end[0] = 0 /\ end[m] = Len(flat)
      BY <1>5, <1>14
    <3>2. g[0] = start /\ g[m] = start + Len(flat) /\ IsMap(g, 0..m)
      <4>1. g[0] = start + end[0] /\ g[m] = start + end[m]
        BY <3>1
      <4>2. IsMap(g, 0..m)
        BY DEF IsMap
      <4>3. start + 0 = start
        BY <2>4
      <4>4. QED
        BY <3>1, <4>1, <4>2, <4>3
    <3>3. start + Len(flat) = p + Len(w)
      BY <1>9, <1>14 DEF start
    <3>4. QED
      BY <3>2, <3>3
  <2> HIDE DEF g
  <2>8. parse_elements(element, start, count) =
          [val |-> Array(count, [i \in 1..count |-> element[g[i - 1]].val]), pos |-> g[m]]
    <3>1. ASSUME NEW i \in 1..m PROVE element[g[i - 1]].pos = g[i]
      <4>1. element[g[i - 1]] = [val |-> array[i], pos |-> g[i]]
        BY <2>6
      <4>2. QED
        BY <4>1
    <3>2. count \in Int /\ m = (IF count < 0 THEN 0 ELSE count)
      BY <1>1, <1>3
    <3>3. IsMap(g, 0..m) /\ g[0] = start
      BY <2>7
    <3>4. ElementsAt(element, start, count, g, m)
      BY <3>1, <3>2, <3>3, ElementsRead
    <3>5. QED
      BY <3>4 DEF ElementsAt
  <2>9. [i \in 1..count |-> element[g[i - 1]].val] = array
    <3> DEFINE a == [i \in 1..count |-> element[g[i - 1]].val]
    <3>1. ASSUME NEW i \in 1..m PROVE a[i] = array[i]
      <4>1. element[g[i - 1]] = [val |-> array[i], pos |-> g[i]]
        BY <2>6
      <4>2. i \in 1..count
        BY <1>3
      <4>3. QED
        BY <4>1, <4>2
    <3>2. IsMap(a, 1..m) /\ IsMap(array, 1..m)
      <4>1. array \in [1..m -> V]
        BY <1>1, LenProperties DEF m
      <4>2. QED
        BY <1>3, <4>1 DEF IsMap
    <3> HIDE DEF a
    <3>3. a = array
      BY <3>1, <3>2 DEF IsMap
    <3>4. QED
      BY <3>3 DEF a
  <2>10. parse_elements(element, start, count) = [val |-> v, pos |-> p + Len(w)]
    BY <1>1, <2>7, <2>8, <2>9
  <2>11. p < Len(t)
    BY <1>7, <2>0, <2>2
  <2>12. parse_resp(t, p) = parse_value(t, p, element)
    BY <2>11, ParseRespIs DEF element
  <2>13. QED
    BY <2>2, <2>5, <2>10, <2>12
<1>11. Len(w) \in Nat \ {0}
  BY <1>6, <1>7, <1>8, <1>9
<1> HIDE DEF w
<1>12. ReadsBack(w, v)
  BY <1>9, <1>10, <1>11 DEF ReadsBack, Mark
<1>13. QED
  BY <1>2, <1>12 DEF w, flat

\* Whatever a client means is read back, however deep it is.
LEMMA EveryValueReadsBack ==
  \A d \in 0..Depth : \A v \in RespValue[d] : ReadsBack(WireOf[d][v], v)
<1> DEFINE Bad == {d \in 0..Depth : ~\A v \in RespValue[d] : ReadsBack(WireOf[d][v], v)}
<1>1. Bad = {}
  <2> SUFFICES ASSUME Bad # {} PROVE FALSE
    OBVIOUS
  <2>1. Bad \in SUBSET Nat
    BY DepthAssumption
  <2>2. PICK d \in Bad : \A l \in Bad : d <= l
    BY <2>1, LeastNumber
  <2>3. d \in 0..Depth /\ d \in Nat
    BY <2>1, <2>2
  <2>4. PICK v \in RespValue[d] : ~ReadsBack(WireOf[d][v], v)
    BY <2>2
  <2>5. WireOf[d][v] = Writing(v, WireOf[d - 1])
    BY <2>3, <2>4, WireIs
  <2>6. CASE v \in Scalar
    <3>1. WireOf[d][v] = serialize_response(v)
      BY <2>5, <2>6, ScalarType DEF Writing
    <3>2. QED
      BY <2>4, <2>6, <3>1, ScalarReadsBack
  <2>7. CASE v \notin Scalar
    <3>1. d # 0 /\ v \in ArrayOver(RespValue[d - 1])
      BY <2>3, <2>4, <2>7, RespValueIs
    <3>2. d - 1 \in 0..Depth /\ ~(d <= d - 1)
      BY <2>3, <3>1, DepthAssumption
    <3>3. \A e \in RespValue[d - 1] : ReadsBack(WireOf[d - 1][e], e)
      BY <2>2, <3>2
    <3> DEFINE ws == [i \in DOMAIN v.array |-> WireOf[d - 1][v.array[i]]]
    <3>4. v.array \in Seq(RespValue[d - 1]) /\ v.type = "*"
      BY <3>1 DEF ArrayOver
    <3>5. /\ DOMAIN v.array = 1..Len(v.array) /\ Len(v.array) \in Nat
          /\ \A i \in 1..Len(v.array) : v.array[i] \in RespValue[d - 1]
      BY <3>4, LenProperties, ElementOfSeq
    <3>6. \A i \in 1..Len(v.array) : ReadsBack(ws[i], v.array[i])
      BY <3>3, <3>5
    <3>7. ws \in [1..Len(v.array) -> Seq(Char)]
      BY <3>5, <3>6 DEF ReadsBack
    <3>8. ws \in Seq(Seq(Char)) /\ Len(ws) = Len(v.array)
      BY <3>5, <3>7
    <3>9. WireOf[d][v] = serialize_response(v) \o FlattenSeq(ws)
      BY <2>5, <3>4 DEF Writing
    <3> HIDE DEF ws
    <3>10. ReadsBack(serialize_response(v) \o FlattenSeq(ws), v)
      BY <3>1, <3>6, <3>8, ArrayReadsBack
    <3>11. QED
      BY <2>4, <3>9, <3>10
  <2>8. QED
    BY <2>6, <2>7
<1>2. QED
  BY <1>1

-----------------------------------------------------------------------------
(* Commands on a line *)

\* The words of a line: none is empty or has a blank in it.
Wordy(words) ==
  /\ words \in Seq(Seq(Char)) /\ Len(words) \in Nat \ {0}
  /\ \A i \in 1..Len(words) :
       /\ words[i] \in Seq(Char) /\ Len(words[i]) \in Nat \ {0}
       /\ \A j \in 1..Len(words[i]) : words[i][j] \notin Blank

\* The position behind a word.
Past(words, at, i) == at[i] + Len(words[i])

\* They stand in t at the positions at, a blank between two of them, an end of line
\* behind the last.
Lined(t, words, at) ==
  /\ t \in Seq(Char) /\ at \in [1..Len(words) -> Nat]
  /\ at[1] = 0
  /\ \A i \in 1..Len(words) : Occurs(t, at[i], words[i])
  /\ \A i \in 1..(Len(words) - 1) :
       At(t, Past(words, at, i)) = " " /\ at[i + 1] = Past(words, at, i) + 1
  /\ At(t, Past(words, at, Len(words))) = "CR"

\* The words of a command stand on its line as Lined says.
LEMMA InlineIsLined ==
  ASSUME NEW words, Wordy(words)
  PROVE  \E at : Lined(InlineText(words), words, at)
<1> DEFINE n == Len(words)
           ws == [i \in DOMAIN words |-> IF i = 1 THEN words[i] ELSE <<" ">> \o words[i]]
           flat == FlattenSeq(ws)
           t == flat \o CRLF
<1>1. /\ n \in Nat \ {0} /\ DOMAIN words = 1..n
      /\ \A i \in 1..n : words[i] \in Seq(Char) /\ Len(words[i]) \in Nat \ {0}
  BY LenProperties DEF Wordy
<1>2. /\ <<" ">> \in Seq(Char) /\ Len(<<" ">>) = 1 /\ <<" ">>[1] = " "
  BY OneCharacter, CharProperties
<1> DEFINE blank == <<" ">>
<1>3. /\ blank \in Seq(Char) /\ Len(blank) = 1 /\ blank[1] = " "
  BY <1>2
<1>4. ws = [i \in 1..n |-> IF i = 1 THEN words[i] ELSE blank \o words[i]]
  BY <1>1
<1>5. InlineText(words) = t
  BY DEF InlineText
<1> HIDE DEF n, blank, ws
<1>6. ASSUME NEW i \in 1..n
      PROVE  /\ ws[i] \in Seq(Char)
             /\ i = 1 => ws[i] = words[i]
             /\ i # 1 => ws[i] = blank \o words[i] /\ Len(ws[i]) = 1 + Len(words[i])
  <2>1. blank \o words[i] \in Seq(Char) /\ Len(blank \o words[i]) = Len(blank) + Len(words[i])
    BY <1>1, <1>3, ConcatProperties
  <2>2. QED
    BY <1>1, <1>3, <1>4, <2>1
<1>7. ws \in Seq(Seq(Char)) /\ Len(ws) = n
  <2>1. ws \in [1..n -> Seq(Char)]
    BY <1>4, <1>6
  <2>2. QED
    BY <1>1, <2>1
<1>8. PICK end \in [0..n -> Nat] :
        /\ end[0] = 0 /\ end[n] = Len(flat)
        /\ \A i \in 1..n : end[i] = end[i - 1] + Len(ws[i])
        /\ \A u \in Seq(Char), p \in Nat : Occurs(u, p, flat) =>
             \A i \in 1..n : Occurs(u, p + end[i - 1], ws[i])
  BY <1>7, FlattenProperties
<1>9. flat \in Seq(Char) /\ Len(flat) \in Nat
  BY <1>7, FlattenProperties, LenProperties
<1> HIDE DEF flat
<1>10. CRLF \in Seq(Char) /\ Len(CRLF) = 2 /\ CRLF[1] = "CR"
  BY CharProperties
<1>11. t \in Seq(Char) /\ Len(t) = Len(flat) + Len(CRLF) /\ Len(t) \in Nat
  BY <1>9, <1>10, ConcatProperties, LenProperties
<1>12. Occurs(t, 0, flat) /\ Occurs(t, Len(flat), CRLF)
  <2>1. Occurs(t, 0, t)
    <3> HIDE DEF t
    <3>1. QED
      BY <1>11 DEF Occurs
  <2>2. Occurs(t, 0, flat \o CRLF) /\ 0 + Len(flat) = Len(flat)
    BY <1>9, <2>1
  <2>3. Occurs(t, 0, flat) /\ Occurs(t, 0 + Len(flat), CRLF)
    <3> DEFINE u == t
    <3>1. Occurs(u, 0, flat \o CRLF) /\ Len(u) \in Nat /\ 0 \in Nat
      BY <1>11, <2>2
    <3> HIDE DEF u
    <3>2. Occurs(u, 0, flat) /\ Occurs(u, 0 + Len(flat), CRLF)
      BY <1>9, <1>10, <3>1, OccursConcat
    <3>3. QED
      BY <3>2 DEF u
  <2>4. QED
    BY <2>2, <2>3
<1> HIDE DEF t
<1>13. \A i \in 1..n : Occurs(t, end[i - 1], ws[i])
  <2>1. \A i \in 1..n : Occurs(t, 0 + end[i - 1], ws[i])
    BY <1>8, <1>11, <1>12
  <2>2. \A i \in 1..n : 0 + end[i - 1] = end[i - 1]
    BY <1>1, <1>8
  <2>3. QED
    BY <2>1, <2>2
<1> DEFINE pos == [i \in 1..n |-> IF i = 1 THEN 0 ELSE end[i - 1] + 1]
<1>14. ASSUME NEW i \in 1..n
       PROVE  /\ pos[i] \in Nat /\ Occurs(t, pos[i], words[i]) /\ pos[i] + Len(words[i]) = end[i]
              /\ i # 1 => At(t, end[i - 1]) = " "
  <2>0. i - 1 \in 0..n /\ i \in 0..n
    BY <1>1
  <2>1. end[i - 1] \in Nat /\ end[i] \in Nat /\ end[i] = end[i - 1] + Len(ws[i])
        /\ Len(words[i]) \in Nat
    BY <1>1, <1>8, <2>0
  <2>2. CASE i = 1
    <3>1. pos[i] = 0 /\ end[i - 1] = 0 /\ ws[i] = words[i]
      BY <1>6, <1>8, <2>2
    <3> HIDE DEF pos
    <3>2. Occurs(t, 0, words[i])
      BY <1>13, <3>1
    <3>3. end[i] = Len(words[i])
      BY <2>1, <3>1
    <3>4. QED
      BY <2>1, <2>2, <3>1, <3>2, <3>3
  <2>3. CASE i # 1
    <3>1. pos[i] = end[i - 1] + 1
      BY <2>3
    <3> HIDE DEF pos
    <3>2. ws[i] = blank \o words[i] /\ Len(ws[i]) = 1 + Len(words[i])
      BY <1>6, <2>3
    <3>3. Occurs(t, end[i - 1], blank \o words[i])
      BY <1>13, <3>2
    <3>4. Occurs(t, end[i - 1], blank) /\ Occurs(t, end[i - 1] + Len(blank), words[i])
      BY <1>1, <1>3, <1>11, <2>1, <3>3, OccursConcat
    <3>5. At(t, end[i - 1]) = " "
      <4> DEFINE p == end[i - 1]
      <4>1. p \in Nat /\ Occurs(t, p, blank) /\ Len(blank) = 1
        BY <1>3, <2>1, <3>4
      <4> HIDE DEF p
      <4>2. \A j \in 0..(Len(blank) - 1) : At(t, p + j) = blank[j + 1]
        BY <1>3, <1>11, <4>1, OccursProperties
      <4>3. 0 \in 0..(Len(blank) - 1)
        BY <4>1
      <4>4. At(t, p + 0) = blank[0 + 1]
        BY <4>2, <4>3
      <4>5. p + 0 = p /\ blank[0 + 1] = " "
        <5>1. p + 0 = p
          BY <4>1
        <5>2. 0 + 1 = 1
          OBVIOUS
        <5>3. QED
          BY <1>3, <5>1, <5>2, Zenon
      <4>6. At(t, p) = " "
        BY <4>4, <4>5
      <4>7. QED
        BY <4>6 DEF p
    <3>6. pos[i] \in Nat /\ pos[i] + Len(words[i]) = end[i]
      BY <2>1, <3>1, <3>2
    <3>7. QED
      BY <1>3, <3>1, <3>4, <3>5, <3>6
  <2>4. QED
    BY <2>2, <2>3
<1>15. At(t, end[n]) = "CR"
  <2>1. \A j \in 0..(Len(CRLF) - 1) : At(t, Len(flat) + j) = CRLF[j + 1]
    BY <1>9, <1>10, <1>11, <1>12, OccursProperties
  <2>2. 0 \in 0..(Len(CRLF) - 1) /\ Len(flat) + 0 = Len(flat)
    BY <1>9, <1>10
  <2>3. At(t, Len(flat) + 0) = CRLF[0 + 1]
    BY <2>1, <2>2
  <2>4. QED
    BY <1>8, <1>10, <2>2, <2>3
<1>16. ASSUME NEW i \in 1..(n - 1)
       PROVE  At(t, pos[i] + Len(words[i])) = " " /\ pos[i + 1] = pos[i] + Len(words[i]) + 1
  <2>1. i \in 1..n /\ i + 1 \in 1..n /\ i + 1 # 1 /\ (i + 1) - 1 = i
    BY <1>1
  <2>2. pos[i] + Len(words[i]) = end[i]
    BY <1>14, <2>1
  <2>3. At(t, end[(i + 1) - 1]) = " "
    <3> DEFINE k == i + 1
    <3>1. k \in 1..n /\ k # 1
      BY <2>1
    <3> HIDE DEF k, pos
    <3>2. At(t, end[k - 1]) = " "
      BY <1>14, <3>1
    <3>3. QED
      BY <3>2 DEF k
  <2>4. pos[i + 1] = end[i] + 1
    BY <2>1
  <2> HIDE DEF pos
  <2>5. QED
    BY <2>1, <2>2, <2>3, <2>4
<1>17. pos \in [1..n -> Nat] /\ pos[1] = 0
  <2>1. \A i \in 1..n : pos[i] \in Nat
    <3> HIDE DEF pos
    <3>1. QED
      BY <1>14
  <2>2. IsMap(pos, 1..n)
    BY DEF IsMap
  <2>3. pos[1] = 0
    BY <1>1
  <2> HIDE DEF pos
  <2>4. QED
    BY <2>1, <2>2, <2>3 DEF IsMap
<1>18. n \in 1..n /\ pos[n] + Len(words[n]) = end[n]
  <2>1. n \in 1..n
    BY <1>1
  <2> HIDE DEF pos
  <2>2. QED
    BY <1>14, <2>1
<1> HIDE DEF pos
<1>19. Lined(t, words, pos)
  BY <1>11, <1>14, <1>15, <1>16, <1>17, <1>18 DEF Lined, n, Past
<1>20. QED
  BY <1>5, <1>19 DEF t

\* A position on the line belongs to a word or is the blank in front of one.
LEMMA PlaceOnLine ==
  ASSUME NEW t, NEW words, NEW at, Wordy(words), Lined(t, words, at)
  PROVE  LET n == Len(words)
             end == Past(words, at, n)
         IN  /\ n \in Nat \ {0} /\ end \in Nat /\ end < Len(t) /\ Len(t) \in Nat
             /\ \A i \in 1..n :
                  /\ at[i] \in Nat /\ Past(words, at, i) \in Nat
                  /\ at[i] < Past(words, at, i) /\ Past(words, at, i) <= end
             /\ \A i \in 1..n : \A q \in at[i]..(Past(words, at, i) - 1) :
                  At(t, q) \in Char \ Blank
             /\ \A i, j \in 1..n : i < j => at[i] < at[j]
             /\ \A q \in 0..(end - 1) : At(t, q) # " " =>
                  \E i \in 1..n : q \in at[i]..(Past(words, at, i) - 1)
             /\ \A q \in 0..(end - 1) : At(t, q) \in Char \ {"CR", "LF"}
<1> DEFINE n == Len(words)
           P(i) == Past(words, at, i)
           end == P(n)
<1>0. /\ n \in Nat \ {0}
      /\ \A i \in 1..n : words[i] \in Seq(Char) /\ Len(words[i]) \in Nat \ {0}
                         /\ \A j \in 1..Len(words[i]) : words[i][j] \notin Blank
  BY DEF Wordy
<1>1. /\ n \in 1..n /\ \A i \in 1..n : at[i] \in Nat /\ P(i) = at[i] + Len(words[i])
  <2>1. at \in [1..n -> Nat]
    BY DEF Lined
  <2>2. n \in 1..n
    BY <1>0
  <2> HIDE DEF n
  <2>3. QED
    BY <2>1, <2>2 DEF Past
<1>2. t \in Seq(Char) /\ Len(t) \in Nat /\ at[1] = 0
  BY LenProperties DEF Lined
<1>3. /\ \A i \in 1..n : Occurs(t, at[i], words[i])
      /\ \A i \in 1..(n - 1) : At(t, P(i)) = " " /\ at[i + 1] = P(i) + 1
      /\ At(t, end) = "CR"
  BY DEF Lined
<1> HIDE DEF n
<1>4. \A i \in 1..n : at[i] \in Nat /\ P(i) \in Nat /\ at[i] < P(i)
  BY <1>0, <1>1
<1>5. ASSUME NEW i \in 1..n, NEW q \in at[i]..(P(i) - 1) PROVE At(t, q) \in Char \ Blank
  <2> DEFINE j == q - at[i]
  <2>0. at[i] \in Nat /\ Len(words[i]) \in Nat /\ P(i) = at[i] + Len(words[i])
    BY <1>0, <1>1
  <2>1. j \in 0..(Len(words[i]) - 1) /\ j + 1 \in 1..Len(words[i]) /\ at[i] + j = q
    BY <2>0
  <2> HIDE DEF j
  <2>2. At(t, at[i] + j) = words[i][j + 1]
    <3>1. words[i] \in Seq(Char) /\ Occurs(t, at[i], words[i])
      BY <1>0, <1>3
    <3>2. \A k \in 0..(Len(words[i]) - 1) : At(t, at[i] + k) = words[i][k + 1]
      BY <1>2, <2>0, <3>1, OccursProperties
    <3>3. QED
      BY <2>1, <3>2
  <2>3. words[i][j + 1] \in Char
    BY <1>0, <2>1, ElementOfSeq
  <2>4. words[i][j + 1] \notin Blank
    BY <1>0, <2>1
  <2>5. QED
    BY <2>1, <2>2, <2>3, <2>4
<1> HIDE DEF P
<1>6. \A i, j \in 1..n : i < j => P(i) < at[j]
  <2> DEFINE Bad == {j \in 1..n : \E i \in 1..n : i < j /\ ~(P(i) < at[j])}
  <2>1. Bad = {}
    <3> SUFFICES ASSUME Bad # {} PROVE FALSE
      OBVIOUS
    <3>1. Bad \in SUBSET Nat
      OBVIOUS
    <3>2. PICK j \in Bad : \A l \in Bad : j <= l
      BY <3>1, LeastNumber
    <3>3. PICK i \in 1..n : i < j /\ ~(P(i) < at[j])
      BY <3>2
    <3>4. j \in 1..n
      BY <3>2
    <3>5. j - 1 \in 1..n /\ j - 1 \in 1..(n - 1) /\ (j - 1) + 1 = j /\ ~(j <= j - 1)
          /\ (i = j - 1 \/ i < j - 1)
      BY <1>0, <3>3, <3>4
    <3>6. at[j] = P(j - 1) + 1
      <4> DEFINE k == j - 1
      <4>1. k \in 1..(n - 1) /\ k + 1 = j
        BY <3>5
      <4> HIDE DEF k
      <4>2. at[k + 1] = P(k) + 1
        BY <1>3, <4>1
      <4>3. QED
        BY <4>1, <4>2 DEF k
    <3>7. P(i) \in Nat /\ P(j - 1) \in Nat /\ at[j - 1] < P(j - 1) /\ at[j - 1] \in Nat
      BY <1>4, <3>5
    <3>8. CASE i = j - 1
      BY <3>3, <3>6, <3>7, <3>8
    <3>9. CASE i < j - 1
      <4>1. P(i) < at[j - 1]
        BY <3>2, <3>5, <3>9
      <4>2. QED
        BY <3>3, <3>6, <3>7, <4>1
    <3>10. QED
      BY <3>5, <3>8, <3>9
  <2>2. QED
    BY <2>1
<1>7. \A i, j \in 1..n : i < j => at[i] < at[j]
  BY <1>4, <1>6
<1>8. \A i \in 1..n : P(i) <= end
  <2> SUFFICES ASSUME NEW i \in 1..n PROVE P(i) <= end
    OBVIOUS
  <2>1. CASE i = n
    BY <1>4, <2>1
  <2>2. CASE i # n
    <3>1. i < n
      BY <1>0, <2>2
    <3>2. P(i) < at[n] /\ at[n] < end /\ P(i) \in Nat /\ at[n] \in Nat /\ end \in Nat
      BY <1>1, <1>4, <1>6, <3>1
    <3>3. QED
      BY <3>2
  <2>3. QED
    BY <2>1, <2>2
<1>9. end \in Nat /\ end < Len(t)
  <2>1. end \in Nat
    BY <1>1, <1>4
  <2> DEFINE e == end
  <2>2. At(t, e) = "CR" /\ e \in Nat
    BY <1>3, <2>1
  <2> HIDE DEF e
  <2>3. e < Len(t)
    BY <2>2 DEF At, Zero
  <2>4. QED
    BY <2>1, <2>3 DEF e
<1>10. ASSUME NEW q \in 0..(end - 1)
       PROVE  \E i \in 1..n : q \in at[i]..(P(i) - 1) \/ (i < n /\ q = P(i))
  <2> DEFINE Later == {i \in 1..n : q < P(i)}
  <2>1. n \in Later
    BY <1>1, <1>9
  <2>2. Later \in SUBSET Nat /\ Later # {}
    BY <2>1
  <2>3. PICK i \in Later : \A l \in Later : i <= l
    BY <2>2, LeastNumber
  <2>4. i \in 1..n /\ q < P(i) /\ q \in Nat
    BY <1>9, <2>3
  <2>5. CASE i = 1
    <3>1. q \in at[i]..(P(i) - 1)
      BY <1>2, <1>4, <2>4, <2>5
    <3>2. QED
      BY <2>4, <3>1
  <2>6. CASE i # 1
    <3> DEFINE k == i - 1
    <3>1. k \in 1..n /\ k \in 1..(n - 1) /\ k < n /\ k + 1 = i /\ ~(i <= k)
      BY <1>0, <2>4, <2>6
    <3> HIDE DEF k
    <3>2. ~(q < P(k))
      BY <2>3, <3>1
    <3>3. at[i] = P(k) + 1
      BY <1>3, <3>1
    <3>4. P(k) \in Nat /\ P(i) \in Nat
      BY <1>4, <2>4, <3>1
    <3>5. CASE q = P(k)
      BY <3>1, <3>5
    <3>6. CASE q # P(k)
      <4>1. q \in at[i]..(P(i) - 1)
        BY <2>4, <3>2, <3>3, <3>4, <3>6
      <4>2. QED
        BY <2>4, <4>1
    <3>7. QED
      BY <3>5, <3>6
  <2>7. QED
    BY <2>5, <2>6
<1>11. ASSUME NEW q \in 0..(end - 1), At(t, q) # " "
       PROVE  \E i \in 1..n : q \in at[i]..(P(i) - 1)
  <2>1. PICK i \in 1..n : q \in at[i]..(P(i) - 1) \/ (i < n /\ q = P(i))
    BY <1>10
  <2>2. ~(i < n /\ q = P(i))
    <3>1. i < n => i \in 1..(n - 1)
      BY <1>0
    <3>2. QED
      BY <1>3, <1>11, <3>1
  <2>3. QED
    BY <2>1, <2>2
<1>12. ASSUME NEW q \in 0..(end - 1) PROVE At(t, q) \in Char \ {"CR", "LF"}
  <2>1. CASE At(t, q) = " "
    BY <2>1, CharProperties
  <2>2. CASE At(t, q) # " "
    <3>1. PICK i \in 1..n : q \in at[i]..(P(i) - 1)
      BY <1>11, <2>2
    <3>2. At(t, q) \in Char \ Blank
      BY <1>5, <3>1
    <3>3. QED
      BY <3>2 DEF Blank
  <2>3. QED
    BY <2>1, <2>2
<1>13. \A i \in 1..n : at[i] \in Nat /\ P(i) \in Nat /\ at[i] < P(i) /\ P(i) <= end
  BY <1>4, <1>8
<1>14. QED
  BY <1>0, <1>2, <1>5, <1>7, <1>9, <1>11, <1>12, <1>13 DEF P, n

\* Where the words of a line begin, and how parse_inline goes from one to the next.
Starts(t, start, end) ==
  {q \in start..(end - 1) : At(t, q) # " " /\ (q = start \/ At(t, q - 1) = " ")}

\* The recursion that finds the words.
FromOf(t, start, argc, f) ==
  f = [i \in 1..argc |-> IF i = 1 THEN start ELSE Skip(t, Find(t, f[i - 1], Blank), {" "})]

\* As many words begin as there are.
LEMMA StartsAre ==
  ASSUME NEW t, NEW words, NEW at, Wordy(words), Lined(t, words, at)
  PROVE  Cardinality(Starts(t, 0, Past(words, at, Len(words)))) = Len(words)
<1> DEFINE n == Len(words)
           P(i) == Past(words, at, i)
           end == P(n)
           Q == Starts(t, 0, end)
<1>1. /\ n \in Nat \ {0} /\ end \in Nat
      /\ \A i \in 1..n : at[i] \in Nat /\ P(i) \in Nat /\ at[i] < P(i) /\ P(i) <= end
      /\ \A i \in 1..n : \A q \in at[i]..(P(i) - 1) : At(t, q) \in Char \ Blank
      /\ \A i, j \in 1..n : i < j => at[i] < at[j]
      /\ \A q \in 0..(end - 1) : At(t, q) # " " => \E i \in 1..n : q \in at[i]..(P(i) - 1)
  BY PlaceOnLine
<1>2. /\ at \in [1..n -> Nat] /\ at[1] = 0
      /\ \A i \in 1..(n - 1) : At(t, P(i)) = " " /\ at[i + 1] = P(i) + 1
  BY DEF Lined
<1> HIDE DEF n, P
<1>21. n \in Nat \ {0} /\ end \in Nat
  BY <1>1
<1>22. \A i \in 1..n : at[i] \in Nat /\ P(i) \in Nat /\ at[i] < P(i) /\ P(i) <= end
  BY <1>1
<1>23. \A i \in 1..n : \A q \in at[i]..(P(i) - 1) : At(t, q) # " "
  BY <1>1 DEF Blank
<1>24. \A i \in 1..(n - 1) : P(i) \in Nat /\ At(t, P(i)) = " " /\ at[i + 1] = P(i) + 1
  <2>1. \A i \in 1..(n - 1) : i \in 1..n
    BY <1>21
  <2>2. QED
    BY <1>2, <1>22, <2>1
<1>3. ASSUME NEW i \in 1..n PROVE at[i] \in Q
  <2>1. at[i] \in Nat /\ P(i) \in Nat /\ at[i] < P(i) /\ P(i) <= end
    BY <1>22
  <2>2. at[i] \in at[i]..(P(i) - 1) /\ at[i] \in 0..(end - 1)
    BY <1>21, <2>1
  <2>3. At(t, at[i]) # " "
    BY <1>23, <2>2
  <2>4. at[i] = 0 \/ At(t, at[i] - 1) = " "
    <3>1. CASE i = 1
      BY <1>2, <3>1
    <3>2. CASE i # 1
      <4> DEFINE k == i - 1
      <4>1. k \in 1..(n - 1) /\ k + 1 = i /\ k \in 1..n
        BY <1>21, <3>2
      <4> HIDE DEF k
      <4>2. at[i] = P(k) + 1 /\ At(t, P(k)) = " " /\ P(k) \in Nat
        BY <1>24, <4>1
      <4>3. at[i] - 1 = P(k)
        <5> DEFINE p == P(k)
        <5>1. at[i] = p + 1 /\ p \in Nat
          BY <4>2
        <5> HIDE DEF p
        <5>2. at[i] - 1 = p
          BY <5>1
        <5>3. QED
          BY <5>2 DEF p
      <4>4. QED
        BY <4>2, <4>3
    <3>3. QED
      BY <3>1, <3>2
  <2>5. QED
    BY <2>2, <2>3, <2>4 DEF Starts
<1>4. ASSUME NEW q \in Q PROVE \E i \in 1..n : at[i] = q
  <2>1. q \in 0..(end - 1) /\ At(t, q) # " " /\ (q = 0 \/ At(t, q - 1) = " ")
    BY DEF Starts
  <2>2. PICK i \in 1..n : q \in at[i]..(P(i) - 1)
    BY <1>1, <2>1
  <2>3. at[i] \in Nat /\ P(i) \in Nat
    BY <1>22
  <2>4. CASE at[i] # q
    <3>1. q - 1 \in at[i]..(P(i) - 1) /\ q # 0
      BY <2>2, <2>3, <2>4
    <3>2. At(t, q - 1) # " "
      BY <1>23, <3>1
    <3>3. QED
      BY <2>1, <3>1, <3>2
  <2>5. QED
    BY <2>4
<1> HIDE DEF Q
<1>5. \A i, j \in 1..n : at[i] = at[j] => i = j
  <2> SUFFICES ASSUME NEW i \in 1..n, NEW j \in 1..n, at[i] = at[j], i # j PROVE FALSE
    OBVIOUS
  <2>1. i < j \/ j < i
    BY <1>21
  <2>2. at[i] < at[j] \/ at[j] < at[i]
    BY <1>1, <2>1
  <2>3. at[i] \in Nat
    BY <1>22
  <2>4. QED
    BY <2>2, <2>3
<1>6. at \in [1..n -> Q]
  <2>1. IsMap(at, 1..n)
    BY <1>2 DEF IsMap
  <2>2. QED
    BY <1>3, <2>1 DEF IsMap
<1>7. at \in Bijection(1..n, Q)
  BY <1>4, <1>5, <1>6, Fun_IsBij
<1>8. IsFiniteSet(1..n) /\ Cardinality(1..n) = n
  <2>1. 1 \in Int /\ n \in Int /\ ~(1 > n) /\ n - 1 + 1 = n
    BY <1>21
  <2>2. QED
    BY <2>1, FS_Interval
<1>9. Cardinality(Q) = n
  BY <1>7, <1>8, FS_Bijection DEF ExistsBijection
<1>10. QED
  BY <1>9 DEF Q, P, n

\* The words are read.
LEMMA WordsRead ==
  ASSUME NEW t, NEW words, NEW at, Wordy(words), Lined(t, words, at)
  PROVE  parse_inline(t, 0).val = Command(words)
<1> DEFINE n == Len(words)
           P(i) == Past(words, at, i)
           last == P(n)
<1>1. /\ n \in Nat \ {0} /\ last \in Nat /\ last < Len(t) /\ Len(t) \in Nat
      /\ \A i \in 1..n : at[i] \in Nat /\ P(i) \in Nat /\ at[i] < P(i) /\ P(i) <= last
      /\ \A i \in 1..n : \A q \in at[i]..(P(i) - 1) : At(t, q) \in Char \ Blank
      /\ \A q \in 0..(last - 1) : At(t, q) \in Char \ {"CR", "LF"}
  BY PlaceOnLine
<1>2. /\ t \in Seq(Char) /\ at \in [1..n -> Nat] /\ at[1] = 0
      /\ \A i \in 1..(n - 1) : At(t, P(i)) = " " /\ at[i + 1] = P(i) + 1
      /\ At(t, last) = "CR"
      /\ \A i \in 1..n : Occurs(t, at[i], words[i]) /\ P(i) = at[i] + Len(words[i])
  BY DEF Lined, Past
<1>3. \A i \in 1..n : words[i] \in Seq(Char) /\ \A j \in 1..Len(words[i]) : words[i][j] \notin Blank
  BY DEF Wordy
<1>4. DOMAIN words = 1..n /\ words \in [1..n -> Seq(Char)]
  <2>1. words \in Seq(Seq(Char))
    BY DEF Wordy
  <2>2. QED
    BY <2>1, LenProperties
<1> DEFINE start == Skip(t, 0, {" "})
           end == Find(t, start, {"CR", "LF"})
           argc == Cardinality(Starts(t, start, end))
           from == CHOOSE f : FromOf(t, start, argc, f)
<1>5. parse_inline(t, 0) =
        IF argc = 0 THEN [val |-> None, pos |-> start]
        ELSE [val |-> Command([i \in 1..argc |->
                                 Slice(t, from[i], Find(t, from[i], Blank))]),
              pos |-> Skip(t, start, Blank)]
  BY DEF parse_inline, Starts, FromOf, Blank
<1>6. Cardinality(Starts(t, 0, last)) = n
  BY StartsAre
<1> HIDE DEF n, P
<1>21. n \in Nat \ {0} /\ last \in Nat /\ last < Len(t) /\ Len(t) \in Nat
  BY <1>1
<1>25. at[1] = 0 /\ At(t, last) = "CR"
  BY <1>2
<1>22. \A i \in 1..n : at[i] \in Nat /\ P(i) \in Nat /\ at[i] < P(i) /\ P(i) <= last
  BY <1>1
<1>23. \A i \in 1..n : At(t, at[i]) # " " /\ at[i] <= Len(t)
  <2> SUFFICES ASSUME NEW i \in 1..n PROVE At(t, at[i]) # " " /\ at[i] <= Len(t)
    OBVIOUS
  <2>1. at[i] \in Nat /\ P(i) \in Nat /\ at[i] < P(i) /\ P(i) <= last
    BY <1>22
  <2>2. at[i] \in at[i]..(P(i) - 1) /\ at[i] <= Len(t)
    BY <1>21, <2>1
  <2>3. At(t, at[i]) \in Char \ Blank
    BY <1>1, <2>2
  <2>4. QED
    BY <2>2, <2>3 DEF Blank
<1>24. \A i \in 1..(n - 1) : P(i) \in Nat /\ At(t, P(i)) = " " /\ at[i + 1] = P(i) + 1
  <2>1. \A i \in 1..(n - 1) : i \in 1..n
    BY <1>21
  <2>2. QED
    BY <1>2, <1>22, <2>1
<1>7. start = 0
  <2>1. 1 \in 1..n /\ at[1] = 0
    BY <1>21, <1>25
  <2>2. At(t, 0) \notin {" "}
    BY <1>23, <2>1
  <2>3. 0..(0 - 1) = {}
    OBVIOUS
  <2>4. 0 \in Nat /\ 0 <= 0 /\ 0 <= Len(t) /\ Len(t) \in Nat
    BY <1>21
  <2>5. QED
    BY <2>2, <2>3, <2>4, SkipIs
<1> HIDE DEF start
<1>8. end = last
  <2>1. \A k \in 0..(last - 1) : At(t, k) \notin {"CR", "LF"} \cup {Zero}
    BY <1>1, CharProperties
  <2>2. At(t, last) \in {"CR", "LF"} \cup {Zero} /\ 0 <= last /\ last <= Len(t)
    BY <1>21, <1>25
  <2> HIDE DEF last
  <2>3. Find(t, 0, {"CR", "LF"}) = last
    BY <1>21, <2>1, <2>2, FindIs
  <2>4. QED
    BY <1>7, <2>3
<1> HIDE DEF end
<1>9. argc = n
  BY <1>6, <1>7, <1>8
<1> HIDE DEF argc
<1>10. ASSUME NEW i \in 1..n PROVE Find(t, at[i], Blank) = P(i)
  <2>1. At(t, P(i)) \in Blank
    <3>1. CASE i = n
      <4>1. At(t, last) \in Blank
        BY <1>2 DEF Blank
      <4>2. QED
        BY <3>1, <4>1
    <3>2. CASE i # n
      <4>1. i \in 1..(n - 1)
        BY <1>21, <3>2
      <4>2. QED
        BY <1>24, <4>1 DEF Blank
    <3>3. QED
      BY <3>1, <3>2
  <2>2. words[i] \in Seq(Char) /\ at[i] \in Nat /\ Occurs(t, at[i], words[i])
        /\ P(i) = at[i] + Len(words[i])
    BY <1>2, <1>3, <1>22
  <2>3. \A j \in 1..Len(words[i]) : words[i][j] \notin Blank
    BY <1>3
  <2> HIDE DEF Blank
  <2>4. QED
    BY <1>2, <2>1, <2>2, <2>3, FindBehind
<1>11. ASSUME NEW i \in 1..n, i # 1 PROVE at[i] = Skip(t, Find(t, at[i - 1], Blank), {" "})
  <2> DEFINE k == i - 1
             p == P(k)
  <2>1. k \in 1..(n - 1) /\ k + 1 = i /\ k \in 1..n
    BY <1>11, <1>21
  <2> HIDE DEF k
  <2>2. at[i] = p + 1 /\ At(t, p) = " " /\ p \in Nat /\ Find(t, at[k], Blank) = p
    BY <1>10, <1>24, <2>1
  <2>3. at[i] <= Len(t) /\ at[i] \in Nat
    BY <1>22, <1>23
  <2>4. At(t, at[i]) \notin {" "}
    BY <1>23
  <2> HIDE DEF p
  <2>9. at[i] = p + 1 /\ p \in Nat
    BY <2>2
  <2>5. \A l \in p..(at[i] - 1) : At(t, l) \in {" "}
    <3>1. \A l \in p..(at[i] - 1) : l = p
      BY <2>9
    <3>2. QED
      BY <2>2, <3>1
  <2>6. p <= at[i]
    BY <2>9
  <2>7. Skip(t, p, {" "}) = at[i]
    BY <1>21, <2>2, <2>3, <2>4, <2>5, <2>6, SkipIs
  <2>8. QED
    BY <2>2, <2>7 DEF k
<1>12. FromOf(t, 0, n, at)
  <2>1. \A i \in 1..n : at[i] = IF i = 1 THEN 0 ELSE Skip(t, Find(t, at[i - 1], Blank), {" "})
    BY <1>2, <1>11
  <2>2. IsMap(at, 1..n)
    BY <1>2 DEF IsMap
  <2>3. QED
    BY <2>1, <2>2 DEF FromOf, IsMap
<1>13. FromOf(t, 0, n, from)
  BY <1>7, <1>9, <1>12
<1> HIDE DEF from
<1>14. \A i \in 1..n : from[i] = IF i = 1 THEN 0 ELSE Skip(t, Find(t, from[i - 1], Blank), {" "})
  BY <1>13 DEF FromOf
<1>15. \A i \in 1..n : from[i] = at[i]
  <2> DEFINE Bad == {i \in 1..n : from[i] # at[i]}
  <2>1. Bad = {}
    <3> SUFFICES ASSUME Bad # {} PROVE FALSE
      OBVIOUS
    <3>1. Bad \in SUBSET Nat
      OBVIOUS
    <3>2. PICK i \in Bad : \A l \in Bad : i <= l
      BY <3>1, LeastNumber
    <3>3. i # 1 /\ i \in 1..n
      BY <1>2, <1>14, <3>2
    <3>4. i - 1 \in 1..n /\ ~(i <= i - 1)
      BY <1>21, <3>3
    <3>5. from[i - 1] = at[i - 1]
      BY <3>2, <3>4
    <3>6. from[i] = Skip(t, Find(t, at[i - 1], Blank), {" "})
      BY <1>14, <3>3, <3>5
    <3>7. from[i] = at[i]
      BY <1>11, <3>3, <3>6
    <3>8. QED
      BY <3>2, <3>7
  <2>2. QED
    BY <2>1
<1>16. \A i \in 1..n : Slice(t, from[i], Find(t, from[i], Blank)) = words[i]
  <2> SUFFICES ASSUME NEW i \in 1..n
               PROVE  Slice(t, from[i], Find(t, from[i], Blank)) = words[i]
    OBVIOUS
  <2>1. from[i] = at[i] /\ Find(t, at[i], Blank) = at[i] + Len(words[i])
    BY <1>2, <1>10, <1>15
  <2>2. Slice(t, at[i], at[i] + Len(words[i])) = words[i]
    <3>1. words[i] \in Seq(Char) /\ at[i] \in Nat /\ Occurs(t, at[i], words[i])
      BY <1>2, <1>3, <1>22
    <3>2. QED
      BY <1>2, <3>1, OccursProperties
  <2>3. QED
    BY <2>1, <2>2
<1> DEFINE ws == [i \in 1..argc |-> Slice(t, from[i], Find(t, from[i], Blank))]
<1>17. ws = words
  <2>1. \A i \in 1..n : ws[i] = words[i]
    BY <1>9, <1>16
  <2>2. IsMap(ws, 1..n) /\ IsMap(words, 1..n)
    BY <1>4, <1>9 DEF IsMap
  <2> HIDE DEF ws
  <2>3. QED
    BY <2>1, <2>2 DEF IsMap
<1>18. argc # 0
  BY <1>9, <1>21
<1>19. parse_inline(t, 0) = [val |-> Command(ws), pos |-> Skip(t, start, Blank)]
  BY <1>5, <1>18
<1> HIDE DEF ws
<1>20. QED
  BY <1>17, <1>19

\* parse_inline of ch4: a command on a line is read as the array of its words, none of
\* which is empty or has a blank, and the first of which does not begin like another value.
THEOREM LinesAreReadBack ==
  ASSUME NEW words, Wordy(words), words[1][1] \notin Mark
  PROVE  parse_resp(InlineText(words), 0).val = Command(words)
<1> DEFINE t == InlineText(words)
<1>1. PICK at : Lined(t, words, at)
  BY InlineIsLined
<1> HIDE DEF t
<1>2. /\ Len(words) \in Nat \ {0} /\ 0 < Len(t) /\ t \in Seq(Char) /\ at[1] = 0
      /\ words[1] \in Seq(Char) /\ Len(words[1]) \in Nat \ {0} /\ Occurs(t, 0, words[1])
      /\ words[1][1] \notin Blank
  <2>1. Len(words) \in Nat \ {0} /\ 1 \in 1..Len(words)
    BY DEF Wordy
  <2>2. t \in Seq(Char) /\ at[1] = 0 /\ Occurs(t, 0, words[1])
    BY <1>1, <2>1 DEF Lined
  <2>3. words[1] \in Seq(Char) /\ Len(words[1]) \in Nat \ {0}
        /\ \A j \in 1..Len(words[1]) : words[1][j] \notin Blank
    BY <2>1 DEF Wordy
  <2>4. 0 < Len(t) /\ 1 \in 1..Len(words[1])
    BY <2>2, <2>3, LenProperties DEF Occurs
  <2>5. QED
    BY <2>1, <2>2, <2>3, <2>4
<1>3. At(t, 0) = words[1][1] /\ words[1][1] \in Char
  <2>1. 0 \in 0..(Len(words[1]) - 1) /\ 1 \in 1..Len(words[1])
    BY <1>2
  <2>2. At(t, 0 + 0) = words[1][0 + 1]
    <3> DEFINE z == 0
    <3>1. z \in Nat /\ z \in 0..(Len(words[1]) - 1) /\ Occurs(t, z, words[1])
      BY <1>2, <2>1
    <3> HIDE DEF z
    <3>2. At(t, z + z) = words[1][z + 1]
      BY <1>2, <3>1, OccursProperties
    <3>3. QED
      BY <3>2 DEF z
  <2>3. words[1][1] \in Char
    BY <1>2, <2>1, ElementOfSeq
  <2>4. 0 + 0 = 0 /\ 0 + 1 = 1
    OBVIOUS
  <2>5. QED
    BY <2>2, <2>3, <2>4
<1>4. parse_value(t, 0, Ahead(t, 0)) = parse_inline(t, 0)
  <2> DEFINE c == At(t, 0)
  <2>1. c \notin Mark /\ c \notin Blank
    BY <1>2, <1>3
  <2>2. c \notin {"CR", "LF"} /\ c \notin {"+", "-"} /\ c # ":" /\ c # "$" /\ c # "*"
    BY <2>1 DEF Mark, Blank
  <2> HIDE DEF c
  <2>3. QED
    BY <2>2 DEF parse_value, c
<1>5. parse_resp(t, 0) = parse_value(t, 0, Ahead(t, 0))
  BY <1>2, ParseRespIs
<1>6. parse_inline(t, 0).val = Command(words)
  BY <1>1, WordsRead
<1>7. QED
  BY <1>4, <1>5, <1>6 DEF t

\* An answer is a line or a bulk string.
LEMMA AnswerIsScalar ==
  ASSUME NEW v
  PROVE  Answer(v) \in Scalar
<1>1. Answer(v) \in {Invalid, Pong, Stored, Okay}
  BY DEF Answer
<1>2. /\ Line("-", <<"ERR">>) \in Scalar
      /\ Line("+", <<"PONG">>) \in Scalar /\ Line("+", <<"OK">>) \in Scalar
  <2>1. "ERR" \in Char \ {"CR"} /\ "PONG" \in Char \ {"CR"} /\ "OK" \in Char \ {"CR"}
    BY CharAssumption
  <2>2. <<"ERR">> \in Seq(Char \ {"CR"}) /\ <<"PONG">> \in Seq(Char \ {"CR"})
        /\ <<"OK">> \in Seq(Char \ {"CR"})
    BY <2>1
  <2>3. QED
    BY <2>2 DEF Line, Scalar
<1>3. Bulk(<<"v", "a", "l", "u", "e">>) \in Scalar
  <2> DEFINE s == <<"v", "a", "l", "u", "e">>
  <2>1. s \in Seq(Char) /\ Len(s) = 5
    BY CharAssumption
  <2> HIDE DEF s
  <2>2. Bulk(s) \in [type : {"$"}, len : Number, str : Seq(Char)] /\ Bulk(s).len = Len(Bulk(s).str)
    BY <2>1, NumberProperties DEF Bulk
  <2>3. Bulk(s) \in Scalar
    BY <2>2 DEF Scalar
  <2>4. QED
    BY <2>3 DEF s
<1>4. QED
  BY <1>1, <1>2, <1>3 DEF Invalid, Pong, Stored, Okay

\* A reply reads back as the answer, with nothing left over.
LEMMA ReplyReadsBack ==
  ASSUME NEW v
  PROVE  LET r == serialize_response(Answer(v))
         IN  parse_resp(r, 0) = [val |-> Answer(v), pos |-> Len(r)]
<1> DEFINE r == serialize_response(Answer(v))
<1>1. ReadsBack(r, Answer(v))
  BY AnswerIsScalar, ScalarReadsBack
<1> HIDE DEF r
<1>2. r \in Seq(Char) /\ Len(r) \in Nat
  BY <1>1 DEF ReadsBack
<1>3. Occurs(r, 0, r)
  BY <1>2 DEF Occurs
<1>4. parse_resp(r, 0) = [val |-> Answer(v), pos |-> 0 + Len(r)]
  BY <1>1, <1>2, <1>3 DEF ReadsBack
<1>5. 0 + Len(r) = Len(r)
  BY <1>2
<1>6. QED
  BY <1>4, <1>5 DEF r

\* The words of a request that goes on a line.
LEMMA OnLineWords ==
  ASSUME NEW v \in RespValue[Depth], OnLine(v)
  PROVE  LET words == [i \in 1..v.count |-> v.array[i].str]
         IN  Wordy(words) /\ words[1][1] \notin Mark /\ Command(words) = v
<1> DEFINE words == [i \in 1..v.count |-> v.array[i].str]
           n == v.count
           array == v.array
<1>1. Depth # 0 /\ v \in ArrayOver(RespValue[Depth - 1])
  <2>1. v \notin Scalar
    BY ScalarType DEF OnLine
  <2>2. Depth \in 0..Depth
    BY DepthAssumption
  <2>3. QED
    BY <2>1, <2>2, RespValueIs
<1>2. /\ n \in Nat \ {0} /\ array \in Seq(RespValue[Depth - 1]) /\ Len(array) = n
      /\ v = Array(n, array)
  BY <1>1, NumberProperties DEF ArrayOver, OnLine, Array
<1>3. \A i \in 1..n : array[i] \in RespValue[Depth - 1]
  BY <1>2, ElementOfSeq
<1>4. \A i \in 1..n : /\ array[i].type = "$" /\ array[i].len > 0
                      /\ Range(array[i].str) \cap Blank = {}
  BY DEF OnLine
<1>5. Head(array[1].str) \notin Mark
  BY DEF OnLine
<1> HIDE DEF n, array
<1> DEFINE Bulks == {b \in [type : {"$"}, len : Number, str : Seq(Char)] : b.len = Len(b.str)}
<1>6. \A i \in 1..n : array[i] \in Bulks
  <2>1. ASSUME NEW i \in 1..n
        PROVE  array[i] \in Bulks
    <3>1. array[i].type = "$" /\ array[i] \in RespValue[Depth - 1]
      BY <1>3, <1>4, <2>1
    <3>2. Depth - 1 \in 0..Depth
      BY <1>1, DepthAssumption
    <3>3. array[i] \in Scalar
      <4> DEFINE d == Depth - 1
      <4>1. RespValue[d] = IF d = 0 THEN Scalar ELSE Scalar \cup ArrayOver(RespValue[d - 1])
        BY <3>2, RespValueIs
      <4>2. array[i] \notin ArrayOver(RespValue[d - 1])
        BY <3>1 DEF ArrayOver
      <4>3. QED
        BY <3>1, <4>1, <4>2
    <3>4. QED
      BY <3>1, <3>3 DEF Scalar, Null
  <2>2. QED
    BY <2>1
<1>7. \A i \in 1..n : /\ array[i].str \in Seq(Char) /\ Len(array[i].str) \in Nat \ {0}
                      /\ array[i] = Bulk(array[i].str)
  BY <1>4, <1>6 DEF Bulk
<1>8. ASSUME NEW i \in 1..n, NEW j \in 1..Len(array[i].str)
      PROVE  array[i].str[j] \notin Blank
  <2>1. j \in DOMAIN array[i].str
    BY <1>7, <1>8, LenProperties
  <2>2. array[i].str[j] \in Range(array[i].str)
    BY <2>1 DEF Range
  <2>3. QED
    BY <1>4, <1>8, <2>2
<1>9. words = [i \in 1..n |-> array[i].str]
  BY DEF n, array
<1> HIDE DEF words
<1>10. words \in Seq(Seq(Char)) /\ Len(words) = n /\ \A i \in 1..n : words[i] = array[i].str
  BY <1>2, <1>7, <1>9
<1>11. Wordy(words)
  BY <1>2, <1>7, <1>8, <1>10 DEF Wordy
<1>12. words[1][1] \notin Mark
  <2>1. 1 \in 1..n
    BY <1>2
  <2>2. words[1] = array[1].str /\ array[1].str \in Seq(Char) /\ Len(array[1].str) \in Nat \ {0}
    BY <1>7, <1>10, <2>1
  <2>3. Head(array[1].str) = array[1].str[1]
    BY <2>2
  <2>4. QED
    BY <1>5, <2>2, <2>3
<1>13. Command(words) = v
  <2>1. DOMAIN words = 1..n
    BY <1>9
  <2>2. [i \in DOMAIN words |-> Bulk(words[i])] = array
    <3>1. array \in [1..n -> RespValue[Depth - 1]]
      BY <1>2
    <3>2. \A i \in 1..n : Bulk(words[i]) = array[i]
      BY <1>7, <1>10
    <3>3. QED
      BY <2>1, <3>1, <3>2
  <2>3. QED
    BY <1>2, <1>10, <2>2 DEF Command
<1>14. QED
  BY <1>11, <1>12, <1>13 DEF words

\* What a read may return is understood as the value its client means.
LEMMA ArrivalUnderstood ==
  ASSUME NEW a \in Arrival
  PROVE  /\ a = [text |-> a.text, value |-> a.value, end |-> a.end, reply |-> <<>>]
         /\ a.value # None =>
              /\ parse_resp(a.text, 0).val = a.value
              /\ a.end > 0 => parse_resp(a.text, 0).pos = a.end
              /\ Reply[a.text] = serialize_response(Answer(a.value))
<1>1. PICK v \in Request : a \in Arrivals(v)
  BY DEF Arrival
<1>2. v \in RespValue[Depth] /\ Depth \in 0..Depth
  BY RequestAssumption, DepthAssumption
<1> DEFINE wire == Wire(v)
           whole(t, n) == [text |-> t, value |-> v, end |-> n, reply |-> <<>>]
<1>3. ReadsBack(wire, v)
  BY <1>2, EveryValueReadsBack DEF Wire
<1>4. \/ a = whole(wire, Len(wire))
      \/ a = whole(wire \o wire, Len(wire))
      \/ \E n \in 1..(Len(wire) - 1) : a = [NoRequest EXCEPT !.text = SubSeq(wire, 1, n)]
      \/ OnLine(v) /\ a = whole(InlineText([i \in 1..v.count |-> v.array[i].str]), 0)
  BY <1>1 DEF Arrivals
<1> HIDE DEF wire
<1>5. wire \in Seq(Char) /\ Len(wire) \in Nat \ {0} /\ 0 + Len(wire) = Len(wire)
  BY <1>3 DEF ReadsBack
<1>6. a.value # None => Reply[a.text] = serialize_response(Answer(parse_resp(a.text, 0).val))
  BY DEF Reply, process_command
<1>7. ASSUME NEW t \in Seq(Char), Occurs(t, 0, wire)
      PROVE  parse_resp(t, 0) = [val |-> v, pos |-> Len(wire)]
  BY <1>3, <1>5, <1>7 DEF ReadsBack
<1>8. CASE a = whole(wire, Len(wire))
  <2>1. Occurs(wire, 0, wire)
    BY <1>5 DEF Occurs
  <2>2. parse_resp(wire, 0) = [val |-> v, pos |-> Len(wire)]
    BY <1>5, <1>7, <2>1
  <2>3. QED
    BY <1>6, <1>8, <2>2
<1>9. CASE a = whole(wire \o wire, Len(wire))
  <2> DEFINE both == wire \o wire
  <2>1. both \in Seq(Char) /\ Len(both) = Len(wire) + Len(wire)
        /\ \A j \in 1..(Len(wire) + Len(wire)) :
             both[j] = IF j <= Len(wire) THEN wire[j] ELSE wire[j - Len(wire)]
    BY <1>5, ConcatProperties
  <2>2. a = whole(both, Len(wire))
    BY <1>9
  <2> HIDE DEF both
  <2>3. Occurs(both, 0, wire)
    BY <1>5, <2>1 DEF Occurs
  <2>4. parse_resp(both, 0) = [val |-> v, pos |-> Len(wire)]
    BY <1>7, <2>1, <2>3
  <2>5. QED
    BY <1>6, <2>2, <2>4
<1>10. CASE \E n \in 1..(Len(wire) - 1) : a = [NoRequest EXCEPT !.text = SubSeq(wire, 1, n)]
  BY <1>10 DEF NoRequest
<1>11. CASE OnLine(v) /\ a = whole(InlineText([i \in 1..v.count |-> v.array[i].str]), 0)
  <2> DEFINE words == [i \in 1..v.count |-> v.array[i].str]
             t == InlineText(words)
  <2>1. Wordy(words) /\ words[1][1] \notin Mark /\ Command(words) = v
    BY <1>2, <1>11, OnLineWords
  <2>2. a = whole(t, 0)
    BY <1>11
  <2> HIDE DEF words
  <2>3. parse_resp(t, 0).val = v
    BY <2>1, LinesAreReadBack
  <2> HIDE DEF t
  <2>4. QED
    BY <1>6, <2>2, <2>3
<1>12. QED
  BY <1>4, <1>8, <1>9, <1>10, <1>11

-----------------------------------------------------------------------------
(* The blocking server of ch4 *)

\* It has one connection at a time, and no list of events.
OneAtATime ==
  program = "blocking" =>
    /\ pc \in {"wait", "read", "process", "write", "close"} /\ batch = <<>>
    /\ pc # "wait" => fd # NULL

\* What main has read is something a client may have sent, and what it is about to
\* write is what process_command says of that text.
Processed(a) == [a EXCEPT !.reply = Reply[a.text]]

RequestInv ==
  IF program = "blocking" /\ pc \in {"process", "write"}
  THEN \E a \in Arrival : request = IF pc = "process" THEN a ELSE Processed(a)
  ELSE request = NoRequest

\* accept, read, write and close change one descriptor, which main knows.
LEMMA BlockingStep ==
  ASSUME IInv, OneAtATime, BlockingMain
  PROVE  IInv' /\ OneAtATime'
<1>1. /\ program = "blocking" /\ program' = "blocking" /\ batch = <<>> /\ batch' = <<>>
      /\ UNCHANGED data
      /\ AcceptNext \/ ReadOnce \/ Process \/ Answered \/ CloseOnce
  BY DEF BlockingMain, OneAtATime, AcceptNext, ReadOnce, Process, Answered, CloseOnce
<1>2. GoodStore(store)'
  BY <1>1 DEF IInv, GoodStore, data
<1>3. /\ SocketInv' /\ ReadyInv' /\ fd' \in {NULL} \cup (FD \ Free')
      /\ pc' \in {"wait", "read", "process", "write", "close"}
      /\ fd' = NULL <=> pc' = "wait"
  <2>1. CASE AcceptNext
    <3>1. SocketInv' /\ NewFD \in Free /\ Free' = Free \ {NewFD}
      BY <2>1, AcceptedEffect DEF AcceptNext
    <3> HIDE DEF NewFD
    <3>2. fd' = NewFD /\ fd' \in FD \ Free' /\ fd' # NULL /\ pc' = "read"
      BY <2>1, <3>1, ConnectionAssumption DEF AcceptNext, Free
    <3>3. ReadyInv'
      BY <2>1, <3>1 DEF AcceptNext, IInv, ReadyInv, Usable
    <3>4. QED
      BY <3>1, <3>2, <3>3
  <2>2. CASE ReadOnce \/ Answered
    <3>1. /\ Received \/ Written
          /\ UNCHANGED <<backlog, table, ready, fd>> /\ pc' \in {"process", "close"} /\ fd # NULL
      BY <1>1, <2>2 DEF ReadOnce, Answered, OneAtATime, kernel
    <3>2. SocketInv' /\ Free' = Free
      BY <3>1, ReadWriteEffect
    <3>3. QED
      BY <3>1, <3>2 DEF IInv, ReadyInv, BatchInv, Usable
  <2>3. CASE Process
    <3>1. UNCHANGED <<socket, kernel, fd>> /\ pc' = "write" /\ fd # NULL
      BY <1>1, <2>3 DEF Process, OneAtATime
    <3>2. OwnerInv' /\ Free' = Free
      BY <3>1, OwnerStays DEF IInv, SocketInv, socket, kernel
    <3>3. QED
      BY <3>1, <3>2 DEF IInv, SocketInv, ReadyInv, BatchInv, Usable, socket, kernel
  <2>4. CASE CloseOnce
    <3>1. Closed /\ fd # NULL /\ fd' = NULL /\ pc' = "wait"
      BY <1>1, <2>4 DEF CloseOnce, OneAtATime
    <3>2. QED
      BY <3>1, ClosedEffect
  <2>5. QED
    BY <1>1, <2>1, <2>2, <2>3, <2>4
<1>4. BatchInv'
  <2>1. Range(<<>>) = {} /\ Distinct(<<>>) /\ <<>> \in Seq(FD \cup {ServerFD})
    BY DEF Range, Distinct
  <2>2. QED
    BY <1>1, <1>3, <2>1 DEF BatchInv
<1>5. QED
  BY <1>1, <1>2, <1>3, <1>4 DEF IInv, OneAtATime

\* One request at a time is read, processed and forgotten.
LEMMA RequestStep ==
  ASSUME OneAtATime, RequestInv, BlockingMain
  PROVE  RequestInv'
<1>1. program = "blocking" /\ program' = "blocking"
  BY DEF BlockingMain, AcceptNext, ReadOnce, Process, Answered, CloseOnce
<1>2. CASE AcceptNext
  BY <1>1, <1>2 DEF AcceptNext, RequestInv
<1>3. CASE ReadOnce
  <2>1. pc' = "process" /\ request' \in Arrival
    BY <1>3 DEF ReadOnce
  <2>2. QED
    BY <1>1, <2>1 DEF RequestInv
<1>4. CASE Process
  <2>1. PICK a \in Arrival : request = a
    BY <1>1, <1>4 DEF Process, RequestInv
  <2>2. request' = Processed(a) /\ pc' = "write"
    BY <1>4, <2>1 DEF Process, Processed
  <2>3. QED
    BY <1>1, <2>2 DEF RequestInv
<1>5. CASE Answered
  BY <1>1, <1>5 DEF Answered, RequestInv
<1>6. CASE CloseOnce
  BY <1>1, <1>6 DEF CloseOnce, RequestInv
<1>7. QED
  BY <1>2, <1>3, <1>4, <1>5, <1>6 DEF BlockingMain

-----------------------------------------------------------------------------
(* The three servers *)

\* Of whichever server runs.
ServersInv ==
  /\ IInv /\ OneAtATime /\ RequestInv
  /\ program = "select" => SlotInv

\* A process runs the main it began with.
LEMMA ProgramStays ==
  ASSUME [Next]_vars
  PROVE  program' = program
<1>1. CASE Clients
  BY <1>1 DEF Clients, Connect, Send, Leave
<1>2. CASE EpollMain
  BY <1>2 DEF EpollMain, EpollWait, Accept, AcceptFails, AddFails, TakeEvent, BatchDone,
              Read, Write, Killed, ReadEnd, ReadAgain
<1>3. CASE SelectMain
  BY <1>3 DEF SelectMain, Select, AddClient, TooManyClients, NoClient, TakeClient,
              ReadClient, WriteClient, CloseClient, RoundDone, Killed
<1>4. CASE BlockingMain
  BY <1>4 DEF BlockingMain, AcceptNext, ReadOnce, Process, Answered, CloseOnce
<1>5. CASE EpollFails \/ UNCHANGED vars
  BY <1>5 DEF EpollFails, vars, shared
<1>6. QED
  BY <1>1, <1>2, <1>3, <1>4, <1>5 DEF Next, Main

\* What a step of the clients, of one of the mains, or no step at all does to the
\* variables that the mains share.
LEMMA SharedStep ==
  ASSUME [Next]_vars
  PROVE  \/ /\ [Clients \/ EpollMain \/ (program = "epoll" /\ EpollFails)]_shared
            /\ UNCHANGED <<clients, request>>
         \/ SelectMain /\ program = "select" /\ UNCHANGED request
         \/ BlockingMain /\ program = "blocking" /\ UNCHANGED clients
BY DEF Next, Main, vars, SelectMain, BlockingMain

\* Every step of a server and its clients keeps the invariant.
LEMMA ServersNext == ServersInv /\ [Next]_vars => ServersInv'
<1> SUFFICES ASSUME ServersInv, [Next]_vars PROVE ServersInv'
  OBVIOUS
<1>1. program' = program
  BY ProgramStays
<1>2. IInv /\ OneAtATime /\ RequestInv
  BY DEF ServersInv
<1>3. CASE /\ [Clients \/ EpollMain \/ (program = "epoll" /\ EpollFails)]_shared
           /\ UNCHANGED <<clients, request>>
  <2>1. IInv'
    BY <1>2, <1>3, EpollNext
  <2>2. program # "epoll" => UNCHANGED <<table, pc, batch, fd>>
    <3>1. CASE Clients
      BY <1>2, <3>1, ClientStep
    <3>2. CASE UNCHANGED shared
      BY <3>2 DEF shared, kernel
    <3>3. QED
      BY <1>3, <3>1, <3>2 DEF EpollMain
  <2>3. OneAtATime' /\ RequestInv'
    BY <1>1, <1>2, <1>3, <2>2 DEF OneAtATime, RequestInv, NoRequest
  <2>4. program' = "select" => SlotInv'
    BY <1>1, <1>3, <2>2, SlotsStay DEF ServersInv, Free
  <2>5. QED
    BY <2>1, <2>3, <2>4 DEF ServersInv
<1>4. CASE SelectMain /\ program = "select" /\ UNCHANGED request
  <2>1. IInv' /\ SlotInv'
    BY <1>2, <1>4, SelectInvNext DEF SelectNext, ServersInv
  <2>2. OneAtATime' /\ RequestInv'
    BY <1>1, <1>2, <1>4 DEF OneAtATime, RequestInv, NoRequest
  <2>3. QED
    BY <2>1, <2>2 DEF ServersInv
<1>5. CASE BlockingMain /\ program = "blocking" /\ UNCHANGED clients
  BY <1>1, <1>2, <1>5, BlockingStep, RequestStep DEF ServersInv
<1>6. QED
  BY <1>3, <1>4, <1>5, SharedStep

\* Each server begins with it.
LEMMA InitServers == Init => ServersInv /\ Map!Init
<1> SUFFICES ASSUME Init PROVE ServersInv /\ Map!Init
  OBVIOUS
<1>1. IInv /\ Map!Init /\ pc = "wait" /\ batch = <<>> /\ request = NoRequest
  BY InitIInv DEF Init, EpollInit, SelectInit, BlockingInit, ConnectionsInit
<1>2. program = "select" => SelectInit
  BY DEF Init, EpollInit, SelectInit, BlockingInit
<1>3. program = "select" => SlotInv
  BY <1>2, InitSlots
<1>4. QED
  BY <1>1, <1>3 DEF ServersInv, OneAtATime, RequestInv

\* So it always holds.
LEMMA ServersInvariant == Spec => []ServersInv
BY InitServers, ServersNext, PTL DEF Spec

\* What main of ch4, ch5 and ch6 holds, has been told about and reads are open
\* descriptors.
THEOREM ServersConnectionsOK == Spec => []ConnectionsOK
<1>1. ServersInv => ConnectionsOK
  BY IInvConnections DEF ServersInv
<1>2. QED
  BY <1>1, ServersInvariant, PTL

\* The client array of the select server is exact when main waits, also beside the
\* others.
THEOREM ServersSlotsExact == Spec => []SlotsExact
<1>1. ServersInv => SlotsExact
  <2>1. SlotInv => SlotsExact
    BY SlotInvExact
  <2>2. program # "select" => SlotsExact
    BY DEF SlotsExact
  <2>3. QED
    BY <2>1, <2>2 DEF ServersInv
<1>2. QED
  BY <1>1, ServersInvariant, PTL

\* A command that one of the servers reads is a command of a map, and its answer is
\* that of a map; ch4 has no map.
THEOREM ServersAnswerAsMap == Spec => MapSpec
<1>1. ServersInv /\ [Next]_vars => [Map!Next]_(Map!vars)
  <2> SUFFICES ASSUME ServersInv, [Next]_vars PROVE [Map!Next]_(Map!vars)
    OBVIOUS
  <2>1. IInv
    BY DEF ServersInv
  <2>2. BlockingMain => UNCHANGED data
    BY DEF BlockingMain, AcceptNext, ReadOnce, Process, Answered, CloseOnce
  <2>3. SelectMain => [Map!Next]_(Map!vars)
    BY <2>1, SelectRefines DEF SelectNext
  <2>4. QED
    BY <2>1, <2>2, <2>3, SameMap, EpollRefines, SharedStep
<1>2. Init => Map!Init
  BY InitServers
<1>3. QED
  BY <1>1, <1>2, ServersInvariant, PTL DEF Spec, MapSpec, Map!Spec

-----------------------------------------------------------------------------
(* What is shown of ch4 *)

\* A whole request, of any of the values that RESP has, nested up to any depth, is
\* understood by parse_resp as the client meant it, wherever the next one starts, and
\* the reply reads back as the answer to it.
THEOREM RequestsUnderstood == Spec => []RequestUnderstood
<1>1. ServersInv => RequestUnderstood
  <2> SUFFICES ASSUME ServersInv, request.value # None PROVE RequestUnderstood
    BY DEF RequestUnderstood
  <2>1. program = "blocking" /\ pc \in {"process", "write"}
    BY DEF ServersInv, RequestInv, NoRequest
  <2>2. PICK a \in Arrival : request = IF pc = "process" THEN a ELSE Processed(a)
    BY <2>1 DEF ServersInv, RequestInv
  <2>3. a = [text |-> a.text, value |-> a.value, end |-> a.end, reply |-> <<>>]
    BY ArrivalUnderstood
  <2>4. /\ request.text = a.text /\ request.value = a.value /\ request.end = a.end
        /\ pc = "write" => request.reply = Reply[a.text]
    BY <2>1, <2>2, <2>3 DEF Processed
  <2>5. /\ parse_resp(a.text, 0).val = a.value
        /\ a.end > 0 => parse_resp(a.text, 0).pos = a.end
        /\ Reply[a.text] = serialize_response(Answer(a.value))
    BY <2>4, ArrivalUnderstood
  <2>6. pc = "write" =>
          parse_resp(request.reply, 0) = [val |-> Answer(a.value), pos |-> Len(request.reply)]
    BY <2>4, <2>5, ReplyReadsBack
  <2>7. QED
    BY <2>4, <2>5, <2>6 DEF RequestUnderstood
<1>2. QED
  BY <1>1, ServersInvariant, PTL

\* Every value of the protocol, nested up to any depth, is read back from what is written
\* of it, whatever follows, and the cursor is left behind it.
THEOREM ValuesAreReadBack ==
  \A v \in RespValue[Depth], rest \in Seq(Char) :
    parse_resp(Wire(v) \o rest, 0) = [val |-> v, pos |-> Len(Wire(v))]
<1> SUFFICES ASSUME NEW v \in RespValue[Depth], NEW rest \in Seq(Char)
             PROVE  parse_resp(Wire(v) \o rest, 0) = [val |-> v, pos |-> Len(Wire(v))]
  OBVIOUS
<1> DEFINE w == Wire(v)
           t == w \o rest
<1>1. ReadsBack(w, v)
  BY DepthAssumption, EveryValueReadsBack DEF Wire
<1> HIDE DEF w
<1>2. w \in Seq(Char) /\ Len(w) \in Nat /\ 0 + Len(w) = Len(w) /\ Len(rest) \in Nat
  BY <1>1, LenProperties DEF ReadsBack
<1>3. /\ t \in Seq(Char) /\ Len(t) = Len(w) + Len(rest)
      /\ \A j \in 1..(Len(w) + Len(rest)) : t[j] = IF j <= Len(w) THEN w[j] ELSE rest[j - Len(w)]
  BY <1>2, ConcatProperties
<1> HIDE DEF t
<1>4. Occurs(t, 0, w)
  BY <1>2, <1>3 DEF Occurs
<1>5. parse_resp(t, 0) = [val |-> v, pos |-> Len(w)]
  BY <1>1, <1>2, <1>3, <1>4 DEF ReadsBack
<1>6. QED
  BY <1>5 DEF w, t
=============================================================================
