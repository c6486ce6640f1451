---------------------------- MODULE SkipList_proofs ----------------------------
(***************************************************************************)
(* Proofs about the skip list of ch12 and ch13, for any members, scores    *)
(* and number of levels: every level is a list, the upper levels are parts *)
(* of the lower ones, and the counters describe them, whatever the scores  *)
(* have become.                                                            *)
(***************************************************************************)
EXTENDS SkipList, CommonLemmas

-----------------------------------------------------------------------------
(* Linked lists *)

Distinct(s) == \A i, j \in DOMAIN s : s[i] = s[j] => i = j

\* The node after k steps from the head along the nodes L.
Nth(L, k) ==
  IF k = 0 THEN HeadNode ELSE IF k \in DOMAIN L THEN L[k] ELSE NULL

\* The successors nx lead from the head through L, and from the other nodes nowhere.
Chained(nx, L) ==
  /\ nx \in [Node -> Member \cup {NULL}]
  /\ L \in Seq(Member) /\ Distinct(L)
  /\ \A k \in 0..Len(L) : nx[Nth(L, k)] = Nth(L, k + 1)
  /\ \A n \in Member : (\A k \in DOMAIN L : L[k] # n) => nx[n] = NULL

\* The places of the nodes of a list.
LEMMA ChainPlaces ==
  ASSUME NEW nx, NEW L, Chained(nx, L)
  PROVE  /\ Len(L) \in Nat /\ DOMAIN L = 1..Len(L) /\ \A k \in DOMAIN L : L[k] \in Member
         /\ Nth(L, 0) = HeadNode /\ Nth(L, Len(L) + 1) = NULL
         /\ \A k \in 1..Len(L) : Nth(L, k) = L[k]
         /\ \A k \in 0..Len(L) : Nth(L, k) \in Node /\ Nth(L, k) # NULL
         /\ \A j, k \in 0..(Len(L) + 1) : Nth(L, j) = Nth(L, k) => j = k
<1>1. Len(L) \in Nat /\ DOMAIN L = 1..Len(L) /\ \A k \in DOMAIN L : L[k] \in Member
  BY LenProperties, ElementOfSeq DEF Chained
<1>2. Nth(L, 0) = HeadNode /\ Nth(L, Len(L) + 1) = NULL
  BY <1>1 DEF Nth
<1>3. \A k \in 1..Len(L) : Nth(L, k) = L[k] /\ Nth(L, k) \in Member
  BY <1>1 DEF Nth
<1>4. \A k \in 0..(Len(L) + 1) : k = 0 \/ k \in 1..Len(L) \/ k = Len(L) + 1
  BY <1>1
<1>5. \A k \in 0..Len(L) : Nth(L, k) \in Node /\ Nth(L, k) # NULL
  BY <1>2, <1>3, SkipListAssumption DEF Node
<1>6. ASSUME NEW j \in 0..(Len(L) + 1), NEW k \in 0..(Len(L) + 1), Nth(L, j) = Nth(L, k)
      PROVE  j = k
  <2>1. HeadNode \notin Member /\ NULL \notin Member /\ HeadNode # NULL
    BY SkipListAssumption
  <2>2. CASE j \in 1..Len(L) /\ k \in 1..Len(L)
    BY <1>1, <1>3, <1>6, <2>2 DEF Chained, Distinct
  <2>3. CASE j \notin 1..Len(L) \/ k \notin 1..Len(L)
    <3>1. j = 0 \/ j \in 1..Len(L) \/ j = Len(L) + 1
      BY <1>4
    <3>2. k = 0 \/ k \in 1..Len(L) \/ k = Len(L) + 1
      BY <1>4
    <3>3. QED
      BY <1>2, <1>3, <1>6, <2>1, <2>3, <3>1, <3>2
  <2>4. QED
    BY <2>2, <2>3
<1>7. QED
  BY <1>1, <1>2, <1>3, <1>5, <1>6

\* The end of a sequence from place k on.
Rest(L, k) == [j \in 1..(Len(L) - k + 1) |-> L[j + k - 1]]

\* A sequence is the whole of its rest from 1; a rest is its first node and the next rest.
LEMMA RestProperties ==
  ASSUME NEW L \in Seq(Member)
  PROVE  /\ Rest(L, 1) = L /\ Rest(L, Len(L) + 1) = <<>>
         /\ \A k \in 1..Len(L) : Rest(L, k) = <<L[k]>> \o Rest(L, k + 1)
<1>1. Len(L) \in Nat /\ DOMAIN L = 1..Len(L) /\ \A k \in 1..Len(L) : L[k] \in Member
  BY LenProperties, ElementOfSeq
<1>2. \A k \in 1..(Len(L) + 1) :
        Rest(L, k) \in Seq(Member) /\ Len(Rest(L, k)) = Len(L) - k + 1
  <2> TAKE k \in 1..(Len(L) + 1)
  <2> DEFINE n == Len(L) - k + 1
  <2>1. n \in Nat /\ \A j \in 1..n : j + k - 1 \in 1..Len(L)
    BY <1>1
  <2>2. \A j \in 1..n : L[j + k - 1] \in Member
    BY <1>1, <2>1
  <2> HIDE DEF n
  <2>3. [j \in 1..n |-> L[j + k - 1]] \in Seq(Member)
    BY <2>1, <2>2, IsASeq
  <2>4. Rest(L, k) = [j \in 1..n |-> L[j + k - 1]]
    BY DEF Rest, n
  <2>5. Len(Rest(L, k)) = n
    BY <2>1, <2>3, <2>4, LenProperties
  <2>6. QED
    BY <2>3, <2>4, <2>5 DEF n
<1>3. Rest(L, 1) = L
  <2>1. Rest(L, 1) = [j \in 1..Len(L) |-> L[j]]
    BY <1>1 DEF Rest
  <2>2. QED
    BY <1>1, <2>1
<1>4. Rest(L, Len(L) + 1) = <<>>
  <2>1. Rest(L, Len(L) + 1) \in Seq(Member) /\ Len(Rest(L, Len(L) + 1)) = 0
    BY <1>1, <1>2
  <2>2. QED
    BY <2>1, EmptySeq
<1>5. ASSUME NEW k \in 1..Len(L)
      PROVE  Rest(L, k) = <<L[k]>> \o Rest(L, k + 1)
  <2> DEFINE s == Rest(L, k)
             r == Rest(L, k + 1)
             t == <<L[k]>> \o r
  <2>1. /\ s \in Seq(Member) /\ Len(s) = Len(L) - k + 1
        /\ r \in Seq(Member) /\ Len(r) = Len(L) - k
    <3>1. k \in 1..(Len(L) + 1) /\ k + 1 \in 1..(Len(L) + 1) /\ Len(L) - (k + 1) + 1 = Len(L) - k
      BY <1>1
    <3> HIDE DEF s, r
    <3>2. s \in Seq(Member) /\ Len(s) = Len(L) - k + 1
      BY <1>2, <3>1 DEF s
    <3>3. r \in Seq(Member) /\ Len(r) = Len(L) - (k + 1) + 1
      BY <1>2, <3>1 DEF r
    <3>4. QED
      BY <3>1, <3>2, <3>3
  <2>2. /\ \A j \in 1..Len(s) : s[j] = L[j + k - 1]
        /\ \A j \in 1..Len(r) : r[j] = L[j + k]
    BY <1>1, <2>1 DEF Rest
  <2> HIDE DEF s, r
  <2>3. <<L[k]>> \in Seq(Member) /\ Len(<<L[k]>>) = 1 /\ <<L[k]>>[1] = L[k]
    BY <1>1
  <2>4. /\ t \in Seq(Member) /\ Len(t) = 1 + Len(r)
        /\ \A j \in 1..(1 + Len(r)) : t[j] = IF j <= 1 THEN L[k] ELSE r[j - 1]
    <3> DEFINE o == <<L[k]>>
    <3>1. o \in Seq(Member) /\ Len(o) = 1 /\ o[1] = L[k]
      BY <2>3
    <3> HIDE DEF o
    <3>2. /\ o \o r \in Seq(Member) /\ Len(o \o r) = Len(o) + Len(r)
          /\ \A j \in 1..(Len(o) + Len(r)) :
               (o \o r)[j] = IF j <= Len(o) THEN o[j] ELSE r[j - Len(o)]
      BY <2>1, <3>1, ConcatProperties
    <3>3. \A j \in 1..(1 + Len(r)) : (o \o r)[j] = IF j <= 1 THEN L[k] ELSE r[j - 1]
      BY <2>1, <3>1, <3>2
    <3>4. QED
      BY <3>1, <3>2, <3>3 DEF o
  <2> HIDE DEF t
  <2>5. ASSUME NEW j \in 1..Len(s) PROVE s[j] = t[j]
    <3>1. CASE j = 1
      <4>1. s[j] = L[k]
        BY <1>1, <2>2, <3>1
      <4>2. t[j] = L[k]
        BY <1>1, <2>1, <2>4, <3>1
      <4>3. QED
        BY <4>1, <4>2
    <3>2. CASE j # 1
      <4>1. j \in 1..(1 + Len(r)) /\ ~(j <= 1) /\ j - 1 \in 1..Len(r)
        BY <1>1, <2>1, <3>2
      <4>2. t[j] = L[(j - 1) + k]
        BY <2>2, <2>4, <4>1
      <4>3. (j - 1) + k = j + k - 1
        OBVIOUS
      <4>4. QED
        BY <2>2, <4>2, <4>3
    <3>3. QED
      BY <3>1, <3>2
  <2>6. Len(s) = Len(t)
    BY <1>1, <2>1, <2>4
  <2>7. s = t
    BY <2>1, <2>4, <2>5, <2>6, SeqEqual
  <2>8. QED
    BY <2>7 DEF s, t, r
<1>6. QED
  BY <1>3, <1>4, <1>5

\* What holds at the end of a list, and at a place if it holds at the next, holds
\* everywhere: S is the set of places at which it does.
LEMMA FromTheEnd ==
  ASSUME NEW n \in Nat, NEW S, n \in S, \A k \in 0..n : k # n /\ k + 1 \in S => k \in S
  PROVE  \A k \in 0..n : k \in S
<1> DEFINE Bad == {d \in 0..n : n - d \notin S}
<1>1. Bad = {}
  <2> SUFFICES ASSUME Bad # {} PROVE FALSE
    OBVIOUS
  <2>1. Bad \in SUBSET Nat
    OBVIOUS
  <2> HIDE DEF Bad
  <2>2. PICK d \in Bad : \A e \in Bad : d <= e
    BY <2>1, LeastNumber
  <2>3. d \in 0..n /\ n - d \notin S
    BY <2>2 DEF Bad
  <2>4. d # 0
    BY <2>3
  <2>5. d - 1 \in 0..n /\ n - (d - 1) = (n - d) + 1 /\ n - d \in 0..n /\ n - d # n
    BY <2>3, <2>4
  <2>6. d - 1 \notin Bad
    BY <2>2, <2>3
  <2>7. n - (d - 1) \in S
    BY <2>5, <2>6 DEF Bad
  <2>8. QED
    BY <2>3, <2>5, <2>7
<1>2. ASSUME NEW k \in 0..n PROVE k \in S
  <2>1. n - k \in 0..n /\ n - (n - k) = k
    OBVIOUS
  <2>2. n - k \notin Bad
    BY <1>1
  <2>3. QED
    BY <2>1, <2>2
<1>3. QED
  BY <1>2

\* The walk along a list meets its nodes.
LEMMA WalkOfChain ==
  ASSUME NEW nx, NEW L, Chained(nx, L)
  PROVE  From(nx)[nx[HeadNode]] = L
<1> DEFINE Step(f) == [n \in Node \cup {NULL} |-> IF n = NULL THEN <<>> ELSE <<n>> \o f[nx[n]]]
           place(n) == CHOOSE k \in DOMAIN L : L[k] = n
           g == [n \in Node \cup {NULL} |->
                   IF n = NULL THEN <<>>
                   ELSE IF n = HeadNode THEN <<n>> \o Rest(L, 1)
                   ELSE IF \E k \in DOMAIN L : L[k] = n THEN Rest(L, place(n))
                   ELSE <<n>> \o <<>>]
<1>1. /\ Len(L) \in Nat /\ DOMAIN L = 1..Len(L) /\ \A k \in DOMAIN L : L[k] \in Member
      /\ Nth(L, 0) = HeadNode /\ Nth(L, Len(L) + 1) = NULL
      /\ \A k \in 1..Len(L) : Nth(L, k) = L[k]
      /\ L \in Seq(Member) /\ Distinct(L)
      /\ nx \in [Node -> Member \cup {NULL}]
      /\ \A k \in 0..Len(L) : nx[Nth(L, k)] = Nth(L, k + 1)
  BY ChainPlaces DEF Chained
<1>2. \A k \in DOMAIN L : place(L[k]) = k
  BY <1>1 DEF Distinct
<1>3. \A k \in 1..(Len(L) + 1) : g[Nth(L, k)] = Rest(L, k)
  <2> TAKE k \in 1..(Len(L) + 1)
  <2>1. CASE k = Len(L) + 1
    BY <1>1, <2>1, RestProperties
  <2>2. CASE k # Len(L) + 1
    <3>1. k \in DOMAIN L /\ Nth(L, k) = L[k] /\ L[k] \in Member
      BY <1>1, <2>2
    <3>2. L[k] \in Node \cup {NULL} /\ L[k] # NULL /\ L[k] # HeadNode
      BY <3>1, SkipListAssumption DEF Node
    <3> HIDE DEF place
    <3>3. g[L[k]] = Rest(L, place(L[k]))
      BY <3>1, <3>2
    <3>4. QED
      BY <1>2, <3>1, <3>3
  <2>3. QED
    BY <2>1, <2>2
<1>4. g = Step(g)
  <2>1. ASSUME NEW n \in Node \cup {NULL} PROVE g[n] = Step(g)[n]
    <3>1. CASE n = NULL
      BY <3>1
    <3>2. CASE n = HeadNode
      <4>1. nx[n] = Nth(L, 1) /\ n # NULL /\ 1 \in 1..(Len(L) + 1)
        BY <1>1, <3>2, SkipListAssumption
      <4>2. g[nx[n]] = Rest(L, 1)
        BY <1>3, <4>1
      <4>3. g[n] = <<n>> \o Rest(L, 1)
        BY <3>2, <4>1
      <4> HIDE DEF g
      <4>4. Step(g)[n] = <<n>> \o g[nx[n]]
        BY <4>1
      <4>5. QED
        BY <4>2, <4>3, <4>4
    <3>3. ASSUME NEW k \in DOMAIN L, L[k] = n PROVE g[n] = Step(g)[n]
      <4>1. k \in 1..Len(L) /\ k \in 1..(Len(L) + 1) /\ k + 1 \in 1..(Len(L) + 1)
            /\ k \in 0..Len(L) /\ n # NULL
        BY <1>1, <3>3, SkipListAssumption
      <4>2. nx[n] = Nth(L, k + 1) /\ n = Nth(L, k)
        BY <1>1, <3>3, <4>1
      <4>3. g[n] = Rest(L, k) /\ g[nx[n]] = Rest(L, k + 1)
        BY <1>3, <4>1, <4>2
      <4> HIDE DEF g
      <4>4. Step(g)[n] = <<n>> \o g[nx[n]]
        BY <4>1
      <4>5. Rest(L, k) = <<n>> \o Rest(L, k + 1)
        BY <1>1, <3>3, <4>1, RestProperties
      <4>6. QED
        BY <4>3, <4>4, <4>5
    <3>4. CASE n \in Member /\ \A k \in DOMAIN L : L[k] # n
      <4>1. nx[n] = NULL /\ n # NULL /\ n # HeadNode
        BY <3>4, SkipListAssumption DEF Chained
      <4>2. g[n] = <<n>> \o <<>> /\ g[nx[n]] = <<>>
        BY <3>4, <4>1
      <4> HIDE DEF g
      <4>3. Step(g)[n] = <<n>> \o g[nx[n]]
        BY <4>1
      <4>4. QED
        BY <4>2, <4>3
    <3>5. QED
      BY <3>1, <3>2, <3>3, <3>4 DEF Node
  <2> DEFINE D == Node \cup {NULL}
  <2>2. g = [n \in D |-> g[n]] /\ Step(g) = [n \in D |-> Step(g)[n]]
    OBVIOUS
  <2> HIDE DEF g, Step
  <2>3. QED
    BY <2>1, <2>2
<1> DEFINE f == From(nx)
<1>5. f = Step(f)
  <2>1. f = CHOOSE h : h = Step(h)
    BY DEF From
  <2> HIDE DEF f, g, Step
  <2>2. QED
    BY <1>4, <2>1
<1>6. \A n \in Node : f[n] = <<n>> \o f[nx[n]]
  <2>1. \A n \in Node : n # NULL
    BY SkipListAssumption DEF Node
  <2> HIDE DEF f
  <2>2. \A n \in Node : Step(f)[n] = <<n>> \o f[nx[n]]
    BY <2>1
  <2>3. QED
    BY <1>5, <2>2
<1>7. f[NULL] = <<>>
  <2> HIDE DEF f
  <2>1. Step(f)[NULL] = <<>>
    OBVIOUS
  <2>2. QED
    BY <1>5, <2>1
<1> HIDE DEF f, g, Step
<1> DEFINE S == {k \in 0..Len(L) : f[Nth(L, k + 1)] = Rest(L, k + 1)}
<1>8. \A k \in 0..Len(L) : k \in S
  <2>1. Len(L) \in S
    BY <1>1, <1>7, RestProperties
  <2>2. ASSUME NEW k \in 0..Len(L), k # Len(L), k + 1 \in S PROVE k \in S
    <3>1. k + 1 \in 1..Len(L) /\ (k + 1) \in 0..Len(L)
      <4>1. k \in 0..Len(L) /\ k # Len(L) /\ Len(L) \in Nat
        BY <1>1, <2>2
      <4> HIDE DEF S
      <4>2. QED
        BY <4>1
    <3>2. Nth(L, k + 1) = L[k + 1] /\ L[k + 1] \in Node
          /\ nx[Nth(L, k + 1)] = Nth(L, (k + 1) + 1)
      BY <1>1, <3>1 DEF Node
    <3>3. f[Nth(L, k + 1)] = <<L[k + 1]>> \o f[Nth(L, (k + 1) + 1)]
      BY <1>6, <3>2
    <3>4. f[Nth(L, (k + 1) + 1)] = Rest(L, (k + 1) + 1)
      BY <2>2
    <3>5. Rest(L, k + 1) = <<L[k + 1]>> \o Rest(L, (k + 1) + 1)
      BY <1>1, <3>1, RestProperties
    <3>6. QED
      BY <3>3, <3>4, <3>5
  <2> HIDE DEF S
  <2>3. QED
    BY <1>1, <2>1, <2>2, FromTheEnd
<1>9. f[Nth(L, 0 + 1)] = Rest(L, 0 + 1)
  <2>1. 0 \in S
    BY <1>1, <1>8
  <2>2. QED
    BY <2>1
<1>10. nx[HeadNode] = Nth(L, 0 + 1)
  BY <1>1
<1>11. QED
  BY <1>1, <1>9, <1>10, RestProperties DEF f

-----------------------------------------------------------------------------
(* A search along a list *)

\* The places at which a search from place k stops, that goes on while the next node
\* is in B: there is one.
StopsAt(L, B, k) ==
  {j \in k..Len(L) : (\A i \in (k + 1)..j : L[i] \in B) /\ (j < Len(L) => L[j + 1] \notin B)}

\* It is k if the next node is not in B, and the one from the next place if it is.
LEMMA NextStop ==
  ASSUME NEW L, Len(L) \in Nat, NEW B, NEW k \in 0..Len(L)
  PROVE  /\ k < Len(L) /\ L[k + 1] \in B => StopsAt(L, B, k) = StopsAt(L, B, k + 1)
         /\ ~(k < Len(L) /\ L[k + 1] \in B) => StopsAt(L, B, k) = {k}
<1>1. ASSUME k < Len(L), L[k + 1] \in B PROVE StopsAt(L, B, k) = StopsAt(L, B, k + 1)
  <2>1. ASSUME NEW j \in StopsAt(L, B, k) PROVE j \in StopsAt(L, B, k + 1)
    <3>1. j \in k..Len(L) /\ (\A i \in (k + 1)..j : L[i] \in B) /\ (j < Len(L) => L[j + 1] \notin B)
      BY DEF StopsAt
    <3>2. j # k
      BY <1>1, <3>1
    <3>3. j \in (k + 1)..Len(L) /\ \A i \in ((k + 1) + 1)..j : i \in (k + 1)..j
      BY <3>1, <3>2
    <3>4. QED
      BY <3>1, <3>3 DEF StopsAt
  <2>2. ASSUME NEW j \in StopsAt(L, B, k + 1) PROVE j \in StopsAt(L, B, k)
    <3>1. j \in (k + 1)..Len(L) /\ (\A i \in ((k + 1) + 1)..j : L[i] \in B)
          /\ (j < Len(L) => L[j + 1] \notin B)
      BY DEF StopsAt
    <3>2. j \in k..Len(L) /\ \A i \in (k + 1)..j : i = k + 1 \/ i \in ((k + 1) + 1)..j
      BY <3>1
    <3>3. QED
      BY <1>1, <3>1, <3>2 DEF StopsAt
  <2>3. QED
    BY <2>1, <2>2
<1>2. ASSUME ~(k < Len(L) /\ L[k + 1] \in B) PROVE StopsAt(L, B, k) = {k}
  <2>1. k \in StopsAt(L, B, k)
    BY <1>2 DEF StopsAt
  <2>2. ASSUME NEW j \in StopsAt(L, B, k) PROVE j = k
    <3>1. j \in k..Len(L) /\ \A i \in (k + 1)..j : L[i] \in B
      BY DEF StopsAt
    <3>2. j # k => k < Len(L) /\ k + 1 \in (k + 1)..j
      BY <3>1
    <3>3. QED
      BY <1>2, <3>1, <3>2
  <2>3. QED
    BY <2>1, <2>2
<1>3. QED
  BY <1>1, <1>2

\* The search ends where it should.
LEMMA PastOfChain ==
  ASSUME NEW nx, NEW L, Chained(nx, L), NEW B \in SUBSET Member, NEW k \in 0..Len(L)
  PROVE  \E j \in StopsAt(L, B, k) : Past(nx, B)[Nth(L, k)] = Nth(L, j)
<1> DEFINE N == 0..Len(L)
           Step(f) == [n \in Node |-> IF nx[n] \in B THEN f[nx[n]] ELSE n]
           place(n) == CHOOSE i \in N : Nth(L, i) = n
           stop(i) == CHOOSE j \in StopsAt(L, B, i) : TRUE
           g == [n \in Node |-> IF \E i \in N : Nth(L, i) = n THEN Nth(L, stop(place(n))) ELSE n]
<1>1. /\ Len(L) \in Nat /\ DOMAIN L = 1..Len(L) /\ \A i \in DOMAIN L : L[i] \in Member
      /\ Nth(L, 0) = HeadNode /\ Nth(L, Len(L) + 1) = NULL
      /\ \A i \in 1..Len(L) : Nth(L, i) = L[i]
      /\ \A i \in N : Nth(L, i) \in Node /\ nx[Nth(L, i)] = Nth(L, i + 1)
      /\ \A i, j \in 0..(Len(L) + 1) : Nth(L, i) = Nth(L, j) => i = j
      /\ nx \in [Node -> Member \cup {NULL}] /\ NULL \notin B
  <2>1. /\ Len(L) \in Nat /\ DOMAIN L = 1..Len(L) /\ \A i \in DOMAIN L : L[i] \in Member
        /\ Nth(L, 0) = HeadNode /\ Nth(L, Len(L) + 1) = NULL
        /\ \A i \in 1..Len(L) : Nth(L, i) = L[i]
        /\ \A i \in 0..Len(L) : Nth(L, i) \in Node
        /\ \A i, j \in 0..(Len(L) + 1) : Nth(L, i) = Nth(L, j) => i = j
    BY ChainPlaces
  <2>2. \A i \in 0..Len(L) : nx[Nth(L, i)] = Nth(L, i + 1)
    BY DEF Chained
  <2>3. nx \in [Node -> Member \cup {NULL}] /\ NULL \notin B
    BY SkipListAssumption DEF Chained
  <2>4. QED
    BY <2>1, <2>2, <2>3
<1>2. \A i \in N : place(Nth(L, i)) = i
  <2> TAKE i \in N
  <2>1. \A j \in N : Nth(L, j) = Nth(L, i) => j = i
    BY <1>1
  <2>2. QED
    BY <2>1
<1>3. \A i \in N : (nx[Nth(L, i)] \in B) <=> (i < Len(L) /\ L[i + 1] \in B)
  <2> TAKE i \in N
  <2>1. CASE i < Len(L)
    <3>1. i + 1 \in 1..Len(L)
      BY <1>1, <2>1
    <3>2. QED
      BY <1>1, <2>1, <3>1
  <2>2. CASE ~(i < Len(L))
    <3>1. i \in 0..Len(L) /\ Len(L) \in Nat
      BY <1>1
    <3>2. i = Len(L)
      BY <2>2, <3>1
    <3>3. QED
      BY <1>1, <2>2, <3>2
  <2>3. QED
    BY <2>1, <2>2
<1>4. \A i \in N : g[Nth(L, i)] = Nth(L, stop(i))
  <2> HIDE DEF place, stop
  <2>1. QED
    BY <1>1, <1>2
<1>5. g = Step(g)
  <2>1. ASSUME NEW i \in N PROVE g[Nth(L, i)] = Step(g)[Nth(L, i)]
    <3> DEFINE n == Nth(L, i)
    <3>1. n \in Node
      BY <1>1
    <3>2. CASE nx[n] \in B
      <4>1. i < Len(L) /\ L[i + 1] \in B /\ nx[n] = Nth(L, i + 1) /\ i + 1 \in N
        BY <1>1, <1>3, <3>2
      <4>2. StopsAt(L, B, i) = StopsAt(L, B, i + 1)
        BY <1>1, <4>1, NextStop
      <4>3. stop(i) = stop(i + 1)
        BY <4>2
      <4> HIDE DEF g, stop
      <4>4. g[n] = Nth(L, stop(i)) /\ g[nx[n]] = Nth(L, stop(i + 1))
        BY <1>4, <4>1
      <4> HIDE DEF n
      <4>5. Step(g)[n] = g[nx[n]]
        BY <3>1, <3>2
      <4>6. QED
        BY <4>3, <4>4, <4>5 DEF n
    <3>3. CASE nx[n] \notin B
      <4>1. StopsAt(L, B, i) = {i}
        BY <1>1, <1>3, <3>3, NextStop
      <4>2. stop(i) = i
        BY <4>1
      <4> HIDE DEF g, stop
      <4>3. g[n] = n
        BY <1>4, <4>2
      <4> HIDE DEF n
      <4>4. Step(g)[n] = n
        BY <3>1, <3>3
      <4>5. QED
        BY <4>3, <4>4 DEF n
    <3>4. QED
      BY <3>2, <3>3
  <2>2. ASSUME NEW n \in Node, ~\E i \in N : Nth(L, i) = n PROVE g[n] = Step(g)[n]
    <3>1. n # HeadNode /\ \A i \in DOMAIN L : L[i] # n
      <4>1. 0 \in N /\ \A i \in DOMAIN L : i \in N /\ Nth(L, i) = L[i]
        BY <1>1
      <4>2. QED
        BY <1>1, <2>2, <4>1
    <3>2. nx[n] = NULL
      BY <2>2, <3>1 DEF Chained, Node
    <3>3. g[n] = n
      BY <2>2
    <3> HIDE DEF g
    <3>4. Step(g)[n] = n
      BY <1>1, <3>2
    <3>5. QED
      BY <3>3, <3>4
  <2>3. \A n \in Node : g[n] = Step(g)[n]
    <3> HIDE DEF g, Step, N
    <3>1. QED
      BY <2>1, <2>2
  <2>4. g = [n \in Node |-> g[n]] /\ Step(g) = [n \in Node |-> Step(g)[n]]
    OBVIOUS
  <2> HIDE DEF g, Step
  <2>5. QED
    BY <2>3, <2>4
<1> DEFINE f == Past(nx, B)
<1>6. f = Step(f)
  <2>1. f = CHOOSE h : h = Step(h)
    BY DEF Past
  <2> HIDE DEF f, g, Step
  <2>2. QED
    BY <1>5, <2>1
<1>7. \A n \in Node : f[n] = IF nx[n] \in B THEN f[nx[n]] ELSE n
  <2> HIDE DEF f
  <2>1. \A n \in Node : Step(f)[n] = IF nx[n] \in B THEN f[nx[n]] ELSE n
    OBVIOUS
  <2> HIDE DEF Step
  <2>2. QED
    BY <1>6, <2>1
<1> HIDE DEF f, g, Step, place, stop
<1> DEFINE S == {i \in N : \E j \in StopsAt(L, B, i) : f[Nth(L, i)] = Nth(L, j)}
<1>8. ASSUME NEW i \in N, ~(i < Len(L) /\ L[i + 1] \in B) PROVE i \in S
  <2>1. StopsAt(L, B, i) = {i}
    BY <1>1, <1>8, NextStop
  <2>2. nx[Nth(L, i)] \notin B
    BY <1>3, <1>8
  <2>3. f[Nth(L, i)] = Nth(L, i)
    BY <1>1, <1>7, <2>2
  <2>4. QED
    BY <2>1, <2>3
<1>9. ASSUME NEW i \in N, i # Len(L), i + 1 \in S PROVE i \in S
  <2>1. CASE i < Len(L) /\ L[i + 1] \in B
    <3>1. StopsAt(L, B, i) = StopsAt(L, B, i + 1)
      BY <1>1, <2>1, NextStop
    <3>2. nx[Nth(L, i)] \in B
      BY <1>3, <2>1
    <3>3. nx[Nth(L, i)] = Nth(L, i + 1) /\ Nth(L, i) \in Node
      BY <1>1
    <3>4. f[Nth(L, i)] = f[Nth(L, i + 1)]
      BY <1>7, <3>2, <3>3
    <3>5. QED
      BY <1>9, <3>1, <3>4
  <2>2. QED
    BY <1>8, <2>1
<1>10. Len(L) \in S
  BY <1>1, <1>8
<1>11. \A i \in N : i \in S
  <2> HIDE DEF S
  <2>1. QED
    BY <1>1, <1>9, <1>10, FromTheEnd
<1>12. QED
  BY <1>11 DEF f

-----------------------------------------------------------------------------
(* The search from level to level *)

\* Every node of L is one of K, in the same order.
Below(L, K) ==
  /\ \A r \in DOMAIN L : \E q \in DOMAIN K : L[r] = K[q]
  /\ \A r, q \in DOMAIN L : \A a, b \in DOMAIN K : L[r] = K[a] /\ L[q] = K[b] /\ r < q => a < b

\* Place j of L is where a search for nodes in B may stop, and what the nodes of L are
\* on one side of it they are of place k of the level below, K.
StopIn(L, B, j) ==
  /\ j \in 0..Len(L)
  /\ j < Len(L) => L[j + 1] \notin B
  /\ j > 0 => L[j] \in B

Aligned(L, j, K, k) ==
  \A r \in DOMAIN L, q \in DOMAIN K : L[r] = K[q] => (r <= j <=> q <= k)

\* A search that goes down a level and on stops at a place in line with the one above:
\* it cannot pass the node that stopped it there.
LEMMA DownOne ==
  ASSUME NEW nx, NEW mx, NEW L, NEW K, Chained(mx, L), Chained(nx, K), Below(L, K),
         NEW B \in SUBSET Member, NEW j, StopIn(L, B, j)
  PROVE  \E k : StopIn(K, B, k) /\ Past(nx, B)[Nth(L, j)] = Nth(K, k) /\ Aligned(L, j, K, k)
<1>1. /\ Len(L) \in Nat /\ DOMAIN L = 1..Len(L) /\ Nth(L, 0) = HeadNode
      /\ \A i \in 1..Len(L) : Nth(L, i) = L[i]
  BY ChainPlaces
<1>2. /\ Len(K) \in Nat /\ DOMAIN K = 1..Len(K) /\ Nth(K, 0) = HeadNode
      /\ \A i \in 1..Len(K) : Nth(K, i) = K[i]
      /\ \A a, b \in DOMAIN K : K[a] = K[b] => a = b
  <2>1. /\ Len(K) \in Nat /\ DOMAIN K = 1..Len(K) /\ Nth(K, 0) = HeadNode
        /\ \A i \in 1..Len(K) : Nth(K, i) = K[i]
    BY ChainPlaces
  <2>2. \A a, b \in DOMAIN K : K[a] = K[b] => a = b
    BY DEF Chained, Distinct
  <2>3. QED
    BY <2>1, <2>2
<1>3. j \in 0..Len(L) /\ (j < Len(L) => L[j + 1] \notin B) /\ (j > 0 => L[j] \in B)
  BY DEF StopIn
<1>4. PICK p \in 0..Len(K) :
              /\ Nth(L, j) = Nth(K, p)
              /\ j = 0 => p = 0
              /\ j # 0 => p \in DOMAIN K /\ L[j] = K[p]
  <2>1. CASE j = 0
    BY <1>1, <1>2, <2>1
  <2>2. CASE j # 0
    <3>1. j \in DOMAIN L
      BY <1>1, <1>3, <2>2
    <3>2. PICK p \in DOMAIN K : L[j] = K[p]
      BY <3>1 DEF Below
    <3>3. p \in 0..Len(K) /\ Nth(L, j) = Nth(K, p)
      BY <1>1, <1>2, <3>1, <3>2
    <3>4. QED
      BY <2>2, <3>2, <3>3
  <2>3. QED
    BY <2>1, <2>2
<1>5. PICK k \in StopsAt(K, B, p) : Past(nx, B)[Nth(K, p)] = Nth(K, k)
  BY PastOfChain
<1>6. k \in p..Len(K) /\ (\A i \in (p + 1)..k : K[i] \in B) /\ (k < Len(K) => K[k + 1] \notin B)
  BY DEF StopsAt
<1>7. StopIn(K, B, k)
  <2>1. k \in 0..Len(K)
    BY <1>2, <1>6
  <2>2. ASSUME k > 0 PROVE K[k] \in B
    <3>1. CASE k = p
      <4>1. j # 0 /\ j > 0
        BY <1>3, <1>4, <2>2, <3>1
      <4>2. QED
        BY <1>3, <1>4, <3>1, <4>1
    <3>2. CASE k # p
      <4>1. k \in (p + 1)..k
        BY <1>2, <1>6, <3>2
      <4>2. QED
        BY <1>6, <4>1
    <3>3. QED
      BY <3>1, <3>2
  <2>3. QED
    BY <1>6, <2>1, <2>2 DEF StopIn
<1>8. ASSUME NEW r \in DOMAIN L, NEW q \in DOMAIN K, L[r] = K[q]
      PROVE  r <= j <=> q <= k
  <2>1. r \in 1..Len(L) /\ q \in 1..Len(K) /\ p \in Nat /\ k \in Nat /\ j \in Nat /\ p <= k
    BY <1>1, <1>2, <1>3, <1>6
  <2>2. CASE r <= j
    <3>1. j \in DOMAIN L /\ p \in DOMAIN K /\ L[j] = K[p]
      BY <1>1, <1>3, <1>4, <2>1, <2>2
    <3>2. CASE r = j
      BY <1>2, <1>8, <2>1, <2>2, <3>1, <3>2
    <3>3. CASE r # j
      <4>1. r < j
        BY <2>1, <2>2, <3>3
      <4>2. q < p
        BY <1>8, <3>1, <4>1 DEF Below
      <4>3. QED
        BY <2>1, <2>2, <4>2
    <3>4. QED
      BY <3>2, <3>3
  <2>3. CASE ~(r <= j)
    <3>1. j < Len(L) /\ j + 1 \in DOMAIN L /\ (r = j + 1 \/ j + 1 < r)
      BY <1>1, <2>1, <2>3
    <3>2. PICK y \in DOMAIN K : L[j + 1] = K[y]
      BY <3>1 DEF Below
    <3>3. K[y] \notin B
      BY <1>3, <3>1, <3>2
    <3>4. p < y
      <4>1. CASE j = 0
        BY <1>2, <1>4, <4>1
      <4>2. CASE j # 0
        <5>1. j \in DOMAIN L /\ p \in DOMAIN K /\ L[j] = K[p] /\ j < j + 1
          <6>1. j \in 1..Len(L) /\ j < j + 1
            BY <1>3, <4>2
          <6>2. QED
            BY <1>1, <1>4, <4>2, <6>1
        <5>2. QED
          BY <3>1, <3>2, <5>1 DEF Below
      <4>3. QED
        BY <4>1, <4>2
    <3>5. ~(y <= k)
      <4>1. y \in Nat
        BY <1>2
      <4>2. y <= k => y \in (p + 1)..k
        BY <2>1, <3>4, <4>1
      <4>3. QED
        BY <1>6, <3>3, <4>2
    <3>6. y <= q
      <4>1. CASE r = j + 1
        BY <1>2, <1>8, <3>2, <4>1
      <4>2. CASE j + 1 < r
        <5>1. y < q
          BY <1>8, <3>1, <3>2, <4>2 DEF Below
        <5>2. QED
          BY <1>2, <5>1
      <4>3. QED
        BY <3>1, <4>1, <4>2
    <3>7. ~(q <= k)
      BY <1>2, <2>1, <3>5, <3>6
    <3>8. QED
      BY <2>3, <3>7
  <2>4. QED
    BY <2>2, <2>3
<1>9. QED
  BY <1>4, <1>5, <1>7, <1>8 DEF Aligned

\* f is what a search from h on ends at on every level up to n, P its step on a level.
Down(f, P, n, h) ==
  /\ f = [i \in 0..n |-> f[i]]
  /\ \A i \in 0..n : f[i] = P[i][IF i = n THEN h ELSE f[i + 1]]

\* A search from level to level exists: it is defined from the top.
LEMMA DownExists ==
  ASSUME NEW P, NEW n \in Nat, NEW h
  PROVE  \E f : Down(f, P, n, h)
<1> DEFINE Step(k, f) == [i \in k..n |-> P[i][IF i = n THEN h ELSE f[i + 1]]]
           S == {k \in 0..n : \E f : f = Step(k, f)}
<1>1. n \in S
  <2> DEFINE g == [i \in n..n |-> P[i][h]]
  <2>1. g = Step(n, g)
    OBVIOUS
  <2>2. n \in 0..n
    OBVIOUS
  <2> HIDE DEF g, Step
  <2>3. QED
    BY <2>1, <2>2
<1>2. ASSUME NEW k \in 0..n, k # n, k + 1 \in S PROVE k \in S
  <2>1. PICK f : f = Step(k + 1, f)
    BY <1>2
  <2> DEFINE g == [i \in k..n |-> IF i = k THEN P[k][f[k + 1]] ELSE f[i]]
  <2>2. ASSUME NEW i \in k..n PROVE g[i] = P[i][IF i = n THEN h ELSE g[i + 1]]
    <3>1. CASE i = k
      <4>1. k + 1 \in k..n /\ k + 1 # k /\ i # n
        BY <1>2, <3>1
      <4>2. g[k + 1] = f[k + 1]
        BY <4>1
      <4>3. QED
        BY <3>1, <4>1, <4>2
    <3>2. CASE i # k
      <4>1. i \in (k + 1)..n /\ (i # n => i + 1 \in k..n /\ i + 1 # k)
        BY <3>2
      <4>2. g[i] = f[i] /\ (i # n => g[i + 1] = f[i + 1])
        BY <3>2, <4>1
      <4> HIDE DEF g
      <4>3. f[i] = P[i][IF i = n THEN h ELSE f[i + 1]]
        <5>1. f[i] = Step(k + 1, f)[i]
          BY <2>1
        <5>2. QED
          BY <4>1, <5>1
      <4>4. QED
        BY <4>2, <4>3
    <3>3. QED
      BY <3>1, <3>2
  <2>3. g = [i \in k..n |-> g[i]]
    OBVIOUS
  <2> HIDE DEF g
  <2>4. g = Step(k, g)
    BY <2>2, <2>3
  <2>5. QED
    BY <2>4
<1>3. \A k \in 0..n : k \in S
  <2> HIDE DEF S
  <2>1. QED
    BY <1>1, <1>2, FromTheEnd
<1>4. PICK f : f = Step(0, f)
  BY <1>3
<1>5. f = [i \in 0..n |-> f[i]] /\ \A i \in 0..n : f[i] = P[i][IF i = n THEN h ELSE f[i + 1]]
  BY <1>4
<1>6. QED
  BY <1>5 DEF Down

\* What holds at 0, and at a place if it holds at the one before, holds everywhere.
LEMMA FromTheStart ==
  ASSUME NEW n \in Nat, NEW S, 0 \in S, \A k \in 0..n : k # n /\ k \in S => k + 1 \in S
  PROVE  \A k \in 0..n : k \in S
<1> DEFINE Bad == {k \in 0..n : k \notin S}
<1>1. Bad = {}
  <2> SUFFICES ASSUME Bad # {} PROVE FALSE
    OBVIOUS
  <2>1. Bad \in SUBSET Nat
    OBVIOUS
  <2> HIDE DEF Bad
  <2>2. PICK d \in Bad : \A e \in Bad : d <= e
    BY <2>1, LeastNumber
  <2>3. d \in 0..n /\ d \notin S
    BY <2>2 DEF Bad
  <2>4. d # 0
    BY <2>3
  <2>5. d - 1 \in 0..n /\ (d - 1) + 1 = d /\ d - 1 # n
    BY <2>3, <2>4
  <2>6. d - 1 \notin Bad
    BY <2>2, <2>3
  <2>7. d - 1 \in S
    BY <2>5, <2>6 DEF Bad
  <2>8. QED
    BY <2>3, <2>5, <2>7
<1>2. QED
  BY <1>1

-----------------------------------------------------------------------------
(* The inductive invariant *)

LevelsLinked == \A i \in Level : Chained(next[i], Walk(i))

LevelsBelow == \A i \in Level \ {0} : Below(Walk(i), Walk(i - 1))

BottomHoldsAll == \A n : n \in Alive <=> \E r \in DOMAIN Walk(0) : Walk(0)[r] = n

\* The levels are lists, each a part of the one below, and the bottom one has every
\* node; the counters describe them.  Nothing is said of the order of the scores.
IInv ==
  /\ TypeOK
  /\ LevelsLinked /\ LevelsBelow /\ BottomHoldsAll
  /\ CountsExact /\ TopLevelUsed

\* The head of a list has no successor if and only if the list has no node.
LEMMA EmptyLevel ==
  ASSUME NEW nx, NEW L, Chained(nx, L)
  PROVE  nx[HeadNode] = NULL <=> L = <<>>
<1>1. Len(L) \in Nat /\ DOMAIN L = 1..Len(L) /\ L \in Seq(Member)
      /\ Nth(L, 0) = HeadNode /\ Nth(L, Len(L) + 1) = NULL
      /\ \A k \in 0..Len(L) : Nth(L, k) # NULL
  BY ChainPlaces DEF Chained
<1>2. nx[Nth(L, 0)] = Nth(L, 0 + 1)
  <2>1. 0 \in 0..Len(L)
    BY <1>1
  <2>2. QED
    BY <2>1 DEF Chained
<1>3. CASE Len(L) = 0
  BY <1>1, <1>2, <1>3, EmptySeq
<1>4. CASE Len(L) # 0
  <2>1. 1 \in 0..Len(L) /\ L # <<>>
    BY <1>1, <1>4, EmptySeq
  <2>2. QED
    BY <1>1, <1>2, <2>1
<1>5. QED
  BY <1>3, <1>4

\* update[i] as the loop of the search computes it.
LEMMA UpdateEquation ==
  ASSUME maxLevel \in Nat \ {0}, NEW m, NEW s
  PROVE  \A i \in 0..(maxLevel - 1) :
           Update(m, s)[i] =
             Past(next[i], Smaller(m, s))[IF i = maxLevel - 1 THEN HeadNode ELSE Update(m, s)[i + 1]]
<1> DEFINE n == maxLevel - 1
           P == [i \in 0..n |-> Past(next[i], Smaller(m, s))]
           Step(f) == [i \in 0..n |-> Past(next[i], Smaller(m, s))[IF i = n THEN HeadNode ELSE f[i + 1]]]
<1>1. n \in Nat
  OBVIOUS
<1>2. PICK f : Down(f, P, n, HeadNode)
  <2> HIDE DEF n, P
  <2>1. QED
    BY <1>1, DownExists
<1>3. f = Step(f)
  <2> HIDE DEF n
  <2>1. QED
    BY <1>2 DEF Down
<1>4. Update(m, s) = CHOOSE h : h = Step(h)
  BY DEF Update
<1> DEFINE u == Update(m, s)
<1>5. u = Step(u)
  <2> HIDE DEF Step, u
  <2>1. u = CHOOSE h : h = Step(h)
    BY <1>4 DEF u
  <2>2. QED
    BY <1>3, <2>1
<1>6. \A i \in 0..n : u[i] = Past(next[i], Smaller(m, s))[IF i = n THEN HeadNode ELSE u[i + 1]]
  <2> HIDE DEF u, n
  <2>1. QED
    BY <1>5
<1>7. QED
  BY <1>6

\* J has the places at which the search for m with score s stops: one on every level,
\* in line with the one above, 0 on the levels that are not in use.
Stops(m, s, J) ==
  /\ \A i \in Level : StopIn(Walk(i), Smaller(m, s), J[i])
  /\ \A i \in Level \ {0} : Aligned(Walk(i), J[i], Walk(i - 1), J[i - 1])
  /\ \A i \in 0..(maxLevel - 1) : Update(m, s)[i] = Nth(Walk(i), J[i])

\* A search comes down through the levels in line, whatever the order of the scores.
LEMMA SearchDown ==
  ASSUME IInv, NEW m, NEW s
  PROVE  \E J : Stops(m, s, J)
<1> DEFINE n == maxLevel - 1
           B == Smaller(m, s)
           u == Update(m, s)
           J == [i \in Level |-> IF i < maxLevel
                                   THEN CHOOSE k \in 0..Len(Walk(i)) : Nth(Walk(i), k) = u[i]
                                   ELSE 0]
<1>1. n \in Nat /\ n + 1 = maxLevel /\ maxLevel <= MaxLevel /\ 0..n \subseteq Level
      /\ B \in SUBSET Member /\ n \in 0..n
  <2>1. maxLevel \in 1..MaxLevel /\ MaxLevel \in Nat /\ Alive \subseteq Member
    BY SkipListAssumption DEF IInv, TypeOK
  <2>2. B \in SUBSET Member
    BY <2>1 DEF Smaller
  <2>3. QED
    BY <2>1, <2>2 DEF Level
<1>2. \A i \in 0..n : u[i] = Past(next[i], B)[IF i = n THEN HeadNode ELSE u[i + 1]]
  <2>1. maxLevel \in Nat \ {0}
    BY SkipListAssumption DEF IInv, TypeOK
  <2>2. QED
    BY <2>1, UpdateEquation
<1>3. ASSUME NEW i \in Level, ~(i < maxLevel) PROVE Walk(i) = <<>> /\ J[i] = 0
  <2>1. Chained(next[i], Walk(i)) /\ next[i][HeadNode] = NULL
    <3>1. i >= maxLevel
      BY <1>1, <1>3 DEF Level
    <3>2. QED
      BY <3>1 DEF IInv, LevelsLinked, TopLevelUsed
  <2>2. QED
    BY <1>3, <2>1, EmptyLevel
<1>4. ASSUME NEW i \in 0..n, NEW k \in 0..Len(Walk(i)), u[i] = Nth(Walk(i), k)
      PROVE  J[i] = k
  <2>1. Chained(next[i], Walk(i)) /\ i \in Level /\ i < maxLevel
    BY <1>1 DEF IInv, LevelsLinked
  <2>2. Len(Walk(i)) \in Nat
        /\ \A a, b \in 0..(Len(Walk(i)) + 1) : Nth(Walk(i), a) = Nth(Walk(i), b) => a = b
    BY <2>1, ChainPlaces
  <2>3. \A a \in 0..Len(Walk(i)) : Nth(Walk(i), a) = u[i] => a = k
    BY <1>4, <2>2
  <2>4. J[i] = CHOOSE a \in 0..Len(Walk(i)) : Nth(Walk(i), a) = u[i]
    BY <2>1
  <2> HIDE DEF J, u
  <2>5. QED
    BY <1>4, <2>3, <2>4
<1> HIDE DEF n, B, u, J
<1> DEFINE Good(i) == /\ StopIn(Walk(i), B, J[i]) /\ u[i] = Nth(Walk(i), J[i])
                      /\ i < n => Aligned(Walk(i + 1), J[i + 1], Walk(i), J[i])
           S == {i \in 0..n : Good(i)}
<1>5. \A i \in 0..n : i \in S
  <2>1. Good(n)
    <3>1. Chained(next[n], Walk(n))
      BY <1>1 DEF IInv, LevelsLinked
    <3>2. Nth(Walk(n), 0) = HeadNode /\ Len(Walk(n)) \in Nat /\ 0 \in 0..Len(Walk(n))
      BY <3>1, ChainPlaces
    <3>3. PICK k \in StopsAt(Walk(n), B, 0) : Past(next[n], B)[Nth(Walk(n), 0)] = Nth(Walk(n), k)
      <4>1. \A j \in 0..Len(Walk(n)) :
              \E k \in StopsAt(Walk(n), B, j) : Past(next[n], B)[Nth(Walk(n), j)] = Nth(Walk(n), k)
        BY <1>1, <3>1, PastOfChain
      <4>2. QED
        BY <3>2, <4>1
    <3>4. u[n] = Nth(Walk(n), k)
      BY <1>1, <1>2, <3>2, <3>3
    <3>5. k \in 0..Len(Walk(n)) /\ (k < Len(Walk(n)) => Walk(n)[k + 1] \notin B)
          /\ \A i \in 1..k : Walk(n)[i] \in B
      BY <3>3 DEF StopsAt
    <3>6. StopIn(Walk(n), B, k)
      <4>1. k > 0 => k \in 1..k
        BY <3>5
      <4>2. QED
        BY <3>5, <4>1 DEF StopIn
    <3>7. J[n] = k
      BY <1>1, <1>4, <3>4, <3>5
    <3>8. ~(n < n)
      BY <1>1
    <3>9. QED
      BY <3>4, <3>6, <3>7, <3>8
  <2>2. ASSUME NEW i \in 0..n, i # n, Good(i + 1) PROVE Good(i)
    <3>1. i + 1 \in 0..n /\ i \in Level /\ i + 1 \in Level \ {0} /\ (i + 1) - 1 = i
      BY <1>1, <2>2
    <3>2. Chained(next[i], Walk(i)) /\ Chained(next[i + 1], Walk(i + 1))
      BY <3>1 DEF IInv, LevelsLinked
    <3>3. Below(Walk(i + 1), Walk(i))
      <4>1. Below(Walk(i + 1), Walk((i + 1) - 1))
        BY <3>1 DEF IInv, LevelsBelow
      <4>2. QED
        BY <3>1, <4>1
    <3>4. StopIn(Walk(i + 1), B, J[i + 1]) /\ u[i + 1] = Nth(Walk(i + 1), J[i + 1])
      BY <2>2
    <3>5. PICK k : /\ StopIn(Walk(i), B, k)
                   /\ Past(next[i], B)[Nth(Walk(i + 1), J[i + 1])] = Nth(Walk(i), k)
                   /\ Aligned(Walk(i + 1), J[i + 1], Walk(i), k)
      BY <1>1, <3>2, <3>3, <3>4, DownOne
    <3>6. u[i] = Nth(Walk(i), k)
      BY <1>2, <2>2, <3>4, <3>5
    <3>7. J[i] = k
      BY <1>4, <3>5, <3>6 DEF StopIn
    <3>8. QED
      BY <3>5, <3>6, <3>7
  <2>3. n \in S
    BY <1>1, <2>1
  <2>4. ASSUME NEW i \in 0..n, i # n, i + 1 \in S PROVE i \in S
    BY <2>2, <2>4
  <2> HIDE DEF S
  <2>5. QED
    BY <1>1, <2>3, <2>4, FromTheEnd
<1>6. ASSUME NEW i \in Level PROVE StopIn(Walk(i), B, J[i])
  <2>1. CASE i < maxLevel
    <3>1. i \in 0..n
      BY <1>1, <2>1 DEF Level
    <3>2. QED
      BY <1>5, <3>1
  <2>2. CASE ~(i < maxLevel)
    <3>1. Walk(i) = <<>> /\ J[i] = 0
      BY <1>3, <2>2
    <3>2. Len(Walk(i)) = 0
      BY <3>1
    <3>3. QED
      BY <3>1, <3>2 DEF StopIn
  <2>3. QED
    BY <2>1, <2>2
<1>7. ASSUME NEW i \in Level \ {0} PROVE Aligned(Walk(i), J[i], Walk(i - 1), J[i - 1])
  <2>1. CASE i < maxLevel
    <3>1. i - 1 \in 0..n /\ i - 1 < n /\ (i - 1) + 1 = i
      BY <1>1, <2>1 DEF Level
    <3>2. i - 1 \in S
      BY <1>5, <3>1
    <3>3. Good(i - 1)
      BY <3>2
    <3>4. Aligned(Walk((i - 1) + 1), J[(i - 1) + 1], Walk(i - 1), J[i - 1])
      BY <3>1, <3>3
    <3>5. QED
      BY <3>1, <3>4
  <2>2. CASE ~(i < maxLevel)
    <3>1. Walk(i) = <<>>
      BY <1>3, <2>2
    <3>2. DOMAIN Walk(i) = {}
      BY <3>1
    <3>3. QED
      BY <3>2 DEF Aligned
  <2>3. QED
    BY <2>1, <2>2
<1>8. \A i \in 0..n : u[i] = Nth(Walk(i), J[i])
  BY <1>5
<1>9. Stops(m, s, J)
  BY <1>6, <1>7, <1>8 DEF Stops, B, u, n
<1>10. QED
  BY <1>9

-----------------------------------------------------------------------------
(* A node more or less on a list *)

\* The place in a list of what is at place r without the one at place p.
Skip(p, r) == IF r < p THEN r ELSE r + 1

\* L is M without the node at place p.
Without(M, p, L) ==
  /\ M \in Seq(Member) /\ L \in Seq(Member)
  /\ Len(M) = Len(L) + 1 /\ p \in 1..Len(M)
  /\ \A r \in 1..Len(L) : L[r] = M[Skip(p, r)]

\* Skip runs through all places but p, in order.
LEMMA SkipProperties ==
  ASSUME NEW n \in Nat, NEW p \in 1..(n + 1)
  PROVE  /\ \A r \in 1..n : Skip(p, r) \in 1..(n + 1) /\ Skip(p, r) # p
                            /\ (r < p <=> Skip(p, r) < p)
         /\ \A r, q \in 1..n : r < q <=> Skip(p, r) < Skip(p, q)
         /\ \A y \in 1..(n + 1) : y # p => \E r \in 1..n : y = Skip(p, r)
<1>1. \A r \in 1..n : Skip(p, r) \in 1..(n + 1) /\ Skip(p, r) # p
                      /\ (r < p <=> Skip(p, r) < p)
  BY DEF Skip
<1>2. \A r, q \in 1..n : r < q <=> Skip(p, r) < Skip(p, q)
  BY DEF Skip
<1>3. ASSUME NEW y \in 1..(n + 1), y # p PROVE \E r \in 1..n : y = Skip(p, r)
  <2>1. CASE y < p
    <3>1. y \in 1..n /\ y = Skip(p, y)
      BY <2>1 DEF Skip
    <3>2. QED
      BY <3>1
  <2>2. CASE ~(y < p)
    <3>1. y - 1 \in 1..n /\ ~(y - 1 < p) /\ (y - 1) + 1 = y
      BY <1>3, <2>2
    <3>2. y = Skip(p, y - 1)
      BY <3>1 DEF Skip
    <3>3. QED
      BY <3>1, <3>2
  <2>3. QED
    BY <2>1, <2>2
<1>4. QED
  BY <1>1, <1>2, <1>3

\* The places of the longer sequence are p and those that Skip gives.
LEMMA WithoutProperties ==
  ASSUME NEW M, NEW L, NEW p, Without(M, p, L)
  PROVE  /\ Len(L) \in Nat /\ DOMAIN L = 1..Len(L) /\ DOMAIN M = 1..Len(M)
         /\ Len(M) = Len(L) + 1 /\ p \in 1..(Len(L) + 1) /\ p \in DOMAIN M
         /\ \A r \in DOMAIN L : L[r] = M[Skip(p, r)] /\ Skip(p, r) \in DOMAIN M
                                /\ Skip(p, r) # p /\ (r < p <=> Skip(p, r) < p)
         /\ \A r, q \in DOMAIN L : r < q <=> Skip(p, r) < Skip(p, q)
         /\ \A y \in DOMAIN M : y # p => \E r \in DOMAIN L : y = Skip(p, r)
<1>1. /\ Len(L) \in Nat /\ DOMAIN L = 1..Len(L) /\ DOMAIN M = 1..Len(M)
      /\ Len(M) = Len(L) + 1 /\ p \in 1..(Len(L) + 1)
  BY LenProperties DEF Without
<1>2. \A r \in DOMAIN L : L[r] = M[Skip(p, r)]
  BY <1>1 DEF Without
<1>3. /\ \A r \in DOMAIN L : Skip(p, r) \in DOMAIN M
                             /\ Skip(p, r) # p /\ (r < p <=> Skip(p, r) < p)
      /\ \A r, q \in DOMAIN L : r < q <=> Skip(p, r) < Skip(p, q)
      /\ \A y \in DOMAIN M : y # p => \E r \in DOMAIN L : y = Skip(p, r)
  <2> DEFINE n == Len(L)
  <2>1. n \in Nat /\ p \in 1..(n + 1) /\ DOMAIN L = 1..n /\ DOMAIN M = 1..(n + 1)
    BY <1>1
  <2> HIDE DEF n
  <2>2. /\ \A r \in 1..n : Skip(p, r) \in 1..(n + 1) /\ Skip(p, r) # p
                           /\ (r < p <=> Skip(p, r) < p)
        /\ \A r, q \in 1..n : r < q <=> Skip(p, r) < Skip(p, q)
        /\ \A y \in 1..(n + 1) : y # p => \E r \in 1..n : y = Skip(p, r)
    BY <2>1, SkipProperties
  <2>3. QED
    BY <2>1, <2>2
<1>4. QED
  BY <1>1, <1>2, <1>3

\* There is a list with a node more, and one with a node less.
LEMMA WithExists ==
  ASSUME NEW L \in Seq(Member), NEW j \in 0..Len(L), NEW m \in Member
  PROVE  \E M : Without(M, j + 1, L) /\ M[j + 1] = m
<1> DEFINE n == Len(L) + 1
           e(r) == IF r <= j THEN L[r] ELSE IF r = j + 1 THEN m ELSE L[r - 1]
           M == [r \in 1..n |-> e(r)]
<1>1. Len(L) \in Nat /\ \A r \in 1..Len(L) : L[r] \in Member
  BY LenProperties, ElementOfSeq
<1>2. n \in Nat /\ j + 1 \in 1..n
  BY <1>1
<1>3. \A r \in 1..n : e(r) \in Member
  <2> TAKE r \in 1..n
  <2>1. (r <= j => r \in 1..Len(L)) /\ (r > j + 1 => r - 1 \in 1..Len(L))
    BY <1>1
  <2>2. r <= j \/ r = j + 1 \/ r > j + 1
    BY <1>1
  <2>3. QED
    BY <1>1, <2>1, <2>2
<1>4. M \in Seq(Member)
  <2> HIDE DEF n, e
  <2>1. QED
    BY <1>2, <1>3, IsASeq
<1>5. Len(M) = n
  <2>1. DOMAIN M = 1..n
    OBVIOUS
  <2> HIDE DEF M, n
  <2>2. QED
    BY <1>2, <1>4, <2>1, LenProperties
<1>6. M[j + 1] = m
  BY <1>1, <1>2
<1>7. ASSUME NEW r \in 1..Len(L) PROVE L[r] = M[Skip(j + 1, r)]
  <2>1. CASE r <= j
    <3>1. Skip(j + 1, r) = r /\ r \in 1..n
      BY <1>1, <2>1 DEF Skip
    <3>2. QED
      BY <2>1, <3>1
  <2>2. CASE ~(r <= j)
    <3>1. Skip(j + 1, r) = r + 1 /\ r + 1 \in 1..n /\ ~(r + 1 <= j) /\ r + 1 # j + 1
          /\ (r + 1) - 1 = r
      BY <1>1, <2>2 DEF Skip
    <3>2. QED
      BY <3>1
  <2>3. QED
    BY <2>1, <2>2
<1>8. Without(M, j + 1, L)
  <2> HIDE DEF M
  <2>1. QED
    BY <1>2, <1>4, <1>5, <1>7 DEF Without
<1>9. QED
  BY <1>6, <1>8

\* Any node can be taken out of a sequence.
LEMMA WithoutExists ==
  ASSUME NEW M \in Seq(Member), NEW p \in 1..Len(M)
  PROVE  \E L : Without(M, p, L)
<1> DEFINE n == Len(M) - 1
           L == [r \in 1..n |-> M[Skip(p, r)]]
<1>1. Len(M) \in Nat /\ \A r \in 1..Len(M) : M[r] \in Member
  BY LenProperties, ElementOfSeq
<1>2. n \in Nat /\ n + 1 = Len(M) /\ p \in 1..(n + 1)
  BY <1>1
<1> HIDE DEF n
<1>3. \A r \in 1..n : M[Skip(p, r)] \in Member
  BY <1>1, <1>2, SkipProperties
<1>4. L \in Seq(Member)
  BY <1>2, <1>3, IsASeq
<1>5. Len(L) = n
  <2>1. DOMAIN L = 1..n
    OBVIOUS
  <2> HIDE DEF L
  <2>2. QED
    BY <1>2, <1>4, <2>1, LenProperties
<1>6. \A r \in 1..n : L[r] = M[Skip(p, r)]
  OBVIOUS
<1> HIDE DEF L
<1>7. Without(M, p, L)
  BY <1>2, <1>4, <1>5, <1>6 DEF Without
<1>8. QED
  BY <1>7

\* A node put on two levels, in line, keeps the upper one a part of the lower one.
LEMMA BelowBoth ==
  ASSUME NEW L, NEW K, NEW M, NEW N, NEW j \in Int, NEW k \in Int,
         Below(L, K), Aligned(L, j, K, k),
         Without(M, j + 1, L), Without(N, k + 1, K), M[j + 1] = N[k + 1],
         \A r \in DOMAIN L : L[r] # M[j + 1], \A q \in DOMAIN K : K[q] # M[j + 1]
  PROVE  Below(M, N)
<1>1. /\ DOMAIN L \subseteq Int /\ j + 1 \in DOMAIN M
      /\ \A r \in DOMAIN L : L[r] = M[Skip(j + 1, r)] /\ Skip(j + 1, r) \in DOMAIN M
                             /\ (r < j + 1 <=> Skip(j + 1, r) < j + 1)
      /\ \A r, q \in DOMAIN L : r < q <=> Skip(j + 1, r) < Skip(j + 1, q)
      /\ \A y \in DOMAIN M : y # j + 1 => \E r \in DOMAIN L : y = Skip(j + 1, r)
      /\ DOMAIN M \subseteq Int
  BY WithoutProperties
<1>2. /\ DOMAIN K \subseteq Int /\ k + 1 \in DOMAIN N
      /\ \A r \in DOMAIN K : K[r] = N[Skip(k + 1, r)] /\ Skip(k + 1, r) \in DOMAIN N
                             /\ (r < k + 1 <=> Skip(k + 1, r) < k + 1) /\ Skip(k + 1, r) # k + 1
      /\ \A r, q \in DOMAIN K : r < q <=> Skip(k + 1, r) < Skip(k + 1, q)
      /\ \A y \in DOMAIN N : y # k + 1 => \E r \in DOMAIN K : y = Skip(k + 1, r)
      /\ DOMAIN N \subseteq Int
  BY WithoutProperties
<1>3. ASSUME NEW r \in DOMAIN M PROVE \E q \in DOMAIN N : M[r] = N[q]
  <2>1. CASE r = j + 1
    BY <1>2, <2>1
  <2>2. CASE r # j + 1
    <3>1. PICK x \in DOMAIN L : r = Skip(j + 1, x) /\ M[r] = L[x]
      BY <1>1, <2>2
    <3>2. PICK y \in DOMAIN K : L[x] = K[y]
      BY DEF Below
    <3>3. M[r] = N[Skip(k + 1, y)] /\ Skip(k + 1, y) \in DOMAIN N
      BY <1>2, <3>1, <3>2
    <3>4. QED
      BY <3>3
  <2>3. QED
    BY <2>1, <2>2
<1>4. ASSUME NEW r \in DOMAIN M, NEW q \in DOMAIN M, NEW a \in DOMAIN N, NEW b \in DOMAIN N,
             M[r] = N[a], M[q] = N[b], r < q
      PROVE  a < b
  <2>1. ASSUME NEW y \in DOMAIN M, NEW z \in DOMAIN N, M[y] = N[z]
        PROVE  \/ y = j + 1 /\ z = k + 1
               \/ \E x \in DOMAIN L, w \in DOMAIN K :
                    L[x] = K[w] /\ y = Skip(j + 1, x) /\ z = Skip(k + 1, w)
    <3>1. CASE y = j + 1
      <4>1. z # k + 1 => \E w \in DOMAIN K : K[w] = N[z]
        BY <1>2
      <4>2. z = k + 1
        BY <2>1, <3>1, <4>1
      <4>3. QED
        BY <3>1, <4>2
    <3>2. CASE y # j + 1
      <4>1. PICK x \in DOMAIN L : y = Skip(j + 1, x) /\ M[y] = L[x]
        BY <1>1, <3>2
      <4>2. z # k + 1
        BY <2>1, <4>1
      <4>3. PICK w \in DOMAIN K : z = Skip(k + 1, w) /\ N[z] = K[w]
        BY <1>2, <4>2
      <4>4. QED
        BY <2>1, <4>1, <4>3
    <3>3. QED
      BY <3>1, <3>2
  <2>2. \/ r = j + 1 /\ a = k + 1
        \/ \E x \in DOMAIN L, w \in DOMAIN K :
             L[x] = K[w] /\ r = Skip(j + 1, x) /\ a = Skip(k + 1, w)
    BY <1>4, <2>1
  <2>3. \/ q = j + 1 /\ b = k + 1
        \/ \E x \in DOMAIN L, w \in DOMAIN K :
             L[x] = K[w] /\ q = Skip(j + 1, x) /\ b = Skip(k + 1, w)
    BY <1>4, <2>1
  <2>4. CASE r = j + 1 /\ a = k + 1
    <3>1. q # j + 1
      BY <1>1, <1>4, <2>4
    <3>2. PICK x \in DOMAIN L, w \in DOMAIN K :
             L[x] = K[w] /\ q = Skip(j + 1, x) /\ b = Skip(k + 1, w)
      BY <2>3, <3>1
    <3>3. ~(x <= j)
      <4>1. ~(x < j + 1)
        BY <1>1, <1>4, <2>4, <3>2
      <4>2. x \in Int
        BY <1>1
      <4>3. QED
        BY <4>1, <4>2
    <3>4. ~(w <= k)
      BY <3>2, <3>3 DEF Aligned
    <3>5. ~(b < k + 1) /\ b # k + 1
      <4>1. ~(w < k + 1)
        BY <1>2, <3>4
      <4>2. QED
        BY <1>2, <3>2, <4>1
    <3>6. QED
      BY <1>2, <2>4, <3>5
  <2>5. ASSUME NEW x \in DOMAIN L, NEW w \in DOMAIN K,
               L[x] = K[w], r = Skip(j + 1, x), a = Skip(k + 1, w)
        PROVE  a < b
    <3>1. CASE q = j + 1 /\ b = k + 1
      <4>1. x < j + 1
        BY <1>1, <1>4, <2>5, <3>1
      <4>2. x <= j
        BY <1>1, <4>1
      <4>3. w <= k
        BY <2>5, <4>2 DEF Aligned
      <4>4. w < k + 1
        BY <1>2, <4>3
      <4>5. QED
        BY <1>2, <2>5, <3>1, <4>4
    <3>2. ASSUME NEW y \in DOMAIN L, NEW z \in DOMAIN K,
                 L[y] = K[z], q = Skip(j + 1, y), b = Skip(k + 1, z)
          PROVE  a < b
      <4>1. x < y
        BY <1>1, <1>4, <2>5, <3>2
      <4>2. w < z
        BY <2>5, <3>2, <4>1 DEF Below
      <4>3. QED
        BY <1>2, <2>5, <3>2, <4>2
    <3>3. QED
      BY <2>3, <3>1, <3>2
  <2>6. QED
    BY <2>2, <2>4, <2>5
<1>5. QED
  BY <1>3, <1>4 DEF Below

\* A node put on the lower level only.
LEMMA BelowLower ==
  ASSUME NEW L, NEW K, NEW N, NEW p, Below(L, K), Without(N, p, K),
         \A r \in DOMAIN L : L[r] # N[p]
  PROVE  Below(L, N)
<1>1. /\ \A r \in DOMAIN K : K[r] = N[Skip(p, r)] /\ Skip(p, r) \in DOMAIN N
      /\ \A r, q \in DOMAIN K : r < q <=> Skip(p, r) < Skip(p, q)
      /\ \A y \in DOMAIN N : y # p => \E r \in DOMAIN K : y = Skip(p, r)
  BY WithoutProperties
<1>2. ASSUME NEW r \in DOMAIN L PROVE \E q \in DOMAIN N : L[r] = N[q]
  <2>1. PICK q \in DOMAIN K : L[r] = K[q]
    BY DEF Below
  <2>2. QED
    BY <1>1, <2>1
<1>3. ASSUME NEW r \in DOMAIN L, NEW q \in DOMAIN L, NEW a \in DOMAIN N, NEW b \in DOMAIN N,
             L[r] = N[a], L[q] = N[b], r < q
      PROVE  a < b
  <2>1. PICK x \in DOMAIN K : a = Skip(p, x)
    BY <1>1, <1>3
  <2>2. PICK y \in DOMAIN K : b = Skip(p, y)
    BY <1>1, <1>3
  <2>3. L[r] = K[x] /\ L[q] = K[y]
    BY <1>1, <1>3, <2>1, <2>2
  <2>4. x < y
    BY <1>3, <2>3 DEF Below
  <2>5. QED
    BY <1>1, <2>1, <2>2, <2>4
<1>4. QED
  BY <1>2, <1>3 DEF Below

\* A node taken off two levels, or off the lower one if the upper one has it not.
LEMMA BelowWithout ==
  ASSUME NEW L, NEW K, NEW M, NEW N, NEW p, NEW t, Below(M, N),
         \/ Without(M, p, L) /\ Distinct(M) /\ M[p] = N[t]
         \/ L = M /\ \A r \in DOMAIN M : M[r] # N[t],
         Without(N, t, K)
  PROVE  Below(L, K)
<1> DEFINE at(r) == IF L = M /\ \A i \in DOMAIN M : M[i] # N[t] THEN r ELSE Skip(p, r)
<1>1. /\ \A r \in DOMAIN K : K[r] = N[Skip(t, r)] /\ Skip(t, r) \in DOMAIN N
      /\ \A r, q \in DOMAIN K : r < q <=> Skip(t, r) < Skip(t, q)
      /\ \A y \in DOMAIN N : y # t => \E r \in DOMAIN K : y = Skip(t, r)
  BY WithoutProperties
<1>2. /\ \A r \in DOMAIN L : at(r) \in DOMAIN M /\ L[r] = M[at(r)] /\ L[r] # N[t]
      /\ \A r, q \in DOMAIN L : r < q => at(r) < at(q)
  <2>1. CASE L = M /\ \A r \in DOMAIN M : M[r] # N[t]
    BY <2>1
  <2>2. CASE ~(L = M /\ \A r \in DOMAIN M : M[r] # N[t])
    <3>1. Without(M, p, L) /\ Distinct(M) /\ M[p] = N[t]
      BY <2>2
    <3>2. /\ p \in DOMAIN M
          /\ \A r \in DOMAIN L : L[r] = M[Skip(p, r)] /\ Skip(p, r) \in DOMAIN M /\ Skip(p, r) # p
          /\ \A r, q \in DOMAIN L : r < q <=> Skip(p, r) < Skip(p, q)
      BY <3>1, WithoutProperties
    <3>3. \A r \in DOMAIN L : L[r] # N[t]
      BY <3>1, <3>2 DEF Distinct
    <3>4. \A r : at(r) = Skip(p, r)
      BY <2>2
    <3> HIDE DEF at
    <3>5. QED
      BY <3>2, <3>3, <3>4
  <2>3. QED
    BY <2>1, <2>2
<1> HIDE DEF at
<1>3. ASSUME NEW r \in DOMAIN L PROVE \E q \in DOMAIN K : L[r] = K[q]
  <2>1. PICK y \in DOMAIN N : M[at(r)] = N[y]
    BY <1>2 DEF Below
  <2>2. y # t
    BY <1>2, <2>1
  <2>3. QED
    BY <1>1, <1>2, <2>1, <2>2
<1>4. ASSUME NEW r \in DOMAIN L, NEW q \in DOMAIN L, NEW a \in DOMAIN K, NEW b \in DOMAIN K,
             L[r] = K[a], L[q] = K[b], r < q
      PROVE  a < b
  <2>1. /\ at(r) \in DOMAIN M /\ at(q) \in DOMAIN M /\ at(r) < at(q)
        /\ Skip(t, a) \in DOMAIN N /\ Skip(t, b) \in DOMAIN N
        /\ M[at(r)] = N[Skip(t, a)] /\ M[at(q)] = N[Skip(t, b)]
    BY <1>1, <1>2, <1>4
  <2>2. Skip(t, a) < Skip(t, b)
    BY <2>1 DEF Below
  <2>3. QED
    BY <1>1, <2>2
<1>5. QED
  BY <1>3, <1>4 DEF Below

\* Where the places before and after the node are.
LEMMA NthWithout ==
  ASSUME NEW L, NEW M, NEW j \in 0..Len(L), Without(M, j + 1, L)
  PROVE  /\ Len(L) \in Nat /\ Len(M) = Len(L) + 1
         /\ \A k \in 0..j : Nth(M, k) = Nth(L, k)
         /\ Nth(M, j + 1) = M[j + 1]
         /\ \A k \in (j + 1)..(Len(L) + 1) : Nth(M, k + 1) = Nth(L, k)
<1>1. /\ Len(L) \in Nat /\ DOMAIN L = 1..Len(L) /\ DOMAIN M = 1..(Len(L) + 1)
      /\ Len(M) = Len(L) + 1
      /\ \A r \in DOMAIN L : L[r] = M[Skip(j + 1, r)]
  BY WithoutProperties
<1>2. ASSUME NEW k \in 0..j PROVE Nth(M, k) = Nth(L, k)
  <2>1. CASE k = 0
    BY <2>1 DEF Nth
  <2>2. CASE k # 0
    <3>1. k \in DOMAIN L /\ k \in DOMAIN M /\ Skip(j + 1, k) = k
      BY <1>1, <2>2 DEF Skip
    <3>2. QED
      BY <1>1, <2>2, <3>1 DEF Nth
  <2>3. QED
    BY <2>1, <2>2
<1>3. Nth(M, j + 1) = M[j + 1]
  BY <1>1 DEF Nth
<1>4. ASSUME NEW k \in (j + 1)..(Len(L) + 1) PROVE Nth(M, k + 1) = Nth(L, k)
  <2>1. k # 0 /\ k + 1 # 0 /\ k \in Int
    BY <1>1
  <2>2. CASE k = Len(L) + 1
    <3>1. k \notin DOMAIN L /\ k + 1 \notin DOMAIN M
      BY <1>1, <2>2
    <3>2. QED
      BY <2>1, <3>1 DEF Nth
  <2>3. CASE k # Len(L) + 1
    <3>1. k \in DOMAIN L /\ k + 1 \in DOMAIN M /\ Skip(j + 1, k) = k + 1
      BY <1>1, <2>3 DEF Skip
    <3>2. QED
      BY <1>1, <2>1, <3>1 DEF Nth
  <2>4. QED
    BY <2>2, <2>3
<1>5. QED
  BY <1>1, <1>2, <1>3, <1>4

\* Linking a node in after place j of a list.
LEMMA LinkIn ==
  ASSUME NEW nx, NEW L, NEW M, NEW m \in Member, NEW j \in 0..Len(L),
         Chained(nx, L), \A r \in DOMAIN L : L[r] # m,
         Without(M, j + 1, L), M[j + 1] = m
  PROVE  Chained([nx EXCEPT ![Nth(L, j)] = m, ![m] = nx[Nth(L, j)]], M)
<1> DEFINE b == Nth(L, j)
           ny == [nx EXCEPT ![b] = m, ![m] = nx[b]]
<1>1. /\ Len(L) \in Nat /\ DOMAIN L = 1..Len(L)
      /\ \A k \in 1..Len(L) : Nth(L, k) = L[k]
      /\ \A k \in 0..Len(L) : Nth(L, k) \in Node /\ Nth(L, k) # NULL
      /\ \A i, k \in 0..(Len(L) + 1) : Nth(L, i) = Nth(L, k) => i = k
      /\ Nth(L, 0) = HeadNode
  BY ChainPlaces
<1>2. /\ Len(M) = Len(L) + 1
      /\ \A k \in 0..j : Nth(M, k) = Nth(L, k)
      /\ Nth(M, j + 1) = m
      /\ \A k \in (j + 1)..(Len(L) + 1) : Nth(M, k + 1) = Nth(L, k)
  BY NthWithout
<1>3. /\ nx \in [Node -> Member \cup {NULL}]
      /\ \A k \in 0..Len(L) : nx[Nth(L, k)] = Nth(L, k + 1)
      /\ \A n \in Member : (\A k \in DOMAIN L : L[k] # n) => nx[n] = NULL
  BY DEF Chained
<1>4. m \in Node /\ b \in Node /\ m # HeadNode
  BY <1>1, SkipListAssumption DEF Node
<1>5. \A k \in 0..Len(L) : Nth(L, k) # m
  <2> TAKE k \in 0..Len(L)
  <2>1. k = 0 \/ k \in 1..Len(L)
    BY <1>1
  <2>2. QED
    BY <1>1, <1>4, <2>1
<1>6. /\ ny \in [Node -> Member \cup {NULL}]
      /\ ny[b] = m /\ ny[m] = nx[b]
      /\ \A n \in Node : n # m /\ n # b => ny[n] = nx[n]
  <2>1. b # m
    BY <1>5
  <2> HIDE DEF b
  <2>2. QED
    BY <1>3, <1>4, <2>1
<1> HIDE DEF ny
<1>7. M \in Seq(Member) /\ Distinct(M)
  <2>1. /\ \A r \in DOMAIN L : L[r] = M[Skip(j + 1, r)]
        /\ \A y \in DOMAIN M : y # j + 1 => \E r \in DOMAIN L : y = Skip(j + 1, r)
    BY WithoutProperties
  <2>2. \A y \in DOMAIN M : y # j + 1 => M[y] # m
    BY <2>1
  <2>3. ASSUME NEW y \in DOMAIN M, NEW z \in DOMAIN M, M[y] = M[z] PROVE y = z
    <3>1. CASE y = j + 1 \/ z = j + 1
      BY <2>2, <2>3, <3>1
    <3>2. CASE y # j + 1 /\ z # j + 1
      <4>1. PICK r \in DOMAIN L : y = Skip(j + 1, r)
        BY <2>1, <3>2
      <4>2. PICK q \in DOMAIN L : z = Skip(j + 1, q)
        BY <2>1, <3>2
      <4>3. L[r] = L[q]
        BY <2>1, <2>3, <4>1, <4>2
      <4>4. r = q
        BY <4>3 DEF Chained, Distinct
      <4>5. QED
        BY <4>1, <4>2, <4>4
    <3>3. QED
      BY <3>1, <3>2
  <2>4. QED
    BY <2>3 DEF Distinct, Without
<1>8. ASSUME NEW k \in 0..Len(M) PROVE ny[Nth(M, k)] = Nth(M, k + 1)
  <2>1. k \in 0..(Len(L) + 1) /\ j \in 0..Len(L) /\ Len(L) \in Nat
    BY <1>1, <1>2
  <2>2. CASE k < j
    <3>1. k \in 0..j /\ k + 1 \in 0..j /\ k \in 0..Len(L) /\ k \in 0..(Len(L) + 1)
          /\ j \in 0..(Len(L) + 1) /\ k # j
      BY <2>1, <2>2
    <3>2. Nth(L, k) # b /\ Nth(L, k) # m
      BY <1>1, <1>5, <3>1
    <3>3. ny[Nth(L, k)] = Nth(L, k + 1)
      BY <1>1, <1>3, <1>6, <3>1, <3>2
    <3>4. QED
      BY <1>2, <3>1, <3>3
  <2>3. CASE k = j
    <3>1. j \in 0..j
      BY <2>1
    <3>2. QED
      BY <1>2, <1>6, <2>3, <3>1
  <2>4. CASE k = j + 1
    <3>1. nx[b] = Nth(L, j + 1) /\ j + 1 \in (j + 1)..(Len(L) + 1)
      BY <1>3, <2>1
    <3>2. QED
      BY <1>2, <1>6, <2>4, <3>1
  <2>5. CASE k > j + 1
    <3>1. k - 1 \in (j + 1)..(Len(L) + 1) /\ k \in (j + 1)..(Len(L) + 1) /\ (k - 1) + 1 = k
          /\ k - 1 \in 0..Len(L) /\ k - 1 \in 0..(Len(L) + 1)
          /\ j \in 0..(Len(L) + 1) /\ k - 1 # j
      BY <2>1, <2>5
    <3>2. Nth(L, k - 1) # b /\ Nth(L, k - 1) # m
      BY <1>1, <1>5, <3>1
    <3>3. ny[Nth(L, k - 1)] = Nth(L, k)
      <4>1. nx[Nth(L, k - 1)] = Nth(L, (k - 1) + 1)
        BY <1>3, <3>1
      <4>2. QED
        BY <1>1, <1>6, <3>1, <3>2, <4>1
    <3>4. Nth(M, (k - 1) + 1) = Nth(L, k - 1) /\ Nth(M, k + 1) = Nth(L, k)
      BY <1>2, <3>1
    <3>5. QED
      BY <3>1, <3>3, <3>4
  <2>6. QED
    BY <2>1, <2>2, <2>3, <2>4, <2>5
<1>9. ASSUME NEW n \in Member, \A y \in DOMAIN M : M[y] # n PROVE ny[n] = NULL
  <2>1. \A r \in DOMAIN L : L[r] = M[Skip(j + 1, r)] /\ Skip(j + 1, r) \in DOMAIN M
    BY WithoutProperties
  <2>2. \A r \in DOMAIN L : L[r] # n
    BY <1>9, <2>1
  <2>3. n # m
    <3>1. j + 1 \in DOMAIN M
      BY WithoutProperties
    <3>2. QED
      BY <1>9, <3>1
  <2>4. n # b
    <3>1. j = 0 \/ j \in 1..Len(L)
      BY <1>1
    <3>2. b = HeadNode \/ \E r \in DOMAIN L : b = L[r]
      BY <1>1, <3>1
    <3>3. QED
      BY <2>2, <3>2, SkipListAssumption
  <2>5. QED
    BY <1>3, <1>6, <2>2, <2>3, <2>4 DEF Node
<1>10. Chained(ny, M)
  BY <1>6, <1>7, <1>8, <1>9 DEF Chained
<1>11. QED
  BY <1>10 DEF ny

\* Linking the node at place j + 1 out of a list.
LEMMA LinkOut ==
  ASSUME NEW nx, NEW L, NEW M, NEW m \in Member, NEW j \in 0..Len(L),
         Chained(nx, M), Without(M, j + 1, L), M[j + 1] = m
  PROVE  Chained([nx EXCEPT ![Nth(M, j)] = nx[m], ![m] = NULL], L)
<1> DEFINE b == Nth(M, j)
           ny == [nx EXCEPT ![b] = nx[m], ![m] = NULL]
<1>1. /\ Len(M) \in Nat /\ DOMAIN M = 1..Len(M)
      /\ \A k \in 1..Len(M) : Nth(M, k) = M[k]
      /\ \A k \in 0..Len(M) : Nth(M, k) \in Node
      /\ \A i, k \in 0..(Len(M) + 1) : Nth(M, i) = Nth(M, k) => i = k
      /\ Nth(M, 0) = HeadNode
  BY ChainPlaces
<1>2. /\ Len(L) \in Nat /\ Len(M) = Len(L) + 1
      /\ \A k \in 0..j : Nth(M, k) = Nth(L, k)
      /\ Nth(M, j + 1) = m
      /\ \A k \in (j + 1)..(Len(L) + 1) : Nth(M, k + 1) = Nth(L, k)
  BY NthWithout
<1>3. /\ nx \in [Node -> Member \cup {NULL}]
      /\ \A k \in 0..Len(M) : nx[Nth(M, k)] = Nth(M, k + 1)
      /\ \A n \in Member : (\A k \in DOMAIN M : M[k] # n) => nx[n] = NULL
  BY DEF Chained
<1>4. m \in Node /\ b \in Node /\ b # m
  <2>1. j \in 0..(Len(M) + 1) /\ j + 1 \in 0..(Len(M) + 1) /\ j # j + 1 /\ j \in 0..Len(M)
    BY <1>2
  <2>2. b # Nth(M, j + 1)
    BY <1>1, <2>1
  <2>3. QED
    BY <1>1, <1>2, <2>1, <2>2 DEF Node
<1>5. /\ ny \in [Node -> Member \cup {NULL}]
      /\ ny[b] = nx[m] /\ ny[m] = NULL
      /\ \A n \in Node : n # m /\ n # b => ny[n] = nx[n]
  <2> HIDE DEF b
  <2>1. QED
    BY <1>3, <1>4
<1> HIDE DEF ny
<1>6. /\ DOMAIN L = 1..Len(L)
      /\ \A r \in DOMAIN L : L[r] = M[Skip(j + 1, r)] /\ Skip(j + 1, r) \in DOMAIN M
                             /\ Skip(j + 1, r) # j + 1
      /\ \A r, q \in DOMAIN L : r < q <=> Skip(j + 1, r) < Skip(j + 1, q)
      /\ \A y \in DOMAIN M : y # j + 1 => \E r \in DOMAIN L : y = Skip(j + 1, r)
  BY WithoutProperties
<1>7. \A y, z \in DOMAIN M : M[y] = M[z] => y = z
  BY DEF Chained, Distinct
<1>8. L \in Seq(Member) /\ Distinct(L)
  <2>1. ASSUME NEW r \in DOMAIN L, NEW q \in DOMAIN L, L[r] = L[q] PROVE r = q
    <3>1. Skip(j + 1, r) = Skip(j + 1, q)
      BY <1>6, <1>7, <2>1
    <3>2. ~(Skip(j + 1, r) < Skip(j + 1, q)) /\ ~(Skip(j + 1, q) < Skip(j + 1, r))
      BY <1>1, <1>6, <3>1
    <3>3. ~(r < q) /\ ~(q < r)
      BY <1>6, <3>2
    <3>4. QED
      BY <1>2, <1>6, <3>3
  <2>2. QED
    BY <2>1 DEF Distinct, Without
<1>9. ASSUME NEW k \in 0..Len(L) PROVE ny[Nth(L, k)] = Nth(L, k + 1)
  <2>1. k \in 0..Len(L) /\ j \in 0..Len(L) /\ Len(L) \in Nat /\ Len(M) = Len(L) + 1
    BY <1>2
  <2>2. CASE k < j
    <3>1. k \in 0..j /\ k + 1 \in 0..j /\ k \in 0..Len(M) /\ k \in 0..(Len(M) + 1)
          /\ j \in 0..(Len(M) + 1) /\ j + 1 \in 0..(Len(M) + 1) /\ k # j /\ k # j + 1
      BY <2>1, <2>2
    <3>2. Nth(M, k) # b /\ Nth(M, k) # m
      BY <1>1, <1>2, <3>1
    <3>3. ny[Nth(M, k)] = Nth(M, k + 1)
      BY <1>1, <1>3, <1>5, <3>1, <3>2
    <3>4. QED
      BY <1>2, <3>1, <3>3
  <2>3. CASE k = j
    <3>1. j \in 0..j /\ j + 1 \in (j + 1)..(Len(L) + 1) /\ j + 1 \in 0..Len(M)
      BY <2>1
    <3>2. nx[m] = Nth(M, (j + 1) + 1)
      BY <1>2, <1>3, <3>1
    <3>3. Nth(M, (j + 1) + 1) = Nth(L, j + 1) /\ b = Nth(L, j)
      BY <1>2, <3>1
    <3>4. QED
      BY <1>5, <2>3, <3>2, <3>3
  <2>4. CASE k > j
    <3>1. k \in (j + 1)..(Len(L) + 1) /\ k + 1 \in (j + 1)..(Len(L) + 1)
          /\ k + 1 \in 0..Len(M) /\ k + 1 \in 0..(Len(M) + 1)
          /\ j \in 0..(Len(M) + 1) /\ j + 1 \in 0..(Len(M) + 1) /\ k + 1 # j /\ k + 1 # j + 1
      BY <2>1, <2>4
    <3>2. Nth(M, k + 1) # b /\ Nth(M, k + 1) # m
      BY <1>1, <1>2, <3>1
    <3>3. ny[Nth(M, k + 1)] = Nth(M, (k + 1) + 1)
      BY <1>1, <1>3, <1>5, <3>1, <3>2
    <3>4. Nth(M, k + 1) = Nth(L, k) /\ Nth(M, (k + 1) + 1) = Nth(L, k + 1)
      BY <1>2, <3>1
    <3>5. QED
      BY <3>3, <3>4
  <2>5. QED
    BY <2>1, <2>2, <2>3, <2>4
<1>10. ASSUME NEW n \in Member, \A r \in DOMAIN L : L[r] # n PROVE ny[n] = NULL
  <2>1. CASE n = m
    BY <1>5, <2>1
  <2>2. CASE n # m
    <3>1. \A y \in DOMAIN M : M[y] # n
      <4> TAKE y \in DOMAIN M
      <4>1. CASE y = j + 1
        BY <1>1, <1>2, <2>2, <4>1
      <4>2. CASE y # j + 1
        BY <1>6, <1>10, <4>2
      <4>3. QED
        BY <4>1, <4>2
    <3>2. n # b
      <4>1. j = 0 \/ j \in 1..Len(M)
        BY <1>2
      <4>2. b = HeadNode \/ \E r \in DOMAIN M : b = M[r]
        BY <1>1, <4>1
      <4>3. QED
        BY <3>1, <4>2, SkipListAssumption
    <3>3. QED
      BY <1>3, <1>5, <2>2, <3>1, <3>2 DEF Node
  <2>3. QED
    BY <2>1, <2>2
<1>11. Chained(ny, L)
  BY <1>5, <1>8, <1>9, <1>10 DEF Chained
<1>12. QED
  BY <1>11 DEF ny

-----------------------------------------------------------------------------
(* ZADD *)

On(n, i) == \E r \in DOMAIN Walk(i) : Walk(i)[r] = n

\* A node that is on a level is on all those below.
LEMMA OnLower ==
  ASSUME LevelsBelow, NEW n, NEW i \in Level, On(n, i)
  PROVE  \A k \in 0..i : On(n, k)
<1> DEFINE S == {k \in 0..i : On(n, k)}
<1>1. i \in Nat /\ i \in S /\ 0..i \subseteq Level
  BY SkipListAssumption DEF Level
<1>2. ASSUME NEW k \in 0..i, k # i, k + 1 \in S PROVE k \in S
  <2>1. k + 1 \in Level \ {0} /\ (k + 1) - 1 = k
    <3>1. i \in Nat /\ 0..i \subseteq Level /\ k \in 0..i /\ k # i
      BY <1>1, <1>2
    <3>2. k + 1 \in 0..i /\ k + 1 # 0 /\ (k + 1) - 1 = k
      BY <3>1
    <3>3. QED
      BY <3>1, <3>2
  <2>2. Below(Walk(k + 1), Walk((k + 1) - 1))
    BY <2>1 DEF LevelsBelow
  <2>3. Below(Walk(k + 1), Walk(k))
    BY <2>1, <2>2
  <2>4. PICK r \in DOMAIN Walk(k + 1) : Walk(k + 1)[r] = n
    BY <1>2 DEF On
  <2>5. PICK q \in DOMAIN Walk(k) : Walk(k + 1)[r] = Walk(k)[q]
    BY <2>3 DEF Below
  <2>6. On(n, k)
    BY <2>4, <2>5 DEF On
  <2>7. QED
    BY <2>6
<1> HIDE DEF S
<1>3. \A k \in 0..i : k \in S
  BY <1>1, <1>2, FromTheEnd
<1>4. QED
  BY <1>3 DEF S

\* The levels that are not in use are empty, and a search is at their head.
LEMMA UnusedLevels ==
  ASSUME IInv, NEW i \in Level, ~(i < maxLevel)
  PROVE  Walk(i) = <<>>
<1>1. i >= maxLevel
  BY SkipListAssumption DEF IInv, TypeOK, Level
<1>2. next[i][HeadNode] = NULL /\ Chained(next[i], Walk(i))
  BY <1>1 DEF IInv, TopLevelUsed, LevelsLinked
<1>3. QED
  BY <1>2, EmptyLevel

\* A walk over a list that a step makes.
LEMMA WalkAfter ==
  ASSUME NEW i, NEW L, Chained(next'[i], L)
  PROVE  Walk(i)' = L
<1>1. From(next'[i])[next'[i][HeadNode]] = L
  BY WalkOfChain
<1>2. QED
  BY <1>1 DEF Walk, From

\* What ZADD of a new member makes of the levels.
LEMMA ZaddLevels ==
  ASSUME IInv, NEW m \in Member, NEW s \in Score, NEW h \in 1..MaxLevel, ZaddNew(m, s, h)
  PROVE  \E J :
           /\ Stops(m, s, J)
           /\ \A i \in Level : J[i] \in Nat
           /\ \A i \in Level : \A r \in DOMAIN Walk(i) : Walk(i)[r] # m
           /\ \A i \in Level : Chained(next'[i], Walk(i)')
           /\ \A i \in Level : i < h =>
                Without(Walk(i)', J[i] + 1, Walk(i)) /\ Walk(i)'[J[i] + 1] = m
           /\ \A i \in Level : ~(i < h) => Walk(i)' = Walk(i) /\ next'[i] = next[i]
<1>1. ~Found(m)
  BY DEF ZaddNew
<1>2. ASSUME NEW i \in Level, NEW r \in DOMAIN Walk(i) PROVE Walk(i)[r] # m
  <2>1. On(m, i) => \A k \in 0..i : On(m, k)
    BY OnLower DEF IInv
  <2>2. 0 \in 0..i
    BY SkipListAssumption DEF Level
  <2>3. On(m, i) => On(m, 0)
    BY <2>1, <2>2
  <2>4. QED
    BY <1>1, <2>3 DEF On, Found
<1>3. PICK J : Stops(m, s, J)
  BY SearchDown
<1> DEFINE u == Update(m, s)
           before(i) == IF i < maxLevel THEN u[i] ELSE HeadNode
<1>4. \A i \in Level : J[i] \in 0..Len(Walk(i)) /\ Len(Walk(i)) \in Nat /\ J[i] \in Nat
  <2> TAKE i \in Level
  <2>1. J[i] \in 0..Len(Walk(i))
    BY <1>3 DEF Stops, StopIn
  <2>2. Len(Walk(i)) \in Nat
    BY ChainPlaces DEF IInv, LevelsLinked
  <2>3. QED
    BY <2>1, <2>2
<1>5. ASSUME NEW i \in Level PROVE before(i) = Nth(Walk(i), J[i])
  <2>1. CASE i < maxLevel
    <3>1. i \in 0..(maxLevel - 1)
      BY <2>1, SkipListAssumption DEF Level, IInv, TypeOK
    <3>2. QED
      BY <1>3, <2>1, <3>1 DEF Stops
  <2>2. CASE ~(i < maxLevel)
    <3>1. Walk(i) = <<>>
      BY <2>2, UnusedLevels
    <3>2. J[i] = 0
      BY <1>4, <3>1
    <3>3. QED
      BY <2>2, <3>2 DEF Nth
  <2>3. QED
    BY <2>1, <2>2
<1>6. next' = [i \in Level |->
                 IF i < h THEN [next[i] EXCEPT ![before(i)] = m, ![m] = next[i][before(i)]]
                          ELSE next[i]]
  BY DEF ZaddNew
<1> HIDE DEF before
<1>7. ASSUME NEW i \in Level, i < h
      PROVE  /\ Chained(next'[i], Walk(i)')
             /\ Without(Walk(i)', J[i] + 1, Walk(i)) /\ Walk(i)'[J[i] + 1] = m
  <2>1. Chained(next[i], Walk(i)) /\ Walk(i) \in Seq(Member)
    BY DEF IInv, LevelsLinked, Chained
  <2>2. PICK M : Without(M, J[i] + 1, Walk(i)) /\ M[J[i] + 1] = m
    BY <1>4, <2>1, WithExists
  <2>3. next'[i] = [next[i] EXCEPT ![before(i)] = m, ![m] = next[i][before(i)]]
    BY <1>6, <1>7
  <2>4. next'[i] = [next[i] EXCEPT ![Nth(Walk(i), J[i])] = m, ![m] = next[i][Nth(Walk(i), J[i])]]
    BY <1>5, <2>3
  <2>5. Chained([next[i] EXCEPT ![Nth(Walk(i), J[i])] = m, ![m] = next[i][Nth(Walk(i), J[i])]], M)
    BY <1>2, <1>4, <2>1, <2>2, LinkIn
  <2>6. Chained(next'[i], M)
    BY <2>4, <2>5
  <2>7. Walk(i)' = M
    BY <2>6, WalkAfter
  <2>8. QED
    BY <2>2, <2>6, <2>7
<1>8. ASSUME NEW i \in Level, ~(i < h)
      PROVE  Chained(next'[i], Walk(i)') /\ Walk(i)' = Walk(i) /\ next'[i] = next[i]
  <2>1. next'[i] = next[i]
    BY <1>6, <1>8
  <2>2. Chained(next[i], Walk(i))
    BY DEF IInv, LevelsLinked
  <2>3. Chained(next'[i], Walk(i))
    BY <2>1, <2>2
  <2>4. Walk(i)' = Walk(i)
    BY <2>3, WalkAfter
  <2>5. QED
    BY <2>1, <2>3, <2>4
<1>9. QED
  BY <1>2, <1>3, <1>4, <1>7, <1>8

\* sl_insert of a new node: on each of its levels it comes after the place where the
\* search stopped, and these places are in line, so that the levels stay nested.
LEMMA ZaddNewKeepsIInv ==
  ASSUME IInv, NEW m \in Member, NEW s \in Score, NEW h \in 1..MaxLevel, ZaddNew(m, s, h)
  PROVE  IInv'
<1>1. PICK J :
        /\ Stops(m, s, J)
        /\ \A i \in Level : J[i] \in Nat
        /\ \A i \in Level : \A r \in DOMAIN Walk(i) : Walk(i)[r] # m
        /\ \A i \in Level : Chained(next'[i], Walk(i)')
        /\ \A i \in Level : i < h =>
             Without(Walk(i)', J[i] + 1, Walk(i)) /\ Walk(i)'[J[i] + 1] = m
        /\ \A i \in Level : ~(i < h) => Walk(i)' = Walk(i) /\ next'[i] = next[i]
  BY ZaddLevels
<1>2. /\ TypeOK /\ MaxLevel \in Nat \ {0} /\ Level = 0..(MaxLevel - 1) /\ h \in 1..MaxLevel
      /\ 0 \in Level /\ 0 < h
  BY SkipListAssumption DEF IInv, Level
<1>3. LevelsLinked'
  BY <1>1 DEF LevelsLinked, Level
<1>4. LevelsBelow'
  <2>1. ASSUME NEW i \in Level \ {0} PROVE Below(Walk(i)', Walk(i - 1)')
    <3>1. i - 1 \in Level /\ i \in Level /\ (i < h => i - 1 < h) /\ i \in Int
      BY <1>2
    <3>2. Below(Walk(i), Walk(i - 1)) /\ Aligned(Walk(i), J[i], Walk(i - 1), J[i - 1])
      BY <1>1 DEF IInv, LevelsBelow, Stops
    <3>3. CASE i < h
      <4>1. /\ Without(Walk(i)', J[i] + 1, Walk(i)) /\ Walk(i)'[J[i] + 1] = m
            /\ Without(Walk(i - 1)', J[i - 1] + 1, Walk(i - 1)) /\ Walk(i - 1)'[J[i - 1] + 1] = m
            /\ J[i] \in Int /\ J[i - 1] \in Int
            /\ \A r \in DOMAIN Walk(i) : Walk(i)[r] # m
            /\ \A r \in DOMAIN Walk(i - 1) : Walk(i - 1)[r] # m
        BY <1>1, <3>1, <3>3
      <4>2. QED
        BY <3>2, <4>1, BelowBoth
    <3>4. CASE ~(i < h) /\ i - 1 < h
      <4>1. /\ Walk(i)' = Walk(i)
            /\ Without(Walk(i - 1)', J[i - 1] + 1, Walk(i - 1)) /\ Walk(i - 1)'[J[i - 1] + 1] = m
            /\ \A r \in DOMAIN Walk(i) : Walk(i)[r] # m
        BY <1>1, <3>1, <3>4
      <4>2. QED
        BY <3>2, <4>1, BelowLower
    <3>5. CASE ~(i < h) /\ ~(i - 1 < h)
      BY <1>1, <3>1, <3>2, <3>5
    <3>6. QED
      BY <3>3, <3>4, <3>5
  <2>2. QED
    BY <2>1 DEF LevelsBelow, Level
<1>5. Without(Walk(0)', J[0] + 1, Walk(0)) /\ Walk(0)'[J[0] + 1] = m
  BY <1>1, <1>2
<1>6. Alive' = Alive \cup {m}
  BY DEF ZaddNew, Alive
<1>7. BottomHoldsAll'
  <2>1. /\ J[0] + 1 \in DOMAIN Walk(0)'
        /\ \A r \in DOMAIN Walk(0) : Walk(0)[r] = Walk(0)'[Skip(J[0] + 1, r)]
                                     /\ Skip(J[0] + 1, r) \in DOMAIN Walk(0)'
        /\ \A y \in DOMAIN Walk(0)' : y # J[0] + 1 => \E r \in DOMAIN Walk(0) : y = Skip(J[0] + 1, r)
    BY <1>5, WithoutProperties
  <2>2. \A n : n \in Alive <=> \E r \in DOMAIN Walk(0) : Walk(0)[r] = n
    BY DEF IInv, BottomHoldsAll
  <2>3. ASSUME NEW n, n \in Alive' PROVE \E y \in DOMAIN Walk(0)' : Walk(0)'[y] = n
    <3>1. CASE n = m
      BY <1>5, <2>1, <3>1
    <3>2. CASE n # m
      BY <1>6, <2>1, <2>2, <2>3, <3>2
    <3>3. QED
      BY <3>1, <3>2
  <2>4. ASSUME NEW y \in DOMAIN Walk(0)' PROVE Walk(0)'[y] \in Alive'
    <3>1. CASE y = J[0] + 1
      BY <1>5, <1>6, <3>1
    <3>2. CASE y # J[0] + 1
      <4>1. PICK r \in DOMAIN Walk(0) : y = Skip(J[0] + 1, r)
        BY <2>1, <3>2
      <4>2. Walk(0)[r] \in Alive
        BY <2>2
      <4>3. QED
        BY <1>6, <2>1, <4>1, <4>2
    <3>3. QED
      BY <3>1, <3>2
  <2>5. \A n : n \in Alive' <=> \E y \in DOMAIN Walk(0)' : Walk(0)'[y] = n
    BY <2>3, <2>4
  <2>6. QED
    BY <2>5 DEF BottomHoldsAll
<1>8. \A i \in Level : /\ i < h => Len(Walk(i)') = Len(Walk(i)) + 1
                       /\ Len(Walk(i)) \in Nat /\ Len(Walk(i)') \in Nat
  <2> TAKE i \in Level
  <2>1. Len(Walk(i)) \in Nat
    BY ChainPlaces DEF IInv, LevelsLinked
  <2>2. Len(Walk(i)') \in Nat
    BY <1>1, ChainPlaces
  <2>3. QED
    BY <1>1, <2>1, <2>2 DEF Without
<1>9. CountsExact'
  <2>1. /\ count = Len(Walk(0)) /\ \A i \in Level : levelCount[i] = Len(Walk(i))
    BY DEF IInv, CountsExact
  <2>2. count' = count + 1
        /\ levelCount' = [i \in Level |-> levelCount[i] + IF i < h THEN 1 ELSE 0]
    BY DEF ZaddNew
  <2>3. count' = Len(Walk(0)')
    BY <1>2, <1>8, <2>1, <2>2
  <2>4. ASSUME NEW i \in Level PROVE levelCount'[i] = Len(Walk(i)')
    <3>1. CASE i < h
      BY <1>8, <2>1, <2>2, <3>1
    <3>2. CASE ~(i < h)
      <4>1. Walk(i)' = Walk(i) /\ Len(Walk(i)) \in Nat
        BY <1>1, <1>8, <3>2
      <4>2. levelCount'[i] = levelCount[i] + 0
        BY <2>2, <3>2
      <4>3. QED
        BY <2>1, <4>1, <4>2
    <3>3. QED
      BY <3>1, <3>2
  <2>5. QED
    BY <2>3, <2>4 DEF CountsExact, Level
<1>10. maxLevel' = (IF h > maxLevel THEN h ELSE maxLevel) /\ maxLevel \in 1..MaxLevel
       /\ maxLevel' \in 1..MaxLevel
  BY <1>2 DEF ZaddNew, TypeOK
<1>11. TopLevelUsed'
  <2>1. ASSUME NEW i \in Level, i < h PROVE next'[i][HeadNode] # NULL
    <3>1. Len(Walk(i)') = Len(Walk(i)) + 1 /\ Len(Walk(i)) \in Nat
      BY <1>8, <2>1
    <3>2. Walk(i)' # <<>>
      BY <3>1
    <3>3. QED
      BY <1>1, <3>2, EmptyLevel
  <2>2. ASSUME maxLevel' > 1 PROVE next'[maxLevel' - 1][HeadNode] # NULL
    <3> DEFINE i == maxLevel' - 1
    <3>1. i \in Level
      BY <1>2, <1>10
    <3>2. CASE i < h
      BY <2>1, <3>1, <3>2
    <3>3. CASE ~(i < h)
      <4>1. maxLevel' = maxLevel
        BY <1>2, <1>10, <3>3
      <4>2. next[maxLevel - 1][HeadNode] # NULL
        BY <2>2, <4>1 DEF IInv, TopLevelUsed
      <4>3. next'[i] = next[i]
        BY <1>1, <3>1, <3>3
      <4>4. QED
        BY <4>1, <4>2, <4>3
    <3>4. QED
      BY <3>2, <3>3
  <2>3. ASSUME NEW i \in Level, i >= maxLevel' PROVE next'[i][HeadNode] = NULL
    <3>1. i >= maxLevel /\ ~(i < h)
      BY <1>2, <1>10, <2>3
    <3>2. next[i][HeadNode] = NULL
      BY <3>1 DEF IInv, TopLevelUsed
    <3>3. QED
      BY <1>1, <3>1, <3>2
  <2>4. QED
    BY <2>2, <2>3 DEF TopLevelUsed, Level
<1>12. TypeOK'
  <2>1. next' \in [Level -> [Node -> Member \cup {NULL}]]
    <3>1. \A i \in Level : next'[i] \in [Node -> Member \cup {NULL}]
      BY <1>1 DEF Chained
    <3>2. next' = [i \in Level |-> next'[i]]
      BY DEF ZaddNew
    <3>3. QED
      BY <3>1, <3>2
  <2>2. Alive' \subseteq Member /\ \A n \in Alive' : score'[n] \in Score
    <3>1. score' = [n \in Alive \cup {m} |-> IF n = m THEN s ELSE score[n]]
      BY DEF ZaddNew
    <3>2. Alive \subseteq Member /\ \A n \in Alive : score[n] \in Score
      BY <1>2 DEF TypeOK
    <3>3. QED
      BY <1>6, <3>1, <3>2
  <2>3. count' \in Nat /\ levelCount' \in [Level -> Nat]
    <3>1. count' = count + 1
          /\ levelCount' = [i \in Level |-> levelCount[i] + IF i < h THEN 1 ELSE 0]
      BY DEF ZaddNew
    <3>2. count \in Nat /\ levelCount \in [Level -> Nat]
      BY <1>2 DEF TypeOK
    <3>3. QED
      BY <3>1, <3>2
  <2>4. QED
    BY <1>10, <2>1, <2>2, <2>3 DEF TypeOK, Level, Node
<1>13. QED
  BY <1>3, <1>4, <1>7, <1>9, <1>11, <1>12 DEF IInv

-----------------------------------------------------------------------------
(* ZREM *)

\* max_level comes down to the highest level in use.
LEMMA LevelsUsedProperties ==
  ASSUME NEW nx, maxLevel \in Nat \ {0}
  PROVE  /\ LevelsUsed(nx) \in 1..maxLevel
         /\ LevelsUsed(nx) = 1 \/ nx[LevelsUsed(nx) - 1][HeadNode] # NULL
         /\ \A j \in (LevelsUsed(nx) + 1)..maxLevel : nx[j - 1][HeadNode] = NULL
<1> DEFINE used(l) == l = 1 \/ nx[l - 1][HeadNode] # NULL
           D == {d \in 0..(maxLevel - 1) : used(maxLevel - d)}
<1>1. D \in SUBSET Nat /\ D # {}
  <2>1. maxLevel - 1 \in 0..(maxLevel - 1) /\ maxLevel - (maxLevel - 1) = 1
    OBVIOUS
  <2>2. maxLevel - 1 \in D
    BY <2>1
  <2>3. D \in SUBSET Nat
    OBVIOUS
  <2> HIDE DEF D
  <2>4. QED
    BY <2>2, <2>3
<1> HIDE DEF D, used
<1>2. PICK d \in D : \A e \in D : d <= e
  BY <1>1, LeastNumber
<1> DEFINE k == maxLevel - d
<1>3. k \in 1..maxLevel /\ used(k)
  BY <1>2 DEF D
<1>4. ASSUME NEW j \in (k + 1)..maxLevel PROVE nx[j - 1][HeadNode] = NULL
  <2>1. d \in 0..(maxLevel - 1)
    BY <1>2 DEF D
  <2>2. maxLevel - j \in 0..(maxLevel - 1) /\ ~(d <= maxLevel - j) /\ j # 1
        /\ maxLevel - (maxLevel - j) = j
    BY <2>1
  <2>3. maxLevel - j \notin D
    BY <1>2, <2>2
  <2>4. ~used(j)
    BY <2>2, <2>3 DEF D
  <2>5. QED
    BY <2>4 DEF used
<1>5. \E l \in 1..maxLevel : /\ l = 1 \/ nx[l - 1][HeadNode] # NULL
                             /\ \A j \in (l + 1)..maxLevel : nx[j - 1][HeadNode] = NULL
  BY <1>3, <1>4 DEF used
<1>6. QED
  BY <1>5 DEF LevelsUsed

\* What ZREM makes of the levels: it takes the node off every level that it is on.
LEMMA ZremLevels ==
  ASSUME IInv, NEW m \in Member, Zrem(m)
  PROVE  \E J :
           /\ \A i \in Level : i \in Unlinked(m) <=> On(m, i)
           /\ \A i \in Level : J[i] + 1 \in Int
           /\ \A i \in Level : Chained(next'[i], Walk(i)')
           /\ \A i \in Level : On(m, i) =>
                Without(Walk(i), J[i] + 1, Walk(i)') /\ Walk(i)[J[i] + 1] = m
           /\ \A i \in Level : ~On(m, i) => Walk(i)' = Walk(i) /\ next'[i] = next[i]
<1> DEFINE u == Update(m, score[m])
<1>1. PICK J : Stops(m, score[m], J)
  BY SearchDown
<1>2. /\ Found(m) /\ next[0][u[0]] = m
      /\ next' = [i \in Level |->
                    IF i \in Unlinked(m)
                    THEN [next[i] EXCEPT ![u[i]] = next[i][m], ![m] = NULL]
                    ELSE next[i]]
  BY DEF Zrem, Target
<1> HIDE DEF u
<1>3. /\ maxLevel \in 1..MaxLevel /\ MaxLevel \in Nat \ {0} /\ Level = 0..(MaxLevel - 1)
      /\ 0 \in Level /\ 0..(maxLevel - 1) \subseteq Level /\ 0 \in 0..(maxLevel - 1)
  BY SkipListAssumption DEF IInv, TypeOK, Level
<1>4. ASSUME NEW i \in Level
      PROVE  /\ Chained(next[i], Walk(i))
             /\ Len(Walk(i)) \in Nat /\ DOMAIN Walk(i) = 1..Len(Walk(i))
             /\ \A k \in 1..Len(Walk(i)) : Nth(Walk(i), k) = Walk(i)[k]
             /\ Nth(Walk(i), Len(Walk(i)) + 1) = NULL
             /\ J[i] \in 0..Len(Walk(i))
             /\ next[i][Nth(Walk(i), J[i])] = Nth(Walk(i), J[i] + 1)
             /\ \A r, q \in DOMAIN Walk(i) : Walk(i)[r] = Walk(i)[q] => r = q
  <2>1. Chained(next[i], Walk(i))
    BY DEF IInv, LevelsLinked
  <2>2. /\ Len(Walk(i)) \in Nat /\ DOMAIN Walk(i) = 1..Len(Walk(i))
        /\ \A k \in 1..Len(Walk(i)) : Nth(Walk(i), k) = Walk(i)[k]
        /\ Nth(Walk(i), Len(Walk(i)) + 1) = NULL
    BY <2>1, ChainPlaces
  <2>3. J[i] \in 0..Len(Walk(i))
    BY <1>1 DEF Stops, StopIn
  <2>4. next[i][Nth(Walk(i), J[i])] = Nth(Walk(i), J[i] + 1)
    BY <2>1, <2>3 DEF Chained
  <2>5. \A r, q \in DOMAIN Walk(i) : Walk(i)[r] = Walk(i)[q] => r = q
    BY <2>1 DEF Chained, Distinct
  <2>6. QED
    BY <2>1, <2>2, <2>3, <2>4, <2>5
<1>5. \A i \in 0..(maxLevel - 1) : u[i] = Nth(Walk(i), J[i])
  BY <1>1 DEF Stops, u
\* The successor of the node before is m where the place after it is m's.
<1>6. ASSUME NEW i \in Level, Nth(Walk(i), J[i] + 1) = m
      PROVE  J[i] + 1 \in DOMAIN Walk(i) /\ Walk(i)[J[i] + 1] = m
  <2>1. J[i] + 1 # Len(Walk(i)) + 1
    BY <1>4, <1>6, SkipListAssumption
  <2>2. J[i] + 1 \in 1..Len(Walk(i))
    BY <1>4, <2>1
  <2>3. QED
    BY <1>4, <1>6, <2>2
<1> DEFINE Here(i) == J[i] + 1 \in DOMAIN Walk(i) /\ Walk(i)[J[i] + 1] = m
           S == {i \in Level : On(m, i) => Here(i)}
<1>7. \A i \in Level : On(m, i) => Here(i)
  <2>1. Here(0)
    <3>1. Nth(Walk(0), J[0] + 1) = m
      BY <1>2, <1>3, <1>4, <1>5
    <3>2. QED
      BY <1>3, <1>6, <3>1
  <2>2. ASSUME NEW i \in Level, i # MaxLevel - 1, On(m, i) => Here(i), On(m, i + 1)
        PROVE  Here(i + 1)
    <3> DEFINE L == Walk(i + 1)
               K == Walk(i)
               j == J[i + 1]
               k == J[i]
    <3>1. i + 1 \in Level \ {0} /\ (i + 1) - 1 = i /\ i + 1 \in Level /\ i \in 0..(i + 1)
      BY <1>3, <2>2
    <3>2. Below(L, K) /\ Aligned(L, j, K, k)
      <4>1. Below(Walk(i + 1), Walk((i + 1) - 1))
            /\ Aligned(Walk(i + 1), J[i + 1], Walk((i + 1) - 1), J[(i + 1) - 1])
        BY <1>1, <3>1 DEF IInv, LevelsBelow, Stops
      <4>2. QED
        BY <3>1, <4>1
    <3>3. On(m, i)
      BY <2>2, <3>1, OnLower DEF IInv
    <3>4. k + 1 \in DOMAIN K /\ K[k + 1] = m
      BY <2>2, <3>3
    <3>5. PICK r \in DOMAIN L : L[r] = m
      BY <2>2 DEF On
    <3>6. /\ DOMAIN L = 1..Len(L) /\ Len(L) \in Nat /\ j \in 0..Len(L)
          /\ DOMAIN K = 1..Len(K) /\ Len(K) \in Nat /\ k \in 0..Len(K)
      BY <1>4, <3>1
    <3> HIDE DEF L, K, j, k
    <3>7. ~(r <= j)
      <4>1. ~(k + 1 <= k)
        BY <3>6
      <4>2. QED
        BY <3>2, <3>4, <3>5, <4>1 DEF Aligned
    <3>8. ~(j + 1 < r)
      <4> SUFFICES ASSUME j + 1 < r PROVE FALSE
        OBVIOUS
      <4>1. j + 1 \in DOMAIN L /\ ~(j + 1 <= j)
        BY <3>6
      <4>2. PICK q \in DOMAIN K : L[j + 1] = K[q]
        BY <3>2, <4>1 DEF Below
      <4>3. q < k + 1
        BY <3>2, <3>4, <3>5, <4>1, <4>2 DEF Below
      <4>4. q <= k
        BY <3>6, <4>3
      <4>5. QED
        BY <3>2, <4>1, <4>2, <4>4 DEF Aligned
    <3>9. r = j + 1
      BY <3>6, <3>7, <3>8
    <3>10. QED
      BY <3>5, <3>9 DEF L, j
  <2>3. 0 \in S
    BY <1>3, <2>1
  <2>4. ASSUME NEW i \in 0..(MaxLevel - 1), i # MaxLevel - 1, i \in S PROVE i + 1 \in S
    <3>1. i + 1 \in Level
      BY <1>3, <2>4
    <3>2. QED
      BY <1>3, <2>2, <2>4, <3>1
  <2> HIDE DEF S
  <2>5. \A i \in 0..(MaxLevel - 1) : i \in S
    <3> DEFINE n == MaxLevel - 1
    <3>1. n \in Nat
      BY <1>3
    <3>2. \A i \in 0..n : i # n /\ i \in S => i + 1 \in S
      BY <2>4
    <3> HIDE DEF n
    <3>3. \A i \in 0..n : i \in S
      BY <2>3, <3>1, <3>2, FromTheStart
    <3>4. QED
      BY <3>3 DEF n
  <2>6. QED
    BY <1>3, <2>5 DEF S
<1>8. \A i \in Level : On(m, i) => i < maxLevel
  <2> TAKE i \in Level
  <2>1. ~(i < maxLevel) => Walk(i) = <<>>
    BY UnusedLevels
  <2>2. Walk(i) = <<>> => DOMAIN Walk(i) = {}
    OBVIOUS
  <2>3. QED
    BY <2>1, <2>2 DEF On
<1>9. Unlinked(m) = {i \in 0..(maxLevel - 1) : \A j \in 0..i : next[j][u[j]] = m}
  BY DEF Unlinked, u
<1>10. ASSUME NEW i \in Level PROVE i \in Unlinked(m) <=> On(m, i)
  <2>1. ASSUME i \in Unlinked(m) PROVE On(m, i)
    <3>1. i \in 0..(maxLevel - 1) /\ i \in 0..i
      BY <1>3, <1>9, <2>1
    <3>2. next[i][u[i]] = m
      BY <1>9, <2>1, <3>1
    <3>3. Nth(Walk(i), J[i] + 1) = m
      BY <1>4, <1>5, <3>1, <3>2
    <3>4. QED
      BY <1>6, <3>3 DEF On
  <2>2. ASSUME On(m, i) PROVE i \in Unlinked(m)
    <3>1. i \in 0..(maxLevel - 1)
      BY <1>3, <1>8, <2>2
    <3>2. ASSUME NEW j \in 0..i PROVE next[j][u[j]] = m
      <4>1. j \in 0..(maxLevel - 1) /\ j \in Level
        BY <1>3, <3>1
      <4>2. On(m, j)
        BY <2>2, OnLower DEF IInv
      <4>3. J[j] + 1 \in DOMAIN Walk(j) /\ Walk(j)[J[j] + 1] = m
        BY <1>7, <4>1, <4>2
      <4>4. Nth(Walk(j), J[j] + 1) = m
        BY <1>4, <4>1, <4>3
      <4>5. QED
        BY <1>4, <1>5, <4>1, <4>4
    <3>3. QED
      BY <1>9, <3>1, <3>2
  <2>3. QED
    BY <2>1, <2>2
<1>11. ASSUME NEW i \in Level, On(m, i)
       PROVE  /\ Chained(next'[i], Walk(i)')
              /\ Without(Walk(i), J[i] + 1, Walk(i)') /\ Walk(i)[J[i] + 1] = m
  <2>1. J[i] + 1 \in DOMAIN Walk(i) /\ Walk(i)[J[i] + 1] = m
    BY <1>7, <1>11
  <2>2. Walk(i) \in Seq(Member) /\ J[i] + 1 \in 1..Len(Walk(i)) /\ Len(Walk(i)) \in Nat
    BY <1>4, <2>1 DEF Chained
  <2>3. PICK L : Without(Walk(i), J[i] + 1, L)
    BY <2>2, WithoutExists
  <2>4. i \in 0..(maxLevel - 1)
    BY <1>3, <1>8, <1>11
  <2>5. next'[i] = [next[i] EXCEPT ![Nth(Walk(i), J[i])] = next[i][m], ![m] = NULL]
    BY <1>2, <1>5, <1>10, <1>11, <2>4
  <2>6. J[i] \in 0..Len(L)
    <3>1. Len(Walk(i)) = Len(L) + 1 /\ Len(L) \in Nat
      BY <2>3, WithoutProperties
    <3>2. QED
      BY <1>4, <2>2, <3>1
  <2>7. Chained([next[i] EXCEPT ![Nth(Walk(i), J[i])] = next[i][m], ![m] = NULL], L)
    BY <1>4, <2>1, <2>3, <2>6, LinkOut
  <2>8. Chained(next'[i], L)
    BY <2>5, <2>7
  <2>9. Walk(i)' = L
    BY <2>8, WalkAfter
  <2>10. QED
    BY <2>1, <2>3, <2>8, <2>9
<1>12. ASSUME NEW i \in Level, ~On(m, i)
       PROVE  Chained(next'[i], Walk(i)') /\ Walk(i)' = Walk(i) /\ next'[i] = next[i]
  <2>1. next'[i] = next[i]
    BY <1>2, <1>10, <1>12
  <2>2. Chained(next'[i], Walk(i))
    BY <1>4, <2>1
  <2>3. Walk(i)' = Walk(i)
    BY <2>2, WalkAfter
  <2>4. QED
    BY <2>1, <2>2, <2>3
<1>13. \A i \in Level : J[i] + 1 \in Int
  <2> TAKE i \in Level
  <2>1. J[i] \in 0..Len(Walk(i))
    BY <1>4
  <2>2. QED
    BY <2>1
<1>14. QED
  BY <1>10, <1>11, <1>12, <1>13

\* sl_delete: the loop unlinks the node from exactly the levels it is on, and max_level
\* comes down to the highest that still has a node.
LEMMA ZremKeepsIInv ==
  ASSUME IInv, NEW m \in Member, Zrem(m)
  PROVE  IInv'
<1>1. PICK J :
        /\ \A i \in Level : i \in Unlinked(m) <=> On(m, i)
        /\ \A i \in Level : J[i] + 1 \in Int
        /\ \A i \in Level : Chained(next'[i], Walk(i)')
        /\ \A i \in Level : On(m, i) =>
             Without(Walk(i), J[i] + 1, Walk(i)') /\ Walk(i)[J[i] + 1] = m
        /\ \A i \in Level : ~On(m, i) => Walk(i)' = Walk(i) /\ next'[i] = next[i]
  BY ZremLevels
<1>2. /\ TypeOK /\ MaxLevel \in Nat \ {0} /\ Level = 0..(MaxLevel - 1) /\ 0 \in Level
      /\ On(m, 0)
  <2>1. On(m, 0)
    BY DEF Zrem, Found, On
  <2>2. QED
    BY <2>1, SkipListAssumption DEF IInv, Level
<1>3. LevelsLinked'
  BY <1>1 DEF LevelsLinked, Level
<1>4. LevelsBelow'
  <2>1. ASSUME NEW i \in Level \ {0} PROVE Below(Walk(i)', Walk(i - 1)')
    <3>1. i - 1 \in Level /\ i \in Level /\ i - 1 \in 0..i
      BY <1>2
    <3>2. Below(Walk(i), Walk(i - 1))
      BY DEF IInv, LevelsBelow
    <3>3. On(m, i) => On(m, i - 1)
      BY <3>1, OnLower DEF IInv
    <3>4. Distinct(Walk(i))
      BY DEF IInv, LevelsLinked, Chained
    <3>5. CASE On(m, i)
      <4>1. /\ Without(Walk(i), J[i] + 1, Walk(i)') /\ Walk(i)[J[i] + 1] = m
            /\ Without(Walk(i - 1), J[i - 1] + 1, Walk(i - 1)') /\ Walk(i - 1)[J[i - 1] + 1] = m
        BY <1>1, <3>1, <3>3, <3>5
      <4>2. QED
        BY <3>2, <3>4, <4>1, BelowWithout
    <3>6. CASE ~On(m, i) /\ On(m, i - 1)
      <4>1. /\ Walk(i)' = Walk(i) /\ \A r \in DOMAIN Walk(i) : Walk(i)[r] # m
            /\ Without(Walk(i - 1), J[i - 1] + 1, Walk(i - 1)') /\ Walk(i - 1)[J[i - 1] + 1] = m
        BY <1>1, <3>1, <3>6 DEF On
      <4>2. QED
        BY <3>2, <4>1, BelowWithout
    <3>7. CASE ~On(m, i - 1)
      <4>1. Walk(i)' = Walk(i) /\ Walk(i - 1)' = Walk(i - 1)
        BY <1>1, <3>1, <3>3, <3>7
      <4>2. QED
        BY <3>2, <4>1
    <3>8. QED
      BY <3>5, <3>6, <3>7
  <2>2. QED
    BY <2>1 DEF LevelsBelow, Level
<1>5. Without(Walk(0), J[0] + 1, Walk(0)') /\ Walk(0)[J[0] + 1] = m
  BY <1>1, <1>2
<1>6. score' = [n \in Alive \ {m} |-> score[n]] /\ Alive' = Alive \ {m}
  BY DEF Zrem, Alive, Restrict
<1>7. BottomHoldsAll'
  <2>1. /\ J[0] + 1 \in DOMAIN Walk(0)
        /\ \A r \in DOMAIN Walk(0)' : /\ Walk(0)'[r] = Walk(0)[Skip(J[0] + 1, r)]
                                      /\ Skip(J[0] + 1, r) \in DOMAIN Walk(0)
                                      /\ Skip(J[0] + 1, r) # J[0] + 1
        /\ \A y \in DOMAIN Walk(0) : y # J[0] + 1 => \E r \in DOMAIN Walk(0)' : y = Skip(J[0] + 1, r)
    BY <1>5, WithoutProperties
  <2>2. /\ \A n : n \in Alive <=> \E r \in DOMAIN Walk(0) : Walk(0)[r] = n
        /\ Distinct(Walk(0))
    BY <1>2 DEF IInv, BottomHoldsAll, LevelsLinked, Chained
  <2>3. ASSUME NEW n, n \in Alive' PROVE \E r \in DOMAIN Walk(0)' : Walk(0)'[r] = n
    <3>1. n \in Alive /\ n # m
      BY <1>6, <2>3
    <3>2. PICK y \in DOMAIN Walk(0) : Walk(0)[y] = n
      BY <2>2, <3>1
    <3>3. y # J[0] + 1
      BY <1>5, <3>1, <3>2
    <3>4. QED
      BY <2>1, <3>2, <3>3
  <2>4. ASSUME NEW r \in DOMAIN Walk(0)' PROVE Walk(0)'[r] \in Alive'
    <3>1. Walk(0)'[r] = Walk(0)[Skip(J[0] + 1, r)] /\ Skip(J[0] + 1, r) \in DOMAIN Walk(0)
          /\ Skip(J[0] + 1, r) # J[0] + 1
      BY <2>1
    <3>2. Walk(0)'[r] # m
      BY <1>5, <2>1, <2>2, <3>1 DEF Distinct
    <3>3. Walk(0)'[r] \in Alive
      BY <2>2, <3>1
    <3>4. QED
      BY <1>6, <3>2, <3>3
  <2>5. \A n : n \in Alive' <=> \E r \in DOMAIN Walk(0)' : Walk(0)'[r] = n
    BY <2>3, <2>4
  <2>6. QED
    BY <2>5 DEF BottomHoldsAll
<1>8. \A i \in Level : /\ On(m, i) => Len(Walk(i)) = Len(Walk(i)') + 1
                       /\ Len(Walk(i)) \in Nat /\ Len(Walk(i)') \in Nat
  <2> TAKE i \in Level
  <2>1. Len(Walk(i)) \in Nat
    BY ChainPlaces DEF IInv, LevelsLinked
  <2>2. Len(Walk(i)') \in Nat
    BY <1>1, ChainPlaces
  <2>3. QED
    BY <1>1, <2>1, <2>2 DEF Without
<1>9. /\ count = Len(Walk(0)) /\ \A i \in Level : levelCount[i] = Len(Walk(i))
      /\ count' = count - 1
      /\ levelCount' = [i \in Level |-> levelCount[i] - IF i \in Unlinked(m) THEN 1 ELSE 0]
  BY DEF IInv, CountsExact, Zrem
<1>10. count' = Len(Walk(0)')
  BY <1>2, <1>8, <1>9
<1>11. ASSUME NEW i \in Level PROVE levelCount'[i] = Len(Walk(i)')
  <2>1. CASE On(m, i)
    <3>1. levelCount'[i] = levelCount[i] - 1
      BY <1>1, <1>9, <2>1
    <3>2. QED
      BY <1>8, <1>9, <2>1, <3>1
  <2>2. CASE ~On(m, i)
    <3>1. levelCount'[i] = levelCount[i] - 0
      BY <1>1, <1>9, <2>2
    <3>2. Walk(i)' = Walk(i)
      BY <1>1, <2>2
    <3>3. QED
      BY <1>8, <1>9, <3>1, <3>2
  <2>3. QED
    BY <2>1, <2>2
<1>12. CountsExact'
  BY <1>10, <1>11 DEF CountsExact, Level
<1>13. maxLevel \in 1..MaxLevel /\ maxLevel \in Nat \ {0}
  BY <1>2 DEF TypeOK
<1>14. /\ maxLevel' \in 1..maxLevel
       /\ maxLevel' = 1 \/ next'[maxLevel' - 1][HeadNode] # NULL
       /\ \A j \in (maxLevel' + 1)..maxLevel : next'[j - 1][HeadNode] = NULL
  <2>1. maxLevel' = LevelsUsed(next')
    BY DEF Zrem
  <2>2. QED
    BY <1>13, <2>1, LevelsUsedProperties
<1>15. TopLevelUsed'
  <2>1. ASSUME NEW i \in Level, i >= maxLevel' PROVE next'[i][HeadNode] = NULL
    <3>1. CASE i < maxLevel
      <4>1. i + 1 \in (maxLevel' + 1)..maxLevel /\ (i + 1) - 1 = i
        <5>1. i \in Nat /\ maxLevel' \in Nat /\ maxLevel \in Nat
          BY <1>2, <1>13, <1>14
        <5>2. i < maxLevel /\ i >= maxLevel'
          BY <2>1, <3>1
        <5> DEFINE l == maxLevel'
        <5>3. l \in Nat /\ i >= l
          BY <5>1, <5>2
        <5> HIDE DEF l
        <5>4. i + 1 \in (l + 1)..maxLevel /\ (i + 1) - 1 = i
          BY <5>1, <5>2, <5>3
        <5>5. QED
          BY <5>4 DEF l
      <4>2. QED
        BY <1>14, <4>1
    <3>2. CASE ~(i < maxLevel)
      <4>1. Walk(i) = <<>>
        BY <3>2, UnusedLevels
      <4>2. ~On(m, i)
        <5>1. DOMAIN Walk(i) = {}
          BY <4>1
        <5>2. QED
          BY <5>1 DEF On
      <4>3. Walk(i)' = <<>> /\ Chained(next'[i], Walk(i)')
        BY <1>1, <4>1, <4>2
      <4>4. QED
        BY <4>3, EmptyLevel
    <3>3. QED
      BY <3>1, <3>2
  <2>2. maxLevel' > 1 => next'[maxLevel' - 1][HeadNode] # NULL
    BY <1>13, <1>14
  <2>3. QED
    BY <2>1, <2>2 DEF TopLevelUsed, Level
<1>16. TypeOK'
  <2>1. next' \in [Level -> [Node -> Member \cup {NULL}]]
    <3>1. \A i \in Level : next'[i] \in [Node -> Member \cup {NULL}]
      BY <1>1 DEF Chained
    <3>2. next' = [i \in Level |-> next'[i]]
      BY DEF Zrem
    <3>3. QED
      BY <3>1, <3>2
  <2>2. Alive' \subseteq Member /\ \A n \in Alive' : score'[n] \in Score
    BY <1>2, <1>6 DEF TypeOK
  <2>3. count' \in Nat
    BY <1>2, <1>8, <1>10
  <2>4. levelCount' \in [Level -> Nat]
    <3>1. levelCount' = [i \in Level |-> levelCount'[i]]
      BY <1>9
    <3>2. \A i \in Level : levelCount'[i] \in Nat
      BY <1>8, <1>11
    <3>3. QED
      BY <3>1, <3>2
  <2>5. maxLevel' \in 1..MaxLevel
    <3>1. MaxLevel \in Nat
      BY <1>2
    <3>2. QED
      BY <1>13, <1>14, <3>1
  <2>6. QED
    BY <2>1, <2>2, <2>3, <2>4, <2>5 DEF TypeOK, Level, Node
<1>17. QED
  BY <1>3, <1>4, <1>7, <1>12, <1>15, <1>16 DEF IInv

-----------------------------------------------------------------------------
(* The theorems *)

\* sl_create makes an empty list.
LEMMA InitIInv == Init => IInv
<1> SUFFICES ASSUME Init PROVE IInv
  OBVIOUS
<1>1. /\ next = [i \in Level |-> [n \in Node |-> NULL]]
      /\ score = [n \in {} |-> 0] /\ Alive = {}
      /\ maxLevel = 1 /\ count = 0 /\ levelCount = [i \in Level |-> 0]
      /\ 0 \in Level
  BY SkipListAssumption DEF Init, Level, Alive
<1>2. Len(<<>>) = 0 /\ DOMAIN <<>> = {} /\ <<>> \in Seq(Member)
  OBVIOUS
<1>3. ASSUME NEW i \in Level PROVE Chained(next[i], <<>>)
  <2>1. next[i] = [n \in Node |-> NULL]
    BY <1>1
  <2>2. \A k \in 0..0 : next[i][Nth(<<>>, k)] = Nth(<<>>, k + 1)
    <3>1. Nth(<<>>, 0) = HeadNode /\ Nth(<<>>, 0 + 1) = NULL
      BY <1>2 DEF Nth
    <3>2. \A k \in 0..0 : k = 0
      OBVIOUS
    <3>3. QED
      BY <2>1, <3>1, <3>2 DEF Node
  <2>3. QED
    BY <1>2, <2>1, <2>2 DEF Chained, Distinct, Node
<1>4. \A i \in Level : Walk(i) = <<>>
  BY <1>3, WalkOfChain DEF Walk
<1>5. LevelsLinked
  BY <1>3, <1>4 DEF LevelsLinked
<1>6. LevelsBelow
  <2>1. ASSUME NEW i \in Level \ {0} PROVE Below(Walk(i), Walk(i - 1))
    <3>1. Walk(i) = <<>>
      BY <1>4
    <3>2. QED
      BY <1>2, <3>1 DEF Below
  <2>2. QED
    BY <2>1 DEF LevelsBelow
<1>7. BottomHoldsAll
  BY <1>1, <1>2, <1>4 DEF BottomHoldsAll
<1>8. CountsExact
  BY <1>1, <1>2, <1>4 DEF CountsExact
<1>9. TopLevelUsed
  BY <1>1 DEF TopLevelUsed, Node
<1>10. TypeOK
  BY <1>1, SkipListAssumption DEF TypeOK, Node
<1>11. QED
  BY <1>5, <1>6, <1>7, <1>8, <1>9, <1>10 DEF IInv

\* The steps that leave the list alone.
LEMMA SameList ==
  ASSUME IInv, next' = next, maxLevel' = maxLevel, count' = count, levelCount' = levelCount,
         Alive' = Alive, \A n \in Alive' : score'[n] \in Score
  PROVE  IInv'
<1>1. \A i : Walk(i)' = Walk(i)
  BY DEF Walk, From
<1>2. LevelsLinked' /\ LevelsBelow' /\ BottomHoldsAll' /\ CountsExact' /\ TopLevelUsed'
  <2>1. LevelsLinked' /\ LevelsBelow'
    BY <1>1 DEF IInv, LevelsLinked, LevelsBelow, Level
  <2>2. BottomHoldsAll'
    BY <1>1 DEF IInv, BottomHoldsAll
  <2>3. CountsExact' /\ TopLevelUsed'
    BY <1>1 DEF IInv, CountsExact, TopLevelUsed, Level
  <2>4. QED
    BY <2>1, <2>2, <2>3
<1>3. TypeOK'
  BY DEF IInv, TypeOK, Level, Node
<1>4. QED
  BY <1>2, <1>3 DEF IInv

\* Every command keeps the invariant; an update in place changes no level.
LEMMA NextIInv == IInv /\ [execute_command]_vars => IInv'
<1> SUFFICES ASSUME IInv, [execute_command]_vars PROVE IInv'
  OBVIOUS
<1>1. TypeOK
  BY DEF IInv
<1>2. ASSUME NEW m \in Member, NEW s \in Score, ZaddExisting(m, s) PROVE IInv'
  <2>1. /\ next' = next /\ maxLevel' = maxLevel /\ count' = count /\ levelCount' = levelCount
        /\ score' = [score EXCEPT ![m] = s]
    BY <1>2 DEF ZaddExisting
  <2>2. Alive' = Alive
    BY <2>1 DEF Alive
  <2>3. \A n \in Alive' : score'[n] \in Score
    BY <1>1, <2>1, <2>2 DEF TypeOK, Alive
  <2>4. QED
    BY <2>1, <2>2, <2>3, SameList
<1>3. ASSUME NEW m \in Member, NEW s \in Score, NEW h \in 1..MaxLevel, ZaddNew(m, s, h)
      PROVE  IInv'
  BY <1>3, ZaddNewKeepsIInv
<1>4. ASSUME NEW m \in Member, Zrem(m) PROVE IInv'
  BY <1>4, ZremKeepsIInv
<1>5. ASSUME UNCHANGED list PROVE IInv'
  <2>1. /\ next' = next /\ maxLevel' = maxLevel /\ count' = count /\ levelCount' = levelCount
        /\ score' = score
    BY <1>5 DEF list
  <2>2. Alive' = Alive /\ \A n \in Alive' : score'[n] \in Score
    BY <1>1, <2>1 DEF TypeOK, Alive
  <2>3. QED
    BY <2>1, <2>2, SameList
<1>6. CASE UNCHANGED vars
  BY <1>5, <1>6 DEF vars
<1>7. CASE execute_command
  BY <1>2, <1>3, <1>4, <1>5, <1>7 DEF execute_command, ZremMissing
<1>8. QED
  BY <1>6, <1>7

\* After any sequence of commands of ch13 the levels are linked lists, each a part of the
\* one below, the bottom one has every node, and the counters are exact.
THEOREM Invariance == Spec => []IInv
<1>1. QED
  BY InitIInv, NextIInv, PTL DEF Spec

\* Pointers lead to nodes or nowhere, and max_level stays between 1 and MAX_LEVEL.
THEOREM SkipListTypes == Spec => []TypeOK
<1>1. IInv => TypeOK
  BY DEF IInv
<1>2. QED
  BY <1>1, Invariance, PTL

\* Level 0 holds every node that is allocated, once, and every other level holds some of
\* those below it in the same order, in every order of inserts, rescores and deletes.
THEOREM LevelsAlwaysNest == Spec => []LevelsNest
<1>1. ASSUME IInv PROVE LevelsNest
  <2>1. \A i \in Level : \A r, q \in DOMAIN Walk(i) : Walk(i)[r] = Walk(i)[q] => r = q
    BY <1>1 DEF IInv, LevelsLinked, Chained, Distinct
  <2>2. {Walk(0)[r] : r \in DOMAIN Walk(0)} = Alive
    BY <1>1 DEF IInv, BottomHoldsAll
  <2>3. ASSUME NEW i \in Level \ {0}
        PROVE  \E f \in [DOMAIN Walk(i) -> DOMAIN Walk(i - 1)] :
                 /\ \A r \in DOMAIN Walk(i) : Walk(i)[r] = Walk(i - 1)[f[r]]
                 /\ \A r, q \in DOMAIN Walk(i) : r < q => f[r] < f[q]
    <3> DEFINE L == Walk(i)
               K == Walk(i - 1)
               f == [r \in DOMAIN L |-> CHOOSE q \in DOMAIN K : L[r] = K[q]]
    <3>1. Below(L, K)
      BY <1>1 DEF IInv, LevelsBelow
    <3> HIDE DEF L, K
    <3>2. \A r \in DOMAIN L : f[r] \in DOMAIN K /\ L[r] = K[f[r]]
      BY <3>1 DEF Below
    <3>3. f \in [DOMAIN L -> DOMAIN K]
      BY <3>2
    <3> HIDE DEF f
    <3>4. \A r, q \in DOMAIN L : r < q => f[r] < f[q]
      BY <3>1, <3>2 DEF Below
    <3>5. QED
      BY <3>2, <3>3, <3>4 DEF L, K
  <2>4. QED
    BY <2>1, <2>2, <2>3 DEF LevelsNest
<1>2. QED
  BY <1>1, Invariance, PTL

\* sl->count and level_count are the lengths of the lists.
THEOREM CountsAlwaysExact == Spec => []CountsExact
<1>1. IInv => CountsExact
  BY DEF IInv
<1>2. QED
  BY <1>1, Invariance, PTL

\* max_level is the highest level in use, and 1 if none is.
THEOREM TopLevelAlwaysUsed == Spec => []TopLevelUsed
<1>1. IInv => TopLevelUsed
  BY DEF IInv
<1>2. QED
  BY <1>1, Invariance, PTL

-----------------------------------------------------------------------------
(* The queries *)

\* A part of the ranking is the ranking of the part.
LEMMA EntriesOfPart ==
  ASSUME NEW L \in Seq(Member), NEW a \in 1..Len(L), NEW b \in a..Len(L)
  PROVE  LET nodes == SubSeq(L, a, b)
         IN  [i \in DOMAIN nodes |-> Entry(nodes[i])]
               = SubSeq([r \in DOMAIN L |-> Entry(L[r])], a, b)
<1> DEFINE nodes == SubSeq(L, a, b)
           all == [r \in DOMAIN L |-> Entry(L[r])]
           part == SubSeq(all, a, b)
           E == {Entry(n) : n \in Member}
           n == b - a + 1
<1>1. Len(L) \in Nat /\ DOMAIN L = 1..Len(L) /\ \A i \in 1..Len(L) : L[i] \in Member
  BY LenProperties, ElementOfSeq
<1>2. n \in Nat /\ a \in Int /\ b \in Int /\ a <= b /\ a..b \subseteq 1..Len(L)
      /\ \A i \in 1..n : a + i - 1 \in a..b
  BY <1>1
<1>3. /\ nodes \in Seq(Member) /\ Len(nodes) = n
      /\ \A i \in 1..n : nodes[i] = L[a + i - 1]
  <2>1. \A i \in a..b : L[i] \in Member
    BY <1>1, <1>2
  <2> HIDE DEF nodes
  <2>2. QED
    BY <1>2, <2>1, SubSeqProperties DEF nodes
<1>4. /\ part \in Seq(E) /\ Len(part) = n
      /\ \A i \in 1..n : part[i] = all[a + i - 1]
  <2>1. \A i \in a..b : all[i] \in E
    BY <1>1, <1>2
  <2> HIDE DEF all, E
  <2>2. QED
    BY <1>2, <2>1, SubSeqProperties
<1>5. DOMAIN nodes = 1..n /\ DOMAIN part = 1..n /\ part = [i \in 1..n |-> part[i]]
  <2> HIDE DEF nodes, part, E, n
  <2>1. DOMAIN nodes = 1..n /\ DOMAIN part = 1..n
    BY <1>3, <1>4, LenProperties
  <2>2. part = [i \in 1..Len(part) |-> part[i]]
    BY <1>4, LenProperties
  <2>3. QED
    BY <1>4, <2>1, <2>2
<1>6. ASSUME NEW i \in 1..n PROVE Entry(nodes[i]) = part[i]
  <2>1. a + i - 1 \in DOMAIN L
    BY <1>1, <1>2
  <2>2. all[a + i - 1] = Entry(L[a + i - 1])
    BY <2>1
  <2> HIDE DEF nodes, part, all, n
  <2>3. QED
    BY <1>3, <1>4, <2>2
<1> HIDE DEF nodes, part, n
<1>7. [i \in DOMAIN nodes |-> Entry(nodes[i])] = part
  BY <1>5, <1>6
<1>8. QED
  BY <1>7 DEF nodes, part

\* ZRANGE, ZSCORE and ZCARD answer from the ranking of level 0.
THEOREM AnswersAlwaysExact == Spec => []AnswersExact
<1>1. ASSUME IInv PROVE AnswersExact
  <2> DEFINE L == Walk(0)
             ranking == [r \in DOMAIN L |-> Entry(L[r])]
  <2>1. /\ L \in Seq(Member) /\ Len(L) \in Nat /\ DOMAIN L = 1..Len(L) /\ count = Len(L)
    <3>1. Chained(next[0], L)
      BY <1>1, SkipListAssumption DEF IInv, LevelsLinked, Level
    <3>2. QED
      BY <1>1, <3>1, ChainPlaces DEF IInv, CountsExact, Chained
  <2>2. Len(ranking) = Len(L)
    <3> HIDE DEF L
    <3>1. ranking \in Seq({Entry(n) : n \in Member})
      <4>1. \A r \in 1..Len(L) : Entry(L[r]) \in {Entry(n) : n \in Member}
        BY <2>1, ElementOfSeq
      <4>2. ranking = [r \in 1..Len(L) |-> Entry(L[r])]
        BY <2>1
      <4>3. QED
        BY <2>1, <4>1, <4>2, IsASeq
    <3>2. DOMAIN ranking = 1..Len(L)
      BY <2>1
    <3> HIDE DEF ranking
    <3>3. QED
      BY <2>1, <3>1, <3>2, LenProperties
  <2>3. ASSUME NEW start \in Int, NEW end \in Int
        PROVE  Zrange(start, end) = Ranking!RangeAnswer(start, end)
    <3> DEFINE a == IF start < 0 THEN 0 ELSE start
               b == IF end >= count THEN count - 1 ELSE end
    <3>1. a \in Nat /\ b \in Int /\ b <= Len(L) - 1
      BY <2>1
    <3>2. Ranking!RangeAnswer(start, end) = SubSeq(ranking, a + 1, b + 1)
      <4>1. a + 1 = (IF start < 0 THEN 1 ELSE start + 1)
        OBVIOUS
      <4>2. b + 1 = (IF end < Len(ranking) THEN end + 1 ELSE Len(ranking))
        <5> HIDE DEF L, ranking
        <5>1. QED
          BY <2>1, <2>2
      <4>3. QED
        BY <4>1, <4>2 DEF Ranking!RangeAnswer
    <3>3. CASE a > b \/ count = 0
      <4>1. b + 1 < a + 1 /\ a + 1 \in Int /\ b + 1 \in Int
        BY <2>1, <3>1, <3>3
      <4>2. RangeByRank(start, end) = <<>>
        BY <3>3 DEF RangeByRank
      <4>3. Zrange(start, end) = <<>>
        BY <4>2 DEF Zrange
      <4> HIDE DEF a, b, ranking
      <4>4. SubSeq(ranking, a + 1, b + 1) = <<>>
        BY <4>1, SubSeqEmpty
      <4>5. QED
        BY <3>2, <4>3, <4>4
    <3>4. CASE ~(a > b \/ count = 0)
      <4>1. RangeByRank(start, end) = SubSeq(L, a + 1, b + 1)
        BY <3>4 DEF RangeByRank
      <4>2. a + 1 \in 1..Len(L) /\ b + 1 \in (a + 1)..Len(L)
        BY <2>1, <3>1, <3>4
      <4>3. Zrange(start, end) = LET nodes == SubSeq(L, a + 1, b + 1)
                                 IN  [i \in DOMAIN nodes |-> Entry(nodes[i])]
        BY <4>1 DEF Zrange
      <4> HIDE DEF a, b, L
      <4>4. Zrange(start, end) = SubSeq(ranking, a + 1, b + 1)
        BY <2>1, <4>2, <4>3, EntriesOfPart
      <4>5. QED
        BY <3>2, <4>4
    <3>5. QED
      BY <3>3, <3>4
  <2>4. ASSUME NEW m \in Member PROVE Zscore(m) = Ranking!ScoreAnswer(m)
    <3> DEFINE R == {i \in DOMAIN ranking : ranking[i].member = m}
    <3>1. Ranking!ScoreAnswer(m) =
            {ranking[i].score : i \in {j \in R : ranking[j].score # NaN /\ ranking[j].score >= 0}}
      BY DEF Ranking!ScoreAnswer, Ranking!RankOf
    <3>2. /\ \A i \in R : ranking[i].score = score[m]
          /\ R # {} <=> Found(m)
      BY DEF Entry, Found
    <3> HIDE DEF R, ranking
    <3>3. CASE Found(m)
      <4>1. Zscore(m) = IF score[m] # NaN /\ score[m] >= 0 THEN {score[m]} ELSE {}
        BY <3>3 DEF Zscore
      <4>2. QED
        BY <3>1, <3>2, <3>3, <4>1
    <3>4. CASE ~Found(m)
      <4>1. Zscore(m) = {}
        BY <3>4 DEF Zscore
      <4>2. QED
        BY <3>1, <3>2, <3>4, <4>1
    <3>5. QED
      BY <3>3, <3>4
  <2>5. Zcard = Ranking!CardAnswer
    BY <2>1, <2>2 DEF Zcard, Ranking!CardAnswer
  <2>6. ASSUME NEW start \in -1..(Cardinality(Member) + 1) PROVE start \in Int
    BY SkipListAssumption, FS_CardinalityType
  <2>7. QED
    BY <2>3, <2>4, <2>5, <2>6 DEF AnswersExact
<1>2. QED
  BY <1>1, Invariance, PTL

-----------------------------------------------------------------------------
(* The list is a ranking *)

\* The abstract ranking has its own names for the operators on sequences and sets.
LEMMA SameOperators ==
  ASSUME NEW s, NEW i, NEW e
  PROVE  /\ Ranking!RemoveAt(s, i) = RemoveAt(s, i)
         /\ Ranking!InsertAt(s, i, e) = InsertAt(s, i, e)
         /\ Ranking!Cardinality(s) = Cardinality(s)
BY DEF Ranking!RemoveAt, RemoveAt, Ranking!InsertAt, InsertAt, Ranking!Cardinality, Cardinality

\* Inserting an entry moves those behind it one place back.
LEMMA InsertAtProperties ==
  ASSUME NEW S, NEW s \in Seq(S), NEW i \in 1..(Len(s) + 1), NEW e \in S
  PROVE  /\ InsertAt(s, i, e) \in Seq(S) /\ Len(InsertAt(s, i, e)) = Len(s) + 1
         /\ InsertAt(s, i, e)[i] = e
         /\ \A j \in 1..Len(s) : InsertAt(s, i, e)[Skip(i, j)] = s[j]
<1> DEFINE front == SubSeq(s, 1, i - 1)
           back == SubSeq(s, i, Len(s))
           head == front \o <<e>>
           t == head \o back
<1>1. Len(s) \in Nat /\ i \in 1..(Len(s) + 1) /\ \A j \in 1..Len(s) : s[j] \in S
  BY LenProperties, ElementOfSeq
<1>2. front \in Seq(S) /\ Len(front) = i - 1 /\ \A j \in 1..(i - 1) : front[j] = s[j]
  <2>1. \A j \in 1..(i - 1) : s[j] \in S
    BY <1>1
  <2>2. 1 \in Int /\ i - 1 \in Int
    BY <1>1
  <2>3. /\ front \in Seq(S) /\ Len(front) = IF 1 <= i - 1 THEN i - 1 - 1 + 1 ELSE 0
        /\ \A j \in 1..(i - 1 - 1 + 1) : front[j] = s[1 + j - 1]
    BY <2>1, <2>2, SubSeqProperties
  <2>4. \A j \in 1..(i - 1) : j \in 1..(i - 1 - 1 + 1) /\ 1 + j - 1 = j
    BY <1>1
  <2>5. QED
    BY <2>3, <2>4, <1>1
<1>3. /\ back \in Seq(S) /\ Len(back) = Len(s) - i + 1
      /\ \A j \in 1..(Len(s) - i + 1) : back[j] = s[i + j - 1]
  <2>1. \A j \in i..Len(s) : s[j] \in S
    BY <1>1
  <2>2. i \in Int /\ Len(s) \in Int
    BY <1>1
  <2>3. /\ back \in Seq(S) /\ Len(back) = IF i <= Len(s) THEN Len(s) - i + 1 ELSE 0
        /\ \A j \in 1..(Len(s) - i + 1) : back[j] = s[i + j - 1]
    BY <2>1, <2>2, SubSeqProperties
  <2>4. QED
    BY <2>3, <1>1
<1> HIDE DEF front, back
<1>4. <<e>> \in Seq(S) /\ Len(<<e>>) = 1 /\ <<e>>[1] = e
  OBVIOUS
<1>5. /\ head \in Seq(S) /\ Len(head) = i
      /\ \A j \in 1..(i - 1) : head[j] = s[j]
      /\ head[i] = e
  <2> DEFINE o == <<e>>
  <2>1. o \in Seq(S) /\ Len(o) = 1 /\ o[1] = e
    BY <1>4
  <2> HIDE DEF o
  <2>2. /\ front \o o \in Seq(S) /\ Len(front \o o) = Len(front) + Len(o)
        /\ \A j \in 1..(Len(front) + Len(o)) :
             (front \o o)[j] = IF j <= Len(front) THEN front[j] ELSE o[j - Len(front)]
    BY <1>2, <2>1, ConcatProperties
  <2>3. \A j \in 1..(i - 1) : (front \o o)[j] = s[j]
    BY <1>1, <1>2, <2>1, <2>2
  <2>4. (front \o o)[i] = e
    <3>1. i \in 1..(Len(front) + Len(o)) /\ ~(i <= Len(front)) /\ i - Len(front) = 1
      BY <1>1, <1>2, <2>1
    <3>2. QED
      BY <2>1, <2>2, <3>1
  <2>5. Len(front \o o) = i
    BY <1>1, <1>2, <2>1, <2>2
  <2>6. QED
    BY <2>2, <2>3, <2>4, <2>5 DEF o
<1> HIDE DEF head
<1>6. /\ t \in Seq(S) /\ Len(t) = Len(head) + Len(back)
      /\ \A j \in 1..(Len(head) + Len(back)) :
           t[j] = IF j <= Len(head) THEN head[j] ELSE back[j - Len(head)]
  BY <1>3, <1>5, ConcatProperties
<1> HIDE DEF t
<1>7. Len(t) = Len(s) + 1 /\ Len(head) + Len(back) = Len(s) + 1
  BY <1>1, <1>3, <1>5, <1>6
<1>8. t[i] = e
  <2>1. i \in 1..(Len(head) + Len(back)) /\ i <= Len(head)
    BY <1>1, <1>5, <1>7
  <2>2. QED
    BY <1>5, <1>6, <2>1
<1>9. ASSUME NEW j \in 1..Len(s) PROVE t[Skip(i, j)] = s[j]
  <2>1. CASE j < i
    <3>1. Skip(i, j) = j /\ j \in 1..(i - 1) /\ j <= Len(head) /\ j \in 1..(Len(head) + Len(back))
      BY <1>1, <1>5, <1>7, <2>1 DEF Skip
    <3>2. QED
      BY <1>5, <1>6, <3>1
  <2>2. CASE ~(j < i)
    <3>1. /\ Skip(i, j) = j + 1 /\ j + 1 \in 1..(Len(head) + Len(back)) /\ ~(j + 1 <= Len(head))
          /\ j + 1 - Len(head) = j - i + 1 /\ j - i + 1 \in 1..(Len(s) - i + 1)
          /\ i + (j - i + 1) - 1 = j
      BY <1>1, <1>5, <1>7, <2>2 DEF Skip
    <3>2. t[j + 1] = back[j - i + 1]
      BY <1>6, <3>1
    <3>3. back[j - i + 1] = s[i + (j - i + 1) - 1]
      BY <1>3, <3>1
    <3>4. QED
      BY <3>1, <3>2, <3>3
  <2>3. QED
    BY <2>1, <2>2
<1>10. InsertAt(s, i, e) = t
  BY DEF InsertAt, t, head, front, back
<1>11. QED
  BY <1>6, <1>7, <1>8, <1>9, <1>10

\* t is s with e put in at place i.
Inserted(s, i, e, t) ==
  /\ Len(t) = Len(s) + 1 /\ t[i] = e
  /\ \A j \in 1..Len(s) : t[Skip(i, j)] = s[j]

\* The same, said of the new sequence.
LEMMA InsertAtIs ==
  ASSUME NEW S, NEW s \in Seq(S), NEW i \in 1..(Len(s) + 1), NEW e \in S
  PROVE  InsertAt(s, i, e) \in Seq(S) /\ Inserted(s, i, e, InsertAt(s, i, e))
<1> DEFINE t == InsertAt(s, i, e)
<1>1. Len(t) = Len(s) + 1 /\ t[i] = e /\ t \in Seq(S)
  BY InsertAtProperties
<1>2. \A j \in 1..Len(s) : t[Skip(i, j)] = s[j]
  BY InsertAtProperties
<1>3. QED
  BY <1>1, <1>2, Zenon DEF Inserted

\* The ranking of the nodes of a list by their places.
RankingBy(L, sc) == [r \in DOMAIN L |-> [member |-> L[r], score |-> sc[L[r]]]]

Entries == [member : Member, score : Score]

\* The ranking by a list and its scores has the place of every node of the list.
LEMMA RankingByProperties ==
  ASSUME NEW L \in Seq(Member), NEW sc, \A r \in DOMAIN L : sc[L[r]] \in Score
  PROVE  /\ RankingBy(L, sc) \in Seq(Entries) /\ Len(RankingBy(L, sc)) = Len(L)
         /\ Len(L) \in Nat /\ DOMAIN L = 1..Len(L) /\ DOMAIN RankingBy(L, sc) = 1..Len(L)
         /\ \A r \in DOMAIN L : RankingBy(L, sc)[r] = [member |-> L[r], score |-> sc[L[r]]]
<1> DEFINE R == RankingBy(L, sc)
<1>1. Len(L) \in Nat /\ DOMAIN L = 1..Len(L) /\ \A r \in DOMAIN L : L[r] \in Member
  BY LenProperties, ElementOfSeq
<1>2. R = [r \in 1..Len(L) |-> [member |-> L[r], score |-> sc[L[r]]]]
  BY <1>1 DEF RankingBy
<1>3. \A r \in 1..Len(L) : [member |-> L[r], score |-> sc[L[r]]] \in Entries
  BY <1>1 DEF Entries
<1>4. R \in Seq(Entries)
  BY <1>1, <1>2, <1>3, IsASeq
<1>5. DOMAIN R = 1..Len(L) /\ \A r \in DOMAIN L : R[r] = [member |-> L[r], score |-> sc[L[r]]]
  BY <1>1, <1>2
<1> HIDE DEF R
<1>6. Len(R) = Len(L)
  BY <1>1, <1>4, <1>5, LenProperties
<1>7. QED
  BY <1>1, <1>4, <1>5, <1>6 DEF R

\* A node more on the list is an entry more in the ranking.
LEMMA RankingInsert ==
  ASSUME NEW L, NEW M, NEW p, Without(M, p, L), NEW sc, NEW sd,
         \A r \in DOMAIN L : sc[L[r]] \in Score /\ sd[L[r]] = sc[L[r]], sd[M[p]] \in Score
  PROVE  RankingBy(M, sd) = InsertAt(RankingBy(L, sc), p, [member |-> M[p], score |-> sd[M[p]]])
<1> DEFINE R == RankingBy(L, sc)
           Q == RankingBy(M, sd)
           e == [member |-> M[p], score |-> sd[M[p]]]
           t == InsertAt(R, p, e)
<1>1. /\ Len(L) \in Nat /\ DOMAIN L = 1..Len(L) /\ DOMAIN M = 1..Len(M)
      /\ Len(M) = Len(L) + 1 /\ p \in 1..(Len(L) + 1) /\ p \in DOMAIN M
      /\ \A r \in DOMAIN L : L[r] = M[Skip(p, r)] /\ Skip(p, r) \in DOMAIN M
      /\ \A y \in DOMAIN M : y # p => \E r \in DOMAIN L : y = Skip(p, r)
  BY WithoutProperties
<1>2. L \in Seq(Member) /\ M \in Seq(Member)
  BY DEF Without
<1>3. \A y \in DOMAIN M : sd[M[y]] \in Score
  BY <1>1
<1>4. /\ R \in Seq(Entries) /\ Len(R) = Len(L)
      /\ \A r \in DOMAIN L : R[r] = [member |-> L[r], score |-> sc[L[r]]]
  BY <1>2, RankingByProperties
<1>5. /\ Q \in Seq(Entries) /\ Len(Q) = Len(M)
      /\ \A r \in DOMAIN M : Q[r] = [member |-> M[r], score |-> sd[M[r]]]
  BY <1>2, <1>3, RankingByProperties
<1>6. e \in Entries
  BY <1>1, <1>2, <1>3, ElementOfSeq DEF Entries
<1> HIDE DEF R, Q, e
<1>7. /\ t \in Seq(Entries) /\ Len(t) = Len(R) + 1 /\ t[p] = e
      /\ \A j \in 1..Len(R) : t[Skip(p, j)] = R[j]
  <2>1. p \in 1..(Len(R) + 1) /\ R \in Seq(Entries)
    BY <1>1, <1>4
  <2>2. t \in Seq(Entries) /\ Inserted(R, p, e, t)
    BY <1>6, <2>1, InsertAtIs
  <2>3. QED
    BY <2>2 DEF Inserted
<1> HIDE DEF t
<1>8. ASSUME NEW y \in 1..Len(Q) PROVE Q[y] = t[y]
  <2>1. CASE y = p
    BY <1>1, <1>5, <1>7, <2>1 DEF e
  <2>2. CASE y # p
    <3>1. PICK r \in DOMAIN L : y = Skip(p, r)
      BY <1>1, <1>5, <1>8, <2>2
    <3>2. t[y] = R[r]
      BY <1>1, <1>4, <1>7, <3>1
    <3>3. Q[y] = [member |-> L[r], score |-> sd[L[r]]]
      BY <1>1, <1>5, <3>1
    <3>4. QED
      BY <1>4, <3>2, <3>3
  <2>3. QED
    BY <2>1, <2>2
<1>9. Len(Q) = Len(t)
  BY <1>1, <1>4, <1>5, <1>7
<1>10. Q = t
  BY <1>5, <1>7, <1>8, <1>9, SeqEqual
<1>11. QED
  BY <1>10 DEF Q, t, R, e

\* A node less is an entry less.
LEMMA RankingRemove ==
  ASSUME NEW L, NEW M, NEW p, Without(M, p, L), NEW sc, NEW sd,
         \A r \in DOMAIN M : sc[M[r]] \in Score, \A r \in DOMAIN L : sd[L[r]] = sc[L[r]]
  PROVE  RankingBy(L, sd) = RemoveAt(RankingBy(M, sc), p)
<1> DEFINE R == RankingBy(L, sd)
           Q == RankingBy(M, sc)
           t == RemoveAt(Q, p)
<1>1. /\ Len(L) \in Nat /\ DOMAIN L = 1..Len(L) /\ DOMAIN M = 1..Len(M)
      /\ Len(M) = Len(L) + 1 /\ p \in DOMAIN M /\ p \in 1..(Len(L) + 1)
      /\ \A r \in DOMAIN L : L[r] = M[Skip(p, r)] /\ Skip(p, r) \in DOMAIN M
  BY WithoutProperties
<1>2. L \in Seq(Member) /\ M \in Seq(Member)
  BY DEF Without
<1>3. /\ R \in Seq(Entries) /\ Len(R) = Len(L)
      /\ \A r \in DOMAIN L : R[r] = [member |-> L[r], score |-> sd[L[r]]]
  <2>1. \A r \in DOMAIN L : sd[L[r]] \in Score
    BY <1>1
  <2>2. QED
    BY <1>2, <2>1, RankingByProperties
<1>4. /\ Q \in Seq(Entries) /\ Len(Q) = Len(M) /\ DOMAIN Q = 1..Len(M)
      /\ \A r \in DOMAIN M : Q[r] = [member |-> M[r], score |-> sc[M[r]]]
  BY <1>2, RankingByProperties
<1> HIDE DEF R, Q
<1>5. /\ t \in Seq(Entries) /\ Len(t) = Len(Q) - 1
      /\ \A j \in 1..(Len(Q) - 1) : t[j] = IF j < p THEN Q[j] ELSE Q[j + 1]
  <2>1. p \in DOMAIN Q /\ Q \in Seq(Entries)
    BY <1>1, <1>4
  <2>2. QED
    BY <2>1, RemoveAtProperties
<1> HIDE DEF t
<1>6. ASSUME NEW r \in 1..Len(R) PROVE R[r] = t[r]
  <2>1. r \in DOMAIN L /\ r \in 1..(Len(Q) - 1)
    BY <1>1, <1>3, <1>4
  <2>2. t[r] = Q[Skip(p, r)]
    BY <1>5, <2>1 DEF Skip
  <2>3. Q[Skip(p, r)] = [member |-> L[r], score |-> sc[L[r]]]
    BY <1>1, <1>4, <2>1
  <2>4. QED
    BY <1>3, <2>1, <2>2, <2>3
<1>7. Len(R) = Len(t)
  BY <1>1, <1>3, <1>4, <1>5
<1>8. R = t
  BY <1>3, <1>5, <1>6, <1>7, SeqEqual
<1>9. QED
  BY <1>8 DEF R, t, Q

-----------------------------------------------------------------------------
(* Every step is one of the ranking *)

Now == RankingBy(Walk(0), score)

\* Now is the ranking of the refinement mapping, before and after a step.
LEMMA RankingIs ==
  /\ [r \in DOMAIN Walk(0) |-> Entry(Walk(0)[r])] = Now
  /\ [r \in DOMAIN Walk(0) |-> Entry(Walk(0)[r])]' = Now'
BY DEF Now, RankingBy, Entry

\* The abstract steps, said of Now.
LEMMA AddNewIs ==
  ASSUME NEW m, NEW s, NEW i,
         {j \in DOMAIN Now : Now[j].member = m} = {}, reply' = 1,
         Now' = InsertAt(Now, i, [member |-> m, score |-> s]),
         Ranking!Sorted(Now) =>
           i = 1 + Cardinality({j \in DOMAIN Now :
                                  Ranking!Precedes(Now[j], [member |-> m, score |-> s])}),
         i \in 1..(Len(Now) + 1)
  PROVE  Ranking!AddNew(m, s)
<1>1. [r \in DOMAIN Walk(0) |-> Entry(Walk(0)[r])] = Now
  BY RankingIs
<1>2. [r \in DOMAIN Walk(0) |-> Entry(Walk(0)[r])]' = Now'
  BY RankingIs
<1> DEFINE e == [member |-> m, score |-> s]
           rank == 1 + Ranking!Cardinality({j \in DOMAIN Now : Ranking!Precedes(Now[j], e)})
<1>3. Now' = Ranking!InsertAt(Now, i, e) /\ (Ranking!Sorted(Now) => i = rank)
  BY SameOperators
<1>4. \/ Ranking!Sorted(Now) /\ Now' = Ranking!InsertAt(Now, rank, e)
      \/ /\ ~Ranking!Sorted(Now)
         /\ \E j \in 1..(Len(Now) + 1) : Now' = Ranking!InsertAt(Now, j, e)
  BY <1>3
<1>5. QED
  BY <1>1, <1>2, <1>4 DEF Ranking!AddNew, Ranking!RankOf

\* ZADD of a member that is there.
LEMMA RescoreIs ==
  ASSUME NEW m, NEW s, NEW i \in DOMAIN Now, Now[i].member = m,
         Now' = [Now EXCEPT ![i].score = s], reply' = 1
  PROVE  Ranking!Rescore(m, s)
<1>1. [r \in DOMAIN Walk(0) |-> Entry(Walk(0)[r])] = Now
  BY RankingIs
<1>2. [r \in DOMAIN Walk(0) |-> Entry(Walk(0)[r])]' = Now'
  BY RankingIs
<1>3. QED
  BY <1>1, <1>2 DEF Ranking!Rescore, Ranking!RankOf

\* ZREM.
LEMMA RemIs ==
  ASSUME NEW m, NEW i \in DOMAIN Now, Now[i].member = m, Now' = RemoveAt(Now, i), reply' = 1
  PROVE  Ranking!Rem(m)
<1>1. [r \in DOMAIN Walk(0) |-> Entry(Walk(0)[r])] = Now
  BY RankingIs
<1>2. [r \in DOMAIN Walk(0) |-> Entry(Walk(0)[r])]' = Now'
  BY RankingIs
<1>3. Now' = Ranking!RemoveAt(Now, i)
  BY SameOperators
<1>4. QED
  BY <1>1, <1>2, <1>3 DEF Ranking!Rem, Ranking!RankOf

\* ZREM that removes nothing.
LEMMA RefuseIs ==
  ASSUME NEW m, {j \in DOMAIN Now : Now[j].member = m} = {} \/ ~Ranking!Sorted(Now),
         Now' = Now, reply' = 0
  PROVE  Ranking!Refuse(m)
<1>1. [r \in DOMAIN Walk(0) |-> Entry(Walk(0)[r])] = Now
  BY RankingIs
<1>2. [r \in DOMAIN Walk(0) |-> Entry(Walk(0)[r])]' = Now'
  BY RankingIs
<1>3. QED
  BY <1>1, <1>2 DEF Ranking!Refuse, Ranking!RankOf

\* The ranking has each node of level 0 at its place, with its score.
LEMMA NowProperties ==
  ASSUME IInv
  PROVE  /\ Walk(0) \in Seq(Member) /\ Distinct(Walk(0))
         /\ \A r \in DOMAIN Walk(0) : Walk(0)[r] \in Alive /\ score[Walk(0)[r]] \in Score
                                      /\ Walk(0)[r] \in Member
         /\ Now \in Seq(Entries) /\ Len(Now) = Len(Walk(0)) /\ Len(Walk(0)) \in Nat
         /\ DOMAIN Walk(0) = 1..Len(Walk(0)) /\ DOMAIN Now = DOMAIN Walk(0)
         /\ \A r \in DOMAIN Walk(0) :
              Now[r] = [member |-> Walk(0)[r], score |-> score[Walk(0)[r]]]
         /\ \A j, m : j \in DOMAIN Now /\ Now[j].member = m <=> j \in DOMAIN Walk(0) /\ Walk(0)[j] = m
<1>1. Walk(0) \in Seq(Member) /\ Distinct(Walk(0))
  BY SkipListAssumption DEF IInv, LevelsLinked, Chained, Level
<1>2. \A r \in DOMAIN Walk(0) : Walk(0)[r] \in Alive /\ score[Walk(0)[r]] \in Score
                                /\ Walk(0)[r] \in Member
  BY DEF IInv, BottomHoldsAll, TypeOK
<1>3. /\ Now \in Seq(Entries) /\ Len(Now) = Len(Walk(0)) /\ Len(Walk(0)) \in Nat
      /\ DOMAIN Walk(0) = 1..Len(Walk(0)) /\ DOMAIN Now = DOMAIN Walk(0)
      /\ \A r \in DOMAIN Walk(0) : Now[r] = [member |-> Walk(0)[r], score |-> score[Walk(0)[r]]]
  BY <1>1, <1>2, RankingByProperties DEF Now
<1>4. ASSUME NEW j, NEW m
      PROVE  j \in DOMAIN Now /\ Now[j].member = m <=> j \in DOMAIN Walk(0) /\ Walk(0)[j] = m
  BY <1>3
<1>5. QED
  BY <1>1, <1>2, <1>3, <1>4

\* In a sorted ranking the entries before a new one are those up to where its search stops.
LEMMA SortedSearch ==
  ASSUME IInv, NEW m \in Member, NEW s \in Score, NEW J, Stops(m, s, J), Ranking!Sorted(Now)
  PROVE  /\ J[0] \in 0..Len(Walk(0))
         /\ \A r \in DOMAIN Walk(0) : Before(Walk(0)[r], m, s) <=> r <= J[0]
<1> DEFINE W == Walk(0)
           sc(r) == score[W[r]]
<1>1. /\ Len(W) \in Nat /\ DOMAIN W = 1..Len(W)
      /\ \A r \in DOMAIN W : W[r] \in Alive /\ sc(r) \in Score /\ W[r] \in Int
      /\ DOMAIN Now = DOMAIN W
      /\ \A r \in DOMAIN W : Now[r] = [member |-> W[r], score |-> sc(r)]
  BY NowProperties, SkipListAssumption
<1>2. /\ StopIn(W, Smaller(m, s), J[0])
      /\ J[0] \in 0..Len(W)
  BY SkipListAssumption DEF Stops, StopIn, Level
<1>3. \A r \in DOMAIN W : sc(r) # NaN /\ sc(r) \in Int
  <2>1. \A r \in DOMAIN Now : Now[r].score # NaN
    BY DEF Ranking!Sorted
  <2>2. QED
    BY <1>1, <2>1, SkipListAssumption
<1>4. \A r, q \in DOMAIN W : r < q => sc(r) < sc(q) \/ (sc(r) = sc(q) /\ W[r] < W[q])
  <2>1. \A r, q \in DOMAIN Now : r < q => Ranking!Precedes(Now[r], Now[q])
    BY DEF Ranking!Sorted
  <2> TAKE r, q \in DOMAIN W
  <2> HAVE r < q
  <2>2. Ranking!Precedes(Now[r], Now[q])
    BY <1>1, <2>1
  <2>3. /\ Now[r].score = sc(r) /\ Now[q].score = sc(q)
        /\ Now[r].member = W[r] /\ Now[q].member = W[q]
    BY <1>1
  <2> HIDE DEF sc, W
  <2>4. QED
    BY <2>2, <2>3 DEF Ranking!Precedes, Ranking!Less
<1>5. m \in Int /\ (s # NaN => s \in Int)
  BY SkipListAssumption
<1>6. \A r \in DOMAIN W :
        /\ Before(W[r], m, s) <=> s # NaN /\ (sc(r) < s \/ (sc(r) = s /\ W[r] < m))
        /\ Before(W[r], m, s) <=> W[r] \in Smaller(m, s)
  BY <1>1, <1>3 DEF Before, Smaller
<1>7. ASSUME NEW r \in DOMAIN W, NEW q \in DOMAIN W, r < q, Before(W[q], m, s)
      PROVE  Before(W[r], m, s)
  <2>1. sc(r) < sc(q) \/ (sc(r) = sc(q) /\ W[r] < W[q])
    BY <1>4, <1>7
  <2>2. s # NaN /\ (sc(q) < s \/ (sc(q) = s /\ W[q] < m))
    BY <1>6, <1>7
  <2>3. sc(r) \in Int /\ sc(q) \in Int /\ s \in Int /\ W[r] \in Int /\ W[q] \in Int
    BY <1>1, <1>3, <1>5, <2>2
  <2> HIDE DEF sc, W
  <2>4. sc(r) < s \/ (sc(r) = s /\ W[r] < m)
    BY <1>5, <2>1, <2>2, <2>3
  <2>5. QED
    BY <1>6, <2>2, <2>4
<1> HIDE DEF W, sc
<1>8. ASSUME NEW r \in DOMAIN W PROVE Before(W[r], m, s) <=> r <= J[0]
  <2>1. ASSUME r <= J[0] PROVE Before(W[r], m, s)
    <3>1. J[0] \in DOMAIN W /\ J[0] > 0 /\ (r = J[0] \/ r < J[0])
      BY <1>1, <1>2, <2>1
    <3>2. Before(W[J[0]], m, s)
      BY <1>2, <1>6, <3>1 DEF StopIn
    <3>3. QED
      BY <1>7, <3>1, <3>2
  <2>2. ASSUME ~(r <= J[0]) PROVE ~Before(W[r], m, s)
    <3>1. J[0] < Len(W) /\ J[0] + 1 \in DOMAIN W /\ (r = J[0] + 1 \/ J[0] + 1 < r)
      BY <1>1, <1>2, <2>2
    <3>2. ~Before(W[J[0] + 1], m, s)
      BY <1>2, <1>6, <3>1 DEF StopIn
    <3>3. QED
      BY <1>7, <3>1, <3>2
  <2>3. QED
    BY <2>1, <2>2
<1>9. QED
  BY <1>2, <1>8 DEF W

\* An update in place is a step Rescore.
LEMMA ZaddExistingRescores ==
  ASSUME IInv, NEW m \in Member, NEW s \in Score, ZaddExisting(m, s)
  PROVE  Ranking!Rescore(m, s)
<1>1. PICK i \in DOMAIN Walk(0) : Walk(0)[i] = m
  BY DEF ZaddExisting, Found
<1>2. score' = [score EXCEPT ![m] = s] /\ reply' = 1 /\ Walk(0)' = Walk(0)
  BY DEF ZaddExisting, Walk, From
<1>3. /\ Distinct(Walk(0)) /\ DOMAIN Now = DOMAIN Walk(0)
      /\ \A r \in DOMAIN Walk(0) : /\ Walk(0)[r] \in Alive
                                   /\ Now[r] = [member |-> Walk(0)[r], score |-> score[Walk(0)[r]]]
  BY NowProperties
<1>4. Now' = [Now EXCEPT ![i].score = s]
  <2> DEFINE W == Walk(0)
             R == [Now EXCEPT ![i].score = s]
             Q == [r \in DOMAIN W |-> [member |-> W[r], score |-> score'[W[r]]]]
  <2>1. Now' = Q
    BY <1>2 DEF Now, RankingBy
  <2>2. ASSUME NEW r \in DOMAIN W PROVE Q[r] = R[r]
    <3>1. CASE r = i
      <4>1. score'[W[r]] = s
        BY <1>1, <1>2, <1>3, <3>1 DEF Alive
      <4>2. Now[i] = [member |-> W[i], score |-> score[W[i]]]
        BY <1>1, <1>3
      <4>3. R[i] = [member |-> W[i], score |-> s]
        BY <1>1, <1>3, <4>2
      <4>4. QED
        BY <3>1, <4>1, <4>3
    <3>2. CASE r # i
      <4>1. W[r] # m
        BY <1>1, <1>3, <2>2, <3>2 DEF Distinct
      <4>2. score'[W[r]] = score[W[r]]
        BY <1>2, <1>3, <4>1 DEF Alive
      <4>3. R[r] = Now[r]
        BY <1>3, <3>2
      <4>4. QED
        BY <1>3, <4>2, <4>3
    <3>3. QED
      BY <3>1, <3>2
  <2>3. R = [r \in DOMAIN W |-> R[r]]
    BY <1>3
  <2> HIDE DEF R, W
  <2>4. Q = R
    BY <2>2, <2>3
  <2>5. QED
    BY <2>1, <2>4 DEF R
<1>5. i \in DOMAIN Now /\ Now[i].member = m
  BY <1>1, <1>3
<1>6. QED
  BY <1>2, <1>4, <1>5, RescoreIs

\* An insert is a step AddNew: the place at which the search on level 0 stops is, as long
\* as the ranking is sorted, the number of entries before the new one.
LEMMA ZaddNewAdds ==
  ASSUME IInv, NEW m \in Member, NEW s \in Score, NEW h \in 1..MaxLevel, ZaddNew(m, s, h)
  PROVE  Ranking!AddNew(m, s)
<1> DEFINE e == [member |-> m, score |-> s]
<1>1. PICK J :
        /\ Stops(m, s, J)
        /\ J[0] \in Nat
        /\ \A r \in DOMAIN Walk(0) : Walk(0)[r] # m
        /\ Without(Walk(0)', J[0] + 1, Walk(0)) /\ Walk(0)'[J[0] + 1] = m
  <2>1. 0 \in Level /\ 0 < h
    BY SkipListAssumption DEF Level
  <2>2. QED
    BY <2>1, ZaddLevels
<1>2. score' = [n \in Alive \cup {m} |-> IF n = m THEN s ELSE score[n]] /\ reply' = 1
  BY DEF ZaddNew
<1>3. /\ DOMAIN Now = DOMAIN Walk(0) /\ Len(Now) = Len(Walk(0)) /\ Len(Walk(0)) \in Nat
      /\ DOMAIN Walk(0) = 1..Len(Walk(0))
      /\ \A r \in DOMAIN Walk(0) :
           /\ Walk(0)[r] \in Alive /\ score[Walk(0)[r]] \in Score
           /\ Now[r] = [member |-> Walk(0)[r], score |-> score[Walk(0)[r]]]
  BY NowProperties
<1>4. {j \in DOMAIN Now : Now[j].member = m} = {}
  BY <1>1, <1>3
<1>5. Now' = InsertAt(Now, J[0] + 1, e)
  <2>1. score'[m] = s /\ \A r \in DOMAIN Walk(0) : score'[Walk(0)[r]] = score[Walk(0)[r]]
    BY <1>1, <1>2, <1>3
  <2>2. RankingBy(Walk(0)', score') = InsertAt(RankingBy(Walk(0), score), J[0] + 1,
          [member |-> Walk(0)'[J[0] + 1], score |-> score'[Walk(0)'[J[0] + 1]]])
    BY <1>1, <1>3, <2>1, RankingInsert
  <2>3. QED
    BY <1>1, <2>1, <2>2 DEF Now
<1>6. J[0] + 1 \in 1..(Len(Now) + 1)
  <2>1. Len(Walk(0)') = Len(Walk(0)) + 1 /\ J[0] + 1 \in 1..Len(Walk(0)')
    BY <1>1 DEF Without
  <2>2. QED
    BY <1>3, <2>1
<1>7. ASSUME Ranking!Sorted(Now)
      PROVE  J[0] + 1 = 1 + Cardinality({j \in DOMAIN Now : Ranking!Precedes(Now[j], e)})
  <2>1. /\ J[0] \in 0..Len(Walk(0))
        /\ \A r \in DOMAIN Walk(0) : Before(Walk(0)[r], m, s) <=> r <= J[0]
    BY <1>1, <1>7, SortedSearch
  <2>2. \A r \in DOMAIN Walk(0) : Ranking!Precedes(Now[r], e) <=> Before(Walk(0)[r], m, s)
    BY <1>3 DEF Ranking!Precedes, Ranking!Less, Before
  <2>3. {j \in DOMAIN Now : Ranking!Precedes(Now[j], e)} = 1..J[0]
    <3> HIDE DEF e
    <3>1. ASSUME NEW r \in DOMAIN Now PROVE Ranking!Precedes(Now[r], e) <=> r \in 1..J[0]
      BY <1>3, <2>1, <2>2
    <3>2. 1..J[0] \subseteq DOMAIN Now
      BY <1>3, <2>1
    <3>3. QED
      BY <3>1, <3>2
  <2>4. Cardinality(1..J[0]) = J[0]
    <3> DEFINE a == 1
               b == J[0]
    <3>1. a \in Int /\ b \in Nat
      BY <1>1
    <3> HIDE DEF a, b
    <3>2. Cardinality(a..b) = IF a > b THEN 0 ELSE b - a + 1
      BY <3>1, FS_Interval
    <3>3. QED
      BY <3>1, <3>2 DEF a, b
  <2> DEFINE c == Cardinality({j \in DOMAIN Now : Ranking!Precedes(Now[j], e)})
  <2>5. c = J[0]
    BY <2>3, <2>4
  <2> HIDE DEF c
  <2>6. J[0] + 1 = 1 + c
    BY <1>1, <2>5
  <2>7. QED
    BY <2>6 DEF c
<1> HIDE DEF e
<1>8. QED
  BY <1>2, <1>4, <1>5, <1>6, <1>7, AddNewIs DEF e

\* A delete that finds its node is a step Rem.
LEMMA ZremRemoves ==
  ASSUME IInv, NEW m \in Member, Zrem(m)
  PROVE  Ranking!Rem(m)
<1>1. PICK i : Without(Walk(0), i, Walk(0)') /\ Walk(0)[i] = m
  <2>1. 0 \in Level /\ On(m, 0)
    BY SkipListAssumption DEF Level, Zrem, Found, On
  <2>2. QED
    BY <2>1, ZremLevels
<1>2. score' = [n \in Alive \ {m} |-> score[n]] /\ reply' = 1
  BY DEF Zrem, Alive, Restrict
<1>3. /\ DOMAIN Now = DOMAIN Walk(0) /\ Distinct(Walk(0))
      /\ \A r \in DOMAIN Walk(0) :
           /\ Walk(0)[r] \in Alive /\ score[Walk(0)[r]] \in Score
           /\ Now[r] = [member |-> Walk(0)[r], score |-> score[Walk(0)[r]]]
  BY NowProperties
<1>4. /\ i \in DOMAIN Walk(0)
      /\ \A r \in DOMAIN Walk(0)' : /\ Walk(0)'[r] = Walk(0)[Skip(i, r)]
                                    /\ Skip(i, r) \in DOMAIN Walk(0) /\ Skip(i, r) # i
  BY <1>1, WithoutProperties
<1>5. \A r \in DOMAIN Walk(0)' : score'[Walk(0)'[r]] = score[Walk(0)'[r]]
  <2> TAKE r \in DOMAIN Walk(0)'
  <2>1. Walk(0)'[r] \in Alive /\ Walk(0)'[r] # m
    BY <1>1, <1>3, <1>4 DEF Distinct
  <2>2. QED
    BY <1>2, <2>1
<1>6. Now' = RemoveAt(Now, i)
  <2>1. RankingBy(Walk(0)', score') = RemoveAt(RankingBy(Walk(0), score), i)
    <3>1. Without(Walk(0), i, Walk(0)')
      BY <1>1
    <3>2. \A r \in DOMAIN Walk(0) : score[Walk(0)[r]] \in Score
      BY <1>3
    <3>3. QED
      BY <1>5, <3>1, <3>2, RankingRemove
  <2>2. QED
    BY <2>1 DEF Now
<1>7. i \in DOMAIN Now /\ Now[i].member = m
  BY <1>1, <1>3, <1>4
<1>8. QED
  BY <1>2, <1>6, <1>7, RemIs

\* A delete that finds nothing is a step Refuse: a search that misses a node which is there
\* shows that the ranking is not sorted.
LEMMA ZremMissingRefuses ==
  ASSUME IInv, NEW m \in Member, ZremMissing(m)
  PROVE  Ranking!Refuse(m)
<1> DEFINE W == Walk(0)
<1>1. /\ Found(m) => Target(m) # m
      /\ reply' = 0 /\ next' = next /\ score' = score
  BY DEF ZremMissing, list
<1>2. Now' = Now
  BY <1>1 DEF Now, RankingBy, Walk, From
<1>3. /\ DOMAIN Now = DOMAIN W /\ Distinct(W) /\ DOMAIN W = 1..Len(W) /\ Len(W) \in Nat
      /\ \A r \in DOMAIN W :
           /\ W[r] \in Alive /\ score[W[r]] \in Score /\ W[r] \in Member
           /\ Now[r] = [member |-> W[r], score |-> score[W[r]]]
  BY NowProperties
<1>4. CASE ~Found(m)
  <2>1. {j \in DOMAIN Now : Now[j].member = m} = {}
    BY <1>3, <1>4 DEF Found
  <2>2. QED
    BY <1>1, <1>2, <2>1, RefuseIs
<1>5. CASE Found(m)
  <2>1. PICK p \in DOMAIN W : W[p] = m
    BY <1>5 DEF Found
  <2>2. PICK J : Stops(m, score[m], J)
    BY SearchDown
  <2>3. ASSUME Ranking!Sorted(Now) PROVE FALSE
    <3>1. score[m] \in Score
      BY <1>3, <2>1
    <3>2. /\ J[0] \in 0..Len(W)
          /\ \A r \in DOMAIN W : Before(W[r], m, score[m]) <=> r <= J[0]
      BY <2>2, <2>3, <3>1, SortedSearch
    \* m is not before itself, and all that is ahead of it in the ranking is.
    <3>3. score[m] # NaN /\ score[m] \in Int /\ m \in Int
      <4>1. Now[p].score # NaN
        BY <1>3, <2>1, <2>3 DEF Ranking!Sorted
      <4>2. Now[p].score = score[m]
        BY <1>3, <2>1
      <4>3. QED
        BY <3>1, <4>1, <4>2, SkipListAssumption
    <3>4. ~Before(W[p], m, score[m])
      BY <2>1, <3>3 DEF Before
    <3>5. ASSUME NEW r \in DOMAIN W, r < p PROVE Before(W[r], m, score[m])
      <4>1. Ranking!Precedes(Now[r], Now[p])
        BY <1>3, <2>1, <2>3, <3>5 DEF Ranking!Sorted
      <4>2. /\ Now[r].score = score[W[r]] /\ Now[r].member = W[r]
            /\ Now[p].score = score[m] /\ Now[p].member = m
        BY <1>3, <2>1
      <4>3. Now[r].score # NaN
        BY <1>3, <2>3 DEF Ranking!Sorted
      <4> HIDE DEF W
      <4>4. QED
        BY <3>3, <4>1, <4>2, <4>3 DEF Ranking!Precedes, Ranking!Less, Before
    <3> HIDE DEF W
    <3>6. p = J[0] + 1
      <4>1. ~(p <= J[0]) /\ p \in 1..Len(W)
        BY <1>3, <2>1, <3>2, <3>4
      <4>2. ~(J[0] + 1 < p)
        <5> SUFFICES ASSUME J[0] + 1 < p PROVE FALSE
          OBVIOUS
        <5>1. J[0] + 1 \in DOMAIN W /\ ~(J[0] + 1 <= J[0])
          BY <1>3, <3>2, <4>1
        <5>2. QED
          BY <3>2, <3>5, <5>1
      <4>3. QED
        BY <1>3, <3>2, <4>1, <4>2
    <3>7. Chained(next[0], W) /\ Update(m, score[m])[0] = Nth(W, J[0])
      <4>1. 0 \in Level /\ 0 \in 0..(maxLevel - 1)
        BY SkipListAssumption DEF IInv, TypeOK, Level
      <4>2. QED
        BY <2>2, <4>1 DEF IInv, LevelsLinked, Stops, W
    <3>8. Target(m) = Nth(W, J[0] + 1)
      BY <3>2, <3>7 DEF Target, Chained
    <3>9. Nth(W, J[0] + 1) = m
      <4>1. p # 0
        BY <1>3, <2>1
      <4>2. QED
        BY <2>1, <3>6, <4>1 DEF Nth
    <3>10. QED
      BY <1>1, <1>5, <3>8, <3>9
  <2>4. QED
    BY <1>1, <1>2, <2>3, RefuseIs
<1>6. QED
  BY <1>4, <1>5

\* The levels, pointers and searches implement the ranking: a new member lands at its
\* rank and a delete finds its member as long as the scores are in order, and nothing
\* else is added, moved or lost when they are not.
THEOREM ListIsRanking == Spec => RankingSpec
<1>1. Init => Ranking!Init
  <2> SUFFICES ASSUME Init PROVE Ranking!Init
    OBVIOUS
  <2>1. Walk(0) = <<>>
    <3>1. 0 \in Level /\ next[0][HeadNode] = NULL
      BY SkipListAssumption DEF Init, Level, Node
    <3>2. Chained(next[0], Walk(0))
      BY <3>1, InitIInv DEF IInv, LevelsLinked
    <3>3. QED
      BY <3>1, <3>2, EmptyLevel
  <2>2. [r \in DOMAIN Walk(0) |-> Entry(Walk(0)[r])] = <<>>
    BY <2>1
  <2>3. QED
    BY <2>2 DEF Init, Ranking!Init
<1>2. IInv /\ [execute_command]_vars => [Ranking!Next]_(Ranking!vars)
  <2> SUFFICES ASSUME IInv, [execute_command]_vars PROVE [Ranking!Next]_(Ranking!vars)
    OBVIOUS
  <2>1. CASE execute_command
    <3>1. PICK m \in Member :
            \/ \E s \in Score : ZaddExisting(m, s) \/ \E h \in 1..MaxLevel : ZaddNew(m, s, h)
            \/ Zrem(m) \/ ZremMissing(m)
      BY <2>1 DEF execute_command
    <3>2. ASSUME NEW s \in Score, ZaddExisting(m, s) PROVE Ranking!Next
      BY <3>2, ZaddExistingRescores DEF Ranking!Next
    <3>3. ASSUME NEW s \in Score, NEW h \in 1..MaxLevel, ZaddNew(m, s, h) PROVE Ranking!Next
      BY <3>3, ZaddNewAdds DEF Ranking!Next
    <3>4. CASE Zrem(m)
      BY <3>4, ZremRemoves DEF Ranking!Next
    <3>5. CASE ZremMissing(m)
      BY <3>5, ZremMissingRefuses DEF Ranking!Next
    <3>6. QED
      BY <3>1, <3>2, <3>3, <3>4, <3>5
  <2>2. CASE UNCHANGED vars
    <3>1. next' = next /\ score' = score /\ reply' = reply
      BY <2>2 DEF vars, list
    <3>2. Now' = Now
      BY <3>1 DEF Now, RankingBy, Walk, From
    <3>3. UNCHANGED Ranking!vars
      BY <3>1, <3>2, RankingIs DEF Ranking!vars
    <3>4. QED
      BY <3>3
  <2>3. QED
    BY <2>1, <2>2
<1>3. QED
  BY <1>1, <1>2, Invariance, PTL DEF Spec, RankingSpec, Ranking!Spec
=============================================================================
