--------------------------- MODULE HashTable_proofs ---------------------------
(***************************************************************************)
(* Proofs about the hash tables of ch9 and ch10, for any keys, values,     *)
(* hash function and sizes: every entry is in its place and no key has     *)
(* two, the counter counts, the server's table never gets more than three  *)
(* quarters full, and the table answers as a map, through every resize.    *)
(***************************************************************************)
EXTENDS HashTable, CommonLemmas

\* The chains b are those of a table of size n: a chain has entries that belong in
\* it, with different keys.
Placed(b, n) ==
  /\ n \in Nat \ {0} /\ DOMAIN b = 0..(n - 1)
  /\ \A i \in DOMAIN b :
       /\ b[i] \in Seq(Entry) /\ KeysDiffer(b[i])
       /\ \A p \in DOMAIN b[i] : Hash[b[i][p].key] % n = i

\* All entries of the chain c belong in place i.
Belong(c, n, i) == \A e \in Range(c) : Hash[e.key] % n = i

EntriesIn(b) == UNION {Range(b[i]) : i \in DOMAIN b}

\* A table t, [buckets, size, threshold, count], is as it should be.
Sound(t) ==
  /\ Placed(t.buckets, t.size) /\ t.threshold = Threshold(t.size)
  /\ IsFiniteSet(EntriesIn(t.buckets)) /\ t.count = Cardinality(EntriesIn(t.buckets))

IInv == Sound(Unchanged) /\ LoadBounded

-----------------------------------------------------------------------------
(* Chains *)

\* An entry is in the chain its hash selects, so that no two chains share a key.
LEMMA PlacedProperties ==
  ASSUME NEW b, NEW n, Placed(b, n)
  PROVE  /\ EntriesIn(b) \subseteq Entry /\ Keyed(EntriesIn(b))
         /\ \A e : e \in EntriesIn(b) <=> \E i \in DOMAIN b : e \in Range(b[i])
         /\ \A i \in DOMAIN b : \A e : e \in Range(b[i]) => Hash[e.key] % n = i
         /\ \A i \in DOMAIN b :
              /\ Range(b[i]) = ToSet(b[i]) /\ Keyed(Range(b[i]))
              /\ KeysIn(Range(b[i])) = KeysOf(b[i])
<1>1. \A e : e \in EntriesIn(b) <=> \E i \in DOMAIN b : e \in Range(b[i])
  BY DEF EntriesIn
<1>2. \A i \in DOMAIN b : Range(b[i]) = ToSet(b[i])
  BY DEF Range, ToSet
<1>3. \A i \in DOMAIN b : /\ Range(b[i]) \subseteq Entry /\ Keyed(Range(b[i]))
                          /\ KeysIn(Range(b[i])) = KeysOf(b[i])
  BY <1>2, EntriesProperties DEF Placed
<1>4. \A i \in DOMAIN b : \A e : e \in Range(b[i]) => Hash[e.key] % n = i
  BY DEF Placed, Range
<1>5. ASSUME NEW d \in EntriesIn(b), NEW e \in EntriesIn(b), d.key = e.key PROVE d = e
  <2>1. PICK i \in DOMAIN b : d \in Range(b[i])
    BY <1>1
  <2>2. PICK j \in DOMAIN b : e \in Range(b[j])
    BY <1>1
  <2>3. i = j
    BY <1>4, <1>5, <2>1, <2>2
  <2>4. QED
    BY <1>3, <1>5, <2>1, <2>2, <2>3 DEF Keyed
<1>6. EntriesIn(b) \subseteq Entry
  BY <1>1, <1>3
<1>7. QED
  BY <1>1, <1>2, <1>3, <1>4, <1>5, <1>6 DEF Keyed

\* Another chain in place of one.
LEMMA ChainReplaced ==
  ASSUME NEW b, NEW n, Placed(b, n), NEW i \in DOMAIN b, NEW c \in Seq(Entry), KeysDiffer(c),
         Belong(c, n, i),
         NEW r, DOMAIN r = DOMAIN b, r[i] = c, \A j \in DOMAIN b : j # i => r[j] = b[j]
  PROVE  Placed(r, n) /\ EntriesIn(r) = (EntriesIn(b) \ Range(b[i])) \cup Range(c)
<1>1. DOMAIN r = DOMAIN b /\ r[i] = c /\ \A j \in DOMAIN b : j # i => r[j] = b[j]
  OBVIOUS
<1>2. Placed(r, n)
  BY <1>1 DEF Placed, Range, Belong
<1>3. ASSUME NEW e
      PROVE  e \in EntriesIn(r) <=> e \in (EntriesIn(b) \ Range(b[i])) \cup Range(c)
  <2>1. e \in EntriesIn(r) <=> \E j \in DOMAIN b : e \in Range(r[j])
    BY <1>1, <1>2, PlacedProperties
  <2>2. e \in EntriesIn(b) <=> \E j \in DOMAIN b : e \in Range(b[j])
    BY PlacedProperties
  <2>3. \A j \in DOMAIN b : j # i /\ e \in Range(b[j]) => e \notin Range(b[i])
    BY PlacedProperties
  <2>4. QED
    BY <1>1, <2>1, <2>2, <2>3
<1>4. QED
  BY <1>2, <1>3

\* What the search in a chain finds.
LEMMA PositionProperties ==
  ASSUME NEW c \in Seq(Entry), NEW k
  PROVE  \/ Position(c, k) = 0 /\ k \notin KeysOf(c)
         \/ Position(c, k) \in DOMAIN c /\ Position(c, k) # 0 /\ c[Position(c, k)].key = k
<1> DEFINE I == {i \in 1..Len(c) : c[i].key = k}
<1>1. DOMAIN c = 1..Len(c) /\ Len(c) \in Nat
  BY LenProperties
<1>2. Position(c, k) = IF I # {} THEN Min(I) ELSE 0
  BY DEF Position, SelectInSeq
<1>3. I # {} => Min(I) \in I
  <2>1. I \in SUBSET Nat
    BY <1>1
  <2>2. QED
    BY <2>1, MinProperties
<1>4. QED
  BY <1>1, <1>2, <1>3 DEF KeysOf

\* The entry a search finds is the key's; without one the key is not in the table.
LEMMA SearchProperties ==
  ASSUME NEW b, NEW n, Placed(b, n), NEW k \in Key
  PROVE  LET i == Hash[k] % n
             p == Position(b[i], k)
         IN  /\ i \in DOMAIN b
             /\ p = 0 => k \notin KeysIn(EntriesIn(b))
             /\ p # 0 => p \in DOMAIN b[i] /\ b[i][p] \in EntriesIn(b) /\ b[i][p].key = k
<1> DEFINE i == Hash[k] % n
           p == Position(b[i], k)
<1>1. i \in DOMAIN b
  BY HashTableAssumption DEF Placed
<1> HIDE DEF i
<1>2. b[i] \in Seq(Entry)
  BY <1>1 DEF Placed
<1>3. \/ p = 0 /\ k \notin KeysOf(b[i])
      \/ p \in DOMAIN b[i] /\ p # 0 /\ b[i][p].key = k
  BY <1>2, PositionProperties
<1> HIDE DEF p
<1>4. p = 0 => k \notin KeysIn(EntriesIn(b))
  <2> SUFFICES ASSUME p = 0, NEW e \in EntriesIn(b), e.key = k PROVE FALSE
    BY DEF KeysIn
  <2>1. PICK j \in DOMAIN b : e \in Range(b[j])
    BY PlacedProperties
  <2>2. j = i
    BY <2>1, PlacedProperties DEF i
  <2>3. k \in KeysIn(Range(b[i]))
    BY <2>1, <2>2 DEF KeysIn
  <2>4. QED
    BY <1>1, <1>3, <2>3, PlacedProperties
<1>5. p # 0 => b[i][p] \in EntriesIn(b)
  BY <1>1, <1>3, PlacedProperties DEF Range
<1>6. QED
  BY <1>1, <1>3, <1>4, <1>5 DEF i, p

-----------------------------------------------------------------------------
(* The walk and the resize *)

\* The walk has every entry once.
LEMMA WalkProperties ==
  ASSUME Placed(buckets, size)
  PROVE  /\ Walk \in Seq(Entry) /\ KeysDiffer(Walk) /\ Range(Walk) = Entries
         /\ IsFiniteSet(Entries) /\ Cardinality(Entries) = Len(Walk)
<1> DEFINE n == Cardinality(Places)
           Before(x, y) == x[1] < y[1] \/ (x[1] = y[1] /\ x[2] < y[2])
           at == Arrange(Places, Before)
           R == {z \in Places \X Places : Before(z[1], z[2])}
<1>1. \A x \in Places : /\ x = <<x[1], x[2]>> /\ x[1] \in DOMAIN buckets
                        /\ x[2] \in DOMAIN buckets[x[1]] /\ x[1] \in Nat /\ x[2] \in Nat
  <2> TAKE x \in Places
  <2>1. PICK i \in DOMAIN buckets : x \in {i} \X DOMAIN buckets[i]
    BY DEF Places
  <2>2. i \in Nat /\ DOMAIN buckets[i] \subseteq Nat
    <3>1. DOMAIN buckets[i] = 1..Len(buckets[i]) /\ Len(buckets[i]) \in Nat
      BY LenProperties DEF Placed
    <3>2. QED
      BY <3>1 DEF Placed
  <2>3. QED
    BY <2>1, <2>2
<1>2. \A i \in DOMAIN buckets : \A p \in DOMAIN buckets[i] : <<i, p>> \in Places
  BY DEF Places
<1>3. IsFiniteSet(Places)
  <2> DEFINE Row(i) == {i} \X DOMAIN buckets[i]
  <2>1. ASSUME NEW i \in DOMAIN buckets PROVE IsFiniteSet(Row(i))
    <3>1. DOMAIN buckets[i] = 1..Len(buckets[i]) /\ Len(buckets[i]) \in Nat
      BY LenProperties DEF Placed
    <3>2. IsFiniteSet(1..Len(buckets[i]))
      BY <3>1, FS_Interval
    <3>3. IsFiniteSet({i})
      BY FS_Singleton
    <3>4. QED
      BY <3>1, <3>2, <3>3, FS_Product
  <2>2. IsFiniteSet({Row(i) : i \in DOMAIN buckets})
    <3> DEFINE f == [i \in DOMAIN buckets |-> Row(i)]
    <3>1. f \in Surjection(DOMAIN buckets, {Row(i) : i \in DOMAIN buckets})
      BY DEF Surjection
    <3>2. IsFiniteSet(DOMAIN buckets)
      BY FS_Interval DEF Placed
    <3>3. QED
      BY <3>1, <3>2, FS_Surjection
  <2>3. QED
    BY <2>1, <2>2, FS_UNION DEF Places
<1>4. \A x, y \in Places : <<x, y>> \in R <=> Before(x, y)
  OBVIOUS
<1>5. Orders(R, Places)
  <2> HIDE DEF R
  <2>1. \A x \in Places : ~Before(x, x)
    BY <1>1
  <2>2. \A x, y \in Places : x # y => Before(x, y) \/ Before(y, x)
    <3> TAKE x, y \in Places
    <3>1. /\ x = <<x[1], x[2]>> /\ y = <<y[1], y[2]>>
          /\ x[1] \in Nat /\ x[2] \in Nat /\ y[1] \in Nat /\ y[2] \in Nat
      BY <1>1
    <3>2. x # y => x[1] # y[1] \/ x[2] # y[2]
      BY <3>1
    <3>3. QED
      BY <3>1, <3>2
  <2>3. \A x, y, z \in Places : Before(x, y) /\ Before(y, z) => Before(x, z)
    BY <1>1
  <2> HIDE DEF Before
  <2>4. QED
    BY <1>4, <2>1, <2>2, <2>3 DEF Orders
<1> HIDE DEF R
<1>6. n \in Nat
  BY <1>3, FS_CardinalityType
<1>7. at \in [1..n -> Places] /\ \A p, q \in 1..n : p < q => Before(at[p], at[q])
  <2>1. PICK f \in [1..n -> Places] : InOrder(f, n, R)
    BY <1>3, <1>5, ArrangementExists
  <2>2. \A p, q \in 1..n : p < q => Before(f[p], f[q])
    <3> HIDE DEF Before
    <3>1. QED
      BY <1>4, <2>1 DEF InOrder
  <2>3. QED
    BY <2>2 DEF Arrange
<1>8. Walk = [p \in 1..n |-> buckets[at[p][1]][at[p][2]]]
  BY DEF Walk
<1> HIDE DEF at
<1>9. /\ \A p, q \in 1..n : at[p] = at[q] => p = q
      /\ \A x \in Places : \E p \in 1..n : at[p] = x
  <2>1. InOrder(at, n, R)
    <3> HIDE DEF Before
    <3>1. QED
      BY <1>4, <1>7 DEF InOrder
  <2>2. at \in [1..n -> Places]
    BY <1>7
  <2>3. QED
    BY <1>3, <1>5, <1>6, <2>1, <2>2, ArrangementOnce
<1>10. \A x \in Places : buckets[x[1]][x[2]] \in Range(buckets[x[1]])
  BY <1>1 DEF Range
<1>11. \A p \in 1..n : Walk[p] \in Entry
  BY <1>1, <1>7, <1>8, <1>10, PlacedProperties
<1>12. Walk \in Seq(Entry) /\ Len(Walk) = n /\ DOMAIN Walk = 1..n
  BY <1>6, <1>8, <1>11, IsASeq, LenProperties
<1>13. KeysDiffer(Walk)
  <2> SUFFICES ASSUME NEW p \in 1..n, NEW q \in 1..n, Walk[p].key = Walk[q].key PROVE p = q
    BY <1>12 DEF KeysDiffer
  <2> DEFINE x == at[p]
             y == at[q]
  <2>1. x \in Places /\ y \in Places
    BY <1>7
  <2>2. /\ Walk[p] = buckets[x[1]][x[2]] /\ Walk[q] = buckets[y[1]][y[2]]
    BY <1>8
  <2> HIDE DEF x, y
  <2>3. x[1] = y[1]
    BY <1>1, <1>10, <2>1, <2>2, PlacedProperties
  <2>4. x[2] = y[2]
    BY <1>1, <2>1, <2>2, <2>3 DEF Placed, KeysDiffer
  <2>5. x = y
    BY <1>1, <2>1, <2>3, <2>4
  <2>6. QED
    BY <1>9, <2>5 DEF x, y
<1>14. Range(Walk) = Entries
  <2>1. ASSUME NEW e \in Range(Walk) PROVE e \in Entries
    <3>1. PICK p \in 1..n : e = Walk[p]
      BY <1>12 DEF Range
    <3>2. e \in Range(buckets[at[p][1]]) /\ at[p][1] \in DOMAIN buckets
      BY <1>1, <1>7, <1>8, <1>10, <3>1
    <3>3. QED
      BY <3>2 DEF Entries
  <2>2. ASSUME NEW e \in Entries PROVE e \in Range(Walk)
    <3>1. PICK i \in DOMAIN buckets : e \in Range(buckets[i])
      BY DEF Entries
    <3>2. PICK r \in DOMAIN buckets[i] : e = buckets[i][r]
      BY <3>1 DEF Range
    <3>3. PICK p \in 1..n : at[p] = <<i, r>>
      BY <1>2, <1>9
    <3>4. Walk[p] = e
      BY <1>8, <3>2, <3>3
    <3>5. QED
      BY <1>12, <3>4 DEF Range
  <2>3. QED
    BY <2>1, <2>2
<1>15. Range(Walk) = ToSet(Walk)
  BY DEF Range, ToSet
<1>16. IsFiniteSet(Entries) /\ Cardinality(Entries) = Len(Walk)
  <2> DEFINE f == [p \in 1..n |-> Walk[p]]
  <2>1. f \in Bijection(1..n, Entries)
    <3>1. f \in [1..n -> Entries] /\ \A e \in Entries : \E p \in 1..n : f[p] = e
      BY <1>12, <1>14 DEF Range
    <3>2. \A p, q \in 1..n : f[p] = f[q] => p = q
      BY <1>12, <1>13 DEF KeysDiffer
    <3> HIDE DEF f
    <3>3. QED
      BY <3>1, <3>2, Fun_IsBij
  <2>2. ExistsBijection(1..n, Entries)
    BY <2>1 DEF ExistsBijection
  <2>3. Cardinality(1..n) = IF 1 > n THEN 0 ELSE n - 1 + 1
    BY <1>6, FS_Interval
  <2>4. IsFiniteSet(1..n)
    BY <1>6, FS_Interval
  <2>5. QED
    BY <1>6, <1>12, <2>2, <2>3, <2>4, FS_Bijection
<1>17. QED
  BY <1>12, <1>13, <1>14, <1>16

\* The part of an array at some positions, turned round.
LEMMA PartReversed ==
  ASSUME NEW T, NEW s \in Seq(T), KeysDiffer(s), NEW I \in SUBSET DOMAIN s
  PROVE  LET c == Reverse(PartAt(s, I))
         IN  c \in Seq(T) /\ KeysDiffer(c) /\ Range(c) = {s[i] : i \in I}
<1> DEFINE part == PartAt(s, I)
           m == Cardinality(I)
           c == Reverse(part)
<1>1. part \in Seq(T) /\ IsFiniteSet(I) /\ Len(part) = m
  BY PartAtProperties
<1>2. PICK at \in [1..m -> I] :
        /\ \A p, q \in 1..m : p < q => at[p] < at[q]
        /\ \A i \in I : \E p \in 1..m : at[p] = i
        /\ \A p \in 1..m : part[p] = s[at[p]]
  BY PartAtProperties, SMTT(30)
<1>3. m \in Nat
  BY <1>1, FS_CardinalityType
<1>4. c = [j \in 1..m |-> part[m - j + 1]]
  BY <1>1 DEF Reverse
<1> HIDE DEF part, c, m
<1>5. \A j \in 1..m : m - j + 1 \in 1..m /\ m - (m - j + 1) + 1 = j
  BY <1>3
<1>6. \A j \in 1..m : c[j] = s[at[m - j + 1]]
  BY <1>2, <1>4, <1>5
<1>7. DOMAIN s \subseteq Nat
  <2>1. DOMAIN s = 1..Len(s) /\ Len(s) \in Nat
    BY LenProperties
  <2>2. QED
    BY <2>1
<1>8. \A p, q \in 1..m : at[p] = at[q] => p = q
  <2> SUFFICES ASSUME NEW p \in 1..m, NEW q \in 1..m, at[p] = at[q] PROVE p = q
    OBVIOUS
  <2>1. at[p] \in Nat /\ ~(at[p] < at[q]) /\ ~(at[q] < at[p])
    BY <1>2, <1>7
  <2>2. QED
    BY <1>2, <1>3, <2>1
<1>9. \A j \in 1..m : c[j] \in T
  <2>1. \A i \in DOMAIN s : s[i] \in T
    <3>1. DOMAIN s = 1..Len(s)
      BY LenProperties
    <3>2. QED
      BY <3>1, ElementOfSeq
  <2>2. QED
    BY <1>2, <1>5, <1>6, <2>1
<1>10. c \in Seq(T) /\ DOMAIN c = 1..m
  BY <1>3, <1>4, <1>9, IsASeq
<1>11. KeysDiffer(c)
  <2> SUFFICES ASSUME NEW i \in 1..m, NEW j \in 1..m, c[i].key = c[j].key PROVE i = j
    BY <1>10 DEF KeysDiffer
  <2>1. m - i + 1 \in 1..m /\ m - j + 1 \in 1..m
    BY <1>5
  <2>2. at[m - i + 1] = at[m - j + 1]
    BY <1>2, <1>6, <2>1 DEF KeysDiffer
  <2>3. m - i + 1 = m - j + 1
    BY <1>8, <2>1, <2>2
  <2>4. QED
    BY <1>3, <2>3
<1>12. Range(c) = {s[i] : i \in I}
  <2>1. ASSUME NEW i \in I PROVE s[i] \in Range(c)
    <3>1. PICK p \in 1..m : at[p] = i
      BY <1>2
    <3>2. m - p + 1 \in 1..m /\ c[m - p + 1] = s[i]
      BY <1>5, <1>6, <3>1
    <3>3. QED
      BY <1>10, <3>2 DEF Range
  <2>2. ASSUME NEW e \in Range(c) PROVE e \in {s[i] : i \in I}
    BY <1>2, <1>5, <1>6, <1>10 DEF Range
  <2>3. QED
    BY <2>1, <2>2
<1>13. QED
  BY <1>10, <1>11, <1>12 DEF c, part

\* A resize keeps every entry and puts it where it belongs in the new table.
LEMMA RehashProperties ==
  ASSUME Placed(buckets, size), NEW n \in Nat \ {0}
  PROVE  Placed(Rehash(n), n) /\ EntriesIn(Rehash(n)) = Entries
<1> DEFINE At(i) == {p \in DOMAIN Walk : Hash[Walk[p].key] % n = i}
           r == Rehash(n)
<1>1. Walk \in Seq(Entry) /\ KeysDiffer(Walk) /\ Range(Walk) = Entries
  BY WalkProperties
<1>2. r = [i \in 0..(n - 1) |-> Reverse(PartAt(Walk, At(i)))]
  BY DEF Rehash
<1>3. ASSUME NEW i \in 0..(n - 1)
      PROVE  r[i] \in Seq(Entry) /\ KeysDiffer(r[i]) /\ Range(r[i]) = {Walk[p] : p \in At(i)}
  BY <1>1, <1>2, PartReversed
<1> HIDE DEF r
<1>4. ASSUME NEW i \in 0..(n - 1), NEW p \in DOMAIN r[i] PROVE Hash[r[i][p].key] % n = i
  <2>1. r[i][p] \in Range(r[i])
    BY DEF Range
  <2>2. Range(r[i]) = {Walk[q] : q \in At(i)}
    BY <1>3
  <2>3. PICK q \in At(i) : r[i][p] = Walk[q]
    BY <2>1, <2>2
  <2>4. QED
    BY <2>3
<1>5. DOMAIN r = 0..(n - 1)
  BY <1>2
<1>6. Placed(r, n)
  BY <1>3, <1>4, <1>5 DEF Placed
<1>7. ASSUME NEW e PROVE e \in EntriesIn(r) <=> e \in Entries
  <2>1. e \in EntriesIn(r) <=> \E i \in 0..(n - 1) : e \in Range(r[i])
    BY <1>5, <1>6, PlacedProperties
  <2>2. e \in Entries <=> \E p \in DOMAIN Walk : e = Walk[p]
    BY <1>1 DEF Range
  <2>3. ASSUME NEW p \in DOMAIN Walk PROVE Hash[Walk[p].key] % n \in 0..(n - 1)
    <3>1. DOMAIN Walk = 1..Len(Walk)
      BY <1>1, LenProperties
    <3>2. Walk[p] \in Entry
      BY <1>1, <3>1, ElementOfSeq
    <3>3. Hash[Walk[p].key] \in Nat
      BY <3>2, HashTableAssumption DEF Entry
    <3>4. QED
      BY <3>3
  <2>4. ASSUME NEW i \in 0..(n - 1), e \in Range(r[i]) PROVE e \in Entries
    <3>1. Range(r[i]) = {Walk[p] : p \in At(i)}
      BY <1>3
    <3>2. QED
      BY <2>2, <2>4, <3>1
  <2>5. ASSUME NEW p \in DOMAIN Walk, e = Walk[p]
        PROVE  \E i \in 0..(n - 1) : e \in Range(r[i])
    <3> DEFINE i == Hash[Walk[p].key] % n
    <3>1. i \in 0..(n - 1) /\ p \in At(i)
      BY <2>3
    <3> HIDE DEF i
    <3>2. Range(r[i]) = {Walk[q] : q \in At(i)}
      BY <1>3, <3>1
    <3> HIDE DEF At
    <3>3. QED
      BY <2>5, <3>1, <3>2
  <2>6. QED
    BY <2>1, <2>2, <2>4, <2>5
<1>8. QED
  BY <1>6, <1>7 DEF r

\* So a table that was sound is sound after ht_resize, and so is the one that a
\* failed resize leaves.
LEMMA ResizeSound ==
  ASSUME Sound(Unchanged), NEW n \in Nat \ {0}
  PROVE  /\ Sound(Resized(n)) /\ EntriesIn(Resized(n).buckets) = Entries
         /\ Resized(n).count = count /\ Resized(n).threshold = Threshold(n)
         /\ Sound(Restored) /\ EntriesIn(Restored.buckets) = Entries
         /\ EntriesIn(Unchanged.buckets) = Entries
<1>1. EntriesIn(buckets) = Entries
  BY DEF EntriesIn, Entries
<1>2. /\ Placed(buckets, size) /\ threshold = Threshold(size)
      /\ IsFiniteSet(Entries) /\ count = Cardinality(Entries)
  BY <1>1 DEF Sound, Unchanged
<1>3. /\ Placed(Rehash(n), n) /\ EntriesIn(Rehash(n)) = Entries /\ Len(Walk) = count
  BY <1>2, RehashProperties, WalkProperties
<1>4. /\ Resized(n).buckets = Rehash(n) /\ Resized(n).size = n
      /\ Resized(n).threshold = Threshold(n) /\ Resized(n).count = Len(Walk)
  BY DEF Resized
<1>5. /\ Restored.buckets = buckets /\ Restored.size = size /\ Restored.count = count
      /\ Restored.threshold = Threshold(size)
  BY DEF Restored, Unchanged
<1>6. Unchanged.buckets = buckets
  BY DEF Unchanged
<1>7. Sound(Resized(n)) /\ Sound(Restored)
  BY <1>1, <1>2, <1>3, <1>4, <1>5 DEF Sound
<1>8. QED
  BY <1>1, <1>3, <1>4, <1>5, <1>6, <1>7

-----------------------------------------------------------------------------
(* The calls *)

\* The map is that of the entries.
LEMMA AsMapIs == AsMap = ValueMap(Entries) /\ Entries = EntriesIn(buckets)
<1>1. QED
  BY DEF AsMap, ValueMap, KeysIn, Entries, EntriesIn

\* A key's entry gets a new value.
LEMMA ChainAssign ==
  ASSUME NEW c \in Seq(Entry), KeysDiffer(c), NEW p \in DOMAIN c,
         NEW e \in Entry, e.key = c[p].key
  PROVE  /\ [c EXCEPT ![p] = e] \in Seq(Entry) /\ KeysDiffer([c EXCEPT ![p] = e])
         /\ Range([c EXCEPT ![p] = e]) = (Range(c) \ {c[p]}) \cup {e}
<1>1. /\ [c EXCEPT ![p] = e] \in Seq(Entry) /\ KeysDiffer([c EXCEPT ![p] = e])
      /\ DOMAIN [c EXCEPT ![p] = e] = DOMAIN c
      /\ \A j \in DOMAIN c : [c EXCEPT ![p] = e][j] = IF j = p THEN e ELSE c[j]
  BY AssignProperties
<1>2. \A j \in DOMAIN c : j # p => c[j] # c[p]
  BY DEF KeysDiffer
<1>3. Range([c EXCEPT ![p] = e]) = (Range(c) \ {c[p]}) \cup {e}
  BY <1>1, <1>2 DEF Range
<1>4. QED
  BY <1>1, <1>3

\* A new entry becomes the head of a chain.
LEMMA ChainPrepend ==
  ASSUME NEW c \in Seq(Entry), KeysDiffer(c), NEW e \in Entry, e.key \notin KeysOf(c)
  PROVE  /\ <<e>> \o c \in Seq(Entry) /\ KeysDiffer(<<e>> \o c)
         /\ Range(<<e>> \o c) = Range(c) \cup {e}
<1> DEFINE d == <<e>> \o c
<1>1. <<e>> \in Seq(Entry) /\ Len(<<e>>) = 1
  OBVIOUS
<1>2. Len(c) \in Nat /\ DOMAIN c = 1..Len(c)
  BY LenProperties
<1>3. /\ d \in Seq(Entry) /\ Len(d) = 1 + Len(c)
      /\ \A i \in 1..(1 + Len(c)) : d[i] = IF i <= 1 THEN <<e>>[i] ELSE c[i - 1]
  BY <1>1, ConcatProperties
<1> HIDE DEF d
<1>4. DOMAIN d = 1..(1 + Len(c))
  BY <1>3, LenProperties
<1>5. d[1] = e /\ \A i \in 1..Len(c) : d[i + 1] = c[i]
  <2>1. 1 \in 1..(1 + Len(c)) /\ \A i \in 1..Len(c) : i + 1 \in 1..(1 + Len(c)) /\ ~(i + 1 <= 1)
    BY <1>2
  <2>2. d[1] = e
    BY <1>3, <2>1
  <2>3. ASSUME NEW i \in 1..Len(c) PROVE d[i + 1] = c[i]
    <3>1. d[i + 1] = c[i + 1 - 1] /\ i + 1 - 1 = i
      BY <1>3, <2>1
    <3>2. QED
      BY <3>1
  <2>4. QED
    BY <2>2, <2>3
<1>6. \A i \in DOMAIN d : i = 1 \/ (i - 1 \in 1..Len(c) /\ i = i - 1 + 1)
  BY <1>2, <1>4
<1>7. \A i \in DOMAIN d : \/ i = 1 /\ d[i] = e
                          \/ i - 1 \in DOMAIN c /\ d[i] = c[i - 1] /\ i \in Nat
  BY <1>2, <1>4, <1>5, <1>6
<1>8. KeysDiffer(d)
  <2> SUFFICES ASSUME NEW i \in DOMAIN d, NEW j \in DOMAIN d, d[i].key = d[j].key PROVE i = j
    BY DEF KeysDiffer
  <2>1. \A l \in DOMAIN c : c[l].key # e.key
    BY DEF KeysOf
  <2>2. CASE i = 1 \/ j = 1
    BY <1>7, <2>1, <2>2
  <2>3. CASE i # 1 /\ j # 1
    <3>1. i - 1 = j - 1 /\ i \in Nat /\ j \in Nat
      BY <1>7, <2>3 DEF KeysDiffer
    <3>2. QED
      BY <3>1
  <2>4. QED
    BY <2>2, <2>3
<1>9. Range(d) = Range(c) \cup {e}
  <2>1. ASSUME NEW x \in Range(d) PROVE x \in Range(c) \cup {e}
    BY <1>7 DEF Range
  <2>2. ASSUME NEW x \in Range(c) PROVE x \in Range(d)
    <3>1. PICK i \in 1..Len(c) : x = c[i]
      BY <1>2 DEF Range
    <3>2. i + 1 \in DOMAIN d /\ d[i + 1] = x
      BY <1>2, <1>4, <1>5, <3>1
    <3>3. QED
      BY <3>2 DEF Range
  <2>3. e \in Range(d)
    <3>1. 1 \in DOMAIN d
      BY <1>2, <1>4
    <3>2. QED
      BY <1>5, <3>1 DEF Range
  <2>4. QED
    BY <2>1, <2>2, <2>3
<1>10. QED
  BY <1>3, <1>8, <1>9 DEF d

\* The chain of a key with its entry updated, or with a new one at its head: all
\* other entries stay.
LEMMA EntryPut ==
  ASSUME NEW b, NEW n, Placed(b, n), IsFiniteSet(EntriesIn(b)), NEW k \in Key, NEW v \in Value
  PROVE  LET i == Hash[k] % n
             p == Position(b[i], k)
             e == [key |-> k, value |-> v]
             r == IF p # 0 THEN [b EXCEPT ![i][p].value = v] ELSE [b EXCEPT ![i] = <<e>> \o @]
             F == {d \in EntriesIn(b) : d.key # k}
         IN  /\ Placed(r, n) /\ EntriesIn(r) = F \cup {e} /\ IsFiniteSet(EntriesIn(r))
             /\ Cardinality(EntriesIn(b)) \in Nat
             /\ Cardinality(EntriesIn(r)) = Cardinality(EntriesIn(b)) + IF p # 0 THEN 0 ELSE 1
<1> DEFINE i == Hash[k] % n
           p == Position(b[i], k)
           e == [key |-> k, value |-> v]
           E == EntriesIn(b)
           F == {d \in E : d.key # k}
<1>1. /\ i \in DOMAIN b
      /\ p = 0 => k \notin KeysIn(E)
      /\ p # 0 => p \in DOMAIN b[i] /\ b[i][p] \in E /\ b[i][p].key = k
  BY SearchProperties
<1>2. e \in Entry /\ e.key = k /\ e.value = v /\ e \notin F /\ Hash[e.key] % n = i
  BY DEF Entry
<1>3. p # 0 => [b EXCEPT ![i][p].value = v] = [b EXCEPT ![i] = [b[i] EXCEPT ![p].value = v]]
  BY <1>1
<1>4. [b EXCEPT ![i] = <<e>> \o @] = [b EXCEPT ![i] = <<e>> \o b[i]]
  BY <1>1
<1>5. Cardinality(E) \in Nat
  BY FS_CardinalityType
<1> HIDE DEF p, e, E
<1>6. b[i] \in Seq(Entry) /\ KeysDiffer(b[i]) /\ Keyed(E) /\ E = EntriesIn(b)
  BY <1>1, PlacedProperties DEF Placed, E
<1> HIDE DEF i
<1>7. /\ \A d \in Range(b[i]) : d \in E /\ Hash[d.key] % n = i
      /\ KeysOf(b[i]) = KeysIn(Range(b[i]))
  BY <1>1, <1>6, PlacedProperties
<1> HIDE DEF F
<1>8. F = {d \in E : d.key # k}
  BY DEF F
<1>9. CASE p # 0
  <2> DEFINE c == [b[i] EXCEPT ![p].value = v]
  <2>1. p \in DOMAIN b[i] /\ b[i][p].key = k
    BY <1>1, <1>9
  <2>2. c \in Seq(Entry) /\ KeysDiffer(c) /\ Range(c) = (Range(b[i]) \ {b[i][p]}) \cup {e}
    <3>1. b[i][p] \in Entry
      <4>1. DOMAIN b[i] = 1..Len(b[i])
        BY <1>6, LenProperties
      <4>2. QED
        BY <1>6, <2>1, <4>1, ElementOfSeq
    <3>2. [b[i][p] EXCEPT !.value = v] = e
      BY <2>1, <3>1 DEF e, Entry
    <3>3. c = [b[i] EXCEPT ![p] = e]
      BY <3>2
    <3> HIDE DEF c
    <3>4. QED
      BY <1>2, <1>6, <2>1, <3>3, ChainAssign
  <2> HIDE DEF c
  <2>3. Belong(c, n, i)
    BY <1>2, <1>7, <2>2 DEF Belong
  <2> DEFINE r == [b EXCEPT ![i] = c]
  <2>4. Placed(r, n) /\ EntriesIn(r) = (E \ Range(b[i])) \cup Range(c)
    <3>1. DOMAIN r = DOMAIN b /\ r[i] = c /\ \A j \in DOMAIN b : j # i => r[j] = b[j]
      BY <1>1
    <3> HIDE DEF r
    <3>2. QED
      BY <1>1, <1>6, <2>2, <2>3, <3>1, ChainReplaced
  <2> HIDE DEF r
  <2>5. F = E \ {b[i][p]}
    BY <1>1, <1>6, <1>8, <1>9 DEF Keyed
  <2>6. EntriesIn(r) = F \cup {e}
    <3>1. ASSUME NEW d PROVE d \in EntriesIn(r) <=> d \in F \cup {e}
      <4>1. b[i][p] \in Range(b[i])
        BY <2>1 DEF Range
      <4>2. QED
        BY <1>7, <2>2, <2>4, <2>5, <4>1
    <3>2. QED
      BY <3>1
  <2>7. IsFiniteSet(F) /\ Cardinality(F) = Cardinality(E) - 1
    BY <1>1, <1>6, <1>9, <2>5, FS_RemoveElement
  <2>8. IsFiniteSet(F \cup {e}) /\ Cardinality(F \cup {e}) = Cardinality(F) + 1
    BY <1>2, <2>7, FS_AddElement
  <2>9. Cardinality(F \cup {e}) = Cardinality(E) + 0
    BY <1>5, <2>7, <2>8
  <2>10. QED
    BY <1>3, <1>5, <1>9, <2>4, <2>6, <2>8, <2>9 DEF i, p, e, E, F, c, r
<1>10. CASE p = 0
  <2> DEFINE c == <<e>> \o b[i]
  <2>1. e.key \notin KeysOf(b[i])
    BY <1>1, <1>2, <1>7, <1>10 DEF KeysIn
  <2>2. c \in Seq(Entry) /\ KeysDiffer(c) /\ Range(c) = Range(b[i]) \cup {e}
    BY <1>2, <1>6, <2>1, ChainPrepend
  <2> HIDE DEF c
  <2>3. Belong(c, n, i)
    BY <1>2, <1>7, <2>2 DEF Belong
  <2> DEFINE r == [b EXCEPT ![i] = c]
  <2>4. Placed(r, n) /\ EntriesIn(r) = (E \ Range(b[i])) \cup Range(c)
    <3>1. DOMAIN r = DOMAIN b /\ r[i] = c /\ \A j \in DOMAIN b : j # i => r[j] = b[j]
      BY <1>1
    <3> HIDE DEF r
    <3>2. QED
      BY <1>1, <1>6, <2>2, <2>3, <3>1, ChainReplaced
  <2> HIDE DEF r
  <2>5. F = E
    BY <1>1, <1>8, <1>10 DEF KeysIn
  <2>6. EntriesIn(r) = F \cup {e}
    BY <1>7, <2>2, <2>4, <2>5
  <2>7. IsFiniteSet(F \cup {e}) /\ Cardinality(F \cup {e}) = Cardinality(E) + 1
    BY <1>2, <1>6, <2>5, FS_AddElement
  <2>8. QED
    BY <1>4, <1>5, <1>10, <2>4, <2>6, <2>7 DEF i, p, e, E, F, c, r
<1>11. QED
  BY <1>9, <1>10

\* ht_set on a sound table leaves a sound one with the key set, and at most one
\* entry more.
LEMMA PutEffect ==
  ASSUME NEW STATE t, Sound(t), NEW k \in Key, NEW v \in Value, Put(t, k, v)
  PROVE  /\ Sound(Unchanged)' /\ threshold' = t.threshold
         /\ t.count \in Nat /\ count' \in Nat /\ count' <= t.count + 1
         /\ ValueMap(Entries)' = MapWith(ValueMap(EntriesIn(t.buckets)), k, v)
<1> DEFINE i == Hash[k] % t.size
           p == Position(t.buckets[i], k)
           e == [key |-> k, value |-> v]
           r == IF p # 0 THEN [t.buckets EXCEPT ![i][p].value = v]
                         ELSE [t.buckets EXCEPT ![i] = <<e>> \o @]
           E == EntriesIn(t.buckets)
           F == {d \in E : d.key # k}
<1>1. /\ Placed(t.buckets, t.size) /\ t.threshold = Threshold(t.size)
      /\ IsFiniteSet(E) /\ t.count = Cardinality(E)
  BY DEF Sound
<1>2. /\ size' = t.size /\ threshold' = t.threshold /\ buckets' = r
      /\ count' = t.count + IF p # 0 THEN 0 ELSE 1
  <2>1. t.count \in Nat
    BY <1>1, FS_CardinalityType
  <2>2. CASE p # 0
    <3>1. /\ size' = t.size /\ threshold' = t.threshold
          /\ buckets' = [t.buckets EXCEPT ![i][p].value = v] /\ count' = t.count
      BY <2>2 DEF Put
    <3>2. r = [t.buckets EXCEPT ![i][p].value = v]
      BY <2>2, Zenon
    <3> HIDE DEF r, p
    <3>3. t.count + (IF p # 0 THEN 0 ELSE 1) = t.count
      BY <2>1, <2>2
    <3>4. QED
      BY <3>1, <3>2, <3>3
  <2>3. CASE p = 0
    <3>1. /\ size' = t.size /\ threshold' = t.threshold
          /\ buckets' = [t.buckets EXCEPT ![i] = <<e>> \o @] /\ count' = t.count + 1
      BY <2>3 DEF Put
    <3>2. r = [t.buckets EXCEPT ![i] = <<e>> \o @]
      BY <2>3, Zenon
    <3> HIDE DEF r, p
    <3>3. QED
      BY <2>3, <3>1, <3>2
  <2>4. QED
    BY <2>2, <2>3
<1>3. /\ Placed(r, t.size) /\ EntriesIn(r) = F \cup {e} /\ IsFiniteSet(EntriesIn(r))
      /\ Cardinality(E) \in Nat
      /\ Cardinality(EntriesIn(r)) = Cardinality(E) + IF p # 0 THEN 0 ELSE 1
  BY <1>1, EntryPut, ZenonT(30)
<1>4. Keyed(E)
  BY <1>1, PlacedProperties
<1> HIDE DEF r, p, E
<1>5. ValueMap(F \cup {e}) = MapWith(ValueMap(E), k, v)
  <2>1. F \in SUBSET E /\ F = {d \in E : d.key # e.key} /\ e.key = k /\ e.value = v
    OBVIOUS
  <2> HIDE DEF F, e
  <2>2. QED
    BY <1>4, <2>1, ValueMapChanges
<1> HIDE DEF F, e
<1>6. t.count \in Nat /\ count' \in Nat /\ count' <= t.count + 1
  BY <1>1, <1>2, <1>3
<1>7. Entries' = EntriesIn(r)
  BY <1>2 DEF Entries, EntriesIn
<1>8. ValueMap(Entries)' = MapWith(ValueMap(E), k, v)
  BY <1>3, <1>5, <1>7 DEF ValueMap, KeysIn
<1>9. Sound(Unchanged)'
  <2>1. /\ (Unchanged.buckets)' = r /\ (Unchanged.size)' = t.size
        /\ (Unchanged.threshold)' = t.threshold /\ (Unchanged.count)' = Cardinality(EntriesIn(r))
    BY <1>1, <1>2, <1>3 DEF Unchanged
  <2>2. QED
    BY <1>1, <1>3, <2>1 DEF Sound, Placed, EntriesIn
<1>10. QED
  BY <1>2, <1>6, <1>8, <1>9 DEF E

\* The entry of a key is unlinked from its chain.
LEMMA ChainRemove ==
  ASSUME NEW c \in Seq(Entry), KeysDiffer(c), NEW p \in DOMAIN c
  PROVE  /\ RemoveAt(c, p) \in Seq(Entry) /\ KeysDiffer(RemoveAt(c, p))
         /\ Range(RemoveAt(c, p)) = Range(c) \ {c[p]}
<1>1. RemoveAt(c, p) \in Seq(Entry) /\ KeysDiffer(RemoveAt(c, p))
  BY RemoveAtProperties, KeysDifferRemoveAt
<1>2. ToSet(RemoveAt(c, p)) = ToSet(c) \ {c[p]}
  BY EntriesProperties
<1>3. \A s : Range(s) = ToSet(s)
  BY DEF Range, ToSet
<1>4. QED
  BY <1>1, <1>2, <1>3

\* The table without the entry that a search has found.
LEMMA EntryRemoved ==
  ASSUME NEW b, NEW n, Placed(b, n), IsFiniteSet(EntriesIn(b)), NEW i \in DOMAIN b,
         NEW p \in DOMAIN b[i], NEW r, DOMAIN r = DOMAIN b, r[i] = RemoveAt(b[i], p),
         \A j \in DOMAIN b : j # i => r[j] = b[j]
  PROVE  /\ Placed(r, n) /\ b[i][p] \in EntriesIn(b) /\ EntriesIn(r) = EntriesIn(b) \ {b[i][p]}
         /\ IsFiniteSet(EntriesIn(r)) /\ Cardinality(EntriesIn(r)) = Cardinality(EntriesIn(b)) - 1
<1> DEFINE c == RemoveAt(b[i], p)
<1>1. b[i] \in Seq(Entry) /\ KeysDiffer(b[i])
  BY DEF Placed
<1>2. c \in Seq(Entry) /\ KeysDiffer(c) /\ Range(c) = Range(b[i]) \ {b[i][p]}
  BY <1>1, ChainRemove
<1>3. DOMAIN r = DOMAIN b /\ r[i] = c /\ \A j \in DOMAIN b : j # i => r[j] = b[j]
  OBVIOUS
<1> HIDE DEF c
<1>4. b[i][p] \in Range(b[i]) /\ \A e \in Range(b[i]) : e \in EntriesIn(b) /\ Hash[e.key] % n = i
  BY PlacedProperties DEF Range
<1>5. Belong(c, n, i)
  BY <1>2, <1>4 DEF Belong
<1>6. Placed(r, n) /\ EntriesIn(r) = (EntriesIn(b) \ Range(b[i])) \cup Range(c)
  BY <1>2, <1>3, <1>5, ChainReplaced
<1>7. EntriesIn(r) = EntriesIn(b) \ {b[i][p]} /\ b[i][p] \in EntriesIn(b)
  BY <1>2, <1>4, <1>6
<1>8. QED
  BY <1>6, <1>7, FS_RemoveElement

\* ht_delete of a key that is there leaves a sound table without it.
LEMMA DelEffect ==
  ASSUME Sound(Unchanged), NEW k \in Key, Del(k)
  PROVE  /\ Sound(Unchanged)' /\ threshold' = threshold
         /\ count \in Nat /\ count' = count - 1 /\ count' \in Nat
         /\ k \in KeysIn(Entries)
         /\ ValueMap(Entries)' = MapWithout(ValueMap(Entries), k)
<1> DEFINE i == Hash[k] % size
           p == Position(buckets[i], k)
           r == [buckets EXCEPT ![i] = RemoveAt(@, p)]
<1>1. /\ Placed(buckets, size) /\ threshold = Threshold(size)
      /\ IsFiniteSet(EntriesIn(buckets)) /\ count = Cardinality(EntriesIn(buckets))
  BY DEF Sound, Unchanged
<1>2. /\ size' = size /\ threshold' = threshold /\ buckets' = r /\ count' = count - 1 /\ p # 0
  BY DEF Del
<1>3. i \in DOMAIN buckets /\ p \in DOMAIN buckets[i] /\ buckets[i][p].key = k
  BY <1>1, <1>2, SearchProperties
<1> HIDE DEF i, p
<1>4. /\ DOMAIN r = DOMAIN buckets /\ r[i] = RemoveAt(buckets[i], p)
      /\ \A j \in DOMAIN buckets : j # i => r[j] = buckets[j]
  BY <1>3
<1> HIDE DEF r
<1>5. /\ Placed(r, size) /\ buckets[i][p] \in EntriesIn(buckets)
      /\ EntriesIn(r) = EntriesIn(buckets) \ {buckets[i][p]}
      /\ IsFiniteSet(EntriesIn(r)) /\ Cardinality(EntriesIn(r)) = count - 1
  BY <1>1, <1>3, <1>4, EntryRemoved
<1>6. Entries = EntriesIn(buckets) /\ Entries' = EntriesIn(r)
  BY <1>2 DEF Entries, EntriesIn
<1>7. count \in Nat /\ count' \in Nat
  BY <1>1, <1>2, <1>5, FS_CardinalityType
<1>8. k \in KeysIn(Entries)
  BY <1>3, <1>5, <1>6 DEF KeysIn
<1>9. Keyed(Entries)
  BY <1>1, <1>6, PlacedProperties
<1>10. ValueMap(EntriesIn(r)) = MapWithout(ValueMap(Entries), k)
  BY <1>3, <1>5, <1>6, <1>9, ValueMapChanges
<1>11. ValueMap(Entries)' = ValueMap(EntriesIn(r))
  BY <1>6 DEF ValueMap, KeysIn
<1>12. Sound(Unchanged)'
  <2>1. /\ (Unchanged.buckets)' = r /\ (Unchanged.size)' = size
        /\ (Unchanged.threshold)' = threshold /\ (Unchanged.count)' = Cardinality(EntriesIn(r))
    BY <1>2, <1>5 DEF Unchanged
  <2>2. QED
    BY <1>1, <1>5, <2>1 DEF Sound, Placed, EntriesIn
<1>13. QED
  BY <1>2, <1>7, <1>8, <1>10, <1>11, <1>12

\* A new table is sound, and has no entries.
LEMMA EmptySound ==
  ASSUME NEW n \in Nat \ {0}
  PROVE  /\ Placed(Empty(n), n) /\ EntriesIn(Empty(n)) = {}
         /\ IsFiniteSet(EntriesIn(Empty(n))) /\ Cardinality(EntriesIn(Empty(n))) = 0
<1> DEFINE b == Empty(n)
<1>1. DOMAIN b = 0..(n - 1) /\ \A i \in DOMAIN b : b[i] = <<>>
  BY DEF Empty
<1> HIDE DEF b
<1>2. <<>> \in Seq(Entry) /\ DOMAIN <<>> = {}
  OBVIOUS
<1>3. Placed(b, n)
  BY <1>1, <1>2 DEF Placed, KeysDiffer
<1>4. EntriesIn(b) = {}
  BY <1>1, <1>2 DEF EntriesIn, Range
<1>5. QED
  BY <1>3, <1>4, FS_EmptySet DEF b

\* So is the table after FLUSHALL, and at the start.
LEMMA FlushEffect ==
  ASSUME buckets' = Empty(InitialSize), size' = InitialSize, count' = 0,
         threshold' = Threshold(InitialSize)
  PROVE  /\ Sound(Unchanged)' /\ LoadBounded' /\ Entries' = {}
         /\ ValueMap(Entries)' = [k \in {} |-> 0]
<1>1. /\ Placed(buckets', size') /\ EntriesIn(buckets') = {}
      /\ IsFiniteSet(EntriesIn(buckets')) /\ Cardinality(EntriesIn(buckets')) = 0
  BY HashTableAssumption, EmptySound
<1>2. Entries' = {}
  BY <1>1 DEF Entries, EntriesIn
<1>3. Sound(Unchanged)'
  <2>1. /\ (Unchanged.buckets)' = buckets' /\ (Unchanged.size)' = size'
        /\ (Unchanged.threshold)' = threshold' /\ (Unchanged.count)' = count'
    BY DEF Unchanged
  <2>2. QED
    BY <1>1, <2>1 DEF Sound, Placed, EntriesIn
<1>4. LoadBounded'
  BY HashTableAssumption DEF LoadBounded, Threshold
<1>5. QED
  BY <1>2, <1>3, <1>4 DEF ValueMap, KeysIn

-----------------------------------------------------------------------------
(* The invariant *)

\* A SET works on a sound table with the entries there were, the table as it was or
\* after a resize, that has room for one more below three quarters.
LEMMA SetTable ==
  ASSUME IInv, NEW k \in Key, NEW v \in Value,
         Set(k, v) \/ SetPlain(k, v) \/ SetWithResize(k, v)
  PROVE  \E t : /\ Put(t, k, v) /\ Sound(t) /\ EntriesIn(t.buckets) = Entries
                /\ program = "ch10" => t.count + 1 <= t.threshold
<1>1. /\ Placed(buckets, size) /\ threshold = Threshold(size)
      /\ IsFiniteSet(EntriesIn(buckets)) /\ count = Cardinality(EntriesIn(buckets))
      /\ Sound(Unchanged) /\ LoadBounded
  BY DEF IInv, Sound, Unchanged
<1>2. size \in Nat \ {0} /\ 2 * size \in Nat \ {0} /\ count \in Nat /\ threshold \in Nat
  <2>1. size \in Nat \ {0}
    BY <1>1 DEF Placed
  <2>2. QED
    BY <1>1, <2>1, FS_CardinalityType DEF Threshold
<1>3. EntriesIn(Unchanged.buckets) = Entries /\ Unchanged.count = count /\ Unchanged.threshold = threshold
  BY DEF EntriesIn, Entries, Unchanged
<1>4. CASE Set(k, v)
  <2>1. CASE Full
    <3>1. Put(Resized(2 * size), k, v) /\ program = "ch10"
      BY <1>4, <2>1 DEF Set
    <3>2. /\ Sound(Resized(2 * size)) /\ EntriesIn(Resized(2 * size).buckets) = Entries
          /\ Resized(2 * size).count = count
          /\ Resized(2 * size).threshold = Threshold(2 * size)
      BY <1>1, <1>2, ResizeSound
    <3>3. count <= Threshold(size)
      BY <1>1, <3>1 DEF LoadBounded
    <3>4. Threshold(size) + 1 <= Threshold(2 * size)
      BY <1>2 DEF Threshold
    <3>5. Threshold(size) \in Nat /\ Threshold(2 * size) \in Nat
      BY <1>2 DEF Threshold
    <3>6. count + 1 <= Threshold(2 * size)
      BY <1>2, <3>3, <3>4, <3>5
    <3>7. QED
      BY <3>1, <3>2, <3>6
  <2>2. CASE ~Full
    <3>1. Put(Unchanged, k, v)
      BY <1>4, <2>2 DEF Set
    <3>2. count + 1 <= threshold
      BY <1>2, <2>2 DEF Full
    <3>3. QED
      BY <1>1, <1>3, <3>1, <3>2
  <2>3. QED
    BY <2>1, <2>2
<1>5. CASE SetPlain(k, v)
  BY <1>1, <1>3, <1>5 DEF SetPlain
<1>6. CASE SetWithResize(k, v)
  <2> DEFINE n == Max({2 * size, MinSize})
  <2>1. n \in Nat \ {0}
    <3>1. \E x \in {2 * size, MinSize} : \A y \in {2 * size, MinSize} : x >= y
      BY <1>2, HashTableAssumption
    <3>2. n \in {2 * size, MinSize} /\ n >= 2 * size
      BY <3>1 DEF Max
    <3>3. QED
      BY <1>2, <3>2, HashTableAssumption
  <2> HIDE DEF n
  <2>2. /\ Sound(Resized(n)) /\ EntriesIn(Resized(n).buckets) = Entries
        /\ Sound(Restored) /\ EntriesIn(Restored.buckets) = Entries
    BY <1>1, <2>1, ResizeSound
  <2>3. program # "ch10"
    BY <1>6 DEF SetWithResize
  <2>4. Put(Unchanged, k, v) \/ Put(Resized(n), k, v) \/ Put(Restored, k, v)
    BY <1>6 DEF SetWithResize, n
  <2>5. QED
    BY <1>1, <1>3, <2>2, <2>3, <2>4
<1>7. QED
  BY <1>4, <1>5, <1>6

\* So every SET keeps the table sound, and the server's below three quarters.
LEMMA SetEffect ==
  ASSUME IInv, NEW k \in Key, NEW v \in Value,
         Set(k, v) \/ SetPlain(k, v) \/ SetWithResize(k, v)
  PROVE  /\ Sound(Unchanged)' /\ LoadBounded'
         /\ ValueMap(Entries)' = MapWith(ValueMap(Entries), k, v)
<1>1. PICK t : /\ Put(t, k, v) /\ Sound(t) /\ EntriesIn(t.buckets) = Entries
               /\ program = "ch10" => t.count + 1 <= t.threshold
  BY SetTable
<1>2. /\ Sound(Unchanged)' /\ threshold' = t.threshold
      /\ t.count \in Nat /\ count' \in Nat /\ count' <= t.count + 1
      /\ ValueMap(Entries)' = MapWith(ValueMap(EntriesIn(t.buckets)), k, v)
  BY <1>1, PutEffect
<1>3. program' = program
  BY <1>1 DEF Put
<1>4. t.threshold \in Nat
  BY <1>1 DEF Sound, Placed, Threshold
<1>5. LoadBounded'
  BY <1>1, <1>2, <1>3, <1>4 DEF LoadBounded
<1>6. QED
  BY <1>1, <1>2, <1>5

\* A program begins with a sound, empty table.
LEMMA InitIInv == Init => IInv
<1> SUFFICES ASSUME Init PROVE IInv
  OBVIOUS
<1>1. /\ Placed(buckets, size) /\ IsFiniteSet(EntriesIn(buckets))
      /\ Cardinality(EntriesIn(buckets)) = 0
  BY HashTableAssumption, EmptySound DEF Init
<1>2. Sound(Unchanged)
  BY <1>1 DEF Init, Sound, Unchanged
<1>3. LoadBounded
  BY HashTableAssumption DEF Init, LoadBounded, Threshold
<1>4. QED
  BY <1>2, <1>3 DEF IInv

\* What leaves the table alone leaves the invariant and the map.
LEMMA TableStays ==
  ASSUME UNCHANGED <<program, table>>
  PROVE  (IInv => IInv') /\ AsMap' = AsMap
<1>1. Unchanged' = Unchanged
  BY DEF table, Unchanged
<1>2. LoadBounded' = LoadBounded
  BY DEF table, LoadBounded
<1>3. Sound(Unchanged)' = Sound(Unchanged)
  BY <1>1 DEF Sound, Placed, EntriesIn
<1>4. AsMap' = AsMap
  BY DEF table, AsMap, Entries
<1>5. QED
  BY <1>2, <1>3, <1>4 DEF IInv

\* The calls that change the table, and the rest.
LEMMA NextSplit ==
  ASSUME [Next]_vars
  PROVE  \/ \E k \in Key, v \in Value : Set(k, v) \/ SetPlain(k, v) \/ SetWithResize(k, v)
         \/ \E k \in Key : Get(k) \/ Del(k) \/ DelMissing(k)
         \/ Keys \/ KeysNone \/ FlushAll \/ Info \/ Other
         \/ UNCHANGED vars
<1>1. QED
  BY DEF Next, execute_command

\* No call and no command breaks the invariant.
LEMMA NextIInv == IInv /\ [Next]_vars => IInv'
<1> SUFFICES ASSUME IInv, [Next]_vars PROVE IInv'
  OBVIOUS
<1>1. ASSUME NEW k \in Key, NEW v \in Value,
             Set(k, v) \/ SetPlain(k, v) \/ SetWithResize(k, v)
      PROVE  IInv'
  BY <1>1, SetEffect DEF IInv
<1>2. ASSUME NEW k \in Key, Del(k) PROVE IInv'
  <2>1. /\ Sound(Unchanged)' /\ threshold' = threshold
        /\ count \in Nat /\ count' = count - 1
    BY <1>2, DelEffect DEF IInv
  <2>2. threshold \in Nat
    BY DEF IInv, Sound, Placed, Threshold, Unchanged
  <2>3. program' = program
    BY <1>2 DEF Del
  <2>4. LoadBounded'
    BY <2>1, <2>2, <2>3 DEF IInv, LoadBounded
  <2>5. QED
    BY <2>1, <2>4 DEF IInv
<1>3. CASE FlushAll
  BY <1>3, FlushEffect DEF FlushAll, IInv
<1>4. ASSUME NEW k \in Key, Get(k) \/ DelMissing(k) PROVE IInv'
  BY <1>4, TableStays DEF Get, DelMissing
<1>5. CASE Keys \/ KeysNone \/ Info \/ Other
  BY <1>5, TableStays DEF Keys, KeysNone, Info, Other
<1>6. CASE UNCHANGED vars
  BY <1>6, TableStays DEF vars
<1>7. QED
  BY <1>1, <1>2, <1>3, <1>4, <1>5, <1>6, NextSplit

\* So it holds in every reachable state.
LEMMA Invariant == Spec => []IInv
<1>1. QED
  BY InitIInv, NextIInv, PTL DEF Spec

\* Size, count, threshold and chains always have their types.
THEOREM TypeCorrect == Spec => []TypeOK
<1>1. IInv => TypeOK
  BY FS_CardinalityType DEF IInv, Sound, Placed, Unchanged, TypeOK
<1>2. QED
  BY <1>1, Invariant, PTL

\* Whatever is set, updated and deleted, and through every resize, one that fails
\* included, every key has one entry at most, in the chain its hash selects.
THEOREM KeysStayPlaced == Spec => []EveryKeyPlaced
<1>1. IInv => EveryKeyPlaced
  <2> SUFFICES ASSUME Placed(buckets, size) PROVE EveryKeyPlaced
    BY DEF IInv, Sound, Unchanged
  <2> SUFFICES ASSUME NEW i \in DOMAIN buckets, NEW j \in DOMAIN buckets,
                      NEW p \in DOMAIN buckets[i], NEW q \in DOMAIN buckets[j]
               PROVE  /\ Hash[buckets[i][p].key] % size = i
                      /\ buckets[i][p].key = buckets[j][q].key => i = j /\ p = q
    BY DEF EveryKeyPlaced
  <2>1. Hash[buckets[i][p].key] % size = i /\ Hash[buckets[j][q].key] % size = j
    BY DEF Placed
  <2>2. buckets[i][p].key = buckets[j][q].key => i = j
    BY <2>1
  <2>3. QED
    BY <2>1, <2>2 DEF Placed, KeysDiffer
<1>2. QED
  BY <1>1, Invariant, PTL

\* count is always the number of entries a walk finds: KEYS fills its array, no more.
THEOREM CountStaysExact == Spec => []CountExact
<1>1. IInv => CountExact
  <2>1. EntriesIn(buckets) = Entries
    BY DEF EntriesIn, Entries
  <2>2. QED
    BY <2>1, WalkProperties DEF IInv, Sound, Unchanged, CountExact
<1>2. QED
  BY <1>1, Invariant, PTL

\* The server's table is never more than three quarters full.
THEOREM LoadStaysBounded == Spec => []LoadBounded
<1>1. QED
  BY Invariant, PTL DEF IInv

-----------------------------------------------------------------------------
(* The table is a map *)

\* The abstract specification counts as the module does: it has its own name for the
\* operator.
LEMMA SameCardinality ==
  ASSUME NEW S
  PROVE  Promise!Cardinality(S) = Cardinality(S)
BY DEF Promise!Cardinality, Cardinality

\* The table's keys, their number and their values are those of the map.
LEMMA MapProperties ==
  ASSUME IInv
  PROVE  /\ AsMap = ValueMap(Entries) /\ DOMAIN AsMap = KeysIn(Entries)
         /\ Keyed(Entries) /\ \A e \in Entries : AsMap[e.key] = e.value
         /\ Cardinality(DOMAIN AsMap) = count /\ Range(Walk) = Entries
         /\ Placed(buckets, size) /\ Entries = EntriesIn(buckets)
<1>1. AsMap = ValueMap(Entries) /\ Entries = EntriesIn(buckets)
  BY AsMapIs
<1>2. Placed(buckets, size) /\ IsFiniteSet(Entries) /\ count = Cardinality(Entries)
  BY <1>1 DEF IInv, Sound, Unchanged
<1>3. Keyed(Entries)
  BY <1>1, <1>2, PlacedProperties
<1>4. QED
  BY <1>1, <1>2, <1>3, ValueMapProperties, CountKeysIn, WalkProperties

\* The operations on the map, as the abstract specification writes them.
LEMMA MapNext == AsMap' = ValueMap(Entries)'
<1>1. QED
  BY DEF AsMap, ValueMap, KeysIn

\* GET and the DEL of a missing key search, and answer as the map does.
LEMMA SearchRefines ==
  ASSUME IInv, NEW k \in Key
  PROVE  /\ Get(k) => Promise!Get(k)
         /\ DelMissing(k) => Promise!Del(k)
<1> DEFINE i == Hash[k] % size
           p == Position(buckets[i], k)
<1>1. /\ p = 0 => k \notin DOMAIN AsMap
      /\ p # 0 => k \in DOMAIN AsMap /\ AsMap[k] = buckets[i][p].value
  <2>1. /\ p = 0 => k \notin KeysIn(Entries)
        /\ p # 0 => buckets[i][p] \in Entries /\ buckets[i][p].key = k
    BY MapProperties, SearchProperties
  <2> HIDE DEF p, i
  <2>2. QED
    BY <2>1, MapProperties DEF KeysIn
<1>2. Chain(k) = buckets[i]
  BY DEF Chain
<1>3. ASSUME Get(k) PROVE Promise!Get(k)
  <2>1. AsMap' = AsMap
    BY <1>3, TableStays DEF Get
  <2>2. Promise!Answer(<<"GET", k>>, IF p = 0 THEN Promise!Nil ELSE Promise!Bulk(buckets[i][p].value))
    BY <1>2, <1>3 DEF Get
  <2> HIDE DEF p, i
  <2>3. QED
    BY <1>1, <2>1, <2>2 DEF Promise!Get
<1>4. ASSUME DelMissing(k) PROVE Promise!Del(k)
  <2>1. AsMap' = AsMap /\ Promise!Answer(<<"DEL", k>>, Promise!Number(0))
    BY <1>4, TableStays DEF DelMissing
  <2>2. k \notin DOMAIN AsMap
    BY <1>1, <1>2, <1>4 DEF DelMissing
  <2>3. AsMap = [j \in DOMAIN AsMap \ {k} |-> AsMap[j]]
    <3>1. AsMap = [j \in DOMAIN AsMap |-> AsMap[j]]
      BY DEF AsMap
    <3>2. DOMAIN AsMap \ {k} = DOMAIN AsMap
      BY <2>2
    <3>3. QED
      BY <3>1, <3>2
  <2>4. QED
    BY <2>1, <2>2, <2>3 DEF Promise!Del
<1>5. QED
  BY <1>3, <1>4

\* A SET sets the key in the map, whatever the table does for it.
LEMMA SetRefines ==
  ASSUME IInv, NEW k \in Key, NEW v \in Value,
         Set(k, v) \/ SetPlain(k, v) \/ SetWithResize(k, v)
  PROVE  Promise!Set(k, v)
<1>1. AsMap' = MapWith(AsMap, k, v)
  BY SetEffect, MapProperties, MapNext
<1>2. Promise!Answer(<<"SET", k, v>>, Promise!Okay)
  BY SetTable DEF Put
<1>3. QED
  BY <1>1, <1>2 DEF MapWith, Promise!Set

\* A DEL of a key that is there takes it from the map.
LEMMA DelRefines ==
  ASSUME IInv, NEW k \in Key, Del(k)
  PROVE  Promise!Del(k)
<1>1. k \in DOMAIN AsMap /\ AsMap' = MapWithout(AsMap, k)
  BY DelEffect, MapProperties, MapNext DEF IInv
<1>2. Promise!Answer(<<"DEL", k>>, Promise!Number(1))
  BY DEF Del
<1>3. QED
  BY <1>1, <1>2 DEF MapWithout, Promise!Del

\* KEYS and INFO tell what the map has.
LEMMA ListRefines ==
  ASSUME IInv
  PROVE  /\ Keys \/ KeysNone => Promise!Keys
         /\ Info => Promise!Info
<1>1. {e.key : e \in Range(Walk)} = DOMAIN AsMap /\ Promise!Cardinality(DOMAIN AsMap) = count
  BY MapProperties, SameCardinality DEF KeysIn
<1>2. ASSUME Keys \/ KeysNone \/ Info PROVE AsMap' = AsMap
  BY <1>2, TableStays DEF Keys, KeysNone, Info
<1>3. QED
  BY <1>1, <1>2 DEF Keys, KeysNone, Info, Promise!Keys, Promise!Info

\* A new table is the empty map.
LEMMA InitRefines == Init => Promise!Init
<1> SUFFICES ASSUME Init PROVE Promise!Init
  OBVIOUS
<1>1. Entries = {}
  BY HashTableAssumption, EmptySound DEF Init, Entries, EntriesIn
<1>2. AsMap = [k \in {} |-> 0]
  BY <1>1 DEF AsMap
<1>3. QED
  BY <1>2 DEF Init, Promise!Init

\* Every call is a command of the map with the same answer, or leaves map and
\* answer alone.
LEMMA NextRefines ==
  ASSUME IInv, [Next]_vars
  PROVE  [Promise!Next]_(Promise!vars)
<1>1. ASSUME NEW k \in Key, NEW v \in Value,
             Set(k, v) \/ SetPlain(k, v) \/ SetWithResize(k, v)
      PROVE  Promise!Next
  BY <1>1, SetRefines DEF Promise!Next
<1>2. ASSUME NEW k \in Key, Get(k) \/ Del(k) \/ DelMissing(k) PROVE Promise!Next
  BY <1>2, SearchRefines, DelRefines DEF Promise!Next
<1>3. CASE Keys \/ KeysNone \/ Info
  BY <1>3, ListRefines DEF Promise!Next
<1>4. CASE FlushAll
  <2>1. AsMap' = [k \in {} |-> 0]
    BY <1>4, FlushEffect, MapNext DEF FlushAll
  <2>2. QED
    BY <1>4, <2>1 DEF FlushAll, Promise!FlushAll, Promise!Next
<1>5. CASE Other
  <2>1. AsMap' = AsMap
    BY <1>5, TableStays DEF Other
  <2>2. QED
    BY <1>5, <2>1 DEF Other, Promise!Other, Promise!Next
<1>6. CASE UNCHANGED vars
  <2>1. AsMap' = AsMap
    BY <1>6, TableStays DEF vars
  <2>2. QED
    BY <1>6, <2>1 DEF vars, Promise!vars
<1>7. QED
  BY <1>1, <1>2, <1>3, <1>4, <1>5, <1>6, NextSplit

\* The tables of ch9 and ch10 answer every command as a map does, whenever they
\* resize and whether or not there is memory for it.
THEOREM TableIsMap == Spec => PromiseSpec
<1>1. QED
  BY Invariant, InitRefines, NextRefines, PTL DEF Spec, PromiseSpec, Promise!Spec
=============================================================================
