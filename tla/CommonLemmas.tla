---------------------------- MODULE CommonLemmas ----------------------------
(***************************************************************************)
(* Facts that the proofs share.                                            *)
(*                                                                         *)
(* Of numbers and orders: a set of numbers has a least element, a finite   *)
(* set can be arranged in any strict order, and what the part of a         *)
(* sequence at some positions is.  What an induction would show is shown   *)
(* by taking a least counterexample: an order is a set of pairs here, and  *)
(* a property a set of numbers.                                            *)
(*                                                                         *)
(* Of arrays and sets of entries with keys (ch5, ch6, ch9, ch10, ch14,     *)
(* ch16): what the search for a key finds, what a removal, an append and   *)
(* an assignment leave, and the map from keys to [value, expire], or to    *)
(* values, that the entries stand for.  The modules refer to it by their   *)
(* own definitions, of the same form.                                      *)
(***************************************************************************)
EXTENDS Arrangement, Integers, Sequences, SequencesExt, FiniteSetTheorems, FunctionTheorems,
        SequenceTheorems, WellFoundedInduction, TLAPS

-----------------------------------------------------------------------------
(* Numbers *)

\* A set of numbers that is not empty has a least one.
LEMMA LeastNumber ==
  ASSUME NEW S \in SUBSET Nat, S # {}
  PROVE  \E m \in S : \A n \in S : m <= n
<1>1. PICK m \in S : \A n \in S : ~(<<n, m>> \in OpToRel(<, Nat))
  BY NatLessThanWellFounded, WFMin
<1>2. ASSUME NEW n \in S
      PROVE  m <= n
  <2>1. n \in Nat /\ m \in Nat
    OBVIOUS
  <2>2. <<n, m>> \in Nat \X Nat /\ <<n, m>>[1] = n /\ <<n, m>>[2] = m
    BY <2>1
  <2>3. n < m => <<n, m>> \in OpToRel(<, Nat)
    BY <2>2, Zenon DEF OpToRel
  <2>4. ~(n < m)
    BY <1>1, <2>3, Zenon
  <2>5. QED
    BY <2>1, <2>4
<1>3. QED
  BY <1>2

\* Min finds it.
LEMMA MinProperties ==
  ASSUME NEW S \in SUBSET Nat, S # {}
  PROVE  Min(S) \in S /\ \A n \in S : Min(S) <= n
<1>1. QED
  BY LeastNumber DEF Min

-----------------------------------------------------------------------------
(* Arrangements *)

\* R is a strict order of S.
Orders(R, S) ==
  /\ \A x \in S : <<x, x>> \notin R
  /\ \A x, y \in S : x # y => <<x, y>> \in R \/ <<y, x>> \in R
  /\ \A x, y, z \in S : <<x, y>> \in R /\ <<y, z>> \in R => <<x, z>> \in R

InOrder(f, n, R) == \A p, q \in 1..n : p < q => <<f[p], f[q]>> \in R

HasFirst(S, R) == \E m \in S : \A x \in S \ {m} : <<m, x>> \in R

\* A finite set has a first element.
LEMMA FirstElement ==
  ASSUME NEW R, NEW S, IsFiniteSet(S), S # {}, Orders(R, S)
  PROVE  HasFirst(S, R)
<1> DEFINE Bad == {n \in Nat : \E T \in SUBSET S : T # {} /\ Cardinality(T) = n /\ ~HasFirst(T, R)}
<1>1. SUFFICES ASSUME Bad # {} PROVE FALSE
  BY FS_CardinalityType
<1>2. PICK n \in Bad : \A k \in Bad : n <= k
  BY <1>1, LeastNumber
<1>3. PICK T \in SUBSET S : T # {} /\ Cardinality(T) = n /\ ~HasFirst(T, R)
  OBVIOUS
<1>4. PICK x \in T : TRUE
  BY <1>3
<1> DEFINE U == T \ {x}
<1>5. IsFiniteSet(T) /\ n \in Nat
  BY FS_Subset
<1>6. IsFiniteSet(U) /\ Cardinality(U) = n - 1
  BY <1>3, <1>5, FS_RemoveElement
<1>7. U # {}
  BY <1>3 DEF HasFirst
<1>8. Cardinality(U) \in Nat
  BY <1>6, FS_CardinalityType
<1>9. HasFirst(U, R)
  <2> HIDE DEF Bad
  <2>1. Cardinality(U) \notin Bad
    BY <1>2, <1>5, <1>6
  <2>2. QED
    BY <1>7, <1>8, <2>1 DEF Bad
<1>10. PICK m \in U : \A y \in U \ {m} : <<m, y>> \in R
  BY <1>9 DEF HasFirst
<1>11. CASE <<x, m>> \in R
  <2>1. \A y \in T \ {x} : <<x, y>> \in R
    BY <1>10, <1>11 DEF Orders
  <2>2. QED
    BY <1>3, <2>1 DEF HasFirst
<1>12. CASE <<m, x>> \in R
  <2>1. \A y \in T \ {m} : <<m, y>> \in R
    BY <1>10, <1>12
  <2>2. QED
    BY <1>3, <2>1 DEF HasFirst
<1>13. QED
  BY <1>11, <1>12 DEF Orders

\* A finite set can be arranged.
LEMMA ArrangementExists ==
  ASSUME NEW R, NEW S, IsFiniteSet(S), Orders(R, S)
  PROVE  \E f \in [1..Cardinality(S) -> S] : InOrder(f, Cardinality(S), R)
<1> DEFINE Can(T) == \E f \in [1..Cardinality(T) -> T] : InOrder(f, Cardinality(T), R)
           Bad == {n \in Nat : \E T \in SUBSET S : Cardinality(T) = n /\ ~Can(T)}
<1>1. SUFFICES ASSUME Bad # {} PROVE FALSE
  BY FS_CardinalityType
<1>2. PICK n \in Bad : \A k \in Bad : n <= k
  BY <1>1, LeastNumber
<1>3. PICK T \in SUBSET S : Cardinality(T) = n /\ ~Can(T)
  OBVIOUS
<1>4. IsFiniteSet(T) /\ n \in Nat
  BY FS_Subset
<1>5. CASE T = {}
  <2>1. n = 0
    BY <1>3, <1>5, FS_EmptySet
  <2>2. [p \in 1..0 |-> 0] \in [1..n -> T] /\ InOrder([p \in 1..0 |-> 0], n, R)
    BY <2>1 DEF InOrder
  <2>3. QED
    BY <1>3, <2>2
<1>6. CASE T # {}
  <2>1. Orders(R, T)
    BY DEF Orders
  <2>2. HasFirst(T, R)
    BY <1>4, <1>6, <2>1, FirstElement
  <2>3. PICK m \in T : \A x \in T \ {m} : <<m, x>> \in R
    BY <2>2 DEF HasFirst
  <2> DEFINE U == T \ {m}
  <2>4. IsFiniteSet(U) /\ Cardinality(U) = n - 1
    BY <1>3, <1>4, FS_RemoveElement
  <2>5. Cardinality(U) \in Nat
    BY <2>4, FS_CardinalityType
  <2>6. Can(U)
    <3> HIDE DEF Bad
    <3>1. Cardinality(U) \notin Bad
      BY <1>2, <1>4, <2>4
    <3>2. QED
      BY <2>5, <3>1 DEF Bad
  <2>7. PICK f \in [1..(n - 1) -> U] : InOrder(f, n - 1, R)
    BY <2>4, <2>6
  <2> DEFINE g == [p \in 1..n |-> IF p = 1 THEN m ELSE f[p - 1]]
  <2>8. n \in Nat /\ n - 1 \in Nat
    BY <1>4, <2>4, <2>5
  <2>9. g \in [1..n -> T]
    BY <2>7, <2>8
  <2>10. ASSUME NEW p \in 1..n, NEW q \in 1..n, p < q
         PROVE  <<g[p], g[q]>> \in R
    <3>1. q - 1 \in 1..(n - 1) /\ g[q] = f[q - 1] /\ g[q] \in U
      BY <2>7, <2>8, <2>10
    <3>2. CASE p = 1
      BY <2>3, <3>1, <3>2
    <3>3. CASE p # 1
      <4>1. p - 1 \in 1..(n - 1) /\ p - 1 < q - 1 /\ g[p] = f[p - 1]
        BY <2>8, <2>10, <3>3
      <4>2. QED
        BY <2>7, <3>1, <4>1 DEF InOrder
    <3>4. QED
      BY <3>2, <3>3
  <2>11. InOrder(g, n, R)
    BY <2>10 DEF InOrder
  <2>12. QED
    BY <1>3, <2>9, <2>11
<1>7. QED
  BY <1>5, <1>6

\* An arrangement has every element once.
LEMMA ArrangementOnce ==
  ASSUME NEW R, NEW S, IsFiniteSet(S), Orders(R, S),
         NEW f \in [1..Cardinality(S) -> S], InOrder(f, Cardinality(S), R)
  PROVE  /\ \A p, q \in 1..Cardinality(S) : f[p] = f[q] => p = q
         /\ \A x \in S : \E p \in 1..Cardinality(S) : f[p] = x
<1> DEFINE n == Cardinality(S)
<1>1. n \in Nat
  BY FS_CardinalityType
<1>2. ASSUME NEW p \in 1..n, NEW q \in 1..n, f[p] = f[q] PROVE p = q
  <2>1. ~(p < q) /\ ~(q < p)
    BY <1>2 DEF Orders, InOrder
  <2>2. QED
    BY <1>1, <2>1
<1>3. f \in Injection(1..n, S)
  BY <1>2 DEF Injection, IsInjective
<1>4. IsFiniteSet(1..n) /\ Cardinality(1..n) = n
  <2>1. Cardinality(1..n) = IF 1 > n THEN 0 ELSE n - 1 + 1
    BY <1>1, FS_Interval
  <2>2. IsFiniteSet(1..n)
    BY <1>1, FS_Interval
  <2>3. QED
    BY <1>1, <2>1, <2>2
<1>5. f \in Surjection(1..n, S)
  BY <1>3, <1>4, FS_Injection
<1>6. QED
  BY <1>2, <1>5 DEF Surjection

\* The part of a sequence at some positions has what is there, in the same order.
LEMMA PartAtProperties ==
  ASSUME NEW T, NEW s \in Seq(T), NEW I \in SUBSET DOMAIN s
  PROVE  /\ PartAt(s, I) \in Seq(T)
         /\ IsFiniteSet(I) /\ Len(PartAt(s, I)) = Cardinality(I)
         /\ \E at \in [1..Cardinality(I) -> I] :
              /\ \A p, q \in 1..Cardinality(I) : p < q => at[p] < at[q]
              /\ \A i \in I : \E p \in 1..Cardinality(I) : at[p] = i
              /\ \A p \in 1..Cardinality(I) : PartAt(s, I)[p] = s[at[p]]
<1> DEFINE n == Cardinality(I)
           at == Arrange(I, LAMBDA i, j : i < j)
           R == {z \in I \X I : z[1] < z[2]}
<1>1. DOMAIN s = 1..Len(s) /\ Len(s) \in Nat /\ I \subseteq Nat
  BY LenProperties
<1>2. IsFiniteSet(I) /\ n \in Nat
  <2>1. IsFiniteSet(1..Len(s))
    BY <1>1, FS_Interval
  <2>2. QED
    BY <1>1, <2>1, FS_Subset, FS_CardinalityType
<1>3. \A i, j \in I : <<i, j>> \in R <=> i < j
  OBVIOUS
<1> HIDE DEF R
<1>4. Orders(R, I)
  BY <1>1, <1>3 DEF Orders
<1>5. \E f \in [1..n -> I] : \A p, q \in 1..n : p < q => f[p] < f[q]
  <2>1. PICK f \in [1..n -> I] : InOrder(f, n, R)
    BY <1>2, <1>4, ArrangementExists
  <2>2. \A p, q \in 1..n : p < q => f[p] < f[q]
    BY <1>3, <2>1 DEF InOrder
  <2>3. QED
    BY <2>2
<1>6. at \in [1..n -> I] /\ \A p, q \in 1..n : p < q => at[p] < at[q]
  BY <1>5 DEF Arrange
<1>7. PartAt(s, I) = [p \in 1..n |-> s[at[p]]]
  BY DEF PartAt
<1> HIDE DEF at
<1>8. \A i \in I : \E p \in 1..n : at[p] = i
  <2>1. InOrder(at, n, R)
    BY <1>3, <1>6 DEF InOrder
  <2>2. QED
    BY <1>2, <1>4, <1>6, <2>1, ArrangementOnce
<1>9. \A p \in 1..n : s[at[p]] \in T
  BY <1>1, <1>6, ElementOfSeq
<1>10. PartAt(s, I) \in Seq(T) /\ Len(PartAt(s, I)) = n
  BY <1>2, <1>7, <1>9, IsASeq, LenProperties
<1>11. QED
  BY <1>2, <1>6, <1>7, <1>8, <1>10

-----------------------------------------------------------------------------
(* Entries with keys *)

\* No two entries of s have the same key.
KeysDiffer(s) == \A i, j \in DOMAIN s : s[i].key = s[j].key => i = j

\* The first entry of s with key k, 0 for none.
IndexIn(s, k) ==
  LET found == {i \in DOMAIN s : s[i].key = k}
  IN  IF found = {} THEN 0 ELSE CHOOSE i \in found : \A j \in found : i <= j

KeysOf(s) == {s[i].key : i \in DOMAIN s}

\* The map s stands for.
Content(e) == [value |-> e.value, expire |-> e.expire]

MapOf(s) ==
  [k \in KeysOf(s) |-> Content(s[CHOOSE i \in DOMAIN s : s[i].key = k])]

\* The entries of an array or a map whose time is in T.
TimeIn(f, T) == {x \in DOMAIN f : f[x].expire \in T}

\* A map with the keys D.
IsMap(m, D) == m = [k \in D |-> m[k]]

\* What the operations on the array make of a map.
MapWithout(m, k) == [j \in DOMAIN m \ {k} |-> m[j]]
MapPut(m, k, c) == [m EXCEPT ![k] = c]
MapWith(m, k, c) == [j \in DOMAIN m \cup {k} |-> IF j = k THEN c ELSE m[j]]

-----------------------------------------------------------------------------
\* Removing an entry moves those behind it one place forward.
LEMMA RemoveAtProperties ==
  ASSUME NEW S, NEW s \in Seq(S), NEW i \in DOMAIN s
  PROVE  /\ RemoveAt(s, i) \in Seq(S)
         /\ Len(RemoveAt(s, i)) = Len(s) - 1
         /\ DOMAIN RemoveAt(s, i) = 1..(Len(s) - 1)
         /\ \A j \in 1..(Len(s) - 1) :
              RemoveAt(s, i)[j] = IF j < i THEN s[j] ELSE s[j + 1]
<1> DEFINE front == SubSeq(s, 1, i - 1)
           back == SubSeq(s, i + 1, Len(s))
<1>0. Len(s) \in Nat /\ DOMAIN s = 1..Len(s) /\ i \in 1..Len(s)
  BY LenProperties
<1>1. /\ front \in Seq(S) /\ Len(front) = i - 1
      /\ \A j \in 1..(i - 1) : front[j] = s[j]
  <2>1. \A j \in 1..(i - 1) : s[j] \in S
    BY <1>0, ElementOfSeq
  <2>2. 1 \in Int /\ i - 1 \in Int
    BY <1>0
  <2>3. /\ front \in Seq(S) /\ Len(front) = IF 1 <= i - 1 THEN i - 1 - 1 + 1 ELSE 0
        /\ \A j \in 1..(i - 1 - 1 + 1) : front[j] = s[1 + j - 1]
    BY <2>1, <2>2, SubSeqProperties
  <2>4. \A j \in 1..(i - 1) : j \in 1..(i - 1 - 1 + 1) /\ 1 + j - 1 = j
    BY <1>0
  <2>5. QED
    BY <2>3, <2>4, <1>0
<1>2. /\ back \in Seq(S) /\ Len(back) = Len(s) - i
      /\ \A j \in 1..(Len(s) - i) : back[j] = s[i + j]
  <2>1. \A j \in (i + 1)..Len(s) : s[j] \in S
    BY <1>0, ElementOfSeq
  <2>2. i + 1 \in Int /\ Len(s) \in Int
    BY <1>0
  <2>3. /\ back \in Seq(S)
        /\ Len(back) = IF i + 1 <= Len(s) THEN Len(s) - (i + 1) + 1 ELSE 0
        /\ \A j \in 1..(Len(s) - (i + 1) + 1) : back[j] = s[i + 1 + j - 1]
    BY <2>1, <2>2, SubSeqProperties
  <2>4. \A j \in 1..(Len(s) - i) : j \in 1..(Len(s) - (i + 1) + 1) /\ i + 1 + j - 1 = i + j
    BY <1>0
  <2>5. QED
    BY <2>3, <2>4, <1>0
<1> HIDE DEF front, back
<1>3. RemoveAt(s, i) = front \o back
  BY DEF RemoveAt, front, back
<1>4. /\ front \o back \in Seq(S) /\ Len(front \o back) = Len(front) + Len(back)
      /\ \A j \in 1..(Len(front) + Len(back)) :
           (front \o back)[j] = IF j <= Len(front) THEN front[j] ELSE back[j - Len(front)]
  BY <1>1, <1>2, ConcatProperties
<1>5. Len(front) + Len(back) = Len(s) - 1
  BY <1>0, <1>1, <1>2
<1>6. ASSUME NEW j \in 1..(Len(s) - 1)
      PROVE  (front \o back)[j] = IF j < i THEN s[j] ELSE s[j + 1]
  <2>1. CASE j < i
    <3>1. j \in 1..(i - 1) /\ j <= Len(front)
      BY <1>0, <1>1, <2>1
    <3>2. QED
      BY <3>1, <2>1, <1>1, <1>4, <1>5
  <2>2. CASE ~(j < i)
    <3>1. j - (i - 1) \in 1..(Len(s) - i) /\ ~(j <= Len(front)) /\ i + (j - (i - 1)) = j + 1
      BY <1>0, <1>1, <2>2
    <3>2. back[j - (i - 1)] = s[i + (j - (i - 1))]
      BY <3>1, <1>2
    <3>3. QED
      BY <3>1, <3>2, <2>2, <1>1, <1>4, <1>5
  <2>3. QED
    BY <2>1, <2>2
<1>7. QED
  BY <1>3, <1>4, <1>5, <1>6, LenProperties

-----------------------------------------------------------------------------
\* The search for a key finds the one entry that has it, or returns 0.
LEMMA IndexInProperties ==
  ASSUME NEW S, NEW s \in Seq(S), KeysDiffer(s), NEW k
  PROVE  /\ IndexIn(s, k) \in {0} \cup DOMAIN s
         /\ IndexIn(s, k) # 0 <=> k \in KeysOf(s)
         /\ IndexIn(s, k) # 0 => s[IndexIn(s, k)].key = k
         /\ \A i \in DOMAIN s : s[i].key = k => IndexIn(s, k) = i
<1>0. Len(s) \in Nat /\ DOMAIN s = 1..Len(s)
  BY LenProperties
<1>1. CASE k \notin KeysOf(s)
  <2>1. {i \in DOMAIN s : s[i].key = k} = {}
    BY <1>1 DEF KeysOf
  <2>2. QED
    BY <1>1, <2>1 DEF IndexIn, KeysOf
<1>2. ASSUME NEW i \in DOMAIN s, s[i].key = k PROVE IndexIn(s, k) = i
  <2>1. {j \in DOMAIN s : s[j].key = k} = {i}
    BY <1>2 DEF KeysDiffer
  <2>2. (CHOOSE j \in {i} : \A l \in {i} : j <= l) = i
    BY <1>0
  <2>3. QED
    BY <2>1, <2>2 DEF IndexIn
<1>3. QED
  BY <1>0, <1>1, <1>2 DEF KeysOf

\* No operation of the stores gives a key a second entry.
LEMMA KeysDifferRemoveAt ==
  ASSUME NEW S, NEW s \in Seq(S), KeysDiffer(s), NEW i \in DOMAIN s
  PROVE  KeysDiffer(RemoveAt(s, i))
<1>0. Len(s) \in Nat /\ DOMAIN s = 1..Len(s)
  BY LenProperties
<1> DEFINE old(j) == IF j < i THEN j ELSE j + 1
           r == RemoveAt(s, i)
<1>1. /\ DOMAIN r = 1..(Len(s) - 1)
      /\ \A j \in DOMAIN r : r[j] = s[old(j)]
  <2>1. /\ DOMAIN r = 1..(Len(s) - 1)
        /\ \A j \in DOMAIN r : r[j] = IF j < i THEN s[j] ELSE s[j + 1]
    BY RemoveAtProperties
  <2>2. QED
    BY <2>1
<1>2. \A j \in DOMAIN r : old(j) \in DOMAIN s
  BY <1>0, <1>1
<1>3. \A j, l \in DOMAIN r : old(j) = old(l) => j = l
  BY <1>0, <1>1
<1> HIDE DEF r, old
<1>4. KeysDiffer(r)
  BY <1>1, <1>2, <1>3 DEF KeysDiffer
<1>5. QED
  BY <1>4 DEF r

\* A new entry for a key that has none leaves the keys different.
LEMMA KeysDifferAppend ==
  ASSUME NEW S, NEW s \in Seq(S), KeysDiffer(s), NEW e \in S, e.key \notin KeysOf(s)
  PROVE  KeysDiffer(Append(s, e))
<1>0. /\ Len(s) \in Nat /\ DOMAIN s = 1..Len(s)
      /\ DOMAIN Append(s, e) = 1..(Len(s) + 1)
      /\ \A i \in 1..Len(s) : Append(s, e)[i] = s[i] /\ s[i].key # e.key
      /\ Append(s, e)[Len(s) + 1] = e
  BY LenProperties, AppendProperties DEF KeysOf
<1>1. QED
  BY <1>0 DEF KeysDiffer

\* An entry may get a new value or a new time.
LEMMA AssignProperties ==
  ASSUME NEW S, NEW s \in Seq(S), NEW i \in DOMAIN s,
         NEW e \in S, e.key = s[i].key
  PROVE  /\ [s EXCEPT ![i] = e] \in Seq(S)
         /\ Len([s EXCEPT ![i] = e]) = Len(s)
         /\ DOMAIN [s EXCEPT ![i] = e] = DOMAIN s
         /\ \A j \in DOMAIN s : [s EXCEPT ![i] = e][j] = IF j = i THEN e ELSE s[j]
         /\ \A j \in DOMAIN s : [s EXCEPT ![i] = e][j].key = s[j].key
         /\ KeysDiffer(s) => KeysDiffer([s EXCEPT ![i] = e])
<1> DEFINE t == [s EXCEPT ![i] = e]
<1>1. t \in Seq(S) /\ Len(t) = Len(s)
  BY LenProperties, ExceptSeq
<1>2. DOMAIN t = DOMAIN s
  BY <1>1, LenProperties
<1>3. \A j \in DOMAIN s : t[j] = IF j = i THEN e ELSE s[j]
  OBVIOUS
<1>4. \A j \in DOMAIN s : t[j].key = s[j].key
  BY <1>3
<1> HIDE DEF t
<1>5. KeysDiffer(s) => KeysDiffer(t)
  BY <1>2, <1>4 DEF KeysDiffer
<1>6. QED
  BY <1>1, <1>2, <1>3, <1>4, <1>5 DEF t

-----------------------------------------------------------------------------
(* The map an array stands for *)

\* The entry of a key is the one the search finds.
LEMMA MapOfProperties ==
  ASSUME NEW S, NEW s \in Seq(S), KeysDiffer(s)
  PROVE  /\ IsMap(MapOf(s), KeysOf(s)) /\ DOMAIN MapOf(s) = KeysOf(s)
         /\ \A i \in DOMAIN s :
              MapOf(s)[s[i].key] = Content(s[i])
<1>1. ASSUME NEW i \in DOMAIN s
      PROVE  MapOf(s)[s[i].key] = Content(s[i])
  <2>1. (CHOOSE j \in DOMAIN s : s[j].key = s[i].key) = i
    BY DEF KeysDiffer
  <2>2. s[i].key \in KeysOf(s)
    BY DEF KeysOf
  <2>3. QED
    BY <2>1, <2>2 DEF MapOf
<1>2. IsMap(MapOf(s), KeysOf(s)) /\ DOMAIN MapOf(s) = KeysOf(s)
  BY DEF MapOf, IsMap
<1>3. QED
  BY <1>1, <1>2

\* A map with the keys of s and their entries is the map of s.
LEMMA MapOfUnique ==
  ASSUME NEW S, NEW s \in Seq(S), KeysDiffer(s), NEW m, IsMap(m, KeysOf(s)),
         \A i \in DOMAIN s : m[s[i].key] = Content(s[i])
  PROVE  MapOf(s) = m
<1>1. IsMap(MapOf(s), KeysOf(s))
  BY MapOfProperties
<1>2. ASSUME NEW k \in KeysOf(s) PROVE MapOf(s)[k] = m[k]
  <2>1. PICK i \in DOMAIN s : s[i].key = k
    BY DEF KeysOf
  <2>2. QED
    BY <2>1, MapOfProperties
<1>3. QED
  BY <1>1, <1>2 DEF IsMap

\* The operations on the array are the operations on the map.
LEMMA MapOfRemoveAt ==
  ASSUME NEW S, NEW s \in Seq(S), KeysDiffer(s), NEW i \in DOMAIN s
  PROVE  MapOf(RemoveAt(s, i)) = MapWithout(MapOf(s), s[i].key)
<1> DEFINE r == RemoveAt(s, i)
           m == [k \in KeysOf(s) \ {s[i].key} |-> MapOf(s)[k]]
<1>0. Len(s) \in Nat /\ DOMAIN s = 1..Len(s)
  BY LenProperties
<1>1. r \in Seq(S) /\ KeysDiffer(r)
  BY RemoveAtProperties, KeysDifferRemoveAt
<1>2. /\ DOMAIN r = 1..(Len(s) - 1)
      /\ \A j \in DOMAIN r : r[j] = IF j < i THEN s[j] ELSE s[j + 1]
  BY RemoveAtProperties
<1> HIDE DEF r
<1>3. ASSUME NEW j \in DOMAIN r
      PROVE  \E l \in DOMAIN s : l # i /\ r[j] = s[l]
  <2>1. CASE j < i
    <3>1. j \in DOMAIN s /\ j # i /\ r[j] = s[j]
      BY <1>0, <1>2, <2>1
    <3>2. QED
      BY <3>1
  <2>2. CASE ~(j < i)
    <3>1. j + 1 \in DOMAIN s /\ j + 1 # i /\ r[j] = s[j + 1]
      BY <1>0, <1>2, <2>2
    <3>2. QED
      BY <3>1
  <2>3. QED
    BY <2>1, <2>2
<1>4. ASSUME NEW l \in DOMAIN s, l # i
      PROVE  \E j \in DOMAIN r : r[j] = s[l]
  <2>1. CASE l < i
    <3>1. l \in DOMAIN r /\ r[l] = s[l]
      BY <1>0, <1>2, <2>1
    <3>2. QED
      BY <3>1
  <2>2. CASE ~(l < i)
    <3>1. l - 1 \in DOMAIN r /\ ~(l - 1 < i) /\ (l - 1) + 1 = l
      BY <1>0, <1>2, <1>4, <2>2
    <3>2. r[l - 1] = s[l]
      BY <1>2, <3>1
    <3>3. QED
      BY <3>1, <3>2
  <2>3. QED
    BY <2>1, <2>2
<1>5. KeysOf(r) = KeysOf(s) \ {s[i].key}
  <2>1. ASSUME NEW k \in KeysOf(r) PROVE k \in KeysOf(s) \ {s[i].key}
    <3>1. PICK j \in DOMAIN r : k = r[j].key
      BY DEF KeysOf
    <3>2. PICK l \in DOMAIN s : l # i /\ r[j] = s[l]
      BY <1>3
    <3>3. QED
      BY <3>1, <3>2 DEF KeysOf, KeysDiffer
  <2>2. ASSUME NEW k \in KeysOf(s) \ {s[i].key} PROVE k \in KeysOf(r)
    <3>1. PICK l \in DOMAIN s : k = s[l].key /\ l # i
      BY DEF KeysOf
    <3>2. PICK j \in DOMAIN r : r[j] = s[l]
      BY <1>4, <3>1
    <3>3. QED
      BY <3>1, <3>2 DEF KeysOf
  <2>3. QED
    BY <2>1, <2>2
<1>6. ASSUME NEW j \in DOMAIN r
      PROVE  m[r[j].key] = Content(r[j])
  <2>1. PICK l \in DOMAIN s : l # i /\ r[j] = s[l]
    BY <1>3
  <2>2. r[j].key \in KeysOf(s) \ {s[i].key}
    BY <1>5 DEF KeysOf
  <2>3. MapOf(s)[s[l].key] = Content(s[l])
    BY MapOfProperties
  <2>4. QED
    BY <2>1, <2>2, <2>3
<1>7. IsMap(m, KeysOf(r))
  BY <1>5 DEF IsMap
<1> HIDE DEF m
<1>8. MapOf(r) = m
  BY <1>1, <1>6, <1>7, MapOfUnique
<1>9. QED
  BY <1>8, MapOfProperties DEF r, m, MapWithout

\* An append adds the key of the entry to the map.
LEMMA MapOfAppend ==
  ASSUME NEW S, NEW s \in Seq(S), KeysDiffer(s), NEW e \in S, e.key \notin KeysOf(s)
  PROVE  MapOf(Append(s, e)) =
           MapWith(MapOf(s), e.key, Content(e))
<1> DEFINE r == Append(s, e)
           new == Content(e)
           m == [k \in KeysOf(s) \cup {e.key} |-> IF k = e.key THEN new ELSE MapOf(s)[k]]
<1>1. /\ Len(s) \in Nat /\ DOMAIN s = 1..Len(s)
      /\ DOMAIN r = 1..(Len(s) + 1) /\ r \in Seq(S)
      /\ \A i \in 1..Len(s) : r[i] = s[i]
      /\ r[Len(s) + 1] = e
  BY LenProperties, AppendProperties
<1>2. KeysDiffer(r)
  BY KeysDifferAppend
<1> HIDE DEF r
<1>3. KeysOf(r) = KeysOf(s) \cup {e.key}
  BY <1>1 DEF KeysOf
<1>4. ASSUME NEW i \in DOMAIN r
      PROVE  m[r[i].key] = Content(r[i])
  <2>1. CASE i = Len(s) + 1
    BY <1>1, <2>1
  <2>2. CASE i \in DOMAIN s
    <3>1. r[i] = s[i] /\ s[i].key \in KeysOf(s)
      BY <1>1, <2>2 DEF KeysOf
    <3>2. MapOf(s)[s[i].key] = Content(s[i])
      BY <2>2, MapOfProperties
    <3>3. QED
      BY <3>1, <3>2
  <2>3. QED
    BY <1>1, <2>1, <2>2
<1>5. IsMap(m, KeysOf(r))
  BY <1>3 DEF IsMap
<1> HIDE DEF m
<1>6. MapOf(r) = m
  BY <1>1, <1>2, <1>4, <1>5, MapOfUnique
<1>7. QED
  BY <1>6, MapOfProperties DEF r, m, MapWith

\* An assignment to an entry that keeps its key changes the key's content in the map.
LEMMA MapOfAssign ==
  ASSUME NEW S, NEW s \in Seq(S), KeysDiffer(s), NEW i \in DOMAIN s,
         NEW e \in S, e.key = s[i].key
  PROVE  MapOf([s EXCEPT ![i] = e]) =
           MapPut(MapOf(s), e.key, Content(e))
<1> DEFINE r == [s EXCEPT ![i] = e]
           new == Content(e)
           m == [MapOf(s) EXCEPT ![e.key] = new]
<1>1. /\ r \in Seq(S) /\ DOMAIN r = DOMAIN s /\ KeysDiffer(r)
      /\ \A j \in DOMAIN s : r[j] = IF j = i THEN e ELSE s[j]
      /\ \A j \in DOMAIN s : r[j].key = s[j].key
  BY AssignProperties
<1> HIDE DEF r
<1>2. KeysOf(r) = KeysOf(s) /\ e.key \in KeysOf(s)
  BY <1>1 DEF KeysOf
<1>3. DOMAIN MapOf(s) = KeysOf(s)
  BY MapOfProperties
<1>4. ASSUME NEW j \in DOMAIN r
      PROVE  m[r[j].key] = Content(r[j])
  <2>1. s[j].key \in KeysOf(s) /\ r[j].key = s[j].key
    BY <1>1 DEF KeysOf
  <2>2. CASE j = i
    BY <1>1, <1>2, <1>3, <2>2
  <2>3. CASE j # i
    <3>1. s[j].key # e.key /\ r[j] = s[j]
      BY <1>1, <2>3 DEF KeysDiffer
    <3>2. MapOf(s)[s[j].key] = Content(s[j])
      BY <1>1, MapOfProperties
    <3>3. QED
      BY <1>3, <2>1, <3>1, <3>2
  <2>4. QED
    BY <2>2, <2>3
<1>5. IsMap(m, KeysOf(r))
  BY <1>2, MapOfProperties DEF IsMap
<1> HIDE DEF m
<1>6. MapOf(r) = m
  BY <1>1, <1>4, <1>5, MapOfUnique
<1>7. QED
  BY <1>6 DEF r, m, MapPut

\* The array has as many entries as the map has keys, and as many that satisfy a
\* condition on the time as the map has.
LEMMA CountKeys ==
  ASSUME NEW S, NEW s \in Seq(S), KeysDiffer(s), NEW T
  PROVE  /\ IsFiniteSet(KeysOf(s)) /\ Cardinality(KeysOf(s)) = Len(s)
         /\ Cardinality(TimeIn(MapOf(s), T)) = Cardinality(TimeIn(s, T))
<1>0. Len(s) \in Nat /\ DOMAIN s = 1..Len(s)
  BY LenProperties
<1>1. IsFiniteSet(DOMAIN s) /\ Cardinality(DOMAIN s) = Len(s)
  BY <1>0, FS_Interval, SMTT(30)
<1>2. ASSUME NEW D \in SUBSET DOMAIN s
      PROVE  LET ks == {s[i].key : i \in D}
             IN  IsFiniteSet(ks) /\ Cardinality(ks) = Cardinality(D)
  <2> DEFINE ks == {s[i].key : i \in D}
             f == [i \in D |-> s[i].key]
  <2>1. IsFiniteSet(D)
    BY <1>1, FS_Subset
  <2>2. f \in [D -> ks]
    OBVIOUS
  <2>3. \A i, j \in D : f[i] = f[j] => i = j
    BY DEF KeysDiffer
  <2>4. \A k \in ks : \E i \in D : f[i] = k
    OBVIOUS
  <2> HIDE DEF f, ks
  <2>5. f \in Bijection(D, ks)
    BY <2>2, <2>3, <2>4, Fun_IsBij
  <2>6. ExistsBijection(D, ks)
    BY <2>5 DEF ExistsBijection
  <2>7. QED
    BY <2>1, <2>6, FS_Bijection DEF ks
<1>3. IsFiniteSet(KeysOf(s)) /\ Cardinality(KeysOf(s)) = Len(s)
  <2>1. DOMAIN s \in SUBSET DOMAIN s
    OBVIOUS
  <2>2. QED
    BY <1>1, <1>2, <2>1 DEF KeysOf
<1>4. TimeIn(MapOf(s), T) = {s[i].key : i \in TimeIn(s, T)}
  <2>1. \A i \in DOMAIN s :
          MapOf(s)[s[i].key] = Content(s[i])
    BY MapOfProperties
  <2>2. ASSUME NEW i \in DOMAIN s PROVE MapOf(s)[s[i].key].expire = s[i].expire
    <3>1. MapOf(s)[s[i].key].expire = Content(s[i]).expire
      BY <2>1
    <3>2. Content(s[i]).expire = s[i].expire
      BY DEF Content
    <3>3. QED
      BY <3>1, <3>2
  <2>3. DOMAIN MapOf(s) = KeysOf(s)
    BY MapOfProperties
  <2>4. QED
    BY <2>2, <2>3 DEF KeysOf, TimeIn
<1>5. TimeIn(s, T) \in SUBSET DOMAIN s
  BY DEF TimeIn
<1>6. QED
  BY <1>2, <1>3, <1>4, <1>5
-----------------------------------------------------------------------------
(* The set of the entries of an array *)

\* A set of entries in which none has the key of another.
Keyed(E) == \A d, e \in E : d.key = e.key => d = e

KeysIn(E) == {e.key : e \in E}

\* The map such a set stands for.
MapIn(E) == [k \in KeysIn(E) |-> Content(CHOOSE e \in E : e.key = k)]

\* The entries of an array with different keys; a removal takes one away, an
\* append adds one, an assignment puts one in the place of another.
LEMMA EntriesProperties ==
  ASSUME NEW S, NEW s \in Seq(S), KeysDiffer(s)
  PROVE  /\ ToSet(s) \subseteq S /\ Keyed(ToSet(s)) /\ KeysIn(ToSet(s)) = KeysOf(s)
         /\ \A i \in DOMAIN s :
              /\ s[i] \in ToSet(s)
              /\ ToSet(RemoveAt(s, i)) = ToSet(s) \ {s[i]}
         /\ \A e : ToSet(Append(s, e)) = ToSet(s) \cup {e}
         /\ \A i \in DOMAIN s : \A e :
              ToSet([s EXCEPT ![i] = e]) = (ToSet(s) \ {s[i]}) \cup {e}
<1>0. Len(s) \in Nat /\ DOMAIN s = 1..Len(s)
  BY LenProperties
<1>1. /\ ToSet(s) \subseteq S /\ Keyed(ToSet(s)) /\ KeysIn(ToSet(s)) = KeysOf(s)
      /\ \A i \in DOMAIN s : s[i] \in ToSet(s)
  <2>1. \A i \in DOMAIN s : s[i] \in S
    BY <1>0, ElementOfSeq
  <2>2. QED
    BY <2>1 DEF ToSet, Keyed, KeysDiffer, KeysIn, KeysOf
<1>2. ASSUME NEW i \in DOMAIN s PROVE ToSet(RemoveAt(s, i)) = ToSet(s) \ {s[i]}
  <2> DEFINE r == RemoveAt(s, i)
  <2>1. /\ DOMAIN r = 1..(Len(s) - 1)
        /\ \A j \in DOMAIN r : r[j] = IF j < i THEN s[j] ELSE s[j + 1]
    BY RemoveAtProperties
  <2> HIDE DEF r
  <2>2. ASSUME NEW j \in DOMAIN r PROVE \E l \in DOMAIN s : l # i /\ r[j] = s[l]
    <3>1. j \in 1..(Len(s) - 1) /\ i \in 1..Len(s) /\ j \in DOMAIN s /\ j + 1 \in DOMAIN s
      BY <1>0, <2>1
    <3>2. CASE j < i
      BY <2>1, <3>1, <3>2
    <3>3. CASE ~(j < i)
      <4>1. r[j] = s[j + 1] /\ j + 1 # i
        BY <2>1, <3>1, <3>3
      <4>2. QED
        BY <3>1, <4>1
    <3>4. QED
      BY <3>2, <3>3
  <2>3. ASSUME NEW l \in DOMAIN s, l # i PROVE \E j \in DOMAIN r : r[j] = s[l]
    <3>1. l \in 1..Len(s) /\ i \in 1..Len(s)
      BY <1>0
    <3>2. CASE l < i
      <4>1. l \in DOMAIN r /\ r[l] = s[l]
        BY <1>0, <2>1, <3>1, <3>2
      <4>2. QED
        BY <4>1
    <3>3. CASE ~(l < i)
      <4>1. l - 1 \in DOMAIN r /\ ~(l - 1 < i) /\ l - 1 + 1 = l
        BY <1>0, <2>1, <2>3, <3>1, <3>3
      <4>2. r[l - 1] = s[l]
        BY <2>1, <4>1
      <4>3. QED
        BY <4>1, <4>2
    <3>4. QED
      BY <3>2, <3>3
  <2>4. ASSUME NEW l \in DOMAIN s, l # i PROVE s[l] # s[i]
    BY <2>4 DEF KeysDiffer
  <2>5. ToSet(r) \subseteq ToSet(s) \ {s[i]}
    BY <2>2, <2>4 DEF ToSet
  <2>6. ToSet(s) \ {s[i]} \subseteq ToSet(r)
    BY <2>3 DEF ToSet
  <2>7. QED
    BY <2>5, <2>6 DEF r
<1>3. ASSUME NEW e PROVE ToSet(Append(s, e)) = ToSet(s) \cup {e}
  <2> DEFINE r == Append(s, e)
  <2>1. /\ DOMAIN r = 1..(Len(s) + 1) /\ r[Len(s) + 1] = e
        /\ \A i \in 1..Len(s) : r[i] = s[i]
    BY <1>0
  <2> HIDE DEF r
  <2>2. DOMAIN r = DOMAIN s \cup {Len(s) + 1}
    BY <1>0, <2>1
  <2>3. QED
    BY <1>0, <2>1, <2>2 DEF ToSet, r
<1>4. ASSUME NEW i \in DOMAIN s, NEW e
      PROVE  ToSet([s EXCEPT ![i] = e]) = (ToSet(s) \ {s[i]}) \cup {e}
  <2>1. ASSUME NEW l \in DOMAIN s, l # i PROVE s[l] # s[i]
    BY <2>1 DEF KeysDiffer
  <2>2. QED
    BY <2>1 DEF ToSet
<1>5. QED
  BY <1>1, <1>2, <1>3, <1>4

\* The map of a set of entries has their keys and their contents, and is the only
\* one that has.
LEMMA MapInProperties ==
  ASSUME NEW E, Keyed(E)
  PROVE  /\ IsMap(MapIn(E), KeysIn(E)) /\ DOMAIN MapIn(E) = KeysIn(E)
         /\ \A e \in E : MapIn(E)[e.key] = Content(e)
         /\ \A m : IsMap(m, KeysIn(E)) /\ (\A e \in E : m[e.key] = Content(e)) => m = MapIn(E)
<1>1. IsMap(MapIn(E), KeysIn(E)) /\ DOMAIN MapIn(E) = KeysIn(E)
  BY DEF MapIn, IsMap
<1>2. ASSUME NEW e \in E PROVE MapIn(E)[e.key] = Content(e)
  <2>1. (CHOOSE d \in E : d.key = e.key) = e
    BY DEF Keyed
  <2>2. QED
    BY <2>1 DEF MapIn, KeysIn
<1>3. ASSUME NEW m, IsMap(m, KeysIn(E)), \A e \in E : m[e.key] = Content(e) PROVE m = MapIn(E)
  <2>1. \A k \in KeysIn(E) : m[k] = MapIn(E)[k]
    BY <1>2, <1>3 DEF KeysIn
  <2>2. QED
    BY <1>1, <1>3, <2>1 DEF IsMap
<1>4. QED
  BY <1>1, <1>2, <1>3

\* Adding an entry with a new key, giving a key another entry, and keeping only some.
LEMMA MapInChanges ==
  ASSUME NEW E, Keyed(E)
  PROVE  /\ \A e : e.key \notin KeysIn(E) =>
              /\ Keyed(E \cup {e})
              /\ MapIn(E \cup {e}) = MapWith(MapIn(E), e.key, Content(e))
         /\ \A d \in E : \A e : e.key = d.key =>
              /\ Keyed((E \ {d}) \cup {e})
              /\ MapIn((E \ {d}) \cup {e}) = MapPut(MapIn(E), e.key, Content(e))
         /\ \A F \in SUBSET E :
              Keyed(F) /\ MapIn(F) = [k \in KeysIn(F) |-> MapIn(E)[k]]
<1>1. ASSUME NEW e, e.key \notin KeysIn(E)
      PROVE  /\ Keyed(E \cup {e})
             /\ MapIn(E \cup {e}) = MapWith(MapIn(E), e.key, Content(e))
  <2> DEFINE F == E \cup {e}
             m == MapWith(MapIn(E), e.key, Content(e))
  <2>1. Keyed(F) /\ KeysIn(F) = KeysIn(E) \cup {e.key} /\ DOMAIN MapIn(E) = KeysIn(E)
    BY <1>1, MapInProperties DEF Keyed, KeysIn
  <2>2. IsMap(m, KeysIn(F))
    BY <2>1 DEF IsMap, MapWith
  <2>3. ASSUME NEW d \in F PROVE m[d.key] = Content(d)
    <3>1. CASE d = e
      BY <2>1, <3>1 DEF MapWith
    <3>2. CASE d \in E
      <4>1. d.key \in KeysIn(E) /\ d.key # e.key
        BY <1>1, <3>2 DEF KeysIn
      <4>2. MapIn(E)[d.key] = Content(d)
        BY <3>2, MapInProperties
      <4>3. QED
        BY <2>1, <4>1, <4>2 DEF MapWith
    <3>3. QED
      BY <3>1, <3>2
  <2> HIDE DEF F, m
  <2>4. m = MapIn(F)
    BY <2>1, <2>2, <2>3, MapInProperties
  <2>5. QED
    BY <2>1, <2>4 DEF F, m
<1>2. ASSUME NEW d \in E, NEW e, e.key = d.key
      PROVE  /\ Keyed((E \ {d}) \cup {e})
             /\ MapIn((E \ {d}) \cup {e}) = MapPut(MapIn(E), e.key, Content(e))
  <2> DEFINE F == (E \ {d}) \cup {e}
             m == MapPut(MapIn(E), e.key, Content(e))
  <2>1. Keyed(F) /\ KeysIn(F) = KeysIn(E) /\ DOMAIN MapIn(E) = KeysIn(E) /\ e.key \in KeysIn(E)
    <3>1. Keyed(F)
      BY <1>2 DEF Keyed
    <3>2. KeysIn(F) = KeysIn(E) /\ e.key \in KeysIn(E)
      BY <1>2 DEF KeysIn
    <3>3. QED
      BY <3>1, <3>2, MapInProperties
  <2>2. IsMap(m, KeysIn(F))
    BY <2>1 DEF IsMap, MapPut
  <2>3. ASSUME NEW c \in F PROVE m[c.key] = Content(c)
    <3>1. CASE c = e
      BY <2>1, <3>1 DEF MapPut
    <3>2. CASE c \in E /\ c # d
      <4>1. c.key \in KeysIn(E) /\ c.key # e.key
        BY <1>2, <3>2 DEF KeysIn, Keyed
      <4>2. MapIn(E)[c.key] = Content(c)
        BY <3>2, MapInProperties
      <4>3. QED
        BY <2>1, <4>1, <4>2 DEF MapPut
    <3>3. QED
      BY <3>1, <3>2
  <2> HIDE DEF F, m
  <2>4. m = MapIn(F)
    BY <2>1, <2>2, <2>3, MapInProperties
  <2>5. QED
    BY <2>1, <2>4 DEF F, m
<1>3. ASSUME NEW F \in SUBSET E
      PROVE  Keyed(F) /\ MapIn(F) = [k \in KeysIn(F) |-> MapIn(E)[k]]
  <2> DEFINE m == [k \in KeysIn(F) |-> MapIn(E)[k]]
  <2>1. Keyed(F) /\ IsMap(m, KeysIn(F))
    BY DEF Keyed, IsMap
  <2>2. ASSUME NEW e \in F PROVE m[e.key] = Content(e)
    <3>1. MapIn(E)[e.key] = Content(e) /\ e.key \in KeysIn(F)
      BY MapInProperties DEF KeysIn
    <3>2. QED
      BY <3>1
  <2> HIDE DEF m
  <2>3. m = MapIn(F)
    BY <2>1, <2>2, MapInProperties
  <2>4. QED
    BY <2>1, <2>3 DEF m
<1>4. QED
  BY <1>1, <1>2, <1>3

\* A set of entries has as many keys as entries.
LEMMA CountKeysIn ==
  ASSUME NEW E, Keyed(E), IsFiniteSet(E)
  PROVE  IsFiniteSet(KeysIn(E)) /\ Cardinality(KeysIn(E)) = Cardinality(E)
<1> DEFINE f == [e \in E |-> e.key]
<1>1. /\ f \in [E -> KeysIn(E)]
      /\ \A d, e \in E : f[d] = f[e] => d = e
      /\ \A k \in KeysIn(E) : \E e \in E : f[e] = k
  BY DEF Keyed, KeysIn
<1> HIDE DEF f
<1>2. f \in Bijection(E, KeysIn(E))
  BY <1>1, Fun_IsBij
<1>3. QED
  BY <1>2, FS_Bijection DEF ExistsBijection

-----------------------------------------------------------------------------
(* The map of a set of entries [key, value], for the stores without times *)

ValueMap(E) == [k \in KeysIn(E) |-> (CHOOSE e \in E : e.key = k).value]

\* The map has the keys of the entries and their values, and is the only one.
LEMMA ValueMapProperties ==
  ASSUME NEW E, Keyed(E)
  PROVE  /\ DOMAIN ValueMap(E) = KeysIn(E)
         /\ \A e \in E : ValueMap(E)[e.key] = e.value
         /\ \A m : IsMap(m, KeysIn(E)) /\ (\A e \in E : m[e.key] = e.value) => m = ValueMap(E)
<1>1. IsMap(ValueMap(E), KeysIn(E)) /\ DOMAIN ValueMap(E) = KeysIn(E)
  BY DEF ValueMap, IsMap
<1>2. ASSUME NEW e \in E PROVE ValueMap(E)[e.key] = e.value
  <2>1. (CHOOSE d \in E : d.key = e.key) = e
    BY DEF Keyed
  <2>2. QED
    BY <2>1 DEF ValueMap, KeysIn
<1>3. ASSUME NEW m, IsMap(m, KeysIn(E)), \A e \in E : m[e.key] = e.value PROVE m = ValueMap(E)
  <2>1. \A k \in KeysIn(E) : m[k] = ValueMap(E)[k]
    BY <1>2, <1>3 DEF KeysIn
  <2>2. QED
    BY <1>1, <1>3, <2>1 DEF IsMap
<1>4. QED
  BY <1>1, <1>2, <1>3

\* A new entry, whether its key is new or another's, sets the key; without an entry
\* the key is gone.
LEMMA ValueMapChanges ==
  ASSUME NEW E, Keyed(E)
  PROVE  /\ \A F \in SUBSET E : \A e :
              F = {d \in E : d.key # e.key} =>
                /\ Keyed(F \cup {e})
                /\ ValueMap(F \cup {e}) = MapWith(ValueMap(E), e.key, e.value)
         /\ \A d \in E :
              /\ Keyed(E \ {d})
              /\ ValueMap(E \ {d}) = MapWithout(ValueMap(E), d.key)
<1>1. ASSUME NEW F \in SUBSET E, NEW e, F = {d \in E : d.key # e.key}
      PROVE  /\ Keyed(F \cup {e})
             /\ ValueMap(F \cup {e}) = MapWith(ValueMap(E), e.key, e.value)
  <2> DEFINE G == F \cup {e}
             m == MapWith(ValueMap(E), e.key, e.value)
  <2>1. Keyed(G) /\ KeysIn(G) = KeysIn(E) \cup {e.key} /\ DOMAIN ValueMap(E) = KeysIn(E)
    <3>1. Keyed(G)
      BY <1>1 DEF Keyed
    <3>2. KeysIn(G) = KeysIn(E) \cup {e.key}
      BY <1>1 DEF KeysIn
    <3>3. QED
      BY <3>1, <3>2, ValueMapProperties
  <2>2. IsMap(m, KeysIn(G))
    BY <2>1 DEF IsMap, MapWith
  <2>3. ASSUME NEW d \in G PROVE m[d.key] = d.value
    <3>1. CASE d = e
      BY <2>1, <3>1 DEF MapWith
    <3>2. CASE d \in F
      <4>1. d \in E /\ d.key \in KeysIn(E) /\ d.key # e.key
        BY <1>1, <3>2 DEF KeysIn
      <4>2. ValueMap(E)[d.key] = d.value
        BY <4>1, ValueMapProperties
      <4>3. QED
        BY <2>1, <4>1, <4>2 DEF MapWith
    <3>3. QED
      BY <3>1, <3>2
  <2> HIDE DEF G, m
  <2>4. m = ValueMap(G)
    BY <2>1, <2>2, <2>3, ValueMapProperties
  <2>5. QED
    BY <2>1, <2>4 DEF G, m
<1>2. ASSUME NEW d \in E
      PROVE  /\ Keyed(E \ {d})
             /\ ValueMap(E \ {d}) = MapWithout(ValueMap(E), d.key)
  <2> DEFINE G == E \ {d}
             m == MapWithout(ValueMap(E), d.key)
  <2>1. Keyed(G) /\ KeysIn(G) = KeysIn(E) \ {d.key} /\ DOMAIN ValueMap(E) = KeysIn(E)
    <3>1. Keyed(G)
      BY DEF Keyed
    <3>2. KeysIn(G) = KeysIn(E) \ {d.key}
      BY DEF KeysIn, Keyed
    <3>3. QED
      BY <3>1, <3>2, ValueMapProperties
  <2>2. IsMap(m, KeysIn(G))
    BY <2>1 DEF IsMap, MapWithout
  <2>3. ASSUME NEW e \in G PROVE m[e.key] = e.value
    <3>1. e \in E /\ e.key \in KeysIn(G)
      BY DEF KeysIn
    <3>2. ValueMap(E)[e.key] = e.value
      BY <3>1, ValueMapProperties
    <3>3. QED
      BY <2>1, <3>1, <3>2 DEF MapWithout
  <2> HIDE DEF G, m
  <2>4. m = ValueMap(G)
    BY <2>1, <2>2, <2>3, ValueMapProperties
  <2>5. QED
    BY <2>1, <2>4 DEF G, m
<1>3. QED
  BY <1>1, <1>2
=============================================================================
