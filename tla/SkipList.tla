------------------------------ MODULE SkipList ------------------------------
(***************************************************************************)
(* The skip list of ch13-sorted-set.c (ch12-skiplist.c has the same code), *)
(* and the commands of its server.  The key that they name is ignored: the *)
(* server has one set.  Scores are answered with two decimals; here they   *)
(* are whole numbers.                                                      *)
(*                                                                         *)
(* A node is named by its member: sl_insert never makes a second node for  *)
(* a member it finds.  Pointers are kept, so that a level may lose a node  *)
(* or keep one that was freed.  The server is single-threaded and a        *)
(* command is one step.                                                    *)
(***************************************************************************)
EXTENDS Integers, Sequences, FiniteSets, Functions

CONSTANTS Member,   \* the members, numbers in the order of strcmp
          Score,    \* the scores, numbers or NaN
          NaN,      \* not-a-number, a score sscanf reads
          MaxLevel, \* MAX_LEVEL
          HeadNode, \* sl->head
          NULL

ASSUME SkipListAssumption ==
  /\ Member \subseteq Int /\ IsFiniteSet(Member)
  /\ Score \ {NaN} \subseteq Int /\ NaN \notin Int
  /\ MaxLevel \in Nat \ {0}
  /\ HeadNode \notin Member /\ NULL \notin Member \cup {HeadNode}

VARIABLES next,       \* next[i][n]: node n's successor on level i
          score,      \* the score of every node that is allocated
          maxLevel,   \* sl->max_level
          count,      \* sl->count
          levelCount, \* sl->level_count
          reply       \* the number last sent by ZADD or ZREM

list == <<next, score, maxLevel, count, levelCount>>
vars == <<list, reply>>

Level == 0..(MaxLevel - 1)
Node == Member \cup {HeadNode}
Alive == DOMAIN score

\* The nodes from each node on, if nx has the successors.
From(nx) ==
  LET from[n \in Node \cup {NULL}] == IF n = NULL THEN <<>> ELSE <<n>> \o from[nx[n]]
  IN  from

\* The nodes of a level, from the head on.
Walk(i) == From(next[i])[next[i][HeadNode]]

\* The ranking the list stands for.
Entry(m) == [member |-> m, score |-> score[m]]
Ranking == INSTANCE SortedSet WITH
  ranking <- [r \in DOMAIN Walk(0) |-> Entry(Walk(0)[r])]

Init ==
  /\ next = [i \in Level |-> [n \in Node |-> NULL]]
  /\ score = [m \in {} |-> 0]
  /\ maxLevel = 1 /\ count = 0
  /\ levelCount = [i \in Level |-> 0]
  /\ reply = 0

-----------------------------------------------------------------------------
(* Searches *)

\* sl_find walks level 0.
Found(m) == \E r \in DOMAIN Walk(0) : Walk(0)[r] = m

\* Mistake: the comparison stops at the score.
Before_NoName(n, m, s) == score[n] # NaN /\ s # NaN /\ score[n] < s

\* The comparison of the searches: by score, then by name.  NaN compares false.
Before(n, m, s) ==
  /\ score[n] # NaN /\ s # NaN
  /\ score[n] < s \/ (score[n] = s /\ n < m)

Smaller(m, s) == {n \in Alive : Before(n, m, s)}

\* The node at which a search from each node stops that goes on while the next one is in S.
Past(nx, S) ==
  LET past[n \in Node] == IF nx[n] \in S THEN past[nx[n]] ELSE n
  IN  past

\* update[i]: down from the top level, the last node before member m with score s.
Update(m, s) ==
  LET update[i \in 0..(maxLevel - 1)] ==
        Past(next[i], Smaller(m, s))[IF i = maxLevel - 1 THEN HeadNode ELSE update[i + 1]]
  IN  update

-----------------------------------------------------------------------------
(* sl_insert *)

\* Mistake: an update is counted as an insert.
ZaddExisting_Counts(m, s) ==
  /\ Found(m)
  /\ score' = [score EXCEPT ![m] = s]
  /\ count' = count + 1
  /\ reply' = 1
  /\ UNCHANGED <<next, maxLevel, levelCount>>

\* The member is there: its score changes, its place does not.
ZaddExisting(m, s) ==
  /\ Found(m)
  /\ score' = [score EXCEPT ![m] = s]
  /\ reply' = 1
  /\ UNCHANGED <<next, maxLevel, count, levelCount>>

\* A new node of random height h is linked on its levels.
ZaddNew(m, s, h) ==
  LET update == Update(m, s)
      before(i) == IF i < maxLevel THEN update[i] ELSE HeadNode
  IN  /\ ~Found(m)
      /\ next' = [i \in Level |->
                    IF i < h THEN [next[i] EXCEPT ![before(i)] = m, ![m] = next[i][before(i)]]
                             ELSE next[i]]
      /\ score' = [n \in Alive \cup {m} |-> IF n = m THEN s ELSE score[n]]
      /\ levelCount' = [i \in Level |-> levelCount[i] + IF i < h THEN 1 ELSE 0]
      /\ maxLevel' = IF h > maxLevel THEN h ELSE maxLevel
      /\ count' = count + 1
      /\ reply' = 1

-----------------------------------------------------------------------------
(* sl_delete *)

\* What the search for m, by its own score, ends at.
Target(m) == next[0][Update(m, score[m])[0]]

\* Mistake: only the bottom level is unlinked.
Unlinked_Bottom(m) == {0}

\* The levels the loop unlinks m from, before its break.
Unlinked(m) ==
  LET update == Update(m, score[m])
  IN  {i \in 0..(maxLevel - 1) : \A j \in 0..i : next[j][update[j]] = m}

\* Mistakes: max_level does not come down; it comes down to 0.
LevelsUsed_Keep(nx) == maxLevel

LevelsUsed_ToZero(nx) ==
  CHOOSE l \in 0..maxLevel :
    /\ l = 0 \/ nx[l - 1][HeadNode] # NULL
    /\ \A j \in (l + 1)..maxLevel : nx[j - 1][HeadNode] = NULL

\* max_level, lowered while the top level is empty, down to 1; nx is the new next.
LevelsUsed(nx) ==
  CHOOSE l \in 1..maxLevel :
    /\ l = 1 \/ nx[l - 1][HeadNode] # NULL
    /\ \A j \in (l + 1)..maxLevel : nx[j - 1][HeadNode] = NULL

Zrem(m) ==
  LET update == Update(m, score[m])
  IN  /\ Found(m) /\ Target(m) = m
      /\ next' = [i \in Level |->
                    IF i \in Unlinked(m)
                    THEN [next[i] EXCEPT ![update[i]] = next[i][m], ![m] = NULL]
                    ELSE next[i]]
      /\ score' = Restrict(score, Alive \ {m})
      /\ levelCount' = [i \in Level |-> levelCount[i] - IF i \in Unlinked(m) THEN 1 ELSE 0]
      /\ maxLevel' = LevelsUsed(next')
      /\ count' = count - 1
      /\ reply' = 1

\* The member is not there, or the search misses it.
ZremMissing(m) ==
  /\ Found(m) => Target(m) # m
  /\ reply' = 0
  /\ UNCHANGED list

-----------------------------------------------------------------------------
(* The commands that only read: their answers *)

\* Mistake: a range of one member counts as empty.
RangeByRank_OffByOne(start, end) ==
  LET a == IF start < 0 THEN 0 ELSE start
      b == IF end >= count THEN count - 1 ELSE end
  IN  IF a >= b \/ count = 0 THEN <<>> ELSE SubSeq(Walk(0), a + 1, b + 1)

\* sl_range_by_rank: start steps from the head, and then as many nodes as there are by
\* the counter, which the list must have.
RangeByRank(start, end) ==
  LET a == IF start < 0 THEN 0 ELSE start
      b == IF end >= count THEN count - 1 ELSE end
  IN  IF a > b \/ count = 0 THEN <<>> ELSE SubSeq(Walk(0), a + 1, b + 1)

Zrange(start, end) ==
  LET nodes == RangeByRank(start, end)
  IN  [i \in DOMAIN nodes |-> Entry(nodes[i])]

\* sl_get_score answers -1 for a member that is not there, and any score below 0 is
\* taken for that.  NaN compares false.
Zscore(m) ==
  LET s == IF Found(m) THEN score[m] ELSE -1
  IN  IF s # NaN /\ s >= 0 THEN {s} ELSE {}

Zcard == count

-----------------------------------------------------------------------------
execute_command ==
  \E m \in Member :
    \/ \E s \in Score :
         ZaddExisting(m, s) \/ \E h \in 1..MaxLevel : ZaddNew(m, s, h)
    \/ Zrem(m) \/ ZremMissing(m)

Spec == Init /\ [][execute_command]_vars

-----------------------------------------------------------------------------
(* Properties *)

TypeOK ==
  /\ next \in [Level -> [Node -> Member \cup {NULL}]]
  /\ Alive \subseteq Member /\ \A m \in Alive : score[m] \in Score
  /\ maxLevel \in 1..MaxLevel
  /\ count \in Nat /\ levelCount \in [Level -> Nat]

\* Level 0 holds every node that is allocated, once, and every other level holds
\* some of those below it, in the same order: whatever became of the scores, an
\* insert or a delete whose search ended in the wrong place leaves no level with a
\* node that was freed and none out of step with the level below.
LevelsNest ==
  /\ \A i \in Level : \A r, q \in DOMAIN Walk(i) : Walk(i)[r] = Walk(i)[q] => r = q
  /\ {Walk(0)[r] : r \in DOMAIN Walk(0)} = Alive
  /\ \A i \in Level \ {0} :
       \E f \in [DOMAIN Walk(i) -> DOMAIN Walk(i - 1)] :
         /\ \A r \in DOMAIN Walk(i) : Walk(i)[r] = Walk(i - 1)[f[r]]
         /\ \A r, q \in DOMAIN Walk(i) : r < q => f[r] < f[q]

\* The counters describe the lists: ZCARD is right, ZRANGE allocates what it fills.
CountsExact ==
  /\ count = Len(Walk(0))
  /\ \A i \in Level : levelCount[i] = Len(Walk(i))

\* A search starts at the highest level in use: none above it has a node.
TopLevelUsed ==
  /\ maxLevel > 1 => next[maxLevel - 1][HeadNode] # NULL
  /\ \A i \in Level : i >= maxLevel => next[i][HeadNode] = NULL

\* Every query is answered from the ranking that the inserts and deletes have made,
\* in any state of the levels, for ZRANGE bounds inside and outside the set and for
\* scores on either side of 0.
AnswersExact ==
  /\ \A start, end \in -1..(Cardinality(Member) + 1) :
       Zrange(start, end) = Ranking!RangeAnswer(start, end)
  /\ \A m \in Member : Zscore(m) = Ranking!ScoreAnswer(m)
  /\ Zcard = Ranking!CardAnswer

\* The skip list behaves as the ranking: sorted inserts, deletes that find their
\* member as long as the ranking is sorted, and nothing lost when it is not.
RankingSpec == Ranking!Spec

\* A member that was deleted is gone: ch12's test 6 deletes David and Frank and says
\* of their scores "should be -1.00", that is, not found.
DeleteRemoves ==
  [][\A m \in Member : (Zrem(m) \/ ZremMissing(m)) => m \notin DOMAIN score']_vars
=============================================================================
