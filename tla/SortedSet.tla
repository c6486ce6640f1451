------------------------------ MODULE SortedSet ------------------------------
(***************************************************************************)
(* What the sorted set of ch13-sorted-set.c keeps of its promise, without  *)
(* the skip list: a ranking of distinct members.  As long as the ranking   *)
(* is sorted, ZADD puts a new member at its rank and ZREM removes any      *)
(* member.  ZADD of a member that is there changes its score and leaves it *)
(* where it is; once that has broken the order, a new member may land      *)
(* anywhere and ZREM may refuse a member that is there.  The queries       *)
(* answer from the ranking as it is, but ZSCORE answers no score below 0.  *)
(***************************************************************************)
EXTENDS Integers, Sequences, FiniteSets, SequencesExt

CONSTANTS Member,  \* the members, numbers in the order of strcmp
          Score,   \* the scores, numbers or NaN
          NaN      \* not-a-number, a score sscanf reads

VARIABLES ranking, \* the members by rank, as [member, score]
          reply    \* the number last sent by ZADD or ZREM

vars == <<ranking, reply>>

Less(s, t) == s # NaN /\ t # NaN /\ s < t

\* The order of entries: by score, then by name.  NaN is neither before nor after
\* nor equal to any score, itself included.
Precedes(e, f) ==
  \/ Less(e.score, f.score)
  \/ e.score = f.score /\ e.score # NaN /\ e.member < f.member

Sorted(r) ==
  /\ \A i \in DOMAIN r : r[i].score # NaN
  /\ \A i, j \in DOMAIN r : i < j => Precedes(r[i], r[j])

RankOf(m) == {i \in DOMAIN ranking : ranking[i].member = m}

Init == ranking = <<>> /\ reply = 0

AddNew(m, s) ==
  LET e == [member |-> m, score |-> s]
      rank == 1 + Cardinality({i \in DOMAIN ranking : Precedes(ranking[i], e)})
  IN  /\ RankOf(m) = {}
      /\ reply' = 1
      /\ \/ Sorted(ranking) /\ ranking' = InsertAt(ranking, rank, e)
         \/ /\ ~Sorted(ranking)
            /\ \E i \in 1..(Len(ranking) + 1) : ranking' = InsertAt(ranking, i, e)

Rescore(m, s) ==
  /\ \E i \in RankOf(m) : ranking' = [ranking EXCEPT ![i].score = s]
  /\ reply' = 1

Rem(m) ==
  /\ \E i \in RankOf(m) : ranking' = RemoveAt(ranking, i)
  /\ reply' = 1

\* ZREM of a member that is not there, or that the search misses.
Refuse(m) ==
  /\ RankOf(m) = {} \/ ~Sorted(ranking)
  /\ reply' = 0
  /\ UNCHANGED ranking

Next ==
  \E m \in Member :
    \/ \E s \in Score : AddNew(m, s) \/ Rescore(m, s)
    \/ Rem(m) \/ Refuse(m)

Spec == Init /\ [][Next]_vars

-----------------------------------------------------------------------------
(* The answers to queries *)

\* ZRANGE: the entries whose rank, counted from 0, lies between the bounds.
RangeAnswer(start, end) ==
  SubSeq(ranking, IF start < 0 THEN 1 ELSE start + 1,
                  IF end < Len(ranking) THEN end + 1 ELSE Len(ranking))

\* ZSCORE: the score of a member, unless it is below 0 or no number.
ScoreAnswer(m) ==
  {ranking[i].score : i \in {j \in RankOf(m) : ranking[j].score # NaN
                                              /\ ranking[j].score >= 0}}

CardAnswer == Len(ranking)
=============================================================================
