------------------------------- MODULE KeyMap -------------------------------
(***************************************************************************)
(* What the stores of ch5, ch6, ch9 and ch10 promise: a map, and answers   *)
(* that are those of a map.                                                *)
(***************************************************************************)
EXTENDS Integers, FiniteSets

CONSTANTS Key, Value

VARIABLES map,   \* a function from some keys to values
          reply  \* the last command answered, and the answer

vars == <<map, reply>>

Okay == [kind |-> "ok"]
Nil == [kind |-> "nil"]
Bulk(v) == [kind |-> "bulk", value |-> v]
Number(n) == [kind |-> "int", n |-> n]
List(n, s) == [kind |-> "list", length |-> n, keys |-> s]
Pong == [kind |-> "pong"]
Error == [kind |-> "error"]

\* The command is a sequence of its words, the answer r.
Answer(words, r) == reply' = [to |-> words, is |-> r]

Init == map = [k \in {} |-> 0] /\ reply = [to |-> <<>>, is |-> Nil]

Set(k, v) ==
  /\ Answer(<<"SET", k, v>>, Okay)
  /\ map' = [j \in DOMAIN map \cup {k} |-> IF j = k THEN v ELSE map[j]]

Get(k) ==
  /\ Answer(<<"GET", k>>, IF k \in DOMAIN map THEN Bulk(map[k]) ELSE Nil)
  /\ UNCHANGED map

Del(k) ==
  /\ Answer(<<"DEL", k>>, Number(IF k \in DOMAIN map THEN 1 ELSE 0))
  /\ map' = [j \in DOMAIN map \ {k} |-> map[j]]

\* KEYS *: every key, once.  No other pattern matches.
Keys ==
  /\ \/ Answer(<<"KEYS", "*">>, List(Cardinality(DOMAIN map), DOMAIN map))
     \/ Answer(<<"KEYS", "?">>, List(0, {}))
  /\ UNCHANGED map

FlushAll == Answer(<<"FLUSHALL">>, Okay) /\ map' = [k \in {} |-> 0]

Info == Answer(<<"INFO">>, Number(Cardinality(DOMAIN map))) /\ UNCHANGED map

\* PING, and what is no command.
Other ==
  /\ Answer(<<"PING">>, Pong) \/ Answer(<<"?">>, Error)
  /\ UNCHANGED map

\* DEL and KEYS without an argument are not answered: what the client gets is the last
\* answer again, or what belongs to no command.
Unanswered == reply' = [to |-> <<>>, is |-> Nil] /\ UNCHANGED map

Next ==
  \/ \E k \in Key : Get(k) \/ Del(k) \/ \E v \in Value : Set(k, v)
  \/ Keys \/ FlushAll \/ Info \/ Other \/ Unanswered

Spec == Init /\ [][Next]_vars
=============================================================================
