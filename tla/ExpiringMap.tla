----------------------------- MODULE ExpiringMap -----------------------------
(***************************************************************************)
(* What the TTL server of ch14-ttl.c promises: a map from which a key      *)
(* vanishes the moment its time to live has passed, whenever and whether   *)
(* or not its entry is removed from the array.                             *)
(***************************************************************************)
EXTENDS Integers, FiniteSets

CONSTANTS Key, Value,
          Seconds,  \* the times to live the clients ask for, all positive
          MaxTime   \* bound of the clock, for TLC

VARIABLES data,     \* the live entries: a function from keys to [value, expire]
          now,      \* time(NULL)
          current,  \* the EXPIRE or KEYS under way, or NoCommand
          seen,     \* the keys that were live when the KEYS under way began
          reply     \* the last command answered, and the answer

vars == <<data, now, current, seen, reply>>

\* The commands, as the handlers read them.  EXPIRE with 0 stands for every
\* non-positive number, a pattern for the keys it matches: all, or one.
Command ==
       [op : {"SET"}, key : Key, value : Value]
  \cup [op : {"EXPIRE"}, key : Key, secs : Seconds \cup {0}]
  \cup [op : {"GET", "TTL", "PERSIST"}, key : Key]
  \cup [op : {"KEYS"}, pattern : {Key} \cup {{k} : k \in Key}]
  \cup [op : {"FLUSHALL", "INFO"}]

NoCommand == [op |-> "NONE"]
Answer(c, r) == reply' = [to |-> c, is |-> r]

Okay == [kind |-> "ok"]
Full == [kind |-> "full"]
Nil == [kind |-> "nil"]
Bulk(v) == [kind |-> "bulk", value |-> v]
Number(n) == [kind |-> "number", n |-> n]
List(s) == [kind |-> "list", keys |-> s]
Counts(m, n) == [kind |-> "counts", withTtl |-> m, noTtl |-> n]

Mortal == {k \in DOMAIN data : data[k].expire > 0}

Init ==
  /\ data = [k \in {} |-> 0]
  /\ now = 1
  /\ current = NoCommand
  /\ seen = {}
  /\ reply = [to |-> NoCommand, is |-> Nil]

\* An atomic command: the map becomes m, the answer is r.
Do(c, m, r) ==
  /\ current = NoCommand
  /\ data' = m
  /\ Answer(c, r)
  /\ UNCHANGED <<now, current, seen>>

\* SET keeps the time to live of a live key and gives none to a new one.  A new
\* key may be refused: dead entries count against the capacity.
Set(c) ==
  /\ c.op = "SET"
  /\ \/ /\ c.key \in DOMAIN data
        /\ Do(c, [data EXCEPT ![c.key].value = c.value], Okay)
     \/ /\ c.key \notin DOMAIN data
        /\ Do(c, [k \in DOMAIN data \cup {c.key} |->
                    IF k = c.key THEN [value |-> c.value, expire |-> 0] ELSE data[k]], Okay)
     \/ c.key \notin DOMAIN data /\ Do(c, data, Full)

Get(c) ==
  /\ c.op = "GET"
  /\ Do(c, data, IF c.key \in DOMAIN data THEN Bulk(data[c.key].value) ELSE Nil)

Ttl(c) ==
  /\ c.op = "TTL"
  /\ Do(c, data, Number(IF c.key \notin DOMAIN data THEN -2
                        ELSE IF data[c.key].expire = 0 THEN -1
                        ELSE data[c.key].expire - now))

\* PERSIST, and EXPIRE with non-positive seconds.
Persist(c) ==
  /\ c.op = "PERSIST" \/ (c.op = "EXPIRE" /\ c.secs = 0)
  /\ \/ /\ c.key \in DOMAIN data
        /\ Do(c, [data EXCEPT ![c.key].expire = 0], Number(1))
     \/ c.key \notin DOMAIN data /\ Do(c, data, Number(0))

FlushAll(c) == c.op = "FLUSHALL" /\ Do(c, [k \in {} |-> 0], Okay)

\* The keys without a time to live are counted exactly; of the others some that
\* are dead may be counted.
Info(c) ==
  /\ c.op = "INFO"
  /\ \E d \in 0..(Cardinality(Key) - Cardinality(DOMAIN data)) :
       Do(c, data, Counts(Cardinality(Mortal) + d, Cardinality(DOMAIN data \ Mortal)))

\* EXPIRE keeps a key it found alive until it has set the new time.
ExpireMiss(c) ==
  /\ c.op = "EXPIRE" /\ c.secs > 0
  /\ c.key \notin DOMAIN data
  /\ Do(c, data, Number(0))

ExpireHit(c) ==
  /\ c.op = "EXPIRE" /\ c.secs > 0
  /\ current = NoCommand
  /\ c.key \in DOMAIN data
  /\ current' = c
  /\ UNCHANGED <<data, now, seen, reply>>

ExpireSet ==
  /\ current.op = "EXPIRE"
  /\ data' = [data EXCEPT ![current.key].expire = now + current.secs]
  /\ current' = NoCommand
  /\ Answer(current, Number(1))
  /\ UNCHANGED <<now, seen>>

\* KEYS lists every key that matches and lives when it answers, and none that was
\* dead when it was called.
KeysCall(c) ==
  /\ c.op = "KEYS"
  /\ current = NoCommand
  /\ current' = c
  /\ seen' = DOMAIN data
  /\ UNCHANGED <<data, now, reply>>

KeysAnswer ==
  /\ current.op = "KEYS"
  /\ \E s \in SUBSET seen :
       /\ DOMAIN data \subseteq s
       /\ Answer(current, List(s \cap current.pattern))
  /\ current' = NoCommand
  /\ seen' = {}
  /\ UNCHANGED <<data, now>>

\* A second passes, and with it the keys whose last it was.
Tick ==
  /\ now < MaxTime
  /\ now' = now + 1
  /\ LET held == IF current.op = "EXPIRE" THEN {current.key} ELSE {}
         live == {k \in DOMAIN data : k \in held \cup (DOMAIN data \ Mortal)
                                      \/ now + 1 <= data[k].expire}
     IN  data' = [k \in live |-> data[k]]
  /\ UNCHANGED <<current, seen, reply>>

Next ==
  \/ \E c \in Command :
       \/ Set(c) \/ Get(c) \/ Ttl(c) \/ Persist(c) \/ FlushAll(c) \/ Info(c)
       \/ ExpireMiss(c) \/ ExpireHit(c) \/ KeysCall(c)
  \/ ExpireSet \/ KeysAnswer
  \/ Tick

Spec == Init /\ [][Next]_vars
=============================================================================
