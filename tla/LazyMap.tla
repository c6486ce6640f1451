------------------------------- MODULE LazyMap -------------------------------
(***************************************************************************)
(* What the key-value store of ch16-threadpool.c promises to its clients,  *)
(* without the array, the mutex or the threads: a map from keys to values  *)
(* with an optional time to live, on which every command takes effect at   *)
(* one instant between its call and its return.  The map is lazy: an       *)
(* expired entry stays, hidden from GET and TTL but not from the other     *)
(* commands, until something evicts it.                                    *)
(***************************************************************************)
EXTENDS Integers, FiniteSets

CONSTANTS Client,   \* who calls
          Key, Value,
          Seconds,  \* the times to live the clients ask for, all positive
          Op,       \* the commands the clients use
          MaxKeys,  \* capacity of the store
          MaxTime   \* bound of the clock, for TLC

VARIABLES map,      \* the entries: a function from some keys to [value, expire]
          now,      \* time(NULL)
          phase,    \* phase[c]: "idle", "called" or "done"
          cmd,      \* cmd[c]: the command c executes
          reply     \* reply[c]: the reply to that command, once it took effect

vars == <<map, now, phase, cmd, reply>>

\* The commands, as the handlers read them.  EXPIRE with 0 stands for every
\* non-positive number.
Command ==
  {c \in   [op : {"SET"}, key : Key, value : Value]
      \cup [op : {"EXPIRE"}, key : Key, secs : Seconds \cup {0}]
      \cup [op : {"GET", "TTL", "PERSIST"}, key : Key]
      \cup [op : {"FLUSHALL", "INFO", "KEYS"}] : c.op \in Op}

NoCommand == [op |-> "NONE"]

None == [kind |-> "none"]
Okay == [kind |-> "ok"]
Full == [kind |-> "full"]
Nil == [kind |-> "nil"]
Bulk(v) == [kind |-> "bulk", value |-> v]
Number(n) == [kind |-> "int", n |-> n]
Reply ==
  {None, Okay, Full, Nil} \cup [kind : {"bulk"}, value : Value]
                          \cup [kind : {"int"}, n : Int]

Expired(e, t) == e.expire > 0 /\ t > e.expire

Without(m, k) == [j \in DOMAIN m \ {k} |-> m[j]]
With(m, k, e) == [j \in DOMAIN m \cup {k} |-> IF j = k THEN e ELSE m[j]]

Init ==
  /\ map = [k \in {} |-> 0]
  /\ now = 1
  /\ phase = [c \in Client |-> "idle"]
  /\ cmd = [c \in Client |-> NoCommand]
  /\ reply = [c \in Client |-> None]

Call(c) ==
  /\ phase[c] = "idle"
  /\ \E q \in Command : cmd' = [cmd EXCEPT ![c] = q]
  /\ phase' = [phase EXCEPT ![c] = "called"]
  /\ UNCHANGED <<map, now, reply>>

Doing(c, op) == phase[c] = "called" /\ cmd[c].op = op

\* c's command takes effect: the map becomes m, the reply is r.
Effect(c, m, r) ==
  /\ map' = m
  /\ reply' = [reply EXCEPT ![c] = r]
  /\ phase' = [phase EXCEPT ![c] = "done"]
  /\ UNCHANGED <<now, cmd>>

\* SET changes the value and nothing else of an entry that exists.
Set(c) ==
  /\ Doing(c, "SET")
  /\ LET k == cmd[c].key
         v == cmd[c].value
     IN  \/ k \in DOMAIN map /\ Effect(c, [map EXCEPT ![k].value = v], Okay)
         \/ /\ k \notin DOMAIN map /\ Cardinality(DOMAIN map) < MaxKeys
            /\ Effect(c, With(map, k, [value |-> v, expire |-> 0]), Okay)
         \/ /\ k \notin DOMAIN map /\ Cardinality(DOMAIN map) >= MaxKeys
            /\ Effect(c, map, Full)

Get(c) ==
  /\ Doing(c, "GET")
  /\ LET k == cmd[c].key
     IN  \/ k \notin DOMAIN map /\ Effect(c, map, Nil)
         \/ k \in DOMAIN map /\ Expired(map[k], now) /\ Effect(c, Without(map, k), Nil)
         \/ k \in DOMAIN map /\ ~Expired(map[k], now) /\ Effect(c, map, Bulk(map[k].value))

Expire(c) ==
  /\ Doing(c, "EXPIRE")
  /\ LET k == cmd[c].key
         until == IF cmd[c].secs = 0 THEN 0 ELSE now + cmd[c].secs
     IN  \/ k \notin DOMAIN map /\ Effect(c, map, Number(0))
         \/ k \in DOMAIN map /\ Effect(c, [map EXCEPT ![k].expire = until], Number(1))

\* -2 for a key that is not there, -1 for one without a time to live.
Ttl(c) ==
  /\ Doing(c, "TTL")
  /\ LET k == cmd[c].key
     IN  \/ k \notin DOMAIN map /\ Effect(c, map, Number(-2))
         \/ k \in DOMAIN map /\ Expired(map[k], now) /\ Effect(c, Without(map, k), Number(-2))
         \/ /\ k \in DOMAIN map /\ ~Expired(map[k], now)
            /\ Effect(c, map, Number(IF map[k].expire = 0 THEN -1 ELSE map[k].expire - now))

Persist(c) ==
  /\ Doing(c, "PERSIST")
  /\ LET k == cmd[c].key
     IN  \/ k \notin DOMAIN map /\ Effect(c, map, Number(0))
         \/ k \in DOMAIN map /\ Effect(c, [map EXCEPT ![k].expire = 0], Number(1))

FlushAll(c) == Doing(c, "FLUSHALL") /\ Effect(c, [k \in {} |-> 0], Okay)

\* The number of entries with a time to live is that of one instant.
Info(c) ==
  /\ Doing(c, "INFO")
  /\ Effect(c, map, Number(Cardinality({k \in DOMAIN map : map[k].expire > 0})))

Return(c) ==
  /\ phase[c] = "done"
  /\ phase' = [phase EXCEPT ![c] = "idle"]
  /\ cmd' = [cmd EXCEPT ![c] = NoCommand]
  /\ reply' = [reply EXCEPT ![c] = None]
  /\ UNCHANGED <<map, now>>

Evict(k) ==
  /\ k \in DOMAIN map /\ Expired(map[k], now)
  /\ map' = Without(map, k)
  /\ UNCHANGED <<now, phase, cmd, reply>>

Tick ==
  /\ now < MaxTime
  /\ now' = now + 1
  /\ UNCHANGED <<map, phase, cmd, reply>>

Next ==
  \/ \E c \in Client :
       \/ Call(c) \/ Return(c) \/ Set(c) \/ Get(c) \/ Expire(c) \/ Ttl(c)
       \/ Persist(c) \/ FlushAll(c) \/ Info(c)
  \/ \E k \in Key : Evict(k)
  \/ Tick

Spec == Init /\ [][Next]_vars
=============================================================================
