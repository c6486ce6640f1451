----------------------------- MODULE ArrayStore -----------------------------
(***************************************************************************)
(* The store of ch5-select.c and ch6-epoll.c and their execute_command:    *)
(* keys and values in arrays that are searched from the front, and the     *)
(* buffer of main for the response.  A command is one step of a            *)
(* single-threaded server.                                                 *)
(*                                                                         *)
(* SET does not compare key_count with MAX_KEYS, and KEYS does not compare *)
(* its list with the 2048 bytes it is put together in: a hundred and first *)
(* key, and a longer list, are undefined behaviour, and the assumption     *)
(* keeps the model short of both.                                          *)
(***************************************************************************)
EXTENDS Naturals, Sequences, FiniteSets, SequencesExt

CONSTANTS Key, Value,
          MaxKeys,   \* MAX_KEYS
          MaxListed  \* how many keys fit the buffers of KEYS, 29 of the longest ones

ASSUME StoreAssumption ==
  IsFiniteSet(Key) /\ Cardinality(Key) <= MaxKeys /\ Cardinality(Key) <= MaxListed

VARIABLES store,    \* keys[i] and values[i] for i < key_count
          response  \* the buffer of main, and the command it was written for, if any

Entry == [key : Key, value : Value]

\* The map the arrays stand for: a search stops at the first entry with the key.
IndexOf(k) == SelectInSeq(store, LAMBDA e : e.key = k)
AsMap == [k \in {store[i].key : i \in DOMAIN store} |-> store[IndexOf(k)].value]
Map == INSTANCE KeyMap WITH map <- AsMap, reply <- response

StoreInit == store = <<>> /\ response = [to |-> <<>>, is |-> Map!Nil]

-----------------------------------------------------------------------------
Set(k, v) ==
  LET i == IndexOf(k)
  IN  /\ store' = IF i = 0 THEN Append(store, [key |-> k, value |-> v])
                  ELSE [store EXCEPT ![i].value = v]
      /\ Map!Answer(<<"SET", k, v>>, Map!Okay)

Get(k) ==
  LET i == IndexOf(k)
  IN  /\ Map!Answer(<<"GET", k>>, IF i = 0 THEN Map!Nil ELSE Map!Bulk(store[i].value))
      /\ UNCHANGED store

\* Mistake: the count goes down, the entries behind the deleted one stay in place.
Del_NoShift(k) ==
  LET i == IndexOf(k)
  IN  /\ store' = IF i = 0 THEN store ELSE Front(store)
      /\ Map!Answer(<<"DEL", k>>, Map!Number(IF i = 0 THEN 0 ELSE 1))

\* The entries behind the deleted one move up.
Del(k) ==
  LET i == IndexOf(k)
  IN  /\ store' = IF i = 0 THEN store ELSE RemoveAt(store, i)
      /\ Map!Answer(<<"DEL", k>>, Map!Number(IF i = 0 THEN 0 ELSE 1))

\* KEYS *, and KEYS with any other pattern, which matches nothing.
Keys ==
  /\ \/ Map!Answer(<<"KEYS", "*">>,
                   Map!List(Len(store), {store[i].key : i \in DOMAIN store}))
     \/ Map!Answer(<<"KEYS", "?">>, Map!List(0, {}))
  /\ UNCHANGED store

\* key_count = 0.
FlushAll == store' = <<>> /\ Map!Answer(<<"FLUSHALL">>, Map!Okay)

\* PING, and what is no command.
Other ==
  /\ Map!Answer(<<"PING">>, Map!Pong) \/ Map!Answer(<<"?">>, Map!Error)
  /\ UNCHANGED store

\* DEL or KEYS without an argument writes no response: main sends what is in its
\* buffer, which in ch6 is the last one, to whoever asks now.
Bare == UNCHANGED <<store, response>>

\* In ch5 the buffer is local to the block of one read and is not initialized: it may
\* hold the last response still, or anything.
BareUninitialized == response' = [to |-> <<>>, is |-> Map!Nil] /\ UNCHANGED store

execute_command ==
  \/ \E k \in Key : Get(k) \/ Del(k) \/ \E v \in Value : Set(k, v)
  \/ Keys \/ FlushAll \/ Other \/ Bare

-----------------------------------------------------------------------------
(* Properties *)

\* The entries fit the arrays, and none has a key for the second time.
WellFormed ==
  /\ store \in Seq(Entry)
  /\ Len(store) <= Cardinality(Key)

\* The answers are those of a map.
MapSpec == Map!Spec
=============================================================================
