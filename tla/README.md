# Specifications of the Redis clone

TLA+ models of the programs under `src/`, TLC runs on small instances of them,
and theorems checked by TLAPS.  Paths below are relative to the repository's
root; "ch16:87" is line 87 of `src/part2/ch16-threadpool.c`, and so on.

The repository is a sequence of chapters, each a program of its own.  They do
not link with each other; a later chapter copies what it keeps of an earlier one
and changes it.  The last one, ch16, is the program the README says to build.

## Inventory

| Part | State | Operations | Talks to |
|---|---|---|---|
| Task queue and pool, ch16:41-128, 476-496 | linked list `head/tail/count`, `shutdown`, mutex, condition variable; one `Task*` per worker | `queue_push` (main), `queue_pop` (workers), `queue_shutdown` and the joins (end of main) | main pushes what it reads; workers run `execute_command` |
| Shared store, ch16:27-35, 134-403 | `store[0..key_count)` with `expire_time`, `store_mutex` | SET GET EXPIRE TTL PERSIST KEYS FLUSHALL INFO in the workers; `cleanup_expired_keys` in main and in KEYS | the workers and main share it |
| Connections, ch16:508-600 | descriptor table, epoll set, accept queue, the task's `client_fd` | accept, edge-triggered read until EAGAIN, hand-over to a worker, close by main or by the worker | kernel, queue, clients |
| TTL server, ch14 | the same array without a mutex, `last_cleanup` | the same commands, with `find_key` that removes what has expired | its own epoll loop |
| Skip list and sorted set, ch12, ch13 | nodes with `next[level]`, `max_level`, `count`, `level_count` | ZADD ZREM change it, ZRANGE ZSCORE ZCARD read it | its own epoll loop |
| Hash table, ch9, ch10 | bucket array of chains, `count`, `threshold` | `ht_set` (ch9's never resizes, ch10's does), ch9's `ht_set_with_resize`, `ht_get`, `ht_delete`, `ht_get_keys`, FLUSHALL, INFO | ch10: its own epoll loop |
| epoll server, ch6 | arrays `keys`, `values`, one response buffer, descriptor table, epoll set | accept, edge-triggered read until EAGAIN, close; PING SET GET DEL KEYS FLUSHALL | kernel, clients |
| select server, ch5 | array of client descriptors, the same arrays | select, accept, one read per ready client and round; the same commands | kernel, clients |
| RESP, ch4 | a cursor into a buffer; one connection | `parse_resp`, `parse_inline`, `serialize_response`, `process_command`; accept, one read, one write, close, all of which block | kernel, clients |
| step1-3, ch2, ch3 | demonstrations | blocking echo, parser demo, store demo | none |

Hard behaviours, and where they are:

- two mutexes, a condition variable and five threads (ch16);
- a descriptor number that two threads use and either may close (ch16);
- a clock that moves while a handler runs, and an array whose entries shift when
  an expired one is removed (ch14, ch16);
- a list whose order the program itself can break (ch13);
- a table that is rebuilt in the middle of an insert, or cannot be for want of memory (ch9, ch10);
- a client array that must follow descriptors which are closed and given out again, and an
  accept that may fail on the way to the clients (ch5);
- a cursor that has to stay in step with the lengths of nested values (ch4);
- one thread that must lose no event of many connections, while numbers are reused and
  a batch is worked off (ch6).

Nothing is persisted (the README of the repository names a SAVE command, which no
source file has), so there is no crash recovery to speak of; there is one process
and no messages other than the bytes of a connection.

## Modules

| Module | What it is |
|---|---|
| `WorkPool` | what the pool promises: first in, first out, each task to one worker, no exit before the queue is empty |
| `TaskQueue` | ch16's queue and workers; refines `WorkPool` |
| `TaskQueue_proofs` | the theorems about `TaskQueue` |
| `LazyMap` | what ch16's store promises: commands that take effect at one instant on a map that hides or evicts expired entries lazily |
| `SharedStore` | ch16's array, mutex, handlers and cleanup; refines `LazyMap` |
| `SharedStore_proofs` | the theorems about `SharedStore` |
| `ThreadPoolServer` | ch16's connections; its queue is `WorkPool`'s |
| `ThreadPoolServer_proofs` | the theorems about `ThreadPoolServer` |
| `ExpiringMap` | what ch14 promises: a map from which keys vanish on time |
| `TtlServer` | ch14's array, `find_key`, handlers and loop; refines `ExpiringMap` |
| `TtlServer_proofs` | the theorems about `TtlServer` |
| `SortedSet` | what ch13 keeps of a sorted set: a ranking that is sorted until an update breaks it |
| `SkipList` | the skip list of ch12 and ch13 and the commands on it; refines `SortedSet` |
| `SkipList_proofs` | the theorems about `SkipList` |
| `KeyMap` | what the stores of ch5, ch6, ch9 and ch10 promise: a map |
| `HashTable` | the hash tables of ch9 and ch10, ch10's commands; refines `KeyMap` |
| `HashTable_proofs` | the theorems about `HashTable` |
| `ArrayStore` | the arrays and commands of ch5 and ch6; refines `KeyMap` |
| `Connections` | the clients, the kernel and the calls of a single-threaded server, on `ArrayStore` |
| `EventLoop` | ch6's main, on `Connections` |
| `SelectLoop` | ch5's main, on `Connections` |
| `ServerLoops_proofs` | the theorems about `EventLoop`, `SelectLoop`, `BlockingLoop`, `Servers`, `ArrayStore` and `Resp` |
| `Resp` | ch4's parser, serializer and `process_command`, as operators |
| `BlockingLoop` | ch4's main, on `Connections` and `Resp` |
| `Servers` | the three single-threaded servers under one specification |
| `Arrangement` | a finite set in an order, and the part of a sequence at some positions |
| `CommonLemmas` | what the proofs share: least counterexamples, what an arrangement and a part of a sequence are, arrays of entries with a key and the maps they stand for |
| `MC*` | instances for TLC |

The three ch16 modules are layers of one program.  `ThreadPoolServer` uses the
queue `TaskQueue` is shown to implement, and abstracts a command to what it writes: one
reply, nothing, or nothing because it never returns; `SharedStore` starts where a worker has a command.  The queue of `ThreadPoolServer` is a
sequence from which a worker takes the first task, as `WorkPool` has it.

### TaskQueue

One action per critical section or per part of one.  A section is split where the
list is between two shapes, so that it is the mutex, and not the grain of the
model, that makes it atomic: `PushLink` (ch16:87-93) and `PushSignal` (94-97),
`PopHead` (112-113) and `PopUnlink` (114-119).  The last access and the unlock are
one step.  The tail is set in `PushSignal` although the code sets it beside the
link; both lie within the section.  `pthread_cond_wait` releases the mutex and
sleeps in one step, and may return without a signal (`SpuriousWakeup`).  `Task`
stands for addresses: `RunTask` frees one and `NewTask` may get it again.  `fifo`
is a history variable: the tasks in the order of the pushes.  A command may never return
(KEYS does not): a worker may stay where `RunTask` is its next step.

The cleanup code of main (602-606) comes after a `while (1)` without a break and is
not reached in the program as it is.  It is modelled as written, as what would
happen if main left its loop; main may do so whenever it is not pushing.  Of it only
`ExitMeansDrained` and the refinement speak.  That the joins end is not claimed: with a worker in
KEYS they would not.

### SharedStore

A handler is split at the lock, between the search and the use of the index, and at
the unlock.  INFO goes on after the unlock, as in the code: its two reads of
`key_count` (ch16:400) are two steps, in the order in which gcc evaluates the
arguments.  `cleanup_expired_keys` takes one step per round of its loop, each
reading the clock again.  KEYS takes the mutex and then goes to the cleanup, which
takes it again: `CleanupLock` of a worker is never enabled, and neither is the rest
of `handle_keys`.  Replies are values, not text.

The key search of GET is one step with its removal (one loop in the code, under the
mutex).  PING, unknown commands and malformed arguments touch no shared state.

### ThreadPoolServer

The kernel's part, from how the code uses it: a table from numbers to connections,
the lowest free number for `accept`, an event per change of a watched connection
(edge-triggered) and one at `EPOLL_CTL_ADD` if there is something to read, a
level-triggered listening socket.  `Close` frees the number whoever calls it.

What a client sends arrives in up to `MaxParts` parts, which stand for the packets of TCP as
well as for the 1023 bytes of one `read`, and for further requests.  `ReadRequest` takes what is
there or a part of it, and makes a task of it whether or not it is a whole request, as the
code does.  `Habit` says when a client that has sent may close its end.

A command is one of four steps of its worker: `Reply` writes to whatever the number refers to
by then; `Mute` is KEYS without a pattern, which writes nothing (ch16:354-378); `Hang` is KEYS
with one, which waits for its own mutex for ever, or any command that then waits for the same
mutex; `Killed` is a write that raises SIGPIPE, as in `Connections`.  After a `Hang` main may stop
as well, at its next cleanup (`Cleanup`, ch16:562-566).  While nobody holds the mutex for ever the
cleanup changes nothing that is modelled here.  Which of the steps is taken is open, and the
fairness of a worker does not exclude `Hang`.

`mute` and `hung` tell what became of the commands.  `reread` is a history variable: main has
read more, or the end, of a connection while a task named its descriptor.  That is the one
thing that spoils the hand-over (`HandOverHolds`): the code goes on reading after it has queued
the task (ch16:593-597).

### TtlServer

One thread, but time passes inside a handler, so a handler is split where it reads
the clock again: EXPIRE and TTL after `find_key`, the cleanup in every round.
`Alive`, in the refinement mapping, is the set of entries that count: those not
expired, and the one EXPIRE has found and is about to give a new time.

### SkipList

Nodes are named by their members, pointers are kept, a command is one step.  Three
recursive functions follow the pointers as the loops do: `From` is a walk along a level,
`Past` a search along it that goes on while the next node is in a set, and `Update` takes one
`Past` per level, each from where the one above stopped.  The
random height is chosen by `\E h`.  Scores include negative ones, and not-a-number, which
`sscanf` accepts and which compares false with everything.  The queries are operators on
the state; `AnswersExact` compares them with those of `SortedSet` in every state.  ZSCORE
takes a negative score for the -1 that `sl_get_score` returns for a missing member
(ch13:321), and a not-a-number one as well: `ScoreAnswer` of `SortedSet` says so.

### HashTable

A chain is the sequence of its entries, head first; `Hash` is a parameter.  A call is
one step, with the resize it triggers: nothing can come between them.  `program` says
whose table it is.  Of ch9 there are the two ways to set a key, in any mix: `SetPlain`,
which never resizes although its first lines print that it does (ch9:63-66), and
`SetWithResize`, whose resize may find no memory and puts size, threshold and buckets back
(`Restored`).  Of ch10 there are all commands.

`Walk`, the order in which the loops of KEYS and of the resize meet the entries, and `Rehash`,
the chains they leave, are said with `Arrange` and `PartAt` of `Arrangement`.  TLC computes the same with
`SortSeq` and `SelectSeq`, but of those the provers know nothing.

### Connections, EventLoop, SelectLoop, BlockingLoop, Servers

`Connections` has what the three mains share: clients that connect, send, leave and come
again, the kernel's tables, and the effect of accept, read, write and close on them.  What a
client sends between two reads is a flag: it is one read, and what it says is chosen when it
is read, since nothing depends on it before.  Read and write are two steps, between which
the client may act: that is where a reply can go to a client that has left.  A first reply to
such a client provokes a reset (`torn`), a second one may then find the connection broken and
raise SIGPIPE, for which the programs have no handler (`Killed`, `pc = "over"`).

`EventLoop` is ch6's main.  The kernel's ready list is a sequence: `epoll_wait` takes up to
`MaxEvents` from its front, passes over descriptors on which there is nothing left to read,
and puts the level-triggered listening socket back at the end.  EINTR ends the loop
(`EpollFails`).  The loops of ch10, ch13 and ch14 have its shape.  `EpollSpec` is this server with its
clients.

`SelectLoop` is ch5's main.  `clients` is its array; `select` reports the listening socket and
the slots that are readable, and main works through them in that order.  An accept that
fails goes back to `select` at once (`NoClient`, the `continue` at ch5:169), past the clients
that were reported.  A select that fails leaves everything as it is.  `SelectSpec` is this server
with its clients.  ch5 never makes its client sockets non-blocking, so that the write of ch5:209
may not return: `WriteClient` has no fairness.

In both, the part of a sequence that remains (the readable ones of a list, a list without a closed
descriptor) is `PartAt` of `Arrangement`, as in `HashTable`.

`BlockingLoop` is ch4's main.  The one read of a connection gets a request as the wire
carries it: as an array or on a line, whole, with another behind it, or cut off anywhere.
`request` holds the text, what its client meant by it (if it is whole) and the reply.

`Servers` is the three of them with the same clients: a behaviour is one of the three, by
`program`, and `Main` is the main of that one.

`ArrayStore` has one action per command.  `response` is one buffer for all clients, with the
command it was last written for.  DEL and KEYS without an argument leave it alone, and main
sends it again (`Bare`).  In ch5 the buffer belongs to the block of one read and is not
initialized: what is sent may be the old reply or anything (`BareUninitialized`, which stands for any
that answers nobody).  ch4 stores nothing.

### Resp

A text is a sequence of characters, where a name such as PING is one character (the model
does not compare letters); numbers are written and read with all their digits.  `Char` is a
parameter, of which `CharAssumption` asks only what the program itself writes or looks for.
`At`, `Slice`, `Find` and `Skip` are the character loops and `strncpy`/`strchr`.  An operator
returns the value and the cursor.  Behind the text there are zeros, as in the zeroed buffer of
main.

The calls of `parse_resp` for the elements of an array are for positions behind the `*` of the
array.  So the recursion is that of a function on the positions of the text, `parsed`, and
`parse_value` is the body of the code with the calls behind it, `element`, as an argument.  No
operator is RECURSIVE, and `TLAPS` can reason about all of them.

What clients mean is `RespValue[Depth]`: lines without an end of line, numbers of an int, strings
with their length (any characters, an end of line too), null, and arrays of such values, also one with
count -1, nested at most `Depth` deep.  `Wire` is what they write of a value.

The last loop of `parse_inline` is meant to skip the end of the line (ch4:75-76) but starts at
the first word, where there is nothing to skip.  `process_command` parses one value and drops
the cursor, so that nothing comes of it; `RequestUnderstood` asks for the cursor of arrays and
strings only.

## Runs

| Run | Instance | Shows |
|---|---|---|
| `queue` | 3 workers, 3 task addresses | `TypeOK`, `ListIsFifo`, `OneHolderPerTask`, `WakeupsCoverTasks`, `ExitMeansDrained`; refinement of `WorkPool`; `EveryTaskIsTaken` |
| `store_safety` | 2 workers, 3 keys, 2 values, capacity 2, clock up to 3, all commands | `TypeOK`, `UniqueKeys`, `IndexFresh`, `CleanupLeavesNone`; refinement of `LazyMap` |
| `store_live` | 1 worker, 3 keys, capacity 2, every command but KEYS | `CommandsAnswered`, `ExpiredLeaves` |
| `store_keys_hangs` | 2 workers, 1 key; SET, GET and KEYS | violation of `CommandsAnswered` |
| `store_lost_set` | SET, EXPIRE | violation of `SetTakesEffect` |
| `ttl` | 3 keys, capacity 2, clock up to 4 | `TypeOK`, `CleanupLeavesNone`; refinement of `ExpiringMap`; `ExpiredLeaves` |
| `server` | 2 clients of every habit, 2 workers, 2 descriptors, 2 parts | `TypeOK`, `HandOverHolds`, `NoEventMissed`, `NoFdLeaks`; `ConnectionsEnd`, `RequestsAnswered` |
| `prompt_clients` | 3 clients that leave after the reply, one part | violation of `RepliesGoHome` |
| `skip_list` | 3 members, scores -1, 0 and not-a-number, 3 levels | `TypeOK`, `LevelsNest`, `CountsExact`, `TopLevelUsed`, `AnswersExact`; refinement of `SortedSet` |
| `skip_list_delete` | 3 members, scores 1 and 2 | violation of `DeleteRemoves` |
| `hash_table` | 4 keys, a table of 2 that grows to 8 (ch10) or 10 (ch9) | `TypeOK`, `EveryKeyPlaced`, `CountExact`, `LoadBounded`; refinement of `KeyMap` |
| `servers` | each of the 3 servers, 2 clients, 2 descriptors, 2 keys, 2 values, one event per `epoll_wait`, 1 or 2 slots, 72 requests, nested at most 3 deep | `ConnectionsOK`, `SlotsExact`, `RequestUnderstood`; refinement of `KeyMap`; `AllServed` |

Operators named with a suffix (`Lock_NoExclusion`, `PopUnlink_KeepTail`) are
plausible mistakes: put in place of the operator they are named after, they break
the properties of the runs.

### Bounds, and why they are enough

- Three workers and three addresses: one worker asleep, one on its way and one
  busy, with a queue of up to three, which is where a wakeup can be lost or stolen;
  every address is reused.  `THREAD_COUNT` is 4.
- Two workers and main contend for `store_mutex`; three keys in a store of two
  reach the full store, and a removal that shifts another key's entry.
- The clock (`MaxTime`) stops at 3 or 4: enough to set a time, let it pass, clean up,
  and set another.  `Period` is 0 or 1 for the code's 5, so that a cleanup falls due
  within the clock's range.
- Two clients of ch16 share two descriptors, so that one takes the other's number once it is
  closed.  Two parts (`MaxParts`) are what it takes to have two tasks of one
  connection.  The safety properties were also checked with three clients (4,438,946 states up to
  symmetry), and the theorems have no such bounds.  `accept` may fail at any time.
- `store_live`: every handler and every way out of it, a full store included, within a
  clock of three seconds.  One worker and the cleanup of main compete for the mutex; the safety
  of more workers is the matter of `store_safety` and of the theorems, whose `MutexInv` says that
  a thread holds the mutex only inside its critical section.  With two workers, `CommandsAnswered` was checked for two
  keys in a store of one (78,074 states) and `ExpiredLeaves` for SET and EXPIRE while developing.
- Three members and three levels have every relative order, every combination of
  heights and every broken order of three.  An instance with four members was also
  checked while developing.
- Hashes that collide in a table of 2, of which one pair also collides in a table of 4
  and another also in one of 8, across two resizes.  `MinSize`, 16 in ch9, is 5 here: it is more
  than twice the first size and less than twice the second, so that both sides of
  `if (new_size < 16)` are taken.
- Two clients that come and go as often as they like and a listening socket that is always
  ready compete for one event per `epoll_wait` (`MAX_EVENTS` is 64): what is left in the list
  must not be forgotten.  An instance of `EventLoop` with three clients, one key and one value
  was also checked while developing.  `AddFails`, `AcceptFails` and `NoClient` may happen at any
  time.
- `MAX_CLIENTS` is 100; with one slot the second connection is refused, with two a slot and a
  number are freed and taken again in either order.
- Requests: all commands of one and two words from six (names, an empty word, an end of line, a
  word that looks like an array), SET with two arguments, values of every type, an array of all
  of them, and arrays of two of which the second is an empty array, one with count -1 or one with a
  command in it; of each, every cut-off text as well.

### Fairness

- `TaskQueue`: a thread inside the queue's functions keeps running (weak fairness of each
  worker's next step in `queue_pop`, and of main's push once begun).  Nothing is assumed of how
  the mutex is handed over, nor that a command returns.  Main need not push or shut down.
- `SharedStore`: the clock moves, threads run, and a thread that keeps asking for a mutex
  that keeps being released gets it (strong fairness of the lock steps).  The default
  mutex of glibc does not promise this by itself; what is assumed is that no thread loses
  the race for ever.
- `TtlServer`: main runs, the clock moves, and no client keeps the read loop busy for ever
  (strong fairness of `NextRound`).  A client that never stops sending does starve the
  cleanup: the loop at ch14:416 ends only at EAGAIN.
- `ThreadPoolServer`: main and the workers run (weak fairness of `Main` and of each `Work(w)`);
  the clients owe nothing.  A worker in a command may take `Hang`, after which it has no step
  left.  The properties name it: `ConnectionsEnd` holds unless a worker hangs or SIGPIPE ends the
  process, `RequestsAnswered` where no worker hangs and main never reads on.
- `Servers`: main runs, but for a write of ch5, which may block (weak fairness of `Unblocked`); the
  clients owe nothing, not even to read.  The sockets of ch6 do not block; ch4's do, but the one
  short answer of a connection always fits.  `AllServed` itself names
  what can keep a client waiting: the end of the server; one connection that holds main for
  ever (`<>[](fd = d)`: in ch6 a client that sends again between every write and the next read, in
  ch4 one that connects and is silent, in ch5 one that is written to and does not read); and
  in ch5 an accept that fails again and again, after
  each of which main skips its clients (`[]<><<NoClient>>_vars`).  Without each of these TLC finds the
  starvation.  In ch6 a connection in the backlog is left out, because nothing bounds how often
  accept fails.

## Theorems

The proofs are about the specifications without fairness, for every value of the
constants that meets the assumption of the module.  They are where a reader who doubts the
small instances should look: nothing there depends on the number of workers, keys,
descriptors or seconds.

| Module | Theorem | Statement |
|---|---|---|
| `TaskQueue_proofs` | `TypeCorrect`, `QueueIsFifo`, `SingleHolder`, `DrainedOnExit`, `NoLostWakeup` | `SafeSpec => []TypeOK`, `[]ListIsFifo`, `[]OneHolderPerTask`, `[]ExitMeansDrained`, `[]WakeupsCoverTasks` |
| | `RefinesPool` | `SafeSpec => Pool!SafeSpec` |
| `SharedStore_proofs` | `TypeCorrect`, `KeysStayUnique`, `IndexStaysFresh`, `CleanupComplete` | `SafeSpec => []TypeOK`, `[]UniqueKeys`, `[]IndexFresh`, `[]CleanupLeavesNone` |
| | `StoreIsLazyMap` | `SafeSpec => LazySpec` |
| `TtlServer_proofs` | `TypeCorrect`, `CleanupComplete` | `SafeSpec => []TypeOK`, `[]CleanupLeavesNone` |
| | `ServerIsExpiringMap` | `SafeSpec => IdealSpec` |
| `ThreadPoolServer_proofs` | `TypeCorrect`, `EveryEventHandled`, `EveryFdFollowed` | `SafeSpec => []TypeOK`, `[]NoEventMissed`, `[]NoFdLeaks` |
| | `HandOverIsSafe` | `SafeSpec => []HandOverHolds` |
| `HashTable_proofs` | `TypeCorrect`, `KeysStayPlaced`, `CountStaysExact`, `LoadStaysBounded` | `Spec => []TypeOK`, `[]EveryKeyPlaced`, `[]CountExact`, `[]LoadBounded` |
| | `TableIsMap` | `Spec => PromiseSpec` |
| `ServerLoops_proofs` | `EpollConnectionsOK`, `EpollMissesNothing` | `EpollSpec => []ConnectionsOK`, `[]NoEventMissed` |
| | `EpollAnswersAsMap` | `EpollSpec => MapSpec` |
| | `SelectConnectionsOK`, `SelectSlotsExact` | `SelectSpec => []ConnectionsOK`, `[]SlotsExact` |
| | `SelectAnswersAsMap` | `SelectSpec => MapSpec` |
| | `ValuesAreReadBack` | for every `v \in RespValue[Depth]` and any `rest`, `parse_resp` of `Wire(v) \o rest` is `v`, with the cursor at `Len(Wire(v))` |
| | `LinesAreReadBack` | `parse_resp` of the words of a command on a line is the array of those words |
| | `RequestsUnderstood` | `Spec => []RequestUnderstood`, for ch4 |
| | `ServersConnectionsOK`, `ServersSlotsExact`, `ServersAnswerAsMap` | `Spec => []ConnectionsOK`, `[]SlotsExact`, `MapSpec`, for the three servers of `Servers` |
| `SkipList_proofs` | `SkipListTypes`, `LevelsAlwaysNest`, `CountsAlwaysExact`, `TopLevelAlwaysUsed`, `AnswersAlwaysExact` | `Spec => []TypeOK`, `[]LevelsNest`, `[]CountsExact`, `[]TopLevelUsed`, `[]AnswersExact` |
| | `ListIsRanking` | `Spec => RankingSpec` |

`CommonLemmas` holds the lemmas they share.

### Assumptions

- `QueueAssumption`: the workers are finitely many; main, the workers, the tasks and NULL are
  told apart.  Finiteness is needed by `NoLostWakeup`, which counts them.
- `StoreAssumption` of `SharedStore`: the same of its threads; the capacity and the clock's
  bound are positive.  `Seconds` are the positive arguments of EXPIRE; zero stands for the others, which
  persist the key (ch16:261).
- `TtlAssumption`: the same of the constants, and finitely many keys (they have at most 63
  letters), which bounds the expired entries that INFO may still count.
- `ServerAssumption`: descriptors are numbers, the listening one is none of theirs, NULL none
  of anything.  `accept` takes the lowest free descriptor; that there is one if any is free
  is `MinProperties`.
- `ConnectionAssumption`: descriptors are positive numbers, the listening one is a number and none
  of theirs, NULL neither a client nor a descriptor.  `EpollAssumption`, `SelectAssumption`: `MAX_EVENTS` and
  `MAX_CLIENTS` are positive.  `StoreAssumption` of `ArrayStore`: no more keys than the arrays, and the
  buffers of KEYS, hold.
- `CharAssumption`: the digits, the marks of the protocol, the blanks and the letters of the answers are
  characters, and the zero that ends a text is none.  `DepthAssumption`: `Depth` is a number, any.
  `RequestAssumption`: the clients of ch4 mean values of the protocol, `RespValue[Depth]`.
- `SkipListAssumption`: the members are finitely many (a name has at most 63 letters) and numbers, in the
  order of `strcmp`; a score is a number or NaN; there is at least one level; the head is no member, NULL
  nothing of both.
- `HashTableAssumption`: a hash is a number (the code's is unsigned), the first size is positive.

### The arguments

A property is seldom inductive.  In each module `IInv` is an invariant that is; TLC
checked it on the instance of a run before it was proved (the shared store on all of its 9,045,676
states, the TTL server on 236,794, the connections of ch16 on 4,438,946 up to symmetry, the hash table on 10,857, the skip list on 9,560, ch6 with three clients on 1,402,200, ch5 on 417,480, the three servers
together with four requests on 515,565).  Each module then shows, action by action, that it is kept.

*Queue.*  The parts say who is inside the critical section (the mutex's holder and nobody
else), what the list looks like at each point inside it (after `PushLink` the new task hangs
behind the old tail and is not yet in `fifo`; after `PopHead` the head is already the second
element of `fifo`), who holds which task, and what shutdown implies.  `ListIsFifo`
speaks of the moments when the mutex is free; the invariant has to say what holds at the
others, and `OneHolderPerTask` is what makes a write to `next` of one task leave the rest of
the list alone.  `NoLostWakeup` counts: a push adds a task and wakes a sleeper if there is one; a
worker leaves the set of those awake only with a task or, when it goes to sleep, after it
has seen no head, when no push or pop is half done and `fifo` is therefore empty
(`NoHeadNoTask`).  In the refinement the push takes effect in `PushSignal`, the pop in `PopUnlink`,
everything else stutters.

*Shared store.*  `MutexInv` says that a thread is in a critical section if and only if the
mutex is its own.  So while one handler is between its search and its use of the index,
no other thread can write the array (`OneInside`, `WriterHolds`), and that is what
`IndexStaysFresh` needs; `KeysStayUnique` needs it in turn, since SET appends when its search found
nothing.  `HandlerInv` says which command is at which place, and that KEYS never comes to
the scan, because its second lock is never granted.  `CleanupComplete` needs only that
`RemoveAt` puts the next entry where the removed one was and the loop does not advance.  In
the refinement a command takes effect when its handler uses the index (`ApplyingRefines`), the
removal of an expired entry is the eviction the lazy map may do at any time, and
INFO's two unlocked reads belong to its return.

*TTL server.*  One thread, so the difficulty is the clock.  `Alive` has to be the same set of
entries before and after each lazy or periodic removal, and lose an entry when a tick makes it
expire, except the one EXPIRE is about to give a new time.  `SeenInv` says what
KEYS has met and what is still before it, so that its answer is the set of keys alive at
one instant.

*Connections.*  `NoEventMissed` and `NoFdLeaks` are nearly inductive; what they lack is
that the batch and the watched set hold open descriptors and that nothing is read that was
not sent.  `HInv`, for `HandOverIsSafe`, says of the table that a connection has one descriptor
(`TableInv`), and then, until `reread`: a task's descriptor is its client's
connection, no two tasks name one descriptor (`OneOwner`), and a client that has an answer gets no
other, since its connection is closed or about to be (`OnceAnswered`).  While it holds main closes no
descriptor of a task: to find the end of a connection that a task names is to reread it, and a
number that a worker has closed is not among the tasks.  It needs no assumption about the
clients.  `OnceAnswered` is what excludes SIGPIPE: the first reply to a connection is the only one.

*Hash tables.*  `Sound` says of a table, `[buckets, size, threshold, count]`, that every entry is in
the chain its hash selects, that a chain has a key once, and that `count` is the number of
entries.  As it is about a record and not about the variables it holds for the table as it
is and for what a resize makes of it (`ResizeSound`), so that a SET that resizes first and then
inserts is two applications of lemmas about a single one.  The entries themselves are
`EntriesIn`, a set: chains come and go in a resize, the set stays (`RehashProperties`), and the map
it stands for (`ValueMap`) with it.

*The single-threaded servers.*  One invariant serves both mains.  `OwnerInv` says that a client has one
place: it is in the backlog once or behind one descriptor, as `conn` says.  `ReadyInv` and `BatchInv` say
that the kernel's list and the batch have open descriptors, each once, and that what main reads
is not in the batch any more: when it closes that descriptor nothing main still has to handle names it, and
the number may be given out again while the batch is worked off.  For ch5 `SlotInv` adds that a slot
is empty or has an open descriptor, each in one slot, at every point of a round and not only when the
set is built, which is where `SlotsExact` looks.  `NoEventMissed` follows each event on its way from
the list through the batch to main's hands: whatever becomes readable lists its descriptor, and main lets go of one
only when nothing is left to read (`ReadAgain`) or when it is closed.  TLC checked it with `IInv`, by no run of
its own: what it is for, the runs check as `AllServed`.  The arrays are a map
because no two entries have the same key (`GoodStore`), so that a search from the front finds the only
one; the commands of the map are the reads, everything else leaves it as it is.

For ch4 `OneAtATime` says that there is no batch and that main has a descriptor except while it waits, which
`BatchInv` cannot say of the others; `RequestInv` says that what main has read is one of the texts a read
may return and that what it is about to write is `process_command` of that text, or that `request` is empty.
`ServersInv` is all of these, each under its `program`, which no step changes (`ProgramStays`).

*RESP.*  `RequestsUnderstood` is `RequestInv` and three facts about the operators.  The first is
`ValuesAreReadBack`.  `Occurs(t, pos, w)` says that the text `w` stands in `t` behind `pos` characters;
the characters at, and the slices of, those positions are then those of `w` (`OccursProperties`), whatever
comes before and after, and a text made of two occurs where the first occurs and the second behind
it (`OccursConcat`).  `ReadsBack(w, v)` says that wherever `w` occurs in any text, `parse_resp` at that
place returns `v` and the place behind `w`.  It holds of a value without elements, type by type
(`ScalarReadsBack`): `strtol` of what `Decimal` writes is the number (`StrtolReads`; `ReadAs` follows the value
digit by digit, `DecimalProperties` one division by ten after the other), and a line ends at its first CR.  If it
holds of the elements of an array it holds of the array (`ArrayReadsBack`): `FlattenProperties` says where each
element ends, and the cursor of the loop goes through exactly those places (`ElementsRead`).  So it holds of
every depth (`EveryValueReadsBack`), by the least depth at which it would fail.  The second is
`LinesAreReadBack`: a word begins where the character before it is a blank, there are as many such places as
words (`StartsAre`), and the loop comes to them in their order (`WordsRead`).  The third is that an answer is
itself a value without elements (`AnswerIsScalar`), so that the reply reads back too (`ReplyReadsBack`).
`ArrivalUnderstood` puts them together for each way in which a request arrives.

That a recursive function satisfies its equation (`ParseRespIs` for the parser, `RespValueIs`, `WireIs`, and
those of `strtol`, `Decimal`, `FlattenSeq`, the cursor and the words) is shown like `From` and `Past` below:
a function that satisfies it on a part of the domain exists for every part.  For the parser the parts are
the ends of the text, since its calls go forward.

*Skip list.*  The invariant must not speak of the order of the scores, which an update in place breaks
for good.  It says that every level is a list (`Chained`: the pointers lead from the head through its
nodes, each once, and end), that each is `Below` the one under it (its nodes are there too, in the same
order), and that the bottom one has every node.  What a search then guarantees, in any order of
the scores, is `Stops`: on each level it stops at one place, and the places are in line (`Aligned`: what
is before the stop on one level is before it on the level below), because a search that comes down a
level cannot pass the node that stopped it above.  So an insert puts its node at matching places
of its levels, and a delete whose search ends at its node on the bottom level ends at it on every level the
node is on, which is what keeps the levels nested (`BelowBoth`, `BelowLower`, `BelowWithout`) and linked
(`LinkIn`, `LinkOut`).  In the refinement the order comes back in: if the ranking is sorted, the nodes
before the stop are exactly those that precede the entry (`SortedSearch`), so that a new one lands at its
rank, and a delete that misses its node shows that the ranking was not sorted.  `From`, `Past` and `Update` are
recursive functions; what they are is shown by exhibiting a function that satisfies their equation, and that
all that do agree on the nodes of the list (`WalkOfChain`, `PastOfChain`, `DownExists`).

What would be an induction over the walk of the table, or along a list, is done without one: the provers
cannot use the library's induction theorems, whose parameter is an operator, but from the
well-founded order of the numbers `LeastNumber` follows, a set of numbers that is
not empty has a least one.  `ArrangementExists`, by which a finite set can be put in an order, takes the
smallest size at which that fails.  Along the skip list `FromTheEnd` and `FromTheStart` take the
set of places at which something holds.

### Only model-checked, and why

- All liveness: `EveryTaskIsTaken`, `CommandsAnswered`, `ExpiredLeaves`, `ConnectionsEnd`,
  `RequestsAnswered`, `AllServed`.  It needs ENABLED, which the prover does not support.

Every other property of a passing run is a theorem.

## Disagreements between the code and what it says

| Run | The code | What is said |
|---|---|---|
| `store_keys_hangs` | KEYS locks `store_mutex` twice (ch16:355, 135) and hangs the worker; then everybody | `README.md:24` and the banner ch16:552 offer KEYS |
| `store_lost_set` | SET on an expired key that is still stored keeps the old time | replies +OK and logs "SET key = value" (ch16:197-198) |
| `prompt_clients` | the read loop closes the descriptor at end of file (ch16:583) | "Don't close fd here - worker will handle it" (ch16:595) |
| `skip_list_delete` | an update in place breaks the order, a delete then misses its node (ch13:98) | "should be -1.00" after a delete (ch12:287) |

The end of file that `prompt_clients` meets is one of two ways to read on from a connection that has
been handed over.  The other needs no client that leaves: a request that takes two reads, because it is
longer than 1023 bytes or TCP has split it, becomes two tasks on one descriptor (ch16:580-593).  The
close after the first gives the number to the next client, which gets the reply to the second.
With `Habit = {}`, `MaxParts = 2` and one descriptor TLC finds that, too, within 19 states.
`HandOverHolds` says that these two are all.

## Not modelled, and why

- A store of ch5 or ch6 with more keys than MAX_KEYS: SET does not check, and what follows is
  undefined (`StoreAssumption`).
- A KEYS list of ch5 or ch6 that is longer than the 2048 bytes it is put together in (30 keys of 63
  letters; ch5:81-94, ch6:89-102): undefined as well, and kept out by the same assumption.
- RESP lengths below -1, numbers that no int can hold (`strtol` and the conversion to int would change
  them) and requests longer than the 4096 bytes of the buffer; `print_resp` and
  `free_resp`, which only print and free (the 64 characters of `print_resp` for the indentation, ch4:185,
  end at depth 32: a deeper value is undefined behaviour there).
- What a cut-off RESP request is answered: the model computes it, and it is often +OK; no line of
  the repository says what it should be, so that no property is about it.
- INFO's three numbers: the model has the reads outside the mutex (`InfoNoTtl`, `InfoKeys`), and
  `InfoConsistent` says that they should add up.  They need not; no run is spent on it.
- ch10 without memory for a larger table: the next line dereferences a null pointer.
- Text: formatting, logging; command parsing but for ch4's, and so a first word that is longer than the
  64 characters of `cmd` (ch16:410-431).
- In ch16, a `set_nonblocking` or `epoll_ctl` that fails, and a `write` that writes a part, none of
  which the code notices; a client that resets its connection, which can make even a first write
  raise SIGPIPE (the model's clients close in the regular way); everywhere
  failing `malloc`, `pthread_create`.
- The unlocked read of `task_queue.count` for the log (ch16:593): the value is only printed.
- The mains of ch10, ch13 and ch14, whose loops are ch6's without its checks of accept and
  `epoll_wait`.
- `ch2-socket.c`, `ch3-*.c`: straight-line socket calls.  `step1` to `step3`: blocking mains of the
  shape of `BlockingLoop`, the parser of ch5 on fixed strings, and the store of `ArrayStore`.

## Plan

1. Done: the queue, the shared store and the connections of ch16; the TTL server; the skip
   list and its queries; both hash tables; the single-threaded servers of ch4, ch5 and ch6
   with RESP.
2. Done: the proofs of the queue, the shared store, the TTL server, the connections of ch16,
   the hash tables, the skip list, the servers of ch4, ch5 and ch6, and the RESP parser: every invariant and
   action property that the passing runs check, and every refinement.
3. Left: liveness of the mains of ch10, ch13 and ch14, whose loops are ch6's but do not check accept and
   `epoll_wait`; a reset of a connection by its client.
