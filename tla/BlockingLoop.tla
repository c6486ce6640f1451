---------------------------- MODULE BlockingLoop ----------------------------
(***************************************************************************)
(* The main of ch4-resp.c: accept, one read, one answer, close, with calls *)
(* that block.  The mains of step1, step2 and step3 have this shape too.   *)
(*                                                                         *)
(* The one read returns what has arrived: the request on the wire, whole   *)
(* or as far as it has come, as an array or on a line, perhaps with the    *)
(* next request behind it.  A request fits the buffer.                     *)
(***************************************************************************)
EXTENDS Connections, Resp

CONSTANT Request \* the values that clients send

ASSUME RequestAssumption == Request \subseteq RespValue[Depth]

VARIABLE request \* what main has read; reply is the answer to it

NoRequest == [text |-> <<>>, value |-> None, end |-> 0, reply |-> <<>>]

BlockingInit ==
  /\ program = "blocking" /\ ConnectionsInit
  /\ request = NoRequest

\* A request of words that are no blanks and do not look like an array goes on a line.
OnLine(v) ==
  /\ v.type = "*" /\ v.count > 0
  /\ \A i \in 1..v.count :
       v.array[i].type = "$" /\ v.array[i].len > 0
         /\ Range(v.array[i].str) \cap Blank = {}
  /\ Head(v.array[1].str) \notin Mark

\* What a read may return of the request v, with v and its length when it is whole.
Arrivals(v) ==
  LET wire == Wire(v)
      whole(t, n) == [text |-> t, value |-> v, end |-> n, reply |-> <<>>]
  IN  {whole(wire, Len(wire)), whole(wire \o wire, Len(wire))}
      \cup {[NoRequest EXCEPT !.text = SubSeq(wire, 1, n)] : n \in 1..(Len(wire) - 1)}
      \cup (IF OnLine(v)
            THEN {whole(InlineText([i \in 1..v.count |-> v.array[i].str]), 0)} ELSE {})

Arrival == UNION {Arrivals(v) : v \in Request}
Reply == [text \in {a.text : a \in Arrival} |-> process_command(text)]

-----------------------------------------------------------------------------
\* accept.  One that fails is tried again at once.
AcceptNext ==
  /\ pc = "wait" /\ Accepted
  /\ fd' = NewFD /\ pc' = "read"
  /\ UNCHANGED <<program, ready, batch, data, request>>

\* read waits until there is something.
ReadOnce ==
  /\ pc = "read" /\ Received
  /\ request' \in Arrival
  /\ pc' = "process"
  /\ UNCHANGED <<program, kernel, batch, fd, data>>

Process ==
  /\ pc = "process"
  /\ request' = [request EXCEPT !.reply = Reply[request.text]]
  /\ pc' = "write"
  /\ UNCHANGED <<program, socket, kernel, batch, fd, data>>

Answered ==
  /\ pc = "write" /\ Written
  /\ request' = NoRequest
  /\ pc' = "close"
  /\ UNCHANGED <<program, kernel, batch, fd, data>>

CloseOnce ==
  /\ \/ pc = "close"
     \/ pc = "read" /\ EndOfFile
  /\ Closed
  /\ pc' = "wait" /\ fd' = NULL
  /\ UNCHANGED <<program, batch, data, request>>

BlockingMain ==
  /\ program = "blocking"
  /\ AcceptNext \/ ReadOnce \/ Process \/ Answered \/ CloseOnce

-----------------------------------------------------------------------------
(* Properties *)

\* A whole request is understood as the value its client meant, whichever way it was
\* written and whatever follows it, and the cursor of an array or string ends up
\* behind it: the lengths and ends of line of nested values add up.  The reply reads
\* back as the answer to that value, with nothing left over.
RequestUnderstood ==
  request.value # None =>
    LET read == parse_resp(request.text, 0)
    IN  /\ read.val = request.value
        /\ request.end > 0 => read.pos = request.end
        /\ pc = "write" =>
             parse_resp(request.reply, 0) =
               [val |-> Answer(request.value), pos |-> Len(request.reply)]
=============================================================================
