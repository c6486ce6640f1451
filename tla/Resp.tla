-------------------------------- MODULE Resp --------------------------------
(***************************************************************************)
(* The parser and the serializer of ch4-resp.c.  A text is a sequence of   *)
(* characters, a cursor counts those in front of it, and behind the text   *)
(* there are zeros, as in the buffer of main.  A name such as PING is one  *)
(* character and stands for all its spellings.                             *)
(*                                                                         *)
(* A length below -1, with which malloc and strncpy do what they like, or  *)
(* a number that no int can hold, is no input of the model.                *)
(***************************************************************************)
EXTENDS Integers, Sequences, FiniteSetsExt, SequencesExt

CONSTANTS
  Char,  \* the characters
  Depth  \* how deep the arrays of a request may nest

Zero == "zero" \* ends a text
CRLF == <<"CR", "LF">>
Figure == <<"0", "1", "2", "3", "4", "5", "6", "7", "8", "9">>
Digit == Range(Figure)
Mark == {"+", "-", ":", "$", "*"}
Blank == {" ", "CR", "LF"}
Number == {n \in Int : -2147483647 - 1 <= n /\ n <= 2147483647} \* int

\* Those that the program writes are among the characters.
ASSUME CharAssumption ==
  /\ Digit \cup Mark \cup Blank \subseteq Char
  /\ {"PONG", "OK", "ERR", "v", "a", "l", "u", "e"} \subseteq Char
  /\ Zero \notin Char
ASSUME DepthAssumption == Depth \in Nat

Worth(digit) == CHOOSE n \in 0..9 : Figure[n + 1] = digit

(* The values: RespValue.  None is a null pointer. *)
None == [type |-> "none"]
Line(type, s) == [type |-> type, str |-> s]        \* "+" and "-"
Integer(n) == [type |-> ":", n |-> n]
Bulk(s) == [type |-> "$", len |-> Len(s), str |-> s]
Null == [type |-> "null"]
Array(count, s) == [type |-> "*", count |-> count, array |-> s]
Command(s) == Array(Len(s), [i \in DOMAIN s |-> Bulk(s[i])])

-----------------------------------------------------------------------------
(* Reading characters *)

At(text, pos) == IF pos < Len(text) THEN text[pos + 1] ELSE Zero

\* The characters from one position to the one in front of another.
Slice(text, from, to) == SubSeq(text, from + 1, Min({to, Len(text)}))

\* The first position from pos on with a character in, or not in, a set.
Find(text, pos, set) ==
  Min({q \in pos..Max({pos, Len(text)}) : At(text, q) \in set \cup {Zero}})
Skip(text, pos, set) ==
  Min({q \in pos..Max({pos, Len(text)}) : At(text, q) \notin set})

\* strtol: white space, a sign and digits; without digits it stays where it was.
strtol(text, pos) ==
  LET start == Skip(text, pos, Blank)
      from == IF At(text, start) \in {"+", "-"} THEN start + 1 ELSE start
      to == Skip(text, from, Digit)
      abs[i \in from..to] == IF i = from THEN 0 ELSE 10 * abs[i - 1] + Worth(At(text, i - 1))
  IN  IF from = to THEN [n |-> 0, end |-> pos]
      ELSE [n |-> IF At(text, start) = "-" THEN -abs[to] ELSE abs[to], end |-> to]

-----------------------------------------------------------------------------
(* The parser: the value, or None, and where it leaves the cursor *)

\* The words of a line are bulk strings.  What is skipped after them is skipped at
\* the first of them, where there is nothing to skip: the cursor stays there.
parse_inline(text, pos) ==
  LET start == Skip(text, pos, {" "})
      end == Find(text, start, {"CR", "LF"})
      argc == Cardinality({q \in start..(end - 1) :
                             At(text, q) # " " /\ (q = start \/ At(text, q - 1) = " ")})
      past(q) == Find(text, q, Blank)
      from[i \in 1..argc] == IF i = 1 THEN start ELSE Skip(text, past(from[i - 1]), {" "})
  IN  IF argc = 0 THEN [val |-> None, pos |-> start]
      ELSE [val |-> Command([i \in 1..argc |-> Slice(text, from[i], past(from[i]))]),
            pos |-> Skip(text, start, Blank)]

\* + and -: up to the next CR, which must be there.
parse_line(text, pos) ==
  LET end == Find(text, pos + 1, {"CR"})
  IN  IF At(text, end) = Zero THEN [val |-> None, pos |-> pos + 1]
      ELSE [val |-> Line(At(text, pos), Slice(text, pos + 1, end)), pos |-> end + 2]

\* $: as many characters as announced, or those there are.
parse_bulk(text, pos) ==
  LET r == strtol(text, pos + 1)
      data == r.end + 2
  IN  IF r.n = -1 THEN [val |-> Null, pos |-> data]
      ELSE [val |-> [type |-> "$", len |-> r.n, str |-> Slice(text, data, data + r.n)],
            pos |-> data + r.n + 2]

\* *: the elements, one after the other with one cursor; element says what parse_resp
\* makes of a position.
parse_elements(element, pos, n) ==
  LET cursor[i \in 0..Max({0, n})] == IF i = 0 THEN pos ELSE element[cursor[i - 1]].pos
  IN  [val |-> Array(n, [i \in 1..n |-> element[cursor[i - 1]].val]),
       pos |-> cursor[Max({0, n})]]

\* A zero or the rest of a line.
Nothing(pos) == [val |-> None, pos |-> pos + 1]

parse_value(text, pos, element) ==
  LET c == At(text, pos)
      number == strtol(text, pos + 1)
  IN  CASE c \in {"CR", "LF"} -> Nothing(pos)
        [] c \in {"+", "-"} -> parse_line(text, pos)
        [] c = ":" -> [val |-> Integer(number.n), pos |-> number.end + 2]
        [] c = "$" -> parse_bulk(text, pos)
        [] c = "*" -> parse_elements(element, number.end + 2, number.n)
        [] OTHER -> parse_inline(text, pos)

\* The calls of parse_resp for the elements of an array are for positions behind it.
parse_resp(text, pos) ==
  LET inside == 0..(Len(text) - 1)
      parsed[p \in inside] ==
        parse_value(text, p, [q \in Nat |-> IF q > p /\ q \in inside THEN parsed[q] ELSE Nothing(q)])
  IN  IF pos \in inside THEN parsed[pos] ELSE Nothing(pos)

-----------------------------------------------------------------------------
(* The serializer *)

Decimal(n) ==
  LET abs == IF n < 0 THEN -n ELSE n
      figures[k \in 0..abs] ==
        IF k < 10 THEN <<Figure[k + 1]>> ELSE figures[k \div 10] \o <<Figure[(k % 10) + 1]>>
  IN  IF n < 0 THEN <<"-">> \o figures[abs] ELSE figures[abs]

\* Mistake: the length that is announced counts the end of line.
serialize_bulk_LengthOff(val) ==
  <<"$">> \o Decimal(val.len + 2) \o CRLF \o val.str \o CRLF

serialize_bulk(val) == <<"$">> \o Decimal(val.len) \o CRLF \o val.str \o CRLF

\* Of an array the header alone.
serialize_response(val) ==
  CASE val.type \in {"+", "-"} -> <<val.type>> \o val.str \o CRLF
    [] val.type = ":" -> <<":">> \o Decimal(val.n) \o CRLF
    [] val.type = "$" -> serialize_bulk(val)
    [] val.type = "null" -> <<"$", "-", "1">> \o CRLF
    [] val.type = "*" -> <<"*">> \o Decimal(val.count) \o CRLF

-----------------------------------------------------------------------------
(* process_command *)

\* The element i of a parsed array, None if there is none.
Element(val, i) == IF i <= val.count THEN val.array[i] ELSE None

Pong == Line("+", <<"PONG">>)
Okay == Line("+", <<"OK">>)
Stored == Bulk(<<"v", "a", "l", "u", "e">>) \* what GET answers of every key
Invalid == Line("-", <<"ERR">>)

\* The answer to a parsed request.  +OK answers SET, whether its arguments are there
\* or not, and whatever nobody knows.
Answer(val) ==
  LET isArray == val.type = "*" /\ val.count > 0
      name == IF isArray /\ Element(val, 1).type = "$" THEN val.array[1].str ELSE <<>>
  IN  CASE val = None -> Invalid
        [] name = <<"PING">> -> Pong
        [] name = <<"GET">> /\ Element(val, 2) # None -> Stored
        [] OTHER -> Okay

process_command(text) == serialize_response(Answer(parse_resp(text, 0).val))

-----------------------------------------------------------------------------
(* What the clients write: the RESP protocol *)

\* The values whose arrays are d deep at most.  No line of one holds its own end.
Scalar ==
  [type : {"+", "-"}, str : Seq(Char \ {"CR"})] \cup [type : {":"}, n : Number] \cup {Null}
    \cup {b \in [type : {"$"}, len : Number, str : Seq(Char)] : b.len = Len(b.str)}

ArrayOver(V) ==
  {a \in [type : {"*"}, count : Number, array : Seq(V)] :
     a.count = Len(a.array) \/ (a.count = -1 /\ a.array = <<>>)}

RespValue[d \in 0..Depth] ==
  IF d = 0 THEN Scalar ELSE Scalar \cup ArrayOver(RespValue[d - 1])

\* An array is its header and what is written of its elements.
WireOf[d \in 0..Depth] ==
  [v \in RespValue[d] |->
     IF v.type # "*" THEN serialize_response(v)
     ELSE serialize_response(v) \o FlattenSeq([i \in DOMAIN v.array |-> WireOf[d - 1][v.array[i]]])]

Wire(v) == WireOf[Depth][v]

\* The words of a command on a line.
InlineText(words) ==
  FlattenSeq([i \in DOMAIN words |-> IF i = 1 THEN words[i] ELSE <<" ">> \o words[i]]) \o CRLF
=============================================================================
