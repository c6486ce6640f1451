------------------------------ MODULE MCServers ------------------------------
(***************************************************************************)
(* A small instance of the single-threaded servers for TLC, and what the   *)
(* clients of the blocking server send: commands of one and two words, the *)
(* names of commands in every place and words that are empty, hold an end  *)
(* of line or look like an array; SET with its arguments; values of every  *)
(* type, and arrays of them.                                               *)
(***************************************************************************)
EXTENDS Servers

Chars ==
  Digit \cup Mark \cup Blank
    \cup {"PING", "GET", "SET", "PONG", "OK", "ERR", "k", "v", "a", "l", "u", "e"}

Word == {<<"PING">>, <<"GET">>, <<"SET">>, <<>>, CRLF, <<"*", "2">>}
Simple == {Line("+", <<"OK", " ", "k">>), Line("-", <<>>), Integer(-27), Null, Bulk(<<"$">>)}
Nested == {Array(0, <<>>), Array(-1, <<>>), Array(2, <<Null, Command(<<CRLF>>)>>)}

Requests ==
  {Command(s) : s \in UNION {[1..n -> Word] : n \in 1..2}}
    \cup {Command(<<<<"SET">>, w, <<"k">>>>) : w \in Word}
    \cup Simple \cup Nested
    \cup {Array(2, s) : s \in Simple \X Nested} \cup {Array(5, SetToSeq(Simple))}
=============================================================================
