------------------------------ MODULE MCHttpApi ------------------------------
(***************************************************************************)
(* Small instances of HttpApiEx: what servers answer.                      *)
(***************************************************************************)
EXTENDS HttpApiEx

Line(t, n) == <<<<t, n>>, <<"CR", 0>>, <<"LF", 0>>>>
EndOfHeaders == <<<<"CR", 0>>, <<"LF", 0>>>>
Bytes(from, to) == [i \in 1 .. to - from + 1 |-> <<"byte", from + i - 1>>]

\* a body of a known length, of chunks, and none
Plain == Line("status", 200) \o Line("length", 2) \o EndOfHeaders \o Bytes(1, 2)
Chunks ==
    Line("status", 201) \o Line("chunked", 0) \o EndOfHeaders
    \o Line("hex", 1) \o Bytes(1, 1) \o EndOfHeaders
    \o Line("hex", 1) \o Bytes(2, 2) \o EndOfHeaders
    \o Line("hex", 0) \o EndOfHeaders
Empty == Line("status", 204) \o Line("text", 1) \o Line("text", 2) \o EndOfHeaders

\* not HTTP, a line that does not fit the buffer, lengths that cannot be, and
\* chunks without an end
NotHttp == Line("text", 2)
LongLine == <<<<"status", 200>>, <<"text", 3>>, <<"text", 4>>>>
BadLength == Line("status", 200) \o Line("badlength", 0)
Negative == Line("status", 200) \o Line("length", -1) \o EndOfHeaders
NoLastEnd == Line("status", 201) \o Line("chunked", 0) \o EndOfHeaders \o Line("hex", 0) \o Bytes(1, 2)

AllReplies == {Plain, Chunks, Empty, NotHttp, LongLine, BadLength, Negative, NoLastEnd}
GoodReplies == {Plain}

=============================================================================
