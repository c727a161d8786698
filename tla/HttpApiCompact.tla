--------------------------- MODULE HttpApiCompact ---------------------------
(***************************************************************************)
(* The blocking HTTP client over an xio, adapters/httpapi_compact.c: one   *)
(* connection, on which HTTPAPI_ExecuteRequest opens, sends, reads the     *)
(* response line by line and then its body, pumping the xio in loops that  *)
(* count their retries.  Its callbacks only set flags, so a call of        *)
(* xio_dowork is one step: what it may do to the flags and the buffer is   *)
(* what any IO layer that keeps IoContract may do.                         *)
(***************************************************************************)
EXTENDS Integers, Sequences

CONSTANTS
    MaxOpenRetry, MaxCloseRetry, MaxSendRetry, MaxReceiveRetry,   \* MAX_..._RETRY
    TempBufferSize,   \* TEMP_BUFFER_SIZE, in tokens
    SendPieces,       \* how many calls of conn_send_all a request takes
    Replies,          \* what the server may answer: sequences of <<kind, number>>
    Cuts              \* the kinds of tokens behind which the bytes may be cut

TokenKinds ==
    {"status", "length", "badlength", "chunked", "text", "hex", "byte", "CR", "LF"}

ASSUME RetryAssumption ==
    /\ MaxOpenRetry \in Nat /\ MaxCloseRetry \in Nat /\ MaxSendRetry \in Nat
    /\ MaxReceiveRetry \in Nat /\ TempBufferSize \in Nat /\ SendPieces \in Nat \ {0}
    /\ Cuts \subseteq TokenKinds

VARIABLES
    \* the xio and the server behind it
    conn,        \* "none" before xio_create, then the state of the layer
    sending,     \* it has a send that it has not completed
    pieces,      \* how much of a request the server has
    wire,        \* what the server has sent and nobody has read
    request,     \* the number of the request in progress
    served,      \* how often the server has received it in full
    \* HTTP_HANDLE_DATA
    is_connected, is_io_error, send_completed, received_bytes,
    \* the call in progress and its locals
    pc, retry, todo, line, bodyLength, chunked, size, http_result,
    \* what it fills in for its caller
    status, headers, content,
    lost         \* headers of the answer that could not be added to those

xioVars == <<conn, sending, pieces, wire, served>>
flagVars == <<is_connected, is_io_error, send_completed, received_bytes>>
localVars == <<retry, todo, line, bodyLength, chunked, size>>
answerVars == <<status, headers, content, lost>>
compactVars == <<xioVars, flagVars, localVars, answerVars, pc, http_result>>

Junk == [t |-> "junk", n |-> 0, r |-> 0]
Tagged(reply) == [i \in DOMAIN reply |-> [t |-> reply[i][1], n |-> reply[i][2], r |-> request]]

CompactInit ==
    /\ conn = "none" /\ sending = FALSE /\ pieces = 0 /\ wire = <<>> /\ served = 0
    /\ is_connected = FALSE /\ is_io_error = FALSE /\ send_completed = FALSE
    /\ received_bytes = <<>>
    /\ pc = "idle" /\ retry = 0 /\ todo = 0 /\ line = <<>> /\ bodyLength = 0
    /\ chunked = FALSE /\ size = 0 /\ http_result = "OK"
    /\ status = 0 /\ headers = <<>> /\ content = <<>> /\ lost = {}

-----------------------------------------------------------------------------
(* The xio.  An outcome is the state after a call, the callbacks included.  *)

Now == [conn |-> conn, sending |-> sending, pieces |-> pieces, wire |-> wire, served |-> served,
        connected |-> is_connected, err |-> is_io_error, completed |-> send_completed,
        received |-> received_bytes]

Become(o) ==
    /\ conn' = o.conn /\ sending' = o.sending /\ pieces' = o.pieces /\ wire' = o.wire
    /\ served' = o.served
    /\ is_connected' = o.connected /\ is_io_error' = o.err /\ send_completed' = o.completed
    /\ received_bytes' = o.received

on_io_open_complete(o) ==
    IF o.conn # "opening" THEN {}
    ELSE {[o EXCEPT !.conn = "open", !.connected = TRUE, !.err = FALSE],
          [o EXCEPT !.conn = "closed", !.err = TRUE]}

\* The server answers when it has all of a request.
Transmitted(o) ==
    IF o.pieces + 1 < SendPieces THEN {[o EXCEPT !.pieces = @ + 1]}
    ELSE {[o EXCEPT !.pieces = 0, !.served = @ + 1, !.wire = @ \o Tagged(reply)] : reply \in Replies}

on_send_complete(o) ==
    IF ~(o.conn = "open" /\ o.sending) THEN {}
    ELSE Transmitted([o EXCEPT !.sending = FALSE, !.completed = TRUE, !.err = FALSE])
         \cup {[o EXCEPT !.sending = FALSE, !.err = TRUE]}

\* on_bytes_received keeps the bytes, or loses them for want of memory
on_bytes_received(o) ==
    LET cuts == {n \in 1 .. Len(o.wire) : n = Len(o.wire) \/ o.wire[n].t \in Cuts}
        After(n) == [o EXCEPT !.wire = SubSeq(@, n + 1, Len(@))]
    IN  IF o.conn # "open" THEN {}
        ELSE {[After(n) EXCEPT !.received = @ \o SubSeq(o.wire, 1, n)] : n \in cuts}
             \cup (IF o.wire = <<>> THEN {} ELSE {[o EXCEPT !.wire = <<>>, !.err = TRUE]})

on_io_error(o) ==
    IF o.conn \notin {"open", "closing"} THEN {} ELSE {[o EXCEPT !.conn = "failed", !.err = TRUE, !.wire = <<>>]}

on_io_close_complete(o) ==
    IF o.conn # "closing" THEN {} ELSE {[o EXCEPT !.conn = "closed", !.connected = FALSE]}

\* Sends are worked off before the bytes are read.
xio_dowork ==
    on_io_open_complete(Now) \cup on_io_close_complete(Now)
    \cup UNION {{o} \cup on_bytes_received(o) \cup on_io_error(o) : o \in {Now} \cup on_send_complete(Now)}

-----------------------------------------------------------------------------
(* The ends of HTTPAPI_ExecuteRequest.                                      *)

\* the locals of a call that has returned
NoLocals ==
    /\ retry' = 0 /\ todo' = 0 /\ line' = <<>> /\ bodyLength' = 0 /\ chunked' = FALSE /\ size' = 0

Finish(o, result) ==
    /\ Become([o EXCEPT !.received = <<>>])     \* conn_receive_discard_buffer
    /\ pc' = "executed" /\ http_result' = result /\ NoLocals

Fail(o, result) == Finish(o, result) /\ UNCHANGED answerVars

\* the next line is awaited by the part of the program that is named to
ReadLineAt(o, to) ==
    /\ Become(o)
    /\ pc' = to /\ retry' = MaxReceiveRetry /\ line' = <<>>
    /\ UNCHANGED http_result

GoTo(o, to) == Become(o) /\ pc' = to /\ UNCHANGED http_result

-----------------------------------------------------------------------------
(* Opening and sending.                                                     *)

\* xio_open may answer at once.  It fails when the layer is not closed, and so may the
\* options that were kept for it.
OpenXIOConnection ==
    /\ pc = "execute"
    /\ LET clear == [Now EXCEPT !.err = FALSE]
           opened == [clear EXCEPT !.conn = "opening"]
       IN  \/ /\ is_connected
              /\ IF is_io_error THEN Fail(Now, "OPEN_REQUEST_FAILED")
                 ELSE /\ GoTo(Now, "send")
                      /\ todo' = SendPieces
                      /\ UNCHANGED <<retry, line, bodyLength, chunked, size, answerVars>>
           \/ ~is_connected /\ Fail(clear, "SET_OPTION_FAILED")
           \/ ~is_connected /\ Fail(clear, "OPEN_REQUEST_FAILED")
           \/ /\ ~is_connected /\ conn = "closed"
              /\ \E o \in {opened} \cup on_io_open_complete(opened) : GoTo(o, "opening")
              /\ retry' = MaxOpenRetry
              /\ UNCHANGED <<todo, line, bodyLength, chunked, size, answerVars>>

Waiting == ~is_connected /\ ~is_io_error

opening_loop ==
    /\ pc = "opening" /\ Waiting
    /\ \E o \in xio_dowork :
         IF retry < 0 THEN Fail(o, "OPEN_REQUEST_FAILED")
         ELSE /\ GoTo(o, "opening")
              /\ retry' = retry - 1
              /\ UNCHANGED <<todo, line, bodyLength, chunked, size, answerVars>>

opening_done ==
    /\ pc = "opening" /\ ~Waiting
    /\ \/ is_io_error /\ Fail(Now, "OPEN_REQUEST_FAILED")
       \/ /\ ~is_io_error
          /\ GoTo(Now, "send")
          /\ todo' = SendPieces
          /\ UNCHANGED <<retry, line, bodyLength, chunked, size, answerVars>>

\* SendHeadsToXIO and SendContentToXIO: a request line, headers, an empty line and the
\* content, each with a conn_send_all of its own; any text may not fit its buffer.
conn_send_all ==
    /\ pc = "send" /\ todo > 0
    /\ LET clear == [Now EXCEPT !.err = FALSE, !.completed = FALSE]
           taken == [clear EXCEPT !.sending = TRUE]
       IN  \/ Fail(Now, "STRING_PROCESSING_ERROR")
           \/ Fail(clear, "SEND_REQUEST_FAILED")
           \/ /\ conn = "open" /\ ~sending
              /\ \E o \in {taken} \cup on_send_complete(taken) : GoTo(o, "sending")
              /\ retry' = MaxSendRetry
              /\ UNCHANGED <<todo, line, bodyLength, chunked, size, answerVars>>

conn_send_all_loop ==
    /\ pc = "sending" /\ ~send_completed
    /\ \E o \in xio_dowork :
         IF o.err \/ retry <= 0 THEN Fail(o, "SEND_REQUEST_FAILED")
         ELSE /\ GoTo(o, "sending")
              /\ retry' = retry - 1
              /\ UNCHANGED <<todo, line, bodyLength, chunked, size, answerVars>>

conn_sent ==
    /\ pc = "sending" /\ send_completed
    /\ GoTo(Now, "send")
    /\ todo' = todo - 1
    /\ UNCHANGED <<retry, line, bodyLength, chunked, size, answerVars>>

ReceiveHeaderFromXIO ==
    /\ pc = "send" /\ todo = 0
    /\ ReadLineAt([Now EXCEPT !.err = FALSE], "status")
    /\ bodyLength' = 0 /\ chunked' = FALSE /\ lost' = {}
    /\ UNCHANGED <<todo, size, status, headers, content>>

-----------------------------------------------------------------------------
(* Lines.                                                                   *)

LineStates == {"status", "headers", "chunk_size"}

\* What readLine finds after a call of xio_dowork: the text so far, the place of the
\* first CR, and what is left behind the line.  A LF is taken with its CR only if it is
\* there already.
EndOfLine(o) == {i \in DOMAIN o.received : o.received[i].t = "CR"}
FirstCR(o) == CHOOSE i \in EndOfLine(o) : \A j \in EndOfLine(o) : i <= j
LineSoFar(o) ==
    line \o (IF EndOfLine(o) = {} THEN o.received ELSE SubSeq(o.received, 1, FirstCR(o) - 1))

BehindLine(o) ==
    LET at == FirstCR(o) + 1
        lf == at \in DOMAIN o.received /\ o.received[at].t = "LF"
    IN  SubSeq(o.received, IF lf THEN at + 1 ELSE at, Len(o.received))

TooLong(o) == Len(LineSoFar(o)) >= TempBufferSize - 1

\* the line is not complete yet
readLine_more ==
    /\ pc \in LineStates
    /\ \E o \in xio_dowork :
         /\ ~o.err /\ ~TooLong(o) /\ EndOfLine(o) = {} /\ retry > 0
         /\ GoTo([o EXCEPT !.received = <<>>], pc)
         /\ line' = LineSoFar(o)
         /\ retry' = retry - 1
    /\ UNCHANGED <<todo, bodyLength, chunked, size, answerVars>>

readLine_failed ==
    /\ pc \in LineStates
    /\ \E o \in xio_dowork :
         /\ o.err \/ TooLong(o) \/ (EndOfLine(o) = {} /\ retry <= 0)
         /\ Fail(o, "READ_DATA_FAILED")

\* a whole line is there: its text, and the state without it
LineOutcomes ==
    {[o |-> [b EXCEPT !.received = BehindLine(b)], text |-> LineSoFar(b)] :
        b \in {b \in xio_dowork : ~b.err /\ EndOfLine(b) # {} /\ ~TooLong(b)}}

StartsWith(text, t) == text # <<>> /\ text[1].t = t

\* ParseHttpResponse of the first line
status_line ==
    /\ pc = "status"
    /\ \E l \in LineOutcomes :
         IF StartsWith(l.text, "status")
         THEN /\ status' = l.text[1].n
              /\ ReadLineAt([l.o EXCEPT !.err = FALSE], "headers")
              /\ UNCHANGED <<todo, bodyLength, chunked, size, headers, content, lost>>
         ELSE Fail(l.o, "RECEIVE_RESPONSE_FAILED")

HeaderKinds == {"length", "chunked", "text"}

\* It fails without memory, and refuses a name that it does not allow; nobody looks at its
\* result.
HTTPHeaders_AddHeaderNameValuePair(header) ==
    \/ headers' = Append(headers, header) /\ UNCHANGED lost
    \/ lost' = lost \cup {header} /\ UNCHANGED headers

\* ReceiveContentInfoFromXIO: an unreadable length ends it, other headers are kept.

header_line ==
    /\ pc = "headers"
    /\ \E l \in LineOutcomes :
         /\ l.text # <<>>
         /\ IF StartsWith(l.text, "badlength") THEN Fail(l.o, "READ_DATA_FAILED")
            ELSE /\ bodyLength' = IF StartsWith(l.text, "length") THEN l.text[1].n ELSE bodyLength
                 /\ chunked' = (chunked \/ StartsWith(l.text, "chunked"))
                 /\ IF l.text[1].t \in HeaderKinds THEN HTTPHeaders_AddHeaderNameValuePair(l.text[1])
                    ELSE UNCHANGED <<headers, lost>>
                 /\ ReadLineAt(l.o, "headers")
                 /\ UNCHANGED <<todo, size, status, content>>

-----------------------------------------------------------------------------
(* ReadHTTPResponseBodyFromXIO.                                             *)

\* BUFFER_pre_build refuses a buffer that holds something, and a negative length is
\* more than there is memory.
body_begin ==
    /\ pc = "headers"
    /\ \E l \in LineOutcomes :
         /\ l.text = <<>>
         /\ LET o == [l.o EXCEPT !.err = FALSE] IN
            \/ /\ chunked
               /\ ReadLineAt(o, "chunk_size")
               /\ size' = 0
               /\ UNCHANGED <<todo, bodyLength, chunked, answerVars>>
            \/ ~chunked /\ bodyLength = 0 /\ Fail(o, "OK")
            \/ ~chunked /\ bodyLength # 0 /\ Fail(o, "ALLOC_FAILED")
            \/ /\ ~chunked /\ bodyLength > 0 /\ content = <<>>
               /\ GoTo(o, "body")
               /\ content' = [i \in 1 .. bodyLength |-> Junk]
               /\ UNCHANGED <<localVars, status, headers, lost>>

\* the places at .. at + Len(bytes) - 1 of the buffer are written
Written(buffer, at, bytes) ==
    [i \in DOMAIN buffer |-> IF i \in at .. at + Len(bytes) - 1 THEN bytes[i - at + 1] ELSE buffer[i]]

\* conn_receive(n): the outcomes with which it ends well, with its bytes; it gives up
\* only on an error, and otherwise tries again without end
Received(n) ==
    {[o |-> [b EXCEPT !.received = SubSeq(@, n + 1, Len(@))], bytes |-> SubSeq(b.received, 1, n)] :
        b \in {b \in xio_dowork : ~b.err /\ Len(b.received) >= n}}

Expected ==
    IF pc \in {"body", "chunk"} THEN bodyLength ELSE 2

ReceiveStates == {"body", "chunk", "chunk_end", "last"}

\* a pass through the loop of conn_receive has nothing to do but to ask the xio again
Waits == pc \in ReceiveStates /\ ~is_io_error /\ Len(received_bytes) < Expected

conn_receive_more ==
    /\ pc \in ReceiveStates
    /\ \E o \in xio_dowork : ~o.err /\ Len(o.received) < Expected /\ GoTo(o, pc)
    /\ UNCHANGED <<localVars, answerVars>>

\* an error behind the last chunk also gives up what was read
conn_receive_failed ==
    /\ pc \in ReceiveStates
    /\ \E o \in xio_dowork : o.err /\ Finish(o, "READ_DATA_FAILED")
    /\ content' = IF pc = "last" THEN <<>> ELSE content
    /\ UNCHANGED <<status, headers, lost>>

body_read ==
    /\ pc = "body"
    /\ \E x \in Received(bodyLength) : Finish(x.o, "OK") /\ content' = x.bytes
    /\ UNCHANGED <<status, headers, lost>>

\* The length of a chunk, and room for it at the end of the buffer.
chunk_size ==
    /\ pc = "chunk_size"
    /\ \E l \in LineOutcomes :
         \/ ~StartsWith(l.text, "hex") /\ Fail(l.o, "RECEIVE_RESPONSE_FAILED")
         \/ /\ StartsWith(l.text, "hex") /\ l.text[1].n = 0
            /\ GoTo(l.o, "last")
            /\ UNCHANGED <<localVars, answerVars>>
         \/ /\ StartsWith(l.text, "hex") /\ l.text[1].n > 0
            /\ Finish(l.o, "ALLOC_FAILED") /\ content' = <<>>
            /\ UNCHANGED <<status, headers, lost>>
         \/ /\ StartsWith(l.text, "hex") /\ l.text[1].n > 0
            /\ GoTo(l.o, "chunk")
            /\ bodyLength' = l.text[1].n
            /\ content' = content \o [i \in 1 .. l.text[1].n |-> Junk]
            /\ UNCHANGED <<retry, todo, line, chunked, size, status, headers, lost>>

\* slip: every chunk is written to the start of the buffer
chunk_read_at_start ==
    /\ pc = "chunk"
    /\ \E x \in Received(bodyLength) :
         GoTo(x.o, "chunk_end") /\ content' = Written(content, 1, x.bytes)
    /\ UNCHANGED <<localVars, status, headers, lost>>

chunk_read ==
    /\ pc = "chunk"
    /\ \E x \in Received(bodyLength) :
         GoTo(x.o, "chunk_end") /\ content' = Written(content, size + 1, x.bytes)
    /\ UNCHANGED <<localVars, status, headers, lost>>

IsCRLF(bytes) == bytes[1].t = "CR" /\ bytes[2].t = "LF"

chunk_end ==
    /\ pc = "chunk_end"
    /\ \E x \in Received(2) :
         IF IsCRLF(x.bytes)
         THEN ReadLineAt(x.o, "chunk_size") /\ size' = size + bodyLength
              /\ UNCHANGED <<todo, bodyLength, chunked, answerVars>>
         ELSE Fail(x.o, "READ_DATA_FAILED")

last_chunk ==
    /\ pc = "last"
    /\ \E x \in Received(2) :
         /\ Finish(x.o, IF IsCRLF(x.bytes) THEN "OK" ELSE "READ_DATA_FAILED")
         /\ content' = IF IsCRLF(x.bytes) THEN content ELSE <<>>
    /\ UNCHANGED <<status, headers, lost>>

-----------------------------------------------------------------------------
(* HTTPAPI_CreateConnection and HTTPAPI_CloseConnection.                    *)

CreateConnection ==
    /\ Become([Now EXCEPT !.conn = "closed", !.sending = FALSE, !.pieces = 0, !.wire = <<>>,
                          !.connected = FALSE, !.err = FALSE, !.received = <<>>])
    /\ UNCHANGED <<localVars, answerVars, pc, http_result>>

\* A layer that is closed already refuses.  One that is opening reports that as an error.
CloseConnection ==
    /\ pc = "close"
    /\ LET clear == [Now EXCEPT !.err = FALSE]
           closing == [clear EXCEPT !.conn = "closing", !.wire = <<>>]
       IN  \/ /\ conn \notin {"open", "failed", "opening"}
              /\ GoTo([clear EXCEPT !.connected = FALSE], "closing")
           \/ conn = "opening" /\ GoTo([clear EXCEPT !.conn = "closed", !.err = TRUE], "closing")
           \/ /\ conn \in {"open", "failed"}
              /\ \E o \in {closing} \cup on_io_close_complete(closing) : GoTo(o, "closing")
    /\ retry' = MaxCloseRetry
    /\ UNCHANGED <<todo, line, bodyLength, chunked, size, answerVars>>

closing_loop ==
    /\ pc = "closing" /\ is_connected
    /\ \E o \in xio_dowork :
         GoTo([o EXCEPT !.connected = @ /\ retry >= 0 /\ ~o.err], "closing")
    /\ retry' = retry - 1
    /\ UNCHANGED <<todo, line, bodyLength, chunked, size, answerVars>>

\* xio_destroy and free
closing_done ==
    /\ pc = "closing" /\ ~is_connected
    /\ GoTo([Now EXCEPT !.conn = "none", !.sending = FALSE, !.pieces = 0, !.wire = <<>>,
                       !.err = FALSE, !.completed = FALSE, !.received = <<>>], "closed")
    /\ NoLocals
    /\ UNCHANGED answerVars

-----------------------------------------------------------------------------
CompactNext ==
    \/ OpenXIOConnection \/ opening_loop \/ opening_done
    \/ conn_send_all \/ conn_send_all_loop \/ conn_sent
    \/ ReceiveHeaderFromXIO \/ readLine_more \/ readLine_failed
    \/ status_line \/ header_line \/ body_begin
    \/ conn_receive_more \/ conn_receive_failed \/ body_read
    \/ chunk_size \/ chunk_read \/ chunk_end \/ last_chunk
    \/ CloseConnection \/ closing_loop \/ closing_done

=============================================================================
