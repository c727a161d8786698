----------------------------- MODULE UwsClient -----------------------------
(***************************************************************************)
(* The WebSocket client, src/uws_client.c: opening handshake, frame        *)
(* decoding and fragment assembly, the pending sends, and the closing      *)
(* paths.  Each function is an action on the call stack of module Xio; a   *)
(* function that makes a call and goes on afterwards leaves the rest of    *)
(* itself as a frame beneath the call, named here after the call it awaits.*)
(* Callbacks of the user are frames of the layer above.                    *)
(***************************************************************************)
EXTENDS Xio

VARIABLES
    uws_state,
    stream_buffer,          \* received, not yet consumed
    fragment_buffer,        \* the fragments of the message being assembled
    fragmented_frame_type,
    pending_sends,          \* the list of WS_PENDING_SEND, by context
    on_ws_close_complete,   \* 0 for NULL, else the session it was passed in
    session,                \* ghost: how many opens were accepted so far
    faults                  \* what undefined behaviour has been met, if any

uwsVars == <<uws_state, stream_buffer, fragment_buffer, fragmented_frame_type,
             pending_sends, on_ws_close_complete, session, faults>>

UwsStates == {"CLOSED", "OPENING_UNDERLYING_IO", "WAITING_FOR_UPGRADE_RESPONSE", "OPEN",
              "CLOSING_WAITING_FOR_CLOSE", "CLOSING_SENDING_CLOSE",
              "CLOSING_UNDERLYING_IO", "ERROR"}
Closing == {"CLOSING_WAITING_FOR_CLOSE", "CLOSING_SENDING_CLOSE", "CLOSING_UNDERLYING_IO"}
Opening == {"OPENING_UNDERLYING_IO", "WAITING_FOR_UPGRADE_RESPONSE"}
\* slip: the loop goes on after an error
Decoding_after_error == {"OPEN", "CLOSING_WAITING_FOR_CLOSE", "ERROR"}

Decoding == {"OPEN", "CLOSING_WAITING_FOR_CLOSE"}
FrameTypes == {"UNKNOWN", "TEXT", "BINARY"}

UwsFunctions ==
    {"uws_client_open_async", "uws_client_close_async", "uws_client_close_handshake_async",
     "uws_client_send_frame_async", "uws_client_dowork", "uws_client_destroy",
     "on_underlying_io_send_complete", "on_underlying_io_close_sent",
     "open_complete_error", "indicate_ws_error", "indicate_ws_error_and_close",
     "indicate_ws_close_complete", "clear_pending_sends", "call_on_ws_close_complete",
     "set_closed", "xio_open_returned", "upgrade_request_sent", "decode_stream", "decode_frame",
     "frame", "consume_stream_buffer_bytes", "message_done", "answer_sent", "close_or_error",
     "close_or_complete", "close_sent_closed", "close_async_closed", "frame_sent", "undefined"}
UwsCallbacks ==
    {"on_ws_open_complete", "on_ws_frame_received", "on_ws_send_frame_complete", "on_ws_error",
     "on_ws_peer_closed", "on_ws_close_complete"}

UwsTypeOK ==
    /\ uws_state \in UwsStates
    /\ stream_buffer \in Seq(Unit)
    /\ fragment_buffer \in Seq(Unit)
    /\ fragmented_frame_type \in FrameTypes
    /\ pending_sends \in Seq(Nat)
    /\ on_ws_close_complete \in Nat
    /\ session \in Nat
    /\ faults \subseteq {"stream buffer count wrapped", "freed list item used"}

\* uws_client_create: a zeroed instance in state CLOSED
UwsInit ==
    /\ uws_state = "CLOSED"
    /\ stream_buffer = <<>>
    /\ fragment_buffer = <<>>
    /\ fragmented_frame_type = "UNKNOWN"
    /\ pending_sends = <<>>
    /\ on_ws_close_complete = 0
    /\ session = 0
    /\ faults = {}

-----------------------------------------------------------------------------
(* How the bytes that the peer sent are read.                               *)

\* slip: the opcode is stored where the frame type belongs
DataType_opcode(op) == op

DataType(op) == IF op = "text" THEN "TEXT" ELSE "BINARY"

\* The header that the start of the buffer is taken for: in the middle of a payload
\* anything can be read.
HeadersAt(u) == IF u.k = 1 THEN {u} ELSE {h \in Unit : h.k = 1 /\ h.op # "handshake"}

\* A response begins with "HT", which reads as a close frame without the FIN bit
\* and with 84 bytes of payload.
opcode(h) == IF h.op \in Responses THEN "close" ELSE h.op
is_final(h) == h.op \notin Responses /\ h.fin

\* The mask bit stays in the length of a masked frame, which is so taken to be 128
\* bytes, here one unit, longer than it is.
needed_bytes(h) ==
    IF h.op \in Responses THEN 1
    ELSE h.size + (IF h.flaw = "masked" THEN 1 ELSE 0)

-----------------------------------------------------------------------------
(* Frames of this layer, and the callbacks of the user.                     *)

Uws(f) == MkFrame("uws", f, "", 0, <<>>)
User(f, a, n, d) == MkFrame("user", f, a, n, d)

consume(n, next) == MkFrame("uws", "consume_stream_buffer_bytes", next, n, <<>>)

open_complete_error_and_close == <<xio_close("uws", "NULL"), Uws("open_complete_error")>>

Shut == Goto(open_complete_error_and_close)

State(s) == uws_state' = s

Buffers == <<stream_buffer, fragment_buffer, fragmented_frame_type>>
Others == <<pending_sends, on_ws_close_complete, session, faults>>

-----------------------------------------------------------------------------
(* Reporting to the user.                                                   *)

\* slip: the state is reset and nobody is told
indicate_ws_open_complete_error_silent ==
    /\ Running("uws", "open_complete_error")
    /\ State("CLOSED")
    /\ Pop
    /\ UNCHANGED <<Buffers, Others>>

indicate_ws_open_complete_error ==
    /\ Running("uws", "open_complete_error")
    /\ State("CLOSED")
    /\ Goto(<<User("on_ws_open_complete", "ERROR", 0, <<>>)>>)
    /\ UNCHANGED <<Buffers, Others>>

indicate_ws_error ==
    /\ Running("uws", "indicate_ws_error")
    /\ State("ERROR")
    /\ Goto(<<User("on_ws_error", "", 0, <<>>)>>)
    /\ UNCHANGED <<Buffers, Others>>

\* The close frame may fail to be encoded or sent; the error is reported anyway.
indicate_ws_error_and_close ==
    /\ Running("uws", "indicate_ws_error_and_close")
    /\ State("ERROR")
    /\ \E close \in {<<>>, <<xio_send("uws", "unchecked_on_send_complete", 0)>>} :
         Goto(close \o <<User("on_ws_error", "", 0, <<>>)>>)
    /\ UNCHANGED <<Buffers, Others>>

\* slip: the pending sends are left in the list
indicate_ws_close_complete_no_clear ==
    /\ Running("uws", "indicate_ws_close_complete")
    /\ State("CLOSED")
    /\ Goto(<<Uws("call_on_ws_close_complete")>>)
    /\ UNCHANGED <<Buffers, Others>>

indicate_ws_close_complete ==
    /\ Running("uws", "indicate_ws_close_complete")
    /\ State("CLOSED")
    /\ Goto(<<Uws("clear_pending_sends"), Uws("call_on_ws_close_complete")>>)
    /\ UNCHANGED <<Buffers, Others>>

\* complete_send_frame: each one leaves the list before its callback is called
clear_pending_sends ==
    /\ Running("uws", "clear_pending_sends")
    /\ IF pending_sends = <<>>
         THEN Pop /\ UNCHANGED pending_sends
         ELSE /\ pending_sends' = Tail(pending_sends)
              /\ Goto(<<User("on_ws_send_frame_complete", "CANCELLED", Head(pending_sends), <<>>),
                        Uws("clear_pending_sends")>>)
    /\ UNCHANGED <<uws_state, Buffers, on_ws_close_complete, session, faults>>

\* slip: the callback is called only if it is NULL
call_on_ws_close_complete_never ==
    /\ Running("uws", "call_on_ws_close_complete")
    /\ Pop
    /\ UNCHANGED uwsVars

call_on_ws_close_complete ==
    /\ Running("uws", "call_on_ws_close_complete")
    /\ Goto(IF on_ws_close_complete = 0 THEN <<>>
            ELSE <<User("on_ws_close_complete", "", on_ws_close_complete, <<>>)>>)
    /\ UNCHANGED uwsVars

\* the assignment that follows a call to one of the functions above
set_closed ==
    /\ Running("uws", "set_closed")
    /\ State("CLOSED")
    /\ Pop
    /\ UNCHANGED <<Buffers, Others>>

-----------------------------------------------------------------------------
(* Opening.                                                                 *)

\* slip: fragment_buffer_count is not reset
uws_client_open_async_no_reset ==
    /\ Running("uws", "uws_client_open_async")
    /\ IF uws_state # "CLOSED"
         THEN Return(1) /\ UNCHANGED uwsVars
         ELSE /\ State("OPENING_UNDERLYING_IO")
              /\ stream_buffer' = <<>>
              /\ fragmented_frame_type' = "UNKNOWN"
              /\ session' = session + 1
              /\ Goto(<<xio_open("uws"), Uws("xio_open_returned")>>)
              /\ UNCHANGED <<fragment_buffer, pending_sends, on_ws_close_complete, faults>>

uws_client_open_async ==
    /\ Running("uws", "uws_client_open_async")
    /\ IF uws_state # "CLOSED"
         THEN Return(1) /\ UNCHANGED uwsVars
         ELSE /\ State("OPENING_UNDERLYING_IO")
              /\ stream_buffer' = <<>>
              /\ fragment_buffer' = <<>>
              /\ fragmented_frame_type' = "UNKNOWN"
              /\ session' = session + 1
              /\ Goto(<<xio_open("uws"), Uws("xio_open_returned")>>)
              /\ UNCHANGED <<pending_sends, on_ws_close_complete, faults>>

xio_open_returned ==
    /\ Running("uws", "xio_open_returned")
    /\ State(IF Top.ret # 0 THEN "CLOSED" ELSE uws_state)
    /\ Return(Top.ret)
    /\ UNCHANGED <<Buffers, Others>>

\* The request is built from the host, the resource, a random nonce, the headers
\* and the protocols; any of it may fail for want of memory.
on_underlying_io_open_complete ==
    /\ Running("uws", "on_io_open_complete")
    /\ \/ uws_state # "OPENING_UNDERLYING_IO" /\ Shut
       \/ /\ uws_state = "OPENING_UNDERLYING_IO"
          /\ \/ Top.arg = "ERROR" /\ Goto(<<Uws("open_complete_error")>>)
             \/ Top.arg = "CANCELLED" /\ Shut
             \/ /\ Top.arg = "OK"
                /\ \/ Goto(<<xio_send("uws", "unchecked_on_send_complete", 0), Uws("upgrade_request_sent")>>)
                   \/ Shut
    /\ UNCHANGED uwsVars

upgrade_request_sent ==
    /\ Running("uws", "upgrade_request_sent")
    /\ IF Top.ret # 0
         THEN Shut /\ UNCHANGED uws_state
         ELSE Pop /\ State("WAITING_FOR_UPGRADE_RESPONSE")
    /\ UNCHANGED <<Buffers, Others>>

-----------------------------------------------------------------------------
(* Receiving.                                                               *)

on_underlying_io_bytes_received ==
    /\ Running("uws", "on_bytes_received")
    /\ \/ /\ uws_state \in Decoding \cup {"WAITING_FOR_UPGRADE_RESPONSE"}
          /\ stream_buffer' = stream_buffer \o Top.data
          /\ Goto(<<Uws("decode_stream")>>)
       \/ /\ uws_state \in Opening       \* too early, or no memory
          /\ Shut
          /\ UNCHANGED stream_buffer
       \/ /\ uws_state \in Decoding      \* no memory
          /\ Goto(<<Uws("indicate_ws_error")>>)
          /\ UNCHANGED stream_buffer
       \/ /\ uws_state \notin Decoding \cup Opening
          /\ Pop
          /\ UNCHANGED stream_buffer
    /\ UNCHANGED <<uws_state, fragment_buffer, fragmented_frame_type, Others>>

\* One round of the loop in on_underlying_io_bytes_received, by the state it finds.
decode_nothing ==
    /\ Running("uws", "decode_stream")
    /\ uws_state \notin Decoding \cup Opening
    /\ Pop
    /\ UNCHANGED uwsVars

decode_while_opening ==
    /\ Running("uws", "decode_stream")
    /\ uws_state = "OPENING_UNDERLYING_IO"
    /\ Shut
    /\ UNCHANGED uwsVars

ResponseComplete ==
    /\ stream_buffer # <<>>
    /\ Head(stream_buffer).op \in Responses
    /\ Len(stream_buffer) >= Head(stream_buffer).size

decode_upgrade_response ==
    /\ Running("uws", "decode_stream")
    /\ uws_state = "WAITING_FOR_UPGRADE_RESPONSE"
    /\ \/ /\ ~ResponseComplete
          /\ Pop
          /\ UNCHANGED <<uws_state, stream_buffer>>
       \/ /\ ResponseComplete
          /\ Head(stream_buffer).op # "101"
          /\ Shut
          /\ UNCHANGED <<uws_state, stream_buffer>>
       \/ /\ ResponseComplete
          /\ Head(stream_buffer).op = "101"
          /\ stream_buffer' = SubSeq(stream_buffer, Head(stream_buffer).size + 1, Len(stream_buffer))
          /\ State("OPEN")
          /\ Goto(<<User("on_ws_open_complete", "OK", 0, <<>>), Uws("decode_stream")>>)
    /\ UNCHANGED <<fragment_buffer, fragmented_frame_type, Others>>

\* The first step on a frame.  A masked one is reported, and then decoded like any
\* other: has_error is not set.
decode_masked_frame ==
    /\ Running("uws", "decode_stream")
    /\ uws_state \in Decoding
    /\ stream_buffer # <<>>
    /\ \E h \in HeadersAt(Head(stream_buffer)) :
         /\ h.flaw = "masked"
         /\ Goto(<<Uws("indicate_ws_error_and_close"),
                   MkFrame("uws", "decode_frame", "", 0, <<h>>)>>)
    /\ UNCHANGED uwsVars

decode_unmasked_frame ==
    /\ Running("uws", "decode_stream")
    /\ uws_state \in Decoding
    /\ \/ stream_buffer = <<>> /\ Pop
       \/ /\ stream_buffer # <<>>
          /\ \E h \in HeadersAt(Head(stream_buffer)) :
               /\ h.flaw # "masked"
               /\ Goto(<<MkFrame("uws", "decode_frame", "", 0, <<h>>)>>)
    /\ UNCHANGED uwsVars

\* slip: decode_stream is not cleared when the frame is not all there yet
decode_length_spinning ==
    /\ Running("uws", "decode_frame")
    /\ LET h == Head(Top.data)
       IN  Goto(IF Len(stream_buffer) < needed_bytes(h)
                THEN <<Uws("decode_stream")>>
                ELSE <<MkFrame("uws", "frame", opcode(h), needed_bytes(h), <<h>>)>>)
    /\ UNCHANGED uwsVars

\* The length is decoded; the frame is left in the buffer when it is not all there
\* yet, and also when its length is an error.
decode_length ==
    /\ Running("uws", "decode_frame")
    /\ LET h == Head(Top.data)
       IN  \/ /\ h.flaw = "length"
              /\ Goto(<<Uws("indicate_ws_error")>>)
           \/ /\ h.flaw # "length"
              /\ Len(stream_buffer) < needed_bytes(h)
              /\ Pop
           \/ /\ h.flaw # "length"
              /\ Len(stream_buffer) >= needed_bytes(h)
              /\ Goto(<<MkFrame("uws", "frame", opcode(h), needed_bytes(h), <<h>>)>>)
    /\ UNCHANGED uwsVars

\* In size_t, taking more than there is leaves a huge count: what is decoded or
\* written next is undefined, and the model ends there.
consume_stream_buffer_bytes ==
    /\ Running("uws", "consume_stream_buffer_bytes")
    /\ stream_buffer' = SubSeq(stream_buffer, Top.n + 1, Len(stream_buffer))
    /\ IF Top.n <= Len(stream_buffer)
         THEN /\ Goto(IF Top.arg = "again" THEN <<Uws("decode_stream")>> ELSE <<>>)
              /\ UNCHANGED faults
         ELSE /\ Goto(<<Uws("undefined")>>)
              /\ faults' = faults \cup {"stream buffer count wrapped"}
    /\ UNCHANGED <<uws_state, fragment_buffer, fragmented_frame_type, pending_sends,
                   on_ws_close_complete, session>>

-----------------------------------------------------------------------------
(* One action per kind of frame.  h is its header; "again" and "stop" say   *)
(* whether decode_stream is set for another round.                          *)

Received(op) == Running("uws", "frame") /\ Top.arg = op
h_ == Head(Top.data)
Consume(next) == consume(Top.n, next)

Reject(next) ==
    /\ Goto(<<Uws("indicate_ws_error"), Consume(next)>>)
    /\ UNCHANGED uwsVars

frame_continuation ==
    /\ Received("continuation")
    /\ \/ Reject("stop")                              \* no memory
       \/ /\ fragment_buffer' = Append(fragment_buffer, h_)
          /\ Goto(CASE ~h_.fin -> <<Consume("again")>>
                     [] h_.fin /\ fragmented_frame_type = "UNKNOWN" ->
                          <<Uws("indicate_ws_error"), Consume("again")>>
                     [] OTHER ->
                          <<User("on_ws_frame_received", fragmented_frame_type, 0, fragment_buffer'),
                            Uws("message_done"), Consume("again")>>)
          /\ UNCHANGED <<uws_state, stream_buffer, fragmented_frame_type, Others>>

\* after on_ws_frame_received has returned
message_done ==
    /\ Running("uws", "message_done")
    /\ fragment_buffer' = <<>>
    /\ fragmented_frame_type' = "UNKNOWN"
    /\ Pop
    /\ UNCHANGED <<uws_state, stream_buffer, Others>>

\* a final data frame is passed on, whatever is being assembled
frame_data_final ==
    /\ \E op \in {"text", "binary"} :
         /\ Received(op)
         /\ h_.fin
         /\ Goto(<<User("on_ws_frame_received", DataType(op), 0, <<h_>>), Consume("again")>>)
    /\ UNCHANGED uwsVars

\* slip: a message that is already being assembled is not noticed
frame_data_first_unchecked ==
    \E op \in {"text", "binary"} :
      /\ Received(op)
      /\ ~h_.fin
      /\ fragment_buffer' = Append(fragment_buffer, h_)
      /\ fragmented_frame_type' = DataType(op)
      /\ Goto(<<Consume("again")>>)
      /\ UNCHANGED <<uws_state, stream_buffer, Others>>

\* slip: decode_stream is not set again after a first fragment
frame_data_first_stop ==
    \E op \in {"text", "binary"} :
      /\ Received(op)
      /\ ~h_.fin
      /\ fragment_buffer' = Append(fragment_buffer, h_)
      /\ fragmented_frame_type' = DataType(op)
      /\ Goto(<<Consume("stop")>>)
      /\ UNCHANGED <<uws_state, stream_buffer, Others>>

frame_data_first ==
    \E op \in {"text", "binary"} :
      /\ Received(op)
      /\ ~h_.fin
      /\ \/ fragmented_frame_type # "UNKNOWN" /\ Reject("again")
         \/ fragmented_frame_type = "UNKNOWN" /\ Reject("stop")      \* no memory
         \/ /\ fragmented_frame_type = "UNKNOWN"
            /\ fragment_buffer' = Append(fragment_buffer, h_)
            /\ fragmented_frame_type' = DataType(op)
            /\ Goto(<<Consume("again")>>)
            /\ UNCHANGED <<uws_state, stream_buffer, Others>>

frame_close_bad ==
    /\ Received("close")
    /\ \/ ~is_final(h_) /\ Reject("stop")
       \/ /\ is_final(h_)
          /\ h_.flaw = "utf8"
          /\ State("CLOSING_UNDERLYING_IO")
          /\ Goto(<<xio_close("uws", "close_complete"), Uws("close_or_error"), Consume("stop")>>)
          /\ UNCHANGED <<Buffers, Others>>

\* the answer to the close frame of uws_client_close_handshake_async
frame_close_answer ==
    /\ Received("close")
    /\ is_final(h_) /\ h_.flaw # "utf8"
    /\ uws_state = "CLOSING_WAITING_FOR_CLOSE"
    /\ State("CLOSING_UNDERLYING_IO")
    /\ Goto(<<xio_close("uws", "close_complete"), Uws("close_or_complete"), Consume("stop")>>)
    /\ UNCHANGED <<Buffers, Others>>

\* the peer closes: answer, and report it after the answer was handed down
frame_close_by_peer ==
    /\ Received("close")
    /\ is_final(h_) /\ h_.flaw # "utf8"
    /\ uws_state # "CLOSING_WAITING_FOR_CLOSE"
    /\ LET reported == <<User("on_ws_peer_closed", "", 0, <<>>), Consume("stop")>>
       IN  \/ /\ State("CLOSING_SENDING_CLOSE")
              /\ Goto(<<xio_send("uws", "on_underlying_io_close_sent", 0), Uws("answer_sent")>> \o reported)
           \/ /\ State("CLOSING_UNDERLYING_IO")         \* no memory for the answer
              /\ Goto(<<xio_close("uws", "close_complete"), Uws("close_or_error")>> \o reported)
    /\ UNCHANGED <<Buffers, Others>>

answer_sent ==
    /\ Running("uws", "answer_sent")
    /\ IF Top.ret = 0
         THEN Pop /\ UNCHANGED uws_state
         ELSE /\ State("CLOSING_UNDERLYING_IO")
              /\ Goto(<<xio_close("uws", "close_complete"), Uws("close_or_error")>>)
    /\ UNCHANGED <<Buffers, Others>>

\* xio_close returned to a place that reports an error if it failed ...
close_or_error ==
    /\ Running("uws", "close_or_error")
    /\ Goto(IF Top.ret = 0 THEN <<>> ELSE <<Uws("indicate_ws_error"), Uws("set_closed")>>)
    /\ UNCHANGED uwsVars

\* ... and to one that then takes the connection for closed
close_or_complete ==
    /\ Running("uws", "close_or_complete")
    /\ Goto(IF Top.ret = 0 THEN <<>> ELSE <<Uws("indicate_ws_close_complete"), Uws("set_closed")>>)
    /\ UNCHANGED uwsVars

\* neither a ping nor a pong starts another round of decoding
frame_ping ==
    /\ Received("ping")
    /\ \/ ~h_.fin /\ Reject("stop")
       \/ /\ h_.fin
          /\ \/ Goto(<<xio_send("uws", "unchecked_on_send_complete", 0), Consume("stop")>>)
             \/ Goto(<<Consume("stop")>>)               \* no memory for the pong
          /\ UNCHANGED uwsVars

frame_ignored ==
    /\ Received("pong") \/ Received("reserved")
    /\ Goto(<<Consume("stop")>>)
    /\ UNCHANGED uwsVars

-----------------------------------------------------------------------------
(* Closing.                                                                 *)

on_underlying_io_close_sent ==
    /\ Running("uws", "on_underlying_io_close_sent")
    /\ IF Top.arg # "ERROR" /\ uws_state = "CLOSING_SENDING_CLOSE"
         THEN /\ State("CLOSING_UNDERLYING_IO")
              /\ Goto(<<xio_close("uws", "close_complete"), Uws("close_sent_closed")>>)
         ELSE Pop /\ UNCHANGED uws_state
    /\ UNCHANGED <<Buffers, Others>>

close_sent_closed ==
    /\ Running("uws", "close_sent_closed")
    /\ Goto(IF Top.ret = 0 THEN <<>> ELSE <<Uws("indicate_ws_close_complete")>>)
    /\ UNCHANGED uwsVars

\* slip: the completion of the close is ignored
on_underlying_io_close_complete_ignored ==
    /\ Running("uws", "on_io_close_complete")
    /\ Pop
    /\ UNCHANGED uwsVars

on_underlying_io_close_complete ==
    /\ Running("uws", "on_io_close_complete")
    /\ Goto(IF uws_state = "CLOSING_UNDERLYING_IO"
            THEN <<Uws("indicate_ws_close_complete"), Uws("set_closed")>>
            ELSE <<>>)
    /\ UNCHANGED uwsVars

on_underlying_io_error ==
    /\ Running("uws", "on_io_error")
    /\ Goto(CASE uws_state \in Closing ->
                   <<xio_close("uws", "NULL"), Uws("indicate_ws_close_complete")>>
              [] uws_state \in Opening -> open_complete_error_and_close
              [] uws_state = "OPEN" -> <<Uws("indicate_ws_error")>>
              [] OTHER -> <<>>)
    /\ UNCHANGED uwsVars

\* the on_ws_close_complete argument: the caller may pass NULL
PassedCallback == IF Top.arg = "NULL" THEN 0 ELSE session

uws_client_close_async ==
    /\ Running("uws", "uws_client_close_async")
    /\ IF uws_state = "CLOSED"
         THEN Return(1) /\ UNCHANGED uwsVars
         ELSE /\ on_ws_close_complete' = PassedCallback
              /\ State("CLOSING_UNDERLYING_IO")
              /\ Goto(<<xio_close("uws", "close_complete"), Uws("close_async_closed")>>)
              /\ UNCHANGED <<Buffers, pending_sends, session, faults>>

close_async_closed ==
    /\ Running("uws", "close_async_closed")
    /\ IF Top.ret = 0 THEN Return(0)
       ELSE Goto(<<Uws("indicate_ws_error"), ReturnFrame("uws", 1)>>)
    /\ UNCHANGED uwsVars

\* A close frame that cannot be encoded or sent leaves the new state behind.
uws_client_close_handshake_async ==
    /\ Running("uws", "uws_client_close_handshake_async")
    /\ IF uws_state \in Closing \cup {"CLOSED"}
         THEN Return(1) /\ UNCHANGED uwsVars
         ELSE /\ on_ws_close_complete' = PassedCallback
              /\ State("CLOSING_WAITING_FOR_CLOSE")
              /\ \/ Goto(<<xio_send("uws", "unchecked_on_send_complete", 0)>>)
                 \/ Return(1)
              /\ UNCHANGED <<Buffers, pending_sends, session, faults>>

\* uws_client_destroy; the frees are not visible here
uws_client_destroy ==
    /\ Running("uws", "uws_client_destroy")
    /\ Goto((IF uws_state \in {"OPEN", "ERROR"}
               THEN <<MkFrame("uws", "uws_client_close_async", "NULL", 0, <<>>)>> ELSE <<>>)
            \o <<xio_destroy("uws"), Uws("clear_pending_sends")>>)
    /\ UNCHANGED uwsVars

-----------------------------------------------------------------------------
(* Sending.  n is the context that the list item stands for.                *)

Position(s, x) == CHOOSE i \in DOMAIN s : s[i] = x
Listed(x) == \E i \in DOMAIN pending_sends : pending_sends[i] = x

\* singlylinkedlist_remove of the item that singlylinkedlist_find has found, if any
Without(x) ==
    IF Listed(x)
    THEN [i \in 1 .. Len(pending_sends) - 1 |->
            pending_sends[IF i < Position(pending_sends, x) THEN i ELSE i + 1]]
    ELSE pending_sends

uws_client_send_frame_async ==
    /\ Running("uws", "uws_client_send_frame_async")
    /\ \/ Return(1) /\ UNCHANGED pending_sends           \* not open, or no memory
       \/ /\ uws_state = "OPEN"
          /\ pending_sends' = Append(pending_sends, Top.n)
          /\ Goto(<<xio_send("uws", "on_underlying_io_send_complete", Top.n),
                    MkFrame("uws", "frame_sent", "", Top.n, <<>>)>>)
    /\ UNCHANGED <<uws_state, Buffers, on_ws_close_complete, session, faults>>

\* slip: a send that failed stays in the list
frame_sent_kept ==
    /\ Running("uws", "frame_sent")
    /\ Return(Top.ret)
    /\ UNCHANGED uwsVars

\* A send that failed is taken off the list, unless it was completed meanwhile.
frame_sent ==
    /\ Running("uws", "frame_sent")
    /\ pending_sends' = IF Top.ret = 0 THEN pending_sends ELSE Without(Top.n)
    /\ Return(Top.ret)
    /\ UNCHANGED <<uws_state, Buffers, on_ws_close_complete, session, faults>>

on_underlying_io_send_complete ==
    /\ Running("uws", "on_underlying_io_send_complete")
    /\ Listed(Top.n)
    /\ pending_sends' = Without(Top.n)
    /\ Goto(<<User("on_ws_send_frame_complete", Top.arg, Top.n, <<>>)>>)
    /\ UNCHANGED <<uws_state, Buffers, on_ws_close_complete, session, faults>>

\* The context is not in the list any more: the item it points to has been freed,
\* and what is read from it decides how the function goes on.
on_underlying_io_send_complete_freed ==
    /\ Running("uws", "on_underlying_io_send_complete")
    /\ ~Listed(Top.n)
    /\ faults' = faults \cup {"freed list item used"}
    /\ \/ Pop
       \/ Goto(<<User("on_ws_send_frame_complete", Top.arg, Top.n, <<>>)>>)
       \/ Goto(<<Uws("indicate_ws_error")>>)
    /\ UNCHANGED <<uws_state, Buffers, pending_sends, on_ws_close_complete, session>>

uws_client_dowork ==
    /\ Running("uws", "uws_client_dowork")
    /\ Goto(IF uws_state = "CLOSED" THEN <<>> ELSE <<xio_dowork("uws")>>)
    /\ UNCHANGED uwsVars

-----------------------------------------------------------------------------
UwsNext ==
    \/ indicate_ws_open_complete_error \/ indicate_ws_error \/ indicate_ws_error_and_close
    \/ indicate_ws_close_complete \/ clear_pending_sends \/ call_on_ws_close_complete \/ set_closed
    \/ uws_client_open_async \/ xio_open_returned
    \/ on_underlying_io_open_complete \/ upgrade_request_sent
    \/ on_underlying_io_bytes_received
    \/ decode_nothing \/ decode_while_opening \/ decode_upgrade_response
    \/ decode_masked_frame \/ decode_unmasked_frame \/ decode_length
    \/ consume_stream_buffer_bytes
    \/ frame_continuation \/ message_done \/ frame_data_final \/ frame_data_first
    \/ frame_close_bad \/ frame_close_answer \/ frame_close_by_peer \/ answer_sent
    \/ close_or_error \/ close_or_complete \/ frame_ping \/ frame_ignored
    \/ on_underlying_io_close_sent \/ close_sent_closed \/ on_underlying_io_close_complete
    \/ on_underlying_io_error
    \/ uws_client_close_async \/ close_async_closed \/ uws_client_close_handshake_async
    \/ uws_client_destroy
    \/ uws_client_send_frame_async \/ frame_sent
    \/ on_underlying_io_send_complete \/ on_underlying_io_send_complete_freed
    \/ uws_client_dowork

=============================================================================
