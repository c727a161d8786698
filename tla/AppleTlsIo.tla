----------------------------- MODULE AppleTlsIo -----------------------------
(***************************************************************************)
(* pal/ios-osx/tlsio_appleios.c.  This adapter has no layer beneath it: it *)
(* uses a pair of Core Foundation streams, which are external and here     *)
(* stand on the peer's script of module SocketIo.  Opening is a sequence   *)
(* of states that dowork steps through, sends wait in a list of the        *)
(* adapter, and closing is synchronous.  TLSIO_STATE_CLOSED is "NOT_OPEN"; *)
(* ssl means that the streams exist.                                       *)
(***************************************************************************)
EXTENDS TlsShared

AppleOpening == {"OPENING_WAITING_DNS", "OPENING_WAITING_SOCKET", "OPENING_WAITING_SSL"}

dowork_read == Tls("dowork_read")
dowork_send == Tls("dowork_send")

\* enter_tlsio_error_state: the error is reported once
apple_error(rest) ==
    /\ TlsState("ERROR")
    /\ Goto((IF tls_state # "ERROR" THEN <<on_io_error("tls")>> ELSE <<>>) \o rest)

\* enter_open_error_state: both callbacks are called
apple_open_error == apple_error(<<on_io_open_complete("tls", "ERROR")>>)

\* the streams are made by each open
tlsio_appleios_create ==
    /\ tls_state = "NOT_OPEN"
    /\ in_bio = <<>> /\ tls_on_close = "NULL" /\ tls_faults = {}
    /\ ssl = FALSE

-----------------------------------------------------------------------------
(* Opening and closing.                                                     *)

tlsio_appleios_open_async ==
    /\ Running("tls", "open")
    /\ IF tls_state # "NOT_OPEN"
         THEN Return(1) /\ UNCHANGED tls_state
         ELSE TlsState("OPENING_WAITING_DNS") /\ Return(0)
    /\ UNCHANGED <<ssl, secure, tls_faults, pending_sends, script, received>>

\* The cancelled open is reported in a state that is still an opening one.
tlsio_appleios_close_async ==
    /\ Running("tls", "close")
    /\ IF Top.arg = "NULL"
         THEN Return(1)
         ELSE Goto((IF tls_state \in AppleOpening THEN <<on_io_open_complete("tls", "CANCELLED")>> ELSE <<>>)
                   \o <<Tls("internal_close"), on_io_close_complete("tls"), ReturnFrame("tls", 0)>>)
    /\ UNCHANGED <<tls_state, ssl, secure, tls_faults, pending_sends, script, received>>

\* slip: the state is left as it was, and dowork goes on reading
internal_close_state_kept ==
    /\ Running("tls", "internal_close")
    /\ ssl' = FALSE /\ secure' = FALSE
    /\ pending_sends' = <<>> /\ Pop
    /\ UNCHANGED <<tls_state, tls_faults, script, received>>

\* The streams go first, then each pending send is cancelled, then the state changes.
internal_close ==
    /\ Running("tls", "internal_close")
    /\ ssl' = FALSE /\ secure' = FALSE
    /\ IF pending_sends # <<>>
         THEN /\ pending_sends' = Tail(pending_sends)
              /\ Goto(on_send_complete(Head(pending_sends).cb, "CANCELLED", Head(pending_sends).n)
                      \o <<Tls("internal_close")>>)
              /\ UNCHANGED tls_state
         ELSE TlsState("NOT_OPEN") /\ Pop /\ UNCHANGED pending_sends
    /\ UNCHANGED <<tls_faults, script, received>>

tlsio_appleios_destroy ==
    /\ Running("tls", "destroy")
    /\ Goto(IF tls_state # "NOT_OPEN" THEN <<Tls("internal_close")>> ELSE <<>>)
    /\ UNCHANGED <<tls_state, ssl, secure, tls_faults, pending_sends, script, received>>

-----------------------------------------------------------------------------
(* tlsio_appleios_dowork.                                                   *)

dowork_poll_dns ==
    /\ Running("tls", "dowork")
    /\ tls_state = "OPENING_WAITING_DNS"
    /\ TlsState("OPENING_WAITING_SOCKET")
    /\ Pop
    /\ UNCHANGED <<ssl, secure, tls_faults, pending_sends, script, received>>

\* the streams are made, and accept the request for TLS
dowork_poll_socket ==
    /\ Running("tls", "dowork")
    /\ tls_state = "OPENING_WAITING_SOCKET"
    /\ \/ ssl' = TRUE /\ TlsState("OPENING_WAITING_SSL") /\ Pop
       \/ ssl' \in BOOLEAN /\ apple_open_error
    /\ UNCHANGED <<secure, tls_faults, pending_sends, script, received>>

\* Opening the streams connects and does the handshake.
dowork_poll_open_ssl ==
    /\ Running("tls", "dowork")
    /\ tls_state = "OPENING_WAITING_SSL"
    /\ \/ /\ TlsState("OPEN")
          /\ secure' = TRUE
          /\ script' \in Scripts
          /\ received' = 0
          /\ Goto(<<on_io_open_complete("tls", "OK")>>)
       \/ apple_open_error /\ UNCHANGED <<secure, script, received>>
    /\ UNCHANGED <<ssl, tls_faults, pending_sends>>

tlsio_appleios_dowork ==
    /\ Running("tls", "dowork")
    /\ tls_state \notin AppleOpening
    /\ Goto(IF tls_state = "OPEN" THEN <<dowork_read, dowork_send>> ELSE <<>>)
    /\ UNCHANGED <<tls_state, ssl, secure, tls_faults, pending_sends, script, received>>

\* the peer's data, without the handshake that the streams keep to themselves
Data == SelectSeq(script, LAMBDA u : u.op # "handshake")

\* the status of the stream first, then what can be read, a buffer at a time
apple_dowork_read ==
    /\ \/ /\ Running("tls", "dowork_read")
          /\ \/ Goto(IF tls_state = "OPEN" THEN <<Tls("read_loop")>> ELSE <<>>) /\ UNCHANGED tls_state
             \/ tls_state = "OPEN" /\ apple_error(<<>>)
          /\ UNCHANGED received
       \/ /\ Running("tls", "read_loop")
          /\ \/ Pop /\ UNCHANGED <<tls_state, received>>
             \/ /\ tls_state = "OPEN" /\ received < Len(Data)
                /\ received' = received + 1
                /\ Goto(<<on_bytes_received("tls", <<Data[received + 1]>>), Tls("read_loop")>>)
                /\ UNCHANGED tls_state
             \/ tls_state = "OPEN" /\ apple_error(<<Tls("read_loop")>>) /\ UNCHANGED received
    /\ UNCHANGED <<ssl, secure, tls_faults, pending_sends, script>>

\* A bad status is reported, and the write tried all the same.
apple_dowork_send ==
    /\ Running("tls", "dowork_send")
    /\ \/ pending_sends = <<>> /\ Pop /\ UNCHANGED tls_state
       \/ pending_sends # <<>> /\ Goto(<<Tls("write")>>) /\ UNCHANGED tls_state
       \/ pending_sends # <<>> /\ apple_error(<<Tls("write")>>)
    /\ UNCHANGED <<ssl, secure, tls_faults, pending_sends, script, received>>

\* process_and_destroy_head_message
process_and_destroy_head_message(result) ==
    /\ pending_sends' = Tail(pending_sends)
    /\ LET report == on_send_complete(Head(pending_sends).cb, result, Head(pending_sends).n)
       IN  IF result = "ERROR" THEN apple_error(report) ELSE Goto(report) /\ UNCHANGED tls_state

\* All is written, or only a part or nothing for now, or the connection is lost.  The
\* callback of an error may have closed the streams.
apple_write ==
    /\ Running("tls", "write")
    /\ IF ssl /\ pending_sends # <<>>
         THEN /\ \/ process_and_destroy_head_message("OK")
                 \/ process_and_destroy_head_message("ERROR")
                 \/ Pop /\ UNCHANGED <<tls_state, pending_sends>>
              /\ UNCHANGED tls_faults
         ELSE tls_faults' = {"released stream used"} /\ Pop /\ UNCHANGED <<tls_state, pending_sends>>
    /\ UNCHANGED <<ssl, secure, script, received>>

tlsio_appleios_send_async ==
    /\ Running("tls", "send")
    /\ \/ Return(1) /\ UNCHANGED pending_sends    \* not open, or no memory
       \/ /\ tls_state = "OPEN"
          /\ pending_sends' = Append(pending_sends, [cb |-> Top.arg, n |-> Top.n])
          /\ Goto(<<dowork_send, ReturnFrame("tls", 0)>>)
    /\ UNCHANGED <<tls_state, ssl, secure, tls_faults, script, received>>

-----------------------------------------------------------------------------
AppleNext ==
    /\ \/ tlsio_appleios_open_async \/ tlsio_appleios_close_async \/ internal_close
       \/ tlsio_appleios_destroy
       \/ dowork_poll_dns \/ dowork_poll_socket \/ dowork_poll_open_ssl \/ tlsio_appleios_dowork
       \/ apple_dowork_read \/ apple_dowork_send \/ apple_write \/ tlsio_appleios_send_async
    /\ UNCHANGED <<in_bio, tls_on_close, taken, stored_send, needed_bytes,
                   sock_state, connected, pending_io_list>>

=============================================================================
