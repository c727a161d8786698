----------------------------- MODULE SchannelIo -----------------------------
(***************************************************************************)
(* adapters/tlsio_schannel.c.  What the socket delivers is collected until *)
(* Schannel has the needed_bytes it asked for, and then worked off by one  *)
(* loop in on_underlying_io_bytes_received, which does the handshake, the  *)
(* decryption and the renegotiations that the peer may ask for.  Sends     *)
(* made during a renegotiation wait in a list.                             *)
(***************************************************************************)
EXTENDS TlsShared

HELLO_SENT == "HANDSHAKE_CLIENT_HELLO_SENT"
SchannelOpening == {"OPENING_UNDERLYING_IO", HELLO_SENT}

drain == Tls("drain")
schannel_send_frame(f, cb, n) == MkFrame("tls", f, cb, n, <<>>)

\* the state becomes ERROR; a failed handshake is told in one of two ways
FailWith(callback, rest) == TlsState("ERROR") /\ Goto(<<callback>> \o rest)
indicate_error(rest) == FailWith(on_io_error("tls"), rest)
open_failed(rest) == FailWith(on_io_open_complete("tls", "ERROR"), rest)

\* What is left of the buffer; without more, the next byte tells how many are needed.
KeepLast(n) ==
    /\ in_bio' = SubSeq(in_bio, Len(in_bio) - n + 1, Len(in_bio))
    /\ needed_bytes' = IF n = 0 THEN 1 ELSE 0

\* the security context is made by each open
tlsio_schannel_create ==
    /\ tls_state = "NOT_OPEN"
    /\ in_bio = <<>> /\ tls_on_close = "NULL" /\ tls_faults = {}
    /\ ssl = FALSE

-----------------------------------------------------------------------------
(* Opening.                                                                 *)

tlsio_schannel_open ==
    /\ Running("tls", "open")
    /\ IF tls_state # "NOT_OPEN"
         THEN Return(1) /\ UNCHANGED tls_state
         ELSE /\ TlsState("OPENING_UNDERLYING_IO")
              /\ Goto(<<xio_open("tls"), Tls("xio_open_returned")>>)
    /\ UNCHANGED <<ssl, in_bio, tls_on_close, taken, secure, needed_bytes, pending_sends>>

schannel_xio_open_returned ==
    /\ Running("tls", "xio_open_returned")
    /\ TlsState(IF Top.ret # 0 THEN "NOT_OPEN" ELSE tls_state)
    /\ Return(Top.ret)
    /\ UNCHANGED <<ssl, in_bio, tls_on_close, taken, secure, needed_bytes, pending_sends>>

schannel_on_underlying_io_open_complete ==
    /\ Running("tls", "on_io_open_complete")
    /\ \/ tls_state # "OPENING_UNDERLYING_IO" /\ indicate_error(<<>>)
       \/ /\ tls_state = "OPENING_UNDERLYING_IO" /\ Top.arg # "OK"
          /\ TlsState("NOT_OPEN")
          /\ Goto(<<on_io_open_complete("tls", Top.arg)>>)
       \/ /\ tls_state = "OPENING_UNDERLYING_IO" /\ Top.arg = "OK"
          /\ Goto(<<Tls("send_client_hello")>>)
          /\ UNCHANGED tls_state
    /\ UNCHANGED <<ssl, in_bio, tls_on_close, taken, secure, needed_bytes, pending_sends>>

\* No credentials are an error; a security context that cannot be made is not noticed.
send_client_hello ==
    /\ Running("tls", "send_client_hello")
    /\ \/ indicate_error(<<>>) /\ UNCHANGED <<ssl, taken, secure>>
       \/ /\ ssl' = TRUE /\ taken' = 0 /\ secure' = FALSE
          /\ Goto(<<xio_send("tls", "unchecked_on_send_complete", 0), Tls("hello_sent")>>)
          /\ UNCHANGED tls_state
       \/ Pop /\ UNCHANGED <<tls_state, ssl, taken, secure>>
    /\ UNCHANGED <<in_bio, tls_on_close, needed_bytes, pending_sends>>

schannel_hello_sent ==
    /\ Running("tls", "hello_sent")
    /\ needed_bytes' = IF Top.ret = 0 THEN 1 ELSE needed_bytes
    /\ \/ indicate_error(<<>>)                    \* not sent, or no memory
       \/ Top.ret = 0 /\ TlsState(HELLO_SENT) /\ Pop
    /\ UNCHANGED <<ssl, in_bio, tls_on_close, taken, secure, pending_sends>>

-----------------------------------------------------------------------------
(* Receiving.                                                               *)

\* Bytes for which there is no memory are dropped, and nobody is told.
schannel_on_underlying_io_bytes_received ==
    /\ Running("tls", "on_bytes_received")
    /\ \/ Pop /\ UNCHANGED <<in_bio, needed_bytes>>
       \/ /\ in_bio' = in_bio \o Top.data
          /\ needed_bytes' = IF Len(Top.data) > needed_bytes THEN 0
                             ELSE needed_bytes - Len(Top.data)
          /\ Goto(<<drain>>)
    /\ UNCHANGED <<tls_state, ssl, tls_on_close, taken, secure, pending_sends>>

drain_end ==
    /\ Running("tls", "drain")
    /\ needed_bytes > 0 \/ tls_state \notin {HELLO_SENT, "RENEGOTIATE", "OPEN"}
    /\ Pop
    /\ UNCHANGED <<tls_state, ssl, in_bio, tls_on_close, taken, secure, needed_bytes, pending_sends>>

Handshaking == needed_bytes = 0 /\ tls_state \in {HELLO_SENT, "RENEGOTIATE"}

\* the units of the handshake that Schannel takes from the buffer, or {} if it refuses
HandshakeUnits ==
    {i \in DOMAIN in_bio : \A j \in 1 .. i :
        /\ in_bio[j].op = "handshake" /\ in_bio[j].id = in_bio[1].id
        /\ taken + j <= Len(script) /\ in_bio[j] = script[taken + j]}
HandshakeOver == \E i \in HandshakeUnits : in_bio[i].k = in_bio[i].size

\* InitializeSecurityContext: SEC_E_INCOMPLETE_MESSAGE
handshake_incomplete ==
    /\ Running("tls", "drain")
    /\ Handshaking /\ HandshakeUnits = DOMAIN in_bio /\ ~HandshakeOver
    /\ needed_bytes' = 1
    /\ \/ Goto(<<drain>>) /\ UNCHANGED tls_state
       \/ open_failed(<<drain>>)                  \* no memory
    /\ UNCHANGED <<ssl, in_bio, tls_on_close, taken, secure, pending_sends>>

\* SEC_I_CONTINUE_NEEDED: a token for the peer, possibly empty
handshake_continue ==
    /\ Running("tls", "drain")
    /\ Handshaking /\ HandshakeUnits = DOMAIN in_bio /\ in_bio # <<>> /\ ~HandshakeOver
    /\ Goto(<<xio_send("tls", "unchecked_on_send_complete", 0), Tls("token_sent")>>)
    /\ UNCHANGED <<tls_state, ssl, in_bio, tls_on_close, taken, secure, needed_bytes, pending_sends>>

handshake_token_sent ==
    /\ Running("tls", "token_sent")
    /\ IF Top.ret = 0
         THEN KeepLast(0) /\ taken' = taken + Len(in_bio)
         ELSE UNCHANGED <<in_bio, needed_bytes, taken>>
    /\ \/ open_failed(<<drain>>)                  \* not sent, or no memory
       \/ Top.ret = 0 /\ Goto(<<drain>>) /\ UNCHANGED tls_state
    /\ UNCHANGED <<ssl, tls_on_close, secure, pending_sends>>

\* SEC_E_OK: the handshake, or the renegotiation, is over
handshake_ok ==
    /\ Running("tls", "drain")
    /\ Handshaking /\ HandshakeOver
    /\ LET consumed == CHOOSE i \in HandshakeUnits : in_bio[i].k = in_bio[i].size
       IN  KeepLast(Len(in_bio) - consumed) /\ taken' = taken + consumed
    /\ secure' = TRUE
    /\ \/ open_failed(<<drain>>)                  \* no memory
       \/ /\ TlsState("OPEN")
          /\ Goto(IF tls_state = HELLO_SENT THEN <<on_io_open_complete("tls", "OK"), drain>>
                  ELSE <<Tls("send_pending"), drain>>)
    /\ UNCHANGED <<ssl, tls_on_close, pending_sends>>

\* the certificate is refused, or anything else goes wrong
handshake_failed ==
    /\ Running("tls", "drain")
    /\ Handshaking
    /\ open_failed(<<drain>>) \/ indicate_error(<<drain>>)
    /\ UNCHANGED <<ssl, in_bio, tls_on_close, taken, secure, needed_bytes, pending_sends>>

\* The sends that waited for the renegotiation; one that fails is dropped.
send_pending ==
    /\ \/ /\ Running("tls", "send_pending")
          /\ Goto(IF pending_sends = <<>> THEN <<>>
                  ELSE <<schannel_send_frame("internal_send", Head(pending_sends).cb, Head(pending_sends).n),
                         Tls("pending_sent")>>)
          /\ UNCHANGED pending_sends
       \/ /\ Running("tls", "pending_sent")
          /\ pending_sends' = Tail(pending_sends)
          /\ Goto((IF Top.ret # 0 THEN <<on_io_error("tls")>> ELSE <<>>) \o <<Tls("send_pending")>>)
    /\ UNCHANGED <<tls_state, ssl, in_bio, tls_on_close, taken, secure, needed_bytes>>

-----------------------------------------------------------------------------
(* DecryptMessage.                                                          *)

Decrypting == needed_bytes = 0 /\ tls_state = "OPEN" /\ in_bio # <<>>
RecordSize == Head(in_bio).size
RecordComplete == Len(in_bio) >= RecordSize
RecordGenuine == /\ taken + RecordSize <= Len(script)
                 /\ \A i \in 1 .. RecordSize : i \in DOMAIN in_bio => in_bio[i] = script[taken + i]

decrypt_incomplete ==
    /\ Running("tls", "drain")
    /\ Decrypting /\ ~RecordComplete
    /\ needed_bytes' \in {1, RecordSize - Len(in_bio)}
    /\ \/ Goto(<<drain>>) /\ UNCHANGED tls_state
       \/ indicate_error(<<drain>>)               \* no memory
    /\ UNCHANGED <<ssl, in_bio, tls_on_close, taken, secure, pending_sends>>

decrypt_ok ==
    /\ Running("tls", "drain")
    /\ Decrypting /\ RecordComplete /\ RecordGenuine /\ Head(in_bio).op # "handshake"
    /\ taken' = taken + RecordSize
    /\ Goto(<<on_bytes_received("tls", SubSeq(in_bio, 1, RecordSize)),
              MkFrame("tls", "decrypted", "", Len(in_bio) - RecordSize, <<>>)>>)
    /\ UNCHANGED <<tls_state, ssl, in_bio, tls_on_close, secure, needed_bytes, pending_sends>>

\* after the callback: Top.n units were behind the record
schannel_decrypted ==
    /\ Running("tls", "decrypted")
    /\ KeepLast(Top.n)
    /\ \/ Goto(<<drain>>) /\ UNCHANGED tls_state
       \/ indicate_error(<<drain>>)               \* no memory
    /\ UNCHANGED <<ssl, tls_on_close, taken, secure, pending_sends>>

\* SEC_I_RENEGOTIATE: the whole buffer is dropped, records behind the request included.
\* (When the new context cannot be made the loop tries the same bytes again.)
decrypt_renegotiate ==
    /\ \/ /\ Running("tls", "drain")
          /\ Decrypting /\ RecordComplete /\ RecordGenuine /\ Head(in_bio).op = "handshake"
          /\ taken' = taken + RecordSize
          /\ in_bio' = <<>>
          /\ Goto(<<xio_send("tls", "unchecked_on_send_complete", 0), Tls("renegotiation_sent")>>)
          /\ UNCHANGED <<tls_state, needed_bytes>>
       \/ /\ Running("tls", "renegotiation_sent")
          /\ needed_bytes' = IF Top.ret = 0 THEN 1 ELSE needed_bytes
          /\ \/ indicate_error(<<drain>>)         \* not sent, or no memory
             \/ Top.ret = 0 /\ TlsState("RENEGOTIATE") /\ Goto(<<drain>>)
          /\ UNCHANGED <<in_bio, taken>>
    /\ UNCHANGED <<ssl, tls_on_close, secure, pending_sends>>

decrypt_failed ==
    /\ Running("tls", "drain")
    /\ Decrypting
    /\ indicate_error(<<drain>>)
    /\ UNCHANGED <<ssl, in_bio, tls_on_close, taken, secure, needed_bytes, pending_sends>>

-----------------------------------------------------------------------------
(* Errors of the socket, and closing.                                       *)

\* RENEGOTIATE is not among the states that know an error.
schannel_on_underlying_io_error ==
    /\ Running("tls", "on_io_error")
    /\ \/ /\ tls_state \in {"NOT_OPEN", "ERROR", "RENEGOTIATE"}
          /\ Pop
          /\ UNCHANGED tls_state
       \/ tls_state \in SchannelOpening /\ open_failed(<<>>)
       \/ /\ tls_state = "CLOSING"
          /\ TlsState("ERROR")
          /\ Goto(IF tls_on_close # "NULL" THEN <<on_io_close_complete("tls")>> ELSE <<>>)
       \/ tls_state = "OPEN" /\ indicate_error(<<>>)
    /\ UNCHANGED <<ssl, in_bio, tls_on_close, taken, secure, needed_bytes, pending_sends>>

\* The security context is freed after the callback.
schannel_on_underlying_io_close_complete ==
    /\ \/ /\ Running("tls", "on_io_close_complete")
          /\ TlsState(IF tls_state = "CLOSING" THEN "NOT_OPEN" ELSE tls_state)
          /\ Goto(CASE tls_state # "CLOSING" -> <<>>
                    [] tls_on_close # "NULL" -> <<on_io_close_complete("tls"), Tls("closed")>>
                    [] OTHER -> <<Tls("closed")>>)
          /\ UNCHANGED ssl
       \/ Running("tls", "closed") /\ ssl' = FALSE /\ Pop /\ UNCHANGED tls_state
    /\ UNCHANGED <<in_bio, tls_on_close, taken, secure, needed_bytes, pending_sends>>

tlsio_schannel_close ==
    /\ Running("tls", "close")
    /\ IF tls_state \in {"NOT_OPEN", "CLOSING"}
         THEN Return(1) /\ UNCHANGED <<tls_state, tls_on_close>>
         ELSE /\ TlsState("CLOSING")
              /\ tls_on_close' = Top.arg
              /\ Goto(<<xio_close("tls", "close_complete")>>)
    /\ UNCHANGED <<ssl, in_bio, taken, secure, needed_bytes, pending_sends>>

Cancelled(s) == on_send_complete(s.cb, "CANCELLED", s.n)

\* the pending sends are cancelled after the socket is gone
tlsio_schannel_destroy ==
    /\ \/ /\ Running("tls", "destroy")
          /\ Goto(<<xio_destroy("tls"), Tls("cancel_pending")>>)
          /\ UNCHANGED pending_sends
       \/ /\ Running("tls", "cancel_pending")
          /\ Goto(IF pending_sends = <<>> THEN <<>>
                  ELSE Cancelled(Head(pending_sends)) \o <<Tls("cancel_pending")>>)
          /\ pending_sends' = IF pending_sends = <<>> THEN <<>> ELSE Tail(pending_sends)
    /\ UNCHANGED <<tls_state, ssl, in_bio, tls_on_close, taken, secure, needed_bytes>>

-----------------------------------------------------------------------------
(* Sending, and the pump.                                                   *)

tlsio_schannel_send ==
    /\ Running("tls", "send")
    /\ IF tls_state = "RENEGOTIATE"
         THEN \/ Return(1) /\ UNCHANGED pending_sends          \* no memory
              \/ /\ pending_sends' = Append(pending_sends, [cb |-> Top.arg, n |-> Top.n])
                 /\ Return(0)
         ELSE /\ Goto(<<schannel_send_frame("internal_send", Top.arg, Top.n)>>)
              /\ UNCHANGED pending_sends
    /\ UNCHANGED <<tls_state, ssl, in_bio, tls_on_close, taken, secure, needed_bytes>>

\* One chunk or several; only the last one carries the callback.
internal_send ==
    /\ Running("tls", "internal_send")
    /\ \/ Return(1)                               \* send_chunk: not open, or no memory
       \/ /\ tls_state = "OPEN"
          /\ \/ Goto(<<xio_send("tls", Top.arg, Top.n)>>)
             \/ Goto(<<xio_send("tls", "NULL", 0), schannel_send_frame("chunk_sent", Top.arg, Top.n)>>)
    /\ UNCHANGED <<tls_state, ssl, in_bio, tls_on_close, taken, secure, needed_bytes, pending_sends>>

send_chunk_last ==
    /\ Running("tls", "chunk_sent")
    /\ IF Top.ret # 0 \/ tls_state # "OPEN" THEN Return(1) ELSE Goto(<<xio_send("tls", Top.arg, Top.n)>>)
    /\ UNCHANGED <<tls_state, ssl, in_bio, tls_on_close, taken, secure, needed_bytes, pending_sends>>

tlsio_schannel_dowork ==
    /\ Running("tls", "dowork")
    /\ Goto(<<xio_dowork("tls")>>)
    /\ UNCHANGED <<tls_state, ssl, in_bio, tls_on_close, taken, secure, needed_bytes, pending_sends>>

-----------------------------------------------------------------------------
SchannelNext ==
    /\ \/ tlsio_schannel_open \/ schannel_xio_open_returned
       \/ schannel_on_underlying_io_open_complete \/ send_client_hello \/ schannel_hello_sent
       \/ schannel_on_underlying_io_bytes_received \/ drain_end
       \/ handshake_incomplete \/ handshake_continue \/ handshake_token_sent \/ handshake_ok
       \/ handshake_failed \/ send_pending
       \/ decrypt_incomplete \/ decrypt_ok \/ schannel_decrypted \/ decrypt_renegotiate
       \/ decrypt_failed
       \/ schannel_on_underlying_io_error \/ schannel_on_underlying_io_close_complete
       \/ tlsio_schannel_close \/ tlsio_schannel_destroy
       \/ tlsio_schannel_send \/ internal_send \/ send_chunk_last \/ tlsio_schannel_dowork
    /\ UNCHANGED <<tls_faults, stored_send>>

=============================================================================
