----------------------------- MODULE MbedTlsIo -----------------------------
(***************************************************************************)
(* adapters/tlsio_mbedtls.c.  The handshake runs to its end inside         *)
(* on_underlying_io_open_complete: when mbed TLS wants bytes, on_io_recv   *)
(* pumps the socket until there are some.  The mbed TLS context is set up  *)
(* once, by tlsio_mbedtls_create, and never reset.                         *)
(***************************************************************************)
EXTENDS TlsShared

\* frames: the rest of on_underlying_io_open_complete before and after the ClientHello,
\* and on_io_recv called by the handshake and by mbedtls_ssl_read
mbed_handshake == TlsArg("handshake", "cb")
mbed_io_recv(caller) == TlsArg("on_io_recv", caller)
mbed_io_send == TlsArg("on_io_send", "")

mbedUnchanged == UNCHANGED <<ssl, tls_faults, needed_bytes, pending_sends>>

\* mbedtls_init sets the context up with the instance
tlsio_mbedtls_create ==
    /\ tls_state = "NOT_OPEN"
    /\ in_bio = <<>> /\ tls_on_close = "NULL" /\ tls_faults = {}
    /\ ssl = TRUE

-----------------------------------------------------------------------------
(* Opening.                                                                 *)

tlsio_mbedtls_open ==
    /\ Running("tls", "open")
    /\ IF tls_state # "NOT_OPEN"
         THEN Return(1) /\ UNCHANGED tls_state
         ELSE /\ TlsState("OPENING_UNDERLYING_IO")
              /\ Goto(<<xio_open("tls"), Tls("xio_open_returned")>>)
    /\ UNCHANGED <<in_bio, tls_on_close, taken, secure, stored_send>>

mbed_xio_open_returned ==
    /\ Running("tls", "xio_open_returned")
    /\ TlsState(IF Top.ret # 0 THEN "NOT_OPEN" ELSE tls_state)
    /\ Return(Top.ret)
    /\ UNCHANGED <<in_bio, tls_on_close, taken, secure, stored_send>>

mbed_on_underlying_io_open_complete ==
    /\ Running("tls", "on_io_open_complete")
    /\ IF Top.arg = "OK"
         THEN TlsState("IN_HANDSHAKE") /\ Goto(<<Tls("handshake")>>)
         ELSE Goto(<<xio_close("tls", "NULL"), Tls("open_failed")>>) /\ UNCHANGED tls_state
    /\ UNCHANGED <<in_bio, tls_on_close, taken, secure, stored_send>>

\* mbedtls_ssl_handshake: it may fail at any time; it sends the ClientHello, takes what
\* the peer answers, and returns at once when the context has finished one already.
mbed_ssl_handshake ==
    /\ Running("tls", "handshake")
    /\ \/ /\ secure
          /\ TlsState("OPEN")
          /\ Goto(<<on_io_open_complete("tls", "OK")>>)
       \/ /\ ~secure
          /\ Goto(<<xio_close("tls", "NULL"), Tls("open_failed")>>)
          /\ UNCHANGED tls_state
       \/ /\ ~secure /\ Top.ret = 0
          /\ Goto(<<IF Top.arg = "" THEN mbed_io_send ELSE mbed_io_recv("cb"), mbed_handshake>>)
          /\ UNCHANGED tls_state
    /\ UNCHANGED <<in_bio, tls_on_close, taken, secure, stored_send>>

mbed_open_failed ==
    /\ Running("tls", "open_failed")
    /\ TlsState("NOT_OPEN")
    /\ Goto(<<on_io_open_complete("tls", "ERROR")>>)
    /\ UNCHANGED <<in_bio, tls_on_close, taken, secure, stored_send>>

-----------------------------------------------------------------------------
(* The functions that mbed TLS calls.                                       *)

\* Without bytes the socket is pumped, until there are some or the state is OPEN.
mbed_on_io_recv_empty ==
    /\ Running("tls", "on_io_recv")
    /\ in_bio = <<>>
    /\ Goto(<<xio_dowork("tls"), TlsArg("recv_pumped", Top.arg)>>)
    /\ UNCHANGED <<tls_state, in_bio, tls_on_close, taken, secure, stored_send>>

\* MBEDTLS_ERR_SSL_WANT_READ ends mbedtls_ssl_read and makes the handshake try again.
mbed_on_io_recv_pumped ==
    /\ Running("tls", "recv_pumped")
    /\ IF in_bio = <<>> /\ tls_state = "OPEN" THEN Pop ELSE Goto(<<mbed_io_recv(Top.arg)>>)
    /\ UNCHANGED <<tls_state, in_bio, tls_on_close, taken, secure, stored_send>>

mbed_on_io_recv_handshake ==
    /\ Running("tls", "on_io_recv")
    /\ in_bio # <<>>
    /\ Top.arg = "cb"
    /\ IF ExpectedHandshake(Head(in_bio))
         THEN Take(Head(in_bio)) /\ Return(0)
         ELSE Return(1) /\ UNCHANGED <<taken, secure>>
    /\ in_bio' = Tail(in_bio)
    /\ UNCHANGED <<tls_state, tls_on_close, stored_send>>

\* decode_ssl_received_bytes: what was read is handed up and the next read tried, whatever
\* the callback has done.
mbed_decode_ssl_received_bytes ==
    /\ Running("tls", "on_io_recv")
    /\ in_bio # <<>>
    /\ Top.arg = ""
    /\ in_bio' = Tail(in_bio)
    /\ IF secure /\ Expected(Head(in_bio))
         THEN taken' = taken + 1 /\ Goto(<<on_bytes_received("tls", <<Head(in_bio)>>), mbed_io_recv("")>>)
         ELSE Pop /\ UNCHANGED taken
    /\ UNCHANGED <<tls_state, tls_on_close, secure, stored_send>>

mbed_on_io_send ==
    /\ Running("tls", "on_io_send")
    /\ Goto(<<xio_send("tls", stored_send.cb, stored_send.n), Tls("io_sent")>>)
    /\ UNCHANGED <<tls_state, in_bio, tls_on_close, taken, secure, stored_send>>

mbed_io_sent ==
    /\ Running("tls", "io_sent")
    /\ TlsState(IF Top.ret # 0 THEN "ERROR" ELSE tls_state)
    /\ Goto(IF Top.ret # 0 THEN <<on_io_error("tls")>> ELSE <<>>)
    /\ UNCHANGED <<in_bio, tls_on_close, taken, secure, stored_send>>

-----------------------------------------------------------------------------
(* What the socket reports.                                                 *)

mbed_on_underlying_io_bytes_received ==
    /\ Running("tls", "on_bytes_received")
    /\ \/ /\ in_bio' = in_bio \o Top.data
          /\ Pop
          /\ UNCHANGED tls_state
       \/ /\ TlsState("ERROR")                    \* no memory
          /\ Goto(<<on_io_error("tls")>>)
          /\ UNCHANGED in_bio
    /\ UNCHANGED <<tls_on_close, taken, secure, stored_send>>

mbed_on_underlying_io_error ==
    /\ Running("tls", "on_io_error")
    /\ TlsState(IF tls_state = "OPEN" THEN "ERROR" ELSE tls_state)
    /\ Goto(CASE is_an_opening_state -> <<xio_close("tls", "NULL"), Tls("open_failed")>>
              [] tls_state = "OPEN" -> <<on_io_error("tls")>>
              [] OTHER -> <<>>)
    /\ UNCHANGED <<in_bio, tls_on_close, taken, secure, stored_send>>

mbed_on_underlying_io_close_complete ==
    /\ Running("tls", "on_io_close_complete")
    /\ TlsState("NOT_OPEN")
    /\ Goto(IF tls_on_close # "NULL" THEN <<on_io_close_complete("tls")>> ELSE <<>>)
    /\ UNCHANGED <<in_bio, tls_on_close, taken, secure, stored_send>>

-----------------------------------------------------------------------------
(* Closing, sending, and the pump.                                          *)

tlsio_mbedtls_close ==
    /\ Running("tls", "close")
    /\ IF tls_state \in {"NOT_OPEN", "CLOSING"}
         THEN Return(1) /\ UNCHANGED <<tls_state, tls_on_close>>
         ELSE /\ TlsState("CLOSING")
              /\ tls_on_close' = Top.arg
              /\ Goto(<<xio_close("tls", "close_complete")>>)
    /\ UNCHANGED <<in_bio, taken, secure, stored_send>>

\* mbedtls_ssl_close_notify sends, with the callback of the last send, once there are keys
tlsio_mbedtls_destroy ==
    /\ Running("tls", "destroy")
    /\ Goto((IF secure THEN <<mbed_io_send>> ELSE <<>>)
            \o <<xio_close("tls", "NULL"), xio_destroy("tls")>>)
    /\ UNCHANGED <<tls_state, in_bio, tls_on_close, taken, secure, stored_send>>

\* mbedtls_ssl_write sends one record; what does not fit makes the call fail afterwards
tlsio_mbedtls_send ==
    /\ Running("tls", "send")
    /\ IF tls_state # "OPEN"
         THEN Return(1) /\ UNCHANGED stored_send
         ELSE /\ stored_send' = [cb |-> Top.arg, n |-> Top.n]
              /\ \E r \in {0, 1} : Goto(<<mbed_io_send, ReturnFrame("tls", r)>>)
    /\ UNCHANGED <<tls_state, in_bio, tls_on_close, taken, secure>>

tlsio_mbedtls_dowork ==
    /\ Running("tls", "dowork")
    /\ Goto(IF tls_state \in {"NOT_OPEN", "ERROR"} THEN <<>>
            ELSE <<mbed_io_recv(""), xio_dowork("tls")>>)
    /\ UNCHANGED <<tls_state, in_bio, tls_on_close, taken, secure, stored_send>>

-----------------------------------------------------------------------------
MbedNext ==
    /\ \/ tlsio_mbedtls_open \/ mbed_xio_open_returned \/ mbed_on_underlying_io_open_complete
       \/ mbed_ssl_handshake \/ mbed_open_failed
       \/ mbed_on_io_recv_empty \/ mbed_on_io_recv_pumped \/ mbed_on_io_recv_handshake
       \/ mbed_decode_ssl_received_bytes \/ mbed_on_io_send \/ mbed_io_sent
       \/ mbed_on_underlying_io_bytes_received \/ mbed_on_underlying_io_error
       \/ mbed_on_underlying_io_close_complete
       \/ tlsio_mbedtls_close \/ tlsio_mbedtls_destroy \/ tlsio_mbedtls_send
       \/ tlsio_mbedtls_dowork
    /\ mbedUnchanged

=============================================================================
