----------------------------- MODULE WolfSslIo -----------------------------
(***************************************************************************)
(* adapters/tlsio_wolfssl.c.  wolfSSL_connect runs the whole handshake     *)
(* inside on_underlying_io_open_complete and calls on_handshake_done       *)
(* before it returns; tlsio_wolfssl_open fails unless the connection is    *)
(* open by then.                                                           *)
(***************************************************************************)
EXTENDS TlsShared

wolf_connect == TlsArg("wolfSSL_connect", "cb")
wolf_io_recv(caller) == TlsArg("on_io_recv", caller)
wolf_io_send == TlsArg("on_io_send", "")

wolfUnchanged == UNCHANGED <<tls_faults, needed_bytes, pending_sends>>

\* the wolfSSL instance is made here and nowhere else
tlsio_wolfssl_create ==
    /\ tls_state = "NOT_OPEN"
    /\ in_bio = <<>> /\ tls_on_close = "NULL" /\ tls_faults = {}
    /\ ssl = TRUE

-----------------------------------------------------------------------------
(* Opening.                                                                 *)

\* The host name, the trusted certificates or the client's certificate are refused; the
\* last also frees the wolfSSL instance, which is made only by tlsio_wolfssl_create.
prepare_wolfssl_open_failed ==
    /\ ssl' \in {ssl, FALSE}
    /\ Return(1)
    /\ UNCHANGED tls_state

tlsio_wolfssl_open ==
    /\ Running("tls", "open")
    /\ \/ tls_state # "NOT_OPEN" /\ Return(1) /\ UNCHANGED <<tls_state, ssl>>
       \/ tls_state = "NOT_OPEN" /\ prepare_wolfssl_open_failed
       \/ /\ tls_state = "NOT_OPEN" /\ ssl
          /\ TlsState("OPENING_UNDERLYING_IO")
          /\ Goto(<<xio_open("tls"), Tls("xio_open_returned")>>)
          /\ UNCHANGED ssl
    /\ UNCHANGED <<in_bio, tls_on_close, taken, secure, stored_send>>

wolf_xio_open_returned ==
    /\ Running("tls", "xio_open_returned")
    /\ TlsState(IF Top.ret # 0 THEN "NOT_OPEN" ELSE tls_state)
    /\ Return(IF Top.ret = 0 /\ tls_state = "OPEN" THEN 0 ELSE 1)
    /\ UNCHANGED <<ssl, in_bio, tls_on_close, taken, secure, stored_send>>

wolf_on_underlying_io_open_complete ==
    /\ Running("tls", "on_io_open_complete")
    /\ IF Top.arg = "OK"
         THEN TlsState("IN_HANDSHAKE") /\ Goto(<<Tls("wolfSSL_connect")>>)
         ELSE TlsState("ERROR") /\ Goto(<<on_io_open_complete("tls", "ERROR")>>)
    /\ UNCHANGED <<ssl, in_bio, tls_on_close, taken, secure, stored_send>>

\* slip: the open is reported before the handshake is over
wolf_on_handshake_done_early ==
    /\ Running("tls", "wolfSSL_connect")
    /\ tls_state = "IN_HANDSHAKE"
    /\ TlsState("OPEN")
    /\ Goto(<<on_io_open_complete("tls", "OK")>>)
    /\ UNCHANGED <<ssl, in_bio, tls_on_close, taken, secure, stored_send>>

\* on_handshake_done, called by wolfSSL_connect, which then succeeds
wolf_on_handshake_done ==
    /\ Running("tls", "wolfSSL_connect")
    /\ secure
    /\ TlsState(IF tls_state = "IN_HANDSHAKE" THEN "OPEN" ELSE tls_state)
    /\ Goto(IF tls_state = "IN_HANDSHAKE" THEN <<on_io_open_complete("tls", "OK")>> ELSE <<>>)
    /\ UNCHANGED <<ssl, in_bio, tls_on_close, taken, secure, stored_send>>

wolf_connect_step ==
    /\ Running("tls", "wolfSSL_connect")
    /\ ~secure /\ Top.ret = 0
    /\ Goto(<<IF Top.arg = "" THEN wolf_io_send ELSE wolf_io_recv("cb"), wolf_connect>>)
    /\ UNCHANGED <<tls_state, ssl, in_bio, tls_on_close, taken, secure, stored_send>>

\* The failure is reported in a state that is not yet ERROR.
wolf_connect_failed ==
    /\ \/ /\ Running("tls", "wolfSSL_connect")
          /\ ~secure
          /\ Goto(<<on_io_open_complete("tls", "ERROR"), Tls("connect_failed")>>)
          /\ UNCHANGED tls_state
       \/ /\ Running("tls", "connect_failed")
          /\ TlsState("ERROR")
          /\ Pop
    /\ UNCHANGED <<ssl, in_bio, tls_on_close, taken, secure, stored_send>>

-----------------------------------------------------------------------------
(* The functions that wolfSSL calls.                                        *)

wolf_on_io_recv_empty ==
    /\ Running("tls", "on_io_recv")
    /\ in_bio = <<>>
    /\ Goto(<<xio_dowork("tls"), TlsArg("recv_pumped", Top.arg)>>)
    /\ UNCHANGED <<tls_state, ssl, in_bio, tls_on_close, taken, secure, stored_send>>

\* slip: the state is not looked at, so that an error leaves the loop waiting
wolf_on_io_recv_pumped_forever ==
    /\ Running("tls", "recv_pumped")
    /\ IF tls_state = "OPEN" /\ in_bio = <<>> THEN Return(1) ELSE Goto(<<wolf_io_recv(Top.arg)>>)
    /\ UNCHANGED <<tls_state, ssl, in_bio, tls_on_close, taken, secure, stored_send>>

\* The pumping ends with the handshake; then no bytes are an error for wolfSSL, or
\* the end of its read.
wolf_on_io_recv_pumped ==
    /\ Running("tls", "recv_pumped")
    /\ IF tls_state # "IN_HANDSHAKE" /\ in_bio = <<>> THEN Return(1) ELSE Goto(<<wolf_io_recv(Top.arg)>>)
    /\ UNCHANGED <<tls_state, ssl, in_bio, tls_on_close, taken, secure, stored_send>>

wolf_on_io_recv_handshake ==
    /\ Running("tls", "on_io_recv")
    /\ in_bio # <<>>
    /\ Top.arg = "cb"
    /\ IF ExpectedHandshake(Head(in_bio))
         THEN Take(Head(in_bio)) /\ Return(0)
         ELSE Return(1) /\ UNCHANGED <<taken, secure>>
    /\ in_bio' = Tail(in_bio)
    /\ UNCHANGED <<tls_state, ssl, tls_on_close, stored_send>>

wolf_decode_ssl_received_bytes ==
    /\ Running("tls", "on_io_recv")
    /\ in_bio # <<>>
    /\ Top.arg = ""
    /\ in_bio' = Tail(in_bio)
    /\ IF secure /\ Expected(Head(in_bio))
         THEN taken' = taken + 1 /\ Goto(<<on_bytes_received("tls", <<Head(in_bio)>>), wolf_io_recv("")>>)
         ELSE Pop /\ UNCHANGED taken
    /\ UNCHANGED <<tls_state, ssl, tls_on_close, secure, stored_send>>

wolf_on_io_send ==
    /\ Running("tls", "on_io_send")
    /\ Goto(<<xio_send("tls", stored_send.cb, stored_send.n), Tls("io_sent")>>)
    /\ UNCHANGED <<tls_state, ssl, in_bio, tls_on_close, taken, secure, stored_send>>

\* 0 bytes sent are an error for wolfSSL
wolf_io_sent ==
    /\ Running("tls", "io_sent")
    /\ TlsState(IF Top.ret # 0 THEN "ERROR" ELSE tls_state)
    /\ IF Top.ret # 0 THEN Goto(<<on_io_error("tls"), ReturnFrame("tls", 1)>>) ELSE Return(0)
    /\ UNCHANGED <<ssl, in_bio, tls_on_close, taken, secure, stored_send>>

-----------------------------------------------------------------------------
(* What the socket reports.                                                 *)

wolf_on_underlying_io_bytes_received ==
    /\ Running("tls", "on_bytes_received")
    /\ \/ /\ in_bio' = in_bio \o Top.data
          /\ Pop
          /\ UNCHANGED tls_state
       \/ /\ TlsState("ERROR")                    \* no memory
          /\ Goto(<<on_io_error("tls")>>)
          /\ UNCHANGED in_bio
    /\ UNCHANGED <<ssl, tls_on_close, taken, secure, stored_send>>

wolf_on_underlying_io_error ==
    /\ Running("tls", "on_io_error")
    /\ TlsState(IF is_an_opening_state \/ tls_state = "OPEN" THEN "ERROR" ELSE tls_state)
    /\ Goto(CASE is_an_opening_state -> <<on_io_open_complete("tls", "ERROR")>>
              [] tls_state = "OPEN" -> <<on_io_error("tls")>>
              [] OTHER -> <<>>)
    /\ UNCHANGED <<ssl, in_bio, tls_on_close, taken, secure, stored_send>>

\* The state changes only after the callback has returned.
wolf_on_underlying_io_close_complete ==
    /\ \/ /\ Running("tls", "on_io_close_complete")
          /\ Goto(CASE tls_state # "CLOSING" -> <<>>
                    [] tls_on_close # "NULL" -> <<on_io_close_complete("tls"), Tls("closed")>>
                    [] OTHER -> <<Tls("closed")>>)
          /\ UNCHANGED tls_state
       \/ /\ Running("tls", "closed")
          /\ TlsState("NOT_OPEN")
          /\ Pop
    /\ UNCHANGED <<ssl, in_bio, tls_on_close, taken, secure, stored_send>>

-----------------------------------------------------------------------------
(* Closing, sending, and the pump.                                          *)

tlsio_wolfssl_close ==
    /\ Running("tls", "close")
    /\ IF tls_state \in {"NOT_OPEN", "CLOSING"}
         THEN Return(1) /\ UNCHANGED <<tls_state, tls_on_close>>
         ELSE /\ TlsState("CLOSING")
              /\ tls_on_close' = Top.arg
              /\ Goto(<<xio_close("tls", "close_complete")>>)
    /\ UNCHANGED <<ssl, in_bio, taken, secure, stored_send>>

tlsio_wolfssl_destroy ==
    /\ Running("tls", "destroy")
    /\ in_bio' = <<>>
    /\ ssl' = FALSE
    /\ Goto(<<xio_destroy("tls")>>)
    /\ UNCHANGED <<tls_state, tls_on_close, taken, secure, stored_send>>

\* wolfSSL_write fails when on_io_send did; large messages are several records
tlsio_wolfssl_send ==
    /\ Running("tls", "send")
    /\ IF tls_state # "OPEN"
         THEN Return(1) /\ UNCHANGED stored_send
         ELSE /\ stored_send' = [cb |-> Top.arg, n |-> Top.n]
              /\ Goto(<<wolf_io_send>>)
    /\ UNCHANGED <<tls_state, ssl, in_bio, tls_on_close, taken, secure>>

tlsio_wolfssl_dowork ==
    /\ Running("tls", "dowork")
    /\ Goto(IF tls_state \in {"NOT_OPEN", "ERROR"} THEN <<>>
            ELSE <<wolf_io_recv(""), xio_dowork("tls")>>)
    /\ UNCHANGED <<tls_state, ssl, in_bio, tls_on_close, taken, secure, stored_send>>

-----------------------------------------------------------------------------
WolfNext ==
    /\ \/ tlsio_wolfssl_open \/ wolf_xio_open_returned \/ wolf_on_underlying_io_open_complete
       \/ wolf_on_handshake_done \/ wolf_connect_step \/ wolf_connect_failed
       \/ wolf_on_io_recv_empty \/ wolf_on_io_recv_pumped \/ wolf_on_io_recv_handshake
       \/ wolf_decode_ssl_received_bytes \/ wolf_on_io_send \/ wolf_io_sent
       \/ wolf_on_underlying_io_bytes_received \/ wolf_on_underlying_io_error
       \/ wolf_on_underlying_io_close_complete
       \/ tlsio_wolfssl_close \/ tlsio_wolfssl_destroy \/ tlsio_wolfssl_send
       \/ tlsio_wolfssl_dowork
    /\ wolfUnchanged

=============================================================================
