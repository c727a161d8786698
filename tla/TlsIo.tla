------------------------------- MODULE TlsIo -------------------------------
(***************************************************************************)
(* The TLS layer, adapters/tlsio_openssl.c, between the socket and the     *)
(* WebSocket client.  OpenSSL itself is external: of a handshake it is     *)
(* known only that it needs all the handshake units of the peer and may    *)
(* fail at any time, of the decrypted bytes that they come out in order,   *)
(* at most 64 at a time, which is to say in any pieces.                    *)
(***************************************************************************)
EXTENDS Xio

VARIABLES
    tls_state,      \* tlsio_state
    ssl,            \* ssl # NULL; the BIOs live and die with it
    in_bio,         \* received and not yet read by OpenSSL
    tls_on_close,   \* on_io_close_complete
    tls_faults      \* what undefined behaviour has been met, if any

tlsVars == <<tls_state, ssl, in_bio, tls_on_close, tls_faults>>

TlsStates == {"NOT_OPEN", "OPENING_UNDERLYING_IO", "IN_HANDSHAKE", "HANDSHAKE_FAILED",
              "OPEN", "CLOSING", "ERROR"}

is_an_opening_state == tls_state \in {"OPENING_UNDERLYING_IO", "IN_HANDSHAKE"}

TlsFunctions == {"xio_open_returned", "send_handshake_bytes", "handshake_bytes_sent",
                 "decode_ssl_received_bytes", "close_rest", "xio_close_returned",
                 "force_closed", "close_openssl_instance", "dowork_pumped"}

TlsTypeOK ==
    /\ tls_state \in TlsStates
    /\ ssl \in BOOLEAN
    /\ in_bio \in Seq(Unit)
    /\ tls_on_close \in XioArguments
    /\ tls_faults \subseteq {"freed BIO used"}

TlsInit ==
    /\ tls_state = "NOT_OPEN"
    /\ ssl = FALSE
    /\ in_bio = <<>>
    /\ tls_on_close = "NULL"
    /\ tls_faults = {}

Tls(f) == MkFrame("tls", f, "", 0, <<>>)
TlsState(s) == tls_state' = s

-----------------------------------------------------------------------------
(* Opening.                                                                 *)

\* Creating the OpenSSL instance may fail, early or late; then nobody is called back.
tlsio_openssl_open ==
    /\ Running("tls", "open")
    /\ \/ tls_state # "NOT_OPEN" /\ Return(1) /\ UNCHANGED <<tls_state, ssl, in_bio>>
       \/ /\ tls_state = "NOT_OPEN"
          /\ ssl' \in {ssl, FALSE}
          /\ Return(1)
          /\ UNCHANGED <<tls_state, in_bio>>
       \/ /\ tls_state = "NOT_OPEN"
          /\ TlsState("OPENING_UNDERLYING_IO")
          /\ ssl' = TRUE
          /\ in_bio' = <<>>
          /\ Goto(<<xio_open("tls"), Tls("xio_open_returned")>>)
    /\ UNCHANGED <<tls_on_close, tls_faults>>

tls_xio_open_returned ==
    /\ Running("tls", "xio_open_returned")
    /\ TlsState(IF Top.ret = 0 THEN tls_state ELSE "NOT_OPEN")
    /\ ssl' = (ssl /\ Top.ret = 0)
    /\ Return(Top.ret)
    /\ UNCHANGED <<in_bio, tls_on_close, tls_faults>>

tls_on_underlying_io_open_complete ==
    /\ Running("tls", "on_io_open_complete")
    /\ IF tls_state = "OPENING_UNDERLYING_IO" /\ Top.arg = "OK"
         THEN TlsState("IN_HANDSHAKE") /\ Goto(<<Tls("send_handshake_bytes")>>)
         ELSE TlsState("NOT_OPEN") /\ Goto(<<on_io_open_complete("tls", "ERROR")>>)
    /\ UNCHANGED <<ssl, in_bio, tls_on_close, tls_faults>>

\* the peer's part of the handshake is all there
HandshakeReceived ==
    /\ in_bio # <<>>
    /\ Head(in_bio).op = "handshake"
    /\ Len(in_bio) >= Head(in_bio).size

send_handshake_bytes ==
    /\ Running("tls", "send_handshake_bytes")
    /\ \/ /\ TlsState("HANDSHAKE_FAILED")         \* OpenSSL or malloc failed
          /\ Pop
          /\ UNCHANGED in_bio
       \/ /\ ~HandshakeReceived                   \* SSL_ERROR_WANT_READ
          /\ \/ Goto(<<xio_send("tls", "NULL", 0), Tls("handshake_bytes_sent")>>)
             \/ Pop                               \* and nothing to write
          /\ UNCHANGED <<tls_state, in_bio>>
       \/ /\ HandshakeReceived
          /\ in_bio' = SubSeq(in_bio, Head(in_bio).size + 1, Len(in_bio))
          /\ TlsState("OPEN")
          /\ Goto(<<on_io_open_complete("tls", "OK")>>)
    /\ UNCHANGED <<ssl, tls_on_close, tls_faults>>

handshake_bytes_sent ==
    /\ Running("tls", "handshake_bytes_sent")
    /\ TlsState(IF Top.ret = 0 THEN tls_state ELSE "HANDSHAKE_FAILED")
    /\ Pop
    /\ UNCHANGED <<ssl, in_bio, tls_on_close, tls_faults>>

-----------------------------------------------------------------------------
(* Receiving.                                                               *)

tls_on_underlying_io_bytes_received ==
    /\ Running("tls", "on_bytes_received")
    /\ tls_faults' = IF ssl THEN tls_faults ELSE {"freed BIO used"}
    /\ \/ /\ TlsState("ERROR")                    \* BIO_write has no memory
          /\ Goto(<<on_io_error("tls")>>)
          /\ UNCHANGED in_bio
       \/ /\ in_bio' = in_bio \o Top.data
          /\ Goto(CASE tls_state = "IN_HANDSHAKE" -> <<Tls("send_handshake_bytes")>>
                    [] tls_state = "OPEN" -> <<Tls("decode_ssl_received_bytes")>>
                    [] OTHER -> <<>>)
          /\ UNCHANGED tls_state
    /\ UNCHANGED <<ssl, tls_on_close>>

\* One round of the loop; the state is looked at again after each callback.
decode_ssl_received_bytes ==
    /\ Running("tls", "decode_ssl_received_bytes")
    /\ \/ /\ tls_state # "OPEN" \/ ssl            \* closed, no whole record, or an error
          /\ Pop
          /\ UNCHANGED <<tls_state, in_bio>>
       \/ /\ tls_state = "OPEN" /\ ~ssl
          /\ TlsState("ERROR")
          /\ Goto(<<on_io_error("tls")>>)
          /\ UNCHANGED in_bio
       \/ /\ tls_state = "OPEN" /\ ssl
          /\ \E k \in 1 .. Len(in_bio) :
               /\ in_bio' = SubSeq(in_bio, k + 1, Len(in_bio))
               /\ Goto(<<on_bytes_received("tls", SubSeq(in_bio, 1, k)),
                         Tls("decode_ssl_received_bytes")>>)
          /\ UNCHANGED tls_state
    /\ UNCHANGED <<ssl, tls_on_close, tls_faults>>

\* slip: OpenSSL is freed while the socket can still deliver
tls_on_underlying_io_error_freeing ==
    /\ Running("tls", "on_io_error")
    /\ ssl' = FALSE
    /\ Goto(IF tls_state = "OPEN" THEN <<on_io_error("tls")>> ELSE <<>>)
    /\ UNCHANGED <<tls_state, in_bio, tls_on_close, tls_faults>>

\* Neither branch closes the underlying io.
tls_on_underlying_io_error ==
    /\ Running("tls", "on_io_error")
    /\ TlsState(IF is_an_opening_state THEN "NOT_OPEN" ELSE tls_state)
    /\ Goto(CASE is_an_opening_state -> <<on_io_open_complete("tls", "ERROR")>>
              [] tls_state = "OPEN" -> <<on_io_error("tls")>>
              [] OTHER -> <<>>)
    /\ UNCHANGED <<ssl, in_bio, tls_on_close, tls_faults>>

-----------------------------------------------------------------------------
(* Closing.                                                                 *)

close_rest(cb) == MkFrame("tls", "close_rest", cb, 0, <<>>)

\* The open is cancelled first, in a state that is still an opening one.
tlsio_openssl_close ==
    /\ Running("tls", "close")
    /\ Goto((IF is_an_opening_state THEN <<on_io_open_complete("tls", "CANCELLED")>> ELSE <<>>)
            \o <<close_rest(Top.arg)>>)
    /\ UNCHANGED tlsVars

\* Only an open connection reports that it was closed.
tls_close_rest ==
    /\ Running("tls", "close_rest")
    /\ IF tls_state = "OPEN"
         THEN /\ TlsState("CLOSING")
              /\ tls_on_close' = Top.arg
              /\ Goto(<<xio_close("tls", "close_complete"), Tls("xio_close_returned")>>)
         ELSE /\ Goto(<<xio_close("tls", "NULL"), Tls("force_closed")>>)
              /\ UNCHANGED <<tls_state, tls_on_close>>
    /\ UNCHANGED <<ssl, in_bio, tls_faults>>

tls_xio_close_returned ==
    /\ Running("tls", "xio_close_returned")
    /\ TlsState(IF Top.ret = 0 THEN tls_state ELSE "NOT_OPEN")
    /\ ssl' = (ssl /\ Top.ret = 0)
    /\ Return(0)
    /\ UNCHANGED <<in_bio, tls_on_close, tls_faults>>

tls_force_closed ==
    /\ Running("tls", "force_closed")
    /\ TlsState("NOT_OPEN")
    /\ ssl' = FALSE
    /\ Return(0)
    /\ UNCHANGED <<in_bio, tls_on_close, tls_faults>>

tls_on_underlying_io_close_complete ==
    /\ Running("tls", "on_io_close_complete")
    /\ TlsState(IF tls_state \in {"OPENING_UNDERLYING_IO", "CLOSING"} THEN "NOT_OPEN" ELSE tls_state)
    /\ Goto((CASE tls_state = "OPENING_UNDERLYING_IO" -> <<on_io_open_complete("tls", "ERROR")>>
               [] tls_state = "CLOSING" /\ tls_on_close # "NULL" -> <<on_io_close_complete("tls")>>
               [] OTHER -> <<>>)
            \o <<Tls("close_openssl_instance")>>)
    /\ UNCHANGED <<ssl, in_bio, tls_on_close, tls_faults>>

close_openssl_instance ==
    /\ Running("tls", "close_openssl_instance")
    /\ ssl' = FALSE
    /\ Pop
    /\ UNCHANGED <<tls_state, in_bio, tls_on_close, tls_faults>>

tlsio_openssl_destroy ==
    /\ Running("tls", "destroy")
    /\ ssl' = FALSE
    /\ Goto(<<xio_destroy("tls")>>)
    /\ UNCHANGED <<tls_state, in_bio, tls_on_close, tls_faults>>

-----------------------------------------------------------------------------
(* Sending, and the pump.                                                   *)

\* SSL_write and write_outgoing_bytes, whose result is that of xio_send
tlsio_openssl_send ==
    /\ Running("tls", "send")
    /\ \/ Return(1)                               \* not open, or OpenSSL failed
       \/ tls_state = "OPEN" /\ ssl /\ Goto(<<xio_send("tls", Top.arg, Top.n)>>)
    /\ UNCHANGED tlsVars

\* out_bio may hold bytes that OpenSSL wants sent
tlsio_openssl_dowork ==
    /\ Running("tls", "dowork")
    /\ \/ tls_state = "NOT_OPEN" /\ Pop
       \/ /\ tls_state # "NOT_OPEN"
          /\ Goto(<<xio_dowork("tls"), Tls("dowork_pumped")>>)
       \/ /\ is_an_opening_state \/ tls_state = "OPEN"
          /\ Goto(<<xio_send("tls", "NULL", 0), xio_dowork("tls"), Tls("dowork_pumped")>>)
    /\ UNCHANGED tlsVars

\* a failed handshake is cleaned up outside the socket's receive loop
tls_dowork_pumped ==
    /\ Running("tls", "dowork_pumped")
    /\ IF tls_state = "HANDSHAKE_FAILED"
         THEN /\ TlsState("ERROR")
              /\ Goto(<<MkFrame("tls", "close", "NULL", 0, <<>>), on_io_open_complete("tls", "ERROR")>>)
         ELSE Pop /\ UNCHANGED tls_state
    /\ UNCHANGED <<ssl, in_bio, tls_on_close, tls_faults>>

-----------------------------------------------------------------------------
TlsNext ==
    \/ tlsio_openssl_open \/ tls_xio_open_returned \/ tls_on_underlying_io_open_complete
    \/ send_handshake_bytes \/ handshake_bytes_sent
    \/ tls_on_underlying_io_bytes_received \/ decode_ssl_received_bytes
    \/ tls_on_underlying_io_error
    \/ tlsio_openssl_close \/ tls_close_rest \/ tls_xio_close_returned \/ tls_force_closed
    \/ tls_on_underlying_io_close_complete \/ close_openssl_instance
    \/ tlsio_openssl_destroy \/ tlsio_openssl_send
    \/ tlsio_openssl_dowork \/ tls_dowork_pumped

=============================================================================
