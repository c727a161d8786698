----------------------------- MODULE TlsShared -----------------------------
(***************************************************************************)
(* What the TLS adapters have in common.  Each keeps an instance like that *)
(* of tlsio_openssl.c, whose variables they share: tls_state, ssl (the     *)
(* library's handle), in_bio (the bytes received and not yet taken by the  *)
(* library: socket_io_read_bytes, received_bytes), and tls_on_close.       *)
(*                                                                         *)
(* The TLS libraries are external.  A library takes the peer's units one   *)
(* after the other and refuses any other one, because the records are      *)
(* numbered and authenticated; the keys are there with the last unit of    *)
(* the handshake.                                                          *)
(***************************************************************************)
EXTENDS TlsIo, SocketIo

VARIABLES
    adapter,         \* which of the adapters this connection is built with
    taken,           \* how many of the peer's units the library has taken
    secure,          \* the library holds the keys of a finished handshake
    stored_send,     \* on_send_complete and its context, as the last send left them
    needed_bytes,    \* how many more bytes schannel waits for
    pending_sends    \* the sends an adapter keeps itself

sharedVars == <<taken, secure, stored_send, needed_bytes, pending_sends>>
tlsAllVars == <<tlsVars, sharedVars>>

Adapters == {"openssl", "mbedtls", "wolfssl", "schannel", "appleios"}
SendType == [cb: SendCallbacks, n: Nat]

SharedTypeOK ==
    /\ adapter \in Adapters
    /\ taken \in Nat
    /\ secure \in BOOLEAN
    /\ stored_send \in SendType
    /\ needed_bytes \in Nat
    /\ pending_sends \in Seq(SendType)

SharedInit ==
    /\ taken = 0
    /\ secure = FALSE
    /\ stored_send = [cb |-> "NULL", n |-> 0]
    /\ needed_bytes = 0
    /\ pending_sends = <<>>

\* the library is given what it waits for
Expected(u) == taken < Len(script) /\ u = script[taken + 1]
ExpectedHandshake(u) == Expected(u) /\ u.op = "handshake"

\* The library takes one unit of the handshake, and has the keys with the last one.
Take(u) == taken' = taken + 1 /\ secure' = (secure \/ u.k = u.size)

TlsArg(f, a) == MkFrame("tls", f, a, 0, <<>>)

=============================================================================
