--------------------------- MODULE MCTlsAdapters ---------------------------
(***************************************************************************)
(* Small instances of TlsAdapters.                                         *)
(***************************************************************************)
EXTENDS TlsAdapters

Item(op, size, id) ==
    [k \in 1 .. size |-> [op |-> op, fin |-> TRUE, flaw |-> "none", size |-> size, k |-> k, id |-> id]]

UnitsOf(scripts) == UNION {{s[i] : i \in DOMAIN s} : s \in scripts}

\* a record in two pieces and one more; a peer that asks for a renegotiation
AdapterScripts ==
    {Item("handshake", 2, 0) \o Item("binary", 2, 1) \o Item("binary", 1, 2),
     Item("handshake", 1, 0) \o Item("binary", 1, 1) \o Item("handshake", 1, 2)
     \o Item("handshake", 2, 3) \o Item("binary", 1, 4)}
AdapterUnits == UnitsOf(AdapterScripts)

OverTls == <<"socket", "tls", "uws">>

AllAdapters == Adapters
Anywhere == {"on_bytes_received", "on_io_error", "on_io_close_complete",
             "on_underlying_io_send_complete"}
Safe == [a \in Adapters |->
    CASE a = "openssl" -> Anywhere
      [] a = "mbedtls" -> {"on_underlying_io_send_complete"}
      [] a = "wolfssl" -> {"on_underlying_io_send_complete"}
      [] a = "schannel" -> {"on_bytes_received", "on_io_error", "on_underlying_io_send_complete"}
      [] a = "appleios" -> {"on_bytes_received", "on_io_close_complete"}]

=============================================================================
