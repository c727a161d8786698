-------------------------- MODULE MCWsioConnection --------------------------
(***************************************************************************)
(* Small instances of WsioConnection: what the peer sends, in units.       *)
(***************************************************************************)
EXTENDS WsioConnection

Item(op, fin, size, id) ==
    [k \in 1 .. size |-> [op |-> op, fin |-> fin, flaw |-> "none", size |-> size, k |-> k, id |-> id]]

Accepted == Item("101", TRUE, 1, 0)

UnitsOf(scripts) == UNION {{s[i] : i \in DOMAIN s} : s \in scripts}

\* a refusal, binary messages with and without payload before one of text, and a close
WsioScripts ==
    {Item("other_status", TRUE, 1, 0),
     Accepted \o Item("binary", TRUE, 2, 1) \o Item("binary", TRUE, 1, 2) \o Item("text", TRUE, 2, 3)
       \o Item("binary", TRUE, 2, 4),
     Accepted \o Item("close", TRUE, 1, 1)}
WsioUnits == UnitsOf(WsioScripts)

SocketOnly == <<"socket", "uws">>

=============================================================================
