------------------------- MODULE MCProxyConnection -------------------------
(***************************************************************************)
(* Small instances of ProxyConnection: the answers of a proxy, and what    *)
(* comes through the tunnel.                                               *)
(***************************************************************************)
EXTENDS ProxyConnection

Item(op, size, id) ==
    [k \in 1 .. size |-> [op |-> op, fin |-> TRUE, flaw |-> "none", size |-> size, k |-> k, id |-> id]]

UnitsOf(scripts) == UNION {{s[i] : i \in DOMAIN s} : s \in scripts}

\* granted, with data behind it, refused, and not an HTTP response at all
ProxyScripts ==
    {Item("200", 2, 0) \o Item("binary", 2, 1), Item("other_status", 2, 0), Item("malformed", 1, 0)}
ProxyUnits == UnitsOf(ProxyScripts)

ThroughProxy == <<"socket", "proxy", "uws">>

=============================================================================
