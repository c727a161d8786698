--------------------------- MODULE MCWsConnection ---------------------------
(***************************************************************************)
(* Small instances of WsConnection: what the peer sends, in units.         *)
(***************************************************************************)
EXTENDS WsConnection

\* size units of a response or frame
Item(op, fin, flaw, size, id) ==
    [k \in 1 .. size |-> [op |-> op, fin |-> fin, flaw |-> flaw, size |-> size, k |-> k, id |-> id]]

Accepted == Item("101", TRUE, "none", 2, 0)
Refused == Item("other_status", TRUE, "none", 1, 0)
Malformed == Item("malformed", TRUE, "none", 1, 0)

Text(size, id) == Item("text", TRUE, "none", size, id)
Binary(size, id) == Item("binary", TRUE, "none", size, id)
FirstText(id) == Item("text", FALSE, "none", 1, id)
FirstBinary(id) == Item("binary", FALSE, "none", 1, id)
Continued(id) == Item("continuation", FALSE, "none", 1, id)
Last(size, id) == Item("continuation", TRUE, "none", size, id)
Close(id) == Item("close", TRUE, "none", 1, id)
Ping(id) == Item("ping", TRUE, "none", 1, id)

UnitsOf(scripts) == UNION {{s[i] : i \in DOMAIN s} : s \in scripts}

\* one refused, one malformed, one with messages, one closed by the peer
TalkScripts ==
    {Refused, Malformed,
     Accepted \o FirstText(1) \o Continued(2) \o Last(2, 3) \o Binary(1, 4),
     Accepted \o Text(2, 1) \o Close(2)}
TalkUnits == UnitsOf(TalkScripts)

\* control frames between fragments, and every frame the client must reject
ControlScripts ==
    {Accepted \o FirstText(1) \o Ping(2) \o Item("pong", TRUE, "none", 1, 3) \o Last(1, 4),
     Accepted \o Item("ping", FALSE, "none", 1, 1) \o Text(1, 2),
     Accepted \o Item("reserved", TRUE, "none", 1, 1) \o Item("close", FALSE, "none", 1, 2),
     Accepted \o Item("close", TRUE, "utf8", 2, 1) \o Text(1, 2),
     Accepted \o Item("binary", TRUE, "length", 1, 1) \o Text(1, 2),
     Accepted \o Last(1, 1) \o Text(1, 2),
     Accepted \o FirstBinary(1) \o FirstText(2) \o Last(1, 3),
     Accepted \o Text(1, 1) \o Item("text", TRUE, "masked", 1, 2)}
ControlUnits == UnitsOf(ControlScripts)

SocketOnly == <<"socket", "uws">>

\* the peer's messages and control frames, and the peer's mistakes
FrameScripts == TalkScripts \cup ControlScripts
FrameUnits == UnitsOf(FrameScripts)

\* enough to call back at every point of a session
NestedScripts == {Refused, Accepted \o FirstText(1) \o Last(2, 2) \o Close(3)}
NestedUnits == UnitsOf(NestedScripts)

\* the same over TLS
Handshake == Item("handshake", TRUE, "none", 2, 0)
TlsScripts ==
    {Handshake \o Accepted \o Binary(1, 1) \o FirstText(2) \o Last(1, 3),
     Handshake \o Accepted \o Close(1)}
TlsUnits == UnitsOf(TlsScripts)

\* sessions that end in the middle of a message leave something to be forgotten
ReopenScripts ==
    LET hello == Item("handshake", TRUE, "none", 1, 0) \o Item("101", TRUE, "none", 1, 0)
    IN  {hello \o FirstText(1) \o Last(1, 2), hello \o Close(3)}
ReopenUnits == UnitsOf(ReopenScripts)

OverTls == <<"socket", "tls", "uws">>

=============================================================================
