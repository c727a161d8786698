--------------------------- MODULE ProxyConnection ---------------------------
(***************************************************************************)
(* A client of the HTTP proxy layer over a socket.                         *)
(***************************************************************************)
EXTENDS SocketIo, HttpProxyIo, IoClient

CONSTANT
    Reuse            \* whether an instance that a proxy has answered is opened again

ASSUME ReuseAssumption == Reuse \in BOOLEAN

vars == <<stack, sockVars, proxyVars, clientVars>>

Init == stack = <<>> /\ SockInit /\ ProxyInit /\ ClientInit

Step ==
    \/ SockNext /\ UNCHANGED <<proxyVars, clientVars>>
    \/ ProxyNext /\ UNCHANGED <<sockVars, clientVars>>
    \/ ClientSteps /\ UNCHANGED <<sockVars, proxyVars>>
    \/ ReturnStep /\ UNCHANGED <<sockVars, proxyVars, clientVars>>

Next ==
    \/ /\ ClientCalls
       /\ opens' = opens \/ receive_buffer = <<>> \/ Reuse
       /\ UNCHANGED <<sockVars, proxyVars>>
    \/ Step
    \/ ~alive /\ stack = <<>> /\ UNCHANGED vars

\* A thread that has entered the library keeps running until the call returns, and the
\* client keeps pumping.
Spec == Init /\ [][Next]_vars /\ WF_vars(Step)

-----------------------------------------------------------------------------
(* Properties.                                                              *)

Contract == INSTANCE IoContract

\* The proxy layer keeps the contract of an IO layer: an open is answered once,
\* whichever of the response, an error, a close or a failure comes first, and bytes
\* come only while the session is open.
KeepsContract == Contract!Spec

\* The peer's answer is what its stream begins with.
ResponseSize == IF script = <<>> THEN 0 ELSE Head(script).size

\* The tunnel is open only when this connection's proxy has answered with a complete
\* response of success, and the bytes handed up are those that follow the response,
\* in order, whatever the pieces in which the response came.
OpenedByResponse ==
    /\ phase = "open" => script # <<>> /\ Head(script).op = "200" /\ ResponseSize <= received
    /\ delivered # <<>> => ResponseSize + Len(delivered) <= received
    /\ \A i \in DOMAIN delivered : delivered[i] = script[ResponseSize + i]

\* A close that was accepted, other than one that cuts an open short, is answered once,
\* and no close leaves the layer waiting.  A closed proxy layer holds no connection, and its
\* client knows that it is closed.  (The socket may still be in ERROR: requests that an
\* earlier session left in its queue fail after the close.)
ProxyEndsAnswered ==
    /\ \A i \in 1 .. MaxCloses : closeReports[i] <= 1
    /\ stack = <<>> /\ alive => /\ \A i \in asked : closeReports[i] = 1
                                /\ proxy_state # "CLOSING"
                                /\ proxy_state = "CLOSED" => ~connected /\ phase = "closed"

=============================================================================
