--------------------------- MODULE WsioConnection ---------------------------
(***************************************************************************)
(* An application that sends and receives bytes through a WebSocket IO:    *)
(* wsio over the WebSocket client over the layers beneath, on one call     *)
(* stack.  The application notes what its callbacks tell it.               *)
(***************************************************************************)
EXTENDS SocketIo, TlsIo, UwsClient, Wsio

CONSTANTS
    MaxOpens,        \* bound: calls of wsio_open
    MaxCloses,       \* bound: calls of wsio_close
    MaxSends,        \* bound: calls of wsio_send
    MaxDepth,        \* bound: depth of the stack at which callbacks still make calls
    Calls,           \* the calls the application makes from outside a callback
    ReentrantCalls   \* the call that a callback of the application may make

WsioCalls == {"open", "close", "close_null", "send", "send_null", "dowork", "destroy"}

ASSUME BoundsAssumption ==
    /\ MaxOpens \in Nat /\ MaxCloses \in Nat /\ MaxSends \in Nat /\ MaxDepth \in Nat
    /\ Calls \subseteq WsioCalls
    /\ ReentrantCalls \subseteq {"open", "close", "send"}

VARIABLES
    opens, closes, sends,   \* how many calls were made
    closeReports,           \* how often on_io_close_complete was called, per close
    asked,                  \* the closes that were accepted, with a callback to call
    aborted,                \* some close was accepted before its open was answered
    refused,                \* the sends for which a failure was returned
    unreported,             \* the sends that passed no callback
    completions,            \* how often on_send_complete was called, per send
    phase,                  \* where the session stands, by what the application was told
    bytes,                  \* what on_bytes_received was given since the last open
    alive                   \* wsio_destroy has not been called

appVars == <<opens, closes, sends, closeReports, asked, aborted,
             refused, unreported, completions, phase, bytes, alive>>

vars == <<stack, sockVars, tlsVars, uwsVars, wsioVars, appVars>>

Init ==
    /\ stack = <<>>
    /\ SockInit /\ TlsInit /\ UwsInit /\ WsioInit
    /\ opens = 0 /\ closes = 0 /\ sends = 0
    /\ closeReports = [i \in 1 .. MaxCloses |-> 0]
    /\ completions = [i \in 1 .. MaxSends |-> 0]
    /\ asked = {} /\ refused = {} /\ unreported = {}
    /\ aborted = FALSE
    /\ phase = "closed"
    /\ bytes = <<>>
    /\ alive = TRUE

-----------------------------------------------------------------------------
(* The calls of the application.                                            *)

MayCall(c) ==
    /\ alive
    /\ \/ stack = <<>> /\ c \in Calls
       \/ /\ Running("app", "in_callback")
          /\ c \in ReentrantCalls
          /\ Len(stack) <= MaxDepth

\* The frame beneath the call takes its result; a callback makes one call.
Call(f, a, c, n) ==
    stack' = <<MkFrame("wsio", f, a, n, <<>>), MkFrame("app", "returned", c, n, <<>>)>>
             \o (IF stack = <<>> THEN <<>> ELSE Tail(stack))

CallOpen ==
    /\ MayCall("open")
    /\ opens < MaxOpens
    /\ opens' = opens + 1
    /\ IF phase = "closed"
         THEN phase' = "opening" /\ bytes' = <<>> /\ Call("wsio_open", "", "open", opens + 1)
         ELSE Call("wsio_open", "", "open_again", 0) /\ UNCHANGED <<phase, bytes>>
    /\ UNCHANGED <<closes, sends, closeReports, asked, aborted, refused,
                   unreported, completions, alive>>

CallClose ==
    /\ closes < MaxCloses
    /\ closes' = closes + 1
    /\ \/ MayCall("close") /\ Call("wsio_close", "cb", "close", closes + 1)
       \/ MayCall("close_null") /\ Call("wsio_close", "NULL", "close_null", closes + 1)
    /\ aborted' = (aborted \/ wsio_state = "OPENING")
    /\ UNCHANGED <<opens, sends, closeReports, asked, phase, refused, unreported,
                   completions, bytes, alive>>

CallSend ==
    /\ sends < MaxSends
    /\ sends' = sends + 1
    /\ \/ /\ MayCall("send")
          /\ Call("wsio_send", "cb", "send", sends + 1)
          /\ UNCHANGED unreported
       \/ /\ MayCall("send_null")
          /\ Call("wsio_send", "NULL", "send", sends + 1)
          /\ unreported' = unreported \cup {sends + 1}
    /\ UNCHANGED <<opens, closes, closeReports, asked, phase, aborted, refused,
                   completions, bytes, alive>>

CallDowork ==
    /\ MayCall("dowork")
    /\ stack' = <<MkFrame("wsio", "wsio_dowork", "", 0, <<>>)>>
    /\ UNCHANGED appVars

CallDestroy ==
    /\ MayCall("destroy")
    /\ alive' = FALSE
    /\ aborted' = (aborted \/ wsio_state = "OPENING")
    /\ stack' = <<MkFrame("wsio", "wsio_destroy", "", 0, <<>>)>>
    /\ UNCHANGED <<opens, closes, sends, closeReports, asked, phase, refused,
                   unreported, completions, bytes>>

Returned ==
    /\ Running("app", "returned")
    /\ refused' = IF Top.arg = "send" /\ Top.ret # 0 THEN refused \cup {Top.n} ELSE refused
    /\ asked' = IF Top.arg = "close" /\ Top.ret = 0 THEN asked \cup {Top.n} ELSE asked
    /\ phase' = IF \/ Top.arg = "open" /\ Top.ret # 0 /\ phase = "opening" /\ Top.n = opens
                   \/ Top.arg = "close_null" /\ Top.ret = 0 /\ phase \in {"open", "failed"}
                 THEN "closed" ELSE phase
    /\ Pop
    /\ UNCHANGED <<opens, closes, sends, closeReports, aborted, unreported, completions,
                   bytes, alive>>

-----------------------------------------------------------------------------
(* Its callbacks.                                                           *)

InCallback == Goto(<<MkFrame("app", "in_callback", "", 0, <<>>)>>)

OnOpenComplete ==
    /\ Running("app", "on_io_open_complete")
    /\ phase' = IF Top.arg = "OK" THEN "open" ELSE "closed"
    /\ InCallback
    /\ UNCHANGED <<opens, closes, sends, closeReports, asked, aborted, refused, unreported,
                   completions, bytes, alive>>

OnCloseComplete ==
    /\ Running("app", "on_io_close_complete")
    /\ closeReports' = [closeReports EXCEPT ![Top.n] = @ + 1]
    /\ phase' = "closed"
    /\ InCallback
    /\ UNCHANGED <<opens, closes, sends, asked, aborted, refused, unreported,
                   completions, bytes, alive>>

OnSendComplete ==
    /\ Running("app", "on_send_complete")
    /\ completions' = [completions EXCEPT ![Top.n] = @ + 1]
    /\ InCallback
    /\ UNCHANGED <<opens, closes, sends, closeReports, asked, phase, aborted, refused,
                   unreported, bytes, alive>>

OnBytesReceived ==
    /\ Running("app", "on_bytes_received")
    /\ bytes' = Append(bytes, Top.data)
    /\ InCallback
    /\ UNCHANGED <<opens, closes, sends, closeReports, asked, phase, aborted, refused,
                   unreported, completions, alive>>

OnError ==
    /\ Running("app", "on_io_error")
    /\ phase' = IF phase = "open" THEN "failed" ELSE phase
    /\ InCallback
    /\ UNCHANGED <<opens, closes, sends, closeReports, asked, aborted, refused, unreported, completions,
                   bytes, alive>>

CallbackReturns ==
    /\ Running("app", "in_callback")
    /\ Pop
    /\ UNCHANGED appVars

-----------------------------------------------------------------------------
AppCalls == CallOpen \/ CallClose \/ CallSend \/ CallDowork \/ CallDestroy

AppSteps ==
    \/ Returned \/ OnOpenComplete \/ OnCloseComplete \/ OnSendComplete \/ OnBytesReceived
    \/ OnError \/ CallbackReturns

\* the layers beneath the client, of which there may be one
LowerNext == (SockNext /\ UNCHANGED tlsVars) \/ (TlsNext /\ UNCHANGED sockVars)

Step ==
    \/ LowerNext /\ UNCHANGED <<uwsVars, wsioVars, appVars>>
    \/ UwsNext /\ UNCHANGED <<sockVars, tlsVars, wsioVars, appVars>>
    \/ WsioNext /\ UNCHANGED <<sockVars, tlsVars, uwsVars, appVars>>
    \/ AppSteps /\ UNCHANGED <<sockVars, tlsVars, uwsVars, wsioVars>>
    \/ ReturnStep /\ UNCHANGED <<sockVars, tlsVars, uwsVars, wsioVars, appVars>>

\* Nothing is modelled after wsio_destroy or a step whose outcome is undefined.
Ended == (~alive /\ stack = <<>>) \/ Running("uws", "undefined")

Next ==
    \/ AppCalls /\ UNCHANGED <<sockVars, tlsVars, uwsVars, wsioVars>>
    \/ Step
    \/ Ended /\ UNCHANGED vars

\* A thread that has entered the library keeps running until the call returns.
Spec == Init /\ [][Next]_vars /\ WF_vars(Step)

-----------------------------------------------------------------------------
(* Properties.                                                              *)

\* Once the wsio is closed or destroyed, every send it accepted has been completed
\* exactly once, and a send it refused never.  Until then, every context that the WebSocket
\* client still holds is an item of the list of the wsio: completing the send never touches
\* an item that wsio_close, or a failed wsio_send, has freed.
WsioSendsSettled ==
    /\ wsio_faults = {} /\ \A i \in DOMAIN pending_sends : Items(pending_sends[i]) # {}
    /\ \A i \in 1 .. MaxSends :
         completions[i] <= (IF i \in refused \cup unreported THEN 0 ELSE 1)
    /\ stack = <<>> /\ (wsio_state = "NOT_OPEN" \/ ~alive) =>
         /\ wsio_pending = <<>>
         /\ \A i \in 1 .. sends : i \in refused \cup unreported \/ completions[i] = 1

Contract == INSTANCE IoContract WITH pieces <- Len(bytes)

\* The wsio keeps the contract of an IO layer: an open is answered once, whichever of
\* the answer of the peer, an error, a close frame or the close of the application comes
\* first, and bytes come only while the session is open.
WsioKeepsContract == Contract!Spec

\* A close that was accepted is answered by the time it returns, unless it cut an open
\* short; and exactly once as long as the wsio was not opened again: the client keeps
\* the callback of an earlier close and calls it when the peer ends a later session.
\* A wsio that is not open does not drive the client beneath it any more.  Its
\* application knows by then that the session is over, and it has let go of the client,
\* unless the application closed while the open was under way.
WsioEndsAnswered ==
    /\ session <= 1 => \A i \in 1 .. MaxCloses : closeReports[i] <= 1
    /\ stack = <<>> /\ ~aborted => \A i \in asked : closeReports[i] >= 1
    /\ stack = <<>> /\ alive /\ wsio_state = "NOT_OPEN" =>
         /\ phase \in {"closed", "failed"}
         /\ ~aborted => uws_state = "CLOSED" /\ ~connected

\* on_bytes_received is given the payload of the binary messages, in the order in which
\* the peer sent them, up to the first message that is not binary.
Binaries(units) == SelectSeq(units, LAMBDA u : u.k = 1 /\ u.op = "binary" /\ u.fin /\ u.size > 1)
BytesAsSent ==
    LET before == SelectSeq(script, LAMBDA u : u.op # "101")
        texts == {i \in DOMAIN before : before[i].op = "text"}
        usable == IF texts = {} THEN before
                  ELSE SubSeq(before, 1, (CHOOSE i \in texts : \A j \in texts : i <= j) - 1)
        sent == Binaries(usable)
    IN  Len(bytes) <= Len(sent) /\ \A i \in DOMAIN bytes : bytes[i] = <<sent[i]>>

\* Every call into the wsio returns.
WsioCallsReturn == []<>(stack = <<>>)

=============================================================================
