---------------------------- MODULE WsConnection ----------------------------
(***************************************************************************)
(* A WebSocket connection: a user of uws_client.h, the WebSocket client,   *)
(* and the layers beneath it, on one call stack.                           *)
(*                                                                         *)
(* The user calls the API from outside, or from inside a callback where    *)
(* the calls in ReentrantCalls may be made, and notes what the callbacks   *)
(* tell it.  What it notes is what the properties are about.               *)
(***************************************************************************)
EXTENDS SocketIo, TlsIo, UwsClient

CONSTANTS
    MaxOpens,        \* bound: calls to uws_client_open_async
    MaxSends,        \* bound: calls to uws_client_send_frame_async
    MaxDepth,        \* bound: depth of the stack at which callbacks still make calls
    MaxNested,       \* bound: calls made from one invocation of a callback
    MaxStack,        \* bound: the calls that the stack of a thread has room for
    Calls,           \* the API calls the user makes from outside a callback
    ReentrantCalls   \* the API calls the user makes from inside a callback

\* "close_open" and "handshake" are made only while the user takes the connection for
\* open, "close" and "handshake_any_time" at any time.
ApiCalls == {"open", "close", "close_open", "close_null", "handshake", "handshake_any_time",
             "send", "dowork", "destroy"}

ASSUME BoundsAssumption ==
    /\ MaxOpens \in Nat
    /\ MaxSends \in Nat
    /\ MaxDepth \in Nat
    /\ MaxNested \in Nat
    /\ MaxStack \in Nat
    /\ Calls \subseteq ApiCalls
    /\ ReentrantCalls \subseteq ApiCalls \ {"dowork", "destroy"}

VARIABLES
    opens, sends,    \* how many calls were made
    unopened,        \* the sessions whose open was answered by a failure
    refused,         \* the sends for which a failure was returned
    completions,     \* how often each send was reported complete
    openReports,     \* how often on_ws_open_complete was called in each session
    delivered,       \* the messages delivered in each session
    closing,         \* the sessions in which the user called a close function
    asked,           \* those in which it was accepted, with a callback to call
    closeReports,    \* how often on_ws_close_complete was called for each close
    ended,           \* the sessions that failed or ended, as the user was told
    alive            \* uws_client_destroy has not been called

userVars == <<opens, sends, unopened, refused, completions, openReports, delivered, closing, asked,
              closeReports, ended, alive>>

vars == <<stack, sockVars, tlsVars, uwsVars, userVars>>

SendIds == 1 .. MaxSends
Sessions == 0 .. MaxOpens
Message == [type: FrameTypes, parts: Seq(Unit)]

UserFunctions == {"returned", "in_callback"}
Functions == XioFunctions \cup XioCallbacks \cup SockFunctions \cup TlsFunctions
             \cup UwsFunctions \cup UwsCallbacks \cup UserFunctions
Arguments == XioArguments \cup SendCallbacks \cup Opcodes \cup FrameTypes
             \cup {"handshake", "again", "stop", "open", "close_null", "send"}

\* what some functions rely on: xio_close and xio_send are given a callback of theirs,
\* the two functions that look at the header of a frame are handed one
WellCalled(f) ==
    /\ f.fn \in {"close", "close_rest"} => f.arg \in XioArguments
    /\ f.fn = "send" => f.arg \in SendCallbacks
    /\ f.fn = "on_ws_frame_received" => f.arg \in FrameTypes
    /\ f.fn \in {"decode_frame", "frame"} => f.data # <<>>

Frame ==
    {f \in [at: LayerNames, fn: Functions, arg: Arguments, n: Nat, data: Seq(Unit), ret: {0, 1}] :
        WellCalled(f)}

TypeOK ==
    /\ stack \in Seq(Frame)
    /\ SockTypeOK
    /\ TlsTypeOK
    /\ UwsTypeOK
    /\ opens \in 0 .. MaxOpens
    /\ sends \in 0 .. MaxSends
    /\ unopened \subseteq Nat
    /\ refused \subseteq Nat
    /\ completions \in [SendIds -> Nat]
    /\ openReports \in [Sessions -> Nat]
    /\ delivered \in [Sessions -> Seq(Message)]
    /\ closing \subseteq Nat
    /\ asked \subseteq Nat
    /\ closeReports \in [Sessions -> Nat]
    /\ ended \subseteq Nat
    /\ alive \in BOOLEAN

Init ==
    /\ stack = <<>>
    /\ SockInit
    /\ TlsInit
    /\ UwsInit
    /\ opens = 0
    /\ sends = 0
    /\ unopened = {}
    /\ refused = {}
    /\ completions = [i \in SendIds |-> 0]
    /\ openReports = [s \in Sessions |-> 0]
    /\ delivered = [s \in Sessions |-> <<>>]
    /\ closing = {}
    /\ asked = {}
    /\ closeReports = [s \in Sessions |-> 0]
    /\ ended = {}
    /\ alive = TRUE

-----------------------------------------------------------------------------
(* The calls of the user.  The frame beneath the call takes its result.     *)

MayCall(c) ==
    /\ alive
    /\ \/ stack = <<>> /\ c \in Calls
       \/ /\ Running("user", "in_callback")
          /\ c \in ReentrantCalls
          /\ Len(stack) <= MaxDepth
          /\ Top.n < MaxNested

Call(f, a, c, n) ==
    stack' = <<MkFrame("uws", f, a, n, <<>>), MkFrame("user", "returned", c, n, <<>>)>>
             \o (IF stack = <<>> THEN <<>> ELSE <<[Top EXCEPT !.n = @ + 1]>> \o Tail(stack))

CallOpen ==
    /\ MayCall("open")
    /\ opens < MaxOpens
    /\ opens' = opens + 1
    /\ Call("uws_client_open_async", "", "open", session + 1)
    /\ UNCHANGED <<sends, unopened, refused, completions, openReports, delivered, closing, asked, closeReports, ended, alive>>

\* as far as the user was told
IsOpen == openReports[session] = 1 /\ session \notin ended

CallClose ==
    /\ \/ /\ MayCall("close") \/ (MayCall("close_open") /\ IsOpen)
          /\ Call("uws_client_close_async", "cb", "close", session)
       \/ /\ MayCall("handshake_any_time") \/ (MayCall("handshake") /\ IsOpen)
          /\ Call("uws_client_close_handshake_async", "cb", "close", session)
    /\ closing' = closing \cup {session}
    /\ UNCHANGED <<opens, sends, unopened, refused, completions, openReports, delivered, asked, closeReports, ended, alive>>

\* without a callback, which also takes back the one of an earlier close
CallCloseNull ==
    /\ MayCall("close_null")
    /\ Call("uws_client_close_async", "NULL", "close_null", session)
    /\ closing' = closing \cup {session}
    /\ UNCHANGED <<opens, sends, unopened, refused, completions, openReports, delivered, asked, closeReports, ended, alive>>

CallSend ==
    /\ MayCall("send")
    /\ sends < MaxSends
    /\ sends' = sends + 1
    /\ Call("uws_client_send_frame_async", "", "send", sends + 1)
    /\ UNCHANGED <<opens, unopened, refused, completions, openReports, delivered, closing, asked, closeReports, ended, alive>>

CallDowork ==
    /\ MayCall("dowork")
    /\ stack' = <<MkFrame("uws", "uws_client_dowork", "", 0, <<>>)>>
    /\ UNCHANGED userVars

CallDestroy ==
    /\ MayCall("destroy")
    /\ alive' = FALSE
    /\ stack' = <<MkFrame("uws", "uws_client_destroy", "", 0, <<>>)>>
    /\ UNCHANGED <<opens, sends, unopened, refused, completions, openReports, delivered, closing, asked, closeReports, ended>>

Returned ==
    /\ Running("user", "returned")
    /\ unopened' = IF Top.arg = "open" /\ Top.ret # 0 /\ session = Top.n
                    THEN unopened \cup {Top.n} ELSE unopened
    /\ refused' = IF Top.arg = "send" /\ Top.ret # 0 THEN refused \cup {Top.n} ELSE refused
    /\ asked' = CASE Top.arg = "close" /\ Top.ret = 0 -> asked \cup {Top.n}
                  [] Top.arg = "close_null" /\ Top.ret = 0 -> asked \ {Top.n}
                  [] OTHER -> asked
    /\ Pop
    /\ UNCHANGED <<opens, sends, completions, openReports, delivered, closing, closeReports, ended, alive>>

-----------------------------------------------------------------------------
(* The callbacks of the user.                                               *)

InCallback == Goto(<<MkFrame("user", "in_callback", "", 0, <<>>)>>)

OnOpenComplete ==
    /\ Running("user", "on_ws_open_complete")
    /\ openReports' = [openReports EXCEPT ![session] = @ + 1]
    /\ ended' = IF Top.arg = "ERROR" THEN ended \cup {session} ELSE ended
    /\ InCallback
    /\ UNCHANGED <<opens, sends, unopened, refused, completions, delivered, closing, asked, closeReports, alive>>

OnFrameReceived ==
    /\ Running("user", "on_ws_frame_received")
    /\ delivered' = [delivered EXCEPT ![session] = Append(@, [type |-> Top.arg, parts |-> Top.data])]
    /\ InCallback
    /\ UNCHANGED <<opens, sends, unopened, refused, completions, openReports, closing, asked, closeReports, ended, alive>>

OnSendComplete ==
    /\ Running("user", "on_ws_send_frame_complete")
    /\ completions' = [completions EXCEPT ![Top.n] = @ + 1]
    /\ InCallback
    /\ UNCHANGED <<opens, sends, unopened, refused, openReports, delivered, closing, asked, closeReports, ended, alive>>

OnError ==
    /\ Running("user", "on_ws_error")
    /\ ended' = ended \cup {session}
    /\ InCallback
    /\ UNCHANGED <<opens, sends, unopened, refused, completions, openReports, delivered, closing, asked, closeReports, alive>>

OnPeerClosed ==
    /\ Running("user", "on_ws_peer_closed")
    /\ InCallback
    /\ UNCHANGED userVars

OnCloseComplete ==
    /\ Running("user", "on_ws_close_complete")
    /\ closeReports' = [closeReports EXCEPT ![Top.n] = @ + 1]
    /\ ended' = ended \cup {Top.n}
    /\ InCallback
    /\ UNCHANGED <<opens, sends, unopened, refused, completions, openReports, delivered, closing, asked, alive>>

CallbackReturns ==
    /\ Running("user", "in_callback")
    /\ Pop
    /\ UNCHANGED userVars

-----------------------------------------------------------------------------
UserCalls == CallOpen \/ CallClose \/ CallCloseNull \/ CallSend \/ CallDowork \/ CallDestroy

UserSteps ==
    \/ Returned \/ OnOpenComplete \/ OnFrameReceived \/ OnSendComplete \/ OnError
    \/ OnPeerClosed \/ OnCloseComplete \/ CallbackReturns

\* The calls have used up the stack of the thread.
Overflown == Len(stack) > MaxStack

\* A step of the code that is running.
Step ==
  /\ ~Overflown
  /\ \/ SockNext /\ UNCHANGED <<tlsVars, uwsVars, userVars>>
     \/ TlsNext /\ UNCHANGED <<sockVars, uwsVars, userVars>>
     \/ UwsNext /\ UNCHANGED <<sockVars, tlsVars, userVars>>
     \/ UserSteps /\ UNCHANGED <<sockVars, tlsVars, uwsVars>>
     \/ ReturnStep /\ UNCHANGED <<sockVars, tlsVars, uwsVars, userVars>>

\* Nothing is modelled after uws_client_destroy, a stack overflow, or a step whose
\* outcome is undefined.
Ended == (~alive /\ stack = <<>>) \/ Overflown \/ Running("uws", "undefined")

Next ==
    \/ UserCalls /\ UNCHANGED <<sockVars, tlsVars, uwsVars>>
    \/ Step
    \/ Ended /\ UNCHANGED vars

Spec == Init /\ [][Next]_vars

\* A thread that has entered the library keeps running until the call returns.
FairSpec == Spec /\ WF_vars(Step)

-----------------------------------------------------------------------------
(***************************************************************************)
(* What a WebSocket endpoint makes of the frames of one connection, as RFC *)
(* 6455 has it: the data frames up to the first offence or the first close *)
(* frame, with fragments put together.                                     *)
(***************************************************************************)
\* a frame begins here
IsFrame(u) == u.k = 1 /\ u.op \in Opcodes

Assemble(a, h) ==
    LET stop == [a EXCEPT !.stop = TRUE]
        whole == [a EXCEPT !.out = Append(@, [type |-> DataType(h.op), parts |-> <<h>>])]
        first == [a EXCEPT !.type = DataType(h.op), !.parts = <<h>>]
        more == [a EXCEPT !.parts = Append(@, h)]
        last == [a EXCEPT !.out = Append(@, [type |-> a.type, parts |-> Append(a.parts, h)]),
                          !.type = "UNKNOWN", !.parts = <<>>]
        fresh == a.type = "UNKNOWN"
    IN  CASE a.stop \/ h.flaw # "none" \/ h.op = "close" -> stop
          [] h.op \in {"ping", "pong", "reserved"} -> IF h.fin THEN a ELSE stop
          [] h.op \in {"text", "binary"} -> IF ~fresh THEN stop ELSE IF h.fin THEN whole ELSE first
          [] h.op = "continuation" -> IF fresh THEN stop ELSE IF h.fin THEN last ELSE more

\* the messages, and what of the next one there is, after each unit
Assembled(units) ==
    LET assembled[i \in 0 .. Len(units)] ==
            IF i = 0 THEN [out |-> <<>>, type |-> "UNKNOWN", parts |-> <<>>, stop |-> FALSE]
            ELSE IF IsFrame(units[i]) THEN Assemble(assembled[i - 1], units[i])
            ELSE assembled[i - 1]
    IN  assembled

Messages(units) == Assembled(units)[Len(units)].out

IsPrefixOf(s, t) == Len(s) <= Len(t) /\ \A i \in DOMAIN s : s[i] = t[i]

Quiet == stack = <<>> /\ alive /\ uws_state = "CLOSED"

-----------------------------------------------------------------------------
(* Properties.                                                              *)

\* Whatever pieces the bytes arrive in, on_ws_frame_received is called for the
\* messages the peer sent on this connection, whole, in order and none twice.
MessagesAsSent == IsPrefixOf(delivered[session], Messages(script))

\* on_ws_send_frame_complete is called at most once for a send, and never for one
\* that uws_client_send_frame_async had refused, as long as no freed item was used.
SendsCompleteOnce ==
    faults = {} => \A i \in SendIds : completions[i] <= (IF i \in refused THEN 0 ELSE 1)

\* Once the client is closed, or destroyed, every send it had accepted has been
\* completed: whichever of the many ways there was taken.
SendsSettled ==
    stack = <<>> /\ (uws_state = "CLOSED" \/ ~alive) /\ faults = {} =>
        /\ pending_sends = <<>>
        /\ \A i \in 1 .. sends : completions[i] = (IF i \in refused THEN 0 ELSE 1)

\* The code never counts stream_buffer_count below zero, and never completes a
\* send through a list item that clear_pending_sends has already freed.
NoFaults == faults = {} /\ tls_faults = {}

\* on_ws_close_complete is called at most once per session, and only in one the user
\* closed; by the time the client is closed it has been if the close was accepted.
ClosesAnswered ==
    \A s \in Sessions :
        /\ closeReports[s] <= (IF s \in closing THEN 1 ELSE 0)
        /\ Quiet /\ s \in asked => closeReports[s] = 1

\* on_ws_open_complete is called at most once per open, and has been called by the
\* time the client is closed again unless the user closed it before.
OpensAnswered ==
    /\ \A s \in Sessions : openReports[s] <= (IF s \in unopened THEN 0 ELSE 1)
    /\ Quiet /\ session > 0 => openReports[session] = 1 \/ session \in closing \cup unopened

\* No close is left half done.  When the client has returned to CLOSED so has the socket:
\* nothing keeps the old connection, and the next uws_client_open_async can connect.  And
\* nobody waits for the layer below to close: it calls back from inside xio_close, so a
\* client that still waits afterwards waits for ever.
ClosedMeansReleased ==
    /\ Quiet => sock_state = "CLOSED" /\ tls_state = "NOT_OPEN"
    /\ stack = <<>> /\ alive => uws_state # "CLOSING_UNDERLYING_IO"

\* Calls nest only so deep: no two layers call each other without end.
NestingBounded == ~Overflown

\* What is consumed is what was decoded, whatever the callbacks in between did: never more
\* than there is, and no whole frame stays behind in the buffer of an open client.
DecodedExactly ==
    /\ NoFaults
    /\ stack = <<>> /\ uws_state = "OPEN" /\ stream_buffer # <<>> =>
         Len(stream_buffer) < needed_bytes(Head(stream_buffer))

\* A message is delivered only between the report that the connection is open and
\* the report that it has failed or is closed.
DeliveredWhileOpen ==
    [][\A s \in Sessions : delivered'[s] # delivered[s] => openReports[s] = 1 /\ s \notin ended]_vars

\* Every call into the library returns: no callback chain, decoding loop or dowork
\* loop runs for ever.
CallsReturn == []<>(stack = <<>>)

=============================================================================
