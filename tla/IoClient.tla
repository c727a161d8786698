----------------------------- MODULE IoClient -----------------------------
(***************************************************************************)
(* Whoever uses an IO layer through xio.h.  The client stands for any      *)
(* layer or program above: it executes the frames of layer "uws", the name *)
(* under which module Xio calls back whoever passed an on_send_complete.   *)
(* It makes every call at every time, from outside or from inside a        *)
(* callback, and notes what it is told.                                    *)
(***************************************************************************)
EXTENDS Xio

CONSTANTS
    MaxOpens,        \* bound: calls of xio_open
    MaxCloses,       \* bound: calls of xio_close
    MaxSends,        \* bound: calls of xio_send
    MaxDepth,        \* bound: depth of the stack at which callbacks still make calls
    ReentrantCalls,  \* the calls a callback may make
    CallingFrom,     \* the callbacks that make calls
    AnsweredPhases   \* the phases in which an accepted close is to be answered

Phases == {"closed", "opening", "open", "failed"}

ASSUME BoundsAssumption ==
    /\ MaxOpens \in Nat /\ MaxCloses \in Nat /\ MaxSends \in Nat /\ MaxDepth \in Nat
    /\ ReentrantCalls \subseteq {"open", "close", "send"}
    /\ CallingFrom \subseteq XioCallbacks \cup SendCallbacks
    /\ AnsweredPhases \subseteq Phases

VARIABLES
    opens, closes, sends,   \* how many calls were made
    phase,                  \* where the session stands, by what the client was told
    pieces,                 \* how often it was handed bytes in this session
    delivered,              \* the bytes themselves
    closeReports,           \* how often on_io_close_complete was called, per close
    completions,            \* how often on_send_complete was called, per send
    refused,                \* the sends that xio_send refused
    asked,                  \* the closes that were accepted and are to be answered
    alive                   \* xio_destroy has not been called

clientVars == <<opens, closes, sends, phase, pieces, delivered, closeReports, completions,
                refused, asked, alive>>

ClientInit ==
    /\ opens = 0 /\ closes = 0 /\ sends = 0
    /\ phase = "closed" /\ pieces = 0 /\ delivered = <<>>
    /\ closeReports = [i \in 1 .. MaxCloses |-> 0]
    /\ completions = [i \in 1 .. MaxSends |-> 0]
    /\ refused = {}
    /\ asked = {}
    /\ alive = TRUE

-----------------------------------------------------------------------------
(* The calls of the client.  The frame beneath a call takes its result.     *)

MayCall(c) ==
    /\ alive
    /\ \/ stack = <<>>
       \/ /\ Running("uws", "in_callback")
          /\ c \in ReentrantCalls /\ Top.arg \in CallingFrom
          /\ Len(stack) <= MaxDepth

Call(f, c, n) ==
    stack' = <<f, MkFrame("uws", "returned", c, n, <<>>)>>
             \o (IF stack = <<>> THEN <<>> ELSE Tail(stack))

\* An open is tried in every phase, and is the client's new session if it was closed.
CallOpen ==
    /\ MayCall("open")
    /\ opens < MaxOpens
    /\ opens' = opens + 1
    /\ IF phase = "closed"
         THEN /\ phase' = "opening" /\ pieces' = 0 /\ delivered' = <<>>
              /\ Call(xio_open("uws"), "open", opens + 1)
         ELSE Call(xio_open("uws"), "open_again", 0) /\ UNCHANGED <<phase, pieces, delivered>>
    /\ UNCHANGED <<closes, sends, closeReports, completions, refused, asked, alive>>

CallClose ==
    /\ MayCall("close")
    /\ closes < MaxCloses
    /\ closes' = closes + 1
    /\ \E cb \in {"NULL", "cb"} :
         Call(xio_close("uws", cb),
              IF cb = "cb" /\ phase \in AnsweredPhases THEN "close" ELSE "close_null", closes + 1)
    /\ UNCHANGED <<opens, sends, phase, pieces, delivered, closeReports,
                   completions, refused, asked, alive>>

CallSend ==
    /\ MayCall("send")
    /\ sends < MaxSends
    /\ sends' = sends + 1
    /\ Call(xio_send("uws", "on_underlying_io_send_complete", sends + 1), "send", sends + 1)
    /\ UNCHANGED <<opens, closes, phase, pieces, delivered, closeReports,
                   completions, refused, asked, alive>>

CallDowork ==
    /\ MayCall("dowork")
    /\ stack' = <<xio_dowork("uws")>>
    /\ UNCHANGED clientVars

CallDestroy ==
    /\ stack = <<>> /\ alive
    /\ alive' = FALSE
    /\ stack' = <<xio_destroy("uws")>>
    /\ UNCHANGED <<opens, closes, sends, phase, pieces, delivered, closeReports, completions,
                   refused, asked>>

\* A failed open ends the session it began; a close without a callback ends the one it
\* found, unless the client has opened again from a callback meanwhile.
Returned ==
    /\ Running("uws", "returned")
    /\ asked' = IF Top.arg = "close" /\ Top.ret = 0 THEN asked \cup {Top.n} ELSE asked
    /\ phase' = IF \/ Top.arg = "open" /\ Top.ret # 0 /\ phase = "opening" /\ Top.n = opens
                   \/ Top.arg = "close_null" /\ Top.ret = 0 /\ phase \in {"open", "failed"}
                 THEN "closed" ELSE phase
    /\ refused' = IF Top.arg = "send" /\ Top.ret # 0 THEN refused \cup {Top.n} ELSE refused
    /\ Pop
    /\ UNCHANGED <<opens, closes, sends, pieces, delivered, closeReports, completions, alive>>

-----------------------------------------------------------------------------
(* The callbacks of the client.                                             *)

InCallback == Goto(<<MkFrame("uws", "in_callback", Top.fn, 0, <<>>)>>)

OnOpenComplete ==
    /\ Running("uws", "on_io_open_complete")
    /\ phase' = IF Top.arg = "OK" THEN "open" ELSE "closed"
    /\ InCallback
    /\ UNCHANGED <<opens, closes, sends, pieces, delivered, closeReports,
                   completions, refused, asked, alive>>

OnBytesReceived ==
    /\ Running("uws", "on_bytes_received")
    /\ pieces' = pieces + 1
    /\ delivered' = delivered \o Top.data
    /\ InCallback
    /\ UNCHANGED <<opens, closes, sends, phase, closeReports, completions, refused, asked, alive>>

OnError ==
    /\ Running("uws", "on_io_error")
    /\ phase' = "failed"
    /\ InCallback
    /\ UNCHANGED <<opens, closes, sends, pieces, delivered, closeReports,
                   completions, refused, asked, alive>>

OnCloseComplete ==
    /\ Running("uws", "on_io_close_complete")
    /\ phase' = "closed"
    /\ closeReports' = [closeReports EXCEPT ![closes] = @ + 1]
    /\ InCallback
    /\ UNCHANGED <<opens, closes, sends, pieces, delivered, completions, refused, asked, alive>>

OnSendComplete ==
    /\ Running("uws", "on_underlying_io_send_complete")
    /\ completions' = [completions EXCEPT ![Top.n] = @ + 1]
    /\ InCallback
    /\ UNCHANGED <<opens, closes, sends, phase, pieces, delivered, closeReports, refused,
                   asked, alive>>

CallbackReturns ==
    /\ Running("uws", "in_callback")
    /\ Pop
    /\ UNCHANGED clientVars

-----------------------------------------------------------------------------
ClientCalls == CallOpen \/ CallClose \/ CallSend \/ CallDowork \/ CallDestroy

ClientSteps ==
    \/ Returned \/ OnOpenComplete \/ OnBytesReceived \/ OnError \/ OnCloseComplete
    \/ OnSendComplete \/ CallbackReturns

=============================================================================
