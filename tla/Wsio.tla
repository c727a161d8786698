-------------------------------- MODULE Wsio --------------------------------
(***************************************************************************)
(* The WebSocket IO, src/wsio.c: an IO layer whose bytes travel as binary  *)
(* frames of the WebSocket client.  It is the user of module UwsClient, so *)
(* it executes the frames of layer "user"; its own functions are frames of *)
(* layer "wsio", and the callbacks of the application that opened it are   *)
(* frames of layer "app".                                                  *)
(***************************************************************************)
EXTENDS Xio

VARIABLES
    wsio_state,     \* io_state
    wsio_pending,   \* pending_io_list: the callback and the context of each send
    wsio_close_cb,  \* on_io_close_complete: 0 for NULL, else the call that passed it
    wsio_faults     \* what undefined behaviour has been met, if any

wsioVars == <<wsio_state, wsio_pending, wsio_close_cb, wsio_faults>>

WsioStates == {"NOT_OPEN", "OPENING", "OPEN", "CLOSING", "ERROR"}
WsioPending == [cb: {"cb", "NULL"}, n: Nat]

WsioTypeOK ==
    /\ wsio_state \in WsioStates
    /\ wsio_pending \in Seq(WsioPending)
    /\ wsio_close_cb \in Nat
    /\ wsio_faults \subseteq {"freed item completed", "freed item freed"}

\* wsio_create
WsioInit ==
    /\ wsio_state = "NOT_OPEN"
    /\ wsio_pending = <<>>
    /\ wsio_close_cb = 0
    /\ wsio_faults = {}

Wsio(f) == MkFrame("wsio", f, "", 0, <<>>)
App(f, a, n, d) == MkFrame("app", f, a, n, d)
UwsApi(f, a, n) == MkFrame("uws", f, a, n, <<>>)

InState(s) == wsio_state' = s
WsioRest == <<wsio_pending, wsio_close_cb, wsio_faults>>

\* indicate_error, as its caller's last call
IndicateError ==
    /\ InState("ERROR")
    /\ Goto(<<App("on_io_error", "", 0, <<>>)>>)

-----------------------------------------------------------------------------
(* Opening and closing.                                                     *)

wsio_open ==
    /\ Running("wsio", "wsio_open")
    /\ IF wsio_state # "NOT_OPEN"
         THEN Return(1) /\ UNCHANGED wsio_state
         ELSE /\ InState("OPENING")
              /\ Goto(<<UwsApi("uws_client_open_async", "", 0), Wsio("open_returned")>>)
    /\ UNCHANGED WsioRest

wsio_open_returned ==
    /\ Running("wsio", "open_returned")
    /\ InState(IF Top.ret # 0 THEN "NOT_OPEN" ELSE wsio_state)
    /\ Return(Top.ret)
    /\ UNCHANGED WsioRest

\* slip: the open is reported cancelled and the state left for the client to change
internal_close_opening_kept ==
    /\ Running("wsio", "wsio_close")
    /\ wsio_state = "OPENING"
    /\ Goto(<<App("on_io_open_complete", "CANCELLED", 0, <<>>), ReturnFrame("wsio", 0)>>)
    /\ UNCHANGED wsioVars

\* internal_close while opening: the WebSocket client is not told, and the callback
\* of this close is dropped.
internal_close_opening ==
    /\ Running("wsio", "wsio_close")
    /\ wsio_state = "OPENING"
    /\ InState("NOT_OPEN")
    /\ Goto(<<App("on_io_open_complete", "CANCELLED", 0, <<>>), ReturnFrame("wsio", 0)>>)
    /\ UNCHANGED WsioRest

internal_close_refused ==
    /\ Running("wsio", "wsio_close")
    /\ wsio_state \in {"NOT_OPEN", "CLOSING"}
    /\ Return(1)
    /\ UNCHANGED wsioVars

internal_close ==
    /\ Running("wsio", "wsio_close")
    /\ wsio_state \in {"OPEN", "ERROR"}
    /\ InState("CLOSING")
    /\ wsio_close_cb' = IF Top.arg = "NULL" THEN 0 ELSE Top.n
    /\ Goto(<<UwsApi("uws_client_close_async", "cb", 0), Wsio("close_returned")>>)
    /\ UNCHANGED <<wsio_pending, wsio_faults>>

CloseReport ==
    IF wsio_close_cb = 0 THEN <<>> ELSE <<App("on_io_close_complete", "", wsio_close_cb, <<>>)>>

\* slip: a client that could not be closed is not reported closed
internal_close_returned_silent ==
    /\ Running("wsio", "close_returned")
    /\ Goto(<<Wsio("cancel_pending")>>)
    /\ UNCHANGED wsioVars

internal_close_returned ==
    /\ Running("wsio", "close_returned")
    /\ Goto((IF Top.ret # 0 THEN CloseReport ELSE <<>>) \o <<Wsio("cancel_pending")>>)
    /\ UNCHANGED wsioVars

\* complete_send_item: the item leaves the list before its callback is called
SendReport(io, result) ==
    IF io.cb = "NULL" THEN <<>> ELSE <<App("on_send_complete", result, io.n, <<>>)>>

internal_close_cancel ==
    /\ Running("wsio", "cancel_pending")
    /\ IF wsio_pending = <<>>
         THEN InState("NOT_OPEN") /\ Return(0) /\ UNCHANGED wsio_pending
         ELSE /\ wsio_pending' = Tail(wsio_pending)
              /\ Goto(SendReport(Head(wsio_pending), "CANCELLED") \o <<Wsio("cancel_pending")>>)
              /\ UNCHANGED wsio_state
    /\ UNCHANGED <<wsio_close_cb, wsio_faults>>

\* singlylinkedlist_destroy comes last: nothing is left in the list then
wsio_destroy ==
    /\ Running("wsio", "wsio_destroy")
    /\ Goto((IF wsio_state # "NOT_OPEN" THEN <<MkFrame("wsio", "wsio_close", "NULL", 0, <<>>)>>
             ELSE <<>>)
            \o <<UwsApi("uws_client_destroy", "", 0)>>)
    /\ UNCHANGED wsioVars

-----------------------------------------------------------------------------
(* The callbacks that uws_client_open_async and _close_async were given.    *)

on_underlying_ws_close_complete ==
    /\ Running("user", "on_ws_close_complete")
    /\ InState("NOT_OPEN")
    /\ Goto(CloseReport)
    /\ UNCHANGED WsioRest

\* Out of place in any state but OPENING, NOT_OPEN included.
on_underlying_ws_open_complete ==
    /\ Running("user", "on_ws_open_complete")
    /\ \/ wsio_state # "OPENING" /\ IndicateError
       \/ /\ wsio_state = "OPENING"
          /\ InState(IF Top.arg = "OK" THEN "OPEN" ELSE "NOT_OPEN")
          /\ Goto(<<App("on_io_open_complete", Top.arg, 0, <<>>)>>)
    /\ UNCHANGED WsioRest

\* slip: a text frame is passed on as well
on_underlying_ws_frame_received_any ==
    /\ Running("user", "on_ws_frame_received")
    /\ Goto(<<App("on_bytes_received", "", 0, Top.data)>>)
    /\ UNCHANGED wsioVars

\* The message carries payload if one of its frames does.
HasPayload(parts) == \E i \in DOMAIN parts : parts[i].size > 1

on_underlying_ws_frame_received ==
    /\ Running("user", "on_ws_frame_received")
    /\ \/ wsio_state # "OPEN" /\ Pop /\ UNCHANGED wsio_state
       \/ wsio_state = "OPEN" /\ Top.arg # "BINARY" /\ IndicateError
       \/ /\ wsio_state = "OPEN" /\ Top.arg = "BINARY"
          /\ Goto(IF HasPayload(Top.data) THEN <<App("on_bytes_received", "", 0, Top.data)>> ELSE <<>>)
          /\ UNCHANGED wsio_state
    /\ UNCHANGED WsioRest

on_underlying_ws_peer_closed ==
    /\ Running("user", "on_ws_peer_closed")
    /\ \/ wsio_state \in {"OPEN", "CLOSING", "ERROR"} /\ IndicateError
       \/ /\ wsio_state = "NOT_OPEN"
          /\ InState("ERROR")
          /\ Goto(<<App("on_io_error", "", 0, <<>>), Wsio("set_not_open")>>)
       \/ /\ wsio_state = "OPENING"
          /\ InState("NOT_OPEN")
          /\ Goto(<<App("on_io_open_complete", "ERROR", 0, <<>>)>>)
    /\ UNCHANGED WsioRest

\* An error while open is reported, and the state stays OPEN.
on_underlying_ws_error ==
    /\ Running("user", "on_ws_error")
    /\ Goto(IF wsio_state = "OPENING"
            THEN <<App("on_io_open_complete", "ERROR", 0, <<>>), Wsio("set_not_open")>>
            ELSE <<App("on_io_error", "", 0, <<>>)>>)
    /\ UNCHANGED wsioVars

\* the assignment that follows a callback
wsio_set_not_open ==
    /\ Running("wsio", "set_not_open")
    /\ InState("NOT_OPEN")
    /\ Pop
    /\ UNCHANGED WsioRest

-----------------------------------------------------------------------------
(* Sending.  The context that the client keeps is the item of this list.    *)

Items(n) == {i \in DOMAIN wsio_pending : wsio_pending[i].n = n}
WithoutItem(n) == SelectSeq(wsio_pending, LAMBDA io : io.n # n)

\* slip: the item enters the list once the client has taken the frame
wsio_send_late ==
    /\ Running("wsio", "wsio_send")
    /\ \/ Return(1)
       \/ /\ wsio_state = "OPEN"
          /\ Goto(<<UwsApi("uws_client_send_frame_async", "", Top.n),
                    MkFrame("wsio", "send_returned", "", Top.n, <<>>)>>)
    /\ UNCHANGED wsioVars

wsio_send ==
    /\ Running("wsio", "wsio_send")
    /\ \/ Return(1) /\ UNCHANGED wsio_pending            \* not open, or no memory
       \/ /\ wsio_state = "OPEN"
          /\ wsio_pending' = Append(wsio_pending, [cb |-> Top.arg, n |-> Top.n])
          /\ Goto(<<UwsApi("uws_client_send_frame_async", "", Top.n),
                    MkFrame("wsio", "send_returned", "", Top.n, <<>>)>>)
    /\ UNCHANGED <<wsio_state, wsio_close_cb, wsio_faults>>

\* The item of a failed send is removed and freed, whether it still exists or not.
wsio_send_returned ==
    /\ Running("wsio", "send_returned")
    /\ wsio_pending' = IF Top.ret = 0 THEN wsio_pending ELSE WithoutItem(Top.n)
    /\ wsio_faults' = IF Top.ret # 0 /\ Items(Top.n) = {} THEN wsio_faults \cup {"freed item freed"}
                      ELSE wsio_faults
    /\ Return(Top.ret)
    /\ UNCHANGED <<wsio_state, wsio_close_cb>>

on_underlying_ws_send_frame_complete ==
    /\ Running("user", "on_ws_send_frame_complete")
    /\ \E i \in Items(Top.n) : Goto(SendReport(wsio_pending[i], Top.arg))
    /\ wsio_pending' = WithoutItem(Top.n)
    /\ UNCHANGED <<wsio_state, wsio_close_cb, wsio_faults>>

\* The item that the client kept has been freed: what is read from it decides.
on_underlying_ws_send_frame_complete_freed ==
    /\ Running("user", "on_ws_send_frame_complete")
    /\ Items(Top.n) = {}
    /\ \E cb \in {"cb", "NULL"} : Goto(SendReport([cb |-> cb, n |-> Top.n], Top.arg))
    /\ wsio_faults' = wsio_faults \cup {"freed item completed"}
    /\ UNCHANGED <<wsio_state, wsio_pending, wsio_close_cb>>

\* slip: the client is driven until the wsio is closed
wsio_dowork_loop ==
    /\ Running("wsio", "wsio_dowork")
    /\ Goto(IF wsio_state = "NOT_OPEN" THEN <<>>
            ELSE <<UwsApi("uws_client_dowork", "", 0), Wsio("wsio_dowork")>>)
    /\ UNCHANGED wsioVars

wsio_dowork ==
    /\ Running("wsio", "wsio_dowork")
    /\ Goto(IF wsio_state = "NOT_OPEN" THEN <<>> ELSE <<UwsApi("uws_client_dowork", "", 0)>>)
    /\ UNCHANGED wsioVars

-----------------------------------------------------------------------------
WsioNext ==
    \/ wsio_open \/ wsio_open_returned
    \/ internal_close_opening \/ internal_close_refused \/ internal_close
    \/ internal_close_returned \/ internal_close_cancel
    \/ wsio_destroy
    \/ on_underlying_ws_close_complete \/ on_underlying_ws_open_complete
    \/ on_underlying_ws_frame_received \/ on_underlying_ws_peer_closed
    \/ on_underlying_ws_error \/ wsio_set_not_open
    \/ wsio_send \/ wsio_send_returned
    \/ on_underlying_ws_send_frame_complete \/ on_underlying_ws_send_frame_complete_freed
    \/ wsio_dowork

=============================================================================
