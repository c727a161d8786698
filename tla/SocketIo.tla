------------------------------ MODULE SocketIo ------------------------------
(***************************************************************************)
(* The TCP layer, adapters/socketio_berkeley.c.  It opens and closes       *)
(* synchronously, sends synchronously when the kernel takes all the bytes  *)
(* and otherwise keeps what is left in pending_io_list, and does all the   *)
(* rest in socketio_dowork.                                                *)
(***************************************************************************)
EXTENDS Xio

CONSTANTS
    Scripts,    \* what a peer may send on one connection: sequences of units
    MayBlock,   \* whether send() may take fewer bytes than it is given
    MaxQueue    \* bound: the sends for which add_pending_io finds memory

ASSUME ScriptsAssumption == Scripts \subseteq Seq(Unit)
ASSUME MayBlockAssumption == MayBlock \in BOOLEAN
ASSUME MaxQueueAssumption == MaxQueue \in Nat

VARIABLES
    sock_state,        \* io_state
    connected,         \* socket # INVALID_SOCKET
    pending_io_list,   \* sends not yet taken by the kernel: callback and context
    script,            \* what the peer of the current connection sends
    received           \* how much of it has been read from the socket

sockVars == <<sock_state, connected, pending_io_list, script, received>>

\* IO_STATE_OPENING and IO_STATE_CLOSING are never assigned by the code.
SockStates == {"CLOSED", "OPEN", "ERROR"}
PendingIo == [cb: SendCallbacks, n: Nat]

SockFunctions == {"dowork_sent", "dowork_receive"}

SockTypeOK ==
    /\ sock_state \in SockStates
    /\ connected \in BOOLEAN
    /\ pending_io_list \in Seq(PendingIo)
    /\ script \in Seq(Unit)
    /\ received \in Nat

SockInit ==
    /\ sock_state = "CLOSED"
    /\ connected = FALSE
    /\ pending_io_list = <<>>
    /\ script = <<>>
    /\ received = 0

Unread == SubSeq(script, received + 1, Len(script))

-----------------------------------------------------------------------------
(* socketio_open always reports through on_io_open_complete and returns 0,  *)
(* also when the socket is not closed.                                      *)

socketio_open_refused ==
    /\ Running("socket", "open")
    /\ sock_state # "CLOSED"
    /\ Goto(<<on_io_open_complete("socket", "ERROR"), ReturnFrame("socket", 0)>>)
    /\ UNCHANGED sockVars

socketio_open_connected ==
    /\ Running("socket", "open")
    /\ sock_state = "CLOSED"
    /\ sock_state' = "OPEN"
    /\ connected' = TRUE
    /\ script' \in Scripts
    /\ received' = 0
    /\ Goto(<<on_io_open_complete("socket", "OK"), ReturnFrame("socket", 0)>>)
    /\ UNCHANGED pending_io_list

\* no address, or no address that accepts the connection in time
socketio_open_failed ==
    /\ Running("socket", "open")
    /\ sock_state = "CLOSED"
    /\ Goto(<<on_io_open_complete("socket", "ERROR"), ReturnFrame("socket", 0)>>)
    /\ UNCHANGED sockVars

-----------------------------------------------------------------------------
(* socketio_close works from every state, calls back before it returns, and *)
(* leaves pending_io_list as it is.                                         *)

socketio_close ==
    /\ Running("socket", "close")
    /\ sock_state' = "CLOSED"
    /\ connected' = FALSE
    /\ IF Top.arg = "NULL"
         THEN Return(0)
         ELSE Goto(<<on_io_close_complete("socket"), ReturnFrame("socket", 0)>>)
    /\ UNCHANGED <<pending_io_list, script, received>>

\* The queue is freed without calling any on_send_complete.
socketio_destroy ==
    /\ Running("socket", "destroy")
    /\ sock_state' = "CLOSED"
    /\ connected' = FALSE
    /\ pending_io_list' = <<>>
    /\ Pop
    /\ UNCHANGED <<script, received>>

-----------------------------------------------------------------------------
(* socketio_send                                                            *)

socketio_send_sent ==
    /\ Running("socket", "send")
    /\ sock_state = "OPEN"
    /\ pending_io_list = <<>>
    /\ Goto(on_send_complete(Top.arg, "OK", Top.n) \o <<ReturnFrame("socket", 0)>>)
    /\ UNCHANGED sockVars

\* add_pending_io: behind earlier ones, or after a short send or EAGAIN
socketio_send_queued ==
    /\ Running("socket", "send")
    /\ sock_state = "OPEN"
    /\ MayBlock \/ pending_io_list # <<>>
    /\ Len(pending_io_list) < MaxQueue
    /\ pending_io_list' = Append(pending_io_list, [cb |-> Top.arg, n |-> Top.n])
    /\ Return(0)
    /\ UNCHANGED <<sock_state, connected, script, received>>

\* not open, a socket error, or no memory for the queue item
socketio_send_failed ==
    /\ Running("socket", "send")
    /\ Return(1)
    /\ UNCHANGED sockVars

-----------------------------------------------------------------------------
(* socketio_dowork: first the queue, then the receive loop.  A callback may *)
(* close the socket in between; the queue is worked off all the same, on an *)
(* invalid socket, while the receive loop looks at io_state again.          *)

dowork_sending == MkFrame("socket", "dowork", "", 0, <<>>)
dowork_sent == MkFrame("socket", "dowork_sent", "", 0, <<>>)
dowork_receiving == MkFrame("socket", "dowork_receive", "", 0, <<>>)

socketio_dowork_send_complete ==
    /\ Running("socket", "dowork")
    /\ pending_io_list # <<>>
    /\ connected
    /\ LET io == Head(pending_io_list)
       IN  Goto(on_send_complete(io.cb, "OK", io.n) \o <<dowork_sent>>)
    /\ UNCHANGED sockVars

\* the item is removed only after its callback has returned
socketio_dowork_remove ==
    /\ Running("socket", "dowork_sent")
    /\ pending_io_list # <<>>
    /\ pending_io_list' = Tail(pending_io_list)
    /\ Goto(<<dowork_sending>>)
    /\ UNCHANGED <<sock_state, connected, script, received>>

\* The item is dropped without its callback, and the loop goes on.
socketio_dowork_send_error ==
    /\ Running("socket", "dowork")
    /\ pending_io_list # <<>>
    /\ pending_io_list' = Tail(pending_io_list)
    /\ sock_state' = "ERROR"
    /\ Goto(<<on_io_error("socket"), dowork_sending>>)
    /\ UNCHANGED <<connected, script, received>>

\* the queue is empty, or the kernel takes no more for now
socketio_dowork_send_end ==
    /\ Running("socket", "dowork")
    /\ pending_io_list = <<>> \/ connected
    /\ Goto(<<dowork_receiving>>)
    /\ UNCHANGED sockVars

socketio_dowork_receive ==
    /\ Running("socket", "dowork_receive")
    /\ sock_state = "OPEN"
    /\ \E k \in 1 .. Len(Unread) :
         /\ received' = received + k
         /\ Goto(<<on_bytes_received("socket", SubSeq(Unread, 1, k)), dowork_receiving>>)
    /\ UNCHANGED <<sock_state, connected, pending_io_list, script>>

\* recv() reports the end of the stream or an error; io_state stays OPEN.
socketio_dowork_receive_error ==
    /\ Running("socket", "dowork_receive")
    /\ sock_state = "OPEN"
    /\ Goto(<<on_io_error("socket")>>)
    /\ UNCHANGED sockVars

\* nothing to read for now, or the socket is no longer open
socketio_dowork_receive_end ==
    /\ Running("socket", "dowork_receive")
    /\ Pop
    /\ UNCHANGED sockVars

-----------------------------------------------------------------------------
SockNext ==
    \/ socketio_open_refused
    \/ socketio_open_connected
    \/ socketio_open_failed
    \/ socketio_close
    \/ socketio_destroy
    \/ socketio_send_sent
    \/ socketio_send_queued
    \/ socketio_send_failed
    \/ socketio_dowork_send_complete
    \/ socketio_dowork_remove
    \/ socketio_dowork_send_error
    \/ socketio_dowork_send_end
    \/ socketio_dowork_receive
    \/ socketio_dowork_receive_error
    \/ socketio_dowork_receive_end

=============================================================================
