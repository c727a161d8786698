-------------------------------- MODULE Xio --------------------------------
(***************************************************************************)
(* The IO layers of the library and the calls between them (src/xio.c).    *)
(*                                                                         *)
(* Everything in a connection runs on the thread that calls into the top   *)
(* layer: an API call goes down through xio_open, xio_close, xio_send and  *)
(* xio_dowork, and the layer below answers with callbacks made from inside *)
(* those very calls.  What is interesting is therefore the call stack, and *)
(* it is the state that this module declares: a sequence of frames, the    *)
(* running one first.  A frame names the layer that executes it, the       *)
(* function (or the rest of a function after a call it makes), and its     *)
(* arguments; ret is the result of the last call that returned to it.      *)
(***************************************************************************)
EXTENDS Naturals, Sequences

CONSTANTS
    Layers,   \* the layers of this connection, lowest first; the last is "uws"
    Unit      \* the pieces in which the peer's bytes travel

LayerNames == {"socket", "proxy", "tls", "uws", "user"}

(***************************************************************************)
(* What the peer sends.  The TLS handshake, the answers of a proxy and to  *)
(* the upgrade request, and each WebSocket frame travel as size units,     *)
(* k = 1 .. size.                                                          *)
(* The first unit of a frame is its header, up to and including the length *)
(* field, the others are payload; a response ends with its last unit.      *)
(* flaw tells what is wrong with a frame: the mask bit is set, the length  *)
(* is not encoded minimally, or a close reason is not UTF-8.  id tells     *)
(* frames of one kind apart.                                               *)
(***************************************************************************)
Responses == {"101", "200", "other_status", "malformed"}
Opcodes == {"continuation", "text", "binary", "close", "ping", "pong", "reserved"}
UnitType == [op: {"handshake"} \cup Responses \cup Opcodes, fin: BOOLEAN,
             flaw: {"none", "masked", "length", "utf8"}, size: Nat, k: Nat, id: Nat]

ASSUME UnitAssumption == Unit \subseteq UnitType

ASSUME LayersAssumption ==
    /\ Layers \in Seq(LayerNames \ {"user"})
    /\ Len(Layers) > 0

VARIABLE stack

\* the functions of the concrete IO interface, and the callbacks given to xio_open
\* and xio_close
XioFunctions == {"open", "close", "send", "dowork", "destroy", "return"}
XioCallbacks == {"on_io_open_complete", "on_bytes_received", "on_io_error", "on_io_close_complete"}
XioArguments == {"", "NULL", "cb", "close_complete", "OK", "ERROR", "CANCELLED"}

\* the functions that are passed as on_send_complete
SendCallbacks == {"NULL", "unchecked_on_send_complete", "on_underlying_io_send_complete",
                  "on_underlying_io_close_sent"}

MkFrame(l, f, a, n, d) ==
    [at |-> l, fn |-> f, arg |-> a, n |-> n, data |-> d, ret |-> 0]

\* The layer that called xio_create for this one, and the one it created.
Above(l) ==
    LET i == CHOOSE i \in DOMAIN Layers : Layers[i] = l
    IN  IF i + 1 \in DOMAIN Layers THEN Layers[i + 1] ELSE "user"

Below(l) ==
    LET i == CHOOSE i \in DOMAIN Layers : Layers[i] = l
    IN  IF i - 1 \in DOMAIN Layers THEN Layers[i - 1] ELSE "user"

(***************************************************************************)
(* The calls of the concrete IO interface: xio.c checks its arguments and  *)
(* forwards to the concrete function, whose result is its own.             *)
(***************************************************************************)
xio_open(l) == MkFrame(Below(l), "open", "", 0, <<>>)

\* cb = "NULL": no on_io_close_complete is passed
xio_close(l, cb) == MkFrame(Below(l), "close", cb, 0, <<>>)

\* cb is the on_send_complete callback, n its context
xio_send(l, cb, n) == MkFrame(Below(l), "send", cb, n, <<>>)

xio_dowork(l) == MkFrame(Below(l), "dowork", "", 0, <<>>)

xio_destroy(l) == MkFrame(Below(l), "destroy", "", 0, <<>>)

(***************************************************************************)
(* The callbacks that were handed to xio_open and xio_close.               *)
(***************************************************************************)
on_io_open_complete(l, result) == MkFrame(Above(l), "on_io_open_complete", result, 0, <<>>)
on_bytes_received(l, units) == MkFrame(Above(l), "on_bytes_received", "", 0, units)
on_io_error(l) == MkFrame(Above(l), "on_io_error", "", 0, <<>>)
on_io_close_complete(l) == MkFrame(Above(l), "on_io_close_complete", "", 0, <<>>)

\* The completion of a send goes straight to whoever passed the callback: no
\* layer in between wraps it.  unchecked_on_send_complete does nothing.
on_send_complete(cb, result, n) ==
    IF cb \in {"NULL", "unchecked_on_send_complete"} THEN <<>>
    ELSE <<MkFrame("uws", cb, result, n, <<>>)>>

(***************************************************************************)
(* Control.                                                                *)
(***************************************************************************)
Running(l, f) == stack # <<>> /\ Head(stack).at = l /\ Head(stack).fn = f

Top == Head(stack)

\* The running function is replaced by the frames fs: it makes the calls fs[1],
\* fs[2], ... in this order; the last one may be the rest of the function itself.
Goto(fs) == stack' = fs \o Tail(stack)

\* A void function returns.
Pop == stack' = Tail(stack)

\* A function with a result returns v to its caller.
Return(v) ==
    stack' = IF Tail(stack) = <<>> THEN <<>>
             ELSE <<[Head(Tail(stack)) EXCEPT !.ret = v]>> \o Tail(Tail(stack))

\* "return v" as a frame, for a function that makes a last call before it
ReturnFrame(l, v) == [MkFrame(l, "return", "", 0, <<>>) EXCEPT !.ret = v]

ReturnStep == stack # <<>> /\ Top.fn = "return" /\ Return(Top.ret)

=============================================================================
