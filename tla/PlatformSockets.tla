-------------------------- MODULE PlatformSockets --------------------------
(***************************************************************************)
(* The sockets of the other platforms, adapters/socketio_win32.c and       *)
(* adapters/socketio_mbed.c, with a user that also calls from inside their *)
(* callbacks.  A message is two units long.  A callback that is the last   *)
(* thing a function does is not a step of its own: what its user does from *)
(* there is the same as what it does next.                                 *)
(***************************************************************************)
EXTENDS Naturals, Sequences, FiniteSets, SequencesExt

CONSTANTS
    Platforms,      \* "win32", "mbed"
    Hosts,          \* what a host name resolves to: sequences of kinds of addresses
    Partial,        \* <<platform, function>> where the network may take part of a message
    Reenter,        \* for a platform, what its user calls from inside callbacks
    OpenTwice,      \* platforms whose user may open what is open
    MaxOut,         \* bound on the messages sent
    MaxIn,          \* bound on the pieces a peer sends on a connection
    MaxConnections, \* bound on the opens
    MaxInside       \* bound on the calls from inside callbacks

ASSUME PlatformSocketsAssumption ==
    /\ Platforms \subseteq {"win32", "mbed"} /\ OpenTwice \subseteq Platforms
    /\ MaxOut \in Nat /\ MaxIn \in Nat /\ MaxConnections \in Nat /\ MaxInside \in Nat

VARIABLES
    platform,
    socketio,   \* state, socket (0: none), whether there is a host name, pending_io_list
    work,       \* where socketio_dowork is, and the callback it is in
    network,    \* connections, what was written, what the peer has sent on the last one and what of it was read
    ioUser      \* what the user has asked for and been told

socketVars == <<platform, socketio, work, network, ioUser>>

MessageUnits(id) == <<<<id, 1>>, <<id, 2>>>>
NoCallback == "none"
NotWorking == [pc |-> "idle", in |-> NoCallback]

\* connected through accept, on Windows, or to be connected by name
SocketsInit ==
    /\ platform \in Platforms
    /\ \E accepted \in IF platform = "win32" THEN {0, 1} ELSE {0} :
         /\ socketio = [state |-> "CLOSED", socket |-> accepted, named |-> accepted = 0, pending |-> <<>>]
         /\ network = [connected |-> {accepted} \ {0}, count |-> accepted, wire |-> <<>>, arrived |-> 0, read |-> 0,
                       lost |-> {}, fault |-> FALSE]
    /\ work = NotWorking
    /\ ioUser = [sends |-> 0, accepted |-> {}, completed |-> <<>>, received |-> <<>>, opens |-> 0, opened |-> FALSE,
                 inside |-> 0, alive |-> TRUE]

\* outside of callbacks, or a call that may be made from inside
MayCall(call) ==
    /\ ioUser.alive
    /\ \/ work = NotWorking
       \/ work.in # NoCallback /\ call \in Reenter[platform] /\ ioUser.inside < MaxInside
Inside == IF work = NotWorking THEN ioUser.inside ELSE ioUser.inside + 1

-----------------------------------------------------------------------------
(* Opening and closing                                                      *)

\* An address that cannot be used is left out; of the others, each gets a socket of its own,
\* which is closed unless it connects: at once, or after a wait that does not time out.
validate_addrinfo(address) == address # "invalid"

\* slip: the socket of an address that does not answer stays open
connect_to_addrinfo_unclosed(tried, address) ==
    LET s == tried.count + 1
    IN  CASE address = "no_socket" -> tried
          [] address \in {"refused", "timeout", "select_fails"} -> [tried EXCEPT !.count = s, !.connected = @ \cup {s}]
          [] OTHER -> [tried EXCEPT !.count = s, !.connected = @ \cup {s}, !.socket = s]

connect_to_addrinfo(tried, address) ==
    LET s == tried.count + 1
    IN  CASE address = "no_socket" -> tried
          [] address \in {"refused", "timeout", "select_fails"} -> [tried EXCEPT !.count = s]
          [] OTHER -> [tried EXCEPT !.count = s, !.connected = @ \cup {s}, !.socket = s]

TryAddresses(addresses) ==
    LET Try(tried, address) ==
            IF tried.socket # 0 \/ ~validate_addrinfo(address) THEN tried ELSE connect_to_addrinfo(tried, address)
    IN  FoldLeft(Try, [count |-> network.count, connected |-> network.connected, socket |-> 0], addresses)

\* on mbed the connection is an object of its own, and nothing asks for the state
mbed_connect(address) ==
    LET s == network.count + 1
    IN  CASE address = "no_socket" -> [count |-> network.count, connected |-> network.connected, socket |-> 0]
          [] address \in {"refused", "timeout", "select_fails", "invalid"} ->
               [count |-> s, connected |-> network.connected, socket |-> 0]
          [] OTHER -> [count |-> s, connected |-> network.connected \cup {s}, socket |-> s]

\* the callback is called in every case
OpenReported(ok) == ioUser' = [ioUser EXCEPT !.opens = @ + 1, !.opened = ok, !.inside = Inside]

socketio_open(addresses) ==
    LET tried == IF platform = "mbed" THEN mbed_connect(Head(addresses)) ELSE TryAddresses(addresses)
        refused == platform = "win32" /\ socketio.state # "CLOSED"
        accepted == platform = "win32" /\ socketio.socket # 0
        unnamed == platform = "win32" /\ ~socketio.named
    IN  /\ MayCall("open") /\ ioUser.opens < MaxConnections
        /\ ioUser.opened => platform \in OpenTwice
        /\ IF refused \/ (unnamed /\ ~accepted) THEN OpenReported(FALSE) /\ UNCHANGED <<socketio, network>>
           ELSE IF accepted
           THEN /\ OpenReported(TRUE)
                /\ socketio' = [socketio EXCEPT !.state = "OPEN"]
                /\ UNCHANGED network
           ELSE /\ OpenReported(tried.socket # 0)
                /\ socketio' = [socketio EXCEPT !.socket = tried.socket, !.state = IF tried.socket # 0 THEN "OPEN" ELSE @]
                /\ network' = [network EXCEPT !.count = tried.count, !.connected = tried.connected,
                                              !.arrived = 0, !.read = 0]
        /\ UNCHANGED <<platform, work>>

\* pending_io_list stays as it is; on Windows a close of what is closed is answered too
socketio_close ==
    /\ MayCall("close")
    /\ socketio.state # "CLOSED" \/ platform = "win32"
    /\ IF socketio.state = "CLOSED" THEN UNCHANGED <<socketio, network>>
       ELSE /\ socketio' = [socketio EXCEPT !.socket = 0, !.state = "CLOSED"]
            /\ network' = [network EXCEPT !.connected = @ \ {socketio.socket}]
    /\ ioUser' = [ioUser EXCEPT !.opened = FALSE, !.inside = Inside]
    /\ UNCHANGED <<platform, work>>

\* whatever is pending goes without a word
socketio_destroy ==
    /\ MayCall("destroy")
    /\ network' = [network EXCEPT !.connected = @ \ {socketio.socket}, !.lost = @ \cup {socketio.pending[i].id : i \in DOMAIN socketio.pending}]
    /\ socketio' = [socketio EXCEPT !.socket = 0, !.state = "CLOSED", !.pending = <<>>]
    /\ ioUser' = [ioUser EXCEPT !.alive = FALSE, !.opened = FALSE]
    /\ UNCHANGED <<platform, work>>

-----------------------------------------------------------------------------
(* Sending                                                                  *)

\* What send may do.  Winsock leaves the error of an earlier call behind when it takes only
\* a part, so that any of the outcomes of a failure may follow.
SendOutcomes(function) ==
    {"all", "would_block", "fails"} \cup IF <<platform, function>> \in Partial THEN {"part_would_block", "part_fails"} ELSE {}
IsPart(outcome) == outcome \in {"part_would_block", "part_fails"}
TryAgain(outcome) == outcome \in {"would_block", "part_would_block"}

Written(data, outcome) ==
    IF outcome = "all" THEN data ELSE IF IsPart(outcome) THEN <<Head(data)>> ELSE <<>>

add_pending_io(id, data) == [socketio EXCEPT !.pending = Append(@, [id |-> id, data |-> data])]

\* a message goes behind those that wait
QueuedBefore == socketio.pending # <<>>

\* On Windows the whole message is queued when the network takes no more of it, and refused
\* when it fails; on mbed the rest is queued in either case.
socketio_send(outcome, allocates) ==
    LET id == ioUser.sends + 1
        data == MessageUnits(id)
        rest == SubSeq(data, Len(Written(data, outcome)) + 1, 2)
        queues == QueuedBefore \/ (outcome # "all" /\ (platform = "mbed" \/ TryAgain(outcome)))
        ok == (queues /\ allocates) \/ (~QueuedBefore /\ outcome = "all")
    IN  /\ MayCall("send") /\ id <= MaxOut
        /\ socketio.state = "OPEN"
        /\ outcome \in SendOutcomes("send")
        /\ network' = IF QueuedBefore THEN network ELSE [network EXCEPT !.wire = @ \o Written(data, outcome)]
        /\ socketio' = IF queues /\ allocates
                       THEN add_pending_io(id, IF QueuedBefore \/ platform = "win32" THEN data ELSE rest)
                       ELSE socketio
        /\ ioUser' = [ioUser EXCEPT !.sends = id, !.inside = Inside, !.accepted = IF ok THEN @ \cup {id} ELSE @,
                                    !.completed = IF ok /\ ~queues THEN Append(@, id) ELSE @]
        /\ UNCHANGED <<platform, work>>

-----------------------------------------------------------------------------
(* socketio_dowork                                                          *)

socketio_dowork ==
    /\ ioUser.alive /\ work = NotWorking /\ socketio.state = "OPEN"
    /\ work' = [work EXCEPT !.pc = "sending"]
    /\ UNCHANGED <<platform, socketio, network, ioUser>>

Working(pc) == work.pc = pc /\ work.in = NoCallback /\ ~network.fault

\* The first message.  On Windows it is tried until it is taken, and dropped when that
\* fails, also because a callback has closed the socket; on mbed what was taken of it is
\* moved out of the buffer, whose size stays, and a failure is reported.
dowork_send(outcome) ==
    LET item == Head(socketio.pending)
        shifted == [item EXCEPT !.data = Tail(@) \o <<Last(@)>>]
    IN  /\ Working("sending") /\ socketio.pending # <<>>
        /\ outcome \in SendOutcomes("dowork")
        /\ socketio.socket = 0 /\ platform = "win32" => outcome = "fails"
        /\ IF socketio.socket = 0 /\ platform = "mbed"
           THEN network' = [network EXCEPT !.fault = TRUE] /\ UNCHANGED <<socketio, work, ioUser>>
           ELSE CASE outcome = "all" ->
                       /\ network' = [network EXCEPT !.wire = @ \o item.data]
                       /\ ioUser' = [ioUser EXCEPT !.completed = Append(@, item.id)]
                       /\ work' = [work EXCEPT !.in = "on_send_complete"]
                       /\ UNCHANGED socketio
                  [] outcome # "all" /\ platform = "win32" ->
                       /\ network' = [network EXCEPT !.wire = @ \o Written(item.data, outcome),
                                                     !.lost = IF TryAgain(outcome) THEN @ ELSE @ \cup {item.id}]
                       /\ socketio' = [socketio EXCEPT !.pending = IF TryAgain(outcome) THEN @ ELSE Tail(@)]
                       /\ UNCHANGED <<work, ioUser>>
                  [] IsPart(outcome) /\ platform = "mbed" ->
                       /\ network' = [network EXCEPT !.wire = @ \o Written(item.data, outcome)]
                       /\ socketio' = [socketio EXCEPT !.pending = <<shifted>> \o Tail(@)]
                       /\ UNCHANGED <<work, ioUser>>
                  [] OTHER ->
                       /\ socketio' = [socketio EXCEPT !.state = IF outcome = "fails" THEN "ERROR" ELSE @]
                       /\ work' = [pc |-> "receiving", in |-> IF outcome = "fails" THEN "on_io_error" ELSE NoCallback]
                       /\ UNCHANGED <<network, ioUser>>
        /\ UNCHANGED platform

dowork_sent ==
    /\ Working("sending") /\ socketio.pending = <<>>
    /\ work' = IF platform = "win32" /\ socketio.state # "OPEN" THEN NotWorking ELSE [work EXCEPT !.pc = "receiving"]
    /\ UNCHANGED <<platform, socketio, network, ioUser>>

\* What was received is handed up.  On Windows the end of the connection and errors are
\* reported, each time; on mbed neither is, only a buffer that cannot be allocated.
dowork_receive(outcome) ==
    /\ Working("receiving")
    /\ IF socketio.socket = 0 THEN outcome = "nothing" /\ network' = [network EXCEPT !.fault = TRUE] /\ UNCHANGED <<work, ioUser>>
       ELSE \/ /\ outcome = "piece" /\ network.read < network.arrived
               /\ network' = [network EXCEPT !.read = @ + 1]
               /\ ioUser' = [ioUser EXCEPT !.received = Append(@, <<socketio.socket, network.read + 1, socketio.state>>)]
               /\ work' = [work EXCEPT !.in = "on_bytes_received"]
            \/ /\ outcome \in {"nothing", "ended"}
               /\ work' = NotWorking
               /\ UNCHANGED <<network, ioUser>>
            \/ /\ outcome = "no_buffer" /\ platform = "mbed"
               /\ work' = [work EXCEPT !.in = "on_io_error"]
               /\ UNCHANGED <<network, ioUser>>
    /\ UNCHANGED <<platform, socketio>>

\* The message is removed only now; on Windows a closed socket is not read any more.
dowork_callback_returns ==
    /\ work.in # NoCallback
    /\ socketio' = [socketio EXCEPT !.pending = IF work.in = "on_send_complete" THEN Tail(@) ELSE @]
    /\ work' = IF work.in = "on_bytes_received" /\ platform = "win32" /\ socketio.state # "OPEN" THEN NotWorking
               ELSE [work EXCEPT !.in = NoCallback]
    /\ UNCHANGED <<platform, network, ioUser>>

PeerSends ==
    /\ socketio.socket # 0 /\ network.arrived < MaxIn
    /\ network' = [network EXCEPT !.arrived = @ + 1]
    /\ UNCHANGED <<platform, socketio, work, ioUser>>

SocketsNext ==
    \/ \E addresses \in Hosts : socketio_open(addresses)
    \/ socketio_close
    \/ socketio_destroy
    \/ \E outcome \in SendOutcomes("send"), allocates \in BOOLEAN : socketio_send(outcome, allocates)
    \/ socketio_dowork
    \/ \E outcome \in SendOutcomes("dowork") : dowork_send(outcome)
    \/ dowork_sent
    \/ \E outcome \in {"piece", "nothing", "ended", "no_buffer"} : dowork_receive(outcome)
    \/ dowork_callback_returns
    \/ PeerSends

-----------------------------------------------------------------------------
(* Properties.                                                              *)

\* Whatever callbacks do, messages are written whole and in the order in which they were
\* accepted, and completed once when they are; only of a message that was then refused may a
\* part have been written.  One that was accepted waits, is completed, or
\* met a send that failed.  Every socket but the one in use is closed, whichever addresses
\* were tried.  What the peer sent on a connection comes in order and, on Windows, only
\* while the socket is open.
SocketsAsAsked ==
    LET wire == network.wire
        waiting == {socketio.pending[i].id : i \in DOMAIN socketio.pending}
    IN  /\ ~network.fault
        /\ \A k \in DOMAIN wire :
             IF wire[k][2] = 2 THEN k > 1 /\ wire[k - 1] = <<wire[k][1], 1>>
             ELSE k > 1 => wire[k - 1][1] < wire[k][1] /\ (wire[k - 1][2] = 1 => wire[k - 1][1] \notin ioUser.accepted)
        /\ ioUser.completed = [k \in DOMAIN SelectSeq(wire, LAMBDA u : u[2] = 2) |-> SelectSeq(wire, LAMBDA u : u[2] = 2)[k][1]]
        /\ ioUser.accepted = ToSet(ioUser.completed) \cup waiting \cup network.lost
        /\ network.connected = {socketio.socket} \ {0}
        /\ \A k \in DOMAIN ioUser.received :
             LET now == ioUser.received[k]
                 before == IF k = 1 THEN <<0, 0>> ELSE ioUser.received[k - 1]
             IN  IF now[1] = before[1] THEN now[2] = before[2] + 1 ELSE now[2] = 1 /\ now[1] > before[1]
        /\ platform = "win32" => \A k \in DOMAIN ioUser.received : ioUser.received[k][3] = "OPEN"

=============================================================================
