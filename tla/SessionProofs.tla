--------------------------- MODULE SessionProofs ---------------------------
(***************************************************************************)
(* What a user of the WebSocket client over a socket is told: every open   *)
(* is answered once, a closed client has released its socket, every send   *)
(* is settled by the end, and the close of a session is answered once.     *)
(* For every peer, every number of calls from inside callbacks, and every  *)
(* way of cutting the bytes; each theorem names what else it assumes.      *)
(*                                                                         *)
(* The invariant says for every function that may be running in which      *)
(* states it runs and what is beneath it.  What waits further down was     *)
(* left under a callback in which the user may have closed the connection: *)
(* it must be harmless in every state that the user can bring about.       *)
(***************************************************************************)
EXTENDS WsConnectionProofs

\* The connection: a socket and the client, whose callbacks do not open it again.
SocketClient ==
    /\ Layers = <<"socket", "uws">>
    /\ "open" \notin ReentrantCalls

-----------------------------------------------------------------------------
(* What waits on the stack.                                                 *)

Is(f, l, g) == f.at = l /\ f.fn = g

\* functions that go on only if the call they made has failed, which an open or a close of the
\* socket never does, and a send only before it has called back
Awaiting ==
    {"return", "xio_open_returned", "answer_sent", "frame_sent", "close_async_closed", "close_or_error",
     "close_or_complete", "close_sent_closed"}

Callbacks == UwsCallbacks \ {"on_ws_open_complete", "on_ws_close_complete"}

\* Frames that are harmless in any settled state, whatever has happened since they were left.
\* A frame whose header was read before an error was reported may still change the state.
Resumable(f) ==
    \/ f.at = "socket" /\ f.fn \in {"dowork", "dowork_sent", "dowork_receive", "destroy"}
    \/ f.at \in {"socket", "uws"} /\ f.fn \in Awaiting /\ f.ret = 0
    \/ f.at = "uws" /\ f.fn \in {"decode_stream", "decode_frame", "message_done",
                                 "consume_stream_buffer_bytes", "clear_pending_sends",
                                 "call_on_ws_close_complete", "set_closed", "undefined"}
    \/ f.at = "user" /\ f.fn \in Callbacks \cup {"in_callback"}
    \/ Is(f, "user", "returned") /\ f.ret = 0

\* what waits beneath the running frame
Beneath == Tail(stack)

\* what a frame means to the rest of the connection
Role(f) ==
    CASE Is(f, "uws", "set_closed") -> "settling"
      [] Is(f, "uws", "decode_frame") -> "decoding"
      [] Is(f, "uws", "clear_pending_sends") -> "clearing"
      [] Is(f, "uws", "call_on_ws_close_complete") \/ Is(f, "user", "on_ws_close_complete") -> "telling"
      [] Is(f, "user", "returned") /\ f.arg = "close" /\ f.ret = 0 -> IF f.n = 1 THEN "closed" ELSE "stray"
      [] Is(f, "user", "returned") /\ f.arg = "close_null" /\ f.ret = 0 ->
           IF f.n = 1 THEN "closed_null" ELSE "stray"
      [] OTHER -> "none"

Has(s, role) == \E i \in DOMAIN s : Role(s[i]) = role

\* no frame of the one role runs above one of the other
Apart(s, role, other) ==
    \A i, j \in DOMAIN s : i < j => ~(Role(s[i]) = role /\ Role(s[j]) = other)

\* Frames that wait while the client is in the given state: the assignment of CLOSED that is
\* still to come finds that state, and nothing above it leaves it.
Waiting(s, state) ==
    /\ \A i \in DOMAIN s : Resumable(s[i])
    /\ Has(s, "settling") => state = "CLOSED"
    /\ Apart(s, "decoding", "settling")

-----------------------------------------------------------------------------
(* The state, whenever the user may act.                                    *)

\* The open of this session has been answered, or the user has closed it.
Told == session > 0 /\ (alive => openReports[session] = 1 \/ session \in closing)

Settled ==
    /\ uws_state \notin {"OPENING_UNDERLYING_IO", "CLOSING_UNDERLYING_IO"}
    /\ session = 0 => uws_state = "CLOSED"
    /\ uws_state = "CLOSED" => ~connected
    /\ uws_state = "WAITING_FOR_UPGRADE_RESPONSE" => openReports[session] = 0
    /\ uws_state = "OPEN" => openReports[session] = 1
    /\ uws_state \in {"CLOSED", "CLOSING_WAITING_FOR_CLOSE", "CLOSING_SENDING_CLOSE"} => session = 0 \/ Told

Books ==
    /\ sock_state = "OPEN" => connected
    /\ tls_state = "NOT_OPEN"
    /\ session <= opens
    /\ unopened = {}
    /\ \A s \in Sessions : openReports[s] <= 1 /\ (s = 0 \/ s > session => openReports[s] = 0)
    /\ ~MayBlock => pending_io_list = <<>> /\ (connected \/ sock_state = "CLOSED")

-----------------------------------------------------------------------------
(* What is running, and the state it runs in.  r is what waits below.       *)

Rest(r) == Waiting(r, uws_state) /\ (Has(r, "decoding") => Told)

\* nothing, or something that any settled state allows
Usual(s) ==
    /\ Settled
    /\ \/ Rest(s)
       \/ /\ s # <<>> /\ Rest(Tail(s))
          /\ \/ /\ Head(s).at = "uws"
                /\ Head(s).fn \in {"on_bytes_received", "on_io_error", "uws_client_dowork",
                                  "on_underlying_io_close_sent"}
             \/ Is(Head(s), "user", "on_ws_close_complete")
             \/ /\ Is(Head(s), "user", "returned")
                /\ Head(s).arg = "open" /\ Head(s).ret # 0 => Head(s).n # session

\* a call of the user that has not begun
Called(s) ==
    /\ Settled /\ s # <<>> /\ Head(s).at = "uws"
    /\ \/ Head(s).fn = "uws_client_destroy" /\ ~alive /\ Tail(s) = <<>>
       \/ /\ Tail(s) # <<>> /\ Is(Head(Tail(s)), "user", "returned") /\ Head(Tail(s)).ret = 0
          /\ alive /\ Rest(Tail(s))
          /\ \/ /\ Head(s).fn = "uws_client_open_async" /\ Head(Tail(s)).arg = "open"
                /\ Head(Tail(s)).n = session + 1 /\ session < opens /\ Tail(Tail(s)) = <<>>
             \/ /\ Head(s).fn = "uws_client_send_frame_async" /\ Head(Tail(s)).arg = "send"
                /\ Head(Tail(s)).n = Head(s).n
             \/ /\ Head(s).fn = "uws_client_close_async" /\ session \in closing
                /\ \/ Head(s).arg = "cb" /\ Head(Tail(s)).arg = "close"
                   \/ Head(s).arg = "NULL" /\ Head(Tail(s)).arg = "close_null"
                /\ Head(Tail(s)).n = session
             \/ /\ Head(s).fn = "uws_client_close_handshake_async" /\ session \in closing
                /\ Head(s).arg = "cb" /\ Head(Tail(s)).arg = "close" /\ Head(Tail(s)).n = session
       \/ /\ Head(s).fn = "uws_client_close_async" /\ Head(s).arg = "NULL" /\ ~alive
          /\ Tail(s) # <<>> /\ Is(Head(Tail(s)), "socket", "destroy") /\ Rest(Tail(s))

Unreported == session > 0 /\ openReports[session] = 0

\* the socket is being opened, and the upgrade request sent
Opens(s) ==
    /\ uws_state = "OPENING_UNDERLYING_IO" /\ Unreported
    /\ s # <<>> /\ Rest(Tail(s))
    /\ \/ Is(Head(s), "socket", "open") /\ ~connected
       \/ Is(Head(s), "uws", "on_io_open_complete") /\ (Head(s).arg = "ERROR" => ~connected)
       \/ Is(Head(s), "uws", "upgrade_request_sent")

OpensSending(s) ==
    /\ uws_state = "OPENING_UNDERLYING_IO" /\ Unreported
    /\ s # <<>> /\ Tail(s) # <<>> /\ Is(Head(Tail(s)), "uws", "upgrade_request_sent") /\ Rest(Tail(Tail(s)))
    /\ \/ Is(Head(s), "socket", "send") /\ Head(s).arg = "unchecked_on_send_complete"
       \/ Is(Head(s), "socket", "return") /\ Head(s).ret = 0

\* an open fails
OpenFails(s) ==
    /\ uws_state \in Opening /\ Unreported /\ s # <<>>
    /\ \/ Is(Head(s), "uws", "open_complete_error") /\ ~connected /\ Rest(Tail(s))
       \/ /\ Is(Head(s), "socket", "close") /\ Head(s).arg = "NULL"
          /\ Tail(s) # <<>> /\ Is(Head(Tail(s)), "uws", "open_complete_error") /\ Rest(Tail(Tail(s)))

\* the answer to an open
OpenTold(s) ==
    /\ uws_state = "OPEN" \/ (uws_state = "CLOSED" /\ ~connected)
    /\ Unreported
    /\ s # <<>> /\ Is(Head(s), "user", "on_ws_open_complete") /\ Rest(Tail(s))

\* the frames that a failed send does not matter to
Careless(f) ==
    \/ Is(f, "uws", "consume_stream_buffer_bytes") \/ Is(f, "user", "on_ws_error")
    \/ Is(f, "user", "returned") /\ f.arg = "close"

\* something is being sent, and maybe completed
Sending(s) ==
    /\ Settled /\ s # <<>>
    /\ \/ /\ Is(Head(s), "socket", "send") /\ Head(s).arg = "unchecked_on_send_complete"
          /\ Tail(s) # <<>> /\ Careless(Head(Tail(s))) /\ Rest(Tail(s))
       \/ /\ Is(Head(s), "socket", "send") /\ Head(s).arg = "on_underlying_io_close_sent"
          /\ uws_state = "CLOSING_SENDING_CLOSE"
          /\ Tail(s) # <<>> /\ Is(Head(Tail(s)), "uws", "answer_sent") /\ Rest(Tail(s))
       \/ /\ Is(Head(s), "uws", "answer_sent") /\ uws_state = "CLOSING_SENDING_CLOSE" /\ Rest(Tail(s))
       \/ /\ Is(Head(s), "socket", "send") /\ Head(s).arg = "on_underlying_io_send_complete"
          /\ Tail(s) # <<>> /\ Is(Head(Tail(s)), "uws", "frame_sent")
          /\ Head(Tail(s)).n = Head(s).n
          /\ Tail(Tail(s)) # <<>> /\ Is(Head(Tail(Tail(s))), "user", "returned")
          /\ Head(Tail(Tail(s))).arg = "send" /\ Head(Tail(Tail(s))).n = Head(s).n /\ Rest(Tail(s))
       \/ /\ Is(Head(s), "uws", "frame_sent") /\ Rest(Tail(s))
          /\ Tail(s) # <<>> /\ Is(Head(Tail(s)), "user", "returned") /\ Head(Tail(s)).arg = "send"
          /\ Head(Tail(s)).n = Head(s).n
       \/ /\ Is(Head(s), "uws", "on_underlying_io_send_complete") /\ uws_state # "CLOSED" /\ Rest(Tail(s))

\* a frame is being decoded, or an error reported: the state may change
Decodes(s) ==
    /\ Settled /\ s # <<>> /\ Head(s).at = "uws" /\ Rest(Tail(s)) /\ ~Has(Tail(s), "settling")
    /\ \/ Head(s).fn = "frame" /\ Told
       \/ Head(s).fn \in {"indicate_ws_error", "indicate_ws_error_and_close"} /\ session > 0

\* the socket is being closed for the client
Closes(s) ==
    /\ s # <<>> /\ Told
    /\ \/ /\ Is(Head(s), "socket", "close") /\ Head(s).arg = "close_complete"
          /\ uws_state = "CLOSING_UNDERLYING_IO" /\ Rest(Tail(s))
       \/ /\ Is(Head(s), "uws", "on_io_close_complete") /\ ~connected
          /\ uws_state = "CLOSING_UNDERLYING_IO" /\ Rest(Tail(s))
       \/ /\ Is(Head(s), "uws", "indicate_ws_close_complete") /\ ~connected
          /\ uws_state = "CLOSING_UNDERLYING_IO"
          /\ Tail(s) # <<>> /\ Is(Head(Tail(s)), "uws", "set_closed") /\ Rest(Tail(Tail(s)))
       \/ /\ Is(Head(s), "uws", "indicate_ws_close_complete") /\ ~connected
          /\ uws_state \in Closing /\ Rest(Tail(s))
       \/ /\ Is(Head(s), "socket", "close") /\ Head(s).arg = "NULL" /\ uws_state \in Closing
          /\ Tail(s) # <<>> /\ Is(Head(Tail(s)), "uws", "indicate_ws_close_complete") /\ Rest(Tail(Tail(s)))

Place(s) ==
    \/ Usual(s) \/ Called(s) \/ Opens(s) \/ OpensSending(s) \/ OpenFails(s) \/ OpenTold(s)
    \/ Sending(s) \/ Decodes(s) \/ Closes(s)

SessionInv == Books /\ Place(stack)

-----------------------------------------------------------------------------
(* Sends.                                                                   *)

\* the send that the running frame is about to refuse or to report
InHand(i) ==
    /\ stack # <<>> /\ Top.n = i
    /\ \/ Is(Top, "uws", "uws_client_send_frame_async")
       \/ Is(Top, "user", "on_ws_send_frame_complete")
       \/ Is(Top, "user", "returned") /\ Top.arg = "send" /\ Top.ret # 0
       \/ Is(Top, "uws", "frame_sent") /\ Top.ret # 0

\* Until undefined behaviour has been met, every send has been reported
\* or refused, or is still listed, or is in the hands of the running frame.  A state that lists
\* nothing is entered with clear_pending_sends on the stack, and left by an open only.
SettleInv ==
    faults = {} =>
        /\ \A i \in 1 .. sends : completions[i] > 0 \/ i \in refused \/ Listed(i) \/ InHand(i)
        /\ uws_state \in Opening \cup {"CLOSED"} => pending_sends = <<>> \/ Has(stack, "clearing")
        /\ ~alive => \/ pending_sends = <<>> \/ Has(stack, "clearing")
                     \/ stack # <<>> /\ Is(Top, "uws", "uws_client_destroy")

-----------------------------------------------------------------------------
(* Closes.                                                                  *)

\* One session, with a peer that does not mask its frames.  uws_client_open_async keeps the
\* on_ws_close_complete of the session before, and the frame after a masked one is decoded
\* whatever the user did when the mask was reported.
OneSession == MaxOpens = 1 /\ \A u \in Unit : u.flaw # "masked"

\* The session has ended.
Over == uws_state = "CLOSED" /\ session > 0

\* functions that go on with a session, whatever the state
Changing == {"decode_frame", "frame", "indicate_ws_error", "indicate_ws_error_and_close"}

\* A close is reported once, by the one frame that is to do it.
ReportInv ==
    /\ on_ws_close_complete # 0 =>
          on_ws_close_complete = session /\ session \in closing /\ uws_state \notin Opening
    /\ \A s \in Sessions : s # session \/ ~Over => closeReports[s] = 0
    /\ ~Over => ~Has(stack, "telling")
    /\ Over => /\ Apart(stack, "telling", "telling")
               /\ closeReports[session] =
                    IF on_ws_close_complete = 0 \/ Has(stack, "telling") THEN 0 ELSE 1
    /\ stack # <<>> =>
          /\ Is(Top, "user", "on_ws_close_complete") => Top.n = on_ws_close_complete /\ Top.n # 0
          /\ Top.at = "uws" /\ Top.fn \in Changing => uws_state # "CLOSED"
          /\ ~Has(Beneath, "decoding")

\* what is beneath a close that has not begun
CloseCalls == {"uws_client_close_async", "uws_client_close_handshake_async"}
Begun(s) ==
    IF s # <<>> /\ Head(s).at = "uws" /\ Head(s).fn \in CloseCalls THEN Tail(Tail(s)) ELSE s

\* uws_client_close_handshake_async has done its part, and the user hears of it next
Handshaking(s) ==
    /\ uws_state = "CLOSING_WAITING_FOR_CLOSE" /\ s # <<>>
    /\ ~Has(Tail(s), "closed_null")
    /\ \/ /\ Head(s).at = "socket" /\ Head(s).fn \in {"send", "return"}
          /\ Tail(s) # <<>> /\ Role(Head(Tail(s))) = "closed" /\ ~Has(Tail(Tail(s)), "closed")
       \/ Role(Head(s)) = "closed" /\ ~Has(Tail(s), "closed")

\* A close that was accepted and not taken back has a callback to call.
AskInv ==
    /\ asked \subseteq {1}
    /\ 1 \in asked /\ alive => on_ws_close_complete # 0 \/ Has(Begun(stack), "closed_null")
    /\ ~Has(Begun(stack), "stray")
    /\ Has(Begun(stack), "closed") => on_ws_close_complete # 0
    /\ Has(Begun(stack), "closed") \/ Has(Begun(stack), "closed_null") =>
          Over \/ uws_state = "CLOSING_UNDERLYING_IO" \/ Handshaking(stack)

CloseInv == ReportInv /\ AskInv

-----------------------------------------------------------------------------
(* Stacks, frame by frame.                                                  *)

\* u is the stack t with the frame a on top
OnTop(u, a, t) ==
    /\ u # <<>> /\ Head(u) = a /\ Tail(u) = t
    /\ \A role : Has(u, role) <=> Role(a) = role \/ Has(t, role)
    /\ \A role, other : Apart(u, role, other) <=>
                          Apart(t, role, other) /\ ~(Role(a) = role /\ Has(t, other))
    /\ \A state : Waiting(u, state) <=>
                    /\ Waiting(t, state)
                    /\ Resumable(a)
                    /\ Role(a) = "settling" => state = "CLOSED"
                    /\ ~(Role(a) = "decoding" /\ Has(t, "settling"))

\* A frame can be told from those beneath it.
LEMMA ConsParts ==
    ASSUME NEW S, NEW s \in Seq(S), NEW a \in S
    PROVE  LET u == <<a>> \o s
           IN  /\ u \in Seq(S) /\ u # <<>> /\ Head(u) = a /\ Tail(u) = s
               /\ DOMAIN u = 1 .. Len(s) + 1 /\ DOMAIN s = 1 .. Len(s) /\ Len(s) \in Nat
               /\ u[1] = a /\ \A i \in 1 .. Len(s) : u[i + 1] = s[i]
  <1> DEFINE u == <<a>> \o s
  <1>1. u \in Seq(S) /\ Len(u) = Len(s) + 1 /\ Len(s) \in Nat /\ DOMAIN s = 1 .. Len(s)
    OBVIOUS
  <1>2. u[1] = a /\ \A i \in 1 .. Len(s) : u[i + 1] = s[i]
    OBVIOUS
  <1> HIDE DEF u
  <1>3. u # <<>> /\ Head(u) = a /\ DOMAIN u = 1 .. Len(s) + 1
    BY <1>1, <1>2
  <1>4. Tail(u) = s
    <2>1. Tail(u) \in Seq(S) /\ Len(Tail(u)) = Len(s)
      BY <1>1, <1>3
    <2>2. \A i \in 1 .. Len(s) : Tail(u)[i] = s[i]
      BY <1>1, <1>2, <1>3
    <2> QED
      BY <1>1, <2>1, <2>2
  <1> QED
    BY <1>1, <1>2, <1>3, <1>4 DEF u

LEMMA ConsOnTop ==
    ASSUME NEW S, NEW s \in Seq(S), NEW a
    PROVE  OnTop(<<a>> \o s, a, s) /\ <<a>> \o s \in Seq(S \cup {a})
  <1> DEFINE u == <<a>> \o s
             T == S \cup {a}
  <1>0. s \in Seq(T) /\ a \in T
    <2>1. S \subseteq T /\ a \in T
      OBVIOUS
    <2> HIDE DEF T
    <2>2. Len(s) \in Nat /\ DOMAIN s = 1 .. Len(s) /\ \A i \in 1 .. Len(s) : s[i] \in S
      OBVIOUS
    <2>3. \A i \in 1 .. Len(s) : s[i] \in T
      BY <2>1, <2>2
    <2> QED
      BY <2>1, <2>2, <2>3
  <1> HIDE DEF T
  <1>1. /\ u \in Seq(T) /\ u # <<>> /\ Head(u) = a /\ Tail(u) = s
        /\ DOMAIN u = 1 .. Len(s) + 1 /\ DOMAIN s = 1 .. Len(s) /\ Len(s) \in Nat
        /\ u[1] = a /\ \A i \in 1 .. Len(s) : u[i + 1] = s[i]
    BY <1>0, ConsParts
  <1> HIDE DEF u
  <1>2. \A i \in DOMAIN u : i = 1 \/ (i - 1 \in 1 .. Len(s) /\ u[i] = s[i - 1])
    <2> SUFFICES ASSUME NEW i \in DOMAIN u, i # 1
                 PROVE  i - 1 \in 1 .. Len(s) /\ u[i] = s[i - 1]
      OBVIOUS
    <2>1. i - 1 \in 1 .. Len(s) /\ i = (i - 1) + 1
      BY <1>1
    <2> QED
      BY <1>1, <2>1
  <1>3. \A role : Has(u, role) <=> Role(a) = role \/ Has(s, role)
    <2> SUFFICES ASSUME NEW role
                 PROVE  Has(u, role) <=> Role(a) = role \/ Has(s, role)
      OBVIOUS
    <2>1. ASSUME Has(u, role) PROVE Role(a) = role \/ Has(s, role)
      <3>1. PICK i \in DOMAIN u : Role(u[i]) = role
        BY <2>1 DEF Has
      <3> QED
        BY <1>1, <1>2, <3>1 DEF Has
    <2>2. ASSUME Role(a) = role PROVE Has(u, role)
      <3>1. 1 \in DOMAIN u
        BY <1>1
      <3> QED
        BY <1>1, <2>2, <3>1 DEF Has
    <2>3. ASSUME Has(s, role) PROVE Has(u, role)
      <3>1. PICK i \in 1 .. Len(s) : Role(s[i]) = role
        BY <1>1, <2>3 DEF Has
      <3>2. i + 1 \in DOMAIN u /\ u[i + 1] = s[i]
        BY <1>1
      <3> QED
        BY <3>1, <3>2 DEF Has
    <2> QED
      BY <2>1, <2>2, <2>3
  <1>4. \A role, other : Apart(u, role, other) <=>
                           Apart(s, role, other) /\ ~(Role(a) = role /\ Has(s, other))
    <2> SUFFICES ASSUME NEW role, NEW other
                 PROVE  Apart(u, role, other) <=>
                          Apart(s, role, other) /\ ~(Role(a) = role /\ Has(s, other))
      OBVIOUS
    <2>1. ASSUME Apart(u, role, other), NEW i \in 1 .. Len(s), NEW j \in 1 .. Len(s), i < j
          PROVE  ~(Role(s[i]) = role /\ Role(s[j]) = other)
      <3>1. i + 1 \in DOMAIN u /\ j + 1 \in DOMAIN u /\ i + 1 < j + 1
        BY <1>1, <2>1
      <3> QED
        BY <1>1, <2>1, <3>1 DEF Apart
    <2>2. ASSUME Apart(u, role, other), NEW j \in 1 .. Len(s)
          PROVE  ~(Role(a) = role /\ Role(s[j]) = other)
      <3>1. 1 \in DOMAIN u /\ j + 1 \in DOMAIN u /\ 1 < j + 1
        BY <1>1
      <3> QED
        BY <1>1, <2>2, <3>1 DEF Apart
    <2>3. ASSUME Apart(s, role, other), ~(Role(a) = role /\ Has(s, other)),
                 NEW i \in DOMAIN u, NEW j \in DOMAIN u, i < j
          PROVE  ~(Role(u[i]) = role /\ Role(u[j]) = other)
      <3>1. j # 1 /\ j - 1 \in 1 .. Len(s) /\ u[j] = s[j - 1]
        BY <1>1, <1>2, <2>3
      <3>2. CASE i = 1
        BY <1>1, <2>3, <3>1, <3>2 DEF Has
      <3>3. CASE i # 1
        <4>1. i - 1 \in 1 .. Len(s) /\ u[i] = s[i - 1] /\ i - 1 < j - 1
          BY <1>1, <1>2, <2>3, <3>3
        <4> QED
          BY <1>1, <2>3, <3>1, <4>1 DEF Apart
      <3> QED
        BY <3>2, <3>3
    <2>4. ASSUME Apart(u, role, other) PROVE Apart(s, role, other)
      BY <1>1, <2>1, <2>4 DEF Apart
    <2>5. ASSUME Apart(u, role, other) PROVE ~(Role(a) = role /\ Has(s, other))
      BY <1>1, <2>2, <2>5 DEF Has
    <2>6. ASSUME Apart(s, role, other), ~(Role(a) = role /\ Has(s, other)) PROVE Apart(u, role, other)
      BY <2>3, <2>6 DEF Apart
    <2> QED
      BY <2>4, <2>5, <2>6
  <1>5. (\A i \in DOMAIN u : Resumable(u[i])) <=> (Resumable(a) /\ \A i \in DOMAIN s : Resumable(s[i]))
    <2>1. ASSUME \A i \in DOMAIN u : Resumable(u[i])
          PROVE  Resumable(a) /\ \A i \in DOMAIN s : Resumable(s[i])
      <3>1. 1 \in DOMAIN u /\ \A i \in 1 .. Len(s) : i + 1 \in DOMAIN u
        BY <1>1
      <3> QED
        BY <1>1, <2>1, <3>1
    <2>2. ASSUME Resumable(a), \A i \in DOMAIN s : Resumable(s[i]), NEW i \in DOMAIN u
          PROVE  Resumable(u[i])
      BY <1>1, <1>2, <2>2
    <2> QED
      BY <2>1, <2>2
  <1>6. \A state : Waiting(u, state) <=>
                     /\ Waiting(s, state)
                     /\ Resumable(a)
                     /\ Role(a) = "settling" => state = "CLOSED"
                     /\ ~(Role(a) = "decoding" /\ Has(s, "settling"))
    BY <1>3, <1>4, <1>5 DEF Waiting
  <1> QED
    BY <1>1, <1>3, <1>4, <1>6 DEF OnTop, u, T

LEMMA NothingWaits ==
    /\ \A state : Waiting(<<>>, state)
    /\ \A role : ~Has(<<>>, role)
    /\ \A role, other : Apart(<<>>, role, other)
  BY DEF Waiting, Has, Apart

\* a stack is its first frame on top of the others
LEMMA TopOnTop ==
    ASSUME NEW S, NEW s \in Seq(S), s # <<>>
    PROVE  OnTop(s, Head(s), Tail(s)) /\ Tail(s) \in Seq(S) /\ Head(s) \in S
  <1>1. Tail(s) \in Seq(S) /\ Head(s) \in S
    OBVIOUS
  <1> DEFINE u == <<Head(s)>> \o Tail(s)
  <1>2. s = u
    <2>1. u \in Seq(S) /\ u[1] = Head(s) /\ Len(u) = Len(s)
      OBVIOUS
    <2>2. ASSUME NEW i \in 1 .. Len(s)
          PROVE  u[i] = s[i]
      OBVIOUS
    <2> HIDE DEF u
    <2> QED
      BY <2>1, <2>2
  <1>3. OnTop(u, Head(s), Tail(s))
    BY <1>1, ConsOnTop
  <1> QED
    BY <1>1, <1>2, <1>3

-----------------------------------------------------------------------------
(* What control does to the stack.                                          *)

\* one to four frames on top of t
Stack1(u, a, t) == OnTop(u, a, t)
Stack2(u, a, b, t) == OnTop(u, a, Tail(u)) /\ OnTop(Tail(u), b, t)
Stack3(u, a, b, c, t) == OnTop(u, a, Tail(u)) /\ Stack2(Tail(u), b, c, t)
Stack4(u, a, b, c, d, t) == OnTop(u, a, Tail(u)) /\ Stack3(Tail(u), b, c, d, t)

LEMMA FlattenTwo ==
    ASSUME NEW S, NEW t \in Seq(S), NEW a, NEW b
    PROVE  <<a, b>> \o t = <<a>> \o (<<b>> \o t)
  <1> DEFINE T == S \cup {a, b}
             u == <<a, b>> \o t
             v == <<b>> \o t
             w == <<a>> \o v
  <1>1. t \in Seq(T) /\ a \in T /\ b \in T
    <2>1. Len(t) \in Nat /\ DOMAIN t = 1 .. Len(t) /\ \A i \in 1 .. Len(t) : t[i] \in S
      OBVIOUS
    <2>2. \A i \in 1 .. Len(t) : t[i] \in T
      BY <2>1
    <2>3. a \in T /\ b \in T
      OBVIOUS
    <2> HIDE DEF T
    <2> QED
      BY <2>1, <2>2, <2>3
  <1> HIDE DEF T
  <1>2. u \in Seq(T) /\ Len(u) = Len(t) + 2 /\ u[1] = a /\ u[2] = b
        /\ \A i \in 3 .. Len(t) + 2 : u[i] = t[i - 2]
    BY <1>1
  <1>3. v \in Seq(T) /\ Len(v) = Len(t) + 1 /\ v[1] = b /\ \A i \in 2 .. Len(t) + 1 : v[i] = t[i - 1]
    BY <1>1
  <1> HIDE DEF v
  <1>4. w \in Seq(T) /\ Len(w) = Len(t) + 2 /\ w[1] = a /\ \A i \in 2 .. Len(t) + 2 : w[i] = v[i - 1]
    BY <1>1, <1>3
  <1> HIDE DEF u, w
  <1>5. Len(t) \in Nat
    BY <1>1
  <1>6. ASSUME NEW i \in 1 .. Len(t) + 2
        PROVE  u[i] = w[i]
    <2>1. CASE i = 1
      BY <1>2, <1>4, <2>1
    <2>2. CASE i = 2
      <3>1. w[2] = v[1]
        BY <1>4, <1>5
      <3> QED
        BY <1>2, <1>3, <2>2, <3>1
    <2>3. CASE i \notin {1, 2}
      <3>1. i \in 3 .. Len(t) + 2 /\ i - 1 \in 2 .. Len(t) + 1 /\ (i - 1) - 1 = i - 2
        BY <1>5, <2>3
      <3>2. w[i] = v[i - 1] /\ v[i - 1] = t[i - 2]
        BY <1>3, <1>4, <3>1
      <3> QED
        BY <1>2, <3>1, <3>2
    <2> QED
      BY <2>1, <2>2, <2>3
  <1>7. u = w
    BY <1>2, <1>4, <1>6
  <1> QED
    BY <1>7 DEF u, v, w

LEMMA FlattenThree ==
    ASSUME NEW S, NEW t \in Seq(S), NEW a, NEW b, NEW c
    PROVE  <<a, b, c>> \o t = <<a, b>> \o (<<c>> \o t)
  <1> DEFINE T == S \cup {a, b, c}
             u == <<a, b, c>> \o t
             v == <<c>> \o t
             w == <<a, b>> \o v
  <1>1. t \in Seq(T) /\ a \in T /\ b \in T /\ c \in T
    <2>1. Len(t) \in Nat /\ DOMAIN t = 1 .. Len(t) /\ \A i \in 1 .. Len(t) : t[i] \in S
      OBVIOUS
    <2>2. \A i \in 1 .. Len(t) : t[i] \in T
      BY <2>1
    <2>3. a \in T /\ b \in T /\ c \in T
      OBVIOUS
    <2> HIDE DEF T
    <2> QED
      BY <2>1, <2>2, <2>3
  <1> HIDE DEF T
  <1>2. u \in Seq(T) /\ Len(u) = Len(t) + 3 /\ u[1] = a /\ u[2] = b /\ u[3] = c
        /\ \A i \in 4 .. Len(t) + 3 : u[i] = t[i - 3]
    BY <1>1
  <1>3. v \in Seq(T) /\ Len(v) = Len(t) + 1 /\ v[1] = c /\ \A i \in 2 .. Len(t) + 1 : v[i] = t[i - 1]
    BY <1>1
  <1> HIDE DEF v
  <1>4. w \in Seq(T) /\ Len(w) = Len(t) + 3 /\ w[1] = a /\ w[2] = b
        /\ \A i \in 3 .. Len(t) + 3 : w[i] = v[i - 2]
    BY <1>1, <1>3
  <1> HIDE DEF u, w
  <1>5. Len(t) \in Nat
    BY <1>1
  <1>6. ASSUME NEW i \in 1 .. Len(t) + 3
        PROVE  u[i] = w[i]
    <2>1. CASE i \in {1, 2}
      BY <1>2, <1>4, <2>1
    <2>2. CASE i = 3
      <3>1. w[3] = v[1]
        BY <1>4, <1>5
      <3> QED
        BY <1>2, <1>3, <2>2, <3>1
    <2>3. CASE i \notin {1, 2, 3}
      <3>1. i \in 4 .. Len(t) + 3 /\ i - 2 \in 2 .. Len(t) + 1 /\ (i - 2) - 1 = i - 3
        BY <1>5, <2>3
      <3>2. w[i] = v[i - 2] /\ v[i - 2] = t[i - 3]
        BY <1>3, <1>4, <3>1
      <3> QED
        BY <1>2, <3>1, <3>2
    <2> QED
      BY <2>1, <2>2, <2>3
  <1>7. u = w
    BY <1>2, <1>4, <1>6
  <1> QED
    BY <1>7 DEF u, v, w

LEMMA FlattenFour ==
    ASSUME NEW S, NEW t \in Seq(S), NEW a, NEW b, NEW c, NEW d
    PROVE  <<a, b, c, d>> \o t = <<a, b>> \o (<<c, d>> \o t)
  <1> DEFINE T == S \cup {a, b, c, d}
             u == <<a, b, c, d>> \o t
             v == <<c, d>> \o t
             w == <<a, b>> \o v
  <1>1. t \in Seq(T) /\ a \in T /\ b \in T /\ c \in T /\ d \in T
    <2>1. Len(t) \in Nat /\ DOMAIN t = 1 .. Len(t) /\ \A i \in 1 .. Len(t) : t[i] \in S
      OBVIOUS
    <2>2. \A i \in 1 .. Len(t) : t[i] \in T
      BY <2>1
    <2>3. a \in T /\ b \in T /\ c \in T /\ d \in T
      OBVIOUS
    <2> HIDE DEF T
    <2> QED
      BY <2>1, <2>2, <2>3
  <1> HIDE DEF T
  <1>2. u \in Seq(T) /\ Len(u) = Len(t) + 4 /\ u[1] = a /\ u[2] = b /\ u[3] = c /\ u[4] = d
        /\ \A i \in 5 .. Len(t) + 4 : u[i] = t[i - 4]
    BY <1>1
  <1>3. v \in Seq(T) /\ Len(v) = Len(t) + 2 /\ v[1] = c /\ v[2] = d
        /\ \A i \in 3 .. Len(t) + 2 : v[i] = t[i - 2]
    BY <1>1
  <1> HIDE DEF v
  <1>4. w \in Seq(T) /\ Len(w) = Len(t) + 4 /\ w[1] = a /\ w[2] = b
        /\ \A i \in 3 .. Len(t) + 4 : w[i] = v[i - 2]
    BY <1>1, <1>3
  <1> HIDE DEF u, w
  <1>5. Len(t) \in Nat
    BY <1>1
  <1>6. ASSUME NEW i \in 1 .. Len(t) + 4
        PROVE  u[i] = w[i]
    <2>1. CASE i \in {1, 2}
      BY <1>2, <1>4, <2>1
    <2>2. CASE i \in {3, 4}
      <3>1. w[3] = v[1] /\ w[4] = v[2]
        BY <1>4, <1>5
      <3> QED
        BY <1>2, <1>3, <2>2, <3>1
    <2>3. CASE i \notin {1, 2, 3, 4}
      <3>1. i \in 5 .. Len(t) + 4 /\ i - 2 \in 3 .. Len(t) + 2 /\ (i - 2) - 2 = i - 4
        BY <1>5, <2>3
      <3>2. w[i] = v[i - 2] /\ v[i - 2] = t[i - 4]
        BY <1>3, <1>4, <3>1
      <3> QED
        BY <1>2, <3>1, <3>2
    <2> QED
      BY <2>1, <2>2, <2>3
  <1>7. u = w
    BY <1>2, <1>4, <1>6
  <1> QED
    BY <1>7 DEF u, v, w

LEMMA StackTwo ==
    ASSUME NEW S, NEW t \in Seq(S), NEW a, NEW b
    PROVE  Stack2(<<a, b>> \o t, a, b, t) /\ <<a, b>> \o t \in Seq(S \cup {b} \cup {a})
  <1>1. OnTop(<<b>> \o t, b, t) /\ <<b>> \o t \in Seq(S \cup {b})
    BY ConsOnTop
  <1>2. OnTop(<<a>> \o (<<b>> \o t), a, <<b>> \o t) /\ <<a>> \o (<<b>> \o t) \in Seq(S \cup {b} \cup {a})
    BY <1>1, ConsOnTop
  <1>3. <<a, b>> \o t = <<a>> \o (<<b>> \o t)
    BY FlattenTwo
  <1>4. Tail(<<a, b>> \o t) = <<b>> \o t
    BY <1>2, <1>3 DEF OnTop
  <1> QED
    BY <1>1, <1>2, <1>3, <1>4 DEF Stack2

LEMMA StackThree ==
    ASSUME NEW S, NEW t \in Seq(S), NEW a, NEW b, NEW c
    PROVE  Stack3(<<a, b, c>> \o t, a, b, c, t)
  <1> DEFINE v == <<c>> \o t
             w == <<b>> \o v
  <1>1. OnTop(v, c, t) /\ v \in Seq(S \cup {c})
    BY ConsOnTop
  <1> HIDE DEF v
  <1>2. OnTop(w, b, v) /\ w \in Seq(S \cup {c} \cup {b})
    BY <1>1, ConsOnTop
  <1>3. <<a, b, c>> \o t = <<a, b>> \o v
    BY FlattenThree DEF v
  <1>4. <<a, b>> \o v = <<a>> \o w
    BY <1>1, FlattenTwo
  <1> HIDE DEF w
  <1>5. OnTop(<<a>> \o w, a, w)
    BY <1>2, ConsOnTop
  <1>6. Tail(<<a>> \o w) = w /\ Tail(w) = v
    BY <1>2, <1>5 DEF OnTop
  <1> QED
    BY <1>1, <1>2, <1>3, <1>4, <1>5, <1>6 DEF Stack3, Stack2

LEMMA StackFour ==
    ASSUME NEW S, NEW t \in Seq(S), NEW a, NEW b, NEW c, NEW d
    PROVE  Stack4(<<a, b, c, d>> \o t, a, b, c, d, t)
  <1> DEFINE v == <<c, d>> \o t
             w == <<b>> \o v
  <1>1. Stack2(v, c, d, t) /\ v \in Seq(S \cup {d} \cup {c})
    BY StackTwo
  <1> HIDE DEF v
  <1>2. OnTop(w, b, v) /\ w \in Seq(S \cup {d} \cup {c} \cup {b})
    BY <1>1, ConsOnTop
  <1>3. <<a, b, c, d>> \o t = <<a, b>> \o v
    BY FlattenFour DEF v
  <1>4. <<a, b>> \o v = <<a>> \o w
    BY <1>1, FlattenTwo
  <1> HIDE DEF w
  <1>5. OnTop(<<a>> \o w, a, w)
    BY <1>2, ConsOnTop
  <1>6. Tail(<<a>> \o w) = w /\ Tail(w) = v
    BY <1>2, <1>5 DEF OnTop
  <1> QED
    BY <1>1, <1>2, <1>3, <1>4, <1>5, <1>6 DEF Stack4, Stack3

LEMMA RunningTop ==
    ASSUME stack \in Seq(Frame), stack # <<>>
    PROVE  OnTop(stack, Top, Beneath) /\ Beneath \in Seq(Frame) /\ Top \in Frame
  BY TopOnTop DEF Top, Beneath

LEMMA Goto1 ==
    ASSUME stack \in Seq(Frame), stack # <<>>, NEW a, Goto(<<a>>)
    PROVE  Stack1(stack', a, Beneath)
  <1>1. Beneath \in Seq(Frame)
    BY RunningTop
  <1> QED
    BY <1>1, ConsOnTop DEF Goto, Stack1, Beneath

LEMMA Goto2 ==
    ASSUME stack \in Seq(Frame), stack # <<>>, NEW a, NEW b, Goto(<<a, b>>)
    PROVE  Stack2(stack', a, b, Beneath)
  <1>1. Beneath \in Seq(Frame)
    BY RunningTop
  <1> QED
    BY <1>1, StackTwo DEF Goto, Beneath

LEMMA Goto3 ==
    ASSUME stack \in Seq(Frame), stack # <<>>, NEW a, NEW b, NEW c, Goto(<<a, b, c>>)
    PROVE  Stack3(stack', a, b, c, Beneath)
  <1>1. Beneath \in Seq(Frame)
    BY RunningTop
  <1> QED
    BY <1>1, StackThree DEF Goto, Beneath

LEMMA Goto4 ==
    ASSUME stack \in Seq(Frame), stack # <<>>, NEW a, NEW b, NEW c, NEW d, Goto(<<a, b, c, d>>)
    PROVE  Stack4(stack', a, b, c, d, Beneath)
  <1>1. Beneath \in Seq(Frame)
    BY RunningTop
  <1> QED
    BY <1>1, StackFour DEF Goto, Beneath

LEMMA Goto0 ==
    ASSUME stack \in Seq(Frame), stack # <<>>
    PROVE  (Goto(<<>>) => stack' = Beneath) /\ (Pop => stack' = Beneath)
  <1>1. Beneath \in Seq(Frame)
    BY RunningTop
  <1> QED
    BY <1>1 DEF Goto, Pop, Beneath

\* the caller with the result
Given(f, v) == [f EXCEPT !.ret = v]

LEMMA ReturnTop ==
    ASSUME stack \in Seq(Frame), stack # <<>>, NEW v, Return(v)
    PROVE  \/ Beneath = <<>> /\ stack' = <<>>
           \/ /\ Beneath # <<>> /\ OnTop(Beneath, Head(Beneath), Tail(Beneath))
              /\ Head(Beneath) \in Frame
              /\ Stack1(stack', Given(Head(Beneath), v), Tail(Beneath))
  <1>1. Beneath \in Seq(Frame)
    BY RunningTop
  <1>2. CASE Beneath = <<>>
    BY <1>2 DEF Return, Beneath
  <1>3. CASE Beneath # <<>>
    <2>1. OnTop(Beneath, Head(Beneath), Tail(Beneath)) /\ Tail(Beneath) \in Seq(Frame) /\ Head(Beneath) \in Frame
      BY <1>1, <1>3, TopOnTop
    <2>2. stack' = <<Given(Head(Beneath), v)>> \o Tail(Beneath)
      BY <1>3 DEF Return, Beneath, Given
    <2>3. OnTop(<<Given(Head(Beneath), v)>> \o Tail(Beneath), Given(Head(Beneath), v), Tail(Beneath))
      BY <2>1, ConsOnTop
    <2> QED
      BY <1>3, <2>1, <2>2, <2>3 DEF Stack1
  <1> QED
    BY <1>2, <1>3

-----------------------------------------------------------------------------
(* What is known of the state for each function that may be running.        *)

\* Resumable frames that need nothing of what is beneath them
Loops == {"dowork", "dowork_sent", "dowork_receive", "destroy"}
Free == {"decode_stream", "message_done", "consume_stream_buffer_bytes", "clear_pending_sends",
         "call_on_ws_close_complete", "undefined",
         "on_bytes_received", "on_io_error", "uws_client_dowork", "on_underlying_io_close_sent"}
Api == {"uws_client_open_async", "uws_client_close_async", "uws_client_close_handshake_async",
        "uws_client_send_frame_async", "uws_client_destroy"}
Succeeding == Awaiting \ {"return", "answer_sent", "frame_sent"}

\* nothing of note is going on
AtRest == Settled /\ Rest(Beneath)

LEMMA UsualParts ==
    ASSUME stack \in Seq(Frame), stack # <<>>, Usual(stack)
    PROVE  /\ AtRest
           /\ \/ /\ Resumable(Top)
                 /\ Role(Top) = "settling" => uws_state = "CLOSED"
                 /\ Role(Top) = "decoding" => Told /\ ~Has(Beneath, "settling")
              \/ Top.at = "uws" /\ Top.fn \in {"on_bytes_received", "on_io_error", "uws_client_dowork",
                                               "on_underlying_io_close_sent"}
              \/ Is(Top, "user", "on_ws_close_complete")
              \/ /\ Is(Top, "user", "returned")
                 /\ Top.arg = "open" /\ Top.ret # 0 => Top.n # session
  <1>1. OnTop(stack, Top, Beneath)
    BY RunningTop
  <1>2. Top = Head(stack) /\ Beneath = Tail(stack)
    BY DEF Top, Beneath
  <1>3. CASE Rest(stack)
    BY <1>1, <1>3 DEF OnTop, Rest, Usual, AtRest
  <1>4. CASE ~Rest(stack)
    BY <1>2, <1>4 DEF Usual, AtRest
  <1> QED
    BY <1>3, <1>4

LEMMA RunsFreely ==
    ASSUME stack \in Seq(Frame), stack # <<>>, Place(stack)
    PROVE  /\ Top.at \in {"socket", "uws", "user"}
           /\ Top.at = "socket" /\ Top.fn \in Loops => AtRest
           /\ Top.fn \in Succeeding => AtRest /\ Top.ret = 0
           /\ Top.at = "uws" /\ Top.fn \in Free => AtRest
           /\ Top.at = "user" /\ Top.fn \in Callbacks \cup {"in_callback", "on_ws_close_complete"} => AtRest
           /\ Is(Top, "uws", "set_closed") => AtRest /\ uws_state = "CLOSED"
           /\ Is(Top, "uws", "decode_frame") => AtRest /\ Told /\ ~Has(Beneath, "settling")
           /\ Is(Top, "user", "returned") => AtRest /\ (Top.arg = "open" /\ Top.ret # 0 => Top.n # session)
  <1>1. Top = Head(stack) /\ Beneath = Tail(stack)
    BY DEF Top, Beneath
  <1>2. CASE Usual(stack)
    <2>1. AtRest
      BY <1>2, UsualParts
    <2>2. CASE Resumable(Top) /\ (Role(Top) = "settling" => uws_state = "CLOSED")
               /\ (Role(Top) = "decoding" => Told /\ ~Has(Beneath, "settling"))
      <3>1. Top.at \in {"socket", "uws", "user"}
        BY <2>2 DEF Resumable, Is
      <3>2. Top.fn \in Succeeding => Top.ret = 0
        BY <2>2 DEF Resumable, Is, Succeeding, Awaiting, Callbacks, UwsCallbacks
      <3>3. Is(Top, "uws", "set_closed") => Role(Top) = "settling"
        BY DEF Role, Is
      <3>4. Is(Top, "uws", "decode_frame") => Role(Top) = "decoding"
        BY DEF Role, Is
      <3>5. Is(Top, "user", "returned") /\ Top.arg = "open" => Top.ret = 0
        BY <2>2 DEF Resumable, Is, Awaiting, Callbacks, UwsCallbacks
      <3> QED
        BY <2>1, <2>2, <3>1, <3>2, <3>3, <3>4, <3>5
    <2>3. CASE \/ Top.at = "uws" /\ Top.fn \in {"on_bytes_received", "on_io_error", "uws_client_dowork",
                                               "on_underlying_io_close_sent"}
               \/ Is(Top, "user", "on_ws_close_complete")
               \/ /\ Is(Top, "user", "returned")
                  /\ Top.arg = "open" /\ Top.ret # 0 => Top.n # session
      BY <2>1, <2>3 DEF Succeeding, Awaiting, Is, Callbacks, UwsCallbacks
    <2> QED
      BY <1>2, <2>2, <2>3, UsualParts
  <1>3. CASE Called(stack)
    BY <1>1, <1>3 DEF Called, Succeeding, Awaiting, Is, Free, Loops
  <1>4. CASE Opens(stack) \/ OpensSending(stack)
    BY <1>1, <1>4 DEF Opens, OpensSending, Succeeding, Awaiting, Is, Free, Loops
  <1>5. CASE OpenFails(stack) \/ OpenTold(stack)
    BY <1>1, <1>5 DEF OpenFails, OpenTold, Succeeding, Awaiting, Is, Free, Loops, Callbacks
  <1>6. CASE Sending(stack)
    BY <1>1, <1>6 DEF Sending, Succeeding, Awaiting, Is, Free, Loops
  <1>7. CASE Decodes(stack)
    BY <1>1, <1>7 DEF Decodes, Succeeding, Awaiting, Is, Free, Loops
  <1>8. CASE Closes(stack)
    BY <1>1, <1>8 DEF Closes, Succeeding, Awaiting, Is, Free, Loops
  <1> QED
    BY <1>2, <1>3, <1>4, <1>5, <1>6, <1>7, <1>8 DEF Place

LEMMA RunsInPlace ==
    ASSUME stack \in Seq(Frame), stack # <<>>, Place(stack)
    PROVE  /\ Top.fn = "return" => Top.ret = 0 /\ (AtRest \/ OpensSending(stack))
           /\ Top.fn \in {"answer_sent", "frame_sent"} => (AtRest /\ Top.ret = 0) \/ Sending(stack)
           /\ Top.at = "uws" /\ Top.fn \in Api => Called(stack)
           /\ Top.fn \in {"open", "on_io_open_complete", "upgrade_request_sent"} => Opens(stack)
           /\ Top.fn = "send" => Sending(stack) \/ OpensSending(stack)
           /\ Top.fn = "close" => OpenFails(stack) \/ Closes(stack)
           /\ Top.fn = "open_complete_error" => OpenFails(stack)
           /\ Top.fn = "on_ws_open_complete" => OpenTold(stack)
           /\ Top.fn = "on_underlying_io_send_complete" => Sending(stack)
           /\ Top.fn \in {"frame", "indicate_ws_error", "indicate_ws_error_and_close"} => Decodes(stack)
           /\ Top.fn \in {"on_io_close_complete", "indicate_ws_close_complete"} => Closes(stack)
  <1>1. Top = Head(stack) /\ Beneath = Tail(stack)
    BY DEF Top, Beneath
  <1>2. CASE Usual(stack)
    <2>1. AtRest
      BY <1>2, UsualParts
    <2>2. CASE Resumable(Top)
      BY <2>1, <2>2 DEF Resumable, Is, Awaiting, Callbacks, UwsCallbacks, Api
    <2>3. CASE \/ Top.at = "uws" /\ Top.fn \in {"on_bytes_received", "on_io_error", "uws_client_dowork",
                                               "on_underlying_io_close_sent"}
               \/ Is(Top, "user", "on_ws_close_complete") \/ Is(Top, "user", "returned")
      BY <2>1, <2>3 DEF Is, Api
    <2> QED
      BY <1>2, <2>2, <2>3, UsualParts
  <1>3. CASE Called(stack)
    BY <1>1, <1>3 DEF Called, Is, Api
  <1>4. CASE Opens(stack) \/ OpensSending(stack)
    BY <1>1, <1>4 DEF Opens, OpensSending, Is, Api
  <1>5. CASE OpenFails(stack) \/ OpenTold(stack)
    BY <1>1, <1>5 DEF OpenFails, OpenTold, Is, Api
  <1>6. CASE Sending(stack)
    BY <1>1, <1>6 DEF Sending, Is, Api
  <1>7. CASE Decodes(stack)
    BY <1>1, <1>7 DEF Decodes, Is, Api
  <1>8. CASE Closes(stack)
    BY <1>1, <1>8 DEF Closes, Is, Api
  <1> QED
    BY <1>2, <1>3, <1>4, <1>5, <1>6, <1>7, <1>8 DEF Place

-----------------------------------------------------------------------------
(* Frames.                                                                  *)

LEMMA Neighbours ==
    ASSUME SocketClient
    PROVE  Above("socket") = "uws" /\ Above("uws") = "user" /\ Below("uws") = "socket"
  <1>1. DOMAIN Layers = 1 .. 2 /\ Layers[1] = "socket" /\ Layers[2] = "uws"
    BY DEF SocketClient
  <1>2. (CHOOSE i \in DOMAIN Layers : Layers[i] = "socket") = 1
    BY <1>1
  <1>3. (CHOOSE i \in DOMAIN Layers : Layers[i] = "uws") = 2
    BY <1>1
  <1> QED
    BY <1>1, <1>2, <1>3 DEF Above, Below

LEMMA MadeFrame ==
    ASSUME NEW l, NEW f, NEW x, NEW n, NEW d
    PROVE  LET m == MkFrame(l, f, x, n, d)
           IN  m.at = l /\ m.fn = f /\ m.arg = x /\ m.n = n /\ m.data = d /\ m.ret = 0
  BY DEF MkFrame

LEMMA MadeReturn ==
    ASSUME NEW l, NEW v
    PROVE  LET m == ReturnFrame(l, v) IN m.at = l /\ m.fn = "return" /\ m.ret = v
  BY DEF ReturnFrame, MkFrame

\* what a frame is given does not change what it is
LEMMA GivenParts ==
    ASSUME NEW f \in Frame, NEW v
    PROVE  LET g == Given(f, v)
           IN  g.at = f.at /\ g.fn = f.fn /\ g.arg = f.arg /\ g.n = f.n /\ g.data = f.data /\ g.ret = v
  BY DEF Given, Frame

LEMMA Roles ==
    ASSUME NEW f
    PROVE  /\ f.fn \notin {"set_closed", "decode_frame", "clear_pending_sends", "call_on_ws_close_complete",
                           "on_ws_close_complete", "returned"} => Role(f) = "none"
           /\ Is(f, "uws", "set_closed") => Role(f) = "settling"
           /\ Is(f, "uws", "decode_frame") => Role(f) = "decoding"
           /\ Is(f, "uws", "clear_pending_sends") => Role(f) = "clearing"
           /\ Is(f, "uws", "call_on_ws_close_complete") \/ Is(f, "user", "on_ws_close_complete")
                => Role(f) = "telling"
           /\ Is(f, "user", "returned") =>
                Role(f) = IF f.ret # 0 \/ f.arg \notin {"close", "close_null"} THEN "none"
                          ELSE IF f.n # 1 THEN "stray"
                          ELSE IF f.arg = "close" THEN "closed" ELSE "closed_null"
  BY DEF Role, Is

\* A result of 0 does no harm, nor does one that is not looked at.
LEMMA GivenResumable ==
    ASSUME NEW f \in Frame, Resumable(f), NEW v,
           v = 0 \/ (f.fn \notin Awaiting /\ ~Is(f, "user", "returned"))
    PROVE  /\ Resumable(Given(f, v))
           /\ Role(Given(f, v)) \in {"settling", "decoding"} => Role(f) = Role(Given(f, v))
  <1>1. Resumable(Given(f, v))
    BY GivenParts DEF Resumable, Is
  <1> DEFINE g == Given(f, v)
  <1>2. g.at = f.at /\ g.fn = f.fn
    BY GivenParts
  <1> HIDE DEF g
  <1>3. Role(g) \in {"settling", "decoding"} => Role(f) = Role(g)
    <2>1. Role(g) = "settling" => Is(g, "uws", "set_closed")
      BY DEF Role
    <2>2. Role(g) = "decoding" => Is(g, "uws", "decode_frame")
      BY DEF Role
    <2>3. Is(g, "uws", "set_closed") => Role(f) = "settling"
      BY <1>2, Roles DEF Is
    <2>4. Is(g, "uws", "decode_frame") => Role(f) = "decoding"
      BY <1>2, Roles DEF Is
    <2> QED
      BY <2>1, <2>2, <2>3, <2>4
  <1> QED
    BY <1>1, <1>3 DEF g

\* frames that may be put on the stack in any settled state
Light(f) == Resumable(f) /\ Role(f) \notin {"settling", "decoding"}
Entering(f) ==
    \/ f.at = "uws" /\ f.fn \in {"on_bytes_received", "on_io_error", "uws_client_dowork",
                                 "on_underlying_io_close_sent"}
    \/ Is(f, "user", "on_ws_close_complete")

LEMMA LightFrames ==
    /\ \A f \in {"decode_stream", "message_done", "clear_pending_sends", "call_on_ws_close_complete",
                 "undefined"} \cup Awaiting : Light(Uws(f))
    /\ \A n, a : Light(MkFrame("uws", "consume_stream_buffer_bytes", a, n, <<>>))
    /\ \A n : Light(MkFrame("uws", "frame_sent", "", n, <<>>))
    /\ \A f \in Callbacks \cup {"in_callback"} : \A a, n, d : Light(MkFrame("user", f, a, n, d))
    /\ \A c, n : Light(MkFrame("user", "returned", c, n, <<>>))
    /\ \A l \in {"socket", "uws"} : Light(ReturnFrame(l, 0))
    /\ \A f \in Loops : Light(MkFrame("socket", f, "", 0, <<>>))
    /\ \A f \in {"on_bytes_received", "on_io_error", "uws_client_dowork", "on_underlying_io_close_sent"} : \A a, n, d :
          Entering(MkFrame("uws", f, a, n, d))
  <1>1. ASSUME NEW f \in {"decode_stream", "message_done", "clear_pending_sends", "call_on_ws_close_complete",
                          "undefined"} \cup Awaiting
        PROVE  Light(Uws(f))
    <2>1. Uws(f).at = "uws" /\ Uws(f).fn = f /\ Uws(f).ret = 0
      BY DEF Uws, MkFrame
    <2>2. Resumable(Uws(f))
      BY <2>1 DEF Resumable, Is
    <2>3. Role(Uws(f)) \notin {"settling", "decoding"}
      BY <2>1 DEF Role, Is, Awaiting
    <2> QED
      BY <2>2, <2>3 DEF Light
  <1>2. ASSUME NEW n, NEW a
        PROVE  Light(MkFrame("uws", "consume_stream_buffer_bytes", a, n, <<>>))
    <2> DEFINE m == MkFrame("uws", "consume_stream_buffer_bytes", a, n, <<>>)
    <2>1. m.at = "uws" /\ m.fn = "consume_stream_buffer_bytes"
      BY DEF MkFrame
    <2> HIDE DEF m
    <2>2. Resumable(m)
      BY <2>1 DEF Resumable, Is
    <2>3. Role(m) \notin {"settling", "decoding"}
      BY <2>1 DEF Role, Is
    <2> QED
      BY <2>2, <2>3 DEF Light, m
  <1>3. ASSUME NEW n
        PROVE  Light(MkFrame("uws", "frame_sent", "", n, <<>>))
    <2> DEFINE m == MkFrame("uws", "frame_sent", "", n, <<>>)
    <2>1. m.at = "uws" /\ m.fn = "frame_sent" /\ m.ret = 0
      BY DEF MkFrame
    <2> HIDE DEF m
    <2>2. Resumable(m)
      BY <2>1 DEF Resumable, Awaiting
    <2>3. Role(m) \notin {"settling", "decoding"}
      BY <2>1 DEF Role, Is
    <2> QED
      BY <2>2, <2>3 DEF Light, m
  <1>4. ASSUME NEW f \in Callbacks \cup {"in_callback"}, NEW a, NEW n, NEW d
        PROVE  Light(MkFrame("user", f, a, n, d))
    <2> DEFINE m == MkFrame("user", f, a, n, d)
    <2>1. m.at = "user" /\ m.fn = f
      BY DEF MkFrame
    <2> HIDE DEF m
    <2>2. Resumable(m)
      BY <2>1 DEF Resumable, Is
    <2>3. Role(m) \notin {"settling", "decoding"}
      BY <2>1 DEF Role, Is
    <2> QED
      BY <2>2, <2>3 DEF Light, m
  <1>5. ASSUME NEW c, NEW n
        PROVE  Light(MkFrame("user", "returned", c, n, <<>>))
    <2> DEFINE m == MkFrame("user", "returned", c, n, <<>>)
    <2>1. m.at = "user" /\ m.fn = "returned" /\ m.ret = 0
      BY DEF MkFrame
    <2> HIDE DEF m
    <2>2. Resumable(m)
      BY <2>1 DEF Resumable, Is
    <2>3. Role(m) \notin {"settling", "decoding"}
      BY <2>1 DEF Role, Is
    <2> QED
      BY <2>2, <2>3 DEF Light, m
  <1>6. ASSUME NEW l \in {"socket", "uws"}
        PROVE  Light(ReturnFrame(l, 0))
    <2> DEFINE m == ReturnFrame(l, 0)
    <2>1. m.at = l /\ m.fn = "return" /\ m.ret = 0
      BY MadeReturn
    <2> HIDE DEF m
    <2>2. Resumable(m)
      BY <2>1 DEF Resumable, Awaiting
    <2>3. Role(m) \notin {"settling", "decoding"}
      BY <2>1 DEF Role, Is
    <2> QED
      BY <2>2, <2>3 DEF Light, m
  <1>7. ASSUME NEW f \in Loops
        PROVE  Light(MkFrame("socket", f, "", 0, <<>>))
    <2> DEFINE m == MkFrame("socket", f, "", 0, <<>>)
    <2>1. m.at = "socket" /\ m.fn = f
      BY DEF MkFrame
    <2> HIDE DEF m
    <2>2. Resumable(m)
      BY <2>1 DEF Resumable, Is, Loops
    <2>3. Role(m) \notin {"settling", "decoding"}
      BY <2>1 DEF Role, Is
    <2> QED
      BY <2>2, <2>3 DEF Light, m
  <1>8. \A f \in {"on_bytes_received", "on_io_error", "uws_client_dowork", "on_underlying_io_close_sent"} : \A a, n, d :
          Entering(MkFrame("uws", f, a, n, d))
    BY MadeFrame DEF Entering
  <1> QED
    BY <1>1, <1>2, <1>3, <1>4, <1>5, <1>6, <1>7, <1>8

\* A light frame adds nothing to what is beneath it.
LEMMA LightOnTop ==
    ASSUME NEW u, NEW a, NEW t, OnTop(u, a, t), Light(a), NEW st, Waiting(t, st)
    PROVE  /\ Waiting(u, st)
           /\ Has(u, "decoding") => Has(t, "decoding")
           /\ Has(u, "settling") => Has(t, "settling")
  BY DEF OnTop, Light

\* Only a frame that still has to assign CLOSED minds a change of the state.
LEMMA StillWaiting ==
    ASSUME NEW s, NEW st, NEW st2, Waiting(s, st),
           st2 = "CLOSED" \/ st # "CLOSED" \/ ~Has(s, "settling")
    PROVE  Waiting(s, st2)
  BY DEF Waiting

\* nothing that the settled states depend on changes, but the socket may be closed
Unmoved ==
    uws_state' = uws_state /\ session' = session /\ openReports' = openReports
    /\ closing' = closing /\ alive' = alive
Kept == Unmoved /\ (connected' = connected \/ connected' = FALSE)

LEMMA UnmovedRest ==
    ASSUME Unmoved
    PROVE  /\ Told' <=> Told
           /\ Unreported' <=> Unreported
           /\ \A r : Rest(r) => Waiting(r, uws_state') /\ (Has(r, "decoding") => Told')
  BY DEF Unmoved, Told, Rest, Unreported

LEMMA KeptSettled ==
    ASSUME Kept, connected \in BOOLEAN
    PROVE  /\ Settled => Settled'
           /\ Told' <=> Told
           /\ \A r : Rest(r) => Waiting(r, uws_state') /\ (Has(r, "decoding") => Told')
  <1>1. Settled => Settled'
    BY DEF Kept, Unmoved, Settled, Told
  <1> QED
    BY <1>1, UnmovedRest DEF Kept

\* The stack that the step leaves is usual if what is beneath its first frame is.
LEMMA UsualNext ==
    ASSUME Settled', NEW a, NEW t, OnTop(stack', a, t),
           Waiting(t, uws_state'), Has(t, "decoding") => Told',
           Light(a) \/ Entering(a)
    PROVE  Place(stack)'
  <1>1. stack' # <<>> /\ Head(stack') = a /\ Tail(stack') = t
    BY DEF OnTop
  <1>2. CASE Light(a)
    BY <1>2, LightOnTop DEF Place, Usual, Rest
  <1>3. CASE Entering(a)
    BY <1>1, <1>3 DEF Place, Usual, Rest, Entering
  <1> QED
    BY <1>2, <1>3

LEMMA CalmPop ==
    ASSUME stack \in Seq(Frame), stack # <<>>, connected \in BOOLEAN, AtRest, Kept,
           Pop \/ Goto(<<>>)
    PROVE  Place(stack)'
  <1>1. stack' = Beneath
    BY Goto0
  <1>2. Rest(stack') /\ Settled
    BY <1>1 DEF AtRest
  <1> QED
    BY <1>2, KeptSettled DEF Place, Usual, Rest

LEMMA CalmOne ==
    ASSUME stack \in Seq(Frame), stack # <<>>, connected \in BOOLEAN, AtRest, Kept,
           NEW a, Goto(<<a>>), Light(a) \/ Entering(a)
    PROVE  Place(stack)'
  <1>1. OnTop(stack', a, Beneath)
    BY Goto1 DEF Stack1
  <1> QED
    BY <1>1, KeptSettled, UsualNext DEF AtRest

LEMMA CalmTwo ==
    ASSUME stack \in Seq(Frame), stack # <<>>, connected \in BOOLEAN, AtRest, Kept,
           NEW a, NEW b, Goto(<<a, b>>), Light(a) \/ Entering(a), Light(b)
    PROVE  Place(stack)'
  <1>1. OnTop(stack', a, Tail(stack')) /\ OnTop(Tail(stack'), b, Beneath)
    BY Goto2 DEF Stack2
  <1>2. Waiting(Tail(stack'), uws_state') /\ (Has(Tail(stack'), "decoding") => Told')
    BY <1>1, KeptSettled, LightOnTop DEF AtRest
  <1> QED
    BY <1>1, <1>2, KeptSettled, UsualNext DEF AtRest

LEMMA CalmThree ==
    ASSUME stack \in Seq(Frame), stack # <<>>, connected \in BOOLEAN, AtRest, Kept,
           NEW a, NEW b, NEW c, Goto(<<a, b, c>>), Light(a), Light(b), Light(c)
    PROVE  Place(stack)'
  <1> DEFINE v == Tail(stack')
  <1>1. OnTop(stack', a, v) /\ OnTop(v, b, Tail(v)) /\ OnTop(Tail(v), c, Beneath)
    BY Goto3 DEF Stack3, Stack2
  <1> HIDE DEF v
  <1>2. Waiting(Tail(v), uws_state') /\ (Has(Tail(v), "decoding") => Told')
    BY <1>1, KeptSettled, LightOnTop DEF AtRest
  <1>3. Waiting(v, uws_state') /\ (Has(v, "decoding") => Told')
    BY <1>1, <1>2, LightOnTop
  <1> QED
    BY <1>1, <1>3, KeptSettled, UsualNext DEF AtRest

\* A caller takes a result of 0, or one that it does not look at.
LEMMA CalmReturn ==
    ASSUME stack \in Seq(Frame), stack # <<>>, Settled',
           Waiting(Beneath, uws_state'), Has(Beneath, "decoding") => Told',
           NEW v, Return(v),
           v = 0 \/ Beneath = <<>> \/
             (Head(Beneath).fn \notin Awaiting /\ ~(Is(Head(Beneath), "user", "returned") /\ Head(Beneath).arg = "open"))
    PROVE  Place(stack)'
  <1>1. CASE Beneath = <<>> /\ stack' = <<>>
    BY <1>1 DEF Place, Usual, Rest
  <1> DEFINE f == Head(Beneath)
             g == Given(f, v)
  <1>2. CASE /\ Beneath # <<>> /\ OnTop(Beneath, f, Tail(Beneath))
             /\ f \in Frame
             /\ Stack1(stack', g, Tail(Beneath))
    <2>3. v = 0 \/ (f.fn \notin Awaiting /\ ~(Is(f, "user", "returned") /\ f.arg = "open"))
      BY <1>2
    <2>6. g.at = f.at /\ g.fn = f.fn /\ g.arg = f.arg
      BY <1>2, GivenParts
    <2> HIDE DEF f
    <2>1. Waiting(Tail(Beneath), uws_state') /\ Resumable(f)
          /\ (Role(f) = "settling" => uws_state' = "CLOSED")
          /\ ~(Role(f) = "decoding" /\ Has(Tail(Beneath), "settling"))
      BY <1>2 DEF OnTop
    <2>2. Has(Tail(Beneath), "decoding") \/ Role(f) = "decoding" => Has(Beneath, "decoding")
      BY <1>2 DEF OnTop
    <2>4. v = 0 \/ ~Is(f, "user", "returned") =>
            Resumable(g) /\ (Role(g) \in {"settling", "decoding"} => Role(f) = Role(g))
      BY <1>2, <2>1, <2>3, GivenResumable
    <2> HIDE DEF g
    <2>5. CASE v = 0 \/ ~Is(f, "user", "returned")
      <3>1. Waiting(stack', uws_state') /\ (Has(stack', "decoding") => Told')
        BY <1>2, <2>1, <2>2, <2>4, <2>5 DEF OnTop, Stack1
      <3> QED
        BY <3>1 DEF Place, Usual, Rest
    <2>7. CASE v # 0 /\ Is(f, "user", "returned")
      <3>1. stack' # <<>> /\ Head(stack') = g /\ Tail(stack') = Tail(Beneath)
        BY <1>2 DEF OnTop, Stack1
      <3>2. Is(g, "user", "returned") /\ g.arg # "open"
        BY <2>3, <2>6, <2>7 DEF Is
      <3>3. Waiting(Tail(stack'), uws_state') /\ (Has(Tail(stack'), "decoding") => Told')
        BY <2>1, <2>2, <3>1
      <3> QED
        BY <3>1, <3>2, <3>3 DEF Place, Usual, Rest
    <2> QED
      BY <2>5, <2>7
  <1> QED
    BY <1>1, <1>2, ReturnTop

-----------------------------------------------------------------------------
(* The socket.                                                              *)

LEMMA LayersKept ==
    ASSUME UNCHANGED <<tlsVars, uwsVars, userVars>>
    PROVE  Unmoved /\ tls_state' = tls_state /\ opens' = opens /\ unopened' = unopened
  BY DEF tlsVars, uwsVars, userVars, Unmoved

LEMMA SockBooks ==
    ASSUME TypeOK, Books, Place(stack), SockNext, UNCHANGED <<tlsVars, uwsVars, userVars>>
    PROVE  Books'
  <1>1. tls_state' = tls_state /\ session' = session /\ opens' = opens /\ unopened' = unopened
        /\ openReports' = openReports
    BY LayersKept DEF Unmoved
  <1>2. connected \in BOOLEAN
    BY DEF TypeOK, SockTypeOK
  <1>3. /\ sock_state' = "OPEN" => connected'
        /\ ~MayBlock => pending_io_list' = <<>> /\ (connected' \/ sock_state' = "CLOSED")
    BY <1>2 DEF Books, SockNext, socketio_open_refused, socketio_open_connected, socketio_open_failed,
       socketio_close, socketio_destroy, socketio_send_sent, socketio_send_queued, socketio_send_failed,
       socketio_dowork_send_complete, socketio_dowork_remove, socketio_dowork_send_error,
       socketio_dowork_send_end, socketio_dowork_receive, socketio_dowork_receive_error,
       socketio_dowork_receive_end, sockVars
  <1> QED
    BY <1>1, <1>3 DEF Books

\* what a socket that runs knows
RunsSocket(f) ==
    /\ TypeOK /\ stack \in Seq(Frame) /\ connected \in BOOLEAN
    /\ stack # <<>> /\ Is(Top, "socket", f) /\ Top \in Frame
    /\ Above("socket") = "uws"
    /\ Unmoved

LEMMA SockOpenPlace ==
    ASSUME RunsSocket("open"), Opens(stack),
           NEW r \in {"OK", "ERROR"}, r = "ERROR" => ~connected',
           Goto(<<on_io_open_complete("socket", r), ReturnFrame("socket", 0)>>)
    PROVE  Opens(stack)'
  <1> DEFINE a == on_io_open_complete("socket", r)
             b == ReturnFrame("socket", 0)
  <1>1. Is(a, "uws", "on_io_open_complete") /\ a.arg = r
    BY DEF RunsSocket, on_io_open_complete, MkFrame, Is
  <1>2. Light(b)
    BY LightFrames
  <1>3. stack \in Seq(Frame) /\ stack # <<>> /\ Goto(<<a, b>>)
    BY DEF RunsSocket
  <1> HIDE DEF a, b
  <1>4. OnTop(stack', a, Tail(stack')) /\ OnTop(Tail(stack'), b, Beneath)
    BY <1>3, Goto2 DEF Stack2
  <1>5. Rest(Beneath)
    BY DEF Opens, Beneath
  <1>6. Waiting(Beneath, uws_state') /\ (Has(Beneath, "decoding") => Told')
    BY <1>5, UnmovedRest DEF RunsSocket
  <1>7. Waiting(Tail(stack'), uws_state') /\ (Has(Tail(stack'), "decoding") => Told')
    BY <1>2, <1>4, <1>6, LightOnTop
  <1>8. uws_state' = "OPENING_UNDERLYING_IO" /\ Unreported'
    BY UnmovedRest DEF Opens, RunsSocket, Unmoved
  <1>9. stack' # <<>> /\ Head(stack') = a
    BY <1>4 DEF OnTop
  <1> QED
    BY <1>1, <1>7, <1>8, <1>9 DEF Opens, Rest

LEMMA SockClosePlace ==
    ASSUME RunsSocket("close"), Place(stack), socketio_close
    PROVE  Place(stack)'
  <1>1. stack \in Seq(Frame) /\ stack # <<>> /\ Top.at = "socket" /\ Top.fn = "close"
    BY DEF RunsSocket, Is
  <1>2. OpenFails(stack) \/ Closes(stack)
    BY <1>1, RunsInPlace
  <1>3. ~connected' /\ uws_state' = uws_state /\ (Told' <=> Told) /\ (Unreported' <=> Unreported)
        /\ \A r : Rest(r) => Waiting(r, uws_state') /\ (Has(r, "decoding") => Told')
    BY UnmovedRest DEF socketio_close, RunsSocket, Unmoved
  <1>4. CASE Top.arg = "NULL"
    <2>1. Return(0)
      BY <1>4 DEF socketio_close
    <2>2. Beneath # <<>> /\ Stack1(stack', Given(Head(Beneath), 0), Tail(Beneath))
          /\ Head(Beneath) \in Frame
      <3>1. Beneath # <<>>
        BY <1>1, <1>2, <1>4 DEF OpenFails, Closes, Is, Top, Beneath
      <3> QED
        BY <1>1, <2>1, <3>1, ReturnTop
    <2> DEFINE g == Given(Head(Beneath), 0)
    <2>3. g.at = Head(Beneath).at /\ g.fn = Head(Beneath).fn
      BY <2>2, GivenParts
    <2> HIDE DEF g
    <2>4. stack' # <<>> /\ Head(stack') = g /\ Tail(stack') = Tail(Beneath)
      BY <2>2 DEF Stack1, OnTop, g
    <2>5. CASE OpenFails(stack)
      <3>1. Is(Head(Beneath), "uws", "open_complete_error") /\ Rest(Tail(Beneath))
            /\ uws_state \in Opening /\ Unreported
        BY <1>1, <1>4, <2>5 DEF OpenFails, Is, Top, Beneath
      <3>2. Waiting(Tail(Beneath), uws_state') /\ (Has(Tail(Beneath), "decoding") => Told')
        BY <3>1, <1>3
      <3>3. OpenFails(stack)'
        BY <1>3, <2>3, <2>4, <3>1, <3>2 DEF OpenFails, Is, Rest
      <3> QED
        BY <3>3 DEF Place
    <2>6. CASE Closes(stack)
      <3>1. Is(Head(Beneath), "uws", "indicate_ws_close_complete") /\ Rest(Tail(Beneath))
            /\ uws_state \in Closing /\ Told
        BY <1>1, <1>4, <2>6 DEF Closes, Is, Top, Beneath
      <3>2. Waiting(Tail(Beneath), uws_state') /\ (Has(Tail(Beneath), "decoding") => Told')
        BY <3>1, <1>3
      <3>3. Closes(stack)'
        BY <1>3, <2>3, <2>4, <3>1, <3>2 DEF Closes, Is, Rest
      <3> QED
        BY <3>3 DEF Place
    <2> QED
      BY <1>2, <2>5, <2>6
  <1>5. CASE Top.arg # "NULL"
    <2> DEFINE a == on_io_close_complete("socket")
               b == ReturnFrame("socket", 0)
    <2>1. Is(a, "uws", "on_io_close_complete")
      BY DEF RunsSocket, on_io_close_complete, MkFrame, Is
    <2>2. Light(b)
      BY LightFrames
    <2>3. Goto(<<a, b>>)
      BY <1>5 DEF socketio_close
    <2> HIDE DEF a, b
    <2>4. OnTop(stack', a, Tail(stack')) /\ OnTop(Tail(stack'), b, Beneath)
      BY <1>1, <2>3, Goto2 DEF Stack2
    <2>5. Rest(Beneath) /\ uws_state = "CLOSING_UNDERLYING_IO" /\ Told
      BY <1>1, <1>2, <1>5 DEF OpenFails, Closes, Is, Top, Beneath
    <2>6. Waiting(Beneath, uws_state') /\ (Has(Beneath, "decoding") => Told')
      BY <1>3, <2>5
    <2>7. Waiting(Tail(stack'), uws_state') /\ (Has(Tail(stack'), "decoding") => Told')
      BY <2>2, <2>4, <2>6, LightOnTop
    <2>8. stack' # <<>> /\ Head(stack') = a
      BY <2>4 DEF OnTop
    <2>9. Closes(stack)'
      BY <1>3, <2>1, <2>5, <2>7, <2>8 DEF Closes, Rest
    <2> QED
      BY <2>9 DEF Place
  <1> QED
    BY <1>4, <1>5

LEMMA Completed ==
    ASSUME NEW cb, NEW n, NEW b, Goto(on_send_complete(cb, "OK", n) \o <<b>>)
    PROVE  IF cb \in {"NULL", "unchecked_on_send_complete"} THEN Goto(<<b>>)
           ELSE Goto(<<MkFrame("uws", cb, "OK", n, <<>>), b>>)
  <1>1. CASE cb \in {"NULL", "unchecked_on_send_complete"}
    <2>1. on_send_complete(cb, "OK", n) = <<>>
      BY <1>1 DEF on_send_complete
    <2>2. <<>> \o <<b>> = <<b>>
      BY ONLY ConcatTuples
    <2> QED
      BY <1>1, <2>1, <2>2
  <1>2. CASE cb \notin {"NULL", "unchecked_on_send_complete"}
    <2> DEFINE m == MkFrame("uws", cb, "OK", n, <<>>)
    <2>1. on_send_complete(cb, "OK", n) = <<m>>
      BY <1>2 DEF on_send_complete
    <2>2. <<m>> \o <<b>> = <<m, b>>
      BY ONLY ConcatTuples
    <2> HIDE DEF m
    <2>3. Goto(<<m, b>>)
      BY <2>1, <2>2
    <2> QED
      BY <1>2, <2>3 DEF m
  <1> QED
    BY <1>1, <1>2

\* A completion is called on a connected socket, so not in state CLOSED.
LEMMA CompletedPlace ==
    ASSUME stack \in Seq(Frame), stack # <<>>, connected \in BOOLEAN, AtRest, Kept, connected,
           NEW cb \in SendCallbacks, NEW n, NEW b, Light(b),
           Goto(on_send_complete(cb, "OK", n) \o <<b>>)
    PROVE  Place(stack)'
  <1>1. CASE cb \in {"NULL", "unchecked_on_send_complete"}
    BY <1>1, CalmOne, Completed
  <1> DEFINE m == MkFrame("uws", cb, "OK", n, <<>>)
  <1>2. CASE cb = "on_underlying_io_close_sent"
    <2>1. Goto(<<m, b>>)
      BY <1>2, Completed
    <2>2. Entering(m)
      BY <1>2, LightFrames
    <2> HIDE DEF m
    <2> QED
      BY <2>1, <2>2, CalmTwo
  <1>3. CASE cb = "on_underlying_io_send_complete"
    <2>1. Goto(<<m, b>>)
      BY <1>3, Completed
    <2>2. Is(m, "uws", "on_underlying_io_send_complete")
      BY <1>3 DEF MkFrame, Is
    <2> HIDE DEF m
    <2>3. OnTop(stack', m, Tail(stack')) /\ OnTop(Tail(stack'), b, Beneath)
      BY <2>1, Goto2 DEF Stack2
    <2>4. Waiting(Tail(stack'), uws_state') /\ (Has(Tail(stack'), "decoding") => Told')
      BY <2>3, KeptSettled, LightOnTop DEF AtRest
    <2>5. stack' # <<>> /\ Head(stack') = m
      BY <2>3 DEF OnTop
    <2>6. uws_state' # "CLOSED" /\ Settled'
      BY KeptSettled DEF AtRest, Settled, Kept, Unmoved
    <2>7. Sending(stack)'
      BY <2>2, <2>4, <2>5, <2>6 DEF Sending, Rest
    <2> QED
      BY <2>7 DEF Place
  <1> QED
    BY <1>1, <1>2, <1>3 DEF SendCallbacks

\* what a socket that sends knows
LEMMA InSocketSend ==
    ASSUME RunsSocket("send"), Place(stack)
    PROVE  /\ Top.arg \in SendCallbacks
           /\ OpensSending(stack) \/
                /\ AtRest /\ Beneath # <<>>
                /\ \/ Careless(Head(Beneath))
                   \/ Is(Head(Beneath), "uws", "answer_sent") /\ uws_state = "CLOSING_SENDING_CLOSE"
                   \/ /\ Is(Head(Beneath), "uws", "frame_sent")
                      /\ Tail(Beneath) # <<>> /\ Is(Head(Tail(Beneath)), "user", "returned")
                      /\ Head(Tail(Beneath)).arg = "send" /\ Head(Tail(Beneath)).n = Head(Beneath).n
  <1>1. stack \in Seq(Frame) /\ stack # <<>> /\ Top.at = "socket" /\ Top.fn = "send"
    BY DEF RunsSocket, Is
  <1>2. Sending(stack) \/ OpensSending(stack)
    BY <1>1, RunsInPlace
  <1>3. Top = Head(stack) /\ Beneath = Tail(stack)
    BY DEF Top, Beneath
  <1>4. CASE OpensSending(stack)
    BY <1>1, <1>3, <1>4 DEF OpensSending, Is, SendCallbacks
  <1>5. CASE Sending(stack)
    BY <1>1, <1>3, <1>5 DEF Sending, Is, SendCallbacks, AtRest
  <1> QED
    BY <1>2, <1>4, <1>5

\* the result of a send, as the frame beneath takes it
LEMMA SendReturnsPlace ==
    ASSUME RunsSocket("send"), Place(stack), Kept, NEW v \in {0, 1}, Return(v)
    PROVE  Place(stack)'
  <1>1. stack \in Seq(Frame) /\ stack # <<>> /\ Top.at = "socket" /\ Top.fn = "send" /\ connected \in BOOLEAN
    BY DEF RunsSocket, Is
  <1>2. Top = Head(stack) /\ Beneath = Tail(stack)
    BY DEF Top, Beneath
  <1>3. (\A r : Rest(r) => Waiting(r, uws_state') /\ (Has(r, "decoding") => Told'))
        /\ (Unreported' <=> Unreported) /\ (Settled => Settled') /\ uws_state' = uws_state
    BY <1>1, KeptSettled, UnmovedRest DEF Kept, Unmoved
  <1> DEFINE g == Given(Head(Beneath), v)
  <1>4. ASSUME Beneath # <<>>
        PROVE  /\ stack' # <<>> /\ Head(stack') = g /\ Tail(stack') = Tail(Beneath)
               /\ g.at = Head(Beneath).at /\ g.fn = Head(Beneath).fn /\ g.n = Head(Beneath).n /\ g.ret = v
               /\ OnTop(Beneath, Head(Beneath), Tail(Beneath))
    <2>1. Stack1(stack', g, Tail(Beneath)) /\ Head(Beneath) \in Frame
          /\ OnTop(Beneath, Head(Beneath), Tail(Beneath))
      BY <1>1, <1>4, ReturnTop
    <2> QED
      BY <2>1, GivenParts DEF Stack1, OnTop
  <1> HIDE DEF g
  <1>5. CASE OpensSending(stack)
    <2>1. Beneath # <<>> /\ Is(Head(Beneath), "uws", "upgrade_request_sent") /\ Rest(Tail(Beneath))
          /\ uws_state = "OPENING_UNDERLYING_IO" /\ Unreported
      BY <1>2, <1>5 DEF OpensSending
    <2>2. Waiting(Tail(Beneath), uws_state') /\ (Has(Tail(Beneath), "decoding") => Told')
      BY <1>3, <2>1
    <2>3. Opens(stack)'
      BY <1>3, <1>4, <2>1, <2>2 DEF Opens, Is, Rest
    <2> QED
      BY <2>3 DEF Place
  <1>6. ASSUME AtRest
        PROVE  Settled' /\ Waiting(Beneath, uws_state') /\ (Has(Beneath, "decoding") => Told')
    BY <1>3, <1>6 DEF AtRest
  <1>7. CASE AtRest /\ Beneath # <<>> /\ v = 0
    BY <1>1, <1>6, <1>7, CalmReturn
  <1>8. CASE AtRest /\ Beneath # <<>> /\ Careless(Head(Beneath))
    <2>1. Head(Beneath).fn \notin Awaiting
          /\ ~(Is(Head(Beneath), "user", "returned") /\ Head(Beneath).arg = "open")
      BY <1>8 DEF Careless, Is, Awaiting
    <2> QED
      BY <1>1, <1>6, <1>8, <2>1, CalmReturn
  <1>9. ASSUME AtRest, Beneath # <<>>, Head(Beneath).fn \in {"answer_sent", "frame_sent"}
        PROVE  Waiting(Tail(Beneath), uws_state') /\ (Has(Tail(Beneath), "decoding") => Told')
    <2>1. Waiting(Tail(Beneath), uws_state')
      BY <1>4, <1>6, <1>9 DEF OnTop
    <2>2. Has(Tail(Beneath), "decoding") => Has(Beneath, "decoding")
      BY <1>4, <1>9 DEF OnTop
    <2> QED
      BY <1>6, <1>9, <2>1, <2>2
  <1>10. CASE AtRest /\ Beneath # <<>> /\ Is(Head(Beneath), "uws", "answer_sent")
              /\ uws_state = "CLOSING_SENDING_CLOSE"
    <2>1. Sending(stack)'
      BY <1>3, <1>4, <1>6, <1>9, <1>10 DEF Sending, Is, Rest
    <2> QED
      BY <2>1 DEF Place
  <1>11. CASE /\ AtRest /\ Beneath # <<>> /\ Is(Head(Beneath), "uws", "frame_sent")
              /\ Tail(Beneath) # <<>> /\ Is(Head(Tail(Beneath)), "user", "returned")
              /\ Head(Tail(Beneath)).arg = "send" /\ Head(Tail(Beneath)).n = Head(Beneath).n
    <2>1. Sending(stack)'
      BY <1>3, <1>4, <1>6, <1>9, <1>11 DEF Sending, Is, Rest
    <2> QED
      BY <2>1 DEF Place
  <1> QED
    BY <1>5, <1>7, <1>8, <1>10, <1>11, InSocketSend

LEMMA SockSentPlace ==
    ASSUME RunsSocket("send"), Place(stack), Books, Kept, socketio_send_sent
    PROVE  Place(stack)'
  <1>1. stack \in Seq(Frame) /\ stack # <<>> /\ Top.at = "socket" /\ Top.fn = "send" /\ connected \in BOOLEAN
    BY DEF RunsSocket, Is
  <1>2. Goto(on_send_complete(Top.arg, "OK", Top.n) \o <<ReturnFrame("socket", 0)>>) /\ sock_state = "OPEN"
    BY DEF socketio_send_sent
  <1>3. Light(ReturnFrame("socket", 0))
    BY LightFrames
  <1>4. connected
    BY <1>2 DEF Books
  <1>5. CASE OpensSending(stack)
    <2> DEFINE b == ReturnFrame("socket", 0)
    <2>1. Top.arg = "unchecked_on_send_complete"
      BY <1>1, <1>5 DEF OpensSending, Is, Top
    <2>2. Goto(<<b>>)
      BY <1>2, <2>1, Completed
    <2>3. Is(b, "socket", "return") /\ b.ret = 0
      BY MadeReturn DEF Is
    <2> HIDE DEF b
    <2>4. OnTop(stack', b, Beneath)
      BY <1>1, <2>2, Goto1 DEF Stack1
    <2>5. stack' # <<>> /\ Head(stack') = b /\ Tail(stack') = Tail(stack)
      BY <2>4 DEF OnTop, Beneath
    <2>6. Tail(stack) # <<>> /\ Is(Head(Tail(stack)), "uws", "upgrade_request_sent") /\ Rest(Tail(Tail(stack)))
          /\ uws_state = "OPENING_UNDERLYING_IO" /\ Unreported
      BY <1>5 DEF OpensSending
    <2>7. Waiting(Tail(Tail(stack)), uws_state') /\ (Has(Tail(Tail(stack)), "decoding") => Told')
          /\ Unreported' /\ uws_state' = uws_state
      BY <2>6, UnmovedRest DEF Kept, Unmoved
    <2>8. OpensSending(stack)'
      BY <2>3, <2>5, <2>6, <2>7 DEF OpensSending, Rest
    <2> QED
      BY <2>8 DEF Place
  <1>6. CASE AtRest
    BY <1>1, <1>2, <1>3, <1>4, <1>6, CompletedPlace, InSocketSend
  <1> QED
    BY <1>5, <1>6, InSocketSend

LEMMA SockPlace ==
    ASSUME TypeOK, SocketClient, Books, Place(stack), SockNext, UNCHANGED <<tlsVars, uwsVars, userVars>>
    PROVE  Place(stack)'
  <1>1. ASSUME NEW f, Running("socket", f)
        PROVE  RunsSocket(f) /\ stack # <<>> /\ Top.at = "socket" /\ Top.fn = f
    <2>1. stack \in Seq(Frame) /\ connected \in BOOLEAN
      BY DEF TypeOK, SockTypeOK
    <2>2. stack # <<>> /\ Is(Top, "socket", f)
      BY <1>1 DEF Running, Top, Is
    <2> QED
      BY <2>1, <2>2, RunningTop, Neighbours, LayersKept DEF RunsSocket, Is
  <1>2. stack \in Seq(Frame) /\ connected \in BOOLEAN /\ pending_io_list \in Seq(PendingIo) /\ Unmoved
    BY LayersKept DEF TypeOK, SockTypeOK
  <1>3. connected' = connected \/ connected' = FALSE => Kept
    BY <1>2 DEF Kept
  <1>4. ASSUME NEW f \in Loops, Running("socket", f)
        PROVE  AtRest /\ stack # <<>>
    BY <1>1, <1>2, <1>4, RunsFreely
  <1>5. ASSUME NEW f, Running("socket", f), f = "open"
        PROVE  Opens(stack) /\ ~connected
    <2>1. Opens(stack)
      BY <1>1, <1>2, <1>5, RunsInPlace
    <2> QED
      BY <1>1, <1>5, <2>1 DEF Opens, Is, Top
  <1>6. CASE socketio_open_refused
    BY <1>1, <1>5, <1>6, SockOpenPlace DEF socketio_open_refused, sockVars, Place
  <1>7. CASE socketio_open_connected
    BY <1>1, <1>5, <1>7, SockOpenPlace DEF socketio_open_connected, Place
  <1>8. CASE socketio_open_failed
    BY <1>1, <1>5, <1>8, SockOpenPlace DEF socketio_open_failed, sockVars, Place
  <1>9. CASE socketio_close
    BY <1>1, <1>9, SockClosePlace DEF socketio_close
  <1>10. CASE socketio_destroy
    BY <1>2, <1>3, <1>4, <1>10, CalmPop DEF socketio_destroy, Loops
  <1>11. CASE socketio_send_sent
    BY <1>1, <1>3, <1>11, SockSentPlace DEF socketio_send_sent, sockVars
  <1>12. CASE socketio_send_queued
    BY <1>1, <1>3, <1>12, SendReturnsPlace DEF socketio_send_queued
  <1>13. CASE socketio_send_failed
    BY <1>1, <1>3, <1>13, SendReturnsPlace DEF socketio_send_failed, sockVars
  <1>14. Light(dowork_sent) /\ Light(dowork_sending) /\ Light(dowork_receiving)
    BY LightFrames DEF dowork_sent, dowork_sending, dowork_receiving, Loops
  <1>15. CASE socketio_dowork_send_complete
    <2> DEFINE io == Head(pending_io_list)
    <2>1. io.cb \in SendCallbacks
      <3>1. io \in PendingIo
        BY <1>2, <1>15, HeadTailProperties DEF socketio_dowork_send_complete
      <3> QED
        BY <3>1 DEF PendingIo
    <2>2. Goto(on_send_complete(io.cb, "OK", io.n) \o <<dowork_sent>>) /\ connected /\ connected' = connected
      BY <1>15 DEF socketio_dowork_send_complete, sockVars
    <2>3. AtRest /\ stack # <<>>
      BY <1>4, <1>15 DEF socketio_dowork_send_complete, Loops
    <2> HIDE DEF io
    <2> QED
      BY <1>2, <1>3, <1>14, <2>1, <2>2, <2>3, CompletedPlace
  <1>16. CASE socketio_dowork_remove
    BY <1>2, <1>3, <1>4, <1>14, <1>16, CalmOne DEF socketio_dowork_remove, Loops
  <1>17. Entering(on_io_error("socket"))
    BY LightFrames, Neighbours DEF on_io_error
  <1>18. CASE socketio_dowork_send_error
    BY <1>2, <1>3, <1>4, <1>14, <1>17, <1>18, CalmTwo DEF socketio_dowork_send_error, Loops
  <1>19. CASE socketio_dowork_send_end
    BY <1>2, <1>3, <1>4, <1>14, <1>19, CalmOne DEF socketio_dowork_send_end, Loops, sockVars
  <1>20. CASE socketio_dowork_receive
    <2>1. PICK k \in 1 .. Len(Unread) :
            Goto(<<on_bytes_received("socket", SubSeq(Unread, 1, k)), dowork_receiving>>)
      BY <1>20 DEF socketio_dowork_receive
    <2>2. Entering(on_bytes_received("socket", SubSeq(Unread, 1, k)))
      BY LightFrames, Neighbours DEF on_bytes_received
    <2>3. AtRest /\ stack # <<>> /\ connected' = connected
      BY <1>4, <1>20 DEF socketio_dowork_receive, Loops
    <2> QED
      BY <1>2, <1>3, <1>14, <2>1, <2>2, <2>3, CalmTwo
  <1>21. CASE socketio_dowork_receive_error
    BY <1>2, <1>3, <1>4, <1>17, <1>21, CalmOne DEF socketio_dowork_receive_error, Loops, sockVars
  <1>22. CASE socketio_dowork_receive_end
    BY <1>2, <1>3, <1>4, <1>22, CalmPop DEF socketio_dowork_receive_end, Loops, sockVars
  <1> QED
    BY <1>6, <1>7, <1>8, <1>9, <1>10, <1>11, <1>12, <1>13, <1>15, <1>16, <1>18, <1>19, <1>20, <1>21, <1>22
       DEF SockNext

LEMMA ReturnPlace ==
    ASSUME TypeOK, Place(stack), ReturnStep, UNCHANGED <<sockVars, tlsVars, uwsVars, userVars>>
    PROVE  Place(stack)'
  <1>1. stack \in Seq(Frame) /\ stack # <<>> /\ Top.fn = "return" /\ Return(Top.ret) /\ connected \in BOOLEAN
    BY DEF ReturnStep, TypeOK, SockTypeOK
  <1>2. Kept /\ Unmoved
    BY LayersKept DEF Kept, sockVars
  <1>3. Top.ret = 0 /\ (AtRest \/ OpensSending(stack))
    BY <1>1, RunsInPlace
  <1>4. CASE AtRest
    <2>1. Settled' /\ Waiting(Beneath, uws_state') /\ (Has(Beneath, "decoding") => Told')
      BY <1>1, <1>2, <1>4, KeptSettled DEF AtRest
    <2> QED
      BY <1>1, <1>3, <2>1, CalmReturn
  <1>5. CASE OpensSending(stack)
    <2>1. Beneath # <<>> /\ Is(Head(Beneath), "uws", "upgrade_request_sent") /\ Rest(Tail(Beneath))
          /\ uws_state = "OPENING_UNDERLYING_IO" /\ Unreported
      BY <1>5 DEF OpensSending, Beneath
    <2>2. Waiting(Tail(Beneath), uws_state') /\ (Has(Tail(Beneath), "decoding") => Told')
          /\ Unreported' /\ uws_state' = uws_state
      BY <1>2, <2>1, UnmovedRest DEF Unmoved
    <2> DEFINE g == Given(Head(Beneath), Top.ret)
    <2>3. Stack1(stack', g, Tail(Beneath)) /\ Head(Beneath) \in Frame
      BY <1>1, <2>1, ReturnTop
    <2>4. stack' # <<>> /\ Head(stack') = g /\ Tail(stack') = Tail(Beneath)
          /\ g.at = Head(Beneath).at /\ g.fn = Head(Beneath).fn
      BY <2>3, GivenParts DEF Stack1, OnTop
    <2> HIDE DEF g
    <2>5. Opens(stack)'
      BY <2>1, <2>2, <2>4 DEF Opens, Is, Rest
    <2> QED
      BY <2>5 DEF Place
  <1> QED
    BY <1>3, <1>4, <1>5

-----------------------------------------------------------------------------
(* The client.                                                              *)

LEMMA OutsideKept ==
    ASSUME UNCHANGED <<sockVars, tlsVars, userVars>>
    PROVE  /\ connected' = connected /\ openReports' = openReports /\ closing' = closing /\ alive' = alive
           /\ session' = session => /\ Told' <=> Told
                                    /\ Unreported' <=> Unreported
                                    /\ uws_state' = uws_state => Kept
  <1>1. connected' = connected /\ openReports' = openReports /\ closing' = closing /\ alive' = alive
    BY DEF sockVars, userVars
  <1> QED
    BY <1>1 DEF Told, Unreported, Kept, Unmoved

LEMMA UwsSession ==
    ASSUME UwsNext
    PROVE  session' = session \/ (Running("uws", "uws_client_open_async") /\ session' = session + 1)
  <1>1. CASE \/ indicate_ws_open_complete_error \/ indicate_ws_error \/ indicate_ws_error_and_close
             \/ indicate_ws_close_complete \/ clear_pending_sends \/ call_on_ws_close_complete \/ set_closed
             \/ uws_client_open_async \/ xio_open_returned
             \/ on_underlying_io_open_complete \/ upgrade_request_sent
    BY <1>1 DEF indicate_ws_open_complete_error, indicate_ws_error, indicate_ws_error_and_close,
       indicate_ws_close_complete, clear_pending_sends, call_on_ws_close_complete, set_closed,
       uws_client_open_async, xio_open_returned, on_underlying_io_open_complete, upgrade_request_sent,
       uwsVars, Others
  <1>2. CASE \/ on_underlying_io_bytes_received
             \/ decode_nothing \/ decode_while_opening \/ decode_upgrade_response
             \/ decode_masked_frame \/ decode_unmasked_frame \/ decode_length
             \/ consume_stream_buffer_bytes
             \/ frame_continuation \/ message_done \/ frame_data_final \/ frame_data_first
    BY <1>2 DEF on_underlying_io_bytes_received, decode_nothing, decode_while_opening, decode_upgrade_response,
       decode_masked_frame, decode_unmasked_frame, decode_length, consume_stream_buffer_bytes,
       frame_continuation, message_done, frame_data_final, frame_data_first, Reject, uwsVars, Others
  <1>3. CASE \/ frame_close_bad \/ frame_close_answer \/ frame_close_by_peer \/ answer_sent
             \/ close_or_error \/ close_or_complete \/ frame_ping \/ frame_ignored
             \/ on_underlying_io_close_sent \/ close_sent_closed \/ on_underlying_io_close_complete
             \/ on_underlying_io_error
    BY <1>3 DEF frame_close_bad, frame_close_answer, frame_close_by_peer, answer_sent, close_or_error,
       close_or_complete, frame_ping, frame_ignored, on_underlying_io_close_sent, close_sent_closed,
       on_underlying_io_close_complete, on_underlying_io_error, Reject, uwsVars, Others
  <1>4. CASE \/ uws_client_close_async \/ close_async_closed \/ uws_client_close_handshake_async
             \/ uws_client_destroy \/ uws_client_send_frame_async \/ frame_sent
             \/ on_underlying_io_send_complete \/ on_underlying_io_send_complete_freed
             \/ uws_client_dowork
    BY <1>4 DEF uws_client_close_async, close_async_closed, uws_client_close_handshake_async,
       uws_client_destroy, uws_client_send_frame_async, frame_sent, on_underlying_io_send_complete,
       on_underlying_io_send_complete_freed, uws_client_dowork, uwsVars, Others
  <1> QED
    BY <1>1, <1>2, <1>3, <1>4 DEF UwsNext

LEMMA UwsBooks ==
    ASSUME TypeOK, Books, Place(stack), UwsNext, UNCHANGED <<sockVars, tlsVars, userVars>>
    PROVE  Books'
  <1>1. sock_state' = sock_state /\ connected' = connected /\ pending_io_list' = pending_io_list
        /\ tls_state' = tls_state /\ opens' = opens /\ unopened' = unopened /\ openReports' = openReports
    BY DEF sockVars, tlsVars, userVars
  <1>2. session \in Nat /\ opens \in Nat /\ MaxOpens \in Nat
    <2>1. session \in Nat
      BY DEF TypeOK, UwsTypeOK
    <2>2. opens \in 0 .. MaxOpens /\ MaxOpens \in Nat
      BY BoundsAssumption DEF TypeOK
    <2> QED
      BY <2>1, <2>2
  <1>3. CASE session' = session
    BY <1>1, <1>3 DEF Books
  <1>4. CASE Running("uws", "uws_client_open_async") /\ session' = session + 1
    <2>1. stack \in Seq(Frame) /\ stack # <<>> /\ Top.at = "uws" /\ Top.fn = "uws_client_open_async"
      BY <1>4 DEF Running, Top, TypeOK
    <2>2. Called(stack)
      BY <2>1, RunsInPlace DEF Api
    <2>3. session < opens
      BY <2>1, <2>2 DEF Called, Top, Is
    <2>4. session' <= opens /\ \A s \in Nat : s > session' => s > session
      BY <1>2, <1>4, <2>3
    <2> QED
      BY <1>1, <1>2, <2>4 DEF Books, Sessions
  <1> QED
    BY <1>3, <1>4, UwsSession

\* what a client that runs knows
RunsUws(f) ==
    /\ stack \in Seq(Frame) /\ stack # <<>> /\ connected \in BOOLEAN /\ session \in Nat
    /\ Is(Top, "uws", f) /\ Top \in Frame
    /\ Above("uws") = "user" /\ Below("uws") = "socket"
    /\ connected' = connected
    /\ session' = session => /\ Told' <=> Told
                             /\ Unreported' <=> Unreported
                             /\ uws_state' = uws_state => Kept

\* what is beneath does not mind the new state
Unminded == Waiting(Beneath, uws_state') /\ (Has(Beneath, "decoding") => Told')

LEMMA StillUnminded ==
    ASSUME Rest(Beneath), Told' <=> Told,
           uws_state' = "CLOSED" \/ uws_state # "CLOSED" \/ ~Has(Beneath, "settling")
                                  \/ uws_state' = uws_state
    PROVE  Unminded
  BY StillWaiting DEF Rest, Unminded

\* where the first frame leads, if what is beneath it may wait
LEMMA NextDecodes ==
    ASSUME Settled', NEW a, NEW t, OnTop(stack', a, t), a.at = "uws",
           (a.fn = "frame" /\ Told') \/ (a.fn \in {"indicate_ws_error", "indicate_ws_error_and_close"} /\ session' > 0),
           Waiting(t, uws_state'), Has(t, "decoding") => Told', ~Has(t, "settling")
    PROVE  Place(stack)'
  <1>1. stack' # <<>> /\ Head(stack') = a /\ Tail(stack') = t
    BY DEF OnTop
  <1> QED
    BY <1>1 DEF Place, Decodes, Rest

LEMMA NextCloses ==
    ASSUME NEW t, OnTop(stack', xio_close("uws", "close_complete"), t), Below("uws") = "socket",
           uws_state' = "CLOSING_UNDERLYING_IO", Told',
           Waiting(t, uws_state'), Has(t, "decoding") => Told'
    PROVE  Place(stack)'
  <1> DEFINE a == xio_close("uws", "close_complete")
  <1>1. stack' # <<>> /\ Head(stack') = a /\ Tail(stack') = t
    BY DEF OnTop
  <1>2. Is(a, "socket", "close") /\ a.arg = "close_complete"
    BY DEF xio_close, MkFrame, Is
  <1> HIDE DEF a
  <1> QED
    BY <1>1, <1>2 DEF Place, Closes, Rest

\* something is sent for which nobody waits
LEMMA NextSends ==
    ASSUME Settled', NEW b, NEW t, OnTop(stack', xio_send("uws", "unchecked_on_send_complete", 0), t),
           Below("uws") = "socket", t # <<>>, Careless(Head(t)),
           Waiting(t, uws_state'), Has(t, "decoding") => Told'
    PROVE  Place(stack)'
  <1> DEFINE a == xio_send("uws", "unchecked_on_send_complete", 0)
  <1>1. stack' # <<>> /\ Head(stack') = a /\ Tail(stack') = t
    BY DEF OnTop
  <1>2. Is(a, "socket", "send") /\ a.arg = "unchecked_on_send_complete"
    BY DEF xio_send, MkFrame, Is
  <1> HIDE DEF a
  <1> QED
    BY <1>1, <1>2 DEF Place, Sending, Rest

LEMMA NextShuts ==
    ASSUME stack \in Seq(Frame), stack # <<>>, Below("uws") = "socket", Shut, Unminded,
           uws_state' \in Opening, Unreported'
    PROVE  Place(stack)'
  <1> DEFINE a == xio_close("uws", "NULL")
             b == Uws("open_complete_error")
  <1>1. Is(a, "socket", "close") /\ a.arg = "NULL" /\ Is(b, "uws", "open_complete_error")
    BY DEF xio_close, Uws, MkFrame, Is
  <1>2. Goto(<<a, b>>)
    BY DEF Shut, open_complete_error_and_close
  <1> HIDE DEF a, b
  <1>3. OnTop(stack', a, Tail(stack')) /\ OnTop(Tail(stack'), b, Beneath)
    BY <1>2, Goto2 DEF Stack2
  <1>4. stack' # <<>> /\ Head(stack') = a /\ Tail(stack') # <<>> /\ Head(Tail(stack')) = b
        /\ Tail(Tail(stack')) = Beneath
    BY <1>3 DEF OnTop
  <1> QED
    BY <1>1, <1>4 DEF Place, OpenFails, Rest, Unminded

\* the step of a client that runs f
RunsLemma(f) == RunsUws(f) /\ Top.at = "uws" /\ Top.fn = f

LEMMA UwsReportsPlace ==
    ASSUME Place(stack),
           \A f : Running("uws", f) => RunsLemma(f),
           \/ indicate_ws_open_complete_error \/ indicate_ws_error \/ indicate_ws_error_and_close
           \/ indicate_ws_close_complete \/ clear_pending_sends \/ call_on_ws_close_complete \/ set_closed
    PROVE  Place(stack)'
  <1>1. CASE indicate_ws_open_complete_error
    <2>1. RunsLemma("open_complete_error") /\ uws_state' = "CLOSED" /\ session' = session
          /\ Goto(<<User("on_ws_open_complete", "ERROR", 0, <<>>)>>)
      BY <1>1 DEF indicate_ws_open_complete_error, State, Others
    <2>2. OpenFails(stack)
      BY <2>1, RunsInPlace DEF RunsLemma, RunsUws
    <2>3. Rest(Beneath) /\ ~connected /\ Unreported
      BY <2>1, <2>2 DEF OpenFails, RunsLemma, Is, Top, Beneath
    <2>4. Unminded /\ Unreported' /\ ~connected'
      BY <2>1, <2>3, StillUnminded DEF RunsLemma, RunsUws
    <2> DEFINE a == User("on_ws_open_complete", "ERROR", 0, <<>>)
    <2>5. Is(a, "user", "on_ws_open_complete")
      BY DEF User, MkFrame, Is
    <2>6. Goto(<<a>>)
      BY <2>1
    <2> HIDE DEF a
    <2>7. OnTop(stack', a, Beneath)
      BY <2>1, <2>6, Goto1 DEF Stack1, RunsLemma, RunsUws
    <2>8. stack' # <<>> /\ Head(stack') = a /\ Tail(stack') = Beneath
      BY <2>7 DEF OnTop
    <2> QED
      BY <2>1, <2>4, <2>5, <2>8 DEF Place, OpenTold, Rest, Unminded
  <1>2. ASSUME NEW f \in {"indicate_ws_error", "indicate_ws_error_and_close"}, RunsLemma(f),
               uws_state' = "ERROR", session' = session
        PROVE  Settled' /\ Unminded
    <2>1. Decodes(stack)
      BY <1>2, RunsInPlace DEF RunsLemma, RunsUws
    <2>2. Settled /\ Rest(Beneath) /\ ~Has(Beneath, "settling") /\ session > 0
      BY <1>2, <2>1 DEF Decodes, RunsLemma, Is, Top, Beneath
    <2>3. Unminded
      BY <1>2, <2>2, StillUnminded DEF RunsLemma, RunsUws
    <2>4. Settled'
      BY <1>2, <2>2 DEF Settled
    <2> QED
      BY <2>3, <2>4
  <1>3. Light(User("on_ws_error", "", 0, <<>>))
    BY LightFrames DEF User, Callbacks, UwsCallbacks
  <1>4. CASE indicate_ws_error
    <2>1. RunsLemma("indicate_ws_error") /\ uws_state' = "ERROR" /\ session' = session
          /\ Goto(<<User("on_ws_error", "", 0, <<>>)>>)
      BY <1>4 DEF indicate_ws_error, State, Others
    <2>2. OnTop(stack', User("on_ws_error", "", 0, <<>>), Beneath)
      BY <2>1, Goto1 DEF Stack1, RunsLemma, RunsUws
    <2> QED
      BY <1>2, <1>3, <2>1, <2>2, UsualNext DEF Unminded
  <1>5. CASE indicate_ws_error_and_close
    <2> DEFINE a == xio_send("uws", "unchecked_on_send_complete", 0)
               b == User("on_ws_error", "", 0, <<>>)
    <2>1. RunsLemma("indicate_ws_error_and_close") /\ uws_state' = "ERROR" /\ session' = session
          /\ (Goto(<<>> \o <<b>>) \/ Goto(<<a>> \o <<b>>))
      BY <1>5 DEF indicate_ws_error_and_close, State, Others
    <2>2. Settled' /\ Unminded
      BY <1>2, <2>1
    <2>3. Light(b) /\ Careless(b)
      BY <1>3 DEF Careless, Is, User, MkFrame
    <2>4. <<>> \o <<b>> = <<b>> /\ <<a>> \o <<b>> = <<a, b>>
      BY ONLY ConcatTuples
    <2> HIDE DEF a, b
    <2>5. CASE Goto(<<b>>)
      <3>1. OnTop(stack', b, Beneath)
        BY <2>1, <2>5, Goto1 DEF Stack1, RunsLemma, RunsUws
      <3> QED
        BY <2>2, <2>3, <3>1, UsualNext DEF Unminded
    <2>6. CASE Goto(<<a, b>>)
      <3>1. OnTop(stack', a, Tail(stack')) /\ OnTop(Tail(stack'), b, Beneath)
        BY <2>1, <2>6, Goto2 DEF Stack2, RunsLemma, RunsUws
      <3>2. Waiting(Tail(stack'), uws_state') /\ (Has(Tail(stack'), "decoding") => Told')
        BY <2>2, <2>3, <3>1, LightOnTop DEF Unminded
      <3>3. Tail(stack') # <<>> /\ Head(Tail(stack')) = b
        BY <3>1 DEF OnTop
      <3> QED
        BY <2>1, <2>2, <2>3, <3>1, <3>2, <3>3, NextSends DEF RunsLemma, RunsUws, a
    <2> QED
      BY <2>1, <2>4, <2>5, <2>6
  <1>6. CASE indicate_ws_close_complete
    <2> DEFINE a == Uws("clear_pending_sends")
               b == Uws("call_on_ws_close_complete")
    <2>1. RunsLemma("indicate_ws_close_complete") /\ uws_state' = "CLOSED" /\ session' = session
          /\ Goto(<<a, b>>)
      BY <1>6 DEF indicate_ws_close_complete, State, Others
    <2>2. Light(a) /\ Light(b)
      BY LightFrames
    <2> HIDE DEF a, b
    <2>3. Closes(stack)
      BY <2>1, RunsInPlace DEF RunsLemma, RunsUws
    <2>4. ~connected /\ Told
      BY <2>1, <2>3 DEF Closes, RunsLemma, Is, Top
    <2>5. Unminded
      <3>1. CASE Rest(Beneath)
        BY <2>1, <3>1, StillUnminded DEF RunsLemma, RunsUws
      <3>2. CASE Beneath # <<>> /\ Is(Head(Beneath), "uws", "set_closed") /\ Rest(Tail(Beneath))
        <4>1. OnTop(Beneath, Head(Beneath), Tail(Beneath))
          <5>1. Beneath \in Seq(Frame)
            BY <2>1, RunningTop DEF RunsLemma, RunsUws
          <5> QED
            BY <3>2, <5>1, TopOnTop
        <4>2. Waiting(Tail(Beneath), "CLOSED") /\ (Has(Tail(Beneath), "decoding") => Told)
          BY <3>2, StillWaiting DEF Rest
        <4>3. Resumable(Head(Beneath)) /\ Role(Head(Beneath)) = "settling"
          BY <3>2, Roles DEF Resumable, Is
        <4>4. Waiting(Beneath, "CLOSED") /\ (Has(Beneath, "decoding") => Told)
          BY <4>1, <4>2, <4>3 DEF OnTop
        <4> QED
          BY <2>1, <4>4 DEF Unminded, RunsLemma, RunsUws
      <3> QED
        BY <2>1, <2>3, <3>1, <3>2 DEF Closes, RunsLemma, Is, Top, Beneath
    <2>6. Told' /\ session' > 0 /\ ~connected' /\ Settled'
      <3>1. Told' /\ session' > 0 /\ ~connected'
        BY <2>1, <2>4 DEF RunsLemma, RunsUws, Told
      <3> QED
        BY <2>1, <3>1 DEF Settled
    <2>7. OnTop(stack', a, Tail(stack')) /\ OnTop(Tail(stack'), b, Beneath)
      BY <2>1, Goto2 DEF Stack2, RunsLemma, RunsUws
    <2>8. Waiting(Tail(stack'), uws_state') /\ (Has(Tail(stack'), "decoding") => Told')
      BY <2>2, <2>5, <2>7, LightOnTop DEF Unminded
    <2> QED
      BY <2>2, <2>6, <2>7, <2>8, UsualNext
  <1>7. CASE clear_pending_sends
    <2> DEFINE a == User("on_ws_send_frame_complete", "CANCELLED", Head(pending_sends), <<>>)
               b == Uws("clear_pending_sends")
    <2>1. RunsLemma("clear_pending_sends") /\ uws_state' = uws_state /\ session' = session
          /\ (Pop \/ Goto(<<a, b>>))
      BY <1>7 DEF clear_pending_sends
    <2>2. Light(a) /\ Light(b)
      BY LightFrames DEF User, Callbacks, UwsCallbacks
    <2> HIDE DEF a, b
    <2>3. AtRest
      BY <2>1, RunsFreely DEF RunsLemma, RunsUws, Free
    <2> QED
      BY <2>1, <2>2, <2>3, CalmPop, CalmTwo DEF RunsLemma, RunsUws
  <1>8. CASE call_on_ws_close_complete
    <2> DEFINE a == User("on_ws_close_complete", "", on_ws_close_complete, <<>>)
    <2>1. RunsLemma("call_on_ws_close_complete") /\ uws_state' = uws_state /\ session' = session
          /\ (Goto(<<>>) \/ Goto(<<a>>))
      BY <1>8 DEF call_on_ws_close_complete, uwsVars
    <2>2. Entering(a)
      BY DEF User, MkFrame, Is, Entering
    <2> HIDE DEF a
    <2>3. AtRest
      BY <2>1, RunsFreely DEF RunsLemma, RunsUws, Free
    <2> QED
      BY <2>1, <2>2, <2>3, CalmPop, CalmOne DEF RunsLemma, RunsUws
  <1>9. CASE set_closed
    <2>1. RunsLemma("set_closed") /\ uws_state' = "CLOSED" /\ session' = session /\ Pop
      BY <1>9 DEF set_closed, State, Others
    <2>2. AtRest /\ uws_state = "CLOSED"
      BY <2>1, RunsFreely DEF RunsLemma, RunsUws
    <2> QED
      BY <2>1, <2>2, CalmPop DEF RunsLemma, RunsUws
  <1> QED
    BY <1>1, <1>4, <1>5, <1>6, <1>7, <1>8, <1>9

LEMMA UwsOpensPlace ==
    ASSUME TypeOK, Books, Place(stack),
           \A f : Running("uws", f) => RunsLemma(f),
           UNCHANGED <<sockVars, tlsVars, userVars>>,
           \/ uws_client_open_async \/ xio_open_returned
           \/ on_underlying_io_open_complete \/ upgrade_request_sent
    PROVE  Place(stack)'
  <1>1. CASE uws_client_open_async
    <2>1. RunsLemma("uws_client_open_async")
      BY <1>1 DEF uws_client_open_async
    <2>2. Called(stack)
      BY <2>1, RunsInPlace DEF RunsLemma, RunsUws, Api
    <2>3. /\ Settled /\ alive /\ Beneath # <<>> /\ Is(Head(Beneath), "user", "returned")
          /\ Head(Beneath).ret = 0 /\ Head(Beneath).arg = "open" /\ Head(Beneath).n = session + 1
          /\ session < opens /\ Tail(Beneath) = <<>> /\ Rest(Beneath)
      BY <2>1, <2>2 DEF Called, RunsLemma, Is, Top, Beneath
    <2>4. OnTop(Beneath, Head(Beneath), Tail(Beneath)) /\ Head(Beneath) \in Frame
      <3>1. Beneath \in Seq(Frame)
        BY <2>1, RunningTop DEF RunsLemma, RunsUws
      <3> QED
        BY <2>3, <3>1, TopOnTop
    <2>5. CASE uws_state = "CLOSED"
      <3> DEFINE a == xio_open("uws")
                 b == Uws("xio_open_returned")
      <3>1. uws_state' = "OPENING_UNDERLYING_IO" /\ session' = session + 1 /\ Goto(<<a, b>>)
        BY <1>1, <2>5 DEF uws_client_open_async, State
      <3>2. Light(b)
        BY LightFrames DEF Awaiting
      <3>3. Is(a, "socket", "open")
        BY <2>1 DEF RunsLemma, RunsUws, xio_open, MkFrame, Is
      <3> HIDE DEF a, b
      <3>4. OnTop(stack', a, Tail(stack')) /\ OnTop(Tail(stack'), b, Beneath)
        BY <2>1, <3>1, Goto2 DEF Stack2, RunsLemma, RunsUws
      <3>5. Role(Head(Beneath)) \notin {"settling", "decoding"}
        BY <2>3 DEF Role, Is
      <3>6. ~Has(Beneath, "settling") /\ ~Has(Beneath, "decoding")
        BY <2>3, <2>4, <3>5, NothingWaits DEF OnTop
      <3>7. Waiting(Beneath, uws_state')
        BY <2>3, <3>1, <3>6, StillWaiting DEF Rest
      <3>8. Waiting(Tail(stack'), uws_state') /\ ~Has(Tail(stack'), "decoding")
        BY <3>2, <3>4, <3>6, <3>7, LightOnTop
      <3>9. ~connected' /\ Unreported'
        <4>1. ~connected /\ connected' = connected /\ openReports' = openReports
          BY <2>3, <2>5, OutsideKept DEF Settled
        <4>2. session \in Nat /\ opens \in 0 .. MaxOpens /\ MaxOpens \in Nat
          BY <2>1, BoundsAssumption DEF TypeOK, RunsLemma, RunsUws
        <4>3. session + 1 \in Sessions /\ session + 1 > session /\ session + 1 > 0
          BY <2>3, <4>2 DEF Sessions
        <4>4. openReports[session + 1] = 0
          BY <4>3 DEF Books
        <4> QED
          BY <3>1, <4>1, <4>3, <4>4 DEF Unreported
      <3>10. stack' # <<>> /\ Head(stack') = a
        BY <3>4 DEF OnTop
      <3> QED
        BY <3>1, <3>3, <3>8, <3>9, <3>10 DEF Place, Opens, Rest
    <2>6. CASE uws_state # "CLOSED"
      <3>1. Return(1) /\ uws_state' = uws_state /\ session' = session
        BY <1>1, <2>6 DEF uws_client_open_async, uwsVars
      <3> DEFINE g == Given(Head(Beneath), 1)
      <3>2. Stack1(stack', g, Tail(Beneath))
        BY <2>1, <2>3, <3>1, ReturnTop DEF RunsLemma, RunsUws
      <3>3. g.at = "user" /\ g.fn = "returned" /\ g.n = session + 1
        BY <2>3, <2>4, GivenParts DEF Is
      <3> HIDE DEF g
      <3>4. stack' # <<>> /\ Head(stack') = g /\ Tail(stack') = <<>>
        BY <2>3, <3>2 DEF Stack1, OnTop
      <3>5. session + 1 # session
        BY <2>1 DEF RunsLemma, RunsUws
      <3>6. Settled'
        BY <2>1, <2>3, <3>1, KeptSettled DEF RunsLemma, RunsUws
      <3> QED
        BY <3>1, <3>3, <3>4, <3>5, <3>6, NothingWaits DEF Place, Usual, Rest, Is
    <2> QED
      BY <2>5, <2>6
  <1>2. CASE xio_open_returned
    <2>1. RunsLemma("xio_open_returned") /\ session' = session /\ Return(Top.ret)
          /\ uws_state' = (IF Top.ret # 0 THEN "CLOSED" ELSE uws_state)
      BY <1>2 DEF xio_open_returned, State, Others
    <2>2. AtRest /\ Top.ret = 0
      BY <2>1, RunsFreely DEF RunsLemma, RunsUws, Succeeding, Awaiting
    <2>3. Settled' /\ Waiting(Beneath, uws_state') /\ (Has(Beneath, "decoding") => Told')
      BY <2>1, <2>2, KeptSettled DEF AtRest, RunsLemma, RunsUws
    <2> QED
      BY <2>1, <2>2, <2>3, CalmReturn DEF RunsLemma, RunsUws
  <1>3. CASE on_underlying_io_open_complete
    <2>1. RunsLemma("on_io_open_complete") /\ session' = session /\ uws_state' = uws_state
      BY <1>3 DEF on_underlying_io_open_complete, uwsVars
    <2>2. Opens(stack)
      BY <2>1, RunsInPlace DEF RunsLemma, RunsUws
    <2>3. /\ uws_state = "OPENING_UNDERLYING_IO" /\ Unreported /\ Rest(Beneath)
          /\ Top.arg = "ERROR" => ~connected
      BY <2>1, <2>2 DEF Opens, RunsLemma, Is, Top, Beneath
    <2>4. Unminded /\ Unreported' /\ connected' = connected
      BY <2>1, <2>3, StillUnminded DEF RunsLemma, RunsUws
    <2>5. CASE Shut
      BY <2>1, <2>3, <2>4, <2>5, NextShuts DEF RunsLemma, RunsUws, Opening
    <2>6. CASE Top.arg = "ERROR" /\ Goto(<<Uws("open_complete_error")>>)
      <3> DEFINE a == Uws("open_complete_error")
      <3>1. Is(a, "uws", "open_complete_error")
        BY DEF Uws, MkFrame, Is
      <3>2. Goto(<<a>>)
        BY <2>6
      <3> HIDE DEF a
      <3>3. OnTop(stack', a, Beneath)
        BY <2>1, <3>2, Goto1 DEF Stack1, RunsLemma, RunsUws
      <3>4. stack' # <<>> /\ Head(stack') = a /\ Tail(stack') = Beneath
        BY <3>3 DEF OnTop
      <3> QED
        BY <2>1, <2>3, <2>4, <2>6, <3>1, <3>4 DEF Place, OpenFails, Opening, Rest, Unminded
    <2>7. CASE Goto(<<xio_send("uws", "unchecked_on_send_complete", 0), Uws("upgrade_request_sent")>>)
      <3> DEFINE a == xio_send("uws", "unchecked_on_send_complete", 0)
                 b == Uws("upgrade_request_sent")
      <3>1. Is(a, "socket", "send") /\ a.arg = "unchecked_on_send_complete" /\ Is(b, "uws", "upgrade_request_sent")
        BY <2>1 DEF RunsLemma, RunsUws, xio_send, Uws, MkFrame, Is
      <3>2. Goto(<<a, b>>)
        BY <2>7
      <3> HIDE DEF a, b
      <3>3. OnTop(stack', a, Tail(stack')) /\ OnTop(Tail(stack'), b, Beneath)
        BY <2>1, <3>2, Goto2 DEF Stack2, RunsLemma, RunsUws
      <3>4. stack' # <<>> /\ Head(stack') = a /\ Tail(stack') # <<>> /\ Head(Tail(stack')) = b
            /\ Tail(Tail(stack')) = Beneath
        BY <3>3 DEF OnTop
      <3> QED
        BY <2>1, <2>3, <2>4, <3>1, <3>4 DEF Place, OpensSending, Rest, Unminded
    <2> QED
      BY <1>3, <2>3, <2>5, <2>6, <2>7 DEF on_underlying_io_open_complete
  <1>4. CASE upgrade_request_sent
    <2>1. RunsLemma("upgrade_request_sent") /\ session' = session
      BY <1>4 DEF upgrade_request_sent, Others
    <2>2. Opens(stack)
      BY <2>1, RunsInPlace DEF RunsLemma, RunsUws
    <2>3. uws_state = "OPENING_UNDERLYING_IO" /\ Unreported /\ Rest(Beneath)
      BY <2>1, <2>2 DEF Opens, RunsLemma, Is, Top, Beneath
    <2>4. Unminded /\ Unreported'
      BY <2>1, <2>3, StillUnminded DEF RunsLemma, RunsUws
    <2>5. CASE Shut /\ uws_state' = uws_state
      BY <2>1, <2>3, <2>4, <2>5, NextShuts DEF RunsLemma, RunsUws, Opening
    <2>6. CASE Pop /\ uws_state' = "WAITING_FOR_UPGRADE_RESPONSE"
      <3>1. stack' = Beneath
        BY <2>1, <2>6, Goto0 DEF RunsLemma, RunsUws
      <3>2. Settled'
        BY <2>4, <2>6 DEF Settled, Unreported
      <3> QED
        BY <2>4, <3>1, <3>2 DEF Place, Usual, Rest, Unminded
    <2> QED
      BY <1>4, <2>5, <2>6 DEF upgrade_request_sent, State
  <1> QED
    BY <1>1, <1>2, <1>3, <1>4

\* In a settled state in which frames are decoded the open has been answered.
LEMMA DecodingTold ==
    ASSUME Settled, session \in Nat, uws_state \in Decoding
    PROVE  Told /\ session > 0
  BY DEF Settled, Told, Decoding

\* an error is reported in a state that decodes frames
LEMMA ErrorPlace ==
    ASSUME RunsUws(Top.fn), AtRest, ~Has(Beneath, "settling"), session > 0,
           uws_state' = uws_state, session' = session,
           Goto(<<Uws("indicate_ws_error")>>)
    PROVE  Place(stack)'
  <1> DEFINE a == Uws("indicate_ws_error")
  <1>1. a.at = "uws" /\ a.fn = "indicate_ws_error"
    BY DEF Uws, MkFrame
  <1>2. Goto(<<a>>)
    OBVIOUS
  <1> HIDE DEF a
  <1>3. OnTop(stack', a, Beneath)
    BY <1>2, Goto1 DEF Stack1, RunsUws
  <1>4. Unminded /\ Settled'
    BY StillUnminded, KeptSettled DEF AtRest, RunsUws
  <1> QED
    BY <1>1, <1>3, <1>4, NextDecodes DEF Unminded

LEMMA UwsReceivesPlace ==
    ASSUME Place(stack),
           \A f : Running("uws", f) => RunsLemma(f),
           \/ on_underlying_io_bytes_received \/ decode_nothing \/ decode_while_opening
           \/ decode_upgrade_response \/ decode_masked_frame \/ decode_unmasked_frame
           \/ decode_length \/ consume_stream_buffer_bytes \/ message_done
    PROVE  Place(stack)'
  <1>1. ASSUME NEW f \in Free, RunsLemma(f)
        PROVE  /\ AtRest /\ stack \in Seq(Frame) /\ stack # <<>> /\ connected \in BOOLEAN /\ session \in Nat
               /\ RunsUws(f) /\ Below("uws") = "socket" /\ Is(Top, "uws", f)
               /\ uws_state = "CLOSED" \/ ~Has(Beneath, "settling")
               /\ uws_state' = uws_state /\ session' = session => Kept /\ Unminded /\ Settled'
    <2>1. AtRest
      BY <1>1, RunsFreely DEF RunsLemma, RunsUws
    <2>2. uws_state = "CLOSED" \/ ~Has(Beneath, "settling")
      BY <2>1 DEF AtRest, Rest, Waiting
    <2>3. uws_state' = uws_state /\ session' = session => Kept /\ Unminded /\ Settled'
      BY <1>1, <2>1, StillUnminded, KeptSettled DEF RunsLemma, RunsUws, AtRest
    <2> QED
      BY <1>1, <2>1, <2>2, <2>3 DEF RunsLemma, RunsUws
  \* a response that is not liked, or bytes that come too early
  <1>2. ASSUME NEW f \in Free, RunsLemma(f), uws_state \in Opening, uws_state' = uws_state, session' = session,
               Shut
        PROVE  Place(stack)'
    <2>1. uws_state = "WAITING_FOR_UPGRADE_RESPONSE" /\ Unreported
      BY <1>1, <1>2 DEF AtRest, Settled, Opening, Unreported
    <2>2. Unreported'
      BY <1>1, <1>2, <2>1 DEF RunsUws
    <2> QED
      BY <1>1, <1>2, <2>2, NextShuts
  <1>3. CASE on_underlying_io_bytes_received
    <2>1. RunsLemma("on_bytes_received") /\ "on_bytes_received" \in Free
          /\ uws_state' = uws_state /\ session' = session
      BY <1>3 DEF on_underlying_io_bytes_received, Others, Free
    <2>2. CASE Goto(<<Uws("decode_stream")>>)
      BY <1>1, <2>1, <2>2, LightFrames, CalmOne
    <2>3. CASE uws_state \in Opening /\ Shut
      BY <1>2, <2>1, <2>3
    <2>4. CASE uws_state \in Decoding /\ Goto(<<Uws("indicate_ws_error")>>)
      <3>1. session > 0 /\ ~Has(Beneath, "settling")
        BY <1>1, <2>1, <2>4, DecodingTold DEF AtRest, Decoding
      <3> QED
        BY <1>1, <2>1, <2>4, <3>1, ErrorPlace DEF Is
    <2>5. CASE Pop
      BY <1>1, <2>1, <2>5, CalmPop
    <2> QED
      BY <1>3, <2>2, <2>3, <2>4, <2>5 DEF on_underlying_io_bytes_received
  <1>4. CASE decode_nothing
    BY <1>1, <1>4, CalmPop DEF decode_nothing, uwsVars, Free
  <1>5. CASE decode_while_opening
    BY <1>2, <1>5 DEF decode_while_opening, uwsVars, Free, Opening
  <1>6. CASE decode_upgrade_response
    <2>1. RunsLemma("decode_stream") /\ "decode_stream" \in Free /\ session' = session
          /\ uws_state = "WAITING_FOR_UPGRADE_RESPONSE"
      BY <1>6 DEF decode_upgrade_response, Others, Free
    <2>2. CASE Pop /\ uws_state' = uws_state
      BY <1>1, <2>1, <2>2, CalmPop
    <2>3. CASE Shut /\ uws_state' = uws_state
      BY <1>2, <2>1, <2>3 DEF Opening
    <2>4. CASE uws_state' = "OPEN" /\ Goto(<<User("on_ws_open_complete", "OK", 0, <<>>), Uws("decode_stream")>>)
      <3> DEFINE a == User("on_ws_open_complete", "OK", 0, <<>>)
                 b == Uws("decode_stream")
      <3>1. Is(a, "user", "on_ws_open_complete")
        BY DEF User, MkFrame, Is
      <3>2. Light(b)
        BY LightFrames
      <3>3. Goto(<<a, b>>)
        BY <2>4
      <3> HIDE DEF a, b
      <3>4. Unreported /\ Rest(Beneath)
        BY <1>1, <2>1 DEF AtRest, Settled, Unreported
      <3>5. Unreported' /\ Unminded
        BY <1>1, <2>1, <3>4, StillUnminded DEF RunsUws
      <3>6. OnTop(stack', a, Tail(stack')) /\ OnTop(Tail(stack'), b, Beneath)
        BY <1>1, <2>1, <3>3, Goto2 DEF Stack2
      <3>7. Waiting(Tail(stack'), uws_state') /\ (Has(Tail(stack'), "decoding") => Told')
        BY <3>2, <3>5, <3>6, LightOnTop DEF Unminded
      <3>8. stack' # <<>> /\ Head(stack') = a
        BY <3>6 DEF OnTop
      <3> QED
        BY <2>4, <3>1, <3>5, <3>7, <3>8 DEF Place, OpenTold, Rest
    <2> QED
      BY <1>6, <2>2, <2>3, <2>4 DEF decode_upgrade_response, State
  \* a frame is looked at
  <1>7. ASSUME NEW t, NEW h, OnTop(t, MkFrame("uws", "decode_frame", "", 0, <<h>>), Beneath),
               uws_state' = uws_state, session' = session, uws_state \in Decoding,
               RunsLemma("decode_stream")
        PROVE  /\ Waiting(t, uws_state') /\ (Has(t, "decoding") => Told') /\ ~Has(t, "settling")
               /\ Told' /\ session' > 0
    <2> DEFINE b == MkFrame("uws", "decode_frame", "", 0, <<h>>)
    <2>1. Is(b, "uws", "decode_frame")
      BY DEF MkFrame, Is
    <2>2. OnTop(t, b, Beneath)
      BY <1>7
    <2> HIDE DEF b
    <2>3. Role(b) = "decoding" /\ Resumable(b)
      BY <2>1, Roles DEF Resumable, Is
    <2>4. Told' /\ session' > 0 /\ ~Has(Beneath, "settling") /\ Waiting(Beneath, uws_state')
      <3>1. Told /\ session > 0 /\ ~Has(Beneath, "settling") /\ Unminded
        BY <1>1, <1>7, DecodingTold DEF AtRest, Decoding, Free
      <3> QED
        BY <1>1, <1>7, <3>1 DEF Free, RunsUws, Unminded
    <2> QED
      BY <2>2, <2>3, <2>4 DEF OnTop
  <1>8. CASE decode_masked_frame
    <2>1. RunsLemma("decode_stream") /\ "decode_stream" \in Free /\ uws_state' = uws_state /\ session' = session
          /\ uws_state \in Decoding
      BY <1>8 DEF decode_masked_frame, uwsVars, Free
    <2>2. PICK h : Goto(<<Uws("indicate_ws_error_and_close"), MkFrame("uws", "decode_frame", "", 0, <<h>>)>>)
      BY <1>8 DEF decode_masked_frame
    <2> DEFINE a == Uws("indicate_ws_error_and_close")
               b == MkFrame("uws", "decode_frame", "", 0, <<h>>)
    <2>3. a.at = "uws" /\ a.fn = "indicate_ws_error_and_close"
      BY DEF Uws, MkFrame
    <2>4. Goto(<<a, b>>)
      BY <2>2
    <2> HIDE DEF a, b
    <2>5. OnTop(stack', a, Tail(stack')) /\ OnTop(Tail(stack'), b, Beneath)
      BY <1>1, <2>1, <2>4, Goto2 DEF Stack2
    <2>6. Waiting(Tail(stack'), uws_state') /\ (Has(Tail(stack'), "decoding") => Told')
          /\ ~Has(Tail(stack'), "settling") /\ session' > 0
      BY <1>7, <2>1, <2>5 DEF b
    <2> QED
      BY <1>1, <2>1, <2>3, <2>5, <2>6, NextDecodes
  <1>9. CASE decode_unmasked_frame
    <2>1. RunsLemma("decode_stream") /\ "decode_stream" \in Free /\ uws_state' = uws_state /\ session' = session
          /\ uws_state \in Decoding
      BY <1>9 DEF decode_unmasked_frame, uwsVars, Free
    <2>2. CASE Pop
      BY <1>1, <2>1, <2>2, CalmPop
    <2>3. ASSUME NEW h, Goto(<<MkFrame("uws", "decode_frame", "", 0, <<h>>)>>)
          PROVE  Place(stack)'
      <3>1. OnTop(stack', MkFrame("uws", "decode_frame", "", 0, <<h>>), Beneath)
        BY <1>1, <2>1, <2>3, Goto1 DEF Stack1
      <3>2. Waiting(stack', uws_state') /\ (Has(stack', "decoding") => Told')
        BY <1>7, <2>1, <3>1
      <3> QED
        BY <1>1, <2>1, <3>2 DEF Place, Usual, Rest
    <2> QED
      BY <1>9, <2>2, <2>3 DEF decode_unmasked_frame
  <1>10. CASE decode_length
    <2>1. RunsLemma("decode_frame") /\ uws_state' = uws_state /\ session' = session
      BY <1>10 DEF decode_length, uwsVars
    <2>2. AtRest /\ Told /\ ~Has(Beneath, "settling")
      BY <2>1, RunsFreely DEF RunsLemma, RunsUws
    <2>3. CASE Goto(<<Uws("indicate_ws_error")>>)
      BY <2>1, <2>2, <2>3, ErrorPlace DEF RunsLemma, Told
    <2>4. CASE Pop
      BY <2>1, <2>2, <2>4, CalmPop DEF RunsLemma, RunsUws
    <2>5. ASSUME NEW h, Goto(<<MkFrame("uws", "frame", opcode(h), needed_bytes(h), <<h>>)>>)
          PROVE  Place(stack)'
      <3> DEFINE a == MkFrame("uws", "frame", opcode(h), needed_bytes(h), <<h>>)
      <3>1. a.at = "uws" /\ a.fn = "frame"
        BY DEF MkFrame
      <3>2. Goto(<<a>>)
        BY <2>5
      <3> HIDE DEF a
      <3>3. OnTop(stack', a, Beneath)
        BY <2>1, <3>2, Goto1 DEF Stack1, RunsLemma, RunsUws
      <3>4. Unminded /\ Settled' /\ Told'
        BY <2>1, <2>2, StillUnminded, KeptSettled DEF RunsLemma, RunsUws, AtRest
      <3> QED
        BY <2>2, <3>1, <3>3, <3>4, NextDecodes DEF Unminded
    <2> QED
      BY <1>10, <2>3, <2>4, <2>5 DEF decode_length
  <1>11. CASE consume_stream_buffer_bytes
    <2>1. RunsLemma("consume_stream_buffer_bytes") /\ "consume_stream_buffer_bytes" \in Free
          /\ uws_state' = uws_state /\ session' = session
          /\ (Goto(<<Uws("decode_stream")>>) \/ Goto(<<>>) \/ Goto(<<Uws("undefined")>>))
      BY <1>11 DEF consume_stream_buffer_bytes, Free
    <2>2. Light(Uws("decode_stream")) /\ Light(Uws("undefined"))
      BY LightFrames
    <2> QED
      BY <1>1, <2>1, <2>2, CalmPop, CalmOne
  <1>12. CASE message_done
    BY <1>1, <1>12, CalmPop DEF message_done, Others, Free
  <1> QED
    BY <1>3, <1>4, <1>5, <1>6, <1>8, <1>9, <1>10, <1>11, <1>12

\* what a client knows that has a frame before it
InFrame ==
    /\ RunsUws("frame") /\ AtRest /\ Told /\ ~Has(Beneath, "settling") /\ session > 0
    /\ session' = session

LEMMA FrameKnows ==
    ASSUME Place(stack), RunsLemma("frame"), session' = session
    PROVE  InFrame
  <1>1. Decodes(stack)
    BY RunsInPlace DEF RunsLemma, RunsUws
  <1>2. Settled /\ Rest(Beneath) /\ ~Has(Beneath, "settling") /\ Told
    BY <1>1 DEF Decodes, RunsLemma, Is, Top, Beneath
  <1> QED
    BY <1>2 DEF InFrame, AtRest, Told, RunsLemma

\* An error is reported, and the frame consumed.
LEMMA RejectPlace ==
    ASSUME InFrame, uws_state' = uws_state, NEW n, NEW x,
           Goto(<<Uws("indicate_ws_error"), consume(n, x)>>)
    PROVE  Place(stack)'
  <1> DEFINE a == Uws("indicate_ws_error")
             b == consume(n, x)
  <1>1. a.at = "uws" /\ a.fn = "indicate_ws_error"
    BY DEF Uws, MkFrame
  <1>2. Light(b)
    BY LightFrames DEF consume
  <1>3. Goto(<<a, b>>)
    OBVIOUS
  <1> HIDE DEF a, b
  <1>4. OnTop(stack', a, Tail(stack')) /\ OnTop(Tail(stack'), b, Beneath)
    BY <1>3, Goto2 DEF Stack2, InFrame, RunsUws
  <1>5. Unminded /\ Settled'
    BY StillUnminded, KeptSettled DEF InFrame, RunsUws, AtRest
  <1>6. Waiting(Tail(stack'), uws_state') /\ (Has(Tail(stack'), "decoding") => Told')
        /\ ~Has(Tail(stack'), "settling")
    BY <1>2, <1>4, <1>5, LightOnTop DEF Unminded, InFrame
  <1> QED
    BY <1>1, <1>4, <1>5, <1>6, NextDecodes DEF InFrame

\* light frames of the client
LEMMA UwsLight ==
    /\ \A n, x : Light(consume(n, x))
    /\ \A f \in Callbacks : \A a, n, d : Light(User(f, a, n, d))
    /\ \A f \in {"message_done"} \cup Awaiting : Light(Uws(f))
  BY LightFrames DEF consume, User

\* the socket is closed for the client
LEMMA ClosingPlace ==
    ASSUME InFrame, uws_state' = "CLOSING_UNDERLYING_IO", NEW b, NEW c, Light(b), Light(c),
           Goto(<<xio_close("uws", "close_complete"), b, c>>)
    PROVE  Place(stack)'
  <1> DEFINE a == xio_close("uws", "close_complete")
             v == Tail(stack')
  <1>1. OnTop(stack', a, v) /\ OnTop(v, b, Tail(v)) /\ OnTop(Tail(v), c, Beneath)
    BY Goto3 DEF Stack3, Stack2, InFrame, RunsUws
  <1> HIDE DEF a, v
  <1>2. Unminded /\ Told'
    BY StillUnminded DEF InFrame, RunsUws, AtRest
  <1>3. Waiting(Tail(v), uws_state') /\ (Has(Tail(v), "decoding") => Told')
    BY <1>1, <1>2, LightOnTop DEF Unminded
  <1>4. Waiting(v, uws_state') /\ (Has(v, "decoding") => Told')
    BY <1>1, <1>3, LightOnTop
  <1> QED
    BY <1>1, <1>2, <1>4, NextCloses DEF InFrame, RunsUws, a

LEMMA UwsFramesPlace ==
    ASSUME Place(stack),
           \A f : Running("uws", f) => RunsLemma(f),
           \/ frame_continuation \/ frame_data_final \/ frame_data_first
           \/ frame_close_bad \/ frame_close_answer \/ frame_ping \/ frame_ignored
    PROVE  Place(stack)'
  <1>1. ASSUME RunsLemma("frame"), session' = session
        PROVE  /\ InFrame /\ stack \in Seq(Frame) /\ stack # <<>> /\ connected \in BOOLEAN /\ AtRest
               /\ uws_state' = uws_state => Kept /\ Settled' /\ Unminded
    BY <1>1, FrameKnows, StillUnminded, KeptSettled DEF InFrame, RunsUws, AtRest
  <1>2. CASE frame_continuation
    <2>1. RunsLemma("frame") /\ uws_state' = uws_state /\ session' = session
      BY <1>2 DEF frame_continuation, Received, Reject, uwsVars, Others
    <2>2. CASE Goto(<<Consume("again")>>)
      BY <1>1, <2>1, <2>2, UwsLight, CalmOne DEF Consume
    <2>3. ASSUME NEW x, Goto(<<Uws("indicate_ws_error"), Consume(x)>>)
          PROVE  Place(stack)'
      BY <1>1, <2>1, <2>3, RejectPlace DEF Consume
    <2>4. ASSUME NEW t, NEW d, Goto(<<User("on_ws_frame_received", t, 0, d), Uws("message_done"), Consume("again")>>)
          PROVE  Place(stack)'
      <3>1. Light(User("on_ws_frame_received", t, 0, d)) /\ Light(Uws("message_done")) /\ Light(Consume("again"))
        BY UwsLight DEF Consume, Callbacks, UwsCallbacks
      <3> QED
        BY <1>1, <2>1, <2>4, <3>1, CalmThree
    <2> QED
      BY <1>2, <2>2, <2>3, <2>4 DEF frame_continuation, Reject
  <1>3. CASE frame_data_final
    <2>1. RunsLemma("frame") /\ uws_state' = uws_state /\ session' = session
      BY <1>3 DEF frame_data_final, Received, uwsVars
    <2>2. PICK op : Goto(<<User("on_ws_frame_received", DataType(op), 0, <<h_>>), Consume("again")>>)
      BY <1>3 DEF frame_data_final
    <2>3. Light(User("on_ws_frame_received", DataType(op), 0, <<h_>>)) /\ Light(Consume("again"))
      BY UwsLight DEF Consume, Callbacks, UwsCallbacks
    <2> QED
      BY <1>1, <2>1, <2>2, <2>3, CalmTwo
  <1>4. CASE frame_data_first
    <2>1. RunsLemma("frame") /\ uws_state' = uws_state /\ session' = session
      BY <1>4 DEF frame_data_first, Received, Reject, uwsVars, Others
    <2>2. CASE Goto(<<Consume("again")>>)
      BY <1>1, <2>1, <2>2, UwsLight, CalmOne DEF Consume
    <2>3. ASSUME NEW x, Goto(<<Uws("indicate_ws_error"), Consume(x)>>)
          PROVE  Place(stack)'
      BY <1>1, <2>1, <2>3, RejectPlace DEF Consume
    <2> QED
      BY <1>4, <2>2, <2>3 DEF frame_data_first, Reject
  <1>5. CASE frame_close_bad
    <2>1. RunsLemma("frame") /\ session' = session
      BY <1>5 DEF frame_close_bad, Received, Reject, uwsVars, Others
    <2>2. CASE Reject("stop")
      <3>1. uws_state' = uws_state /\ Goto(<<Uws("indicate_ws_error"), Consume("stop")>>)
        BY <2>2 DEF Reject, uwsVars
      <3> QED
        BY <1>1, <2>1, <3>1, RejectPlace DEF Consume
    <2>3. CASE uws_state' = "CLOSING_UNDERLYING_IO" /\
               Goto(<<xio_close("uws", "close_complete"), Uws("close_or_error"), Consume("stop")>>)
      <3>1. Light(Uws("close_or_error")) /\ Light(Consume("stop"))
        BY UwsLight DEF Consume, Awaiting
      <3> QED
        BY <1>1, <2>1, <2>3, <3>1, ClosingPlace
    <2> QED
      BY <1>5, <2>2, <2>3 DEF frame_close_bad, State
  <1>6. CASE frame_close_answer
    <2>1. RunsLemma("frame") /\ session' = session /\ uws_state' = "CLOSING_UNDERLYING_IO"
          /\ Goto(<<xio_close("uws", "close_complete"), Uws("close_or_complete"), Consume("stop")>>)
      BY <1>6 DEF frame_close_answer, Received, Others, State
    <2>2. Light(Uws("close_or_complete")) /\ Light(Consume("stop"))
      BY UwsLight DEF Consume, Awaiting
    <2> QED
      BY <1>1, <2>1, <2>2, ClosingPlace
  <1>7. CASE frame_ping
    <2>1. RunsLemma("frame") /\ uws_state' = uws_state /\ session' = session
      BY <1>7 DEF frame_ping, Received, Reject, uwsVars
    <2>2. CASE Reject("stop")
      BY <1>1, <2>1, <2>2, RejectPlace DEF Reject, Consume
    <2>3. CASE Goto(<<Consume("stop")>>)
      BY <1>1, <2>1, <2>3, UwsLight, CalmOne DEF Consume
    <2>4. CASE Goto(<<xio_send("uws", "unchecked_on_send_complete", 0), Consume("stop")>>)
      <3> DEFINE a == xio_send("uws", "unchecked_on_send_complete", 0)
                 b == Consume("stop")
      <3>1. Light(b) /\ Careless(b)
        BY UwsLight DEF Consume, consume, Careless, Is, MkFrame
      <3> HIDE DEF a, b
      <3>2. OnTop(stack', a, Tail(stack')) /\ OnTop(Tail(stack'), b, Beneath)
        BY <1>1, <2>1, <2>4, Goto2 DEF Stack2, a, b
      <3>3. Waiting(Tail(stack'), uws_state') /\ (Has(Tail(stack'), "decoding") => Told')
        BY <1>1, <2>1, <3>1, <3>2, LightOnTop DEF Unminded
      <3>4. Tail(stack') # <<>> /\ Head(Tail(stack')) = b
        BY <3>2 DEF OnTop
      <3> QED
        BY <1>1, <2>1, <3>1, <3>2, <3>3, <3>4, NextSends DEF InFrame, RunsUws, a
    <2> QED
      BY <1>7, <2>2, <2>3, <2>4 DEF frame_ping
  <1>8. CASE frame_ignored
    <2>1. RunsLemma("frame") /\ uws_state' = uws_state /\ session' = session /\ Goto(<<Consume("stop")>>)
      BY <1>8 DEF frame_ignored, Received, uwsVars
    <2> QED
      BY <1>1, <2>1, UwsLight, CalmOne DEF Consume
  <1> QED
    BY <1>2, <1>3, <1>4, <1>5, <1>6, <1>7, <1>8

\* the peer closes
LEMMA UwsPeerClosesPlace ==
    ASSUME Place(stack),
           \A f : Running("uws", f) => RunsLemma(f),
           frame_close_by_peer
    PROVE  Place(stack)'
  <1>1. RunsLemma("frame") /\ session' = session
    BY DEF frame_close_by_peer, Received, Others
  <1>2. InFrame
    BY <1>1, FrameKnows
  <1> DEFINE b(x) == Uws(x)
             c == User("on_ws_peer_closed", "", 0, <<>>)
             d == Consume("stop")
             v == Tail(stack')
  <1>3. Light(b("answer_sent")) /\ Light(b("close_or_error")) /\ Light(c) /\ Light(d)
    BY UwsLight DEF Consume, Awaiting, Callbacks, UwsCallbacks
  <1>4. ASSUME NEW a, NEW x, Goto(<<a, b(x)>> \o <<c, d>>)
        PROVE  OnTop(stack', a, v) /\ OnTop(v, b(x), Tail(v))
               /\ OnTop(Tail(v), c, Tail(Tail(v))) /\ OnTop(Tail(Tail(v)), d, Beneath)
    <2> HIDE DEF b, c, d
    <2>1. <<a, b(x)>> \o <<c, d>> = <<a, b(x), c, d>>
      BY ONLY ConcatTuples
    <2>2. Goto(<<a, b(x), c, d>>)
      BY <1>4, <2>1
    <2> QED
      BY <1>2, <2>2, Goto4 DEF Stack4, Stack3, Stack2, InFrame, RunsUws
  <1>5. ASSUME NEW x \in {"answer_sent", "close_or_error"}, NEW a, Goto(<<a, b(x)>> \o <<c, d>>),
               uws_state' # "CLOSED"
        PROVE  Waiting(v, uws_state') /\ (Has(v, "decoding") => Told')
    <2>1. OnTop(v, b(x), Tail(v)) /\ OnTop(Tail(v), c, Tail(Tail(v))) /\ OnTop(Tail(Tail(v)), d, Beneath)
      BY <1>4, <1>5
    <2> HIDE DEF b, c, d, v
    <2>2. Unminded
      BY <1>2, <1>5, StillUnminded DEF InFrame, RunsUws, AtRest
    <2>3. Waiting(Tail(Tail(v)), uws_state') /\ (Has(Tail(Tail(v)), "decoding") => Told')
      BY <1>3, <2>1, <2>2, LightOnTop DEF Unminded
    <2>4. Waiting(Tail(v), uws_state') /\ (Has(Tail(v), "decoding") => Told')
      BY <1>3, <2>1, <2>3, LightOnTop
    <2> QED
      BY <1>3, <1>5, <2>1, <2>4, LightOnTop
  <1>6. Told' /\ Below("uws") = "socket" /\ session' # 0
    BY <1>2 DEF InFrame, RunsUws
  <1>7. CASE /\ uws_state' = "CLOSING_UNDERLYING_IO"
             /\ Goto(<<xio_close("uws", "close_complete"), b("close_or_error")>> \o <<c, d>>)
    <2>1. OnTop(stack', xio_close("uws", "close_complete"), v)
      BY <1>4, <1>7
    <2>2. Waiting(v, uws_state') /\ (Has(v, "decoding") => Told')
      BY <1>5, <1>7
    <2> QED
      BY <1>6, <1>7, <2>1, <2>2, NextCloses
  <1>8. CASE /\ uws_state' = "CLOSING_SENDING_CLOSE"
             /\ Goto(<<xio_send("uws", "on_underlying_io_close_sent", 0), b("answer_sent")>> \o <<c, d>>)
    <2> DEFINE a == xio_send("uws", "on_underlying_io_close_sent", 0)
    <2>1. OnTop(stack', a, v) /\ OnTop(v, b("answer_sent"), Tail(v))
      BY <1>4, <1>8
    <2>2. Waiting(v, uws_state') /\ (Has(v, "decoding") => Told')
      BY <1>5, <1>8
    <2>3. Is(a, "socket", "send") /\ a.arg = "on_underlying_io_close_sent"
          /\ Is(b("answer_sent"), "uws", "answer_sent")
      BY <1>6 DEF xio_send, Uws, MkFrame, Is
    <2> HIDE DEF a, b
    <2>4. stack' # <<>> /\ Head(stack') = a /\ Tail(stack') = v /\ v # <<>> /\ Head(v) = b("answer_sent")
      BY <2>1 DEF OnTop
    <2>5. Settled'
      <3>1. uws_state' = "CLOSING_SENDING_CLOSE" /\ Told' /\ session' # 0
        BY <1>6, <1>8
      <3> QED
        BY ONLY <3>1 DEF Settled
    <2> HIDE DEF v
    <2> QED
      BY <1>8, <2>2, <2>3, <2>4, <2>5 DEF Place, Sending, Rest
  <1> QED
    BY <1>7, <1>8 DEF frame_close_by_peer, State

LEMMA UwsClosesPlace ==
    ASSUME Place(stack),
           \A f : Running("uws", f) => RunsLemma(f),
           \/ answer_sent \/ close_or_error \/ close_or_complete
           \/ on_underlying_io_close_sent \/ close_sent_closed \/ on_underlying_io_close_complete
           \/ on_underlying_io_error \/ close_async_closed
    PROVE  Place(stack)'
  <1>1. ASSUME NEW f \in Free, RunsLemma(f)
        PROVE  /\ AtRest /\ stack \in Seq(Frame) /\ stack # <<>> /\ connected \in BOOLEAN /\ session \in Nat
               /\ RunsUws(f) /\ Below("uws") = "socket" /\ Is(Top, "uws", f) /\ Settled /\ Rest(Beneath)
               /\ uws_state' = uws_state /\ session' = session => Kept /\ Unminded /\ Settled'
    <2>1. AtRest
      BY <1>1, RunsFreely DEF RunsLemma, RunsUws
    <2>2. uws_state' = uws_state /\ session' = session => Kept /\ Unminded /\ Settled'
      BY <1>1, <2>1, StillUnminded, KeptSettled DEF RunsLemma, RunsUws, AtRest
    <2> QED
      BY <1>1, <2>1, <2>2 DEF RunsLemma, RunsUws, AtRest
  <1>2. ASSUME NEW f \in Succeeding, RunsLemma(f)
        PROVE  /\ AtRest /\ Top.ret = 0 /\ stack \in Seq(Frame) /\ stack # <<>> /\ connected \in BOOLEAN
               /\ uws_state' = uws_state /\ session' = session => Kept /\ Unminded /\ Settled'
    <2>1. AtRest /\ Top.ret = 0
      BY <1>2, RunsFreely DEF RunsLemma, RunsUws
    <2>2. uws_state' = uws_state /\ session' = session => Kept /\ Unminded /\ Settled'
      BY <1>2, <2>1, StillUnminded, KeptSettled DEF RunsLemma, RunsUws, AtRest
    <2> QED
      BY <1>2, <2>1, <2>2 DEF RunsLemma, RunsUws
  \* the socket is closed, and nothing goes on unless that fails
  <1>3. ASSUME NEW f, RunsLemma(f), Told, Rest(Beneath), uws_state # "CLOSED",
               uws_state' = "CLOSING_UNDERLYING_IO", session' = session,
               NEW b, Light(b), Goto(<<xio_close("uws", "close_complete"), b>>)
        PROVE  Place(stack)'
    <2>1. OnTop(stack', xio_close("uws", "close_complete"), Tail(stack')) /\ OnTop(Tail(stack'), b, Beneath)
      BY <1>3, Goto2 DEF Stack2, RunsLemma, RunsUws
    <2>2. Unminded /\ Told' /\ Below("uws") = "socket"
      BY <1>3, StillUnminded DEF RunsLemma, RunsUws
    <2>3. Waiting(Tail(stack'), uws_state') /\ (Has(Tail(stack'), "decoding") => Told')
      BY <1>3, <2>1, <2>2, LightOnTop DEF Unminded
    <2> QED
      BY <1>3, <2>1, <2>2, <2>3, NextCloses
  <1>4. ASSUME NEW f \in Awaiting
        PROVE  Light(Uws(f))
    BY <1>4, UwsLight
  <1>5. ASSUME Settled, uws_state \in {"CLOSING_WAITING_FOR_CLOSE", "CLOSING_SENDING_CLOSE"}
        PROVE  Told
    BY <1>5 DEF Settled
  <1>6. CASE answer_sent
    <2>1. RunsLemma("answer_sent") /\ session' = session
      BY <1>6 DEF answer_sent, Others
    <2>2. (AtRest /\ Top.ret = 0) \/ Sending(stack)
      BY <2>1, RunsInPlace DEF RunsLemma, RunsUws
    <2>3. AtRest /\ (Top.ret # 0 => uws_state = "CLOSING_SENDING_CLOSE")
      BY <2>1, <2>2 DEF Sending, RunsLemma, Is, Top, Beneath, AtRest
    <2>4. CASE Top.ret = 0
      <3>1. Pop /\ uws_state' = uws_state
        BY <1>6, <2>4 DEF answer_sent
      <3> QED
        BY <2>1, <2>3, <3>1, CalmPop DEF RunsLemma, RunsUws
    <2>5. CASE Top.ret # 0
      <3>1. uws_state' = "CLOSING_UNDERLYING_IO"
            /\ Goto(<<xio_close("uws", "close_complete"), Uws("close_or_error")>>)
        BY <1>6, <2>5 DEF answer_sent, State
      <3> QED
        BY <1>3, <1>4, <1>5, <2>1, <2>3, <2>5, <3>1 DEF Awaiting, AtRest
    <2> QED
      BY <2>4, <2>5
  <1>7. CASE close_or_error \/ close_or_complete \/ close_sent_closed
    <2>1. PICK f \in Succeeding :
            RunsLemma(f) /\ uws_state' = uws_state /\ session' = session /\ (Top.ret = 0 => Goto(<<>>))
      BY <1>7 DEF close_or_error, close_or_complete, close_sent_closed, uwsVars, Succeeding, Awaiting
    <2> QED
      BY <1>2, <2>1, CalmPop
  <1>8. CASE close_async_closed
    <2>1. RunsLemma("close_async_closed") /\ "close_async_closed" \in Succeeding
          /\ uws_state' = uws_state /\ session' = session /\ (Top.ret = 0 => Return(0))
      BY <1>8 DEF close_async_closed, uwsVars, Succeeding, Awaiting
    <2> QED
      BY <1>2, <2>1, CalmReturn DEF Unminded
  <1>9. CASE on_underlying_io_close_sent
    <2>1. RunsLemma("on_underlying_io_close_sent") /\ "on_underlying_io_close_sent" \in Free /\ session' = session
      BY <1>9 DEF on_underlying_io_close_sent, Others, Free
    <2>2. CASE Pop /\ uws_state' = uws_state
      BY <1>1, <2>1, <2>2, CalmPop
    <2>3. CASE /\ uws_state = "CLOSING_SENDING_CLOSE" /\ uws_state' = "CLOSING_UNDERLYING_IO"
               /\ Goto(<<xio_close("uws", "close_complete"), Uws("close_sent_closed")>>)
      <3>1. Told /\ Rest(Beneath)
        BY <1>1, <1>5, <2>1, <2>3
      <3> QED
        BY <1>3, <1>4, <2>1, <2>3, <3>1 DEF Awaiting
    <2> QED
      BY <1>9, <2>2, <2>3 DEF on_underlying_io_close_sent, State
  <1>10. CASE on_underlying_io_close_complete
    <2> DEFINE a == Uws("indicate_ws_close_complete")
               b == Uws("set_closed")
    <2>1. RunsLemma("on_io_close_complete") /\ uws_state' = uws_state /\ session' = session
      BY <1>10 DEF on_underlying_io_close_complete, uwsVars
    <2>2. Closes(stack)
      BY <2>1, RunsInPlace DEF RunsLemma, RunsUws
    <2>3. uws_state = "CLOSING_UNDERLYING_IO" /\ Told /\ ~connected /\ Rest(Beneath)
      BY <2>1, <2>2 DEF Closes, RunsLemma, Is, Top, Beneath
    <2>4. Goto(<<a, b>>)
      BY <1>10, <2>3 DEF on_underlying_io_close_complete
    <2>5. Is(a, "uws", "indicate_ws_close_complete") /\ Is(b, "uws", "set_closed")
      BY DEF Uws, MkFrame, Is
    <2> HIDE DEF a, b
    <2>6. OnTop(stack', a, Tail(stack')) /\ OnTop(Tail(stack'), b, Beneath)
      BY <2>1, <2>4, Goto2 DEF Stack2, RunsLemma, RunsUws
    <2>7. Unminded /\ Told' /\ ~connected'
      BY <2>1, <2>3, StillUnminded DEF RunsLemma, RunsUws
    <2>8. stack' # <<>> /\ Head(stack') = a /\ Tail(stack') # <<>> /\ Head(Tail(stack')) = b
          /\ Tail(Tail(stack')) = Beneath
      BY <2>6 DEF OnTop
    <2> QED
      BY <2>1, <2>3, <2>5, <2>7, <2>8 DEF Place, Closes, Rest, Unminded
  <1>11. CASE on_underlying_io_error
    <2>1. RunsLemma("on_io_error") /\ "on_io_error" \in Free /\ uws_state' = uws_state /\ session' = session
      BY <1>11 DEF on_underlying_io_error, uwsVars, Free
    <2>2. CASE uws_state \in Closing /\ Goto(<<xio_close("uws", "NULL"), Uws("indicate_ws_close_complete")>>)
      <3> DEFINE a == xio_close("uws", "NULL")
                 b == Uws("indicate_ws_close_complete")
      <3>1. Is(a, "socket", "close") /\ a.arg = "NULL" /\ Is(b, "uws", "indicate_ws_close_complete")
        BY <1>1, <2>1 DEF xio_close, Uws, MkFrame, Is
      <3>2. Goto(<<a, b>>)
        BY <2>2
      <3> HIDE DEF a, b
      <3>3. OnTop(stack', a, Tail(stack')) /\ OnTop(Tail(stack'), b, Beneath)
        BY <1>1, <2>1, <3>2, Goto2 DEF Stack2
      <3>4. Told
        BY <1>1, <1>5, <2>1, <2>2 DEF Closing, Settled
      <3>5. Unminded /\ Told'
        BY <1>1, <2>1, <3>4 DEF RunsUws
      <3>6. stack' # <<>> /\ Head(stack') = a /\ Tail(stack') # <<>> /\ Head(Tail(stack')) = b
            /\ Tail(Tail(stack')) = Beneath
        BY <3>3 DEF OnTop
      <3> QED
        BY <2>1, <2>2, <3>1, <3>5, <3>6 DEF Place, Closes, Rest, Unminded
    <2>3. CASE uws_state \in Opening /\ Shut
      <3>1. Unreported' /\ Unminded
        <4>1. Unreported
          BY <1>1, <2>1, <2>3 DEF Settled, Opening, Unreported
        <4> QED
          BY <1>1, <2>1, <4>1 DEF RunsUws
      <3> QED
        BY <1>1, <2>1, <2>3, <3>1, NextShuts
    <2>4. CASE uws_state = "OPEN" /\ Goto(<<Uws("indicate_ws_error")>>)
      <3>1. session > 0 /\ ~Has(Beneath, "settling")
        BY <1>1, <2>1, <2>4, DecodingTold DEF Rest, Waiting, Decoding
      <3> QED
        BY <1>1, <2>1, <2>4, <3>1, ErrorPlace DEF Is
    <2>5. CASE Goto(<<>>)
      BY <1>1, <2>1, <2>5, CalmPop
    <2> QED
      BY <1>11, <2>2, <2>3, <2>4, <2>5 DEF on_underlying_io_error, Shut, Closing, Opening
  <1> QED
    BY <1>6, <1>7, <1>8, <1>9, <1>10, <1>11

LEMMA UwsCalledPlace ==
    ASSUME Place(stack),
           \A f : Running("uws", f) => RunsLemma(f),
           \/ uws_client_close_async \/ uws_client_close_handshake_async
           \/ uws_client_destroy \/ uws_client_send_frame_async
    PROVE  Place(stack)'
  <1>1. ASSUME NEW f \in Api, RunsLemma(f), session' = session
        PROVE  /\ Called(stack) /\ stack \in Seq(Frame) /\ stack # <<>> /\ connected \in BOOLEAN /\ session \in Nat
               /\ Below("uws") = "socket" /\ Settled /\ Beneath \in Seq(Frame) /\ (Told' <=> Told)
               /\ Head(stack) = Top /\ Tail(stack) = Beneath /\ Top.at = "uws" /\ Top.fn = f
               /\ uws_state' = uws_state => Kept /\ Settled'
    <2>1. Called(stack)
      BY <1>1, RunsInPlace DEF RunsLemma, RunsUws
    <2>2. Settled
      BY <2>1 DEF Called
    <2>3. uws_state' = uws_state => Kept /\ Settled'
      BY <1>1, <2>2, KeptSettled DEF RunsLemma, RunsUws
    <2>4. Beneath \in Seq(Frame)
      BY <1>1, RunningTop DEF RunsLemma, RunsUws
    <2> QED
      BY <1>1, <2>1, <2>2, <2>3, <2>4 DEF RunsLemma, RunsUws, Top, Beneath
  \* the call is refused
  <1>2. ASSUME NEW f \in Api, RunsLemma(f), uws_state' = uws_state, session' = session, Rest(Beneath),
               Beneath = <<>> \/ (/\ Head(Beneath).fn \notin Awaiting
                                  /\ ~(Is(Head(Beneath), "user", "returned") /\ Head(Beneath).arg = "open")),
               NEW v, Return(v)
        PROVE  Place(stack)'
    <2>1. Unminded /\ Settled'
      BY <1>1, <1>2, StillUnminded
    <2> QED
      BY <1>1, <1>2, <2>1, CalmReturn DEF Unminded
  <1>3. CASE uws_client_close_async
    <2>1. RunsLemma("uws_client_close_async") /\ "uws_client_close_async" \in Api /\ session' = session
      BY <1>3 DEF uws_client_close_async, uwsVars, Api
    <2>2. /\ Beneath # <<>> /\ Rest(Beneath) /\ (alive => session \in closing)
          /\ Head(Beneath).fn \notin Awaiting
          /\ ~(Is(Head(Beneath), "user", "returned") /\ Head(Beneath).arg = "open")
      BY <1>1, <2>1 DEF Called, Is, Awaiting
    <2>3. CASE uws_state = "CLOSED"
      <3>1. Return(1) /\ uws_state' = uws_state
        BY <1>3, <2>3 DEF uws_client_close_async, uwsVars
      <3> QED
        BY <1>2, <2>1, <2>2, <3>1
    <2>4. CASE uws_state # "CLOSED"
      <3> DEFINE a == xio_close("uws", "close_complete")
                 b == Uws("close_async_closed")
      <3>1. uws_state' = "CLOSING_UNDERLYING_IO" /\ Goto(<<a, b>>)
        BY <1>3, <2>4 DEF uws_client_close_async, State
      <3>2. Light(b)
        BY UwsLight DEF Awaiting
      <3> HIDE DEF a, b
      <3>3. OnTop(stack', a, Tail(stack')) /\ OnTop(Tail(stack'), b, Beneath)
        BY <1>1, <2>1, <3>1, Goto2 DEF Stack2
      <3>4. Told
        BY <1>1, <2>1, <2>2, <2>4 DEF Settled, Told
      <3>5. Unminded /\ Told'
        BY <1>1, <2>1, <2>2, <2>4, <3>4, StillUnminded
      <3>6. Waiting(Tail(stack'), uws_state') /\ (Has(Tail(stack'), "decoding") => Told')
        BY <3>2, <3>3, <3>5, LightOnTop DEF Unminded
      <3> QED
        BY <1>1, <2>1, <3>1, <3>3, <3>5, <3>6, NextCloses DEF a
    <2> QED
      BY <2>3, <2>4
  <1>4. CASE uws_client_close_handshake_async
    <2>1. RunsLemma("uws_client_close_handshake_async") /\ "uws_client_close_handshake_async" \in Api
          /\ session' = session
      BY <1>4 DEF uws_client_close_handshake_async, uwsVars, Api
    <2>2. /\ Beneath # <<>> /\ Rest(Beneath) /\ session \in closing
          /\ Is(Head(Beneath), "user", "returned") /\ Head(Beneath).arg = "close"
      BY <1>1, <2>1 DEF Called, Is
    <2>3. Head(Beneath).fn \notin Awaiting /\ Careless(Head(Beneath))
      BY <2>2 DEF Is, Awaiting, Careless
    <2>4. CASE uws_state \in Closing \cup {"CLOSED"}
      <3>1. Return(1) /\ uws_state' = uws_state
        BY <1>4, <2>4 DEF uws_client_close_handshake_async, uwsVars
      <3> QED
        BY <1>2, <2>1, <2>2, <2>3, <3>1
    <2>5. CASE uws_state \notin Closing \cup {"CLOSED"}
      <3>1. uws_state' = "CLOSING_WAITING_FOR_CLOSE"
            /\ (Goto(<<xio_send("uws", "unchecked_on_send_complete", 0)>>) \/ Return(1))
        BY <1>4, <2>5 DEF uws_client_close_handshake_async, State
      <3>2. Told /\ session # 0
        BY <1>1, <2>1, <2>2, <2>5 DEF Settled, Told
      <3>3. Unminded /\ Told' /\ session' # 0
        BY <1>1, <2>1, <2>2, <2>5, <3>2, StillUnminded
      <3>4. Settled'
        BY <3>1, <3>3 DEF Settled
      <3>5. CASE Goto(<<xio_send("uws", "unchecked_on_send_complete", 0)>>)
        <4>1. OnTop(stack', xio_send("uws", "unchecked_on_send_complete", 0), Beneath)
          BY <1>1, <2>1, <3>5, Goto1 DEF Stack1
        <4> QED
          BY <1>1, <2>1, <2>2, <2>3, <3>3, <3>4, <4>1, NextSends DEF Unminded
      <3>6. CASE Return(1)
        BY <1>1, <2>1, <2>2, <2>3, <3>3, <3>4, <3>6, CalmReturn DEF Unminded
      <3> QED
        BY <3>1, <3>5, <3>6
    <2> QED
      BY <2>4, <2>5
  <1>5. CASE uws_client_destroy
    <2>1. RunsLemma("uws_client_destroy") /\ "uws_client_destroy" \in Api
          /\ uws_state' = uws_state /\ session' = session
      BY <1>5 DEF uws_client_destroy, uwsVars, Api
    <2>2. ~alive /\ Beneath = <<>>
      BY <1>1, <2>1 DEF Called
    <2> DEFINE a == MkFrame("uws", "uws_client_close_async", "NULL", 0, <<>>)
               b == xio_destroy("uws")
               c == Uws("clear_pending_sends")
    <2>3. Goto(<<a>> \o <<b, c>>) \/ Goto(<<>> \o <<b, c>>)
      BY <1>5 DEF uws_client_destroy
    <2>4. Light(b) /\ Light(c) /\ Is(b, "socket", "destroy")
      BY <1>1, <2>1, LightFrames DEF xio_destroy, Loops, MkFrame, Is
    <2>5. a.at = "uws" /\ a.fn = "uws_client_close_async" /\ a.arg = "NULL"
      BY DEF MkFrame
    <2> HIDE DEF a, b, c
    <2>6. <<a>> \o <<b, c>> = <<a, b, c>> /\ <<>> \o <<b, c>> = <<b, c>>
      BY ONLY ConcatTuples
    <2>7. AtRest
      BY <1>1, <2>1, <2>2, NothingWaits DEF AtRest, Rest
    <2>8. CASE Goto(<<b, c>>)
      BY <1>1, <2>1, <2>4, <2>7, <2>8, CalmTwo
    <2>9. CASE Goto(<<a, b, c>>)
      <3> DEFINE v == Tail(stack')
      <3>1. OnTop(stack', a, v) /\ OnTop(v, b, Tail(v)) /\ OnTop(Tail(v), c, Beneath)
        BY <1>1, <2>1, <2>9, Goto3 DEF Stack3, Stack2
      <3> HIDE DEF v
      <3>2. Waiting(Tail(v), uws_state') /\ (Has(Tail(v), "decoding") => Told')
        BY <2>2, <2>4, <3>1, LightOnTop, NothingWaits
      <3>3. Waiting(v, uws_state') /\ (Has(v, "decoding") => Told')
        BY <2>4, <3>1, <3>2, LightOnTop
      <3>4. stack' # <<>> /\ Head(stack') = a /\ Tail(stack') = v /\ v # <<>> /\ Head(v) = b
        BY <3>1 DEF OnTop
      <3>5. ~alive' /\ Settled'
        BY <1>1, <2>1, <2>2 DEF Kept, Unmoved
      <3> QED
        BY <2>4, <2>5, <3>3, <3>4, <3>5 DEF Place, Called, Rest
    <2> QED
      BY <2>3, <2>6, <2>8, <2>9
  <1>6. CASE uws_client_send_frame_async
    <2>1. RunsLemma("uws_client_send_frame_async") /\ "uws_client_send_frame_async" \in Api
          /\ uws_state' = uws_state /\ session' = session
      BY <1>6 DEF uws_client_send_frame_async, Api
    <2>2. /\ Beneath # <<>> /\ Rest(Beneath) /\ Is(Head(Beneath), "user", "returned")
          /\ Head(Beneath).arg = "send" /\ Head(Beneath).n = Top.n
      BY <1>1, <2>1 DEF Called, Is
    <2>3. CASE Return(1)
      <3>1. Head(Beneath).fn \notin Awaiting
            /\ ~(Is(Head(Beneath), "user", "returned") /\ Head(Beneath).arg = "open")
        BY <2>2 DEF Is, Awaiting
      <3> QED
        BY <1>2, <2>1, <2>2, <2>3, <3>1
    <2>4. CASE Goto(<<xio_send("uws", "on_underlying_io_send_complete", Top.n),
                      MkFrame("uws", "frame_sent", "", Top.n, <<>>)>>)
      <3> DEFINE a == xio_send("uws", "on_underlying_io_send_complete", Top.n)
                 b == MkFrame("uws", "frame_sent", "", Top.n, <<>>)
      <3>1. Is(a, "socket", "send") /\ a.arg = "on_underlying_io_send_complete" /\ a.n = Top.n
            /\ Is(b, "uws", "frame_sent") /\ b.n = Top.n
        BY <1>1, <2>1 DEF xio_send, MkFrame, Is
      <3>2. Light(b)
        BY LightFrames
      <3>3. Goto(<<a, b>>)
        BY <2>4
      <3> HIDE DEF a, b
      <3>4. OnTop(stack', a, Tail(stack')) /\ OnTop(Tail(stack'), b, Beneath)
        BY <1>1, <2>1, <3>3, Goto2 DEF Stack2
      <3>5. Unminded /\ Settled'
        BY <1>1, <2>1, <2>2, StillUnminded
      <3>6. Waiting(Tail(stack'), uws_state') /\ (Has(Tail(stack'), "decoding") => Told')
        BY <3>2, <3>4, <3>5, LightOnTop DEF Unminded
      <3>7. stack' # <<>> /\ Head(stack') = a /\ Tail(stack') # <<>> /\ Head(Tail(stack')) = b
            /\ Tail(Tail(stack')) = Beneath
        BY <3>4 DEF OnTop
      <3>8. Sending(stack)'
        BY <2>2, <3>1, <3>5, <3>6, <3>7 DEF Sending, Rest
      <3> QED
        BY <3>8 DEF Place
    <2> QED
      BY <1>6, <2>3, <2>4 DEF uws_client_send_frame_async
  <1> QED
    BY <1>3, <1>4, <1>5, <1>6

LEMMA UwsSendsPlace ==
    ASSUME Place(stack),
           \A f : Running("uws", f) => RunsLemma(f),
           \/ frame_sent \/ on_underlying_io_send_complete \/ on_underlying_io_send_complete_freed
           \/ uws_client_dowork
    PROVE  Place(stack)'
  <1>1. CASE frame_sent
    <2>1. RunsLemma("frame_sent") /\ uws_state' = uws_state /\ session' = session /\ Return(Top.ret)
      BY <1>1 DEF frame_sent
    <2>2. (AtRest /\ Top.ret = 0) \/ Sending(stack)
      BY <2>1, RunsInPlace DEF RunsLemma, RunsUws
    <2>3. AtRest /\ (Top.ret = 0 \/ (Beneath # <<>> /\ Is(Head(Beneath), "user", "returned")
                                     /\ Head(Beneath).arg = "send"))
      BY <2>1, <2>2 DEF Sending, RunsLemma, Is, Top, Beneath, AtRest
    <2>4. Unminded /\ Settled'
      BY <2>1, <2>3, StillUnminded, KeptSettled DEF RunsLemma, RunsUws, AtRest
    <2>5. Top.ret = 0 \/ (Head(Beneath).fn \notin Awaiting
                          /\ ~(Is(Head(Beneath), "user", "returned") /\ Head(Beneath).arg = "open"))
      BY <2>3 DEF Is, Awaiting
    <2> QED
      BY <2>1, <2>4, <2>5, CalmReturn DEF RunsLemma, RunsUws, Unminded
  <1>2. CASE on_underlying_io_send_complete \/ on_underlying_io_send_complete_freed
    <2>1. RunsLemma("on_underlying_io_send_complete") /\ uws_state' = uws_state /\ session' = session
          /\ \/ Pop
             \/ Goto(<<User("on_ws_send_frame_complete", Top.arg, Top.n, <<>>)>>)
             \/ Goto(<<Uws("indicate_ws_error")>>)
      BY <1>2 DEF on_underlying_io_send_complete, on_underlying_io_send_complete_freed
    <2>2. Sending(stack)
      BY <2>1, RunsInPlace DEF RunsLemma, RunsUws
    <2>3. AtRest /\ uws_state # "CLOSED"
      BY <2>1, <2>2 DEF Sending, RunsLemma, Is, Top, Beneath, AtRest
    <2>4. ~Has(Beneath, "settling") /\ session > 0
      BY <2>1, <2>3 DEF AtRest, Rest, Waiting, Settled, RunsLemma, RunsUws
    <2>5. Kept /\ stack \in Seq(Frame) /\ stack # <<>> /\ connected \in BOOLEAN /\ RunsUws(Top.fn)
      BY <2>1 DEF RunsLemma, RunsUws
    <2>6. CASE Pop
      BY <2>3, <2>5, <2>6, CalmPop
    <2>7. CASE Goto(<<User("on_ws_send_frame_complete", Top.arg, Top.n, <<>>)>>)
      <3>1. Light(User("on_ws_send_frame_complete", Top.arg, Top.n, <<>>))
        BY UwsLight DEF Callbacks, UwsCallbacks
      <3> QED
        BY <2>3, <2>5, <2>7, <3>1, CalmOne
    <2>8. CASE Goto(<<Uws("indicate_ws_error")>>)
      BY <2>1, <2>3, <2>4, <2>5, <2>8, ErrorPlace
    <2> QED
      BY <2>1, <2>6, <2>7, <2>8
  <1>3. CASE uws_client_dowork
    <2>1. RunsLemma("uws_client_dowork") /\ uws_state' = uws_state /\ session' = session
          /\ (Goto(<<>>) \/ Goto(<<xio_dowork("uws")>>))
      BY <1>3 DEF uws_client_dowork, uwsVars
    <2>2. AtRest
      BY <2>1, RunsFreely DEF RunsLemma, RunsUws, Free
    <2>3. Light(xio_dowork("uws"))
      BY <2>1, LightFrames DEF xio_dowork, RunsLemma, RunsUws, Loops
    <2> QED
      BY <2>1, <2>2, <2>3, CalmPop, CalmOne DEF RunsLemma, RunsUws
  <1> QED
    BY <1>1, <1>2, <1>3

LEMMA UwsPlace ==
    ASSUME TypeOK, SocketClient, Books, Place(stack), UwsNext, UNCHANGED <<sockVars, tlsVars, userVars>>
    PROVE  Place(stack)'
  <1>1. ASSUME NEW f, Running("uws", f)
        PROVE  RunsLemma(f)
    <2>1. stack \in Seq(Frame) /\ connected \in BOOLEAN /\ session \in Nat
      BY DEF TypeOK, SockTypeOK, UwsTypeOK
    <2>2. stack # <<>> /\ Is(Top, "uws", f)
      BY <1>1 DEF Running, Top, Is
    <2> QED
      BY <2>1, <2>2, RunningTop, Neighbours, OutsideKept DEF RunsUws, RunsLemma, Is
  <1> QED
    BY <1>1, UwsReportsPlace, UwsOpensPlace, UwsReceivesPlace, UwsFramesPlace, UwsPeerClosesPlace,
       UwsClosesPlace, UwsCalledPlace, UwsSendsPlace DEF UwsNext

-----------------------------------------------------------------------------
(* The user.                                                                *)

LEMMA LibraryKept ==
    ASSUME UNCHANGED <<sockVars, tlsVars, uwsVars>>
    PROVE  /\ connected' = connected /\ sock_state' = sock_state /\ pending_io_list' = pending_io_list
           /\ tls_state' = tls_state /\ session' = session /\ uws_state' = uws_state
           /\ openReports' = openReports /\ closing' = closing /\ alive' = alive => Kept
  BY DEF sockVars, tlsVars, uwsVars, Kept, Unmoved

LEMMA UserStepSession ==
    ASSUME TypeOK, Books, Place(stack), UserSteps, UNCHANGED <<sockVars, tlsVars, uwsVars>>
    PROVE  Books' /\ Place(stack)'
  <1>1. ASSUME NEW f, Running("user", f)
        PROVE  Top.at = "user" /\ Top.fn = f /\ Is(Top, "user", f) /\ stack # <<>>
    BY <1>1 DEF Running, Top, Is
  <1>2. stack \in Seq(Frame) /\ connected \in BOOLEAN /\ session \in Nat /\ opens \in Nat
    <2>1. opens \in 0 .. MaxOpens /\ MaxOpens \in Nat
      BY BoundsAssumption DEF TypeOK
    <2>2. session \in Nat /\ connected \in BOOLEAN /\ stack \in Seq(Frame)
      BY DEF TypeOK, UwsTypeOK, SockTypeOK
    <2> QED
      BY <2>1, <2>2
  <1>3. /\ connected' = connected /\ sock_state' = sock_state /\ pending_io_list' = pending_io_list
        /\ tls_state' = tls_state /\ session' = session /\ uws_state' = uws_state
        /\ openReports' = openReports /\ closing' = closing /\ alive' = alive => Kept
    BY LibraryKept
  <1>4. ASSUME opens' = opens, unopened' = {}, openReports' = openReports
        PROVE  Books'
    BY <1>3, <1>4 DEF Books
  <1>5. Light(MkFrame("user", "in_callback", "", 0, <<>>))
    BY LightFrames
  \* a callback that is only noted
  <1>6. ASSUME NEW f \in Callbacks \cup {"on_ws_close_complete"}, Running("user", f), InCallback, opens' = opens, unopened' = unopened,
               openReports' = openReports, closing' = closing, alive' = alive
        PROVE  Books' /\ Place(stack)'
    <2>1. AtRest /\ stack # <<>>
      BY <1>1, <1>2, <1>6, RunsFreely
    <2>2. Place(stack)'
      BY <1>2, <1>3, <1>5, <1>6, <2>1, CalmOne DEF InCallback
    <2> QED
      BY <1>4, <1>6, <2>2 DEF Books
  <1>7. CASE Returned
    <2>1. Running("user", "returned") /\ Pop /\ opens' = opens /\ openReports' = openReports
          /\ closing' = closing /\ alive' = alive
          /\ unopened' = (IF Top.arg = "open" /\ Top.ret # 0 /\ session = Top.n
                          THEN unopened \cup {Top.n} ELSE unopened)
      BY <1>7 DEF Returned
    <2>2. AtRest /\ stack # <<>> /\ (Top.arg = "open" /\ Top.ret # 0 => Top.n # session)
      BY <1>1, <1>2, <2>1, RunsFreely
    <2>3. unopened' = {}
      BY <2>1, <2>2 DEF Books
    <2> QED
      BY <1>2, <1>3, <1>4, <2>1, <2>2, <2>3, CalmPop
  <1>8. CASE OnOpenComplete
    <2> DEFINE a == MkFrame("user", "in_callback", "", 0, <<>>)
    <2>1. Running("user", "on_ws_open_complete") /\ openReports' = [openReports EXCEPT ![session] = @ + 1]
          /\ Goto(<<a>>) /\ opens' = opens /\ unopened' = unopened /\ closing' = closing /\ alive' = alive
      BY <1>8 DEF OnOpenComplete, InCallback
    <2> HIDE DEF a
    <2>2. OpenTold(stack)
      BY <1>1, <1>2, <2>1, RunsInPlace
    <2>3. /\ uws_state = "OPEN" \/ (uws_state = "CLOSED" /\ ~connected)
          /\ Unreported /\ Rest(Beneath)
      BY <2>2 DEF OpenTold, Beneath
    <2>4. session > 0 /\ openReports[session] = 0 /\ session \in Sessions
      <3>1. opens \in 0 .. MaxOpens /\ MaxOpens \in Nat
        BY BoundsAssumption DEF TypeOK
      <3>2. session <= opens
        BY DEF Books
      <3> QED
        BY <1>2, <2>3, <3>1, <3>2 DEF Unreported, Sessions
    <2>5. openReports \in [Sessions -> Nat]
      BY DEF TypeOK
    <2>6. openReports'[session] = 1 /\ \A s \in Sessions : s # session => openReports'[s] = openReports[s]
      BY <2>1, <2>4, <2>5
    <2>7. Told' /\ session' > 0 /\ openReports'[session'] = 1
      BY <1>3, <2>4, <2>6 DEF Told
    <2>8. Settled'
      BY <1>2, <1>3, <2>3, <2>4, <2>7 DEF Settled
    <2>9. Unminded
      BY <1>3, <2>3, <2>7 DEF Unminded, Rest
    <2>10. OnTop(stack', a, Beneath)
      BY <1>1, <1>2, <2>1, Goto1 DEF Stack1
    <2>11. Place(stack)'
      BY <1>5, <2>8, <2>9, <2>10, UsualNext DEF Unminded, a
    <2>12. Books'
      <3>1. \A s \in Sessions : openReports'[s] <= 1 /\ (s = 0 \/ s > session' => openReports'[s] = 0)
        <4> SUFFICES ASSUME NEW s \in Sessions
                     PROVE  openReports'[s] <= 1 /\ (s = 0 \/ s > session' => openReports'[s] = 0)
          OBVIOUS
        <4>1. CASE s = session
          BY <1>2, <1>3, <2>4, <2>6, <4>1
        <4>2. CASE s # session
          BY <1>3, <2>6, <4>2 DEF Books
        <4> QED
          BY <4>1, <4>2
      <3> QED
        BY <1>3, <2>1, <3>1 DEF Books
    <2> QED
      BY <2>11, <2>12
  <1>9. CASE OnFrameReceived
    BY <1>6, <1>9 DEF OnFrameReceived, Callbacks, UwsCallbacks
  <1>10. CASE OnSendComplete
    BY <1>6, <1>10 DEF OnSendComplete, Callbacks, UwsCallbacks
  <1>11. CASE OnError
    BY <1>6, <1>11 DEF OnError, Callbacks, UwsCallbacks
  <1>12. CASE OnPeerClosed
    BY <1>6, <1>12 DEF OnPeerClosed, Callbacks, UwsCallbacks, userVars
  <1>13. CASE OnCloseComplete
    BY <1>6, <1>13 DEF OnCloseComplete
  <1>14. CASE CallbackReturns
    <2>1. Running("user", "in_callback") /\ Pop /\ opens' = opens /\ openReports' = openReports
          /\ closing' = closing /\ alive' = alive /\ unopened' = unopened
      BY <1>14 DEF CallbackReturns, userVars
    <2>2. AtRest /\ stack # <<>>
      BY <1>1, <1>2, <2>1, RunsFreely
    <2>3. unopened' = {}
      BY <2>1 DEF Books
    <2> QED
      BY <1>2, <1>3, <1>4, <2>1, <2>2, <2>3, CalmPop
  <1> QED
    BY <1>7, <1>8, <1>9, <1>10, <1>11, <1>12, <1>13, <1>14 DEF UserSteps

\* The call lies on the frame that takes its result, and that one on what may wait.
LEMMA CallShape ==
    ASSUME stack \in Seq(Frame), Place(stack), Settled => Settled', Told => Told', uws_state' = uws_state,
           stack = <<>> \/ Running("user", "in_callback"),
           NEW f, NEW a, NEW c, NEW n, Call(f, a, c, n)
    PROVE  /\ Settled'
           /\ stack' # <<>> /\ Head(stack') = MkFrame("uws", f, a, n, <<>>)
           /\ Tail(stack') # <<>> /\ Head(Tail(stack')) = MkFrame("user", "returned", c, n, <<>>)
           /\ Waiting(Tail(stack'), uws_state') /\ (Has(Tail(stack'), "decoding") => Told')
           /\ stack = <<>> => Tail(Tail(stack')) = <<>>
  <1> DEFINE m == MkFrame("uws", f, a, n, <<>>)
             r == MkFrame("user", "returned", c, n, <<>>)
             t == IF stack = <<>> THEN <<>> ELSE <<[Top EXCEPT !.n = @ + 1]>> \o Tail(stack)
  <1>1. stack' = <<m, r>> \o t
    BY DEF Call
  <1>2. Light(r)
    BY LightFrames
  <1>3. /\ Settled /\ Waiting(t, uws_state) /\ (Has(t, "decoding") => Told)
        /\ \E S : t \in Seq(S)
    <2>1. CASE stack = <<>>
      <3>1. Settled
        BY <2>1 DEF Place, Usual, Called, Opens, OpensSending, OpenFails, OpenTold, Sending, Decodes, Closes
      <3>2. t = <<>>
        BY <2>1
      <3> HIDE DEF t
      <3>3. t \in Seq({})
        BY <3>2
      <3> QED
        BY <3>1, <3>2, <3>3, NothingWaits
    <2>2. CASE stack # <<>>
      <3>1. Top.at = "user" /\ Top.fn = "in_callback"
        BY <2>2 DEF Running, Top
      <3>2. AtRest
        BY <2>2, <3>1, RunsFreely
      <3> DEFINE g == [Top EXCEPT !.n = @ + 1]
      <3>3. Top \in Frame /\ Beneath \in Seq(Frame)
        BY <2>2, RunningTop
      <3>4. g.at = "user" /\ g.fn = "in_callback"
        BY <3>1, <3>3 DEF Frame
      <3>5. t = <<g>> \o Beneath
        BY <2>2 DEF Beneath
      <3> HIDE DEF g, t
      <3>6. OnTop(t, g, Beneath) /\ t \in Seq(Frame \cup {g})
        BY <3>3, <3>5, ConsOnTop
      <3>7. Light(g)
        <4>1. Resumable(g)
          BY <3>4 DEF Resumable
        <4>2. Role(g) = "none"
          BY <3>4, Roles
        <4> QED
          BY <4>1, <4>2 DEF Light
      <3>8. Waiting(t, uws_state) /\ (Has(t, "decoding") => Told)
        BY <3>2, <3>6, <3>7, LightOnTop DEF AtRest, Rest
      <3> QED
        BY <3>2, <3>6, <3>8 DEF AtRest
    <2> QED
      BY <2>1, <2>2
  <1>4. stack = <<>> => t = <<>>
    OBVIOUS
  <1> HIDE DEF m, r, t
  <1>5. PICK S : t \in Seq(S)
    BY <1>3
  <1>6. OnTop(stack', m, Tail(stack')) /\ OnTop(Tail(stack'), r, t)
    BY <1>1, <1>5, StackTwo DEF Stack2
  <1>7. Waiting(Tail(stack'), uws_state') /\ (Has(Tail(stack'), "decoding") => Told')
    BY <1>2, <1>3, <1>6, LightOnTop
  <1>8. stack' # <<>> /\ Head(stack') = m /\ Tail(stack') # <<>> /\ Head(Tail(stack')) = r
        /\ Tail(Tail(stack')) = t
    BY <1>6 DEF OnTop
  <1> QED
    BY <1>3, <1>4, <1>7, <1>8 DEF m, r

LEMMA UserCallSession ==
    ASSUME TypeOK, SocketClient, Books, Place(stack), UserCalls, UNCHANGED <<sockVars, tlsVars, uwsVars>>
    PROVE  Books' /\ Place(stack)'
  <1>1. stack \in Seq(Frame) /\ session \in Nat
    BY DEF TypeOK, UwsTypeOK
  <1>2. opens \in Nat
    <2>1. opens \in 0 .. MaxOpens /\ MaxOpens \in Nat
      BY BoundsAssumption DEF TypeOK
    <2> QED
      BY <2>1
  <1>3. /\ connected' = connected /\ sock_state' = sock_state /\ pending_io_list' = pending_io_list
        /\ tls_state' = tls_state /\ session' = session /\ uws_state' = uws_state
    BY LibraryKept
  <1>4. ASSUME NEW c, MayCall(c)
        PROVE  /\ alive
               /\ stack = <<>> \/ Running("user", "in_callback")
               /\ c \in {"open", "dowork", "destroy"} => stack = <<>>
    BY <1>4, BoundsAssumption DEF MayCall, SocketClient
  <1>5. /\ openReports' = openReports /\ unopened' = unopened
        /\ opens' = opens \/ opens' = opens + 1
    BY DEF UserCalls, CallOpen, CallClose, CallCloseNull, CallSend, CallDowork, CallDestroy, userVars
  <1>6. Books'
    <2>1. session' <= opens'
      BY <1>1, <1>2, <1>3, <1>5 DEF Books
    <2> QED
      BY <1>3, <1>5, <2>1 DEF Books
  <1>7. ASSUME closing' = closing \/ closing' = closing \cup {session}, alive' = alive \/ alive' = FALSE
        PROVE  (Settled => Settled') /\ (Told => Told')
    <2>1. Told => Told'
      BY <1>3, <1>5, <1>7 DEF Told
    <2> QED
      BY <1>3, <1>5, <2>1 DEF Settled
  \* the frames of a call
  <1>8. \A f, a, n : LET m == MkFrame("uws", f, a, n, <<>>)
                    IN m.at = "uws" /\ m.fn = f /\ m.arg = a /\ m.n = n
    BY DEF MkFrame
  <1>9. \A c, n : LET m == MkFrame("user", "returned", c, n, <<>>)
                 IN Is(m, "user", "returned") /\ m.arg = c /\ m.n = n /\ m.ret = 0
    BY DEF MkFrame, Is
  <1>10. CASE CallOpen
    <2>0. opens' = opens + 1
      BY <1>10 DEF CallOpen
    <2>1. MayCall("open") /\ closing' = closing /\ alive' = alive
          /\ Call("uws_client_open_async", "", "open", session + 1)
      BY <1>10 DEF CallOpen
    <2>2. stack = <<>> /\ alive'
      BY <1>4, <2>1
    <2>3. session < opens'
      <3>1. session <= opens
        BY DEF Books
      <3> QED
        BY <1>1, <1>2, <2>0, <3>1
    <2>4. PICK n : n = session + 1 /\ Call("uws_client_open_async", "", "open", n)
      BY <2>1
    <2> DEFINE m == MkFrame("uws", "uws_client_open_async", "", n, <<>>)
               r == MkFrame("user", "returned", "open", n, <<>>)
    <2>5. m.at = "uws" /\ m.fn = "uws_client_open_async"
          /\ Is(r, "user", "returned") /\ r.arg = "open" /\ r.n = n /\ r.ret = 0
      BY DEF MkFrame, Is
    <2>6. (Settled => Settled') /\ (Told => Told')
      BY <1>7, <2>1
    <2>7. /\ Settled'
          /\ stack' # <<>> /\ Head(stack') = m /\ Tail(stack') # <<>> /\ Head(Tail(stack')) = r
          /\ Waiting(Tail(stack'), uws_state') /\ (Has(Tail(stack'), "decoding") => Told')
          /\ Tail(Tail(stack')) = <<>>
      BY <1>1, <1>3, <2>2, <2>4, <2>6, CallShape
    <2> HIDE DEF m, r
    <2>8. Called(stack)'
      BY <1>3, <2>2, <2>3, <2>4, <2>5, <2>7 DEF Called, Rest
    <2> QED
      BY <1>6, <2>8 DEF Place
  <1>11. CASE CallClose
    <2>1. closing' = closing \cup {session} /\ alive' = alive /\ alive
          /\ (stack = <<>> \/ Running("user", "in_callback"))
      BY <1>4, <1>11 DEF CallClose
    <2>2. PICK f \in {"uws_client_close_async", "uws_client_close_handshake_async"} :
            Call(f, "cb", "close", session)
      BY <1>11 DEF CallClose
    <2>3. Called(stack)'
      BY <1>1, <1>3, <1>7, <1>8, <1>9, <2>1, <2>2, CallShape DEF Called, Rest
    <2> QED
      BY <1>6, <2>3 DEF Place
  <1>12. CASE CallCloseNull
    <2>1. closing' = closing \cup {session} /\ alive' = alive /\ alive
          /\ (stack = <<>> \/ Running("user", "in_callback"))
          /\ Call("uws_client_close_async", "NULL", "close_null", session)
      BY <1>4, <1>12 DEF CallCloseNull
    <2>2. Called(stack)'
      BY <1>1, <1>3, <1>7, <1>8, <1>9, <2>1, CallShape DEF Called, Rest
    <2> QED
      BY <1>6, <2>2 DEF Place
  <1>13. CASE CallSend
    <2>1. closing' = closing /\ alive' = alive /\ alive
          /\ (stack = <<>> \/ Running("user", "in_callback"))
          /\ Call("uws_client_send_frame_async", "", "send", sends + 1)
      BY <1>4, <1>13 DEF CallSend
    <2>2. PICK n : Call("uws_client_send_frame_async", "", "send", n)
      BY <2>1
    <2> DEFINE m == MkFrame("uws", "uws_client_send_frame_async", "", n, <<>>)
               r == MkFrame("user", "returned", "send", n, <<>>)
    <2>3. m.at = "uws" /\ m.fn = "uws_client_send_frame_async" /\ m.n = n
          /\ Is(r, "user", "returned") /\ r.arg = "send" /\ r.n = n /\ r.ret = 0
      BY DEF MkFrame, Is
    <2>4. (Settled => Settled') /\ (Told => Told')
      BY <1>7, <2>1
    <2>5. /\ Settled'
          /\ stack' # <<>> /\ Head(stack') = m /\ Tail(stack') # <<>> /\ Head(Tail(stack')) = r
          /\ Waiting(Tail(stack'), uws_state') /\ (Has(Tail(stack'), "decoding") => Told')
      BY <1>1, <1>3, <2>1, <2>2, <2>4, CallShape
    <2> HIDE DEF m, r
    <2>6. Called(stack)'
      BY <1>3, <2>1, <2>3, <2>5 DEF Called, Rest
    <2> QED
      BY <1>6, <2>6 DEF Place
  <1>14. ASSUME NEW f, stack = <<>>, stack' = <<MkFrame("uws", f, "", 0, <<>>)>>
         PROVE  stack' # <<>> /\ Head(stack').at = "uws" /\ Head(stack').fn = f /\ Tail(stack') = <<>>
    <2> DEFINE m == MkFrame("uws", f, "", 0, <<>>)
    <2>1. m.at = "uws" /\ m.fn = f
      BY DEF MkFrame
    <2>2. stack' = <<m>>
      BY <1>14
    <2> HIDE DEF m
    <2> QED
      BY <2>1, <2>2
  <1>15. stack = <<>> => Settled
    BY DEF Place, Usual, Called, Opens, OpensSending, OpenFails, OpenTold, Sending, Decodes, Closes
  <1>16. CASE CallDowork
    <2>1. MayCall("dowork") /\ closing' = closing /\ alive' = alive
          /\ stack' = <<MkFrame("uws", "uws_client_dowork", "", 0, <<>>)>>
      BY <1>16 DEF CallDowork, userVars
    <2>2. stack = <<>> /\ Settled'
      BY <1>4, <1>7, <1>15, <2>1
    <2>3. Usual(stack)'
      BY <1>14, <2>1, <2>2, NothingWaits DEF Usual, Rest
    <2> QED
      BY <1>6, <2>3 DEF Place
  <1>17. CASE CallDestroy
    <2>1. MayCall("destroy") /\ closing' = closing /\ alive' = FALSE
          /\ stack' = <<MkFrame("uws", "uws_client_destroy", "", 0, <<>>)>>
      BY <1>17 DEF CallDestroy
    <2>2. stack = <<>> /\ Settled'
      BY <1>4, <1>7, <1>15, <2>1
    <2>3. Called(stack)'
      BY <1>14, <2>1, <2>2 DEF Called
    <2> QED
      BY <1>6, <2>3 DEF Place
  <1> QED
    BY <1>10, <1>11, <1>12, <1>13, <1>16, <1>17 DEF UserCalls

-----------------------------------------------------------------------------
(* Every step.                                                              *)

LEMMA InitSession == Init => SessionInv
  <1> SUFFICES ASSUME Init PROVE SessionInv
    OBVIOUS
  <1>1. uws_state = "CLOSED" /\ session = 0 /\ connected = FALSE /\ stack = <<>>
    BY DEF Init, UwsInit, SockInit
  <1>2. Settled /\ Rest(stack)
    BY <1>1, NothingWaits DEF Settled, Rest
  <1>3. Books
    BY <1>1 DEF Books, Init, SockInit, TlsInit
  <1> QED
    BY <1>2, <1>3 DEF SessionInv, Place, Usual

\* No TLS layer, so no TLS step.
LEMMA NoTls ==
    ASSUME TypeOK, Place(stack)
    PROVE  ~TlsNext
  <1>1. stack # <<>> => Top.at # "tls"
    BY RunsFreely DEF TypeOK
  <1>2. \A f : ~Running("tls", f)
    BY <1>1 DEF Running, Top
  <1> QED
    BY <1>2 DEF TlsNext, tlsio_openssl_open, tls_xio_open_returned, tls_on_underlying_io_open_complete,
       send_handshake_bytes, handshake_bytes_sent, tls_on_underlying_io_bytes_received, decode_ssl_received_bytes,
       tls_on_underlying_io_error, tlsio_openssl_close, tls_close_rest, tls_xio_close_returned, tls_force_closed,
       tls_on_underlying_io_close_complete, close_openssl_instance, tlsio_openssl_destroy, tlsio_openssl_send,
       tlsio_openssl_dowork, tls_dowork_pumped

LEMMA NextSession ==
    ASSUME SocketClient
    PROVE  TypeOK /\ SessionInv /\ [Next]_vars => SessionInv'
  <1> SUFFICES ASSUME TypeOK, Books, Place(stack), [Next]_vars
               PROVE  Books' /\ Place(stack)'
    BY DEF SessionInv
  <1>1. CASE UserCalls /\ UNCHANGED <<sockVars, tlsVars, uwsVars>>
    BY <1>1, UserCallSession
  <1>2. CASE SockNext /\ UNCHANGED <<tlsVars, uwsVars, userVars>>
    BY <1>2, SockBooks, SockPlace
  <1>3. CASE UwsNext /\ UNCHANGED <<sockVars, tlsVars, userVars>>
    BY <1>3, UwsBooks, UwsPlace
  <1>4. CASE UserSteps /\ UNCHANGED <<sockVars, tlsVars, uwsVars>>
    BY <1>4, UserStepSession
  <1>5. CASE ReturnStep /\ UNCHANGED <<sockVars, tlsVars, uwsVars, userVars>>
    <2>1. Books'
      BY <1>5 DEF Books, sockVars, tlsVars, uwsVars, userVars
    <2> QED
      BY <1>5, <2>1, ReturnPlace
  <1>6. CASE UNCHANGED vars
    <2>1. UNCHANGED <<stack, sockVars, tlsVars, uwsVars, userVars>>
      BY <1>6 DEF vars
    <2>2. Books'
      BY <2>1 DEF Books, sockVars, tlsVars, uwsVars, userVars
    <2>3. stack' = stack /\ uws_state' = uws_state /\ session' = session /\ opens' = opens
          /\ openReports' = openReports /\ closing' = closing /\ alive' = alive /\ connected' = connected
      BY <2>1 DEF sockVars, uwsVars, userVars
    <2>4. (Settled' <=> Settled) /\ (Told' <=> Told) /\ (Unreported' <=> Unreported)
      BY <2>3 DEF Settled, Told, Unreported
    <2>5. Place(stack)'
      BY <2>3, <2>4 DEF Place, Usual, Called, Opens, OpensSending, OpenFails, OpenTold, Sending, Decodes, Closes, Rest
    <2> QED
      BY <2>2, <2>5
  <1> QED
    BY <1>1, <1>2, <1>3, <1>4, <1>5, <1>6, NoTls DEF Next, Step

LEMMA SessionCorrect ==
    ASSUME SocketClient
    PROVE  Spec => [](TypeOK /\ SessionInv)
  <1>1. Init => TypeOK /\ SessionInv
    BY InitType, InitSession
  <1>2. TypeOK /\ SessionInv /\ [Next]_vars => TypeOK' /\ SessionInv'
    BY NextType, NextSession
  <1> QED
    BY <1>1, <1>2, PTL DEF Spec

\* between two calls the state is settled
LEMMA QuietSettled ==
    ASSUME SessionInv, stack = <<>>
    PROVE  Settled
  BY DEF SessionInv, Place, Usual, Called, Opens, OpensSending, OpenFails, OpenTold, Sending, Decodes, Closes

(***************************************************************************)
(* Over a socket every accepted uws_client_open_async is answered: as long *)
(* as no callback opens the connection again, on_ws_open_complete is       *)
(* called at most once for each, and has been called when the client is    *)
(* closed again, unless the user closed it first.  For any peer, any       *)
(* number of opens and sends, however the bytes are cut and however deep   *)
(* the callbacks nest (uws_client.c, indicate_ws_open_complete and         *)
(* indicate_ws_open_complete_error_and_close).                             *)
(***************************************************************************)
THEOREM OpensAnsweredOnce ==
    ASSUME SocketClient
    PROVE  Spec => []OpensAnswered
  <1>1. TypeOK /\ SessionInv => OpensAnswered
    <2> SUFFICES ASSUME SessionInv PROVE OpensAnswered
      OBVIOUS
    <2>1. \A s \in Sessions : openReports[s] <= (IF s \in unopened THEN 0 ELSE 1)
      BY DEF SessionInv, Books
    <2>2. Quiet /\ session > 0 => openReports[session] = 1 \/ session \in closing
      BY QuietSettled DEF Quiet, Settled, Told
    <2> QED
      BY <2>1, <2>2 DEF OpensAnswered
  <1> QED
    BY <1>1, SessionCorrect, PTL

(***************************************************************************)
(* Over a socket that takes whole sends, a client that has returned to     *)
(* CLOSED has released the socket, and no client is left waiting for the   *)
(* socket to close (uws_client.c, on_underlying_io_close_complete and      *)
(* on_underlying_io_error; socketio_berkeley.c, socketio_close).  A queue  *)
(* that outlives its connection can leave the socket in ERROR; without     *)
(* short sends there is no queue.                                          *)
(***************************************************************************)
THEOREM ClosedIsReleased ==
    ASSUME SocketClient, MayBlock = FALSE
    PROVE  Spec => []ClosedMeansReleased
  <1>1. TypeOK /\ SessionInv => ClosedMeansReleased
    <2> SUFFICES ASSUME SessionInv PROVE ClosedMeansReleased
      OBVIOUS
    <2>1. tls_state = "NOT_OPEN" /\ (connected \/ sock_state = "CLOSED")
      BY DEF SessionInv, Books
    <2>2. stack = <<>> => uws_state # "CLOSING_UNDERLYING_IO" /\ (uws_state = "CLOSED" => ~connected)
      BY QuietSettled DEF Settled
    <2> QED
      BY <2>1, <2>2 DEF ClosedMeansReleased, Quiet
  <1> QED
    BY <1>1, SessionCorrect, PTL

-----------------------------------------------------------------------------
(* Whatever runs replaces itself by the calls it makes, or returns.         *)

Moved ==
    \/ Pop \/ Goto(<<>>)
    \/ \E v : Return(v)
    \/ \E a : Goto(<<a>>)
    \/ \E a, b : Goto(<<a, b>>)
    \/ \E a, b, c : Goto(<<a, b, c>>)
    \/ \E a, b, c, d : Goto(<<a, b, c, d>>)

LEMMA SockMoves ==
    ASSUME SockNext
    PROVE  Moved
  <1>1. CASE socketio_send_sent
    <2> DEFINE r == ReturnFrame("socket", 0)
    <2>1. PICK cs : cs = on_send_complete(Top.arg, "OK", Top.n) /\ Goto(cs \o <<r>>)
      BY <1>1 DEF socketio_send_sent
    <2>2. cs = <<>> \/ \E m : cs = <<m>>
      BY <2>1 DEF on_send_complete
    <2> HIDE DEF r
    <2>3. <<>> \o <<r>> = <<r>> /\ \A m : <<m>> \o <<r>> = <<m, r>>
      BY ONLY ConcatTuples
    <2>4. Goto(<<r>>) \/ \E m : Goto(<<m, r>>)
      BY <2>1, <2>2, <2>3
    <2> QED
      BY <2>4 DEF Moved
  <1>2. CASE socketio_dowork_send_complete
    <2> DEFINE io == Head(pending_io_list)
    <2>1. PICK cs : cs = on_send_complete(io.cb, "OK", io.n) /\ Goto(cs \o <<dowork_sent>>)
      BY <1>2 DEF socketio_dowork_send_complete
    <2>2. cs = <<>> \/ \E m : cs = <<m>>
      BY <2>1 DEF on_send_complete
    <2>3. <<>> \o <<dowork_sent>> = <<dowork_sent>> /\ \A m : <<m>> \o <<dowork_sent>> = <<m, dowork_sent>>
      BY ONLY ConcatTuples
    <2>4. Goto(<<dowork_sent>>) \/ \E m : Goto(<<m, dowork_sent>>)
      BY <2>1, <2>2, <2>3
    <2> QED
      BY <2>4 DEF Moved
  <1>3. CASE socketio_open_refused \/ socketio_open_connected \/ socketio_open_failed
    BY <1>3 DEF socketio_open_refused, socketio_open_connected, socketio_open_failed, Moved
  <1>4. CASE socketio_close
    BY <1>4 DEF socketio_close, Moved
  <1>5. CASE socketio_destroy \/ socketio_dowork_receive_end
    BY <1>5 DEF socketio_destroy, socketio_dowork_receive_end, Moved
  <1>6. CASE socketio_send_queued \/ socketio_send_failed
    BY <1>6 DEF socketio_send_queued, socketio_send_failed, Moved
  <1>7. CASE socketio_dowork_remove \/ socketio_dowork_send_error \/ socketio_dowork_send_end
    BY <1>7 DEF socketio_dowork_remove, socketio_dowork_send_error, socketio_dowork_send_end, Moved
  <1>8. CASE socketio_dowork_receive \/ socketio_dowork_receive_error
    BY <1>8 DEF socketio_dowork_receive, socketio_dowork_receive_error, Moved
  <1> QED
    BY <1>1, <1>2, <1>3, <1>4, <1>5, <1>6, <1>7, <1>8 DEF SockNext

LEMMA UwsMoves ==
    ASSUME UwsNext
    PROVE  Moved
  <1>0. Shut => Moved
    BY DEF Shut, open_complete_error_and_close, Moved
  <1>1. CASE \/ indicate_ws_open_complete_error \/ indicate_ws_error \/ indicate_ws_close_complete
             \/ clear_pending_sends \/ call_on_ws_close_complete \/ set_closed
    <2>1. CASE indicate_ws_open_complete_error \/ indicate_ws_error
      BY <2>1 DEF indicate_ws_open_complete_error, indicate_ws_error, Moved
    <2>2. CASE indicate_ws_close_complete \/ set_closed
      BY <2>2 DEF indicate_ws_close_complete, set_closed, Moved
    <2>3. CASE clear_pending_sends
      BY <2>3 DEF clear_pending_sends, Moved
    <2>4. CASE call_on_ws_close_complete
      <3> DEFINE report == User("on_ws_close_complete", "", on_ws_close_complete, <<>>)
      <3>1. Goto(<<>>) \/ Goto(<<report>>)
        BY <2>4 DEF call_on_ws_close_complete
      <3> QED
        BY <3>1 DEF Moved
    <2> QED
      BY <1>1, <2>1, <2>2, <2>3, <2>4
  <1>2. CASE indicate_ws_error_and_close
    <2> DEFINE send == xio_send("uws", "unchecked_on_send_complete", 0)
               report == User("on_ws_error", "", 0, <<>>)
    <2>1. Goto(<<send>> \o <<report>>) \/ Goto(<<>> \o <<report>>)
      BY <1>2 DEF indicate_ws_error_and_close
    <2> HIDE DEF send, report
    <2>2. <<send>> \o <<report>> = <<send, report>> /\ <<>> \o <<report>> = <<report>>
      BY ONLY ConcatTuples
    <2> QED
      BY <2>1, <2>2 DEF Moved
  <1>3. CASE uws_client_open_async \/ xio_open_returned
    <2>1. Return(1) \/ Goto(<<xio_open("uws"), Uws("xio_open_returned")>>) \/ Return(Top.ret)
      BY <1>3 DEF uws_client_open_async, xio_open_returned
    <2> QED
      BY <2>1 DEF Moved
  <1>4. CASE on_underlying_io_open_complete \/ upgrade_request_sent
    <2>1. \/ Shut \/ Pop \/ Goto(<<Uws("open_complete_error")>>)
          \/ Goto(<<xio_send("uws", "unchecked_on_send_complete", 0), Uws("upgrade_request_sent")>>)
      BY <1>4 DEF on_underlying_io_open_complete, upgrade_request_sent
    <2> QED
      BY <1>0, <2>1 DEF Moved
  <1>5. CASE on_underlying_io_bytes_received \/ decode_nothing \/ decode_while_opening
    BY <1>0, <1>5 DEF on_underlying_io_bytes_received, decode_nothing, decode_while_opening, Moved
  <1>6. CASE decode_upgrade_response \/ decode_masked_frame \/ decode_unmasked_frame
    <2>1. CASE decode_upgrade_response
      BY <1>0, <2>1 DEF decode_upgrade_response, Moved
    <2>2. CASE decode_masked_frame
      BY <2>2 DEF decode_masked_frame, Moved
    <2>3. CASE decode_unmasked_frame
      BY <2>3 DEF decode_unmasked_frame, Moved
    <2> QED
      BY <1>6, <2>1, <2>2, <2>3
  <1>7. CASE decode_length
    BY <1>7 DEF decode_length, Moved
  <1>8. CASE consume_stream_buffer_bytes
    <2>1. Goto(<<Uws("decode_stream")>>) \/ Goto(<<>>) \/ Goto(<<Uws("undefined")>>)
      BY <1>8 DEF consume_stream_buffer_bytes
    <2> QED
      BY <2>1 DEF Moved
  <1>9. ASSUME NEW x, Reject(x) PROVE Moved
    BY <1>9 DEF Reject, Moved
  <1>10. CASE frame_continuation
    <2> DEFINE report == User("on_ws_frame_received", fragmented_frame_type, 0, fragment_buffer')
    <2>1. \/ Reject("stop") \/ Goto(<<Consume("again")>>)
          \/ Goto(<<Uws("indicate_ws_error"), Consume("again")>>)
          \/ Goto(<<report, Uws("message_done"), Consume("again")>>)
      BY <1>10 DEF frame_continuation
    <2> QED
      BY <1>9, <2>1 DEF Moved
  <1>11. CASE message_done \/ frame_data_final
    BY <1>11 DEF message_done, frame_data_final, Moved
  <1>12. CASE frame_data_first
    BY <1>9, <1>12 DEF frame_data_first, Moved
  <1>13. CASE frame_close_bad \/ frame_close_answer
    BY <1>9, <1>13 DEF frame_close_bad, frame_close_answer, Moved
  <1>14. CASE frame_close_by_peer
    <2> DEFINE report == User("on_ws_peer_closed", "", 0, <<>>)
               end == Consume("stop")
               send == xio_send("uws", "on_underlying_io_close_sent", 0)
               sent == Uws("answer_sent")
               close == xio_close("uws", "close_complete")
               closed == Uws("close_or_error")
    <2>1. Goto(<<send, sent>> \o <<report, end>>) \/ Goto(<<close, closed>> \o <<report, end>>)
      BY <1>14 DEF frame_close_by_peer
    <2> HIDE DEF report, end, send, sent, close, closed
    <2>2. <<send, sent>> \o <<report, end>> = <<send, sent, report, end>>
      BY ONLY ConcatTuples
    <2>3. <<close, closed>> \o <<report, end>> = <<close, closed, report, end>>
      BY ONLY ConcatTuples
    <2> QED
      BY <2>1, <2>2, <2>3 DEF Moved
  <1>15. CASE answer_sent \/ close_or_error \/ close_or_complete
    BY <1>15 DEF answer_sent, close_or_error, close_or_complete, Moved
  <1>16. CASE frame_ping \/ frame_ignored
    BY <1>9, <1>16 DEF frame_ping, frame_ignored, Moved
  <1>17. CASE on_underlying_io_close_sent \/ close_sent_closed \/ on_underlying_io_close_complete
    BY <1>17 DEF on_underlying_io_close_sent, close_sent_closed, on_underlying_io_close_complete, Moved
  <1>18. CASE on_underlying_io_error
    <2>1. \/ Goto(<<xio_close("uws", "NULL"), Uws("indicate_ws_close_complete")>>)
          \/ Shut \/ Goto(<<Uws("indicate_ws_error")>>) \/ Goto(<<>>)
      BY <1>18 DEF on_underlying_io_error, Shut
    <2> QED
      BY <1>0, <2>1 DEF Moved
  <1>19. CASE uws_client_close_async \/ close_async_closed \/ uws_client_close_handshake_async
    <2>1. \/ Return(0) \/ Return(1)
          \/ Goto(<<xio_close("uws", "close_complete"), Uws("close_async_closed")>>)
          \/ Goto(<<Uws("indicate_ws_error"), ReturnFrame("uws", 1)>>)
          \/ Goto(<<xio_send("uws", "unchecked_on_send_complete", 0)>>)
      BY <1>19 DEF uws_client_close_async, close_async_closed, uws_client_close_handshake_async
    <2> QED
      BY <2>1 DEF Moved
  <1>20. CASE uws_client_destroy
    <2> DEFINE a == MkFrame("uws", "uws_client_close_async", "NULL", 0, <<>>)
               b == xio_destroy("uws")
               c == Uws("clear_pending_sends")
    <2>1. Goto(<<a>> \o <<b, c>>) \/ Goto(<<>> \o <<b, c>>)
      BY <1>20 DEF uws_client_destroy
    <2> HIDE DEF a, b, c
    <2>2. <<a>> \o <<b, c>> = <<a, b, c>> /\ <<>> \o <<b, c>> = <<b, c>>
      BY ONLY ConcatTuples
    <2> QED
      BY <2>1, <2>2 DEF Moved
  <1>21. CASE uws_client_send_frame_async \/ frame_sent
    <2>1. \/ Return(1) \/ Return(Top.ret)
          \/ Goto(<<xio_send("uws", "on_underlying_io_send_complete", Top.n),
                    MkFrame("uws", "frame_sent", "", Top.n, <<>>)>>)
      BY <1>21 DEF uws_client_send_frame_async, frame_sent
    <2> QED
      BY <2>1 DEF Moved
  <1>22. CASE on_underlying_io_send_complete \/ on_underlying_io_send_complete_freed
    BY <1>22 DEF on_underlying_io_send_complete, on_underlying_io_send_complete_freed, Moved
  <1>23. CASE uws_client_dowork
    <2>1. Goto(<<>>) \/ Goto(<<xio_dowork("uws")>>)
      BY <1>23 DEF uws_client_dowork
    <2> QED
      BY <2>1 DEF Moved
  <1> QED
    BY <1>1, <1>2, <1>3, <1>4, <1>5, <1>6, <1>7, <1>8, <1>10, <1>11, <1>12, <1>13, <1>14, <1>15,
       <1>16, <1>17, <1>18, <1>19, <1>20, <1>21, <1>22, <1>23 DEF UwsNext

LEMMA UserMoves ==
    ASSUME UserSteps
    PROVE  Moved
  BY DEF UserSteps, Returned, OnOpenComplete, OnFrameReceived, OnSendComplete, OnError, OnPeerClosed,
     OnCloseComplete, CallbackReturns, InCallback, Moved

\* Whoever is still to clear the list or to report a close stays on the stack.
LEMMA MovedKeeps ==
    ASSUME stack \in Seq(Frame), stack # <<>>, Moved, NEW role \in {"clearing", "telling"}
    PROVE  Has(stack, role) /\ Role(Top) # role => Has(stack', role)
  <1>1. Has(stack, role) /\ Role(Top) # role => Has(Beneath, role)
    BY RunningTop DEF OnTop
  <1>2. CASE Pop \/ Goto(<<>>)
    BY <1>1, <1>2, Goto0
  <1>3. ASSUME NEW v, Return(v), Has(Beneath, role) PROVE Has(stack', role)
    <2>1. Beneath # <<>>
      BY <1>3, NothingWaits
    <2> DEFINE f == Head(Beneath)
    <2>2. OnTop(Beneath, f, Tail(Beneath)) /\ f \in Frame /\ OnTop(stack', Given(f, v), Tail(Beneath))
      BY <1>3, <2>1, ReturnTop DEF Stack1
    <2> DEFINE g == Given(f, v)
    <2>3. g.at = f.at /\ g.fn = f.fn
      BY <2>2, GivenParts
    <2> HIDE DEF f, g
    <2>4. Role(f) = role => Role(g) = role
      BY <2>3 DEF Role, Is
    <2> QED
      BY <1>3, <2>2, <2>4 DEF OnTop, g
  <1>4. ASSUME NEW a, Goto(<<a>>) PROVE Has(Beneath, role) => Has(stack', role)
    BY <1>4, Goto1 DEF Stack1, OnTop
  <1>5. ASSUME NEW a, NEW b, Goto(<<a, b>>) PROVE Has(Beneath, role) => Has(stack', role)
    BY <1>5, Goto2 DEF Stack2, OnTop
  <1>6. ASSUME NEW a, NEW b, NEW c, Goto(<<a, b, c>>) PROVE Has(Beneath, role) => Has(stack', role)
    BY <1>6, Goto3 DEF Stack3, Stack2, OnTop
  <1>7. ASSUME NEW a, NEW b, NEW c, NEW d, Goto(<<a, b, c, d>>) PROVE Has(Beneath, role) => Has(stack', role)
    BY <1>7, Goto4 DEF Stack4, Stack3, Stack2, OnTop
  <1> QED
    BY <1>1, <1>2, <1>3, <1>4, <1>5, <1>6, <1>7 DEF Moved

-----------------------------------------------------------------------------
(* Every send is settled.                                                   *)

\* The running function has a send in its hands.
Carrying ==
    \/ Top.fn \in {"uws_client_send_frame_async", "on_ws_send_frame_complete", "frame_sent"}
    \/ Is(Top, "user", "returned")

Emptied == Opening \cup {"CLOSED"}

\* a step that has nothing to do with a send, and leaves the list to who clears it
LEMMA SettleStep ==
    ASSUME SettleInv, stack # <<>>, ~Carrying,
           UNCHANGED <<pending_sends, sends, completions, refused, alive>>, faults' = {} => faults = {},
           uws_state' \in Emptied => uws_state \in Emptied \/ Has(stack', "clearing"),
           Has(stack, "clearing") => Has(stack', "clearing"),
           Is(Top, "uws", "uws_client_destroy") => Has(stack', "clearing")
    PROVE  SettleInv'
  <1>1. \A i : ~InHand(i)
    BY DEF InHand, Carrying, Is
  <1>2. faults' = {} => \A i \in 1 .. sends : completions[i] > 0 \/ i \in refused \/ Listed(i)
    BY <1>1 DEF SettleInv
  <1>3. faults' = {} => \A i \in 1 .. sends' : completions'[i] > 0 \/ i \in refused' \/ Listed(i)'
    BY <1>2 DEF Listed
  <1> QED
    BY <1>3 DEF SettleInv, Emptied

LEMMA SettleSock ==
    ASSUME SettleInv, TypeOK, SockNext, UNCHANGED <<tlsVars, uwsVars, userVars>>
    PROVE  SettleInv'
  <1>1. stack # <<>> /\ Top.at = "socket"
        /\ Top.fn \in {"open", "close", "send", "dowork", "destroy", "dowork_sent", "dowork_receive"}
    BY DEF SockNext, socketio_open_refused, socketio_open_connected, socketio_open_failed, socketio_close,
       socketio_destroy, socketio_send_sent, socketio_send_queued, socketio_send_failed,
       socketio_dowork_send_complete, socketio_dowork_remove, socketio_dowork_send_error,
       socketio_dowork_send_end, socketio_dowork_receive, socketio_dowork_receive_error,
       socketio_dowork_receive_end, Running, Top
  <1>2. UNCHANGED <<pending_sends, sends, completions, refused, alive, faults, uws_state>>
    BY DEF uwsVars, userVars
  <1>3. ~Carrying /\ Role(Top) = "none" /\ ~Is(Top, "uws", "uws_client_destroy")
    BY <1>1, Roles DEF Carrying, Is
  <1>4. Has(stack, "clearing") => Has(stack', "clearing")
    BY <1>1, <1>3, SockMoves, MovedKeeps DEF TypeOK
  <1> QED
    BY <1>1, <1>2, <1>3, <1>4, SettleStep

LEMMA SettleReturn ==
    ASSUME SettleInv, TypeOK, ReturnStep, UNCHANGED <<sockVars, tlsVars, uwsVars, userVars>>
    PROVE  SettleInv'
  <1>1. stack # <<>> /\ Top.fn = "return" /\ Moved
    BY DEF ReturnStep, Moved
  <1>2. UNCHANGED <<pending_sends, sends, completions, refused, alive, faults, uws_state>>
    BY DEF uwsVars, userVars
  <1>3. ~Carrying /\ Role(Top) = "none" /\ ~Is(Top, "uws", "uws_client_destroy")
    BY <1>1, Roles DEF Carrying, Is
  <1>4. Has(stack, "clearing") => Has(stack', "clearing")
    BY <1>1, <1>3, MovedKeeps DEF TypeOK
  <1> QED
    BY <1>1, <1>2, <1>3, <1>4, SettleStep

LEMMA UwsQuiet ==
    ASSUME UwsNext, ~clear_pending_sends, ~uws_client_send_frame_async, ~frame_sent,
           ~on_underlying_io_send_complete, ~on_underlying_io_send_complete_freed
    PROVE  /\ stack # <<>> /\ Top.at = "uws"
           /\ Top.fn \notin {"clear_pending_sends", "uws_client_send_frame_async", "frame_sent",
                             "on_ws_send_frame_complete"}
           /\ pending_sends' = pending_sends /\ (faults' = {} => faults = {})
           /\ \/ uws_state' = uws_state
              \/ uws_state' \notin Emptied
              \/ Top.fn \in {"open_complete_error", "indicate_ws_close_complete", "set_closed",
                             "uws_client_open_async", "xio_open_returned", "upgrade_request_sent"}
           /\ Top.fn = "uws_client_open_async" => uws_state' = uws_state \/ uws_state = "CLOSED"
           /\ Top.fn = "indicate_ws_close_complete" => indicate_ws_close_complete
           /\ Top.fn = "uws_client_destroy" => uws_client_destroy
           /\ Top.fn = "xio_open_returned" /\ Top.ret = 0 => uws_state' = uws_state
  <1> USE DEF Running, Top
  <1>1. CASE \/ indicate_ws_open_complete_error \/ indicate_ws_error \/ indicate_ws_error_and_close
             \/ indicate_ws_close_complete \/ call_on_ws_close_complete \/ set_closed
             \/ uws_client_open_async \/ xio_open_returned
             \/ on_underlying_io_open_complete \/ upgrade_request_sent
    BY <1>1 DEF indicate_ws_open_complete_error, indicate_ws_error, indicate_ws_error_and_close,
       indicate_ws_close_complete, call_on_ws_close_complete, set_closed, State, Emptied, Opening,
       uws_client_open_async, xio_open_returned, on_underlying_io_open_complete, upgrade_request_sent,
       uwsVars, Others
  <1>2. CASE \/ on_underlying_io_bytes_received
             \/ decode_nothing \/ decode_while_opening \/ decode_upgrade_response
             \/ decode_masked_frame \/ decode_unmasked_frame \/ decode_length
             \/ consume_stream_buffer_bytes
             \/ frame_continuation \/ message_done \/ frame_data_final \/ frame_data_first
    BY <1>2 DEF on_underlying_io_bytes_received, decode_nothing, decode_while_opening, decode_upgrade_response,
       decode_masked_frame, decode_unmasked_frame, decode_length, consume_stream_buffer_bytes, Received,
       State, Emptied, Opening,
       frame_continuation, message_done, frame_data_final, frame_data_first, Reject, uwsVars, Others
  <1>3. CASE \/ frame_close_bad \/ frame_close_answer \/ frame_close_by_peer \/ answer_sent
             \/ close_or_error \/ close_or_complete \/ frame_ping \/ frame_ignored
             \/ on_underlying_io_close_sent \/ close_sent_closed \/ on_underlying_io_close_complete
             \/ on_underlying_io_error
    BY <1>3 DEF frame_close_bad, frame_close_answer, frame_close_by_peer, answer_sent, close_or_error,
       close_or_complete, frame_ping, frame_ignored, on_underlying_io_close_sent, close_sent_closed,
       State, Emptied, Opening, Received,
       on_underlying_io_close_complete, on_underlying_io_error, Reject, uwsVars, Others
  <1>4. CASE \/ uws_client_close_async \/ close_async_closed \/ uws_client_close_handshake_async
             \/ uws_client_destroy \/ uws_client_dowork
    BY <1>4 DEF uws_client_close_async, close_async_closed, uws_client_close_handshake_async,
       State, Emptied, Opening, uws_client_destroy, uws_client_dowork, uwsVars, Others
  <1> QED
    BY <1>1, <1>2, <1>3, <1>4 DEF UwsNext

\* The state becomes one in which nothing is to be pending.
LEMMA EmptiedFrom ==
    ASSUME stack \in Seq(Frame), stack # <<>>, Place(stack)
    PROVE  /\ Top.fn \in {"open_complete_error", "upgrade_request_sent"} => uws_state \in Emptied
           /\ Is(Top, "uws", "set_closed") => uws_state \in Emptied
           /\ Top.fn = "xio_open_returned" => Top.ret = 0
  <1>1. Top.fn = "open_complete_error" => OpenFails(stack)
    BY RunsInPlace
  <1>2. Top.fn = "upgrade_request_sent" => Opens(stack)
    BY RunsInPlace
  <1>3. Is(Top, "uws", "set_closed") => uws_state = "CLOSED"
    BY RunsFreely
  <1>4. Top.fn = "xio_open_returned" => Top.ret = 0
    BY RunsFreely DEF Succeeding, Awaiting
  <1> QED
    BY <1>1, <1>2, <1>3, <1>4 DEF OpenFails, Opens, Emptied, Opening

LEMMA SettleUwsQuiet ==
    ASSUME SettleInv, TypeOK, Place(stack), UwsNext, UNCHANGED <<sockVars, tlsVars, userVars>>,
           ~clear_pending_sends, ~uws_client_send_frame_async, ~frame_sent,
           ~on_underlying_io_send_complete, ~on_underlying_io_send_complete_freed
    PROVE  SettleInv'
  <1>1. UNCHANGED <<sends, completions, refused, alive>>
    BY DEF userVars
  <1>2. stack # <<>> /\ stack \in Seq(Frame) /\ Top.at = "uws"
        /\ Top.fn \notin {"clear_pending_sends", "uws_client_send_frame_async", "frame_sent",
                          "on_ws_send_frame_complete"}
        /\ pending_sends' = pending_sends /\ (faults' = {} => faults = {})
    BY UwsQuiet DEF TypeOK
  <1>3. ~Carrying /\ Role(Top) # "clearing"
    BY <1>2 DEF Carrying, Is, Role
  <1>4. Has(stack, "clearing") => Has(stack', "clearing")
    BY <1>2, <1>3, UwsMoves, MovedKeeps
  <1>5. ASSUME indicate_ws_close_complete PROVE Has(stack', "clearing")
    <2> DEFINE a == Uws("clear_pending_sends")
               b == Uws("call_on_ws_close_complete")
    <2>1. Goto(<<a, b>>) /\ Role(a) = "clearing"
      BY <1>5 DEF indicate_ws_close_complete, Uws, MkFrame, Role, Is
    <2> HIDE DEF a, b
    <2> QED
      BY <1>2, <2>1, Goto2 DEF Stack2, OnTop
  <1>6. ASSUME uws_client_destroy PROVE Has(stack', "clearing")
    <2> DEFINE a == MkFrame("uws", "uws_client_close_async", "NULL", 0, <<>>)
               b == xio_destroy("uws")
               c == Uws("clear_pending_sends")
    <2>1. Goto(<<a>> \o <<b, c>>) \/ Goto(<<>> \o <<b, c>>)
      BY <1>6 DEF uws_client_destroy
    <2>2. Role(c) = "clearing"
      BY DEF Uws, MkFrame, Role, Is
    <2> HIDE DEF a, b, c
    <2>3. <<a>> \o <<b, c>> = <<a, b, c>> /\ <<>> \o <<b, c>> = <<b, c>>
      BY ONLY ConcatTuples
    <2>4. CASE Goto(<<a, b, c>>)
      BY <1>2, <2>2, <2>4, Goto3 DEF Stack3, Stack2, OnTop
    <2>5. CASE Goto(<<b, c>>)
      BY <1>2, <2>2, <2>5, Goto2 DEF Stack2, OnTop
    <2> QED
      BY <2>1, <2>3, <2>4, <2>5
  <1>7. uws_state' \in Emptied => uws_state \in Emptied \/ Has(stack', "clearing")
    <2>1. \/ uws_state' = uws_state
          \/ uws_state' \notin Emptied
          \/ Top.fn \in {"open_complete_error", "indicate_ws_close_complete", "set_closed",
                         "uws_client_open_async", "xio_open_returned", "upgrade_request_sent"}
      BY UwsQuiet
    <2>2. Top.fn = "uws_client_open_async" => uws_state' = uws_state \/ uws_state = "CLOSED"
      BY UwsQuiet
    <2>3. Top.fn = "indicate_ws_close_complete" => Has(stack', "clearing")
      BY <1>5, UwsQuiet
    <2>4. Top.fn \in {"open_complete_error", "upgrade_request_sent", "set_closed"} => uws_state \in Emptied
      BY <1>2, EmptiedFrom DEF Is
    <2>5. Top.fn = "xio_open_returned" => uws_state' = uws_state
      BY <1>2, EmptiedFrom, UwsQuiet
    <2> QED
      BY <2>1, <2>2, <2>3, <2>4, <2>5 DEF Emptied
  <1>8. Is(Top, "uws", "uws_client_destroy") => Has(stack', "clearing")
    BY <1>6, UwsQuiet DEF Is
  <1> QED
    BY <1>1, <1>2, <1>3, <1>4, <1>7, <1>8, SettleStep

\* Removing a send leaves the others.
LEMMA WithoutKeeps ==
    ASSUME pending_sends \in Seq(Nat), NEW x, NEW y, Listed(y), y # x
    PROVE  \E i \in DOMAIN Without(x) : Without(x)[i] = y
  <1>1. CASE ~Listed(x)
    BY <1>1 DEF Without, Listed
  <1>2. CASE Listed(x)
    <2> DEFINE p == Position(pending_sends, x)
               m == Len(pending_sends) - 1
               old(i) == IF i < p THEN i ELSE i + 1
    <2>1. p \in DOMAIN pending_sends /\ pending_sends[p] = x /\ p \in 1 .. Len(pending_sends)
      BY <1>2 DEF Listed, Position
    <2>2. m \in Nat /\ DOMAIN pending_sends = 1 .. m + 1
      BY <2>1
    <2>3. Without(x) = [i \in 1 .. m |-> pending_sends[old(i)]]
      BY <1>2 DEF Without
    <2>4. PICK j \in 1 .. m + 1 : pending_sends[j] = y
      BY <2>2 DEF Listed
    <2>5. j # p /\ p \in 1 .. m + 1
      BY <2>1, <2>2, <2>4
    <2> DEFINE i == IF j < p THEN j ELSE j - 1
    <2>6. i \in 1 .. m /\ old(i) = j
      BY <2>2, <2>4, <2>5
    <2>7. DOMAIN Without(x) = 1 .. m /\ Without(x)[i] = pending_sends[old(i)]
      BY <2>3, <2>6
    <2> QED
      BY <2>4, <2>6, <2>7
  <1> QED
    BY <1>1, <1>2

\* a step that takes at most one send from the list or from the hands of the running function,
\* which passes it on
LEMMA SettleHand ==
    ASSUME SettleInv, NEW x,
           faults' = {} => faults = {},
           sends' = sends, uws_state' = uws_state, alive' = alive,
           \A i \in 1 .. sends : completions[i] > 0 => completions'[i] > 0,
           \A i \in refused : i \in refused',
           \A i : i # x /\ Listed(i) => Listed(i)',
           \A i : i # x => ~InHand(i),
           InHand(x) \/ Listed(x) => x \notin 1 .. sends \/ completions'[x] > 0 \/ x \in refused' \/ Listed(x)' \/ InHand(x)',
           pending_sends = <<>> => pending_sends' = <<>> \/ (uws_state \notin Emptied /\ alive),
           Has(stack, "clearing") => pending_sends' = <<>> \/ Has(stack', "clearing"),
           ~Is(Top, "uws", "uws_client_destroy")
    PROVE  SettleInv'
  <1>1. SUFFICES ASSUME faults' = {}, faults = {} PROVE SettleInv'
    BY DEF SettleInv
  <1>2. ASSUME NEW i \in 1 .. sends'
        PROVE  completions'[i] > 0 \/ i \in refused' \/ Listed(i)' \/ InHand(i)'
    <2>1. i \in 1 .. sends
      OBVIOUS
    <2>2. completions[i] > 0 \/ i \in refused \/ Listed(i) \/ InHand(i)
      BY <1>1, <2>1 DEF SettleInv
    <2> QED
      BY <2>1, <2>2
  <1>3. uws_state' \in Emptied => pending_sends' = <<>> \/ Has(stack', "clearing")
    BY <1>1 DEF SettleInv, Emptied
  <1>4. ~alive' => pending_sends' = <<>> \/ Has(stack', "clearing")
    BY <1>1 DEF SettleInv
  <1> QED
    BY <1>2, <1>3, <1>4 DEF SettleInv, Emptied

LEMMA SettleSend ==
    ASSUME SettleInv, TypeOK, Place(stack), uws_client_send_frame_async, UNCHANGED userVars
    PROVE  SettleInv'
  <1>1. stack \in Seq(Frame) /\ stack # <<>> /\ Top.at = "uws" /\ Top.fn = "uws_client_send_frame_async"
        /\ pending_sends \in Seq(Nat) /\ Top.n \in Nat
    BY TopType DEF TypeOK, UwsTypeOK, uws_client_send_frame_async, Running, Top
  <1>2. /\ sends' = sends /\ completions' = completions /\ refused' = refused /\ alive' = alive
        /\ uws_state' = uws_state /\ faults' = faults
    BY DEF uws_client_send_frame_async, userVars
  <1>3. Called(stack)
    BY <1>1, RunsInPlace DEF Api
  <1>4. Top = Head(stack) /\ Beneath = Tail(stack)
    BY DEF Top, Beneath
  <1>5. /\ alive /\ Beneath # <<>> /\ Is(Head(Beneath), "user", "returned")
        /\ Head(Beneath).arg = "send" /\ Head(Beneath).n = Top.n
    BY <1>1, <1>3, <1>4 DEF Called
  <1>6. \A i : i # Top.n => ~InHand(i)
    BY DEF InHand
  <1>7. Role(Top) = "none" /\ ~Is(Top, "uws", "uws_client_destroy")
    BY <1>1, Roles DEF Is
  <1>8. Has(stack, "clearing") => Has(stack', "clearing")
    <2>1. Moved
      BY UwsMoves DEF UwsNext
    <2> QED
      BY <1>1, <1>7, <2>1, MovedKeeps
  <1>9. CASE Return(1) /\ UNCHANGED pending_sends
    <2> DEFINE g == Given(Head(Beneath), 1)
    <2>1. stack' # <<>> /\ Head(stack') = g /\ Head(Beneath) \in Frame
      BY <1>1, <1>5, <1>9, ReturnTop DEF Stack1, OnTop
    <2>2. Is(g, "user", "returned") /\ g.arg = "send" /\ g.n = Top.n /\ g.ret = 1
      BY <1>5, <2>1, GivenParts DEF Is
    <2> HIDE DEF g
    <2>3. \A i : Listed(i) => Listed(i)'
      BY <1>9 DEF Listed
    <2>4. PICK x : x = Top.n
      OBVIOUS
    <2>5. InHand(x)' /\ \A i : i # x => ~InHand(i)
      BY <1>6, <2>1, <2>2, <2>4 DEF InHand, Top
    <2> QED
      BY <1>2, <1>7, <1>8, <1>9, <2>3, <2>5, SettleHand
  <1>10. CASE ~(Return(1) /\ UNCHANGED pending_sends)
    <2>1. PICK x \in Nat : x = Top.n
      BY <1>1
    <2>2. uws_state = "OPEN" /\ pending_sends' = Append(pending_sends, x)
      BY <1>10, <2>1 DEF uws_client_send_frame_async
    <2> DEFINE m == Len(pending_sends)
               new == Append(pending_sends, x)
    <2>3. /\ m \in Nat /\ DOMAIN pending_sends = 1 .. m /\ DOMAIN new = 1 .. m + 1
          /\ \A i \in 1 .. m : new[i] = pending_sends[i]
          /\ new[m + 1] = x
      BY <1>1, AppendProperties, LenProperties
    <2>4. pending_sends' = new
      BY <2>2
    <2> HIDE DEF new, m
    <2>5. Listed(x)'
      <3>1. m + 1 \in DOMAIN new
        BY <2>3
      <3> QED
        BY <2>3, <2>4, <3>1 DEF Listed
    <2>6. \A i : Listed(i) => Listed(i)'
      <3>1. \A i \in 1 .. m : i \in DOMAIN new
        BY <2>3
      <3> QED
        BY <2>3, <2>4, <3>1 DEF Listed
    <2>7. uws_state \notin Emptied
      BY <2>2 DEF Emptied, Opening
    <2> QED
      BY <1>2, <1>5, <1>6, <1>7, <1>8, <2>1, <2>5, <2>6, <2>7, SettleHand
  <1> QED
    BY <1>9, <1>10

LEMMA SettleSent ==
    ASSUME SettleInv, TypeOK, Place(stack), frame_sent, UNCHANGED userVars
    PROVE  SettleInv'
  <1>1. stack \in Seq(Frame) /\ stack # <<>> /\ Top.at = "uws" /\ Top.fn = "frame_sent"
        /\ pending_sends \in Seq(Nat) /\ Return(Top.ret)
    BY DEF TypeOK, UwsTypeOK, frame_sent, Running, Top
  <1>2. /\ sends' = sends /\ completions' = completions /\ refused' = refused /\ alive' = alive
        /\ uws_state' = uws_state /\ faults' = faults
    BY DEF frame_sent, userVars
  <1>3. PICK x : x = Top.n
    OBVIOUS
  <1>4. \A i : i # x => ~InHand(i)
    BY <1>3 DEF InHand
  <1>5. Role(Top) = "none" /\ ~Is(Top, "uws", "uws_client_destroy")
    BY <1>1, Roles DEF Is
  <1>6. Has(stack, "clearing") => Has(stack', "clearing")
    <2>1. Moved
      BY UwsMoves DEF UwsNext
    <2> QED
      BY <1>1, <1>5, <2>1, MovedKeeps
  <1>7. CASE Top.ret = 0
    <2>1. pending_sends' = pending_sends
      BY <1>7 DEF frame_sent
    <2>2. ~InHand(x)
      BY <1>1, <1>7 DEF InHand, Is
    <2>3. \A i : Listed(i) => Listed(i)'
      BY <2>1 DEF Listed
    <2> QED
      BY <1>2, <1>4, <1>5, <1>6, <2>1, <2>2, <2>3, SettleHand
  <1>8. CASE Top.ret # 0
    <2>1. pending_sends' = Without(x)
      BY <1>3, <1>8 DEF frame_sent
    <2>2. Sending(stack)
      BY <1>1, <1>8, RunsInPlace
    <2>3. Top = Head(stack) /\ Beneath = Tail(stack)
      BY DEF Top, Beneath
    <2>4. Beneath # <<>> /\ Is(Head(Beneath), "user", "returned") /\ Head(Beneath).arg = "send"
          /\ Head(Beneath).n = x
      BY <1>1, <1>3, <2>2, <2>3 DEF Sending, Is
    <2> DEFINE g == Given(Head(Beneath), Top.ret)
    <2>5. stack' # <<>> /\ Head(stack') = g /\ Head(Beneath) \in Frame
      BY <1>1, <2>4, ReturnTop DEF Stack1, OnTop
    <2>6. Is(g, "user", "returned") /\ g.arg = "send" /\ g.n = x /\ g.ret # 0
      BY <1>8, <2>4, <2>5, GivenParts DEF Is
    <2> HIDE DEF g
    <2>7. InHand(x)'
      BY <2>5, <2>6 DEF InHand, Top
    <2>8. \A i : i # x /\ Listed(i) => Listed(i)'
      BY <1>1, <2>1, WithoutKeeps DEF Listed
    <2>9. pending_sends = <<>> => pending_sends' = <<>>
      BY <2>1 DEF Without, Listed
    <2> QED
      BY <1>2, <1>4, <1>5, <1>6, <2>7, <2>8, <2>9, SettleHand
  <1> QED
    BY <1>7, <1>8

LEMMA SettleComplete ==
    ASSUME SettleInv, TypeOK, on_underlying_io_send_complete, UNCHANGED userVars
    PROVE  SettleInv'
  <1>1. stack \in Seq(Frame) /\ stack # <<>> /\ Top.at = "uws" /\ Top.fn = "on_underlying_io_send_complete"
        /\ pending_sends \in Seq(Nat)
    BY DEF TypeOK, UwsTypeOK, on_underlying_io_send_complete, Running, Top
  <1>2. /\ sends' = sends /\ completions' = completions /\ refused' = refused /\ alive' = alive
        /\ uws_state' = uws_state /\ faults' = faults
    BY DEF on_underlying_io_send_complete, userVars
  <1>3. PICK x : x = Top.n
    OBVIOUS
  <1> DEFINE report == User("on_ws_send_frame_complete", Top.arg, x, <<>>)
  <1>4. /\ Listed(x) /\ pending_sends' = Without(x) /\ Goto(<<report>>)
        /\ Is(report, "user", "on_ws_send_frame_complete") /\ report.n = x
    BY <1>3 DEF on_underlying_io_send_complete, User, MkFrame, Is
  <1>5. Role(Top) = "none" /\ ~Is(Top, "uws", "uws_client_destroy") /\ \A i : ~InHand(i)
    BY <1>1, Roles DEF Is, InHand
  <1> HIDE DEF report
  <1>6. stack' # <<>> /\ Head(stack') = report
    BY <1>1, <1>4, Goto1 DEF Stack1, OnTop
  <1>7. Has(stack, "clearing") => Has(stack', "clearing")
    <2>1. Moved
      BY <1>4 DEF Moved
    <2> QED
      BY <1>1, <1>5, <2>1, MovedKeeps
  <1>8. InHand(x)'
    BY <1>4, <1>6 DEF InHand, Top
  <1>9. \A i : i # x /\ Listed(i) => Listed(i)'
    <2> SUFFICES ASSUME NEW i, i # x, Listed(i) PROVE Listed(i)'
      OBVIOUS
    <2>1. \E j \in DOMAIN Without(x) : Without(x)[j] = i
      BY <1>1, WithoutKeeps
    <2>2. pending_sends' = Without(x)
      BY <1>4
    <2> QED
      BY <2>1, <2>2 DEF Listed
  <1>10. pending_sends # <<>>
    BY <1>1, <1>4 DEF Listed
  <1> QED
    BY <1>2, <1>5, <1>7, <1>8, <1>9, <1>10, SettleHand

LEMMA SettleClear ==
    ASSUME SettleInv, TypeOK, clear_pending_sends, UNCHANGED userVars
    PROVE  SettleInv'
  <1>1. stack \in Seq(Frame) /\ stack # <<>> /\ Top.at = "uws" /\ Top.fn = "clear_pending_sends"
        /\ pending_sends \in Seq(Nat)
    BY DEF TypeOK, UwsTypeOK, clear_pending_sends, Running, Top
  <1>2. /\ sends' = sends /\ completions' = completions /\ refused' = refused /\ alive' = alive
        /\ uws_state' = uws_state /\ faults' = faults
    BY DEF clear_pending_sends, userVars
  <1>3. ~Is(Top, "uws", "uws_client_destroy") /\ \A i : ~InHand(i)
    BY <1>1 DEF Is, InHand
  <1>4. CASE pending_sends = <<>>
    <2>1. pending_sends' = pending_sends
      BY <1>4 DEF clear_pending_sends
    <2>2. \A i : Listed(i) => Listed(i)'
      BY <2>1 DEF Listed
    <2> QED
      BY <1>2, <1>3, <1>4, <2>1, <2>2, SettleHand
  <1>5. CASE pending_sends # <<>>
    <2>1. PICK x : x = Head(pending_sends)
      OBVIOUS
    <2> DEFINE report == User("on_ws_send_frame_complete", "CANCELLED", x, <<>>)
               more == Uws("clear_pending_sends")
    <2>2. /\ pending_sends' = Tail(pending_sends) /\ Goto(<<report, more>>)
          /\ Is(report, "user", "on_ws_send_frame_complete") /\ report.n = x /\ Role(more) = "clearing"
      BY <1>5, <2>1 DEF clear_pending_sends, User, Uws, MkFrame, Is, Role
    <2> HIDE DEF report, more
    <2>3. stack' # <<>> /\ Head(stack') = report /\ Has(stack', "clearing")
      BY <1>1, <2>2, Goto2 DEF Stack2, OnTop
    <2>4. InHand(x)'
      BY <2>2, <2>3 DEF InHand, Top
    <2>5. \A i : i # x /\ Listed(i) => Listed(i)'
      <3> SUFFICES ASSUME NEW i, i # x, Listed(i) PROVE Listed(i)'
        OBVIOUS
      <3>1. PICK j \in DOMAIN pending_sends : pending_sends[j] = i
        BY DEF Listed
      <3>2. Len(pending_sends) \in Nat /\ j \in 1 .. Len(pending_sends) /\ j # 1
        BY <1>1, <1>5, <2>1, <3>1
      <3> DEFINE t == Tail(pending_sends)
      <3>3. DOMAIN t = 1 .. Len(pending_sends) - 1 /\ t[j - 1] = pending_sends[j]
        BY <1>1, <1>5, <3>2
      <3>4. j - 1 \in DOMAIN t
        BY <3>2, <3>3
      <3>5. pending_sends' = t
        BY <2>2
      <3> HIDE DEF t
      <3> QED
        BY <3>1, <3>3, <3>4, <3>5 DEF Listed
    <2> QED
      BY <1>2, <1>3, <1>5, <2>3, <2>4, <2>5, SettleHand
  <1> QED
    BY <1>4, <1>5

LEMMA SettleUws ==
    ASSUME SettleInv, TypeOK, Place(stack), UwsNext, UNCHANGED <<sockVars, tlsVars, userVars>>
    PROVE  SettleInv'
  <1>1. CASE on_underlying_io_send_complete_freed
    BY <1>1 DEF on_underlying_io_send_complete_freed, SettleInv
  <1>2. UNCHANGED userVars
    OBVIOUS
  <1> QED
    BY <1>1, <1>2, SettleUwsQuiet, SettleSend, SettleSent, SettleComplete, SettleClear

LEMMA SettleUserStep ==
    ASSUME SettleInv, TypeOK, UserSteps, UNCHANGED <<sockVars, tlsVars, uwsVars>>
    PROVE  SettleInv'
  <1>1. UNCHANGED <<pending_sends, uws_state, faults>>
    BY DEF uwsVars
  <1>2. stack \in Seq(Frame) /\ refused \subseteq Nat /\ completions \in [SendIds -> Nat]
    BY DEF TypeOK
  <1>3. /\ stack # <<>> /\ Top.at = "user"
        /\ sends' = sends /\ alive' = alive
        /\ ~Returned => refused' = refused
        /\ ~OnSendComplete => completions' = completions
        /\ ~Returned /\ ~OnSendComplete => Top.fn \notin {"returned", "on_ws_send_frame_complete"}
        /\ Top.fn \in UwsCallbacks \cup UserFunctions
    BY DEF UserSteps, Returned, OnOpenComplete, OnFrameReceived, OnSendComplete, OnError, OnPeerClosed,
       OnCloseComplete, CallbackReturns, userVars, Running, Top, UwsCallbacks, UserFunctions
  <1>4. Role(Top) # "clearing" /\ ~Is(Top, "uws", "uws_client_destroy")
    BY <1>3 DEF Role, Is
  <1>5. Has(stack, "clearing") => Has(stack', "clearing")
    BY <1>2, <1>3, <1>4, UserMoves, MovedKeeps
  <1>6. CASE ~Returned /\ ~OnSendComplete
    <2>1. ~Carrying
      BY <1>3, <1>6 DEF Carrying, Is, UwsCallbacks, UserFunctions
    <2> QED
      BY <1>1, <1>3, <1>4, <1>5, <1>6, <2>1, SettleStep
  <1>7. PICK x : x = Top.n
    OBVIOUS
  <1>8. (\A i : i # x => ~InHand(i)) /\ \A i : Listed(i) => Listed(i)'
    BY <1>1, <1>7 DEF InHand, Listed
  <1>9. CASE Returned
    <2>1. completions' = completions
      BY <1>9 DEF Returned
    <2>2. refused' = IF Top.arg = "send" /\ Top.ret # 0 THEN refused \cup {x} ELSE refused
      BY <1>7, <1>9 DEF Returned
    <2>3. InHand(x) => x \in refused'
      BY <1>7, <1>9, <2>2 DEF InHand, Returned, Is, Running, Top
    <2>4. \A i \in refused : i \in refused'
      BY <2>2
    <2> QED
      BY <1>1, <1>3, <1>4, <1>5, <1>8, <2>1, <2>3, <2>4, SettleHand
  <1>10. CASE OnSendComplete
    <2>1. completions' = [completions EXCEPT ![x] = @ + 1] /\ refused' = refused
      BY <1>7, <1>10 DEF OnSendComplete
    <2>2. \A i \in 1 .. sends : i \in SendIds
      <3>1. sends \in 0 .. MaxSends /\ MaxSends \in Nat
        BY BoundsAssumption DEF TypeOK
      <3> QED
        BY <3>1 DEF SendIds
    <2>3. \A i \in 1 .. sends : completions[i] > 0 => completions'[i] > 0
      BY <1>2, <2>1, <2>2
    <2>4. x \notin 1 .. sends \/ completions'[x] > 0
      BY <1>2, <2>1, <2>2
    <2> QED
      BY <1>1, <1>3, <1>4, <1>5, <1>8, <2>1, <2>3, <2>4, SettleHand
  <1> QED
    BY <1>6, <1>9, <1>10

\* the frame on which a call is made waits beneath it
LEMMA CallKeeps ==
    ASSUME stack \in Seq(Frame), stack = <<>> \/ Running("user", "in_callback"),
           NEW f, NEW a, NEW c, NEW n, Call(f, a, c, n)
    PROVE  /\ stack' # <<>> /\ Head(stack') = MkFrame("uws", f, a, n, <<>>)
           /\ \A role \in {"clearing", "telling"} : Has(stack, role) => Has(stack', role)
  <1> DEFINE m == MkFrame("uws", f, a, n, <<>>)
             r == MkFrame("user", "returned", c, n, <<>>)
             t == IF stack = <<>> THEN <<>> ELSE <<[Top EXCEPT !.n = @ + 1]>> \o Tail(stack)
  <1>1. stack' = <<m, r>> \o t
    BY DEF Call
  <1>2. /\ \E S : t \in Seq(S)
        /\ \A role \in {"clearing", "telling"} : Has(stack, role) => Has(t, role)
    <2>1. CASE stack = <<>>
      <3>1. t = <<>>
        BY <2>1
      <3> HIDE DEF t
      <3>2. t \in Seq({})
        BY <3>1
      <3> QED
        BY <2>1, <3>1, <3>2
    <2>2. CASE stack # <<>>
      <3>1. Role(Top) = "none"
        BY <2>2, Roles DEF Running, Top
      <3> DEFINE g == [Top EXCEPT !.n = @ + 1]
      <3>2. OnTop(stack, Top, Beneath) /\ Beneath \in Seq(Frame)
        BY <2>2, RunningTop
      <3>3. t = <<g>> \o Beneath
        BY <2>2 DEF Beneath
      <3> HIDE DEF g, t
      <3>4. OnTop(t, g, Beneath) /\ t \in Seq(Frame \cup {g})
        BY <3>2, <3>3, ConsOnTop
      <3> QED
        BY <3>1, <3>2, <3>4 DEF OnTop
    <2> QED
      BY <2>1, <2>2
  <1> HIDE DEF m, r, t
  <1>3. PICK S : t \in Seq(S)
    BY <1>2
  <1>4. OnTop(stack', m, Tail(stack')) /\ OnTop(Tail(stack'), r, t)
    BY <1>1, <1>3, StackTwo DEF Stack2
  <1> QED
    BY <1>2, <1>4 DEF OnTop, m

LEMMA SettleUserCall ==
    ASSUME SocketClient, SettleInv, TypeOK, UserCalls, UNCHANGED <<sockVars, tlsVars, uwsVars>>
    PROVE  SettleInv'
  <1>1. UNCHANGED <<pending_sends, uws_state, faults, refused, completions>>
    BY DEF uwsVars, userVars, UserCalls, CallOpen, CallClose, CallCloseNull, CallSend, CallDowork, CallDestroy
  <1>2. stack \in Seq(Frame) /\ sends \in Nat
    <2>1. sends \in 0 .. MaxSends /\ MaxSends \in Nat
      BY BoundsAssumption DEF TypeOK
    <2> QED
      BY <2>1 DEF TypeOK
  <1>3. ASSUME NEW c, MayCall(c)
        PROVE  /\ alive
               /\ stack = <<>> \/ Running("user", "in_callback")
               /\ c \in {"dowork", "destroy"} => stack = <<>>
    BY <1>3, BoundsAssumption DEF MayCall
  <1>4. alive /\ (stack = <<>> \/ Running("user", "in_callback"))
    BY <1>3 DEF UserCalls, CallOpen, CallClose, CallCloseNull, CallSend, CallDowork, CallDestroy
  <1>5. \A i : ~InHand(i)
    BY <1>4 DEF InHand, Is, Running, Top
  <1>6. \A i : Listed(i) => Listed(i)'
    BY <1>1 DEF Listed
  <1>7. faults = {} => \A i \in 1 .. sends : completions[i] > 0 \/ i \in refused \/ Listed(i)
    BY <1>5 DEF SettleInv
  <1>8. ASSUME alive' = alive, Has(stack, "clearing") => Has(stack', "clearing"),
               sends' = sends \/ (sends' = sends + 1 /\ InHand(sends)')
        PROVE  SettleInv'
    <2>1. faults' = {} =>
            \A i \in 1 .. sends' : completions'[i] > 0 \/ i \in refused' \/ Listed(i)' \/ InHand(i)'
      <3> SUFFICES ASSUME faults = {}, NEW i \in 1 .. sends'
                   PROVE  completions'[i] > 0 \/ i \in refused' \/ Listed(i)' \/ InHand(i)'
        BY <1>1
      <3>1. CASE i \in 1 .. sends
        BY <1>1, <1>6, <1>7, <3>1
      <3>2. CASE i \notin 1 .. sends
        <4>1. sends' = sends + 1 /\ i = sends' /\ InHand(sends)'
          BY <1>2, <1>8, <3>2
        <4> QED
          BY <4>1 DEF InHand, Is, Top
      <3> QED
        BY <3>1, <3>2
    <2> QED
      BY <1>1, <1>4, <1>8, <2>1 DEF SettleInv
  <1>9. CASE CallOpen \/ CallClose \/ CallCloseNull
    <2>1. sends' = sends /\ alive' = alive
      BY <1>9 DEF CallOpen, CallClose, CallCloseNull
    <2>2. \E f, a, c, n : Call(f, a, c, n)
      <3>1. CASE CallOpen
        BY <3>1 DEF CallOpen
      <3>2. CASE CallClose
        BY <3>2 DEF CallClose
      <3>3. CASE CallCloseNull
        BY <3>3 DEF CallCloseNull
      <3> QED
        BY <1>9, <3>1, <3>2, <3>3
    <2>3. Has(stack, "clearing") => Has(stack', "clearing")
      BY <1>2, <1>4, <2>2, CallKeeps
    <2> QED
      BY <1>8, <2>1, <2>3
  <1>10. CASE CallSend
    <2>1. sends' = sends + 1 /\ alive' = alive
      BY <1>10 DEF CallSend
    <2>2. PICK n : n = sends + 1 /\ Call("uws_client_send_frame_async", "", "send", n)
      BY <1>10 DEF CallSend
    <2> DEFINE m == MkFrame("uws", "uws_client_send_frame_async", "", n, <<>>)
    <2>3. stack' # <<>> /\ Head(stack') = m /\ (Has(stack, "clearing") => Has(stack', "clearing"))
      BY <1>2, <1>4, <2>2, CallKeeps
    <2>4. Is(m, "uws", "uws_client_send_frame_async") /\ m.n = n
      BY DEF MkFrame, Is
    <2> HIDE DEF m
    <2>5. InHand(sends)'
      BY <2>1, <2>2, <2>3, <2>4 DEF InHand, Top
    <2> QED
      BY <1>8, <2>1, <2>2, <2>3, <2>5
  <1>11. CASE CallDowork
    <2>1. sends' = sends /\ alive' = alive /\ stack = <<>>
      BY <1>3, <1>11 DEF CallDowork, userVars
    <2> QED
      BY <1>8, <2>1, NothingWaits
  <1>12. CASE CallDestroy
    <2>1. sends' = sends /\ stack = <<>> /\ stack' = <<MkFrame("uws", "uws_client_destroy", "", 0, <<>>)>>
      BY <1>3, <1>12 DEF CallDestroy
    <2>2. stack' # <<>> /\ Is(Top, "uws", "uws_client_destroy")'
      <3> DEFINE m == MkFrame("uws", "uws_client_destroy", "", 0, <<>>)
      <3>1. Is(m, "uws", "uws_client_destroy")
        BY DEF MkFrame, Is
      <3>2. stack' = <<m>>
        BY <2>1
      <3> HIDE DEF m
      <3> QED
        BY <3>1, <3>2 DEF Top, Is
    <2>3. faults' = {} => \A i \in 1 .. sends' : completions'[i] > 0 \/ i \in refused' \/ Listed(i)'
      BY <1>1, <1>6, <1>7, <2>1
    <2>4. faults' = {} => (uws_state' \in Opening \cup {"CLOSED"} => pending_sends' = <<>>)
      BY <1>1, <2>1, NothingWaits DEF SettleInv
    <2> QED
      BY <2>2, <2>3, <2>4 DEF SettleInv
  <1> QED
    BY <1>9, <1>10, <1>11, <1>12 DEF UserCalls

LEMMA NextSettle ==
    ASSUME SocketClient
    PROVE  TypeOK /\ SessionInv /\ SettleInv /\ [Next]_vars => SettleInv'
  <1> SUFFICES ASSUME TypeOK, Place(stack), SettleInv, [Next]_vars
               PROVE  SettleInv'
    BY DEF SessionInv
  <1>1. CASE UNCHANGED vars
    <2>1. UNCHANGED <<stack, sockVars, tlsVars, uwsVars, userVars>>
      BY <1>1 DEF vars
    <2> QED
      BY <2>1 DEF uwsVars, userVars, SettleInv, Listed, InHand, Top
  <1> QED
    BY <1>1, SettleUserCall, SettleSock, SettleUws, SettleUserStep, SettleReturn, NoTls DEF Next, Step

(***************************************************************************)
(* Over a socket every send that uws_client_send_frame_async accepted has  *)
(* been reported to on_ws_send_frame_complete, once, when the client is    *)
(* closed or destroyed, whichever of the many ways there was taken; those  *)
(* it refused never are.  As long as no freed list item is used, and no    *)
(* callback opens the connection again (uws_client.c, clear_pending_sends, *)
(* on_underlying_io_send_complete and uws_client_destroy).                 *)
(***************************************************************************)
THEOREM SendsAllSettled ==
    ASSUME SocketClient
    PROVE  Spec => []SendsSettled
  <1>1. Init => SettleInv
    BY NothingWaits DEF Init, UwsInit, SettleInv, Listed
  <1>2. SendsCompleteOnce /\ TypeOK /\ SettleInv => SendsSettled
    <2> SUFFICES ASSUME SendsCompleteOnce, TypeOK, SettleInv, stack = <<>>, uws_state = "CLOSED" \/ ~alive, faults = {}
                 PROVE  /\ pending_sends = <<>>
                        /\ \A i \in 1 .. sends : completions[i] = (IF i \in refused THEN 0 ELSE 1)
      BY DEF SendsSettled
    <2>1. pending_sends = <<>>
      BY NothingWaits DEF SettleInv
    <2>2. ASSUME NEW i \in 1 .. sends
          PROVE  completions[i] = (IF i \in refused THEN 0 ELSE 1)
      <3>1. completions[i] > 0 \/ i \in refused
        BY <2>1 DEF SettleInv, Listed, InHand
      <3>2. i \in SendIds /\ completions[i] \in Nat
        <4>1. sends \in 0 .. MaxSends /\ MaxSends \in Nat
          BY BoundsAssumption DEF TypeOK
        <4> QED
          BY <4>1 DEF TypeOK, SendIds
      <3>3. completions[i] <= (IF i \in refused THEN 0 ELSE 1)
        BY <3>2 DEF SendsCompleteOnce
      <3> QED
        BY <3>1, <3>2, <3>3
    <2> QED
      BY <2>1, <2>2
  <1> QED
    BY <1>1, <1>2, SendsOnce, NextSettle, SessionCorrect, PTL DEF Spec

-----------------------------------------------------------------------------
(* Closes: what a step that says nothing of them does to the stack.         *)

\* frames that neither report a close nor take one, in any state
Ordinary(f) ==
    /\ Role(f) \in {"none", "settling", "clearing"}
    /\ f.at = "uws" => f.fn \notin CloseCalls \cup Changing

\* the first frame of those that a step puts on the stack
Fits(f) ==
    Ordinary(f) \/ (f.at = "uws" /\ f.fn \in Changing /\ uws_state' # "CLOSED")

PlainMove ==
    \/ Pop \/ Goto(<<>>)
    \/ \E v : /\ Return(v)
              /\ \/ v = 0 \/ Beneath = <<>>
                 \/ ~Is(Head(Beneath), "user", "returned") \/ Head(Beneath).arg # "close_null"
    \/ \E a : Goto(<<a>>) /\ Fits(a)
    \/ \E a, b : Goto(<<a, b>>) /\ Fits(a) /\ Ordinary(b)
    \/ \E a, b, c : Goto(<<a, b, c>>) /\ Fits(a) /\ Ordinary(b) /\ Ordinary(c)
    \/ \E a, b, c, d : Goto(<<a, b, c, d>>) /\ Fits(a) /\ Ordinary(b) /\ Ordinary(c) /\ Ordinary(d)

LEMMA OrdinaryFrame ==
    ASSUME NEW l, NEW f, NEW x, NEW n, NEW d,
           f \notin {"decode_frame", "call_on_ws_close_complete", "on_ws_close_complete", "returned"},
           f \notin CloseCalls \cup Changing
    PROVE  Ordinary(MkFrame(l, f, x, n, d))
  <1> DEFINE m == MkFrame(l, f, x, n, d)
  <1>1. m.fn = f
    BY DEF MkFrame
  <1> HIDE DEF m
  <1>2. Role(m) \in {"none", "settling", "clearing"}
    BY <1>1 DEF Role, Is
  <1> QED
    BY <1>1, <1>2 DEF Ordinary, m

LEMMA OrdinaryFrames ==
    /\ \A l, cb : Ordinary(xio_close(l, cb))
    /\ \A l, cb, n : Ordinary(xio_send(l, cb, n))
    /\ \A l : Ordinary(xio_open(l)) /\ Ordinary(xio_dowork(l)) /\ Ordinary(xio_destroy(l))
    /\ \A l, x : Ordinary(on_io_open_complete(l, x)) /\ Ordinary(on_bytes_received(l, x))
    /\ \A l : Ordinary(on_io_error(l)) /\ Ordinary(on_io_close_complete(l))
    /\ Ordinary(dowork_sending) /\ Ordinary(dowork_sent) /\ Ordinary(dowork_receiving)
    /\ \A cb \in SendCallbacks : \A x, n : Ordinary(MkFrame("uws", cb, x, n, <<>>))
  <1>1. \A l, cb : Ordinary(xio_close(l, cb))
    BY OrdinaryFrame DEF xio_close, CloseCalls, Changing
  <1>2. \A l, cb, n : Ordinary(xio_send(l, cb, n))
    BY OrdinaryFrame DEF xio_send, CloseCalls, Changing
  <1>3. \A l : Ordinary(xio_open(l)) /\ Ordinary(xio_dowork(l)) /\ Ordinary(xio_destroy(l))
    BY OrdinaryFrame DEF xio_open, xio_dowork, xio_destroy, CloseCalls, Changing
  <1>4. \A l, x : Ordinary(on_io_open_complete(l, x)) /\ Ordinary(on_bytes_received(l, x))
    BY OrdinaryFrame DEF on_io_open_complete, on_bytes_received, CloseCalls, Changing
  <1>5. \A l : Ordinary(on_io_error(l)) /\ Ordinary(on_io_close_complete(l))
    BY OrdinaryFrame DEF on_io_error, on_io_close_complete, CloseCalls, Changing
  <1>6. Ordinary(dowork_sending) /\ Ordinary(dowork_sent) /\ Ordinary(dowork_receiving)
    BY OrdinaryFrame DEF dowork_sending, dowork_sent, dowork_receiving, CloseCalls, Changing
  <1>7. \A cb \in SendCallbacks : \A x, n : Ordinary(MkFrame("uws", cb, x, n, <<>>))
    BY OrdinaryFrame DEF SendCallbacks, CloseCalls, Changing
  <1> QED
    BY <1>1, <1>2, <1>3, <1>4, <1>5, <1>6, <1>7

LEMMA OrdinaryReturn ==
    ASSUME NEW l, NEW v
    PROVE  Ordinary(ReturnFrame(l, v))
  <1> DEFINE m == ReturnFrame(l, v)
  <1>1. m.fn = "return"
    BY MadeReturn
  <1> HIDE DEF m
  <1>2. Role(m) = "none"
    BY <1>1, Roles
  <1> QED
    BY <1>1, <1>2 DEF Ordinary, CloseCalls, Changing, m

LEMMA OrdinaryUws ==
    /\ \A f : \/ f \in CloseCalls \cup Changing
             \/ f \in {"call_on_ws_close_complete", "on_ws_close_complete", "returned"}
             \/ Ordinary(Uws(f))
    /\ \A n, x : Ordinary(consume(n, x))
    /\ \A n : Ordinary(MkFrame("uws", "frame_sent", "", n, <<>>))
    /\ \A f \in UwsCallbacks \ {"on_ws_close_complete"} : \A x, n, d : Ordinary(User(f, x, n, d))
    /\ Ordinary(MkFrame("user", "in_callback", "", 0, <<>>))
  <1>1. \A f : \/ f \in CloseCalls \cup Changing
              \/ f \in {"call_on_ws_close_complete", "on_ws_close_complete", "returned"}
              \/ Ordinary(Uws(f))
    BY OrdinaryFrame DEF Uws, Changing
  <1>2. \A n, x : Ordinary(consume(n, x))
    BY OrdinaryFrame DEF consume, CloseCalls, Changing
  <1>3. \A n : Ordinary(MkFrame("uws", "frame_sent", "", n, <<>>))
    BY OrdinaryFrame DEF CloseCalls, Changing
  <1>4. \A f \in UwsCallbacks \ {"on_ws_close_complete"} : \A x, n, d : Ordinary(User(f, x, n, d))
    BY OrdinaryFrame DEF User, UwsCallbacks, CloseCalls, Changing
  <1>5. Ordinary(MkFrame("user", "in_callback", "", 0, <<>>))
    BY OrdinaryFrame DEF CloseCalls, Changing
  <1> QED
    BY <1>1, <1>2, <1>3, <1>4, <1>5

\* what a socket does
LEMMA PlainSock ==
    ASSUME TypeOK, Place(stack), SockNext
    PROVE  PlainMove
  <1> USE DEF Fits
  <1>1. stack # <<>> /\ stack \in Seq(Frame) /\ Top \in Frame
    BY TopType DEF TypeOK, SockNext, socketio_open_refused, socketio_open_connected, socketio_open_failed,
       socketio_close, socketio_destroy, socketio_send_sent, socketio_send_queued, socketio_send_failed,
       socketio_dowork_send_complete, socketio_dowork_remove, socketio_dowork_send_error,
       socketio_dowork_send_end, socketio_dowork_receive, socketio_dowork_receive_error,
       socketio_dowork_receive_end, Running
  <1>2. ASSUME NEW cb \in SendCallbacks, NEW n, NEW b, Ordinary(b), Goto(on_send_complete(cb, "OK", n) \o <<b>>)
        PROVE  PlainMove
    <2> DEFINE m == MkFrame("uws", cb, "OK", n, <<>>)
    <2>1. Ordinary(m)
      BY OrdinaryFrames
    <2>2. Goto(<<b>>) \/ Goto(<<m, b>>)
      BY <1>2, Completed
    <2> HIDE DEF m
    <2> QED
      BY <1>2, <2>1, <2>2 DEF PlainMove
  <1>3. CASE socketio_send_sent
    <2>1. Top.arg \in SendCallbacks
      BY <1>1, <1>3 DEF Frame, WellCalled, socketio_send_sent, Running, Top
    <2>2. Ordinary(ReturnFrame("socket", 0))
      BY OrdinaryReturn
    <2> QED
      BY <1>2, <1>3, <2>1, <2>2 DEF socketio_send_sent
  <1>4. CASE socketio_dowork_send_complete
    <2>1. Head(pending_io_list).cb \in SendCallbacks
      <3>1. pending_io_list \in Seq(PendingIo) /\ pending_io_list # <<>>
        BY <1>4 DEF socketio_dowork_send_complete, TypeOK, SockTypeOK
      <3>2. Head(pending_io_list) \in PendingIo
        BY <3>1
      <3> QED
        BY <3>2 DEF PendingIo
    <2>2. Ordinary(dowork_sent)
      BY OrdinaryFrames
    <2> QED
      BY <1>2, <1>4, <2>1, <2>2 DEF socketio_dowork_send_complete
  <1>5. CASE socketio_open_refused \/ socketio_open_connected \/ socketio_open_failed
    BY <1>5, OrdinaryFrames, OrdinaryReturn
       DEF socketio_open_refused, socketio_open_connected, socketio_open_failed, PlainMove
  <1>6. CASE socketio_close
    BY <1>6, OrdinaryFrames, OrdinaryReturn DEF socketio_close, PlainMove
  <1>7. CASE socketio_destroy \/ socketio_dowork_receive_end
    BY <1>7 DEF socketio_destroy, socketio_dowork_receive_end, PlainMove
  <1>8. CASE socketio_send_queued
    BY <1>8 DEF socketio_send_queued, PlainMove
  <1>9. CASE socketio_send_failed
    <2>1. Top.fn = "send" /\ Return(1)
      BY <1>9 DEF socketio_send_failed, Running, Top
    <2>2. Top = Head(stack) /\ Beneath = Tail(stack)
      BY DEF Top, Beneath
    <2>3. ~Is(Head(Beneath), "user", "returned") \/ Head(Beneath).arg # "close_null"
      BY <1>1, <2>1, <2>2, RunsInPlace DEF Sending, OpensSending, Careless, Is
    <2> QED
      BY <2>1, <2>3 DEF PlainMove
  <1>10. CASE socketio_dowork_remove \/ socketio_dowork_send_error \/ socketio_dowork_send_end
    BY <1>10, OrdinaryFrames DEF socketio_dowork_remove, socketio_dowork_send_error, socketio_dowork_send_end, PlainMove
  <1>11. CASE socketio_dowork_receive \/ socketio_dowork_receive_error
    BY <1>11, OrdinaryFrames DEF socketio_dowork_receive, socketio_dowork_receive_error, PlainMove
  <1> QED
    BY <1>3, <1>4, <1>5, <1>6, <1>7, <1>8, <1>9, <1>10, <1>11 DEF SockNext

LEMMA PlainReturn ==
    ASSUME TypeOK, Place(stack), ReturnStep
    PROVE  PlainMove
  <1>1. stack # <<>> /\ stack \in Seq(Frame) /\ Top.fn = "return" /\ Return(Top.ret)
    BY DEF TypeOK, ReturnStep
  <1>2. Top.ret = 0
    BY <1>1, RunsInPlace
  <1> QED
    BY <1>1, <1>2 DEF PlainMove

LEMMA PlainUser ==
    ASSUME UserSteps
    PROVE  PlainMove
  <1>1. Pop \/ InCallback
    BY DEF UserSteps, Returned, OnOpenComplete, OnFrameReceived, OnSendComplete, OnError, OnPeerClosed,
       OnCloseComplete, CallbackReturns
  <1> QED
    BY <1>1, OrdinaryUws DEF InCallback, PlainMove, Fits

LEMMA UwsRuns ==
    ASSUME UwsNext
    PROVE  stack # <<>> /\ Top.at = "uws"
  <1> USE DEF Running, Top
  <1>1. CASE \/ clear_pending_sends \/ uws_client_send_frame_async \/ frame_sent
             \/ on_underlying_io_send_complete \/ on_underlying_io_send_complete_freed
    BY <1>1 DEF clear_pending_sends, uws_client_send_frame_async, frame_sent,
       on_underlying_io_send_complete, on_underlying_io_send_complete_freed
  <1> QED
    BY <1>1, UwsQuiet

\* what the client does, but for the steps that are about a close
LEMMA PlainUws ==
    ASSUME TypeOK, Place(stack), UwsNext, ~decode_masked_frame,
           ~indicate_ws_close_complete, ~call_on_ws_close_complete,
           ~uws_client_close_async, ~uws_client_close_handshake_async, ~uws_client_destroy,
           Top.at = "uws" /\ Top.fn \in Changing => uws_state # "CLOSED"
    PROVE  PlainMove
  <1> DEFINE Other(f) == f \notin CloseCalls \cup Changing \cup
                                 {"call_on_ws_close_complete", "on_ws_close_complete", "returned"}
  <1>0. \A f : Other(f) => Ordinary(Uws(f))
    BY OrdinaryUws
  <1>1. /\ Other("open_complete_error") /\ Other("clear_pending_sends") /\ Other("xio_open_returned")
        /\ Other("upgrade_request_sent") /\ Other("decode_stream") /\ Other("undefined")
        /\ Other("message_done") /\ Other("close_or_error") /\ Other("close_or_complete")
        /\ Other("answer_sent") /\ Other("set_closed") /\ Other("indicate_ws_close_complete")
        /\ Other("close_sent_closed") /\ Other("close_async_closed")
    BY DEF CloseCalls, Changing
  <1>2. /\ Ordinary(Uws("open_complete_error")) /\ Ordinary(Uws("clear_pending_sends"))
        /\ Ordinary(Uws("xio_open_returned")) /\ Ordinary(Uws("upgrade_request_sent"))
        /\ Ordinary(Uws("decode_stream")) /\ Ordinary(Uws("undefined"))
        /\ Ordinary(Uws("message_done")) /\ Ordinary(Uws("close_or_error"))
        /\ Ordinary(Uws("close_or_complete")) /\ Ordinary(Uws("answer_sent"))
        /\ Ordinary(Uws("set_closed")) /\ Ordinary(Uws("indicate_ws_close_complete"))
        /\ Ordinary(Uws("close_sent_closed")) /\ Ordinary(Uws("close_async_closed"))
    BY <1>0, <1>1
  <1> HIDE DEF Other
  <1>3. /\ Ordinary(xio_close("uws", "NULL")) /\ Ordinary(xio_close("uws", "close_complete"))
        /\ \A cb, n : Ordinary(xio_send("uws", cb, n))
        /\ Ordinary(xio_open("uws")) /\ Ordinary(xio_dowork("uws")) /\ Ordinary(xio_destroy("uws"))
    BY OrdinaryFrames
  <1>4. /\ \A n, x : Ordinary(consume(n, x))
        /\ \A n : Ordinary(MkFrame("uws", "frame_sent", "", n, <<>>))
        /\ \A f \in UwsCallbacks \ {"on_ws_close_complete"} : \A x, n, d : Ordinary(User(f, x, n, d))
    BY OrdinaryUws
  <1>5. /\ \A x, n, d : Ordinary(User("on_ws_open_complete", x, n, d))
        /\ \A x, n, d : Ordinary(User("on_ws_error", x, n, d))
        /\ \A x, n, d : Ordinary(User("on_ws_send_frame_complete", x, n, d))
        /\ \A x, n, d : Ordinary(User("on_ws_frame_received", x, n, d))
        /\ \A x, n, d : Ordinary(User("on_ws_peer_closed", x, n, d))
    BY <1>4 DEF UwsCallbacks
  <1>6. /\ stack # <<>> /\ stack \in Seq(Frame) /\ Top.at = "uws"
    BY UwsRuns DEF TypeOK
  <1>7. uws_state' # "CLOSED" => Fits(Uws("indicate_ws_error")) /\ Fits(Uws("indicate_ws_error_and_close"))
    <2>1. /\ Uws("indicate_ws_error").at = "uws" /\ Uws("indicate_ws_error").fn = "indicate_ws_error"
          /\ Uws("indicate_ws_error_and_close").at = "uws"
          /\ Uws("indicate_ws_error_and_close").fn = "indicate_ws_error_and_close"
      BY DEF Uws, MkFrame
    <2> QED
      BY <2>1 DEF Fits, Changing
  <1>8. \A a : Ordinary(a) => Fits(a)
    BY DEF Fits
  <1>37. ASSUME NEW a, Goto(<<a>>), Ordinary(a) PROVE PlainMove
    BY <1>8, <1>37 DEF PlainMove
  <1>38. ASSUME NEW a, NEW b, Goto(<<a, b>>), Ordinary(a), Ordinary(b) PROVE PlainMove
    BY <1>8, <1>38 DEF PlainMove
  <1>39. ASSUME NEW a, NEW b, NEW c, Goto(<<a, b, c>>), Ordinary(a), Ordinary(b), Ordinary(c) PROVE PlainMove
    BY <1>8, <1>39 DEF PlainMove
  <1>40. Pop \/ Goto(<<>>) => PlainMove
    BY DEF PlainMove
  <1>9. Shut => PlainMove
    BY <1>2, <1>3, <1>38 DEF Shut, open_complete_error_and_close
  <1>10. ASSUME NEW x, Reject(x), Top.fn = "frame" PROVE PlainMove
    <2>1. uws_state' # "CLOSED"
      BY <1>6, <1>10 DEF Reject, Changing, uwsVars
    <2>2. Goto(<<Uws("indicate_ws_error"), Consume(x)>>)
      BY <1>10 DEF Reject
    <2>3. Ordinary(Consume(x))
      BY <1>4 DEF Consume
    <2> QED
      BY <1>7, <2>1, <2>2, <2>3 DEF PlainMove
  <1>11. CASE indicate_ws_open_complete_error \/ indicate_ws_error \/ clear_pending_sends \/ set_closed
    BY <1>2, <1>5, <1>11, <1>37, <1>38, <1>40 DEF indicate_ws_open_complete_error, indicate_ws_error, clear_pending_sends, set_closed
  <1>12. CASE indicate_ws_error_and_close
    <2> DEFINE send == xio_send("uws", "unchecked_on_send_complete", 0)
               report == User("on_ws_error", "", 0, <<>>)
    <2>1. Goto(<<send>> \o <<report>>) \/ Goto(<<>> \o <<report>>)
      BY <1>12 DEF indicate_ws_error_and_close
    <2>2. Ordinary(send) /\ Ordinary(report)
      BY <1>3, <1>5
    <2> HIDE DEF send, report
    <2>3. <<send>> \o <<report>> = <<send, report>> /\ <<>> \o <<report>> = <<report>>
      BY ONLY ConcatTuples
    <2> QED
      BY <1>8, <2>1, <2>2, <2>3 DEF PlainMove
  <1>13. CASE uws_client_open_async
    <2>1. CASE Return(1)
      <3>1. Called(stack)
        BY <1>6, <1>13, RunsInPlace DEF uws_client_open_async, Running, Top, Api
      <3>2. Top.fn = "uws_client_open_async" /\ Top = Head(stack) /\ Beneath = Tail(stack)
        BY <1>13 DEF uws_client_open_async, Running, Top, Beneath
      <3>3. Beneath # <<>> /\ Head(Beneath).arg = "open"
        BY <3>1, <3>2 DEF Called
      <3> QED
        BY <2>1, <3>3 DEF PlainMove
    <2>2. CASE Goto(<<xio_open("uws"), Uws("xio_open_returned")>>)
      BY <1>2, <1>3, <1>38, <2>2
    <2> QED
      BY <1>13, <2>1, <2>2 DEF uws_client_open_async
  <1>14. CASE xio_open_returned
    <2>1. Return(Top.ret) /\ Top.fn = "xio_open_returned"
      BY <1>14 DEF xio_open_returned, Running, Top
    <2>2. Top.ret = 0
      BY <1>6, <2>1, EmptiedFrom
    <2> QED
      BY <2>1, <2>2 DEF PlainMove
  <1>15. CASE on_underlying_io_open_complete \/ upgrade_request_sent
    <2>1. \/ Shut \/ Pop \/ Goto(<<Uws("open_complete_error")>>)
          \/ Goto(<<xio_send("uws", "unchecked_on_send_complete", 0), Uws("upgrade_request_sent")>>)
      BY <1>15 DEF on_underlying_io_open_complete, upgrade_request_sent
    <2> QED
      BY <1>2, <1>3, <1>9, <1>37, <1>38, <1>40, <2>1
  <1>16. CASE on_underlying_io_bytes_received \/ decode_nothing \/ decode_while_opening
    BY <1>2, <1>7, <1>8, <1>9, <1>16
       DEF on_underlying_io_bytes_received, decode_nothing, decode_while_opening, Decoding, PlainMove
  <1>17. CASE decode_upgrade_response
    BY <1>2, <1>5, <1>9, <1>17, <1>38, <1>40 DEF decode_upgrade_response
  <1>18. CASE decode_unmasked_frame
    <2>1. CASE Pop
      BY <2>1 DEF PlainMove
    <2>2. CASE \E h : Goto(<<MkFrame("uws", "decode_frame", "", 0, <<h>>)>>)
      <3>1. PICK h : Goto(<<MkFrame("uws", "decode_frame", "", 0, <<h>>)>>)
        BY <2>2
      <3> DEFINE m == MkFrame("uws", "decode_frame", "", 0, <<h>>)
      <3>2. Fits(m)
        BY <1>18 DEF MkFrame, Fits, Changing, decode_unmasked_frame, Decoding, uwsVars
      <3> HIDE DEF m
      <3>3. Goto(<<m>>)
        BY <3>1 DEF m
      <3> QED
        BY <3>2, <3>3 DEF PlainMove
    <2> QED
      BY <1>18, <2>1, <2>2 DEF decode_unmasked_frame
  <1>19. CASE decode_length
    <2> DEFINE h == Head(Top.data)
               m == MkFrame("uws", "frame", opcode(h), needed_bytes(h), <<h>>)
    <2>1. uws_state' # "CLOSED"
      BY <1>6, <1>19 DEF decode_length, Changing, Running, Top, uwsVars
    <2>2. Fits(m)
      BY <2>1 DEF MkFrame, Fits, Changing
    <2>3. Goto(<<Uws("indicate_ws_error")>>) \/ Pop \/ Goto(<<m>>)
      BY <1>19 DEF decode_length
    <2> HIDE DEF m
    <2> QED
      BY <1>7, <2>1, <2>2, <2>3 DEF PlainMove
  <1>20. CASE consume_stream_buffer_bytes
    <2>1. Goto(<<Uws("decode_stream")>>) \/ Goto(<<>>) \/ Goto(<<Uws("undefined")>>)
      BY <1>20 DEF consume_stream_buffer_bytes
    <2> QED
      BY <1>2, <1>8, <2>1 DEF PlainMove
  <1>21. CASE frame_continuation
    <2> DEFINE report == User("on_ws_frame_received", fragmented_frame_type, 0, fragment_buffer')
    <2>1. \/ Reject("stop") \/ Goto(<<Consume("again")>>)
          \/ Goto(<<Uws("indicate_ws_error"), Consume("again")>>) /\ uws_state' = uws_state
          \/ Goto(<<report, Uws("message_done"), Consume("again")>>)
      BY <1>21 DEF frame_continuation
    <2>2. Ordinary(Consume("again")) /\ Ordinary(report)
      BY <1>4, <1>5 DEF Consume
    <2>3. Top.fn = "frame" /\ uws_state # "CLOSED"
      BY <1>6, <1>21 DEF frame_continuation, Received, Changing, Running, Top
    <2> HIDE DEF report
    <2>4. Goto(<<Uws("indicate_ws_error"), Consume("again")>>) /\ uws_state' = uws_state => PlainMove
      BY <1>7, <2>2, <2>3 DEF PlainMove
    <2>5. Goto(<<report, Uws("message_done"), Consume("again")>>) => PlainMove
      BY <1>2, <1>39, <2>2
    <2> QED
      BY <1>10, <1>37, <2>1, <2>2, <2>3, <2>4, <2>5
  <1>22. CASE message_done \/ frame_data_final
    <2>1. \A x : Ordinary(Consume(x))
      BY <1>4 DEF Consume
    <2> QED
      BY <1>5, <1>8, <1>22, <2>1 DEF message_done, frame_data_final, PlainMove
  <1>23. CASE frame_data_first
    <2>1. Ordinary(Consume("again")) /\ Top.fn = "frame"
      BY <1>4, <1>23 DEF Consume, frame_data_first, Received, Running, Top
    <2>2. Reject("again") \/ Reject("stop") \/ Goto(<<Consume("again")>>)
      BY <1>23 DEF frame_data_first
    <2> QED
      BY <1>10, <1>37, <2>1, <2>2
  <1>24. CASE frame_close_bad \/ frame_close_answer
    <2>1. Ordinary(Consume("stop")) /\ Top.fn = "frame"
      BY <1>4, <1>24 DEF Consume, frame_close_bad, frame_close_answer, Received, Running, Top
    <2>2. \/ Reject("stop")
          \/ Goto(<<xio_close("uws", "close_complete"), Uws("close_or_error"), Consume("stop")>>)
          \/ Goto(<<xio_close("uws", "close_complete"), Uws("close_or_complete"), Consume("stop")>>)
      BY <1>24 DEF frame_close_bad, frame_close_answer
    <2> QED
      BY <1>2, <1>3, <1>10, <1>39, <2>1, <2>2
  <1>25. CASE frame_close_by_peer
    <2> DEFINE report == User("on_ws_peer_closed", "", 0, <<>>)
               end == Consume("stop")
               send == xio_send("uws", "on_underlying_io_close_sent", 0)
               sent == Uws("answer_sent")
               close == xio_close("uws", "close_complete")
               closed == Uws("close_or_error")
    <2>1. Goto(<<send, sent>> \o <<report, end>>) \/ Goto(<<close, closed>> \o <<report, end>>)
      BY <1>25 DEF frame_close_by_peer
    <2>2. Ordinary(report) /\ Ordinary(end) /\ Ordinary(send) /\ Ordinary(sent) /\ Ordinary(close) /\ Ordinary(closed)
      BY <1>2, <1>3, <1>4, <1>5 DEF Consume
    <2> HIDE DEF report, end, send, sent, close, closed
    <2>3. <<send, sent>> \o <<report, end>> = <<send, sent, report, end>>
      BY ONLY ConcatTuples
    <2>4. <<close, closed>> \o <<report, end>> = <<close, closed, report, end>>
      BY ONLY ConcatTuples
    <2> QED
      BY <1>8, <2>1, <2>2, <2>3, <2>4 DEF PlainMove
  <1>26. Top.fn \in {"close_or_error", "close_or_complete", "close_sent_closed", "close_async_closed"} => Top.ret = 0
    BY <1>6, RunsFreely DEF Succeeding, Awaiting
  <1>27. CASE answer_sent \/ close_or_error \/ close_or_complete
    <2>1. CASE answer_sent
      BY <1>2, <1>3, <1>38, <1>40, <2>1 DEF answer_sent
    <2>2. CASE close_or_error \/ close_or_complete
      BY <1>26, <2>2 DEF close_or_error, close_or_complete, Running, Top, PlainMove
    <2> QED
      BY <1>27, <2>1, <2>2
  <1>28. CASE frame_ping \/ frame_ignored
    <2>1. Ordinary(Consume("stop"))
      BY <1>4 DEF Consume
    <2>2. CASE frame_ignored
      BY <1>8, <2>1, <2>2 DEF frame_ignored, PlainMove
    <2>3. CASE frame_ping
      <3>1. Top.fn = "frame"
        BY <2>3 DEF frame_ping, Received, Running, Top
      <3>2. \/ Reject("stop") \/ Goto(<<Consume("stop")>>)
            \/ Goto(<<xio_send("uws", "unchecked_on_send_complete", 0), Consume("stop")>>)
        BY <2>3 DEF frame_ping
      <3> QED
        BY <1>3, <1>8, <1>10, <2>1, <3>1, <3>2 DEF PlainMove
    <2> QED
      BY <1>28, <2>2, <2>3
  <1>29. CASE on_underlying_io_close_sent \/ on_underlying_io_close_complete
    BY <1>2, <1>3, <1>29, <1>38, <1>40 DEF on_underlying_io_close_sent, on_underlying_io_close_complete
  <1>30. CASE close_sent_closed \/ close_async_closed
    BY <1>26, <1>30 DEF close_sent_closed, close_async_closed, Running, Top, PlainMove
  <1>31. CASE on_underlying_io_error
    <2>1. \/ Goto(<<xio_close("uws", "NULL"), Uws("indicate_ws_close_complete")>>)
          \/ Shut \/ (Goto(<<Uws("indicate_ws_error")>>) /\ uws_state' = "OPEN") \/ Goto(<<>>)
      BY <1>31 DEF on_underlying_io_error, Shut, uwsVars
    <2> QED
      BY <1>2, <1>3, <1>7, <1>9, <1>38, <1>40, <2>1 DEF PlainMove
  <1>32. CASE uws_client_send_frame_async
    <2>1. CASE Return(1)
      <3>1. Called(stack)
        BY <1>6, <1>32, RunsInPlace DEF uws_client_send_frame_async, Running, Top, Api
      <3>2. Top.fn = "uws_client_send_frame_async" /\ Top = Head(stack) /\ Beneath = Tail(stack)
        BY <1>32 DEF uws_client_send_frame_async, Running, Top, Beneath
      <3>3. Beneath # <<>> /\ Head(Beneath).arg = "send"
        BY <3>1, <3>2 DEF Called
      <3> QED
        BY <2>1, <3>3 DEF PlainMove
    <2>2. CASE Goto(<<xio_send("uws", "on_underlying_io_send_complete", Top.n),
                      MkFrame("uws", "frame_sent", "", Top.n, <<>>)>>)
      BY <1>3, <1>4, <1>8, <2>2 DEF PlainMove
    <2> QED
      BY <1>32, <2>1, <2>2 DEF uws_client_send_frame_async
  <1>33. CASE frame_sent
    <2>1. Return(Top.ret) /\ Top.fn = "frame_sent" /\ Top = Head(stack) /\ Beneath = Tail(stack)
      BY <1>33 DEF frame_sent, Running, Top, Beneath
    <2>2. Top.ret = 0 \/ Sending(stack)
      BY <1>6, <2>1, RunsInPlace
    <2>3. Top.ret = 0 \/ Head(Beneath).arg = "send"
      BY <2>1, <2>2 DEF Sending, Is
    <2> QED
      BY <2>1, <2>3 DEF PlainMove
  <1>34. CASE on_underlying_io_send_complete
    BY <1>5, <1>8, <1>34 DEF on_underlying_io_send_complete, PlainMove
  <1>35. CASE on_underlying_io_send_complete_freed
    <2>1. Top.fn = "on_underlying_io_send_complete" /\ Top = Head(stack) /\ uws_state' = uws_state
      BY <1>35 DEF on_underlying_io_send_complete_freed, Running, Top
    <2>2. uws_state # "CLOSED"
      BY <1>6, <2>1, RunsInPlace DEF Sending, Is
    <2>3. \/ Pop \/ Goto(<<User("on_ws_send_frame_complete", Top.arg, Top.n, <<>>)>>)
          \/ Goto(<<Uws("indicate_ws_error")>>)
      BY <1>35 DEF on_underlying_io_send_complete_freed
    <2> QED
      BY <1>5, <1>7, <1>8, <2>1, <2>2, <2>3 DEF PlainMove
  <1>36. CASE uws_client_dowork
    <2>1. Goto(<<>>) \/ Goto(<<xio_dowork("uws")>>)
      BY <1>36 DEF uws_client_dowork
    <2> QED
      BY <1>3, <1>8, <2>1 DEF PlainMove
  <1> QED
    BY <1>11, <1>12, <1>13, <1>14, <1>15, <1>16, <1>17, <1>18, <1>19, <1>20, <1>21, <1>22, <1>23, <1>24,
       <1>25, <1>27, <1>28, <1>29, <1>30, <1>31, <1>32, <1>33, <1>34, <1>35, <1>36 DEF UwsNext

\* what waits beneath the running frame never reports a close, takes one or has failed
LEMMA BeneathPlain ==
    ASSUME stack \in Seq(Frame), stack # <<>>, Place(stack), Beneath # <<>>
    PROVE  LET f == Head(Beneath)
           IN  /\ ~Is(f, "user", "on_ws_close_complete")
               /\ f.at = "uws" => f.fn \notin CloseCalls /\ (f.fn \in Changing => f.fn = "decode_frame")
               /\ Is(f, "user", "returned") => f.ret = 0
  <1> DEFINE f == Head(Beneath)
  <1>1. Top = Head(stack) /\ Beneath = Tail(stack)
    BY DEF Top, Beneath
  <1>2. ASSUME Rest(Beneath) PROVE Resumable(f)
    <2>1. Beneath \in Seq(Frame)
      BY RunningTop
    <2>2. OnTop(Beneath, f, Tail(Beneath))
      BY <2>1, TopOnTop
    <2> QED
      BY <1>2, <2>2 DEF Rest, OnTop
  <1>3. Resumable(f) \/ (f.at = "uws" /\ f.fn \in {"upgrade_request_sent", "open_complete_error",
                                                   "indicate_ws_close_complete"})
    <2> HIDE DEF f
    <2>1. CASE Usual(stack)
      BY <1>2, <2>1, UsualParts DEF AtRest
    <2>2. CASE Called(stack)
      BY <1>1, <1>2, <2>2 DEF Called
    <2>3. CASE Opens(stack) \/ OpensSending(stack)
      BY <1>1, <1>2, <2>3 DEF Opens, OpensSending, Is, f
    <2>4. CASE OpenFails(stack) \/ OpenTold(stack)
      BY <1>1, <1>2, <2>4 DEF OpenFails, OpenTold, Is, f
    <2>5. CASE Sending(stack) \/ Decodes(stack)
      BY <1>1, <1>2, <2>5 DEF Sending, Decodes
    <2>6. CASE Closes(stack)
      <3>1. Resumable(f) \/ Is(f, "uws", "set_closed") \/ Is(f, "uws", "indicate_ws_close_complete")
        BY <1>1, <1>2, <2>6 DEF Closes, f
      <3> QED
        BY <3>1 DEF Is, Resumable
    <2> QED
      BY <2>1, <2>2, <2>3, <2>4, <2>5, <2>6 DEF Place
  <1> HIDE DEF f
  <1>4. CASE Resumable(f)
    <2>1. ~Is(f, "user", "on_ws_close_complete")
      BY <1>4 DEF Resumable, Is, Callbacks
    <2>2. f.at = "uws" => f.fn \notin CloseCalls /\ (f.fn \in Changing => f.fn = "decode_frame")
      BY <1>4 DEF Resumable, Is, Awaiting, CloseCalls, Changing
    <2>3. Is(f, "user", "returned") => f.ret = 0
      BY <1>4 DEF Resumable, Is, Callbacks, UwsCallbacks
    <2> QED
      BY <2>1, <2>2, <2>3 DEF f
  <1>5. CASE f.at = "uws" /\ f.fn \in {"upgrade_request_sent", "open_complete_error", "indicate_ws_close_complete"}
    BY <1>5 DEF f, Is, CloseCalls, Changing
  <1> QED
    BY <1>3, <1>4, <1>5

\* the frames a close depends on
CloseRoles == {"telling", "closed", "closed_null", "stray"}

\* what a frame is to a close does not depend on a result of 0; a result of 1 takes a close back
LEMMA GivenRole ==
    ASSUME NEW f \in Frame, NEW v,
           Is(f, "user", "returned") => f.ret = 0 /\ (v = 0 \/ f.arg # "close_null")
    PROVE  /\ \A role \in CloseRoles : Role(Given(f, v)) = role => Role(f) = role
           /\ \A role \in {"telling", "closed_null"} : Role(f) = role => Role(Given(f, v)) = role
           /\ v = 0 => \A role \in CloseRoles : Role(f) = role => Role(Given(f, v)) = role
  <1> DEFINE g == Given(f, v)
  <1>1. g.at = f.at /\ g.fn = f.fn /\ g.arg = f.arg /\ g.n = f.n /\ g.ret = v
    BY GivenParts
  <1> HIDE DEF g
  <1>2. CASE Is(f, "user", "returned")
    BY <1>1, <1>2, Roles DEF CloseRoles, Is, g
  <1>3. CASE ~Is(f, "user", "returned")
    BY <1>1, <1>3 DEF Role, Is, g
  <1> QED
    BY <1>2, <1>3

\* what a step that says nothing of closes leaves of the frames they depend on
PlainLeaves ==
    /\ \A role \in CloseRoles : Has(stack', role) => Has(Beneath, role)
    /\ \A role \in {"telling", "closed_null"} : Has(Beneath, role) => Has(stack', role)
    /\ Apart(Beneath, "telling", "telling") => Apart(stack', "telling", "telling")
    /\ stack' # <<>> =>
         /\ ~Has(Tail(stack'), "decoding")
         /\ ~Is(Head(stack'), "user", "on_ws_close_complete")
         /\ Head(stack').at = "uws" => Head(stack').fn \notin CloseCalls
         /\ Head(stack').at = "uws" /\ Head(stack').fn \in Changing => uws_state' # "CLOSED"

LEMMA FitsParts ==
    ASSUME NEW a, Fits(a)
    PROVE  /\ Role(a) \notin CloseRoles
           /\ ~Is(a, "user", "on_ws_close_complete")
           /\ a.at = "uws" => a.fn \notin CloseCalls
           /\ a.at = "uws" /\ a.fn \in Changing => uws_state' # "CLOSED"
  <1>1. CASE Ordinary(a)
    <2>1. Is(a, "user", "on_ws_close_complete") => Role(a) = "telling"
      BY Roles
    <2> QED
      BY <1>1, <2>1 DEF Ordinary, CloseRoles
  <1>2. CASE a.at = "uws" /\ a.fn \in Changing /\ uws_state' # "CLOSED"
    <2>1. Role(a) = "decoding" \/ Role(a) = "none"
      BY <1>2, Roles DEF Changing, Is
    <2> QED
      BY <1>2, <2>1 DEF CloseRoles, Changing, CloseCalls, Is
  <1> QED
    BY <1>1, <1>2 DEF Fits

LEMMA PlainEffects ==
    ASSUME stack \in Seq(Frame), stack # <<>>, Place(stack), PlainMove, ~Has(Beneath, "decoding")
    PROVE  PlainLeaves
  <1>1. Beneath \in Seq(Frame)
    BY RunningTop
  <1>2. ASSUME Beneath # <<>>
        PROVE  /\ OnTop(Beneath, Head(Beneath), Tail(Beneath)) /\ Head(Beneath) \in Frame
               /\ ~Is(Head(Beneath), "user", "on_ws_close_complete")
               /\ Head(Beneath).at = "uws" => Head(Beneath).fn \notin CloseCalls \cup Changing
               /\ Is(Head(Beneath), "user", "returned") => Head(Beneath).ret = 0
               /\ ~Has(Tail(Beneath), "decoding")
    <2> DEFINE f == Head(Beneath)
    <2>1. OnTop(Beneath, f, Tail(Beneath)) /\ f \in Frame
      BY <1>1, <1>2, TopOnTop
    <2>2. /\ ~Is(f, "user", "on_ws_close_complete")
          /\ f.at = "uws" => f.fn \notin CloseCalls /\ (f.fn \in Changing => f.fn = "decode_frame")
          /\ Is(f, "user", "returned") => f.ret = 0
      BY <1>2, BeneathPlain
    <2> HIDE DEF f
    <2>3. Role(f) # "decoding" /\ ~Has(Tail(Beneath), "decoding")
      BY <2>1 DEF OnTop
    <2>4. ~Is(f, "uws", "decode_frame")
      BY <2>3, Roles
    <2> QED
      BY <2>1, <2>2, <2>3, <2>4 DEF Is, f
  <1>3. CASE Pop \/ Goto(<<>>)
    <2>1. stack' = Beneath
      BY <1>3, Goto0
    <2> QED
      BY <1>2, <2>1 DEF PlainLeaves
  <1>4. ASSUME NEW v, Return(v),
               \/ v = 0 \/ Beneath = <<>>
               \/ ~Is(Head(Beneath), "user", "returned") \/ Head(Beneath).arg # "close_null"
        PROVE  PlainLeaves
    <2>1. CASE Beneath = <<>> /\ stack' = <<>>
      BY <2>1 DEF PlainLeaves
    <2>2. CASE Beneath # <<>> /\ Stack1(stack', Given(Head(Beneath), v), Tail(Beneath))
      <3> DEFINE f == Head(Beneath)
                 g == Given(f, v)
                 t == Tail(Beneath)
      <3>1. OnTop(Beneath, f, t) /\ OnTop(stack', g, t) /\ f \in Frame
        BY <1>2, <2>2 DEF Stack1
      <3>2. g.at = f.at /\ g.fn = f.fn
        BY <3>1, GivenParts
      <3>3. Is(f, "user", "returned") => f.ret = 0 /\ (v = 0 \/ f.arg # "close_null")
        BY <1>2, <1>4, <2>2
      <3>4. /\ \A role \in CloseRoles : Role(g) = role => Role(f) = role
            /\ \A role \in {"telling", "closed_null"} : Role(f) = role => Role(g) = role
        BY <3>1, <3>3, GivenRole
      <3>5. /\ ~Is(f, "user", "on_ws_close_complete")
            /\ f.at = "uws" => f.fn \notin CloseCalls \cup Changing
            /\ ~Has(t, "decoding")
        BY <1>2, <2>2
      <3> HIDE DEF f, g, t
      <3>6. \A role \in CloseRoles : Has(stack', role) => Has(Beneath, role)
        BY <3>1, <3>4 DEF OnTop
      <3>7. \A role \in {"telling", "closed_null"} : Has(Beneath, role) => Has(stack', role)
        BY <3>1, <3>4 DEF OnTop
      <3>8. Apart(Beneath, "telling", "telling") => Apart(stack', "telling", "telling")
        BY <3>1, <3>4 DEF OnTop, CloseRoles
      <3>9. stack' # <<>> /\ Head(stack') = g /\ Tail(stack') = t
        BY <3>1 DEF OnTop
      <3> QED
        BY <3>2, <3>5, <3>6, <3>7, <3>8, <3>9 DEF PlainLeaves, Is
    <2> QED
      BY <1>4, <2>1, <2>2, ReturnTop
  \* the first of the new frames fits, the others are ordinary and add nothing
  <1>5. ASSUME NEW t, NEW a, OnTop(stack', a, t), Fits(a), ~Has(t, "decoding"),
               \A role \in CloseRoles : Has(t, role) <=> Has(Beneath, role),
               Apart(Beneath, "telling", "telling") => Apart(t, "telling", "telling")
        PROVE  PlainLeaves
    <2>1. /\ Role(a) \notin CloseRoles
          /\ ~Is(a, "user", "on_ws_close_complete")
          /\ a.at = "uws" => a.fn \notin CloseCalls
          /\ a.at = "uws" /\ a.fn \in Changing => uws_state' # "CLOSED"
      BY <1>5, FitsParts
    <2>2. \A role \in CloseRoles : Has(stack', role) <=> Has(Beneath, role)
      BY <1>5, <2>1 DEF OnTop
    <2>3. Apart(Beneath, "telling", "telling") => Apart(stack', "telling", "telling")
      BY <1>5, <2>1 DEF OnTop, CloseRoles
    <2>4. stack' # <<>> /\ Head(stack') = a /\ Tail(stack') = t
      BY <1>5 DEF OnTop
    <2> QED
      BY <1>5, <2>1, <2>2, <2>3, <2>4 DEF PlainLeaves, CloseRoles
  <1> DEFINE Same(t) == /\ ~Has(t, "decoding")
                        /\ \A role \in CloseRoles : Has(t, role) <=> Has(Beneath, role)
                        /\ Apart(Beneath, "telling", "telling") => Apart(t, "telling", "telling")
  <1>6. ASSUME NEW u, NEW a, NEW t, OnTop(u, a, t), Ordinary(a), Same(t)
        PROVE  Same(u)
    <2>1. Role(a) \notin CloseRoles /\ Role(a) # "decoding"
      BY <1>6 DEF Ordinary, CloseRoles
    <2> QED
      BY <1>6, <2>1 DEF OnTop, CloseRoles
  <1>7. Same(Beneath)
    OBVIOUS
  <1>8. ASSUME NEW t, NEW a, OnTop(stack', a, t), Fits(a), Same(t) PROVE PlainLeaves
    BY <1>5, <1>8
  <1> HIDE DEF Same
  <1>9. ASSUME NEW a, Goto(<<a>>), Fits(a) PROVE PlainLeaves
    BY <1>7, <1>8, <1>9, Goto1 DEF Stack1
  <1>10. ASSUME NEW a, NEW b, Goto(<<a, b>>), Fits(a), Ordinary(b) PROVE PlainLeaves
    <2>1. Stack2(stack', a, b, Beneath)
      BY <1>10, Goto2
    <2> QED
      BY <1>6, <1>7, <1>8, <1>10, <2>1 DEF Stack2
  <1>11. ASSUME NEW a, NEW b, NEW c, Goto(<<a, b, c>>), Fits(a), Ordinary(b), Ordinary(c) PROVE PlainLeaves
    <2>1. Stack3(stack', a, b, c, Beneath)
      BY <1>11, Goto3
    <2>2. Same(Tail(Tail(stack')))
      BY <1>6, <1>7, <1>11, <2>1 DEF Stack3, Stack2
    <2>3. Same(Tail(stack'))
      BY <1>6, <1>11, <2>1, <2>2 DEF Stack3, Stack2
    <2> QED
      BY <1>8, <1>11, <2>1, <2>3 DEF Stack3
  <1>12. ASSUME NEW a, NEW b, NEW c, NEW d, Goto(<<a, b, c, d>>), Fits(a), Ordinary(b), Ordinary(c), Ordinary(d)
         PROVE  PlainLeaves
    <2>1. Stack4(stack', a, b, c, d, Beneath)
      BY <1>12, Goto4
    <2>2. Same(Tail(Tail(Tail(stack'))))
      BY <1>6, <1>7, <1>12, <2>1 DEF Stack4, Stack3, Stack2
    <2>3. Same(Tail(Tail(stack')))
      BY <1>6, <1>12, <2>1, <2>2 DEF Stack4, Stack3, Stack2
    <2>4. Same(Tail(stack'))
      BY <1>6, <1>12, <2>1, <2>3 DEF Stack4, Stack3
    <2> QED
      BY <1>8, <1>12, <2>1, <2>4 DEF Stack4
  <1> QED
    BY <1>3, <1>4, <1>9, <1>10, <1>11, <1>12 DEF PlainMove

\* The client leaves CLOSED and CLOSING_UNDERLYING_IO only by what is about opens and closes, and
\* CLOSED is entered otherwise only when an open fails.
LEMMA PlainStates ==
    ASSUME TypeOK, Place(stack), UwsNext,
           ~indicate_ws_close_complete, ~uws_client_open_async, ~uws_client_close_async,
           ~uws_client_close_handshake_async,
           Top.at = "uws" /\ Top.fn \in Changing => uws_state # "CLOSED"
    PROVE  /\ on_ws_close_complete' = on_ws_close_complete /\ session' = session
           /\ \/ uws_state' = uws_state
              \/ uws_state \in Opening
              \/ /\ uws_state \notin {"CLOSED", "CLOSING_UNDERLYING_IO"}
                 /\ uws_state' \notin Opening \cup {"CLOSED"}
  <1>1. /\ stack # <<>> /\ stack \in Seq(Frame) /\ Top.at = "uws"
    BY UwsRuns DEF TypeOK
  <1>2. \A f : Running("uws", f) => Top.fn = f
    BY DEF Running, Top
  <1>3. Top.fn \in {"frame", "indicate_ws_error", "indicate_ws_error_and_close"} =>
          uws_state \notin {"CLOSED", "CLOSING_UNDERLYING_IO"}
    BY <1>1, RunsInPlace DEF Decodes, Settled, Changing
  <1>4. CASE indicate_ws_open_complete_error
    <2>1. OpenFails(stack)
      BY <1>1, <1>2, <1>4, RunsInPlace DEF indicate_ws_open_complete_error
    <2> QED
      BY <1>4, <2>1 DEF OpenFails, indicate_ws_open_complete_error, Others
  <1>5. CASE indicate_ws_error \/ indicate_ws_error_and_close
    BY <1>2, <1>3, <1>5 DEF indicate_ws_error, indicate_ws_error_and_close, State, Opening, Others
  <1>6. CASE set_closed
    <2>1. uws_state = "CLOSED"
      BY <1>1, <1>2, <1>6, RunsFreely DEF set_closed, Is
    <2> QED
      BY <1>6, <2>1 DEF set_closed, State, Others
  <1>7. CASE xio_open_returned \/ upgrade_request_sent
    <2>1. xio_open_returned => Top.ret = 0
      BY <1>1, <1>2, EmptiedFrom DEF xio_open_returned
    <2>2. upgrade_request_sent => uws_state \in Opening
      BY <1>1, <1>2, RunsInPlace DEF upgrade_request_sent, Opens, Opening
    <2> QED
      BY <1>7, <2>1, <2>2 DEF xio_open_returned, upgrade_request_sent, State, Others
  <1>8. CASE \/ call_on_ws_close_complete \/ on_underlying_io_open_complete \/ on_underlying_io_bytes_received
             \/ decode_nothing \/ decode_while_opening \/ decode_masked_frame \/ decode_unmasked_frame
             \/ decode_length \/ consume_stream_buffer_bytes \/ message_done \/ frame_data_final
    BY <1>8 DEF call_on_ws_close_complete, on_underlying_io_open_complete, on_underlying_io_bytes_received,
       decode_nothing, decode_while_opening, decode_masked_frame, decode_unmasked_frame, decode_length,
       consume_stream_buffer_bytes, message_done, frame_data_final, uwsVars, Others
  <1>9. CASE decode_upgrade_response
    BY <1>9 DEF decode_upgrade_response, Opening, Others
  <1>10. CASE frame_continuation \/ frame_data_first \/ frame_ping \/ frame_ignored
    BY <1>10 DEF frame_continuation, frame_data_first, frame_ping, frame_ignored, Reject, uwsVars, Others
  <1>11. CASE frame_close_bad \/ frame_close_answer \/ frame_close_by_peer
    <2>1. uws_state \notin {"CLOSED", "CLOSING_UNDERLYING_IO"}
      BY <1>2, <1>3, <1>11 DEF frame_close_bad, frame_close_answer, frame_close_by_peer, Received
    <2> QED
      BY <1>11, <2>1 DEF frame_close_bad, frame_close_answer, frame_close_by_peer, State, Reject, Opening,
         uwsVars, Others
  <1>12. CASE answer_sent
    <2>1. Top.ret = 0 \/ Sending(stack)
      BY <1>1, <1>2, <1>12, RunsInPlace DEF answer_sent
    <2>2. Top.ret = 0 \/ uws_state = "CLOSING_SENDING_CLOSE"
      BY <1>2, <1>12, <2>1 DEF answer_sent, Sending, Is, Top
    <2> QED
      BY <1>12, <2>2 DEF answer_sent, State, Opening, Others
  <1>13. CASE close_or_error \/ close_or_complete \/ close_sent_closed \/ close_async_closed
    BY <1>13 DEF close_or_error, close_or_complete, close_sent_closed, close_async_closed, uwsVars
  <1>14. CASE on_underlying_io_close_sent
    BY <1>14 DEF on_underlying_io_close_sent, State, Opening, Others
  <1>15. CASE on_underlying_io_close_complete \/ on_underlying_io_error \/ uws_client_destroy \/ uws_client_dowork
    BY <1>15 DEF on_underlying_io_close_complete, on_underlying_io_error, uws_client_destroy, uws_client_dowork,
       uwsVars
  <1>16. CASE \/ clear_pending_sends \/ uws_client_send_frame_async \/ frame_sent
              \/ on_underlying_io_send_complete \/ on_underlying_io_send_complete_freed
    BY <1>16 DEF clear_pending_sends, uws_client_send_frame_async, frame_sent, on_underlying_io_send_complete,
       on_underlying_io_send_complete_freed
  <1> QED
    BY <1>4, <1>5, <1>6, <1>7, <1>8, <1>9, <1>10, <1>11, <1>12, <1>13, <1>14, <1>15, <1>16 DEF UwsNext

\* there is one session at most
LEMMA FirstSession ==
    ASSUME OneSession, TypeOK, Books
    PROVE  session \in {0, 1} /\ (session < opens => session = 0) /\ ~decode_masked_frame
  <1>1. opens \in 0 .. 1 /\ session \in Nat /\ session <= opens
    BY DEF OneSession, TypeOK, UwsTypeOK, Books
  <1>2. ~decode_masked_frame
    <2>1. ASSUME NEW u \in Unit PROVE \A h \in HeadersAt(u) : h.flaw # "masked"
      BY <2>1 DEF OneSession, HeadersAt, UnitType
    <2>2. ASSUME stream_buffer # <<>> PROVE Head(stream_buffer) \in Unit
      <3>1. stream_buffer \in Seq(Unit)
        BY DEF TypeOK, UwsTypeOK
      <3> QED
        BY <2>2, <3>1
    <2> QED
      BY <2>1, <2>2 DEF decode_masked_frame
  <1> QED
    BY <1>1, <1>2

LEMMA OwnSession ==
    ASSUME TypeOK, Books
    PROVE  session \in Sessions
  <1>1. opens \in 0 .. MaxOpens /\ session \in Nat /\ session <= opens /\ MaxOpens \in Nat
    BY BoundsAssumption DEF TypeOK, UwsTypeOK, Books
  <1> QED
    BY <1>1 DEF Sessions

\* a step that says nothing of closes
LEMMA ReportKept ==
    ASSUME ReportInv, TypeOK, Books, Place(stack), stack # <<>>, PlainMove, Role(Top) # "telling",
           UNCHANGED <<on_ws_close_complete, session, closing, closeReports>>,
           \/ uws_state' = uws_state
           \/ uws_state \in Opening
           \/ /\ uws_state \notin {"CLOSED", "CLOSING_UNDERLYING_IO"}
              /\ uws_state' \notin Opening \cup {"CLOSED"}
    PROVE  ReportInv'
  <1>1. stack \in Seq(Frame) /\ OnTop(stack, Top, Beneath)
    BY RunningTop DEF TypeOK
  <1>2. PlainLeaves
    BY <1>1, PlainEffects DEF ReportInv
  <1>3. Has(stack', "telling") <=> Has(stack, "telling")
    BY <1>1, <1>2 DEF PlainLeaves, OnTop, CloseRoles
  <1>4. Apart(stack, "telling", "telling") => Apart(stack', "telling", "telling")
    BY <1>1, <1>2 DEF PlainLeaves, OnTop
  <1>5. ~Has(stack, "telling") => Apart(stack', "telling", "telling")
    BY <1>3 DEF Has, Apart
  <1>6. on_ws_close_complete # 0 => uws_state' \notin Opening
    BY DEF ReportInv, Opening
  <1>7. Over => Over'
    BY DEF Over, Opening
  <1>8. Over' => Over \/ on_ws_close_complete = 0
    BY DEF Over, ReportInv
  <1>9. Top' = Head(stack') /\ Beneath' = Tail(stack')
    BY DEF Top, Beneath
  <1>10. on_ws_close_complete' # 0 =>
            on_ws_close_complete' = session' /\ session' \in closing' /\ uws_state' \notin Opening
    BY <1>6 DEF ReportInv
  <1>11. \A s \in Sessions : s # session' \/ ~Over' => closeReports'[s] = 0
    BY <1>7 DEF ReportInv
  <1>12. ~Over' => ~Has(stack', "telling")
    BY <1>3, <1>7 DEF ReportInv
  <1>13. Over' => /\ Apart(stack', "telling", "telling")
                  /\ closeReports'[session'] =
                       IF on_ws_close_complete' = 0 \/ Has(stack', "telling") THEN 0 ELSE 1
    <2>1. CASE Over
      BY <1>3, <1>4, <2>1 DEF ReportInv
    <2>2. CASE ~Over /\ Over'
      <3>1. closeReports[session] = 0
        BY <2>2, OwnSession DEF ReportInv
      <3> QED
        BY <1>5, <1>8, <2>2, <3>1 DEF ReportInv
    <2> QED
      BY <2>1, <2>2
  <1>14. stack' # <<>> =>
            /\ Is(Top', "user", "on_ws_close_complete") => Top'.n = on_ws_close_complete' /\ Top'.n # 0
            /\ Top'.at = "uws" /\ Top'.fn \in Changing => uws_state' # "CLOSED"
            /\ ~Has(Beneath', "decoding")
    BY <1>2, <1>9 DEF PlainLeaves
  <1> QED
    BY <1>10, <1>11, <1>12, <1>13, <1>14 DEF ReportInv

LEMMA AskKept ==
    ASSUME AskInv, ReportInv, TypeOK, Place(stack), stack # <<>>, PlainMove,
           Role(Top) \notin {"closed", "closed_null"}, Top.at = "uws" => Top.fn \notin CloseCalls,
           UNCHANGED <<on_ws_close_complete, asked, alive>>,
           Has(stack', "closed") \/ Has(stack', "closed_null") =>
             (Over \/ uws_state = "CLOSING_UNDERLYING_IO" \/ Handshaking(stack) =>
                Over' \/ uws_state' = "CLOSING_UNDERLYING_IO" \/ Handshaking(stack)')
    PROVE  AskInv'
  <1>1. stack \in Seq(Frame) /\ OnTop(stack, Top, Beneath)
    BY RunningTop DEF TypeOK
  <1>2. PlainLeaves
    BY <1>1, PlainEffects DEF ReportInv
  <1>3. \A role \in CloseRoles : Has(stack', role) => Has(stack, role)
    BY <1>1, <1>2 DEF PlainLeaves, OnTop
  <1>4. Has(stack, "closed_null") => Has(stack', "closed_null")
    BY <1>1, <1>2 DEF PlainLeaves, OnTop
  <1>5. Begun(stack) = stack
    BY DEF Begun, Top
  <1>6. Begun(stack)' = stack'
    BY <1>2 DEF PlainLeaves, Begun
  <1>7. ~Has(stack', "stray") /\ (Has(stack', "closed") => on_ws_close_complete # 0)
        /\ (Has(stack', "closed") \/ Has(stack', "closed_null") =>
              Over' \/ uws_state' = "CLOSING_UNDERLYING_IO" \/ Handshaking(stack)')
    BY <1>3, <1>5 DEF AskInv, CloseRoles
  <1>8. (1 \in asked /\ alive => on_ws_close_complete # 0 \/ Has(stack', "closed_null")) /\ asked \subseteq {1}
    BY <1>4, <1>5 DEF AskInv
  <1> QED
    BY <1>6, <1>7, <1>8 DEF AskInv

-----------------------------------------------------------------------------
(* Closes: the steps.                                                       *)

\* the close frame of a handshake is handed down, and the user hears of it
LEMMA HandshakeReturns ==
    ASSUME stack \in Seq(Frame), Handshaking(stack), Top.at = "socket", NEW v, Return(v),
           Is(Head(Beneath), "user", "returned") => Head(Beneath).ret = 0,
           v = 0 \/ v = 1, uws_state' = uws_state
    PROVE  Handshaking(stack)' \/ ~(Has(stack', "closed") \/ Has(stack', "closed_null"))
  <1> DEFINE f == Head(Beneath)
             g == Given(f, v)
             t == Tail(Beneath)
  <1>1. Top = Head(stack) /\ Beneath = Tail(stack) /\ stack # <<>>
    BY DEF Top, Beneath, Handshaking
  <1>2. Role(Head(stack)) # "closed"
    BY <1>1 DEF Role, Is
  <1>3. Beneath # <<>> /\ Role(f) = "closed" /\ ~Has(t, "closed") /\ ~Has(Beneath, "closed_null")
    BY <1>1, <1>2 DEF Handshaking
  <1>4. OnTop(Beneath, f, t) /\ f \in Frame /\ OnTop(stack', g, t)
    BY <1>1, <1>3, ReturnTop DEF Stack1
  <1>5. Is(f, "user", "returned") /\ f.ret = 0 /\ f.arg = "close" /\ f.n = 1
    <2> HIDE DEF f
    <2>1. Is(f, "user", "returned") /\ f.ret = 0 /\ f.arg = "close"
      BY <1>3 DEF Role
    <2> QED
      BY <1>3, <2>1, Roles
  <1>6. g.at = f.at /\ g.fn = f.fn /\ g.arg = f.arg /\ g.n = f.n /\ g.ret = v
    BY <1>4, GivenParts
  <1> HIDE DEF f, g, t
  <1>7. Role(g) = IF v = 0 THEN "closed" ELSE "none"
    BY <1>5, <1>6, Roles DEF Is
  <1>8. ~Has(t, "closed_null")
    BY <1>3, <1>4 DEF OnTop
  <1>9. stack' # <<>> /\ Head(stack') = g /\ Tail(stack') = t
    BY <1>4 DEF OnTop
  <1>10. CASE v = 0
    BY <1>3, <1>7, <1>8, <1>9, <1>10 DEF Handshaking
  <1>11. CASE v = 1
    <2>1. ~Has(stack', "closed") /\ ~Has(stack', "closed_null")
      BY <1>3, <1>4, <1>7, <1>8, <1>11 DEF OnTop
    <2> QED
      BY <2>1
  <1> QED
    BY <1>10, <1>11

LEMMA HandshakeSock ==
    ASSUME TypeOK, Place(stack), SockNext, Handshaking(stack), uws_state' = uws_state
    PROVE  Handshaking(stack)' \/ ~(Has(stack', "closed") \/ Has(stack', "closed_null"))
  <1>1. stack \in Seq(Frame) /\ stack # <<>> /\ Top = Head(stack) /\ Beneath = Tail(stack)
    BY DEF TypeOK, Top, Beneath, Handshaking
  <1>2. Top.at = "socket"
        /\ Top.fn \in {"open", "close", "send", "dowork", "destroy", "dowork_sent", "dowork_receive"}
    BY DEF SockNext, socketio_open_refused, socketio_open_connected, socketio_open_failed, socketio_close,
       socketio_destroy, socketio_send_sent, socketio_send_queued, socketio_send_failed,
       socketio_dowork_send_complete, socketio_dowork_remove, socketio_dowork_send_error,
       socketio_dowork_send_end, socketio_dowork_receive, socketio_dowork_receive_error,
       socketio_dowork_receive_end, Running, Top
  <1>3. Role(Top) # "closed"
    BY <1>2 DEF Role, Is
  <1>4. Top.fn = "send" /\ Beneath # <<>> /\ Role(Head(Beneath)) = "closed"
    BY <1>1, <1>2, <1>3 DEF Handshaking
  <1>5. Is(Head(Beneath), "user", "returned") /\ Head(Beneath).ret = 0
    BY <1>4 DEF Role
  <1>6. Top.arg = "unchecked_on_send_complete"
    <2>1. Sending(stack) \/ OpensSending(stack)
      BY <1>1, <1>4, RunsInPlace
    <2> QED
      BY <1>1, <1>4, <1>5, <2>1 DEF Sending, OpensSending, Is
  <1>7. CASE socketio_send_queued \/ socketio_send_failed
    BY <1>1, <1>2, <1>5, <1>7, HandshakeReturns DEF socketio_send_queued, socketio_send_failed
  <1>8. CASE socketio_send_sent
    <2> DEFINE r == ReturnFrame("socket", 0)
    <2>1. Goto(<<>> \o <<r>>)
      BY <1>6, <1>8 DEF socketio_send_sent, on_send_complete
    <2>2. r.at = "socket" /\ r.fn = "return"
      BY MadeReturn
    <2> HIDE DEF r
    <2>3. <<>> \o <<r>> = <<r>>
      BY ONLY ConcatTuples
    <2>4. OnTop(stack', r, Beneath)
      BY <1>1, <2>1, <2>3, Goto1 DEF Stack1
    <2>5. stack' # <<>> /\ Head(stack') = r /\ Tail(stack') = Beneath
      BY <2>4 DEF OnTop
    <2>6. ~Has(Beneath, "closed_null") /\ ~Has(Tail(Beneath), "closed")
      BY <1>1, <1>3 DEF Handshaking
    <2> QED
      BY <1>4, <2>2, <2>5, <2>6 DEF Handshaking
  <1> QED
    BY <1>4, <1>7, <1>8
       DEF SockNext, socketio_open_refused, socketio_open_connected, socketio_open_failed, socketio_close,
       socketio_destroy, socketio_dowork_send_complete, socketio_dowork_remove, socketio_dowork_send_error,
       socketio_dowork_send_end, socketio_dowork_receive, socketio_dowork_receive_error,
       socketio_dowork_receive_end, Running, Top

LEMMA CloseSock ==
    ASSUME CloseInv, TypeOK, Books, Place(stack), SockNext, UNCHANGED <<tlsVars, uwsVars, userVars>>
    PROVE  CloseInv'
  <1>1. stack # <<>> /\ Top.at = "socket"
        /\ Top.fn \in {"open", "close", "send", "dowork", "destroy", "dowork_sent", "dowork_receive"}
    BY DEF SockNext, socketio_open_refused, socketio_open_connected, socketio_open_failed, socketio_close,
       socketio_destroy, socketio_send_sent, socketio_send_queued, socketio_send_failed,
       socketio_dowork_send_complete, socketio_dowork_remove, socketio_dowork_send_error,
       socketio_dowork_send_end, socketio_dowork_receive, socketio_dowork_receive_error,
       socketio_dowork_receive_end, Running, Top
  <1>2. UNCHANGED <<on_ws_close_complete, session, uws_state, closing, closeReports, asked, alive>>
    BY DEF uwsVars, userVars
  <1>3. Role(Top) = "none"
    BY <1>1, Roles
  <1>4. PlainMove
    BY PlainSock
  <1>5. ReportInv'
    BY <1>1, <1>2, <1>3, <1>4, ReportKept DEF CloseInv
  <1>6. Has(stack', "closed") \/ Has(stack', "closed_null") =>
             (Over \/ uws_state = "CLOSING_UNDERLYING_IO" \/ Handshaking(stack) =>
                Over' \/ uws_state' = "CLOSING_UNDERLYING_IO" \/ Handshaking(stack)')
    BY <1>2, HandshakeSock DEF Over
  <1>7. AskInv'
    BY <1>1, <1>2, <1>3, <1>4, <1>6, AskKept DEF CloseInv
  <1> QED
    BY <1>5, <1>7 DEF CloseInv

LEMMA CloseReturn ==
    ASSUME CloseInv, TypeOK, Books, Place(stack), ReturnStep, UNCHANGED <<sockVars, tlsVars, uwsVars, userVars>>
    PROVE  CloseInv'
  <1>1. stack # <<>> /\ Top.fn = "return" /\ stack \in Seq(Frame) /\ Return(Top.ret)
    BY DEF ReturnStep, TypeOK
  <1>2. UNCHANGED <<on_ws_close_complete, session, uws_state, closing, closeReports, asked, alive>>
    BY DEF uwsVars, userVars
  <1>3. Role(Top) = "none"
    BY <1>1, Roles
  <1>4. PlainMove
    BY PlainReturn
  <1>5. ReportInv'
    BY <1>1, <1>2, <1>3, <1>4, ReportKept DEF CloseInv
  <1>6. ASSUME Handshaking(stack)
        PROVE  Handshaking(stack)' \/ ~(Has(stack', "closed") \/ Has(stack', "closed_null"))
    <2>1. Top.ret = 0
      BY <1>1, RunsInPlace
    <2>2. Top = Head(stack) /\ Beneath = Tail(stack)
      BY DEF Top, Beneath
    <2>3. Top.at = "socket" /\ Role(Head(Beneath)) = "closed"
      BY <1>3, <1>6, <2>2 DEF Handshaking
    <2>4. Head(Beneath).ret = 0
      BY <2>3 DEF Role
    <2> QED
      BY <1>1, <1>2, <1>6, <2>1, <2>3, <2>4, HandshakeReturns
  <1>7. Has(stack', "closed") \/ Has(stack', "closed_null") =>
             (Over \/ uws_state = "CLOSING_UNDERLYING_IO" \/ Handshaking(stack) =>
                Over' \/ uws_state' = "CLOSING_UNDERLYING_IO" \/ Handshaking(stack)')
    BY <1>2, <1>6 DEF Over
  <1>8. AskInv'
    BY <1>1, <1>2, <1>3, <1>4, <1>7, AskKept DEF CloseInv, CloseCalls
  <1> QED
    BY <1>5, <1>8 DEF CloseInv

\* what the client does, but for the steps that are about a close
LEMMA CloseUwsPlain ==
    ASSUME CloseInv, TypeOK, Books, Place(stack), UwsNext, UNCHANGED <<sockVars, tlsVars, userVars>>,
           OneSession,
           ~indicate_ws_close_complete, ~call_on_ws_close_complete, ~uws_client_open_async,
           ~uws_client_close_async, ~uws_client_close_handshake_async, ~uws_client_destroy
    PROVE  CloseInv'
  <1>1. stack # <<>> /\ Top.at = "uws" /\ ~decode_masked_frame
    BY UwsRuns, FirstSession
  <1>2. Top.fn \in Changing => uws_state # "CLOSED"
    BY <1>1 DEF CloseInv, ReportInv
  <1>3. UNCHANGED <<closing, closeReports, asked, alive>>
    BY DEF userVars
  <1>4. /\ on_ws_close_complete' = on_ws_close_complete /\ session' = session
        /\ \/ uws_state' = uws_state
           \/ uws_state \in Opening
           \/ /\ uws_state \notin {"CLOSED", "CLOSING_UNDERLYING_IO"}
              /\ uws_state' \notin Opening \cup {"CLOSED"}
    BY <1>2, PlainStates
  <1>5. PlainMove
    BY <1>1, <1>2, PlainUws
  <1>6. Top.fn \notin CloseCalls \cup {"call_on_ws_close_complete"}
    <2>1. \A f : Running("uws", f) => Top.fn = f
      BY DEF Running, Top
    <2>2. CASE \/ indicate_ws_open_complete_error \/ indicate_ws_error \/ indicate_ws_error_and_close
               \/ clear_pending_sends \/ set_closed \/ xio_open_returned \/ on_underlying_io_open_complete
               \/ upgrade_request_sent \/ on_underlying_io_bytes_received \/ decode_nothing
               \/ decode_while_opening \/ decode_upgrade_response \/ decode_unmasked_frame \/ decode_length
               \/ consume_stream_buffer_bytes \/ frame_continuation \/ message_done \/ frame_data_final
      BY <2>1, <2>2 DEF CloseCalls, indicate_ws_open_complete_error, indicate_ws_error,
         indicate_ws_error_and_close, clear_pending_sends, set_closed, xio_open_returned,
         on_underlying_io_open_complete, upgrade_request_sent, on_underlying_io_bytes_received,
         decode_nothing, decode_while_opening, decode_upgrade_response, decode_unmasked_frame,
         decode_length, consume_stream_buffer_bytes, frame_continuation, message_done,
         frame_data_final, Received
    <2>3. CASE \/ frame_data_first \/ frame_close_bad \/ frame_close_answer \/ frame_close_by_peer \/ answer_sent
               \/ close_or_error \/ close_or_complete \/ frame_ping \/ frame_ignored
               \/ on_underlying_io_close_sent \/ close_sent_closed \/ on_underlying_io_close_complete
               \/ on_underlying_io_error \/ close_async_closed \/ uws_client_send_frame_async \/ frame_sent
               \/ on_underlying_io_send_complete \/ on_underlying_io_send_complete_freed \/ uws_client_dowork
      BY <2>1, <2>3 DEF CloseCalls, frame_data_first, frame_close_bad, frame_close_answer,
         frame_close_by_peer, answer_sent, close_or_error, close_or_complete, frame_ping, frame_ignored,
         on_underlying_io_close_sent, close_sent_closed, on_underlying_io_close_complete,
         on_underlying_io_error, close_async_closed, uws_client_send_frame_async, frame_sent,
         on_underlying_io_send_complete, on_underlying_io_send_complete_freed, uws_client_dowork, Received
    <2> QED
      BY <1>1, <2>2, <2>3 DEF UwsNext
  <1>7. Role(Top) \notin {"telling", "closed", "closed_null"}
    BY <1>1, <1>6 DEF Role, Is
  <1>8. ReportInv'
    BY <1>1, <1>3, <1>4, <1>5, <1>7, ReportKept DEF CloseInv
  <1>9. ~Handshaking(stack)
    BY <1>1, <1>7 DEF Handshaking, Top
  <1>10. Over => Over'
    BY <1>4 DEF Over, Opening
  <1>11. uws_state = "CLOSING_UNDERLYING_IO" => uws_state' = uws_state
    BY <1>4 DEF Opening
  <1>12. AskInv'
    BY <1>1, <1>3, <1>4, <1>5, <1>6, <1>7, <1>9, <1>10, <1>11, AskKept DEF CloseInv
  <1> QED
    BY <1>8, <1>12 DEF CloseInv

\* what the user does, but for the report of a close and the result of a call of his
LEMMA CloseUserPlain ==
    ASSUME CloseInv, TypeOK, Books, Place(stack), UserSteps, UNCHANGED <<sockVars, tlsVars, uwsVars>>,
           ~OnCloseComplete, ~Returned
    PROVE  CloseInv'
  <1>1. stack # <<>> /\ Top.at = "user" /\ Top.fn \notin {"on_ws_close_complete", "returned"}
        /\ UNCHANGED <<closing, closeReports, asked, alive>>
    BY DEF UserSteps, OnOpenComplete, OnFrameReceived, OnSendComplete, OnError, OnPeerClosed, CallbackReturns,
       Running, Top, userVars
  <1>2. UNCHANGED <<on_ws_close_complete, session, uws_state>>
    BY DEF uwsVars
  <1>3. Role(Top) = "none"
    BY <1>1 DEF Role, Is
  <1>4. PlainMove
    BY PlainUser
  <1>5. ReportInv'
    BY <1>1, <1>2, <1>3, <1>4, ReportKept DEF CloseInv
  <1>6. ~Handshaking(stack)
    BY <1>1, <1>3 DEF Handshaking, Top
  <1>7. Over => Over'
    BY <1>2 DEF Over
  <1>8. AskInv'
    BY <1>1, <1>2, <1>3, <1>4, <1>6, <1>7, AskKept DEF CloseInv
  <1> QED
    BY <1>5, <1>8 DEF CloseInv

\* the user learns what came of a call
LEMMA CloseReturned ==
    ASSUME CloseInv, TypeOK, Books, Place(stack), Returned, UNCHANGED <<sockVars, tlsVars, uwsVars>>
    PROVE  CloseInv'
  <1>1. /\ stack # <<>> /\ Is(Top, "user", "returned") /\ Pop /\ stack \in Seq(Frame)
        /\ UNCHANGED <<closing, closeReports, alive>>
    BY DEF Returned, Running, Top, Is, TypeOK
  <1>2. UNCHANGED <<on_ws_close_complete, session, uws_state>>
    BY DEF uwsVars
  <1>3. Role(Top) = IF Top.ret # 0 \/ Top.arg \notin {"close", "close_null"} THEN "none"
                    ELSE IF Top.n # 1 THEN "stray"
                    ELSE IF Top.arg = "close" THEN "closed" ELSE "closed_null"
    BY <1>1, Roles
  <1>4. PlainMove
    BY <1>1 DEF PlainMove
  <1>5. ReportInv'
    BY <1>1, <1>2, <1>3, <1>4, ReportKept DEF CloseInv
  <1>6. OnTop(stack, Top, Beneath) /\ stack' = Beneath
    BY <1>1, RunningTop, Goto0
  <1>7. Begun(stack) = stack
    BY <1>1 DEF Begun, Top, Is
  <1>8. Role(Top) # "stray"
    BY <1>6, <1>7 DEF CloseInv, AskInv, OnTop
  <1>9. PlainLeaves
    BY <1>1, <1>4, PlainEffects DEF CloseInv, ReportInv
  <1>10. Begun(stack)' = stack'
    BY <1>9 DEF PlainLeaves, Begun
  <1>11. CASE Role(Top) \in {"closed", "closed_null"}
    <2>1. Top.ret = 0 /\ Top.n = 1
      BY <1>3, <1>11
    <2>2. asked' = (IF Top.arg = "close" THEN asked \cup {1} ELSE asked \ {1})
          /\ (Top.arg = "close" <=> Role(Top) = "closed")
      BY <1>3, <1>11, <2>1 DEF Returned
    <2>3. asked \subseteq {1}
      BY DEF CloseInv, AskInv
    <2>4. asked' \subseteq {1} /\ (1 \in asked' => Role(Top) = "closed")
      BY <2>2, <2>3
    <2>5. Role(Top) = "closed" => on_ws_close_complete # 0
      BY <1>6, <1>7 DEF CloseInv, AskInv, OnTop
    <2>6. ~Has(stack', "stray") /\ (Has(stack', "closed") => on_ws_close_complete # 0)
      BY <1>6, <1>7 DEF CloseInv, AskInv, OnTop
    <2>7. Over \/ uws_state = "CLOSING_UNDERLYING_IO" \/ Handshaking(stack)
      BY <1>6, <1>7, <1>11 DEF CloseInv, AskInv, OnTop
    <2>8. Handshaking(stack) => ~Has(stack', "closed") /\ ~Has(stack', "closed_null")
      BY <1>1, <1>6 DEF Handshaking, Top, Beneath, Is
    <2>9. Has(stack', "closed") \/ Has(stack', "closed_null") =>
             Over' \/ uws_state' = "CLOSING_UNDERLYING_IO" \/ Handshaking(stack)'
      BY <1>2, <2>7, <2>8 DEF Over
    <2>10. AskInv'
      BY <1>2, <1>10, <2>4, <2>5, <2>6, <2>9 DEF AskInv
    <2> QED
      BY <1>5, <2>10 DEF CloseInv
  <1>12. CASE Role(Top) = "none"
    <2>1. ~Handshaking(stack)
      BY <1>1, <1>12 DEF Handshaking, Top, Is
    <2>2. asked' = asked
      BY <1>3, <1>12 DEF Returned
    <2>3. Over => Over'
      BY <1>2 DEF Over
    <2>4. AskInv'
      BY <1>1, <1>2, <1>4, <1>12, <2>1, <2>2, <2>3, AskKept DEF CloseInv, Is
    <2> QED
      BY <1>5, <2>4 DEF CloseInv
  <1> QED
    BY <1>3, <1>8, <1>11, <1>12

\* on_ws_close_complete is called
LEMMA CloseReported ==
    ASSUME CloseInv, TypeOK, Books, Place(stack), OnCloseComplete, UNCHANGED <<sockVars, tlsVars, uwsVars>>
    PROVE  CloseInv'
  <1> DEFINE a == MkFrame("user", "in_callback", "", 0, <<>>)
  <1>1. /\ stack # <<>> /\ Is(Top, "user", "on_ws_close_complete") /\ Goto(<<a>>) /\ stack \in Seq(Frame)
        /\ UNCHANGED <<closing, asked, alive>>
        /\ closeReports' = [closeReports EXCEPT ![Top.n] = @ + 1]
    BY DEF OnCloseComplete, InCallback, Running, Top, Is, TypeOK
  <1>2. UNCHANGED <<on_ws_close_complete, session, uws_state>>
    BY DEF uwsVars
  <1>3. Ordinary(a)
    BY OrdinaryUws
  <1>4. a.at = "user" /\ a.fn = "in_callback"
    BY DEF MkFrame
  <1> HIDE DEF a
  <1>5. OnTop(stack, Top, Beneath) /\ OnTop(stack', a, Beneath)
    BY <1>1, RunningTop, Goto1 DEF Stack1
  <1>6. Role(Top) = "telling" /\ Role(a) = "none"
    BY <1>1, <1>4, Roles
  <1>7. Top.n = on_ws_close_complete /\ Top.n = session /\ session \in closing /\ uws_state \notin Opening /\ session # 0
    BY <1>1 DEF CloseInv, ReportInv
  <1>8. Has(stack, "telling") /\ Over /\ ~Has(Beneath, "telling")
    BY <1>5, <1>6 DEF CloseInv, ReportInv, OnTop
  <1>9. closeReports[session] = 0 /\ session \in Sessions /\ closeReports \in [Sessions -> Nat]
    BY <1>8, OwnSession DEF CloseInv, ReportInv, TypeOK
  <1>10. closeReports'[session] = 1 /\ \A s \in Sessions : s # session => closeReports'[s] = closeReports[s]
    BY <1>1, <1>7, <1>9
  <1>11. ~Has(stack', "telling") /\ Apart(stack', "telling", "telling")
    <2>1. ~Has(stack', "telling")
      BY <1>5, <1>6, <1>8 DEF OnTop
    <2> QED
      BY <2>1 DEF Has, Apart
  <1>12. stack' # <<>> /\ Head(stack') = a /\ Tail(stack') = Beneath
    BY <1>5 DEF OnTop
  <1>13. Top' = a /\ Beneath' = Beneath
    BY <1>12 DEF Top, Beneath
  <1>14. Over' /\ (Over => uws_state' = "CLOSED")
    BY <1>2, <1>8 DEF Over
  <1>15. ReportInv'
    <2>1. \A s \in Sessions : s # session' \/ ~Over' => closeReports'[s] = 0
      BY <1>2, <1>10, <1>14 DEF CloseInv, ReportInv
    <2>2. Over' => /\ Apart(stack', "telling", "telling")
                   /\ closeReports'[session'] =
                        IF on_ws_close_complete' = 0 \/ Has(stack', "telling") THEN 0 ELSE 1
      BY <1>2, <1>7, <1>10, <1>11
    <2>3. stack' # <<>> =>
            /\ Is(Top', "user", "on_ws_close_complete") => Top'.n = on_ws_close_complete' /\ Top'.n # 0
            /\ Top'.at = "uws" /\ Top'.fn \in Changing => uws_state' # "CLOSED"
            /\ ~Has(Beneath', "decoding")
      <3>1. ~Has(Beneath, "decoding")
        BY <1>1 DEF CloseInv, ReportInv
      <3> QED
        BY <1>4, <1>13, <3>1 DEF Is
    <2>4. on_ws_close_complete' # 0 =>
            on_ws_close_complete' = session' /\ session' \in closing' /\ uws_state' \notin Opening
      BY <1>1, <1>2, <1>7
    <2> QED
      BY <1>14, <2>1, <2>2, <2>3, <2>4 DEF ReportInv
  <1>16. AskInv'
    <2>1. Begun(stack) = stack /\ Begun(stack)' = stack'
      BY <1>1, <1>4, <1>12 DEF Begun, Top, Is
    <2>2. \A role \in {"closed", "closed_null", "stray"} : Has(stack', role) <=> Has(stack, role)
      BY <1>5, <1>6 DEF OnTop
    <2>3. (1 \in asked /\ alive => on_ws_close_complete # 0 \/ Has(stack', "closed_null")) /\ asked \subseteq {1}
      BY <1>7, <2>1 DEF CloseInv, AskInv
    <2>4. ~Has(stack', "stray") /\ (Has(stack', "closed") => on_ws_close_complete # 0)
      BY <2>1, <2>2 DEF CloseInv, AskInv
    <2> QED
      BY <1>1, <1>2, <1>14, <2>1, <2>3, <2>4 DEF AskInv
  <1> QED
    BY <1>15, <1>16 DEF CloseInv

LEMMA CloseUserStep ==
    ASSUME CloseInv, TypeOK, Books, Place(stack), UserSteps, UNCHANGED <<sockVars, tlsVars, uwsVars>>
    PROVE  CloseInv'
  BY CloseUserPlain, CloseReturned, CloseReported

-----------------------------------------------------------------------------
\* the client has been closed
LEMMA CloseIndicated ==
    ASSUME CloseInv, TypeOK, Books, Place(stack), indicate_ws_close_complete, UNCHANGED userVars
    PROVE  CloseInv'
  <1> DEFINE a == Uws("clear_pending_sends")
             b == Uws("call_on_ws_close_complete")
  <1>1. /\ stack # <<>> /\ Top.at = "uws" /\ Top.fn = "indicate_ws_close_complete" /\ stack \in Seq(Frame)
        /\ Goto(<<a, b>>) /\ uws_state' = "CLOSED"
        /\ on_ws_close_complete' = on_ws_close_complete /\ session' = session
    BY DEF indicate_ws_close_complete, Running, Top, State, Others, TypeOK
  <1>2. UNCHANGED <<closing, closeReports, asked, alive>>
    BY DEF userVars
  <1>3. a.at = "uws" /\ a.fn = "clear_pending_sends" /\ Role(a) = "clearing" /\ Role(b) = "telling"
    <2>1. a.at = "uws" /\ a.fn = "clear_pending_sends" /\ b.at = "uws" /\ b.fn = "call_on_ws_close_complete"
      BY DEF Uws, MkFrame
    <2> HIDE DEF a, b
    <2> QED
      BY <2>1, Roles DEF Is
  <1> HIDE DEF a, b
  <1>4. OnTop(stack, Top, Beneath) /\ OnTop(stack', a, Tail(stack')) /\ OnTop(Tail(stack'), b, Beneath)
    BY <1>1, RunningTop, Goto2 DEF Stack2
  <1>5. Closes(stack)
    BY <1>1, RunsInPlace
  <1>6. Told /\ uws_state \notin Opening \cup {"CLOSED"}
    <2>1. Told /\ (uws_state = "CLOSING_UNDERLYING_IO" \/ uws_state \in Closing)
      BY <1>5 DEF Closes
    <2> QED
      BY <2>1 DEF Opening, Closing
  <1>7. session > 0 /\ ~Over /\ Over'
    BY <1>1, <1>6 DEF Told, Over
  <1>8. ~Has(Beneath, "telling") /\ \A s \in Sessions : closeReports[s] = 0
    BY <1>4, <1>7 DEF CloseInv, ReportInv, OnTop
  <1>9. Has(stack', "telling") /\ Apart(stack', "telling", "telling")
    <2>1. Apart(Beneath, "telling", "telling")
      BY <1>8 DEF Has, Apart
    <2> QED
      BY <1>3, <1>4, <1>8, <2>1 DEF OnTop
  <1>10. stack' # <<>> /\ Head(stack') = a
    BY <1>4 DEF OnTop
  <1>11. Top' = a /\ Beneath' = Tail(stack')
    BY <1>10 DEF Top, Beneath
  <1>12. ReportInv'
    <2>1. \A s \in Sessions : closeReports'[s] = 0
      BY <1>2, <1>8
    <2>2. session' \in Sessions
      BY <1>1, OwnSession
    <2>3. on_ws_close_complete' # 0 =>
            on_ws_close_complete' = session' /\ session' \in closing' /\ uws_state' \notin Opening
      BY <1>1, <1>2 DEF CloseInv, ReportInv, Opening
    <2>4. stack' # <<>> =>
            /\ Is(Top', "user", "on_ws_close_complete") => Top'.n = on_ws_close_complete' /\ Top'.n # 0
            /\ Top'.at = "uws" /\ Top'.fn \in Changing => uws_state' # "CLOSED"
            /\ ~Has(Beneath', "decoding")
      <3>1. ~Has(Beneath, "decoding")
        BY <1>1 DEF CloseInv, ReportInv
      <3>2. ~Has(Tail(stack'), "decoding")
        BY <1>3, <1>4, <3>1 DEF OnTop
      <3> QED
        BY <1>3, <1>11, <3>2 DEF Is, Changing
    <2> QED
      BY <1>7, <1>9, <2>1, <2>2, <2>3, <2>4 DEF ReportInv
  <1>13. AskInv'
    <2>1. Begun(stack) = stack /\ Begun(stack)' = stack'
      BY <1>1, <1>3, <1>10 DEF Begun, Top, CloseCalls
    <2>2. Role(Top) = "none"
      BY <1>1, Roles
    <2>3. \A role \in {"closed", "closed_null", "stray"} : Has(stack', role) <=> Has(stack, role)
      BY <1>3, <1>4, <2>2 DEF OnTop
    <2>4. (1 \in asked /\ alive => on_ws_close_complete # 0 \/ Has(stack', "closed_null")) /\ asked \subseteq {1}
      BY <2>1, <2>3 DEF CloseInv, AskInv
    <2>5. ~Has(stack', "stray") /\ (Has(stack', "closed") => on_ws_close_complete # 0)
      BY <2>1, <2>3 DEF CloseInv, AskInv
    <2> QED
      BY <1>1, <1>2, <1>7, <2>1, <2>4, <2>5 DEF AskInv
  <1> QED
    BY <1>12, <1>13 DEF CloseInv

\* its callback is called, if there is one
LEMMA CloseCalledBack ==
    ASSUME CloseInv, TypeOK, Books, Place(stack), call_on_ws_close_complete, UNCHANGED userVars
    PROVE  CloseInv'
  <1>1. /\ stack # <<>> /\ Is(Top, "uws", "call_on_ws_close_complete") /\ stack \in Seq(Frame)
    BY DEF call_on_ws_close_complete, Running, Top, Is, TypeOK
  <1>2. UNCHANGED <<closing, closeReports, asked, alive, on_ws_close_complete, session, uws_state>>
    BY DEF userVars, call_on_ws_close_complete, uwsVars
  <1>3. OnTop(stack, Top, Beneath) /\ Role(Top) = "telling" /\ Beneath \in Seq(Frame)
    BY <1>1, RunningTop, Roles
  <1>4. Over /\ ~Has(Beneath, "telling") /\ Apart(Beneath, "telling", "telling")
        /\ closeReports[session] = 0 /\ ~Has(Beneath, "decoding")
    BY <1>1, <1>3 DEF CloseInv, ReportInv, OnTop
  <1>5. Begun(stack) = stack
    BY <1>1 DEF Begun, Top, Is, CloseCalls
  <1>6. uws_state = "CLOSED" /\ Over'
    BY <1>2, <1>4 DEF Over
  <1>7. ASSUME stack' # <<>> =>
                 /\ Is(Head(stack'), "user", "on_ws_close_complete") =>
                      Head(stack').n = on_ws_close_complete /\ on_ws_close_complete # 0
                 /\ Head(stack').at = "uws" => Head(stack').fn \notin CloseCalls \cup Changing
                 /\ ~Has(Tail(stack'), "decoding"),
               \A role \in {"closed", "closed_null", "stray"} : Has(stack', role) <=> Has(Beneath, role),
               Apart(stack', "telling", "telling"),
               Has(stack', "telling") \/ on_ws_close_complete = 0
        PROVE  CloseInv'
    <2>1. Begun(stack)' = stack'
      BY <1>7 DEF Begun
    <2>2. \A role \in {"closed", "closed_null", "stray"} : Has(stack', role) <=> Has(stack, role)
      BY <1>3, <1>7 DEF OnTop
    <2>3. (1 \in asked /\ alive => on_ws_close_complete # 0 \/ Has(stack', "closed_null")) /\ asked \subseteq {1}
      BY <1>5, <2>2 DEF CloseInv, AskInv
    <2>4. ~Has(stack', "stray") /\ (Has(stack', "closed") => on_ws_close_complete # 0)
      BY <1>5, <2>2 DEF CloseInv, AskInv
    <2>5. AskInv'
      BY <1>2, <1>6, <2>1, <2>3, <2>4 DEF AskInv
    <2>6. Top' = Head(stack') /\ Beneath' = Tail(stack')
      BY DEF Top, Beneath
    <2>7. stack' # <<>> =>
            /\ Is(Top', "user", "on_ws_close_complete") => Top'.n = on_ws_close_complete' /\ Top'.n # 0
            /\ Top'.at = "uws" /\ Top'.fn \in Changing => uws_state' # "CLOSED"
            /\ ~Has(Beneath', "decoding")
      BY <1>2, <1>7, <2>6
    <2>8. \A s \in Sessions : s # session' \/ ~Over' => closeReports'[s] = 0
      BY <1>2, <1>4, <1>6 DEF CloseInv, ReportInv
    <2>9. on_ws_close_complete' # 0 =>
            on_ws_close_complete' = session' /\ session' \in closing' /\ uws_state' \notin Opening
      BY <1>2 DEF CloseInv, ReportInv
    <2>10. ReportInv'
      BY <1>2, <1>4, <1>6, <1>7, <2>7, <2>8, <2>9 DEF ReportInv
    <2> QED
      BY <2>5, <2>10 DEF CloseInv
  <1>8. CASE on_ws_close_complete = 0
    <2>1. stack' = Beneath
      <3>1. Goto(<<>>)
        BY <1>8 DEF call_on_ws_close_complete
      <3> QED
        BY <1>1, <3>1, Goto0
    <2>2. ASSUME Beneath # <<>>
          PROVE  /\ ~Is(Head(Beneath), "user", "on_ws_close_complete")
                 /\ Head(Beneath).at = "uws" => Head(Beneath).fn \notin CloseCalls \cup Changing
                 /\ ~Has(Tail(Beneath), "decoding")
      <3> DEFINE f == Head(Beneath)
      <3>1. OnTop(Beneath, f, Tail(Beneath))
        BY <1>3, <2>2, TopOnTop
      <3>2. /\ ~Is(f, "user", "on_ws_close_complete")
            /\ f.at = "uws" => f.fn \notin CloseCalls /\ (f.fn \in Changing => f.fn = "decode_frame")
        BY <1>1, <2>2, BeneathPlain
      <3> HIDE DEF f
      <3>3. Role(f) # "decoding" /\ ~Has(Tail(Beneath), "decoding")
        BY <1>4, <3>1 DEF OnTop
      <3>4. ~Is(f, "uws", "decode_frame")
        BY <3>3, Roles
      <3> QED
        BY <3>2, <3>3, <3>4 DEF Is, f
    <2> QED
      BY <1>4, <1>7, <1>8, <2>1, <2>2
  <1>9. CASE on_ws_close_complete # 0
    <2> DEFINE r == User("on_ws_close_complete", "", on_ws_close_complete, <<>>)
    <2>1. Goto(<<r>>)
      BY <1>9 DEF call_on_ws_close_complete
    <2>2. Is(r, "user", "on_ws_close_complete") /\ r.n = on_ws_close_complete
      BY DEF User, MkFrame, Is
    <2> HIDE DEF r
    <2>3. OnTop(stack', r, Beneath) /\ Role(r) = "telling"
      BY <1>1, <2>1, <2>2, Goto1, Roles DEF Stack1
    <2>4. Head(stack') = r /\ Tail(stack') = Beneath /\ Has(stack', "telling") /\ Apart(stack', "telling", "telling")
          /\ \A role \in {"closed", "closed_null", "stray"} : Has(stack', role) <=> Has(Beneath, role)
      BY <1>4, <2>3 DEF OnTop
    <2> QED
      BY <1>4, <1>7, <1>9, <2>2, <2>4 DEF Is
  <1> QED
    BY <1>8, <1>9

-----------------------------------------------------------------------------
\* the call that closes, the user or the destructor that made it, and what is beneath them
Closer(f, t) ==
    /\ OnTop(stack, Top, Beneath) /\ OnTop(Beneath, f, t) /\ f \in Frame
    /\ Role(Top) = "none" /\ Begun(stack) = t
    /\ Settled /\ Top.at = "uws" /\ Top.fn \in CloseCalls
    /\ \/ /\ Is(f, "user", "returned") /\ f.ret = 0 /\ f.n = session /\ session \in closing /\ alive
          /\ \/ Top.arg = "cb" /\ f.arg = "close"
             \/ Top.arg = "NULL" /\ f.arg = "close_null" /\ Top.fn = "uws_client_close_async"
       \/ /\ ~alive /\ Is(f, "socket", "destroy")
          /\ Top.arg = "NULL" /\ Top.fn = "uws_client_close_async"

LEMMA CalledCloser ==
    ASSUME stack \in Seq(Frame), stack # <<>>, Place(stack), Top.at = "uws", Top.fn \in CloseCalls
    PROVE  Closer(Head(Beneath), Tail(Beneath))
  <1>1. Called(stack)
    BY RunsInPlace DEF CloseCalls, Api
  <1>2. Top = Head(stack) /\ Beneath = Tail(stack)
    BY DEF Top, Beneath
  <1>3. Beneath # <<>>
    BY <1>1, <1>2 DEF Called, CloseCalls
  <1>4. OnTop(stack, Top, Beneath) /\ Beneath \in Seq(Frame)
    BY RunningTop
  <1>5. OnTop(Beneath, Head(Beneath), Tail(Beneath)) /\ Head(Beneath) \in Frame
    BY <1>3, <1>4, TopOnTop
  <1>6. Role(Top) = "none"
    BY Roles DEF CloseCalls
  <1>7. Begun(stack) = Tail(Beneath)
    BY <1>2 DEF Begun
  <1>8. Settled
    BY <1>1 DEF Called
  <1>9. \/ /\ Is(Head(Beneath), "user", "returned") /\ Head(Beneath).ret = 0 /\ Head(Beneath).n = session
           /\ session \in closing /\ alive
           /\ \/ Top.arg = "cb" /\ Head(Beneath).arg = "close"
              \/ Top.arg = "NULL" /\ Head(Beneath).arg = "close_null" /\ Top.fn = "uws_client_close_async"
        \/ /\ ~alive /\ Is(Head(Beneath), "socket", "destroy")
           /\ Top.arg = "NULL" /\ Top.fn = "uws_client_close_async"
    BY <1>1, <1>2 DEF Called, CloseCalls
  <1> QED
    BY <1>4, <1>5, <1>6, <1>7, <1>8, <1>9 DEF Closer

\* Where a close was accepted, the session is over or the socket is being closed; a client that can
\* still be closed has none.
LEMMA NothingAccepted ==
    ASSUME CloseInv, NEW f, NEW t, Closer(f, t)
    PROVE  /\ uws_state # "CLOSED" => ~Has(t, "closed") /\ ~Has(t, "closed_null")
           /\ Has(t, "closed") \/ Has(t, "closed_null") => Over
           /\ ~Has(t, "stray") /\ (Has(t, "closed") => on_ws_close_complete # 0)
           /\ 1 \in asked /\ alive => on_ws_close_complete # 0 \/ Has(t, "closed_null")
           /\ asked \subseteq {1}
           /\ Has(stack, "telling") <=> Role(f) = "telling" \/ Has(t, "telling")
  <1>1. Has(t, "closed") \/ Has(t, "closed_null") =>
          Over \/ uws_state = "CLOSING_UNDERLYING_IO" \/ Handshaking(stack)
    BY DEF CloseInv, AskInv, Closer
  <1>2. uws_state # "CLOSING_UNDERLYING_IO"
    BY DEF Closer, Settled
  <1>3. ~Handshaking(stack)
    BY DEF Closer, Handshaking, Top
  <1>4. Has(stack, "telling") <=> Role(f) = "telling" \/ Has(t, "telling")
    BY DEF Closer, OnTop
  <1>5. ~Has(t, "stray") /\ (Has(t, "closed") => on_ws_close_complete # 0)
        /\ (1 \in asked /\ alive => on_ws_close_complete # 0 \/ Has(t, "closed_null")) /\ asked \subseteq {1}
    BY DEF CloseInv, AskInv, Closer
  <1> QED
    BY <1>1, <1>2, <1>3, <1>4, <1>5 DEF Over

LEMMA CloserRole ==
    ASSUME NEW f, NEW t, Closer(f, t), session \in {0, 1}
    PROVE  /\ Role(f) \in {"none", "closed", "closed_null", "stray"}
           /\ session = 1 => Role(f) = IF ~alive THEN "none" ELSE IF Top.arg = "cb" THEN "closed" ELSE "closed_null"
           /\ Role(Given(f, 1)) = "none"
           /\ Given(f, 1).at # "uws" /\ ~Is(Given(f, 1), "user", "on_ws_close_complete")
  <1>1. /\ Given(f, 1).at = f.at /\ Given(f, 1).fn = f.fn /\ Given(f, 1).arg = f.arg /\ Given(f, 1).ret = 1
    BY GivenParts DEF Closer
  <1>2. CASE Is(f, "user", "returned")
    BY <1>1, <1>2, Roles DEF Closer, Is
  <1>3. CASE Is(f, "socket", "destroy")
    <2>1. Role(f) = "none" /\ Role(Given(f, 1)) = "none"
      BY <1>1, <1>3 DEF Is, Role
    <2> QED
      BY <1>1, <1>3, <2>1 DEF Closer, Is
  <1> QED
    BY <1>2, <1>3 DEF Closer

\* The call fails, or the frame it sends does; the callback may have been taken.
LEMMA CloseFails ==
    ASSUME CloseInv, TypeOK, Books, OneSession, NEW f, NEW t, Closer(f, t), Return(1), stack # <<>>,
           UNCHANGED <<closing, closeReports, asked, alive, session>>,
           \/ UNCHANGED <<on_ws_close_complete, uws_state>>
           \/ /\ uws_state # "CLOSED" /\ uws_state' \notin Opening \cup {"CLOSED"}
              /\ on_ws_close_complete' = session /\ session \in closing
    PROVE  CloseInv'
  <1> DEFINE g == Given(f, 1)
  <1>1. OnTop(stack', g, t)
    <2>1. Beneath # <<>> /\ f = Head(Beneath) /\ t = Tail(Beneath)
      BY DEF Closer, OnTop
    <2> QED
      BY <2>1, ReturnTop DEF Stack1, TypeOK
  <1>2. session \in {0, 1} /\ session \in Sessions
    BY FirstSession, OwnSession
  <1>3. Role(g) = "none" /\ g.at # "uws" /\ ~Is(g, "user", "on_ws_close_complete")
        /\ Role(f) \in {"none", "closed", "closed_null", "stray"}
    BY <1>2, CloserRole
  <1> HIDE DEF g
  <1>5. \A role \in CloseRoles : Has(stack', role) <=> Has(t, role)
    BY <1>1, <1>3 DEF OnTop, CloseRoles
  <1>6. stack' # <<>> /\ Head(stack') = g /\ Tail(stack') = t
    BY <1>1 DEF OnTop
  <1>7. Top' = g /\ Beneath' = t /\ Begun(stack)' = stack'
    BY <1>3, <1>6 DEF Top, Beneath, Begun
  <1>8. Has(stack', "telling") <=> Has(stack, "telling")
    BY <1>3, <1>5, NothingAccepted DEF CloseRoles
  <1>9. Apart(stack, "telling", "telling") => Apart(stack', "telling", "telling")
    <2>1. Apart(stack, "telling", "telling") => Apart(t, "telling", "telling")
      BY DEF Closer, OnTop
    <2> QED
      BY <1>1, <1>3, <2>1 DEF OnTop
  <1>10. ~Has(t, "decoding")
    BY DEF CloseInv, ReportInv, Closer, OnTop
  <1>11. Over' <=> Over
    BY DEF Over
  <1>12. ReportInv'
    <2>1. on_ws_close_complete' # 0 =>
            on_ws_close_complete' = session' /\ session' \in closing' /\ uws_state' \notin Opening
      BY DEF CloseInv, ReportInv
    <2>2. \A s \in Sessions : s # session' \/ ~Over' => closeReports'[s] = 0
      BY <1>11 DEF CloseInv, ReportInv
    <2>3. Over' => /\ Apart(stack', "telling", "telling")
                   /\ closeReports'[session'] =
                        IF on_ws_close_complete' = 0 \/ Has(stack', "telling") THEN 0 ELSE 1
      BY <1>8, <1>9, <1>11 DEF CloseInv, ReportInv, Over
    <2>4. ~Over' => ~Has(stack', "telling")
      BY <1>8, <1>11 DEF CloseInv, ReportInv
    <2>5. stack' # <<>> =>
            /\ Is(Top', "user", "on_ws_close_complete") => Top'.n = on_ws_close_complete' /\ Top'.n # 0
            /\ Top'.at = "uws" /\ Top'.fn \in Changing => uws_state' # "CLOSED"
            /\ ~Has(Beneath', "decoding")
      BY <1>3, <1>7, <1>10
    <2> QED
      BY <2>1, <2>2, <2>3, <2>4, <2>5 DEF ReportInv
  <1>13. AskInv'
    <2>1. session = 0 => uws_state = "CLOSED"
      BY DEF Closer, Settled
    <2>2. on_ws_close_complete # 0 => on_ws_close_complete' # 0
      <3>1. CASE UNCHANGED <<on_ws_close_complete, uws_state>>
        BY <3>1
      <3>2. CASE uws_state # "CLOSED" /\ on_ws_close_complete' = session
        BY <2>1, <3>2
      <3> QED
        BY <3>1, <3>2
    <2>3. (1 \in asked /\ alive => on_ws_close_complete' # 0 \/ Has(stack', "closed_null")) /\ asked \subseteq {1}
      BY <1>5, <2>2, NothingAccepted DEF CloseRoles
    <2>4. ~Has(stack', "stray") /\ (Has(stack', "closed") => on_ws_close_complete' # 0)
      BY <1>5, <2>2, NothingAccepted DEF CloseRoles
    <2>5. Has(stack', "closed") \/ Has(stack', "closed_null") => Over'
      BY <1>5, <1>11, NothingAccepted DEF CloseRoles
    <2> QED
      BY <1>7, <2>3, <2>4, <2>5 DEF AskInv
  <1> QED
    BY <1>12, <1>13 DEF CloseInv

\* The call begins, with the frame a on top and maybe the rest of the function, b, beneath it.
LEMMA CloseBegins ==
    ASSUME CloseInv, TypeOK, Books, OneSession, NEW f, NEW t, Closer(f, t), uws_state # "CLOSED",
           NEW a, NEW u, OnTop(stack', a, u), Role(a) = "none", a.at = "socket",
           \/ u = Beneath /\ uws_state' = "CLOSING_WAITING_FOR_CLOSE" /\ alive /\ Top.arg = "cb" /\ a.fn = "send"
           \/ \E b : OnTop(u, b, Beneath) /\ Role(b) = "none" /\ uws_state' = "CLOSING_UNDERLYING_IO",
           UNCHANGED <<closing, closeReports, asked, alive, session>>,
           on_ws_close_complete' = PassedCallback
    PROVE  CloseInv'
  <1>1. session = 1 /\ session \in Sessions
    <2>1. session # 0
      BY DEF Closer, Settled
    <2> QED
      BY <2>1, FirstSession, OwnSession
  <1>2. /\ ~Has(t, "closed") /\ ~Has(t, "closed_null") /\ ~Has(t, "stray") /\ asked \subseteq {1}
        /\ Has(stack, "telling") <=> Role(f) = "telling" \/ Has(t, "telling")
    BY NothingAccepted
  <1>3. Role(f) = IF ~alive THEN "none" ELSE IF Top.arg = "cb" THEN "closed" ELSE "closed_null"
    BY <1>1, CloserRole
  <1>4. ~Over /\ ~Over' /\ uws_state' \notin Opening
    BY DEF Over, Opening
  <1>5. ~Has(stack, "telling") /\ \A s \in Sessions : closeReports[s] = 0
    BY <1>4 DEF CloseInv, ReportInv
  <1>6. ~Has(Beneath, "decoding")
    BY DEF CloseInv, ReportInv, Closer, OnTop
  <1>7. \A role : role # "none" => (Has(stack', role) <=> Role(f) = role \/ Has(t, role))
    BY DEF OnTop, Closer
  <1>8. ~Has(u, "decoding")
    BY <1>6 DEF OnTop
  <1>9. stack' # <<>> /\ Head(stack') = a /\ Tail(stack') = u
    BY DEF OnTop
  <1>10. Top' = a /\ Beneath' = u /\ Begun(stack)' = stack'
    BY <1>9 DEF Top, Beneath, Begun
  <1>11. on_ws_close_complete' = (IF Top.arg = "NULL" THEN 0 ELSE 1) /\ (Top.arg = "cb" => alive /\ session \in closing)
         /\ (Top.arg \in {"cb", "NULL"})
    BY <1>1 DEF PassedCallback, Closer
  <1>12. ReportInv'
    <2>1. on_ws_close_complete' # 0 =>
            on_ws_close_complete' = session' /\ session' \in closing' /\ uws_state' \notin Opening
      BY <1>1, <1>4, <1>11
    <2>2. \A s \in Sessions : closeReports'[s] = 0
      BY <1>5
    <2>3. ~Has(stack', "telling")
      BY <1>2, <1>5, <1>7
    <2>4. stack' # <<>> =>
            /\ Is(Top', "user", "on_ws_close_complete") => Top'.n = on_ws_close_complete' /\ Top'.n # 0
            /\ Top'.at = "uws" /\ Top'.fn \in Changing => uws_state' # "CLOSED"
            /\ ~Has(Beneath', "decoding")
      BY <1>8, <1>10 DEF Is
    <2> QED
      BY <1>4, <2>1, <2>2, <2>3, <2>4 DEF ReportInv
  <1>13. AskInv'
    <2>1. (1 \in asked /\ alive => on_ws_close_complete' # 0 \/ Has(stack', "closed_null"))
      BY <1>3, <1>7, <1>11
    <2>2. ~Has(stack', "stray") /\ (Has(stack', "closed") => on_ws_close_complete' # 0)
      BY <1>2, <1>3, <1>7, <1>11
    <2>3. uws_state' = "CLOSING_UNDERLYING_IO" \/ Handshaking(stack)'
      <3>1. CASE u = Beneath /\ uws_state' = "CLOSING_WAITING_FOR_CLOSE" /\ alive /\ Top.arg = "cb" /\ a.fn = "send"
        <4>1. Role(f) = "closed" /\ u # <<>> /\ Head(u) = f /\ Tail(u) = t
          BY <1>3, <3>1 DEF Closer, OnTop
        <4>2. ~Has(u, "closed_null")
          BY <1>2, <3>1, <4>1 DEF Closer, OnTop
        <4> QED
          BY <1>2, <1>9, <3>1, <4>1, <4>2 DEF Handshaking
      <3> QED
        BY <3>1
    <2> QED
      BY <1>2, <1>10, <2>1, <2>2, <2>3 DEF AskInv
  <1> QED
    BY <1>12, <1>13 DEF CloseInv

LEMMA CloseAsync ==
    ASSUME CloseInv, TypeOK, Books, Place(stack), SocketClient, OneSession, uws_client_close_async, UNCHANGED userVars
    PROVE  CloseInv'
  <1>1. stack # <<>> /\ stack \in Seq(Frame) /\ Top.at = "uws" /\ Top.fn = "uws_client_close_async"
        /\ UNCHANGED <<closing, closeReports, asked, alive, session>>
    BY DEF uws_client_close_async, Running, Top, TypeOK, userVars, uwsVars
  <1>2. PICK f, t : Closer(f, t)
    BY <1>1, CalledCloser DEF CloseCalls
  <1>3. CASE Return(1) /\ UNCHANGED uwsVars
    BY <1>1, <1>2, <1>3, CloseFails DEF uwsVars
  <1>4. CASE uws_state # "CLOSED"
    <2> DEFINE a == xio_close("uws", "close_complete")
               b == Uws("close_async_closed")
    <2>1. Goto(<<a, b>>) /\ on_ws_close_complete' = PassedCallback /\ uws_state' = "CLOSING_UNDERLYING_IO"
      BY <1>4 DEF uws_client_close_async, State
    <2>2. a.fn = "close" /\ b.fn = "close_async_closed"
      BY DEF xio_close, Uws, MkFrame
    <2>3. a.at = Below("uws")
      BY DEF xio_close, MkFrame
    <2> HIDE DEF a, b
    <2>4. Role(a) = "none" /\ Role(b) = "none"
      BY <2>2, Roles
    <2>5. OnTop(stack', a, Tail(stack')) /\ OnTop(Tail(stack'), b, Beneath)
      BY <1>1, <2>1, Goto2 DEF Stack2
    <2>6. a.at = "socket"
      BY <2>3, Neighbours
    <2> QED
      BY <1>1, <1>2, <1>4, <2>1, <2>4, <2>5, <2>6, CloseBegins
  <1> QED
    BY <1>3, <1>4 DEF uws_client_close_async

LEMMA CloseHandshake ==
    ASSUME CloseInv, TypeOK, Books, Place(stack), SocketClient, OneSession, uws_client_close_handshake_async, UNCHANGED userVars
    PROVE  CloseInv'
  <1>1. stack # <<>> /\ stack \in Seq(Frame) /\ Top.at = "uws" /\ Top.fn = "uws_client_close_handshake_async"
        /\ UNCHANGED <<closing, closeReports, asked, alive, session>>
    BY DEF uws_client_close_handshake_async, Running, Top, TypeOK, userVars, uwsVars
  <1>2. PICK f, t : Closer(f, t)
    BY <1>1, CalledCloser DEF CloseCalls
  <1>3. CASE Return(1) /\ UNCHANGED uwsVars
    BY <1>1, <1>2, <1>3, CloseFails DEF uwsVars
  <1>4. CASE uws_state \notin Closing \cup {"CLOSED"}
    <2>1. on_ws_close_complete' = PassedCallback /\ uws_state' = "CLOSING_WAITING_FOR_CLOSE"
      BY <1>4 DEF uws_client_close_handshake_async, State
    <2>2. Top.arg = "cb" /\ alive /\ session \in closing
      BY <1>1, <1>2 DEF Closer
    <2>3. CASE Return(1)
      <3>1. on_ws_close_complete' = session /\ uws_state' \notin Opening \cup {"CLOSED"}
        BY <2>1, <2>2 DEF PassedCallback, Opening
      <3> QED
        BY <1>1, <1>2, <1>4, <2>2, <2>3, <3>1, CloseFails
    <2>4. CASE Goto(<<xio_send("uws", "unchecked_on_send_complete", 0)>>)
      <3> DEFINE a == xio_send("uws", "unchecked_on_send_complete", 0)
      <3>1. a.fn = "send" /\ a.at = Below("uws")
        BY DEF xio_send, MkFrame
      <3>2. Goto(<<a>>)
        BY <2>4
      <3> HIDE DEF a
      <3>3. Role(a) = "none" /\ (a.at = "socket")
        BY <3>1, Roles, Neighbours
      <3>4. OnTop(stack', a, Beneath)
        BY <1>1, <3>2, Goto1 DEF Stack1
      <3> QED
        BY <1>1, <1>2, <1>4, <2>1, <2>2, <3>1, <3>3, <3>4, CloseBegins
    <2> QED
      BY <1>4, <2>3, <2>4 DEF uws_client_close_handshake_async
  <1> QED
    BY <1>3, <1>4 DEF uws_client_close_handshake_async

\* the first session begins
LEMMA CloseOpens ==
    ASSUME CloseInv, TypeOK, Books, Place(stack), OneSession, SocketClient,
           uws_client_open_async, UNCHANGED userVars
    PROVE  CloseInv'
  <1> DEFINE a == xio_open("uws")
             b == Uws("xio_open_returned")
             r == Head(Beneath)
  <1>1. stack # <<>> /\ stack \in Seq(Frame) /\ Top.at = "uws" /\ Top.fn = "uws_client_open_async"
        /\ UNCHANGED <<closing, closeReports, asked, alive>>
    BY DEF uws_client_open_async, Running, Top, TypeOK, userVars
  <1>2. Called(stack) /\ Top = Head(stack) /\ Beneath = Tail(stack)
    BY <1>1, RunsInPlace DEF Api, Top, Beneath
  <1>3. /\ Settled /\ Beneath # <<>> /\ Is(r, "user", "returned") /\ r.arg = "open" /\ alive
        /\ session < opens /\ Tail(Beneath) = <<>>
    BY <1>1, <1>2 DEF Called
  <1>4. session = 0 /\ uws_state = "CLOSED" /\ on_ws_close_complete = 0
    <2>1. session = 0 /\ uws_state = "CLOSED"
      BY <1>3, FirstSession DEF Settled
    <2> QED
      BY <2>1 DEF CloseInv, ReportInv
  <1>5. /\ Goto(<<a, b>>) /\ uws_state' = "OPENING_UNDERLYING_IO" /\ on_ws_close_complete' = 0
    BY <1>4 DEF uws_client_open_async, State
  <1>6. /\ OnTop(stack, Top, Beneath) /\ OnTop(Beneath, r, <<>>)
        /\ OnTop(stack', a, Tail(stack')) /\ OnTop(Tail(stack'), b, Beneath)
    <2>1. OnTop(stack, Top, Beneath) /\ Beneath \in Seq(Frame)
      BY <1>1, RunningTop
    <2>2. OnTop(Beneath, r, <<>>)
      BY <1>3, <2>1, TopOnTop
    <2> QED
      BY <1>1, <1>5, <2>1, <2>2, Goto2 DEF Stack2
  <1>7. a.at = "socket" /\ Role(a) = "none" /\ Role(b) = "none" /\ Role(r) = "none" /\ Role(Top) = "none"
    <2>1. a.at = Below("uws") /\ a.fn = "open" /\ b.fn = "xio_open_returned"
      BY DEF xio_open, Uws, MkFrame
    <2> HIDE DEF a, b, r
    <2>2. Role(r) = "none"
      BY <1>3, Roles
    <2> QED
      BY <1>1, <2>1, <2>2, Roles, Neighbours
  <1> HIDE DEF a, b, r
  <1>8. \A role : role # "none" => ~Has(stack, role) /\ ~Has(stack', role) /\ ~Has(Tail(stack'), role)
    BY <1>6, <1>7, NothingWaits DEF OnTop
  <1>9. stack' # <<>> /\ Head(stack') = a
    BY <1>6 DEF OnTop
  <1>10. Top' = a /\ Beneath' = Tail(stack') /\ Begun(stack)' = stack' /\ Begun(stack) = stack
    BY <1>1, <1>7, <1>9 DEF Top, Beneath, Begun, CloseCalls
  <1>11. ReportInv'
    <2>1. \A s \in Sessions : closeReports'[s] = 0
      BY <1>1, <1>4 DEF CloseInv, ReportInv, Over
    <2>2. ~Over'
      BY <1>5 DEF Over
    <2>3. stack' # <<>> =>
            /\ Is(Top', "user", "on_ws_close_complete") => Top'.n = on_ws_close_complete' /\ Top'.n # 0
            /\ Top'.at = "uws" /\ Top'.fn \in Changing => uws_state' # "CLOSED"
            /\ ~Has(Beneath', "decoding")
      BY <1>7, <1>8, <1>10 DEF Is
    <2> QED
      BY <1>5, <1>8, <2>1, <2>2, <2>3 DEF ReportInv
  <1>12. AskInv'
    <2>1. 1 \notin asked /\ asked \subseteq {1}
      BY <1>3, <1>4, <1>8, <1>10 DEF CloseInv, AskInv
    <2> QED
      BY <1>1, <1>8, <1>10, <2>1 DEF AskInv
  <1> QED
    BY <1>11, <1>12 DEF CloseInv

\* the user destroys the client
LEMMA CloseDestroys ==
    ASSUME CloseInv, TypeOK, Books, Place(stack), uws_client_destroy, UNCHANGED userVars
    PROVE  CloseInv'
  <1> DEFINE a == MkFrame("uws", "uws_client_close_async", "NULL", 0, <<>>)
             b == xio_destroy("uws")
             c == Uws("clear_pending_sends")
  <1>1. stack # <<>> /\ stack \in Seq(Frame) /\ Top.at = "uws" /\ Top.fn = "uws_client_destroy"
        /\ UNCHANGED <<closing, closeReports, asked, alive, on_ws_close_complete, session, uws_state>>
    BY DEF uws_client_destroy, Running, Top, TypeOK, userVars, uwsVars
  <1>2. Called(stack) /\ Top = Head(stack) /\ Beneath = Tail(stack)
    BY <1>1, RunsInPlace DEF Api, Top, Beneath
  <1>3. ~alive /\ Beneath = <<>>
    BY <1>1, <1>2 DEF Called
  <1>4. Goto(<<a>> \o <<b, c>>) \/ Goto(<<>> \o <<b, c>>)
    BY DEF uws_client_destroy
  <1>5. a.at = "uws" /\ a.fn = "uws_client_close_async" /\ b.fn = "destroy" /\ c.fn = "clear_pending_sends"
    BY DEF MkFrame, xio_destroy, Uws
  <1> HIDE DEF a, b, c
  <1>6. Role(a) = "none" /\ Role(b) = "none" /\ Role(c) \in {"none", "clearing"} /\ Role(Top) = "none"
    <2>1. Role(c) \in {"none", "clearing"}
      BY <1>5 DEF Role, Is
    <2> QED
      BY <1>1, <1>5, <2>1, Roles
  <1>7. <<a>> \o <<b, c>> = <<a, b, c>> /\ <<>> \o <<b, c>> = <<b, c>>
    BY ONLY ConcatTuples
  <1>8. OnTop(stack, Top, <<>>)
    BY <1>1, <1>3, RunningTop
  <1> DEFINE Clean(s) == \A role : role \notin {"none", "clearing"} => ~Has(s, role)
  <1>9. ASSUME NEW u, NEW x, NEW t, OnTop(u, x, t), Clean(t), Role(x) \in {"none", "clearing"}
        PROVE  Clean(u) /\ u # <<>> /\ Head(u) = x /\ Tail(u) = t
    BY <1>9 DEF OnTop
  <1>10. Clean(<<>>)
    BY NothingWaits
  <1> HIDE DEF Clean
  <1>11. Clean(stack') /\ Clean(Tail(stack')) /\ Clean(Tail(Tail(stack'))) /\ stack' # <<>> /\ Head(stack') \in {a, b}
    <2>1. CASE Goto(<<a, b, c>>)
      <3>1. Stack3(stack', a, b, c, <<>>)
        BY <1>1, <1>3, <2>1, Goto3
      <3>2. OnTop(stack', a, Tail(stack')) /\ OnTop(Tail(stack'), b, Tail(Tail(stack')))
            /\ OnTop(Tail(Tail(stack')), c, <<>>)
        BY <3>1 DEF Stack3, Stack2
      <3>3. Clean(Tail(Tail(stack')))
        BY <1>6, <1>9, <1>10, <3>2
      <3>4. Clean(Tail(stack'))
        BY <1>6, <1>9, <3>2, <3>3
      <3> QED
        BY <1>6, <1>9, <3>2, <3>3, <3>4
    <2>2. CASE Goto(<<b, c>>)
      <3>1. OnTop(stack', b, Tail(stack')) /\ OnTop(Tail(stack'), c, <<>>)
        BY <1>1, <1>3, <2>2, Goto2 DEF Stack2
      <3>2. Clean(Tail(stack')) /\ Tail(Tail(stack')) = <<>>
        BY <1>6, <1>9, <1>10, <3>1
      <3> QED
        BY <1>6, <1>9, <1>10, <3>1, <3>2
    <2> QED
      BY <1>4, <1>7, <2>1, <2>2
  <1>12. Clean(stack)
    BY <1>6, <1>8, <1>9, <1>10
  <1>13. Top' = Head(stack') /\ Beneath' = Tail(stack')
         /\ (Begun(stack)' = stack' \/ Begun(stack)' = Tail(Tail(stack')))
    BY DEF Top, Beneath, Begun
  <1>14. ReportInv'
    <2>1. ~Has(stack, "telling") /\ ~Has(stack', "telling") /\ ~Has(Tail(stack'), "decoding")
      BY <1>11, <1>12 DEF Clean
    <2>2. Apart(stack', "telling", "telling")
      BY <2>1 DEF Has, Apart
    <2>3. Over' <=> Over
      BY <1>1 DEF Over
    <2>4. Top'.fn \in {"uws_client_close_async", "destroy"}
      BY <1>5, <1>11, <1>13
    <2>5. stack' # <<>> =>
            /\ Is(Top', "user", "on_ws_close_complete") => Top'.n = on_ws_close_complete' /\ Top'.n # 0
            /\ Top'.at = "uws" /\ Top'.fn \in Changing => uws_state' # "CLOSED"
            /\ ~Has(Beneath', "decoding")
      BY <1>13, <2>1, <2>4 DEF Is, Changing
    <2> QED
      BY <1>1, <2>1, <2>2, <2>3, <2>5 DEF CloseInv, ReportInv
  <1>15. AskInv'
    <2>1. \A role \in {"closed", "closed_null", "stray"} : ~Has(Begun(stack)', role)
      BY <1>11, <1>13 DEF Clean
    <2> QED
      BY <1>1, <1>3, <2>1 DEF CloseInv, AskInv
  <1> QED
    BY <1>14, <1>15 DEF CloseInv

LEMMA CloseUws ==
    ASSUME CloseInv, TypeOK, Books, Place(stack), OneSession, SocketClient, UwsNext,
           UNCHANGED <<sockVars, tlsVars, userVars>>
    PROVE  CloseInv'
  <1>1. UNCHANGED userVars
    OBVIOUS
  <1> QED
    BY <1>1, CloseUwsPlain, CloseIndicated, CloseCalledBack, CloseAsync, CloseHandshake, CloseOpens, CloseDestroys

-----------------------------------------------------------------------------
\* the frame on which a call is made waits beneath it, and is to a close what it was
LEMMA CallRoles ==
    ASSUME stack \in Seq(Frame), stack = <<>> \/ Running("user", "in_callback"),
           NEW f, NEW a, NEW c, NEW n, Call(f, a, c, n)
    PROVE  LET m == MkFrame("uws", f, a, n, <<>>)
               r == MkFrame("user", "returned", c, n, <<>>)
               t == Tail(Tail(stack'))
           IN  /\ OnTop(stack', m, Tail(stack')) /\ OnTop(Tail(stack'), r, t)
               /\ \A role : role # "none" => (Has(t, role) <=> Has(stack, role))
               /\ Apart(stack, "telling", "telling") => Apart(t, "telling", "telling")
  <1> DEFINE m == MkFrame("uws", f, a, n, <<>>)
             r == MkFrame("user", "returned", c, n, <<>>)
             t == IF stack = <<>> THEN <<>> ELSE <<[Top EXCEPT !.n = @ + 1]>> \o Tail(stack)
  <1>1. stack' = <<m, r>> \o t
    BY DEF Call
  <1>2. /\ \E S : t \in Seq(S)
        /\ \A role : role # "none" => (Has(t, role) <=> Has(stack, role))
        /\ Apart(stack, "telling", "telling") => Apart(t, "telling", "telling")
    <2>1. CASE stack = <<>>
      <3>1. t = <<>>
        BY <2>1
      <3> HIDE DEF t
      <3>2. t \in Seq({})
        BY <3>1
      <3> QED
        BY <2>1, <3>1, <3>2
    <2>2. CASE stack # <<>>
      <3> DEFINE g == [Top EXCEPT !.n = @ + 1]
      <3>1. OnTop(stack, Top, Beneath) /\ Beneath \in Seq(Frame) /\ Top \in Frame
        BY <2>2, RunningTop
      <3>2. Top.at = "user" /\ Top.fn = "in_callback"
        BY <2>2 DEF Running, Top
      <3>3. g.at = "user" /\ g.fn = "in_callback"
        BY <3>1, <3>2 DEF Frame
      <3>4. t = <<g>> \o Beneath
        BY <2>2 DEF Beneath
      <3> HIDE DEF g, t
      <3>5. Role(Top) = "none" /\ Role(g) = "none"
        BY <3>2, <3>3, Roles
      <3>6. OnTop(t, g, Beneath) /\ t \in Seq(Frame \cup {g})
        BY <3>1, <3>4, ConsOnTop
      <3> QED
        BY <3>1, <3>5, <3>6 DEF OnTop
    <2> QED
      BY <2>1, <2>2
  <1> HIDE DEF m, r, t
  <1>3. PICK S : t \in Seq(S)
    BY <1>2
  <1>4. OnTop(stack', m, Tail(stack')) /\ OnTop(Tail(stack'), r, t)
    BY <1>1, <1>3, StackTwo DEF Stack2
  <1>5. t = Tail(Tail(stack'))
    BY <1>4 DEF OnTop
  <1> QED
    BY <1>2, <1>4, <1>5 DEF m, r

\* A call of the user: f is the function called, c the name under which its result is noted.
LEMMA CloseCalled ==
    ASSUME CloseInv, TypeOK, Books, Place(stack), UNCHANGED <<sockVars, tlsVars, uwsVars>>,
           stack = <<>> \/ Running("user", "in_callback"),
           NEW f, NEW a, NEW c, NEW n, Call(f, a, c, n),
           f \in CloseCalls \/ (f \notin Changing \cup {"set_closed", "call_on_ws_close_complete", "clear_pending_sends"}
                                  /\ c \notin {"close", "close_null"}),
           UNCHANGED <<closeReports, asked, alive>>, closing \subseteq closing'
    PROVE  CloseInv'
  <1> DEFINE m == MkFrame("uws", f, a, n, <<>>)
             r == MkFrame("user", "returned", c, n, <<>>)
  <1>1. PICK t : /\ t = Tail(Tail(stack'))
                 /\ OnTop(stack', m, Tail(stack')) /\ OnTop(Tail(stack'), r, t)
                 /\ \A role : role # "none" => (Has(t, role) <=> Has(stack, role))
                 /\ Apart(stack, "telling", "telling") => Apart(t, "telling", "telling")
    BY CallRoles DEF TypeOK
  <1>2. /\ m.at = "uws" /\ m.fn = f
        /\ Is(r, "user", "returned") /\ r.arg = c /\ r.ret = 0
    BY DEF MkFrame, Is
  <1>3. UNCHANGED <<on_ws_close_complete, session, uws_state>>
    BY DEF uwsVars
  <1> HIDE DEF m, r
  <1>4. Role(m) = "none"
    <2>1. f \notin {"set_closed", "decode_frame", "clear_pending_sends", "call_on_ws_close_complete"}
      BY DEF CloseCalls, Changing
    <2> QED
      BY <1>2, <2>1 DEF Role, Is
  <1>5. Role(r) \in {"none", "closed", "closed_null", "stray"}
        /\ (c \notin {"close", "close_null"} => Role(r) = "none")
    BY <1>2, Roles
  <1>6. stack # <<>> => Top.at = "user" /\ Top.fn = "in_callback"
    BY DEF Running, Top
  <1>7. ~Has(stack, "decoding")
    <2>1. CASE stack = <<>>
      BY <2>1, NothingWaits
    <2>2. CASE stack # <<>>
      <3>1. OnTop(stack, Top, Beneath)
        BY <2>2, RunningTop DEF TypeOK
      <3>2. Role(Top) = "none"
        BY <1>6, <2>2, Roles
      <3>3. ~Has(Beneath, "decoding")
        BY <2>2 DEF CloseInv, ReportInv
      <3> QED
        BY <3>1, <3>2, <3>3 DEF OnTop
    <2> QED
      BY <2>1, <2>2
  <1>8. ~Handshaking(stack) /\ Begun(stack) = stack
    <2>1. stack # <<>> => Role(Head(stack)) = "none" /\ Head(stack).at = "user"
      BY <1>6, Roles DEF Top
    <2> QED
      BY <2>1 DEF Handshaking, Begun
  <1>9. stack' # <<>> /\ Head(stack') = m
    BY <1>1 DEF OnTop
  <1>10. Top' = m /\ Beneath' = Tail(stack')
    BY <1>9 DEF Top, Beneath
  <1>11. Over' <=> Over
    BY <1>3 DEF Over
  <1>12. ReportInv'
    <2>1. (Has(stack', "telling") <=> Has(stack, "telling")) /\ ~Has(Tail(stack'), "decoding")
      BY <1>1, <1>4, <1>5, <1>7 DEF OnTop
    <2>2. Apart(stack, "telling", "telling") => Apart(stack', "telling", "telling")
      BY <1>1, <1>4, <1>5 DEF OnTop
    <2>3. f \notin Changing
      BY DEF CloseCalls, Changing
    <2>4. stack' # <<>> =>
            /\ Is(Top', "user", "on_ws_close_complete") => Top'.n = on_ws_close_complete' /\ Top'.n # 0
            /\ Top'.at = "uws" /\ Top'.fn \in Changing => uws_state' # "CLOSED"
            /\ ~Has(Beneath', "decoding")
      BY <1>2, <1>10, <2>1, <2>3 DEF Is
    <2>5. on_ws_close_complete' # 0 =>
            on_ws_close_complete' = session' /\ session' \in closing' /\ uws_state' \notin Opening
      BY <1>3 DEF CloseInv, ReportInv
    <2>6. \A s \in Sessions : s # session' \/ ~Over' => closeReports'[s] = 0
      BY <1>3, <1>11 DEF CloseInv, ReportInv
    <2>7. Over' => closeReports'[session'] = IF on_ws_close_complete' = 0 \/ Has(stack', "telling") THEN 0 ELSE 1
      BY <1>3, <1>11, <2>1 DEF CloseInv, ReportInv
    <2> QED
      BY <1>11, <2>1, <2>2, <2>4, <2>5, <2>6, <2>7 DEF CloseInv, ReportInv
  <1>13. AskInv'
    <2>1. \A role \in {"closed", "closed_null", "stray"} : Has(Begun(stack)', role) <=> Has(stack, role)
      <3>1. CASE f \in CloseCalls
        <4>1. Begun(stack)' = t
          BY <1>1, <1>2, <1>9, <3>1 DEF Begun
        <4> QED
          BY <1>1, <4>1
      <3>2. CASE f \notin CloseCalls
        <4>1. Begun(stack)' = stack'
          BY <1>2, <1>9, <3>2 DEF Begun
        <4>2. Role(r) = "none"
          BY <1>5, <3>2
        <4> QED
          BY <1>1, <1>4, <4>1, <4>2 DEF OnTop
      <3> QED
        BY <3>1, <3>2
    <2>2. (1 \in asked /\ alive => on_ws_close_complete # 0 \/ Has(stack, "closed_null")) /\ asked \subseteq {1}
      BY <1>8 DEF CloseInv, AskInv
    <2>3. /\ ~Has(stack, "stray") /\ (Has(stack, "closed") => on_ws_close_complete # 0)
          /\ Has(stack, "closed") \/ Has(stack, "closed_null") => Over \/ uws_state = "CLOSING_UNDERLYING_IO"
      BY <1>8 DEF CloseInv, AskInv
    <2> QED
      BY <1>3, <1>11, <2>1, <2>2, <2>3 DEF AskInv
  <1> QED
    BY <1>12, <1>13 DEF CloseInv

LEMMA CloseUserCall ==
    ASSUME CloseInv, TypeOK, Books, Place(stack), UserCalls, UNCHANGED <<sockVars, tlsVars, uwsVars>>
    PROVE  CloseInv'
  <1>1. ASSUME NEW c, MayCall(c)
        PROVE  /\ stack = <<>> \/ Running("user", "in_callback")
               /\ c \in {"dowork", "destroy"} => stack = <<>>
    BY <1>1, BoundsAssumption DEF MayCall
  <1>2. stack = <<>> \/ Running("user", "in_callback")
    BY <1>1 DEF UserCalls, CallOpen, CallClose, CallCloseNull, CallSend, CallDowork, CallDestroy
  <1>3. CASE CallOpen \/ CallSend
    <2>1. UNCHANGED <<closeReports, asked, alive, closing>>
      BY <1>3 DEF CallOpen, CallSend
    <2>2. CASE CallOpen
      <3>1. PICK n : Call("uws_client_open_async", "", "open", n)
        BY <2>2 DEF CallOpen
      <3> QED
        BY <1>2, <2>1, <3>1, CloseCalled DEF Changing
    <2>3. CASE CallSend
      <3>1. PICK n : Call("uws_client_send_frame_async", "", "send", n)
        BY <2>3 DEF CallSend
      <3> QED
        BY <1>2, <2>1, <3>1, CloseCalled DEF Changing
    <2> QED
      BY <1>3, <2>2, <2>3
  <1>4. CASE CallClose \/ CallCloseNull
    <2>1. UNCHANGED <<closeReports, asked, alive>> /\ closing \subseteq closing'
      BY <1>4 DEF CallClose, CallCloseNull
    <2>2. \E f \in CloseCalls : \E a, c, n : Call(f, a, c, n)
      BY <1>4 DEF CallClose, CallCloseNull, CloseCalls
    <2> QED
      BY <1>2, <2>1, <2>2, CloseCalled
  <1>5. CASE CallDowork \/ CallDestroy
    <2>1. stack = <<>>
      BY <1>1, <1>5 DEF CallDowork, CallDestroy
    <2>2. PICK f \in {"uws_client_dowork", "uws_client_destroy"} : stack' = <<MkFrame("uws", f, "", 0, <<>>)>>
      BY <1>5 DEF CallDowork, CallDestroy
    <2> DEFINE m == MkFrame("uws", f, "", 0, <<>>)
    <2>3. m.at = "uws" /\ m.fn = f
      BY DEF MkFrame
    <2>4. stack' = <<m>>
      BY <2>2
    <2> HIDE DEF m
    <2>5. Role(m) = "none"
      BY <2>3, Roles
    <2>6. stack' # <<>> /\ Head(stack') = m /\ Tail(stack') = <<>> /\ \A role : role # "none" => ~Has(stack', role)
      BY <2>4, <2>5 DEF Has
    <2>7. Apart(stack', "telling", "telling") /\ ~Has(Tail(stack'), "decoding")
      BY <2>6, NothingWaits DEF Apart, Has
    <2>8. Top' = m /\ Beneath' = Tail(stack') /\ Begun(stack)' = stack' /\ Begun(stack) = stack
      BY <2>1, <2>3, <2>6 DEF Top, Beneath, Begun, CloseCalls
    <2>9. UNCHANGED <<on_ws_close_complete, session, uws_state, closing, closeReports, asked>>
          /\ (alive' => alive)
      BY <1>1, <1>5 DEF uwsVars, userVars, CallDowork, CallDestroy, MayCall
    <2>10. \A role : ~Has(stack, role)
      BY <2>1, NothingWaits
    <2>11. Over' <=> Over
      BY <2>9 DEF Over
    <2>12. ReportInv'
      <3>1. stack' # <<>> =>
            /\ Is(Top', "user", "on_ws_close_complete") => Top'.n = on_ws_close_complete' /\ Top'.n # 0
            /\ Top'.at = "uws" /\ Top'.fn \in Changing => uws_state' # "CLOSED"
            /\ ~Has(Beneath', "decoding")
        BY <2>3, <2>7, <2>8 DEF Is, Changing
      <3> QED
        BY <2>6, <2>7, <2>9, <2>10, <2>11, <3>1 DEF CloseInv, ReportInv
    <2>13. AskInv'
      BY <2>6, <2>8, <2>9, <2>10 DEF CloseInv, AskInv
    <2> QED
      BY <2>12, <2>13 DEF CloseInv
  <1> QED
    BY <1>3, <1>4, <1>5 DEF UserCalls

LEMMA NextClose ==
    ASSUME SocketClient, OneSession
    PROVE  TypeOK /\ SessionInv /\ CloseInv /\ [Next]_vars => CloseInv'
  <1> SUFFICES ASSUME TypeOK, Books, Place(stack), CloseInv, [Next]_vars
               PROVE  CloseInv'
    BY DEF SessionInv
  <1>1. CASE UNCHANGED vars
    <2>1. UNCHANGED <<stack, sockVars, tlsVars, uwsVars, userVars>>
      BY <1>1 DEF vars
    <2>2. UNCHANGED <<stack, on_ws_close_complete, session, uws_state, closing, closeReports, asked, alive>>
      BY <2>1 DEF uwsVars, userVars
    <2>3. (Over' <=> Over) /\ Top' = Top /\ Beneath' = Beneath /\ Begun(stack)' = Begun(stack)
          /\ (Handshaking(stack)' <=> Handshaking(stack))
      BY <2>2 DEF Over, Top, Beneath, Begun, Handshaking
    <2>4. ReportInv'
      BY <2>2, <2>3 DEF CloseInv, ReportInv
    <2>5. AskInv'
      BY <2>2, <2>3 DEF CloseInv, AskInv
    <2> QED
      BY <2>4, <2>5 DEF CloseInv
  <1> QED
    BY <1>1, CloseUserCall, CloseSock, CloseUws, CloseUserStep, CloseReturn, NoTls DEF Next, Step

(***************************************************************************)
(* Over a socket, in the first session: on_ws_close_complete is called at  *)
(* most once, and only if the user closed the connection; by the time the  *)
(* client is closed it has been if the close was accepted with a callback. *)
(* Whether the close was a handshake the peer answered, one it did not, a  *)
(* plain close, one made from inside a callback, or one that another close *)
(* without a callback took back.  Later sessions are another matter:       *)
(* uws_client_open_async keeps the callback of the session before, and so  *)
(* is a peer that masks its frames, as decode_stream goes on with such a   *)
(* frame after it has reported it (uws_client.c, indicate_ws_close_complete*)
(* and uws_client_close_async).                                            *)
(***************************************************************************)
THEOREM ClosesAllAnswered ==
    ASSUME SocketClient, OneSession
    PROVE  Spec => []ClosesAnswered
  <1>1. Init => CloseInv
    <2> SUFFICES ASSUME Init PROVE ReportInv /\ AskInv
      BY DEF CloseInv
    <2>1. stack = <<>> /\ on_ws_close_complete = 0 /\ session = 0 /\ asked = {} /\ closeReports = [s \in Sessions |-> 0]
      BY DEF Init, UwsInit
    <2>2. ~Over /\ Begun(stack) = stack
      BY <2>1 DEF Over, Begun
    <2> QED
      BY <2>1, <2>2, NothingWaits DEF ReportInv, AskInv
  <1>2. TypeOK /\ SessionInv /\ CloseInv => ClosesAnswered
    <2> SUFFICES ASSUME TypeOK, Books, CloseInv, NEW s \in Sessions
                 PROVE  /\ closeReports[s] <= (IF s \in closing THEN 1 ELSE 0)
                        /\ Quiet /\ s \in asked => closeReports[s] = 1
      BY DEF ClosesAnswered, SessionInv
    <2>1. closeReports[s] <= (IF s \in closing THEN 1 ELSE 0)
      <3>1. CASE s # session \/ ~Over
        BY <3>1 DEF CloseInv, ReportInv
      <3>2. CASE s = session /\ Over
        BY <3>2 DEF CloseInv, ReportInv
      <3> QED
        BY <3>1, <3>2
    <2>2. ASSUME Quiet, s \in asked PROVE closeReports[s] = 1
      <3>1. s = 1 /\ alive /\ stack = <<>> /\ uws_state = "CLOSED" /\ Begun(stack) = stack
        BY <2>2 DEF Quiet, CloseInv, AskInv, Begun
      <3>2. on_ws_close_complete # 0
        BY <2>2, <3>1, NothingWaits DEF CloseInv, AskInv
      <3>3. session = on_ws_close_complete /\ session \in {0, 1}
        BY <3>2, FirstSession DEF CloseInv, ReportInv
      <3>4. Over /\ session = s
        BY <3>1, <3>2, <3>3 DEF Over
      <3> QED
        BY <3>1, <3>2, <3>4, NothingWaits DEF CloseInv, ReportInv
    <2> QED
      BY <2>1, <2>2
  <1> QED
    BY <1>1, <1>2, NextClose, SessionCorrect, PTL DEF Spec

=============================================================================
