----------------------------- MODULE ProxyProofs -----------------------------
(***************************************************************************)
(* The HTTP proxy layer keeps the contract of an IO layer, and answers     *)
(* every close that it accepts, and its tunnel carries what the peer sends *)
(* after its answer: for every client, every depth of nested calls and     *)
(* every behaviour of the socket beneath.                                  *)
(*                                                                         *)
(* The invariant tells, for every function that may be running, what is    *)
(* beneath it on the stack and what the state is.  The frames that wait    *)
(* below a callback in which the client may make calls are resumed in a    *)
(* state that the client has chosen: they must be harmless in all of them. *)
(***************************************************************************)
EXTENDS ProxyConnection, TLAPS

\* The client of this connection: it knows how each of its closes is to be answered, does not
\* call back from inside on_io_open_complete, and opens an instance that a proxy has answered
\* only once.
ProxyClient ==
    /\ Layers = <<"socket", "proxy", "uws">>
    /\ AnsweredPhases = Phases \ {"opening"}
    /\ "on_io_open_complete" \notin CallingFrom
    /\ ~Reuse

-----------------------------------------------------------------------------
(* Stacks.                                                                  *)

IsFrame(f) ==
    f = [at |-> f.at, fn |-> f.fn, arg |-> f.arg, n |-> f.n, data |-> f.data, ret |-> f.ret]

IsStack(s) ==
    /\ s \in Seq({s[i] : i \in DOMAIN s})
    /\ \A i \in DOMAIN s : IsFrame(s[i])

Is(f, l, g) == f.at = l /\ f.fn = g

\* Frames that may be resumed in any settled state, whatever has happened meanwhile: the loops
\* of socketio_dowork, functions that return 0, and the client behind a call of its own.  A
\* close that is about to return 0 has been answered.
Zero == {"return", "xio_open_returned", "xio_close_returned"}

Resumable(f, reports) ==
    \/ f.at = "socket" /\ f.fn \in {"dowork", "dowork_sent", "dowork_receive"}
    \/ f.fn \in Zero /\ f.ret = 0
    \/ /\ Is(f, "uws", "returned")
       /\ \/ f.arg \in {"open_again", "send"}
          \/ f.arg = "open" /\ f.ret = 0
          \/ f.arg = "close" /\ f.n \in DOMAIN reports /\ reports[f.n] = 1

AllResumable(s, reports) == \A i \in DOMAIN s : Resumable(s[i], reports)

\* the client behind xio_close, without a callback or in phase "opening"
ClosedNull(s, reports) ==
    /\ s # <<>> /\ Is(Head(s), "uws", "returned") /\ Head(s).arg = "close_null"
    /\ AllResumable(Tail(s), reports)

\* the client behind the xio_close that is about to be answered
ClosedAsked(s) ==
    /\ s # <<>> /\ Is(Head(s), "uws", "returned") /\ Head(s).arg = "close"
    /\ Head(s).n = closes /\ closes \in DOMAIN closeReports /\ closeReports[closes] = 0
    /\ AllResumable(Tail(s), closeReports)

-----------------------------------------------------------------------------
(* The inductive invariant: what is known of the state for what is running. *)

\* Whenever the client may make a call, its view of the session is that of the proxy layer.
Settled ==
    /\ proxy_state # "CLOSING"
    /\ proxy_state = "CLOSED" => phase = "closed" /\ ~connected
    /\ proxy_state = "OPENING_UNDERLYING_IO" => phase = "opening" /\ receive_buffer = <<>>
    /\ proxy_state = "WAITING_FOR_CONNECT_RESPONSE" => phase = "opening" /\ ResponseEnds = {}
    /\ proxy_state = "OPEN" => phase = "open"
    /\ proxy_state = "ERROR" => phase = "failed"

\* frames that run in a settled state and never wait
Harmless(f) ==
    \/ f.at = "proxy" /\ f.fn \in {"on_bytes_received", "on_io_error", "dowork", "destroy"}
    \/ Is(f, "socket", "destroy")
    \/ f.at = "uws" /\ f.fn \in {"in_callback", "on_underlying_io_send_complete"}
    \/ Is(f, "uws", "returned") /\ f.arg = "close" /\ f.ret # 0

\* nothing is going on, or something that any settled state allows
Usual(s) ==
    /\ Settled
    /\ s # <<>> => /\ Resumable(Head(s), closeReports) \/ Harmless(Head(s))
                   /\ AllResumable(Tail(s), closeReports)

Sending(s) ==
    /\ Settled
    /\ s # <<>> /\ Head(s).at \in {"socket", "proxy"} /\ Head(s).fn = "send"
    /\ Head(s).arg = "on_underlying_io_send_complete" /\ Head(s).n \in Nat
    /\ Tail(s) # <<>> /\ Is(Head(Tail(s)), "uws", "returned") /\ Head(Tail(s)).arg = "send"
    /\ AllResumable(Tail(s), closeReports)

\* xio_open has been called, and not yet begun
OpenCalled(s) ==
    /\ s # <<>> /\ Is(Head(s), "proxy", "open")
    /\ Tail(s) # <<>> /\ Is(Head(Tail(s)), "uws", "returned")
    /\ AllResumable(Tail(s), closeReports)
    /\ \/ /\ Head(Tail(s)).arg = "open" /\ phase = "opening"
          /\ proxy_state = "CLOSED" /\ ~connected /\ receive_buffer = <<>>
       \/ Head(Tail(s)).arg = "open_again" /\ Settled /\ phase # "closed"

SocketOpening(s) ==
    /\ Settled /\ proxy_state = "OPENING_UNDERLYING_IO"
    /\ s # <<>> /\ (Is(Head(s), "socket", "open") \/ Is(Head(s), "proxy", "on_io_open_complete"))
    /\ AllResumable(Tail(s), closeReports)

\* the request is being sent, or has been
Connecting(s) ==
    /\ Settled /\ proxy_state = "WAITING_FOR_CONNECT_RESPONSE" /\ s # <<>>
    /\ \/ /\ \/ /\ Is(Head(s), "socket", "send") /\ Head(s).arg = "unchecked_on_send_complete"
                /\ Head(s).n \in Nat
             \/ Is(Head(s), "socket", "return") /\ Head(s).ret = 0
          /\ Tail(s) # <<>> /\ Is(Head(Tail(s)), "proxy", "connect_request_sent")
          /\ AllResumable(Tail(Tail(s)), closeReports)
       \/ /\ Is(Head(s), "proxy", "connect_request_sent")
          /\ AllResumable(Tail(s), closeReports)

\* what may wait while a failed open is reported: the rest of the function that has lost the
\* bytes, or the close that has cut the open short
Beneath(s) ==
    \/ AllResumable(s, closeReports)
    \/ /\ ResponseEnds = {} /\ s # <<>> /\ Is(Head(s), "proxy", "connect_response")
       /\ AllResumable(Tail(s), closeReports)
    \/ /\ s # <<>> /\ Is(Head(s), "proxy", "return") /\ Head(s).ret = 0
       /\ ClosedNull(Tail(s), closeReports)

IsRefusal(f) == Is(f, "uws", "on_io_open_complete") /\ f.arg # "OK"

OpenFailing(s) ==
    /\ proxy_state = "CLOSED" /\ s # <<>>
    /\ \/ /\ phase = "opening" /\ Is(Head(s), "socket", "close") /\ Head(s).arg = "NULL"
          /\ Tail(s) # <<>> /\ IsRefusal(Head(Tail(s))) /\ Beneath(Tail(Tail(s)))
       \/ phase = "opening" /\ ~connected /\ IsRefusal(Head(s)) /\ Beneath(Tail(s))
       \/ /\ phase = "closed" /\ ~connected
          /\ Is(Head(s), "uws", "in_callback") /\ Head(s).arg = "on_io_open_complete"
          /\ Beneath(Tail(s))

Responding(s) ==
    /\ s # <<>> /\ Is(Head(s), "proxy", "connect_response") /\ AllResumable(Tail(s), closeReports)
    /\ \/ proxy_state = "WAITING_FOR_CONNECT_RESPONSE" /\ phase = "opening"
       \/ proxy_state = "CLOSED" /\ Settled /\ ResponseEnds = {}

\* a tunnel is reported open, and then the bytes that came with the response
Opening(s) ==
    /\ proxy_state = "OPEN" /\ s # <<>>
    /\ \/ phase = "opening" /\ Is(Head(s), "uws", "on_io_open_complete") /\ Head(s).arg = "OK"
       \/ phase = "open" /\ Is(Head(s), "uws", "in_callback") /\ Head(s).arg = "on_io_open_complete"
    /\ \/ AllResumable(Tail(s), closeReports)
       \/ /\ Tail(s) # <<>> /\ Is(Head(Tail(s)), "uws", "on_bytes_received")
          /\ AllResumable(Tail(Tail(s)), closeReports)

\* bytes are handed up, or an error is reported
Telling(s) ==
    /\ phase = "open" /\ s # <<>> /\ AllResumable(Tail(s), closeReports)
    /\ \/ proxy_state = "OPEN" /\ Is(Head(s), "uws", "on_bytes_received")
       \/ proxy_state = "ERROR" /\ Is(Head(s), "uws", "on_io_error")

\* xio_close has been called, and not yet begun
CloseCalled(s) ==
    /\ Settled /\ s # <<>> /\ Is(Head(s), "proxy", "close")
    /\ \/ Head(s).arg = "cb" /\ phase # "opening" /\ ClosedAsked(Tail(s))
       \/ (Head(s).arg = "NULL" \/ phase = "opening") /\ ClosedNull(Tail(s), closeReports)

\* the socket is being closed for the client
Awaited(s) ==
    \/ proxy_on_close # "NULL" /\ ClosedAsked(s)
    \/ proxy_on_close = "NULL" /\ ClosedNull(s, closeReports)

IsZero(f, l, g) == Is(f, l, g) /\ f.ret = 0

Closing(s) ==
    /\ proxy_state = "CLOSING" /\ phase \in {"open", "failed"} /\ s # <<>>
    /\ \/ /\ Is(Head(s), "socket", "close") /\ Head(s).arg = "close_complete"
          /\ Tail(s) # <<>> /\ IsZero(Head(Tail(s)), "proxy", "xio_close_returned")
          /\ Awaited(Tail(Tail(s)))
       \/ /\ Is(Head(s), "proxy", "on_io_close_complete") /\ ~connected
          /\ Tail(s) # <<>> /\ IsZero(Head(Tail(s)), "socket", "return")
          /\ Tail(Tail(s)) # <<>> /\ IsZero(Head(Tail(Tail(s))), "proxy", "xio_close_returned")
          /\ Awaited(Tail(Tail(Tail(s))))

\* the end of a close is reported
CloseTelling(s) ==
    /\ proxy_state = "CLOSED" /\ ~connected /\ phase \in {"open", "failed"}
    /\ s # <<>> /\ Is(Head(s), "uws", "on_io_close_complete")
    /\ Tail(s) # <<>> /\ IsZero(Head(Tail(s)), "socket", "return")
    /\ Tail(Tail(s)) # <<>> /\ IsZero(Head(Tail(Tail(s))), "proxy", "xio_close_returned")
    /\ ClosedAsked(Tail(Tail(Tail(s))))

\* a close without a callback returns to the client, for which that is the end of the session
CloseReturning(s) ==
    /\ proxy_state = "CLOSED" /\ ~connected /\ phase # "opening" /\ s # <<>>
    /\ \/ ClosedNull(s, closeReports) /\ (Head(s).ret = 0 \/ phase = "closed")
       \/ /\ Is(Head(s), "proxy", "xio_close_returned") \/ Is(Head(s), "proxy", "return")
          /\ Head(s).ret = 0 /\ ClosedNull(Tail(s), closeReports)
       \/ /\ IsZero(Head(s), "socket", "return")
          /\ Tail(s) # <<>> /\ IsZero(Head(Tail(s)), "proxy", "xio_close_returned")
          /\ ClosedNull(Tail(Tail(s)), closeReports)

\* requests that wait for the kernel, and what was reported so far
BooksOK ==
    /\ pending_io_list \in Seq([cb: {"unchecked_on_send_complete", "on_underlying_io_send_complete"}, n: Nat])
    /\ proxy_state \in ProxyStates /\ phase \in Phases
    /\ sends \in Nat /\ closes \in 0 .. MaxCloses
    /\ closeReports \in [1 .. MaxCloses -> 0 .. 1]
    /\ \A i \in closes + 1 .. MaxCloses : closeReports[i] = 0
    /\ \A i \in asked : i \in 1 .. MaxCloses /\ closeReports[i] = 1

Place(s) ==
    \/ Usual(s) \/ Sending(s) \/ OpenCalled(s) \/ SocketOpening(s) \/ Connecting(s)
    \/ OpenFailing(s) \/ Responding(s) \/ Opening(s) \/ Telling(s)
    \/ CloseCalled(s) \/ Closing(s) \/ CloseTelling(s) \/ CloseReturning(s)

ProxyInv == IsStack(stack) /\ BooksOK /\ Place(stack)

-----------------------------------------------------------------------------
(* Stacks are built from frames.                                            *)

Cons(a, s) == <<a>> \o s

LEMMA ConsStack ==
    ASSUME NEW s, IsStack(s), NEW a, IsFrame(a)
    PROVE  /\ IsStack(Cons(a, s)) /\ Cons(a, s) # <<>>
           /\ Head(Cons(a, s)) = a /\ Tail(Cons(a, s)) = s
  <1> DEFINE S == {s[i] : i \in DOMAIN s} \cup {a}
             t == Cons(a, s)
  <1>1. s \in Seq(S)
    <2>1. s \in Seq({s[i] : i \in DOMAIN s})
      BY DEF IsStack
    <2>2. {s[i] : i \in DOMAIN s} \subseteq S
      OBVIOUS
    <2> HIDE DEF S
    <2>3. Len(s) \in Nat /\ DOMAIN s = 1 .. Len(s)
      BY <2>1
    <2>4. \A i \in 1 .. Len(s) : s[i] \in S
      BY <2>2, <2>3
    <2> QED
      BY <2>1, <2>3, <2>4
  <1>2. a \in S
    OBVIOUS
  <1> HIDE DEF S
  <1>3. /\ t \in Seq(S) /\ Len(t) = 1 + Len(s) /\ DOMAIN t = 1 .. Len(t)
        /\ t[1] = a /\ \A i \in 1 .. Len(s) : t[i + 1] = s[i]
    BY <1>1, <1>2 DEF Cons
  <1>4. Len(s) \in Nat
    BY <1>1
  <1> HIDE DEF t
  <1>5. \A i \in DOMAIN t : IsFrame(t[i])
    <2> SUFFICES ASSUME NEW i \in 1 .. 1 + Len(s)
                 PROVE  IsFrame(t[i])
      BY <1>3
    <2>1. CASE i = 1
      BY <1>3, <2>1
    <2>2. CASE i # 1
      <3>1. i - 1 \in 1 .. Len(s) /\ i = (i - 1) + 1
        BY <1>4, <2>2
      <3>2. t[i] = s[i - 1]
        BY <1>3, <3>1
      <3>3. IsFrame(s[i - 1])
        BY <1>1, <3>1 DEF IsStack
      <3> QED
        BY <3>2, <3>3
    <2> QED
      BY <2>1, <2>2
  <1>6. t \in Seq({t[i] : i \in DOMAIN t})
    BY <1>3
  <1>7. t # <<>> /\ Head(t) = a
    BY <1>3, <1>4
  <1>8. Tail(t) = s
    <2>1. Tail(t) \in Seq(S) /\ Len(Tail(t)) = Len(s)
      BY <1>3, <1>4, <1>7
    <2>2. \A i \in 1 .. Len(s) : Tail(t)[i] = s[i]
      BY <1>3, <1>4, <1>7
    <2> QED
      BY <1>1, <2>1, <2>2
  <1> QED
    BY <1>5, <1>6, <1>7, <1>8 DEF IsStack, t

LEMMA ConsResumable ==
    ASSUME NEW s, IsStack(s), NEW a, IsFrame(a), NEW reports
    PROVE  AllResumable(Cons(a, s), reports) <=> Resumable(a, reports) /\ AllResumable(s, reports)
  <1> DEFINE t == Cons(a, s)
  <1>0. s \in Seq({s[i] : i \in DOMAIN s}) /\ Len(s) \in Nat /\ DOMAIN s = 1 .. Len(s)
    BY DEF IsStack
  <1>1. t \in Seq({t[i] : i \in DOMAIN t}) /\ Tail(t) = s /\ t # <<>> /\ Head(t) = a
    BY ConsStack DEF IsStack
  <1> DEFINE R == {t[i] : i \in DOMAIN t}
  <1> HIDE DEF t, R
  <1>2. Len(t) = 1 + Len(s) /\ DOMAIN t = 1 .. 1 + Len(s) /\ t[1] = a /\ t \in Seq(R)
    BY <1>0, <1>1 DEF R
  <1>3. \A i \in 1 .. Len(s) : s[i] = t[i + 1]
    <2>1. \A i \in 1 .. Len(t) - 1 : Tail(t)[i] = t[i + 1]
      BY <1>1, <1>2
    <2>2. Len(t) - 1 = Len(s)
      BY <1>0, <1>2
    <2> QED
      BY <1>1, <2>1, <2>2
  <1>4. ASSUME AllResumable(t, reports)
        PROVE  Resumable(a, reports) /\ AllResumable(s, reports)
    <2>1. Resumable(t[1], reports)
      BY <1>0, <1>2, <1>4 DEF AllResumable
    <2>2. \A i \in 1 .. Len(s) : Resumable(t[i + 1], reports)
      BY <1>0, <1>2, <1>4 DEF AllResumable
    <2> QED
      BY <1>0, <1>2, <1>3, <2>1, <2>2 DEF AllResumable
  <1>5. ASSUME Resumable(a, reports), AllResumable(s, reports), NEW i \in DOMAIN t
        PROVE  Resumable(t[i], reports)
    <2>1. CASE i = 1
      BY <1>2, <1>5, <2>1
    <2>2. CASE i # 1
      <3>1. i - 1 \in 1 .. Len(s) /\ i = (i - 1) + 1
        BY <1>0, <1>2, <2>2
      <3>2. Resumable(s[i - 1], reports)
        BY <1>0, <1>5, <3>1 DEF AllResumable
      <3> QED
        BY <1>3, <3>1, <3>2
    <2> QED
      BY <2>1, <2>2
  <1> QED
    BY <1>4, <1>5 DEF AllResumable, t

LEMMA EmptyStack ==
    IsStack(<<>>) /\ \A reports : AllResumable(<<>>, reports)
  BY DEF IsStack, AllResumable

LEMMA StackParts ==
    ASSUME NEW s, IsStack(s), s # <<>>
    PROVE  IsStack(Tail(s)) /\ IsFrame(Head(s)) /\ s = Cons(Head(s), Tail(s))
  <1> DEFINE S == {s[i] : i \in DOMAIN s}
             r == Tail(s)
  <1>0. s \in Seq(S) /\ Len(s) \in Nat /\ DOMAIN s = 1 .. Len(s) /\ \A i \in 1 .. Len(s) : IsFrame(s[i])
    BY DEF IsStack
  <1> HIDE DEF S
  <1>1. Len(s) > 0 /\ Head(s) = s[1] /\ IsFrame(Head(s)) /\ Head(s) \in S
    BY <1>0
  <1>2. r \in Seq(S) /\ Len(r) = Len(s) - 1 /\ DOMAIN r = 1 .. Len(s) - 1
        /\ \A i \in 1 .. Len(s) - 1 : r[i] = s[i + 1]
    BY <1>0, <1>1
  <1> HIDE DEF r
  <1>3. \A i \in DOMAIN r : IsFrame(r[i])
    BY <1>0, <1>1, <1>2
  <1>4. r \in Seq({r[i] : i \in DOMAIN r})
    BY <1>2
  <1>5. IsStack(r)
    BY <1>3, <1>4 DEF IsStack
  <1>6. s = <<Head(s)>> \o r
    <2> DEFINE t == <<Head(s)>> \o r
    <2>1. t \in Seq(S) /\ Len(t) = Len(s)
      <3>1. <<Head(s)>> \in Seq(S) /\ Len(<<Head(s)>>) = 1
        BY <1>1
      <3>2. t \in Seq(S) /\ Len(t) = 1 + Len(r)
        BY <1>2, <3>1
      <3> HIDE DEF t
      <3> QED
        BY <1>0, <1>2, <3>2
    <2>2. ASSUME NEW i \in 1 .. Len(s)
          PROVE  t[i] = s[i]
      <3>1. CASE i = 1
        BY <1>0, <1>1, <1>2, <3>1
      <3>2. CASE i # 1
        <4>1. t[i] = r[i - 1] /\ i - 1 \in 1 .. Len(s) - 1
          BY <1>0, <1>1, <1>2, <3>2
        <4>2. r[i - 1] = s[(i - 1) + 1]
          BY <1>2, <4>1
        <4>3. (i - 1) + 1 = i
          OBVIOUS
        <4> QED
          BY <4>1, <4>2, <4>3
      <3> QED
        BY <3>1, <3>2
    <2> HIDE DEF t
    <2>3. t = s
      BY <1>0, <2>1, <2>2
    <2> QED
      BY <2>3 DEF t
  <1> QED
    BY <1>1, <1>5, <1>6 DEF Cons, r

LEMMA PartsResumable ==
    ASSUME NEW s, IsStack(s), s # <<>>, NEW reports
    PROVE  AllResumable(s, reports) <=> Resumable(Head(s), reports) /\ AllResumable(Tail(s), reports)
  BY StackParts, ConsResumable

-----------------------------------------------------------------------------
(* What the forms of control make of a stack.                               *)

LEMMA Goto1 ==
    ASSUME IsStack(stack), stack # <<>>, NEW a, IsFrame(a), Goto(<<a>>)
    PROVE  IsStack(stack') /\ stack' # <<>> /\ Head(stack') = a /\ Tail(stack') = Tail(stack)
  BY StackParts, ConsStack DEF Goto, Cons

LEMMA Concat2 ==
    ASSUME NEW s, IsStack(s), NEW a, NEW b, IsFrame(a), IsFrame(b)
    PROVE  <<a, b>> \o s = Cons(a, Cons(b, s))
  <1> DEFINE S == {s[i] : i \in DOMAIN s} \cup {a, b}
             t == <<a, b>> \o s
  <1>0. s \in Seq({s[i] : i \in DOMAIN s}) /\ Len(s) \in Nat /\ DOMAIN s = 1 .. Len(s)
    BY DEF IsStack
  <1>1. s \in Seq(S)
    <2>1. \A i \in 1 .. Len(s) : s[i] \in S
      BY <1>0
    <2> HIDE DEF S
    <2> QED
      BY <1>0, <2>1
  <1>2. a \in S /\ b \in S
    OBVIOUS
  <1> HIDE DEF S
  <1>3. t \in Seq(S) /\ Len(t) = 2 + Len(s)
    BY <1>1, <1>2
  <1>4. t[1] = a /\ t[2] = b /\ \A i \in 3 .. 2 + Len(s) : t[i] = s[i - 2]
    BY <1>0, <1>1, <1>2
  <1> DEFINE v == Cons(b, s)
             u == Cons(a, v)
  <1>5. v \in Seq(S) /\ Len(v) = 1 + Len(s) /\ v[1] = b /\ \A i \in 2 .. 1 + Len(s) : v[i] = s[i - 1]
    BY <1>0, <1>1, <1>2 DEF Cons
  <1> HIDE DEF v
  <1>6. u \in Seq(S) /\ Len(u) = 2 + Len(s) /\ u[1] = a /\ \A i \in 2 .. 2 + Len(s) : u[i] = v[i - 1]
    BY <1>0, <1>5, <1>2 DEF Cons
  <1> HIDE DEF t, u
  <1>7. ASSUME NEW i \in 1 .. 2 + Len(s)
        PROVE  t[i] = u[i]
    <2>1. CASE i = 1
      BY <1>4, <1>6, <2>1
    <2>2. CASE i = 2
      <3>1. u[2] = v[2 - 1]
        BY <1>0, <1>6
      <3> QED
        BY <1>4, <1>5, <2>2, <3>1
    <2>3. CASE i \in 3 .. 2 + Len(s)
      <3>1. u[i] = v[i - 1] /\ i - 1 \in 2 .. 1 + Len(s)
        BY <1>0, <1>6, <2>3
      <3>2. v[i - 1] = s[(i - 1) - 1] /\ (i - 1) - 1 = i - 2
        BY <1>0, <1>5, <3>1
      <3> QED
        BY <1>4, <2>3, <3>1, <3>2
    <2> QED
      BY <1>0, <2>1, <2>2, <2>3
  <1>8. t = u
    BY <1>0, <1>3, <1>6, <1>7
  <1> QED
    BY <1>8 DEF t, u, v

Three(a, b, c, s) == <<a, b, c>> \o s

LEMMA Concat3 ==
    ASSUME NEW s, IsStack(s), NEW a, NEW b, NEW c, IsFrame(a), IsFrame(b), IsFrame(c)
    PROVE  Three(a, b, c, s) = Cons(a, Cons(b, Cons(c, s)))
  <1> DEFINE S == {s[i] : i \in DOMAIN s} \cup {a, b, c}
             t == <<a, b, c>> \o s
             v == <<b, c>> \o s
             u == Cons(a, v)
  <1>0. s \in Seq({s[i] : i \in DOMAIN s}) /\ Len(s) \in Nat /\ DOMAIN s = 1 .. Len(s)
    BY DEF IsStack
  <1>1. s \in Seq(S)
    <2>1. \A i \in 1 .. Len(s) : s[i] \in S
      BY <1>0
    <2> HIDE DEF S
    <2> QED
      BY <1>0, <2>1
  <1>2. a \in S /\ b \in S /\ c \in S
    OBVIOUS
  <1> HIDE DEF S
  <1>3. t \in Seq(S) /\ Len(t) = 3 + Len(s)
    BY <1>1, <1>2
  <1>4. t[1] = a /\ t[2] = b /\ t[3] = c /\ \A i \in 4 .. 3 + Len(s) : t[i] = s[i - 3]
    BY <1>0, <1>1, <1>2
  <1>5. /\ v \in Seq(S) /\ Len(v) = 2 + Len(s) /\ v[1] = b /\ v[2] = c
        /\ \A i \in 3 .. 2 + Len(s) : v[i] = s[i - 2]
    BY <1>0, <1>1, <1>2
  <1> HIDE DEF v
  <1>6. u \in Seq(S) /\ Len(u) = 3 + Len(s) /\ u[1] = a /\ \A i \in 2 .. 3 + Len(s) : u[i] = v[i - 1]
    BY <1>0, <1>5, <1>2 DEF Cons
  <1> HIDE DEF t, u
  <1>7. ASSUME NEW i \in 1 .. 3 + Len(s)
        PROVE  t[i] = u[i]
    <2>1. CASE i = 1
      BY <1>4, <1>6, <2>1
    <2>2. CASE i = 2
      <3>1. u[2] = v[2 - 1]
        BY <1>0, <1>6
      <3> QED
        BY <1>4, <1>5, <2>2, <3>1
    <2>3. CASE i = 3
      <3>1. u[3] = v[3 - 1]
        BY <1>0, <1>6
      <3> QED
        BY <1>4, <1>5, <2>3, <3>1
    <2>4. CASE i \in 4 .. 3 + Len(s)
      <3>1. u[i] = v[i - 1] /\ i - 1 \in 3 .. 2 + Len(s)
        BY <1>0, <1>6, <2>4
      <3>2. v[i - 1] = s[(i - 1) - 2]
        BY <1>5, <3>1
      <3>3. (i - 1) - 2 = i - 3
        BY <1>0, <2>4
      <3> QED
        BY <1>4, <2>4, <3>1, <3>2, <3>3
    <2> QED
      BY <1>0, <2>1, <2>2, <2>3, <2>4
  <1>8. t = Cons(a, v)
    BY <1>0, <1>3, <1>6, <1>7 DEF u
  <1>9. v = Cons(b, Cons(c, s))
    BY Concat2 DEF v
  <1> QED
    BY <1>8, <1>9 DEF t, Three

LEMMA Goto2 ==
    ASSUME IsStack(stack), stack # <<>>, NEW a, NEW b, IsFrame(a), IsFrame(b), Goto(<<a, b>>)
    PROVE  /\ IsStack(stack') /\ stack' # <<>> /\ Head(stack') = a
           /\ Tail(stack') # <<>> /\ Head(Tail(stack')) = b /\ Tail(Tail(stack')) = Tail(stack)
  <1>1. IsStack(Tail(stack))
    BY StackParts
  <1>2. stack' = Cons(a, Cons(b, Tail(stack)))
    BY <1>1, Concat2 DEF Goto
  <1>3. /\ IsStack(Cons(b, Tail(stack))) /\ Cons(b, Tail(stack)) # <<>>
        /\ Head(Cons(b, Tail(stack))) = b /\ Tail(Cons(b, Tail(stack))) = Tail(stack)
    BY <1>1, ConsStack
  <1> QED
    BY <1>2, <1>3, ConsStack

LEMMA Goto3 ==
    ASSUME IsStack(stack), stack # <<>>, NEW a, NEW b, NEW c, IsFrame(a), IsFrame(b), IsFrame(c),
           Goto(<<a, b, c>>)
    PROVE  /\ IsStack(stack') /\ stack' # <<>> /\ Head(stack') = a
           /\ Tail(stack') # <<>> /\ Head(Tail(stack')) = b
           /\ Tail(Tail(stack')) # <<>> /\ Head(Tail(Tail(stack'))) = c
           /\ Tail(Tail(Tail(stack'))) = Tail(stack)
  <1>1. IsStack(Tail(stack))
    BY StackParts
  <1>2. stack' = Cons(a, Cons(b, Cons(c, Tail(stack))))
    <2>1. stack' = Three(a, b, c, Tail(stack))
      BY DEF Goto, Three
    <2>2. Three(a, b, c, Tail(stack)) = Cons(a, Cons(b, Cons(c, Tail(stack))))
      BY <1>1, Concat3
    <2> QED
      BY <2>1, <2>2
  <1>3. /\ IsStack(Cons(c, Tail(stack))) /\ Cons(c, Tail(stack)) # <<>>
        /\ Head(Cons(c, Tail(stack))) = c /\ Tail(Cons(c, Tail(stack))) = Tail(stack)
    BY <1>1, ConsStack
  <1> DEFINE u == Cons(c, Tail(stack))
  <1>4. /\ IsStack(Cons(b, u)) /\ Cons(b, u) # <<>>
        /\ Head(Cons(b, u)) = b /\ Tail(Cons(b, u)) = u
    BY <1>3, ConsStack
  <1> QED
    BY <1>2, <1>3, <1>4, ConsStack

LEMMA PairOf ==
    ASSUME NEW x, NEW y
    PROVE  <<x>> \o <<y>> = <<x, y>>
  <1> DEFINE S == {x, y}
             s == <<x>> \o <<y>>
             t == <<x, y>>
  <1>1. <<x>> \in Seq(S) /\ <<y>> \in Seq(S) /\ Len(<<x>>) = 1 /\ Len(<<y>>) = 1
    OBVIOUS
  <1>2. s \in Seq(S) /\ Len(s) = 2 /\ s[1] = x /\ s[2] = y
    BY <1>1
  <1>3. t \in Seq(S) /\ Len(t) = 2 /\ t[1] = x /\ t[2] = y
    OBVIOUS
  <1> HIDE DEF s, t, S
  <1>4. \A i \in 1 .. 2 : s[i] = t[i]
    BY <1>2, <1>3
  <1>5. s = t
    BY <1>2, <1>3, <1>4
  <1> QED
    BY <1>5 DEF s, t

LEMMA PopParts ==
    ASSUME IsStack(stack), stack # <<>>, Pop \/ Goto(<<>>)
    PROVE  IsStack(stack') /\ stack' = Tail(stack)
  <1>1. IsStack(Tail(stack))
    BY StackParts
  <1>2. <<>> \o Tail(stack) = Tail(stack)
    BY <1>1 DEF IsStack
  <1> QED
    BY <1>1, <1>2 DEF Pop, Goto

\* g is f, after a call has returned v to it
Answered(g, f, v) ==
    IsFrame(g) /\ g.at = f.at /\ g.fn = f.fn /\ g.arg = f.arg /\ g.n = f.n /\ g.ret = v

LEMMA ReturnParts ==
    ASSUME IsStack(stack), stack # <<>>, NEW v, Return(v)
    PROVE  /\ IsStack(stack')
           /\ Tail(stack) = <<>> => stack' = <<>>
           /\ Tail(stack) # <<>> => /\ stack' # <<>> /\ Tail(stack') = Tail(Tail(stack))
                                    /\ Answered(Head(stack'), Head(Tail(stack)), v)
  <1>1. CASE Tail(stack) = <<>>
    BY <1>1, EmptyStack DEF Return
  <1>2. CASE Tail(stack) # <<>>
    <2>1. IsStack(Tail(stack)) /\ IsStack(Tail(Tail(stack))) /\ IsFrame(Head(Tail(stack)))
      BY <1>2, StackParts
    <2>2. ASSUME NEW f, IsFrame(f), NEW g, g = [f EXCEPT !.ret = v]
          PROVE  Answered(g, f, v)
      BY <2>2 DEF IsFrame, Answered
    <2> DEFINE g == [Head(Tail(stack)) EXCEPT !.ret = v]
    <2>3. Answered(g, Head(Tail(stack)), v)
      BY <2>1, <2>2
    <2>4. stack' = Cons(g, Tail(Tail(stack)))
      BY <1>2 DEF Return, Cons
    <2> HIDE DEF g
    <2> QED
      BY <1>2, <2>1, <2>3, <2>4, ConsStack DEF Answered
  <1> QED
    BY <1>1, <1>2

-----------------------------------------------------------------------------
(* The frames of the calls and callbacks.                                   *)

Made(m, l, f, a, n) ==
    IsFrame(m) /\ m.at = l /\ m.fn = f /\ m.arg = a /\ m.n = n /\ m.ret = 0

LEMMA MadeFrame ==
    ASSUME NEW l, NEW f, NEW a, NEW n, NEW d
    PROVE  Made(MkFrame(l, f, a, n, d), l, f, a, n)
  <1>1. ASSUME NEW m, m = [at |-> l, fn |-> f, arg |-> a, n |-> n, data |-> d, ret |-> 0]
        PROVE  Made(m, l, f, a, n)
    BY <1>1 DEF Made, IsFrame
  <1> QED
    BY <1>1 DEF MkFrame

LEMMA MadeReturn ==
    ASSUME NEW l
    PROVE  Made(ReturnFrame(l, 0), l, "return", "", 0)
  <1>1. ASSUME NEW m, Made(m, l, "return", "", 0), NEW r, r = [m EXCEPT !.ret = 0]
        PROVE  Made(r, l, "return", "", 0)
    BY <1>1 DEF Made, IsFrame
  <1> QED
    BY <1>1, MadeFrame DEF ReturnFrame

LEMMA Neighbours ==
    ASSUME ProxyClient
    PROVE  /\ Below("uws") = "proxy" /\ Below("proxy") = "socket"
           /\ Above("socket") = "proxy" /\ Above("proxy") = "uws"
  <1>1. ASSUME NEW s, s = <<"socket", "proxy", "uws">>
        PROVE  /\ DOMAIN s = {1, 2, 3} /\ s[1] = "socket" /\ s[2] = "proxy" /\ s[3] = "uws"
    BY <1>1
  <1>2. /\ DOMAIN Layers = {1, 2, 3}
        /\ Layers[1] = "socket" /\ Layers[2] = "proxy" /\ Layers[3] = "uws"
    BY <1>1 DEF ProxyClient
  <1>3. /\ (CHOOSE i \in DOMAIN Layers : Layers[i] = "socket") = 1
        /\ (CHOOSE i \in DOMAIN Layers : Layers[i] = "proxy") = 2
        /\ (CHOOSE i \in DOMAIN Layers : Layers[i] = "uws") = 3
    BY <1>2
  <1> QED
    BY <1>2, <1>3 DEF Above, Below

LEMMA CallFrames ==
    ASSUME ProxyClient
    PROVE  /\ Made(xio_open("uws"), "proxy", "open", "", 0)
           /\ \A cb : Made(xio_close("uws", cb), "proxy", "close", cb, 0)
           /\ \A cb, n : Made(xio_send("uws", cb, n), "proxy", "send", cb, n)
           /\ Made(xio_dowork("uws"), "proxy", "dowork", "", 0)
           /\ Made(xio_destroy("uws"), "proxy", "destroy", "", 0)
           /\ Made(xio_open("proxy"), "socket", "open", "", 0)
           /\ \A cb : Made(xio_close("proxy", cb), "socket", "close", cb, 0)
           /\ \A cb, n : Made(xio_send("proxy", cb, n), "socket", "send", cb, n)
           /\ Made(xio_dowork("proxy"), "socket", "dowork", "", 0)
           /\ Made(xio_destroy("proxy"), "socket", "destroy", "", 0)
  BY Neighbours, MadeFrame DEF xio_open, xio_close, xio_send, xio_dowork, xio_destroy

LEMMA CallbackFrames ==
    ASSUME ProxyClient
    PROVE  /\ \A r : Made(on_io_open_complete("socket", r), "proxy", "on_io_open_complete", r, 0)
           /\ \A d : Made(on_bytes_received("socket", d), "proxy", "on_bytes_received", "", 0)
           /\ Made(on_io_error("socket"), "proxy", "on_io_error", "", 0)
           /\ Made(on_io_close_complete("socket"), "proxy", "on_io_close_complete", "", 0)
           /\ \A r : Made(on_io_open_complete("proxy", r), "uws", "on_io_open_complete", r, 0)
           /\ \A d : Made(on_bytes_received("proxy", d), "uws", "on_bytes_received", "", 0)
           /\ Made(on_io_error("proxy"), "uws", "on_io_error", "", 0)
           /\ Made(on_io_close_complete("proxy"), "uws", "on_io_close_complete", "", 0)
  BY Neighbours, MadeFrame
     DEF on_io_open_complete, on_bytes_received, on_io_error, on_io_close_complete

LEMMA OtherFrames ==
    /\ \A f : Made(Proxy(f), "proxy", f, "", 0)
    /\ Made(dowork_sending, "socket", "dowork", "", 0)
    /\ Made(dowork_sent, "socket", "dowork_sent", "", 0)
    /\ Made(dowork_receiving, "socket", "dowork_receive", "", 0)
  BY MadeFrame DEF Proxy, dowork_sending, dowork_sent, dowork_receiving

-----------------------------------------------------------------------------
(* What is known when a function runs.                                      *)

\* what waits beneath the running function may be resumed in any settled state
Calm(s) == Settled /\ AllResumable(Tail(s), closeReports)

LEMMA SocketRuns ==
    ASSUME Place(stack), stack # <<>>
    PROVE  /\ Running("socket", "open") => Calm(stack) /\ proxy_state = "OPENING_UNDERLYING_IO"
           /\ Running("socket", "close") => OpenFailing(stack) \/ Closing(stack)
           /\ Running("socket", "send") => Sending(stack) \/ Connecting(stack)
           /\ Head(stack).at = "socket" /\ Head(stack).fn \in {"destroy", "dowork", "dowork_sent", "dowork_receive"}
                => Calm(stack)
  BY DEF Running, Place, Calm, Usual, Sending, OpenCalled, SocketOpening, Connecting, OpenFailing, Responding, Opening,
         Telling, CloseCalled, Closing, CloseTelling, CloseReturning, Is, IsZero, IsRefusal,
         Harmless, Resumable, ClosedNull, Zero

LEMMA ProxyRuns ==
    ASSUME Place(stack), stack # <<>>
    PROVE  /\ Running("proxy", "open") => OpenCalled(stack)
           /\ Running("proxy", "xio_open_returned") => Calm(stack) /\ Head(stack).ret = 0
           /\ Running("proxy", "on_io_open_complete")
                => Calm(stack) /\ proxy_state = "OPENING_UNDERLYING_IO"
           /\ Running("proxy", "connect_request_sent")
                => Calm(stack) /\ proxy_state = "WAITING_FOR_CONNECT_RESPONSE"
           /\ Head(stack).at = "proxy"
              /\ Head(stack).fn \in {"on_bytes_received", "on_io_error", "dowork", "destroy"}
                => Calm(stack)
           /\ Running("proxy", "connect_response") => Responding(stack)
           /\ Running("proxy", "close") => CloseCalled(stack)
           /\ Running("proxy", "xio_close_returned")
                => Head(stack).ret = 0 /\ (Calm(stack) \/ CloseReturning(stack))
           /\ Running("proxy", "on_io_close_complete") => Closing(stack)
           /\ Running("proxy", "send") => Sending(stack)
  BY DEF Running, Place, Calm, Usual, Sending, OpenCalled, SocketOpening, Connecting, OpenFailing, Responding, Opening,
         Telling, CloseCalled, Closing, CloseTelling, CloseReturning, Is, IsZero, IsRefusal,
         Harmless, Resumable, ClosedNull, Zero

LEMMA ClientRuns ==
    ASSUME Place(stack), stack # <<>>
    PROVE  /\ Running("uws", "returned")
                => (ClosedNull(stack, closeReports) /\ CloseReturning(stack)) \/ Usual(stack)
           /\ Running("uws", "on_io_open_complete") => OpenFailing(stack) \/ Opening(stack)
           /\ Running("uws", "on_bytes_received") => Telling(stack)
           /\ Running("uws", "on_io_error") => Telling(stack)
           /\ Running("uws", "on_io_close_complete") => CloseTelling(stack)
           /\ Running("uws", "on_underlying_io_send_complete") => Calm(stack)
           /\ Running("uws", "in_callback")
                => Calm(stack) \/ OpenFailing(stack) \/ Opening(stack)
           /\ Head(stack).fn = "return"
                => \/ Calm(stack) /\ Head(stack).ret = 0
                   \/ Connecting(stack) \/ CloseReturning(stack)
  BY DEF Running, Place, Calm, Usual, Sending, OpenCalled, SocketOpening, Connecting, OpenFailing, Responding, Opening,
         Telling, CloseCalled, Closing, CloseTelling, CloseReturning, Is, IsZero, IsRefusal,
         Harmless, Resumable, ClosedNull, Zero

-----------------------------------------------------------------------------
(* Steps that leave what waits beneath as it was.                           *)

LEMMA EndsKept ==
    /\ UNCHANGED receive_buffer => ResponseEnds' = ResponseEnds
    /\ receive_buffer = <<>> => ResponseEnds = {}
  BY DEF ResponseEnds

LEMMA SettledKept ==
    ASSUME Settled, UNCHANGED <<proxy_state, phase, receive_buffer>>,
           connected' = connected \/ connected' = FALSE
    PROVE  Settled'
  BY EndsKept DEF Settled

PendingIos == Seq([cb: {"unchecked_on_send_complete", "on_underlying_io_send_complete"}, n: Nat])

LEMMA BooksKept ==
    ASSUME BooksOK, UNCHANGED <<closes, closeReports, asked>>,
           sends' \in Nat, pending_io_list' \in PendingIos,
           proxy_state' \in ProxyStates, phase' \in Phases
    PROVE  BooksOK'
  BY DEF BooksOK, PendingIos

LEMMA BooksSame ==
    ASSUME BooksOK,
           UNCHANGED <<pending_io_list, proxy_state, phase, sends, closes, closeReports, asked>>
    PROVE  BooksOK'
  BY BooksKept DEF BooksOK, PendingIos

LEMMA CalmGoto1 ==
    ASSUME IsStack(stack), stack # <<>>, AllResumable(Tail(stack), closeReports),
           UNCHANGED closeReports, NEW a, IsFrame(a), Goto(<<a>>)
    PROVE  /\ IsStack(stack') /\ stack' # <<>> /\ Head(stack') = a
           /\ AllResumable(Tail(stack'), closeReports')
  BY Goto1

LEMMA CalmGoto2 ==
    ASSUME IsStack(stack), stack # <<>>, AllResumable(Tail(stack), closeReports),
           UNCHANGED closeReports, NEW a, NEW b, IsFrame(a), IsFrame(b), Goto(<<a, b>>),
           Resumable(b, closeReports)
    PROVE  /\ IsStack(stack') /\ stack' # <<>> /\ Head(stack') = a
           /\ Tail(stack') # <<>> /\ Head(Tail(stack')) = b
           /\ AllResumable(Tail(stack'), closeReports')
  <1>1. /\ IsStack(stack') /\ stack' # <<>> /\ Head(stack') = a
        /\ Tail(stack') # <<>> /\ Head(Tail(stack')) = b /\ Tail(Tail(stack')) = Tail(stack)
    BY Goto2
  <1>2. IsStack(Tail(stack'))
    BY <1>1, StackParts
  <1> QED
    BY <1>1, <1>2, PartsResumable

LEMMA CalmPop ==
    ASSUME IsStack(stack), stack # <<>>, AllResumable(Tail(stack), closeReports),
           UNCHANGED closeReports, Pop \/ Goto(<<>>)
    PROVE  IsStack(stack') /\ AllResumable(stack', closeReports')
  BY PopParts

\* v may be returned to s: as a success, or to a client that opened again or sent
Takes(v, s) ==
    \/ v = 0
    \/ s # <<>> /\ Is(Head(s), "uws", "returned") /\ Head(s).arg \in {"open_again", "send"}

LEMMA CalmReturn ==
    ASSUME IsStack(stack), stack # <<>>, AllResumable(Tail(stack), closeReports),
           UNCHANGED closeReports, NEW v, Return(v), Takes(v, Tail(stack))
    PROVE  IsStack(stack') /\ AllResumable(stack', closeReports')
  <1>1. CASE Tail(stack) = <<>>
    BY <1>1, ReturnParts, EmptyStack
  <1>2. CASE Tail(stack) # <<>>
    <2>1. /\ IsStack(stack') /\ stack' # <<>> /\ Tail(stack') = Tail(Tail(stack))
          /\ Answered(Head(stack'), Head(Tail(stack)), v)
      BY <1>2, ReturnParts
    <2>2. IsStack(Tail(stack))
      BY StackParts
    <2>3. Resumable(Head(Tail(stack)), closeReports) /\ AllResumable(Tail(Tail(stack)), closeReports)
      BY <1>2, <2>2, PartsResumable
    <2>4. Resumable(Head(stack'), closeReports)
      <3>1. CASE v = 0
        <4>1. ASSUME NEW f, NEW g, Answered(g, f, v), Resumable(f, closeReports)
              PROVE  Resumable(g, closeReports)
          BY <3>1, <4>1 DEF Answered, Resumable, Is, Zero
        <4> QED
          BY <2>1, <2>3, <4>1
      <3>2. CASE v # 0
        <4>1. Is(Head(Tail(stack)), "uws", "returned")
              /\ Head(Tail(stack)).arg \in {"open_again", "send"}
          BY <3>2 DEF Takes
        <4> QED
          BY <2>1, <4>1 DEF Answered, Resumable, Is
      <3> QED
        BY <3>1, <3>2
    <2> QED
      BY <2>1, <2>3, <2>4, PartsResumable
  <1> QED
    BY <1>1, <1>2

\* at rest, or behind something that has returned
LEMMA AtRest ==
    ASSUME IsStack(stack'), AllResumable(stack', closeReports'), Settled'
    PROVE  Place(stack)'
  <1>1. CASE stack' = <<>>
    BY <1>1 DEF Place, Usual
  <1>2. CASE stack' # <<>>
    BY <1>2, PartsResumable DEF Place, Usual
  <1> QED
    BY <1>1, <1>2

\* in a function that any settled state allows
LEMMA InStep ==
    ASSUME stack' # <<>>, AllResumable(Tail(stack'), closeReports'), Settled',
           Resumable(Head(stack'), closeReports') \/ Harmless(Head(stack'))
    PROVE  Place(stack)'
  BY DEF Place, Usual


-----------------------------------------------------------------------------
(* The socket.                                                              *)

LEMMA SocketOpens ==
    ASSUME ProxyClient, ProxyInv,
           socketio_open_refused \/ socketio_open_connected \/ socketio_open_failed,
           UNCHANGED <<proxyVars, clientVars>>
    PROVE  ProxyInv'
  <1>1. stack # <<>> /\ Running("socket", "open") /\ IsStack(stack)
    BY DEF ProxyInv, Running, socketio_open_refused, socketio_open_connected, socketio_open_failed
  <1>2. Calm(stack) /\ proxy_state = "OPENING_UNDERLYING_IO"
    BY <1>1, SocketRuns DEF ProxyInv
  <1>3. PICK r : Goto(<<on_io_open_complete("socket", r), ReturnFrame("socket", 0)>>)
    BY DEF socketio_open_refused, socketio_open_connected, socketio_open_failed
  <1>4. /\ UNCHANGED <<pending_io_list, proxy_state, receive_buffer, phase, sends, closes, closeReports, asked>>
    BY DEF socketio_open_refused, socketio_open_connected, socketio_open_failed, sockVars, proxyVars,
           clientVars
  <1>5. Made(on_io_open_complete("socket", r), "proxy", "on_io_open_complete", r, 0)
    BY CallbackFrames
  <1>6. Made(ReturnFrame("socket", 0), "socket", "return", "", 0)
        /\ Resumable(ReturnFrame("socket", 0), closeReports)
    BY MadeReturn DEF Made, Resumable, Zero
  <1>7. /\ IsStack(stack') /\ stack' # <<>> /\ Head(stack') = on_io_open_complete("socket", r)
        /\ AllResumable(Tail(stack'), closeReports')
    BY <1>1, <1>2, <1>3, <1>4, <1>5, <1>6, CalmGoto2 DEF Made, Calm
  <1>8. Settled'
    BY <1>2, <1>4, EndsKept DEF Settled, Calm
  <1>9. SocketOpening(stack)'
    BY <1>2, <1>4, <1>5, <1>7, <1>8 DEF SocketOpening, Made, Is
  <1>10. BooksOK'
    BY <1>4, BooksSame DEF ProxyInv
  <1> QED
    BY <1>7, <1>9, <1>10 DEF ProxyInv, Place

LEMMA SocketWorks ==
    ASSUME ProxyClient, ProxyInv,
           \/ socketio_destroy \/ socketio_dowork_send_complete \/ socketio_dowork_remove
           \/ socketio_dowork_send_error \/ socketio_dowork_send_end \/ socketio_dowork_receive
           \/ socketio_dowork_receive_error \/ socketio_dowork_receive_end,
           UNCHANGED <<proxyVars, clientVars>>
    PROVE  ProxyInv'
  <1>1. /\ stack # <<>> /\ IsStack(stack) /\ Head(stack).at = "socket"
        /\ Head(stack).fn \in {"destroy", "dowork", "dowork_sent", "dowork_receive"}
    BY DEF ProxyInv, Running, socketio_destroy, socketio_dowork_send_complete, socketio_dowork_remove,
           socketio_dowork_send_error, socketio_dowork_send_end, socketio_dowork_receive,
           socketio_dowork_receive_error, socketio_dowork_receive_end
  <1>2. Settled /\ AllResumable(Tail(stack), closeReports)
    BY <1>1, SocketRuns DEF ProxyInv, Calm
  <1>3. /\ UNCHANGED <<proxy_state, receive_buffer, phase, sends, closes, closeReports, asked>>
        /\ connected' = connected \/ connected' = FALSE
    BY DEF socketio_destroy, socketio_dowork_send_complete, socketio_dowork_remove,
           socketio_dowork_send_error, socketio_dowork_send_end, socketio_dowork_receive,
           socketio_dowork_receive_error, socketio_dowork_receive_end, sockVars, proxyVars, clientVars
  <1>4. Settled'
    BY <1>2, <1>3, SettledKept
  <1>5. BooksOK'
    <2>1. pending_io_list \in PendingIos
      BY DEF ProxyInv, BooksOK, PendingIos
    <2>2. \/ pending_io_list' = pending_io_list
          \/ pending_io_list' = <<>>
          \/ pending_io_list # <<>> /\ pending_io_list' = Tail(pending_io_list)
      BY DEF socketio_destroy, socketio_dowork_send_complete, socketio_dowork_remove,
             socketio_dowork_send_error, socketio_dowork_send_end, socketio_dowork_receive,
             socketio_dowork_receive_error, socketio_dowork_receive_end, sockVars
    <2>3. pending_io_list' \in PendingIos
      <3> DEFINE P == [cb: {"unchecked_on_send_complete", "on_underlying_io_send_complete"}, n: Nat]
      <3>1. pending_io_list \in Seq(P)
        BY <2>1 DEF PendingIos
      <3> HIDE DEF P
      <3>2. pending_io_list' \in Seq(P)
        <4>1. ASSUME NEW p \in Seq(P), p # <<>>
              PROVE  Tail(p) \in Seq(P)
          BY <4>1
        <4>2. <<>> \in Seq(P)
          OBVIOUS
        <4> QED
          BY <2>2, <3>1, <4>1, <4>2
      <3> QED
        BY <3>2 DEF PendingIos, P
    <2> QED
      BY <1>3, <2>3, BooksKept DEF ProxyInv, BooksOK
  <1>6. IsStack(stack') /\ Place(stack)'
    <2>1. CASE Pop
      BY <1>1, <1>2, <1>3, <1>4, <2>1, CalmPop, AtRest
    <2>2. ASSUME NEW a, NEW f, Made(a, "socket", f, "", 0), f \in {"dowork", "dowork_sent", "dowork_receive"},
                 Goto(<<a>>)
          PROVE  IsStack(stack') /\ Place(stack)'
      <3>1. /\ IsStack(stack') /\ stack' # <<>> /\ Head(stack') = a
            /\ AllResumable(Tail(stack'), closeReports')
        BY <1>1, <1>2, <1>3, <2>2, CalmGoto1 DEF Made
      <3>2. Resumable(a, closeReports')
        BY <2>2 DEF Made, Resumable
      <3> QED
        BY <1>4, <3>1, <3>2, InStep
    <2>3. ASSUME NEW a, Harmless(a), IsFrame(a), NEW b, NEW f, Made(b, "socket", f, "", 0),
                 f \in {"dowork", "dowork_sent", "dowork_receive"}, Goto(<<a, b>>)
          PROVE  IsStack(stack') /\ Place(stack)'
      <3>1. Resumable(b, closeReports)
        BY <2>3 DEF Made, Resumable
      <3>2. /\ IsStack(stack') /\ stack' # <<>> /\ Head(stack') = a
            /\ AllResumable(Tail(stack'), closeReports')
        BY <1>1, <1>2, <1>3, <2>3, <3>1, CalmGoto2 DEF Made
      <3> QED
        BY <1>4, <2>3, <3>2, InStep
    <2>4. CASE socketio_destroy \/ socketio_dowork_receive_end
      BY <2>1, <2>4 DEF socketio_destroy, socketio_dowork_receive_end
    <2>5. CASE socketio_dowork_remove \/ socketio_dowork_send_end
      BY <2>2, <2>5, OtherFrames DEF socketio_dowork_remove, socketio_dowork_send_end
    <2>6. CASE socketio_dowork_send_error
      <3>1. Harmless(on_io_error("socket")) /\ IsFrame(on_io_error("socket"))
        BY CallbackFrames DEF Made, Harmless
      <3> QED
        BY <2>3, <2>6, <3>1, OtherFrames DEF socketio_dowork_send_error
    <2>7. CASE socketio_dowork_receive
      <3>1. PICK d : Goto(<<on_bytes_received("socket", d), dowork_receiving>>)
        BY <2>7 DEF socketio_dowork_receive
      <3>2. Made(on_bytes_received("socket", d), "proxy", "on_bytes_received", "", 0)
        BY CallbackFrames
      <3>3. Harmless(on_bytes_received("socket", d)) /\ IsFrame(on_bytes_received("socket", d))
        BY <3>2 DEF Made, Harmless
      <3> QED
        BY <2>3, <3>1, <3>3, OtherFrames
    <2>8. CASE socketio_dowork_receive_error
      <3>1. Harmless(on_io_error("socket")) /\ IsFrame(on_io_error("socket"))
        BY CallbackFrames DEF Made, Harmless
      <3>2. /\ IsStack(stack') /\ stack' # <<>> /\ Head(stack') = on_io_error("socket")
            /\ AllResumable(Tail(stack'), closeReports')
        BY <1>1, <1>2, <1>3, <2>8, <3>1, CalmGoto1 DEF socketio_dowork_receive_error
      <3> QED
        BY <1>4, <3>1, <3>2, InStep
    <2>9. CASE socketio_dowork_send_complete
      <3> DEFINE io == Head(pending_io_list)
      <3>1. io.cb \in {"unchecked_on_send_complete", "on_underlying_io_send_complete"}
        <4> DEFINE P == [cb: {"unchecked_on_send_complete", "on_underlying_io_send_complete"}, n: Nat]
        <4>1. pending_io_list \in Seq(P) /\ pending_io_list # <<>>
          BY <2>9 DEF ProxyInv, BooksOK, socketio_dowork_send_complete
        <4> HIDE DEF P
        <4>2. Head(pending_io_list) \in P
          BY <4>1
        <4> QED
          BY <4>2 DEF P
      <3>2. Goto(on_send_complete(io.cb, "OK", io.n) \o <<dowork_sent>>)
        BY <2>9 DEF socketio_dowork_send_complete
      <3> DEFINE a == MkFrame("uws", io.cb, "OK", io.n, <<>>)
      <3>3. CASE io.cb = "unchecked_on_send_complete"
        <4>1. on_send_complete(io.cb, "OK", io.n) = <<>>
          BY <3>3 DEF on_send_complete
        <4>2. ASSUME NEW x PROVE <<>> \o <<x>> = <<x>>
          OBVIOUS
        <4>3. Goto(<<dowork_sent>>)
          BY <3>2, <4>1, <4>2
        <4> QED
          BY <2>2, <4>3, OtherFrames
      <3>4. CASE io.cb = "on_underlying_io_send_complete"
        <4>1. on_send_complete(io.cb, "OK", io.n) = <<a>>
          BY <3>4 DEF on_send_complete
        <4>2. Made(a, "uws", "on_underlying_io_send_complete", "OK", io.n)
          BY <3>4, MadeFrame
        <4> HIDE DEF a
        <4>4. Goto(<<a, dowork_sent>>)
          BY <3>2, <4>1, PairOf
        <4>5. Harmless(a) /\ IsFrame(a)
          BY <4>2 DEF Harmless, Made
        <4> QED
          BY <2>3, <4>4, <4>5, OtherFrames
      <3> QED
        BY <3>1, <3>3, <3>4
    <2> QED
      BY <2>4, <2>5, <2>6, <2>7, <2>8, <2>9
  <1> QED
    BY <1>5, <1>6 DEF ProxyInv

LEMMA SocketSends ==
    ASSUME ProxyClient, ProxyInv,
           socketio_send_sent \/ socketio_send_queued \/ socketio_send_failed,
           UNCHANGED <<proxyVars, clientVars>>
    PROVE  ProxyInv'
  <1>1. stack # <<>> /\ IsStack(stack) /\ Running("socket", "send")
    BY DEF ProxyInv, Running, socketio_send_sent, socketio_send_queued, socketio_send_failed
  <1>2. Sending(stack) \/ Connecting(stack)
    BY <1>1, SocketRuns DEF ProxyInv
  <1>3. UNCHANGED <<connected, proxy_state, receive_buffer, phase, sends, closes, closeReports, asked>>
    BY DEF socketio_send_sent, socketio_send_queued, socketio_send_failed, sockVars, proxyVars, clientVars
  <1>4. /\ Settled /\ Head(stack).n \in Nat
        /\ Head(stack).arg \in {"unchecked_on_send_complete", "on_underlying_io_send_complete"}
    BY <1>1, <1>2 DEF Sending, Connecting, Running, Is
  <1>5. Settled'
    BY <1>3, <1>4, SettledKept
  <1>6. BooksOK'
    <2> DEFINE P == [cb: {"unchecked_on_send_complete", "on_underlying_io_send_complete"}, n: Nat]
    <2>1. pending_io_list \in Seq(P)
      BY DEF ProxyInv, BooksOK
    <2>2. \/ pending_io_list' = pending_io_list
          \/ pending_io_list' = Append(pending_io_list, [cb |-> Top.arg, n |-> Top.n])
      BY DEF socketio_send_sent, socketio_send_queued, socketio_send_failed, sockVars
    <2>3. [cb |-> Top.arg, n |-> Top.n] \in P
      BY <1>4 DEF Top
    <2> DEFINE x == [cb |-> Top.arg, n |-> Top.n]
    <2> HIDE DEF P, x
    <2>4. pending_io_list' \in Seq(P)
      BY <2>1, <2>2, <2>3 DEF x
    <2> QED
      BY <1>3, <2>4, BooksKept DEF ProxyInv, BooksOK, P, PendingIos
  <1> DEFINE r == ReturnFrame("socket", 0)
  <1>7. Made(r, "socket", "return", "", 0) /\ Resumable(r, closeReports)
    BY MadeReturn DEF Made, Resumable, Zero
  <1> HIDE DEF r
  <1>8. CASE Sending(stack)
    <2>1. /\ AllResumable(Tail(stack), closeReports) /\ Head(stack).arg = "on_underlying_io_send_complete"
          /\ Tail(stack) # <<>> /\ Is(Head(Tail(stack)), "uws", "returned")
          /\ Head(Tail(stack)).arg \in {"open_again", "send"}
      BY <1>8 DEF Sending
    <2>2. CASE socketio_send_sent
      <3> DEFINE a == MkFrame("uws", "on_underlying_io_send_complete", "OK", Top.n, <<>>)
      <3>1. Made(a, "uws", "on_underlying_io_send_complete", "OK", Top.n)
        BY MadeFrame
      <3>2. on_send_complete(Top.arg, "OK", Top.n) = <<a>>
        BY <2>1 DEF on_send_complete, Top
      <3> HIDE DEF a
      <3>3. Goto(<<a, r>>)
        BY <2>2, <3>2, PairOf DEF socketio_send_sent, r
      <3>4. Harmless(a) /\ IsFrame(a) /\ IsFrame(r)
        BY <1>7, <3>1 DEF Harmless, Made
      <3>5. /\ IsStack(stack') /\ stack' # <<>> /\ Head(stack') = a
            /\ AllResumable(Tail(stack'), closeReports')
        BY <1>1, <1>3, <1>7, <2>1, <3>3, <3>4, CalmGoto2
      <3> QED
        BY <1>5, <1>6, <3>4, <3>5, InStep DEF ProxyInv
    <2>3. CASE socketio_send_queued \/ socketio_send_failed
      <3>1. PICK v : Return(v)
        BY <2>3 DEF socketio_send_queued, socketio_send_failed
      <3>2. IsStack(stack') /\ AllResumable(stack', closeReports')
        BY <1>1, <1>3, <2>1, <3>1, CalmReturn DEF Takes
      <3> QED
        BY <1>5, <1>6, <3>2, AtRest DEF ProxyInv
    <2> QED
      BY <2>2, <2>3
  <1>9. CASE Connecting(stack)
    <2>1. /\ proxy_state = "WAITING_FOR_CONNECT_RESPONSE" /\ Head(stack).arg = "unchecked_on_send_complete"
          /\ Tail(stack) # <<>> /\ Is(Head(Tail(stack)), "proxy", "connect_request_sent")
          /\ AllResumable(Tail(Tail(stack)), closeReports)
      BY <1>1, <1>9 DEF Connecting, Running, Is
    <2>2. CASE socketio_send_sent
      <3>1. on_send_complete(Top.arg, "OK", Top.n) = <<>>
        BY <2>1 DEF on_send_complete, Top
      <3>2. ASSUME NEW x PROVE <<>> \o <<x>> = <<x>>
        OBVIOUS
      <3>3. Goto(<<r>>)
        BY <2>2, <3>1, <3>2 DEF socketio_send_sent, r
      <3>4. IsStack(stack') /\ stack' # <<>> /\ Head(stack') = r /\ Tail(stack') = Tail(stack)
        BY <1>1, <1>7, <3>3, Goto1 DEF Made
      <3>5. Connecting(stack)'
        BY <1>3, <1>5, <1>7, <2>1, <3>4 DEF Connecting, Made, Is
      <3> QED
        BY <1>6, <3>4, <3>5 DEF ProxyInv, Place
    <2>3. CASE socketio_send_queued \/ socketio_send_failed
      <3>1. PICK v : Return(v)
        BY <2>3 DEF socketio_send_queued, socketio_send_failed
      <3>2. /\ IsStack(stack') /\ stack' # <<>> /\ Tail(stack') = Tail(Tail(stack))
            /\ Answered(Head(stack'), Head(Tail(stack)), v)
        BY <1>1, <2>1, <3>1, ReturnParts
      <3>3. Connecting(stack)'
        BY <1>3, <1>5, <2>1, <3>2 DEF Connecting, Answered, Is
      <3> QED
        BY <1>6, <3>2, <3>3 DEF ProxyInv, Place
    <2> QED
      BY <2>2, <2>3
  <1> QED
    BY <1>2, <1>8, <1>9

LEMMA SocketCloses ==
    ASSUME ProxyClient, ProxyInv, socketio_close, UNCHANGED <<proxyVars, clientVars>>
    PROVE  ProxyInv'
  <1>1. stack # <<>> /\ IsStack(stack) /\ Running("socket", "close")
    BY DEF ProxyInv, Running, socketio_close
  <1>2. OpenFailing(stack) \/ Closing(stack)
    BY <1>1, SocketRuns DEF ProxyInv
  <1>3. /\ UNCHANGED <<pending_io_list, proxy_state, receive_buffer, proxy_on_close, phase, sends, closes,
                       closeReports, asked>>
        /\ connected' = FALSE
    BY DEF socketio_close, proxyVars, clientVars
  <1>4. BooksOK'
    BY <1>3, BooksSame DEF ProxyInv
  <1>5. CASE OpenFailing(stack)
    <2>1. /\ phase = "opening" /\ proxy_state = "CLOSED" /\ Head(stack).arg = "NULL"
          /\ Tail(stack) # <<>> /\ IsRefusal(Head(Tail(stack))) /\ Beneath(Tail(Tail(stack)))
      BY <1>1, <1>5 DEF OpenFailing, Running, Is, IsRefusal
    <2>2. Return(0)
      BY <2>1 DEF socketio_close, Top
    <2>3. /\ IsStack(stack') /\ stack' # <<>> /\ Tail(stack') = Tail(Tail(stack))
          /\ Answered(Head(stack'), Head(Tail(stack)), 0)
      BY <1>1, <2>1, <2>2, ReturnParts
    <2>4. IsRefusal(Head(stack'))
      BY <2>1, <2>3 DEF IsRefusal, Answered, Is
    <2>5. Beneath(Tail(stack))'
      BY <1>3, <2>1, <2>3, EndsKept DEF Beneath, ClosedNull
    <2>6. OpenFailing(stack)'
      BY <1>3, <2>1, <2>3, <2>4, <2>5 DEF OpenFailing
    <2> QED
      BY <1>4, <2>3, <2>6 DEF ProxyInv, Place
  <1>6. CASE Closing(stack)
    <2>1. /\ proxy_state = "CLOSING" /\ phase \in {"open", "failed"} /\ Head(stack).arg = "close_complete"
          /\ Tail(stack) # <<>> /\ IsZero(Head(Tail(stack)), "proxy", "xio_close_returned")
          /\ Awaited(Tail(Tail(stack)))
      BY <1>1, <1>6 DEF Closing, Running, Is
    <2> DEFINE a == on_io_close_complete("socket")
               r == ReturnFrame("socket", 0)
    <2>2. Goto(<<a, r>>)
      BY <2>1 DEF socketio_close, Top
    <2>3. Made(a, "proxy", "on_io_close_complete", "", 0) /\ Made(r, "socket", "return", "", 0)
      BY CallbackFrames, MadeReturn
    <2> HIDE DEF a, r
    <2>4. /\ IsStack(stack') /\ stack' # <<>> /\ Head(stack') = a
          /\ Tail(stack') # <<>> /\ Head(Tail(stack')) = r /\ Tail(Tail(stack')) = Tail(stack)
      BY <1>1, <2>2, <2>3, Goto2 DEF Made
    <2>5. Awaited(Tail(Tail(Tail(stack))))'
      BY <1>3, <2>1, <2>4 DEF Awaited, ClosedAsked, ClosedNull
    <2>6. Closing(stack)'
      BY <1>3, <2>1, <2>3, <2>4, <2>5 DEF Closing, Made, Is, IsZero
    <2> QED
      BY <1>4, <2>4, <2>6 DEF ProxyInv, Place
  <1> QED
    BY <1>2, <1>5, <1>6

-----------------------------------------------------------------------------
(* The proxy layer: opening.                                                *)

LEMMA ReportsFailure ==
    ASSUME ProxyClient, IsStack(stack), stack # <<>>, BooksOK, phase = "opening",
           Beneath(Tail(stack)), NEW r, r # "OK", close_and_report(r),
           UNCHANGED <<receive_buffer, sockVars, clientVars>>
    PROVE  ProxyInv'
  <1> DEFINE a == xio_close("proxy", "NULL")
             b == on_io_open_complete("proxy", r)
  <1>1. Goto(<<a, b>>) /\ proxy_state' = "CLOSED"
    BY DEF close_and_report, ProxyState
  <1>2. Made(a, "socket", "close", "NULL", 0) /\ Made(b, "uws", "on_io_open_complete", r, 0)
    BY CallFrames, CallbackFrames
  <1> HIDE DEF a, b
  <1>3. /\ IsStack(stack') /\ stack' # <<>> /\ Head(stack') = a
        /\ Tail(stack') # <<>> /\ Head(Tail(stack')) = b /\ Tail(Tail(stack')) = Tail(stack)
    BY <1>1, <1>2, Goto2 DEF Made
  <1>4. UNCHANGED <<pending_io_list, receive_buffer, phase, sends, closes, closeReports, asked>>
    BY DEF sockVars, clientVars
  <1>5. Beneath(Tail(Tail(stack)))'
    BY <1>3, <1>4, EndsKept DEF Beneath, ClosedNull
  <1>6. OpenFailing(stack)'
    BY <1>1, <1>2, <1>3, <1>4, <1>5 DEF OpenFailing, Made, Is, IsRefusal
  <1>7. BooksOK'
    <2>1. /\ sends' \in Nat /\ pending_io_list' \in PendingIos
          /\ proxy_state' \in ProxyStates /\ phase' \in Phases
      BY <1>1, <1>4 DEF BooksOK, PendingIos, ProxyStates
    <2> QED
      BY <1>4, <2>1, BooksKept
  <1> QED
    BY <1>3, <1>6, <1>7 DEF ProxyInv, Place

\* the books, when the state of the proxy layer is all that changes
LEMMA ProxyBooks ==
    ASSUME BooksOK, proxy_state' \in ProxyStates, UNCHANGED <<sockVars, clientVars>>
    PROVE  /\ BooksOK'
           /\ UNCHANGED <<connected, pending_io_list, phase, sends, closes, closeReports, asked>>
  <1>1. UNCHANGED <<connected, pending_io_list, phase, sends, closes, closeReports, asked>>
    BY DEF sockVars, clientVars
  <1>2. sends' \in Nat /\ pending_io_list' \in PendingIos /\ phase' \in Phases
    BY <1>1 DEF BooksOK, PendingIos
  <1> QED
    BY <1>1, <1>2, BooksKept

LEMMA ProxyOpens ==
    ASSUME ProxyClient, ProxyInv, http_proxy_io_open, UNCHANGED <<sockVars, clientVars>>
    PROVE  ProxyInv'
  <1>1. stack # <<>> /\ IsStack(stack) /\ Running("proxy", "open") /\ OpenCalled(stack) /\ BooksOK
    BY ProxyRuns DEF ProxyInv, Running, http_proxy_io_open
  <1>2. UNCHANGED <<receive_buffer, proxy_on_close>>
    BY DEF http_proxy_io_open
  <1>3. CASE proxy_state # "CLOSED"
    <2>1. Return(1) /\ UNCHANGED proxy_state
      BY <1>3 DEF http_proxy_io_open
    <2>2. /\ BooksOK'
          /\ UNCHANGED <<connected, pending_io_list, phase, sends, closes, closeReports, asked>>
      BY <1>1, <2>1, ProxyBooks DEF BooksOK
    <2>3. Settled'
      BY <1>1, <1>2, <1>3, <2>1, <2>2, SettledKept DEF OpenCalled
    <2>4. IsStack(stack') /\ AllResumable(stack', closeReports')
      BY <1>1, <1>3, <2>1, <2>2, CalmReturn DEF OpenCalled, Takes
    <2> QED
      BY <2>2, <2>3, <2>4, AtRest DEF ProxyInv
  <1>4. CASE proxy_state = "CLOSED"
    <2> DEFINE a == xio_open("proxy")
               b == Proxy("xio_open_returned")
    <2>1. proxy_state' = "OPENING_UNDERLYING_IO" /\ Goto(<<a, b>>)
      BY <1>4 DEF http_proxy_io_open, ProxyState
    <2>2. Made(a, "socket", "open", "", 0) /\ Made(b, "proxy", "xio_open_returned", "", 0)
      BY CallFrames, OtherFrames
    <2> HIDE DEF a, b
    <2>3. Resumable(b, closeReports)
      BY <2>2 DEF Made, Resumable, Zero
    <2>4. /\ BooksOK'
          /\ UNCHANGED <<connected, pending_io_list, phase, sends, closes, closeReports, asked>>
      BY <1>1, <2>1, ProxyBooks DEF ProxyStates
    <2>5. /\ IsStack(stack') /\ stack' # <<>> /\ Head(stack') = a
          /\ AllResumable(Tail(stack'), closeReports')
      BY <1>1, <2>1, <2>2, <2>3, <2>4, CalmGoto2 DEF OpenCalled, Made
    <2>6. phase = "opening" /\ receive_buffer = <<>>
      BY <1>1, <1>4 DEF OpenCalled, Settled
    <2>7. Settled'
      BY <1>2, <2>1, <2>4, <2>6 DEF Settled
    <2>8. SocketOpening(stack)'
      BY <2>1, <2>2, <2>5, <2>7 DEF SocketOpening, Made, Is
    <2> QED
      BY <2>4, <2>5, <2>8 DEF ProxyInv, Place
  <1> QED
    BY <1>3, <1>4

LEMMA OpenReturns ==
    ASSUME ProxyClient, ProxyInv, proxy_xio_open_returned, UNCHANGED <<sockVars, clientVars>>
    PROVE  ProxyInv'
  <1>1. /\ stack # <<>> /\ IsStack(stack) /\ Running("proxy", "xio_open_returned") /\ BooksOK
        /\ Settled /\ AllResumable(Tail(stack), closeReports) /\ Head(stack).ret = 0
    BY ProxyRuns DEF ProxyInv, Running, Calm, proxy_xio_open_returned
  <1>2. UNCHANGED <<receive_buffer, proxy_state>> /\ Return(0)
    BY <1>1 DEF proxy_xio_open_returned, ProxyState, Top
  <1>3. /\ BooksOK'
        /\ UNCHANGED <<connected, pending_io_list, phase, sends, closes, closeReports, asked>>
    BY <1>1, <1>2, ProxyBooks DEF BooksOK
  <1>4. Settled'
    BY <1>1, <1>2, <1>3, SettledKept
  <1>5. IsStack(stack') /\ AllResumable(stack', closeReports')
    <2>1. Takes(0, Tail(stack))
      BY DEF Takes
    <2> QED
      BY <1>1, <1>2, <1>3, <2>1, CalmReturn
  <1> QED
    BY <1>3, <1>4, <1>5, AtRest DEF ProxyInv

LEMMA SocketAnswersOpen ==
    ASSUME ProxyClient, ProxyInv,
           proxy_on_underlying_io_open_complete \/ proxy_on_underlying_io_open_complete_late,
           UNCHANGED <<sockVars, clientVars>>
    PROVE  ProxyInv'
  <1>1. /\ stack # <<>> /\ IsStack(stack) /\ Running("proxy", "on_io_open_complete") /\ BooksOK
        /\ Settled /\ AllResumable(Tail(stack), closeReports) /\ proxy_state = "OPENING_UNDERLYING_IO"
    BY ProxyRuns
       DEF ProxyInv, Running, Calm, proxy_on_underlying_io_open_complete, proxy_on_underlying_io_open_complete_late
  <1>2. proxy_on_underlying_io_open_complete /\ UNCHANGED receive_buffer
    BY <1>1 DEF proxy_on_underlying_io_open_complete_late, proxy_on_underlying_io_open_complete
  <1>3. phase = "opening" /\ receive_buffer = <<>> /\ Beneath(Tail(stack))
    BY <1>1 DEF Settled, Beneath
  <1>4. CASE \E r : r # "OK" /\ close_and_report(r)
    BY <1>1, <1>2, <1>3, <1>4, ReportsFailure
  <1> DEFINE a == xio_send("proxy", "unchecked_on_send_complete", 0)
             b == Proxy("connect_request_sent")
  <1>5. CASE proxy_state' = "WAITING_FOR_CONNECT_RESPONSE" /\ Goto(<<a, b>>)
    <2>1. Made(a, "socket", "send", "unchecked_on_send_complete", 0)
          /\ Made(b, "proxy", "connect_request_sent", "", 0)
      BY CallFrames, OtherFrames
    <2> HIDE DEF a, b
    <2>2. /\ BooksOK'
          /\ UNCHANGED <<connected, pending_io_list, phase, sends, closes, closeReports, asked>>
      BY <1>1, <1>5, ProxyBooks DEF ProxyStates
    <2>3. /\ IsStack(stack') /\ stack' # <<>> /\ Head(stack') = a
          /\ Tail(stack') # <<>> /\ Head(Tail(stack')) = b /\ Tail(Tail(stack')) = Tail(stack)
      BY <1>1, <1>5, <2>1, Goto2 DEF Made
    <2>4. Settled'
      BY <1>2, <1>3, <1>5, <2>2, EndsKept DEF Settled
    <2>5. Connecting(stack)'
      <3>1. AllResumable(Tail(Tail(stack')), closeReports')
        BY <1>1, <2>2, <2>3
      <3>2. Is(a, "socket", "send") /\ a.arg = "unchecked_on_send_complete" /\ a.n \in Nat
            /\ Is(b, "proxy", "connect_request_sent")
        <4>1. a.n = 0 /\ 0 \in Nat
          BY <2>1 DEF Made
        <4> QED
          BY <2>1, <4>1 DEF Made, Is
      <3> QED
        BY <1>5, <2>3, <2>4, <3>1, <3>2 DEF Connecting
    <2> QED
      BY <2>2, <2>3, <2>5 DEF ProxyInv, Place
  <1> QED
    BY <1>2, <1>4, <1>5 DEF proxy_on_underlying_io_open_complete, ProxyState

LEMMA RequestSent ==
    ASSUME ProxyClient, ProxyInv, connect_request_sent, UNCHANGED <<sockVars, clientVars>>
    PROVE  ProxyInv'
  <1>1. /\ stack # <<>> /\ IsStack(stack) /\ Running("proxy", "connect_request_sent") /\ BooksOK
        /\ Settled /\ AllResumable(Tail(stack), closeReports) /\ proxy_state = "WAITING_FOR_CONNECT_RESPONSE"
    BY ProxyRuns DEF ProxyInv, Running, Calm, connect_request_sent
  <1>2. UNCHANGED receive_buffer
    BY DEF connect_request_sent
  <1>3. phase = "opening" /\ Beneath(Tail(stack))
    BY <1>1 DEF Settled, Beneath
  <1>4. CASE close_and_report("ERROR")
    BY <1>1, <1>2, <1>3, <1>4, ReportsFailure
  <1>5. CASE Pop /\ UNCHANGED proxy_state
    <2>1. /\ BooksOK'
          /\ UNCHANGED <<connected, pending_io_list, phase, sends, closes, closeReports, asked>>
      BY <1>1, <1>5, ProxyBooks DEF BooksOK
    <2>2. Settled'
      BY <1>1, <1>2, <1>5, <2>1, SettledKept
    <2>3. IsStack(stack') /\ AllResumable(stack', closeReports')
      BY <1>1, <1>5, <2>1, CalmPop
    <2> QED
      BY <2>1, <2>2, <2>3, AtRest DEF ProxyInv
  <1> QED
    BY <1>4, <1>5 DEF connect_request_sent

-----------------------------------------------------------------------------
(* The proxy layer: the response and what comes after it.                   *)

LEMMA ProxyReceives ==
    ASSUME ProxyClient, ProxyInv, proxy_on_underlying_io_bytes_received,
           UNCHANGED <<sockVars, clientVars>>
    PROVE  ProxyInv'
  <1>1. /\ stack # <<>> /\ IsStack(stack) /\ BooksOK
        /\ Settled /\ AllResumable(Tail(stack), closeReports)
    BY ProxyRuns DEF ProxyInv, Running, Calm, proxy_on_underlying_io_bytes_received
  <1>2. ASSUME proxy_state' \in ProxyStates
        PROVE  /\ BooksOK'
               /\ UNCHANGED <<connected, pending_io_list, phase, sends, closes, closeReports, asked>>
    BY <1>1, <1>2, ProxyBooks
  <1>3. CASE proxy_state = "WAITING_FOR_CONNECT_RESPONSE" /\ UNCHANGED proxy_state
             /\ Goto(<<Proxy("connect_response")>>)
    <2> DEFINE a == Proxy("connect_response")
    <2>1. Made(a, "proxy", "connect_response", "", 0) /\ Goto(<<a>>)
      BY <1>3, OtherFrames
    <2> HIDE DEF a
    <2>2. /\ BooksOK'
          /\ UNCHANGED <<connected, pending_io_list, phase, sends, closes, closeReports, asked>>
      BY <1>1, <1>2, <1>3 DEF BooksOK
    <2>3. /\ IsStack(stack') /\ stack' # <<>> /\ Head(stack') = a
          /\ AllResumable(Tail(stack'), closeReports')
      BY <1>1, <2>1, <2>2, CalmGoto1 DEF Made
    <2>4. Responding(stack)'
      BY <1>1, <1>3, <2>1, <2>2, <2>3 DEF Responding, Settled, Made, Is
    <2> QED
      BY <2>2, <2>3, <2>4 DEF ProxyInv, Place
  <1>4. CASE /\ proxy_state = "WAITING_FOR_CONNECT_RESPONSE" /\ ProxyState("CLOSED")
             /\ UNCHANGED receive_buffer
             /\ Goto(<<xio_close("proxy", "NULL"), on_io_open_complete("proxy", "ERROR"),
                       Proxy("connect_response")>>)
    <2> DEFINE a == xio_close("proxy", "NULL")
               b == on_io_open_complete("proxy", "ERROR")
               c == Proxy("connect_response")
    <2>1. /\ Made(a, "socket", "close", "NULL", 0) /\ Made(b, "uws", "on_io_open_complete", "ERROR", 0)
          /\ Made(c, "proxy", "connect_response", "", 0) /\ Goto(<<a, b, c>>)
      BY <1>4, CallFrames, CallbackFrames, OtherFrames
    <2> HIDE DEF a, b, c
    <2>2. /\ BooksOK'
          /\ UNCHANGED <<connected, pending_io_list, phase, sends, closes, closeReports, asked>>
      BY <1>2, <1>4 DEF ProxyState, ProxyStates
    <2>3. /\ IsStack(stack') /\ stack' # <<>> /\ Head(stack') = a
          /\ Tail(stack') # <<>> /\ Head(Tail(stack')) = b
          /\ Tail(Tail(stack')) # <<>> /\ Head(Tail(Tail(stack'))) = c
          /\ Tail(Tail(Tail(stack'))) = Tail(stack)
      BY <1>1, <2>1, Goto3 DEF Made
    <2>4. phase = "opening" /\ ResponseEnds' = {} /\ proxy_state' = "CLOSED"
      BY <1>1, <1>4, EndsKept DEF Settled, ProxyState
    <2>5. Beneath(Tail(Tail(stack)))'
      BY <1>1, <2>1, <2>2, <2>3, <2>4 DEF Beneath, Made, Is
    <2>6. OpenFailing(stack)'
      BY <2>1, <2>2, <2>3, <2>4, <2>5 DEF OpenFailing, Made, Is, IsRefusal
    <2> QED
      BY <2>2, <2>3, <2>6 DEF ProxyInv, Place
  <1>5. CASE proxy_state = "OPENING_UNDERLYING_IO" /\ close_and_report("ERROR") /\ UNCHANGED receive_buffer
    <2>1. phase = "opening" /\ Beneath(Tail(stack))
      BY <1>1, <1>5 DEF Settled, Beneath
    <2> QED
      BY <1>1, <1>5, <2>1, ReportsFailure
  <1>6. CASE /\ proxy_state = "OPEN" /\ UNCHANGED <<proxy_state, receive_buffer>>
             /\ Goto(<<on_bytes_received("proxy", Top.data)>>)
    <2> DEFINE a == on_bytes_received("proxy", Top.data)
    <2>1. Made(a, "uws", "on_bytes_received", "", 0) /\ Goto(<<a>>)
      BY <1>6, CallbackFrames
    <2> HIDE DEF a
    <2>2. /\ BooksOK'
          /\ UNCHANGED <<connected, pending_io_list, phase, sends, closes, closeReports, asked>>
      BY <1>1, <1>2, <1>6 DEF BooksOK
    <2>3. /\ IsStack(stack') /\ stack' # <<>> /\ Head(stack') = a
          /\ AllResumable(Tail(stack'), closeReports')
      BY <1>1, <2>1, <2>2, CalmGoto1 DEF Made
    <2>4. Telling(stack)'
      BY <1>1, <1>6, <2>1, <2>2, <2>3 DEF Telling, Settled, Made, Is
    <2> QED
      BY <2>2, <2>3, <2>4 DEF ProxyInv, Place
  <1>7. CASE Pop /\ UNCHANGED <<proxy_state, receive_buffer>>
    <2>1. /\ BooksOK'
          /\ UNCHANGED <<connected, pending_io_list, phase, sends, closes, closeReports, asked>>
      BY <1>1, <1>2, <1>7 DEF BooksOK
    <2>2. Settled'
      BY <1>1, <1>7, <2>1, SettledKept
    <2>3. IsStack(stack') /\ AllResumable(stack', closeReports')
      BY <1>1, <1>7, <2>1, CalmPop
    <2> QED
      BY <2>1, <2>2, <2>3, AtRest DEF ProxyInv
  <1> QED
    BY <1>3, <1>4, <1>5, <1>6, <1>7 DEF proxy_on_underlying_io_bytes_received

LEMMA ProxyResponds ==
    ASSUME ProxyClient, ProxyInv, connect_response, UNCHANGED <<sockVars, clientVars>>
    PROVE  ProxyInv'
  <1>1. /\ stack # <<>> /\ IsStack(stack) /\ BooksOK /\ Responding(stack)
        /\ AllResumable(Tail(stack), closeReports) /\ UNCHANGED receive_buffer
    BY ProxyRuns DEF ProxyInv, Running, Responding, connect_response
  <1>2. CASE ResponseEnds = {} /\ Pop /\ UNCHANGED proxy_state
    <2>1. /\ BooksOK'
          /\ UNCHANGED <<connected, pending_io_list, phase, sends, closes, closeReports, asked>>
      BY <1>1, <1>2, ProxyBooks DEF BooksOK
    <2>2. Settled
      BY <1>1, <1>2 DEF Responding, Settled
    <2>3. Settled'
      BY <1>1, <1>2, <2>1, <2>2, SettledKept
    <2>4. IsStack(stack') /\ AllResumable(stack', closeReports')
      BY <1>1, <1>2, <2>1, CalmPop
    <2> QED
      BY <2>1, <2>3, <2>4, AtRest DEF ProxyInv
  <1>3. CASE ResponseEnds # {} /\ close_and_report("ERROR")
    <2>1. phase = "opening" /\ Beneath(Tail(stack))
      BY <1>1, <1>3 DEF Responding, Beneath
    <2> QED
      BY <1>1, <1>3, <2>1, ReportsFailure
  <1> DEFINE a == on_io_open_complete("proxy", "OK")
             b == on_bytes_received("proxy", Remaining)
  <1>4. CASE /\ ResponseEnds # {} /\ ProxyState("OPEN")
             /\ Goto(<<a>> \o (IF Remaining = <<>> THEN <<>> ELSE <<b>>))
    <2>1. /\ phase = "opening" /\ proxy_state' = "OPEN"
      BY <1>1, <1>4 DEF Responding, ProxyState
    <2>2. /\ BooksOK'
          /\ UNCHANGED <<connected, pending_io_list, phase, sends, closes, closeReports, asked>>
      BY <1>1, <2>1, ProxyBooks DEF ProxyStates
    <2>3. Made(a, "uws", "on_io_open_complete", "OK", 0) /\ Made(b, "uws", "on_bytes_received", "", 0)
      BY CallbackFrames
    <2> HIDE DEF a, b
    <2>4. ASSUME NEW x
          PROVE  <<x>> \o <<>> = <<x>>
      OBVIOUS
    <2>5. Goto(<<a>>) \/ Goto(<<a, b>>)
      BY <1>4, <2>4, PairOf
    <2>6. CASE Goto(<<a>>)
      <3>1. /\ IsStack(stack') /\ stack' # <<>> /\ Head(stack') = a
            /\ AllResumable(Tail(stack'), closeReports')
        BY <1>1, <2>2, <2>3, <2>6, CalmGoto1 DEF Made
      <3>2. Opening(stack)'
        BY <2>1, <2>2, <2>3, <3>1 DEF Opening, Made, Is
      <3> QED
        BY <2>2, <3>1, <3>2 DEF ProxyInv, Place
    <2>7. CASE Goto(<<a, b>>)
      <3>1. /\ IsStack(stack') /\ stack' # <<>> /\ Head(stack') = a
            /\ Tail(stack') # <<>> /\ Head(Tail(stack')) = b /\ Tail(Tail(stack')) = Tail(stack)
        BY <1>1, <2>3, <2>7, Goto2 DEF Made
      <3>2. AllResumable(Tail(Tail(stack')), closeReports')
        BY <1>1, <2>2, <3>1
      <3>3. Opening(stack)'
        BY <2>1, <2>2, <2>3, <3>1, <3>2 DEF Opening, Made, Is
      <3> QED
        BY <2>2, <3>1, <3>3 DEF ProxyInv, Place
    <2> QED
      BY <2>5, <2>6, <2>7
  <1> QED
    BY <1>2, <1>3, <1>4 DEF connect_response

LEMMA ProxyFails ==
    ASSUME ProxyClient, ProxyInv, proxy_on_underlying_io_error, UNCHANGED <<sockVars, clientVars>>
    PROVE  ProxyInv'
  <1>1. /\ stack # <<>> /\ IsStack(stack) /\ BooksOK
        /\ Settled /\ AllResumable(Tail(stack), closeReports) /\ UNCHANGED receive_buffer
    BY ProxyRuns DEF ProxyInv, Running, Calm, proxy_on_underlying_io_error
  <1>2. CASE proxy_state \in ProxyOpening /\ close_and_report("ERROR")
    <2>1. phase = "opening" /\ Beneath(Tail(stack))
      BY <1>1, <1>2 DEF Settled, Beneath, ProxyOpening
    <2> QED
      BY <1>1, <1>2, <2>1, ReportsFailure
  <1>3. CASE proxy_state = "OPEN" /\ ProxyState("ERROR") /\ Goto(<<on_io_error("proxy")>>)
    <2> DEFINE a == on_io_error("proxy")
    <2>1. Made(a, "uws", "on_io_error", "", 0) /\ Goto(<<a>>)
      BY <1>3, CallbackFrames
    <2> HIDE DEF a
    <2>2. /\ BooksOK' /\ proxy_state' = "ERROR"
          /\ UNCHANGED <<connected, pending_io_list, phase, sends, closes, closeReports, asked>>
      BY <1>1, <1>3, ProxyBooks DEF ProxyState, ProxyStates
    <2>3. /\ IsStack(stack') /\ stack' # <<>> /\ Head(stack') = a
          /\ AllResumable(Tail(stack'), closeReports')
      BY <1>1, <2>1, <2>2, CalmGoto1 DEF Made
    <2>4. Telling(stack)'
      BY <1>1, <1>3, <2>1, <2>2, <2>3 DEF Telling, Settled, Made, Is
    <2> QED
      BY <2>2, <2>3, <2>4 DEF ProxyInv, Place
  <1>4. CASE Pop /\ UNCHANGED proxy_state
    <2>1. /\ BooksOK'
          /\ UNCHANGED <<connected, pending_io_list, phase, sends, closes, closeReports, asked>>
      BY <1>1, <1>4, ProxyBooks DEF BooksOK
    <2>2. Settled'
      BY <1>1, <1>4, <2>1, SettledKept
    <2>3. IsStack(stack') /\ AllResumable(stack', closeReports')
      BY <1>1, <1>4, <2>1, CalmPop
    <2> QED
      BY <2>1, <2>2, <2>3, AtRest DEF ProxyInv
  <1> QED
    BY <1>2, <1>3, <1>4 DEF proxy_on_underlying_io_error

-----------------------------------------------------------------------------
(* The proxy layer: closing, sending and the pump.                          *)

LEMMA ProxyCloses ==
    ASSUME ProxyClient, ProxyInv, http_proxy_io_close, UNCHANGED <<sockVars, clientVars>>
    PROVE  ProxyInv'
  <1>1. /\ stack # <<>> /\ IsStack(stack) /\ BooksOK /\ Settled
        /\ Is(Head(stack), "proxy", "close")
        /\ \/ Head(stack).arg = "cb" /\ phase # "opening" /\ ClosedAsked(Tail(stack))
           \/ (Head(stack).arg = "NULL" \/ phase = "opening") /\ ClosedNull(Tail(stack), closeReports)
        /\ UNCHANGED receive_buffer
    BY ProxyRuns DEF ProxyInv, Running, CloseCalled, http_proxy_io_close
  <1>2. CASE proxy_state \in {"CLOSED", "CLOSING"} /\ Return(1) /\ UNCHANGED proxy_state
    <2>1. /\ BooksOK'
          /\ UNCHANGED <<connected, pending_io_list, phase, sends, closes, closeReports, asked>>
      BY <1>1, <1>2, ProxyBooks DEF BooksOK
    <2>2. Settled' /\ proxy_state = "CLOSED" /\ phase = "closed" /\ connected = FALSE
      <3>1. Settled'
        BY <1>1, <1>2, <2>1, SettledKept
      <3> QED
        BY <1>1, <1>2, <3>1 DEF Settled
    <2>3. Tail(stack) # <<>> /\ Is(Head(Tail(stack)), "uws", "returned")
          /\ AllResumable(Tail(Tail(stack)), closeReports)
      BY <1>1 DEF ClosedAsked, ClosedNull
    <2>4. /\ IsStack(stack') /\ stack' # <<>> /\ Tail(stack') = Tail(Tail(stack))
          /\ Answered(Head(stack'), Head(Tail(stack)), 1)
      BY <1>1, <1>2, <2>3, ReturnParts
    <2>5. CASE Head(Tail(stack)).arg = "close"
      <3>1. Harmless(Head(stack'))
        BY <2>3, <2>4, <2>5 DEF Harmless, Answered, Is
      <3> QED
        BY <2>1, <2>2, <2>3, <2>4, <3>1, InStep DEF ProxyInv
    <2>6. CASE Head(Tail(stack)).arg = "close_null"
      <3>1. ClosedNull(stack', closeReports')
        BY <2>1, <2>3, <2>4, <2>6 DEF ClosedNull, Answered, Is
      <3>2. CloseReturning(stack)'
        BY <1>2, <2>1, <2>2, <2>4, <3>1 DEF CloseReturning
      <3> QED
        BY <2>1, <2>4, <3>2 DEF ProxyInv, Place
    <2> QED
      BY <1>1, <2>5, <2>6 DEF ClosedAsked, ClosedNull
  <1>3. CASE /\ proxy_state \in ProxyOpening /\ ProxyState("CLOSED")
             /\ Goto(<<xio_close("proxy", "NULL"), on_io_open_complete("proxy", "CANCELLED"),
                       ReturnFrame("proxy", 0)>>)
    <2> DEFINE a == xio_close("proxy", "NULL")
               b == on_io_open_complete("proxy", "CANCELLED")
               c == ReturnFrame("proxy", 0)
    <2>1. /\ Made(a, "socket", "close", "NULL", 0) /\ Made(b, "uws", "on_io_open_complete", "CANCELLED", 0)
          /\ Made(c, "proxy", "return", "", 0) /\ Goto(<<a, b, c>>)
      BY <1>3, CallFrames, CallbackFrames, MadeReturn
    <2> HIDE DEF a, b, c
    <2>2. /\ BooksOK' /\ proxy_state' = "CLOSED"
          /\ UNCHANGED <<connected, pending_io_list, phase, sends, closes, closeReports, asked>>
      BY <1>1, <1>3, ProxyBooks DEF ProxyState, ProxyStates
    <2>3. /\ IsStack(stack') /\ stack' # <<>> /\ Head(stack') = a
          /\ Tail(stack') # <<>> /\ Head(Tail(stack')) = b
          /\ Tail(Tail(stack')) # <<>> /\ Head(Tail(Tail(stack'))) = c
          /\ Tail(Tail(Tail(stack'))) = Tail(stack)
      BY <1>1, <2>1, Goto3 DEF Made
    <2>4. phase = "opening" /\ ClosedNull(Tail(stack), closeReports)
      BY <1>1, <1>3 DEF Settled, ProxyOpening
    <2>5. Beneath(Tail(Tail(stack)))'
      BY <2>1, <2>2, <2>3, <2>4 DEF Beneath, Made, Is
    <2>6. OpenFailing(stack)'
      BY <2>1, <2>2, <2>3, <2>4, <2>5 DEF OpenFailing, Made, Is, IsRefusal
    <2> QED
      BY <2>2, <2>3, <2>6 DEF ProxyInv, Place
  <1>4. CASE /\ proxy_state \in {"OPEN", "ERROR"} /\ ProxyState("CLOSING") /\ proxy_on_close' = Top.arg
             /\ Goto(<<xio_close("proxy", "close_complete"),
                       MkFrame("proxy", "xio_close_returned", proxy_state, 0, <<>>)>>)
    <2> DEFINE a == xio_close("proxy", "close_complete")
               b == MkFrame("proxy", "xio_close_returned", proxy_state, 0, <<>>)
    <2>1. /\ Made(a, "socket", "close", "close_complete", 0)
          /\ Made(b, "proxy", "xio_close_returned", proxy_state, 0) /\ Goto(<<a, b>>)
      BY <1>4, CallFrames, MadeFrame
    <2> HIDE DEF a, b
    <2>2. /\ BooksOK' /\ proxy_state' = "CLOSING"
          /\ UNCHANGED <<connected, pending_io_list, phase, sends, closes, closeReports, asked>>
      BY <1>1, <1>4, ProxyBooks DEF ProxyState, ProxyStates
    <2>3. /\ IsStack(stack') /\ stack' # <<>> /\ Head(stack') = a
          /\ Tail(stack') # <<>> /\ Head(Tail(stack')) = b /\ Tail(Tail(stack')) = Tail(stack)
      BY <1>1, <2>1, Goto2 DEF Made
    <2>4. phase \in {"open", "failed"}
      BY <1>1, <1>4 DEF Settled
    <2>5. Awaited(Tail(Tail(stack)))'
      <3>1. \/ proxy_on_close' # "NULL" /\ ClosedAsked(Tail(stack))
            \/ proxy_on_close' = "NULL" /\ ClosedNull(Tail(stack), closeReports)
        BY <1>1, <1>4, <2>4 DEF Top
      <3> QED
        BY <2>2, <2>3, <3>1 DEF Awaited, ClosedAsked, ClosedNull
    <2>6. Closing(stack)'
      BY <2>1, <2>2, <2>3, <2>4, <2>5 DEF Closing, Made, Is, IsZero
    <2> QED
      BY <2>2, <2>3, <2>6 DEF ProxyInv, Place
  <1> QED
    BY <1>2, <1>3, <1>4 DEF http_proxy_io_close

LEMMA CloseReturns ==
    ASSUME ProxyClient, ProxyInv, proxy_xio_close_returned, UNCHANGED <<sockVars, clientVars>>
    PROVE  ProxyInv'
  <1>1. /\ stack # <<>> /\ IsStack(stack) /\ BooksOK /\ Running("proxy", "xio_close_returned")
        /\ Head(stack).ret = 0 /\ (Calm(stack) \/ CloseReturning(stack))
    BY ProxyRuns DEF ProxyInv, Running, proxy_xio_close_returned
  <1>2. UNCHANGED <<receive_buffer, proxy_state>> /\ Return(0)
    BY <1>1 DEF proxy_xio_close_returned, ProxyState, Top
  <1>3. /\ BooksOK'
        /\ UNCHANGED <<connected, pending_io_list, phase, sends, closes, closeReports, asked>>
    BY <1>1, <1>2, ProxyBooks DEF BooksOK
  <1>4. CASE Calm(stack)
    <2>1. Settled /\ AllResumable(Tail(stack), closeReports) /\ Takes(0, Tail(stack))
      BY <1>4 DEF Calm, Takes
    <2>2. Settled'
      BY <1>2, <1>3, <2>1, SettledKept
    <2>3. IsStack(stack') /\ AllResumable(stack', closeReports')
      BY <1>1, <1>2, <1>3, <2>1, CalmReturn
    <2> QED
      BY <1>3, <2>2, <2>3, AtRest DEF ProxyInv
  <1>5. CASE CloseReturning(stack)
    <2>1. /\ proxy_state = "CLOSED" /\ connected = FALSE /\ phase # "opening"
          /\ ClosedNull(Tail(stack), closeReports)
      BY <1>1, <1>5 DEF CloseReturning, ClosedNull, Running, Is, IsZero
    <2>2. /\ IsStack(stack') /\ stack' # <<>> /\ Tail(stack') = Tail(Tail(stack))
          /\ Answered(Head(stack'), Head(Tail(stack)), 0)
      BY <1>1, <1>2, <2>1, ReturnParts DEF ClosedNull
    <2>3. ClosedNull(stack', closeReports')
      BY <1>3, <2>1, <2>2 DEF ClosedNull, Answered, Is
    <2>4. CloseReturning(stack)'
      BY <1>2, <1>3, <2>1, <2>2, <2>3 DEF CloseReturning, Answered
    <2> QED
      BY <1>3, <2>2, <2>4 DEF ProxyInv, Place
  <1> QED
    BY <1>1, <1>4, <1>5

LEMMA SocketAnswersClose ==
    ASSUME ProxyClient, ProxyInv, proxy_on_underlying_io_close_complete,
           UNCHANGED <<sockVars, clientVars>>
    PROVE  ProxyInv'
  <1>1. /\ stack # <<>> /\ IsStack(stack) /\ BooksOK
        /\ proxy_state = "CLOSING" /\ phase \in {"open", "failed"} /\ connected = FALSE
        /\ Tail(stack) # <<>> /\ IsZero(Head(Tail(stack)), "socket", "return")
        /\ Tail(Tail(stack)) # <<>> /\ IsZero(Head(Tail(Tail(stack))), "proxy", "xio_close_returned")
        /\ Awaited(Tail(Tail(Tail(stack))))
    BY ProxyRuns DEF ProxyInv, Running, Closing, Is, proxy_on_underlying_io_close_complete
  <1>2. proxy_state' = "CLOSED" /\ UNCHANGED <<receive_buffer, proxy_on_close>>
    BY <1>1 DEF proxy_on_underlying_io_close_complete, ProxyState
  <1>3. /\ BooksOK'
        /\ UNCHANGED <<connected, pending_io_list, phase, sends, closes, closeReports, asked>>
    BY <1>1, <1>2, ProxyBooks DEF ProxyStates
  <1>4. CASE proxy_on_close # "NULL"
    <2> DEFINE a == on_io_close_complete("proxy")
    <2>1. Made(a, "uws", "on_io_close_complete", "", 0) /\ Goto(<<a>>)
      BY <1>1, <1>4, CallbackFrames DEF proxy_on_underlying_io_close_complete
    <2> HIDE DEF a
    <2>2. IsStack(stack') /\ stack' # <<>> /\ Head(stack') = a /\ Tail(stack') = Tail(stack)
      BY <1>1, <2>1, Goto1 DEF Made
    <2>3. ClosedAsked(Tail(Tail(Tail(stack))))'
      BY <1>1, <1>3, <1>4, <2>2 DEF Awaited, ClosedAsked
    <2>4. CloseTelling(stack)'
      BY <1>1, <1>2, <1>3, <2>1, <2>2, <2>3 DEF CloseTelling, Made, Is, IsZero
    <2> QED
      BY <1>3, <2>2, <2>4 DEF ProxyInv, Place
  <1>5. CASE proxy_on_close = "NULL"
    <2>1. Goto(<<>>)
      BY <1>1, <1>5 DEF proxy_on_underlying_io_close_complete
    <2>2. IsStack(stack') /\ stack' = Tail(stack)
      BY <1>1, <2>1, PopParts
    <2>3. ClosedNull(Tail(Tail(stack)), closeReports)'
      BY <1>1, <1>3, <1>5, <2>2 DEF Awaited, ClosedNull
    <2>4. CloseReturning(stack)'
      BY <1>1, <1>2, <1>3, <2>2, <2>3 DEF CloseReturning
    <2> QED
      BY <1>3, <2>2, <2>4 DEF ProxyInv, Place
  <1> QED
    BY <1>4, <1>5

LEMMA ProxyWorks ==
    ASSUME ProxyClient, ProxyInv, http_proxy_io_destroy \/ http_proxy_io_dowork,
           UNCHANGED <<sockVars, clientVars>>
    PROVE  ProxyInv'
  <1>1. /\ stack # <<>> /\ IsStack(stack) /\ BooksOK
        /\ Settled /\ AllResumable(Tail(stack), closeReports)
    BY ProxyRuns DEF ProxyInv, Running, Calm, http_proxy_io_destroy, http_proxy_io_dowork
  <1>2. UNCHANGED proxy_state /\ (UNCHANGED receive_buffer \/ receive_buffer' = <<>>)
    BY DEF http_proxy_io_destroy, http_proxy_io_dowork, proxyVars
  <1>3. /\ BooksOK'
        /\ UNCHANGED <<connected, pending_io_list, phase, sends, closes, closeReports, asked>>
    BY <1>1, <1>2, ProxyBooks DEF BooksOK
  <1>4. Settled'
    <2>1. receive_buffer' = <<>> => ResponseEnds' = {}
      BY DEF ResponseEnds
    <2> QED
      BY <1>1, <1>2, <1>3, <2>1, EndsKept DEF Settled
  <1>5. CASE Goto(<<>>)
    <2>1. IsStack(stack') /\ AllResumable(stack', closeReports')
      BY <1>1, <1>3, <1>5, CalmPop
    <2> QED
      BY <1>3, <1>4, <2>1, AtRest DEF ProxyInv
  <1>6. ASSUME NEW a, Made(a, "socket", "destroy", "", 0) \/ Made(a, "socket", "dowork", "", 0), Goto(<<a>>)
        PROVE  ProxyInv'
    <2>1. /\ IsStack(stack') /\ stack' # <<>> /\ Head(stack') = a
          /\ AllResumable(Tail(stack'), closeReports')
      BY <1>1, <1>3, <1>6, CalmGoto1 DEF Made
    <2>2. Resumable(a, closeReports') \/ Harmless(a)
      BY <1>6 DEF Resumable, Harmless, Made, Is
    <2> QED
      BY <1>3, <1>4, <2>1, <2>2, InStep DEF ProxyInv
  <1> QED
    BY <1>5, <1>6, CallFrames DEF http_proxy_io_destroy, http_proxy_io_dowork

LEMMA ProxySends ==
    ASSUME ProxyClient, ProxyInv, http_proxy_io_send, UNCHANGED <<sockVars, clientVars>>
    PROVE  ProxyInv'
  <1>1. /\ stack # <<>> /\ IsStack(stack) /\ BooksOK
        /\ Settled /\ AllResumable(Tail(stack), closeReports)
        /\ Head(stack).arg = "on_underlying_io_send_complete" /\ Head(stack).n \in Nat
        /\ Tail(stack) # <<>> /\ Is(Head(Tail(stack)), "uws", "returned") /\ Head(Tail(stack)).arg = "send"
    BY ProxyRuns DEF ProxyInv, Running, Sending, http_proxy_io_send
  <1>2. UNCHANGED <<proxy_state, receive_buffer>>
    BY DEF http_proxy_io_send, proxyVars
  <1>3. /\ BooksOK'
        /\ UNCHANGED <<connected, pending_io_list, phase, sends, closes, closeReports, asked>>
    BY <1>1, <1>2, ProxyBooks DEF BooksOK
  <1>4. Settled'
    BY <1>1, <1>2, <1>3, SettledKept
  <1>5. CASE Return(1)
    <2>1. Takes(1, Tail(stack))
      BY <1>1 DEF Takes
    <2>2. IsStack(stack') /\ AllResumable(stack', closeReports')
      BY <1>1, <1>3, <1>5, <2>1, CalmReturn
    <2> QED
      BY <1>3, <1>4, <2>2, AtRest DEF ProxyInv
  <1>6. CASE Goto(<<xio_send("proxy", Top.arg, Top.n)>>)
    <2> DEFINE a == xio_send("proxy", Top.arg, Top.n)
    <2>1. Made(a, "socket", "send", Top.arg, Top.n) /\ Goto(<<a>>)
      BY <1>6, CallFrames
    <2> HIDE DEF a
    <2>2. IsStack(stack') /\ stack' # <<>> /\ Head(stack') = a /\ Tail(stack') = Tail(stack)
      BY <1>1, <2>1, Goto1 DEF Made
    <2>3. Sending(stack)'
      BY <1>1, <1>3, <1>4, <2>1, <2>2 DEF Sending, Made, Is, Top
    <2> QED
      BY <1>3, <2>2, <2>3 DEF ProxyInv, Place
  <1> QED
    BY <1>5, <1>6 DEF http_proxy_io_send

-----------------------------------------------------------------------------
(* The calls of the client.                                                 *)

Waiting == IF stack = <<>> THEN <<>> ELSE Tail(stack)

LEMMA MayCallWhen ==
    ASSUME ProxyClient, ProxyInv, NEW c, MayCall(c)
    PROVE  Settled /\ BooksOK /\ IsStack(Waiting) /\ AllResumable(Waiting, closeReports)
  <1>1. CASE stack = <<>>
    <2>1. Usual(stack)
      BY <1>1 DEF ProxyInv, Place, Sending, OpenCalled, SocketOpening, Connecting, OpenFailing, Responding,
                  Opening, Telling, CloseCalled, Closing, CloseTelling, CloseReturning
    <2> QED
      BY <1>1, <2>1, EmptyStack DEF Usual, Waiting, ProxyInv
  <1>2. CASE stack # <<>>
    <2>1. Running("uws", "in_callback") /\ Head(stack).arg # "on_io_open_complete" /\ IsStack(stack)
      BY <1>2 DEF MayCall, Top, ProxyClient, ProxyInv
    <2>2. Calm(stack) \/ OpenFailing(stack) \/ Opening(stack)
      BY <1>2, <2>1, ClientRuns DEF ProxyInv
    <2>3. Calm(stack)
      BY <2>1, <2>2 DEF OpenFailing, Opening, Is, IsRefusal, Running
    <2> QED
      BY <1>2, <2>1, <2>3, StackParts DEF Calm, Waiting, ProxyInv
  <1> QED
    BY <1>1, <1>2

LEMMA CallParts ==
    ASSUME IsStack(Waiting), NEW f, NEW c, NEW n, IsFrame(f), Call(f, c, n)
    PROVE  /\ IsStack(stack') /\ stack' # <<>> /\ Head(stack') = f
           /\ Tail(stack') # <<>> /\ Tail(Tail(stack')) = Waiting
           /\ Made(Head(Tail(stack')), "uws", "returned", c, n)
  <1> DEFINE b == MkFrame("uws", "returned", c, n, <<>>)
  <1>1. stack' = <<f, b>> \o Waiting
    BY DEF Call, Waiting
  <1>2. Made(b, "uws", "returned", c, n)
    BY MadeFrame
  <1> HIDE DEF b
  <1>3. stack' = Cons(f, Cons(b, Waiting))
    BY <1>1, <1>2, Concat2 DEF Made
  <1>4. /\ IsStack(Cons(b, Waiting)) /\ Cons(b, Waiting) # <<>>
        /\ Head(Cons(b, Waiting)) = b /\ Tail(Cons(b, Waiting)) = Waiting
    BY <1>2, ConsStack DEF Made
  <1> QED
    BY <1>2, <1>3, <1>4, ConsStack

LEMMA CallsKeep ==
    ASSUME UNCHANGED <<sockVars, proxyVars>>
    PROVE  UNCHANGED <<connected, pending_io_list, proxy_state, receive_buffer, proxy_on_close>>
  BY DEF sockVars, proxyVars

LEMMA ClientOpens ==
    ASSUME ProxyClient, ProxyInv, opens \in Nat, CallOpen,
           opens' = opens \/ receive_buffer = <<>> \/ Reuse, UNCHANGED <<sockVars, proxyVars>>
    PROVE  ProxyInv'
  <1>1. Settled /\ BooksOK /\ IsStack(Waiting) /\ AllResumable(Waiting, closeReports)
    BY MayCallWhen DEF CallOpen
  <1>2. UNCHANGED <<connected, pending_io_list, proxy_state, receive_buffer, sends, closes, closeReports, asked>>
    BY CallsKeep DEF CallOpen
  <1>3. receive_buffer = <<>>
    BY DEF CallOpen, ProxyClient
  <1> DEFINE a == xio_open("uws")
  <1>4. Made(a, "proxy", "open", "", 0)
    BY CallFrames
  <1>5. \E c, n : /\ Call(a, c, n)
                  /\ \/ c = "open" /\ n = opens + 1 /\ phase = "closed" /\ phase' = "opening"
                     \/ c = "open_again" /\ phase # "closed" /\ UNCHANGED phase
    BY DEF CallOpen
  <1> HIDE DEF a
  <1>6. PICK c, n : /\ Call(a, c, n)
                    /\ \/ c = "open" /\ n = opens + 1 /\ phase = "closed" /\ phase' = "opening"
                       \/ c = "open_again" /\ phase # "closed" /\ UNCHANGED phase
    BY <1>5
  <1>7. /\ IsStack(stack') /\ stack' # <<>> /\ Head(stack') = a
        /\ Tail(stack') # <<>> /\ Tail(Tail(stack')) = Waiting
        /\ Made(Head(Tail(stack')), "uws", "returned", c, n)
    BY <1>1, <1>4, <1>6, CallParts DEF Made
  <1> DEFINE b == Head(Tail(stack'))
  <1>8. AllResumable(Tail(stack'), closeReports')
    <2>1. IsStack(Tail(stack'))
      BY <1>7, StackParts
    <2>2. Resumable(b, closeReports)
      BY <1>6, <1>7 DEF Made, Resumable, Is
    <2>3. AllResumable(Tail(Tail(stack')), closeReports)
      BY <1>1, <1>7
    <2> QED
      BY <1>2, <1>7, <2>1, <2>2, <2>3, PartsResumable
  <1>9. BooksOK'
    <2>1. sends' \in Nat /\ pending_io_list' \in PendingIos /\ proxy_state' \in ProxyStates
      BY <1>1, <1>2 DEF BooksOK, PendingIos
    <2>2. phase' \in Phases
      BY <1>1, <1>6 DEF BooksOK, Phases
    <2> QED
      BY <1>1, <1>2, <2>1, <2>2, BooksKept
  <1>10. /\ Is(Head(stack'), "proxy", "open") /\ Is(b, "uws", "returned") /\ b.arg = c
    BY <1>4, <1>7 DEF Made, Is
  <1>11. OpenCalled(stack)'
    <2>1. CASE c = "open" /\ phase = "closed" /\ phase' = "opening"
      <3>1. proxy_state = "CLOSED" /\ connected = FALSE
        BY <1>1, <2>1 DEF Settled, BooksOK, ProxyStates
      <3> QED
        BY <1>2, <1>3, <1>7, <1>8, <1>10, <2>1, <3>1 DEF OpenCalled
    <2>2. CASE c = "open_again" /\ phase # "closed" /\ UNCHANGED phase
      <3>1. Settled'
        BY <1>1, <1>2, <2>2, SettledKept
      <3> QED
        BY <1>2, <1>7, <1>8, <1>10, <2>2, <3>1 DEF OpenCalled
    <2> QED
      BY <1>6, <2>1, <2>2
  <1> QED
    BY <1>7, <1>9, <1>11 DEF ProxyInv, Place

LEMMA ClientCloses ==
    ASSUME ProxyClient, ProxyInv, CallClose, UNCHANGED <<sockVars, proxyVars>>
    PROVE  ProxyInv'
  <1>1. Settled /\ BooksOK /\ IsStack(Waiting) /\ AllResumable(Waiting, closeReports)
    BY MayCallWhen DEF CallClose
  <1>2. /\ UNCHANGED <<connected, pending_io_list, proxy_state, receive_buffer, sends, phase, closeReports, asked>>
        /\ closes < MaxCloses /\ closes' = closes + 1
    BY CallsKeep DEF CallClose
  <1>3. PICK cb \in {"NULL", "cb"}, c \in {"close", "close_null"} :
            /\ Call(xio_close("uws", cb), c, closes + 1)
            /\ c = "close" <=> cb = "cb" /\ phase # "opening"
    <2>1. phase \in AnsweredPhases <=> phase # "opening"
      BY <1>1 DEF ProxyClient, BooksOK
    <2>2. PICK cb \in {"NULL", "cb"} :
              Call(xio_close("uws", cb),
                   IF cb = "cb" /\ phase \in AnsweredPhases THEN "close" ELSE "close_null", closes + 1)
      BY DEF CallClose
    <2> QED
      BY <2>1, <2>2
  <1> DEFINE a == xio_close("uws", cb)
  <1>4. Made(a, "proxy", "close", cb, 0)
    BY CallFrames
  <1> HIDE DEF a
  <1>5. /\ IsStack(stack') /\ stack' # <<>> /\ Head(stack') = a
        /\ Tail(stack') # <<>> /\ Tail(Tail(stack')) = Waiting
        /\ Made(Head(Tail(stack')), "uws", "returned", c, closes + 1)
    BY <1>1, <1>3, <1>4, CallParts DEF Made, a
  <1>6. /\ closes' \in 0 .. MaxCloses /\ closes' \in DOMAIN closeReports /\ closeReports[closes'] = 0
        /\ \A i \in closes' + 1 .. MaxCloses : closeReports[i] = 0
    <2>1. /\ closes \in 0 .. MaxCloses /\ DOMAIN closeReports = 1 .. MaxCloses /\ MaxCloses \in Nat
          /\ \A i \in closes + 1 .. MaxCloses : closeReports[i] = 0
      BY <1>1, BoundsAssumption DEF BooksOK
    <2>2. closes + 1 \in 1 .. MaxCloses /\ closes + 1 \in closes + 1 .. MaxCloses
      BY <1>2, <2>1
    <2>3. \A i \in (closes + 1) + 1 .. MaxCloses : i \in closes + 1 .. MaxCloses
      BY <2>1
    <2> QED
      BY <1>2, <2>1, <2>2, <2>3
  <1>7. BooksOK'
    BY <1>1, <1>2, <1>6 DEF BooksOK
  <1>8. Settled'
    BY <1>1, <1>2, SettledKept
  <1>9. CASE c = "close"
    <2>1. cb = "cb" /\ phase # "opening"
      BY <1>3, <1>9
    <2>2. ClosedAsked(Tail(stack))'
      BY <1>1, <1>2, <1>5, <1>6, <1>9 DEF ClosedAsked, Made, Is
    <2>3. CloseCalled(stack)'
      BY <1>2, <1>4, <1>5, <1>8, <2>1, <2>2 DEF CloseCalled, Made, Is
    <2> QED
      BY <1>5, <1>7, <2>3 DEF ProxyInv, Place
  <1>10. CASE c = "close_null"
    <2>1. cb = "NULL" \/ phase = "opening"
      BY <1>3, <1>10
    <2>2. ClosedNull(Tail(stack'), closeReports')
      BY <1>1, <1>2, <1>5, <1>10 DEF ClosedNull, Made, Is
    <2>3. CloseCalled(stack)'
      BY <1>2, <1>4, <1>5, <1>8, <2>1, <2>2 DEF CloseCalled, Made, Is
    <2> QED
      BY <1>5, <1>7, <2>3 DEF ProxyInv, Place
  <1> QED
    BY <1>9, <1>10

LEMMA ClientSends ==
    ASSUME ProxyClient, ProxyInv, CallSend, UNCHANGED <<sockVars, proxyVars>>
    PROVE  ProxyInv'
  <1>1. Settled /\ BooksOK /\ IsStack(Waiting) /\ AllResumable(Waiting, closeReports)
    BY MayCallWhen DEF CallSend
  <1>2. /\ UNCHANGED <<connected, pending_io_list, proxy_state, receive_buffer, closes, phase, closeReports, asked>>
        /\ sends' = sends + 1
    BY CallsKeep DEF CallSend
  <1> DEFINE a == xio_send("uws", "on_underlying_io_send_complete", sends + 1)
  <1>3. Made(a, "proxy", "send", "on_underlying_io_send_complete", sends + 1) /\ Call(a, "send", sends + 1)
    BY CallFrames DEF CallSend
  <1> HIDE DEF a
  <1>4. /\ IsStack(stack') /\ stack' # <<>> /\ Head(stack') = a
        /\ Tail(stack') # <<>> /\ Tail(Tail(stack')) = Waiting
        /\ Made(Head(Tail(stack')), "uws", "returned", "send", sends + 1)
    BY <1>1, <1>3, CallParts DEF Made
  <1> DEFINE b == Head(Tail(stack'))
  <1>5. AllResumable(Tail(stack'), closeReports')
    <2>1. IsStack(Tail(stack'))
      BY <1>4, StackParts
    <2>2. Resumable(b, closeReports)
      BY <1>4 DEF Made, Resumable, Is
    <2>3. AllResumable(Tail(Tail(stack')), closeReports)
      BY <1>1, <1>4
    <2> QED
      BY <1>2, <1>4, <2>1, <2>2, <2>3, PartsResumable
  <1>6. sends + 1 \in Nat
    BY <1>1 DEF BooksOK
  <1>7. BooksOK'
    <2>1. pending_io_list' \in PendingIos /\ proxy_state' \in ProxyStates /\ phase' \in Phases
      BY <1>1, <1>2 DEF BooksOK, PendingIos
    <2> QED
      BY <1>1, <1>2, <1>6, <2>1, BooksKept
  <1>8. Settled'
    BY <1>1, <1>2, SettledKept
  <1>9. Sending(stack)'
    BY <1>3, <1>4, <1>5, <1>6, <1>8 DEF Sending, Made, Is
  <1> QED
    BY <1>4, <1>7, <1>9 DEF ProxyInv, Place

LEMMA ClientPumps ==
    ASSUME ProxyClient, ProxyInv, CallDowork \/ CallDestroy, UNCHANGED <<sockVars, proxyVars>>
    PROVE  ProxyInv'
  <1>1. Settled /\ BooksOK
    <2>1. \E c : MayCall(c)
      BY DEF CallDowork, CallDestroy, MayCall
    <2> QED
      BY <2>1, MayCallWhen
  <1>2. UNCHANGED <<connected, pending_io_list, proxy_state, receive_buffer, sends, closes, phase, closeReports, asked>>
    BY CallsKeep DEF CallDowork, CallDestroy, clientVars
  <1>3. PICK a : /\ stack' = <<a>>
                 /\ Made(a, "proxy", "dowork", "", 0) \/ Made(a, "proxy", "destroy", "", 0)
    BY CallFrames DEF CallDowork, CallDestroy
  <1>4. stack' = Cons(a, <<>>)
    <2>1. ASSUME NEW x
          PROVE  <<x>> \o <<>> = <<x>>
      OBVIOUS
    <2> QED
      BY <1>3, <2>1 DEF Cons
  <1>5. IsStack(stack') /\ stack' # <<>> /\ Head(stack') = a /\ Tail(stack') = <<>>
    BY <1>3, <1>4, EmptyStack, ConsStack DEF Made
  <1>6. AllResumable(Tail(stack'), closeReports') /\ Harmless(a)
    BY <1>3, <1>5, EmptyStack DEF Harmless, Made
  <1>7. Settled'
    BY <1>1, <1>2, SettledKept
  <1>8. BooksOK'
    BY <1>1, <1>2, BooksSame
  <1> QED
    BY <1>5, <1>6, <1>7, <1>8, InStep DEF ProxyInv

-----------------------------------------------------------------------------
(* What the client is told, and the calls that return to it.                *)

LEMMA CallReturns ==
    ASSUME ProxyClient, ProxyInv, Returned, UNCHANGED <<sockVars, proxyVars>>
    PROVE  ProxyInv'
  <1>1. /\ stack # <<>> /\ IsStack(stack) /\ BooksOK /\ Is(Head(stack), "uws", "returned")
        /\ ((ClosedNull(stack, closeReports) /\ CloseReturning(stack)) \/ Usual(stack))
    BY ClientRuns DEF ProxyInv, Running, Is, Returned
  <1>2. UNCHANGED <<connected, pending_io_list, proxy_state, receive_buffer, sends, closes, closeReports>>
    BY CallsKeep DEF Returned
  <1>3. AllResumable(Tail(stack), closeReports)
    BY <1>1 DEF ClosedNull, Usual
  <1>4. IsStack(stack') /\ AllResumable(stack', closeReports')
    BY <1>1, <1>2, <1>3, CalmPop DEF Returned
  <1>5. CASE Usual(stack)
    <2>1. Settled /\ (Resumable(Head(stack), closeReports) \/ Harmless(Head(stack)))
      BY <1>1, <1>5 DEF Usual
    <2>2. UNCHANGED phase
      BY <1>1, <2>1 DEF Returned, Top, Resumable, Harmless, Is, Zero
    <2>3. \/ asked' = asked
          \/ asked' = asked \cup {Top.n} /\ Top.n \in DOMAIN closeReports /\ closeReports[Top.n] = 1
      BY <1>1, <2>1 DEF Returned, Top, Resumable, Harmless, Is, Zero
    <2>4. BooksOK'
      BY <1>1, <1>2, <2>2, <2>3 DEF BooksOK
    <2>5. Settled'
      BY <1>2, <2>1, <2>2, SettledKept
    <2> QED
      BY <1>4, <2>4, <2>5, AtRest DEF ProxyInv
  <1>6. CASE ClosedNull(stack, closeReports) /\ CloseReturning(stack)
    <2>1. /\ proxy_state = "CLOSED" /\ connected = FALSE /\ phase # "opening"
          /\ Head(stack).arg = "close_null" /\ (Head(stack).ret = 0 \/ phase = "closed")
      BY <1>1, <1>6 DEF ClosedNull, CloseReturning, Is, IsZero
    <2>2. phase' = "closed" /\ asked' = asked
      BY <1>1, <2>1 DEF Returned, Top, BooksOK, Phases
    <2>3. BooksOK'
      <3>1. /\ sends' \in Nat /\ pending_io_list' \in PendingIos
            /\ proxy_state' \in ProxyStates /\ phase' \in Phases
        BY <1>1, <1>2, <2>2 DEF BooksOK, PendingIos, Phases
      <3> QED
        BY <1>1, <1>2, <2>2, <3>1, BooksKept
    <2>4. Settled'
      BY <1>2, <2>1, <2>2 DEF Settled
    <2> QED
      BY <1>4, <2>3, <2>4, AtRest DEF ProxyInv
  <1> QED
    BY <1>1, <1>5, <1>6

LEMMA CallbackParts ==
    ASSUME IsStack(stack), stack # <<>>, InCallback
    PROVE  /\ IsStack(stack') /\ stack' # <<>> /\ Tail(stack') = Tail(stack)
           /\ Made(Head(stack'), "uws", "in_callback", Head(stack).fn, 0)
  <1> DEFINE a == MkFrame("uws", "in_callback", Top.fn, 0, <<>>)
  <1>1. Goto(<<a>>)
    BY DEF InCallback
  <1>2. Made(a, "uws", "in_callback", Head(stack).fn, 0)
    BY MadeFrame DEF Top
  <1> HIDE DEF a
  <1> QED
    BY <1>1, <1>2, Goto1 DEF Made

LEMMA OpenAnswered ==
    ASSUME ProxyClient, ProxyInv, OnOpenComplete, UNCHANGED <<sockVars, proxyVars>>
    PROVE  ProxyInv'
  <1>1. /\ stack # <<>> /\ IsStack(stack) /\ BooksOK /\ Is(Head(stack), "uws", "on_io_open_complete")
        /\ OpenFailing(stack) \/ Opening(stack)
    BY ClientRuns DEF ProxyInv, Running, Is, OnOpenComplete
  <1>2. UNCHANGED <<connected, pending_io_list, proxy_state, receive_buffer, sends, closes, closeReports, asked>>
    BY CallsKeep DEF OnOpenComplete
  <1>3. /\ IsStack(stack') /\ stack' # <<>> /\ Tail(stack') = Tail(stack)
        /\ Made(Head(stack'), "uws", "in_callback", "on_io_open_complete", 0)
    BY <1>1, CallbackParts DEF OnOpenComplete, Is
  <1>4. phase' = IF Head(stack).arg = "OK" THEN "open" ELSE "closed"
    BY DEF OnOpenComplete, Top
  <1>5. BooksOK'
    <2>1. /\ sends' \in Nat /\ pending_io_list' \in PendingIos
          /\ proxy_state' \in ProxyStates /\ phase' \in Phases
      BY <1>1, <1>2, <1>4 DEF BooksOK, PendingIos, Phases
    <2> QED
      BY <1>1, <1>2, <2>1, BooksKept
  <1>6. CASE OpenFailing(stack)
    <2>1. /\ proxy_state = "CLOSED" /\ connected = FALSE /\ Head(stack).arg # "OK" /\ Beneath(Tail(stack))
      BY <1>1, <1>6 DEF OpenFailing, Is, IsRefusal
    <2>2. Beneath(Tail(stack))'
      BY <1>2, <1>3, <2>1, EndsKept DEF Beneath, ClosedNull
    <2>3. OpenFailing(stack)'
      BY <1>2, <1>3, <1>4, <2>1, <2>2 DEF OpenFailing, Made, Is
    <2> QED
      BY <1>3, <1>5, <2>3 DEF ProxyInv, Place
  <1>7. CASE Opening(stack)
    <2>1. /\ proxy_state = "OPEN" /\ Head(stack).arg = "OK"
          /\ \/ AllResumable(Tail(stack), closeReports)
             \/ /\ Tail(stack) # <<>> /\ Is(Head(Tail(stack)), "uws", "on_bytes_received")
                /\ AllResumable(Tail(Tail(stack)), closeReports)
      BY <1>1, <1>7 DEF Opening, Is
    <2>2. Opening(stack)'
      BY <1>2, <1>3, <1>4, <2>1 DEF Opening, Made, Is
    <2> QED
      BY <1>3, <1>5, <2>2 DEF ProxyInv, Place
  <1> QED
    BY <1>1, <1>6, <1>7

LEMMA ClientTold ==
    ASSUME ProxyClient, ProxyInv, OnBytesReceived \/ OnError \/ OnSendComplete,
           UNCHANGED <<sockVars, proxyVars>>
    PROVE  ProxyInv'
  <1>1. /\ stack # <<>> /\ IsStack(stack) /\ BooksOK
    BY DEF ProxyInv, Running, OnBytesReceived, OnError, OnSendComplete
  <1>2. /\ UNCHANGED <<connected, pending_io_list, proxy_state, receive_buffer, sends, closes, closeReports, asked>>
        /\ InCallback
    BY CallsKeep DEF OnBytesReceived, OnError, OnSendComplete
  <1>3. /\ AllResumable(Tail(stack), closeReports) /\ Settled' /\ phase' \in Phases
    <2>1. CASE OnBytesReceived
      <3>1. phase = "open" /\ proxy_state = "OPEN" /\ AllResumable(Tail(stack), closeReports) /\ UNCHANGED phase
        BY <1>1, <2>1, ClientRuns DEF ProxyInv, OnBytesReceived, Telling, Running, Is
      <3> QED
        BY <1>2, <3>1 DEF Settled, Phases
    <2>2. CASE OnError
      <3>1. proxy_state = "ERROR" /\ AllResumable(Tail(stack), closeReports) /\ phase' = "failed"
        BY <1>1, <2>2, ClientRuns DEF ProxyInv, OnError, Telling, Running, Is
      <3> QED
        BY <1>2, <3>1 DEF Settled, Phases
    <2>3. CASE OnSendComplete
      <3>1. Settled /\ AllResumable(Tail(stack), closeReports) /\ UNCHANGED phase
        BY <1>1, <2>3, ClientRuns DEF ProxyInv, OnSendComplete, Calm
      <3> QED
        BY <1>1, <1>2, <3>1, SettledKept DEF BooksOK
    <2> QED
      BY <2>1, <2>2, <2>3
  <1>4. /\ IsStack(stack') /\ stack' # <<>> /\ Tail(stack') = Tail(stack) /\ Harmless(Head(stack'))
    BY <1>1, <1>2, CallbackParts DEF Made, Harmless
  <1>5. BooksOK'
    <2>1. sends' \in Nat /\ pending_io_list' \in PendingIos /\ proxy_state' \in ProxyStates
      BY <1>1, <1>2 DEF BooksOK, PendingIos
    <2> QED
      BY <1>1, <1>2, <1>3, <2>1, BooksKept
  <1>6. AllResumable(Tail(stack'), closeReports')
    BY <1>2, <1>3, <1>4
  <1> QED
    BY <1>3, <1>4, <1>5, <1>6, InStep DEF ProxyInv

LEMMA CloseAnswered ==
    ASSUME ProxyClient, ProxyInv, OnCloseComplete, UNCHANGED <<sockVars, proxyVars>>
    PROVE  ProxyInv'
  <1>1. /\ stack # <<>> /\ IsStack(stack) /\ BooksOK /\ CloseTelling(stack)
    BY ClientRuns DEF ProxyInv, Running, OnCloseComplete
  <1>2. /\ UNCHANGED <<connected, pending_io_list, proxy_state, receive_buffer, sends, closes, asked>>
        /\ closeReports' = [closeReports EXCEPT ![closes] = @ + 1] /\ phase' = "closed" /\ InCallback
    BY CallsKeep DEF OnCloseComplete
  <1>3. /\ IsStack(stack') /\ stack' # <<>> /\ Tail(stack') = Tail(stack) /\ Harmless(Head(stack'))
    BY <1>1, <1>2, CallbackParts DEF Made, Harmless
  <1> DEFINE s1 == Tail(stack)
             s2 == Tail(s1)
             s3 == Tail(s2)
  <1>4. /\ proxy_state = "CLOSED" /\ connected = FALSE
        /\ s1 # <<>> /\ IsZero(Head(s1), "socket", "return")
        /\ s2 # <<>> /\ IsZero(Head(s2), "proxy", "xio_close_returned")
        /\ s3 # <<>> /\ Is(Head(s3), "uws", "returned") /\ Head(s3).arg = "close" /\ Head(s3).n = closes
        /\ closes \in DOMAIN closeReports /\ closeReports[closes] = 0
        /\ AllResumable(Tail(s3), closeReports)
    <2>1. proxy_state = "CLOSED" /\ connected = FALSE
      BY <1>1 DEF CloseTelling
    <2>2. /\ s1 # <<>> /\ IsZero(Head(s1), "socket", "return")
          /\ s2 # <<>> /\ IsZero(Head(s2), "proxy", "xio_close_returned") /\ ClosedAsked(s3)
      BY <1>1 DEF CloseTelling
    <2> HIDE DEF s1, s2, s3
    <2> QED
      BY <2>1, <2>2 DEF ClosedAsked
  <1> HIDE DEF s2, s3
  <1>5. IsStack(s1) /\ IsStack(s2) /\ IsStack(s3) /\ IsStack(Tail(s3))
    BY <1>1, <1>4, StackParts DEF s2, s3
  <1>6. /\ closes \in DOMAIN closeReports' /\ closeReports'[closes] = 1
        /\ \A i \in DOMAIN closeReports : i \in DOMAIN closeReports' /\ (i # closes => closeReports'[i] = closeReports[i])
    BY <1>1, <1>2, <1>4 DEF BooksOK
  <1>7. \A f : Resumable(f, closeReports) => Resumable(f, closeReports')
    BY <1>4, <1>6 DEF Resumable
  <1>8. AllResumable(Tail(s3), closeReports')
    BY <1>4, <1>7 DEF AllResumable
  <1>9. AllResumable(s3, closeReports')
    <2>1. Resumable(Head(s3), closeReports')
      BY <1>4, <1>6 DEF Resumable
    <2> QED
      BY <1>4, <1>5, <1>8, <2>1, PartsResumable
  <1>10. AllResumable(s2, closeReports')
    <2>1. Resumable(Head(s2), closeReports') /\ Tail(s2) = s3
      BY <1>4 DEF Resumable, IsZero, Is, Zero, s3
    <2> QED
      BY <1>4, <1>5, <1>9, <2>1, PartsResumable
  <1>11. AllResumable(s1, closeReports')
    <2>1. Resumable(Head(s1), closeReports') /\ Tail(s1) = s2
      BY <1>4 DEF Resumable, IsZero, Is, Zero, s2
    <2> QED
      BY <1>4, <1>5, <1>10, <2>1, PartsResumable
  <1>12. Settled'
    BY <1>2, <1>4 DEF Settled
  <1>13. BooksOK'
    <2>1. closeReports' \in [1 .. MaxCloses -> 0 .. 1]
      BY <1>1, <1>2, <1>4 DEF BooksOK
    <2>2. \A i \in closes + 1 .. MaxCloses : closeReports'[i] = 0
      <3>1. closes \in Nat /\ MaxCloses \in Nat
        BY <1>1, BoundsAssumption DEF BooksOK
      <3>2. ASSUME NEW i \in closes + 1 .. MaxCloses
            PROVE  closeReports'[i] = 0
        <4>1. i # closes /\ i \in 1 .. MaxCloses
          BY <3>1
        <4>2. closeReports[i] = 0 /\ i \in DOMAIN closeReports
          BY <1>1, <4>1 DEF BooksOK
        <4> QED
          BY <1>6, <4>1, <4>2
      <3> QED
        BY <3>2
    <2>3. \A i \in asked : i \in 1 .. MaxCloses /\ closeReports'[i] = 1
      BY <1>1, <1>6 DEF BooksOK
    <2> QED
      BY <1>1, <1>2, <2>1, <2>2, <2>3 DEF BooksOK, Phases
  <1> QED
    BY <1>3, <1>11, <1>12, <1>13, InStep DEF ProxyInv

LEMMA CallbackEnds ==
    ASSUME ProxyClient, ProxyInv, CallbackReturns, UNCHANGED <<sockVars, proxyVars>>
    PROVE  ProxyInv'
  <1>1. /\ stack # <<>> /\ IsStack(stack) /\ BooksOK /\ Is(Head(stack), "uws", "in_callback")
        /\ Calm(stack) \/ OpenFailing(stack) \/ Opening(stack)
    BY ClientRuns DEF ProxyInv, Running, Is, CallbackReturns
  <1>2. UNCHANGED <<connected, pending_io_list, proxy_state, receive_buffer, phase, sends, closes, closeReports, asked>>
    BY CallsKeep DEF CallbackReturns, clientVars
  <1>3. IsStack(stack') /\ stack' = Tail(stack)
    BY <1>1, PopParts DEF CallbackReturns
  <1>4. BooksOK'
    BY <1>1, <1>2, BooksSame
  <1>5. ASSUME Settled, AllResumable(Tail(stack), closeReports)
        PROVE  ProxyInv'
    <2>1. Settled'
      BY <1>2, <1>5, SettledKept
    <2> QED
      BY <1>2, <1>3, <1>4, <1>5, <2>1, AtRest DEF ProxyInv
  <1>6. CASE Calm(stack)
    BY <1>5, <1>6 DEF Calm
  <1>7. CASE OpenFailing(stack)
    <2>1. phase = "closed" /\ proxy_state = "CLOSED" /\ connected = FALSE /\ Beneath(Tail(stack)) /\ Settled
      BY <1>1, <1>7 DEF OpenFailing, Is, IsRefusal, Settled
    <2>2. CASE AllResumable(Tail(stack), closeReports)
      BY <1>5, <2>1, <2>2
    <2>3. CASE /\ ResponseEnds = {} /\ Tail(stack) # <<>> /\ Is(Head(Tail(stack)), "proxy", "connect_response")
               /\ AllResumable(Tail(Tail(stack)), closeReports)
      <3>1. Settled' /\ ResponseEnds' = {}
        BY <1>2, <2>1, <2>3, SettledKept, EndsKept
      <3>2. Responding(stack)'
        BY <1>2, <1>3, <2>1, <2>3, <3>1 DEF Responding
      <3> QED
        BY <1>3, <1>4, <3>2 DEF ProxyInv, Place
    <2>4. CASE /\ Tail(stack) # <<>> /\ Is(Head(Tail(stack)), "proxy", "return") /\ Head(Tail(stack)).ret = 0
               /\ ClosedNull(Tail(Tail(stack)), closeReports)
      <3>1. CloseReturning(stack)'
        BY <1>2, <1>3, <2>1, <2>4 DEF CloseReturning
      <3> QED
        BY <1>3, <1>4, <3>1 DEF ProxyInv, Place
    <2> QED
      BY <2>1, <2>2, <2>3, <2>4 DEF Beneath
  <1>8. CASE Opening(stack)
    <2>1. phase = "open" /\ proxy_state = "OPEN" /\ Settled
      BY <1>1, <1>8 DEF Opening, Is, Settled
    <2>2. CASE AllResumable(Tail(stack), closeReports)
      BY <1>5, <2>1, <2>2
    <2>3. CASE /\ Tail(stack) # <<>> /\ Is(Head(Tail(stack)), "uws", "on_bytes_received")
               /\ AllResumable(Tail(Tail(stack)), closeReports)
      <3>1. Telling(stack)'
        BY <1>2, <1>3, <2>1, <2>3 DEF Telling
      <3> QED
        BY <1>3, <1>4, <3>1 DEF ProxyInv, Place
    <2> QED
      BY <1>8, <2>2, <2>3 DEF Opening
  <1> QED
    BY <1>1, <1>6, <1>7, <1>8

LEMMA ResultReturns ==
    ASSUME ProxyClient, ProxyInv, ReturnStep, UNCHANGED <<sockVars, proxyVars, clientVars>>
    PROVE  ProxyInv'
  <1>1. /\ stack # <<>> /\ IsStack(stack) /\ BooksOK /\ Head(stack).fn = "return"
        /\ \/ Calm(stack) /\ Head(stack).ret = 0
           \/ Connecting(stack) \/ CloseReturning(stack)
    BY ClientRuns DEF ProxyInv, ReturnStep, Top
  <1>2. /\ UNCHANGED <<connected, pending_io_list, proxy_state, receive_buffer, phase, sends, closes, closeReports, asked>>
        /\ Return(Head(stack).ret)
    BY CallsKeep DEF ReturnStep, Top, clientVars
  <1>3. BooksOK'
    BY <1>1, <1>2, BooksSame
  <1>4. CASE Calm(stack) /\ Head(stack).ret = 0
    <2>1. Settled /\ AllResumable(Tail(stack), closeReports) /\ Takes(0, Tail(stack)) /\ Return(0)
      BY <1>2, <1>4 DEF Calm, Takes
    <2>2. Settled'
      BY <1>2, <2>1, SettledKept
    <2>3. IsStack(stack') /\ AllResumable(stack', closeReports')
      BY <1>1, <1>2, <2>1, CalmReturn
    <2> QED
      BY <1>3, <2>2, <2>3, AtRest DEF ProxyInv
  <1>5. CASE Connecting(stack)
    <2>1. /\ Settled /\ proxy_state = "WAITING_FOR_CONNECT_RESPONSE"
          /\ Tail(stack) # <<>> /\ Is(Head(Tail(stack)), "proxy", "connect_request_sent")
          /\ AllResumable(Tail(Tail(stack)), closeReports)
      BY <1>1, <1>5 DEF Connecting, Is
    <2>2. /\ IsStack(stack') /\ stack' # <<>> /\ Tail(stack') = Tail(Tail(stack))
          /\ Answered(Head(stack'), Head(Tail(stack)), Head(stack).ret)
      BY <1>1, <1>2, <2>1, ReturnParts
    <2>3. Settled'
      BY <1>2, <2>1, SettledKept
    <2>4. Connecting(stack)'
      BY <1>2, <2>1, <2>2, <2>3 DEF Connecting, Answered, Is
    <2> QED
      BY <1>3, <2>2, <2>4 DEF ProxyInv, Place
  <1>6. CASE CloseReturning(stack)
    <2>1. /\ proxy_state = "CLOSED" /\ connected = FALSE /\ phase # "opening" /\ Head(stack).ret = 0
          /\ Tail(stack) # <<>>
          /\ \/ ClosedNull(Tail(stack), closeReports)
             \/ /\ IsZero(Head(Tail(stack)), "proxy", "xio_close_returned")
                /\ ClosedNull(Tail(Tail(stack)), closeReports)
      BY <1>1, <1>6 DEF CloseReturning, ClosedNull, Is, IsZero
    <2>2. /\ IsStack(stack') /\ stack' # <<>> /\ Tail(stack') = Tail(Tail(stack))
          /\ Answered(Head(stack'), Head(Tail(stack)), 0)
      BY <1>1, <1>2, <2>1, ReturnParts
    <2>3. CASE ClosedNull(Tail(stack), closeReports)
      <3>1. ClosedNull(stack', closeReports') /\ Head(stack').ret = 0
        BY <1>2, <2>2, <2>3 DEF ClosedNull, Answered, Is
      <3>2. CloseReturning(stack)'
        BY <1>2, <2>1, <2>2, <3>1 DEF CloseReturning
      <3> QED
        BY <1>3, <2>2, <3>2 DEF ProxyInv, Place
    <2>4. CASE /\ IsZero(Head(Tail(stack)), "proxy", "xio_close_returned")
               /\ ClosedNull(Tail(Tail(stack)), closeReports)
      <3>1. CloseReturning(stack)'
        BY <1>2, <2>1, <2>2, <2>4 DEF CloseReturning, Answered, Is, IsZero
      <3> QED
        BY <1>3, <2>2, <3>1 DEF ProxyInv, Place
    <2> QED
      BY <2>1, <2>3, <2>4
  <1> QED
    BY <1>1, <1>4, <1>5, <1>6

-----------------------------------------------------------------------------
(* The invariant, and what follows from it.                                 *)

ProxyIInv == ProxyInv /\ opens \in Nat

LEMMA ProxyStarts ==
    Init => ProxyIInv
  <1> SUFFICES ASSUME Init
               PROVE  ProxyIInv
    OBVIOUS
  <1>1. /\ stack = <<>> /\ proxy_state = "CLOSED" /\ phase = "closed" /\ connected = FALSE
        /\ opens = 0
    BY DEF Init, SockInit, ProxyInit, ClientInit
  <1>2. BooksOK
    BY BoundsAssumption DEF Init, SockInit, ProxyInit, ClientInit, BooksOK, ProxyStates, Phases
  <1>3. Usual(stack)
    BY <1>1 DEF Usual, Settled
  <1> QED
    BY <1>1, <1>2, <1>3, EmptyStack DEF ProxyIInv, ProxyInv, Place

LEMMA ProxyStutters ==
    ASSUME ProxyInv, UNCHANGED vars
    PROVE  ProxyInv'
  <1>1. /\ stack' = stack
        /\ UNCHANGED <<connected, pending_io_list, proxy_state, receive_buffer, proxy_on_close, phase,
                       sends, closes, closeReports, asked>>
    BY DEF vars, sockVars, proxyVars, clientVars
  <1>2. BooksOK'
    BY <1>1, BooksSame DEF ProxyInv
  <1>3. Settled => Settled'
    BY <1>1, SettledKept
  <1>4. ResponseEnds' = ResponseEnds
    BY <1>1, EndsKept
  <1>5. Place(stack)'
    <2>1. /\ Usual(stack) => Usual(stack)'
          /\ Sending(stack) => Sending(stack)'
          /\ OpenCalled(stack) => OpenCalled(stack)'
          /\ SocketOpening(stack) => SocketOpening(stack)'
          /\ Connecting(stack) => Connecting(stack)'
      BY <1>1, <1>3 DEF Usual, Sending, OpenCalled, SocketOpening, Connecting
    <2>2. OpenFailing(stack) => OpenFailing(stack)'
      BY <1>1, <1>4 DEF OpenFailing, Beneath
    <2>3. /\ Responding(stack) => Responding(stack)'
          /\ Opening(stack) => Opening(stack)'
          /\ Telling(stack) => Telling(stack)'
      BY <1>1, <1>3, <1>4 DEF Responding, Opening, Telling
    <2>4. /\ CloseCalled(stack) => CloseCalled(stack)'
          /\ Closing(stack) => Closing(stack)'
          /\ CloseTelling(stack) => CloseTelling(stack)'
          /\ CloseReturning(stack) => CloseReturning(stack)'
      BY <1>1, <1>3 DEF CloseCalled, Closing, CloseTelling, CloseReturning, Awaited, ClosedAsked, ClosedNull
    <2> QED
      BY <2>1, <2>2, <2>3, <2>4 DEF ProxyInv, Place
  <1> QED
    BY <1>1, <1>2, <1>5 DEF ProxyInv

LEMMA ProxySteps ==
    ASSUME ProxyClient, ProxyIInv, [Next]_vars
    PROVE  ProxyIInv'
  <1> USE DEF ProxyIInv
  <1>1. CASE SockNext /\ UNCHANGED <<proxyVars, clientVars>>
    <2>1. ProxyInv'
      BY <1>1, SocketOpens, SocketWorks, SocketSends, SocketCloses DEF SockNext
    <2> QED
      BY <1>1, <2>1 DEF clientVars
  <1>2. CASE ProxyNext /\ UNCHANGED <<sockVars, clientVars>>
    <2>1. ProxyInv'
      BY <1>2, ProxyOpens, OpenReturns, SocketAnswersOpen, RequestSent, ProxyReceives, ProxyResponds,
         ProxyFails, ProxyCloses, CloseReturns, SocketAnswersClose, ProxyWorks, ProxySends
         DEF ProxyNext
    <2> QED
      BY <1>2, <2>1 DEF clientVars
  <1>3. CASE ClientSteps /\ UNCHANGED <<sockVars, proxyVars>>
    <2>1. ProxyInv'
      BY <1>3, CallReturns, OpenAnswered, ClientTold, CloseAnswered, CallbackEnds DEF ClientSteps
    <2>2. UNCHANGED opens
      BY <1>3 DEF ClientSteps, Returned, OnOpenComplete, OnBytesReceived, OnError, OnCloseComplete,
                  OnSendComplete, CallbackReturns, clientVars
    <2> QED
      BY <2>1, <2>2
  <1>4. CASE ReturnStep /\ UNCHANGED <<sockVars, proxyVars, clientVars>>
    <2>1. ProxyInv'
      BY <1>4, ResultReturns
    <2> QED
      BY <1>4, <2>1 DEF clientVars
  <1>5. CASE ClientCalls /\ (opens' = opens \/ receive_buffer = <<>> \/ Reuse) /\ UNCHANGED <<sockVars, proxyVars>>
    <2>1. ProxyInv'
      BY <1>5, ClientOpens, ClientCloses, ClientSends, ClientPumps DEF ClientCalls
    <2>2. opens' = opens \/ opens' = opens + 1
      BY <1>5 DEF ClientCalls, CallOpen, CallClose, CallSend, CallDowork, CallDestroy, clientVars
    <2> QED
      BY <2>1, <2>2
  <1>6. CASE UNCHANGED vars
    <2>1. ProxyInv'
      BY <1>6, ProxyStutters
    <2> QED
      BY <1>6, <2>1 DEF vars, clientVars
  <1> QED
    BY <1>1, <1>2, <1>3, <1>4, <1>5, <1>6 DEF Next, Step

LEMMA ProxyInvariant ==
    ASSUME ProxyClient
    PROVE  Spec => []ProxyIInv
  <1>1. Init => ProxyIInv
    BY ProxyStarts
  <1>2. ProxyIInv /\ [Next]_vars => ProxyIInv'
    BY ProxySteps
  <1> QED
    BY <1>1, <1>2, PTL DEF Spec

\* Every step that the client sees is one that the contract allows at this point.
LEMMA StepsOfContract ==
    ASSUME ProxyClient, ProxyIInv, [Next]_vars
    PROVE  [Contract!Next]_<<phase, pieces>>
  <1> USE DEF ProxyIInv
  <1>1. CASE UNCHANGED clientVars
    BY <1>1 DEF clientVars
  <1>2. CASE ClientCalls
    <2>1. CASE CallOpen
      BY <2>1 DEF CallOpen, Contract!Next, Contract!Open
    <2>2. CASE CallClose \/ CallSend \/ CallDowork \/ CallDestroy
      BY <2>2 DEF CallClose, CallSend, CallDowork, CallDestroy, clientVars
    <2> QED
      BY <1>2, <2>1, <2>2 DEF ClientCalls
  <1>3. CASE Returned
    <2>1. /\ Is(Head(stack), "uws", "returned") /\ BooksOK
          /\ ((ClosedNull(stack, closeReports) /\ CloseReturning(stack)) \/ Usual(stack))
      BY <1>3, ClientRuns DEF ProxyInv, Running, Is, Returned
    <2>2. UNCHANGED pieces
      BY <1>3 DEF Returned
    <2>3. CASE Usual(stack)
      <3>1. stack # <<>>
        BY <1>3 DEF Returned, Running
      <3>2. Resumable(Head(stack), closeReports) \/ Harmless(Head(stack))
        BY <2>3, <3>1 DEF Usual
      <3>3. UNCHANGED phase
        BY <1>3, <2>1, <3>2 DEF Returned, Top, Resumable, Harmless, Is, Zero
      <3> QED
        BY <2>2, <3>3
    <2>4. CASE ClosedNull(stack, closeReports)
      <3>1. \/ phase' = phase
            \/ phase \in {"open", "failed"} /\ phase' = "closed"
        <4>1. Top.arg = "close_null"
          BY <2>4 DEF ClosedNull, Top
        <4> QED
          BY <1>3, <4>1 DEF Returned
      <3> QED
        BY <2>2, <3>1 DEF Contract!Next, Contract!Closed
    <2> QED
      BY <2>1, <2>3, <2>4
  <1>4. CASE OnOpenComplete
    <2>1. OpenFailing(stack) \/ Opening(stack)
      BY <1>4, ClientRuns DEF ProxyInv, Running, OnOpenComplete
    <2>2. phase = "opening"
      BY <1>4, <2>1 DEF OpenFailing, Opening, OnOpenComplete, Running, Is
    <2> QED
      BY <1>4, <2>2 DEF OnOpenComplete, Contract!Next, Contract!Opened, Contract!OpenFailed
  <1>5. CASE OnBytesReceived \/ OnError
    <2>1. phase = "open"
      BY <1>5, ClientRuns DEF ProxyInv, Running, OnBytesReceived, OnError, Telling
    <2> QED
      BY <1>5, <2>1 DEF OnBytesReceived, OnError, Contract!Next, Contract!Received, Contract!Failed
  <1>6. CASE OnCloseComplete
    <2>1. phase \in {"open", "failed"}
      BY <1>6, ClientRuns DEF ProxyInv, Running, OnCloseComplete, CloseTelling
    <2> QED
      BY <1>6, <2>1 DEF OnCloseComplete, Contract!Next, Contract!Closed
  <1>7. CASE OnSendComplete \/ CallbackReturns
    BY <1>7 DEF OnSendComplete, CallbackReturns, clientVars
  <1> QED
    BY <1>1, <1>2, <1>3, <1>4, <1>5, <1>6, <1>7 DEF Next, Step, ClientSteps, vars

\* The proxy layer keeps the contract of an IO layer (http_proxy_io.c): whatever the socket,
\* the proxy and the client do, an open is answered once, bytes are handed up only while the
\* session is open, and an error or the end of a close comes only in a session it can end.
THEOREM ProxyKeepsContract ==
    ASSUME ProxyClient
    PROVE  Spec => KeepsContract
  <1>1. Init => Contract!Init
    BY DEF Init, ClientInit, Contract!Init
  <1>2. ProxyIInv /\ [Next]_vars => [Contract!Next]_<<phase, pieces>>
    BY StepsOfContract
  <1>3. Spec => []ProxyIInv
    BY ProxyInvariant
  <1> QED
    BY <1>1, <1>2, <1>3, PTL DEF Spec, KeepsContract, Contract!Spec

\* A close that the proxy layer accepted is answered once, by the time its caller runs again,
\* and when nothing runs the layer is not left closing: closed, it holds no connection, and
\* its client knows (http_proxy_io_close, on_underlying_io_close_complete).
THEOREM ProxyAnswersCloses ==
    ASSUME ProxyClient
    PROVE  Spec => []ProxyEndsAnswered
  <1>1. ProxyIInv => ProxyEndsAnswered
    <2> SUFFICES ASSUME ProxyIInv
                 PROVE  ProxyEndsAnswered
      OBVIOUS
    <2>1. \A i \in 1 .. MaxCloses : closeReports[i] <= 1
      <3>1. ASSUME NEW i \in 1 .. MaxCloses
            PROVE  closeReports[i] <= 1
        <4>1. closeReports[i] \in 0 .. 1
          BY DEF ProxyIInv, ProxyInv, BooksOK
        <4> QED
          BY <4>1
      <3> QED
        BY <3>1
    <2>2. \A i \in asked : closeReports[i] = 1
      BY DEF ProxyIInv, ProxyInv, BooksOK
    <2>3. stack = <<>> => Settled
      BY DEF ProxyIInv, ProxyInv, Place, Usual, Sending, OpenCalled, SocketOpening, Connecting, OpenFailing,
             Responding, Opening, Telling, CloseCalled, Closing, CloseTelling, CloseReturning
    <2> QED
      BY <2>1, <2>2, <2>3 DEF ProxyEndsAnswered, Settled
  <1>2. Spec => []ProxyIInv
    BY ProxyInvariant
  <1> QED
    BY <1>1, <1>2, PTL

-----------------------------------------------------------------------------
(* The bytes of the tunnel: where they are on their way from the socket to  *)
(* the client, and that none is lost, added or taken out of order.          *)

\* What a proxy sends begins with a response, of which there may be only a part.
AnswersFirst(s) ==
    s # <<>> =>
      /\ Head(s).size > 0
      /\ \A i \in DOMAIN s : i <= Head(s).size =>
            s[i].op \in Responses /\ s[i].size = Head(s).size /\ s[i].k = i
ResponsesFirst == \A s \in Scripts : AnswersFirst(s)

\* what the socket is handing to the proxy layer, and what that is handing to the client
Arriving == IF stack # <<>> /\ Is(Head(stack), "proxy", "on_bytes_received") THEN Head(stack).data ELSE <<>>
Handing ==
    IF stack # <<>> /\ Is(Head(stack), "uws", "on_bytes_received") THEN Head(stack).data
    ELSE IF stack # <<>> /\ Tail(stack) # <<>> /\ Is(Head(Tail(stack)), "uws", "on_bytes_received")
         THEN Head(Tail(stack)).data
    ELSE <<>>

\* the socket has just been connected
Connected == stack # <<>> /\ Is(Head(stack), "proxy", "on_io_open_complete") /\ Head(stack).arg = "OK"

\* s is what the peer sent from p on
From(s, p) == s \in Seq(Unit) /\ \A i \in 1 .. Len(s) : s[i] = script[p + i]

Granted == script # <<>> /\ Head(script).op = "200" /\ ResponseSize <= received

\* what has been read, and what of it has been handed up
Stored ==
    /\ script \in Seq(Unit) /\ AnswersFirst(script)
    /\ received \in 0 .. Len(script)
    /\ receive_buffer \in Seq(Unit)
    /\ From(delivered, ResponseSize)
    /\ delivered # <<>> => ResponseSize + Len(delivered) <= received
    /\ phase = "opening" => delivered = <<>>
    /\ phase = "open" \/ proxy_state = "OPEN" => Granted

\* what has been read is in the buffer or on its way, up to the end of the response and after it
Underway ==
    /\ proxy_state = "OPENING_UNDERLYING_IO" /\ Connected => received = 0
    /\ proxy_state = "WAITING_FOR_CONNECT_RESPONSE" =>
         /\ From(receive_buffer, 0) /\ From(Arriving, Len(receive_buffer))
         /\ Len(receive_buffer) + Len(Arriving) = received
    /\ proxy_state = "OPEN" =>
         /\ From(Handing, ResponseSize + Len(delivered))
         /\ From(Arriving, ResponseSize + Len(delivered) + Len(Handing))
         /\ ResponseSize + Len(delivered) + Len(Handing) + Len(Arriving) = received

\* xio_destroy is the last call of all
Lifetime ==
    /\ stack # <<>> /\ Head(stack).fn = "destroy" => alive = FALSE /\ Tail(stack) = <<>>
    /\ alive \in BOOLEAN
    /\ alive = FALSE => stack = <<>> \/ Head(stack).fn = "destroy"

TunnelInv == Stored /\ Lifetime /\ (alive = TRUE => Underway)

-----------------------------------------------------------------------------
(* Pieces of what the peer sends.                                           *)

\* No bytes are always what the peer sent next.
LEMMA NothingFrom ==
    \A p : From(<<>>, p)
  BY DEF From

\* Two pieces that follow each other are one piece.
LEMMA FromJoined ==
    ASSUME NEW s, NEW t, NEW p \in Nat, From(s, p), From(t, p + Len(s))
    PROVE  From(s \o t, p) /\ Len(s \o t) = Len(s) + Len(t)
  <1>1. s \in Seq(Unit) /\ t \in Seq(Unit) /\ Len(s) \in Nat /\ Len(t) \in Nat
    BY DEF From
  <1> DEFINE u == s \o t
  <1>2. /\ u \in Seq(Unit) /\ Len(u) = Len(s) + Len(t)
        /\ \A i \in 1 .. Len(u) : u[i] = IF i <= Len(s) THEN s[i] ELSE t[i - Len(s)]
    BY <1>1
  <1> HIDE DEF u
  <1>3. ASSUME NEW i \in 1 .. Len(u)
        PROVE  u[i] = script[p + i]
    <2>1. CASE i <= Len(s)
      BY <1>1, <1>2, <2>1 DEF From
    <2>2. CASE ~(i <= Len(s))
      <3>1. i - Len(s) \in 1 .. Len(t) /\ (p + Len(s)) + (i - Len(s)) = p + i
        BY <1>1, <1>2, <2>2
      <3>2. t[i - Len(s)] = script[(p + Len(s)) + (i - Len(s))]
        BY <3>1 DEF From
      <3> QED
        BY <1>2, <2>2, <3>1, <3>2
    <2> QED
      BY <2>1, <2>2
  <1> QED
    BY <1>2, <1>3 DEF From, u

\* the next k units that the socket reads
LEMMA NextRead ==
    ASSUME script \in Seq(Unit), received \in 0 .. Len(script), NEW k \in 1 .. Len(Unread)
    PROVE  /\ From(SubSeq(Unread, 1, k), received) /\ Len(SubSeq(Unread, 1, k)) = k
           /\ received + k \in 0 .. Len(script)
  <1> DEFINE u == Unread
  <1>0. Len(script) \in Nat /\ received \in Nat
    OBVIOUS
  <1>1. /\ u \in Seq(Unit) /\ Len(u) = Len(script) - received
        /\ \A i \in 1 .. Len(u) : u[i] = script[received + i]
    BY <1>0 DEF Unread
  <1> HIDE DEF u
  <1>2. k \in Nat /\ k >= 1 /\ k <= Len(u) /\ Len(u) \in Nat
    BY <1>1 DEF u
  <1>3. /\ SubSeq(u, 1, k) \in Seq(Unit) /\ Len(SubSeq(u, 1, k)) = k
        /\ \A i \in 1 .. k : SubSeq(u, 1, k)[i] = u[i]
    BY <1>1, <1>2
  <1>4. \A i \in 1 .. k : SubSeq(u, 1, k)[i] = script[received + i]
    BY <1>1, <1>2, <1>3
  <1>5. From(SubSeq(u, 1, k), received)
    BY <1>3, <1>4 DEF From
  <1>6. received + k \in 0 .. Len(script)
    BY <1>0, <1>1, <1>2
  <1> QED
    BY <1>3, <1>5, <1>6 DEF u

\* The first place where a response can end is the end of the peer's answer.
LEMMA ResponseIsWhole ==
    ASSUME script \in Seq(Unit), AnswersFirst(script), received \in 0 .. Len(script),
           From(receive_buffer, 0), Len(receive_buffer) = received, ResponseEnds # {}
    PROVE  /\ script # <<>> /\ ResponseSize \in Nat /\ ResponseSize <= received
           /\ ParseHttpResponse = Head(script).op
           /\ From(Remaining, ResponseSize) /\ Len(Remaining) = received - ResponseSize
  <1>1. PICK e \in DOMAIN receive_buffer : e \in ResponseEnds
    BY DEF ResponseEnds
  <1>2. /\ receive_buffer \in Seq(Unit) /\ DOMAIN receive_buffer = 1 .. received /\ received \in Nat
        /\ e \in 1 .. received /\ Len(script) \in Nat /\ DOMAIN script = 1 .. Len(script)
        /\ received <= Len(script)
    BY DEF From
  <1>3. \A i \in 1 .. received : receive_buffer[i] = script[i]
    BY <1>2 DEF From
  <1>4. script # <<>> /\ Head(script) = script[1] /\ 1 \in DOMAIN script
    BY <1>2
  <1> DEFINE n == ResponseSize
  <1>5. /\ n > 0 /\ n = Head(script).size
        /\ \A i \in 1 .. received : i <= n =>
              receive_buffer[i].op \in Responses /\ receive_buffer[i].size = n /\ receive_buffer[i].k = i
    BY <1>2, <1>3, <1>4 DEF AnswersFirst, ResponseSize
  <1>6. n \in Nat
    <2>1. script[1] \in UnitType
      BY <1>4, UnitAssumption
    <2> QED
      BY <1>4, <1>5, <2>1 DEF UnitType
  <1> HIDE DEF n
  <1>7. \A i \in ResponseEnds : i \in 1 .. received /\ i >= n
    <2> SUFFICES ASSUME NEW i \in ResponseEnds, i < n
                 PROVE  FALSE
      BY <1>2, <1>6 DEF ResponseEnds
    <2>1. i \in 1 .. received /\ receive_buffer[i].k = receive_buffer[i].size
      BY <1>2 DEF ResponseEnds
    <2> QED
      BY <1>5, <1>6, <2>1
  <1>8. n <= received
    BY <1>1, <1>2, <1>6, <1>7
  <1>9. n \in ResponseEnds
    BY <1>2, <1>5, <1>6, <1>8 DEF ResponseEnds
  <1>10. FirstEnd = n
    <2>1. FirstEnd \in ResponseEnds /\ \A j \in ResponseEnds : FirstEnd <= j
      BY <1>6, <1>7, <1>9 DEF FirstEnd
    <2> QED
      BY <1>6, <1>7, <1>9, <2>1
  <1>11. ParseHttpResponse = Head(script).op
    <2>1. received >= 1 /\ receive_buffer # <<>> /\ Head(receive_buffer) = receive_buffer[1]
      BY <1>2
    <2> QED
      BY <1>2, <1>3, <1>4, <2>1 DEF ParseHttpResponse
  <1>12. From(Remaining, n) /\ Len(Remaining) = received - n
    <2> DEFINE r == SubSeq(receive_buffer, n + 1, received)
    <2>1. /\ r \in Seq(Unit) /\ Len(r) = received - n
          /\ \A i \in 1 .. Len(r) : r[i] = receive_buffer[n + i]
      BY <1>2, <1>6, <1>8
    <2>2. Remaining = r
      BY <1>10 DEF Remaining
    <2> HIDE DEF r
    <2>3. \A i \in 1 .. Len(r) : r[i] = script[n + i]
      BY <1>2, <1>3, <1>6, <1>8, <2>1
    <2> QED
      BY <2>1, <2>2, <2>3 DEF From
  <1> QED
    BY <1>4, <1>6, <1>8, <1>11, <1>12 DEF n

-----------------------------------------------------------------------------
(* Where no bytes are.                                                      *)

\* frames that carry no bytes, and do not announce any
Dull(f) ==
    /\ f.fn \notin {"on_bytes_received", "destroy"}
    /\ f.fn = "on_io_open_complete" => f.arg # "OK"
    /\ f.fn = "in_callback" => f.arg # "on_io_open_complete"
Dulls == stack = <<>> \/ Dull(Head(stack))

\* What may be resumed in any state carries no bytes.
LEMMA ResumableIsDull ==
    \A f, reports : Resumable(f, reports) => Dull(f)
  BY DEF Resumable, Dull, Is, Zero

\* Only the bytes that came with the response wait beneath something else.
LEMMA WhatWaits ==
    ASSUME NEW s, IsStack(s), Place(s), s # <<>>, Tail(s) # <<>>
    PROVE  Dull(Head(Tail(s))) \/ Opening(s)
  <1> DEFINE f == Head(Tail(s))
             t == Tail(Tail(s))
  <1>1. IsStack(Tail(s))
    BY StackParts
  <1>2. AllResumable(Tail(s), closeReports) => Dull(f)
    BY <1>1, PartsResumable, ResumableIsDull
  <1>3. ClosedNull(Tail(s), closeReports) \/ ClosedAsked(Tail(s)) => Dull(f)
    BY DEF ClosedNull, ClosedAsked, Is, Dull
  <1>4. Usual(s) \/ Sending(s) \/ OpenCalled(s) \/ SocketOpening(s) \/ Responding(s) \/ Telling(s) => Dull(f)
    BY <1>2 DEF Usual, Sending, OpenCalled, SocketOpening, Responding, Telling
  <1>5. Connecting(s) => Dull(f)
    BY <1>2 DEF Connecting, Is, Dull
  <1>6. CloseCalled(s) => Dull(f)
    BY <1>3 DEF CloseCalled
  <1>7. Closing(s) \/ CloseTelling(s) => Dull(f)
    BY DEF Closing, CloseTelling, Is, IsZero, Dull
  <1>8. CloseReturning(s) => Dull(f)
    BY <1>2, <1>3 DEF CloseReturning, ClosedNull, Is, IsZero, Dull
  <1>9. Beneath(Tail(s)) => Dull(f)
    BY <1>2 DEF Beneath, Is, Dull
  <1>10. OpenFailing(s) => Dull(f)
    BY <1>9 DEF OpenFailing, IsRefusal, Is, Dull
  <1> QED
    BY <1>4, <1>5, <1>6, <1>7, <1>8, <1>10 DEF Place

Idle == Arriving = <<>> /\ Handing = <<>> /\ Connected = FALSE

\* With a dull frame in front, no bytes are on their way.
LEMMA NothingMoves ==
    ProxyInv /\ Dulls => Idle
  <1> SUFFICES ASSUME ProxyInv, Dulls
               PROVE  Arriving = <<>> /\ Handing = <<>> /\ Connected = FALSE
    BY DEF Idle
  <1>1. CASE stack = <<>>
    BY <1>1 DEF Arriving, Handing, Connected
  <1>2. CASE stack # <<>>
    <2>1. Dull(Head(stack))
      BY <1>2 DEF Dulls
    <2>2. ~Opening(stack)
      BY <2>1 DEF Opening, Is, Dull
    <2>3. Tail(stack) # <<>> => Dull(Head(Tail(stack)))
      BY <1>2, <2>2, WhatWaits DEF ProxyInv
    <2> QED
      BY <2>1, <2>3 DEF Arriving, Handing, Connected, Dull, Is
  <1> QED
    BY <1>1, <1>2

-----------------------------------------------------------------------------
(* Steps that move no bytes.                                                *)

\* Steps that neither read nor hand up leave the accounts as they were.
LEMMA StoredKept ==
    ASSUME Stored, UNCHANGED <<script, received, delivered>>, receive_buffer' \in Seq(Unit),
           phase' = "opening" => phase = "opening",
           phase' = "open" \/ proxy_state' = "OPEN" => phase = "open" \/ proxy_state = "OPEN"
    PROVE  Stored'
  <1>1. UNCHANGED <<ResponseSize, Granted>>
    BY DEF ResponseSize, Granted
  <1>2. From(delivered, ResponseSize)'
    BY <1>1 DEF Stored, From
  <1> QED
    BY <1>1, <1>2 DEF Stored

\* Steps that move no bytes keep the invariant.
LEMMA Still ==
    ASSUME ProxyInv, ProxyInv', TunnelInv, alive = TRUE,
           UNCHANGED <<script, received, receive_buffer, delivered, alive>>,
           phase' = "opening" => phase = "opening",
           phase' = "open" \/ proxy_state' = "OPEN" => phase = "open" \/ proxy_state = "OPEN",
           stack' = <<>> \/ Head(stack').fn # "destroy",
           \/ proxy_state' \in {"CLOSED", "CLOSING", "ERROR"}
           \/ proxy_state' = "OPENING_UNDERLYING_IO" /\ Dulls'
           \/ proxy_state' = proxy_state /\ (Dulls \/ Idle) /\ Dulls'
    PROVE  TunnelInv'
  <1>1. Stored'
    BY StoredKept DEF TunnelInv, Stored
  <1>2. Lifetime'
    BY DEF Lifetime
  <1>3. Underway'
    <2>0. (ProxyInv /\ Dulls => Idle)'
      BY NothingMoves, PTL
    <2>1. CASE proxy_state' \in {"CLOSED", "CLOSING", "ERROR"}
      BY <2>1 DEF Underway
    <2>2. CASE proxy_state' = "OPENING_UNDERLYING_IO" /\ Dulls'
      BY <2>0, <2>2 DEF Underway, Idle
    <2>3. CASE proxy_state' = proxy_state /\ (Dulls \/ Idle) /\ Dulls'
      <3>1. Arriving = <<>> /\ Handing = <<>> /\ Connected = FALSE
        BY <2>3, NothingMoves DEF Idle
      <3>2. Arriving' = <<>> /\ Handing' = <<>> /\ Connected' = FALSE
        BY <2>0, <2>3 DEF Idle
      <3>3. UNCHANGED ResponseSize
        BY DEF ResponseSize
      <3>4. \A s, p : From(s, p) => From(s, p)'
        BY DEF From
      <3> QED
        BY <2>3, <3>1, <3>2, <3>3, <3>4 DEF Underway, TunnelInv
    <2> QED
      BY <2>1, <2>2, <2>3
  <1> QED
    BY <1>1, <1>2, <1>3 DEF TunnelInv

\* A function that returns makes way for something dull.
LEMMA ReturnsDully ==
    ASSUME ProxyInv, stack # <<>>, ~Opening(stack), Pop \/ Goto(<<>>) \/ \E v : Return(v)
    PROVE  Dulls'
  <1>0. IsStack(stack) /\ (Tail(stack) # <<>> => Dull(Head(Tail(stack))))
    BY WhatWaits DEF ProxyInv
  <1>1. CASE Pop \/ Goto(<<>>)
    BY <1>0, <1>1, PopParts DEF Dulls
  <1>2. CASE \E v : Return(v)
    <2>1. PICK v : Return(v)
      BY <1>2
    <2>2. CASE Tail(stack) = <<>>
      BY <1>0, <2>1, <2>2, ReturnParts DEF Dulls
    <2>3. CASE Tail(stack) # <<>>
      <3>1. stack' # <<>> /\ Answered(Head(stack'), Head(Tail(stack)), v)
        BY <1>0, <2>1, <2>3, ReturnParts
      <3>2. \A g, f : Answered(g, f, v) /\ Dull(f) => Dull(g)
        BY DEF Answered, Dull
      <3> QED
        BY <1>0, <2>3, <3>1, <3>2 DEF Dulls
    <2> QED
      BY <2>2, <2>3
  <1> QED
    BY <1>1, <1>2

\* One dull call instead of the running function.
LEMMA Goes1 ==
    ASSUME ProxyInv, stack # <<>>, NEW a, IsFrame(a), Dull(a), Goto(<<a>>)
    PROVE  Dulls'
  BY Goto1 DEF ProxyInv, Dulls

\* A dull call, and something behind it.
LEMMA Goes2 ==
    ASSUME ProxyInv, stack # <<>>, NEW a, NEW b, IsFrame(a), IsFrame(b), Dull(a), Goto(<<a, b>>)
    PROVE  Dulls'
  BY Goto2 DEF ProxyInv, Dulls

\* A dull call, and two things behind it.
LEMMA Goes3 ==
    ASSUME ProxyInv, stack # <<>>, NEW a, NEW b, NEW c, IsFrame(a), IsFrame(b), IsFrame(c), Dull(a),
           Goto(<<a, b, c>>)
    PROVE  Dulls'
  BY Goto3 DEF ProxyInv, Dulls

\* the completion of a send, and then the rest of the function that has sent
LEMMA GoesOn ==
    ASSUME ProxyInv, stack # <<>>, NEW cb, NEW n, NEW b, IsFrame(b), Dull(b),
           cb \in {"unchecked_on_send_complete", "on_underlying_io_send_complete"},
           Goto(on_send_complete(cb, "OK", n) \o <<b>>)
    PROVE  Dulls'
  <1>1. CASE cb = "unchecked_on_send_complete"
    <2>1. on_send_complete(cb, "OK", n) \o <<b>> = <<b>>
      <3>1. <<b>> \in Seq({b}) /\ \A s \in Seq({b}) : <<>> \o s = s
        OBVIOUS
      <3> QED
        BY <1>1, <3>1 DEF on_send_complete
    <2> QED
      BY <2>1, Goes1
  <1>2. CASE cb = "on_underlying_io_send_complete"
    <2> DEFINE a == MkFrame("uws", cb, "OK", n, <<>>)
    <2>1. Made(a, "uws", cb, "OK", n)
      BY MadeFrame
    <2>2. on_send_complete(cb, "OK", n) = <<a>>
      BY <1>2 DEF on_send_complete
    <2> HIDE DEF a
    <2>3. Goto(<<a, b>>)
      BY <2>2, PairOf
    <2>4. Dull(a) /\ IsFrame(a)
      BY <1>2, <2>1 DEF Made, Dull
    <2> QED
      BY <2>3, <2>4, Goes2
  <1> QED
    BY <1>1, <1>2

\* Whoever runs, other than to be destroyed, runs in a layer that exists.
LEMMA Exists ==
    ASSUME TunnelInv, stack # <<>>, Head(stack).fn # "destroy"
    PROVE  alive = TRUE
  BY DEF TunnelInv, Lifetime

\* The frames that carry no bytes.
LEMMA DullFrames ==
    ASSUME ProxyClient
    PROVE  /\ \A m, l, f, a, n : Made(m, l, f, a, n)
                /\ f \notin {"on_bytes_received", "destroy", "on_io_open_complete", "in_callback"} => Dull(m)
           /\ \A m, l, a, n : Made(m, l, "on_io_open_complete", a, n) /\ a # "OK" => Dull(m)
           /\ \A m, l, f, a, n : Made(m, l, f, a, n) => IsFrame(m)
  BY DEF Made, Dull

-----------------------------------------------------------------------------
(* The steps of the socket.                                                 *)

\* The steps of the socket that read nothing.
LEMMA SocketStill ==
    ASSUME ProxyClient, ProxyInv, ProxyInv', TunnelInv, UNCHANGED <<proxyVars, clientVars>>,
           \/ socketio_open_refused \/ socketio_open_failed \/ socketio_close
           \/ socketio_send_sent \/ socketio_send_queued \/ socketio_send_failed
           \/ socketio_dowork_send_complete \/ socketio_dowork_remove \/ socketio_dowork_send_error
           \/ socketio_dowork_send_end \/ socketio_dowork_receive_error \/ socketio_dowork_receive_end
    PROVE  TunnelInv'
  <1>1. /\ stack # <<>> /\ Head(stack).at = "socket"
        /\ Head(stack).fn \in {"open", "close", "send", "dowork", "dowork_sent", "dowork_receive"}
        /\ UNCHANGED <<script, received>>
    BY DEF socketio_open_refused, socketio_open_failed, socketio_close, socketio_send_sent,
           socketio_send_queued, socketio_send_failed, socketio_dowork_send_complete,
           socketio_dowork_remove, socketio_dowork_send_error, socketio_dowork_send_end,
           socketio_dowork_receive_error, socketio_dowork_receive_end, Running, sockVars
  <1>2. UNCHANGED <<proxy_state, receive_buffer, phase, delivered, alive>>
    BY DEF proxyVars, clientVars
  <1>3. alive = TRUE /\ Dulls /\ ~Opening(stack)
    BY <1>1, Exists DEF Dulls, Dull, Opening, Is
  <1>4. /\ Made(ReturnFrame("socket", 0), "socket", "return", "", 0)
        /\ Dull(ReturnFrame("socket", 0)) /\ IsFrame(ReturnFrame("socket", 0))
    <2>1. Made(ReturnFrame("socket", 0), "socket", "return", "", 0)
      BY MadeReturn
    <2> QED
      BY <2>1 DEF Made, Dull
  <1>5. ASSUME socketio_open_refused \/ socketio_open_failed
        PROVE  Dulls'
    <2> DEFINE a == on_io_open_complete("socket", "ERROR")
    <2>1. IsFrame(a) /\ Dull(a)
      BY CallbackFrames, DullFrames
    <2>2. Goto(<<a, ReturnFrame("socket", 0)>>)
      BY <1>5 DEF socketio_open_refused, socketio_open_failed
    <2> HIDE DEF a
    <2> QED
      BY <1>1, <1>4, <2>1, <2>2, Goes2
  <1>6. ASSUME socketio_close
        PROVE  Dulls'
    <2>1. CASE Top.arg = "NULL"
      <3>1. \E v : Return(v)
        BY <1>6, <2>1 DEF socketio_close
      <3> QED
        BY <1>1, <1>3, <3>1, ReturnsDully
    <2>2. CASE Top.arg # "NULL"
      <3> DEFINE a == on_io_close_complete("socket")
      <3>1. IsFrame(a) /\ Dull(a)
        BY CallbackFrames, DullFrames
      <3>2. Goto(<<a, ReturnFrame("socket", 0)>>)
        BY <1>6, <2>2 DEF socketio_close
      <3> HIDE DEF a
      <3> QED
        BY <1>1, <1>4, <3>1, <3>2, Goes2
    <2> QED
      BY <2>1, <2>2
  <1>7. ASSUME socketio_send_sent
        PROVE  Dulls'
    <2>1. Head(stack).arg \in {"unchecked_on_send_complete", "on_underlying_io_send_complete"}
      BY <1>1, <1>7, SocketRuns DEF socketio_send_sent, ProxyInv, Sending, Connecting, Is, Running
    <2>2. Goto(on_send_complete(Head(stack).arg, "OK", Head(stack).n) \o <<ReturnFrame("socket", 0)>>)
      BY <1>7 DEF socketio_send_sent, Top
    <2> QED
      BY <1>1, <1>4, <2>1, <2>2, GoesOn
  <1>8. ASSUME \/ socketio_send_queued \/ socketio_send_failed \/ socketio_dowork_receive_end
        PROVE  Dulls'
    <2>1. Pop \/ \E v : Return(v)
      BY <1>8 DEF socketio_send_queued, socketio_send_failed, socketio_dowork_receive_end
    <2> QED
      BY <1>1, <1>3, <2>1, ReturnsDully
  <1>9. ASSUME socketio_dowork_send_complete
        PROVE  Dulls'
    <2> DEFINE io == Head(pending_io_list)
    <2>1. io.cb \in {"unchecked_on_send_complete", "on_underlying_io_send_complete"}
      <3> DEFINE S == [cb: {"unchecked_on_send_complete", "on_underlying_io_send_complete"}, n: Nat]
      <3>1. pending_io_list \in Seq(S) /\ pending_io_list # <<>>
        BY <1>9 DEF socketio_dowork_send_complete, ProxyInv, BooksOK
      <3>2. \A f \in S : f.cb \in {"unchecked_on_send_complete", "on_underlying_io_send_complete"}
        OBVIOUS
      <3> HIDE DEF S
      <3> QED
        BY <3>1, <3>2
    <2>2. Goto(on_send_complete(io.cb, "OK", io.n) \o <<dowork_sent>>)
      BY <1>9 DEF socketio_dowork_send_complete
    <2>3. IsFrame(dowork_sent) /\ Dull(dowork_sent)
      BY OtherFrames, DullFrames
    <2> QED
      BY <1>1, <2>1, <2>2, <2>3, GoesOn
  <1>10. ASSUME \/ socketio_dowork_remove \/ socketio_dowork_send_error \/ socketio_dowork_send_end
                \/ socketio_dowork_receive_error
         PROVE  Dulls'
    <2>1. /\ IsFrame(dowork_sending) /\ Dull(dowork_sending)
          /\ IsFrame(dowork_receiving) /\ Dull(dowork_receiving)
          /\ IsFrame(on_io_error("socket")) /\ Dull(on_io_error("socket"))
      BY OtherFrames, CallbackFrames, DullFrames
    <2>2. \/ Goto(<<dowork_sending>>) \/ Goto(<<on_io_error("socket"), dowork_sending>>)
          \/ Goto(<<dowork_receiving>>) \/ Goto(<<on_io_error("socket")>>)
      BY <1>10 DEF socketio_dowork_remove, socketio_dowork_send_error, socketio_dowork_send_end,
                   socketio_dowork_receive_error
    <2> QED
      BY <1>1, <2>1, <2>2, Goes1, Goes2
  <1>11. Dulls'
    BY <1>5, <1>6, <1>7, <1>8, <1>9, <1>10
  <1>12. stack' = <<>> \/ Head(stack').fn # "destroy"
    BY <1>11 DEF Dulls, Dull
  <1> QED
    BY <1>1, <1>2, <1>3, <1>11, <1>12, Still

\* A connection begins with nothing read, nothing kept and nothing handed up.
LEMMA SocketConnects ==
    ASSUME ProxyClient, ResponsesFirst, ProxyInv, TunnelInv, socketio_open_connected,
           UNCHANGED <<proxyVars, clientVars>>
    PROVE  TunnelInv'
  <1>1. /\ stack # <<>> /\ Head(stack).fn = "open" /\ proxy_state = "OPENING_UNDERLYING_IO" /\ Settled
        /\ Running("socket", "open") /\ IsStack(stack)
    BY SocketRuns DEF socketio_open_connected, Running, ProxyInv, Calm
  <1>2. /\ UNCHANGED <<proxy_state, receive_buffer, phase, delivered, alive>>
        /\ script' \in Scripts /\ received' = 0
    BY DEF proxyVars, clientVars, socketio_open_connected
  <1>3. phase = "opening" /\ delivered = <<>> /\ alive = TRUE
    BY <1>1, Exists DEF Settled, TunnelInv, Stored
  <1>4. stack' # <<>> /\ Head(stack').fn = "on_io_open_complete"
    <2> DEFINE a == on_io_open_complete("socket", "OK")
               b == ReturnFrame("socket", 0)
    <2>1. Made(a, "proxy", "on_io_open_complete", "OK", 0) /\ Made(b, "socket", "return", "", 0)
      BY CallbackFrames, MadeReturn
    <2>2. Goto(<<a, b>>)
      BY DEF socketio_open_connected
    <2> HIDE DEF a, b
    <2> QED
      BY <1>1, <2>1, <2>2, Goto2 DEF Made
  <1>5. Stored'
    <2>1. script' \in Seq(Unit) /\ AnswersFirst(script')
      BY <1>2, ScriptsAssumption DEF ResponsesFirst
    <2>2. received' \in 0 .. Len(script')
      BY <1>2, <2>1
    <2>3. AnswersFirst(script)'
      BY <2>1 DEF AnswersFirst
    <2>4. From(delivered, ResponseSize)'
      BY <1>2, <1>3 DEF From
    <2> QED
      BY <1>1, <1>2, <1>3, <2>1, <2>2, <2>3, <2>4 DEF Stored, TunnelInv
  <1>6. Lifetime'
    BY <1>2, <1>3, <1>4 DEF Lifetime
  <1>7. Underway'
    BY <1>1, <1>2 DEF Underway
  <1> QED
    BY <1>5, <1>6, <1>7 DEF TunnelInv

\* What the socket reads is what the peer sent next.
LEMMA SocketReads ==
    ASSUME ProxyClient, ProxyInv, TunnelInv, socketio_dowork_receive,
           UNCHANGED <<proxyVars, clientVars>>
    PROVE  TunnelInv'
  <1>1. /\ stack # <<>> /\ Head(stack).at = "socket" /\ Head(stack).fn = "dowork_receive" /\ IsStack(stack)
    BY DEF socketio_dowork_receive, Running, ProxyInv
  <1>2. UNCHANGED <<proxy_state, receive_buffer, phase, delivered, alive, script>>
    BY DEF proxyVars, clientVars, socketio_dowork_receive
  <1>3. alive = TRUE /\ Dulls
    BY <1>1, Exists DEF Dulls, Dull
  <1>4. Arriving = <<>> /\ Handing = <<>>
    BY <1>3, NothingMoves DEF Idle
  <1>5. PICK k \in 1 .. Len(Unread) :
            /\ received' = received + k
            /\ Goto(<<on_bytes_received("socket", SubSeq(Unread, 1, k)), dowork_receiving>>)
    BY DEF socketio_dowork_receive
  <1> DEFINE d == SubSeq(Unread, 1, k)
             a == on_bytes_received("socket", d)
             b == dowork_receiving
  <1>6. From(d, received) /\ Len(d) = k /\ received + k \in 0 .. Len(script)
    BY NextRead DEF TunnelInv, Stored
  <1>7. /\ Made(a, "proxy", "on_bytes_received", "", 0) /\ a.data = d
        /\ Made(b, "socket", "dowork_receive", "", 0)
    <2>1. a.data = d
      BY DEF on_bytes_received, MkFrame
    <2> HIDE DEF d
    <2>2. Made(a, "proxy", "on_bytes_received", "", 0)
      BY CallbackFrames
    <2> QED
      BY <2>1, <2>2, OtherFrames
  <1>8. k \in Nat /\ Len(script) \in Nat /\ received \in Nat /\ received <= Len(script)
    BY DEF TunnelInv, Stored
  <1> HIDE DEF d
  <1>9. Goto(<<a, b>>)
    BY <1>5 DEF d
  <1> HIDE DEF a, b
  <1>10. /\ stack' # <<>> /\ Head(stack') = a /\ Tail(stack') # <<>> /\ Head(Tail(stack')) = b
    BY <1>1, <1>7, <1>9, Goto2 DEF Made
  <1>11. Arriving' = d /\ Handing' = <<>> /\ Connected' = FALSE
    BY <1>7, <1>10 DEF Arriving, Handing, Connected, Is, Made
  <1>12. ResponseSize' = ResponseSize /\ received' = received + k
    BY <1>2, <1>5 DEF ResponseSize
  <1>13. \A s, p : From(s, p)' <=> From(s, p)
    BY <1>2 DEF From
  <1>14. ResponseSize \in Nat
    <2>1. script \in Seq(Unit)
      BY DEF TunnelInv, Stored
    <2>2. CASE script # <<>>
      <3>1. Head(script) \in UnitType
        BY <2>1, <2>2, UnitAssumption
      <3> QED
        BY <2>2, <3>1 DEF ResponseSize, UnitType
    <2> QED
      BY <2>2 DEF ResponseSize
  <1>15. Len(delivered) \in Nat
    BY DEF TunnelInv, Stored, From
  <1>16. Stored'
    <2>1. Granted => Granted'
      BY <1>2, <1>8, <1>12, <1>14 DEF Granted
    <2>2. delivered # <<>> => ResponseSize + Len(delivered) <= received + k
      BY <1>8, <1>14, <1>15 DEF TunnelInv, Stored
    <2>3. From(delivered, ResponseSize)'
      BY <1>2, <1>12, <1>13 DEF TunnelInv, Stored
    <2>4. AnswersFirst(script)'
      BY <1>2 DEF TunnelInv, Stored, AnswersFirst
    <2> QED
      BY <1>2, <1>6, <1>12, <2>1, <2>2, <2>3, <2>4 DEF TunnelInv, Stored
  <1>17. Lifetime'
    BY <1>2, <1>3, <1>7, <1>10 DEF Lifetime, Made
  <1>18. Underway'
    <2>1. CASE proxy_state = "WAITING_FOR_CONNECT_RESPONSE"
      <3>1. From(receive_buffer, 0) /\ Len(receive_buffer) = received
        <4>1. From(receive_buffer, 0) /\ Len(receive_buffer) + Len(<<>>) = received
          BY <1>3, <1>4, <2>1 DEF TunnelInv, Underway
        <4>2. Len(receive_buffer) \in Nat /\ Len(<<>>) = 0
          BY DEF TunnelInv, Stored
        <4> QED
          BY <4>1, <4>2
      <3>2. From(receive_buffer, 0)' /\ From(Arriving, Len(receive_buffer))'
        BY <1>2, <1>6, <1>11, <1>13, <3>1
      <3>3. Len(receive_buffer') + Len(Arriving') = received'
        BY <1>2, <1>6, <1>11, <1>12, <3>1
      <3> QED
        BY <1>2, <2>1, <3>2, <3>3 DEF Underway
    <2>2. CASE proxy_state = "OPEN"
      <3>1. ResponseSize + Len(delivered) = received
        <4>1. ResponseSize + Len(delivered) + Len(<<>>) + Len(<<>>) = received
          BY <1>3, <1>4, <2>2 DEF TunnelInv, Underway
        <4> QED
          BY <1>14, <1>15, <4>1
      <3>2. From(Handing, ResponseSize + Len(delivered))'
        BY <1>11, <1>13, NothingFrom
      <3>3. ResponseSize + Len(delivered) + Len(<<>>) = received
        BY <1>14, <1>15, <3>1
      <3>4. From(Arriving, ResponseSize + Len(delivered) + Len(Handing))'
        BY <1>2, <1>6, <1>11, <1>12, <1>13, <3>3
      <3>5. (ResponseSize + Len(delivered) + Len(Handing) + Len(Arriving) = received)'
        BY <1>2, <1>6, <1>11, <1>12, <3>3
      <3> QED
        BY <1>2, <2>2, <3>2, <3>4, <3>5 DEF Underway
    <2> QED
      BY <1>2, <1>11, <2>1, <2>2 DEF Underway
  <1> QED
    BY <1>16, <1>17, <1>18 DEF TunnelInv

\* the end of everything
LEMMA SocketDestroyed ==
    ASSUME ProxyInv, TunnelInv, socketio_destroy, UNCHANGED <<proxyVars, clientVars>>
    PROVE  TunnelInv'
  <1>1. UNCHANGED <<proxy_state, receive_buffer, phase, delivered, alive, script, received>>
    BY DEF proxyVars, clientVars, socketio_destroy
  <1>2. alive = FALSE /\ stack' = <<>>
    BY DEF socketio_destroy, Running, Pop, TunnelInv, Lifetime
  <1>3. Stored'
    BY <1>1, StoredKept DEF TunnelInv, Stored
  <1> QED
    BY <1>1, <1>2, <1>3 DEF TunnelInv, Lifetime

\* Whatever the socket does.
LEMMA SocketSteps ==
    ASSUME ProxyClient, ResponsesFirst, ProxyInv, ProxyInv', TunnelInv, SockNext,
           UNCHANGED <<proxyVars, clientVars>>
    PROVE  TunnelInv'
  BY SocketStill, SocketConnects, SocketReads, SocketDestroyed DEF SockNext

-----------------------------------------------------------------------------
(* The steps of the proxy layer.                                            *)

\* the open is reported as failed, and the socket closed
LEMMA ClosesAndReports ==
    ASSUME ProxyClient, ProxyInv, NEW r, close_and_report(r), stack # <<>>
    PROVE  proxy_state' = "CLOSED" /\ Dulls'
  <1> DEFINE a == xio_close("proxy", "NULL")
             b == on_io_open_complete("proxy", r)
  <1>1. Made(a, "socket", "close", "NULL", 0) /\ Made(b, "uws", "on_io_open_complete", r, 0)
    BY CallFrames, CallbackFrames
  <1>2. Goto(<<a, b>>) /\ proxy_state' = "CLOSED"
    BY DEF close_and_report, ProxyState
  <1> HIDE DEF a, b
  <1>3. IsFrame(a) /\ IsFrame(b) /\ Dull(a)
    BY <1>1 DEF Made, Dull
  <1> QED
    BY <1>2, <1>3, Goes2

\* the proxy layer goes on without touching what it has received
LEMMA ProxyStill ==
    ASSUME ProxyClient, ProxyInv, ProxyInv', TunnelInv, UNCHANGED <<sockVars, clientVars, receive_buffer>>,
           stack # <<>>, Head(stack).fn # "destroy", Dulls',
           \/ proxy_state' \in {"CLOSED", "CLOSING", "ERROR"}
           \/ proxy_state' = "OPENING_UNDERLYING_IO"
           \/ proxy_state' = proxy_state /\ Dulls
    PROVE  TunnelInv'
  <1>1. UNCHANGED <<script, received, receive_buffer, delivered, alive, phase>>
    BY DEF sockVars, clientVars
  <1>2. alive = TRUE
    BY Exists
  <1>3. stack' = <<>> \/ Head(stack').fn # "destroy"
    BY DEF Dulls, Dull
  <1>4. phase' = "open" \/ proxy_state' = "OPEN" => phase = "open" \/ proxy_state = "OPEN"
    BY <1>1
  <1> QED
    BY <1>1, <1>2, <1>3, <1>4, Still

\* the calls that open the layer, and the errors of the socket
LEMMA ProxyControls ==
    ASSUME ProxyClient, ProxyInv, ProxyInv', TunnelInv, UNCHANGED <<sockVars, clientVars>>,
           \/ http_proxy_io_open \/ proxy_xio_open_returned
           \/ proxy_on_underlying_io_open_complete_late \/ connect_request_sent
           \/ proxy_on_underlying_io_error
    PROVE  TunnelInv'
  <1>1. /\ stack # <<>> /\ Head(stack).at = "proxy" /\ ~Opening(stack)
        /\ Head(stack).fn \in {"open", "xio_open_returned", "on_io_open_complete", "connect_request_sent",
                               "on_io_error"}
        /\ UNCHANGED receive_buffer
    BY DEF http_proxy_io_open, proxy_xio_open_returned, proxy_on_underlying_io_open_complete_late,
           connect_request_sent, proxy_on_underlying_io_error, Running, Opening, Is
  <1>2. ASSUME Head(stack).fn # "on_io_open_complete"
        PROVE  Dulls
    BY <1>1, <1>2 DEF Dulls, Dull
  <1>3. CASE http_proxy_io_open
    <2>1. CASE proxy_state # "CLOSED"
      <3>1. UNCHANGED proxy_state /\ (\E v : Return(v)) /\ Head(stack).fn = "open"
        BY <1>3, <2>1 DEF http_proxy_io_open, Running
      <3> QED
        BY <1>1, <1>2, <3>1, ReturnsDully, ProxyStill
    <2>2. CASE proxy_state = "CLOSED"
      <3> DEFINE a == xio_open("proxy")
                 b == Proxy("xio_open_returned")
      <3>1. IsFrame(a) /\ IsFrame(b) /\ Dull(a)
        BY CallFrames, OtherFrames, DullFrames
      <3>2. proxy_state' = "OPENING_UNDERLYING_IO" /\ Goto(<<a, b>>)
        BY <1>3, <2>2 DEF http_proxy_io_open, ProxyState
      <3> HIDE DEF a, b
      <3> QED
        BY <1>1, <3>1, <3>2, Goes2, ProxyStill
    <2> QED
      BY <2>1, <2>2
  <1>4. CASE proxy_xio_open_returned
    <2>1. Running("proxy", "xio_open_returned") /\ Head(stack).fn = "xio_open_returned"
      BY <1>4 DEF proxy_xio_open_returned, Running
    <2>2. Head(stack).ret = 0
      BY <1>1, <2>1, ProxyRuns DEF ProxyInv
    <2>3. UNCHANGED proxy_state /\ \E v : Return(v)
      BY <1>4, <2>2 DEF proxy_xio_open_returned, Top, ProxyState
    <2> QED
      BY <1>1, <1>2, <2>1, <2>3, ReturnsDully, ProxyStill
  <1>5. CASE proxy_on_underlying_io_open_complete_late
    <2>1. Running("proxy", "on_io_open_complete") /\ proxy_state # "OPENING_UNDERLYING_IO"
      BY <1>5 DEF proxy_on_underlying_io_open_complete_late
    <2> QED
      BY <1>1, <2>1, ProxyRuns DEF ProxyInv
  <1>6. CASE connect_request_sent
    <2>1. Head(stack).fn = "connect_request_sent"
      BY <1>6 DEF connect_request_sent, Running
    <2>2. CASE Top.ret # 0
      BY <1>1, <1>6, <2>1, <2>2, ClosesAndReports, ProxyStill DEF connect_request_sent
    <2>3. CASE Top.ret = 0
      <3>1. Pop /\ UNCHANGED proxy_state
        BY <1>6, <2>3 DEF connect_request_sent
      <3> QED
        BY <1>1, <1>2, <2>1, <3>1, ReturnsDully, ProxyStill
    <2> QED
      BY <2>2, <2>3
  <1>7. CASE proxy_on_underlying_io_error
    <2>1. Head(stack).fn = "on_io_error"
      BY <1>7 DEF proxy_on_underlying_io_error, Running
    <2>2. CASE close_and_report("ERROR")
      BY <1>1, <2>1, <2>2, ClosesAndReports, ProxyStill
    <2>3. CASE proxy_state = "OPEN" /\ ProxyState("ERROR") /\ Goto(<<on_io_error("proxy")>>)
      <3>1. IsFrame(on_io_error("proxy")) /\ Dull(on_io_error("proxy"))
        BY CallbackFrames, DullFrames
      <3> QED
        BY <1>1, <2>1, <2>3, <3>1, Goes1, ProxyStill DEF ProxyState
    <2>4. CASE Pop /\ UNCHANGED proxy_state
      BY <1>1, <1>2, <2>1, <2>4, ReturnsDully, ProxyStill
    <2> QED
      BY <1>7, <2>2, <2>3, <2>4 DEF proxy_on_underlying_io_error
  <1> QED
    BY <1>3, <1>4, <1>5, <1>6, <1>7

\* closing, sending and the pump
LEMMA ProxyServes ==
    ASSUME ProxyClient, ProxyInv, ProxyInv', TunnelInv, UNCHANGED <<sockVars, clientVars>>,
           \/ http_proxy_io_close \/ proxy_xio_close_returned \/ proxy_on_underlying_io_close_complete
           \/ http_proxy_io_send \/ http_proxy_io_dowork
    PROVE  TunnelInv'
  <1>1. /\ stack # <<>> /\ Head(stack).at = "proxy" /\ ~Opening(stack) /\ Dulls
        /\ Head(stack).fn \in {"close", "xio_close_returned", "on_io_close_complete", "send", "dowork"}
        /\ UNCHANGED receive_buffer
    BY DEF http_proxy_io_close, proxy_xio_close_returned, proxy_on_underlying_io_close_complete,
           http_proxy_io_send, http_proxy_io_dowork, Running, Opening, Is, proxyVars, Dulls, Dull
  <1>2. ASSUME UNCHANGED proxy_state, Pop \/ Goto(<<>>) \/ \E v : Return(v)
        PROVE  TunnelInv'
    BY <1>1, <1>2, ReturnsDully, ProxyStill
  <1>3. CASE http_proxy_io_close
    <2>1. CASE proxy_state \in {"CLOSED", "CLOSING"} /\ Return(1) /\ UNCHANGED proxy_state
      BY <1>2, <2>1
    <2>2. CASE proxy_state \in ProxyOpening
      <3> DEFINE a == xio_close("proxy", "NULL")
                 b == on_io_open_complete("proxy", "CANCELLED")
                 c == ReturnFrame("proxy", 0)
      <3>1. IsFrame(a) /\ IsFrame(b) /\ IsFrame(c) /\ Dull(a)
        <4>1. /\ Made(a, "socket", "close", "NULL", 0) /\ Made(c, "proxy", "return", "", 0)
              /\ Made(b, "uws", "on_io_open_complete", "CANCELLED", 0)
          BY CallFrames, CallbackFrames, MadeReturn
        <4> HIDE DEF a, b, c
        <4> QED
          BY <4>1 DEF Made, Dull
      <3>2. proxy_state' = "CLOSED" /\ Goto(<<a, b, c>>)
        BY <1>3, <2>2 DEF http_proxy_io_close, ProxyState, ProxyOpening
      <3> HIDE DEF a, b, c
      <3> QED
        BY <1>1, <3>1, <3>2, Goes3, ProxyStill
    <2>3. CASE proxy_state \in {"OPEN", "ERROR"}
      <3> DEFINE a == xio_close("proxy", "close_complete")
                 b == MkFrame("proxy", "xio_close_returned", proxy_state, 0, <<>>)
      <3>1. IsFrame(a) /\ IsFrame(b) /\ Dull(a)
        <4>1. /\ Made(a, "socket", "close", "close_complete", 0)
              /\ Made(b, "proxy", "xio_close_returned", proxy_state, 0)
          BY CallFrames, MadeFrame
        <4> HIDE DEF a, b
        <4> QED
          BY <4>1 DEF Made, Dull
      <3>2. proxy_state' = "CLOSING" /\ Goto(<<a, b>>)
        BY <1>3, <2>3 DEF http_proxy_io_close, ProxyState, ProxyOpening
      <3> HIDE DEF a, b
      <3> QED
        BY <1>1, <3>1, <3>2, Goes2, ProxyStill
    <2> QED
      BY <1>3, <2>1, <2>2, <2>3 DEF http_proxy_io_close
  <1>4. CASE proxy_xio_close_returned
    <2>1. Running("proxy", "xio_close_returned")
      BY <1>4 DEF proxy_xio_close_returned
    <2>2. Head(stack).ret = 0
      BY <1>1, <2>1, ProxyRuns DEF ProxyInv
    <2>3. UNCHANGED proxy_state /\ \E v : Return(v)
      BY <1>4, <2>2 DEF proxy_xio_close_returned, Top, ProxyState
    <2> QED
      BY <1>2, <2>3
  <1>5. CASE proxy_on_underlying_io_close_complete
    <2>1. Running("proxy", "on_io_close_complete")
      BY <1>5 DEF proxy_on_underlying_io_close_complete
    <2>2. proxy_state' = "CLOSED"
      BY <1>1, <1>5, <2>1, ProxyRuns DEF ProxyInv, Closing, proxy_on_underlying_io_close_complete, ProxyState
    <2>3. Goto(<<>>) \/ Goto(<<on_io_close_complete("proxy")>>)
      BY <1>5 DEF proxy_on_underlying_io_close_complete
    <2>4. IsFrame(on_io_close_complete("proxy")) /\ Dull(on_io_close_complete("proxy"))
      BY CallbackFrames, DullFrames
    <2>5. Dulls'
      BY <1>1, <2>3, <2>4, Goes1, ReturnsDully
    <2> QED
      BY <1>1, <2>2, <2>5, ProxyStill
  <1>6. CASE http_proxy_io_send
    <2>1. UNCHANGED proxy_state
      BY <1>6 DEF http_proxy_io_send, proxyVars
    <2>2. CASE proxy_state # "OPEN"
      BY <1>2, <1>6, <2>1, <2>2 DEF http_proxy_io_send
    <2>3. CASE proxy_state = "OPEN"
      <3> DEFINE a == xio_send("proxy", Top.arg, Top.n)
      <3>1. IsFrame(a) /\ Dull(a)
        <4>1. Made(a, "socket", "send", Top.arg, Top.n)
          BY CallFrames
        <4> HIDE DEF a
        <4> QED
          BY <4>1 DEF Made, Dull
      <3>2. Goto(<<a>>)
        BY <1>6, <2>3 DEF http_proxy_io_send
      <3> HIDE DEF a
      <3> QED
        BY <1>1, <2>1, <3>1, <3>2, Goes1, ProxyStill
    <2> QED
      BY <2>2, <2>3
  <1>7. CASE http_proxy_io_dowork
    <2>1. UNCHANGED proxy_state
      BY <1>7 DEF http_proxy_io_dowork, proxyVars
    <2>2. Goto(<<>>) \/ Goto(<<xio_dowork("proxy")>>)
      BY <1>7 DEF http_proxy_io_dowork
    <2>3. IsFrame(xio_dowork("proxy")) /\ Dull(xio_dowork("proxy"))
      BY CallFrames, DullFrames
    <2> QED
      BY <1>1, <1>2, <2>1, <2>2, <2>3, Goes1, ProxyStill
  <1> QED
    BY <1>3, <1>4, <1>5, <1>6, <1>7

\* The request goes out before anything was read.
LEMMA RequestGoesOut ==
    ASSUME ProxyClient, ProxyInv, ProxyInv', TunnelInv, UNCHANGED <<sockVars, clientVars>>,
           proxy_on_underlying_io_open_complete
    PROVE  TunnelInv'
  <1>1. /\ stack # <<>> /\ Running("proxy", "on_io_open_complete") /\ UNCHANGED receive_buffer
        /\ proxy_state = "OPENING_UNDERLYING_IO" /\ Head(stack).fn = "on_io_open_complete"
        /\ Head(stack).at = "proxy"
    BY DEF proxy_on_underlying_io_open_complete, Running
  <1>2. CASE \E r : close_and_report(r)
    BY <1>1, <1>2, ClosesAndReports, ProxyStill
  <1>3. CASE /\ Top.arg = "OK" /\ ProxyState("WAITING_FOR_CONNECT_RESPONSE")
             /\ Goto(<<xio_send("proxy", "unchecked_on_send_complete", 0), Proxy("connect_request_sent")>>)
    <2>1. receive_buffer = <<>> /\ phase = "opening"
      BY <1>1, ProxyRuns DEF ProxyInv, Calm, Settled
    <2>2. UNCHANGED <<script, received, receive_buffer, delivered, alive, phase>> /\ alive = TRUE
      BY <1>1, Exists DEF sockVars, clientVars
    <2>3. received = 0
      BY <1>1, <1>3, <2>2 DEF TunnelInv, Underway, Connected, Is, Top
    <2>4. Dulls'
      <3> DEFINE a == xio_send("proxy", "unchecked_on_send_complete", 0)
                 b == Proxy("connect_request_sent")
      <3>1. IsFrame(a) /\ IsFrame(b) /\ Dull(a)
        <4>1. /\ Made(a, "socket", "send", "unchecked_on_send_complete", 0)
              /\ Made(b, "proxy", "connect_request_sent", "", 0)
          BY CallFrames, OtherFrames
        <4> HIDE DEF a, b
        <4> QED
          BY <4>1 DEF Made, Dull
      <3>2. Goto(<<a, b>>)
        BY <1>3
      <3> HIDE DEF a, b
      <3> QED
        BY <1>1, <3>1, <3>2, Goes2
    <2>5. proxy_state' = "WAITING_FOR_CONNECT_RESPONSE"
      BY <1>3 DEF ProxyState
    <2>6. Arriving' = <<>>
      <3>1. (ProxyInv /\ Dulls => Idle)'
        BY NothingMoves, PTL
      <3> QED
        BY <2>4, <3>1 DEF Idle
    <2>7. Stored'
      BY <2>1, <2>2, <2>5, StoredKept DEF TunnelInv, Stored
    <2>8. Lifetime'
      BY <2>2, <2>4 DEF Lifetime, Dulls, Dull
    <2>9. Underway'
      <3>1. From(receive_buffer, 0)' /\ From(Arriving, Len(receive_buffer))'
        BY <2>1, <2>2, <2>6 DEF From
      <3>2. Len(receive_buffer') + Len(Arriving') = received'
        BY <2>1, <2>2, <2>3, <2>6
      <3> QED
        BY <2>5, <3>1, <3>2 DEF Underway
    <2> QED
      BY <2>7, <2>8, <2>9 DEF TunnelInv
  <1> QED
    BY <1>2, <1>3 DEF proxy_on_underlying_io_open_complete

\* the size of the answer is a number, and what is kept and handed up has a length
LEMMA Sizes ==
    ASSUME Stored
    PROVE  /\ ResponseSize \in Nat /\ Len(delivered) \in Nat /\ Len(receive_buffer) \in Nat
           /\ received \in Nat
  <1>1. script \in Seq(Unit) /\ receive_buffer \in Seq(Unit) /\ delivered \in Seq(Unit) /\ received \in Nat
    BY DEF Stored, From
  <1>2. CASE script # <<>>
    <2>1. Head(script) \in UnitType
      BY <1>1, <1>2, UnitAssumption
    <2> QED
      BY <1>1, <1>2, <2>1 DEF ResponseSize, UnitType
  <1> QED
    BY <1>1, <1>2 DEF ResponseSize

\* What the socket hands over is kept while the response is awaited, and handed on once the
\* tunnel is open.
LEMMA BytesMove ==
    ASSUME ProxyClient, ProxyInv, ProxyInv', TunnelInv, UNCHANGED <<sockVars, clientVars>>,
           proxy_on_underlying_io_bytes_received
    PROVE  TunnelInv'
  <1>1. /\ stack # <<>> /\ Is(Head(stack), "proxy", "on_bytes_received") /\ ~Opening(stack)
        /\ IsStack(stack) /\ Place(stack)
    BY DEF proxy_on_underlying_io_bytes_received, Running, Is, Opening, ProxyInv
  <1>2. /\ UNCHANGED <<script, received, delivered, alive, phase>> /\ alive = TRUE
        /\ Head(stack).fn # "destroy"
    BY <1>1, Exists DEF sockVars, clientVars, Is
  <1> DEFINE d == Head(stack).data
  <1>3. Arriving = d /\ Handing = <<>> /\ (Tail(stack) # <<>> => Dull(Head(Tail(stack))))
    <2>1. Tail(stack) # <<>> => Dull(Head(Tail(stack)))
      BY <1>1, WhatWaits
    <2> QED
      BY <1>1, <2>1 DEF Arriving, Handing, Is, Dull
  <1>4. Stored
    BY DEF TunnelInv
  <1>5. \A s, p : From(s, p)' <=> From(s, p)
    BY <1>2 DEF From
  <1>6. ResponseSize' = ResponseSize
    BY <1>2 DEF ResponseSize
  <1>7. /\ ResponseSize \in Nat /\ Len(delivered) \in Nat /\ Len(receive_buffer) \in Nat
        /\ received \in Nat
    BY <1>4, Sizes
  <1> HIDE DEF d
  <1>8. ASSUME proxy_state = "WAITING_FOR_CONNECT_RESPONSE", receive_buffer' = receive_buffer \o Top.data,
               Goto(<<Proxy("connect_response")>>), UNCHANGED proxy_state
        PROVE  TunnelInv'
    <2>1. Dulls'
      <3>1. Made(Proxy("connect_response"), "proxy", "connect_response", "", 0)
        BY OtherFrames
      <3>2. IsFrame(Proxy("connect_response")) /\ Dull(Proxy("connect_response"))
        BY <3>1 DEF Made, Dull
      <3> QED
        BY <1>1, <1>8, <3>2, Goes1
    <2>2. Arriving' = <<>>
      <3>1. (ProxyInv /\ Dulls => Idle)'
        BY NothingMoves, PTL
      <3> QED
        BY <2>1, <3>1 DEF Idle
    <2>3. /\ From(receive_buffer, 0) /\ From(d, Len(receive_buffer))
          /\ Len(receive_buffer) + Len(d) = received
      BY <1>2, <1>3, <1>8 DEF TunnelInv, Underway
    <2>4. From(receive_buffer \o d, 0) /\ Len(receive_buffer \o d) = received
      <3>1. From(d, 0 + Len(receive_buffer))
        BY <1>7, <2>3
      <3> QED
        BY <2>3, <3>1, FromJoined
    <2>5. receive_buffer' = receive_buffer \o d
      BY <1>8 DEF Top, d
    <2>6. Stored'
      <3>1. receive_buffer' \in Seq(Unit)
        BY <2>4, <2>5 DEF From
      <3> QED
        BY <1>2, <1>4, <1>8, <3>1, StoredKept
    <2>7. Lifetime'
      BY <1>2, <2>1 DEF Lifetime, Dulls, Dull
    <2>8. Underway'
      <3>1. From(receive_buffer, 0)' /\ From(Arriving, Len(receive_buffer))'
        BY <1>5, <2>2, <2>4, <2>5, NothingFrom
      <3>2. Len(receive_buffer') + Len(Arriving') = received'
        BY <1>2, <1>7, <2>2, <2>4, <2>5
      <3> QED
        BY <1>8, <3>1, <3>2 DEF Underway
    <2> QED
      BY <2>6, <2>7, <2>8 DEF TunnelInv
  <1>9. ASSUME proxy_state = "WAITING_FOR_CONNECT_RESPONSE", ProxyState("CLOSED"), UNCHANGED receive_buffer,
               Goto(<<xio_close("proxy", "NULL"), on_io_open_complete("proxy", "ERROR"),
                      Proxy("connect_response")>>)
        PROVE  TunnelInv'
    <2> DEFINE a == xio_close("proxy", "NULL")
               b == on_io_open_complete("proxy", "ERROR")
               c == Proxy("connect_response")
    <2>1. /\ Made(a, "socket", "close", "NULL", 0) /\ Made(c, "proxy", "connect_response", "", 0)
          /\ Made(b, "uws", "on_io_open_complete", "ERROR", 0)
      BY CallFrames, CallbackFrames, OtherFrames
    <2>2. Goto(<<a, b, c>>)
      BY <1>9
    <2> HIDE DEF a, b, c
    <2>3. IsFrame(a) /\ IsFrame(b) /\ IsFrame(c) /\ Dull(a)
      BY <2>1 DEF Made, Dull
    <2>4. Dulls'
      BY <1>1, <2>2, <2>3, Goes3
    <2> QED
      BY <1>1, <1>2, <1>9, <2>4, ProxyStill DEF ProxyState
  <1>10. ASSUME close_and_report("ERROR"), UNCHANGED receive_buffer
         PROVE  TunnelInv'
    BY <1>1, <1>2, <1>10, ClosesAndReports, ProxyStill
  <1>11. ASSUME proxy_state = "OPEN", Goto(<<on_bytes_received("proxy", Top.data)>>),
                UNCHANGED <<proxy_state, receive_buffer>>
         PROVE  TunnelInv'
    <2> DEFINE a == on_bytes_received("proxy", d)
    <2>1. a.data = d
      BY DEF on_bytes_received, MkFrame
    <2>2. Made(a, "uws", "on_bytes_received", "", 0)
      BY CallbackFrames
    <2>3. Goto(<<a>>)
      BY <1>11 DEF Top, d
    <2> HIDE DEF a
    <2>4. stack' # <<>> /\ Head(stack') = a
      BY <1>1, <2>2, <2>3, Goto1 DEF Made
    <2>5. Handing' = d /\ Arriving' = <<>>
      BY <2>1, <2>2, <2>4 DEF Handing, Arriving, Is, Made
    <2>6. Stored'
      BY <1>2, <1>4, <1>11, StoredKept DEF Stored
    <2>7. Lifetime'
      BY <1>2, <2>2, <2>4 DEF Lifetime, Made
    <2>8. /\ From(d, ResponseSize + Len(delivered) + Len(<<>>)) /\ d \in Seq(Unit)
          /\ ResponseSize + Len(delivered) + Len(<<>>) + Len(d) = received
      BY <1>2, <1>3, <1>11 DEF TunnelInv, Underway, From
    <2>9. ResponseSize + Len(delivered) + Len(<<>>) = ResponseSize + Len(delivered)
      BY <1>7
    <2>10. Underway'
      <3>1. From(Handing, ResponseSize + Len(delivered))'
        BY <1>2, <1>5, <1>6, <2>5, <2>8, <2>9
      <3>2. From(Arriving, ResponseSize + Len(delivered) + Len(Handing))'
        BY <1>5, <2>5, NothingFrom
      <3>3. (ResponseSize + Len(delivered) + Len(Handing) + Len(Arriving) = received)'
        BY <1>2, <1>6, <1>7, <2>5, <2>8, <2>9
      <3> QED
        BY <1>11, <3>1, <3>2, <3>3 DEF Underway
    <2> QED
      BY <2>6, <2>7, <2>10 DEF TunnelInv
  <1>12. ASSUME proxy_state \in {"CLOSED", "CLOSING", "ERROR"}, Pop, UNCHANGED <<proxy_state, receive_buffer>>
         PROVE  TunnelInv'
    BY <1>1, <1>2, <1>12, ReturnsDully, ProxyStill
  <1> QED
    BY <1>8, <1>9, <1>10, <1>11, <1>12 DEF proxy_on_underlying_io_bytes_received

\* A response of success opens the tunnel, and what came behind it is handed on.
LEMMA ResponseOpens ==
    ASSUME ProxyClient, ProxyInv, ProxyInv', TunnelInv, UNCHANGED <<sockVars, clientVars>>,
           connect_response
    PROVE  TunnelInv'
  <1>1. /\ stack # <<>> /\ Is(Head(stack), "proxy", "connect_response") /\ Dulls /\ ~Opening(stack)
        /\ Responding(stack) /\ UNCHANGED receive_buffer /\ IsStack(stack) /\ Head(stack).fn # "destroy"
    BY ProxyRuns DEF connect_response, Running, Is, Opening, ProxyInv, Dulls, Dull
  <1>2. CASE Pop /\ UNCHANGED proxy_state
    BY <1>1, <1>2, ReturnsDully, ProxyStill
  <1>3. CASE close_and_report("ERROR")
    BY <1>1, <1>3, ClosesAndReports, ProxyStill
  <1>4. CASE /\ ResponseEnds # {} /\ ParseHttpResponse = "200" /\ ProxyState("OPEN")
             /\ Goto(<<on_io_open_complete("proxy", "OK")>>
                     \o (IF Remaining = <<>> THEN <<>> ELSE <<on_bytes_received("proxy", Remaining)>>))
    <2>1. proxy_state = "WAITING_FOR_CONNECT_RESPONSE" /\ phase = "opening" /\ proxy_state' = "OPEN"
      BY <1>1, <1>4 DEF Responding, ProxyState
    <2>2. /\ UNCHANGED <<script, received, delivered, receive_buffer, alive, phase>> /\ alive = TRUE
      BY <1>1, Exists DEF sockVars, clientVars
    <2>3. Stored /\ delivered = <<>>
      BY <2>1 DEF TunnelInv, Stored
    <2>4. From(receive_buffer, 0) /\ Len(receive_buffer) = received
      <3>1. Arriving = <<>>
        BY <1>1, NothingMoves DEF Idle
      <3>2. From(receive_buffer, 0) /\ Len(receive_buffer) + Len(<<>>) = received
        BY <2>1, <2>2, <3>1 DEF TunnelInv, Underway
      <3> QED
        BY <2>3, <3>2, Sizes
    <2>5. /\ Granted /\ ResponseSize \in Nat /\ received \in Nat
          /\ From(Remaining, ResponseSize) /\ Len(Remaining) = received - ResponseSize
      BY <1>4, <2>3, <2>4, ResponseIsWhole DEF Stored, Granted
    <2>6. UNCHANGED <<ResponseSize, Granted>> /\ \A s, p : From(s, p)' <=> From(s, p)
      BY <2>2 DEF ResponseSize, Granted, From
    <2> DEFINE a == on_io_open_complete("proxy", "OK")
               b == on_bytes_received("proxy", Remaining)
    <2>7. Made(a, "uws", "on_io_open_complete", "OK", 0)
      BY CallbackFrames
    <2>8. Made(b, "uws", "on_bytes_received", "", 0)
      BY CallbackFrames
    <2>9. b.data = Remaining
      BY DEF on_bytes_received, MkFrame
    <2>10. /\ Remaining = <<>> => Goto(<<a>>)
           /\ Remaining # <<>> => Goto(<<a, b>>)
      <3>1. CASE Remaining = <<>>
        <4>1. <<a>> \in Seq({a}) /\ \A s \in Seq({a}) : s \o <<>> = s
          OBVIOUS
        <4>2. Goto(<<a>> \o <<>>)
          BY <1>4, <3>1
        <4> QED
          BY <3>1, <4>1, <4>2
      <3>2. CASE Remaining # <<>>
        <4>1. Goto(<<a>> \o <<b>>)
          BY <1>4, <3>2
        <4> HIDE DEF a, b
        <4> QED
          BY <3>2, <4>1, PairOf
      <3> QED
        BY <3>1, <3>2
    <2> HIDE DEF a, b
    <2>11. stack' # <<>> /\ Head(stack') = a /\ Handing' = Remaining
      <3>1. CASE Remaining = <<>>
        <4>1. stack' # <<>> /\ Head(stack') = a /\ Tail(stack') = Tail(stack)
          BY <1>1, <2>7, <2>10, <3>1, Goto1 DEF Made
        <4>2. Tail(stack) # <<>> => Dull(Head(Tail(stack)))
          BY <1>1, WhatWaits DEF ProxyInv
        <4> QED
          BY <2>7, <3>1, <4>1, <4>2 DEF Handing, Is, Made, Dull
      <3>2. CASE Remaining # <<>>
        <4>1. stack' # <<>> /\ Head(stack') = a /\ Tail(stack') # <<>> /\ Head(Tail(stack')) = b
          BY <1>1, <2>7, <2>8, <2>10, <3>2, Goto2 DEF Made
        <4> QED
          BY <2>7, <2>8, <2>9, <4>1 DEF Handing, Is, Made
      <3> QED
        BY <3>1, <3>2
    <2>12. Arriving' = <<>>
      BY <2>7, <2>11 DEF Arriving, Is, Made
    <2>13. Stored'
      <3>1. From(delivered, ResponseSize)'
        BY <2>2, <2>3, <2>6 DEF Stored
      <3>2. AnswersFirst(script)'
        BY <2>2, <2>3 DEF Stored, AnswersFirst
      <3> QED
        BY <2>1, <2>2, <2>3, <2>5, <2>6, <3>1, <3>2 DEF Stored
    <2>14. Lifetime'
      BY <2>2, <2>7, <2>11 DEF Lifetime, Made
    <2>15. Underway'
      <3>1. ResponseSize + Len(delivered) = ResponseSize
        BY <2>3, <2>5
      <3>2. From(Handing, ResponseSize + Len(delivered))'
        BY <2>2, <2>5, <2>6, <2>11, <3>1
      <3>3. From(Arriving, ResponseSize + Len(delivered) + Len(Handing))'
        BY <2>6, <2>12, NothingFrom
      <3>4. (ResponseSize + Len(delivered) + Len(Handing) + Len(Arriving) = received)'
        BY <2>2, <2>5, <2>6, <2>11, <2>12, <3>1
      <3> QED
        BY <2>1, <3>2, <3>3, <3>4 DEF Underway
    <2> QED
      BY <2>13, <2>14, <2>15 DEF TunnelInv
  <1> QED
    BY <1>2, <1>3, <1>4 DEF connect_response

\* What was received is freed with the layer.
LEMMA ProxyDestroyed ==
    ASSUME ProxyClient, ProxyInv, TunnelInv, http_proxy_io_destroy, UNCHANGED <<sockVars, clientVars>>
    PROVE  TunnelInv'
  <1>1. /\ UNCHANGED <<proxy_state, phase, delivered, alive, script, received>>
        /\ receive_buffer' = <<>> /\ stack # <<>> /\ IsStack(stack)
    BY DEF sockVars, clientVars, http_proxy_io_destroy, Running, ProxyInv
  <1>2. alive = FALSE /\ Tail(stack) = <<>>
    BY DEF http_proxy_io_destroy, Running, TunnelInv, Lifetime
  <1>3. Stored'
    BY <1>1, StoredKept DEF TunnelInv
  <1>4. Made(xio_destroy("proxy"), "socket", "destroy", "", 0) /\ Goto(<<xio_destroy("proxy")>>)
    BY CallFrames DEF http_proxy_io_destroy
  <1>5. stack' # <<>> /\ Head(stack').fn = "destroy" /\ Tail(stack') = <<>>
    <2> DEFINE a == xio_destroy("proxy")
    <2> HIDE DEF a
    <2>1. Made(a, "socket", "destroy", "", 0) /\ Goto(<<a>>)
      BY <1>4 DEF a
    <2> QED
      BY <1>1, <1>2, <2>1, Goto1 DEF Made
  <1> QED
    BY <1>1, <1>2, <1>3, <1>5 DEF TunnelInv, Lifetime

\* Whatever the proxy layer does.
LEMMA TunnelByProxy ==
    ASSUME ProxyClient, ProxyInv, ProxyInv', TunnelInv, ProxyNext, UNCHANGED <<sockVars, clientVars>>
    PROVE  TunnelInv'
  BY ProxyControls, ProxyServes, RequestGoesOut, BytesMove, ResponseOpens, ProxyDestroyed DEF ProxyNext

-----------------------------------------------------------------------------
(* The steps of the client.                                                 *)

\* The client goes on without being handed bytes.
LEMMA ClientStill ==
    ASSUME ProxyInv, ProxyInv', TunnelInv, UNCHANGED <<sockVars, proxyVars, delivered, alive>>,
           alive = TRUE, phase' = "opening" => phase = "opening",
           phase' = "open" => phase = "open" \/ proxy_state = "OPEN",
           stack' = <<>> \/ Head(stack').fn # "destroy",
           proxy_state \in {"CLOSED", "CLOSING", "ERROR"} \/ ((Dulls \/ Idle) /\ Dulls')
    PROVE  TunnelInv'
  <1>1. UNCHANGED <<script, received, receive_buffer, delivered, alive, proxy_state>>
    BY DEF sockVars, proxyVars
  <1> QED
    BY <1>1, Still

\* the frame of a callback of the client
LEMMA InCallbackFrame ==
    ASSUME ProxyInv, stack # <<>>, InCallback
    PROVE  /\ stack' # <<>> /\ Tail(stack') = Tail(stack)
           /\ Made(Head(stack'), "uws", "in_callback", Head(stack).fn, 0)
           /\ Head(stack).fn # "on_io_open_complete" => Dulls'
  <1>1. /\ stack' # <<>> /\ Tail(stack') = Tail(stack)
        /\ Made(Head(stack'), "uws", "in_callback", Head(stack).fn, 0)
    BY CallbackParts DEF ProxyInv
  <1> QED
    BY <1>1 DEF Dulls, Dull, Made

\* the results of calls, and the callbacks that carry no bytes
LEMMA ClientHears ==
    ASSUME ProxyInv, ProxyInv', TunnelInv, UNCHANGED <<sockVars, proxyVars>>,
           Returned \/ OnError \/ OnCloseComplete \/ OnSendComplete
    PROVE  TunnelInv'
  <1>1. /\ stack # <<>> /\ Head(stack).at = "uws" /\ ~Opening(stack) /\ Dulls /\ IsStack(stack)
        /\ Head(stack).fn \in {"returned", "on_io_error", "on_io_close_complete",
                               "on_underlying_io_send_complete"}
        /\ UNCHANGED <<delivered, alive>>
    BY DEF Returned, OnError, OnCloseComplete, OnSendComplete, Running, Opening, Is, Dulls, Dull, ProxyInv
  <1>2. alive = TRUE
    BY <1>1, Exists
  <1>3. Dulls'
    <2>1. CASE Returned
      BY <1>1, <2>1, ReturnsDully DEF Returned
    <2>2. CASE OnError \/ OnCloseComplete \/ OnSendComplete
      BY <1>1, <2>2, InCallbackFrame DEF OnError, OnCloseComplete, OnSendComplete
    <2> QED
      BY <2>1, <2>2
  <1>4. phase' = phase \/ phase' \in {"closed", "failed"}
    BY DEF Returned, OnError, OnCloseComplete, OnSendComplete
  <1>5. stack' = <<>> \/ Head(stack').fn # "destroy"
    BY <1>3 DEF Dulls, Dull
  <1>6. (phase' = "opening" => phase = "opening") /\ (phase' = "open" => phase = "open" \/ proxy_state = "OPEN")
    BY <1>4
  <1> QED
    BY <1>1, <1>2, <1>3, <1>5, <1>6, ClientStill

\* While the client is told that the tunnel is open, what came behind the response waits.
LEMMA HandedOn ==
    ASSUME ProxyInv, TunnelInv, UNCHANGED <<sockVars, proxyVars, delivered, alive>>,
           alive = TRUE, proxy_state = "OPEN", phase' = "open",
           Arriving' = Arriving, Handing' = Handing, stack' = <<>> \/ Head(stack').fn # "destroy"
    PROVE  TunnelInv'
  <1>1. UNCHANGED <<script, received, receive_buffer, delivered, alive, proxy_state>>
    BY DEF sockVars, proxyVars
  <1>2. Stored'
    BY <1>1, StoredKept DEF TunnelInv, Stored
  <1>3. Lifetime'
    BY <1>1 DEF Lifetime
  <1>4. UNCHANGED ResponseSize /\ \A s, p : From(s, p)' <=> From(s, p)
    BY <1>1 DEF ResponseSize, From
  <1>5. Underway'
    BY <1>1, <1>4 DEF Underway, TunnelInv
  <1> QED
    BY <1>2, <1>3, <1>5 DEF TunnelInv

\* The client is told of the open, or of its failure.
LEMMA TunnelReported ==
    ASSUME ProxyInv, ProxyInv', TunnelInv, UNCHANGED <<sockVars, proxyVars>>, OnOpenComplete
    PROVE  TunnelInv'
  <1>1. /\ stack # <<>> /\ Is(Head(stack), "uws", "on_io_open_complete") /\ Running("uws", "on_io_open_complete")
        /\ UNCHANGED <<delivered, alive>> /\ Head(stack).fn # "destroy"
        /\ phase' = IF Head(stack).arg = "OK" THEN "open" ELSE "closed"
    BY DEF OnOpenComplete, Running, Is, Top
  <1>2. alive = TRUE /\ (OpenFailing(stack) \/ Opening(stack))
    BY <1>1, Exists, ClientRuns DEF ProxyInv
  <1>3. /\ stack' # <<>> /\ Tail(stack') = Tail(stack)
        /\ Made(Head(stack'), "uws", "in_callback", "on_io_open_complete", 0)
    BY <1>1, InCallbackFrame DEF OnOpenComplete, Is
  <1>4. Head(stack').fn # "destroy"
    BY <1>3 DEF Made
  <1>5. CASE OpenFailing(stack)
    <2>1. proxy_state = "CLOSED" /\ phase' = "closed"
      BY <1>1, <1>5 DEF OpenFailing, Is, IsRefusal
    <2> QED
      BY <1>1, <1>2, <1>4, <2>1, ClientStill
  <1>6. CASE Opening(stack)
    <2>1. proxy_state = "OPEN" /\ phase' = "open"
      BY <1>1, <1>6 DEF Opening, Is
    <2>2. Arriving' = Arriving /\ Handing' = Handing
      BY <1>1, <1>3 DEF Arriving, Handing, Is, Made
    <2> QED
      BY <1>1, <1>2, <1>4, <2>1, <2>2, HandedOn
  <1> QED
    BY <1>2, <1>5, <1>6

\* A callback of the client returns, and what waited beneath it goes on.
LEMMA CallbackOver ==
    ASSUME ProxyInv, ProxyInv', TunnelInv, UNCHANGED <<sockVars, proxyVars>>, CallbackReturns
    PROVE  TunnelInv'
  <1>1. /\ stack # <<>> /\ Is(Head(stack), "uws", "in_callback") /\ Running("uws", "in_callback")
        /\ UNCHANGED <<delivered, alive, phase>> /\ Pop /\ IsStack(stack) /\ Head(stack).fn # "destroy"
    BY DEF CallbackReturns, Running, Is, clientVars, ProxyInv
  <1>2. alive = TRUE
    BY <1>1, Exists
  <1>3. CASE ~Opening(stack)
    <2>1. Dulls'
      BY <1>1, <1>3, ReturnsDully
    <2>2. Calm(stack) \/ OpenFailing(stack)
      BY <1>1, <1>3, ClientRuns DEF ProxyInv
    <2>3. stack' = <<>> \/ Head(stack').fn # "destroy"
      BY <2>1 DEF Dulls, Dull
    <2>4. CASE Calm(stack)
      <3>1. Tail(stack) # <<>> => Dull(Head(Tail(stack)))
        BY <1>1, <1>3, WhatWaits DEF ProxyInv
      <3>2. Idle
        BY <1>1, <3>1 DEF Idle, Arriving, Handing, Connected, Is, Dull
      <3> QED
        BY <1>1, <1>2, <2>1, <2>3, <3>2, ClientStill
    <2>5. CASE OpenFailing(stack)
      BY <1>1, <1>2, <2>3, <2>5, ClientStill DEF OpenFailing
    <2> QED
      BY <2>2, <2>4, <2>5
  <1>4. CASE Opening(stack)
    <2>1. /\ proxy_state = "OPEN" /\ phase = "open"
          /\ \/ AllResumable(Tail(stack), closeReports)
             \/ /\ Tail(stack) # <<>> /\ Is(Head(Tail(stack)), "uws", "on_bytes_received")
                /\ AllResumable(Tail(Tail(stack)), closeReports)
      BY <1>1, <1>4 DEF Opening, Is
    <2>2. stack' = Tail(stack) /\ IsStack(Tail(stack))
      BY <1>1, StackParts DEF Pop
    <2>3. Arriving = <<>>
      BY <1>1 DEF Arriving, Is
    <2>4. CASE AllResumable(Tail(stack), closeReports)
      <3>1. Tail(stack) # <<>> => Dull(Head(Tail(stack)))
        BY <2>2, <2>4, PartsResumable, ResumableIsDull
      <3>2. Handing = <<>>
        BY <1>1, <3>1 DEF Handing, Is, Dull
      <3>3. Dulls'
        BY <2>2, <3>1 DEF Dulls
      <3>4. Arriving' = <<>> /\ Handing' = <<>>
        <4>1. (ProxyInv /\ Dulls => Idle)'
          BY NothingMoves, PTL
        <4> QED
          BY <3>3, <4>1 DEF Idle
      <3>5. stack' = <<>> \/ Head(stack').fn # "destroy"
        BY <3>3 DEF Dulls, Dull
      <3> QED
        BY <1>1, <1>2, <2>1, <2>3, <3>2, <3>4, <3>5, HandedOn
    <2>5. CASE Tail(stack) # <<>> /\ Is(Head(Tail(stack)), "uws", "on_bytes_received")
      <3>1. Handing' = Handing /\ Arriving' = <<>> /\ Head(stack').fn # "destroy"
        BY <1>1, <2>2, <2>5 DEF Handing, Arriving, Is
      <3> QED
        BY <1>1, <1>2, <2>1, <2>3, <3>1, HandedOn
    <2> QED
      BY <2>1, <2>4, <2>5
  <1> QED
    BY <1>3, <1>4

\* What is handed up is what the peer sent next.
LEMMA BytesHandedUp ==
    ASSUME ProxyInv, ProxyInv', TunnelInv, UNCHANGED <<sockVars, proxyVars>>, OnBytesReceived
    PROVE  TunnelInv'
  <1>1. /\ stack # <<>> /\ Is(Head(stack), "uws", "on_bytes_received") /\ Running("uws", "on_bytes_received")
        /\ UNCHANGED <<phase, alive>> /\ Head(stack).fn # "destroy"
        /\ delivered' = delivered \o Head(stack).data
    BY DEF OnBytesReceived, Running, Is, Top
  <1>2. UNCHANGED <<script, received, receive_buffer, proxy_state>> /\ alive = TRUE
    BY <1>1, Exists DEF sockVars, proxyVars
  <1>3. proxy_state = "OPEN" /\ phase = "open"
    BY <1>1, ClientRuns DEF ProxyInv, Telling, Is
  <1>4. Dulls'
    BY <1>1, InCallbackFrame DEF OnBytesReceived, Is
  <1>5. Arriving' = <<>> /\ Handing' = <<>>
    <2>1. (ProxyInv /\ Dulls => Idle)'
      BY NothingMoves, PTL
    <2> QED
      BY <1>4, <2>1 DEF Idle
  <1> DEFINE d == Head(stack).data
  <1>6. Arriving = <<>> /\ Handing = d
    BY <1>1 DEF Arriving, Handing, Is
  <1> HIDE DEF d
  <1>7. /\ From(d, ResponseSize + Len(delivered))
        /\ ResponseSize + Len(delivered) + Len(d) + Len(<<>>) = received
        /\ From(delivered, ResponseSize) /\ Stored
    BY <1>2, <1>3, <1>6 DEF TunnelInv, Underway, Stored
  <1>8. ResponseSize \in Nat /\ Len(delivered) \in Nat /\ Len(d) \in Nat /\ received \in Nat
    BY <1>7, Sizes DEF From
  <1>9. delivered' = delivered \o d /\ From(delivered \o d, ResponseSize)
        /\ Len(delivered \o d) = Len(delivered) + Len(d)
    BY <1>1, <1>7, <1>8, FromJoined DEF d
  <1>10. UNCHANGED <<ResponseSize, Granted>> /\ \A s, p : From(s, p)' <=> From(s, p)
    BY <1>2 DEF ResponseSize, Granted, From
  <1>11. (ResponseSize + Len(delivered))' = received
    BY <1>7, <1>8, <1>9, <1>10
  <1>12. Stored'
    <2>1. From(delivered, ResponseSize)'
      BY <1>9, <1>10
    <2>2. (ResponseSize + Len(delivered) <= received)'
      BY <1>2, <1>8, <1>11
    <2>3. AnswersFirst(script)'
      BY <1>2, <1>7 DEF Stored, AnswersFirst
    <2>4. (phase = "opening" => delivered = <<>>)'
      BY <1>1, <1>3
    <2>5. (phase = "open" \/ proxy_state = "OPEN" => Granted)'
      BY <1>3, <1>7, <1>10 DEF Stored
    <2> QED
      BY <1>2, <1>7, <2>1, <2>2, <2>3, <2>4, <2>5 DEF Stored
  <1>13. Lifetime'
    BY <1>1, <1>2, <1>4 DEF Lifetime, Dulls, Dull
  <1>14. Underway'
    <2>1. From(Handing, ResponseSize + Len(delivered))'
      BY <1>5, <1>10, NothingFrom
    <2>2. From(Arriving, ResponseSize + Len(delivered) + Len(Handing))'
      BY <1>5, <1>10, NothingFrom
    <2>3. (ResponseSize + Len(delivered) + Len(Handing) + Len(Arriving) = received)'
      BY <1>2, <1>5, <1>8, <1>11
    <2> QED
      BY <1>2, <1>3, <2>1, <2>2, <2>3 DEF Underway
  <1> QED
    BY <1>12, <1>13, <1>14 DEF TunnelInv

\* Whatever the client hears.
LEMMA TunnelByClient ==
    ASSUME ProxyInv, ProxyInv', TunnelInv, UNCHANGED <<sockVars, proxyVars>>, ClientSteps
    PROVE  TunnelInv'
  BY ClientHears, TunnelReported, CallbackOver, BytesHandedUp DEF ClientSteps

\* The client makes a call that leaves the session as it was.
LEMMA CallStill ==
    ASSUME ProxyClient, ProxyInv, ProxyInv', TunnelInv, NEW c, MayCall(c),
           UNCHANGED <<sockVars, proxyVars, delivered, alive, phase>>, Dulls'
    PROVE  TunnelInv'
  <1>1. alive = TRUE
    BY DEF MayCall, TunnelInv, Lifetime
  <1>2. Dulls
    BY DEF MayCall, Running, Top, ProxyClient, Dulls, Dull
  <1>3. stack' = <<>> \/ Head(stack').fn # "destroy"
    BY DEF Dulls, Dull
  <1> QED
    BY <1>1, <1>2, <1>3, ClientStill

\* the frame of a call
LEMMA CallsDully ==
    ASSUME ProxyClient, ProxyInv, NEW c0, MayCall(c0), NEW f, NEW c, NEW n, IsFrame(f), Dull(f), Call(f, c, n)
    PROVE  Dulls'
  BY MayCallWhen, CallParts DEF Dulls

\* A new session has been handed nothing.
LEMMA SessionBegins ==
    ASSUME ProxyClient, ProxyInv, ProxyInv', TunnelInv, UNCHANGED <<sockVars, proxyVars>>, CallOpen
    PROVE  TunnelInv'
  <1>1. MayCall("open") /\ UNCHANGED alive /\ alive = TRUE
    BY DEF CallOpen, MayCall, TunnelInv, Lifetime
  <1>2. UNCHANGED <<script, received, receive_buffer, proxy_state>>
    BY DEF sockVars, proxyVars
  <1> DEFINE a == xio_open("uws")
  <1>3. IsFrame(a) /\ Dull(a)
    BY CallFrames, DullFrames
  <1>4. \E c, n : Call(a, c, n)
    BY DEF CallOpen
  <1> HIDE DEF a
  <1>5. Dulls'
    BY <1>1, <1>3, <1>4, CallsDully
  <1>6. CASE phase = "closed"
    <2>1. phase' = "opening" /\ delivered' = <<>>
      BY <1>6 DEF CallOpen
    <2>2. proxy_state = "CLOSED"
      BY <1>1, <1>6, MayCallWhen DEF Settled, BooksOK, ProxyStates
    <2>3. Stored'
      <3>1. From(delivered, ResponseSize)'
        BY <2>1 DEF From
      <3>2. AnswersFirst(script)'
        BY <1>2 DEF TunnelInv, Stored, AnswersFirst
      <3> QED
        BY <1>2, <2>1, <2>2, <3>1, <3>2 DEF TunnelInv, Stored
    <2>4. Lifetime'
      BY <1>1, <1>5 DEF Lifetime, Dulls, Dull
    <2>5. Underway'
      BY <1>2, <2>2 DEF Underway
    <2> QED
      BY <2>3, <2>4, <2>5 DEF TunnelInv
  <1>7. CASE phase # "closed"
    <2>1. UNCHANGED <<delivered, phase>>
      BY <1>7 DEF CallOpen
    <2> QED
      BY <1>1, <1>5, <2>1, CallStill
  <1> QED
    BY <1>6, <1>7

\* A stack of one frame.
LEMMA OneFrame ==
    ASSUME NEW x, IsFrame(x)
    PROVE  <<x>> # <<>> /\ Head(<<x>>) = x /\ Tail(<<x>>) = <<>>
  <1>1. ASSUME NEW y
        PROVE  <<y>> \o <<>> = <<y>>
    OBVIOUS
  <1>2. Cons(x, <<>>) = <<x>>
    BY <1>1 DEF Cons
  <1> QED
    BY <1>2, EmptyStack, ConsStack

\* Whatever the client calls.
LEMMA TunnelByCalls ==
    ASSUME ProxyClient, ProxyInv, ProxyInv', TunnelInv, UNCHANGED <<sockVars, proxyVars>>, ClientCalls
    PROVE  TunnelInv'
  <1>1. CASE CallClose
    <2>1. MayCall("close") /\ UNCHANGED <<delivered, alive, phase>>
      BY <1>1 DEF CallClose
    <2>2. PICK cb \in {"NULL", "cb"} : \E c : Call(xio_close("uws", cb), c, closes + 1)
      BY <1>1 DEF CallClose
    <2> DEFINE a == xio_close("uws", cb)
    <2>3. Made(a, "proxy", "close", cb, 0) /\ \E c : Call(a, c, closes + 1)
      BY <2>2, CallFrames
    <2> HIDE DEF a
    <2>4. IsFrame(a) /\ Dull(a)
      BY <2>3 DEF Made, Dull
    <2>5. Dulls'
      BY <2>1, <2>3, <2>4, CallsDully
    <2> QED
      BY <2>1, <2>5, CallStill
  <1>2. CASE CallSend
    <2>1. MayCall("send") /\ UNCHANGED <<delivered, alive, phase>>
      BY <1>2 DEF CallSend
    <2> DEFINE a == xio_send("uws", "on_underlying_io_send_complete", sends + 1)
    <2>2. Made(a, "proxy", "send", "on_underlying_io_send_complete", sends + 1) /\ Call(a, "send", sends + 1)
      BY <1>2, CallFrames DEF CallSend
    <2> HIDE DEF a
    <2>3. IsFrame(a) /\ Dull(a)
      BY <2>2 DEF Made, Dull
    <2>4. Dulls'
      BY <2>1, <2>2, <2>3, CallsDully
    <2> QED
      BY <2>1, <2>4, CallStill
  <1>3. CASE CallDowork
    <2>1. MayCall("dowork") /\ UNCHANGED <<delivered, alive, phase>> /\ stack' = <<xio_dowork("uws")>>
      BY <1>3 DEF CallDowork, clientVars
    <2>2. Dulls'
      <3> DEFINE a == xio_dowork("uws")
      <3>1. Made(a, "proxy", "dowork", "", 0)
        BY CallFrames
      <3>2. stack' = <<a>>
        BY <2>1
      <3> HIDE DEF a
      <3>3. Dull(Head(stack'))
        BY <3>1, <3>2, OneFrame DEF Made, Dull
      <3> QED
        BY <3>3 DEF Dulls
    <2> QED
      BY <2>1, <2>2, CallStill
  <1>4. CASE CallDestroy
    <2>1. /\ UNCHANGED <<script, received, receive_buffer, proxy_state, delivered, phase>>
          /\ alive' = FALSE /\ stack' = <<xio_destroy("uws")>>
      BY <1>4 DEF CallDestroy, sockVars, proxyVars
    <2> DEFINE a == xio_destroy("uws")
    <2>2. Made(a, "proxy", "destroy", "", 0) /\ stack' = <<a>>
      BY <2>1, CallFrames
    <2> HIDE DEF a
    <2>3. Head(stack').fn = "destroy" /\ Tail(stack') = <<>>
      BY <2>2, OneFrame DEF Made
    <2>4. Stored'
      BY <2>1, StoredKept DEF TunnelInv, Stored
    <2>5. Lifetime'
      BY <2>1, <2>3 DEF Lifetime
    <2> QED
      BY <2>1, <2>4, <2>5 DEF TunnelInv
  <1> QED
    BY <1>1, <1>2, <1>3, <1>4, SessionBegins DEF ClientCalls

\* a function that returns what a frame holds
LEMMA TunnelByReturn ==
    ASSUME ProxyInv, ProxyInv', TunnelInv, UNCHANGED <<sockVars, proxyVars, clientVars>>, ReturnStep
    PROVE  TunnelInv'
  <1>1. /\ stack # <<>> /\ Head(stack).fn = "return" /\ (\E v : Return(v))
        /\ UNCHANGED <<delivered, alive, phase>>
    BY DEF ReturnStep, Top, clientVars
  <1>2. Dulls /\ ~Opening(stack) /\ alive = TRUE
    BY <1>1, Exists DEF Dulls, Dull, Opening, Is
  <1>3. Dulls'
    BY <1>1, <1>2, ReturnsDully
  <1>4. stack' = <<>> \/ Head(stack').fn # "destroy"
    BY <1>3 DEF Dulls, Dull
  <1> QED
    BY <1>1, <1>2, <1>3, <1>4, ClientStill

\* A step that changes nothing.
LEMMA TunnelStutters ==
    ASSUME TunnelInv, UNCHANGED vars
    PROVE  TunnelInv'
  <1>1. UNCHANGED <<stack, script, received, receive_buffer, delivered, alive, phase, proxy_state>>
    BY DEF vars, sockVars, proxyVars, clientVars
  <1>2. Stored'
    BY <1>1, StoredKept DEF TunnelInv, Stored
  <1>3. UNCHANGED <<ResponseSize, Arriving, Handing, Connected>> /\ \A s, p : From(s, p)' <=> From(s, p)
    BY <1>1 DEF ResponseSize, Arriving, Handing, Connected, From
  <1>4. (alive = TRUE => Underway)'
    BY <1>1, <1>3 DEF TunnelInv, Underway
  <1>5. Lifetime'
    BY <1>1 DEF TunnelInv, Lifetime
  <1> QED
    BY <1>2, <1>4, <1>5 DEF TunnelInv

\* Nothing has been read or handed up at the start.
LEMMA TunnelStarts ==
    Init => TunnelInv
  <1> SUFFICES ASSUME Init
               PROVE  TunnelInv
    OBVIOUS
  <1>1. /\ stack = <<>> /\ script = <<>> /\ received = 0 /\ receive_buffer = <<>> /\ delivered = <<>>
        /\ phase = "closed" /\ proxy_state = "CLOSED" /\ alive = TRUE
    BY DEF Init, SockInit, ProxyInit, ClientInit
  <1>2. Stored
    BY <1>1 DEF Stored, AnswersFirst, From
  <1> QED
    BY <1>1, <1>2 DEF TunnelInv, Lifetime, Underway

\* Every step keeps the invariant of the tunnel.
LEMMA TunnelSteps ==
    ASSUME ProxyClient, ResponsesFirst, ProxyInv, ProxyInv', TunnelInv, [Next]_vars
    PROVE  TunnelInv'
  <1>1. CASE SockNext /\ UNCHANGED <<proxyVars, clientVars>>
    BY <1>1, SocketSteps
  <1>2. CASE ProxyNext /\ UNCHANGED <<sockVars, clientVars>>
    BY <1>2, TunnelByProxy
  <1>3. CASE ClientSteps /\ UNCHANGED <<sockVars, proxyVars>>
    BY <1>3, TunnelByClient
  <1>4. CASE ReturnStep /\ UNCHANGED <<sockVars, proxyVars, clientVars>>
    BY <1>4, TunnelByReturn
  <1>5. CASE ClientCalls /\ UNCHANGED <<sockVars, proxyVars>>
    BY <1>5, TunnelByCalls
  <1>6. CASE UNCHANGED vars
    BY <1>6, TunnelStutters
  <1> QED
    BY <1>1, <1>2, <1>3, <1>4, <1>5, <1>6 DEF Next, Step

\* The tunnel is reported open only when the whole of a response of success has been read on this
\* connection, and the bytes handed up are those that the peer sent after it, in order and
\* without a gap, in whatever pieces the response and they came (on_underlying_io_bytes_received
\* in http_proxy_io.c).
THEOREM TunnelOpenedByResponse ==
    ASSUME ProxyClient, ResponsesFirst
    PROVE  Spec => []OpenedByResponse
  <1>1. Init => TunnelInv
    BY TunnelStarts
  <1>2. ProxyIInv /\ ProxyIInv' /\ TunnelInv /\ [Next]_vars => TunnelInv'
    BY TunnelSteps DEF ProxyIInv
  <1>3. TunnelInv => OpenedByResponse
    <2> SUFFICES ASSUME TunnelInv
                 PROVE  OpenedByResponse
      OBVIOUS
    <2>1. delivered \in Seq(Unit) /\ \A i \in 1 .. Len(delivered) : delivered[i] = script[ResponseSize + i]
      BY DEF TunnelInv, Stored, From
    <2> QED
      BY <2>1 DEF TunnelInv, Stored, Granted, OpenedByResponse
  <1>4. Spec => []ProxyIInv
    BY ProxyInvariant
  <1> QED
    BY <1>1, <1>2, <1>3, <1>4, PTL DEF Spec

=============================================================================
