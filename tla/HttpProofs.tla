----------------------------- MODULE HttpProofs -----------------------------
(***************************************************************************)
(* The ladder of httpapiex.c over the blocking client: whatever fails in   *)
(* whatever order, the server sees a request at most three times, every    *)
(* level that was climbed is undone, and a request is made with the        *)
(* options that were set.  For every choice of the constants.              *)
(*                                                                         *)
(* What bounds the tries is a count of those that are still possible: it   *)
(* depends on the level and on which of the levels below were tried again, *)
(* and every try uses one up, whether the server saw it or not.            *)
(***************************************************************************)
EXTENDS HttpApiEx, TLAPS

-----------------------------------------------------------------------------
(* The inductive invariant.                                                 *)

Untried(l) == IF st[l] THEN 0 ELSE 1

\* the tries still possible, once the one in progress has failed
TriesAfter == Untried(1) + Untried(0)

\* the tries still possible from the level that has been reached
TriesLeft ==
    CASE k = 2 -> 1 + TriesAfter
      [] k = 1 -> TriesAfter
      [] k = 0 -> Untried(0)
      [] OTHER -> 0

ClosePlaces == {"close", "closing", "closed"}
ReadPlaces == LineStates \cup ReceiveStates
ExecutePlaces == {"execute", "opening", "send", "sending", "executed"} \cup ReadPlaces

\* Nothing of a request is under way.
Quiet == sending = FALSE /\ pieces = 0

\* Where the request in progress stands, as the server sees it: todo pieces are still to
\* be sent, and the server counts it with the last of them.
Sent(left) ==
    IF left > 0 THEN pieces = SendPieces - left /\ served + 1 + TriesAfter <= 3
    ELSE pieces = 0 /\ served + TriesAfter <= 3

TryInv ==
    /\ pc \in {"execute", "opening"} => Quiet /\ served + 1 + TriesAfter <= 3
    /\ pc = "send" => sending = FALSE /\ Sent(todo)
    /\ pc = "sending" => /\ todo > 0
                         /\ IF send_completed THEN sending = FALSE /\ Sent(todo - 1) ELSE Sent(todo)
    /\ pc \in ReadPlaces => Quiet /\ served + TriesAfter <= 3
    /\ pc = "executed" => served + TriesAfter <= 3 /\ (http_result = "OK" => Quiet)

\* Closing: nothing can be sent any more, and in the end there is no connection.
CloseInv ==
    /\ pc \in ClosePlaces
    /\ pc = "closing" => conn \notin {"open", "opening"}
    /\ pc = "closed" => conn = "none"

\* what is held at each place of the ladder
LadderInv ==
    /\ ex_pc \in {"idle", "ladder"} => /\ pc = "idle"
                                       /\ k = 2 <=> conn # "none"
                                       /\ inits = IF k >= 1 THEN 1 ELSE 0
    /\ ex_pc = "idle" => k \in {-1, 2} /\ (k = 2 => Quiet)
    /\ ex_pc = "ladder" => (k = 2 => Quiet) /\ served + TriesLeft <= 3
    /\ ex_pc = "executing" => /\ k = 2 /\ conn # "none" /\ inits = 1
                              /\ pc \in ExecutePlaces /\ TryInv
    /\ ex_pc = "closing" => k = 1 /\ inits = 1 /\ CloseInv /\ served + TriesLeft <= 3
    /\ ex_pc = "destroying" => k = 2 /\ inits = 0 /\ CloseInv
    /\ ex_pc = "destroyed" => pc = "idle" /\ conn = "none" /\ inits = 0

\* the options of the connection that the ladder has reached
OptionInv ==
    k = 2 /\ ex_pc \in {"idle", "ladder", "executing"} =>
        \A o \in Options \ refused : connOptions[o] = savedOptions[o]

CompactTypeOK ==
    /\ served \in Nat /\ served <= 3 /\ pieces \in Nat /\ todo \in Nat
    /\ sending \in BOOLEAN /\ send_completed \in BOOLEAN

ExTypeOK ==
    /\ k \in -1 .. 2 /\ st \in [Levels -> BOOLEAN] /\ inits \in Int
    /\ ex_pc \in {"idle", "ladder", "executing", "closing", "destroying", "destroyed"}
    /\ savedOptions \in [Options -> Nat] /\ connOptions \in [Options -> Nat] /\ sets \in Nat

HttpInv == CompactTypeOK /\ ExTypeOK /\ LadderInv /\ OptionInv

-----------------------------------------------------------------------------
(* What a call of the xio may do.                                           *)

Fields(o) ==
    o = [conn |-> o.conn, sending |-> o.sending, pieces |-> o.pieces, wire |-> o.wire,
         served |-> o.served, connected |-> o.connected, err |-> o.err,
         completed |-> o.completed, received |-> o.received]

\* nothing of a request went to the server, though a send may have failed
Unsent(a, b) ==
    /\ b.pieces = a.pieces /\ b.served = a.served /\ b.completed = a.completed
    /\ b.sending \in BOOLEAN /\ (b.sending => a.sending)

\* one piece went
OneSent(a, b) ==
    /\ a.conn = "open" /\ a.sending /\ ~b.sending /\ b.completed = TRUE /\ b.sending = FALSE
    /\ IF a.pieces + 1 < SendPieces THEN b.pieces = a.pieces + 1 /\ b.served = a.served
       ELSE b.pieces = 0 /\ b.served = a.served + 1

\* From a, the layer may come to b: it never goes away by itself.
Leads(a, b) ==
    /\ Fields(b)
    /\ a.conn # "none" => b.conn # "none"
    /\ b.conn \in {"open", "opening"} => a.conn \in {"open", "opening"}
    /\ Unsent(a, b) \/ OneSent(a, b)

LEMMA NowFields ==
    /\ Fields(Now)
    /\ Now.conn = conn /\ Now.sending = sending /\ Now.pieces = pieces /\ Now.served = served
    /\ Now.completed = send_completed /\ Now.err = is_io_error
  BY DEF Fields, Now

LEMMA OpenLeads ==
    ASSUME NEW o, Fields(o), o.sending \in BOOLEAN, NEW b \in on_io_open_complete(o)
    PROVE  Leads(o, b) /\ Unsent(o, b)
  <1>1. o.conn = "opening"
    BY DEF on_io_open_complete
  <1>2. CASE b = [o EXCEPT !.conn = "open", !.connected = TRUE, !.err = FALSE]
    BY <1>1, <1>2 DEF Fields, Leads, Unsent
  <1>3. CASE b = [o EXCEPT !.conn = "closed", !.err = TRUE]
    BY <1>1, <1>3 DEF Fields, Leads, Unsent
  <1> QED
    BY <1>1, <1>2, <1>3 DEF on_io_open_complete

LEMMA SendLeads ==
    ASSUME NEW o, Fields(o), o.sending \in BOOLEAN, NEW b \in on_send_complete(o)
    PROVE  Leads(o, b)
  <1>1. o.conn = "open" /\ o.sending = TRUE
    BY DEF on_send_complete
  <1>2. CASE b = [o EXCEPT !.sending = FALSE, !.err = TRUE]
    BY <1>1, <1>2 DEF Fields, Leads, Unsent
  <1>3. ASSUME NEW s, s = [o EXCEPT !.sending = FALSE, !.completed = TRUE, !.err = FALSE],
               b \in Transmitted(s)
        PROVE  Leads(o, b)
    <2>0. Fields(s) /\ s.conn = o.conn /\ s.pieces = o.pieces /\ s.served = o.served
          /\ s.completed = TRUE /\ s.sending = FALSE
      BY <1>3 DEF Fields
    <2>1. CASE s.pieces + 1 < SendPieces
      <3>1. b = [s EXCEPT !.pieces = @ + 1]
        BY <1>3, <2>1 DEF Transmitted
      <3> QED
        BY <1>1, <2>0, <2>1, <3>1 DEF Fields, Leads, OneSent
    <2>2. CASE ~(s.pieces + 1 < SendPieces)
      <3>1. PICK reply \in Replies :
              b = [s EXCEPT !.pieces = 0, !.served = @ + 1, !.wire = @ \o Tagged(reply)]
        BY <1>3, <2>2 DEF Transmitted
      <3> QED
        BY <1>1, <2>0, <2>2, <3>1 DEF Fields, Leads, OneSent
    <2> QED
      BY <2>1, <2>2
  <1> QED
    BY <1>1, <1>2, <1>3 DEF on_send_complete

\* bytes, errors and the end of a close have nothing to do with a request
LEMMA OthersLead ==
    ASSUME NEW o, Fields(o), o.sending \in BOOLEAN,
           NEW b \in on_bytes_received(o) \cup on_io_error(o) \cup on_io_close_complete(o)
    PROVE  /\ Leads(o, b) /\ Unsent(o, b) /\ b.sending = o.sending
           /\ b.conn \in {o.conn, "failed", "closed"}
  <1>1. CASE b \in on_bytes_received(o)
    <2>1. CASE b = [o EXCEPT !.wire = <<>>, !.err = TRUE]
      BY <2>1 DEF Fields, Leads, Unsent
    <2>2. ASSUME NEW n, b = [[o EXCEPT !.wire = SubSeq(@, n + 1, Len(@))]
                               EXCEPT !.received = @ \o SubSeq(o.wire, 1, n)]
          PROVE  Leads(o, b) /\ Unsent(o, b) /\ b.conn = o.conn /\ b.sending = o.sending
      BY <2>2 DEF Fields, Leads, Unsent
    <2> QED
      BY <1>1, <2>1, <2>2 DEF on_bytes_received
  <1>2. CASE b \in on_io_error(o)
    BY <1>2 DEF on_io_error, Fields, Leads, Unsent
  <1>3. CASE b \in on_io_close_complete(o)
    BY <1>3 DEF on_io_close_complete, Fields, Leads, Unsent
  <1> QED
    BY <1>1, <1>2, <1>3

\* A call of xio_dowork sends at most one piece.
LEMMA DoworkLeads ==
    ASSUME sending \in BOOLEAN, NEW b \in xio_dowork
    PROVE  Leads(Now, b)
  <1>0. Fields(Now) /\ Now.sending \in BOOLEAN
    BY NowFields
  <1>1. CASE b \in on_io_open_complete(Now)
    BY <1>0, <1>1, OpenLeads
  <1>2. CASE b \in on_io_close_complete(Now)
    BY <1>0, <1>2, OthersLead
  <1>3. ASSUME NEW o \in {Now} \cup on_send_complete(Now),
               b \in {o} \cup on_bytes_received(o) \cup on_io_error(o)
        PROVE  Leads(Now, b)
    <2>1. Leads(Now, o)
      BY <1>0, SendLeads DEF Leads, Unsent
    <2>2. o.sending \in BOOLEAN /\ Fields(o)
      BY <2>1, <1>0 DEF Leads, Unsent, OneSent
    <2>3. CASE b = o
      BY <2>1, <2>3
    <2>4. CASE b \in on_bytes_received(o) \cup on_io_error(o)
      <3>1. Leads(o, b) /\ Unsent(o, b) /\ b.sending = o.sending
        BY <2>2, <2>4, OthersLead
      <3> QED
        BY <2>1, <2>2, <3>1 DEF Leads, Unsent, OneSent
    <2> QED
      BY <1>3, <2>3, <2>4
  <1> QED
    BY <1>1, <1>2, <1>3 DEF xio_dowork

-----------------------------------------------------------------------------
(* Reading an answer: the request is through, and nothing of it is resent.  *)

\* a state of the xio in which the request has been sent and its layer is there
Idle(o) ==
    /\ Fields(o)
    /\ o.sending = FALSE /\ o.pieces = 0 /\ o.served = served /\ o.completed = send_completed
    /\ o.conn # "none"

ReadStep ==
    /\ Quiet' /\ served' = served /\ send_completed' = send_completed /\ conn' # "none"
    /\ pc' \in ReadPlaces \cup {"executed"} /\ todo' \in {todo, 0}

LEMMA IdleDowork ==
    ASSUME Quiet, sending \in BOOLEAN, conn # "none", NEW b \in xio_dowork
    PROVE  Idle(b)
  <1>1. Leads(Now, b)
    BY DoworkLeads
  <1> QED
    BY <1>1, NowFields DEF Leads, Unsent, OneSent, Idle, Quiet

LEMMA IdleUpdate ==
    ASSUME NEW b, Idle(b), NEW x
    PROVE  Idle([b EXCEPT !.received = x]) /\ Idle([b EXCEPT !.err = x])
  <1>1. ASSUME NEW c, c = [b EXCEPT !.received = x]
        PROVE  Idle(c)
    BY <1>1 DEF Idle, Fields
  <1>2. ASSUME NEW c, c = [b EXCEPT !.err = x]
        PROVE  Idle(c)
    BY <1>2 DEF Idle, Fields
  <1> QED
    BY <1>1, <1>2

LEMMA IdleLine ==
    ASSUME Quiet, sending \in BOOLEAN, conn # "none", NEW l \in LineOutcomes
    PROVE  Idle(l.o)
  <1>1. PICK b \in xio_dowork : l = [o |-> [b EXCEPT !.received = BehindLine(b)], text |-> LineSoFar(b)]
    BY DEF LineOutcomes
  <1> QED
    BY <1>1, IdleDowork, IdleUpdate

LEMMA IdleReceived ==
    ASSUME Quiet, sending \in BOOLEAN, conn # "none", NEW n, NEW x \in Received(n)
    PROVE  Idle(x.o)
  <1>1. PICK b \in xio_dowork :
          x = [o |-> [b EXCEPT !.received = SubSeq(b.received, n + 1, Len(b.received))],
               bytes |-> SubSeq(b.received, 1, n)]
    BY DEF Received
  <1> QED
    BY <1>1, IdleDowork, IdleUpdate

LEMMA IdleBecome ==
    ASSUME NEW o, Idle(o), Become(o)
    PROVE  Quiet' /\ served' = served /\ send_completed' = send_completed /\ conn' # "none"
  BY DEF Idle, Become, Quiet

LEMMA IdleEnds ==
    ASSUME NEW o, Idle(o), NEW r, Finish(o, r)
    PROVE  ReadStep
  BY IdleUpdate, IdleBecome DEF Finish, NoLocals, ReadStep

LEMMA IdleGoesOn ==
    ASSUME NEW o, Idle(o), NEW to \in ReadPlaces, todo' = todo, GoTo(o, to) \/ ReadLineAt(o, to)
    PROVE  ReadStep
  BY IdleBecome DEF GoTo, ReadLineAt, ReadStep

LEMMA ReadsLine ==
    ASSUME Quiet, sending \in BOOLEAN, conn # "none",
           readLine_more \/ readLine_failed \/ status_line \/ header_line \/ body_begin \/ chunk_size
    PROVE  ReadStep
  <1>0. \A b \in xio_dowork : Idle(b)
    BY IdleDowork
  <1>l. \A l \in LineOutcomes : Idle(l.o) /\ Idle([l.o EXCEPT !.err = FALSE])
    BY IdleLine, IdleUpdate
  <1>1. CASE readLine_more
    <2>1. PICK b \in xio_dowork : GoTo([b EXCEPT !.received = <<>>], pc)
      BY <1>1 DEF readLine_more
    <2> QED
      BY <1>0, <1>1, <2>1, IdleUpdate, IdleGoesOn DEF readLine_more, ReadPlaces
  <1>2. CASE readLine_failed
    BY <1>0, <1>2, IdleEnds DEF readLine_failed, Fail
  <1>3. CASE status_line
    <2>1. PICK l \in LineOutcomes :
            \/ ReadLineAt([l.o EXCEPT !.err = FALSE], "headers") /\ todo' = todo
            \/ Fail(l.o, "RECEIVE_RESPONSE_FAILED")
      BY <1>3 DEF status_line
    <2> QED
      BY <1>l, <2>1, IdleGoesOn, IdleEnds DEF Fail, ReadPlaces, LineStates
  <1>4. CASE header_line
    <2>1. PICK l \in LineOutcomes :
            \/ ReadLineAt(l.o, "headers") /\ todo' = todo
            \/ Fail(l.o, "READ_DATA_FAILED")
      BY <1>4 DEF header_line
    <2> QED
      BY <1>l, <2>1, IdleGoesOn, IdleEnds DEF Fail, ReadPlaces, LineStates
  <1>5. CASE body_begin
    <2>1. PICK l \in LineOutcomes :
            \/ ReadLineAt([l.o EXCEPT !.err = FALSE], "chunk_size") /\ todo' = todo
            \/ Fail([l.o EXCEPT !.err = FALSE], "OK")
            \/ Fail([l.o EXCEPT !.err = FALSE], "ALLOC_FAILED")
            \/ GoTo([l.o EXCEPT !.err = FALSE], "body") /\ todo' = todo
      BY <1>5 DEF body_begin, localVars
    <2> QED
      BY <1>l, <2>1, IdleGoesOn, IdleEnds DEF Fail, ReadPlaces, LineStates, ReceiveStates
  <1>6. CASE chunk_size
    <2>1. PICK l \in LineOutcomes :
            \/ Fail(l.o, "RECEIVE_RESPONSE_FAILED")
            \/ GoTo(l.o, "last") /\ todo' = todo
            \/ Finish(l.o, "ALLOC_FAILED")
            \/ GoTo(l.o, "chunk") /\ todo' = todo
      BY <1>6 DEF chunk_size, localVars
    <2> QED
      BY <1>l, <2>1, IdleGoesOn, IdleEnds DEF Fail, ReadPlaces, ReceiveStates
  <1> QED
    BY <1>1, <1>2, <1>3, <1>4, <1>5, <1>6

LEMMA ReadsBody ==
    ASSUME Quiet, sending \in BOOLEAN, conn # "none",
           conn_receive_more \/ conn_receive_failed \/ body_read \/ chunk_read \/ chunk_end \/ last_chunk
    PROVE  ReadStep
  <1>0. \A b \in xio_dowork : Idle(b)
    BY IdleDowork
  <1>r. ASSUME NEW n, NEW x \in Received(n)
        PROVE  Idle(x.o)
    BY IdleReceived
  <1>1. CASE conn_receive_more
    BY <1>0, <1>1, IdleGoesOn DEF conn_receive_more, ReadPlaces, localVars
  <1>2. CASE conn_receive_failed
    BY <1>0, <1>2, IdleEnds DEF conn_receive_failed
  <1>3. CASE body_read
    BY <1>r, <1>3, IdleEnds DEF body_read
  <1>4. CASE chunk_read
    BY <1>r, <1>4, IdleGoesOn DEF chunk_read, ReadPlaces, ReceiveStates, localVars
  <1>5. CASE chunk_end
    <2>1. PICK x \in Received(2) :
            \/ ReadLineAt(x.o, "chunk_size") /\ todo' = todo
            \/ Fail(x.o, "READ_DATA_FAILED")
      BY <1>5 DEF chunk_end
    <2> QED
      BY <1>r, <2>1, IdleGoesOn, IdleEnds DEF Fail, ReadPlaces, LineStates
  <1>6. CASE last_chunk
    <2>1. PICK x \in Received(2) : \E r : Finish(x.o, r)
      BY <1>6 DEF last_chunk
    <2> QED
      BY <1>r, <2>1, IdleEnds
  <1> QED
    BY <1>1, <1>2, <1>3, <1>4, <1>5, <1>6

-----------------------------------------------------------------------------
(* Opening and sending.                                                     *)

\* What a call leaves behind that failed: the connection, and perhaps a part of a request.
EndStep(o) ==
    /\ conn' # "none" /\ served' = o.served /\ pieces' = o.pieces /\ sending' = o.sending
    /\ send_completed' = o.completed /\ pc' = "executed" /\ todo' = 0

LEMMA FailEnds ==
    ASSUME NEW o, Fields(o), o.conn # "none", NEW r, Fail(o, r)
    PROVE  EndStep(o) /\ http_result' = r
  <1>1. ASSUME NEW c, c = [o EXCEPT !.received = <<>>]
        PROVE  /\ c.conn = o.conn /\ c.served = o.served /\ c.pieces = o.pieces
               /\ c.sending = o.sending /\ c.completed = o.completed
    BY <1>1 DEF Fields
  <1> QED
    BY <1>1 DEF Fail, Finish, Become, NoLocals, EndStep

LEMMA OpensKeep ==
    ASSUME CompactTypeOK, RetryAssumption, st \in [Levels -> BOOLEAN], st' = st, conn # "none",
           TryInv, OpenXIOConnection \/ opening_loop \/ opening_done
    PROVE  /\ conn' # "none" /\ pc' \in ExecutePlaces /\ TryInv' /\ CompactTypeOK'
  <1>0. Quiet /\ served + 1 + TriesAfter <= 3 /\ TriesAfter \in Nat /\ TriesAfter' = TriesAfter
    BY DEF OpenXIOConnection, opening_loop, opening_done, TryInv, TriesAfter, Untried, Levels
  <1>n. Idle(Now)
    BY <1>0, NowFields DEF Idle, Quiet
  <1>d. \A b \in xio_dowork : Idle(b)
    BY <1>0, IdleDowork DEF CompactTypeOK
  <1>f. ASSUME NEW o, Idle(o), NEW r, Fail(o, r), r # "OK"
        PROVE  conn' # "none" /\ pc' \in ExecutePlaces /\ TryInv' /\ CompactTypeOK'
    <2>1. EndStep(o) /\ http_result' # "OK"
      BY <1>f, FailEnds DEF Idle
    <2>2. CompactTypeOK'
      <3>1. sending' = FALSE /\ send_completed' = send_completed /\ served' = served
            /\ pieces' = 0 /\ todo' = 0
        BY <1>f, <2>1 DEF EndStep, Idle
      <3> QED
        BY <3>1 DEF CompactTypeOK
    <2>3. served' + TriesAfter' <= 3
      BY <1>f, <1>0, <2>1 DEF EndStep, Idle, CompactTypeOK
    <2>4. pc' = "executed" /\ conn' # "none"
      BY <2>1 DEF EndStep
    <2> QED
      BY <2>1, <2>2, <2>3, <2>4 DEF TryInv, ExecutePlaces, ReadPlaces, LineStates, ReceiveStates
  <1>g. ASSUME NEW o, Idle(o), GoTo(o, "opening"), todo' = todo
        PROVE  conn' # "none" /\ pc' \in ExecutePlaces /\ TryInv' /\ CompactTypeOK'
    <2>1. Quiet' /\ served' = served /\ send_completed' = send_completed /\ conn' # "none"
      BY <1>g, IdleBecome DEF GoTo
    <2>2. CompactTypeOK'
      BY <1>g, <2>1 DEF Quiet, CompactTypeOK
    <2>3. served' + 1 + TriesAfter' <= 3 /\ pc' = "opening"
      BY <1>g, <1>0, <2>1 DEF GoTo
    <2> QED
      BY <2>1, <2>2, <2>3 DEF TryInv, ExecutePlaces, ReadPlaces, LineStates, ReceiveStates
  <1>s. ASSUME GoTo(Now, "send"), todo' = SendPieces
        PROVE  conn' # "none" /\ pc' \in ExecutePlaces /\ TryInv' /\ CompactTypeOK'
    <2>1. Quiet' /\ served' = served /\ send_completed' = send_completed /\ conn' # "none"
      BY <1>n, <1>s, IdleBecome DEF GoTo
    <2>2. Sent(todo)'
      BY <1>s, <1>0, <2>1 DEF Sent, Quiet, CompactTypeOK, RetryAssumption
    <2>3. CompactTypeOK'
      BY <1>s, <2>1 DEF Quiet, CompactTypeOK, RetryAssumption
    <2>4. pc' = "send" /\ sending' = FALSE
      BY <1>s, <2>1 DEF GoTo, Quiet
    <2> QED
      BY <2>1, <2>2, <2>3, <2>4 DEF TryInv, ExecutePlaces, ReadPlaces, LineStates, ReceiveStates
  <1>1. CASE OpenXIOConnection
    <2> DEFINE clear == [Now EXCEPT !.err = FALSE]
               opened == [clear EXCEPT !.conn = "opening"]
    <2>1. Idle(clear)
      BY <1>n, IdleUpdate
    <2>2. ASSUME NEW o \in {opened} \cup on_io_open_complete(opened)
          PROVE  Idle(o)
      <3>1. ASSUME NEW c, c = [Now EXCEPT !.err = FALSE], NEW d, d = [c EXCEPT !.conn = "opening"]
            PROVE  Idle(d)
        BY <1>n, <3>1 DEF Idle, Fields
      <3>2. Idle(opened)
        BY <3>1
      <3> HIDE DEF opened
      <3>3. o = opened \/ (Leads(opened, o) /\ Unsent(opened, o))
        BY <3>2, OpenLeads DEF Idle
      <3> QED
        BY <3>2, <3>3 DEF Leads, Unsent, Idle
    <2> HIDE DEF clear, opened
    <2>3. \/ Fail(Now, "OPEN_REQUEST_FAILED")
          \/ GoTo(Now, "send") /\ todo' = SendPieces
          \/ Fail(clear, "SET_OPTION_FAILED")
          \/ Fail(clear, "OPEN_REQUEST_FAILED")
          \/ \E o \in {opened} \cup on_io_open_complete(opened) : GoTo(o, "opening") /\ todo' = todo
      BY <1>1 DEF OpenXIOConnection, clear, opened
    <2> QED
      BY <1>n, <1>f, <1>g, <1>s, <2>1, <2>2, <2>3
  <1>2. CASE opening_loop
    <2>1. PICK o \in xio_dowork : Fail(o, "OPEN_REQUEST_FAILED") \/ (GoTo(o, "opening") /\ todo' = todo)
      BY <1>2 DEF opening_loop
    <2> QED
      BY <1>d, <1>f, <1>g, <2>1
  <1>3. CASE opening_done
    BY <1>n, <1>f, <1>s, <1>3 DEF opening_done
  <1> QED
    BY <1>1, <1>2, <1>3

\* A piece that is sent is one less to do.
LEMMA SendsKeep ==
    ASSUME CompactTypeOK, RetryAssumption, st \in [Levels -> BOOLEAN], st' = st, conn # "none",
           TryInv, conn_send_all \/ conn_send_all_loop \/ conn_sent \/ ReceiveHeaderFromXIO
    PROVE  /\ conn' # "none" /\ pc' \in ExecutePlaces /\ TryInv' /\ CompactTypeOK'
  <1>0. TriesAfter \in Nat /\ TriesAfter' = TriesAfter /\ SendPieces \in Nat
    BY DEF TriesAfter, Untried, Levels, RetryAssumption
  <1> DEFINE Good(o) == /\ Fields(o) /\ o.conn # "none" /\ o.served \in Nat /\ o.pieces \in Nat
                        /\ o.sending \in BOOLEAN /\ o.completed \in BOOLEAN
                        /\ o.served + TriesAfter <= 3
             Half(o, left) ==
                 IF left > 0 THEN o.pieces = SendPieces - left /\ o.served + 1 + TriesAfter <= 3
                 ELSE o.pieces = 0 /\ o.served + TriesAfter <= 3
             Going(o) == /\ Good(o)
                         /\ IF o.completed THEN o.sending = FALSE /\ Half(o, todo - 1) ELSE Half(o, todo)
  <1>f. ASSUME NEW o, Good(o), NEW r, Fail(o, r), r # "OK"
        PROVE  conn' # "none" /\ pc' \in ExecutePlaces /\ TryInv' /\ CompactTypeOK'
    <2>1. EndStep(o) /\ http_result' # "OK"
      BY <1>f, FailEnds
    <2> QED
      BY <1>f, <1>0, <2>1 DEF EndStep, TryInv, CompactTypeOK, ExecutePlaces, ReadPlaces,
                              LineStates, ReceiveStates
  <1>g. ASSUME NEW o, Going(o), todo > 0, GoTo(o, "sending"), todo' = todo
        PROVE  conn' # "none" /\ pc' \in ExecutePlaces /\ TryInv' /\ CompactTypeOK'
    <2>1. /\ conn' = o.conn /\ served' = o.served /\ pieces' = o.pieces /\ sending' = o.sending
          /\ send_completed' = o.completed /\ pc' = "sending"
      BY <1>g DEF GoTo, Become
    <2>2. IF send_completed' THEN sending' = FALSE /\ Sent(todo - 1)' ELSE Sent(todo)'
      BY <1>g, <1>0, <2>1 DEF Sent
    <2> QED
      BY <1>g, <1>0, <2>1, <2>2 DEF TryInv, CompactTypeOK, ExecutePlaces, ReadPlaces,
                              LineStates, ReceiveStates
  \* a layer with a send that is not complete stays on its way
  <1>l. ASSUME NEW a, NEW b, Leads(a, b), Good(a), ~a.completed, Half(a, todo), todo > 0
        PROVE  Going(b)
    <2>0. Fields(b) /\ b.conn # "none"
      BY <1>l DEF Leads
    <2>1. CASE Unsent(a, b)
      BY <1>l, <2>0, <2>1 DEF Unsent
    <2>2. CASE OneSent(a, b)
      <3>1. a.pieces + 1 = SendPieces - (todo - 1) /\ todo - 1 \in Nat /\ todo \in Nat
        BY <1>l, <1>0 DEF CompactTypeOK
      <3>2. b.completed = TRUE /\ b.sending = FALSE
        BY <2>2 DEF OneSent
      <3>a. a.served \in Nat /\ a.pieces \in Nat /\ a.served + 1 + TriesAfter <= 3
        BY <1>l
      <3>3. CASE todo - 1 > 0
        <4>1. b.pieces = SendPieces - (todo - 1) /\ b.served = a.served
          BY <1>0, <2>2, <3>1, <3>3 DEF OneSent
        <4>2. b.served \in Nat /\ b.pieces \in Nat /\ b.served + 1 + TriesAfter <= 3
              /\ b.served + TriesAfter <= 3
          BY <1>0, <3>a, <3>1, <4>1
        <4>3. Good(b) /\ Half(b, todo - 1)
          BY <2>0, <3>2, <3>3, <4>1, <4>2
        <4> QED
          BY <3>2, <4>3 DEF Going
      <3>4. CASE todo - 1 = 0
        <4>1. b.pieces = 0 /\ b.served = a.served + 1
          BY <1>0, <2>2, <3>1, <3>4 DEF OneSent
        <4>2. b.served \in Nat /\ b.pieces \in Nat /\ b.served + TriesAfter <= 3
          BY <1>0, <3>a, <4>1
        <4>3. Good(b)
          BY <2>0, <3>2, <4>2
        <4>4. ~(todo - 1 > 0) /\ Half(b, todo - 1)
          BY <3>1, <3>4, <4>1, <4>2
        <4> QED
          BY <3>2, <4>3, <4>4 DEF Going
      <3>5. todo - 1 > 0 \/ todo - 1 = 0
        BY <3>1
      <3> HIDE DEF Going
      <3> QED
        BY <3>3, <3>4, <3>5
    <2> QED
      BY <1>l, <2>1, <2>2 DEF Leads
  <1>1. CASE conn_send_all
    <2>0. todo > 0 /\ ~sending /\ pieces = SendPieces - todo /\ served + 1 + TriesAfter <= 3
      BY <1>1 DEF conn_send_all, TryInv, Sent
    <2>1. Good(Now)
      BY <1>0, <2>0, NowFields DEF CompactTypeOK
    <2>2. ASSUME NEW c, c = [Now EXCEPT !.err = FALSE, !.completed = FALSE],
                 NEW t, t = [c EXCEPT !.sending = TRUE]
          PROVE  Good(c) /\ Good(t) /\ ~t.completed /\ Half(t, todo)
      <3>1. Fields(c) /\ c.conn = conn /\ c.served = served /\ c.pieces = pieces
            /\ c.sending = sending /\ c.completed = FALSE
        BY <2>2, NowFields DEF Fields
      <3>2. Fields(t) /\ t.conn = conn /\ t.served = served /\ t.pieces = pieces
            /\ t.sending = TRUE /\ t.completed = FALSE
        BY <2>2, <3>1 DEF Fields
      <3>3. served + TriesAfter <= 3
        BY <1>0, <2>0 DEF CompactTypeOK
      <3>4. Good(c) /\ Good(t)
        BY <3>1, <3>2, <3>3 DEF CompactTypeOK
      <3>5. Half(t, todo)
        BY <2>0, <3>2
      <3> QED
        BY <3>2, <3>4, <3>5
    <2>3. PICK c, t : /\ c = [Now EXCEPT !.err = FALSE, !.completed = FALSE]
                      /\ t = [c EXCEPT !.sending = TRUE]
      OBVIOUS
    <2>4. \/ Fail(Now, "STRING_PROCESSING_ERROR")
          \/ Fail(c, "SEND_REQUEST_FAILED")
          \/ \E o \in {t} \cup on_send_complete(t) : GoTo(o, "sending") /\ todo' = todo
      BY <1>1, <2>3 DEF conn_send_all
    <2>5. ASSUME NEW o \in {t} \cup on_send_complete(t)
          PROVE  Going(o)
      <3>1. CASE o = t
        BY <2>2, <2>3, <3>1
      <3>2. CASE o \in on_send_complete(t)
        <4>0. Good(t) /\ ~t.completed /\ Half(t, todo)
          BY <2>2, <2>3
        <4>1. Leads(t, o)
          BY <4>0, <3>2, SendLeads
        <4> QED
          BY <1>l, <2>0, <4>0, <4>1
      <3> QED
        BY <3>1, <3>2
    <2> QED
      BY <1>f, <1>g, <2>0, <2>1, <2>2, <2>3, <2>4, <2>5
  <1>2. CASE conn_send_all_loop
    <2>0. todo > 0 /\ ~send_completed /\ pieces = SendPieces - todo /\ served + 1 + TriesAfter <= 3
      BY <1>2 DEF conn_send_all_loop, TryInv, Sent
    <2>1. Good(Now) /\ ~Now.completed /\ Half(Now, todo)
      BY <1>0, <2>0, NowFields DEF CompactTypeOK
    <2>2. PICK o \in xio_dowork : Fail(o, "SEND_REQUEST_FAILED") \/ (GoTo(o, "sending") /\ todo' = todo)
      BY <1>2 DEF conn_send_all_loop
    <2>3. Going(o)
      BY <1>l, <2>0, <2>1, DoworkLeads DEF CompactTypeOK
    <2> QED
      BY <1>f, <1>g, <2>0, <2>2, <2>3
  <1>3. CASE conn_sent
    <2>1. sending = FALSE /\ Sent(todo - 1) /\ todo > 0
      BY <1>3 DEF conn_sent, TryInv
    <2>2. /\ conn' = conn /\ served' = served /\ pieces' = pieces /\ sending' = sending
          /\ send_completed' = send_completed /\ pc' = "send" /\ todo' = todo - 1
      BY <1>3, NowFields DEF conn_sent, GoTo, Become
    <2> QED
      BY <1>0, <2>1, <2>2 DEF TryInv, Sent, CompactTypeOK, ExecutePlaces, ReadPlaces, LineStates,
                              ReceiveStates
  <1>4. CASE ReceiveHeaderFromXIO
    <2>1. Quiet /\ served + TriesAfter <= 3
      BY <1>4 DEF ReceiveHeaderFromXIO, TryInv, Sent, Quiet
    <2>2. Idle(Now)
      BY <2>1, NowFields DEF Idle, Quiet
    <2>3. ReadStep
      BY <1>4, <2>2, IdleUpdate, IdleGoesOn DEF ReceiveHeaderFromXIO, ReadPlaces, LineStates
    <2>4. pc' = "status"
      BY <1>4 DEF ReceiveHeaderFromXIO, ReadLineAt
    <2>5. CompactTypeOK'
      BY <2>1, <2>3 DEF Quiet, ReadStep, CompactTypeOK
    <2>6. Quiet' /\ served' + TriesAfter' <= 3 /\ conn' # "none"
      BY <1>0, <2>1, <2>3 DEF ReadStep
    <2> QED
      BY <2>4, <2>5, <2>6 DEF TryInv, ExecutePlaces, ReadPlaces, LineStates, ReceiveStates
  <1> QED
    BY <1>1, <1>2, <1>3, <1>4

\* What is read does not bring the request back to the server.
LEMMA ReadsKeep ==
    ASSUME CompactTypeOK, st \in [Levels -> BOOLEAN], st' = st, Quiet, served + TriesAfter <= 3,
           ReadStep
    PROVE  /\ conn' # "none" /\ pc' \in ExecutePlaces /\ TryInv' /\ CompactTypeOK'
  <1>1. CompactTypeOK'
    BY DEF CompactTypeOK, ReadStep, Quiet
  <1>2. TriesAfter' = TriesAfter
    BY DEF TriesAfter, Untried
  <1>3. served' + TriesAfter' <= 3 /\ Quiet' /\ conn' # "none" /\ pc' \in ReadPlaces \cup {"executed"}
    BY <1>2 DEF ReadStep
  <1> QED
    BY <1>1, <1>3 DEF TryInv, ExecutePlaces, ReadPlaces, LineStates, ReceiveStates

\* One step of HTTPAPI_ExecuteRequest.
LEMMA ExecuteKeeps ==
    ASSUME CompactTypeOK, RetryAssumption, st \in [Levels -> BOOLEAN], st' = st, conn # "none",
           TryInv, pc \in ExecutePlaces, CompactNext
    PROVE  /\ conn' # "none" /\ pc' \in ExecutePlaces /\ TryInv' /\ CompactTypeOK'
  <1>1. CASE OpenXIOConnection \/ opening_loop \/ opening_done
    BY <1>1, OpensKeep
  <1>2. CASE conn_send_all \/ conn_send_all_loop \/ conn_sent \/ ReceiveHeaderFromXIO
    BY <1>2, SendsKeep
  <1>3. CASE readLine_more \/ readLine_failed \/ status_line \/ header_line \/ body_begin \/ chunk_size
    <2>1. pc \in LineStates
      BY <1>3 DEF readLine_more, readLine_failed, status_line, header_line, body_begin, chunk_size, LineStates
    <2>2. Quiet /\ served + TriesAfter <= 3
      BY <2>1 DEF TryInv, ReadPlaces
    <2> QED
      BY <1>3, <2>2, ReadsLine, ReadsKeep DEF CompactTypeOK
  <1>4. CASE conn_receive_more \/ conn_receive_failed \/ body_read \/ chunk_read \/ chunk_end \/ last_chunk
    <2>1. pc \in ReceiveStates
      BY <1>4 DEF conn_receive_more, conn_receive_failed, body_read, chunk_read, chunk_end, last_chunk,
                  ReceiveStates
    <2>2. Quiet /\ served + TriesAfter <= 3
      BY <2>1 DEF TryInv, ReadPlaces
    <2> QED
      BY <1>4, <2>2, ReadsBody, ReadsKeep DEF CompactTypeOK
  <1>5. ~(CloseConnection \/ closing_loop \/ closing_done)
    BY DEF CloseConnection, closing_loop, closing_done, ExecutePlaces, ReadPlaces, LineStates, ReceiveStates
  <1> QED
    BY <1>1, <1>2, <1>3, <1>4, <1>5 DEF CompactNext

-----------------------------------------------------------------------------
(* Closing.                                                                 *)

LEMMA ClosesKeep ==
    ASSUME CompactTypeOK, RetryAssumption, CloseInv, CompactNext
    PROVE  CloseInv' /\ served' = served /\ CompactTypeOK'
  <1>0. Fields(Now) /\ Now.conn = conn /\ Now.sending = sending /\ Now.pieces = pieces
        /\ Now.served = served /\ Now.completed = send_completed
    BY NowFields
  <1>b. ASSUME NEW o, Become(o), o.served = served, o.pieces \in Nat, o.sending \in BOOLEAN,
               o.completed \in BOOLEAN, todo' = todo \/ todo' = 0
        PROVE  served' = served /\ conn' = o.conn /\ CompactTypeOK'
    BY <1>b DEF Become, CompactTypeOK
  <1>1. CASE CloseConnection
    <2> DEFINE Calm(o) == /\ Fields(o) /\ o.served = served /\ o.pieces = pieces
                          /\ o.sending = sending /\ o.completed = send_completed
    <2>0. Calm(Now)
      BY <1>0
    <2>1. ASSUME NEW a, Calm(a), NEW x
          PROVE  /\ Calm([a EXCEPT !.err = x]) /\ [a EXCEPT !.err = x].conn = a.conn
                 /\ Calm([a EXCEPT !.connected = x]) /\ [a EXCEPT !.connected = x].conn = a.conn
                 /\ Calm([a EXCEPT !.wire = x]) /\ [a EXCEPT !.wire = x].conn = a.conn
                 /\ Calm([a EXCEPT !.conn = x]) /\ [a EXCEPT !.conn = x].conn = x
      <3>1. ASSUME NEW c, c = [a EXCEPT !.err = x] PROVE Calm(c) /\ c.conn = a.conn
        BY <2>1, <3>1 DEF Fields
      <3>2. ASSUME NEW c, c = [a EXCEPT !.connected = x] PROVE Calm(c) /\ c.conn = a.conn
        BY <2>1, <3>2 DEF Fields
      <3>3. ASSUME NEW c, c = [a EXCEPT !.wire = x] PROVE Calm(c) /\ c.conn = a.conn
        BY <2>1, <3>3 DEF Fields
      <3>4. ASSUME NEW c, c = [a EXCEPT !.conn = x] PROVE Calm(c) /\ c.conn = x
        BY <2>1, <3>4 DEF Fields
      <3> QED
        BY <3>1, <3>2, <3>3, <3>4
    <2>2. PICK o : Calm(o) /\ o.conn \notin {"open", "opening"} /\ GoTo(o, "closing")
      <3> DEFINE clear == [Now EXCEPT !.err = FALSE]
                 closing == [clear EXCEPT !.conn = "closing", !.wire = <<>>]
                 reset == [clear EXCEPT !.connected = FALSE]
                 refused_ == [clear EXCEPT !.conn = "closed", !.err = TRUE]
      <3>0. Calm(clear) /\ clear.conn = conn
        <4> HIDE DEF Calm
        <4> QED
          BY <2>0, <2>1, <1>0
      <3>1. CASE conn \notin {"open", "failed", "opening"} /\ GoTo(reset, "closing")
        <4>1. Calm(reset) /\ reset.conn = conn
          <5> HIDE DEF Calm, clear
          <5> QED
            BY <3>0, <2>1
        <4> QED
          BY <3>1, <4>1
      <3>2. CASE GoTo(refused_, "closing")
        <4>1. ASSUME NEW c, c = [clear EXCEPT !.conn = "closed", !.err = TRUE]
              PROVE  Calm(c) /\ c.conn = "closed"
          BY <3>0, <4>1 DEF Fields
        <4> QED
          BY <3>2, <4>1
      <3>3. ASSUME NEW o \in {closing} \cup on_io_close_complete(closing), GoTo(o, "closing")
            PROVE  Calm(o) /\ o.conn \notin {"open", "opening"}
        <4>1. ASSUME NEW c, c = [clear EXCEPT !.conn = "closing", !.wire = <<>>]
              PROVE  Calm(c) /\ c.conn = "closing"
          BY <3>0, <4>1 DEF Fields
        <4>2. Calm(closing) /\ closing.conn = "closing"
          BY <4>1
        <4> HIDE DEF closing
        <4>3. CASE o \in on_io_close_complete(closing)
          <5>1. Unsent(closing, o) /\ o.sending = closing.sending /\ Fields(o)
                /\ o.conn \in {closing.conn, "failed", "closed"}
            BY <4>2, <4>3, OthersLead DEF Leads, CompactTypeOK
          <5> QED
            BY <4>2, <5>1 DEF Unsent
        <4> QED
          BY <3>3, <4>2, <4>3
      <3>4. \/ conn \notin {"open", "failed", "opening"} /\ GoTo(reset, "closing")
            \/ GoTo(refused_, "closing")
            \/ \E o \in {closing} \cup on_io_close_complete(closing) : GoTo(o, "closing")
        BY <1>1 DEF CloseConnection
      <3> QED
        BY <3>1, <3>2, <3>3, <3>4
    <2>3. served' = served /\ conn' = o.conn /\ CompactTypeOK'
      BY <1>1, <1>b, <2>2 DEF GoTo, CompactTypeOK, CloseConnection
    <2> QED
      BY <2>2, <2>3 DEF CloseInv, ClosePlaces, GoTo
  <1>2. CASE closing_loop
    <2>0. conn \notin {"open", "opening"}
      BY <1>2 DEF closing_loop, CloseInv
    <2>1. PICK o \in xio_dowork : \E x : GoTo([o EXCEPT !.connected = x], "closing")
      BY <1>2 DEF closing_loop
    <2>2. PICK x : GoTo([o EXCEPT !.connected = x], "closing")
      BY <2>1
    <2>3. Leads(Now, o)
      BY DoworkLeads DEF CompactTypeOK
    <2>4. Unsent(Now, o) /\ Fields(o) /\ o.conn \notin {"open", "opening"}
      BY <1>0, <2>0, <2>3 DEF Leads, OneSent
    <2>5. ASSUME NEW c, c = [o EXCEPT !.connected = x]
          PROVE  /\ c.conn = o.conn /\ c.served = served /\ c.pieces = pieces
                 /\ c.sending \in BOOLEAN /\ c.completed = send_completed
      BY <1>0, <2>4, <2>5 DEF Fields, Unsent
    <2>6. served' = served /\ conn' = o.conn /\ CompactTypeOK'
      BY <1>2, <1>b, <2>2, <2>5 DEF GoTo, CompactTypeOK, closing_loop
    <2> QED
      BY <2>2, <2>4, <2>6 DEF CloseInv, ClosePlaces, GoTo
  <1>3. CASE closing_done
    <2> DEFINE gone == [Now EXCEPT !.conn = "none", !.sending = FALSE, !.pieces = 0, !.wire = <<>>,
                                   !.err = FALSE, !.completed = FALSE, !.received = <<>>]
    <2>1. ASSUME NEW c, c = gone
          PROVE  /\ c.conn = "none" /\ c.served = served /\ c.pieces \in Nat
                 /\ c.sending \in BOOLEAN /\ c.completed \in BOOLEAN
      BY <1>0, <2>1 DEF Fields
    <2>2. GoTo(gone, "closed") /\ todo' = 0
      BY <1>3 DEF closing_done, NoLocals
    <2> HIDE DEF gone
    <2>3. served' = served /\ conn' = "none" /\ CompactTypeOK'
      <3>1. gone.conn = "none" /\ gone.served = served /\ gone.pieces \in Nat
            /\ gone.sending \in BOOLEAN /\ gone.completed \in BOOLEAN
        BY <2>1
      <3>2. Become(gone)
        BY <2>2 DEF GoTo
      <3> QED
        BY <1>b, <2>2, <3>1, <3>2
    <2> QED
      BY <2>2, <2>3 DEF CloseInv, ClosePlaces, GoTo
  <1> QED
    BY <1>1, <1>2, <1>3 DEF CompactNext, CloseInv, ClosePlaces, OpenXIOConnection, opening_loop,
       opening_done, conn_send_all, conn_send_all_loop, conn_sent, ReceiveHeaderFromXIO,
       readLine_more, readLine_failed, status_line, header_line, body_begin, conn_receive_more,
       conn_receive_failed, body_read, chunk_size, chunk_read, chunk_end, last_chunk, LineStates,
       ReceiveStates

-----------------------------------------------------------------------------
(* The ladder.                                                              *)

LEMMA TriesTyped ==
    ASSUME ExTypeOK
    PROVE  Untried(0) \in 0 .. 1 /\ Untried(1) \in 0 .. 1 /\ TriesAfter \in Nat /\ TriesLeft \in Nat
  BY DEF ExTypeOK, Untried, TriesAfter, TriesLeft, Levels

\* Going down leaves no more tries than there were, and undoes what the level had made.
LEMMA UndoKeeps ==
    ASSUME CompactTypeOK, ExTypeOK, Undo, k >= 0, ex_pc \in {"ladder", "executing"},
           inits = (IF k >= 1 THEN 1 ELSE 0), k # 2 => pc = "idle" /\ conn = "none",
           IF k = 2 THEN served + TriesAfter <= 3 ELSE served + TriesLeft <= 3,
           UNCHANGED <<xioVars, flagVars, localVars, savedOptions, sets>>
    PROVE  HttpInv'
  <1>0. Untried(0) \in 0 .. 1 /\ Untried(1) \in 0 .. 1 /\ k \in 0 .. 2
    BY TriesTyped DEF ExTypeOK
  <1>1. /\ k' = k - 1 /\ st' = [st EXCEPT ![k] = FALSE]
        /\ inits' = IF k = 1 THEN inits - 1 ELSE inits
    BY DEF Undo, Down
  <1>2. CompactTypeOK' /\ served' = served /\ conn' = conn
    BY DEF CompactTypeOK, xioVars, flagVars, localVars
  <1>3. connOptions' \in [Options -> Nat] /\ savedOptions' = savedOptions /\ sets' = sets
    BY DEF Undo, Unset, ExTypeOK
  <1>4. ExTypeOK'
    BY <1>0, <1>1, <1>3 DEF Undo, ExTypeOK, Levels
  <1>5. OptionInv'
    BY <1>0, <1>1 DEF OptionInv
  <1>6. LadderInv'
    <2>1. CASE k = 2
      <3>1. Untried(0)' = Untried(0) /\ Untried(1)' = Untried(1)
        BY <1>1, <2>1 DEF Untried, ExTypeOK, Levels
      <3>2. TriesLeft' = TriesAfter
        BY <1>1, <2>1, <3>1 DEF TriesLeft, TriesAfter
      <3>3. ex_pc' = "closing" /\ pc' = "close" /\ k' = 1 /\ inits' = 1
        BY <1>1, <2>1 DEF Undo
      <3> QED
        BY <1>2, <2>1, <3>2, <3>3 DEF LadderInv, CloseInv, ClosePlaces
    <2>2. CASE k # 2
      <3>1. ex_pc' = "ladder" /\ pc' = "idle" /\ conn' = "none" /\ k' \in {-1, 0}
            /\ inits' = 0
        BY <1>0, <1>1, <1>2, <2>2 DEF Undo
      <3>2. served' + TriesLeft' <= 3
        <4>1. CASE k = 1
          <5>1. Untried(0)' = Untried(0)
            BY <1>1, <4>1 DEF Untried, ExTypeOK, Levels
          <5>2. TriesLeft' = Untried(0) /\ TriesLeft = Untried(1) + Untried(0)
            BY <1>1, <4>1, <5>1 DEF TriesLeft, TriesAfter
          <5> QED
            BY <1>0, <1>2, <2>2, <5>2 DEF CompactTypeOK
        <4>2. CASE k = 0
          <5>1. TriesLeft' = 0
            BY <1>1, <4>2 DEF TriesLeft
          <5> QED
            BY <1>2, <5>1 DEF CompactTypeOK
        <4> QED
          BY <1>0, <2>2, <4>1, <4>2
      <3> QED
        BY <3>1, <3>2 DEF LadderInv
    <2> QED
      BY <2>1, <2>2
  <1> QED
    BY <1>2, <1>4, <1>5, <1>6 DEF HttpInv

LEMMA HttpInit == Init => HttpInv
  <1> SUFFICES ASSUME Init
               PROVE  HttpInv
    OBVIOUS
  <1>1. CompactTypeOK
    <2>1. served = 0 /\ pieces = 0 /\ todo = 0 /\ sending = FALSE /\ send_completed = FALSE
      BY DEF Init, CompactInit
    <2>2. sending \in BOOLEAN /\ send_completed \in BOOLEAN
      BY <2>1
    <2> QED
      BY <2>1, <2>2 DEF CompactTypeOK
  <1>2. ExTypeOK
    BY DEF Init, ExTypeOK, NoneTried, Unset
  <1>3. LadderInv
    BY DEF Init, CompactInit, LadderInv
  <1>4. OptionInv
    BY DEF Init, OptionInv
  <1> QED
    BY <1>1, <1>2, <1>3, <1>4 DEF HttpInv

LEMMA RequestsKeep == HttpInv /\ HTTPAPIEX_ExecuteRequest => HttpInv'
  <1> SUFFICES ASSUME HttpInv, HTTPAPIEX_ExecuteRequest
               PROVE  HttpInv'
    OBVIOUS
  <1>0. /\ ex_pc = "idle" /\ pc = "idle" /\ k \in {-1, 2} /\ (k = 2 <=> conn # "none")
        /\ inits = (IF k >= 1 THEN 1 ELSE 0) /\ (k = 2 => Quiet)
    BY DEF HTTPAPIEX_ExecuteRequest, HttpInv, LadderInv
  <1>1. /\ conn' = conn /\ sending' = sending /\ pieces' = pieces /\ send_completed' = send_completed
        /\ todo' = todo /\ pc' = pc /\ inits' = inits /\ savedOptions' = savedOptions
        /\ connOptions' = connOptions /\ refused' = refused /\ sets' = sets
    BY DEF HTTPAPIEX_ExecuteRequest, flagVars, localVars
  <1>q. Quiet' = Quiet
    BY <1>1 DEF Quiet
  <1>2. CASE buildAllRequests_failed
    <2>1. served' = served /\ k' = k /\ st' = st /\ ex_pc' = ex_pc
      BY <1>2 DEF buildAllRequests_failed
    <2>2. CompactTypeOK' /\ ExTypeOK'
      BY <1>1, <2>1 DEF HttpInv, CompactTypeOK, ExTypeOK
    <2>3. LadderInv' /\ OptionInv'
      BY <1>0, <1>1, <1>q, <2>1 DEF HttpInv, LadderInv, OptionInv
    <2> QED
      BY <2>2, <2>3 DEF HttpInv
  <1>3. CASE ~buildAllRequests_failed
    <2>1. /\ served' = 0 /\ ex_pc' = "ladder" /\ st' = NoneTried
          /\ k' = IF k = -1 THEN 0 ELSE k
      BY <1>3 DEF HTTPAPIEX_ExecuteRequest, buildAllRequests
    <2>2. CompactTypeOK'
      BY <1>1, <2>1 DEF HttpInv, CompactTypeOK
    <2>3. ExTypeOK'
      BY <1>0, <1>1, <2>1 DEF HttpInv, ExTypeOK, NoneTried
    <2>4. served' + TriesLeft' <= 3
      BY <1>0, <2>1 DEF TriesLeft, TriesAfter, Untried, NoneTried, Levels
    <2>5. LadderInv'
      BY <1>0, <1>1, <1>q, <2>1, <2>4 DEF LadderInv
    <2>6. OptionInv'
      BY <1>0, <1>1, <2>1 DEF HttpInv, OptionInv
    <2> QED
      BY <2>2, <2>3, <2>5, <2>6 DEF HttpInv
  <1> QED
    BY <1>2, <1>3

\* What is saved is set on the connection as well, or the option was refused.
LEMMA OptionsKeep == HttpInv /\ (\E o \in Options : HTTPAPIEX_SetOption(o)) => HttpInv'
  <1> SUFFICES ASSUME HttpInv, NEW o \in Options, HTTPAPIEX_SetOption(o)
               PROVE  HttpInv'
    OBVIOUS
  <1>1. UNCHANGED <<compactVars, k, st, ex_pc, inits>> /\ ex_pc = "idle"
    BY DEF HTTPAPIEX_SetOption
  <1>2. CompactTypeOK'
    BY <1>1 DEF HttpInv, CompactTypeOK, compactVars, xioVars, flagVars, localVars
  <1>3. (k = 2 <=> conn # "none") /\ sets \in Nat
        /\ savedOptions \in [Options -> Nat] /\ connOptions \in [Options -> Nat]
    BY <1>1 DEF HttpInv, LadderInv, ExTypeOK
  <1>4. LadderInv'
    BY <1>1 DEF HttpInv, LadderInv, Quiet, compactVars, xioVars
  <1>5. CASE HTTPAPI_CloneOption_failed
    BY <1>1, <1>2, <1>4, <1>5 DEF HTTPAPI_CloneOption_failed, HTTPAPIEX_SetOption, HttpInv, ExTypeOK, OptionInv
  <1>6. CASE createOrUpdateOption(o, sets + 1) /\ conn = "none" /\ UNCHANGED <<connOptions, refused>>
    <2>1. savedOptions' = [savedOptions EXCEPT ![o] = sets + 1] /\ sets' = sets + 1
      BY <1>6 DEF createOrUpdateOption, HTTPAPIEX_SetOption
    <2>2. ExTypeOK'
      BY <1>1, <1>3, <1>6, <2>1 DEF HttpInv, ExTypeOK
    <2>3. OptionInv'
      BY <1>1, <1>3, <1>6 DEF OptionInv
    <2> QED
      BY <1>2, <1>4, <2>2, <2>3 DEF HttpInv
  <1>7. CASE createOrUpdateOption(o, sets + 1) /\ conn # "none" /\ SetOnConnection(o, sets + 1)
    <2>1. savedOptions' = [savedOptions EXCEPT ![o] = sets + 1] /\ sets' = sets + 1
      BY <1>7 DEF createOrUpdateOption, HTTPAPIEX_SetOption
    <2>2. \/ connOptions' = [connOptions EXCEPT ![o] = sets + 1] /\ refused' = refused \ {o}
          \/ connOptions' = [connOptions EXCEPT ![o] = 0] /\ refused' = refused \cup {o}
      BY <1>7 DEF SetOnConnection
    <2>3. ExTypeOK'
      BY <1>1, <1>3, <2>1, <2>2 DEF HttpInv, ExTypeOK
    <2>4. \A p \in Options \ refused : connOptions[p] = savedOptions[p]
      BY <1>1, <1>3, <1>7 DEF HttpInv, OptionInv
    <2>5. ASSUME NEW p \in Options \ refused'
          PROVE  connOptions'[p] = savedOptions'[p]
      BY <1>3, <2>1, <2>2, <2>4
    <2> QED
      BY <1>2, <1>4, <2>3, <2>5 DEF HttpInv, OptionInv
  <1> QED
    BY <1>5, <1>6, <1>7 DEF HTTPAPIEX_SetOption

LEMMA LevelTriedKeeps == HttpInv /\ level_tried => HttpInv'
  <1> SUFFICES ASSUME HttpInv, level_tried
               PROVE  HttpInv'
    OBVIOUS
  <1>0. /\ ex_pc = "ladder" /\ k >= 0 /\ Undo
        /\ UNCHANGED <<xioVars, flagVars, localVars, savedOptions, sets>>
    BY DEF level_tried
  <1>1. /\ pc = "idle" /\ (k = 2 <=> conn # "none") /\ inits = (IF k >= 1 THEN 1 ELSE 0)
        /\ served + TriesLeft <= 3
    BY <1>0 DEF HttpInv, LadderInv
  <1>2. CompactTypeOK /\ ExTypeOK
    BY DEF HttpInv
  <1>3. k = 2 => served + TriesAfter <= 3
    BY <1>1, <1>2, TriesTyped DEF TriesLeft, CompactTypeOK
  <1> QED
    BY <1>0, <1>1, <1>2, <1>3, UndoKeeps

LEMMA LevelInitKeeps == HttpInv /\ level_init => HttpInv'
  <1> SUFFICES ASSUME HttpInv, level_init
               PROVE  HttpInv'
    OBVIOUS
  <1>0. /\ ex_pc = "ladder" /\ k = 0 /\ ~st[0]
        /\ UNCHANGED <<xioVars, flagVars, localVars, savedOptions, sets>>
    BY DEF level_init, Tried
  <1>1. /\ pc = "idle" /\ conn = "none" /\ inits = 0 /\ served + TriesLeft <= 3
    BY <1>0 DEF HttpInv, LadderInv
  <1>2. CompactTypeOK /\ ExTypeOK
    BY DEF HttpInv
  <1>3. CASE Undo
    BY <1>0, <1>1, <1>2, <1>3, UndoKeeps
  <1>4. CASE Up /\ inits' = inits + 1 /\ UNCHANGED <<ex_pc, pc, connOptions, refused>>
    <2>1. k' = 1 /\ inits' = 1 /\ st' = [st EXCEPT ![0] = TRUE, ![1] = FALSE]
      BY <1>0, <1>1, <1>4 DEF Up
    <2>2. CompactTypeOK' /\ served' = served /\ conn' = conn
      BY <1>0, <1>2 DEF CompactTypeOK, xioVars, flagVars, localVars
    <2>3. ExTypeOK'
      <3>1. st' \in [Levels -> BOOLEAN]
        BY <1>2, <2>1 DEF ExTypeOK
      <3>2. k' \in -1 .. 2 /\ inits' \in Int
        BY <2>1
      <3>3. UNCHANGED <<ex_pc, savedOptions, connOptions, sets>>
        BY <1>0, <1>4
      <3> QED
        BY <1>2, <3>1, <3>2, <3>3 DEF ExTypeOK
    <2>4. TriesLeft' = TriesLeft
      BY <1>0, <1>2, <2>1 DEF TriesLeft, TriesAfter, Untried, ExTypeOK, Levels
    <2>5. LadderInv'
      BY <1>0, <1>1, <1>4, <2>1, <2>2, <2>4 DEF LadderInv
    <2>6. OptionInv'
      BY <2>1 DEF OptionInv
    <2> QED
      BY <2>2, <2>3, <2>5, <2>6 DEF HttpInv
  <1> QED
    BY <1>3, <1>4 DEF level_init

\* A new connection gets every option that was saved.
LEMMA LevelCreateKeeps == HttpInv /\ level_create => HttpInv'
  <1> SUFFICES ASSUME HttpInv, level_create
               PROVE  HttpInv'
    OBVIOUS
  <1>0. ex_pc = "ladder" /\ k = 1 /\ ~st[1] /\ UNCHANGED <<savedOptions, sets>>
    BY DEF level_create, Tried
  <1>1. /\ pc = "idle" /\ conn = "none" /\ inits = 1 /\ served + TriesLeft <= 3
    BY <1>0 DEF HttpInv, LadderInv
  <1>2. CompactTypeOK /\ ExTypeOK
    BY DEF HttpInv
  <1>3. CASE Undo /\ UNCHANGED <<xioVars, flagVars, localVars, answerVars, http_result>>
    BY <1>0, <1>1, <1>2, <1>3, UndoKeeps
  <1>4. ASSUME Up, UNCHANGED <<inits, ex_pc>>, CreateConnection,
               NEW failed \in SUBSET {o \in Options : savedOptions[o] # 0},
               refused' = failed,
               connOptions' = [o \in Options |-> IF o \in failed THEN 0 ELSE savedOptions[o]]
        PROVE  HttpInv'
    <2>1. k' = 2 /\ inits' = 1 /\ st' = [st EXCEPT ![1] = TRUE, ![2] = FALSE]
      BY <1>0, <1>1, <1>4 DEF Up
    <2>2. ASSUME NEW c, c = [Now EXCEPT !.conn = "closed", !.sending = FALSE, !.pieces = 0,
                                        !.wire = <<>>, !.connected = FALSE, !.err = FALSE,
                                        !.received = <<>>]
          PROVE  /\ c.conn = "closed" /\ c.sending = FALSE /\ c.pieces = 0 /\ c.served = served
                 /\ c.completed = send_completed
      BY <2>2 DEF Now
    <2>3. /\ conn' = "closed" /\ sending' = FALSE /\ pieces' = 0 /\ served' = served
          /\ send_completed' = send_completed /\ pc' = pc /\ todo' = todo
      BY <1>4, <2>2 DEF CreateConnection, Become, localVars
    <2>4. CompactTypeOK'
      BY <1>2, <2>3 DEF CompactTypeOK
    <2>5. ExTypeOK'
      <3>1. st' \in [Levels -> BOOLEAN]
        BY <1>2, <2>1 DEF ExTypeOK
      <3>2. connOptions' \in [Options -> Nat]
        BY <1>2, <1>4 DEF ExTypeOK
      <3>3. k' \in -1 .. 2 /\ inits' \in Int
        BY <2>1
      <3>4. UNCHANGED <<ex_pc, savedOptions, sets>>
        BY <1>0, <1>4
      <3> QED
        BY <1>2, <3>1, <3>2, <3>3, <3>4 DEF ExTypeOK
    <2>6. TriesLeft' = TriesLeft
      BY <1>0, <1>2, <2>1 DEF TriesLeft, TriesAfter, Untried, ExTypeOK, Levels
    <2>7. LadderInv'
      BY <1>0, <1>1, <1>4, <2>1, <2>3, <2>6 DEF LadderInv, Quiet
    <2>8. OptionInv'
      BY <1>0, <1>4 DEF OptionInv
    <2> QED
      BY <2>4, <2>5, <2>7, <2>8 DEF HttpInv
  <1> QED
    BY <1>3, <1>4 DEF level_create

LEMMA LevelExecuteKeeps == HttpInv /\ level_execute => HttpInv'
  <1> SUFFICES ASSUME HttpInv, level_execute
               PROVE  HttpInv'
    OBVIOUS
  <1>0. /\ ex_pc = "ladder" /\ k = 2 /\ ex_pc' = "executing" /\ pc' = "execute"
        /\ UNCHANGED <<xioVars, flagVars, localVars, k, st, inits, savedOptions, connOptions, refused, sets>>
    BY DEF level_execute
  <1>1. conn # "none" /\ inits = 1 /\ served + TriesLeft <= 3 /\ Quiet
    BY <1>0 DEF HttpInv, LadderInv
  <1>2. CompactTypeOK /\ ExTypeOK
    BY DEF HttpInv
  <1>3. CompactTypeOK' /\ ExTypeOK'
    BY <1>0, <1>2 DEF CompactTypeOK, ExTypeOK, xioVars, flagVars, localVars
  <1>4. TriesAfter' = TriesAfter /\ TriesLeft = 1 + TriesAfter /\ TriesAfter \in Nat
    BY <1>0, <1>2, TriesTyped DEF TriesAfter, TriesLeft, Untried
  <1>5. Quiet' /\ served' + 1 + TriesAfter' <= 3 /\ conn' # "none"
    BY <1>0, <1>1, <1>2, <1>4 DEF Quiet, xioVars, CompactTypeOK
  <1>6. TryInv' /\ pc' \in ExecutePlaces
    BY <1>0, <1>5 DEF TryInv, ExecutePlaces, ReadPlaces, LineStates, ReceiveStates
  <1>7. LadderInv'
    BY <1>0, <1>1, <1>5, <1>6 DEF LadderInv
  <1>8. OptionInv'
    BY <1>0 DEF HttpInv, OptionInv
  <1> QED
    BY <1>3, <1>7, <1>8 DEF HttpInv

LEMMA LevelExecutedKeeps == HttpInv /\ level_executed => HttpInv'
  <1> SUFFICES ASSUME HttpInv, level_executed
               PROVE  HttpInv'
    OBVIOUS
  <1>0. /\ ex_pc = "executing" /\ pc = "executed"
        /\ UNCHANGED <<xioVars, flagVars, localVars, savedOptions, sets>>
    BY DEF level_executed
  <1>1. /\ k = 2 /\ conn # "none" /\ inits = 1 /\ served + TriesAfter <= 3
        /\ http_result = "OK" => Quiet
    BY <1>0 DEF HttpInv, LadderInv, TryInv
  <1>2. CompactTypeOK /\ ExTypeOK
    BY DEF HttpInv
  <1>3. CASE /\ http_result = "OK" /\ ex_pc' = "idle" /\ pc' = "idle"
             /\ UNCHANGED <<k, st, inits, connOptions, refused>>
    <2>1. CompactTypeOK' /\ ExTypeOK'
      BY <1>0, <1>2, <1>3 DEF CompactTypeOK, ExTypeOK, xioVars, flagVars, localVars
    <2>2. LadderInv'
      BY <1>0, <1>1, <1>3 DEF LadderInv, Quiet, xioVars
    <2>3. OptionInv'
      BY <1>0, <1>3 DEF HttpInv, OptionInv
    <2> QED
      BY <2>1, <2>2, <2>3 DEF HttpInv
  <1>4. CASE Undo
    BY <1>0, <1>1, <1>2, <1>4, UndoKeeps
  <1> QED
    BY <1>3, <1>4 DEF level_executed

LEMMA EndsKeep ==
    HttpInv /\ (level_closed \/ ladder_down \/ HTTPAPIEX_Destroy \/ destroy_closed) => HttpInv'
  <1> SUFFICES ASSUME HttpInv, level_closed \/ ladder_down \/ HTTPAPIEX_Destroy \/ destroy_closed
               PROVE  HttpInv'
    OBVIOUS
  <1>0. UNCHANGED <<xioVars, flagVars, localVars, k, st, savedOptions, sets>>
    BY DEF level_closed, ladder_down, HTTPAPIEX_Destroy, destroy_closed, compactVars
  <1>1. CompactTypeOK'
    BY <1>0 DEF HttpInv, CompactTypeOK, xioVars, flagVars, localVars
  <1>2. ExTypeOK'
    BY <1>0 DEF HttpInv, ExTypeOK, level_closed, ladder_down, HTTPAPIEX_Destroy, destroy_closed, Unset
  <1>3. TriesLeft' = TriesLeft /\ Quiet' = Quiet /\ served' = served /\ conn' = conn
    BY <1>0 DEF TriesLeft, TriesAfter, Untried, Quiet, xioVars
  <1>4. CASE level_closed
    <2>1. LadderInv'
      BY <1>0, <1>3, <1>4 DEF HttpInv, LadderInv, CloseInv, level_closed
    <2>2. OptionInv'
      BY <1>0, <1>4 DEF HttpInv, LadderInv, OptionInv, level_closed
    <2> QED
      BY <1>1, <1>2, <2>1, <2>2 DEF HttpInv
  <1>5. CASE ladder_down
    <2>1. LadderInv'
      BY <1>0, <1>3, <1>5 DEF HttpInv, LadderInv, ladder_down, compactVars
    <2>2. OptionInv'
      BY <1>0, <1>5 DEF HttpInv, OptionInv, ladder_down
    <2> QED
      BY <1>1, <1>2, <2>1, <2>2 DEF HttpInv
  <1>6. CASE HTTPAPIEX_Destroy
    <2>1. LadderInv'
      BY <1>0, <1>3, <1>6 DEF HttpInv, LadderInv, CloseInv, ClosePlaces, HTTPAPIEX_Destroy
    <2>2. OptionInv'
      BY <1>6 DEF OptionInv, HTTPAPIEX_Destroy
    <2> QED
      BY <1>1, <1>2, <2>1, <2>2 DEF HttpInv
  <1>7. CASE destroy_closed
    <2>1. LadderInv'
      BY <1>0, <1>3, <1>7 DEF HttpInv, LadderInv, CloseInv, destroy_closed
    <2>2. OptionInv'
      BY <1>7 DEF OptionInv, destroy_closed
    <2> QED
      BY <1>1, <1>2, <2>1, <2>2 DEF HttpInv
  <1> QED
    BY <1>4, <1>5, <1>6, <1>7

\* A step of the blocking client happens only while a request is executed or a connection closed.
LEMMA CompactKeeps == HttpInv /\ CompactNext /\ UNCHANGED exVars => HttpInv'
  <1> SUFFICES ASSUME HttpInv, CompactNext, UNCHANGED exVars
               PROVE  HttpInv'
    OBVIOUS
  <1>0. UNCHANGED <<k, st, ex_pc, inits, savedOptions, connOptions, refused, sets>>
    BY DEF exVars
  <1>1. CompactTypeOK /\ ExTypeOK
    BY DEF HttpInv
  <1>2. ExTypeOK' /\ OptionInv'
    BY <1>0 DEF HttpInv, ExTypeOK, OptionInv
  <1>3. TriesLeft' = TriesLeft
    BY <1>0 DEF TriesLeft, TriesAfter, Untried
  <1>4. CASE ex_pc = "executing"
    <2>1. k = 2 /\ conn # "none" /\ inits = 1 /\ pc \in ExecutePlaces /\ TryInv
      BY <1>4 DEF HttpInv, LadderInv
    <2>2. conn' # "none" /\ pc' \in ExecutePlaces /\ TryInv' /\ CompactTypeOK'
      BY <1>0, <1>1, <2>1, ExecuteKeeps, RetryAssumption DEF ExTypeOK
    <2>3. LadderInv'
      BY <1>0, <1>4, <2>1, <2>2 DEF LadderInv
    <2> QED
      BY <1>2, <2>2, <2>3 DEF HttpInv
  <1>5. CASE ex_pc \in {"closing", "destroying"}
    <2>1. CloseInv
      BY <1>5 DEF HttpInv, LadderInv
    <2>2. CloseInv' /\ served' = served /\ CompactTypeOK'
      BY <1>1, <2>1, ClosesKeep, RetryAssumption
    <2>3. LadderInv'
      BY <1>0, <1>3, <1>5, <2>2 DEF HttpInv, LadderInv
    <2> QED
      BY <1>2, <2>2, <2>3 DEF HttpInv
  <1>6. CASE pc = "idle"
    BY <1>6 DEF CompactNext, OpenXIOConnection, opening_loop,
       opening_done, conn_send_all, conn_send_all_loop, conn_sent, ReceiveHeaderFromXIO,
       readLine_more, readLine_failed, status_line, header_line, body_begin, conn_receive_more,
       conn_receive_failed, body_read, chunk_size, chunk_read, chunk_end, last_chunk, LineStates,
       ReceiveStates, CloseConnection, closing_loop, closing_done
  <1> QED
    BY <1>1, <1>4, <1>5, <1>6 DEF HttpInv, LadderInv, ExTypeOK

LEMMA HttpNext == HttpInv /\ [Next]_vars => HttpInv'
  <1> SUFFICES ASSUME HttpInv, [Next]_vars
               PROVE  HttpInv'
    OBVIOUS
  <1>1. CASE UNCHANGED vars
    <2>1. CompactTypeOK' /\ ExTypeOK'
      BY <1>1 DEF HttpInv, CompactTypeOK, ExTypeOK, vars, compactVars, exVars, xioVars, flagVars, localVars
    <2>2. TriesAfter' = TriesAfter /\ TriesLeft' = TriesLeft /\ Quiet' = Quiet
      BY <1>1 DEF TriesAfter, TriesLeft, Untried, Quiet, vars, compactVars, exVars, xioVars
    <2>3. \A n : Sent(n)' = Sent(n)
      BY <1>1, <2>2 DEF Sent, vars, compactVars, xioVars
    <2>4. TryInv' = TryInv /\ CloseInv' = CloseInv
      BY <1>1 DEF TryInv, CloseInv, TriesAfter, Untried, Quiet, Sent, vars, compactVars, exVars, xioVars,
                  flagVars, localVars
    <2>5. LadderInv' /\ OptionInv'
      BY <1>1, <2>2, <2>4 DEF HttpInv, LadderInv, OptionInv, vars, compactVars, exVars, xioVars
    <2> QED
      BY <2>1, <2>5 DEF HttpInv
  <1>2. CASE HTTPAPIEX_ExecuteRequest
    BY <1>2, RequestsKeep
  <1>3. CASE \E o \in Options : HTTPAPIEX_SetOption(o)
    BY <1>3, OptionsKeep
  <1>4. CASE ExStep
    BY <1>4, LevelTriedKeeps, LevelInitKeeps, LevelCreateKeeps, LevelExecuteKeeps, LevelExecutedKeeps,
       EndsKeep DEF ExStep
  <1>5. CASE HTTPAPIEX_Destroy
    BY <1>5, EndsKeep
  <1>6. CASE CompactNext /\ UNCHANGED exVars
    BY <1>6, CompactKeeps
  <1> QED
    BY <1>1, <1>2, <1>3, <1>4, <1>5, <1>6 DEF Next, Step

-----------------------------------------------------------------------------
(* The theorems.                                                            *)

\* HTTPAPIEX_ExecuteRequest never brings a request to the server more than three times, and
\* between calls it holds nothing at all or one connection and one HTTPAPI_Init, whatever
\* fails at whichever level; HTTPAPIEX_Destroy leaves nothing behind.
THEOREM LadderIsUndone == Spec => []LevelsUndone
  <1>1. HttpInv => LevelsUndone
    BY DEF HttpInv, CompactTypeOK, ExTypeOK, LadderInv, LevelsUndone
  <1> QED
    BY <1>1, HttpInit, HttpNext, PTL DEF Spec

\* A request is executed with the value that HTTPAPIEX_SetOption has saved last for each
\* option, on the connection of an earlier request as on one that was made anew, unless
\* the connection has refused the option.
THEOREM OptionsReachConnection == Spec => []OptionsInForce
  <1>1. HttpInv => OptionsInForce
    BY DEF HttpInv, LadderInv, OptionInv, OptionsInForce
  <1> QED
    BY <1>1, HttpInit, HttpNext, PTL DEF Spec

=============================================================================
