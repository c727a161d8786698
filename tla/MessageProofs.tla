---------------------------- MODULE MessageProofs ----------------------------
(***************************************************************************)
(* The WebSocket client over a socket does nothing undefined, and delivers *)
(* what its peer sent.                                                     *)
(*                                                                         *)
(* It never consumes more of the stream buffer than there is, and never    *)
(* completes a send whose list item has been freed.  The first needs to    *)
(* know who reads: whatever the callbacks do, a call of dowork in the      *)
(* middle of a frame is not overtaken by another one.  The second compares *)
(* two lists of the same sends: the queue of the socket, which closing it  *)
(* does not empty, and pending_sends, which is cleared when the connection *)
(* has been closed.                                                        *)
(*                                                                         *)
(* The messages that on_ws_frame_received is given in a session are the    *)
(* first of those the peer's stream carries, each whole and in its order,  *)
(* however the stream is cut up by recv and whatever the callbacks do.     *)
(* The argument follows the stream.  What was received of the script is    *)
(* what is in stream_buffer, and before it what was consumed; a frame      *)
(* begins where the consumed part ends; whoever reads has that frame in    *)
(* hand.  And the client, whose state is its fragments and what it has     *)
(* delivered, is where the fold of the consumed frames is.                 *)
(***************************************************************************)
EXTENDS SessionProofs, WellFoundedInduction

Frames(s) == {s[i] : i \in DOMAIN s}

-----------------------------------------------------------------------------
(* Who reads.                                                               *)

Decoders ==
    {"on_bytes_received", "decode_stream", "decode_frame", "frame", "consume_stream_buffer_bytes"}

\* how close a frame is to the stream buffer: the loops of dowork, and what they call
Rank(f) ==
    CASE f.at = "socket" /\ f.fn \in {"dowork", "dowork_sent", "dowork_receive"} -> 1
      [] Is(f, "uws", "uws_client_dowork") -> 1
      [] f.at = "uws" /\ f.fn \in Decoders -> 2
      [] OTHER -> 0

\* every reader in the stack is below r
Under(s, r) == \A f \in Frames(s) : Rank(f) < r

\* No reader runs above another, or above a reader that is closer to the buffer.
OneReader(s) == \A i, j \in DOMAIN s : i < j /\ Rank(s[i]) > 0 => Rank(s[j]) < Rank(s[i])

\* What is to be consumed is there.
Takes(f) == f.at = "uws" /\ f.fn \in {"frame", "consume_stream_buffer_bytes"}
Within(s, len) == \A f \in Frames(s) : Takes(f) => f.n <= len

StreamInv == OneReader(stack) /\ Within(stack, Len(stream_buffer))

-----------------------------------------------------------------------------
(* The sends that the socket has queued.                                    *)

\* A connection whose queue is empty: the socket never queues anything, or there is only one.
FreshQueue == MayBlock = FALSE \/ MaxOpens = 1

\* dowork has reported the first send of the queue, and is about to remove it
Reported(s) == \E f \in Frames(s) : Is(f, "socket", "dowork_sent")

\* the sends of the user that dowork is still to report
Live ==
    {i \in DOMAIN pending_io_list : /\ pending_io_list[i].cb = "on_underlying_io_send_complete"
                                    /\ i = 1 => ~Reported(stack)}

\* frames that are about to hand down, complete or take off the list the send n
Holds(f) ==
    \/ f.at = "uws" /\ f.fn \in {"uws_client_send_frame_async", "on_underlying_io_send_complete"}
    \/ Is(f, "socket", "send") /\ f.arg = "on_underlying_io_send_complete"
    \/ Is(f, "uws", "frame_sent") /\ f.ret # 0

\* of these, the ones that rely on its being listed
Relies(f) ==
    \/ Is(f, "uws", "on_underlying_io_send_complete")
    \/ Is(f, "socket", "send") /\ f.arg = "on_underlying_io_send_complete"

\* While the socket is connected, each send in its queue is listed, once, and in nobody's hands.
Matching ==
    /\ \A i \in Live : Listed(pending_io_list[i].n)
    /\ \A i \in Live : stack # <<>> /\ Holds(Top) => pending_io_list[i].n # Top.n
    /\ \A i, j \in Live : pending_io_list[i].n = pending_io_list[j].n => i = j

\* The list is cleared after the socket has been destroyed.
Cleared(s) ==
    \A i \in DOMAIN s :
        Role(s[i]) = "clearing" => \E j \in DOMAIN s : j < i /\ Is(s[j], "socket", "destroy")

QueueInv ==
    /\ connected => Matching /\ Cleared(stack)
    /\ stack # <<>> => /\ Relies(Top) => Listed(Top.n)
                       /\ Is(Top, "socket", "open") => pending_io_list = <<>> /\ ~Has(stack, "clearing")
    /\ session = 0 => pending_io_list = <<>>

-----------------------------------------------------------------------------
(* The stack, one frame at a time.                                          *)

LEMMA TailParts ==
    ASSUME NEW S, NEW u \in Seq(S), u # <<>>
    PROVE  /\ Len(u) \in Nat \ {0} /\ DOMAIN u = 1 .. Len(u) /\ u[1] = Head(u)
           /\ Tail(u) \in Seq(S) /\ DOMAIN Tail(u) = 1 .. Len(u) - 1
           /\ \A i \in 1 .. Len(u) - 1 : Tail(u)[i] = u[i + 1]
  OBVIOUS

LEMMA Ranks ==
    ASSUME NEW f
    PROVE  /\ Rank(f) \in {0, 1, 2}
           /\ Rank(f) = 2 <=> f.at = "uws" /\ f.fn \in Decoders
           /\ Rank(f) = 1 <=> \/ f.at = "socket" /\ f.fn \in {"dowork", "dowork_sent", "dowork_receive"}
                              \/ Is(f, "uws", "uws_client_dowork")
           /\ Takes(f) => Rank(f) = 2
           /\ Is(f, "socket", "dowork_sent") => Rank(f) = 1
  BY DEF Rank, Takes, Decoders, Is

\* what the first frame adds to what is said of the others
LEMMA FirstFrame ==
    ASSUME NEW S, NEW u \in Seq(S), u # <<>>
    PROVE  LET a == Head(u)
               t == Tail(u)
           IN  /\ OneReader(u) <=> OneReader(t) /\ (Rank(a) > 0 => Under(t, Rank(a)))
               /\ \A r \in {1, 2} : Under(u, r) <=> Rank(a) < r /\ Under(t, r)
               /\ \A l : Within(u, l) <=> (Takes(a) => a.n <= l) /\ Within(t, l)
               /\ Reported(u) <=> Is(a, "socket", "dowork_sent") \/ Reported(t)
               /\ Cleared(u) <=> Role(a) # "clearing" /\ (Is(a, "socket", "destroy") \/ Cleared(t))
               /\ Has(u, "clearing") <=> Role(a) = "clearing" \/ Has(t, "clearing")
  <1> DEFINE a == Head(u)
             t == Tail(u)
             n == Len(u) - 1
  <1>1. /\ n \in Nat /\ DOMAIN u = 1 .. n + 1 /\ u[1] = a /\ DOMAIN t = 1 .. n
        /\ \A i \in 1 .. n : t[i] = u[i + 1]
    BY TailParts
  <1>2. \A i \in 1 .. n + 1 : i = 1 \/ (i - 1 \in 1 .. n /\ u[i] = t[i - 1])
    <2>1. \A i \in 1 .. n + 1 : i = 1 \/ (i - 1 \in 1 .. n /\ (i - 1) + 1 = i)
      BY <1>1
    <2> QED
      BY <1>1, <2>1
  <1>3. \A i \in 1 .. n : i + 1 \in 1 .. n + 1 /\ i + 1 > 1
    BY <1>1
  <1> HIDE DEF a, t, n
  <1>10. Frames(u) = {a} \cup Frames(t)
    <2>1. ASSUME NEW f \in Frames(u) PROVE f = a \/ f \in Frames(t)
      <3>1. PICK i \in 1 .. n + 1 : f = u[i]
        BY <1>1, <2>1 DEF Frames
      <3> QED
        BY <1>1, <1>2, <3>1 DEF Frames
    <2>2. ASSUME NEW f \in Frames(t) PROVE f \in Frames(u)
      <3>1. PICK i \in 1 .. n : f = t[i]
        BY <1>1, <2>2 DEF Frames
      <3> QED
        BY <1>1, <1>3, <3>1 DEF Frames
    <2>3. a \in Frames(u)
      <3>1. 1 \in 1 .. n + 1
        BY <1>1
      <3> QED
        BY <1>1, <3>1 DEF Frames
    <2> QED
      BY <2>1, <2>2, <2>3
  <1>4. OneReader(u) <=> OneReader(t) /\ (Rank(a) > 0 => Under(t, Rank(a)))
    <2>1. ASSUME OneReader(u) PROVE OneReader(t) /\ (Rank(a) > 0 => Under(t, Rank(a)))
      <3>1. ASSUME NEW i \in 1 .. n, NEW j \in 1 .. n, i < j, Rank(t[i]) > 0
            PROVE  Rank(t[j]) < Rank(t[i])
        <4>1. i + 1 < j + 1 /\ t[i] = u[i + 1] /\ t[j] = u[j + 1]
          BY <1>1, <3>1
        <4> QED
          BY <1>1, <1>3, <2>1, <3>1, <4>1 DEF OneReader
      <3>2. ASSUME Rank(a) > 0, NEW j \in 1 .. n PROVE Rank(t[j]) < Rank(a)
        <4>1. 1 \in 1 .. n + 1 /\ 1 < j + 1 /\ t[j] = u[j + 1]
          BY <1>1, <1>3
        <4> QED
          BY <1>1, <1>3, <2>1, <3>2, <4>1 DEF OneReader
      <3> QED
        BY <1>1, <3>1, <3>2 DEF OneReader, Under, Frames
    <2>2. ASSUME OneReader(t), Rank(a) > 0 => Under(t, Rank(a)) PROVE OneReader(u)
      <3>1. ASSUME NEW i \in 1 .. n + 1, NEW j \in 1 .. n + 1, i < j, Rank(u[i]) > 0
            PROVE  Rank(u[j]) < Rank(u[i])
        <4>1. j # 1 /\ j - 1 \in 1 .. n /\ u[j] = t[j - 1]
          BY <1>1, <1>2, <3>1
        <4>2. CASE i = 1
          BY <1>1, <2>2, <3>1, <4>1, <4>2 DEF Under, Frames
        <4>3. CASE i # 1
          <5>1. i - 1 \in 1 .. n /\ u[i] = t[i - 1] /\ i - 1 < j - 1
            BY <1>1, <1>2, <3>1, <4>3
          <5> QED
            BY <1>1, <2>2, <3>1, <4>1, <5>1 DEF OneReader
        <4> QED
          BY <4>2, <4>3
      <3> QED
        BY <1>1, <3>1 DEF OneReader
    <2> QED
      BY <2>1, <2>2
  <1>5. \A r \in {1, 2} : Under(u, r) <=> Rank(a) < r /\ Under(t, r)
    BY <1>10 DEF Under
  <1>6. \A l : Within(u, l) <=> (Takes(a) => a.n <= l) /\ Within(t, l)
    BY <1>10 DEF Within
  <1>7. Reported(u) <=> Is(a, "socket", "dowork_sent") \/ Reported(t)
    BY <1>10 DEF Reported
  <1>8. Has(u, "clearing") <=> Role(a) = "clearing" \/ Has(t, "clearing")
    <2>1. \A s : Has(s, "clearing") <=> \E f \in Frames(s) : Role(f) = "clearing"
      BY DEF Has, Frames
    <2> QED
      BY <1>10, <2>1
  <1>9. Cleared(u) <=> Role(a) # "clearing" /\ (Is(a, "socket", "destroy") \/ Cleared(t))
    <2>1. ASSUME Cleared(u), ~Is(a, "socket", "destroy") PROVE Cleared(t)
      <3>1. ASSUME NEW i \in 1 .. n, Role(t[i]) = "clearing"
            PROVE  \E j \in 1 .. n : j < i /\ Is(t[j], "socket", "destroy")
        <4>1. PICK j \in 1 .. n + 1 : j < i + 1 /\ Is(u[j], "socket", "destroy")
          BY <1>1, <1>3, <2>1, <3>1 DEF Cleared
        <4>2. j - 1 \in 1 .. n /\ u[j] = t[j - 1] /\ j - 1 < i
          BY <1>1, <1>2, <2>1, <4>1
        <4> QED
          BY <4>1, <4>2
      <3> QED
        BY <1>1, <3>1 DEF Cleared
    <2>2. ASSUME Cleared(u) PROVE Role(a) # "clearing"
      <3>1. 1 \in 1 .. n + 1 /\ \A j \in 1 .. n + 1 : ~(j < 1)
        BY <1>1
      <3> QED
        BY <1>1, <2>2, <3>1 DEF Cleared
    <2>3. ASSUME Role(a) # "clearing", Is(a, "socket", "destroy") PROVE Cleared(u)
      <3>1. 1 \in 1 .. n + 1 /\ \A i \in 1 .. n + 1 : i # 1 => 1 < i
        BY <1>1
      <3> QED
        BY <1>1, <2>3, <3>1 DEF Cleared
    <2>4. ASSUME Role(a) # "clearing", Cleared(t) PROVE Cleared(u)
      <3>1. ASSUME NEW i \in 1 .. n + 1, Role(u[i]) = "clearing"
            PROVE  \E j \in 1 .. n + 1 : j < i /\ Is(u[j], "socket", "destroy")
        <4>1. i - 1 \in 1 .. n /\ u[i] = t[i - 1]
          BY <1>1, <1>2, <2>4, <3>1
        <4>2. PICK j \in 1 .. n : j < i - 1 /\ Is(t[j], "socket", "destroy")
          BY <1>1, <2>4, <3>1, <4>1 DEF Cleared
        <4>3. j + 1 \in 1 .. n + 1 /\ j + 1 < i /\ u[j + 1] = t[j]
          BY <1>1, <1>3, <4>2
        <4> QED
          BY <4>2, <4>3
      <3> QED
        BY <1>1, <3>1 DEF Cleared
    <2> QED
      BY <2>1, <2>2, <2>3, <2>4
  <1> QED
    BY <1>4, <1>5, <1>6, <1>7, <1>8, <1>9 DEF a, t

\* what waits beneath the running frame
LEMMA BeneathResumable ==
    ASSUME stack \in Seq(Frame), stack # <<>>, Place(stack), Beneath # <<>>
    PROVE  LET f == Head(Beneath)
           IN  Resumable(f) \/ (f.at = "uws" /\ f.fn \in {"upgrade_request_sent", "open_complete_error",
                                                          "indicate_ws_close_complete"})
  <1> DEFINE f == Head(Beneath)
  <1>1. Top = Head(stack) /\ Beneath = Tail(stack)
    BY DEF Top, Beneath
  <1>2. ASSUME Rest(Beneath) PROVE Resumable(f)
    <2>1. Beneath \in Seq(Frame)
      BY RunningTop
    <2>2. OnTop(Beneath, f, Tail(Beneath))
      BY <2>1, TopOnTop
    <2> QED
      BY <1>2, <2>2 DEF Rest, OnTop
  <1> HIDE DEF f
  <1>3. CASE Usual(stack)
    BY <1>2, <1>3, UsualParts DEF AtRest, f
  <1>4. CASE Called(stack)
    BY <1>1, <1>2, <1>4 DEF Called, f
  <1>5. CASE Opens(stack) \/ OpensSending(stack)
    BY <1>1, <1>2, <1>5 DEF Opens, OpensSending, Is, f
  <1>6. CASE OpenFails(stack) \/ OpenTold(stack)
    BY <1>1, <1>2, <1>6 DEF OpenFails, OpenTold, Is, f
  <1>7. CASE Sending(stack) \/ Decodes(stack)
    BY <1>1, <1>2, <1>7 DEF Sending, Decodes, f
  <1>8. CASE Closes(stack)
    <2>1. Resumable(f) \/ Is(f, "uws", "set_closed") \/ Is(f, "uws", "indicate_ws_close_complete")
      BY <1>1, <1>2, <1>8 DEF Closes, f
    <2> QED
      BY <2>1 DEF Is, Resumable, f
  <1> QED
    BY <1>3, <1>4, <1>5, <1>6, <1>7, <1>8 DEF Place

-----------------------------------------------------------------------------
(* Steps that say nothing of the stream buffer or of the queue.             *)

Mild(f) ==
    /\ Rank(f) = 0 /\ Role(f) # "clearing" /\ ~Holds(f)
    /\ ~Is(f, "socket", "open") /\ ~Is(f, "socket", "destroy")

\* the rest of the running reader
Follows(f) ==
    /\ Rank(f) > 0 /\ Rank(f) = Rank(Top)
    /\ ~Is(f, "socket", "dowork_sent")
    /\ Takes(f) => f.n <= Len(stream_buffer')

Fit(f) == Mild(f) \/ Follows(f)

MildMove ==
    \/ Pop \/ Goto(<<>>)
    \/ \E v : Return(v) /\ (v = 0 \/ Top.fn \notin {"send", "return"})
    \/ \E a : Goto(<<a>>) /\ Fit(a)
    \/ \E a, b : Goto(<<a, b>>) /\ Mild(a) /\ Fit(b)
    \/ \E a, b, c : Goto(<<a, b, c>>) /\ Mild(a) /\ Mild(b) /\ Fit(c)
    \/ \E a, b, c, d : Goto(<<a, b, c, d>>) /\ Mild(a) /\ Mild(b) /\ Mild(c) /\ Fit(d)

\* what is left of the stack is as good as before
StackKept(u) ==
    /\ OneReader(u) /\ Within(u, Len(stream_buffer'))
    /\ Reported(u) <=> Reported(stack)
    /\ Cleared(stack) => Cleared(u)
    /\ Has(u, "clearing") => Has(stack, "clearing")

NobodyHolds == stack # <<>> => ~Holds(Top) /\ ~Is(Top, "socket", "open")

LEMMA BeneathHarmless ==
    ASSUME stack \in Seq(Frame), stack # <<>>, Place(stack), Beneath # <<>>
    PROVE  ~Holds(Head(Beneath)) /\ ~Is(Head(Beneath), "socket", "open")
  <1> DEFINE f == Head(Beneath)
  <1>1. Resumable(f) \/ (f.at = "uws" /\ f.fn \in {"upgrade_request_sent", "open_complete_error",
                                                   "indicate_ws_close_complete"})
    BY BeneathResumable
  <1> HIDE DEF f
  <1>2. CASE Resumable(f)
    <2>1. ~Is(f, "socket", "open")
      BY <1>2 DEF Resumable, Is, Awaiting
    <2>2. ~Holds(f)
      BY <1>2 DEF Resumable, Is, Awaiting, Holds
    <2> QED
      BY <2>1, <2>2 DEF f
  <1>3. CASE f.at = "uws" /\ f.fn \in {"upgrade_request_sent", "open_complete_error",
                                      "indicate_ws_close_complete"}
    BY <1>3 DEF f, Is, Holds
  <1> QED
    BY <1>1, <1>2, <1>3

LEMMA WithinLonger ==
    ASSUME NEW s \in Seq(Frame), NEW l \in Nat, NEW m \in Nat, l <= m, Within(s, l)
    PROVE  Within(s, m)
  <1>1. \A f \in Frames(s) : f.n \in Nat
    BY DEF Frames, Frame
  <1> QED
    BY <1>1 DEF Within

\* nobody takes anything below a frame that decodes
LEMMA NothingTaken ==
    ASSUME NEW s, Under(s, 2)
    PROVE  \A l : Within(s, l)
  BY Ranks DEF Under, Within

LEMMA BeneathKept ==
    ASSUME TypeOK, TypeOK', stack # <<>>, StreamInv,
           Len(stream_buffer') >= Len(stream_buffer) \/ Rank(Top) = 2,
           ~Is(Top, "socket", "dowork_sent"), ~Is(Top, "socket", "destroy")
    PROVE  StackKept(Beneath) /\ (Rank(Top) > 0 => Under(Beneath, Rank(Top)))
  <1>1. /\ stack \in Seq(Frame) /\ Beneath \in Seq(Frame)
        /\ Len(stream_buffer) \in Nat /\ Len(stream_buffer') \in Nat
    <2>1. stack \in Seq(Frame) /\ stream_buffer \in Seq(Unit) /\ stream_buffer' \in Seq(Unit)
      BY DEF TypeOK, UwsTypeOK
    <2> QED
      BY <2>1, RunningTop
  <1>2. Head(stack) = Top /\ Tail(stack) = Beneath
    BY DEF Top, Beneath
  <1>3. /\ OneReader(Beneath) /\ (Rank(Top) > 0 => Under(Beneath, Rank(Top)))
        /\ Within(Beneath, Len(stream_buffer))
        /\ Reported(stack) <=> Reported(Beneath)
        /\ Cleared(stack) => Cleared(Beneath)
        /\ Has(Beneath, "clearing") => Has(stack, "clearing")
    BY <1>1, <1>2, FirstFrame DEF StreamInv
  <1>4. Within(Beneath, Len(stream_buffer'))
    BY <1>1, <1>3, WithinLonger, NothingTaken
  <1> QED
    BY <1>3, <1>4 DEF StackKept

\* a mild frame on top changes nothing
LEMMA MildOnTop ==
    ASSUME NEW u \in Seq(Frame), u # <<>>, Mild(Head(u)), StackKept(Tail(u))
    PROVE  StackKept(u)
  <1>1. ~Is(Head(u), "socket", "dowork_sent") /\ ~Takes(Head(u)) /\ ~(Rank(Head(u)) > 0)
    BY Ranks DEF Mild
  <1> QED
    BY <1>1, FirstFrame DEF Mild, StackKept

LEMMA FitOnTop ==
    ASSUME NEW u \in Seq(Frame), u # <<>>, Fit(Head(u)), StackKept(Tail(u)),
           Rank(Top) > 0 => Under(Tail(u), Rank(Top))
    PROVE  StackKept(u)
  <1>1. CASE Mild(Head(u))
    BY <1>1, MildOnTop
  <1>2. CASE Follows(Head(u))
    <2>1. Role(Head(u)) # "clearing"
      BY <1>2, Ranks, Roles DEF Follows, Decoders, Role, Is
    <2> QED
      BY <1>2, <2>1, FirstFrame DEF Follows, StackKept
  <1> QED
    BY <1>1, <1>2 DEF Fit

\* so does a result for the frame beneath
LEMMA GivenKept ==
    ASSUME NEW u \in Seq(Frame), u # <<>>, NEW w \in Seq(Frame), w # <<>>, NEW v,
           Head(u) = Given(Head(w), v), Tail(u) = Tail(w), StackKept(w)
    PROVE  StackKept(u)
  <1> DEFINE f == Head(w)
             g == Head(u)
  <1>1. g.at = f.at /\ g.fn = f.fn /\ g.n = f.n /\ g.arg = f.arg
    BY GivenParts
  <1> HIDE DEF f, g
  <1>2. Rank(g) = Rank(f) /\ (Takes(g) <=> Takes(f)) /\ (Is(g, "socket", "dowork_sent") <=> Is(f, "socket", "dowork_sent"))
        /\ (Is(g, "socket", "destroy") <=> Is(f, "socket", "destroy"))
    BY <1>1 DEF Rank, Takes, Is
  <1>3. Role(g) = "clearing" <=> Role(f) = "clearing"
    <2>1. \A h : Role(h) = "clearing" <=> Is(h, "uws", "clear_pending_sends")
      BY DEF Role, Is
    <2> QED
      BY <1>1, <2>1 DEF Is
  <1>4. /\ StackKept(u) <=> StackKept(w)
    BY <1>1, <1>2, <1>3, FirstFrame DEF StackKept, f, g
  <1> QED
    BY <1>4

LEMMA MildStack ==
    ASSUME TypeOK, TypeOK', stack # <<>>, Place(stack), Linked(stack), StreamInv, MildMove,
           Len(stream_buffer') >= Len(stream_buffer) \/ Rank(Top) = 2,
           ~Is(Top, "socket", "dowork_sent"), ~Is(Top, "socket", "destroy")
    PROVE  StackKept(stack') /\ NobodyHolds'
  <1>1. stack \in Seq(Frame) /\ stack' \in Seq(Frame)
    BY DEF TypeOK
  <1>2. StackKept(Beneath) /\ (Rank(Top) > 0 => Under(Beneath, Rank(Top)))
    BY BeneathKept
  <1>3. Beneath \in Seq(Frame) /\ Head(stack) = Top /\ Tail(stack) = Beneath
    BY <1>1, RunningTop DEF Top, Beneath
  <1>4. ASSUME stack' # <<>>, Fit(Head(stack')) PROVE NobodyHolds'
    <2>1. ~Holds(Head(stack')) /\ ~Is(Head(stack'), "socket", "open")
      BY <1>4, Ranks DEF Fit, Mild, Follows, Holds, Is, Decoders
    <2> QED
      BY <2>1 DEF NobodyHolds, Top
  <1>5. CASE Pop \/ Goto(<<>>)
    <2>1. stack' = Beneath
      BY <1>1, <1>5, Goto0
    <2>2. Beneath # <<>> => ~Holds(Head(Beneath)) /\ ~Is(Head(Beneath), "socket", "open")
      BY <1>1, BeneathHarmless
    <2> QED
      BY <1>2, <2>1, <2>2 DEF NobodyHolds, Top
  <1>6. ASSUME NEW v, Return(v), v = 0 \/ Top.fn \notin {"send", "return"}
        PROVE  StackKept(stack') /\ NobodyHolds'
    <2>1. CASE Beneath = <<>>
      <3>1. stack' = <<>>
        BY <1>1, <1>6, <2>1, ReturnTop
      <3> QED
        BY <1>2, <2>1, <3>1 DEF NobodyHolds
    <2>2. CASE Beneath # <<>>
      <3> DEFINE f == Head(Beneath)
      <3>1. stack' # <<>> /\ Head(stack') = Given(f, v) /\ Tail(stack') = Tail(Beneath) /\ f \in Frame
        BY <1>1, <1>6, <2>2, ReturnTop DEF Stack1, OnTop
      <3>2. StackKept(stack')
        BY <1>1, <1>2, <1>3, <2>2, <3>1, GivenKept
      <3>3. ~Holds(f) /\ ~Is(f, "socket", "open")
        BY <1>1, <2>2, BeneathHarmless
      <3>4. v # 0 => f.fn # "frame_sent"
        BY <1>1, <1>3, <1>6, <2>2, CallerLinked DEF Link
      <3>5. Given(f, v).at = f.at /\ Given(f, v).fn = f.fn /\ Given(f, v).arg = f.arg /\ Given(f, v).ret = v
        BY <3>1, GivenParts
      <3> HIDE DEF f
      <3>6. ~Holds(Head(stack')) /\ ~Is(Head(stack'), "socket", "open")
        BY <3>1, <3>3, <3>4, <3>5 DEF Holds, Is
      <3> QED
        BY <3>2, <3>6 DEF NobodyHolds, Top
    <2> QED
      BY <2>1, <2>2
  <1>7. ASSUME NEW a, Goto(<<a>>), Fit(a) PROVE StackKept(stack') /\ NobodyHolds'
    <2>1. stack' # <<>> /\ Head(stack') = a /\ Tail(stack') = Beneath
      BY <1>1, <1>7, Goto1 DEF Stack1, OnTop
    <2> QED
      BY <1>1, <1>2, <1>4, <1>7, <2>1, FitOnTop
  <1>8. ASSUME NEW a, NEW b, Goto(<<a, b>>), Mild(a), Fit(b) PROVE StackKept(stack') /\ NobodyHolds'
    <2> DEFINE u == Tail(stack')
    <2>1. stack' # <<>> /\ Head(stack') = a /\ u # <<>> /\ Head(u) = b /\ Tail(u) = Beneath
      BY <1>1, <1>8, Goto2 DEF Stack2, OnTop
    <2>2. u \in Seq(Frame)
      BY <1>1, <2>1, TailParts
    <2> HIDE DEF u
    <2>3. StackKept(u)
      BY <1>2, <1>8, <2>1, <2>2, FitOnTop
    <2> QED
      BY <1>1, <1>4, <1>8, <2>1, <2>3, MildOnTop DEF Fit, u
  <1>9. ASSUME NEW a, NEW b, NEW c, Goto(<<a, b, c>>), Mild(a), Mild(b), Fit(c)
        PROVE  StackKept(stack') /\ NobodyHolds'
    <2> DEFINE u == Tail(stack')
               w == Tail(u)
    <2>1. /\ stack' # <<>> /\ Head(stack') = a /\ u # <<>> /\ Head(u) = b
          /\ w # <<>> /\ Head(w) = c /\ Tail(w) = Beneath
      BY <1>1, <1>9, Goto3 DEF Stack3, Stack2, OnTop
    <2>2. u \in Seq(Frame) /\ w \in Seq(Frame)
      BY <1>1, <2>1, TailParts
    <2> HIDE DEF u, w
    <2>3. StackKept(w)
      BY <1>2, <1>9, <2>1, <2>2, FitOnTop
    <2>4. StackKept(u)
      BY <1>9, <2>1, <2>2, <2>3, MildOnTop DEF w
    <2> QED
      BY <1>1, <1>4, <1>9, <2>1, <2>4, MildOnTop DEF Fit, u
  <1>10. ASSUME NEW a, NEW b, NEW c, NEW d, Goto(<<a, b, c, d>>), Mild(a), Mild(b), Mild(c), Fit(d)
         PROVE  StackKept(stack') /\ NobodyHolds'
    <2> DEFINE u == Tail(stack')
               w == Tail(u)
               x == Tail(w)
    <2>1. /\ stack' # <<>> /\ Head(stack') = a /\ u # <<>> /\ Head(u) = b
          /\ w # <<>> /\ Head(w) = c /\ x # <<>> /\ Head(x) = d /\ Tail(x) = Beneath
      BY <1>1, <1>10, Goto4 DEF Stack4, Stack3, Stack2, OnTop
    <2>2. u \in Seq(Frame) /\ w \in Seq(Frame) /\ x \in Seq(Frame)
      BY <1>1, <2>1, TailParts
    <2> HIDE DEF u, w, x
    <2>3. StackKept(x)
      BY <1>2, <1>10, <2>1, <2>2, FitOnTop
    <2>4. StackKept(w)
      BY <1>10, <2>1, <2>2, <2>3, MildOnTop DEF x
    <2>5. StackKept(u)
      BY <1>10, <2>1, <2>2, <2>4, MildOnTop DEF w
    <2> QED
      BY <1>1, <1>4, <1>10, <2>1, <2>5, MildOnTop DEF Fit, u
  <1> QED
    BY <1>5, <1>6, <1>7, <1>8, <1>9, <1>10 DEF MildMove

-----------------------------------------------------------------------------
(* What the client does: most steps are mild.                               *)

\* the functions of the client that are not
Telling ==
    Decoders \cup {"uws_client_dowork", "clear_pending_sends", "uws_client_send_frame_async",
                   "on_underlying_io_send_complete"}

LEMMA MildFrames ==
    /\ \A f : f \notin Telling => \A x, n, d : Mild(MkFrame("uws", f, x, n, d))
    /\ \A f, x, n, d : Mild(MkFrame("user", f, x, n, d))
    /\ \A x, n, d : Mild(MkFrame("socket", "close", x, n, d))
    /\ \A x, n, d : x # "on_underlying_io_send_complete" => Mild(MkFrame("socket", "send", x, n, d))
    /\ \A v : Mild(ReturnFrame("socket", v)) /\ Mild(ReturnFrame("uws", v))
  <1>1. \A m : Role(m) = "clearing" <=> Is(m, "uws", "clear_pending_sends")
    BY DEF Role, Is
  <1>2. ASSUME NEW f, f \notin Telling, NEW x, NEW n, NEW d PROVE Mild(MkFrame("uws", f, x, n, d))
    <2> DEFINE m == MkFrame("uws", f, x, n, d)
    <2>1. m.at = "uws" /\ m.fn = f /\ m.ret = 0
      BY MadeFrame
    <2> HIDE DEF m
    <2> QED
      BY <1>1, <1>2, <2>1, Ranks DEF Mild, Holds, Is, Telling, m
  <1>3. ASSUME NEW f, NEW x, NEW n, NEW d PROVE Mild(MkFrame("user", f, x, n, d))
    <2> DEFINE m == MkFrame("user", f, x, n, d)
    <2>1. m.at = "user" /\ m.fn = f
      BY MadeFrame
    <2> HIDE DEF m
    <2> QED
      BY <1>1, <2>1, Ranks DEF Mild, Holds, Is, m
  <1>4. ASSUME NEW x, NEW n, NEW d PROVE Mild(MkFrame("socket", "close", x, n, d))
    <2> DEFINE m == MkFrame("socket", "close", x, n, d)
    <2>1. m.at = "socket" /\ m.fn = "close"
      BY MadeFrame
    <2> HIDE DEF m
    <2> QED
      BY <1>1, <2>1, Ranks DEF Mild, Holds, Is, m
  <1>5. ASSUME NEW x, NEW n, NEW d, x # "on_underlying_io_send_complete"
        PROVE  Mild(MkFrame("socket", "send", x, n, d))
    <2> DEFINE m == MkFrame("socket", "send", x, n, d)
    <2>1. m.at = "socket" /\ m.fn = "send" /\ m.arg = x
      BY MadeFrame
    <2> HIDE DEF m
    <2> QED
      BY <1>1, <1>5, <2>1, Ranks DEF Mild, Holds, Is, m
  <1>6. ASSUME NEW l, NEW v PROVE Mild(ReturnFrame(l, v))
    <2> DEFINE m == ReturnFrame(l, v)
    <2>1. m.fn = "return"
      BY MadeReturn
    <2> HIDE DEF m
    <2> QED
      BY <1>1, <2>1, Ranks DEF Mild, Holds, Is, Decoders, m
  <1> QED
    BY <1>2, <1>3, <1>4, <1>5, <1>6

\* The actions that are looked at one by one.
Delicate ==
    \/ indicate_ws_close_complete \/ clear_pending_sends \/ uws_client_open_async \/ uws_client_destroy
    \/ uws_client_send_frame_async \/ frame_sent \/ on_underlying_io_send_complete_freed

LEMMA UwsMild ==
    ASSUME SocketClient, TypeOK, TypeOK', Place(stack), Within(stack, Len(stream_buffer)), UwsNext, ~Delicate
    PROVE  /\ MildMove /\ faults' = faults /\ session' = session
           /\ Len(stream_buffer') >= Len(stream_buffer) \/ Rank(Top) = 2
  <1>1. /\ Mild(Uws("open_complete_error")) /\ Mild(Uws("xio_open_returned"))
        /\ Mild(Uws("upgrade_request_sent")) /\ Mild(Uws("message_done")) /\ Mild(Uws("close_or_error"))
        /\ Mild(Uws("close_or_complete")) /\ Mild(Uws("answer_sent")) /\ Mild(Uws("set_closed"))
        /\ Mild(Uws("indicate_ws_close_complete")) /\ Mild(Uws("close_sent_closed"))
        /\ Mild(Uws("close_async_closed")) /\ Mild(Uws("indicate_ws_error"))
        /\ Mild(Uws("indicate_ws_error_and_close")) /\ Mild(ReturnFrame("uws", 1))
    BY MildFrames DEF Uws, Telling, Decoders
  <1>2. /\ Mild(xio_close("uws", "NULL")) /\ Mild(xio_close("uws", "close_complete"))
        /\ \A n : Mild(xio_send("uws", "unchecked_on_send_complete", n))
        /\ \A n : Mild(xio_send("uws", "on_underlying_io_close_sent", n))
    BY MildFrames, Neighbours DEF xio_close, xio_send
  <1>3. \A f, x, n, d : Mild(User(f, x, n, d))
    BY MildFrames DEF User
  <1>4. stack # <<>> /\ stack \in Seq(Frame) /\ Top.at = "uws" /\ Top \in Frame /\ Top \in Frames(stack)
    <2>1. stack # <<>> /\ stack \in Seq(Frame) /\ Top.at = "uws"
      BY UwsRuns DEF TypeOK
    <2>2. Top \in Frame /\ 1 \in DOMAIN stack /\ stack[1] = Top
      BY <2>1, TailParts DEF Top
    <2> QED
      BY <2>1, <2>2 DEF Frames
  <1>5. Len(stream_buffer) \in Nat /\ Len(stream_buffer') \in Nat
    <2>1. stream_buffer \in Seq(Unit) /\ stream_buffer' \in Seq(Unit)
      BY DEF TypeOK, UwsTypeOK
    <2> QED
      BY <2>1
  <1>6. ASSUME NEW f \in Decoders, Top.fn \in Decoders, NEW x, NEW n, NEW d,
               f \in {"frame", "consume_stream_buffer_bytes"} => n <= Len(stream_buffer')
        PROVE  Fit(MkFrame("uws", f, x, n, d))
    <2> DEFINE m == MkFrame("uws", f, x, n, d)
    <2>1. m.at = "uws" /\ m.fn = f /\ m.n = n
      BY MadeFrame
    <2> HIDE DEF m
    <2>2. Rank(m) = 2 /\ Rank(Top) = 2
      BY <1>4, <1>6, <2>1, Ranks
    <2>3. Follows(m)
      BY <1>6, <2>1, <2>2 DEF Follows, Is, Takes
    <2> QED
      BY <2>3 DEF Fit, m
  <1>7. Top.fn \in Decoders => Fit(Uws("decode_stream")) /\ \A d : Fit(MkFrame("uws", "decode_frame", "", 0, d))
    BY <1>6 DEF Uws, Decoders
  <1>8. Top.fn = "frame" /\ stream_buffer' = stream_buffer => \A x : Fit(Consume(x))
    <2>1. Top.fn = "frame" => Top.n <= Len(stream_buffer)
      BY <1>4 DEF Within, Takes
    <2> QED
      BY <1>6, <2>1 DEF Consume, consume, Decoders
  <1>9. Top.fn \in Decoders => Rank(Top) = 2
    BY <1>4, Ranks
  <1>10. \A a : Mild(a) => Fit(a)
    BY DEF Fit
  <1>11. ASSUME NEW a, Goto(<<a>>), Fit(a) PROVE MildMove
    BY <1>11 DEF MildMove
  <1>12. ASSUME NEW a, NEW b, Goto(<<a, b>>), Mild(a), Fit(b) PROVE MildMove
    BY <1>12 DEF MildMove
  <1>13. ASSUME NEW a, NEW b, NEW c, Goto(<<a, b, c>>), Mild(a), Mild(b), Fit(c) PROVE MildMove
    BY <1>13 DEF MildMove
  <1>14. Pop \/ Goto(<<>>) => MildMove
    BY DEF MildMove
  <1>15. ASSUME NEW v, Return(v), Top.fn \notin {"send", "return"} PROVE MildMove
    BY <1>15 DEF MildMove
  <1>16. Shut => MildMove
    BY <1>1, <1>2, <1>10, <1>12 DEF Shut, open_complete_error_and_close
  <1>17. ASSUME NEW x, Reject(x), Top.fn = "frame" PROVE MildMove
    BY <1>1, <1>8, <1>12, <1>17 DEF Reject, uwsVars
  <1>18. UNCHANGED uwsVars => faults' = faults /\ session' = session /\ Len(stream_buffer') >= Len(stream_buffer)
    BY <1>5 DEF uwsVars
  <1>19. UNCHANGED <<Buffers, Others>> => faults' = faults /\ session' = session /\ Len(stream_buffer') >= Len(stream_buffer)
    BY <1>5 DEF Buffers, Others
  <1>20. UNCHANGED <<stream_buffer, Others>> => faults' = faults /\ session' = session /\ Len(stream_buffer') >= Len(stream_buffer)
    BY <1>5 DEF Others
  <1>21. CASE indicate_ws_open_complete_error \/ indicate_ws_error \/ set_closed
    <2>1. MildMove
      BY <1>3, <1>10, <1>11, <1>14, <1>21 DEF indicate_ws_open_complete_error, indicate_ws_error, set_closed
    <2> QED
      BY <1>19, <1>21, <2>1 DEF indicate_ws_open_complete_error, indicate_ws_error, set_closed
  <1>22. CASE indicate_ws_error_and_close
    <2> DEFINE send == xio_send("uws", "unchecked_on_send_complete", 0)
               report == User("on_ws_error", "", 0, <<>>)
    <2>1. Goto(<<send>> \o <<report>>) \/ Goto(<<>> \o <<report>>)
      BY <1>22 DEF indicate_ws_error_and_close
    <2>2. Mild(send) /\ Mild(report)
      BY <1>2, <1>3
    <2> HIDE DEF send, report
    <2>3. <<send>> \o <<report>> = <<send, report>> /\ <<>> \o <<report>> = <<report>>
      BY ONLY ConcatTuples
    <2> QED
      BY <1>10, <1>11, <1>12, <1>19, <1>22, <2>1, <2>2, <2>3 DEF indicate_ws_error_and_close
  <1>23. CASE call_on_ws_close_complete
    <2>1. Goto(<<>>) \/ Goto(<<User("on_ws_close_complete", "", on_ws_close_complete, <<>>)>>)
      BY <1>23 DEF call_on_ws_close_complete
    <2> QED
      BY <1>3, <1>10, <1>11, <1>14, <1>18, <1>23, <2>1 DEF call_on_ws_close_complete
  <1>24. CASE xio_open_returned
    BY <1>15, <1>19, <1>24 DEF xio_open_returned, Running, Top
  <1>25. CASE on_underlying_io_open_complete \/ upgrade_request_sent
    <2>1. \/ Shut \/ Pop \/ Goto(<<Uws("open_complete_error")>>)
          \/ Goto(<<xio_send("uws", "unchecked_on_send_complete", 0), Uws("upgrade_request_sent")>>)
      BY <1>25 DEF on_underlying_io_open_complete, upgrade_request_sent
    <2>2. MildMove
      BY <1>1, <1>2, <1>10, <1>11, <1>12, <1>14, <1>16, <2>1
    <2> QED
      BY <1>18, <1>19, <1>25, <2>2 DEF on_underlying_io_open_complete, upgrade_request_sent
  <1>26. CASE on_underlying_io_bytes_received
    <2>1. Top.fn \in Decoders
      BY <1>26 DEF on_underlying_io_bytes_received, Running, Top, Decoders
    <2>2. MildMove
      BY <1>1, <1>7, <1>10, <1>11, <1>14, <1>16, <1>26, <2>1 DEF on_underlying_io_bytes_received
    <2> QED
      BY <1>9, <1>26, <2>1, <2>2 DEF on_underlying_io_bytes_received, Others
  <1>27. CASE decode_nothing \/ decode_while_opening
    BY <1>14, <1>16, <1>18, <1>27 DEF decode_nothing, decode_while_opening
  <1>28. CASE decode_upgrade_response
    <2>1. Top.fn \in Decoders
      BY <1>28 DEF decode_upgrade_response, Running, Top, Decoders
    <2>2. \/ Pop \/ Shut \/ Goto(<<User("on_ws_open_complete", "OK", 0, <<>>), Uws("decode_stream")>>)
      BY <1>28 DEF decode_upgrade_response
    <2>3. MildMove
      BY <1>3, <1>7, <1>12, <1>14, <1>16, <2>1, <2>2
    <2> QED
      BY <1>9, <1>28, <2>1, <2>3 DEF decode_upgrade_response, Others
  <1>29. CASE decode_masked_frame \/ decode_unmasked_frame
    <2>1. Top.fn \in Decoders /\ UNCHANGED uwsVars
      BY <1>29 DEF decode_masked_frame, decode_unmasked_frame, Running, Top, Decoders
    <2>2. \/ Pop
          \/ \E h : Goto(<<Uws("indicate_ws_error_and_close"), MkFrame("uws", "decode_frame", "", 0, <<h>>)>>)
          \/ \E h : Goto(<<MkFrame("uws", "decode_frame", "", 0, <<h>>)>>)
      BY <1>29 DEF decode_masked_frame, decode_unmasked_frame
    <2> QED
      BY <1>1, <1>7, <1>11, <1>12, <1>14, <1>18, <2>1, <2>2
  <1>30. CASE decode_length
    <2> DEFINE h == Head(Top.data)
               m == MkFrame("uws", "frame", opcode(h), needed_bytes(h), <<h>>)
    <2>1. Top.fn \in Decoders /\ UNCHANGED uwsVars /\ stream_buffer' = stream_buffer
      BY <1>30 DEF decode_length, Running, Top, Decoders, uwsVars
    <2>2. \/ Goto(<<Uws("indicate_ws_error")>>) \/ Pop
          \/ Goto(<<m>>) /\ Len(stream_buffer) >= needed_bytes(h)
      BY <1>30 DEF decode_length
    <2>3. h \in Unit
      <3>1. Top.data # <<>> /\ Top.data \in Seq(Unit)
        BY <1>4, <1>30 DEF decode_length, Running, Top, Frame, WellCalled
      <3> QED
        BY <3>1
    <2>4. needed_bytes(h) \in Nat
      BY <2>3, UnitAssumption DEF needed_bytes, UnitType
    <2>5. Len(stream_buffer) >= needed_bytes(h) => needed_bytes(h) <= Len(stream_buffer')
      <3> HIDE DEF h
      <3> QED
        BY <1>5, <2>1, <2>4
    <2>6. Len(stream_buffer) >= needed_bytes(h) => Fit(m)
      BY <1>6, <2>1, <2>5 DEF Decoders
    <2> HIDE DEF m
    <2> QED
      BY <1>1, <1>10, <1>11, <1>14, <1>18, <2>1, <2>2, <2>6
  <1>31. CASE consume_stream_buffer_bytes
    <2>1. Top.fn \in Decoders /\ Takes(Top)
      BY <1>4, <1>31 DEF consume_stream_buffer_bytes, Running, Top, Decoders, Takes
    <2>2. Top.n <= Len(stream_buffer)
      BY <1>4, <2>1 DEF Within
    <2>3. Goto(<<Uws("decode_stream")>>) \/ Goto(<<>>)
      BY <1>31, <2>2 DEF consume_stream_buffer_bytes
    <2>4. MildMove
      BY <1>7, <1>11, <1>14, <2>1, <2>3
    <2> QED
      BY <1>9, <1>31, <2>1, <2>2, <2>4 DEF consume_stream_buffer_bytes
  <1>32. CASE frame_continuation
    <2> DEFINE report == User("on_ws_frame_received", fragmented_frame_type, 0, fragment_buffer')
    <2>1. \/ Reject("stop") \/ Goto(<<Consume("again")>>)
          \/ Goto(<<Uws("indicate_ws_error"), Consume("again")>>)
          \/ Goto(<<report, Uws("message_done"), Consume("again")>>)
      BY <1>32 DEF frame_continuation
    <2>2. Top.fn = "frame" /\ stream_buffer' = stream_buffer /\ faults' = faults /\ session' = session
      BY <1>32 DEF frame_continuation, Received, Running, Top, Reject, uwsVars, Others
    <2>3. Mild(report) /\ Fit(Consume("again"))
      BY <1>3, <1>8, <2>2
    <2> HIDE DEF report
    <2>4. Goto(<<report, Uws("message_done"), Consume("again")>>) => MildMove
      BY <1>1, <1>13, <2>3
    <2>5. Goto(<<Uws("indicate_ws_error"), Consume("again")>>) => MildMove
      BY <1>1, <1>12, <2>3
    <2> QED
      BY <1>5, <1>11, <1>17, <2>1, <2>2, <2>3, <2>4, <2>5
  <1>33. CASE message_done
    BY <1>14, <1>20, <1>33 DEF message_done
  <1>34. CASE frame_data_final
    <2>1. Top.fn = "frame" /\ UNCHANGED uwsVars /\ stream_buffer' = stream_buffer
      BY <1>34 DEF frame_data_final, Received, Running, Top, uwsVars
    <2>2. \E op : Goto(<<User("on_ws_frame_received", DataType(op), 0, <<h_>>), Consume("again")>>)
      BY <1>34 DEF frame_data_final
    <2> QED
      BY <1>3, <1>8, <1>12, <1>18, <2>1, <2>2
  <1>35. CASE frame_data_first
    <2>1. Top.fn = "frame" /\ stream_buffer' = stream_buffer /\ faults' = faults /\ session' = session
      BY <1>35 DEF frame_data_first, Received, Running, Top, Reject, uwsVars, Others
    <2>2. Reject("again") \/ Reject("stop") \/ Goto(<<Consume("again")>>)
      BY <1>35 DEF frame_data_first
    <2> QED
      BY <1>5, <1>8, <1>11, <1>17, <2>1, <2>2
  <1>36. CASE frame_close_bad \/ frame_close_answer
    <2>1. Top.fn = "frame" /\ stream_buffer' = stream_buffer /\ faults' = faults /\ session' = session
      BY <1>36 DEF frame_close_bad, frame_close_answer, Received, Running, Top, Reject, uwsVars, Others, Buffers
    <2>2. \/ Reject("stop")
          \/ Goto(<<xio_close("uws", "close_complete"), Uws("close_or_error"), Consume("stop")>>)
          \/ Goto(<<xio_close("uws", "close_complete"), Uws("close_or_complete"), Consume("stop")>>)
      BY <1>36 DEF frame_close_bad, frame_close_answer
    <2> QED
      BY <1>1, <1>2, <1>5, <1>8, <1>13, <1>17, <2>1, <2>2
  <1>37. CASE frame_close_by_peer
    <2> DEFINE report == User("on_ws_peer_closed", "", 0, <<>>)
               end == Consume("stop")
               send == xio_send("uws", "on_underlying_io_close_sent", 0)
               sent == Uws("answer_sent")
               close == xio_close("uws", "close_complete")
               closed == Uws("close_or_error")
    <2>1. Goto(<<send, sent>> \o <<report, end>>) \/ Goto(<<close, closed>> \o <<report, end>>)
      BY <1>37 DEF frame_close_by_peer
    <2>2. Top.fn = "frame" /\ stream_buffer' = stream_buffer
      BY <1>37 DEF frame_close_by_peer, Received, Running, Top, Buffers
    <2>3. Mild(report) /\ Fit(end) /\ Mild(send) /\ Mild(sent) /\ Mild(close) /\ Mild(closed)
      BY <1>1, <1>2, <1>3, <1>8, <2>2
    <2> HIDE DEF report, end, send, sent, close, closed
    <2>4. <<send, sent>> \o <<report, end>> = <<send, sent, report, end>>
      BY ONLY ConcatTuples
    <2>5. <<close, closed>> \o <<report, end>> = <<close, closed, report, end>>
      BY ONLY ConcatTuples
    <2>6. MildMove
      BY <2>1, <2>3, <2>4, <2>5 DEF MildMove
    <2> QED
      BY <1>19, <1>37, <2>6 DEF frame_close_by_peer
  <1>38. CASE answer_sent \/ on_underlying_io_close_sent
    <2>1. \/ Pop
          \/ Goto(<<xio_close("uws", "close_complete"), Uws("close_or_error")>>)
          \/ Goto(<<xio_close("uws", "close_complete"), Uws("close_sent_closed")>>)
      BY <1>38 DEF answer_sent, on_underlying_io_close_sent
    <2> QED
      BY <1>1, <1>2, <1>10, <1>12, <1>14, <1>19, <1>38, <2>1 DEF answer_sent, on_underlying_io_close_sent
  <1>39. CASE close_or_error \/ close_or_complete \/ close_sent_closed \/ on_underlying_io_close_complete
    <2>1. \/ Goto(<<>>) \/ Goto(<<Uws("indicate_ws_error"), Uws("set_closed")>>)
          \/ Goto(<<Uws("indicate_ws_close_complete"), Uws("set_closed")>>)
          \/ Goto(<<Uws("indicate_ws_close_complete")>>)
      BY <1>39 DEF close_or_error, close_or_complete, close_sent_closed, on_underlying_io_close_complete
    <2> QED
      BY <1>1, <1>10, <1>11, <1>12, <1>14, <1>18, <1>39, <2>1
         DEF close_or_error, close_or_complete, close_sent_closed, on_underlying_io_close_complete
  <1>40. CASE close_async_closed
    <2>1. Top.fn \notin {"send", "return"}
      BY <1>40 DEF close_async_closed, Running, Top
    <2>2. Return(0) \/ Goto(<<Uws("indicate_ws_error"), ReturnFrame("uws", 1)>>)
      BY <1>40 DEF close_async_closed
    <2> QED
      BY <1>1, <1>10, <1>12, <1>15, <1>18, <1>40, <2>1, <2>2 DEF close_async_closed
  <1>41. CASE frame_ping \/ frame_ignored
    <2>1. Top.fn = "frame" /\ stream_buffer' = stream_buffer /\ faults' = faults /\ session' = session
      BY <1>41 DEF frame_ping, frame_ignored, Received, Running, Top, Reject, uwsVars
    <2>2. \/ Reject("stop") \/ Goto(<<Consume("stop")>>)
          \/ Goto(<<xio_send("uws", "unchecked_on_send_complete", 0), Consume("stop")>>)
      BY <1>41 DEF frame_ping, frame_ignored
    <2> QED
      BY <1>2, <1>5, <1>8, <1>11, <1>12, <1>17, <2>1, <2>2
  <1>42. CASE on_underlying_io_error
    <2>1. \/ Goto(<<xio_close("uws", "NULL"), Uws("indicate_ws_close_complete")>>)
          \/ Shut \/ Goto(<<Uws("indicate_ws_error")>>) \/ Goto(<<>>)
      BY <1>42 DEF on_underlying_io_error, Shut
    <2> QED
      BY <1>1, <1>2, <1>10, <1>11, <1>12, <1>14, <1>16, <1>18, <1>42, <2>1 DEF on_underlying_io_error
  <1>43. CASE uws_client_close_async \/ uws_client_close_handshake_async
    <2>1. Top.fn \notin {"send", "return"}
      BY <1>43 DEF uws_client_close_async, uws_client_close_handshake_async, Running, Top
    <2>2. \/ Return(1) \/ Goto(<<xio_close("uws", "close_complete"), Uws("close_async_closed")>>)
          \/ Goto(<<xio_send("uws", "unchecked_on_send_complete", 0)>>)
      BY <1>43 DEF uws_client_close_async, uws_client_close_handshake_async
    <2>3. stream_buffer' = stream_buffer /\ faults' = faults /\ session' = session
      BY <1>43 DEF uws_client_close_async, uws_client_close_handshake_async, uwsVars, Buffers
    <2> QED
      BY <1>1, <1>2, <1>5, <1>10, <1>11, <1>12, <1>15, <2>1, <2>2, <2>3
  <1>44. CASE on_underlying_io_send_complete
    BY <1>3, <1>5, <1>10, <1>11, <1>44 DEF on_underlying_io_send_complete, Buffers
  <1>45. CASE uws_client_dowork
    <2>1. Goto(<<>>) \/ Goto(<<xio_dowork("uws")>>)
      BY <1>45 DEF uws_client_dowork
    <2> DEFINE m == xio_dowork("uws")
    <2>2. m.at = "socket" /\ m.fn = "dowork"
      BY Neighbours DEF xio_dowork, MkFrame
    <2> HIDE DEF m
    <2>3. Rank(Top) = 1
      BY <1>4, <1>45, Ranks DEF uws_client_dowork, Running, Top, Is
    <2>4. Rank(m) = 1
      BY <2>2, Ranks
    <2>5. Follows(m)
      BY <2>2, <2>3, <2>4 DEF Follows, Is, Takes
    <2> QED
      BY <1>11, <1>14, <1>18, <1>45, <2>1, <2>5 DEF uws_client_dowork, Fit, m
  <1> QED
    BY <1>21, <1>22, <1>23, <1>24, <1>25, <1>26, <1>27, <1>28, <1>29, <1>30, <1>31, <1>32, <1>33, <1>34,
       <1>35, <1>36, <1>37, <1>38, <1>39, <1>40, <1>41, <1>42, <1>43, <1>44, <1>45 DEF UwsNext, Delicate

-----------------------------------------------------------------------------
(* The queue.                                                               *)

\* a frame with nothing of interest on top of what is kept
LEMMA HarmlessOnTop ==
    ASSUME NEW u \in Seq(Frame), u # <<>>, Rank(Head(u)) = 0, Role(Head(u)) # "clearing", StackKept(Tail(u))
    PROVE  StackKept(u)
  <1>1. ~Is(Head(u), "socket", "dowork_sent") /\ ~Takes(Head(u)) /\ ~(Rank(Head(u)) > 0)
    BY Ranks
  <1> QED
    BY <1>1, FirstFrame DEF StackKept

LEMMA StreamKept ==
    ASSUME StackKept(stack')
    PROVE  StreamInv'
  BY DEF StackKept, StreamInv

\* a step that leaves the queue alone, and the sends in it listed
LEMMA QueueKept ==
    ASSUME QueueInv, StackKept(stack'), NobodyHolds', connected' => connected, session' = session,
           pending_io_list' = pending_io_list,
           connected => \A x : Listed(x) /\ (stack # <<>> /\ Holds(Top) => x # Top.n) =>
                                 \E i \in DOMAIN pending_sends' : pending_sends'[i] = x
    PROVE  QueueInv'
  <1>1. ASSUME connected' PROVE Matching' /\ Cleared(stack')
    <2>1. connected /\ Matching /\ Cleared(stack)
      BY <1>1 DEF QueueInv
    <2>2. Live' = Live
      BY DEF Live, StackKept
    <2>3. ASSUME NEW i \in Live'
          PROVE  Listed(pending_io_list[i].n)'
      <3>1. i \in Live
        BY <2>2
      <3> DEFINE x == pending_io_list[i].n
      <3>2. Listed(x) /\ (stack # <<>> /\ Holds(Top) => x # Top.n)
        BY <2>1, <3>1 DEF Matching
      <3> HIDE DEF x
      <3>3. \E j \in DOMAIN pending_sends' : pending_sends'[j] = x
        BY <2>1, <3>2
      <3> QED
        BY <3>3 DEF Listed, x
    <2>4. stack' # <<>> => ~Holds(Top)'
      BY DEF NobodyHolds
    <2>5. \A i, j \in Live' : pending_io_list'[i].n = pending_io_list'[j].n => i = j
      BY <2>1, <2>2 DEF Matching
    <2>6. Matching'
      BY <2>3, <2>4, <2>5 DEF Matching
    <2> QED
      BY <2>1, <2>6 DEF StackKept
  <1>2. stack' # <<>> => ~Relies(Top)' /\ ~Is(Top, "socket", "open")'
    BY DEF NobodyHolds, Relies, Holds, Is
  <1> QED
    BY <1>1, <1>2 DEF QueueInv

\* a step that the socket does not see
LEMMA QueueUnseen ==
    ASSUME QueueInv, StackKept(stack'), NobodyHolds', session' = session,
           UNCHANGED <<connected, pending_io_list, pending_sends>>
    PROVE  QueueInv'
  <1>1. \A x : Listed(x) => \E i \in DOMAIN pending_sends' : pending_sends'[i] = x
    BY DEF Listed
  <1> QED
    BY <1>1, QueueKept

\* a step after which there is no connection
LEMMA QueueDown ==
    ASSUME QueueInv, NobodyHolds', ~connected', session' = session,
           pending_io_list' = pending_io_list \/ pending_io_list' = <<>>
    PROVE  QueueInv'
  <1>1. stack' # <<>> => ~Relies(Top)' /\ ~Is(Top, "socket", "open")'
    BY DEF NobodyHolds, Relies, Holds, Is
  <1> QED
    BY <1>1 DEF QueueInv

\* A reader that reads on has no other beneath it, and is the one that has reported a send, if any.
LEMMA ReaderAlone ==
    ASSUME stack \in Seq(Frame), stack # <<>>, StreamInv, Rank(Top) = 1
    PROVE  /\ Under(Beneath, 1) /\ ~Reported(Beneath)
           /\ Reported(stack) <=> Is(Top, "socket", "dowork_sent")
  <1>1. Top = Head(stack) /\ Beneath = Tail(stack)
    BY DEF Top, Beneath
  <1>2. Under(Beneath, 1)
    BY <1>1, FirstFrame DEF StreamInv
  <1>3. ~Reported(Beneath)
    BY <1>2, Ranks DEF Under, Reported
  <1> QED
    BY <1>1, <1>2, <1>3, FirstFrame

\* what the frame of a reader leaves of the rest
LEMMA ReaderOnTop ==
    ASSUME NEW u \in Seq(Frame), u # <<>>, Rank(Head(u)) \in {1, 2}, Takes(Head(u)) => Head(u).n <= Len(stream_buffer'),
           OneReader(Tail(u)), Under(Tail(u), Rank(Head(u))), Within(Tail(u), Len(stream_buffer'))
    PROVE  /\ OneReader(u) /\ Within(u, Len(stream_buffer'))
           /\ Reported(u) <=> Is(Head(u), "socket", "dowork_sent") \/ Reported(Tail(u))
           /\ Cleared(Tail(u)) => Cleared(u)
           /\ Has(u, "clearing") <=> Has(Tail(u), "clearing")
  <1>1. Role(Head(u)) # "clearing"
    BY Ranks, Roles DEF Decoders, Role, Is
  <1> QED
    BY <1>1, FirstFrame

-----------------------------------------------------------------------------
(* What the socket does.                                                    *)

LEMMA SockMild ==
    ASSUME SocketClient, TypeOK, Place(stack), UNCHANGED stream_buffer,
           \/ socketio_open_refused \/ socketio_open_connected \/ socketio_open_failed \/ socketio_close
           \/ socketio_send_queued
           \/ socketio_dowork_send_end \/ socketio_dowork_receive_error \/ socketio_dowork_receive_end
    PROVE  MildMove /\ stack # <<>> /\ ~Is(Top, "socket", "dowork_sent") /\ ~Is(Top, "socket", "destroy")
  <1>1. stack # <<>> /\ ~Is(Top, "socket", "dowork_sent") /\ ~Is(Top, "socket", "destroy")
    BY DEF socketio_open_refused, socketio_open_connected, socketio_open_failed, socketio_close, socketio_send_queued,
       socketio_dowork_send_end, socketio_dowork_receive_error, socketio_dowork_receive_end, Running, Top, Is
  <1>2. /\ \A x : Mild(on_io_open_complete("socket", x))
        /\ Mild(on_io_close_complete("socket")) /\ Mild(on_io_error("socket"))
        /\ \A v : Mild(ReturnFrame("socket", v))
    BY Neighbours, MildFrames
       DEF on_io_open_complete, on_io_close_complete, on_io_error, Telling, Decoders
  <1>3. \A a : Mild(a) => Fit(a)
    BY DEF Fit
  <1>4. CASE socketio_open_refused \/ socketio_open_connected \/ socketio_open_failed
    <2>1. \E x : Goto(<<on_io_open_complete("socket", x), ReturnFrame("socket", 0)>>)
      BY <1>4 DEF socketio_open_refused, socketio_open_connected, socketio_open_failed
    <2> QED
      BY <1>1, <1>2, <1>3, <2>1 DEF MildMove
  <1>5. CASE socketio_close
    <2>1. Return(0) \/ Goto(<<on_io_close_complete("socket"), ReturnFrame("socket", 0)>>)
      BY <1>5 DEF socketio_close
    <2> QED
      BY <1>1, <1>2, <1>3, <2>1 DEF MildMove
  <1>6. CASE socketio_dowork_send_end
    <2> DEFINE m == dowork_receiving
    <2>1. m.at = "socket" /\ m.fn = "dowork_receive"
      BY DEF dowork_receiving, MkFrame
    <2> HIDE DEF m
    <2>2. Top.at = "socket" /\ Top.fn = "dowork"
      BY <1>6 DEF socketio_dowork_send_end, Running, Top
    <2>3. Follows(m)
      BY <2>1, <2>2, Ranks DEF Follows, Is, Takes
    <2>4. Goto(<<m>>)
      BY <1>6 DEF socketio_dowork_send_end, m
    <2> QED
      BY <1>1, <2>3, <2>4 DEF MildMove, Fit
  <1>7. CASE socketio_dowork_receive_error \/ socketio_dowork_receive_end \/ socketio_send_queued
    <2>1. Pop \/ Goto(<<on_io_error("socket")>>) \/ Return(0)
      BY <1>7 DEF socketio_dowork_receive_error, socketio_dowork_receive_end, socketio_send_queued
    <2> QED
      BY <1>1, <1>2, <1>3, <2>1 DEF MildMove
  <1> QED
    BY <1>4, <1>5, <1>6, <1>7

\* opening, closing, and what is read
LEMMA SockQuietQueue ==
    ASSUME SocketClient, TypeOK, TypeOK', Place(stack), Linked(stack), StreamInv, QueueInv,
           UNCHANGED <<stream_buffer, pending_sends, session>>,
           \/ socketio_open_refused \/ socketio_open_connected \/ socketio_open_failed \/ socketio_close
           \/ socketio_dowork_send_end \/ socketio_dowork_receive_error \/ socketio_dowork_receive_end
    PROVE  StreamInv' /\ QueueInv'
  <1>1. StackKept(stack') /\ NobodyHolds' /\ stack # <<>>
    <2>1. Len(stream_buffer') >= Len(stream_buffer)
      <3>1. stream_buffer \in Seq(Unit)
        BY DEF TypeOK, UwsTypeOK
      <3> QED
        BY <3>1
    <2> QED
      BY <2>1, SockMild, MildStack
  <1>2. CASE \/ socketio_open_refused \/ socketio_open_failed
             \/ socketio_dowork_send_end \/ socketio_dowork_receive_error \/ socketio_dowork_receive_end
    <2>1. UNCHANGED <<connected, pending_io_list>>
      BY <1>2 DEF socketio_open_refused, socketio_open_failed, socketio_dowork_send_end,
         socketio_dowork_receive_error, socketio_dowork_receive_end, sockVars
    <2> QED
      BY <1>1, <2>1, QueueUnseen, StreamKept
  <1>3. CASE socketio_close
    <2>1. ~connected' /\ pending_io_list' = pending_io_list
      BY <1>3 DEF socketio_close
    <2> QED
      BY <1>1, <2>1, QueueDown, StreamKept
  <1>4. CASE socketio_open_connected
    <2>1. Is(Top, "socket", "open") /\ pending_io_list' = pending_io_list
      BY <1>4 DEF socketio_open_connected, Running, Top, Is
    <2>2. pending_io_list = <<>> /\ ~Has(stack, "clearing")
      BY <1>1, <2>1 DEF QueueInv
    <2>3. ~Has(stack', "clearing")
      BY <1>1, <2>2 DEF StackKept
    <2>4. Cleared(stack')
      BY <2>3 DEF Cleared, Has
    <2>5. Matching'
      <3>1. Live' = {}
        BY <2>1, <2>2 DEF Live
      <3> QED
        BY <3>1 DEF Matching
    <2>6. stack' # <<>> => ~Relies(Top)' /\ ~Is(Top, "socket", "open")'
      BY <1>1 DEF NobodyHolds, Relies, Holds, Is
    <2> QED
      BY <1>1, <2>1, <2>2, <2>4, <2>5, <2>6, StreamKept DEF QueueInv
  <1> QED
    BY <1>2, <1>3, <1>4

LEMMA SockDestroyQueue ==
    ASSUME TypeOK, TypeOK', Place(stack), StreamInv, QueueInv, UNCHANGED <<stream_buffer, session>>, socketio_destroy
    PROVE  StreamInv' /\ QueueInv'
  <1>1. stack # <<>> /\ stack \in Seq(Frame) /\ stack' = Beneath /\ Top = Head(stack) /\ Beneath = Tail(stack)
    BY DEF TypeOK, socketio_destroy, Running, Pop, Top, Beneath
  <1>2. StreamInv'
    BY <1>1, FirstFrame DEF StreamInv
  <1>3. NobodyHolds'
    <2>1. Beneath # <<>> => ~Holds(Head(Beneath)) /\ ~Is(Head(Beneath), "socket", "open")
      BY <1>1, BeneathHarmless
    <2> QED
      BY <1>1, <2>1 DEF NobodyHolds, Top
  <1>4. ~connected' /\ pending_io_list' = <<>>
    BY DEF socketio_destroy
  <1> QED
    BY <1>2, <1>3, <1>4, QueueDown

\* a send that is queued
LEMMA SockQueuedQueue ==
    ASSUME SocketClient, TypeOK, TypeOK', Books, Place(stack), Linked(stack), StreamInv, QueueInv,
           UNCHANGED <<stream_buffer, pending_sends, session>>, socketio_send_queued
    PROVE  StreamInv' /\ QueueInv'
  <1>1. StackKept(stack') /\ NobodyHolds' /\ stack # <<>>
    <2>1. Len(stream_buffer') >= Len(stream_buffer)
      <3>1. stream_buffer \in Seq(Unit)
        BY DEF TypeOK, UwsTypeOK
      <3> QED
        BY <3>1
    <2> QED
      BY <2>1, SockMild, MildStack
  <1>2. Is(Top, "socket", "send") /\ sock_state = "OPEN" /\ connected' = connected /\ stack \in Seq(Frame)
    BY DEF socketio_send_queued, Running, Top, Is, TypeOK
  <1>3. connected
    BY <1>2 DEF Books
  <1>4. session # 0
    <2>1. Settled \/ Unreported
      BY <1>1, <1>2, RunsInPlace DEF Sending, OpensSending, Is
    <2> QED
      BY <1>3, <2>1 DEF Settled, Unreported
  <1>5. Matching /\ Cleared(stack)
    BY <1>3 DEF QueueInv
  <1> DEFINE io == [cb |-> Top.arg, n |-> Top.n]
             m == Len(pending_io_list)
  <1>6. pending_io_list \in Seq(PendingIo)
    BY DEF TypeOK, SockTypeOK
  <1>7. pending_io_list' = Append(pending_io_list, io)
    BY DEF socketio_send_queued
  <1> HIDE DEF io
  <1>8. /\ m \in Nat /\ DOMAIN pending_io_list = 1 .. m /\ DOMAIN pending_io_list' = 1 .. m + 1
        /\ pending_io_list'[m + 1] = io /\ \A i \in 1 .. m : pending_io_list'[i] = pending_io_list[i]
    BY <1>6, <1>7
  <1> HIDE DEF m
  <1>9. io.cb = Top.arg /\ io.n = Top.n
    BY DEF io
  <1>10. \A i \in Live' : i \in Live \/ (i = m + 1 /\ Top.arg = "on_underlying_io_send_complete")
    BY <1>1, <1>8, <1>9 DEF Live, StackKept
  <1>11. Top.arg = "on_underlying_io_send_complete" => Relies(Top) /\ Holds(Top)
    BY <1>2 DEF Relies, Holds
  <1>12. Top.arg = "on_underlying_io_send_complete" => Listed(io.n)
    BY <1>1, <1>9, <1>11 DEF QueueInv
  <1>13. Live \subseteq 1 .. m
    BY <1>8 DEF Live
  <1>14. \A i \in Live' : Listed(pending_io_list'[i].n)
    BY <1>5, <1>8, <1>10, <1>12, <1>13 DEF Matching
  <1>15. \A x : Listed(x) => Listed(x)'
    BY DEF Listed
  <1>16. \A i, j \in Live' : pending_io_list'[i].n = pending_io_list'[j].n => i = j
    <2>1. \A i \in Live : Top.arg = "on_underlying_io_send_complete" => pending_io_list[i].n # Top.n
      BY <1>1, <1>5, <1>11 DEF Matching
    <2>2. ASSUME NEW i \in Live', NEW j \in Live', pending_io_list'[i].n = pending_io_list'[j].n
          PROVE  i = j
      <3>1. CASE i \in Live /\ j \in Live
        BY <1>5, <1>8, <1>13, <2>2, <3>1 DEF Matching
      <3>2. CASE i \in Live /\ j \notin Live
        BY <1>8, <1>9, <1>10, <1>13, <2>1, <2>2, <3>2
      <3>3. CASE i \notin Live /\ j \in Live
        BY <1>8, <1>9, <1>10, <1>13, <2>1, <2>2, <3>3
      <3>4. CASE i \notin Live /\ j \notin Live
        BY <1>10, <3>4
      <3> QED
        BY <3>1, <3>2, <3>3, <3>4
    <2> QED
      BY <2>2
  <1>17. Matching'
    <2>1. \A i \in Live' : Listed(pending_io_list[i].n)'
      <3>1. ASSUME NEW i \in Live' PROVE Listed(pending_io_list[i].n)'
        <4> DEFINE x == pending_io_list'[i].n
        <4>1. Listed(x)
          BY <1>14
        <4> HIDE DEF x
        <4>2. \E j \in DOMAIN pending_sends' : pending_sends'[j] = x
          BY <1>15, <4>1 DEF Listed
        <4> QED
          BY <4>2 DEF Listed, x
      <3> QED
        BY <3>1
    <2>2. stack' # <<>> => ~Holds(Top)'
      BY <1>1 DEF NobodyHolds
    <2> QED
      BY <1>16, <2>1, <2>2 DEF Matching
  <1>18. Cleared(stack')
    BY <1>1, <1>5 DEF StackKept
  <1>19. stack' # <<>> => ~Relies(Top)' /\ ~Is(Top, "socket", "open")'
    BY <1>1 DEF NobodyHolds, Relies, Holds, Is
  <1> QED
    BY <1>1, <1>4, <1>17, <1>18, <1>19, StreamKept DEF QueueInv

\* a step that puts a send into somebody's hands
LEMMA QueueHanded ==
    ASSUME QueueInv, stack' # <<>>, session' = session, UNCHANGED <<connected, pending_io_list>>,
           Reported(stack) => Reported(stack'), Cleared(stack) => Cleared(stack'),
           NEW f, Head(stack') = f, ~Is(f, "socket", "open"),
           \A x : Listed(x) => \E i \in DOMAIN pending_sends' : pending_sends'[i] = x,
           Relies(f) => \E i \in DOMAIN pending_sends' : pending_sends'[i] = f.n,
           connected /\ Holds(f) => \A i \in Live' : pending_io_list[i].n # f.n
    PROVE  QueueInv'
  <1>1. ASSUME connected' PROVE Matching' /\ Cleared(stack')
    <2>1. connected /\ Matching /\ Cleared(stack)
      BY <1>1 DEF QueueInv
    <2>2. Live' \subseteq Live
      BY DEF Live
    <2>3. ASSUME NEW i \in Live'
          PROVE  Listed(pending_io_list[i].n)'
      <3>1. i \in Live
        BY <2>2
      <3> DEFINE x == pending_io_list[i].n
      <3>2. Listed(x)
        BY <2>1, <3>1 DEF Matching
      <3> HIDE DEF x
      <3>3. \E j \in DOMAIN pending_sends' : pending_sends'[j] = x
        BY <3>2
      <3> QED
        BY <3>3 DEF Listed, x
    <2>4. \A i \in Live' : Holds(Top') => pending_io_list'[i].n # Top'.n
      BY <2>1 DEF Top
    <2>5. \A i, j \in Live' : pending_io_list'[i].n = pending_io_list'[j].n => i = j
      BY <2>1, <2>2 DEF Matching
    <2>6. Matching'
      BY <2>3, <2>4, <2>5 DEF Matching
    <2> QED
      BY <2>1, <2>6
  <1>2. Top' = f
    BY DEF Top
  <1>3. Relies(Top') => Listed(Top.n)'
    BY <1>2 DEF Listed
  <1>4. session' = 0 => pending_io_list' = <<>>
    BY DEF QueueInv
  <1> QED
    BY <1>1, <1>2, <1>3, <1>4 DEF QueueInv

\* the callback of a send
LEMMA SentFrame ==
    ASSUME NEW cb \in SendCallbacks, NEW n
    PROVE  LET m == MkFrame("uws", cb, "OK", n, <<>>)
           IN  /\ Rank(m) = 0 /\ Role(m) # "clearing" /\ m.n = n
               /\ ~Is(m, "socket", "open")
               /\ Relies(m) \/ Holds(m) => cb = "on_underlying_io_send_complete"
  <1> DEFINE m == MkFrame("uws", cb, "OK", n, <<>>)
  <1>1. m.at = "uws" /\ m.fn = cb /\ m.n = n /\ m.ret = 0
    BY MadeFrame
  <1> HIDE DEF m
  <1>2. Rank(m) = 0
    BY <1>1, Ranks DEF SendCallbacks, Decoders, Is
  <1>3. Role(m) # "clearing"
    BY <1>1, Roles DEF SendCallbacks, Is
  <1>4. Relies(m) \/ Holds(m) => cb = "on_underlying_io_send_complete"
    BY <1>1 DEF Relies, Holds, SendCallbacks, Is
  <1> QED
    BY <1>1, <1>2, <1>3, <1>4 DEF Is, m

LEMMA SockSentQueue ==
    ASSUME TypeOK, TypeOK', Place(stack), Linked(stack), StreamInv, QueueInv,
           UNCHANGED <<stream_buffer, pending_sends, session>>, socketio_send_sent
    PROVE  StreamInv' /\ QueueInv'
  <1> DEFINE m == MkFrame("uws", Top.arg, "OK", Top.n, <<>>)
             r == ReturnFrame("socket", 0)
  <1>1. /\ stack \in Seq(Frame) /\ stack' \in Seq(Frame) /\ stack # <<>> /\ Is(Top, "socket", "send")
        /\ pending_io_list = <<>> /\ UNCHANGED <<connected, pending_io_list>>
    BY DEF TypeOK, socketio_send_sent, Running, Top, Is, sockVars
  <1>2. Top.arg \in SendCallbacks
    <2>1. Top \in Frame
      BY <1>1, RunningTop
    <2> QED
      BY <1>1, <2>1 DEF Frame, WellCalled, Is
  <1>3. Goto(<<r>>) \/ (Goto(<<m, r>>) /\ Top.arg \notin {"NULL", "unchecked_on_send_complete"})
    <2>1. Goto(on_send_complete(Top.arg, "OK", Top.n) \o <<ReturnFrame("socket", 0)>>)
      BY DEF socketio_send_sent
    <2> QED
      BY <2>1, Completed
  <1>4. Mild(r)
    BY MildFrames
  <1>5. Rank(m) = 0 /\ Role(m) # "clearing" /\ m.n = Top.n /\ ~Is(m, "socket", "open")
        /\ (Relies(m) \/ Holds(m) => Top.arg = "on_underlying_io_send_complete")
    BY <1>2, SentFrame
  <1> HIDE DEF m, r
  <1>6. StackKept(Beneath)
    <2>1. stream_buffer \in Seq(Unit)
      BY DEF TypeOK, UwsTypeOK
    <2>2. Len(stream_buffer') >= Len(stream_buffer)
      BY <2>1
    <2>3. ~Is(Top, "socket", "dowork_sent") /\ ~Is(Top, "socket", "destroy")
      BY <1>1 DEF Is
    <2> QED
      BY <1>1, <2>2, <2>3, BeneathKept
  <1>7. \A x : Listed(x) => \E i \in DOMAIN pending_sends' : pending_sends'[i] = x
    BY DEF Listed
  <1>8. CASE Goto(<<r>>)
    <2>1. stack' # <<>> /\ Head(stack') = r /\ Tail(stack') = Beneath
      BY <1>1, <1>8, Goto1 DEF Stack1, OnTop
    <2>2. StackKept(stack')
      BY <1>1, <1>4, <1>6, <2>1, MildOnTop
    <2>3. NobodyHolds'
      BY <1>4, <2>1 DEF NobodyHolds, Mild, Top
    <2> QED
      BY <1>1, <2>2, <2>3, QueueUnseen, StreamKept
  <1>9. CASE Goto(<<m, r>>)
    <2> DEFINE u == Tail(stack')
    <2>1. stack' # <<>> /\ Head(stack') = m /\ u # <<>> /\ Head(u) = r /\ Tail(u) = Beneath
      BY <1>1, <1>9, Goto2 DEF Stack2, OnTop
    <2>2. u \in Seq(Frame)
      BY <1>1, <2>1, TailParts
    <2> HIDE DEF u
    <2>3. StackKept(u)
      BY <1>4, <1>6, <2>1, <2>2, MildOnTop
    <2>4. StackKept(stack')
      BY <1>1, <1>5, <2>1, <2>3, HarmlessOnTop DEF u
    <2>5. Relies(m) => \E i \in DOMAIN pending_sends' : pending_sends'[i] = m.n
      <3>1. Relies(m) => Relies(Top)
        BY <1>1, <1>5 DEF Relies
      <3>2. Relies(m) => Listed(Top.n)
        BY <1>1, <3>1 DEF QueueInv
      <3> QED
        BY <1>5, <1>7, <3>2
    <2>6. Live' = {}
      BY <1>1 DEF Live
    <2> QED
      BY <1>1, <1>5, <1>7, <2>1, <2>4, <2>5, <2>6, QueueHanded, StreamKept DEF StackKept
  <1> QED
    BY <1>3, <1>8, <1>9

LEMMA SockFailedQueue ==
    ASSUME TypeOK, TypeOK', Place(stack), Linked(stack), StreamInv, QueueInv,
           UNCHANGED <<stream_buffer, pending_sends, session>>, socketio_send_failed
    PROVE  StreamInv' /\ QueueInv'
  <1>1. /\ stack \in Seq(Frame) /\ stack' \in Seq(Frame) /\ stack # <<>> /\ Is(Top, "socket", "send")
        /\ UNCHANGED <<connected, pending_io_list>> /\ Return(1)
    BY DEF TypeOK, socketio_send_failed, Running, Top, Is, sockVars
  <1>2. StackKept(Beneath) /\ Beneath \in Seq(Frame)
    <2>1. stream_buffer \in Seq(Unit)
      BY DEF TypeOK, UwsTypeOK
    <2>2. Len(stream_buffer') >= Len(stream_buffer)
      BY <2>1
    <2>3. ~Is(Top, "socket", "dowork_sent") /\ ~Is(Top, "socket", "destroy")
      BY <1>1 DEF Is
    <2> QED
      BY <1>1, <2>2, <2>3, BeneathKept, RunningTop
  <1>3. \A x : Listed(x) => \E i \in DOMAIN pending_sends' : pending_sends'[i] = x
    BY DEF Listed
  <1>4. CASE Beneath = <<>>
    <2>1. stack' = <<>>
      BY <1>1, <1>4, ReturnTop
    <2>2. StackKept(stack') /\ NobodyHolds'
      BY <1>2, <1>4, <2>1 DEF NobodyHolds
    <2> QED
      BY <1>1, <2>2, QueueUnseen, StreamKept
  <1>5. CASE Beneath # <<>>
    <2> DEFINE f == Head(Beneath)
               g == Given(f, 1)
    <2>1. stack' # <<>> /\ Head(stack') = g /\ Tail(stack') = Tail(Beneath) /\ f \in Frame
      BY <1>1, <1>5, ReturnTop DEF Stack1, OnTop
    <2>2. g.at = f.at /\ g.fn = f.fn /\ g.arg = f.arg /\ g.n = f.n /\ g.ret = 1
      BY <2>1, GivenParts
    <2>3. ~Holds(f) /\ ~Is(f, "socket", "open")
      BY <1>1, <1>5, BeneathHarmless
    <2>4. StackKept(stack')
      BY <1>1, <1>2, <1>5, <2>1, GivenKept
    <2>5. Is(f, "uws", "frame_sent") => f.n = Top.n /\ Holds(Top)
      <3>1. Sending(stack) \/ OpensSending(stack)
        BY <1>1, RunsInPlace DEF Is
      <3>2. Head(stack) = Top /\ Tail(stack) = Beneath
        BY DEF Top, Beneath
      <3> QED
        BY <1>1, <3>1, <3>2 DEF Sending, OpensSending, Is, Careless, Holds
    <2> HIDE DEF f, g
    <2>6. ~Relies(g) /\ ~Is(g, "socket", "open")
      BY <2>2, <2>3 DEF Relies, Holds, Is
    <2>7. Holds(g) => Is(f, "uws", "frame_sent")
      BY <2>2, <2>3 DEF Holds, Is
    <2>8. connected /\ Holds(g) => \A i \in Live' : pending_io_list[i].n # g.n
      <3>1. Live' = Live
        BY <1>1, <2>4 DEF Live, StackKept
      <3> QED
        BY <1>1, <2>2, <2>5, <2>7, <3>1 DEF QueueInv, Matching
    <2> QED
      BY <1>1, <1>3, <2>1, <2>4, <2>6, <2>8, QueueHanded, StreamKept DEF StackKept
  <1> QED
    BY <1>4, <1>5

-----------------------------------------------------------------------------
(* What dowork does with the queue.                                         *)

\* u is the stack with the next part of the running reader on top of what waits
LEMMA ReaderKept ==
    ASSUME stack \in Seq(Frame), stack # <<>>, StreamInv, Rank(Top) = 1,
           NEW b, NEW u \in Seq(Frame), u # <<>>, Head(u) = b, Tail(u) = Beneath,
           b.at = "socket", b.fn \in {"dowork", "dowork_sent", "dowork_receive"}
    PROVE  /\ OneReader(u) /\ Within(u, Len(stream_buffer')) /\ Under(u, 2)
           /\ Reported(u) <=> b.fn = "dowork_sent"
           /\ Cleared(stack) => Cleared(u)
           /\ ~Holds(b) /\ ~Relies(b) /\ ~Is(b, "socket", "open")
  <1>1. Rank(b) = 1 /\ ~Takes(b)
    BY Ranks DEF Takes
  <1>2. Under(Beneath, 1) /\ ~Reported(Beneath)
    BY ReaderAlone
  <1>3. Top = Head(stack) /\ Beneath = Tail(stack)
    BY DEF Top, Beneath
  <1>4. OneReader(Beneath) /\ (Cleared(stack) => Cleared(Beneath))
    <2>1. ~Is(Top, "socket", "destroy")
      BY Ranks DEF Is
    <2> QED
      BY <1>3, <2>1, FirstFrame DEF StreamInv
  <1>5. Under(Beneath, 2)
    BY <1>2, Ranks DEF Under
  <1>6. Within(Beneath, Len(stream_buffer'))
    BY <1>5, NothingTaken
  <1>7. Is(b, "socket", "dowork_sent") <=> b.fn = "dowork_sent"
    BY DEF Is
  <1>8. OneReader(u) /\ Within(u, Len(stream_buffer')) /\ (Reported(u) <=> b.fn = "dowork_sent")
        /\ (Cleared(Beneath) => Cleared(u))
    BY <1>1, <1>2, <1>4, <1>6, <1>7, ReaderOnTop
  <1>9. Under(u, 2)
    <2>1. \A r \in {1, 2} : Under(u, r) <=> Rank(b) < r /\ Under(Beneath, r)
      BY FirstFrame
    <2>2. Under(u, 2) <=> Rank(b) < 2 /\ Under(Beneath, 2)
      BY <2>1
    <2> QED
      BY <1>1, <1>5, <2>2
  <1>10. ~Holds(b) /\ ~Relies(b) /\ ~Is(b, "socket", "open")
    BY DEF Holds, Relies, Is
  <1> QED
    BY <1>4, <1>8, <1>9, <1>10

\* and with a harmless call on top of that
LEMMA CallKept ==
    ASSUME NEW w \in Seq(Frame), w # <<>>, Rank(Head(w)) = 0, Role(Head(w)) # "clearing",
           OneReader(Tail(w)), Within(Tail(w), Len(stream_buffer'))
    PROVE  /\ OneReader(w) /\ Within(w, Len(stream_buffer'))
           /\ Reported(w) <=> Reported(Tail(w))
           /\ Cleared(Tail(w)) => Cleared(w)
  <1>1. ~Is(Head(w), "socket", "dowork_sent") /\ ~Takes(Head(w)) /\ ~(Rank(Head(w)) > 0)
    BY Ranks
  <1> QED
    BY <1>1, FirstFrame

\* The first send is reported, but stays in the queue until its callback has returned.
LEMMA SockReportsQueue ==
    ASSUME TypeOK, TypeOK', Place(stack), StreamInv, QueueInv,
           UNCHANGED <<stream_buffer, pending_sends, session>>, socketio_dowork_send_complete
    PROVE  StreamInv' /\ QueueInv'
  <1> DEFINE io == Head(pending_io_list)
             m == MkFrame("uws", io.cb, "OK", io.n, <<>>)
             b == dowork_sent
  <1>1. /\ stack \in Seq(Frame) /\ stack' \in Seq(Frame) /\ stack # <<>>
        /\ Top.at = "socket" /\ Top.fn = "dowork" /\ connected
        /\ UNCHANGED <<connected, pending_io_list>>
    BY DEF TypeOK, socketio_dowork_send_complete, Running, Top, sockVars
  <1>2. io \in PendingIo /\ 1 \in DOMAIN pending_io_list /\ io = pending_io_list[1]
    <2>1. pending_io_list \in Seq(PendingIo) /\ pending_io_list # <<>>
      BY DEF TypeOK, SockTypeOK, socketio_dowork_send_complete
    <2> QED
      BY <2>1
  <1>3. io.cb \in SendCallbacks
    BY <1>2 DEF PendingIo
  <1>4. Goto(<<b>>) \/ (Goto(<<m, b>>) /\ io.cb \notin {"NULL", "unchecked_on_send_complete"})
    <2>1. Goto(on_send_complete(io.cb, "OK", io.n) \o <<b>>)
      BY DEF socketio_dowork_send_complete
    <2> HIDE DEF io
    <2> QED
      BY <2>1, Completed
  <1>5. Rank(m) = 0 /\ Role(m) # "clearing" /\ m.n = io.n /\ ~Is(m, "socket", "open")
        /\ (Relies(m) \/ Holds(m) => io.cb = "on_underlying_io_send_complete")
    <2> HIDE DEF io
    <2> QED
      BY <1>3, SentFrame
  <1>6. b.at = "socket" /\ b.fn = "dowork_sent"
    BY DEF dowork_sent, MkFrame
  <1> HIDE DEF io, m, b
  <1>7. Rank(Top) = 1 /\ ~Is(Top, "socket", "dowork_sent")
    BY <1>1, Ranks DEF Is
  <1>8. \A x : Listed(x) => \E i \in DOMAIN pending_sends' : pending_sends'[i] = x
    BY DEF Listed
  <1>9. ~Reported(stack)
    BY <1>1, <1>7, ReaderAlone
  <1>10. CASE Goto(<<b>>)
    <2>1. stack' # <<>> /\ Head(stack') = b /\ Tail(stack') = Beneath
      BY <1>1, <1>10, Goto1 DEF Stack1, OnTop
    <2>2. /\ OneReader(stack') /\ Within(stack', Len(stream_buffer'))
          /\ Reported(stack') /\ (Cleared(stack) => Cleared(stack'))
          /\ ~Holds(b) /\ ~Relies(b) /\ ~Is(b, "socket", "open")
      BY <1>1, <1>6, <1>7, <2>1, ReaderKept
    <2> QED
      BY <1>1, <1>8, <2>1, <2>2, QueueHanded DEF StreamInv
  <1>11. CASE Goto(<<m, b>>) /\ io.cb \notin {"NULL", "unchecked_on_send_complete"}
    <2> DEFINE u == Tail(stack')
    <2>1. stack' # <<>> /\ Head(stack') = m /\ u # <<>> /\ Head(u) = b /\ Tail(u) = Beneath
      BY <1>1, <1>11, Goto2 DEF Stack2, OnTop
    <2>2. u \in Seq(Frame)
      BY <1>1, <2>1, TailParts
    <2> HIDE DEF u
    <2>3. /\ OneReader(u) /\ Within(u, Len(stream_buffer'))
          /\ Reported(u) /\ (Cleared(stack) => Cleared(u))
      BY <1>1, <1>6, <1>7, <2>1, <2>2, ReaderKept
    <2>4. OneReader(stack') /\ Within(stack', Len(stream_buffer')) /\ Reported(stack')
          /\ (Cleared(stack) => Cleared(stack'))
      BY <1>1, <1>5, <2>1, <2>3, CallKept DEF u
    <2>5. Matching
      BY <1>1 DEF QueueInv
    <2>6. io.cb = "on_underlying_io_send_complete" => 1 \in Live
      BY <1>2, <1>9 DEF Live
    <2>7. Relies(m) => \E i \in DOMAIN pending_sends' : pending_sends'[i] = m.n
      BY <1>2, <1>5, <1>8, <2>5, <2>6 DEF Matching
    <2>8. Holds(m) => \A i \in Live' : pending_io_list[i].n # m.n
      <3>1. \A i \in Live' : i # 1 /\ i \in Live
        BY <1>1, <2>4 DEF Live
      <3> QED
        BY <1>2, <1>5, <2>5, <2>6, <3>1 DEF Matching
    <2> QED
      BY <1>1, <1>5, <1>8, <2>1, <2>4, <2>7, <2>8, QueueHanded DEF StreamInv
  <1> QED
    BY <1>4, <1>10, <1>11

\* The first send leaves the queue.
LEMMA SockShiftsQueue ==
    ASSUME SocketClient, TypeOK, TypeOK', Place(stack), StreamInv, QueueInv,
           UNCHANGED <<stream_buffer, pending_sends, session>>,
           socketio_dowork_remove \/ socketio_dowork_send_error
    PROVE  StreamInv' /\ QueueInv'
  <1> DEFINE e == on_io_error("socket")
             b == dowork_sending
             q == pending_io_list
             m == Len(pending_io_list) - 1
  <1>1. /\ stack \in Seq(Frame) /\ stack' \in Seq(Frame) /\ stack # <<>> /\ connected' = connected
        /\ Top.at = "socket" /\ Top.fn \in {"dowork", "dowork_sent"}
        /\ pending_io_list' = Tail(q) /\ q # <<>>
        /\ Goto(<<b>>) \/ Goto(<<e, b>>)
    BY DEF TypeOK, socketio_dowork_remove, socketio_dowork_send_error, Running, Top
  <1>2. q \in Seq(PendingIo)
    BY DEF TypeOK, SockTypeOK
  <1>3. Mild(e)
    BY Neighbours, MildFrames DEF on_io_error, Telling, Decoders
  <1>4. b.at = "socket" /\ b.fn = "dowork"
    BY DEF dowork_sending, MkFrame
  <1>5. /\ m \in Nat /\ DOMAIN q = 1 .. m + 1 /\ DOMAIN pending_io_list' = 1 .. m
        /\ \A i \in 1 .. m : pending_io_list'[i] = q[i + 1]
    <2>1. DOMAIN q = 1 .. Len(q) /\ Len(q) \in Nat \ {0} /\ DOMAIN Tail(q) = 1 .. Len(q) - 1
          /\ \A i \in 1 .. Len(q) - 1 : Tail(q)[i] = q[i + 1]
      BY <1>1, <1>2, TailParts
    <2> QED
      BY <1>1, <2>1
  <1> HIDE DEF e, b, q, m
  <1>6. Rank(Top) = 1
    BY <1>1, Ranks
  <1>7. /\ OneReader(stack') /\ Within(stack', Len(stream_buffer'))
        /\ ~Reported(stack') /\ (Cleared(stack) => Cleared(stack'))
        /\ NobodyHolds'
    <2>1. CASE Goto(<<b>>)
      <3>1. stack' # <<>> /\ Head(stack') = b /\ Tail(stack') = Beneath
        BY <1>1, <2>1, Goto1 DEF Stack1, OnTop
      <3>2. /\ OneReader(stack') /\ Within(stack', Len(stream_buffer'))
            /\ ~Reported(stack') /\ (Cleared(stack) => Cleared(stack'))
            /\ ~Holds(b) /\ ~Is(b, "socket", "open")
        BY <1>1, <1>4, <1>6, <3>1, ReaderKept
      <3> QED
        BY <3>1, <3>2 DEF NobodyHolds, Top
    <2>2. CASE Goto(<<e, b>>)
      <3> DEFINE u == Tail(stack')
      <3>1. stack' # <<>> /\ Head(stack') = e /\ u # <<>> /\ Head(u) = b /\ Tail(u) = Beneath
        BY <1>1, <2>2, Goto2 DEF Stack2, OnTop
      <3>2. u \in Seq(Frame)
        BY <1>1, <3>1, TailParts
      <3> HIDE DEF u
      <3>3. /\ OneReader(u) /\ Within(u, Len(stream_buffer'))
            /\ ~Reported(u) /\ (Cleared(stack) => Cleared(u))
        BY <1>1, <1>4, <1>6, <3>1, <3>2, ReaderKept
      <3>4. OneReader(stack') /\ Within(stack', Len(stream_buffer')) /\ ~Reported(stack')
            /\ (Cleared(stack) => Cleared(stack'))
        BY <1>1, <1>3, <3>1, <3>3, CallKept DEF u, Mild
      <3>5. NobodyHolds'
        BY <1>3, <3>1 DEF NobodyHolds, Mild, Top
      <3> QED
        BY <3>4, <3>5
    <2> QED
      BY <1>1, <2>1, <2>2
  <1>8. \A i \in Live' : i \in 1 .. m /\ i + 1 \in Live /\ pending_io_list'[i] = q[i + 1]
    <2>1. \A i \in 1 .. m : i + 1 \in 1 .. m + 1 /\ i + 1 # 1
      BY <1>5
    <2> QED
      BY <1>5, <2>1 DEF Live, q
  <1>9. ASSUME connected' PROVE Matching'
    <2>1. Matching
      BY <1>1, <1>9 DEF QueueInv
    <2>2. \A i \in Live' : \E j \in DOMAIN pending_sends' : pending_sends'[j] = pending_io_list'[i].n
      BY <1>8, <2>1 DEF Matching, Listed, q
    <2>3. \A i, j \in Live' : pending_io_list'[i].n = pending_io_list'[j].n => i = j
      <3>1. ASSUME NEW i \in Live', NEW j \in Live', pending_io_list'[i].n = pending_io_list'[j].n
            PROVE  i = j
        <4>1. i \in 1 .. m /\ j \in 1 .. m /\ i + 1 \in Live /\ j + 1 \in Live /\ q[i + 1].n = q[j + 1].n
          BY <1>8, <3>1
        <4>2. i + 1 = j + 1
          BY <2>1, <4>1 DEF Matching, q
        <4> QED
          BY <1>5, <4>1, <4>2
      <3> QED
        BY <3>1
    <2>4. stack' # <<>> => ~Holds(Top)'
      BY <1>7 DEF NobodyHolds
    <2> QED
      BY <2>2, <2>3, <2>4 DEF Matching, Listed
  <1>10. connected' => Cleared(stack')
    BY <1>1, <1>7 DEF QueueInv
  <1>11. stack' # <<>> => ~Relies(Top)' /\ ~Is(Top, "socket", "open")'
    BY <1>7 DEF NobodyHolds, Relies, Holds, Is
  <1>12. session' = 0 => pending_io_list' = <<>>
    <2>1. session' # 0
      BY <1>1 DEF QueueInv, q
    <2> QED
      BY <2>1
  <1> QED
    BY <1>7, <1>9, <1>10, <1>11, <1>12 DEF QueueInv, StreamInv

\* Bytes are passed to the client, which reads above the loop of the socket.
LEMMA SockReceivesQueue ==
    ASSUME SocketClient, TypeOK, TypeOK', Place(stack), StreamInv, QueueInv,
           UNCHANGED <<stream_buffer, pending_sends, session>>, socketio_dowork_receive
    PROVE  StreamInv' /\ QueueInv'
  <1>1. PICK d : Goto(<<on_bytes_received("socket", d), dowork_receiving>>)
    BY DEF socketio_dowork_receive
  <1> DEFINE e == on_bytes_received("socket", d)
             b == dowork_receiving
             u == Tail(stack')
  <1>2. /\ stack \in Seq(Frame) /\ stack' \in Seq(Frame) /\ stack # <<>>
        /\ UNCHANGED <<connected, pending_io_list>>
        /\ Top.at = "socket" /\ Top.fn = "dowork_receive"
    BY DEF TypeOK, socketio_dowork_receive, Running, Top
  <1>3. e.at = "uws" /\ e.fn = "on_bytes_received" /\ b.at = "socket" /\ b.fn = "dowork_receive"
    BY Neighbours DEF on_bytes_received, dowork_receiving, MkFrame
  <1>4. Goto(<<e, b>>)
    BY <1>1
  <1> HIDE DEF e, b
  <1>5. stack' # <<>> /\ Head(stack') = e /\ u # <<>> /\ Head(u) = b /\ Tail(u) = Beneath
    BY <1>2, <1>4, Goto2 DEF Stack2, OnTop
  <1>6. u \in Seq(Frame)
    BY <1>2, <1>5, TailParts
  <1> HIDE DEF u
  <1>7. Rank(Top) = 1 /\ ~Is(Top, "socket", "dowork_sent")
    BY <1>2, Ranks DEF Is
  <1>8. /\ OneReader(u) /\ Within(u, Len(stream_buffer')) /\ Under(u, 2)
        /\ ~Reported(u) /\ (Cleared(stack) => Cleared(u))
    BY <1>2, <1>3, <1>5, <1>6, <1>7, ReaderKept
  <1>9. Rank(e) = 2 /\ ~Takes(e) /\ ~Is(e, "socket", "dowork_sent") /\ ~Holds(e) /\ ~Relies(e) /\ ~Is(e, "socket", "open")
    BY <1>3, Ranks DEF Takes, Decoders, Is, Holds, Relies
  <1>10. /\ OneReader(stack') /\ Within(stack', Len(stream_buffer'))
         /\ ~Reported(stack') /\ (Cleared(stack) => Cleared(stack'))
    BY <1>2, <1>5, <1>8, <1>9, ReaderOnTop DEF u
  <1>11. ~Reported(stack)
    BY <1>2, <1>7, ReaderAlone
  <1>12. \A x : Listed(x) => \E i \in DOMAIN pending_sends' : pending_sends'[i] = x
    BY DEF Listed
  <1> QED
    BY <1>2, <1>5, <1>9, <1>10, <1>11, <1>12, QueueHanded DEF StreamInv

LEMMA SockQueue ==
    ASSUME SocketClient, TypeOK, TypeOK', Books, Place(stack), Linked(stack), StreamInv, QueueInv,
           SockNext, UNCHANGED uwsVars
    PROVE  StreamInv' /\ QueueInv'
  <1>1. UNCHANGED <<stream_buffer, pending_sends, session>>
    BY DEF uwsVars
  <1> QED
    BY <1>1, SockQuietQueue, SockDestroyQueue, SockQueuedQueue, SockSentQueue, SockFailedQueue,
       SockReportsQueue, SockShiftsQueue, SockReceivesQueue DEF SockNext

-----------------------------------------------------------------------------
(* What the client does with the queue and the list.                        *)

LEMMA IdleOnTop ==
    ASSUME NEW u \in Seq(Frame), u # <<>>, Rank(Head(u)) = 0, ~Takes(Head(u))
    PROVE  /\ OneReader(u) <=> OneReader(Tail(u))
           /\ \A l : Within(u, l) <=> Within(Tail(u), l)
           /\ Has(u, "clearing") <=> Role(Head(u)) = "clearing" \/ Has(Tail(u), "clearing")
  <1>1. ~(Rank(Head(u)) > 0)
    OBVIOUS
  <1> QED
    BY <1>1, FirstFrame

LEMMA UwsQuietQueue ==
    ASSUME SocketClient, TypeOK, TypeOK', Place(stack), Linked(stack), StreamInv, QueueInv,
           UwsNext, ~Delicate, UNCHANGED sockVars
    PROVE  StreamInv' /\ QueueInv' /\ faults' = faults
  <1>1. UNCHANGED <<connected, pending_io_list>>
    BY DEF sockVars
  <1>2. stack # <<>> /\ stack \in Seq(Frame) /\ Top.at = "uws"
    BY UwsRuns DEF TypeOK
  <1>3. /\ MildMove /\ faults' = faults /\ session' = session
        /\ Len(stream_buffer') >= Len(stream_buffer) \/ Rank(Top) = 2
    BY UwsMild DEF StreamInv
  <1>4. StackKept(stack') /\ NobodyHolds'
    BY <1>2, <1>3, MildStack DEF Is
  <1>5. CASE ~on_underlying_io_send_complete
    <2>1. pending_sends' = pending_sends
      BY <1>5, UwsQuiet DEF Delicate
    <2> QED
      BY <1>1, <1>3, <1>4, <2>1, QueueUnseen, StreamKept
  <1>6. CASE on_underlying_io_send_complete
    <2>1. pending_sends' = Without(Top.n) /\ Holds(Top) /\ pending_sends \in Seq(Nat)
      BY <1>6 DEF on_underlying_io_send_complete, Running, Top, Holds, TypeOK, UwsTypeOK
    <2>2. \A x : Listed(x) /\ (stack # <<>> /\ Holds(Top) => x # Top.n) =>
                   \E i \in DOMAIN pending_sends' : pending_sends'[i] = x
      <3>1. PICK y : y = Top.n
        OBVIOUS
      <3>2. \A x : Listed(x) /\ x # y => \E i \in DOMAIN Without(y) : Without(y)[i] = x
        BY <2>1, WithoutKeeps
      <3> QED
        BY <1>2, <2>1, <3>1, <3>2
    <2> QED
      BY <1>1, <1>3, <1>4, <2>2, QueueKept, StreamKept
  <1> QED
    BY <1>5, <1>6

\* The item of a send that the socket completes has not been freed.
LEMMA NothingFreed ==
    ASSUME QueueInv
    PROVE  ~on_underlying_io_send_complete_freed
  BY DEF QueueInv, Relies, Is, on_underlying_io_send_complete_freed, Running, Top

\* The list is cleared after the socket has been closed.
LEMMA UwsClearsQueue ==
    ASSUME TypeOK, TypeOK', Place(stack), StreamInv, QueueInv,
           indicate_ws_close_complete \/ clear_pending_sends, UNCHANGED sockVars
    PROVE  StreamInv' /\ QueueInv' /\ faults' = faults
  <1> DEFINE c == Uws("clear_pending_sends")
  <1>1. /\ stack # <<>> /\ stack \in Seq(Frame) /\ stack' \in Seq(Frame) /\ Top.at = "uws"
        /\ Top = Head(stack) /\ Beneath = Tail(stack)
        /\ UNCHANGED <<connected, pending_io_list, stream_buffer, session, faults>>
    BY DEF TypeOK, indicate_ws_close_complete, clear_pending_sends, Running, Top, Beneath, sockVars, Buffers, Others
  <1>2. ~connected
    <2>1. CASE indicate_ws_close_complete
      <3>1. Is(Top, "uws", "indicate_ws_close_complete")
        BY <2>1 DEF indicate_ws_close_complete, Running, Top, Is
      <3>2. Closes(stack)
        BY <1>1, <3>1, RunsInPlace DEF Is
      <3> QED
        BY <1>1, <3>1, <3>2 DEF Closes, Is
    <2>2. CASE clear_pending_sends
      <3>1. Role(Top) = "clearing"
        BY <2>2, Roles DEF clear_pending_sends, Running, Top, Is
      <3>2. ~Cleared(stack)
        <4>1. ~Is(Top, "socket", "destroy")
          BY <1>1 DEF Is
        <4> QED
          BY <1>1, <3>1, <4>1, FirstFrame
      <3> QED
        BY <3>2 DEF QueueInv
    <2> QED
      BY <2>1, <2>2
  <1>3. c.at = "uws" /\ c.fn = "clear_pending_sends"
    BY DEF Uws, MkFrame
  <1>4. OneReader(Beneath) /\ Within(Beneath, Len(stream_buffer'))
    BY <1>1, FirstFrame DEF StreamInv
  <1>5. \/ stack' = Beneath
        \/ Goto(<<c, Uws("call_on_ws_close_complete")>>)
        \/ \E n : Goto(<<User("on_ws_send_frame_complete", "CANCELLED", n, <<>>), c>>)
    BY DEF indicate_ws_close_complete, clear_pending_sends, Pop, Beneath
  <1>6. /\ Mild(Uws("call_on_ws_close_complete"))
        /\ \A n : Mild(User("on_ws_send_frame_complete", "CANCELLED", n, <<>>))
    BY MildFrames DEF Uws, User, Telling, Decoders
  <1> HIDE DEF c
  <1>7. Rank(c) = 0 /\ ~Is(c, "socket", "dowork_sent") /\ ~Takes(c) /\ ~Holds(c) /\ ~Is(c, "socket", "open")
    BY <1>3, Ranks DEF Is, Takes, Decoders, Holds
  <1>8. \A a : Mild(a) => /\ Rank(a) = 0 /\ ~Is(a, "socket", "dowork_sent") /\ ~Takes(a)
                          /\ ~Holds(a) /\ ~Is(a, "socket", "open")
    BY Ranks DEF Mild
  <1>9. OneReader(stack') /\ Within(stack', Len(stream_buffer')) /\ NobodyHolds'
    <2>1. CASE stack' = Beneath
      <3>1. Beneath # <<>> => ~Holds(Head(Beneath)) /\ ~Is(Head(Beneath), "socket", "open")
        BY <1>1, BeneathHarmless
      <3> QED
        BY <1>4, <2>1, <3>1 DEF NobodyHolds, Top
    <2>2. ASSUME NEW a, NEW b, Goto(<<a, b>>), Rank(a) = 0, Rank(b) = 0, ~Takes(a), ~Takes(b),
                 ~Holds(a), ~Is(a, "socket", "open")
          PROVE  OneReader(stack') /\ Within(stack', Len(stream_buffer')) /\ NobodyHolds'
      <3> DEFINE u == Tail(stack')
      <3>1. stack' # <<>> /\ Head(stack') = a /\ u # <<>> /\ Head(u) = b /\ Tail(u) = Beneath
        BY <1>1, <2>2, Goto2 DEF Stack2, OnTop
      <3>2. u \in Seq(Frame)
        BY <1>1, <3>1, TailParts
      <3> HIDE DEF u
      <3>3. OneReader(u) /\ Within(u, Len(stream_buffer'))
        BY <1>4, <2>2, <3>1, <3>2, IdleOnTop
      <3>4. OneReader(stack') /\ Within(stack', Len(stream_buffer'))
        BY <1>1, <2>2, <3>1, <3>3, IdleOnTop DEF u
      <3> QED
        BY <2>2, <3>1, <3>4 DEF NobodyHolds, Top
    <2> QED
      BY <1>5, <1>6, <1>7, <1>8, <2>1, <2>2
  <1>10. QueueInv'
    BY <1>1, <1>2, <1>9, QueueDown
  <1> QED
    BY <1>1, <1>9, <1>10 DEF StreamInv

\* A new connection finds the buffer and the queue empty, and nobody who is about to read.
LEMMA UwsOpensQueue ==
    ASSUME SocketClient, FreshQueue, TypeOK, TypeOK', Books, Place(stack), Linked(stack), StreamInv, QueueInv,
           uws_client_open_async, UNCHANGED sockVars
    PROVE  StreamInv' /\ QueueInv' /\ faults' = faults
  <1>1. /\ stack # <<>> /\ stack \in Seq(Frame) /\ stack' \in Seq(Frame)
        /\ Is(Top, "uws", "uws_client_open_async")
        /\ UNCHANGED <<connected, pending_io_list, pending_sends, faults>>
    BY DEF TypeOK, uws_client_open_async, Running, Top, Is, sockVars, uwsVars
  <1>2. Called(stack)
    BY <1>1, RunsInPlace DEF Is, Api
  <1>3. Top = Head(stack) /\ Beneath = Tail(stack) /\ Beneath \in Seq(Frame)
    BY <1>1, RunningTop DEF Top, Beneath
  <1>4. /\ Settled /\ Beneath # <<>> /\ Is(Head(Beneath), "user", "returned")
        /\ session < opens /\ Tail(Beneath) = <<>>
    BY <1>1, <1>2, <1>3 DEF Called, Is
  <1>5. CASE Return(1) /\ UNCHANGED uwsVars
    <2>1. MildMove
      BY <1>1, <1>5 DEF MildMove, Is
    <2>2. Len(stream_buffer') >= Len(stream_buffer)
      <3>1. stream_buffer \in Seq(Unit) /\ stream_buffer' = stream_buffer
        BY <1>5 DEF TypeOK, UwsTypeOK, uwsVars
      <3> QED
        BY <3>1
    <2>3. StackKept(stack') /\ NobodyHolds'
      BY <1>1, <2>1, <2>2, MildStack DEF Is
    <2>4. session' = session
      BY <1>5 DEF uwsVars
    <2> QED
      BY <1>1, <2>3, <2>4, QueueUnseen, StreamKept
  <1> DEFINE o == xio_open("uws")
             r == Uws("xio_open_returned")
             u == Tail(stack')
  <1>6. CASE uws_state = "CLOSED" /\ stream_buffer' = <<>> /\ session' = session + 1 /\ Goto(<<o, r>>)
    <2>1. o.at = "socket" /\ o.fn = "open" /\ r.at = "uws" /\ r.fn = "xio_open_returned"
      BY Neighbours DEF xio_open, Uws, MkFrame
    <2> HIDE DEF o, r
    <2>2. stack' # <<>> /\ Head(stack') = o /\ u # <<>> /\ Head(u) = r /\ Tail(u) = Beneath
      BY <1>1, <1>6, Goto2 DEF Stack2, OnTop
    <2>3. u \in Seq(Frame)
      BY <1>1, <2>2, TailParts
    <2>4. Rank(Head(Beneath)) = 0 /\ ~Takes(Head(Beneath)) /\ Role(Head(Beneath)) # "clearing"
      BY <1>4, Ranks DEF Is, Takes, Role
    <2>5. Rank(o) = 0 /\ ~Takes(o) /\ Role(o) # "clearing" /\ ~Relies(o)
      BY <2>1, Ranks, Roles DEF Is, Takes, Relies
    <2>6. Rank(r) = 0 /\ ~Takes(r) /\ Role(r) # "clearing"
      BY <2>1, Ranks, Roles DEF Is, Takes, Decoders
    <2> HIDE DEF u
    <2>7. OneReader(<<>>) /\ Within(<<>>, Len(stream_buffer')) /\ ~Has(<<>>, "clearing")
      BY DEF OneReader, Within, Frames, Has
    <2>8. OneReader(Beneath) /\ Within(Beneath, Len(stream_buffer')) /\ ~Has(Beneath, "clearing")
      BY <1>3, <1>4, <2>4, <2>7, IdleOnTop
    <2>9. OneReader(u) /\ Within(u, Len(stream_buffer')) /\ ~Has(u, "clearing")
      BY <2>2, <2>3, <2>6, <2>8, IdleOnTop
    <2>10. OneReader(stack') /\ Within(stack', Len(stream_buffer')) /\ ~Has(stack', "clearing")
      BY <1>1, <2>2, <2>5, <2>9, IdleOnTop DEF u
    <2>11. pending_io_list = <<>>
      <3>1. CASE MayBlock = FALSE
        BY <3>1 DEF Books
      <3>2. CASE MaxOpens = 1
        <4>1. session \in Nat /\ opens \in 0 .. 1
          BY <3>2 DEF TypeOK, UwsTypeOK
        <4>2. session = 0
          BY <1>4, <4>1
        <4> QED
          BY <4>2 DEF QueueInv
      <3> QED
        BY <3>1, <3>2 DEF FreshQueue
    <2>12. ~connected'
      BY <1>1, <1>4, <1>6 DEF Settled
    <2>13. Top' = o
      BY <2>2 DEF Top
    <2>14. QueueInv'
      BY <1>1, <2>5, <2>10, <2>11, <2>12, <2>13 DEF QueueInv
    <2> QED
      BY <1>1, <2>10, <2>14 DEF StreamInv
  <1> QED
    BY <1>5, <1>6 DEF uws_client_open_async, State

\* The list is cleared after the socket was destroyed.
LEMMA UwsDestroysQueue ==
    ASSUME SocketClient, TypeOK, TypeOK', Place(stack), StreamInv, QueueInv,
           uws_client_destroy, UNCHANGED sockVars
    PROVE  StreamInv' /\ QueueInv' /\ faults' = faults
  <1> DEFINE a == MkFrame("uws", "uws_client_close_async", "NULL", 0, <<>>)
             b == xio_destroy("uws")
             c == Uws("clear_pending_sends")
  <1>1. /\ stack # <<>> /\ stack \in Seq(Frame) /\ stack' \in Seq(Frame)
        /\ Top.at = "uws" /\ Top.fn = "uws_client_destroy"
        /\ UNCHANGED <<connected, pending_io_list, pending_sends, session, faults>>
    BY DEF uws_client_destroy, Running, Top, TypeOK, sockVars, uwsVars
  <1>2. Called(stack) /\ Top = Head(stack) /\ Beneath = Tail(stack)
    BY <1>1, RunsInPlace DEF Api, Top, Beneath
  <1>3. Beneath = <<>>
    BY <1>1, <1>2 DEF Called
  <1>4. Goto(<<a>> \o <<b, c>>) \/ Goto(<<>> \o <<b, c>>)
    BY DEF uws_client_destroy
  <1>5. /\ a.at = "uws" /\ a.fn = "uws_client_close_async" /\ b.at = "socket" /\ b.fn = "destroy"
        /\ c.at = "uws" /\ c.fn = "clear_pending_sends"
    BY Neighbours DEF MkFrame, xio_destroy, Uws
  <1> HIDE DEF a, b, c
  <1>6. /\ Rank(a) = 0 /\ ~Takes(a) /\ Role(a) # "clearing"
        /\ Rank(b) = 0 /\ ~Takes(b) /\ Role(b) # "clearing" /\ Is(b, "socket", "destroy")
        /\ Rank(c) = 0 /\ ~Takes(c)
    BY <1>5, Ranks, Roles DEF Is, Takes, Decoders
  <1>7. <<a>> \o <<b, c>> = <<a, b, c>> /\ <<>> \o <<b, c>> = <<b, c>>
    BY ONLY ConcatTuples
  <1> DEFINE Sound(s) == OneReader(s) /\ Within(s, Len(stream_buffer')) /\ Cleared(s)
  <1>8. ASSUME NEW u \in Seq(Frame), u # <<>>, Head(u) = b, Tail(u) # <<>>, Head(Tail(u)) = c, Tail(Tail(u)) = <<>>
        PROVE  Sound(u)
    <2>1. Tail(u) \in Seq(Frame)
      BY <1>8, TailParts
    <2>2. OneReader(<<>>) /\ Within(<<>>, Len(stream_buffer'))
      BY DEF OneReader, Within, Frames
    <2>3. OneReader(Tail(u)) /\ Within(Tail(u), Len(stream_buffer'))
      BY <1>6, <1>8, <2>1, <2>2, IdleOnTop
    <2>4. OneReader(u) /\ Within(u, Len(stream_buffer'))
      BY <1>6, <1>8, <2>3, IdleOnTop
    <2>5. Cleared(u)
      BY <1>6, <1>8, FirstFrame
    <2> QED
      BY <2>4, <2>5
  <1>9. Sound(stack') /\ stack' # <<>> /\ Head(stack') \in {a, b}
    <2>1. CASE Goto(<<a, b, c>>)
      <3> DEFINE u == Tail(stack')
      <3>1. stack' # <<>> /\ Head(stack') = a /\ u # <<>> /\ Head(u) = b
            /\ Tail(u) # <<>> /\ Head(Tail(u)) = c /\ Tail(Tail(u)) = <<>>
        BY <1>1, <1>3, <2>1, Goto3 DEF Stack3, Stack2, OnTop
      <3>2. u \in Seq(Frame)
        BY <1>1, <3>1, TailParts
      <3> HIDE DEF u
      <3>3. Sound(u)
        BY <1>8, <3>1, <3>2
      <3>4. Sound(stack')
        BY <1>1, <1>6, <3>1, <3>3, CallKept DEF u
      <3> QED
        BY <3>1, <3>4
    <2>2. CASE Goto(<<b, c>>)
      <3>1. stack' # <<>> /\ Head(stack') = b /\ Tail(stack') # <<>> /\ Head(Tail(stack')) = c
            /\ Tail(Tail(stack')) = <<>>
        BY <1>1, <1>3, <2>2, Goto2 DEF Stack2, OnTop
      <3> QED
        BY <1>1, <1>8, <3>1
    <2> QED
      BY <1>4, <1>7, <2>1, <2>2
  <1>10. ~Reported(stack)
    <2>1. ~Is(Top, "socket", "dowork_sent") /\ ~Reported(<<>>)
      BY <1>1 DEF Is, Reported, Frames
    <2> QED
      BY <1>1, <1>2, <1>3, <2>1, FirstFrame
  <1> DEFINE f == Head(stack')
  <1>11. ~Is(f, "socket", "open") /\ ~Relies(f) /\ ~Holds(f)
    BY <1>5, <1>9 DEF Is, Relies, Holds
  <1>12. \A x : Listed(x) => \E i \in DOMAIN pending_sends' : pending_sends'[i] = x
    BY <1>1 DEF Listed
  <1> HIDE DEF f
  <1>13. QueueInv'
    BY <1>1, <1>9, <1>10, <1>11, <1>12, QueueHanded DEF f
  <1> QED
    BY <1>1, <1>9, <1>13 DEF StreamInv

\* A send is listed before it is handed down.
LEMMA UwsSendsQueue ==
    ASSUME SocketClient, TypeOK, TypeOK', Place(stack), Linked(stack), StreamInv, QueueInv,
           uws_client_send_frame_async, UNCHANGED sockVars
    PROVE  StreamInv' /\ QueueInv' /\ faults' = faults
  <1>1. /\ stack # <<>> /\ stack \in Seq(Frame) /\ stack' \in Seq(Frame)
        /\ Top.at = "uws" /\ Top.fn = "uws_client_send_frame_async"
        /\ UNCHANGED <<connected, pending_io_list, stream_buffer, session, faults>>
    BY DEF uws_client_send_frame_async, Running, Top, TypeOK, sockVars, Buffers
  <1>2. Len(stream_buffer') >= Len(stream_buffer)
    <2>1. stream_buffer \in Seq(Unit)
      BY DEF TypeOK, UwsTypeOK
    <2> QED
      BY <1>1, <2>1
  <1>3. ~Is(Top, "socket", "dowork_sent") /\ ~Is(Top, "socket", "destroy")
    BY <1>1 DEF Is
  <1>4. CASE Return(1) /\ UNCHANGED pending_sends
    <2>1. MildMove
      BY <1>1, <1>4 DEF MildMove
    <2> QED
      BY <1>1, <1>2, <1>3, <1>4, <2>1, MildStack, QueueUnseen, StreamKept
  <1> DEFINE s == xio_send("uws", "on_underlying_io_send_complete", Top.n)
             r == MkFrame("uws", "frame_sent", "", Top.n, <<>>)
             u == Tail(stack')
  <1>5. CASE pending_sends' = Append(pending_sends, Top.n) /\ Goto(<<s, r>>)
    <2>1. s.at = "socket" /\ s.fn = "send" /\ s.n = Top.n
      BY Neighbours DEF xio_send, MkFrame
    <2>2. Mild(r)
      BY MildFrames DEF Telling, Decoders
    <2>3. Goto(<<s, r>>)
      BY <1>5
    <2> HIDE DEF s, r
    <2>4. stack' # <<>> /\ Head(stack') = s /\ u # <<>> /\ Head(u) = r /\ Tail(u) = Beneath
      BY <1>1, <2>3, Goto2 DEF Stack2, OnTop
    <2>5. u \in Seq(Frame)
      BY <1>1, <2>4, TailParts
    <2> HIDE DEF u
    <2>6. Rank(s) = 0 /\ Role(s) # "clearing" /\ ~Is(s, "socket", "open")
      BY <2>1, Ranks, Roles DEF Is
    <2>7. StackKept(Beneath)
      BY <1>1, <1>2, <1>3, BeneathKept
    <2>8. StackKept(u)
      BY <2>2, <2>4, <2>5, <2>7, MildOnTop
    <2>9. StackKept(stack')
      BY <1>1, <2>4, <2>6, <2>8, HarmlessOnTop DEF u
    <2> DEFINE n == Top.n
    <2>10. \E i \in DOMAIN pending_sends' : pending_sends'[i] = n
      <3>1. pending_sends \in Seq(Nat)
        BY DEF TypeOK, UwsTypeOK
      <3> HIDE DEF n
      <3>2. LET q == Append(pending_sends, n) IN Len(pending_sends) + 1 \in DOMAIN q /\ q[Len(pending_sends) + 1] = n
        BY <3>1
      <3> QED
        BY <1>5, <3>2 DEF n
    <2>11. \A x : Listed(x) => \E i \in DOMAIN pending_sends' : pending_sends'[i] = x
      <3>1. pending_sends \in Seq(Nat) /\ pending_sends' = Append(pending_sends, n)
        BY <1>5 DEF TypeOK, UwsTypeOK
      <3> HIDE DEF n
      <3>2. \A i \in DOMAIN pending_sends : i \in DOMAIN pending_sends' /\ pending_sends'[i] = pending_sends[i]
        BY <3>1
      <3> QED
        BY <3>2 DEF Listed
    <2>12. connected => \A i \in Live' : pending_io_list[i].n # s.n
      <3>1. Live' = Live
        BY <1>1, <2>9 DEF Live, StackKept
      <3>2. Holds(Top)
        BY <1>1 DEF Holds
      <3> QED
        BY <1>1, <2>1, <3>1, <3>2 DEF QueueInv, Matching
    <2> HIDE DEF n
    <2>13. QueueInv'
      BY <1>1, <2>1, <2>4, <2>6, <2>9, <2>10, <2>11, <2>12, QueueHanded DEF StackKept, n
    <2> QED
      BY <1>1, <2>9, <2>13, StreamKept
  <1> QED
    BY <1>4, <1>5 DEF uws_client_send_frame_async

\* A send that has failed is in nobody's queue, and taken off the list.
LEMMA UwsSentQueue ==
    ASSUME TypeOK, TypeOK', Place(stack), Linked(stack), StreamInv, QueueInv,
           frame_sent, UNCHANGED sockVars
    PROVE  StreamInv' /\ QueueInv' /\ faults' = faults
  <1>1. /\ stack # <<>> /\ stack \in Seq(Frame)
        /\ Top.at = "uws" /\ Top.fn = "frame_sent" /\ Return(Top.ret)
        /\ pending_sends' = IF Top.ret = 0 THEN pending_sends ELSE Without(Top.n)
        /\ UNCHANGED <<connected, pending_io_list, stream_buffer, session, faults>>
    BY DEF frame_sent, Running, Top, TypeOK, sockVars, Buffers
  <1>2. Len(stream_buffer') >= Len(stream_buffer)
    <2>1. stream_buffer \in Seq(Unit)
      BY DEF TypeOK, UwsTypeOK
    <2> QED
      BY <1>1, <2>1
  <1>3. ~Is(Top, "socket", "dowork_sent") /\ ~Is(Top, "socket", "destroy")
    BY <1>1 DEF Is
  <1>4. MildMove
    BY <1>1 DEF MildMove
  <1>5. StackKept(stack') /\ NobodyHolds'
    BY <1>1, <1>2, <1>3, <1>4, MildStack
  <1>6. CASE Top.ret = 0
    BY <1>1, <1>5, <1>6, QueueUnseen, StreamKept
  <1>7. CASE Top.ret # 0
    <2>1. Holds(Top) /\ pending_sends' = Without(Top.n) /\ pending_sends \in Seq(Nat)
      BY <1>1, <1>7 DEF Holds, Is, TypeOK, UwsTypeOK
    <2>2. \A x : Listed(x) /\ (stack # <<>> /\ Holds(Top) => x # Top.n) =>
                   \E i \in DOMAIN pending_sends' : pending_sends'[i] = x
      <3>1. PICK y : y = Top.n
        OBVIOUS
      <3>2. \A x : Listed(x) /\ x # y => \E i \in DOMAIN Without(y) : Without(y)[i] = x
        BY <2>1, WithoutKeeps
      <3> QED
        BY <1>1, <2>1, <3>1, <3>2
    <2> QED
      BY <1>1, <1>5, <2>2, QueueKept, StreamKept
  <1> QED
    BY <1>6, <1>7

LEMMA UwsQueue ==
    ASSUME SocketClient, FreshQueue, TypeOK, TypeOK', Books, Place(stack), Linked(stack), StreamInv, QueueInv,
           UwsNext, UNCHANGED sockVars
    PROVE  StreamInv' /\ QueueInv' /\ faults' = faults
  BY UwsQuietQueue, UwsClearsQueue, UwsOpensQueue, UwsDestroysQueue, UwsSendsQueue, UwsSentQueue, NothingFreed
     DEF Delicate

-----------------------------------------------------------------------------
(* The user.                                                                *)

\* A call leaves what is beneath it as it was.
LEMMA CallStacks ==
    ASSUME TypeOK, TypeOK', StreamInv, UNCHANGED stream_buffer,
           stack = <<>> \/ Running("user", "in_callback"),
           NEW f, NEW a, NEW c, NEW n, Call(f, a, c, n),
           f \notin Decoders \cup {"uws_client_dowork", "clear_pending_sends"}
    PROVE  StackKept(stack') /\ stack' # <<>> /\ Head(stack') = MkFrame("uws", f, a, n, <<>>)
  <1> DEFINE m == MkFrame("uws", f, a, n, <<>>)
             r == MkFrame("user", "returned", c, n, <<>>)
             t == IF stack = <<>> THEN <<>> ELSE <<[Top EXCEPT !.n = @ + 1]>> \o Tail(stack)
  <1>1. stack \in Seq(Frame) /\ stack' \in Seq(Frame)
    BY DEF TypeOK
  <1>2. stack' = <<m, r>> \o t
    BY DEF Call
  <1>3. /\ Rank(m) = 0 /\ Role(m) # "clearing"
        /\ Mild(r)
    <2>1. m.at = "uws" /\ m.fn = f
      BY MadeFrame
    <2>2. Mild(r)
      BY MildFrames
    <2> HIDE DEF m, r
    <2>3. ~Is(m, "uws", "clear_pending_sends") /\ ~Is(m, "uws", "uws_client_dowork")
      BY <2>1 DEF Is
    <2>4. Rank(m) = 0
      BY <2>1, <2>3, Ranks
    <2> QED
      BY <2>2, <2>3, <2>4 DEF Role, Is
  <1>4. CASE stack = <<>>
    <2>1. t = <<>>
      BY <1>4
    <2> HIDE DEF t, m, r
    <2>2. t \in Seq({})
      BY <2>1
    <2>3. OnTop(stack', m, Tail(stack')) /\ OnTop(Tail(stack'), r, t)
      BY <1>2, <2>2, StackTwo DEF Stack2
    <2>4. StackKept(t)
      BY <1>4, <2>1 DEF StackKept, OneReader, Within, Frames
    <2>5. Tail(stack') \in Seq(Frame)
      BY <1>1, <2>3, TailParts DEF OnTop
    <2>6. StackKept(Tail(stack'))
      BY <1>3, <2>3, <2>4, <2>5, MildOnTop DEF OnTop
    <2> QED
      BY <1>1, <1>3, <2>3, <2>6, HarmlessOnTop DEF OnTop, m
  <1>5. CASE stack # <<>>
    <2> DEFINE g == [Top EXCEPT !.n = @ + 1]
    <2>1. Top.at = "user" /\ Top.fn = "in_callback"
      BY <1>5 DEF Running, Top
    <2>2. Top \in Frame /\ Beneath \in Seq(Frame)
      BY <1>1, <1>5, RunningTop
    <2>3. g.at = "user" /\ g.fn = "in_callback"
      BY <2>1, <2>2 DEF Frame
    <2>4. t = <<g>> \o Beneath
      BY <1>5 DEF Beneath
    <2> HIDE DEF g, t, m, r
    <2>5. OnTop(t, g, Beneath) /\ t \in Seq(Frame \cup {g})
      BY <2>2, <2>4, ConsOnTop
    <2>6. OnTop(stack', m, Tail(stack')) /\ OnTop(Tail(stack'), r, t)
      BY <1>2, <2>5, StackTwo DEF Stack2
    <2>7. Tail(stack') \in Seq(Frame) /\ t \in Seq(Frame)
      <3>1. Tail(stack') \in Seq(Frame)
        BY <1>1, <2>6, TailParts DEF OnTop
      <3> QED
        BY <2>6, <3>1, TailParts DEF OnTop
    <2>8. StackKept(Beneath)
      <3>1. ~Is(Top, "socket", "dowork_sent") /\ ~Is(Top, "socket", "destroy")
        BY <2>1 DEF Is
      <3>2. Len(stream_buffer') >= Len(stream_buffer)
        <4>1. stream_buffer \in Seq(Unit)
          BY DEF TypeOK, UwsTypeOK
        <4> QED
          BY <4>1
      <3> QED
        BY <1>5, <3>1, <3>2, BeneathKept
    <2>9. Rank(g) = 0 /\ Role(g) # "clearing"
      BY <2>3, Ranks DEF Role, Is
    <2>10. StackKept(t)
      BY <2>5, <2>7, <2>8, <2>9, HarmlessOnTop DEF OnTop
    <2>11. StackKept(Tail(stack'))
      BY <1>3, <2>6, <2>7, <2>10, MildOnTop DEF OnTop
    <2> QED
      BY <1>1, <1>3, <2>6, <2>11, HarmlessOnTop DEF OnTop, m
  <1> QED
    BY <1>4, <1>5

LEMMA NothingOn ==
    /\ OneReader(<<>>) /\ ~Reported(<<>>) /\ Cleared(<<>>)
    /\ \A r : Under(<<>>, r)
    /\ \A l : Within(<<>>, l)
  BY DEF OneReader, Under, Within, Reported, Cleared, Frames

LEMMA OneFrame ==
    ASSUME NEW m
    PROVE  <<m>> # <<>> /\ Head(<<m>>) = m /\ Tail(<<m>>) = <<>>
  OBVIOUS

\* dowork and destroy are called when nothing runs
LEMMA AloneStacks ==
    ASSUME TypeOK', QueueInv, stack = <<>>,
           connected' = connected, pending_io_list' = pending_io_list,
           pending_sends' = pending_sends, session' = session,
           NEW f, f = "uws_client_dowork" \/ f = "uws_client_destroy",
           stack' = <<MkFrame("uws", f, "", 0, <<>>)>>
    PROVE  StreamInv' /\ QueueInv'
  <1> DEFINE m == MkFrame("uws", f, "", 0, <<>>)
  <1>1. m.at = "uws" /\ m.fn = f
    BY DEF MkFrame
  <1>2. stack' = <<m>>
    OBVIOUS
  <1>3. stack' \in Seq(Frame)
    BY DEF TypeOK
  <1> HIDE DEF m
  <1>4. stack' # <<>> /\ Head(stack') = m /\ Tail(stack') = <<>>
    BY <1>2, OneFrame
  <1>5. ~Takes(m) /\ Role(m) # "clearing" /\ ~Relies(m) /\ ~Holds(m) /\ ~Is(m, "socket", "open")
        /\ ~Is(m, "socket", "dowork_sent")
    BY <1>1 DEF Takes, Role, Relies, Holds, Is
  <1>6. OneReader(stack') /\ Within(stack', Len(stream_buffer'))
        /\ ~Reported(stack') /\ Cleared(stack')
    BY <1>3, <1>4, <1>5, NothingOn, FirstFrame
  <1>7. ~Reported(stack) /\ Cleared(stack)
    BY NothingOn
  <1>8. \A x : Listed(x) => \E i \in DOMAIN pending_sends' : pending_sends'[i] = x
    BY DEF Listed
  <1>9. QueueInv'
    BY <1>4, <1>5, <1>6, <1>7, <1>8, QueueHanded
  <1> QED
    BY <1>6, <1>9 DEF StreamInv

\* A new send is none of those that are queued.
LEMMA NewSend ==
    ASSUME TypeOK, QueueInv, DataOK, connected, NEW n, n = sends + 1
    PROVE  \A i \in Live : pending_io_list[i].n # n
  <1>1. sends \in Nat
    <2>1. sends \in 0 .. MaxSends /\ MaxSends \in Nat
      BY BoundsAssumption DEF TypeOK
    <2> QED
      BY <2>1
  <1>2. ASSUME NEW i \in Live PROVE pending_io_list[i].n \in 1 .. sends
    <2>1. Listed(pending_io_list[i].n)
      BY <1>2 DEF QueueInv, Matching
    <2> QED
      BY <2>1 DEF Listed, DataOK, Untold
  <1> QED
    BY <1>1, <1>2

LEMMA UserCallQueue ==
    ASSUME SocketClient, TypeOK, TypeOK', StreamInv, QueueInv, DataOK,
           UserCalls, UNCHANGED <<sockVars, uwsVars>>
    PROVE  StreamInv' /\ QueueInv'
  <1>1. UNCHANGED <<connected, pending_io_list, pending_sends, session, stream_buffer>>
    BY DEF sockVars, uwsVars
  <1>2. ASSUME NEW c, MayCall(c)
        PROVE  /\ stack = <<>> \/ Running("user", "in_callback")
               /\ c \in {"dowork", "destroy"} => stack = <<>>
    BY <1>2, BoundsAssumption DEF MayCall
  <1>3. \A x : Listed(x) => \E i \in DOMAIN pending_sends' : pending_sends'[i] = x
    BY <1>1 DEF Listed
  <1>4. CASE CallOpen \/ CallClose \/ CallCloseNull
    <2>1. PICK f, a, c, n :
            /\ Call(f, a, c, n)
            /\ f \in {"uws_client_open_async", "uws_client_close_async", "uws_client_close_handshake_async"}
      BY <1>4 DEF CallOpen, CallClose, CallCloseNull
    <2>2. stack = <<>> \/ Running("user", "in_callback")
      BY <1>2, <1>4 DEF CallOpen, CallClose, CallCloseNull
    <2>3. f \notin Decoders \cup {"uws_client_dowork", "clear_pending_sends", "uws_client_send_frame_async",
                                  "on_underlying_io_send_complete", "frame_sent"}
      BY <2>1 DEF Decoders
    <2> DEFINE m == MkFrame("uws", f, a, n, <<>>)
    <2>4. StackKept(stack') /\ stack' # <<>> /\ Head(stack') = m
      BY <1>1, <2>1, <2>2, <2>3, CallStacks
    <2>5. m.at = "uws" /\ m.fn = f
      BY MadeFrame
    <2> HIDE DEF m
    <2>6. NobodyHolds'
      <3>1. ~Holds(m) /\ ~Is(m, "socket", "open")
        BY <2>3, <2>5 DEF Holds, Is
      <3> QED
        BY <2>4, <3>1 DEF NobodyHolds, Top
    <2> QED
      BY <1>1, <2>4, <2>6, QueueUnseen, StreamKept
  <1>5. CASE CallSend
    <2>1. PICK n : n = sends + 1 /\ Call("uws_client_send_frame_async", "", "send", n)
      BY <1>5 DEF CallSend
    <2>2. stack = <<>> \/ Running("user", "in_callback")
      BY <1>2, <1>5 DEF CallSend
    <2> DEFINE m == MkFrame("uws", "uws_client_send_frame_async", "", n, <<>>)
    <2>3. StackKept(stack') /\ stack' # <<>> /\ Head(stack') = m
      BY <1>1, <2>1, <2>2, CallStacks DEF Decoders
    <2>4. m.at = "uws" /\ m.fn = "uws_client_send_frame_async" /\ m.n = n
      BY DEF MkFrame
    <2> HIDE DEF m
    <2>5. ~Is(m, "socket", "open") /\ ~Relies(m)
      BY <2>4 DEF Relies, Is
    <2>6. connected => \A i \in Live' : pending_io_list[i].n # m.n
      <3>1. Live' = Live
        BY <1>1, <2>3 DEF Live, StackKept
      <3> QED
        BY <2>1, <2>4, <3>1, NewSend
    <2> QED
      BY <1>1, <1>3, <2>3, <2>5, <2>6, QueueHanded, StreamKept DEF StackKept
  <1>6. CASE CallDowork
    BY <1>1, <1>2, <1>6, AloneStacks DEF CallDowork
  <1>7. CASE CallDestroy
    BY <1>1, <1>2, <1>7, AloneStacks DEF CallDestroy
  <1> QED
    BY <1>4, <1>5, <1>6, <1>7 DEF UserCalls

\* Neither the end of a callback nor that of a call is seen by the socket.
LEMMA UserStepQueue ==
    ASSUME TypeOK, TypeOK', Place(stack), Linked(stack), StreamInv, QueueInv,
           UserSteps \/ ReturnStep, UNCHANGED <<sockVars, uwsVars>>
    PROVE  StreamInv' /\ QueueInv'
  <1>1. UNCHANGED <<connected, pending_io_list, pending_sends, session, stream_buffer>>
    BY DEF sockVars, uwsVars
  <1>2. stack # <<>> /\ stack \in Seq(Frame)
    BY DEF TypeOK, UserSteps, Returned, OnOpenComplete, OnFrameReceived, OnSendComplete, OnError, OnPeerClosed,
           OnCloseComplete, CallbackReturns, ReturnStep, Running
  <1>3. Len(stream_buffer') >= Len(stream_buffer)
    <2>1. stream_buffer \in Seq(Unit)
      BY DEF TypeOK, UwsTypeOK
    <2> QED
      BY <1>1, <2>1
  <1>4. CASE UserSteps
    <2>1. Top.at = "user"
      BY <1>4 DEF UserSteps, Returned, OnOpenComplete, OnFrameReceived, OnSendComplete, OnError, OnPeerClosed,
                  OnCloseComplete, CallbackReturns, Running, Top
    <2>2. Pop \/ InCallback
      BY <1>4 DEF UserSteps, Returned, OnOpenComplete, OnFrameReceived, OnSendComplete, OnError, OnPeerClosed,
                  OnCloseComplete, CallbackReturns
    <2>3. MildMove
      <3> DEFINE m == MkFrame("user", "in_callback", "", 0, <<>>)
      <3>1. Mild(m)
        BY MildFrames
      <3>2. Pop \/ Goto(<<m>>)
        BY <2>2 DEF InCallback
      <3> HIDE DEF m
      <3> QED
        BY <3>1, <3>2 DEF MildMove, Fit
    <2>4. ~Is(Top, "socket", "dowork_sent") /\ ~Is(Top, "socket", "destroy")
      BY <2>1 DEF Is
    <2> QED
      BY <1>1, <1>2, <1>3, <2>3, <2>4, MildStack, QueueUnseen, StreamKept
  <1>5. CASE ReturnStep
    <2>1. Top.fn = "return" /\ Return(Top.ret)
      BY <1>5 DEF ReturnStep, Running, Top
    <2>2. Top.ret = 0
      BY <1>2, <2>1, RunsInPlace
    <2>3. MildMove
      BY <2>1, <2>2 DEF MildMove
    <2>4. ~Is(Top, "socket", "dowork_sent") /\ ~Is(Top, "socket", "destroy")
      BY <2>1 DEF Is
    <2> QED
      BY <1>1, <1>2, <1>3, <2>3, <2>4, MildStack, QueueUnseen, StreamKept
  <1> QED
    BY <1>4, <1>5

-----------------------------------------------------------------------------
(* Every step.                                                              *)

LEMMA InitStream == Init => StreamInv /\ QueueInv /\ NoFaults
  <1> SUFFICES ASSUME Init PROVE StreamInv /\ QueueInv /\ NoFaults
    OBVIOUS
  <1>1. stack = <<>> /\ connected = FALSE /\ pending_io_list = <<>> /\ faults = {} /\ tls_faults = {}
    BY DEF Init, SockInit, UwsInit, TlsInit
  <1>2. StreamInv
    BY <1>1 DEF StreamInv, OneReader, Within, Frames
  <1> QED
    BY <1>1, <1>2 DEF QueueInv, NoFaults

LEMMA NextStream ==
    ASSUME SocketClient, FreshQueue
    PROVE  TypeOK /\ TypeOK' /\ SessionInv /\ SendInv /\ StreamInv /\ QueueInv /\ NoFaults /\ [Next]_vars
             => StreamInv' /\ QueueInv' /\ NoFaults'
  <1> SUFFICES ASSUME TypeOK, TypeOK', Books, Place(stack), Linked(stack), DataOK, StreamInv, QueueInv, NoFaults,
                      [Next]_vars
               PROVE  StreamInv' /\ QueueInv' /\ NoFaults'
    BY DEF SessionInv, SendInv, NoFaults
  <1>1. CASE UserCalls /\ UNCHANGED <<sockVars, tlsVars, uwsVars>>
    BY <1>1, UserCallQueue DEF NoFaults, tlsVars, uwsVars
  <1>2. CASE SockNext /\ UNCHANGED <<tlsVars, uwsVars, userVars>>
    BY <1>2, SockQueue DEF NoFaults, tlsVars, uwsVars
  <1>3. CASE UwsNext /\ UNCHANGED <<sockVars, tlsVars, userVars>>
    BY <1>3, UwsQueue DEF NoFaults, tlsVars
  <1>4. CASE \/ UserSteps /\ UNCHANGED <<sockVars, tlsVars, uwsVars>>
             \/ ReturnStep /\ UNCHANGED <<sockVars, tlsVars, uwsVars, userVars>>
    BY <1>4, UserStepQueue DEF NoFaults, tlsVars, uwsVars
  <1>5. CASE UNCHANGED vars
    <2>1. UNCHANGED <<stack, connected, pending_io_list, pending_sends, session, stream_buffer, faults, tls_faults>>
      BY <1>5 DEF vars, sockVars, tlsVars, uwsVars
    <2>2. Top' = Top /\ Live' = Live
      BY <2>1 DEF Top, Live
    <2> QED
      BY <2>1, <2>2 DEF StreamInv, QueueInv, Matching, Listed, NoFaults
  <1> QED
    BY <1>1, <1>2, <1>3, <1>4, <1>5, NoTls DEF Next, Step

(***************************************************************************)
(* Over a socket that never queues a send, or that is opened only once, a  *)
(* client whose callbacks do not open the connection again meets no        *)
(* undefined behaviour, whatever else they do: stream_buffer_count never   *)
(* goes below zero (uws_client.c, consume_stream_buffer_bytes), and no     *)
(* send is completed through a list item that clear_pending_sends has      *)
(* freed (on_underlying_io_send_complete).  Where the socket does queue    *)
(* sends and is opened again this fails: socketio_close leaves the items   *)
(* in pending_io_list for the next connection (socketio_berkeley.c).       *)
(***************************************************************************)
THEOREM NothingUndefined ==
    ASSUME SocketClient, FreshQueue
    PROVE  Spec => []NoFaults
  <1> DEFINE Inv == TypeOK /\ SessionInv /\ SendInv /\ StreamInv /\ QueueInv /\ NoFaults
  <1>1. Init => Inv
    BY InitType, InitSession, InitSend, InitStream
  <1>2. Inv /\ [Next]_vars => Inv'
    BY NextType, NextSession, NextSend, NextStream
  <1>3. Inv => NoFaults
    OBVIOUS
  <1> QED
    BY <1>1, <1>2, <1>3, PTL DEF Spec

-----------------------------------------------------------------------------
\* the order of the numbers, as a relation the library's theorems speak of
LEMMA LessIsWellFounded ==
    \E R : IsWellFoundedOn(R, Nat) /\ \A x, y \in Nat : x < y => <<x, y>> \in R
  <1> DEFINE R == OpToRel(<, Nat)
  <1>1. IsWellFoundedOn(R, Nat)
    BY NatLessThanWellFounded
  <1>2. \A x, y \in Nat : x < y => <<x, y>> \in R
    BY DEF OpToRel
  <1> HIDE DEF R
  <1> QED
    BY <1>1, <1>2

\* what the library says of well-founded relations, for any one of them
LEMMA Minimal ==
    ASSUME NEW R, IsWellFoundedOn(R, Nat), NEW S, S \subseteq Nat, S # {}
    PROVE  \E m \in S : \A k \in S : ~ (<<k, m>> \in R)
  BY WFMin

\* the least number of a set
LEMMA Least ==
    ASSUME NEW S, S \subseteq Nat, S # {}
    PROVE  \E m \in S : \A k \in S : m <= k
  <1>1. PICK R : IsWellFoundedOn(R, Nat) /\ \A x, y \in Nat : x < y => <<x, y>> \in R
    BY LessIsWellFounded
  <1>2. PICK m \in S : \A k \in S : ~ (<<k, m>> \in R)
    BY <1>1, Minimal
  <1>3. \A k \in S : ~(k < m)
    BY <1>1, <1>2
  <1> QED
    BY <1>3

-----------------------------------------------------------------------------
(* What Assembled is.                                                       *)

Start == [out |-> <<>>, type |-> "UNKNOWN", parts |-> <<>>, stop |-> FALSE]
After(a, u) == IF IsFrame(u) THEN Assemble(a, u) ELSE a
Fold(f, units, n) == f = [i \in 0 .. n |-> IF i = 0 THEN Start ELSE After(f[i - 1], units[i])]

\* The scripts are folded a frame at a time: there is such a fold of every length.
LEMMA FoldExists ==
    ASSUME NEW units, NEW n \in Nat
    PROVE  \E f : Fold(f, units, n)
  <1> DEFINE Bad == {k \in Nat : ~\E f : Fold(f, units, k)}
  <1>1. ASSUME Bad # {} PROVE FALSE
    <2>1. Bad \subseteq Nat
      OBVIOUS
    <2>2. PICK m \in Bad : \A k \in Bad : m <= k
      BY <1>1, <2>1, Least
    <2>3. m \in Nat /\ ~\E f : Fold(f, units, m)
      OBVIOUS
    <2>4. CASE m = 0
      <3> DEFINE f == [i \in 0 .. 0 |-> Start]
      <3>1. \A i \in 0 .. 0 : i = 0
        OBVIOUS
      <3>2. f = [i \in 0 .. 0 |-> IF i = 0 THEN Start ELSE After(f[i - 1], units[i])]
        BY <3>1
      <3> QED
        BY <2>3, <2>4, <3>2 DEF Fold
    <2>5. CASE m # 0
      <3>1. m - 1 \in Nat /\ ~(m <= m - 1)
        BY <2>3, <2>5
      <3>2. \E f : Fold(f, units, m - 1)
        BY <2>2, <3>1
      <3> HIDE DEF Bad
      <3>3. PICK f : Fold(f, units, m - 1)
        BY <3>2
      <3> DEFINE g == [i \in 0 .. m |-> IF i = m THEN After(f[m - 1], units[m]) ELSE f[i]]
      <3>4. ASSUME NEW i \in 0 .. m
            PROVE  g[i] = IF i = 0 THEN Start ELSE After(g[i - 1], units[i])
        <4>1. CASE i = m
          <5>1. g[i] = After(f[m - 1], units[m]) /\ g[i - 1] = f[m - 1] /\ i # 0
            BY <2>3, <2>5, <4>1
          <5> QED
            BY <4>1, <5>1
        <4>2. CASE i # m
          <5>1. i \in 0 .. m - 1 /\ g[i] = f[i] /\ (i # 0 => g[i - 1] = f[i - 1])
            BY <2>3, <4>2
          <5>2. f[i] = IF i = 0 THEN Start ELSE After(f[i - 1], units[i])
            BY <3>3, <5>1 DEF Fold
          <5> QED
            BY <5>1, <5>2
        <4> QED
          BY <4>1, <4>2
      <3>5. Fold(g, units, m)
        BY <3>4 DEF Fold
      <3> QED
        BY <2>3, <3>5
    <2> QED
      BY <2>4, <2>5
  <1> QED
    BY <1>1

\* Assembled, a recursive function, is the fold.
LEMMA AssembledIs ==
    ASSUME NEW units, Len(units) \in Nat
    PROVE  Fold(Assembled(units), units, Len(units))
  <1>1. Assembled(units) = CHOOSE f : Fold(f, units, Len(units))
    BY DEF Assembled, Fold, Start, After
  <1> QED
    BY <1>1, FoldExists

\* induction, for a set
LEMMA Upwards ==
    ASSUME NEW n \in Nat, NEW S, 0 \in S, \A i \in 1 .. n : i - 1 \in S => i \in S
    PROVE  0 .. n \subseteq S
  <1> DEFINE Bad == (0 .. n) \ S
  <1>1. ASSUME Bad # {} PROVE FALSE
    <2>1. Bad \subseteq Nat
      OBVIOUS
    <2>2. PICK m \in Bad : \A k \in Bad : m <= k
      BY <1>1, <2>1, Least
    <2>3. m \in 1 .. n /\ m - 1 \in 0 .. n /\ ~(m <= m - 1)
      <3>1. m \in 0 .. n /\ m # 0
        OBVIOUS
      <3> QED
        BY <3>1
    <2>4. m - 1 \in S
      BY <2>2, <2>3
    <2> QED
      BY <2>3, <2>4
  <1> QED
    BY <1>1

\* the messages so far, and what there is of the next one
FoldState == [out: Seq(Message), type: FrameTypes, parts: Seq(Unit), stop: BOOLEAN]

\* what one frame does to what was assembled
LEMMA AfterType ==
    ASSUME NEW a \in FoldState, NEW u \in Unit
    PROVE  After(a, u) \in FoldState
  <1>1. CASE ~IsFrame(u)
    BY <1>1 DEF After
  <1>2. CASE IsFrame(u)
    <2>1. /\ a.out \in Seq(Message) /\ a.type \in FrameTypes /\ a.parts \in Seq(Unit) /\ a.stop \in BOOLEAN
          /\ a = [out |-> a.out, type |-> a.type, parts |-> a.parts, stop |-> a.stop]
      BY DEF FoldState
    <2>2. DataType(u.op) \in FrameTypes /\ "UNKNOWN" \in FrameTypes
      BY DEF DataType, FrameTypes
    <2>4. Append(a.parts, u) \in Seq(Unit) /\ <<u>> \in Seq(Unit)
      BY <2>1
    <2>3. /\ Append(a.out, [type |-> DataType(u.op), parts |-> <<u>>]) \in Seq(Message)
          /\ Append(a.out, [type |-> a.type, parts |-> Append(a.parts, u)]) \in Seq(Message)
      <3>1. \A m \in Message : Append(a.out, m) \in Seq(Message)
        BY <2>1
      <3>2. [type |-> DataType(u.op), parts |-> <<u>>] \in Message /\ [type |-> a.type, parts |-> Append(a.parts, u)] \in Message
        BY <2>1, <2>2, <2>4 DEF Message
      <3> QED
        BY <3>1, <3>2
    <2>5. u.op \in Opcodes
      BY <1>2 DEF IsFrame
    <2>6. [a EXCEPT !.stop = TRUE] \in FoldState
      BY <2>1 DEF FoldState
    <2>7. [a EXCEPT !.out = Append(@, [type |-> DataType(u.op), parts |-> <<u>>])] \in FoldState
      BY <2>1, <2>2, <2>3, <2>4 DEF FoldState
    <2>8. [a EXCEPT !.type = DataType(u.op), !.parts = <<u>>] \in FoldState
      BY <2>1, <2>2, <2>4 DEF FoldState
    <2>9. [a EXCEPT !.parts = Append(@, u)] \in FoldState
      BY <2>1, <2>4 DEF FoldState
    <2>10. [a EXCEPT !.out = Append(@, [type |-> a.type, parts |-> Append(a.parts, u)]),
                     !.type = "UNKNOWN", !.parts = <<>>] \in FoldState
      <3> DEFINE o == Append(a.out, [type |-> a.type, parts |-> Append(a.parts, u)])
      <3>1. o \in Seq(Message) /\ <<>> \in Seq(Unit)
        BY <2>3
      <3> HIDE DEF o
      <3> DEFINE e == <<>>
                 k == "UNKNOWN"
      <3>2. e \in Seq(Unit) /\ k \in FrameTypes
        BY <2>2
      <3> HIDE DEF e, k
      <3>4. [a EXCEPT !.out = o, !.type = k, !.parts = e] \in FoldState
        BY <2>1, <3>1, <3>2 DEF FoldState
      <3> QED
        BY <3>4 DEF o, e, k
    <2>11. Assemble(a, u) \in FoldState
      <3>1. \/ Assemble(a, u) = [a EXCEPT !.stop = TRUE] \/ Assemble(a, u) = a
            \/ Assemble(a, u) = [a EXCEPT !.out = Append(@, [type |-> DataType(u.op), parts |-> <<u>>])]
            \/ Assemble(a, u) = [a EXCEPT !.type = DataType(u.op), !.parts = <<u>>]
            \/ Assemble(a, u) = [a EXCEPT !.parts = Append(@, u)]
            \/ Assemble(a, u) = [a EXCEPT !.out = Append(@, [type |-> a.type, parts |-> Append(a.parts, u)]),
                                          !.type = "UNKNOWN", !.parts = <<>>]
        BY <2>5 DEF Assemble, Opcodes
      <3> QED
        BY <2>6, <2>7, <2>8, <2>9, <2>10, <3>1
    <2> QED
      BY <1>2, <2>11 DEF After
  <1> QED
    BY <1>1, <1>2

\* Assembled(units) is what its definition says: each entry follows from the one before.
LEMMA AssembledSteps ==
    ASSUME NEW units \in Seq(Unit)
    PROVE  LET F == Assembled(units)
           IN  /\ Len(units) \in Nat
               /\ F[0] = Start
               /\ \A i \in 1 .. Len(units) : units[i] \in Unit /\ F[i] = After(F[i - 1], units[i])
               /\ \A i \in 0 .. Len(units) : F[i] \in FoldState
  <1> DEFINE F == Assembled(units)
             n == Len(units)
  <1>1. n \in Nat /\ \A i \in 1 .. n : units[i] \in Unit
    OBVIOUS
  <1>2. Fold(F, units, n)
    BY <1>1, AssembledIs
  <1> HIDE DEF F, n
  <1>3. F[0] = Start
    <2>1. 0 \in 0 .. n
      BY <1>1
    <2> QED
      BY <1>2, <2>1 DEF Fold
  <1>4. ASSUME NEW i \in 1 .. n PROVE F[i] = After(F[i - 1], units[i])
    <2>1. i \in 0 .. n /\ i # 0
      BY <1>1
    <2> QED
      BY <1>2, <2>1 DEF Fold
  <1> DEFINE S == {i \in 0 .. n : F[i] \in FoldState}
  <1>5. 0 \in S
    <2>1. Start \in FoldState
      BY DEF Start, FoldState, FrameTypes
    <2> QED
      BY <1>1, <1>3, <2>1
  <1>6. ASSUME NEW i \in 1 .. n, i - 1 \in S PROVE i \in S
    <2>1. After(F[i - 1], units[i]) \in FoldState
      BY <1>1, <1>6, AfterType
    <2> QED
      BY <1>1, <1>4, <2>1
  <1> HIDE DEF S
  <1>7. 0 .. n \subseteq S
    BY <1>1, <1>5, <1>6, Upwards
  <1> QED
    BY <1>1, <1>3, <1>4, <1>7 DEF F, n, S

-----------------------------------------------------------------------------
(* Messages are only ever added.                                            *)

\* a prefix of what has been added to
LEMMA PrefixAppend ==
    ASSUME NEW S, NEW s \in Seq(S), NEW t \in Seq(S), NEW x \in S, IsPrefixOf(s, t)
    PROVE  IsPrefixOf(s, Append(t, x))
  <1>1. /\ Len(s) \in Nat /\ Len(t) \in Nat /\ DOMAIN s = 1 .. Len(s) /\ Len(Append(t, x)) = Len(t) + 1
        /\ \A i \in 1 .. Len(t) : Append(t, x)[i] = t[i]
    OBVIOUS
  <1>2. Len(s) <= Len(t) /\ \A i \in 1 .. Len(s) : s[i] = t[i]
    BY <1>1 DEF IsPrefixOf
  <1> QED
    BY <1>1, <1>2 DEF IsPrefixOf

\* One frame completes one message at most.
LEMMA AfterOut ==
    ASSUME NEW a \in FoldState, NEW u \in Unit
    PROVE  After(a, u).out = a.out \/ \E m \in Message : After(a, u).out = Append(a.out, m)
  <1>1. CASE ~IsFrame(u)
    BY <1>1 DEF After
  <1>2. CASE IsFrame(u)
    <2>1. a.out \in Seq(Message) /\ a.type \in FrameTypes /\ a.parts \in Seq(Unit)
          /\ a = [out |-> a.out, type |-> a.type, parts |-> a.parts, stop |-> a.stop]
      BY DEF FoldState
    <2>2. [type |-> DataType(u.op), parts |-> <<u>>] \in Message /\ [type |-> a.type, parts |-> Append(a.parts, u)] \in Message
      BY <2>1 DEF DataType, FrameTypes, Message
    <2>3. u.op \in Opcodes
      BY <1>2 DEF IsFrame
    <2>4. \/ Assemble(a, u).out = a.out
          \/ Assemble(a, u).out = Append(a.out, [type |-> DataType(u.op), parts |-> <<u>>])
          \/ Assemble(a, u).out = Append(a.out, [type |-> a.type, parts |-> Append(a.parts, u)])
      BY <2>1, <2>3 DEF Assemble, Opcodes
    <2> QED
      BY <1>2, <2>2, <2>4 DEF After
  <1> QED
    BY <1>1, <1>2

\* What the peer had sent by some point is a prefix of all it sends.
LEMMA MessagesFrom ==
    ASSUME NEW units \in Seq(Unit), NEW p \in 0 .. Len(units)
    PROVE  IsPrefixOf(Assembled(units)[p].out, Messages(units))
  <1> DEFINE F == Assembled(units)
             n == Len(units)
             S == {i \in 0 .. n : p <= i => IsPrefixOf(F[p].out, F[i].out)}
  <1>1. /\ n \in Nat /\ p \in 0 .. n
        /\ \A i \in 1 .. n : units[i] \in Unit /\ F[i] = After(F[i - 1], units[i])
        /\ \A i \in 0 .. n : F[i] \in FoldState
    BY AssembledSteps
  <1>2. Messages(units) = F[n].out
    BY DEF Messages
  <1> HIDE DEF F, n
  <1>3. \A i \in 0 .. n : F[i].out \in Seq(Message)
    BY <1>1 DEF FoldState
  <1>4. IsPrefixOf(F[p].out, F[p].out)
    <2>1. Len(F[p].out) \in Nat
      BY <1>1, <1>3
    <2> QED
      BY <2>1 DEF IsPrefixOf
  <1>5. 0 \in S
    <2>1. 0 \in 0 .. n /\ (p <= 0 => p = 0)
      BY <1>1
    <2> QED
      BY <1>4, <2>1
  <1>6. ASSUME NEW i \in 1 .. n, i - 1 \in S PROVE i \in S
    <2>1. i \in 0 .. n /\ i - 1 \in 0 .. n /\ (p <= i => p = i \/ p <= i - 1)
      BY <1>1
    <2>2. CASE p <= i - 1
      <3>1. IsPrefixOf(F[p].out, F[i - 1].out)
        BY <1>6, <2>2
      <3>2. F[i].out = F[i - 1].out \/ \E m \in Message : F[i].out = Append(F[i - 1].out, m)
        BY <1>1, <2>1, AfterOut
      <3>3. IsPrefixOf(F[p].out, F[i].out)
        BY <1>1, <1>3, <2>1, <3>1, <3>2, PrefixAppend
      <3> QED
        BY <2>1, <3>3
    <2>3. CASE ~(p <= i - 1)
      BY <1>4, <2>1, <2>3
    <2> QED
      BY <2>2, <2>3
  <1> HIDE DEF S
  <1>7. 0 .. n \subseteq S
    BY <1>1, <1>5, <1>6, Upwards
  <1>8. n \in S /\ p <= n
    BY <1>1, <1>7
  <1> QED
    BY <1>2, <1>8 DEF S, F

-----------------------------------------------------------------------------
(* A script is cut into frames.                                             *)

\* The first unit of each frame follows the last one of the frame before.
Framed(s) ==
    /\ s # <<>> => s[1].k = 1
    /\ \A i \in DOMAIN s : s[i].k = 1 =>
         /\ s[i].size > 0
         /\ \A j \in DOMAIN s : i < j /\ j < i + s[i].size => s[j].k # 1
         /\ i + s[i].size \in DOMAIN s => s[i + s[i].size].k = 1

\* what a whole frame makes of the messages
LEMMA FrameStep ==
    ASSUME NEW units \in Seq(Unit), Framed(units), NEW p \in Nat,
           p + 1 \in DOMAIN units, units[p + 1].k = 1, p + units[p + 1].size <= Len(units)
    PROVE  LET F == Assembled(units)
               q == p + units[p + 1].size
           IN  /\ p \in 0 .. Len(units) /\ q \in 0 .. Len(units) /\ p < q
               /\ F[q] = After(F[p], units[p + 1])
               /\ q + 1 \in DOMAIN units => units[q + 1].k = 1
  <1> DEFINE F == Assembled(units)
             n == Len(units)
             size == units[p + 1].size
             S == {i \in 0 .. size - 1 : F[p + 1 + i] = F[p + 1]}
  <1>1. /\ n \in Nat /\ DOMAIN units = 1 .. n /\ p + 1 \in 1 .. n
        /\ \A i \in 1 .. n : units[i] \in Unit /\ F[i] = After(F[i - 1], units[i])
    BY AssembledSteps
  <1>2. size \in Nat /\ size > 0 /\ p + size <= n
    <2>1. size \in Nat
      BY <1>1, UnitAssumption DEF UnitType
    <2> QED
      BY <2>1 DEF Framed
  <1>3. \A j \in 1 .. n : p + 1 < j /\ j < p + 1 + size => units[j].k # 1
    BY <1>1 DEF Framed
  <1>4. p + 1 + size \in 1 .. n => units[p + 1 + size].k = 1
    BY <1>1 DEF Framed
  <1> HIDE DEF F, n, size
  <1>5. 0 \in S
    <2>1. 0 \in 0 .. size - 1 /\ p + 1 + 0 = p + 1
      BY <1>2
    <2> QED
      BY <2>1
  <1>6. ASSUME NEW i \in 1 .. size - 1, i - 1 \in S PROVE i \in S
    <2>1. /\ p + 1 + i \in 1 .. n /\ p + 1 < p + 1 + i /\ p + 1 + i < p + 1 + size
          /\ (p + 1 + i) - 1 = p + 1 + (i - 1) /\ i \in 0 .. size - 1
      BY <1>1, <1>2
    <2>2. F[p + 1 + i] = F[p + 1 + (i - 1)]
      <3>1. ~IsFrame(units[p + 1 + i])
        BY <1>3, <2>1 DEF IsFrame
      <3> QED
        BY <1>1, <2>1, <3>1 DEF After
    <2> QED
      BY <1>6, <2>1, <2>2
  <1> HIDE DEF S
  <1>7. 0 .. (size - 1) \subseteq S
    <2>1. size - 1 \in Nat
      BY <1>2
    <2> QED
      BY <1>5, <1>6, <2>1, Upwards
  <1>8. F[p + size] = F[p + 1]
    <2>1. size - 1 \in 0 .. (size - 1) /\ p + 1 + (size - 1) = p + size
      BY <1>2
    <2>2. size - 1 \in S
      BY <1>7, <2>1
    <2> QED
      BY <2>1, <2>2 DEF S
  <1>9. F[p + 1] = After(F[p], units[p + 1])
    <2>1. (p + 1) - 1 = p
      OBVIOUS
    <2> QED
      BY <1>1, <2>1
  <1>10. p \in 0 .. n /\ p + size \in 0 .. n /\ p < p + size /\ p + size + 1 = p + 1 + size
    BY <1>1, <1>2
  <1> QED
    BY <1>1, <1>4, <1>8, <1>9, <1>10 DEF F, n, size

-----------------------------------------------------------------------------
(* The stack, as far as it matters to the stream.                           *)

\* what a reader was given
View(f) == [fn |-> f.fn, arg |-> f.arg, n |-> f.n, data |-> f.data]

\* the decoding functions on the stack: there is at most one
Readers(s) == {View(f) : f \in {g \in Frames(s) : Rank(g) = 2}}

\* functions that run at once where they are called, and never wait for another
Hot == {"on_bytes_received", "decode_frame", "frame", "indicate_ws_error", "indicate_ws_error_and_close",
        "on_ws_frame_received", "uws_client_close_handshake_async"}
NoneHot(s) == \A f \in Frames(s) : f.fn \notin Hot

HasDone(s) == \E f \in Frames(s) : f.fn = "message_done"
Consuming(s) == \E r \in Readers(s) : r.fn = "consume_stream_buffer_bytes"

\* A message is done with before its last frame is consumed.
DoneFirst(s) ==
    \A i \in DOMAIN s : s[i].fn = "message_done" =>
        \E j \in DOMAIN s : i < j /\ Rank(s[j]) = 2 /\ s[j].fn = "consume_stream_buffer_bytes"

Tame(f) == Rank(f) # 2 /\ f.fn \notin Hot \cup {"message_done"}
Cool(f) == Tame(f) \/ Is(f, "uws", "indicate_ws_error")

\* steps that say nothing of the stream
StillMove ==
    \/ Pop \/ Goto(<<>>)
    \/ \E v : Return(v)
    \/ \E a : Goto(<<a>>) /\ Cool(a)
    \/ \E a, b : Goto(<<a, b>>) /\ Cool(a) /\ Tame(b)
    \/ \E a, b, c : Goto(<<a, b, c>>) /\ Cool(a) /\ Tame(b) /\ Tame(c)

\* what View keeps
LEMMA ViewParts ==
    ASSUME NEW f
    PROVE  View(f).fn = f.fn /\ View(f).arg = f.arg /\ View(f).n = f.n /\ View(f).data = f.data
  BY DEF View

\* the first frame, and the others
LEMMA FramesOnTop ==
    ASSUME NEW S, NEW u \in Seq(S), u # <<>>
    PROVE  Frames(u) = {Head(u)} \cup Frames(Tail(u))
  <1> DEFINE a == Head(u)
             t == Tail(u)
             n == Len(u) - 1
  <1>1. /\ n \in Nat /\ DOMAIN u = 1 .. n + 1 /\ u[1] = a /\ DOMAIN t = 1 .. n
        /\ \A i \in 1 .. n : t[i] = u[i + 1]
    BY TailParts
  <1>2. /\ \A i \in 1 .. n + 1 : i = 1 \/ (i - 1 \in 1 .. n /\ (i - 1) + 1 = i)
        /\ \A i \in 1 .. n : i + 1 \in 1 .. n + 1
        /\ 1 \in 1 .. n + 1
    BY <1>1
  <1> HIDE DEF a, t, n
  <1>3. ASSUME NEW f \in Frames(u) PROVE f = a \/ f \in Frames(t)
    <2>1. PICK i \in 1 .. n + 1 : f = u[i]
      BY <1>1, <1>3 DEF Frames
    <2>2. i = 1 \/ (i - 1 \in DOMAIN t /\ f = t[i - 1])
      BY <1>1, <1>2, <2>1
    <2> QED
      BY <1>1, <2>1, <2>2 DEF Frames
  <1>4. ASSUME NEW f \in Frames(t) PROVE f \in Frames(u)
    <2>1. PICK i \in 1 .. n : f = t[i]
      BY <1>1, <1>4 DEF Frames
    <2>2. i + 1 \in DOMAIN u /\ f = u[i + 1]
      BY <1>1, <1>2, <2>1
    <2> QED
      BY <2>2 DEF Frames
  <1>5. a \in Frames(u)
    BY <1>1, <1>2 DEF Frames
  <1> QED
    BY <1>3, <1>4, <1>5 DEF a, t

\* what the first frame adds
LEMMA FrontFrame ==
    ASSUME NEW S, NEW u \in Seq(S), u # <<>>
    PROVE  LET a == Head(u)
               t == Tail(u)
           IN  /\ Rank(a) = 2 => Readers(u) = Readers(t) \cup {View(a)}
               /\ Rank(a) # 2 => Readers(u) = Readers(t)
               /\ NoneHot(u) <=> a.fn \notin Hot /\ NoneHot(t)
               /\ HasDone(u) <=> a.fn = "message_done" \/ HasDone(t)
               /\ DoneFirst(u) <=> DoneFirst(t) /\ (a.fn = "message_done" => Consuming(t))
  <1> DEFINE a == Head(u)
             t == Tail(u)
             n == Len(u) - 1
  <1>1. Frames(u) = {a} \cup Frames(t)
    BY FramesOnTop
  <1>2. /\ n \in Nat /\ DOMAIN u = 1 .. n + 1 /\ u[1] = a /\ DOMAIN t = 1 .. n
        /\ \A i \in 1 .. n : t[i] = u[i + 1]
    BY TailParts
  <1>3. /\ \A i \in 1 .. n + 1 : i = 1 \/ (i - 1 \in 1 .. n /\ u[i] = t[i - 1])
        /\ \A i \in 1 .. n : i + 1 \in 1 .. n + 1 /\ i + 1 > 1
    <2>1. \A i \in 1 .. n + 1 : i = 1 \/ (i - 1 \in 1 .. n /\ (i - 1) + 1 = i)
      BY <1>2
    <2> QED
      BY <1>2, <2>1
  <1> HIDE DEF a, t, n
  <1>4. Rank(a) = 2 => Readers(u) = Readers(t) \cup {View(a)}
    BY <1>1 DEF Readers
  <1>5. Rank(a) # 2 => Readers(u) = Readers(t)
    BY <1>1 DEF Readers
  <1>6. NoneHot(u) <=> a.fn \notin Hot /\ NoneHot(t)
    BY <1>1 DEF NoneHot
  <1>7. HasDone(u) <=> a.fn = "message_done" \/ HasDone(t)
    BY <1>1 DEF HasDone
  <1>8. ASSUME DoneFirst(u) PROVE DoneFirst(t)
    <2>1. ASSUME NEW i \in 1 .. n, t[i].fn = "message_done"
          PROVE  \E j \in 1 .. n : i < j /\ Rank(t[j]) = 2 /\ t[j].fn = "consume_stream_buffer_bytes"
      <3>1. PICK j \in 1 .. n + 1 : i + 1 < j /\ Rank(u[j]) = 2 /\ u[j].fn = "consume_stream_buffer_bytes"
        BY <1>2, <1>3, <1>8, <2>1 DEF DoneFirst
      <3>2. j - 1 \in 1 .. n /\ u[j] = t[j - 1] /\ i < j - 1
        BY <1>2, <1>3, <3>1
      <3> QED
        BY <3>1, <3>2
    <2> QED
      BY <1>2, <2>1 DEF DoneFirst
  <1>9. ASSUME DoneFirst(u), a.fn = "message_done" PROVE Consuming(t)
    <2>1. 1 \in 1 .. n + 1
      BY <1>2
    <2>2. PICK j \in 1 .. n + 1 : 1 < j /\ Rank(u[j]) = 2 /\ u[j].fn = "consume_stream_buffer_bytes"
      BY <1>2, <1>9, <2>1 DEF DoneFirst
    <2>3. j - 1 \in 1 .. n /\ u[j] = t[j - 1]
      BY <1>2, <1>3, <2>2
    <2>4. t[j - 1] \in Frames(t)
      BY <1>2, <2>3 DEF Frames
    <2>5. View(t[j - 1]) \in Readers(t)
      BY <2>2, <2>3, <2>4 DEF Readers
    <2> QED
      BY <2>2, <2>3, <2>5, ViewParts DEF Consuming
  <1>10. ASSUME DoneFirst(t), a.fn = "message_done" => Consuming(t) PROVE DoneFirst(u)
    <2>1. ASSUME NEW i \in 1 .. n + 1, u[i].fn = "message_done"
          PROVE  \E j \in 1 .. n + 1 : i < j /\ Rank(u[j]) = 2 /\ u[j].fn = "consume_stream_buffer_bytes"
      <3>1. CASE i = 1
        <4>1. Consuming(t)
          BY <1>2, <1>10, <2>1, <3>1
        <4>2. PICK f \in Frames(t) : Rank(f) = 2 /\ f.fn = "consume_stream_buffer_bytes"
          BY <4>1, ViewParts DEF Consuming, Readers
        <4>3. PICK j \in 1 .. n : f = t[j]
          BY <1>2 DEF Frames
        <4>4. j + 1 \in 1 .. n + 1 /\ u[j + 1] = f /\ i < j + 1
          BY <1>2, <1>3, <3>1, <4>3
        <4> QED
          BY <4>2, <4>4
      <3>2. CASE i # 1
        <4>1. i - 1 \in 1 .. n /\ u[i] = t[i - 1]
          BY <1>3, <3>2
        <4>2. PICK j \in 1 .. n : i - 1 < j /\ Rank(t[j]) = 2 /\ t[j].fn = "consume_stream_buffer_bytes"
          BY <1>2, <1>10, <2>1, <4>1 DEF DoneFirst
        <4>3. j + 1 \in 1 .. n + 1 /\ u[j + 1] = t[j] /\ i < j + 1
          BY <1>2, <1>3, <4>1, <4>2
        <4> QED
          BY <4>2, <4>3
      <3> QED
        BY <3>1, <3>2
    <2> QED
      BY <1>2, <2>1 DEF DoneFirst
  <1> QED
    BY <1>4, <1>5, <1>6, <1>7, <1>8, <1>9, <1>10 DEF a, t

\* nobody reads an empty stack
LEMMA EmptyStack ==
    /\ Readers(<<>>) = {} /\ NoneHot(<<>>) /\ ~HasDone(<<>>) /\ DoneFirst(<<>>)
  BY DEF Readers, NoneHot, HasDone, DoneFirst, Frames

\* what is done with a result is no different
LEMMA GivenFront ==
    ASSUME NEW u \in Seq(Frame), u # <<>>, NEW w \in Seq(Frame), w # <<>>, NEW v,
           Head(u) = Given(Head(w), v), Tail(u) = Tail(w)
    PROVE  /\ Readers(u) = Readers(w)
           /\ NoneHot(u) <=> NoneHot(w)
           /\ HasDone(u) <=> HasDone(w)
           /\ DoneFirst(u) <=> DoneFirst(w)
           /\ Head(u).fn = Head(w).fn
  <1> DEFINE f == Head(w)
             g == Head(u)
  <1>1. g.at = f.at /\ g.fn = f.fn /\ g.n = f.n /\ g.arg = f.arg /\ g.data = f.data
    <2>1. f \in Frame
      OBVIOUS
    <2> QED
      BY <2>1, GivenParts
  <1> HIDE DEF f, g
  <1>2. (Rank(g) = 2 <=> Rank(f) = 2) /\ View(g) = View(f)
    BY <1>1, Ranks DEF View
  <1>3. /\ (Rank(g) = 2 => Readers(u) = Readers(Tail(u)) \cup {View(g)})
        /\ (Rank(g) # 2 => Readers(u) = Readers(Tail(u)))
        /\ NoneHot(u) <=> g.fn \notin Hot /\ NoneHot(Tail(u))
        /\ HasDone(u) <=> g.fn = "message_done" \/ HasDone(Tail(u))
        /\ DoneFirst(u) <=> DoneFirst(Tail(u)) /\ (g.fn = "message_done" => Consuming(Tail(u)))
    BY FrontFrame DEF g
  <1>4. /\ (Rank(f) = 2 => Readers(w) = Readers(Tail(w)) \cup {View(f)})
        /\ (Rank(f) # 2 => Readers(w) = Readers(Tail(w)))
        /\ NoneHot(w) <=> f.fn \notin Hot /\ NoneHot(Tail(w))
        /\ HasDone(w) <=> f.fn = "message_done" \/ HasDone(Tail(w))
        /\ DoneFirst(w) <=> DoneFirst(Tail(w)) /\ (f.fn = "message_done" => Consuming(Tail(w)))
    BY FrontFrame DEF f
  <1>5. Tail(u) = Tail(w)
    OBVIOUS
  <1>6. Readers(u) = Readers(w)
    BY <1>2, <1>3, <1>4, <1>5
  <1>7. (NoneHot(u) <=> NoneHot(w)) /\ (HasDone(u) <=> HasDone(w)) /\ (DoneFirst(u) <=> DoneFirst(w))
    BY <1>1, <1>3, <1>4, <1>5
  <1> QED
    BY <1>1, <1>6, <1>7 DEF f, g

-----------------------------------------------------------------------------
(* What is assumed of the user and of the peer.                             *)

\* The user asks for the closing handshake only while it takes the connection for open.
Polite == "handshake_any_time" \notin Calls \cup ReentrantCalls

Unmasked == \A u \in Unit : u.flaw # "masked"

\* Every frame that can be taken from the stream starts another round of decoding.
NoControl == \A u \in Unit : u.op \notin {"ping", "pong", "reserved"}

\* offences of the peer that the client does not notice
Noticed(s) ==
    \A i \in DOMAIN s : IsFrame(s[i]) /\ ~Assembled(s)[i - 1].stop =>
        LET a == Assembled(s)[i - 1]
            h == s[i]
        IN  /\ h.flaw = "utf8" => h.op = "close"
            /\ h.op \in {"pong", "reserved"} => h.fin
            /\ h.op = "continuation" /\ a.type = "UNKNOWN" => h.fin
            /\ h.op \in {"text", "binary"} /\ a.type # "UNKNOWN" => ~h.fin

FramedScripts == \A s \in Scripts : Framed(s)
Exact == Polite /\ \A s \in Scripts : Noticed(s)

-----------------------------------------------------------------------------
(* The stream.                                                              *)

\* states in which what is received is decoded, and nothing has gone wrong so far
Sound == {"WAITING_FOR_UPGRADE_RESPONSE", "OPEN"}
         \cup (IF Polite THEN {"CLOSING_WAITING_FOR_CLOSE"} ELSE {})

\* the state is about to be left for an error
Failing ==
    /\ stack # <<>>
    /\ \/ Top.fn \in {"indicate_ws_error", "open_complete_error"}
       \/ Top.fn = "close" /\ uws_state \in Opening

Reading == uws_state \in Sound /\ ~Failing

\* read from the socket, and not yet in the buffer
Arriving == IF stack # <<>> /\ Top.fn = "on_bytes_received" THEN Top.data ELSE <<>>

Consumed == received - (Len(stream_buffer) + Len(Arriving))

\* the upgrade request is on its way
Upgrading ==
    /\ stack # <<>>
    /\ \/ Top.fn \in {"send", "return", "upgrade_request_sent"}
       \/ Top.fn = "on_io_open_complete" /\ Top.arg = "OK"

\* A reader has in hand the frame that the buffer begins with.
Suits(r) ==
    r.fn \in {"decode_frame", "frame", "consume_stream_buffer_bytes"} =>
        LET h == Head(stream_buffer)
        IN  /\ stream_buffer # <<>>
            /\ r.fn \in {"decode_frame", "frame"} => r.data = <<h>>
            /\ r.fn \in {"frame", "consume_stream_buffer_bytes"} => r.n = needed_bytes(h)
            /\ r.fn = "frame" => r.arg = opcode(h) /\ h.flaw # "length"
            /\ r.fn = "consume_stream_buffer_bytes" =>
                  /\ h.op \notin Responses
                  /\ NoControl /\ uws_state = "OPEN" => r.arg = "again"

\* What has been received of the script is the buffer, and before it what was consumed.
Aligned ==
    /\ received <= Len(script) /\ Len(stream_buffer) + Len(Arriving) <= received
    /\ \A i \in 1 .. Len(stream_buffer) : stream_buffer[i] = script[Consumed + i]
    /\ \A i \in 1 .. Len(Arriving) : Arriving[i] = script[Consumed + Len(stream_buffer) + i]

\* A frame begins here.
Boundary(p) == p + 1 \in DOMAIN script => script[p + 1].k = 1

NoneWhole == stream_buffer # <<>> => Len(stream_buffer) < needed_bytes(Head(stream_buffer))

AlignInv ==
    /\ Framed(script)
    /\ uws_state = "OPENING_UNDERLYING_IO" =>
          stream_buffer = <<>> /\ Readers(stack) = {} /\ (Upgrading => received = 0)
    /\ Reading =>
          /\ Aligned /\ Boundary(Consumed)
          /\ \A r \in Readers(stack) : Suits(r)
          /\ NoControl /\ uws_state = "OPEN" /\ Readers(stack) = {} => NoneWhole

HotInv ==
    /\ stack # <<>> => NoneHot(Beneath) /\ Top.fn # "indicate_ws_error_and_close"
    /\ DoneFirst(stack)

\* An error is reported at once, and closing is not asked for afterwards.
PoliteInv ==
    /\ uws_state = "ERROR" => session \in ended \/ (stack # <<>> /\ Is(Top, "user", "on_ws_error"))
    /\ stack # <<>> /\ Polite /\ Is(Top, "uws", "uws_client_close_handshake_async") =>
          uws_state \notin Opening \cup {"ERROR"}

-----------------------------------------------------------------------------
(* The messages.                                                            *)

\* what is about to be consumed
Due == IF Consuming(stack) THEN needed_bytes(Head(stream_buffer)) ELSE 0

\* the messages delivered, and the one that is
Passed ==
    IF stack # <<>> /\ Is(Top, "user", "on_ws_frame_received")
    THEN Append(delivered[session], [type |-> Top.arg, parts |-> Top.data])
    ELSE delivered[session]

\* The client is as far as a is.
Reached(a) ==
    /\ a.stop = FALSE
    /\ IF HasDone(stack) THEN a.type = "UNKNOWN" /\ a.parts = <<>>
       ELSE a.type = fragmented_frame_type /\ a.parts = fragment_buffer
    /\ a.out = Passed

FoldInv ==
    /\ Noticed(script)
    /\ \A s \in Sessions : s > session => delivered[s] = <<>>
    /\ uws_state = "OPENING_UNDERLYING_IO" =>
          fragment_buffer = <<>> /\ fragmented_frame_type = "UNKNOWN" /\ delivered[session] = <<>>
    /\ stack # <<>> /\ Top.fn \in {"decode_frame", "frame", "on_ws_frame_received"} => uws_state \in Decoding
    /\ Reading => Consumed + Due \in 0 .. Len(script) /\ Reached(Assembled(script)[Consumed + Due])
    /\ MessagesAsSent

-----------------------------------------------------------------------------
(* Steps that leave the readers as they are.                                *)

\* A frame that has nothing to do with the stream changes nothing of what is said of the readers.
LEMMA CoolOnTop ==
    ASSUME NEW u \in Seq(Frame), u # <<>>, Cool(Head(u))
    PROVE  /\ Readers(u) = Readers(Tail(u))
           /\ HasDone(u) <=> HasDone(Tail(u))
           /\ DoneFirst(u) <=> DoneFirst(Tail(u))
           /\ Tame(Head(u)) => (NoneHot(u) <=> NoneHot(Tail(u)))
           /\ Head(u).fn \notin Hot \/ Is(Head(u), "uws", "indicate_ws_error")
  <1>1. Rank(Head(u)) # 2 /\ Head(u).fn # "message_done"
    BY Ranks DEF Cool, Tame, Is, Decoders
  <1> QED
    BY <1>1, FrontFrame DEF Cool, Tame

\* what the running frame leaves
LEMMA BeneathQuiet ==
    ASSUME stack \in Seq(Frame), stack # <<>>, HotInv, Rank(Top) # 2
    PROVE  /\ Readers(Beneath) = Readers(stack) /\ DoneFirst(Beneath) /\ NoneHot(Beneath)
           /\ Top.fn # "message_done" => (HasDone(Beneath) <=> HasDone(stack))
           /\ Beneath # <<>> => NoneHot(Tail(Beneath)) /\ Head(Beneath).fn \notin Hot
           /\ Beneath \in Seq(Frame)
  <1>1. Head(stack) = Top /\ Tail(stack) = Beneath /\ Beneath \in Seq(Frame)
    BY RunningTop DEF Top, Beneath
  <1>2. NoneHot(Beneath) /\ DoneFirst(stack)
    BY DEF HotInv
  <1>3. /\ Readers(Beneath) = Readers(stack) /\ DoneFirst(Beneath)
        /\ Top.fn # "message_done" => (HasDone(Beneath) <=> HasDone(stack))
    BY <1>1, <1>2, FrontFrame
  <1>4. Beneath # <<>> => NoneHot(Tail(Beneath)) /\ Head(Beneath).fn \notin Hot
    BY <1>1, <1>2, FrontFrame
  <1> QED
    BY <1>1, <1>2, <1>3, <1>4

\* So a still move leaves the readers, and what is to be done with the message, as they are.
LEMMA StillStack ==
    ASSUME stack \in Seq(Frame), stack' \in Seq(Frame), stack # <<>>, HotInv, Rank(Top) # 2, StillMove
    PROVE  /\ Readers(stack') = Readers(stack) /\ DoneFirst(stack')
           /\ Top.fn # "message_done" => (HasDone(stack') <=> HasDone(stack))
           /\ stack' # <<>> =>
                 /\ NoneHot(Tail(stack'))
                 /\ Head(stack').fn \notin Hot \/ Is(Head(stack'), "uws", "indicate_ws_error")
  <1>1. /\ Readers(Beneath) = Readers(stack) /\ DoneFirst(Beneath) /\ NoneHot(Beneath)
        /\ Top.fn # "message_done" => (HasDone(Beneath) <=> HasDone(stack))
        /\ Beneath # <<>> => NoneHot(Tail(Beneath)) /\ Head(Beneath).fn \notin Hot
        /\ Beneath \in Seq(Frame)
    BY BeneathQuiet
  <1>2. \A a : Tame(a) => Cool(a)
    BY DEF Cool
  <1>3. CASE Pop \/ Goto(<<>>)
    <2>1. stack' = Beneath
      BY <1>3, Goto0
    <2> QED
      BY <1>1, <2>1
  <1>4. ASSUME NEW v, Return(v)
        PROVE  /\ Readers(stack') = Readers(Beneath) /\ DoneFirst(stack')
               /\ HasDone(stack') <=> HasDone(Beneath)
               /\ stack' # <<>> => NoneHot(Tail(stack')) /\ Head(stack').fn \notin Hot
    <2>1. CASE Beneath = <<>>
      <3>1. stack' = <<>>
        BY <1>4, <2>1, ReturnTop
      <3> QED
        BY <1>1, <2>1, <3>1
    <2>2. CASE Beneath # <<>>
      <3>1. stack' # <<>> /\ Head(stack') = Given(Head(Beneath), v) /\ Tail(stack') = Tail(Beneath)
        BY <1>4, <2>2, ReturnTop DEF Stack1, OnTop
      <3>2. /\ Readers(stack') = Readers(Beneath)
            /\ HasDone(stack') <=> HasDone(Beneath)
            /\ DoneFirst(stack') <=> DoneFirst(Beneath)
            /\ Head(stack').fn = Head(Beneath).fn
        BY <1>1, <2>2, <3>1, GivenFront
      <3> QED
        BY <1>1, <2>2, <3>1, <3>2
    <2> QED
      BY <2>1, <2>2
  <1>5. ASSUME NEW a, Goto(<<a>>), Cool(a)
        PROVE  /\ Readers(stack') = Readers(Beneath) /\ DoneFirst(stack')
               /\ HasDone(stack') <=> HasDone(Beneath)
               /\ NoneHot(Tail(stack'))
               /\ Head(stack').fn \notin Hot \/ Is(Head(stack'), "uws", "indicate_ws_error")
    <2>1. stack' # <<>> /\ Head(stack') = a /\ Tail(stack') = Beneath
      BY <1>5, Goto1 DEF Stack1, OnTop
    <2> QED
      BY <1>1, <1>5, <2>1, CoolOnTop
  <1>6. ASSUME NEW a, NEW b, Goto(<<a, b>>), Cool(a), Tame(b)
        PROVE  /\ Readers(stack') = Readers(Beneath) /\ DoneFirst(stack')
               /\ HasDone(stack') <=> HasDone(Beneath)
               /\ NoneHot(Tail(stack'))
               /\ Head(stack').fn \notin Hot \/ Is(Head(stack'), "uws", "indicate_ws_error")
    <2> DEFINE u == Tail(stack')
    <2>1. stack' # <<>> /\ Head(stack') = a /\ u # <<>> /\ Head(u) = b /\ Tail(u) = Beneath
      BY <1>6, Goto2 DEF Stack2, OnTop
    <2>2. u \in Seq(Frame)
      BY <2>1, TailParts
    <2> HIDE DEF u
    <2>3. Readers(u) = Readers(Beneath) /\ (HasDone(u) <=> HasDone(Beneath)) /\ DoneFirst(u) /\ NoneHot(u)
      BY <1>1, <1>2, <1>6, <2>1, <2>2, CoolOnTop
    <2> QED
      BY <1>6, <2>1, <2>3, CoolOnTop DEF u
  <1>7. ASSUME NEW a, NEW b, NEW c, Goto(<<a, b, c>>), Cool(a), Tame(b), Tame(c)
        PROVE  /\ Readers(stack') = Readers(Beneath) /\ DoneFirst(stack')
               /\ HasDone(stack') <=> HasDone(Beneath)
               /\ NoneHot(Tail(stack'))
               /\ Head(stack').fn \notin Hot \/ Is(Head(stack'), "uws", "indicate_ws_error")
    <2> DEFINE u == Tail(stack')
               w == Tail(u)
    <2>1. /\ stack' # <<>> /\ Head(stack') = a /\ u # <<>> /\ Head(u) = b
          /\ w # <<>> /\ Head(w) = c /\ Tail(w) = Beneath
      BY <1>7, Goto3 DEF Stack3, Stack2, OnTop
    <2>2. u \in Seq(Frame) /\ w \in Seq(Frame)
      BY <2>1, TailParts
    <2> HIDE DEF u, w
    <2>3. Readers(w) = Readers(Beneath) /\ (HasDone(w) <=> HasDone(Beneath)) /\ DoneFirst(w) /\ NoneHot(w)
      BY <1>1, <1>2, <1>7, <2>1, <2>2, CoolOnTop
    <2>4. Readers(u) = Readers(w) /\ (HasDone(u) <=> HasDone(w)) /\ DoneFirst(u) /\ NoneHot(u)
      BY <1>2, <1>7, <2>1, <2>2, <2>3, CoolOnTop DEF w
    <2> QED
      BY <1>7, <2>1, <2>3, <2>4, CoolOnTop DEF u
  <1> QED
    BY <1>1, <1>3, <1>4, <1>5, <1>6, <1>7 DEF StillMove

\* Between messages no fragment is kept: one frame keeps it so ...
LEMMA FreshAfter ==
    ASSUME NEW a \in FoldState, NEW u \in Unit, a.type = "UNKNOWN" => a.parts = <<>>
    PROVE  After(a, u).type = "UNKNOWN" => After(a, u).parts = <<>>
  <1>1. CASE ~IsFrame(u)
    BY <1>1 DEF After
  <1>2. CASE IsFrame(u)
    <2>1. a.out \in Seq(Message) /\ a.type \in FrameTypes /\ a.parts \in Seq(Unit)
          /\ a = [out |-> a.out, type |-> a.type, parts |-> a.parts, stop |-> a.stop]
      BY DEF FoldState
    <2>2. u.op \in Opcodes /\ DataType(u.op) # "UNKNOWN"
      BY <1>2 DEF IsFrame, DataType
    <2>3. Assemble(a, u).type = "UNKNOWN" => Assemble(a, u).parts = <<>>
      BY <2>1, <2>2 DEF Assemble, Opcodes
    <2> QED
      BY <1>2, <2>3 DEF After
  <1> QED
    BY <1>1, <1>2

\* Between two messages there are no fragments.
LEMMA FreshIsEmpty ==
    ASSUME NEW units \in Seq(Unit)
    PROVE  \A i \in 0 .. Len(units) : Assembled(units)[i].type = "UNKNOWN" => Assembled(units)[i].parts = <<>>
  <1> DEFINE F == Assembled(units)
             n == Len(units)
             S == {i \in 0 .. n : F[i].type = "UNKNOWN" => F[i].parts = <<>>}
  <1>1. /\ n \in Nat /\ F[0] = Start
        /\ \A i \in 1 .. n : units[i] \in Unit /\ F[i] = After(F[i - 1], units[i])
        /\ \A i \in 0 .. n : F[i] \in FoldState
    BY AssembledSteps
  <1> HIDE DEF F, n
  <1>2. 0 \in S
    BY <1>1 DEF Start
  <1>3. ASSUME NEW i \in 1 .. n, i - 1 \in S PROVE i \in S
    <2>1. i \in 0 .. n /\ i - 1 \in 0 .. n
      BY <1>1
    <2>2. F[i].type = "UNKNOWN" => F[i].parts = <<>>
      BY <1>1, <1>3, <2>1, FreshAfter
    <2> QED
      BY <2>1, <2>2
  <1> HIDE DEF S
  <1>4. 0 .. n \subseteq S
    BY <1>1, <1>2, <1>3, Upwards
  <1> QED
    BY <1>4 DEF S, F, n

\* what a frame without a flaw makes of the messages
LEMMA AfterCases ==
    ASSUME NEW a \in FoldState, NEW h \in Unit, h.k = 1, a.stop = FALSE, h.flaw = "none"
    PROVE  /\ h.op \in {"ping", "pong", "reserved"} /\ h.fin => After(a, h) = a
           /\ h.op \in {"text", "binary"} /\ a.type = "UNKNOWN" =>
                /\ After(a, h).stop = FALSE
                /\ h.fin => /\ After(a, h).out = Append(a.out, [type |-> DataType(h.op), parts |-> <<h>>])
                            /\ After(a, h).type = "UNKNOWN" /\ After(a, h).parts = a.parts
                /\ ~h.fin => /\ After(a, h).out = a.out
                             /\ After(a, h).type = DataType(h.op) /\ After(a, h).parts = <<h>>
           /\ h.op = "continuation" /\ a.type # "UNKNOWN" =>
                /\ After(a, h).stop = FALSE
                /\ h.fin => /\ After(a, h).out = Append(a.out, [type |-> a.type, parts |-> Append(a.parts, h)])
                            /\ After(a, h).type = "UNKNOWN" /\ After(a, h).parts = <<>>
                /\ ~h.fin => /\ After(a, h).out = a.out
                             /\ After(a, h).type = a.type /\ After(a, h).parts = Append(a.parts, h)
           /\ h.op \in Responses => After(a, h) = a
  <1>1. /\ a.out \in Seq(Message) /\ a.type \in FrameTypes /\ a.parts \in Seq(Unit)
        /\ a = [out |-> a.out, type |-> a.type, parts |-> a.parts, stop |-> a.stop]
    BY DEF FoldState
  <1>2. ASSUME h.op \in {"ping", "pong", "reserved"}, h.fin PROVE After(a, h) = a
    BY <1>2 DEF After, Assemble, IsFrame, Opcodes
  <1>3. ASSUME h.op \in {"text", "binary"}, a.type = "UNKNOWN"
        PROVE  /\ After(a, h).stop = FALSE
               /\ h.fin => /\ After(a, h).out = Append(a.out, [type |-> DataType(h.op), parts |-> <<h>>])
                            /\ After(a, h).type = "UNKNOWN" /\ After(a, h).parts = a.parts
               /\ ~h.fin => /\ After(a, h).out = a.out
                             /\ After(a, h).type = DataType(h.op) /\ After(a, h).parts = <<h>>
    <2>1. After(a, h) = IF h.fin THEN [a EXCEPT !.out = Append(@, [type |-> DataType(h.op), parts |-> <<h>>])]
                        ELSE [a EXCEPT !.type = DataType(h.op), !.parts = <<h>>]
      BY <1>3 DEF After, Assemble, IsFrame, Opcodes
    <2> QED
      BY <1>1, <1>3, <2>1
  <1>4. ASSUME h.op = "continuation", a.type # "UNKNOWN"
        PROVE  /\ After(a, h).stop = FALSE
               /\ h.fin => /\ After(a, h).out = Append(a.out, [type |-> a.type, parts |-> Append(a.parts, h)])
                            /\ After(a, h).type = "UNKNOWN" /\ After(a, h).parts = <<>>
               /\ ~h.fin => /\ After(a, h).out = a.out
                             /\ After(a, h).type = a.type /\ After(a, h).parts = Append(a.parts, h)
    <2>1. After(a, h) = IF h.fin THEN [a EXCEPT !.out = Append(@, [type |-> a.type, parts |-> Append(a.parts, h)]),
                                                !.type = "UNKNOWN", !.parts = <<>>]
                        ELSE [a EXCEPT !.parts = Append(@, h)]
      BY <1>4 DEF After, Assemble, IsFrame, Opcodes
    <2> QED
      BY <1>1, <1>4, <2>1
  <1>5. ASSUME h.op \in Responses PROVE After(a, h) = a
    BY <1>5 DEF After, IsFrame, Responses, Opcodes
  <1> QED
    BY <1>2, <1>3, <1>4, <1>5

-----------------------------------------------------------------------------
(* Steps that leave the stream as it is.                                    *)

\* the frames on top that the invariants speak of
Plain == stack # <<>> => Top.fn \notin Hot \ {"indicate_ws_error"}

\* Where neither script nor buffer nor readers change, they match as before;
LEMMA AlignSame ==
    ASSUME AlignInv, UNCHANGED <<script, received, stream_buffer>>, Readers(stack') = Readers(stack),
           Arriving = <<>>, Arriving' = <<>>,
           Reading' => Reading, Reading' /\ uws_state' = "OPEN" => uws_state = "OPEN",
           uws_state' = "OPENING_UNDERLYING_IO" => uws_state = "OPENING_UNDERLYING_IO" /\ (Upgrading' => Upgrading)
    PROVE  AlignInv'
  <1>1. Framed(script')
    BY DEF AlignInv
  <1>2. (uws_state = "OPENING_UNDERLYING_IO" => stream_buffer = <<>> /\ Readers(stack) = {} /\ (Upgrading => received = 0))'
    BY DEF AlignInv
  <1>3. ASSUME Reading'
        PROVE  /\ Aligned' /\ Boundary(Consumed)'
               /\ \A r \in Readers(stack)' : Suits(r)'
               /\ NoControl /\ uws_state' = "OPEN" /\ Readers(stack)' = {} => NoneWhole'
    <2>1. /\ Aligned /\ Boundary(Consumed)
          /\ \A r \in Readers(stack) : Suits(r)
          /\ NoControl /\ uws_state = "OPEN" /\ Readers(stack) = {} => NoneWhole
      BY <1>3 DEF AlignInv
    <2>2. Consumed' = Consumed
      BY DEF Consumed
    <2>3. Aligned'
      BY <2>1, <2>2 DEF Aligned
    <2>4. Boundary(Consumed)'
      BY <2>1, <2>2 DEF Boundary
    <2>5. \A r \in Readers(stack)' : Suits(r)'
      <3>1. \A r : Suits(r) => Suits(r)'
        BY <1>3 DEF Suits
      <3> QED
        BY <2>1, <3>1
    <2> QED
      BY <1>3, <2>1, <2>3, <2>4, <2>5 DEF NoneWhole
  <1> QED
    BY <1>1, <1>2, <1>3 DEF AlignInv

\* and so do the fragments, whoever hands the message to the user.
LEMMA FoldSame ==
    ASSUME FoldInv, UNCHANGED <<script, received, stream_buffer, session>>, Readers(stack') = Readers(stack),
           Arriving = <<>>, Arriving' = <<>>,
           \A s \in Sessions : s > session => delivered'[s] = delivered[s],
           HasDone(stack) \/ UNCHANGED <<fragment_buffer, fragmented_frame_type>>,
           ~HasDone(stack') /\ HasDone(stack) => fragment_buffer' = <<>> /\ fragmented_frame_type' = "UNKNOWN",
           HasDone(stack') => HasDone(stack),
           uws_state' = "OPENING_UNDERLYING_IO" =>
               /\ uws_state = "OPENING_UNDERLYING_IO"
               /\ UNCHANGED <<fragment_buffer, fragmented_frame_type, delivered>>,
           Passed' = Passed, delivered'[session] = delivered[session] \/ (Reading /\ delivered'[session] = Passed),
           Reading' => Reading,
           stack' # <<>> => Head(stack').fn \notin {"decode_frame", "frame", "on_ws_frame_received"},
           script \in Seq(Unit)
    PROVE  FoldInv'
  <1>1. Noticed(script')
    BY DEF FoldInv
  <1>2. \A s \in Sessions : s > session' => delivered'[s] = <<>>
    BY DEF FoldInv
  <1>3. uws_state' = "OPENING_UNDERLYING_IO" =>
          fragment_buffer' = <<>> /\ fragmented_frame_type' = "UNKNOWN" /\ delivered'[session'] = <<>>
    BY DEF FoldInv
  <1>4. stack' # <<>> /\ Top'.fn \in {"decode_frame", "frame", "on_ws_frame_received"} => uws_state' \in Decoding
    BY DEF Top
  <1>5. Consumed' = Consumed /\ Due' = Due
    BY DEF Consumed, Due, Consuming
  <1>6. ASSUME Reading'
        PROVE  Consumed' + Due' \in 0 .. Len(script') /\ Reached(Assembled(script)[Consumed + Due])'
    <2> DEFINE a == Assembled(script)[Consumed + Due]
    <2>1. Consumed + Due \in 0 .. Len(script) /\ Reached(a)
      BY <1>6 DEF FoldInv
    <2>2. a' = a
      BY <1>5
    <2> HIDE DEF a
    <2>3. Reached(a)'
      BY <2>1, <2>2 DEF Reached
    <2> QED
      BY <1>5, <2>1, <2>3 DEF a
  <1>7. MessagesAsSent'
    <2>1. CASE delivered'[session] = delivered[session]
      BY <2>1 DEF FoldInv, MessagesAsSent
    <2>2. CASE Reading /\ delivered'[session] = Passed
      <3> DEFINE p == Consumed + Due
      <3>1. p \in 0 .. Len(script) /\ Assembled(script)[p].out = Passed
        BY <2>2 DEF FoldInv, Reached
      <3> HIDE DEF p
      <3>2. IsPrefixOf(Passed, Messages(script))
        BY <3>1, MessagesFrom
      <3> QED
        BY <2>2, <3>2 DEF MessagesAsSent
    <2> QED
      BY <2>1, <2>2
  <1> QED
    BY <1>1, <1>2, <1>3, <1>4, <1>5, <1>6, <1>7 DEF FoldInv

-----------------------------------------------------------------------------
(* Steps after which nothing more is decoded.                               *)

\* Once the client has stopped decoding for good nothing is said of its buffer,
LEMMA AlignDead ==
    ASSUME AlignInv, script' = script, ~Reading', uws_state' # "OPENING_UNDERLYING_IO"
    PROVE  AlignInv'
  BY DEF AlignInv

\* nor of its fragments.
LEMMA FoldDead ==
    ASSUME FoldInv, ~Reading', uws_state' # "OPENING_UNDERLYING_IO", UNCHANGED <<script, session, delivered>>,
           stack' # <<>> => Head(stack').fn \notin {"decode_frame", "frame", "on_ws_frame_received"}
    PROVE  FoldInv'
  BY DEF FoldInv, MessagesAsSent, Top

\* A step that has nothing to do with what is received.
Still ==
    /\ stack # <<>> /\ Rank(Top) # 2 /\ Top.fn \notin Hot \cup {"message_done"}
    /\ StillMove
    /\ UNCHANGED <<stream_buffer, fragment_buffer, fragmented_frame_type, script, received, session, delivered>>
    /\ ended \subseteq ended'
    /\ Is(Top, "user", "on_ws_error") => session \in ended'
    /\ uws_state' = uws_state \/ uws_state' \notin Sound \cup {"OPENING_UNDERLYING_IO", "ERROR"}
    /\ uws_state' = uws_state /\ Failing => Failing'
    /\ uws_state' = uws_state /\ uws_state = "OPENING_UNDERLYING_IO" /\ Upgrading' => Upgrading

Tracking == AlignInv /\ HotInv /\ PoliteInv /\ (Exact => FoldInv)

\* All of Tracking survives a still step.
LEMMA StillKept ==
    ASSUME stack \in Seq(Frame), stack' \in Seq(Frame), script \in Seq(Unit), Tracking, Still
    PROVE  Tracking'
  <1>1. stack # <<>> /\ Rank(Top) # 2 /\ Top.fn \notin Hot \cup {"message_done"} /\ HotInv
    BY DEF Still, Tracking
  <1>2. /\ Readers(stack') = Readers(stack) /\ DoneFirst(stack')
        /\ HasDone(stack') <=> HasDone(stack)
        /\ stack' # <<>> =>
              /\ NoneHot(Tail(stack'))
              /\ Head(stack').fn \notin Hot \/ Is(Head(stack'), "uws", "indicate_ws_error")
    BY <1>1, StillStack DEF Still
  <1>3. stack' # <<>> => Head(stack').fn \notin Hot \ {"indicate_ws_error"}
    BY <1>2 DEF Is
  <1>4. HotInv'
    BY <1>2, <1>3 DEF HotInv, Beneath, Top, Hot
  <1>5. Arriving = <<>> /\ Arriving' = <<>>
    BY <1>1, <1>3 DEF Arriving, Top, Hot
  <1>6. Reading' => Reading /\ uws_state' = uws_state
    BY DEF Still, Reading
  <1>7. UNCHANGED <<stream_buffer, fragment_buffer, fragmented_frame_type, script, received, session, delivered>>
    BY DEF Still
  <1>8. uws_state' = "OPENING_UNDERLYING_IO" => uws_state = "OPENING_UNDERLYING_IO" /\ (Upgrading' => Upgrading)
    BY DEF Still
  <1>9. AlignInv'
    BY <1>2, <1>5, <1>6, <1>7, <1>8, AlignSame DEF Tracking
  <1>10. PoliteInv'
    <2>1. ASSUME uws_state' = "ERROR" PROVE session' \in ended'
      <3>1. uws_state = "ERROR"
        BY <2>1 DEF Still
      <3> QED
        BY <1>7, <3>1 DEF Tracking, PoliteInv, Still
    <2>2. stack' # <<>> => ~Is(Head(stack'), "uws", "uws_client_close_handshake_async")
      BY <1>3 DEF Is, Hot
    <2> QED
      BY <2>1, <2>2 DEF PoliteInv, Top
  <1>11. ASSUME Exact PROVE FoldInv'
    <2>1. Passed = delivered[session] /\ Passed' = delivered'[session']
      BY <1>1, <1>3 DEF Passed, Is, Top, Hot
    <2>2. FoldInv
      BY <1>11 DEF Tracking
    <2>3. stack' # <<>> => Head(stack').fn \notin {"decode_frame", "frame", "on_ws_frame_received"}
      BY <1>3 DEF Hot
    <2>4. \A s \in Sessions : s > session => delivered'[s] = delivered[s]
      BY <1>7
    <2>5. Passed' = Passed /\ delivered'[session] = delivered[session]
      BY <1>7, <2>1
    <2> QED
      BY <1>2, <1>5, <1>6, <1>7, <1>8, <2>2, <2>3, <2>4, <2>5, FoldSame
  <1> QED
    BY <1>4, <1>9, <1>10, <1>11 DEF Tracking, Exact, Polite

-----------------------------------------------------------------------------
(* Tame frames.                                                             *)

\* the frames that have nothing to do with the stream
LEMMA TameFrames ==
    /\ \A f : f \notin Decoders \cup Hot \cup {"message_done"} => \A x, n, d : Tame(MkFrame("uws", f, x, n, d))
    /\ \A f : f \notin Hot \cup {"message_done"} => \A x, n, d : Tame(MkFrame("user", f, x, n, d))
    /\ \A f : f \notin Hot \cup {"message_done"} => \A x, n, d : Tame(MkFrame("socket", f, x, n, d))
    /\ \A l, v : Tame(ReturnFrame(l, v))
    /\ \A x, n, d : Cool(MkFrame("uws", "indicate_ws_error", x, n, d))
    /\ \A a : Tame(a) => Cool(a)
  <1>1. ASSUME NEW l, NEW f, NEW x, NEW n, NEW d, f \notin Hot \cup {"message_done"}, l # "uws" \/ f \notin Decoders
        PROVE  Tame(MkFrame(l, f, x, n, d))
    <2> DEFINE m == MkFrame(l, f, x, n, d)
    <2>1. m.at = l /\ m.fn = f
      BY MadeFrame
    <2> HIDE DEF m
    <2> QED
      BY <1>1, <2>1, Ranks DEF Tame, m
  <1>2. ASSUME NEW l, NEW v PROVE Tame(ReturnFrame(l, v))
    <2> DEFINE m == ReturnFrame(l, v)
    <2>1. m.fn = "return"
      BY MadeReturn
    <2> HIDE DEF m
    <2> QED
      BY <2>1, Ranks DEF Tame, m, Decoders, Hot
  <1>3. ASSUME NEW x, NEW n, NEW d PROVE Cool(MkFrame("uws", "indicate_ws_error", x, n, d))
    BY MadeFrame DEF Cool, Is
  <1>4. \A a : Tame(a) => Cool(a)
    BY DEF Cool
  <1> QED
    BY <1>1, <1>2, <1>3, <1>4

-----------------------------------------------------------------------------
(* Who runs while the connection is being opened.                           *)

\* What runs while the socket is being opened (uws_client_open_async and what it calls).
LEMMA OpeningRuns ==
    ASSUME stack \in Seq(Frame), stack # <<>>, Place(stack), uws_state = "OPENING_UNDERLYING_IO"
    PROVE  Top.fn \in {"open", "on_io_open_complete", "upgrade_request_sent", "send", "return",
                       "open_complete_error", "close"}
  <1>1. ~Settled
    BY DEF Settled
  <1>2. Opens(stack) \/ OpensSending(stack) \/ OpenFails(stack)
    <2>1. ~Usual(stack) /\ ~Called(stack) /\ ~Sending(stack) /\ ~Decodes(stack)
      BY <1>1 DEF Usual, Called, Sending, Decodes
    <2>2. ~OpenTold(stack)
      BY DEF OpenTold
    <2>3. ~Closes(stack)
      BY DEF Closes, Closing
    <2> QED
      BY <2>1, <2>2, <2>3 DEF Place
  <1> QED
    BY <1>2 DEF Opens, OpensSending, OpenFails, Is, Top

\* An open that fails closes the socket first.
LEMMA ShutFails ==
    ASSUME stack \in Seq(Frame), stack # <<>>, Place(stack), uws_state \in Opening, Top.fn = "close"
    PROVE  Top.arg = "NULL" /\ Beneath # <<>> /\ Head(Beneath).fn = "open_complete_error"
  <1>1. OpenFails(stack) \/ Closes(stack)
    BY RunsInPlace
  <1>2. ~Closes(stack)
    BY DEF Closes, Opening, Closing, Is, Top
  <1> QED
    BY <1>1, <1>2 DEF OpenFails, Is, Top, Beneath

-----------------------------------------------------------------------------
(* The socket.                                                              *)

\* The socket's functions, other than the receiving loop of socketio_dowork, call no reader;
LEMMA SockStillMove ==
    ASSUME SocketClient, TypeOK, Place(stack), SockNext, ~socketio_dowork_receive
    PROVE  stack # <<>> /\ Top.at = "socket" /\ Top.fn \notin Hot \cup {"message_done"} \cup Decoders /\ StillMove
  <1>1. /\ stack # <<>> /\ Top.at = "socket"
        /\ Top.fn \in {"open", "close", "destroy", "send", "dowork", "dowork_sent", "dowork_receive"}
    BY DEF SockNext, socketio_open_refused, socketio_open_connected, socketio_open_failed, socketio_close,
           socketio_destroy, socketio_send_sent, socketio_send_queued, socketio_send_failed,
           socketio_dowork_send_complete, socketio_dowork_remove, socketio_dowork_send_error,
           socketio_dowork_send_end, socketio_dowork_receive, socketio_dowork_receive_error,
           socketio_dowork_receive_end, Running, Top
  <1>2. /\ \A x : Tame(on_io_open_complete("socket", x))
        /\ Tame(on_io_close_complete("socket")) /\ Tame(on_io_error("socket"))
        /\ \A v : Tame(ReturnFrame("socket", v))
        /\ Tame(dowork_sending) /\ Tame(dowork_sent) /\ Tame(dowork_receiving)
    BY Neighbours, TameFrames
       DEF on_io_open_complete, on_io_close_complete, on_io_error, dowork_sending, dowork_sent, dowork_receiving,
           Decoders, Hot
  <1>3. \A a : Tame(a) => Cool(a)
    BY TameFrames
  <1>4. ASSUME NEW a, Goto(<<a>>), Tame(a) PROVE StillMove
    BY <1>3, <1>4 DEF StillMove
  <1>5. ASSUME NEW a, NEW b, Goto(<<a, b>>), Tame(a), Tame(b) PROVE StillMove
    BY <1>3, <1>5 DEF StillMove
  <1>6. Pop \/ Goto(<<>>) => StillMove
    BY DEF StillMove
  <1>7. ASSUME NEW v, Return(v) PROVE StillMove
    BY <1>7 DEF StillMove
  <1>8. ASSUME NEW cb \in SendCallbacks, NEW n, NEW b, Goto(on_send_complete(cb, "OK", n) \o <<b>>), Tame(b)
        PROVE  StillMove
    <2>1. IF cb \in {"NULL", "unchecked_on_send_complete"} THEN Goto(<<b>>)
          ELSE Goto(<<MkFrame("uws", cb, "OK", n, <<>>), b>>)
      BY <1>8, Completed
    <2>2. cb \notin {"NULL", "unchecked_on_send_complete"} => Tame(MkFrame("uws", cb, "OK", n, <<>>))
      <3>1. cb \notin {"NULL", "unchecked_on_send_complete"} => cb \notin Decoders \cup Hot \cup {"message_done"}
        BY DEF SendCallbacks, Decoders, Hot
      <3> QED
        BY <3>1, TameFrames
    <2> DEFINE m == MkFrame("uws", cb, "OK", n, <<>>)
    <2> HIDE DEF m
    <2> QED
      BY <1>4, <1>5, <1>8, <2>1, <2>2 DEF m
  <1>9. stack \in Seq(Frame) /\ Top \in Frame
    BY <1>1, RunningTop DEF TypeOK
  <1> SUFFICES StillMove
    BY <1>1 DEF Hot, Decoders
  <1>10. CASE socketio_open_refused \/ socketio_open_connected \/ socketio_open_failed
    <2>1. \E x : Goto(<<on_io_open_complete("socket", x), ReturnFrame("socket", 0)>>)
      BY <1>10 DEF socketio_open_refused, socketio_open_connected, socketio_open_failed
    <2> QED
      BY <1>2, <1>5, <2>1
  <1>11. CASE socketio_close
    <2>1. Return(0) \/ Goto(<<on_io_close_complete("socket"), ReturnFrame("socket", 0)>>)
      BY <1>11 DEF socketio_close
    <2> QED
      BY <1>2, <1>5, <1>7, <2>1
  <1>12. CASE socketio_destroy \/ socketio_dowork_receive_end
    BY <1>6, <1>12 DEF socketio_destroy, socketio_dowork_receive_end
  <1>13. CASE socketio_send_sent
    <2>1. Top.arg \in SendCallbacks
      BY <1>9, <1>13 DEF socketio_send_sent, Running, Top, Frame, WellCalled
    <2> QED
      BY <1>2, <1>8, <1>13, <2>1 DEF socketio_send_sent
  <1>14. CASE socketio_send_queued \/ socketio_send_failed
    BY <1>7, <1>14 DEF socketio_send_queued, socketio_send_failed
  <1>15. CASE socketio_dowork_send_complete
    <2>1. Head(pending_io_list).cb \in SendCallbacks
      <3>1. pending_io_list # <<>> /\ pending_io_list \in Seq(PendingIo)
        BY <1>15 DEF socketio_dowork_send_complete, TypeOK, SockTypeOK
      <3>2. Head(pending_io_list) \in PendingIo
        BY <3>1
      <3> QED
        BY <3>2 DEF PendingIo
    <2> QED
      BY <1>2, <1>8, <1>15, <2>1 DEF socketio_dowork_send_complete
  <1>16. CASE socketio_dowork_remove \/ socketio_dowork_send_end
    BY <1>2, <1>4, <1>16 DEF socketio_dowork_remove, socketio_dowork_send_end
  <1>17. CASE socketio_dowork_send_error \/ socketio_dowork_receive_error
    BY <1>2, <1>4, <1>5, <1>17 DEF socketio_dowork_send_error, socketio_dowork_receive_error
  <1> QED
    BY <1>10, <1>11, <1>12, <1>13, <1>14, <1>15, <1>16, <1>17 DEF SockNext

\* nor do they touch what the client keeps, except where opening the socket succeeds.
LEMMA SockStill ==
    ASSUME SocketClient, TypeOK, TypeOK', Place(stack), SockNext, UNCHANGED <<tlsVars, uwsVars, userVars>>,
           ~socketio_dowork_receive, ~socketio_open_connected
    PROVE  Still
  <1>1. stack # <<>> /\ Top.at = "socket" /\ Top.fn \notin Hot \cup {"message_done"} \cup Decoders /\ StillMove
    BY SockStillMove
  <1>2. Rank(Top) # 2 /\ stack \in Seq(Frame) /\ stack' \in Seq(Frame)
    BY <1>1, Ranks DEF TypeOK
  <1>3. UNCHANGED <<script, received>>
    BY DEF SockNext, socketio_open_refused, socketio_open_failed, socketio_close,
           socketio_destroy, socketio_send_sent, socketio_send_queued, socketio_send_failed,
           socketio_dowork_send_complete, socketio_dowork_remove, socketio_dowork_send_error,
           socketio_dowork_send_end, socketio_dowork_receive_error,
           socketio_dowork_receive_end, sockVars
  <1>4. /\ UNCHANGED <<stream_buffer, fragment_buffer, fragmented_frame_type, session, delivered, ended, uws_state>>
        /\ ~Is(Top, "user", "on_ws_error")
    BY <1>1 DEF uwsVars, userVars, Is
  <1>5. /\ Top.fn \in {"open", "close", "send"} =>
             socketio_open_refused \/ socketio_open_failed \/ socketio_close \/ socketio_send_sent
             \/ socketio_send_queued \/ socketio_send_failed
        /\ Top.fn = "open" => socketio_open_refused \/ socketio_open_failed
        /\ Top.fn = "close" => socketio_close
        /\ Top.fn \in {"open", "close", "destroy", "send", "dowork", "dowork_sent", "dowork_receive"}
    BY DEF SockNext, socketio_open_refused, socketio_open_connected, socketio_open_failed, socketio_close,
           socketio_destroy, socketio_send_sent, socketio_send_queued, socketio_send_failed,
           socketio_dowork_send_complete, socketio_dowork_remove, socketio_dowork_send_error,
           socketio_dowork_send_end, socketio_dowork_receive, socketio_dowork_receive_error,
           socketio_dowork_receive_end, Running, Top
  <1>6. ASSUME Top.fn = "close", uws_state \in Opening
        PROVE  stack' # <<>> /\ Head(stack').fn = "open_complete_error"
    <2>1. Top.arg = "NULL" /\ Beneath # <<>> /\ Head(Beneath).fn = "open_complete_error"
      BY <1>1, <1>2, <1>6, ShutFails
    <2>2. Return(0)
      BY <1>5, <1>6, <2>1 DEF socketio_close
    <2>3. stack' # <<>> /\ Head(stack') = Given(Head(Beneath), 0) /\ Head(Beneath) \in Frame
      BY <1>1, <1>2, <2>1, <2>2, ReturnTop DEF Stack1, OnTop
    <2> QED
      BY <2>1, <2>3, GivenParts
  <1>7. Failing => Failing'
    BY <1>1, <1>4, <1>5, <1>6 DEF Failing, Top
  <1>8. ASSUME uws_state = "OPENING_UNDERLYING_IO", Upgrading' PROVE Upgrading
    <2>1. Top.fn \in {"open", "send", "close"}
      BY <1>1, <1>2, <1>5, <1>8, OpeningRuns
    <2>2. CASE Top.fn = "open"
      <3> DEFINE m == on_io_open_complete("socket", "ERROR")
      <3>1. Goto(<<m, ReturnFrame("socket", 0)>>)
        BY <1>5, <2>2 DEF socketio_open_refused, socketio_open_failed
      <3>2. stack' # <<>> /\ Head(stack') = m
        BY <1>1, <1>2, <3>1, Goto2 DEF Stack2, OnTop
      <3>3. m.fn = "on_io_open_complete" /\ m.arg = "ERROR"
        BY MadeFrame DEF on_io_open_complete
      <3> QED
        BY <1>8, <3>2, <3>3 DEF Upgrading, Top
    <2>3. CASE Top.fn = "send"
      BY <1>1, <2>3 DEF Upgrading
    <2>4. CASE Top.fn = "close"
      BY <1>6, <1>8, <2>4 DEF Upgrading, Top, Opening
    <2> QED
      BY <2>1, <2>2, <2>3, <2>4
  <1> QED
    BY <1>1, <1>2, <1>3, <1>4, <1>7, <1>8 DEF Still

-----------------------------------------------------------------------------
(* The client, when it does not read.                                       *)

Aside ==
    \/ indicate_ws_open_complete_error \/ indicate_ws_close_complete \/ clear_pending_sends
    \/ call_on_ws_close_complete \/ set_closed \/ xio_open_returned
    \/ (uws_client_open_async /\ uws_state # "CLOSED")
    \/ on_underlying_io_open_complete \/ (upgrade_request_sent /\ Top.ret # 0)
    \/ answer_sent \/ close_or_error \/ close_or_complete
    \/ on_underlying_io_close_sent \/ close_sent_closed \/ on_underlying_io_close_complete
    \/ on_underlying_io_error \/ uws_client_close_async \/ close_async_closed
    \/ uws_client_destroy \/ uws_client_send_frame_async \/ frame_sent
    \/ on_underlying_io_send_complete \/ uws_client_dowork

\* These functions of uws_client.c call no reader,
LEMMA AsideMove ==
    ASSUME SocketClient, TypeOK, Aside
    PROVE  StillMove
  <1>1. /\ Tame(Uws("open_complete_error")) /\ Tame(Uws("upgrade_request_sent"))
        /\ Tame(Uws("close_or_error")) /\ Tame(Uws("set_closed"))
        /\ Tame(Uws("indicate_ws_close_complete")) /\ Tame(Uws("close_sent_closed"))
        /\ Tame(Uws("close_async_closed")) /\ Cool(Uws("indicate_ws_error"))
        /\ Tame(Uws("clear_pending_sends")) /\ Tame(Uws("call_on_ws_close_complete"))
        /\ Tame(ReturnFrame("uws", 1))
        /\ \A x, n : Tame(MkFrame("uws", "frame_sent", x, n, <<>>))
        /\ Tame(MkFrame("uws", "uws_client_close_async", "NULL", 0, <<>>))
    BY TameFrames DEF Uws, Hot, Decoders
  <1>2. /\ Tame(xio_close("uws", "NULL")) /\ Tame(xio_close("uws", "close_complete"))
        /\ \A cb, n : Tame(xio_send("uws", cb, n))
        /\ Tame(xio_dowork("uws")) /\ Tame(xio_destroy("uws"))
    BY TameFrames, Neighbours DEF xio_close, xio_send, xio_dowork, xio_destroy, Hot
  <1>3. /\ \A x, n, d : Tame(User("on_ws_open_complete", x, n, d))
        /\ \A x, n, d : Tame(User("on_ws_send_frame_complete", x, n, d))
        /\ \A x, n, d : Tame(User("on_ws_close_complete", x, n, d))
    BY TameFrames DEF User, Hot
  <1>4. \A a : Tame(a) => Cool(a)
    BY TameFrames
  <1>5. ASSUME NEW a, Goto(<<a>>), Cool(a) PROVE StillMove
    BY <1>5 DEF StillMove
  <1>6. ASSUME NEW a, NEW b, Goto(<<a, b>>), Cool(a), Tame(b) PROVE StillMove
    BY <1>6 DEF StillMove
  <1>7. ASSUME NEW a, NEW b, NEW c, Goto(<<a, b, c>>), Cool(a), Tame(b), Tame(c) PROVE StillMove
    BY <1>7 DEF StillMove
  <1>8. Pop \/ Goto(<<>>) => StillMove
    BY DEF StillMove
  <1>9. ASSUME NEW v, Return(v) PROVE StillMove
    BY <1>9 DEF StillMove
  <1>10. Shut => StillMove
    BY <1>1, <1>2, <1>4, <1>6 DEF Shut, open_complete_error_and_close
  <1>11. CASE indicate_ws_open_complete_error \/ set_closed \/ xio_open_returned
    BY <1>3, <1>4, <1>5, <1>8, <1>9, <1>11 DEF indicate_ws_open_complete_error, set_closed, xio_open_returned
  <1>12. CASE indicate_ws_close_complete
    BY <1>1, <1>4, <1>6, <1>12 DEF indicate_ws_close_complete
  <1>13. CASE clear_pending_sends
    <2>1. Pop \/ \E n : Goto(<<User("on_ws_send_frame_complete", "CANCELLED", n, <<>>), Uws("clear_pending_sends")>>)
      BY <1>13 DEF clear_pending_sends
    <2> QED
      BY <1>1, <1>3, <1>4, <1>6, <1>8, <2>1
  <1>14. CASE call_on_ws_close_complete
    <2>1. Goto(<<>>) \/ Goto(<<User("on_ws_close_complete", "", on_ws_close_complete, <<>>)>>)
      BY <1>14 DEF call_on_ws_close_complete
    <2> QED
      BY <1>3, <1>4, <1>5, <1>8, <2>1
  <1>15. CASE uws_client_open_async /\ uws_state # "CLOSED"
    BY <1>9, <1>15 DEF uws_client_open_async
  <1>16. CASE on_underlying_io_open_complete \/ (upgrade_request_sent /\ Top.ret # 0)
    <2>1. \/ Shut \/ Goto(<<Uws("open_complete_error")>>)
          \/ Goto(<<xio_send("uws", "unchecked_on_send_complete", 0), Uws("upgrade_request_sent")>>)
      BY <1>16 DEF on_underlying_io_open_complete, upgrade_request_sent
    <2> QED
      BY <1>1, <1>2, <1>4, <1>5, <1>6, <1>10, <2>1
  <1>17. CASE answer_sent \/ on_underlying_io_close_sent
    <2>1. \/ Pop
          \/ Goto(<<xio_close("uws", "close_complete"), Uws("close_or_error")>>)
          \/ Goto(<<xio_close("uws", "close_complete"), Uws("close_sent_closed")>>)
      BY <1>17 DEF answer_sent, on_underlying_io_close_sent
    <2> QED
      BY <1>1, <1>2, <1>4, <1>6, <1>8, <2>1
  <1>18. CASE close_or_error \/ close_or_complete \/ close_sent_closed \/ on_underlying_io_close_complete
    <2>1. \/ Goto(<<>>) \/ Goto(<<Uws("indicate_ws_error"), Uws("set_closed")>>)
          \/ Goto(<<Uws("indicate_ws_close_complete"), Uws("set_closed")>>)
          \/ Goto(<<Uws("indicate_ws_close_complete")>>)
      BY <1>18 DEF close_or_error, close_or_complete, close_sent_closed, on_underlying_io_close_complete
    <2> QED
      BY <1>1, <1>4, <1>5, <1>6, <1>8, <2>1
  <1>19. CASE on_underlying_io_error
    <2>1. \/ Goto(<<xio_close("uws", "NULL"), Uws("indicate_ws_close_complete")>>)
          \/ Shut \/ Goto(<<Uws("indicate_ws_error")>>) \/ Goto(<<>>)
      BY <1>19 DEF on_underlying_io_error, Shut
    <2> QED
      BY <1>1, <1>2, <1>4, <1>5, <1>6, <1>8, <1>10, <2>1
  <1>20. CASE uws_client_close_async \/ close_async_closed
    <2>1. \/ \E v : Return(v)
          \/ Goto(<<xio_close("uws", "close_complete"), Uws("close_async_closed")>>)
          \/ Goto(<<Uws("indicate_ws_error"), ReturnFrame("uws", 1)>>)
      BY <1>20 DEF uws_client_close_async, close_async_closed
    <2> QED
      BY <1>1, <1>2, <1>4, <1>6, <1>9, <2>1
  <1>21. CASE uws_client_destroy
    <2> DEFINE close == MkFrame("uws", "uws_client_close_async", "NULL", 0, <<>>)
               destroy == xio_destroy("uws")
               clear == Uws("clear_pending_sends")
    <2>1. Goto(<<close>> \o <<destroy, clear>>) \/ Goto(<<>> \o <<destroy, clear>>)
      BY <1>21 DEF uws_client_destroy
    <2>2. Tame(close) /\ Tame(destroy) /\ Tame(clear)
      BY <1>1, <1>2
    <2> HIDE DEF close, destroy, clear
    <2>3. <<close>> \o <<destroy, clear>> = <<close, destroy, clear>> /\ <<>> \o <<destroy, clear>> = <<destroy, clear>>
      BY ONLY ConcatTuples
    <2> QED
      BY <1>4, <1>6, <1>7, <2>1, <2>2, <2>3
  <1>22. CASE uws_client_send_frame_async \/ frame_sent
    <2>1. \/ \E v : Return(v)
          \/ \E n : Goto(<<xio_send("uws", "on_underlying_io_send_complete", n),
                           MkFrame("uws", "frame_sent", "", n, <<>>)>>)
      BY <1>22 DEF uws_client_send_frame_async, frame_sent
    <2> QED
      BY <1>1, <1>2, <1>4, <1>6, <1>9, <2>1
  <1>23. CASE on_underlying_io_send_complete
    BY <1>3, <1>4, <1>5, <1>23 DEF on_underlying_io_send_complete
  <1>24. CASE uws_client_dowork
    <2>1. Goto(<<>>) \/ Goto(<<xio_dowork("uws")>>)
      BY <1>24 DEF uws_client_dowork
    <2> QED
      BY <1>2, <1>4, <1>5, <1>8, <2>1
  <1> QED
    BY <1>11, <1>12, <1>13, <1>14, <1>15, <1>16, <1>17, <1>18, <1>19, <1>20, <1>21, <1>22, <1>23, <1>24 DEF Aside

\* and leave buffer, fragments and deliveries alone.
LEMMA AsideStill ==
    ASSUME SocketClient, TypeOK, Place(stack), Aside, UNCHANGED <<sockVars, tlsVars, userVars>>
    PROVE  Still
  <1> USE DEF Running, Top
  <1>1. /\ stack # <<>> /\ Top.at = "uws"
        /\ Top.fn \in {"open_complete_error", "indicate_ws_close_complete", "clear_pending_sends",
             "call_on_ws_close_complete", "set_closed", "xio_open_returned", "uws_client_open_async",
             "on_io_open_complete", "upgrade_request_sent", "answer_sent", "close_or_error", "close_or_complete",
             "on_underlying_io_close_sent", "close_sent_closed", "on_io_close_complete", "on_io_error",
             "uws_client_close_async", "close_async_closed", "uws_client_destroy", "uws_client_send_frame_async",
             "frame_sent", "on_underlying_io_send_complete", "uws_client_dowork"}
        /\ Top.fn = "open_complete_error" => indicate_ws_open_complete_error
        /\ Top.fn = "on_io_open_complete" => on_underlying_io_open_complete
        /\ Top.fn = "xio_open_returned" => xio_open_returned
    BY DEF Aside, indicate_ws_open_complete_error, indicate_ws_close_complete, clear_pending_sends,
           call_on_ws_close_complete, set_closed, xio_open_returned, uws_client_open_async,
           on_underlying_io_open_complete, upgrade_request_sent, answer_sent, close_or_error, close_or_complete,
           on_underlying_io_close_sent, close_sent_closed, on_underlying_io_close_complete,
           on_underlying_io_error, uws_client_close_async, close_async_closed, uws_client_destroy,
           uws_client_send_frame_async, frame_sent, on_underlying_io_send_complete, uws_client_dowork
  <1> USE DEF Top
  <1>2. Rank(Top) # 2 /\ Top.fn \notin Hot \cup {"message_done"} /\ stack \in Seq(Frame)
    BY <1>1, Ranks DEF TypeOK, Hot, Decoders
  <1>3. StillMove
    BY AsideMove
  <1>4. Top.fn = "xio_open_returned" => Top.ret = 0
    BY <1>1, <1>2, RunsFreely DEF Succeeding, Awaiting
  <1>5. /\ UNCHANGED <<stream_buffer, fragment_buffer, fragmented_frame_type, session>>
        /\ uws_state' = uws_state \/ uws_state' \in {"CLOSED", "CLOSING_UNDERLYING_IO"}
    BY <1>1, <1>4
       DEF Aside, indicate_ws_open_complete_error, indicate_ws_close_complete, clear_pending_sends,
           call_on_ws_close_complete, set_closed, xio_open_returned, uws_client_open_async,
           on_underlying_io_open_complete, upgrade_request_sent, answer_sent, close_or_error, close_or_complete,
           on_underlying_io_close_sent, close_sent_closed, on_underlying_io_close_complete,
           on_underlying_io_error, uws_client_close_async, close_async_closed, uws_client_destroy,
           uws_client_send_frame_async, frame_sent, on_underlying_io_send_complete, uws_client_dowork,
           Buffers, Others, uwsVars, State
  <1>6. uws_state' = uws_state \/ uws_state' \notin Sound \cup {"OPENING_UNDERLYING_IO", "ERROR"}
    BY <1>5 DEF Sound
  <1>7. UNCHANGED <<script, received, delivered, ended>> /\ ~Is(Top, "user", "on_ws_error")
    BY <1>1 DEF sockVars, userVars, Is
  <1>8. uws_state' = uws_state => ~Failing
    <2>1. Failing => Top.fn = "open_complete_error"
      BY <1>1, <1>2 DEF Failing
    <2>2. Top.fn = "open_complete_error" => uws_state \in Opening /\ uws_state' = "CLOSED"
      <3>1. Top.fn = "open_complete_error" => uws_state' = "CLOSED"
        BY <1>1 DEF indicate_ws_open_complete_error, State
      <3>2. Top.fn = "open_complete_error" => OpenFails(stack)
        BY <1>1, <1>2, RunsInPlace
      <3> QED
        BY <3>1, <3>2 DEF OpenFails
    <2> QED
      BY <2>1, <2>2 DEF Opening
  <1>9. ASSUME uws_state' = uws_state, uws_state = "OPENING_UNDERLYING_IO", Upgrading' PROVE Upgrading
    <2>1. Top.fn \in {"open_complete_error", "on_io_open_complete", "upgrade_request_sent"}
      BY <1>1, <1>2, <1>9, OpeningRuns
    <2>2. Top.fn # "open_complete_error"
      BY <1>1, <1>9 DEF indicate_ws_open_complete_error, State
    <2>3. CASE Top.fn = "on_io_open_complete"
      <3>1. \/ Shut \/ Goto(<<Uws("open_complete_error")>>) \/ Top.arg = "OK"
        BY <1>1, <1>9, <2>3 DEF on_underlying_io_open_complete
      <3>2. CASE Shut
        <4> DEFINE m == xio_close("uws", "NULL")
        <4>1. m.fn = "close"
          BY MadeFrame DEF xio_close
        <4>2. Head(stack') = m
          BY <1>1, <1>2, <3>2, Goto2 DEF Shut, open_complete_error_and_close, Stack2, OnTop
        <4> QED
          BY <1>9, <4>1, <4>2 DEF Upgrading
      <3>3. CASE Goto(<<Uws("open_complete_error")>>)
        <4> DEFINE m == Uws("open_complete_error")
        <4>1. m.fn = "open_complete_error"
          BY DEF Uws, MkFrame
        <4>2. Head(stack') = m
          BY <1>1, <1>2, <3>3, Goto1 DEF Stack1, OnTop
        <4> QED
          BY <1>9, <4>1, <4>2 DEF Upgrading
      <3>4. CASE Top.arg = "OK"
        BY <1>1, <2>3, <3>4 DEF Upgrading
      <3> QED
        BY <3>1, <3>2, <3>3, <3>4
    <2> QED
      BY <1>1, <2>1, <2>2, <2>3 DEF Upgrading
  <1> QED
    BY <1>1, <1>2, <1>3, <1>5, <1>6, <1>7, <1>8, <1>9 DEF Still

-----------------------------------------------------------------------------
(* The user.                                                                *)

\* The user's callbacks touch nothing, except the one that is given a message.
LEMMA UserStill ==
    ASSUME TypeOK, Place(stack), (UserSteps /\ ~OnFrameReceived) \/ (ReturnStep /\ UNCHANGED userVars),
           UNCHANGED <<sockVars, uwsVars>>
    PROVE  Still
  <1>1. /\ UNCHANGED <<stream_buffer, fragment_buffer, fragmented_frame_type, script, received, session, uws_state>>
        /\ stack \in Seq(Frame)
    BY DEF sockVars, uwsVars, TypeOK
  <1>2. CASE UserSteps /\ ~OnFrameReceived
    <2>1. /\ stack # <<>> /\ Top.at = "user"
          /\ Top.fn \in {"returned", "on_ws_open_complete", "on_ws_send_frame_complete", "on_ws_error",
                         "on_ws_peer_closed", "on_ws_close_complete", "in_callback"}
          /\ Top.fn = "on_ws_error" => OnError
      BY <1>2 DEF UserSteps, Returned, OnOpenComplete, OnSendComplete, OnError, OnPeerClosed,
                  OnCloseComplete, CallbackReturns, Running, Top
    <2>2. Rank(Top) # 2 /\ Top.fn \notin Hot \cup {"message_done"}
      BY <2>1, Ranks DEF Hot
    <2>3. Pop \/ InCallback
      BY <1>2 DEF UserSteps, Returned, OnOpenComplete, OnSendComplete, OnError, OnPeerClosed,
                  OnCloseComplete, CallbackReturns
    <2>4. StillMove
      <3> DEFINE m == MkFrame("user", "in_callback", "", 0, <<>>)
      <3>1. Cool(m)
        BY TameFrames DEF Hot
      <3>2. Pop \/ Goto(<<m>>)
        BY <2>3 DEF InCallback
      <3> HIDE DEF m
      <3> QED
        BY <3>1, <3>2 DEF StillMove
    <2>5. delivered' = delivered /\ ended \subseteq ended'
      BY <1>2 DEF UserSteps, Returned, OnOpenComplete, OnSendComplete, OnError, OnPeerClosed,
                  OnCloseComplete, CallbackReturns, userVars
    <2>6. Is(Top, "user", "on_ws_error") => session \in ended'
      BY <2>1 DEF Is, OnError
    <2>7. ~Failing
      BY <2>1 DEF Failing
    <2>8. uws_state # "OPENING_UNDERLYING_IO"
      BY <1>1, <2>1, OpeningRuns
    <2> QED
      BY <1>1, <2>1, <2>2, <2>4, <2>5, <2>6, <2>7, <2>8 DEF Still
  <1>3. CASE ReturnStep /\ UNCHANGED userVars
    <2>1. stack # <<>> /\ Top.fn = "return" /\ Return(Top.ret)
      BY <1>3 DEF ReturnStep
    <2>2. Rank(Top) # 2 /\ Top.fn \notin Hot \cup {"message_done"}
      BY <2>1, Ranks DEF Hot, Decoders
    <2>3. StillMove
      BY <2>1 DEF StillMove
    <2>4. ~Failing /\ Upgrading
      BY <2>1 DEF Failing, Upgrading
    <2>5. UNCHANGED <<delivered, ended>> /\ ~Is(Top, "user", "on_ws_error")
      BY <1>3, <2>1 DEF userVars, Is
    <2> QED
      BY <1>1, <2>1, <2>2, <2>3, <2>4, <2>5 DEF Still
  <1> QED
    BY <1>2, <1>3

\* A call of the user leaves what is beneath it as it was.
LEMMA CallQuiet ==
    ASSUME stack \in Seq(Frame), stack' \in Seq(Frame), HotInv,
           stack = <<>> \/ Running("user", "in_callback"),
           NEW f, NEW a, NEW c, NEW n, Call(f, a, c, n), f \notin Decoders \cup {"message_done"}
    PROVE  /\ stack' # <<>> /\ Head(stack') = MkFrame("uws", f, a, n, <<>>)
           /\ Readers(stack') = Readers(stack) /\ DoneFirst(stack') /\ NoneHot(Tail(stack'))
           /\ HasDone(stack') <=> HasDone(stack)
  <1> DEFINE m == MkFrame("uws", f, a, n, <<>>)
             r == MkFrame("user", "returned", c, n, <<>>)
             t == IF stack = <<>> THEN <<>> ELSE <<[Top EXCEPT !.n = @ + 1]>> \o Tail(stack)
  <1>1. stack' = <<m, r>> \o t
    BY DEF Call
  <1>2. /\ Rank(m) # 2 /\ m.fn # "message_done"
        /\ Tame(r)
    <2>1. m.at = "uws" /\ m.fn = f
      BY MadeFrame
    <2>2. Tame(r)
      BY TameFrames DEF Hot
    <2> HIDE DEF m, r
    <2>3. Rank(m) # 2
      BY <2>1, Ranks
    <2> QED
      BY <2>1, <2>2, <2>3
  <1>3. /\ \E S : t \in Seq(S)
        /\ t \in Seq(Frame) => /\ Readers(t) = Readers(stack) /\ DoneFirst(t) /\ NoneHot(t)
                               /\ HasDone(t) <=> HasDone(stack)
    <2>1. CASE stack = <<>>
      <3>1. t = <<>>
        BY <2>1
      <3> HIDE DEF t
      <3>2. t \in Seq({})
        BY <3>1
      <3> QED
        BY <2>1, <3>1, <3>2, EmptyStack
    <2>2. CASE stack # <<>>
      <3> DEFINE g == [Top EXCEPT !.n = @ + 1]
      <3>1. Top.at = "user" /\ Top.fn = "in_callback"
        BY <2>2 DEF Running, Top
      <3>2. Top \in Frame /\ Beneath \in Seq(Frame)
        BY <2>2, RunningTop
      <3>3. g.at = "user" /\ g.fn = "in_callback"
        BY <3>1, <3>2 DEF Frame
      <3>4. t = <<g>> \o Beneath
        BY <2>2 DEF Beneath
      <3> HIDE DEF g, t
      <3>5. t # <<>> /\ Head(t) = g /\ Tail(t) = Beneath /\ t \in Seq(Frame \cup {g})
        BY <3>2, <3>4, ConsOnTop DEF OnTop
      <3>6. Tame(g)
        BY <3>3, Ranks DEF Tame, Hot
      <3>7. Rank(Top) # 2 /\ Top.fn # "message_done"
        BY <3>1, Ranks
      <3>8. /\ Readers(Beneath) = Readers(stack) /\ DoneFirst(Beneath) /\ NoneHot(Beneath)
            /\ HasDone(Beneath) <=> HasDone(stack)
        BY <2>2, <3>7, BeneathQuiet
      <3>9. ASSUME t \in Seq(Frame)
            PROVE  /\ Readers(t) = Readers(stack) /\ DoneFirst(t) /\ NoneHot(t)
                   /\ HasDone(t) <=> HasDone(stack)
        BY <3>5, <3>6, <3>8, <3>9, CoolOnTop DEF Cool
      <3> QED
        BY <3>5, <3>9
    <2> QED
      BY <2>1, <2>2
  <1> HIDE DEF t, m, r
  <1>4. stack' # <<>> /\ Head(stack') = m /\ Tail(stack') # <<>> /\ Head(Tail(stack')) = r /\ Tail(Tail(stack')) = t
    <2>1. PICK S : t \in Seq(S)
      BY <1>3
    <2>2. Stack2(stack', m, r, t)
      BY <1>1, <2>1, StackTwo
    <2>3. OnTop(stack', m, Tail(stack')) /\ OnTop(Tail(stack'), r, t)
      BY <2>2 DEF Stack2
    <2> QED
      BY <2>3 DEF OnTop
  <1>5. Tail(stack') \in Seq(Frame)
    BY <1>4, TailParts
  <1>6. t \in Seq(Frame)
    BY <1>4, <1>5, TailParts
  <1>7. /\ Readers(Tail(stack')) = Readers(stack) /\ DoneFirst(Tail(stack')) /\ NoneHot(Tail(stack'))
        /\ HasDone(Tail(stack')) <=> HasDone(stack)
    BY <1>2, <1>3, <1>4, <1>5, <1>6, CoolOnTop DEF Cool
  <1>8. /\ Readers(stack') = Readers(Tail(stack'))
        /\ HasDone(stack') <=> HasDone(Tail(stack'))
        /\ DoneFirst(stack') <=> DoneFirst(Tail(stack'))
    BY <1>2, <1>4, FrontFrame
  <1> QED
    BY <1>4, <1>7, <1>8 DEF m

\* The user calls when nothing is going on.
LEMMA CallsAtRest ==
    ASSUME stack \in Seq(Frame), Place(stack), stack = <<>> \/ Running("user", "in_callback")
    PROVE  /\ Settled /\ ~Failing /\ Arriving = <<>>
           /\ stack # <<>> => ~Is(Top, "user", "on_ws_error") /\ ~Is(Top, "user", "on_ws_frame_received")
           /\ Passed = delivered[session]
  <1>1. CASE stack = <<>>
    BY <1>1 DEF Place, Usual, Called, Opens, OpensSending, OpenFails, OpenTold, Sending, Decodes, Closes,
                Failing, Arriving, Passed
  <1>2. CASE stack # <<>>
    <2>1. Top.at = "user" /\ Top.fn = "in_callback"
      BY <1>2 DEF Running, Top
    <2>2. Settled
      BY <1>2, <2>1, RunsFreely DEF AtRest
    <2> QED
      BY <2>1, <2>2 DEF Failing, Arriving, Passed, Is
  <1> QED
    BY <1>1, <1>2

\* A call of the user only adds a frame above the readers.
LEMMA CalledTracks ==
    ASSUME TypeOK, Place(stack), Tracking,
           UNCHANGED <<script, received, stream_buffer, fragment_buffer, fragmented_frame_type, session, uws_state,
                       delivered, ended>>,
           stack = <<>> \/ Running("user", "in_callback"),
           stack' # <<>>, Head(stack').at = "uws", Head(stack').fn \in Api \cup {"uws_client_dowork"},
           Readers(stack') = Readers(stack), DoneFirst(stack'), NoneHot(Tail(stack')),
           HasDone(stack') <=> HasDone(stack),
           Polite /\ Head(stack').fn = "uws_client_close_handshake_async" => uws_state \notin Opening \cup {"ERROR"}
    PROVE  Tracking'
  <1>1. /\ Settled /\ ~Failing /\ Arriving = <<>>
        /\ stack # <<>> => ~Is(Top, "user", "on_ws_error")
        /\ Passed = delivered[session]
    BY CallsAtRest DEF TypeOK
  <1>2. uws_state # "OPENING_UNDERLYING_IO" /\ uws_state' = uws_state
    BY <1>1 DEF Settled
  <1>3. /\ Head(stack').fn \notin Decoders /\ Head(stack').at # "user"
        /\ Head(stack').fn \notin {"on_ws_frame_received", "indicate_ws_error_and_close"}
    BY DEF Api, Decoders
  <1>4. Arriving' = <<>> /\ Passed' = delivered'[session']
    BY <1>3 DEF Arriving, Passed, Top, Is, Decoders
  <1>5. Reading' => Reading
    BY <1>1 DEF Reading
  <1>6. AlignInv'
    BY <1>1, <1>2, <1>4, <1>5, AlignSame DEF Tracking
  <1>7. HotInv'
    BY <1>3 DEF HotInv, Beneath, Top
  <1>8. PoliteInv'
    <2>1. uws_state' = "ERROR" => session' \in ended'
      BY <1>1, <1>2 DEF Tracking, PoliteInv
    <2>2. Polite /\ Is(Head(stack'), "uws", "uws_client_close_handshake_async") => uws_state' \notin Opening \cup {"ERROR"}
      BY <1>2 DEF Is
    <2> QED
      BY <2>1, <2>2 DEF PoliteInv, Top, Polite
  <1>9. ASSUME Exact PROVE FoldInv'
    <2>1. FoldInv
      BY <1>9 DEF Tracking
    <2>2. Head(stack').fn \notin {"decode_frame", "frame", "on_ws_frame_received"}
      BY <1>3 DEF Decoders
    <2>3. \A s \in Sessions : s > session => delivered'[s] = delivered[s]
      OBVIOUS
    <2>4. Passed' = Passed /\ delivered'[session] = delivered[session]
      BY <1>1, <1>4
    <2>5. script \in Seq(Unit)
      BY DEF TypeOK, SockTypeOK
    <2> QED
      BY <1>1, <1>2, <1>4, <1>5, <2>1, <2>2, <2>3, <2>4, <2>5, FoldSame
  <1> QED
    BY <1>6, <1>7, <1>8, <1>9 DEF Tracking, Exact, Polite

\* Whatever the user calls, from outside or from a callback, all is kept.
LEMMA UserCallTracks ==
    ASSUME TypeOK, TypeOK', Place(stack), Tracking, UserCalls, UNCHANGED <<sockVars, uwsVars>>
    PROVE  Tracking'
  <1>1. UNCHANGED <<script, received, stream_buffer, fragment_buffer, fragmented_frame_type, session, uws_state>>
    BY DEF sockVars, uwsVars
  <1>2. UNCHANGED <<delivered, ended>>
    BY DEF UserCalls, CallOpen, CallClose, CallCloseNull, CallSend, CallDowork, CallDestroy, userVars
  <1>3. ASSUME NEW c, MayCall(c)
        PROVE  /\ stack = <<>> \/ Running("user", "in_callback")
               /\ c \in {"dowork", "destroy"} => stack = <<>>
               /\ c \in Calls \cup ReentrantCalls
    BY <1>3, BoundsAssumption DEF MayCall
  <1>4. stack \in Seq(Frame) /\ stack' \in Seq(Frame) /\ HotInv
    BY DEF TypeOK, Tracking
  <1>5. ASSUME NEW f \in Api, NEW a, NEW c, NEW n, Call(f, a, c, n),
               stack = <<>> \/ Running("user", "in_callback"),
               Polite /\ f = "uws_client_close_handshake_async" => uws_state \notin Opening \cup {"ERROR"}
        PROVE  Tracking'
    <2> DEFINE m == MkFrame("uws", f, a, n, <<>>)
    <2>1. m.at = "uws" /\ m.fn = f
      BY MadeFrame
    <2>2. f \notin Decoders \cup {"message_done"}
      BY DEF Api, Decoders
    <2> HIDE DEF m
    <2>3. /\ stack' # <<>> /\ Head(stack') = m
          /\ Readers(stack') = Readers(stack) /\ DoneFirst(stack') /\ NoneHot(Tail(stack'))
          /\ HasDone(stack') <=> HasDone(stack)
      BY <1>4, <1>5, <2>2, CallQuiet DEF m
    <2>4. Head(stack').at = "uws" /\ Head(stack').fn = f /\ Head(stack').fn \in Api \cup {"uws_client_dowork"}
      BY <2>1, <2>3
    <2> QED
      BY <1>1, <1>2, <1>5, <2>3, <2>4, CalledTracks
  <1>6. CASE CallOpen
    <2>1. \E n : Call("uws_client_open_async", "", "open", n)
      BY <1>6 DEF CallOpen
    <2>2. stack = <<>> \/ Running("user", "in_callback")
      BY <1>3, <1>6 DEF CallOpen
    <2> QED
      BY <1>5, <2>1, <2>2 DEF Api
  <1>7. CASE CallCloseNull
    <2>1. stack = <<>> \/ Running("user", "in_callback")
      BY <1>3, <1>7 DEF CallCloseNull
    <2> QED
      BY <1>5, <1>7, <2>1 DEF CallCloseNull, Api
  <1>8. CASE CallClose
    <2>1. CASE Call("uws_client_close_async", "cb", "close", session)
      <3>1. stack = <<>> \/ Running("user", "in_callback")
        BY <1>3, <1>8 DEF CallClose
      <3> QED
        BY <1>5, <2>1, <3>1 DEF Api
    <2>2. CASE /\ MayCall("handshake_any_time") \/ (MayCall("handshake") /\ IsOpen)
               /\ Call("uws_client_close_handshake_async", "cb", "close", session)
      <3>1. stack = <<>> \/ Running("user", "in_callback")
        BY <1>3, <2>2
      <3>2. ASSUME Polite PROVE uws_state \notin Opening \cup {"ERROR"}
        <4>1. IsOpen
          BY <1>3, <2>2, <3>2 DEF Polite
        <4>2. /\ Settled
              /\ stack # <<>> => ~Is(Top, "user", "on_ws_error")
          BY <1>4, <3>1, CallsAtRest
        <4>3. uws_state # "ERROR"
          BY <4>1, <4>2 DEF Tracking, PoliteInv, IsOpen
        <4> QED
          BY <4>1, <4>2, <4>3 DEF IsOpen, Settled, Opening
      <3> QED
        BY <1>5, <2>2, <3>1, <3>2 DEF Api
    <2> QED
      BY <1>8, <2>1, <2>2 DEF CallClose
  <1>9. CASE CallSend
    <2>1. \E n : Call("uws_client_send_frame_async", "", "send", n)
      BY <1>9 DEF CallSend
    <2>2. stack = <<>> \/ Running("user", "in_callback")
      BY <1>3, <1>9 DEF CallSend
    <2> QED
      BY <1>5, <2>1, <2>2 DEF Api
  <1>10. CASE CallDowork \/ CallDestroy
    <2>1. PICK f \in {"uws_client_dowork", "uws_client_destroy"} : stack' = <<MkFrame("uws", f, "", 0, <<>>)>>
      BY <1>10 DEF CallDowork, CallDestroy
    <2>2. stack = <<>>
      BY <1>3, <1>10 DEF CallDowork, CallDestroy
    <2> DEFINE m == MkFrame("uws", f, "", 0, <<>>)
    <2>3. m.at = "uws" /\ m.fn = f
      BY DEF MkFrame
    <2> HIDE DEF m
    <2>4. stack' # <<>> /\ Head(stack') = m /\ Tail(stack') = <<>>
      BY <2>1, OneFrame DEF m
    <2>5. Tame(m)
      BY <2>3, Ranks DEF Tame, Decoders, Hot
    <2>6. /\ Readers(stack') = Readers(stack) /\ DoneFirst(stack') /\ NoneHot(Tail(stack'))
          /\ HasDone(stack') <=> HasDone(stack)
      BY <1>4, <2>2, <2>4, <2>5, CoolOnTop, EmptyStack DEF Cool
    <2>7. Head(stack').at = "uws" /\ Head(stack').fn \in Api \cup {"uws_client_dowork"}
          /\ Head(stack').fn # "uws_client_close_handshake_async"
      BY <2>3, <2>4 DEF Api
    <2> QED
      BY <1>1, <1>2, <2>2, <2>4, <2>6, <2>7, CalledTracks
  <1> QED
    BY <1>6, <1>7, <1>8, <1>9, <1>10 DEF UserCalls

-----------------------------------------------------------------------------
(* The stack of a reader.                                                   *)

\* the readers of a stack that nothing is hot or done in
Holding(s, readers) == Readers(s) = readers /\ NoneHot(s) /\ ~HasDone(s) /\ DoneFirst(s)

\* Beneath a running reader nobody reads (StreamInv).
LEMMA BareBeneath ==
    ASSUME stack \in Seq(Frame), stack # <<>>, StreamInv, HotInv, Rank(Top) \in {1, 2}
    PROVE  /\ Holding(Beneath, {}) /\ Beneath \in Seq(Frame)
           /\ Readers(stack) = (IF Rank(Top) = 2 THEN {View(Top)} ELSE {}) /\ ~HasDone(stack)
  <1>1. Head(stack) = Top /\ Tail(stack) = Beneath /\ Beneath \in Seq(Frame)
    BY RunningTop DEF Top, Beneath
  <1>2. Under(Beneath, Rank(Top))
    <2>1. OneReader(stack) <=> OneReader(Tail(stack)) /\ (Rank(Head(stack)) > 0 => Under(Tail(stack), Rank(Head(stack))))
      BY FirstFrame
    <2>2. OneReader(stack) /\ Rank(Head(stack)) > 0
      BY <1>1 DEF StreamInv
    <2> QED
      BY <1>1, <2>1, <2>2
  <1>3. \A f \in Frames(Beneath) : Rank(f) # 2
    BY <1>2, Ranks DEF Under
  <1>4. Readers(Beneath) = {}
    BY <1>3 DEF Readers
  <1>5. NoneHot(Beneath) /\ DoneFirst(Beneath)
    BY <1>1, FrontFrame DEF HotInv
  <1>6. ~HasDone(Beneath)
    <2>1. ASSUME HasDone(Beneath) PROVE FALSE
      <3>1. PICK i \in DOMAIN Beneath : Beneath[i].fn = "message_done"
        BY <2>1 DEF HasDone, Frames
      <3>2. PICK j \in DOMAIN Beneath : Rank(Beneath[j]) = 2
        BY <1>5, <3>1 DEF DoneFirst
      <3> QED
        BY <1>3, <3>2 DEF Frames
    <2> QED
      BY <2>1
  <1>7. Top.fn # "message_done"
    BY Ranks DEF Decoders, Is
  <1>8. /\ Rank(Top) = 2 => Readers(stack) = {} \cup {View(Top)}
        /\ Rank(Top) # 2 => Readers(stack) = {}
        /\ ~HasDone(stack)
    BY <1>1, <1>4, <1>6, <1>7, FrontFrame
  <1> QED
    BY <1>1, <1>4, <1>5, <1>6, <1>8 DEF Holding

\* the running frame, on what waits
LEMMA FrameOn ==
    ASSUME NEW u \in Seq(Frame), u # <<>>, NEW r, Holding(Tail(u), r), Head(u).fn # "message_done"
    PROVE  /\ Rank(Head(u)) = 2 => Readers(u) = r \cup {View(Head(u))}
           /\ Rank(Head(u)) # 2 => Readers(u) = r
           /\ ~HasDone(u) /\ DoneFirst(u) /\ NoneHot(Tail(u))
           /\ Head(u).fn \notin Hot => NoneHot(u)
  BY FrontFrame DEF Holding

\* the readers that a frame adds
Reader(f) == IF Rank(f) = 2 THEN {View(f)} ELSE {}

\* what a reader leaves behind when it returns
LEMMA ReadZero ==
    ASSUME stack \in Seq(Frame), stack # <<>>, Holding(Beneath, {}), Pop \/ Goto(<<>>)
    PROVE  /\ stack' = Beneath /\ Readers(stack') = {} /\ ~HasDone(stack') /\ DoneFirst(stack')
           /\ stack' # <<>> => NoneHot(Tail(stack')) /\ Head(stack').fn \notin Hot
  <1>1. stack' = Beneath /\ Beneath \in Seq(Frame)
    BY Goto0, RunningTop
  <1>2. Beneath # <<>> => NoneHot(Tail(Beneath)) /\ Head(Beneath).fn \notin Hot
    BY <1>1, FrontFrame DEF Holding
  <1> QED
    BY <1>1, <1>2 DEF Holding

\* ... when it calls one function and is done,
LEMMA ReadOne ==
    ASSUME stack \in Seq(Frame), stack' \in Seq(Frame), stack # <<>>, Holding(Beneath, {}),
           NEW a, Goto(<<a>>), a.fn # "message_done"
    PROVE  /\ stack' # <<>> /\ Head(stack') = a
           /\ Readers(stack') = Reader(a) /\ ~HasDone(stack') /\ DoneFirst(stack') /\ NoneHot(Tail(stack'))
  <1>1. stack' # <<>> /\ Head(stack') = a /\ Tail(stack') = Beneath
    BY Goto1 DEF Stack1, OnTop
  <1>2. Holding(Tail(stack'), {}) /\ Head(stack').fn # "message_done"
    BY <1>1
  <1>3. /\ Rank(a) = 2 => Readers(stack') = {} \cup {View(a)}
        /\ Rank(a) # 2 => Readers(stack') = {}
        /\ ~HasDone(stack') /\ DoneFirst(stack') /\ NoneHot(Tail(stack'))
    BY <1>1, <1>2, FrameOn
  <1> QED
    BY <1>1, <1>3 DEF Reader

\* ... when it calls one and continues,
LEMMA ReadTwo ==
    ASSUME stack \in Seq(Frame), stack' \in Seq(Frame), stack # <<>>, Holding(Beneath, {}),
           NEW a, NEW b, Goto(<<a, b>>), a.fn # "message_done", Rank(a) # 2, b.fn \notin Hot \cup {"message_done"}
    PROVE  /\ stack' # <<>> /\ Head(stack') = a
           /\ Readers(stack') = Reader(b) /\ ~HasDone(stack') /\ DoneFirst(stack') /\ NoneHot(Tail(stack'))
  <1> DEFINE u == Tail(stack')
  <1>1. stack' # <<>> /\ Head(stack') = a /\ u # <<>> /\ Head(u) = b /\ Tail(u) = Beneath
    BY Goto2 DEF Stack2, OnTop
  <1>2. u \in Seq(Frame)
    BY <1>1, TailParts
  <1> HIDE DEF u
  <1>3. Holding(Tail(u), {}) /\ Head(u).fn # "message_done"
    BY <1>1
  <1>4. /\ Rank(b) = 2 => Readers(u) = {} \cup {View(b)}
        /\ Rank(b) # 2 => Readers(u) = {}
        /\ ~HasDone(u) /\ DoneFirst(u) /\ NoneHot(u)
    BY <1>1, <1>2, <1>3, FrameOn
  <1>5. Holding(Tail(stack'), Reader(b))
    BY <1>4 DEF Holding, Reader, u
  <1> QED
    BY <1>1, <1>5, FrameOn

\* ... when it calls one, and finishes a message before it continues,
LEMMA ReadThree ==
    ASSUME stack \in Seq(Frame), stack' \in Seq(Frame), stack # <<>>, Holding(Beneath, {}),
           NEW a, NEW b, NEW c, Goto(<<a, b, c>>), a.fn # "message_done", Rank(a) # 2,
           b.fn \notin Hot, Rank(b) # 2, c.fn \notin Hot \cup {"message_done"},
           b.fn = "message_done" => Rank(c) = 2 /\ c.fn = "consume_stream_buffer_bytes"
    PROVE  /\ stack' # <<>> /\ Head(stack') = a
           /\ Readers(stack') = Reader(c) /\ DoneFirst(stack') /\ NoneHot(Tail(stack'))
           /\ HasDone(stack') <=> b.fn = "message_done"
  <1> DEFINE u == Tail(stack')
             w == Tail(u)
  <1>1. /\ stack' # <<>> /\ Head(stack') = a /\ u # <<>> /\ Head(u) = b
        /\ w # <<>> /\ Head(w) = c /\ Tail(w) = Beneath
    BY Goto3 DEF Stack3, Stack2, OnTop
  <1>2. u \in Seq(Frame) /\ w \in Seq(Frame)
    BY <1>1, TailParts
  <1> HIDE DEF u, w
  <1>3. Holding(Tail(w), {}) /\ Head(w).fn # "message_done"
    BY <1>1
  <1>4. /\ Rank(c) = 2 => Readers(w) = {} \cup {View(c)}
        /\ Rank(c) # 2 => Readers(w) = {}
        /\ ~HasDone(w) /\ DoneFirst(w) /\ NoneHot(w)
    BY <1>1, <1>2, <1>3, FrameOn
  <1>5. Readers(w) = Reader(c)
    BY <1>4 DEF Reader
  <1>6. b.fn = "message_done" => Consuming(w)
    BY <1>5, ViewParts DEF Consuming, Reader
  <1>7. /\ Readers(u) = Reader(c) /\ DoneFirst(u) /\ NoneHot(u)
        /\ HasDone(u) <=> b.fn = "message_done"
    BY <1>1, <1>2, <1>4, <1>5, <1>6, FrontFrame DEF w
  <1>8. /\ Readers(stack') = Readers(u)
        /\ DoneFirst(stack') <=> DoneFirst(u)
        /\ HasDone(stack') <=> HasDone(u)
    BY <1>1, FrontFrame DEF u
  <1> QED
    BY <1>1, <1>7, <1>8 DEF u

\* ... and when it starts to close the connection.
LEMMA ReadFour ==
    ASSUME stack \in Seq(Frame), stack' \in Seq(Frame), stack # <<>>, Holding(Beneath, {}),
           NEW a, NEW b, NEW c, NEW d, Goto(<<a, b, c, d>>), Tame(a), Tame(b), Tame(c),
           d.fn \notin Hot \cup {"message_done"}
    PROVE  stack' # <<>> /\ Head(stack') = a /\ DoneFirst(stack') /\ NoneHot(Tail(stack'))
  <1> DEFINE u == Tail(stack')
             w == Tail(u)
             x == Tail(w)
  <1>1. /\ stack' # <<>> /\ Head(stack') = a /\ u # <<>> /\ Head(u) = b
        /\ w # <<>> /\ Head(w) = c /\ x # <<>> /\ Head(x) = d /\ Tail(x) = Beneath
    BY Goto4 DEF Stack4, Stack3, Stack2, OnTop
  <1>2. u \in Seq(Frame) /\ w \in Seq(Frame) /\ x \in Seq(Frame)
    BY <1>1, TailParts
  <1> HIDE DEF u, w, x
  <1>3. Holding(Tail(x), {}) /\ Head(x).fn # "message_done"
    BY <1>1
  <1>4. NoneHot(x) /\ DoneFirst(x)
    BY <1>1, <1>2, <1>3, FrameOn
  <1>5. NoneHot(w) /\ DoneFirst(w)
    BY <1>1, <1>2, <1>4, CoolOnTop DEF Cool, x
  <1>6. NoneHot(u) /\ DoneFirst(u)
    BY <1>1, <1>2, <1>5, CoolOnTop DEF Cool, w
  <1> QED
    BY <1>1, <1>6, CoolOnTop DEF Cool, u

-----------------------------------------------------------------------------
(* What a step of a reader leaves.                                          *)

\* There is nothing more to be said of the stream.
LEMMA DeadTracks ==
    ASSUME Tracking, UNCHANGED <<script, session, delivered, ended>>,
           ~Reading', uws_state' # "OPENING_UNDERLYING_IO", DoneFirst(stack'),
           stack' # <<>> =>
             /\ NoneHot(Tail(stack'))
             /\ Head(stack').fn \notin {"indicate_ws_error_and_close", "uws_client_close_handshake_async"}
             /\ Head(stack').fn \in {"decode_frame", "frame", "on_ws_frame_received"} => uws_state' \in Decoding,
           uws_state' = "ERROR" => \/ uws_state = "ERROR" /\ ~Is(Top, "user", "on_ws_error")
                                   \/ stack' # <<>> /\ Is(Head(stack'), "user", "on_ws_error")
    PROVE  Tracking'
  <1>1. AlignInv'
    BY AlignDead DEF Tracking
  <1>2. HotInv'
    BY DEF HotInv, Beneath, Top
  <1>3. PoliteInv'
    BY DEF Tracking, PoliteInv, Top, Is
  <1>4. FoldInv => FoldInv'
    BY DEF FoldInv, MessagesAsSent, Top
  <1> QED
    BY <1>1, <1>2, <1>3, <1>4 DEF Tracking, Exact, Polite

\* what to show of a step that moves along the script
LEMMA FoldKept ==
    ASSUME FoldInv, UNCHANGED <<script, session, delivered>>, uws_state' # "OPENING_UNDERLYING_IO",
           stack' # <<>> /\ Head(stack').fn \in {"decode_frame", "frame", "on_ws_frame_received"} =>
             uws_state' \in Decoding,
           Reading' => Consumed' + Due' \in 0 .. Len(script) /\ Reached(Assembled(script)[Consumed + Due])'
    PROVE  FoldInv'
  <1>1. Reading' => (Consumed + Due \in 0 .. Len(script) /\ Reached(Assembled(script)[Consumed + Due]))'
    OBVIOUS
  <1> QED
    BY <1>1 DEF FoldInv, MessagesAsSent, Top

\* A step of a reader that leaves the buffer alone.
LEMMA AlignInPlace ==
    ASSUME AlignInv, UNCHANGED <<script, received, stream_buffer, uws_state>>, uws_state # "OPENING_UNDERLYING_IO",
           Arriving = <<>>, Arriving' = <<>>, Reading' => Reading,
           Reading => /\ \A r \in Readers(stack') : Suits(r)
                      /\ NoControl /\ uws_state = "OPEN" /\ Readers(stack') = {} => NoneWhole
    PROVE  AlignInv' /\ Consumed' = Consumed
  <1>1. Framed(script') /\ Consumed' = Consumed
    BY DEF AlignInv, Consumed
  <1>2. ASSUME Reading'
        PROVE  /\ Aligned' /\ Boundary(Consumed)'
               /\ \A r \in Readers(stack)' : Suits(r)'
               /\ NoControl /\ uws_state' = "OPEN" /\ Readers(stack)' = {} => NoneWhole'
    <2>1. /\ Aligned /\ Boundary(Consumed)
          /\ \A r \in Readers(stack') : Suits(r)
          /\ NoControl /\ uws_state = "OPEN" /\ Readers(stack') = {} => NoneWhole
      BY <1>2 DEF AlignInv
    <2>2. Aligned'
      BY <1>1, <2>1 DEF Aligned
    <2>3. Boundary(Consumed)'
      BY <1>1, <2>1 DEF Boundary
    <2>4. ASSUME NEW r \in Readers(stack') PROVE Suits(r)'
      <3>1. Suits(r)
        BY <2>1
      <3> QED
        BY <3>1 DEF Suits
    <2>5. NoControl /\ uws_state' = "OPEN" /\ Readers(stack)' = {} => NoneWhole'
      BY <2>1 DEF NoneWhole
    <2> QED
      BY <2>2, <2>3, <2>4, <2>5
  <1> QED
    BY <1>1, <1>2 DEF AlignInv

\* The stream has been dealt with; the rest.
LEMMA LiveTracks ==
    ASSUME Tracking, UNCHANGED <<script, session, delivered, ended>>, AlignInv',
           uws_state' # "OPENING_UNDERLYING_IO", DoneFirst(stack'),
           stack' # <<>> =>
             /\ NoneHot(Tail(stack'))
             /\ Head(stack').fn \notin {"indicate_ws_error_and_close", "uws_client_close_handshake_async"}
             /\ Exact /\ Head(stack').fn \in {"decode_frame", "frame", "on_ws_frame_received"} => uws_state' \in Decoding,
           uws_state' = "ERROR" => uws_state = "ERROR" /\ ~Is(Top, "user", "on_ws_error"),
           Exact /\ Reading' => Consumed' + Due' \in 0 .. Len(script) /\ Reached(Assembled(script)[Consumed + Due])'
    PROVE  Tracking'
  <1>1. HotInv'
    BY DEF HotInv, Beneath, Top
  <1>2. PoliteInv'
    BY DEF Tracking, PoliteInv, Top, Is
  <1>3. Exact => FoldInv'
    BY FoldKept DEF Tracking
  <1> QED
    BY <1>1, <1>2, <1>3 DEF Tracking, Exact, Polite

\* what is known where a frame is decoded
LEMMA ReaderFacts ==
    ASSUME TypeOK, Place(stack), StreamInv, Tracking, stack # <<>>, Top.at = "uws", Top.fn \in Decoders
    PROVE  /\ Rank(Top) = 2 /\ stack \in Seq(Frame) /\ script \in Seq(Unit) /\ Top \in Frame
           /\ Holding(Beneath, {}) /\ Readers(stack) = {View(Top)} /\ ~HasDone(stack)
           /\ uws_state # "OPENING_UNDERLYING_IO" /\ ~Failing
           /\ Reading <=> uws_state \in Sound
           /\ ~Is(Top, "user", "on_ws_error") /\ Passed = delivered[session]
           /\ Due = IF Top.fn = "consume_stream_buffer_bytes" THEN needed_bytes(Head(stream_buffer)) ELSE 0
           /\ Top.fn # "on_bytes_received" => Arriving = <<>>
           /\ Reading => /\ Aligned /\ Boundary(Consumed) /\ Suits(View(Top))
           /\ Exact /\ Reading => /\ Consumed + Due \in 0 .. Len(script)
                                  /\ Reached(Assembled(script)[Consumed + Due]) /\ Noticed(script)
  <1>1. stack \in Seq(Frame) /\ script \in Seq(Unit) /\ Rank(Top) = 2 /\ Top \in Frame
    BY Ranks, TopType DEF TypeOK, SockTypeOK
  <1>2. Holding(Beneath, {}) /\ Readers(stack) = {View(Top)} /\ ~HasDone(stack)
    BY <1>1, BareBeneath DEF Tracking
  <1>3. Settled
    <2>1. Top.fn \in Free \cup {"decode_frame", "frame"}
      BY DEF Decoders, Free
    <2>2. Top.fn \in Free => AtRest
      BY <1>1, RunsFreely
    <2>3. Top.fn = "decode_frame" => AtRest
      BY <1>1, RunsFreely DEF Is
    <2>4. Top.fn = "frame" => Decodes(stack)
      BY <1>1, RunsInPlace
    <2> QED
      BY <2>1, <2>2, <2>3, <2>4 DEF AtRest, Decodes
  <1>4. ~Failing
    BY DEF Failing, Decoders
  <1>5. ~Is(Top, "user", "on_ws_error") /\ Passed = delivered[session]
    BY DEF Is, Passed
  <1>6. Due = IF Top.fn = "consume_stream_buffer_bytes" THEN needed_bytes(Head(stream_buffer)) ELSE 0
    BY <1>2, ViewParts DEF Due, Consuming
  <1>7. Top.fn # "on_bytes_received" => Arriving = <<>>
    BY DEF Arriving
  <1>8. Reading => Aligned /\ Boundary(Consumed) /\ Suits(View(Top))
    BY <1>2 DEF Tracking, AlignInv
  <1>9. Exact /\ Reading => /\ Consumed + Due \in 0 .. Len(script)
                            /\ Reached(Assembled(script)[Consumed + Due]) /\ Noticed(script)
    BY DEF Tracking, FoldInv
  <1> QED
    BY <1>1, <1>2, <1>3, <1>4, <1>5, <1>6, <1>7, <1>8, <1>9 DEF Settled, Reading

-----------------------------------------------------------------------------
(* From the socket to the buffer.                                           *)

\* what is received next is a part of the script
LEMMA UnreadIs ==
    ASSUME script \in Seq(Unit), received \in Nat, received <= Len(script), NEW k \in 1 .. Len(Unread)
    PROVE  LET d == SubSeq(Unread, 1, k)
           IN  /\ d \in Seq(Unit) /\ Len(d) = k /\ received + k <= Len(script) /\ k \in Nat
               /\ \A i \in 1 .. k : d[i] = script[received + i]
  <1>1. /\ Len(Unread) = Len(script) - received /\ Unread \in Seq(Unit)
        /\ \A i \in 1 .. Len(Unread) : Unread[i] = script[received + i]
    BY DEF Unread
  <1> HIDE DEF Unread
  <1>2. /\ SubSeq(Unread, 1, k) \in Seq(Unit) /\ Len(SubSeq(Unread, 1, k)) = k
        /\ \A i \in 1 .. k : SubSeq(Unread, 1, k)[i] = Unread[i]
    BY <1>1
  <1> QED
    BY <1>1, <1>2

\* socketio_dowork receives: what arrives is the next piece of the script.
LEMMA ReceiveTracks ==
    ASSUME SocketClient, TypeOK, TypeOK', Place(stack), StreamInv, Tracking,
           socketio_dowork_receive, UNCHANGED <<uwsVars, userVars>>
    PROVE  Tracking'
  <1>1. stack # <<>> /\ Top.at = "socket" /\ Top.fn = "dowork_receive"
    BY DEF socketio_dowork_receive, Running, Top
  <1>2. stack \in Seq(Frame) /\ stack' \in Seq(Frame) /\ script \in Seq(Unit) /\ received \in Nat
        /\ stream_buffer \in Seq(Unit)
    BY DEF TypeOK, SockTypeOK, UwsTypeOK
  <1>3. Rank(Top) = 1
    BY <1>1, Ranks
  <1>4. Holding(Beneath, {}) /\ Readers(stack) = {} /\ ~HasDone(stack)
    BY <1>1, <1>2, <1>3, BareBeneath DEF Tracking
  <1>5. uws_state # "OPENING_UNDERLYING_IO"
    BY <1>1, <1>2, RunsFreely DEF Loops, AtRest, Settled
  <1>6. UNCHANGED <<script, session, delivered, ended, uws_state, stream_buffer, fragment_buffer, fragmented_frame_type>>
    BY DEF socketio_dowork_receive, uwsVars, userVars
  <1>7. PICK k \in 1 .. Len(Unread) :
          /\ received' = received + k
          /\ Goto(<<on_bytes_received("socket", SubSeq(Unread, 1, k)), dowork_receiving>>)
    BY DEF socketio_dowork_receive
  <1> DEFINE d == SubSeq(Unread, 1, k)
             a == on_bytes_received("socket", d)
             b == dowork_receiving
  <1>8. a.at = "uws" /\ a.fn = "on_bytes_received" /\ a.data = d
        /\ b.at = "socket" /\ b.fn = "dowork_receive"
    BY Neighbours DEF on_bytes_received, dowork_receiving, MkFrame
  <1>9. Goto(<<a, b>>)
    BY <1>7
  <1>10. received <= Len(script) => /\ d \in Seq(Unit) /\ Len(d) = k /\ received + k <= Len(script) /\ k \in Nat
                                    /\ \A i \in 1 .. k : d[i] = script[received + i]
    BY <1>2, UnreadIs
  <1> HIDE DEF d, a, b
  <1> DEFINE u == Tail(stack')
  <1>11. stack' # <<>> /\ Head(stack') = a /\ u # <<>> /\ Head(u) = b /\ Tail(u) = Beneath
    BY <1>1, <1>2, <1>9, Goto2 DEF Stack2, OnTop
  <1>12. u \in Seq(Frame) /\ Rank(a) = 2 /\ Rank(b) # 2
    BY <1>2, <1>8, <1>11, TailParts, Ranks DEF Decoders
  <1> HIDE DEF u
  <1>13. Holding(u, {})
    <2>1. Holding(Tail(u), {}) /\ Head(u).fn # "message_done" /\ Head(u).fn \notin Hot /\ Rank(Head(u)) # 2
      BY <1>4, <1>8, <1>11, <1>12 DEF Hot
    <2> QED
      BY <1>11, <1>12, <2>1, FrameOn DEF Holding
  <1>14. Readers(stack') = {View(a)} /\ ~HasDone(stack') /\ DoneFirst(stack') /\ NoneHot(Tail(stack'))
    <2>1. Holding(Tail(stack'), {}) /\ Head(stack').fn # "message_done" /\ Rank(Head(stack')) = 2
      BY <1>8, <1>11, <1>12, <1>13 DEF u
    <2>2. Readers(stack') = {} \cup {View(Head(stack'))}
      BY <1>2, <1>11, <2>1, FrameOn
    <2> QED
      BY <1>2, <1>11, <2>1, <2>2, FrameOn
  <1>15. Arriving = <<>> /\ Arriving' = d /\ Passed = delivered[session] /\ Passed' = delivered[session]
    BY <1>1, <1>6, <1>8, <1>11 DEF Arriving, Passed, Top, Is
  <1>16. ~Failing /\ ~Failing' /\ Due = 0 /\ Due' = 0
    BY <1>1, <1>4, <1>8, <1>11, <1>14, ViewParts DEF Failing, Top, Due, Consuming
  <1>17. Reading' => Reading
    BY <1>6, <1>16 DEF Reading
  <1>18. ASSUME Reading PROVE Consumed' = Consumed /\ Aligned' /\ Consumed \in Nat
    <2>1. Aligned /\ received <= Len(script)
      BY <1>18 DEF Tracking, AlignInv, Aligned
    <2>2. /\ Len(d) = k /\ received + k <= Len(script) /\ k \in Nat
          /\ \A i \in 1 .. k : d[i] = script[received + i]
      BY <1>10, <2>1
    <2>3. Len(stream_buffer) \in Nat /\ Len(Arriving) = 0
      BY <1>2, <1>15
    <2>4. /\ Consumed = received - Len(stream_buffer) /\ Len(stream_buffer) <= received
          /\ \A i \in 1 .. Len(stream_buffer) : stream_buffer[i] = script[Consumed + i]
      BY <1>2, <2>1, <2>3 DEF Consumed, Aligned
    <2>5. Consumed' = received + k - (Len(stream_buffer) + k)
      <3>1. received' = received + k /\ stream_buffer' = stream_buffer /\ Len(Arriving') = k
        BY <1>6, <1>7, <1>15, <2>2
      <3>2. Consumed' = received' - (Len(stream_buffer') + Len(Arriving'))
        BY DEF Consumed
      <3> QED
        BY <1>2, <2>2, <2>3, <3>1, <3>2
    <2>6. Consumed' = Consumed /\ Consumed \in Nat
      BY <1>2, <2>2, <2>3, <2>4, <2>5
    <2>7. Consumed + Len(stream_buffer) = received /\ Len(stream_buffer) + k <= received + k
      BY <1>2, <2>2, <2>3, <2>4
    <2> QED
      BY <1>6, <1>7, <1>15, <2>2, <2>4, <2>6, <2>7 DEF Aligned
  <1>19. AlignInv'
    <2>1. Framed(script')
      BY <1>6 DEF Tracking, AlignInv
    <2>2. ASSUME Reading'
          PROVE  /\ Aligned' /\ Boundary(Consumed)'
                 /\ \A r \in Readers(stack)' : Suits(r)'
                 /\ ~(Readers(stack)' = {})
      <3>1. Aligned' /\ Consumed' = Consumed /\ Boundary(Consumed)
        BY <1>17, <1>18, <2>2 DEF Tracking, AlignInv
      <3>2. Boundary(Consumed)'
        BY <1>6, <3>1 DEF Boundary
      <3>3. \A r \in Readers(stack') : Suits(r)'
        BY <1>8, <1>14, ViewParts DEF Suits
      <3> QED
        BY <1>14, <3>1, <3>2, <3>3
    <2> QED
      BY <1>5, <1>6, <2>1, <2>2 DEF AlignInv
  <1>20. ASSUME Exact, Reading'
         PROVE  Consumed' + Due' \in 0 .. Len(script) /\ Reached(Assembled(script)[Consumed + Due])'
    <2>1. /\ Consumed + Due \in 0 .. Len(script) /\ Reached(Assembled(script)[Consumed + Due])
          /\ Consumed' = Consumed
      BY <1>17, <1>18, <1>20 DEF Tracking, FoldInv
    <2>2. Consumed' + Due' = Consumed + Due /\ (Assembled(script)[Consumed + Due])' = Assembled(script)[Consumed + Due]
      BY <1>6, <1>16, <2>1
    <2> QED
      BY <1>4, <1>6, <1>14, <1>15, <2>1, <2>2 DEF Reached
  <1>21. /\ Head(stack').fn \notin {"indicate_ws_error_and_close", "uws_client_close_handshake_async",
                                    "decode_frame", "frame", "on_ws_frame_received"}
         /\ ~Is(Top, "user", "on_ws_error")
    BY <1>1, <1>8, <1>11 DEF Is
  <1> QED
    BY <1>5, <1>6, <1>11, <1>14, <1>19, <1>20, <1>21, LiveTracks

-----------------------------------------------------------------------------
(* Readers after which nothing more is decoded.                             *)

\* A function that decodes runs, and leaves to the socket and the user what is theirs.
AtReader ==
    /\ SocketClient /\ TypeOK /\ Place(stack) /\ StreamInv /\ Tracking
    /\ stack # <<>> /\ Top.at = "uws" /\ Top.fn \in Decoders
    /\ stack' \in Seq(Frame)
    /\ UNCHANGED <<script, received, session, delivered, ended>>

\* A reader that returns in a state where nothing is decoded,
LEMMA PopDead ==
    ASSUME AtReader, Pop \/ Goto(<<>>), uws_state' = uws_state, uws_state \notin Sound
    PROVE  Tracking'
  <1>1. /\ stack \in Seq(Frame) /\ Holding(Beneath, {}) /\ uws_state # "OPENING_UNDERLYING_IO"
        /\ ~Is(Top, "user", "on_ws_error")
    BY ReaderFacts DEF AtReader
  <1>2. /\ DoneFirst(stack')
        /\ stack' # <<>> => NoneHot(Tail(stack')) /\ Head(stack').fn \notin Hot
    BY <1>1, ReadZero DEF AtReader
  <1>3. ~Reading'
    BY DEF Reading, Sound, Polite
  <1> QED
    BY <1>1, <1>2, <1>3, DeadTracks DEF AtReader, Hot

\* A frame that ends what can be read is put on the stack, alone or before another reader.
LEMMA FailDead ==
    ASSUME AtReader, uws_state' # "OPENING_UNDERLYING_IO", uws_state' = "ERROR" => uws_state = "ERROR",
           stack' # <<>>, DoneFirst(stack'), NoneHot(Tail(stack')),
           \/ Head(stack').fn = "indicate_ws_error"
           \/ Head(stack').fn = "close" /\ uws_state' \in Opening
           \/ Head(stack').fn \in {"close", "send"} /\ uws_state' \notin Sound
    PROVE  Tracking'
  <1>1. ~Is(Top, "user", "on_ws_error")
    BY ReaderFacts DEF AtReader
  <1>2. ~Reading'
    BY DEF Reading, Failing, Top, Sound, Polite
  <1> QED
    BY <1>1, <1>2, DeadTracks DEF AtReader

\* or that closes the socket while the connection is being opened, needs no more.
LEMMA ShutDead ==
    ASSUME AtReader, Shut, uws_state' = uws_state, uws_state \in Opening
    PROVE  Tracking'
  <1>1. stack \in Seq(Frame) /\ Holding(Beneath, {}) /\ uws_state # "OPENING_UNDERLYING_IO"
    BY ReaderFacts DEF AtReader
  <1> DEFINE a == xio_close("uws", "NULL")
             b == Uws("open_complete_error")
  <1>2. Goto(<<a, b>>)
    BY DEF Shut, open_complete_error_and_close
  <1>3. a.at = "socket" /\ a.fn = "close" /\ b.at = "uws" /\ b.fn = "open_complete_error"
    BY Neighbours DEF AtReader, xio_close, Uws, MkFrame
  <1> HIDE DEF a, b
  <1>4. Rank(a) # 2
    BY <1>3, Ranks DEF Decoders
  <1>5. stack' # <<>> /\ Head(stack') = a /\ DoneFirst(stack') /\ NoneHot(Tail(stack'))
    BY <1>1, <1>2, <1>3, <1>4, ReadTwo DEF AtReader, Hot
  <1> QED
    BY <1>1, <1>3, <1>5, FailDead DEF Opening

\* An error, after which the frame in hand may still be consumed.
LEMMA ErrorDead ==
    ASSUME AtReader, uws_state' = uws_state,
           Goto(<<Uws("indicate_ws_error")>>) \/ \E n, next : Goto(<<Uws("indicate_ws_error"), consume(n, next)>>)
    PROVE  Tracking'
  <1>1. stack \in Seq(Frame) /\ Holding(Beneath, {}) /\ uws_state # "OPENING_UNDERLYING_IO"
    BY ReaderFacts DEF AtReader
  <1> DEFINE a == Uws("indicate_ws_error")
  <1>2. a.at = "uws" /\ a.fn = "indicate_ws_error"
    BY DEF Uws, MkFrame
  <1> HIDE DEF a
  <1>3. Rank(a) # 2
    BY <1>2, Ranks DEF Decoders
  <1>4. stack' # <<>> /\ Head(stack') = a /\ DoneFirst(stack') /\ NoneHot(Tail(stack'))
    <2>1. CASE Goto(<<a>>)
      BY <1>1, <1>2, <1>3, <2>1, ReadOne DEF AtReader
    <2>2. ASSUME NEW n, NEW next, Goto(<<a, consume(n, next)>>)
          PROVE  stack' # <<>> /\ Head(stack') = a /\ DoneFirst(stack') /\ NoneHot(Tail(stack'))
      <3> DEFINE b == consume(n, next)
      <3>1. b.fn = "consume_stream_buffer_bytes"
        BY DEF consume, MkFrame
      <3>2. Goto(<<a, b>>)
        BY <2>2
      <3> HIDE DEF b
      <3> QED
        BY <1>1, <1>2, <1>3, <3>1, <3>2, ReadTwo DEF AtReader, Hot
    <2> QED
      BY <2>1, <2>2 DEF a
  <1> QED
    BY <1>1, <1>2, <1>4, FailDead

\* what on_underlying_io_bytes_received appends to the buffer
LEMMA Joined ==
    ASSUME NEW s \in Seq(Unit), NEW t \in Seq(Unit)
    PROVE  LET u == s \o t
           IN  /\ u \in Seq(Unit) /\ Len(u) = Len(s) + Len(t)
               /\ \A i \in 1 .. Len(s) : u[i] = s[i]
               /\ \A i \in 1 .. Len(t) : u[Len(s) + i] = t[i]
  OBVIOUS

\* on_underlying_io_bytes_received: what arrived is added to the buffer, if there is a use for it.
LEMMA BytesTracks ==
    ASSUME AtReader, on_underlying_io_bytes_received
    PROVE  Tracking'
  <1>1. /\ Top.fn = "on_bytes_received" /\ UNCHANGED <<uws_state, fragment_buffer, fragmented_frame_type, Others>>
        /\ Top.data \in Seq(Unit) /\ stream_buffer \in Seq(Unit) /\ received \in Nat
    <2>1. Top \in Frame
      BY ReaderFacts DEF AtReader
    <2> QED
      BY <2>1 DEF on_underlying_io_bytes_received, Running, Top, Frame, AtReader, TypeOK, SockTypeOK, UwsTypeOK
  <1>2. /\ stack \in Seq(Frame) /\ Holding(Beneath, {}) /\ uws_state # "OPENING_UNDERLYING_IO" /\ ~Failing
        /\ Due = 0 /\ Passed = delivered[session] /\ ~HasDone(stack) /\ ~Is(Top, "user", "on_ws_error")
        /\ Reading => Aligned /\ Boundary(Consumed)
        /\ Exact /\ Reading => Consumed + Due \in 0 .. Len(script) /\ Reached(Assembled(script)[Consumed + Due])
    BY <1>1, ReaderFacts DEF AtReader
  <1>3. CASE uws_state \in Opening /\ Shut
    BY <1>1, <1>3, ShutDead
  <1>4. CASE Goto(<<Uws("indicate_ws_error")>>)
    BY <1>1, <1>4, ErrorDead
  <1>5. CASE uws_state \notin Decoding \cup Opening /\ Pop
    BY <1>1, <1>5, PopDead DEF Sound, Decoding, Opening
  <1>6. CASE stream_buffer' = stream_buffer \o Top.data /\ Goto(<<Uws("decode_stream")>>)
    <2> DEFINE d == Top.data
               a == Uws("decode_stream")
    <2>1. a.at = "uws" /\ a.fn = "decode_stream"
      BY DEF Uws, MkFrame
    <2>2. Goto(<<a>>)
      BY <1>6
    <2>3. Arriving = d
      BY <1>1 DEF Arriving, AtReader
    <2>4. /\ stream_buffer' \in Seq(Unit) /\ Len(stream_buffer') = Len(stream_buffer) + Len(d)
          /\ \A i \in 1 .. Len(stream_buffer) : stream_buffer'[i] = stream_buffer[i]
          /\ \A i \in 1 .. Len(d) : stream_buffer'[Len(stream_buffer) + i] = d[i]
      BY <1>1, <1>6, Joined
    <2>5. d \in Seq(Unit)
      BY <1>1
    <2> HIDE DEF a, d
    <2>6. Rank(a) = 2
      BY <2>1, Ranks DEF Decoders
    <2>7. /\ stack' # <<>> /\ Head(stack') = a /\ Readers(stack') = {View(a)}
          /\ ~HasDone(stack') /\ DoneFirst(stack') /\ NoneHot(Tail(stack'))
      BY <1>2, <2>1, <2>2, <2>6, ReadOne DEF AtReader, Reader
    <2>8. Arriving' = <<>> /\ Due' = 0 /\ Passed' = delivered[session]
      BY <2>1, <2>7, ViewParts DEF Arriving, Top, Due, Consuming, Passed, Is, AtReader, on_underlying_io_bytes_received, Others
    <2>9. Reading' => Reading
      BY <1>1, <1>2 DEF Reading
    <2>10. ASSUME Reading PROVE Consumed' = Consumed /\ Aligned'
      <3>1. Len(stream_buffer) \in Nat /\ Len(d) \in Nat /\ Len(Arriving') = 0
        BY <1>1, <2>5, <2>8
      <3>2. /\ received <= Len(script) /\ Len(stream_buffer) + Len(d) <= received
            /\ \A i \in 1 .. Len(stream_buffer) : stream_buffer[i] = script[Consumed + i]
            /\ \A i \in 1 .. Len(d) : d[i] = script[Consumed + Len(stream_buffer) + i]
        BY <1>2, <2>3, <2>10 DEF Aligned
      <3>3. Consumed = received - (Len(stream_buffer) + Len(d))
        BY <2>3 DEF Consumed
      <3>4. Consumed' = received' - (Len(stream_buffer') + Len(Arriving'))
        BY DEF Consumed
      <3>5. received' = received /\ script' = script
        BY DEF AtReader
      <3>6. Consumed' = Consumed /\ Consumed \in Nat
        BY <1>1, <2>4, <3>1, <3>2, <3>3, <3>4, <3>5
      <3>7. ASSUME NEW i \in 1 .. Len(stream_buffer') PROVE stream_buffer'[i] = script[Consumed + i]
        <4>1. CASE i \in 1 .. Len(stream_buffer)
          BY <2>4, <3>2, <4>1
        <4>2. CASE i \notin 1 .. Len(stream_buffer)
          <5> DEFINE j == i - Len(stream_buffer)
          <5>1. j \in 1 .. Len(d) /\ i = Len(stream_buffer) + j /\ Consumed + i = Consumed + Len(stream_buffer) + j
            BY <2>4, <3>1, <3>6, <4>2
          <5>2. stream_buffer'[Len(stream_buffer) + j] = d[j] /\ d[j] = script[Consumed + Len(stream_buffer) + j]
            BY <2>4, <3>2, <5>1
          <5> HIDE DEF j
          <5> QED
            BY <5>1, <5>2
        <4> QED
          BY <4>1, <4>2
      <3>8. Len(stream_buffer') + Len(Arriving') <= received'
        BY <1>1, <2>4, <3>1, <3>2, <3>5
      <3> QED
        BY <2>8, <3>2, <3>5, <3>6, <3>7, <3>8 DEF Aligned
    <2>11. AlignInv'
      <3>1. Framed(script')
        BY DEF AtReader, Tracking, AlignInv
      <3>2. ASSUME Reading'
            PROVE  /\ Aligned' /\ Boundary(Consumed)' /\ \A r \in Readers(stack)' : Suits(r)'
                   /\ Readers(stack)' # {}
        <4>1. Aligned' /\ Consumed' = Consumed /\ Boundary(Consumed)
          BY <1>2, <2>9, <2>10, <3>2
        <4>2. Boundary(Consumed)'
          BY <4>1 DEF Boundary, AtReader
        <4>3. \A r \in Readers(stack') : Suits(r)'
          BY <2>1, <2>7, ViewParts DEF Suits
        <4> QED
          BY <2>7, <4>1, <4>2, <4>3
      <3> QED
        BY <1>1, <1>2, <3>1, <3>2 DEF AlignInv
    <2>12. ASSUME Exact, Reading'
           PROVE  Consumed' + Due' \in 0 .. Len(script) /\ Reached(Assembled(script)[Consumed + Due])'
      <3>1. /\ Consumed + Due \in 0 .. Len(script) /\ Reached(Assembled(script)[Consumed + Due])
            /\ Consumed' = Consumed
        BY <1>2, <2>9, <2>10, <2>12
      <3>2. Consumed' + Due' = Consumed + Due /\ (Assembled(script)[Consumed + Due])' = Assembled(script)[Consumed + Due]
        BY <1>2, <2>8, <3>1 DEF AtReader
      <3> QED
        BY <1>1, <1>2, <2>7, <2>8, <3>1, <3>2 DEF Reached
    <2> QED
      BY <1>1, <1>2, <2>1, <2>7, <2>11, <2>12, LiveTracks DEF AtReader
  <1> QED
    BY <1>3, <1>4, <1>5, <1>6 DEF on_underlying_io_bytes_received

\* decode_stream finds nothing whole in the buffer,
LEMMA NothingTracks ==
    ASSUME AtReader, decode_nothing
    PROVE  Tracking'
  <1>1. uws_state' = uws_state /\ Pop /\ uws_state \notin Sound
    BY DEF decode_nothing, uwsVars, Sound, Decoding, Opening
  <1> QED
    BY <1>1, PopDead

\* or is run when the connection is not up.
LEMMA WhileOpeningTracks ==
    ASSUME AtReader, decode_while_opening
    PROVE  Tracking'
  <1>1. uws_state # "OPENING_UNDERLYING_IO"
    BY ReaderFacts DEF AtReader
  <1> QED
    BY <1>1 DEF decode_while_opening

-----------------------------------------------------------------------------
(* The frame that the buffer begins with.                                   *)

\* The buffer begins with the next frame of the script.
LEMMA FrontIs ==
    ASSUME script \in Seq(Unit), stream_buffer \in Seq(Unit), received \in Nat,
           Aligned, Boundary(Consumed), Arriving = <<>>
    PROVE  /\ Consumed \in Nat /\ Consumed = received - Len(stream_buffer) /\ Len(stream_buffer) \in Nat
           /\ received <= Len(script)
           /\ stream_buffer # <<>> =>
                /\ Head(stream_buffer) \in Unit /\ Head(stream_buffer).size \in Nat
                /\ Consumed + 1 \in DOMAIN script
                /\ Head(stream_buffer) = script[Consumed + 1] /\ Head(stream_buffer).k = 1
  <1>1. Len(stream_buffer) \in Nat /\ Len(Arriving) = 0
    OBVIOUS
  <1>2. Consumed = received - (Len(stream_buffer) + Len(Arriving))
    BY DEF Consumed
  <1>3. Len(stream_buffer) <= received /\ received <= Len(script)
    BY <1>1 DEF Aligned
  <1>4. Consumed \in Nat /\ Consumed = received - Len(stream_buffer)
    BY <1>1, <1>2, <1>3
  <1>5. ASSUME stream_buffer # <<>>
        PROVE  /\ Head(stream_buffer) \in Unit /\ Head(stream_buffer).size \in Nat
               /\ Consumed + 1 \in DOMAIN script
               /\ Head(stream_buffer) = script[Consumed + 1] /\ Head(stream_buffer).k = 1
    <2>1. Head(stream_buffer) \in Unit /\ Head(stream_buffer).size \in Nat
      BY <1>5, UnitsType
    <2>2. 1 \in 1 .. Len(stream_buffer) /\ Head(stream_buffer) = stream_buffer[1]
      BY <1>5
    <2>3. stream_buffer[1] = script[Consumed + 1]
      BY <2>2 DEF Aligned
    <2>4. Consumed + 1 \in DOMAIN script
      BY <1>1, <1>3, <1>4, <2>2
    <2> QED
      BY <2>1, <2>2, <2>3, <2>4 DEF Boundary
  <1> QED
    BY <1>1, <1>3, <1>4, <1>5

\* What the frame makes of the messages.
LEMMA FrontAfter ==
    ASSUME script \in Seq(Unit), stream_buffer \in Seq(Unit), received \in Nat, Framed(script),
           Aligned, Boundary(Consumed), Arriving = <<>>, stream_buffer # <<>>,
           Head(stream_buffer).size <= Len(stream_buffer)
    PROVE  LET h == Head(stream_buffer)
               q == Consumed + h.size
           IN  /\ Consumed \in 0 .. Len(script) /\ q \in 0 .. Len(script) /\ Consumed < q
               /\ Assembled(script)[q] = After(Assembled(script)[Consumed], h)
               /\ q + 1 \in DOMAIN script => script[q + 1].k = 1
  <1> DEFINE h == Head(stream_buffer)
             m == h.size
             n == Len(stream_buffer)
  <1>1. /\ Consumed \in Nat /\ Consumed = received - n /\ n \in Nat /\ received <= Len(script)
        /\ m \in Nat /\ Consumed + 1 \in DOMAIN script /\ h = script[Consumed + 1] /\ h.k = 1
    BY FrontIs
  <1>2. m <= n /\ Consumed + m <= Len(script)
    BY <1>1
  <1>3. /\ Consumed \in 0 .. Len(script) /\ Consumed + m \in 0 .. Len(script) /\ Consumed < Consumed + m
        /\ Assembled(script)[Consumed + m] = After(Assembled(script)[Consumed], h)
        /\ Consumed + m + 1 \in DOMAIN script => script[Consumed + m + 1].k = 1
    BY <1>1, <1>2, FrameStep
  <1> QED
    BY <1>3

\* a buffer without its first units
LEMMA Cut ==
    ASSUME NEW s \in Seq(Unit), NEW m \in Nat, m <= Len(s)
    PROVE  LET t == SubSeq(s, m + 1, Len(s))
           IN  /\ Len(t) = Len(s) - m
               /\ \A i \in 1 .. Len(s) - m : t[i] = s[m + i]
  OBVIOUS

\* The frame is taken from the buffer.
LEMMA Taken ==
    ASSUME script \in Seq(Unit), stream_buffer \in Seq(Unit), received \in Nat, Framed(script),
           Aligned, Boundary(Consumed), Arriving = <<>>, stream_buffer # <<>>,
           Head(stream_buffer).size <= Len(stream_buffer),
           stream_buffer' = SubSeq(stream_buffer, Head(stream_buffer).size + 1, Len(stream_buffer)),
           UNCHANGED <<script, received>>, Arriving' = <<>>
    PROVE  Consumed' = Consumed + Head(stream_buffer).size /\ Aligned' /\ Boundary(Consumed)'
  <1> DEFINE h == Head(stream_buffer)
             m == h.size
             n == Len(stream_buffer)
  <1>1. /\ Consumed \in Nat /\ Consumed = received - n /\ n \in Nat /\ received <= Len(script)
        /\ m \in Nat /\ received \in Nat
    BY FrontIs
  <1>2. m <= n /\ Consumed + m <= Len(script)
    BY <1>1
  <1>3. \A i \in 1 .. n : stream_buffer[i] = script[Consumed + i]
    BY DEF Aligned
  <1>4. Consumed + m + 1 \in DOMAIN script => script[Consumed + m + 1].k = 1
    BY FrontAfter
  <1>5. stream_buffer' = SubSeq(stream_buffer, m + 1, n)
    OBVIOUS
  <1> HIDE DEF m, n
  <1>6. Len(stream_buffer') = n - m /\ \A i \in 1 .. n - m : stream_buffer'[i] = stream_buffer[m + i]
    BY <1>1, <1>2, <1>5, Cut DEF n
  <1>7. Len(Arriving') = 0
    OBVIOUS
  <1>8. Consumed' = received' - (Len(stream_buffer') + Len(Arriving'))
    BY DEF Consumed
  <1>9. Consumed' = Consumed + m
    BY <1>1, <1>2, <1>6, <1>7, <1>8
  <1>10. ASSUME NEW i \in 1 .. Len(stream_buffer') PROVE stream_buffer'[i] = script[Consumed' + i]
    <2>0. i \in 1 .. n - m
      BY <1>6
    <2>1. m + i \in 1 .. n /\ Consumed + (m + i) = Consumed' + i /\ i \in 1 .. n - m
      BY ONLY <1>1, <1>2, <1>9, <2>0
    <2> QED
      BY <1>3, <1>6, <2>1
  <1>11. Aligned'
    <2>1. received' <= Len(script') /\ received' = received
      BY <1>1
    <2>2. Len(stream_buffer') + Len(Arriving') <= received'
      BY ONLY <1>1, <1>2, <1>6, <1>7, <2>1
    <2>3. \A i \in 1 .. Len(Arriving') : FALSE
      BY <1>7
    <2> QED
      BY <1>10, <2>1, <2>2, <2>3 DEF Aligned
  <1>12. Boundary(Consumed)'
    BY <1>4, <1>9 DEF Boundary
  <1> QED
    BY <1>9, <1>11, <1>12 DEF m

\* A round of decoding that takes nothing from the buffer.
LEMMA StayTracks ==
    ASSUME AtReader, Top.fn \in {"decode_stream", "decode_frame"}, UNCHANGED uwsVars,
           ~HasDone(stack'), DoneFirst(stack'),
           stack' # <<>> =>
             /\ NoneHot(Tail(stack'))
             /\ Head(stack').fn \notin Hot \ {"decode_frame", "frame", "indicate_ws_error"}
             /\ Exact /\ Head(stack').fn \in {"decode_frame", "frame"} => uws_state \in Decoding,
           \A r \in Readers(stack') : r.fn # "consume_stream_buffer_bytes",
           Reading' => /\ \A r \in Readers(stack') : Suits(r)
                       /\ NoControl /\ uws_state = "OPEN" /\ Readers(stack') = {} => NoneWhole
    PROVE  Tracking'
  <1>1. /\ Arriving = <<>> /\ Due = 0 /\ Passed = delivered[session] /\ ~HasDone(stack)
        /\ ~Failing /\ uws_state # "OPENING_UNDERLYING_IO" /\ ~Is(Top, "user", "on_ws_error")
    BY ReaderFacts DEF AtReader
  <1>2. UNCHANGED <<script, received, session, delivered, ended, uws_state,
                    stream_buffer, fragment_buffer, fragmented_frame_type>>
    BY DEF AtReader, uwsVars
  <1>3. Arriving' = <<>> /\ Passed' = delivered'[session']
    BY DEF Arriving, Passed, Is, Top, Hot
  <1>4. Due' = 0
    BY DEF Due, Consuming
  <1>5. Reading' => Reading
    BY <1>1, <1>2 DEF Reading
  <1>6. AlignInv'
    <2>1. CASE Reading'
      BY <1>1, <1>2, <1>3, <1>5, <2>1, AlignInPlace DEF AtReader, Tracking
    <2>2. CASE ~Reading'
      BY <1>1, <1>2, <2>2, AlignDead DEF AtReader, Tracking
    <2> QED
      BY <2>1, <2>2
  <1>7. ASSUME Exact, Reading'
        PROVE  Consumed' + Due' \in 0 .. Len(script) /\ Reached(Assembled(script)[Consumed + Due])'
    <2>1. Consumed' = Consumed
      BY <1>1, <1>2, <1>3 DEF Consumed
    <2>2. Consumed + Due \in 0 .. Len(script) /\ Reached(Assembled(script)[Consumed + Due])
      BY <1>5, <1>7 DEF AtReader, Tracking, FoldInv
    <2>3. Consumed' + Due' = Consumed + Due /\ (Assembled(script)[Consumed + Due])' = Assembled(script)[Consumed + Due]
      BY <1>1, <1>2, <1>4, <2>1
    <2> QED
      BY <1>1, <1>2, <1>3, <2>2, <2>3 DEF Reached
  <1>8. stack' # <<>> =>
          /\ NoneHot(Tail(stack'))
          /\ Head(stack').fn \notin {"indicate_ws_error_and_close", "uws_client_close_handshake_async"}
          /\ Exact /\ Head(stack').fn \in {"decode_frame", "frame", "on_ws_frame_received"} => uws_state' \in Decoding
    BY <1>2 DEF Hot
  <1> QED
    BY <1>1, <1>2, <1>6, <1>7, <1>8, LiveTracks DEF AtReader

\* A round that ends with what is in the buffer.
LEMMA StayPop ==
    ASSUME AtReader, Top.fn \in {"decode_stream", "decode_frame"}, UNCHANGED uwsVars, Pop,
           Reading' /\ NoControl /\ uws_state = "OPEN" => NoneWhole
    PROVE  Tracking'
  <1>1. stack \in Seq(Frame) /\ Holding(Beneath, {})
    BY ReaderFacts DEF AtReader
  <1>2. /\ Readers(stack') = {} /\ ~HasDone(stack') /\ DoneFirst(stack')
        /\ stack' # <<>> => NoneHot(Tail(stack')) /\ Head(stack').fn \notin Hot
    BY <1>1, ReadZero DEF AtReader
  <1> QED
    BY <1>2, StayTracks DEF Hot

\* A round that goes on with a function that decodes.
LEMMA StayOn ==
    ASSUME AtReader, Top.fn \in {"decode_stream", "decode_frame"}, UNCHANGED uwsVars,
           NEW a, Goto(<<a>>), a.at = "uws", a.fn \in {"decode_frame", "frame"}, Exact => uws_state \in Decoding,
           Reading' => Suits(View(a))
    PROVE  Tracking'
  <1>1. stack \in Seq(Frame) /\ Holding(Beneath, {})
    BY ReaderFacts DEF AtReader
  <1>2. Rank(a) = 2
    BY Ranks DEF Decoders
  <1>3. /\ stack' # <<>> /\ Head(stack') = a /\ Readers(stack') = {View(a)} /\ ~HasDone(stack') /\ DoneFirst(stack')
        /\ NoneHot(Tail(stack'))
    BY <1>1, <1>2, ReadOne DEF AtReader, Reader
  <1> QED
    BY <1>3, ViewParts, StayTracks DEF Hot

\* decode_stream takes a frame into hand; one that is masked is excluded.
LEMMA UnmaskedTracks ==
    ASSUME AtReader, Unmasked, decode_unmasked_frame \/ decode_masked_frame
    PROVE  Tracking'
  <1>1. /\ stream_buffer \in Seq(Unit) /\ received \in Nat /\ script \in Seq(Unit)
        /\ Top.fn = "decode_stream" /\ Arriving = <<>> /\ uws_state \in Decoding /\ UNCHANGED uwsVars
        /\ ~Failing
        /\ Reading => Aligned /\ Boundary(Consumed)
    <2>1. Top.fn = "decode_stream"
      BY DEF decode_unmasked_frame, decode_masked_frame, Running, Top
    <2> QED
      BY <2>1, ReaderFacts DEF AtReader, decode_unmasked_frame, decode_masked_frame, TypeOK, UwsTypeOK, SockTypeOK
  <1>2. ASSUME NEW h \in HeadersAt(Head(stream_buffer)), stream_buffer # <<>>
        PROVE  h \in Unit /\ h.flaw # "masked"
    <2>1. Head(stream_buffer) \in Unit
      BY <1>1, <1>2, UnitsType
    <2> QED
      BY <2>1, HeaderType DEF Unmasked
  <1>3. CASE stream_buffer = <<>> /\ Pop
    BY <1>1, <1>3, StayPop DEF NoneWhole
  <1>4. ASSUME NEW h \in HeadersAt(Head(stream_buffer)), stream_buffer # <<>>,
               Goto(<<MkFrame("uws", "decode_frame", "", 0, <<h>>)>>)
        PROVE  Tracking'
    <2> DEFINE a == MkFrame("uws", "decode_frame", "", 0, <<h>>)
    <2>1. a.at = "uws" /\ a.fn = "decode_frame" /\ a.data = <<h>>
      BY DEF MkFrame
    <2>2. Goto(<<a>>)
      BY <1>4
    <2> HIDE DEF a
    <2>3. Reading' => Reading
      BY <1>1 DEF Reading, uwsVars
    <2>4. ASSUME Reading' PROVE Suits(View(a))
      <3>1. Head(stream_buffer).k = 1
        BY <1>1, <1>4, <2>3, <2>4, FrontIs
      <3>2. h = Head(stream_buffer)
        BY <3>1 DEF HeadersAt
      <3> QED
        BY <1>4, <2>1, <3>2, ViewParts DEF Suits
    <2> QED
      BY <1>1, <2>1, <2>2, <2>4, StayOn
  <1> QED
    BY <1>2, <1>3, <1>4 DEF decode_unmasked_frame, decode_masked_frame

\* decode_stream checks the length of the frame in hand.
LEMMA LengthTracks ==
    ASSUME AtReader, decode_length
    PROVE  Tracking'
  <1> DEFINE h == Head(Top.data)
  <1>1. Top.fn = "decode_frame" /\ UNCHANGED uwsVars
    BY DEF decode_length, Running, Top
  <1>2. /\ ~Failing /\ Arriving = <<>>
        /\ Reading => Suits(View(Top))
    BY <1>1, ReaderFacts DEF AtReader
  <1>3. Reading' => Reading
    BY <1>1, <1>2 DEF Reading, uwsVars
  <1>4. Reading => stream_buffer # <<>> /\ h = Head(stream_buffer)
    BY <1>1, <1>2, ViewParts DEF Suits
  <1>5. Exact => uws_state \in Decoding
    BY <1>1 DEF AtReader, Tracking, FoldInv
  <1>6. CASE h.flaw = "length" /\ Goto(<<Uws("indicate_ws_error")>>)
    BY <1>1, <1>6, ErrorDead DEF uwsVars
  <1>7. CASE Len(stream_buffer) < needed_bytes(h) /\ Pop
    BY <1>1, <1>3, <1>4, <1>7, StayPop DEF NoneWhole
  <1>8. CASE /\ h.flaw # "length" /\ Len(stream_buffer) >= needed_bytes(h)
             /\ Goto(<<MkFrame("uws", "frame", opcode(h), needed_bytes(h), <<h>>)>>)
    <2> DEFINE a == MkFrame("uws", "frame", opcode(h), needed_bytes(h), <<h>>)
    <2>1. a.at = "uws" /\ a.fn = "frame" /\ a.data = <<h>> /\ a.n = needed_bytes(h) /\ a.arg = opcode(h)
      BY DEF MkFrame
    <2>2. Goto(<<a>>)
      BY <1>8
    <2> HIDE DEF a
    <2>3. Reading' => Suits(View(a))
      BY <1>3, <1>4, <1>8, <2>1, ViewParts DEF Suits
    <2> QED
      BY <1>1, <1>5, <2>1, <2>2, <2>3, StayOn
  <1> QED
    BY <1>6, <1>7, <1>8 DEF decode_length

\* A frame, or the response of the server, leaves the buffer.
LEMMA TakingTracks ==
    ASSUME AtReader, Top.fn # "on_bytes_received", Reading,
           stream_buffer # <<>>, Head(stream_buffer).size <= Len(stream_buffer),
           stream_buffer' = SubSeq(stream_buffer, Head(stream_buffer).size + 1, Len(stream_buffer)),
           UNCHANGED <<fragment_buffer, fragmented_frame_type>>,
           uws_state' \in Sound,
           ~HasDone(stack'), DoneFirst(stack'),
           stack' # <<>> => NoneHot(Tail(stack')) /\ Head(stack').fn \notin Hot,
           \A r \in Readers(stack') : r.fn = "decode_stream",
           NoControl /\ uws_state' = "OPEN" => Readers(stack') # {},
           Exact => \/ Due = 0 /\ After(Assembled(script)[Consumed], Head(stream_buffer)) = Assembled(script)[Consumed]
                    \/ Due = Head(stream_buffer).size
    PROVE  Tracking'
  <1> DEFINE h == Head(stream_buffer)
  <1>1. /\ stream_buffer \in Seq(Unit) /\ received \in Nat /\ script \in Seq(Unit) /\ Framed(script)
        /\ UNCHANGED <<script, received, session, delivered, ended>>
    BY DEF AtReader, TypeOK, UwsTypeOK, SockTypeOK, Tracking, AlignInv
  <1>2. /\ Arriving = <<>> /\ Passed = delivered[session] /\ ~HasDone(stack)
        /\ Aligned /\ Boundary(Consumed)
        /\ Exact => Reached(Assembled(script)[Consumed + Due])
    BY ReaderFacts DEF AtReader
  <1>3. Arriving' = <<>> /\ Passed' = delivered'[session]
    BY <1>1 DEF Arriving, Passed, Is, Top, Hot
  <1>4. Due' = 0
    BY DEF Due, Consuming
  <1>5. Consumed' = Consumed + h.size /\ Aligned' /\ Boundary(Consumed)'
    BY <1>1, <1>2, <1>3, Taken
  <1>6. /\ Consumed \in 0 .. Len(script) /\ Consumed + h.size \in 0 .. Len(script)
        /\ Assembled(script)[Consumed + h.size] = After(Assembled(script)[Consumed], h)
    BY <1>1, <1>2, FrontAfter
  <1>7. uws_state' # "OPENING_UNDERLYING_IO" /\ uws_state' # "ERROR"
    BY DEF Sound
  <1>8. AlignInv'
    <2>1. \A r \in Readers(stack') : Suits(r)'
      BY DEF Suits
    <2> QED
      BY <1>1, <1>5, <1>7, <2>1 DEF AlignInv
  <1>9. ASSUME Exact
        PROVE  Consumed' + Due' \in 0 .. Len(script) /\ Reached(Assembled(script)[Consumed + Due])'
    <2> DEFINE a == Assembled(script)[Consumed + h.size]
    <2>1. Consumed' + Due' = Consumed + h.size
      BY <1>4, <1>5, <1>6
    <2>2. (Assembled(script)[Consumed + Due])' = a
      BY <1>1, <2>1
    <2>3. Reached(a)
      <3>1. CASE Due = h.size
        BY <1>2, <1>9, <3>1
      <3>2. CASE Due = 0 /\ After(Assembled(script)[Consumed], h) = Assembled(script)[Consumed]
        <4>1. Consumed + Due = Consumed
          BY <1>6, <3>2
        <4> QED
          BY <1>2, <1>6, <1>9, <3>2, <4>1
      <3> QED
        BY <1>9, <3>1, <3>2
    <2> HIDE DEF a
    <2>4. Reached((Assembled(script)[Consumed + Due])')
      BY <2>2, <2>3
    <2>5. Reached(Assembled(script)[Consumed + Due])'
      BY <1>1, <1>2, <1>3, <2>2, <2>3 DEF Reached
    <2> QED
      BY <1>6, <2>1, <2>5
  <1>10. stack' # <<>> =>
          /\ NoneHot(Tail(stack'))
          /\ Head(stack').fn \notin {"indicate_ws_error_and_close", "uws_client_close_handshake_async"}
          /\ Exact /\ Head(stack').fn \in {"decode_frame", "frame", "on_ws_frame_received"} => uws_state' \in Decoding
    BY DEF Hot
  <1> QED
    BY <1>1, <1>7, <1>8, <1>9, <1>10, LiveTracks DEF AtReader

\* The response to the upgrade request is taken off the buffer, whatever it says.
LEMMA UpgradeTracks ==
    ASSUME AtReader, decode_upgrade_response
    PROVE  Tracking'
  <1> DEFINE h == Head(stream_buffer)
  <1>1. /\ Top.fn = "decode_stream" /\ uws_state = "WAITING_FOR_UPGRADE_RESPONSE"
        /\ UNCHANGED <<fragment_buffer, fragmented_frame_type, Others>>
    BY DEF decode_upgrade_response, Running, Top
  <1>2. /\ stack \in Seq(Frame) /\ Holding(Beneath, {}) /\ Due = 0 /\ Reading
    BY <1>1, ReaderFacts DEF AtReader, Sound
  <1>3. CASE Pop /\ UNCHANGED <<uws_state, stream_buffer>>
    BY <1>1, <1>3, StayPop DEF uwsVars, Others
  <1>4. CASE Shut /\ UNCHANGED <<uws_state, stream_buffer>>
    BY <1>1, <1>4, ShutDead DEF Opening
  <1>5. CASE /\ ResponseComplete /\ h.op = "101"
             /\ stream_buffer' = SubSeq(stream_buffer, h.size + 1, Len(stream_buffer))
             /\ State("OPEN")
             /\ Goto(<<User("on_ws_open_complete", "OK", 0, <<>>), Uws("decode_stream")>>)
    <2> DEFINE a == User("on_ws_open_complete", "OK", 0, <<>>)
               b == Uws("decode_stream")
    <2>1. a.at = "user" /\ a.fn = "on_ws_open_complete" /\ b.at = "uws" /\ b.fn = "decode_stream"
      BY DEF User, Uws, MkFrame
    <2>2. Goto(<<a, b>>)
      BY <1>5
    <2> HIDE DEF a, b
    <2>3. Rank(a) # 2 /\ Rank(b) = 2
      BY <2>1, Ranks DEF Decoders
    <2>4. /\ stack' # <<>> /\ Head(stack') = a /\ Readers(stack') = {View(b)}
          /\ ~HasDone(stack') /\ DoneFirst(stack') /\ NoneHot(Tail(stack'))
      BY <1>2, <2>1, <2>2, <2>3, ReadTwo DEF AtReader, Reader, Hot
    <2>5. /\ stream_buffer # <<>> /\ h.size <= Len(stream_buffer) /\ h.size \in Nat /\ Len(stream_buffer) \in Nat
          /\ stream_buffer' = SubSeq(stream_buffer, h.size + 1, Len(stream_buffer))
          /\ uws_state' = "OPEN"
      <3>1. stream_buffer # <<>> /\ stream_buffer \in Seq(Unit) /\ Len(stream_buffer) >= h.size
        BY <1>5 DEF ResponseComplete, AtReader, TypeOK, UwsTypeOK
      <3>2. h.size \in Nat /\ Len(stream_buffer) \in Nat
        BY <3>1, UnitsType
      <3> QED
        BY <1>5, <3>1, <3>2 DEF State
    <2>6. After(Assembled(script)[Consumed], h) = Assembled(script)[Consumed]
      BY <1>5 DEF After, IsFrame, Opcodes
    <2>7. \A r \in Readers(stack') : r.fn = "decode_stream"
      BY <2>1, <2>4, ViewParts
    <2> QED
      BY <1>1, <1>2, <2>1, <2>4, <2>5, <2>6, <2>7, TakingTracks DEF Sound, Hot
  <1> QED
    BY <1>3, <1>4, <1>5 DEF decode_upgrade_response

\* consume_stream_buffer_bytes takes the frame that was in hand off the buffer.
LEMMA ConsumeTracks ==
    ASSUME AtReader, Unmasked, consume_stream_buffer_bytes
    PROVE  Tracking'
  <1> DEFINE h == Head(stream_buffer)
  <1>1. /\ Top.fn = "consume_stream_buffer_bytes" /\ uws_state' = uws_state
        /\ stream_buffer' = SubSeq(stream_buffer, Top.n + 1, Len(stream_buffer))
        /\ UNCHANGED <<fragment_buffer, fragmented_frame_type>>
    BY DEF consume_stream_buffer_bytes, Running, Top
  <1>2. /\ stack \in Seq(Frame) /\ Holding(Beneath, {}) /\ ~Failing /\ ~Is(Top, "user", "on_ws_error")
        /\ uws_state # "OPENING_UNDERLYING_IO" /\ Due = needed_bytes(h)
        /\ Reading => Suits(View(Top)) /\ uws_state \in Sound
    BY <1>1, ReaderFacts DEF AtReader
  <1>3. Top.n <= Len(stream_buffer)
    <2>1. Takes(Top)
      BY <1>1 DEF AtReader, Takes
    <2>2. Within(stack, Len(stream_buffer)) => Top.n <= Len(stream_buffer)
      BY <1>2, <2>1, FirstFrame DEF AtReader, Top
    <2> QED
      BY <2>2 DEF AtReader, StreamInv
  <1>4. Goto(IF Top.arg = "again" THEN <<Uws("decode_stream")>> ELSE <<>>)
    BY <1>3 DEF consume_stream_buffer_bytes
  <1>5. /\ ~HasDone(stack') /\ DoneFirst(stack')
        /\ stack' # <<>> => NoneHot(Tail(stack')) /\ Head(stack').fn \notin Hot
        /\ \A r \in Readers(stack') : r.fn = "decode_stream"
        /\ Top.arg = "again" => Readers(stack') # {}
    <2>1. CASE Top.arg = "again"
      <3> DEFINE a == Uws("decode_stream")
      <3>1. a.at = "uws" /\ a.fn = "decode_stream"
        BY DEF Uws, MkFrame
      <3>2. Goto(<<a>>)
        BY <1>4, <2>1
      <3> HIDE DEF a
      <3>3. Rank(a) = 2
        BY <3>1, Ranks DEF Decoders
      <3>4. /\ stack' # <<>> /\ Head(stack') = a /\ Readers(stack') = {View(a)}
            /\ ~HasDone(stack') /\ DoneFirst(stack') /\ NoneHot(Tail(stack'))
        BY <1>2, <3>1, <3>2, <3>3, ReadOne DEF AtReader, Reader
      <3> QED
        BY <3>1, <3>4, ViewParts DEF Hot
    <2>2. CASE Top.arg # "again"
      <3>1. Goto(<<>>)
        BY <1>4, <2>2
      <3> QED
        BY <1>2, <2>2, <3>1, ReadZero DEF AtReader
    <2> QED
      BY <2>1, <2>2
  <1>6. CASE Reading
    <2>1. /\ stream_buffer # <<>> /\ Top.n = needed_bytes(h) /\ h.op \notin Responses
          /\ NoControl /\ uws_state = "OPEN" => Top.arg = "again"
      BY <1>1, <1>2, <1>6, ViewParts DEF Suits
    <2>2. h \in Unit /\ h.size \in Nat
      BY <2>1, UnitsType DEF AtReader, TypeOK, UwsTypeOK
    <2>3. needed_bytes(h) = h.size
      BY <2>1, <2>2 DEF needed_bytes, Unmasked
    <2> QED
      BY <1>1, <1>2, <1>3, <1>5, <1>6, <2>1, <2>3, TakingTracks
  <1>7. CASE ~Reading
    <2>1. uws_state \notin Sound
      BY <1>2, <1>7 DEF Reading
    <2>2. ~Reading'
      BY <1>1, <2>1 DEF Reading, Sound, Polite
    <2> QED
      BY <1>1, <1>2, <1>5, <2>2, DeadTracks DEF AtReader, Hot
  <1> QED
    BY <1>6, <1>7

-----------------------------------------------------------------------------
(* A frame in hand.                                                         *)

\* The frame in hand is the next one of the script, and the fold has come as far as it.
LEMMA HandFacts ==
    ASSUME AtReader, Unmasked, Top.fn = "frame"
    PROVE  /\ stack \in Seq(Frame) /\ Holding(Beneath, {}) /\ ~Failing /\ Arriving = <<>>
           /\ uws_state # "OPENING_UNDERLYING_IO" /\ ~Is(Top, "user", "on_ws_error")
           /\ Reading <=> uws_state \in Sound
           /\ Exact => uws_state \in Decoding
           /\ Reading => /\ stream_buffer # <<>> /\ h_ = Head(stream_buffer) /\ h_ \in Unit
                         /\ h_.k = 1 /\ Top.n = needed_bytes(h_) /\ Top.arg = opcode(h_)
                         /\ h_.flaw \notin {"masked", "length"}
                         /\ Consumed \in 0 .. Len(script) /\ script[Consumed + 1] = h_
                         /\ Consumed + 1 \in DOMAIN script /\ Assembled(script)[Consumed] \in FoldState
           /\ Reading /\ h_.op \notin Responses =>
                /\ needed_bytes(h_) = h_.size /\ Consumed + h_.size \in 0 .. Len(script)
                /\ Assembled(script)[Consumed + h_.size] = After(Assembled(script)[Consumed], h_)
           /\ Exact /\ Reading => /\ Reached(Assembled(script)[Consumed]) /\ Noticed(script)
                                  /\ delivered[session] = Passed
  <1>1. /\ stack \in Seq(Frame) /\ Holding(Beneath, {}) /\ ~Failing /\ Arriving = <<>>
        /\ uws_state # "OPENING_UNDERLYING_IO" /\ ~Is(Top, "user", "on_ws_error")
        /\ Reading <=> uws_state \in Sound
        /\ Due = 0 /\ Passed = delivered[session]
        /\ Reading => Aligned /\ Boundary(Consumed) /\ Suits(View(Top))
        /\ Exact /\ Reading => Reached(Assembled(script)[Consumed + Due]) /\ Noticed(script)
    BY ReaderFacts DEF AtReader
  <1>2. Exact => uws_state \in Decoding
    BY DEF AtReader, Tracking, FoldInv
  <1>3. /\ stream_buffer \in Seq(Unit) /\ received \in Nat /\ script \in Seq(Unit) /\ Framed(script)
    BY DEF AtReader, TypeOK, UwsTypeOK, SockTypeOK, Tracking, AlignInv
  <1>4. Top.n <= Len(stream_buffer)
    <2>1. Takes(Top)
      BY DEF AtReader, Takes
    <2>2. Within(stack, Len(stream_buffer)) => Top.n <= Len(stream_buffer)
      BY <1>1, <2>1, FirstFrame DEF AtReader, Top
    <2> QED
      BY <2>2 DEF AtReader, StreamInv
  <1>5. ASSUME Reading
        PROVE  /\ stream_buffer # <<>> /\ h_ = Head(stream_buffer) /\ h_ \in Unit
               /\ h_.k = 1 /\ Top.n = needed_bytes(h_) /\ Top.arg = opcode(h_)
               /\ h_.flaw \notin {"masked", "length"}
               /\ Consumed \in 0 .. Len(script) /\ script[Consumed + 1] = h_
               /\ Consumed + 1 \in DOMAIN script /\ Assembled(script)[Consumed] \in FoldState
    <2>1. /\ stream_buffer # <<>> /\ Top.data = <<Head(stream_buffer)>>
          /\ Top.n = needed_bytes(Head(stream_buffer)) /\ Top.arg = opcode(Head(stream_buffer))
          /\ Head(stream_buffer).flaw # "length"
      BY <1>1, <1>5, ViewParts DEF Suits
    <2>2. h_ = Head(stream_buffer)
      BY <2>1 DEF h_
    <2>3. /\ Head(stream_buffer) \in Unit /\ Consumed \in Nat /\ Consumed + 1 \in DOMAIN script
          /\ Head(stream_buffer) = script[Consumed + 1] /\ Head(stream_buffer).k = 1
      BY <1>1, <1>3, <1>5, <2>1, FrontIs
    <2>4. Consumed \in 0 .. Len(script)
      BY <1>3, <2>3
    <2>5. Assembled(script)[Consumed] \in FoldState
      BY <1>3, <2>4, AssembledSteps
    <2>6. h_.flaw # "masked"
      BY <2>2, <2>3 DEF Unmasked
    <2> QED
      BY <2>1, <2>2, <2>3, <2>4, <2>5, <2>6
  <1>6. ASSUME Reading, h_.op \notin Responses
        PROVE  /\ needed_bytes(h_) = h_.size /\ Consumed + h_.size \in 0 .. Len(script)
               /\ Assembled(script)[Consumed + h_.size] = After(Assembled(script)[Consumed], h_)
    <2>1. h_.size \in Nat /\ h_.flaw # "masked" /\ h_ = Head(stream_buffer) /\ stream_buffer # <<>>
      BY <1>3, <1>5, <1>6, UnitsType
    <2>2. needed_bytes(h_) = h_.size
      BY <1>6, <2>1 DEF needed_bytes
    <2>3. h_.size <= Len(stream_buffer)
      BY <1>4, <1>5, <1>6, <2>2
    <2> QED
      BY <1>1, <1>3, <1>6, <2>1, <2>2, <2>3, FrontAfter
  <1>7. ASSUME Exact, Reading
        PROVE  Reached(Assembled(script)[Consumed]) /\ Noticed(script) /\ delivered[session] = Passed
    <2>1. Consumed + Due = Consumed
      BY <1>1, <1>5, <1>7
    <2> QED
      BY <1>1, <1>7, <2>1
  <1> QED
    BY <1>1, <1>2, <1>5, <1>6, <1>7

\* what the peer cannot have done unnoticed
LEMMA NoticedFrame ==
    ASSUME AtReader, Unmasked, Top.fn = "frame", Exact, Reading, h_.op \in Opcodes
    PROVE  LET a == Assembled(script)[Consumed]
           IN  /\ a \in FoldState /\ a.stop = FALSE /\ h_ \in Unit /\ h_.k = 1
               /\ a.type = fragmented_frame_type /\ a.parts = fragment_buffer /\ a.out = delivered[session]
               /\ h_.op # "close" => h_.flaw = "none"
               /\ h_.op \in {"pong", "reserved"} => h_.fin
               /\ h_.op = "continuation" /\ a.type = "UNKNOWN" => h_.fin
               /\ h_.op \in {"text", "binary"} /\ a.type # "UNKNOWN" => ~h_.fin
  <1> DEFINE a == Assembled(script)[Consumed]
  <1>1. /\ Consumed \in 0 .. Len(script) /\ Consumed + 1 \in DOMAIN script /\ script[Consumed + 1] = h_
        /\ a \in FoldState /\ Reached(a) /\ Noticed(script) /\ h_ \in Unit /\ h_.k = 1
        /\ h_.flaw \notin {"masked", "length"} /\ Passed = delivered[session]
    BY HandFacts
  <1>2. ~HasDone(stack)
    BY ReaderFacts DEF AtReader
  <1>3. a.stop = FALSE /\ a.type = fragmented_frame_type /\ a.parts = fragment_buffer /\ a.out = delivered[session]
    BY <1>1, <1>2 DEF Reached
  <1>4. (Consumed + 1) - 1 = Consumed
    BY <1>1
  <1>5. IsFrame(h_)
    BY <1>1 DEF IsFrame
  <1>6. /\ h_.flaw = "utf8" => h_.op = "close"
        /\ h_.op \in {"pong", "reserved"} => h_.fin
        /\ h_.op = "continuation" /\ a.type = "UNKNOWN" => h_.fin
        /\ h_.op \in {"text", "binary"} /\ a.type # "UNKNOWN" => ~h_.fin
    <2> DEFINE i == Consumed + 1
    <2>1. i \in DOMAIN script /\ script[i] = h_ /\ i - 1 = Consumed
      BY <1>1, <1>4
    <2> HIDE DEF i
    <2>2. IsFrame(script[i]) /\ ~Assembled(script)[i - 1].stop
      BY <1>3, <1>5, <2>1
    <2>3. /\ script[i].flaw = "utf8" => script[i].op = "close"
          /\ script[i].op \in {"pong", "reserved"} => script[i].fin
          /\ script[i].op = "continuation" /\ Assembled(script)[i - 1].type = "UNKNOWN" => script[i].fin
          /\ script[i].op \in {"text", "binary"} /\ Assembled(script)[i - 1].type # "UNKNOWN" => ~script[i].fin
      BY <1>1, <2>1, <2>2 DEF Noticed
    <2> QED
      BY <2>1, <2>3
  <1>7. h_.flaw \in {"none", "masked", "length", "utf8"}
    BY <1>1, UnitAssumption DEF UnitType
  <1> QED
    BY <1>1, <1>3, <1>6, <1>7

\* A frame has been dealt with, and is about to be consumed.
LEMMA DoneTracks ==
    ASSUME AtReader, Unmasked, Top.fn = "frame", UNCHANGED <<uws_state, stream_buffer>>,
           NEW next, Readers(stack') = {View(Consume(next))},
           DoneFirst(stack'), stack' # <<>>, NoneHot(Tail(stack')),
           Head(stack').fn \notin Hot \ {"on_ws_frame_received"},
           Reading => h_.op \notin Responses /\ (NoControl /\ uws_state = "OPEN" => next = "again"),
           Exact /\ Reading =>
             LET a == After(Assembled(script)[Consumed], h_)
             IN  /\ a.stop = FALSE /\ a.out = Passed'
                 /\ IF HasDone(stack') THEN a.type = "UNKNOWN" /\ a.parts = <<>>
                    ELSE a.type = fragmented_frame_type' /\ a.parts = fragment_buffer'
    PROVE  Tracking'
  <1> DEFINE c == View(Consume(next))
             a == After(Assembled(script)[Consumed], h_)
  <1>1. c.fn = "consume_stream_buffer_bytes" /\ c.n = Top.n /\ c.arg = next
    BY DEF View, Consume, consume, MkFrame
  <1>2. /\ ~Failing /\ Arriving = <<>> /\ uws_state # "OPENING_UNDERLYING_IO" /\ ~Is(Top, "user", "on_ws_error")
        /\ Exact => uws_state \in Decoding
        /\ Reading => /\ stream_buffer # <<>> /\ h_ = Head(stream_buffer) /\ Top.n = needed_bytes(h_)
                      /\ Consumed \in 0 .. Len(script)
        /\ Reading /\ h_.op \notin Responses =>
             /\ needed_bytes(h_) = h_.size /\ Consumed + h_.size \in 0 .. Len(script)
             /\ Assembled(script)[Consumed + h_.size] = a
    BY HandFacts
  <1>3. UNCHANGED <<script, received, session, delivered, ended, uws_state, stream_buffer>>
    BY DEF AtReader
  <1>4. Arriving' = <<>>
    BY DEF Arriving, Top, Hot
  <1>5. Reading' => Reading
    BY <1>2, <1>3 DEF Reading
  <1> HIDE DEF a
  <1>6. Reading' => Suits(c) /\ Readers(stack') = {c}
    BY <1>1, <1>2, <1>5 DEF Suits
  <1>7. AlignInv' /\ (Reading' => Consumed' = Consumed)
    <2>1. CASE Reading'
      <3>1. /\ \A r \in Readers(stack') : Suits(r)
            /\ Readers(stack') # {}
        BY <1>6, <2>1
      <3> HIDE DEF c
      <3> QED
        BY <1>2, <1>3, <1>4, <1>5, <2>1, <3>1, AlignInPlace DEF AtReader, Tracking
    <2>2. CASE ~Reading'
      BY <1>2, <1>3, <2>2, AlignDead DEF AtReader, Tracking
    <2> QED
      BY <2>1, <2>2
  <1>8. ASSUME Exact, Reading'
        PROVE  Consumed' + Due' \in 0 .. Len(script) /\ Reached(Assembled(script)[Consumed + Due])'
    <2>1. Reading /\ h_.op \notin Responses
      BY <1>5, <1>8
    <2>2. Due' = needed_bytes(h_)
      <3>1. Consuming(stack')
        BY <1>1 DEF Consuming
      <3>2. needed_bytes(Head(stream_buffer))' = needed_bytes(h_)
        BY <1>2, <1>3, <2>1
      <3> QED
        BY <3>1, <3>2 DEF Due
    <2>3. Consumed' + Due' = Consumed + h_.size /\ Consumed + h_.size \in 0 .. Len(script)
      BY <1>2, <1>7, <1>8, <2>1, <2>2
    <2>4. (Assembled(script)[Consumed + Due])' = a
      BY <1>2, <1>3, <2>1, <2>3
    <2>5. /\ a.stop = FALSE /\ a.out = Passed'
          /\ IF HasDone(stack') THEN a.type = "UNKNOWN" /\ a.parts = <<>>
             ELSE a.type = fragmented_frame_type' /\ a.parts = fragment_buffer'
      BY <1>5, <1>8 DEF a
    <2> QED
      BY <2>3, <2>4, <2>5 DEF Reached
  <1>9. stack' # <<>> =>
          /\ NoneHot(Tail(stack'))
          /\ Head(stack').fn \notin {"indicate_ws_error_and_close", "uws_client_close_handshake_async"}
          /\ Exact /\ Head(stack').fn \in {"decode_frame", "frame", "on_ws_frame_received"} => uws_state' \in Decoding
    BY <1>2, <1>3 DEF Hot
  <1> QED
    BY <1>2, <1>3, <1>7, <1>8, <1>9, LiveTracks DEF AtReader

\* the frame that consumes what is in hand
LEMMA ConsumeParts ==
    ASSUME NEW next
    PROVE  /\ Consume(next).at = "uws" /\ Consume(next).fn = "consume_stream_buffer_bytes"
           /\ Rank(Consume(next)) = 2 /\ Reader(Consume(next)) = {View(Consume(next))}
  <1>1. Consume(next).at = "uws" /\ Consume(next).fn = "consume_stream_buffer_bytes"
    BY DEF Consume, consume, MkFrame
  <1>2. Rank(Consume(next)) = 2
    BY <1>1, Ranks DEF Decoders
  <1> QED
    BY <1>1, <1>2 DEF Reader

\* The frame is consumed at once.
LEMMA DoneAlone ==
    ASSUME AtReader, Unmasked, Top.fn = "frame", UNCHANGED <<uws_state, stream_buffer>>,
           NEW next, Goto(<<Consume(next)>>),
           Reading => h_.op \notin Responses /\ (NoControl /\ uws_state = "OPEN" => next = "again"),
           Exact /\ Reading =>
             LET a == After(Assembled(script)[Consumed], h_)
             IN  /\ a.stop = FALSE /\ a.out = delivered[session]
                 /\ a.type = fragmented_frame_type' /\ a.parts = fragment_buffer'
    PROVE  Tracking'
  <1> DEFINE c == Consume(next)
  <1>1. c.at = "uws" /\ c.fn = "consume_stream_buffer_bytes" /\ Reader(c) = {View(c)}
    BY ConsumeParts
  <1>2. stack \in Seq(Frame) /\ Holding(Beneath, {})
    BY HandFacts
  <1>3. /\ stack' # <<>> /\ Head(stack') = c /\ Readers(stack') = {View(c)}
        /\ ~HasDone(stack') /\ DoneFirst(stack') /\ NoneHot(Tail(stack'))
    BY <1>1, <1>2, ReadOne DEF AtReader
  <1>4. Passed' = delivered[session]
    BY <1>1, <1>3 DEF Passed, Top, Is, AtReader
  <1>5. Head(stack').fn \notin Hot
    BY <1>1, <1>3 DEF Hot
  <1> HIDE DEF c
  <1>6. Readers(stack') = {View(Consume(next))}
    BY <1>3 DEF c
  <1> QED
    BY <1>3, <1>4, <1>5, <1>6, DoneTracks

\* A call is made before the frame is consumed.
LEMMA DoneCalling ==
    ASSUME AtReader, Unmasked, Top.fn = "frame", UNCHANGED <<uws_state, stream_buffer>>,
           NEW next, NEW b, Goto(<<b, Consume(next)>>), b.at # "uws", b.fn \notin (Hot \ {"on_ws_frame_received"}) \cup {"message_done"},
           Reading => h_.op \notin Responses /\ (NoControl /\ uws_state = "OPEN" => next = "again"),
           Exact /\ Reading =>
             LET a == After(Assembled(script)[Consumed], h_)
             IN  /\ a.stop = FALSE
                 /\ a.out = IF Is(b, "user", "on_ws_frame_received")
                            THEN Append(delivered[session], [type |-> b.arg, parts |-> b.data])
                            ELSE delivered[session]
                 /\ a.type = fragmented_frame_type' /\ a.parts = fragment_buffer'
    PROVE  Tracking'
  <1> DEFINE c == Consume(next)
  <1>1. c.at = "uws" /\ c.fn = "consume_stream_buffer_bytes" /\ Reader(c) = {View(c)}
    BY ConsumeParts
  <1>2. stack \in Seq(Frame) /\ Holding(Beneath, {}) /\ Rank(b) # 2
    BY HandFacts, Ranks
  <1>3. /\ stack' # <<>> /\ Head(stack') = b /\ Readers(stack') = {View(c)}
        /\ ~HasDone(stack') /\ DoneFirst(stack') /\ NoneHot(Tail(stack'))
    BY <1>1, <1>2, ReadTwo DEF AtReader, Hot
  <1>4. Passed' = IF Is(b, "user", "on_ws_frame_received")
                  THEN Append(delivered[session], [type |-> b.arg, parts |-> b.data])
                  ELSE delivered[session]
    BY <1>3 DEF Passed, Top, AtReader
  <1> HIDE DEF c
  <1>5. Readers(stack') = {View(Consume(next))}
    BY <1>3 DEF c
  <1> QED
    BY <1>3, <1>4, <1>5, DoneTracks

\* the kind of frame that is in hand
LEMMA OpInHand ==
    ASSUME AtReader, Unmasked, Top.fn = "frame"
    PROVE  /\ Reading /\ Top.arg # "close" => h_.op = Top.arg /\ h_.op \notin Responses
  <1>1. Reading => Top.arg = opcode(h_)
    BY HandFacts
  <1> QED
    BY <1>1 DEF opcode

\* A text or binary frame that is a whole message is delivered;
LEMMA FinalTracks ==
    ASSUME AtReader, Unmasked, frame_data_final
    PROVE  Tracking'
  <1>1. PICK op \in {"text", "binary"} :
          /\ Received(op) /\ h_.fin
          /\ Goto(<<User("on_ws_frame_received", DataType(op), 0, <<h_>>), Consume("again")>>)
    BY DEF frame_data_final
  <1> DEFINE b == User("on_ws_frame_received", DataType(op), 0, <<h_>>)
  <1>2. Top.fn = "frame" /\ Top.arg = op /\ UNCHANGED uwsVars
    BY <1>1 DEF frame_data_final, Received, Running, Top
  <1>3. b.at = "user" /\ b.fn = "on_ws_frame_received" /\ b.arg = DataType(op) /\ b.data = <<h_>>
    BY DEF User, MkFrame
  <1>4. Goto(<<b, Consume("again")>>)
    BY <1>1
  <1> HIDE DEF b
  <1>5. Reading => h_.op = op /\ h_.op \notin Responses
    BY <1>2, OpInHand
  <1>6. ASSUME Exact, Reading
        PROVE  LET a == After(Assembled(script)[Consumed], h_)
               IN  /\ a.stop = FALSE
                   /\ a.out = Append(delivered[session], [type |-> b.arg, parts |-> b.data])
                   /\ a.type = fragmented_frame_type /\ a.parts = fragment_buffer
    <2> DEFINE a == Assembled(script)[Consumed]
    <2>1. h_.op = op /\ op \in Opcodes
      BY <1>5, <1>6 DEF Opcodes
    <2>2. /\ a \in FoldState /\ a.stop = FALSE /\ h_ \in Unit /\ h_.k = 1
          /\ a.type = fragmented_frame_type /\ a.parts = fragment_buffer /\ a.out = delivered[session]
          /\ h_.flaw = "none" /\ a.type = "UNKNOWN"
      BY <1>1, <1>2, <1>6, <2>1, NoticedFrame
    <2> HIDE DEF a
    <2>3. /\ After(a, h_).stop = FALSE
          /\ After(a, h_).out = Append(a.out, [type |-> DataType(op), parts |-> <<h_>>])
          /\ After(a, h_).type = "UNKNOWN" /\ After(a, h_).parts = a.parts
      BY <1>1, <2>1, <2>2, AfterCases
    <2> QED
      BY <1>3, <2>2, <2>3 DEF a
  <1> QED
    BY <1>2, <1>3, <1>4, <1>5, <1>6, DoneCalling DEF Is, Hot, uwsVars

\* one that is the first of several is kept in fragment_buffer.
LEMMA FirstTracks ==
    ASSUME AtReader, Unmasked, frame_data_first
    PROVE  Tracking'
  <1>1. PICK op \in {"text", "binary"} :
          /\ Received(op) /\ ~h_.fin
          /\ \/ Reject("again")
             \/ Reject("stop")
             \/ /\ fragmented_frame_type = "UNKNOWN"
                /\ fragment_buffer' = Append(fragment_buffer, h_)
                /\ fragmented_frame_type' = DataType(op)
                /\ Goto(<<Consume("again")>>)
                /\ UNCHANGED <<uws_state, stream_buffer, Others>>
    BY DEF frame_data_first
  <1>2. Top.fn = "frame" /\ Top.arg = op
    BY <1>1 DEF Received, Running, Top
  <1>3. ASSUME NEW next, Reject(next) PROVE Tracking'
    BY <1>3, ErrorDead DEF Reject, Consume, uwsVars
  <1>4. CASE /\ fragmented_frame_type = "UNKNOWN"
             /\ fragment_buffer' = Append(fragment_buffer, h_)
             /\ fragmented_frame_type' = DataType(op)
             /\ Goto(<<Consume("again")>>)
             /\ UNCHANGED <<uws_state, stream_buffer, Others>>
    <2>1. Reading => h_.op = op /\ h_.op \notin Responses
      BY <1>2, OpInHand
    <2>2. ASSUME Exact, Reading
          PROVE  LET a == After(Assembled(script)[Consumed], h_)
                 IN  /\ a.stop = FALSE /\ a.out = delivered[session]
                     /\ a.type = fragmented_frame_type' /\ a.parts = fragment_buffer'
      <3> DEFINE a == Assembled(script)[Consumed]
      <3>1. h_.op = op /\ op \in Opcodes
        BY <2>1, <2>2 DEF Opcodes
      <3>2. /\ a \in FoldState /\ a.stop = FALSE /\ h_ \in Unit /\ h_.k = 1
            /\ a.type = fragmented_frame_type /\ a.parts = fragment_buffer /\ a.out = delivered[session]
            /\ h_.flaw = "none"
        BY <1>2, <2>2, <3>1, NoticedFrame
      <3>3. a.type = "UNKNOWN" /\ a.parts = <<>>
        <4>1. Consumed \in 0 .. Len(script) /\ script \in Seq(Unit)
          BY <1>2, <2>2, HandFacts DEF AtReader, TypeOK, SockTypeOK
        <4> QED
          BY <1>4, <3>2, <4>1, FreshIsEmpty
      <3> HIDE DEF a
      <3>4. /\ After(a, h_).stop = FALSE /\ After(a, h_).out = a.out
            /\ After(a, h_).type = DataType(op) /\ After(a, h_).parts = <<h_>>
        BY <1>1, <3>1, <3>2, <3>3, AfterCases
      <3>5. fragment_buffer' = <<h_>>
        BY <1>4, <3>2, <3>3
      <3> QED
        BY <1>4, <3>2, <3>4, <3>5 DEF a
    <2> QED
      BY <1>2, <1>4, <2>1, <2>2, DoneAlone
  <1> QED
    BY <1>1, <1>3, <1>4

\* A ping is answered, and pongs and reserved opcodes are passed over.
LEMMA PingTracks ==
    ASSUME AtReader, Unmasked, frame_ping \/ frame_ignored
    PROVE  Tracking'
  <1>1. Top.fn = "frame" /\ Top.arg \in {"ping", "pong", "reserved"}
    BY DEF frame_ping, frame_ignored, Received, Running, Top
  <1>2. Reading => h_.op = Top.arg /\ h_.op \notin Responses
    BY <1>1, OpInHand
  <1>3. ASSUME Reject("stop") PROVE Tracking'
    BY <1>3, ErrorDead DEF Reject, Consume, uwsVars
  <1>4. Reading => h_.op \notin Responses /\ (NoControl /\ uws_state = "OPEN" => "stop" = "again")
    BY <1>1, <1>2, HandFacts DEF NoControl
  <1>5. (Top.arg = "ping" /\ h_.fin) \/ Top.arg \in {"pong", "reserved"} \/ Reject("stop")
    BY DEF frame_ping, frame_ignored, Received, Running, Top
  <1>6. ASSUME Exact, Reading, Top.arg = "ping" => h_.fin
        PROVE  LET a == After(Assembled(script)[Consumed], h_)
               IN  /\ a.stop = FALSE /\ a.out = delivered[session]
                   /\ a.type = fragmented_frame_type /\ a.parts = fragment_buffer
    <2> DEFINE a == Assembled(script)[Consumed]
    <2>1. h_.op \in Opcodes /\ h_.op \in {"ping", "pong", "reserved"}
      BY <1>1, <1>2, <1>6 DEF Opcodes
    <2>2. /\ a \in FoldState /\ a.stop = FALSE /\ h_ \in Unit /\ h_.k = 1
          /\ a.type = fragmented_frame_type /\ a.parts = fragment_buffer /\ a.out = delivered[session]
          /\ h_.flaw = "none" /\ h_.fin
      BY <1>1, <1>2, <1>6, <2>1, NoticedFrame
    <2> HIDE DEF a
    <2>3. After(a, h_) = a
      BY <2>1, <2>2, AfterCases
    <2> QED
      BY <2>2, <2>3 DEF a
  <1>7. \/ UNCHANGED uwsVars /\ Goto(<<xio_send("uws", "unchecked_on_send_complete", 0), Consume("stop")>>)
        \/ UNCHANGED uwsVars /\ Goto(<<Consume("stop")>>)
        \/ Reject("stop")
    BY DEF frame_ping, frame_ignored
  <1>8. ASSUME Top.arg = "ping" => h_.fin, UNCHANGED uwsVars, Goto(<<Consume("stop")>>) PROVE Tracking'
    BY <1>1, <1>4, <1>6, <1>8, DoneAlone DEF uwsVars
  <1>9. ASSUME Top.arg = "ping" => h_.fin, UNCHANGED uwsVars,
               Goto(<<xio_send("uws", "unchecked_on_send_complete", 0), Consume("stop")>>)
        PROVE  Tracking'
    <2> DEFINE b == xio_send("uws", "unchecked_on_send_complete", 0)
    <2>1. b.at = "socket" /\ b.fn = "send"
      BY Neighbours DEF AtReader, xio_send, MkFrame
    <2>2. Goto(<<b, Consume("stop")>>)
      BY <1>9
    <2> HIDE DEF b
    <2> QED
      BY <1>1, <1>4, <1>6, <1>9, <2>1, <2>2, DoneCalling DEF Is, Hot, uwsVars
  <1> QED
    BY <1>3, <1>5, <1>7, <1>8, <1>9

\* A continuation is added to the fragments, and the last one delivers them.
LEMMA ContinuationTracks ==
    ASSUME AtReader, Unmasked, frame_continuation
    PROVE  Tracking'
  <1> DEFINE x == Append(fragment_buffer, h_)
             b == User("on_ws_frame_received", fragmented_frame_type, 0, x)
             m == Uws("message_done")
             a == Assembled(script)[Consumed]
  <1>1. Top.fn = "frame" /\ Top.arg = "continuation"
    BY DEF frame_continuation, Received, Running, Top
  <1>2. Reading => h_.op = "continuation" /\ h_.op \notin Responses
    BY <1>1, OpInHand
  <1>3. CASE Reject("stop")
    BY <1>3, ErrorDead DEF Reject, Consume, uwsVars
  <1>4. Reading => h_.op \notin Responses /\ (NoControl /\ uws_state = "OPEN" => "again" = "again")
    BY <1>2
  <1>5. ASSUME Exact, Reading
        PROVE  /\ a \in FoldState /\ a.stop = FALSE /\ h_ \in Unit /\ h_.k = 1 /\ h_.op = "continuation"
               /\ a.type = fragmented_frame_type /\ a.parts = fragment_buffer /\ a.out = delivered[session]
               /\ h_.flaw = "none" /\ (a.type = "UNKNOWN" => h_.fin)
    <2>1. h_.op \in Opcodes /\ h_.op = "continuation"
      BY <1>2, <1>5 DEF Opcodes
    <2> QED
      BY <1>1, <1>5, <2>1, NoticedFrame
  <1> HIDE DEF a
  <1>6. CASE /\ fragment_buffer' = x /\ UNCHANGED <<uws_state, stream_buffer, fragmented_frame_type, Others>>
             /\ ~h_.fin /\ Goto(<<Consume("again")>>)
    <2>1. ASSUME Exact, Reading
          PROVE  LET c == After(Assembled(script)[Consumed], h_)
                 IN  /\ c.stop = FALSE /\ c.out = delivered[session]
                     /\ c.type = fragmented_frame_type' /\ c.parts = fragment_buffer'
      <3>1. /\ After(a, h_).stop = FALSE /\ After(a, h_).out = a.out
            /\ After(a, h_).type = a.type /\ After(a, h_).parts = Append(a.parts, h_)
        BY <1>5, <1>6, <2>1, AfterCases
      <3> QED
        BY <1>5, <1>6, <2>1, <3>1 DEF a
    <2> HIDE DEF x
    <2> QED
      BY <1>1, <1>4, <1>6, <2>1, DoneAlone
  <1>7. CASE /\ fragment_buffer' = x /\ UNCHANGED <<uws_state, stream_buffer, fragmented_frame_type, Others>>
             /\ Goto(<<Uws("indicate_ws_error"), Consume("again")>>)
    BY <1>7, ErrorDead DEF Consume
  <1>8. CASE /\ fragment_buffer' = x /\ UNCHANGED <<uws_state, stream_buffer, fragmented_frame_type, Others>>
             /\ h_.fin /\ fragmented_frame_type # "UNKNOWN" /\ Goto(<<b, m, Consume("again")>>)
    <2> DEFINE c == Consume("again")
    <2>1. /\ b.at = "user" /\ b.fn = "on_ws_frame_received" /\ b.arg = fragmented_frame_type /\ b.data = x
          /\ m.at = "uws" /\ m.fn = "message_done"
      BY DEF User, Uws, MkFrame
    <2>2. Goto(<<b, m, c>>)
      BY <1>8
    <2>3. c.at = "uws" /\ c.fn = "consume_stream_buffer_bytes" /\ Rank(c) = 2 /\ Reader(c) = {View(c)}
      BY ConsumeParts
    <2> HIDE DEF b, m, c
    <2>4. stack \in Seq(Frame) /\ Holding(Beneath, {}) /\ Rank(b) # 2 /\ Rank(m) # 2
      BY <1>1, <2>1, HandFacts, Ranks DEF Decoders
    <2>5. /\ stack' # <<>> /\ Head(stack') = b /\ Readers(stack') = {View(c)}
          /\ DoneFirst(stack') /\ NoneHot(Tail(stack')) /\ HasDone(stack')
      BY <2>1, <2>2, <2>3, <2>4, ReadThree DEF AtReader, Hot
    <2>6. Passed' = Append(delivered[session], [type |-> fragmented_frame_type, parts |-> x])
      BY <2>1, <2>5 DEF Passed, Top, AtReader, Is
    <2>7. ASSUME Exact, Reading
          PROVE  LET f == After(Assembled(script)[Consumed], h_)
                 IN  /\ f.stop = FALSE /\ f.out = Passed'
                     /\ f.type = "UNKNOWN" /\ f.parts = <<>>
      <3>1. /\ After(a, h_).stop = FALSE
            /\ After(a, h_).out = Append(a.out, [type |-> a.type, parts |-> Append(a.parts, h_)])
            /\ After(a, h_).type = "UNKNOWN" /\ After(a, h_).parts = <<>>
        BY <1>5, <1>8, <2>7, AfterCases
      <3> QED
        BY <1>5, <2>6, <2>7, <3>1 DEF a
    <2>8. Head(stack').fn \notin Hot \ {"on_ws_frame_received"}
      BY <2>1, <2>5
    <2>9. Readers(stack') = {View(Consume("again"))}
      BY <2>5 DEF c
    <2> HIDE DEF x
    <2> QED
      BY <1>1, <1>4, <1>8, <2>5, <2>7, <2>8, <2>9, DoneTracks
  <1>9. \/ Reject("stop")
        \/ /\ fragment_buffer' = x /\ UNCHANGED <<uws_state, stream_buffer, fragmented_frame_type, Others>>
           /\ \/ ~h_.fin /\ Goto(<<Consume("again")>>)
              \/ h_.fin /\ Goto(<<Uws("indicate_ws_error"), Consume("again")>>)
              \/ h_.fin /\ fragmented_frame_type # "UNKNOWN" /\ Goto(<<b, m, Consume("again")>>)
    <2>1. \/ Reject("stop")
          \/ /\ fragment_buffer' = x /\ UNCHANGED <<uws_state, stream_buffer, fragmented_frame_type, Others>>
             /\ Goto(CASE ~h_.fin -> <<Consume("again")>>
                     [] h_.fin /\ fragmented_frame_type = "UNKNOWN" ->
                          <<Uws("indicate_ws_error"), Consume("again")>>
                     [] OTHER -> <<b, m, Consume("again")>>)
      BY DEF frame_continuation
    <2> HIDE DEF x, b, m
    <2>2. CASE ~h_.fin
      BY <2>1, <2>2
    <2>3. CASE h_.fin /\ fragmented_frame_type = "UNKNOWN"
      BY <2>1, <2>3
    <2>4. CASE h_.fin /\ fragmented_frame_type # "UNKNOWN"
      BY <2>1, <2>4
    <2> QED
      BY <2>2, <2>3, <2>4
  <1> HIDE DEF x, b, m
  <1> QED
    BY <1>3, <1>6, <1>7, <1>8, <1>9

\* A close frame that is not as it should be fails, and the peer's answer to ours ends the connection.
LEMMA ClosingTracks ==
    ASSUME AtReader, Unmasked, frame_close_bad \/ frame_close_answer
    PROVE  Tracking'
  <1>1. Top.fn = "frame"
    BY DEF frame_close_bad, frame_close_answer, Received, Running, Top
  <1>2. stack \in Seq(Frame) /\ Holding(Beneath, {})
    BY <1>1, HandFacts
  <1>3. CASE Reject("stop")
    BY <1>3, ErrorDead DEF Reject, Consume, uwsVars
  <1>4. ASSUME NEW f \in {"close_or_error", "close_or_complete"}, uws_state' = "CLOSING_UNDERLYING_IO",
               Goto(<<xio_close("uws", "close_complete"), Uws(f), Consume("stop")>>)
        PROVE  Tracking'
    <2> DEFINE a == xio_close("uws", "close_complete")
               b == Uws(f)
               c == Consume("stop")
    <2>1. a.at = "socket" /\ a.fn = "close" /\ b.at = "uws" /\ b.fn = f
      BY Neighbours DEF AtReader, xio_close, Uws, MkFrame
    <2>2. c.fn = "consume_stream_buffer_bytes"
      BY ConsumeParts
    <2>3. Goto(<<a, b, c>>)
      BY <1>4
    <2> HIDE DEF a, b, c
    <2>4. Rank(a) # 2 /\ Rank(b) # 2
      BY <2>1, Ranks DEF Decoders
    <2>5. stack' # <<>> /\ Head(stack') = a /\ DoneFirst(stack') /\ NoneHot(Tail(stack'))
      <3>1. b.fn \notin Hot \cup {"message_done"}
        BY <2>1 DEF Hot
      <3> QED
        BY <1>2, <2>1, <2>2, <2>3, <2>4, <3>1, ReadThree DEF AtReader, Hot
    <2> QED
      BY <1>4, <2>1, <2>5, FailDead DEF Sound, Polite
  <1>5. \/ Reject("stop")
        \/ /\ uws_state' = "CLOSING_UNDERLYING_IO"
           /\ \/ Goto(<<xio_close("uws", "close_complete"), Uws("close_or_error"), Consume("stop")>>)
              \/ Goto(<<xio_close("uws", "close_complete"), Uws("close_or_complete"), Consume("stop")>>)
    BY DEF frame_close_bad, frame_close_answer, State
  <1> QED
    BY <1>3, <1>4, <1>5

\* A close frame of the peer's is answered and reported.
LEMMA PeerClosesTracks ==
    ASSUME AtReader, Unmasked, frame_close_by_peer
    PROVE  Tracking'
  <1>1. Top.fn = "frame"
    BY DEF frame_close_by_peer, Received, Running, Top
  <1>2. stack \in Seq(Frame) /\ Holding(Beneath, {})
    BY <1>1, HandFacts
  <1> DEFINE c == User("on_ws_peer_closed", "", 0, <<>>)
             d == Consume("stop")
  <1>3. Tame(c) /\ d.fn = "consume_stream_buffer_bytes"
    BY ConsumeParts, TameFrames DEF User, Hot
  <1>4. ASSUME NEW a, NEW b, Goto(<<a, b, c, d>>), a.fn \in {"close", "send"}, Tame(a), Tame(b),
               uws_state' \in {"CLOSING_SENDING_CLOSE", "CLOSING_UNDERLYING_IO"}
        PROVE  Tracking'
    <2> HIDE DEF c, d
    <2>1. stack' # <<>> /\ Head(stack') = a /\ DoneFirst(stack') /\ NoneHot(Tail(stack'))
      BY <1>2, <1>3, <1>4, ReadFour DEF AtReader, Hot
    <2> QED
      BY <1>4, <2>1, FailDead DEF Sound, Polite
  <1> DEFINE a1 == xio_send("uws", "on_underlying_io_close_sent", 0)
             b1 == Uws("answer_sent")
             a2 == xio_close("uws", "close_complete")
             b2 == Uws("close_or_error")
  <1>5. a1.fn = "send" /\ Tame(a1) /\ Tame(b1) /\ a2.fn = "close" /\ Tame(a2) /\ Tame(b2)
    <2>1. a1.fn = "send" /\ a2.fn = "close"
      BY DEF xio_send, xio_close, MkFrame
    <2>2. Tame(a1) /\ Tame(a2)
      BY TameFrames, Neighbours DEF AtReader, xio_send, xio_close, Hot
    <2>3. Tame(b1) /\ Tame(b2)
      BY TameFrames DEF Uws, Hot, Decoders
    <2> QED
      BY <2>1, <2>2, <2>3
  <1>6. \/ uws_state' = "CLOSING_SENDING_CLOSE" /\ Goto(<<a1, b1>> \o <<c, d>>)
        \/ uws_state' = "CLOSING_UNDERLYING_IO" /\ Goto(<<a2, b2>> \o <<c, d>>)
    BY DEF frame_close_by_peer, State
  <1> HIDE DEF a1, b1, a2, b2, c, d
  <1>7. <<a1, b1>> \o <<c, d>> = <<a1, b1, c, d>> /\ <<a2, b2>> \o <<c, d>> = <<a2, b2, c, d>>
    BY ONLY ConcatTuples
  <1> QED
    BY <1>4, <1>5, <1>6, <1>7

-----------------------------------------------------------------------------
(* Steps that read nothing, and yet matter to the messages.                 *)

\* what to show of a step that is not a reader's
LEMMA QuietTracks ==
    ASSUME stack \in Seq(Frame), stack' \in Seq(Frame), script \in Seq(Unit), Tracking,
           stack # <<>>, Rank(Top) # 2, Top.fn # "on_bytes_received", StillMove,
           uws_state' # "OPENING_UNDERLYING_IO",
           UNCHANGED <<stream_buffer, script, received, session, ended>>,
           IF Top.fn = "message_done" THEN fragment_buffer' = <<>> /\ fragmented_frame_type' = "UNKNOWN"
           ELSE UNCHANGED <<fragment_buffer, fragmented_frame_type>>,
           Reading' => Reading /\ (uws_state' = "OPEN" => uws_state = "OPEN"),
           uws_state' = "ERROR" => uws_state = "ERROR" /\ ~Is(Top, "user", "on_ws_error"),
           Exact => /\ delivered'[session] = Passed
                    /\ Reading \/ delivered'[session] = delivered[session]
                    /\ \A s \in Sessions : s > session => delivered'[s] = delivered[s]
    PROVE  Tracking'
  <1>1. /\ Readers(stack') = Readers(stack) /\ DoneFirst(stack')
        /\ Top.fn # "message_done" => (HasDone(stack') <=> HasDone(stack))
        /\ stack' # <<>> =>
              /\ NoneHot(Tail(stack'))
              /\ Head(stack').fn \notin Hot \/ Is(Head(stack'), "uws", "indicate_ws_error")
    BY StillStack DEF Tracking
  <1>2. stack' # <<>> => Head(stack').fn \notin Hot \ {"indicate_ws_error"}
    BY <1>1 DEF Is
  <1>3. HotInv'
    BY <1>1, <1>2 DEF HotInv, Beneath, Top, Hot
  <1>4. Arriving = <<>> /\ Arriving' = <<>>
    BY <1>2 DEF Arriving, Top, Hot
  <1>5. AlignInv'
    BY <1>1, <1>4, AlignSame DEF Tracking
  <1>6. PoliteInv'
    <2>1. stack' # <<>> => ~Is(Head(stack'), "uws", "uws_client_close_handshake_async")
      BY <1>2 DEF Is, Hot
    <2> QED
      BY <2>1 DEF Tracking, PoliteInv, Top
  <1>7. ASSUME Exact PROVE FoldInv'
    <2>1. Passed' = delivered'[session]
      BY <1>2 DEF Passed, Is, Top, Hot
    <2>2. stack' # <<>> => Head(stack').fn \notin {"decode_frame", "frame", "on_ws_frame_received"}
      BY <1>2 DEF Hot
    <2>3. /\ HasDone(stack) \/ UNCHANGED <<fragment_buffer, fragmented_frame_type>>
          /\ HasDone(stack') => HasDone(stack)
          /\ ~HasDone(stack') /\ HasDone(stack) => fragment_buffer' = <<>> /\ fragmented_frame_type' = "UNKNOWN"
      <3>1. CASE Top.fn = "message_done"
        <4>1. HasDone(stack)
          BY <3>1, FrontFrame DEF Top
        <4> QED
          BY <3>1, <4>1
      <3>2. CASE Top.fn # "message_done"
        BY <1>1, <3>2
      <3> QED
        BY <3>1, <3>2
    <2>4. delivered'[session] = delivered[session] \/ (Reading /\ delivered'[session] = Passed)
      BY <1>7
    <2>5. Passed' = Passed /\ FoldInv
      BY <1>7, <2>1 DEF Tracking
    <2> QED
      BY <1>1, <1>4, <1>7, <2>2, <2>3, <2>4, <2>5, FoldSame
  <1> QED
    BY <1>3, <1>5, <1>6, <1>7 DEF Tracking, Exact, Polite

\* The message has been handed over, and its fragments are dropped.
LEMMA MessageDoneTracks ==
    ASSUME TypeOK, stack' \in Seq(Frame), Place(stack), Tracking, message_done,
           UNCHANGED <<script, received, ended, delivered>>
    PROVE  Tracking'
  <1>1. /\ stack # <<>> /\ Top.at = "uws" /\ Top.fn = "message_done" /\ Pop
        /\ fragment_buffer' = <<>> /\ fragmented_frame_type' = "UNKNOWN"
        /\ UNCHANGED <<uws_state, stream_buffer, session>>
    BY DEF message_done, Running, Top, Others
  <1>2. stack \in Seq(Frame) /\ script \in Seq(Unit)
    BY DEF TypeOK, SockTypeOK
  <1>3. Rank(Top) # 2 /\ uws_state # "OPENING_UNDERLYING_IO"
    BY <1>1, <1>2, Ranks, RunsFreely DEF Decoders, Free, AtRest, Settled
  <1>4. StillMove /\ ~Failing /\ Passed = delivered[session] /\ ~Is(Top, "user", "on_ws_error")
    BY <1>1 DEF StillMove, Failing, Passed, Is
  <1>5. Reading' => Reading
    BY <1>1, <1>4 DEF Reading
  <1> QED
    BY <1>1, <1>2, <1>3, <1>4, <1>5, QuietTracks

\* indicate_ws_error leaves the states in which anything is decoded.
LEMMA ErrorTracks ==
    ASSUME TypeOK, stack' \in Seq(Frame), Place(stack), Tracking, indicate_ws_error \/ indicate_ws_error_and_close,
           UNCHANGED <<script, received, ended, delivered>>
    PROVE  Tracking'
  <1> DEFINE a == User("on_ws_error", "", 0, <<>>)
  <1>1. Top.fn # "indicate_ws_error_and_close"
    BY DEF Tracking, HotInv, indicate_ws_error, indicate_ws_error_and_close, Running, Top
  <1>2. /\ stack # <<>> /\ Top.at = "uws" /\ Top.fn = "indicate_ws_error" /\ Goto(<<a>>)
        /\ uws_state' = "ERROR" /\ session' = session
    BY <1>1 DEF indicate_ws_error, indicate_ws_error_and_close, Running, Top, State, Others
  <1>3. a.at = "user" /\ a.fn = "on_ws_error" /\ Cool(a)
    BY TameFrames DEF User, MkFrame, Hot
  <1>4. stack \in Seq(Frame)
    BY DEF TypeOK
  <1> HIDE DEF a
  <1>5. Rank(Top) # 2 /\ StillMove
    BY <1>2, <1>3, Ranks DEF Decoders, StillMove
  <1>6. stack' # <<>> /\ Head(stack') = a
    BY <1>2, <1>4, Goto1 DEF Stack1, OnTop
  <1>7. DoneFirst(stack') /\ NoneHot(Tail(stack'))
    BY <1>2, <1>4, <1>5, <1>6, StillStack DEF Tracking
  <1>8. ~Reading'
    BY <1>2 DEF Reading, Sound, Polite
  <1>9. Is(Head(stack'), "user", "on_ws_error")
    BY <1>3, <1>6 DEF Is
  <1> QED
    BY <1>2, <1>3, <1>6, <1>7, <1>8, <1>9, DeadTracks

\* uws_client_close_handshake_async leaves them too, or waits for the peer's close frame.
LEMMA HandshakeTracks ==
    ASSUME SocketClient, TypeOK, stack' \in Seq(Frame), Place(stack), Tracking, uws_client_close_handshake_async,
           UNCHANGED <<script, received, ended, delivered>>
    PROVE  Tracking'
  <1>1. /\ stack # <<>> /\ Top.at = "uws" /\ Top.fn = "uws_client_close_handshake_async"
        /\ UNCHANGED <<stream_buffer, fragment_buffer, fragmented_frame_type, session>>
    BY DEF uws_client_close_handshake_async, Running, Top, uwsVars, Buffers
  <1>2. stack \in Seq(Frame) /\ script \in Seq(Unit)
    BY DEF TypeOK, SockTypeOK
  <1>3. Rank(Top) # 2 /\ uws_state # "OPENING_UNDERLYING_IO"
    <2>1. Called(stack)
      BY <1>1, <1>2, RunsInPlace DEF Api
    <2> QED
      BY <1>1, <2>1, Ranks DEF Decoders, Called, Settled
  <1>4. ~Failing /\ Passed = delivered[session] /\ ~Is(Top, "user", "on_ws_error")
    BY <1>1 DEF Failing, Passed, Is
  <1>5. \/ uws_state' = uws_state
        \/ uws_state' = "CLOSING_WAITING_FOR_CLOSE" /\ uws_state \notin Closing \cup {"CLOSED"}
    BY DEF uws_client_close_handshake_async, uwsVars, State
  <1>6. StillMove
    <2> DEFINE a == xio_send("uws", "unchecked_on_send_complete", 0)
    <2>1. Cool(a)
      BY TameFrames, Neighbours DEF xio_send, Hot
    <2>2. Goto(<<a>>) \/ Return(1)
      BY DEF uws_client_close_handshake_async
    <2> HIDE DEF a
    <2> QED
      BY <2>1, <2>2 DEF StillMove
  <1>7. Reading' => Reading /\ (uws_state' = "OPEN" => uws_state = "OPEN")
    <2>1. CASE uws_state' = uws_state
      BY <1>4, <2>1 DEF Reading
    <2>2. CASE uws_state' = "CLOSING_WAITING_FOR_CLOSE" /\ uws_state \notin Closing \cup {"CLOSED"}
      <3>1. CASE Polite
        <4>1. uws_state \notin Opening \cup {"ERROR"}
          BY <1>1, <3>1 DEF Tracking, PoliteInv, Is
        <4>2. uws_state = "OPEN"
          BY <2>2, <4>1 DEF TypeOK, UwsTypeOK, UwsStates, Closing, Opening
        <4> QED
          BY <1>4, <2>2, <4>2 DEF Reading, Sound
      <3>2. CASE ~Polite
        BY <2>2, <3>2 DEF Reading, Sound, Polite
      <3> QED
        BY <3>1, <3>2
    <2> QED
      BY <1>5, <2>1, <2>2
  <1>8. uws_state' # "OPENING_UNDERLYING_IO" /\ (uws_state' = "ERROR" => uws_state = "ERROR")
    BY <1>3, <1>5
  <1> QED
    BY <1>1, <1>2, <1>3, <1>4, <1>6, <1>7, <1>8, QuietTracks

\* The user is given the message: it is what the fold adds next.
LEMMA DeliveryTracks ==
    ASSUME TypeOK, stack' \in Seq(Frame), Place(stack), Books, Tracking, OnFrameReceived, UNCHANGED <<sockVars, uwsVars>>
    PROVE  Tracking'
  <1>1. /\ stack # <<>> /\ Top.at = "user" /\ Top.fn = "on_ws_frame_received"
        /\ delivered' = [delivered EXCEPT ![session] = Append(@, [type |-> Top.arg, parts |-> Top.data])]
        /\ ended' = ended
        /\ UNCHANGED <<stream_buffer, script, received, session, fragment_buffer, fragmented_frame_type, uws_state>>
    BY DEF OnFrameReceived, Running, Top, sockVars, uwsVars
  <1>2. stack \in Seq(Frame) /\ script \in Seq(Unit)
    BY DEF TypeOK, SockTypeOK
  <1>3. Rank(Top) # 2 /\ uws_state # "OPENING_UNDERLYING_IO"
    BY <1>1, <1>2, Ranks, RunsFreely DEF Callbacks, UwsCallbacks, Decoders, AtRest, Settled
  <1>4. ~Failing /\ ~Is(Top, "user", "on_ws_error")
    BY <1>1 DEF Failing, Is
  <1>5. StillMove
    <2> DEFINE m == MkFrame("user", "in_callback", "", 0, <<>>)
    <2>1. Cool(m)
      BY TameFrames DEF Hot
    <2>2. Goto(<<m>>)
      BY DEF OnFrameReceived, InCallback
    <2> HIDE DEF m
    <2> QED
      BY <2>1, <2>2 DEF StillMove
  <1>6. Passed = Append(delivered[session], [type |-> Top.arg, parts |-> Top.data])
    BY <1>1 DEF Passed, Is
  <1>7. /\ delivered'[session] = Passed
        /\ \A s \in Sessions : s > session => delivered'[s] = delivered[s]
    <2>1. session \in Sessions /\ DOMAIN delivered = Sessions
      BY OwnSession DEF TypeOK
    <2> QED
      BY <1>1, <1>6, <2>1 DEF Sessions
  <1>8. Exact => Reading
    <2>1. Exact => uws_state \in Decoding
      BY <1>1 DEF Tracking, FoldInv
    <2> QED
      BY <1>4, <2>1 DEF Reading, Sound, Decoding, Exact
  <1>9. Reading' => Reading
    BY <1>1, <1>4 DEF Reading
  <1> QED
    BY <1>1, <1>2, <1>3, <1>4, <1>5, <1>7, <1>8, <1>9, QuietTracks

\* Before anything is received nothing need have been delivered.
LEMMA EmptyBefore ==
    ASSUME NEW units \in Seq(Unit)
    PROVE  IsPrefixOf(<<>>, Messages(units)) /\ Assembled(units)[0] = Start
  <1>1. 0 \in 0 .. Len(units) /\ Assembled(units)[0] = Start
    BY AssembledSteps
  <1>2. IsPrefixOf(Assembled(units)[0].out, Messages(units))
    BY <1>1, MessagesFrom
  <1> QED
    BY <1>1, <1>2 DEF Start

\* A client that has nothing of the connection yet.
LEMMA OpeningTracks ==
    ASSUME Framed(script'), script' \in Seq(Unit), Exact => Noticed(script'),
           uws_state' = "OPENING_UNDERLYING_IO", stream_buffer' = <<>>, Readers(stack') = {},
           Upgrading' => received' = 0, DoneFirst(stack'),
           stack' # <<>> => NoneHot(Tail(stack')) /\ Head(stack').fn \notin Hot,
           Exact => /\ fragment_buffer' = <<>> /\ fragmented_frame_type' = "UNKNOWN"
                    /\ delivered'[session'] = <<>> /\ \A s \in Sessions : s > session' => delivered'[s] = <<>>
    PROVE  Tracking'
  <1>1. ~Reading'
    BY DEF Reading, Sound, Polite
  <1>2. AlignInv'
    BY <1>1 DEF AlignInv
  <1>3. HotInv'
    BY DEF HotInv, Beneath, Top, Hot
  <1>4. PoliteInv'
    BY DEF PoliteInv, Top, Hot, Is
  <1>5. ASSUME Exact PROVE FoldInv'
    <2>1. MessagesAsSent'
      BY <1>5, EmptyBefore DEF MessagesAsSent
    <2>2. stack' # <<>> => Top'.fn \notin {"decode_frame", "frame", "on_ws_frame_received"}
      BY DEF Top, Hot
    <2>3. Noticed(script)'
      BY <1>5
    <2> QED
      BY <1>1, <1>5, <2>1, <2>2, <2>3 DEF FoldInv
  <1> QED
    BY <1>2, <1>3, <1>4, <1>5 DEF Tracking, Exact, Polite

\* uws_client_open_async begins a session, with empty buffers.
LEMMA OpensTracks ==
    ASSUME SocketClient, TypeOK, stack' \in Seq(Frame), Place(stack), Books, Tracking,
           uws_client_open_async, uws_state = "CLOSED", UNCHANGED <<script, received, ended, delivered>>
    PROVE  Tracking'
  <1> DEFINE a == xio_open("uws")
             b == Uws("xio_open_returned")
  <1>1. /\ stack # <<>> /\ Top.at = "uws" /\ Top.fn = "uws_client_open_async"
        /\ uws_state' = "OPENING_UNDERLYING_IO" /\ stream_buffer' = <<>>
        /\ fragment_buffer' = <<>> /\ fragmented_frame_type' = "UNKNOWN" /\ session' = session + 1
        /\ Goto(<<a, b>>)
    BY DEF uws_client_open_async, Running, Top, State
  <1>2. stack \in Seq(Frame) /\ script \in Seq(Unit) /\ session \in Nat
    BY DEF TypeOK, SockTypeOK, UwsTypeOK
  <1>3. /\ Beneath # <<>> /\ Tail(Beneath) = <<>> /\ Is(Head(Beneath), "user", "returned")
        /\ session < opens
    <2>1. Called(stack)
      BY <1>1, <1>2, RunsInPlace DEF Api
    <2> QED
      BY <1>1, <2>1 DEF Called, Beneath, Top
  <1>4. a.at = "socket" /\ a.fn = "open" /\ Tame(a) /\ Tame(b) /\ Cool(a)
    <2>1. a.at = "socket" /\ a.fn = "open" /\ Tame(a)
      BY TameFrames, Neighbours DEF xio_open, MkFrame, Hot
    <2>2. Tame(b)
      BY TameFrames DEF Uws, Hot, Decoders
    <2> QED
      BY <2>1, <2>2, TameFrames
  <1> HIDE DEF a, b
  <1>5. Rank(Top) # 2 /\ StillMove
    BY <1>1, <1>4, Ranks DEF Decoders, StillMove
  <1>6. stack' # <<>> /\ Head(stack') = a
    BY <1>1, <1>2, Goto2 DEF Stack2, OnTop
  <1>7. Readers(stack') = Readers(stack) /\ DoneFirst(stack') /\ NoneHot(Tail(stack'))
    BY <1>1, <1>2, <1>5, <1>6, StillStack DEF Tracking
  <1>8. Readers(stack) = {}
    <2>1. Beneath \in Seq(Frame) /\ Rank(Head(Beneath)) # 2
      BY <1>1, <1>2, <1>3, RunningTop, Ranks DEF Is
    <2>2. Readers(Tail(Beneath)) = {}
      BY <1>3, EmptyStack
    <2>3. Readers(Beneath) = {}
      BY <1>3, <2>1, <2>2, FrontFrame
    <2>4. Head(stack) = Top /\ Tail(stack) = Beneath
      BY DEF Top, Beneath
    <2> QED
      BY <1>1, <1>2, <1>5, <2>3, <2>4, FrontFrame
  <1>9. ~Upgrading'
    BY <1>4, <1>6 DEF Upgrading, Top
  <1>10. Framed(script') /\ (Exact => Noticed(script')) /\ script' \in Seq(Unit)
    BY <1>2 DEF Tracking, AlignInv, FoldInv
  <1>11. ASSUME Exact
         PROVE  delivered'[session'] = <<>> /\ \A s \in Sessions : s > session' => delivered'[s] = <<>>
    <2>1. \A s \in Sessions : s > session => delivered[s] = <<>>
      BY <1>11 DEF Tracking, FoldInv
    <2>2. session + 1 \in Sessions /\ session + 1 > session
      <3>1. opens \in 0 .. MaxOpens
        BY DEF TypeOK
      <3> QED
        BY <1>2, <1>3, <3>1, BoundsAssumption DEF Sessions
    <2>3. \A s \in Sessions : s > session + 1 => s > session
      BY <1>2 DEF Sessions
    <2> QED
      BY <1>1, <2>1, <2>2, <2>3
  <1>12. Head(stack').fn \notin Hot
    BY <1>4, <1>6 DEF Hot
  <1> QED
    BY <1>1, <1>7, <1>8, <1>9, <1>10, <1>11, <1>12, OpeningTracks

\* The socket is connected, and its peer has a script to send.
LEMMA ConnectedTracks ==
    ASSUME SocketClient, TypeOK, stack' \in Seq(Frame), Place(stack), FramedScripts, Tracking,
           socketio_open_connected, UNCHANGED <<uwsVars, userVars>>, script' \in Seq(Unit)
    PROVE  Tracking'
  <1>1. /\ stack # <<>> /\ Top.at = "socket" /\ Top.fn = "open" /\ script' \in Scripts /\ received' = 0
        /\ Goto(<<on_io_open_complete("socket", "OK"), ReturnFrame("socket", 0)>>)
    BY DEF socketio_open_connected, Running, Top
  <1>2. stack \in Seq(Frame)
    BY DEF TypeOK
  <1>3. UNCHANGED <<uws_state, stream_buffer, fragment_buffer, fragmented_frame_type, session, delivered>>
    BY DEF uwsVars, userVars
  <1>4. uws_state = "OPENING_UNDERLYING_IO"
    BY <1>1, <1>2, RunsInPlace DEF Opens
  <1>5. Rank(Top) # 2 /\ StillMove
    BY <1>1, SockStillMove, Ranks DEF SockNext, socketio_dowork_receive, Running, Top
  <1>6. on_io_open_complete("socket", "OK").fn = "on_io_open_complete"
    BY DEF on_io_open_complete, MkFrame
  <1>7. stack' # <<>> /\ Head(stack').fn = "on_io_open_complete"
    BY <1>1, <1>2, <1>6, Goto2 DEF Stack2, OnTop
  <1>8. Readers(stack') = Readers(stack) /\ DoneFirst(stack') /\ NoneHot(Tail(stack'))
    BY <1>1, <1>2, <1>5, <1>7, StillStack DEF Tracking
  <1>9. Readers(stack) = {} /\ stream_buffer = <<>>
    BY <1>4 DEF Tracking, AlignInv
  <1>10. Framed(script') /\ (Exact => Noticed(script'))
    BY <1>1 DEF FramedScripts, Exact
  <1>11. Exact => /\ fragment_buffer = <<>> /\ fragmented_frame_type = "UNKNOWN" /\ delivered[session] = <<>>
                  /\ \A s \in Sessions : s > session => delivered[s] = <<>>
    BY <1>4 DEF Tracking, FoldInv
  <1>12. Head(stack').fn \notin Hot
    BY <1>7 DEF Hot
  <1> QED
    BY <1>1, <1>3, <1>4, <1>8, <1>9, <1>10, <1>11, <1>12, OpeningTracks

\* The upgrade request is out: what comes next is its answer.
LEMMA UpgradeSentTracks ==
    ASSUME TypeOK, stack' \in Seq(Frame), Place(stack), Tracking,
           upgrade_request_sent, Top.ret = 0, UNCHANGED <<script, received, ended, delivered>>
    PROVE  Tracking'
  <1>1. /\ stack # <<>> /\ Top.at = "uws" /\ Top.fn = "upgrade_request_sent" /\ Pop
        /\ uws_state' = "WAITING_FOR_UPGRADE_RESPONSE"
        /\ UNCHANGED <<stream_buffer, fragment_buffer, fragmented_frame_type, session>>
    BY DEF upgrade_request_sent, Running, Top, State, Buffers, Others
  <1>2. stack \in Seq(Frame) /\ script \in Seq(Unit)
    BY DEF TypeOK, SockTypeOK
  <1>3. uws_state = "OPENING_UNDERLYING_IO"
    BY <1>1, <1>2, RunsInPlace DEF Opens
  <1>4. Upgrading
    BY <1>1 DEF Upgrading
  <1>5. stream_buffer = <<>> /\ Readers(stack) = {} /\ received = 0 /\ Framed(script)
    BY <1>3, <1>4 DEF Tracking, AlignInv
  <1>6. Rank(Top) # 2 /\ StillMove
    BY <1>1, Ranks DEF Decoders, StillMove
  <1>7. /\ Readers(stack') = Readers(stack) /\ DoneFirst(stack')
        /\ stack' # <<>> =>
              /\ NoneHot(Tail(stack'))
              /\ Head(stack').fn \notin Hot \/ Is(Head(stack'), "uws", "indicate_ws_error")
    BY <1>1, <1>2, <1>6, StillStack DEF Tracking
  <1>8. stack' # <<>> => Head(stack').fn \notin Hot \ {"indicate_ws_error"}
    BY <1>7 DEF Is
  <1>9. Readers(stack') = {}
    BY <1>5, <1>7
  <1>10. Arriving' = <<>> /\ Due' = 0
    BY <1>8, <1>9 DEF Arriving, Top, Hot, Due, Consuming
  <1>11. Consumed' = 0
    <2>1. received' = 0 /\ Len(stream_buffer') = 0 /\ Len(Arriving') = 0
      BY <1>1, <1>5, <1>10
    <2>2. Consumed' = received' - (Len(stream_buffer') + Len(Arriving'))
      BY DEF Consumed
    <2> QED
      BY ONLY <2>1, <2>2
  <1>12. AlignInv'
    <2>1. Aligned'
      <3>1. /\ received' = 0 /\ Len(stream_buffer') = 0 /\ Len(Arriving') = 0 /\ Len(script) \in Nat
            /\ script' = script
        BY <1>1, <1>2, <1>5, <1>10
      <3>2. \A i \in 1 .. 0 : FALSE
        OBVIOUS
      <3> QED
        BY <3>1, <3>2 DEF Aligned
    <2>2. Boundary(Consumed)'
      <3>1. 1 \in DOMAIN script => script # <<>>
        BY <1>2
      <3>2. Boundary(0)'
        BY <1>5, <3>1 DEF Framed, Boundary
      <3>3. Boundary(Consumed)' <=> Boundary(0)'
        BY <1>11 DEF Boundary
      <3> QED
        BY <3>2, <3>3
    <2> QED
      BY <1>1, <1>5, <1>9, <2>1, <2>2 DEF AlignInv
  <1>13. HotInv'
    BY <1>7, <1>8 DEF HotInv, Beneath, Top, Hot
  <1>14. PoliteInv'
    <2>1. stack' # <<>> => ~Is(Head(stack'), "uws", "uws_client_close_handshake_async")
      BY <1>8 DEF Is, Hot
    <2> QED
      BY <1>1, <2>1 DEF PoliteInv, Top
  <1>15. ASSUME Exact PROVE FoldInv'
    <2>1. /\ Noticed(script) /\ \A s \in Sessions : s > session => delivered[s] = <<>>
          /\ fragment_buffer = <<>> /\ fragmented_frame_type = "UNKNOWN" /\ delivered[session] = <<>>
          /\ MessagesAsSent
      BY <1>3, <1>15 DEF Tracking, FoldInv
    <2>2. MessagesAsSent'
      BY <1>1, <2>1 DEF MessagesAsSent
    <2>3. stack' # <<>> => Top'.fn \notin {"decode_frame", "frame", "on_ws_frame_received"}
      BY <1>8 DEF Top, Hot
    <2>4. ~HasDone(stack')
      <3>1. \A i \in DOMAIN stack' : Rank(stack'[i]) # 2
        BY <1>9 DEF Readers, Frames
      <3> QED
        BY <1>7, <3>1 DEF HasDone, DoneFirst, Frames
    <2>5. Passed' = <<>>
      BY <1>1, <1>8, <2>1 DEF Passed, Is, Top, Hot
    <2>6. Consumed' + Due' = 0 /\ 0 \in 0 .. Len(script)
      BY <1>2, <1>10, <1>11
    <2>7. (Assembled(script)[Consumed + Due])' = Start
      <3>1. Assembled(script)[0] = Start
        BY <1>2, EmptyBefore
      <3> QED
        BY <2>6, <3>1
    <2>8. Reached(Assembled(script)[Consumed + Due])'
      BY <1>1, <2>1, <2>4, <2>5, <2>7 DEF Reached, Start
    <2> QED
      BY <1>1, <2>1, <2>2, <2>3, <2>6, <2>8 DEF FoldInv
  <1> QED
    BY <1>12, <1>13, <1>14, <1>15 DEF Tracking, Exact, Polite

-----------------------------------------------------------------------------
(* Every step.                                                              *)

\* so every reader,
LEMMA ReadersTrack ==
    ASSUME AtReader, Unmasked,
           \/ on_underlying_io_bytes_received \/ decode_nothing \/ decode_while_opening
           \/ decode_upgrade_response \/ decode_masked_frame \/ decode_unmasked_frame \/ decode_length
           \/ consume_stream_buffer_bytes
           \/ frame_continuation \/ frame_data_final \/ frame_data_first
           \/ frame_close_bad \/ frame_close_answer \/ frame_close_by_peer \/ frame_ping \/ frame_ignored
    PROVE  Tracking'
  BY BytesTracks, NothingTracks, WhileOpeningTracks, UpgradeTracks, UnmaskedTracks, LengthTracks, ConsumeTracks,
     ContinuationTracks, FinalTracks, FirstTracks, ClosingTracks, PeerClosesTracks, PingTracks

\* every function of uws_client.c,
LEMMA UwsTracks ==
    ASSUME SocketClient, Unmasked, TypeOK, TypeOK', Books, Place(stack), StreamInv, QueueInv, Tracking,
           UwsNext, UNCHANGED <<sockVars, tlsVars, userVars>>
    PROVE  Tracking'
  <1>1. stack \in Seq(Frame) /\ stack' \in Seq(Frame) /\ script \in Seq(Unit)
    BY DEF TypeOK, SockTypeOK
  <1>2. UNCHANGED <<script, received, ended, delivered>>
    BY DEF sockVars, userVars
  <1>3. CASE Aside
    BY <1>1, <1>3, AsideStill, StillKept
  <1>4. CASE \/ on_underlying_io_bytes_received \/ decode_nothing \/ decode_while_opening
             \/ decode_upgrade_response \/ decode_masked_frame \/ decode_unmasked_frame \/ decode_length
             \/ consume_stream_buffer_bytes
             \/ frame_continuation \/ frame_data_final \/ frame_data_first
             \/ frame_close_bad \/ frame_close_answer \/ frame_close_by_peer \/ frame_ping \/ frame_ignored
    <2>1. /\ stack # <<>> /\ Top.at = "uws"
          /\ Top.fn \in {"on_bytes_received", "decode_stream", "decode_frame", "frame", "consume_stream_buffer_bytes"}
      BY <1>4 DEF on_underlying_io_bytes_received, decode_nothing, decode_while_opening,
                  decode_upgrade_response, decode_masked_frame, decode_unmasked_frame, decode_length,
                  consume_stream_buffer_bytes, frame_continuation, frame_data_final, frame_data_first,
                  frame_close_bad, frame_close_answer, frame_close_by_peer, frame_ping, frame_ignored,
                  Received, Running, Top
    <2>2. session' = session
      BY <1>4 DEF on_underlying_io_bytes_received, decode_nothing, decode_while_opening,
                  decode_upgrade_response, decode_masked_frame, decode_unmasked_frame, decode_length,
                  consume_stream_buffer_bytes, frame_continuation, frame_data_final, frame_data_first,
                  frame_close_bad, frame_close_answer, frame_close_by_peer, frame_ping, frame_ignored,
                  Reject, Others, uwsVars
    <2>3. AtReader
      BY <1>1, <1>2, <2>1, <2>2 DEF AtReader, Decoders
    <2> QED
      BY <1>4, <2>3, ReadersTrack
  <1>5. CASE message_done
    BY <1>1, <1>2, <1>5, MessageDoneTracks
  <1>6. CASE indicate_ws_error \/ indicate_ws_error_and_close
    BY <1>1, <1>2, <1>6, ErrorTracks
  <1>7. CASE uws_client_close_handshake_async
    BY <1>1, <1>2, <1>7, HandshakeTracks
  <1>8. CASE uws_client_open_async
    <2>1. CASE uws_state = "CLOSED"
      BY <1>1, <1>2, <1>8, <2>1, OpensTracks
    <2>2. CASE uws_state # "CLOSED"
      BY <1>3, <1>8, <2>2 DEF Aside
    <2> QED
      BY <2>1, <2>2
  <1>9. CASE upgrade_request_sent
    <2>1. CASE Top.ret = 0
      BY <1>1, <1>2, <1>9, <2>1, UpgradeSentTracks
    <2>2. CASE Top.ret # 0
      BY <1>3, <1>9, <2>2 DEF Aside
    <2> QED
      BY <2>1, <2>2
  <1>10. ~on_underlying_io_send_complete_freed
    BY NothingFreed
  <1> QED
    BY <1>3, <1>4, <1>5, <1>6, <1>7, <1>8, <1>9, <1>10 DEF UwsNext, Aside

\* and every step keeps the client in track.
LEMMA NextTracks ==
    ASSUME SocketClient, FramedScripts, Unmasked,
           TypeOK, TypeOK', Books, Place(stack), StreamInv, QueueInv, Tracking, [Next]_vars
    PROVE  Tracking'
  <1>1. stack \in Seq(Frame) /\ stack' \in Seq(Frame) /\ script \in Seq(Unit) /\ script' \in Seq(Unit)
    BY DEF TypeOK, SockTypeOK
  <1>2. CASE UserCalls /\ UNCHANGED <<sockVars, tlsVars, uwsVars>>
    BY <1>2, UserCallTracks
  <1>3. CASE SockNext /\ UNCHANGED <<tlsVars, uwsVars, userVars>>
    <2>1. CASE socketio_dowork_receive
      BY <1>3, <2>1, ReceiveTracks
    <2>2. CASE socketio_open_connected
      BY <1>1, <1>3, <2>2, ConnectedTracks
    <2>3. CASE ~socketio_dowork_receive /\ ~socketio_open_connected
      BY <1>1, <1>3, <2>3, SockStill, StillKept
    <2> QED
      BY <2>1, <2>2, <2>3
  <1>4. CASE UwsNext /\ UNCHANGED <<sockVars, tlsVars, userVars>>
    BY <1>4, UwsTracks
  <1>5. CASE UserSteps /\ UNCHANGED <<sockVars, tlsVars, uwsVars>>
    <2>1. CASE OnFrameReceived
      BY <1>1, <1>5, <2>1, DeliveryTracks
    <2>2. CASE ~OnFrameReceived
      BY <1>1, <1>5, <2>2, UserStill, StillKept
    <2> QED
      BY <2>1, <2>2
  <1>6. CASE ReturnStep /\ UNCHANGED <<sockVars, tlsVars, uwsVars, userVars>>
    BY <1>1, <1>6, UserStill, StillKept
  <1>7. CASE UNCHANGED vars
    <2>1. /\ UNCHANGED <<stack, script, received, stream_buffer, fragment_buffer, fragmented_frame_type, uws_state,
                         session, delivered, ended>>
      BY <1>7 DEF vars, sockVars, uwsVars, userVars
    <2>2. AlignInv' <=> AlignInv
      BY <2>1 DEF AlignInv, Reading, Failing, Top, Upgrading, Aligned, Arriving, Consumed, Boundary, Suits, NoneWhole
    <2>3. HotInv' /\ PoliteInv'
      BY <2>1 DEF Tracking, HotInv, PoliteInv, Beneath, Top
    <2>4. ASSUME FoldInv PROVE FoldInv'
      <3>1. Consumed' = Consumed /\ Due' = Due /\ Passed' = Passed /\ (Reading' => Reading)
        BY <2>1 DEF Consumed, Arriving, Due, Passed, Reading, Failing, Top
      <3>2. ASSUME Reading'
            PROVE  Consumed' + Due' \in 0 .. Len(script') /\ Reached(Assembled(script)[Consumed + Due])'
        BY <2>1, <2>4, <3>1, <3>2 DEF FoldInv, Reached
      <3> QED
        BY <2>1, <2>4, <3>2 DEF FoldInv, Top, MessagesAsSent
    <2> QED
      BY <2>2, <2>3, <2>4 DEF Tracking, Exact, Polite
  <1>8. ~TlsNext
    BY NoTls
  <1> QED
    BY <1>2, <1>3, <1>4, <1>5, <1>6, <1>7, <1>8 DEF Next, Step

\* Initially there is nothing to keep track of.
LEMMA InitTracks == Init => Tracking
  <1> SUFFICES ASSUME Init PROVE Tracking
    OBVIOUS
  <1>1. /\ stack = <<>> /\ script = <<>> /\ uws_state = "CLOSED" /\ session = 0
        /\ delivered = [s \in Sessions |-> <<>>]
    BY DEF Init, SockInit, UwsInit
  <1>2. ~Reading
    BY <1>1 DEF Reading, Sound, Polite
  <1>3. \A i \in DOMAIN script : FALSE
    BY <1>1
  <1>4. AlignInv
    BY <1>1, <1>2, <1>3 DEF AlignInv, Framed
  <1>5. HotInv
    BY <1>1, <1>3 DEF HotInv, DoneFirst
  <1>6. PoliteInv
    BY <1>1 DEF PoliteInv
  <1>7. FoldInv
    <2>1. Noticed(script)
      BY <1>3 DEF Noticed
    <2>2. session \in Sessions
      BY <1>1, BoundsAssumption DEF Sessions
    <2>3. MessagesAsSent
      <3>1. script \in Seq(Unit)
        BY <1>1
      <3> QED
        BY <1>1, <2>2, <3>1, EmptyBefore DEF MessagesAsSent
    <2> QED
      BY <1>1, <1>2, <2>1, <2>3 DEF FoldInv
  <1> QED
    BY <1>4, <1>5, <1>6, <1>7 DEF Tracking

\* With nobody in the stack and no control frames to stop at, the buffer holds no whole frame.
LEMMA NothingWhole ==
    ASSUME Tracking, NoFaults, NoControl
    PROVE  DecodedExactly
  <1> SUFFICES ASSUME stack = <<>>, uws_state = "OPEN", stream_buffer # <<>>
               PROVE  Len(stream_buffer) < needed_bytes(Head(stream_buffer))
    BY DEF DecodedExactly
  <1>1. Reading
    BY DEF Reading, Sound, Failing
  <1>2. Readers(stack) = {}
    BY EmptyStack
  <1> QED
    BY <1>1, <1>2 DEF Tracking, AlignInv, NoneWhole

(***************************************************************************)
(* Over a socket that never queues a send, or that is opened only once, a  *)
(* client whose callbacks do not open the connection again, and whose peer *)
(* sends well-formed frames that are neither masked nor control frames     *)
(* (other than close), leaves nothing whole undecoded when dowork returns. *)
(* The last hypothesis is needed: decode_stream is not set again after a   *)
(* ping, a pong or a reserved opcode (uws_client.c,                        *)
(* on_underlying_io_bytes_received), so what follows one of these in the   *)
(* buffer waits for the next bytes to arrive.                              *)
(***************************************************************************)
THEOREM StreamDecodedExactly ==
    ASSUME SocketClient, FreshQueue, FramedScripts, Unmasked, NoControl
    PROVE  Spec => []DecodedExactly
  <1> DEFINE Inv == TypeOK /\ SessionInv /\ SendInv /\ StreamInv /\ QueueInv /\ NoFaults /\ Tracking
  <1>1. Init => Inv
    BY InitType, InitSession, InitSend, InitStream, InitTracks
  <1>2. Inv /\ [Next]_vars => Inv'
    BY NextType, NextSession, NextSend, NextStream, NextTracks DEF SessionInv
  <1>3. Inv => DecodedExactly
    BY NothingWhole
  <1> QED
    BY <1>1, <1>2, <1>3, PTL DEF Spec

(***************************************************************************)
(* Over such a socket, and from a peer whose frames are well-formed and    *)
(* not masked, every session delivers a prefix of the messages that the    *)
(* peer sent in it: none is lost, repeated, cut, joined to another or      *)
(* given the wrong type, whether or not it came in fragments, with pings   *)
(* between them or not, and whatever the callbacks call meanwhile          *)
(* (uws_client.c, on_underlying_io_bytes_received).  Exact names what is   *)
(* excluded: a user that asks for the closing handshake before it was told *)
(* that the connection is open, and offences of the peer that the client   *)
(* does not notice, such as a text frame in the middle of another message. *)
(***************************************************************************)
THEOREM MessagesDeliveredAsSent ==
    ASSUME SocketClient, FreshQueue, FramedScripts, Unmasked, Exact
    PROVE  Spec => []MessagesAsSent
  <1> DEFINE Inv == TypeOK /\ SessionInv /\ SendInv /\ StreamInv /\ QueueInv /\ NoFaults /\ Tracking
  <1>1. Init => Inv
    BY InitType, InitSession, InitSend, InitStream, InitTracks
  <1>2. Inv /\ [Next]_vars => Inv'
    BY NextType, NextSession, NextSend, NextStream, NextTracks DEF SessionInv
  <1>3. Inv => MessagesAsSent
    BY DEF Tracking, FoldInv
  <1> QED
    BY <1>1, <1>2, <1>3, PTL DEF Spec

=============================================================================
