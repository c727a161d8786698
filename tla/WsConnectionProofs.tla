------------------------- MODULE WsConnectionProofs -------------------------
(***************************************************************************)
(* Theorems about WsConnection, for every choice of its constants.         *)
(***************************************************************************)
EXTENDS WsConnection, SequenceTheorems, TLAPS

-----------------------------------------------------------------------------
(* Frames: whatever a function calls is well called.                        *)

\* A frame made with the arguments its function relies on is a frame.
LEMMA MkFrameType ==
    ASSUME NEW l \in LayerNames, NEW f \in Functions, NEW a \in Arguments,
           NEW n \in Nat, NEW d \in Seq(Unit),
           f \in {"close", "close_rest"} => a \in XioArguments,
           f = "send" => a \in SendCallbacks,
           f = "on_ws_frame_received" => a \in FrameTypes,
           f \in {"decode_frame", "frame"} => d # <<>>
    PROVE  MkFrame(l, f, a, n, d) \in Frame
  BY DEF MkFrame, Frame, WellCalled

\* a function without arguments
LEMMA PlainFrameType ==
    ASSUME NEW l \in LayerNames,
           NEW f \in Functions \ {"send", "on_ws_frame_received", "decode_frame", "frame"}
    PROVE  MkFrame(l, f, "", 0, <<>>) \in Frame
  BY EmptySeq, MkFrameType DEF Arguments, XioArguments

\* a function that is handed the header of a frame
LEMMA HeaderFrameType ==
    ASSUME NEW f \in {"decode_frame", "frame"}, NEW a \in Arguments, NEW n \in Nat, NEW h \in Unit
    PROVE  MkFrame("uws", f, a, n, <<h>>) \in Frame
  <1>1. <<h>> \in Seq(Unit) /\ <<h>> # <<>>
    OBVIOUS
  <1>2. "uws" \in LayerNames /\ f \in Functions
    BY DEF LayerNames, Functions, UwsFunctions
  <1> DEFINE d == <<h>>
  <1> HIDE DEF d
  <1>3. MkFrame("uws", f, a, n, d) \in Frame
    BY <1>1, <1>2, MkFrameType DEF d
  <1> QED
    BY <1>3 DEF d

\* The neighbours of a layer are layers, whatever the layer.
LEMMA NeighbourType ==
    ASSUME NEW l
    PROVE  Above(l) \in LayerNames /\ Below(l) \in LayerNames
  <1>1. \A i \in DOMAIN Layers : Layers[i] \in LayerNames
    BY LayersAssumption
  <1>2. "user" \in LayerNames
    BY DEF LayerNames
  <1> QED
    BY <1>1, <1>2 DEF Above, Below

\* The calls down.
LEMMA CallTypes ==
    ASSUME NEW l
    PROVE  /\ xio_open(l) \in Frame
           /\ xio_dowork(l) \in Frame
           /\ xio_destroy(l) \in Frame
           /\ \A cb \in XioArguments : xio_close(l, cb) \in Frame
           /\ \A cb \in SendCallbacks, n \in Nat : xio_send(l, cb, n) \in Frame
  <1>1. Below(l) \in LayerNames /\ <<>> \in Seq(Unit)
    BY NeighbourType, EmptySeq
  <1>2. XioFunctions \subseteq Functions /\ "" \in XioArguments /\ XioArguments \subseteq Arguments
                                         /\ SendCallbacks \subseteq Arguments
    BY DEF Functions, Arguments, XioArguments
  <1>3. xio_open(l) \in Frame /\ xio_dowork(l) \in Frame /\ xio_destroy(l) \in Frame
    BY <1>1, <1>2, PlainFrameType DEF xio_open, xio_dowork, xio_destroy, XioFunctions
  <1>4. \A cb \in XioArguments : xio_close(l, cb) \in Frame
    BY <1>1, <1>2, MkFrameType DEF xio_close, XioFunctions
  <1>5. \A cb \in SendCallbacks, n \in Nat : xio_send(l, cb, n) \in Frame
    BY <1>1, <1>2, MkFrameType DEF xio_send, XioFunctions
  <1> QED
    BY <1>3, <1>4, <1>5

\* The callbacks up.
LEMMA CallbackTypes ==
    ASSUME NEW l
    PROVE  /\ \A r \in Arguments : on_io_open_complete(l, r) \in Frame
           /\ \A us \in Seq(Unit) : on_bytes_received(l, us) \in Frame
           /\ on_io_error(l) \in Frame
           /\ on_io_close_complete(l) \in Frame
  <1>1. Above(l) \in LayerNames /\ <<>> \in Seq(Unit)
    BY NeighbourType, EmptySeq
  <1>2. XioCallbacks \subseteq Functions /\ "" \in Arguments
    BY DEF Functions, Arguments, XioArguments
  <1>3. \A r \in Arguments : on_io_open_complete(l, r) \in Frame
    BY <1>1, <1>2, MkFrameType DEF on_io_open_complete, XioCallbacks
  <1>4. \A us \in Seq(Unit) : on_bytes_received(l, us) \in Frame
    BY <1>1, <1>2, MkFrameType DEF on_bytes_received, XioCallbacks
  <1>5. on_io_error(l) \in Frame /\ on_io_close_complete(l) \in Frame
    BY <1>1, <1>2, PlainFrameType DEF on_io_error, on_io_close_complete, XioCallbacks
  <1> QED
    BY <1>3, <1>4, <1>5

\* A callback for a finished send is no frame or one.
LEMMA SendCompleteType ==
    ASSUME NEW cb \in SendCallbacks, NEW r \in Arguments, NEW n \in Nat
    PROVE  on_send_complete(cb, r, n) \in Seq(Frame)
  <1>1. CASE cb \in {"NULL", "unchecked_on_send_complete"}
    BY <1>1, EmptySeq DEF on_send_complete
  <1>2. CASE cb \notin {"NULL", "unchecked_on_send_complete"}
    <2>1. "uws" \in LayerNames /\ cb \in Functions /\ <<>> \in Seq(Unit)
      BY <1>2, EmptySeq DEF LayerNames, SendCallbacks, Functions, UwsFunctions
    <2>2. cb \notin {"close", "close_rest", "send", "on_ws_frame_received", "decode_frame", "frame"}
      BY DEF SendCallbacks
    <2>3. MkFrame("uws", cb, r, n, <<>>) \in Frame
      BY <2>1, <2>2, MkFrameType
    <2> QED
      BY <1>2, <2>3 DEF on_send_complete
  <1> QED
    BY <1>1, <1>2

\* "return v" as a frame.
LEMMA ReturnFrameType ==
    ASSUME NEW l \in LayerNames, NEW v \in {0, 1}
    PROVE  ReturnFrame(l, v) \in Frame
  <1>1. MkFrame(l, "return", "", 0, <<>>) \in Frame
    BY PlainFrameType DEF Functions, XioFunctions
  <1> QED
    BY <1>1 DEF ReturnFrame, Frame, WellCalled

-----------------------------------------------------------------------------
(* The stack: what control does to it.                                      *)

\* the running frame
LEMMA TopType ==
    ASSUME stack \in Seq(Frame), stack # <<>>
    PROVE  /\ Top \in Frame
           /\ Tail(stack) \in Seq(Frame)
           /\ Top.arg \in Arguments
           /\ Top.n \in Nat
           /\ Top.data \in Seq(Unit)
           /\ Top.ret \in {0, 1}
           /\ WellCalled(Top)
  <1>1. Top \in Frame /\ Tail(stack) \in Seq(Frame)
    BY HeadTailProperties DEF Top
  <1> QED
    BY <1>1 DEF Frame

\* The running function is replaced by calls: Goto keeps the stack a stack of frames.
LEMMA GotoType ==
    ASSUME stack \in Seq(Frame), stack # <<>>, NEW fs \in Seq(Frame), Goto(fs)
    PROVE  stack' \in Seq(Frame)
  BY TopType, ConcatProperties DEF Goto

\* Up to three frames, written out, are a sequence of frames.
LEMMA FramesType ==
    /\ <<>> \in Seq(Frame)
    /\ \A a \in Frame : <<a>> \in Seq(Frame)
    /\ \A a, b \in Frame : <<a, b>> \in Seq(Frame)
    /\ \A a, b, c \in Frame : <<a, b, c>> \in Seq(Frame)
  OBVIOUS

\* ... by frames given one by one
LEMMA GotoFramesType ==
    ASSUME stack \in Seq(Frame), stack # <<>>
    PROVE  /\ Goto(<<>>) => stack' \in Seq(Frame)
           /\ \A a \in Frame : Goto(<<a>>) => stack' \in Seq(Frame)
           /\ \A a, b \in Frame : Goto(<<a, b>>) => stack' \in Seq(Frame)
           /\ \A a, b, c \in Frame : Goto(<<a, b, c>>) => stack' \in Seq(Frame)
  <1>2. Goto(<<>>) => stack' \in Seq(Frame)
    BY FramesType, GotoType
  <1>3. ASSUME NEW a \in Frame, Goto(<<a>>) PROVE stack' \in Seq(Frame)
    BY FramesType, <1>3, GotoType
  <1>4. ASSUME NEW a \in Frame, NEW b \in Frame, Goto(<<a, b>>) PROVE stack' \in Seq(Frame)
    BY FramesType, <1>4, GotoType
  <1>5. ASSUME NEW a \in Frame, NEW b \in Frame, NEW c \in Frame, Goto(<<a, b, c>>)
        PROVE  stack' \in Seq(Frame)
    BY FramesType, <1>5, GotoType
  <1> QED
    BY <1>2, <1>3, <1>4, <1>5

\* A void function returns to a stack of frames.
LEMMA PopType ==
    ASSUME stack \in Seq(Frame), stack # <<>>, Pop
    PROVE  stack' \in Seq(Frame)
  BY TopType DEF Pop

\* the result of a call, put into the frame of the caller
LEMMA RetType ==
    ASSUME NEW f \in Frame, NEW v \in {0, 1}
    PROVE  [f EXCEPT !.ret = v] \in Frame
  BY DEF Frame, WellCalled

\* A function returns a result to its caller, if it has one.
LEMMA ReturnType ==
    ASSUME stack \in Seq(Frame), stack # <<>>, NEW v \in {0, 1}, Return(v)
    PROVE  stack' \in Seq(Frame)
  <1>1. Tail(stack) \in Seq(Frame)
    BY TopType
  <1>2. CASE Tail(stack) = <<>>
    BY <1>2, EmptySeq DEF Return
  <1>3. CASE Tail(stack) # <<>>
    <2>1. Head(Tail(stack)) \in Frame /\ Tail(Tail(stack)) \in Seq(Frame)
      BY <1>1, <1>3, HeadTailProperties
    <2> DEFINE caller == [Head(Tail(stack)) EXCEPT !.ret = v]
    <2>2. caller \in Frame
      BY <2>1, RetType
    <2>3. stack' = <<caller>> \o Tail(Tail(stack))
      BY <1>3 DEF Return
    <2> HIDE DEF caller
    <2> QED
      BY <2>1, <2>2, <2>3, ConcatProperties
  <1> QED
    BY <1>2, <1>3

-----------------------------------------------------------------------------
(* The socket layer.                                                        *)

\* what has not been read yet is made of units
LEMMA UnreadType ==
    ASSUME script \in Seq(Unit), received \in Nat
    PROVE  /\ Unread \in Seq(Unit)
           /\ \A k \in 1 .. Len(Unread) : SubSeq(Unread, 1, k) \in Seq(Unit)
  <1>1. Unread \in Seq(Unit)
    BY SubSeqProperties DEF Unread
  <1>2. ASSUME NEW k \in 1 .. Len(Unread) PROVE SubSeq(Unread, 1, k) \in Seq(Unit)
    BY <1>1, SubSeqProperties
  <1> QED
    BY <1>1, <1>2

\* Every step of socketio_berkeley.c keeps its state and the stack well typed.
LEMMA SockStepType ==
    ASSUME stack \in Seq(Frame), SockTypeOK, SockNext
    PROVE  stack' \in Seq(Frame) /\ SockTypeOK'
  <1> USE DEF SockTypeOK, sockVars, SockStates, Running
  <1>1. "socket" \in LayerNames /\ {"", "OK", "ERROR"} \subseteq Arguments
    BY DEF LayerNames, Arguments, XioArguments
  <1>2. ReturnFrame("socket", 0) \in Frame
    BY <1>1, ReturnFrameType
  <1>3. dowork_sending \in Frame /\ dowork_sent \in Frame /\ dowork_receiving \in Frame
    BY <1>1, PlainFrameType
       DEF dowork_sending, dowork_sent, dowork_receiving, Functions, XioFunctions, SockFunctions
  <1>4. CASE socketio_open_refused
    BY <1>1, <1>2, <1>4, CallbackTypes, GotoFramesType DEF socketio_open_refused
  <1>5. CASE socketio_open_connected
    BY <1>1, <1>2, <1>5, CallbackTypes, GotoFramesType, ScriptsAssumption DEF socketio_open_connected
  <1>6. CASE socketio_open_failed
    BY <1>1, <1>2, <1>6, CallbackTypes, GotoFramesType DEF socketio_open_failed
  <1>7. CASE socketio_close
    BY <1>2, <1>7, CallbackTypes, GotoFramesType, ReturnType DEF socketio_close
  <1>8. CASE socketio_destroy
    BY <1>8, PopType, EmptySeq DEF socketio_destroy
  <1>9. CASE socketio_send_sent
    <2>1. on_send_complete(Top.arg, "OK", Top.n) \in Seq(Frame)
      BY <1>1, <1>9, TopType, SendCompleteType DEF socketio_send_sent, Top, WellCalled
    <2>2. on_send_complete(Top.arg, "OK", Top.n) \o <<ReturnFrame("socket", 0)>> \in Seq(Frame)
      BY <1>2, <2>1, ConcatProperties
    <2> QED
      BY <1>9, <2>2, GotoType DEF socketio_send_sent
  <1>10. CASE socketio_send_queued
    <2>1. [cb |-> Top.arg, n |-> Top.n] \in PendingIo
      BY <1>10, TopType DEF socketio_send_queued, PendingIo, Top, WellCalled
    <2>2. pending_io_list' \in Seq(PendingIo)
      BY <1>10, <2>1, AppendProperties DEF socketio_send_queued
    <2> QED
      BY <1>10, <2>2, ReturnType DEF socketio_send_queued
  <1>11. CASE socketio_send_failed
    BY <1>11, ReturnType DEF socketio_send_failed
  <1>12. CASE socketio_dowork_send_complete
    <2> DEFINE io == Head(pending_io_list)
    <2>1. io \in PendingIo
      BY <1>12, HeadTailProperties DEF socketio_dowork_send_complete
    <2>2. on_send_complete(io.cb, "OK", io.n) \in Seq(Frame)
      BY <1>1, <2>1, SendCompleteType DEF PendingIo
    <2>3. on_send_complete(io.cb, "OK", io.n) \o <<dowork_sent>> \in Seq(Frame)
      BY <1>3, <2>2, ConcatProperties
    <2> QED
      BY <1>12, <2>3, GotoType DEF socketio_dowork_send_complete
  <1>13. CASE socketio_dowork_remove
    BY <1>3, <1>13, GotoFramesType, HeadTailProperties DEF socketio_dowork_remove
  <1>14. CASE socketio_dowork_send_error
    BY <1>3, <1>14, CallbackTypes, GotoFramesType, HeadTailProperties DEF socketio_dowork_send_error
  <1>15. CASE socketio_dowork_send_end
    BY <1>3, <1>15, GotoFramesType DEF socketio_dowork_send_end
  <1>16. CASE socketio_dowork_receive
    <2>1. PICK k \in 1 .. Len(Unread) :
            /\ received' = received + k
            /\ Goto(<<on_bytes_received("socket", SubSeq(Unread, 1, k)), dowork_receiving>>)
      BY <1>16 DEF socketio_dowork_receive
    <2>2. on_bytes_received("socket", SubSeq(Unread, 1, k)) \in Frame
      BY UnreadType, CallbackTypes
    <2>3. Len(Unread) \in Nat
      BY UnreadType, LenProperties
    <2> QED
      BY <1>3, <1>16, <2>1, <2>2, <2>3, GotoFramesType DEF socketio_dowork_receive
  <1>17. CASE socketio_dowork_receive_error
    BY <1>17, CallbackTypes, GotoFramesType DEF socketio_dowork_receive_error
  <1>18. CASE socketio_dowork_receive_end
    BY <1>18, PopType DEF socketio_dowork_receive_end
  <1> QED
    BY <1>4, <1>5, <1>6, <1>7, <1>8, <1>9, <1>10, <1>11, <1>12, <1>13, <1>14, <1>15, <1>16,
       <1>17, <1>18 DEF SockNext

-----------------------------------------------------------------------------
(* The TLS layer.                                                           *)

\* what is left of a sequence of units when some are taken from its front
LEMMA UnitsType ==
    ASSUME NEW us \in Seq(Unit)
    PROVE  /\ us # <<>> => /\ Head(us) \in Unit
                           /\ Head(us).size \in Nat
           /\ \A k \in Nat : SubSeq(us, k + 1, Len(us)) \in Seq(Unit)
           /\ \A k \in 1 .. Len(us) : k \in Nat /\ SubSeq(us, 1, k) \in Seq(Unit)
  <1>1. us # <<>> => Head(us) \in Unit /\ Head(us).size \in Nat
    BY HeadTailProperties, UnitAssumption DEF UnitType
  <1>2. ASSUME NEW k \in Nat PROVE SubSeq(us, k + 1, Len(us)) \in Seq(Unit)
    BY SubSeqProperties
  <1>3. ASSUME NEW k \in 1 .. Len(us) PROVE k \in Nat /\ SubSeq(us, 1, k) \in Seq(Unit)
    BY SubSeqProperties
  <1> QED
    BY <1>1, <1>2, <1>3

\* One unit is a sequence of units.
LEMMA SingletonType ==
    ASSUME NEW u \in Unit
    PROVE  <<u>> \in Seq(Unit)
  OBVIOUS

\* The functions and continuations of tlsio_openssl.c are called with proper arguments.
LEMMA TlsFrameTypes ==
    /\ \A f \in TlsFunctions : Tls(f) \in Frame
    /\ \A cb \in XioArguments : close_rest(cb) \in Frame /\ MkFrame("tls", "close", cb, 0, <<>>) \in Frame
  <1>1. "tls" \in LayerNames /\ <<>> \in Seq(Unit)
    BY EmptySeq DEF LayerNames
  <1>2. TlsFunctions \subseteq Functions /\ XioArguments \subseteq Arguments /\ {"close", "close_rest"} \subseteq Functions
    BY DEF Functions, Arguments, TlsFunctions, XioFunctions
  <1>3. \A f \in TlsFunctions : Tls(f) \in Frame
    BY <1>1, <1>2, PlainFrameType DEF Tls, TlsFunctions
  <1>4. \A cb \in XioArguments : close_rest(cb) \in Frame /\ MkFrame("tls", "close", cb, 0, <<>>) \in Frame
    BY <1>1, <1>2, MkFrameType DEF close_rest
  <1> QED
    BY <1>3, <1>4

\* Every step of tlsio_openssl.c keeps its state and the stack well typed.
LEMMA TlsStepType ==
    ASSUME stack \in Seq(Frame), TlsTypeOK, TlsNext
    PROVE  stack' \in Seq(Frame) /\ TlsTypeOK'
  <1> USE DEF TlsTypeOK, tlsVars, TlsStates, TlsState, Running
  <1>1. {"OK", "ERROR", "CANCELLED"} \subseteq Arguments /\ {"NULL", "close_complete"} \subseteq XioArguments
        /\ "NULL" \in SendCallbacks
    BY DEF Arguments, XioArguments, SendCallbacks
  <1>2. /\ Tls("xio_open_returned") \in Frame /\ Tls("send_handshake_bytes") \in Frame
        /\ Tls("handshake_bytes_sent") \in Frame /\ Tls("decode_ssl_received_bytes") \in Frame
        /\ Tls("xio_close_returned") \in Frame /\ Tls("force_closed") \in Frame
        /\ Tls("close_openssl_instance") \in Frame /\ Tls("dowork_pumped") \in Frame
    BY TlsFrameTypes DEF TlsFunctions
  <1>3. CASE tlsio_openssl_open
    BY <1>2, <1>3, CallTypes, GotoFramesType, ReturnType, EmptySeq DEF tlsio_openssl_open
  <1>4. CASE tls_xio_open_returned
    BY <1>4, TopType, ReturnType DEF tls_xio_open_returned
  <1>5. CASE tls_on_underlying_io_open_complete
    BY <1>1, <1>2, <1>5, CallbackTypes, GotoFramesType DEF tls_on_underlying_io_open_complete
  <1>6. CASE send_handshake_bytes
    <2>1. HandshakeReceived => SubSeq(in_bio, Head(in_bio).size + 1, Len(in_bio)) \in Seq(Unit)
      BY UnitsType DEF HandshakeReceived
    <2> QED
      BY <1>1, <1>2, <1>6, <2>1, CallTypes, CallbackTypes, GotoFramesType, PopType DEF send_handshake_bytes
  <1>7. CASE handshake_bytes_sent
    BY <1>7, PopType DEF handshake_bytes_sent
  <1>8. CASE tls_on_underlying_io_bytes_received
    <2>1. in_bio \o Top.data \in Seq(Unit)
      BY <1>8, TopType, ConcatProperties DEF tls_on_underlying_io_bytes_received
    <2> QED
      BY <1>1, <1>2, <1>8, <2>1, CallbackTypes, GotoFramesType DEF tls_on_underlying_io_bytes_received
  <1>9. CASE decode_ssl_received_bytes
    BY <1>2, <1>9, UnitsType, CallbackTypes, GotoFramesType, PopType DEF decode_ssl_received_bytes
  <1>10. CASE tls_on_underlying_io_error
    BY <1>1, <1>10, CallbackTypes, GotoFramesType DEF tls_on_underlying_io_error
  <1>11. CASE tlsio_openssl_close
    <2>1. close_rest(Top.arg) \in Frame
      BY <1>11, TopType, TlsFrameTypes DEF tlsio_openssl_close, WellCalled, Top
    <2>2. (IF is_an_opening_state THEN <<on_io_open_complete("tls", "CANCELLED")>> ELSE <<>>) \in Seq(Frame)
      BY <1>1, CallbackTypes, FramesType
    <2>3. <<close_rest(Top.arg)>> \in Seq(Frame)
      BY <2>1, FramesType
    <2> QED
      BY <1>11, <2>2, <2>3, ConcatProperties, GotoType DEF tlsio_openssl_close
  <1>12. CASE tls_close_rest
    <2>1. Top.arg \in XioArguments
      BY <1>12, TopType DEF tls_close_rest, WellCalled, Top
    <2> QED
      BY <1>1, <1>2, <1>12, <2>1, CallTypes, GotoFramesType DEF tls_close_rest
  <1>13. CASE tls_xio_close_returned
    BY <1>13, ReturnType DEF tls_xio_close_returned
  <1>14. CASE tls_force_closed
    BY <1>14, ReturnType DEF tls_force_closed
  <1>15. CASE tls_on_underlying_io_close_complete
    <2> DEFINE report == CASE tls_state = "OPENING_UNDERLYING_IO" -> <<on_io_open_complete("tls", "ERROR")>>
                           [] tls_state = "CLOSING" /\ tls_on_close # "NULL" -> <<on_io_close_complete("tls")>>
                           [] OTHER -> <<>>
    <2>1. report \in Seq(Frame)
      BY <1>1, CallbackTypes, FramesType
    <2>2. <<Tls("close_openssl_instance")>> \in Seq(Frame)
      BY <1>2, FramesType
    <2>3. Goto(report \o <<Tls("close_openssl_instance")>>)
      BY <1>15 DEF tls_on_underlying_io_close_complete
    <2> HIDE DEF report
    <2>4. report \o <<Tls("close_openssl_instance")>> \in Seq(Frame)
      BY <2>1, <2>2, ConcatProperties
    <2> QED
      BY <1>15, <2>3, <2>4, GotoType DEF tls_on_underlying_io_close_complete
  <1>16. CASE close_openssl_instance
    BY <1>16, PopType DEF close_openssl_instance
  <1>17. CASE tlsio_openssl_destroy
    BY <1>17, CallTypes, GotoFramesType DEF tlsio_openssl_destroy
  <1>18. CASE tlsio_openssl_send
    BY <1>18, TopType, CallTypes, GotoFramesType, ReturnType DEF tlsio_openssl_send, WellCalled, Top
  <1>19. CASE tlsio_openssl_dowork
    BY <1>1, <1>2, <1>19, CallTypes, GotoFramesType, PopType DEF tlsio_openssl_dowork
  <1>20. CASE tls_dowork_pumped
    BY <1>1, <1>20, TlsFrameTypes, CallbackTypes, GotoFramesType, PopType DEF tls_dowork_pumped
  <1> QED
    BY <1>3, <1>4, <1>5, <1>6, <1>7, <1>8, <1>9, <1>10, <1>11, <1>12, <1>13, <1>14, <1>15, <1>16,
       <1>17, <1>18, <1>19, <1>20 DEF TlsNext

-----------------------------------------------------------------------------
(* The WebSocket client.                                                    *)

\* The functions and continuations of uws_client.c are called with proper arguments.
LEMMA UwsFrameTypes ==
    /\ \A f \in UwsFunctions \ {"decode_frame", "frame"} : Uws(f) \in Frame
    /\ \A n \in Nat, next \in {"again", "stop"} : consume(n, next) \in Frame
    /\ \A n \in Nat : MkFrame("uws", "frame_sent", "", n, <<>>) \in Frame
    /\ MkFrame("uws", "uws_client_close_async", "NULL", 0, <<>>) \in Frame
  <1>1. "uws" \in LayerNames /\ <<>> \in Seq(Unit) /\ {"again", "stop", "", "NULL"} \subseteq Arguments
    BY EmptySeq DEF LayerNames, Arguments, XioArguments
  <1>2. \A f \in UwsFunctions \ {"decode_frame", "frame"} : Uws(f) \in Frame
    BY <1>1, PlainFrameType DEF Uws, Functions, UwsFunctions
  <1>3. \A n \in Nat, next \in {"again", "stop"} : consume(n, next) \in Frame
    BY <1>1, MkFrameType DEF consume, Functions, UwsFunctions
  <1>4. \A n \in Nat : MkFrame("uws", "frame_sent", "", n, <<>>) \in Frame
    BY <1>1, MkFrameType DEF Functions, UwsFunctions
  <1>5. MkFrame("uws", "uws_client_close_async", "NULL", 0, <<>>) \in Frame
    BY <1>1, MkFrameType DEF Functions, UwsFunctions
  <1> QED
    BY <1>2, <1>3, <1>4, <1>5

\* the callbacks of the user
LEMMA UserFrameTypes ==
    ASSUME NEW n \in Nat, NEW d \in Seq(Unit)
    PROVE  /\ \A f \in UwsCallbacks \ {"on_ws_frame_received"}, a \in Arguments : User(f, a, n, d) \in Frame
           /\ \A a \in FrameTypes : User("on_ws_frame_received", a, n, d) \in Frame
  <1>1. "user" \in LayerNames /\ FrameTypes \subseteq Arguments /\ UwsCallbacks \subseteq Functions
    BY DEF LayerNames, Arguments, Functions
  <1>2. \A f \in UwsCallbacks \ {"on_ws_frame_received"}, a \in Arguments : User(f, a, n, d) \in Frame
    BY <1>1, MkFrameType DEF User, UwsCallbacks
  <1>3. \A a \in FrameTypes : User("on_ws_frame_received", a, n, d) \in Frame
    BY <1>1, MkFrameType DEF User, UwsCallbacks
  <1> QED
    BY <1>2, <1>3

\* the frames that the functions below make calls with
LEMMA UwsCallTypes ==
    /\ User("on_ws_open_complete", "OK", 0, <<>>) \in Frame
    /\ User("on_ws_open_complete", "ERROR", 0, <<>>) \in Frame
    /\ User("on_ws_error", "", 0, <<>>) \in Frame
    /\ User("on_ws_peer_closed", "", 0, <<>>) \in Frame
    /\ \A n \in Nat : User("on_ws_close_complete", "", n, <<>>) \in Frame
    /\ \A n \in Nat, a \in Arguments : User("on_ws_send_frame_complete", a, n, <<>>) \in Frame
    /\ Uws("open_complete_error") \in Frame /\ Uws("indicate_ws_error") \in Frame
    /\ Uws("indicate_ws_error_and_close") \in Frame /\ Uws("indicate_ws_close_complete") \in Frame
    /\ Uws("clear_pending_sends") \in Frame /\ Uws("call_on_ws_close_complete") \in Frame
    /\ Uws("set_closed") \in Frame /\ Uws("xio_open_returned") \in Frame
    /\ Uws("upgrade_request_sent") \in Frame /\ Uws("decode_stream") \in Frame
    /\ Uws("message_done") \in Frame /\ Uws("answer_sent") \in Frame
    /\ Uws("close_or_error") \in Frame /\ Uws("close_or_complete") \in Frame
    /\ Uws("close_sent_closed") \in Frame /\ Uws("close_async_closed") \in Frame
    /\ Uws("undefined") \in Frame
    /\ xio_close("uws", "NULL") \in Frame /\ xio_close("uws", "close_complete") \in Frame
    /\ \A cb \in SendCallbacks : xio_send("uws", cb, 0) \in Frame
    /\ {"unchecked_on_send_complete", "on_underlying_io_send_complete", "on_underlying_io_close_sent"}
         \subseteq SendCallbacks
  <1>1. {"", "OK", "ERROR"} \subseteq Arguments /\ <<>> \in Seq(Unit) /\ 0 \in Nat
    BY EmptySeq DEF Arguments, XioArguments
  <1>2. /\ User("on_ws_open_complete", "OK", 0, <<>>) \in Frame
        /\ User("on_ws_open_complete", "ERROR", 0, <<>>) \in Frame
        /\ User("on_ws_error", "", 0, <<>>) \in Frame
        /\ User("on_ws_peer_closed", "", 0, <<>>) \in Frame
        /\ \A n \in Nat : User("on_ws_close_complete", "", n, <<>>) \in Frame
        /\ \A n \in Nat, a \in Arguments : User("on_ws_send_frame_complete", a, n, <<>>) \in Frame
    BY <1>1, UserFrameTypes DEF UwsCallbacks
  <1>3. xio_close("uws", "NULL") \in Frame /\ xio_close("uws", "close_complete") \in Frame
    BY CallTypes DEF XioArguments
  <1>4. \A cb \in SendCallbacks : xio_send("uws", cb, 0) \in Frame
    BY <1>1, CallTypes
  <1> QED
    BY <1>2, <1>3, <1>4, UwsFrameTypes DEF UwsFunctions, SendCallbacks

\* The header that the start of the buffer is taken for is one of the units.
LEMMA HeaderType ==
    ASSUME NEW u \in Unit, NEW h \in HeadersAt(u)
    PROVE  h \in Unit
  BY DEF HeadersAt

\* The length of a frame, as needed_bytes computes it, is a natural number.
LEMMA NeededBytesType ==
    ASSUME NEW h \in Unit
    PROVE  /\ needed_bytes(h) \in Nat
           /\ opcode(h) \in Arguments
  <1>1. h \in UnitType
    BY UnitAssumption
  <1>2. needed_bytes(h) \in Nat
    BY <1>1 DEF UnitType, needed_bytes
  <1>3. opcode(h) \in Opcodes \cup {"handshake"}
    BY <1>1 DEF UnitType, opcode, Opcodes
  <1> QED
    BY <1>2, <1>3 DEF Arguments

\* The control of the client: opening, closing, reporting, sending.
LEMMA UwsControlType ==
    ASSUME stack \in Seq(Frame), UwsTypeOK,
           \/ indicate_ws_open_complete_error \/ indicate_ws_error \/ indicate_ws_error_and_close
           \/ indicate_ws_close_complete \/ clear_pending_sends \/ call_on_ws_close_complete \/ set_closed
           \/ uws_client_open_async \/ xio_open_returned
           \/ on_underlying_io_open_complete \/ upgrade_request_sent
           \/ on_underlying_io_close_sent \/ close_sent_closed \/ on_underlying_io_close_complete
           \/ on_underlying_io_error
           \/ uws_client_close_async \/ close_async_closed \/ uws_client_close_handshake_async
           \/ uws_client_destroy \/ uws_client_dowork
    PROVE  stack' \in Seq(Frame) /\ UwsTypeOK'
  <1> USE DEF UwsTypeOK, uwsVars, UwsStates, State, Buffers, Others, Running
  <1>0. "CANCELLED" \in Arguments /\ "uws" \in LayerNames
    BY DEF Arguments, XioArguments, LayerNames
  <1>1. CASE indicate_ws_open_complete_error
    BY <1>1, UwsCallTypes, GotoFramesType DEF indicate_ws_open_complete_error
  <1>2. CASE indicate_ws_error
    BY <1>2, UwsCallTypes, GotoFramesType DEF indicate_ws_error
  <1>3. CASE indicate_ws_error_and_close
    <2>1. PICK close \in {<<>>, <<xio_send("uws", "unchecked_on_send_complete", 0)>>} :
            Goto(close \o <<User("on_ws_error", "", 0, <<>>)>>)
      BY <1>3 DEF indicate_ws_error_and_close
    <2>2. close \in Seq(Frame) /\ <<User("on_ws_error", "", 0, <<>>)>> \in Seq(Frame)
      BY FramesType, UwsCallTypes
    <2> QED
      BY <1>3, <2>1, <2>2, ConcatProperties, GotoType DEF indicate_ws_error_and_close
  <1>4. CASE indicate_ws_close_complete
    BY <1>4, UwsCallTypes, GotoFramesType DEF indicate_ws_close_complete
  <1>5. CASE clear_pending_sends
    <2>1. CASE pending_sends = <<>>
      BY <1>5, <2>1, PopType DEF clear_pending_sends
    <2>2. CASE pending_sends # <<>>
      <3>1. Head(pending_sends) \in Nat /\ Tail(pending_sends) \in Seq(Nat)
        BY <2>2, HeadTailProperties
      <3>2. User("on_ws_send_frame_complete", "CANCELLED", Head(pending_sends), <<>>) \in Frame
        BY <1>0, <3>1, UwsCallTypes
      <3>3. stack' \in Seq(Frame)
        BY <1>5, <2>2, <3>2, UwsCallTypes, GotoFramesType DEF clear_pending_sends
      <3> QED
        BY <1>5, <2>2, <3>1, <3>3 DEF clear_pending_sends
    <2> QED
      BY <2>1, <2>2
  <1>6. CASE call_on_ws_close_complete
    BY <1>6, UwsCallTypes, GotoFramesType DEF call_on_ws_close_complete
  <1>7. CASE set_closed
    BY <1>7, UwsCallTypes, GotoFramesType, PopType DEF set_closed
  <1>8. CASE uws_client_open_async
    <2>1. stack' \in Seq(Frame)
      BY <1>8, CallTypes, ReturnType, UwsCallTypes, GotoFramesType DEF uws_client_open_async
    <2>2. CASE uws_state # "CLOSED"
      BY <1>8, <2>1, <2>2 DEF uws_client_open_async
    <2>3. CASE uws_state = "CLOSED"
      <3>1. session' = session + 1
        BY <1>8, <2>3 DEF uws_client_open_async
      <3>2. session' \in Nat
        <4> HIDE DEF UwsTypeOK
        <4>1. session \in Nat
          BY DEF UwsTypeOK
        <4> QED
          BY <3>1, <4>1
      <3>3. stream_buffer' = <<>> /\ fragment_buffer' = <<>>
        BY <1>8, <2>3 DEF uws_client_open_async
      <3>4. uws_state' \in UwsStates /\ fragmented_frame_type' \in FrameTypes
            /\ UNCHANGED <<pending_sends, on_ws_close_complete, faults>>
        BY <1>8, <2>3 DEF uws_client_open_async, FrameTypes
      <3> QED
        BY <2>1, <3>2, <3>3, <3>4, EmptySeq
    <2> QED
      BY <2>2, <2>3
  <1>9. CASE xio_open_returned
    BY <1>9, UwsCallTypes, GotoFramesType, TopType, ReturnType DEF xio_open_returned
  <1>10. CASE on_underlying_io_open_complete
    <2>1. Shut => stack' \in Seq(Frame)
      BY <1>10, UwsCallTypes, GotoFramesType DEF on_underlying_io_open_complete, Shut, open_complete_error_and_close
    <2>2. stack # <<>> /\ UNCHANGED uwsVars
      BY <1>10 DEF on_underlying_io_open_complete
    <2>3. Shut \/ Goto(<<Uws("open_complete_error")>>)
          \/ Goto(<<xio_send("uws", "unchecked_on_send_complete", 0), Uws("upgrade_request_sent")>>)
      BY <1>10 DEF on_underlying_io_open_complete
    <2>4. stack' \in Seq(Frame)
      BY <2>1, <2>2, <2>3, UwsCallTypes, GotoFramesType
    <2> QED
      BY <2>2, <2>4
  <1>11. CASE upgrade_request_sent
    BY <1>11, UwsCallTypes, GotoFramesType, PopType DEF upgrade_request_sent, Shut, open_complete_error_and_close
  <1>12. CASE on_underlying_io_close_sent
    BY <1>12, UwsCallTypes, GotoFramesType, PopType DEF on_underlying_io_close_sent
  <1>13. CASE close_sent_closed
    BY <1>13, UwsCallTypes, GotoFramesType DEF close_sent_closed
  <1>14. CASE on_underlying_io_close_complete
    BY <1>14, UwsCallTypes, GotoFramesType DEF on_underlying_io_close_complete
  <1>15. CASE on_underlying_io_error
    BY <1>15, UwsCallTypes, GotoFramesType DEF on_underlying_io_error, open_complete_error_and_close
  <1>16. CASE uws_client_close_async
    <2>1. stack' \in Seq(Frame)
      BY <1>16, ReturnType, UwsCallTypes, GotoFramesType DEF uws_client_close_async
    <2>2. PassedCallback \in Nat
      BY DEF PassedCallback
    <2>3. UwsTypeOK'
      BY <1>16, <2>2 DEF uws_client_close_async
    <2> QED
      BY <2>1, <2>3
  <1>17. CASE close_async_closed
    BY <1>0, UwsCallTypes, GotoFramesType, <1>17, ReturnType, ReturnFrameType DEF close_async_closed
  <1>18. CASE uws_client_close_handshake_async
    <2>1. stack' \in Seq(Frame)
      BY <1>18, ReturnType, UwsCallTypes, GotoFramesType DEF uws_client_close_handshake_async
    <2>2. PassedCallback \in Nat
      BY DEF PassedCallback
    <2>3. UwsTypeOK'
      BY <1>18, <2>2 DEF uws_client_close_handshake_async
    <2> QED
      BY <2>1, <2>3
  <1>19. CASE uws_client_destroy
    <2> DEFINE close == IF uws_state \in {"OPEN", "ERROR"}
                        THEN <<MkFrame("uws", "uws_client_close_async", "NULL", 0, <<>>)>> ELSE <<>>
               rest == <<xio_destroy("uws"), Uws("clear_pending_sends")>>
    <2>1. close \in Seq(Frame) /\ rest \in Seq(Frame)
      BY UwsFrameTypes, UwsCallTypes, CallTypes, FramesType
    <2>2. Goto(close \o rest)
      BY <1>19 DEF uws_client_destroy
    <2> HIDE DEF close, rest
    <2> QED
      BY <1>19, <2>1, <2>2, ConcatProperties, GotoType DEF uws_client_destroy
  <1>20. CASE uws_client_dowork
    BY <1>20, UwsCallTypes, GotoFramesType, CallTypes DEF uws_client_dowork
  <1> QED
    BY <1>1, <1>2, <1>3, <1>4, <1>5, <1>6, <1>7, <1>8, <1>9, <1>10, <1>11, <1>12, <1>13, <1>14,
       <1>15, <1>16, <1>17, <1>18, <1>19, <1>20

\* Taking an item out of the list of pending sends.
LEMMA WithoutType ==
    ASSUME pending_sends \in Seq(Nat), NEW x
    PROVE  Without(x) \in Seq(Nat)
  <1>1. CASE ~Listed(x)
    BY <1>1 DEF Without
  <1>2. CASE Listed(x)
    <2> DEFINE p == Position(pending_sends, x)
               m == Len(pending_sends) - 1
    <2>1. p \in 1 .. Len(pending_sends)
      BY <1>2 DEF Listed, Position
    <2>2. m \in Nat
      BY <2>1
    <2>3. ASSUME NEW i \in 1 .. m
          PROVE  pending_sends[IF i < p THEN i ELSE i + 1] \in Nat
      BY <2>1, <2>2, <2>3
    <2>4. Without(x) = [i \in 1 .. m |-> pending_sends[IF i < p THEN i ELSE i + 1]]
      BY <1>2 DEF Without
    <2> HIDE DEF p, m
    <2> QED
      BY <2>2, <2>3, <2>4, IsASeq
  <1> QED
    BY <1>1, <1>2

\* Sending.
LEMMA UwsSendType ==
    ASSUME stack \in Seq(Frame), UwsTypeOK,
           \/ uws_client_send_frame_async \/ frame_sent
           \/ on_underlying_io_send_complete \/ on_underlying_io_send_complete_freed
    PROVE  stack' \in Seq(Frame) /\ UwsTypeOK'
  <1> USE DEF UwsTypeOK, Buffers, Running
  <1>1. CASE uws_client_send_frame_async
    <2>1. Top.n \in Nat
      BY <1>1, TopType DEF uws_client_send_frame_async
    <2>2. Append(pending_sends, Top.n) \in Seq(Nat)
      BY <2>1, AppendProperties
    <2>3. /\ xio_send("uws", "on_underlying_io_send_complete", Top.n) \in Frame
          /\ MkFrame("uws", "frame_sent", "", Top.n, <<>>) \in Frame
      BY <2>1, CallTypes, UwsFrameTypes DEF SendCallbacks
    <2>4. stack' \in Seq(Frame)
      BY <1>1, <2>3, GotoFramesType, ReturnType DEF uws_client_send_frame_async
    <2> QED
      BY <1>1, <2>2, <2>4 DEF uws_client_send_frame_async
  <1>2. CASE frame_sent
    <2>1. Without(Top.n) \in Seq(Nat)
      BY WithoutType
    <2>2. stack' \in Seq(Frame)
      BY <1>2, TopType, ReturnType DEF frame_sent
    <2> QED
      BY <1>2, <2>1, <2>2 DEF frame_sent
  <1>3. CASE on_underlying_io_send_complete
    <2>1. Without(Top.n) \in Seq(Nat)
      BY WithoutType
    <2>2. stack' \in Seq(Frame)
      BY <1>3, TopType, UwsCallTypes, GotoFramesType DEF on_underlying_io_send_complete
    <2> QED
      BY <1>3, <2>1, <2>2 DEF on_underlying_io_send_complete
  <1>4. CASE on_underlying_io_send_complete_freed
    <2>1. stack' \in Seq(Frame)
      BY <1>4, TopType, UwsCallTypes, GotoFramesType, PopType DEF on_underlying_io_send_complete_freed
    <2> QED
      BY <1>4, <2>1 DEF on_underlying_io_send_complete_freed
  <1> QED
    BY <1>1, <1>2, <1>3, <1>4

\* Receiving, up to the header of a frame.
LEMMA UwsDecodeType ==
    ASSUME stack \in Seq(Frame), UwsTypeOK,
           \/ on_underlying_io_bytes_received
           \/ decode_nothing \/ decode_while_opening \/ decode_upgrade_response
           \/ decode_masked_frame \/ decode_unmasked_frame \/ decode_length
           \/ consume_stream_buffer_bytes
    PROVE  stack' \in Seq(Frame) /\ UwsTypeOK'
  <1> USE DEF UwsTypeOK, uwsVars, UwsStates, State, Others, Running
  <1>1. stack # <<>> /\ Shut => stack' \in Seq(Frame)
    BY UwsCallTypes, GotoFramesType DEF Shut, open_complete_error_and_close
  <1>2. CASE on_underlying_io_bytes_received
    <2>1. stream_buffer \o Top.data \in Seq(Unit)
      BY <1>2, TopType, ConcatProperties DEF on_underlying_io_bytes_received
    <2>2. stack' \in Seq(Frame)
      BY <1>1, <1>2, UwsCallTypes, GotoFramesType, PopType DEF on_underlying_io_bytes_received
    <2> QED
      BY <1>2, <2>1, <2>2 DEF on_underlying_io_bytes_received
  <1>3. CASE decode_nothing
    BY <1>3, PopType DEF decode_nothing
  <1>4. CASE decode_while_opening
    BY <1>1, <1>4 DEF decode_while_opening
  <1>5. CASE decode_upgrade_response
    <2>1. ResponseComplete => SubSeq(stream_buffer, Head(stream_buffer).size + 1, Len(stream_buffer)) \in Seq(Unit)
      BY UnitsType DEF ResponseComplete
    <2>2. stack' \in Seq(Frame)
      BY <1>1, <1>5, UwsCallTypes, GotoFramesType, PopType DEF decode_upgrade_response
    <2> QED
      BY <1>5, <2>1, <2>2 DEF decode_upgrade_response
  <1>6. CASE decode_masked_frame
    <2>1. PICK h \in HeadersAt(Head(stream_buffer)) :
            Goto(<<Uws("indicate_ws_error_and_close"), MkFrame("uws", "decode_frame", "", 0, <<h>>)>>)
      BY <1>6 DEF decode_masked_frame
    <2>2. h \in Unit /\ "" \in Arguments
      BY <1>6, UnitsType, HeaderType DEF decode_masked_frame, Arguments, XioArguments
    <2>3. MkFrame("uws", "decode_frame", "", 0, <<h>>) \in Frame
      BY <2>2, HeaderFrameType
    <2> QED
      BY <1>6, <2>1, <2>3, UwsCallTypes, GotoFramesType DEF decode_masked_frame
  <1>7. CASE decode_unmasked_frame
    <2>1. CASE Pop
      BY <1>7, <2>1, PopType DEF decode_unmasked_frame
    <2>2. CASE ~Pop
      <3>1. PICK h \in HeadersAt(Head(stream_buffer)) :
              Goto(<<MkFrame("uws", "decode_frame", "", 0, <<h>>)>>)
        BY <1>7, <2>2 DEF decode_unmasked_frame
      <3>2. h \in Unit /\ "" \in Arguments
        BY <1>7, <2>2, UnitsType, HeaderType DEF decode_unmasked_frame, Arguments, XioArguments
      <3>3. MkFrame("uws", "decode_frame", "", 0, <<h>>) \in Frame
        BY <3>2, HeaderFrameType
      <3> QED
        BY <1>7, <3>1, <3>3, GotoFramesType DEF decode_unmasked_frame
    <2> QED
      BY <2>1, <2>2
  <1>8. CASE decode_length
    <2> DEFINE h == Head(Top.data)
    <2>1. h \in Unit
      BY <1>8, TopType, UnitsType DEF decode_length, WellCalled, Top
    <2>2. MkFrame("uws", "frame", opcode(h), needed_bytes(h), <<h>>) \in Frame
      BY <2>1, NeededBytesType, HeaderFrameType
    <2>3. /\ stack # <<>>
          /\ UNCHANGED uwsVars
          /\ \/ Pop
             \/ Goto(<<Uws("indicate_ws_error")>>)
             \/ Goto(<<MkFrame("uws", "frame", opcode(h), needed_bytes(h), <<h>>)>>)
      BY <1>8 DEF decode_length
    <2> HIDE DEF h
    <2> QED
      BY <2>2, <2>3, UwsCallTypes, GotoFramesType, PopType
  <1>9. CASE consume_stream_buffer_bytes
    <2>1. stream_buffer' \in Seq(Unit)
      BY <1>9, TopType, UnitsType DEF consume_stream_buffer_bytes
    <2>2. stack' \in Seq(Frame)
      BY <1>9, UwsCallTypes, GotoFramesType DEF consume_stream_buffer_bytes
    <2> QED
      BY <1>9, <2>1, <2>2 DEF consume_stream_buffer_bytes
  <1> QED
    BY <1>2, <1>3, <1>4, <1>5, <1>6, <1>7, <1>8, <1>9

\* Receiving: one action per kind of frame.
LEMMA UwsFrameReceivedType ==
    ASSUME stack \in Seq(Frame), UwsTypeOK,
           \/ frame_continuation \/ message_done \/ frame_data_final \/ frame_data_first
           \/ frame_close_bad \/ frame_close_answer \/ frame_close_by_peer \/ answer_sent
           \/ close_or_error \/ close_or_complete \/ frame_ping \/ frame_ignored
    PROVE  stack' \in Seq(Frame) /\ UwsTypeOK'
  <1> USE DEF UwsTypeOK, uwsVars, UwsStates, State, Buffers, Others, Running
  <1>1. ASSUME Running("uws", "frame")
        PROVE  /\ stack # <<>>
               /\ h_ \in Unit
               /\ <<h_>> \in Seq(Unit)
               /\ Append(fragment_buffer, h_) \in Seq(Unit)
               /\ Consume("again") \in Frame
               /\ Consume("stop") \in Frame
    <2>1. h_ \in Unit /\ Top.n \in Nat
      BY <1>1, TopType, UnitsType DEF h_, WellCalled, Top
    <2>2. ASSUME NEW u \in Unit
          PROVE  <<u>> \in Seq(Unit) /\ Append(fragment_buffer, u) \in Seq(Unit)
      <3>1. <<u>> \in Seq(Unit)
        BY SingletonType
      <3>2. Append(fragment_buffer, u) \in Seq(Unit)
        BY AppendProperties
      <3> QED
        BY <3>1, <3>2
    <2>3. Consume("again") \in Frame /\ Consume("stop") \in Frame
      BY <2>1, UwsFrameTypes DEF Consume
    <2> QED
      BY <1>1, <2>1, <2>2, <2>3
  <1>2. ASSUME Running("uws", "frame"), NEW next \in {"again", "stop"}, Reject(next)
        PROVE  stack' \in Seq(Frame) /\ UwsTypeOK'
    BY <1>1, <1>2, UwsCallTypes, GotoFramesType DEF Reject
  <1>3. CASE frame_continuation
    <2>1. Running("uws", "frame")
      BY <1>3 DEF frame_continuation, Received
    <2>2. CASE Reject("stop")
      BY <1>2, <2>1, <2>2
    <2>3. CASE ~Reject("stop")
      <3>1. fragment_buffer' \in Seq(Unit)
            /\ UNCHANGED <<uws_state, stream_buffer, fragmented_frame_type, Others>>
        BY <1>1, <1>3, <2>1, <2>3 DEF frame_continuation
      <3>2. User("on_ws_frame_received", fragmented_frame_type, 0, fragment_buffer') \in Frame
        BY <3>1, UserFrameTypes
      <3>3. stack' \in Seq(Frame)
        BY <1>1, <1>3, <2>1, <2>3, <3>2, UwsCallTypes, GotoFramesType DEF frame_continuation
      <3> QED
        BY <3>1, <3>3
    <2> QED
      BY <2>2, <2>3
  <1>4. CASE message_done
    BY <1>4, PopType, EmptySeq DEF message_done, FrameTypes
  <1>5. CASE frame_data_final
    <2>1. PICK op \in {"text", "binary"} :
            /\ Received(op)
            /\ Goto(<<User("on_ws_frame_received", DataType(op), 0, <<h_>>), Consume("again")>>)
      BY <1>5 DEF frame_data_final
    <2>2. DataType(op) \in FrameTypes
      BY DEF DataType, FrameTypes
    <2>3. User("on_ws_frame_received", DataType(op), 0, <<h_>>) \in Frame
      BY <1>1, <2>1, <2>2, UserFrameTypes DEF Received
    <2> QED
      BY <1>1, <1>5, <2>1, <2>3, GotoFramesType DEF Received, frame_data_final
  <1>6. CASE frame_data_first
    <2>1. PICK op \in {"text", "binary"} :
            /\ Received(op)
            /\ \/ Reject("again") \/ Reject("stop")
               \/ /\ fragment_buffer' = Append(fragment_buffer, h_)
                  /\ fragmented_frame_type' = DataType(op)
                  /\ Goto(<<Consume("again")>>)
                  /\ UNCHANGED <<uws_state, stream_buffer, Others>>
      BY <1>6 DEF frame_data_first
    <2>2. DataType(op) \in FrameTypes
      BY DEF DataType, FrameTypes
    <2>3. CASE Reject("again") \/ Reject("stop")
      BY <1>2, <2>1, <2>3 DEF Received
    <2>4. CASE ~(Reject("again") \/ Reject("stop"))
      BY <1>1, <2>1, <2>2, <2>4, GotoFramesType DEF Received
    <2> QED
      BY <2>3, <2>4
  <1>7. CASE frame_close_bad
    <2>1. Running("uws", "frame")
      BY <1>7 DEF frame_close_bad, Received
    <2>2. CASE Reject("stop")
      BY <1>2, <2>1, <2>2
    <2>3. CASE ~Reject("stop")
      BY <1>1, <1>7, <2>1, <2>3, UwsCallTypes, GotoFramesType DEF frame_close_bad
    <2> QED
      BY <2>2, <2>3
  <1>8. CASE frame_close_answer
    BY <1>1, <1>8, UwsCallTypes, GotoFramesType DEF frame_close_answer, Received
  <1>9. CASE frame_close_by_peer
    <2> DEFINE reported == <<User("on_ws_peer_closed", "", 0, <<>>), Consume("stop")>>
               sent == <<xio_send("uws", "on_underlying_io_close_sent", 0), Uws("answer_sent")>>
               closed == <<xio_close("uws", "close_complete"), Uws("close_or_error")>>
    <2>1. stack # <<>> /\ reported \in Seq(Frame) /\ sent \in Seq(Frame) /\ closed \in Seq(Frame)
      BY <1>1, <1>9, UwsCallTypes, FramesType DEF frame_close_by_peer, Received
    <2>2. /\ Goto(sent \o reported) \/ Goto(closed \o reported)
          /\ UNCHANGED <<Buffers, Others>>
          /\ uws_state' \in UwsStates
      BY <1>9 DEF frame_close_by_peer
    <2> HIDE DEF reported, sent, closed
    <2> QED
      BY <2>1, <2>2, ConcatProperties, GotoType
  <1>10. CASE answer_sent
    BY <1>10, UwsCallTypes, GotoFramesType, PopType DEF answer_sent
  <1>11. CASE close_or_error
    BY <1>11, UwsCallTypes, GotoFramesType DEF close_or_error
  <1>12. CASE close_or_complete
    BY <1>12, UwsCallTypes, GotoFramesType DEF close_or_complete
  <1>13. CASE frame_ping
    <2>1. Running("uws", "frame")
      BY <1>13 DEF frame_ping, Received
    <2>2. CASE Reject("stop")
      BY <1>2, <2>1, <2>2
    <2>3. CASE ~Reject("stop")
      BY <1>1, <1>13, <2>1, <2>3, UwsCallTypes, GotoFramesType DEF frame_ping
    <2> QED
      BY <2>2, <2>3
  <1>14. CASE frame_ignored
    BY <1>1, <1>14, GotoFramesType DEF frame_ignored, Received
  <1> QED
    BY <1>3, <1>4, <1>5, <1>6, <1>7, <1>8, <1>9, <1>10, <1>11, <1>12, <1>13, <1>14

\* Every step of uws_client.c keeps its state and the stack well typed.
LEMMA UwsStepType ==
    ASSUME stack \in Seq(Frame), UwsTypeOK, UwsNext
    PROVE  stack' \in Seq(Frame) /\ UwsTypeOK'
  BY UwsControlType, UwsSendType, UwsDecodeType, UwsFrameReceivedType DEF UwsNext

-----------------------------------------------------------------------------
(* The user.                                                                *)

\* Counting up stays within the natural numbers.
LEMMA SuccType == \A x \in Nat : x + 1 \in Nat
  OBVIOUS

\* A call, from outside or from inside a callback.
LEMMA CallType ==
    ASSUME stack \in Seq(Frame), NEW n \in Nat,
           NEW f \in UwsFunctions \ {"decode_frame", "frame"},
           NEW a \in {"", "cb", "NULL"}, NEW c \in {"open", "close", "close_null", "send"},
           Call(f, a, c, n)
    PROVE  stack' \in Seq(Frame)
  <1>1. /\ "uws" \in LayerNames /\ "user" \in LayerNames
        /\ a \in Arguments /\ c \in Arguments
        /\ f \in Functions /\ "returned" \in Functions
        /\ f \notin {"close", "close_rest", "send", "on_ws_frame_received", "decode_frame", "frame"}
        /\ <<>> \in Seq(Unit)
    <2>1. "uws" \in LayerNames /\ "user" \in LayerNames /\ <<>> \in Seq(Unit)
      BY EmptySeq DEF LayerNames
    <2>2. a \in Arguments /\ c \in Arguments
      BY DEF Arguments, XioArguments, Opcodes
    <2>3. f \in Functions /\ "returned" \in Functions
      BY DEF Functions, UserFunctions
    <2>4. f \notin {"close", "close_rest", "send", "on_ws_frame_received", "decode_frame", "frame"}
      BY DEF UwsFunctions
    <2> QED
      BY <2>1, <2>2, <2>3, <2>4
  <1> DEFINE call == <<MkFrame("uws", f, a, n, <<>>), MkFrame("user", "returned", c, n, <<>>)>>
             rest == IF stack = <<>> THEN <<>> ELSE <<[Top EXCEPT !.n = @ + 1]>> \o Tail(stack)
  <1>2. MkFrame("uws", f, a, n, <<>>) \in Frame /\ MkFrame("user", "returned", c, n, <<>>) \in Frame
    BY <1>1, MkFrameType
  <1>3. call \in Seq(Frame)
    BY <1>2, FramesType
  <1>4. rest \in Seq(Frame)
    <2>1. CASE stack = <<>>
      BY <2>1, FramesType
    <2>2. CASE stack # <<>>
      <3> DEFINE caller == [Top EXCEPT !.n = @ + 1]
      <3>1. Top \in Frame /\ Tail(stack) \in Seq(Frame)
        BY <2>2, TopType
      <3>2. ASSUME NEW g \in Frame PROVE [g EXCEPT !.n = @ + 1] \in Frame
        <4>1. g.n + 1 \in Nat
          <5>1. g.n \in Nat
            BY DEF Frame
          <5> QED
            BY <5>1, SuccType
        <4>2. \A m \in Nat : [g EXCEPT !.n = m] \in Frame
          BY DEF Frame, WellCalled
        <4> QED
          BY <4>1, <4>2
      <3>3. caller \in Frame
        BY <3>1, <3>2
      <3>4. rest = <<caller>> \o Tail(stack)
        BY <2>2
      <3> HIDE DEF caller
      <3> QED
        BY <3>1, <3>3, <3>4, FramesType, ConcatProperties
    <2> QED
      BY <2>1, <2>2
  <1>5. stack' = call \o rest
    BY DEF Call
  <1> HIDE DEF call, rest
  <1> QED
    BY <1>3, <1>4, <1>5, ConcatProperties

\* what the user has noted
UserTypeOK ==
    /\ opens \in 0 .. MaxOpens
    /\ sends \in 0 .. MaxSends
    /\ unopened \subseteq Nat
    /\ refused \subseteq Nat
    /\ completions \in [SendIds -> Nat]
    /\ openReports \in [Sessions -> Nat]
    /\ delivered \in [Sessions -> Seq(Message)]
    /\ closing \subseteq Nat
    /\ asked \subseteq Nat
    /\ closeReports \in [Sessions -> Nat]
    /\ ended \subseteq Nat
    /\ alive \in BOOLEAN

\* Every API call of the user keeps the stack and what the user noted well typed.
LEMMA UserCallType ==
    ASSUME stack \in Seq(Frame), session \in Nat, UserTypeOK, UserCalls
    PROVE  stack' \in Seq(Frame) /\ UserTypeOK'
  <1> USE BoundsAssumption DEF UserTypeOK, userVars
  <1>1. CASE CallOpen
    <2>1. session + 1 \in Nat
      OBVIOUS
    <2>2. stack' \in Seq(Frame)
      BY <1>1, <2>1, CallType DEF CallOpen, UwsFunctions
    <2>3. opens' \in 0 .. MaxOpens
      <3> HIDE DEF UserTypeOK
      <3>1. opens \in 0 .. MaxOpens
        BY DEF UserTypeOK
      <3>2. opens' = opens + 1 /\ opens < MaxOpens
        BY <1>1 DEF CallOpen
      <3> QED
        BY <3>1, <3>2
    <2> QED
      BY <1>1, <2>2, <2>3 DEF CallOpen
  <1>2. CASE CallClose
    <2>1. stack' \in Seq(Frame)
      BY <1>2, CallType DEF CallClose, UwsFunctions
    <2> QED
      BY <1>2, <2>1 DEF CallClose
  <1>3. CASE CallCloseNull
    <2>1. stack' \in Seq(Frame)
      BY <1>3, CallType DEF CallCloseNull, UwsFunctions
    <2> QED
      BY <1>3, <2>1 DEF CallCloseNull
  <1>4. CASE CallSend
    <2>1. sends + 1 \in Nat
      OBVIOUS
    <2>2. stack' \in Seq(Frame)
      BY <1>4, <2>1, CallType DEF CallSend, UwsFunctions
    <2>3. sends' \in 0 .. MaxSends
      <3> HIDE DEF UserTypeOK
      <3>1. sends \in 0 .. MaxSends
        BY DEF UserTypeOK
      <3>2. sends' = sends + 1 /\ sends < MaxSends
        BY <1>4 DEF CallSend
      <3> QED
        BY <3>1, <3>2
    <2> QED
      BY <1>4, <2>2, <2>3 DEF CallSend
  <1>5. MkFrame("uws", "uws_client_dowork", "", 0, <<>>) \in Frame
        /\ MkFrame("uws", "uws_client_destroy", "", 0, <<>>) \in Frame
    BY UwsFrameTypes DEF Uws, UwsFunctions
  <1>6. CASE CallDowork
    <2>1. stack' \in Seq(Frame)
      BY <1>5, <1>6, FramesType DEF CallDowork
    <2> QED
      BY <1>6, <2>1 DEF CallDowork
  <1>7. CASE CallDestroy
    <2>1. stack' \in Seq(Frame)
      BY <1>5, <1>7, FramesType DEF CallDestroy
    <2> QED
      BY <1>7, <2>1 DEF CallDestroy
  <1> QED
    BY <1>1, <1>2, <1>3, <1>4, <1>6, <1>7 DEF UserCalls

\* counting one more report
LEMMA CountType ==
    ASSUME NEW S, NEW c \in [S -> Nat], NEW i
    PROVE  [c EXCEPT ![i] = @ + 1] \in [S -> Nat]
  <1>1. \A j \in S : c[j] + 1 \in Nat
    OBVIOUS
  <1> QED
    BY <1>1

\* Every callback and return to the user keeps the stack and its notes well typed.
LEMMA UserStepType ==
    ASSUME stack \in Seq(Frame), session \in Nat, UserTypeOK, UserSteps
    PROVE  stack' \in Seq(Frame) /\ UserTypeOK'
  <1> USE DEF UserTypeOK, userVars
  <1>1. stack # <<>> /\ InCallback => stack' \in Seq(Frame)
    <2>1. MkFrame("user", "in_callback", "", 0, <<>>) \in Frame
      BY PlainFrameType DEF LayerNames, Functions, UserFunctions
    <2> QED
      BY <2>1, GotoFramesType DEF InCallback
  <1>2. CASE Returned
    <2>1. Top.n \in Nat /\ stack' \in Seq(Frame)
      BY <1>2, TopType, PopType DEF Returned, Running
    <2> QED
      BY <1>2, <2>1 DEF Returned
  <1>3. CASE OnOpenComplete
    <2>1. [openReports EXCEPT ![session] = @ + 1] \in [Sessions -> Nat]
      BY CountType
    <2> QED
      BY <1>1, <1>3, <2>1 DEF OnOpenComplete, Running
  <1>4. CASE OnFrameReceived
    <2>1. [type |-> Top.arg, parts |-> Top.data] \in Message
      BY <1>4, TopType DEF OnFrameReceived, Running, WellCalled, Top, Message
    <2>2. \A d \in Seq(Message) : Append(d, [type |-> Top.arg, parts |-> Top.data]) \in Seq(Message)
      BY <2>1, AppendProperties
    <2>3. delivered' \in [Sessions -> Seq(Message)]
      BY <1>4, <2>2 DEF OnFrameReceived
    <2> QED
      BY <1>1, <1>4, <2>3 DEF OnFrameReceived, Running
  <1>5. CASE OnSendComplete
    <2>1. [completions EXCEPT ![Top.n] = @ + 1] \in [SendIds -> Nat]
      BY CountType
    <2> QED
      BY <1>1, <1>5, <2>1 DEF OnSendComplete, Running
  <1>6. CASE OnError
    BY <1>1, <1>6 DEF OnError, Running
  <1>7. CASE OnPeerClosed
    BY <1>1, <1>7 DEF OnPeerClosed, Running
  <1>8. CASE OnCloseComplete
    <2>1. [closeReports EXCEPT ![Top.n] = @ + 1] \in [Sessions -> Nat]
      BY CountType
    <2> QED
      BY <1>1, <1>8, <2>1, TopType DEF OnCloseComplete, Running
  <1>9. CASE CallbackReturns
    BY <1>9, PopType DEF CallbackReturns, Running
  <1> QED
    BY <1>2, <1>3, <1>4, <1>5, <1>6, <1>7, <1>8, <1>9 DEF UserSteps

-----------------------------------------------------------------------------
(* The whole connection.                                                    *)

\* The type invariant is the conjunction of those of the layers.
LEMMA TypeOKParts ==
    TypeOK <=> stack \in Seq(Frame) /\ SockTypeOK /\ TlsTypeOK /\ UwsTypeOK /\ UserTypeOK
  BY DEF TypeOK, UserTypeOK

\* A freshly created connection is well typed.
LEMMA InitType == Init => TypeOK
  <1> SUFFICES ASSUME Init PROVE TypeOK
    OBVIOUS
  <1>1. stack \in Seq(Frame)
    BY FramesType DEF Init
  <1>2. SockTypeOK
    BY EmptySeq DEF Init, SockInit, SockTypeOK, SockStates
  <1>3. TlsTypeOK
    BY EmptySeq DEF Init, TlsInit, TlsTypeOK, TlsStates, XioArguments
  <1>4. UwsTypeOK
    BY EmptySeq DEF Init, UwsInit, UwsTypeOK, UwsStates, FrameTypes
  <1>5. UserTypeOK
    BY EmptySeq, BoundsAssumption DEF Init, UserTypeOK
  <1> QED
    BY <1>1, <1>2, <1>3, <1>4, <1>5, TypeOKParts

\* No step of any layer or of the user leaves the types.
LEMMA NextType == TypeOK /\ [Next]_vars => TypeOK'
  <1> SUFFICES ASSUME TypeOK, [Next]_vars PROVE TypeOK'
    OBVIOUS
  <1>1. stack \in Seq(Frame) /\ SockTypeOK /\ TlsTypeOK /\ UwsTypeOK /\ UserTypeOK
    BY TypeOKParts
  <1>2. UNCHANGED sockVars => SockTypeOK'
    BY <1>1 DEF sockVars, SockTypeOK
  <1>3. UNCHANGED tlsVars => TlsTypeOK'
    BY <1>1 DEF tlsVars, TlsTypeOK
  <1>4. UNCHANGED uwsVars => UwsTypeOK'
    BY <1>1 DEF uwsVars, UwsTypeOK
  <1>5. UNCHANGED userVars => UserTypeOK'
    BY <1>1 DEF userVars, UserTypeOK
  <1>6. session \in Nat
    BY <1>1 DEF UwsTypeOK
  <1>7. stack' \in Seq(Frame) /\ SockTypeOK' /\ TlsTypeOK' /\ UwsTypeOK' /\ UserTypeOK'
    <2>1. CASE SockNext /\ UNCHANGED <<tlsVars, uwsVars, userVars>>
      BY <1>1, <1>3, <1>4, <1>5, <2>1, SockStepType
    <2>2. CASE TlsNext /\ UNCHANGED <<sockVars, uwsVars, userVars>>
      BY <1>1, <1>2, <1>4, <1>5, <2>2, TlsStepType
    <2>3. CASE UwsNext /\ UNCHANGED <<sockVars, tlsVars, userVars>>
      BY <1>1, <1>2, <1>3, <1>5, <2>3, UwsStepType
    <2>4. CASE UserSteps /\ UNCHANGED <<sockVars, tlsVars, uwsVars>>
      BY <1>1, <1>2, <1>3, <1>4, <1>6, <2>4, UserStepType
    <2>5. CASE ReturnStep /\ UNCHANGED <<sockVars, tlsVars, uwsVars, userVars>>
      BY <1>1, <1>2, <1>3, <1>4, <1>5, <2>5, TopType, ReturnType DEF ReturnStep
    <2>6. CASE UserCalls /\ UNCHANGED <<sockVars, tlsVars, uwsVars>>
      BY <1>1, <1>2, <1>3, <1>4, <1>6, <2>6, UserCallType
    <2>7. CASE UNCHANGED vars
      BY <1>1, <1>2, <1>3, <1>4, <1>5, <2>7 DEF vars
    <2> QED
      BY <2>1, <2>2, <2>3, <2>4, <2>5, <2>6, <2>7 DEF Next, Step
  <1> QED
    BY <1>7 DEF TypeOK, UserTypeOK

(***************************************************************************)
(* For any stack of layers, any script of the peer and any bounds: every   *)
(* function is called with the arguments it relies on (a header for the    *)
(* handler of a frame, a callback for xio_send), and all the state of      *)
(* socketio, tlsio_openssl and uws_client stays within its types.          *)
(***************************************************************************)
THEOREM TypeCorrect == Spec => []TypeOK
  BY InitType, NextType, PTL DEF Spec

(***************************************************************************)
(* A send is reported complete at most once, and never after it was        *)
(* refused.  It passes from hand to hand: from the call of the user to the *)
(* list pending_sends, from there to the callback or, when xio_send        *)
(* failed, back to the caller as a refusal.  The inductive invariant says  *)
(* who has it.  Its difficult part is the refusal, which is a value        *)
(* returned through the stack: between xio_send and                        *)
(* uws_client_send_frame_async, or between that and the user, nothing else *)
(* may be returning a value.                                               *)
(***************************************************************************)

-----------------------------------------------------------------------------
(* The stack.                                                               *)

\* the functions that return a value, when they return
Returning ==
    {"open", "close", "send", "return", "close_rest", "xio_open_returned", "xio_close_returned",
     "force_closed", "uws_client_open_async", "uws_client_close_async", "close_async_closed",
     "uws_client_close_handshake_async", "uws_client_send_frame_async", "frame_sent"}

\* those whose value says what became of a send
InSend == {"send", "return", "uws_client_send_frame_async", "frame_sent"}

\* They make no call before they are replaced by something else.
AtTopOnly == {"send", "uws_client_send_frame_async", "on_ws_send_frame_complete"}

\* the caller of uws_client_send_frame_async
AwaitsSend(f) == f.fn = "returned" /\ f.arg = "send"

\* What may run right above a frame: nothing that returns a value above a pending
\* "return v", nothing but the send itself above a frame that waits for its result.
Link(a, b) ==
    /\ b.fn = "return" => a.fn \notin Returning
    /\ b.fn = "frame_sent" => a.fn = "send" \/ (a.fn = "return" /\ a.ret = 0)
    /\ AwaitsSend(b) => a.fn \in {"uws_client_send_frame_async", "frame_sent"} /\ a.n = b.n

Linked(s) == \A i \in 2 .. Len(s) : s[i].fn \notin AtTopOnly /\ Link(s[i - 1], s[i])

\* The running frame has nothing to do with a send of the user.
Calm(s) ==
    s # <<>> =>
      /\ s[1].fn \notin {"uws_client_send_frame_async", "on_ws_send_frame_complete", "frame_sent"}
      /\ ~AwaitsSend(s[1])
      /\ s[1].fn = "send" /\ Len(s) > 1 => s[2].fn # "frame_sent"

Fine == Linked(stack) /\ Calm(stack)

\* a takes the place of t above any frame
Replaces(t, a) == \A b : Link(t, b) => Link(a, b)

-----------------------------------------------------------------------------
\* Calls made by a function keep the links, if the last of them may take its place.
LEMMA LinkedConcat ==
    ASSUME NEW S, NEW fs \in Seq(S), NEW t \in S, NEW rest \in Seq(S), fs # <<>>,
           Linked(fs), Linked(<<t>> \o rest), Replaces(t, fs[Len(fs)])
    PROVE  Linked(fs \o rest)
  <1> DEFINE new == fs \o rest
             old == <<t>> \o rest
  <1>1. /\ Len(new) = Len(fs) + Len(rest) /\ Len(fs) \in Nat \ {0} /\ Len(rest) \in Nat
        /\ \A i \in 1 .. Len(fs) : new[i] = fs[i]
        /\ \A i \in 1 .. Len(rest) : new[Len(fs) + i] = rest[i]
    BY ConcatProperties, LenProperties, EmptySeq
  <1>2. /\ Len(old) = 1 + Len(rest) /\ old[1] = t
        /\ \A i \in 1 .. Len(rest) : old[1 + i] = rest[i]
    OBVIOUS
  <1> HIDE DEF new, old
  <1>3. ASSUME NEW i \in 2 .. Len(new)
        PROVE  new[i].fn \notin AtTopOnly /\ Link(new[i - 1], new[i])
    <2>0. i \in Nat /\ i >= 2 /\ i <= Len(fs) + Len(rest)
      BY <1>1
    <2>1. CASE i <= Len(fs)
      <3>1. i \in 2 .. Len(fs) /\ i \in 1 .. Len(fs) /\ i - 1 \in 1 .. Len(fs)
        BY <1>1, <2>0, <2>1
      <3>2. new[i] = fs[i] /\ new[i - 1] = fs[i - 1]
        BY <1>1, <3>1
      <3> QED
        BY <3>1, <3>2 DEF Linked
    <2>2. CASE i = Len(fs) + 1
      <3>1. new[i - 1] = fs[Len(fs)] /\ new[i] = rest[1] /\ 1 \in 1 .. Len(rest)
        BY <1>1, <2>2
      <3>3. rest[1].fn \notin AtTopOnly /\ Link(t, rest[1])
        <4>1. 2 \in 2 .. Len(old) /\ old[2] = rest[1] /\ old[2 - 1] = t
          BY <1>1, <1>2, <3>1
        <4> QED
          BY <4>1 DEF Linked, old
      <3> QED
        BY <3>1, <3>3 DEF Replaces
    <2>3. CASE i > Len(fs) + 1
      <3> DEFINE j == i - Len(fs)
      <3>1. j \in 2 .. Len(rest) /\ new[i] = rest[j] /\ new[i - 1] = rest[j - 1]
        <4>1. j \in 1 .. Len(rest) /\ j - 1 \in 1 .. Len(rest) /\ Len(fs) + j = i /\ Len(fs) + (j - 1) = i - 1
          BY <1>1, <2>0, <2>3
        <4>2. new[Len(fs) + j] = rest[j] /\ new[Len(fs) + (j - 1)] = rest[j - 1]
          BY <1>1, <4>1
        <4> QED
          BY <4>1, <4>2
      <3>2. j + 1 \in 2 .. Len(old) /\ old[j + 1] = rest[j] /\ old[(j + 1) - 1] = rest[j - 1]
        <4>1. j \in 1 .. Len(rest) /\ j - 1 \in 1 .. Len(rest) /\ 1 + j = j + 1 /\ 1 + (j - 1) = (j + 1) - 1
              /\ j + 1 \in 2 .. 1 + Len(rest)
          BY <1>1, <2>0, <2>3
        <4>2. old[1 + j] = rest[j] /\ old[1 + (j - 1)] = rest[j - 1]
          BY <1>2, <4>1
        <4> QED
          BY <1>2, <4>1, <4>2
      <3> QED
        BY <3>1, <3>2 DEF Linked, old
    <2>4. i <= Len(fs) \/ i = Len(fs) + 1 \/ i > Len(fs) + 1
      BY <2>0
    <2> QED
      BY ONLY <2>1, <2>2, <2>3, <2>4
  <1> QED
    BY <1>3 DEF Linked, new

\* one frame in front of others
LEMMA ConcatOne ==
    ASSUME NEW S, NEW fs \in Seq(S), NEW rest \in Seq(S), Len(fs) = 1
    PROVE  /\ Len(fs \o rest) = 1 + Len(rest)
           /\ (fs \o rest)[1] = fs[1]
           /\ Len(rest) > 0 => (fs \o rest)[2] = rest[1]
  <1>1. Len(rest) \in Nat
    BY LenProperties
  <1>2. /\ Len(fs \o rest) = Len(fs) + Len(rest)
        /\ \A i \in 1 .. Len(fs) + Len(rest) :
             (fs \o rest)[i] = IF i <= Len(fs) THEN fs[i] ELSE rest[i - Len(fs)]
    BY ConcatProperties
  <1>3. 1 \in 1 .. 1 + Len(rest) /\ (Len(rest) > 0 => 2 \in 1 .. 1 + Len(rest))
    BY <1>1
  <1> QED
    BY <1>2, <1>3

\* A function that returns no value, or one that is not about a send, makes the
\* calls fs; what they return is not about a send either.
LEMMA FineGoto ==
    ASSUME stack \in Seq(Frame), stack # <<>>, Linked(stack), Top.fn \notin InSend,
           NEW S, NEW fs \in Seq(S), Frame \subseteq S, Goto(fs), fs # <<>>, Linked(fs),
           fs[1].fn \notin {"uws_client_send_frame_async", "on_ws_send_frame_complete",
                            "frame_sent", "returned"},
           Len(fs) > 1 => fs[2].fn # "frame_sent",
           Top.fn \in Returning \/ fs[Len(fs)].fn \notin Returning
    PROVE  Fine'
  <1> DEFINE rest == Tail(stack)
  <1>0. Len(fs) > 1 \/ Len(fs) = 1
    <2>1. Len(fs) \in Nat \ {0}
      BY EmptySeq
    <2>2. \A k \in Nat \ {0} : k > 1 \/ k = 1
      OBVIOUS
    <2> QED
      BY <2>1, <2>2
  <1>1. Top \in S /\ rest \in Seq(S) /\ stack = <<Top>> \o rest
    <2>1. Top \in Frame /\ rest \in Seq(Frame)
      BY TopType
    <2>2. stack = <<Top>> \o rest
      BY HeadTailProperties DEF Top
    <2> QED
      BY <2>1, <2>2
  <1>2. stack' = fs \o rest
    BY DEF Goto
  <1>3. Replaces(Top, fs[Len(fs)])
    BY DEF Replaces, Link, InSend, Returning
  <1> HIDE DEF rest
  <1>4. Linked(stack')
    BY <1>1, <1>2, <1>3, LinkedConcat
  <1>5. Calm(stack')
    <2>1. stack'[1] = fs[1] /\ (Len(fs) > 1 => stack'[2] = fs[2])
      BY <1>1, <1>2, EmptySeq
    <2>2. CASE Len(fs) > 1
      BY <2>1, <2>2 DEF Calm, AwaitsSend
    <2>3. CASE Len(fs) = 1
      <3>1. Len(stack') > 1 => stack'[2] = rest[1] /\ Len(stack) > 1 /\ stack[2] = rest[1] /\ stack[1] = Top
        <4>1. Len(<<Top>>) = 1 /\ <<Top>>[1] = Top /\ <<Top>> \in Seq(S)
          BY <1>1
        <4>2. /\ Len(stack) = 1 + Len(rest) /\ stack[1] = Top
              /\ Len(rest) > 0 => stack[2] = rest[1]
          BY <1>1, <4>1, ConcatOne
        <4>3. /\ Len(stack') = 1 + Len(rest)
              /\ Len(rest) > 0 => stack'[2] = rest[1]
          BY <1>1, <1>2, <2>3, ConcatOne
        <4> QED
          BY <1>1, <4>2, <4>3, LenProperties
      <3>2. Len(stack) > 1 => Link(stack[1], stack[2])
        <4>1. Len(stack) > 1 => 2 \in 2 .. Len(stack) /\ 2 - 1 = 1
          BY LenProperties
        <4> QED
          BY <4>1 DEF Linked
      <3>3. Len(stack') > 1 => stack'[2].fn # "frame_sent"
        BY <3>1, <3>2 DEF Link, InSend
      <3> QED
        BY <2>1, <3>3 DEF Calm, AwaitsSend
    <2> QED
      BY <1>0, <2>2, <2>3
  <1> QED
    BY <1>4, <1>5 DEF Fine

\* the caller, seen from the running frame
LEMMA CallerLinked ==
    ASSUME stack \in Seq(Frame), stack # <<>>, Linked(stack), Tail(stack) # <<>>
    PROVE  /\ Head(Tail(stack)) \in Frame
           /\ Head(Tail(stack)).fn \notin AtTopOnly
           /\ Link(Top, Head(Tail(stack)))
           /\ stack[2] = Head(Tail(stack))
           /\ Len(stack) > 1
  <1>1. Head(Tail(stack)) \in Frame
    BY TopType, HeadTailProperties
  <1>2. Len(stack) \in Nat /\ Len(stack) > 1 /\ stack[1] = Top /\ stack[2] = Head(Tail(stack))
    BY HeadTailProperties, EmptySeq DEF Top
  <1>3. 2 \in 2 .. Len(stack) /\ 2 - 1 = 1
    BY <1>2
  <1> QED
    BY <1>1, <1>2, <1>3 DEF Linked

\* What is beneath the running frame is linked.
LEMMA LinkedTail ==
    ASSUME NEW S, NEW s \in Seq(S), s # <<>>, Linked(s)
    PROVE  Linked(Tail(s))
  <1>1. Len(s) \in Nat \ {0} /\ Len(Tail(s)) = Len(s) - 1
        /\ \A i \in 1 .. Len(s) - 1 : Tail(s)[i] = s[i + 1]
    BY HeadTailProperties, EmptySeq
  <1>2. ASSUME NEW i \in 2 .. Len(Tail(s))
        PROVE  Tail(s)[i].fn \notin AtTopOnly /\ Link(Tail(s)[i - 1], Tail(s)[i])
    <2>1. i + 1 \in 2 .. Len(s) /\ i \in 1 .. Len(s) - 1 /\ i - 1 \in 1 .. Len(s) - 1
          /\ (i - 1) + 1 = (i + 1) - 1
      BY <1>1
    <2>2. Tail(s)[i] = s[i + 1] /\ Tail(s)[i - 1] = s[(i + 1) - 1]
      BY <1>1, <2>1
    <2> QED
      BY <2>1, <2>2 DEF Linked
  <1> QED
    BY <1>2 DEF Linked

\* A void function returns, and leaves a caller that does not wait for a send.
LEMMA FinePop ==
    ASSUME stack \in Seq(Frame), stack # <<>>, Linked(stack), Top.fn \notin InSend, Pop
    PROVE  Fine'
  <1>1. stack' = Tail(stack) /\ Tail(stack) \in Seq(Frame)
    BY TopType DEF Pop
  <1>2. Linked(stack')
    BY <1>1, LinkedTail
  <1>3. Calm(stack')
    <2>1. CASE Tail(stack) = <<>>
      BY <1>1, <2>1 DEF Calm
    <2>2. CASE Tail(stack) # <<>>
      <3>1. stack'[1] = Head(Tail(stack))
        BY <1>1, <2>2
      <3> QED
        BY <2>2, <3>1, CallerLinked DEF Calm, Link, InSend, AtTopOnly
    <2> QED
      BY <2>1, <2>2
  <1> QED
    BY <1>2, <1>3 DEF Fine

\* A value is returned: only the ret of the caller changes, and no pending "return v"
\* is overwritten.
LEMMA LinkedReturn ==
    ASSUME stack \in Seq(Frame), stack # <<>>, Linked(stack), Top.fn \in Returning,
           NEW v \in {0, 1}, Return(v)
    PROVE  /\ Linked(stack')
           /\ Tail(stack) = <<>> => stack' = <<>>
           /\ Tail(stack) # <<>> =>
                /\ stack' # <<>>
                /\ Head(stack') = [Head(Tail(stack)) EXCEPT !.ret = v]
                /\ stack'[1] = Head(stack')
  <1>1. CASE Tail(stack) = <<>>
    <2>1. stack' = <<>>
      BY <1>1 DEF Return
    <2> QED
      BY <1>1, <2>1 DEF Linked
  <1>2. CASE Tail(stack) # <<>>
    <2> DEFINE below == Head(Tail(stack))
               caller == [below EXCEPT !.ret = v]
               rest == Tail(Tail(stack))
    <2>1. below \in Frame /\ rest \in Seq(Frame) /\ Tail(stack) = <<below>> \o rest
      <3>1. Tail(stack) \in Seq(Frame)
        BY TopType
      <3> QED
        BY <1>2, <3>1, HeadTailProperties
    <2>2. stack' = <<caller>> \o rest
      BY <1>2 DEF Return
    <2>3. /\ caller \in Frame
          /\ caller.fn = below.fn /\ caller.n = below.n /\ caller.arg = below.arg
      BY <2>1, RetType DEF Frame
    <2>4. below.fn # "return"
      BY <1>2, CallerLinked DEF Link
    <2>5. Replaces(below, caller)
      BY <2>3, <2>4 DEF Replaces, Link
    <2>6. Linked(Tail(stack))
      BY LinkedTail
    <2> HIDE DEF below, caller, rest
    <2>7. <<caller>> \in Seq(Frame) /\ <<caller>> # <<>> /\ Len(<<caller>>) = 1 /\ <<caller>>[1] = caller
      BY <2>3
    <2>8. Linked(<<caller>>)
      BY <2>7 DEF Linked
    <2>9. Linked(stack')
      BY <2>1, <2>2, <2>5, <2>6, <2>7, <2>8, LinkedConcat
    <2>10. stack' # <<>> /\ Head(stack') = caller /\ stack'[1] = Head(stack')
      BY <2>1, <2>2, <2>3
    <2> QED
      BY <1>2, <2>9, <2>10 DEF caller, below
  <1> QED
    BY <1>1, <1>2

\* ... and if it was not about a send, its caller does not wait for one.
LEMMA FineReturn ==
    ASSUME stack \in Seq(Frame), stack # <<>>, Linked(stack), Top.fn \in Returning \ InSend,
           NEW v \in {0, 1}, Return(v)
    PROVE  Fine'
  <1>1. CASE Tail(stack) = <<>>
    BY <1>1, LinkedReturn DEF Fine, Calm
  <1>2. CASE Tail(stack) # <<>>
    <2> DEFINE below == Head(Tail(stack))
    <2>1. /\ below \in Frame /\ below.fn \notin AtTopOnly /\ Link(Top, below)
      BY <1>2, CallerLinked
    <2>2. /\ Linked(stack')
          /\ stack'[1] = [below EXCEPT !.ret = v]
      BY <1>2, LinkedReturn
    <2> HIDE DEF below
    <2>3. stack'[1].fn = below.fn /\ stack'[1].arg = below.arg
      BY <2>1, <2>2 DEF Frame
    <2> QED
      BY <2>1, <2>2, <2>3 DEF Fine, Calm, AwaitsSend, Link, InSend, AtTopOnly
  <1> QED
    BY <1>1, <1>2

\* Calls written out, one by one: a is the first, the last takes the place of t.
First(a) == a.fn \notin {"uws_client_send_frame_async", "on_ws_send_frame_complete", "frame_sent", "returned"}
Then(a, b) == /\ b.fn \notin AtTopOnly \cup {"frame_sent", "returned"}
              /\ b.fn = "return" => a.fn \notin Returning
Last(t, a) == t.fn \in Returning \/ a.fn \notin Returning

\* Up to four calls by a function that has nothing to do with a send.
LEMMA FineCalls ==
    ASSUME stack \in Seq(Frame), stack # <<>>, Linked(stack), Top.fn \notin InSend
    PROVE  /\ Goto(<<>>) => Fine'
           /\ \A a : Goto(<<a>>) /\ First(a) /\ Last(Top, a) => Fine'
           /\ \A a, b : Goto(<<a, b>>) /\ First(a) /\ Then(a, b) /\ Last(Top, b) => Fine'
           /\ \A a, b, c :
                Goto(<<a, b, c>>) /\ First(a) /\ Then(a, b) /\ Then(b, c) /\ Last(Top, c) => Fine'
           /\ \A a, b, c, d :
                Goto(<<a, b, c, d>>) /\ First(a) /\ Then(a, b) /\ Then(b, c) /\ Then(c, d) /\ Last(Top, d)
                => Fine'
  <1>1. ASSUME Goto(<<>>) PROVE Fine'
    <2>1. Tail(stack) \in Seq(Frame)
      BY TopType
    <2>2. Pop
      BY <1>1, <2>1, ConcatEmptySeq DEF Goto, Pop
    <2> QED
      BY <2>2, FinePop
  <1>2. ASSUME NEW a, Goto(<<a>>), First(a), Last(Top, a) PROVE Fine'
    <2> DEFINE S == Frame \cup {a}
               fs == <<a>>
    <2>1. fs \in Seq(S) /\ fs # <<>> /\ Len(fs) = 1 /\ fs[1] = a /\ Frame \subseteq S
      OBVIOUS
    <2> HIDE DEF S
    <2>2. Linked(fs)
      BY <2>1 DEF Linked
    <2>3. Goto(fs)
      BY <1>2
    <2> HIDE DEF fs
    <2> QED
      BY <1>2, <2>1, <2>2, <2>3, FineGoto DEF First, Last
  <1>3. ASSUME NEW a, NEW b, Goto(<<a, b>>), First(a), Then(a, b), Last(Top, b) PROVE Fine'
    <2> DEFINE S == Frame \cup {a, b}
               fs == <<a, b>>
    <2>1. fs \in Seq(S) /\ fs # <<>> /\ Len(fs) = 2 /\ fs[1] = a /\ fs[2] = b /\ Frame \subseteq S
      OBVIOUS
    <2>2. Goto(fs)
      BY <1>3
    <2> HIDE DEF S, fs
    <2>3. Link(a, b) /\ b.fn \notin AtTopOnly
      BY <1>3 DEF Then, Link, AwaitsSend
    <2>4. \A i \in 2 .. Len(fs) : i = 2
      BY <2>1
    <2>5. Linked(fs)
      BY <2>1, <2>3, <2>4 DEF Linked
    <2> QED
      BY <1>3, <2>1, <2>2, <2>5, FineGoto DEF First, Last, Then
  <1>4. ASSUME NEW a, NEW b, NEW c, Goto(<<a, b, c>>), First(a), Then(a, b), Then(b, c), Last(Top, c)
        PROVE  Fine'
    <2> DEFINE S == Frame \cup {a, b, c}
               fs == <<a, b, c>>
    <2>1. fs \in Seq(S) /\ fs # <<>> /\ Len(fs) = 3 /\ fs[1] = a /\ fs[2] = b /\ fs[3] = c /\ Frame \subseteq S
      OBVIOUS
    <2>2. Goto(fs)
      BY <1>4
    <2> HIDE DEF S, fs
    <2>3. /\ Link(a, b) /\ b.fn \notin AtTopOnly
          /\ Link(b, c) /\ c.fn \notin AtTopOnly
      BY <1>4 DEF Then, Link, AwaitsSend
    <2>4. \A i \in 2 .. Len(fs) : i = 2 \/ i = 3
      BY <2>1
    <2>5. Linked(fs)
      BY <2>1, <2>3, <2>4 DEF Linked
    <2> QED
      BY <1>4, <2>1, <2>2, <2>5, FineGoto DEF First, Last, Then
  <1>5. ASSUME NEW a, NEW b, NEW c, NEW d, Goto(<<a, b, c, d>>),
               First(a), Then(a, b), Then(b, c), Then(c, d), Last(Top, d)
        PROVE  Fine'
    <2> DEFINE S == Frame \cup {a, b, c, d}
               fs == <<a, b, c, d>>
    <2>1. fs \in Seq(S) /\ fs # <<>> /\ Len(fs) = 4 /\ fs[1] = a /\ fs[2] = b /\ fs[3] = c /\ fs[4] = d
          /\ Frame \subseteq S
      OBVIOUS
    <2>2. Goto(fs)
      BY <1>5
    <2> HIDE DEF S, fs
    <2>3. /\ Link(a, b) /\ b.fn \notin AtTopOnly
          /\ Link(b, c) /\ c.fn \notin AtTopOnly
          /\ Link(c, d) /\ d.fn \notin AtTopOnly
      BY <1>5 DEF Then, Link, AwaitsSend
    <2>4. \A i \in 2 .. Len(fs) : i = 2 \/ i = 3 \/ i = 4
      BY <2>1
    <2>5. Linked(fs)
      BY <2>1, <2>3, <2>4 DEF Linked
    <2> QED
      BY <1>5, <2>1, <2>2, <2>5, FineGoto DEF First, Last, Then
  <1> QED
    BY <1>1, <1>2, <1>3, <1>4, <1>5

-----------------------------------------------------------------------------
(* The steps that have nothing to do with a send of the user.               *)

\* which function a frame runs
LEMMA Names ==
    /\ \A l, f, a, n, d : MkFrame(l, f, a, n, d).fn = f /\ MkFrame(l, f, a, n, d).n = n
                         /\ MkFrame(l, f, a, n, d).arg = a
    /\ \A l : /\ xio_open(l).fn = "open" /\ xio_dowork(l).fn = "dowork" /\ xio_destroy(l).fn = "destroy"
              /\ on_io_error(l).fn = "on_io_error" /\ on_io_close_complete(l).fn = "on_io_close_complete"
    /\ \A l, cb : xio_close(l, cb).fn = "close"
    /\ \A l, cb, n : xio_send(l, cb, n).fn = "send"
    /\ \A l, r : on_io_open_complete(l, r).fn = "on_io_open_complete"
    /\ \A l, us : on_bytes_received(l, us).fn = "on_bytes_received"
    /\ \A l, v : ReturnFrame(l, v).fn = "return" /\ ReturnFrame(l, v).ret = v
    /\ \A f : Tls(f).fn = f /\ Uws(f).fn = f
    /\ \A f, a, n, d : User(f, a, n, d).fn = f /\ User(f, a, n, d).n = n
    /\ \A n, next : consume(n, next).fn = "consume_stream_buffer_bytes"
    /\ \A cb : close_rest(cb).fn = "close_rest"
    /\ dowork_sending.fn = "dowork" /\ dowork_sent.fn = "dowork_sent" /\ dowork_receiving.fn = "dowork_receive"
  BY DEF dowork_sending, dowork_sent, dowork_receiving, MkFrame, xio_open, xio_dowork, xio_destroy, on_io_error, on_io_close_complete, xio_close,
         xio_send, on_io_open_complete, on_bytes_received, ReturnFrame, Tls, Uws, User, consume, close_rest

\* how to tell what a concatenation is
LEMMA ConcatIs ==
    ASSUME NEW S, NEW s \in Seq(S), NEW t \in Seq(S), NEW u \in Seq(S), Len(u) = Len(s) + Len(t),
           \A i \in 1 .. Len(u) : u[i] = IF i <= Len(s) THEN s[i] ELSE t[i - Len(s)]
    PROVE  s \o t = u
  <1> DEFINE v == s \o t
  <1>1. v \in Seq(S) /\ Len(v) = Len(u) /\ \A i \in 1 .. Len(v) : v[i] = u[i]
    BY ConcatProperties
  <1> HIDE DEF v
  <1>2. v = u
    BY <1>1, SeqEqual
  <1> QED
    BY <1>2 DEF v

\* calls pushed one group after another lie on the stack as if pushed together
LEMMA ConcatGroups ==
    ASSUME NEW S, NEW s \in Seq(S), NEW t \in Seq(S), NEW u \in Seq(S)
    PROVE  s \o (t \o u) = (s \o t) \o u
  <1> DEFINE st == s \o t
             tu == t \o u
             all == st \o u
  <1>1. /\ st \in Seq(S) /\ Len(st) = Len(s) + Len(t)
        /\ \A i \in 1 .. Len(s) + Len(t) : st[i] = IF i <= Len(s) THEN s[i] ELSE t[i - Len(s)]
    BY ConcatProperties
  <1>2. /\ tu \in Seq(S) /\ Len(tu) = Len(t) + Len(u)
        /\ \A i \in 1 .. Len(t) + Len(u) : tu[i] = IF i <= Len(t) THEN t[i] ELSE u[i - Len(t)]
    BY ConcatProperties
  <1> HIDE DEF st, tu
  <1>3. /\ all \in Seq(S) /\ Len(all) = Len(st) + Len(u)
        /\ \A i \in 1 .. Len(st) + Len(u) : all[i] = IF i <= Len(st) THEN st[i] ELSE u[i - Len(st)]
    <2>1. st \in Seq(S)
      BY <1>1
    <2> QED
      BY <2>1, ConcatProperties
  <1> HIDE DEF all
  <1>4. Len(s) \in Nat /\ Len(t) \in Nat /\ Len(u) \in Nat
    BY LenProperties
  <1>5. Len(all) = Len(s) + Len(tu)
    BY <1>1, <1>2, <1>3, <1>4
  <1>6. ASSUME NEW i \in 1 .. Len(all)
        PROVE  all[i] = IF i <= Len(s) THEN s[i] ELSE tu[i - Len(s)]
    <2>1. CASE i <= Len(s)
      <3>1. i \in 1 .. Len(s) + Len(t) /\ i \in 1 .. Len(st) + Len(u) /\ i <= Len(st)
        BY <1>1, <1>3, <1>4, <2>1
      <3>2. all[i] = st[i]
        BY <1>3, <3>1
      <3>3. st[i] = s[i]
        BY <1>1, <2>1, <3>1
      <3> QED
        BY <2>1, <3>2, <3>3
    <2>2. CASE i > Len(s) /\ i <= Len(s) + Len(t)
      <3>1. all[i] = t[i - Len(s)]
        BY <1>1, <1>3, <1>4, <2>2
      <3>2. i - Len(s) \in 1 .. Len(t) + Len(u) /\ i - Len(s) <= Len(t) /\ ~(i <= Len(s))
        BY <1>1, <1>3, <1>4, <2>2
      <3>3. tu[i - Len(s)] = t[i - Len(s)]
        BY <1>2, <3>2
      <3> QED
        BY <3>1, <3>2, <3>3
    <2>3. CASE i > Len(s) + Len(t)
      <3>1. all[i] = u[i - (Len(s) + Len(t))]
        BY <1>1, <1>3, <1>4, <2>3
      <3>2. i - Len(s) \in 1 .. Len(t) + Len(u) /\ ~(i - Len(s) <= Len(t)) /\ ~(i <= Len(s))
        BY <1>1, <1>3, <1>4, <2>3
      <3>3. tu[i - Len(s)] = u[(i - Len(s)) - Len(t)]
        BY <1>2, <3>2
      <3>4. (i - Len(s)) - Len(t) = i - (Len(s) + Len(t))
        BY <1>4
      <3> QED
        BY <3>1, <3>2, <3>3, <3>4
    <2> QED
      BY <1>4, <2>1, <2>2, <2>3
  <1>7. s \o tu = all
    BY <1>2, <1>3, <1>5, <1>6, ConcatIs
  <1> QED
    BY <1>7 DEF st, tu, all

\* sequences of calls that are put together from two
LEMMA ConcatTuples ==
    /\ \A a : <<>> \o <<a>> = <<a>>
    /\ \A a, b : <<a>> \o <<b>> = <<a, b>>
    /\ \A a, b : <<>> \o <<a, b>> = <<a, b>>
    /\ \A a, b, c : <<a>> \o <<b, c>> = <<a, b, c>>
    /\ \A a, b, c, d : <<a, b>> \o <<c, d>> = <<a, b, c, d>>
  <1>1. ASSUME NEW a PROVE <<>> \o <<a>> = <<a>>
    <2>1. <<a>> \in Seq({a})
      OBVIOUS
    <2> QED
      BY <2>1, ConcatEmptySeq
  <1>2. ASSUME NEW a, NEW b PROVE <<>> \o <<a, b>> = <<a, b>>
    <2>1. <<a, b>> \in Seq({a, b})
      OBVIOUS
    <2> QED
      BY <2>1, ConcatEmptySeq
  <1>3. ASSUME NEW a, NEW b PROVE <<a>> \o <<b>> = <<a, b>>
    <2> DEFINE S == {a, b}  s == <<a>>  t == <<b>>  u == <<a, b>>
    <2>1. s \in Seq(S) /\ t \in Seq(S) /\ u \in Seq(S)
      OBVIOUS
    <2>2. Len(s) = 1 /\ Len(t) = 1 /\ Len(u) = 2 /\ s[1] = a /\ t[1] = b /\ u[1] = a /\ u[2] = b
      OBVIOUS
    <2> HIDE DEF s, t, u, S
    <2>3. \A i \in 1 .. Len(u) : u[i] = IF i <= Len(s) THEN s[i] ELSE t[i - Len(s)]
      BY <2>2
    <2>4. Len(u) = Len(s) + Len(t)
      BY <2>2
    <2>5. s \o t = u
      BY <2>1, <2>3, <2>4, ConcatIs
    <2> QED
      BY <2>5 DEF s, t, u
  <1>4. ASSUME NEW a, NEW b, NEW c PROVE <<a>> \o <<b, c>> = <<a, b, c>>
    <2> DEFINE S == {a, b, c}  s == <<a>>  t == <<b, c>>  u == <<a, b, c>>
    <2>1. s \in Seq(S) /\ t \in Seq(S) /\ u \in Seq(S)
      OBVIOUS
    <2>2. /\ Len(s) = 1 /\ Len(t) = 2 /\ Len(u) = 3
          /\ s[1] = a /\ t[1] = b /\ t[2] = c /\ u[1] = a /\ u[2] = b /\ u[3] = c
      OBVIOUS
    <2> HIDE DEF s, t, u, S
    <2>3. \A i \in 1 .. Len(u) : u[i] = IF i <= Len(s) THEN s[i] ELSE t[i - Len(s)]
      BY <2>2
    <2>4. Len(u) = Len(s) + Len(t)
      BY <2>2
    <2>5. s \o t = u
      BY <2>1, <2>3, <2>4, ConcatIs
    <2> QED
      BY <2>5 DEF s, t, u
  <1>5. ASSUME NEW a, NEW b, NEW c, NEW d PROVE <<a, b>> \o <<c, d>> = <<a, b, c, d>>
    <2> DEFINE S == {a, b, c, d}  s == <<a, b>>  t == <<c, d>>  u == <<a, b, c, d>>
    <2>1. s \in Seq(S) /\ t \in Seq(S) /\ u \in Seq(S)
      OBVIOUS
    <2>2. /\ Len(s) = 2 /\ Len(t) = 2 /\ Len(u) = 4
          /\ s[1] = a /\ s[2] = b /\ t[1] = c /\ t[2] = d
          /\ u[1] = a /\ u[2] = b /\ u[3] = c /\ u[4] = d
      OBVIOUS
    <2> HIDE DEF s, t, u, S
    <2>3. \A i \in 1 .. Len(u) : u[i] = IF i <= Len(s) THEN s[i] ELSE t[i - Len(s)]
      BY <2>2
    <2>4. Len(u) = Len(s) + Len(t)
      BY <2>2
    <2>5. s \o t = u
      BY <2>1, <2>3, <2>4, ConcatIs
    <2> QED
      BY <2>5 DEF s, t, u
  <1> QED
    BY <1>1, <1>2, <1>3, <1>4, <1>5

\* The socket, apart from its send.
LEMMA SockFine ==
    ASSUME stack \in Seq(Frame), SockTypeOK, Linked(stack), SockNext,
           ~(socketio_send_sent \/ socketio_send_queued \/ socketio_send_failed)
    PROVE  Fine'
  <1> USE Names DEF Running, Top, First, Then, Last, Returning, InSend, AtTopOnly
  <1>1. CASE socketio_open_refused
    BY <1>1, FineCalls DEF socketio_open_refused
  <1>2. CASE socketio_open_connected
    BY <1>2, FineCalls DEF socketio_open_connected
  <1>3. CASE socketio_open_failed
    BY <1>3, FineCalls DEF socketio_open_failed
  <1>4. CASE socketio_close
    BY <1>4, FineCalls, FineReturn DEF socketio_close
  <1>5. CASE socketio_destroy
    BY <1>5, FinePop DEF socketio_destroy
  <1>6. CASE socketio_dowork_send_complete
    <2> DEFINE io == Head(pending_io_list)
    <2>1. io.cb \in SendCallbacks
      <3>1. io \in PendingIo
        BY <1>6, HeadTailProperties DEF socketio_dowork_send_complete, SockTypeOK
      <3> QED
        BY <3>1 DEF PendingIo
    <2>2. Goto(on_send_complete(io.cb, "OK", io.n) \o <<dowork_sent>>)
      BY <1>6 DEF socketio_dowork_send_complete
    <2>3. Running("socket", "dowork")
      BY <1>6 DEF socketio_dowork_send_complete
    <2> HIDE DEF io
    <2>4. CASE on_send_complete(io.cb, "OK", io.n) = <<>>
      <3>0. <<>> \o <<dowork_sent>> = <<dowork_sent>>
        BY ONLY ConcatTuples
      <3>1. Goto(<<dowork_sent>>)
        BY <2>2, <2>4, <3>0
      <3> QED
        BY <2>3, <3>1, FineCalls
    <2>5. CASE on_send_complete(io.cb, "OK", io.n) = <<MkFrame("uws", io.cb, "OK", io.n, <<>>)>>
      <3> DEFINE completed == MkFrame("uws", io.cb, "OK", io.n, <<>>)
      <3>0. <<completed>> \o <<dowork_sent>> = <<completed, dowork_sent>>
        BY ONLY ConcatTuples
      <3>1. Goto(<<completed, dowork_sent>>)
        BY <2>2, <2>5, <3>0
      <3> QED
        BY <2>1, <2>3, <3>1, FineCalls DEF SendCallbacks
    <2> QED
      BY <2>4, <2>5 DEF on_send_complete
  <1>7. CASE socketio_dowork_remove
    BY <1>7, FineCalls DEF socketio_dowork_remove
  <1>8. CASE socketio_dowork_send_error
    BY <1>8, FineCalls DEF socketio_dowork_send_error
  <1>9. CASE socketio_dowork_send_end
    BY <1>9, FineCalls DEF socketio_dowork_send_end
  <1>10. CASE socketio_dowork_receive
    BY <1>10, FineCalls DEF socketio_dowork_receive
  <1>11. CASE socketio_dowork_receive_error
    BY <1>11, FineCalls DEF socketio_dowork_receive_error
  <1>12. CASE socketio_dowork_receive_end
    BY <1>12, FinePop DEF socketio_dowork_receive_end
  <1> QED
    BY <1>1, <1>2, <1>3, <1>4, <1>5, <1>6, <1>7, <1>8, <1>9, <1>10, <1>11, <1>12 DEF SockNext

\* TLS, apart from its send.
LEMMA TlsFine ==
    ASSUME stack \in Seq(Frame), Linked(stack), TlsNext, ~tlsio_openssl_send
    PROVE  Fine'
  <1> USE Names DEF Running, Top, First, Then, Last, Returning, InSend, AtTopOnly
  <1>1. CASE tlsio_openssl_open
    <2>1. Return(1) \/ Goto(<<xio_open("tls"), Tls("xio_open_returned")>>)
      BY <1>1 DEF tlsio_openssl_open
    <2> QED
      BY <1>1, <2>1, FineCalls, FineReturn DEF tlsio_openssl_open
  <1>2. CASE tls_xio_open_returned
    BY <1>2, TopType, FineReturn DEF tls_xio_open_returned
  <1>3. CASE tls_on_underlying_io_open_complete
    BY <1>3, FineCalls DEF tls_on_underlying_io_open_complete
  <1>4. CASE send_handshake_bytes
    BY <1>4, FineCalls, FinePop DEF send_handshake_bytes
  <1>5. CASE handshake_bytes_sent
    BY <1>5, FinePop DEF handshake_bytes_sent
  <1>6. CASE tls_on_underlying_io_bytes_received
    <2>1. \/ Goto(<<on_io_error("tls")>>) \/ Goto(<<Tls("send_handshake_bytes")>>)
          \/ Goto(<<Tls("decode_ssl_received_bytes")>>) \/ Goto(<<>>)
      BY <1>6 DEF tls_on_underlying_io_bytes_received
    <2> QED
      <3>1. Running("tls", "on_bytes_received")
        BY <1>6 DEF tls_on_underlying_io_bytes_received
      <3> QED
        <4>1. CASE Goto(<<>>)
          BY <3>1, <4>1, FineCalls
        <4>2. CASE Goto(<<on_io_error("tls")>>)
          BY <3>1, <4>2, FineCalls
        <4>3. CASE Goto(<<Tls("send_handshake_bytes")>>) \/ Goto(<<Tls("decode_ssl_received_bytes")>>)
          BY <3>1, <4>3, FineCalls
        <4> QED
          BY <2>1, <4>1, <4>2, <4>3
  <1>7. CASE decode_ssl_received_bytes
    <2>1. \/ Pop \/ Goto(<<on_io_error("tls")>>)
          \/ \E us : Goto(<<on_bytes_received("tls", us), Tls("decode_ssl_received_bytes")>>)
      BY <1>7 DEF decode_ssl_received_bytes
    <2>2. Running("tls", "decode_ssl_received_bytes")
      BY <1>7 DEF decode_ssl_received_bytes
    <2>3. CASE Pop \/ Goto(<<on_io_error("tls")>>)
      BY <2>2, <2>3, FineCalls, FinePop
    <2>4. ASSUME NEW us, Goto(<<on_bytes_received("tls", us), Tls("decode_ssl_received_bytes")>>)
          PROVE  Fine'
      BY <2>2, <2>4, FineCalls
    <2> QED
      BY <2>1, <2>3, <2>4
  <1>8. CASE tls_on_underlying_io_error
    BY <1>8, FineCalls DEF tls_on_underlying_io_error
  <1>9. CASE tlsio_openssl_close
    <2>1. \/ Goto(<<on_io_open_complete("tls", "CANCELLED"), close_rest(Top.arg)>>)
          \/ Goto(<<close_rest(Top.arg)>>)
      <3> DEFINE cancelled == on_io_open_complete("tls", "CANCELLED")
                 then == close_rest(Top.arg)
      <3>0. <<cancelled>> \o <<then>> = <<cancelled, then>> /\ <<>> \o <<then>> = <<then>>
        BY ONLY ConcatTuples
      <3>1. CASE is_an_opening_state
        BY <1>9, <3>0, <3>1 DEF tlsio_openssl_close
      <3>2. CASE ~is_an_opening_state
        BY <1>9, <3>0, <3>2 DEF tlsio_openssl_close
      <3> QED
        BY <3>1, <3>2
    <2>2. Running("tls", "close")
      BY <1>9 DEF tlsio_openssl_close
    <2> QED
      BY <2>1, <2>2, FineCalls
  <1>10. CASE tls_close_rest
    BY <1>10, FineCalls DEF tls_close_rest
  <1>11. CASE tls_xio_close_returned
    BY <1>11, FineReturn DEF tls_xio_close_returned
  <1>12. CASE tls_force_closed
    BY <1>12, FineReturn DEF tls_force_closed
  <1>13. CASE tls_on_underlying_io_close_complete
    <2>1. \/ Goto(<<on_io_open_complete("tls", "ERROR"), Tls("close_openssl_instance")>>)
          \/ Goto(<<on_io_close_complete("tls"), Tls("close_openssl_instance")>>)
          \/ Goto(<<Tls("close_openssl_instance")>>)
      <3> DEFINE failed == on_io_open_complete("tls", "ERROR")
                 closed == on_io_close_complete("tls")
                 then == Tls("close_openssl_instance")
      <3>0. /\ <<failed>> \o <<then>> = <<failed, then>>
            /\ <<closed>> \o <<then>> = <<closed, then>>
            /\ <<>> \o <<then>> = <<then>>
        BY ONLY ConcatTuples
      <3>1. CASE tls_state = "OPENING_UNDERLYING_IO"
        BY <1>13, <3>1, <3>0 DEF tls_on_underlying_io_close_complete
      <3>2. CASE tls_state = "CLOSING" /\ tls_on_close # "NULL"
        BY <1>13, <3>2, <3>0 DEF tls_on_underlying_io_close_complete
      <3>3. CASE tls_state # "OPENING_UNDERLYING_IO" /\ ~(tls_state = "CLOSING" /\ tls_on_close # "NULL")
        BY <1>13, <3>3, <3>0 DEF tls_on_underlying_io_close_complete
      <3> QED
        BY <3>1, <3>2, <3>3
    <2>2. Running("tls", "on_io_close_complete")
      BY <1>13 DEF tls_on_underlying_io_close_complete
    <2> QED
      BY <2>1, <2>2, FineCalls
  <1>14. CASE close_openssl_instance
    BY <1>14, FinePop DEF close_openssl_instance
  <1>15. CASE tlsio_openssl_destroy
    BY <1>15, FineCalls DEF tlsio_openssl_destroy
  <1>16. CASE tlsio_openssl_dowork
    BY <1>16, FineCalls, FinePop DEF tlsio_openssl_dowork
  <1>17. CASE tls_dowork_pumped
    BY <1>17, FineCalls, FinePop DEF tls_dowork_pumped
  <1> QED
    BY <1>1, <1>2, <1>3, <1>4, <1>5, <1>6, <1>7, <1>8, <1>9, <1>10, <1>11, <1>12, <1>13, <1>14, <1>15,
       <1>16, <1>17 DEF TlsNext

\* The client: opening, closing and reporting.
LEMMA UwsControlFine ==
    ASSUME stack \in Seq(Frame), Linked(stack),
           \/ indicate_ws_open_complete_error \/ indicate_ws_error \/ indicate_ws_error_and_close
           \/ indicate_ws_close_complete \/ call_on_ws_close_complete \/ set_closed
           \/ uws_client_open_async \/ xio_open_returned
           \/ on_underlying_io_open_complete \/ upgrade_request_sent
           \/ on_underlying_io_close_sent \/ close_sent_closed \/ on_underlying_io_close_complete
           \/ on_underlying_io_error
           \/ uws_client_close_async \/ close_async_closed \/ uws_client_close_handshake_async
           \/ uws_client_destroy \/ uws_client_dowork
    PROVE  Fine'
  <1> USE Names DEF Running, Top, First, Then, Last, Returning, InSend, AtTopOnly
  <1>0. ASSUME stack # <<>>, Top.fn \notin InSend, Shut PROVE Fine'
    BY <1>0, FineCalls DEF Shut, open_complete_error_and_close
  <1>1. CASE indicate_ws_open_complete_error
    BY <1>1, FineCalls DEF indicate_ws_open_complete_error
  <1>2. CASE indicate_ws_error
    <2>1. User("on_ws_error", "", 0, <<>>).fn = "on_ws_error"
      BY DEF User, MkFrame
    <2>2. Running("uws", "indicate_ws_error") /\ Goto(<<User("on_ws_error", "", 0, <<>>)>>)
      BY <1>2 DEF indicate_ws_error
    <2> QED
      BY <2>1, <2>2, FineCalls
  <1>3. CASE indicate_ws_error_and_close
    <2> DEFINE send == xio_send("uws", "unchecked_on_send_complete", 0)
               report == User("on_ws_error", "", 0, <<>>)
    <2>0. <<send>> \o <<report>> = <<send, report>> /\ <<>> \o <<report>> = <<report>>
      BY ONLY ConcatTuples
    <2>1. Goto(<<send, report>>) \/ Goto(<<report>>)
      BY <1>3, <2>0 DEF indicate_ws_error_and_close
    <2>2. Running("uws", "indicate_ws_error_and_close")
      BY <1>3 DEF indicate_ws_error_and_close
    <2>3. send.fn = "send" /\ report.fn = "on_ws_error"
      BY DEF User, MkFrame
    <2> HIDE DEF send, report
    <2> QED
      BY <2>1, <2>2, <2>3, FineCalls
  <1>4. CASE indicate_ws_close_complete
    BY <1>4, FineCalls DEF indicate_ws_close_complete
  <1>5. CASE call_on_ws_close_complete
    <2> DEFINE report == User("on_ws_close_complete", "", on_ws_close_complete, <<>>)
    <2>1. report.fn = "on_ws_close_complete"
      BY DEF User, MkFrame
    <2>2. Running("uws", "call_on_ws_close_complete") /\ (Goto(<<>>) \/ Goto(<<report>>))
      BY <1>5 DEF call_on_ws_close_complete
    <2> HIDE DEF report
    <2> QED
      BY <2>1, <2>2, FineCalls
  <1>6. CASE set_closed
    BY <1>6, FinePop DEF set_closed
  <1>7. CASE uws_client_open_async
    <2>1. Return(1) \/ Goto(<<xio_open("uws"), Uws("xio_open_returned")>>)
      BY <1>7 DEF uws_client_open_async
    <2> QED
      BY <1>7, <2>1, FineCalls, FineReturn DEF uws_client_open_async
  <1>8. CASE xio_open_returned
    BY <1>8, TopType, FineReturn DEF xio_open_returned
  <1>9. CASE on_underlying_io_open_complete
    <2>1. \/ Shut \/ Goto(<<Uws("open_complete_error")>>)
          \/ Goto(<<xio_send("uws", "unchecked_on_send_complete", 0), Uws("upgrade_request_sent")>>)
      BY <1>9 DEF on_underlying_io_open_complete
    <2>2. Running("uws", "on_io_open_complete")
      BY <1>9 DEF on_underlying_io_open_complete
    <2>3. CASE Shut
      BY <1>0, <2>2, <2>3
    <2>4. CASE ~Shut
      BY <2>1, <2>2, <2>4, FineCalls
    <2> QED
      BY <2>3, <2>4
  <1>10. CASE upgrade_request_sent
    BY <1>0, <1>10, FinePop DEF upgrade_request_sent
  <1>11. CASE on_underlying_io_close_sent
    BY <1>11, FineCalls, FinePop DEF on_underlying_io_close_sent
  <1>12. CASE close_sent_closed
    BY <1>12, FineCalls DEF close_sent_closed
  <1>13. CASE on_underlying_io_close_complete
    BY <1>13, FineCalls DEF on_underlying_io_close_complete
  <1>14. CASE on_underlying_io_error
    <2>1. \/ Goto(<<xio_close("uws", "NULL"), Uws("indicate_ws_close_complete")>>)
          \/ Shut \/ Goto(<<Uws("indicate_ws_error")>>) \/ Goto(<<>>)
      BY <1>14 DEF on_underlying_io_error, Shut
    <2>2. Running("uws", "on_io_error")
      BY <1>14 DEF on_underlying_io_error
    <2>3. CASE Shut \/ Goto(<<>>)
      BY <1>0, <2>2, <2>3, FineCalls
    <2>4. CASE ~(Shut \/ Goto(<<>>))
      BY <2>1, <2>2, <2>4, FineCalls
    <2> QED
      BY <2>3, <2>4
  <1>15. CASE uws_client_close_async
    <2>1. Return(1) \/ Goto(<<xio_close("uws", "close_complete"), Uws("close_async_closed")>>)
      BY <1>15 DEF uws_client_close_async
    <2> QED
      BY <1>15, <2>1, FineCalls, FineReturn DEF uws_client_close_async
  <1>16. CASE close_async_closed
    BY <1>16, FineCalls, FineReturn DEF close_async_closed
  <1>17. CASE uws_client_close_handshake_async
    <2>1. Return(1) \/ Goto(<<xio_send("uws", "unchecked_on_send_complete", 0)>>)
      BY <1>17 DEF uws_client_close_handshake_async
    <2> QED
      BY <1>17, <2>1, FineCalls, FineReturn DEF uws_client_close_handshake_async
  <1>18. CASE uws_client_destroy
    <2> DEFINE close == MkFrame("uws", "uws_client_close_async", "NULL", 0, <<>>)
               destroy == xio_destroy("uws")
               clear == Uws("clear_pending_sends")
    <2>0. /\ <<close>> \o <<destroy, clear>> = <<close, destroy, clear>>
          /\ <<>> \o <<destroy, clear>> = <<destroy, clear>>
      BY ONLY ConcatTuples
    <2>1. Goto(<<close, destroy, clear>>) \/ Goto(<<destroy, clear>>)
      <3>1. CASE uws_state \in {"OPEN", "ERROR"}
        BY <1>18, <2>0, <3>1 DEF uws_client_destroy
      <3>2. CASE uws_state \notin {"OPEN", "ERROR"}
        BY <1>18, <2>0, <3>2 DEF uws_client_destroy
      <3> QED
        BY <3>1, <3>2
    <2>2. Running("uws", "uws_client_destroy")
      BY <1>18 DEF uws_client_destroy
    <2> QED
      BY <2>1, <2>2, FineCalls
  <1>19. CASE uws_client_dowork
    BY <1>19, FineCalls DEF uws_client_dowork
  <1> QED
    BY <1>1, <1>2, <1>3, <1>4, <1>5, <1>6, <1>7, <1>8, <1>9, <1>10, <1>11, <1>12, <1>13, <1>14,
       <1>15, <1>16, <1>17, <1>18, <1>19

\* The client: receiving.
LEMMA UwsDecodeFine ==
    ASSUME stack \in Seq(Frame), Linked(stack),
           \/ on_underlying_io_bytes_received
           \/ decode_nothing \/ decode_while_opening \/ decode_upgrade_response
           \/ decode_masked_frame \/ decode_unmasked_frame \/ decode_length
           \/ consume_stream_buffer_bytes
    PROVE  Fine'
  <1> USE Names DEF Running, Top, First, Then, Last, Returning, InSend, AtTopOnly
  <1>0. ASSUME stack # <<>>, Top.fn \notin InSend, Shut PROVE Fine'
    BY <1>0, FineCalls DEF Shut, open_complete_error_and_close
  <1>1. CASE on_underlying_io_bytes_received
    <2>1. Goto(<<Uws("decode_stream")>>) \/ Shut \/ Goto(<<Uws("indicate_ws_error")>>) \/ Pop
      BY <1>1 DEF on_underlying_io_bytes_received
    <2>2. Running("uws", "on_bytes_received")
      BY <1>1 DEF on_underlying_io_bytes_received
    <2>3. CASE Shut \/ Pop
      BY <1>0, <2>2, <2>3, FinePop
    <2>4. CASE ~(Shut \/ Pop)
      BY <2>1, <2>2, <2>4, FineCalls
    <2> QED
      BY <2>3, <2>4
  <1>2. CASE decode_nothing
    BY <1>2, FinePop DEF decode_nothing
  <1>3. CASE decode_while_opening
    BY <1>0, <1>3 DEF decode_while_opening
  <1>4. CASE decode_upgrade_response
    <2> DEFINE report == User("on_ws_open_complete", "OK", 0, <<>>)
    <2>1. report.fn = "on_ws_open_complete"
      BY DEF User, MkFrame
    <2>2. Pop \/ Shut \/ Goto(<<report, Uws("decode_stream")>>)
      BY <1>4 DEF decode_upgrade_response
    <2>3. Running("uws", "decode_stream")
      BY <1>4 DEF decode_upgrade_response
    <2> HIDE DEF report
    <2>4. CASE Shut \/ Pop
      BY <1>0, <2>3, <2>4, FinePop
    <2>5. CASE ~(Shut \/ Pop)
      BY <2>1, <2>2, <2>3, <2>5, FineCalls
    <2> QED
      BY <2>4, <2>5
  <1>5. CASE decode_masked_frame
    <2>1. PICK h \in HeadersAt(Head(stream_buffer)) :
            Goto(<<Uws("indicate_ws_error_and_close"), MkFrame("uws", "decode_frame", "", 0, <<h>>)>>)
      BY <1>5 DEF decode_masked_frame
    <2> DEFINE decode == MkFrame("uws", "decode_frame", "", 0, <<h>>)
    <2>2. decode.fn = "decode_frame" /\ Goto(<<Uws("indicate_ws_error_and_close"), decode>>)
      BY <2>1 DEF MkFrame
    <2>3. Running("uws", "decode_stream")
      BY <1>5 DEF decode_masked_frame
    <2> HIDE DEF decode
    <2> QED
      BY <2>2, <2>3, FineCalls
  <1>6. CASE decode_unmasked_frame
    <2>1. Pop \/ \E h : Goto(<<MkFrame("uws", "decode_frame", "", 0, <<h>>)>>)
      BY <1>6 DEF decode_unmasked_frame
    <2>2. Running("uws", "decode_stream")
      BY <1>6 DEF decode_unmasked_frame
    <2>3. CASE Pop
      BY <2>2, <2>3, FinePop
    <2>4. ASSUME NEW h, Goto(<<MkFrame("uws", "decode_frame", "", 0, <<h>>)>>)
          PROVE  Fine'
      <3>1. MkFrame("uws", "decode_frame", "", 0, <<h>>).fn = "decode_frame"
        BY DEF MkFrame
      <3> QED
        BY <2>2, <2>4, <3>1, FineCalls
    <2> QED
      BY <2>1, <2>3, <2>4
  <1>7. CASE decode_length
    <2> DEFINE h == Head(Top.data)
               frame == MkFrame("uws", "frame", opcode(h), needed_bytes(h), <<h>>)
    <2>1. frame.fn = "frame"
      BY DEF MkFrame
    <2>2. Pop \/ Goto(<<Uws("indicate_ws_error")>>) \/ Goto(<<frame>>)
      BY <1>7 DEF decode_length
    <2>3. Running("uws", "decode_frame")
      BY <1>7 DEF decode_length
    <2> HIDE DEF frame
    <2> QED
      BY <2>1, <2>2, <2>3, FineCalls, FinePop
  <1>8. CASE consume_stream_buffer_bytes
    <2>1. Running("uws", "consume_stream_buffer_bytes")
      BY <1>8 DEF consume_stream_buffer_bytes
    <2>2. Goto(<<>>) \/ Goto(<<Uws("decode_stream")>>) \/ Goto(<<Uws("undefined")>>)
      BY <1>8 DEF consume_stream_buffer_bytes
    <2> QED
      BY <2>1, <2>2, FineCalls
  <1> QED
    BY <1>1, <1>2, <1>3, <1>4, <1>5, <1>6, <1>7, <1>8

\* The client: one action per kind of frame.
LEMMA UwsFrameFine ==
    ASSUME stack \in Seq(Frame), Linked(stack),
           \/ frame_continuation \/ message_done \/ frame_data_final \/ frame_data_first
           \/ frame_close_bad \/ frame_close_answer \/ frame_close_by_peer \/ answer_sent
           \/ close_or_error \/ close_or_complete \/ frame_ping \/ frame_ignored
    PROVE  Fine'
  <1> USE Names DEF Running, Top, First, Then, Last, Returning, InSend, AtTopOnly, Received
  <1>0. ASSUME NEW next PROVE Consume(next).fn = "consume_stream_buffer_bytes"
    BY DEF Consume
  <1>1. ASSUME Running("uws", "frame"), NEW next, Reject(next)
        PROVE  Fine'
    BY <1>0, <1>1, FineCalls DEF Reject
  <1>2. CASE frame_continuation
    <2>1. Running("uws", "frame")
      BY <1>2 DEF frame_continuation
    <2> DEFINE report == User("on_ws_frame_received", fragmented_frame_type, 0, fragment_buffer')
    <2>2. report.fn = "on_ws_frame_received"
      BY DEF User, MkFrame
    <2>3. \/ Reject("stop") \/ Goto(<<Consume("again")>>)
          \/ Goto(<<Uws("indicate_ws_error"), Consume("again")>>)
          \/ Goto(<<report, Uws("message_done"), Consume("again")>>)
      BY <1>2 DEF frame_continuation
    <2> HIDE DEF report
    <2>4. CASE Reject("stop")
      BY <1>1, <2>1, <2>4
    <2>5. CASE Goto(<<report, Uws("message_done"), Consume("again")>>)
      BY <1>0, <2>1, <2>2, <2>5, FineCalls
    <2>6. CASE Goto(<<Consume("again")>>) \/ Goto(<<Uws("indicate_ws_error"), Consume("again")>>)
      BY <1>0, <2>1, <2>6, FineCalls
    <2> QED
      BY <2>3, <2>4, <2>5, <2>6
  <1>3. CASE message_done
    BY <1>3, FinePop DEF message_done
  <1>4. CASE frame_data_final
    <2>1. PICK op \in {"text", "binary"} :
            /\ Running("uws", "frame")
            /\ Goto(<<User("on_ws_frame_received", DataType(op), 0, <<h_>>), Consume("again")>>)
      BY <1>4 DEF frame_data_final
    <2>2. User("on_ws_frame_received", DataType(op), 0, <<h_>>).fn = "on_ws_frame_received"
      BY DEF User, MkFrame
    <2> QED
      BY <1>0, <2>1, <2>2, FineCalls
  <1>5. CASE frame_data_first
    <2>1. /\ Running("uws", "frame")
          /\ Reject("again") \/ Reject("stop") \/ Goto(<<Consume("again")>>)
      BY <1>5 DEF frame_data_first
    <2>2. CASE Reject("again") \/ Reject("stop")
      BY <1>1, <2>1, <2>2
    <2>3. CASE Goto(<<Consume("again")>>)
      BY <1>0, <2>1, <2>3, FineCalls
    <2> QED
      BY <2>1, <2>2, <2>3
  <1>6. CASE frame_close_bad
    <2>1. /\ Running("uws", "frame")
          /\ \/ Reject("stop")
             \/ Goto(<<xio_close("uws", "close_complete"), Uws("close_or_error"), Consume("stop")>>)
      BY <1>6 DEF frame_close_bad
    <2>2. CASE Reject("stop")
      BY <1>1, <2>1, <2>2
    <2>3. CASE ~Reject("stop")
      BY <1>0, <2>1, <2>3, FineCalls
    <2> QED
      BY <2>2, <2>3
  <1>7. CASE frame_close_answer
    BY <1>0, <1>7, FineCalls DEF frame_close_answer
  <1>8. CASE frame_close_by_peer
    <2> DEFINE report == User("on_ws_peer_closed", "", 0, <<>>)
               end == Consume("stop")
               send == xio_send("uws", "on_underlying_io_close_sent", 0)
               sent == Uws("answer_sent")
               close == xio_close("uws", "close_complete")
               closed == Uws("close_or_error")
    <2>1. /\ <<send, sent>> \o <<report, end>> = <<send, sent, report, end>>
          /\ <<close, closed>> \o <<report, end>> = <<close, closed, report, end>>
      <3> HIDE DEF report, end, send, sent, close, closed
      <3>1. <<send, sent>> \o <<report, end>> = <<send, sent, report, end>>
        BY ConcatTuples
      <3>2. <<close, closed>> \o <<report, end>> = <<close, closed, report, end>>
        BY ConcatTuples
      <3> QED
        BY <3>1, <3>2
    <2>2. /\ Running("uws", "frame")
          /\ Goto(<<send, sent, report, end>>) \/ Goto(<<close, closed, report, end>>)
      BY <1>8, <2>1 DEF frame_close_by_peer
    <2>3. /\ report.fn = "on_ws_peer_closed" /\ end.fn = "consume_stream_buffer_bytes"
          /\ send.fn = "send" /\ sent.fn = "answer_sent" /\ close.fn = "close" /\ closed.fn = "close_or_error"
      BY <1>0 DEF User, MkFrame
    <2> HIDE DEF report, end, send, sent, close, closed
    <2> QED
      BY <2>2, <2>3, FineCalls
  <1>9. CASE answer_sent
    BY <1>9, FineCalls, FinePop DEF answer_sent
  <1>10. CASE close_or_error
    BY <1>10, FineCalls DEF close_or_error
  <1>11. CASE close_or_complete
    BY <1>11, FineCalls DEF close_or_complete
  <1>12. CASE frame_ping
    <2>1. /\ Running("uws", "frame")
          /\ \/ Reject("stop") \/ Goto(<<Consume("stop")>>)
             \/ Goto(<<xio_send("uws", "unchecked_on_send_complete", 0), Consume("stop")>>)
      BY <1>12 DEF frame_ping
    <2>2. CASE Reject("stop")
      BY <1>1, <2>1, <2>2
    <2>3. CASE ~Reject("stop")
      BY <1>0, <2>1, <2>3, FineCalls
    <2> QED
      BY <2>2, <2>3
  <1>13. CASE frame_ignored
    BY <1>0, <1>13, FineCalls DEF frame_ignored
  <1> QED
    BY <1>2, <1>3, <1>4, <1>5, <1>6, <1>7, <1>8, <1>9, <1>10, <1>11, <1>12, <1>13

-----------------------------------------------------------------------------
(* The invariant: who has a send.                                           *)

\* It was made, and not reported complete.
Untold(x) == x \in 1 .. sends /\ completions[x] = 0

\* The running frame, if it has a send in its hands: one that it is about to put into
\* the list, to report or to refuse is nowhere else; one that it hands down was not
\* reported yet.
TopOK ==
    stack # <<>> =>
      /\ Top.fn \in {"uws_client_send_frame_async", "on_ws_send_frame_complete"} =>
           Untold(Top.n) /\ Top.n \notin refused /\ ~Listed(Top.n)
      /\ Top.fn = "frame_sent" /\ Top.ret # 0 => Untold(Top.n)
      /\ AwaitsSend(Top) /\ Top.ret # 0 => Untold(Top.n) /\ ~Listed(Top.n)
      /\ Top.fn = "send" /\ Len(stack) > 1 =>
           (stack[2].fn = "frame_sent" => Untold(stack[2].n))

\* The list has no duplicates, and what is in it was neither reported nor refused.
DataOK ==
    /\ \A i, j \in DOMAIN pending_sends : pending_sends[i] = pending_sends[j] => i = j
    /\ \A i \in DOMAIN pending_sends : Untold(pending_sends[i]) /\ pending_sends[i] \notin refused
    /\ \A x \in SendIds : completions[x] <= 1 /\ (x > sends => completions[x] = 0)
    /\ \A x \in refused : Untold(x)

SendInv == Linked(stack) /\ (faults = {} => TopOK /\ DataOK)

-----------------------------------------------------------------------------
(* The list of pending sends.                                               *)

\* Removing a send leaves the others, and not the send itself.
LEMMA WithoutProperties ==
    ASSUME pending_sends \in Seq(Nat), NEW x,
           \A i, j \in DOMAIN pending_sends : pending_sends[i] = pending_sends[j] => i = j
    PROVE  /\ \A i, j \in DOMAIN Without(x) : Without(x)[i] = Without(x)[j] => i = j
           /\ \A i \in DOMAIN Without(x) : /\ Without(x)[i] # x
                                          /\ \E j \in DOMAIN pending_sends : Without(x)[i] = pending_sends[j]
  <1>1. CASE ~Listed(x)
    BY <1>1 DEF Without, Listed
  <1>2. CASE Listed(x)
    <2> DEFINE p == Position(pending_sends, x)
               m == Len(pending_sends) - 1
               old(i) == IF i < p THEN i ELSE i + 1
    <2>1. p \in DOMAIN pending_sends /\ pending_sends[p] = x /\ p \in 1 .. Len(pending_sends)
      BY <1>2 DEF Listed, Position
    <2>2. m \in Nat /\ DOMAIN pending_sends = 1 .. m + 1
      BY <2>1
    <2>3. Without(x) = [i \in 1 .. m |-> pending_sends[old(i)]]
      BY <1>2 DEF Without
    <2> HIDE DEF m
    <2>4. ASSUME NEW i \in 1 .. m PROVE old(i) \in DOMAIN pending_sends /\ old(i) # p
      BY <2>1, <2>2
    <2>5. ASSUME NEW i \in 1 .. m, NEW j \in 1 .. m, old(i) = old(j) PROVE i = j
      BY <2>1, <2>2, <2>5
    <2>6. DOMAIN Without(x) = 1 .. m /\ \A i \in 1 .. m : Without(x)[i] = pending_sends[old(i)]
      BY <2>3
    <2> HIDE DEF p, old
    <2> QED
      BY <2>1, <2>4, <2>5, <2>6
  <1> QED
    BY <1>1, <1>2

\* So does removing the first.
LEMMA TailProperties ==
    ASSUME pending_sends \in Seq(Nat), pending_sends # <<>>,
           \A i, j \in DOMAIN pending_sends : pending_sends[i] = pending_sends[j] => i = j
    PROVE  LET t == Tail(pending_sends)
           IN  /\ \A i, j \in DOMAIN t : t[i] = t[j] => i = j
               /\ \A i \in DOMAIN t : /\ t[i] # Head(pending_sends)
                                     /\ \E j \in DOMAIN pending_sends : t[i] = pending_sends[j]
               /\ Head(pending_sends) = pending_sends[1] /\ 1 \in DOMAIN pending_sends
  <1> DEFINE t == Tail(pending_sends)
             m == Len(pending_sends) - 1
  <1>1. m \in Nat /\ DOMAIN pending_sends = 1 .. m + 1 /\ Head(pending_sends) = pending_sends[1]
    BY EmptySeq, LenProperties
  <1>2. DOMAIN t = 1 .. m /\ \A i \in 1 .. m : t[i] = pending_sends[i + 1]
    BY HeadTailProperties, LenProperties
  <1> HIDE DEF t, m
  <1>3. \A i \in 1 .. m : i + 1 \in DOMAIN pending_sends /\ i + 1 # 1
    BY <1>1
  <1>4. 1 \in DOMAIN pending_sends
    BY <1>1
  <1>5. \A i, j \in 1 .. m : i + 1 = j + 1 => i = j
    BY <1>1
  <1>6. \A i, j \in DOMAIN t : t[i] = t[j] => i = j
    <2> SUFFICES ASSUME NEW i \in 1 .. m, NEW j \in 1 .. m, t[i] = t[j] PROVE i = j
      BY <1>2
    <2>1. pending_sends[i + 1] = pending_sends[j + 1]
      BY <1>2
    <2> QED
      BY <1>3, <1>5, <2>1
  <1>7. ASSUME NEW i \in DOMAIN t
        PROVE  t[i] # pending_sends[1] /\ \E j \in DOMAIN pending_sends : t[i] = pending_sends[j]
    <2>1. i \in 1 .. m /\ t[i] = pending_sends[i + 1] /\ i + 1 \in DOMAIN pending_sends /\ i + 1 # 1
      BY <1>2, <1>3
    <2> QED
      BY <1>4, <2>1
  <1> QED
    BY <1>1, <1>4, <1>6, <1>7 DEF t

-----------------------------------------------------------------------------
(* Steps and the invariant.                                                 *)

\* Calls by any function: who runs, and on what.
LEMMA LinkedGoto ==
    ASSUME stack \in Seq(Frame), stack # <<>>, Linked(stack),
           NEW S, NEW fs \in Seq(S), Frame \subseteq S, Goto(fs), fs # <<>>, Linked(fs),
           Replaces(Top, fs[Len(fs)])
    PROVE  /\ Linked(stack')
           /\ stack' # <<>> /\ Head(stack') = fs[1] /\ stack'[1] = fs[1]
           /\ Len(fs) > 1 => stack'[2] = fs[2]
           /\ Len(fs) = 1 /\ Len(stack') > 1 => Len(stack) > 1 /\ stack'[2] = stack[2]
  <1> DEFINE rest == Tail(stack)
  <1>1. Top \in S /\ rest \in Seq(S) /\ stack = <<Top>> \o rest
    <2>1. Top \in Frame /\ rest \in Seq(Frame)
      BY TopType
    <2>2. stack = <<Top>> \o rest
      BY HeadTailProperties DEF Top
    <2> QED
      BY <2>1, <2>2
  <1>2. stack' = fs \o rest
    BY DEF Goto
  <1> HIDE DEF rest
  <1>3. Linked(stack')
    BY <1>1, <1>2, LinkedConcat
  <1>4. stack' # <<>> /\ Head(stack') = fs[1] /\ stack'[1] = fs[1] /\ (Len(fs) > 1 => stack'[2] = fs[2])
    BY <1>1, <1>2, EmptySeq
  <1>5. ASSUME Len(fs) = 1, Len(stack') > 1
        PROVE  Len(stack) > 1 /\ stack'[2] = stack[2]
    <2>1. Len(<<Top>>) = 1 /\ <<Top>>[1] = Top /\ <<Top>> \in Seq(S)
      BY <1>1
    <2>2. Len(stack) = 1 + Len(rest) /\ (Len(rest) > 0 => stack[2] = rest[1])
      BY <1>1, <2>1, ConcatOne
    <2>3. Len(stack') = 1 + Len(rest) /\ (Len(rest) > 0 => stack'[2] = rest[1])
      BY <1>1, <1>2, <1>5, ConcatOne
    <2>4. Len(rest) \in Nat
      BY <1>1, LenProperties
    <2> QED
      BY <1>5, <2>2, <2>3, <2>4
  <1> QED
    BY <1>3, <1>4, <1>5

\* ... written out
LEMMA LinkedCalls ==
    ASSUME stack \in Seq(Frame), stack # <<>>, Linked(stack)
    PROVE  /\ \A a : Goto(<<a>>) /\ Replaces(Top, a) =>
                  /\ Linked(stack') /\ stack' # <<>> /\ Head(stack') = a /\ stack'[1] = a
                  /\ Len(stack') > 1 => Len(stack) > 1 /\ stack'[2] = stack[2]
           /\ \A a, b : Goto(<<a, b>>) /\ b.fn \notin AtTopOnly /\ Link(a, b) /\ Replaces(Top, b) =>
                  /\ Linked(stack') /\ stack' # <<>> /\ Head(stack') = a /\ stack'[1] = a
                  /\ stack'[2] = b
  <1>1. ASSUME NEW a, Goto(<<a>>), Replaces(Top, a)
        PROVE  /\ Linked(stack') /\ stack' # <<>> /\ Head(stack') = a /\ stack'[1] = a
               /\ Len(stack') > 1 => Len(stack) > 1 /\ stack'[2] = stack[2]
    <2> DEFINE S == Frame \cup {a}
               fs == <<a>>
    <2>1. fs \in Seq(S) /\ fs # <<>> /\ Len(fs) = 1 /\ fs[1] = a /\ Frame \subseteq S /\ Goto(fs)
      BY <1>1
    <2> HIDE DEF S, fs
    <2>2. Linked(fs)
      BY <2>1 DEF Linked
    <2> QED
      BY <1>1, <2>1, <2>2, LinkedGoto
  <1>2. ASSUME NEW a, NEW b, Goto(<<a, b>>), b.fn \notin AtTopOnly, Link(a, b), Replaces(Top, b)
        PROVE  /\ Linked(stack') /\ stack' # <<>> /\ Head(stack') = a /\ stack'[1] = a
               /\ stack'[2] = b
    <2> DEFINE S == Frame \cup {a, b}
               fs == <<a, b>>
    <2>1. /\ fs \in Seq(S) /\ fs # <<>> /\ Len(fs) = 2 /\ fs[1] = a /\ fs[2] = b /\ Frame \subseteq S
          /\ Goto(fs)
      BY <1>2
    <2> HIDE DEF S, fs
    <2>2. \A i \in 2 .. Len(fs) : i = 2
      BY <2>1
    <2>3. Linked(fs)
      BY <1>2, <2>1, <2>2 DEF Linked
    <2>4. Len(fs) > 1
      BY <2>1
    <2> QED
      BY <1>2, <2>1, <2>3, <2>4, LinkedGoto
  <1> QED
    BY <1>1, <1>2

\* After a step that has nothing to do with a send, what was true of the sends still is.
LEMMA FineStep ==
    ASSUME SendInv, stack' \in Seq(Frame), Fine', UNCHANGED <<sends, completions, refused, pending_sends>>,
           faults' = {} => faults = {}
    PROVE  SendInv'
  <1>1. stack' # <<>> => Head(stack') = stack'[1]
    OBVIOUS
  <1>2. TopOK'
    BY <1>1 DEF Fine, Calm, TopOK, Top
  <1>3. DataOK => DataOK'
    BY DEF DataOK, Untold, SendIds
  <1> QED
    BY <1>2, <1>3 DEF SendInv, Fine

\* the caller that a value was returned to
LEMMA ReturnedTo ==
    ASSUME stack \in Seq(Frame), stack # <<>>, Linked(stack), Top.fn \in Returning,
           NEW v \in {0, 1}, Return(v)
    PROVE  /\ Linked(stack')
           /\ stack' # <<>> =>
                /\ Len(stack) > 1 /\ stack[2].fn \notin AtTopOnly /\ Link(Top, stack[2])
                /\ Head(stack').fn = stack[2].fn /\ Head(stack').arg = stack[2].arg
                /\ Head(stack').n = stack[2].n /\ Head(stack').ret = v
  <1>1. CASE Tail(stack) = <<>>
    BY <1>1, LinkedReturn
  <1>2. CASE Tail(stack) # <<>>
    <2> DEFINE below == Head(Tail(stack))
    <2>1. /\ below \in Frame /\ below.fn \notin AtTopOnly /\ Link(Top, below)
          /\ stack[2] = below /\ Len(stack) > 1
      BY <1>2, CallerLinked
    <2>2. Linked(stack') /\ Head(stack') = [below EXCEPT !.ret = v]
      BY <1>2, LinkedReturn
    <2> HIDE DEF below
    <2> QED
      BY <2>1, <2>2 DEF Frame
  <1> QED
    BY <1>1, <1>2

\* xio_send returns without having called back: a send in its hands can be refused.
LEMMA SendReturns ==
    ASSUME SendInv, stack \in Seq(Frame), stack # <<>>, Top.fn = "send", NEW v \in {0, 1}, Return(v),
           UNCHANGED <<sends, completions, refused, pending_sends, faults>>
    PROVE  SendInv'
  <1>1. /\ Linked(stack')
        /\ stack' # <<>> =>
             /\ Len(stack) > 1 /\ stack[2].fn \notin AtTopOnly /\ Link(Top, stack[2])
             /\ Head(stack').fn = stack[2].fn /\ Head(stack').arg = stack[2].arg
             /\ Head(stack').n = stack[2].n /\ Head(stack').ret = v
    BY ReturnedTo DEF SendInv, Returning
  <1>2. ASSUME TopOK, stack' # <<>>
        PROVE  /\ Head(stack').fn \notin AtTopOnly
               /\ ~AwaitsSend(Head(stack'))
               /\ Head(stack').fn = "frame_sent" => Untold(Head(stack').n)
    BY <1>1, <1>2 DEF TopOK, Link, AwaitsSend
  <1>3. TopOK => TopOK'
    BY <1>2 DEF TopOK, Top, AtTopOnly, Untold
  <1>4. DataOK => DataOK'
    BY DEF DataOK, Untold
  <1> QED
    BY <1>1, <1>3, <1>4 DEF SendInv

\* socketio_send
LEMMA SockSendInv ==
    ASSUME SendInv, stack \in Seq(Frame), stack' \in Seq(Frame), UNCHANGED <<uwsVars, userVars>>,
           socketio_send_sent \/ socketio_send_queued \/ socketio_send_failed
    PROVE  SendInv'
  <1>1. UNCHANGED <<sends, completions, refused, pending_sends, faults>>
    BY DEF uwsVars, userVars
  <1>2. CASE socketio_send_queued \/ socketio_send_failed
    BY <1>1, <1>2, SendReturns DEF socketio_send_queued, socketio_send_failed, Running, Top
  <1>3. CASE socketio_send_sent
    <2> DEFINE done == ReturnFrame("socket", 0)
               completed == MkFrame("uws", Top.arg, "OK", Top.n, <<>>)
    <2>1. stack # <<>> /\ Top.fn = "send" /\ Top.arg \in SendCallbacks
      BY <1>3, TopType DEF socketio_send_sent, Running, Top, WellCalled
    <2>2. done.fn = "return" /\ done.ret = 0 /\ completed.fn = Top.arg
      BY DEF MkFrame, ReturnFrame
    <2>3. Goto(<<done>>) \/ (Goto(<<completed, done>>) /\ Top.arg \notin {"NULL", "unchecked_on_send_complete"})
      <3>1. <<>> \o <<done>> = <<done>> /\ <<completed>> \o <<done>> = <<completed, done>>
        BY ONLY ConcatTuples
      <3>2. Goto(on_send_complete(Top.arg, "OK", Top.n) \o <<done>>)
        BY <1>3 DEF socketio_send_sent
      <3>3. CASE Top.arg \in {"NULL", "unchecked_on_send_complete"}
        BY <3>1, <3>2, <3>3 DEF on_send_complete
      <3>4. CASE Top.arg \notin {"NULL", "unchecked_on_send_complete"}
        BY <3>1, <3>2, <3>4 DEF on_send_complete
      <3> QED
        BY <3>3, <3>4
    <2> HIDE DEF done, completed
    <2>4. Replaces(Top, done)
      BY <2>1, <2>2 DEF Replaces, Link, Returning
    <2>5. Linked(stack)
      BY DEF SendInv
    <2>6. Linked(stack') /\ stack' # <<>> /\ stack'[1] \in {done, completed}
          /\ (stack'[1] = done \/ Top.arg \in SendCallbacks \ {"NULL", "unchecked_on_send_complete"})
      <3>1. CASE Goto(<<done>>)
        BY <2>1, <2>4, <2>5, <3>1, LinkedCalls
      <3>2. CASE Goto(<<completed, done>>) /\ Top.arg \notin {"NULL", "unchecked_on_send_complete"}
        <4>1. Link(completed, done) /\ done.fn \notin AtTopOnly
          BY <2>1, <2>2, <3>2 DEF Link, Returning, SendCallbacks, AwaitsSend, AtTopOnly
        <4> QED
          BY <2>1, <2>4, <2>5, <3>2, <4>1, LinkedCalls
      <3> QED
        BY <2>3, <3>1, <3>2
    <2>7. Calm(stack')
      BY <2>2, <2>6 DEF Calm, AwaitsSend, SendCallbacks
    <2> QED
      BY <1>1, <2>6, <2>7, FineStep DEF Fine
  <1> QED
    BY <1>2, <1>3

\* tlsio_openssl_send: it is handed down as it is, or not at all
LEMMA TlsSendInv ==
    ASSUME SendInv, stack \in Seq(Frame), UNCHANGED <<uwsVars, userVars>>, tlsio_openssl_send
    PROVE  SendInv'
  <1>1. UNCHANGED <<sends, completions, refused, pending_sends, faults>>
    BY DEF uwsVars, userVars
  <1>2. stack # <<>> /\ Top.fn = "send" /\ Linked(stack)
    BY DEF tlsio_openssl_send, Running, Top, SendInv
  <1>3. CASE Return(1)
    BY <1>1, <1>2, <1>3, SendReturns
  <1>4. CASE ~Return(1)
    <2> DEFINE send == xio_send("tls", Top.arg, Top.n)
    <2>1. Goto(<<send>>) /\ send.fn = "send"
      BY <1>4 DEF tlsio_openssl_send, xio_send, MkFrame
    <2> HIDE DEF send
    <2>2. Replaces(Top, send)
      BY <1>2, <2>1 DEF Replaces, Link, Returning
    <2>3. /\ Linked(stack') /\ stack' # <<>> /\ Head(stack') = send
          /\ Len(stack') > 1 => Len(stack) > 1 /\ stack'[2] = stack[2]
      BY <1>2, <2>1, <2>2, LinkedCalls
    <2>4. TopOK => TopOK'
      BY <1>1, <1>2, <2>1, <2>3 DEF TopOK, Top, AwaitsSend, Untold
    <2>5. DataOK => DataOK'
      BY <1>1 DEF DataOK, Untold
    <2> QED
      BY <1>1, <2>3, <2>4, <2>5 DEF SendInv
  <1> QED
    BY <1>3, <1>4

\* "return v", which returns 0 to a frame that waits for a send
LEMMA ReturnInv ==
    ASSUME SendInv, stack \in Seq(Frame), UNCHANGED <<uwsVars, userVars>>, ReturnStep
    PROVE  SendInv'
  <1>1. UNCHANGED <<sends, completions, refused, pending_sends, faults>>
    BY DEF uwsVars, userVars
  <1>2. stack # <<>> /\ Top.fn = "return" /\ Linked(stack) /\ Return(Top.ret) /\ Top.ret \in {0, 1}
    BY TopType DEF ReturnStep, SendInv
  <1>3. /\ Linked(stack')
        /\ stack' # <<>> =>
             /\ stack[2].fn \notin AtTopOnly /\ Link(Top, stack[2])
             /\ Head(stack').fn = stack[2].fn /\ Head(stack').arg = stack[2].arg
             /\ Head(stack').n = stack[2].n /\ Head(stack').ret = Top.ret
    BY <1>2, ReturnedTo DEF Returning
  <1>4. TopOK'
    BY <1>2, <1>3 DEF TopOK, Top, Link, AwaitsSend, AtTopOnly
  <1>5. DataOK => DataOK'
    BY <1>1 DEF DataOK, Untold
  <1> QED
    BY <1>1, <1>3, <1>4, <1>5 DEF SendInv

\* uws_client_send_frame_async: into the list and down, or refused at once
LEMMA SendFrameInv ==
    ASSUME SendInv, TypeOK, UNCHANGED userVars, uws_client_send_frame_async
    PROVE  SendInv'
  <1>1. UNCHANGED <<sends, completions, refused, faults>>
    BY DEF userVars, uws_client_send_frame_async
  <1>2. stack # <<>> /\ Top.fn = "uws_client_send_frame_async" /\ Linked(stack) /\ stack \in Seq(Frame)
    BY DEF uws_client_send_frame_async, Running, Top, SendInv, TypeOK
  <1>3. CASE Return(1) /\ UNCHANGED pending_sends
    <2>1. /\ Linked(stack')
          /\ stack' # <<>> =>
               /\ stack[2].fn \notin AtTopOnly /\ Link(Top, stack[2])
               /\ Head(stack').fn = stack[2].fn /\ Head(stack').arg = stack[2].arg
               /\ Head(stack').n = stack[2].n
      BY <1>2, <1>3, ReturnedTo DEF Returning
    <2>2. TopOK => TopOK'
      BY <1>1, <1>2, <1>3, <2>1 DEF TopOK, Top, Link, AwaitsSend, AtTopOnly, Untold, Listed
    <2>3. DataOK => DataOK'
      BY <1>1, <1>3 DEF DataOK, Untold
    <2> QED
      BY <1>1, <2>1, <2>2, <2>3 DEF SendInv
  <1>4. CASE ~(Return(1) /\ UNCHANGED pending_sends)
    <2> DEFINE x == Top.n
               send == xio_send("uws", "on_underlying_io_send_complete", x)
               sent == MkFrame("uws", "frame_sent", "", x, <<>>)
    <2>1. pending_sends' = Append(pending_sends, x) /\ Goto(<<send, sent>>)
      BY <1>4 DEF uws_client_send_frame_async
    <2>2. send.fn = "send" /\ sent.fn = "frame_sent" /\ sent.n = x
      BY DEF xio_send, MkFrame
    <2>3. x \in Nat /\ pending_sends \in Seq(Nat)
      BY <1>2, TopType DEF TypeOK, UwsTypeOK
    <2> HIDE DEF send, sent
    <2>4. Replaces(Top, sent) /\ Link(send, sent) /\ sent.fn \notin AtTopOnly
      BY <1>2, <2>2 DEF Replaces, Link, Returning, AwaitsSend, AtTopOnly
    <2>5. Linked(stack') /\ stack' # <<>> /\ Head(stack') = send /\ stack'[2] = sent
      BY <1>2, <2>1, <2>4, LinkedCalls
    <2>6. TopOK => Untold(x) /\ x \notin refused /\ ~Listed(x)
      BY <1>2 DEF TopOK
    <2> HIDE DEF x
    <2>7. TopOK => TopOK'
      BY <1>1, <2>2, <2>5, <2>6 DEF TopOK, Top, AwaitsSend, Untold
    <2>8. ASSUME TopOK, DataOK PROVE DataOK'
      <3> DEFINE m == Len(pending_sends)
                 new == Append(pending_sends, x)
      <3>1. /\ m \in Nat /\ DOMAIN pending_sends = 1 .. m /\ DOMAIN new = 1 .. m + 1
            /\ \A i \in 1 .. m : new[i] = pending_sends[i]
            /\ new[m + 1] = x
        BY <2>3, AppendProperties, LenProperties
      <3> HIDE DEF new, m
      <3>2. ASSUME NEW i \in 1 .. m + 1 PROVE i \in 1 .. m \/ i = m + 1
        BY <3>1
      <3>3. \A i \in 1 .. m : pending_sends[i] # x
        BY <2>6, <2>8, <3>1 DEF Listed
      <3>4. \A i, j \in DOMAIN new : new[i] = new[j] => i = j
        BY <2>8, <3>1, <3>2, <3>3 DEF DataOK
      <3>5. \A i \in DOMAIN new : Untold(new[i]) /\ new[i] \notin refused
        BY <2>6, <2>8, <3>1, <3>2 DEF DataOK
      <3>6. pending_sends' = new
        BY <2>1 DEF new
      <3> QED
        BY <1>1, <2>8, <3>4, <3>5, <3>6 DEF DataOK, Untold
    <2> QED
      BY <1>1, <2>5, <2>7, <2>8 DEF SendInv
  <1> QED
    BY <1>3, <1>4

\* frame_sent: a send that failed is taken from the list before the user is told
LEMMA FrameSentInv ==
    ASSUME SendInv, TypeOK, UNCHANGED userVars, frame_sent
    PROVE  SendInv'
  <1>1. UNCHANGED <<sends, completions, refused, faults>>
    BY DEF userVars, frame_sent
  <1>2. /\ stack # <<>> /\ Top.fn = "frame_sent" /\ Linked(stack) /\ stack \in Seq(Frame)
        /\ Return(Top.ret) /\ Top.ret \in {0, 1} /\ pending_sends \in Seq(Nat)
    BY TopType DEF frame_sent, Running, Top, SendInv, TypeOK, UwsTypeOK
  <1>3. /\ Linked(stack')
        /\ stack' # <<>> =>
             /\ stack[2].fn \notin AtTopOnly /\ Link(Top, stack[2])
             /\ Head(stack').fn = stack[2].fn /\ Head(stack').arg = stack[2].arg
             /\ Head(stack').n = stack[2].n /\ Head(stack').ret = Top.ret
    BY <1>2, ReturnedTo DEF Returning
  <1>4. CASE Top.ret = 0
    <2>1. UNCHANGED pending_sends
      BY <1>4 DEF frame_sent
    <2>2. TopOK'
      BY <1>2, <1>3, <1>4 DEF TopOK, Top, Link, AwaitsSend, AtTopOnly
    <2>3. DataOK => DataOK'
      BY <1>1, <2>1 DEF DataOK, Untold
    <2> QED
      BY <1>1, <1>3, <2>2, <2>3 DEF SendInv
  <1>5. CASE Top.ret # 0
    <2>0. PICK x : x = Top.n
      OBVIOUS
    <2> DEFINE new == Without(x)
    <2>1. pending_sends' = new
      BY <1>5, <2>0 DEF frame_sent
    <2>2. TopOK => Untold(x)
      BY <1>2, <1>5, <2>0 DEF TopOK
    <2>3. ASSUME DataOK
          PROVE  /\ \A i, j \in DOMAIN new : new[i] = new[j] => i = j
                 /\ \A i \in DOMAIN new : /\ new[i] # x
                                         /\ \E j \in DOMAIN pending_sends : new[i] = pending_sends[j]
      BY <1>2, <2>3, WithoutProperties DEF DataOK
    <2> HIDE DEF new
    <2>4. ASSUME TopOK, DataOK PROVE TopOK'
      <3>1. ~Listed(x)'
        BY <2>1, <2>3, <2>4 DEF Listed
      <3>2. Untold(x)'
        BY <1>1, <2>2, <2>4 DEF Untold
      <3>3. stack' # <<>> /\ AwaitsSend(Head(stack')) => Head(stack').n = x
        BY <1>3, <2>0 DEF Link, AwaitsSend
      <3>4. stack' # <<>> => Head(stack').fn \notin AtTopOnly \cup {"frame_sent"}
        BY <1>2, <1>3 DEF Link
      <3> QED
        BY <3>1, <3>2, <3>3, <3>4 DEF TopOK, Top, AtTopOnly
    <2>5. ASSUME DataOK PROVE DataOK'
      BY <1>1, <2>1, <2>3, <2>5 DEF DataOK, Untold
    <2> QED
      BY <1>1, <1>3, <2>4, <2>5 DEF SendInv
  <1> QED
    BY <1>4, <1>5

\* The completion of a send that is in the list: taken from it, then reported.
LEMMA SendCompleteInv ==
    ASSUME SendInv, TypeOK, UNCHANGED userVars, on_underlying_io_send_complete
    PROVE  SendInv'
  <1>1. UNCHANGED <<sends, completions, refused, faults>>
    BY DEF userVars, on_underlying_io_send_complete
  <1>2. /\ stack # <<>> /\ Top.fn = "on_underlying_io_send_complete" /\ Linked(stack) /\ stack \in Seq(Frame)
        /\ pending_sends \in Seq(Nat)
    BY DEF on_underlying_io_send_complete, Running, Top, SendInv, TypeOK, UwsTypeOK
  <1>3. PICK x : x = Top.n
    OBVIOUS
  <1> DEFINE report == User("on_ws_send_frame_complete", Top.arg, x, <<>>)
             new == Without(x)
  <1>4. /\ Listed(x) /\ pending_sends' = new /\ Goto(<<report>>)
        /\ report.fn = "on_ws_send_frame_complete" /\ report.n = x
    BY <1>3 DEF on_underlying_io_send_complete, User, MkFrame
  <1>5. ASSUME DataOK
        PROVE  /\ \A i, j \in DOMAIN new : new[i] = new[j] => i = j
               /\ \A i \in DOMAIN new : /\ new[i] # x
                                       /\ \E j \in DOMAIN pending_sends : new[i] = pending_sends[j]
    BY <1>2, <1>5, WithoutProperties DEF DataOK
  <1>6. DataOK => Untold(x) /\ x \notin refused
    BY <1>4 DEF DataOK, Listed
  <1> HIDE DEF report, new
  <1>7. Replaces(Top, report)
    BY <1>2, <1>4 DEF Replaces, Link, Returning
  <1>8. Linked(stack') /\ stack' # <<>> /\ Head(stack') = report
    BY <1>2, <1>4, <1>7, LinkedCalls
  <1>9. ASSUME DataOK PROVE TopOK'
    <2>1. ~Listed(x)'
      BY <1>4, <1>5, <1>9 DEF Listed
    <2>2. Untold(x)' /\ x \notin refused'
      BY <1>1, <1>6, <1>9 DEF Untold
    <2> QED
      BY <1>4, <1>8, <2>1, <2>2 DEF TopOK, Top, AwaitsSend
  <1>10. ASSUME DataOK PROVE DataOK'
    BY <1>1, <1>4, <1>5, <1>10 DEF DataOK, Untold
  <1> QED
    BY <1>1, <1>8, <1>9, <1>10 DEF SendInv

\* The completion of a send that is not in the list is a fault; only the stack is looked at.
LEMMA FreedSendInv ==
    ASSUME SendInv, TypeOK, on_underlying_io_send_complete_freed
    PROVE  SendInv'
  <1>1. /\ stack # <<>> /\ Top.fn = "on_underlying_io_send_complete" /\ Linked(stack) /\ stack \in Seq(Frame)
        /\ faults' # {}
    BY DEF on_underlying_io_send_complete_freed, Running, Top, SendInv, TypeOK
  <1> DEFINE report == User("on_ws_send_frame_complete", Top.arg, Top.n, <<>>)
  <1>2. /\ Pop \/ Goto(<<report>>) \/ Goto(<<Uws("indicate_ws_error")>>)
        /\ report.fn = "on_ws_send_frame_complete" /\ Uws("indicate_ws_error").fn = "indicate_ws_error"
    BY DEF on_underlying_io_send_complete_freed, User, Uws, MkFrame
  <1> HIDE DEF report
  <1>3. Replaces(Top, report) /\ Replaces(Top, Uws("indicate_ws_error"))
    BY <1>1, <1>2 DEF Replaces, Link, Returning
  <1>4. CASE Pop
    BY <1>1, <1>4, FinePop DEF Fine, InSend, SendInv
  <1>5. CASE ~Pop
    BY <1>1, <1>2, <1>3, <1>5, LinkedCalls DEF SendInv
  <1> QED
    BY <1>4, <1>5

\* clear_pending_sends: one after the other, each taken from the list before it is reported
LEMMA ClearInv ==
    ASSUME SendInv, TypeOK, stack' \in Seq(Frame), UNCHANGED userVars, clear_pending_sends
    PROVE  SendInv'
  <1>1. UNCHANGED <<sends, completions, refused, faults>>
    BY DEF userVars, clear_pending_sends
  <1>2. /\ stack # <<>> /\ Top.fn = "clear_pending_sends" /\ Linked(stack) /\ stack \in Seq(Frame)
        /\ pending_sends \in Seq(Nat)
    BY DEF clear_pending_sends, Running, Top, SendInv, TypeOK, UwsTypeOK
  <1>3. CASE pending_sends = <<>>
    <2>1. Pop /\ UNCHANGED pending_sends
      BY <1>3 DEF clear_pending_sends
    <2>2. Fine'
      BY <1>2, <2>1, FinePop DEF InSend
    <2> QED
      BY <1>1, <2>1, <2>2, FineStep
  <1>4. CASE pending_sends # <<>>
    <2>0. PICK x : x = Head(pending_sends)
      OBVIOUS
    <2> DEFINE report == User("on_ws_send_frame_complete", "CANCELLED", x, <<>>)
               more == Uws("clear_pending_sends")
               new == Tail(pending_sends)
    <2>1. /\ pending_sends' = new /\ Goto(<<report, more>>)
          /\ report.fn = "on_ws_send_frame_complete" /\ report.n = x
          /\ more.fn = "clear_pending_sends"
      BY <1>4, <2>0 DEF clear_pending_sends, User, Uws, MkFrame
    <2>2. ASSUME DataOK
          PROVE  /\ \A i, j \in DOMAIN new : new[i] = new[j] => i = j
                 /\ \A i \in DOMAIN new : /\ new[i] # x
                                         /\ \E j \in DOMAIN pending_sends : new[i] = pending_sends[j]
                 /\ x = pending_sends[1] /\ 1 \in DOMAIN pending_sends
      BY <1>2, <1>4, <2>0, <2>2, TailProperties DEF DataOK
    <2>3. DataOK => Untold(x) /\ x \notin refused
      BY <2>2 DEF DataOK
    <2> HIDE DEF report, more, new
    <2>4. Replaces(Top, more) /\ Link(report, more) /\ more.fn \notin AtTopOnly
      BY <1>2, <2>1 DEF Replaces, Link, Returning, AwaitsSend, AtTopOnly
    <2>5. Linked(stack') /\ stack' # <<>> /\ Head(stack') = report
      BY <1>2, <2>1, <2>4, LinkedCalls
    <2>6. ASSUME DataOK PROVE TopOK'
      <3>1. ~Listed(x)'
        BY <2>1, <2>2, <2>6 DEF Listed
      <3>2. Untold(x)' /\ x \notin refused'
        BY <1>1, <2>3, <2>6 DEF Untold
      <3> QED
        BY <2>1, <2>5, <3>1, <3>2 DEF TopOK, Top, AwaitsSend
    <2>7. ASSUME DataOK PROVE DataOK'
      BY <1>1, <2>1, <2>2, <2>7 DEF DataOK, Untold
    <2> QED
      BY <1>1, <2>5, <2>6, <2>7 DEF SendInv
  <1> QED
    BY <1>3, <1>4

\* Only a send touches the list, and faults are never forgotten.
LEMMA UwsElsewhere ==
    ASSUME UwsNext,
           ~(clear_pending_sends \/ uws_client_send_frame_async \/ frame_sent
             \/ on_underlying_io_send_complete \/ on_underlying_io_send_complete_freed)
    PROVE  UNCHANGED pending_sends /\ (faults' = {} => faults = {})
  <1> USE DEF uwsVars, Others, Reject
  <1>1. CASE \/ indicate_ws_open_complete_error \/ indicate_ws_error \/ indicate_ws_error_and_close
             \/ indicate_ws_close_complete \/ call_on_ws_close_complete \/ set_closed
    BY <1>1 DEF indicate_ws_open_complete_error, indicate_ws_error, indicate_ws_error_and_close,
                indicate_ws_close_complete, call_on_ws_close_complete, set_closed
  <1>2. CASE \/ uws_client_open_async \/ xio_open_returned \/ on_underlying_io_open_complete
             \/ upgrade_request_sent \/ on_underlying_io_bytes_received
    BY <1>2 DEF uws_client_open_async, xio_open_returned, on_underlying_io_open_complete,
                upgrade_request_sent, on_underlying_io_bytes_received
  <1>3. CASE \/ decode_nothing \/ decode_while_opening \/ decode_upgrade_response
             \/ decode_masked_frame \/ decode_unmasked_frame \/ decode_length
             \/ consume_stream_buffer_bytes
    BY <1>3 DEF decode_nothing, decode_while_opening, decode_upgrade_response, decode_masked_frame,
                decode_unmasked_frame, decode_length, consume_stream_buffer_bytes
  <1>4. CASE \/ frame_continuation \/ message_done \/ frame_data_final \/ frame_data_first
             \/ frame_close_bad \/ frame_close_answer \/ frame_close_by_peer
    BY <1>4 DEF frame_continuation, message_done, frame_data_final, frame_data_first, frame_close_bad,
                frame_close_answer, frame_close_by_peer
  <1>5. CASE \/ answer_sent \/ close_or_error \/ close_or_complete \/ frame_ping \/ frame_ignored
             \/ on_underlying_io_close_sent \/ close_sent_closed \/ on_underlying_io_close_complete
             \/ on_underlying_io_error
    BY <1>5 DEF answer_sent, close_or_error, close_or_complete, frame_ping, frame_ignored,
                on_underlying_io_close_sent, close_sent_closed, on_underlying_io_close_complete,
                on_underlying_io_error
  <1>6. CASE \/ uws_client_close_async \/ close_async_closed \/ uws_client_close_handshake_async
             \/ uws_client_destroy \/ uws_client_dowork
    BY <1>6 DEF uws_client_close_async, close_async_closed, uws_client_close_handshake_async,
                uws_client_destroy, uws_client_dowork
  <1> QED
    BY <1>1, <1>2, <1>3, <1>4, <1>5, <1>6 DEF UwsNext

\* Every step of the library keeps the invariant.
LEMMA LibraryInv ==
    ASSUME SendInv, TypeOK, stack' \in Seq(Frame),
           \/ SockNext /\ UNCHANGED <<uwsVars, userVars>>
           \/ TlsNext /\ UNCHANGED <<uwsVars, userVars>>
           \/ UwsNext /\ UNCHANGED userVars
           \/ ReturnStep /\ UNCHANGED <<uwsVars, userVars>>
    PROVE  SendInv'
  <1>1. stack \in Seq(Frame) /\ SockTypeOK /\ Linked(stack)
    BY DEF TypeOK, SendInv
  <1>2. /\ UNCHANGED userVars => UNCHANGED <<sends, completions, refused>>
        /\ UNCHANGED uwsVars => UNCHANGED <<pending_sends, faults>>
    BY DEF userVars, uwsVars
  <1>3. CASE SockNext /\ UNCHANGED <<uwsVars, userVars>>
    <2>1. CASE socketio_send_sent \/ socketio_send_queued \/ socketio_send_failed
      BY <1>1, <1>3, <2>1, SockSendInv
    <2>2. CASE ~(socketio_send_sent \/ socketio_send_queued \/ socketio_send_failed)
      BY <1>1, <1>2, <1>3, <2>2, SockFine, FineStep
    <2> QED
      BY <2>1, <2>2
  <1>4. CASE TlsNext /\ UNCHANGED <<uwsVars, userVars>>
    <2>1. CASE tlsio_openssl_send
      BY <1>1, <1>4, <2>1, TlsSendInv
    <2>2. CASE ~tlsio_openssl_send
      BY <1>1, <1>2, <1>4, <2>2, TlsFine, FineStep
    <2> QED
      BY <2>1, <2>2
  <1>5. CASE UwsNext /\ UNCHANGED userVars
    <2> DEFINE sending == \/ clear_pending_sends \/ uws_client_send_frame_async \/ frame_sent
                          \/ on_underlying_io_send_complete \/ on_underlying_io_send_complete_freed
    <2>1. CASE sending
      BY <1>5, <2>1, ClearInv, SendFrameInv, FrameSentInv, SendCompleteInv, FreedSendInv
    <2>2. CASE ~sending
      <3>1. UNCHANGED pending_sends /\ (faults' = {} => faults = {})
        BY <1>5, <2>2, UwsElsewhere
      <3>2. Fine'
        BY <1>1, <1>5, <2>2, UwsControlFine, UwsDecodeFine, UwsFrameFine DEF UwsNext
      <3> QED
        BY <1>2, <1>5, <3>1, <3>2, FineStep
    <2> QED
      BY <2>1, <2>2
  <1>6. CASE ReturnStep /\ UNCHANGED <<uwsVars, userVars>>
    BY <1>1, <1>6, ReturnInv
  <1> QED
    BY <1>3, <1>4, <1>5, <1>6

\* A callback of the user, and the return of a call it made.
LEMMA UserStepInv ==
    ASSUME SendInv, TypeOK, stack' \in Seq(Frame), UserSteps, UNCHANGED uwsVars
    PROVE  SendInv'
  <1>1. stack \in Seq(Frame) /\ Linked(stack) /\ UNCHANGED <<pending_sends, faults>>
    BY DEF TypeOK, SendInv, uwsVars
  <1>2. ASSUME stack # <<>>, Top.fn \notin Returning, InCallback PROVE Fine'
    <2> DEFINE f == MkFrame("user", "in_callback", "", 0, <<>>)
    <2>1. Goto(<<f>>) /\ f.fn = "in_callback"
      BY <1>2 DEF InCallback, MkFrame
    <2> HIDE DEF f
    <2> QED
      BY <1>1, <1>2, <2>1, FineCalls DEF First, Last, Returning, InSend
  <1>3. CASE Returned
    <2>1. stack # <<>> /\ Top.fn = "returned" /\ Pop /\ UNCHANGED <<sends, completions>>
      BY <1>3 DEF Returned, Running, Top
    <2>2. Fine'
      BY <1>1, <2>1, FinePop DEF InSend
    <2>3. CASE ~(Top.arg = "send" /\ Top.ret # 0)
      <3>1. UNCHANGED refused
        BY <1>3, <2>3 DEF Returned
      <3> QED
        BY <1>1, <2>1, <2>2, <3>1, FineStep
    <2>4. CASE Top.arg = "send" /\ Top.ret # 0
      <3>1. refused' = refused \cup {Top.n}
        BY <1>3, <2>4 DEF Returned
      <3>2. TopOK => Untold(Top.n) /\ ~Listed(Top.n)
        BY <2>1, <2>4 DEF TopOK, AwaitsSend
      <3>3. ASSUME TopOK, DataOK PROVE DataOK'
        BY <1>1, <2>1, <3>1, <3>2, <3>3 DEF DataOK, Untold, Listed
      <3>4. TopOK'
        BY <2>2 DEF Fine, Calm, TopOK, Top
      <3> QED
        BY <1>1, <2>2, <3>3, <3>4 DEF SendInv, Fine
    <2> QED
      BY <2>3, <2>4
  <1>4. CASE OnSendComplete
    <2>1. /\ stack # <<>> /\ Top.fn = "on_ws_send_frame_complete" /\ InCallback
          /\ UNCHANGED <<sends, refused>>
      BY <1>4 DEF OnSendComplete, Running, Top
    <2>2. Fine'
      BY <1>2, <2>1 DEF Returning
    <2>3. PICK x : x = Top.n
      OBVIOUS
    <2>4. completions' = [completions EXCEPT ![x] = @ + 1] /\ completions \in [SendIds -> Nat]
      BY <1>4, <2>3 DEF OnSendComplete, TypeOK
    <2>5. TopOK => Untold(x) /\ x \notin refused /\ ~Listed(x)
      BY <2>1, <2>3 DEF TopOK
    <2>6. ASSUME TopOK, DataOK PROVE DataOK'
      <3>1. x \in 1 .. sends /\ completions[x] = 0 /\ x \notin refused
            /\ sends \in 0 .. MaxSends /\ SendIds = 1 .. MaxSends
        BY <2>5, <2>6 DEF Untold, TypeOK, SendIds
      <3>2. x \in SendIds /\ ~(x > sends)
        BY <3>1, BoundsAssumption
      <3>3. completions'[x] = 1 /\ \A y \in SendIds : y # x => completions'[y] = completions[y]
        BY <2>4, <3>1, <3>2
      <3>4. \A y \in 1 .. sends : y # x /\ completions[y] = 0 => completions'[y] = 0
        <4>1. 1 .. sends \subseteq SendIds
          BY <3>1, BoundsAssumption
        <4> QED
          BY <3>3, <4>1
      <3>5. \A y \in SendIds : completions'[y] <= 1 /\ (y > sends => completions'[y] = 0)
        BY <2>6, <3>2, <3>3 DEF DataOK
      <3>6. \A i \in DOMAIN pending_sends : Untold(pending_sends[i])' /\ pending_sends[i] \notin refused'
        BY <1>1, <2>1, <2>5, <2>6, <3>4 DEF DataOK, Untold, Listed
      <3>7. \A y \in refused : Untold(y)'
        BY <2>1, <2>6, <3>1, <3>4 DEF DataOK, Untold
      <3> QED
        BY <1>1, <2>1, <2>6, <3>5, <3>6, <3>7 DEF DataOK
    <2>7. TopOK'
      BY <2>2 DEF Fine, Calm, TopOK, Top
    <2> QED
      BY <1>1, <2>2, <2>6, <2>7 DEF SendInv, Fine
  <1>5. CASE OnOpenComplete \/ OnFrameReceived \/ OnError \/ OnPeerClosed \/ OnCloseComplete
    <2>1. /\ stack # <<>> /\ InCallback /\ UNCHANGED <<sends, completions, refused>>
          /\ Top.fn \in {"on_ws_open_complete", "on_ws_frame_received", "on_ws_error", "on_ws_peer_closed",
                         "on_ws_close_complete"}
      BY <1>5 DEF OnOpenComplete, OnFrameReceived, OnError, OnPeerClosed, OnCloseComplete, Running, Top, userVars
    <2>2. Fine'
      BY <1>2, <2>1 DEF Returning
    <2> QED
      BY <1>1, <2>1, <2>2, FineStep
  <1>6. CASE CallbackReturns
    <2>1. stack # <<>> /\ Top.fn = "in_callback" /\ Pop /\ UNCHANGED <<sends, completions, refused>>
      BY <1>6 DEF CallbackReturns, Running, Top, userVars
    <2>2. Fine'
      BY <1>1, <2>1, FinePop DEF InSend
    <2> QED
      BY <1>1, <2>1, <2>2, FineStep
  <1> QED
    BY <1>3, <1>4, <1>5, <1>6 DEF UserSteps

\* A call of the user: its frames on top of the callback it is made from.
LEMMA CallLinked ==
    ASSUME stack \in Seq(Frame), Linked(stack), NEW n \in Nat, NEW f, NEW a, NEW c, Call(f, a, c, n),
           stack = <<>> \/ Running("user", "in_callback"),
           c = "send" => f = "uws_client_send_frame_async"
    PROVE  /\ Linked(stack')
           /\ stack' # <<>> /\ Head(stack').fn = f /\ Head(stack').n = n
           /\ stack'[2].fn = "returned"
  <1> DEFINE call == MkFrame("uws", f, a, n, <<>>)
             caller == MkFrame("user", "returned", c, n, <<>>)
             fs == <<call, caller>>
  <1>1. /\ call.fn = f /\ call.n = n
        /\ caller.fn = "returned" /\ caller.arg = c /\ caller.n = n
    BY DEF MkFrame
  <1> HIDE DEF call, caller
  <1>2. Link(call, caller) /\ caller.fn \notin AtTopOnly
    BY <1>1 DEF Link, AwaitsSend, AtTopOnly
  <1>3. Len(fs) = 2 /\ fs[1] = call /\ fs[2] = caller /\ fs # <<>>
    OBVIOUS
  <1>4. Linked(fs)
    <2>1. \A i \in 2 .. Len(fs) : i = 2
      BY <1>3
    <2> HIDE DEF fs
    <2> QED
      BY <1>2, <1>3, <2>1 DEF Linked
  <1>5. CASE stack = <<>>
    <2>1. stack' = fs \o <<>>
      BY <1>5 DEF Call, call, caller
    <2>2. fs \in Seq({call, caller})
      OBVIOUS
    <2> HIDE DEF fs
    <2>3. stack' = fs
      BY <2>1, <2>2, ConcatEmptySeq
    <2>4. Head(fs) = fs[1]
      BY <2>2
    <2> QED
      BY <1>1, <1>3, <1>4, <2>3, <2>4
  <1>6. CASE stack # <<>>
    <2> DEFINE below == [Top EXCEPT !.n = @ + 1]
               rest == Tail(stack)
               S == Frame \cup {call, caller, below}
    <2>1. stack' = fs \o (<<below>> \o rest)
      BY <1>6 DEF Call, call, caller
    <2>2. Top \in Frame /\ rest \in Seq(Frame) /\ stack = <<Top>> \o rest /\ Top.fn = "in_callback"
      <3>1. Top \in Frame /\ rest \in Seq(Frame) /\ Top.fn = "in_callback"
        BY <1>6, TopType DEF Running, Top
      <3>2. stack = <<Top>> \o rest
        BY <1>6, HeadTailProperties DEF Top
      <3> QED
        BY <3>1, <3>2
    <2>3. below.fn = "in_callback"
      BY <2>2 DEF Frame
    <2> HIDE DEF below, rest
    <2>4. Replaces(Top, below) /\ Link(caller, below) /\ below.fn \notin AtTopOnly
      BY <2>2, <2>3 DEF Replaces, Link, Returning, AwaitsSend, AtTopOnly
    <2> DEFINE all == <<call, caller, below>>
    <2>5. /\ fs \in Seq(S) /\ <<below>> \in Seq(S) /\ Top \in S /\ rest \in Seq(S)
          /\ all \in Seq(S) /\ Len(all) = 3 /\ all # <<>>
          /\ all[1] = call /\ all[2] = caller /\ all[3] = below
      BY <2>2
    <2>6. fs \o <<below>> = all
      <3>1. Len(<<below>>) = 1 /\ <<below>>[1] = below
        OBVIOUS
      <3> DEFINE one == <<below>>
      <3> HIDE DEF all, fs, S, one
      <3>2. Len(all) = Len(fs) + Len(one)
        BY <1>3, <2>5, <3>1 DEF one
      <3>3. \A i \in 1 .. Len(all) : all[i] = IF i <= Len(fs) THEN fs[i] ELSE one[i - Len(fs)]
        BY <1>3, <2>5, <3>1 DEF one
      <3>4. one \in Seq(S)
        BY <2>5 DEF one
      <3>5. fs \o one = all
        BY <2>5, <3>2, <3>3, <3>4, ConcatIs
      <3> QED
        BY <3>5 DEF one
    <2> HIDE DEF fs, S, all
    <2>7. stack' = all \o rest
      <3> DEFINE one == <<below>>
      <3>1. one \in Seq(S)
        BY <2>5
      <3> HIDE DEF one
      <3>2. (fs \o one) \o rest = fs \o (one \o rest)
        <4>1. fs \in Seq(S) /\ rest \in Seq(S)
          BY <2>5
        <4> QED
          BY ONLY <3>1, <4>1, ConcatGroups
      <3> QED
        BY <2>1, <2>6, <3>2 DEF one
    <2>8. Linked(all)
      <3>1. \A i \in 2 .. Len(all) : i = 2 \/ i = 3
        BY <2>5
      <3> QED
        BY <1>2, <2>4, <2>5, <3>1 DEF Linked
    <2>9. Replaces(Top, all[Len(all)])
      BY <2>4, <2>5
    <2>10. Linked(stack')
      BY <2>2, <2>5, <2>7, <2>8, <2>9, LinkedConcat
    <2>11. stack' # <<>> /\ Head(stack') = all[1] /\ stack'[2] = all[2]
      <3>1. Len(rest) \in Nat
        BY <2>5, LenProperties
      <3>2. /\ stack' \in Seq(S) /\ Len(stack') = 3 + Len(rest)
            /\ \A i \in 1 .. 3 + Len(rest) : stack'[i] = IF i <= 3 THEN all[i] ELSE rest[i - 3]
        <4>1. /\ stack' \in Seq(S) /\ Len(stack') = Len(all) + Len(rest)
              /\ \A i \in 1 .. Len(all) + Len(rest) :
                   stack'[i] = IF i <= Len(all) THEN all[i] ELSE rest[i - Len(all)]
          BY <2>5, <2>7, ConcatProperties
        <4>2. Len(all) = 3
          BY <2>5
        <4> QED
          BY <4>1, <4>2
      <3>3. 1 \in 1 .. 3 + Len(rest) /\ 2 \in 1 .. 3 + Len(rest) /\ 3 + Len(rest) # 0
        BY <3>1
      <3>4. stack' # <<>> /\ stack'[1] = all[1] /\ stack'[2] = all[2]
        BY <3>2, <3>3
      <3> QED
        BY <3>2, <3>4
    <2> QED
      BY <1>1, <2>5, <2>10, <2>11
  <1> QED
    BY <1>5, <1>6

\* Every call of the user keeps the invariant; a new send has a number of its own.
LEMMA UserCallInv ==
    ASSUME SendInv, TypeOK, stack' \in Seq(Frame), UserCalls, UNCHANGED uwsVars
    PROVE  SendInv'
  <1>1. /\ stack \in Seq(Frame) /\ Linked(stack) /\ UNCHANGED <<pending_sends, faults>>
        /\ session \in Nat /\ sends \in 0 .. MaxSends /\ MaxSends \in Nat
    BY BoundsAssumption DEF TypeOK, UwsTypeOK, SendInv, uwsVars
  <1>2. ASSUME NEW c, MayCall(c) PROVE stack = <<>> \/ Running("user", "in_callback")
    BY <1>2 DEF MayCall
  <1>3. ASSUME NEW f \in {"uws_client_open_async", "uws_client_close_async", "uws_client_close_handshake_async"},
               NEW a, NEW c, c # "send", NEW n \in Nat, Call(f, a, c, n),
               stack = <<>> \/ Running("user", "in_callback"),
               UNCHANGED <<sends, completions, refused>>
        PROVE  SendInv'
    <2>1. /\ Linked(stack')
          /\ stack' # <<>> /\ Head(stack').fn = f /\ stack'[2].fn = "returned"
      BY <1>1, <1>3, CallLinked
    <2>2. stack'[1] = Head(stack')
      BY <2>1
    <2>3. Fine'
      BY <2>1, <2>2 DEF Fine, Calm, AwaitsSend
    <2> QED
      BY <1>1, <1>3, <2>3, FineStep
  <1>4. CASE CallOpen
    <2>1. session + 1 \in Nat
      BY <1>1
    <2> QED
      BY <1>2, <1>3, <1>4, <2>1 DEF CallOpen
  <1>5. CASE CallClose
    BY <1>1, <1>2, <1>3, <1>5 DEF CallClose
  <1>6. CASE CallCloseNull
    BY <1>1, <1>2, <1>3, <1>6 DEF CallCloseNull
  <1>7. CASE CallSend
    <2>0. PICK x : x = sends + 1
      OBVIOUS
    <2>1. /\ sends' = x /\ sends < MaxSends /\ UNCHANGED <<completions, refused>>
          /\ Call("uws_client_send_frame_async", "", "send", x)
          /\ stack = <<>> \/ Running("user", "in_callback")
      BY <1>2, <1>7, <2>0 DEF CallSend
    <2>2. /\ x \in Nat /\ x \in 1 .. x /\ x > sends /\ x \in SendIds
          /\ 1 .. sends \subseteq 1 .. x /\ x \notin 1 .. sends
          /\ \A y \in SendIds : y > x => y > sends
      <3>1. sends \in Nat /\ sends < MaxSends
        <4>1. sends \in 0 .. MaxSends /\ MaxSends \in Nat /\ sends < MaxSends
          BY <1>1, <2>1
        <4> QED
          BY <4>1
      <3>2. x \in Nat /\ x \in 1 .. x /\ x > sends /\ x \in SendIds
        BY <1>1, <2>0, <3>1 DEF SendIds
      <3>3. 1 .. sends \subseteq 1 .. x /\ x \notin 1 .. sends
        BY <2>0, <3>1
      <3>4. \A y \in SendIds : y > x => y > sends
        BY <1>1, <2>0, <3>1 DEF SendIds
      <3> QED
        BY <3>2, <3>3, <3>4
    <2>3. /\ Linked(stack') /\ stack' # <<>>
          /\ Head(stack').fn = "uws_client_send_frame_async" /\ Head(stack').n = x
      BY <1>1, <2>1, <2>2, CallLinked
    <2>4. ASSUME DataOK PROVE TopOK'
      <3>1. Untold(x)' /\ x \notin refused' /\ ~Listed(x)'
        BY <1>1, <2>1, <2>2, <2>4 DEF DataOK, Untold, Listed
      <3> QED
        BY <2>3, <3>1 DEF TopOK, Top, AwaitsSend
    <2>5. ASSUME DataOK PROVE DataOK'
      BY <1>1, <2>1, <2>2, <2>5 DEF DataOK, Untold
    <2> QED
      BY <1>1, <2>3, <2>4, <2>5 DEF SendInv
  <1>8. CASE CallDowork \/ CallDestroy
    <2>1. PICK f \in {"uws_client_dowork", "uws_client_destroy"} : stack' = <<MkFrame("uws", f, "", 0, <<>>)>>
      BY <1>8 DEF CallDowork, CallDestroy
    <2>2. UNCHANGED <<sends, completions, refused>>
      BY <1>8 DEF CallDowork, CallDestroy, userVars
    <2>3. Len(stack') = 1 /\ stack'[1].fn = f
      BY <2>1 DEF MkFrame
    <2>4. Fine'
      BY <2>3 DEF Fine, Linked, Calm, AwaitsSend
    <2> QED
      BY <1>1, <2>2, <2>4, FineStep
  <1> QED
    BY <1>4, <1>5, <1>6, <1>7, <1>8 DEF UserCalls

-----------------------------------------------------------------------------
\* A freshly created connection has no sends.
LEMMA InitSend == Init => SendInv
  <1> SUFFICES ASSUME Init PROVE SendInv
    OBVIOUS
  <1>1. Linked(stack) /\ TopOK
    BY DEF Init, Linked, TopOK
  <1>2. DataOK
    BY DEF Init, UwsInit, DataOK, SendIds
  <1> QED
    BY <1>1, <1>2 DEF SendInv

\* Every step keeps the invariant.
LEMMA NextSend == TypeOK /\ TypeOK' /\ SendInv /\ [Next]_vars => SendInv'
  <1> SUFFICES ASSUME TypeOK, TypeOK', SendInv, [Next]_vars PROVE SendInv'
    OBVIOUS
  <1>1. stack' \in Seq(Frame)
    BY DEF TypeOK
  <1>2. CASE UserCalls /\ UNCHANGED uwsVars
    BY <1>1, <1>2, UserCallInv
  <1>3. CASE UserSteps /\ UNCHANGED uwsVars
    BY <1>1, <1>3, UserStepInv
  <1>4. CASE \/ SockNext /\ UNCHANGED <<uwsVars, userVars>>
             \/ TlsNext /\ UNCHANGED <<uwsVars, userVars>>
             \/ UwsNext /\ UNCHANGED userVars
             \/ ReturnStep /\ UNCHANGED <<uwsVars, userVars>>
    BY <1>1, <1>4, LibraryInv
  <1>5. CASE UNCHANGED vars
    <2>1. UNCHANGED <<stack, sends, completions, refused, pending_sends, faults>>
      BY <1>5 DEF vars, uwsVars, userVars
    <2>2. TopOK => TopOK'
      BY <2>1 DEF TopOK, Top, Untold, Listed
    <2>3. DataOK => DataOK'
      BY <2>1 DEF DataOK, Untold
    <2> QED
      BY <2>1, <2>2, <2>3 DEF SendInv
  <1> QED
    BY <1>2, <1>3, <1>4, <1>5 DEF Next, Step

\* What the invariant is for.
LEMMA SendInvSuffices == TypeOK /\ SendInv => SendsCompleteOnce
  <1> SUFFICES ASSUME TypeOK, SendInv, faults = {}, NEW i \in SendIds
               PROVE  completions[i] <= (IF i \in refused THEN 0 ELSE 1)
    BY DEF SendsCompleteOnce
  <1> QED
    BY DEF SendInv, DataOK, Untold

(***************************************************************************)
(* For any stack of layers, any peer, any number of sends and any calls    *)
(* that the user makes from inside callbacks: as long as no freed list     *)
(* item has been used, on_ws_send_frame_complete is called at most once    *)
(* for each uws_client_send_frame_async, and never for one that returned a *)
(* failure, whichever of the ways a send can end it took: completed inside *)
(* xio_send or later, cancelled by clear_pending_sends, failed.            *)
(***************************************************************************)
THEOREM SendsOnce == Spec => []SendsCompleteOnce
  <1>1. Init => TypeOK /\ SendInv
    BY InitType, InitSend
  <1>2. TypeOK /\ SendInv /\ [Next]_vars => TypeOK' /\ SendInv'
    BY NextType, NextSend
  <1>3. TypeOK /\ SendInv => SendsCompleteOnce
    BY SendInvSuffices
  <1> QED
    BY <1>1, <1>2, <1>3, PTL DEF Spec

=============================================================================
