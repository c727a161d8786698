---------------------------- MODULE HttpProxyIo ----------------------------
(***************************************************************************)
(* The tunnel through an HTTP proxy, src/http_proxy_io.c: it opens the     *)
(* socket beneath, sends a CONNECT request, collects the response and then *)
(* passes bytes through in both directions.                                *)
(***************************************************************************)
EXTENDS Xio

VARIABLES
    proxy_state,      \* http_proxy_io_state
    receive_buffer,   \* what was received while waiting for the response
    proxy_on_close    \* on_io_close_complete

proxyVars == <<proxy_state, receive_buffer, proxy_on_close>>

ProxyStates == {"CLOSED", "OPENING_UNDERLYING_IO", "WAITING_FOR_CONNECT_RESPONSE", "OPEN",
                "CLOSING", "ERROR"}
ProxyOpening == {"OPENING_UNDERLYING_IO", "WAITING_FOR_CONNECT_RESPONSE"}

ProxyTypeOK ==
    /\ proxy_state \in ProxyStates
    /\ receive_buffer \in Seq(Unit)
    /\ proxy_on_close \in {"NULL", "cb"}

\* http_proxy_io_create: a zeroed instance, and the socket beneath it
ProxyInit ==
    /\ proxy_state = "CLOSED"
    /\ receive_buffer = <<>>
    /\ proxy_on_close = "NULL"

Proxy(f) == MkFrame("proxy", f, "", 0, <<>>)
ProxyState(s) == proxy_state' = s

\* slip: the failed open is reported and the socket kept
close_and_report_leaking(result) ==
    /\ ProxyState("CLOSED")
    /\ Goto(<<on_io_open_complete("proxy", result)>>)

\* indicate_open_complete_error_and_close, and the same for a cancelled open
close_and_report(result) ==
    /\ ProxyState("CLOSED")
    /\ Goto(<<xio_close("proxy", "NULL"), on_io_open_complete("proxy", result)>>)

-----------------------------------------------------------------------------
(* Opening.                                                                 *)

http_proxy_io_open ==
    /\ Running("proxy", "open")
    /\ IF proxy_state # "CLOSED"
         THEN Return(1) /\ UNCHANGED proxy_state
         ELSE /\ ProxyState("OPENING_UNDERLYING_IO")
              /\ Goto(<<xio_open("proxy"), Proxy("xio_open_returned")>>)
    /\ UNCHANGED <<receive_buffer, proxy_on_close>>

proxy_xio_open_returned ==
    /\ Running("proxy", "xio_open_returned")
    /\ ProxyState(IF Top.ret # 0 THEN "CLOSED" ELSE proxy_state)
    /\ Return(Top.ret)
    /\ UNCHANGED <<receive_buffer, proxy_on_close>>

\* Out of place: an error in CLOSING and OPEN, a failure of the open while waiting, and
\* nothing at all in CLOSED and ERROR.
proxy_on_underlying_io_open_complete_late ==
    /\ Running("proxy", "on_io_open_complete")
    /\ \/ /\ proxy_state \in {"CLOSED", "ERROR"}
          /\ Pop
          /\ UNCHANGED proxy_state
       \/ /\ proxy_state \in {"CLOSING", "OPEN"}
          /\ Goto(<<on_io_error("proxy")>>)
          /\ UNCHANGED proxy_state
       \/ /\ proxy_state = "WAITING_FOR_CONNECT_RESPONSE"
          /\ close_and_report("ERROR")
    /\ UNCHANGED <<receive_buffer, proxy_on_close>>

\* The request is put together from the host, the port and the encoded credentials,
\* any of which may fail for want of memory.
proxy_on_underlying_io_open_complete ==
    /\ Running("proxy", "on_io_open_complete")
    /\ proxy_state = "OPENING_UNDERLYING_IO"
    /\ \/ Top.arg # "OK" /\ close_and_report(Top.arg)
       \/ Top.arg = "OK" /\ close_and_report("ERROR")
       \/ /\ Top.arg = "OK"
          /\ ProxyState("WAITING_FOR_CONNECT_RESPONSE")
          /\ Goto(<<xio_send("proxy", "unchecked_on_send_complete", 0), Proxy("connect_request_sent")>>)
    /\ UNCHANGED <<receive_buffer, proxy_on_close>>

connect_request_sent ==
    /\ Running("proxy", "connect_request_sent")
    /\ IF Top.ret # 0 THEN close_and_report("ERROR") ELSE Pop /\ UNCHANGED proxy_state
    /\ UNCHANGED <<receive_buffer, proxy_on_close>>

-----------------------------------------------------------------------------
(* The response and what comes after it.                                    *)

\* Without memory for them the bytes are lost and the open has failed, and what
\* was there before is looked at all the same.
proxy_on_underlying_io_bytes_received ==
    /\ Running("proxy", "on_bytes_received")
    /\ \/ /\ proxy_state = "WAITING_FOR_CONNECT_RESPONSE"
          /\ receive_buffer' = receive_buffer \o Top.data
          /\ Goto(<<Proxy("connect_response")>>)
          /\ UNCHANGED proxy_state
       \/ /\ proxy_state = "WAITING_FOR_CONNECT_RESPONSE"
          /\ ProxyState("CLOSED")
          /\ Goto(<<xio_close("proxy", "NULL"), on_io_open_complete("proxy", "ERROR"),
                    Proxy("connect_response")>>)
          /\ UNCHANGED receive_buffer
       \/ /\ proxy_state = "OPENING_UNDERLYING_IO"
          /\ close_and_report("ERROR")
          /\ UNCHANGED receive_buffer
       \/ /\ proxy_state = "OPEN"
          /\ Goto(<<on_bytes_received("proxy", Top.data)>>)
          /\ UNCHANGED <<proxy_state, receive_buffer>>
       \/ /\ proxy_state \in {"CLOSED", "CLOSING", "ERROR"}
          /\ Pop
          /\ UNCHANGED <<proxy_state, receive_buffer>>
    /\ UNCHANGED proxy_on_close

\* slip: the response is taken for complete when its first piece is there
ResponseEnds_early ==
    {i \in DOMAIN receive_buffer : receive_buffer[i].op \in Responses}

\* the places where a double new-line ends: every response has one, at its end
ResponseEnds ==
    {i \in DOMAIN receive_buffer : receive_buffer[i].op \in Responses
                                   /\ receive_buffer[i].k = receive_buffer[i].size}

\* ParseHttpResponse reads the status from the start of the buffer.
ParseHttpResponse == Head(receive_buffer).op

FirstEnd == CHOOSE i \in ResponseEnds : \A j \in ResponseEnds : i <= j
Remaining == SubSeq(receive_buffer, FirstEnd + 1, Len(receive_buffer))

connect_response ==
    /\ Running("proxy", "connect_response")
    /\ \/ ResponseEnds = {} /\ Pop /\ UNCHANGED proxy_state
       \/ /\ ResponseEnds # {}
          /\ ParseHttpResponse # "200"
          /\ close_and_report("ERROR")
       \/ /\ ResponseEnds # {}
          /\ ParseHttpResponse = "200"
          /\ ProxyState("OPEN")
          /\ Goto(<<on_io_open_complete("proxy", "OK")>>
                  \o (IF Remaining = <<>> THEN <<>> ELSE <<on_bytes_received("proxy", Remaining)>>))
    /\ UNCHANGED <<receive_buffer, proxy_on_close>>

\* slip: an error while open is reported in a state that still sends and delivers
proxy_on_underlying_io_error_kept ==
    /\ Running("proxy", "on_io_error")
    /\ Goto(IF proxy_state \in ProxyOpening THEN <<>> ELSE <<on_io_error("proxy")>>)
    /\ UNCHANGED proxyVars

proxy_on_underlying_io_error ==
    /\ Running("proxy", "on_io_error")
    /\ \/ proxy_state \in ProxyOpening /\ close_and_report("ERROR")
       \/ /\ proxy_state = "OPEN"
          /\ ProxyState("ERROR")
          /\ Goto(<<on_io_error("proxy")>>)
       \/ /\ proxy_state \in {"CLOSED", "CLOSING", "ERROR"}
          /\ Pop
          /\ UNCHANGED proxy_state
    /\ UNCHANGED <<receive_buffer, proxy_on_close>>

-----------------------------------------------------------------------------
(* Closing, sending, and the pump.                                          *)

\* The callback of a close that cuts the open short is dropped.
http_proxy_io_close ==
    /\ Running("proxy", "close")
    /\ \/ /\ proxy_state \in {"CLOSED", "CLOSING"}
          /\ Return(1)
          /\ UNCHANGED <<proxy_state, proxy_on_close>>
       \/ /\ proxy_state \in ProxyOpening
          /\ ProxyState("CLOSED")
          /\ Goto(<<xio_close("proxy", "NULL"), on_io_open_complete("proxy", "CANCELLED"),
                    ReturnFrame("proxy", 0)>>)
          /\ UNCHANGED proxy_on_close
       \/ /\ proxy_state \in {"OPEN", "ERROR"}
          /\ ProxyState("CLOSING")
          /\ proxy_on_close' = Top.arg
          /\ Goto(<<xio_close("proxy", "close_complete"),
                    MkFrame("proxy", "xio_close_returned", proxy_state, 0, <<>>)>>)
    /\ UNCHANGED receive_buffer

\* a close that failed below leaves the state it found
proxy_xio_close_returned ==
    /\ Running("proxy", "xio_close_returned")
    /\ ProxyState(IF Top.ret # 0 THEN Top.arg ELSE proxy_state)
    /\ Return(Top.ret)
    /\ UNCHANGED <<receive_buffer, proxy_on_close>>

proxy_on_underlying_io_close_complete ==
    /\ Running("proxy", "on_io_close_complete")
    /\ ProxyState(IF proxy_state = "CLOSING" THEN "CLOSED" ELSE proxy_state)
    /\ Goto(IF proxy_state = "CLOSING" /\ proxy_on_close # "NULL"
            THEN <<on_io_close_complete("proxy")>> ELSE <<>>)
    /\ UNCHANGED <<receive_buffer, proxy_on_close>>

http_proxy_io_destroy ==
    /\ Running("proxy", "destroy")
    /\ receive_buffer' = <<>>
    /\ Goto(<<xio_destroy("proxy")>>)
    /\ UNCHANGED <<proxy_state, proxy_on_close>>

http_proxy_io_send ==
    /\ Running("proxy", "send")
    /\ IF proxy_state # "OPEN" THEN Return(1) ELSE Goto(<<xio_send("proxy", Top.arg, Top.n)>>)
    /\ UNCHANGED proxyVars

\* how long the open has taken is only logged
http_proxy_io_dowork ==
    /\ Running("proxy", "dowork")
    /\ Goto(IF proxy_state = "CLOSED" THEN <<>> ELSE <<xio_dowork("proxy")>>)
    /\ UNCHANGED proxyVars

-----------------------------------------------------------------------------
ProxyNext ==
    \/ http_proxy_io_open \/ proxy_xio_open_returned
    \/ proxy_on_underlying_io_open_complete_late \/ proxy_on_underlying_io_open_complete
    \/ connect_request_sent
    \/ proxy_on_underlying_io_bytes_received \/ connect_response
    \/ proxy_on_underlying_io_error
    \/ http_proxy_io_close \/ proxy_xio_close_returned \/ proxy_on_underlying_io_close_complete
    \/ http_proxy_io_destroy \/ http_proxy_io_send \/ http_proxy_io_dowork

=============================================================================
