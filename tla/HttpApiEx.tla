------------------------------ MODULE HttpApiEx ------------------------------
(***************************************************************************)
(* Requests with retries, src/httpapiex.c, over the blocking client of     *)
(* module HttpApiCompact.  HTTPAPIEX_ExecuteRequest climbs a ladder: level *)
(* 0 is HTTPAPI_Init, level 1 HTTPAPI_CreateConnection, level 2            *)
(* HTTPAPI_ExecuteRequest.  A level that fails is undone and the one below *)
(* tried again, unless it was tried since the last step up to it.  The     *)
(* level reached, k, is kept between requests, and with it the connection. *)
(***************************************************************************)
EXTENDS HttpApiCompact

CONSTANTS
    MaxRequests,      \* bound: calls of HTTPAPIEX_ExecuteRequest
    MaxSets,          \* bound: calls of HTTPAPIEX_SetOption
    Options,          \* the names of the options
    InitMayFail       \* whether the adapter's HTTPAPI_Init can fail

ASSUME LadderAssumption ==
    /\ MaxRequests \in Nat /\ MaxSets \in Nat /\ InitMayFail \in BOOLEAN

VARIABLES
    k,               \* the level, -1 when nothing is up
    st,              \* the levels already tried, of the call in progress
    ex_pc,           \* where the call stands
    inits,           \* HTTPAPI_Init without its HTTPAPI_Deinit
    savedOptions,    \* the value saved for each option, 0 for none
    connOptions,     \* the value each option has on the connection
    refused,         \* the options that the connection did not take
    sets,            \* calls of HTTPAPIEX_SetOption
    kept,            \* what earlier tries of this request have left in its answer
    ex_result        \* what the last HTTPAPIEX_ExecuteRequest returned

exVars == <<request, k, st, ex_pc, inits, savedOptions, connOptions, refused, sets, kept, ex_result>>
vars == <<compactVars, exVars>>

Levels == 0 .. 2
NoneTried == [l \in Levels |-> FALSE]
Unset == [o \in Options |-> 0]
Nothing == [headers |-> <<>>, size |-> 0]

\* HTTPAPIEX_Create
Init ==
    /\ CompactInit
    /\ request = 0
    /\ k = -1 /\ st = NoneTried /\ ex_pc = "idle" /\ inits = 0
    /\ savedOptions = Unset /\ connOptions = Unset /\ refused = {} /\ sets = 0
    /\ kept = Nothing /\ ex_result = "OK"

-----------------------------------------------------------------------------
(* Options.                                                                 *)

\* HTTPAPI_SetOption frees the old value before it copies the new one.
SetOnConnection(o, v) ==
    \/ connOptions' = [connOptions EXCEPT ![o] = v] /\ refused' = refused \ {o}
    \/ connOptions' = [connOptions EXCEPT ![o] = 0] /\ refused' = refused \cup {o}

\* slip: the option is set on the connection and not saved for the next one
HTTPAPIEX_SetOption_unsaved(o) ==
    /\ ex_pc = "idle"
    /\ sets < MaxSets /\ sets' = sets + 1
    /\ IF conn # "none" THEN SetOnConnection(o, sets + 1) /\ UNCHANGED savedOptions
       ELSE /\ savedOptions' = [savedOptions EXCEPT ![o] = sets + 1]
            /\ UNCHANGED <<connOptions, refused>>
    /\ UNCHANGED <<compactVars, request, k, st, ex_pc, inits, kept, ex_result>>

\* Nothing is saved if the value cannot be cloned or the list not grown.
HTTPAPI_CloneOption_failed == UNCHANGED <<savedOptions, connOptions, refused>>
createOrUpdateOption(o, v) == savedOptions' = [savedOptions EXCEPT ![o] = v]

HTTPAPIEX_SetOption(o) ==
    /\ ex_pc = "idle"
    /\ sets < MaxSets /\ sets' = sets + 1
    /\ \/ HTTPAPI_CloneOption_failed
       \/ /\ createOrUpdateOption(o, sets + 1)
          /\ IF conn = "none" THEN UNCHANGED <<connOptions, refused>> ELSE SetOnConnection(o, sets + 1)
    /\ UNCHANGED <<compactVars, request, k, st, ex_pc, inits, kept, ex_result>>

-----------------------------------------------------------------------------
(* The ladder.                                                              *)

\* Any of the buffers of the request and of the answer may fail to be made.
buildAllRequests_failed ==
    /\ ex_result' = "ERROR"
    /\ UNCHANGED <<k, st, ex_pc, answerVars, kept, served>>

\* Those of the answer are empty or made for the call.
buildAllRequests ==
    /\ status' = 0 /\ headers' = <<>> /\ content' = <<>> /\ lost' = {} /\ kept' = Nothing
    /\ served' = 0
    /\ UNCHANGED ex_result

HTTPAPIEX_ExecuteRequest ==
    /\ ex_pc = "idle"
    /\ request < MaxRequests
    /\ request' = request + 1
    /\ \/ buildAllRequests_failed
       \/ /\ buildAllRequests
          /\ k' = IF k = -1 THEN 0 ELSE k
          /\ st' = NoneTried
          /\ ex_pc' = "ladder"
    /\ UNCHANGED <<inits, savedOptions, connOptions, refused, sets>>
    /\ UNCHANGED <<conn, sending, pieces, wire, flagVars, localVars, pc, http_result>>

Up == st' = [st EXCEPT ![k] = TRUE, ![k + 1] = FALSE] /\ k' = k + 1

Down == st' = [st EXCEPT ![k] = FALSE] /\ k' = k - 1

\* slip: the connection of a request that failed is kept for the next try
Undo_keeping ==
    /\ Down
    /\ inits' = IF k = 1 THEN inits - 1 ELSE inits
    /\ ex_pc' = "ladder"
    /\ UNCHANGED <<pc, connOptions, refused>>

\* Going down to level 1 closes the connection, to level 0 undoes HTTPAPI_Init.
Undo ==
    /\ Down
    /\ inits' = IF k = 1 THEN inits - 1 ELSE inits
    /\ IF k = 2 THEN ex_pc' = "closing" /\ pc' = "close" /\ connOptions' = Unset /\ refused' = {}
       ELSE ex_pc' = "ladder" /\ UNCHANGED <<pc, connOptions, refused>>

\* slip: a level is tried again however often it failed
Tried_never == FALSE

Tried == st[k]

level_tried ==
    /\ ex_pc = "ladder" /\ k >= 0 /\ Tried
    /\ Undo
    /\ UNCHANGED <<xioVars, flagVars, localVars, answerVars, http_result, request, savedOptions, sets,
                   kept, ex_result>>

level_init ==
    /\ ex_pc = "ladder" /\ k = 0 /\ ~Tried
    /\ \/ InitMayFail /\ Undo
       \/ Up /\ inits' = inits + 1 /\ UNCHANGED <<ex_pc, pc, connOptions, refused>>
    /\ UNCHANGED <<xioVars, flagVars, localVars, answerVars, http_result, request, savedOptions, sets,
                   kept, ex_result>>

\* The saved options are set on the new connection; failures are only logged.
level_create ==
    /\ ex_pc = "ladder" /\ k = 1 /\ ~Tried
    /\ \/ Undo /\ UNCHANGED <<xioVars, flagVars, localVars, answerVars, http_result>>
       \/ /\ Up /\ UNCHANGED <<inits, ex_pc>>
          /\ \E failed \in SUBSET {o \in Options : savedOptions[o] # 0} :
               /\ refused' = failed
               /\ connOptions' = [o \in Options |-> IF o \in failed THEN 0 ELSE savedOptions[o]]
          /\ CreateConnection
    /\ UNCHANGED <<request, savedOptions, sets, kept, ex_result>>

level_execute ==
    /\ ex_pc = "ladder" /\ k = 2 /\ ~Tried
    /\ ex_pc' = "executing" /\ pc' = "execute"
    /\ UNCHANGED <<xioVars, flagVars, localVars, answerVars, http_result, request, k, st, inits,
                   savedOptions, connOptions, refused, sets, kept, ex_result>>

\* The answer is left as the failed try has left it.
level_executed ==
    /\ ex_pc = "executing" /\ pc = "executed"
    /\ \/ /\ http_result = "OK"
          /\ ex_pc' = "idle" /\ pc' = "idle" /\ ex_result' = "OK"
          /\ UNCHANGED <<k, st, inits, connOptions, refused, kept, lost>>
       \/ /\ http_result # "OK"
          /\ Undo
          /\ kept' = [headers |-> headers, size |-> Len(content)] /\ lost' = {}
          /\ UNCHANGED ex_result
    /\ UNCHANGED <<xioVars, flagVars, localVars, status, headers, content, http_result, request, savedOptions, sets>>

level_closed ==
    /\ ex_pc = "closing" /\ pc = "closed"
    /\ ex_pc' = "ladder" /\ pc' = "idle"
    /\ UNCHANGED <<xioVars, flagVars, localVars, answerVars, http_result, request, k, st, inits,
                   savedOptions, connOptions, refused, sets, kept, ex_result>>

ladder_down ==
    /\ ex_pc = "ladder" /\ k = -1
    /\ ex_pc' = "idle" /\ ex_result' = "RECOVERYFAILED"
    /\ UNCHANGED <<compactVars, request, k, st, inits, savedOptions, connOptions, refused, sets, kept>>

\* HTTPAPIEX_Destroy
HTTPAPIEX_Destroy ==
    /\ ex_pc = "idle"
    /\ IF k = 2 THEN ex_pc' = "destroying" /\ pc' = "close" /\ inits' = inits - 1
       ELSE ex_pc' = "destroyed" /\ UNCHANGED <<pc, inits>>
    /\ connOptions' = Unset /\ refused' = {}
    /\ UNCHANGED <<xioVars, flagVars, localVars, answerVars, http_result, request, k, st,
                   savedOptions, sets, kept, ex_result>>

destroy_closed ==
    /\ ex_pc = "destroying" /\ pc = "closed"
    /\ ex_pc' = "destroyed" /\ pc' = "idle"
    /\ UNCHANGED <<xioVars, flagVars, localVars, answerVars, http_result, request, k, st, inits,
                   savedOptions, connOptions, refused, sets, kept, ex_result>>

-----------------------------------------------------------------------------
ExStep ==
    \/ level_tried \/ level_init \/ level_create \/ level_execute \/ level_executed
    \/ level_closed \/ ladder_down \/ destroy_closed

Step == ExStep \/ (CompactNext /\ UNCHANGED exVars)

Next ==
    \/ HTTPAPIEX_ExecuteRequest
    \/ \E o \in Options : HTTPAPIEX_SetOption(o)
    \/ HTTPAPIEX_Destroy
    \/ Step
    \/ ex_pc = "destroyed" /\ UNCHANGED vars

\* The thread that is in the library keeps running.  While it waits in conn_receive the next
\* step is the server's, which may never take it.
Spec == Init /\ [][Next]_vars /\ WF_vars(Step /\ ~Waits)

-----------------------------------------------------------------------------
(* Properties.                                                              *)

BodyOf(reply) == SelectSeq(Tagged(reply), LAMBDA u : u.t = "byte")
HeadersOf(reply) == SelectSeq(Tagged(reply), LAMBDA u : u.t \in HeaderKinds)
StatusOf(reply) == reply[1][2]

\* A request that is reported as done was answered: status and body are those of one answer
\* of the server to this very request, whole and in order, whatever the pieces it came in and
\* however the tries before it ended, and so are the headers, but for those that could not be
\* added (which is not reported).  What an earlier try has written stays: its headers in
\* front, and behind the body as much of its content as there was.
AnswerIsWhole ==
    ex_pc = "idle" /\ request > 0 /\ ex_result = "OK" =>
        \E reply \in Replies :
            LET body == BodyOf(reply)
                Added(header) == header \notin lost
            IN  /\ status = StatusOf(reply)
                /\ headers = kept.headers \o SelectSeq(HeadersOf(reply), Added)
                /\ SubSeq(content, 1, Len(body)) = body
                /\ Len(content) = Len(body) + kept.size

\* The server sees a request at most three times: the two retries of a connection that
\* was kept from an earlier request.  Between calls either nothing is held or exactly one
\* connection and one HTTPAPI_Init are, and a handle that was destroyed holds nothing.
LevelsUndone ==
    /\ served <= 3
    /\ ex_pc = "idle" => \/ k = -1 /\ conn = "none" /\ inits = 0
                         \/ k = 2 /\ conn # "none" /\ inits = 1
    /\ ex_pc = "destroyed" => conn = "none" /\ inits = 0

\* While a request is executed, every option that was saved has its last value on the
\* connection, also when the connection is a new one, except where it was refused.
OptionsInForce ==
    ex_pc = "executing" => \A o \in Options \ refused : connOptions[o] = savedOptions[o]

\* When no wait for the body of an answer lasts for ever, every request ends, whatever fails,
\* and so does closing the connection at last.
Busy == ex_pc \notin {"idle", "destroyed"}
RequestsEnd == []<>~Waits => []<>~Busy

\* No wait for the server is without a limit: a request that has tried 20 seconds in vain to
\* read the answer fails with HTTPAPI_READ_DATA_FAILED.
ReadsGiveUp == Waits ~> ~Waits

=============================================================================
