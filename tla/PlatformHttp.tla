---------------------------- MODULE PlatformHttp ----------------------------
(***************************************************************************)
(* HTTPAPI over libcurl and over WinHTTP: adapters/httpapi_curl.c and      *)
(* adapters/httpapi_winhttp.c.  Users share the library; each has a        *)
(* connection, sets options on it, makes requests, and connects again with *)
(* the options it has saved, as httpapiex.c does.  A request is one        *)
(* blocking call.  In every call of HTTPAPI one of the calls it makes may  *)
(* fail; which error that gives is not told apart.                         *)
(***************************************************************************)
EXTENDS Naturals, Sequences, FiniteSets, SequencesExt

CONSTANTS
    HttpLibraries,  \* "curl", "winhttp"
    HttpUsers,      \* who initialises the library
    Requesters,     \* the users that also make requests
    Asked,          \* requests: type, content and whether the answer's headers are wanted
    Answers,        \* a server's answers: code and the pieces in which the content comes
    OptionsToSet,   \* options: name, value, whether a copy is saved or it is set directly, and the
                    \* libraries in which it may be set over an earlier value
    Mishandled,     \* <<library, call>> that does not fail
    MaxAsked,       \* bound on the requests
    MaxOptionsSet,  \* bound on the options set
    MaxCalls        \* bound on both together, a request counting twice

ASSUME PlatformHttpAssumption ==
    /\ HttpLibraries \subseteq {"curl", "winhttp"} /\ Requesters \subseteq HttpUsers
    /\ MaxAsked \in Nat /\ MaxOptionsSet \in Nat /\ MaxCalls \in Nat

VARIABLES
    httpLibrary,
    api,            \* nUsersOfHTTPAPI and whether the library is initialised
    connection,     \* HTTP_HANDLE_DATA of each user
    wishes,         \* the users: who has initialised, what options are set and saved
    live,           \* how many blocks and handles exist
    exchange        \* the last request on the connection, what the server saw and what the caller was told

platformHttpVars == <<httpLibrary, api, connection, wishes, live, exchange>>

\* values are sequences
NULLValue == <<"NULL">>
Unknown == <<"unknown">>
LongOptions == {"VERBOSE", "TIMEOUT_MS", "LOW_SPEED_LIMIT", "LOW_SPEED_TIME", "FRESH_CONNECT", "FORBID_REUSE"}
Credential == {"cert", "key"}

NoConnection == [exists |-> FALSE]
NoWish == [name \in LongOptions \cup Credential \cup {"trusted", "proxy"} |-> NULLValue]

NotSent(n) == [count |-> n, sent |-> FALSE, ok |-> FALSE, fault |-> FALSE]

PlatformHttpInit ==
    /\ httpLibrary \in HttpLibraries
    /\ api = [users |-> 0, session |-> FALSE]
    /\ connection = [u \in HttpUsers |-> NoConnection]
    /\ wishes = [u \in HttpUsers |-> [initialised |-> FALSE, wish |-> NoWish, saved |-> <<>>, set |-> 0]]
    /\ live = 0
    /\ exchange = NotSent(0)

MayCallHttp(u, cost) == connection[u].exists /\ wishes[u].set + 2 * exchange.count + cost <= MaxCalls
Fails(call) == <<httpLibrary, call>> \notin Mishandled

-----------------------------------------------------------------------------
(* Options.  An operation has the handle, the blocks and what is returned.  *)

Done(h, blocks, ok) == [handle |-> h, live |-> blocks, ok |-> ok]

\* what libcurl keeps for a handle, from one request to the next
NewEasy ==
    LET numbers == {"HTTPHEADER", "WRITEHEADER", "WRITEDATA", "POSTFIELDSIZE"}
    IN  [name \in LongOptions \cup numbers \cup {"URL", "HTTP_VERSION", "POSTFIELDS", "method", "CUSTOMREQUEST", "HEADERFUNCTION",
                                                "WRITEFUNCTION", "SSL_CTX_FUNCTION", "SSL_CTX_DATA", "PROXY", "PROXYUSERPWD"} |->
           IF name \in numbers THEN 0 ELSE NULLValue]

\* setting the content makes it a POST, too
curl_easy_setopt(easy, setting) ==
    CASE setting[1] = "HTTPGET" -> [easy EXCEPT !.method = <<"GET">>]
      [] setting[1] = "POST" -> [easy EXCEPT !.method = <<"POST">>]
      [] setting[1] = "POSTFIELDS" -> [easy EXCEPT !.POSTFIELDS = setting[2], !.method = <<"POST">>]
      [] OTHER -> [easy EXCEPT ![setting[1]] = setting[2]]
SetAll(easy, settings) == FoldLeft(curl_easy_setopt, easy, settings)

\* the callback that will give the credentials to the TLS library
SslCallback == << <<"SSL_CTX_FUNCTION", <<"ssl_ctx_callback">> >>, <<"SSL_CTX_DATA", <<"handle">> >> >>
HostOf(proxy) == <<Head(proxy)>>
AuthOf(proxy) == IF Len(proxy) = 2 THEN <<proxy[2]>> ELSE NULLValue
ProxySettings(proxy) ==
    << <<"PROXY", HostOf(proxy)>> >> \o IF AuthOf(proxy) # NULLValue THEN << <<"PROXYUSERPWD", AuthOf(proxy)>> >> ELSE <<>>

\* the settings of libcurl that an option needs, of which the failing one and all after it
\* are not made
CurlSettings(h, o) ==
    CASE o.name = "key" -> IF h.cert # NULLValue THEN SslCallback ELSE <<>>
      [] o.name = "cert" -> IF h.key # NULLValue THEN SslCallback ELSE <<>>
      [] o.name = "trusted" -> SslCallback
      [] o.name = "proxy" -> ProxySettings(o.value)
      [] OTHER -> <<>>

\* certificate and key are noted before, the trusted certificates only after
curl_SetOption(h, o, failed) ==
    LET settings == CurlSettings(h, o)
        ok == failed \notin DOMAIN settings
        easy == SetAll(h.easy, IF ok THEN settings ELSE SubSeq(settings, 1, failed - 1))
    IN  CASE o.name \in LongOptions -> Done([h EXCEPT !.longs[o.name] = o.value], 0, TRUE)
          [] o.name \in Credential -> Done([h EXCEPT ![o.name] = o.value, !.easy = easy], 0, ok)
          [] o.name = "trusted" -> Done([h EXCEPT !.trusted = IF ok THEN o.value ELSE @, !.easy = easy], 0, ok)
          [] o.name = "proxy" -> Done([h EXCEPT !.easy = easy], 0, ok)

\* a string of the proxy is freed and copied
ReplaceString(done, field, value, fails) ==
    Done([done.handle EXCEPT ![field] = IF fails THEN NULLValue ELSE value],
         done.live - (IF done.handle[field] # NULLValue THEN 1 ELSE 0) + (IF fails THEN 0 ELSE 1), ~fails)
FreeString(done, field) ==
    Done([done.handle EXCEPT ![field] = NULLValue], done.live - (IF done.handle[field] # NULLValue THEN 1 ELSE 0), done.ok)

\* Without a name and a password those of an earlier proxy stay.
winhttp_proxy(h, proxy, failed) ==
    LET host == ReplaceString(Done(h, 0, TRUE), "proxy_host", HostOf(proxy), failed = 1)
        name == ReplaceString(host, "proxy_username", AuthOf(proxy), failed = 2)
        password == ReplaceString(name, "proxy_password", AuthOf(proxy), failed = 3)
    IN  IF ~host.ok \/ AuthOf(proxy) = NULLValue THEN host
        ELSE IF ~name.ok THEN FreeString(name, "proxy_host")
        ELSE IF ~password.ok THEN FreeString(FreeString(password, "proxy_host"), "proxy_username")
        ELSE password

\* A handle for both is made once both are there, in the place of an earlier one.
winhttp_credential(h, o, failed) ==
    LET noted == [h EXCEPT ![o.name] = o.value]
        both == noted.cert # NULLValue /\ noted.key # NULLValue
    IN  IF ~both THEN Done(noted, 0, TRUE)
        ELSE IF failed = 1 THEN Done([noted EXCEPT !.schannel = NULLValue], 0, FALSE)
        ELSE Done([noted EXCEPT !.schannel = noted.cert \o noted.key], 1, TRUE)

winhttp_SetOption(h, o, failed) ==
    CASE o.name = "TIMEOUT_MS" -> Done([h EXCEPT !.longs[o.name] = o.value], 0, TRUE)
      [] o.name \in Credential -> winhttp_credential(h, o, failed)
      [] o.name = "proxy" -> winhttp_proxy(h, o.value, failed)
      [] OTHER -> Done(h, 0, o.name = "trusted")

HTTPAPI_SetOption(h, o, failed) ==
    IF httpLibrary = "curl" THEN curl_SetOption(h, o, failed) ELSE winhttp_SetOption(h, o, failed)

\* What a copy of an option takes: in WinHTTP the strings of a proxy too, where libcurl's
\* has those of its owner, who keeps them.  When one cannot be had, the others are freed.
curl_CloneOption(o, failed) == IF failed = 1 THEN 0 ELSE 1
winhttp_CloneOption(o, failed) ==
    LET blocks == IF o.name # "proxy" THEN 1 ELSE IF AuthOf(o.value) = NULLValue THEN 2 ELSE 4
    IN  IF failed \in 1 .. blocks THEN 0 ELSE blocks
HTTPAPI_CloneOption(o, failed) ==
    IF httpLibrary = "curl" THEN curl_CloneOption(o, failed) ELSE winhttp_CloneOption(o, failed)

-----------------------------------------------------------------------------
(* The library and connections                                              *)

HTTPAPI_Init(u, fails) ==
    /\ ~wishes[u].initialised
    /\ LET ok == api.users > 0 \/ ~fails
       IN  /\ api' = [users |-> api.users + (IF ok THEN 1 ELSE 0), session |-> api.session \/ ok]
           /\ wishes' = [wishes EXCEPT ![u].initialised = ok]
    /\ UNCHANGED <<httpLibrary, connection, live, exchange>>

HTTPAPI_Deinit(u) ==
    /\ wishes[u].initialised /\ ~connection[u].exists
    /\ api' = [users |-> api.users - 1, session |-> api.session /\ api.users > 1]
    /\ wishes' = [wishes EXCEPT ![u].initialised = FALSE]
    /\ UNCHANGED <<httpLibrary, connection, live, exchange>>

curl_CreateConnection ==
    [exists |-> TRUE, longs |-> [name \in LongOptions |-> NULLValue], cert |-> NULLValue, key |-> NULLValue,
     trusted |-> NULLValue, easy |-> NewEasy]
winhttp_CreateConnection ==
    [exists |-> TRUE, longs |-> [name \in {"TIMEOUT_MS"} |-> NULLValue], cert |-> NULLValue, key |-> NULLValue,
     schannel |-> NULLValue, proxy_host |-> NULLValue, proxy_username |-> NULLValue, proxy_password |-> NULLValue]

\* In the order in which they are made, the blocks and handles that the connection is made of
\* and, in WinHTTP, a copy of the host name that is freed again.
CreateSteps == IF httpLibrary = "curl" THEN <<"handle", "hostURL", "curl">> ELSE <<"handle", "hostNameTemp", "connection">>
Temporary == {"hostNameTemp"}

\* with the place that fails, everything before it is given back
CreatedBlocks(failed) == IF failed # 0 THEN {} ELSE ToSet(CreateSteps) \ Temporary

HTTPAPI_CreateConnection ==
    IF httpLibrary = "winhttp" /\ ~api.session THEN NoConnection
    ELSE IF httpLibrary = "curl" THEN curl_CreateConnection ELSE winhttp_CreateConnection

\* a user connects and sets what it has saved
Connect(u, failed) ==
    LET SetSaved(done, o) ==
            LET next == HTTPAPI_SetOption(done.handle, o, 0) IN Done(next.handle, done.live + next.live, done.ok /\ next.ok)
        ready == FoldLeft(SetSaved, Done(HTTPAPI_CreateConnection, Cardinality(CreatedBlocks(0)), TRUE), wishes[u].saved)
    IN  /\ u \in Requesters /\ wishes[u].initialised /\ ~connection[u].exists
        /\ IF failed \in DOMAIN CreateSteps
           THEN live' = live + Cardinality(CreatedBlocks(failed)) /\ UNCHANGED <<connection, wishes>>
           ELSE /\ connection' = [connection EXCEPT ![u] = ready.handle]
                /\ live' = live + ready.live
                /\ wishes' = [wishes EXCEPT ![u].wish = [name \in DOMAIN NoWish |->
                                LET o == SelectLastInSeq(wishes[u].saved, LAMBDA x : x.name = name)
                                IN  IF o = 0 THEN NULLValue ELSE wishes[u].saved[o].value]]
        /\ UNCHANGED <<httpLibrary, api, exchange>>

StringsOf(h) == {f \in {"proxy_host", "proxy_username", "proxy_password"} : h[f] # NULLValue}

\* what is released
curl_CloseConnection(h) == 3
winhttp_CloseConnection(h) == 2 + Cardinality(StringsOf(h)) + (IF h.schannel # NULLValue THEN 1 ELSE 0)

HTTPAPI_CloseConnection(u) ==
    /\ connection[u].exists
    /\ connection' = [connection EXCEPT ![u] = NoConnection]
    /\ live' = live - IF httpLibrary = "curl" THEN curl_CloseConnection(connection[u]) ELSE winhttp_CloseConnection(connection[u])
    /\ exchange' = NotSent(exchange.count)
    /\ UNCHANGED <<httpLibrary, api, wishes>>

\* An option's value, which its owner keeps, is set on the connection; a copy of it may be
\* saved before, in the place of an earlier one.
GiveOption(u, o, place, failed) ==
    LET others == SelectSeq(wishes[u].saved, LAMBDA x : x.name # o.name)
        copied == HTTPAPI_CloneOption(o, IF place = "clone" THEN failed ELSE 0)
        done == HTTPAPI_SetOption(connection[u], o, IF place = "set" THEN failed ELSE 0)
    IN  /\ MayCallHttp(u, 1) /\ wishes[u].set < MaxOptionsSet
        /\ httpLibrary = "winhttp" => o.name \notin LongOptions \ {"TIMEOUT_MS"}
        /\ wishes[u].wish[o.name] # NULLValue => httpLibrary \in o.again
        /\ o.how = "direct" => place = "set" /\ others = wishes[u].saved
        /\ place = "clone" => copied = 0
        /\ failed # 0 /\ place = "set" => ~done.ok
        /\ IF o.how = "saved" /\ copied = 0
           THEN wishes' = [wishes EXCEPT ![u].set = @ + 1] /\ UNCHANGED <<connection, live>>
           ELSE /\ connection' = [connection EXCEPT ![u] = done.handle]
                /\ live' = live + done.live + (IF o.how = "saved" THEN copied + Len(others) - Len(wishes[u].saved) ELSE 0)
                /\ wishes' = [wishes EXCEPT ![u].set = @ + 1,
                                            ![u].wish[o.name] = IF done.ok THEN o.value ELSE Unknown,
                                            ![u].saved = IF o.how = "saved" THEN Append(others, o) ELSE @]
        /\ UNCHANGED <<httpLibrary, api, exchange>>

-----------------------------------------------------------------------------
(* Requests                                                                 *)

MethodSettings(type) ==
    CASE type = "GET" -> << <<"HTTPGET", 1>>, <<"CUSTOMREQUEST", NULLValue>> >>
      [] type = "POST" -> << <<"POST", 1>>, <<"CUSTOMREQUEST", NULLValue>> >>
      [] OTHER -> << <<"POST", 1>>, <<"CUSTOMREQUEST", <<type>> >> >>

\* of a GET without content nothing is said
ContentSettings(r) ==
    IF r.content # <<>> THEN << <<"POSTFIELDS", r.content>>, <<"POSTFIELDSIZE", Len(r.content)>> >>
    ELSE IF r.type # "GET" THEN << <<"POSTFIELDS", NULLValue>>, <<"POSTFIELDSIZE", 0>> >> ELSE <<>>

HeadersWanted(n) == << <<"WRITEHEADER", n>>, <<"HEADERFUNCTION", <<"HeadersWriteFunction">> >> >>

\* slip: what an earlier request wanted is not taken back
ResponseSettings_kept(r, n) ==
    << <<"WRITEFUNCTION", <<"ContentWriteFunction">> >> >> \o (IF r.headers THEN HeadersWanted(n) ELSE <<>>) \o << <<"WRITEDATA", n>> >>

\* The headers and the content of the n-th answer go to memory that lives as long as the
\* request.
ResponseSettings(r, n) ==
    << <<"WRITEHEADER", 0>>, <<"HEADERFUNCTION", NULLValue>>, <<"WRITEFUNCTION", <<"ContentWriteFunction">> >> >>
    \o (IF r.headers THEN HeadersWanted(n) ELSE <<>>) \o << <<"WRITEDATA", n>> >>

ConnectionSettings(h) ==
    LET Long(name) == <<name, h.longs[name]>>
    IN  << Long("VERBOSE"), <<"URL", <<"url">> >>, Long("TIMEOUT_MS"), Long("LOW_SPEED_LIMIT"), Long("LOW_SPEED_TIME"),
           Long("FRESH_CONNECT"), Long("FORBID_REUSE"), <<"HTTP_VERSION", <<"1.1">> >> >>

\* ssl_ctx_callback gives both or nothing
ssl_ctx_callback(h) ==
    [credentials |-> IF h.cert # NULLValue /\ h.key # NULLValue THEN h.cert \o h.key ELSE NULLValue, trusted |-> h.trusted]
NoCallbackSet == [credentials |-> NULLValue, trusted |-> NULLValue]

\* What libcurl makes of its settings: the headers of the request must not have been freed.
curl_request(h, easy) ==
    LET tls == IF easy.SSL_CTX_FUNCTION # NULLValue THEN ssl_ctx_callback(h) ELSE NoCallbackSet
    IN  [type |-> IF easy.CUSTOMREQUEST # NULLValue THEN easy.CUSTOMREQUEST ELSE easy.method,
         content |-> IF easy.method = <<"POST">> THEN SubSeq(easy.POSTFIELDS, 1, easy.POSTFIELDSIZE) ELSE <<>>,
         headers |-> easy.HTTPHEADER, timeout |-> easy.TIMEOUT_MS, credentials |-> tls.credentials, trusted |-> tls.trusted,
         proxy |-> easy.PROXY, auth |-> easy.PROXYUSERPWD]

\* A piece is appended; when that fails the buffer is freed, and its pointer kept.
ContentWriteFunction(b, piece, fails) ==
    IF b.buffer = "freed" THEN [b EXCEPT !.fault = TRUE]
    ELSE IF fails THEN [b EXCEPT !.error = TRUE, !.buffer = IF @ = "NULL" THEN @ ELSE "freed"]
    ELSE [b EXCEPT !.content = Append(@, piece), !.buffer = "allocated"]
Received(pieces, failed) ==
    FoldLeft(LAMBDA b, i : ContentWriteFunction(b, pieces[i], failed = i),
             [buffer |-> "NULL", content |-> <<>>, error |-> FALSE, fault |-> FALSE], [i \in DOMAIN pieces |-> i])

\* every line with a colon is noted, or lost without a word
HeadersWriteFunction(fails) == IF fails THEN "partly" ELSE "all"

BeforeHeaders(h, r) == ConnectionSettings(h) \o MethodSettings(r.type)
RequestSettings(h, r, n) == BeforeHeaders(h, r) \o << <<"HTTPHEADER", n>> >> \o ContentSettings(r) \o ResponseSettings(r, n)

\* The place that fails: the URL or a setting of libcurl, a header of the request, the
\* transfer, a piece of the content, or what follows.
CurlFailures(settings, pieces) ==
    {<<"none", 0>>, <<"url", 0>>, <<"headers", 0>>, <<"perform", 0>>, <<"getinfo", 0>>, <<"add", 0>>}
    \cup {<<"build", 0>> : i \in DOMAIN pieces} \cup {<<"setopt", k>> : k \in DOMAIN settings}
    \cup {<<IF i = 1 THEN "realloc" ELSE "realloc_again", i>> : i \in DOMAIN pieces}

curl_ExecuteRequest(u, r, answer, failed) ==
    LET h == connection[u]
        n == exchange.count + 1
        settings == RequestSettings(h, r, n)
        made == CASE failed[1] = "url" -> 0
                  [] failed[1] = "setopt" -> failed[2] - 1
                  [] failed[1] = "headers" -> Len(BeforeHeaders(h, r))
                  [] OTHER -> Len(settings)
        easy == SetAll(h.easy, SubSeq(settings, 1, made))
        sent == made = Len(settings) /\ ~(easy.SSL_CTX_FUNCTION # NULLValue /\ easy.SSL_CTX_DATA = NULLValue)
        buffer == Received(answer.pieces, IF failed[1] \in {"realloc", "realloc_again"} THEN failed[2] ELSE 0)
        whole == sent /\ failed[1] \notin {"perform", "getinfo"} /\ ~buffer.error
        filled == whole /\ failed[1] # "build"
    IN  /\ connection' = [connection EXCEPT ![u].easy = easy]
        /\ exchange' = IF ~sent THEN NotSent(n) ELSE
             [count |-> n, sent |-> TRUE, request |-> r, wish |-> wishes[u].wish, answer |-> answer,
              seen |-> curl_request(h, easy),
              ok |-> whole /\ (filled \/ answer.code < 300), code |-> IF whole THEN answer.code ELSE 0,
              content |-> IF filled THEN buffer.content ELSE <<>>,
              headers |-> IF easy.WRITEHEADER = 0 THEN "none" ELSE HeadersWriteFunction(failed[1] = "add"),
              fault |-> \/ buffer.fault \/ buffer.buffer = "freed"
                        \/ easy.HTTPHEADER # n \/ easy.WRITEDATA # n \/ easy.WRITEHEADER \notin {0, n}]
        /\ UNCHANGED <<httpLibrary, api, wishes, live>>

\* What WinHTTP is told with every request: nothing stays in the handle.
winhttp_request(h, r, n) ==
    [type |-> <<r.type>>, content |-> r.content, headers |-> n, timeout |-> h.longs.TIMEOUT_MS, credentials |-> h.schannel,
     trusted |-> NULLValue, proxy |-> h.proxy_host,
     auth |-> IF h.proxy_host # NULLValue /\ h.proxy_username # NULLValue /\ h.proxy_password # NULLValue THEN h.proxy_username
              ELSE NULLValue]

\* The content is read as it becomes available, into as much more of the buffer; less of it
\* may come than was announced.
winhttp_read(pieces, failed) ==
    FoldLeft(LAMBDA content, i : IF failed[1] = "read" /\ failed[2] <= i THEN content
                                 ELSE IF failed = <<"short", i>> THEN Append(content, "unset")
                                 ELSE Append(content, pieces[i]),
             <<>>, [i \in DOMAIN pieces |-> i])

ConstructHeadersString(failed) == failed[1] # "construct"

\* The lines are converted and noted one by one: one that cannot be converted is left out,
\* and the memory of one that cannot be noted is lost.
ResponseHeaders(failed) ==
    [ok |-> failed[1] \notin {"headers", "add"}, lost |-> IF failed[1] = "add" THEN 1 ELSE 0,
     headers |-> IF failed[1] \in {"headers", "query", "line", "add"} THEN "partly" ELSE "all"]

\* The place that fails: the headers, before the request is sent, until its status is known, a piece of
\* the content or its end, the memory for the headers, one of their lines, or noting it.
WinHttpFailures(pieces) ==
    {<<"none", 0>>, <<"construct", 0>>, <<"prepare", 0>>, <<"receive", 0>>, <<"headers", 0>>, <<"query", 0>>, <<"line", 0>>, <<"add", 0>>}
    \cup {<<"read", i>> : i \in 1 .. Len(pieces) + 1} \cup {<<"short", i>> : i \in DOMAIN pieces}

winhttp_ExecuteRequest(u, r, answer, failed) ==
    LET n == exchange.count + 1
        sent == api.session /\ ConstructHeadersString(failed) /\ failed[1] # "prepare"
        read == sent /\ failed[1] \notin {"receive", "read"}
    IN  /\ exchange' = IF ~sent THEN NotSent(n) ELSE
             [count |-> n, sent |-> TRUE, request |-> r, wish |-> wishes[u].wish, answer |-> answer,
              seen |-> winhttp_request(connection[u], r, n),
              ok |-> read /\ (r.headers => ResponseHeaders(failed).ok),
              code |-> IF failed[1] # "receive" THEN answer.code ELSE 0,
              content |-> IF failed[1] # "receive" THEN winhttp_read(answer.pieces, failed) ELSE <<>>,
              headers |-> IF read /\ r.headers THEN ResponseHeaders(failed).headers ELSE "none",
              fault |-> FALSE]
        /\ live' = live + (IF read /\ r.headers THEN ResponseHeaders(failed).lost ELSE 0)
        /\ UNCHANGED <<httpLibrary, api, connection, wishes>>

HTTPAPI_ExecuteRequest(u, r, answer, failed) ==
    /\ MayCallHttp(u, 2) /\ exchange.count < MaxAsked
    /\ IF httpLibrary = "curl" THEN curl_ExecuteRequest(u, r, answer, failed) ELSE winhttp_ExecuteRequest(u, r, answer, failed)

Failures(u, r, answer) ==
    {f \in IF httpLibrary = "curl" THEN CurlFailures(RequestSettings(connection[u], r, 0), answer.pieces)
           ELSE WinHttpFailures(answer.pieces) : Fails(f[1])}

PlatformHttpNext ==
    \E u \in HttpUsers :
      \/ \E fails \in BOOLEAN : HTTPAPI_Init(u, fails)
      \/ HTTPAPI_Deinit(u)
      \/ \E failed \in 0 .. Len(CreateSteps) : Connect(u, failed)
      \/ HTTPAPI_CloseConnection(u)
      \/ connection[u].exists /\ \E o \in OptionsToSet, failed \in 0 .. 4 :
           GiveOption(u, o, "set", failed) \/ GiveOption(u, o, "clone", failed)
      \/ \E r \in Asked, answer \in Answers :
           connection[u].exists /\ \E failed \in Failures(u, r, answer) : HTTPAPI_ExecuteRequest(u, r, answer, failed)

-----------------------------------------------------------------------------
(* Properties.                                                              *)

OwnedBy(u) ==
    (IF ~connection[u].exists THEN 0
     ELSE IF httpLibrary = "curl" THEN 3
     ELSE 2 + Cardinality({f \in {"schannel", "proxy_host", "proxy_username", "proxy_password"} : connection[u][f] # NULLValue}))
    + FoldLeft(LAMBDA n, o : n + HTTPAPI_CloneOption(o, 0), 0, wishes[u].saved)

\* the options a request has to go with, where they are known
GoesWith(seen, wish) ==
    /\ wish.TIMEOUT_MS # Unknown => seen.timeout = wish.TIMEOUT_MS
    /\ wish.cert # Unknown /\ wish.key # Unknown =>
         seen.credentials = IF NULLValue \in {wish.cert, wish.key} THEN NULLValue ELSE wish.cert \o wish.key
    /\ httpLibrary = "curl" /\ wish.trusted # Unknown => seen.trusted = wish.trusted
    /\ wish.proxy # Unknown =>
         /\ seen.proxy = IF wish.proxy = NULLValue THEN NULLValue ELSE HostOf(wish.proxy)
         /\ seen.auth = IF wish.proxy = NULLValue THEN NULLValue ELSE AuthOf(wish.proxy)

\* httpapi_curl.c and httpapi_winhttp.c: whatever an earlier request left in the handle, also
\* one that failed half-way, a request goes out as it was asked for, with the options set on
\* this connection or saved from an earlier one; a request that succeeds gives all of the
\* answer's content, in order; nothing that was freed is used, nothing is lost, and the
\* library is initialised exactly while a user of it is left.
HttpAsAsked ==
    /\ ~exchange.fault
    /\ api.users = Cardinality({u \in HttpUsers : wishes[u].initialised}) /\ api.session = (api.users > 0)
    /\ live = FoldFunction(+, 0, [u \in HttpUsers |-> OwnedBy(u)])
    /\ exchange.sent =>
         /\ exchange.seen.type = <<exchange.request.type>> /\ exchange.seen.content = exchange.request.content
         /\ exchange.seen.headers = exchange.count /\ GoesWith(exchange.seen, exchange.wish)
    /\ exchange.ok =>
         /\ exchange.sent /\ exchange.code = exchange.answer.code
         /\ exchange.content = exchange.answer.pieces
         /\ exchange.headers = IF exchange.request.headers THEN "all" ELSE "none"

=============================================================================
