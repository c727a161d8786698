# A verification project for azure-c-shared-utility

TLA+ models of the library: its connection layers (`xio`, sockets, TLS
adapters, the WebSocket client, `wsio`, the HTTP proxy layer), its HTTP clients,
its containers, options, credentials and threads, and its encoders, digests and
parsers. The models are checked with TLC on small instances; twenty theorems about the
WebSocket client over its layers, the HTTP proxy layer, the retries of the HTTP
client, shared contents, credentials, revocation lists, the list of gballoc, buffers and
strings, and digests are proved with TLAPS for every instance.

## 1. The system

The library is a collection of C components for device SDKs. None of its
protocol code has a thread of its own: the application calls an API function or
`..._dowork`, the layers call each other downwards through the `xio` interface,
and every answer is a callback made from inside one of those calls, on the same
stack. That is where it is hard to get right: a callback may call back into the
layer that is in the middle of calling it, close it, reopen it, or send on it;
state read before a callback is used after it; an operation may complete before
the call that started it returns, later from `dowork`, or never. The rest of the
library is called from there: what is hard in it are allocations and system
calls that fail in the middle, and the few things that threads share.

### Components, their state and operations

| component | state | operations | hard behaviour |
|---|---|---|---|
| xio | the concrete interface and handle | create, open, close, send, dowork, destroy, options | the result of a call and its callback may come in either order |
| socketio_berkeley, _win32, _mbed | `io_state`, socket, pending messages | open and close (synchronous), send, dowork | partial sends, several addresses, queue worked off while callbacks close and reopen |
| tlsio_openssl, _mbedtls, _wolfssl, _schannel, _appleios | `tlsio_state`, the TLS library's context, buffers, callbacks | open, close, send, dowork, callbacks from below | handshake failing inside a callback or waiting inside a call, records in pieces, renegotiation |
| uws_client | `uws_state`, stream and fragment buffers, `pending_sends`, callbacks | open, close, close handshake, send, dowork, destroy | frame boundaries, fragments, closes crossing, sends completed on every path |
| wsio | `io_state`, its pending sends | xio over uws_client | two lists of the same sends |
| http_proxy_io | state of the CONNECT exchange, receive buffer | xio over a socket | responses in pieces, closes in every state |
| httpapiex, httpapi_compact | connection, retry ladder, line reader | blocking requests | retries of what was half done, answers in pieces |
| httpapi_curl, httpapi_winhttp | settings of a handle that outlives requests | blocking requests, options | a failure at each of a dozen calls |
| optionhandler, tlsio_options | saved options | set, retrieve, clone, feed, destroy | nested handlers, copies owned by somebody |
| revocation lists of tlsio_openssl | cache in memory and in files | look up, download, store | threads, validity, references |
| x509_openssl, x509_schannel | provider, key, certificate | make, use, destroy | partial failure |
| lists, vector, map, httpheaders, buffer, strings | containers | add, remove, find, grow | an allocation failing in the middle |
| constmap, constbuffer, gballoc, lock, condition, threadapi | counters, allocation list, waiters | inc, dec, malloc, free, wait, post | atomicity, lost wake-ups |
| base32, base64, urlencode, utf8_checker, uws_frame_encoder | none | pure functions | boundaries of the encodings |
| sha1 ... usha, hmac | block buffer, length | reset, input, final bits, result | padding, pieces, order of calls |
| sastoken, connection strings, tokenizers, uuid, crt_abstractions | none | pure functions | limits of numbers and buffers |

`wsio` sits on `uws_client`, `uws_client` on a TLS adapter, that on a socket or
on `http_proxy_io`; `httpapi_compact` uses `tlsio` directly, `httpapiex` any of
the HTTP clients. Calls go down, callbacks go up; nothing is shared otherwise.

### What makes the components correct

* uws_client, wsio: messages are delivered as they were sent; opens, closes and
  sends are each answered exactly once; nothing of one session shows in the next;
  every call returns; memory that was freed is not used.
* TLS adapters, sockets, proxy: bytes are neither lost nor reordered, and come
  only from the peer with whom the handshake or the CONNECT exchange was
  completed; a close releases what the open took, and is answered; nobody is
  called in a state in which the layer above does not expect it.
* HTTP: an answer reported as a success is the whole answer to this request;
  tries are bounded; options hold on every connection.
* Library: the abstract value of a container after every operation, whichever
  allocation fails; whatever was acquired is released once. Pure functions:
  equality with a reference definition, decoding after encoding.

`PROJECT.json` lists every component, and under `hazards` the places where each
of these can go wrong without a test noticing.

## 2. Modules

    Xio --+-- SocketIo --+
          +-- TlsIo -----+-- WsConnection --+-- MCWsConnection                    talk nested reopen
          +-- UwsClient -+                  |                                     close_while_opening freed_send
          |                                 +-- WsConnectionProofs -- SessionProofs
          |                                         -- MessageProofs              (TLAPS)
          +-- Wsio ------ WsioConnection (SocketIo, UwsClient, IoContract)        wsio
          +-- HttpProxyIo, IoClient -- ProxyConnection (SocketIo, IoContract)     proxy
          |                            -- ProxyProofs                             (TLAPS)
          +-- TlsShared -- MbedTlsIo WolfSslIo SchannelIo AppleTlsIo, TlsIo
                        -- TlsAdapters (SocketIo, IoClient)                       adapters
    HttpApiCompact -- HttpApiEx                                                   http http_split http_silent
                      -- HttpProofs                                               (TLAPS)
    Containers Buffers Threads Gballoc Options CrlCache
    Credentials PlatformSockets PlatformHttp
    (Codecs Hashes -- Conversions) -- Library                                     library
      (Threads Credentials CrlCache Gballoc) -- ObjectProofs                      (TLAPS)
      (Buffers Hashes) -- ContentProofs                                           (TLAPS)

Each group has an `MC` module with the sets that the configurations name.

**Xio** declares the one variable that all layers share, `stack`: the calls in
progress, the running one first. A frame is the layer, the function and its
arguments, and `ret`, the result of the last call that returned to it. A
function that calls another and goes on afterwards is split at the call: the
action of its first part replaces the running frame by the call and, beneath it,
a frame for the rest (`Goto`); the rest is an action of its own, named for the
call it awaits (`frame_sent` is `uws_client_send_frame_async` after `xio_send`).
So every interleaving of callbacks that one thread can produce is a behaviour,
and no other. The constant `Layers` says which layers there are.

The bytes of the peer travel in *units*: a response or a frame of `size` units
has a header unit and payload units, and the layers cut the stream anywhere
between units. Contents are abstract, what is wrong with a frame (mask bit,
length encoding, UTF-8) is a field. If decoding ever starts in the middle of a
payload, any header may be read (`HeadersAt`).

**SocketIo** - `sock_state` is `io_state`, `connected` says whether `socket` is
valid, `pending_io_list` is the queue with callback and context. `script` is
what the peer of the current connection sends and `received` how much of it has
been read. `send()` taking only a part is `MayBlock`. One action per outcome of
open, close, send, destroy, and per step of the two loops of `socketio_dowork`.

**TlsIo** - `tls_state`, `ssl`, `in_bio`, `tls_on_close` are the fields of
`TLS_IO_INSTANCE`. OpenSSL is external: a handshake may fail at any time and
succeeds only when all of the peer's handshake units are there; decrypted bytes
come out in order, in any pieces; the output BIO holds bytes or not.

**UwsClient** - `uws_state`, `stream_buffer`, `fragment_buffer`,
`fragmented_frame_type`, `pending_sends`, `on_ws_close_complete` are the fields
of `UWS_CLIENT_INSTANCE`. A pending send is its context; a callback that was
saved is the number of the session it was passed in. One action per function,
one per kind of frame in the decoding loop. Allocation may fail everywhere.
`faults` collects undefined behaviour: `stream_buffer_count` wrapping, and a
list item used after it was freed (after which the model lets the code do
whatever the memory may hold: return, call the callback, report an error).

**WsConnection** composes them with the user: the API calls, from outside or
from inside a callback, the results and callbacks as the user notes them, the
reference `Messages` for what a WebSocket endpoint makes of a stream, and the
properties. Mutated forms of definitions ("slip: ...") stand before the
definition they mutate; no specification uses them.

**Wsio, WsioConnection** - `wsio_state` and `wsio_pending` are `io_state` and
`pending_io_list` of `wsio.c`; the user of `uws_client` is now `wsio` itself, and
the application above it calls from outside and from inside callbacks.

**HttpProxyIo, IoClient, ProxyConnection** - the four states of the CONNECT
exchange, `receive_buffer` as the units of the response that have come, and a
client of the layer that makes every call at every time and notes what it is
told. The client is shared with the TLS adapters.

**IoContract** is the abstract specification of an IO layer as its user sees it:
an open is answered once, bytes come only between a successful answer and the
end of the session. `WsioConnection` and `ProxyConnection` instantiate it with
the phase that their client has been told of and check `Contract!Spec` as a
property: the detailed systems implement it.

**TlsShared, MbedTlsIo, WolfSslIo, SchannelIo, AppleTlsIo, TlsAdapters** - the
other adapters with the interface of `tlsio_openssl`. The TLS libraries are
external and are what the adapters see of them: a handshake step wants bytes,
succeeds or fails; records decrypt in order, a record that is not all there is
left over (for Schannel with the counts of `needed_bytes` and
`SECBUFFER_EXTRA`, also in a renegotiation). `adapter` says which one a
behaviour is about.

**HttpApiCompact, HttpApiEx** - the blocking client reads lines and bodies from
a buffer of tokens that the server's answer is cut into; the ladder of
`httpapiex` is one action per level and its undo. `lost` and `kept` are the
headers that could not be added to an answer and what failed tries left in it.

**Library** - one behaviour is about one object, or about the conversions (`focus`). `Containers`: the
next and previous pointers of lists against a sequence, heap blocks of vectors, the
two arrays of a map, `httpheaders` over it, with each allocation failing.
`Buffers`: blocks of bytes with unset ones, against the text the caller was
told. `Threads`: reference counts of two threads; both conditions, the
lock and joining threads, at the granularity of the calls to the operating system.
`Gballoc`: the tracking list against the system's heap, with sizes modulo
`SizeValues`. `Options`: a stack of layers, the options set on it, the
handler retrieved from it, its clone and the stack it is fed to; every
allocation is counted and any one of them, the `failAt`-th, fails. `CrlCache`: two verifying
threads at the granularity of the lock. `Credentials`: what Schannel, CryptoAPI
and OpenSSL have handed out, with failing calls. `PlatformSockets`: the two
other socket adapters. `PlatformHttp`: the settings that libcurl and WinHTTP
hold, what they point to, and what was allocated.

**Codecs, Hashes, Conversions** - pure algorithms as operators, checked in `library`: inputs
grown one character at a time (`Grow`), and reference definitions (RFC 4648, UTF-8
by code points, RFC 6455 lengths, tokens by splitting, digits by value). Block and
word sizes of the digests are scaled down and the compression function is
injective, so that a digest shows exactly which padded message it is of;
`ULLONG_MAX` is 127 where overflow matters.

## 3. Runs

| run | instance | shows |
|---|---|---|
| talk | socket and uws, 12 scripts (messages, fragments, control frames, every peer mistake), 1 open, 1 send, close from callbacks | delivery, opens and releases for one session, and that every call returns |
| nested | a socket that blocks, 2 sends, send and close calls from callbacks, up to two per callback | sends settled, closes answered and bytes decoded once under re-entrancy |
| reopen | socket, TLS and uws, 2 sessions, blocking socket, handshake failures, close and open from callbacks | nothing leaks from one session into the next |
| wsio | wsio, uws and a blocking socket, 2 opens, 2 closes, close from callbacks | wsio implements `IoContract`, completes every send before it frees its context, every call returns |
| proxy | http_proxy_io and a blocking socket, 2 opens, sends, opens and closes from callbacks | the proxy layer implements `IoContract` and opens the tunnel on the whole answer only |
| adapters | the five TLS adapters over a socket, 2 sends, 2 closes, calls from callbacks, one renegotiation | order and origin of bytes, single answers, order of reports, calls return |
| http | httpapiex over httpapi_compact, 2 requests, replies of every kind and calls that fail | answers whole but for what is listed below, levels undone, options in force; requests end unless a read waits for the server for ever |
| library | 15 objects, each with 2 or 3 elements, and up to 2 failing calls | containers, buffers, allocator, options, lists, credentials, sockets, HTTP clients keep what they were told and release what they took; no thread is forgotten |
| | 15 kinds of input, up to 8 characters, digests of up to 33 bytes in pieces | encoders, digests and parsers against their references |
| close_while_opening, freed_send, http_split, http_silent | | findings 1 to 4 |

Every property has what it says above its definition; the action properties are
`DeliveredWhileOpen` and `ToldInOrder`, the refinements `WsioKeepsContract` and
`KeepsContract`, the liveness properties `CallsReturn`, `WsioCallsReturn`,
`RequestsEnd`, `AdapterCallsReturn` and `NobodyForgotten`.

**Bounds.** `MaxOpens`, `MaxCloses`, `MaxSends`: two are enough for a thing of one
session or send to be taken for one of another. Frames have one or two units,
so every cut inside and between header, payload and frames happens. `MaxDepth`
and `MaxNested` bound calls from callbacks: a callback of a call made from a
callback may call again. `MaxQueue` bounds the socket's queue (beyond it, adding
to the queue fails as it does without memory). `MaxStack` only matters for the
one recursion that does not end (finding 1); behaviours end there. Containers
have three keys or elements, so that the first, a middle and the last are
different, and two failing allocations, so that an undo can fail too. The
retry constants of `httpapi_compact` are small because each retry is the same
step again. Options: up to three set on a stack, nine stacks, and any one allocation
failing: `allocations` is the most that a program makes when none does.
Two verifying threads, two lists and two files are enough for one to replace
what the other holds.

**Fairness.** `WF(Step)`: code that is running continues to run; nothing is
assumed about the application, about `dowork` being called, or about the server of an
HTTP request: `conn_receive` waits for it without a limit, so no step is demanded while
it `Waits`, and `RequestsEnd` says that requests and the closing of the connection end
when no such wait lasts for ever (finding 4).
`AdapterCallsReturn` needs that the peer goes on during a handshake inside
`xio_dowork`, as strong fairness, since the socket is asked again and again.
`NobodyForgotten` assumes that threads run and that a lock that is free again and
again is obtained (`ThreadsRun`).

**Deadlock** is checked in all runs but `library`, in which inputs and
objects reach their bounds and threads end.

### Where passing runs are restricted

A passing run leaves out what the code is known not to survive. These are facts
about the code, met while modelling, and each can be seen by widening a constant:

* `reopen` over TLS, `adapters` (`AnsweredPhases`, `Reusable`, `SafeFrom`): closing
  TLS in any state but OPEN calls nobody back (tlsio_openssl.c:2750), so that a
  client that waits stays in `CLOSING_UNDERLYING_IO` (SRS_UWS_CLIENT_01_399), and
  wsio above it later completes sends with freed contexts; a socket error in the
  handshake leaves the socket open (tlsio_openssl.c:849). mbed TLS and wolfSSL keep
  their contexts, so that a reopened instance is OPEN without a handshake; the mbed
  TLS adapter may report a failed open as a success (tlsio_mbedtls.c:197-250, against
  devdoc/tlsio_requirements.md:85), and its `on_io_recv` does not end after a socket
  error; wolfSSL calls the close callback before the state is NOT_OPEN
  (tlsio_wolfssl.c:343) and delivers after a close made in a callback; a Schannel
  renegotiation drops what came behind the request (tlsio_schannel.c:919); a close
  from `on_io_error` inside `dowork_send` uses a released stream
  (tlsio_appleios.c:513).
* `proxy` (`Reuse = FALSE`): `receive_buffer` is not emptied when a session ends
  (http_proxy_io.c:759), so that a second session parses the first one's answer.
* `wsio`: the callback of an earlier close is kept by the client (uws_client.c:623)
  and called when the peer ends a later session.
* `nested` has no ping, pong or reserved frame: none of them starts another round of
  decoding, so that what stands behind it stays in the buffer until more bytes arrive.
* Masked frames have nothing behind them: the code decodes and delivers them after
  it reported the error (uws_client.c:1375).
* `Options` (`SavableTogether`, `Malformed`): tlsio_openssl saves only the first of
  `tls_version`, the CRL options and the callback (else-if chain, tlsio_openssl.c:364);
  tlsio_mbedtls cannot be fed the options of the layer below and is in no stack; several
  adapters do not save options at all; `DestroyOption` of tlsio_openssl leaks the boolean
  ones. A handler inside another may get two owners, and be destroyed by both: when
  `VECTOR_push_back` fails for it, `AddOptionInternal` destroys it (optionhandler.c:86-91) and
  so does the layer that added it (xio.c:289, wsio.c:814, tlsio_openssl.c:339); and
  `OptionHandler_Clone` gives it to the clone as it is. Both happen in the run
  (`TwoOwners` sets `twice`), and `OptionsReleased` says that everything is released once but
  then.
* `http`: `AnswerIsWhole` says which parts of an answer may be wrong. A header that cannot be
  added, for want of memory or for its name, is missing from a successful answer, since the
  result of `HTTPHeaders_AddHeaderNameValuePair` is not looked at (httpapi_compact.c:1108,
  against SRS_HTTPAPI_COMPACT_21_052, devdoc/httpapi_compact_requirements.md:328). What a failed try
  has read stays in the same headers and content that the next try is given
  (httpapiex.c:411): its headers in front, and as many bytes as it had behind the content.
* `CrlCache`, `Credentials` (`MaxFailing = 1`): `sk_X509_CRL_push` succeeds (where it fails, a
  reference of the list is lost: tlsio_openssl.c:1677, 1686, 1716); a list that is out of date is unlinked
  although another thread may just have written a new one (tlsio_openssl.c:1588);
  `clear_crl_cache` takes no lock; an ECC key leaks when two calls fail
  (x509_schannel.c:205).
* `Gballoc`: one caller, since `gballoc_free` reads `head` before it takes the lock
  (gballoc.c:290, SRS_GBALLOC_01_033). `Threads`: timed waits on Windows, where an untimed
  one can miss its post (condition_win32.c:91-97).
* `PlatformSockets` (`Partial`, `Reenter`, `OpenTwice`): after a partial send
  socketio_win32 reads an old `WSAGetLastError` and may queue the whole message again;
  socketio_mbed moves the rest of a partial send to the front but keeps its size, and
  does not survive a close from a callback.
* `PlatformHttp` (`Mishandled`): a later piece that cannot be stored is freed twice
  (httpapi_curl.c:236); a failing `BUFFER_build` is overwritten by success
  (httpapi_curl.c:645); a short `WinHttpReadData` leaves unset bytes
  (httpapi_winhttp.c:660); header conversion failures are reported as success.
* `Codecs`: the round trip of URLs is for 7-bit characters, of base32 for
  its own alphabet (its decoder accepts more); `string_tokenizer` with one delimiter at a
  time; `strtoull_s` of a negative number out of range and of a bare `0x`, and
  fractions too long for `splitFloatString`, are left out of the comparison.

### Findings

1. `close_while_opening`: `tlsio_openssl_close` reports `IO_OPEN_CANCELLED`
   while its state is still an opening one (tlsio_openssl.c:2725). `uws_client`
   answers with `xio_close`, and the two call each other until the stack is
   used up. SRS_UWS_CLIENT_01_029 wants a pending open to be closed.
2. `freed_send`: `socketio_close` keeps `pending_io_list`
   (socketio_berkeley.c:1048), while the client frees its pending sends. After a
   reopen the old item is completed through freed memory. SRS_TLSIO_30_009 wants
   unsent messages deleted and cancelled on close.
3. `http_split`: `readLine` skips the LF behind a CR only if it has come already
   (httpapi_compact.c:656); when the two come apart, the headers end there, the
   body is lost and the request is reported as successful, against
   devdoc/httpapiex_requirements.md:55.
4. `http_silent`: `conn_receive` (httpapi_compact.c:557) counts no retries, so that a
   server that stays connected and sends nothing more keeps `HTTPAPI_ExecuteRequest` from
   returning, for ever. SRS_HTTPAPI_COMPACT_21_081 and 082 want a read given up after 20
   seconds (devdoc/httpapi_compact_requirements.md:350-352). The behaviour repeats
   `conn_receive_more` without progress: the code runs on, it is the server that does not.

## 4. Proofs

`WsConnectionProofs` proves

    THEOREM TypeCorrect == Spec => []TypeOK

for every choice of the constants, from the named assumptions only:
`UnitAssumption`, `LayersAssumption`, `ScriptsAssumption`, `MayBlockAssumption`,
`MaxQueueAssumption`, `BoundsAssumption` (types of the constants; `Layers` any
nonempty sequence of layer names). `TypeOK` is inductive as it stands because a
stack frame carries, as part of its type, what the function it stands for relies
on (`WellCalled`): a handler of a WebSocket frame has a header, `xio_send` and
`xio_close` a callback of theirs, a delivery a proper frame type. Without that
conjunct the invariant is not inductive: the step that runs the frame would have
to read a field that may hold anything. The argument is one lemma per way to
build a frame (`CallTypes`, `CallbackTypes`, ...), one per control operation
(`GotoType`, `PopType`, `ReturnType`), and one per layer with a case for each
action (`SockStepType`, `TlsStepType`, `UwsStepType`, `UserStepType`,
`UserCallType`), combined in `NextType`.

Next it proves, from the same assumptions,

    THEOREM SendsOnce == Spec => []SendsCompleteOnce

that is: as long as no freed item of `pending_sends` has been used
(`faults = {}`; the run `freed_send` shows that the code can do so), a send is
reported at most once, and never after `uws_client_send_frame_async` returned a
failure for it. `SendsCompleteOnce` is not inductive: it does not say that what
is still in the list was not yet reported, nor that a failure about to be
returned belongs to a send that was not. The inductive invariant is
`SendInv == Linked(stack) /\ (faults = {} => TopOK /\ DataOK)`:

- `DataOK`: the list has no duplicates, and what it holds, what was refused and
  what was not yet sent has not been reported;
- `TopOK`: the same for the send in the hands of the running frame, be it about
  to be sent, about to be reported or about to be refused;
- `Linked`: who may be above whom in the stack. A refusal is a value returned
  from `xio_send` to `uws_client_send_frame_async` and from there to the user, so
  between the two nothing else may be returning a value; the frame that awaits
  the result of `xio_send` has above it the send itself or a return of success,
  which is what makes a completion inside `xio_send` and a failure of the same
  `xio_send` exclude each other. `Linked` holds without the condition on `faults`.

One lemma per control operation says how it keeps `Linked` (`LinkedConcat`,
`LinkedReturn`, `CallLinked`, ...). The actions that touch no send are dealt with
together, by layer (`SockFine`, `TlsFine`, `UwsControlFine`, `UwsDecodeFine`,
`UwsFrameFine`), the ones that do one by one (`SendFrameInv`, `FrameSentInv`,
`SendCompleteInv`, `FreedSendInv`, `ClearInv`, `UserStepInv`, `UserCallInv`).
`SendInv` was first checked with TLC over the instances of the runs.

`SessionProofs` proves four properties of the runs `talk` and `nested`, for the client
over a socket:

    THEOREM OpensAnsweredOnce == ASSUME SocketClient PROVE Spec => []OpensAnswered
    THEOREM ClosedIsReleased  == ASSUME SocketClient, MayBlock = FALSE
                                 PROVE  Spec => []ClosedMeansReleased
    THEOREM SendsAllSettled   == ASSUME SocketClient PROVE Spec => []SendsSettled
    THEOREM ClosesAllAnswered == ASSUME SocketClient, OneSession
                                 PROVE  Spec => []ClosesAnswered

What they assume, and why:

- `SocketClient`: the layers are the socket and the client, and no callback opens the
  client again. An open made inside `on_ws_close_complete` is overwritten by the
  assignment of CLOSED that follows the callback (uws_client.c:1018). TLS in between
  answers an open later, and a close in any state but OPEN not at all.
- `MayBlock = FALSE` (the socket takes what it is given): a queue of the socket that
  outlives its connection is worked off in the next one, and an error there leaves the
  socket in ERROR and open.
- `OneSession` (`MaxOpens = 1`, no masked frame): `uws_client_open_async` keeps
  `on_ws_close_complete`, which the next session would report; a masked frame is
  decoded after the error was reported, whatever the user has done meanwhile.

Both runs satisfy `SocketClient`; `talk`, which checks the first two properties, has a
socket that takes what it is given, and `nested`, which checks the last two, one
session and no masked frame. Nothing bounds the peer, the sends, the bytes or the depth
of callbacks in the theorems. None of the properties is
inductive, and the state variables alone do not suffice: between the calls of one handler
the client is in states that no property allows. The argument is as for the proxy:

- `Place(stack)` says for every function that may be running in which states it runs
  and what is beneath it, in nine cases (`Usual`, `Called`, `Opens`, ..., `Closes`);
  `Settled` is what holds of the client whenever the user may act.
- `Waiting`: what lies further down was left under a callback in which the user could
  close the connection. It must be `Resumable`, harmless in any settled state; the one
  exception is the assignment of CLOSED that is still to come (`set_closed`), which must
  find the state CLOSED, with no frame above it that could leave it. `Role` names
  the few frames that such statements are about.
- `Books` relates the socket to the client and counts the reports of opens.
- `SettleInv`: every send has been reported or refused, or is in `pending_sends`, or in
  the hands of the running frame; and in a state without a connection the list is empty,
  or the function that clears it is on the stack.
- `ReportInv`: a close is reported once, by the only frame on the stack that is to do
  so; `AskInv`: a close that was accepted has a callback to call, or is beneath a close
  without a callback that is taking it back, and the calls of closes that wait on
  the stack wait in states from which the report follows.

`NextSession`, `NextSettle` and `NextClose` show that each is kept, with a lemma for each
action that matters to it and one for all that only move frames (`PlainMove`: what
may be pushed without disturbing the closes). All parts were first checked with TLC
over the instances of the runs.

`MessageProofs` proves, for the same client,

    THEOREM NothingUndefined == ASSUME SocketClient, FreshQueue PROVE Spec => []NoFaults

where `FreshQueue == MayBlock = FALSE \/ MaxOpens = 1`: the socket never queues a send, or
is opened once. The run `freed_send` shows what happens otherwise over TLS, and the same
is found over the socket alone: `socketio_close` leaves `pending_io_list` as it is, the
client frees the sends that stand in it, and `socketio_dowork` completes them in the next
connection. `nested`, which checks `NoFaults` as a part of `DecodedExactly`, satisfies both
hypotheses, with a socket that queues. Under them the condition `faults = {}` of `SendsOnce`
and `SendsAllSettled` is always met, so that those two hold as they would be stated without
it. The argument has a part for each of the two faults:

- `StreamInv`: a frame that is about to consume `n` units finds them in the buffer
  (`Within`). What could take them away is another decoding loop, started by a `dowork`
  above; `OneReader` says that there is none, by the rank of a frame: the loops
  of `dowork` call those that decode, and nothing that decodes calls back into `dowork`.
- `QueueInv`: while the socket is connected, every send in its queue is in `pending_sends`,
  is there once, and is not the one in the hands of the running frame (`Matching`); the first
  one is left out between its completion and its removal from the queue (`Reported`). And the
  list is cleared above nothing but a socket that is being destroyed (`Cleared`), or when
  the socket is no longer connected.

Both are about the whole stack; `MildMove` describes the steps that do not disturb them
(`MildStack`), which are most of those of the client (`UwsMild`) and of the socket
(`SockMild`). `SockQueue`, `UwsQueue`, `UserCallQueue` and `UserStepQueue` deal with the rest
one by one. TLC checked both invariants over the instances of the runs first, and
found `NoFaults` violated for two connections of a socket that queues.

It then proves what the client is for. With `FramedScripts` (what a peer sends is a
sequence of whole frames) and `Unmasked` (none of them masked),

    THEOREM MessagesDeliveredAsSent ==
        ASSUME SocketClient, FreshQueue, FramedScripts, Unmasked, Exact
        PROVE  Spec => []MessagesAsSent
    THEOREM StreamDecodedExactly ==
        ASSUME SocketClient, FreshQueue, FramedScripts, Unmasked, NoControl
        PROVE  Spec => []DecodedExactly

The further hypotheses are the code's limits, each of them found by a step of the proof
that would not go through or by TLC:

- `Unmasked`: the mask bit stays in the length of a masked frame, so that the client takes
  its end to be elsewhere and loses the frame boundaries; and the frame is decoded although
  an error was reported.
- `Exact`: the user asks for the closing handshake only while it takes the connection for
  open (`Polite`): uws_client accepts the call in every state but four, sets
  CLOSING_WAITING_FOR_CLOSE, and then decodes the response to the upgrade request as a
  frame. And no script has an offence that the client does not notice (`Noticed`): text that
  is no UTF-8, a pong or a reserved opcode without FIN, the last frame of a message
  in the middle of another, a fragment that continues nothing. What the client makes of
  those is not what RFC 6455 makes of them, which is what `Messages` defines. The offences
  it does notice, wrong lengths, bad close frames, and fragments out of place, are in.
- `NoControl`: after a ping, a pong or a reserved opcode `decode_stream` is not set
  again, so a whole frame behind it waits in the buffer until more bytes arrive. For
  `MessagesDeliveredAsSent` this does not matter: late is not wrong.

`nested` satisfies all hypotheses of both theorems; `talk` those of the first but
`Unmasked`, as one of its scripts ends with a masked frame. `reopen` checks
`MessagesAsSent` over TLS, which no theorem covers.

`Messages` is what a fold over all frames of the script gives, and the client has seen only
a part of it, cut anywhere, so the inductive invariant is
`Tracking == AlignInv /\ HotInv /\ PoliteInv /\ (Exact => FoldInv)`, on top of those above:

- `AlignInv`: what was received of the script is `stream_buffer`, before it what was
  consumed, and after it what is just arriving (`Aligned`); a frame begins where the consumed
  part ends (`Boundary`); whoever decodes has in hand the frame the buffer begins
  with (`Suits`); and, with `NoControl`, when nobody decodes there is no whole frame
  (`NoneWhole`). It holds only while the client is `Reading`, that is, until a state is
  reached, or is about to be, in which nothing is decoded any more.
- `FoldInv`: the client is as far as the fold is after the units consumed and due to be
  (`Reached`): the type and the fragments of the message in progress, and the messages
  delivered, with the one that is being handed to the user (`Passed`).
- `HotInv`: what runs at once where it is called never waits beneath another
  (`NoneHot`), and a message is done with before its last frame is consumed (`DoneFirst`).
- `PoliteInv`: an error is reported to the user before it can act again.

`Assembled` is a recursive function, about which nothing can be shown by induction
over a parameter; `AssembledIs` shows that it is its own unfolding from the existence of a fold of
every length (`FoldExists`), and that by the least length without one
(`Least`, from the well-foundedness of the numbers). `FrameStep` says what the fold does over a whole frame.
The steps are in two groups: those that leave the stream alone (`Still`: the socket's but
for the receiving loop, those of the client that only report, and the user's), and the
readers' one by one (`ReadersTrack`). TLC checked `Tracking` over
the instances of `talk` and `nested`, and over two sessions, before it was proved.

`HttpProofs` proves two properties of the run `http`, for any replies, failing
calls, numbers of requests and options:

    THEOREM LadderIsUndone == Spec => []LevelsUndone
    THEOREM OptionsReachConnection == Spec => []OptionsInForce

`LevelsUndone` is not inductive because its bound on how often the server sees a
request says nothing of the tries that are still to come. `HttpInv` counts them:
`TriesLeft` is what the ladder can still climb, by the level reached and the levels
tried since, `TryInv` says for each place of the blocking client how many tries
the server has seen and has yet to see, and each try moves one from the second
number to the first. `LadderInv` says at each place what is held, `CloseInv` that a
connection being closed can no longer send, and `OptionInv` that the options on
the connection are those saved wherever a request may follow. One lemma per action of
the ladder and one for each group of actions of `HttpApiCompact`.

`ProxyProofs` proves the three properties of the run `proxy`:

    THEOREM ProxyKeepsContract == ASSUME ProxyClient PROVE Spec => KeepsContract
    THEOREM ProxyAnswersCloses == ASSUME ProxyClient PROVE Spec => []ProxyEndsAnswered
    THEOREM TunnelOpenedByResponse ==
        ASSUME ProxyClient, ResponsesFirst PROVE Spec => []OpenedByResponse

The first is a refinement: every step of the proxy layer, of the socket beneath
it and of the client on top maps to a step of `IoContract` or leaves its variables
alone. `ProxyClient` says which connection is meant (socket, proxy, client), that
the client does not call back from inside `on_io_open_complete`, and that an
instance which a proxy has answered is not opened again. The run's instance
satisfies it. Without the second hypothesis bytes that came with the response
are delivered after a close made inside the callback; without the third the old
response is parsed again (section 3). Nothing else is assumed: any response,
any peer, any number of opens, closes and sends, any depth of calls.
Neither property is inductive: they speak of what the client was told, and the code
decides by `proxy_state` and by what waits on the stack. `ProxyInv` is a case
distinction over what is running (`Place`): for each function, the states
it may be entered in, what it has beneath it, and the client's phase. What lies
further down has been left there under a callback in which the client could do
anything, so it must be `Resumable`: harmless in every state that a client can bring
about. A step lemma per action shows that its place leads to a place.

`ResponsesFirst` says that what a peer sends begins with a response (of any status, or
malformed), of which there may be only a part; what follows it is anything.
`OpenedByResponse` needs to know where every unit is between the socket and the client,
which `TunnelInv` says: while the response is awaited, the buffer followed by what is arriving
is what was read; once the tunnel is open, what was handed up, what is being handed up and
what is arriving, in this order, are what was read after the response, which may be in
parts on three frames of the stack at once (`Handing`, `Arriving`). It is inductive relative
to `ProxyInv`, which tells that no other frame on the stack carries bytes (`WhatWaits`).

`ObjectProofs` is about four objects of the library used by themselves, that is, about
their own specifications, of which `Library` runs one at a time:

    THEOREM SharedContentsLive == SharedInit /\ [][SharedNext]_sharedVars => []SharedWhileHeld
    THEOREM CredentialsHeld == CredentialsInit /\ [][CredentialsNext]_credentialVars
                               => []TlsAsConfigured /\ (MaxFailing <= 1 => []CredentialsAsConfigured)
    THEOREM RevocationListsHeld == CrlInit /\ [][CrlNext]_crlVars => []ListsAsAsked
    THEOREM ListOfBlocks ==
        ASSUME OneCaller
        PROVE  GballocInit /\ [][GballocNext]_gballocVars /\ []Fits => []TrackedExactly

for any number of threads, references, lists, files, URLs, blocks and failing calls.

- `SharedInv`: while there is a reference, the contents are those that were copied and nobody
  frees; when there is none, at most one thread frees, and it frees what is left. It holds
  because the count is the number of references, and an atomic decrement lets only one
  thread see zero.
- `CredentialsInv` says of an X.509 handle and of a TLS instance what each holds, by what
  was acquired before the first call that failed (`FirstFailed`, `AllGivenBack`). The handle of
  x509_schannel needs `MaxFailing <= 1`: when `NCryptFreeObject` fails the code keeps the
  object, and when `x509_schannel_create` then fails as well nobody has it any more
  (x509_schannel.c:196-230). The instance of tlsio_openssl (`TlsAsConfigured`) needs no such bound.
- `CrlInv`: every count is the number of pointers to the list (`Counted`), which are in the
  cache, on a thread's stack of lists, or in its hands; a list that is in the cache, in a file
  or on a stack is of the issuer that its URL says; and what a thread has decided agrees with
  its stack. The lemmas `UpRefCounted`, `FreedCounted`, `FreeAllCounted`, `AppendCounted`
  and `MovedCounted` say how the calls of the code keep the counts, `SplitPointers` whose
  each pointer is, and `Grown` that what was published does not change, so that what
  other threads hold is not disturbed. There is one lemma per action. `CrlAssumption` only
  gives the constants their types and keeps `"cache"` from being a thread's name.
  TLC checked `CrlInv` on the instance of `library` first.
- `GballocInv`: following `next` from `head` meets every ALLOCATION once (`Chain`), each of them
  has one block in use, with its size, and every tracked block has one (`Records`), and the total
  is the sum of the sizes in use modulo the values of a `size_t`, less what was in use
  when the metrics were reset. `Walked` shows that the walk of the code finds that list, `ChainMore`
  and `ChainLess` what adding and removing an ALLOCATION make of it, `BytesAdd` that the fold of the sizes
  is a sum whichever block is taken first, and `SizeAdd` that it may be taken modulo
  at each step. Both recursions are shown to be what they unfold to from a least counterexample.
  The hypotheses: `OneCaller`, since `gballoc_free` reads `head` before it takes the lock (section 3);
  and `Fits`, that the blocks in use fit the address space, which matters only for the
  maximum: sums that wrap round could fall below one that was counted before. `library` has
  one caller and blocks that fit.

`ContentProofs` is about buffers and strings, and about digests, again by their own
specifications, of which `Library` and `Conversions` run one at a time:

    THEOREM BlocksHoldWhatWasPut ==
        BuffersInit /\ [][BufferNext]_bufferVars /\ StringsInit /\ [][StringNext]_stringVars
        => []BuffersAsTold
    THEOREM DigestsAreOfTheMessage == HashesInit /\ [][HashNext]_hashVars => []DigestsOfWholeMessage

The first is for any bytes, characters, sizes and failing calls. What is assumed of the constants
is that the marks of the model (`"nul"`, `"NULL"`, `"overrun"`) are no characters or bytes.

- `BufferInv`: a BUFFER holds what its caller put there (`Holds`), and behind its size its block
  was never written to; `StringInv`: a STRING's block holds its text and the end of it (`Spells`).
  Each function is shown to keep this from what `malloc`, `realloc` and `memcpy` do, and none of
  its copies leaves its block, which is where an off-by-one would show: `BUFFER_prepend`,
  which copies into a new block twice, `BUFFER_shrink` from either end, `STRING_quote` and
  `STRING_concat`, which write beyond the old end.
- `STRING_new_JSON` computes its size in a first pass and writes in a second.
  `FlattenIs` and `CountIs` show that the text it writes has exactly the
  length that was counted, again by the least prefix for which it had not.

The second is for all five hashes, any sizes of blocks, digests and words, any keys and any
portions; a digest may also be asked for again, or out of turn. `HashesAssumption` says that a word
counts the bits of a byte and that a key has a hash, both of which hold of the code by far;
otherwise the only limit is the code's own, the number of bits that two words count.

- `Filled` says that a context has processed the first blocks of a message and has the rest in its
  block; `Fed` adds that its two words count the bits of what it was given (`Counts`). `AddLengthIs`
  shows that the carry from one word to the other, and the overflow of both, are
  found as they should be; `ByteIs` is the step of `InputBytes`, which is unfolded by
  `InputBytesSteps` from its fold.
- `PadMessageFills` follows `PadMessage` through its two cases, a length that still fits the last block and
  one that takes another, and `PaddedIs` shows the same of the standard's definition, whose
  number of zeros is a CHOOSE; so `FinalizeIs`: ending a context that was fed a message leaves the
  message's hash.
- `HashInv`: a context was fed the whole message (`Has`), or has its digest (`Done`), or has
  none any more (`Spoilt`). The two passes of hmac are messages in two parts (`TwoParts`), of
  which the second is the key's pad and the digest of the first.

Model-checked only: the liveness properties (`CallsReturn` and the others: fairness is
outside the prover); `BytesAsSent` and the properties of `Conversions`, whose references
are recursive functions over the input, but for the digests; `AnswerIsWhole`, which the finding `http_split`
restricts to replies whose lines arrive whole, and which needs an algebra of
subsequences; the containers and options, whose references filter sequences and recurse
over chains; the sockets and HTTP clients of other platforms; and, so far, the
properties of `WsioConnection` and `TlsAdapters`. The theorems of `SessionProofs`
and `MessageProofs` say nothing of a client over TLS; there the run `reopen` checks
delivery only. And where their hypotheses do not hold, in `talk` for
masked frames, the properties are checked and not proved.

## 5. Plan

Done: the connection layers, the HTTP clients, the library objects, the pure
algorithms, the contract of an IO layer and two refinements of it; as theorems, the
types of the WebSocket connection, its opens, sends and closes, the absence of undefined
behaviour and the delivery of messages over a socket, the ladder of the HTTP
client, the refinement, the closes and the tunnel of the proxy layer, and the references of
shared contents, credentials, revocation lists and the list of gballoc, what buffers and
strings hold, and digests. Next, in this order:

1. `WsioKeepsContract`: the refinement for wsio, whose client is the one of
   `SessionProofs`.
2. `AnsweredOnce` for the TLS adapters.
3. `SocketsAsAsked`.

## 6. Not modelled

* Name resolution and the connect loop of socketio_berkeley beyond success and
  failure, and opening an accepted socket.
* TLS libraries, libcurl and WinHTTP themselves; the parsing of certificates and of
  CRL distribution points; OpenSSL's lock callbacks.
* The text of the upgrade request and the headers of its response beyond the status.
* Addresses of list items being reused after a free; calls to `dowork` and
  `destroy` from inside callbacks; more than one connection at a time.
* The bit arithmetic of the digests, which is out of TLC's reach.
* httpapi_wince and httpapi_tirtos (older variants for two platforms), httpapiexsas
  (no state of its own), pal sockets and name resolution, platform, tick counters,
  unique ids and time (system calls without a protocol), logging.
* `macro_utils.h` is generated; the mocking libraries under `testtools` are
  not part of the program.
