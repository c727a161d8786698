------------------------------ MODULE Options ------------------------------
(***************************************************************************)
(* src/optionhandler.c and the option functions of the layers of an IO: a  *)
(* client sets options on one connection, saves them as an option handler, *)
(* and feeds the handler to the connection that replaces the first.  A     *)
(* handler of one layer holds the handler of the layer below as the value  *)
(* of one of its options.  Every allocation is a block with a number, so   *)
(* that a handler is the blocks it owns, and one of them can fail.         *)
(***************************************************************************)
EXTENDS Naturals, Sequences, FiniteSets, SequencesExt

CONSTANTS
    Programs,       \* stacks of layers, with the options a client may set on each, and a bound on
                    \* the place of the one allocation that fails
    OptionValues,   \* the values it sets
    Malformed,      \* those that are not certificates
    Repeatable,     \* options it may set more than once
    MaxSets         \* bound on the options set

ASSUME OptionsAssumption ==
    /\ \A p \in Programs : p.stack \in Seq(STRING) /\ IsFiniteSet(p.names) /\ p.allocations \in Nat
    /\ MaxSets \in Nat

VARIABLES
    program,        \* the stack that is used, and the options set on it
    memory,         \* the blocks
    used, fresh,    \* the connection in use and the one that replaces it
    saved, cloned,  \* handlers the client holds
    asSaved,        \* the settings of the first connection when they were saved
    fed             \* what OptionHandler_FeedOptions returned
optionVars == <<program, memory, used, fresh, saved, cloned, asSaved, fed>>

-----------------------------------------------------------------------------
(* Blocks                                                                   *)

Allocate(h) ==
    [ok |-> h.failAt # 1, block |-> h.next,
     heap |-> [h EXCEPT !.failAt = IF @ = 0 THEN 0 ELSE @ - 1,
                        !.short = @ \/ h.failAt = 1,
                        !.next = @ + 1,
                        !.live = IF h.failAt = 1 THEN @ ELSE @ \cup {h.next}]]

\* block 0 is NULL
Release(h, b) == IF b = 0 THEN h ELSE [h EXCEPT !.live = @ \ {b}, !.fault = @ \/ b \notin h.live]

-----------------------------------------------------------------------------
(* What each layer's pfCloneOption and pfDestroyOption know                 *)

None == "none"
Strings == {"trusted", "cert", "key", "ecc_cert", "ecc_key"}
Booleans == {"disable_crl", "disable_paths", "continue_crl"}
Versions == {"1.0", "1.1", "1.2"}

\* the option whose value is the handler of the layer below: kept as the pointer it is, and
\* destroyed with the handler that has it
xio_handler == "concreteOptions"
uws_client_handler == "uWSClientOptions"
wsio_handler == "WSIOOptions"
tlsio_handler == "underlying_io_options"

HandlerOption(layer) ==
    CASE layer = "xio" -> xio_handler
      [] layer = "uws" -> uws_client_handler
      [] layer = "wsio" -> wsio_handler
      [] layer \in {"openssl", "mbedtls"} -> tlsio_handler
      [] OTHER -> None

\* the options of which a copy is made ...
openssl_copied == Strings \cup Booleans \cup {"tls_version"}
mbedtls_copied == {"trusted"}
wolfssl_copied == {"trusted", "cert", "key"}
schannel_copied == Strings \ {"trusted"}
berkeley_copied == {"mac"}
tlsio_options_copied == Strings

CopiedBy(layer) ==
    CASE layer = "openssl" -> openssl_copied
      [] layer = "mbedtls" -> mbedtls_copied
      [] layer = "wolfssl" -> wolfssl_copied
      [] layer = "schannel" -> schannel_copied
      [] layer = "berkeley" -> berkeley_copied
      [] layer \in {"appleios", "compact"} -> tlsio_options_copied
      [] OTHER -> {}

\* slip: a private key is not among the options that are freed
schannel_freed_cert_only == {"cert", "ecc_cert"}

\* ... and those of which it is freed
openssl_freed == Strings \cup {"tls_version"}
mbedtls_freed == {"trusted"}
wolfssl_freed == {"trusted", "cert", "key"}
schannel_freed == Strings \ {"trusted"}
berkeley_freed == {"mac"}
tlsio_options_freed == Strings

FreedBy(layer) ==
    CASE layer = "openssl" -> openssl_freed
      [] layer = "mbedtls" -> mbedtls_freed
      [] layer = "wolfssl" -> wolfssl_freed
      [] layer = "schannel" -> schannel_freed
      [] layer = "berkeley" -> berkeley_freed
      [] layer \in {"appleios", "compact"} -> tlsio_options_freed
      [] OTHER -> {}

\* the options that are kept as the pointer they are
KeptPointers(layer) == {HandlerOption(layer)} \cup IF layer = "openssl" THEN {"callback", "callback_data"} ELSE {}

-----------------------------------------------------------------------------
(* optionhandler.c                                                          *)

NoHandler == [layer |-> None, blocks |-> {}, options |-> <<>>]

\* A handler is its own block and that of its vector.
CreateInternal(layer, h) ==
    LET a == Allocate(h)
        b == Allocate(a.heap)
    IN  IF ~a.ok THEN [handler |-> NoHandler, heap |-> a.heap]
        ELSE IF ~b.ok THEN [handler |-> NoHandler, heap |-> Release(b.heap, a.block)]
        ELSE [handler |-> [layer |-> layer, blocks |-> {a.block, b.block}, options |-> <<>>], heap |-> b.heap]

RECURSIVE DestroyInternal(_, _)

destroyOption(layer, option, h) ==
    IF option.name = HandlerOption(layer) THEN DestroyInternal(option.value, h)
    ELSE IF option.name \in FreedBy(layer) THEN Release(h, option.block)
    ELSE h

DestroyInternal(handler, h) ==
    LET WithoutOption(g, option) == Release(destroyOption(handler.layer, option, g), option.nameBlock)
        emptied == FoldLeft(WithoutOption, h, handler.options)
    IN  FoldLeft(Release, emptied, SetToSeq(handler.blocks))

OptionHandler_Destroy(handler, h) == IF handler = NoHandler THEN h ELSE DestroyInternal(handler, h)

cloneOption(layer, name, value, h) ==
    LET a == Allocate(h)
    IN  IF name \in CopiedBy(layer) THEN [a EXCEPT !.block = IF a.ok THEN @ ELSE 0]
        ELSE [ok |-> name \in KeptPointers(layer), block |-> 0, heap |-> h]

\* whether the vector of the handler can take another option
PushOption(handler, h) ==
    LET a == Allocate(h) IN [ok |-> a.ok, heap |-> Release(a.heap, IF a.ok THEN a.block ELSE 0)]

\* The handler that is the value of an option belongs to somebody else as well, who will
\* destroy it too.
TwoOwners(holds, h) == [h EXCEPT !.twice = @ \/ holds]

\* An option has a copy of its name, its value and a place in the vector; what cannot be
\* had takes back what was: of an option that is a handler that is the caller's own.
OptionPushed(handler, option, p) ==
    IF p.ok THEN [ok |-> TRUE, handler |-> [handler EXCEPT !.options = Append(@, option)], heap |-> p.heap]
    ELSE [ok |-> FALSE, handler |-> handler,
          heap |-> Release(destroyOption(handler.layer, option, TwoOwners(option.name = HandlerOption(handler.layer), p.heap)),
                          option.nameBlock)]
WithValue(handler, name, value, nameBlock, v) ==
    IF v.ok
    THEN OptionPushed(handler, [name |-> name, nameBlock |-> nameBlock, value |-> value, block |-> v.block],
                PushOption(handler, v.heap))
    ELSE [ok |-> FALSE, handler |-> handler, heap |-> Release(v.heap, nameBlock)]
WithName(handler, name, value, n) ==
    IF n.ok THEN WithValue(handler, name, value, n.block, cloneOption(handler.layer, name, value, n.heap))
    ELSE [ok |-> FALSE, handler |-> handler, heap |-> n.heap]
AddOptionInternal(handler, name, value, h) == WithName(handler, name, value, Allocate(h))

\* NULL is no value for an option
OptionHandler_AddOption(handler, name, value, h) ==
    IF name # HandlerOption(handler.layer) /\ value = None THEN [ok |-> FALSE, handler |-> handler, heap |-> h]
    ELSE AddOptionInternal(handler, name, value, h)

\* Options are added one after the other; when one cannot be, the handler is destroyed.
Kept(a) ==
    IF a.ok THEN [handler |-> a.handler, heap |-> a.heap]
    ELSE [handler |-> NoHandler, heap |-> OptionHandler_Destroy(a.handler, a.heap)]
AddAll(created, options) ==
    LET Add(r, o) == IF r.handler = NoHandler THEN r ELSE Kept(OptionHandler_AddOption(r.handler, o[1], o[2], r.heap))
    IN  FoldLeft(Add, created, options)

\* the handler of the layer below is not cloned: both have the one there is
OptionHandler_Clone(handler, h) ==
    AddAll(CreateInternal(handler.layer, TwoOwners(HandlerOption(handler.layer) # None, h)), [i \in DOMAIN handler.options |-> <<handler.options[i].name, handler.options[i].value>>])

-----------------------------------------------------------------------------
(* Setting an option.  m is what has become of the connection, the blocks  *)
(* and the result so far.                                                  *)

Refused(m) == [m EXCEPT !.ok = FALSE]
Assigned(m, f, v) == [m EXCEPT !.io.set[f] = v]

\* mallocAndStrcpy_s into a field
CopyInto(m, f, v) ==
    LET a == Allocate(m.heap)
    IN  [ok |-> a.ok, heap |-> a.heap,
         io |-> [m.io EXCEPT !.set[f] = IF a.ok THEN v ELSE None, !.block[f] = IF a.ok THEN a.block ELSE 0]]
ReplaceField(m, f, v) == CopyInto([m EXCEPT !.heap = Release(@, m.io.block[f])], f, v)
Once(m, f, v) == IF m.io.set[f] # None THEN Refused(m) ELSE CopyInto(m, f, v)
BeforeOpen(m, f, v) == IF m.io.open THEN Refused(m) ELSE Assigned(m, f, v)

\* process_option of tlsio_wolfssl.c
process_option(m, f, v) == ReplaceField(m, f, v)

Field(name) == CASE name = "ecc_cert" -> "cert" [] name = "ecc_key" -> "key" [] OTHER -> name

\* the options each TLS layer knows; what else there is goes to the layer below
openssl_known ==
    Strings \cup Booleans \cup {"callback", "callback_data", "tls_version", "crl_max", "underlying_io_options", "ignore_host"}
mbedtls_known == {"trusted"}
wolfssl_known == Strings \cup {"device_id", "ignore_host"}
schannel_known == Strings \cup {"ignore_host"}

RECURSIVE setoption(_, _, _, _, _)

\* Options are set until one is refused; those before it stay set.  The handler's
\* setOption takes the destination for one of its own kind, whatever it is.
OptionHandler_FeedOptions(handler, stack, i, m) ==
    LET Feed(r, o) == IF r.ok THEN setoption(stack, i, o.name, o.value, r) ELSE r
    IN  IF handler.layer # stack[i] THEN [m EXCEPT !.ok = FALSE, !.heap.fault = TRUE]
        ELSE FoldLeft(Feed, m, handler.options)

\* With a context there already, the certificate goes there too, and that decides.
openssl_set_credentials(name, v, m) ==
    CASE name = "trusted" ->
            LET r == ReplaceField(m, "trusted", v) IN [r EXCEPT !.ok = @ \/ m.io.open]
      [] name \in Strings \ {"trusted"} -> Once(m, Field(name), v)
      [] name \in {"callback", "callback_data"} -> Assigned(m, name, v)

openssl_setoption(stack, i, name, v, m) ==
    CASE name \in Strings \cup {"callback", "callback_data"} -> openssl_set_credentials(name, v, m)
      [] name = "tls_version" -> BeforeOpen(m, name, IF v \in Versions THEN v ELSE "1.2")
      [] name \in Booleans -> BeforeOpen(m, name, v)
      [] name = "crl_max" -> IF m.io.open THEN Refused(m) ELSE m
      [] name = "ignore_host" -> Assigned(m, name, v)
      [] name = tlsio_handler -> OptionHandler_FeedOptions(v, stack, i + 1, m)

\* a certificate that cannot be parsed is kept, and refused
mbedtls_setoption(m, v) ==
    LET r == ReplaceField(m, "trusted", v) IN [r EXCEPT !.ok = @ /\ v \notin Malformed]

wolfssl_setoption(name, v, m) ==
    IF name \in Strings THEN process_option(m, Field(name), v) ELSE Assigned(m, name, v)

\* With the second of certificate and key the handle for both is made.
schannel_setoption(name, v, m) ==
    LET r == Once(m, Field(name), v)
    IN  CASE name = "trusted" -> m
          [] name = "ignore_host" -> Assigned(m, name, v)
          [] OTHER -> IF r.ok /\ r.io.set["cert"] # None /\ r.io.set["key"] # None
                      THEN CopyInto(r, "x509_handle", "made") ELSE r

\* an option once set stays; the types of certificate and key must agree
set_and_validate_x509_type(m, supported, type) ==
    IF type \notin supported \/ m.io.set["x509_type"] \notin {None, type} THEN Refused(m) ELSE Assigned(m, "x509_type", type)

\* The value is copied before anything is looked at, and freed when it is not taken.
tlsio_options_set(supported, name, v, m) ==
    LET type == IF name \in {"ecc_cert", "ecc_key"} THEN "ECC" ELSE "RSA"
        a == Allocate(m.heap)
        with == [m EXCEPT !.heap = a.heap]
        typed == IF name = "trusted" THEN [with EXCEPT !.ok = "trusted" \in supported]
                 ELSE set_and_validate_x509_type(with, supported, type)
    IN  IF ~a.ok THEN Refused(with)
        ELSE IF m.io.set[Field(name)] # None THEN [Refused(m) EXCEPT !.heap = Release(a.heap, a.block)]
        ELSE IF ~typed.ok THEN [Refused(m) EXCEPT !.heap = Release(a.heap, a.block)]
        ELSE [typed EXCEPT !.io.set[Field(name)] = v, !.io.block[Field(name)] = a.block]

\* tlsio_appleios.c supports trusted certificates only
appleios_setoption(name, v, m) ==
    IF name \in Strings THEN tlsio_options_set({"trusted"}, name, v, m)
    ELSE IF name = "tcp_nodelay" /\ m.io.open THEN m ELSE Refused(m)

strtoup(v) == CASE v = "aa" -> "AA" [] v = "bb" -> "BB" [] OTHER -> v

\* The options of TCP go to the socket, which there is once the connection is open.
\* The address of an earlier call is not freed.
berkeley_setoption(name, v, m) ==
    CASE name \in {"tcp_nodelay", "tcp_keepalive"} -> IF m.io.open THEN m ELSE Refused(m)
      [] name = "mac" -> IF v = "" THEN Refused(m) ELSE CopyInto(m, "mac", strtoup(v))
      [] OTHER -> Refused(m)

win32_setoption(name, v, m) ==
    IF name \in {"tcp_nodelay", "tcp_keepalive"} /\ m.io.open THEN m ELSE Refused(m)

\* a layer feeds the handler of the layer below to it, and passes everything else on
xio_setoption(stack, i, name, v, m) ==
    IF name = xio_handler THEN OptionHandler_FeedOptions(v, stack, i + 1, m) ELSE setoption(stack, i + 1, name, v, m)
uws_client_set_option(stack, i, name, v, m) ==
    IF name = uws_client_handler THEN OptionHandler_FeedOptions(v, stack, i + 1, m) ELSE setoption(stack, i + 1, name, v, m)
wsio_setoption(stack, i, name, v, m) ==
    IF name = wsio_handler THEN OptionHandler_FeedOptions(v, stack, i + 1, m) ELSE setoption(stack, i + 1, name, v, m)
http_proxy_io_set_option(stack, i, name, v, m) == setoption(stack, i + 1, name, v, m)

\* A layer "compact" is an adapter that leaves its options to tlsio_options.c and supports
\* all of them.
setoption(stack, i, name, v, m) ==
    LET layer == stack[i]
    IN  CASE layer = "xio" -> xio_setoption(stack, i, name, v, m)
          [] layer = "uws" -> uws_client_set_option(stack, i, name, v, m)
          [] layer = "wsio" -> wsio_setoption(stack, i, name, v, m)
          [] layer = "proxy" -> http_proxy_io_set_option(stack, i, name, v, m)
          [] layer = "openssl" /\ name \in openssl_known -> openssl_setoption(stack, i, name, v, m)
          [] layer = "mbedtls" /\ name \in mbedtls_known -> mbedtls_setoption(m, v)
          [] layer = "wolfssl" /\ name \in wolfssl_known -> wolfssl_setoption(name, v, m)
          [] layer = "schannel" /\ name \in schannel_known -> schannel_setoption(name, v, m)
          [] layer = "appleios" -> appleios_setoption(name, v, m)
          [] layer = "compact" -> IF name \in Strings THEN tlsio_options_set({"trusted", "RSA", "ECC"}, name, v, m) ELSE Refused(m)
          [] layer = "berkeley" -> berkeley_setoption(name, v, m)
          [] layer = "win32" -> win32_setoption(name, v, m)
          [] layer = "mbed" -> Refused(m)
          [] OTHER -> setoption(stack, i + 1, name, v, m)

-----------------------------------------------------------------------------
(* Retrieving the options                                                   *)

\* of some options, those that have been set
SetAmong(io, names) ==
    LET IsSet(n) == io.set[Field(n)] # None IN [i \in DOMAIN SelectSeq(names, IsSet) |->
        <<SelectSeq(names, IsSet)[i], io.set[Field(SelectSeq(names, IsSet)[i])]>>]

\* slip: a key without a certificate is taken for nothing to save
wolfssl_saved_with_cert(io) ==
    IF io.set["cert"] = None THEN SetAmong(io, <<"trusted">>) ELSE SetAmong(io, <<"cert", "key", "trusted">>)

\* Of the last group only the first option that differs from its default is saved.
openssl_saved(io) ==
    SetAmong(io, <<"trusted", "cert", "key">>)
      \o CASE io.set["tls_version"] # None -> SetAmong(io, <<"tls_version">>)
           [] io.set["disable_crl"] = "true" -> SetAmong(io, <<"disable_crl">>)
           [] io.set["continue_crl"] = "true" -> SetAmong(io, <<"continue_crl">>)
           [] io.set["disable_paths"] = "true" -> SetAmong(io, <<"disable_paths">>)
           [] io.set["callback"] # None ->
                << <<"callback", io.set["callback"]>>, <<"callback_data", io.set["callback_data"]>> >>
           [] OTHER -> <<>>
mbedtls_saved(io) == SetAmong(io, <<"trusted">>)
wolfssl_saved(io) == SetAmong(io, <<"cert", "key", "trusted">>)
schannel_saved(io) == SetAmong(io, <<"cert", "key">>)
berkeley_saved(io) == SetAmong(io, <<"mac">>)

\* tlsio_options_retrieve_options_ex, which names the type of certificate and key
tlsio_options_saved(io) ==
    SetAmong(io, <<"trusted">>)
      \o CASE io.set["x509_type"] = "ECC" -> SetAmong(io, <<"ecc_cert", "ecc_key">>)
           [] io.set["x509_type"] = "RSA" -> SetAmong(io, <<"cert", "key">>)
           [] OTHER -> <<>>

SavedBy(layer, io) ==
    CASE layer = "openssl" -> openssl_saved(io)
      [] layer = "mbedtls" -> mbedtls_saved(io)
      [] layer = "wolfssl" -> wolfssl_saved(io)
      [] layer = "schannel" -> schannel_saved(io)
      [] layer = "berkeley" -> berkeley_saved(io)
      [] layer \in {"appleios", "compact"} -> tlsio_options_saved(io)
      [] OTHER -> <<>>

RECURSIVE retrieveoptions(_, _, _, _)

\* The handler is created, then that of the layer below, which becomes its first option;
\* when that fails both are destroyed.
WithHandlerBelow(stack, i, io, below, a) ==
    IF a.ok THEN AddAll([handler |-> a.handler, heap |-> a.heap], SavedBy(stack[i], io))
    ELSE [handler |-> NoHandler,
          heap |-> OptionHandler_Destroy(a.handler, OptionHandler_Destroy(below, a.heap))]
OverBelow(stack, i, io, handler, below) ==
    IF below.handler = NoHandler
    THEN [handler |-> NoHandler, heap |-> OptionHandler_Destroy(handler, below.heap)]
    ELSE WithHandlerBelow(stack, i, io, below.handler,
             OptionHandler_AddOption(handler, HandlerOption(stack[i]), below.handler, below.heap))
OverCreated(stack, i, io, c) ==
    IF c.handler = NoHandler THEN c
    ELSE OverBelow(stack, i, io, c.handler, retrieveoptions(stack, i + 1, io, c.heap))
RetrieveWithBelow(stack, i, io, h) == OverCreated(stack, i, io, CreateInternal(stack[i], h))

xio_retrieveoptions(stack, i, io, h) == RetrieveWithBelow(stack, i, io, h)
uws_client_retrieve_options(stack, i, io, h) == RetrieveWithBelow(stack, i, io, h)
wsio_retrieveoptions(stack, i, io, h) == RetrieveWithBelow(stack, i, io, h)

\* what the layer below returns, whose setOption is for that layer
http_proxy_io_retrieve_options(stack, i, io, h) == xio_retrieveoptions(stack, i + 1, io, h)

retrieveoptions(stack, i, io, h) ==
    CASE stack[i] = "xio" -> xio_retrieveoptions(stack, i, io, h)
      [] stack[i] = "uws" -> uws_client_retrieve_options(stack, i, io, h)
      [] stack[i] = "wsio" -> wsio_retrieveoptions(stack, i, io, h)
      [] stack[i] = "proxy" -> http_proxy_io_retrieve_options(stack, i, io, h)
      [] stack[i] \in {"openssl", "mbedtls"} -> RetrieveWithBelow(stack, i, io, h)
      [] OTHER -> AddAll(CreateInternal(stack[i], h), SavedBy(stack[i], io))

-----------------------------------------------------------------------------
(* The client                                                               *)

Fields == {"trusted", "cert", "key", "x509_type", "x509_handle", "tls_version", "disable_crl", "continue_crl",
           "disable_paths", "ignore_host", "device_id", "callback", "callback_data", "mac"}
NewIo == [set |-> [f \in Fields |-> None], block |-> [f \in Fields |-> 0], open |-> FALSE, sets |-> 0, done |-> {}]

OptionsInit ==
    /\ program \in Programs
    /\ \E failAt \in 0 .. program.allocations :
         memory = [live |-> {}, next |-> 1, failAt |-> failAt, short |-> FALSE, fault |-> FALSE, twice |-> FALSE]
    /\ used = NewIo /\ fresh = NewIo
    /\ saved = NoHandler /\ cloned = NoHandler
    /\ asSaved = NewIo.set /\ fed = "not yet"

SetOption(name, v) ==
    /\ fed = "not yet" /\ saved = NoHandler /\ used.sets < MaxSets
    /\ name \notin used.done \/ name \in Repeatable
    /\ \E m \in {setoption(program.stack, 1, name, v, [ok |-> TRUE, heap |-> memory, io |-> used])} :
         /\ memory' = m.heap
         /\ used' = [m.io EXCEPT !.sets = @ + 1, !.done = @ \cup {name}]
    /\ UNCHANGED <<program, fresh, saved, cloned, asSaved, fed>>

\* opening creates the TLS context and the socket
OpenUsed ==
    /\ ~used.open /\ used' = [used EXCEPT !.open = TRUE]
    /\ UNCHANGED <<program, memory, fresh, saved, cloned, asSaved, fed>>

RetrieveOptions ==
    /\ fed = "not yet" /\ saved = NoHandler
    /\ \E r \in {retrieveoptions(program.stack, 1, used, memory)} :
         /\ memory' = r.heap /\ saved' = r.handler /\ asSaved' = used.set
         /\ fed' = IF r.handler = NoHandler THEN "nothing saved" ELSE fed
    /\ UNCHANGED <<program, used, fresh, cloned>>

CloneSaved ==
    /\ saved # NoHandler /\ cloned = NoHandler /\ fed = "not yet"
    /\ \E r \in {OptionHandler_Clone(saved, memory)} : memory' = r.heap /\ cloned' = r.handler
    /\ UNCHANGED <<program, used, fresh, saved, asSaved, fed>>

FeedOptions(handler) ==
    /\ handler # NoHandler /\ fed = "not yet"
    /\ \E m \in {OptionHandler_FeedOptions(handler, program.stack, 1, [ok |-> TRUE, heap |-> memory, io |-> fresh])} :
         /\ memory' = m.heap /\ fresh' = m.io
         /\ fed' = IF m.ok THEN "fed" ELSE "refused"
    /\ UNCHANGED <<program, used, saved, cloned, asSaved>>

DestroyHandlers ==
    /\ fed \in {"fed", "refused"} /\ saved # NoHandler
    /\ memory' = OptionHandler_Destroy(cloned, OptionHandler_Destroy(saved, memory))
    /\ saved' = NoHandler /\ cloned' = NoHandler
    /\ UNCHANGED <<program, used, fresh, asSaved, fed>>

OptionsNext ==
    \/ \E name \in program.names, v \in OptionValues : SetOption(name, v)
    \/ OpenUsed \/ RetrieveOptions \/ CloneSaved \/ FeedOptions(saved) \/ FeedOptions(cloned) \/ DestroyHandlers

-----------------------------------------------------------------------------
(* Properties.                                                              *)

\* What was set on a connection can be given to the one that replaces it: unless memory
\* runs out the options can be retrieved and are accepted, and whenever they are accepted
\* the new connection has every setting the old one had when they were retrieved (the handle that schannel makes of
\* certificate and key is no setting).
OptionsRestored ==
    /\ ~memory.short => fed \notin {"nothing saved", "refused"}
    /\ fed = "fed" => \A f \in Fields \ {"x509_handle"} : fresh.set[f] = asSaved[f]

RECURSIVE BlocksOf(_)
BlocksOf(handler) ==
    handler.blocks \cup UNION {LET o == handler.options[i] IN
        {o.nameBlock} \cup IF o.name = HandlerOption(handler.layer) THEN BlocksOf(o.value) ELSE {o.block} \ {0}
            : i \in DOMAIN handler.options}

Held ==
    BlocksOf(saved) \cup BlocksOf(cloned)
    \cup UNION {{io.block[f] : f \in Fields} \ {0} : io \in {used, fresh}}

\* Whichever allocation fails, nothing is left allocated that belongs neither to a connection
\* nor to a handler the client holds; and no block is freed twice, or while it is held, or
\* used for what it is not.  The second half has two exceptions, in which two hold the handler
\* of a layer below and each destroys it: optionhandler.c destroys the one that it could not
\* push, which the layer that made it then destroys itself, and a clone has the same one as the
\* handler that it is the clone of.
OptionsReleased ==
    /\ memory.live \subseteq Held
    /\ ~memory.twice => ~memory.fault /\ Held \subseteq memory.live

=============================================================================
