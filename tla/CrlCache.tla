------------------------------ MODULE CrlCache ------------------------------
(***************************************************************************)
(* The revocation lists of adapters/tlsio_openssl.c.  Threads that verify  *)
(* certificates share a cache in memory, guarded by a lock, and files in a *)
(* directory, guarded by nothing; what neither has is downloaded.  A list  *)
(* is an OpenSSL object with a count of references.                        *)
(***************************************************************************)
EXTENDS Naturals, Sequences, FiniteSets, FiniteSetsExt

CONSTANTS
    Verifiers,      \* the threads
    Certificates,   \* what they verify: the issuer, whether it is the subject too, and the URLs
                    \* of the distribution points of base and of delta lists
    IssuerAt,       \* the issuer of the list published at a URL
    GoesOn,         \* those whose connection has continue_on_crl_download_failure
    FileSlots,      \* how many files there may be for a URL (10 in the code)
    CacheGrowth,    \* by how many entries the cache grows (10 in the code)
    MaxLists,       \* bound on the lists made
    MaxNow,         \* bound on the time that passes
    MaxVerified     \* bound on the certificates verified

ASSUME CrlAssumption ==
    /\ IsFiniteSet(Verifiers) /\ "cache" \notin Verifiers
    /\ \A c \in Certificates : {c.points, c.freshest} \subseteq Seq(DOMAIN IssuerAt) /\ c.root \in BOOLEAN
    /\ {FileSlots, CacheGrowth, MaxLists} \subseteq Nat \ {0} /\ {MaxNow, MaxVerified} \subseteq Nat

VARIABLES
    now,
    crl,            \* the lists: what is in each, and how many references there are to it
    crl_cache,      \* entries with a list, 0 for none, and the URL it came from
    crl_files,      \* what is in the files of each URL, with the suffix of base or delta lists
    verifier,       \* what each thread is doing
    verified        \* how many certificates have been taken up

crlVars == <<now, crl, crl_cache, crl_files, verifier, verified>>

Urls == DOMAIN IssuerAt
NoFile == [issuer |-> "none", until |-> 0]
NoEntry == [crl |-> 0, dp_url |-> "none"]
IdleVerifier == [at |-> "idle", goOn |-> FALSE, cert |-> CHOOSE c \in Certificates : TRUE,
         todo |-> <<>>, suffix |-> "crl", slot |-> 0, crl |-> 0, found |-> 0, crls |-> <<>>, verdict |-> "none"]

CrlInit ==
    /\ now = 0
    /\ crl = <<>>
    /\ crl_cache = <<>>
    /\ crl_files = [f \in Urls \X {"crl", "crld"} |-> [n \in 1 .. FileSlots |-> NoFile]]
    /\ verifier = [t \in Verifiers |-> IdleVerifier]
    /\ verified = 0

-----------------------------------------------------------------------------

\* A list is valid before the time of the next one; files of lists are like lists.
crl_valid(list) == now < list.until

up_ref(lists, c) == [lists EXCEPT ![c].refs = @ + 1]
X509_CRL_free(lists, c) == IF c = 0 THEN lists ELSE [lists EXCEPT ![c].refs = @ - 1]

\* pointers to lists: whose they are, which of them, and the list
CachePointers ==
    {<<"cache", n, crl_cache[n].crl>> : n \in {m \in DOMAIN crl_cache : crl_cache[m].crl # 0}}
StackPointers(t, v) == {<<t, n, v.crls[n].crl>> : n \in DOMAIN v.crls}
To(pointers, c) == {p \in pointers : p[3] = c}

FreeAll(lists, pointers) ==
    [c \in DOMAIN lists |-> [lists[c] EXCEPT !.refs = @ - Cardinality(To(pointers, c))]]

\* get_dp_url: the first http URL of a distribution point, which a thread is looking at
Url(t) == Head(verifier[t].todo)
Files(t) == <<Url(t), verifier[t].suffix>>

\* the entries of the cache for a URL, and the first of them that is valid
EntriesFor(url) == {n \in DOMAIN crl_cache : crl_cache[n].crl # 0 /\ crl_cache[n].dp_url = url}
FirstValid(url) == LET valid == {n \in EntriesFor(url) : crl_valid(crl[crl_cache[n].crl])}
                   IN  IF valid = {} THEN 0 ELSE Min(valid)

\* a list goes to the stack that OpenSSL gets, and the next distribution point follows
Pushed(v, c, from) ==
    [v EXCEPT !.at = "dp", !.todo = Tail(@), !.slot = 0, !.crl = 0, !.found = 0,
              !.crls = Append(@, [crl |-> c, url |-> Head(v.todo), from |-> from, at |-> IF from = "file" THEN v.found ELSE now])]

\* Under the lock: outdated entries for the URL in front of the valid one are dropped.
load_cert_crl_memory(t) ==
    LET found == FirstValid(Url(t))
        outdated == {n \in EntriesFor(Url(t)) : ~crl_valid(crl[crl_cache[n].crl]) /\ (found = 0 \/ n < found)}
        freed == FreeAll(crl, {p \in CachePointers : p[2] \in outdated})
    IN  /\ verifier[t].at = "dp" /\ verifier[t].todo # <<>>
        /\ crl_cache' = [n \in DOMAIN crl_cache |-> IF n \in outdated THEN NoEntry ELSE crl_cache[n]]
        /\ crl' = IF found = 0 THEN freed ELSE up_ref(freed, crl_cache[found].crl)
        /\ verifier' = [verifier EXCEPT ![t] = IF found # 0 THEN Pushed(@, crl_cache[found].crl, "memory")
                                               ELSE [@ EXCEPT !.at = "file", !.slot = 1]]
        /\ UNCHANGED <<now, crl_files, verified>>

-----------------------------------------------------------------------------
(* load_cert_crl_file: each file is read, and removed when it is not valid  *)

\* load_crl: what the file holds becomes a list of the thread's own
load_crl(t) ==
    LET v == verifier[t]
        file == crl_files[Files(t)][v.slot]
    IN  /\ v.at = "file" /\ v.slot <= FileSlots
        /\ IF file = NoFile
           THEN verifier' = [verifier EXCEPT ![t].slot = @ + 1] /\ UNCHANGED crl
           ELSE /\ Len(crl) < MaxLists
                /\ crl' = Append(crl, [issuer |-> file.issuer, until |-> file.until, refs |-> 1])
                /\ verifier' = [verifier EXCEPT ![t].at = "read", ![t].crl = Len(crl) + 1]
        /\ UNCHANGED <<now, crl_cache, crl_files, verified>>

is_valid_crl(cert, list) == list.issuer = cert.issuer /\ crl_valid(list)

\* the file that is removed is the one that has the name by now
load_cert_crl_file(t) ==
    LET v == verifier[t]
        valid == is_valid_crl(v.cert, crl[v.crl])
    IN  /\ v.at = "read"
        /\ crl_files' = IF valid THEN crl_files ELSE [crl_files EXCEPT ![Files(t)][v.slot] = NoFile]
        /\ crl' = IF valid THEN crl ELSE X509_CRL_free(crl, v.crl)
        /\ verifier' = [verifier EXCEPT ![t] =
                          IF valid THEN [@ EXCEPT !.at = "keep_file", !.found = now]
                          ELSE [v EXCEPT !.at = "file", !.slot = @ + 1, !.crl = 0]]
        /\ UNCHANGED <<now, crl_cache, verified>>

\* load_cert_crl_http: what the server has may be outdated, and is not looked at
load_cert_crl_http(t, until) ==
    /\ verifier[t].at = "file" /\ verifier[t].slot > FileSlots
    /\ Len(crl) < MaxLists
    /\ crl' = Append(crl, [issuer |-> IssuerAt[Url(t)], until |-> until, refs |-> 1])
    /\ verifier' = [verifier EXCEPT ![t].at = "keep_download", ![t].crl = Len(crl) + 1]
    /\ UNCHANGED <<now, crl_cache, crl_files, verified>>

download_failed(t) ==
    /\ verifier[t].at = "file" /\ verifier[t].slot > FileSlots
    /\ verifier' = [verifier EXCEPT ![t].at = "dp", ![t].todo = Tail(@), ![t].slot = 0]
    /\ UNCHANGED <<now, crl, crl_cache, crl_files, verified>>

\* Where a list for a URL goes in the cache: in place of the one it has, else in the first
\* entry that is empty or outdated, else behind the others.
Entry(url) ==
    LET free == {n \in DOMAIN crl_cache : crl_cache[n].crl = 0 \/ ~crl_valid(crl[crl_cache[n].crl])}
    IN  IF EntriesFor(url) # {} THEN Min(EntriesFor(url))
        ELSE IF free # {} THEN Min(free) ELSE Len(crl_cache) + 1

\* slip: the cache keeps a list without a reference of its own
Stored_unreferenced(n, c, url) ==
    [cache |-> [i \in 1 .. IF n > Len(crl_cache) THEN Len(crl_cache) + CacheGrowth ELSE Len(crl_cache) |->
                  IF i = n THEN [crl |-> c, dp_url |-> url] ELSE IF i > Len(crl_cache) THEN NoEntry ELSE crl_cache[i]],
     lists |-> X509_CRL_free(crl, IF n > Len(crl_cache) THEN 0 ELSE crl_cache[n].crl)]

Stored(n, c, url) ==
    [cache |-> [i \in 1 .. IF n > Len(crl_cache) THEN Len(crl_cache) + CacheGrowth ELSE Len(crl_cache) |->
                  IF i = n THEN [crl |-> c, dp_url |-> url] ELSE IF i > Len(crl_cache) THEN NoEntry ELSE crl_cache[i]],
     lists |-> X509_CRL_free(up_ref(crl, c), IF n > Len(crl_cache) THEN 0 ELSE crl_cache[n].crl)]

\* Under the lock.  A file is written only for a list that is new to the cache; nothing is
\* stored when memory for the URL or for a larger cache cannot be had.
save_cert_crl_memory(t) ==
    LET v == verifier[t]
        stored == Stored(Entry(Url(t)), v.crl, Url(t))
        new == EntriesFor(Url(t)) = {}
    IN  /\ v.at \in {"keep_file", "keep_download"}
        /\ \/ /\ crl' = stored.lists /\ crl_cache' = stored.cache
              /\ verifier' = [verifier EXCEPT ![t] = IF v.at = "keep_file" THEN Pushed(@, v.crl, "file")
                                                     ELSE IF new THEN [@ EXCEPT !.at = "save", !.slot = 1]
                                                     ELSE Pushed(@, v.crl, "server")]
           \/ /\ UNCHANGED <<crl, crl_cache>>
              /\ verifier' = [verifier EXCEPT ![t] = Pushed(@, v.crl, IF v.at = "keep_file" THEN "file" ELSE "server")]
        /\ UNCHANGED <<now, crl_files, verified>>

\* save_crl: a file that exists is left alone, and looked at before it is opened; one that
\* cannot be opened counts as written
save_crl_access(t) ==
    LET v == verifier[t]
    IN  /\ v.at = "save"
        /\ verifier' = [verifier EXCEPT ![t] =
                          IF v.slot > FileSlots THEN Pushed(@, v.crl, "server")
                          ELSE IF crl_files[Files(t)][v.slot] # NoFile THEN [v EXCEPT !.slot = @ + 1]
                          ELSE [@ EXCEPT !.at = "write"]]
        /\ UNCHANGED <<now, crl, crl_cache, crl_files, verified>>

save_cert_crl_file(t) ==
    LET v == verifier[t]
        file == [issuer |-> crl[v.crl].issuer, until |-> crl[v.crl].until]
    IN  /\ v.at = "write"
        /\ crl_files' \in {crl_files, [crl_files EXCEPT ![Files(t)][v.slot] = file]}
        /\ verifier' = [verifier EXCEPT ![t] = Pushed(@, v.crl, "server")]
        /\ UNCHANGED <<now, crl, crl_cache, verified>>

-----------------------------------------------------------------------------
(* What OpenSSL calls                                                       *)

\* A connection's store looks for lists this way, and knows whether to go on without them.
\* (One with disable_crl_check, or whose parameters ask for checks already, looks for none.)
setup_crl_check(t) ==
    /\ verifier[t].at = "idle" /\ verified < MaxVerified
    /\ verifier' = [verifier EXCEPT ![t] = [IdleVerifier EXCEPT !.at = "ready", !.goOn = t \in GoesOn]]
    /\ UNCHANGED <<now, crl, crl_cache, crl_files, verified>>

\* Nobody looks for the lists of a certificate issued to its own issuer.
crls_http_cb(t, cert) ==
    /\ verifier[t].at = "ready"
    /\ verified < MaxVerified /\ verified' = verified + 1
    /\ verifier' = [verifier EXCEPT ![t] =
                      IF cert.root \/ cert.points = <<>> THEN [@ EXCEPT !.at = "answer", !.cert = cert]
                      ELSE [@ EXCEPT !.at = "dp", !.cert = cert, !.todo = cert.points]]
    /\ UNCHANGED <<now, crl, crl_cache, crl_files>>

\* load_crls_crldp is through with the distribution points; delta lists are looked for when
\* there is a base
load_crls_crldp_done(t) ==
    LET v == verifier[t]
    IN  /\ v.at = "dp" /\ v.todo = <<>>
        /\ verifier' = [verifier EXCEPT ![t] =
                          IF v.suffix = "crl" /\ v.crls # <<>> /\ v.cert.freshest # <<>>
                          THEN [@ EXCEPT !.suffix = "crld", !.todo = v.cert.freshest]
                          ELSE [@ EXCEPT !.at = "answer"]]
        /\ UNCHANGED <<now, crl, crl_cache, crl_files, verified>>

\* Without a list for it a certificate is an error, which check_cert_error_cb forgives a
\* root, and any other when it was told to go on.
check_cert_error_cb(v) ==
    IF \E i \in DOMAIN v.crls : crl[v.crls[i].crl].issuer = v.cert.issuer THEN "checked"
    ELSE IF v.cert.root \/ v.goOn THEN "forgiven" ELSE "refused"

\* OpenSSL is done with the lists, and frees them
verify_cert(t) ==
    LET v == verifier[t]
    IN  /\ v.at = "answer" /\ v.verdict = "none"
        /\ verifier' = [verifier EXCEPT ![t].verdict = check_cert_error_cb(v)]
        /\ UNCHANGED <<now, crl, crl_cache, crl_files, verified>>

sk_X509_CRL_pop_free(t) ==
    LET v == verifier[t]
    IN  /\ v.verdict # "none"
        /\ crl' = FreeAll(crl, StackPointers(t, v))
        /\ verifier' = [verifier EXCEPT ![t] = IdleVerifier]
        /\ UNCHANGED <<now, crl_cache, crl_files, verified>>

\* without the lock: tlsio_openssl_deinit is called when nobody is verifying any more
clear_crl_cache ==
    /\ \A t \in Verifiers : verifier[t].at = "idle"
    /\ crl' = FreeAll(crl, CachePointers)
    /\ crl_cache' = <<>>
    /\ UNCHANGED <<now, crl_files, verifier, verified>>

Tick == now < MaxNow /\ now' = now + 1 /\ UNCHANGED <<crl, crl_cache, crl_files, verifier, verified>>

CrlNext ==
    \/ Tick \/ clear_crl_cache
    \/ \E t \in Verifiers :
         \/ setup_crl_check(t)
         \/ \E cert \in Certificates : crls_http_cb(t, cert)
         \/ load_cert_crl_memory(t) \/ load_crl(t) \/ load_cert_crl_file(t)
         \/ \E until \in {now, now + 1} : load_cert_crl_http(t, until)
         \/ download_failed(t) \/ save_cert_crl_memory(t) \/ save_crl_access(t) \/ save_cert_crl_file(t)
         \/ load_crls_crldp_done(t) \/ verify_cert(t) \/ sk_X509_CRL_pop_free(t)

-----------------------------------------------------------------------------
(* Properties.                                                              *)

PointersOf(t, v) == StackPointers(t, v) \cup (IF v.crl = 0 THEN {} ELSE {<<t, 0, v.crl>>})
ListPointers == CachePointers \cup UNION {PointersOf(t, verifier[t]) : t \in Verifiers}

\* However threads interleave, a list has as many references as the cache, the threads and
\* the stacks they hand to OpenSSL have pointers to it: none is freed while it can be
\* reached, and none is left when nobody can.  What a thread is given for a distribution
\* point was published there, and what it did not download itself was valid when it was
\* found; a certificate that is nobody's root passes without a list only when its
\* connection was told to go on.
ListsAsAsked ==
    /\ \A c \in DOMAIN crl : crl[c].refs = Cardinality(To(ListPointers, c))
    /\ \A t \in Verifiers :
         LET v == verifier[t]
         IN  /\ \A i \in DOMAIN v.crls :
                  LET e == v.crls[i]
                  IN  /\ crl[e.crl].issuer = IssuerAt[e.url]
                      /\ e.from # "server" => e.at < crl[e.crl].until
             /\ v.verdict # "none" /\ ~v.cert.root /\ ~v.goOn
                  => (v.verdict = "refused" <=> \A i \in DOMAIN v.crls : IssuerAt[v.crls[i].url] # v.cert.issuer)

=============================================================================
