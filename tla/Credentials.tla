---------------------------- MODULE Credentials ----------------------------
(***************************************************************************)
(* What a connection needs of the TLS libraries before its handshake:      *)
(* adapters/x509_schannel.c, adapters/x509_openssl.c and what builds the   *)
(* OpenSSL objects in adapters/tlsio_openssl.c.  Each function acquires    *)
(* objects in an order, any call can fail, and each has its own list of    *)
(* what to give back for every place where that happens.  The functions    *)
(* are given the set of calls that fail.                                   *)
(***************************************************************************)
EXTENDS Naturals, Sequences, FiniteSets, SequencesExt

CONSTANTS
    MaxFailing      \* bound on the calls that fail in one operation

ASSUME CredentialsAssumption == MaxFailing \in Nat

VARIABLES
    x509_schannel,  \* the handle for certificate and key: its type, and what it knows it has
    crypto,         \* the objects of the Windows libraries that exist
    tlsInstance,    \* an instance of tlsio_openssl.c: its settings and what it points to
    openssl         \* the objects of OpenSSL that exist

credentialVars == <<x509_schannel, crypto, tlsInstance, openssl>>

\* what exists once a call of a sequence has failed, or all have succeeded
AcquiredBefore(calls, fails) ==
    {calls[i] : i \in {j \in DOMAIN calls : \A k \in 1 .. j : calls[k] \notin fails}}

-----------------------------------------------------------------------------
(* adapters/x509_schannel.c                                                 *)

NoX509 == [type |-> "none", has |-> {}]

\* the two conversions to binary and the decoding of the key, with what is freed when one fails
x509_binaries == <<"handle", "cert_binary", "key_binary", "key_blob">>
x509_given_back(fails) ==
    CASE "handle" \in fails -> {}
      [] "cert_binary" \in fails -> {"handle"}
      [] "key_binary" \in fails -> {"cert_binary", "handle"}
      [] OTHER -> {"cert_binary", "key_binary", "handle"}

\* slip: the provider is kept when the key cannot be imported
set_rsa_certificate_info_kept(fails) ==
    LET got == AcquiredBefore(<<"prov", "key">>, fails)
        ok == {"prov", "key", "property"} \cap fails = {}
    IN  [ok |-> ok, has |-> IF ok THEN got ELSE {}, exist |-> IF "key" \in fails THEN got ELSE IF ok THEN got ELSE {}]

\* the provider with the imported key stays with the handle
set_rsa_certificate_info(fails) ==
    LET got == AcquiredBefore(<<"prov", "key">>, fails)
        freed == CASE "prov" \in fails -> {}
                   [] "key" \in fails -> {"prov"}
                   [] "property" \in fails -> {"key", "prov"}
                   [] OTHER -> {}
    IN  [ok |-> {"prov", "key", "property"} \cap fails = {}, has |-> got \ freed, exist |-> got \ freed]

FreeOf == [key |-> "free_key", prov |-> "free_prov"]

\* The key goes into the provider under a name, so that neither has to stay; what cannot be
\* freed stays in the handle.
set_ecc_certificate_info(fails) ==
    LET got == AcquiredBefore(<<"ecc_blob", "prov", "key">>, fails)
        freed == {"ecc_blob"} \cup {o \in {"key", "prov"} : FreeOf[o] \notin fails}
    IN  [ok |-> {"ecc_blob", "prov", "key", "property"} \cap fails = {}, has |-> got \ freed, exist |-> got \ freed]

\* The binaries are only for the way; the certificate's context goes when the key fails.
x509_schannel_create(type, fails) ==
    LET got == AcquiredBefore(x509_binaries, fails)
        info == IF type = "RSA" THEN set_rsa_certificate_info(fails) ELSE set_ecc_certificate_info(fails)
        binaries == {"key_blob", "key_binary", "cert_binary"}
    IN  IF got # ToSet(x509_binaries) THEN [handle |-> NoX509, exist |-> got \ x509_given_back(fails)]
        ELSE IF "context" \in fails THEN [handle |-> NoX509, exist |-> (got \ {"handle"}) \ binaries]
        ELSE IF ~info.ok THEN [handle |-> NoX509, exist |-> ((got \cup info.exist) \ {"handle"}) \ binaries]
        ELSE [handle |-> [type |-> type, has |-> {"handle", "context"} \cup info.has],
              exist |-> (got \cup {"context"} \cup info.exist) \ binaries]

x509_schannel_destroy(x) ==
    CASE x.type = "RSA" -> {"key", "prov", "context", "handle"}
      [] OTHER -> (x.has \cap {"key", "prov"}) \cup {"context", "handle"}

-----------------------------------------------------------------------------
(* adapters/x509_openssl.c, on a context of OpenSSL                          *)

load_key_RSA(ctx, fails) ==
    [ok |-> {"rsa", "use_key"} \cap fails = {}, ctx |-> [ctx EXCEPT !.key = @ \/ {"rsa", "use_key"} \cap fails = {}]]
load_ecc_key(ctx, fails) == [ok |-> "use_key" \notin fails, ctx |-> [ctx EXCEPT !.key = @ \/ "use_key" \notin fails]]

\* the certificate, then those of the authorities above it
load_certificate_chain(ctx, fails) ==
    LET used == {"bio_cert", "read_cert", "use_cert"} \cap fails = {}
    IN  [ok |-> used /\ "add_chain" \notin fails, ctx |-> [ctx EXCEPT !.cert = @ \/ used]]

x509_openssl_add_credentials(ctx, keyType, fails) ==
    LET key == IF keyType = "RSA" THEN load_key_RSA(ctx, fails) ELSE load_ecc_key(ctx, fails)
    IN  IF {"bio_key", "read_key"} \cap fails # {} THEN [ok |-> FALSE, ctx |-> ctx]
        ELSE IF ~key.ok THEN key ELSE load_certificate_chain(key.ctx, fails)

\* trusted certificates, one after the other
add_certificate_to_store(ctx, fails) ==
    LET ok == {"store", "bio_mem", "bio_puts", "add_cert"} \cap fails = {}
    IN  [ok |-> ok, ctx |-> [ctx EXCEPT !.trusts = @ \/ ok]]

-----------------------------------------------------------------------------
(* The objects of an instance of tlsio_openssl.c                            *)

NoCtx == [key |-> FALSE, cert |-> FALSE, trusts |-> FALSE, verify |-> FALSE, sni |-> FALSE, host |-> "any"]

\* the host is checked as the address or as the name that it is
enable_domain_check(io, ctx, fails) ==
    IF io.ignore_host THEN [ok |-> TRUE, ctx |-> ctx]
    ELSE [ok |-> "host" \notin fails, ctx |-> [ctx EXCEPT !.host = IF io.ip THEN "ip" ELSE "name"]]

\* the objects of an instance in order, and what each failure gives back
ssl_calls == <<"ssl_context", "trusted", "credentials", "in_bio", "out_bio", "mem_eof", "ssl", "sni", "host">>
SslObjects == {"ssl_context", "in_bio", "out_bio", "ssl"}
ssl_given_back(call) ==
    CASE call = "ssl_context" -> {}
      [] call \in {"trusted", "credentials", "in_bio"} -> {"ssl_context"}
      [] call = "out_bio" -> {"in_bio", "ssl_context"}
      [] call \in {"mem_eof", "ssl"} -> {"in_bio", "out_bio", "ssl_context"}
      [] OTHER -> {"ssl", "in_bio", "out_bio", "ssl_context"}

\* load_system_store and setup_crl_check do not fail where the context exists, except that
\* Windows may have no system store.
create_openssl_instance(io, fails) ==
    LET trusted == IF io.trusted THEN add_certificate_to_store(NoCtx, fails) ELSE [ok |-> TRUE, ctx |-> NoCtx]
        creds == IF io.credentials THEN x509_openssl_add_credentials(trusted.ctx, io.keyType, fails)
                 ELSE [ok |-> TRUE, ctx |-> trusted.ctx]
        verified == [creds.ctx EXCEPT !.verify = TRUE, !.sni = ~io.ip]
        checked == enable_domain_check(io, verified, fails)
        failed == {c \in ToSet(ssl_calls) :
                     CASE c = "trusted" -> ~trusted.ok
                       [] c = "credentials" -> ~creds.ok
                       [] c = "sni" -> ~io.ip /\ "sni" \in fails
                       [] c = "host" -> ~checked.ok
                       [] OTHER -> c \in fails}
        got == AcquiredBefore(ssl_calls, failed) \cap SslObjects
        first == CHOOSE i \in DOMAIN ssl_calls : ssl_calls[i] \in failed /\ \A j \in 1 .. i - 1 : ssl_calls[j] \notin failed
    IN  IF failed = {} THEN [ok |-> TRUE, has |-> {"ssl_context", "ssl"}, exist |-> SslObjects, ctx |-> checked.ctx]
        ELSE [ok |-> FALSE, has |-> {}, exist |-> got \ ssl_given_back(ssl_calls[first]), ctx |-> NoCtx]

\* the SSL takes its BIOs along
close_openssl_instance(has) == has \cup IF "ssl" \in has THEN {"in_bio", "out_bio"} ELSE {}

-----------------------------------------------------------------------------

Failing == {"handle", "cert_binary", "key_binary", "key_blob", "context", "prov", "key", "property", "ecc_blob", "free_key",
            "free_prov"}
FailingSsl == {"ssl_context", "in_bio", "out_bio", "mem_eof", "ssl", "sni", "host", "rsa", "use_key", "bio_cert", "read_cert",
               "use_cert", "add_chain", "bio_key", "read_key", "store", "bio_mem", "bio_puts", "add_cert"}
\* at most MaxFailing of them
Few(calls) == {{}} \cup {{call[i] : i \in 1 .. MaxFailing} : call \in [1 .. MaxFailing -> calls]}

CredentialsInit ==
    /\ x509_schannel = NoX509 /\ crypto = {}
    /\ tlsInstance = [has |-> {}, ctx |-> NoCtx, trusted |-> FALSE, credentials |-> FALSE, keyType |-> "RSA",
                      ignore_host |-> FALSE, ip |-> FALSE]
    /\ openssl = {}

\* On Windows the handle is made when the second of certificate and key is set.
CreateX509(type, fails) ==
    LET r == x509_schannel_create(type, fails)
    IN  /\ x509_schannel = NoX509
        /\ x509_schannel' = r.handle /\ crypto' = crypto \cup r.exist
        /\ UNCHANGED <<tlsInstance, openssl>>

DestroyX509 ==
    /\ x509_schannel # NoX509
    /\ crypto' = crypto \ x509_schannel_destroy(x509_schannel)
    /\ x509_schannel' = NoX509
    /\ UNCHANGED <<tlsInstance, openssl>>

Configure(trusted, credentials, keyType, ignore, ip) ==
    /\ tlsInstance.has = {}
    /\ tlsInstance' = [tlsInstance EXCEPT !.trusted = trusted, !.credentials = credentials, !.keyType = keyType,
                                          !.ignore_host = ignore, !.ip = ip]
    /\ UNCHANGED <<x509_schannel, crypto, openssl>>

OpenTls(fails) ==
    LET r == create_openssl_instance(tlsInstance, fails)
    IN  /\ tlsInstance.has = {}
        /\ tlsInstance' = [tlsInstance EXCEPT !.has = r.has, !.ctx = r.ctx]
        /\ openssl' = openssl \cup r.exist
        /\ UNCHANGED <<x509_schannel, crypto>>

CloseTls ==
    /\ tlsInstance.has # {}
    /\ openssl' = openssl \ close_openssl_instance(tlsInstance.has)
    /\ tlsInstance' = [tlsInstance EXCEPT !.has = {}, !.ctx = NoCtx]
    /\ UNCHANGED <<x509_schannel, crypto>>

CredentialsNext ==
    \/ \E type \in {"RSA", "ECC"}, fails \in Few(Failing) : CreateX509(type, fails)
    \/ DestroyX509
    \/ \E keyType \in {"RSA", "ECC"}, trusted, credentials, ignore, ip \in BOOLEAN :
         Configure(trusted, credentials, keyType, ignore, ip)
    \/ \E fails \in Few(FailingSsl) : OpenTls(fails)
    \/ CloseTls

-----------------------------------------------------------------------------
(* Properties.                                                              *)

\* the handle has whatever exists
X509Released == crypto = x509_schannel.has

\* and so has the instance, whose context is as the settings were
TlsAsConfigured ==
    /\ openssl = close_openssl_instance(tlsInstance.has)
    /\ tlsInstance.has # {} =>
         LET ctx == tlsInstance.ctx
         IN  /\ ctx.verify
             /\ ctx.host = IF tlsInstance.ignore_host THEN "any" ELSE IF tlsInstance.ip THEN "ip" ELSE "name"
             /\ ctx.sni = ~tlsInstance.ip
             /\ ctx.key = tlsInstance.credentials /\ ctx.cert = tlsInstance.credentials
             /\ ctx.trusts = tlsInstance.trusted

\* Whichever call fails, the objects that exist are those that the handle and the instance
\* will free; an instance that has an SSL verifies the peer, checks the host as what it is
\* unless told not to, and has the credentials and the trusted certificates it was given.
CredentialsAsConfigured == X509Released /\ TlsAsConfigured

=============================================================================
