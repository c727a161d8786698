----------------------------- MODULE MCLibrary -----------------------------
(***************************************************************************)
(* Small instances of the library's objects.                               *)
(***************************************************************************)
EXTENDS Library

AllObjects == {"list", "dlist", "vector", "map", "headers", "buffer", "string", "shared", "gballoc", "sync", "options", "crl", "credentials", "sockets", "http",
               "conversion"}

TwoValues == {<<"v">>, <<"space", "w">>}

\* waits without a timeout on pthreads, and with one on either
Waiting == {<<"pthreads", FALSE>>, <<"pthreads", TRUE>>, <<"win32", TRUE>>}

\* Stacks, with options that each can save together, and the allocations each makes at most, when none fails.
Stack(stack, names, allocations) == [stack |-> stack, names |-> names, allocations |-> allocations]
SavableTogether ==
    {Stack(<<"wsio", "uws", "xio", "openssl", "xio", "berkeley">>, {"trusted", "tls_version", "mac"}, 39),
     Stack(<<"openssl", "xio", "berkeley">>, {"key", "ecc_cert", "tls_version"}, 36),
     Stack(<<"xio", "wolfssl", "xio", "berkeley">>, {"cert", "ecc_key"}, 20),
     Stack(<<"wolfssl", "xio", "win32">>, {"trusted", "key"}, 21),
     Stack(<<"schannel", "xio", "win32">>, {"cert", "key", "trusted"}, 22),
     Stack(<<"xio", "appleios">>, {"trusted", "cert"}, 17),
     Stack(<<"compact">>, {"ecc_cert", "ecc_key", "key"}, 21),
     Stack(<<"xio", "berkeley">>, {"mac", "tcp_nodelay"}, 15),
     Stack(<<"xio", "mbed">>, {"tcp_nodelay"}, 10)}

\* addresses that cannot be used or do not answer before one that does, or none
Resolved == {<<"connects">>, <<"invalid", "timeout", "connects", "connects">>, <<"no_socket", "refused">>}
FromInside == [win32 |-> {"open", "close", "send"}, mbed |-> {"send"}]
PartTaken == {<<"mbed", "send">>}

\* Requests with and without content, but for a GET with content.
Requests ==
    {[type |-> t[1], content |-> t[2], headers |-> t[3]] :
       t \in {<<"GET", <<>>, TRUE>>, <<"DELETE", <<>>, FALSE>>,
              <<"PATCH", <<"a", "b">>, TRUE>>}}
Responses == {[code |-> 200, pieces |-> <<"x", "y">>]}
\* A handle for credentials is made once in WinHTTP, a proxy is saved once, and one that
\* needs no name does not follow one that does.
HttpOptions ==
    LET both == {"curl", "winhttp"}
    IN  {[name |-> o[1], value |-> o[2], how |-> o[3], again |-> o[4]] :
           o \in {<<"TIMEOUT_MS", <<"9">>, "saved", both>>, <<"trusted", <<"ca">>, "saved", both>>,
                  <<"cert", <<"c1">>, "saved", {"curl"}>>, <<"key", <<"k1">>, "direct", {}>>, <<"key", <<"k2">>, "saved", {"curl"}>>,
                  <<"proxy", <<"p1", "a1">>, "saved", {}>>, <<"proxy", <<"p1", "a1">>, "direct", both>>,
                  <<"proxy", <<"p2", "a2">>, "direct", both>>, <<"proxy", <<"p3">>, "direct", {}>>}}
\* what the code does not recover from, or does not report
NotReported ==
    {<<"curl", "realloc_again">>, <<"curl", "build">>, <<"curl", "add">>,
     <<"winhttp", "short">>, <<"winhttp", "query">>, <<"winhttp", "line">>, <<"winhttp", "add">>}

PublishedBy == [u1 |-> "ca", u2 |-> "ca"]
ToVerify ==
    {[issuer |-> "ca", root |-> FALSE, points |-> <<"u1">>, freshest |-> <<"u2">>],
     [issuer |-> "other", root |-> FALSE, points |-> <<"u1">>, freshest |-> <<>>],
     [issuer |-> "ca", root |-> TRUE, points |-> <<"u1">>, freshest |-> <<>>]}

\* inputs of the conversions
AllKinds == {"bytes", "base64", "base32", "url", "utf8", "frame", "hash", "split", "connection", "host",
             "uuid", "sas", "number", "decimal", "copy"}

HashVersions == {"SHA1", "SHA224", "SHA256", "SHA384", "SHA512"}
BlockSizes == [SHA1 |-> 4, SHA224 |-> 4, SHA256 |-> 4, SHA384 |-> 6, SHA512 |-> 6]
HashSizes == [SHA1 |-> 2, SHA224 |-> 2, SHA256 |-> 3, SHA384 |-> 3, SHA512 |-> 4]

KindLetters ==
    [filler |-> {165}, bytes |-> Byte, base64 |-> {47, 61, 33}, base32 |-> {97, 55, 61},
     url |-> {37, 52, 49, 56, 97, 32},
     utf8 |-> {65, 128, 144, 160, 191, 193, 194, 224, 237, 240, 248}, frame |-> {0, 171},
     split |-> {"a", ",", ";"}, connection |-> {"k", "v", "=", ";"}, host |-> {"a", "."},
     uuid |-> {"-", "0", "f", "g"}, number |-> {"0", "1", "2", "7", "9", "f", "x"},
     decimal |-> {"0", "1", "5", ".", "e"}, copy |-> {"a", "b"}]
InputLengths ==
    [bytes |-> 6, base64 |-> 8, base32 |-> 8, url |-> 5, utf8 |-> 4, frame |-> 6, split |-> 6,
     connection |-> 7, host |-> 6, number |-> 4, decimal |-> 5, copy |-> 4]

\* signatures that hold no key of a field
Sas ==
    {[scope |-> scope, signature |-> signature, expiry |-> expiry, keyname |-> keyname] :
       scope \in {<<"h", "s">>, <<"s", "r", "h">>}, signature \in {<<"s", "i", "x", "=">>, <<"e", "e", "=">>},
       expiry \in {0, 9, 10, 99, 100}, keyname \in {<<>>, <<"s", "e">>, <<"9">>}}

=============================================================================
