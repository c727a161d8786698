---------------------------- MODULE ObjectProofs ----------------------------
(***************************************************************************)
(* Objects of the library used by themselves: the counted object of        *)
(* refcount.h, the credentials of TLS adapters, the revocation lists that  *)
(* verifying threads share, and the list of blocks of gballoc.c.           *)
(***************************************************************************)
EXTENDS Integers, Threads, Credentials, CrlCache, Gballoc, TLAPS, FiniteSetTheorems, WellFoundedInduction

-----------------------------------------------------------------------------
(* Shared contents.                                                         *)

Parts == {"content", "object"}

SharedTypes ==
    /\ source \in Nat /\ copied \in Nat
    /\ shared \in [alive: SUBSET Parts, content: Nat, count: Nat]
    /\ held \in [Sharers -> Nat]
    /\ freeing \in [Sharers -> SUBSET Parts]
    /\ IsFiniteSet(References)

\* Nobody frees the object and nothing is left of it, or one thread is freeing what is.
BeingFreed ==
    \/ shared.alive = {} /\ \A t \in Sharers : freeing[t] = {}
    \/ \E t \in Sharers : /\ freeing[t] = shared.alive /\ shared.alive \in {Parts, {"object"}}
                          /\ \A u \in Sharers \ {t} : freeing[u] = {}

InHands == shared.alive = Parts /\ shared.content = copied /\ \A t \in Sharers : freeing[t] = {}

SharedInv ==
    /\ SharedTypes
    /\ shared.count = Cardinality(References)
    /\ IF References = {} THEN BeingFreed ELSE InHands

\* the references of a thread are numbered from 1
LEMMA ReferenceOf ==
    ASSUME SharedTypes, NEW t \in Sharers, NEW n
    PROVE  <<t, n>> \in References <=> n \in 1 .. held[t]
BY DEF References, SharedTypes

LEMMA NoReferences ==
    ASSUME SharedTypes
    PROVE  References = {} <=> \A t \in Sharers : held[t] = 0
<1>1. \A t \in Sharers : held[t] \in Nat BY DEF SharedTypes
<1>2. ASSUME References = {}, NEW t \in Sharers PROVE held[t] = 0
  <2>1. ~(1 \in 1 .. held[t]) BY <1>2, ReferenceOf
  <2> QED BY <2>1, <1>1
<1>3. ASSUME \A t \in Sharers : held[t] = 0, NEW r \in References PROVE FALSE
  <2>1. PICK t \in Sharers : r \in {t} \X (1 .. held[t]) BY <1>3 DEF References
  <2>2. held[t] = 0 BY <1>3
  <2> QED BY <2>1, <2>2
<1> QED BY <1>2, <1>3

LEMMA SharedStart == SharedInit => SharedInv
<1> SUFFICES ASSUME SharedInit PROVE SharedInv OBVIOUS
<1>1. References = {} BY DEF SharedInit, References
<1>2. IsFiniteSet(References) /\ Cardinality(References) = 0 BY <1>1, FS_EmptySet
<1> QED BY <1>1, <1>2 DEF SharedInit, SharedInv, SharedTypes, BeingFreed, Parts

LEMMA ChangeKeeps == SharedInv /\ Change => SharedInv'
<1> SUFFICES ASSUME SharedInv, Change PROVE SharedInv' OBVIOUS
<1>1. References' = References BY DEF Change, References
<1>2. SharedTypes' BY <1>1 DEF SharedInv, SharedTypes, Change
<1> QED BY <1>1, <1>2 DEF SharedInv, Change, BeingFreed, InHands

LEMMA CreateKeeps == ASSUME NEW t \in Sharers, SharedInv, Create(t) PROVE SharedInv'
<1>1. References = {} BY DEF SharedInv, InHands, Create, Parts
<1>2. \A u \in Sharers : freeing[u] = {}
  BY <1>1 DEF SharedInv, BeingFreed, Create, Parts
<1>3. held' = [u \in Sharers |-> IF u = t THEN 1 ELSE 0]
  BY <1>1, NoReferences DEF SharedInv, SharedTypes, Create
<1>4. References' = {<<t, 1>>}
  BY <1>3 DEF References
<1>5. IsFiniteSet(References') /\ Cardinality(References') = 1 BY <1>4, FS_Singleton
<1>6. SharedTypes' BY <1>3, <1>5 DEF SharedInv, SharedTypes, Create, Parts
<1> QED BY <1>2, <1>4, <1>5, <1>6 DEF SharedInv, InHands, Create, Parts

LEMMA CloneKeeps == ASSUME NEW t \in Sharers, NEW u \in Sharers, SharedInv, Clone(t, u) PROVE SharedInv'
<1>1. References # {} /\ InHands
  BY NoReferences DEF SharedInv, SharedTypes, Clone
<1>2. References' = References \cup {<<u, held[u] + 1>>}
  BY DEF References, Clone, SharedInv, SharedTypes
<1>3. <<u, held[u] + 1>> \notin References
  BY ReferenceOf DEF SharedInv, SharedTypes
<1>4. IsFiniteSet(References') /\ Cardinality(References') = Cardinality(References) + 1
  BY <1>2, <1>3, FS_AddElement DEF SharedInv, SharedTypes
<1>5. SharedTypes' BY <1>4 DEF SharedInv, SharedTypes, Clone
<1> QED BY <1>1, <1>2, <1>4, <1>5 DEF SharedInv, SharedTypes, InHands, Clone

LEMMA DestroyKeeps == ASSUME NEW t \in Sharers, SharedInv, Destroy(t) PROVE SharedInv'
<1>1. References # {} /\ InHands
  BY NoReferences DEF SharedInv, SharedTypes, Destroy
<1>2. References' = References \ {<<t, held[t]>>}
  BY DEF References, Destroy, SharedInv, SharedTypes
<1>3. <<t, held[t]>> \in References
  BY ReferenceOf DEF SharedInv, SharedTypes, Destroy
<1>4. IsFiniteSet(References') /\ Cardinality(References') = Cardinality(References) - 1
  BY <1>2, <1>3, FS_RemoveElement DEF SharedInv, SharedTypes
<1>5. Cardinality(References) \in Nat /\ Cardinality(References') \in Nat
  BY <1>4, FS_CardinalityType DEF SharedInv, SharedTypes
<1>6. shared.count = 1 <=> References' = {}
  BY <1>4, <1>5, FS_EmptySet DEF SharedInv
<1>7. SharedTypes' BY <1>4, <1>5 DEF SharedInv, SharedTypes, Destroy, Parts
<1>8. CASE shared.count = 1
  <2>1. freeing'[t] = Parts /\ shared'.alive = Parts /\ \A u \in Sharers \ {t} : freeing'[u] = {}
    BY <1>1, <1>8 DEF InHands, Destroy, Parts, SharedInv, SharedTypes
  <2> QED BY <2>1, <1>4, <1>5, <1>6, <1>7, <1>8 DEF SharedInv, SharedTypes, BeingFreed, Destroy
<1>9. CASE shared.count # 1
  <2>1. freeing' = freeing
    BY <1>9 DEF Destroy, SharedInv, SharedTypes
  <2> QED BY <2>1, <1>1, <1>4, <1>5, <1>6, <1>7, <1>9 DEF SharedInv, SharedTypes, InHands, Destroy
<1> QED BY <1>8, <1>9

LEMMA FreePartKeeps == ASSUME NEW t \in Sharers, SharedInv, FreePart(t) PROVE SharedInv'
<1>1. References' = References BY DEF References, FreePart
<1>2. References = {} /\ BeingFreed BY DEF SharedInv, InHands, FreePart
<1>3. freeing[t] = shared.alive /\ shared.alive \in {Parts, {"object"}} /\ \A u \in Sharers \ {t} : freeing[u] = {}
  BY <1>2 DEF BeingFreed, FreePart
<1>4. SharedTypes' BY <1>1 DEF SharedInv, SharedTypes, FreePart
<1>5. shared'.alive = freeing'[t] /\ shared'.alive \in {{}, {"object"}} /\ \A u \in Sharers \ {t} : freeing'[u] = {}
  BY <1>3 DEF FreePart, SharedInv, SharedTypes, Parts
<1>6. BeingFreed'
  BY <1>5 DEF BeingFreed
<1> QED BY <1>1, <1>2, <1>4, <1>6 DEF SharedInv, SharedTypes, FreePart

LEMMA SharedImplies == SharedInv => SharedWhileHeld
<1> SUFFICES ASSUME SharedInv PROVE SharedWhileHeld OBVIOUS
<1> DEFINE busy == {t \in Sharers : freeing[t] # {}}
<1>1. Cardinality(References) \in Nat /\ (Cardinality(References) = 0 <=> References = {})
  BY FS_CardinalityType, FS_EmptySet DEF SharedInv, SharedTypes
<1>2. Cardinality(busy) <= 1
  <2>1. CASE busy = {} BY <2>1, FS_EmptySet
  <2>2. CASE busy # {}
    <3>1. PICK t \in busy : TRUE BY <2>2
    <3>2. References = {} /\ BeingFreed BY <3>1 DEF SharedInv, InHands
    <3>3. busy = {t} BY <3>1, <3>2 DEF BeingFreed
    <3> QED BY <3>3, FS_Singleton
  <2> QED BY <2>1, <2>2
<1>3. AllHeld > 0 => GetContent = copied
  BY <1>1 DEF AllHeld, SharedInv, InHands, GetContent, Parts
<1>4. AllHeld = 0 /\ (\A t \in Sharers : freeing[t] = {}) => shared.alive = {}
  BY <1>1 DEF AllHeld, SharedInv, BeingFreed, Parts
<1> QED BY <1>2, <1>3, <1>4 DEF SharedWhileHeld

\* The count of refcount.h is that of the references that threads own, so that whoever
\* owns one finds the contents that were copied, and the last one to go, alone, frees them.
THEOREM SharedContentsLive == SharedInit /\ [][SharedNext]_sharedVars => []SharedWhileHeld
<1>1. SharedInit => SharedInv BY SharedStart
<1>2. SharedInv /\ [SharedNext]_sharedVars => SharedInv'
  <2> SUFFICES ASSUME SharedInv, [SharedNext]_sharedVars PROVE SharedInv' OBVIOUS
  <2>1. CASE UNCHANGED sharedVars
    <3>1. References' = References BY <2>1 DEF References, sharedVars
    <3> QED BY <2>1, <3>1 DEF SharedInv, SharedTypes, BeingFreed, InHands, sharedVars
  <2>2. CASE SharedNext
    BY <2>2, ChangeKeeps, CreateKeeps, DestroyKeeps, FreePartKeeps, CloneKeeps DEF SharedNext
  <2> QED BY <2>1, <2>2
<1>3. SharedInv => SharedWhileHeld BY SharedImplies
<1> QED BY <1>1, <1>2, <1>3, PTL

-----------------------------------------------------------------------------
(* Credentials: the handle of x509_schannel.c.                              *)

X509Objects == {"handle", "context", "prov", "key"}

X509Inv ==
    /\ crypto = x509_schannel.has
    /\ \/ x509_schannel = NoX509
       \/ x509_schannel = [type |-> "RSA", has |-> X509Objects]
       \/ \E has \in SUBSET X509Objects : /\ {"handle", "context"} \subseteq has
                                          /\ x509_schannel = [type |-> "ECC", has |-> has]

LEMMA Acquired ==
    ASSUME NEW calls, NEW fails, NEW o
    PROVE  o \in AcquiredBefore(calls, fails)
             <=> \E i \in DOMAIN calls : calls[i] = o /\ \A k \in 1 .. i : calls[k] \notin fails
BY DEF AcquiredBefore

LEMMA BinariesAcquired ==
    ASSUME NEW fails
    PROVE  LET got == AcquiredBefore(x509_binaries, fails)
           IN  /\ got = ToSet(x509_binaries) <=> x509_given_back(fails) = {"cert_binary", "key_binary", "handle"}
                                                  /\ "key_blob" \notin fails
               /\ got # ToSet(x509_binaries) => got \ x509_given_back(fails) = {}
               /\ ToSet(x509_binaries) = {"handle", "cert_binary", "key_binary", "key_blob"}
<1> DEFINE got == AcquiredBefore(x509_binaries, fails)
<1>1. /\ DOMAIN x509_binaries = 1 .. 4
      /\ x509_binaries[1] = "handle" /\ x509_binaries[2] = "cert_binary"
      /\ x509_binaries[3] = "key_binary" /\ x509_binaries[4] = "key_blob"
  BY DEF x509_binaries
<1>2. ToSet(x509_binaries) = {"handle", "cert_binary", "key_binary", "key_blob"}
  BY <1>1 DEF ToSet
<1>3. \A o : o \in got <=> \E i \in 1 .. 4 : x509_binaries[i] = o /\ \A k \in 1 .. i : x509_binaries[k] \notin fails
  BY <1>1, Acquired
<1>4. /\ "handle" \in got <=> "handle" \notin fails
      /\ "cert_binary" \in got <=> {"handle", "cert_binary"} \cap fails = {}
      /\ "key_binary" \in got <=> {"handle", "cert_binary", "key_binary"} \cap fails = {}
      /\ "key_blob" \in got <=> {"handle", "cert_binary", "key_binary", "key_blob"} \cap fails = {}
      /\ got \subseteq {"handle", "cert_binary", "key_binary", "key_blob"}
  BY <1>1, <1>3
<1> QED BY <1>2, <1>4 DEF x509_given_back

\* what the two ways to use the key leave behind
LEMMA RsaLeft ==
    ASSUME NEW fails
    PROVE  LET r == set_rsa_certificate_info(fails)
           IN  /\ r.exist = r.has
               /\ r.ok => r.has = {"prov", "key"}
               /\ ~r.ok => r.exist = {}
<1> DEFINE calls == <<"prov", "key">>
           got == AcquiredBefore(calls, fails)
<1>1. DOMAIN calls = 1 .. 2 /\ calls[1] = "prov" /\ calls[2] = "key" OBVIOUS
<1>2. \A o : o \in got <=> \E i \in 1 .. 2 : calls[i] = o /\ \A k \in 1 .. i : calls[k] \notin fails
  BY <1>1, Acquired
<1>3. got = IF "prov" \in fails THEN {} ELSE IF "key" \in fails THEN {"prov"} ELSE {"prov", "key"}
  BY <1>1, <1>2
<1> HIDE DEF got, calls
<1> QED BY <1>3 DEF set_rsa_certificate_info, got, calls

AtMostOne(fails) == \A a, b \in fails : a = b

LEMMA EccLeft ==
    ASSUME NEW fails, AtMostOne(fails)
    PROVE  LET r == set_ecc_certificate_info(fails)
           IN  /\ r.exist = r.has /\ r.has \subseteq {"prov", "key"}
               /\ ~r.ok => r.exist = {}
<1> DEFINE calls == <<"ecc_blob", "prov", "key">>
           got == AcquiredBefore(calls, fails)
           freed == {"ecc_blob"} \cup {o \in {"key", "prov"} : FreeOf[o] \notin fails}
<1>1. DOMAIN calls = 1 .. 3 /\ calls[1] = "ecc_blob" /\ calls[2] = "prov" /\ calls[3] = "key" OBVIOUS
<1>2. \A o : o \in got => \E i \in 1 .. 3 : calls[i] = o
  BY <1>1, Acquired
<1>3. got \subseteq {"ecc_blob", "prov", "key"}
  BY <1>1, <1>2
<1>4. {"ecc_blob", "prov", "key", "property"} \cap fails # {} => freed = {"ecc_blob", "key", "prov"}
  BY DEF AtMostOne, FreeOf
<1> DEFINE succeeds == {"ecc_blob", "prov", "key", "property"} \cap fails = {}
<1>5. set_ecc_certificate_info(fails) = [ok |-> succeeds, has |-> got \ freed, exist |-> got \ freed]
  BY DEF set_ecc_certificate_info
<1> HIDE DEF got, calls
<1>6. got \ freed \subseteq {"prov", "key"} BY <1>3
<1> HIDE DEF freed
<1>7. {"ecc_blob", "prov", "key", "property"} \cap fails # {} => got \ freed = {} BY <1>3, <1>4
<1> DEFINE r == set_ecc_certificate_info(fails)
<1>8. r.exist = got \ freed /\ r.has = got \ freed BY <1>5
<1>9. r.ok = succeeds
  <2> HIDE DEF succeeds, got, freed
  <2> QED BY <1>5 DEF r
<1> HIDE DEF r
<1>10. /\ r.exist = r.has /\ r.has \subseteq {"prov", "key"}
       /\ ~r.ok => r.exist = {}
  BY <1>6, <1>7, <1>8, <1>9
<1> QED BY <1>10 DEF r

LEMMA X509Created ==
    ASSUME NEW type \in {"RSA", "ECC"}, NEW fails, AtMostOne(fails)
    PROVE  LET r == x509_schannel_create(type, fails)
           IN  /\ r.exist = r.handle.has
               /\ \/ r.handle = NoX509
                  \/ r.handle = [type |-> "RSA", has |-> X509Objects]
                  \/ \E has \in SUBSET X509Objects : /\ {"handle", "context"} \subseteq has
                                                     /\ r.handle = [type |-> "ECC", has |-> has]
<1> DEFINE got == AcquiredBefore(x509_binaries, fails)
           all == {"handle", "cert_binary", "key_binary", "key_blob"}
           info == IF type = "RSA" THEN set_rsa_certificate_info(fails) ELSE set_ecc_certificate_info(fails)
           binaries == {"key_blob", "key_binary", "cert_binary"}
           r == x509_schannel_create(type, fails)
<1>1. ToSet(x509_binaries) = all /\ (got # all => got \ x509_given_back(fails) = {})
  BY BinariesAcquired
<1>2. /\ info.exist = info.has /\ info.has \subseteq {"prov", "key"}
      /\ ~info.ok => info.exist = {}
      /\ type = "RSA" /\ info.ok => info.has = {"prov", "key"}
  <2>1. CASE type = "RSA" BY <2>1, RsaLeft
  <2>2. CASE type = "ECC" BY <2>2, EccLeft
  <2> QED BY <2>1, <2>2
<1>3. r = IF got # all THEN [handle |-> NoX509, exist |-> got \ x509_given_back(fails)]
          ELSE IF "context" \in fails THEN [handle |-> NoX509, exist |-> (got \ {"handle"}) \ binaries]
          ELSE IF ~info.ok THEN [handle |-> NoX509, exist |-> ((got \cup info.exist) \ {"handle"}) \ binaries]
          ELSE [handle |-> [type |-> type, has |-> {"handle", "context"} \cup info.has],
                exist |-> (got \cup {"context"} \cup info.exist) \ binaries]
  BY <1>1 DEF x509_schannel_create
<1> HIDE DEF got, info, r
<1>0. NoX509.has = {} BY DEF NoX509
<1>4. CASE got # all
  <2>1. r = [handle |-> NoX509, exist |-> {}] BY <1>1, <1>3, <1>4
  <2> QED BY <2>1, <1>0 DEF r
<1>5. CASE got = all /\ "context" \in fails
  <2>1. (got \ {"handle"}) \ binaries = {} BY <1>5
  <2>2. r = [handle |-> NoX509, exist |-> {}] BY <1>3, <1>5, <2>1
  <2> QED BY <2>2, <1>0 DEF r
<1>6. CASE got = all /\ "context" \notin fails /\ ~info.ok
  <2>1. ((got \cup info.exist) \ {"handle"}) \ binaries = {} BY <1>2, <1>6
  <2>2. r = [handle |-> NoX509, exist |-> {}] BY <1>3, <1>6, <2>1
  <2> QED BY <2>2, <1>0 DEF r
<1>7. CASE got = all /\ "context" \notin fails /\ info.ok
  <2>1. r.handle = [type |-> type, has |-> {"handle", "context"} \cup info.has] /\ r.exist = {"handle", "context"} \cup info.has
    BY <1>2, <1>3, <1>7
  <2>2. CASE type = "RSA"
    <3>1. {"handle", "context"} \cup info.has = X509Objects BY <1>2, <1>7, <2>2 DEF X509Objects
    <3> QED BY <2>1, <2>2, <3>1 DEF r
  <2>3. CASE type = "ECC"
    <3>1. {"handle", "context"} \cup info.has \in SUBSET X509Objects BY <1>2 DEF X509Objects
    <3> QED BY <2>1, <2>3, <3>1 DEF r
  <2> QED BY <2>2, <2>3
<1> QED BY <1>4, <1>5, <1>6, <1>7 DEF r

LEMMA CreateX509Keeps ==
    ASSUME NEW type \in {"RSA", "ECC"}, NEW fails, AtMostOne(fails), X509Inv, CreateX509(type, fails)
    PROVE  X509Inv'
BY X509Created DEF CreateX509, X509Inv, NoX509

LEMMA DestroyX509Keeps == X509Inv /\ DestroyX509 => X509Inv'
<1> SUFFICES ASSUME X509Inv, DestroyX509 PROVE X509Inv' OBVIOUS
<1>1. x509_schannel_destroy(x509_schannel) = x509_schannel.has
  BY DEF X509Inv, DestroyX509, x509_schannel_destroy, X509Objects
<1> QED BY <1>1 DEF X509Inv, DestroyX509, NoX509

LEMMA FewIsOne ==
    ASSUME MaxFailing <= 1, NEW fails \in Few(Failing)
    PROVE  AtMostOne(fails)
<1>1. SUFFICES ASSUME NEW call \in [1 .. MaxFailing -> Failing], fails = {call[i] : i \in 1 .. MaxFailing}
               PROVE  AtMostOne(fails)
  BY DEF Few, AtMostOne
<1>2. \A i, j \in 1 .. MaxFailing : i = j BY CredentialsAssumption
<1> QED BY <1>1, <1>2 DEF AtMostOne

-----------------------------------------------------------------------------
(* Credentials: the objects of OpenSSL.                                     *)

Settings(io) ==
    /\ io.trusted \in BOOLEAN /\ io.credentials \in BOOLEAN /\ io.ignore_host \in BOOLEAN /\ io.ip \in BOOLEAN
    /\ io.keyType \in {"RSA", "ECC"}

CtxType == [key: BOOLEAN, cert: BOOLEAN, trusts: BOOLEAN, verify: BOOLEAN, sni: BOOLEAN, host: {"any", "ip", "name"}]

\* what is in a context
Has(c, key, trusts, verify, sni, host) ==
    c.key = key /\ c.cert = key /\ c.trusts = trusts /\ c.verify = verify /\ c.sni = sni /\ c.host = host

LEMMA StoreTrusts ==
    ASSUME NEW fails, NEW ctx \in CtxType
    PROVE  LET r == add_certificate_to_store(ctx, fails)
           IN  /\ r.ctx \in CtxType /\ r.ok \in BOOLEAN
               /\ r.ok => r.ctx = [ctx EXCEPT !.trusts = TRUE]
BY DEF add_certificate_to_store, CtxType

LEMMA CredentialsAdded ==
    ASSUME NEW fails, NEW ctx \in CtxType, NEW keyType \in {"RSA", "ECC"}
    PROVE  LET r == x509_openssl_add_credentials(ctx, keyType, fails)
           IN  /\ r.ctx \in CtxType /\ r.ok \in BOOLEAN
               /\ r.ok => r.ctx = [ctx EXCEPT !.key = TRUE, !.cert = TRUE]
BY DEF x509_openssl_add_credentials, load_key_RSA, load_ecc_key, load_certificate_chain, CtxType

LEMMA DomainChecked ==
    ASSUME NEW fails, NEW ctx \in CtxType, NEW io, Settings(io)
    PROVE  LET r == enable_domain_check(io, ctx, fails)
           IN  /\ r.ctx \in CtxType /\ r.ok \in BOOLEAN
               /\ ~io.ignore_host => r.ctx = [ctx EXCEPT !.host = IF io.ip THEN "ip" ELSE "name"]
BY DEF enable_domain_check, CtxType, Settings

LEMMA SslCalls ==
    /\ DOMAIN ssl_calls = 1 .. 9
    /\ ssl_calls[1] = "ssl_context" /\ ssl_calls[2] = "trusted" /\ ssl_calls[3] = "credentials"
    /\ ssl_calls[4] = "in_bio" /\ ssl_calls[5] = "out_bio" /\ ssl_calls[6] = "mem_eof"
    /\ ssl_calls[7] = "ssl" /\ ssl_calls[8] = "sni" /\ ssl_calls[9] = "host"
BY DEF ssl_calls

\* the first call that fails
LEMMA FirstFailed ==
    ASSUME NEW failed, failed # {}, failed \subseteq ToSet(ssl_calls)
    PROVE  \E i \in DOMAIN ssl_calls : ssl_calls[i] \in failed /\ \A j \in 1 .. i - 1 : ssl_calls[j] \notin failed
<1>1. PICK n \in 1 .. 9 : ssl_calls[n] \in failed BY SslCalls DEF ToSet
<1> DEFINE bad(i) == ssl_calls[i] \in failed
<1>2. \E i \in 1 .. 9 : bad(i) /\ \A j \in 1 .. 9 : j < i => ~bad(j)
  <2>1. bad(1) \/ bad(2) \/ bad(3) \/ bad(4) \/ bad(5) \/ bad(6) \/ bad(7) \/ bad(8) \/ bad(9) BY <1>1
  <2> HIDE DEF bad
  <2> QED BY <2>1
<1> QED BY <1>2, SslCalls

\* what was acquired before it is what is given back
LEMMA AllGivenBack ==
    ASSUME NEW failed, NEW i \in 1 .. 9, ssl_calls[i] \in failed
    PROVE  (AcquiredBefore(ssl_calls, failed) \cap SslObjects) \ ssl_given_back(ssl_calls[i]) = {}
<1> SUFFICES ASSUME NEW o \in AcquiredBefore(ssl_calls, failed) \cap SslObjects
             PROVE  o \in ssl_given_back(ssl_calls[i])
  OBVIOUS
<1>1. PICK n \in 1 .. 9 : ssl_calls[n] = o /\ \A k \in 1 .. n : ssl_calls[k] \notin failed BY Acquired, SslCalls
<1>2. n < i BY <1>1
<1> QED BY <1>1, <1>2, SslCalls DEF ssl_given_back, SslObjects

LEMMA InstanceCreated ==
    ASSUME NEW io, Settings(io), NEW fails
    PROVE  LET r == create_openssl_instance(io, fails)
           IN  \/ r.has = {} /\ r.exist = {}
               \/ /\ r.has = {"ssl_context", "ssl"} /\ r.exist = SslObjects
                  /\ Has(r.ctx, io.credentials, io.trusted, TRUE, ~io.ip,
                         IF io.ignore_host THEN "any" ELSE IF io.ip THEN "ip" ELSE "name")
<1> DEFINE trusted == IF io.trusted THEN add_certificate_to_store(NoCtx, fails) ELSE [ok |-> TRUE, ctx |-> NoCtx]
           creds == IF io.credentials THEN x509_openssl_add_credentials(trusted.ctx, io.keyType, fails)
                    ELSE [ok |-> TRUE, ctx |-> trusted.ctx]
           peerChecked == [creds.ctx EXCEPT !.verify = TRUE, !.sni = ~io.ip]
           checked == enable_domain_check(io, peerChecked, fails)
           failed == {c \in ToSet(ssl_calls) :
                        CASE c = "trusted" -> ~trusted.ok
                          [] c = "credentials" -> ~creds.ok
                          [] c = "sni" -> ~io.ip /\ "sni" \in fails
                          [] c = "host" -> ~checked.ok
                          [] OTHER -> c \in fails}
           got == AcquiredBefore(ssl_calls, failed) \cap SslObjects
           first == CHOOSE i \in DOMAIN ssl_calls : ssl_calls[i] \in failed /\ \A j \in 1 .. i - 1 : ssl_calls[j] \notin failed
           r == create_openssl_instance(io, fails)
<1>1. r = IF failed = {} THEN [ok |-> TRUE, has |-> {"ssl_context", "ssl"}, exist |-> SslObjects, ctx |-> checked.ctx]
          ELSE [ok |-> FALSE, has |-> {}, exist |-> got \ ssl_given_back(ssl_calls[first]), ctx |-> NoCtx]
  BY DEF create_openssl_instance
<1>2. NoCtx \in CtxType BY DEF NoCtx, CtxType
<1>3. /\ trusted.ctx \in CtxType /\ trusted.ok \in BOOLEAN
      /\ trusted.ok => Has(trusted.ctx, FALSE, io.trusted, FALSE, FALSE, "any")
  <2>1. CASE io.trusted = TRUE
    <3>1. trusted = add_certificate_to_store(NoCtx, fails) BY <2>1
    <3>2. /\ trusted.ctx \in CtxType /\ trusted.ok \in BOOLEAN
          /\ trusted.ok => trusted.ctx = [NoCtx EXCEPT !.trusts = TRUE]
      BY <3>1, <1>2, StoreTrusts
    <3> HIDE DEF trusted
    <3> QED BY <2>1, <3>2 DEF NoCtx, Has
  <2>2. CASE io.trusted = FALSE
    <3>1. Has(NoCtx, FALSE, FALSE, FALSE, FALSE, "any") BY DEF NoCtx, Has
    <3>2. trusted = [ok |-> TRUE, ctx |-> NoCtx] BY <2>2
    <3> HIDE DEF trusted
    <3>3. trusted.ctx = NoCtx /\ trusted.ok = TRUE BY <3>2
    <3> QED BY <2>2, <3>1, <3>3, <1>2
  <2> QED BY <2>1, <2>2 DEF Settings
<1>4. /\ creds.ctx \in CtxType /\ creds.ok \in BOOLEAN
      /\ trusted.ok /\ creds.ok => Has(creds.ctx, io.credentials, io.trusted, FALSE, FALSE, "any")
  <2> HIDE DEF trusted
  <2>1. CASE io.credentials = TRUE
    <3>1. io.keyType \in {"RSA", "ECC"} BY DEF Settings
    <3>2. creds = x509_openssl_add_credentials(trusted.ctx, io.keyType, fails) BY <2>1
    <3>3. creds.ok => creds.ctx = [trusted.ctx EXCEPT !.key = TRUE, !.cert = TRUE]
      BY <3>1, <3>2, <1>3, CredentialsAdded
    <3>4. creds.ctx \in CtxType /\ creds.ok \in BOOLEAN BY <3>1, <3>2, <1>3, CredentialsAdded
    <3> HIDE DEF creds
    <3> QED BY <2>1, <3>3, <3>4, <1>3 DEF Has, CtxType
  <2>2. CASE io.credentials = FALSE
    <3>1. creds = [ok |-> TRUE, ctx |-> trusted.ctx] BY <2>2
    <3>2. creds.ctx = trusted.ctx /\ creds.ok = TRUE BY <3>1
    <3> HIDE DEF creds
    <3> QED BY <2>2, <3>2, <1>3
  <2> QED BY <2>1, <2>2 DEF Settings
<1> HIDE DEF trusted, creds
<1>5. /\ peerChecked \in CtxType
      /\ trusted.ok /\ creds.ok => Has(peerChecked, io.credentials, io.trusted, TRUE, ~io.ip, "any")
  BY <1>4 DEF CtxType, Settings, Has
<1> HIDE DEF peerChecked
<1>6. /\ trusted.ok /\ creds.ok
           => Has(checked.ctx, io.credentials, io.trusted, TRUE, ~io.ip,
                                IF io.ignore_host THEN "any" ELSE IF io.ip THEN "ip" ELSE "name")
  <2>1. CASE io.ignore_host = TRUE
    <3>1. checked.ctx = peerChecked BY <2>1 DEF enable_domain_check
    <3> HIDE DEF checked
    <3> QED BY <2>1, <3>1, <1>5
  <2>2. CASE io.ignore_host = FALSE
    <3>1. checked.ctx = [peerChecked EXCEPT !.host = IF io.ip THEN "ip" ELSE "name"] BY <2>2, <1>5, DomainChecked
    <3> HIDE DEF checked
    <3> QED BY <2>2, <3>1, <1>5 DEF Has, CtxType
  <2> QED BY <2>1, <2>2 DEF Settings
<1> HIDE DEF checked
<1>7. CASE failed = {}
  <2>1. trusted.ok /\ creds.ok
    <3>1. "trusted" \in ToSet(ssl_calls) /\ "credentials" \in ToSet(ssl_calls) BY SslCalls DEF ToSet
    <3> QED BY <3>1, <1>7
  <2>2. /\ r.has = {"ssl_context", "ssl"} /\ r.exist = SslObjects /\ r.ctx = checked.ctx
    BY <1>1, <1>7
  <2> HIDE DEF r, failed
  <2> QED BY <2>1, <2>2, <1>6 DEF r
<1>8. CASE failed # {}
  <2> HIDE DEF failed
  <2>1. failed \subseteq ToSet(ssl_calls) BY DEF failed
  <2>2. first \in 1 .. 9 /\ ssl_calls[first] \in failed BY <2>1, <1>8, FirstFailed, SslCalls
  <2>3. got \ ssl_given_back(ssl_calls[first]) = {} BY <2>2, AllGivenBack
  <2>4. r.has = {} /\ r.exist = got \ ssl_given_back(ssl_calls[first]) BY <1>1, <1>8
  <2> HIDE DEF got, first, r
  <2> QED BY <2>3, <2>4 DEF r
<1> QED BY <1>7, <1>8

TlsInv ==
    /\ Settings(tlsInstance)
    /\ DOMAIN tlsInstance = {"has", "ctx", "trusted", "credentials", "keyType", "ignore_host", "ip"}
    /\ tlsInstance.has \in {{}, {"ssl_context", "ssl"}}
    /\ openssl = close_openssl_instance(tlsInstance.has)
    /\ tlsInstance.has # {} =>
         Has(tlsInstance.ctx, tlsInstance.credentials, tlsInstance.trusted, TRUE, ~tlsInstance.ip,
             IF tlsInstance.ignore_host THEN "any" ELSE IF tlsInstance.ip THEN "ip" ELSE "name")

LEMMA OpenTlsKeeps == ASSUME NEW fails, TlsInv, OpenTls(fails) PROVE TlsInv'
<1> DEFINE r == create_openssl_instance(tlsInstance, fails)
<1>1. \/ r.has = {} /\ r.exist = {}
      \/ /\ r.has = {"ssl_context", "ssl"} /\ r.exist = SslObjects
         /\ Has(r.ctx, tlsInstance.credentials, tlsInstance.trusted, TRUE, ~tlsInstance.ip,
                IF tlsInstance.ignore_host THEN "any" ELSE IF tlsInstance.ip THEN "ip" ELSE "name")
  BY InstanceCreated DEF TlsInv
<1>2. /\ tlsInstance.has = {} /\ tlsInstance' = [tlsInstance EXCEPT !.has = r.has, !.ctx = r.ctx]
      /\ openssl' = openssl \cup r.exist
  BY DEF OpenTls
<1> HIDE DEF r
<1>3. /\ Settings(tlsInstance)' /\ DOMAIN tlsInstance' = DOMAIN tlsInstance
      /\ tlsInstance'.has = r.has /\ tlsInstance'.ctx = r.ctx
      /\ tlsInstance'.credentials = tlsInstance.credentials /\ tlsInstance'.trusted = tlsInstance.trusted
      /\ tlsInstance'.ip = tlsInstance.ip /\ tlsInstance'.ignore_host = tlsInstance.ignore_host
  BY <1>2 DEF TlsInv, Settings
<1>4. openssl' = close_openssl_instance(r.has)
  BY <1>1, <1>2 DEF TlsInv, close_openssl_instance, SslObjects
<1> QED BY <1>1, <1>3, <1>4 DEF TlsInv, Has

LEMMA CloseTlsKeeps == TlsInv /\ CloseTls => TlsInv'
BY DEF TlsInv, CloseTls, close_openssl_instance, Settings

LEMMA ConfigureKeeps ==
    ASSUME NEW keyType \in {"RSA", "ECC"}, NEW trusted \in BOOLEAN, NEW credentials \in BOOLEAN, NEW ignore \in BOOLEAN,
           NEW ip \in BOOLEAN, TlsInv, Configure(trusted, credentials, keyType, ignore, ip)
    PROVE  TlsInv'
BY DEF TlsInv, Configure, Settings

CredentialsInv == (MaxFailing <= 1 => X509Inv) /\ TlsInv

LEMMA CredentialsStart == CredentialsInit => CredentialsInv
BY DEF CredentialsInit, CredentialsInv, X509Inv, NoX509, TlsInv, Settings, close_openssl_instance

LEMMA CredentialsStep == CredentialsInv /\ [CredentialsNext]_credentialVars => CredentialsInv'
<1> SUFFICES ASSUME CredentialsInv, [CredentialsNext]_credentialVars PROVE CredentialsInv' OBVIOUS
<1>1. CASE UNCHANGED credentialVars
  BY <1>1 DEF CredentialsInv, X509Inv, TlsInv, credentialVars
<1>2. ASSUME NEW type \in {"RSA", "ECC"}, NEW fails \in Few(Failing), CreateX509(type, fails) PROVE CredentialsInv'
  <2>1. TlsInv' BY <1>2 DEF CreateX509, CredentialsInv, TlsInv
  <2>2. MaxFailing <= 1 => X509Inv' BY <1>2, CreateX509Keeps, FewIsOne DEF CredentialsInv
  <2> QED BY <2>1, <2>2 DEF CredentialsInv
<1>3. CASE DestroyX509
  <2>1. TlsInv' BY <1>3 DEF DestroyX509, CredentialsInv, TlsInv
  <2> QED BY <1>3, <2>1, DestroyX509Keeps DEF CredentialsInv
<1>4. ASSUME NEW keyType \in {"RSA", "ECC"}, NEW trusted \in BOOLEAN, NEW credentials \in BOOLEAN, NEW ignore \in BOOLEAN,
             NEW ip \in BOOLEAN, Configure(trusted, credentials, keyType, ignore, ip)
      PROVE  CredentialsInv'
  <2>1. X509Inv => X509Inv' BY <1>4 DEF Configure, X509Inv
  <2>2. TlsInv' BY <1>4, ConfigureKeeps DEF CredentialsInv
  <2> QED BY <2>1, <2>2 DEF CredentialsInv
<1>5. ASSUME NEW fails, OpenTls(fails) PROVE CredentialsInv'
  <2>1. X509Inv => X509Inv' BY <1>5 DEF OpenTls, X509Inv
  <2>2. TlsInv' BY <1>5, OpenTlsKeeps DEF CredentialsInv
  <2> QED BY <2>1, <2>2 DEF CredentialsInv
<1>6. CASE CloseTls
  <2>1. X509Inv => X509Inv' BY <1>6 DEF CloseTls, X509Inv
  <2> QED BY <1>6, <2>1, CloseTlsKeeps DEF CredentialsInv
<1> QED BY <1>1, <1>2, <1>3, <1>4, <1>5, <1>6 DEF CredentialsNext

\* Whichever calls of OpenSSL fail, an instance has all of its objects or none, and its
\* context is what its settings ask for; and with one call that fails in an operation the
\* handle of x509_schannel has whatever exists on Windows.  (With two the latter is not so:
\* an object that NCryptFreeObject kept stays when the handle is then not made.)
THEOREM CredentialsHeld ==
    CredentialsInit /\ [][CredentialsNext]_credentialVars =>
        /\ []TlsAsConfigured
        /\ MaxFailing <= 1 => []CredentialsAsConfigured
<1>1. CredentialsInv => TlsAsConfigured
  BY DEF CredentialsInv, TlsInv, TlsAsConfigured, Has
<1>2. CredentialsInit /\ [][CredentialsNext]_credentialVars => []TlsAsConfigured
  BY <1>1, CredentialsStart, CredentialsStep, PTL
<1>3. ASSUME MaxFailing <= 1
      PROVE  CredentialsInit /\ [][CredentialsNext]_credentialVars => []CredentialsAsConfigured
  <2>1. CredentialsInv => CredentialsAsConfigured
    BY <1>1, <1>3 DEF CredentialsInv, X509Inv, CredentialsAsConfigured, X509Released
  <2> QED BY <2>1, CredentialsStart, CredentialsStep, PTL
<1> QED BY <1>2, <1>3

-----------------------------------------------------------------------------
(* Revocation lists: counting references.                                   *)

\* every nonempty set of natural numbers has a least element
LEMMA Least ==
    ASSUME NEW T \in SUBSET Nat, T # {}
    PROVE  Min(T) \in T /\ \A y \in T : Min(T) <= y
<1> DEFINE R == {ss \in Nat \X Nat : ss[1] < ss[2]}
<1>1. ASSUME NEW x \in Nat, NEW y \in Nat PROVE <<x, y>> \in R <=> x < y
  OBVIOUS
<1>2. IsWellFoundedOn(R, Nat) BY NatLessThanWellFounded DEF OpToRel
<1> HIDE DEF R
<1>3. PICK x \in T : \A y \in T : ~(<<y, x>> \in R) BY <1>2, WFMin
<1>4. ASSUME NEW y \in T PROVE x <= y
  <2>1. ~(y < x) BY <1>1, <1>3
  <2> QED BY <2>1
<1> QED BY <1>4 DEF Min

\* what pointers count for each list
Counted(lists, pointers) ==
    /\ IsFiniteSet(pointers)
    /\ \A p \in pointers : p[3] \in DOMAIN lists
    /\ \A c \in DOMAIN lists : lists[c].refs = Cardinality(To(pointers, c))

Issuers == {IssuerAt[u] : u \in Urls}
ListType == [issuer: Issuers, until: Nat, refs: Int]

LEMMA ToFinite ==
    ASSUME NEW P, IsFiniteSet(P), NEW c
    PROVE  IsFiniteSet(To(P, c)) /\ Cardinality(To(P, c)) \in Nat
BY FS_Subset, FS_CardinalityType DEF To

LEMMA ToAdded ==
    ASSUME NEW P, IsFiniteSet(P), NEW p, p \notin P, NEW c
    PROVE  Cardinality(To(P \cup {p}, c)) = IF p[3] = c THEN Cardinality(To(P, c)) + 1 ELSE Cardinality(To(P, c))
<1>1. CASE p[3] = c
  <2>1. To(P \cup {p}, c) = To(P, c) \cup {p} /\ p \notin To(P, c) BY <1>1 DEF To
  <2> QED BY <1>1, <2>1, ToFinite, FS_AddElement
<1>2. CASE p[3] # c
  <2>1. To(P \cup {p}, c) = To(P, c) BY <1>2 DEF To
  <2> QED BY <1>2, <2>1
<1> QED BY <1>1, <1>2

LEMMA ToRemoved ==
    ASSUME NEW P, IsFiniteSet(P), NEW D, D \subseteq P, NEW c
    PROVE  Cardinality(To(P \ D, c)) = Cardinality(To(P, c)) - Cardinality(To(D, c))
<1>1. To(P \ D, c) = To(P, c) \ To(D, c) /\ To(P, c) \cap To(D, c) = To(D, c) BY DEF To
<1> QED BY <1>1, ToFinite, FS_Difference

LEMMA ListChanged ==
    ASSUME NEW list \in ListType, NEW n \in Int
    PROVE  LET new == [list EXCEPT !.refs = n]
           IN  new \in ListType /\ new.issuer = list.issuer /\ new.until = list.until /\ new.refs = n
BY DEF ListType

\* one count is changed
LEMMA RefsChanged ==
    ASSUME NEW lists \in Seq(ListType), NEW c \in DOMAIN lists, NEW n \in Int
    PROVE  LET new == [lists EXCEPT ![c].refs = n]
           IN  /\ new \in Seq(ListType) /\ DOMAIN new = DOMAIN lists /\ Len(new) = Len(lists)
               /\ \A d \in DOMAIN lists : /\ new[d].issuer = lists[d].issuer /\ new[d].until = lists[d].until
                                          /\ new[d].refs = IF d = c THEN n ELSE lists[d].refs
<1> DEFINE new == [lists EXCEPT ![c].refs = n]
           list == [lists[c] EXCEPT !.refs = n]
<1>1. lists[c] \in ListType OBVIOUS
<1>2. list \in ListType /\ list.issuer = lists[c].issuer /\ list.until = lists[c].until /\ list.refs = n
  BY <1>1, ListChanged
<1>3. new = [lists EXCEPT ![c] = list] OBVIOUS
<1> HIDE DEF new, list
<1>4. new \in Seq(ListType) /\ DOMAIN new = DOMAIN lists /\ Len(new) = Len(lists) BY <1>2, <1>3
<1>5. ASSUME NEW d \in DOMAIN lists PROVE new[d] = IF d = c THEN list ELSE lists[d] BY <1>3
<1> QED BY <1>2, <1>4, <1>5 DEF new

LEMMA UpRefCounted ==
    ASSUME NEW lists \in Seq(ListType), NEW P, Counted(lists, P), NEW p, p \notin P, p[3] \in DOMAIN lists
    PROVE  up_ref(lists, p[3]) \in Seq(ListType) /\ Counted(up_ref(lists, p[3]), P \cup {p})
<1> DEFINE new == up_ref(lists, p[3])
<1>0. lists[p[3]].refs + 1 \in Int /\ new = [lists EXCEPT ![p[3]].refs = lists[p[3]].refs + 1]
  <2>1. lists[p[3]] \in ListType OBVIOUS
  <2>2. lists[p[3]].refs \in Int BY <2>1 DEF ListType
  <2> QED BY <2>2 DEF up_ref
<1> HIDE DEF new
<1>1. new \in Seq(ListType) /\ DOMAIN new = DOMAIN lists BY <1>0, RefsChanged
<1>2. ASSUME NEW c \in DOMAIN lists
      PROVE  new[c].refs = IF p[3] = c THEN lists[c].refs + 1 ELSE lists[c].refs
  BY <1>0, RefsChanged
<1> HIDE DEF new
<1>3. IsFiniteSet(P \cup {p}) BY FS_AddElement DEF Counted
<1>4. ASSUME NEW c \in DOMAIN new PROVE new[c].refs = Cardinality(To(P \cup {p}, c))
  BY <1>1, <1>2, ToAdded DEF Counted
<1>5. Counted(new, P \cup {p}) BY <1>1, <1>3, <1>4 DEF Counted
<1> QED BY <1>1, <1>5 DEF new

LEMMA FreedCounted ==
    ASSUME NEW lists \in Seq(ListType), NEW P, Counted(lists, P), NEW p \in P, p[3] # 0
    PROVE  X509_CRL_free(lists, p[3]) \in Seq(ListType) /\ Counted(X509_CRL_free(lists, p[3]), P \ {p})
<1> DEFINE new == X509_CRL_free(lists, p[3])
<1>0. /\ lists[p[3]].refs - 1 \in Int /\ new = [lists EXCEPT ![p[3]].refs = lists[p[3]].refs - 1]
      /\ p[3] \in DOMAIN lists
  <2>0. p[3] \in DOMAIN lists BY DEF Counted
  <2>1. lists[p[3]] \in ListType BY <2>0
  <2>2. lists[p[3]].refs \in Int BY <2>1 DEF ListType
  <2> QED BY <2>0, <2>2 DEF X509_CRL_free
<1> HIDE DEF new
<1>1. new \in Seq(ListType) /\ DOMAIN new = DOMAIN lists BY <1>0, RefsChanged
<1>2. ASSUME NEW c \in DOMAIN lists
      PROVE  new[c].refs = IF p[3] = c THEN lists[c].refs - 1 ELSE lists[c].refs
  BY <1>0, RefsChanged
<1> HIDE DEF new
<1>3. IsFiniteSet(P \ {p}) BY FS_RemoveElement DEF Counted
<1>4. ASSUME NEW c \in DOMAIN new PROVE new[c].refs = Cardinality(To(P \ {p}, c))
  <2>1. Cardinality(To({p}, c)) = IF p[3] = c THEN 1 ELSE 0
    <3>1. CASE p[3] = c
      <4>1. To({p}, c) = {p} BY <3>1 DEF To
      <4> QED BY <3>1, <4>1, FS_Singleton
    <3>2. CASE p[3] # c
      <4>1. To({p}, c) = {} BY <3>2 DEF To
      <4> QED BY <3>2, <4>1, FS_EmptySet
    <3> QED BY <3>1, <3>2
  <2>2. Cardinality(To(P \ {p}, c)) = Cardinality(To(P, c)) - Cardinality(To({p}, c)) BY ToRemoved DEF Counted
  <2>3. Cardinality(To(P, c)) \in Nat BY ToFinite DEF Counted
  <2>4. lists[c].refs = Cardinality(To(P, c)) BY <1>1 DEF Counted
  <2> QED BY <1>1, <1>2, <2>1, <2>2, <2>3, <2>4
<1>5. Counted(new, P \ {p}) BY <1>1, <1>3, <1>4 DEF Counted
<1> QED BY <1>1, <1>5 DEF new

LEMMA FreeAllCounted ==
    ASSUME NEW lists \in Seq(ListType), NEW P, Counted(lists, P), NEW D, D \subseteq P
    PROVE  FreeAll(lists, D) \in Seq(ListType) /\ Counted(FreeAll(lists, D), P \ D)
<1> DEFINE new == FreeAll(lists, D)
<1>0. IsFiniteSet(D) /\ IsFiniteSet(P \ D) BY FS_Subset DEF Counted
<1>1. DOMAIN new = DOMAIN lists /\ DOMAIN lists = 1 .. Len(lists) BY DEF FreeAll
<1>2. ASSUME NEW c \in DOMAIN lists
      PROVE  new[c] \in ListType /\ new[c].refs = lists[c].refs - Cardinality(To(D, c))
  <2>1. new[c] = [lists[c] EXCEPT !.refs = lists[c].refs - Cardinality(To(D, c))] BY DEF FreeAll
  <2>2. Cardinality(To(D, c)) \in Nat BY <1>0, ToFinite
  <2>3. lists[c] \in ListType OBVIOUS
  <2>4. lists[c].refs - Cardinality(To(D, c)) \in Int BY <2>2, <2>3 DEF ListType
  <2> HIDE DEF new
  <2> QED BY <2>1, <2>3, <2>4, ListChanged
<1>3. new \in Seq(ListType)
  <2>1. new = [c \in 1 .. Len(lists) |-> new[c]] BY <1>1 DEF FreeAll
  <2>2. Len(lists) \in Nat OBVIOUS
  <2> HIDE DEF new
  <2> QED BY <2>1, <2>2, <1>1, <1>2
<1> HIDE DEF new
<1>4. ASSUME NEW c \in DOMAIN new PROVE new[c].refs = Cardinality(To(P \ D, c))
  BY <1>1, <1>2, ToRemoved DEF Counted
<1>5. Counted(new, P \ D) BY <1>0, <1>1, <1>4 DEF Counted
<1> QED BY <1>3, <1>5 DEF new

LEMMA AppendCounted ==
    ASSUME NEW lists \in Seq(ListType), NEW P, Counted(lists, P), NEW p, p[3] = Len(lists) + 1,
           NEW issuer \in Issuers, NEW until \in Nat
    PROVE  LET new == Append(lists, [issuer |-> issuer, until |-> until, refs |-> 1])
           IN  new \in Seq(ListType) /\ Counted(new, P \cup {p})
<1> DEFINE new == Append(lists, [issuer |-> issuer, until |-> until, refs |-> 1])
<1>1. /\ new \in Seq(ListType) /\ Len(new) = Len(lists) + 1 /\ Len(lists) \in Nat
      /\ DOMAIN lists = 1 .. Len(lists) /\ DOMAIN new = 1 .. Len(lists) + 1
      /\ \A c \in 1 .. Len(lists) : new[c] = lists[c]
      /\ new[Len(lists) + 1].refs = 1
  BY DEF ListType
<1> HIDE DEF new
<1>2. p \notin P BY <1>1 DEF Counted
<1>3. IsFiniteSet(P \cup {p}) BY FS_AddElement DEF Counted
<1>4. ASSUME NEW c \in 1 .. Len(lists) PROVE new[c].refs = Cardinality(To(P \cup {p}, c))
  BY <1>1, <1>2, ToAdded DEF Counted
<1>5. new[Len(lists) + 1].refs = Cardinality(To(P \cup {p}, Len(lists) + 1))
  <2>1. To(P, Len(lists) + 1) = {} BY <1>1 DEF Counted, To
  <2>2. Cardinality(To(P, Len(lists) + 1)) = 0 BY <2>1, FS_EmptySet
  <2> QED BY <1>1, <1>2, <2>2, ToAdded DEF Counted
<1>6. Counted(new, P \cup {p})
  <2>1. \A r \in P \cup {p} : r[3] \in DOMAIN new BY <1>1 DEF Counted
  <2>2. \A c \in DOMAIN new : c \in 1 .. Len(lists) \/ c = Len(lists) + 1 BY <1>1
  <2>3. \A c \in DOMAIN new : new[c].refs = Cardinality(To(P \cup {p}, c)) BY <2>2, <1>4, <1>5
  <2> QED BY <2>1, <2>3, <1>3 DEF Counted
<1> QED BY <1>1, <1>6 DEF new

\* a pointer that is moved
LEMMA MovedCounted ==
    ASSUME NEW lists, NEW P, Counted(lists, P), NEW p \in P, NEW q, q \notin P, p[3] = q[3]
    PROVE  Counted(lists, (P \ {p}) \cup {q})
<1>1. IsFiniteSet(P \ {p}) BY FS_RemoveElement DEF Counted
<1>2. IsFiniteSet((P \ {p}) \cup {q}) BY <1>1, FS_AddElement
<1>3. ASSUME NEW c \in DOMAIN lists PROVE Cardinality(To((P \ {p}) \cup {q}, c)) = Cardinality(To(P, c))
  <2>1. CASE p[3] = c
    <3>1. To((P \ {p}) \cup {q}, c) = (To(P, c) \ {p}) \cup {q} /\ p \in To(P, c) /\ q \notin To(P, c) \ {p}
      BY <2>1 DEF To
    <3>2. IsFiniteSet(To(P, c)) /\ Cardinality(To(P, c)) \in Nat BY ToFinite DEF Counted
    <3>3. IsFiniteSet(To(P, c) \ {p}) /\ Cardinality(To(P, c) \ {p}) = Cardinality(To(P, c)) - 1
      BY <3>1, <3>2, FS_RemoveElement
    <3>4. Cardinality((To(P, c) \ {p}) \cup {q}) = Cardinality(To(P, c) \ {p}) + 1
      BY <3>1, <3>3, FS_AddElement
    <3>5. Cardinality((To(P, c) \ {p}) \cup {q}) = Cardinality(To(P, c)) BY <3>2, <3>3, <3>4
    <3> QED BY <3>1, <3>5
  <2>2. CASE p[3] # c
    <3>1. To((P \ {p}) \cup {q}, c) = To(P, c) BY <2>2 DEF To
    <3> QED BY <3>1
  <2> QED BY <2>1, <2>2
<1> QED BY <1>2, <1>3 DEF Counted

-----------------------------------------------------------------------------
(* Revocation lists: the inductive invariant.                               *)

\* places, and those with a list of the thread's own
Holding == {"read", "keep_file", "keep_download", "save", "write"}
VerifierPlaces == {"idle", "ready", "dp", "file", "answer"} \cup Holding

StackType == [crl: Nat, url: Urls, from: {"memory", "file", "server"}, at: Nat]
VerifierType ==
    [at: VerifierPlaces, goOn: BOOLEAN, cert: Certificates \cup {IdleVerifier.cert}, todo: Seq(Urls),
     suffix: {"crl", "crld"}, slot: Nat, crl: Nat, found: Nat, crls: Seq(StackType),
     verdict: {"none", "checked", "forgiven", "refused"}]

\* a list that was published at a URL
From(lists, c, url) == c \in DOMAIN lists /\ lists[c].issuer = IssuerAt[url]

\* what is on a stack
StackOk(v, lists) ==
    \A i \in DOMAIN v.crls :
        /\ v.crls[i].crl # 0 /\ From(lists, v.crls[i].crl, v.crls[i].url)
        /\ v.crls[i].from # "server" => v.crls[i].at < lists[v.crls[i].crl].until

VerdictOk(v) ==
    v.verdict # "none" =>
        /\ v.at = "answer"
        /\ ~v.cert.root /\ ~v.goOn
             => (v.verdict = "refused" <=> \A i \in DOMAIN v.crls : IssuerAt[v.crls[i].url] # v.cert.issuer)

VerifierOk(v, lists) ==
    /\ v.at \in {"idle", "ready"} => v.crls = <<>>
    /\ v.at \notin {"idle", "ready"} => v.cert \in Certificates
    /\ v.at \in Holding \cup {"file"} => v.todo # <<>>
    /\ v.at \in {"file", "read"} => v.slot # 0
    /\ v.at \in Holding <=> v.crl # 0
    /\ v.crl # 0 => From(lists, v.crl, Head(v.todo))
    /\ v.at = "keep_file" => v.found < lists[v.crl].until
    /\ StackOk(v, lists)
    /\ VerdictOk(v)

CacheType == [crl: Nat, dp_url: Urls \cup {"none"}]
CacheOk(cache, lists) ==
    \A n \in DOMAIN cache :
        cache[n].crl # 0 => cache[n].dp_url \in Urls /\ From(lists, cache[n].crl, cache[n].dp_url)

FileType == [issuer: Issuers \cup {"none"}, until: Nat]
FilesOk(files) ==
    \A f \in Urls \X {"crl", "crld"} : \A n \in 1 .. FileSlots :
        files[f][n] # NoFile => files[f][n].issuer = IssuerAt[f[1]]

CrlTypes ==
    /\ now \in Nat
    /\ crl \in Seq(ListType)
    /\ crl_cache \in Seq(CacheType)
    /\ crl_files \in [Urls \X {"crl", "crld"} -> [1 .. FileSlots -> FileType]]
    /\ verifier \in [Verifiers -> VerifierType]

CrlInv ==
    /\ CrlTypes
    /\ CacheOk(crl_cache, crl)
    /\ FilesOk(crl_files)
    /\ \A t \in Verifiers : VerifierOk(verifier[t], crl)
    /\ Counted(crl, ListPointers)

\* lists are made, and what was published does not change
Grown(lists, new) ==
    /\ DOMAIN lists \subseteq DOMAIN new
    /\ \A c \in DOMAIN lists : new[c].issuer = lists[c].issuer /\ new[c].until = lists[c].until

\* the pointers of the cache and of the other threads
InCache(cache) == {<<"cache", n, cache[n].crl>> : n \in {m \in DOMAIN cache : cache[m].crl # 0}}
OfOthers(t) == UNION {PointersOf(u, verifier[u]) : u \in Verifiers \ {t}}

LEMMA InCacheIs ==
    ASSUME NEW cache, NEW p
    PROVE  p \in InCache(cache) <=> \E n \in DOMAIN cache : cache[n].crl # 0 /\ p = <<"cache", n, cache[n].crl>>
BY DEF InCache

LEMMA PointersOfIs ==
    ASSUME NEW t, NEW v, NEW p
    PROVE  p \in PointersOf(t, v) <=> \/ \E n \in DOMAIN v.crls : p = <<t, n, v.crls[n].crl>>
                                      \/ v.crl # 0 /\ p = <<t, 0, v.crl>>
BY DEF PointersOf, StackPointers

LEMMA OthersIs ==
    ASSUME NEW t, NEW p
    PROVE  p \in OfOthers(t) <=> \E u \in Verifiers \ {t} : p \in PointersOf(u, verifier[u])
BY DEF OfOthers

\* whose pointers they are
LEMMA Apart ==
    ASSUME CrlAssumption, NEW t \in Verifiers
    PROVE  /\ \A cache : \A p \in InCache(cache) : p[1] = "cache"
           /\ \A p \in OfOthers(t) : p[1] \in Verifiers /\ p[1] # t
           /\ \A v : \A p \in PointersOf(t, v) : p[1] = t
           /\ t # "cache" /\ "cache" \notin Verifiers
<1>1. ASSUME NEW u, NEW v, NEW p \in PointersOf(u, v) PROVE p[1] = u BY PointersOfIs
<1>2. ASSUME NEW cache, NEW p \in InCache(cache) PROVE p[1] = "cache" BY InCacheIs
<1>3. ASSUME NEW p \in OfOthers(t) PROVE p[1] \in Verifiers /\ p[1] # t
  <2>1. PICK u \in Verifiers \ {t} : p \in PointersOf(u, verifier[u]) BY OthersIs
  <2> QED BY <1>1, <2>1
<1>4. "cache" \notin Verifiers BY DEF CrlAssumption
<1> QED BY <1>1, <1>2, <1>3, <1>4

LEMMA SplitPointers ==
    ASSUME NEW t \in Verifiers
    PROVE  ListPointers = InCache(crl_cache) \cup OfOthers(t) \cup PointersOf(t, verifier[t])
<1>1. UNION {PointersOf(u, verifier[u]) : u \in Verifiers} = OfOthers(t) \cup PointersOf(t, verifier[t])
  BY DEF OfOthers
<1> QED BY <1>1 DEF ListPointers, CachePointers, InCache

LEMMA SplitAfter ==
    ASSUME NEW t \in Verifiers, NEW v, verifier \in [Verifiers -> VerifierType], verifier' = [verifier EXCEPT ![t] = v]
    PROVE  ListPointers' = InCache(crl_cache') \cup OfOthers(t) \cup PointersOf(t, v)
<1>1. \A u \in Verifiers \ {t} : verifier'[u] = verifier[u] OBVIOUS
<1>2. verifier'[t] = v OBVIOUS
<1>3. UNION {PointersOf(u, verifier'[u]) : u \in Verifiers} = OfOthers(t) \cup PointersOf(t, v)
  <2>1. ASSUME NEW p PROVE p \in UNION {PointersOf(u, verifier'[u]) : u \in Verifiers} <=> p \in OfOthers(t) \cup PointersOf(t, v)
    <3>1. (p \in UNION {PointersOf(u, verifier'[u]) : u \in Verifiers}) <=> \E u \in Verifiers : p \in PointersOf(u, verifier'[u])
      OBVIOUS
    <3>2. p \in OfOthers(t) <=> \E u \in Verifiers \ {t} : p \in PointersOf(u, verifier'[u]) BY <1>1, OthersIs
    <3> QED BY <3>1, <3>2, <1>2
  <2> QED BY <2>1
<1> QED BY <1>3 DEF ListPointers, CachePointers, InCache

LEMMA StackGrown ==
    ASSUME NEW lists, NEW new, Grown(lists, new), NEW v, StackOk(v, lists)
    PROVE  StackOk(v, new)
BY DEF StackOk, From, Grown

LEMMA VerifierGrown ==
    ASSUME NEW lists, NEW new, Grown(lists, new), NEW v, VerifierOk(v, lists)
    PROVE  VerifierOk(v, new)
<1>1. StackOk(v, new) BY StackGrown DEF VerifierOk
<1>2. v.crl # 0 => From(new, v.crl, Head(v.todo)) BY DEF VerifierOk, From, Grown
<1>3. v.at = "keep_file" => v.found < new[v.crl].until BY DEF VerifierOk, From, Grown, Holding
<1> QED BY <1>1, <1>2, <1>3 DEF VerifierOk

LEMMA CacheGrown ==
    ASSUME NEW lists, NEW new, Grown(lists, new), NEW cache, CacheOk(cache, lists)
    PROVE  CacheOk(cache, new)
BY DEF CacheOk, From, Grown

\* a step of a thread
LEMMA ThreadKeeps ==
    ASSUME CrlInv, NEW t \in Verifiers, NEW v \in VerifierType, verifier' = [verifier EXCEPT ![t] = v],
           UNCHANGED now,
           crl' \in Seq(ListType), Grown(crl, crl'), VerifierOk(v, crl'),
           crl_cache' \in Seq(CacheType), CacheOk(crl_cache', crl'),
           crl_files' \in [Urls \X {"crl", "crld"} -> [1 .. FileSlots -> FileType]], FilesOk(crl_files'),
           Counted(crl', InCache(crl_cache') \cup OfOthers(t) \cup PointersOf(t, v))
    PROVE  CrlInv'
<1>1. verifier \in [Verifiers -> VerifierType] BY DEF CrlInv, CrlTypes
<1>2. verifier' \in [Verifiers -> VerifierType] /\ verifier'[t] = v
      /\ \A u \in Verifiers \ {t} : verifier'[u] = verifier[u]
  BY <1>1
<1>3. CrlTypes' BY <1>2 DEF CrlInv, CrlTypes
<1>4. \A u \in Verifiers : VerifierOk(verifier'[u], crl')
  <2>1. ASSUME NEW u \in Verifiers, u # t PROVE VerifierOk(verifier[u], crl')
    BY VerifierGrown DEF CrlInv
  <2> QED BY <2>1, <1>2
<1>5. Counted(crl', ListPointers') BY <1>1, SplitAfter
<1> QED BY <1>3, <1>4, <1>5 DEF CrlInv

LEMMA IdleOk ==
    ASSUME NEW lists, NEW t
    PROVE  IdleVerifier \in VerifierType /\ VerifierOk(IdleVerifier, lists) /\ PointersOf(t, IdleVerifier) = {}
<1>1. /\ IdleVerifier.at = "idle" /\ IdleVerifier.crls = <<>> /\ IdleVerifier.crl = 0 /\ IdleVerifier.verdict = "none"
      /\ IdleVerifier \in VerifierType
  BY DEF IdleVerifier, VerifierType, VerifierPlaces
<1>2. PointersOf(t, IdleVerifier) = {} BY <1>1, PointersOfIs
<1>3. VerifierOk(IdleVerifier, lists) BY <1>1 DEF VerifierOk, StackOk, VerdictOk, Holding
<1> QED BY <1>1, <1>2, <1>3

LEMMA CrlStart == CrlAssumption /\ CrlInit => CrlInv
<1> SUFFICES ASSUME CrlAssumption, CrlInit PROVE CrlInv
  OBVIOUS
<1>1. NoFile \in FileType BY DEF NoFile, FileType
<1>2. FilesOk(crl_files) /\ crl_files \in [Urls \X {"crl", "crld"} -> [1 .. FileSlots -> FileType]]
  BY <1>1 DEF CrlInit, FilesOk
<1>3. \A t \in Verifiers : verifier[t] = IdleVerifier BY DEF CrlInit
<1>4. \A t \in Verifiers : VerifierOk(verifier[t], crl) /\ PointersOf(t, verifier[t]) = {} BY <1>3, IdleOk
<1>5. verifier \in [Verifiers -> VerifierType] BY IdleOk DEF CrlInit
<1>6. crl = <<>> /\ crl_cache = <<>> /\ now = 0 BY DEF CrlInit
<1>7. ListPointers = {} BY <1>4, <1>6 DEF ListPointers, CachePointers
<1>8. CrlTypes /\ CacheOk(crl_cache, crl) BY <1>2, <1>5, <1>6 DEF CrlTypes, CacheOk
<1>9. Counted(crl, ListPointers) BY <1>6, <1>7, FS_EmptySet DEF Counted
<1> QED BY <1>2, <1>4, <1>8, <1>9 DEF CrlInv

LEMMA Before ==
    ASSUME CrlInv, NEW t \in Verifiers
    PROVE  /\ CrlTypes /\ verifier[t] \in VerifierType /\ VerifierOk(verifier[t], crl) /\ CacheOk(crl_cache, crl)
           /\ FilesOk(crl_files) /\ Grown(crl, crl)
           /\ Counted(crl, InCache(crl_cache) \cup OfOthers(t) \cup PointersOf(t, verifier[t]))
BY SplitPointers DEF CrlInv, CrlTypes, Grown

\* a step of a thread that has the lists it had
LEMMA QuietKeeps ==
    ASSUME CrlInv, NEW t \in Verifiers, NEW v \in VerifierType, verifier' = [verifier EXCEPT ![t] = v],
           VerifierOk(v, crl), v.crl = verifier[t].crl, v.crls = verifier[t].crls,
           now' = now, crl' = crl, crl_cache' = crl_cache,
           crl_files' \in [Urls \X {"crl", "crld"} -> [1 .. FileSlots -> FileType]], FilesOk(crl_files')
    PROVE  CrlInv'
<1>1. PointersOf(t, v) = PointersOf(t, verifier[t]) BY DEF PointersOf, StackPointers
<1> QED BY <1>1, Before, ThreadKeeps DEF CrlTypes

LEMMA TickKeeps == CrlInv /\ Tick => CrlInv'
<1> SUFFICES ASSUME CrlInv, Tick PROVE CrlInv'
  OBVIOUS
<1>1. ListPointers' = ListPointers BY DEF Tick, ListPointers, CachePointers
<1>2. now' \in Nat BY DEF Tick, CrlInv, CrlTypes
<1> QED BY <1>1, <1>2 DEF Tick, CrlInv, CrlTypes

LEMMA setup_crl_checkKeeps == ASSUME NEW t \in Verifiers, CrlInv, setup_crl_check(t) PROVE CrlInv'
<1> DEFINE told == t \in GoesOn
           v == [IdleVerifier EXCEPT !.at = "ready", !.goOn = told]
<1>0. told \in BOOLEAN OBVIOUS
<1> HIDE DEF told
<1>1. /\ v.at = "ready" /\ v.crls = <<>> /\ v.crl = 0 /\ v.verdict = "none" /\ v \in VerifierType
  <2>1. IdleVerifier \in VerifierType BY IdleOk
  <2> QED BY <1>0, <2>1 DEF IdleVerifier, VerifierType, VerifierPlaces
<1>2. VerifierOk(v, crl) BY <1>1 DEF VerifierOk, StackOk, VerdictOk, Holding
<1>3. verifier[t].crl = 0 /\ verifier[t].crls = <<>>
  BY Before DEF setup_crl_check, VerifierOk, Holding
<1> HIDE DEF v
<1>4. verifier' = [verifier EXCEPT ![t] = v] /\ UNCHANGED <<now, crl, crl_cache, crl_files>>
  BY DEF setup_crl_check, v, told
<1> QED BY <1>1, <1>2, <1>3, <1>4, Before, QuietKeeps DEF CrlTypes

LEMMA crls_http_cbKeeps ==
    ASSUME CrlAssumption, NEW t \in Verifiers, NEW cert \in Certificates, CrlInv, crls_http_cb(t, cert)
    PROVE  CrlInv'
<1> DEFINE w == verifier[t]
           v == IF cert.root \/ cert.points = <<>> THEN [w EXCEPT !.at = "answer", !.cert = cert]
                ELSE [w EXCEPT !.at = "dp", !.cert = cert, !.todo = cert.points]
<1>1. w \in VerifierType /\ w.at = "ready" /\ VerifierOk(w, crl) BY Before DEF crls_http_cb
<1>2. cert.points \in Seq(Urls) BY DEF CrlAssumption, Urls
<1>3. /\ v \in VerifierType /\ v.at \in {"answer", "dp"} /\ v.cert = cert
      /\ v.crls = w.crls /\ v.crl = w.crl /\ v.verdict = w.verdict
  BY <1>1, <1>2 DEF VerifierType, VerifierPlaces
<1>4. w.crl = 0 /\ w.crls = <<>> /\ w.verdict = "none"
  BY <1>1 DEF VerifierOk, VerdictOk, Holding
<1> HIDE DEF v, w
<1>5. VerifierOk(v, crl)
  <2>1. StackOk(v, crl) BY <1>3, <1>4 DEF StackOk
  <2>2. VerdictOk(v) BY <1>3, <1>4 DEF VerdictOk
  <2> QED BY <1>3, <1>4, <2>1, <2>2 DEF VerifierOk, Holding
<1>6. verifier' = [verifier EXCEPT ![t] = v] /\ UNCHANGED <<now, crl, crl_cache, crl_files>>
  BY DEF crls_http_cb, v, w
<1> QED BY <1>3, <1>5, <1>6, Before, QuietKeeps DEF CrlTypes, w

LEMMA download_failedKeeps == ASSUME NEW t \in Verifiers, CrlInv, download_failed(t) PROVE CrlInv'
<1> DEFINE w == verifier[t]
           v == [w EXCEPT !.at = "dp", !.todo = Tail(@), !.slot = 0]
<1>1. w \in VerifierType /\ w.at = "file" /\ VerifierOk(w, crl) BY Before DEF download_failed
<1>2. w.todo # <<>> /\ w.todo \in Seq(Urls) BY <1>1 DEF VerifierOk, VerifierType
<1>3. Tail(w.todo) \in Seq(Urls) BY <1>2
<1>4. /\ v \in VerifierType /\ v.at = "dp" /\ v.cert = w.cert /\ v.crls = w.crls /\ v.crl = w.crl
      /\ v.verdict = w.verdict
  BY <1>1, <1>3 DEF VerifierType, VerifierPlaces
<1> HIDE DEF v, w
<1>5. VerifierOk(v, crl) BY <1>1, <1>4 DEF VerifierOk, StackOk, VerdictOk, Holding
<1>6. verifier' = [verifier EXCEPT ![t] = v] /\ UNCHANGED <<now, crl, crl_cache, crl_files>>
  BY DEF download_failed, v, w
<1> QED BY <1>4, <1>5, <1>6, Before, QuietKeeps DEF CrlTypes, w

LEMMA load_crls_crldp_doneKeeps ==
    ASSUME CrlAssumption, NEW t \in Verifiers, CrlInv, load_crls_crldp_done(t) PROVE CrlInv'
<1> DEFINE w == verifier[t]
           v == IF w.suffix = "crl" /\ w.crls # <<>> /\ w.cert.freshest # <<>>
                THEN [w EXCEPT !.suffix = "crld", !.todo = w.cert.freshest]
                ELSE [w EXCEPT !.at = "answer"]
<1>1. w \in VerifierType /\ w.at = "dp" /\ VerifierOk(w, crl) BY Before DEF load_crls_crldp_done
<1>2. w.cert \in Certificates BY <1>1 DEF VerifierOk
<1>3. w.cert.freshest \in Seq(Urls) BY <1>2 DEF CrlAssumption, Urls
<1>4. /\ v \in VerifierType /\ v.at \in {"dp", "answer"} /\ v.cert = w.cert /\ v.crls = w.crls /\ v.crl = w.crl
      /\ v.verdict = w.verdict
  BY <1>1, <1>3 DEF VerifierType, VerifierPlaces
<1> HIDE DEF v, w
<1>5. VerifierOk(v, crl) BY <1>1, <1>2, <1>4 DEF VerifierOk, StackOk, VerdictOk, Holding
<1>6. verifier' = [verifier EXCEPT ![t] = v] /\ UNCHANGED <<now, crl, crl_cache, crl_files>>
  BY DEF load_crls_crldp_done, v, w
<1> QED BY <1>4, <1>5, <1>6, Before, QuietKeeps DEF CrlTypes, w

\* the lists on a stack are of the issuers their URLs say
LEMMA Judged ==
    ASSUME NEW v, StackOk(v, crl), v.cert.root \in BOOLEAN, v.goOn \in BOOLEAN
    PROVE  /\ check_cert_error_cb(v) \in {"checked", "forgiven", "refused"}
           /\ v.cert.root = FALSE /\ v.goOn = FALSE
                => (check_cert_error_cb(v) = "refused" <=> \A i \in DOMAIN v.crls : IssuerAt[v.crls[i].url] # v.cert.issuer)
<1>1. \A i \in DOMAIN v.crls : crl[v.crls[i].crl].issuer = IssuerAt[v.crls[i].url] BY DEF StackOk, From
<1> QED BY <1>1 DEF check_cert_error_cb

LEMMA verify_certKeeps ==
    ASSUME CrlAssumption, NEW t \in Verifiers, CrlInv, verify_cert(t) PROVE CrlInv'
<1> DEFINE w == verifier[t]
           answer == check_cert_error_cb(w)
           v == [w EXCEPT !.verdict = answer]
<1>1. w \in VerifierType /\ w.at = "answer" /\ VerifierOk(w, crl) BY Before DEF verify_cert
<1>2. w.cert \in Certificates BY <1>1 DEF VerifierOk
<1>3. w.cert.root \in BOOLEAN /\ w.goOn \in BOOLEAN BY <1>1, <1>2 DEF CrlAssumption, VerifierType
<1>4. StackOk(w, crl) BY <1>1 DEF VerifierOk
<1> HIDE DEF w
<1>5. /\ answer \in {"checked", "forgiven", "refused"}
      /\ w.cert.root = FALSE /\ w.goOn = FALSE
           => (answer = "refused" <=> \A i \in DOMAIN w.crls : IssuerAt[w.crls[i].url] # w.cert.issuer)
  BY <1>3, <1>4, Judged
<1> HIDE DEF answer
<1>6. /\ v \in VerifierType /\ v.at = "answer" /\ v.cert = w.cert /\ v.crls = w.crls /\ v.crl = w.crl
      /\ v.verdict = answer /\ v.goOn = w.goOn
  BY <1>1, <1>5 DEF VerifierType, VerifierPlaces
<1> HIDE DEF v
<1>7. VerdictOk(v) BY <1>3, <1>5, <1>6 DEF VerdictOk
<1>8. VerifierOk(v, crl) BY <1>1, <1>2, <1>6, <1>7 DEF VerifierOk, StackOk, Holding
<1>9. verifier' = [verifier EXCEPT ![t] = v] /\ UNCHANGED <<now, crl, crl_cache, crl_files>>
  <2>1. verifier' = [verifier EXCEPT ![t].verdict = check_cert_error_cb(verifier[t])] BY DEF verify_cert
  <2>2. UNCHANGED <<now, crl, crl_cache, crl_files>> BY DEF verify_cert
  <2> QED BY <2>1, <2>2 DEF v, w, answer
<1> QED BY <1>6, <1>8, <1>9, Before, QuietKeeps DEF CrlTypes, w

-----------------------------------------------------------------------------
(* Lists that go to the stack.                                              *)

LEMMA PushedIs ==
    ASSUME NEW v \in VerifierType, v.todo # <<>>, NEW c \in Nat, NEW from \in {"memory", "file", "server"}, now \in Nat
    PROVE  LET w == Pushed(v, c, from)
           IN  /\ w \in VerifierType /\ w.at = "dp" /\ w.crl = 0 /\ w.cert = v.cert /\ w.verdict = v.verdict
               /\ DOMAIN v.crls = 1 .. Len(v.crls) /\ DOMAIN w.crls = 1 .. Len(v.crls) + 1 /\ Len(v.crls) \in Nat
               /\ \A i \in 1 .. Len(v.crls) : w.crls[i] = v.crls[i]
               /\ LET e == w.crls[Len(v.crls) + 1]
                  IN  e.crl = c /\ e.url = Head(v.todo) /\ e.from = from /\ e.at = IF from = "file" THEN v.found ELSE now
<1> DEFINE e == [crl |-> c, url |-> Head(v.todo), from |-> from, at |-> IF from = "file" THEN v.found ELSE now]
           crls == Append(v.crls, e)
           todo == Tail(v.todo)
           w == [v EXCEPT !.at = "dp", !.todo = todo, !.slot = 0, !.crl = 0, !.found = 0, !.crls = crls]
<1>1. v.todo \in Seq(Urls) /\ v.found \in Nat /\ v.crls \in Seq(StackType) BY DEF VerifierType
<1>2. Head(v.todo) \in Urls /\ todo \in Seq(Urls) BY <1>1
<1>3. e \in StackType BY <1>1, <1>2 DEF StackType
<1>4. /\ e.crl = c /\ e.url = Head(v.todo) /\ e.from = from /\ e.at = IF from = "file" THEN v.found ELSE now
  OBVIOUS
<1> HIDE DEF e, todo
<1>5. /\ crls \in Seq(StackType) /\ DOMAIN v.crls = 1 .. Len(v.crls) /\ DOMAIN crls = 1 .. Len(v.crls) + 1
      /\ Len(v.crls) \in Nat /\ crls[Len(v.crls) + 1] = e
      /\ \A i \in 1 .. Len(v.crls) : crls[i] = v.crls[i]
  BY <1>1, <1>3
<1> HIDE DEF crls
<1>6. /\ w \in VerifierType /\ w.at = "dp" /\ w.crl = 0 /\ w.cert = v.cert /\ w.verdict = v.verdict /\ w.crls = crls
  BY <1>2, <1>5 DEF VerifierType, VerifierPlaces
<1>7. Pushed(v, c, from) = w BY DEF Pushed, w, crls, e, todo
<1> HIDE DEF w
<1> QED BY <1>4, <1>5, <1>6, <1>7

LEMMA PushedOk ==
    ASSUME NEW v \in VerifierType, v.at \notin {"idle", "ready", "answer"}, v.todo # <<>>, now \in Nat,
           NEW lists, VerifierOk(v, lists),
           NEW c \in Nat, c # 0, From(lists, c, Head(v.todo)), NEW from \in {"memory", "file", "server"},
           from = "file" => v.found < lists[c].until, from = "memory" => now < lists[c].until
    PROVE  VerifierOk(Pushed(v, c, from), lists)
<1> DEFINE w == Pushed(v, c, from)
<1>1. /\ w.at = "dp" /\ w.crl = 0 /\ w.cert = v.cert /\ w.verdict = v.verdict
      /\ DOMAIN v.crls = 1 .. Len(v.crls) /\ DOMAIN w.crls = 1 .. Len(v.crls) + 1 /\ Len(v.crls) \in Nat
      /\ \A i \in 1 .. Len(v.crls) : w.crls[i] = v.crls[i]
      /\ w.crls[Len(v.crls) + 1].crl = c /\ w.crls[Len(v.crls) + 1].url = Head(v.todo)
      /\ w.crls[Len(v.crls) + 1].from = from
      /\ w.crls[Len(v.crls) + 1].at = IF from = "file" THEN v.found ELSE now
  BY PushedIs
<1> HIDE DEF w
<1>2. v.verdict = "none" /\ v.cert \in Certificates BY DEF VerifierOk, VerdictOk
<1>3. StackOk(w, lists)
  <2>1. ASSUME NEW i \in 1 .. Len(v.crls)
        PROVE  /\ w.crls[i].crl # 0 /\ From(lists, w.crls[i].crl, w.crls[i].url)
               /\ w.crls[i].from # "server" => w.crls[i].at < lists[w.crls[i].crl].until
    BY <1>1 DEF VerifierOk, StackOk
  <2>2. LET i == Len(v.crls) + 1
        IN  /\ w.crls[i].crl # 0 /\ From(lists, w.crls[i].crl, w.crls[i].url)
            /\ w.crls[i].from # "server" => w.crls[i].at < lists[w.crls[i].crl].until
    BY <1>1
  <2>3. \A i \in DOMAIN w.crls : i \in 1 .. Len(v.crls) \/ i = Len(v.crls) + 1 BY <1>1
  <2> QED BY <2>1, <2>2, <2>3 DEF StackOk
<1>4. VerifierOk(w, lists) BY <1>1, <1>2, <1>3 DEF VerifierOk, VerdictOk, Holding
<1> QED BY <1>4 DEF w

LEMMA PushedPointers ==
    ASSUME NEW t, NEW v \in VerifierType, v.todo # <<>>, NEW c \in Nat, NEW from \in {"memory", "file", "server"}, now \in Nat
    PROVE  /\ PointersOf(t, Pushed(v, c, from)) = StackPointers(t, v) \cup {<<t, Len(v.crls) + 1, c>>}
           /\ \A p \in StackPointers(t, v) : p[1] = t /\ p[2] \in 1 .. Len(v.crls)
           /\ Len(v.crls) \in Nat
<1> DEFINE w == Pushed(v, c, from)
<1>1. /\ w.crl = 0 /\ DOMAIN v.crls = 1 .. Len(v.crls) /\ DOMAIN w.crls = 1 .. Len(v.crls) + 1 /\ Len(v.crls) \in Nat
      /\ \A i \in 1 .. Len(v.crls) : w.crls[i] = v.crls[i]
      /\ w.crls[Len(v.crls) + 1].crl = c
  BY PushedIs
<1> HIDE DEF w
<1>2. PointersOf(t, w) = {<<t, n, w.crls[n].crl>> : n \in 1 .. Len(v.crls) + 1} BY <1>1 DEF PointersOf, StackPointers
<1>3. StackPointers(t, v) = {<<t, n, w.crls[n].crl>> : n \in 1 .. Len(v.crls)} BY <1>1 DEF StackPointers
<1>4. \A n : n \in 1 .. Len(v.crls) + 1 <=> n \in 1 .. Len(v.crls) \/ n = Len(v.crls) + 1 BY <1>1
<1>5. PointersOf(t, w) = StackPointers(t, v) \cup {<<t, Len(v.crls) + 1, c>>} BY <1>1, <1>2, <1>3, <1>4
<1>6. \A p \in StackPointers(t, v) : p[1] = t /\ p[2] \in 1 .. Len(v.crls) BY <1>3
<1> QED BY <1>1, <1>5, <1>6 DEF w

\* a thread's own list goes to its stack
LEMMA OwnPushed ==
    ASSUME CrlAssumption, NEW t \in Verifiers, NEW v \in VerifierType, v.todo # <<>>, v.crl # 0, now \in Nat,
           NEW from \in {"memory", "file", "server"}, NEW lists, NEW cache,
           Counted(lists, InCache(cache) \cup OfOthers(t) \cup PointersOf(t, v))
    PROVE  Counted(lists, InCache(cache) \cup OfOthers(t) \cup PointersOf(t, Pushed(v, v.crl, from)))
<1> DEFINE R == InCache(cache) \cup OfOthers(t)
           S == StackPointers(t, v)
           own == <<t, 0, v.crl>>
           pushed == <<t, Len(v.crls) + 1, v.crl>>
<1>1. v.crl \in Nat BY DEF VerifierType
<1>2. /\ PointersOf(t, Pushed(v, v.crl, from)) = S \cup {pushed}
      /\ \A p \in S : p[1] = t /\ p[2] \in 1 .. Len(v.crls)
      /\ Len(v.crls) \in Nat
  BY <1>1, PushedPointers
<1>3. PointersOf(t, v) = S \cup {own} BY DEF PointersOf
<1>4. \A p \in R : p[1] # t BY Apart
<1>5. own[1] = t /\ own[2] = 0 /\ own[3] = v.crl /\ pushed[1] = t /\ pushed[2] = Len(v.crls) + 1 /\ pushed[3] = v.crl
  OBVIOUS
<1> HIDE DEF R, S, own, pushed
<1>6. own \notin R /\ own \notin S /\ pushed \notin R /\ pushed \notin S /\ pushed # own
  BY <1>2, <1>4, <1>5
<1>7. Counted(lists, R \cup S \cup {own})
  <2>1. R \cup S \cup {own} = InCache(cache) \cup OfOthers(t) \cup PointersOf(t, v) BY <1>3 DEF R
  <2> QED BY <2>1
<1>8. Counted(lists, ((R \cup S \cup {own}) \ {own}) \cup {pushed})
  BY <1>5, <1>6, <1>7, MovedCounted
<1>9. ((R \cup S \cup {own}) \ {own}) \cup {pushed} = InCache(cache) \cup OfOthers(t) \cup PointersOf(t, Pushed(v, v.crl, from))
  BY <1>2, <1>6 DEF R
<1> QED BY <1>8, <1>9

\* and the step does nothing else, but for files
LEMMA PushKeeps ==
    ASSUME CrlAssumption, CrlInv, NEW t \in Verifiers, verifier[t].at \in Holding,
           NEW from \in {"file", "server"}, from = "file" => verifier[t].at = "keep_file",
           verifier' = [verifier EXCEPT ![t] = Pushed(verifier[t], verifier[t].crl, from)],
           now' = now, crl' = crl, crl_cache' = crl_cache,
           crl_files' \in [Urls \X {"crl", "crld"} -> [1 .. FileSlots -> FileType]], FilesOk(crl_files')
    PROVE  CrlInv'
<1> DEFINE w == verifier[t]
           v == Pushed(w, w.crl, from)
<1>1. w \in VerifierType /\ VerifierOk(w, crl) /\ now \in Nat /\ CrlTypes /\ CacheOk(crl_cache, crl) /\ Grown(crl, crl)
  BY Before DEF CrlTypes
<1>2. /\ w.todo # <<>> /\ w.crl # 0 /\ w.crl \in Nat /\ From(crl, w.crl, Head(w.todo))
      /\ w.at = "keep_file" => w.found < crl[w.crl].until
      /\ w.at \notin {"idle", "ready", "answer"}
  BY <1>1 DEF VerifierOk, VerifierType, Holding
<1>3. Counted(crl, InCache(crl_cache) \cup OfOthers(t) \cup PointersOf(t, w)) BY Before
<1> HIDE DEF w
<1>4. Counted(crl, InCache(crl_cache) \cup OfOthers(t) \cup PointersOf(t, v)) BY <1>1, <1>2, <1>3, OwnPushed
<1>5. from = "file" => w.found < crl[w.crl].until BY <1>2 DEF w
<1>6. VerifierOk(v, crl) BY <1>1, <1>2, <1>5, PushedOk
<1>7. v \in VerifierType BY <1>1, <1>2, PushedIs
<1>8. verifier' = [verifier EXCEPT ![t] = v] BY DEF w
<1> HIDE DEF v
<1> QED BY <1>1, <1>4, <1>6, <1>7, <1>8, ThreadKeeps DEF CrlTypes

LEMMA save_crl_accessKeeps ==
    ASSUME CrlAssumption, NEW t \in Verifiers, CrlInv, save_crl_access(t) PROVE CrlInv'
<1>0. /\ verifier[t].at = "save" /\ UNCHANGED <<now, crl, crl_cache, crl_files>>
      /\ CrlTypes /\ FilesOk(crl_files) /\ verifier[t] \in VerifierType /\ VerifierOk(verifier[t], crl)
  BY Before DEF save_crl_access
<1>1. CASE verifier[t].slot > FileSlots
  <2>1. verifier' = [verifier EXCEPT ![t] = Pushed(verifier[t], verifier[t].crl, "server")]
    BY <1>1 DEF save_crl_access
  <2> QED BY <1>0, <2>1, PushKeeps DEF Holding, CrlTypes
<1>2. CASE ~(verifier[t].slot > FileSlots)
  <2> DEFINE w == verifier[t]
             n == w.slot + 1
             v == IF crl_files[Files(t)][w.slot] # NoFile THEN [w EXCEPT !.slot = n] ELSE [w EXCEPT !.at = "write"]
  <2>0. n \in Nat BY <1>0 DEF VerifierType
  <2>1. verifier' = [verifier EXCEPT ![t] = v]
    <3>1. verifier' = [verifier EXCEPT ![t] = IF w.slot > FileSlots THEN Pushed(w, w.crl, "server") ELSE v]
      BY Zenon DEF save_crl_access
    <3> HIDE DEF v
    <3> QED BY <3>1, <1>2
  <2>2. w \in VerifierType /\ w.at = "save" /\ VerifierOk(w, crl) BY <1>0
  <2> HIDE DEF n
  <2>3. /\ v \in VerifierType /\ v.at \in {"save", "write"} /\ v.cert = w.cert /\ v.crls = w.crls /\ v.crl = w.crl
        /\ v.todo = w.todo /\ v.verdict = w.verdict
    BY <2>0, <2>2 DEF VerifierType, VerifierPlaces, Holding
  <2> HIDE DEF v, w
  <2>4. VerifierOk(v, crl) BY <2>2, <2>3 DEF VerifierOk, StackOk, VerdictOk, Holding
  <2> QED BY <1>0, <2>1, <2>3, <2>4, QuietKeeps DEF CrlTypes, w
<1> QED BY <1>1, <1>2

\* a file that is written or removed
LEMMA FileChanged ==
    ASSUME CrlTypes, FilesOk(crl_files), NEW url \in Urls, NEW suffix \in {"crl", "crld"}, NEW n,
           NEW file \in FileType, file = NoFile \/ file.issuer = IssuerAt[url],
           NEW files, files = [crl_files EXCEPT ![<<url, suffix>>][n] = file]
    PROVE  files \in [Urls \X {"crl", "crld"} -> [1 .. FileSlots -> FileType]] /\ FilesOk(files)
<1> DEFINE key == <<url, suffix>>
           slots == [crl_files[key] EXCEPT ![n] = file]
<1>1. key \in Urls \X {"crl", "crld"} /\ key[1] = url OBVIOUS
<1>2. crl_files[key] \in [1 .. FileSlots -> FileType] BY <1>1 DEF CrlTypes
<1>3. slots \in [1 .. FileSlots -> FileType] /\ \A m \in 1 .. FileSlots : slots[m] \in {file, crl_files[key][m]}
  BY <1>2
<1>4. files = [crl_files EXCEPT ![key] = slots] OBVIOUS
<1> HIDE DEF key, slots
<1>5. /\ files \in [Urls \X {"crl", "crld"} -> [1 .. FileSlots -> FileType]]
      /\ \A f \in Urls \X {"crl", "crld"} : files[f] = IF f = key THEN slots ELSE crl_files[f]
  BY <1>3, <1>4 DEF CrlTypes
<1>6. FilesOk(files)
  <2>1. ASSUME NEW m \in 1 .. FileSlots, slots[m] # NoFile PROVE slots[m].issuer = IssuerAt[key[1]]
    BY <2>1, <1>1, <1>3 DEF FilesOk
  <2> QED BY <2>1, <1>1, <1>5 DEF FilesOk
<1> QED BY <1>5, <1>6

LEMMA save_cert_crl_fileKeeps ==
    ASSUME CrlAssumption, NEW t \in Verifiers, CrlInv, save_cert_crl_file(t) PROVE CrlInv'
<1> DEFINE w == verifier[t]
           file == [issuer |-> crl[w.crl].issuer, until |-> crl[w.crl].until]
<1>1. /\ w.at = "write" /\ UNCHANGED <<now, crl, crl_cache>> /\ CrlTypes /\ FilesOk(crl_files)
      /\ w \in VerifierType /\ VerifierOk(w, crl)
  BY Before DEF save_cert_crl_file
<1>2. w.todo # <<>> /\ w.todo \in Seq(Urls) /\ w.suffix \in {"crl", "crld"} /\ From(crl, w.crl, Head(w.todo))
  BY <1>1 DEF VerifierOk, VerifierType, Holding
<1>3. Head(w.todo) \in Urls BY <1>2
<1>4. crl[w.crl] \in ListType /\ crl[w.crl].issuer = IssuerAt[Head(w.todo)] BY <1>1, <1>2 DEF From, CrlTypes
<1>5. file \in FileType /\ file.issuer = IssuerAt[Head(w.todo)] BY <1>4 DEF FileType, ListType
<1>6. crl_files' \in {crl_files, [crl_files EXCEPT ![<<Head(w.todo), w.suffix>>][w.slot] = file]}
  BY DEF save_cert_crl_file, Files, Url
<1>7. verifier' = [verifier EXCEPT ![t] = Pushed(w, w.crl, "server")] BY DEF save_cert_crl_file
<1> HIDE DEF file
<1>8. crl_files' \in [Urls \X {"crl", "crld"} -> [1 .. FileSlots -> FileType]] /\ FilesOk(crl_files')
  <2>1. CASE crl_files' = crl_files BY <1>1, <2>1 DEF CrlTypes
  <2>2. CASE crl_files' = [crl_files EXCEPT ![<<Head(w.todo), w.suffix>>][w.slot] = file]
    BY <2>2, <1>1, <1>2, <1>3, <1>5, FileChanged
  <2> QED BY <1>6, <2>1, <2>2
<1> QED BY <1>1, <1>7, <1>8, PushKeeps DEF Holding

-----------------------------------------------------------------------------
(* Lists that are made and freed.                                           *)

LEMMA FreedGrown ==
    ASSUME NEW lists \in Seq(ListType), NEW c \in DOMAIN lists, c # 0
    PROVE  Grown(lists, X509_CRL_free(lists, c))
<1>1. lists[c] \in ListType OBVIOUS
<1>2. lists[c].refs - 1 \in Int BY <1>1 DEF ListType
<1>3. X509_CRL_free(lists, c) = [lists EXCEPT ![c].refs = lists[c].refs - 1] BY DEF X509_CRL_free
<1> QED BY <1>2, <1>3, RefsChanged DEF Grown

LEMMA FreeAllGrown ==
    ASSUME NEW lists \in Seq(ListType), NEW D, IsFiniteSet(D)
    PROVE  Grown(lists, FreeAll(lists, D)) /\ DOMAIN FreeAll(lists, D) = DOMAIN lists
<1>1. ASSUME NEW c \in DOMAIN lists
      PROVE  FreeAll(lists, D)[c].issuer = lists[c].issuer /\ FreeAll(lists, D)[c].until = lists[c].until
  <2>1. FreeAll(lists, D)[c] = [lists[c] EXCEPT !.refs = lists[c].refs - Cardinality(To(D, c))] BY DEF FreeAll
  <2>2. lists[c] \in ListType /\ Cardinality(To(D, c)) \in Nat BY ToFinite
  <2>3. lists[c].refs - Cardinality(To(D, c)) \in Int BY <2>2 DEF ListType
  <2> QED BY <2>1, <2>2, <2>3, ListChanged
<1>2. DOMAIN FreeAll(lists, D) = DOMAIN lists BY DEF FreeAll
<1> QED BY <1>1, <1>2 DEF Grown

\* a new list is the thread's own
TakesList(t, issuer, until, taken) ==
    /\ issuer = IssuerAt[Url(t)]
    /\ crl' = Append(crl, [issuer |-> issuer, until |-> until, refs |-> 1])
    /\ verifier' = [verifier EXCEPT ![t].at = taken, ![t].crl = Len(crl) + 1]
    /\ now' = now /\ crl_cache' = crl_cache /\ crl_files' = crl_files

LEMMA ListTaken ==
    ASSUME CrlAssumption, CrlInv, NEW t \in Verifiers, verifier[t].at = "file",
           NEW issuer, NEW until \in Nat,
           NEW taken \in {"read", "keep_download"}, TakesList(t, issuer, until, taken)
    PROVE  CrlInv'
<1> DEFINE w == verifier[t]
           n == Len(crl) + 1
           v == [w EXCEPT !.at = taken, !.crl = n]
           R == InCache(crl_cache) \cup OfOthers(t)
           own == <<t, 0, n>>
<1>1. /\ w \in VerifierType /\ w.at = "file" /\ VerifierOk(w, crl) /\ CrlTypes /\ CacheOk(crl_cache, crl)
      /\ FilesOk(crl_files) /\ Counted(crl, R \cup PointersOf(t, w))
  BY Before
<1>2. w.todo # <<>> /\ w.todo \in Seq(Urls) /\ w.crl = 0 /\ w.slot # 0 /\ w.cert \in Certificates
  BY <1>1 DEF VerifierOk, VerifierType, Holding
<1>3. Head(w.todo) \in Urls /\ issuer = IssuerAt[Head(w.todo)]
  <2>1. Head(w.todo) \in Urls BY <1>2
  <2>2. Url(t) = Head(w.todo) BY DEF Url
  <2> QED BY <2>1, <2>2 DEF TakesList
<1>4. issuer \in Issuers BY <1>3 DEF Issuers
<1>5. crl \in Seq(ListType) BY <1>1 DEF CrlTypes
<1>6. /\ n \in Nat /\ n # 0 /\ n \in DOMAIN crl' /\ crl'[n].issuer = issuer
      /\ Grown(crl, crl')
  <2> DEFINE list == [issuer |-> issuer, until |-> until, refs |-> 1]
  <2>1. list \in ListType /\ list.issuer = issuer BY <1>4 DEF ListType
  <2>2. crl' = Append(crl, list) BY DEF TakesList
  <2> HIDE DEF list
  <2>3. /\ Len(crl) \in Nat /\ DOMAIN crl = 1 .. Len(crl) /\ DOMAIN crl' = 1 .. n /\ crl'[n] = list
        /\ \A c \in 1 .. Len(crl) : crl'[c] = crl[c]
    BY <1>5, <2>1, <2>2
  <2> QED BY <2>1, <2>3 DEF Grown
<1>7. verifier' = [verifier EXCEPT ![t] = v] /\ now' = now /\ crl_cache' = crl_cache /\ crl_files' = crl_files
  BY DEF TakesList
<1> HIDE DEF n, w
<1>8. /\ v \in VerifierType /\ v.at = taken /\ v.crl = n /\ v.crls = w.crls /\ v.cert = w.cert /\ v.todo = w.todo
      /\ v.verdict = w.verdict /\ v.slot = w.slot
  BY <1>1, <1>6 DEF VerifierType, VerifierPlaces, Holding
<1> HIDE DEF v
<1>9. StackOk(v, crl') /\ VerdictOk(v)
  <2>1. StackOk(w, crl') BY <1>1, <1>6, StackGrown DEF VerifierOk
  <2> QED BY <1>1, <1>8, <2>1 DEF VerifierOk, StackOk, VerdictOk
<1>10. VerifierOk(v, crl')
  <2>1. From(crl', v.crl, Head(v.todo)) BY <1>3, <1>6, <1>8 DEF From
  <2> QED BY <1>2, <1>6, <1>8, <1>9, <2>1 DEF VerifierOk, Holding
<1>11. PointersOf(t, v) = PointersOf(t, w) \cup {own} BY <1>2, <1>6, <1>8 DEF PointersOf, StackPointers
<1>12. own[3] = Len(crl) + 1 BY DEF n
<1> HIDE DEF R, own
<1>13. crl' \in Seq(ListType) /\ Counted(crl', R \cup PointersOf(t, w) \cup {own})
  BY <1>1, <1>4, <1>5, <1>12, AppendCounted DEF TakesList
<1>14. Counted(crl', InCache(crl_cache) \cup OfOthers(t) \cup PointersOf(t, v))
  <2>1. R \cup PointersOf(t, w) \cup {own} = InCache(crl_cache) \cup OfOthers(t) \cup PointersOf(t, v)
    BY <1>11 DEF R
  <2> QED BY <1>13, <2>1
<1>15. CacheOk(crl_cache, crl') BY <1>1, <1>6, CacheGrown
<1> QED BY <1>1, <1>6, <1>7, <1>8, <1>10, <1>13, <1>14, <1>15, ThreadKeeps DEF CrlTypes

LEMMA load_crlKeeps ==
    ASSUME CrlAssumption, NEW t \in Verifiers, CrlInv, load_crl(t) PROVE CrlInv'
<1> DEFINE w == verifier[t]
           file == crl_files[Files(t)][w.slot]
<1>1. /\ w \in VerifierType /\ w.at = "file" /\ VerifierOk(w, crl) /\ CrlTypes /\ FilesOk(crl_files)
      /\ w.slot <= FileSlots /\ UNCHANGED <<now, crl_cache, crl_files>>
  BY Before DEF load_crl
<1>2. CASE file = NoFile
  <2> DEFINE n == w.slot + 1
             v == [w EXCEPT !.slot = n]
  <2>1. n \in Nat /\ n # 0 BY <1>1 DEF VerifierType
  <2>2. verifier' = [verifier EXCEPT ![t] = v] /\ crl' = crl BY <1>2 DEF load_crl
  <2> HIDE DEF n, w
  <2>3. /\ v \in VerifierType /\ v.at = "file" /\ v.cert = w.cert /\ v.crls = w.crls /\ v.crl = w.crl
        /\ v.todo = w.todo /\ v.verdict = w.verdict /\ v.slot # 0
    BY <1>1, <2>1 DEF VerifierType, VerifierPlaces
  <2> HIDE DEF v
  <2>4. VerifierOk(v, crl) BY <1>1, <2>3 DEF VerifierOk, StackOk, VerdictOk, Holding
  <2> QED BY <1>1, <2>2, <2>3, <2>4, QuietKeeps DEF CrlTypes, w
<1>3. CASE file # NoFile
  <2>1. w.todo # <<>> /\ w.todo \in Seq(Urls) /\ w.suffix \in {"crl", "crld"} /\ w.slot \in Nat /\ w.slot # 0
    BY <1>1 DEF VerifierOk, VerifierType, Holding
  <2>2. Url(t) \in Urls /\ Files(t) = <<Url(t), w.suffix>> BY <2>1 DEF Url, Files
  <2>3. FileSlots \in Nat BY DEF CrlAssumption
  <2>4. w.slot \in 1 .. FileSlots BY <1>1, <2>1, <2>3
  <2>5. file \in FileType /\ file.issuer = IssuerAt[Url(t)]
    BY <1>1, <1>3, <2>1, <2>2, <2>4 DEF FilesOk, CrlTypes
  <2>6. file.until \in Nat BY <2>5 DEF FileType
  <2>7. TakesList(t, file.issuer, file.until, "read") BY <1>3, <2>5 DEF load_crl, TakesList
  <2> HIDE DEF file
  <2> QED BY <1>1, <2>5, <2>6, <2>7, ListTaken
<1> QED BY <1>2, <1>3

LEMMA load_cert_crl_httpKeeps ==
    ASSUME CrlAssumption, NEW t \in Verifiers, CrlInv, NEW until \in {now, now + 1}, load_cert_crl_http(t, until)
    PROVE  CrlInv'
<1>1. until \in Nat BY DEF CrlInv, CrlTypes
<1>2. TakesList(t, IssuerAt[Url(t)], until, "keep_download") BY DEF load_cert_crl_http, TakesList
<1> QED BY <1>1, <1>2, ListTaken DEF load_cert_crl_http

LEMMA load_cert_crl_fileKeeps ==
    ASSUME CrlAssumption, NEW t \in Verifiers, CrlInv, load_cert_crl_file(t) PROVE CrlInv'
<1> DEFINE w == verifier[t]
<1>1. /\ w \in VerifierType /\ w.at = "read" /\ VerifierOk(w, crl) /\ CrlTypes /\ FilesOk(crl_files) /\ CacheOk(crl_cache, crl)
      /\ UNCHANGED <<now, crl_cache>> /\ Counted(crl, InCache(crl_cache) \cup OfOthers(t) \cup PointersOf(t, w))
  BY Before DEF load_cert_crl_file
<1>2. /\ w.todo # <<>> /\ w.todo \in Seq(Urls) /\ w.suffix \in {"crl", "crld"} /\ w.slot \in Nat
      /\ w.crl # 0 /\ w.crl \in DOMAIN crl
  BY <1>1 DEF VerifierOk, VerifierType, Holding, From
<1>3. CASE is_valid_crl(w.cert, crl[w.crl])
  <2> DEFINE v == [w EXCEPT !.at = "keep_file", !.found = now]
  <2>1. verifier' = [verifier EXCEPT ![t] = v] /\ UNCHANGED <<crl, crl_files>> BY <1>3 DEF load_cert_crl_file
  <2>2. now < crl[w.crl].until BY <1>3 DEF is_valid_crl, crl_valid
  <2>3. now \in Nat BY <1>1 DEF CrlTypes
  <2> HIDE DEF w
  <2>4. /\ v \in VerifierType /\ v.at = "keep_file" /\ v.cert = w.cert /\ v.crls = w.crls /\ v.crl = w.crl
        /\ v.todo = w.todo /\ v.verdict = w.verdict /\ v.found = now
    BY <1>1, <2>3 DEF VerifierType, VerifierPlaces, Holding
  <2> HIDE DEF v
  <2>5. VerifierOk(v, crl) BY <1>1, <2>2, <2>4 DEF VerifierOk, StackOk, VerdictOk, Holding
  <2> QED BY <1>1, <2>1, <2>4, <2>5, QuietKeeps DEF CrlTypes, w
<1>4. CASE ~is_valid_crl(w.cert, crl[w.crl])
  <2> DEFINE n == w.slot + 1
             v == [w EXCEPT !.at = "file", !.slot = n, !.crl = 0]
             own == <<t, 0, w.crl>>
             R == InCache(crl_cache) \cup OfOthers(t)
  <2>1. /\ verifier' = [verifier EXCEPT ![t] = v] /\ crl' = X509_CRL_free(crl, w.crl)
        /\ crl_files' = [crl_files EXCEPT ![Files(t)][w.slot] = NoFile]
    BY <1>4 DEF load_cert_crl_file
  <2>2. n \in Nat /\ n # 0 BY <1>2
  <2>3. Files(t) = <<Head(w.todo), w.suffix>> /\ Head(w.todo) \in Urls BY <1>2 DEF Files, Url
  <2>4. NoFile \in FileType BY DEF NoFile, FileType
  <2>5. crl_files' \in [Urls \X {"crl", "crld"} -> [1 .. FileSlots -> FileType]] /\ FilesOk(crl_files')
    BY <1>1, <1>2, <2>1, <2>3, <2>4, FileChanged
  <2>6. crl \in Seq(ListType) BY <1>1 DEF CrlTypes
  <2>7. Grown(crl, crl') BY <1>2, <2>1, <2>6, FreedGrown
  <2> HIDE DEF n, w
  <2>8. /\ v \in VerifierType /\ v.at = "file" /\ v.cert = w.cert /\ v.crls = w.crls /\ v.crl = 0
        /\ v.todo = w.todo /\ v.verdict = w.verdict /\ v.slot # 0
    BY <1>1, <2>2 DEF VerifierType, VerifierPlaces, Holding
  <2> HIDE DEF v
  <2>9. StackOk(v, crl') /\ VerdictOk(v)
    <3>1. StackOk(w, crl') BY <1>1, <2>7, StackGrown DEF VerifierOk
    <3> QED BY <1>1, <2>8, <3>1 DEF VerifierOk, StackOk, VerdictOk
  <2>10. VerifierOk(v, crl') BY <1>1, <2>8, <2>9 DEF VerifierOk, Holding
  <2>11. PointersOf(t, w) = StackPointers(t, w) \cup {own} /\ PointersOf(t, v) = StackPointers(t, w)
    BY <1>2, <2>8 DEF PointersOf, StackPointers
  <2>12. own \notin R /\ own \notin StackPointers(t, w)
    <3>1. own \notin R BY Apart
    <3>2. w.crls \in Seq(StackType) BY <1>1 DEF VerifierType
    <3>3. 0 \notin DOMAIN w.crls BY <3>2
    <3> QED BY <3>1, <3>3 DEF StackPointers
  <2>13. own[3] = w.crl OBVIOUS
  <2> HIDE DEF R, own
  <2>14. Counted(crl, R \cup PointersOf(t, w)) /\ own \in R \cup PointersOf(t, w) BY <1>1, <2>11 DEF R
  <2>15. crl' \in Seq(ListType) /\ Counted(crl', (R \cup PointersOf(t, w)) \ {own})
    BY <1>2, <2>1, <2>6, <2>13, <2>14, FreedCounted
  <2>16. (R \cup PointersOf(t, w)) \ {own} = InCache(crl_cache) \cup OfOthers(t) \cup PointersOf(t, v)
    BY <2>11, <2>12 DEF R
  <2>17. Counted(crl', InCache(crl_cache) \cup OfOthers(t) \cup PointersOf(t, v)) BY <2>15, <2>16
  <2>18. CacheOk(crl_cache, crl') BY <1>1, <2>7, CacheGrown
  <2> QED BY <1>1, <2>1, <2>5, <2>7, <2>8, <2>10, <2>15, <2>17, <2>18, ThreadKeeps DEF CrlTypes
<1> QED BY <1>3, <1>4

LEMMA sk_X509_CRL_pop_freeKeeps ==
    ASSUME CrlAssumption, NEW t \in Verifiers, CrlInv, sk_X509_CRL_pop_free(t) PROVE CrlInv'
<1> DEFINE w == verifier[t]
           S == StackPointers(t, w)
           R == InCache(crl_cache) \cup OfOthers(t)
<1>1. /\ w \in VerifierType /\ w.verdict # "none" /\ VerifierOk(w, crl) /\ CrlTypes /\ FilesOk(crl_files)
      /\ CacheOk(crl_cache, crl) /\ Counted(crl, R \cup PointersOf(t, w))
      /\ UNCHANGED <<now, crl_cache, crl_files>> /\ crl' = FreeAll(crl, S)
      /\ verifier' = [verifier EXCEPT ![t] = IdleVerifier]
  BY Before DEF sk_X509_CRL_pop_free
<1>2. w.crl = 0 BY <1>1 DEF VerifierOk, VerdictOk, Holding
<1>3. PointersOf(t, w) = S BY <1>2 DEF PointersOf
<1>4. \A p \in R : p[1] # t BY Apart
<1>5. \A p \in S : p[1] = t BY DEF StackPointers
<1>6. crl \in Seq(ListType) BY <1>1 DEF CrlTypes
<1> HIDE DEF R, S
<1>7. S \subseteq R \cup S /\ (R \cup S) \ S = R BY <1>4, <1>5
<1>8. crl' \in Seq(ListType) /\ Counted(crl', R)
  <2>1. Counted(crl, R \cup S) BY <1>1, <1>3
  <2>2. FreeAll(crl, S) \in Seq(ListType) /\ Counted(FreeAll(crl, S), (R \cup S) \ S)
    BY <1>6, <1>7, <2>1, FreeAllCounted
  <2> QED BY <1>1, <1>7, <2>2
<1>9. IsFiniteSet(S) BY <1>1, <1>3, FS_Subset DEF Counted
<1>10. Grown(crl, crl') BY <1>1, <1>6, <1>9, FreeAllGrown
<1>11. /\ IdleVerifier \in VerifierType /\ VerifierOk(IdleVerifier, crl') /\ PointersOf(t, IdleVerifier) = {}
  BY IdleOk
<1>12. Counted(crl', InCache(crl_cache) \cup OfOthers(t) \cup PointersOf(t, IdleVerifier))
  <2>1. R = InCache(crl_cache) \cup OfOthers(t) \cup PointersOf(t, IdleVerifier) BY <1>11 DEF R
  <2> QED BY <1>8, <2>1
<1>13. CacheOk(crl_cache, crl') BY <1>1, <1>10, CacheGrown
<1> QED BY <1>1, <1>8, <1>10, <1>11, <1>12, <1>13, ThreadKeeps DEF CrlTypes

LEMMA clear_crl_cacheKeeps == CrlAssumption /\ CrlInv /\ clear_crl_cache => CrlInv'
<1> SUFFICES ASSUME CrlAssumption, CrlInv, clear_crl_cache PROVE CrlInv'
  OBVIOUS
<1>1. /\ crl' = FreeAll(crl, CachePointers) /\ crl_cache' = <<>> /\ UNCHANGED <<now, crl_files, verifier>>
  BY DEF clear_crl_cache
<1>2. /\ crl \in Seq(ListType) /\ Counted(crl, ListPointers) /\ \A t \in Verifiers : VerifierOk(verifier[t], crl)
  BY DEF CrlInv, CrlTypes
<1>3. ListPointers = CachePointers \cup UNION {PointersOf(t, verifier[t]) : t \in Verifiers} BY DEF ListPointers
<1>4. ListPointers' = UNION {PointersOf(t, verifier[t]) : t \in Verifiers}
  BY <1>1 DEF ListPointers, CachePointers
<1>5. \A p \in CachePointers : p[1] = "cache" BY DEF CachePointers
<1>6. \A p \in UNION {PointersOf(t, verifier[t]) : t \in Verifiers} : p[1] # "cache"
  <2>1. ASSUME NEW t \in Verifiers, NEW p \in PointersOf(t, verifier[t]) PROVE p[1] # "cache" BY Apart
  <2> QED BY <2>1
<1>7. CachePointers \subseteq ListPointers /\ ListPointers \ CachePointers = ListPointers'
  BY <1>3, <1>4, <1>5, <1>6
<1>8. crl' \in Seq(ListType) /\ Counted(crl', ListPointers') BY <1>1, <1>2, <1>7, FreeAllCounted
<1>9. IsFiniteSet(CachePointers) BY <1>2, <1>7, FS_Subset DEF Counted
<1>10. Grown(crl, crl') BY <1>1, <1>2, <1>9, FreeAllGrown
<1>11. \A t \in Verifiers : VerifierOk(verifier'[t], crl') BY <1>1, <1>2, <1>10, VerifierGrown
<1>12. CrlTypes' BY <1>1, <1>8 DEF CrlInv, CrlTypes
<1>13. CacheOk(crl_cache', crl') BY <1>1 DEF CacheOk
<1>14. FilesOk(crl_files') BY <1>1 DEF CrlInv
<1> QED BY <1>8, <1>11, <1>12, <1>13, <1>14 DEF CrlInv

-----------------------------------------------------------------------------
(* The cache.                                                               *)

LEMMA FirstValidIs ==
    ASSUME crl_cache \in Seq(CacheType), NEW url
    PROVE  \/ FirstValid(url) = 0
           \/ /\ FirstValid(url) \in EntriesFor(url) /\ FirstValid(url) # 0
              /\ crl_valid(crl[crl_cache[FirstValid(url)].crl])
<1> DEFINE valid == {n \in EntriesFor(url) : crl_valid(crl[crl_cache[n].crl])}
<1>1. valid \subseteq Nat /\ 0 \notin valid BY DEF EntriesFor
<1>2. FirstValid(url) = IF valid = {} THEN 0 ELSE Min(valid) BY DEF FirstValid
<1>3. valid # {} => Min(valid) \in valid
  <2> HIDE DEF valid
  <2> QED BY <1>1, Least
<1> QED BY <1>1, <1>2, <1>3

LEMMA EntryIs ==
    ASSUME crl_cache \in Seq(CacheType), NEW url
    PROVE  Entry(url) \in Nat /\ Entry(url) # 0 /\ Entry(url) <= Len(crl_cache) + 1 /\ Len(crl_cache) \in Nat
<1> DEFINE free == {n \in DOMAIN crl_cache : crl_cache[n].crl = 0 \/ ~crl_valid(crl[crl_cache[n].crl])}
<1>1. free \subseteq DOMAIN crl_cache /\ EntriesFor(url) \subseteq DOMAIN crl_cache BY DEF EntriesFor
<1>2. Len(crl_cache) \in Nat /\ DOMAIN crl_cache = 1 .. Len(crl_cache) OBVIOUS
<1>3. Entry(url) = IF EntriesFor(url) # {} THEN Min(EntriesFor(url))
                   ELSE IF free # {} THEN Min(free) ELSE Len(crl_cache) + 1
  BY DEF Entry
<1> HIDE DEF free
<1>4. DOMAIN crl_cache \subseteq Nat BY <1>2
<1>5. EntriesFor(url) # {} => Min(EntriesFor(url)) \in DOMAIN crl_cache BY <1>1, <1>4, Least
<1>6. free # {} => Min(free) \in DOMAIN crl_cache BY <1>1, <1>4, Least
<1>7. Entry(url) \in DOMAIN crl_cache \/ Entry(url) = Len(crl_cache) + 1 BY <1>3, <1>5, <1>6
<1> QED BY <1>2, <1>7

LEMMA UpRefGrown ==
    ASSUME NEW lists \in Seq(ListType), NEW c \in DOMAIN lists
    PROVE  Grown(lists, up_ref(lists, c)) /\ DOMAIN up_ref(lists, c) = DOMAIN lists
<1>1. lists[c] \in ListType OBVIOUS
<1>2. lists[c].refs + 1 \in Int BY <1>1 DEF ListType
<1>3. up_ref(lists, c) = [lists EXCEPT ![c].refs = lists[c].refs + 1] BY DEF up_ref
<1> QED BY <1>2, <1>3, RefsChanged DEF Grown

LEMMA GrownOn ==
    ASSUME NEW a, NEW b, NEW c, Grown(a, b), Grown(b, c)
    PROVE  Grown(a, c)
BY DEF Grown

LEMMA load_cert_crl_memoryKeeps ==
    ASSUME CrlAssumption, NEW t \in Verifiers, CrlInv, load_cert_crl_memory(t) PROVE CrlInv'
<1> DEFINE w == verifier[t]
           url == Url(t)
           found == FirstValid(url)
           c == crl_cache[found].crl
           outdated == {n \in EntriesFor(url) : ~crl_valid(crl[crl_cache[n].crl]) /\ (found = 0 \/ n < found)}
           D == {p \in CachePointers : p[2] \in outdated}
           freed == FreeAll(crl, D)
           R == InCache(crl_cache) \cup OfOthers(t)
           S == PointersOf(t, w)
           cache == [n \in DOMAIN crl_cache |-> IF n \in outdated THEN NoEntry ELSE crl_cache[n]]
<1>1. /\ w \in VerifierType /\ w.at = "dp" /\ w.todo # <<>> /\ VerifierOk(w, crl) /\ CrlTypes /\ FilesOk(crl_files)
      /\ CacheOk(crl_cache, crl) /\ Counted(crl, R \cup S) /\ UNCHANGED <<now, crl_files>>
  BY Before DEF load_cert_crl_memory
<1>2. crl_cache' = cache /\ crl' = (IF found = 0 THEN freed ELSE up_ref(freed, c))
  BY DEF load_cert_crl_memory
<1>3. verifier' = [verifier EXCEPT ![t] = IF found # 0 THEN Pushed(w, c, "memory") ELSE [w EXCEPT !.at = "file", !.slot = 1]]
  BY DEF load_cert_crl_memory
<1>4. /\ crl \in Seq(ListType) /\ crl_cache \in Seq(CacheType) /\ now \in Nat /\ url = Head(w.todo) /\ w.crl = 0
      /\ w.cert \in Certificates
  BY <1>1 DEF CrlTypes, Url, VerifierOk, Holding
<1>5. D \subseteq R \cup S /\ (R \cup S) \ D = InCache(cache) \cup OfOthers(t) \cup S
  <2>1. CachePointers = InCache(crl_cache) BY DEF CachePointers, InCache
  <2>2. ASSUME NEW p PROVE p \in InCache(cache) <=> p \in InCache(crl_cache) /\ p \notin D
    <3>1. ASSUME NEW n \in DOMAIN crl_cache
          PROVE  /\ n \in outdated => cache[n].crl = 0
                 /\ n \notin outdated => cache[n] = crl_cache[n]
      BY DEF NoEntry
    <3>2. DOMAIN cache = DOMAIN crl_cache OBVIOUS
    <3>3. \A q : q \in D <=> q \in InCache(crl_cache) /\ q[2] \in outdated BY <2>1
    <3> HIDE DEF cache, outdated, D
    <3>4. p \in InCache(cache) <=> \E n \in DOMAIN cache : cache[n].crl # 0 /\ p = <<"cache", n, cache[n].crl>>
      BY InCacheIs
    <3>5. p \in InCache(crl_cache) <=> \E n \in DOMAIN crl_cache : crl_cache[n].crl # 0 /\ p = <<"cache", n, crl_cache[n].crl>>
      BY InCacheIs
    <3> QED BY <3>1, <3>2, <3>3, <3>4, <3>5
  <2>3. \A p \in OfOthers(t) \cup S : p[1] # "cache" BY Apart
  <2>4. \A p \in InCache(crl_cache) : p[1] = "cache" BY Apart
  <2>5. D \subseteq InCache(crl_cache) BY <2>1
  <2> HIDE DEF D, cache, S
  <2> QED BY <2>2, <2>3, <2>4, <2>5 DEF R
<1>6. freed \in Seq(ListType) /\ Counted(freed, InCache(cache) \cup OfOthers(t) \cup S)
  <2> HIDE DEF D, cache, S, R
  <2>1. Counted(crl, R \cup S) BY <1>1
  <2>2. freed \in Seq(ListType) /\ Counted(freed, (R \cup S) \ D) BY <1>4, <1>5, <2>1, FreeAllCounted
  <2> HIDE DEF freed
  <2> QED BY <1>5, <2>2
<1>7. Grown(crl, freed) /\ DOMAIN freed = DOMAIN crl
  <2> HIDE DEF D, S, R
  <2>1. IsFiniteSet(D) BY <1>1, <1>5, FS_Subset DEF Counted
  <2> QED BY <2>1, <1>4, FreeAllGrown
<1>8. cache \in Seq(CacheType)
  <2>0. NoEntry \in CacheType BY DEF NoEntry, CacheType
  <2>1. ASSUME NEW n \in DOMAIN crl_cache PROVE cache[n] \in CacheType
    <3>1. crl_cache[n] \in CacheType BY <1>4
    <3>2. cache[n] = NoEntry \/ cache[n] = crl_cache[n] OBVIOUS
    <3> QED BY <2>0, <3>1, <3>2
  <2>2. DOMAIN crl_cache = 1 .. Len(crl_cache) /\ Len(crl_cache) \in Nat BY <1>4
  <2>3. cache = [n \in 1 .. Len(crl_cache) |-> cache[n]] BY <2>2
  <2> HIDE DEF cache
  <2> QED BY <2>1, <2>2, <2>3
<1>9. CacheOk(cache, crl)
  <2>1. ASSUME NEW n \in DOMAIN crl_cache, cache[n].crl # 0 PROVE cache[n] = crl_cache[n] BY <2>1 DEF NoEntry
  <2>2. DOMAIN cache = DOMAIN crl_cache OBVIOUS
  <2> HIDE DEF cache
  <2> QED BY <2>1, <2>2, <1>1 DEF CacheOk
<1> HIDE DEF freed, cache, D, outdated
<1>10. CASE found = 0
  <2> DEFINE v == [w EXCEPT !.at = "file", !.slot = 1]
  <2>1. verifier' = [verifier EXCEPT ![t] = v] /\ crl' = freed BY <1>2, <1>3, <1>10
  <2> HIDE DEF w
  <2>2. /\ v \in VerifierType /\ v.at = "file" /\ v.cert = w.cert /\ v.crls = w.crls /\ v.crl = w.crl
        /\ v.todo = w.todo /\ v.verdict = w.verdict /\ v.slot = 1
    BY <1>1 DEF VerifierType, VerifierPlaces
  <2> HIDE DEF v
  <2>3. VerifierOk(v, crl) BY <1>1, <1>4, <2>2 DEF VerifierOk, StackOk, VerdictOk, Holding
  <2>4. VerifierOk(v, freed) /\ CacheOk(cache, freed) BY <2>3, <1>7, <1>9, VerifierGrown, CacheGrown
  <2>5. PointersOf(t, v) = S BY <2>2 DEF PointersOf, StackPointers
  <2>6. crl_files' \in [Urls \X {"crl", "crld"} -> [1 .. FileSlots -> FileType]] /\ FilesOk(crl_files') /\ now' = now
    BY <1>1 DEF CrlTypes
  <2> QED BY <1>2, <1>6, <1>7, <1>8, <2>1, <2>2, <2>4, <2>5, <2>6, ThreadKeeps
<1>11. CASE found # 0
  <2> DEFINE v == Pushed(w, c, "memory")
             pushed == <<t, Len(w.crls) + 1, c>>
  <2>1. verifier' = [verifier EXCEPT ![t] = v] /\ crl' = up_ref(freed, c) BY <1>2, <1>3, <1>11
  <2>2. found \in EntriesFor(url) /\ crl_valid(crl[c])
    <3> HIDE DEF w, url
    <3> QED BY <1>4, <1>11, FirstValidIs
  <2>3. found \in DOMAIN crl_cache /\ c # 0 /\ crl_cache[found].dp_url = url BY <2>2 DEF EntriesFor
  <2>4. From(crl, c, url) /\ now < crl[c].until
    <3>1. From(crl, c, url)
      <4> HIDE DEF url
      <4> QED BY <1>1, <2>3 DEF CacheOk
    <3> QED BY <3>1, <2>2 DEF crl_valid
  <2>5. c \in DOMAIN crl /\ c \in Nat BY <1>4, <2>4 DEF From
  <2> HIDE DEF c, found, url, w
  <2>6. VerifierOk(v, crl) BY <1>1, <1>4, <2>3, <2>4, <2>5, PushedOk
  <2>7. v \in VerifierType BY <1>1, <1>4, <2>5, PushedIs
  <2>8. /\ PointersOf(t, v) = StackPointers(t, w) \cup {pushed}
        /\ \A p \in StackPointers(t, w) : p[1] = t /\ p[2] \in 1 .. Len(w.crls)
        /\ Len(w.crls) \in Nat
    <3>1. w \in VerifierType /\ w.todo # <<>> /\ c \in Nat /\ now \in Nat BY <1>1, <1>4, <2>5
    <3>2. "memory" \in {"memory", "file", "server"} OBVIOUS
    <3> HIDE DEF S, R
    <3> QED BY ONLY <3>1, <3>2, PushedPointers
  <2>9. S = StackPointers(t, w) BY <1>4 DEF PointersOf
  <2>10. pushed[1] = t /\ pushed[2] = Len(w.crls) + 1 /\ pushed[3] = c OBVIOUS
  <2> HIDE DEF pushed, v, S, R
  <2>11. pushed \notin InCache(cache) \cup OfOthers(t) \cup S
    <3>1. pushed \notin InCache(cache) \cup OfOthers(t) BY <2>10, Apart
    <3>2. pushed \notin S BY <2>8, <2>9, <2>10
    <3> QED BY <3>1, <3>2
  <2>12. up_ref(freed, c) \in Seq(ListType) /\ Counted(up_ref(freed, c), (InCache(cache) \cup OfOthers(t) \cup S) \cup {pushed})
    BY <1>6, <1>7, <2>5, <2>10, <2>11, UpRefCounted
  <2>13. (InCache(cache) \cup OfOthers(t) \cup S) \cup {pushed} = InCache(cache) \cup OfOthers(t) \cup PointersOf(t, v)
    BY <2>8, <2>9
  <2>14. Grown(crl, crl') BY <1>6, <1>7, <2>1, <2>5, UpRefGrown, GrownOn
  <2>15. VerifierOk(v, crl') /\ CacheOk(cache, crl') BY <2>6, <2>14, <1>9, VerifierGrown, CacheGrown
  <2>16. crl_files' \in [Urls \X {"crl", "crld"} -> [1 .. FileSlots -> FileType]] /\ FilesOk(crl_files') /\ now' = now
    BY <1>1 DEF CrlTypes
  <2>17. crl' \in Seq(ListType) /\ Counted(crl', InCache(crl_cache') \cup OfOthers(t) \cup PointersOf(t, v))
    BY <1>2, <2>1, <2>12, <2>13
  <2> QED BY <1>2, <1>8, <2>1, <2>7, <2>14, <2>15, <2>16, <2>17, ThreadKeeps
<1> QED BY <1>10, <1>11

LEMMA SequenceMade ==
    ASSUME NEW T, NEW n \in Nat, NEW s, s = [i \in 1 .. n |-> s[i]], \A i \in 1 .. n : s[i] \in T
    PROVE  s \in Seq(T)
OBVIOUS

\* a list is stored in an entry of the cache; the pointers of others stay
LEMMA StoredIs ==
    ASSUME CrlAssumption, crl \in Seq(ListType), crl_cache \in Seq(CacheType), CacheOk(crl_cache, crl),
           NEW Q, \A p \in Q : p[1] # "cache", Counted(crl, InCache(crl_cache) \cup Q),
           NEW c \in Nat, c # 0, NEW url \in Urls, From(crl, c, url),
           NEW n \in Nat, n # 0, n <= Len(crl_cache) + 1
    PROVE  LET new == Stored(n, c, url)
           IN  /\ new.lists \in Seq(ListType) /\ Grown(crl, new.lists)
               /\ new.cache \in Seq(CacheType) /\ CacheOk(new.cache, new.lists)
               /\ Counted(new.lists, InCache(new.cache) \cup Q)
<1> DEFINE length == IF n > Len(crl_cache) THEN Len(crl_cache) + CacheGrowth ELSE Len(crl_cache)
           entry == [crl |-> c, dp_url |-> url]
           cache == [i \in 1 .. length |-> IF i = n THEN entry ELSE IF i > Len(crl_cache) THEN NoEntry ELSE crl_cache[i]]
           old == IF n > Len(crl_cache) THEN 0 ELSE crl_cache[n].crl
           lists == X509_CRL_free(up_ref(crl, c), old)
<1>1. Stored(n, c, url).cache = cache /\ Stored(n, c, url).lists = lists BY DEF Stored
<1>2. /\ length \in Nat /\ Len(crl_cache) \in Nat /\ DOMAIN crl_cache = 1 .. Len(crl_cache) /\ n \in 1 .. length
      /\ \A i \in 1 .. Len(crl_cache) : i \in 1 .. length /\ ~(i > Len(crl_cache))
  BY DEF CrlAssumption
<1>3. entry \in CacheType /\ NoEntry \in CacheType /\ entry.crl = c /\ entry.dp_url = url /\ NoEntry.crl = 0
  BY DEF CacheType, NoEntry
<1>4. /\ DOMAIN cache = 1 .. length /\ cache[n] = entry
      /\ \A i \in 1 .. Len(crl_cache) : i # n => cache[i] = crl_cache[i]
      /\ \A i \in 1 .. length : i # n /\ i \notin 1 .. Len(crl_cache) => cache[i] = NoEntry
      /\ \A i \in 1 .. length : cache[i] \in CacheType
  <2> HIDE DEF length, entry
  <2> QED BY <1>2, <1>3
<1>5. cache = [i \in 1 .. length |-> cache[i]] OBVIOUS
<1> HIDE DEF cache, entry, length
<1>6. cache \in Seq(CacheType)
  <2>1. length \in Nat /\ \A i \in 1 .. length : cache[i] \in CacheType BY <1>2, <1>4
  <2> QED BY ONLY <1>5, <2>1, SequenceMade
<1>7. old = IF n \in DOMAIN crl_cache THEN crl_cache[n].crl ELSE 0 BY <1>2
<1> DEFINE kept == {p \in InCache(crl_cache) : p[2] # n}
           fresh == <<"cache", 0, c>>
           stored == <<"cache", n, c>>
           replaced == <<"cache", n, old>>
<1>8. /\ \A p \in kept : p[1] = "cache" /\ p[2] # n /\ p[2] # 0
      /\ InCache(crl_cache) = IF old = 0 THEN kept ELSE kept \cup {replaced}
      /\ InCache(cache) = kept \cup {stored}
  <2> HIDE DEF old
  <2>1. \A p \in kept : p[1] = "cache" /\ p[2] # n /\ p[2] # 0
    <3>1. \A p \in InCache(crl_cache) : p[1] = "cache" /\ p[2] \in DOMAIN crl_cache BY InCacheIs
    <3> QED BY <3>1, <1>2
  <2>2. ASSUME NEW p PROVE p \in InCache(crl_cache) /\ p[2] = n <=> old # 0 /\ p = replaced
    BY <1>7, InCacheIs
  <2>3. InCache(crl_cache) = IF old = 0 THEN kept ELSE kept \cup {replaced}
    <3> HIDE DEF replaced
    <3>1. \A p : p \in kept <=> p \in InCache(crl_cache) /\ p[2] # n OBVIOUS
    <3> HIDE DEF kept
    <3> QED BY <2>2, <3>1
  <2>4. ASSUME NEW p PROVE p \in InCache(cache) /\ p[2] = n <=> p = stored
    BY <1>2, <1>3, <1>4, InCacheIs
  <2>5. ASSUME NEW p PROVE p \in InCache(cache) /\ p[2] # n <=> p \in kept
    <3>1. p \in InCache(cache) <=> \E i \in DOMAIN cache : cache[i].crl # 0 /\ p = <<"cache", i, cache[i].crl>>
      BY InCacheIs
    <3>2. p \in InCache(crl_cache) <=> \E i \in DOMAIN crl_cache : crl_cache[i].crl # 0 /\ p = <<"cache", i, crl_cache[i].crl>>
      BY InCacheIs
    <3>3. \A i \in 1 .. length : i # n /\ cache[i].crl # 0 => i \in 1 .. Len(crl_cache) BY <1>3, <1>4
    <3>4. \A i \in 1 .. Len(crl_cache) : i \in 1 .. length /\ (i # n => cache[i] = crl_cache[i]) BY <1>2, <1>4
    <3>5. DOMAIN cache = 1 .. length /\ DOMAIN crl_cache = 1 .. Len(crl_cache) BY <1>2, <1>4
    <3> QED BY <3>1, <3>2, <3>3, <3>4, <3>5
  <2>6. InCache(cache) = kept \cup {stored}
    <3> HIDE DEF kept, stored
    <3> QED BY <2>4, <2>5
  <2> QED BY <2>1, <2>3, <2>6
<1>9. /\ fresh[1] = "cache" /\ fresh[2] = 0 /\ fresh[3] = c /\ stored[1] = "cache" /\ stored[2] = n /\ stored[3] = c
      /\ replaced[1] = "cache" /\ replaced[2] = n /\ replaced[3] = old
  OBVIOUS
<1> HIDE DEF kept, fresh, stored, replaced, old
<1>10. c \in DOMAIN crl BY DEF From
<1>11. /\ fresh \notin kept \cup Q /\ replaced \notin kept \cup Q /\ stored \notin kept \cup Q
       /\ fresh # replaced /\ fresh # stored
  BY <1>8, <1>9
<1>12. fresh \notin InCache(crl_cache) \cup Q BY <1>8, <1>11
<1> DEFINE up == up_ref(crl, c)
<1>13. up \in Seq(ListType) /\ Counted(up, (InCache(crl_cache) \cup Q) \cup {fresh})
  BY <1>9, <1>10, <1>12, UpRefCounted
<1>14. Grown(crl, up) BY <1>10, UpRefGrown
<1> HIDE DEF up
<1>15. lists \in Seq(ListType) /\ Grown(crl, lists) /\ Counted(lists, (kept \cup Q) \cup {fresh})
  <2>1. CASE old = 0
    <3>1. lists = up BY <2>1 DEF X509_CRL_free, up
    <3>2. (InCache(crl_cache) \cup Q) \cup {fresh} = (kept \cup Q) \cup {fresh} BY <1>8, <2>1
    <3> HIDE DEF lists
    <3> QED BY <3>1, <3>2, <1>13, <1>14
  <2>2. CASE old # 0
    <3>1. replaced \in (InCache(crl_cache) \cup Q) \cup {fresh} BY <1>8, <2>2
    <3>2. ((InCache(crl_cache) \cup Q) \cup {fresh}) \ {replaced} = (kept \cup Q) \cup {fresh}
      BY <1>8, <1>11, <2>2
    <3>3. lists = X509_CRL_free(up, replaced[3]) BY <1>9 DEF up
    <3> HIDE DEF lists
    <3>4. lists \in Seq(ListType) /\ Counted(lists, (kept \cup Q) \cup {fresh})
      <4>1. replaced[3] # 0 BY <1>9, <2>2
      <4>2. /\ lists \in Seq(ListType)
            /\ Counted(lists, ((InCache(crl_cache) \cup Q) \cup {fresh}) \ {replaced})
        BY <1>13, <3>1, <3>3, <4>1, FreedCounted
      <4> QED BY <3>2, <4>2
    <3>5. replaced[3] \in DOMAIN up BY <1>13, <3>1 DEF Counted
    <3>6. Grown(crl, lists) BY <1>9, <1>13, <1>14, <2>2, <3>3, <3>5, FreedGrown, GrownOn
    <3> QED BY <3>4, <3>6
  <2> QED BY <2>1, <2>2
<1> HIDE DEF lists
<1>16. Counted(lists, InCache(cache) \cup Q)
  <2>1. Counted(lists, (((kept \cup Q) \cup {fresh}) \ {fresh}) \cup {stored})
    BY <1>9, <1>11, <1>15, MovedCounted
  <2>2. (((kept \cup Q) \cup {fresh}) \ {fresh}) \cup {stored} = InCache(cache) \cup Q BY <1>8, <1>11
  <2> QED BY <2>1, <2>2
<1>17. CacheOk(cache, crl)
  <2>1. ASSUME NEW i \in 1 .. length, cache[i].crl # 0
        PROVE  cache[i].dp_url \in Urls /\ From(crl, cache[i].crl, cache[i].dp_url)
    <3>1. CASE i = n BY <3>1, <1>3, <1>4
    <3>2. CASE i # n
      <4>1. i \in DOMAIN crl_cache /\ cache[i] = crl_cache[i] BY <1>2, <1>3, <1>4, <2>1, <3>2
      <4> QED BY <4>1, <2>1 DEF CacheOk
    <3> QED BY <3>1, <3>2
  <2> QED BY <2>1, <1>4 DEF CacheOk
<1>18. CacheOk(cache, lists) BY <1>15, <1>17, CacheGrown
<1> QED BY <1>1, <1>6, <1>15, <1>16, <1>18

LEMMA save_cert_crl_memoryKeeps ==
    ASSUME CrlAssumption, NEW t \in Verifiers, CrlInv, save_cert_crl_memory(t) PROVE CrlInv'
<1> DEFINE w == verifier[t]
           url == Url(t)
           stored == Stored(Entry(url), w.crl, url)
           from == IF w.at = "keep_file" THEN "file" ELSE "server"
           Q == OfOthers(t) \cup PointersOf(t, w)
<1>1. /\ w \in VerifierType /\ w.at \in {"keep_file", "keep_download"} /\ VerifierOk(w, crl) /\ CrlTypes /\ FilesOk(crl_files)
      /\ CacheOk(crl_cache, crl) /\ Counted(crl, InCache(crl_cache) \cup Q)
      /\ UNCHANGED <<now, crl_files>>
  <2>1. InCache(crl_cache) \cup Q = InCache(crl_cache) \cup OfOthers(t) \cup PointersOf(t, w) OBVIOUS
  <2>2. Counted(crl, InCache(crl_cache) \cup Q) BY <2>1, Before
  <2> HIDE DEF Q
  <2> QED BY <2>2, Before DEF save_cert_crl_memory
<1>2. CASE crl' = crl /\ crl_cache' = crl_cache /\ verifier' = [verifier EXCEPT ![t] = Pushed(w, w.crl, from)]
  <2>1. from \in {"file", "server"} /\ (from = "file" => w.at = "keep_file") OBVIOUS
  <2>2. w.at \in Holding BY <1>1 DEF Holding
  <2>3. crl_files' \in [Urls \X {"crl", "crld"} -> [1 .. FileSlots -> FileType]] /\ FilesOk(crl_files') /\ now' = now
    BY <1>1 DEF CrlTypes
  <2> HIDE DEF from
  <2> QED BY <1>2, <2>1, <2>2, <2>3, PushKeeps
<1>3. CASE /\ crl' = stored.lists /\ crl_cache' = stored.cache
           /\ \/ verifier' = [verifier EXCEPT ![t] = Pushed(w, w.crl, from)]
              \/ verifier' = [verifier EXCEPT ![t] = [w EXCEPT !.at = "save", !.slot = 1]]
  <2>1. /\ crl \in Seq(ListType) /\ crl_cache \in Seq(CacheType) /\ now \in Nat /\ url = Head(w.todo)
    BY <1>1 DEF CrlTypes, Url
  <2>2. /\ w.todo # <<>> /\ w.todo \in Seq(Urls) /\ w.crl # 0 /\ w.crl \in Nat /\ From(crl, w.crl, Head(w.todo))
        /\ w.at = "keep_file" => w.found < crl[w.crl].until
        /\ w.at \notin {"idle", "ready", "answer"}
    BY <1>1 DEF VerifierOk, VerifierType, Holding
  <2>3. Head(w.todo) \in Urls BY <2>2
  <2>4. Entry(url) \in Nat /\ Entry(url) # 0 /\ Entry(url) <= Len(crl_cache) + 1 BY <2>1, EntryIs
  <2>5. \A p \in Q : p[1] # "cache" BY Apart
  <2>6. url \in Urls /\ From(crl, w.crl, url) BY <2>1, <2>2, <2>3
  <2> HIDE DEF Q, url
  <2>7. /\ stored.lists \in Seq(ListType) /\ Grown(crl, stored.lists)
        /\ stored.cache \in Seq(CacheType) /\ CacheOk(stored.cache, stored.lists)
        /\ Counted(stored.lists, InCache(stored.cache) \cup Q)
    <3> HIDE DEF w
    <3> QED BY <1>1, <2>1, <2>2, <2>4, <2>5, <2>6, StoredIs
  <2> HIDE DEF stored
  <2>8. /\ crl' \in Seq(ListType) /\ Grown(crl, crl') /\ crl_cache' \in Seq(CacheType) /\ CacheOk(crl_cache', crl')
        /\ Counted(crl', InCache(crl_cache') \cup OfOthers(t) \cup PointersOf(t, w))
    <3>1. InCache(crl_cache') \cup Q = InCache(crl_cache') \cup OfOthers(t) \cup PointersOf(t, w) BY DEF Q
    <3>2. Counted(crl', InCache(crl_cache') \cup Q) BY <1>3, <2>7
    <3> QED BY <1>3, <2>7, <3>1, <3>2
  <2>9. crl_files' \in [Urls \X {"crl", "crld"} -> [1 .. FileSlots -> FileType]] /\ FilesOk(crl_files') /\ now' = now
    BY <1>1 DEF CrlTypes
  <2>10. CASE verifier' = [verifier EXCEPT ![t] = Pushed(w, w.crl, from)]
    <3> DEFINE v == Pushed(w, w.crl, from)
    <3>1. from \in {"file", "server"} /\ (from = "file" => w.at = "keep_file") OBVIOUS
    <3> HIDE DEF from
    <3>2. Counted(crl', InCache(crl_cache') \cup OfOthers(t) \cup PointersOf(t, v))
      <4> HIDE DEF w
      <4> QED BY <1>1, <2>1, <2>2, <2>8, <3>1, OwnPushed
    <3>3. v \in VerifierType
      <4> HIDE DEF w
      <4> QED BY <1>1, <2>1, <2>2, <3>1, PushedIs
    <3>4. VerifierOk(v, crl)
      <4>1. from = "file" => w.found < crl[w.crl].until BY <2>2, <3>1
      <4> HIDE DEF w
      <4> QED BY <1>1, <2>1, <2>2, <3>1, <4>1, PushedOk
    <3> HIDE DEF v
    <3>5. VerifierOk(v, crl') BY <2>8, <3>4, VerifierGrown
    <3>6. verifier' = [verifier EXCEPT ![t] = v] BY <2>10 DEF v
    <3> QED BY <2>8, <2>9, <3>2, <3>3, <3>5, <3>6, ThreadKeeps
  <2>11. CASE verifier' = [verifier EXCEPT ![t] = [w EXCEPT !.at = "save", !.slot = 1]]
    <3> DEFINE v == [w EXCEPT !.at = "save", !.slot = 1]
    <3>1. verifier' = [verifier EXCEPT ![t] = v] BY <2>11
    <3> HIDE DEF w
    <3>2. /\ v \in VerifierType /\ v.at = "save" /\ v.cert = w.cert /\ v.crls = w.crls /\ v.crl = w.crl
          /\ v.todo = w.todo /\ v.verdict = w.verdict
      BY <1>1 DEF VerifierType, VerifierPlaces, Holding
    <3> HIDE DEF v
    <3>3. VerifierOk(v, crl) BY <1>1, <3>2 DEF VerifierOk, StackOk, VerdictOk, Holding
    <3>4. VerifierOk(v, crl') BY <2>8, <3>3, VerifierGrown
    <3>5. PointersOf(t, v) = PointersOf(t, w) BY <3>2 DEF PointersOf, StackPointers
    <3> QED BY <2>8, <2>9, <3>1, <3>2, <3>4, <3>5, ThreadKeeps
  <2> QED BY <1>3, <2>10, <2>11
<1>4. QED
  <2>1. \/ /\ crl' = stored.lists /\ crl_cache' = stored.cache
           /\ verifier' = [verifier EXCEPT ![t] = IF w.at = "keep_file" THEN Pushed(w, w.crl, "file")
                                                  ELSE IF EntriesFor(url) = {} THEN [w EXCEPT !.at = "save", !.slot = 1]
                                                  ELSE Pushed(w, w.crl, "server")]
        \/ /\ crl' = crl /\ crl_cache' = crl_cache /\ verifier' = [verifier EXCEPT ![t] = Pushed(w, w.crl, from)]
    BY DEF save_cert_crl_memory
  <2> HIDE DEF stored, w, url
  <2> QED BY <2>1, <1>2, <1>3

-----------------------------------------------------------------------------

LEMMA CrlStep == CrlAssumption /\ CrlInv /\ [CrlNext]_crlVars => CrlInv'
<1> SUFFICES ASSUME CrlAssumption, CrlInv, [CrlNext]_crlVars PROVE CrlInv'
  OBVIOUS
<1>1. CASE Tick BY <1>1, TickKeeps
<1>2. CASE clear_crl_cache BY <1>2, clear_crl_cacheKeeps
<1>3. ASSUME NEW t \in Verifiers,
             \/ setup_crl_check(t)
             \/ \E cert \in Certificates : crls_http_cb(t, cert)
             \/ load_cert_crl_memory(t) \/ load_crl(t) \/ load_cert_crl_file(t)
             \/ \E until \in {now, now + 1} : load_cert_crl_http(t, until)
             \/ download_failed(t) \/ save_cert_crl_memory(t) \/ save_crl_access(t) \/ save_cert_crl_file(t)
             \/ load_crls_crldp_done(t) \/ verify_cert(t) \/ sk_X509_CRL_pop_free(t)
      PROVE  CrlInv'
  BY <1>3, setup_crl_checkKeeps, crls_http_cbKeeps, load_cert_crl_memoryKeeps, load_crlKeeps, load_cert_crl_fileKeeps,
     load_cert_crl_httpKeeps, download_failedKeeps, save_cert_crl_memoryKeeps, save_crl_accessKeeps,
     save_cert_crl_fileKeeps, load_crls_crldp_doneKeeps, verify_certKeeps, sk_X509_CRL_pop_freeKeeps
<1>4. CASE UNCHANGED crlVars
  <2>1. ListPointers' = ListPointers BY <1>4 DEF crlVars, ListPointers, CachePointers
  <2> QED BY <1>4, <2>1 DEF crlVars, CrlInv, CrlTypes
<1> QED BY <1>1, <1>2, <1>3, <1>4 DEF CrlNext

LEMMA CrlImplies == CrlInv => ListsAsAsked
<1> SUFFICES ASSUME CrlInv PROVE ListsAsAsked
  OBVIOUS
<1>1. \A c \in DOMAIN crl : crl[c].refs = Cardinality(To(ListPointers, c)) BY DEF CrlInv, Counted
<1>2. ASSUME NEW t \in Verifiers
      PROVE  LET v == verifier[t]
             IN  /\ \A i \in DOMAIN v.crls :
                      LET e == v.crls[i]
                      IN  /\ crl[e.crl].issuer = IssuerAt[e.url]
                          /\ e.from # "server" => e.at < crl[e.crl].until
                 /\ v.verdict # "none" /\ ~v.cert.root /\ ~v.goOn
                      => (v.verdict = "refused" <=> \A i \in DOMAIN v.crls : IssuerAt[v.crls[i].url] # v.cert.issuer)
  <2>1. StackOk(verifier[t], crl) /\ VerdictOk(verifier[t]) BY DEF CrlInv, VerifierOk
  <2> QED BY <2>1 DEF StackOk, VerdictOk, From
<1> QED BY <1>1, <1>2 DEF ListsAsAsked

\* However many threads verify certificates at once, and whatever is in the files by then,
\* the count of every list is that of the pointers to it: X509_CRL_free frees none that the
\* cache or a stack can reach, and none is left.  A list that load_cert_crl_memory or
\* load_cert_crl_file found was published at that URL and was valid when it was found, and
\* check_cert_error_cb lets nobody pass without a list unless it was told to go on.
THEOREM RevocationListsHeld == CrlInit /\ [][CrlNext]_crlVars => []ListsAsAsked
<1>1. CrlAssumption BY CrlAssumption
<1>2. CrlInit => CrlInv BY <1>1, CrlStart
<1>3. CrlInv /\ [CrlNext]_crlVars => CrlInv' BY <1>1, CrlStep
<1>4. CrlInv => ListsAsAsked BY CrlImplies
<1> QED BY <1>2, <1>3, <1>4, PTL

-----------------------------------------------------------------------------
(* Blocks: the bytes in use.                                                *)

\* the fold that InUse is, over the subsets of a set
FoldOf(blocks, S, h) ==
    h = [s \in SUBSET S |-> IF s = {} THEN 0
                            ELSE h[s \ {CHOOSE p \in s : TRUE}] + blocks[CHOOSE p \in s : TRUE].size]
BytesOf(blocks, S) == (CHOOSE h : FoldOf(blocks, S, h))[S]

\* what it should be, whichever element is taken
Adds(blocks, S, h) ==
    /\ h \in [SUBSET S -> Nat] /\ h[{}] = 0
    /\ \A s \in SUBSET S : \A p \in s : h[s] = h[s \ {p}] + blocks[p].size

LEMMA InUseIs == InUse = BytesOf(given, Tracked)
BY DEF InUse, FoldSet, MapThenFoldSet, BytesOf, FoldOf

LEMMA InUseNext == InUse' = BytesOf(given', Tracked')
BY DEF InUse, FoldSet, MapThenFoldSet, BytesOf, FoldOf

\* a smallest set for which something does not hold
LEMMA SmallestSet ==
    ASSUME NEW S, NEW Bad \in SUBSET SUBSET S, IsFiniteSet(S), Bad # {}
    PROVE  \E T \in Bad : \A U \in Bad : ~(U \subseteq T /\ U # T)
<1>1. Bad \subseteq FiniteSubsetsOf(S) BY FS_Subset DEF FiniteSubsetsOf
<1>2. IsWellFoundedOn(StrictSubsetOrdering(S), FiniteSubsetsOf(S)) BY FS_StrictSubsetOrderingWellFounded
<1>3. PICK T \in Bad : \A U \in Bad : ~(<<U, T>> \in StrictSubsetOrdering(S)) BY <1>1, <1>2, WFMin
<1> QED BY <1>3 DEF StrictSubsetOrdering

LEMMA AddsExists ==
    ASSUME NEW blocks, NEW S, IsFiniteSet(S), \A p \in S : blocks[p].size \in Nat
    PROVE  \E h : Adds(blocks, S, h)
<1> DEFINE Bad == {T \in SUBSET S : ~\E h : Adds(blocks, T, h)}
<1>1. ASSUME Bad # {} PROVE FALSE
  <2>1. PICK T \in Bad : \A U \in Bad : ~(U \subseteq T /\ U # T)
    <3>1. Bad \in SUBSET SUBSET S OBVIOUS
    <3> HIDE DEF Bad
    <3> QED BY <3>1, <1>1, SmallestSet
  <2>2. CASE T = {}
    <3> DEFINE h == [s \in SUBSET {} |-> 0]
    <3>1. Adds(blocks, {}, h) BY DEF Adds
    <3> QED BY <2>2, <3>1
  <2>3. CASE T # {}
    <3>1. PICK p \in T : TRUE BY <2>3
    <3>2. T \ {p} \notin Bad /\ T \ {p} \in SUBSET S BY <2>1
    <3>3. PICK g : Adds(blocks, T \ {p}, g) BY <3>2
    <3> DEFINE h == [s \in SUBSET T |-> IF p \in s THEN g[s \ {p}] + blocks[p].size ELSE g[s]]
    <3>4. ASSUME NEW s \in SUBSET T PROVE h[s] = IF p \in s THEN g[s \ {p}] + blocks[p].size ELSE g[s]
      OBVIOUS
    <3>5. blocks[p].size \in Nat BY <2>1
    <3>6. h \in [SUBSET T -> Nat]
      <4>1. ASSUME NEW s \in SUBSET T PROVE h[s] \in Nat BY <3>3, <3>4, <3>5 DEF Adds
      <4> QED BY <4>1
    <3>7. h[{}] = 0 BY <3>3, <3>4 DEF Adds
    <3>8. ASSUME NEW s \in SUBSET T, NEW q \in s PROVE h[s] = h[s \ {q}] + blocks[q].size
      <4>1. CASE q = p
        <5>1. h[s] = g[s \ {p}] + blocks[p].size BY <3>4, <4>1
        <5>2. h[s \ {q}] = g[s \ {p}] BY <3>4, <4>1
        <5> HIDE DEF h
        <5> QED BY <4>1, <5>1, <5>2
      <4>2. CASE q # p /\ p \in s
        <5>1. h[s] = g[s \ {p}] + blocks[p].size BY <3>4, <4>2
        <5>2. h[s \ {q}] = g[(s \ {q}) \ {p}] + blocks[p].size BY <3>4, <4>2
        <5>3. (s \ {q}) \ {p} = (s \ {p}) \ {q} OBVIOUS
        <5>4. s \ {p} \in SUBSET (T \ {p}) /\ q \in s \ {p} /\ (s \ {p}) \ {q} \in SUBSET (T \ {p}) BY <4>2
        <5>5. /\ g[s \ {p}] = g[(s \ {p}) \ {q}] + blocks[q].size /\ g[(s \ {p}) \ {q}] \in Nat
          BY <5>4, <3>3 DEF Adds
        <5>6. blocks[q].size \in Nat OBVIOUS
        <5> HIDE DEF h
        <5>7. h[s] = g[(s \ {p}) \ {q}] + blocks[q].size + blocks[p].size BY <5>1, <5>5
        <5>8. h[s \ {q}] = g[(s \ {p}) \ {q}] + blocks[p].size BY <5>2, <5>3
        <5> QED BY <5>5, <5>6, <5>7, <5>8, <3>5
      <4>3. CASE p \notin s
        <5>1. h[s] = g[s] /\ h[s \ {q}] = g[s \ {q}] BY <3>4, <4>3
        <5>2. s \in SUBSET (T \ {p}) BY <4>3
        <5> HIDE DEF h
        <5> QED BY <5>1, <5>2, <3>3 DEF Adds
      <4> QED BY <4>1, <4>2, <4>3
    <3>9. Adds(blocks, T, h) BY <3>6, <3>7, <3>8 DEF Adds
    <3> QED BY <3>9
  <2> QED BY <2>2, <2>3
<1>2. S \in SUBSET S OBVIOUS
<1> QED BY <1>1, <1>2

LEMMA BytesIs ==
    ASSUME NEW blocks, NEW S, IsFiniteSet(S), NEW h, Adds(blocks, S, h)
    PROVE  BytesOf(blocks, S) = h[S]
<1>1. FoldOf(blocks, S, h)
  <2>1. ASSUME NEW s \in SUBSET S
        PROVE  h[s] = IF s = {} THEN 0
                      ELSE h[s \ {CHOOSE p \in s : TRUE}] + blocks[CHOOSE p \in s : TRUE].size
    <3>1. s # {} => (CHOOSE p \in s : TRUE) \in s OBVIOUS
    <3> QED BY <3>1 DEF Adds
  <2>2. h = [s \in SUBSET S |-> h[s]] BY DEF Adds
  <2> QED BY <2>1, <2>2 DEF FoldOf
<1> DEFINE f == CHOOSE g : FoldOf(blocks, S, g)
<1>2. FoldOf(blocks, S, f) BY <1>1
<1> HIDE DEF f
<1> DEFINE Bad == {T \in SUBSET S : f[T] # h[T]}
<1>3. ASSUME Bad # {} PROVE FALSE
  <2>1. PICK T \in Bad : \A U \in Bad : ~(U \subseteq T /\ U # T)
    <3>1. Bad \in SUBSET SUBSET S OBVIOUS
    <3> HIDE DEF Bad
    <3> QED BY <3>1, <1>3, SmallestSet
  <2> DEFINE p == CHOOSE q \in T : TRUE
  <2>2. T \in SUBSET S OBVIOUS
  <2>3. f[T] = IF T = {} THEN 0 ELSE f[T \ {p}] + blocks[p].size BY <1>2, <2>2 DEF FoldOf
  <2>4. h[T] = IF T = {} THEN 0 ELSE h[T \ {p}] + blocks[p].size BY <1>1, <2>2 DEF FoldOf
  <2>5. T # {} => p \in T OBVIOUS
  <2> HIDE DEF p
  <2>6. T # {} => f[T \ {p}] = h[T \ {p}] BY <2>1, <2>5
  <2> QED BY <2>3, <2>4, <2>6
<1> QED BY <1>3 DEF BytesOf, f

\* one block more
LEMMA BytesAdd ==
    ASSUME NEW blocks, NEW S, IsFiniteSet(S), NEW p, p \notin S, \A q \in S \cup {p} : blocks[q].size \in Nat
    PROVE  /\ BytesOf(blocks, S) \in Nat
           /\ BytesOf(blocks, S \cup {p}) = BytesOf(blocks, S) + blocks[p].size
<1> DEFINE T == S \cup {p}
<1>1. IsFiniteSet(T) BY FS_AddElement
<1>2. PICK h : Adds(blocks, T, h) BY <1>1, AddsExists
<1>3. BytesOf(blocks, T) = h[T] BY <1>1, <1>2, BytesIs
<1> DEFINE g == [s \in SUBSET S |-> h[s]]
<1>4. Adds(blocks, S, g)
  <2>1. ASSUME NEW s \in SUBSET S PROVE g[s] = h[s] /\ h[s] \in Nat BY <1>2 DEF Adds
  <2>2. g[{}] = 0 BY <1>2 DEF Adds
  <2>3. ASSUME NEW s \in SUBSET S, NEW q \in s PROVE g[s] = g[s \ {q}] + blocks[q].size BY <1>2, <2>1 DEF Adds
  <2> QED BY <2>1, <2>2, <2>3 DEF Adds
<1>5. BytesOf(blocks, S) = g[S] /\ g[S] = h[S] BY <1>4, BytesIs
<1>6. T \ {p} = S OBVIOUS
<1>7. h[T] = h[S] + blocks[p].size /\ h[S] \in Nat
  <2>1. T \in SUBSET T /\ p \in T /\ S \in SUBSET T OBVIOUS
  <2> HIDE DEF T
  <2> QED BY <2>1, <1>2, <1>6 DEF Adds
<1> QED BY <1>3, <1>5, <1>7

LEMMA BytesSame ==
    ASSUME NEW a, NEW b, NEW S, IsFiniteSet(S), \A p \in S : a[p].size = b[p].size /\ a[p].size \in Nat
    PROVE  BytesOf(a, S) = BytesOf(b, S) /\ BytesOf(a, S) \in Nat
<1>1. PICK h : Adds(a, S, h) BY AddsExists
<1>2. Adds(b, S, h) BY <1>1 DEF Adds
<1>3. h[S] \in Nat BY <1>1 DEF Adds
<1> QED BY <1>1, <1>2, <1>3, BytesIs

-----------------------------------------------------------------------------
(* Blocks: the inductive invariant.                                         *)

BlockType == [size: Nat, tracked: BOOLEAN]
AllocationType == [ptr: Pointers, size: Nat, next: Nodes \cup {NoNode}]

GballocTypes ==
    /\ gballoc \in [init: BOOLEAN, head: Nodes \cup {NoNode}, totalSize: Nat, maxSize: Nat]
    /\ DOMAIN allocation \subseteq Nodes /\ allocation \in [DOMAIN allocation -> AllocationType]
    /\ DOMAIN given \subseteq Pointers /\ given \in [DOMAIN given -> BlockType]
    /\ forgotten \in Nat /\ DOMAIN walking = Callers

\* the sequence of the ALLOCATIONs from one on
Chain(list, first, allocs) ==
    /\ list \in Seq(DOMAIN allocs)
    /\ \A n \in DOMAIN allocs : \E i \in DOMAIN list : n = list[i]
    /\ \A i, j \in DOMAIN list : list[i] = list[j] => i = j
    /\ first = IF list = <<>> THEN NoNode ELSE list[1]
    /\ \A i \in DOMAIN list : allocs[list[i]].next = IF i = Len(list) THEN NoNode ELSE list[i + 1]

\* the ALLOCATIONs and the tracked blocks
Records(allocs, blocks) ==
    /\ \A m, n \in DOMAIN allocs : allocs[m].ptr = allocs[n].ptr => m = n
    /\ \A n \in DOMAIN allocs : /\ allocs[n].ptr \in DOMAIN blocks
                                /\ blocks[allocs[n].ptr] = [size |-> allocs[n].size, tracked |-> TRUE]
    /\ \A p \in DOMAIN blocks : blocks[p].tracked => \E n \in DOMAIN allocs : allocs[n].ptr = p

TotalsOk ==
    gballoc.init => /\ gballoc.totalSize = Wrapped(InUse - forgotten)
                    /\ forgotten = 0 => gballoc.maxSize >= gballoc.totalSize

GballocInv ==
    /\ GballocTypes
    /\ Chain(NodesFrom(gballoc.head), gballoc.head, allocation)
    /\ Records(allocation, given)
    /\ ~gballoc.init => Tracked = {}
    /\ \A t \in Callers : walking[t] = <<>> \/ \E p \in DOMAIN given : walking[t] = <<p, gballoc.head>>
    /\ ~strayed
    /\ TotalsOk

-----------------------------------------------------------------------------
(* Blocks: the list of what is allocated.                                   *)

\* where the walk is
Visits(allocs, n, at) ==
    at = [k \in 1 .. Cardinality(Nodes) + 1 |->
            IF k = 1 THEN n
            ELSE IF at[k - 1] \in DOMAIN allocs THEN allocs[at[k - 1]].next ELSE NoNode]
NodesOf(allocs, n) ==
    LET at == CHOOSE at : Visits(allocs, n, at)
    IN  SubSeq(at, 1, Cardinality({k \in DOMAIN at : at[k] # NoNode}))

LEMMA NodesFromIs == ASSUME NEW n PROVE NodesFrom(n) = NodesOf(allocation, n)
BY DEF NodesFrom, NodesOf, Visits

LEMMA NodesFromNext == NodesFrom(gballoc.head)' = NodesOf(allocation', gballoc'.head)
BY DEF NodesFrom, NodesOf, Visits

LEMMA ChainFits ==
    ASSUME GballocAssumption, NEW allocs, DOMAIN allocs \subseteq Nodes,
           NEW list, NEW first, Chain(list, first, allocs)
    PROVE  Len(list) \in 0 .. Cardinality(Nodes) /\ Cardinality(Nodes) \in Nat
<1>1. IsFiniteSet(Nodes) /\ list \in Seq(Nodes) /\ Cardinality(Nodes) \in Nat
  BY FS_CardinalityType DEF GballocAssumption, Chain
<1>2. list \in [1 .. Len(list) -> Nodes] /\ Len(list) \in Nat /\ DOMAIN list = 1 .. Len(list) BY <1>1
<1>3. list \in Injection(1 .. Len(list), Nodes) BY <1>2 DEF Injection, IsInjective, Chain
<1>4. Cardinality(1 .. Len(list)) = Len(list)
  <2>1. Cardinality(1 .. Len(list)) = IF 1 > Len(list) THEN 0 ELSE Len(list) - 1 + 1 BY <1>2, FS_Interval
  <2> QED BY <2>1, <1>2
<1>5. Cardinality(1 .. Len(list)) <= Cardinality(Nodes) BY <1>1, <1>3, FS_Injection
<1> QED BY <1>1, <1>2, <1>4, <1>5

\* the walk finds the list
LEMMA Walked ==
    ASSUME GballocAssumption, NEW allocs, DOMAIN allocs \subseteq Nodes,
           NEW list, NEW first, Chain(list, first, allocs)
    PROVE  NodesOf(allocs, first) = list
<1> DEFINE N == Cardinality(Nodes)
           L == Len(list)
<1>1. L \in Nat /\ L <= N /\ N \in Nat BY ChainFits
<1> HIDE DEF N
<1>2. list \in Seq(DOMAIN allocs) /\ DOMAIN list = 1 .. L BY DEF Chain
<1>3. NoNode \notin DOMAIN allocs BY DEF GballocAssumption, NoNode
<1>4. \A i \in 1 .. L : list[i] \in DOMAIN allocs BY <1>2
<1> HIDE DEF L
<1> DEFINE a == [k \in 1 .. N + 1 |-> IF k <= L THEN list[k] ELSE NoNode]
<1>5. Visits(allocs, first, a)
  <2>1. ASSUME NEW k \in 1 .. N + 1
        PROVE  a[k] = IF k = 1 THEN first
                      ELSE IF a[k - 1] \in DOMAIN allocs THEN allocs[a[k - 1]].next ELSE NoNode
    <3>1. CASE k = 1
      <4>1. a[k] = IF 1 <= L THEN list[1] ELSE NoNode BY <3>1
      <4>2. list = <<>> <=> ~(1 <= L) BY <1>1, <1>2 DEF L
      <4> QED BY <3>1, <4>1, <4>2 DEF Chain
    <3>2. CASE k # 1
      <4>1. k - 1 \in 1 .. N + 1 /\ k - 1 \in Nat BY <1>1, <3>2
      <4>2. a[k - 1] = IF k - 1 <= L THEN list[k - 1] ELSE NoNode BY <4>1
      <4>3. a[k] = IF k <= L THEN list[k] ELSE NoNode OBVIOUS
      <4> HIDE DEF a
      <4>4. CASE k - 1 <= L
        <5>1. k - 1 \in 1 .. L BY <4>1, <4>4, <1>1
        <5>2. allocs[list[k - 1]].next = IF k - 1 = L THEN NoNode ELSE list[k - 1 + 1]
          BY <5>1, <1>2 DEF Chain, L
        <5>3. k - 1 + 1 = k /\ (k - 1 = L <=> ~(k <= L)) BY <4>4, <1>1
        <5> QED BY <3>2, <4>2, <4>3, <4>4, <5>1, <5>2, <5>3, <1>4
      <4>5. CASE ~(k - 1 <= L)
        <5>1. ~(k <= L) BY <4>5, <1>1
        <5> QED BY <3>2, <4>2, <4>3, <4>5, <5>1, <1>3
      <4> QED BY <4>4, <4>5
    <3> QED BY <3>1, <3>2
  <2>2. a = [k \in 1 .. N + 1 |-> a[k]] OBVIOUS
  <2> HIDE DEF a
  <2> QED BY <2>1, <2>2 DEF Visits, N
<1> DEFINE f == CHOOSE at : Visits(allocs, first, at)
<1>6. Visits(allocs, first, f) BY <1>5
<1>7. f = [k \in 1 .. N + 1 |-> IF k = 1 THEN first
                                ELSE IF f[k - 1] \in DOMAIN allocs THEN allocs[f[k - 1]].next ELSE NoNode]
  BY <1>6 DEF Visits, N
<1>8. a = [k \in 1 .. N + 1 |-> IF k = 1 THEN first
                                ELSE IF a[k - 1] \in DOMAIN allocs THEN allocs[a[k - 1]].next ELSE NoNode]
  BY <1>5 DEF Visits, N
<1>9. NodesOf(allocs, first) = SubSeq(f, 1, Cardinality({k \in DOMAIN f : f[k] # NoNode})) BY DEF NodesOf
<1> HIDE DEF f, a
<1>10. \A k \in 1 .. N + 1 : f[k] = a[k]
  <2> DEFINE Bad == {k \in 1 .. N + 1 : f[k] # a[k]}
  <2>1. ASSUME Bad # {} PROVE FALSE
    <3>1. Bad \in SUBSET Nat OBVIOUS
    <3> DEFINE m == Min(Bad)
    <3>2. m \in Bad /\ \A k \in Bad : m <= k
      <4> HIDE DEF Bad
      <4> QED BY <2>1, <3>1, Least
    <3> HIDE DEF m
    <3>3. m \in 1 .. N + 1 /\ f[m] # a[m] BY <3>2
    <3>4. m # 1 BY <3>3, <1>7, <1>8
    <3>5. m - 1 \in 1 .. N + 1 /\ ~(m <= m - 1) BY <3>3, <3>4, <1>1
    <3>6. f[m - 1] = a[m - 1] BY <3>2, <3>5
    <3>7. f[m] = IF m = 1 THEN first ELSE IF f[m - 1] \in DOMAIN allocs THEN allocs[f[m - 1]].next ELSE NoNode
      BY <3>3, <1>7
    <3>8. a[m] = IF m = 1 THEN first ELSE IF a[m - 1] \in DOMAIN allocs THEN allocs[a[m - 1]].next ELSE NoNode
      BY <3>3, <1>8
    <3> QED BY <3>3, <3>4, <3>6, <3>7, <3>8
  <2> QED BY <2>1
<1>11. f = a BY <1>7, <1>8, <1>10
<1>12. DOMAIN a = 1 .. N + 1 /\ \A k \in 1 .. N + 1 : a[k] = IF k <= L THEN list[k] ELSE NoNode BY DEF a
<1>13. {k \in DOMAIN a : a[k] # NoNode} = 1 .. L
  <2>1. ASSUME NEW k \in 1 .. N + 1 PROVE a[k] # NoNode <=> k <= L
    <3>1. k <= L => list[k] # NoNode
      <4>1. k <= L => k \in 1 .. L BY <1>1
      <4> QED BY <4>1, <1>3, <1>4
    <3> QED BY <3>1, <1>12
  <2> QED BY <2>1, <1>1, <1>12
<1>14. Cardinality(1 .. L) = L BY <1>1, FS_Interval
<1>15. SubSeq(a, 1, L) = list
  <2>1. SubSeq(a, 1, L) = [i \in 1 .. L |-> a[i]]
    <3>1. SubSeq(a, 1, L) = [i \in 1 .. L - 1 + 1 |-> a[i + 1 - 1]] BY <1>1
    <3>2. L - 1 + 1 = L /\ \A i \in 1 .. L : i + 1 - 1 = i BY <1>1
    <3> QED BY <3>1, <3>2
  <2>2. \A i \in 1 .. L : a[i] = list[i] BY <1>1, <1>12
  <2>3. list = [i \in 1 .. L |-> list[i]] BY <1>2
  <2> QED BY <2>1, <2>2, <2>3
<1> QED BY <1>9, <1>11, <1>13, <1>14, <1>15

LEMMA WithType ==
    ASSUME NEW f, NEW T, f \in [DOMAIN f -> T], NEW x, NEW y \in T
    PROVE  With(f, x, y) \in [DOMAIN With(f, x, y) -> T]
BY DEF With

LEMMA WithoutType ==
    ASSUME NEW f, NEW T, f \in [DOMAIN f -> T], NEW x
    PROVE  Without(f, x) \in [DOMAIN Without(f, x) -> T]
BY DEF Without

\* a new ALLOCATION comes first
LEMMA ChainMore ==
    ASSUME NEW allocs, NEW list, NEW first, Chain(list, first, allocs),
           NEW n, n \notin DOMAIN allocs, NEW a, a.next = first
    PROVE  Chain(<<n>> \o list, n, With(allocs, n, a))
<1>0. \A z \in DOMAIN allocs : z # n OBVIOUS
<1> DEFINE L == Len(list)
           more == <<n>> \o list
           new == With(allocs, n, a)
<1>1. list \in Seq(DOMAIN allocs) /\ L \in Nat /\ DOMAIN list = 1 .. L BY DEF Chain
<1>2. DOMAIN new = DOMAIN allocs \cup {n} /\ new[n] = a /\ \A z \in DOMAIN allocs : new[z] = allocs[z]
  BY <1>0 DEF With
<1>3. more \in Seq(DOMAIN new)
  <2>1. list \in Seq(DOMAIN new) /\ <<n>> \in Seq(DOMAIN new) BY <1>1, <1>2
  <2> HIDE DEF new
  <2> QED BY <2>1
<1>4. /\ Len(more) = L + 1 /\ DOMAIN more = 1 .. L + 1 /\ more[1] = n
      /\ \A i \in 1 .. L : more[i + 1] = list[i]
      /\ \A i \in 2 .. L + 1 : i - 1 \in 1 .. L /\ more[i] = list[i - 1]
  BY <1>1
<1>5. \A i \in 1 .. L : list[i] \in DOMAIN allocs BY <1>1
<1> HIDE DEF more, new
<1>6. ASSUME NEW m \in DOMAIN new PROVE \E i \in DOMAIN more : m = more[i]
  <2>1. CASE m = n
    <3>1. 1 \in DOMAIN more BY <1>1, <1>4
    <3> QED BY <2>1, <3>1, <1>4
  <2>2. CASE m # n
    <3>1. PICK i \in DOMAIN list : m = list[i] BY <2>2, <1>2 DEF Chain
    <3>2. i \in 1 .. L /\ i + 1 \in 1 .. L + 1 BY <1>1
    <3> QED BY <3>1, <3>2, <1>4
  <2> QED BY <2>1, <2>2
<1>7. ASSUME NEW i \in 1 .. L + 1, NEW j \in 1 .. L + 1, more[i] = more[j] PROVE i = j
  <2>1. CASE i = 1 \/ j = 1
    <3>1. ASSUME NEW k \in 1 .. L + 1, k # 1 PROVE more[k] # n
      <4>1. k \in 2 .. L + 1 BY <3>1, <1>1
      <4> QED BY <4>1, <1>4, <1>5
    <3> QED BY <2>1, <3>1, <1>4, <1>7
  <2>2. CASE i # 1 /\ j # 1
    <3>1. i \in 2 .. L + 1 /\ j \in 2 .. L + 1 BY <2>2, <1>1
    <3>2. list[i - 1] = list[j - 1] /\ i - 1 \in 1 .. L /\ j - 1 \in 1 .. L BY <3>1, <1>4, <1>7
    <3>3. i - 1 = j - 1 BY <3>2, <1>1 DEF Chain
    <3> QED BY <3>3, <3>1
  <2> QED BY <2>1, <2>2
<1>8. ASSUME NEW i \in 1 .. L + 1
      PROVE  new[more[i]].next = IF i = Len(more) THEN NoNode ELSE more[i + 1]
  <2>1. CASE i = 1
    <3>1. new[more[i]].next = first BY <2>1, <1>2, <1>4
    <3>2. L = 0 <=> list = <<>> BY <1>1
    <3>3. L # 0 => more[2] = list[1]
      <4>1. L # 0 => 1 \in 1 .. L /\ 1 + 1 = 2 BY <1>1
      <4> QED BY <4>1, <1>4
    <3> QED BY <2>1, <3>1, <3>2, <3>3, <1>1, <1>4 DEF Chain
  <2>2. CASE i # 1
    <3>1. i \in 2 .. L + 1 BY <2>2, <1>1
    <3>2. i - 1 \in 1 .. L /\ more[i] = list[i - 1] BY <3>1, <1>4
    <3>3. allocs[list[i - 1]].next = IF i - 1 = L THEN NoNode ELSE list[i - 1 + 1] BY <3>2, <1>1 DEF Chain
    <3>4. new[more[i]].next = allocs[list[i - 1]].next BY <3>2, <1>2, <1>5
    <3>5. i - 1 + 1 = i /\ (i - 1 = L <=> i = L + 1) BY <3>1, <1>1
    <3>6. i # L + 1 => more[i + 1] = list[i]
      <4>1. i # L + 1 => i \in 1 .. L BY <3>1, <1>1
      <4> QED BY <4>1, <1>4
    <3> QED BY <3>3, <3>4, <3>5, <3>6, <1>4
  <2> QED BY <2>1, <2>2
<1>9. more # <<>> BY <1>1, <1>4
<1> QED BY <1>3, <1>4, <1>6, <1>7, <1>8, <1>9 DEF Chain, more, new

\* one whose next stays
LEMMA ChainSame ==
    ASSUME NEW allocs, NEW list, NEW first, Chain(list, first, allocs),
           NEW new, DOMAIN new = DOMAIN allocs, \A n \in DOMAIN allocs : new[n].next = allocs[n].next
    PROVE  Chain(list, first, new)
<1>1. list \in Seq(DOMAIN allocs) /\ DOMAIN list = 1 .. Len(list) BY DEF Chain
<1>2. \A i \in DOMAIN list : list[i] \in DOMAIN allocs BY <1>1
<1> QED BY <1>1, <1>2 DEF Chain

\* the list without its i-th
But(list, i) == [k \in 1 .. Len(list) - 1 |-> IF k < i THEN list[k] ELSE list[k + 1]]

LEMMA ChainLess ==
    ASSUME NEW allocs, \A m \in DOMAIN allocs : allocs[m] \in AllocationType,
           NEW list, NEW first, Chain(list, first, allocs), NEW i \in DOMAIN list,
           NEW new,
           DOMAIN new = DOMAIN allocs \ {list[i]},
           \A m \in DOMAIN new :
               new[m].next = IF i # 1 /\ m = list[i - 1] THEN allocs[list[i]].next ELSE allocs[m].next
    PROVE  Chain(But(list, i), IF i = 1 THEN allocs[list[i]].next ELSE first, new)
<1> DEFINE L == Len(list)
           less == But(list, i)
<1>1. list \in Seq(DOMAIN allocs) /\ L \in Nat /\ DOMAIN list = 1 .. L BY DEF Chain
<1>2. i \in 1 .. L /\ L - 1 \in Nat /\ L \in Nat BY <1>1
<1>3. \A k \in 1 .. L : list[k] \in DOMAIN allocs BY <1>1
<1>4. \A j, k \in 1 .. L : list[j] = list[k] => j = k BY <1>1 DEF Chain
<1>5. DOMAIN less = 1 .. L - 1 /\ \A k \in 1 .. L - 1 : less[k] = IF k < i THEN list[k] ELSE list[k + 1] BY DEF But
<1>6. \A k \in 1 .. L : allocs[list[k]].next = IF k = L THEN NoNode ELSE list[k + 1] BY <1>1 DEF Chain
<1>7. ASSUME NEW k \in 1 .. L - 1 PROVE less[k] \in DOMAIN new
  <2>1. k \in 1 .. L /\ k + 1 \in 1 .. L /\ k \in Nat BY <1>2
  <2>2. less[k] = IF k < i THEN list[k] ELSE list[k + 1] BY <1>5
  <2>3. less[k] \in DOMAIN allocs BY <2>1, <2>2, <1>3
  <2>4. less[k] # list[i] BY <2>1, <2>2, <1>2, <1>4
  <2> QED BY <2>3, <2>4
<1>8. less \in Seq(DOMAIN new) /\ Len(less) = L - 1
  <2>1. less = [k \in 1 .. L - 1 |-> less[k]] BY DEF But
  <2> HIDE DEF less
  <2> QED BY <2>1, <1>2, <1>7
<1> HIDE DEF less, L
<1>9. ASSUME NEW m \in DOMAIN new PROVE \E k \in DOMAIN less : m = less[k]
  <2>1. PICK k \in 1 .. L : m = list[k] BY <1>1 DEF Chain
  <2>2. k # i BY <2>1
  <2>3. CASE k < i
    <3>1. k \in 1 .. L - 1 BY <2>3, <1>2
    <3> QED BY <3>1, <2>1, <2>3, <1>5
  <2>4. CASE i < k
    <3>1. k - 1 \in 1 .. L - 1 /\ ~(k - 1 < i) /\ k - 1 + 1 = k BY <2>4, <1>2
    <3> QED BY <3>1, <2>1, <1>5
  <2> QED BY <2>2, <2>3, <2>4, <1>2
<1>10. ASSUME NEW j \in 1 .. L - 1, NEW k \in 1 .. L - 1, less[j] = less[k] PROVE j = k
  <2>1. j \in 1 .. L /\ j + 1 \in 1 .. L /\ k \in 1 .. L /\ k + 1 \in 1 .. L BY <1>2
  <2>2. less[j] = IF j < i THEN list[j] ELSE list[j + 1] BY <1>5
  <2>3. less[k] = IF k < i THEN list[k] ELSE list[k + 1] BY <1>5
  <2>4. (IF j < i THEN j ELSE j + 1) = (IF k < i THEN k ELSE k + 1) BY <2>1, <2>2, <2>3, <1>4, <1>10
  <2> QED BY <2>4, <1>2
<1>11. (IF i = 1 THEN allocs[list[i]].next ELSE first) = IF less = <<>> THEN NoNode ELSE less[1]
  <2>1. less = <<>> <=> L = 1 BY <1>8, <1>2
  <2>2. CASE i = 1
    <3>1. allocs[list[1]].next = IF 1 = L THEN NoNode ELSE list[2]
      <4>1. 1 \in 1 .. L /\ 1 + 1 = 2 BY <2>2, <1>2
      <4> QED BY <4>1, <1>6
    <3>2. L # 1 => less[1] = list[2]
      <4>1. L # 1 => 1 \in 1 .. L - 1 BY <1>2
      <4>2. ~(1 < i) /\ 1 + 1 = 2 BY <2>2
      <4> QED BY <4>1, <4>2, <1>5
    <3> QED BY <2>1, <2>2, <3>1, <3>2
  <2>3. CASE i # 1
    <3>1. 1 \in 1 .. L - 1 /\ 1 < i /\ L # 1 BY <2>3, <1>2
    <3>2. less[1] = list[1] BY <3>1, <1>5
    <3>3. first = list[1]
      <4>1. list # <<>> BY <1>1, <1>2 DEF L
      <4> QED BY <4>1 DEF Chain
    <3> QED BY <2>1, <2>3, <3>1, <3>2, <3>3
  <2> QED BY <2>2, <2>3
<1>12. ASSUME NEW k \in 1 .. L - 1
       PROVE  new[less[k]].next = IF k = L - 1 THEN NoNode ELSE less[k + 1]
  <2>0. k \in Nat /\ k \in 1 .. L /\ k + 1 \in 1 .. L /\ L \in Nat /\ i \in Nat BY <1>2
  <2>1. k # L - 1 => k + 1 \in 1 .. L - 1 BY <1>2
  <2>2. k # L - 1 => less[k + 1] = IF k + 1 < i THEN list[k + 1] ELSE list[k + 1 + 1] BY <2>1, <1>5
  <2>3. less[k] = IF k < i THEN list[k] ELSE list[k + 1] BY <1>5
  <2>4. new[less[k]].next = IF i # 1 /\ less[k] = list[i - 1] THEN allocs[list[i]].next ELSE allocs[less[k]].next
    BY <1>7
  <2>5. allocs[list[k]].next = IF k = L THEN NoNode ELSE list[k + 1] BY <2>0, <1>6
  <2>6. allocs[list[k + 1]].next = IF k + 1 = L THEN NoNode ELSE list[k + 1 + 1] BY <2>0, <1>6
  <2>7. allocs[list[i]].next = IF i = L THEN NoNode ELSE list[i + 1] BY <1>2, <1>6
  <2>8. CASE k = i - 1
    <3>1. i # 1 /\ k < i /\ ~(k + 1 < i) /\ k + 1 = i /\ (i = L <=> k = L - 1) BY <2>0, <2>8
    <3> QED BY <3>1, <2>2, <2>3, <2>4, <2>7, <2>8
  <2>9. CASE k < i - 1
    <3>1. k < i /\ k + 1 < i /\ k # L /\ k # L - 1 /\ i - 1 \in 1 .. L /\ k # i - 1 BY <2>0, <2>9, <1>2
    <3>2. list[k] # list[i - 1] BY <3>1, <2>0, <1>4
    <3> QED BY <3>1, <3>2, <2>2, <2>3, <2>4, <2>5
  <2>10. CASE ~(k < i)
    <3>1. ~(k + 1 < i) /\ (k + 1 = L <=> k = L - 1) BY <2>0, <2>10, <1>2
    <3>2. i # 1 => list[k + 1] # list[i - 1]
      <4>1. i # 1 => i - 1 \in 1 .. L /\ i - 1 # k + 1 BY <2>0, <2>10, <1>2
      <4> QED BY <4>1, <2>0, <1>4
    <3> QED BY <3>1, <3>2, <2>2, <2>3, <2>4, <2>6, <2>10
  <2> QED BY <2>0, <2>8, <2>9, <2>10
<1> QED BY <1>5, <1>8, <1>9, <1>10, <1>11, <1>12 DEF Chain, less

-----------------------------------------------------------------------------
(* Blocks: what is counted.                                                 *)

\* a sum is taken modulo the values of a size_t as it grows
LEMMA SizeAdd ==
    ASSUME GballocAssumption, NEW a \in Int, NEW b \in Int
    PROVE  Wrapped(Wrapped(a) + b) = Wrapped(a + b) /\ Wrapped(a) \in Nat
<1> DEFINE M == SizeValues
<1>1. M \in Nat \ {0} BY DEF GballocAssumption
<1> HIDE DEF M
<1> DEFINE q == a \div M
           r == a % M
           q2 == (r + b) \div M
           s == (r + b) % M
<1>2. q \in Int /\ r \in 0 .. M - 1 /\ a = M * q + r BY <1>1
<1> HIDE DEF q, r
<1>3. r + b \in Int BY <1>1, <1>2
<1>4. q2 \in Int /\ s \in 0 .. M - 1 /\ r + b = M * q2 + s
  <2> DEFINE c == r + b
  <2>1. c \in Int BY <1>3
  <2> HIDE DEF c
  <2>2. c \div M \in Int /\ c % M \in 0 .. M - 1 /\ c = M * (c \div M) + (c % M) BY <2>1, <1>1
  <2> QED BY <2>2 DEF c
<1> HIDE DEF q2, s
<1>5. a + b = M * (q + q2) + s
  <2>1. M * (q + q2) = M * q + M * q2 BY <1>1, <1>2, <1>4
  <2>2. M * q \in Int /\ M * q2 \in Int BY <1>1, <1>2, <1>4
  <2> QED BY <2>1, <2>2, <1>1, <1>2, <1>4
<1>6. (M * (q + q2) + s) % M = s
  <2> DEFINE k == q + q2
  <2>1. k \in Int BY <1>2, <1>4
  <2> HIDE DEF k
  <2>2. (M * k + s) % M = s BY <2>1, <1>1, <1>4
  <2> QED BY <2>2 DEF k
<1> QED BY <1>2, <1>1, <1>5, <1>6 DEF Wrapped, M, r, s

LEMMA SizeSmall ==
    ASSUME GballocAssumption, NEW a \in 0 .. SIZE_MAX
    PROVE  Wrapped(a) = a
BY DEF GballocAssumption, SIZE_MAX, Wrapped

TrackedOf(blocks) == {p \in DOMAIN blocks : blocks[p].tracked}
Blocks(blocks) == DOMAIN blocks \subseteq Pointers /\ blocks \in [DOMAIN blocks -> BlockType]

LEMMA BlocksFinite ==
    ASSUME GballocAssumption, NEW blocks, Blocks(blocks)
    PROVE  /\ IsFiniteSet(TrackedOf(blocks))
           /\ \A p \in TrackedOf(blocks) : blocks[p].size \in Nat
           /\ BytesOf(blocks, TrackedOf(blocks)) \in Nat
<1>1. TrackedOf(blocks) \in SUBSET Pointers /\ \A p \in TrackedOf(blocks) : blocks[p].size \in Nat
  BY DEF Blocks, BlockType, TrackedOf
<1>2. IsFiniteSet(TrackedOf(blocks)) BY <1>1, FS_Subset DEF GballocAssumption
<1> QED BY <1>1, <1>2, BytesSame

\* a block is handed out
LEMMA BytesWith ==
    ASSUME GballocAssumption, NEW blocks, Blocks(blocks),
           NEW p \in Pointers \ DOMAIN blocks, NEW size \in Nat
    PROVE  LET new == With(blocks, p, [size |-> size, tracked |-> TRUE])
           IN  BytesOf(new, TrackedOf(new)) = BytesOf(blocks, TrackedOf(blocks)) + size
<1> DEFINE new == With(blocks, p, [size |-> size, tracked |-> TRUE])
           T == TrackedOf(blocks)
<1>1. TrackedOf(new) = T \cup {p} /\ p \notin T BY DEF TrackedOf, With
<1>2. new[p].size = size /\ \A q \in T : new[q] = blocks[q] BY DEF TrackedOf, With
<1>3. IsFiniteSet(T) /\ \A q \in T : blocks[q].size \in Nat BY BlocksFinite
<1> HIDE DEF new, T
<1>4. \A q \in T \cup {p} : new[q].size \in Nat BY <1>2, <1>3
<1>5. BytesOf(new, T \cup {p}) = BytesOf(new, T) + size BY <1>1, <1>2, <1>3, <1>4, BytesAdd
<1>6. BytesOf(new, T) = BytesOf(blocks, T)
  <2>1. \A q \in T : blocks[q].size = new[q].size /\ blocks[q].size \in Nat BY <1>2, <1>3
  <2> QED BY <2>1, <1>3, BytesSame
<1> QED BY <1>1, <1>5, <1>6 DEF new, T

\* a block is taken back
LEMMA BytesWithout ==
    ASSUME GballocAssumption, NEW blocks, Blocks(blocks), NEW p \in TrackedOf(blocks)
    PROVE  LET new == Without(blocks, p)
           IN  /\ BytesOf(blocks, TrackedOf(blocks)) = BytesOf(new, TrackedOf(new)) + blocks[p].size
               /\ Blocks(new)
<1> DEFINE new == Without(blocks, p)
           T == TrackedOf(new)
<1>1. TrackedOf(blocks) = T \cup {p} /\ p \notin T BY DEF TrackedOf, Without
<1>2. \A q \in T : new[q] = blocks[q] BY DEF TrackedOf, Without
<1>3. Blocks(new) BY DEF Without, Blocks
<1> HIDE DEF new
<1>4. IsFiniteSet(T) /\ \A q \in T : new[q].size \in Nat BY <1>3, BlocksFinite
<1>5. \A q \in TrackedOf(blocks) : blocks[q].size \in Nat BY BlocksFinite
<1> HIDE DEF T
<1>6. BytesOf(blocks, T \cup {p}) = BytesOf(blocks, T) + blocks[p].size BY <1>1, <1>4, <1>5, BytesAdd
<1>7. BytesOf(blocks, T) = BytesOf(new, T)
  <2>1. \A q \in T : new[q].size = blocks[q].size /\ new[q].size \in Nat BY <1>2, <1>4
  <2> QED BY <2>1, <1>4, BytesSame
<1> QED BY <1>1, <1>3, <1>6, <1>7 DEF new, T

-----------------------------------------------------------------------------
(* Blocks: the steps.                                                       *)

OneCaller == \E t \in Callers : Callers = {t}
\* what is in use fits the memory there is
Fits == InUse <= SIZE_MAX

\* the parts of the invariant, of a state and of the next one
LEMMA Known ==
    ASSUME GballocAssumption, GballocInv
    PROVE  /\ InUse = BytesOf(given, TrackedOf(given)) /\ InUse \in Nat /\ Tracked = TrackedOf(given)
           /\ NodesFrom(gballoc.head) = NodesOf(allocation, gballoc.head)
           /\ Blocks(given)
<1>1. Tracked = TrackedOf(given) BY DEF Tracked, TrackedOf
<1>2. Blocks(given) BY DEF GballocInv, GballocTypes, Blocks
<1> QED BY <1>1, <1>2, InUseIs, BlocksFinite, NodesFromIs

LEMMA Kept ==
    ASSUME GballocAssumption, GballocTypes', NEW list, Chain(list, gballoc'.head, allocation'),
           Records(allocation', given'),
           ~gballoc'.init => TrackedOf(given') = {},
           \A t \in Callers : walking'[t] = <<>> \/ \E p \in DOMAIN given' : walking'[t] = <<p, gballoc'.head>>,
           ~strayed',
           gballoc'.init => /\ gballoc'.totalSize = Wrapped(BytesOf(given', TrackedOf(given')) - forgotten')
                            /\ forgotten' = 0 => gballoc'.maxSize >= gballoc'.totalSize
    PROVE  GballocInv'
<1>1. NodesFrom(gballoc.head)' = list
  <2>1. DOMAIN allocation' \subseteq Nodes BY DEF GballocTypes
  <2>2. NodesOf(allocation', gballoc'.head) = list BY <2>1, Walked
  <2> QED BY <2>2, NodesFromNext
<1>2. Tracked' = TrackedOf(given') BY DEF Tracked, TrackedOf
<1>3. InUse' = BytesOf(given', TrackedOf(given')) BY <1>2, InUseNext
<1> QED BY <1>1, <1>2, <1>3 DEF GballocInv, TotalsOk

LEMMA NoneRecorded ==
    ASSUME NEW allocs, NEW blocks, Records(allocs, blocks), TrackedOf(blocks) = {}
    PROVE  DOMAIN allocs = {}
<1>1. ASSUME NEW n \in DOMAIN allocs PROVE FALSE
  <2>1. allocs[n].ptr \in DOMAIN blocks /\ blocks[allocs[n].ptr] = [size |-> allocs[n].size, tracked |-> TRUE]
    BY DEF Records
  <2>2. blocks[allocs[n].ptr].tracked BY <2>1
  <2> QED BY <2>1, <2>2 DEF TrackedOf
<1> QED BY <1>1

LEMMA NoneInUse == ASSUME GballocAssumption, GballocInv, Tracked = {} PROVE InUse = 0
<1>1. InUse = BytesOf(given, {}) BY InUseIs
<1> DEFINE h == [s \in SUBSET {} |-> 0]
<1>2. Adds(given, {}, h) BY DEF Adds
<1>3. BytesOf(given, {}) = h[{}] BY <1>2, BytesIs, FS_EmptySet
<1> QED BY <1>1, <1>3

LEMMA TotalIs ==
    ASSUME GballocAssumption, NEW g \in [init: BOOLEAN, head: Nodes \cup {NoNode}, totalSize: Nat, maxSize: Nat],
           NEW n \in Int
    PROVE  /\ Total(g, n) \in [init: BOOLEAN, head: Nodes \cup {NoNode}, totalSize: Nat, maxSize: Nat]
           /\ Total(g, n).init = g.init /\ Total(g, n).head = g.head
           /\ Total(g, n).totalSize = Wrapped(n) /\ Total(g, n).maxSize >= Wrapped(n)
<1>1. Wrapped(n) \in Nat BY SizeAdd
<1> DEFINE s == Wrapped(n)
           m == IF g.maxSize < s THEN s ELSE g.maxSize
<1>2. s \in Nat /\ m \in Nat /\ m >= s BY <1>1
<1>3. Total(g, n) = [g EXCEPT !.totalSize = s, !.maxSize = m] BY DEF Total
<1> HIDE DEF m
<1> QED BY <1>2, <1>3

LEMMA GballocStart == GballocAssumption /\ GballocInit => GballocInv
<1> SUFFICES ASSUME GballocAssumption, GballocInit PROVE GballocInv OBVIOUS
<1>1. GballocTypes /\ gballoc.head = NoNode BY DEF GballocInit, GballocTypes
<1>2. DOMAIN allocation = {} /\ DOMAIN given = {} BY DEF GballocInit
<1>3. Chain(<<>>, NoNode, allocation) BY <1>2 DEF Chain
<1>4. NodesFrom(gballoc.head) = <<>>
  <2>1. NodesOf(allocation, gballoc.head) = <<>> BY <1>1, <1>2, <1>3, Walked
  <2> QED BY <2>1, NodesFromIs
<1>5. Records(allocation, given) BY <1>2 DEF Records
<1> QED BY <1>1, <1>2, <1>3, <1>4, <1>5 DEF GballocInv, GballocInit, TotalsOk, Tracked

LEMMA gballoc_initKeeps == ASSUME GballocAssumption, GballocInv, gballoc_init PROVE GballocInv'
<1>1. forgotten' = 0 BY Known, NoneInUse DEF gballoc_init, GballocInv
<1>2. BytesOf(given', TrackedOf(given')) = 0 BY Known, NoneInUse DEF gballoc_init, GballocInv
<1>3. Wrapped(0) = 0 BY SizeSmall DEF GballocAssumption, SIZE_MAX
<1>4. /\ gballoc' \in [init: BOOLEAN, head: Nodes \cup {NoNode}, totalSize: Nat, maxSize: Nat]
      /\ gballoc'.head = gballoc.head /\ gballoc'.totalSize = 0 /\ gballoc'.maxSize = 0 /\ gballoc'.init
  BY DEF gballoc_init, GballocInv, GballocTypes
<1>5. GballocTypes' BY <1>1, <1>4 DEF gballoc_init, GballocInv, GballocTypes
<1> QED BY <1>1, <1>2, <1>3, <1>4, <1>5, Kept DEF gballoc_init, GballocInv

LEMMA gballoc_deinitKeeps == ASSUME GballocAssumption, GballocInv, gballoc_deinit, Tracked = {} PROVE GballocInv'
<1>1. /\ gballoc' \in [init: BOOLEAN, head: Nodes \cup {NoNode}, totalSize: Nat, maxSize: Nat]
      /\ gballoc'.head = gballoc.head /\ ~gballoc'.init
  BY DEF gballoc_deinit, GballocInv, GballocTypes
<1>2. GballocTypes' BY <1>1 DEF gballoc_deinit, GballocInv, GballocTypes
<1> QED BY <1>1, <1>2, Known, Kept DEF gballoc_deinit, GballocInv

LEMMA gballoc_resetMetricsKeeps == ASSUME GballocAssumption, GballocInv, gballoc_resetMetrics PROVE GballocInv'
<1>1. forgotten' = BytesOf(given', TrackedOf(given')) /\ forgotten' \in Nat BY Known DEF gballoc_resetMetrics
<1>2. Wrapped(0) = 0 BY SizeSmall DEF GballocAssumption, SIZE_MAX
<1>3. BytesOf(given', TrackedOf(given')) - forgotten' = 0 BY <1>1
<1>4. /\ gballoc' \in [init: BOOLEAN, head: Nodes \cup {NoNode}, totalSize: Nat, maxSize: Nat]
      /\ gballoc'.head = gballoc.head /\ gballoc'.totalSize = 0 /\ gballoc'.maxSize = 0 /\ gballoc'.init
  BY DEF gballoc_resetMetrics, GballocInv, GballocTypes
<1>5. GballocTypes' BY <1>1, <1>4 DEF gballoc_resetMetrics, GballocInv, GballocTypes
<1> QED BY <1>2, <1>3, <1>4, <1>5, Kept DEF gballoc_resetMetrics, GballocInv

LEMMA RecordsMore ==
    ASSUME NEW allocs, NEW blocks, Records(allocs, blocks),
           NEW n, n \notin DOMAIN allocs, NEW p, p \notin DOMAIN blocks, NEW size, NEW next
    PROVE  Records(With(allocs, n, [ptr |-> p, size |-> size, next |-> next]),
                   With(blocks, p, [size |-> size, tracked |-> TRUE]))
<1> DEFINE a == [ptr |-> p, size |-> size, next |-> next]
           b == [size |-> size, tracked |-> TRUE]
           more == With(allocs, n, a)
           new == With(blocks, p, b)
<1>1. DOMAIN more = DOMAIN allocs \cup {n} /\ more[n] = a /\ \A m \in DOMAIN allocs : m # n /\ more[m] = allocs[m]
  BY DEF With
<1>2. DOMAIN new = DOMAIN blocks \cup {p} /\ new[p] = b /\ \A q \in DOMAIN blocks : q # p /\ new[q] = blocks[q]
  BY DEF With
<1>3. a.ptr = p /\ a.size = size /\ b.tracked = TRUE OBVIOUS
<1> HIDE DEF more, new, a
<1>4. \A m \in DOMAIN allocs : allocs[m].ptr \in DOMAIN blocks BY DEF Records
<1>5. \A m \in DOMAIN more, k \in DOMAIN more : more[m].ptr = more[k].ptr => m = k
  BY <1>1, <1>2, <1>3, <1>4 DEF Records
<1>6. ASSUME NEW m \in DOMAIN more
      PROVE  more[m].ptr \in DOMAIN new /\ new[more[m].ptr] = [size |-> more[m].size, tracked |-> TRUE]
  <2>1. CASE m = n BY <2>1, <1>1, <1>2, <1>3
  <2>2. CASE m # n BY <2>2, <1>1, <1>2, <1>4 DEF Records
  <2> QED BY <2>1, <2>2
<1>7. ASSUME NEW q \in DOMAIN new, new[q].tracked PROVE \E m \in DOMAIN more : more[m].ptr = q
  <2>1. CASE q = p BY <2>1, <1>1, <1>3
  <2>2. CASE q # p
    <3>1. q \in DOMAIN blocks /\ blocks[q].tracked BY <2>2, <1>2, <1>7
    <3>2. PICK m \in DOMAIN allocs : allocs[m].ptr = q BY <3>1 DEF Records
    <3> QED BY <3>2, <1>1
  <2> QED BY <2>1, <2>2
<1> QED BY <1>5, <1>6, <1>7 DEF Records, more, new, a

\* gballoc_malloc and gballoc_calloc
LEMMA gballoc_mallocKeeps ==
    ASSUME GballocAssumption, GballocInv, NEW size \in Nat, gballoc_malloc(size), \A t \in Callers : Idle(t)
    PROVE  GballocInv'
<1>1. PICK p \in Pointers \ DOMAIN given :
        /\ given' = With(given, p, [size |-> size, tracked |-> gballoc.init])
        /\ \/ ~gballoc.init /\ UNCHANGED <<gballoc, allocation>>
           \/ /\ gballoc.init
              /\ \E n \in Nodes \ DOMAIN allocation :
                   /\ allocation' = With(allocation, n, [ptr |-> p, size |-> size, next |-> gballoc.head])
                   /\ gballoc' = Total([gballoc EXCEPT !.head = n], gballoc.totalSize + size)
        /\ UNCHANGED <<forgotten, walking, strayed>>
  BY DEF gballoc_malloc
<1>2. Blocks(given')
  <2>1. [size |-> size, tracked |-> gballoc.init] \in BlockType BY DEF GballocInv, GballocTypes, BlockType
  <2>2. DOMAIN given' \subseteq Pointers BY <1>1, Known DEF With, Blocks
  <2> QED BY <1>1, <2>1, <2>2, Known, WithType DEF Blocks
<1>3. \A t \in Callers : walking'[t] = <<>> BY <1>1 DEF Idle
<1>4. CASE ~gballoc.init
  <2>1. TrackedOf(given) = {} BY <1>4, Known DEF GballocInv
  <2>2. DOMAIN allocation = {} BY <2>1, NoneRecorded DEF GballocInv
  <2>3. TrackedOf(given') = {} BY <1>1, <1>4, <2>1 DEF TrackedOf, With
  <2>4. Records(allocation', given') BY <1>1, <1>4, <2>2, <2>3 DEF Records, TrackedOf
  <2>5. GballocTypes' BY <1>1, <1>2, <1>4 DEF GballocTypes, Blocks, GballocInv
  <2> QED BY <1>1, <1>3, <1>4, <2>3, <2>4, <2>5, Kept DEF GballocInv
<1>5. CASE gballoc.init
  <2>1. PICK n \in Nodes \ DOMAIN allocation :
          /\ allocation' = With(allocation, n, [ptr |-> p, size |-> size, next |-> gballoc.head])
          /\ gballoc' = Total([gballoc EXCEPT !.head = n], gballoc.totalSize + size)
    BY <1>1, <1>5
  <2> DEFINE g == [gballoc EXCEPT !.head = n]
             a == [ptr |-> p, size |-> size, next |-> gballoc.head]
             list == NodesFrom(gballoc.head)
  <2>2. g \in [init: BOOLEAN, head: Nodes \cup {NoNode}, totalSize: Nat, maxSize: Nat] /\ g.head = n /\ g.init
    BY <1>5 DEF GballocInv, GballocTypes
  <2>3. gballoc.totalSize + size \in Int BY DEF GballocInv, GballocTypes
  <2>4. /\ gballoc' \in [init: BOOLEAN, head: Nodes \cup {NoNode}, totalSize: Nat, maxSize: Nat]
        /\ gballoc'.head = n /\ gballoc'.init
        /\ gballoc'.totalSize = Wrapped(gballoc.totalSize + size) /\ gballoc'.maxSize >= gballoc'.totalSize
    <3> HIDE DEF g
    <3> QED BY <2>1, <2>2, <2>3, TotalIs DEF g
  <2>5. Chain(<<n>> \o list, n, allocation')
    <3>1. Chain(list, gballoc.head, allocation) BY DEF GballocInv
    <3>2. a.next = gballoc.head OBVIOUS
    <3> HIDE DEF list, a
    <3>3. Chain(<<n>> \o list, n, With(allocation, n, a)) BY <3>1, <3>2, ChainMore
    <3> QED BY <3>3, <2>1 DEF a
  <2>6. Records(allocation', given') BY <1>1, <1>5, <2>1, RecordsMore DEF GballocInv
  <2>7. BytesOf(given', TrackedOf(given')) = InUse + size
    <3>1. given' = With(given, p, [size |-> size, tracked |-> TRUE]) BY <1>1, <1>5
    <3> QED BY <3>1, Known, BytesWith
  <2>8. gballoc'.totalSize = Wrapped(BytesOf(given', TrackedOf(given')) - forgotten')
    <3>1. gballoc.totalSize = Wrapped(InUse - forgotten) BY <1>5 DEF GballocInv, TotalsOk
    <3>2. InUse \in Nat /\ forgotten \in Nat /\ forgotten' = forgotten BY <1>1, Known DEF GballocInv, GballocTypes
    <3>3. Wrapped(Wrapped(InUse - forgotten) + size) = Wrapped(InUse - forgotten + size) BY <3>2, SizeAdd
    <3>4. InUse - forgotten + size = InUse + size - forgotten' BY <3>2
    <3> QED BY <3>1, <3>2, <3>3, <3>4, <2>4, <2>7
  <2>9. GballocTypes'
    <3>1. a \in AllocationType BY DEF AllocationType, GballocInv, GballocTypes
    <3>2. allocation \in [DOMAIN allocation -> AllocationType] /\ DOMAIN allocation \subseteq Nodes
      BY DEF GballocInv, GballocTypes
    <3>3. DOMAIN allocation' \subseteq Nodes BY <2>1, <3>2 DEF With
    <3>4. allocation' \in [DOMAIN allocation' -> AllocationType] BY <2>1, <3>1, <3>2, WithType
    <3> QED BY <1>1, <1>2, <2>4, <3>3, <3>4 DEF GballocTypes, Blocks, GballocInv
  <2> QED BY <1>1, <1>3, <2>4, <2>5, <2>6, <2>8, <2>9, Kept DEF GballocInv
<1> QED BY <1>4, <1>5

\* the one that Found finds
LEMMA FoundIs ==
    ASSUME NEW list, NEW S, list \in Seq(S), NEW p, Found(list, p) # 0
    PROVE  /\ Found(list, p) \in DOMAIN list
           /\ list[Found(list, p)] \in DOMAIN allocation /\ allocation[list[Found(list, p)]].ptr = p
<1> DEFINE I == {i \in 1 .. Len(list) : list[i] \in DOMAIN allocation /\ allocation[list[i]].ptr = p}
<1>1. Found(list, p) = IF I # {} THEN Min(I) ELSE 0 BY DEF Found, SelectInSeq
<1>2. I \in SUBSET Nat OBVIOUS
<1>3. I # {} => Min(I) \in I
  <2> HIDE DEF I
  <2> QED BY <1>2, Least
<1>4. Found(list, p) \in I BY <1>1, <1>3
<1> QED BY <1>4

\* an ALLOCATION is taken off, and its block is given back
LEMMA RecordsLess ==
    ASSUME NEW allocs, NEW blocks, Records(allocs, blocks), NEW n \in DOMAIN allocs, NEW p, p = allocs[n].ptr,
           NEW new, DOMAIN new = DOMAIN allocs \ {n},
           \A m \in DOMAIN new : new[m].ptr = allocs[m].ptr /\ new[m].size = allocs[m].size
    PROVE  Records(new, Without(blocks, p))
<1> DEFINE less == Without(blocks, p)
<1>1. DOMAIN less = DOMAIN blocks \ {p} /\ \A q \in DOMAIN blocks \ {p} : less[q] = blocks[q] BY DEF Without
<1> HIDE DEF less
<1>2. \A m \in DOMAIN new : m \in DOMAIN allocs /\ m # n /\ allocs[m].ptr # p BY DEF Records
<1>3. \A m \in DOMAIN new, k \in DOMAIN new : new[m].ptr = new[k].ptr => m = k BY <1>2 DEF Records
<1>4. ASSUME NEW m \in DOMAIN new
      PROVE  new[m].ptr \in DOMAIN less /\ less[new[m].ptr] = [size |-> new[m].size, tracked |-> TRUE]
  <2>1. allocs[m].ptr \in DOMAIN blocks /\ blocks[allocs[m].ptr] = [size |-> allocs[m].size, tracked |-> TRUE]
    BY <1>2 DEF Records
  <2> QED BY <2>1, <1>1, <1>2
<1>5. ASSUME NEW q \in DOMAIN less, less[q].tracked PROVE \E m \in DOMAIN new : new[m].ptr = q
  <2>1. q \in DOMAIN blocks /\ q # p /\ blocks[q].tracked BY <1>1, <1>5
  <2>2. PICK m \in DOMAIN allocs : allocs[m].ptr = q BY <2>1 DEF Records
  <2> QED BY <2>1, <2>2
<1> QED BY <1>3, <1>4, <1>5 DEF Records, less

\* or its block is moved and has another size
LEMMA RecordsMoved ==
    ASSUME NEW allocs, NEW blocks, Records(allocs, blocks), NEW n \in DOMAIN allocs, NEW p, p = allocs[n].ptr,
           NEW q, q \notin DOMAIN blocks \ {p}, NEW size,
           NEW new, DOMAIN new = DOMAIN allocs, new[n].ptr = q, new[n].size = size,
           \A m \in DOMAIN allocs \ {n} : new[m] = allocs[m]
    PROVE  Records(new, With(Without(blocks, p), q, [size |-> size, tracked |-> TRUE]))
<1> DEFINE b == [size |-> size, tracked |-> TRUE]
           less == With(Without(blocks, p), q, b)
<1>1. /\ DOMAIN less = (DOMAIN blocks \ {p}) \cup {q} /\ less[q] = b /\ b.tracked = TRUE
      /\ \A r \in DOMAIN blocks \ {p} : r # q /\ less[r] = blocks[r]
  BY DEF With, Without
<1> HIDE DEF less
<1>2. \A m \in DOMAIN allocs \ {n} : allocs[m].ptr \in DOMAIN blocks \ {p} BY DEF Records
<1>3. \A m \in DOMAIN new, k \in DOMAIN new : new[m].ptr = new[k].ptr => m = k BY <1>1, <1>2 DEF Records
<1>4. ASSUME NEW m \in DOMAIN new
      PROVE  new[m].ptr \in DOMAIN less /\ less[new[m].ptr] = [size |-> new[m].size, tracked |-> TRUE]
  <2>1. CASE m = n BY <2>1, <1>1
  <2>2. CASE m # n
    <3>1. blocks[allocs[m].ptr] = [size |-> allocs[m].size, tracked |-> TRUE] BY <2>2 DEF Records
    <3>2. m \in DOMAIN allocs \ {n} BY <2>2
    <3>3. new[m] = allocs[m] /\ allocs[m].ptr \in DOMAIN blocks \ {p} BY <3>2, <1>2
    <3> QED BY <3>1, <3>3, <1>1
  <2> QED BY <2>1, <2>2
<1>5. ASSUME NEW r \in DOMAIN less, less[r].tracked PROVE \E m \in DOMAIN new : new[m].ptr = r
  <2>1. CASE r = q BY <2>1
  <2>2. CASE r # q
    <3>1. r \in DOMAIN blocks \ {p} /\ blocks[r].tracked BY <2>2, <1>1, <1>5
    <3>2. PICK m \in DOMAIN allocs : allocs[m].ptr = r BY <3>1 DEF Records
    <3>3. m # n BY <3>1, <3>2
    <3> QED BY <3>2, <3>3
  <2> QED BY <2>1, <2>2
<1> QED BY <1>3, <1>4, <1>5 DEF Records, less

LEMMA gballoc_reallocKeeps ==
    ASSUME GballocAssumption, GballocInv, NEW p \in DOMAIN given, NEW size \in Nat, gballoc_realloc(p, size),
           \A t \in Callers : Idle(t)
    PROVE  GballocInv'
<1>1. Blocks(given) /\ given[p] \in BlockType /\ p \in Pointers BY Known DEF Blocks
<1>2. PICK q \in (Pointers \ DOMAIN given) \cup {p} :
      \/ /\ ~gballoc.init
         /\ given' = With(Without(given, p), q, [given[p] EXCEPT !.size = size])
         /\ UNCHANGED <<gballoc, allocation, forgotten, walking, strayed>>
      \/ LET i == Found(NodesFrom(gballoc.head), p)
             n == NodesFrom(gballoc.head)[i]
         IN  /\ gballoc.init /\ i # 0
             /\ allocation' = [allocation EXCEPT ![n].ptr = q, ![n].size = size]
             /\ gballoc' = Total(gballoc, gballoc.totalSize - allocation[n].size + size)
             /\ given' = With(Without(given, p), q, [size |-> size, tracked |-> TRUE])
             /\ UNCHANGED <<forgotten, walking, strayed>>
  BY DEF gballoc_realloc
<1>3. q \in Pointers BY <1>1, <1>2
<1>4. ASSUME NEW b \in BlockType, given' = With(Without(given, p), q, b) PROVE Blocks(given')
  <2>1. Without(given, p) \in [DOMAIN Without(given, p) -> BlockType] BY <1>1, WithoutType DEF Blocks
  <2>2. given' \in [DOMAIN given' -> BlockType] BY <1>4, <2>1, WithType
  <2>3. DOMAIN given' \subseteq Pointers BY <1>1, <1>3, <1>4 DEF Blocks, With, Without
  <2> QED BY <2>2, <2>3 DEF Blocks
<1>5. CASE ~gballoc.init
  <2> DEFINE b == [given[p] EXCEPT !.size = size]
  <2>1. TrackedOf(given) = {} BY <1>5, Known DEF GballocInv
  <2>2. DOMAIN allocation = {} BY <2>1, NoneRecorded DEF GballocInv
  <2>3. /\ given' = With(Without(given, p), q, b) /\ UNCHANGED <<gballoc, allocation, forgotten, walking, strayed>>
    BY <1>2, <1>5
  <2>4. ~given[p].tracked BY <2>1 DEF TrackedOf
  <2>5. b \in BlockType /\ ~b.tracked BY <1>1, <2>4 DEF BlockType
  <2> HIDE DEF b
  <2>6. TrackedOf(given') = {} BY <2>1, <2>3, <2>5 DEF TrackedOf, With, Without
  <2>7. Records(allocation', given') BY <2>2, <2>3, <2>6 DEF Records, TrackedOf
  <2>8. Blocks(given') BY <2>3, <2>5, <1>4
  <2>9. GballocTypes' BY <2>3, <2>8 DEF GballocTypes, Blocks, GballocInv
  <2>10. \A t \in Callers : walking'[t] = <<>> BY <2>3 DEF Idle
  <2> QED BY <1>5, <2>3, <2>6, <2>7, <2>9, <2>10, Kept DEF GballocInv
<1>6. CASE gballoc.init
  <2> DEFINE list == NodesFrom(gballoc.head)
             i == Found(list, p)
             n == list[i]
             b == [size |-> size, tracked |-> TRUE]
  <2>1. /\ i # 0
        /\ allocation' = [allocation EXCEPT ![n].ptr = q, ![n].size = size]
        /\ gballoc' = Total(gballoc, gballoc.totalSize - allocation[n].size + size)
        /\ given' = With(Without(given, p), q, b)
        /\ UNCHANGED <<forgotten, walking, strayed>>
    BY <1>2, <1>6
  <2>2. Chain(list, gballoc.head, allocation) BY DEF GballocInv
  <2>3. i \in DOMAIN list /\ n \in DOMAIN allocation /\ allocation[n].ptr = p
    <3>1. list \in Seq(DOMAIN allocation) BY <2>2 DEF Chain
    <3> HIDE DEF list
    <3> QED BY <3>1, <2>1, FoundIs
  <2> HIDE DEF i, n, list
  <2>4. given[p] = [size |-> allocation[n].size, tracked |-> TRUE] BY <2>3 DEF GballocInv, Records
  <2>5. p \in TrackedOf(given) /\ given[p].size = allocation[n].size /\ allocation[n].size \in Nat
    BY <2>4, <1>1 DEF TrackedOf, BlockType
  <2>6. allocation \in [DOMAIN allocation -> AllocationType] /\ DOMAIN allocation \subseteq Nodes
    BY DEF GballocInv, GballocTypes
  <2>7. /\ DOMAIN allocation' = DOMAIN allocation
        /\ allocation'[n] = [ptr |-> q, size |-> size, next |-> allocation[n].next]
        /\ \A m \in DOMAIN allocation \ {n} : allocation'[m] = allocation[m]
        /\ allocation' = [m \in DOMAIN allocation |-> allocation'[m]]
    BY <2>1, <2>3, <2>6 DEF AllocationType
  <2>8. Chain(list, gballoc.head, allocation')
    <3>1. \A m \in DOMAIN allocation : allocation'[m].next = allocation[m].next BY <2>7
    <3> QED BY <3>1, <2>2, <2>7, ChainSame
  <2>9. Records(allocation', given')
    <3>1. q \notin DOMAIN given \ {p} OBVIOUS
    <3>2. allocation'[n].ptr = q /\ allocation'[n].size = size BY <2>7
    <3>3. Records(allocation, given) BY DEF GballocInv
    <3> QED BY <3>1, <3>2, <3>3, <2>1, <2>3, <2>7, RecordsMoved
  <2>10. BytesOf(given', TrackedOf(given')) = InUse - allocation[n].size + size
    <3> DEFINE less == Without(given, p)
    <3>1. InUse = BytesOf(less, TrackedOf(less)) + given[p].size /\ Blocks(less) BY <1>1, <2>5, Known, BytesWithout
    <3>2. q \in Pointers \ DOMAIN less BY <1>3 DEF Without
    <3> HIDE DEF less
    <3>3. BytesOf(given', TrackedOf(given')) = BytesOf(less, TrackedOf(less)) + size
      BY <3>1, <3>2, <2>1, BytesWith DEF less
    <3>4. BytesOf(less, TrackedOf(less)) \in Nat BY <3>1, BlocksFinite
    <3> QED BY <3>1, <3>3, <3>4, <2>5
  <2>11. gballoc \in [init: BOOLEAN, head: Nodes \cup {NoNode}, totalSize: Nat, maxSize: Nat]
    BY DEF GballocInv, GballocTypes
  <2>12. /\ gballoc' \in [init: BOOLEAN, head: Nodes \cup {NoNode}, totalSize: Nat, maxSize: Nat]
         /\ gballoc'.head = gballoc.head /\ gballoc'.init
         /\ gballoc'.totalSize = Wrapped(gballoc.totalSize - allocation[n].size + size)
         /\ gballoc'.maxSize >= gballoc'.totalSize
    <3>1. gballoc.totalSize - allocation[n].size + size \in Int BY <2>5, <2>11
    <3> QED BY <3>1, <2>1, <2>11, <1>6, TotalIs
  <2>13. gballoc'.totalSize = Wrapped(BytesOf(given', TrackedOf(given')) - forgotten')
    <3> DEFINE d == size - allocation[n].size
    <3>1. gballoc.totalSize = Wrapped(InUse - forgotten) BY <1>6 DEF GballocInv, TotalsOk
    <3>2. InUse \in Nat /\ forgotten \in Nat /\ forgotten' = forgotten /\ d \in Int
      BY <2>1, <2>5, Known DEF GballocInv, GballocTypes
    <3>3. gballoc.totalSize - allocation[n].size + size = gballoc.totalSize + d BY <2>5, <2>11
    <3>4. InUse - forgotten + d = InUse - allocation[n].size + size - forgotten' BY <2>5, <3>2
    <3> HIDE DEF d
    <3>5. Wrapped(Wrapped(InUse - forgotten) + d) = Wrapped(InUse - forgotten + d) BY <3>2, SizeAdd
    <3>6. gballoc'.totalSize = Wrapped(InUse - forgotten + d) BY <3>1, <3>3, <3>5, <2>12
    <3>7. gballoc'.totalSize = Wrapped(InUse - allocation[n].size + size - forgotten') BY <3>4, <3>6
    <3> QED BY <3>2, <3>7, <2>5, <2>10
  <2>14. GballocTypes'
    <3>1. b \in BlockType BY DEF BlockType
    <3>2. Blocks(given') BY <3>1, <2>1, <1>4
    <3>3. \A m \in DOMAIN allocation : allocation'[m] \in AllocationType
      BY <2>3, <2>6, <2>7, <1>3 DEF AllocationType
    <3>4. allocation' \in [DOMAIN allocation' -> AllocationType] BY <3>3, <2>7
    <3> QED BY <3>2, <3>4, <2>1, <2>6, <2>7, <2>12 DEF GballocTypes, Blocks, GballocInv
  <2>15. \A t \in Callers : walking'[t] = <<>> BY <2>1 DEF Idle
  <2> QED BY <2>1, <2>8, <2>9, <2>12, <2>13, <2>14, <2>15, Kept DEF GballocInv
<1> QED BY <1>5, <1>6

LEMMA gballoc_freeKeeps ==
    ASSUME GballocAssumption, GballocInv, NEW t \in Callers, NEW p \in DOMAIN given, gballoc_free(t, p),
           \A u \in Callers : Idle(u)
    PROVE  GballocInv'
<1>1. CASE ~gballoc.init
  <2>1. given' = Without(given, p) /\ UNCHANGED <<gballoc, allocation, walking, strayed, forgotten>>
    BY <1>1 DEF gballoc_free
  <2>2. TrackedOf(given) = {} BY <1>1, Known DEF GballocInv
  <2>3. DOMAIN allocation = {} BY <2>2, NoneRecorded DEF GballocInv
  <2>4. TrackedOf(given') = {} BY <2>1, <2>2 DEF TrackedOf, Without
  <2>5. Records(allocation', given') BY <2>1, <2>3, <2>4 DEF Records, TrackedOf
  <2>6. given' \in [DOMAIN given' -> BlockType] /\ DOMAIN given' \subseteq Pointers
    BY <2>1, Known DEF Without, Blocks
  <2>7. GballocTypes' BY <2>1, <2>6 DEF GballocTypes, GballocInv
  <2>8. \A u \in Callers : walking'[u] = <<>> \/ \E r \in DOMAIN given' : walking'[u] = <<r, gballoc'.head>>
    BY <2>1 DEF Idle
  <2> QED BY <1>1, <2>1, <2>4, <2>5, <2>7, <2>8, Kept DEF GballocInv
<1>2. CASE gballoc.init
  <2>1. /\ walking' = [walking EXCEPT ![t] = <<p, gballoc.head>>]
        /\ UNCHANGED <<gballoc, allocation, given, strayed, forgotten>>
    BY <1>2 DEF gballoc_free
  <2>2. \A u \in Callers : walking'[u] = <<>> \/ \E r \in DOMAIN given' : walking'[u] = <<r, gballoc'.head>>
    BY <2>1 DEF GballocInv
  <2>3. GballocTypes' BY <2>1 DEF GballocTypes, GballocInv
  <2>4. gballoc.totalSize = Wrapped(BytesOf(given, TrackedOf(given)) - forgotten) BY <1>2, Known DEF GballocInv, TotalsOk
  <2> QED BY <1>2, <2>1, <2>2, <2>3, <2>4, Known, Kept DEF GballocInv, TotalsOk
<1> QED BY <1>1, <1>2

\* what is found is taken off the list
LEMMA TakenOff ==
    ASSUME GballocAssumption, GballocInv, Fits, Fits', NEW t \in Callers, gballoc_free_locked(t), gballoc.init,
           NEW p, walking[t] = <<p, gballoc.head>>,
           Found(NodesFrom(gballoc.head), p) # 0,
           \A u \in Callers : walking'[u] = <<>>
    PROVE  GballocInv'
<1> DEFINE list == NodesFrom(gballoc.head)
           i == Found(list, p)
           n == list[i]
<1>1. walking[t][1] = p /\ walking[t][2] = gballoc.head OBVIOUS
<1>2. /\ given' = Without(given, p)
      /\ allocation' = Without(IF i = 1 THEN allocation
                               ELSE [allocation EXCEPT ![list[i - 1]].next = allocation[n].next], n)
      /\ gballoc' = [gballoc EXCEPT !.head = IF i = 1 THEN allocation[n].next ELSE gballoc.head,
                                    !.totalSize = Wrapped(gballoc.totalSize - allocation[n].size)]
      /\ forgotten' = forgotten
  BY <1>1 DEF gballoc_free_locked
<1>3. strayed' = (strayed \/ \E k \in DOMAIN list : (i = 0 \/ k < i) /\ list[k] \notin DOMAIN allocation)
  BY <1>1 DEF gballoc_free_locked
<1>4. Chain(list, gballoc.head, allocation) /\ i # 0 BY DEF GballocInv
<1>5. i \in DOMAIN list /\ n \in DOMAIN allocation /\ allocation[n].ptr = p
  <2>1. list \in Seq(DOMAIN allocation) BY <1>4 DEF Chain
  <2> HIDE DEF list
  <2> QED BY <2>1, <1>4, FoundIs
<1> HIDE DEF list, i, n
<1>6. list \in Seq(DOMAIN allocation) /\ DOMAIN list = 1 .. Len(list) /\ Len(list) \in Nat BY <1>4 DEF Chain
<1>7. ~strayed'
  <2>1. \A k \in DOMAIN list : list[k] \in DOMAIN allocation BY <1>6
  <2> QED BY <2>1, <1>3 DEF GballocInv
<1>8. allocation \in [DOMAIN allocation -> AllocationType] /\ DOMAIN allocation \subseteq Nodes
  BY DEF GballocInv, GballocTypes
<1>9. allocation[n].size \in Nat /\ allocation[n].next \in Nodes \cup {NoNode} BY <1>5, <1>8 DEF AllocationType
<1>10. i # 1 => list[i - 1] \in DOMAIN allocation
  <2>1. i # 1 => i - 1 \in 1 .. Len(list) BY <1>5, <1>6
  <2> QED BY <2>1, <1>6
<1> DEFINE cut == IF i = 1 THEN allocation ELSE [allocation EXCEPT ![list[i - 1]].next = allocation[n].next]
<1>11. /\ DOMAIN cut = DOMAIN allocation /\ cut \in [DOMAIN allocation -> AllocationType]
       /\ \A m \in DOMAIN allocation :
             /\ cut[m].ptr = allocation[m].ptr /\ cut[m].size = allocation[m].size
             /\ cut[m].next = IF i # 1 /\ m = list[i - 1] THEN allocation[n].next ELSE allocation[m].next
  <2>1. CASE i = 1 BY <2>1, <1>8
  <2>2. CASE i # 1
    <3> DEFINE m1 == list[i - 1]
               a == [ptr |-> allocation[m1].ptr, size |-> allocation[m1].size, next |-> allocation[n].next]
    <3>1. m1 \in DOMAIN allocation BY <2>2, <1>10
    <3>2. allocation[m1] \in AllocationType BY <3>1, <1>8
    <3>3. a \in AllocationType BY <3>2, <1>9 DEF AllocationType
    <3>4. [allocation[m1] EXCEPT !.next = allocation[n].next] = a BY <3>2 DEF AllocationType
    <3>5. cut = [allocation EXCEPT ![m1] = [allocation[m1] EXCEPT !.next = allocation[n].next]] BY <2>2
    <3>6. cut = [allocation EXCEPT ![m1] = a] BY <3>4, <3>5
    <3>7. a.ptr = allocation[m1].ptr /\ a.size = allocation[m1].size /\ a.next = allocation[n].next OBVIOUS
    <3> HIDE DEF cut, a
    <3>8. \A m \in DOMAIN allocation : cut[m] = IF m = m1 THEN a ELSE allocation[m] BY <3>1, <3>6
    <3>9. DOMAIN cut = DOMAIN allocation /\ cut \in [DOMAIN allocation -> AllocationType] BY <3>3, <3>6, <1>8
    <3> QED BY <2>2, <3>7, <3>8, <3>9
  <2> QED BY <2>1, <2>2
<1>12. allocation' = Without(cut, n) BY <1>2
<1> HIDE DEF cut
<1>13. /\ DOMAIN allocation' = DOMAIN allocation \ {n}
       /\ \A m \in DOMAIN allocation' : allocation'[m] = cut[m]
       /\ allocation' \in [DOMAIN allocation' -> AllocationType]
  BY <1>11, <1>12 DEF Without
<1>14. /\ gballoc' \in [init: BOOLEAN, head: Nodes \cup {NoNode}, totalSize: Nat, maxSize: Nat]
       /\ gballoc'.head = (IF i = 1 THEN allocation[n].next ELSE gballoc.head)
       /\ gballoc'.totalSize = Wrapped(gballoc.totalSize - allocation[n].size)
       /\ gballoc'.maxSize = gballoc.maxSize /\ gballoc'.init
  <2> DEFINE s == Wrapped(gballoc.totalSize - allocation[n].size)
             h == IF i = 1 THEN allocation[n].next ELSE gballoc.head
  <2>1. gballoc \in [init: BOOLEAN, head: Nodes \cup {NoNode}, totalSize: Nat, maxSize: Nat]
    BY DEF GballocInv, GballocTypes
  <2>2. gballoc.totalSize - allocation[n].size \in Int BY <2>1, <1>9
  <2>3. s \in Nat BY <2>2, SizeAdd
  <2>4. h \in Nodes \cup {NoNode} BY <2>1, <1>9
  <2>5. gballoc' = [gballoc EXCEPT !.head = h, !.totalSize = s] BY <1>2
  <2> HIDE DEF s, h
  <2>6. gballoc' \in [init: BOOLEAN, head: Nodes \cup {NoNode}, totalSize: Nat, maxSize: Nat] BY <2>1, <2>3, <2>4, <2>5
  <2>7. /\ gballoc'.head = h /\ gballoc'.totalSize = s /\ gballoc'.maxSize = gballoc.maxSize
        /\ gballoc'.init = gballoc.init
    BY <2>1, <2>5
  <2> QED BY <2>6, <2>7 DEF s, h
<1>15. Chain(But(list, i), gballoc'.head, allocation')
  <2>1. \A m \in DOMAIN allocation : allocation[m] \in AllocationType BY <1>8
  <2>2. DOMAIN allocation' = DOMAIN allocation \ {list[i]} BY <1>13 DEF n
  <2>3. \A m \in DOMAIN allocation' :
          allocation'[m].next = IF i # 1 /\ m = list[i - 1] THEN allocation[list[i]].next ELSE allocation[m].next
    BY <1>11, <1>13 DEF n
  <2>4. Chain(But(list, i), IF i = 1 THEN allocation[list[i]].next ELSE gballoc.head, allocation')
    BY <2>1, <2>2, <2>3, <1>4, <1>5, ChainLess
  <2> QED BY <2>4, <1>14 DEF n
<1>16. Records(allocation', given')
  <2>1. Records(allocation, given) BY DEF GballocInv
  <2>2. \A m \in DOMAIN allocation' : allocation'[m].ptr = allocation[m].ptr /\ allocation'[m].size = allocation[m].size
    BY <1>11, <1>13
  <2>3. given' = Without(given, p) /\ DOMAIN allocation' = DOMAIN allocation \ {n} BY <1>2, <1>13
  <2>4. n \in DOMAIN allocation /\ p = allocation[n].ptr BY <1>5
  <2>5. Records(allocation', Without(given, p)) BY <2>1, <2>2, <2>3, <2>4, RecordsLess
  <2> QED BY <2>3, <2>5
<1>17. p \in TrackedOf(given) /\ given[p].size = allocation[n].size
  <2>1. p \in DOMAIN given /\ given[p] = [size |-> allocation[n].size, tracked |-> TRUE]
    BY <1>5 DEF GballocInv, Records
  <2> QED BY <2>1 DEF TrackedOf
<1> DEFINE left == BytesOf(given', TrackedOf(given'))
<1>18. Blocks(given) /\ InUse = BytesOf(given, TrackedOf(given)) /\ InUse \in Nat BY Known
<1>19. InUse = left + allocation[n].size /\ Blocks(given') BY <1>2, <1>17, <1>18, BytesWithout
<1>20. left \in Nat BY <1>19, BlocksFinite
<1>21. gballoc.totalSize = Wrapped(InUse - forgotten) /\ (forgotten = 0 => gballoc.maxSize >= gballoc.totalSize)
  BY DEF GballocInv, TotalsOk
<1>22. forgotten \in Nat BY DEF GballocInv, GballocTypes
<1> HIDE DEF left
<1>23. gballoc'.totalSize = Wrapped(left - forgotten')
  <2> DEFINE d == 0 - allocation[n].size
             u == InUse - forgotten
  <2>1. d \in Int /\ u \in Int BY <1>9, <1>18, <1>22
  <2>2. gballoc.totalSize = Wrapped(u) /\ Wrapped(u) \in Nat BY <2>1, <1>21, SizeAdd
  <2>3. gballoc.totalSize - allocation[n].size = Wrapped(u) + d BY <2>2, <1>9
  <2>4. u + d = left - forgotten' BY <1>2, <1>9, <1>18, <1>19, <1>20, <1>22
  <2> HIDE DEF u, d
  <2>5. Wrapped(Wrapped(u) + d) = Wrapped(u + d) BY <2>1, SizeAdd
  <2> QED BY <2>3, <2>4, <2>5, <1>14
<1>24. ASSUME forgotten' = 0 PROVE gballoc'.maxSize >= gballoc'.totalSize
  <2>1. forgotten = 0 /\ left - forgotten' = left /\ InUse - forgotten = InUse BY <1>2, <1>18, <1>20, <1>24
  <2>2. InUse \in 0 .. SIZE_MAX /\ left \in 0 .. SIZE_MAX
    BY <1>9, <1>18, <1>19, <1>20 DEF Fits, SIZE_MAX, GballocAssumption
  <2>3. Wrapped(InUse) = InUse /\ Wrapped(left) = left BY <2>2, SizeSmall
  <2>4. gballoc.totalSize = InUse /\ gballoc'.totalSize = left BY <2>1, <2>3, <1>21, <1>23
  <2>5. gballoc.maxSize >= InUse /\ gballoc.maxSize \in Nat BY <2>1, <2>4, <1>21 DEF GballocInv, GballocTypes
  <2>6. left <= InUse BY <1>9, <1>19, <1>20
  <2> QED BY <2>4, <2>5, <2>6, <1>14, <1>18, <1>20
<1>25. GballocTypes'
  <2>1. DOMAIN walking' = Callers BY DEF gballoc_free_locked, GballocInv, GballocTypes
  <2> QED BY <2>1, <1>2, <1>8, <1>13, <1>14, <1>19, <1>22 DEF GballocTypes, Blocks
<1> QED BY <1>2, <1>7, <1>14, <1>15, <1>16, <1>23, <1>24, <1>25, Kept DEF left

LEMMA gballoc_free_lockedKeeps ==
    ASSUME GballocAssumption, GballocInv, Fits, Fits', NEW t \in Callers, gballoc_free_locked(t), Callers = {t}
    PROVE  GballocInv'
<1>1. ~Idle(t) /\ walking' = [walking EXCEPT ![t] = <<>>] BY DEF gballoc_free_locked
<1>2. PICK p \in DOMAIN given : walking[t] = <<p, gballoc.head>> BY <1>1 DEF GballocInv, Idle
<1>3. \A u \in Callers : walking'[u] = <<>> BY <1>1 DEF GballocInv, GballocTypes
<1> DEFINE list == NodesFrom(gballoc.head)
<1>4. list \in Seq(DOMAIN allocation) BY DEF GballocInv, Chain
<1>5. CASE Found(list, p) = 0
  <2>1. /\ UNCHANGED <<gballoc, allocation, given, forgotten>>
        /\ strayed' = (strayed \/ \E k \in DOMAIN list : list[k] \notin DOMAIN allocation)
    BY <1>2, <1>5 DEF gballoc_free_locked
  <2>2. \A k \in DOMAIN list : list[k] \in DOMAIN allocation
    <3> HIDE DEF list
    <3> QED BY <1>4
  <2>3. ~strayed' BY <2>1, <2>2 DEF GballocInv
  <2>4. GballocTypes' BY <2>1, <1>1 DEF GballocInv, GballocTypes
  <2>5. gballoc.init => gballoc.totalSize = Wrapped(BytesOf(given, TrackedOf(given)) - forgotten)
    BY Known DEF GballocInv, TotalsOk
  <2> QED BY <1>3, <2>1, <2>3, <2>4, <2>5, Known, Kept DEF GballocInv, TotalsOk
<1>6. CASE Found(list, p) # 0
  <2>1. DOMAIN allocation # {}
    <3> HIDE DEF list
    <3> QED BY <1>4, <1>6, FoundIs
  <2>2. gballoc.init BY <2>1, Known, NoneRecorded DEF GballocInv
  <2> QED BY <1>2, <1>3, <1>6, <2>2, TakenOff
<1> QED BY <1>5, <1>6

LEMMA GballocStep ==
    ASSUME GballocAssumption, OneCaller, Fits, Fits', GballocInv, [GballocNext]_gballocVars
    PROVE  GballocInv'
<1>1. CASE UNCHANGED gballocVars
  <2>1. UNCHANGED <<gballoc, allocation, given, forgotten, walking, strayed>> BY <1>1 DEF gballocVars
  <2>2. GballocTypes' BY <2>1 DEF GballocInv, GballocTypes
  <2>3. gballoc.init => gballoc.totalSize = Wrapped(BytesOf(given, TrackedOf(given)) - forgotten)
    BY Known DEF GballocInv, TotalsOk
  <2> QED BY <2>1, <2>2, <2>3, Known, Kept DEF GballocInv, TotalsOk
<1>2. CASE gballoc_init BY <1>2, gballoc_initKeeps
<1>3. CASE gballoc_resetMetrics BY <1>3, gballoc_resetMetricsKeeps
<1>4. CASE Tracked = {} /\ gballoc_deinit BY <1>4, gballoc_deinitKeeps
<1>5. CASE \E t \in Callers : gballoc_free_locked(t)
  <2>1. PICK t \in Callers : gballoc_free_locked(t) BY <1>5
  <2>2. Callers = {t} BY DEF OneCaller
  <2> QED BY <2>1, <2>2, gballoc_free_lockedKeeps
<1>6. ASSUME NEW t \in Callers, Idle(t),
             \/ \E size \in Sizes : gballoc_malloc(size) \/ gballoc_calloc(2, size)
             \/ \E p \in Owned : gballoc_free(t, p) \/ \E size \in Sizes : gballoc_realloc(p, size)
      PROVE  GballocInv'
  <2>1. \A u \in Callers : Idle(u) BY <1>6 DEF OneCaller
  <2>2. \A size \in Sizes : size \in Nat /\ 2 * size \in Nat BY DEF GballocAssumption
  <2>3. ASSUME NEW size \in Sizes, gballoc_malloc(size) \/ gballoc_calloc(2, size) PROVE GballocInv'
    BY <2>1, <2>2, <2>3, gballoc_mallocKeeps DEF gballoc_calloc
  <2>4. ASSUME NEW p \in Owned, gballoc_free(t, p) \/ \E size \in Sizes : gballoc_realloc(p, size)
        PROVE  GballocInv'
    <3>1. p \in DOMAIN given BY DEF Owned
    <3> QED BY <2>1, <2>2, <2>4, <3>1, gballoc_freeKeeps, gballoc_reallocKeeps
  <2> QED BY <1>6, <2>3, <2>4
<1> QED BY <1>1, <1>2, <1>3, <1>4, <1>5, <1>6 DEF GballocNext

LEMMA GballocImplies == GballocAssumption /\ GballocInv => TrackedExactly
<1> SUFFICES ASSUME GballocAssumption, GballocInv PROVE TrackedExactly OBVIOUS
<1> DEFINE w == NodesFrom(gballoc.head)
           L == Len(w)
<1>1. Chain(w, gballoc.head, allocation) /\ Records(allocation, given) /\ Blocks(given) /\ Tracked = TrackedOf(given)
  BY Known DEF GballocInv
<1> HIDE DEF w
<1>2. w \in Seq(DOMAIN allocation) /\ L \in Nat /\ DOMAIN w = 1 .. L BY <1>1 DEF Chain
<1>3. \A i \in 1 .. L : w[i] \in DOMAIN allocation BY <1>2
<1> HIDE DEF L
<1>4. ToSet(w) = DOMAIN allocation
  <2>1. \A n \in DOMAIN allocation : \E i \in DOMAIN w : n = w[i] BY <1>1 DEF Chain
  <2> QED BY <2>1, <1>2, <1>3 DEF ToSet
<1>5. ASSUME NEW i \in 1 .. L
      PROVE  /\ allocation[w[i]].ptr \in Tracked /\ given[allocation[w[i]].ptr].size = allocation[w[i]].size
  <2>1. /\ allocation[w[i]].ptr \in DOMAIN given
        /\ given[allocation[w[i]].ptr] = [size |-> allocation[w[i]].size, tracked |-> TRUE]
    BY <1>1, <1>3 DEF Records
  <2>2. given[allocation[w[i]].ptr].tracked BY <2>1
  <2> QED BY <2>1, <2>2, <1>1 DEF TrackedOf
<1>6. ASSUME NEW p \in Tracked PROVE \E i \in 1 .. L : allocation[w[i]].ptr = p
  <2>1. p \in DOMAIN given /\ given[p].tracked BY <1>1 DEF TrackedOf
  <2>2. PICK n \in DOMAIN allocation : allocation[n].ptr = p BY <2>1, <1>1 DEF Records
  <2>3. PICK i \in DOMAIN w : n = w[i] BY <1>1 DEF Chain
  <2> QED BY <2>2, <2>3, <1>2
<1>7. {<<allocation[w[i]].ptr, allocation[w[i]].size>> : i \in DOMAIN w} = {<<p, given[p].size>> : p \in Tracked}
  <2>1. ASSUME NEW i \in 1 .. L
        PROVE  \E p \in Tracked : <<allocation[w[i]].ptr, allocation[w[i]].size>> = <<p, given[p].size>>
    BY <1>5
  <2>2. ASSUME NEW p \in Tracked
        PROVE  \E i \in 1 .. L : <<allocation[w[i]].ptr, allocation[w[i]].size>> = <<p, given[p].size>>
    <3>1. PICK i \in 1 .. L : allocation[w[i]].ptr = p BY <1>6
    <3> QED BY <3>1, <1>5
  <2> DEFINE Left == {<<allocation[w[i]].ptr, allocation[w[i]].size>> : i \in 1 .. L}
             Right == {<<p, given[p].size>> : p \in Tracked}
  <2>3. Left \subseteq Right BY <2>1
  <2>4. Right \subseteq Left BY <2>2
  <2> QED BY <2>3, <2>4, <1>2
<1>8. Len(w) = Cardinality(Tracked)
  <2> DEFINE f == [i \in 1 .. L |-> allocation[w[i]].ptr]
  <2>1. f \in [1 .. L -> Tracked] BY <1>5
  <2>2. ASSUME NEW i \in 1 .. L, NEW j \in 1 .. L, f[i] = f[j] PROVE i = j
    <3>1. w[i] = w[j] BY <2>2, <1>1, <1>3 DEF Records
    <3> QED BY <3>1, <1>1, <1>2 DEF Chain
  <2>3. \A p \in Tracked : \E i \in 1 .. L : f[i] = p BY <1>6
  <2> HIDE DEF f
  <2>4. f \in Bijection(1 .. L, Tracked)
    BY <2>1, <2>2, <2>3 DEF Bijection, Injection, Surjection, IsInjective
  <2>5. ExistsBijection(1 .. L, Tracked) BY <2>4 DEF ExistsBijection
  <2>6. IsFiniteSet(1 .. L) /\ Cardinality(1 .. L) = L
    <3>1. L \in Nat BY <1>2
    <3>2. 1 \in Int /\ L \in Int BY <3>1
    <3>3. IsFiniteSet(1 .. L) /\ Cardinality(1 .. L) = IF 1 > L THEN 0 ELSE L - 1 + 1 BY <3>2, FS_Interval
    <3> QED BY <3>1, <3>3
  <2> QED BY <2>5, <2>6, FS_Bijection DEF L
<1>9. gballoc.init => /\ gballoc_getCurrentMemoryUsed = Wrapped(InUse - forgotten)
                      /\ forgotten = 0 => gballoc_getMaximumMemoryUsed >= gballoc_getCurrentMemoryUsed
  BY DEF GballocInv, TotalsOk, gballoc_getCurrentMemoryUsed, gballoc_getMaximumMemoryUsed
<1>10. ~strayed BY DEF GballocInv
<1> QED BY <1>4, <1>7, <1>8, <1>9, <1>10 DEF TrackedExactly, w

\* As long as one thread calls and what it has in use fits the memory there is, the list that
\* gballoc_malloc, gballoc_realloc and gballoc_free link holds each block in use once with its
\* size, and the totals are those of the blocks, whatever was in use when they were reset.
THEOREM ListOfBlocks ==
    ASSUME OneCaller
    PROVE  GballocInit /\ [][GballocNext]_gballocVars /\ []Fits => []TrackedExactly
<1>1. GballocAssumption BY GballocAssumption
<1>2. GballocInit => GballocInv BY <1>1, GballocStart
<1>3. GballocInv /\ Fits /\ Fits' /\ [GballocNext]_gballocVars => GballocInv' BY <1>1, GballocStep
<1>4. GballocInv => TrackedExactly BY <1>1, GballocImplies
<1> QED BY <1>2, <1>3, <1>4, PTL

=============================================================================
