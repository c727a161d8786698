------------------------------ MODULE Library ------------------------------
(***************************************************************************)
(* The library's own objects, each used by itself, and its conversions: a  *)
(* behaviour is about one of them, and leaves the others as they were      *)
(* initialised.                                                            *)
(***************************************************************************)
EXTENDS Containers, Buffers, Threads, Gballoc, Options, CrlCache, Credentials, PlatformSockets, PlatformHttp,
        Conversions

CONSTANT Objects    \* what behaviours may be about

VARIABLE focus      \* what this one is about

libraryVars == <<focus, listVars, dlistVars, vectorVars, mapVars, bufferVars, stringVars,
                 sharedVars, gballocVars, syncVars, optionVars, crlVars, credentialVars, socketVars, platformHttpVars, conversionVars>>

Init ==
    /\ focus \in Objects
    /\ singlylinkedlist_create /\ DList_InitializeListHead
    /\ VectorsInit /\ MapInit /\ BuffersInit /\ StringsInit
    /\ SharedInit /\ GballocInit /\ CrlInit /\ CredentialsInit
    /\ SocketsInit /\ (focus # "sockets" => platform = (CHOOSE p \in Platforms : TRUE) /\ socketio.socket = 0)
    /\ PlatformHttpInit /\ (focus # "http" => httpLibrary = CHOOSE l \in HttpLibraries : TRUE)
    /\ focus # "map" => ~map.filter
    /\ OptionsInit /\ (focus # "options" => memory.failAt = 0 /\ program = CHOOSE p \in Programs : TRUE)
    /\ SyncInit /\ (focus # "sync" => <<condition.impl, condition.timed>> = CHOOSE c \in Conditions : TRUE)
    /\ ConversionsInit /\ (focus # "conversion" => input = <<>> /\ kind = CHOOSE c \in Kinds \ {"sas", "uuid"} : TRUE)

\* one disjunct for each object
Step ==
    \/ /\ focus = "list" /\ ListNext
       /\ UNCHANGED <<dlistVars, vectorVars, mapVars, bufferVars, stringVars, sharedVars, gballocVars, syncVars, optionVars, crlVars, credentialVars, socketVars, platformHttpVars, conversionVars>>
    \/ /\ focus = "dlist" /\ DListNext
       /\ UNCHANGED <<listVars, vectorVars, mapVars, bufferVars, stringVars, sharedVars, gballocVars, syncVars, optionVars, crlVars, credentialVars, socketVars, platformHttpVars, conversionVars>>
    \/ /\ focus = "vector" /\ VectorNext
       /\ UNCHANGED <<listVars, dlistVars, mapVars, bufferVars, stringVars, sharedVars, gballocVars, syncVars, optionVars, crlVars, credentialVars, socketVars, platformHttpVars, conversionVars>>
    \/ /\ focus = "map" /\ MapNext
       /\ UNCHANGED <<listVars, dlistVars, vectorVars, bufferVars, stringVars, sharedVars, gballocVars, syncVars, optionVars, crlVars, credentialVars, socketVars, platformHttpVars, conversionVars>>
    \/ /\ focus = "headers" /\ HeadersNext
       /\ UNCHANGED <<listVars, dlistVars, vectorVars, bufferVars, stringVars, sharedVars, gballocVars, syncVars, optionVars, crlVars, credentialVars, socketVars, platformHttpVars, conversionVars>>
    \/ /\ focus = "buffer" /\ BufferNext
       /\ UNCHANGED <<listVars, dlistVars, vectorVars, mapVars, stringVars, sharedVars, gballocVars, syncVars, optionVars, crlVars, credentialVars, socketVars, platformHttpVars, conversionVars>>
    \/ /\ focus = "string" /\ StringNext
       /\ UNCHANGED <<listVars, dlistVars, vectorVars, mapVars, bufferVars, sharedVars, gballocVars, syncVars, optionVars, crlVars, credentialVars, socketVars, platformHttpVars, conversionVars>>
    \/ /\ focus = "shared" /\ SharedNext
       /\ UNCHANGED <<listVars, dlistVars, vectorVars, mapVars, bufferVars, stringVars, gballocVars, syncVars, optionVars, crlVars, credentialVars, socketVars, platformHttpVars, conversionVars>>
    \/ /\ focus = "gballoc" /\ GballocNext
       /\ UNCHANGED <<listVars, dlistVars, vectorVars, mapVars, bufferVars, stringVars, sharedVars, syncVars, optionVars, crlVars, credentialVars, socketVars, platformHttpVars, conversionVars>>
    \/ /\ focus = "sync" /\ SyncNext
       /\ UNCHANGED <<listVars, dlistVars, vectorVars, mapVars, bufferVars, stringVars, sharedVars, gballocVars, optionVars, crlVars, credentialVars, socketVars, platformHttpVars, conversionVars>>
    \/ /\ focus = "options" /\ OptionsNext
       /\ UNCHANGED <<listVars, dlistVars, vectorVars, mapVars, bufferVars, stringVars, sharedVars, gballocVars, syncVars, crlVars, credentialVars, socketVars, platformHttpVars, conversionVars>>
    \/ /\ focus = "crl" /\ CrlNext
       /\ UNCHANGED <<listVars, dlistVars, vectorVars, mapVars, bufferVars, stringVars, sharedVars, gballocVars, syncVars, optionVars, credentialVars, socketVars, platformHttpVars, conversionVars>>
    \/ /\ focus = "credentials" /\ CredentialsNext
       /\ UNCHANGED <<listVars, dlistVars, vectorVars, mapVars, bufferVars, stringVars, sharedVars, gballocVars, syncVars, optionVars, crlVars, socketVars, platformHttpVars, conversionVars>>
    \/ /\ focus = "sockets" /\ SocketsNext
       /\ UNCHANGED <<listVars, dlistVars, vectorVars, mapVars, bufferVars, stringVars, sharedVars, gballocVars, syncVars, optionVars, crlVars, credentialVars, platformHttpVars, conversionVars>>
    \/ /\ focus = "http" /\ PlatformHttpNext
       /\ UNCHANGED <<listVars, dlistVars, vectorVars, mapVars, bufferVars, stringVars, sharedVars, gballocVars, syncVars, optionVars, crlVars, credentialVars, socketVars, conversionVars>>
    \/ /\ focus = "conversion" /\ ConversionNext
       /\ UNCHANGED <<listVars, dlistVars, vectorVars, mapVars, bufferVars, stringVars, sharedVars, gballocVars, syncVars, optionVars, crlVars, credentialVars, socketVars, platformHttpVars>>

Next == Step /\ UNCHANGED focus

\* Threads are run, and get the lock they wait for; nothing is assumed of the callers
\* of the other objects.
ThreadsRun ==
    \A t \in Workers :
      /\ WF_syncVars(focus = "sync" /\ Runs(t) /\ UNCHANGED focus)
      /\ SF_syncVars(focus = "sync" /\ Acquires(t) /\ UNCHANGED focus)

Spec == Init /\ [][Next]_libraryVars /\ ThreadsRun

\* singlylinkedlist.c, doublylinkedlist.c, vector.c, map.c and httpheaders.c hold, find and
\* list what their callers were told they hold, in order, through any sequence of calls in
\* which allocations fail; nothing is shared between two of them and nothing is lost.  What
\* is shared on purpose, in constbuffer.c and constmap.c, is whole while a thread holds it.
ContainersAsTold ==
    focus \in {"list", "dlist", "vector", "map", "headers", "shared"} =>
      ListIsSequence /\ ListsAreRings /\ VectorsAsTold /\ MapAsTold /\ SharedWhileHeld

\* Every thread of the program that waits for items ends and is joined.
NobodyForgotten == focus = "sync" => AllJoined

=============================================================================
