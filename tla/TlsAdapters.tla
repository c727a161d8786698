---------------------------- MODULE TlsAdapters ----------------------------
(***************************************************************************)
(* A client of a TLS layer, for each of the adapters that the platforms    *)
(* choose from.                                                            *)
(***************************************************************************)
EXTENDS MbedTlsIo, WolfSslIo, SchannelIo, AppleTlsIo, IoClient

CONSTANTS
    Chosen,      \* the adapters of this instance
    Reusable,    \* those of which an instance is opened again after a session
    SafeFrom     \* the callbacks from which a client of the adapter makes calls

ASSUME AdaptersAssumption ==
    /\ Chosen \subseteq Adapters /\ Reusable \subseteq Chosen
    /\ SafeFrom \in [Adapters -> SUBSET (XioCallbacks \cup SendCallbacks)]

vars == <<stack, sockVars, tlsAllVars, adapter, clientVars>>

Init ==
    /\ stack = <<>>
    /\ SockInit /\ SharedInit /\ ClientInit
    /\ \/ adapter = "openssl" /\ TlsInit
       \/ adapter = "mbedtls" /\ tlsio_mbedtls_create
       \/ adapter = "wolfssl" /\ tlsio_wolfssl_create
       \/ adapter = "schannel" /\ tlsio_schannel_create
       \/ adapter = "appleios" /\ tlsio_appleios_create
    /\ adapter \in Chosen

\* only the Schannel adapter sees that the peer asks for a renegotiation
Renegotiates(s) ==
    \E i, j \in DOMAIN s : i < j /\ s[i].op # "handshake" /\ s[j].op = "handshake"

AdapterStep ==
    \/ adapter = "openssl" /\ TlsNext /\ UNCHANGED <<sharedVars, sockVars>>
    \/ adapter = "mbedtls" /\ MbedNext /\ UNCHANGED sockVars
    \/ adapter = "wolfssl" /\ WolfNext /\ UNCHANGED sockVars
    \/ adapter = "schannel" /\ SchannelNext /\ UNCHANGED sockVars
    \/ adapter = "appleios" /\ AppleNext

Step ==
    /\ \/ SockNext /\ UNCHANGED <<tlsAllVars, clientVars>>
       \/ AdapterStep /\ UNCHANGED clientVars
       \/ ClientSteps /\ UNCHANGED <<sockVars, tlsAllVars>>
       \/ ReturnStep /\ UNCHANGED <<sockVars, tlsAllVars, clientVars>>
    /\ adapter # "schannel" /\ script' # script => ~Renegotiates(script')
    /\ UNCHANGED adapter

Calls ==
    /\ ClientCalls
    /\ stack # <<>> => Top.arg \in SafeFrom[adapter]
    /\ opens' = 2 => adapter \in Reusable
    /\ UNCHANGED <<sockVars, tlsAllVars, adapter>>

Next ==
    \/ Calls
    \/ Step
    \/ ~alive /\ stack = <<>> /\ UNCHANGED vars

\* The thread keeps running until its call returns, and a peer that is waited for
\* answers in the end, or its silence is reported as an error.
Spec == Init /\ [][Next]_vars /\ WF_vars(Step)
        /\ SF_vars(socketio_dowork_receive /\ Step)
        /\ SF_vars(socketio_dowork_receive_error /\ Step)

-----------------------------------------------------------------------------
(* Properties.                                                              *)

Sent == SelectSeq(script, LAMBDA u : u.op # "handshake")

\* A client that believes the connection open has a connection whose handshake was
\* finished with this very peer, and what it was handed is what the peer sent, from the
\* start and in order, whichever adapter it is and however the bytes were cut.
SecureAndInOrder ==
    /\ stack = <<>> /\ alive /\ phase = "open" /\ adapter # "openssl" => secure
    /\ Len(delivered) <= Len(Sent)
    /\ \A i \in DOMAIN delivered : delivered[i] = Sent[i]

\* A send is completed at most once, and a close that was accepted is answered once; no
\* adapter uses what it has released.
AnsweredOnce ==
    /\ alive => \A i \in 1 .. MaxSends : completions[i] <= 1
    /\ stack = <<>> /\ alive => \A i \in asked : closeReports[i] = 1
    /\ \A i \in 1 .. MaxCloses : closeReports[i] <= 1
    /\ tls_faults = {}

\* Every call returns, also one that waits for the peer inside the handshake.
AdapterCallsReturn == []<>(stack = <<>> \/ adapter = "mbedtls")

\* An open is reported as a success only to a client that has not been told that it is
\* closed, and bytes come only to one that was told that it is open.
OrderlyStep ==
    /\ phase' = "open" => phase # "closed"
    /\ pieces' > pieces => phase \in {"open", "failed"}

\* What an adapter tells its client stays in order when socket errors, failing sends and
\* calls from callbacks cut into the handshake, with every adapter but that for mbed TLS.
ToldInOrder == [][adapter # "mbedtls" => OrderlyStep]_vars

=============================================================================
