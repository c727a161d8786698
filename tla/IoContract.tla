----------------------------- MODULE IoContract -----------------------------
(***************************************************************************)
(* What an IO layer promises to whoever opens it, as its user sees it      *)
(* (inc/azure_c_shared_utility/xio.h): the order in which the callbacks    *)
(* that were passed to xio_open and xio_close may come.  An open is        *)
(* answered once; bytes come only between a successful answer and the      *)
(* error or the close that ends the session.                               *)
(***************************************************************************)
EXTENDS Naturals

VARIABLES
    phase,      \* where the session stands, by what the user was told
    pieces      \* how many pieces of data it was handed in this session

Phases == {"closed", "opening", "open", "failed"}

Init == phase = "closed" /\ pieces = 0

Open == phase = "closed" /\ phase' = "opening" /\ pieces' = 0
Opened == phase = "opening" /\ phase' = "open" /\ pieces' = pieces
OpenFailed == phase = "opening" /\ phase' = "closed" /\ pieces' = pieces
Received == phase = "open" /\ pieces' = pieces + 1 /\ phase' = phase
Failed == phase = "open" /\ phase' = "failed" /\ pieces' = pieces
Closed == phase \in {"open", "failed"} /\ phase' = "closed" /\ pieces' = pieces

Next == Open \/ Opened \/ OpenFailed \/ Received \/ Failed \/ Closed

Spec == Init /\ [][Next]_<<phase, pieces>>

=============================================================================
