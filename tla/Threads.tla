------------------------------ MODULE Threads ------------------------------
(***************************************************************************)
(* What threads share.                                                     *)
(*                                                                         *)
(* src/constbuffer.c and src/constmap.c: an object that several threads    *)
(* share by the count of inc/.../refcount.h.  What is taken from it is the *)
(* version of the source at the time it was made.                          *)
(*                                                                         *)
(* lock, condition and threadapi of adapters/ over pthreads and Win32.  A  *)
(* program starts threads with ThreadAPI_Create and joins them; one kind   *)
(* puts items where the other kind waits for them, in the usual way:       *)
(*     Lock; while (items == 0) Condition_Wait; items--; Unlock            *)
(***************************************************************************)
EXTENDS Naturals, FiniteSets

CONSTANTS
    Sharers,    \* the threads
    MaxHeld,    \* bound on the references that all threads hold together
    MaxVersion  \* bound on the changes made to the source

ASSUME SharedAssumption == IsFiniteSet(Sharers) /\ MaxHeld \in Nat /\ MaxVersion \in Nat

VARIABLES
    source,     \* the version of the BUFFER or MAP that is copied
    shared,     \* the counted object: what is still allocated of it, content and count
    held,       \* how many references each thread owns
    freeing,    \* what a thread is about to free, in order
    copied      \* the version that the first owner asked for

sharedVars == <<source, shared, held, freeing, copied>>

SharedInit ==
    /\ source = 0
    /\ shared = [alive |-> {}, content |-> 0, count |-> 0]
    /\ held = [t \in Sharers |-> 0]
    /\ freeing = [t \in Sharers |-> {}]
    /\ copied = 0

References == UNION {{t} \X (1 .. held[t]) : t \in Sharers}
AllHeld == Cardinality(References)

\* The source belongs to somebody else, who goes on changing it.
Change == source < MaxVersion /\ source' = source + 1 /\ UNCHANGED <<shared, held, freeing, copied>>

\* CONSTBUFFER_Create and ConstMap_Create: all of the source is copied
Create(t) ==
    /\ shared.alive = {}
    /\ shared' = [alive |-> {"content", "object"}, content |-> source, count |-> 1]
    /\ held' = [held EXCEPT ![t] = 1]
    /\ copied' = source
    /\ UNCHANGED <<source, freeing>>

\* CONSTBUFFER_Clone and ConstMap_Clone by t, for u
Clone(t, u) ==
    /\ held[t] > 0 /\ AllHeld < MaxHeld
    /\ shared' = [shared EXCEPT !.count = @ + 1]
    /\ held' = [held EXCEPT ![u] = @ + 1]
    /\ UNCHANGED <<source, freeing, copied>>

\* DEC_REF is one step, and tells its caller whether the count has become zero
Destroy(t) ==
    /\ held[t] > 0
    /\ held' = [held EXCEPT ![t] = @ - 1]
    /\ shared' = [shared EXCEPT !.count = @ - 1]
    /\ freeing' = [freeing EXCEPT ![t] = IF shared.count = 1 THEN {"content", "object"} ELSE @]
    /\ UNCHANGED <<source, copied>>

\* what is in the object is freed first, the object with its count last
FreePart(t) ==
    LET part == IF "content" \in freeing[t] THEN "content" ELSE "object"
    IN  /\ freeing[t] # {}
        /\ shared' = [shared EXCEPT !.alive = @ \ {part}]
        /\ freeing' = [freeing EXCEPT ![t] = @ \ {part}]
        /\ UNCHANGED <<source, held, copied>>

\* CONSTBUFFER_GetContent, ConstMap_GetInternals, ConstMap_CloneWriteable
GetContent == IF shared.alive = {"content", "object"} THEN shared.content ELSE MaxVersion + 1

SharedNext ==
    \/ Change
    \/ \E t \in Sharers : Create(t) \/ Destroy(t) \/ FreePart(t)
    \/ \E t, u \in Sharers : Clone(t, u)

-----------------------------------------------------------------------------
(* Properties.                                                              *)

\* As long as anybody owns a reference it leads to the contents copied at the start,
\* whoever made or gave up others meanwhile; the last one to go, and nobody else, frees
\* the object, so that in the end nothing is left of it.
SharedWhileHeld ==
    /\ AllHeld > 0 => GetContent = copied
    /\ Cardinality({t \in Sharers : freeing[t] # {}}) <= 1
    /\ AllHeld = 0 /\ (\A t \in Sharers : freeing[t] = {}) => shared.alive = {}

-----------------------------------------------------------------------------
(* Lock, condition and threads.                                             *)

CONSTANTS
    Takers, Givers,  \* the threads of the two kinds
    Conditions       \* <<implementation, whether waits have a timeout>>

ASSUME SyncAssumption ==
    /\ IsFiniteSet(Takers) /\ IsFiniteSet(Givers)
    /\ Conditions \subseteq {"pthreads", "win32"} \X BOOLEAN

Workers == Takers \cup Givers

VARIABLES
    condition,   \* the implementation in use, its waiters, and Win32's count and event
    owner,       \* who holds the lock
    items,       \* what the condition is about
    place,       \* where each thread is
    instance     \* THREAD_INSTANCE of each thread, and the result that Join returned

syncVars == <<condition, owner, items, place, instance>>

Nobody == "nobody"

SyncInit ==
    /\ \E c \in Conditions :
         condition = [impl |-> c[1], timed |-> c[2], waiting |-> {}, count |-> 0, event |-> FALSE]
    /\ owner = Nobody
    /\ items = 0
    /\ place = [t \in Workers |-> "new"]
    /\ instance = [t \in Workers |-> "none"]

Goes(t, p) == place' = [place EXCEPT ![t] = p]

-----------------------------------------------------------------------------
(* lock_pthreads.c, lock_win32.c                                            *)

Lock(t) == owner = Nobody /\ owner' = t
Unlock(t) == owner = t /\ owner' = Nobody

-----------------------------------------------------------------------------
(* threadapi_pthreads.c                                                     *)

\* slip: pthread_create fails and THREADAPI_OK is returned
ThreadAPI_Create_unreported(t) ==
    /\ place[t] = "new"
    /\ instance' = [instance EXCEPT ![t] = "allocated"]
    /\ \E p \in {"wrapper", "lost"} : Goes(t, p)
    /\ UNCHANGED <<condition, owner, items>>

\* The instance is given to the new thread, and is the handle; when there is no memory or no
\* thread it is freed again, nothing has changed and the caller tries once more.
ThreadAPI_Create(t) ==
    /\ place[t] = "new"
    /\ instance' = [instance EXCEPT ![t] = "allocated"]
    /\ Goes(t, "wrapper")
    /\ UNCHANGED <<condition, owner, items>>

\* it finds there the function it is to call
ThreadWrapper(t) ==
    /\ place[t] = "wrapper"
    /\ Goes(t, IF instance[t] = "allocated" THEN "lock" ELSE "lost")
    /\ UNCHANGED <<condition, owner, items, instance>>

\* the result of the thread, once it has ended; the instance is freed
ThreadAPI_Join(t) ==
    /\ instance[t] = "allocated" /\ place[t] = "ended"
    /\ instance' = [instance EXCEPT ![t] = "result"]
    /\ UNCHANGED <<condition, owner, items, place>>

-----------------------------------------------------------------------------
(* condition_pthreads.c                                                     *)

\* One of the waiters is taken out, if there is one.
pthread_Condition_Post ==
    IF condition.waiting = {} THEN UNCHANGED condition
    ELSE \E t \in condition.waiting : condition' = [condition EXCEPT !.waiting = @ \ {t}]

\* the lock is given up and the thread becomes a waiter, in one step
pthread_Condition_Wait(t) ==
    /\ Unlock(t)
    /\ condition' = [condition EXCEPT !.waiting = @ \cup {t}]
    /\ Goes(t, "waiting")
    /\ UNCHANGED <<items, instance>>

\* COND_TIMEOUT, or woken for no reason
pthread_timed_out(t) ==
    /\ place[t] = "waiting" /\ t \in condition.waiting /\ condition.timed
    /\ condition' = [condition EXCEPT !.waiting = @ \ {t}]
    /\ UNCHANGED <<owner, items, place, instance>>

pthread_woken(t) ==
    /\ place[t] = "waiting" /\ t \notin condition.waiting
    /\ Lock(t)
    /\ Goes(t, "locked")
    /\ UNCHANGED <<condition, items, instance>>

-----------------------------------------------------------------------------
(* condition_win32.c                                                        *)

\* The event is set when somebody is counted as waiting.
win32_Condition_Post ==
    condition' = [condition EXCEPT !.event = IF condition.count = 0 THEN @ ELSE TRUE]

\* the lock is given up first
win32_Condition_Wait(t) ==
    /\ Unlock(t)
    /\ Goes(t, "unlocked")
    /\ UNCHANGED <<condition, items, instance>>

win32_counted(t) ==
    /\ place[t] = "unlocked"
    /\ condition' = [condition EXCEPT !.count = @ + 1]
    /\ Goes(t, "WaitForSingleObject")
    /\ UNCHANGED <<owner, items, instance>>

\* the event resets itself when it lets a thread go
win32_woken(t) ==
    /\ place[t] = "WaitForSingleObject"
    /\ \/ condition.event /\ condition' = [condition EXCEPT !.event = FALSE]
       \/ condition.timed /\ UNCHANGED condition
    /\ Goes(t, "relock")
    /\ UNCHANGED <<owner, items, instance>>

\* The last one to leave resets the event, with the lock in hand.
win32_relocked(t) ==
    /\ place[t] = "relock"
    /\ Lock(t)
    /\ condition' = [condition EXCEPT !.count = @ - 1, !.event = IF condition.count = 1 THEN FALSE ELSE @]
    /\ Goes(t, "locked")
    /\ UNCHANGED <<items, instance>>

-----------------------------------------------------------------------------
(* the threads                                                              *)

Condition_Post == IF condition.impl = "win32" THEN win32_Condition_Post ELSE pthread_Condition_Post
Condition_Wait(t) == IF condition.impl = "win32" THEN win32_Condition_Wait(t) ELSE pthread_Condition_Wait(t)

Locks(t) == place[t] = "lock" /\ Lock(t) /\ Goes(t, "locked") /\ UNCHANGED <<condition, items, instance>>

Takes(t) ==
    /\ t \in Takers /\ place[t] = "locked" /\ items > 0
    /\ items' = items - 1
    /\ Goes(t, "unlock")
    /\ UNCHANGED <<condition, owner, instance>>
Waits(t) == t \in Takers /\ place[t] = "locked" /\ items = 0 /\ Condition_Wait(t)

Gives(t) ==
    /\ t \in Givers /\ place[t] = "locked"
    /\ items' = items + 1
    /\ Goes(t, "post")
    /\ UNCHANGED <<condition, owner, instance>>
Posts(t) ==
    /\ place[t] = "post"
    /\ Condition_Post
    /\ Goes(t, "unlock")
    /\ UNCHANGED <<owner, items, instance>>

Ends(t) == place[t] = "unlock" /\ Unlock(t) /\ Goes(t, "ended") /\ UNCHANGED <<condition, items, instance>>

Runs(t) ==
    \/ ThreadAPI_Create(t) \/ ThreadWrapper(t) \/ ThreadAPI_Join(t)
    \/ Takes(t) \/ Waits(t) \/ Gives(t) \/ Posts(t) \/ Ends(t)
    \/ pthread_timed_out(t) \/ win32_counted(t) \/ win32_woken(t)

\* the steps that wait for the lock
Acquires(t) == Locks(t) \/ pthread_woken(t) \/ win32_relocked(t)

SyncNext == \E t \in Workers : Runs(t) \/ Acquires(t)

-----------------------------------------------------------------------------
(* Properties.                                                              *)

\* Nobody who waits for an item is forgotten: with one given for each taker every thread
\* ends, and every join returns.  The scheduler runs each thread, and the lock is fair.
AllJoined == <>(\A t \in Workers : instance[t] = "result")

=============================================================================
