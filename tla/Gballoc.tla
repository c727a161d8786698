------------------------------ MODULE Gballoc ------------------------------
(***************************************************************************)
(* src/gballoc.c: malloc with a list of what is allocated and a count of   *)
(* the bytes in use.  Every call but gballoc_free does all its work under  *)
(* the lock and is one step; gballoc_free reads head before it has it.     *)
(***************************************************************************)
EXTENDS Integers, Sequences, FiniteSets, SequencesExt, FiniteSetsExt

CONSTANTS
    Callers,    \* the threads that allocate
    Pointers,   \* the addresses that malloc may return to them
    Nodes,      \* those at which an ALLOCATION may be put
    Sizes,      \* what is asked for
    SizeValues  \* the number of values of a size_t, a power of two

ASSUME GballocAssumption ==
    /\ IsFiniteSet(Callers) /\ IsFiniteSet(Pointers) /\ IsFiniteSet(Nodes)
    /\ Sizes \subseteq Nat /\ SizeValues \in Nat \ {0} /\ "NULL" \notin Nodes

VARIABLES
    gballoc,     \* state, head, totalSize, maxSize
    allocation,  \* the ALLOCATIONs: ptr, size, next
    given,       \* the blocks that callers own: size, and whether it is tracked
    forgotten,   \* bytes of blocks still in use when the metrics were set to zero
    walking,     \* the thread in gballoc_free, what it frees and the head it saw
    strayed      \* a walk met an ALLOCATION that was freed

gballocVars == <<gballoc, allocation, given, forgotten, walking, strayed>>

NoNode == "NULL"
SIZE_MAX == SizeValues - 1
Wrapped(n) == n % SizeValues

GballocInit ==
    /\ gballoc = [init |-> FALSE, head |-> NoNode, totalSize |-> 0, maxSize |-> 0]
    /\ allocation = [n \in {} |-> 0]
    /\ given = [p \in {} |-> 0]
    /\ forgotten = 0
    /\ walking = [t \in Callers |-> <<>>]
    /\ strayed = FALSE

Idle(t) == walking[t] = <<>>

Tracked == {p \in DOMAIN given : given[p].tracked}
InUse == FoldSet(LAMBDA p, n : n + given[p].size, 0, Tracked)

gballoc_init ==
    /\ ~gballoc.init
    /\ gballoc' = [gballoc EXCEPT !.init = TRUE, !.totalSize = 0, !.maxSize = 0]
    /\ forgotten' = InUse
    /\ UNCHANGED <<allocation, given, walking, strayed>>

\* what is still in use stays on the list
gballoc_deinit ==
    /\ gballoc.init /\ \A t \in Callers : Idle(t)
    /\ gballoc' = [gballoc EXCEPT !.init = FALSE]
    /\ UNCHANGED <<allocation, given, forgotten, walking, strayed>>

Total(g, n) == [g EXCEPT !.totalSize = Wrapped(n), !.maxSize = IF @ < Wrapped(n) THEN Wrapped(n) ELSE @]

With(f, x, y) == [z \in DOMAIN f \cup {x} |-> IF z = x THEN y ELSE f[z]]
Without(f, x) == [z \in DOMAIN f \ {x} |-> f[z]]

\* Without gballoc_init the block is handed out and not recorded.
gballoc_malloc(size) ==
    \E p \in Pointers \ DOMAIN given :
      /\ given' = With(given, p, [size |-> size, tracked |-> gballoc.init])
      /\ \/ ~gballoc.init /\ UNCHANGED <<gballoc, allocation>>
         \/ /\ gballoc.init
            /\ \E n \in Nodes \ DOMAIN allocation :
                 /\ allocation' = With(allocation, n, [ptr |-> p, size |-> size, next |-> gballoc.head])
                 /\ gballoc' = Total([gballoc EXCEPT !.head = n], gballoc.totalSize + size)
      /\ UNCHANGED <<forgotten, walking, strayed>>

gballoc_calloc(nmemb, size) == gballoc_malloc(nmemb * size)

\* the nodes met from n on; an ALLOCATION that was freed ends the walk
NodesFrom(n) ==
    LET at[k \in 1 .. Cardinality(Nodes) + 1] ==
          IF k = 1 THEN n
          ELSE IF at[k - 1] \in DOMAIN allocation THEN allocation[at[k - 1]].next ELSE NoNode
    IN  SubSeq(at, 1, Cardinality({k \in DOMAIN at : at[k] # NoNode}))
Found(w, p) == SelectInSeq(w, LAMBDA n : n \in DOMAIN allocation /\ allocation[n].ptr = p)

\* A block that is not on the list is refused; otherwise its ALLOCATION is changed.
gballoc_realloc(p, size) ==
    \E q \in (Pointers \ DOMAIN given) \cup {p} :
      \/ /\ ~gballoc.init
         /\ given' = With(Without(given, p), q, [given[p] EXCEPT !.size = size])
         /\ UNCHANGED <<gballoc, allocation, forgotten, walking, strayed>>
      \/ LET i == Found(NodesFrom(gballoc.head), p)
             n == NodesFrom(gballoc.head)[i]
         IN  /\ gballoc.init /\ i # 0
             /\ allocation' = [allocation EXCEPT ![n].ptr = q, ![n].size = size]
             /\ gballoc' = Total(gballoc, gballoc.totalSize - allocation[n].size + size)
             /\ given' = With(Without(given, p), q, [size |-> size, tracked |-> TRUE])
             /\ UNCHANGED <<forgotten, walking, strayed>>

\* curr is set to head here, and the lock is taken later
gballoc_free(t, p) ==
    /\ Idle(t)
    /\ IF ~gballoc.init
       THEN given' = Without(given, p) /\ UNCHANGED <<gballoc, allocation, walking, strayed>>
       ELSE /\ walking' = [walking EXCEPT ![t] = <<p, gballoc.head>>]
            /\ UNCHANGED <<gballoc, allocation, given, strayed>>
    /\ UNCHANGED forgotten

\* slip: the size is not taken off the total
gballoc_free_locked_total_kept(t) ==
    LET p == walking[t][1]
        w == NodesFrom(walking[t][2])
        i == Found(w, p)
        n == w[i]
    IN  /\ ~Idle(t) /\ i # 0
        /\ walking' = [walking EXCEPT ![t] = <<>>]
        /\ given' = Without(given, p)
        /\ allocation' = Without(IF i = 1 THEN allocation
                                 ELSE [allocation EXCEPT ![w[i - 1]].next = allocation[n].next], n)
        /\ gballoc' = [gballoc EXCEPT !.head = IF i = 1 THEN allocation[n].next ELSE @]
        /\ UNCHANGED <<forgotten, strayed>>

\* Under the lock the list is walked from what curr was; with no node before it, the one
\* found is taken for the first of the list.
gballoc_free_locked(t) ==
    LET p == walking[t][1]
        w == NodesFrom(walking[t][2])
        i == Found(w, p)
        n == w[i]
    IN  /\ ~Idle(t)
        /\ walking' = [walking EXCEPT ![t] = <<>>]
        /\ strayed' = (strayed \/ \E k \in DOMAIN w : (i = 0 \/ k < i) /\ w[k] \notin DOMAIN allocation)
        /\ IF i = 0
           THEN UNCHANGED <<gballoc, allocation, given>>
           ELSE /\ given' = Without(given, p)
                /\ allocation' = Without(IF i = 1 THEN allocation
                                         ELSE [allocation EXCEPT ![w[i - 1]].next = allocation[n].next], n)
                /\ gballoc' = [gballoc EXCEPT !.head = IF i = 1 THEN allocation[n].next ELSE @,
                                              !.totalSize = Wrapped(@ - allocation[n].size)]
        /\ UNCHANGED forgotten

gballoc_resetMetrics ==
    /\ gballoc.init
    /\ gballoc' = [gballoc EXCEPT !.totalSize = 0, !.maxSize = 0]
    /\ forgotten' = InUse
    /\ UNCHANGED <<allocation, given, walking, strayed>>

gballoc_getMaximumMemoryUsed == IF gballoc.init THEN gballoc.maxSize ELSE SIZE_MAX
gballoc_getCurrentMemoryUsed == IF gballoc.init THEN gballoc.totalSize ELSE SIZE_MAX

\* what a thread is freeing nobody else uses
Owned == DOMAIN given \ {walking[t][1] : t \in {u \in Callers : ~Idle(u)}}

GballocNext ==
    \/ gballoc_init \/ gballoc_resetMetrics
    \/ Tracked = {} /\ gballoc_deinit      \* nothing is left, as its tests leave it
    \/ \E t \in Callers : gballoc_free_locked(t)
    \/ \E t \in Callers :
         /\ Idle(t)
         /\ \/ \E size \in Sizes : gballoc_malloc(size) \/ gballoc_calloc(2, size)
            \/ \E p \in Owned : gballoc_free(t, p) \/ \E size \in Sizes : gballoc_realloc(p, size)

-----------------------------------------------------------------------------
(* Properties.                                                              *)

\* The list holds each tracked block once, with its size; no walk leaves it; and the bytes
\* counted are those of the blocks in use, but for what was in use at the last reset.
TrackedExactly ==
    LET w == NodesFrom(gballoc.head)
    IN  /\ ~strayed
        /\ ToSet(w) = DOMAIN allocation
        /\ {<<allocation[w[i]].ptr, allocation[w[i]].size>> : i \in DOMAIN w}
             = {<<p, given[p].size>> : p \in Tracked}
        /\ Len(w) = Cardinality(Tracked)
        /\ gballoc.init => /\ gballoc_getCurrentMemoryUsed = Wrapped(InUse - forgotten)
                           /\ forgotten = 0 => gballoc_getMaximumMemoryUsed >= gballoc_getCurrentMemoryUsed

=============================================================================
