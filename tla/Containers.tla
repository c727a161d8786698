----------------------------- MODULE Containers -----------------------------
(***************************************************************************)
(* src/singlylinkedlist.c and src/doublylinkedlist.c, as the memory they   *)
(* link together; src/vector.c, src/map.c and src/httpheaders.c: arrays    *)
(* grown and shrunk by allocations that may fail.  Beside each container   *)
(* stands what its caller believes it holds.                               *)
(***************************************************************************)
EXTENDS Integers, Sequences, FiniteSets, SequencesExt

CONSTANTS
    Addr,          \* the addresses at which malloc may put a list item
    Heads,         \* the list heads of the doubly linked lists
    Entries,       \* the entries that may be put on them
    Vectors,       \* handles of vectors
    Blocks,        \* the addresses at which an allocation may be put
    ElementSize,   \* size of a vector's element, in bytes
    Elements,      \* values of a vector's elements
    MaxElements,   \* bound on the elements of a vector
    Keys, Values,  \* what the map is given
    RejectedKeys,  \* the keys that the map's filter refuses
    Spaces,        \* the values of header fields that are white space
    MaxValue,      \* bound on the pieces of a header's value
    MaxFaults      \* bound on the allocations that fail in one call

NULL == 0

ASSUME ListsAssumption ==
    /\ IsFiniteSet(Addr) /\ Addr \subseteq Nat \ {NULL}
    /\ IsFiniteSet(Heads) /\ IsFiniteSet(Entries) /\ Heads \cap Entries = {}

ASSUME ContainersAssumption ==
    /\ ElementSize \in Nat \ {0} /\ MaxElements \in Nat /\ MaxValue \in Nat /\ MaxFaults \in Nat
    /\ RejectedKeys \subseteq Keys

VARIABLES
    list,       \* LIST_INSTANCE and the items: head, tail, next, and what is allocated
    handles,    \* what the caller believes to be on the list, in order
    links,      \* the fields Flink and Blink of the heads and the entries
    entries,    \* what is believed to be on each doubly linked list
    heap,       \* the contents of the allocated blocks
    vector,     \* count and storage of each VECTOR that was created
    elements,   \* what its caller believes to be in it
    map,        \* MAP_HANDLE_DATA: the arrays as allocated, count and filter
    pairs       \* what the caller believes to be in the map

listVars == <<list, handles>>
dlistVars == <<links, entries>>
vectorVars == <<heap, vector, elements>>
mapVars == <<map, pairs>>

NoVector == [storage |-> "none", count |-> 0]
NoBlock == "NULL"
NoString == <<"NULL">>     \* values are sequences

-----------------------------------------------------------------------------
(* singlylinkedlist.c                                                       *)

singlylinkedlist_create ==
    /\ list = [head |-> NULL, tail |-> NULL, next |-> [a \in Addr |-> NULL], live |-> {}]
    /\ handles = <<>>

\* what a walk from head meets, in order
Walk(l) ==
    LET at[k \in 1 .. Cardinality(Addr) + 1] ==
          IF k = 1 THEN l.head ELSE IF at[k - 1] = NULL THEN NULL ELSE l.next[at[k - 1]]
    IN  SelectSeq([k \in 1 .. Cardinality(Addr) + 1 |-> at[k]], LAMBDA a : a # NULL)

\* item a, whose predecessor is previous, is taken out and freed
Unlink(l, previous, a) ==
    [head |-> IF previous = NULL THEN l.next[a] ELSE l.head,
     tail |-> IF a = l.tail THEN previous ELSE l.tail,
     next |-> IF previous = NULL THEN l.next ELSE [l.next EXCEPT ![previous] = l.next[a]],
     live |-> l.live \ {a}]

\* a new item at the tail; or malloc fails
singlylinkedlist_add ==
    \/ UNCHANGED listVars
    \/ \E a \in Addr \ list.live :
         /\ list' = [head |-> IF list.head = NULL THEN a ELSE list.head,
                     tail |-> a,
                     next |-> IF list.head = NULL THEN [list.next EXCEPT ![a] = NULL]
                              ELSE [list.next EXCEPT ![a] = NULL, ![list.tail] = a],
                     live |-> list.live \cup {a}]
         /\ handles' = Append(handles, a)

\* A handle that is not on the list is refused; it is compared and never followed.
singlylinkedlist_remove(a) ==
    LET w == Walk(list)
        i == SelectInSeq(w, LAMBDA x : x = a)
    IN  IF i = 0
        THEN UNCHANGED listVars
        ELSE /\ list' = Unlink(list, IF i = 1 THEN NULL ELSE w[i - 1], a)
             /\ handles' = Remove(handles, a)

\* The condition holds of the items in gone; it ends the walk at the items in last.
singlylinkedlist_remove_if(gone, last) ==
    LET step(s, a) ==
          IF s.over THEN s
          ELSE [l |-> IF a \in gone THEN Unlink(s.l, s.previous, a) ELSE s.l,
                previous |-> IF a \in gone THEN s.previous ELSE a,
                over |-> a \in last]
        until == LET i == SelectInSeq(handles, LAMBDA x : x \in last)
                 IN  IF i = 0 THEN Len(handles) ELSE i
    IN  /\ list' = FoldLeft(step, [l |-> list, previous |-> NULL, over |-> FALSE], Walk(list)).l
        /\ handles' = SelectSeq(SubSeq(handles, 1, until), LAMBDA x : x \notin gone)
                      \o SubSeq(handles, until + 1, Len(handles))

\* every item met from the head on is freed
singlylinkedlist_destroy ==
    /\ list' = [list EXCEPT !.head = NULL, !.tail = NULL, !.live = list.live \ ToSet(Walk(list))]
    /\ handles' = <<>>

\* the first match, or NULL
singlylinkedlist_find(S) ==
    LET w == Walk(list)
        i == SelectInSeq(w, LAMBDA x : x \in S)
    IN  IF i = 0 THEN NULL ELSE w[i]

ListNext ==
    \/ singlylinkedlist_add
    \/ \E a \in Addr : singlylinkedlist_remove(a)
    \/ \E gone, last \in SUBSET Addr : singlylinkedlist_remove_if(gone, last)
    \/ singlylinkedlist_destroy

-----------------------------------------------------------------------------
(* doublylinkedlist.c                                                       *)

\* all the lists empty, the entries in none
DList_InitializeListHead ==
    /\ links = [Flink |-> [x \in Heads \cup Entries |-> x], Blink |-> [x \in Heads \cup Entries |-> x]]
    /\ entries = [h \in Heads |-> <<>>]

Listed == UNION {ToSet(entries[h]) : h \in Heads}

DList_IsListEmpty(h) == links.Flink[h] = h

DList_InsertTailList(h, e) ==
    LET blink == links.Blink[h]
    IN  /\ links' = [Flink |-> [links.Flink EXCEPT ![e] = h, ![blink] = e],
                     Blink |-> [links.Blink EXCEPT ![e] = blink, ![h] = e]]
        /\ entries' = [entries EXCEPT ![h] = Append(@, e)]

DList_InsertHeadList(h, e) ==
    LET flink == links.Flink[h]
    IN  /\ links' = [Flink |-> [links.Flink EXCEPT ![e] = flink, ![h] = e],
                     Blink |-> [links.Blink EXCEPT ![e] = h, ![flink] = e]]
        /\ entries' = [entries EXCEPT ![h] = <<e>> \o @]

\* The neighbours of x are joined; x keeps its own pointers.
Join(l, x) ==
    [Flink |-> [l.Flink EXCEPT ![l.Blink[x]] = l.Flink[x]],
     Blink |-> [l.Blink EXCEPT ![l.Flink[x]] = l.Blink[x]]]

DList_RemoveEntryList(e) ==
    /\ links' = Join(links, e)
    /\ entries' = [h \in Heads |-> Remove(entries[h], e)]

\* of an empty list the head itself is returned, and nothing changes
DList_RemoveHeadList(h) ==
    LET entry == links.Flink[h]
        flink == links.Flink[entry]
    IN  /\ links' = [Flink |-> [links.Flink EXCEPT ![h] = flink],
                     Blink |-> [links.Blink EXCEPT ![flink] = h]]
        /\ entries' = [entries EXCEPT ![h] = IF @ = <<>> THEN <<>> ELSE Tail(@)]

\* the ring of entries that begins with first, and has no head, is put behind those of h
AppendTail(l, h, first) ==
    LET end == l.Blink[h]
        last == l.Blink[first]
    IN  [Flink |-> [l.Flink EXCEPT ![end] = first, ![last] = h],
         Blink |-> [l.Blink EXCEPT ![h] = last, ![first] = end]]

\* The entries of g are moved: its head is taken out of their ring, and becomes empty.
DList_AppendTailList(h, g) ==
    LET appended == AppendTail(Join(links, g), h, links.Flink[g])
    IN  /\ links' = [Flink |-> [appended.Flink EXCEPT ![g] = g],
                     Blink |-> [appended.Blink EXCEPT ![g] = g]]
        /\ entries' = [entries EXCEPT ![h] = @ \o entries[g], ![g] = <<>>]

DListNext ==
    \/ \E h \in Heads, e \in Entries \ Listed : DList_InsertTailList(h, e) \/ DList_InsertHeadList(h, e)
    \/ \E e \in Listed : DList_RemoveEntryList(e)
    \/ \E h \in Heads : DList_RemoveHeadList(h)
    \/ \E h, g \in Heads : h # g /\ ~DList_IsListEmpty(g) /\ DList_AppendTailList(h, g)

-----------------------------------------------------------------------------
(* vector.c                                                                 *)

VectorsInit ==
    /\ heap = [b \in {} |-> <<>>]
    /\ vector = [v \in Vectors |-> NoVector]
    /\ elements = [v \in Vectors |-> <<>>]

Created(v) == vector[v].storage # "none"
Storage(v) == IF vector[v].storage = NoBlock THEN <<>> ELSE heap[vector[v].storage]

\* the heap once the block old has been freed, or has become new with the contents s
Free(h, old) == [b \in DOMAIN h \ {old} |-> h[b]]
Realloc(h, old, new, s) ==
    [b \in (DOMAIN h \ {old}) \cup {new} |-> IF b = new THEN s ELSE h[b]]
MayBecome(old) == (Blocks \ DOMAIN heap) \cup ({old} \ {NoBlock})

VECTOR_create(v) ==
    /\ ~Created(v)
    /\ vector' = [vector EXCEPT ![v] = [storage |-> NoBlock, count |-> 0]]
    /\ elements' = [elements EXCEPT ![v] = <<>>]
    /\ UNCHANGED heap

VECTOR_destroy(v) ==
    /\ heap' = Free(heap, vector[v].storage)
    /\ vector' = [vector EXCEPT ![v] = NoVector]
    /\ elements' = [elements EXCEPT ![v] = <<>>]

\* the new vector w takes the storage; the old one is left empty
VECTOR_move(v, w) ==
    /\ ~Created(w)
    /\ vector' = [vector EXCEPT ![w] = vector[v], ![v] = [storage |-> NoBlock, count |-> 0]]
    /\ elements' = [elements EXCEPT ![w] = elements[v], ![v] = <<>>]
    /\ UNCHANGED heap

\* the new elements are written behind the count ones in use; or realloc fails
VECTOR_push_back(v, s) ==
    \/ UNCHANGED vectorVars
    \/ \E b \in MayBecome(vector[v].storage) :
         /\ heap' = Realloc(heap, vector[v].storage, b, SubSeq(Storage(v), 1, vector[v].count) \o s)
         /\ vector' = [vector EXCEPT ![v] = [storage |-> b, count |-> @.count + Len(s)]]
         /\ elements' = [elements EXCEPT ![v] = @ \o s]

\* at is what the caller's pointer is from the start of the storage, in bytes.
Erasable(v, at, n) ==
    /\ at >= 0
    /\ at % ElementSize = 0
    /\ at + ElementSize * n <= ElementSize * vector[v].count

\* The rest is moved down; when the smaller block cannot be had the old one is kept.
VECTOR_erase(v, at, n) ==
    IF ~Erasable(v, at, n)
    THEN UNCHANGED vectorVars
    ELSE LET i     == at \div ElementSize
             left  == vector[v].count - n
             moved == [k \in DOMAIN Storage(v) |->
                         IF k \in i + 1 .. left THEN Storage(v)[k + n] ELSE Storage(v)[k]]
         IN  /\ elements' = [elements EXCEPT ![v] = SubSeq(@, 1, i) \o SubSeq(@, i + n + 1, Len(@))]
             /\ \/ /\ left = 0
                   /\ heap' = Free(heap, vector[v].storage)
                   /\ vector' = [vector EXCEPT ![v] = [storage |-> NoBlock, count |-> 0]]
                \/ /\ left # 0
                   /\ heap' = [heap EXCEPT ![vector[v].storage] = moved]
                   /\ vector' = [vector EXCEPT ![v].count = left]
                \/ /\ left # 0
                   /\ \E b \in MayBecome(vector[v].storage) :
                        /\ heap' = Realloc(heap, vector[v].storage, b, SubSeq(moved, 1, left))
                        /\ vector' = [vector EXCEPT ![v] = [storage |-> b, count |-> left]]

VECTOR_clear(v) ==
    /\ heap' = Free(heap, vector[v].storage)
    /\ vector' = [vector EXCEPT ![v] = [storage |-> NoBlock, count |-> 0]]
    /\ elements' = [elements EXCEPT ![v] = <<>>]

\* the elements that a pointer returned to the caller leads to, counted from 0
VECTOR_element(v, i) == IF i >= vector[v].count THEN <<>> ELSE <<Storage(v)[i + 1]>>
VECTOR_front(v) == IF vector[v].count = 0 THEN <<>> ELSE <<Storage(v)[1]>>
VECTOR_back(v) == IF vector[v].count = 0 THEN <<>> ELSE <<Storage(v)[vector[v].count]>>
VECTOR_find_if(v, S) ==
    LET i == SelectInSubSeq(Storage(v), 1, vector[v].count, LAMBDA x : x \in S)
    IN  IF i = 0 THEN <<>> ELSE <<Storage(v)[i]>>
VECTOR_size(v) == vector[v].count

VectorNext ==
    \/ \E v \in Vectors : VECTOR_create(v)
    \/ \E v \in Vectors : Created(v) /\ (VECTOR_destroy(v) \/ VECTOR_clear(v))
    \/ \E v, w \in Vectors : Created(v) /\ VECTOR_move(v, w)
    \/ \E v \in Vectors : \E s \in SeqOf(Elements, MaxElements) :
          /\ Created(v) /\ s # <<>> /\ vector[v].count + Len(s) <= MaxElements
          /\ VECTOR_push_back(v, s)
    \/ \E v \in Vectors, at \in -1 .. ElementSize * MaxElements, n \in 1 .. MaxElements :
          Created(v) /\ VECTOR_erase(v, at, n)

-----------------------------------------------------------------------------
(* map.c.  F holds the allocations that fail.                               *)

Allocations == {"keys", "values", "undo keys", "undo values", "key", "value"}
Faults == {F \in SUBSET Allocations : Cardinality(F) <= MaxFaults}

Map_Create(filter) == [keys |-> <<>>, values |-> <<>>, count |-> 0, filter |-> filter]

\* an array with room for n strings, new ones not set
Resized(s, n, null) == [i \in 1 .. n |-> IF i <= Len(s) THEN s[i] ELSE null]

\* the place of the first occurrence among the strings in use
findKey(m, k) == SelectInSubSeq(m.keys, 1, m.count, LAMBDA x : x = k)
findValue(m, v) == SelectInSubSeq(m.values, 1, m.count, LAMBDA x : x = v)

Map_IncreaseStorageKeysValues(m, F) ==
    CASE "keys" \in F -> [ok |-> FALSE, m |-> m]
      [] "keys" \notin F /\ "values" \in F ->
           [ok |-> FALSE,
            m  |-> [m EXCEPT !.keys = IF m.count = 0 THEN <<>>
                                      ELSE Resized(SubSeq(m.keys, 1, m.count),
                                                   IF "undo keys" \in F THEN m.count + 1 ELSE m.count, NoBlock)]]
      [] OTHER ->
           [ok |-> TRUE,
            m  |-> [m EXCEPT !.keys = Resized(SubSeq(@, 1, m.count), m.count + 1, NoBlock),
                             !.values = Resized(SubSeq(@, 1, m.count), m.count + 1, NoString),
                             !.count = @ + 1]]

\* With the last pair the filter is forgotten too.
Map_DecreaseStorageKeysValues(m, F) ==
    IF m.count = 1
    THEN Map_Create(FALSE)
    ELSE [m EXCEPT !.keys = IF "undo keys" \in F THEN @ ELSE SubSeq(@, 1, m.count - 1),
                   !.values = IF "undo values" \in F THEN @ ELSE SubSeq(@, 1, m.count - 1),
                   !.count = @ - 1]

insertNewKeyValue(m, k, v, F) ==
    LET grown == Map_IncreaseStorageKeysValues(m, F)
        n     == grown.m.count
    IN  CASE ~grown.ok -> grown
          [] grown.ok /\ F \cap {"key", "value"} # {} ->
               [ok |-> FALSE, m |-> Map_DecreaseStorageKeysValues(grown.m, F)]
          [] OTHER -> [ok |-> TRUE, m |-> [grown.m EXCEPT !.keys[n] = k, !.values[n] = v]]

Rejects(m, k) == m.filter /\ k \in RejectedKeys

Map_Add(m, k, v, F) ==
    IF findKey(m, k) # 0 \/ Rejects(m, k) THEN [ok |-> FALSE, m |-> m]
    ELSE insertNewKeyValue(m, k, v, F)

Map_AddOrUpdate(m, k, v, F) ==
    LET i == findKey(m, k)
    IN  CASE Rejects(m, k) -> [ok |-> FALSE, m |-> m]
          [] ~Rejects(m, k) /\ i = 0 -> insertNewKeyValue(m, k, v, F)
          [] OTHER -> IF "value" \in F THEN [ok |-> FALSE, m |-> m]
                      ELSE [ok |-> TRUE, m |-> [m EXCEPT !.values[i] = v]]

\* what memmove makes of the array when the string at i goes
Closed(s, i, count) == [j \in DOMAIN s |-> IF j \in i .. count - 1 THEN s[j + 1] ELSE s[j]]

\* slip: only the keys are moved down
Map_Delete_values_kept(m, k, F) ==
    LET i == findKey(m, k)
    IN  IF i = 0 THEN [ok |-> FALSE, m |-> m]
        ELSE [ok |-> TRUE,
              m  |-> Map_DecreaseStorageKeysValues([m EXCEPT !.keys = Closed(@, i, m.count)], F)]

Map_Delete(m, k, F) ==
    LET i == findKey(m, k)
    IN  IF i = 0 THEN [ok |-> FALSE, m |-> m]
        ELSE [ok |-> TRUE,
              m  |-> Map_DecreaseStorageKeysValues([m EXCEPT !.keys = Closed(@, i, m.count),
                                                             !.values = Closed(@, i, m.count)], F)]

\* a copy without the slack; the filter of an empty map is not copied
Map_Clone(m) ==
    IF m.count = 0 THEN Map_Create(FALSE)
    ELSE [m EXCEPT !.keys = SubSeq(@, 1, m.count), !.values = SubSeq(@, 1, m.count)]

Map_ContainsKey(m, k) == findKey(m, k) # 0
Map_ContainsValue(m, v) == findValue(m, v) # 0
Map_GetValueFromKey(m, k) == IF findKey(m, k) = 0 THEN NoString ELSE m.values[findKey(m, k)]
Map_GetInternals(m) == [i \in 1 .. m.count |-> <<m.keys[i], m.values[i]>>]

Map_ToJSON(m) ==
    FoldLeftDomain(LAMBDA s, i : s \o (IF i > 1 THEN <<<<",">>>> ELSE <<>>)
                                   \o <<<<m.keys[i]>>, <<":">>, m.values[i]>>,
                   <<<<"{">>>>, Map_GetInternals(m)) \o <<<<"}">>>>

-----------------------------------------------------------------------------
(* httpheaders.c: a map whose values are joined.                            *)

\* leading white space is not kept
Trimmed(v) == LET i == SelectInSeq(v, LAMBDA x : x \notin Spaces)
              IN  IF i = 0 THEN <<>> ELSE SubSeq(v, i, Len(v))

headers_ReplaceHeaderNameValuePair(m, k, v, replace, F) ==
    IF replace \/ ~Map_ContainsKey(m, k)
    THEN Map_AddOrUpdate(m, k, Trimmed(v), F)
    ELSE Map_AddOrUpdate(m, k, Map_GetValueFromKey(m, k) \o <<", ">> \o Trimmed(v), F)

HTTPHeaders_FindHeaderValue(m, k) == Map_GetValueFromKey(m, k)
HTTPHeaders_GetHeaderCount(m) == Len(Map_GetInternals(m))
HTTPHeaders_GetHeader(m, i) == <<m.keys[i], ": ", m.values[i]>>

-----------------------------------------------------------------------------

MapInit == map \in {Map_Create(f) : f \in BOOLEAN} /\ pairs = <<>>

Told(k) == SelectInSeq(pairs, LAMBDA p : p[1] = k)

\* What the caller takes the map to hold once a call has succeeded: the pair is in the
\* place of the one with its key, or the last; or it is gone.
Set(k, v) == IF Told(k) = 0 THEN Append(pairs, <<k, v>>) ELSE [pairs EXCEPT ![Told(k)] = <<k, v>>]

Calls(result, told) == map' = result.m /\ pairs' = IF result.ok THEN told ELSE pairs

MapNext ==
    \/ \E k \in Keys, v \in Values, F \in Faults : Calls(Map_Add(map, k, v, F), Set(k, v))
    \/ \E k \in Keys, v \in Values, F \in Faults : Calls(Map_AddOrUpdate(map, k, v, F), Set(k, v))
    \/ \E k \in Keys, F \in Faults :
          Calls(Map_Delete(map, k, F), SelectSeq(pairs, LAMBDA p : p[1] # k))
    \/ map' = Map_Clone(map) /\ UNCHANGED pairs

HeadersNext ==
    \E k \in Keys, v \in Values, replace \in BOOLEAN, F \in Faults :
        LET old == IF replace \/ Told(k) = 0 THEN <<>> ELSE pairs[Told(k)][2] \o <<", ">>
        IN  /\ Len(old \o v) <= MaxValue
            /\ Calls(headers_ReplaceHeaderNameValuePair(map, k, v, replace, F), Set(k, old \o Trimmed(v)))

-----------------------------------------------------------------------------
(* Properties.                                                              *)

\* a walk meets exactly what was added and not removed, in order; nothing else is
\* allocated, tail is the last item, and find returns the first of the matching ones
ListIsSequence ==
    /\ Walk(list) = handles
    /\ list.live = ToSet(handles)
    /\ handles # <<>> => list.tail = Last(handles)
    /\ \A S \in SUBSET Addr :
         singlylinkedlist_find(S) = LET m == SelectSeq(handles, LAMBDA x : x \in S)
                                    IN  IF m = <<>> THEN NULL ELSE Head(m)

Ring(h) == <<h>> \o entries[h]

\* each list is a ring through its head, the same forwards and backwards, whatever was
\* moved between the lists before
ListsAreRings ==
    \A h \in Heads : \A i \in DOMAIN Ring(h) :
        LET j == (i % Len(Ring(h))) + 1
        IN  links.Flink[Ring(h)[i]] = Ring(h)[j] /\ links.Blink[Ring(h)[j]] = Ring(h)[i]

\* every block is the storage of one vector, none is lost or shared, and every access
\* leads to the element that its caller put there, after any moves and failures
VectorsAsTold ==
    /\ DOMAIN heap = {vector[v].storage : v \in Vectors} \ {"none", NoBlock}
    /\ \A v, w \in Vectors : vector[v].storage = vector[w].storage /\ v # w
                               => vector[v].storage \in {"none", NoBlock}
    /\ \A v \in Vectors : Created(v) =>
         /\ VECTOR_size(v) = Len(elements[v])
         /\ Len(Storage(v)) >= vector[v].count
         /\ \A i \in 1 .. Len(elements[v]) : VECTOR_element(v, i - 1) = <<elements[v][i]>>
         /\ elements[v] # <<>> => /\ VECTOR_front(v) = <<Head(elements[v])>>
                                  /\ VECTOR_back(v) = <<Last(elements[v])>>
         /\ \A S \in SUBSET Elements :
              VECTOR_find_if(v, S) = LET m == SelectSeq(elements[v], LAMBDA x : x \in S)
                                     IN  SubSeq(m, 1, IF m = <<>> THEN 0 ELSE 1)

\* the two arrays stay parallel and hold exactly the pairs that calls reported to have
\* stored, whichever allocations failed in between; every look-up agrees with them
MapAsTold ==
    /\ Len(map.keys) >= map.count /\ Len(map.values) >= map.count
    /\ Map_GetInternals(map) = pairs
    /\ \A i, j \in 1 .. Len(pairs) : pairs[i][1] = pairs[j][1] => i = j
    /\ \A k \in Keys : /\ Map_ContainsKey(map, k) <=> Told(k) # 0
                       /\ Told(k) # 0 => HTTPHeaders_FindHeaderValue(map, k) = pairs[Told(k)][2]
    /\ \A v \in Values : Map_ContainsValue(map, v) <=> \E i \in DOMAIN pairs : pairs[i][2] = v
    /\ \A i \in 1 .. HTTPHeaders_GetHeaderCount(map) :
         HTTPHeaders_GetHeader(map, i) = <<pairs[i][1], ": ", pairs[i][2]>>
    /\ SelectSeq(Map_ToJSON(map), LAMBDA x : x \notin {<<"{">>, <<",">>, <<":">>, <<"}">>})
         = FlattenSeq([i \in DOMAIN pairs |-> <<<<pairs[i][1]>>, pairs[i][2]>>])

=============================================================================
