---------------------------- MODULE ContentProofs ----------------------------
(***************************************************************************)
(* Contents: what buffers and strings hold is what was put into them, and  *)
(* a digest is the one of all that was given.                              *)
(*                                                                         *)
(* For a buffer, each call finds and leaves it holding what its caller     *)
(* believes it to; a string is ended inside its block, and what is before  *)
(* its end is its text.                                                    *)
(*                                                                         *)
(* For a digest, the context of a hash has processed the blocks of what it *)
(* was given, holds the rest in its block, and counts its bits; ending the *)
(* message makes of this the padded message of the standard.  The pads and *)
(* the passes of hmac are messages of this kind.                           *)
(***************************************************************************)
EXTENDS Buffers, Hashes, TLAPS, FiniteSetTheorems, WellFoundedInduction

LEMMA Least ==
    ASSUME NEW T \in SUBSET Nat, T # {}
    PROVE  Min(T) \in T /\ \A y \in T : Min(T) <= y
<1> DEFINE R == {ss \in Nat \X Nat : ss[1] < ss[2]}
<1>1. ASSUME NEW x \in Nat, NEW y \in Nat PROVE <<x, y>> \in R <=> x < y
  OBVIOUS
<1>2. IsWellFoundedOn(R, Nat) BY NatLessThanWellFounded DEF OpToRel
<1> HIDE DEF R
<1>3. PICK x \in T : \A y \in T : ~(<<y, x>> \in R) BY <1>2, WFMin
<1>4. ASSUME NEW y \in T PROVE x <= y
  <2>1. ~(y < x) BY <1>1, <1>3
  <2> QED BY <2>1
<1> QED BY <1>4 DEF Min

LEMMA SameSequence ==
    ASSUME NEW S, NEW s \in Seq(S), NEW t \in Seq(S), Len(s) = Len(t), \A i \in 1 .. Len(s) : s[i] = t[i]
    PROVE  s = t
OBVIOUS

-----------------------------------------------------------------------------
(* Buffers and strings: the C library.                                      *)

LEMMA MallocIs ==
    ASSUME NEW n \in Nat, NEW S, Unset \in S
    PROVE  /\ malloc(n) \in Seq(S) /\ Len(malloc(n)) = n
           /\ \A i \in 1 .. n : malloc(n)[i] = Unset
BY DEF malloc

LEMMA ReallocIs ==
    ASSUME NEW n \in Nat, NEW S, Unset \in S, NEW block, block = NULLBlock \/ block \in Seq(S)
    PROVE  /\ realloc(block, n) \in Seq(S) /\ Len(realloc(block, n)) = n
           /\ \A i \in 1 .. n : realloc(block, n)[i] = IF block # NULLBlock /\ i <= Len(block) THEN block[i] ELSE Unset
<1>1. \A i \in 1 .. n : block # NULLBlock /\ i <= Len(block) => block[i] \in S OBVIOUS
<1> QED BY <1>1 DEF realloc

LEMMA MemcpyIs ==
    ASSUME NEW S, NEW block \in Seq(S), NEW s \in Seq(S), NEW at \in Nat, at + Len(s) <= Len(block)
    PROVE  /\ memcpy(block, at, s) \in Seq(S) /\ Len(memcpy(block, at, s)) = Len(block)
           /\ \A i \in 1 .. Len(block) :
                memcpy(block, at, s)[i] = IF at < i /\ i <= at + Len(s) THEN s[i - at] ELSE block[i]
<1> DEFINE new == [i \in DOMAIN block |-> IF i \in at + 1 .. at + Len(s) THEN s[i - at] ELSE block[i]]
           n == Len(block)
           k == Len(s)
<1>1. memcpy(block, at, s) = new BY DEF memcpy
<1>2. n \in Nat /\ k \in Nat /\ DOMAIN block = 1 .. n /\ DOMAIN s = 1 .. k OBVIOUS
<1>3. ASSUME NEW i \in 1 .. n
      PROVE  new[i] = (IF at < i /\ i <= at + k THEN s[i - at] ELSE block[i]) /\ new[i] \in S
  <2>1. i \in at + 1 .. at + k <=> at < i /\ i <= at + k BY <1>2
  <2>2. at < i /\ i <= at + k => s[i - at] \in S
    <3>1. at < i /\ i <= at + k => i - at \in 1 .. k BY <1>2
    <3> QED BY <3>1
  <2>3. block[i] \in S OBVIOUS
  <2>4. new[i] = (IF at < i /\ i <= at + k THEN s[i - at] ELSE block[i]) BY <1>2, <2>1
  <2> QED BY <2>2, <2>3, <2>4
<1>4. new \in [1 .. n -> S] BY <1>2, <1>3
<1> HIDE DEF new
<1>5. new \in Seq(S) /\ Len(new) = n BY <1>2, <1>4
<1> QED BY <1>1, <1>3, <1>5

-----------------------------------------------------------------------------
(* Buffers.                                                                 *)

Cells == Bytes \cup {Unset}

\* the buffer r holds s: behind it the block was never written to
Holds(r, s) ==
    /\ s \in Seq(Cells) /\ r \in [block: Seq(Cells) \cup {NULLBlock}, size: Nat] /\ r.size = Len(s)
    /\ \/ r.block = NULLBlock /\ s = <<>>
       \/ /\ r.block \in Seq(Cells) /\ Len(s) <= Len(r.block)
          /\ \A i \in 1 .. Len(r.block) : r.block[i] = IF i <= Len(s) THEN s[i] ELSE Unset

BufferInv ==
    /\ DOMAIN buffer = Buffers /\ DOMAIN bytes = Buffers
    /\ buffer = [b \in Buffers |-> buffer[b]] /\ bytes = [b \in Buffers |-> bytes[b]]
    /\ \A b \in Buffers : Holds(buffer[b], bytes[b])

\* two sequences are one when they agree everywhere
LEMMA SameCells ==
    ASSUME NEW S, NEW s \in Seq(S), NEW T, NEW t \in Seq(T), Len(s) = Len(t), \A i \in 1 .. Len(s) : s[i] = t[i]
    PROVE  s = t
OBVIOUS

LEMMA NotNull == ASSUME BuffersAssumption, NEW s \in Seq(Cells) PROVE s # NULLBlock /\ s # Overrun
<1>1. ASSUME s = NULLBlock \/ s = Overrun PROVE FALSE
  <2>1. Len(s) = 1 /\ s[1] \in {"NULL", "overrun"} BY <1>1 DEF NULLBlock, Overrun
  <2>2. s[1] \in Cells BY <2>1
  <2> QED BY <2>1, <2>2 DEF BuffersAssumption, Cells, Unset
<1> QED BY <1>1

LEMMA ContentIs ==
    ASSUME BuffersAssumption, NEW b \in Buffers, NEW s, Holds(buffer[b], s)
    PROVE  /\ Content(b) = s /\ buffer[b].block # Overrun /\ buffer[b].size <= Len(buffer[b].block)
           /\ buffer[b].size = Len(s) /\ s \in Seq(Cells)
           /\ Null(b) => s = <<>>
           /\ ~Null(b) => /\ buffer[b].block \in Seq(Cells) /\ Len(s) <= Len(buffer[b].block)
                          /\ \A i \in 1 .. Len(buffer[b].block) :
                               buffer[b].block[i] = IF i <= Len(s) THEN s[i] ELSE Unset
<1> DEFINE block == buffer[b].block
<1>1. s \in Seq(Cells) /\ buffer[b].size = Len(s) BY DEF Holds
<1>2. CASE block = NULLBlock
  <2>1. s = <<>> BY <1>2, NotNull DEF Holds
  <2>2. Len(block) = 1 /\ block[1] = "NULL" /\ "NULL" # "overrun" BY <1>2 DEF NULLBlock
  <2>3. block # Overrun BY <2>2 DEF Overrun
  <2> QED BY <1>1, <1>2, <2>1, <2>2, <2>3 DEF Content, Null
<1>3. CASE block # NULLBlock
  <2>1. /\ block \in Seq(Cells) /\ Len(s) <= Len(block)
        /\ \A i \in 1 .. Len(block) : block[i] = IF i <= Len(s) THEN s[i] ELSE Unset
    BY <1>3 DEF Holds
  <2>2. block # Overrun BY <2>1, NotNull
  <2>3. Content(b) = s
    <3>1. CASE Len(s) = 0 BY <1>1, <3>1 DEF Content
    <3>2. CASE Len(s) # 0
      <4>1. Content(b) = SubSeq(block, 1, Len(s)) BY <1>1, <3>2 DEF Content
      <4> HIDE DEF block
      <4>2. SubSeq(block, 1, Len(s)) = s BY <1>1, <2>1, <3>2
      <4> QED BY <4>1, <4>2
    <3> QED BY <3>1, <3>2
  <2> QED BY <1>1, <1>3, <2>1, <2>2, <2>3 DEF Null
<1> QED BY <1>2, <1>3

\* a buffer that is given a block which begins with s
LEMMA HoldsIs ==
    ASSUME NEW s \in Seq(Cells), NEW block \in Seq(Cells), Len(s) <= Len(block),
           \A i \in 1 .. Len(block) : block[i] = IF i <= Len(s) THEN s[i] ELSE Unset,
           NEW n, n = Len(s)
    PROVE  Holds([block |-> block, size |-> n], s)
BY DEF Holds

LEMMA NewHolds == Holds(BUFFER_new, <<>>)
BY DEF Holds, BUFFER_new

\* what is copied into a fresh block, or to the end of a grown one
LEMMA CreateHolds ==
    ASSUME NEW s \in Seq(Cells)
    PROVE  Holds(BUFFER_create(s), s)
<1> DEFINE n == IF Len(s) = 0 THEN 1 ELSE Len(s)
           block == memcpy(malloc(n), 0, s)
<1>1. n \in Nat /\ Len(s) <= n /\ Unset \in Cells BY DEF Cells
<1>2. malloc(n) \in Seq(Cells) /\ Len(malloc(n)) = n /\ \A i \in 1 .. n : malloc(n)[i] = Unset
  BY <1>1, MallocIs
<1>3. /\ block \in Seq(Cells) /\ Len(block) = n
      /\ \A i \in 1 .. n : block[i] = IF 0 < i /\ i <= 0 + Len(s) THEN s[i - 0] ELSE malloc(n)[i]
  <2> HIDE DEF n
  <2> QED BY <1>1, <1>2, MemcpyIs
<1> HIDE DEF block
<1>4. \A i \in 1 .. Len(block) : block[i] = IF i <= Len(s) THEN s[i] ELSE Unset BY <1>1, <1>2, <1>3
<1>5. Holds([block |-> block, size |-> Len(s)], s) BY <1>1, <1>3, <1>4, HoldsIs
<1> QED BY <1>5 DEF BUFFER_create, BUFFER_safemalloc, block

LEMMA GrownHolds ==
    ASSUME BuffersAssumption, NEW b \in Buffers, NEW s, Holds(buffer[b], s), NEW t \in Seq(Cells), ~Null(b)
    PROVE  Holds([block |-> memcpy(realloc(buffer[b].block, buffer[b].size + Len(t)), buffer[b].size, t),
                  size |-> buffer[b].size + Len(t)], s \o t)
<1> DEFINE old == buffer[b].block
           n == Len(s) + Len(t)
           new == realloc(old, n)
           block == memcpy(new, Len(s), t)
<1>1. /\ s \in Seq(Cells) /\ buffer[b].size = Len(s) /\ old \in Seq(Cells) /\ Len(s) <= Len(old) /\ old # NULLBlock
      /\ \A i \in 1 .. Len(old) : old[i] = IF i <= Len(s) THEN s[i] ELSE Unset
  BY ContentIs DEF Null
<1> HIDE DEF old
<1>2. n \in Nat /\ Unset \in Cells BY <1>1 DEF Cells
<1> HIDE DEF n
<1>3. /\ new \in Seq(Cells) /\ Len(new) = n
      /\ \A i \in 1 .. n : new[i] = IF old # NULLBlock /\ i <= Len(old) THEN old[i] ELSE Unset
  BY <1>1, <1>2, ReallocIs
<1> HIDE DEF new
<1>4. Len(s) \in Nat /\ Len(t) \in Nat /\ n = Len(s) + Len(t) BY <1>1 DEF n
<1>5. /\ block \in Seq(Cells) /\ Len(block) = n
      /\ \A i \in 1 .. n : block[i] = IF Len(s) < i /\ i <= Len(s) + Len(t) THEN t[i - Len(s)] ELSE new[i]
  <2>1. Len(s) + Len(t) <= Len(new) BY <1>3, <1>4
  <2> QED BY <1>3, <1>4, <2>1, MemcpyIs
<1> HIDE DEF block
<1>6. s \o t \in Seq(Cells) /\ Len(s \o t) = n
      /\ \A i \in 1 .. n : (s \o t)[i] = IF i <= Len(s) THEN s[i] ELSE t[i - Len(s)]
  BY <1>1, <1>4
<1>7. ASSUME NEW i \in 1 .. n PROVE block[i] = (s \o t)[i] /\ i <= n
  <2>1. CASE i <= Len(s)
    <3>1. block[i] = new[i] BY <1>4, <1>5, <2>1
    <3>2. i \in 1 .. Len(old) /\ i \in 1 .. n BY <1>1, <1>4, <2>1
    <3>3. new[i] = s[i] BY <1>1, <1>3, <2>1, <3>2
    <3> QED BY <1>6, <2>1, <3>1, <3>3, <1>4
  <2>2. CASE ~(i <= Len(s)) BY <1>4, <1>5, <1>6, <2>2
  <2> QED BY <2>1, <2>2
<1>8. Holds([block |-> block, size |-> n], s \o t)
  <2> DEFINE all == s \o t
  <2>1. all \in Seq(Cells) /\ Len(all) = n /\ \A i \in 1 .. n : block[i] = all[i] /\ i <= n BY <1>6, <1>7
  <2> HIDE DEF all
  <2>2. Holds([block |-> block, size |-> n], all)
    <3>1. \A i \in 1 .. Len(block) : block[i] = IF i <= Len(all) THEN all[i] ELSE Unset BY <1>5, <2>1
    <3>2. Len(all) <= Len(block) BY <1>4, <1>5, <2>1
    <3> QED BY <1>5, <2>1, <3>1, <3>2, HoldsIs
  <2> QED BY <2>2 DEF all
<1> QED BY <1>1, <1>4, <1>8 DEF block, new, old, n

LEMMA BuildHolds ==
    ASSUME BuffersAssumption, NEW b \in Buffers, NEW s, Holds(buffer[b], s), NEW t \in Seq(Cells)
    PROVE  Holds(BUFFER_build(b, t), t)
<1>1. CASE t = <<>> BY <1>1, NewHolds DEF BUFFER_build
<1>2. CASE t # <<>>
  <2> DEFINE old == buffer[b].block
             n == Len(t)
             new == realloc(old, n)
             block == memcpy(new, 0, t)
  <2>1. old = NULLBlock \/ old \in Seq(Cells) BY ContentIs DEF Null
  <2>2. n \in Nat /\ Unset \in Cells BY DEF Cells
  <2>3. new \in Seq(Cells) /\ Len(new) = n
    <3> HIDE DEF n, old
    <3> QED BY <2>1, <2>2, ReallocIs
  <2> HIDE DEF new
  <2>4. /\ block \in Seq(Cells) /\ Len(block) = n
        /\ \A i \in 1 .. n : block[i] = IF 0 < i /\ i <= 0 + Len(t) THEN t[i - 0] ELSE new[i]
    BY <2>2, <2>3, MemcpyIs
  <2> HIDE DEF block
  <2>5. \A i \in 1 .. Len(block) : block[i] = IF i <= Len(t) THEN t[i] ELSE Unset BY <2>2, <2>4
  <2>6. Holds([block |-> block, size |-> n], t) BY <2>4, <2>5, HoldsIs
  <2> QED BY <1>2, <2>6 DEF BUFFER_build, block, new, old, n
<1> QED BY <1>1, <1>2

LEMMA EnlargeHolds ==
    ASSUME BuffersAssumption, NEW b \in Buffers, NEW s, Holds(buffer[b], s), NEW k \in Nat
    PROVE  Holds(BUFFER_enlarge(b, k), s \o malloc(k))
<1> DEFINE old == buffer[b].block
           n == Len(s) + k
           block == realloc(old, n)
<1>1. s \in Seq(Cells) /\ buffer[b].size = Len(s) BY ContentIs
<1>2. /\ old = NULLBlock => s = <<>>
      /\ old # NULLBlock => /\ old \in Seq(Cells) /\ Len(s) <= Len(old)
                            /\ \A i \in 1 .. Len(old) : old[i] = IF i <= Len(s) THEN s[i] ELSE Unset
  BY ContentIs DEF Null
<1> HIDE DEF old
<1>3. n \in Nat /\ Unset \in Cells /\ Len(s) \in Nat BY <1>1 DEF Cells
<1>4. malloc(k) \in Seq(Cells) /\ Len(malloc(k)) = k /\ \A i \in 1 .. k : malloc(k)[i] = Unset
  BY <1>3, MallocIs
<1> DEFINE all == s \o malloc(k)
<1>5. /\ all \in Seq(Cells) /\ Len(all) = n
      /\ \A i \in 1 .. n : all[i] = IF i <= Len(s) THEN s[i] ELSE malloc(k)[i - Len(s)]
  BY <1>1, <1>3, <1>4
<1> HIDE DEF all
<1>6. \A i \in 1 .. n : all[i] = IF i <= Len(s) THEN s[i] ELSE Unset
  <2>1. ASSUME NEW i \in 1 .. n, ~(i <= Len(s)) PROVE malloc(k)[i - Len(s)] = Unset
    <3>1. i - Len(s) \in 1 .. k BY <1>3, <2>1
    <3> QED BY <3>1, <1>4
  <2> QED BY <1>5, <2>1
<1>7. /\ block \in Seq(Cells) /\ Len(block) = n
      /\ \A i \in 1 .. n : block[i] = IF old # NULLBlock /\ i <= Len(old) THEN old[i] ELSE Unset
  <2> HIDE DEF n
  <2> QED BY <1>2, <1>3, ReallocIs
<1> HIDE DEF block
<1>8. Len(s) <= n BY <1>3
<1> HIDE DEF n
<1>9. ASSUME NEW i \in 1 .. n PROVE block[i] = all[i] /\ i <= n
  <2>1. CASE old = NULLBlock
    <3>1. Len(s) = 0 BY <1>2, <2>1
    <3> QED BY <1>3, <1>6, <1>7, <2>1, <3>1
  <2>2. CASE old # NULLBlock
    <3>1. i <= Len(old) => i \in 1 .. Len(old) BY <1>3
    <3>2. i <= Len(old) => old[i] = IF i <= Len(s) THEN s[i] ELSE Unset BY <1>2, <2>2, <3>1
    <3>3. ~(i <= Len(old)) => ~(i <= Len(s)) BY <1>2, <1>3, <2>2
    <3> QED BY <1>3, <1>6, <1>7, <2>2, <3>2, <3>3
  <2> QED BY <2>1, <2>2
<1>10. Holds([block |-> block, size |-> n], all)
  <2>1. \A i \in 1 .. Len(block) : block[i] = IF i <= Len(all) THEN all[i] ELSE Unset BY <1>5, <1>7, <1>9
  <2>2. Len(all) <= Len(block) BY <1>3, <1>5, <1>7
  <2> QED BY <1>5, <1>7, <2>1, <2>2, HoldsIs
<1> QED BY <1>1, <1>10 DEF BUFFER_enlarge, block, old, n, all

LEMMA PreBuildHolds ==
    ASSUME NEW n \in Nat
    PROVE  Holds(BUFFER_pre_build(n), malloc(n))
<1>1. Unset \in Cells BY DEF Cells
<1>2. malloc(n) \in Seq(Cells) /\ Len(malloc(n)) = n /\ \A i \in 1 .. n : malloc(n)[i] = Unset
  BY <1>1, MallocIs
<1>3. \A i \in 1 .. Len(malloc(n)) : malloc(n)[i] = IF i <= Len(malloc(n)) THEN malloc(n)[i] ELSE Unset
  BY <1>2
<1>4. Holds([block |-> malloc(n), size |-> n], malloc(n)) BY <1>2, <1>3, HoldsIs
<1> QED BY <1>4 DEF BUFFER_pre_build

LEMMA AppendBuildHolds ==
    ASSUME BuffersAssumption, NEW b \in Buffers, NEW s, Holds(buffer[b], s), NEW t \in Seq(Cells)
    PROVE  Holds(BUFFER_append_build(b, t), s \o t)
<1>1. CASE Null(b)
  <2>1. s = <<>> BY <1>1, ContentIs
  <2>2. s \o t = t BY <2>1
  <2> QED BY <1>1, <2>2, CreateHolds DEF BUFFER_append_build, Null
<1>2. CASE ~Null(b) BY <1>2, GrownHolds DEF BUFFER_append_build, Null
<1> QED BY <1>1, <1>2

LEMMA AppendHolds ==
    ASSUME BuffersAssumption, NEW b \in Buffers, NEW s, Holds(buffer[b], s), ~Null(b),
           NEW c \in Buffers, NEW t, Holds(buffer[c], t)
    PROVE  Holds(BUFFER_append(b, c), s \o t)
<1>1. Content(c) = t /\ buffer[c].size = Len(t) /\ t \in Seq(Cells) BY ContentIs
<1> QED BY <1>1, GrownHolds DEF BUFFER_append

LEMMA PrependHolds ==
    ASSUME BuffersAssumption, NEW b \in Buffers, NEW s, Holds(buffer[b], s),
           NEW c \in Buffers, NEW t, Holds(buffer[c], t)
    PROVE  Holds(BUFFER_prepend(b, c), t \o s)
<1> DEFINE n == Len(s) + Len(t)
           room == malloc(n + 1)
           first == memcpy(room, 0, t)
           block == memcpy(first, Len(t), s)
           all == t \o s
<1>1. /\ Content(b) = s /\ buffer[b].size = Len(s) /\ s \in Seq(Cells)
      /\ Content(c) = t /\ buffer[c].size = Len(t) /\ t \in Seq(Cells)
  BY ContentIs
<1>2. Len(s) \in Nat /\ Len(t) \in Nat /\ n \in Nat /\ n + 1 \in Nat /\ n = Len(s) + Len(t) /\ Unset \in Cells
  BY <1>1 DEF Cells
<1>3. all \in Seq(Cells) /\ Len(all) = n
      /\ \A i \in 1 .. n : all[i] = IF i <= Len(t) THEN t[i] ELSE s[i - Len(t)]
  BY <1>1
<1> HIDE DEF all, n
<1>4. room \in Seq(Cells) /\ Len(room) = n + 1 /\ \A i \in 1 .. n + 1 : room[i] = Unset BY <1>2, MallocIs
<1> HIDE DEF room
<1>5. /\ first \in Seq(Cells) /\ Len(first) = n + 1
      /\ \A i \in 1 .. n + 1 : first[i] = IF 0 < i /\ i <= 0 + Len(t) THEN t[i - 0] ELSE room[i]
  <2>1. 0 \in Nat /\ 0 + Len(t) <= Len(room) BY <1>2, <1>4
  <2>2. /\ first \in Seq(Cells) /\ Len(first) = Len(room)
        /\ \A i \in 1 .. Len(room) : first[i] = IF 0 < i /\ i <= 0 + Len(t) THEN t[i - 0] ELSE room[i]
    BY <1>1, <1>4, <2>1, MemcpyIs
  <2> HIDE DEF first
  <2> QED BY <1>4, <2>2
<1> HIDE DEF first
<1>6. /\ block \in Seq(Cells) /\ Len(block) = n + 1
      /\ \A i \in 1 .. n + 1 : block[i] = IF Len(t) < i /\ i <= Len(t) + Len(s) THEN s[i - Len(t)] ELSE first[i]
  <2>1. Len(t) + Len(s) <= Len(first) BY <1>2, <1>5
  <2> QED BY <1>1, <1>2, <1>5, <2>1, MemcpyIs
<1> HIDE DEF block
<1>7. ASSUME NEW i \in 1 .. n + 1 PROVE block[i] = IF i <= n THEN all[i] ELSE Unset
  <2>1. CASE i <= n
    <3>1. i \in 1 .. n BY <1>2, <2>1
    <3>2. CASE i <= Len(t)
      <4>1. block[i] = first[i] /\ first[i] = t[i] BY <1>2, <1>5, <1>6, <3>2
      <4> QED BY <1>2, <1>3, <2>1, <3>1, <3>2, <4>1
    <3>3. CASE ~(i <= Len(t)) BY <1>2, <1>3, <1>6, <2>1, <3>1, <3>3
    <3> QED BY <3>2, <3>3
  <2>2. CASE ~(i <= n) BY <1>2, <1>4, <1>5, <1>6, <2>2
  <2> QED BY <2>1, <2>2
<1>8. Holds([block |-> block, size |-> n], all)
  <2>1. \A i \in 1 .. Len(block) : block[i] = IF i <= Len(all) THEN all[i] ELSE Unset BY <1>3, <1>6, <1>7
  <2>2. Len(all) <= Len(block) BY <1>2, <1>3, <1>6
  <2> QED BY <1>3, <1>6, <2>1, <2>2, HoldsIs
<1> QED BY <1>1, <1>8 DEF BUFFER_prepend, block, first, room, n, all

\* a cut of the buffer, from either end
LEMMA ShrinkHolds ==
    ASSUME BuffersAssumption, NEW b \in Buffers, NEW s, Holds(buffer[b], s), NEW k \in Nat \ {0}, k <= Len(s),
           NEW fromEnd \in BOOLEAN
    PROVE  Holds(BUFFER_shrink(b, k, fromEnd), IF fromEnd THEN SubSeq(s, 1, Len(s) - k) ELSE SubSeq(s, k + 1, Len(s)))
<1> DEFINE left == Len(s) - k
           from == IF fromEnd THEN 0 ELSE k
           old == buffer[b].block
           cut == SubSeq(s, from + 1, from + left)
           block == memcpy(malloc(left), 0, SubSeq(old, from + 1, from + left))
<1>1. s \in Seq(Cells) /\ buffer[b].size = Len(s) /\ Len(s) \in Nat BY ContentIs
<1>2. Len(s) # 0 BY <1>1
<1>3. /\ old \in Seq(Cells) /\ Len(s) <= Len(old)
      /\ \A i \in 1 .. Len(old) : old[i] = IF i <= Len(s) THEN s[i] ELSE Unset
  BY <1>2, ContentIs
<1>4. left \in Nat /\ from \in Nat /\ from + left <= Len(s) /\ Unset \in Cells BY <1>1 DEF Cells
<1>5. cut = IF fromEnd THEN SubSeq(s, 1, Len(s) - k) ELSE SubSeq(s, k + 1, Len(s))
  <2>1. CASE fromEnd BY <1>1, <2>1
  <2>2. CASE ~fromEnd
    <3>1. k + (Len(s) - k) = Len(s) BY <1>1
    <3> QED BY <2>2, <3>1
  <2> QED BY <2>1, <2>2
<1>6. BUFFER_shrink(b, k, fromEnd) = IF left = 0 THEN BUFFER_new ELSE [block |-> block, size |-> left]
  BY <1>1 DEF BUFFER_shrink
<1> HIDE DEF left, from, old
<1>7. CASE left = 0
  <2>1. cut = <<>> BY <1>1, <1>4, <1>7
  <2> QED BY <1>5, <1>6, <1>7, <2>1, NewHolds
<1>8. CASE left # 0
  <2>1. /\ cut \in Seq(Cells) /\ Len(cut) = left /\ \A i \in 1 .. left : cut[i] = s[from + i]
    BY <1>1, <1>4
  <2>2. SubSeq(old, from + 1, from + left) = cut
    <3> DEFINE t == SubSeq(old, from + 1, from + left)
    <3>1. t \in Seq(Cells) /\ Len(t) = left /\ \A i \in 1 .. left : t[i] = old[from + i]
      BY <1>3, <1>4
    <3>2. ASSUME NEW i \in 1 .. left PROVE old[from + i] = s[from + i]
      <4>1. from + i \in 1 .. Len(old) /\ from + i <= Len(s) BY <1>1, <1>3, <1>4
      <4> QED BY <1>3, <4>1
    <3> HIDE DEF t
    <3>3. \A i \in 1 .. left : t[i] = cut[i] BY <3>1, <3>2, <2>1
    <3> HIDE DEF cut
    <3>4. t = cut BY <3>1, <3>3, <2>1, SameCells
    <3> QED BY <3>4 DEF t
  <2> HIDE DEF cut
  <2>3. malloc(left) \in Seq(Cells) /\ Len(malloc(left)) = left BY <1>4, MallocIs
  <2>4. /\ block \in Seq(Cells) /\ Len(block) = left
        /\ \A i \in 1 .. left : block[i] = IF 0 < i /\ i <= 0 + Len(cut) THEN cut[i - 0] ELSE malloc(left)[i]
    <3> DEFINE room == malloc(left)
    <3>1. 0 \in Nat /\ 0 + Len(cut) <= Len(room) /\ room \in Seq(Cells) BY <1>4, <2>1, <2>3
    <3>2. block = memcpy(room, 0, cut) BY <2>2
    <3> HIDE DEF room, block
    <3>3. /\ block \in Seq(Cells) /\ Len(block) = Len(room)
          /\ \A i \in 1 .. Len(room) : block[i] = IF 0 < i /\ i <= 0 + Len(cut) THEN cut[i - 0] ELSE room[i]
      BY <2>1, <3>1, <3>2, MemcpyIs
    <3> QED BY <2>3, <3>3 DEF room
  <2> HIDE DEF block
  <2>5. ASSUME NEW i \in 1 .. Len(block) PROVE block[i] = IF i <= Len(cut) THEN cut[i] ELSE Unset
    <3>1. i \in 1 .. left /\ i \in 1 .. Len(cut) BY <1>4, <2>1, <2>4
    <3>2. 0 < i /\ i <= 0 + Len(cut) /\ i - 0 = i /\ i <= Len(cut) BY <1>4, <2>1, <3>1
    <3> QED BY <2>4, <3>1, <3>2
  <2>6. Holds([block |-> block, size |-> left], cut)
    <3>1. Len(cut) <= Len(block) BY <1>4, <2>1, <2>4
    <3> QED BY <2>1, <2>4, <2>5, <3>1, HoldsIs
  <2> QED BY <1>5, <1>6, <1>8, <2>6
<1> QED BY <1>7, <1>8

LEMMA FillHolds ==
    ASSUME BuffersAssumption, NEW b \in Buffers, NEW s, Holds(buffer[b], s), NEW x \in Cells
    PROVE  Holds(BUFFER_fill(b, x), [i \in DOMAIN s |-> x])
<1> DEFINE n == Len(s)
           old == buffer[b].block
           all == [i \in 1 .. n |-> x]
           block == memcpy(old, 0, all)
<1>1. s \in Seq(Cells) /\ buffer[b].size = n /\ n \in Nat /\ DOMAIN s = 1 .. n BY ContentIs
<1>2. all \in Seq(Cells) /\ Len(all) = n /\ \A i \in 1 .. n : all[i] = x BY <1>1
<1>3. BUFFER_fill(b, x) = [block |-> block, size |-> n]
  <2>1. buffer[b] = [block |-> old, size |-> n] BY <1>1 DEF Holds
  <2> QED BY <1>1, <2>1 DEF BUFFER_fill
<1>4. CASE Null(b)
  <2>1. s = <<>> BY <1>4, ContentIs
  <2>2. n = 0 /\ all = <<>> BY <2>1
  <2>3. block = NULLBlock
    <3>1. old = <<"NULL">> BY <1>4 DEF Null, NULLBlock
    <3>2. block = [i \in DOMAIN old |-> IF i \in 0 + 1 .. 0 + Len(all) THEN all[i - 0] ELSE old[i]]
      BY <3>1, <2>2 DEF memcpy
    <3>3. 0 + 1 .. 0 + Len(all) = {} BY <2>2
    <3>4. block = [i \in DOMAIN old |-> old[i]] BY <3>2, <3>3
    <3> QED BY <3>1, <3>4 DEF NULLBlock
  <2>4. [i \in DOMAIN s |-> x] = all BY <1>1
  <2> HIDE DEF block
  <2>5. [block |-> block, size |-> n] = BUFFER_new BY <2>2, <2>3 DEF BUFFER_new
  <2> QED BY <1>3, <2>2, <2>4, <2>5, NewHolds
<1>5. CASE ~Null(b)
  <2>1. /\ old \in Seq(Cells) /\ n <= Len(old)
        /\ \A i \in 1 .. Len(old) : old[i] = IF i <= n THEN s[i] ELSE Unset
    BY <1>5, ContentIs
  <2>2. [i \in DOMAIN s |-> x] = all BY <1>1
  <2> HIDE DEF old, all, n
  <2>3. /\ block \in Seq(Cells) /\ Len(block) = Len(old)
        /\ \A i \in 1 .. Len(old) : block[i] = IF 0 < i /\ i <= 0 + Len(all) THEN all[i - 0] ELSE old[i]
    <3>1. 0 + Len(all) <= Len(old) BY <1>1, <1>2, <2>1
    <3> QED BY <1>2, <2>1, <3>1, MemcpyIs
  <2> HIDE DEF block
  <2>4. \A i \in 1 .. Len(block) : block[i] = IF i <= Len(all) THEN all[i] ELSE Unset BY <1>1, <1>2, <2>1, <2>3
  <2>5. Holds([block |-> block, size |-> n], all) BY <1>2, <2>1, <2>3, <2>4, HoldsIs
  <2> QED BY <1>3, <2>2, <2>5
<1> QED BY <1>4, <1>5

LEMMA CloneHolds ==
    ASSUME BuffersAssumption, NEW b \in Buffers, NEW s, Holds(buffer[b], s)
    PROVE  Holds(BUFFER_clone(b), s)
<1>1. Content(b) = s /\ buffer[b].size = Len(s) /\ s \in Seq(Cells) BY ContentIs
<1>2. BUFFER_clone(b) = BUFFER_create(s) BY <1>1 DEF BUFFER_clone, BUFFER_create
<1> QED BY <1>1, <1>2, CreateHolds

-----------------------------------------------------------------------------
(* Buffers: the steps.                                                      *)

LEMMA MakesKeeps ==
    ASSUME BufferInv, NEW b \in Buffers, NEW new, NEW s, Holds(new, s), Makes(b, new, s)
    PROVE  BufferInv'
<1>1. CASE UNCHANGED bufferVars BY <1>1 DEF bufferVars, BufferInv
<1>2. CASE buffer' = [buffer EXCEPT ![b] = new] /\ bytes' = [bytes EXCEPT ![b] = s]
  <2>1. buffer' = [c \in Buffers |-> IF c = b THEN new ELSE buffer[c]] BY <1>2 DEF BufferInv
  <2>2. bytes' = [c \in Buffers |-> IF c = b THEN s ELSE bytes[c]] BY <1>2 DEF BufferInv
  <2>3. \A c \in Buffers : Holds(buffer'[c], bytes'[c]) BY <2>1, <2>2 DEF BufferInv
  <2> QED BY <2>1, <2>2, <2>3 DEF BufferInv
<1> QED BY <1>1, <1>2 DEF Makes

LEMMA BufferStart == BuffersInit => BufferInv
<1> SUFFICES ASSUME BuffersInit PROVE BufferInv OBVIOUS
<1>1. \A b \in Buffers : buffer[b] = BUFFER_new /\ bytes[b] = <<>> BY DEF BuffersInit
<1>2. \A b \in Buffers : Holds(buffer[b], bytes[b]) BY <1>1, NewHolds
<1> QED BY <1>2 DEF BuffersInit, BufferInv

LEMMA BoundedSequence ==
    ASSUME NEW S, NEW n \in Nat, NEW s \in SeqOf(S, n)
    PROVE  s \in Seq(S) /\ Len(s) <= n
<1>1. PICK m \in 0 .. n : s \in [1 .. m -> S] BY DEF SeqOf
<1> QED BY <1>1

LEMMA BufferStep ==
    ASSUME BuffersAssumption, BufferInv, [BufferNext]_bufferVars
    PROVE  BufferInv'
<1>1. CASE UNCHANGED bufferVars BY <1>1 DEF bufferVars, BufferInv
<1>2. ASSUME NEW b \in Buffers,
             \/ Makes(b, BUFFER_new, <<>>)
             \/ ~Null(b) /\ Makes(b, BUFFER_unbuild, <<>>)
      PROVE  BufferInv'
  BY <1>2, NewHolds, MakesKeeps DEF BUFFER_unbuild
<1>3. ASSUME NEW b \in Buffers, NEW s \in SeqOf(Bytes, MaxSize),
             \/ Makes(b, BUFFER_create(s), s)
             \/ Makes(b, BUFFER_build(b, s), s)
             \/ /\ s # <<>> /\ Fits(buffer[b].size + Len(s))
                /\ Makes(b, BUFFER_append_build(b, s), bytes[b] \o s)
      PROVE  BufferInv'
  <2>1. s \in Seq(Cells)
    <3>1. s \in Seq(Bytes) BY BoundedSequence DEF BuffersAssumption
    <3> QED BY <3>1 DEF Cells
  <2>2. Holds(buffer[b], bytes[b]) BY DEF BufferInv
  <2>3. CASE Makes(b, BUFFER_create(s), s) BY <2>1, <2>3, CreateHolds, MakesKeeps
  <2>4. CASE Makes(b, BUFFER_build(b, s), s)
    <3>1. Holds(BUFFER_build(b, s), s) BY <2>1, <2>2, BuildHolds
    <3> QED BY <2>4, <3>1, MakesKeeps
  <2>5. CASE Makes(b, BUFFER_append_build(b, s), bytes[b] \o s)
    <3>1. Holds(BUFFER_append_build(b, s), bytes[b] \o s) BY <2>1, <2>2, AppendBuildHolds
    <3> QED BY <2>5, <3>1, MakesKeeps
  <2> QED BY <1>3, <2>3, <2>4, <2>5
<1>4. ASSUME NEW b \in Buffers, NEW n \in 1 .. MaxSize,
             \/ Null(b) /\ Makes(b, BUFFER_pre_build(n), malloc(n))
             \/ Fits(buffer[b].size + n) /\ Makes(b, BUFFER_enlarge(b, n), bytes[b] \o malloc(n))
      PROVE  BufferInv'
  <2>1. n \in Nat OBVIOUS
  <2>2. Holds(buffer[b], bytes[b]) BY DEF BufferInv
  <2>3. Holds(BUFFER_pre_build(n), malloc(n)) BY <2>1, PreBuildHolds
  <2>4. Holds(BUFFER_enlarge(b, n), bytes[b] \o malloc(n)) BY <2>1, <2>2, EnlargeHolds
  <2> QED BY <1>4, <2>3, <2>4, MakesKeeps
<1>5. ASSUME NEW b \in Buffers, NEW n \in 1 .. MaxSize, NEW fromEnd \in BOOLEAN, n <= buffer[b].size,
             Makes(b, BUFFER_shrink(b, n, fromEnd),
                   IF fromEnd THEN SubSeq(bytes[b], 1, Len(bytes[b]) - n) ELSE SubSeq(bytes[b], n + 1, Len(bytes[b])))
      PROVE  BufferInv'
  <2>1. n \in Nat \ {0} OBVIOUS
  <2>2. Holds(buffer[b], bytes[b]) BY DEF BufferInv
  <2>3. n <= Len(bytes[b]) BY <1>5, <2>2, ContentIs
  <2> DEFINE s == IF fromEnd THEN SubSeq(bytes[b], 1, Len(bytes[b]) - n) ELSE SubSeq(bytes[b], n + 1, Len(bytes[b]))
  <2>4. Holds(BUFFER_shrink(b, n, fromEnd), s) BY <2>1, <2>2, <2>3, ShrinkHolds
  <2> HIDE DEF s
  <2>5. Makes(b, BUFFER_shrink(b, n, fromEnd), s) BY <1>5 DEF s
  <2> QED BY <2>4, <2>5, MakesKeeps
<1>6. ASSUME NEW b \in Buffers, NEW x \in Bytes, Makes(b, BUFFER_fill(b, x), [i \in DOMAIN bytes[b] |-> x])
      PROVE  BufferInv'
  <2>1. x \in Cells BY DEF Cells
  <2>2. Holds(buffer[b], bytes[b]) BY DEF BufferInv
  <2>3. Holds(BUFFER_fill(b, x), [i \in DOMAIN bytes[b] |-> x]) BY <2>1, <2>2, FillHolds
  <2> QED BY <1>6, <2>3, MakesKeeps
<1>7. ASSUME NEW b \in Buffers, NEW c \in Buffers \ {b},
             \/ Makes(c, BUFFER_clone(b), bytes[b])
             \/ /\ ~Null(b)
                /\ \/ Makes(b, BUFFER_append(b, c), bytes[b] \o bytes[c])
                   \/ Makes(b, BUFFER_prepend(b, c), bytes[c] \o bytes[b])
      PROVE  BufferInv'
  <2>1. Holds(buffer[b], bytes[b]) /\ Holds(buffer[c], bytes[c]) BY DEF BufferInv
  <2>2. CASE Makes(c, BUFFER_clone(b), bytes[b])
    <3>1. Holds(BUFFER_clone(b), bytes[b]) BY <2>1, CloneHolds
    <3> QED BY <2>2, <3>1, MakesKeeps
  <2>3. CASE ~Null(b) /\ Makes(b, BUFFER_append(b, c), bytes[b] \o bytes[c])
    <3>1. Holds(BUFFER_append(b, c), bytes[b] \o bytes[c]) BY <2>1, <2>3, AppendHolds
    <3> QED BY <2>3, <3>1, MakesKeeps
  <2>4. CASE Makes(b, BUFFER_prepend(b, c), bytes[c] \o bytes[b])
    <3>1. Holds(BUFFER_prepend(b, c), bytes[c] \o bytes[b]) BY <2>1, PrependHolds
    <3> QED BY <2>4, <3>1, MakesKeeps
  <2> QED BY <1>7, <2>2, <2>3, <2>4
<1>8. CASE BufferNext
  <2> SUFFICES ASSUME BufferNext PROVE BufferInv' BY <1>8
  <2>1. PICK b \in Buffers :
          \/ Makes(b, BUFFER_new, <<>>)
          \/ ~Null(b) /\ Makes(b, BUFFER_unbuild, <<>>)
          \/ \E s \in SeqOf(Bytes, MaxSize) :
               \/ Makes(b, BUFFER_create(s), s)
               \/ Makes(b, BUFFER_build(b, s), s)
               \/ /\ s # <<>> /\ Fits(buffer[b].size + Len(s))
                  /\ Makes(b, BUFFER_append_build(b, s), bytes[b] \o s)
          \/ \E n \in 1 .. MaxSize :
               \/ Null(b) /\ Makes(b, BUFFER_pre_build(n), malloc(n))
               \/ Fits(buffer[b].size + n) /\ Makes(b, BUFFER_enlarge(b, n), bytes[b] \o malloc(n))
               \/ \E fromEnd \in BOOLEAN :
                    /\ n <= buffer[b].size
                    /\ Makes(b, BUFFER_shrink(b, n, fromEnd),
                             IF fromEnd THEN SubSeq(bytes[b], 1, Len(bytes[b]) - n)
                             ELSE SubSeq(bytes[b], n + 1, Len(bytes[b])))
          \/ \E x \in Bytes : Makes(b, BUFFER_fill(b, x), [i \in DOMAIN bytes[b] |-> x])
          \/ \E c \in Buffers \ {b} :
               \/ Makes(c, BUFFER_clone(b), bytes[b])
               \/ /\ ~Null(b) /\ ~Null(c) /\ buffer[c].size # 0 /\ Fits(buffer[b].size + buffer[c].size)
                  /\ \/ Makes(b, BUFFER_append(b, c), bytes[b] \o bytes[c])
                     \/ Makes(b, BUFFER_prepend(b, c), bytes[c] \o bytes[b])
    BY Zenon DEF BufferNext
  <2> QED BY <2>1, <1>2, <1>3, <1>4, <1>5, <1>6, <1>7, ZenonT(60)
<1> QED BY <1>1, <1>8

-----------------------------------------------------------------------------
(* Strings.                                                                 *)

Letters == Characters \cup {"quote", "slash", "u", "0", "h", "l"}
Memory == Letters \cup {"nul", Unset}

\* the block holds s, which is ended
Spells(block, s) ==
    /\ s \in Seq(Letters) /\ block \in Seq(Memory) /\ Len(s) + 1 <= Len(block)
    /\ \A i \in 1 .. Len(s) : block[i] = s[i]
    /\ block[Len(s) + 1] = "nul"

LEMMA LetterIs == ASSUME BuffersAssumption, NEW x \in Letters PROVE x # "nul"
BY DEF BuffersAssumption, Letters

\* strlen finds the end
LEMMA EndIs ==
    ASSUME NEW S, NEW block \in Seq(S), NEW n \in Nat, n + 1 <= Len(block), block[n + 1] = "nul",
           \A i \in 1 .. n : block[i] # "nul"
    PROVE  strlen(block) = n /\ SelectInSeq(block, LAMBDA x : x = "nul") = n + 1
<1> DEFINE I == {i \in 1 .. Len(block) : block[i] = "nul"}
<1>1. n + 1 \in I /\ I \in SUBSET Nat OBVIOUS
<1>2. ASSUME NEW i \in I PROVE n + 1 <= i
  <2>1. ~(i \in 1 .. n) BY <1>2
  <2>2. i \in 1 .. Len(block) BY <1>2
  <2> HIDE DEF I
  <2> QED BY <2>1, <2>2
<1>3. SelectInSeq(block, LAMBDA x : x = "nul") = IF I # {} THEN Min(I) ELSE 0 BY DEF SelectInSeq
<1> HIDE DEF I
<1>4. Min(I) \in I /\ Min(I) <= n + 1 BY <1>1, Least
<1>5. Min(I) = n + 1
  <2>1. Min(I) \in Nat BY <1>1, <1>4
  <2> QED BY <1>2, <1>4, <2>1
<1>6. SelectInSeq(block, LAMBDA x : x = "nul") = n + 1 BY <1>1, <1>3, <1>5
<1>7. strlen(block) = n + 1 - 1 BY <1>6 DEF strlen
<1> QED BY <1>6, <1>7

LEMMA SpelledIs ==
    ASSUME BuffersAssumption, NEW block, NEW s, Spells(block, s)
    PROVE  /\ strlen(block) = Len(s) /\ CStr(block) = s /\ block # Overrun /\ block # NULLBlock
           /\ Len(s) \in Nat /\ s \in Seq(Letters)
<1>1. /\ s \in Seq(Letters) /\ block \in Seq(Memory) /\ Len(s) + 1 <= Len(block) /\ Len(s) \in Nat
      /\ \A i \in 1 .. Len(s) : block[i] = s[i]
      /\ block[Len(s) + 1] = "nul"
  BY DEF Spells
<1>2. \A i \in 1 .. Len(s) : block[i] # "nul" BY <1>1, LetterIs
<1>3. strlen(block) = Len(s) BY <1>1, <1>2, EndIs
<1>4. CStr(block) = s
  <2>1. CStr(block) = SubSeq(block, 1, Len(s)) BY <1>3 DEF CStr
  <2>2. SubSeq(block, 1, Len(s)) = s BY <1>1
  <2> QED BY <2>1, <2>2
<1>5. ASSUME block = Overrun \/ block = NULLBlock PROVE FALSE
  <2>1. Len(block) = 1 /\ block[1] \in {"overrun", "NULL"} BY <1>5 DEF Overrun, NULLBlock
  <2>2. Len(s) = 0 BY <1>1, <2>1
  <2>3. block[1] = "nul" BY <1>1, <2>2
  <2> QED BY <2>1, <2>3
<1> QED BY <1>1, <1>3, <1>4, <1>5

LEMMA AszIs ==
    ASSUME NEW s \in Seq(Letters)
    PROVE  /\ Asz(s) \in Seq(Memory) /\ Len(Asz(s)) = Len(s) + 1
           /\ \A i \in 1 .. Len(s) : Asz(s)[i] = s[i]
           /\ Asz(s)[Len(s) + 1] = "nul"
<1>1. s \in Seq(Memory) /\ "nul" \in Memory BY DEF Memory
<1> QED BY <1>1 DEF Asz

\* s is written behind p, and its end behind it
LEMMA Written ==
    ASSUME NEW room \in Seq(Memory), NEW p \in Seq(Letters), NEW s \in Seq(Letters), NEW at \in Nat, at = Len(p),
           at + Len(s) + 1 <= Len(room), \A i \in 1 .. at : room[i] = p[i]
    PROVE  Spells(memcpy(room, at, Asz(s)), p \o s) /\ Len(memcpy(room, at, Asz(s))) = Len(room)
<1> DEFINE z == Asz(s)
           new == memcpy(room, at, z)
           all == p \o s
           n == Len(s)
<1>1. z \in Seq(Memory) /\ Len(z) = n + 1 /\ (\A i \in 1 .. n : z[i] = s[i]) /\ z[n + 1] = "nul" BY AszIs
<1>2. n \in Nat OBVIOUS
<1>3. /\ all \in Seq(Letters) /\ Len(all) = at + n
      /\ \A i \in 1 .. at + n : all[i] = IF i <= at THEN p[i] ELSE s[i - at]
  OBVIOUS
<1> HIDE DEF z, all
<1>4. /\ new \in Seq(Memory) /\ Len(new) = Len(room)
      /\ \A i \in 1 .. Len(room) : new[i] = IF at < i /\ i <= at + Len(z) THEN z[i - at] ELSE room[i]
  <2>1. at + Len(z) <= Len(room) BY <1>1, <1>2
  <2>2. z \in Seq(Memory) BY <1>1
  <2>3. new = memcpy(room, at, z) OBVIOUS
  <2> HIDE DEF new
  <2> QED BY <2>1, <2>2, <2>3, MemcpyIs
<1> HIDE DEF new
<1>5. ASSUME NEW i \in 1 .. at + n PROVE new[i] = all[i]
  <2>1. i \in 1 .. Len(room) BY <1>2
  <2>2. CASE i <= at
    <3>1. new[i] = room[i] BY <1>4, <2>1, <2>2
    <3>2. room[i] = p[i] BY <2>2
    <3> QED BY <1>3, <2>2, <3>1, <3>2
  <2>3. CASE ~(i <= at)
    <3>1. new[i] = z[i - at] BY <1>1, <1>2, <1>4, <2>1, <2>3
    <3>2. i - at \in 1 .. n BY <1>2, <2>3
    <3>3. z[i - at] = s[i - at] BY <1>1, <3>2
    <3> QED BY <1>3, <2>3, <3>1, <3>3
  <2> QED BY <2>2, <2>3
<1>6. new[at + n + 1] = "nul"
  <2>1. at + n + 1 \in 1 .. Len(room) BY <1>2 DEF n
  <2>2. at < at + n + 1 /\ at + n + 1 <= at + Len(z) /\ at + n + 1 - at = n + 1 BY <1>1, <1>2
  <2>3. new[at + n + 1] = z[at + n + 1 - at] BY <1>4, <2>1, <2>2
  <2> QED BY <1>1, <2>2, <2>3
<1>7. Spells(new, all)
  <2>1. Len(all) + 1 <= Len(new) BY <1>2, <1>3, <1>4
  <2> QED BY <1>3, <1>4, <1>5, <1>6, <2>1 DEF Spells
<1> QED BY <1>4, <1>7 DEF new, all, z

\* a string in a block of its own
LEMMA Constructed ==
    ASSUME NEW s \in Seq(Letters), NEW room \in Seq(Memory), Len(s) + 1 <= Len(room)
    PROVE  Spells(memcpy(room, 0, Asz(s)), s) /\ Len(memcpy(room, 0, Asz(s))) = Len(room)
<1> DEFINE p == <<>>
<1>1. p \in Seq(Letters) /\ Len(p) = 0 /\ p \o s = s OBVIOUS
<1>2. \A i \in 1 .. 0 : room[i] = p[i] OBVIOUS
<1> HIDE DEF p
<1>3. 0 \in Nat /\ 0 + Len(s) + 1 <= Len(room) OBVIOUS
<1> QED BY <1>1, <1>2, <1>3, Written

LEMMA Room ==
    ASSUME NEW n \in Nat
    PROVE  malloc(n) \in Seq(Memory) /\ Len(malloc(n)) = n
<1>1. Unset \in Memory BY DEF Memory
<1> QED BY <1>1, MallocIs

\* the block of a string, grown or cut
LEMMA BlockKept ==
    ASSUME BuffersAssumption, NEW block, NEW s, Spells(block, s), NEW n \in Nat
    PROVE  /\ realloc(block, n) \in Seq(Memory) /\ Len(realloc(block, n)) = n
           /\ \A i \in 1 .. Len(s) : i <= n => realloc(block, n)[i] = s[i]
<1>1. Unset \in Memory BY DEF Memory
<1>2. block # NULLBlock /\ Len(s) \in Nat BY SpelledIs
<1>3. /\ block \in Seq(Memory) /\ Len(s) + 1 <= Len(block) /\ \A i \in 1 .. Len(s) : block[i] = s[i] BY DEF Spells
<1> DEFINE new == realloc(block, n)
<1>4. /\ new \in Seq(Memory) /\ Len(new) = n
      /\ \A i \in 1 .. n : new[i] = IF block # NULLBlock /\ i <= Len(block) THEN block[i] ELSE Unset
  BY <1>1, <1>3, ReallocIs
<1> HIDE DEF new
<1>5. ASSUME NEW i \in 1 .. Len(s), i <= n PROVE new[i] = s[i]
  <2>1. i \in 1 .. n /\ i <= Len(block) BY <1>2, <1>3, <1>5
  <2> QED BY <1>2, <1>3, <1>4, <2>1
<1> QED BY <1>4, <1>5 DEF new

LEMMA ConcatSpells ==
    ASSUME BuffersAssumption, Spells(str, text), NEW s \in Seq(Letters)
    PROVE  /\ Spells(STRING_concat(s), text \o s)
           /\ Spells(STRING_concat_with_STRING(s), text \o s)
           /\ Spells(STRING_sprintf(s), text \o s)
           /\ Spells(STRING_sprintf_undone(s), text)
<1> DEFINE n == Len(text)
           room == realloc(str, n + Len(s) + 1)
<1>1. strlen(str) = n /\ n \in Nat /\ text \in Seq(Letters) BY SpelledIs
<1>2. n + Len(s) + 1 \in Nat BY <1>1
<1>3. /\ room \in Seq(Memory) /\ Len(room) = n + Len(s) + 1
      /\ \A i \in 1 .. n : i <= n + Len(s) + 1 => room[i] = text[i]
  BY <1>2, BlockKept
<1> HIDE DEF room
<1>4. \A i \in 1 .. n : room[i] = text[i] BY <1>1, <1>3
<1>5. Spells(memcpy(room, n, Asz(s)), text \o s) BY <1>1, <1>3, <1>4, Written, SMTT(60)
<1>6. STRING_concat(s) = memcpy(room, n, Asz(s)) /\ STRING_concat_with_STRING(s) = memcpy(room, n, Asz(s))
  BY <1>1 DEF STRING_concat, STRING_concat_with_STRING, room
<1>7. Spells(STRING_sprintf(s), text \o s)
  <2>1. CASE s = <<>>
    <3>1. text \o s = text BY <1>1, <2>1
    <3> QED BY <2>1, <3>1 DEF STRING_sprintf
  <2>2. CASE s # <<>> BY <1>1, <1>5, <2>2 DEF STRING_sprintf, room
  <2> QED BY <2>1, <2>2
<1>8. Spells(STRING_sprintf_undone(s), text)
  <2> DEFINE begun == memcpy(room, n, s)
  <2>1. s \in Seq(Memory) BY DEF Memory
  <2>2. /\ begun \in Seq(Memory) /\ Len(begun) = Len(room)
        /\ \A i \in 1 .. Len(room) : begun[i] = IF n < i /\ i <= n + Len(s) THEN s[i - n] ELSE room[i]
    <3>1. n + Len(s) <= Len(room) BY <1>1, <1>3
    <3> QED BY <1>1, <1>3, <2>1, <3>1, MemcpyIs
  <2> HIDE DEF begun
  <2>3. \A i \in 1 .. n : begun[i] = text[i] BY <1>1, <1>3, <1>4, <2>2
  <2> DEFINE e == <<>>
  <2>4. e \in Seq(Letters) /\ Len(e) = 0 /\ text \o e = text /\ Asz(e) = <<"nul">> BY <1>1 DEF Asz
  <2> HIDE DEF e
  <2>5. n + Len(e) + 1 <= Len(begun) BY <1>1, <1>3, <2>2, <2>4
  <2>6. Spells(memcpy(begun, n, Asz(e)), text \o e) BY <1>1, <2>2, <2>3, <2>4, <2>5, Written
  <2>7. STRING_sprintf_undone(s) = memcpy(begun, n, <<"nul">>) BY <1>1 DEF STRING_sprintf_undone, begun, room
  <2> QED BY <2>4, <2>6, <2>7
<1> QED BY <1>5, <1>6, <1>7, <1>8

LEMMA PairIs == ASSUME NEW a, NEW b PROVE Append(<<a>>, b) = <<a, b>>
<1> DEFINE s == Append(<<a>>, b)
           t == <<a, b>>
<1>1. s \in Seq({a, b}) /\ t \in Seq({a, b}) /\ Len(s) = 2 /\ Len(t) = 2 OBVIOUS
<1>2. \A i \in 1 .. 2 : s[i] = t[i] OBVIOUS
<1> HIDE DEF s, t
<1>3. s = t BY <1>1, <1>2, SameCells
<1> QED BY <1>3 DEF s, t

LEMMA QuoteSpells ==
    ASSUME BuffersAssumption, Spells(str, text)
    PROVE  Spells(STRING_quote, <<"quote">> \o text \o <<"quote">>)
<1> DEFINE n == Len(text)
           room == realloc(str, n + 3)
           moved == memcpy(room, 1, text)
           begun == memcpy(moved, 0, <<"quote">>)
           p == <<"quote">> \o text
           q == <<"quote">>
<1>1. strlen(str) = n /\ n \in Nat /\ text \in Seq(Letters) /\ CStr(str) = text BY SpelledIs
<1>2. /\ room \in Seq(Memory) /\ Len(room) = n + 3
  <2>1. n + 3 \in Nat BY <1>1
  <2> QED BY <2>1, BlockKept
<1> HIDE DEF room
<1>3. q \in Seq(Letters) /\ Len(q) = 1 /\ q[1] = "quote" /\ "quote" \in Letters BY DEF Letters
<1>4. text \in Seq(Memory) /\ q \in Seq(Memory)
  <2>1. Letters \subseteq Memory BY DEF Memory
  <2> HIDE DEF q
  <2> QED BY <1>1, <1>3, <2>1
<1>5. /\ moved \in Seq(Memory) /\ Len(moved) = n + 3
      /\ \A i \in 1 .. n + 3 : moved[i] = IF 1 < i /\ i <= 1 + n THEN text[i - 1] ELSE room[i]
  <2>1. 1 \in Nat /\ 1 + Len(text) <= Len(room) BY <1>1, <1>2
  <2> QED BY <1>2, <1>4, <2>1, MemcpyIs
<1> HIDE DEF moved
<1>6. p \in Seq(Letters) /\ Len(p) = n + 1 /\ \A i \in 1 .. n + 1 : p[i] = IF i = 1 THEN "quote" ELSE text[i - 1]
  BY <1>1, <1>3
<1>7. Asz(q) = <<"quote", "nul">>
  <2>1. Append(<<"quote">>, "nul") = <<"quote", "nul">> BY PairIs
  <2> QED BY <2>1 DEF Asz, q
<1> HIDE DEF p, q
<1>8. /\ begun \in Seq(Memory) /\ Len(begun) = n + 3
      /\ \A i \in 1 .. n + 3 : begun[i] = IF 0 < i /\ i <= 0 + 1 THEN q[i - 0] ELSE moved[i]
  <2>1. 0 \in Nat /\ 0 + Len(q) <= Len(moved) BY <1>1, <1>3, <1>5
  <2>2. begun = memcpy(moved, 0, q) BY DEF q
  <2> HIDE DEF begun
  <2>3. /\ begun \in Seq(Memory) /\ Len(begun) = Len(moved)
        /\ \A i \in 1 .. Len(moved) : begun[i] = IF 0 < i /\ i <= 0 + Len(q) THEN q[i - 0] ELSE moved[i]
    BY <1>4, <1>5, <2>1, <2>2, MemcpyIs
  <2> QED BY <1>3, <1>5, <2>3
<1> HIDE DEF begun
<1> HIDE DEF n
<1>9. ASSUME NEW i \in 1 .. n + 1 PROVE begun[i] = p[i]
  <2>1. i \in 1 .. n + 3 BY <1>1
  <2>2. CASE i = 1 BY <1>3, <1>6, <1>8, <2>1, <2>2
  <2>3. CASE i # 1
    <3>1. 1 < i /\ i <= 1 + n /\ ~(i <= 0 + 1) BY <1>1, <2>3
    <3>2. begun[i] = moved[i] /\ moved[i] = text[i - 1] BY <1>5, <1>8, <2>1, <3>1
    <3> QED BY <1>6, <2>3, <3>2
  <2> QED BY <2>2, <2>3
<1>10. n + 1 \in Nat /\ n + 1 + Len(q) + 1 <= Len(begun) BY <1>1, <1>3, <1>8
<1>11. Spells(memcpy(begun, n + 1, Asz(q)), p \o q) BY <1>3, <1>6, <1>8, <1>9, <1>10, Written
<1>12. STRING_quote = memcpy(begun, n + 1, <<"quote", "nul">>) BY <1>1 DEF STRING_quote, begun, moved, room, n
<1> QED BY <1>7, <1>11, <1>12 DEF p, q

LEMMA CopySpells ==
    ASSUME BuffersAssumption, Spells(str, text), NEW s \in Seq(Letters), NEW n \in Nat
    PROVE  /\ Spells(STRING_copy(s), s)
           /\ Spells(STRING_copy_n(s, n), SubSeq(s, 1, IF n < Len(s) THEN n ELSE Len(s)))
<1>1. Spells(STRING_copy(s), s)
  <2> DEFINE room == realloc(str, Len(s) + 1)
  <2>1. Len(s) + 1 \in Nat OBVIOUS
  <2>2. room \in Seq(Memory) /\ Len(room) = Len(s) + 1 BY <2>1, BlockKept
  <2> HIDE DEF room
  <2>3. Spells(memcpy(room, 0, Asz(s)), s) BY <2>2, Constructed
  <2> QED BY <2>3 DEF STRING_copy, room
<1>2. Spells(STRING_copy_n(s, n), SubSeq(s, 1, IF n < Len(s) THEN n ELSE Len(s)))
  <2> DEFINE k == IF Len(s) > n THEN n ELSE Len(s)
             room == realloc(str, k + 1)
             p == SubSeq(s, 1, k)
             begun == memcpy(room, 0, p)
             e == <<>>
  <2>1. k \in Nat /\ k <= Len(s) /\ k = (IF n < Len(s) THEN n ELSE Len(s)) OBVIOUS
  <2> HIDE DEF k
  <2>2. room \in Seq(Memory) /\ Len(room) = k + 1
    <3>1. k + 1 \in Nat BY <2>1
    <3> QED BY <3>1, BlockKept
  <2> HIDE DEF room
  <2>3. p \in Seq(Letters) /\ Len(p) = k BY <2>1
  <2> HIDE DEF p
  <2>4. /\ begun \in Seq(Memory) /\ Len(begun) = Len(room)
        /\ \A i \in 1 .. Len(room) : begun[i] = IF 0 < i /\ i <= 0 + Len(p) THEN p[i - 0] ELSE room[i]
    <3>1. p \in Seq(Memory)
      <4>1. Letters \subseteq Memory BY DEF Memory
      <4> QED BY <2>3, <4>1
    <3>2. 0 \in Nat /\ 0 + Len(p) <= Len(room) BY <2>1, <2>2, <2>3
    <3> QED BY <2>2, <3>1, <3>2, MemcpyIs
  <2> HIDE DEF begun
  <2>5. ASSUME NEW i \in 1 .. k PROVE begun[i] = p[i]
    <3>1. i \in 1 .. Len(room) BY <2>1, <2>2
    <3> QED BY <2>1, <2>3, <2>4, <3>1
  <2>6. e \in Seq(Letters) /\ Len(e) = 0 /\ p \o e = p /\ Asz(e) = <<"nul">> BY <2>3 DEF Asz
  <2> HIDE DEF e
  <2>7. k + Len(e) + 1 <= Len(begun) BY <2>1, <2>2, <2>4, <2>6
  <2>8. Spells(memcpy(begun, k, Asz(e)), p \o e) BY <2>1, <2>3, <2>4, <2>5, <2>6, <2>7, Written
  <2>9. STRING_copy_n(s, n) = memcpy(begun, k, <<"nul">>) BY DEF STRING_copy_n, begun, room, p, k
  <2> QED BY <2>1, <2>6, <2>8, <2>9 DEF p
<1> QED BY <1>1, <1>2

LEMMA ConstructSpells ==
    ASSUME NEW s \in Seq(Letters), NEW n \in Nat, n <= Len(s)
    PROVE  /\ Spells(STRING_construct(s), s)
           /\ Spells(STRING_construct_n(s, n), SubSeq(s, 1, n))
           /\ Spells(STRING_new_quoted(s), <<"quote">> \o s \o <<"quote">>)
<1>1. Spells(STRING_construct(s), s)
  <2>1. Len(s) + 1 \in Nat OBVIOUS
  <2> DEFINE room == malloc(Len(s) + 1)
  <2>2. room \in Seq(Memory) /\ Len(room) = Len(s) + 1 BY <2>1, Room
  <2> HIDE DEF room
  <2>3. Len(s) + 1 <= Len(room) BY <2>1, <2>2
  <2> QED BY <2>2, <2>3, Constructed DEF STRING_construct, room
<1>2. Spells(STRING_construct_n(s, n), SubSeq(s, 1, n))
  <2>1. Len(s) + 1 \in Nat OBVIOUS
  <2> DEFINE room == malloc(Len(s) + 1)
             p == SubSeq(s, 1, n)
  <2>2. room \in Seq(Memory) /\ Len(room) = Len(s) + 1 BY <2>1, Room
  <2> HIDE DEF room
  <2>3. p \in Seq(Letters) /\ Len(p) = n OBVIOUS
  <2> HIDE DEF p
  <2>4. Len(p) + 1 <= Len(room) BY <2>1, <2>2, <2>3
  <2>5. Spells(memcpy(room, 0, Asz(p)), p) BY <2>2, <2>3, <2>4, Constructed
  <2> QED BY <2>5 DEF STRING_construct_n, room, p
<1>3. Spells(STRING_new_quoted(s), <<"quote">> \o s \o <<"quote">>)
  <2> DEFINE room == malloc(Len(s) + 3)
             p == <<"quote">> \o s \o <<"quote">>
  <2>1. Len(s) + 3 \in Nat OBVIOUS
  <2>2. room \in Seq(Memory) /\ Len(room) = Len(s) + 3 BY <2>1, Room
  <2> HIDE DEF room
  <2>3. p \in Seq(Letters) /\ Len(p) = Len(s) + 2
    <3>1. <<"quote">> \in Seq(Letters) BY DEF Letters
    <3> QED BY <3>1
  <2> HIDE DEF p
  <2>4. Len(p) + 1 <= Len(room) BY <2>1, <2>2, <2>3
  <2>5. Spells(memcpy(room, 0, Asz(p)), p) BY <2>2, <2>3, <2>4, Constructed
  <2> QED BY <2>5 DEF STRING_new_quoted, room, p
<1> QED BY <1>1, <1>2, <1>3

LEMMA CloneSpells ==
    ASSUME BuffersAssumption, Spells(str, text)
    PROVE  Spells(STRING_clone, text)
<1>1. strlen(str) = Len(text) /\ CStr(str) = text /\ text \in Seq(Letters) /\ Len(text) \in Nat BY SpelledIs
<1>2. STRING_clone = STRING_construct(text) BY <1>1 DEF STRING_clone, STRING_construct
<1> QED BY <1>1, <1>2, ConstructSpells

LEMMA EmptySpells ==
    ASSUME BuffersAssumption, Spells(str, text)
    PROVE  Spells(STRING_empty, <<>>)
<1> DEFINE room == realloc(str, 1)
           e == <<>>
<1>1. room \in Seq(Memory) /\ Len(room) = 1 BY BlockKept
<1> HIDE DEF room
<1>2. e \in Seq(Letters) /\ Len(e) = 0 /\ Asz(e) = <<"nul">> BY DEF Asz
<1> HIDE DEF e
<1>3. Len(e) + 1 <= Len(room) BY <1>1, <1>2
<1>4. Spells(memcpy(room, 0, Asz(e)), e) BY <1>1, <1>2, <1>3, Constructed
<1> QED BY <1>2, <1>4 DEF STRING_empty, room, e

LEMMA NewSpells == Spells(STRING_new, <<>>)
<1>1. "nul" \in Memory BY DEF Memory
<1> QED BY <1>1 DEF Spells, STRING_new

\* a character replaced by another: neither is the end
LEMMA ReplaceSpells ==
    ASSUME BuffersAssumption, Spells(str, text), NEW x \in Letters, NEW y \in Letters
    PROVE  Spells(STRING_replace(x, y), [i \in DOMAIN text |-> IF text[i] = x THEN y ELSE text[i]])
<1> DEFINE n == Len(text)
           new == STRING_replace(x, y)
           all == [i \in DOMAIN text |-> IF text[i] = x THEN y ELSE text[i]]
<1>1. strlen(str) = n /\ n \in Nat /\ text \in Seq(Letters) BY SpelledIs
<1>2. /\ str \in Seq(Memory) /\ n + 1 <= Len(str) /\ \A i \in 1 .. n : str[i] = text[i]
      /\ str[n + 1] = "nul"
  BY DEF Spells
<1>3. DOMAIN text = 1 .. n /\ DOMAIN str = 1 .. Len(str) /\ Letters \subseteq Memory BY <1>1, <1>2 DEF Memory
<1>4. all \in Seq(Letters) /\ Len(all) = n /\ \A i \in 1 .. n : all[i] = IF text[i] = x THEN y ELSE text[i]
  BY <1>1, <1>3
<1>5. \A i \in 1 .. Len(str) : new[i] = (IF i <= n /\ str[i] = x THEN y ELSE str[i]) /\ new[i] \in Memory
  BY <1>1, <1>2, <1>3 DEF STRING_replace
<1>6. new \in Seq(Memory) /\ Len(new) = Len(str)
  <2>1. new \in [1 .. Len(str) -> Memory] BY <1>3, <1>5 DEF STRING_replace
  <2> HIDE DEF new
  <2> QED BY <1>2, <2>1
<1> HIDE DEF new, all, n
<1>7. \A i \in 1 .. n : new[i] = all[i]
  <2>1. ASSUME NEW i \in 1 .. n PROVE new[i] = all[i]
    <3>1. i \in 1 .. Len(str) BY <1>1, <1>2
    <3> QED BY <1>2, <1>4, <1>5, <3>1
  <2> QED BY <2>1
<1>8. new[n + 1] = "nul"
  <2>1. n + 1 \in 1 .. Len(str) /\ ~(n + 1 <= n) BY <1>1, <1>2
  <2> QED BY <1>2, <1>5, <2>1
<1>9. Len(all) + 1 <= Len(new) BY <1>1, <1>2, <1>4, <1>6
<1> QED BY <1>4, <1>6, <1>7, <1>8, <1>9 DEF Spells, new, all

\* the string that a byte array holds ends at its first zero
LEMMA BytesSpell ==
    ASSUME BuffersAssumption, NEW s \in Seq(Letters \cup {"nul"})
    PROVE  Spells(STRING_from_byte_array(s), BeforeNul(s))
<1> DEFINE N == Len(s)
           z == Asz(s)
           room == malloc(N + 1)
           block == memcpy(room, 0, z)
           i == SelectInSeq(s, LAMBDA x : x = "nul")
<1>1. N \in Nat /\ N + 1 \in Nat OBVIOUS
<1>2. z \in Seq(Memory) /\ Len(z) = N + 1 /\ (\A j \in 1 .. N : z[j] = s[j]) /\ z[N + 1] = "nul"
  <2>1. s \in Seq(Memory) /\ "nul" \in Memory
    <3>1. Letters \cup {"nul"} \subseteq Memory BY DEF Memory
    <3> QED BY <3>1
  <2> QED BY <2>1 DEF Asz
<1> HIDE DEF z
<1>3. room \in Seq(Memory) /\ Len(room) = N + 1 BY <1>1, Room
<1> HIDE DEF room
<1>4. block \in Seq(Memory) /\ Len(block) = N + 1 /\ \A j \in 1 .. N + 1 : block[j] = z[j]
  <2>1. 0 \in Nat /\ 0 + Len(z) <= Len(room) BY <1>1, <1>2, <1>3
  <2>2. /\ block \in Seq(Memory) /\ Len(block) = Len(room)
        /\ \A j \in 1 .. Len(room) : block[j] = IF 0 < j /\ j <= 0 + Len(z) THEN z[j - 0] ELSE room[j]
    BY <1>2, <1>3, <2>1, MemcpyIs
  <2> HIDE DEF block
  <2> QED BY <1>1, <1>2, <1>3, <2>2
<1> HIDE DEF block
<1> DEFINE I == {j \in 1 .. N : s[j] = "nul"}
<1>5. i = IF I # {} THEN Min(I) ELSE 0 BY DEF SelectInSeq
<1>6. I \in SUBSET Nat OBVIOUS
<1> HIDE DEF i
<1>7. CASE I = {}
  <2>1. i = 0 BY <1>5, <1>7
  <2>2. \A j \in 1 .. N : s[j] \in Letters BY <1>7
  <2>3. s \in Seq(Letters)
    <3> HIDE DEF I
    <3> QED BY <2>2
  <2>4. BeforeNul(s) = s BY <2>1 DEF BeforeNul, i
  <2>5. Spells(block, s)
    <3>1. Len(s) + 1 <= Len(block) BY <1>1, <1>4
    <3>2. \A j \in 1 .. Len(s) : block[j] = s[j] BY <1>1, <1>2, <1>4
    <3>3. block[Len(s) + 1] = "nul" BY <1>1, <1>2, <1>4
    <3> QED BY <2>3, <1>4, <3>1, <3>2, <3>3 DEF Spells
  <2> QED BY <2>4, <2>5 DEF STRING_from_byte_array, block, room, z
<1>8. CASE I # {}
  <2>1. i = Min(I) /\ Min(I) \in I /\ \A j \in I : Min(I) <= j BY <1>5, <1>6, <1>8, Least
  <2>2. i \in 1 .. N /\ s[i] = "nul" BY <2>1
  <2>3. ASSUME NEW j \in 1 .. i - 1 PROVE s[j] \in Letters
    <3>1. j \in 1 .. N /\ ~(i <= j) BY <1>1, <2>2
    <3>2. j \notin I BY <2>1, <3>1
    <3> QED BY <3>1, <3>2
  <2> DEFINE p == SubSeq(s, 1, i - 1)
  <2>4. BeforeNul(s) = p BY <2>2 DEF BeforeNul, i
  <2>5. p \in Seq(Letters) /\ Len(p) = i - 1 /\ \A j \in 1 .. i - 1 : p[j] = s[j]
    <3> HIDE DEF I
    <3>1. Len(p) = i - 1 /\ p \in Seq(Letters \cup {"nul"}) /\ \A j \in 1 .. i - 1 : p[j] = s[j] BY <1>1, <2>2
    <3>2. \A j \in 1 .. i - 1 : p[j] \in Letters BY <2>3, <3>1
    <3> HIDE DEF p
    <3> QED BY <3>1, <3>2
  <2> HIDE DEF p
  <2>6. Spells(block, p)
    <3>1. Len(p) + 1 <= Len(block) BY <1>1, <1>4, <2>2, <2>5
    <3>2. ASSUME NEW j \in 1 .. Len(p) PROVE block[j] = p[j]
      <4>1. j \in 1 .. i - 1 /\ j \in 1 .. N /\ j \in 1 .. N + 1 BY <1>1, <2>2, <2>5
      <4> QED BY <1>2, <1>4, <2>5, <4>1
    <3>3. block[Len(p) + 1] = "nul" BY <1>1, <1>2, <1>4, <2>2, <2>5
    <3> QED BY <2>5, <1>4, <3>1, <3>2, <3>3 DEF Spells
  <2> QED BY <2>4, <2>6 DEF STRING_from_byte_array, block, room, z
<1> QED BY <1>7, <1>8

-----------------------------------------------------------------------------
(* Strings: what is written for JSON.                                       *)

\* the fold that FlattenSeq is, of the first n
JoinedTo(e, n, f) == f = [i \in 1 .. n |-> IF i = 1 THEN e[i] ELSE f[i - 1] \o e[i]]

LEMMA JoinExists ==
    ASSUME NEW e, NEW n \in Nat
    PROVE  \E f : JoinedTo(e, n, f)
<1> DEFINE Bad == {m \in Nat : ~\E f : JoinedTo(e, m, f)}
<1>1. ASSUME Bad # {} PROVE FALSE
  <2>1. Bad \in SUBSET Nat OBVIOUS
  <2> DEFINE m == Min(Bad)
  <2>2. m \in Bad /\ \A k \in Bad : m <= k
    <3> HIDE DEF Bad
    <3> QED BY <1>1, <2>1, Least
  <2> HIDE DEF m
  <2>3. m \in Nat /\ ~\E f : JoinedTo(e, m, f) BY <2>2
  <2>4. m # 0
    <3> DEFINE f == [i \in 1 .. 0 |-> e]
    <3>1. f = [i \in 1 .. 0 |-> IF i = 1 THEN e[i] ELSE f[i - 1] \o e[i]] OBVIOUS
    <3>2. JoinedTo(e, 0, f) BY <3>1 DEF JoinedTo
    <3> QED BY <2>3, <3>2
  <2>5. m - 1 \in Nat /\ m - 1 \notin Bad BY <2>2, <2>3, <2>4
  <2>6. PICK g : JoinedTo(e, m - 1, g) BY <2>5
  <2> DEFINE f == [i \in 1 .. m |-> IF i < m THEN g[i] ELSE IF i = 1 THEN e[i] ELSE g[i - 1] \o e[i]]
  <2>7. ASSUME NEW i \in 1 .. m PROVE f[i] = IF i = 1 THEN e[i] ELSE f[i - 1] \o e[i]
    <3>1. CASE i < m
      <4>1. i \in 1 .. m - 1 BY <2>3, <3>1
      <4>2. g[i] = IF i = 1 THEN e[i] ELSE g[i - 1] \o e[i] BY <2>6, <4>1 DEF JoinedTo
      <4>3. f[i] = g[i] BY <3>1
      <4>4. i # 1 => f[i - 1] = g[i - 1]
        <5>1. i # 1 => i - 1 \in 1 .. m /\ i - 1 < m BY <2>3, <3>1
        <5> QED BY <5>1
      <4> QED BY <4>2, <4>3, <4>4
    <3>2. CASE ~(i < m)
      <4>1. i = m BY <2>3, <3>2
      <4>2. f[i] = IF i = 1 THEN e[i] ELSE g[i - 1] \o e[i] BY <3>2
      <4>3. i # 1 => f[i - 1] = g[i - 1]
        <5>1. i # 1 => i - 1 \in 1 .. m /\ i - 1 < m BY <2>3, <4>1
        <5> QED BY <5>1
      <4> QED BY <4>2, <4>3
    <3> QED BY <3>1, <3>2
  <2>8. JoinedTo(e, m, f)
    <3>1. f = [i \in 1 .. m |-> f[i]] OBVIOUS
    <3> HIDE DEF f
    <3>2. [i \in 1 .. m |-> f[i]] = [i \in 1 .. m |-> IF i = 1 THEN e[i] ELSE f[i - 1] \o e[i]] BY <2>7
    <3> QED BY <3>1, <3>2 DEF JoinedTo
  <2> QED BY <2>3, <2>8
<1> QED BY <1>1

\* how many of the first n are in S
Count(s, S, n) == Cardinality({i \in 1 .. n : s[i] \in S})

LEMMA CountIs ==
    ASSUME NEW s, NEW S, NEW n \in Nat
    PROVE  /\ Count(s, S, n) \in Nat /\ Count(s, S, 0) = 0
           /\ Count(s, S, n + 1) = Count(s, S, n) + (IF s[n + 1] \in S THEN 1 ELSE 0)
<1> DEFINE C(m) == {i \in 1 .. m : s[i] \in S}
<1>1. ASSUME NEW m \in Nat PROVE IsFiniteSet(C(m)) /\ Cardinality(C(m)) \in Nat
  <2>1. IsFiniteSet(1 .. m) BY FS_Interval
  <2>2. C(m) \subseteq 1 .. m OBVIOUS
  <2> QED BY <2>1, <2>2, FS_Subset, FS_CardinalityType
<1>2. C(0) = {} OBVIOUS
<1>3. Cardinality(C(n + 1)) = Cardinality(C(n)) + (IF s[n + 1] \in S THEN 1 ELSE 0)
  <2>1. CASE s[n + 1] \in S
    <3>1. C(n + 1) = C(n) \cup {n + 1} /\ n + 1 \notin C(n) BY <2>1
    <3> HIDE DEF C
    <3> QED BY <1>1, <2>1, <3>1, FS_AddElement
  <2>2. CASE s[n + 1] \notin S
    <3>1. C(n + 1) = C(n)
      <4>1. \A i \in Int : i \in 1 .. n + 1 /\ i # n + 1 <=> i \in 1 .. n OBVIOUS
      <4> QED BY <2>2, <4>1
    <3> HIDE DEF C
    <3>2. Cardinality(C(n)) \in Nat BY <1>1
    <3> QED BY <2>2, <3>1, <3>2
  <2> QED BY <2>1, <2>2
<1> QED BY <1>1, <1>2, <1>3, FS_EmptySet DEF Count

LEMMA CountNext ==
    ASSUME NEW s, NEW S, NEW i \in Nat, i # 0
    PROVE  Count(s, S, i) = Count(s, S, i - 1) + (IF s[i] \in S THEN 1 ELSE 0)
<1> DEFINE j == i - 1
<1>1. j \in Nat /\ j + 1 = i OBVIOUS
<1> HIDE DEF j
<1>2. Count(s, S, j + 1) = Count(s, S, j) + (IF s[j + 1] \in S THEN 1 ELSE 0) BY <1>1, CountIs
<1> QED BY <1>1, <1>2 DEF j

LEMMA EscapeIs ==
    ASSUME NEW x \in Letters
    PROVE  /\ Escape(x) \in Seq(Letters)
           /\ Len(Escape(x)) = 1 + 5 * (IF x \in {"control"} THEN 1 ELSE 0) + (IF x \in {"quote", "slash"} THEN 1 ELSE 0)
<1>1. {"slash", "u", "0", "h", "l"} \subseteq Letters BY DEF Letters
<1>2. CASE x = "control"
  <2>1. Escape(x) = <<"slash", "u", "0", "0", "h", "l">> BY <1>2 DEF Escape
  <2>2. x \in {"control"} /\ x \notin {"quote", "slash"} BY <1>2
  <2>3. <<"slash", "u", "0", "0", "h", "l">> \in Seq(Letters) BY <1>1
  <2>4. Len(<<"slash", "u", "0", "0", "h", "l">>) = 6 OBVIOUS
  <2> QED BY <2>1, <2>2, <2>3, <2>4
<1>3. CASE x \in {"quote", "slash"}
  <2>1. Escape(x) = <<"slash", x>> BY <1>3 DEF Escape
  <2>2. x # "control" BY <1>3
  <2> QED BY <1>1, <1>3, <2>1, <2>2
<1>4. CASE x # "control" /\ x \notin {"quote", "slash"}
  <2>1. Escape(x) = <<x>> BY <1>4 DEF Escape
  <2> QED BY <1>4, <2>1
<1> QED BY <1>2, <1>3, <1>4

\* the length of what is written is what was counted
LEMMA FlattenIs ==
    ASSUME NEW s \in Seq(Letters)
    PROVE  LET flat == FlattenSeq([i \in DOMAIN s |-> Escape(s[i])])
           IN  /\ flat \in Seq(Letters)
               /\ Len(flat) = Len(s) + 5 * Count(s, {"control"}, Len(s)) + Count(s, {"quote", "slash"}, Len(s))
<1> DEFINE n == Len(s)
           e == [i \in DOMAIN s |-> Escape(s[i])]
           f == CHOOSE g : JoinedTo(e, n, g)
           Due(i) == i + 5 * Count(s, {"control"}, i) + Count(s, {"quote", "slash"}, i)
<1>1. n \in Nat /\ DOMAIN s = 1 .. n OBVIOUS
<1>2. e \in Seq(Seq(Letters)) /\ Len(e) = n /\ \A i \in 1 .. n : e[i] = Escape(s[i])
  <2>1. \A i \in 1 .. n : Escape(s[i]) \in Seq(Letters) /\ e[i] = Escape(s[i]) BY <1>1, EscapeIs
  <2>2. e \in [1 .. n -> Seq(Letters)] BY <1>1, <2>1
  <2> HIDE DEF e
  <2> QED BY <1>1, <2>1, <2>2
<1>3. CASE n = 0
  <2>1. FlattenSeq(e) = e BY <1>2, <1>3 DEF FlattenSeq
  <2>2. e = <<>> BY <1>1, <1>3
  <2>3. Count(s, {"control"}, 0) = 0 /\ Count(s, {"quote", "slash"}, 0) = 0 BY CountIs
  <2>4. FlattenSeq(e) = <<>> BY <2>1, <2>2
  <2>5. Due(n) = 0 BY <1>3, <2>3
  <2>6. FlattenSeq(e) \in Seq(Letters) /\ Len(FlattenSeq(e)) = 0 BY <2>4
  <2> HIDE DEF e, Due
  <2>7. FlattenSeq(e) \in Seq(Letters) /\ Len(FlattenSeq(e)) = Due(n) BY <2>5, <2>6
  <2> QED BY <2>7 DEF Due, e
<1>4. CASE n # 0
  <2>1. FlattenSeq(e) = f[n]
    <3>1. FlattenSeq(e) = (CHOOSE g : g = [i \in 1 .. Len(e) |-> IF i = 1 THEN e[i] ELSE g[i - 1] \o e[i]])[Len(e)]
      <4> HIDE DEF e, n
      <4> QED BY <1>2, <1>4 DEF FlattenSeq
    <3> HIDE DEF e, n
    <3> QED BY <1>2, <3>1 DEF JoinedTo
  <2>2. JoinedTo(e, n, f)
    <3> HIDE DEF e, n
    <3> QED BY <1>1, JoinExists
  <2> HIDE DEF f
  <2>3. \A i \in 1 .. n : f[i] = IF i = 1 THEN e[i] ELSE f[i - 1] \o e[i]
    <3> HIDE DEF e
    <3> QED BY <2>2 DEF JoinedTo
  <2> DEFINE Bad == {i \in 1 .. n : ~(f[i] \in Seq(Letters) /\ Len(f[i]) = Due(i))}
  <2>4. ASSUME NEW i \in 1 .. n
        PROVE  /\ e[i] \in Seq(Letters) /\ i - 1 \in Nat
               /\ Due(i) = Due(i - 1) + Len(e[i]) /\ Due(i - 1) \in Nat /\ Due(0) = 0
    <3>1. s[i] \in Letters /\ e[i] = Escape(s[i]) BY <1>1, <1>2
    <3>2. i - 1 \in Nat /\ i - 1 + 1 = i BY <1>1
    <3> DEFINE c == Count(s, {"control"}, i - 1)
               q == Count(s, {"quote", "slash"}, i - 1)
               c1 == IF s[i] \in {"control"} THEN 1 ELSE 0
               q1 == IF s[i] \in {"quote", "slash"} THEN 1 ELSE 0
    <3>3. c \in Nat /\ Count(s, {"control"}, i) = c + c1 /\ Count(s, {"control"}, 0) = 0
      <4> DEFINE j == i - 1
      <4> DEFINE S == {"control"}
      <4>1. i \in Nat /\ i # 0 BY <1>1
      <4> HIDE DEF S
      <4>2. Count(s, S, i) = Count(s, S, i - 1) + (IF s[i] \in S THEN 1 ELSE 0) BY <4>1, CountNext
      <4>3. Count(s, S, i - 1) \in Nat BY <3>2, CountIs
      <4>4. Count(s, S, 0) = 0 BY <3>2, CountIs
      <4> QED BY <4>2, <4>3, <4>4 DEF S
    <3>4. q \in Nat /\ Count(s, {"quote", "slash"}, i) = q + q1 /\ Count(s, {"quote", "slash"}, 0) = 0
      <4> DEFINE j == i - 1
      <4> DEFINE S == {"quote", "slash"}
      <4>1. i \in Nat /\ i # 0 BY <1>1
      <4> HIDE DEF S
      <4>2. Count(s, S, i) = Count(s, S, i - 1) + (IF s[i] \in S THEN 1 ELSE 0) BY <4>1, CountNext
      <4>3. Count(s, S, i - 1) \in Nat BY <3>2, CountIs
      <4>4. Count(s, S, 0) = 0 BY <3>2, CountIs
      <4> QED BY <4>2, <4>3, <4>4 DEF S
    <3>5. e[i] \in Seq(Letters) /\ Len(e[i]) = 1 + 5 * c1 + q1 BY <3>1, EscapeIs
    <3>6. c1 \in Nat /\ q1 \in Nat OBVIOUS
    <3> HIDE DEF c, q, c1, q1, e
    <3>7. Due(i) = i + 5 * (c + c1) + (q + q1) BY <3>3, <3>4
    <3>8. Due(i - 1) = i - 1 + 5 * c + q BY DEF c, q
    <3>9. Due(0) = 0 BY <3>3, <3>4
    <3> HIDE DEF Due
    <3> QED BY <3>2, <3>3, <3>4, <3>5, <3>6, <3>7, <3>8, <3>9
  <2> HIDE DEF Due, e
  <2>5. ASSUME Bad # {} PROVE FALSE
    <3> DEFINE m == Min(Bad)
    <3>1. m \in Bad /\ \A k \in Bad : m <= k
      <4>1. Bad \in SUBSET Nat BY <1>1
      <4> HIDE DEF Bad
      <4> QED BY <2>5, <4>1, Least
    <3> HIDE DEF m
    <3>2. m \in 1 .. n /\ ~(f[m] \in Seq(Letters) /\ Len(f[m]) = Due(m)) BY <3>1
    <3>3. e[m] \in Seq(Letters) /\ Due(m) = Due(m - 1) + Len(e[m]) /\ Due(m - 1) \in Nat /\ Due(0) = 0 BY <2>4, <3>2
    <3>4. CASE m = 1
      <4>1. f[m] = e[m] BY <2>3, <3>2, <3>4
      <4>2. Due(m) = Len(e[m])
        <5>1. m - 1 = 0 BY <3>4
        <5> QED BY <3>3, <5>1
      <4> QED BY <3>2, <3>3, <4>1, <4>2
    <3>5. CASE m # 1
      <4>1. m - 1 \in 1 .. n /\ ~(m <= m - 1) BY <1>1, <3>2, <3>5
      <4>2. m - 1 \notin Bad BY <3>1, <4>1
      <4>3. f[m - 1] \in Seq(Letters) /\ Len(f[m - 1]) = Due(m - 1) BY <4>1, <4>2
      <4>4. f[m] = f[m - 1] \o e[m] BY <2>3, <3>2, <3>5
      <4> HIDE DEF Bad
      <4> DEFINE a == f[m - 1]
                 b == e[m]
      <4>5. a \in Seq(Letters) /\ b \in Seq(Letters) /\ f[m] = a \o b BY <3>3, <4>3, <4>4
      <4> HIDE DEF a, b
      <4>6. f[m] \in Seq(Letters) /\ Len(f[m]) = Len(a) + Len(b) BY <4>5
      <4>7. f[m] \in Seq(Letters) /\ Len(f[m]) = Due(m) BY <3>3, <4>3, <4>6 DEF a, b
      <4> QED BY <3>2, <4>7
    <3> QED BY <3>4, <3>5
  <2>6. n \in 1 .. n BY <1>1, <1>4
  <2>7. f[n] \in Seq(Letters) /\ Len(f[n]) = Due(n) BY <2>5, <2>6
  <2> QED BY <2>1, <2>7 DEF Due, e
<1> QED BY <1>3, <1>4

LEMMA JsonSpells ==
    ASSUME BuffersAssumption, NEW s \in Seq(Letters)
    PROVE  STRING_new_JSON(s) # Overrun /\ strlen(STRING_new_JSON(s)) = Len(STRING_new_JSON(s)) - 1
<1> DEFINE flat == FlattenSeq([i \in DOMAIN s |-> Escape(s[i])])
           c == Cardinality({i \in DOMAIN s : s[i] = "control"})
           q == Cardinality({i \in DOMAIN s : s[i] \in {"quote", "slash"}})
           n == Len(s) + 5 * c + q + 3
           room == malloc(n)
           all == <<"quote">> \o flat \o <<"quote">>
<1>1. Len(s) \in Nat /\ DOMAIN s = 1 .. Len(s) OBVIOUS
<1>2. c = Count(s, {"control"}, Len(s)) /\ q = Count(s, {"quote", "slash"}, Len(s))
  <2>1. {i \in DOMAIN s : s[i] = "control"} = {i \in 1 .. Len(s) : s[i] \in {"control"}} OBVIOUS
  <2> QED BY <1>1, <2>1 DEF Count
<1>3. c \in Nat /\ q \in Nat BY <1>1, <1>2, CountIs
<1>4. flat \in Seq(Letters) /\ Len(flat) = Len(s) + 5 * c + q BY <1>2, FlattenIs
<1> HIDE DEF flat, c, q
<1>5. n \in Nat /\ n = Len(flat) + 3 BY <1>1, <1>3, <1>4
<1>6. STRING_new_JSON(s) = memcpy(room, 0, <<"quote">> \o flat \o <<"quote", "nul">>)
  BY DEF STRING_new_JSON, flat, c, q
<1> HIDE DEF n
<1>7. room \in Seq(Memory) /\ Len(room) = n BY <1>5, Room
<1> HIDE DEF room
<1>8. <<"quote">> \in Seq(Letters) BY DEF Letters
<1>9. all \in Seq(Letters) /\ Len(all) = Len(flat) + 2 BY <1>4, <1>8
<1>10. Asz(all) = <<"quote">> \o flat \o <<"quote", "nul">>
  <2> DEFINE t == <<"quote">> \o flat
             k == Len(t)
  <2>1. t \in Seq(Memory) /\ k \in Nat
    <3>1. t \in Seq(Letters) BY <1>4, <1>8
    <3> QED BY <3>1 DEF Memory
  <2>2. "quote" \in Memory /\ "nul" \in Memory BY DEF Memory, Letters
  <2> HIDE DEF t
  <2> DEFINE u == Append(t \o <<"quote">>, "nul")
             v == t \o <<"quote", "nul">>
  <2>3. u \in Seq(Memory) /\ v \in Seq(Memory) /\ Len(u) = k + 2 /\ Len(v) = k + 2 BY <2>1, <2>2
  <2>4. ASSUME NEW i \in 1 .. k + 2 PROVE u[i] = v[i]
    <3>1. CASE i <= k BY <2>1, <2>2, <3>1
    <3>2. CASE i = k + 1 BY <2>1, <2>2, <3>2
    <3>3. CASE i = k + 2 BY <2>1, <2>2, <3>3
    <3> QED BY <2>1, <3>1, <3>2, <3>3
  <2> HIDE DEF u, v
  <2>5. u = v BY <2>1, <2>3, <2>4, SameCells
  <2> QED BY <2>5 DEF Asz, u, v, t
<1> HIDE DEF all
<1>11. Len(all) + 1 <= Len(room) BY <1>4, <1>5, <1>7, <1>9
<1> DEFINE json == memcpy(room, 0, Asz(all))
<1>12. Spells(json, all) /\ Len(json) = Len(room) BY <1>7, <1>9, <1>11, Constructed
<1>13. STRING_new_JSON(s) = json BY <1>6, <1>10
<1> HIDE DEF json
<1>14. json # Overrun /\ strlen(json) = Len(all) BY <1>12, SpelledIs
<1>15. Len(json) - 1 = Len(all) BY <1>4, <1>5, <1>7, <1>9, <1>12
<1> QED BY <1>13, <1>14, <1>15

-----------------------------------------------------------------------------
(* Strings: the steps.                                                      *)

StringInv == Spells(str, text)

LEMMA StringStart == StringsInit => StringInv
BY NewSpells DEF StringsInit, StringInv

LEMMA BecomesKeeps ==
    ASSUME NEW block, NEW s, Spells(block, s), Becomes(block, s)
    PROVE  StringInv'
BY DEF Becomes, StringInv, Spells

LEMMA StringStep ==
    ASSUME BuffersAssumption, StringInv, [StringNext]_stringVars
    PROVE  StringInv'
<1>0. Spells(str, text) /\ MaxSize \in Nat BY DEF StringInv, BuffersAssumption
<1>1. CASE UNCHANGED stringVars BY <1>1 DEF stringVars, StringInv, Spells
<1>2. ASSUME \/ Becomes(STRING_new, <<>>)
             \/ Becomes(STRING_clone, text)
             \/ Becomes(STRING_quote, <<"quote">> \o text \o <<"quote">>)
             \/ Becomes(STRING_empty, <<>>)
      PROVE  StringInv'
  <2>1. CASE Becomes(STRING_new, <<>>) BY <2>1, NewSpells, BecomesKeeps
  <2>2. CASE Becomes(STRING_clone, text)
    <3>1. Spells(STRING_clone, text) BY <1>0, CloneSpells
    <3> QED BY <2>2, <3>1, BecomesKeeps
  <2>3. CASE Becomes(STRING_quote, <<"quote">> \o text \o <<"quote">>)
    <3>1. Spells(STRING_quote, <<"quote">> \o text \o <<"quote">>) BY <1>0, QuoteSpells
    <3> QED BY <2>3, <3>1, BecomesKeeps
  <2>4. CASE Becomes(STRING_empty, <<>>)
    <3>1. Spells(STRING_empty, <<>>) BY <1>0, EmptySpells
    <3> QED BY <2>4, <3>1, BecomesKeeps
  <2> QED BY <1>2, <2>1, <2>2, <2>3, <2>4
<1>3. ASSUME NEW s \in SeqOf(Characters, MaxSize),
             \/ Becomes(STRING_construct(s), s)
             \/ Becomes(STRING_new_quoted(s), <<"quote">> \o s \o <<"quote">>)
             \/ Becomes(STRING_concat(s), text \o s)
             \/ Becomes(STRING_concat_with_STRING(s), text \o s)
             \/ Becomes(STRING_copy(s), s)
             \/ Becomes(STRING_sprintf(s), text \o s)
             \/ Becomes(STRING_sprintf_undone(s), text)
             \/ \E n \in 0 .. MaxSize :
                  \/ Becomes(STRING_copy_n(s, n), SubSeq(s, 1, IF n < Len(s) THEN n ELSE Len(s)))
                  \/ n <= Len(s) /\ Becomes(STRING_construct_n(s, n), SubSeq(s, 1, n))
      PROVE  StringInv'
  <2>1. s \in Seq(Letters)
    <3>1. s \in Seq(Characters) BY <1>0, BoundedSequence
    <3> QED BY <3>1 DEF Letters
  <2>2. 0 \in Nat /\ 0 <= Len(s) BY <2>1
  <2>3. /\ Spells(STRING_construct(s), s)
        /\ Spells(STRING_new_quoted(s), <<"quote">> \o s \o <<"quote">>)
    BY <2>1, <2>2, ConstructSpells
  <2>4. /\ Spells(STRING_concat(s), text \o s) /\ Spells(STRING_concat_with_STRING(s), text \o s)
        /\ Spells(STRING_sprintf(s), text \o s) /\ Spells(STRING_sprintf_undone(s), text)
    BY <1>0, <2>1, ConcatSpells
  <2>5. Spells(STRING_copy(s), s) BY <1>0, <2>1, <2>2, CopySpells
  <2>6. ASSUME NEW n \in 0 .. MaxSize
        PROVE  /\ Spells(STRING_copy_n(s, n), SubSeq(s, 1, IF n < Len(s) THEN n ELSE Len(s)))
               /\ n <= Len(s) => Spells(STRING_construct_n(s, n), SubSeq(s, 1, n))
    <3>1. n \in Nat BY <1>0
    <3> QED BY <1>0, <2>1, <3>1, CopySpells, ConstructSpells
  <2>7. CASE Becomes(STRING_construct(s), s) BY <2>3, <2>7, BecomesKeeps
  <2>8. CASE Becomes(STRING_new_quoted(s), <<"quote">> \o s \o <<"quote">>) BY <2>3, <2>8, BecomesKeeps
  <2>9. CASE Becomes(STRING_concat(s), text \o s) BY <2>4, <2>9, BecomesKeeps
  <2>10. CASE Becomes(STRING_concat_with_STRING(s), text \o s) BY <2>4, <2>10, BecomesKeeps
  <2>11. CASE Becomes(STRING_copy(s), s) BY <2>5, <2>11, BecomesKeeps
  <2>12. CASE Becomes(STRING_sprintf(s), text \o s) BY <2>4, <2>12, BecomesKeeps
  <2>13. CASE Becomes(STRING_sprintf_undone(s), text) BY <2>4, <2>13, BecomesKeeps
  <2>14. ASSUME NEW n \in 0 .. MaxSize,
                \/ Becomes(STRING_copy_n(s, n), SubSeq(s, 1, IF n < Len(s) THEN n ELSE Len(s)))
                \/ n <= Len(s) /\ Becomes(STRING_construct_n(s, n), SubSeq(s, 1, n))
         PROVE  StringInv'
    <3>1. CASE Becomes(STRING_copy_n(s, n), SubSeq(s, 1, IF n < Len(s) THEN n ELSE Len(s)))
      BY <2>6, <3>1, BecomesKeeps
    <3>2. CASE n <= Len(s) /\ Becomes(STRING_construct_n(s, n), SubSeq(s, 1, n)) BY <2>6, <3>2, BecomesKeeps
    <3> QED BY <2>14, <3>1, <3>2
  <2> QED BY <1>3, <2>7, <2>8, <2>9, <2>10, <2>11, <2>12, <2>13, <2>14
<1>4. ASSUME NEW s \in SeqOf(Characters \cup {"nul"}, MaxSize), Becomes(STRING_from_byte_array(s), BeforeNul(s))
      PROVE  StringInv'
  <2>1. s \in Seq(Letters \cup {"nul"})
    <3>1. s \in Seq(Characters \cup {"nul"}) BY <1>0, BoundedSequence
    <3> QED BY <3>1 DEF Letters
  <2>2. Spells(STRING_from_byte_array(s), BeforeNul(s)) BY <2>1, BytesSpell
  <2> QED BY <1>4, <2>2, BecomesKeeps
<1>5. ASSUME NEW x \in Characters, NEW y \in Characters,
             Becomes(STRING_replace(x, y), [i \in DOMAIN text |-> IF text[i] = x THEN y ELSE text[i]])
      PROVE  StringInv'
  <2>1. x \in Letters /\ y \in Letters BY DEF Letters
  <2>2. Spells(STRING_replace(x, y), [i \in DOMAIN text |-> IF text[i] = x THEN y ELSE text[i]])
    BY <1>0, <2>1, ReplaceSpells
  <2> QED BY <1>5, <2>2, BecomesKeeps
<1> QED BY <1>1, <1>2, <1>3, <1>4, <1>5 DEF StringNext

LEMMA BuffersImply == BuffersAssumption /\ BufferInv /\ StringInv => BuffersAsTold
<1> SUFFICES ASSUME BuffersAssumption, BufferInv, StringInv PROVE BuffersAsTold OBVIOUS
<1>1. ASSUME NEW b \in Buffers
      PROVE  /\ buffer[b].block # Overrun
             /\ buffer[b].size <= Len(buffer[b].block)
             /\ Content(b) = bytes[b]
  <2>1. Holds(buffer[b], bytes[b]) BY DEF BufferInv
  <2> QED BY <2>1, ContentIs
<1>2. str # Overrun /\ strlen(str) >= 0 /\ CStr(str) = text /\ text \in Seq(Letters)
  <2>1. Spells(str, text) BY DEF StringInv
  <2>2. /\ strlen(str) = Len(text) /\ CStr(str) = text /\ str # Overrun /\ Len(text) \in Nat
        /\ text \in Seq(Letters)
    BY <2>1, SpelledIs
  <2> QED BY <2>2
<1>3. STRING_new_JSON(text) # Overrun /\ strlen(STRING_new_JSON(text)) = Len(STRING_new_JSON(text)) - 1
  BY <1>2, JsonSpells
<1> QED BY <1>1, <1>2, <1>3 DEF BuffersAsTold

\* Through any sequence of calls of buffer.c and of strings.c, of which any may fail, a buffer
\* holds what its caller put into it, its size never exceeds its block and no memcpy leaves
\* one; a STRING is ended inside its block and is what its caller made of it; and
\* STRING_new_JSON allocates exactly what it writes.
THEOREM BlocksHoldWhatWasPut ==
    /\ BuffersInit /\ [][BufferNext]_bufferVars
    /\ StringsInit /\ [][StringNext]_stringVars
    => []BuffersAsTold
<1>1. BuffersAssumption BY BuffersAssumption
<1>2. BuffersInit => BufferInv BY BufferStart
<1>3. BufferInv /\ [BufferNext]_bufferVars => BufferInv' BY <1>1, BufferStep
<1>4. StringsInit => StringInv BY StringStart
<1>5. StringInv /\ [StringNext]_stringVars => StringInv' BY <1>1, StringStep
<1>6. BufferInv /\ StringInv => BuffersAsTold BY <1>1, BuffersImply
<1> QED BY <1>2, <1>3, <1>4, <1>5, <1>6, PTL

-----------------------------------------------------------------------------
(* Digests: numbers.                                                        *)

LEMMA Divided ==
    ASSUME NEW b \in Nat \ {0}, NEW q \in Nat, NEW r \in Nat, r < b
    PROVE  (q * b + r) \div b = q /\ (q * b + r) % b = r
<1>1. r \in 0 .. b - 1 OBVIOUS
<1> QED BY <1>1

LEMMA Multiple ==
    ASSUME NEW b \in Nat \ {0}, NEW a \in Nat, a % b = 0
    PROVE  \E q \in Nat : a = q * b
OBVIOUS

LEMMA Products ==
    ASSUME NEW b \in Nat, NEW q \in Nat
    PROVE  /\ q * b \in Nat /\ 0 * b = 0 /\ (q + 1) * b = q * b + b /\ (q + 2) * b = q * b + b + b
           /\ b * q = q * b
OBVIOUS

LEMMA MoreTimes ==
    ASSUME NEW b \in Nat, NEW q \in Nat, NEW p \in Nat, q < p
    PROVE  q * b + b <= p * b
<1>1. (q + 1) * b <= p * b OBVIOUS
<1> QED BY <1>1, Products

\* how many zeros there are after the bit that ends the message
LEMMA ZerosAre ==
    ASSUME NEW b \in Nat \ {0}, NEW a \in Nat, NEW m \in Nat, NEW z \in 0 .. b - 1, a + z = m * b
    PROVE  (CHOOSE y \in 0 .. b - 1 : (a + y) % b = 0) = z
<1>1. (a + z) % b = 0
  <2>1. \A r \in Nat : r < b => (m * b + r) % b = r BY Divided
  <2>2. m * b \in Nat /\ 0 \in Nat /\ 0 < b BY Products
  <2>3. (m * b + 0) % b = 0 BY <2>1, <2>2
  <2> QED BY <2>2, <2>3
<1>2. ASSUME NEW y \in 0 .. b - 1, (a + y) % b = 0 PROVE y = z
  <2>1. PICK k \in Nat : a + y = k * b
    <3>1. a + y \in Nat OBVIOUS
    <3> QED BY <1>2, <3>1, Multiple
  <2>2. k * b \in Nat /\ m * b \in Nat BY Products
  <2>3. ~(k < m)
    <3>1. k < m => k * b + b <= m * b BY MoreTimes
    <3> QED BY <2>1, <2>2, <3>1
  <2>4. ~(m < k)
    <3>1. m < k => m * b + b <= k * b BY MoreTimes
    <3> QED BY <2>1, <2>2, <3>1
  <2>5. k = m BY <2>3, <2>4
  <2> QED BY <2>1, <2>5, <2>2
<1> QED BY <1>1, <1>2

\* the byte that ends a message, and what the standard has there
PadIs(bits, n) == PadByte(bits, n) = <<"pad", ((bits \div 2 ^ (8 - n)) * 2 + 1) * 2 ^ (7 - n)>>

LEMMA LastByteIs == ASSUME NEW n \in 0 .. 7 PROVE PadIs(LastByte, n)
<1>1. n = 0 => (183 - (183 % 2 ^ (8 - n))) + 2 ^ (7 - n) = ((183 \div 2 ^ (8 - n)) * 2 + 1) * 2 ^ (7 - n) OBVIOUS
<1>2. n = 1 => (183 - (183 % 2 ^ (8 - n))) + 2 ^ (7 - n) = ((183 \div 2 ^ (8 - n)) * 2 + 1) * 2 ^ (7 - n) OBVIOUS
<1>3. n = 2 => (183 - (183 % 2 ^ (8 - n))) + 2 ^ (7 - n) = ((183 \div 2 ^ (8 - n)) * 2 + 1) * 2 ^ (7 - n) OBVIOUS
<1>4. n = 3 => (183 - (183 % 2 ^ (8 - n))) + 2 ^ (7 - n) = ((183 \div 2 ^ (8 - n)) * 2 + 1) * 2 ^ (7 - n) OBVIOUS
<1>5. n = 4 => (183 - (183 % 2 ^ (8 - n))) + 2 ^ (7 - n) = ((183 \div 2 ^ (8 - n)) * 2 + 1) * 2 ^ (7 - n) OBVIOUS
<1>6. n = 5 => (183 - (183 % 2 ^ (8 - n))) + 2 ^ (7 - n) = ((183 \div 2 ^ (8 - n)) * 2 + 1) * 2 ^ (7 - n) OBVIOUS
<1>7. n = 6 => (183 - (183 % 2 ^ (8 - n))) + 2 ^ (7 - n) = ((183 \div 2 ^ (8 - n)) * 2 + 1) * 2 ^ (7 - n) OBVIOUS
<1>8. n = 7 => (183 - (183 % 2 ^ (8 - n))) + 2 ^ (7 - n) = ((183 \div 2 ^ (8 - n)) * 2 + 1) * 2 ^ (7 - n) OBVIOUS
<1>9. n \in {0, 1, 2, 3, 4, 5, 6, 7} OBVIOUS
<1>10. (183 - (183 % 2 ^ (8 - n))) + 2 ^ (7 - n) = ((183 \div 2 ^ (8 - n)) * 2 + 1) * 2 ^ (7 - n)
  BY <1>1, <1>2, <1>3, <1>4, <1>5, <1>6, <1>7, <1>8, <1>9, Zenon
<1> QED BY <1>10 DEF PadByte, LastByte, PadIs

LEMMA NoByteIs == PadIs(0, 0)
<1>1. (0 - (0 % 2 ^ (8 - 0))) + 2 ^ (7 - 0) = ((0 \div 2 ^ (8 - 0)) * 2 + 1) * 2 ^ (7 - 0) OBVIOUS
<1> QED BY <1>1, Zenon DEF PadByte, PadIs

-----------------------------------------------------------------------------
(* Digests: the block of a context.                                         *)

\* what is in a block, other than what is hashed
Marks ==
    {Zero} \cup SHAversions \cup {<<"word", n>> : n \in Nat} \cup {<<"byte", n>> : n \in Nat}
      \cup {PadByte(b, n) : b \in {0, LastByte}, n \in 0 .. 7}

Context(S) ==
    [whichSha : SHAversions, hash : Seq(Seq(S)), block : Seq(S), index : Nat,
     low : 0 .. Word - 1, high : 0 .. Word - 1, computed : BOOLEAN, corrupted : Nat]

\* c has processed q blocks of p, and its block begins with the next r places of p
Filled(c, p, q, r, S) ==
    /\ c \in Context(S) /\ Len(c.block) = Size(c) /\ r <= Size(c)
    /\ Len(c.hash) = q + 1 /\ c.hash[1] = <<c.whichSha>>
    /\ \A i \in 1 .. q : /\ Len(c.hash[i + 1]) = Size(c)
                          /\ \A j \in 1 .. Size(c) : c.hash[i + 1][j] = p[(i - 1) * Size(c) + j]
    /\ \A j \in 1 .. r : c.block[j] = p[q * Size(c) + j]

\* but for the block and what was made of it
Alike(c, d) ==
    /\ d.whichSha = c.whichSha /\ d.low = c.low /\ d.high = c.high
    /\ d.computed = c.computed /\ d.corrupted = c.corrupted

LEMMA SizeIs ==
    ASSUME HashesAssumption, NEW S, NEW c \in Context(S)
    PROVE  Size(c) = BlockSize[c.whichSha] /\ Size(c) \in Nat /\ Size(c) >= 3
<1>1. c.whichSha \in SHAversions BY DEF Context
<1> QED BY <1>1 DEF HashesAssumption, Size

LEMMA AppendIs ==
    ASSUME NEW S, NEW s \in Seq(S), NEW e \in S
    PROVE  /\ Append(s, e) \in Seq(S) /\ Len(Append(s, e)) = Len(s) + 1
           /\ Append(s, e)[Len(s) + 1] = e /\ \A i \in 1 .. Len(s) : Append(s, e)[i] = s[i]
OBVIOUS

LEMMA ProcessFills ==
    ASSUME HashesAssumption, NEW S, NEW c, NEW p, NEW q \in Nat, Filled(c, p, q, Size(c), S)
    PROVE  LET d == ProcessMessageBlock(c)
           IN  Filled(d, p, q + 1, 0, S) /\ d.index = 0 /\ Alike(c, d)
<1> DEFINE d == [c EXCEPT !.hash = Append(c.hash, c.block), !.index = 0]
           b == Size(c)
<1>1. ProcessMessageBlock(c) = d
  BY DEF ProcessMessageBlock, SHA1ProcessMessageBlock, SHA224_256ProcessMessageBlock, SHA384_512ProcessMessageBlock
<1>2. c \in Context(S) /\ c.hash \in Seq(Seq(S)) /\ c.block \in Seq(S) BY DEF Filled, Context
<1>3. b \in Nat /\ b >= 3 BY <1>2, SizeIs
<1>4. /\ Append(c.hash, c.block) \in Seq(Seq(S)) /\ Len(Append(c.hash, c.block)) = Len(c.hash) + 1
      /\ Append(c.hash, c.block)[Len(c.hash) + 1] = c.block
      /\ \A i \in 1 .. Len(c.hash) : Append(c.hash, c.block)[i] = c.hash[i]
  BY <1>2, AppendIs
<1>5. d \in Context(S) /\ d.index = 0 /\ Alike(c, d) /\ d.hash = Append(c.hash, c.block) /\ d.block = c.block
  BY <1>2, <1>4 DEF Context, Alike
<1> HIDE DEF d
<1>6. Size(d) = b BY <1>5 DEF Alike, Size
<1>7. Len(c.hash) = q + 1 /\ c.hash[1] = <<c.whichSha>> BY DEF Filled
<1>8. ASSUME NEW i \in 1 .. q + 1
      PROVE  Len(d.hash[i + 1]) = b /\ \A j \in 1 .. b : d.hash[i + 1][j] = p[(i - 1) * b + j]
  <2>1. CASE i = q + 1
    <3>1. d.hash[i + 1] = c.block BY <1>4, <1>5, <1>7, <2>1
    <3>2. i - 1 = q BY <2>1
    <3> QED BY <3>1, <3>2 DEF Filled
  <2>2. CASE i # q + 1
    <3>1. i \in 1 .. q /\ i + 1 \in 1 .. Len(c.hash) BY <1>7, <2>2
    <3>2. d.hash[i + 1] = c.hash[i + 1] BY <1>4, <1>5, <3>1
    <3> QED BY <3>1, <3>2 DEF Filled
  <2> QED BY <2>1, <2>2
<1>9. Len(d.hash) = q + 1 + 1 /\ d.hash[1] = <<d.whichSha>> BY <1>4, <1>5, <1>7 DEF Alike
<1>10. Len(d.block) = b BY <1>5 DEF Filled
<1>11. Filled(d, p, q + 1, 0, S)
  <2>1. 0 <= Size(d) /\ Len(d.block) = Size(d) BY <1>3, <1>6, <1>10
  <2>2. \A i \in 1 .. q + 1 : /\ Len(d.hash[i + 1]) = Size(d)
                              /\ \A j \in 1 .. Size(d) : d.hash[i + 1][j] = p[(i - 1) * Size(d) + j]
    BY <1>6, <1>8
  <2>3. \A j \in 1 .. 0 : d.block[j] = p[(q + 1) * Size(d) + j] OBVIOUS
  <2> QED BY <1>5, <1>9, <2>1, <2>2, <2>3 DEF Filled
<1> QED BY <1>1, <1>5, <1>11

\* a context with the same hash and another block
LEMMA Refilled ==
    ASSUME NEW S, NEW p, NEW q, NEW r, NEW r0, NEW c, Filled(c, p, q, r0, S), NEW d \in Context(S),
           d.whichSha = c.whichSha, d.hash = c.hash, Len(d.block) = Size(c), r <= Size(c),
           \A j \in 1 .. r : d.block[j] = p[q * Size(c) + j]
    PROVE  Filled(d, p, q, r, S)
<1>1. Size(d) = Size(c) BY Zenon DEF Size
<1> DEFINE b == Size(d)
<1>2. Len(d.block) = b /\ r <= b /\ \A j \in 1 .. r : d.block[j] = p[q * b + j]
  <2> HIDE DEF b
  <2>1. b = Size(c) BY <1>1 DEF b
  <2> QED BY <2>1, Zenon
<1>3. /\ Len(d.hash) = q + 1 /\ d.hash[1] = <<d.whichSha>>
      /\ \A i \in 1 .. q : /\ Len(d.hash[i + 1]) = b
                            /\ \A j \in 1 .. b : d.hash[i + 1][j] = p[(i - 1) * b + j]
  <2> DEFINE h == c.hash
             a == Size(c)
  <2>1. /\ Len(h) = q + 1 /\ h[1] = <<c.whichSha>>
        /\ \A i \in 1 .. q : /\ Len(h[i + 1]) = a
                              /\ \A j \in 1 .. a : h[i + 1][j] = p[(i - 1) * a + j]
    BY Zenon DEF Filled
  <2>2. b = a /\ d.hash = h BY <1>1
  <2> HIDE DEF a, b, h
  <2> QED BY <2>1, <2>2, Zenon
<1> QED BY <1>2, <1>3, Zenon DEF Filled

LEMMA SameFill ==
    ASSUME NEW S, NEW p, NEW q, NEW r, NEW c, Filled(c, p, q, r, S), NEW d \in Context(S),
           d.whichSha = c.whichSha, d.hash = c.hash, d.block = c.block
    PROVE  Filled(d, p, q, r, S)
<1>1. Len(c.block) = Size(c) /\ r <= Size(c) /\ \A j \in 1 .. r : c.block[j] = p[q * Size(c) + j] BY Zenon DEF Filled
<1>2. Len(d.block) = Size(c) /\ r <= Size(c) /\ \A j \in 1 .. r : d.block[j] = p[q * Size(c) + j] BY <1>1, Zenon
<1> QED BY <1>2, Refilled, Zenon

\* what p has behind q blocks of b and r places more
NextIs(p, q, b, r, x) == p[q * b + (r + 1)] = x

\* d is what c becomes when its block is filled to r places
FillsOn(S, c, d, p, q, r) == Filled(d, p, q, r, S) /\ d.index = r /\ Alike(c, d)

LEMMA PutFills ==
    ASSUME HashesAssumption, NEW S, NEW c, NEW p, NEW q \in Nat, NEW r \in Nat, Filled(c, p, q, r, S), c.index = r, r < Size(c),
           NEW x \in S, NextIs(p, q, Size(c), r, x)
    PROVE  FillsOn(S, c, Put(c, x), p, q, r + 1)
<1> DEFINE block == [c.block EXCEPT ![r + 1] = x]
           d == [c EXCEPT !.block = block, !.index = r + 1]
<1>1. c \in Context(S) /\ c.block \in Seq(S) /\ Len(c.block) = Size(c) BY DEF Filled, Context
<1>2. Size(c) \in Nat /\ Size(c) >= 3 BY <1>1, SizeIs
<1>3. /\ block \in Seq(S) /\ Len(block) = Size(c) /\ block[r + 1] = x
      /\ \A j \in 1 .. Size(c) : j # r + 1 => block[j] = c.block[j]
  BY <1>1, <1>2
<1>4. Put(c, x) = d BY DEF Put
<1> HIDE DEF block
<1>5. d \in Context(S) /\ d.index = r + 1 /\ Alike(c, d) /\ d.hash = c.hash /\ d.block = block
  <2>1. block \in Seq(S) /\ r + 1 \in Nat BY <1>3
  <2>2. d \in Context(S) BY <1>1, <2>1 DEF Context
  <2>3. d.index = r + 1 /\ d.block = block BY <1>1 DEF Context
  <2>4. d.hash = c.hash /\ Alike(c, d) BY <1>1 DEF Context, Alike
  <2> QED BY <2>2, <2>3, <2>4
<1> HIDE DEF d
<1>6. Size(d) = Size(c) BY <1>5 DEF Alike, Size
<1>7. \A j \in 1 .. r + 1 : d.block[j] = p[q * Size(c) + j]
  <2> SUFFICES ASSUME NEW j \in 1 .. r + 1 PROVE d.block[j] = p[q * Size(c) + j] OBVIOUS
  <2>1. CASE j = r + 1 BY <1>3, <1>5, <2>1 DEF NextIs
  <2>2. CASE j # r + 1
    <3>1. j \in 1 .. r /\ j \in 1 .. Size(c) BY <1>2, <2>2
    <3>2. \A k \in 1 .. r : c.block[k] = p[q * Size(c) + k] BY Zenon DEF Filled
    <3>3. c.block[j] = p[q * Size(c) + j] BY <3>1, <3>2, Zenon
    <3> QED BY <1>3, <1>5, <2>2, <3>1, <3>3
  <2> QED BY <2>1, <2>2
<1>8. Filled(d, p, q, r + 1, S)
  <2>1. r + 1 <= Size(c) BY <1>2
  <2>2. Len(d.block) = Size(c) /\ d.whichSha = c.whichSha /\ d.hash = c.hash /\ d \in Context(S)
    BY <1>3, <1>5, Zenon DEF Alike
  <2> QED BY <1>7, <2>1, <2>2, Refilled, Zenon
<1> QED BY <1>4, <1>5, <1>8 DEF FillsOn

\* p has zeros from one place to another
Zeros(p, from, to) == \A j \in from .. to : p[j] = Zero

LEMMA FillFills ==
    ASSUME HashesAssumption, NEW S, Zero \in S, NEW c, NEW p, NEW q \in Nat, NEW r \in Nat, Filled(c, p, q, r, S), c.index = r,
           NEW n \in Nat, r <= n, n <= Size(c), Zeros(p, q * Size(c) + r + 1, q * Size(c) + n)
    PROVE  LET d == Fill(c, n)
           IN  Filled(d, p, q, n, S) /\ d.index = n /\ Alike(c, d)
<1> DEFINE block == [i \in DOMAIN c.block |-> IF i \in r + 1 .. n THEN Zero ELSE c.block[i]]
           d == [c EXCEPT !.block = block, !.index = n]
<1>1. c \in Context(S) /\ c.block \in Seq(S) /\ Len(c.block) = Size(c) BY DEF Filled, Context
<1>2. Size(c) \in Nat /\ Size(c) >= 3 BY <1>1, SizeIs
<1>3. /\ block \in Seq(S) /\ Len(block) = Size(c)
      /\ \A j \in 1 .. Size(c) : block[j] = IF j \in r + 1 .. n THEN Zero ELSE c.block[j]
  <2>1. DOMAIN c.block = 1 .. Size(c) BY <1>1
  <2>2. \A j \in 1 .. Size(c) : c.block[j] \in S BY <1>1
  <2>3. block \in [1 .. Size(c) -> S] BY <2>1, <2>2
  <2>4. \A j \in 1 .. Size(c) : block[j] = IF j \in r + 1 .. n THEN Zero ELSE c.block[j] BY <2>1
  <2> HIDE DEF block
  <2>5. block \in Seq(S) /\ Len(block) = Size(c)
    <3> DEFINE k == Size(c)
    <3>1. k \in Nat /\ block \in [1 .. k -> S] BY <1>2, <2>3
    <3> HIDE DEF k
    <3>2. block \in Seq(S) /\ Len(block) = k BY <3>1
    <3> QED BY <3>2 DEF k
  <2> QED BY <2>4, <2>5
<1>4. Fill(c, n) = d
  <2>1. (IF c.index < n THEN n ELSE c.index) = n OBVIOUS
  <2> QED BY <2>1 DEF Fill
<1> HIDE DEF block
<1>5. d \in Context(S) /\ d.index = n /\ Alike(c, d) /\ d.hash = c.hash /\ d.block = block
  BY <1>1, <1>3 DEF Context, Alike
<1> HIDE DEF d
<1>6. Size(d) = Size(c) BY <1>5 DEF Alike, Size
<1>7. \A j \in 1 .. n : d.block[j] = p[q * Size(c) + j]
  <2>1. \A j \in 1 .. n : j \in 1 .. Size(c) /\ (j \in r + 1 .. n \/ j \in 1 .. r) /\ (j \in 1 .. r => j \notin r + 1 .. n) BY <1>2
  <2>2. \A j \in 1 .. r : c.block[j] = p[q * Size(c) + j] BY DEF Filled
  <2>3. ASSUME NEW j \in r + 1 .. n PROVE p[q * Size(c) + j] = Zero
    <3>1. q * Size(c) \in Nat BY <1>2, Products
    <3>2. q * Size(c) + j \in q * Size(c) + r + 1 .. q * Size(c) + n BY <3>1
    <3> QED BY <3>2 DEF Zeros
  <2> QED BY <1>3, <1>5, <2>1, <2>2, <2>3
<1>8. Filled(d, p, q, n, S)
  <2>1. Len(d.block) = Size(c) /\ d.whichSha = c.whichSha /\ d.hash = c.hash /\ d \in Context(S)
    BY <1>3, <1>5, Zenon DEF Alike
  <2> QED BY <1>7, <2>1, Refilled, Zenon
<1> QED BY <1>4, <1>5, <1>8

LEMMA PrefixFills ==
    ASSUME HashesAssumption, NEW S, NEW c, NEW s, NEW p, NEW q \in Nat, NEW r \in Nat, Filled(c, s, q, r, S),
           \A i \in 1 .. q * Size(c) + r : p[i] = s[i]
    PROVE  Filled(c, p, q, r, S)
<1> DEFINE b == Size(c)
<1>1. c \in Context(S) BY DEF Filled
<1>2. b \in Nat /\ b >= 3 BY <1>1, SizeIs
<1>3. q * b \in Nat BY <1>2, Products
<1>4. ASSUME NEW i \in 1 .. q, NEW j \in 1 .. b PROVE (i - 1) * b + j \in 1 .. q * b + r
  <2>1. (i - 1) * b + b <= q * b
    <3>1. i - 1 \in Nat /\ i - 1 < q OBVIOUS
    <3> HIDE DEF b
    <3> QED BY <1>2, <3>1, MoreTimes
  <2>2. (i - 1) * b \in Nat
    <3>1. i - 1 \in Nat OBVIOUS
    <3> HIDE DEF b
    <3> QED BY <1>2, <3>1, Products
  <2> HIDE DEF b
  <2> QED BY <1>2, <1>3, <2>1, <2>2
<1>5. \A j \in 1 .. r : q * b + j \in 1 .. q * b + r BY <1>2, <1>3
<1>6. \A i \in 1 .. q : \A j \in 1 .. b : p[(i - 1) * b + j] = s[(i - 1) * b + j] BY <1>4
<1>7. \A j \in 1 .. r : p[q * b + j] = s[q * b + j] BY <1>5
<1>8. ASSUME NEW i \in 1 .. q
      PROVE  Len(c.hash[i + 1]) = b /\ \A j \in 1 .. b : c.hash[i + 1][j] = p[(i - 1) * b + j]
  <2>1. Len(c.hash[i + 1]) = b /\ \A j \in 1 .. b : c.hash[i + 1][j] = s[(i - 1) * b + j] BY Zenon DEF Filled
  <2>2. \A j \in 1 .. b : p[(i - 1) * b + j] = s[(i - 1) * b + j] BY <1>6, Zenon
  <2> HIDE DEF b
  <2> QED BY <2>1, <2>2, Zenon
<1>9. \A j \in 1 .. r : c.block[j] = p[q * b + j]
  <2>1. \A j \in 1 .. r : c.block[j] = s[q * b + j] BY Zenon DEF Filled
  <2> QED BY <1>7, <2>1, Zenon
<1>10. c \in Context(S) /\ Len(c.block) = b /\ r <= b /\ Len(c.hash) = q + 1 /\ c.hash[1] = <<c.whichSha>> BY DEF Filled
<1> QED BY <1>8, <1>9, <1>10, Zenon DEF Filled

LEMMA EndFills ==
    ASSUME HashesAssumption, NEW S, NEW c, NEW p, NEW q \in Nat, Filled(c, p, q, Size(c) - 2, S), NEW x \in S, NEW y \in S,
           p[q * Size(c) + (Size(c) - 1)] = x, p[q * Size(c) + Size(c)] = y
    PROVE  LET n == Size(c) - 2
               d == [c EXCEPT !.block[n + 1] = x, !.block[n + 2] = y]
           IN  Filled(d, p, q, Size(d), S) /\ Alike(c, d)
<1> DEFINE b == Size(c)
           n == b - 2
           block == [[c.block EXCEPT ![n + 1] = x] EXCEPT ![n + 2] = y]
           d == [c EXCEPT !.block = block]
<1>1. c \in Context(S) /\ c.block \in Seq(S) /\ Len(c.block) = b BY DEF Filled, Context
<1>2. b \in Nat /\ b >= 3 BY <1>1, SizeIs
<1>3. /\ block \in Seq(S) /\ Len(block) = b /\ block[b - 1] = x /\ block[b] = y
      /\ \A j \in 1 .. b - 2 : block[j] = c.block[j]
  <2> HIDE DEF b
  <2>1. n + 1 = b - 1 /\ n + 2 = b /\ b - 1 \in 1 .. b /\ b \in 1 .. b /\ b - 1 # b BY <1>2
  <2>2. c.block \in [1 .. b -> S] BY <1>1, <1>2
  <2>3. block \in [1 .. b -> S] BY <2>1, <2>2
  <2>4. block[b - 1] = x /\ block[b] = y BY <2>1, <2>2
  <2>5. \A j \in 1 .. b - 2 : block[j] = c.block[j] BY <1>2, <2>1, <2>2
  <2> HIDE DEF block
  <2>6. block \in Seq(S) /\ Len(block) = b BY <1>2, <2>3
  <2> QED BY <2>4, <2>5, <2>6
<1>4. [c EXCEPT !.block[n + 1] = x, !.block[n + 2] = y] = d BY <1>1 DEF Context
<1> HIDE DEF block
<1>5. d \in Context(S) /\ Alike(c, d) /\ d.hash = c.hash /\ d.block = block
  <2>1. block \in Seq(S) BY <1>3
  <2>2. d \in Context(S) BY <1>1, <2>1 DEF Context
  <2>3. d.block = block BY <1>1 DEF Context
  <2>4. d.hash = c.hash /\ Alike(c, d) BY <1>1 DEF Context, Alike
  <2> QED BY <2>2, <2>3, <2>4
<1> HIDE DEF d
<1>6. Size(d) = Size(c) BY <1>5 DEF Alike, Size
<1>7. \A j \in 1 .. Size(c) : d.block[j] = p[q * Size(c) + j]
  <2>1. \A j \in 1 .. b : j \in 1 .. b - 2 \/ j = b - 1 \/ j = b BY <1>2
  <2>2. \A j \in 1 .. b - 2 : c.block[j] = p[q * Size(c) + j] BY DEF Filled
  <2> QED BY <1>3, <1>5, <2>1, <2>2
<1>8. Filled(d, p, q, Size(d), S) BY <1>2, <1>3, <1>5, <1>6, <1>7 DEF Filled, Alike
<1> QED BY <1>4, <1>5, <1>8

\* p is s with the end of the standard: pad, zeros and the length
Ended(p, s, pad, z, high, low) ==
    /\ \A i \in 1 .. Len(s) : p[i] = s[i]
    /\ p[Len(s) + 1] = pad
    /\ \A j \in 1 .. z : p[Len(s) + 1 + j] = Zero
    /\ p[Len(s) + z + 2] = <<"word", high>> /\ p[Len(s) + z + 3] = <<"word", low>>

LEMMA EndZeros ==
    ASSUME NEW p, NEW s, Len(s) \in Nat, NEW pad, NEW z \in Nat, NEW high, NEW low, Ended(p, s, pad, z, high, low)
    PROVE  \A from \in Nat \ {0}, to \in Nat : to <= z => Zeros(p, Len(s) + 1 + from, Len(s) + 1 + to)
<1> SUFFICES ASSUME NEW from \in Nat \ {0}, NEW to \in Nat, to <= z,
                    NEW j \in Len(s) + 1 + from .. Len(s) + 1 + to
             PROVE  p[j] = Zero
  BY DEF Zeros
<1>1. j - Len(s) - 1 \in 1 .. z /\ Len(s) + 1 + (j - Len(s) - 1) = j OBVIOUS
<1>2. p[Len(s) + 1 + (j - Len(s) - 1)] = Zero BY <1>1 DEF Ended
<1> QED BY <1>1, <1>2

LEMMA PadMessageFills ==
    ASSUME HashesAssumption, NEW S, Marks \subseteq S, NEW s \in Seq(S), NEW c, NEW q \in Nat, NEW r \in Nat,
           Filled(c, s, q, r, S), c.index = r, r < Size(c), Len(s) = q * Size(c) + r,
           NEW pad \in S, NEW p, NEW z \in Nat, Ended(p, s, pad, z, c.high, c.low)
    PROVE  LET b == Size(c)
               d == PadMessage(c, pad)
           IN  /\ r + 3 <= b /\ z = b - 3 - r => Filled(d, p, q + 1, 0, S) /\ Alike(c, d)
               /\ r + 3 > b /\ z = b + b - 3 - r => Filled(d, p, q + 2, 0, S) /\ Alike(c, d)
<1> DEFINE b == Size(c)
           n == b - 2
           x == <<"word", c.high>>
           y == <<"word", c.low>>
<1>1. c \in Context(S) BY DEF Filled
<1>2. b \in Nat /\ b >= 3 BY <1>1, SizeIs
<1>3. q * b \in Nat /\ (q + 1) * b = q * b + b BY <1>2, Products
<1>4. Zero \in S /\ x \in S /\ y \in S
  <2>1. c.high \in Nat /\ c.low \in Nat BY <1>1 DEF Context, HashesAssumption
  <2> QED BY <2>1 DEF Marks
<1>5. Filled(c, p, q, r, S)
  <2>1. \A i \in 1 .. q * Size(c) + r : p[i] = s[i] BY DEF Ended
  <2> QED BY <2>1, PrefixFills
<1>10. \A from \in Nat \ {0}, to \in Nat : to <= z => Zeros(p, Len(s) + 1 + from, Len(s) + 1 + to)
  <2>1. Len(s) \in Nat OBVIOUS
  <2> QED BY <2>1, EndZeros
<1>11. q * b + (r + 1) = Len(s) + 1 /\ q * b + (r + 1) + 1 = Len(s) + 2 /\ q * b + b = Len(s) + 1 + (b - r - 1)
  <2> DEFINE qb == q * b
             l == Len(s)
  <2>1. qb \in Nat /\ l = qb + r /\ b \in Nat BY <1>2, <1>3
  <2> HIDE DEF qb, l, b
  <2>2. qb + (r + 1) = l + 1 /\ qb + (r + 1) + 1 = l + 2 /\ qb + b = l + 1 + (b - r - 1) BY <2>1
  <2> QED BY <2>2 DEF qb, l
<1> DEFINE e == Put(c, pad)
<1>6. Filled(e, p, q, r + 1, S) /\ e.index = r + 1 /\ Alike(c, e)
  <2>1. q * b + (r + 1) = Len(s) + 1 BY <1>11
  <2>2. NextIs(p, q, Size(c), r, pad) BY <2>1 DEF Ended, NextIs
  <2>3. FillsOn(S, c, e, p, q, r + 1)
    <3> HIDE DEF n, x, y
    <3> QED BY <1>5, <2>2, PutFills
  <2> HIDE DEF e
  <2> QED BY <2>3 DEF FillsOn
<1> HIDE DEF e
<1>7. Size(e) = b BY <1>6 DEF Alike, Size
<1>8. ASSUME r + 3 <= b, z = b - 3 - r
      PROVE  LET d == PadMessage(c, pad) IN Filled(d, p, q + 1, 0, S) /\ Alike(c, d)
  <2> DEFINE f == Fill(e, n)
             g == [f EXCEPT !.block[n + 1] = x, !.block[n + 2] = y]
  <2>7. q * b + n = Len(s) + 1 + z /\ q * b + (b - 1) = Len(s) + z + 2 /\ q * b + b = Len(s) + z + 3
    <3> DEFINE qb == q * b
               l == Len(s)
    <3>1. qb \in Nat /\ l = qb + r /\ b \in Nat BY <1>2, <1>3
    <3> HIDE DEF qb, l, b
    <3>2. qb + n = l + 1 + z /\ qb + (b - 1) = l + z + 2 /\ qb + b = l + z + 3 BY <1>8, <3>1
    <3> QED BY <3>2 DEF qb, l
  <2>1. Filled(f, p, q, n, S) /\ Alike(e, f)
    <3>1. n \in Nat /\ r + 1 \in Nat /\ r + 1 <= n /\ n <= Size(e) BY <1>2, <1>7, <1>8
    <3>2. Zeros(p, q * Size(e) + (r + 1) + 1, q * Size(e) + n)
      <4>1. q * Size(e) + (r + 1) + 1 = Len(s) + 2 /\ q * Size(e) + n = Len(s) + 1 + z
        <5> HIDE DEF b, n
        <5> QED BY <1>7, <1>11, <2>7
      <4>2. Zeros(p, Len(s) + 1 + 1, Len(s) + 1 + z) BY <1>10
      <4>3. Len(s) + 1 + 1 = Len(s) + 2 OBVIOUS
      <4> QED BY <4>1, <4>2, <4>3
    <3> HIDE DEF n, b
    <3> QED BY <1>4, <1>6, <3>1, <3>2, FillFills
  <2> HIDE DEF f
  <2>2. Size(f) = b BY <1>7, <2>1 DEF Alike, Size
  <2>3. Filled(g, p, q, Size(g), S) /\ Alike(f, g)
    <3>1. q * b + (b - 1) = Len(s) + z + 2 /\ q * b + b = Len(s) + z + 3 BY <2>7
    <3>2. p[q * b + (b - 1)] = x /\ p[q * b + b] = y BY <3>1 DEF Ended
    <3> HIDE DEF x, y
    <3> QED BY <1>4, <2>1, <2>2, <3>2, EndFills
  <2>4. PadMessage(c, pad) = ProcessMessageBlock(g)
    <3>1. ~(c.index >= n) BY <1>2, <1>8
    <3> QED BY <3>1 DEF PadMessage, e, f, LengthPlaces
  <2> HIDE DEF g
  <2>5. Filled(ProcessMessageBlock(g), p, q + 1, 0, S) /\ Alike(g, ProcessMessageBlock(g)) BY <2>3, ProcessFills
  <2>6. Alike(c, ProcessMessageBlock(g)) BY <1>6, <2>1, <2>3, <2>5 DEF Alike
  <2> QED BY <2>4, <2>5, <2>6
<1>9. ASSUME r + 3 > b, z = b + b - 3 - r
      PROVE  LET d == PadMessage(c, pad) IN Filled(d, p, q + 2, 0, S) /\ Alike(c, d)
  <2> DEFINE k == Fill(e, b)
             h == ProcessMessageBlock(k)
             f == Fill(h, n)
             g == [f EXCEPT !.block[n + 1] = x, !.block[n + 2] = y]
  <2>12. /\ (q + 1) * b + 0 + 1 = Len(s) + 1 + (b - r) /\ (q + 1) * b + n = Len(s) + 1 + z
         /\ (q + 1) * b + (b - 1) = Len(s) + z + 2 /\ (q + 1) * b + b = Len(s) + z + 3
    <3> DEFINE qb == q * b
               pb == (q + 1) * b
               l == Len(s)
    <3>1. pb = qb + b /\ qb \in Nat /\ l = qb + r /\ b \in Nat BY <1>2, <1>3
    <3> HIDE DEF qb, pb, l, b
    <3>2. /\ pb + 0 + 1 = l + 1 + (b - r) /\ pb + n = l + 1 + z
          /\ pb + (b - 1) = l + z + 2 /\ pb + b = l + z + 3
      BY <1>9, <3>1
    <3> QED BY <3>2 DEF qb, pb, l
  <2>1. Filled(k, p, q, b, S) /\ Alike(e, k)
    <3>1. b \in Nat /\ r + 1 \in Nat /\ r + 1 <= b /\ b <= Size(e) BY <1>2, <1>7
    <3>2. Zeros(p, q * Size(e) + (r + 1) + 1, q * Size(e) + b)
      <4>1. q * Size(e) + (r + 1) + 1 = Len(s) + 2 /\ q * Size(e) + b = Len(s) + 1 + (b - r - 1)
        <5> HIDE DEF b
        <5> QED BY <1>7, <1>11
      <4>2. b - r - 1 <= z /\ b - r - 1 \in Nat BY <1>2, <1>9
      <4>3. Zeros(p, Len(s) + 1 + 1, Len(s) + 1 + (b - r - 1)) BY <4>2, <1>10
      <4>4. Len(s) + 1 + 1 = Len(s) + 2 OBVIOUS
      <4> QED BY <4>1, <4>3, <4>4
    <3> HIDE DEF b
    <3> QED BY <1>4, <1>6, <3>1, <3>2, FillFills
  <2> HIDE DEF k
  <2>2. Size(k) = b BY <1>7, <2>1 DEF Alike, Size
  <2>3. Filled(h, p, q + 1, 0, S) /\ h.index = 0 /\ Alike(k, h) BY <2>1, <2>2, ProcessFills
  <2> HIDE DEF h
  <2>4. Size(h) = b BY <2>2, <2>3 DEF Alike, Size
  <2>5. Filled(f, p, q + 1, n, S) /\ Alike(h, f)
    <3>1. n \in Nat /\ 0 \in Nat /\ 0 <= n /\ n <= Size(h) /\ q + 1 \in Nat BY <1>2, <2>4
    <3>2. Zeros(p, (q + 1) * Size(h) + 0 + 1, (q + 1) * Size(h) + n)
      <4>1. (q + 1) * Size(h) + 0 + 1 = Len(s) + 1 + (b - r) /\ (q + 1) * Size(h) + n = Len(s) + 1 + z
        <5> HIDE DEF n, b
        <5> QED BY <2>4, <2>12
      <4> DEFINE from == b - r
      <4>2. from \in Nat \ {0} BY <1>2
      <4>5. z <= z OBVIOUS
      <4>3. Zeros(p, Len(s) + 1 + from, Len(s) + 1 + z)
        <5> HIDE DEF from
        <5> QED BY <4>2, <4>5, <1>10
      <4> QED BY <4>1, <4>3
    <3> HIDE DEF n, b
    <3> QED BY <1>4, <2>3, <3>1, <3>2, FillFills
  <2> HIDE DEF f
  <2>6. Size(f) = b BY <2>4, <2>5 DEF Alike, Size
  <2>7. Filled(g, p, q + 1, Size(g), S) /\ Alike(f, g)
    <3>1. (q + 1) * b + (b - 1) = Len(s) + z + 2 /\ (q + 1) * b + b = Len(s) + z + 3 /\ q + 1 \in Nat BY <2>12
    <3>2. p[(q + 1) * b + (b - 1)] = x /\ p[(q + 1) * b + b] = y BY <3>1 DEF Ended
    <3> HIDE DEF x, y
    <3> QED BY <1>4, <2>5, <2>6, <3>1, <3>2, EndFills
  <2>8. PadMessage(c, pad) = ProcessMessageBlock(g)
    <3>1. c.index >= n BY <1>2, <1>9
    <3> QED BY <3>1 DEF PadMessage, e, f, h, k, LengthPlaces
  <2> HIDE DEF g
  <2>9. Filled(ProcessMessageBlock(g), p, q + 1 + 1, 0, S) /\ Alike(g, ProcessMessageBlock(g))
    <3>1. q + 1 \in Nat OBVIOUS
    <3> QED BY <2>7, <3>1, ProcessFills
  <2>10. Alike(c, ProcessMessageBlock(g)) BY <1>6, <2>1, <2>3, <2>5, <2>7, <2>9 DEF Alike
  <2>11. q + 1 + 1 = q + 2 OBVIOUS
  <2> QED BY <2>8, <2>9, <2>10, <2>11
<1> QED BY <1>8, <1>9

Joins(S, u, s, t) ==
    /\ u \in Seq(S) /\ Len(u) = Len(s) + Len(t) /\ Len(s) \in Nat /\ Len(t) \in Nat
    /\ \A i \in 1 .. Len(s) : u[i] = s[i]
    /\ \A i \in 1 .. Len(t) : u[Len(s) + i] = t[i]

LEMMA JoinedIs ==
    ASSUME NEW S, NEW s \in Seq(S), NEW t \in Seq(S)
    PROVE  Joins(S, s \o t, s, t)
BY DEF Joins

LEMMA ManyIs ==
    ASSUME NEW S, NEW n \in Nat, NEW f \in [1 .. n -> S]
    PROVE  f \in Seq(S) /\ Len(f) = n
OBVIOUS

LEMMA PartIs ==
    ASSUME NEW S, NEW p \in Seq(S), NEW from \in Nat, NEW b \in Nat, from + b <= Len(p)
    PROVE  LET part == SubSeq(p, from + 1, from + b)
           IN  part \in Seq(S) /\ Len(part) = b /\ \A j \in 1 .. b : part[j] = p[from + j]
<1> DEFINE part == SubSeq(p, from + 1, from + b)
<1>1. Len(p) \in Nat /\ \A j \in 1 .. b : from + j \in 1 .. Len(p) OBVIOUS
<1>2. part = [j \in 1 .. b |-> p[from + j]]
  <2>1. part = [j \in 1 .. (1 + (from + b)) - (from + 1) |-> p[(from + 1 + j) - 1]] OBVIOUS
  <2>2. (1 + (from + b)) - (from + 1) = b /\ \A j \in 1 .. b : (from + 1 + j) - 1 = from + j OBVIOUS
  <2> HIDE DEF part
  <2> QED BY <2>1, <2>2
<1>3. \A j \in 1 .. b : p[from + j] \in S BY <1>1
<1> HIDE DEF part
<1>4. part \in [1 .. b -> S] /\ \A j \in 1 .. b : part[j] = p[from + j] BY <1>2, <1>3
<1> QED BY <1>4, ManyIs DEF part

\* p is s, pad, z zeros, x and y
EndsWith(S, p, s, pad, z, x, y) ==
    /\ p \in Seq(S) /\ Len(p) = Len(s) + z + 3
    /\ \A i \in 1 .. Len(s) : p[i] = s[i]
    /\ p[Len(s) + 1] = pad
    /\ \A j \in 1 .. z : p[Len(s) + 1 + j] = Zero
    /\ p[Len(s) + z + 2] = x /\ p[Len(s) + z + 3] = y

LEMMA EndingIs ==
    ASSUME NEW S, Zero \in S, NEW s \in Seq(S), NEW pad \in S, NEW z \in Nat, NEW x \in S, NEW y \in S
    PROVE  EndsWith(S, s \o <<pad>> \o [i \in 1 .. z |-> Zero] \o <<x, y>>, s, pad, z, x, y)
<1> DEFINE a == s \o <<pad>>
           f == [i \in 1 .. z |-> Zero]
           b == a \o f
           w == <<x, y>>
           p == b \o w
           n == Len(s)
<1>1. n \in Nat /\ s \in Seq(S) OBVIOUS
<1>2. a \in Seq(S) /\ Len(a) = n + 1 /\ (\A i \in 1 .. n : a[i] = s[i]) /\ a[n + 1] = pad
  <2>1. <<pad>> \in Seq(S) /\ Len(<<pad>>) = 1 /\ <<pad>>[1] = pad /\ 1 \in 1 .. 1 OBVIOUS
  <2>2. Joins(S, a, s, <<pad>>) BY <2>1, JoinedIs
  <2> HIDE DEF a
  <2> QED BY <2>1, <2>2 DEF Joins
<1>3. f \in Seq(S) /\ Len(f) = z /\ \A j \in 1 .. z : f[j] = Zero
  <2>1. f \in [1 .. z -> S] /\ \A j \in 1 .. z : f[j] = Zero OBVIOUS
  <2> HIDE DEF f
  <2> QED BY <2>1, ManyIs
<1>4. w \in Seq(S) /\ Len(w) = 2 /\ w[1] = x /\ w[2] = y OBVIOUS
<1> HIDE DEF a, f, w
<1>5. /\ b \in Seq(S) /\ Len(b) = n + 1 + z
      /\ \A i \in 1 .. n + 1 : b[i] = a[i]
      /\ \A j \in 1 .. z : b[n + 1 + j] = Zero
  <2>1. Joins(S, b, a, f) BY <1>2, <1>3, JoinedIs
  <2> HIDE DEF b
  <2> QED BY <1>2, <1>3, <2>1 DEF Joins
<1> HIDE DEF b
<1>6. /\ p \in Seq(S) /\ Len(p) = n + 1 + z + 2
      /\ \A i \in 1 .. n + 1 + z : p[i] = b[i]
      /\ \A j \in 1 .. 2 : p[n + 1 + z + j] = w[j]
  <2>1. Joins(S, p, b, w) BY <1>4, <1>5, JoinedIs
  <2> HIDE DEF p
  <2> QED BY <1>4, <1>5, <2>1 DEF Joins
<1> HIDE DEF p
<1>7. \A i \in 1 .. n : i \in 1 .. n + 1 + z /\ i \in 1 .. n + 1 BY <1>1
<1>8. n + 1 \in 1 .. n + 1 + z /\ n + 1 \in 1 .. n + 1 BY <1>1
<1>9. \A j \in 1 .. z : n + 1 + j \in 1 .. n + 1 + z BY <1>1
<1>10. 1 \in 1 .. 2 /\ 2 \in 1 .. 2 OBVIOUS
<1>11. p[n + 1 + z + 1] = x /\ p[n + 1 + z + 2] = y BY <1>4, <1>6, <1>10
<1>12. n + 1 + z + 1 = n + z + 2 /\ n + 1 + z + 2 = n + z + 3 BY <1>1
<1>13. p[n + 1] = pad BY <1>2, <1>5, <1>6, <1>8
<1>14. \A i \in 1 .. n : p[i] = s[i] BY <1>2, <1>5, <1>6, <1>7
<1>15. \A j \in 1 .. z : p[n + 1 + j] = Zero BY <1>5, <1>6, <1>9
<1>16. p[n + z + 2] = x /\ p[n + z + 3] = y /\ Len(p) = n + z + 3 BY <1>6, <1>11, <1>12
<1>17. EndsWith(S, p, s, pad, z, x, y) BY <1>6, <1>13, <1>14, <1>15, <1>16 DEF EndsWith
<1> QED BY <1>17 DEF p, b, a, f, w

\* l is q blocks of b and r more
Places(l, b, q, r) ==
    l \in Nat /\ b \in Nat /\ b >= 3 /\ q \in Nat /\ r \in Nat /\ r < b /\ l = q * b + r

\* two words that count total
Counts(low, high, total) ==
    low \in 0 .. Word - 1 /\ high \in 0 .. Word - 1 /\ low + high * Word = total

\* how many zeros there are, and blocks with them
ZerosAfter(b, r) == IF r + 3 <= b THEN b - 3 - r ELSE b + b - 3 - r
BlocksOf(b, q, r) == IF r + 3 <= b THEN q + 1 ELSE q + 2

LEMMA ZerosFit ==
    ASSUME NEW l, NEW b, NEW q, NEW r, Places(l, b, q, r)
    PROVE  /\ ZerosAfter(b, r) \in 0 .. b - 1 /\ ZerosAfter(b, r) \in Nat
           /\ BlocksOf(b, q, r) \in Nat
           /\ l + 3 + ZerosAfter(b, r) = BlocksOf(b, q, r) * b
           /\ (CHOOSE y \in 0 .. b - 1 : (l + 1 + y + LengthPlaces) % b = 0) = ZerosAfter(b, r)
<1> DEFINE z == ZerosAfter(b, r)
           m == BlocksOf(b, q, r)
<1> USE DEF Places
<1>1. q * b \in Nat /\ (q + 1) * b = q * b + b /\ (q + 2) * b = q * b + b + b BY Products
<1>2. z \in 0 .. b - 1 /\ z \in Nat /\ m \in Nat BY DEF ZerosAfter, BlocksOf
<1>3. l \in Nat OBVIOUS
<1>4. l + 3 + z = m * b
  <2>1. CASE r + 3 <= b
    <3>1. z = b - 3 - r /\ m = q + 1 BY <2>1 DEF ZerosAfter, BlocksOf
    <3> HIDE DEF z, m
    <3> QED BY <3>1, <1>1
  <2>2. CASE ~(r + 3 <= b)
    <3>1. z = b + b - 3 - r /\ m = q + 2 BY <2>2 DEF ZerosAfter, BlocksOf
    <3> HIDE DEF z, m
    <3> QED BY <3>1, <1>1
  <2> QED BY <2>1, <2>2
<1> HIDE DEF z, m
<1>5. (CHOOSE y \in 0 .. b - 1 : (l + 3 + y) % b = 0) = z
  <2>1. b \in Nat \ {0} /\ l + 3 \in Nat BY <1>3
  <2> QED BY <1>2, <1>4, <2>1, ZerosAre
<1>6. \A y \in 0 .. b - 1 : l + 1 + y + LengthPlaces = l + 3 + y BY <1>3 DEF LengthPlaces
<1>7. (CHOOSE y \in 0 .. b - 1 : (l + 1 + y + LengthPlaces) % b = 0) = z BY <1>5, <1>6
<1> QED BY <1>2, <1>4, <1>7 DEF z, m

LEMMA PadInMarks == ASSUME NEW bits \in {0, LastByte}, NEW n \in 0 .. 7 PROVE PadByte(bits, n) \in Marks
BY DEF Marks

\* p is s with the end of the standard, in whole blocks of b
IsPadded(S, p, s, b, q, r, pad, high, low) ==
    /\ p \in Seq(S) /\ Len(p) = BlocksOf(b, q, r) * b
    /\ Ended(p, s, pad, ZerosAfter(b, r), high, low)

\* FIPS 180: what a message is padded to
LEMMA PaddedIs ==
    ASSUME HashesAssumption, NEW v \in SHAversions, NEW S, Marks \subseteq S, NEW s \in Seq(S), NEW bits \in {0, LastByte}, NEW n \in 0 .. 7,
           PadIs(bits, n), NEW low, NEW high, Counts(low, high, 8 * Len(s) + n),
           NEW q, NEW r, Places(Len(s), BlockSize[v], q, r)
    PROVE  IsPadded(S, Padded(v, s, bits, n), s, BlockSize[v], q, r, PadByte(bits, n), high, low)
<1> DEFINE b == BlockSize[v]
           p == Padded(v, s, bits, n)
           z == ZerosAfter(b, r)
           pad == PadByte(bits, n)
           x == <<"word", high>>
           y == <<"word", low>>
<1>1. b \in Nat /\ b >= 3 BY DEF HashesAssumption
<1>2. Len(s) \in Nat /\ low \in 0 .. Word - 1 /\ high \in 0 .. Word - 1 BY DEF Counts
<1>3. /\ z \in Nat /\ Len(s) + 3 + z = BlocksOf(b, q, r) * b
      /\ (CHOOSE k \in 0 .. b - 1 : (Len(s) + 1 + k + LengthPlaces) % b = 0) = z
  BY ZerosFit
<1>4. (8 * Len(s) + n) \div Word = high /\ (8 * Len(s) + n) % Word = low
  <2>1. Word \in Nat \ {0} /\ high \in Nat /\ low \in Nat /\ low < Word BY <1>2 DEF HashesAssumption
  <2>2. (high * Word + low) \div Word = high /\ (high * Word + low) % Word = low BY <2>1, Divided
  <2>3. high * Word \in Nat BY <2>1, Products
  <2>4. high * Word + low = 8 * Len(s) + n BY <2>1, <2>3 DEF Counts
  <2> QED BY <2>2, <2>4
<1>5. p = s \o <<pad>> \o [i \in 1 .. z |-> Zero] \o <<x, y>>
  BY <1>3, <1>4, Zenon DEF Padded, PadIs
<1>6. Zero \in S /\ pad \in S /\ x \in S /\ y \in S
  <2>1. high \in Nat /\ low \in Nat BY <1>2 DEF HashesAssumption
  <2>2. pad \in Marks BY PadInMarks
  <2>3. Zero \in Marks /\ x \in Marks /\ y \in Marks BY <2>1 DEF Marks
  <2> QED BY <2>2, <2>3
<1> HIDE DEF p, pad, x, y, z
<1>7. /\ p \in Seq(S) /\ Len(p) = Len(s) + z + 3
      /\ \A i \in 1 .. Len(s) : p[i] = s[i]
      /\ p[Len(s) + 1] = pad
      /\ \A j \in 1 .. z : p[Len(s) + 1 + j] = Zero
      /\ p[Len(s) + z + 2] = x /\ p[Len(s) + z + 3] = y
  <2>1. z \in Nat BY <1>3
  <2>2. EndsWith(S, p, s, pad, z, x, y) BY <1>5, <1>6, <2>1, EndingIs
  <2> QED BY <2>2 DEF EndsWith
<1>8. Ended(p, s, pad, z, high, low) BY <1>7 DEF Ended, x, y
<1>9. Len(p) = BlocksOf(b, q, r) * b
  <2>1. Len(s) + z + 3 = Len(s) + 3 + z BY <1>2, <1>3
  <2> QED BY <1>3, <1>7, <2>1
<1> QED BY <1>7, <1>8, <1>9 DEF p, pad, z, IsPadded

\* the blocks of p after the initial value, as the standard has them
InBlocks(v, p) ==
    InitialHash(v) \o
      [i \in 1 .. Len(p) \div BlockSize[v] |-> SubSeq(p, (i - 1) * BlockSize[v] + 1, i * BlockSize[v])]

LEMMA HashIs ==
    ASSUME HashesAssumption, NEW v \in SHAversions, NEW S, v \in S, NEW d, NEW p \in Seq(S), NEW m \in Nat,
           Filled(d, p, m, 0, S), d.whichSha = v, Len(p) = m * BlockSize[v]
    PROVE  d.hash = InBlocks(v, p)
<1> DEFINE b == BlockSize[v]
           parts == [i \in 1 .. m |-> SubSeq(p, (i - 1) * b + 1, i * b)]
           h == InitialHash(v) \o parts
<1>1. b \in Nat /\ b >= 3 /\ Size(d) = b BY DEF HashesAssumption, Size
<1>2. Len(p) \div b = m
  <2>1. b \in Nat \ {0} /\ 0 \in Nat /\ 0 < b BY <1>1
  <2>2. (m * b + 0) \div b = m BY <2>1, Divided
  <2>3. m * b + 0 = m * b BY <1>1, Products
  <2> QED BY <2>2, <2>3
<1>3. h = InBlocks(v, p) BY <1>2 DEF InBlocks
<1>4. ASSUME NEW i \in 1 .. m
      PROVE  /\ parts[i] \in Seq(S) /\ Len(parts[i]) = b
             /\ \A j \in 1 .. b : parts[i][j] = p[(i - 1) * b + j]
  <2> DEFINE k == (i - 1) * b
  <2>1. i - 1 \in Nat /\ i - 1 < m OBVIOUS
  <2>2. k \in Nat /\ i * b = k + b
    <3>1. k \in Nat /\ (i - 1 + 1) * b = k + b BY <1>1, <2>1, Products
    <3>2. i - 1 + 1 = i OBVIOUS
    <3> QED BY <3>1, <3>2
  <2>3. k + b <= Len(p) BY <1>1, <2>1, MoreTimes
  <2>4. parts[i] = SubSeq(p, k + 1, k + b)
    <3>1. parts[i] = SubSeq(p, k + 1, i * b) OBVIOUS
    <3> HIDE DEF k, parts
    <3> QED BY <2>2, <3>1
  <2> HIDE DEF k, parts, b
  <2>5. /\ SubSeq(p, k + 1, k + b) \in Seq(S) /\ Len(SubSeq(p, k + 1, k + b)) = b
        /\ \A j \in 1 .. b : SubSeq(p, k + 1, k + b)[j] = p[k + j]
    BY <1>1, <2>2, <2>3, PartIs
  <2>6. /\ parts[i] \in Seq(S) /\ Len(parts[i]) = b
        /\ \A j \in 1 .. b : parts[i][j] = p[k + j]
    BY <2>4, <2>5
  <2> QED BY <2>6 DEF k
<1>5. parts \in Seq(Seq(S)) /\ Len(parts) = m
  <2>1. parts = [i \in 1 .. m |-> parts[i]] OBVIOUS
  <2> HIDE DEF parts
  <2>2. parts \in [1 .. m -> Seq(S)] BY <1>4, <2>1
  <2> QED BY <2>2, ManyIs
<1>6. /\ d.hash \in Seq(Seq(S)) /\ Len(d.hash) = m + 1 /\ d.hash[1] = <<v>>
      /\ \A i \in 1 .. m : /\ d.hash[i + 1] \in Seq(S) /\ Len(d.hash[i + 1]) = b
                            /\ \A j \in 1 .. b : d.hash[i + 1][j] = p[(i - 1) * b + j]
  <2>1. d.hash \in Seq(Seq(S)) BY DEF Filled, Context
  <2>2. Len(d.hash) = m + 1 BY DEF Filled
  <2>3. ASSUME NEW i \in 1 .. m PROVE d.hash[i + 1] \in Seq(S)
    <3> DEFINE hash == d.hash
               T == Seq(S)
    <3>1. hash \in Seq(T) /\ i + 1 \in 1 .. Len(hash) BY <2>1, <2>2
    <3> HIDE DEF hash, T
    <3>2. hash[i + 1] \in T BY <3>1
    <3> QED BY <3>2 DEF hash, T
  <2>4. d.hash[1] = <<v>> BY DEF Filled
  <2>5. \A i \in 1 .. m : Len(d.hash[i + 1]) = b /\ \A j \in 1 .. b : d.hash[i + 1][j] = p[(i - 1) * b + j]
    <3>1. \A i \in 1 .. m : /\ Len(d.hash[i + 1]) = Size(d)
                              /\ \A j \in 1 .. Size(d) : d.hash[i + 1][j] = p[(i - 1) * Size(d) + j]
      BY Zenon DEF Filled
    <3> HIDE DEF b
    <3> QED BY <1>1, <3>1, Zenon
  <2> HIDE DEF b
  <2> QED BY <2>1, <2>2, <2>3, <2>4, <2>5
<1> HIDE DEF parts, b
<1>7. \A i \in 1 .. m : d.hash[i + 1] = parts[i]
  <2> SUFFICES ASSUME NEW i \in 1 .. m PROVE d.hash[i + 1] = parts[i] OBVIOUS
  <2> DEFINE x == d.hash[i + 1]
             y == parts[i]
  <2>1. x \in Seq(S) /\ Len(x) = b /\ y \in Seq(S) /\ Len(y) = b BY <1>4, <1>6
  <2>2. \A j \in 1 .. b : x[j] = y[j] BY <1>4, <1>6
  <2> HIDE DEF x, y
  <2>3. x = y BY <2>1, <2>2, SameSequence
  <2> QED BY <2>3 DEF x, y
<1>8. h \in Seq(Seq(S)) /\ Len(h) = m + 1 /\ h[1] = <<v>> /\ \A i \in 1 .. m : h[i + 1] = parts[i]
  <2>1. InitialHash(v) \in Seq(Seq(S)) /\ Len(InitialHash(v)) = 1 /\ InitialHash(v)[1] = <<v>>
    <3>1. <<v>> \in Seq(S) OBVIOUS
    <3> QED BY <3>1 DEF InitialHash
  <2>2. Joins(Seq(S), h, InitialHash(v), parts) BY <1>5, <2>1, JoinedIs
  <2> HIDE DEF h
  <2> QED BY <1>5, <2>1, <2>2 DEF Joins
<1> HIDE DEF h
<1>9. \A i \in 1 .. m + 1 : d.hash[i] = h[i]
  <2>1. \A i \in 1 .. m + 1 : i = 1 \/ (i - 1 \in 1 .. m /\ i - 1 + 1 = i) OBVIOUS
  <2>2. \A i \in 1 .. m : d.hash[i + 1] = h[i + 1] BY <1>7, <1>8
  <2> QED BY <1>6, <1>8, <2>1, <2>2
<1>10. d.hash = h
  <2> DEFINE g == d.hash
  <2>1. g \in Seq(Seq(S)) /\ h \in Seq(Seq(S)) /\ Len(g) = Len(h) /\ \A i \in 1 .. Len(g) : g[i] = h[i]
    BY <1>6, <1>8, <1>9
  <2> HIDE DEF g
  <2>2. g = h BY <2>1, SameSequence
  <2> QED BY <2>2 DEF g
<1> QED BY <1>3, <1>10

\* A context that was given s: it has hashed the blocks, holds the rest, and counts the bits.
Fed(c, v, s, S) ==
    /\ c.whichSha = v /\ ~c.computed /\ c.corrupted = 0
    /\ s \in Seq(S) /\ Counts(c.low, c.high, 8 * Len(s))
    /\ \E q \in Nat : Places(Len(s), BlockSize[v], q, c.index) /\ Filled(c, s, q, c.index, S)

\* what a call that ends the message leaves
Finalized(S, c, d, v, s, bits, n) ==
    /\ d \in Context(S) /\ d.whichSha = v /\ d.computed /\ d.corrupted = c.corrupted
    /\ Truncated(v, d.hash) = Hashed(v, s, bits, n)

LEMMA FinalizeIs ==
    ASSUME HashesAssumption, NEW v \in SHAversions, NEW S, Marks \subseteq S, NEW s \in Seq(S), NEW bits \in {0, LastByte}, NEW n \in 0 .. 7,
           PadIs(bits, n), NEW c, NEW q \in Nat, Filled(c, s, q, c.index, S), c.whichSha = v,
           Places(Len(s), BlockSize[v], q, c.index), Counts(c.low, c.high, 8 * Len(s) + n)
    PROVE  Finalized(S, c, Finalize(c, PadByte(bits, n)), v, s, bits, n)
<1> DEFINE b == BlockSize[v]
           r == c.index
           p == Padded(v, s, bits, n)
           pad == PadByte(bits, n)
           z == ZerosAfter(b, r)
           m == BlocksOf(b, q, r)
           e == PadMessage(c, pad)
<1>1. c \in Context(S) /\ r \in Nat BY DEF Filled, Context
<1>2. b \in Nat /\ b >= 3 /\ Size(c) = b BY DEF HashesAssumption, Size
<1>3. /\ p \in Seq(S) /\ Len(p) = m * b
      /\ Ended(p, s, pad, z, c.high, c.low)
  <2>1. IsPadded(S, p, s, b, q, r, pad, c.high, c.low) BY PaddedIs
  <2> HIDE DEF p, pad, b
  <2> QED BY <2>1 DEF IsPadded
<1>4. z \in Nat /\ m \in Nat
  BY ZerosFit
<1>5. pad \in S /\ v \in S
  <2>1. pad \in Marks BY PadInMarks
  <2> QED BY <2>1 DEF Marks
<1> HIDE DEF p, pad, e
<1>6. /\ r + 3 <= b /\ z = b - 3 - r => Filled(e, p, q + 1, 0, S) /\ Alike(c, e)
      /\ r + 3 > b /\ z = b + b - 3 - r => Filled(e, p, q + 2, 0, S) /\ Alike(c, e)
  <2> HIDE DEF b, z, m
  <2>1. r < Size(c) /\ Len(s) = q * Size(c) + r /\ Filled(c, s, q, r, S) /\ c.index = r BY <1>2 DEF b, Places
  <2> HIDE DEF r
  <2> QED BY <1>1, <1>2, <1>3, <1>4, <1>5, <2>1, PadMessageFills DEF e
<1>7. Filled(e, p, m, 0, S) /\ Alike(c, e)
  <2>1. CASE r + 3 <= b
    <3>1. z = b - 3 - r /\ m = q + 1 BY <2>1 DEF ZerosAfter, BlocksOf
    <3> QED BY <2>1, <3>1, <1>6
  <2>2. CASE ~(r + 3 <= b)
    <3>1. z = b + b - 3 - r /\ m = q + 2 BY <2>2 DEF ZerosAfter, BlocksOf
    <3>2. r + 3 > b BY <1>1, <1>2, <2>2
    <3> QED BY <3>1, <3>2, <1>6
  <2> QED BY <2>1, <2>2
<1> HIDE DEF m, z
<1>8. e.hash = InBlocks(v, p)
  <2>1. e.whichSha = v BY <1>7 DEF Alike
  <2> QED BY <1>3, <1>4, <1>5, <1>7, <2>1, HashIs
<1>9. Hashed(v, s, bits, n) = Truncated(v, InBlocks(v, p)) BY Zenon DEF Hashed, InBlocks, p
<1>10. Finalize(c, pad) = Cleared(e)
  BY DEF Finalize, SHA1Finalize, SHA224_256Finalize, SHA384_512Finalize,
         SHA1PadMessage, SHA224_256PadMessage, SHA384_512PadMessage, e
<1>11. LET d == Cleared(e) IN d \in Context(S) /\ d.whichSha = v /\ d.computed /\ d.corrupted = c.corrupted /\ d.hash = e.hash
  <2>1. e \in Context(S) BY <1>7 DEF Filled
  <2>2. e.whichSha = v /\ e.corrupted = c.corrupted BY <1>7 DEF Alike
  <2>3. 0 \in 0 .. Word - 1 BY DEF HashesAssumption
  <2> DEFINE block == [i \in DOMAIN e.block |-> Zero]
  <2>4. block \in Seq(S)
    <3>1. e.block \in Seq(S) /\ Zero \in S BY <2>1 DEF Context, Marks
    <3>2. Len(e.block) \in Nat /\ block \in [1 .. Len(e.block) -> S] BY <3>1
    <3> HIDE DEF block
    <3> QED BY <3>2, ManyIs
  <2>5. Cleared(e) = [e EXCEPT !.block = block, !.low = 0, !.high = 0, !.computed = TRUE] BY DEF Cleared
  <2> HIDE DEF block
  <2> QED BY <2>1, <2>2, <2>3, <2>4, <2>5 DEF Context
<1> DEFINE d == Finalize(c, pad)
<1>12. d \in Context(S) /\ d.whichSha = v /\ d.computed /\ d.corrupted = c.corrupted /\ d.hash = e.hash BY <1>10, <1>11
<1> HIDE DEF d
<1>13. Finalized(S, c, d, v, s, bits, n) BY <1>8, <1>9, <1>12 DEF Finalized
<1> QED BY <1>13 DEF d, pad

-----------------------------------------------------------------------------
(* Digests: what is given.                                                  *)

\* what AddLength makes of two words
LEMMA CountMore ==
    ASSUME NEW w \in Nat, w > 8, NEW low \in 0 .. w - 1, NEW high \in 0 .. w - 1, NEW n \in 0 .. 8
    PROVE  LET low2 == (low + n) % w
               high2 == IF low2 < low THEN (high + 1) % w ELSE high
           IN  /\ low2 \in 0 .. w - 1 /\ high2 \in 0 .. w - 1
               /\ low2 < low /\ high2 = 0 => low + high * w + n >= w * w
               /\ ~(low2 < low /\ high2 = 0) => low2 + high2 * w = low + high * w + n /\ low + high * w + n < w * w
<1> DEFINE low2 == (low + n) % w
           high2 == IF low2 < low THEN (high + 1) % w ELSE high
           hw == high * w
           ww == w * w
<1>1. w \in Nat \ {0} /\ hw \in Nat /\ ww \in Nat /\ (high + 1) * w = hw + w BY Products
<1>2. hw + w <= ww BY <1>1, MoreTimes
<1>3. CASE low + n < w
  <2>1. low2 = low + n
    <3>1. (0 * w + (low + n)) % w = low + n
      <4>1. low + n \in Nat /\ 0 \in Nat OBVIOUS
      <4> QED BY <1>1, <1>3, <4>1, Divided
    <3>2. 0 * w + (low + n) = low + n BY <1>1
    <3> QED BY <3>1, <3>2
  <2>2. high2 = high BY <2>1
  <2> HIDE DEF low2, high2, hw, ww
  <2>3. low2 + hw = low + hw + n /\ low + hw + n < ww BY <1>1, <1>2, <1>3, <2>1
  <2>4. ~(low2 < low) /\ low2 \in 0 .. w - 1 BY <2>1, <1>3
  <2> QED BY <2>2, <2>3, <2>4 DEF hw, ww, low2, high2
<1>4. CASE ~(low + n < w)
  <2>1. low2 = low + n - w
    <3>1. (1 * w + (low + n - w)) % w = low + n - w
      <4>1. low + n - w \in Nat /\ 1 \in Nat /\ low + n - w < w BY <1>4
      <4> QED BY <1>1, <4>1, Divided
    <3>2. 1 * w + (low + n - w) = low + n BY <1>1
    <3> QED BY <3>1, <3>2
  <2>2. low2 < low /\ low2 \in 0 .. w - 1 BY <2>1, <1>4
  <2>3. CASE high + 1 < w
    <3>1. high2 = high + 1
      <4>1. (0 * w + (high + 1)) % w = high + 1
        <5>1. high + 1 \in Nat /\ 0 \in Nat OBVIOUS
        <5> QED BY <1>1, <2>3, <5>1, Divided
      <4>2. 0 * w + (high + 1) = high + 1 BY <1>1
      <4> QED BY <2>2, <4>1, <4>2
    <3>2. high + 1 # 0 /\ high + 1 \in 0 .. w - 1 BY <2>3
    <3>3. hw + w + w <= ww
      <4>1. (high + 1) * w + w <= w * w
        <5>1. high + 1 \in Nat OBVIOUS
        <5> QED BY <2>3, <5>1, MoreTimes
      <4> QED BY <4>1, <1>1
    <3> HIDE DEF low2, high2, hw, ww
    <3>4. low2 + (hw + w) = low + hw + n /\ low + hw + n < ww BY <1>1, <2>1, <3>3
    <3>5. high2 * w = hw + w BY <1>1, <3>1
    <3>6. ~(low2 < low /\ high2 = 0) /\ high2 \in 0 .. w - 1 BY <3>1, <3>2
    <3> QED BY <2>2, <3>4, <3>5, <3>6 DEF hw, ww, low2, high2
  <2>4. CASE ~(high + 1 < w)
    <3>1. high + 1 = w BY <2>4
    <3>2. high2 = 0
      <4>1. (1 * w + 0) % w = 0
        <5>1. 1 \in Nat /\ 0 \in Nat /\ 0 < w OBVIOUS
        <5> QED BY <1>1, <5>1, Divided
      <4>2. 1 * w + 0 = w BY <1>1
      <4> QED BY <2>2, <3>1, <4>1, <4>2
    <3>3. hw + w = ww BY <1>1, <3>1
    <3> HIDE DEF low2, high2, hw, ww
    <3>4. low + hw + n >= ww BY <1>1, <1>4, <3>3
    <3>5. 0 \in 0 .. w - 1 OBVIOUS
    <3> QED BY <2>2, <3>2, <3>4, <3>5 DEF hw, ww, low2, high2
  <2> QED BY <2>3, <2>4
<1> QED BY <1>3, <1>4

\* but for the length
Lengthened(S, c, d, total) ==
    /\ d \in Context(S) /\ d.whichSha = c.whichSha /\ d.hash = c.hash /\ d.block = c.block
    /\ d.index = c.index /\ d.computed = c.computed
    /\ IF total <= Longest THEN d.corrupted = 0 /\ Counts(d.low, d.high, total) ELSE d.corrupted # 0

LEMMA AddLengthIs ==
    ASSUME HashesAssumption, NEW S, NEW c \in Context(S), NEW total \in Nat, Counts(c.low, c.high, total), NEW n \in 0 .. 8
    PROVE  Lengthened(S, c, AddLength(c, n), total + n)
<1> DEFINE low == (c.low + n) % Word
           high == IF low < c.low THEN (c.high + 1) % Word ELSE c.high
           over == low < c.low /\ high = 0
           d == [c EXCEPT !.low = low, !.high = high, !.corrupted = IF over THEN TooLong ELSE 0]
<1>1. Word \in Nat /\ Word > 8 BY DEF HashesAssumption
<1>2. c.low \in 0 .. Word - 1 /\ c.high \in 0 .. Word - 1 /\ c.low + c.high * Word = total BY DEF Counts
<1>3. /\ low \in 0 .. Word - 1 /\ high \in 0 .. Word - 1
      /\ over => total + n >= Word * Word
      /\ ~over => low + high * Word = total + n /\ total + n < Word * Word
  <2>1. /\ low \in 0 .. Word - 1 /\ high \in 0 .. Word - 1
        /\ over => c.low + c.high * Word + n >= Word * Word
        /\ ~over => low + high * Word = c.low + c.high * Word + n /\ c.low + c.high * Word + n < Word * Word
    BY <1>1, <1>2, CountMore
  <2> HIDE DEF low, high, over
  <2> QED BY <1>2, <2>1
<1>4. AddLength(c, n) = d BY DEF AddLength
<1> HIDE DEF low, high, over
<1>5. /\ d \in Context(S) /\ d.whichSha = c.whichSha /\ d.hash = c.hash /\ d.block = c.block
      /\ d.index = c.index /\ d.computed = c.computed
      /\ d.low = low /\ d.high = high /\ d.corrupted = IF over THEN TooLong ELSE 0
  BY <1>3 DEF Context, TooLong
<1> HIDE DEF d
<1>6. Word * Word \in Nat BY <1>1, Products
<1>7. CASE over
  <2>1. d.corrupted # 0 BY <1>5, <1>7 DEF TooLong
  <2>2. ~(total + n <= Longest) BY <1>3, <1>6, <1>7 DEF Longest
  <2> QED BY <1>4, <1>5, <2>1, <2>2 DEF Lengthened
<1>8. CASE ~over
  <2>1. d.corrupted = 0 BY <1>5, <1>8
  <2>2. total + n <= Longest BY <1>3, <1>6, <1>8 DEF Longest
  <2>3. Counts(d.low, d.high, total + n) BY <1>3, <1>5, <1>8 DEF Counts
  <2> QED BY <1>4, <1>5, <2>1, <2>2, <2>3 DEF Lengthened
<1> QED BY <1>7, <1>8

\* the message was too long
\* what is needed of a context that has no digest
IsContext(c) ==
    c = [f \in DOMAIN c |-> c[f]] /\ {"whichSha", "low", "high", "computed", "corrupted"} \subseteq DOMAIN c

LEMMA ContextIs == ASSUME NEW S, NEW c \in Context(S) PROVE IsContext(c)
BY DEF Context, IsContext

\* a context that has no digest any more
Spoilt(c, v) == IsContext(c) /\ c.whichSha = v /\ c.corrupted # 0

\* a context that was given t, unless the length of t overflows
Takes(c, v, t, S) == IF 8 * Len(t) <= Longest THEN Fed(c, v, t, S) ELSE Spoilt(c, v)

LEMMA ByteIs ==
    ASSUME HashesAssumption, NEW v \in SHAversions, NEW S, Marks \subseteq S, NEW s, NEW c, Fed(c, v, s, S), NEW x \in S
    PROVE  Takes(InputByte(c, x), v, Append(s, x), S)
<1> DEFINE b == BlockSize[v]
           r == c.index
           t == Append(s, x)
           e == Put(c, x)
           put == AddLength(e, 8)
           d == InputByte(c, x)
<1>1. PICK q \in Nat : Places(Len(s), b, q, r) /\ Filled(c, s, q, r, S) BY DEF Fed
<1>2. /\ s \in Seq(S) /\ Len(s) \in Nat /\ c.whichSha = v /\ ~c.computed /\ c.corrupted = 0
      /\ Counts(c.low, c.high, 8 * Len(s))
  BY DEF Fed
<1>3. t \in Seq(S) /\ Len(t) = Len(s) + 1 /\ t[Len(s) + 1] = x /\ \A i \in 1 .. Len(s) : t[i] = s[i] BY <1>2, AppendIs
<1>4. Size(c) = b /\ b \in Nat /\ b >= 3 /\ r \in Nat /\ r < b /\ Len(s) = q * b + r BY <1>1, <1>2 DEF Places, Size
<1> HIDE DEF b, r, t, e, put
<1>5. q * b \in Nat /\ (q + 1) * b = q * b + b BY <1>4, Products
<1>6. Filled(c, t, q, r, S)
  <2>1. \A i \in 1 .. q * Size(c) + r : t[i] = s[i] BY <1>3, <1>4
  <2> QED BY <1>1, <1>4, <2>1, PrefixFills
<1>7. Filled(e, t, q, r + 1, S) /\ e.index = r + 1 /\ Alike(c, e)
  <2>1. q * Size(c) + (r + 1) = Len(s) + 1 BY <1>4, <1>5
  <2>2. NextIs(t, q, Size(c), r, x) BY <1>3, <2>1 DEF NextIs
  <2>3. c.index = r /\ r < Size(c) BY <1>4 DEF r
  <2>4. FillsOn(S, c, e, t, q, r + 1)
    <3> HIDE DEF d
    <3> QED BY <1>4, <1>6, <2>2, <2>3, PutFills DEF e
  <2> QED BY <2>4 DEF FillsOn
<1>8. Lengthened(S, e, put, 8 * Len(s) + 8)
  <2>1. e \in Context(S) /\ Counts(e.low, e.high, 8 * Len(s)) BY <1>2, <1>7 DEF Filled, Alike
  <2>2. 8 * Len(s) \in Nat /\ 8 \in 0 .. 8 BY <1>2
  <2> QED BY <2>1, <2>2, AddLengthIs DEF put
<1>9. /\ put \in Context(S) /\ put.whichSha = v /\ ~put.computed /\ put.index = r + 1
      /\ put.hash = e.hash /\ put.block = e.block /\ e.whichSha = v
  BY <1>2, <1>7, <1>8 DEF Lengthened, Alike
<1>10. Size(put) = b /\ Size(e) = b BY <1>9 DEF Size, b
<1>11. Filled(put, t, q, r + 1, S)
  <2> HIDE DEF d
  <2> QED BY <1>7, <1>9, SameFill
<1>12. d = IF put.corrupted = 0 /\ put.index = Size(put) THEN ProcessMessageBlock(put) ELSE put
  <2>1. Size(c) = Size(put) BY <1>4, <1>10
  <2> QED BY <2>1 DEF InputByte, put, e
<1> HIDE DEF d
<1>13. 8 * Len(t) = 8 * Len(s) + 8 BY <1>2, <1>3
<1>14. CASE ~(8 * Len(s) + 8 <= Longest)
  <2>1. put.corrupted # 0 BY <1>8, <1>14 DEF Lengthened
  <2>2. d = put BY <1>12, <2>1
  <2>3. Spoilt(d, v) BY <1>9, <2>1, <2>2, ContextIs DEF Spoilt
  <2> QED BY <1>13, <1>14, <2>3 DEF Takes, d, t
<1>15. CASE 8 * Len(s) + 8 <= Longest
  <2>1. put.corrupted = 0 /\ Counts(put.low, put.high, 8 * Len(t))
    <3> QED BY <1>8, <1>13, <1>15 DEF Lengthened
  <2>2. CASE r + 1 = b
    <3>1. Filled(d, t, q + 1, 0, S) /\ d.index = 0 /\ Alike(put, d)
      <4>1. Filled(put, t, q, Size(put), S) BY <1>10, <1>11, <2>2
      <4>2. d = ProcessMessageBlock(put) BY <1>9, <1>10, <1>12, <2>1, <2>2
      <4> QED BY <4>1, <4>2, ProcessFills
    <3>2. Places(Len(t), b, q + 1, 0)
      <4>1. Len(t) = (q + 1) * b + 0 /\ q + 1 \in Nat /\ 0 \in Nat /\ 0 < b
        <5> DEFINE qb == q * b
                   pb == (q + 1) * b
                   l == Len(t)
        <5>1. pb = qb + b /\ qb \in Nat /\ l = qb + r + 1 /\ b \in Nat /\ b >= 3 /\ r \in Nat BY <1>2, <1>3, <1>4, <1>5
        <5> HIDE DEF qb, pb, l
        <5>2. l = pb + 0 /\ 0 < b BY <2>2, <5>1
        <5> QED BY <5>2 DEF pb, l
      <4>2. b \in Nat /\ b >= 3 /\ Len(t) \in Nat BY <1>2, <1>3, <1>4
      <4> QED BY <4>1, <4>2 DEF Places
    <3>3. Fed(d, v, t, S) BY <1>3, <1>9, <2>1, <3>1, <3>2 DEF Fed, Alike, b
    <3> QED BY <1>13, <1>15, <3>3 DEF Takes, d, t
  <2>3. CASE r + 1 # b
    <3>1. d = put BY <1>9, <1>10, <1>12, <2>3
    <3>2. Places(Len(t), b, q, r + 1)
      <4>1. Len(t) = q * b + (r + 1) /\ r + 1 \in Nat /\ r + 1 < b BY <1>2, <1>3, <1>4, <1>5, <2>3
      <4>2. b \in Nat /\ b >= 3 /\ Len(t) \in Nat BY <1>2, <1>3, <1>4
      <4> QED BY <4>1, <4>2 DEF Places
    <3>3. Fed(d, v, t, S) BY <1>3, <1>9, <1>11, <2>1, <3>1, <3>2 DEF Fed, b
    <3> QED BY <1>13, <1>15, <3>3 DEF Takes, d, t
  <2> QED BY <2>2, <2>3
<1> QED BY <1>14, <1>15

\* what InputBytes does with a byte
Taken(c, x) == IF c.corrupted # 0 THEN c ELSE InputByte(c, x)

\* the fold that InputBytes is, over the subsets of the places
FoldsTo(c, t, n, h) ==
    h = [p \in SUBSET (1 .. n) |-> IF p = {} THEN c ELSE Taken(h[p \ {Max(p)}], t[Max(p)])]

LEMMA InputBytesIs ==
    ASSUME NEW c, NEW S, NEW t \in Seq(S)
    PROVE  InputBytes(c, t) = (CHOOSE h : FoldsTo(c, t, Len(t), h))[1 .. Len(t)]
<1>1. DOMAIN t = 1 .. Len(t) OBVIOUS
<1> QED BY <1>1 DEF InputBytes, FoldLeft, MapThenFoldSet, FoldsTo, Taken

LEMMA Greatest ==
    ASSUME NEW n \in Nat, NEW T \in SUBSET (1 .. n), T # {}
    PROVE  Max(T) \in T /\ \A y \in T : Max(T) >= y
<1> DEFINE U == {n - x : x \in T}
<1>1. U \in SUBSET Nat /\ U # {}
  <2>1. \A x \in T : n - x \in Nat OBVIOUS
  <2>2. PICK x \in T : TRUE OBVIOUS
  <2>3. n - x \in U OBVIOUS
  <2> QED BY <2>1, <2>3
<1>2. Min(U) \in U /\ \A y \in U : Min(U) <= y
  <2> HIDE DEF U
  <2> QED BY <1>1, Least
<1>3. PICK x \in T : Min(U) = n - x BY <1>2
<1>4. ASSUME NEW y \in T PROVE x >= y
  <2>1. n - y \in U OBVIOUS
  <2>2. n - x <= n - y BY <1>2, <1>3, <2>1
  <2> QED BY <2>2
<1> QED BY <1>4 DEF Max

LEMMA FoldExists ==
    ASSUME NEW c, NEW t, NEW n \in Nat
    PROVE  \E h : FoldsTo(c, t, n, h)
<1> DEFINE Bad == {m \in Nat : ~\E h : FoldsTo(c, t, m, h)}
<1>1. ASSUME Bad # {} PROVE FALSE
  <2>1. Bad \in SUBSET Nat OBVIOUS
  <2> DEFINE m == Min(Bad)
  <2>2. m \in Bad /\ \A k \in Bad : m <= k
    <3> HIDE DEF Bad
    <3> QED BY <1>1, <2>1, Least
  <2> HIDE DEF m
  <2>3. m \in Nat /\ ~\E h : FoldsTo(c, t, m, h) BY <2>2
  <2>4. m # 0
    <3> DEFINE h == [p \in SUBSET (1 .. 0) |-> c]
    <3>1. \A p \in SUBSET (1 .. 0) : p = {} OBVIOUS
    <3>2. h = [p \in SUBSET (1 .. 0) |-> IF p = {} THEN c ELSE Taken(h[p \ {Max(p)}], t[Max(p)])] BY <3>1
    <3>3. FoldsTo(c, t, 0, h) BY <3>2 DEF FoldsTo
    <3> QED BY <2>3, <3>3
  <2>5. m - 1 \in Nat /\ m - 1 \notin Bad BY <2>2, <2>3, <2>4
  <2>6. PICK g : FoldsTo(c, t, m - 1, g) BY <2>5
  <2> DEFINE h == [p \in SUBSET (1 .. m) |-> IF m \in p THEN Taken(g[p \ {m}], t[m]) ELSE g[p]]
  <2>7. ASSUME NEW p \in SUBSET (1 .. m)
        PROVE  h[p] = IF p = {} THEN c ELSE Taken(h[p \ {Max(p)}], t[Max(p)])
    <3>1. h[p] = IF m \in p THEN Taken(g[p \ {m}], t[m]) ELSE g[p] OBVIOUS
    <3>2. \A o \in SUBSET (1 .. m) : m \notin o => o \in SUBSET (1 .. m - 1) /\ h[o] = g[o] BY <2>3
    <3> HIDE DEF h
    <3>3. CASE m \in p
      <4>1. Max(p) \in p /\ \A y \in p : Max(p) >= y BY <2>3, <3>3, Greatest
      <4>2. Max(p) = m
        <5>1. Max(p) >= m /\ Max(p) \in 1 .. m BY <3>3, <4>1
        <5> QED BY <2>3, <5>1
      <4>3. h[p \ {m}] = g[p \ {m}] BY <3>2
      <4> QED BY <3>1, <3>3, <4>2, <4>3
    <3>4. CASE m \notin p
      <4>1. p \in SUBSET (1 .. m - 1) /\ h[p] = g[p] BY <3>2, <3>4
      <4>2. g[p] = IF p = {} THEN c ELSE Taken(g[p \ {Max(p)}], t[Max(p)]) BY <2>6, <4>1 DEF FoldsTo
      <4>3. p \ {Max(p)} \in SUBSET (1 .. m) /\ m \notin p \ {Max(p)} BY <3>4
      <4>4. h[p \ {Max(p)}] = g[p \ {Max(p)}] BY <3>2, <4>3
      <4> QED BY <4>1, <4>2, <4>4
    <3> QED BY <3>3, <3>4
  <2>8. FoldsTo(c, t, m, h)
    <3>1. h = [p \in SUBSET (1 .. m) |-> h[p]] OBVIOUS
    <3> HIDE DEF h
    <3> QED BY <2>7, <3>1 DEF FoldsTo
  <2> QED BY <2>3, <2>8
<1> QED BY <1>1

\* one byte after another
LEMMA InputBytesSteps ==
    ASSUME NEW c, NEW S, NEW t \in Seq(S)
    PROVE  \E g : /\ g[0] = c /\ \A i \in 1 .. Len(t) : g[i] = Taken(g[i - 1], t[i])
                  /\ InputBytes(c, t) = g[Len(t)]
<1> DEFINE n == Len(t)
           h == CHOOSE f : FoldsTo(c, t, n, f)
           g == [i \in 0 .. n |-> h[1 .. i]]
<1>1. n \in Nat OBVIOUS
<1>2. FoldsTo(c, t, n, h)
  <2> HIDE DEF n
  <2>1. \E f : FoldsTo(c, t, n, f) BY <1>1, FoldExists
  <2> QED BY <2>1
<1>3. InputBytes(c, t) = h[1 .. n] BY InputBytesIs
<1> HIDE DEF n, h
<1>4. g[0] = c
  <2>1. 1 .. 0 = {} /\ {} \in SUBSET (1 .. n) /\ 0 \in 0 .. n BY <1>1
  <2>2. h[{}] = c BY <1>2, <2>1 DEF FoldsTo
  <2> QED BY <2>1, <2>2
<1>5. ASSUME NEW i \in 1 .. n PROVE g[i] = Taken(g[i - 1], t[i])
  <2>1. 1 .. i \in SUBSET (1 .. n) /\ 1 .. i # {} /\ i \in 1 .. i /\ i \in Nat
    <3>1. i \in Nat /\ i >= 1 /\ i <= n BY <1>1
    <3>2. i \in 1 .. i BY <3>1
    <3>3. \A y \in 1 .. i : y \in 1 .. n BY <1>1, <3>1
    <3> QED BY <3>1, <3>2, <3>3
  <2>2. Max(1 .. i) \in 1 .. i /\ Max(1 .. i) >= i
    <3> DEFINE T == 1 .. i
    <3>1. T \in SUBSET (1 .. i) /\ T # {} /\ i \in T BY <2>1
    <3> HIDE DEF T
    <3>2. Max(T) \in T /\ \A y \in T : Max(T) >= y BY <2>1, <3>1, Greatest
    <3>3. Max(T) \in T /\ Max(T) >= i BY <3>1, <3>2
    <3> QED BY <3>3 DEF T
  <2>3. Max(1 .. i) = i BY <2>2
  <2>4. (1 .. i) \ {i} = 1 .. i - 1 BY <2>1
  <2>5. h[1 .. i] = Taken(h[(1 .. i) \ {Max(1 .. i)}], t[Max(1 .. i)]) BY <1>2, <2>1 DEF FoldsTo
  <2>6. h[1 .. i] = Taken(h[1 .. i - 1], t[i]) BY <2>3, <2>4, <2>5
  <2>7. g[i] = h[1 .. i] /\ g[i - 1] = h[1 .. i - 1] BY <1>1
  <2> QED BY <2>6, <2>7
<1>6. g[n] = h[1 .. n] BY <1>1
<1> QED BY <1>3, <1>4, <1>5, <1>6 DEF n

LEMMA CountsFit ==
    ASSUME HashesAssumption, NEW low, NEW high, NEW total, Counts(low, high, total)
    PROVE  total <= Longest
<1> DEFINE hw == high * Word
           ww == Word * Word
<1>1. Word \in Nat /\ low \in 0 .. Word - 1 /\ high \in 0 .. Word - 1 /\ total = low + hw BY DEF Counts, HashesAssumption
<1>2. high \in Nat /\ high < Word BY <1>1
<1>3. hw \in Nat /\ ww \in Nat /\ hw + Word <= ww BY <1>1, <1>2, Products, MoreTimes
<1>4. Longest = ww - 1 BY DEF Longest
<1> HIDE DEF hw, ww
<1> QED BY <1>1, <1>3, <1>4

LEMMA BytesAre ==
    ASSUME HashesAssumption, NEW v \in SHAversions, NEW S, Marks \subseteq S, NEW s, NEW c, Fed(c, v, s, S), NEW t \in Seq(S)
    PROVE  Takes(InputBytes(c, t), v, s \o t, S)
<1> DEFINE l == Len(s)
           n == Len(t)
           Upto(i) == [k \in 1 .. l + i |-> IF k <= l THEN s[k] ELSE t[k - l]]
<1>1. s \in Seq(S) /\ l \in Nat /\ n \in Nat BY DEF Fed
<1>2. PICK g : /\ g[0] = c /\ \A i \in 1 .. n : g[i] = Taken(g[i - 1], t[i])
               /\ InputBytes(c, t) = g[n]
  BY InputBytesSteps
<1>3. ASSUME NEW i \in 0 .. n
      PROVE  /\ Upto(i) \in Seq(S) /\ Len(Upto(i)) = l + i
             /\ \A k \in 1 .. l + i : Upto(i)[k] = IF k <= l THEN s[k] ELSE t[k - l]
  <2> DEFINE u == Upto(i)
  <2>1. ASSUME NEW k \in 1 .. l + i PROVE (IF k <= l THEN s[k] ELSE t[k - l]) \in S
    <3>1. k <= l => s[k] \in S BY <1>1
    <3>2. ~(k <= l) => t[k - l] \in S
      <4>1. ~(k <= l) => k - l \in 1 .. n BY <1>1
      <4> QED BY <4>1
    <3> QED BY <3>1, <3>2
  <2>2. u \in [1 .. l + i -> S] /\ l + i \in Nat BY <1>1, <2>1
  <2>3. \A k \in 1 .. l + i : u[k] = IF k <= l THEN s[k] ELSE t[k - l] OBVIOUS
  <2> HIDE DEF u
  <2>4. u \in Seq(S) /\ Len(u) = l + i BY <2>2, ManyIs
  <2> QED BY <2>3, <2>4 DEF u
<1> DEFINE P(i) == Takes(g[i], v, Upto(i), S)
           Bad == {i \in 0 .. n : ~P(i)}
<1>4. P(0)
  <2>1. Upto(0) = s
    <3> DEFINE u == Upto(0)
    <3>1. 0 \in 0 .. n BY <1>1
    <3>2. u \in Seq(S) /\ Len(u) = l /\ \A k \in 1 .. l : u[k] = s[k]
      <4>1. /\ u \in Seq(S) /\ Len(u) = l + 0
            /\ \A k \in 1 .. l + 0 : u[k] = IF k <= l THEN s[k] ELSE t[k - l]
        BY <1>3, <3>1
      <4> HIDE DEF u
      <4> QED BY <1>1, <4>1
    <3> HIDE DEF u
    <3>3. u = s BY <1>1, <3>2, SameSequence
    <3> QED BY <3>3 DEF u
  <2>2. 8 * Len(s) <= Longest BY CountsFit DEF Fed
  <2> HIDE DEF Upto
  <2> QED BY <1>2, <2>1, <2>2 DEF Takes
<1>5. ASSUME NEW i \in 1 .. n, P(i - 1) PROVE P(i)
  <2> DEFINE u == Upto(i - 1)
             w == Upto(i)
  <2>1. i - 1 \in 0 .. n /\ i \in 0 .. n /\ t[i] \in S /\ l + i - 1 \in Nat BY <1>1
  <2>2. Append(u, t[i]) = w
    <3>1. /\ u \in Seq(S) /\ Len(u) = l + (i - 1)
          /\ \A k \in 1 .. l + (i - 1) : u[k] = IF k <= l THEN s[k] ELSE t[k - l]
      BY <1>3, <2>1
    <3>2. /\ w \in Seq(S) /\ Len(w) = l + i
          /\ \A k \in 1 .. l + i : w[k] = IF k <= l THEN s[k] ELSE t[k - l]
      BY <1>3, <2>1
    <3> HIDE DEF u, w
    <3> DEFINE a == Append(u, t[i])
    <3>3. a \in Seq(S) /\ Len(a) = Len(u) + 1 /\ a[Len(u) + 1] = t[i] /\ \A k \in 1 .. Len(u) : a[k] = u[k]
      <4> DEFINE e == t[i]
      <4>1. e \in S BY <2>1
      <4> HIDE DEF e
      <4>2. /\ Append(u, e) \in Seq(S) /\ Len(Append(u, e)) = Len(u) + 1
            /\ Append(u, e)[Len(u) + 1] = e /\ \A k \in 1 .. Len(u) : Append(u, e)[k] = u[k]
        BY <3>1, <4>1, AppendIs
      <4> QED BY <4>2 DEF e
    <3> HIDE DEF a
    <3>4. ASSUME NEW k \in 1 .. l + i PROVE a[k] = w[k]
      <4>1. CASE k = l + i
        <5>1. ~(k <= l) /\ k - l = i /\ k = Len(u) + 1 BY <1>1, <3>1, <4>1
        <5> QED BY <3>2, <3>3, <5>1
      <4>2. CASE k # l + i
        <5>1. i \in Nat BY <1>1
        <5>2. k \in 1 .. l + (i - 1)
          <6> HIDE DEF l, n
          <6> QED BY <1>1, <4>2, <5>1
        <5> QED BY <3>1, <3>2, <3>3, <5>2
      <4> QED BY <4>1, <4>2
    <3>5. Len(a) = Len(w) BY <1>1, <3>1, <3>2, <3>3
    <3>6. a = w BY <3>2, <3>3, <3>4, <3>5, SameSequence
    <3> QED BY <3>6 DEF a
  <2>3. g[i] = Taken(g[i - 1], t[i]) BY <1>2
  <2>4. Len(u) = l + (i - 1) /\ Len(w) = l + i BY <1>3, <2>1
  <2>5. Takes(g[i - 1], v, u, S) BY <1>5
  <2> HIDE DEF u, w
  <2>6. CASE 8 * Len(u) <= Longest
    <3> DEFINE e == g[i - 1]
               x == t[i]
    <3>1. Fed(e, v, u, S) BY <2>5, <2>6 DEF Takes
    <3>2. x \in S BY <2>1
    <3>3. g[i] = Taken(e, x) BY <2>3
    <3>4. Append(u, x) = w BY <2>2
    <3> HIDE DEF e, x
    <3>5. Takes(InputByte(e, x), v, Append(u, x), S) BY <3>1, <3>2, ByteIs
    <3>6. g[i] = InputByte(e, x) BY <3>1, <3>3 DEF Taken, Fed
    <3>7. Takes(g[i], v, w, S) BY <3>4, <3>5, <3>6
    <3> QED BY <3>7 DEF w
  <2>7. CASE ~(8 * Len(u) <= Longest)
    <3>1. Spoilt(g[i - 1], v) BY <2>5, <2>7 DEF Takes
    <3>2. g[i] = g[i - 1] BY <2>3, <3>1 DEF Taken, Spoilt
    <3>3. ~(8 * Len(w) <= Longest)
      <4>1. Longest \in Int
        <5>1. Word * Word \in Nat BY Products DEF HashesAssumption
        <5> QED BY <5>1 DEF Longest
      <4>2. i \in Nat BY <1>1
      <4> QED BY <1>1, <2>4, <2>7, <4>1, <4>2
    <3>4. Takes(g[i], v, w, S) BY <3>1, <3>2, <3>3 DEF Takes
    <3> QED BY <3>4 DEF w
  <2> QED BY <2>6, <2>7
<1> HIDE DEF P
<1>6. Bad = {}
  <2> SUFFICES ASSUME Bad # {} PROVE FALSE OBVIOUS
  <2>1. Bad \in SUBSET Nat OBVIOUS
  <2> DEFINE m == Min(Bad)
  <2>2. m \in Bad /\ \A k \in Bad : m <= k
    <3> HIDE DEF Bad
    <3> QED BY <2>1, Least
  <2> HIDE DEF m
  <2>3. m \in 0 .. n /\ ~P(m) BY <2>2
  <2>4. m # 0 BY <1>4, <2>3
  <2>5. m \in 1 .. n /\ m - 1 \in 0 .. n /\ ~(m <= m - 1) BY <1>1, <2>3, <2>4
  <2>6. P(m - 1) BY <2>2, <2>5
  <2> QED BY <1>5, <2>3, <2>5, <2>6
<1>7. P(n)
  <2>1. n \in 0 .. n BY <1>1
  <2> QED BY <1>6, <2>1
<1>8. Upto(n) = s \o t
  <2> DEFINE u == Upto(n)
             a == s \o t
  <2>1. /\ u \in Seq(S) /\ Len(u) = l + n
        /\ \A k \in 1 .. l + n : u[k] = IF k <= l THEN s[k] ELSE t[k - l]
    <3>1. n \in 0 .. n BY <1>1
    <3> QED BY <1>3, <3>1
  <2>2. Joins(S, a, s, t) BY <1>1, JoinedIs
  <2> HIDE DEF u, a
  <2>3. ASSUME NEW k \in 1 .. l + n PROVE u[k] = a[k]
    <3>1. CASE k <= l
      <4>1. k \in 1 .. l BY <1>1, <3>1
      <4> QED BY <2>1, <2>2, <3>1, <4>1 DEF Joins
    <3>2. CASE ~(k <= l)
      <4>1. k - l \in 1 .. n /\ l + (k - l) = k BY <1>1, <3>2
      <4>2. a[l + (k - l)] = t[k - l] BY <2>2, <4>1 DEF Joins
      <4> QED BY <2>1, <3>2, <4>1, <4>2
    <3> QED BY <3>1, <3>2
  <2>4. a \in Seq(S) /\ Len(a) = l + n BY <2>2 DEF Joins
  <2>5. u = a BY <2>1, <2>3, <2>4, SameSequence
  <2> QED BY <2>5 DEF u, a
<1> HIDE DEF Upto
<1> QED BY <1>2, <1>7, <1>8 DEF P

-----------------------------------------------------------------------------
(* Digests: the calls.                                                      *)

\* none of this forgets what a context is of
LEMMA PutKeeps == ASSUME NEW c, IsContext(c), NEW x PROVE IsContext(Put(c, x)) /\ Alike(c, Put(c, x))
BY DEF Put, IsContext, Alike

LEMMA FillKeeps == ASSUME NEW c, IsContext(c), NEW n PROVE IsContext(Fill(c, n)) /\ Alike(c, Fill(c, n))
BY DEF Fill, IsContext, Alike

LEMMA ProcessKeeps == ASSUME NEW c, IsContext(c) PROVE LET d == ProcessMessageBlock(c) IN IsContext(d) /\ Alike(c, d)
BY DEF ProcessMessageBlock, SHA1ProcessMessageBlock, SHA224_256ProcessMessageBlock, SHA384_512ProcessMessageBlock, IsContext, Alike

LEMMA PadKeeps == ASSUME NEW c, IsContext(c), NEW pad PROVE IsContext(PadMessage(c, pad)) /\ Alike(c, PadMessage(c, pad))
<1> DEFINE n == Size(c) - LengthPlaces
           first == Put(c, pad)
           full == Fill(first, Size(c))
           put == IF c.index >= n THEN ProcessMessageBlock(full) ELSE first
           filled == Fill(put, n)
           d == [filled EXCEPT !.block[n + 1] = <<"word", c.high>>, !.block[n + 2] = <<"word", c.low>>]
<1>1. PadMessage(c, pad) = ProcessMessageBlock(d) BY DEF PadMessage
<1>2. IsContext(first) /\ Alike(c, first) BY PutKeeps
<1> HIDE DEF first
<1>3. IsContext(full) /\ Alike(first, full) BY <1>2, FillKeeps
<1> HIDE DEF full
<1>4. IsContext(put) /\ Alike(c, put)
  <2> DEFINE e == ProcessMessageBlock(full)
  <2>1. IsContext(e) /\ Alike(full, e) BY <1>3, ProcessKeeps
  <2>2. put = e \/ put = first OBVIOUS
  <2> HIDE DEF e, put
  <2> QED BY <1>2, <1>3, <2>1, <2>2 DEF Alike
<1> HIDE DEF put
<1>5. IsContext(filled) /\ Alike(put, filled) BY <1>4, FillKeeps
<1> HIDE DEF filled
<1>6. IsContext(d) /\ Alike(filled, d)
  <2> HIDE DEF n
  <2> QED BY <1>5 DEF IsContext, Alike
<1> HIDE DEF d
<1> DEFINE e == ProcessMessageBlock(d)
<1>7. IsContext(e) /\ Alike(d, e) BY <1>6, ProcessKeeps
<1> HIDE DEF e
<1>8. Alike(c, e) BY <1>4, <1>5, <1>6, <1>7 DEF Alike
<1> QED BY <1>1, <1>7, <1>8 DEF e

LEMMA FinalizeKeeps ==
    ASSUME NEW c, IsContext(c), NEW pad
    PROVE  LET d == Finalize(c, pad) IN IsContext(d) /\ d.whichSha = c.whichSha /\ d.corrupted = c.corrupted
<1> DEFINE e == PadMessage(c, pad)
<1>1. Finalize(c, pad) = Cleared(e)
  BY DEF Finalize, SHA1Finalize, SHA224_256Finalize, SHA384_512Finalize,
         SHA1PadMessage, SHA224_256PadMessage, SHA384_512PadMessage
<1>2. IsContext(e) /\ Alike(c, e) BY PadKeeps
<1> HIDE DEF e
<1>3. IsContext(Cleared(e)) BY <1>2 DEF Cleared, IsContext
<1>4. Cleared(e).whichSha = e.whichSha /\ Cleared(e).corrupted = e.corrupted BY <1>2 DEF Cleared, IsContext
<1> QED BY <1>1, <1>2, <1>3, <1>4 DEF Alike

\* a context whose message is s and n bits more, and that has its digest
Done(c, v, s, n) ==
    /\ IsContext(c) /\ c.whichSha = v /\ c.computed /\ c.corrupted = 0
    /\ 8 * Len(s) + n <= Longest
    /\ Truncated(v, c.hash) = Hashed(v, s, LastByte, n)

LEMMA NoBits == ASSUME NEW v, NEW s PROVE Hashed(v, s, LastByte, 0) = Hashed(v, s, 0, 0)
<1>1. 183 \div 2 ^ (8 - 0) = 0 \div 2 ^ (8 - 0) OBVIOUS
<1>2. Padded(v, s, LastByte, 0) = Padded(v, s, 0, 0) BY <1>1, Zenon DEF Padded, LastByte
<1> QED BY <1>2, Zenon DEF Hashed

LEMMA SameCalls ==
    ASSUME NEW c
    PROVE  /\ \A s : USHAInput(c, s) = Input(c, s)
           /\ \A bits, n : USHAFinalBits(c, bits, n) = FinalBits(c, bits, n)
           /\ USHAResult(c) = ResultN(c)
BY DEF USHAInput, SHA1Input, SHA256Input, SHA512Input, USHAFinalBits, SHA1FinalBits, SHA256FinalBits, SHA512FinalBits,
       USHAResult, SHA1Result, SHA224_256ResultN, SHA384_512ResultN

LEMMA ResetIs ==
    ASSUME HashesAssumption, NEW v \in SHAversions, NEW S, Marks \subseteq S
    PROVE  Fed(USHAReset(v), v, <<>>, S)
<1> DEFINE c == Fresh(v)
           b == BlockSize[v]
           z == [i \in 1 .. b |-> Zero]
<1>1. USHAReset(v) = c BY DEF USHAReset, SHA1Reset, SHA224_256Reset, SHA384_512Reset
<1>2. b \in Nat /\ b >= 3 /\ Word \in Nat /\ Word > 8 BY DEF HashesAssumption
<1>3. v \in S /\ Zero \in S BY DEF Marks
<1>4. z \in Seq(S) /\ Len(z) = b
  <2>1. z \in [1 .. b -> S] BY <1>3
  <2> HIDE DEF z, b
  <2> QED BY <1>2, <2>1, ManyIs
<1>5. InitialHash(v) \in Seq(Seq(S)) /\ Len(InitialHash(v)) = 1 /\ InitialHash(v)[1] = <<v>> BY <1>3 DEF InitialHash
<1>6. c = [whichSha |-> v, hash |-> InitialHash(v), block |-> z,
           index |-> 0, low |-> 0, high |-> 0, computed |-> FALSE, corrupted |-> 0]
  BY DEF Fresh
<1> HIDE DEF c, z
<1>7. c \in Context(S) BY <1>2, <1>4, <1>5, <1>6 DEF Context
<1>8. Size(c) = b BY <1>6 DEF Size
<1> HIDE DEF b
<1>9. Filled(c, <<>>, 0, 0, S) BY <1>2, <1>4, <1>5, <1>6, <1>7, <1>8 DEF Filled
<1>10. Places(Len(<<>>), b, 0, 0) /\ Counts(0, 0, 8 * Len(<<>>))
  <2>1. 0 * b = 0 /\ 0 * Word = 0 BY <1>2, Products
  <2> QED BY <1>2, <2>1 DEF Places, Counts
<1>11. /\ c.whichSha = v /\ ~c.computed /\ c.corrupted = 0 /\ c.index = 0 /\ c.low = 0 /\ c.high = 0
       /\ <<>> \in Seq(S)
  BY <1>6
<1> QED BY <1>1, <1>9, <1>10, <1>11 DEF Fed, b

\* a call out of turn
LEMMA OutOfTurn ==
    ASSUME NEW c, IsContext(c)
    PROVE  Spoilt([c EXCEPT !.corrupted = shaStateError], c.whichSha)
BY DEF Spoilt, IsContext, shaStateError

LEMMA InputGoesOn ==
    ASSUME HashesAssumption, NEW v \in SHAversions, NEW S, Marks \subseteq S, NEW s, NEW c, Fed(c, v, s, S), NEW t \in Seq(S)
    PROVE  USHAInput(c, t).err = 0 /\ Takes(USHAInput(c, t).ctx, v, s \o t, S)
<1>1. USHAInput(c, t) = Input(c, t) BY SameCalls
<1>2. c.corrupted = 0 /\ ~c.computed /\ s \in Seq(S) BY DEF Fed
<1>3. CASE t = <<>>
  <2>1. Input(c, t).err = 0 /\ Input(c, t).ctx = c BY <1>3 DEF Input, Call, shaSuccess
  <2>2. s \o t = s BY <1>2, <1>3
  <2>3. 8 * Len(s) <= Longest BY CountsFit DEF Fed
  <2> QED BY <1>1, <2>1, <2>2, <2>3 DEF Takes
<1>4. CASE t # <<>>
  <2>1. Input(c, t) = Call(shaSuccess, InputBytes(c, t)) BY <1>2, <1>4 DEF Input
  <2>2. Input(c, t).err = 0 /\ Input(c, t).ctx = InputBytes(c, t) BY <2>1 DEF Call, shaSuccess
  <2>3. Takes(InputBytes(c, t), v, s \o t, S) BY BytesAre
  <2> QED BY <1>1, <2>2, <2>3
<1> QED BY <1>3, <1>4

\* more is refused when the digest was computed, or there is none
LEMMA InputRefused ==
    ASSUME NEW c, IsContext(c), c.computed \/ c.corrupted # 0, NEW t
    PROVE  LET d == USHAInput(c, t)
           IN  IF t = <<>> THEN d.err = 0 /\ d.ctx = c ELSE d.err # 0 /\ Spoilt(d.ctx, c.whichSha)
<1> DEFINE d == USHAInput(c, t)
<1>1. d = Input(c, t) BY SameCalls
<1> HIDE DEF d
<1>2. CASE t = <<>> BY <1>1, <1>2 DEF Input, Call, shaSuccess, d
<1>3. CASE t # <<>> /\ c.computed
  <2>1. d = Call(shaStateError, [c EXCEPT !.corrupted = shaStateError]) BY <1>1, <1>3 DEF Input
  <2>2. d.err # 0 /\ d.ctx = [c EXCEPT !.corrupted = shaStateError] BY <2>1 DEF Call, shaStateError
  <2> QED BY <1>3, <2>2, OutOfTurn DEF d
<1>4. CASE t # <<>> /\ ~c.computed
  <2>1. d = Call(c.corrupted, c) BY <1>1, <1>4 DEF Input
  <2>2. d.err # 0 /\ d.ctx = c BY <1>4, <2>1 DEF Call
  <2> QED BY <1>4, <2>2 DEF d, Spoilt
<1> QED BY <1>2, <1>3, <1>4

LEMMA BitsRefused ==
    ASSUME NEW c, IsContext(c), NEW bits, NEW n \in 1 .. 8, c.computed \/ c.corrupted # 0 \/ n = 8
    PROVE  LET d == USHAFinalBits(c, bits, n) IN d.err # 0 /\ Spoilt(d.ctx, c.whichSha)
<1> DEFINE d == USHAFinalBits(c, bits, n)
<1>1. d = FinalBits(c, bits, n) BY SameCalls
<1> HIDE DEF d
<1>2. CASE c.computed \/ n = 8
  <2>1. d = Call(shaStateError, [c EXCEPT !.corrupted = shaStateError]) BY <1>1, <1>2 DEF FinalBits
  <2>2. d.err # 0 /\ d.ctx = [c EXCEPT !.corrupted = shaStateError] BY <2>1 DEF Call, shaStateError
  <2> QED BY <2>2, OutOfTurn DEF d
<1>3. CASE ~c.computed /\ n # 8
  <2>1. n \in 1 .. 7 /\ ~(n >= 8) /\ n # 0 BY <1>3
  <2>2. d = Call(c.corrupted, c) BY <1>1, <1>3, <2>1 DEF FinalBits
  <2>3. d.err # 0 /\ d.ctx = c BY <1>3, <2>2 DEF Call
  <2> QED BY <1>3, <2>3 DEF d, Spoilt
<1> QED BY <1>2, <1>3

LEMMA BitsEnd ==
    ASSUME HashesAssumption, NEW v \in SHAversions, NEW S, Marks \subseteq S, NEW s, NEW c, Fed(c, v, s, S), NEW n \in 1 .. 7
    PROVE  LET d == USHAFinalBits(c, LastByte, n)
           IN  d.err = 0 /\ (Done(d.ctx, v, s, n) \/ Spoilt(d.ctx, v))
<1> DEFINE d == USHAFinalBits(c, LastByte, n)
           pad == PadByte(LastByte, n)
           total == 8 * Len(s)
           e == AddLength(c, n)
<1>1. d = FinalBits(c, LastByte, n) BY SameCalls
<1>2. ~c.computed /\ c.corrupted = 0 /\ c.whichSha = v /\ s \in Seq(S) /\ Counts(c.low, c.high, total) BY DEF Fed
<1>3. PICK q \in Nat : Places(Len(s), BlockSize[v], q, c.index) /\ Filled(c, s, q, c.index, S) BY DEF Fed
<1>4. d = Call(shaSuccess, Finalize(e, pad)) BY <1>1, <1>2 DEF FinalBits
<1>5. d.err = 0 /\ d.ctx = Finalize(e, pad) BY <1>4 DEF Call, shaSuccess
<1> HIDE DEF d
<1>6. total \in Nat /\ n \in 0 .. 8 /\ n \in 0 .. 7 BY <1>2
<1> HIDE DEF total
<1>7. c \in Context(S) BY <1>3 DEF Filled
<1>8. Lengthened(S, c, e, total + n) BY <1>2, <1>6, <1>7, AddLengthIs
<1> HIDE DEF e
<1>9. Filled(e, s, q, e.index, S) /\ e.index = c.index /\ e.whichSha = v
  <2>1. e \in Context(S) /\ e.whichSha = c.whichSha /\ e.hash = c.hash /\ e.block = c.block /\ e.index = c.index
    BY <1>8 DEF Lengthened
  <2> QED BY <1>2, <1>3, <2>1, SameFill
<1>10. CASE total + n <= Longest
  <2>1. e.corrupted = 0 /\ Counts(e.low, e.high, 8 * Len(s) + n) BY <1>8, <1>10 DEF Lengthened, total
  <2>2. Places(Len(s), BlockSize[v], q, e.index) BY <1>3, <1>9
  <2>3. LastByte \in {0, LastByte} /\ PadIs(LastByte, n) BY <1>6, LastByteIs
  <2> DEFINE f == Finalize(e, pad)
  <2>4. Finalized(S, e, f, v, s, LastByte, n) BY <1>2, <1>6, <1>9, <2>1, <2>2, <2>3, FinalizeIs
  <2> HIDE DEF f
  <2>5. Done(f, v, s, n) BY <1>10, <2>1, <2>4, ContextIs DEF Done, Finalized, total
  <2> QED BY <1>5, <2>5 DEF d, f
<1>11. CASE ~(total + n <= Longest)
  <2>1. e.corrupted # 0 BY <1>8, <1>11 DEF Lengthened
  <2> DEFINE f == Finalize(e, pad)
  <2>2. IsContext(f) /\ f.whichSha = v /\ f.corrupted = e.corrupted
    <3>1. IsContext(e) BY <1>8, ContextIs DEF Lengthened
    <3> QED BY <1>9, <3>1, FinalizeKeeps
  <2> HIDE DEF f
  <2>3. Spoilt(f, v) BY <2>1, <2>2 DEF Spoilt
  <2> QED BY <1>5, <2>3 DEF d, f
<1> QED BY <1>10, <1>11

LEMMA ResultEnds ==
    ASSUME HashesAssumption, NEW v \in SHAversions, NEW S, Marks \subseteq S, NEW s, NEW c, Fed(c, v, s, S)
    PROVE  LET d == USHAResult(c)
           IN  d.err = 0 /\ d.digest = Hashed(v, s, LastByte, 0) /\ Done(d.ctx, v, s, 0)
<1> DEFINE pad == PadByte(0, 0)
           f == Finalize(c, pad)
           d == USHAResult(c)
<1>1. ~c.computed /\ c.corrupted = 0 /\ c.whichSha = v /\ s \in Seq(S) /\ Counts(c.low, c.high, 8 * Len(s)) BY DEF Fed
<1>2. PICK q \in Nat : Places(Len(s), BlockSize[v], q, c.index) /\ Filled(c, s, q, c.index, S) BY DEF Fed
<1>3. Finalized(S, c, f, v, s, 0, 0)
  <2>1. 0 \in {0, LastByte} /\ 0 \in 0 .. 7 /\ 8 * Len(s) + 0 = 8 * Len(s) BY <1>1
  <2>2. Counts(c.low, c.high, 8 * Len(s) + 0) BY <1>1, <2>1
  <2> QED BY <1>1, <1>2, <2>1, <2>2, NoByteIs, FinalizeIs
<1>4. d = [err |-> shaSuccess, ctx |-> f, digest |-> Truncated(v, f.hash)] BY <1>1, SameCalls DEF ResultN
<1>5. d.err = 0 /\ d.ctx = f /\ d.digest = Truncated(v, f.hash) BY <1>4 DEF shaSuccess
<1> HIDE DEF f, d
<1>6. Truncated(v, f.hash) = Hashed(v, s, LastByte, 0) BY <1>3, NoBits DEF Finalized
<1>7. 8 * Len(s) + 0 <= Longest
  <2>1. 8 * Len(s) <= Longest BY <1>1, CountsFit
  <2> QED BY <1>1, <2>1
<1>8. Done(f, v, s, 0) BY <1>1, <1>3, <1>6, <1>7, ContextIs DEF Done, Finalized
<1> QED BY <1>5, <1>6, <1>8 DEF d

LEMMA ResultAgain ==
    ASSUME NEW v, NEW s, NEW n, NEW c, Done(c, v, s, n)
    PROVE  LET d == USHAResult(c) IN d.err = 0 /\ d.digest = Hashed(v, s, LastByte, n) /\ d.ctx = c
<1>1. c.computed /\ c.corrupted = 0 /\ c.whichSha = v /\ Truncated(v, c.hash) = Hashed(v, s, LastByte, n) BY DEF Done
<1>2. USHAResult(c) = [err |-> shaSuccess, ctx |-> c, digest |-> Truncated(v, c.hash)] BY <1>1, SameCalls DEF ResultN
<1> QED BY <1>1, <1>2 DEF shaSuccess

LEMMA ResultNone ==
    ASSUME NEW v, NEW c, Spoilt(c, v)
    PROVE  LET d == USHAResult(c) IN d.err # 0 /\ d.digest = NoDigest /\ d.ctx = c
<1>1. USHAResult(c) = [err |-> c.corrupted, ctx |-> c, digest |-> NoDigest] BY SameCalls DEF ResultN, Spoilt
<1> QED BY <1>1 DEF Spoilt

\* a call that ends the message t
Results(d, v, t) ==
    /\ d.ctx.whichSha = v
    /\ IF 8 * Len(t) <= Longest THEN d.err = 0 /\ d.digest = Hashed(v, t, LastByte, 0)
       ELSE d.err # 0 /\ d.digest = NoDigest

LEMMA ResultIs ==
    ASSUME HashesAssumption, NEW v \in SHAversions, NEW S, Marks \subseteq S, NEW t, NEW c, Takes(c, v, t, S)
    PROVE  Results(USHAResult(c), v, t)
<1> DEFINE d == USHAResult(c)
<1>1. CASE 8 * Len(t) <= Longest
  <2>1. Fed(c, v, t, S) BY <1>1 DEF Takes
  <2>2. d.err = 0 /\ d.digest = Hashed(v, t, LastByte, 0) /\ Done(d.ctx, v, t, 0) BY <2>1, ResultEnds
  <2> HIDE DEF d
  <2>3. Results(d, v, t) BY <1>1, <2>2 DEF Results, Done
  <2> QED BY <2>3 DEF d
<1>2. CASE ~(8 * Len(t) <= Longest)
  <2>1. Spoilt(c, v) BY <1>2 DEF Takes
  <2>2. d.err # 0 /\ d.digest = NoDigest /\ d.ctx = c BY <2>1, ResultNone
  <2> HIDE DEF d
  <2>3. Results(d, v, t) BY <1>2, <2>1, <2>2 DEF Results, Spoilt
  <2> QED BY <2>3 DEF d
<1> QED BY <1>1, <1>2

\* more of the message, whether or not what was given before fits
LEMMA TakesMore ==
    ASSUME HashesAssumption, NEW v \in SHAversions, NEW S, Marks \subseteq S, NEW s \in Seq(S), NEW t \in Seq(S), NEW c, Takes(c, v, s, S)
    PROVE  Takes(USHAInput(c, t).ctx, v, s \o t, S)
<1>1. CASE 8 * Len(s) <= Longest
  <2>1. Fed(c, v, s, S) BY <1>1 DEF Takes
  <2> QED BY <2>1, InputGoesOn
<1>2. CASE ~(8 * Len(s) <= Longest)
  <2> DEFINE d == USHAInput(c, t)
             u == s \o t
  <2>1. Spoilt(c, v) BY <1>2 DEF Takes
  <2>2. IF t = <<>> THEN d.err = 0 /\ d.ctx = c ELSE d.err # 0 /\ Spoilt(d.ctx, c.whichSha) BY <2>1, InputRefused DEF Spoilt
  <2> HIDE DEF d
  <2>3. Spoilt(d.ctx, v) BY <2>1, <2>2 DEF Spoilt
  <2>4. ~(8 * Len(u) <= Longest)
    <3>1. Len(u) = Len(s) + Len(t) /\ Len(s) \in Nat /\ Len(t) \in Nat OBVIOUS
    <3>2. Longest \in Int
      <4>1. Word * Word \in Nat BY Products DEF HashesAssumption
      <4> QED BY <4>1 DEF Longest
    <3> HIDE DEF u
    <3> QED BY <1>2, <3>1, <3>2
  <2> HIDE DEF u
  <2>5. Takes(d.ctx, v, u, S) BY <2>3, <2>4 DEF Takes
  <2> QED BY <2>5 DEF d, u
<1> QED BY <1>1, <1>2

LEMMA ResetTakes ==
    ASSUME HashesAssumption, NEW v \in SHAversions, NEW S, Marks \subseteq S, NEW s \in Seq(S)
    PROVE  Takes(USHAInput(USHAReset(v), s).ctx, v, s, S)
<1> DEFINE c == USHAReset(v)
<1>1. Fed(c, v, <<>>, S) BY ResetIs
<1> HIDE DEF c
<1>2. Takes(USHAInput(c, s).ctx, v, <<>> \o s, S) BY <1>1, InputGoesOn
<1>3. <<>> \o s = s OBVIOUS
<1> QED BY <1>2, <1>3 DEF c

\* a message in two parts
LEMMA TwoParts ==
    ASSUME HashesAssumption, NEW v \in SHAversions, NEW S, Marks \subseteq S, NEW s \in Seq(S), NEW t \in Seq(S)
    PROVE  LET c == USHAInput(USHAInput(USHAReset(v), s).ctx, t).ctx
           IN  Takes(c, v, s \o t, S) /\ Results(USHAResult(c), v, s \o t)
<1> DEFINE e == USHAInput(USHAReset(v), s).ctx
           c == USHAInput(e, t).ctx
<1>1. Takes(e, v, s, S) BY ResetTakes
<1> HIDE DEF e
<1>2. Takes(c, v, s \o t, S) BY <1>1, TakesMore
<1> HIDE DEF c
<1>3. Results(USHAResult(c), v, s \o t) BY <1>2, ResultIs
<1> QED BY <1>2, <1>3 DEF c, e

-----------------------------------------------------------------------------
(* Digests: hmac.                                                           *)

MacKey(v, key) == IF Len(key) <= BlockSize[v] THEN key ELSE Hashed(v, key, 0, 0)
InnerPad(v, key) == XorPad("ipad", MacKey(v, key), BlockSize[v])
OuterPad(v, key) == XorPad("opad", MacKey(v, key), BlockSize[v])

\* what is hashed after the pads
Symbols(v, key) == Marks \cup {InnerPad(v, key)[i] : i \in 1 .. BlockSize[v]}

LEMMA ItsPlaces ==
    ASSUME NEW n \in Nat, NEW f, f = [i \in 1 .. n |-> f[i]]
    PROVE  f \in Seq({f[i] : i \in 1 .. n}) /\ Len(f) = n
<1> DEFINE S == {f[i] : i \in 1 .. n}
<1>1. f \in [1 .. n -> S]
  <2>1. \A i \in 1 .. n : f[i] \in S OBVIOUS
  <2> HIDE DEF S
  <2> QED BY <2>1
<1> HIDE DEF S
<1>2. f \in Seq(S) /\ Len(f) = n BY <1>1, ManyIs
<1> QED BY <1>2 DEF S

LEMMA WiderSeq == ASSUME NEW S, NEW T, S \subseteq T, NEW s \in Seq(S) PROVE s \in Seq(T)
<1>1. Len(s) \in Nat /\ s \in [1 .. Len(s) -> T] OBVIOUS
<1> QED BY <1>1, ManyIs

LEMMA PadsAre ==
    ASSUME HashesAssumption, NEW v \in SHAversions, NEW key
    PROVE  /\ InnerPad(v, key) \in Seq(Symbols(v, key)) /\ Len(InnerPad(v, key)) = BlockSize[v]
           /\ OuterPad(v, key) \in Seq({OuterPad(v, key)[i] : i \in 1 .. BlockSize[v]}) /\ Len(OuterPad(v, key)) = BlockSize[v]
<1> DEFINE b == BlockSize[v]
           f == InnerPad(v, key)
           g == OuterPad(v, key)
<1>1. b \in Nat BY DEF HashesAssumption
<1>2. f = [i \in 1 .. b |-> f[i]] BY DEF InnerPad, XorPad
<1>3. g = [i \in 1 .. b |-> g[i]] BY DEF OuterPad, XorPad
<1> HIDE DEF b, f, g
<1>4. f \in Seq({f[i] : i \in 1 .. b}) /\ Len(f) = b BY <1>1, <1>2, ItsPlaces
<1>5. g \in Seq({g[i] : i \in 1 .. b}) /\ Len(g) = b BY <1>1, <1>3, ItsPlaces
<1> DEFINE T == {f[i] : i \in 1 .. b}
<1>6. T \subseteq Symbols(v, key) BY DEF Symbols, f, b
<1> HIDE DEF T
<1>7. f \in Seq(T) BY <1>4 DEF T
<1>8. f \in Seq(Symbols(v, key)) BY <1>6, <1>7, WiderSeq
<1> QED BY <1>4, <1>5, <1>8 DEF b, f, g

LEMMA DigestIs ==
    ASSUME HashesAssumption, NEW v \in SHAversions, NEW s, NEW bits, NEW n
    PROVE  LET h == Hashed(v, s, bits, n)
           IN  /\ h \in Seq({h[i] : i \in 1 .. HashSize[v]}) /\ Len(h) = HashSize[v] /\ h # NoDigest
<1> DEFINE h == Hashed(v, s, bits, n)
           l == HashSize[v]
<1>1. l \in Nat /\ l # 0 BY DEF HashesAssumption
<1>2. h = [i \in 1 .. l |-> h[i]] BY DEF Hashed, Truncated
<1> HIDE DEF h, l
<1>3. h \in Seq({h[i] : i \in 1 .. l}) /\ Len(h) = l BY <1>1, <1>2, ItsPlaces
<1>4. h # NoDigest
  <2>1. Len(<<>>) = 0 OBVIOUS
  <2> QED BY <1>1, <1>3, <2>1 DEF NoDigest
<1> QED BY <1>3, <1>4 DEF h, l

LEMMA KeyIs ==
    ASSUME HashesAssumption, NEW v \in SHAversions, NEW n \in KeySizes
    PROVE  hmacKey(v, KeyOf(n)) = MacKey(v, KeyOf(n)) /\ KeyOf(n) # <<>>
<1> DEFINE key == KeyOf(n)
           T == {<<"key", i>> : i \in Nat}
           S == Marks \cup T
           b == BlockSize[v]
<1>1. n \in Nat /\ n # 0 /\ 8 * n < Word * Word /\ b \in Nat /\ Word \in Nat BY DEF HashesAssumption
<1>2. key \in Seq(S) /\ Len(key) = n
  <2>1. \A i \in 1 .. n : <<"key", i>> \in S BY <1>1
  <2>2. key \in [1 .. n -> S]
    <3> HIDE DEF S
    <3> QED BY <2>1 DEF KeyOf
  <2> HIDE DEF key, S
  <2> QED BY <1>1, <2>2, ManyIs
<1>3. Marks \subseteq S OBVIOUS
<1> HIDE DEF key, S, b
<1>4. key # <<>>
  <2>1. Len(<<>>) = 0 OBVIOUS
  <2> QED BY <1>1, <1>2, <2>1
<1>5. CASE n > b
  <2> DEFINE d == USHAResult(USHAInput(USHAReset(v), key).ctx)
  <2>1. Results(d, v, key)
    <3> DEFINE c == USHAInput(USHAReset(v), key).ctx
    <3>1. Takes(c, v, key, S) BY <1>2, <1>3, ResetTakes
    <3> HIDE DEF c
    <3>2. Results(USHAResult(c), v, key) BY <1>3, <3>1, ResultIs
    <3> QED BY <3>2 DEF c
  <2>2. 8 * Len(key) <= Longest
    <3> DEFINE ww == Word * Word
    <3>1. ww \in Nat BY <1>1, Products
    <3> HIDE DEF ww
    <3>2. 8 * n <= ww - 1 BY <1>1, <3>1 DEF ww
    <3> QED BY <1>2, <3>2 DEF Longest, ww
  <2>3. hmacKey(v, key) = d.digest BY <1>1, <1>2, <1>5 DEF hmacKey, USHABlockSize, b
  <2> HIDE DEF d
  <2>4. d.digest = Hashed(v, key, 0, 0) BY <2>1, <2>2, NoBits DEF Results
  <2>5. MacKey(v, key) = Hashed(v, key, 0, 0) BY <1>1, <1>2, <1>5 DEF MacKey, b
  <2> QED BY <1>4, <2>3, <2>4, <2>5 DEF key
<1>6. CASE ~(n > b)
  <2>1. Len(key) <= b /\ ~(Len(key) > b) BY <1>1, <1>2, <1>6
  <2> QED BY <1>4, <2>1 DEF hmacKey, MacKey, USHABlockSize, b, key
<1> QED BY <1>5, <1>6

GivenBytes == {<<"byte", n>> : n \in Nat}

LEMMA StartIs ==
    ASSUME HashesAssumption, NEW v \in SHAversions, NEW n \in KeySizes
    PROVE  LET c == hmacReset(v, KeyOf(n))
           IN  /\ c.sha = USHAInput(USHAReset(v), InnerPad(v, KeyOf(n))).ctx /\ c.k_opad = OuterPad(v, KeyOf(n))
               /\ Takes(c.sha, v, InnerPad(v, KeyOf(n)), Symbols(v, KeyOf(n)))
<1> DEFINE key == KeyOf(n)
           c == hmacReset(v, key)
           p == InnerPad(v, key)
           S == Symbols(v, key)
<1>1. hmacKey(v, key) = MacKey(v, key) BY KeyIs
<1>2. c.sha = USHAInput(USHAReset(v), p).ctx /\ c.k_opad = OuterPad(v, key)
  BY <1>1 DEF hmacReset, InnerPad, OuterPad, USHABlockSize
<1>3. p \in Seq(S) BY PadsAre
<1>4. Marks \subseteq S BY DEF Symbols
<1> HIDE DEF c, p, S
<1>5. Takes(c.sha, v, p, S) BY <1>2, <1>3, <1>4, ResetTakes
<1> QED BY <1>2, <1>5 DEF c, p, S

\* the second pass
LEMMA OuterIs ==
    ASSUME HashesAssumption, NEW v \in SHAversions, NEW key, NEW s, NEW bits, NEW n, NEW c, c.whichSha = v,
           USHAResult(c).err = 0, USHAResult(c).digest = Hashed(v, s, bits, n)
    PROVE  Results(hmacResult(c, OuterPad(v, key)), v, OuterPad(v, key) \o Hashed(v, s, bits, n))
<1> DEFINE p == OuterPad(v, key)
           h == Hashed(v, s, bits, n)
           P == {p[i] : i \in 1 .. BlockSize[v]}
           H == {h[i] : i \in 1 .. HashSize[v]}
           S == Marks \cup P \cup H
           e == USHAInput(USHAInput(USHAReset(v), p).ctx, h).ctx
<1>1. p \in Seq(P) BY PadsAre
<1>2. h \in Seq(H) BY DigestIs
<1>3. hmacResult(c, p) = USHAResult(e) BY DEF hmacResult, shaSuccess
<1> HIDE DEF p, h, P, H
<1>4. P \subseteq S /\ H \subseteq S /\ Marks \subseteq S OBVIOUS
<1> HIDE DEF S
<1>5. p \in Seq(S) /\ h \in Seq(S) BY <1>1, <1>2, <1>4, WiderSeq
<1>6. Results(USHAResult(e), v, p \o h) BY <1>4, <1>5, TwoParts
<1> HIDE DEF e
<1>7. Results(hmacResult(c, p), v, p \o h) BY <1>3, <1>6
<1> QED BY <1>7 DEF p, h

LEMMA OuterNone ==
    ASSUME NEW v, NEW c, Spoilt(c, v), NEW p
    PROVE  hmacResult(c, p).err # 0 /\ hmacResult(c, p).digest = NoDigest
<1> DEFINE d == USHAResult(c)
<1>1. d.err # 0 /\ d.digest = NoDigest BY ResultNone
<1>2. hmacResult(c, p) = IF d.err # 0 THEN d ELSE hmacResult(c, p) BY DEF hmacResult, shaSuccess
<1> HIDE DEF d
<1> QED BY <1>1, <1>2

LEMMA MacIs ==
    ASSUME NEW v, NEW key, NEW s, NEW bits, NEW n
    PROVE  Mac(v, key, s, bits, n) = Hashed(v, OuterPad(v, key) \o Hashed(v, InnerPad(v, key) \o s, bits, n), LastByte, 0)
<1> DEFINE t == OuterPad(v, key) \o Hashed(v, InnerPad(v, key) \o s, bits, n)
<1>1. Mac(v, key, s, bits, n) = Hashed(v, t, 0, 0) BY DEF Mac, OuterPad, InnerPad, MacKey
<1> HIDE DEF t
<1>2. Mac(v, key, s, bits, n) = Hashed(v, t, LastByte, 0) BY <1>1, NoBits
<1> QED BY <1>2 DEF t

\* a digest made in one call
LEMMA AtOnce ==
    ASSUME HashesAssumption, NEW n \in KeySizes, NEW v \in SHAversions, v = "SHA256", NEW s \in Seq(GivenBytes), s # <<>>,
           8 * Len(InnerPad(v, KeyOf(n)) \o s) <= Longest,
           8 * Len(OuterPad(v, KeyOf(n)) \o Hashed(v, InnerPad(v, KeyOf(n)) \o s, LastByte, 0)) <= Longest
    PROVE  HMACSHA256_ComputeHash(KeyOf(n), s, <<>>) = Mac(v, KeyOf(n), s, LastByte, 0)
<1> DEFINE key == KeyOf(n)
           p == InnerPad(v, key)
           q == OuterPad(v, key)
           S == Symbols(v, key)
           m == p \o s
           e == USHAInput(USHAReset(v), p).ctx
           c == USHAInput(e, s).ctx
           r == hmacResult(c, q)
           h == Hashed(v, m, LastByte, 0)
<1>1. Marks \subseteq S BY DEF Symbols
<1>2. p \in Seq(S) BY PadsAre
<1>3. s \in Seq(S)
  <2>1. GivenBytes \subseteq S BY DEF Symbols, Marks, GivenBytes
  <2> HIDE DEF S
  <2> QED BY <2>1, WiderSeq
<1>4. Results(USHAResult(c), v, m) /\ Takes(c, v, m, S)
  <2> HIDE DEF S, p
  <2> QED BY <1>1, <1>2, <1>3, TwoParts
<1>5. hmac(v, s, key) = r
  <2> DEFINE k == hmacReset(v, key)
  <2>1. k.sha = e /\ k.k_opad = q BY StartIs
  <2>2. hmac(v, s, key) = hmacResult(USHAInput(k.sha, s).ctx, k.k_opad) BY Zenon DEF hmac, hmacInput
  <2> HIDE DEF k, e, q
  <2> QED BY <2>1, <2>2
<1>6. c.whichSha = v /\ USHAResult(c).err = 0 /\ USHAResult(c).digest = h
  <2>1. 8 * Len(m) <= Longest OBVIOUS
  <2> HIDE DEF c, m, S
  <2>2. Fed(c, v, m, S) BY <1>4, <2>1 DEF Takes
  <2> QED BY <1>4, <2>1, <2>2 DEF Results, Fed
<1>7. Results(r, v, q \o h)
  <2> HIDE DEF c, m
  <2> QED BY <1>6, OuterIs
<1>8. r.digest = Mac(v, key, s, LastByte, 0)
  <2> DEFINE t == q \o h
  <2>1. 8 * Len(t) <= Longest OBVIOUS
  <2>2. Mac(v, key, s, LastByte, 0) = Hashed(v, t, LastByte, 0) BY MacIs
  <2>3. Results(r, v, t) BY <1>7
  <2> HIDE DEF t, r
  <2> QED BY <2>1, <2>2, <2>3 DEF Results
<1> DEFINE made == Mac(v, key, s, LastByte, 0)
           l == HashSize[v]
<1>9. Len(made) = l /\ l \in Nat /\ \E T : made \in Seq(T)
  <2> DEFINE t == q \o h
  <2>1. made = Hashed(v, t, LastByte, 0) BY MacIs
  <2> HIDE DEF t, made
  <2>2. l \in Nat BY DEF HashesAssumption
  <2> DEFINE d == Hashed(v, t, LastByte, 0)
  <2>3. Len(d) = l /\ \E T : d \in Seq(T) BY DigestIs
  <2> HIDE DEF d, l
  <2>4. made = d BY <2>1 DEF d
  <2> QED BY <2>2, <2>3, <2>4
<1>10. key # <<>> BY KeyIs
<1>11. HMACSHA256_ComputeHash(key, s, <<>>) = [i \in 1 .. Len(<<>>) + l |-> IF i <= Len(made) THEN made[i] ELSE <<"unset">>]
  <2>1. hmac("SHA256", s, key).digest = made BY <1>5, <1>8
  <2> HIDE DEF made, key
  <2> QED BY <1>10, <2>1 DEF HMACSHA256_ComputeHash
<1> HIDE DEF made, l
<1>12. [i \in 1 .. Len(<<>>) + l |-> IF i <= Len(made) THEN made[i] ELSE <<"unset">>] = made
  <2>1. Len(<<>>) + l = l BY <1>9
  <2> QED BY <1>9, <2>1
<1> QED BY <1>11, <1>12 DEF made

-----------------------------------------------------------------------------
(* Digests: the invariant.                                                  *)

Messages == [bytes : Seq(GivenBytes), bits : Nat, refused : BOOLEAN]
SameMessage(m, o) == o.bytes = m.bytes /\ o.bits = m.bits

\* a context that was given p and then the message m, or has no digest any more
Has(c, m, v, p, S) ==
    \/ Fed(c, v, p \o m.bytes, S) /\ m.bits = 0
    \/ Done(c, v, p \o m.bytes, m.bits)
    \/ Spoilt(c, v)

\* a context that is given nothing more
Stopped(c) == c.computed \/ c.corrupted # 0

\* what a call made of the context and of what the caller knows of the message
Told(err, m, o) == IF err = shaSuccess THEN o ELSE [m EXCEPT !.refused = TRUE]

\* a digest is of the message m
OfIt(d, m, v) ==
    d # NoDigest => 8 * Len(m.bytes) + m.bits <= Longest /\ d = Hashed(v, m.bytes, LastByte, m.bits)

AloneIs(c, m, d, v) ==
    /\ Has(c, m, v, <<>>, Marks) /\ OfIt(d, m, v)
    /\ d # NoDigest => Stopped(c)

\* after the second pass nothing is given and nothing asked for
KeyedIs(c, m, d, v, n) ==
    IF d = NoDigest THEN m.refused \/ Has(c, m, v, InnerPad(v, KeyOf(n)), Symbols(v, KeyOf(n)))
    ELSE /\ c.whichSha = v
         /\ 8 * Len(m.bytes) + m.bits + 8 * BlockSize[v] <= Longest
         /\ d = Mac(v, KeyOf(n), m.bytes, LastByte, m.bits)
         /\ m.bits = 0 /\ v = "SHA256" /\ m.bytes # <<>> => HMACSHA256_ComputeHash(KeyOf(n), m.bytes, <<>>) = d

HashInv ==
    /\ message \in Messages
    /\ \E v \in SHAversions :
         \/ mac.key = <<>> /\ AloneIs(sha, message, digest, v)
         \/ \E n \in KeySizes : /\ mac.key = KeyOf(n) /\ mac.k_opad = OuterPad(v, KeyOf(n))
                                /\ KeyedIs(sha, message, digest, v, n)

InOneOrder(a, b, c) == (a \o b) \o c = a \o (b \o c)

LEMMA InAnyOrder ==
    ASSUME NEW S, NEW a \in Seq(S), NEW b \in Seq(S), NEW c \in Seq(S)
    PROVE  InOneOrder(a, b, c)
<1> DEFINE x == (a \o b) \o c
           y == a \o (b \o c)
           k == Len(a)
           l == Len(b)
           m == Len(c)
<1>1. k \in Nat /\ l \in Nat /\ m \in Nat OBVIOUS
<1>2. /\ x \in Seq(S) /\ Len(x) = k + l + m
      /\ \A i \in 1 .. k + l + m : x[i] = IF i <= k THEN a[i] ELSE IF i <= k + l THEN b[i - k] ELSE c[i - (k + l)]
  OBVIOUS
<1>3. /\ y \in Seq(S) /\ Len(y) = k + l + m
      /\ \A i \in 1 .. k + l + m : y[i] = IF i <= k THEN a[i] ELSE IF i <= k + l THEN b[i - k] ELSE c[i - (k + l)]
  OBVIOUS
<1> HIDE DEF x, y, k, l, m
<1>4. \A i \in 1 .. Len(x) : x[i] = y[i] BY <1>2, <1>3
<1>5. x = y BY <1>2, <1>3, <1>4, SameSequence
<1> QED BY <1>5 DEF x, y, InOneOrder

\* a part of the message
LEMMA GiveIs ==
    ASSUME HashesAssumption, NEW v \in SHAversions, NEW S, Marks \subseteq S, NEW p \in Seq(S), NEW m \in Messages,
           NEW t \in Seq(GivenBytes), NEW c, Has(c, m, v, p, S)
    PROVE  LET d == USHAInput(c, t)
               o == Told(d.err, m, [m EXCEPT !.bytes = @ \o t])
           IN  /\ Has(d.ctx, o, v, p, S)
               /\ Stopped(c) => SameMessage(m, o) /\ Stopped(d.ctx)
<1> DEFINE d == USHAInput(c, t)
           o == Told(d.err, m, [m EXCEPT !.bytes = @ \o t])
<1>1. m.bytes \in Seq(GivenBytes) /\ m.bits \in Nat BY DEF Messages
<1>2. m.bytes \in Seq(S) /\ t \in Seq(S)
  <2>1. GivenBytes \subseteq S BY DEF Marks, GivenBytes
  <2> QED BY <1>1, <2>1, WiderSeq
<1>3. d.err = 0 => o.bytes = m.bytes \o t /\ o.bits = m.bits BY DEF Told, shaSuccess, Messages
<1>4. d.err # 0 => SameMessage(m, o) BY DEF Told, shaSuccess, Messages, SameMessage
<1> HIDE DEF o, d
<1>5. CASE Fed(c, v, p \o m.bytes, S) /\ m.bits = 0
  <2> DEFINE s == p \o m.bytes
  <2>1. d.err = 0 /\ Takes(d.ctx, v, s \o t, S)
    <3> HIDE DEF s
    <3>1. Fed(c, v, s, S) BY <1>5 DEF s
    <3> QED BY <1>2, <3>1, InputGoesOn DEF d
  <2>2. s \o t = p \o o.bytes
    <3>1. (p \o m.bytes) \o t = p \o (m.bytes \o t)
      <4> DEFINE b == m.bytes
      <4>1. b \in Seq(S) BY <1>2
      <4> HIDE DEF b
      <4>2. InOneOrder(p, b, t) BY <1>2, <4>1, InAnyOrder
      <4> QED BY <4>2, Zenon DEF b, InOneOrder
    <3> QED BY <1>3, <2>1, <3>1
  <2>3. o.bits = 0 BY <1>3, <1>5, <2>1
  <2> HIDE DEF s
  <2>4. Has(d.ctx, o, v, p, S) BY <2>1, <2>2, <2>3 DEF Takes, Has
  <2>5. ~Stopped(c) BY <1>5 DEF Fed, Stopped
  <2> QED BY <2>4, <2>5 DEF d, o
<1>6. CASE Done(c, v, p \o m.bytes, m.bits) \/ Spoilt(c, v)
  <2>1. IsContext(c) /\ c.whichSha = v /\ Stopped(c) BY <1>6 DEF Done, Spoilt, Stopped
  <2>2. IF t = <<>> THEN d.err = 0 /\ d.ctx = c ELSE d.err # 0 /\ Spoilt(d.ctx, v)
    BY <2>1, InputRefused DEF d, Stopped
  <2>3. CASE t = <<>>
    <3>1. m.bytes \o t = m.bytes BY <1>1, <2>3
    <3>2. SameMessage(m, o) /\ d.ctx = c BY <1>3, <2>2, <2>3, <3>1 DEF SameMessage
    <3> QED BY <1>6, <2>1, <3>2 DEF SameMessage, Has, d, o
  <2>4. CASE t # <<>>
    <3>1. Spoilt(d.ctx, v) /\ SameMessage(m, o) BY <1>4, <2>2, <2>4
    <3>2. Has(d.ctx, o, v, p, S) /\ Stopped(d.ctx) BY <3>1 DEF Has, Spoilt, Stopped
    <3> QED BY <3>1, <3>2 DEF d, o
  <2> QED BY <2>3, <2>4
<1> QED BY <1>5, <1>6 DEF Has

\* its last bits
LEMMA GiveBitsIs ==
    ASSUME HashesAssumption, NEW v \in SHAversions, NEW S, Marks \subseteq S, NEW p \in Seq(S), NEW m \in Messages,
           NEW n \in 1 .. 8, NEW c, Has(c, m, v, p, S)
    PROVE  LET d == USHAFinalBits(c, LastByte, n)
               o == Told(d.err, m, [m EXCEPT !.bits = n])
           IN  /\ Has(d.ctx, o, v, p, S)
               /\ Stopped(c) => SameMessage(m, o) /\ Stopped(d.ctx)
<1> DEFINE d == USHAFinalBits(c, LastByte, n)
           o == Told(d.err, m, [m EXCEPT !.bits = n])
<1>1. d.err = 0 => o.bytes = m.bytes /\ o.bits = n BY DEF Told, shaSuccess, Messages
<1>2. d.err # 0 => SameMessage(m, o) BY DEF Told, shaSuccess, Messages, SameMessage
<1> HIDE DEF o, d
<1>3. CASE Fed(c, v, p \o m.bytes, S) /\ n # 8
  <2> DEFINE s == p \o m.bytes
  <2>1. d.err = 0 /\ (Done(d.ctx, v, s, n) \/ Spoilt(d.ctx, v))
    <3> HIDE DEF s
    <3>1. Fed(c, v, s, S) /\ n \in 1 .. 7 BY <1>3 DEF s
    <3> QED BY <3>1, BitsEnd DEF d
  <2>2. s = p \o o.bytes /\ o.bits = n BY <1>1, <2>1
  <2> HIDE DEF s
  <2>3. Has(d.ctx, o, v, p, S) BY <2>1, <2>2 DEF Has
  <2>4. ~Stopped(c) BY <1>3 DEF Fed, Stopped
  <2> QED BY <2>3, <2>4 DEF d, o
<1>4. CASE ~(Fed(c, v, p \o m.bytes, S) /\ n # 8)
  <2>1. IsContext(c) /\ c.whichSha = v /\ (Stopped(c) \/ n = 8)
    <3>1. CASE Fed(c, v, p \o m.bytes, S)
      <4>1. PICK q \in Nat : Filled(c, p \o m.bytes, q, c.index, S) BY <3>1 DEF Fed
      <4>2. IsContext(c) BY <4>1, ContextIs DEF Filled
      <4> QED BY <1>4, <3>1, <4>2 DEF Fed
    <3>2. CASE Done(c, v, p \o m.bytes, m.bits) \/ Spoilt(c, v) BY <3>2 DEF Done, Spoilt, Stopped
    <3> QED BY <3>1, <3>2 DEF Has
  <2>2. d.err # 0 /\ Spoilt(d.ctx, v) BY <2>1, BitsRefused DEF d, Stopped
  <2>3. Has(d.ctx, o, v, p, S) /\ Stopped(d.ctx) BY <2>2 DEF Has, Spoilt, Stopped
  <2> QED BY <1>2, <2>2, <2>3 DEF d, o
<1> QED BY <1>3, <1>4

\* its digest
LEMMA AnswerIs ==
    ASSUME HashesAssumption, NEW v \in SHAversions, NEW S, Marks \subseteq S, NEW p \in Seq(S), NEW m \in Messages,
           NEW c, Has(c, m, v, p, S)
    PROVE  LET d == USHAResult(c)
           IN  \/ /\ d.err = 0 /\ Done(d.ctx, v, p \o m.bytes, m.bits)
                  /\ d.digest = Hashed(v, p \o m.bytes, LastByte, m.bits) /\ c.whichSha = v
               \/ d.err # 0 /\ d.digest = NoDigest /\ Spoilt(d.ctx, v) /\ Spoilt(c, v)
<1> DEFINE d == USHAResult(c)
           s == p \o m.bytes
<1>1. CASE Fed(c, v, s, S) /\ m.bits = 0
  <2> HIDE DEF s
  <2>1. d.err = 0 /\ d.digest = Hashed(v, s, LastByte, 0) /\ Done(d.ctx, v, s, 0) BY <1>1, ResultEnds
  <2>2. c.whichSha = v BY <1>1 DEF Fed
  <2> HIDE DEF d
  <2> QED BY <1>1, <2>1, <2>2 DEF d, s
<1>2. CASE Done(c, v, s, m.bits)
  <2> HIDE DEF s
  <2>1. d.err = 0 /\ d.digest = Hashed(v, s, LastByte, m.bits) /\ d.ctx = c BY <1>2, ResultAgain
  <2>2. c.whichSha = v BY <1>2 DEF Done
  <2> HIDE DEF d
  <2> QED BY <1>2, <2>1, <2>2 DEF d, s
<1>3. CASE Spoilt(c, v)
  <2>1. d.err # 0 /\ d.digest = NoDigest /\ d.ctx = c BY <1>3, ResultNone
  <2> HIDE DEF d
  <2> QED BY <1>3, <2>1 DEF d
<1> QED BY <1>1, <1>2, <1>3 DEF Has

\* what is told of the message is of its type
LEMMA MessageIs ==
    ASSUME NEW m \in Messages, NEW err
    PROVE  /\ \A t \in Seq(GivenBytes) : Told(err, m, [m EXCEPT !.bytes = @ \o t]) \in Messages
           /\ \A n \in Nat : Told(err, m, [m EXCEPT !.bits = n]) \in Messages
           /\ Told(err, m, m) \in Messages
<1>1. [m EXCEPT !.refused = TRUE] \in Messages BY DEF Messages
<1>2. ASSUME NEW t \in Seq(GivenBytes) PROVE [m EXCEPT !.bytes = @ \o t] \in Messages
  <2> DEFINE b == m.bytes \o t
  <2>1. b \in Seq(GivenBytes) BY DEF Messages
  <2> HIDE DEF b
  <2>2. [m EXCEPT !.bytes = b] \in Messages BY <2>1 DEF Messages
  <2> QED BY <2>2 DEF b
<1>3. ASSUME NEW n \in Nat PROVE [m EXCEPT !.bits = n] \in Messages BY DEF Messages
<1> QED BY <1>1, <1>2, <1>3 DEF Told

LEMMA OfNone == ASSUME NEW m, NEW v PROVE OfIt(NoDigest, m, v)
BY Zenon DEF OfIt

LEMMA OfSame == ASSUME NEW m, NEW o, SameMessage(m, o), NEW v, NEW d, OfIt(d, m, v) PROVE OfIt(d, o, v)
BY Zenon DEF OfIt, SameMessage

LEMMA HashInvInit == ASSUME HashesAssumption, HashesInit PROVE HashInv
<1>1. PICK v \in SHAversions : sha = USHAReset(v) BY DEF HashesInit
<1>2. Fed(sha, v, <<>>, Marks) BY <1>1, ResetIs
<1>3. message.bytes = <<>> /\ message.bits = 0 /\ message \in Messages
  <2>1. message = [bytes |-> <<>>, bits |-> 0, refused |-> FALSE] BY DEF HashesInit, Nothing
  <2> QED BY <2>1 DEF Messages
<1>4. <<>> \o message.bytes = <<>> BY <1>3
<1>5. AloneIs(sha, message, digest, v)
  <2>1. Fed(sha, v, <<>> \o message.bytes, Marks) BY <1>2, <1>4
  <2>2. Has(sha, message, v, <<>>, Marks) BY <1>3, <2>1 DEF Has
  <2>3. digest = NoDigest BY DEF HashesInit
  <2> QED BY <2>2, <2>3, OfNone DEF AloneIs
<1>6. mac.key = <<>> BY DEF HashesInit
<1> QED BY <1>3, <1>5, <1>6 DEF HashInv

LEMMA StartKeeps == ASSUME HashesAssumption, HashInv, NEW w \in SHAversions, NEW n \in KeySizes, StartMac(w, n) PROVE HashInv'
<1> DEFINE key == KeyOf(n)
           c == hmacReset(w, key)
           p == InnerPad(w, key)
           S == Symbols(w, key)
<1>1. /\ message = Nothing /\ digest = NoDigest /\ message' = message /\ digest' = digest
      /\ sha' = c.sha /\ mac' = [key |-> key, k_opad |-> c.k_opad]
  BY DEF StartMac
<1>2. c.k_opad = OuterPad(w, key) /\ Takes(c.sha, w, p, S) BY StartIs
<1>3. mac'.key = key /\ mac'.k_opad = OuterPad(w, key)
  <2> HIDE DEF c, key
  <2> QED BY <1>1, <1>2
<1> HIDE DEF c
<1>4. message'.bytes = <<>> /\ message'.bits = 0 /\ message' \in Messages BY <1>1 DEF HashInv, Nothing
<1>5. p \o message'.bytes = p
  <2>1. p \in Seq(S) BY PadsAre
  <2> HIDE DEF p, S
  <2> QED BY <1>4, <2>1
<1> HIDE DEF p, S
<1>6. Has(sha', message', w, p, S) BY <1>1, <1>2, <1>4, <1>5 DEF Has, Takes
<1>7. KeyedIs(sha', message', digest', w, n) BY <1>1, <1>6 DEF KeyedIs, p, S, key
<1> QED BY <1>3, <1>4, <1>7 DEF HashInv

\* what is given, to a digest or to an hmac that was not answered yet
LEMMA GivenKeeps ==
    ASSUME HashInv, mac.key # <<>> => digest = NoDigest, UNCHANGED <<mac, digest>>, message' \in Messages,
           message.refused => message'.refused,
           \A p, S : \A v \in SHAversions : Marks \subseteq S /\ p \in Seq(S) /\ Has(sha, message, v, p, S) =>
             Has(sha', message', v, p, S) /\ (Stopped(sha) => SameMessage(message, message') /\ Stopped(sha')),
           HashesAssumption
    PROVE  HashInv'
<1>1. PICK v \in SHAversions :
        \/ mac.key = <<>> /\ AloneIs(sha, message, digest, v)
        \/ \E n \in KeySizes : /\ mac.key = KeyOf(n) /\ mac.k_opad = OuterPad(v, KeyOf(n))
                               /\ KeyedIs(sha, message, digest, v, n)
  BY DEF HashInv
<1>2. CASE mac.key = <<>> /\ AloneIs(sha, message, digest, v)
  <2>1. Marks \subseteq Marks /\ <<>> \in Seq(Marks) OBVIOUS
  <2>2. Has(sha, message, v, <<>>, Marks) BY <1>2 DEF AloneIs
  <2>3. Has(sha', message', v, <<>>, Marks) /\ (Stopped(sha) => SameMessage(message, message') /\ Stopped(sha')) BY <2>1, <2>2
  <2>4. digest' = digest /\ OfIt(digest, message, v) /\ (digest # NoDigest => Stopped(sha)) BY <1>2 DEF AloneIs
  <2>5. OfIt(digest', message', v)
    <3>1. CASE digest = NoDigest BY <2>4, <3>1, OfNone
    <3>2. CASE digest # NoDigest
      <4>1. SameMessage(message, message') BY <2>3, <2>4, <3>2
      <4> QED BY <2>4, <4>1, OfSame
    <3> QED BY <3>1, <3>2
  <2>6. digest' # NoDigest => Stopped(sha') BY <2>3, <2>4
  <2>7. AloneIs(sha', message', digest', v) BY <2>3, <2>5, <2>6 DEF AloneIs
  <2> QED BY <1>2, <2>7 DEF HashInv
<1>3. CASE \E n \in KeySizes : /\ mac.key = KeyOf(n) /\ mac.k_opad = OuterPad(v, KeyOf(n))
                               /\ KeyedIs(sha, message, digest, v, n)
  <2>1. PICK n \in KeySizes : /\ mac.key = KeyOf(n) /\ mac.k_opad = OuterPad(v, KeyOf(n))
                              /\ KeyedIs(sha, message, digest, v, n)
    BY <1>3
  <2>2. digest = NoDigest /\ digest' = NoDigest BY <2>1, KeyIs
  <2> DEFINE p == InnerPad(v, KeyOf(n))
             S == Symbols(v, KeyOf(n))
  <2>3. Marks \subseteq S /\ p \in Seq(S)
    <3>1. p \in Seq(S) BY PadsAre
    <3> QED BY <3>1 DEF Symbols
  <2> HIDE DEF p, S
  <2>4. message.refused \/ Has(sha, message, v, p, S) BY <2>1, <2>2 DEF KeyedIs, p, S
  <2>5. message'.refused \/ Has(sha', message', v, p, S) BY <2>3, <2>4
  <2>6. KeyedIs(sha', message', digest', v, n) BY <2>2, <2>5 DEF KeyedIs, p, S
  <2> QED BY <2>1, <2>6 DEF HashInv
<1> QED BY <1>1, <1>2, <1>3

LEMMA GiveKeeps ==
    ASSUME HashesAssumption, HashInv, NEW n \in Portions, mac.key # <<>> => digest = NoDigest, Give(n)
    PROVE  HashInv'
<1> DEFINE from == Len(message.bytes)
           t == [i \in 1 .. n |-> <<"byte", from + i>>]
           d == USHAInput(sha, t)
<1>1. sha' = d.ctx /\ message' = Told(d.err, message, [message EXCEPT !.bytes = @ \o t]) /\ UNCHANGED <<mac, digest>>
  BY DEF Give, hmacInput, Told
<1>2. message \in Messages BY DEF HashInv
<1>3. t \in Seq(GivenBytes)
  <2>1. n \in Nat BY DEF HashesAssumption
  <2>2. from \in Nat BY <1>2 DEF Messages
  <2>3. t \in [1 .. n -> GivenBytes] BY <2>1, <2>2 DEF GivenBytes
  <2> HIDE DEF t
  <2> QED BY <2>1, <2>3, ManyIs
<1> HIDE DEF t
<1>4. message' \in Messages BY <1>1, <1>2, <1>3, MessageIs
<1>5. message.refused => message'.refused BY <1>1, <1>2 DEF Told, Messages
<1>6. ASSUME NEW v \in SHAversions, NEW p, NEW S, Marks \subseteq S, p \in Seq(S), Has(sha, message, v, p, S)
      PROVE  Has(sha', message', v, p, S) /\ (Stopped(sha) => SameMessage(message, message') /\ Stopped(sha'))
  BY <1>1, <1>2, <1>3, <1>6, GiveIs
<1> QED BY <1>1, <1>4, <1>5, <1>6, GivenKeeps

LEMMA GiveBitsKeeps ==
    ASSUME HashesAssumption, HashInv, NEW n \in 1 .. 8, mac.key # <<>> => digest = NoDigest, GiveBits(n)
    PROVE  HashInv'
<1> DEFINE d == USHAFinalBits(sha, LastByte, n)
<1>1. sha' = d.ctx /\ message' = Told(d.err, message, [message EXCEPT !.bits = n]) /\ UNCHANGED <<mac, digest>>
  BY DEF GiveBits, hmacFinalBits, Told
<1>2. message \in Messages BY DEF HashInv
<1>3. n \in Nat OBVIOUS
<1>4. message' \in Messages BY <1>1, <1>2, <1>3, MessageIs
<1>5. message.refused => message'.refused BY <1>1, <1>2 DEF Told, Messages
<1>6. ASSUME NEW v \in SHAversions, NEW p, NEW S, Marks \subseteq S, p \in Seq(S), Has(sha, message, v, p, S)
      PROVE  Has(sha', message', v, p, S) /\ (Stopped(sha) => SameMessage(message, message') /\ Stopped(sha'))
  BY <1>1, <1>2, <1>6, GiveBitsIs
<1> QED BY <1>1, <1>4, <1>5, <1>6, GivenKeeps

LEMMA AnswerKeeps == ASSUME HashesAssumption, HashInv, Answer PROVE HashInv'
<1>1. message \in Messages /\ message.bytes \in Seq(GivenBytes) /\ message.bits \in Nat BY DEF HashInv, Messages
<1>2. PICK v \in SHAversions :
        \/ mac.key = <<>> /\ AloneIs(sha, message, digest, v)
        \/ \E n \in KeySizes : /\ mac.key = KeyOf(n) /\ mac.k_opad = OuterPad(v, KeyOf(n))
                               /\ KeyedIs(sha, message, digest, v, n)
  BY DEF HashInv
<1>3. CASE mac.key = <<>> /\ AloneIs(sha, message, digest, v)
  <2> DEFINE d == USHAResult(sha)
             b == message.bytes
  <2>1. /\ sha' = d.ctx /\ digest' = d.digest /\ mac' = mac
        /\ message' = Told(d.err, message, message)
    BY <1>3 DEF Answer, Told
  <2>2. message' \in Messages /\ SameMessage(message, message')
    BY <1>1, <2>1, MessageIs DEF Told, Messages, SameMessage
  <2>3. Marks \subseteq Marks /\ <<>> \in Seq(Marks) /\ <<>> \o b = b BY <1>1
  <2>4. Has(sha, message, v, <<>>, Marks) BY <1>3 DEF AloneIs
  <2>5. \/ /\ d.err = 0 /\ Done(d.ctx, v, b, message.bits)
           /\ d.digest = Hashed(v, b, LastByte, message.bits)
        \/ d.err # 0 /\ d.digest = NoDigest /\ Spoilt(d.ctx, v)
    <3>1. \/ /\ d.err = 0 /\ Done(d.ctx, v, <<>> \o b, message.bits)
             /\ d.digest = Hashed(v, <<>> \o b, LastByte, message.bits)
          \/ d.err # 0 /\ d.digest = NoDigest /\ Spoilt(d.ctx, v)
      BY <1>1, <2>3, <2>4, AnswerIs
    <3> HIDE DEF d, b
    <3> QED BY <2>3, <3>1
  <2> HIDE DEF d
  <2>6. Has(sha', message', v, <<>>, Marks) /\ Stopped(sha') /\ OfIt(digest', message', v)
        <3> DEFINE c == sha'
               o == message'
    <3>1. /\ \/ Done(c, v, b, message.bits) /\ digest' = Hashed(v, b, LastByte, message.bits)
             \/ digest' = NoDigest /\ Spoilt(c, v)
          /\ o.bytes = b /\ o.bits = message.bits
      BY <2>1, <2>2, <2>5 DEF SameMessage
    <3>2. <<>> \o o.bytes = b BY <2>3, <3>1
    <3> HIDE DEF c, o, b
    <3>3. CASE Done(c, v, b, message.bits) /\ digest' = Hashed(v, b, LastByte, message.bits)
      <4>1. c.computed /\ 8 * Len(b) + message.bits <= Longest BY <3>3 DEF Done
      <4>2. Has(c, o, v, <<>>, Marks) BY <3>1, <3>2, <3>3 DEF Has
      <4>3. OfIt(digest', o, v) BY <3>1, <3>3, <4>1 DEF OfIt
      <4> QED BY <4>1, <4>2, <4>3 DEF Stopped, c, o
    <3>4. CASE digest' = NoDigest /\ Spoilt(c, v)
      <4>1. Has(c, o, v, <<>>, Marks) /\ OfIt(digest', o, v) /\ Stopped(c) BY <3>4, OfNone DEF Has, Stopped, Spoilt
      <4> QED BY <4>1 DEF c, o
    <3> QED BY <3>1, <3>3, <3>4
  <2>7. AloneIs(sha', message', digest', v) BY <2>6 DEF AloneIs
  <2> QED BY <1>3, <2>1, <2>2, <2>7 DEF HashInv
<1>4. ASSUME NEW n \in KeySizes, mac.key = KeyOf(n), mac.k_opad = OuterPad(v, KeyOf(n)), KeyedIs(sha, message, digest, v, n)
      PROVE  HashInv'
  <2> DEFINE key == KeyOf(n)
             p == InnerPad(v, key)
             q == OuterPad(v, key)
             S == Symbols(v, key)
             b == message.bytes
             s == p \o b
             d == USHAResult(sha)
             r == hmacResult(sha, q)
             h == Hashed(v, s, LastByte, message.bits)
             t == q \o h
  <2>1. mac.key # <<>> BY <1>4, KeyIs
  <2>2. /\ digest = NoDigest /\ ~message.refused /\ mac' = mac
        /\ sha' = r.ctx /\ digest' = r.digest /\ message' = Told(r.err, message, message)
    BY <1>4, <2>1 DEF Answer, Told
  <2>3. message' \in Messages /\ SameMessage(message, message')
    BY <1>1, <2>2, MessageIs DEF Told, Messages, SameMessage
  <2>4. Marks \subseteq S /\ p \in Seq(S) /\ Len(p) = BlockSize[v]
    <3>1. p \in Seq(S) /\ Len(p) = BlockSize[v] BY PadsAre
    <3> QED BY <3>1 DEF Symbols
  <2>5. Has(sha, message, v, p, S) BY <1>4, <2>2 DEF KeyedIs
  <2>6. \/ d.err = 0 /\ Done(d.ctx, v, s, message.bits) /\ d.digest = h /\ sha.whichSha = v
        \/ d.err # 0 /\ Spoilt(sha, v)
    <3> HIDE DEF p, S
    <3> QED BY <1>1, <2>4, <2>5, AnswerIs
  <2>7. CASE d.err = 0 /\ Done(d.ctx, v, s, message.bits) /\ d.digest = h /\ sha.whichSha = v
    <3>1. Results(r, v, t)
      <4> HIDE DEF s
      <4> QED BY <2>7, OuterIs
    <3>2. 8 * Len(s) + message.bits <= Longest BY <2>7 DEF Done
    <3>3. Mac(v, key, b, LastByte, message.bits) = Hashed(v, t, LastByte, 0) BY MacIs
    <3>4. b \in Seq(S)
      <4>1. GivenBytes \subseteq S BY DEF Symbols, Marks, GivenBytes
      <4> HIDE DEF S
      <4> QED BY <1>1, <4>1, WiderSeq
    <3>5. Len(s) = BlockSize[v] + Len(b) /\ Len(b) \in Nat /\ BlockSize[v] \in Nat
      <4>1. BlockSize[v] \in Nat BY DEF HashesAssumption
      <4>2. Joins(S, s, p, b)
        <5> HIDE DEF p, S, b
        <5> QED BY <2>4, <3>4, JoinedIs
      <4> HIDE DEF p, S, b, s
      <4> QED BY <2>4, <4>1, <4>2 DEF Joins
    <3>6. 8 * Len(b) + message.bits + 8 * BlockSize[v] <= Longest
      <4>1. Longest \in Int
        <5>1. Word * Word \in Nat BY Products DEF HashesAssumption
        <5> QED BY <5>1 DEF Longest
      <4> DEFINE l == Len(s)
                 k == Len(b)
                 z == BlockSize[v]
                 bits == message.bits
      <4>2. l = z + k /\ k \in Nat /\ z \in Nat /\ bits \in Nat /\ 8 * l + bits <= Longest BY <1>1, <3>2, <3>5
      <4> HIDE DEF l, k, z, bits
      <4>3. 8 * k + bits + 8 * z <= Longest BY <4>1, <4>2
      <4> QED BY <4>3 DEF k, z, bits
    <3>7. CASE 8 * Len(t) <= Longest
      <4>1. r.err = 0 /\ r.digest = Mac(v, key, b, LastByte, message.bits) /\ r.ctx.whichSha = v
        <5> HIDE DEF t, r
        <5> QED BY <3>1, <3>3, <3>7 DEF Results
      <4>2. digest' # NoDigest
        <5> HIDE DEF t, r
        <5> DEFINE e == Hashed(v, t, LastByte, 0)
        <5>1. e # NoDigest BY DigestIs
        <5> HIDE DEF e
        <5>2. Mac(v, key, b, LastByte, message.bits) = e BY <3>3 DEF e
        <5> QED BY <2>2, <4>1, <5>1, <5>2
      <4>3. message.bits = 0 /\ v = "SHA256" /\ b # <<>> => HMACSHA256_ComputeHash(key, b, <<>>) = Mac(v, key, b, LastByte, message.bits)
        <5> SUFFICES ASSUME message.bits = 0, v = "SHA256", b # <<>> PROVE HMACSHA256_ComputeHash(key, b, <<>>) = Mac(v, key, b, LastByte, 0) OBVIOUS
        <5>1. 8 * Len(s) <= Longest
          <6> DEFINE l == Len(s)
          <6>1. l \in Nat /\ 8 * l + 0 <= Longest BY <3>2, <3>5
          <6> HIDE DEF l
          <6>2. 8 * l <= Longest BY <6>1
          <6> QED BY <6>2 DEF l
        <5>2. 8 * Len(q \o Hashed(v, s, LastByte, 0)) <= Longest BY <3>7
        <5>3. b \in Seq(GivenBytes) BY <1>1
        <5> HIDE DEF b, q
        <5> QED BY <5>1, <5>2, <5>3, AtOnce DEF q
      <4>4. KeyedIs(sha', message', digest', v, n)
        <5> HIDE DEF r, t
        <5> QED BY <2>2, <2>3, <3>6, <4>1, <4>2, <4>3 DEF KeyedIs, SameMessage
      <4> QED BY <1>4, <2>2, <2>3, <4>4 DEF HashInv
    <3>8. CASE ~(8 * Len(t) <= Longest)
      <4>1. r.err # 0 /\ r.digest = NoDigest
        <5> HIDE DEF t, r
        <5> QED BY <3>1, <3>8 DEF Results
      <4> HIDE DEF r
      <4>2. message'.refused BY <1>1, <2>2, <4>1 DEF Told, shaSuccess, Messages
      <4>3. KeyedIs(sha', message', digest', v, n) BY <2>2, <4>1, <4>2 DEF KeyedIs
      <4> QED BY <1>4, <2>2, <2>3, <4>3 DEF HashInv
    <3> QED BY <3>7, <3>8
  <2>8. CASE d.err # 0 /\ Spoilt(sha, v)
    <3>1. r.err # 0 /\ r.digest = NoDigest BY <2>8, OuterNone
    <3> HIDE DEF r
    <3>2. message'.refused BY <1>1, <2>2, <3>1 DEF Told, shaSuccess, Messages
    <3>3. KeyedIs(sha', message', digest', v, n) BY <2>2, <3>1, <3>2 DEF KeyedIs
    <3> QED BY <1>4, <2>2, <2>3, <3>3 DEF HashInv
  <2> QED BY <2>6, <2>7, <2>8
<1> QED BY <1>2, <1>3, <1>4

LEMMA HashInvKept == ASSUME HashesAssumption, HashInv, [HashNext]_hashVars PROVE HashInv'
<1>1. ASSUME NEW w \in SHAversions, NEW n \in KeySizes, StartMac(w, n) PROVE HashInv' BY <1>1, StartKeeps
<1>2. ASSUME NEW n \in Portions, mac.key # <<>> => digest = NoDigest, Give(n) PROVE HashInv' BY <1>2, GiveKeeps
<1>3. ASSUME NEW n \in 1 .. 8, mac.key # <<>> => digest = NoDigest, GiveBits(n) PROVE HashInv' BY <1>3, GiveBitsKeeps
<1>4. CASE Answer BY <1>4, AnswerKeeps
<1>5. CASE UNCHANGED hashVars BY <1>5 DEF hashVars, HashInv
<1> QED BY <1>1, <1>2, <1>3, <1>4, <1>5 DEF HashNext

LEMMA HashInvShows == ASSUME HashesAssumption, HashInv PROVE DigestsOfWholeMessage
<1>1. PICK v \in SHAversions :
        \/ mac.key = <<>> /\ AloneIs(sha, message, digest, v)
        \/ \E n \in KeySizes : /\ mac.key = KeyOf(n) /\ mac.k_opad = OuterPad(v, KeyOf(n))
                               /\ KeyedIs(sha, message, digest, v, n)
  BY DEF HashInv
<1>2. message.bits \in Nat /\ Len(message.bytes) \in Nat BY DEF HashInv, Messages
<1>3. CASE mac.key = <<>> /\ AloneIs(sha, message, digest, v)
  <2> SUFFICES ASSUME digest # NoDigest PROVE DigestsOfWholeMessage BY DEF DigestsOfWholeMessage
  <2>1. sha.whichSha = v
    <3>1. Stopped(sha) /\ Has(sha, message, v, <<>>, Marks) BY <1>3 DEF AloneIs
    <3> QED BY <3>1 DEF Has, Stopped, Fed, Done, Spoilt
  <2>2. 8 * Len(message.bytes) + message.bits <= Longest /\ digest = Hashed(v, message.bytes, LastByte, message.bits)
    BY <1>3 DEF AloneIs, OfIt
  <2>3. Given <= Longest BY <1>2, <1>3, <2>2 DEF Given
  <2> QED BY <1>3, <2>1, <2>2, <2>3 DEF DigestsOfWholeMessage
<1>4. ASSUME NEW n \in KeySizes, mac.key = KeyOf(n), KeyedIs(sha, message, digest, v, n)
      PROVE  DigestsOfWholeMessage
  <2> SUFFICES ASSUME digest # NoDigest PROVE DigestsOfWholeMessage BY DEF DigestsOfWholeMessage
  <2>1. mac.key # <<>> BY <1>4, KeyIs
  <2>2. /\ sha.whichSha = v
        /\ 8 * Len(message.bytes) + message.bits + 8 * BlockSize[v] <= Longest
        /\ digest = Mac(v, mac.key, message.bytes, LastByte, message.bits)
        /\ message.bits = 0 /\ v = "SHA256" /\ message.bytes # <<>> =>
             HMACSHA256_ComputeHash(mac.key, message.bytes, <<>>) = digest
    BY <1>4 DEF KeyedIs
  <2>3. Given <= Longest BY <2>1, <2>2 DEF Given
  <2> QED BY <2>1, <2>2, <2>3 DEF DigestsOfWholeMessage
<1> QED BY <1>1, <1>3, <1>4

\* A digest, or an hmac, that sha1.c, sha224.c, sha384-512.c or hmac.c answers is the one that the
\* standard has for all that was given, in whatever parts and however long; a message whose length
\* two words do not count has none.
THEOREM DigestsAreOfTheMessage ==
    HashesInit /\ [][HashNext]_hashVars => []DigestsOfWholeMessage
<1>1. HashesInit => HashInv BY HashInvInit, HashesAssumption
<1>2. HashInv /\ [HashNext]_hashVars => HashInv' BY HashInvKept, HashesAssumption
<1>3. HashInv => DigestsOfWholeMessage BY HashInvShows, HashesAssumption
<1> QED BY <1>1, <1>2, <1>3, PTL

==============================================================================
