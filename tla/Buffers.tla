------------------------------ MODULE Buffers ------------------------------
(***************************************************************************)
(* src/buffer.c and src/strings.c: blocks of bytes that are reallocated,   *)
(* copied into and cut.  A copy past the end of a block is an Overrun.     *)
(***************************************************************************)
EXTENDS Integers, Sequences, SequencesExt

CONSTANTS
    Buffers,    \* handles of buffers, two
    Bytes,      \* values of a byte
    MaxSize,    \* bound on the size of a buffer and the length of a string
    Characters  \* of strings: "a", "quote", "slash" (\ and /), "control", "unicode"

ASSUME BuffersAssumption ==
    /\ MaxSize \in Nat \ {0}
    /\ {"NULL", "overrun"} \cap Bytes = {} /\ "nul" \notin Characters    \* used for something else

VARIABLES
    buffer,   \* BUFFER: the block, with its allocated length, and size
    bytes,    \* what its caller believes it to hold
    str,      \* the block of a STRING, which "nul" ends
    text      \* what its caller believes it to be

bufferVars == <<buffer, bytes>>
stringVars == <<str, text>>

Unset == "unset"                 \* memory nobody wrote to yet
NULLBlock == <<"NULL">>
Overrun == <<"overrun">>

-----------------------------------------------------------------------------
(* the C library                                                            *)

malloc(n) == [i \in 1 .. n |-> Unset]
realloc(block, n) ==
    [i \in 1 .. n |-> IF block # NULLBlock /\ i <= Len(block) THEN block[i] ELSE Unset]
\* s is written to the block, at the offset at
memcpy(block, at, s) ==
    IF at + Len(s) > Len(block) THEN Overrun
    ELSE [i \in DOMAIN block |-> IF i \in at + 1 .. at + Len(s) THEN s[i - at] ELSE block[i]]
strlen(block) == SelectInSeq(block, LAMBDA x : x = "nul") - 1

-----------------------------------------------------------------------------
(* buffer.c                                                                 *)

Content(b) == IF buffer[b].size = 0 THEN <<>> ELSE SubSeq(buffer[b].block, 1, buffer[b].size)

BUFFER_new == [block |-> NULLBlock, size |-> 0]

\* a block of one byte stands for no bytes
BUFFER_safemalloc(n) == malloc(IF n = 0 THEN 1 ELSE n)

BUFFER_create(s) == [block |-> memcpy(BUFFER_safemalloc(Len(s)), 0, s), size |-> Len(s)]

BUFFER_build(b, s) ==
    IF s = <<>> THEN BUFFER_new
    ELSE [block |-> memcpy(realloc(buffer[b].block, Len(s)), 0, s), size |-> Len(s)]

\* slip: the offset of the new bytes is counted from the size after the append
BUFFER_append_build_behind(b, s) ==
    [block |-> memcpy(realloc(buffer[b].block, buffer[b].size + Len(s)), buffer[b].size + Len(s), s),
     size  |-> buffer[b].size + Len(s)]

BUFFER_append_build(b, s) ==
    IF buffer[b].block = NULLBlock
    THEN BUFFER_create(s)
    ELSE [block |-> memcpy(realloc(buffer[b].block, buffer[b].size + Len(s)), buffer[b].size, s),
          size  |-> buffer[b].size + Len(s)]

BUFFER_unbuild == BUFFER_new

BUFFER_pre_build(n) == [block |-> malloc(n), size |-> n]

BUFFER_enlarge(b, n) == [block |-> realloc(buffer[b].block, buffer[b].size + n), size |-> buffer[b].size + n]

BUFFER_shrink(b, n, fromEnd) ==
    LET left == buffer[b].size - n
        from == IF fromEnd THEN 0 ELSE n
    IN  IF left = 0 THEN BUFFER_new
        ELSE [block |-> memcpy(malloc(left), 0, SubSeq(buffer[b].block, from + 1, from + left)), size |-> left]

BUFFER_append(b, c) ==
    [block |-> memcpy(realloc(buffer[b].block, buffer[b].size + buffer[c].size), buffer[b].size, Content(c)),
     size  |-> buffer[b].size + buffer[c].size]

\* the new block has one byte to spare
BUFFER_prepend(b, c) ==
    [block |-> memcpy(memcpy(malloc(buffer[b].size + buffer[c].size + 1), 0, Content(c)),
                      buffer[c].size, Content(b)),
     size  |-> buffer[b].size + buffer[c].size]

BUFFER_fill(b, x) ==
    [buffer[b] EXCEPT !.block = memcpy(@, 0, [i \in 1 .. buffer[b].size |-> x])]

BUFFER_clone(b) ==
    [block |-> memcpy(BUFFER_safemalloc(buffer[b].size), 0, Content(b)), size |-> buffer[b].size]

\* the size that is refused because it does not fit a size_t
Fits(n) == n <= MaxSize

BuffersInit == buffer = [b \in Buffers |-> BUFFER_new] /\ bytes = [b \in Buffers |-> <<>>]

\* A call that succeeds makes of b what is given, and its caller believes it holds s; a
\* call refused, or one without the memory it needs, changes nothing.
Makes(b, new, s) ==
    \/ buffer' = [buffer EXCEPT ![b] = new] /\ bytes' = [bytes EXCEPT ![b] = s]
    \/ UNCHANGED bufferVars

Null(b) == buffer[b].block = NULLBlock

BufferNext ==
    \E b \in Buffers :
      \/ Makes(b, BUFFER_new, <<>>)
      \/ ~Null(b) /\ Makes(b, BUFFER_unbuild, <<>>)
      \/ \E s \in SeqOf(Bytes, MaxSize) :
           \/ Makes(b, BUFFER_create(s), s)
           \/ Makes(b, BUFFER_build(b, s), s)
           \/ /\ s # <<>> /\ Fits(buffer[b].size + Len(s))
              /\ Makes(b, BUFFER_append_build(b, s), bytes[b] \o s)
      \/ \E n \in 1 .. MaxSize :
           \/ Null(b) /\ Makes(b, BUFFER_pre_build(n), malloc(n))
           \/ Fits(buffer[b].size + n) /\ Makes(b, BUFFER_enlarge(b, n), bytes[b] \o malloc(n))
           \/ \E fromEnd \in BOOLEAN :
                /\ n <= buffer[b].size
                /\ Makes(b, BUFFER_shrink(b, n, fromEnd),
                         IF fromEnd THEN SubSeq(bytes[b], 1, Len(bytes[b]) - n)
                         ELSE SubSeq(bytes[b], n + 1, Len(bytes[b])))
      \/ \E x \in Bytes : Makes(b, BUFFER_fill(b, x), [i \in DOMAIN bytes[b] |-> x])
      \/ \E c \in Buffers \ {b} :
           \/ Makes(c, BUFFER_clone(b), bytes[b])
           \/ /\ ~Null(b) /\ ~Null(c) /\ buffer[c].size # 0 /\ Fits(buffer[b].size + buffer[c].size)
              /\ \/ Makes(b, BUFFER_append(b, c), bytes[b] \o bytes[c])
                 \/ Makes(b, BUFFER_prepend(b, c), bytes[c] \o bytes[b])

-----------------------------------------------------------------------------
(* strings.c                                                                *)

Asz(s) == Append(s, "nul")                         \* s as C has it
CStr(block) == SubSeq(block, 1, strlen(block))     \* and back

STRING_new == <<"nul">>
STRING_construct(s) == memcpy(malloc(Len(s) + 1), 0, Asz(s))
STRING_clone == memcpy(malloc(strlen(str) + 1), 0, Asz(CStr(str)))
STRING_new_quoted(s) == memcpy(malloc(Len(s) + 3), 0, Asz(<<"quote">> \o s \o <<"quote">>))
STRING_construct_n(s, n) == memcpy(malloc(Len(s) + 1), 0, Asz(SubSeq(s, 1, n)))
STRING_from_byte_array(s) == memcpy(malloc(Len(s) + 1), 0, Asz(s))

\* what each character becomes inside a JSON string; \u00xx takes six
Escape(x) == CASE x = "control" -> <<"slash", "u", "0", "0", "h", "l">>
               [] x \in {"quote", "slash"} -> <<"slash", x>>
               [] OTHER -> <<x>>

\* The allocation is computed first, from a count of the characters to be expanded.
STRING_new_JSON(s) ==
    LET nControlCharacters == Cardinality({i \in DOMAIN s : s[i] = "control"})
        nEscapeCharacters  == Cardinality({i \in DOMAIN s : s[i] \in {"quote", "slash"}})
        nAllocation        == Len(s) + 5 * nControlCharacters + nEscapeCharacters + 3
    IN  memcpy(malloc(nAllocation), 0,
               <<"quote">> \o FlattenSeq([i \in DOMAIN s |-> Escape(s[i])]) \o <<"quote", "nul">>)

STRING_concat(s) == memcpy(realloc(str, strlen(str) + Len(s) + 1), strlen(str), Asz(s))
STRING_concat_with_STRING(s) == memcpy(realloc(str, strlen(str) + Len(s) + 1), strlen(str), Asz(s))
STRING_copy(s) == memcpy(realloc(str, Len(s) + 1), 0, Asz(s))
STRING_copy_n(s, n) ==
    LET k == IF Len(s) > n THEN n ELSE Len(s)
    IN  memcpy(memcpy(realloc(str, k + 1), 0, SubSeq(s, 1, k)), k, <<"nul">>)
\* vsnprintf is first asked for the length; when the second call fails the end is put back
STRING_sprintf(s) ==
    IF s = <<>> THEN str ELSE memcpy(realloc(str, strlen(str) + Len(s) + 1), strlen(str), Asz(s))
STRING_sprintf_undone(s) ==
    memcpy(memcpy(realloc(str, strlen(str) + Len(s) + 1), strlen(str), s), strlen(str), <<"nul">>)
STRING_quote ==
    LET n == strlen(str)
    IN  memcpy(memcpy(memcpy(realloc(str, n + 3), 1, CStr(str)), 0, <<"quote">>),
               n + 1, <<"quote", "nul">>)
STRING_empty == memcpy(realloc(str, 1), 0, <<"nul">>)
STRING_replace(target, replace) ==
    [i \in DOMAIN str |-> IF i <= strlen(str) /\ str[i] = target THEN replace ELSE str[i]]

StringsInit == str = STRING_new /\ text = <<>>

\* bound: strings of two arguments and one more character
MaxLength == 2 * MaxSize + 1
Becomes(block, s) == Len(s) <= MaxLength /\ str' = block /\ text' = s

\* a byte array may hold a zero, which ends the string
BeforeNul(s) == LET i == SelectInSeq(s, LAMBDA x : x = "nul") IN IF i = 0 THEN s ELSE SubSeq(s, 1, i - 1)

StringNext ==
    \/ Becomes(STRING_new, <<>>)
    \/ Becomes(STRING_clone, text)
    \/ Becomes(STRING_quote, <<"quote">> \o text \o <<"quote">>)
    \/ Becomes(STRING_empty, <<>>)
    \/ \E s \in SeqOf(Characters, MaxSize) :
         \/ Becomes(STRING_construct(s), s)
         \/ Becomes(STRING_new_quoted(s), <<"quote">> \o s \o <<"quote">>)
         \/ Becomes(STRING_concat(s), text \o s)
         \/ Becomes(STRING_concat_with_STRING(s), text \o s)
         \/ Becomes(STRING_copy(s), s)
         \/ Becomes(STRING_sprintf(s), text \o s)
         \/ Becomes(STRING_sprintf_undone(s), text)
         \/ \E n \in 0 .. MaxSize :
              \/ Becomes(STRING_copy_n(s, n), SubSeq(s, 1, IF n < Len(s) THEN n ELSE Len(s)))
              \/ n <= Len(s) /\ Becomes(STRING_construct_n(s, n), SubSeq(s, 1, n))
    \/ \E s \in SeqOf(Characters \cup {"nul"}, MaxSize) : Becomes(STRING_from_byte_array(s), BeforeNul(s))
    \/ \E x, y \in Characters :
         Becomes(STRING_replace(x, y), [i \in DOMAIN text |-> IF text[i] = x THEN y ELSE text[i]])

-----------------------------------------------------------------------------
(* Properties.                                                              *)

\* A buffer holds what its caller put into it, no copy leaves its block, and size never
\* exceeds what is allocated, through any sequence of calls, failed ones included.  A string
\* is always ended inside its block and is what its caller made of it; quoting it for JSON
\* writes exactly the bytes that were counted beforehand.
BuffersAsTold ==
    /\ \A b \in Buffers : /\ buffer[b].block # Overrun
                          /\ buffer[b].size <= Len(buffer[b].block)
                          /\ Content(b) = bytes[b]
    /\ str # Overrun /\ strlen(str) >= 0 /\ CStr(str) = text
    /\ LET json == STRING_new_JSON(text)
       IN  "unicode" \in ToSet(text) \/ (json # Overrun /\ strlen(json) = Len(json) - 1)

=============================================================================
