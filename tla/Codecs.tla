------------------------------ MODULE Codecs ------------------------------
(***************************************************************************)
(* The conversions of the library: src/base64.c, base32.c, urlencode.c,    *)
(* utf8_checker.c and uws_frame_encoder.c; and what takes texts apart and  *)
(* puts them together: string_token.c, string_tokenizer.c,                 *)
(* connection_string_parser.c, sastoken.c, uuid.c and crt_abstractions.c.  *)
(* Bytes and characters are numbers for the former, texts are sequences of *)
(* them without the zero that ends a C string.  What a decoder refuses is  *)
(* NoResult; a byte of a result that the decoder allocated and never wrote  *)
(* is UnsetByte.  Allocations succeed.                                     *)
(***************************************************************************)
EXTENDS Integers, Sequences, SequencesExt, Bitwise

CONSTANTS
    ULLONG_MAX,         \* of unsigned long long, small so that it is exceeded
    DBL_MAX_10_EXP,     \* of the exponents of numbers
    _TRUNCATE           \* the count that asks strncpy_s to copy what fits

ASSUME ParsersAssumption == ULLONG_MAX \in Nat /\ DBL_MAX_10_EXP \in Nat /\ _TRUNCATE \notin Nat

Byte == 0 .. 255
UnsetByte == 256
NoResult == <<257>>

Equals == 61    \* '='

\* the n elements of s from index i, counted from 0 as the code does
Cut(s, i, n) == SubSeq(s, i + 1, i + n)
\* s in groups of n, each turned by f(_) into a sequence; what is left over is ignored
PerGroup(s, n, f(_)) == FlattenSeq([i \in 1 .. Len(s) \div n |-> f(Cut(s, (i - 1) * n, n))])
LeftOver(s, n) == Cut(s, (Len(s) \div n) * n, Len(s) % n)

-----------------------------------------------------------------------------
(* base64.c                                                                 *)

base64char(val) ==
    CASE val < 26 -> 65 + val
      [] val \in 26 .. 51 -> 97 + (val - 26)
      [] val \in 52 .. 61 -> 48 + (val - 52)
      [] val = 62 -> 43
      [] OTHER -> 47

base64b16(val) == <<65, 69, 73, 77, 81, 85, 89, 99, 103, 107, 111, 115, 119, 48, 52, 56>>[val + 1]
base64b8(val) == <<65, 81, 103, 119>>[val + 1]

\* -1 in the code is NotBase64
NotBase64 == 64
base64toValue(c) ==
    CASE c \in 65 .. 90 -> c - 65
      [] c \in 97 .. 122 -> 26 + (c - 97)
      [] c \in 48 .. 57 -> 52 + (c - 48)
      [] c = 43 -> 62
      [] c = 47 -> 63
      [] OTHER -> NotBase64

numberOfBase64Characters(s) ==
    LET stop == SelectInSeq(s, LAMBDA c : base64toValue(c) = NotBase64)
    IN  IF stop = 0 THEN Len(s) ELSE stop - 1

Base64decode_len(s) ==
    IF s = <<>> THEN 0
    ELSE (Len(s) \div 4) * 3 - (IF Last(s) # Equals THEN 0 ELSE IF s[Len(s) - 1] = Equals THEN 2 ELSE 1)

\* what is written, one byte after the other; a single character left over is ignored
Base64decode(s) ==
    LET chars == SubSeq(s, 1, numberOfBase64Characters(s))
        Three(g) ==
            LET c(i) == base64toValue(g[i])
            IN  << c(1) * 4 + c(2) \div 16, (c(2) % 16) * 16 + c(3) \div 4, (c(3) % 4) * 64 + c(4) >>
        rest == LeftOver(chars, 4)
        c(i) == base64toValue(rest[i])
    IN  PerGroup(chars, 4, Three) \o
        (CASE Len(rest) = 2 -> << c(1) * 4 + c(2) \div 16 >>
           [] Len(rest) = 3 -> << c(1) * 4 + c(2) \div 16, (c(2) % 16) * 16 + c(3) \div 4 >>
           [] OTHER -> <<>>)

Base64_Decoder(s) ==
    LET written == Base64decode(s)
    IN  IF Len(s) % 4 # 0 THEN NoResult
        ELSE [i \in 1 .. Base64decode_len(s) |-> IF i <= Len(written) THEN written[i] ELSE UnsetByte]

Base64_Encode_Internal(s) ==
    LET Four(g) == << base64char(g[1] \div 4), base64char((g[1] % 4) * 16 + g[2] \div 16),
                      base64char((g[2] % 16) * 4 + g[3] \div 64), base64char(g[3] % 64) >>
        rest == LeftOver(s, 3)
    IN  PerGroup(s, 3, Four) \o
        (CASE Len(rest) = 2 -> << base64char(rest[1] \div 4),
                                  base64char((rest[1] % 4) * 16 + rest[2] \div 16),
                                  base64b16(rest[2] % 16), Equals >>
           [] Len(rest) = 1 -> << base64char(rest[1] \div 4), base64b8(rest[1] % 4), Equals, Equals >>
           [] OTHER -> <<>>)

Base64_Encode_Bytes(s) == IF s = <<>> THEN <<>> ELSE Base64_Encode_Internal(s)

-----------------------------------------------------------------------------
(* base32.c                                                                 *)

BASE32_EQUAL_SIGN == 32
BASE32_VALUES == [i \in 1 .. 33 |-> IF i <= 26 THEN 96 + i ELSE IF i <= 32 THEN 50 + (i - 27) ELSE Equals]
INVALID == 255

\* '{' (123), which is not of the alphabet, is converted too
convert_value_to_base32_char(c) ==
    CASE c \in 50 .. 55 -> 26 + (c - 50)
      [] c = Equals -> BASE32_EQUAL_SIGN
      [] c \in 65 .. 90 -> c - 65
      [] c \in 97 .. 123 -> c - 97
      [] OTHER -> INVALID

\* One block of up to five bytes gives eight characters.
base32_encode_block(g) ==
    LET b(i) == IF i < Len(g) THEN g[i + 1] ELSE 0
        pos == << b(0) \div 8,
                  (b(0) % 8) * 4 + b(1) \div 64,
                  (b(1) % 64) \div 2,
                  (b(1) % 2) * 16 + b(2) \div 16,
                  (b(2) % 16) * 2 + b(3) \div 128,
                  (b(3) % 128) \div 4,
                  (b(3) % 4) * 8 + b(4) \div 32,
                  b(4) % 32 >>
        padded == CASE Len(g) = 1 -> 3 .. 8 [] Len(g) = 2 -> 5 .. 8 [] Len(g) = 3 -> 6 .. 8
                    [] Len(g) = 4 -> {8} [] OTHER -> {}
    IN  [i \in 1 .. 8 |-> BASE32_VALUES[(IF i \in padded THEN BASE32_EQUAL_SIGN ELSE pos[i]) + 1]]

base32_encode_impl(s) ==
    PerGroup(s, 5, base32_encode_block) \o
    (IF Len(s) % 5 = 0 THEN <<>> ELSE base32_encode_block(LeftOver(s, 5)))

Base32_Encode_Bytes(s) == IF s = <<>> THEN <<>> ELSE base32_encode_impl(s)

base32_decoding_length(n) == (n * 5) \div 8

\* Eight characters give five bytes, of which those of the padding are not counted: '=' and
\* what is not of the alphabet count as their low five bits.
base32_decode_block(g) ==
    LET in(i) == convert_value_to_base32_char(g[i + 1]) % 32
    IN  << in(0) * 8 + in(1) \div 4,
           (in(1) % 4) * 64 + in(2) * 2 + in(3) \div 16,
           (in(3) % 16) * 16 + in(4) \div 2,
           (in(4) % 2) * 128 + in(5) * 4 + in(6) \div 8,
           (in(6) % 8) * 32 + in(7) >>

\* slip: one byte less for each '='
base32_padding_each(g) == Len(SelectSeq(g, LAMBDA c : c = Equals))

base32_padding(g) ==
    LET Pad(i) == convert_value_to_base32_char(g[i + 1]) = BASE32_EQUAL_SIGN
    IN  CASE ~Pad(7) -> 0 [] Pad(7) /\ ~Pad(5) -> 1 [] Pad(7) /\ Pad(5) /\ ~Pad(4) -> 2
          [] Pad(7) /\ Pad(5) /\ Pad(4) /\ ~Pad(2) -> 3 [] OTHER -> 4

base32_decode_impl(s) ==
    LET blocks == Len(s) \div 8
        padding == FoldLeft(LAMBDA n, i : n + base32_padding(Cut(s, (i - 1) * 8, 8)), 0, [i \in 1 .. blocks |-> i])
    IN  IF Len(s) % 8 # 0 \/ \E i \in DOMAIN s : s[i] >= 128 THEN NoResult
        ELSE SubSeq(PerGroup(s, 8, base32_decode_block), 1, base32_decoding_length(Len(s)) - padding)

-----------------------------------------------------------------------------
(* urlencode.c                                                              *)

IS_HEXDIGIT(c) == c \in (48 .. 57) \cup (65 .. 70) \cup (97 .. 102)
\* ! * ' ( ) ; : @ & = + $ , / ? # [ ] - _ . ~ " \ and the letters and digits
IS_PRINTABLE(c) ==
    c \in {33, 42, 39, 40, 41, 59, 58, 64, 38, 61, 43, 36, 44, 47, 63, 35, 91, 93, 45, 95, 46, 126, 34, 92}
          \cup (65 .. 90) \cup (97 .. 122) \cup (48 .. 57) \cup {0}
IS_IN_ASCII_RANGE(c) == c \in 48 .. 55

Percent == 37
NIBBLE_TO_STRING(n) == IF n < 10 THEN 48 + n ELSE 97 + (n - 10)
NIBBLE_FROM_STRING(c) ==
    CASE c \in 48 .. 57 -> c - 48 [] c \in 65 .. 70 -> c - 55 [] OTHER -> c - 87

\* a character of 0x80 and above is written as the two bytes that UTF-8 has for it
URL_PrintableChar(c) ==
    LET bigNibbleVal == IF c >= 192 THEN c \div 16 - 4 ELSE c \div 16
        nibbles == << NIBBLE_TO_STRING(bigNibbleVal), NIBBLE_TO_STRING(c % 16) >>
    IN  CASE IS_PRINTABLE(c) -> <<c>>
          [] ~IS_PRINTABLE(c) /\ c < 128 -> <<Percent>> \o nibbles
          [] OTHER -> << Percent, 99, IF c < 192 THEN 50 ELSE 51, Percent >> \o nibbles

URL_PrintableCharSize(c) == IF IS_PRINTABLE(c) THEN 1 ELSE IF c < 128 THEN 3 ELSE 6

URL_Encode(s) == FlattenSeq([i \in DOMAIN s |-> URL_PrintableChar(s[i])])
\* what was allocated for it, the final zero included
URL_Encode_size(s) == FoldLeft(LAMBDA n, c : n + URL_PrintableCharSize(c), 1, s)

\* the characters the rest of s decodes to, by index; 0 when s is refused
RECURSIVE SizeFrom(_, _)
SizeFrom(s, i) ==
    CASE i >= Len(s) -> 1
      [] i < Len(s) /\ s[i + 1] = Percent ->
           IF \/ Len(s) - i < 3 \/ ~IS_HEXDIGIT(s[i + 2]) \/ ~IS_HEXDIGIT(s[i + 3])
              \/ ~IS_IN_ASCII_RANGE(s[i + 2])
           THEN 0
           ELSE LET n == SizeFrom(s, i + 3) IN IF n = 0 THEN 0 ELSE n + 1
      [] OTHER ->
           LET n == SizeFrom(s, i + 1) IN IF ~IS_PRINTABLE(s[i + 1]) \/ n = 0 THEN 0 ELSE n + 1
calculateDecodedStringSize(s) == SizeFrom(s, 0)

charFromNibbles(big, little) == NIBBLE_FROM_STRING(big) * 16 + NIBBLE_FROM_STRING(little)

\* the final zero is copied like any other character
RECURSIVE DecodedFrom(_, _)
DecodedFrom(s, i) ==
    IF i > Len(s) THEN <<>>
    ELSE IF i = Len(s) \/ s[i + 1] # Percent
    THEN << IF i = Len(s) THEN 0 ELSE s[i + 1] >> \o DecodedFrom(s, i + 1)
    ELSE << charFromNibbles(s[i + 2], s[i + 3]) >> \o DecodedFrom(s, i + 3)
createDecodedString(s) == DecodedFrom(s, 0)

URL_Decode(s) ==
    IF calculateDecodedStringSize(s) = 0 THEN NoResult
    ELSE LET out == createDecodedString(s)
             stop == SelectInSeq(out, LAMBDA c : c = 0)
         IN  SubSeq(out, 1, stop - 1)

-----------------------------------------------------------------------------
(* utf8_checker.c                                                           *)

\* the bytes of the code point that the byte b begins; 0 when it begins none
Utf8Length(b) ==
    CASE b \div 8 = 30 -> 4 [] b \div 16 = 14 -> 3 [] b \div 32 = 6 -> 2 [] b \div 128 = 0 -> 1 [] OTHER -> 0

\* what a longer encoding must exceed
Utf8Least(n) == CASE n = 4 -> 65535 [] n = 3 -> 2047 [] OTHER -> 127

Utf8CodePoint(s, pos, n) ==
    LET first == s[pos + 1] % (CASE n = 4 -> 8 [] n = 3 -> 16 [] OTHER -> 32)
    IN  FoldLeft(LAMBDA cp, b : cp * 64 + (b % 64), first, Cut(s, pos + 1, n - 1))

RECURSIVE ValidFrom(_, _)
ValidFrom(s, pos) ==
    IF pos >= Len(s) THEN TRUE
    ELSE LET n == Utf8Length(s[pos + 1])
         IN  /\ n # 0
             /\ n > 1 => /\ \A k \in 1 .. n - 1 : pos + k < Len(s) /\ s[pos + k + 1] \div 64 = 2
                         /\ Utf8CodePoint(s, pos, n) > Utf8Least(n)
             /\ ValidFrom(s, pos + n)
utf8_checker_is_valid_utf8(s) == ValidFrom(s, 0)

-----------------------------------------------------------------------------
(* uws_frame_encoder.c                                                      *)

\* The header, all but the mask.  A size_t has 32 bits here: the first four bytes of a
\* length of eight are 0.
uws_frame_header(opcode, length, is_masked, is_final, reserved) ==
    LET masked == IF is_masked THEN 128 ELSE 0
    IN  << (opcode + (IF is_final THEN 128 ELSE 0)) + reserved * 16 >> \o
        (CASE length > 65535 ->
                << 127 + masked, 0, 0, 0, 0, length \div 16777216, (length \div 65536) % 256,
                   (length \div 256) % 256, length % 256 >>
           [] length \in 126 .. 65535 -> << 126 + masked, length \div 256, length % 256 >>
           [] OTHER -> << length + masked >>)

\* mask is what gb_rand gave, four times
uws_frame_encoder_encode(opcode, payload, is_masked, is_final, reserved, mask) ==
    IF reserved > 7 \/ opcode > 15 THEN NoResult
    ELSE uws_frame_header(opcode, Len(payload), is_masked, is_final, reserved) \o
         (IF is_masked
          THEN mask \o [i \in DOMAIN payload |-> payload[i] ^^ mask[((i - 1) % 4) + 1]]
          ELSE payload)

-----------------------------------------------------------------------------
(* Texts taken apart: a text is the sequence of its characters, and indices *)
(* are counted from 0, as in the code.  Letters are lower case and bases at *)
(* most 16.                                                                 *)

Nul == "nul"
Failure == <<"failure">>            \* instead of a text
NoTexts == << <<"failure">> >>     \* instead of texts
NoBytes == <<-1>>                   \* instead of bytes
At(s, i) == IF i \in 0 .. Len(s) - 1 THEN s[i + 1] ELSE Nul
Part(s, from, to) == IF from >= to THEN <<>> ELSE SubSeq(s, from + 1, to)   \* without to
BeginsAt(s, i, t) == i + Len(t) <= Len(s) /\ Part(s, i, i + Len(t)) = t

-----------------------------------------------------------------------------
(* string_token.c: tokens of a text, by reference                           *)

Absent == -1      \* NULL, of positions
NoDelimiter == <<>>

NewToken(s) == [source |-> s, token_start |-> Absent, delimiter_start |-> Absent, delimiter |-> NoDelimiter]

\* slip: the search goes on from the delimiter itself
get_next_token_same(t, delimiters) ==
    LET from == IF t.delimiter_start = Absent THEN 0 ELSE t.delimiter_start + 1
        found == {i \in from .. Len(t.source) - 1 : \E j \in DOMAIN delimiters : BeginsAt(t.source, i, delimiters[j])}
        at == CHOOSE i \in found : \A k \in found : i <= k
        j == CHOOSE n \in DOMAIN delimiters : BeginsAt(t.source, at, delimiters[n])
    IN  IF found = {} THEN [t EXCEPT !.token_start = from, !.delimiter_start = Absent, !.delimiter = NoDelimiter]
        ELSE [t EXCEPT !.token_start = IF at = 0 THEN Absent ELSE from,
                       !.delimiter_start = at, !.delimiter = delimiters[j]]

\* the first position where any of the delimiters is, and the first of those in the order given
get_next_token(t, delimiters) ==
    LET from == IF t.delimiter_start = Absent THEN 0 ELSE t.delimiter_start + Len(t.delimiter)
        found == {i \in from .. Len(t.source) - 1 : \E j \in DOMAIN delimiters : BeginsAt(t.source, i, delimiters[j])}
        at == CHOOSE i \in found : \A k \in found : i <= k
        j == CHOOSE n \in DOMAIN delimiters :
               /\ BeginsAt(t.source, at, delimiters[n])
               /\ \A k \in 1 .. n - 1 : ~BeginsAt(t.source, at, delimiters[k])
    IN  IF found = {} THEN [t EXCEPT !.token_start = from, !.delimiter_start = Absent, !.delimiter = NoDelimiter]
        ELSE [t EXCEPT !.token_start = IF at = 0 THEN Absent ELSE from,
                       !.delimiter_start = at, !.delimiter = delimiters[j]]

AtEnd(t) == t.token_start # Absent /\ t.delimiter_start = Absent

StringToken_GetFirst(s, delimiters) == get_next_token(NewToken(s), delimiters)
StringToken_GetNext(t, delimiters) == get_next_token(t, delimiters)
StringToken_GetValue(t) ==
    IF t.token_start = Len(t.source) \/ t.token_start = t.delimiter_start THEN Absent ELSE t.token_start
StringToken_GetLength(t) ==
    CASE t.token_start = Absent -> 0
      [] t.token_start # Absent /\ t.delimiter_start = Absent -> Len(t.source) - t.token_start
      [] OTHER -> t.delimiter_start - t.token_start

\* the tokens from t on; NoTexts when a token has a value and no length, or a length and no value
RECURSIVE SplitFrom(_, _, _)
SplitFrom(t, delimiters, include_empty) ==
    LET value == StringToken_GetValue(t)
        length == StringToken_GetLength(t)
        here == IF value # Absent \/ include_empty
                THEN << IF length = 0 THEN <<>> ELSE Part(t.source, value, value + length) >> ELSE <<>>
        rest == IF AtEnd(t) THEN <<>> ELSE SplitFrom(StringToken_GetNext(t, delimiters), delimiters, include_empty)
    IN  IF (value = Absent) # (length = 0) \/ rest = NoTexts THEN NoTexts ELSE here \o rest
StringToken_Split(s, delimiters, include_empty) ==
    SplitFrom(StringToken_GetFirst(s, delimiters), delimiters, include_empty)

-----------------------------------------------------------------------------
(* string_tokenizer.c: tokens of a text, by value                           *)

\* A call: the position it leaves, and the token or Failure.  Where the token ends is looked
\* up for one delimiter after the other: the first that occurs at all decides.
STRING_TOKENIZER_get_next_token(s, currentPos, delimiters) ==
    LET rest == Part(s, currentPos, Len(s))
        first == SelectInSeq(rest, LAMBDA c : ~Contains(delimiters, c))
        start == currentPos + (IF first = 0 THEN Len(rest) ELSE first - 1)
        token == Part(s, start, Len(s))
        j == SelectInSeq(delimiters, LAMBDA d : Contains(token, d))
        n == IF j = 0 THEN Len(token) ELSE SelectInSeq(token, LAMBDA c : c = delimiters[j]) - 1
    IN  CASE rest = <<>> \/ delimiters = <<>> -> [pos |-> currentPos, token |-> Failure]
          [] rest # <<>> /\ delimiters # <<>> /\ token = <<>> -> [pos |-> start, token |-> Failure]
          [] OTHER -> [pos |-> start + n + (IF j = 0 THEN 0 ELSE 1), token |-> Part(token, 0, n)]

-----------------------------------------------------------------------------
(* connection_string_parser.c                                               *)

\* the pairs from pos on, in the order they are added to the map, which refuses a key twice
RECURSIVE PairsFrom(_, _, _)
PairsFrom(s, pos, pairs) ==
    LET key == STRING_TOKENIZER_get_next_token(s, pos, <<"=">>)
        value == STRING_TOKENIZER_get_next_token(s, key.pos, <<";">>)
    IN  IF key.token = Failure THEN pairs
        ELSE IF value.token = Failure \/ key.token = <<>> \/ \E i \in DOMAIN pairs : pairs[i][1] = key.token
        THEN NoTexts
        ELSE PairsFrom(s, value.pos, Append(pairs, <<key.token, value.token>>))
connectionstringparser_parse(s) == PairsFrom(s, 0, <<>>)

\* name and suffix; a text without a dot, or with nothing on either side of the first, is refused
connectionstringparser_splitHostName_from_char(s) ==
    LET dot == SelectInSeq(s, LAMBDA c : c = ".")
    IN  IF s = <<>> \/ dot \in {0, 1, Len(s)} THEN Failure
        ELSE << Part(s, 0, dot - 1), Part(s, dot, Len(s)) >>

-----------------------------------------------------------------------------
(* crt_abstractions.c                                                       *)

Digits == <<"0", "1", "2", "3", "4", "5", "6", "7", "8", "9", "a", "b", "c", "d", "e", "f">>
DIGIT_VAL(c) == SelectInSeq(Digits, LAMBDA d : d = c) - 1
IN_BASE_RANGE(d, b) == d >= 0 /\ d < b
IS_SPACE(c) == c = " "

\* One more digit of a number, which is ULLONG_MAX from where it is too large.
AddDigit(n, d, base) == IF (ULLONG_MAX - d) \div base < n THEN ULLONG_MAX ELSE n * base + d

SkipSpaces(s) == SelectInSeq(Append(s, Nul), LAMBDA c : ~IS_SPACE(c)) - 1
AfterSign(s, i) == IF At(s, i) \in {"+", "-"} THEN i + 1 ELSE i
DigitsFrom(s, i, base) ==
    SelectInSeq(Append(Part(s, i, Len(s)), Nul), LAMBDA c : ~IN_BASE_RANGE(DIGIT_VAL(c), base)) - 1

\* the base, and where the digits start
BaseAndStart(s, i, base0) ==
    CASE At(s, i) = "0" /\ At(s, i + 1) = "x" /\ base0 \in {0, 16} -> [base |-> 16, from |-> i + 2]
      [] At(s, i) = "0" /\ At(s, i + 1) # "x" /\ base0 \in {0, 8} -> [base |-> 8, from |-> i + 1]
      [] OTHER -> [base |-> IF base0 = 0 THEN 10 ELSE base0, from |-> i]
Converted(s, isNegative, start, digits) ==
    LET n == FoldLeft(LAMBDA v, c : AddDigit(v, DIGIT_VAL(c), start.base), 0, Part(s, start.from, start.from + digits))
    IN  [value |-> IF isNegative THEN (ULLONG_MAX - n + 1) % (ULLONG_MAX + 1) ELSE n,
         end   |-> IF digits = 0 THEN 0 ELSE start.from + digits]
NumberFrom(s, isNegative, start) == Converted(s, isNegative, start, DigitsFrom(s, start.from, start.base))

\* the number and where it ends, which is 0 when there is none
strtoull_s(s, base0) ==
    LET spaces == SkipSpaces(s)
    IN  NumberFrom(s, At(s, spaces) = "-", BaseAndStart(s, AfterSign(s, spaces), base0))

\* strtol of the C library, of exponents
SignedFrom(s, i, from, n) ==
    LET v == FoldLeft(LAMBDA x, c : x * 10 + DIGIT_VAL(c), 0, Part(s, from, from + n))
    IN  [value |-> IF At(s, i) = "-" THEN -v ELSE v, end |-> IF n = 0 THEN i ELSE from + n]
strtol(s, i) == SignedFrom(s, i, AfterSign(s, i), DigitsFrom(s, AfterSign(s, i), 10))

\* 'I' and 'N' stand for the words INF and NAN, which are left out as texts
isInfinity(s, i) == At(s, i) = "I"
isNaN(s, i) == At(s, i) = "N"

\* A number is mantissa * 10 ^ power.  The digits in front of the point are brought to the
\* power of those behind it in an unsigned long long.
FloatOf(s, spaces, i, whole, part, exp) ==
    [type |-> CASE isInfinity(s, i) -> "FST_INFINITY"
                [] isNaN(s, i) -> "FST_NAN"
                [] IN_BASE_RANGE(DIGIT_VAL(At(s, i)), 10) ->
                     IF ULLONG_MAX \in {whole.value, part.value} \/ exp.value \notin -DBL_MAX_10_EXP .. DBL_MAX_10_EXP
                     THEN "FST_OVERFLOW" ELSE "FST_NUMBER"
                [] OTHER -> "FST_ERROR",
     signal |-> IF At(s, spaces) = "-" THEN -1 ELSE 1,
     mantissa |-> (whole.value * 10 ^ part.size + part.value) % (ULLONG_MAX + 1),
     power |-> exp.value - part.size,
     end |-> IF isInfinity(s, i) \/ isNaN(s, i) THEN i + 1 ELSE exp.end]
FractionAfter(s, end, number) ==
    IF At(s, end) = "." THEN [value |-> number.value, size |-> number.end, end |-> end + 1 + number.end]
    ELSE [value |-> 0, size |-> 0, end |-> end]
ExponentAt(s, end) == IF At(s, end) = "e" THEN strtol(s, end + 1) ELSE [value |-> 0, end |-> end]
WithPart(s, spaces, i, whole, part) == FloatOf(s, spaces, i, whole, part, ExponentAt(s, part.end))
WithWhole(s, spaces, i, whole) ==
    WithPart(s, spaces, i, whole,
             FractionAfter(s, i + whole.end, strtoull_s(Part(s, i + whole.end + 1, Len(s)), 10)))
FloatFrom(s, spaces, i) == WithWhole(s, spaces, i, strtoull_s(Part(s, i, Len(s)), 10))
splitFloatString(s) == FloatFrom(s, SkipSpaces(s), AfterSign(s, SkipSpaces(s)))

\* What is returned, before it is rounded to a float and compared with the largest of
\* them; numbers whose parts are too large are HUGE.
Returned(f) ==
    CASE f.type = "FST_NUMBER" -> [value |-> <<f.signal * f.mantissa, f.power>>, end |-> f.end]
      [] f.type \in {"FST_INFINITY", "FST_OVERFLOW"} -> [value |-> <<f.signal, "HUGE">>, end |-> f.end]
      [] f.type = "FST_NAN" -> [value |-> <<0, "NAN">>, end |-> f.end]
      [] OTHER -> [value |-> <<0, 0>>, end |-> 0]
strtof_s(s) == Returned(splitFloatString(s))
strtold_s(s) == strtof_s(s)

\* A buffer is a sequence of characters, of which Nul ends the text; what a call leaves of
\* it and what it returns.
TextIn(dst) == LET n == SelectInSeq(dst, LAMBDA c : c = Nul) IN IF n = 0 THEN Failure ELSE Part(dst, 0, n - 1)
Emptied(dst) == [dst EXCEPT ![1] = Nul]
Over(dst, at, s) == [i \in DOMAIN dst |-> IF i \in at + 1 .. at + Len(s) THEN s[i - at] ELSE dst[i]]
\* strncpy pads with zeros up to n
strncpy(dst, at, s, n) ==
    Over(dst, at, [i \in 1 .. n |-> IF i <= Len(s) THEN s[i] ELSE Nul])

strcat_s(dst, src) ==
    LET n == SelectInSeq(dst, LAMBDA c : c = Nul) - 1
        joined == strncpy(dst, n, src, Len(dst) - n)
    IN  IF n = -1 THEN [dst |-> dst, result |-> "EINVAL"]
        ELSE IF Last(joined) # Nul THEN [dst |-> Emptied(joined), result |-> "ERANGE"]
        ELSE [dst |-> joined, result |-> "0"]

strncpy_s(dst, src, maxCount) ==
    LET wanted == IF maxCount # _TRUNCATE /\ Len(src) > maxCount THEN maxCount ELSE Len(src)
        fits == wanted + 1 <= Len(dst)
        n == IF fits THEN wanted ELSE Len(dst) - 1
    IN  IF ~fits /\ maxCount # _TRUNCATE THEN [dst |-> Emptied(dst), result |-> "ERANGE"]
        ELSE [dst |-> Over(dst, 0, Append(Part(src, 0, n), Nul)), result |-> IF fits THEN "0" ELSE "STRUNCATE"]

strcpy_s(dst, src) ==
    IF Len(src) + 1 > Len(dst) THEN [dst |-> Emptied(dst), result |-> "ERANGE"]
    ELSE [dst |-> Over(dst, 0, Append(src, Nul)), result |-> "0"]

\* the result is the number of characters, or -1
sprintf_s(dst, text) ==
    IF Len(text) >= Len(dst) THEN [dst |-> Emptied(dst), result |-> -1]
    ELSE [dst |-> Over(dst, 0, Append(text, Nul)), result |-> Len(text)]

mallocAndStrcpy_s(src) == strcpy_s([i \in 1 .. Len(src) + 1 |-> "unset"], src).dst

\* The digits come in reverse and are turned round; what does not fit is a failure.
RECURSIVE Reversed(_, _, _)
Reversed(value, room, digits) ==
    IF room = 0 \/ (value = 0 /\ digits # <<>>) THEN [digits |-> digits, left |-> value]
    ELSE Reversed(value \div 10, room - 1, Append(digits, Digits[(value % 10) + 1]))
unsignedIntToString(size, value) ==
    LET reversed == Reversed(value, size - 1, <<>>)
    IN  IF size < 2 \/ reversed.left > 0 THEN Failure ELSE Reverse(reversed.digits)
size_tToString(size, value) == unsignedIntToString(size, value)

-----------------------------------------------------------------------------
(* uuid.c                                                                   *)

Dashes == {8, 13, 18, 23}
UUID_STRING_LENGTH == 36
HEXA_DIGIT_VAL(c) == DIGIT_VAL(c)

\* the bytes from index i of the text on
RECURSIVE BytesFrom(_, _)
BytesFrom(s, i) ==
    IF i >= Len(s) THEN <<>>
    ELSE IF (At(s, i) = "-") # (i \in Dashes) THEN NoBytes
    ELSE IF At(s, i) = "-" THEN BytesFrom(s, i + 1)
    ELSE LET high == HEXA_DIGIT_VAL(At(s, i))
             low == HEXA_DIGIT_VAL(At(s, i + 1))
             rest == BytesFrom(s, i + 2)
         IN  IF high = -1 \/ low = -1 \/ rest = NoBytes THEN NoBytes ELSE <<high * 16 + low>> \o rest
UUID_from_string(s) == IF Len(s) # UUID_STRING_LENGTH THEN NoBytes ELSE BytesFrom(s, 0)

UUID_to_string(bytes) ==
    FlattenSeq([i \in DOMAIN bytes |->
                  (IF i \in {5, 7, 9, 11} THEN <<"-">> ELSE <<>>) \o
                  << Digits[bytes[i] \div 16 + 1], Digits[(bytes[i] % 16) + 1] >>])

UUID_generate(text) == UUID_from_string(text)

-----------------------------------------------------------------------------
(* sastoken.c                                                               *)

SasFields == {"se", "sr", "sig"}
Key == [se |-> <<"s", "e", "=">>, sr |-> <<"s", "r", "=">>, sig |-> <<"s", "i", "g", "=">>]
\* the other fields, in the order in which they are looked at
Others == [se |-> <<"sr", "sig">>, sr |-> <<"se", "sig">>, sig |-> <<"sr", "se">>]

NotFound == [f \in SasFields |-> -1]

\* At a key the field in front of it ends: at a blank, or at the character in front of a '&'.
SASToken_Field(s, i, scan) ==
    LET f == CHOOSE k \in SasFields : BeginsAt(s, i, Key[k])
        open == SelectSeq(Others[f], LAMBDA o : scan.start[o] > 0 /\ scan.stop[o] < 0)
        before == At(s, i - 1)
        started == [scan EXCEPT !.start[f] = i + Len(Key[f])]
    IN  IF ~\E k \in SasFields : BeginsAt(s, i, Key[k]) THEN scan
        ELSE IF open = <<>> THEN started
        ELSE IF before \in {" ", "&"} THEN [started EXCEPT !.stop[Head(open)] = IF before = " " THEN i - 1 ELSE i - 2]
        ELSE [scan EXCEPT !.start[f] = -1]

SASToken_Scan(s) ==
    FoldLeft(LAMBDA scan, i : SASToken_Field(s, i - 1, scan), [start |-> NotFound, stop |-> NotFound],
             [i \in 1 .. Len(s) |-> i])

getExpiryValue(s) ==
    IF \E i \in DOMAIN s : ~IN_BASE_RANGE(DIGIT_VAL(s[i]), 10) THEN 0
    ELSE FoldLeft(LAMBDA v, c : v * 10 + DIGIT_VAL(c), 0, s)

\* only one field, the last, may run to the end of the token
SASToken_Validate(s, now) ==
    LET scan == SASToken_Scan(s)
        open == SelectSeq(<<"se", "sr", "sig">>, LAMBDA f : scan.stop[f] < 0)
        stop == IF open = <<>> THEN scan.stop ELSE [scan.stop EXCEPT ![Head(open)] = Len(s)]
        se == Part(s, scan.start["se"], stop["se"])
        amp == SelectInSeq(se, LAMBDA c : c = "&")
        expiry == getExpiryValue(IF amp = 0 THEN se ELSE Part(se, 0, amp - 1))
    IN  /\ \A f \in SasFields : scan.start[f] >= 0 /\ stop[f] > scan.start[f]
        /\ expiry > 0 /\ expiry >= now

\* signature is the hash of the scope and the expiry, in base 64 and encoded as a URL
construct_sas_token(scope, signature, expiry, keyname) ==
    <<"S", " ">> \o Key["sr"] \o scope \o <<"&">> \o Key["sig"] \o signature \o <<"&">> \o Key["se"] \o
    size_tToString(32, expiry) \o (IF keyname = <<>> THEN <<>> ELSE <<"&", "s", "k", "n", "=">> \o keyname)

=============================================================================
