---------------------------- MODULE Conversions ----------------------------
(***************************************************************************)
(* The library's conversions, on all inputs of a few kinds up to a length: *)
(* a behaviour grows one input, or feeds one hash.  The properties compare *)
(* what the code makes of it with a definition that is not taken from it.  *)
(***************************************************************************)
EXTENDS Codecs, Hashes

CONSTANTS
    Kinds,        \* of inputs
    Letters,      \* for each kind the bytes or characters of its inputs
    InputLength,    \* and their greatest length
    SasInputs,    \* what tokens are made of
    Times         \* when they are validated

VARIABLES kind, input

conversionVars == <<kind, input, hashVars>>

\* the text of some UUID
Uuid == UUID_to_string([i \in 1 .. 16 |-> (i * 37) % 256])

ConversionsInit ==
    /\ kind \in Kinds
    /\ input \in IF kind = "sas" THEN SasInputs
                 ELSE IF kind = "uuid" THEN {Uuid}
                 ELSE {<<>>}
    /\ HashesInit
    /\ kind # "hash" => sha.whichSha = CHOOSE v \in SHAversions : TRUE

\* bytes are arbitrary in one place only
Ordinary(s) == \A i, j \in DOMAIN s : s[i] \notin Letters["filler"] /\ s[j] \notin Letters["filler"] => i = j

Grow ==
    /\ kind \notin {"hash", "sas", "uuid"}
    /\ Len(input) < InputLength[kind]
    /\ \E x \in Letters[kind] : input' = Append(input, x) /\ (kind = "bytes" => Ordinary(input'))
    /\ UNCHANGED <<kind, hashVars>>

\* the text of a UUID is spoilt in a place or two
Spoil ==
    /\ kind = "uuid" /\ input = Uuid
    /\ \E i \in DOMAIN Uuid, x, y \in Letters[kind] :
         input' = [k \in DOMAIN Uuid |-> IF k = i THEN x ELSE IF k = i + 1 THEN y ELSE Uuid[k]]
    /\ UNCHANGED <<kind, hashVars>>

Hash == kind = "hash" /\ HashNext /\ UNCHANGED <<kind, input>>

ConversionNext == Grow \/ Spoil \/ Hash

-----------------------------------------------------------------------------
(* what is encoded comes back, and decoders stay within what they allocate  *)

BitsOf(x, w) == [i \in 1 .. w |-> (x \div 2 ^ (w - i)) % 2]
ValueOf(bits) == FoldLeft(LAMBDA v, b : 2 * v + b, 0, bits)
Letters64 == [i \in 1 .. 64 |-> CASE i <= 26 -> 64 + i [] i \in 27 .. 52 -> 70 + i [] i \in 53 .. 62 -> i - 5
                                  [] i = 63 -> 43 [] i = 64 -> 47]
Letters32 == [i \in 1 .. 32 |-> IF i <= 26 THEN 96 + i ELSE 23 + i]

\* RFC 4648: the bits in groups of w, the last filled with zeros, and '=' up to whole quanta
Rfc4648(s, w, letters, quantum) ==
    LET bits == FlattenSeq([i \in DOMAIN s |-> BitsOf(s[i], 8)])
        groups == (Len(bits) + w - 1) \div w
        filled == bits \o [i \in 1 .. groups * w - Len(bits) |-> 0]
        chars == [i \in 1 .. groups |-> letters[ValueOf(SubSeq(filled, (i - 1) * w + 1, i * w)) + 1]]
        pad == CHOOSE p \in 0 .. quantum - 1 : (groups + p) % quantum = 0
    IN  chars \o [i \in 1 .. pad |-> Equals]

\* Bytes are encoded as RFC 4648 has it, whatever is left over behind the last whole group,
\* and come back; a 7-bit text comes back from its URL encoding, for which enough was
\* allocated.
BytesSurvive(s) ==
    LET base64 == Base64_Encode_Bytes(s)
        base32 == Base32_Encode_Bytes(s)
        url == URL_Encode(s)
    IN  /\ base64 = Rfc4648(s, 6, Letters64, 4) /\ Base64_Decoder(base64) = s
        /\ base32 = Rfc4648(s, 5, Letters32, 8) /\ base32_decode_impl(base32) = s
        /\ ~Contains(s, 0) =>
             /\ URL_Encode_size(s) = Len(url) + 1
             /\ \A i \in DOMAIN url : IS_PRINTABLE(url[i]) \/ url[i] = Percent
             /\ (\A i \in DOMAIN s : s[i] < 128) => URL_Decode(url) = s

\* What is not an encoding is refused or decoded within the memory allocated for it.
Decodes(s) ==
    /\ kind = "base64" /\ Base64_Decoder(s) # NoResult => Len(Base64decode(s)) <= Base64decode_len(s)
    /\ kind = "base32" /\ base32_decode_impl(s) # NoResult =>
         Len(base32_decode_impl(s)) \in base32_decoding_length(Len(s)) - 4 * (Len(s) \div 8) .. base32_decoding_length(Len(s))
    /\ kind = "url" /\ URL_Decode(s) # NoResult => Len(createDecodedString(s)) = calculateDecodedStringSize(s)

-----------------------------------------------------------------------------
(* what goes over the wire                                                  *)

\* RFC 3629, but for the code points it leaves out: the shortest encoding of each
Shortest(cp) == IF cp < 128 THEN 1 ELSE IF cp < 2048 THEN 2 ELSE IF cp < 65536 THEN 3 ELSE 4
IsCodePoint(s) ==
    LET n == Len(s)
        head == IF n = 1 THEN <<0>> ELSE [i \in 1 .. n + 1 |-> IF i <= n THEN 1 ELSE 0]
        lead == BitsOf(s[1], 8)
        rest == FlattenSeq([i \in 1 .. n - 1 |-> SubSeq(BitsOf(s[i + 1], 8), 3, 8)])
    IN  /\ SubSeq(lead, 1, Len(head)) = head
        /\ \A i \in 2 .. n : SubSeq(BitsOf(s[i], 8), 1, 2) = <<1, 0>>
        /\ Shortest(ValueOf(SubSeq(lead, Len(head) + 1, 8) \o rest)) = n
RECURSIVE IsUtf8(_)
IsUtf8(s) == s = <<>> \/ \E n \in 1 .. 4 : n <= Len(s) /\ IsCodePoint(SubSeq(s, 1, n)) /\ IsUtf8(SubSeq(s, n + 1, Len(s)))

\* RFC 6455, as a receiver reads a frame whose payload has the length n
LengthRead(f) ==
    LET short == f[2] % 128
    IN  IF short < 126 THEN [length |-> short, header |-> 2]
        ELSE IF short = 126 THEN [length |-> f[3] * 256 + f[4], header |-> 4]
        ELSE [length |-> f[7] * 16777216 + f[8] * 65536 + f[9] * 256 + f[10], header |-> 10]

FrameRead(f) ==
    LET l == LengthRead(f)
        masked == f[2] >= 128
        start == l.header + (IF masked THEN 4 ELSE 0)
    IN  [final |-> f[1] >= 128, reserved |-> (f[1] \div 16) % 8, opcode |-> f[1] % 16, masked |-> masked,
         payload |-> [i \in 1 .. l.length |-> IF masked THEN f[start + i] ^^ f[l.header + ((i - 1) % 4) + 1] ELSE f[start + i]]]

Boundaries == {0, 1, 125, 126, 127, 255, 256, 65535, 65536, 16777216}

\* base64.c, base32.c and urlencode.c: encodings are those of the standards and come back,
\* and no decoder writes past what it computed beforehand, whatever the text.
\* utf8_checker.c takes a text exactly when it is one; uws_frame_encoder.c writes frames that
\* are read back as they were, the length in as few bytes as it takes.
EncodingsSurvive ==
    /\ kind = "bytes" => BytesSurvive(input)
    /\ kind \in {"base64", "base32", "url"} => Decodes(input)
    /\ kind = "utf8" => utf8_checker_is_valid_utf8(input) = IsUtf8(input)
    /\ kind = "frame" =>
         \A opcode \in {0, 2, 10}, masked, final \in BOOLEAN, reserved \in {0, 5} :
           /\ FrameRead(uws_frame_encoder_encode(opcode, input, masked, final, reserved, <<255, 1, 128, 90>>)) =
                [final |-> final, reserved |-> reserved, opcode |-> opcode, masked |-> masked, payload |-> input]
           /\ \A n \in Boundaries :
                LET header == uws_frame_header(opcode, n, masked, final, reserved)
                IN  /\ Len(header) = IF n < 126 THEN 2 ELSE IF n < 65536 THEN 4 ELSE 10
                    /\ LengthRead(header) = [length |-> n, header |-> Len(header)]

-----------------------------------------------------------------------------
(* texts taken apart                                                        *)

Delimiters == << <<",", ";">>, <<",">> >>

\* the tokens, and what stood between them, are the text again
RECURSIVE TokensOf(_, _)
TokensOf(s, t) == IF AtEnd(t) THEN <<t>> ELSE <<t>> \o TokensOf(s, StringToken_GetNext(t, Delimiters))
Rejoined(s) ==
    LET tokens == TokensOf(s, StringToken_GetFirst(s, Delimiters))
        pieces == StringToken_Split(s, Delimiters, TRUE)
    IN  /\ Len(pieces) = Len(tokens)
        /\ FlattenSeq([i \in DOMAIN tokens |-> pieces[i] \o tokens[i].delimiter]) = s
        /\ \A i \in DOMAIN pieces : ~Contains(pieces[i], ",")
        /\ StringToken_Split(s, Delimiters, FALSE) = SelectSeq(pieces, LAMBDA p : p # <<>>)

\* the runs of characters other than d
PiecesBetween(s, d) == SelectSeq(FlattenSeq([i \in DOMAIN s |->
                          IF s[i] # d /\ (i = 1 \/ s[i - 1] = d)
                          THEN << SubSeq(s, i, CHOOSE k \in i .. Len(s) : (k = Len(s) \/ s[k + 1] = d) /\ \A n \in i .. k : s[n] # d) >>
                          ELSE <<>>]), LAMBDA r : r # <<>>)
RECURSIVE TokenizedFrom(_, _, _)
TokenizedFrom(s, pos, d) ==
    LET t == STRING_TOKENIZER_get_next_token(s, pos, <<d>>)
    IN  IF t.token = Failure THEN <<>> ELSE <<t.token>> \o TokenizedFrom(s, t.pos, d)

\* a connection string of pairs none of whose parts is empty
IsPair(s) == LET e == SelectInSeq(s, LAMBDA c : c = "=")
             IN  e > 1 /\ e < Len(s)
PairOf(s) == LET e == SelectInSeq(s, LAMBDA c : c = "=") IN << SubSeq(s, 1, e - 1), SubSeq(s, e + 1, Len(s)) >>
PairsAsWritten(s) ==
    LET runs == PiecesBetween(s, ";")
        pairs == [i \in DOMAIN runs |-> PairOf(runs[i])]
        proper == /\ \A i \in DOMAIN runs : IsPair(runs[i])
                  /\ s # <<>> => s[1] # ";" /\ Last(s) # ";"
                  /\ \A i \in 1 .. Len(s) - 1 : ~(s[i] = ";" /\ s[i + 1] = ";")
        twice == \E i, k \in DOMAIN pairs : i # k /\ pairs[i][1] = pairs[k][1]
    IN  proper => connectionstringparser_parse(s) = IF twice THEN NoTexts ELSE pairs

\* A token is valid until it expires, and no longer.
SasAsMade(x) ==
    \A now \in Times :
      SASToken_Validate(construct_sas_token(x.scope, x.signature, x.expiry, x.keyname), now)
        = (x.expiry > 0 /\ x.expiry >= now)

\* UUIDs: exactly the texts of 32 digits with the dashes in their places, two digits a byte
UuidAsWritten(s) ==
    LET proper == \A i \in DOMAIN s : IF i - 1 \in Dashes THEN s[i] = "-" ELSE Contains(Digits, s[i])
    IN  IF proper THEN UUID_generate(s) # NoBytes /\ UUID_to_string(UUID_from_string(s)) = s
        ELSE UUID_from_string(s) = NoBytes

-----------------------------------------------------------------------------
(* numbers, and texts in buffers of a fixed size                            *)

Unsigned(s, base) == FoldLeft(LAMBDA v, c : v * base + DIGIT_VAL(c), 0, s)
AllDigits(s, base) == s # <<>> /\ \A i \in DOMAIN s : IN_BASE_RANGE(DIGIT_VAL(s[i]), base)
Clamped(n) == IF n > ULLONG_MAX THEN ULLONG_MAX ELSE n

\* numbers of one base, with nothing behind them but what is no digit of it
NumberAsWritten(s, base) ==
    \A n \in 1 .. Len(s) :
      AllDigits(SubSeq(s, 1, n), base) /\ ~IN_BASE_RANGE(DIGIT_VAL(At(s, n)), base) /\ ~(At(s, 0) = "0" /\ base = 8)
        /\ ~(base = 16 /\ At(s, 1) = "x") =>
        /\ strtoull_s(s, base) = [value |-> Clamped(Unsigned(SubSeq(s, 1, n), base)), end |-> n]
        /\ strtoull_s(<<" ", "+">> \o s, base) = [value |-> Clamped(Unsigned(SubSeq(s, 1, n), base)), end |-> n + 2]
        /\ base = 10 /\ s[1] # "0" => strtoull_s(s, 0) = strtoull_s(s, 10)
        /\ base = 8 => strtoull_s(<<"0">> \o s, 0) = [value |-> Clamped(Unsigned(SubSeq(s, 1, n), 8)), end |-> n + 1]
        /\ base = 16 => strtoull_s(<<"0", "x">> \o s, 0) = [value |-> Clamped(Unsigned(SubSeq(s, 1, n), 16)), end |-> n + 2]
        \* a number is written as it is read
        /\ base = 10 /\ s[1] # "0" /\ Unsigned(SubSeq(s, 1, n), 10) <= ULLONG_MAX =>
             size_tToString(8, strtoull_s(s, 10).value) = SubSeq(s, 1, n)

\* decimals of which all digits together fit an unsigned long long
DecimalAsWritten(s) ==
    \A w, f \in 1 .. Len(s) :
      LET whole == Part(s, 0, w)
          part == Part(s, w + 1, w + 1 + f)
          rest == Part(s, w + 1 + f, Len(s))
          e == IF rest # <<>> /\ rest[1] = "e" /\ AllDigits(Tail(rest), 10) THEN Unsigned(Tail(rest), 10) ELSE 0
      IN  /\ w + 1 + f <= Len(s)
          /\ AllDigits(whole, 10) /\ At(s, w) = "." /\ AllDigits(part, 10)
          /\ (rest = <<>> \/ (rest[1] = "e" /\ AllDigits(Tail(rest), 10)))
          /\ Unsigned(whole \o part, 10) < ULLONG_MAX /\ e <= DBL_MAX_10_EXP
          => /\ strtof_s(s) = [value |-> <<Unsigned(whole \o part, 10), e - f>>, end |-> Len(s)]
             /\ strtold_s(<<"-">> \o s) = [value |-> <<-Unsigned(whole \o part, 10), e - f>>, end |-> Len(s) + 1]

\* Whatever fits is copied, what does not leaves an empty text, and the text always ends
\* within the buffer.
CopiedWithin(s) ==
    \A size \in 1 .. InputLength["copy"], n \in 0 .. Len(s) :
      LET fresh == [i \in 1 .. size |-> "unset"]
          first == strcpy_s(fresh, SubSeq(s, 1, n))
          joined == strcat_s(first.dst, SubSeq(s, n + 1, Len(s)))
          cut == strncpy_s(fresh, s, _TRUNCATE)
      IN  /\ TextIn(first.dst) = IF n < size THEN SubSeq(s, 1, n) ELSE <<>>
          /\ first.result = "0" => TextIn(joined.dst) = IF Len(s) < size THEN s ELSE <<>>
          /\ (joined.result = "0") = (Len(TextIn(first.dst)) + Len(s) - n < size)
          /\ TextIn(cut.dst) = IF Len(s) < size THEN s ELSE SubSeq(s, 1, size - 1)
          /\ (cut.result = "STRUNCATE") = (Len(s) >= size)
          /\ TextIn(strncpy_s(fresh, s, n).dst) = IF n < size THEN SubSeq(s, 1, n) ELSE <<>>
          /\ TextIn(sprintf_s(fresh, s).dst) = IF Len(s) < size THEN s ELSE <<>>
          /\ TextIn(mallocAndStrcpy_s(s)) = s

\* Texts are taken apart as they were put together: string_token.c, string_tokenizer.c with a
\* single delimiter, connection_string_parser.c, uuid.c and sastoken.c.  In
\* crt_abstractions.c, numbers are read as they are written, up to the largest and clamped to
\* it beyond, and copies of texts stay within their buffers.
ParsedAsWritten ==
    /\ kind = "split" => Rejoined(input) /\ TokenizedFrom(input, 0, ",") = PiecesBetween(input, ",")
    /\ kind = "connection" => PairsAsWritten(input)
    /\ kind = "host" =>
         LET parts == connectionstringparser_splitHostName_from_char(input)
         IN  IF parts = Failure THEN Len(PiecesBetween(input, ".")) < 2 \/ input[1] = "."
             ELSE parts[1] \o <<".">> \o parts[2] = input /\ ~Contains(parts[1], ".")
    /\ kind = "uuid" => UuidAsWritten(input)
    /\ kind = "sas" => SasAsMade(input)
    /\ kind = "number" => \A base \in {8, 10, 16} : NumberAsWritten(input, base)
    /\ kind = "decimal" => DecimalAsWritten(input)
    /\ kind = "copy" => CopiedWithin(input)

=============================================================================
