------------------------------ MODULE Hashes ------------------------------
(***************************************************************************)
(* src/sha1.c, sha224.c, sha384-512.c, usha.c, hmac.c and hmacsha256.c.    *)
(* What the compression functions compute is left out: a hash is the       *)
(* initial value with the blocks that were processed, so that two hashes   *)
(* are the same when the same blocks were.  The sizes are constants, so    *)
(* that the length of a message overflows on short ones: a block is a few  *)
(* places, of which the length takes the last two, each a word.            *)
(***************************************************************************)
EXTENDS Naturals, Sequences, SequencesExt

CONSTANTS
    SHAversions,     \* "SHA1", "SHA224", "SHA256", "SHA384", "SHA512"
    BlockSize,       \* of each of them, in bytes
    HashSize,
    Word,            \* how many values Length_High has, and Length_Low
    MaxMessage,      \* bound on the bytes of a message
    Portions,        \* how many bytes are given at a time
    KeySizes         \* of the keys of hmac

ASSUME HashesAssumption ==
    /\ BlockSize \in [SHAversions -> Nat \ {0, 1, 2}]
    /\ HashSize \in [SHAversions -> Nat \ {0}]
    \* a word counts the bits of a byte, and a key has a hash
    /\ Word \in Nat /\ Word > 8 /\ MaxMessage \in Nat
    /\ Portions \subseteq Nat /\ KeySizes \subseteq {n \in Nat \ {0} : 8 * n < Word * Word}

VARIABLES
    sha,       \* USHAContext
    mac,       \* the rest of HMACContext; k_opad is empty when sha is used by itself
    message,   \* what the caller gave, and whether any of it was refused
    digest     \* what it was answered last

hashVars == <<sha, mac, message, digest>>

\* error codes; a length that overflows sets Corrupted to 1, which is shaNull
shaSuccess == 0
TooLong == 1
shaStateError == 3

Zero == <<"zero">>
LengthPlaces == 2

-----------------------------------------------------------------------------
(* what the three files have in common                                      *)

\* the initial values differ, even between SHA224 and SHA256
InitialHash(v) == << <<v>> >>

Fresh(v) == [whichSha |-> v, hash |-> InitialHash(v), block |-> [i \in 1 .. BlockSize[v] |-> Zero],
             index |-> 0, low |-> 0, high |-> 0, computed |-> FALSE, corrupted |-> 0]

Size(c) == BlockSize[c.whichSha]

AddLength(c, n) ==
    LET low == (c.low + n) % Word
        high == IF low < c.low THEN (c.high + 1) % Word ELSE c.high
    IN  [c EXCEPT !.low = low, !.high = high, !.corrupted = IF low < c.low /\ high = 0 THEN TooLong ELSE 0]

SHA1ProcessMessageBlock(c) == [c EXCEPT !.hash = Append(@, c.block), !.index = 0]
SHA224_256ProcessMessageBlock(c) == [c EXCEPT !.hash = Append(@, c.block), !.index = 0]
SHA384_512ProcessMessageBlock(c) == [c EXCEPT !.hash = Append(@, c.block), !.index = 0]

ProcessMessageBlock(c) ==
    CASE c.whichSha = "SHA1" -> SHA1ProcessMessageBlock(c)
      [] c.whichSha \in {"SHA224", "SHA256"} -> SHA224_256ProcessMessageBlock(c)
      [] OTHER -> SHA384_512ProcessMessageBlock(c)

Put(c, x) == [c EXCEPT !.block[c.index + 1] = x, !.index = @ + 1]
\* the block up to n places is filled with zeros
Fill(c, n) == [c EXCEPT !.block = [i \in DOMAIN @ |-> IF i \in c.index + 1 .. n THEN Zero ELSE @[i]],
                        !.index = IF @ < n THEN n ELSE @]

InputByte(c, x) ==
    LET put == AddLength(Put(c, x), 8)
    IN  IF put.corrupted = 0 /\ put.index = Size(c) THEN ProcessMessageBlock(put) ELSE put

InputBytes(c, s) == FoldLeft(LAMBDA d, x : IF d.corrupted # 0 THEN d ELSE InputByte(d, x), c, s)

\* A call: what it returns and what it leaves.
Call(err, c) == [err |-> err, ctx |-> c]

Input(c, s) ==
    CASE s = <<>> -> Call(shaSuccess, c)
      [] s # <<>> /\ c.computed -> Call(shaStateError, [c EXCEPT !.corrupted = shaStateError])
      [] s # <<>> /\ ~c.computed /\ c.corrupted # 0 -> Call(c.corrupted, c)
      [] OTHER -> Call(shaSuccess, InputBytes(c, s))

\* slip: whether the length still fits is decided one place too late
PadMessage_close(c, pad) ==
    LET n == Size(c) - LengthPlaces
        put == IF c.index > n THEN ProcessMessageBlock(Fill(Put(c, pad), Size(c))) ELSE Put(c, pad)
        filled == Fill(put, n)
    IN  ProcessMessageBlock([filled EXCEPT !.block[n + 1] = <<"word", c.high>>, !.block[n + 2] = <<"word", c.low>>])

\* pad is the byte that ends the message
PadMessage(c, pad) ==
    LET n == Size(c) - LengthPlaces
        put == IF c.index >= n THEN ProcessMessageBlock(Fill(Put(c, pad), Size(c))) ELSE Put(c, pad)
        filled == Fill(put, n)
    IN  ProcessMessageBlock([filled EXCEPT !.block[n + 1] = <<"word", c.high>>, !.block[n + 2] = <<"word", c.low>>])

SHA1PadMessage(c, pad) == PadMessage(c, pad)
SHA224_256PadMessage(c, pad) == PadMessage(c, pad)
SHA384_512PadMessage(c, pad) == PadMessage(c, pad)

Cleared(c) == [c EXCEPT !.block = [i \in DOMAIN @ |-> Zero], !.low = 0, !.high = 0, !.computed = TRUE]
SHA1Finalize(c, pad) == Cleared(SHA1PadMessage(c, pad))
SHA224_256Finalize(c, pad) == Cleared(SHA224_256PadMessage(c, pad))
SHA384_512Finalize(c, pad) == Cleared(SHA384_512PadMessage(c, pad))

Finalize(c, pad) ==
    CASE c.whichSha = "SHA1" -> SHA1Finalize(c, pad)
      [] c.whichSha \in {"SHA224", "SHA256"} -> SHA224_256Finalize(c, pad)
      [] OTHER -> SHA384_512Finalize(c, pad)

\* the n upper bits of a byte, and the bit that ends the message
PadByte(bits, n) == <<"pad", (bits - (bits % 2 ^ (8 - n))) + 2 ^ (7 - n)>>

FinalBits(c, bits, n) ==
    CASE n = 0 -> Call(shaSuccess, c)
      [] n # 0 /\ (c.computed \/ n >= 8) -> Call(shaStateError, [c EXCEPT !.corrupted = shaStateError])
      [] n \in 1 .. 7 /\ ~c.computed /\ c.corrupted # 0 -> Call(c.corrupted, c)
      [] OTHER -> Call(shaSuccess, Finalize(AddLength(c, n), PadByte(bits, n)))

\* the first HashSize bytes of a hash
Truncated(v, hash) == [i \in 1 .. HashSize[v] |-> <<"hash", hash, i>>]
NoDigest == <<>>

\* the third component is what was written to Message_Digest
ResultN(c) ==
    IF c.corrupted # 0 THEN [err |-> c.corrupted, ctx |-> c, digest |-> NoDigest]
    ELSE LET done == IF c.computed THEN c ELSE Finalize(c, PadByte(0, 0))
         IN  [err |-> shaSuccess, ctx |-> done, digest |-> Truncated(c.whichSha, done.hash)]

-----------------------------------------------------------------------------
(* sha1.c, sha224.c and sha384-512.c                                        *)

SHA1Reset == Fresh("SHA1")
SHA1Input(c, s) == Input(c, s)
SHA1FinalBits(c, bits, n) == FinalBits(c, bits, n)
SHA1Result(c) == ResultN(c)

SHA224_256Reset(v) == Fresh(v)
SHA256Input(c, s) == Input(c, s)
SHA256FinalBits(c, bits, n) == FinalBits(c, bits, n)
SHA224_256ResultN(c) == ResultN(c)

SHA384_512Reset(v) == Fresh(v)
SHA512Input(c, s) == Input(c, s)
SHA512FinalBits(c, bits, n) == FinalBits(c, bits, n)
SHA384_512ResultN(c) == ResultN(c)

-----------------------------------------------------------------------------
(* usha.c                                                                   *)

USHAReset(v) ==
    CASE v = "SHA1" -> SHA1Reset [] v \in {"SHA224", "SHA256"} -> SHA224_256Reset(v) [] OTHER -> SHA384_512Reset(v)
USHAInput(c, s) ==
    CASE c.whichSha = "SHA1" -> SHA1Input(c, s)
      [] c.whichSha \in {"SHA224", "SHA256"} -> SHA256Input(c, s)
      [] OTHER -> SHA512Input(c, s)
USHAFinalBits(c, bits, n) ==
    CASE c.whichSha = "SHA1" -> SHA1FinalBits(c, bits, n)
      [] c.whichSha \in {"SHA224", "SHA256"} -> SHA256FinalBits(c, bits, n)
      [] OTHER -> SHA512FinalBits(c, bits, n)
USHAResult(c) ==
    CASE c.whichSha = "SHA1" -> SHA1Result(c)
      [] c.whichSha \in {"SHA224", "SHA256"} -> SHA224_256ResultN(c)
      [] OTHER -> SHA384_512ResultN(c)
USHABlockSize(v) == BlockSize[v]
USHAHashSize(v) == HashSize[v]

-----------------------------------------------------------------------------
(* hmac.c                                                                   *)

XorPad(pad, s, n) == [i \in 1 .. n |-> <<pad, IF i <= Len(s) THEN s[i] ELSE Zero>>]

\* a key longer than a block is replaced by its hash
hmacKey(v, key) ==
    IF Len(key) > USHABlockSize(v) THEN USHAResult(USHAInput(USHAReset(v), key).ctx).digest ELSE key

hmacReset(v, key) ==
    LET k == hmacKey(v, key)
    IN  [sha |-> USHAInput(USHAReset(v), XorPad("ipad", k, USHABlockSize(v))).ctx,
         k_opad |-> XorPad("opad", k, USHABlockSize(v))]

hmacInput(c, s) == USHAInput(c, s)
hmacFinalBits(c, bits, n) == USHAFinalBits(c, bits, n)

\* the second pass starts the context anew, whatever the first left in it
hmacResult(c, k_opad) ==
    LET first == USHAResult(c)
        outer == USHAInput(USHAInput(USHAReset(c.whichSha), k_opad).ctx, first.digest)
    IN  IF first.err # shaSuccess THEN first ELSE USHAResult(outer.ctx)

hmac(v, text, key) ==
    LET c == hmacReset(v, key) IN hmacResult(hmacInput(c.sha, text).ctx, c.k_opad)

\* hmacsha256.c: an empty key or payload is refused; the digest is written to the beginning
\* of a buffer made larger by the size of a hash
HMACSHA256_ComputeHash(key, payload, held) ==
    IF key = <<>> \/ payload = <<>> THEN held
    ELSE LET made == hmac("SHA256", payload, key).digest
         IN  [i \in 1 .. Len(held) + HashSize["SHA256"] |-> IF i <= Len(made) THEN made[i] ELSE <<"unset">>]

-----------------------------------------------------------------------------
(* their callers                                                            *)

Nothing == [bytes |-> <<>>, bits |-> 0, refused |-> FALSE]
KeyOf(n) == [i \in 1 .. n |-> <<"key", i>>]
LastByte == 183     \* 0b10110111, of which the final bits are taken

HashesInit ==
    /\ \E v \in SHAversions : sha = USHAReset(v)
    /\ mac = [key |-> <<>>, k_opad |-> <<>>]
    /\ message = Nothing /\ digest = NoDigest

StartMac(v, n) ==
    LET c == hmacReset(v, KeyOf(n))
    IN  /\ message = Nothing /\ digest = NoDigest /\ mac.key = <<>> /\ ~sha.computed
        /\ sha' = c.sha /\ mac' = [key |-> KeyOf(n), k_opad |-> c.k_opad]
        /\ UNCHANGED <<message, digest>>

Give(n) ==
    LET from == Len(message.bytes)
        s == [i \in 1 .. n |-> <<"byte", from + i>>]
        called == IF mac.key = <<>> THEN USHAInput(sha, s) ELSE hmacInput(sha, s)
    IN  /\ from + n <= MaxMessage
        /\ sha' = called.ctx
        /\ message' = IF called.err = shaSuccess THEN [message EXCEPT !.bytes = @ \o s]
                      ELSE [message EXCEPT !.refused = TRUE]
        /\ UNCHANGED <<mac, digest>>

GiveBits(n) ==
    LET called == IF mac.key = <<>> THEN USHAFinalBits(sha, LastByte, n) ELSE hmacFinalBits(sha, LastByte, n)
    IN  /\ sha' = called.ctx
        /\ message' = IF called.err = shaSuccess THEN [message EXCEPT !.bits = n]
                      ELSE [message EXCEPT !.refused = TRUE]
        /\ UNCHANGED <<mac, digest>>

\* hmacResult leaves the context of the second pass, and is called once
Answer ==
    LET called == IF mac.key = <<>> THEN USHAResult(sha) ELSE hmacResult(sha, mac.k_opad)
    IN  /\ mac.key # <<>> => digest = NoDigest /\ ~message.refused
        /\ sha' = called.ctx
        /\ digest' = called.digest
        /\ message' = IF called.err = shaSuccess THEN message ELSE [message EXCEPT !.refused = TRUE]
        /\ UNCHANGED mac

HashNext ==
    \/ \E v \in SHAversions, n \in KeySizes : StartMac(v, n)
    \/ \E n \in Portions : (mac.key # <<>> => digest = NoDigest) /\ Give(n)
    \/ \E n \in 1 .. 8 : (mac.key # <<>> => digest = NoDigest) /\ GiveBits(n)
    \/ Answer

-----------------------------------------------------------------------------
(* the standards                                                            *)

\* FIPS 180: the message, a bit 1, zeros and the length in bits, in blocks
Padded(v, s, bits, n) ==
    LET end == <<"pad", ((bits \div 2 ^ (8 - n)) * 2 + 1) * 2 ^ (7 - n)>>
        total == 8 * Len(s) + n
        zeros == CHOOSE z \in 0 .. BlockSize[v] - 1 : (Len(s) + 1 + z + LengthPlaces) % BlockSize[v] = 0
    IN  s \o <<end>> \o [i \in 1 .. zeros |-> Zero] \o
        << <<"word", total \div Word>>, <<"word", total % Word>> >>

Hashed(v, s, bits, n) ==
    LET p == Padded(v, s, bits, n)
    IN  Truncated(v, InitialHash(v) \o
                     [i \in 1 .. Len(p) \div BlockSize[v] |-> SubSeq(p, (i - 1) * BlockSize[v] + 1, i * BlockSize[v])])

\* RFC 2104
Mac(v, key, s, bits, n) ==
    LET k == IF Len(key) <= BlockSize[v] THEN key ELSE Hashed(v, key, 0, 0)
    IN  Hashed(v, XorPad("opad", k, BlockSize[v]) \o
                  Hashed(v, XorPad("ipad", k, BlockSize[v]) \o s, bits, n), 0, 0)

\* bits a message may have
Longest == Word * Word - 1
Given == 8 * Len(message.bytes) + message.bits + (IF mac.key = <<>> THEN 0 ELSE 8 * BlockSize[sha.whichSha])

\* A digest is the one of the whole message, however it was split and however long it is:
\* blocks filled exactly, a length that no longer fits the last block, final bits.  A message
\* whose length overflows has none.
DigestsOfWholeMessage ==
    digest # NoDigest =>
        /\ Given <= Longest
        /\ digest = IF mac.key = <<>> THEN Hashed(sha.whichSha, message.bytes, LastByte, message.bits)
                    ELSE Mac(sha.whichSha, mac.key, message.bytes, LastByte, message.bits)
        /\ mac.key # <<>> /\ message.bits = 0 /\ sha.whichSha = "SHA256" /\ message.bytes # <<>> =>
             HMACSHA256_ComputeHash(mac.key, message.bytes, <<>>) = digest

=============================================================================
