------------------------------- MODULE Codecs --------------------------------
(***************************************************************************)
(* The body codings the library decodes itself (http/HttpCoding.cpp): the  *)
(* wrappers of gzip and zlib around raw DEFLATE, and compress, with the    *)
(* widths of compress as constants.  The DEFLATE and Brotli decoders are   *)
(* the system's and a vendored library's.                                  *)
(***************************************************************************)
EXTENDS Integers, Sequences, SequencesExt, FiniteSets, FiniteSetsExt

CONSTANTS
    LiteralBits,     \* 8: literals are 0 .. 2^LiteralBits - 1
    CodesPerGroup,   \* 8: a change of width is aligned to so many codes
    DataUnitBits     \* 8: the bits of a byte of the data

CompressInitialBits == LiteralBits + 1
CompressClearCode == 2 ^ LiteralBits
CompressFirstFreeCode == CompressClearCode + 1

Decoded(s, text) == [status |-> s, text |-> text]

-----------------------------------------------------------------------------
\* Bits are read lowest first.
ReadCompressCode(bits, offset, codeBits) ==
    FoldLeft(LAMBDA n, i : n + bits[offset + i] * 2 ^ (i - 1), 0, [i \in 1 .. codeBits |-> i])

HasCompleteCompressCode(bits, offset, codeBits) == offset < Len(bits) - (codeBits - 1)

\* Mutant: codes of the next width follow at once.
BadAlignCompressBitOffset(offset, codeBits) == offset

\* The offset at which codes of the next width begin.
AlignCompressBitOffset(offset, codeBits) ==
    LET group == codeBits * CodesPerGroup
        current == offset - 1 + group
    IN current - (current % group)

\* ExpandCompressCode and EmitReverseStack: the text of a code, by prefix and suffix.
RECURSIVE ExpandCompressCode(_, _)
ExpandCompressCode(code, table) ==
    IF code < CompressClearCode THEN <<code>>
    ELSE Append(ExpandCompressCode(table[code].prefix, table), table[code].suffix)

NoCode == -1
NewTable(blockMode) ==
    [entries |-> << >>, nextCode |-> IF blockMode THEN CompressFirstFreeCode ELSE CompressClearCode,
     codeBits |-> CompressInitialBits, oldCode |-> NoCode]

\* entries as a function of the codes defined so far.
WithEntry(t, maxBits, first) ==
    IF t.oldCode = NoCode \/ t.nextCode >= 2 ^ maxBits THEN t
    ELSE [t EXCEPT !.entries = [c \in DOMAIN t.entries \cup {t.nextCode} |->
                                   IF c = t.nextCode THEN [prefix |-> t.oldCode, suffix |-> first]
                                   ELSE t.entries[c]],
                   !.nextCode = @ + 1]

\* The loop of DecodeCompressWithTables, from a bit offset and with the table so far.
RECURSIVE DecodeCodes(_, _, _, _, _)
DecodeCodes(bits, flags, offset, t, out) ==
    LET wider == t.nextCode > 2 ^ t.codeBits - 1 /\ t.codeBits < flags.maxBits
        at == IF wider THEN AlignCompressBitOffset(offset, t.codeBits) ELSE offset
        u == IF wider THEN [t EXCEPT !.codeBits = @ + 1] ELSE t
        code == ReadCompressCode(bits, at, u.codeBits)
        known == code < u.nextCode
        text == IF known THEN ExpandCompressCode(code, u.entries)
                ELSE LET old == ExpandCompressCode(u.oldCode, u.entries) IN Append(old, old[1])
    IN IF \/ ~HasCompleteCompressCode(bits, offset, t.codeBits)
          \/ ~HasCompleteCompressCode(bits, at, u.codeBits) THEN Decoded("success", out)
       ELSE IF flags.blockMode /\ code = CompressClearCode
       THEN DecodeCodes(bits, flags, at + u.codeBits, NewTable(TRUE), out)
       ELSE IF ~known /\ (code # u.nextCode \/ u.oldCode = NoCode) THEN Decoded("invalid", out)
       ELSE IF Len(out) + Len(text) > flags.capacity THEN Decoded("too small", out)
       ELSE DecodeCodes(bits, flags, at + u.codeBits,
                        [WithEntry(u, flags.maxBits, text[1]) EXCEPT !.oldCode = code], out \o text)

\* DecodeCompress: the header, then the codes.
DecodeCompress(wire, capacity) ==
    IF ~wire.magic \/ wire.maxBits \notin CompressInitialBits .. 2 * CompressInitialBits
    THEN Decoded("invalid", <<>>)
    ELSE DecodeCodes(wire.bits, [maxBits |-> wire.maxBits, blockMode |-> wire.blockMode,
                                 capacity |-> capacity], 0, NewTable(wire.blockMode), <<>>)

-----------------------------------------------------------------------------
(***************************************************************************)
(* gzip and zlib.  A symbol has a kind: the fixed header with its flags,   *)
(* octets, the zero that ends a name, lengths, checksums.  A checksum is   *)
(* what it was computed over.                                              *)
(***************************************************************************)
Symbol(kind, value) == [kind |-> kind, value |-> value]
Is(symbol, kind, value) == symbol.kind = kind /\ symbol.value = value
Octet == Symbol("octet", 0)
Zero == Symbol("zero", 0)
Deflated(text) == <<Symbol("deflate", text)>>

\* DecodeRawDeflate and DecodeRawDeflateUnchecked around RtlDecompressBufferEx.
DecodeRawDeflate(data, capacity, available) ==
    IF ~available THEN Decoded("unsupported", <<>>)
    ELSE IF Len(data) # 1 \/ (Len(data) = 1 /\ data[1].kind # "deflate") THEN Decoded("invalid", <<>>)
    ELSE IF Len(data[1].value) > capacity THEN Decoded("too small", <<>>)
    ELSE Decoded("success", data[1].value)

\* SkipZeroTerminatedField: one past the zero, 0 for none.
SkipZeroTerminatedField(data, cursor) ==
    LET zeros == {i \in cursor .. Len(data) : data[i].kind = "zero"}
    IN IF zeros = {} THEN 0 ELSE Min(zeros) + 1

\* The cursor of DecodeGzip through the optional fields; 0 once it has failed.
SkipExtra(data, cursor, flags) ==
    IF "extra" \notin flags THEN cursor
    ELSE IF cursor > Len(data) \/ (cursor <= Len(data) /\ data[cursor].kind # "length") THEN 0
    ELSE IF data[cursor].value > Len(data) - cursor THEN 0 ELSE cursor + 1 + data[cursor].value

SkipText(data, cursor, flag, flags) ==
    IF cursor = 0 THEN 0 ELSE IF flag \in flags THEN SkipZeroTerminatedField(data, cursor) ELSE cursor

SkipHeaderCrc(data, cursor, flags) ==
    IF cursor = 0 \/ "hcrc" \notin flags THEN cursor
    ELSE IF cursor <= Len(data) /\ Is(data[cursor], "hcrc", SubSeq(data, 1, cursor - 1))
    THEN cursor + 1 ELSE 0

DecodeGzip(data, capacity, available) ==
    LET flags == data[1].value
        cursor == SkipHeaderCrc(data,
                      SkipText(data, SkipText(data, SkipExtra(data, 2, flags), "name", flags),
                               "comment", flags), flags)
        raw == DecodeRawDeflate(SubSeq(data, cursor, Len(data) - 2), capacity, available)
    IN IF Len(data) < 3 \/ (Len(data) >= 3 /\ data[1].kind # "gzip") THEN Decoded("invalid", <<>>)
       ELSE IF "reserved" \in flags \/ cursor = 0 \/ cursor > Len(data) - 1 THEN Decoded("invalid", <<>>)
       ELSE IF raw.status # "success" THEN raw
       ELSE IF Is(data[Len(data) - 1], "crc", raw.text) /\ Is(data[Len(data)], "size", Len(raw.text))
       THEN raw ELSE Decoded("invalid", <<>>)

\* DecodeDeflate: with zlib's wrapper or, as some servers send it, without.
LooksLikeZlibHeader(data) == data # <<>> /\ data[1].kind = "zlib"

DecodeDeflate(data, capacity, available) ==
    LET raw == DecodeRawDeflate(SubSeq(data, 2, Len(data) - 1), capacity, available)
    IN IF ~LooksLikeZlibHeader(data) THEN DecodeRawDeflate(data, capacity, available)
       ELSE IF Len(data) < 2 THEN Decoded("invalid", <<>>)
       ELSE IF raw.status # "success" THEN raw
       ELSE IF Is(data[Len(data)], "adler", raw.text) THEN raw ELSE Decoded("invalid", <<>>)

-----------------------------------------------------------------------------
(***************************************************************************)
(* What the formats say.  compress(1): the longest known beginning of what *)
(* is left is written as its code and, with the literal after it, becomes  *)
(* the next code; when the codes outgrow their width the group is filled   *)
(* up and the codes get one bit wider.                                     *)
(***************************************************************************)
CodeBits(code, width) == [i \in 1 .. width |-> (code \div 2 ^ (i - 1)) % 2]

Padded(bits, unit) == bits \o [i \in 1 .. (unit - (Len(bits) % unit)) % unit |-> 0]

RECURSIVE Compressed(_, _, _, _, _)
Compressed(text, maxBits, codes, width, bits) ==
    LET prefixes == {n \in 1 .. Len(text) : SubSeq(text, 1, n) \in DOMAIN codes}
        n == Max(prefixes)
        free == Cardinality(DOMAIN codes)
        next == IF n < Len(text) /\ free < 2 ^ maxBits
                THEN [w \in DOMAIN codes \cup {SubSeq(text, 1, n + 1)} |->
                         IF w \in DOMAIN codes THEN codes[w] ELSE free]
                ELSE codes
        written == bits \o CodeBits(codes[SubSeq(text, 1, n)], width)
        wider == free > 2 ^ width - 1 /\ width < maxBits
    IN IF text = <<>> THEN Padded(bits, DataUnitBits)
       ELSE Compressed(SubSeq(text, n + 1, Len(text)), maxBits, next,
                       IF wider THEN width + 1 ELSE width,
                       IF wider /\ n < Len(text) THEN Padded(written, width * CodesPerGroup) ELSE written)

\* The literals, and in block mode the clear code, are known from the start.
FirstCodes(blockMode) ==
    [w \in {<<l>> : l \in 0 .. CompressClearCode - 1} \cup (IF blockMode THEN {<<>>} ELSE {}) |->
        IF w = <<>> THEN CompressClearCode ELSE w[1]]

Compress(text, maxBits, blockMode) ==
    [magic |-> TRUE, maxBits |-> maxBits, blockMode |-> blockMode,
     bits |-> Compressed(text, maxBits, FirstCodes(blockMode), CompressInitialBits, <<>>)]

\* RFC 1952: a member with the fields its flags announce.
Gzip(text, flags, extra, octets) ==
    LET head == <<Symbol("gzip", flags)>>
                \o (IF "extra" \in flags THEN <<Symbol("length", extra)>> \o [i \in 1 .. extra |-> Zero] ELSE <<>>)
                \o (IF "name" \in flags THEN [i \in 1 .. octets |-> Octet] \o <<Zero>> ELSE <<>>)
                \o (IF "comment" \in flags THEN [i \in 1 .. octets |-> Octet] \o <<Zero>> ELSE <<>>)
    IN head \o (IF "hcrc" \in flags THEN <<Symbol("hcrc", head)>> ELSE <<>>)
            \o Deflated(text) \o <<Symbol("crc", text), Symbol("size", Len(text))>>

\* What was compressed with any width comes back, and only when there is room for it.
CompressRight(text) ==
    \A maxBits \in CompressInitialBits .. CompressInitialBits + 2, blockMode \in BOOLEAN, room \in {0, 1} :
        DecodeCompress(Compress(text, maxBits, blockMode), Len(text) - room)
            = IF room = 0 \/ text = <<>> THEN Decoded("success", text)
              ELSE [DecodeCompress(Compress(text, maxBits, blockMode), Len(text) - room) EXCEPT !.status = "too small"]

\* A gzip member comes back whatever optional fields it has, a shortened one is refused.
GzipRight(text) ==
    \A flags \in SUBSET {"extra", "name", "comment", "hcrc"} :
        LET member == Gzip(text, flags, 2, 1) IN
        /\ DecodeGzip(member, Len(text), TRUE) = Decoded("success", text)
        /\ \A n \in 1 .. Len(member) - 1 : DecodeGzip(SubSeq(member, 1, n), Len(text), TRUE).status = "invalid"

\* The deflate coding comes back with zlib's wrapper (RFC 1950) and without it; a wrapper around something else does not.
ZlibRight(text) ==
    LET Wrapped(adler) == <<Symbol("zlib", {})>> \o Deflated(text) \o <<Symbol("adler", adler)>> IN
    /\ \A data \in {Wrapped(text), Deflated(text)} : DecodeDeflate(data, Len(text), TRUE) = Decoded("success", text)
    /\ DecodeDeflate(Wrapped(Append(text, 0)), Len(text), TRUE).status = "invalid"
    /\ \A n \in 1 .. 2 : DecodeDeflate(SubSeq(Wrapped(text), 1, n), Len(text), TRUE).status = "invalid"
=============================================================================
