-------------------------------- MODULE Hpack --------------------------------
(***************************************************************************)
(* Header compression (http2/Hpack.cpp): the dynamic table in its ring of  *)
(* entries and its buffer of bytes, the encoder and the decoder around it, *)
(* and the integer and string codings.  A text is a sequence of symbols, a *)
(* header block a sequence of representations.  The widths of the wire     *)
(* format (7-bit groups, 32-bit integers, 8-bit bytes, the Huffman code)   *)
(* are constants, so that all of their inputs can be enumerated.           *)
(***************************************************************************)
EXTENDS Naturals, Sequences, SequencesExt, FiniteSetsExt

CONSTANTS
    StaticTable,      \* HpackStaticTable: headers [Name, Value]
    SensitiveNames,   \* authorization, cookie, proxy-authorization
    EntryOverhead,    \* HpackEntryOverhead, 32
    DataSlack,        \* the 1024 of DynamicTableDataCapacityLimit
    FirstEntries,     \* the 128 entries of a new table
    GroupBits,        \* 7
    IntegerBits,      \* 32, ULONG
    MaxGroups,        \* 5 continuation bytes
    ByteBits,         \* 8
    HuffmanCode,      \* symbol -> bits, a complete prefix code with "eos" all ones
    MaxCodeBits       \* 30

Header(n, v) == [Name |-> n, Value |-> v]

\* What a call leaves: its object and a status.
Outcome(t, s) == [object |-> t, status |-> s]

-----------------------------------------------------------------------------
(***************************************************************************)
(* HpackDynamicTable.  data holds the dataUsed_ bytes of dataBuffer_;      *)
(* entries is the ring, newest entry at entryHead.  The encoder and the    *)
(* decoder insert texts of their callers, never texts of the table, so the *)
(* offsets CompactData can carry along do not occur.                       *)
(***************************************************************************)
NoEntry == [NameOffset |-> 0, NameLength |-> 0, ValueOffset |-> 0, ValueLength |-> 0]

DynamicTableDataCapacityLimit(maxSize) == maxSize * 2 + DataSlack

Initialize(maxSize) ==
    [data |-> <<>>,
     dataCapacity |-> IF maxSize = 0 THEN 0
                      ELSE Max({DataSlack, DynamicTableDataCapacityLimit(maxSize)}),
     entries |-> [i \in 1 .. (IF maxSize = 0 THEN 0 ELSE FirstEntries) |-> NoEntry],
     entryCount |-> 0, entryHead |-> 0, currentSize |-> 0, maxSize |-> maxSize]

\* The cell of entry i of the ring, counted from the newest.
Cell(t, i) == ((t.entryHead + i) % Len(t.entries)) + 1

Bytes(t, offset, length) == SubSeq(t.data, offset + 1, offset + length)

EntrySize(e) == e.NameLength + e.ValueLength + EntryOverhead

\* Lookup, for an index below EntryCount().
Lookup(t, i) ==
    LET e == t.entries[Cell(t, i)] IN
    Header(Bytes(t, e.NameOffset, e.NameLength), Bytes(t, e.ValueOffset, e.ValueLength))

Contents(t) == [i \in 1 .. t.entryCount |-> Lookup(t, i - 1)]

\* Evict: the oldest entry; the last one takes the whole buffer with it.
Evict(t) ==
    LET e == t.entries[Cell(t, t.entryCount - 1)]
        u == [t EXCEPT !.currentSize = @ - EntrySize(e), !.entryCount = @ - 1]
    IN IF u.entryCount = 0 THEN [u EXCEPT !.entryHead = 0, !.data = <<>>] ELSE u

RECURSIVE EvictUntil(_, _)
EvictUntil(t, size) ==
    IF t.currentSize > size /\ t.entryCount > 0 THEN EvictUntil(Evict(t), size) ELSE t

\* MemMove within the buffer.
Overwrite(data, offset, bytes) ==
    [i \in 1 .. Len(data) |->
        IF i > offset /\ i <= offset + Len(bytes) THEN bytes[i - offset] ELSE data[i]]

\* One turn of CompactData's loop: entry i moves down to where the last one ended.
CompactEntry(acc, i) ==
    LET c == Cell(acc.table, i)
        e == acc.table.entries[c]
        total == e.NameLength + e.ValueLength
    IN [table |-> [acc.table EXCEPT
                      !.data = Overwrite(@, acc.write, Bytes(acc.table, e.NameOffset, total)),
                      !.entries[c].NameOffset = acc.write,
                      !.entries[c].ValueOffset = acc.write + e.NameLength],
        write |-> acc.write + total]

CompactData(t) ==
    IF t.entryCount = 0 THEN [t EXCEPT !.data = <<>>, !.entryHead = 0]
    ELSE LET oldestFirst == [k \in 1 .. t.entryCount |-> t.entryCount - k]
             done == FoldLeft(CompactEntry, [table |-> t, write |-> 0], oldestFirst)
         IN [done.table EXCEPT !.data = SubSeq(@, 1, done.write)]

UpdateMaxSize(t, newMaxSize) ==
    CompactData(EvictUntil([t EXCEPT !.maxSize = newMaxSize], newMaxSize))

\* Insert's search for room in the buffer: compact, then grow up to the limit.
Lacks(t, needed) == Len(t.data) + needed > t.dataCapacity
GrowData(t, needed) ==
    LET wanted == Max({t.dataCapacity * 2, Len(t.data) + needed + DataSlack}) IN
    IF Lacks(t, needed)
    THEN [t EXCEPT !.dataCapacity = Min({wanted, DynamicTableDataCapacityLimit(t.maxSize)})]
    ELSE t
EnsureData(t, needed) == GrowData(IF Lacks(t, needed) THEN CompactData(t) ELSE t, needed)

\* Insert's search for a free entry: the ring is unrolled into one of twice the size.
EnsureEntry(t) ==
    IF t.entryCount < Len(t.entries) THEN t
    ELSE [t EXCEPT
            !.entries = [i \in 1 .. 2 * Len(t.entries) |->
                            IF i <= t.entryCount THEN t.entries[Cell(t, i - 1)] ELSE NoEntry],
            !.entryHead = 0]

\* The bytes at the end of the buffer, the entry before the head.
StoreEntry(t, h) ==
    LET head == IF t.entryHead = 0 THEN Len(t.entries) - 1 ELSE t.entryHead - 1
        e == [NameOffset |-> Len(t.data), NameLength |-> Len(h.Name),
              ValueOffset |-> Len(t.data) + Len(h.Name), ValueLength |-> Len(h.Value)]
    IN [t EXCEPT !.data = @ \o h.Name \o h.Value, !.entries[head + 1] = e,
                 !.entryHead = head, !.entryCount = @ + 1, !.currentSize = @ + EntrySize(e)]

\* Insert's last part, after the search for room.
InsertInRoom(t, h, needed) ==
    IF Lacks(t, needed) THEN Outcome(t, "invalid") ELSE Outcome(StoreEntry(EnsureEntry(t), h), "success")

Insert(t, h) ==
    LET needed == Len(h.Name) + Len(h.Value)
        size == needed + EntryOverhead
    IN IF size > t.maxSize
       THEN Outcome([t EXCEPT !.entryCount = 0, !.entryHead = 0, !.data = <<>>,
                              !.currentSize = 0], "success")
       ELSE InsertInRoom(EnsureData(EvictUntil(t, t.maxSize - size), needed), h, needed)

-----------------------------------------------------------------------------
(***************************************************************************)
(* Representations: indexed; literal that is entered in the table, that is *)
(* not, or that never may be, with index 0 for a literal name; and a table *)
(* size update.                                                            *)
(***************************************************************************)
Indexed(i) == [kind |-> "indexed", index |-> i]
Literal(k, i, n, v) == [kind |-> k, index |-> i, Name |-> n, Value |-> v]
SizeUpdate(n) == [kind |-> "size", size |-> n]

\* HpackDecoder: its table and the size this side has announced.
NewDecoder(n) == [table |-> Initialize(n), maxTableSize |-> n]

\* The entry of the static or the dynamic table, if there is one.
KnownIndex(t, i) == i \in 1 .. Len(StaticTable) + t.entryCount
Resolve(t, i) == IF i <= Len(StaticTable) THEN StaticTable[i] ELSE Lookup(t, i - Len(StaticTable) - 1)

\* The header of a representation; the bytes its literals and then its indexed
\* parts take in the name and value buffer come to the same in all cases.
FieldOf(t, r) ==
    IF r.kind = "indexed" THEN Resolve(t, r.index)
    ELSE Header(IF r.index = 0 THEN r.Name ELSE Resolve(t, r.index).Name, r.Value)

\* AddHeaderListSize
FieldSize(h) == Len(h.Name) + Len(h.Value) + EntryOverhead

\* The header is emitted, once its entry in the table has been made or none was asked for.
AppendDecoded(acc, h, entered) ==
    IF entered.status # "success" \/ Len(acc.headers) >= acc.headerCapacity
    THEN [acc EXCEPT !.table = entered.object,
                     !.status = IF entered.status # "success" THEN entered.status ELSE "too small"]
    ELSE [acc EXCEPT !.table = entered.object, !.headers = Append(@, h),
                     !.nameValueUsed = @ + Len(h.Name) + Len(h.Value),
                     !.headerListSize = @ + FieldSize(h), !.allowTableSizeUpdate = FALSE]

\* The header h of representation r, held against the limits.
DecodeField(acc, r, h) ==
    IF acc.nameValueUsed + Len(h.Name) + Len(h.Value) > acc.nameValueCapacity
    THEN [acc EXCEPT !.status = "too small"]
    ELSE IF acc.headerListSize + FieldSize(h) > acc.maxHeaderListSize
    THEN [acc EXCEPT !.status = "invalid"]
    ELSE AppendDecoded(acc, h, IF r.kind = "incremental" THEN Insert(acc.table, h)
                               ELSE Outcome(acc.table, "success"))

\* One turn of Decode's loop; after a failure the rest is skipped, the table stays.
DecodeRepresentation(acc, r) ==
    LET t == acc.table
        Fail(s) == [acc EXCEPT !.status = s]
    IN CASE acc.status # "success" -> acc
         [] acc.status = "success" /\ r.kind = "size" ->
                IF ~acc.allowTableSizeUpdate \/ r.size > acc.maxTableSize THEN Fail("invalid")
                ELSE [acc EXCEPT !.table = UpdateMaxSize(t, r.size)]
         [] acc.status = "success" /\ r.kind # "size"
              /\ (IF r.kind = "indexed" THEN ~KnownIndex(t, r.index)
                                        ELSE r.index # 0 /\ ~KnownIndex(t, r.index)) -> Fail("invalid")
         [] OTHER -> DecodeField(acc, r, FieldOf(t, r))

\* Decode; room gives the capacities of the caller's buffers.
Decode(d, block, room) ==
    LET Result(done) == [decoder |-> [d EXCEPT !.table = done.table], status |-> done.status,
                         headers |-> done.headers]
    IN Result(FoldLeft(DecodeRepresentation,
                [table |-> d.table, maxTableSize |-> d.maxTableSize, status |-> "success",
                 headers |-> <<>>, nameValueUsed |-> 0, headerListSize |-> 0,
                 allowTableSizeUpdate |-> TRUE, headerCapacity |-> room.headers,
                 nameValueCapacity |-> room.bytes, maxHeaderListSize |-> room.list], block))

-----------------------------------------------------------------------------
\* HpackEncoder
NewEncoder(n) ==
    [table |-> Initialize(n), maxTableSize |-> n, pendingTableSize |-> n,
     tableSizeUpdatePending |-> FALSE]

\* Mutant: a new table size is not announced to the peer.
BadUpdateMaxTableSize(e, n) ==
    [e EXCEPT !.table = UpdateMaxSize(@, n), !.maxTableSize = n]

UpdateMaxTableSize(e, n) ==
    IF e.maxTableSize = n THEN e
    ELSE [table |-> UpdateMaxSize(e.table, n), maxTableSize |-> n, pendingTableSize |-> n,
          tableSizeUpdatePending |-> TRUE]

\* FindMatch: the first full match, else the first entry of that name.
FindMatch(t, h) ==
    LET Indices == 1 .. Len(StaticTable) + t.entryCount
        full == {i \in Indices : Resolve(t, i) = h}
        named == {i \in Indices : Resolve(t, i).Name = h.Name}
    IN [index |-> IF full # {} THEN Min(full) ELSE IF named # {} THEN Min(named) ELSE 0,
        nameOnly |-> full = {}]

IsSensitiveHeaderName(n) == n \in SensitiveNames

\* What Encode writes for one header.
Representation(t, h) ==
    LET m == FindMatch(t, h)
        never == IsSensitiveHeaderName(h.Name)
    IN IF m.index > 0 /\ ~m.nameOnly /\ ~never THEN Indexed(m.index)
       ELSE Literal(IF never THEN "never" ELSE "incremental", m.index, h.Name, h.Value)

\* The bytes of a representation: one for the prefix, the literal strings in full.
RepresentationLength(r) ==
    IF r.kind \in {"indexed", "size"} THEN 1
    ELSE 1 + (IF r.index = 0 THEN 1 + Len(r.Name) ELSE 0) + 1 + Len(r.Value)

BlockLength(block) == FoldLeft(LAMBDA n, r : n + RepresentationLength(r), 0, block)

\* One turn of Encode's loop: a name is required, the bytes must fit, and what is
\* written as an indexed literal enters the table.
EncodeHeader(acc, h) ==
    LET Written(r, entered) == [acc EXCEPT !.table = entered.object, !.status = entered.status,
                                           !.block = Append(@, r)]
        Write(r) == IF BlockLength(Append(acc.block, r)) > acc.capacity
                    THEN [acc EXCEPT !.status = "too small"]
                    ELSE Written(r, IF r.kind = "incremental" THEN Insert(acc.table, h)
                                    ELSE Outcome(acc.table, "success"))
    IN IF acc.status # "success" THEN acc
       ELSE IF h.Name = <<>> THEN [acc EXCEPT !.status = "parameter"]
       ELSE Write(Representation(acc.table, h))

\* Encode.  An announced size is taken as sent even if the rest of the block fails.
Encode(e, headers, capacity) ==
    LET first == IF e.tableSizeUpdatePending THEN <<SizeUpdate(e.pendingTableSize)>> ELSE <<>>
        Result(done) == [encoder |-> [e EXCEPT !.table = done.table, !.tableSizeUpdatePending = FALSE],
                         status |-> done.status, block |-> done.block]
    IN IF BlockLength(first) > capacity
       THEN [encoder |-> e, status |-> "too small", block |-> <<>>]
       ELSE Result(FoldLeft(EncodeHeader, [table |-> e.table, status |-> "success",
                                           block |-> first, capacity |-> capacity], headers))

-----------------------------------------------------------------------------
(***************************************************************************)
(* Integers: a prefix of prefixBits bits, then groups of GroupBits bits,   *)
(* lowest first, each with a flag that says whether another one follows.   *)
(***************************************************************************)
Group(chunk, more) == [chunk |-> chunk, more |-> more]

RECURSIVE IntegerGroups(_)
IntegerGroups(value) ==
    IF value >= 2 ^ GroupBits
    THEN <<Group(value % 2 ^ GroupBits, TRUE)>> \o IntegerGroups(value \div 2 ^ GroupBits)
    ELSE <<Group(value, FALSE)>>

HpackEncodeInteger(value, prefixBits) ==
    LET maxPrefix == 2 ^ prefixBits - 1 IN
    IF value < maxPrefix THEN [prefix |-> value, groups |-> <<>>]
    ELSE [prefix |-> maxPrefix, groups |-> IntegerGroups(value - maxPrefix)]

\* The loop of HpackDecodeInteger over the continuation bytes; m is a multiple of
\* GroupBits, and the last group may only fill the bits that are left.
RECURSIVE DecodeGroups(_, _, _)
DecodeGroups(groups, result, n) ==
    LET m == GroupBits * n
        g == groups[n + 1]
        last == IntegerBits - GroupBits * (MaxGroups - 1)
        Maximum == 2 ^ IntegerBits - 1
    IN CASE n >= Len(groups) -> Outcome(0, "more")
         [] n < Len(groups) /\ n >= MaxGroups -> Outcome(0, "overflow")
         [] OTHER ->
              IF m >= IntegerBits \/ (n = MaxGroups - 1 /\ g.chunk > 2 ^ last - 1)
              THEN Outcome(0, "overflow")
              ELSE IF result > Maximum - g.chunk * 2 ^ m THEN Outcome(0, "overflow")
              ELSE IF g.more THEN DecodeGroups(groups, result + g.chunk * 2 ^ m, n + 1)
              ELSE Outcome(result + g.chunk * 2 ^ m, "success")

HpackDecodeInteger(w, prefixBits) ==
    IF w.prefix < 2 ^ prefixBits - 1 THEN Outcome(w.prefix, "success")
    ELSE DecodeGroups(w.groups, w.prefix, 0)

\* Huffman strings: a sequence of bits, in whole bytes.
CodeOf(text) == FoldLeft(LAMBDA bits, s : bits \o HuffmanCode[s], <<>>, text)

HpackHuffmanEncodedLength(text) == (Len(CodeOf(text)) + ByteBits - 1) \div ByteBits

HpackHuffmanEncode(text) ==
    CodeOf(text)
        \o [i \in 1 .. HpackHuffmanEncodedLength(text) * ByteBits - Len(CodeOf(text)) |-> 1]

FindHuffmanSymbol(bits) == {s \in DOMAIN HuffmanCode : HuffmanCode[s] = bits}

\* One bit of HpackHuffmanDecode's loop.
DecodeBit(acc, bit) ==
    LET code == Append(acc.code, bit)
        found == FindHuffmanSymbol(code)
    IN CASE acc.status # "success" -> acc
         [] acc.status = "success" /\ (Len(code) > MaxCodeBits \/ "eos" \in found) ->
                [acc EXCEPT !.status = "invalid"]
         [] OTHER -> IF found = {} THEN [acc EXCEPT !.code = code]
                     ELSE [acc EXCEPT !.code = <<>>, !.text = @ \o SetToSeq(found)]

HpackHuffmanDecode(bits) ==
    LET done == FoldLeft(DecodeBit, [code |-> <<>>, text |-> <<>>, status |-> "success"], bits)
        padding == Len(done.code) < ByteBits /\ \A i \in 1 .. Len(done.code) : done.code[i] = 1
    IN Outcome(done.text, IF done.status = "success" /\ padding THEN "success" ELSE "invalid")

\* EncodeHeaderString: Huffman when that is shorter.
EncodeHeaderString(text) ==
    IF text # <<>> /\ HpackHuffmanEncodedLength(text) < Len(text)
    THEN [huffman |-> TRUE, bytes |-> HpackHuffmanEncode(text)]
    ELSE [huffman |-> FALSE, bytes |-> text]

-----------------------------------------------------------------------------
(***************************************************************************)
(* What RFC 7541 says of the receiver of a block: its table is a list,     *)
(* newest first, cut to the longest beginning that fits the size in force. *)
(***************************************************************************)
ListSize(l) == FoldLeft(LAMBDA n, h : n + FieldSize(h), 0, l)

Fitting(l, size) ==
    SubSeq(l, 1, Max({k \in 0 .. Len(l) : ListSize(SubSeq(l, 1, k)) <= size}))

NewReceiver(n) == [list |-> <<>>, size |-> n, limit |-> n]

RfcRepresentation(acc, r) ==
    LET all == StaticTable \o acc.peer.list
        known == r.kind # "size" /\ (r.index \in DOMAIN all \/ (r.index = 0 /\ r.kind # "indexed"))
        h == IF r.kind = "indexed" THEN all[r.index]
             ELSE Header(IF r.index = 0 THEN r.Name ELSE all[r.index].Name, r.Value)
    IN IF acc.error THEN acc
       ELSE IF r.kind = "size"
       THEN IF acc.headers # <<>> \/ r.size > acc.peer.limit THEN [acc EXCEPT !.error = TRUE]
            ELSE [acc EXCEPT !.peer.size = r.size, !.peer.list = Fitting(@, r.size)]
       ELSE IF ~known THEN [acc EXCEPT !.error = TRUE]
       ELSE [acc EXCEPT !.headers = Append(@, h),
                        !.peer.list = IF r.kind = "incremental" THEN Fitting(<<h>> \o @, acc.peer.size)
                                      ELSE @]

RfcDecode(peer, block) ==
    FoldLeft(RfcRepresentation, [peer |-> peer, headers |-> <<>>, error |-> FALSE], block)

\* The number a run of groups stands for, and whether the run ends.
GroupsValue(groups) ==
    FoldLeft(LAMBDA n, i : n + groups[i].chunk * 2 ^ (GroupBits * (i - 1)), 0,
             [i \in 1 .. Len(groups) |-> i])

\* A run of groups after a full prefix is read as its number, or refused when it has no end or the number has no
\* place; what the encoder writes for the number is read as the same.
IntegerRight(groups) ==
    LET w == [prefix |-> 2 ^ 3 - 1, groups |-> groups]
        said == HpackDecodeInteger(w, 3)
        ends == {i \in 1 .. Len(groups) : ~groups[i].more}
        value == w.prefix + GroupsValue(SubSeq(groups, 1, Min(ends)))
    IN IF ends = {} THEN said.status # "success"
       ELSE IF value >= 2 ^ IntegerBits \/ Min(ends) > MaxGroups THEN said.status = "overflow"
       ELSE /\ said = Outcome(value, "success")
            /\ HpackDecodeInteger(HpackEncodeInteger(value, 3), 3) = said

\* Only the encoding of a text is decoded, and to that text.
HuffmanRight(bits) ==
    Len(bits) % ByteBits = 0 /\ HpackHuffmanDecode(bits).status = "success" =>
        HpackHuffmanEncode(HpackHuffmanDecode(bits).object) = bits
StringRight(text) ==
    LET coded == EncodeHeaderString(text) IN
    /\ coded.huffman => HpackHuffmanDecode(coded.bytes) = Outcome(text, "success")
    /\ HpackHuffmanDecode(HpackHuffmanEncode(text)) = Outcome(text, "success")
=============================================================================
