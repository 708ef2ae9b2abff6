---------------------------- MODULE HttpMessages -----------------------------
(***************************************************************************)
(* HTTP/1.1 messages (http/HttpParser.cpp, HttpTransferCoding.cpp,         *)
(* HttpContentEncoding.cpp, HttpCoding.cpp, HttpRequest.cpp,               *)
(* HttpResponse.cpp).                                                      *)
(*                                                                         *)
(* What is read from the network is a sequence of symbols.  A status line  *)
(* and a header field, without their CRLF, are one symbol each; a chunk    *)
(* size, the extensions after it and the octets of a body are spelt out.   *)
(* The same symbols may be octets of a body.                               *)
(***************************************************************************)
EXTENDS Integers, Sequences, SequencesExt, FiniteSetsExt

CONSTANTS
    SizeLimit,           \* the largest SIZE_T
    MaxHeaders,          \* KhHttpMaxHeaders
    MaxHeaderSymbols,    \* KhHttpMaxHeaderBytes, in symbols
    MaxLineSymbols,      \* KhHttpMaxChunkSizeLineBytes and KhHttpMaxHeaderLineBytes
    MaxTrailers,         \* KhHttpMaxTrailers
    MaxChunks,           \* KhHttpMaxChunks
    MaxTransferCodings,  \* HttpMaxTransferCodings
    MaxContentCodings,
    MaxExpansionRatio    \* MaxDecodeExpansionRatio

\* An octet, or a line: what sym is "line".
Octets(text) == [i \in 1 .. Len(text) |-> [sym |-> text[i]]]
TextOf(data) == [i \in 1 .. Len(data) |-> data[i].sym]

\* The digits in use, with the number each stands for; chunk sizes and lengths are
\* written in the base that has just these digits.
DigitValue == [d \in {"0", "1", "2"} |-> CASE d = "0" -> 0 [] d = "1" -> 1 [] d = "2" -> 2]
Base == 3
IsDigit(x) == x \in DOMAIN DigitValue
IsOptionalWhitespace(x) == x = " "

StatusLine(shape, major, minor, code) ==
    [sym |-> "line", line |-> "status", shape |-> shape, MajorVersion |-> major, MinorVersion |-> minor,
     StatusCode |-> code]
\* shape of a field: good, folded (starts with white space), no colon, no name,
\* bad name, bad value.
Field(shape, name, value) == [sym |-> "line", line |-> "field", shape |-> shape, Name |-> name, Value |-> value]

CRLF == Octets(<<"cr", "lf">>)
Slice(data, from, to) == SubSeq(data, from, to - 1)

-----------------------------------------------------------------------------
\* Texts.  Positions count from 1; none is Nowhere.
Nowhere == 0

TrimOptionalWhitespace(text) ==
    LET kept == {i \in 1 .. Len(text) : ~IsOptionalWhitespace(text[i])}
    IN IF kept = {} THEN <<>> ELSE SubSeq(text, Min(kept), Max(kept))

Position(text, x, start) ==
    LET at == {i \in start .. Len(text) : text[i] = x} IN IF at = {} THEN Nowhere ELSE Min(at)

FindCrlf(data, start) ==
    LET at == {i \in start .. Len(data) - 1 : data[i].sym = "cr" /\ data[i + 1].sym = "lf"}
    IN IF at = {} THEN Nowhere ELSE Min(at)

\* One past the empty line.
FindHeaderEnd(data) ==
    LET at == {i \in 1 .. Len(data) - 3 : SubSeq(data, i, i + 3) = CRLF \o CRLF}
    IN IF at = {} THEN Nowhere ELSE Min(at) + 4

\* Digits to a number no larger than limit.
ParseDigits(text, limit) ==
    FoldLeft(LAMBDA acc, x :
                IF acc.status # "success" THEN acc
                ELSE IF ~IsDigit(x) THEN [value |-> 0, status |-> "invalid"]
                ELSE IF acc.value > (limit - DigitValue[x]) \div Base
                THEN [value |-> 0, status |-> "overflow"]
                ELSE [value |-> acc.value * Base + DigitValue[x], status |-> "success"],
             [value |-> 0, status |-> IF text = <<>> THEN "parameter" ELSE "success"], text)

ParseSize(text) == ParseDigits(text, SizeLimit)
ParseHexSize(text) == ParseDigits(text, SizeLimit)

\* HeaderValueHasToken, of a value that is a list of tokens.
HeaderValueHasToken(value, token) == \E i \in 1 .. Len(value) : value[i] = token

-----------------------------------------------------------------------------
(***************************************************************************)
(* ValidateSemicolonParameters: chunk extensions.  The loop's position is  *)
(* advanced by the helpers below; a value is a token or a quoted string    *)
(* ("q" is the quote, "b" the backslash, "c" a control character).         *)
(***************************************************************************)
\* The first position at or after i whose symbol is not in S.
Skip(text, i, S) ==
    Min({j \in i .. Len(text) + 1 : j = Len(text) + 1 \/ text[j] \notin S})

\* IsTchar
TcharSet == DOMAIN DigitValue \cup {"t"}

\* One past the closing quote, Nowhere if there is none.
RECURSIVE QuotedEnd(_, _)
QuotedEnd(text, i) ==
    CASE i > Len(text) -> Nowhere
      [] i <= Len(text) /\ text[i] = "q" -> i + 1
      [] i <= Len(text) /\ text[i] = "b" ->
            IF i + 1 > Len(text) \/ text[i + 1] = "c" THEN Nowhere ELSE QuotedEnd(text, i + 2)
      [] OTHER -> IF text[i] = "c" THEN Nowhere ELSE QuotedEnd(text, i + 1)

RECURSIVE ParametersFrom(_, _)
ParametersFrom(text, i) ==
    LET EndsAt(after) == (after > Len(text) \/ text[after] = ";") /\ ParametersFrom(text, after)
        Value(start, end) == end # Nowhere /\ end > start /\ EndsAt(Skip(text, end, {" "}))
        ValueAt(start) ==
            start <= Len(text)
            /\ Value(start, IF text[start] = "q" THEN QuotedEnd(text, start + 1) ELSE Skip(text, start, TcharSet))
        AfterName(next) ==
            IF next > Len(text) \/ text[next] = ";" THEN ParametersFrom(text, next)
            ELSE text[next] = "=" /\ ValueAt(Skip(text, next + 1, {" "}))
        Name(start, end) == end > start /\ AfterName(Skip(text, end, {" "}))
        NameAt(start) == Name(start, Skip(text, start, TcharSet))
    IN i <= Len(text) => text[i] = ";" /\ NameAt(Skip(text, i + 1, {" "}))

ValidateSemicolonParameters(text) == ParametersFrom(text, 1)

-----------------------------------------------------------------------------
\* ParseStatusLine
ParseStatusLine(s) ==
    IF s.line = "status" /\ s.shape = "good" /\ s.MajorVersion = 1 /\ s.MinorVersion <= 1
       /\ s.StatusCode \in 100 .. 599
    THEN "success" ELSE "invalid"

StatusCodeHasNoBody(code) == code \in 100 .. 199 \cup {204, 205, 304}

\* ParseHeaders: the lines between from and end, the empty line included.
RECURSIVE ParseHeaders(_, _, _, _, _)
ParseHeaders(data, cursor, end, capacity, headers) ==
    LET Fail(s) == [status |-> s, headers |-> <<>>]
        Line(lineEnd, f) ==
            IF cursor >= end - 2 \/ lineEnd = cursor THEN [status |-> "success", headers |-> headers]
            ELSE IF lineEnd = Nowhere \/ lineEnd > end \/ lineEnd - cursor > MaxLineSymbols
                    \/ lineEnd # cursor + 1 \/ f.sym # "line"
                    \/ f.line # "field" \/ f.shape \in {"folded", "no colon", "no name"}
            THEN Fail("invalid")
            ELSE IF Len(headers) >= MaxHeaders \/ Len(headers) >= capacity THEN Fail("too small")
            ELSE IF f.shape \in {"bad name", "bad value"} THEN Fail("invalid")
            ELSE ParseHeaders(data, lineEnd + 2, end, capacity, Append(headers, f))
    IN Line(FindCrlf(data, cursor), data[cursor])

Named(headers, name) == SelectSeq(headers, LAMBDA f : f.Name = name)

\* ReadContentLength: at most one field, one number, no list.
ReadContentLength(headers) ==
    LET Result(f, n, s) == [found |-> f, length |-> n, status |-> s]
        Number(number, count) ==
            IF number.status # "success" THEN Result(FALSE, 0, number.status)
            ELSE IF count > 1 THEN Result(FALSE, 0, "invalid") ELSE Result(TRUE, number.value, "success")
        First(first, count) ==
            IF first = <<>> \/ Position(first, ",", 1) # Nowhere THEN Result(FALSE, 0, "invalid")
            ELSE Number(ParseSize(first), count)
        Fields(found) ==
            IF found = <<>> THEN Result(FALSE, 0, "success")
            ELSE First(TrimOptionalWhitespace(found[1].Value), Len(found))
    IN Fields(Named(headers, "Content-Length"))

IsForbiddenTrailerField(name) ==
    name \in {"Content-Length", "Transfer-Encoding", "Host", "Authorization", "Cookie"}

\* ParseTrailerFieldLine
ParseTrailerFieldLine(f) ==
    IF f.sym = "line" /\ f.line = "field" /\ f.shape = "good" /\ ~IsForbiddenTrailerField(f.Name)
    THEN "success" ELSE "invalid"

-----------------------------------------------------------------------------
\* DecodeChunkedBodyWithTrailers; out: [capacity, trailers], the latter -1 when the
\* caller does not want them.
Chunked(status, body, consumed, trailers) ==
    [status |-> status, body |-> body, consumed |-> consumed, trailers |-> trailers]
ChunkFailed(s) == Chunked(s, <<>>, 0, <<>>)

RECURSIVE DecodeTrailers(_, _, _, _, _)
DecodeTrailers(data, cursor, out, body, trailers) ==
    LET Line(lineEnd) ==
            IF lineEnd = Nowhere THEN ChunkFailed("more")
            ELSE IF lineEnd - cursor > MaxLineSymbols THEN ChunkFailed("invalid")
            ELSE IF lineEnd = cursor THEN Chunked("success", body, cursor + 1, trailers)
            ELSE IF Len(trailers) >= MaxTrailers THEN ChunkFailed("invalid")
            ELSE IF out.trailers >= 0 /\ Len(trailers) >= out.trailers THEN ChunkFailed("too small")
            ELSE IF lineEnd # cursor + 1 \/ ParseTrailerFieldLine(data[cursor]) # "success"
            THEN ChunkFailed("invalid")
            ELSE DecodeTrailers(data, lineEnd + 2, out, body, Append(trailers, data[cursor]))
    IN Line(FindCrlf(data, cursor))

\* The line of a chunk: its size and whether its extensions are well formed.
ParseChunkLine(line) ==
    LET Parts(digits, extensions) ==
            IF Len(line) > MaxLineSymbols \/ ~ValidateSemicolonParameters(extensions) \/ digits = <<>>
            THEN [status |-> "invalid", value |-> 0] ELSE ParseHexSize(digits)
        Split(semicolon) ==
            Parts(TrimOptionalWhitespace(SubSeq(line, 1, semicolon - 1)), SubSeq(line, semicolon, Len(line)))
        UpTo(semicolon) == Split(IF semicolon = Nowhere THEN Len(line) + 1 ELSE semicolon)
    IN UpTo(Position(line, ";", 1))

RECURSIVE DecodeChunks(_, _, _, _, _)
DecodeChunks(data, cursor, out, body, chunks) ==
    LET Data(start, end) ==
            IF end > Len(data) + 1 THEN ChunkFailed("more")
            ELSE IF Len(body) + end - start > out.capacity THEN ChunkFailed("too small")
            ELSE IF end + 1 > Len(data) THEN ChunkFailed("more")
            ELSE IF SubSeq(data, end, end + 1) # CRLF THEN ChunkFailed("invalid")
            ELSE DecodeChunks(data, end + 2, out, body \o Slice(data, start, end), chunks + 1)
        Chunk(size, start) ==
            IF size.status # "success" THEN ChunkFailed(size.status)
            ELSE IF size.value = 0 THEN DecodeTrailers(data, start, out, body, <<>>)
            ELSE IF chunks >= MaxChunks THEN ChunkFailed("invalid") ELSE Data(start, start + size.value)
        Line(lineEnd) ==
            IF lineEnd = Nowhere THEN ChunkFailed("more")
            ELSE Chunk(ParseChunkLine(TextOf(Slice(data, cursor, lineEnd))), lineEnd + 2)
    IN Line(FindCrlf(data, cursor))

DecodeChunkedBodyWithTrailers(data, out) == DecodeChunks(data, 1, out, <<>>, 0)

-----------------------------------------------------------------------------
(***************************************************************************)
(* Transfer codings.  A member of the list is a token, with or without     *)
(* parameters.                                                             *)
(***************************************************************************)
ParseTransferCodingToken(member) ==
    IF member.token \in {"", "identity"} THEN "invalid"
    ELSE IF member.token \notin {"chunked", "gzip", "deflate", "compress"} THEN "unsupported"
    ELSE IF member.parameters THEN "invalid" ELSE "success"

\* AppendTransferCoding, for each member of AppendTransferCodings' list.
AppendTransferCoding(acc, member) ==
    LET Parsed(parsed) ==
            IF parsed # "success" THEN [acc EXCEPT !.status = parsed]
            ELSE IF Len(acc.codings) >= MaxTransferCodings THEN [acc EXCEPT !.status = "unsupported"]
            ELSE IF member.token = "chunked" /\ Contains(acc.codings, "chunked")
            THEN [acc EXCEPT !.status = "invalid"]
            ELSE [acc EXCEPT !.codings = Append(@, member.token)]
    IN IF acc.status # "success" THEN acc ELSE Parsed(ParseTransferCodingToken(member))

AppendTransferCodings(acc, f) == FoldLeft(AppendTransferCoding, acc, f.Value)

\* HttpTransferCoding::Parse; no codings means no Transfer-Encoding.
ParseTransferEncoding(headers) ==
    LET Listed(info, fields) ==
            IF fields # <<>> /\ info.status = "success" /\ info.codings = <<>>
            THEN [info EXCEPT !.status = "invalid"] ELSE info
        Fields(fields) ==
            Listed(FoldLeft(AppendTransferCodings, [status |-> "success", codings |-> <<>>], fields), fields)
    IN Fields(Named(headers, "Transfer-Encoding"))

(***************************************************************************)
(* Buffers.  A body lies in the network buffer, in DecodedBody or in       *)
(* ScratchBody; each step decodes from one into another.                   *)
(***************************************************************************)
At(area, bytes) == [area |-> area, bytes |-> bytes]

\* Mutant: the decoded buffer, whatever lies in it.
BadSelectDestination(current, capacities) ==
    IF capacities.decoded >= 0 THEN "decoded" ELSE IF capacities.scratch >= 0 THEN "scratch" ELSE "none"

\* SelectDestination of both files: decoded first, unless the input lies in it.
SelectDestination(current, capacities) ==
    IF capacities.decoded >= 0 /\ current.area # "decoded" THEN "decoded"
    ELSE IF capacities.scratch >= 0 /\ current.area # "scratch" THEN "scratch" ELSE "none"

CapacityOf(capacities, area) == IF area = "none" THEN 0 ELSE capacities[area]

\* The codecs themselves: what they make of their own coding of a text.
Coded(coding, text) == Octets(<<coding>>) \o text \o Octets(<<"end">>)

\* A codec that writes over what it is still to read gives garbage.
DecodeOne(coding, current, destination, capacity) ==
    LET w == current.bytes
        text == SubSeq(w, 2, Len(w) - 1)
    IN IF Len(w) < 2 \/ w[1].sym # coding \/ w[Len(w)].sym # "end"
       THEN [status |-> "invalid", bytes |-> <<>>]
       ELSE IF Len(text) > capacity THEN [status |-> "too small", bytes |-> <<>>]
       ELSE [status |-> "success",
             bytes |-> IF destination = current.area THEN Octets(<<"garbage">>) ELSE text]

IsDecodedSizeAllowed(encoded, decoded) == decoded <= encoded * MaxExpansionRatio

HasTransform(coding) == coding # "identity"

\* One turn of DecodeChainReverse's loop.
DecodeLink(acc, coding) ==
    LET Into(destination, done) ==
            IF done.status # "success" THEN [acc EXCEPT !.status = done.status]
            ELSE IF ~IsDecodedSizeAllowed(Len(acc.current.bytes), Len(done.bytes))
            THEN [acc EXCEPT !.status = "invalid"]
            ELSE [acc EXCEPT !.current = At(destination, done.bytes), !.transformed = TRUE]
        Decoded(destination) ==
            Into(destination, DecodeOne(coding, acc.current, destination, CapacityOf(acc.capacities, destination)))
    IN IF acc.status # "success" \/ ~HasTransform(coding) THEN acc
       ELSE Decoded(SelectDestination(acc.current, acc.capacities))

\* What is left in another buffer is copied to DecodedBody.
MoveToDecoded(acc) ==
    IF acc.status # "success" \/ ~acc.transformed \/ acc.current.bytes = <<>>
       \/ acc.capacities.decoded < 0 \/ acc.current.area = "decoded" THEN acc
    ELSE IF Len(acc.current.bytes) > acc.capacities.decoded THEN [acc EXCEPT !.status = "too small"]
    ELSE [acc EXCEPT !.current.area = "decoded"]

Chain(current, capacities) ==
    [status |-> "success", current |-> current, capacities |-> capacities, transformed |-> FALSE]

DecodeChainReverse(codings, current, capacities) ==
    IF codings = <<>> \/ current.bytes = <<>> THEN Chain(current, capacities)
    ELSE MoveToDecoded(FoldLeft(DecodeLink, Chain(current, capacities), Reverse(codings)))

\* One turn of DecodeResponseBody's loop over the transfer codings, last one first.
DecodeTransferLink(acc, i) ==
    LET coding == acc.codings[i]
        outermost == i = Len(acc.codings)
        Fail(s) == [acc EXCEPT !.chain.status = s]
        One(one) == [acc EXCEPT !.chain = [one EXCEPT !.transformed = @ \/ acc.chain.transformed]]
        Chunks(chunks, destination) ==
            IF chunks.status # "success" THEN Fail(chunks.status)
            ELSE IF ~outermost /\ chunks.consumed # Len(acc.chain.current.bytes) THEN Fail("invalid")
            ELSE [acc EXCEPT !.chain.current = At(destination, chunks.body), !.chain.transformed = TRUE,
                             !.consumed = IF outermost THEN chunks.consumed ELSE @,
                             !.trailers = IF outermost THEN chunks.trailers ELSE @]
        Into(destination) ==
            Chunks(DecodeChunkedBodyWithTrailers(acc.chain.current.bytes,
                       [capacity |-> CapacityOf(acc.chain.capacities, destination),
                        trailers |-> IF outermost THEN acc.trailerCapacity ELSE -1]), destination)
    IN IF acc.chain.status # "success" THEN acc
       ELSE IF coding # "chunked" THEN One(DecodeChainReverse(<<coding>>, acc.chain.current, acc.chain.capacities))
       ELSE Into(SelectDestination(acc.chain.current, acc.chain.capacities))

DecodeResponseBody(codings, wire, opt) ==
    LET start == [codings |-> codings, chain |-> Chain(At("wire", wire), opt.capacities),
                  consumed |-> Len(wire), trailers |-> <<>>, trailerCapacity |-> opt.trailers]
        Moved(done) == [done EXCEPT !.chain = MoveToDecoded(@)]
    IN IF Last(codings) # "chunked" /\ ~opt.closed THEN [start EXCEPT !.chain.status = "more"]
       ELSE Moved(FoldLeft(DecodeTransferLink, start, [k \in 1 .. Len(codings) |-> Len(codings) + 1 - k]))

\* ParseCoding and AppendCodings of Content-Encoding.
ParseCoding(token) ==
    IF token = "" THEN "invalid"
    ELSE IF token \in {"identity", "gzip", "deflate", "br", "compress"} THEN "success"
    ELSE "unsupported"

AppendCoding(acc, token) ==
    IF acc.status # "success" THEN acc
    ELSE IF Len(acc.codings) >= MaxContentCodings THEN [acc EXCEPT !.status = "unsupported"]
    ELSE [status |-> ParseCoding(token), codings |-> Append(acc.codings, token)]

AppendCodings(acc, f) == FoldLeft(AppendCoding, acc, f.Value)

\* HttpContentEncoding::Decode behind ApplyContentEncoding; an empty body has no coding.
ApplyContentEncoding(headers, current, capacities) ==
    LET Listed(list) ==
            IF list.status # "success" THEN [Chain(current, capacities) EXCEPT !.status = list.status]
            ELSE DecodeChainReverse(list.codings, current, capacities)
    IN IF current.bytes = <<>> THEN Chain(current, capacities)
       ELSE Listed(FoldLeft(AppendCodings, [status |-> "success", codings |-> <<>>], Named(headers, "Content-Encoding")))

-----------------------------------------------------------------------------
\* ParseResponse.  closed: MessageCompleteOnConnectionClose.
Response(kind, chain, consumed, trailers, close) ==
    [status |-> chain.status, BodyKind |-> kind, Body |-> chain.current.bytes,
     BytesConsumed |-> consumed, Trailers |-> trailers, BodyEndsOnConnectionClose |-> close]
ResponseFailed(s) ==
    [status |-> s, BodyKind |-> "None", Body |-> <<>>, BytesConsumed |-> 0, Trailers |-> <<>>,
     BodyEndsOnConnectionClose |-> FALSE]
OrFailed(r) == IF r.status = "success" THEN r ELSE ResponseFailed(r.status)

\* The part after the headers: a body with transfer codings, ...
ParseCodedBody(headers, codings, rest, consumed, opt) ==
    LET chunked == Last(codings) = "chunked"
        Decoded(t) ==
            IF t.chain.status # "success" THEN ResponseFailed(t.chain.status)
            ELSE OrFailed(Response(IF chunked THEN "Chunked" ELSE IF rest = <<>> THEN "None" ELSE "CloseDelimited",
                                   ApplyContentEncoding(headers, t.chain.current, opt.capacities),
                                   consumed + t.consumed, IF opt.trailers < 0 THEN <<>> ELSE t.trailers,
                                   ~chunked /\ opt.closed))
    IN Decoded(DecodeResponseBody(codings, rest, opt))

\* ... and its framing, then its content coding.
ParseBody(status, headers, rest, consumed, opt) ==
    LET Plain(kind, body, close) ==
            OrFailed(Response(IF body = <<>> THEN "None" ELSE kind,
                              ApplyContentEncoding(headers, At("wire", body), opt.capacities),
                              consumed + Len(body), <<>>, close))
        Framed(te, cl) ==
            IF te.status # "success" THEN ResponseFailed(te.status)
            ELSE IF te.codings # <<>> /\ status.MinorVersion < 1 THEN ResponseFailed("invalid")
            ELSE IF cl.status # "success" THEN ResponseFailed(cl.status)
            ELSE IF te.codings # <<>>
            THEN IF cl.found THEN ResponseFailed("invalid")
                 ELSE ParseCodedBody(headers, te.codings, rest, consumed, opt)
            ELSE IF cl.found /\ cl.length > Len(rest) THEN ResponseFailed("more")
            ELSE IF ~cl.found /\ ~opt.closed THEN ResponseFailed("more")
            ELSE Plain(IF cl.found THEN "ContentLength" ELSE "CloseDelimited",
                       IF cl.found THEN SubSeq(rest, 1, cl.length) ELSE rest, ~cl.found)
    IN Framed(ParseTransferEncoding(headers), ReadContentLength(headers))

ParseResponse(data, opt) ==
    LET Fields(parsed, status, end) ==
            IF parsed.status # "success" THEN ResponseFailed(parsed.status)
            ELSE IF opt.ResponseBodyForbidden \/ StatusCodeHasNoBody(status.StatusCode)
            THEN Response("None", Chain(At("wire", <<>>), opt.capacities), end - 1, <<>>, FALSE)
            ELSE ParseBody(status, parsed.headers, SubSeq(data, end, Len(data)), end - 1, opt)
        Start(headerEnd, status) ==
            IF headerEnd = Nowhere THEN ResponseFailed("more")
            ELSE IF headerEnd - 1 > MaxHeaderSymbols \/ FindCrlf(data, 1) # 2 \/ status.sym # "line"
                    \/ ParseStatusLine(status) # "success" THEN ResponseFailed("invalid")
            ELSE Fields(ParseHeaders(data, 4, headerEnd, opt.headers, <<>>), status, headerEnd)
    IN IF data = <<>> THEN ResponseFailed("more") ELSE Start(FindHeaderEnd(data), data[1])

-----------------------------------------------------------------------------
(***************************************************************************)
(* HttpRequestBuilder.  A request: method, mode of the body, body, extra   *)
(* headers, trailers, IncludeContentLength and the Connection directive.   *)
(***************************************************************************)
RECURSIVE Digits(_)
Digits(n) ==
    LET last == CHOOSE d \in DOMAIN DigitValue : DigitValue[d] = n % Base
    IN IF n < Base THEN <<last>> ELSE Append(Digits(n \div Base), last)

HasBody(r) == r.Body # <<>> \/ r.IncludeContentLength
RequestEmitsChunkedFraming(r) == r.BodyMode = "Chunked" /\ HasBody(r)

\* ValidateExtraHeaders
ExtraHeaderRefused(r, f) ==
    CASE f.Name \in {"Transfer-Encoding", "TE"} -> "unsupported"
      [] f.Name = "Trailer" /\ ~RequestEmitsChunkedFraming(r) -> "unsupported"
      [] f.Name = "Expect" /\ r.Body # <<>> /\ HeaderValueHasToken(f.Value, "100-continue") -> "unsupported"
      [] f.Name \in {"Host", "Content-Length", "Connection"} -> "parameter"
      [] OTHER -> "success"

\* ValidateTrailers
TrailerRefused(r, f) ==
    CASE ~RequestEmitsChunkedFraming(r) -> "unsupported"
      [] RequestEmitsChunkedFraming(r) /\ f.shape # "good" -> "parameter"
      [] RequestEmitsChunkedFraming(r) /\ f.shape = "good" /\ IsForbiddenTrailerField(f.Name) -> "unsupported"
      [] OTHER -> "success"

FirstRefusal(verdicts) ==
    LET bad == {i \in 1 .. Len(verdicts) : verdicts[i] # "success"}
    IN IF bad = {} THEN "success" ELSE verdicts[Min(bad)]

FieldLines(fields) == FoldLeft(LAMBDA w, f : w \o <<f>> \o CRLF, <<>>, fields)

AppendChunkedBody(body, trailers) ==
    (IF body = <<>> THEN <<>> ELSE Octets(Digits(Len(body))) \o CRLF \o body \o CRLF)
        \o Octets(<<"0">>) \o CRLF \o FieldLines(trailers) \o CRLF

\* Build: the lines of the message, or why there is none.
Build(r) ==
    LET Message(framing, body) ==
            <<[sym |-> "line", line |-> "request", method |-> r.Method]>> \o CRLF
            \o FieldLines(<<Field("good", "Host", <<"host">>)>> \o framing
                          \o <<Field("good", "Connection", <<r.Connection>>)>> \o r.Extra)
            \o CRLF \o body
        Fail(s) == [status |-> s, wire |-> <<>>]
        Written(wire) == IF Len(wire) > r.Capacity THEN Fail("too small") ELSE [status |-> "success", wire |-> wire]
        Checked(extra, trailers) ==
            IF extra # "success" THEN Fail(extra)
            ELSE IF trailers # "success" THEN Fail(trailers)
            ELSE IF \E i \in 1 .. Len(r.Extra) : r.Extra[i].shape # "good" THEN Fail("parameter")
            ELSE IF ~HasBody(r) THEN Written(Message(<<>>, <<>>))
            ELSE IF r.BodyMode = "Chunked"
            THEN Written(Message(<<Field("good", "Transfer-Encoding", <<[token |-> "chunked", parameters |-> FALSE]>>)>>,
                                 AppendChunkedBody(r.Body, r.Trailers)))
            ELSE Written(Message(<<Field("good", "Content-Length", Digits(Len(r.Body)))>>, r.Body))
    IN Checked(FirstRefusal([i \in 1 .. Len(r.Extra) |-> ExtraHeaderRefused(r, r.Extra[i])]),
               FirstRefusal([i \in 1 .. Len(r.Trailers) |-> TrailerRefused(r, r.Trailers[i])]))

-----------------------------------------------------------------------------
(***************************************************************************)
(* HttpResponse.                                                           *)
(***************************************************************************)
\* ParseUnsigned: the run of digits at i and the position after it.
ParseUnsigned(text, i) ==
    LET Number(end, number) == [ok |-> end > i /\ number.status = "success", value |-> number.value, next |-> end]
        UpTo(end) == Number(end, ParseDigits(SubSeq(text, i, end - 1), SizeLimit))
    IN UpTo(Skip(text, i, DOMAIN DigitValue))

NoRange == [HasRange |-> FALSE, First |-> 0, Last |-> 0, HasComplete |-> FALSE, Complete |-> 0]

\* The symbol at i, a blank after the end.
SymbolAt(text, i) == IF i \in 1 .. Len(text) THEN text[i] ELSE ""

\* The part of it after the slash: the complete length or a star, then the end.
CompleteLength(value, slash, starAllowed) ==
    LET any == starAllowed /\ SymbolAt(value, slash + 1) = "*"
        Length(n, end) ==
            IF SymbolAt(value, slash) = "/" /\ (any \/ n.ok) /\ Skip(value, end, {" "}) = Len(value) + 1
            THEN [ok |-> TRUE, any |-> any, value |-> IF any THEN 0 ELSE n.value]
            ELSE [ok |-> FALSE, any |-> FALSE, value |-> 0]
        Parsed(n) == Length(n, IF any THEN slash + 2 ELSE n.next)
    IN Parsed(ParseUnsigned(value, slash + 1))

\* GetContentRange, of the value of the field; "u" is the unit "bytes".
GetContentRange(value) ==
    LET none == [ok |-> FALSE, range |-> NoRange]
        Starred(n) ==
            IF n.ok THEN [ok |-> TRUE, range |-> [NoRange EXCEPT !.HasComplete = TRUE, !.Complete = n.value]] ELSE none
        Whole(a, b, n) ==
            IF /\ a.ok /\ SymbolAt(value, a.next) = "-" /\ b.ok /\ b.value >= a.value
               /\ n.ok /\ (n.any \/ b.value < n.value)
            THEN [ok |-> TRUE, range |-> [HasRange |-> TRUE, First |-> a.value, Last |-> b.value,
                                          HasComplete |-> ~n.any, Complete |-> n.value]]
            ELSE none
        Bounded(a, b) == Whole(a, b, CompleteLength(value, b.next, TRUE))
        Ranged(a) == Bounded(a, ParseUnsigned(value, a.next + 1))
        RangeAt(first) ==
            IF first > Len(value) THEN none
            ELSE IF value[first] = "*" THEN Starred(CompleteLength(value, first + 1, FALSE))
            ELSE Ranged(ParseUnsigned(value, first))
        Unit(at) ==
            IF SymbolAt(value, at) = "u" /\ SymbolAt(value, at + 1) = " " THEN RangeAt(Skip(value, at + 1, {" "}))
            ELSE none
    IN Unit(Skip(value, 1, {" "}))
=============================================================================
