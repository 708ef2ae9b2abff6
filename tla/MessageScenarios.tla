-------------------------- MODULE MessageScenarios ---------------------------
(***************************************************************************)
(* Responses as a server means them, how RFC 9112 puts them on the wire,   *)
(* and what a client is to make of them; requests as a caller means them,  *)
(* and what a server makes of their wire form.                             *)
(***************************************************************************)
EXTENDS HttpMessages

\* A response that is as plain as it can be.
Plain == [minor |-> 1, code |-> 200, forbidden |-> FALSE, framing |-> "length", transfer |-> <<>>, content |-> <<>>,
          body |-> Octets(<<"x", "y">>), piece |-> 2, extension |-> <<>>, trailers |-> <<>>, rest |-> <<>>,
          room |-> "ample", closed |-> FALSE]

\* What a server may do differently, and what may be wrong with a response.
NextLine == StatusLine("good", 1, 1, 200)
Trailer(name) == Field("good", name, <<"v">>)
Variants ==
    [minor |-> {0}, code |-> {204}, forbidden |-> {TRUE}, closed |-> {TRUE}, piece |-> {1},
     framing |-> {"chunked", "nested", "close", "both", "twice", "list"},
     transfer |-> {<<"gzip">>, <<"identity">>, <<"br">>},
     content |-> {<<"gzip">>, <<"deflate", "gzip">>, <<"identity">>, <<"zip">>},
     body |-> {<<>>, Octets(<<"cr", "lf", "0", "cr", "lf", "cr", "lf">>)},
     extension |-> {<<";", "t", "=", "q", ";", "q">>, <<" ", ";", "t">>, <<";">>},
     trailers |-> {<<Trailer("T")>>, <<Trailer("Content-Length")>>},
     rest |-> {<<NextLine>> \o CRLF, CRLF},
     room |-> {"decoded only", "scratch only", "small", "none"}]

Encoded(codings, text) == FoldLeft(LAMBDA t, c : IF c = "identity" THEN t ELSE Coded(c, t), text, codings)

\* Chunks of at most piece octets.
RECURSIVE Pieces(_, _)
Pieces(d, text) ==
    LET Cut(n) == Octets(Digits(n) \o d.extension) \o CRLF \o SubSeq(text, 1, n) \o CRLF
                  \o Pieces(d, SubSeq(text, n + 1, Len(text)))
    IN IF text = <<>> THEN <<>> ELSE Cut(IF d.piece < Len(text) THEN d.piece ELSE Len(text))

IsChunked(d) == d.framing \in {"chunked", "nested", "both"}
Payload(d) == Encoded(d.transfer, Encoded(d.content, d.body))
Lengths(framing, digits) ==
    CASE framing \in {"length", "both"} -> <<digits>>
      [] framing = "twice" -> <<digits, digits>>
      [] framing = "list" -> <<digits \o <<",">> \o digits>>
      [] OTHER -> <<>>
Fields(d) ==
    LET Length(values) == [i \in 1 .. Len(values) |-> Field("good", "Content-Length", values[i])]
        Transfer(tokens) ==
            IF tokens = <<>> THEN <<>>
            ELSE <<Field("good", "Transfer-Encoding", [i \in 1 .. Len(tokens) |-> [token |-> tokens[i], parameters |-> FALSE]])>>
    IN Length(Lengths(d.framing, Digits(Len(Payload(d)))))
       \o Transfer(d.transfer \o (IF d.framing = "nested" THEN <<"chunked", "chunked">>
                                  ELSE IF IsChunked(d) THEN <<"chunked">> ELSE <<>>))
       \o (IF d.content = <<>> THEN <<>> ELSE <<Field("good", "Content-Encoding", d.content)>>)

BodyWire(d) ==
    LET Framed(payload) ==
            IF IsChunked(d) THEN Pieces(d, payload) \o Octets(<<"0">>) \o CRLF \o FieldLines(d.trailers) \o CRLF ELSE payload
    IN Framed(Payload(d))
HeadWire(d) == <<StatusLine("good", 1, d.minor, d.code)>> \o CRLF \o FieldLines(Fields(d)) \o CRLF
Bodyless(d) == d.forbidden \/ d.code = 204
WireOf(d) == HeadWire(d) \o (IF Bodyless(d) THEN <<>> ELSE BodyWire(d))

\* How much room the caller gives, and what else it says.
Room(d) ==
    CASE d.room = "ample" -> [decoded |-> 20, scratch |-> 20]
      [] d.room = "decoded only" -> [decoded |-> 20, scratch |-> -1]
      [] d.room = "scratch only" -> [decoded |-> -1, scratch |-> 20]
      [] d.room = "small" -> [decoded |-> 1, scratch |-> 20]
      [] d.room = "none" -> [decoded |-> -1, scratch |-> -1]
OptionsOf(d, closed) ==
    [headers |-> 4, trailers |-> 2, closed |-> closed, ResponseBodyForbidden |-> d.forbidden, capacities |-> Room(d)]

\* A framing two recipients could read differently, or a coding that is not understood.
Ambiguous(d) == d.framing \in {"nested", "both", "twice", "list"} \/ (d.transfer # <<>> /\ ~IsChunked(d) /\ d.framing # "close")
Refusable(d) ==
    \/ Ambiguous(d)
    \/ d.transfer # <<>> /\ (d.transfer # <<"gzip">> \/ d.minor = 0)
    \/ IsChunked(d) /\ (d.minor = 0 \/ d.trailers = <<Trailer("Content-Length")>>)
    \/ IsChunked(d) /\ d.extension = <<";">> /\ Payload(d) # <<>>
    \/ d.content = <<"zip">>

\* What the message is, wherever the network cuts it and whatever follows it.
ResponseRight(d) ==
    LET toEnd == d.framing = "close" /\ ~Bodyless(d)     \* the body ends with the connection
        Exact(whole, length) ==
            /\ whole.status = "success" /\ whole.Body = (IF Bodyless(d) THEN <<>> ELSE d.body)
            /\ whole.BytesConsumed = length
            /\ IsChunked(d) /\ ~Bodyless(d) => whole.Trailers = d.trailers
            /\ whole.BodyEndsOnConnectionClose = toEnd
        WholeRight(whole, length) ==
            IF ~Bodyless(d) /\ Refusable(d) THEN whole.status \notin {"success", "more"}
            ELSE Exact(whole, length) \/ (d.room # "ample" /\ whole.status = "too small")
        PartsRight(parts) ==
            \A n \in DOMAIN parts : parts[n].status = "more" \/ parts[n] = parts[Len(parts)]
        StreamRight(stream, length) ==
            /\ WholeRight(ParseResponse(stream, OptionsOf(d, toEnd \/ d.closed)), length)
            /\ d.room = "ample" /\ ~toEnd =>
                PartsRight([n \in 1 .. Len(stream) + 1 |-> ParseResponse(SubSeq(stream, 1, n - 1), OptionsOf(d, FALSE))])
        MessageRight(message) == StreamRight(IF toEnd THEN message ELSE message \o d.rest, Len(message))
    IN MessageRight(WireOf(d))

-----------------------------------------------------------------------------
\* Requests: the plainest one, and what a caller may ask for instead.
PlainRequest ==
    [Method |-> "POST", BodyMode |-> "ContentLength", Body |-> Octets(<<"x">>), IncludeContentLength |-> FALSE,
     Extra |-> <<>>, Trailers |-> <<>>, Connection |-> "keep-alive", Capacity |-> 99]
RequestVariants ==
    [BodyMode |-> {"Chunked"}, Method |-> {"GET"}, Capacity |-> {17}, IncludeContentLength |-> {TRUE}, Connection |-> {"close"},
     Body |-> {<<>>, Octets(<<"x", "cr", "lf", "y">>), Octets(<<"0", "cr", "lf", "cr", "lf">>)},
     Extra |-> {<<Field("good", n, <<"t">>)>> :
                    n \in {"X", "Transfer-Encoding", "Content-Length", "Host", "Connection", "Trailer"}}
               \cup {<<Field("good", "Expect", <<"100-continue">>)>>, <<Field("bad value", "X", <<"t">>)>>},
     Trailers |-> {<<Trailer("T")>>, <<Trailer("T"), Trailer("U")>>, <<Trailer("Host")>>,
                   <<Field("bad name", "T", <<"v">>)>>}]

\* What a server reads: the body by the one framing the head announces.
Names(fields) == [i \in 1 .. Len(fields) |-> fields[i].Name]
RequestRight(r) ==
    LET plain == /\ \A i \in 1 .. Len(r.Extra) : r.Extra[i] = Field("good", "X", <<"t">>)
                 /\ r.Trailers = <<>> /\ r.Capacity = 99
        ChunksRight(chunks, length) ==
            /\ chunks.status = "success" /\ chunks.consumed = length
            /\ chunks.body = r.Body /\ chunks.trailers = r.Trailers
        BodyRight(length, coding, rest) ==
            /\ Len(length) + Len(coding) <= 1
            /\ IF coding # <<>>
               THEN ChunksRight(DecodeChunkedBodyWithTrailers(rest, [capacity |-> 20, trailers |-> 4]), Len(rest))
               ELSE /\ rest = r.Body /\ r.Trailers = <<>>
                    /\ IF length = <<>> THEN r.Body = <<>> ELSE ParseSize(length[1].Value).value = Len(r.Body)
        HeadRight(head, rest) ==
            /\ head.status = "success" /\ IsInjective(Names(head.headers))
            /\ BodyRight(Named(head.headers, "Content-Length"), Named(head.headers, "Transfer-Encoding"), rest)
        WireRight(wire, end) ==
            Len(wire) <= r.Capacity /\ HeadRight(ParseHeaders(wire, 4, end, 9, <<>>), SubSeq(wire, end, Len(wire)))
        BuiltRight(built) ==
            IF built.status = "success" THEN WireRight(built.wire, FindHeaderEnd(built.wire)) ELSE ~plain
    IN BuiltRight(Build(r))

\* Values of Content-Range by the grammar of RFC 9110, 14.4, and what they say.
Number(text) == FoldLeft(LAMBDA n, x : n * Base + DigitValue[x], 0, text)
IsNumber(text) == text # <<>> /\ \A i \in 1 .. Len(text) : IsDigit(text[i])
RangeRight(value) ==
    LET Starred(slash, spec, length) == slash = 2 /\ spec[1] = "*" /\ IsNumber(length)
        Ranged(first, last, length) ==
            /\ IsNumber(first) /\ IsNumber(last) /\ (IsNumber(length) \/ length = <<"*">>)
            /\ Number(first) <= Number(last) /\ (IsNumber(length) => Number(last) < Number(length))
        Same(said, starred, ranged, first, last, length) ==
            /\ said.ok = (starred \/ ranged)
            /\ said.ok /\ ranged => said.range.First = Number(first) /\ said.range.Last = Number(last)
            /\ said.ok /\ IsNumber(length) => said.range.Complete = Number(length)
        Parts(spec, dash, slash, first, last, length) ==
            Same(GetContentRange(value), Starred(slash, spec, length),
                 dash > 1 /\ slash > dash /\ Ranged(first, last, length), first, last, length)
        Split(spec, dash, slash) ==
            Parts(spec, dash, slash, SubSeq(spec, 1, dash - 1), SubSeq(spec, dash + 1, slash - 1),
                  SubSeq(spec, slash + 1, Len(spec)))
        Spec(spec) == Split(spec, Position(spec, "-", 1), Position(spec, "/", 1))
        Text(text) ==
            IF Len(text) > 2 /\ text[1] = "u" /\ text[2] = " " THEN Spec(SubSeq(text, Skip(text, 2, {" "}), Len(text)))
            ELSE ~GetContentRange(value).ok
    IN Text(TrimOptionalWhitespace(value))
=============================================================================
