------------------------------- MODULE Names ---------------------------------
(***************************************************************************)
(* Host names: UTF-8 and Punycode, DNS names in canonical form, IP         *)
(* literals and how a certificate's names are matched with a host          *)
(* (engine/UrlParser.cpp, tls/CertificateValidator.cpp; the former's       *)
(* Punycode functions are repeated in the latter).                         *)
(*                                                                         *)
(* A text is a sequence of octets, an octet a number below 256.            *)
(***************************************************************************)
EXTENDS Integers, Sequences, SequencesExt, FiniteSetsExt

CONSTANTS
    ULongMax,       \* the largest ULONG
    MaxLabel,       \* 63
    MaxName,        \* 255, CertificateMaxNormalizedDnsNameLength
    Ipv6Groups,     \* 8
    GroupDigits     \* 4

Dot == 46
Hyphen == 45
Colon == 58
Star == 42
OpenBracket == 91
CloseBracket == 93

Refused == [ok |-> FALSE, text |-> <<>>]
Accepted(text) == [ok |-> TRUE, text |-> text]

ToLowerAscii(c) == IF c \in 65 .. 90 THEN c + 32 ELSE c
Lower(text) == [i \in 1 .. Len(text) |-> ToLowerAscii(text[i])]

\* UrlTextEqualsIgnoreCase, CharEqualsIgnoreCase over a text
EqualsIgnoreCase(left, right) == Lower(left) = Lower(right)

IsDecimalDigit(c) == c \in 48 .. 57
IsAsciiAlpha(c) == c \in 65 .. 90 \cup 97 .. 122
IsValidDnsLabelByte(c) == IsAsciiAlpha(c) \/ IsDecimalDigit(c) \/ c = Hyphen
ContainsNonAscii(text) == \E i \in 1 .. Len(text) : text[i] >= 128

Suffix(text, n) == SubSeq(text, Len(text) - n + 1, Len(text))

\* The pieces of a text between the separators.
RECURSIVE Split(_, _)
Split(text, separator) ==
    LET first == SelectInSeq(text, LAMBDA c : c = separator) IN
    IF first = 0 THEN <<text>>
    ELSE <<SubSeq(text, 1, first - 1)>> \o Split(SubSeq(text, first + 1, Len(text)), separator)

Join(pieces, separator) ==
    FoldLeft(LAMBDA t, p : IF t.n = 0 THEN [n |-> 1, text |-> p]
                           ELSE [n |-> t.n + 1, text |-> t.text \o separator \o p],
             [n |-> 0, text |-> <<>>], pieces).text

-----------------------------------------------------------------------------
\* The length a leading octet announces, and the bits it carries.
Utf8Length(first) ==
    CASE first \in 192 .. 223 -> 2 [] first \in 224 .. 239 -> 3 [] first \in 240 .. 247 -> 4 [] OTHER -> 0

\* The code point of length octets at i, and whether it is well formed.
Utf8Value(text, i, length) ==
    FoldLeft(LAMBDA v, c : v * 64 + (c % 64), text[i] % (CASE length = 2 -> 32 [] length = 3 -> 16 [] OTHER -> 8),
             SubSeq(text, i + 1, i + length - 1))
IsUtf8Value(value, length) ==
    /\ value >= (CASE length = 2 -> 128 [] length = 3 -> 2048 [] OTHER -> 65536)
    /\ value \notin 55296 .. 57343 /\ value <= 1114111

\* DecodeUtf8CodePoint, of the octet at i
DecodeUtf8CodePoint(text, i) ==
    LET Multiple(length, value) ==
            IF /\ length # 0 /\ length <= Len(text) - i + 1
               /\ \A k \in i + 1 .. i + length - 1 : text[k] \in 128 .. 191
               /\ IsUtf8Value(value, length)
            THEN [ok |-> TRUE, point |-> value, next |-> i + length]
            ELSE [ok |-> FALSE, point |-> 0, next |-> i]
        OfLength(length) == Multiple(length, Utf8Value(text, i, length))
    IN IF text[i] < 128 THEN [ok |-> TRUE, point |-> text[i], next |-> i + 1] ELSE OfLength(Utf8Length(text[i]))

RECURSIVE CodePointsFrom(_, _, _)
CodePointsFrom(label, i, points) ==
    LET Rest(d) ==
            IF ~d.ok \/ (d.point < 128 /\ ~IsValidDnsLabelByte(d.point)) THEN [ok |-> FALSE, points |-> <<>>]
            ELSE CodePointsFrom(label, d.next, Append(points, d.point))
    IN IF i > Len(label) THEN [ok |-> TRUE, points |-> points] ELSE Rest(DecodeUtf8CodePoint(label, i))

EncodePunycodeDigit(d) == IF d < 26 THEN 97 + d ELSE 48 + d - 26

RECURSIVE Damped(_, _)
Damped(delta, k) ==
    IF delta > 455 THEN Damped(delta \div 35, k + 36) ELSE k + (36 * delta) \div (delta + 38)

AdaptPunycodeBias(delta, numPoints, firstTime) ==
    LET d == IF firstTime THEN delta \div 700 ELSE delta \div 2 IN Damped(d + d \div numPoints, 0)

Threshold(k, bias) == IF k <= bias THEN 1 ELSE IF k >= bias + 26 THEN 26 ELSE k - bias

RECURSIVE VariableLength(_, _, _)
VariableLength(q, k, bias) ==
    LET t == Threshold(k, bias) IN
    IF q < t THEN <<EncodePunycodeDigit(q)>>
    ELSE <<EncodePunycodeDigit(t + ((q - t) % (36 - t)))>> \o VariableLength((q - t) \div (36 - t), k + 36, bias)

\* The inner loop of PunycodeEncodeLabel over the code points, for one n.
EncodePoint(s, point) ==
    IF ~s.ok \/ point > s.n THEN s
    ELSE IF point < s.n THEN [s EXCEPT !.ok = s.delta # ULongMax, !.delta = @ + 1]
    ELSE [s EXCEPT !.out = @ \o VariableLength(s.delta, 36, s.bias),
                   !.bias = AdaptPunycodeBias(s.delta, s.handled + 1, s.handled = s.basic),
                   !.delta = 0, !.handled = @ + 1]

MaxPoint == 1114111

\* One turn of the outer loop: n becomes m, the next code point in order.
EncodeTurn(s, m, points) ==
    LET After(pass) ==
            IF ~pass.ok \/ pass.delta = ULongMax THEN [s EXCEPT !.ok = FALSE]
            ELSE [pass EXCEPT !.n = @ + 1, !.delta = @ + 1]
    IN IF m = MaxPoint \/ m - s.n > (ULongMax - s.delta) \div (s.handled + 1) THEN [s EXCEPT !.ok = FALSE]
       ELSE After(FoldLeft(EncodePoint, [s EXCEPT !.n = m, !.delta = @ + (m - s.n) * (s.handled + 1)], points))

RECURSIVE EncodePoints(_, _)
EncodePoints(s, points) ==
    IF ~s.ok \/ s.handled >= Len(points) THEN s
    ELSE EncodePoints(EncodeTurn(s, Min(({MaxPoint} \cup Range(points)) \ 0 .. s.n - 1), points), points)

PunycodePrefix == <<120, 110, 45, 45>>

EncodeLabel(points, basic) ==
    IF Len(basic) = Len(points) THEN [ok |-> TRUE, out |-> basic]
    ELSE EncodePoints([ok |-> TRUE, n |-> 128, delta |-> 0, bias |-> 72, handled |-> Len(basic), basic |-> Len(basic),
                       out |-> PunycodePrefix \o basic \o (IF basic = <<>> THEN <<>> ELSE <<Hyphen>>)], points)

PunycodeEncodeLabel(label) ==
    LET Result(s) == IF s.ok /\ Len(s.out) <= MaxLabel THEN Accepted(s.out) ELSE Refused
        Encoded(decoded) ==
            IF ~decoded.ok THEN Refused
            ELSE Result(EncodeLabel(decoded.points, Lower(SelectSeq(decoded.points, LAMBDA p : p < 128))))
    IN IF label = <<>> THEN Refused ELSE Encoded(CodePointsFrom(label, 1, <<>>))

\* NormalizeDnsHost; the labels are encoded one by one, the name may end with a dot.
NormalizeLabels(labels, end, capacity) ==
    LET Fits(out) == IF Len(out) <= MaxName /\ Len(out) < capacity THEN Accepted(out) ELSE Refused
        Whole(encoded) ==
            IF \E i \in 1 .. Len(encoded) : ~encoded[i].ok THEN Refused
            ELSE Fits(Join([i \in 1 .. Len(encoded) |-> encoded[i].text], <<Dot>>) \o end)
    IN Whole([i \in 1 .. Len(labels) |-> PunycodeEncodeLabel(labels[i])])

NormalizeDnsHost(host, capacity) ==
    LET Pieces(pieces) ==
            IF Len(pieces) > 1 /\ Last(pieces) = <<>> THEN <<Front(pieces), <<Dot>>>> ELSE <<pieces, <<>>>>
        Normalized(parts) == NormalizeLabels(parts[1], parts[2], capacity)
    IN Normalized(Pieces(Split(host, Dot)))

\* NormalizeDnsName
NormalizeDnsName(host, enableIdna, capacity) ==
    IF ContainsNonAscii(host) /\ ~enableIdna THEN Refused ELSE NormalizeDnsHost(host, capacity)

-----------------------------------------------------------------------------
\* Mutant: a wildcard stands for any number of labels.
BadHostNameMatches(pattern, host) ==
    IF Len(pattern) > 2 /\ pattern[1] = Star /\ pattern[2] = Dot
    THEN /\ Len(host) >= Len(pattern)
         /\ EqualsIgnoreCase(Suffix(pattern, Len(pattern) - 1), Suffix(host, Len(pattern) - 1))
    ELSE pattern # <<>> /\ host # <<>> /\ EqualsIgnoreCase(pattern, host)

HostNameMatches(pattern, host) ==
    LET suffixLength == Len(pattern) - 1
        free == Len(host) - suffixLength
    IN IF pattern = <<>> \/ host = <<>> THEN FALSE
       ELSE IF Len(pattern) > 2 /\ pattern[1] = Star /\ pattern[2] = Dot
       THEN /\ free > 0 /\ \A i \in 1 .. free : host[i] # Dot
            /\ EqualsIgnoreCase(Suffix(pattern, suffixLength), Suffix(host, suffixLength))
       ELSE EqualsIgnoreCase(pattern, host)

DnsNameMatchesSubtree(name, subtree) ==
    LET n == Len(subtree)
        ends == EqualsIgnoreCase(Suffix(name, n), subtree)
    IN /\ name # <<>> /\ subtree # <<>>
       /\ IF subtree[1] = Dot THEN Len(name) > n /\ ends
          ELSE \/ EqualsIgnoreCase(name, subtree)
               \/ Len(name) > n + 1 /\ name[Len(name) - n] = Dot /\ ends

NoAddress == <<>>

\* ParseIpv4Literal: the four numbers, NoAddress if there are not four.
ParseIpv4Literal(host) ==
    LET Value(part) == FoldLeft(LAMBDA v, c : IF v > 255 THEN v ELSE v * 10 + c - 48, 0, part)
        IsNumber(part) == part # <<>> /\ \A k \in 1 .. Len(part) : IsDecimalDigit(part[k])
        Numbers(parts) ==
            IF Len(parts) = 4 /\ \A i \in 1 .. 4 : IsNumber(parts[i]) THEN [i \in 1 .. 4 |-> Value(parts[i])] ELSE NoAddress
        Octets(numbers) == IF \A i \in 1 .. Len(numbers) : numbers[i] <= 255 THEN numbers ELSE NoAddress
    IN Octets(Numbers(Split(host, Dot)))

HexValue(c) ==
    CASE c \in 48 .. 57 -> c - 48 [] c \in 97 .. 102 -> c - 87 [] c \in 65 .. 70 -> c - 55 [] OTHER -> -1

\* The run of hexadecimal digits at i: its value and the position after it.
HexRun(text, i) ==
    LET Value(digits) == FoldLeft(LAMBDA v, c : v * 16 + HexValue(c), 0, digits)
        Until(end) ==
            [digits |-> end - i, next |-> end,
             value |-> Value(SubSeq(text, i, (IF end < i + GroupDigits THEN end ELSE i + GroupDigits) - 1))]
    IN Until(Min({j \in i .. Len(text) + 1 : j = Len(text) + 1 \/ HexValue(text[j]) < 0}))

\* The loop of ParseIpv6Literal; compress is where the groups of zeros are missing, -1 for nowhere.
RECURSIVE Ipv6From(_, _, _, _)
Ipv6From(text, i, groups, compress) ==
    LET Is(k, c) == k <= Len(text) /\ text[k] = c
        Fail == [ok |-> FALSE, groups |-> <<>>, compress |-> -1]
        Group(run, more) ==
            IF Len(groups) >= Ipv6Groups \/ run.digits = 0 \/ run.digits > GroupDigits THEN Fail
            ELSE IF run.next > Len(text) THEN [ok |-> TRUE, groups |-> more, compress |-> compress]
            ELSE IF text[run.next] # Colon THEN Fail
            ELSE IF Is(run.next + 1, Colon)
            THEN IF compress >= 0 THEN Fail ELSE Ipv6From(text, run.next + 2, more, Len(more))
            ELSE IF run.next = Len(text) THEN Fail ELSE Ipv6From(text, run.next + 1, more, compress)
        OfRun(run) == Group(run, Append(groups, run.value))
    IN IF i > Len(text) THEN [ok |-> TRUE, groups |-> groups, compress |-> compress]
       ELSE IF text[i] = Colon
       THEN IF ~Is(i + 1, Colon) \/ compress >= 0 THEN Fail ELSE Ipv6From(text, i + 2, groups, Len(groups))
       ELSE OfRun(HexRun(text, i))

\* An address is a sequence of octets.
GroupOctets(groups) ==
    [i \in 1 .. 2 * Len(groups) |->
        IF i % 2 = 1 THEN groups[(i + 1) \div 2] \div 256 ELSE groups[i \div 2] % 256]

ParseIpv6Literal(host) ==
    LET Filled(groups, compress, zeros) ==
            IF zeros < 0 \/ (zeros = 0) # (compress = -1) THEN NoAddress
            ELSE GroupOctets(IF zeros = 0 THEN groups
                             ELSE SubSeq(groups, 1, compress) \o [i \in 1 .. zeros |-> 0]
                                  \o SubSeq(groups, compress + 1, Len(groups)))
        Address(parsed) ==
            IF parsed.ok THEN Filled(parsed.groups, parsed.compress, Ipv6Groups - Len(parsed.groups)) ELSE NoAddress
        OfText(text) == IF text = <<>> THEN NoAddress ELSE Address(Ipv6From(text, 1, <<>>, -1))
    IN OfText(IF Len(host) >= 2 /\ host[1] = OpenBracket /\ Last(host) = CloseBracket
              THEN SubSeq(host, 2, Len(host) - 1) ELSE host)

ParseIpLiteral(host) ==
    LET Either(ipv4) == IF ipv4 # NoAddress THEN ipv4 ELSE ParseIpv6Literal(host) IN Either(ParseIpv4Literal(host))

\* ValidateHostName: a literal is only looked for among the addresses, a name among the names.
ValidateHostName(leaf, host) ==
    LET Certified(address) ==
            IF address # NoAddress THEN address \in Range(leaf.IpAddresses)
            ELSE \E i \in 1 .. Len(leaf.DnsNames) : HostNameMatches(leaf.DnsNames[i], host)
    IN host # <<>> /\ Certified(ParseIpLiteral(host))

-----------------------------------------------------------------------------
(***************************************************************************)
(* What these functions are to compute, by the documents that define it.   *)
(***************************************************************************)
\* The UTF-8 form of a code point (Unicode, table 3-6).
Utf8Of(point) ==
    CASE point < 128 -> <<point>>
      [] point \in 128 .. 2047 -> <<192 + point \div 64, 128 + (point % 64)>>
      [] point \in 2048 .. 65535 -> <<224 + point \div 4096, 128 + ((point \div 64) % 64), 128 + (point % 64)>>
      [] OTHER -> <<240 + point \div 262144, 128 + ((point \div 4096) % 64), 128 + ((point \div 64) % 64),
                    128 + (point % 64)>>
IsScalarValue(point) == point \in 0 .. MaxPoint /\ point \notin 55296 .. 57343

\* RFC 3492, 6.2: the code points of a label without its prefix.
PunycodeDigit(c) == IF IsDecimalDigit(c) THEN c - 48 + 26 ELSE ToLowerAscii(c) - 97

RECURSIVE Delta(_, _, _, _, _, _)
Delta(text, at, k, bias, i, weight) ==
    LET digit == PunycodeDigit(text[at])
        t == Threshold(k, bias)
    IN IF digit < t THEN [i |-> i + digit * weight, next |-> at + 1]
       ELSE Delta(text, at + 1, k + 36, bias, i + digit * weight, weight * (36 - t))

RECURSIVE DecodeFrom(_, _, _, _, _, _)
DecodeFrom(text, at, n, i, bias, output) ==
    LET Insert(d, size, place, point) ==
            DecodeFrom(text, d.next, point, place + 1, AdaptPunycodeBias(d.i - i, size, i = 0 /\ n = 128),
                       InsertAt(output, place + 1, point))
        Placed(d, size) == Insert(d, size, d.i % size, n + d.i \div size)
    IN IF at > Len(text) THEN output ELSE Placed(Delta(text, at, 36, bias, i, 1), Len(output) + 1)

PunycodeDecode(text) ==
    LET hyphens == {i \in 1 .. Len(text) : text[i] = Hyphen}
        b == IF hyphens = {} THEN 0 ELSE Max(hyphens)
    IN DecodeFrom(text, b + 1, 128, 0, 72, SubSeq(text, 1, b - 1))

\* RFC 6125, 6.4.3: labels match one to one, a star before others stands for one label.
NameMatchesByLabels(pattern, host) ==
    LET p == Split(Lower(pattern), Dot)
        h == Split(Lower(host), Dot)
    IN /\ pattern # <<>> /\ Len(p) = Len(h)
       /\ p = h \/ (Len(pattern) > 2 /\ p[1] = <<Star>> /\ h[1] # <<>> /\ Tail(p) = Tail(h))

\* RFC 4291, 2.2, its first two forms: groups, "::" once in place of one or more of them.
GroupTexts(text) == IF text = <<>> THEN <<>> ELSE Split(text, Colon)
AreGroups(pieces) ==
    \A i \in 1 .. Len(pieces) :
        Len(pieces[i]) \in 1 .. GroupDigits /\ \A k \in 1 .. Len(pieces[i]) : HexValue(pieces[i][k]) >= 0
Values(pieces) == [i \in 1 .. Len(pieces) |-> HexRun(pieces[i], 1).value]
Zeros(n) == [i \in 1 .. n |-> <<48>>]
Ipv6Addresses(text) ==
    LET whole == {pieces \in {GroupTexts(text)} : Len(pieces) = Ipv6Groups}
        compressed ==
            {GroupTexts(SubSeq(text, 1, i - 1)) \o Zeros(n) \o GroupTexts(SubSeq(text, i + 2, Len(text))) :
                i \in {j \in 1 .. Len(text) - 1 : text[j] = Colon /\ text[j + 1] = Colon}, n \in 1 .. Ipv6Groups}
    IN {GroupOctets(Values(pieces)) :
           pieces \in {p \in whole \cup compressed : Len(p) = Ipv6Groups /\ AreGroups(p)}}

\* Its third form: the last two groups written as an IPv4 address.
IsDottedQuad(text) ==
    LET pieces == Split(text, Dot)
        Value(piece) == FoldLeft(LAMBDA v, c : v * 10 + c - 48, 0, piece)
    IN /\ Len(pieces) = 4
       /\ \A i \in 1 .. 4 : /\ Len(pieces[i]) \in 1 .. 3 /\ \A k \in 1 .. Len(pieces[i]) : IsDecimalDigit(pieces[i][k])
                           /\ Value(pieces[i]) <= 255
IsMixedForm(text) ==
    \E i \in 1 .. Len(text) :
        /\ text[i] = Colon /\ IsDottedQuad(SubSeq(text, i + 1, Len(text)))
        /\ Ipv6Addresses(SubSeq(text, 1, i) \o <<48, Colon, 48>>) # {}

\* A label of these code points goes through UTF-8 and Punycode unharmed.  The encoder refuses
\* U+10FFFF, a scalar value: it cannot tell it from having found no next code point.
LabelRight(points) ==
    LET lower == [i \in 1 .. Len(points) |-> ToLowerAscii(points[i])]
        Encoded(label) ==
            /\ label.ok = \A i \in 1 .. Len(points) : IsScalarValue(points[i]) /\ points[i] # MaxPoint
            /\ label.ok => PunycodeDecode(SubSeq(label.text, 5, Len(label.text))) = lower
    IN (\E i \in 1 .. Len(points) : points[i] >= 128) =>
            Encoded(PunycodeEncodeLabel(FlattenSeq([i \in 1 .. Len(points) |-> Utf8Of(points[i])])))

\* An address is read as the first two forms say; the third form, which is one too, is refused.
Ipv6Right(text) ==
    {a \in {ParseIpv6Literal(text)} : a # NoAddress} = IF IsMixedForm(text) THEN {} ELSE Ipv6Addresses(text)

MatchRight(pattern, host) ==
    pattern # <<Star, Dot>> => HostNameMatches(pattern, host) = NameMatchesByLabels(pattern, host)
=============================================================================
