-------------------------------- MODULE Urls ---------------------------------
(***************************************************************************)
(* URLs: how a request's URL is taken apart (engine/UrlParser.cpp) and how *)
(* the Location of a redirect is made into the next one                    *)
(* (engine/HttpEngine.cpp).  A request is its Url, as the caller gave it,  *)
(* and what is parsed from it: Scheme, Host, Port, Path.                   *)
(***************************************************************************)
EXTENDS Names, TLC

CONSTANTS
    HostCapacity,     \* sizeof(KhRequest::Host)
    MaxPathLength,    \* KhMaxPathLength
    UrlCapacity       \* the workspace buffer a redirect's URL is built in

Slash == 47
Question == 63
Hash == 35
Percent == 37
AtSign == 64

TextHttp == <<104, 116, 116, 112>>
TextHttps == TextHttp \o <<115>>
TextWs == <<119, 115>>
TextWss == TextWs \o <<115>>
SchemeMark == <<Colon, Slash, Slash>>

UrlTextContainsChar(text, c) == \E i \in 1 .. Len(text) : text[i] = c

\* FindRedirectChar: the first position of a character of S, one past the end if there is none.
FindChar(text, S) ==
    Min({i \in 1 .. Len(text) + 1 : i = Len(text) + 1 \/ text[i] \in S})

From(text, i) == SubSeq(text, i, Len(text))
Before(text, i) == SubSeq(text, 1, i - 1)

RECURSIVE IsValidRequestTargetText(_)
IsValidRequestTargetText(text) ==
    \/ text = <<>>
    \/ /\ text[1] > 32 /\ text[1] # 127
       /\ IF text[1] # Percent THEN IsValidRequestTargetText(Tail(text))
          ELSE /\ Len(text) >= 3 /\ HexValue(text[2]) >= 0 /\ HexValue(text[3]) >= 0
               /\ IsValidRequestTargetText(From(text, 4))

IsValidHostText(text, ipv6Literal) ==
    /\ text # <<>>
    /\ \A i \in 1 .. Len(text) :
        /\ text[i] > 32 /\ text[i] \notin {127, Percent}
        /\ IF ipv6Literal THEN text[i] < 128 ELSE text[i] \notin {OpenBracket, CloseBracket}

AuthorityContainsUserInfo(authority) == UrlTextContainsChar(authority, AtSign)

CopyLowerText(source, capacity) ==
    IF source = <<>> \/ Len(source) >= capacity THEN Refused ELSE Accepted(Lower(source))

CopyNormalizedHostText(source, ipv6Literal, capacity) ==
    IF ipv6Literal THEN CopyLowerText(source, capacity) ELSE NormalizeDnsHost(source, capacity)

\* ParsePort; 0 is no port.
ParsePort(text) ==
    LET Port(value) == IF value > 65535 THEN 0 ELSE value
    IN Port(FoldLeft(LAMBDA v, c : IF v > 65535 \/ ~IsDecimalDigit(c) THEN 65536 ELSE v * 10 + c - 48, 0, text))

\* Host and port of an authority: both parsers' branches for a bracketed and a bare host.
Authority(ok, host, ipv6, port, given) == [ok |-> ok, host |-> host, ipv6 |-> ipv6, port |-> port, given |-> given]

SplitAuthority(text) ==
    LET Bracketed(bracket, host, after) ==
            Authority(/\ bracket \in 3 .. Len(text) /\ UrlTextContainsChar(host, Colon)
                      /\ after # <<>> => after[1] = Colon,
                      host, TRUE, From(after, 2), after # <<>>)
        Closed(bracket) == Bracketed(bracket, SubSeq(text, 2, bracket - 1), From(text, bracket + 1))
        Bare(pieces) == Authority(Len(pieces) <= 2, pieces[1], FALSE, Last(pieces), Len(pieces) = 2)
    IN IF text[1] = OpenBracket THEN Closed(FindChar(text, {CloseBracket})) ELSE Bare(Split(text, Colon))

\* The request target: the part up to the fragment, with a slash if it has no path.
RequestTarget(rest) ==
    LET Absolute(target) ==
            IF target = <<>> THEN <<Slash>> ELSE IF target[1] = Question THEN <<Slash>> \o target ELSE target
    IN Absolute(Before(rest, FindChar(rest, {Hash})))

NoUrl == [ok |-> FALSE]

\* The steps both parsers share: what stands between the scheme and the path, ...
ParseAuthority(authority, defaultPort) ==
    LET Parsed(a, port, host) ==
            IF a.ok /\ IsValidHostText(a.host, a.ipv6) /\ port # 0 /\ host.ok
            THEN [ok |-> TRUE, Host |-> host.text, Port |-> port] ELSE NoUrl
        Parts(a) == Parsed(a, IF a.given THEN ParsePort(a.port) ELSE defaultPort,
                           CopyNormalizedHostText(a.host, a.ipv6, HostCapacity))
    IN IF authority = <<>> \/ AuthorityContainsUserInfo(authority) THEN NoUrl ELSE Parts(SplitAuthority(authority))

\* ... and the whole; secure is the scheme whose port is 443.
ParseUrl(url, schemes, secure, pathLimit) ==
    LET Parsed(scheme, a, target) ==
            IF a.ok /\ Len(target) <= pathLimit /\ IsValidRequestTargetText(target)
            THEN [ok |-> TRUE, Scheme |-> scheme, Host |-> a.Host, Port |-> a.Port, Path |-> target] ELSE NoUrl
        Parts(scheme, rest, end) ==
            IF scheme \notin schemes THEN NoUrl
            ELSE Parsed(scheme, ParseAuthority(Before(rest, end), IF scheme = secure THEN 443 ELSE 80),
                        RequestTarget(From(rest, end)))
        AfterScheme(scheme, rest) == Parts(scheme, rest, FindChar(rest, {Slash, Question, Hash}))
        WithScheme(schemeEnd) ==
            IF schemeEnd = 1 \/ SubSeq(url, schemeEnd, schemeEnd + 2) # SchemeMark THEN NoUrl
            ELSE AfterScheme(Lower(Before(url, schemeEnd)), From(url, schemeEnd + 3))
    IN WithScheme(FindChar(url, {Colon}))

ParseUrlIntoRequest(url) == ParseUrl(url, {TextHttp, TextHttps}, TextHttps, MaxPathLength)

\* ParseUrlParts; the callers' path buffer has room for a path of MaxPathLength and a zero.
ParseUrlParts(url, websocketUrl) ==
    ParseUrl(url, IF websocketUrl THEN {TextWs, TextWss} ELSE {TextHttp, TextHttps},
             IF websocketUrl THEN TextWss ELSE TextHttps, MaxPathLength)

-----------------------------------------------------------------------------
RECURSIVE DecimalText(_)
DecimalText(n) == IF n < 10 THEN <<48 + n>> ELSE Append(DecimalText(n \div 10), 48 + (n % 10))

IsDefaultPort(r) == (r.Scheme = TextHttp /\ r.Port = 80) \/ (r.Scheme = TextHttps /\ r.Port = 443)

BuildHostHeaderValue(r, capacity) ==
    LET host == IF UrlTextContainsChar(r.Host, Colon) THEN <<OpenBracket>> \o r.Host \o <<CloseBracket>> ELSE r.Host
        InRoom(value) == IF r.Host = <<>> \/ Len(value) >= capacity THEN Refused ELSE Accepted(value)
    IN InRoom(host \o (IF IsDefaultPort(r) THEN <<>> ELSE <<Colon>> \o DecimalText(r.Port)))

TrimRedirectLocation(location) ==
    LET kept == {i \in 1 .. Len(location) : location[i] \notin {32, 9}}
    IN IF kept = {} THEN <<>> ELSE SubSeq(location, Min(kept), Max(kept))

StartsWithIgnoreCase(text, prefix) ==
    Len(text) >= Len(prefix) /\ EqualsIgnoreCase(SubSeq(text, 1, Len(prefix)), prefix)

IsAbsoluteHttpLocation(location) ==
    \/ StartsWithIgnoreCase(location, TextHttp \o SchemeMark)
    \/ StartsWithIgnoreCase(location, TextHttps \o SchemeMark)

IsUriSchemeChar(c, first) == IsAsciiAlpha(c) \/ (~first /\ (IsDecimalDigit(c) \/ c \in {43, Hyphen, Dot}))

HasUriScheme(location) ==
    LET EndsAt(end) == /\ end <= Len(location) /\ location[end] = Colon
                       /\ \A i \in 1 .. end - 1 : IsUriSchemeChar(location[i], i = 1)
    IN EndsAt(Min({i \in 1 .. Len(location) + 1 :
                      \/ i = Len(location) + 1
                      \/ location[i] \in {Slash, Question, Hash}
                      \/ location[i] = Colon /\ i # 1}))

IsSchemeRelativeLocation(location) ==
    Len(location) >= 2 /\ location[1] = Slash /\ location[2] = Slash

\* Mutant: the slash that ends the path counts as the one before the last segment.
BadRemovePreviousRedirectPathSegment(path) ==
    LET slashes == {i \in 1 .. Len(path) : path[i] = Slash}
    IN IF path = <<>> THEN path
       ELSE IF slashes = {} THEN <<Slash>> ELSE SubSeq(path, 1, Max(slashes))

RemovePreviousRedirectPathSegment(path) ==
    LET end == IF Len(path) > 1 /\ Last(path) = Slash THEN Len(path) - 1 ELSE Len(path)
        UpTo(slashes) == IF slashes = {} THEN <<Slash>> ELSE SubSeq(path, 1, Max(slashes))
    IN IF path = <<>> THEN path ELSE UpTo({i \in 1 .. end : path[i] = Slash})

\* RemoveRedirectDotSegments: rest is still to be read, path is what is kept.
RECURSIVE DotSegmentsFrom(_, _)
DotSegmentsFrom(rest, path) ==
    LET Segment(segment, end) ==
            IF segment = <<Dot>> THEN DotSegmentsFrom(From(rest, end + 1), path)
            ELSE IF segment = <<Dot, Dot>>
            THEN DotSegmentsFrom(From(rest, end + 1), RemovePreviousRedirectPathSegment(path))
            ELSE DotSegmentsFrom(From(rest, end), path \o segment)
        UpTo(end) == Segment(Before(rest, end), end)
    IN IF rest = <<>> THEN path
       ELSE IF rest[1] = Slash THEN DotSegmentsFrom(Tail(rest), Append(path, Slash))
       ELSE UpTo(FindChar(rest, {Slash}))

RemoveRedirectDotSegments(path) ==
    LET Kept(kept) == IF path # <<>> /\ kept = <<>> THEN <<Slash>> ELSE kept IN Kept(DotSegmentsFrom(path, <<>>))

BaseRequestFragment(r) == From(r.Url, FindChar(r.Url, {Hash}))

AppendRedirectOrigin(r) == r.Scheme \o SchemeMark \o BuildHostHeaderValue(r, UrlCapacity).text

SplitRedirectReference(location) ==
    LET Parts(bare, queryAt, fragment) == [path |-> Before(bare, queryAt), query |-> From(bare, queryAt), fragment |-> fragment]
        Bare(bare, fragment) == Parts(bare, FindChar(bare, {Question}), fragment)
        UpTo(fragmentAt) == Bare(Before(location, fragmentAt), From(location, fragmentAt))
    IN UpTo(FindChar(location, {Hash}))

Directory(path) ==
    LET UpTo(slashes) == IF slashes = {} THEN <<Slash>> ELSE SubSeq(path, 1, Max(slashes))
    IN UpTo({i \in 1 .. Len(path) : path[i] = Slash})

AppendRedirectPathAndSuffix(r, location) ==
    LET Merged(ref, queryAt) ==
            RemoveRedirectDotSegments(IF ref.path = <<>> THEN Before(r.Path, queryAt)
                                      ELSE IF ref.path[1] = Slash THEN ref.path
                                      ELSE Directory(Before(r.Path, queryAt)) \o ref.path)
            \o (IF ref.query = <<>> /\ ref.path = <<>> THEN From(r.Path, queryAt) ELSE ref.query)
            \o (IF ref.fragment = <<>> THEN BaseRequestFragment(r) ELSE ref.fragment)
    IN Merged(SplitRedirectReference(location), FindChar(r.Path, {Question}))

\* AppendRedirectText refuses what does not fit.
Fits(text) == IF Len(text) > UrlCapacity THEN Refused ELSE Accepted(text)

BuildRedirectUrl(r, given) ==
    LET Origin(host, location) ==
            IF ~host.ok THEN Refused
            ELSE Fits(r.Scheme \o SchemeMark \o host.text \o AppendRedirectPathAndSuffix(r, location))
        Located(location) ==
            IF location = <<>> THEN Refused
            ELSE IF IsAbsoluteHttpLocation(location)
            THEN Fits(IF UrlTextContainsChar(location, Hash) THEN location ELSE location \o BaseRequestFragment(r))
            ELSE IF HasUriScheme(location) THEN Refused
            ELSE IF IsSchemeRelativeLocation(location) THEN Fits(r.Scheme \o <<Colon>> \o location)
            ELSE Origin(BuildHostHeaderValue(r, UrlCapacity), location)
    IN Located(TrimRedirectLocation(given))

-----------------------------------------------------------------------------
(***************************************************************************)
(* RFC 3986, 5.2: the target of a reference that has neither a scheme nor  *)
(* an authority, written with lists of segments.                           *)
(***************************************************************************)
\* 5.2.4: what a list of segments comes to; "." and ".." at the end leave an empty one.
RECURSIVE Resolved(_, _)
Resolved(segments, kept) ==
    IF segments = <<>> THEN kept
    ELSE LET s == Head(segments)
             dots == s \in {<<Dot>>, <<Dot, Dot>>}
             back == IF s = <<Dot, Dot>> /\ kept # <<>> THEN Front(kept) ELSE kept
         IN IF ~dots THEN Resolved(Tail(segments), Append(kept, s))
            ELSE IF Len(segments) = 1 THEN Append(back, <<>>) ELSE Resolved(Tail(segments), back)

RemoveDotSegments(path) == <<Slash>> \o Join(Resolved(Tail(Split(path, Slash)), <<>>), <<Slash>>)

\* 5.2.2 and 5.2.3; the base path is never empty, and normalised (5.2.1 leaves that open).
ReferenceTarget(r, location) ==
    LET Merged(base, path) == Join(Front(Split(base, Slash)), <<Slash>>) \o <<Slash>> \o path
        Target(ref, base) ==
            RemoveDotSegments(IF ref.path = <<>> THEN base.path
                              ELSE IF ref.path[1] = Slash THEN ref.path ELSE Merged(base.path, ref.path))
            \o (IF ref.path = <<>> /\ ref.query = <<>> THEN base.query ELSE ref.query)
    IN Target(SplitRedirectReference(location), SplitRedirectReference(r.Path))

\* The URL a relative Location leads to is the one RFC 3986 says, if it is short enough to be requested.
RequestOf(url) == ParseUrlIntoRequest(url) @@ [Url |-> url]
ReferenceRight(url, location) ==
    LET Leads(r, next, parsed, target) ==
            IF Len(target) > MaxPathLength THEN ~parsed.ok
            ELSE /\ next.ok /\ parsed = [ok |-> TRUE, Scheme |-> r.Scheme, Host |-> r.Host, Port |-> r.Port, Path |-> target]
                 /\ BaseRequestFragment([Url |-> next.text])
                    = IF UrlTextContainsChar(location, Hash) THEN From(location, FindChar(location, {Hash}))
                      ELSE BaseRequestFragment(r)
        Next(r, next) == Leads(r, next, ParseUrlIntoRequest(next.text), ReferenceTarget(r, location))
        Requested(r) == Next(r, BuildRedirectUrl(r, location))
    IN location # <<>> /\ ~IsSchemeRelativeLocation(location) => Requested(RequestOf(url))

\* What is read from a URL, written down again, is read the same way; so is a WebSocket's.
AuthorityRight(authority) ==
    LET rest == SchemeMark \o authority \o <<Question, 97>>
        Same(u, v) == u.ok /\ u.Host = v.Host /\ u.Port = v.Port /\ u.Path = v.Path
        Both(r, w) ==
            IF r.ok THEN Same(w, r) /\ Same(ParseUrlIntoRequest(AppendRedirectOrigin(r) \o r.Path), r) ELSE ~w.ok
    IN Both(RequestOf(TextHttp \o rest), ParseUrlParts(TextWs \o rest, TRUE))
=============================================================================
