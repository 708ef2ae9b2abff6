------------------------------ MODULE Requests -------------------------------
(***************************************************************************)
(* A request handle (engine/Engine.cpp), the copy of it that a send works  *)
(* on, and the redirects a send follows (engine/HttpEngine.cpp).           *)
(*                                                                         *)
(* A text is a sequence of symbols; what Body points to is "null", the     *)
(* caller's buffer ("borrowed") or a generation of the request's own       *)
(* buffer ("owned").  URLs are their targets: how a Location becomes a URL *)
(* is in Urls.  An allocation may fail: short names the one that does.     *)
(***************************************************************************)
EXTENDS Integers, Sequences, FiniteSets

CONSTANTS
    Targets,           \* records scheme, host, port
    ServerNames,       \* TLS server names a caller may give
    MaxHeaders,        \* KhMaxHeadersPerRequest
    InitialCapacity,   \* KhInitialOwnedBodyCapacity
    MaxRedirects,      \* KhDefaultMaxRedirects
    MaxCalls           \* bound: calls that change the request

ASSUME RequestAssumption ==
    /\ \A t \in Targets : t.scheme \in {"http", "https"}
    /\ {MaxHeaders, MaxRedirects, MaxCalls} \subseteq Nat /\ InitialCapacity \in Nat \ {0}

VARIABLES
    request,  \* the caller's KhRequest
    buffer,   \* the memory the caller gave to SetBody
    meant,    \* the body the last call that sets one asked for, and what that call returned
    calls,    \* calls made
    sending,  \* the send in progress
    wire      \* the request written last

requestVars == <<request, buffer, meant, calls, sending, wire>>

Sensitive == {"Authorization", "Cookie", "Proxy-Authorization"}
NullName == "null"
OwnHost == "own host"    \* Tls.ServerName points to the request's Host

\* KhHttpRequestCreate
NewRequest ==
    [Method |-> "GET", Url |-> {}, HasTlsOverride |-> FALSE, ServerName |-> NullName, Headers |-> <<>>, Trailers |-> <<>>,
     BodyMode |-> "ContentLength", Body |-> "null", BodyGeneration |-> 0, BodyLength |-> 0, HasBody |-> FALSE,
     OwnedBody |-> <<>>, OwnedBodyCapacity |-> 0, Generation |-> 0, BodyBuildCounter |-> 0]

Host(r) == (CHOOSE t \in r.Url : TRUE).host
\* What the bytes at Body are; a dangling or too short buffer shows as "?".
Content(r, borrowed) ==
    CASE r.BodyLength = 0 -> <<>>
      [] r.BodyLength # 0 /\ r.Body = "borrowed" -> borrowed
      [] r.BodyLength # 0 /\ r.Body = "owned" /\ r.BodyGeneration = r.Generation /\ r.BodyLength <= Len(r.OwnedBody) ->
            SubSeq(r.OwnedBody, 1, r.BodyLength)
      [] OTHER -> <<"?">>

-----------------------------------------------------------------------------
(***************************************************************************)
(* The request's own buffer.  A result is a status and the request.        *)
(***************************************************************************)
Result(status, r) == [status |-> status, r |-> r]
NoMemory == "no memory"

ReleaseOwnedBody(r) ==
    [r EXCEPT !.OwnedBody = <<>>, !.OwnedBodyCapacity = 0, !.Generation = @ + 1, !.Body = "null", !.BodyLength = 0,
              !.HasBody = FALSE]
ResetOwnedBodyContent(r) == [r EXCEPT !.OwnedBody = <<>>, !.HasBody = FALSE]
AbortOwnedBodyBuild(r) == [ResetOwnedBodyContent(r) EXCEPT !.Body = "null", !.BodyLength = 0]

\* Body = OwnedBody, whatever is there.
PointAtOwned(r) ==
    [r EXCEPT !.Body = IF r.OwnedBodyCapacity = 0 THEN "null" ELSE "owned", !.BodyGeneration = r.Generation,
              !.BodyLength = Len(r.OwnedBody), !.HasBody = TRUE]

BeginOwnedBodyBuild(r) == PointAtOwned(ResetOwnedBodyContent(r))

\* The loop's first round reaches what is required.
Doubled(capacity, required) ==
    IF capacity >= required THEN capacity
    ELSE IF 2 * capacity < required THEN required ELSE 2 * capacity

EnsureOwnedBodyCapacity(r, required, short) ==
    LET first == IF r.OwnedBodyCapacity = 0 THEN InitialCapacity ELSE r.OwnedBodyCapacity
    IN IF required <= r.OwnedBodyCapacity THEN Result("success", r)
       ELSE IF short = "body" THEN Result(NoMemory, r)
       ELSE Result("success", PointAtOwned([r EXCEPT !.OwnedBodyCapacity = Doubled(first, required),
                                                     !.Generation = @ + 1]))

AppendOwnedBody(r, data, short) ==
    LET grown == EnsureOwnedBodyCapacity(r, Len(r.OwnedBody) + Len(data), short)
    IN IF data = <<>> THEN Result("success", PointAtOwned(r))
       ELSE IF grown.status # "success" THEN grown
       ELSE Result("success", PointAtOwned([grown.r EXCEPT !.OwnedBody = @ \o data]))

\* The next piece, unless one before it failed.
AppendNext(built, data, short) ==
    IF built.status # "success" THEN built ELSE AppendOwnedBody(built.r, data, short)

\* AppendFileToOwnedBody: the file may be missing, or a read may fail after room was made.
AppendFileToOwnedBody(r, data, file, short) ==
    LET grown == EnsureOwnedBodyCapacity(r, Len(r.OwnedBody) + Len(data), short)
    IN IF file = "missing" THEN Result("not found", r)
       ELSE IF grown.status # "success" THEN grown
       ELSE IF file = "unreadable" THEN Result("unsuccessful", grown.r)
       ELSE Result("success", PointAtOwned([grown.r EXCEPT !.OwnedBody = @ \o data]))

-----------------------------------------------------------------------------
\* Headers and trailers.
AddStoredHeader(r, name, value, short) ==
    IF Len(r.Headers) >= MaxHeaders \/ short = "header" THEN Result(NoMemory, r)
    ELSE Result("success", [r EXCEPT !.Headers = Append(@, [Name |-> name, Value |-> value])])

IsForbiddenRequestTrailerField(name) == name \in Sensitive \cup {"Content-Length", "Transfer-Encoding", "Host", "Set-Cookie"}
AddStoredTrailer(r, name, short) ==
    IF IsForbiddenRequestTrailerField(name) THEN Result("not supported", r)
    ELSE IF Len(r.Trailers) >= MaxHeaders \/ short = "header" THEN Result(NoMemory, r)
    ELSE Result("success", [r EXCEPT !.Trailers = Append(@, name)])

\* The entries of an array at the places to keep, moved together.
Compact(s, keep) ==
    [k \in 1 .. Cardinality(keep) |-> s[CHOOSE i \in keep : Cardinality({j \in keep : j <= i}) = k]]

Without(headers, names) == Compact(headers, {i \in DOMAIN headers : headers[i].Name \notin names})

RemoveStoredHeadersByName(r, name) == [r EXCEPT !.Headers = Without(@, {name})]
ReplaceContentType(r, type, short) ==
    AddStoredHeader(RemoveStoredHeadersByName(r, "Content-Type"), "Content-Type", type, short)

-----------------------------------------------------------------------------
(***************************************************************************)
(* The setters.                                                            *)
(***************************************************************************)
SetUrl(r, t) ==
    [r EXCEPT !.Url = {t}, !.ServerName = IF ~r.HasTlsOverride /\ t.scheme = "https" THEN OwnHost ELSE @]

\* SetBody: the caller's buffer, until the send is over.
SetBody(r, length) ==
    [ReleaseOwnedBody(r) EXCEPT !.Body = "borrowed", !.BodyLength = length, !.HasBody = TRUE]

ClearBody(r) == RemoveStoredHeadersByName(ReleaseOwnedBody(r), "Content-Type")

\* A built body gets its Content-Type; a body that could not be built is dropped.  When the new
\* Content-Type cannot be stored the call fails with the body set and no Content-Type.
Typed(built, type, short) ==
    IF built.status # "success" THEN Result(built.status, AbortOwnedBodyBuild(built.r))
    ELSE IF type = "keep" THEN built ELSE ReplaceContentType(built.r, type, short)

SetTextBody(r, text, short) == Typed(AppendOwnedBody(BeginOwnedBodyBuild(r), text, short), "text", short)
SetRawBody(r, data, type, short) == Typed(AppendOwnedBody(BeginOwnedBodyBuild(r), data, short), type, short)
\* One pair; further ones are appended in the same way.
SetUrlEncodedBody(r, name, value, short) ==
    LET named == AppendOwnedBody(BeginOwnedBodyBuild(r), name, short)
        assigned == AppendNext(named, <<"=">>, short)
    IN Typed(AppendNext(assigned, value, short), "form", short)
SetFileBody(r, data, file, short) == Typed(AppendFileToOwnedBody(BeginOwnedBodyBuild(r), data, file, short), "file", short)

\* GenerateMultipartBoundary: a boundary is the value of the counter.
Boundary(n) == IF n = 1 THEN "boundary 1" ELSE IF n = 2 THEN "boundary 2" ELSE "boundary 3"
GenerateMultipartBoundary(r) == [r EXCEPT !.BodyBuildCounter = @ + 1]
AppendMultipartPartHeader(r, boundary, short) == AppendOwnedBody(r, <<boundary>>, short)
\* The text is put together first: without memory for it the earlier Content-Type stays.
SetMultipartContentType(r, boundary, short) ==
    IF short = "type" THEN Result(NoMemory, r) ELSE ReplaceContentType(r, boundary, short)
SetMultipartFormDataBody(r, file, short) ==
    LET begun == GenerateMultipartBoundary(BeginOwnedBodyBuild(r))
        boundary == Boundary(begun.BodyBuildCounter)
        part == AppendMultipartPartHeader(begun, boundary, short)
        filled == IF part.status # "success" THEN part ELSE AppendFileToOwnedBody(part.r, <<"f">>, file, short)
        closed == AppendNext(filled, <<boundary>>, short)
    IN IF closed.status # "success" THEN Result(closed.status, AbortOwnedBodyBuild(closed.r))
       ELSE SetMultipartContentType(closed.r, boundary, short)

SetTlsOptions(r, name) == [r EXCEPT !.ServerName = name, !.HasTlsOverride = TRUE]

-----------------------------------------------------------------------------
\* Mutant: the copy points at the caller's body.
BadCloneRequestForAsync(r, short) ==
    IF short = "header" THEN Result(NoMemory, r) ELSE Result("success", r)

(***************************************************************************)
(* CloneRequestForAsync: a copy that shares no memory with the caller's.   *)
(***************************************************************************)
CloneRequestForAsync(r, short) ==
    LET bare == [NewRequest EXCEPT !.Method = r.Method, !.Url = r.Url, !.HasTlsOverride = r.HasTlsOverride,
                                   !.ServerName = r.ServerName, !.BodyMode = r.BodyMode]
        bodied == IF r.HasBody /\ r.BodyLength # 0
                  THEN AppendOwnedBody(BeginOwnedBodyBuild(bare), Content(r, buffer), short)
                  ELSE Result("success", [bare EXCEPT !.HasBody = r.HasBody])
    IN IF bodied.status # "success" \/ short = "header" THEN Result(NoMemory, r)
       ELSE Result("success", [bodied.r EXCEPT !.Headers = r.Headers, !.Trailers = r.Trailers])

-----------------------------------------------------------------------------
(***************************************************************************)
(* Redirects.                                                              *)
(***************************************************************************)
IsRedirectStatus(code) == code \in {301, 302, 303, 307, 308}
ShouldRewriteRedirectToGet(code, method) ==
    IF code = 303 THEN method # "HEAD" ELSE code \in {301, 302} /\ method = "POST"
\* Mutant: another port of the same host counts as the same origin.
BadIsCrossOriginRedirect(old, new) == old.host # new.host
IsCrossOriginRedirect(old, new) == old # new
IsHttpsDowngradeRedirect(old, new) == old.scheme = "https" /\ new.scheme = "http"
RemoveRedirectSensitiveHeaders(r) == [r EXCEPT !.Headers = Without(@, Sensitive)]

\* The name in the TLS options, where it is one.
ServerName(r) == IF r.ServerName \in {NullName, OwnHost} THEN Host(r) ELSE r.ServerName

\* The request at its new target; at another origin without credentials and with that host's name.
MoveTo(r, old, new) ==
    LET there == SetUrl(r, new)
        own == IF new.scheme = "https" THEN [there EXCEPT !.ServerName = OwnHost] ELSE there
    IN IF IsCrossOriginRedirect(old, new) THEN RemoveRedirectSensitiveHeaders(own) ELSE there

RewriteToGet(r) == ClearBody([r EXCEPT !.Method = "GET"])

\* ApplyRedirectToRequest; location is the target the Location header leads to, or none it can be sent to.
ApplyRedirectToRequest(r, code, location) ==
    LET old == CHOOSE t \in r.Url : TRUE
        new == CHOOSE t \in location : TRUE
        \* The name a caller gave stays with the old host.
        refused == IsCrossOriginRedirect(old, new) /\ r.HasTlsOverride /\ ServerName(r) # old.host
    IN IF location = {} THEN Result("invalid parameter", r)
       ELSE IF IsHttpsDowngradeRedirect(old, new) THEN Result("not supported", r)
       ELSE IF refused THEN Result("not supported", SetUrl(r, new))
       ELSE IF ShouldRewriteRedirectToGet(code, r.Method)
       THEN Result("success", RewriteToGet(MoveTo(r, old, new)))
       ELSE Result("success", MoveTo(r, old, new))

\* BuildHttpRequestOptions and what the builder refuses: a header or trailers that need chunked framing.
BuildHttpRequestOptions(r) ==
    LET chunked == r.BodyMode = "Chunked" /\ (r.BodyLength # 0 \/ r.HasBody)
    IN IF (\E i \in 1 .. Len(r.Headers) : r.Headers[i].Name \in {"Host", "Content-Length", "Connection"})
       THEN "invalid parameter"
       ELSE IF r.Trailers # <<>> /\ ~chunked THEN "not supported" ELSE "success"

\* What goes out.
Written(r) ==
    [method |-> r.Method, target |-> CHOOSE t \in r.Url : TRUE, headers |-> r.Headers, trailers |-> r.Trailers,
     body |-> Content(r, buffer), name |-> ServerName(r), own |-> ~r.HasTlsOverride]

-----------------------------------------------------------------------------
NotSending == [phase |-> "idle", async |-> FALSE, cloned |-> FALSE, current |-> NewRequest,
               first |-> <<>>, redirects |-> 0, rewritten |-> FALSE, status |-> "none"]
NothingWritten == <<>>
NoBody == [body |-> <<>>, status |-> "success"]

Init ==
    /\ \E t \in Targets, mode \in {[method |-> "POST", body |-> "Chunked"], [method |-> "HEAD", body |-> "ContentLength"]} :
        request = [SetUrl(NewRequest, t) EXCEPT !.Method = mode.method, !.BodyMode = mode.body]
    /\ buffer = <<"a">> /\ meant = NoBody /\ calls = 0 /\ sending = NotSending /\ wire = NothingWritten

\* The caller has the request to itself unless a synchronous send has not returned.
MayCall == calls < MaxCalls /\ (sending.phase = "idle" \/ sending.async)
Called(r, last) == MayCall /\ request' = r /\ meant' = last /\ calls' = calls + 1 /\ UNCHANGED <<buffer, sending, wire>>
CalledFor(result, body) == Called(result.r, [body |-> body, status |-> result.status])

KhHttpRequestSetUrl == \E t \in Targets : request.Url # {t} /\ Called(SetUrl(request, t), meant)
KhHttpRequestSetMethod == \E m \in {"GET", "POST"} : request.Method # m /\ Called([request EXCEPT !.Method = m], meant)
KhHttpRequestSetHeader ==
    \E name \in {"Authorization", "X"} : Called(AddStoredHeader(request, name, "v", "none").r, meant)
KhHttpRequestSetBody == CalledFor(Result("success", SetBody(request, Len(buffer))), buffer)
KhHttpRequestSetBodyMode ==
    \E mode \in {"ContentLength", "Chunked"} : request.BodyMode # mode /\ Called([request EXCEPT !.BodyMode = mode], meant)
KhHttpRequestAddTrailer == Called(AddStoredTrailer(request, "T", "none").r, meant)
KhHttpRequestClearBody == CalledFor(Result("success", ClearBody(request)), <<>>)
KhHttpRequestSetTextBody ==
    \E text \in {<<>>, <<"t", "t">>}, short \in {"none", "body", "header"} :
        CalledFor(SetTextBody(request, text, short), text)
KhHttpRequestSetRawBody ==
    \E type \in {"keep", "raw"}, short \in {"none", "body", "header"} :
        CalledFor(SetRawBody(request, <<"r">>, type, short), <<"r">>)
KhHttpRequestSetUrlEncodedBody ==
    \E short \in {"none", "body", "header"} :
        CalledFor(SetUrlEncodedBody(request, <<"u">>, <<"u">>, short), <<"u", "=", "u">>)
KhHttpRequestSetMultipartFormDataBody ==
    \E file \in {"there", "missing", "unreadable"}, short \in {"none", "body", "type", "header"} :
        LET boundary == Boundary(request.BodyBuildCounter + 1)
        IN CalledFor(SetMultipartFormDataBody(request, file, short), <<boundary, "f", boundary>>)
KhHttpRequestSetFileBody ==
    \E file \in {"there", "missing", "unreadable"}, short \in {"none", "body", "header"} :
        CalledFor(SetFileBody(request, <<"f">>, file, short), <<"f">>)
KhHttpRequestSetTlsOptions == \E name \in ServerNames \cup {NullName} : Called(SetTlsOptions(request, name), meant)

\* The caller fills its buffer with something else; in a synchronous send it must not.
Reuse ==
    /\ MayCall /\ request.Body = "borrowed" /\ buffer # <<"b">>
    /\ buffer' = <<"b">> /\ meant' = [meant EXCEPT !.body = <<"b">>] /\ calls' = calls + 1
    /\ UNCHANGED <<request, sending, wire>>

-----------------------------------------------------------------------------
\* KhHttpSendSyncImpl works on the caller's request, an asynchronous send on a clone of it.
KhHttpSendSync ==
    /\ sending.phase = "idle" /\ request.Url # {}
    /\ sending' = [NotSending EXCEPT !.phase = "send", !.current = request, !.first = <<Written(request)>>]
    /\ UNCHANGED <<request, buffer, meant, calls, wire>>

KhHttpSendAsync ==
    /\ sending.phase = "idle" /\ request.Url # {}
    /\ \E short \in {"none", "body", "header"} :
        LET clone == CloneRequestForAsync(request, short)
            given == [NotSending EXCEPT !.async = TRUE, !.first = <<Written(request)>>]
        IN sending' = IF clone.status = "success"
                      THEN [given EXCEPT !.phase = "send", !.current = clone.r]
                      ELSE [given EXCEPT !.phase = "done", !.status = clone.status]
    /\ UNCHANGED <<request, buffer, meant, calls, wire>>

\* SendSingleHttpRequest
SendSingleHttpRequest ==
    /\ sending.phase = "send"
    /\ LET status == BuildHttpRequestOptions(sending.current) IN
       IF status = "success"
       THEN wire' = <<Written(sending.current)>> /\ sending' = [sending EXCEPT !.phase = "answer"]
       ELSE wire' = wire /\ sending' = [sending EXCEPT !.phase = "done", !.status = status]
    /\ UNCHANGED <<request, buffer, meant, calls>>

Finish(status) == sending' = [sending EXCEPT !.phase = "done", !.status = status]

\* The answer is the response the caller gets: no redirect, none left, or nowhere to go.
Answered == sending.phase = "answer" /\ Finish("success") /\ UNCHANGED <<request, buffer, meant, calls, wire>>

Redirected ==
    /\ sending.phase = "answer" /\ sending.redirects < MaxRedirects
    /\ \E code \in {c \in 300 .. 308 : IsRedirectStatus(c)},
          location \in {{}} \cup {{t} : t \in Targets}, short \in {"none", "body"} :
        LET clone == IF sending.cloned THEN Result("success", sending.current)
                     ELSE CloneRequestForAsync(sending.current, short)
            applied == ApplyRedirectToRequest(clone.r, code, location)
        IN IF clone.status # "success" THEN Finish(clone.status)
           ELSE IF applied.status = "invalid parameter" THEN Finish("success")
           ELSE IF applied.status # "success" THEN Finish(applied.status)
           ELSE sending' = [sending EXCEPT !.phase = "send", !.cloned = TRUE, !.current = applied.r,
                                           !.redirects = @ + 1,
                                           !.rewritten = @ \/ ShouldRewriteRedirectToGet(code, clone.r.Method)]
    /\ UNCHANGED <<request, buffer, meant, calls, wire>>

Next ==
    \/ KhHttpRequestSetUrl \/ KhHttpRequestSetMethod \/ KhHttpRequestSetHeader \/ KhHttpRequestSetBody
    \/ KhHttpRequestSetBodyMode \/ KhHttpRequestAddTrailer \/ KhHttpRequestClearBody \/ KhHttpRequestSetTextBody
    \/ KhHttpRequestSetRawBody \/ KhHttpRequestSetUrlEncodedBody \/ KhHttpRequestSetMultipartFormDataBody
    \/ KhHttpRequestSetFileBody \/ KhHttpRequestSetTlsOptions \/ Reuse
    \/ KhHttpSendSync \/ KhHttpSendAsync \/ SendSingleHttpRequest \/ Answered \/ Redirected

RequestSpec == Init /\ [][Next]_requestVars

-----------------------------------------------------------------------------
\* A value with this name among the headers.
Values(headers, name) == {headers[i].Value : i \in {j \in 1 .. Len(headers) : headers[j].Name = name}}

\* w may be sent where a redirect of first leads.
Follows(w, first, rewritten) ==
    /\ w.target # first.target => \A h \in Sensitive : Values(w.headers, h) = {}
    /\ first.target.scheme = "https" => w.target.scheme = "https"
    /\ w.target.scheme = "https" => w.name = w.target.host \/ (w.name = first.name /\ w.target = first.target)
    /\ rewritten => w.method = "GET" /\ w.body = <<>> /\ Values(w.headers, "Content-Type") = {}

(***************************************************************************)
(* What a send writes first is the request as it was when it was given to  *)
(* the send, whatever the caller does to the request or to its buffer      *)
(* afterwards, and no byte of it is read from memory that has been freed.  *)
(* When the last call that sets a body returned success, the body is what  *)
(* it asked for, however the calls before it ended, and a multipart body   *)
(* goes with one Content-Type, which names its boundary.  When that call   *)
(* failed, the body is what it asked for or nothing, never a part or a mix *)
(* of two; its Content-Type may then be missing or, after the failing      *)
(* allocation of SetMultipartContentType (Engine.cpp:1560), still name the *)
(* boundary of an earlier body (the owned buffer of Engine.cpp, its growth *)
(* and its error paths; CloneRequestForAsync).                             *)
(***************************************************************************)
SentAsSubmitted ==
    LET body == Content(request, buffer)
        Boundaries == {Boundary(n) : n \in 1 .. 3}
    IN /\ wire # <<>> /\ sending.redirects = 0 /\ sending.phase # "idle" => wire = sending.first
       /\ wire # <<>> => "?" \notin {wire[1].body[i] : i \in 1 .. Len(wire[1].body)}
       /\ body \in {meant.body, <<>>}
       /\ meant.status = "success" =>
            /\ body = meant.body
            /\ body # <<>> /\ body[1] \in Boundaries => Values(request.Headers, "Content-Type") = {body[1]}

(***************************************************************************)
(* Across redirects: credentials stay with the origin they were given for, *)
(* a secure request is never continued in the clear, the name asked for in *)
(* TLS is the host's or the one the caller gave for the first host, and a  *)
(* request rewritten to GET has no body and no Content-Type                *)
(* (ApplyRedirectToRequest; README_en.md:59).                              *)
(***************************************************************************)
RedirectSafe ==
    wire # <<>> /\ sending.redirects > 0 /\ sending.phase \in {"answer", "done"} /\ sending.status \in {"none", "success"} =>
        Follows(wire[1], sending.first[1], sending.rewritten)
=============================================================================
