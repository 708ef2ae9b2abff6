---------------------------- MODULE RequestProofs -----------------------------
(***************************************************************************)
(* Proofs about request handles: a send writes the request it was given,   *)
(* whatever happens to the handle meanwhile, and a redirect takes along    *)
(* neither credentials nor a body it should not.  Any targets, names,      *)
(* limits and number of calls.                                             *)
(***************************************************************************)
EXTENDS Requests, FiniteSetTheorems, SequenceTheorems, WellFoundedInduction, TLAPS

Fields == DOMAIN NewRequest

\* What bodies are made of, and the headers of a request.
Boundaries == {Boundary(n) : n \in 1 .. 3}
Symbols == {"a", "b", "t", "r", "u", "=", "f"} \cup Boundaries
HeaderNames == {"Authorization", "X", "Content-Type"}
Types == {"keep", "text", "form", "file", "raw", "v"} \cup Boundaries
HeaderRecords == [Name : HeaderNames, Value : Types]

\* The owned buffer holds what is in it.
Store(r) ==
    /\ r.OwnedBody \in Seq(Symbols) /\ r.OwnedBodyCapacity \in Nat
    /\ Len(r.OwnedBody) <= r.OwnedBodyCapacity

\* Body and BodyLength are those of the owned buffer as it is now.
Pointing(r) ==
    r.Body = "owned" /\ r.BodyGeneration = r.Generation /\ r.BodyLength = Len(r.OwnedBody)

\* The bytes at Body are there.
Sound(r) ==
    /\ r.BodyLength \in Nat
    /\ r.BodyLength # 0 => r.HasBody /\ (r.Body = "borrowed" \/ Pointing(r))

Addressed(r) == \E t \in Targets : r.Url = {t}

\* A request handle between two calls.
Handle(r) ==
    /\ DOMAIN r = Fields /\ Addressed(r) /\ r.Headers \in Seq(HeaderRecords)
    /\ Store(r) /\ Sound(r)

\* The Content-Type of a multipart body names its boundary.
Agree(headers, body) ==
    body # <<>> /\ body[1] \in Boundaries => Values(headers, "Content-Type") = {body[1]}

\* A call asked for this body and returned status: the body is there, or the call failed.
Kept(d, buf, last) ==
    /\ Content(d, buf) \in {last.body, <<>>}
    /\ last.status = "success" => Content(d, buf) = last.body /\ Agree(d.Headers, last.body)

\* A lent buffer is not empty.
Lent(r) == r.Body = "borrowed" => r.BodyLength # 0

\* What the caller has: the handle, its buffer and the body it asked for.
CallerInv ==
    /\ Handle(request) /\ Lent(request) /\ buffer \in {<<"a">>, <<"b">>}
    /\ DOMAIN meant = {"body", "status"} /\ meant.body \in Seq(Symbols)
    /\ Kept(request, buffer, meant)

\* The send has a request to write or has written it.
Underway ==
    sending.phase \in {"send", "answer"} \/ (sending.phase = "done" /\ sending.status = "success")

\* The request a send works on is the caller's as long as the caller has to wait, and a copy
\* of its own otherwise.
Current ==
    LET r == sending.current IN
    /\ Handle(r) /\ Content(r, buffer) \in Seq(Symbols)
    /\ ~sending.async /\ sending.redirects = 0 => r = request
    /\ sending.async \/ sending.redirects > 0 => r.Body # "borrowed"
    /\ sending.redirects = 0 => sending.first = <<Written(r)>>
    /\ sending.redirects > 0 => Follows(Written(r), sending.first[1], sending.rewritten)

SendInv ==
    /\ DOMAIN sending = DOMAIN NotSending
    /\ sending.phase \in {"idle", "send", "answer", "done"}
    /\ sending.async \in BOOLEAN /\ sending.cloned \in BOOLEAN /\ sending.rewritten \in BOOLEAN
    /\ sending.redirects \in Nat /\ (sending.cloned <=> sending.redirects > 0)
    /\ sending.phase = "idle" => sending = NotSending /\ wire = <<>>
    /\ sending.phase = "send" /\ sending.redirects = 0 => wire = <<>>
    /\ sending.phase \in {"send", "answer"} => sending.status = "none"
    /\ sending.phase = "done" => sending.status # "none"
    /\ sending.redirects = 0 => ~sending.rewritten
    /\ Underway => Current
    /\ Underway /\ sending.phase # "send" => wire = <<Written(sending.current)>>
    /\ wire # <<>> => wire[1].body \in Seq(Symbols)
    /\ wire # <<>> /\ sending.redirects = 0 => wire = sending.first

RequestInv == CallerInv /\ SendInv

-----------------------------------------------------------------------------
(* Arrays of headers.                                                      *)

\* A set of numbers that has an upper bound has a greatest element.
LEMMA HasMax ==
    ASSUME NEW n \in Nat, NEW T \in SUBSET (1 .. n), T # {}
    PROVE  \E x \in T : \A y \in T : y <= x
<1> DEFINE Less == {ss \in Nat \X Nat : ss[1] < ss[2]}
           Up == {m \in Nat : \A y \in T : y <= m}
<1>1. IsWellFoundedOn(Less, Nat)
  BY NatLessThanWellFounded, Zenon DEF OpToRel
<1>2. Up \subseteq Nat /\ n \in Up
  OBVIOUS
<1>3. PICK m \in Up : \A y \in Up : ~(<<y, m>> \in Less)
  <2> HIDE DEF Less, Up
  <2> QED
    BY <1>1, <1>2, WFMin
<1>4. m \in T
  <2> SUFFICES ASSUME m \notin T PROVE FALSE
    OBVIOUS
  <2>1. PICK t \in T : TRUE
    OBVIOUS
  <2>2. t \in Nat /\ 1 <= t /\ t <= m /\ m \in Nat
    OBVIOUS
  <2>3. \A y \in T : y <= m - 1
    OBVIOUS
  <2>4. m - 1 \in Up
    BY <2>2, <2>3
  <2>5. <<m - 1, m>> \in Less
    BY <2>2
  <2>6. QED
    BY <1>3, <2>4, <2>5
<1>5. QED
  BY <1>4

\* In a set of places there is one of every rank.
LEMMA HasRank ==
    ASSUME NEW n \in Nat, NEW keep \in SUBSET (1 .. n), NEW k \in 1 .. Cardinality(keep)
    PROVE  \E i \in keep : Cardinality({j \in keep : j <= i}) = k
<1> DEFINE Upto(i) == {j \in keep : j <= i}
           Missing == {m \in 1 .. Cardinality(keep) : \A i \in keep : Cardinality(Upto(i)) # m}
<1>1. IsFiniteSet(keep) /\ Cardinality(keep) \in Nat
  <2>1. IsFiniteSet(1 .. n)
    BY FS_Interval
  <2>2. QED
    BY <2>1, FS_Subset, FS_CardinalityType
<1>2. \A i \in keep : IsFiniteSet(Upto(i)) /\ Cardinality(Upto(i)) \in Nat
  <2> TAKE i \in keep
  <2>1. Upto(i) \subseteq keep
    OBVIOUS
  <2> HIDE DEF Upto
  <2>2. QED
    BY <1>1, <2>1, FS_Subset, FS_CardinalityType
<1>3. SUFFICES ASSUME Missing # {} PROVE FALSE
  <2>1. k \notin Missing
    BY <1>3
  <2>2. QED
    BY <2>1
<1>4. PICK m \in Missing : \A y \in Missing : y <= m
  <2>1. Missing \in SUBSET (1 .. Cardinality(keep))
    OBVIOUS
  <2> HIDE DEF Missing
  <2>2. QED
    BY <1>1, <1>3, <2>1, HasMax
<1>5. m \in 1 .. Cardinality(keep) /\ \A i \in keep : Cardinality(Upto(i)) # m
  OBVIOUS
<1>6. m + 1 \in 1 .. Cardinality(keep) => \E i \in keep : Cardinality(Upto(i)) = m + 1
  <2>1. m + 1 \notin Missing
    BY <1>1, <1>4, <1>5
  <2> HIDE DEF Upto
  <2>2. QED
    BY <2>1
<1>7. PICK i \in keep : Cardinality(Upto(i)) = m + 1
  <2>1. CASE m = Cardinality(keep)
    <3>1. keep # {}
      BY <1>1, <1>5, FS_EmptySet
    <3>2. PICK x \in keep : \A y \in keep : y <= x
      BY <3>1, HasMax
    <3>3. Upto(x) = keep
      BY <3>2
    <3>4. QED
      BY <1>5, <2>1, <3>3
  <2>2. CASE m # Cardinality(keep)
    <3>1. m + 1 \in 1 .. Cardinality(keep)
      BY <1>1, <1>5, <2>2
    <3>2. QED
      BY <1>6, <3>1
  <2>3. QED
    BY <2>1, <2>2
<1>8. i \in Upto(i) /\ Cardinality(Upto(i) \ {i}) = m
  <2>1. i \in Upto(i)
    OBVIOUS
  <2> HIDE DEF Upto
  <2>2. Cardinality(Upto(i) \ {i}) = Cardinality(Upto(i)) - 1
    BY <1>2, <2>1, FS_RemoveElement
  <2>3. QED
    BY <1>1, <1>5, <1>7, <2>1, <2>2
<1>9. Upto(i) \ {i} # {} /\ Upto(i) \ {i} \in SUBSET (1 .. n)
  <2>1. Upto(i) \ {i} \in SUBSET (1 .. n)
    OBVIOUS
  <2> HIDE DEF Upto
  <2>2. QED
    BY <1>1, <1>5, <1>8, <2>1, FS_EmptySet
<1>10. PICK x \in Upto(i) \ {i} : \A y \in Upto(i) \ {i} : y <= x
  <2> HIDE DEF Upto
  <2> QED
    BY <1>9, HasMax
<1>11. x \in keep /\ Upto(x) = Upto(i) \ {i}
  <2>1. x \in keep /\ x <= i /\ x # i /\ x \in Int /\ i \in Int
    BY <1>10
  <2>2. \A y \in keep : y \in Int /\ (y <= i /\ y # i => y <= x)
    BY <1>10
  <2>3. \A y \in keep : y <= x <=> y <= i /\ y # i
    BY <2>1, <2>2
  <2>4. QED
    BY <2>1, <2>3
<1>12. QED
  BY <1>5, <1>8, <1>11


\* What is kept was there, at a place that was to be kept.
LEMMA CompactFacts ==
    ASSUME NEW s \in Seq(HeaderRecords), NEW keep \in SUBSET DOMAIN s
    PROVE  /\ Compact(s, keep) \in Seq(HeaderRecords)
           /\ \A k \in 1 .. Len(Compact(s, keep)) : \E i \in keep : Compact(s, keep)[k] = s[i]
<1>1. PICK n \in Nat : n = Len(s) /\ DOMAIN s = 1 .. n
  OBVIOUS
<1>2. keep \in SUBSET (1 .. n)
  BY <1>1
<1>3. PICK c \in Nat : c = Cardinality(keep)
  <2>1. IsFiniteSet(1 .. n)
    BY FS_Interval
  <2>2. QED
    BY <1>2, <2>1, FS_Subset, FS_CardinalityType
<1> DEFINE At(k) == CHOOSE i \in keep : Cardinality({j \in keep : j <= i}) = k
<1>4. \A k \in 1 .. c : At(k) \in keep
  <2> TAKE k \in 1 .. c
  <2>1. \E i \in keep : Cardinality({j \in keep : j <= i}) = k
    BY <1>2, <1>3, HasRank
  <2>2. QED
    BY <2>1
<1>5. Compact(s, keep) = [k \in 1 .. c |-> s[At(k)]]
  BY <1>3 DEF Compact
<1> HIDE DEF At
<1>6. \A k \in 1 .. c : s[At(k)] \in HeaderRecords
  BY <1>1, <1>2, <1>4
<1>7. Compact(s, keep) \in Seq(HeaderRecords) /\ Len(Compact(s, keep)) = c
  BY <1>5, <1>6
<1>8. QED
  BY <1>4, <1>5, <1>7

\* Nothing appears when headers are removed, and those of a removed name are gone.
LEMMA KeptValues ==
    ASSUME NEW s \in Seq(HeaderRecords), NEW names
    PROVE  /\ Without(s, names) \in Seq(HeaderRecords)
           /\ \A name : Values(Without(s, names), name) \subseteq Values(s, name)
           /\ \A name \in names : Values(Without(s, names), name) = {}
<1> DEFINE keep == {i \in DOMAIN s : s[i].Name \notin names}
<1>1. PICK d : d = Compact(s, keep)
  OBVIOUS
<1>2. d \in Seq(HeaderRecords) /\ \A k \in 1 .. Len(d) : \E i \in keep : d[k] = s[i]
  <2>1. keep \in SUBSET DOMAIN s
    OBVIOUS
  <2> HIDE DEF keep
  <2>2. QED
    BY <1>1, <2>1, CompactFacts
<1>3. DOMAIN s = 1 .. Len(s)
  OBVIOUS
<1>4. ASSUME NEW name
      PROVE  Values(d, name) \subseteq Values(s, name)
  BY <1>2, <1>3 DEF Values
<1>5. ASSUME NEW name \in names
      PROVE  Values(d, name) = {}
  BY <1>2 DEF Values
<1>6. d = Without(s, names)
  BY <1>1 DEF Without
<1>7. QED
  BY <1>2, <1>4, <1>5, <1>6

\* One more header.
LEMMA AppendedValues ==
    ASSUME NEW s \in Seq(HeaderRecords), NEW h \in HeaderRecords
    PROVE  /\ Append(s, h) \in Seq(HeaderRecords)
           /\ \A name : name # h.Name => Values(Append(s, h), name) = Values(s, name)
           /\ Values(s, h.Name) = {} => Values(Append(s, h), h.Name) = {h.Value}
<1>1. PICK d : d = Append(s, h)
  OBVIOUS
<1>2. /\ d \in Seq(HeaderRecords) /\ Len(d) = Len(s) + 1 /\ Len(s) \in Nat
      /\ \A i \in 1 .. Len(s) : d[i] = s[i]
      /\ d[Len(s) + 1] = h
  BY <1>1
<1>3. \A i \in 1 .. Len(d) : i \in 1 .. Len(s) \/ i = Len(s) + 1
  BY <1>2
<1>4. \A i \in 1 .. Len(s) : i \in 1 .. Len(d)
  BY <1>2
<1>5. ASSUME NEW name, name # h.Name
      PROVE  Values(d, name) = Values(s, name)
  BY <1>2, <1>3, <1>4, <1>5 DEF Values
<1>6. ASSUME Values(s, h.Name) = {}
      PROVE  Values(d, h.Name) = {h.Value}
  <2>1. \A i \in 1 .. Len(s) : s[i].Name # h.Name
    BY <1>6 DEF Values
  <2>2. Values(d, h.Name) \subseteq {h.Value}
    BY <1>2, <1>3, <2>1 DEF Values
  <2>3. Len(s) + 1 \in 1 .. Len(d)
    BY <1>2
  <2>4. h.Value \in Values(d, h.Name)
    BY <1>2, <2>3 DEF Values
  <2>5. QED
    BY <2>2, <2>4
<1>7. QED
  BY <1>1, <1>2, <1>5, <1>6

-----------------------------------------------------------------------------
(* The owned buffer.                                                       *)

\* The fields a body has nothing to do with.
SameFrame(r, d) ==
    /\ DOMAIN d = DOMAIN r
    /\ d.Method = r.Method /\ d.Url = r.Url /\ d.HasTlsOverride = r.HasTlsOverride /\ d.ServerName = r.ServerName
    /\ d.Trailers = r.Trailers /\ d.BodyMode = r.BodyMode

\* A body under construction, and as good as done.
Built(r, body) ==
    /\ Store(r) /\ r.OwnedBody = body /\ r.BodyGeneration = r.Generation
    /\ r.BodyLength = Len(body) /\ r.HasBody
    /\ r.Body = IF r.OwnedBodyCapacity = 0 THEN "null" ELSE "owned"

\* The pointer follows the buffer.
LEMMA PointAtOwnedFacts ==
    ASSUME NEW r, DOMAIN r = Fields, Store(r)
    PROVE  /\ Built(PointAtOwned(r), r.OwnedBody) /\ SameFrame(r, PointAtOwned(r))
           /\ PointAtOwned(r).Headers = r.Headers
<1>1. PICK d : d = PointAtOwned(r)
  OBVIOUS
<1>2. /\ DOMAIN d = DOMAIN r /\ d.OwnedBody = r.OwnedBody /\ d.OwnedBodyCapacity = r.OwnedBodyCapacity
      /\ d.Generation = r.Generation /\ d.BodyGeneration = r.Generation /\ d.BodyLength = Len(r.OwnedBody)
      /\ d.HasBody = TRUE /\ d.Body = IF r.OwnedBodyCapacity = 0 THEN "null" ELSE "owned"
      /\ d.Headers = r.Headers /\ d.Method = r.Method /\ d.Url = r.Url
      /\ d.HasTlsOverride = r.HasTlsOverride /\ d.ServerName = r.ServerName
      /\ d.Trailers = r.Trailers /\ d.BodyMode = r.BodyMode
  BY <1>1 DEF PointAtOwned, Fields, NewRequest
<1>3. QED
  BY <1>1, <1>2 DEF Built, Store, SameFrame

\* A body that is begun is empty.
LEMMA BeginFacts ==
    ASSUME NEW r, DOMAIN r = Fields, Store(r)
    PROVE  /\ Built(BeginOwnedBodyBuild(r), <<>>) /\ SameFrame(r, BeginOwnedBodyBuild(r))
           /\ BeginOwnedBodyBuild(r).Headers = r.Headers
<1>1. PICK e : e = ResetOwnedBodyContent(r)
  OBVIOUS
<1>2. /\ DOMAIN e = Fields /\ e.OwnedBody = <<>> /\ e.OwnedBodyCapacity = r.OwnedBodyCapacity
      /\ SameFrame(r, e) /\ e.Headers = r.Headers
  BY <1>1 DEF ResetOwnedBodyContent, Fields, NewRequest, SameFrame
<1>3. Store(e)
  BY <1>2 DEF Store
<1>4. PICK d : d = PointAtOwned(e)
  OBVIOUS
<1>5. Built(d, <<>>) /\ SameFrame(e, d) /\ d.Headers = e.Headers
  BY <1>2, <1>3, <1>4, PointAtOwnedFacts
<1>6. QED
  BY <1>1, <1>2, <1>4, <1>5 DEF BeginOwnedBodyBuild, SameFrame

\* Room is made without losing what is there.
LEMMA EnsureFacts ==
    ASSUME NEW r, DOMAIN r = Fields, NEW body, Built(r, body), NEW required \in Nat, NEW short
    PROVE  LET g == EnsureOwnedBodyCapacity(r, required, short)
           IN  /\ Built(g.r, body) /\ SameFrame(r, g.r) /\ g.r.Headers = r.Headers
               /\ g.status = "success" => required <= g.r.OwnedBodyCapacity
<1>1. PICK g : g = EnsureOwnedBodyCapacity(r, required, short)
  OBVIOUS
<1>2. Store(r) /\ r.OwnedBody = body /\ r.OwnedBodyCapacity \in Nat
  BY DEF Built, Store
<1>3. CASE required <= r.OwnedBodyCapacity
  BY <1>1, <1>3 DEF EnsureOwnedBodyCapacity, Result, SameFrame
<1>4. CASE ~(required <= r.OwnedBodyCapacity) /\ short = "body"
  BY <1>1, <1>4 DEF EnsureOwnedBodyCapacity, Result, SameFrame, NoMemory
<1>5. CASE ~(required <= r.OwnedBodyCapacity) /\ short # "body"
  <2> DEFINE first == IF r.OwnedBodyCapacity = 0 THEN InitialCapacity ELSE r.OwnedBodyCapacity
  <2>1. PICK c : c = Doubled(first, required)
    OBVIOUS
  <2>2. c \in Nat /\ required <= c
    BY <1>2, <2>1, RequestAssumption DEF Doubled
  <2>3. PICK e : e = [r EXCEPT !.OwnedBodyCapacity = c, !.Generation = @ + 1]
    OBVIOUS
  <2>4. g = Result("success", PointAtOwned(e))
    BY <1>1, <1>5, <2>1, <2>3 DEF EnsureOwnedBodyCapacity
  <2>5. /\ DOMAIN e = Fields /\ e.OwnedBody = body /\ e.OwnedBodyCapacity = c
        /\ SameFrame(r, e) /\ e.Headers = r.Headers
    BY <1>2, <2>3 DEF Fields, NewRequest, SameFrame
  <2>6. Store(e)
    BY <1>2, <1>5, <2>2, <2>5 DEF Store
  <2>7. PICK d : d = PointAtOwned(e)
    OBVIOUS
  <2>8. Built(d, body) /\ SameFrame(e, d) /\ d.Headers = e.Headers /\ d.OwnedBodyCapacity = c
    <3>1. d.OwnedBodyCapacity = e.OwnedBodyCapacity
      BY <2>5, <2>7 DEF PointAtOwned, Fields, NewRequest
    <3>2. QED
      BY <2>5, <2>6, <2>7, <3>1, PointAtOwnedFacts
  <2>9. g.r = d
    BY <2>4, <2>7 DEF Result
  <2>10. SameFrame(r, d) /\ d.Headers = r.Headers
    BY <2>5, <2>8 DEF SameFrame
  <2>11. QED
    BY <1>1, <2>2, <2>8, <2>9, <2>10
<1>6. QED
  BY <1>3, <1>4, <1>5

\* The bytes are appended, or nothing has changed but the buffer's size.
LEMMA AppendBodyFacts ==
    ASSUME NEW r, DOMAIN r = Fields, NEW body \in Seq(Symbols), Built(r, body), NEW data \in Seq(Symbols), NEW short
    PROVE  LET g == AppendOwnedBody(r, data, short)
           IN  /\ SameFrame(r, g.r) /\ g.r.Headers = r.Headers /\ Store(g.r)
               /\ g.status = "success" => Built(g.r, body \o data)
<1>1. PICK g : g = AppendOwnedBody(r, data, short)
  OBVIOUS
<1>2. Store(r) /\ r.OwnedBody = body
  BY DEF Built
<1>3. PICK n \in Nat : n = Len(r.OwnedBody) + Len(data)
  BY <1>2
<1>4. PICK h : h = EnsureOwnedBodyCapacity(r, n, short)
  OBVIOUS
<1>5. /\ Built(h.r, body) /\ SameFrame(r, h.r) /\ h.r.Headers = r.Headers
      /\ h.status = "success" => n <= h.r.OwnedBodyCapacity
  BY <1>4, EnsureFacts
<1>6. CASE data = <<>>
  <2>1. g = Result("success", PointAtOwned(r))
    BY <1>1, <1>6 DEF AppendOwnedBody
  <2>2. g.r = PointAtOwned(r)
    BY <2>1 DEF Result
  <2>3. Built(g.r, body) /\ SameFrame(r, g.r) /\ g.r.Headers = r.Headers
    BY <1>2, <2>2, PointAtOwnedFacts
  <2>4. body \o data = body
    BY <1>6
  <2>5. Store(g.r)
    BY <2>3 DEF Built
  <2>6. QED
    BY <1>1, <2>3, <2>4, <2>5
<1>7. CASE data # <<>> /\ h.status # "success"
  <2>1. g = h
    BY <1>1, <1>3, <1>4, <1>7 DEF AppendOwnedBody
  <2>2. QED
    BY <1>1, <1>5, <1>7, <2>1 DEF Built
<1>8. CASE data # <<>> /\ h.status = "success"
  <2>1. PICK e : e = [h.r EXCEPT !.OwnedBody = @ \o data]
    OBVIOUS
  <2>2. g = Result("success", PointAtOwned(e))
    BY <1>1, <1>3, <1>4, <1>8, <2>1 DEF AppendOwnedBody
  <2>3. h.r.OwnedBody = body /\ h.r.OwnedBodyCapacity \in Nat /\ DOMAIN h.r = Fields
    BY <1>5 DEF Built, Store, SameFrame
  <2>4. /\ DOMAIN e = Fields /\ e.OwnedBody = body \o data /\ e.OwnedBodyCapacity = h.r.OwnedBodyCapacity
        /\ SameFrame(h.r, e) /\ e.Headers = h.r.Headers
    BY <2>1, <2>3 DEF Fields, NewRequest, SameFrame
  <2>5. Store(e)
    <3>1. body \o data \in Seq(Symbols) /\ Len(body \o data) = n
      BY <1>2, <1>3
    <3>2. QED
      BY <1>5, <1>8, <2>3, <2>4, <3>1 DEF Store
  <2>6. PICK d : d = PointAtOwned(e)
    OBVIOUS
  <2>7. Built(d, body \o data) /\ SameFrame(e, d) /\ d.Headers = e.Headers
    BY <2>4, <2>5, <2>6, PointAtOwnedFacts
  <2>8. g.r = d
    BY <2>2, <2>6 DEF Result
  <2>9. SameFrame(r, d) /\ d.Headers = r.Headers
    BY <1>5, <2>4, <2>7 DEF SameFrame
  <2>10. Store(d)
    BY <2>7 DEF Built
  <2>11. QED
    BY <1>1, <2>7, <2>8, <2>9, <2>10
<1>9. QED
  BY <1>6, <1>7, <1>8

\* A result of the operations that build a body.
Builds(r, built, body) ==
    /\ DOMAIN built.r = Fields /\ SameFrame(r, built.r) /\ built.r.Headers = r.Headers /\ Store(built.r)
    /\ built.status = "success" => Built(built.r, body)

\* The first piece of a body.
LEMMA FirstPiece ==
    ASSUME NEW r, DOMAIN r = Fields, Store(r), NEW data \in Seq(Symbols), NEW short
    PROVE  Builds(r, AppendOwnedBody(BeginOwnedBodyBuild(r), data, short), data)
<1>1. PICK b : b = BeginOwnedBodyBuild(r)
  OBVIOUS
<1>2. Built(b, <<>>) /\ SameFrame(r, b) /\ b.Headers = r.Headers /\ DOMAIN b = Fields
  BY <1>1, BeginFacts DEF SameFrame
<1>3. PICK g : g = AppendOwnedBody(b, data, short)
  OBVIOUS
<1>4. PICK nil \in Seq(Symbols) : nil = <<>> /\ nil \o data = data
  <2>1. <<>> \in Seq(Symbols) /\ <<>> \o data = data
    OBVIOUS
  <2>2. QED
    BY <2>1
<1>5. Built(b, nil)
  BY <1>2, <1>4
<1>6. /\ SameFrame(b, g.r) /\ g.r.Headers = b.Headers /\ Store(g.r)
      /\ g.status = "success" => Built(g.r, nil \o data)
  BY <1>2, <1>3, <1>5, AppendBodyFacts
<1>7. Builds(r, g, data)
  BY <1>2, <1>4, <1>6 DEF Builds, SameFrame
<1>8. QED
  BY <1>1, <1>3, <1>7

\* The next piece of a body.
LEMMA NextPiece ==
    ASSUME NEW r, NEW built, NEW body \in Seq(Symbols), Builds(r, built, body), NEW data \in Seq(Symbols), NEW short
    PROVE  Builds(r, AppendNext(built, data, short), body \o data)
<1>1. CASE built.status # "success"
  BY <1>1 DEF AppendNext, Builds
<1>2. CASE built.status = "success"
  <2>1. PICK g : g = AppendOwnedBody(built.r, data, short)
    OBVIOUS
  <2>2. DOMAIN built.r = Fields /\ Built(built.r, body) /\ SameFrame(r, built.r) /\ built.r.Headers = r.Headers
    BY <1>2 DEF Builds
  <2>3. /\ SameFrame(built.r, g.r) /\ g.r.Headers = built.r.Headers /\ Store(g.r)
        /\ g.status = "success" => Built(g.r, body \o data)
    BY <2>1, <2>2, AppendBodyFacts
  <2>4. Builds(r, g, body \o data)
    BY <2>2, <2>3 DEF Builds, SameFrame
  <2>5. QED
    BY <1>2, <2>1, <2>4 DEF AppendNext
<1>3. QED
  BY <1>1, <1>2

\* A file behind the body so far; the room it was given stays.
LEMMA FilePiece ==
    ASSUME NEW r, DOMAIN r = Fields, NEW body \in Seq(Symbols), Built(r, body), NEW data \in Seq(Symbols), NEW file, NEW short
    PROVE  Builds(r, AppendFileToOwnedBody(r, data, file, short), body \o data)
<1>1. PICK g : g = AppendFileToOwnedBody(r, data, file, short)
  OBVIOUS
<1>2. Store(r) /\ r.OwnedBody = body
  BY DEF Built
<1>3. PICK n \in Nat : n = Len(r.OwnedBody) + Len(data)
  BY <1>2
<1>4. PICK h : h = EnsureOwnedBodyCapacity(r, n, short)
  OBVIOUS
<1>5. /\ Built(h.r, body) /\ SameFrame(r, h.r) /\ h.r.Headers = r.Headers
      /\ h.status = "success" => n <= h.r.OwnedBodyCapacity
  BY <1>4, EnsureFacts
<1>6. h.r.OwnedBody = body /\ h.r.OwnedBodyCapacity \in Nat /\ DOMAIN h.r = Fields /\ Store(h.r)
  BY <1>5 DEF Built, Store, SameFrame
<1>7. CASE file = "missing"
  <2>1. g.r = r /\ g.status = "not found"
    BY <1>1, <1>7 DEF AppendFileToOwnedBody, Result
  <2>2. QED
    BY <1>1, <1>2, <2>1 DEF Builds, SameFrame
<1>8. CASE file # "missing" /\ h.status # "success"
  <2>1. g = h
    BY <1>1, <1>3, <1>4, <1>8 DEF AppendFileToOwnedBody
  <2>2. QED
    BY <1>1, <1>5, <1>6, <1>8, <2>1 DEF Builds
<1>9. CASE file = "unreadable" /\ h.status = "success"
  <2>1. g.r = h.r /\ g.status = "unsuccessful"
    BY <1>1, <1>3, <1>4, <1>9 DEF AppendFileToOwnedBody, Result
  <2>2. QED
    BY <1>1, <1>5, <1>6, <2>1 DEF Builds
<1>10. CASE file \notin {"missing", "unreadable"} /\ h.status = "success"
  <2>1. PICK e : e = [h.r EXCEPT !.OwnedBody = @ \o data]
    OBVIOUS
  <2>2. g = Result("success", PointAtOwned(e))
    BY <1>1, <1>3, <1>4, <1>10, <2>1 DEF AppendFileToOwnedBody
  <2>3. /\ DOMAIN e = Fields /\ e.OwnedBody = body \o data /\ e.OwnedBodyCapacity = h.r.OwnedBodyCapacity
        /\ SameFrame(h.r, e) /\ e.Headers = h.r.Headers
    BY <1>6, <2>1 DEF Fields, NewRequest, SameFrame
  <2>4. Store(e)
    <3>1. body \o data \in Seq(Symbols) /\ Len(body \o data) = n
      BY <1>2, <1>3
    <3>2. QED
      BY <1>5, <1>6, <1>10, <2>3, <3>1 DEF Store
  <2>5. PICK d : d = PointAtOwned(e)
    OBVIOUS
  <2>6. Built(d, body \o data) /\ SameFrame(e, d) /\ d.Headers = e.Headers
    BY <2>3, <2>4, <2>5, PointAtOwnedFacts
  <2>7. g.r = d
    BY <2>2, <2>5 DEF Result
  <2>8. SameFrame(r, d) /\ d.Headers = r.Headers /\ DOMAIN d = Fields
    BY <1>5, <2>3, <2>6 DEF SameFrame
  <2>9. Store(d)
    BY <2>6 DEF Built
  <2>10. QED
    BY <1>1, <2>6, <2>7, <2>8, <2>9 DEF Builds
<1>11. QED
  BY <1>7, <1>8, <1>9, <1>10

-----------------------------------------------------------------------------
(* The setters.                                                            *)

\* The fields that make the body.
SameBody(r, d) ==
    /\ d.Body = r.Body /\ d.BodyGeneration = r.BodyGeneration /\ d.BodyLength = r.BodyLength
    /\ d.HasBody = r.HasBody /\ d.OwnedBody = r.OwnedBody /\ d.OwnedBodyCapacity = r.OwnedBodyCapacity
    /\ d.Generation = r.Generation

\* They decide what is written.
LEMMA SameBodyFacts ==
    ASSUME NEW r, NEW d, SameBody(r, d)
    PROVE  /\ Store(r) => Store(d)
           /\ Sound(r) => Sound(d)
           /\ \A buf : Content(d, buf) = Content(r, buf)
<1>1. Store(r) => Store(d)
  BY DEF SameBody, Store
<1>2. Sound(r) => Sound(d)
  BY DEF SameBody, Sound, Pointing
<1>3. \A buf : Content(d, buf) = Content(r, buf)
  BY DEF SameBody, Content
<1>4. QED
  BY <1>1, <1>2, <1>3

\* What a sound request has at Body.
LEMMA ContentFacts ==
    ASSUME NEW r, Store(r), Sound(r), NEW buf
    PROVE  /\ r.BodyLength = 0 => Content(r, buf) = <<>>
           /\ r.BodyLength # 0 /\ r.Body = "borrowed" => Content(r, buf) = buf
           /\ r.BodyLength # 0 /\ r.Body # "borrowed" => Content(r, buf) = r.OwnedBody /\ Len(r.OwnedBody) # 0
<1>1. r.BodyLength = 0 => Content(r, buf) = <<>>
  BY DEF Content
<1>2. r.BodyLength # 0 /\ r.Body = "borrowed" => Content(r, buf) = buf
  BY DEF Content
<1>3. ASSUME r.BodyLength # 0, r.Body # "borrowed"
      PROVE  Content(r, buf) = r.OwnedBody /\ Len(r.OwnedBody) # 0
  <2>1. Pointing(r)
    BY <1>3 DEF Sound
  <2>2. r.OwnedBody \in Seq(Symbols) /\ r.BodyLength = Len(r.OwnedBody)
    BY <2>1 DEF Pointing, Store
  <2>3. Content(r, buf) = SubSeq(r.OwnedBody, 1, r.BodyLength)
    BY <1>3, <2>1, <2>2 DEF Content, Pointing
  <2>4. SubSeq(r.OwnedBody, 1, Len(r.OwnedBody)) = r.OwnedBody
    BY <2>2
  <2>5. QED
    BY <1>3, <2>2, <2>3, <2>4
<1>4. QED
  BY <1>1, <1>2, <1>3

\* A built body is what is written.
LEMMA BuiltContent ==
    ASSUME NEW r, NEW body \in Seq(Symbols), Built(r, body)
    PROVE  Sound(r) /\ \A buf : Content(r, buf) = body
<1>1. /\ Store(r) /\ r.OwnedBody = body /\ r.BodyLength = Len(body) /\ r.HasBody /\ r.BodyGeneration = r.Generation
      /\ r.OwnedBodyCapacity \in Nat /\ Len(body) <= r.OwnedBodyCapacity /\ Len(body) \in Nat
  BY DEF Built, Store
<1>2. Len(body) # 0 => r.Body = "owned"
  BY <1>1 DEF Built
<1>3. Sound(r)
  BY <1>1, <1>2 DEF Sound, Pointing
<1>4. Len(body) = 0 => body = <<>>
  OBVIOUS
<1>5. QED
  BY <1>1, <1>2, <1>3, <1>4, ContentFacts

\* A body that could not be built is dropped.
LEMMA AbortFacts ==
    ASSUME NEW r, DOMAIN r = Fields, Store(r)
    PROVE  LET d == AbortOwnedBodyBuild(r)
           IN  /\ SameFrame(r, d) /\ d.Headers = r.Headers /\ Store(d) /\ Sound(d) /\ d.BodyLength = 0
               /\ d.Body # "borrowed"
<1>1. PICK e : e = ResetOwnedBodyContent(r)
  OBVIOUS
<1>2. /\ DOMAIN e = Fields /\ e.OwnedBody = <<>> /\ e.OwnedBodyCapacity = r.OwnedBodyCapacity
      /\ SameFrame(r, e) /\ e.Headers = r.Headers
  BY <1>1 DEF ResetOwnedBodyContent, Fields, NewRequest, SameFrame
<1>3. PICK d : d = [e EXCEPT !.Body = "null", !.BodyLength = 0]
  OBVIOUS
<1>4. d = AbortOwnedBodyBuild(r)
  BY <1>1, <1>3 DEF AbortOwnedBodyBuild
<1>5. /\ SameFrame(e, d) /\ d.Headers = e.Headers /\ d.OwnedBody = <<>> /\ d.BodyLength = 0
      /\ d.OwnedBodyCapacity = r.OwnedBodyCapacity /\ d.Body = "null"
  BY <1>2, <1>3 DEF Fields, NewRequest, SameFrame
<1>6. Store(d) /\ Sound(d)
  BY <1>5 DEF Store, Sound
<1>7. SameFrame(r, d) /\ d.Headers = r.Headers
  BY <1>2, <1>5 DEF SameFrame
<1>8. QED
  BY <1>4, <1>5, <1>6, <1>7

\* Only headers are removed, and all of that name.
LEMMA RemoveByName ==
    ASSUME NEW r, DOMAIN r = Fields, r.Headers \in Seq(HeaderRecords), NEW name
    PROVE  LET d == RemoveStoredHeadersByName(r, name)
           IN  /\ SameFrame(r, d) /\ SameBody(r, d) /\ d.Headers \in Seq(HeaderRecords)
               /\ \A n : Values(d.Headers, n) \subseteq Values(r.Headers, n)
               /\ Values(d.Headers, name) = {}
<1>1. PICK hs : hs = Without(r.Headers, {name})
  OBVIOUS
<1>2. /\ hs \in Seq(HeaderRecords) /\ \A n : Values(hs, n) \subseteq Values(r.Headers, n)
      /\ Values(hs, name) = {}
  BY <1>1, KeptValues
<1>3. PICK d : d = [r EXCEPT !.Headers = hs]
  OBVIOUS
<1>4. d = RemoveStoredHeadersByName(r, name)
  BY <1>1, <1>3 DEF RemoveStoredHeadersByName
<1>5. SameFrame(r, d) /\ SameBody(r, d) /\ d.Headers = hs
  BY <1>3 DEF SameFrame, SameBody, Fields, NewRequest
<1>6. QED
  BY <1>2, <1>4, <1>5

\* A header is added if there is room for it.
Adds(r, g, name, value) ==
    /\ SameFrame(r, g.r) /\ SameBody(r, g.r) /\ g.r.Headers \in Seq(HeaderRecords)
    /\ \A n : n # name => Values(g.r.Headers, n) = Values(r.Headers, n)
    /\ g.status = "success" /\ Values(r.Headers, name) = {} => Values(g.r.Headers, name) = {value}

LEMMA AddHeader ==
    ASSUME NEW r, DOMAIN r = Fields, r.Headers \in Seq(HeaderRecords), NEW name \in HeaderNames, NEW value \in Types, NEW short
    PROVE  Adds(r, AddStoredHeader(r, name, value, short), name, value)
<1>1. PICK g : g = AddStoredHeader(r, name, value, short)
  OBVIOUS
<1>2. CASE Len(r.Headers) >= MaxHeaders \/ short = "header"
  <2>1. g = Result(NoMemory, r)
    BY <1>1, <1>2 DEF AddStoredHeader
  <2>2. g.r = r /\ g.status # "success"
    BY <2>1 DEF Result, NoMemory
  <2>3. QED
    BY <1>1, <2>2 DEF Adds, SameFrame, SameBody
<1>3. CASE ~(Len(r.Headers) >= MaxHeaders \/ short = "header")
  <2>1. PICK h : h = [Name |-> name, Value |-> value]
    OBVIOUS
  <2>2. h \in HeaderRecords /\ h.Name = name /\ h.Value = value
    BY <2>1 DEF HeaderRecords
  <2>3. PICK hs : hs = Append(r.Headers, h)
    OBVIOUS
  <2>4. /\ hs \in Seq(HeaderRecords) /\ \A n : n # name => Values(hs, n) = Values(r.Headers, n)
        /\ Values(r.Headers, name) = {} => Values(hs, name) = {value}
    BY <2>2, <2>3, AppendedValues
  <2>5. g.r = [r EXCEPT !.Headers = hs]
    BY <1>1, <1>3, <2>1, <2>3 DEF AddStoredHeader, Result
  <2>6. SameFrame(r, g.r) /\ SameBody(r, g.r) /\ g.r.Headers = hs
    BY <2>5 DEF SameFrame, SameBody, Fields, NewRequest
  <2>7. QED
    BY <1>1, <2>4, <2>6 DEF Adds
<1>4. QED
  BY <1>2, <1>3

\* What a call that sets the body leaves: that body with its own Content-Type, or, failing, that body or none.
SetsBody(g, body, type) ==
    /\ Handle(g.r) /\ g.r.Body # "borrowed"
    /\ \A buf : Content(g.r, buf) \in {body, <<>>}
    /\ g.status = "success" => /\ \A buf : Content(g.r, buf) = body
                               /\ type = "keep" \/ Values(g.r.Headers, "Content-Type") = {type}

\* The end of every setter that builds a body.
LEMMA TypedFacts ==
    ASSUME NEW r, Handle(r), NEW body \in Seq(Symbols), NEW built, Builds(r, built, body),
           NEW type \in Types, NEW short
    PROVE  SetsBody(Typed(built, type, short), body, type)
<1>1. PICK g : g = Typed(built, type, short)
  OBVIOUS
<1>2. /\ DOMAIN built.r = Fields /\ SameFrame(r, built.r) /\ built.r.Headers = r.Headers /\ Store(built.r)
      /\ r.Headers \in Seq(HeaderRecords) /\ Addressed(r)
  BY DEF Builds, Handle
<1>3. Addressed(built.r)
  BY <1>2 DEF Addressed, SameFrame
<1>4. CASE built.status # "success"
  <2>1. PICK d : d = AbortOwnedBodyBuild(built.r)
    OBVIOUS
  <2>2. g.r = d /\ g.status # "success"
    BY <1>1, <1>4, <2>1 DEF Typed, Result
  <2>3. /\ SameFrame(built.r, d) /\ d.Headers = r.Headers /\ Store(d) /\ Sound(d) /\ d.BodyLength = 0
        /\ d.Body # "borrowed"
    BY <1>2, <2>1, AbortFacts
  <2>4. Handle(d)
    BY <1>2, <1>3, <2>3 DEF Handle, Addressed, SameFrame
  <2>5. \A buf : Content(d, buf) = <<>>
    BY <2>3, ContentFacts
  <2>6. QED
    BY <1>1, <2>2, <2>3, <2>4, <2>5 DEF SetsBody
<1>5. ASSUME built.status = "success"
      PROVE  Sound(built.r) /\ built.r.Body # "borrowed" /\ \A buf : Content(built.r, buf) = body
  <2>1. Built(built.r, body)
    BY <1>5 DEF Builds
  <2>2. built.r.Body # "borrowed"
    BY <2>1 DEF Built
  <2>3. QED
    BY <2>1, <2>2, BuiltContent
<1>6. CASE built.status = "success" /\ type = "keep"
  <2>1. g = built
    BY <1>1, <1>6 DEF Typed
  <2>2. QED
    BY <1>1, <1>2, <1>3, <1>5, <1>6, <2>1 DEF SetsBody, Handle
<1>7. CASE built.status = "success" /\ type # "keep"
  <2>1. PICK e : e = RemoveStoredHeadersByName(built.r, "Content-Type")
    OBVIOUS
  <2>2. /\ SameFrame(built.r, e) /\ SameBody(built.r, e) /\ e.Headers \in Seq(HeaderRecords)
        /\ Values(e.Headers, "Content-Type") = {}
    BY <1>2, <2>1, RemoveByName
  <2>3. g = AddStoredHeader(e, "Content-Type", type, short)
    BY <1>1, <1>7, <2>1 DEF Typed, ReplaceContentType
  <2>a. PICK d : d = g.r
    OBVIOUS
  <2>4. DOMAIN e = Fields /\ "Content-Type" \in HeaderNames
    BY <1>2, <2>2 DEF SameFrame, HeaderNames
  <2>5. /\ SameFrame(e, d) /\ SameBody(e, d) /\ d.Headers \in Seq(HeaderRecords)
        /\ g.status = "success" => Values(d.Headers, "Content-Type") = {type}
    <3>1. PICK name \in HeaderNames : name = "Content-Type"
      BY <2>4
    <3>2. /\ SameFrame(e, g.r) /\ SameBody(e, g.r) /\ g.r.Headers \in Seq(HeaderRecords)
          /\ g.status = "success" /\ Values(e.Headers, name) = {} => Values(g.r.Headers, name) = {type}
      <4>1. Adds(e, g, name, type)
        BY <2>2, <2>3, <2>4, <3>1, AddHeader
      <4>2. QED
        BY <4>1 DEF Adds
    <3>3. QED
      BY <2>2, <2>a, <3>1, <3>2
  <2>6. g.r = d
    BY <2>a
  <2>7. SameBody(built.r, d) /\ DOMAIN d = Fields /\ d.Url = built.r.Url /\ d.Body # "borrowed"
    BY <1>2, <1>5, <1>7, <2>2, <2>5 DEF SameBody, SameFrame
  <2>8. Store(d) /\ Sound(d) /\ \A buf : Content(d, buf) = body
    BY <1>2, <1>5, <1>7, <2>7, SameBodyFacts
  <2>9. Handle(d)
    BY <1>3, <2>5, <2>7, <2>8 DEF Handle, Addressed
  <2>10. QED
    BY <1>1, <2>5, <2>6, <2>7, <2>8, <2>9 DEF SetsBody
<1>8. QED
  BY <1>4, <1>6, <1>7

\* A call that changes neither body nor headers.
LEMMA PlainChange ==
    ASSUME NEW r, Handle(r), NEW d, DOMAIN d = Fields, Addressed(d), SameBody(r, d), d.Headers = r.Headers
    PROVE  Handle(d) /\ \A buf : Content(d, buf) = Content(r, buf)
<1>1. Store(r) /\ Sound(r) /\ r.Headers \in Seq(HeaderRecords)
  BY DEF Handle
<1>2. Store(d) /\ Sound(d) /\ \A buf : Content(d, buf) = Content(r, buf)
  BY <1>1, SameBodyFacts
<1>3. QED
  BY <1>1, <1>2 DEF Handle

\* SetUrl leaves the body and the headers alone.
LEMMA SetUrlFacts ==
    ASSUME NEW r, DOMAIN r = Fields, NEW t
    PROVE  LET d == SetUrl(r, t)
           IN  /\ DOMAIN d = Fields /\ d.Url = {t} /\ SameBody(r, d) /\ d.Headers = r.Headers
               /\ d.Method = r.Method /\ d.HasTlsOverride = r.HasTlsOverride
               /\ d.ServerName = IF ~r.HasTlsOverride /\ t.scheme = "https" THEN OwnHost ELSE r.ServerName
<1>1. PICK d : d = [r EXCEPT !.Url = {t}, !.ServerName = IF ~r.HasTlsOverride /\ t.scheme = "https" THEN OwnHost ELSE @]
  OBVIOUS
<1>2. d = SetUrl(r, t)
  BY <1>1 DEF SetUrl
<1>3. /\ DOMAIN d = Fields /\ d.Url = {t} /\ SameBody(r, d) /\ d.Headers = r.Headers
      /\ d.Method = r.Method /\ d.HasTlsOverride = r.HasTlsOverride
      /\ d.ServerName = IF ~r.HasTlsOverride /\ t.scheme = "https" THEN OwnHost ELSE r.ServerName
  BY <1>1 DEF Fields, NewRequest, SameBody
<1>4. QED
  BY <1>2, <1>3

\* The owned body is freed.
LEMMA ReleaseFacts ==
    ASSUME NEW r, DOMAIN r = Fields
    PROVE  LET d == ReleaseOwnedBody(r)
           IN  SameFrame(r, d) /\ d.Headers = r.Headers /\ Store(d) /\ d.BodyLength = 0 /\ d.Body = "null"
<1>1. PICK d : d = ReleaseOwnedBody(r)
  OBVIOUS
<1>2. /\ SameFrame(r, d) /\ d.Headers = r.Headers /\ d.OwnedBody = <<>> /\ d.OwnedBodyCapacity = 0
      /\ d.BodyLength = 0 /\ d.Body = "null"
  BY <1>1 DEF ReleaseOwnedBody, Fields, NewRequest, SameFrame
<1>3. Store(d)
  BY <1>2 DEF Store
<1>4. QED
  BY <1>1, <1>2, <1>3

\* The caller's buffer is the body.
LEMMA SetBodyFacts ==
    ASSUME NEW r, Handle(r), NEW buf \in {<<"a">>, <<"b">>}
    PROVE  LET d == SetBody(r, Len(buf)) IN Handle(d) /\ Lent(d) /\ Content(d, buf) = buf
<1>1. PICK e : e = ReleaseOwnedBody(r)
  OBVIOUS
<1>2. SameFrame(r, e) /\ e.Headers = r.Headers /\ Store(e) /\ DOMAIN e = Fields
  BY <1>1, ReleaseFacts DEF Handle, SameFrame
<1>3. PICK d : d = [e EXCEPT !.Body = "borrowed", !.BodyLength = Len(buf), !.HasBody = TRUE]
  OBVIOUS
<1>4. d = SetBody(r, Len(buf))
  BY <1>1, <1>3 DEF SetBody
<1>5. /\ DOMAIN d = Fields /\ d.Url = e.Url /\ d.Headers = e.Headers /\ d.OwnedBody = e.OwnedBody
      /\ d.OwnedBodyCapacity = e.OwnedBodyCapacity /\ d.Body = "borrowed" /\ d.BodyLength = Len(buf) /\ d.HasBody = TRUE
  BY <1>2, <1>3 DEF Fields, NewRequest
<1>6. Len(buf) = 1
  OBVIOUS
<1>7. Store(d) /\ Sound(d)
  BY <1>2, <1>5, <1>6 DEF Store, Sound
<1>8. Handle(d)
  BY <1>2, <1>5, <1>7 DEF Handle, Addressed, SameFrame
<1>9. Content(d, buf) = buf
  BY <1>5, <1>6, <1>7, ContentFacts
<1>10. Lent(d)
  BY <1>5, <1>6 DEF Lent
<1>11. QED
  BY <1>4, <1>8, <1>9, <1>10

\* No body, and no Content-Type for it.
LEMMA ClearBodyFacts ==
    ASSUME NEW r, Handle(r)
    PROVE  LET d == ClearBody(r)
           IN  /\ Handle(d) /\ SameFrame(r, d) /\ d.Body = "null" /\ \A buf : Content(d, buf) = <<>>
               /\ \A n : Values(d.Headers, n) \subseteq Values(r.Headers, n)
               /\ Values(d.Headers, "Content-Type") = {}
<1>1. PICK e : e = ReleaseOwnedBody(r)
  OBVIOUS
<1>2. /\ SameFrame(r, e) /\ e.Headers = r.Headers /\ Store(e) /\ DOMAIN e = Fields /\ e.BodyLength = 0 /\ e.Body = "null"
      /\ e.Headers \in Seq(HeaderRecords)
  BY <1>1, ReleaseFacts DEF Handle, SameFrame
<1>3. PICK d : d = RemoveStoredHeadersByName(e, "Content-Type")
  OBVIOUS
<1>4. /\ SameFrame(e, d) /\ SameBody(e, d) /\ d.Headers \in Seq(HeaderRecords)
      /\ \A n : Values(d.Headers, n) \subseteq Values(e.Headers, n)
      /\ Values(d.Headers, "Content-Type") = {}
  BY <1>2, <1>3, RemoveByName
<1>5. SameFrame(r, d) /\ d.BodyLength = 0 /\ d.Body = "null" /\ DOMAIN d = Fields
  BY <1>2, <1>4 DEF SameFrame, SameBody
<1>6. Store(d) /\ Sound(d)
  BY <1>2, <1>4, <1>5, SameBodyFacts DEF Sound
<1>7. Handle(d)
  BY <1>4, <1>5, <1>6 DEF Handle, Addressed, SameFrame
<1>8. \A buf : Content(d, buf) = <<>>
  BY <1>5, <1>6, ContentFacts
<1>9. d = ClearBody(r)
  BY <1>1, <1>3 DEF ClearBody
<1>10. QED
  BY <1>2, <1>4, <1>5, <1>7, <1>8, <1>9

\* One value.
LEMMA OneText ==
    ASSUME NEW x \in Symbols
    PROVE  <<x>> \in Seq(Symbols)
OBVIOUS

\* Two or three values, piece by piece.
LEMMA TwoTexts ==
    ASSUME NEW x \in Symbols, NEW y \in Symbols, NEW z \in Symbols
    PROVE  <<x>> \o <<y>> = <<x, y>> /\ <<x, y>> \o <<z>> = <<x, y, z>>
<1>1. /\ <<x>> \in Seq(Symbols) /\ <<y>> \in Seq(Symbols) /\ <<z>> \in Seq(Symbols)
      /\ <<x, y>> \in Seq(Symbols) /\ <<x, y, z>> \in Seq(Symbols)
  OBVIOUS
<1>2. PICK a \in Seq(Symbols) : a = <<x>> /\ Len(a) = 1 /\ a[1] = x
  BY <1>1
<1>3. PICK b \in Seq(Symbols) : b = <<y>> /\ Len(b) = 1 /\ b[1] = y
  BY <1>1
<1>4. PICK c \in Seq(Symbols) : c = <<z>> /\ Len(c) = 1 /\ c[1] = z
  BY <1>1
<1>5. PICK t \in Seq(Symbols) : t = <<x, y>> /\ Len(t) = 2 /\ t[1] = x /\ t[2] = y
  BY <1>1
<1>6. PICK u \in Seq(Symbols) : u = <<x, y, z>> /\ Len(u) = 3 /\ u[1] = x /\ u[2] = y /\ u[3] = z
  BY <1>1
<1>7. a \o b = t
  <2>1. a \o b \in Seq(Symbols) /\ Len(a \o b) = 2 /\ \A i \in 1 .. 2 : (a \o b)[i] = t[i]
    BY <1>2, <1>3, <1>5, ConcatProperties
  <2>2. QED
    BY <1>5, <2>1, SeqEqual
<1>8. t \o c = u
  <2>1. t \o c \in Seq(Symbols) /\ Len(t \o c) = 3 /\ \A i \in 1 .. 3 : (t \o c)[i] = u[i]
    BY <1>4, <1>5, <1>6, ConcatProperties
  <2>2. QED
    BY <1>6, <2>1, SeqEqual
<1>9. QED
  BY <1>2, <1>3, <1>4, <1>5, <1>6, <1>7, <1>8

\* The setters that build a body.
LEMMA SetTextFacts ==
    ASSUME NEW r, Handle(r), NEW text \in Seq(Symbols), NEW short
    PROVE  SetsBody(SetTextBody(r, text, short), text, "text")
<1>1. Builds(r, AppendOwnedBody(BeginOwnedBodyBuild(r), text, short), text)
  BY FirstPiece DEF Handle
<1>2. "text" \in Types
  BY DEF Types
<1>3. QED
  BY <1>1, <1>2, TypedFacts DEF SetTextBody

LEMMA SetRawFacts ==
    ASSUME NEW r, Handle(r), NEW data \in Seq(Symbols), NEW type \in Types, NEW short
    PROVE  SetsBody(SetRawBody(r, data, type, short), data, type)
<1>1. Builds(r, AppendOwnedBody(BeginOwnedBodyBuild(r), data, short), data)
  BY FirstPiece DEF Handle
<1>2. QED
  BY <1>1, TypedFacts DEF SetRawBody

LEMMA SetUrlEncodedFacts ==
    ASSUME NEW r, Handle(r), NEW name \in Seq(Symbols), NEW value \in Seq(Symbols), NEW short
    PROVE  SetsBody(SetUrlEncodedBody(r, name, value, short), (name \o <<"=">>) \o value, "form")
<1>1. PICK a : a = AppendOwnedBody(BeginOwnedBodyBuild(r), name, short)
  OBVIOUS
<1>2. Builds(r, a, name)
  BY <1>1, FirstPiece DEF Handle
<1>3. PICK b : b = AppendNext(a, <<"=">>, short)
  OBVIOUS
<1>4. <<"=">> \in Seq(Symbols) /\ name \o <<"=">> \in Seq(Symbols)
  <2>1. "=" \in Symbols
    BY DEF Symbols
  <2>2. QED
    BY <2>1
<1>5. Builds(r, b, name \o <<"=">>)
  BY <1>2, <1>3, <1>4, NextPiece
<1>6. PICK c : c = AppendNext(b, value, short)
  OBVIOUS
<1>7. PICK body \in Seq(Symbols) : body = (name \o <<"=">>) \o value
  <2>1. PICK pre \in Seq(Symbols) : pre = name \o <<"=">>
    BY <1>4
  <2>2. pre \o value \in Seq(Symbols)
    OBVIOUS
  <2>3. QED
    BY <2>1, <2>2
<1>8. Builds(r, c, body)
  BY <1>4, <1>5, <1>6, <1>7, NextPiece
<1>9. "form" \in Types
  BY DEF Types
<1>10. SetsBody(Typed(c, "form", short), body, "form")
  BY <1>8, <1>9, TypedFacts
<1>11. QED
  BY <1>1, <1>3, <1>6, <1>7, <1>10 DEF SetUrlEncodedBody

LEMMA SetFileFacts ==
    ASSUME NEW r, Handle(r), NEW data \in Seq(Symbols), NEW file, NEW short
    PROVE  SetsBody(SetFileBody(r, data, file, short), data, "file")
<1>1. PICK b : b = BeginOwnedBodyBuild(r)
  OBVIOUS
<1>2. Built(b, <<>>) /\ SameFrame(r, b) /\ b.Headers = r.Headers /\ DOMAIN b = Fields
  BY <1>1, BeginFacts DEF SameFrame, Handle
<1>3. PICK a : a = AppendFileToOwnedBody(b, data, file, short)
  OBVIOUS
<1>4. <<>> \in Seq(Symbols) /\ <<>> \o data = data
  OBVIOUS
<1>5. Builds(b, a, <<>> \o data)
  BY <1>2, <1>3, <1>4, FilePiece
<1>6. Builds(r, a, data)
  BY <1>2, <1>4, <1>5 DEF Builds, SameFrame
<1>7. "file" \in Types
  BY DEF Types
<1>8. QED
  BY <1>1, <1>3, <1>6, <1>7, TypedFacts DEF SetFileBody

\* Every boundary is one of those.
LEMMA BoundaryIn ==
    ASSUME NEW n
    PROVE  Boundary(n) \in Boundaries /\ Boundary(n) \in Symbols /\ Boundary(n) \in Types /\ Boundary(n) # "keep"
<1>1. Boundary(n) \in {Boundary(1), Boundary(2), Boundary(3)}
  BY DEF Boundary
<1>2. Boundary(n) \in Boundaries
  BY <1>1 DEF Boundaries
<1>3. Boundary(n) # "keep"
  BY DEF Boundary
<1>4. QED
  BY <1>2, <1>3 DEF Symbols, Types

LEMMA SetMultipartFacts ==
    ASSUME NEW r, Handle(r), NEW file, NEW short,
           NEW bd \in Boundaries, bd = Boundary(r.BodyBuildCounter + 1)
    PROVE  SetsBody(SetMultipartFormDataBody(r, file, short), <<bd, "f", bd>>, bd)
<1>1. PICK b : b = BeginOwnedBodyBuild(r)
  OBVIOUS
<1>2. Built(b, <<>>) /\ SameFrame(r, b) /\ b.Headers = r.Headers /\ DOMAIN b = Fields
  BY <1>1, BeginFacts DEF SameFrame, Handle
<1>3. b.BodyBuildCounter = r.BodyBuildCounter
  BY <1>1 DEF Handle, BeginOwnedBodyBuild, ResetOwnedBodyContent, PointAtOwned, Fields, NewRequest
<1>4. PICK c : c = GenerateMultipartBoundary(b)
  OBVIOUS
<1>5. /\ SameFrame(b, c) /\ SameBody(b, c) /\ c.Headers = b.Headers /\ DOMAIN c = Fields
      /\ c.BodyBuildCounter = r.BodyBuildCounter + 1
  BY <1>2, <1>3, <1>4 DEF GenerateMultipartBoundary, SameFrame, SameBody, Fields, NewRequest
<1>6. Built(c, <<>>)
  BY <1>2, <1>5 DEF Built, Store, SameBody
<1>7. Boundary(c.BodyBuildCounter) = bd /\ bd \in Symbols /\ bd \in Types
  BY <1>5, BoundaryIn
<1>8. PICK part : part = AppendOwnedBody(c, <<bd>>, short)
  OBVIOUS
<1>9. /\ <<>> \in Seq(Symbols) /\ <<bd>> \in Seq(Symbols) /\ <<>> \o <<bd>> = <<bd>>
      /\ <<"f">> \in Seq(Symbols) /\ <<bd>> \o <<"f">> = <<bd, "f">> /\ <<bd, "f">> \in Seq(Symbols)
      /\ <<bd, "f">> \o <<bd>> = <<bd, "f", bd>> /\ <<bd, "f", bd>> \in Seq(Symbols)
  <2>1. PICK f \in Symbols : f = "f"
    BY DEF Symbols
  <2>2. <<>> \in Seq(Symbols) /\ <<bd>> \in Seq(Symbols) /\ <<f>> \in Seq(Symbols)
    BY <1>7
  <2>3. <<bd, f>> \in Seq(Symbols) /\ <<bd, f, bd>> \in Seq(Symbols)
    BY <1>7
  <2>4. <<>> \o <<bd>> = <<bd>>
    BY <2>2
  <2>5. <<bd>> \o <<f>> = <<bd, f>>
    BY <1>7, TwoTexts
  <2>6. <<bd, f>> \o <<bd>> = <<bd, f, bd>>
    BY <1>7, TwoTexts
  <2>7. QED
    BY <2>1, <2>2, <2>3, <2>4, <2>5, <2>6
<1>10. Builds(c, part, <<bd>>)
  <2>1. PICK one \in Seq(Symbols) : one = <<bd>>
    BY <1>9
  <2>2. PICK nil \in Seq(Symbols) : nil = <<>>
    BY <1>9
  <2>3. Built(c, nil) /\ part = AppendOwnedBody(c, one, short)
    BY <1>6, <1>8, <2>1, <2>2
  <2>4. /\ SameFrame(c, part.r) /\ part.r.Headers = c.Headers /\ Store(part.r)
        /\ part.status = "success" => Built(part.r, nil \o one)
    BY <1>5, <2>3, AppendBodyFacts
  <2>5. nil \o one = <<bd>>
    BY <1>9, <2>1, <2>2
  <2>6. QED
    BY <1>5, <2>4, <2>5 DEF Builds, SameFrame
<1>11. PICK filled : filled = IF part.status # "success" THEN part ELSE AppendFileToOwnedBody(part.r, <<"f">>, file, short)
  OBVIOUS
<1>12. Builds(c, filled, <<bd, "f">>)
  <2>1. CASE part.status # "success"
    BY <1>10, <1>11, <2>1 DEF Builds
  <2>2. CASE part.status = "success"
    <3>1. /\ DOMAIN part.r = Fields /\ Built(part.r, <<bd>>) /\ SameFrame(c, part.r) /\ part.r.Headers = c.Headers
          /\ filled = AppendFileToOwnedBody(part.r, <<"f">>, file, short)
      BY <1>10, <1>11, <2>2 DEF Builds
    <3>2. Builds(part.r, filled, <<bd>> \o <<"f">>)
      BY <1>9, <3>1, FilePiece
    <3>3. QED
      BY <1>9, <3>1, <3>2 DEF Builds, SameFrame
  <2>3. QED
    BY <2>1, <2>2
<1>13. PICK all : all = AppendNext(filled, <<bd>>, short)
  OBVIOUS
<1>14. Builds(c, all, <<bd, "f">> \o <<bd>>)
  BY <1>9, <1>12, <1>13, NextPiece
<1>15. Builds(r, all, <<bd, "f", bd>>)
  BY <1>2, <1>5, <1>9, <1>14 DEF Builds, SameFrame
<1>16. SetMultipartFormDataBody(r, file, short) =
        IF all.status # "success" THEN Result(all.status, AbortOwnedBodyBuild(all.r))
        ELSE SetMultipartContentType(all.r, bd, short)
  BY <1>1, <1>4, <1>7, <1>8, <1>11, <1>13 DEF SetMultipartFormDataBody, AppendMultipartPartHeader
<1>17. CASE ~(all.status = "success" /\ short = "type")
  <2>1. SetsBody(Typed(all, bd, short), <<bd, "f", bd>>, bd)
    BY <1>7, <1>9, <1>15, TypedFacts
  <2>2. SetMultipartFormDataBody(r, file, short) = Typed(all, bd, short)
    BY <1>16, <1>17, BoundaryIn DEF SetMultipartContentType, Typed
  <2>3. QED
    BY <2>1, <2>2
<1>18. CASE all.status = "success" /\ short = "type"
  \* As a call that keeps the Content-Type, but failed.
  <2>1. PICK g : g = SetMultipartFormDataBody(r, file, short)
    OBVIOUS
  <2>2. g.r = all.r /\ g.status # "success"
    <3>1. g = Result(NoMemory, all.r)
      BY <1>16, <1>18, <2>1 DEF SetMultipartContentType
    <3>2. QED
      BY <3>1 DEF Result, NoMemory
  <2>3. "keep" \in Types
    BY DEF Types
  <2>4. SetsBody(Typed(all, "keep", short), <<bd, "f", bd>>, "keep")
    BY <1>9, <1>15, <2>3, TypedFacts
  <2>5. Typed(all, "keep", short) = all
    BY <1>18 DEF Typed
  <2>6. QED
    BY <2>1, <2>2, <2>4, <2>5 DEF SetsBody
<1>19. QED
  BY <1>17, <1>18

-----------------------------------------------------------------------------
(* The caller.                                                             *)

\* A call leaves the handle in order and the send alone.
LEMMA CallKeeps ==
    ASSUME CallerInv, NEW d, NEW last, DOMAIN last = {"body", "status"}, last.body \in Seq(Symbols),
           Called(d, last), Handle(d), Lent(d), Kept(d, buffer, last)
    PROVE  CallerInv'
<1>1. request' = d /\ meant' = last /\ buffer' = buffer
  BY DEF Called
<1>2. Kept(request', buffer', meant')
  BY <1>1
<1>3. QED
  BY <1>1, <1>2 DEF CallerInv

\* One that sets the body.
LEMMA BodyCallKeeps ==
    ASSUME CallerInv, NEW g, NEW body \in Seq(Symbols), NEW type, CalledFor(g, body), SetsBody(g, body, type),
           body # <<>> /\ body[1] \in Boundaries => type # "keep" /\ body[1] = type
    PROVE  CallerInv'
<1>1. PICK last : last = [body |-> body, status |-> g.status]
  OBVIOUS
<1>2. DOMAIN last = {"body", "status"} /\ last.body = body /\ last.status = g.status /\ Called(g.r, last)
  BY <1>1 DEF CalledFor
<1>3. Handle(g.r) /\ Lent(g.r) /\ Content(g.r, buffer) \in {body, <<>>}
  BY DEF SetsBody, Lent
<1>4. g.status = "success" => Content(g.r, buffer) = body /\ Agree(g.r.Headers, body)
  BY DEF SetsBody, Agree
<1>5. Kept(g.r, buffer, last)
  BY <1>2, <1>3, <1>4 DEF Kept
<1>6. QED
  BY <1>2, <1>3, <1>5, CallKeeps

\* One that leaves body and headers alone.
LEMMA PlainCallKeeps ==
    ASSUME CallerInv, NEW d, Called(d, meant), DOMAIN d = Fields, Addressed(d), SameBody(request, d),
           d.Headers = request.Headers
    PROVE  CallerInv'
<1>1. Handle(d) /\ Content(d, buffer) = Content(request, buffer)
  BY PlainChange DEF CallerInv
<1>2. Lent(d) /\ Kept(d, buffer, meant)
  BY <1>1 DEF CallerInv, Lent, SameBody, Kept
<1>3. QED
  BY <1>1, <1>2, CallKeeps DEF CallerInv

\* The first handle.
LEMMA CallerInit == Init => CallerInv
<1> SUFFICES ASSUME Init PROVE CallerInv
  OBVIOUS
<1>1. PICK t \in Targets, mode \in {[method |-> "POST", body |-> "Chunked"], [method |-> "HEAD", body |-> "ContentLength"]} :
        request = [SetUrl(NewRequest, t) EXCEPT !.Method = mode.method, !.BodyMode = mode.body]
  BY DEF Init
<1>2. PICK e : e = SetUrl(NewRequest, t)
  OBVIOUS
<1>3. DOMAIN e = Fields /\ e.Url = {t} /\ SameBody(NewRequest, e) /\ e.Headers = NewRequest.Headers
  BY <1>2, SetUrlFacts DEF Fields
<1>4. request = [e EXCEPT !.Method = mode.method, !.BodyMode = mode.body]
  BY <1>1, <1>2
<1>5. DOMAIN request = Fields /\ request.Url = {t} /\ SameBody(NewRequest, request) /\ request.Headers = <<>>
  BY <1>3, <1>4 DEF Fields, NewRequest, SameBody
<1>6. request.BodyLength = 0 /\ request.OwnedBody = <<>> /\ request.OwnedBodyCapacity = 0
  BY <1>5 DEF SameBody, NewRequest
<1>7. Store(request) /\ Sound(request)
  BY <1>6 DEF Store, Sound
<1>8. Handle(request)
  BY <1>5, <1>7 DEF Handle, Addressed
<1>9. Content(request, buffer) = <<>>
  BY <1>6, <1>7, ContentFacts
<1>10. buffer = <<"a">> /\ DOMAIN meant = {"body", "status"} /\ meant.body = <<>> /\ meant.status = "success"
  BY DEF Init, NoBody
<1>11. request.Body # "borrowed"
  BY <1>5 DEF SameBody, NewRequest
<1>12. Lent(request) /\ Kept(request, buffer, meant)
  BY <1>9, <1>10, <1>11 DEF Lent, Kept, Agree
<1>13. QED
  BY <1>8, <1>10, <1>12 DEF CallerInv

\* What the caller may do.
CallerStep ==
    \/ KhHttpRequestSetUrl \/ KhHttpRequestSetMethod \/ KhHttpRequestSetHeader \/ KhHttpRequestSetBody
    \/ KhHttpRequestSetBodyMode \/ KhHttpRequestAddTrailer \/ KhHttpRequestClearBody \/ KhHttpRequestSetTextBody
    \/ KhHttpRequestSetRawBody \/ KhHttpRequestSetUrlEncodedBody \/ KhHttpRequestSetMultipartFormDataBody
    \/ KhHttpRequestSetFileBody \/ KhHttpRequestSetTlsOptions \/ Reuse

\* The headers a caller gives.
LEMMA HeaderSet ==
    ASSUME NEW r, DOMAIN r = Fields, r.Headers \in Seq(HeaderRecords), NEW name \in HeaderNames, name # "Content-Type",
           NEW d, d = AddStoredHeader(r, name, "v", "none").r
    PROVE  /\ SameFrame(r, d) /\ SameBody(r, d) /\ d.Headers \in Seq(HeaderRecords)
           /\ Values(d.Headers, "Content-Type") = Values(r.Headers, "Content-Type")
<1>1. PICK v \in Types : v = "v"
  BY DEF Types
<1>2. PICK g : g = AddStoredHeader(r, name, v, "none")
  OBVIOUS
<1>3. d = g.r
  BY <1>1, <1>2
<1>4. Adds(r, g, name, v)
  BY <1>2, AddHeader
<1>5. QED
  BY <1>3, <1>4 DEF Adds

\* Calls on a handle that have nothing to do with its body.
LEMMA PlainCalls ==
    ASSUME CallerInv,
           KhHttpRequestSetUrl \/ KhHttpRequestSetMethod \/ KhHttpRequestSetHeader \/ KhHttpRequestSetBodyMode
           \/ KhHttpRequestAddTrailer \/ KhHttpRequestSetTlsOptions
    PROVE  CallerInv'
<1>1. DOMAIN request = Fields /\ Addressed(request) /\ request.Headers \in Seq(HeaderRecords) /\ Handle(request)
  BY DEF CallerInv, Handle
<1>2. CASE KhHttpRequestSetUrl
  <2>1. PICK t \in Targets : Called(SetUrl(request, t), meant)
    BY <1>2 DEF KhHttpRequestSetUrl
  <2>2. PICK d : d = SetUrl(request, t)
    OBVIOUS
  <2>3. DOMAIN d = Fields /\ d.Url = {t} /\ SameBody(request, d) /\ d.Headers = request.Headers
    BY <1>1, <2>2, SetUrlFacts
  <2>4. QED
    BY <2>1, <2>2, <2>3, PlainCallKeeps DEF Addressed
<1>3. CASE KhHttpRequestSetMethod
  <2>1. PICK m \in {"GET", "POST"} : Called([request EXCEPT !.Method = m], meant)
    BY <1>3 DEF KhHttpRequestSetMethod
  <2>2. PICK d : d = [request EXCEPT !.Method = m]
    OBVIOUS
  <2>3. DOMAIN d = Fields /\ d.Url = request.Url /\ SameBody(request, d) /\ d.Headers = request.Headers
    BY <1>1, <2>2 DEF Fields, NewRequest, SameBody
  <2>4. QED
    BY <1>1, <2>1, <2>2, <2>3, PlainCallKeeps DEF Addressed
<1>4. CASE KhHttpRequestSetBodyMode
  <2>1. PICK mode \in {"ContentLength", "Chunked"} : Called([request EXCEPT !.BodyMode = mode], meant)
    BY <1>4 DEF KhHttpRequestSetBodyMode
  <2>2. PICK d : d = [request EXCEPT !.BodyMode = mode]
    OBVIOUS
  <2>3. DOMAIN d = Fields /\ d.Url = request.Url /\ SameBody(request, d) /\ d.Headers = request.Headers
    BY <1>1, <2>2 DEF Fields, NewRequest, SameBody
  <2>4. QED
    BY <1>1, <2>1, <2>2, <2>3, PlainCallKeeps DEF Addressed
<1>5. CASE KhHttpRequestAddTrailer
  <2>1. PICK d : d = AddStoredTrailer(request, "T", "none").r
    OBVIOUS
  <2>2. Called(d, meant)
    BY <1>5, <2>1 DEF KhHttpRequestAddTrailer
  <2>3. d = request \/ d = [request EXCEPT !.Trailers = Append(@, "T")]
    BY <2>1 DEF AddStoredTrailer, Result
  <2>4. DOMAIN d = Fields /\ d.Url = request.Url /\ SameBody(request, d) /\ d.Headers = request.Headers
    BY <1>1, <2>3 DEF Fields, NewRequest, SameBody
  <2>5. QED
    BY <1>1, <2>2, <2>4, PlainCallKeeps DEF Addressed
<1>6. CASE KhHttpRequestSetTlsOptions
  <2>1. PICK name \in ServerNames \cup {NullName} : Called(SetTlsOptions(request, name), meant)
    BY <1>6 DEF KhHttpRequestSetTlsOptions
  <2>2. PICK d : d = SetTlsOptions(request, name)
    OBVIOUS
  <2>3. DOMAIN d = Fields /\ d.Url = request.Url /\ SameBody(request, d) /\ d.Headers = request.Headers
    BY <1>1, <2>2 DEF Fields, NewRequest, SameBody, SetTlsOptions
  <2>4. QED
    BY <1>1, <2>1, <2>2, <2>3, PlainCallKeeps DEF Addressed
<1>7. CASE KhHttpRequestSetHeader
  <2>1. PICK name \in {"Authorization", "X"} : Called(AddStoredHeader(request, name, "v", "none").r, meant)
    BY <1>7 DEF KhHttpRequestSetHeader
  <2>2. PICK d : d = AddStoredHeader(request, name, "v", "none").r
    OBVIOUS
  <2>3. name \in HeaderNames /\ name # "Content-Type"
    BY <2>1 DEF HeaderNames
  <2>4. /\ SameFrame(request, d) /\ SameBody(request, d) /\ d.Headers \in Seq(HeaderRecords)
        /\ Values(d.Headers, "Content-Type") = Values(request.Headers, "Content-Type")
    BY <1>1, <2>2, <2>3, HeaderSet
  <2>5. Store(request) /\ Sound(request)
    BY <1>1 DEF Handle
  <2>6. Store(d) /\ Sound(d) /\ Content(d, buffer) = Content(request, buffer)
    BY <2>4, <2>5, SameBodyFacts
  <2>7. Handle(d)
    BY <1>1, <2>4, <2>6 DEF Handle, Addressed, SameFrame
  <2>8. Lent(d) /\ Kept(d, buffer, meant)
    BY <2>4, <2>6 DEF Agree, Lent, SameBody, Kept, CallerInv
  <2>9. QED
    BY <2>1, <2>2, <2>7, <2>8, CallKeeps DEF CallerInv
<1>8. QED
  BY <1>2, <1>3, <1>4, <1>5, <1>6, <1>7

\* Ordinary symbols are not boundaries.
LEMMA NotBoundary == {"a", "b", "t", "r", "u", "f"} \cap Boundaries = {}
<1>1. \A n \in 1 .. 3 : Boundary(n) \notin {"a", "b", "t", "r", "u", "f"}
  BY DEF Boundary
<1>2. QED
  BY <1>1 DEF Boundaries

\* A text, and where it begins.
LEMMA Texts ==
    ASSUME NEW x \in Symbols, NEW y \in Symbols, NEW z \in Symbols
    PROVE  /\ <<x>> \in Seq(Symbols) /\ <<x>> # <<>> /\ <<x>>[1] = x
           /\ <<x, y>> \in Seq(Symbols) /\ <<x, y>> # <<>> /\ <<x, y>>[1] = x
           /\ <<x, y, z>> \in Seq(Symbols) /\ <<x, y, z>> # <<>> /\ <<x, y, z>>[1] = x
  OBVIOUS

\* Calls that set the body.
LEMMA BodyCalls ==
    ASSUME CallerInv,
           KhHttpRequestSetBody \/ KhHttpRequestClearBody \/ KhHttpRequestSetTextBody
           \/ KhHttpRequestSetRawBody \/ KhHttpRequestSetUrlEncodedBody \/ KhHttpRequestSetMultipartFormDataBody
           \/ KhHttpRequestSetFileBody
    PROVE  CallerInv'
<1>1. Handle(request) /\ buffer \in {<<"a">>, <<"b">>}
  BY DEF CallerInv
<1>2. /\ "a" \in Symbols /\ "b" \in Symbols /\ "t" \in Symbols /\ "r" \in Symbols
      /\ "u" \in Symbols /\ "f" \in Symbols /\ "=" \in Symbols
  BY DEF Symbols
<1>3. CASE KhHttpRequestSetBody
  <2>1. PICK d : d = SetBody(request, Len(buffer))
    OBVIOUS
  <2>2. PICK last : last = [body |-> buffer, status |-> "success"]
    OBVIOUS
  <2>3. Called(d, last)
    BY <1>3, <2>1, <2>2 DEF KhHttpRequestSetBody, CalledFor, Result
  <2>4. Handle(d) /\ Lent(d) /\ Content(d, buffer) = buffer
    BY <1>1, <2>1, SetBodyFacts
  <2>5. buffer \in Seq(Symbols) /\ buffer[1] \in {"a", "b"}
    BY <1>1, <1>2, Texts
  <2>6. DOMAIN last = {"body", "status"} /\ last.body = buffer
    BY <2>2
  <2>7. Kept(d, buffer, last)
    BY <2>4, <2>5, <2>6, NotBoundary DEF Kept, Agree
  <2>8. QED
    BY <2>3, <2>4, <2>5, <2>6, <2>7, CallKeeps
<1>4. CASE KhHttpRequestClearBody
  <2>1. PICK d : d = ClearBody(request)
    OBVIOUS
  <2>2. PICK last : last = [body |-> <<>>, status |-> "success"]
    OBVIOUS
  <2>3. Called(d, last)
    BY <1>4, <2>1, <2>2 DEF KhHttpRequestClearBody, CalledFor, Result
  <2>4. Handle(d) /\ Lent(d) /\ Content(d, buffer) = <<>>
    BY <1>1, <2>1, ClearBodyFacts DEF Lent
  <2>5. DOMAIN last = {"body", "status"} /\ last.body = <<>> /\ <<>> \in Seq(Symbols)
    BY <2>2
  <2>6. Kept(d, buffer, last)
    BY <2>4, <2>5 DEF Kept, Agree
  <2>7. QED
    BY <2>3, <2>4, <2>5, <2>6, CallKeeps
<1>5. CASE KhHttpRequestSetTextBody
  <2>1. PICK text \in {<<>>, <<"t", "t">>}, short \in {"none", "body", "header"} : CalledFor(SetTextBody(request, text, short), text)
    BY <1>5 DEF KhHttpRequestSetTextBody
  <2>2. text \in Seq(Symbols) /\ (text # <<>> => text[1] = "t")
    <3>1. PICK x \in Symbols : x = "t"
      BY <1>2
    <3>2. <<x, x>> \in Seq(Symbols) /\ <<x, x>>[1] = x
      BY Texts
    <3>3. text = <<>> \/ text = <<x, x>>
      BY <2>1, <3>1
    <3>4. CASE text = <<>>
      BY <3>4
    <3>5. CASE text = <<x, x>>
      BY <3>1, <3>2, <3>5
    <3>6. QED
      BY <3>3, <3>4, <3>5
  <2>3. SetsBody(SetTextBody(request, text, short), text, "text")
    BY <1>1, <2>2, SetTextFacts
  <2>4. QED
    BY <2>1, <2>2, <2>3, BodyCallKeeps, NotBoundary
<1>6. CASE KhHttpRequestSetRawBody
  <2>1. PICK type \in {"keep", "raw"}, short \in {"none", "body", "header"} : CalledFor(SetRawBody(request, <<"r">>, type, short), <<"r">>)
    BY <1>6 DEF KhHttpRequestSetRawBody
  <2>2. PICK data \in Seq(Symbols) : data = <<"r">> /\ data[1] = "r"
    BY <1>2, Texts
  <2>3. type \in Types
    BY DEF Types
  <2>4. SetsBody(SetRawBody(request, data, type, short), data, type)
    BY <1>1, <2>3, SetRawFacts
  <2>5. QED
    BY <2>1, <2>2, <2>4, BodyCallKeeps, NotBoundary
<1>7. CASE KhHttpRequestSetUrlEncodedBody
  <2>1. PICK short : CalledFor(SetUrlEncodedBody(request, <<"u">>, <<"u">>, short), <<"u", "=", "u">>)
    BY <1>7 DEF KhHttpRequestSetUrlEncodedBody
  <2>2. PICK u \in Seq(Symbols) : u = <<"u">>
    BY <1>2, Texts
  <2>3. SetsBody(SetUrlEncodedBody(request, u, u, short), (u \o <<"=">>) \o u, "form")
    BY <1>1, SetUrlEncodedFacts
  <2>4. PICK x \in Symbols, e \in Symbols : x = "u" /\ e = "="
    BY <1>2
  <2>5. (<<x>> \o <<e>>) \o <<x>> = <<x, e, x>> /\ <<x, e, x>> \in Seq(Symbols) /\ <<x, e, x>>[1] = x
    <3>1. <<x>> \o <<e>> = <<x, e>> /\ <<x, e>> \o <<x>> = <<x, e, x>>
      BY TwoTexts
    <3>2. <<x, e, x>> \in Seq(Symbols) /\ <<x, e, x>>[1] = x
      BY Texts
    <3>3. QED
      BY <3>1, <3>2
  <2>6. PICK body \in Seq(Symbols) : body = <<"u", "=", "u">> /\ body[1] = "u" /\ (u \o <<"=">>) \o u = body
    BY <2>2, <2>4, <2>5
  <2>7. QED
    BY <2>1, <2>2, <2>3, <2>6, BodyCallKeeps, NotBoundary
<1>8. CASE KhHttpRequestSetMultipartFormDataBody
  <2>1. PICK bd \in Boundaries : bd = Boundary(request.BodyBuildCounter + 1)
    BY BoundaryIn
  <2>2. PICK file, short : CalledFor(SetMultipartFormDataBody(request, file, short), <<bd, "f", bd>>)
    BY <1>8, <2>1 DEF KhHttpRequestSetMultipartFormDataBody
  <2>3. SetsBody(SetMultipartFormDataBody(request, file, short), <<bd, "f", bd>>, bd)
    BY <1>1, <2>1, SetMultipartFacts
  <2>4. bd \in Symbols /\ bd # "keep"
    BY <2>1, BoundaryIn
  <2>5. PICK body \in Seq(Symbols) : body = <<bd, "f", bd>> /\ body[1] = bd
    <3>1. PICK f \in Symbols : f = "f"
      BY <1>2
    <3>2. <<bd, f, bd>> \in Seq(Symbols) /\ <<bd, f, bd>>[1] = bd
      BY <2>4, Texts
    <3>3. QED
      BY <3>1, <3>2
  <2>6. QED
    BY <2>2, <2>3, <2>4, <2>5, BodyCallKeeps
<1>9. CASE KhHttpRequestSetFileBody
  <2>1. PICK file, short : CalledFor(SetFileBody(request, <<"f">>, file, short), <<"f">>)
    BY <1>9 DEF KhHttpRequestSetFileBody
  <2>2. PICK data \in Seq(Symbols) : data = <<"f">> /\ data[1] = "f"
    BY <1>2, Texts
  <2>3. SetsBody(SetFileBody(request, data, file, short), data, "file")
    BY <1>1, SetFileFacts
  <2>4. QED
    BY <2>1, <2>2, <2>3, BodyCallKeeps, NotBoundary
<1>10. QED
  BY <1>3, <1>4, <1>5, <1>6, <1>7, <1>8, <1>9

\* The caller's buffer is the caller's.
LEMMA ReuseKeeps ==
    ASSUME CallerInv, Reuse
    PROVE  CallerInv'
<1>1. /\ request' = request /\ buffer' = <<"b">> /\ request.Body = "borrowed"
      /\ meant' = [meant EXCEPT !.body = <<"b">>] /\ DOMAIN meant = {"body", "status"}
      /\ Handle(request) /\ Lent(request) /\ Store(request) /\ Sound(request)
  BY DEF Reuse, CallerInv, Handle
<1>2. DOMAIN meant' = {"body", "status"} /\ meant'.body = <<"b">>
  BY <1>1
<1>3. Content(request, <<"b">>) = <<"b">>
  BY <1>1, ContentFacts DEF Lent
<1>4. <<"b">> \in Seq(Symbols) /\ <<"b">>[1] \notin Boundaries
  <2>1. "b" \in Symbols /\ "b" \notin Boundaries
    BY NotBoundary DEF Symbols
  <2>2. QED
    BY <2>1
<1>5. Kept(request', buffer', meant')
  BY <1>1, <1>2, <1>3, <1>4 DEF Kept, Agree
<1>6. QED
  BY <1>1, <1>2, <1>4, <1>5 DEF CallerInv

\* The caller's part of the invariant.
LEMMA CallerKept ==
    ASSUME CallerInv, [Next]_requestVars
    PROVE  CallerInv'
<1>1. CASE CallerStep
  BY <1>1, PlainCalls, BodyCalls, ReuseKeeps DEF CallerStep
<1>2. CASE UNCHANGED <<request, buffer, meant>>
  BY <1>2 DEF CallerInv
<1>3. CallerStep \/ UNCHANGED <<request, buffer, meant>>
  BY DEF Next, CallerStep, requestVars, KhHttpSendSync, KhHttpSendAsync, SendSingleHttpRequest, Answered, Redirected
<1>4. QED
  BY <1>1, <1>2, <1>3

-----------------------------------------------------------------------------
(* Copies and redirects.                                                   *)

\* A body of the request's own does not depend on the caller's buffer.
LEMMA OwnContent ==
    ASSUME NEW r, Handle(r), r.Body # "borrowed", NEW b, NEW c
    PROVE  Content(r, b) = Content(r, c)
<1>1. Store(r) /\ Sound(r)
  BY DEF Handle
<1>2. QED
  BY <1>1, ContentFacts

\* What is written of a request.
LEMMA WrittenFacts ==
    ASSUME NEW r, NEW t, r.Url = {t}
    PROVE  LET w == Written(r)
           IN  /\ w.method = r.Method /\ w.target = t /\ w.headers = r.Headers /\ w.body = Content(r, buffer)
               /\ w.name = IF r.ServerName \in {NullName, OwnHost} THEN t.host ELSE r.ServerName
<1>1. (CHOOSE u \in r.Url : TRUE) = t
  OBVIOUS
<1>2. ServerName(r) = IF r.ServerName \in {NullName, OwnHost} THEN t.host ELSE r.ServerName
  BY <1>1 DEF ServerName, Host
<1>3. PICK w : w = Written(r)
  OBVIOUS
<1>4. /\ w.method = r.Method /\ w.target = (CHOOSE u \in r.Url : TRUE) /\ w.headers = r.Headers
      /\ w.body = Content(r, buffer) /\ w.name = ServerName(r)
  BY <1>3 DEF Written
<1>5. QED
  BY <1>1, <1>2, <1>3, <1>4

\* Requests that agree in all but the memory of their bodies are written alike.
LEMMA SameWritten ==
    ASSUME NEW r, NEW d, SameFrame(r, d), d.Headers = r.Headers, Content(d, buffer) = Content(r, buffer)
    PROVE  Written(d) = Written(r)
  BY DEF SameFrame, Written, ServerName, Host

\* A copy is the same request, in memory of its own.
LEMMA CloneFacts ==
    ASSUME NEW r, Handle(r), Content(r, buffer) \in Seq(Symbols), NEW short
    PROVE  LET g == CloneRequestForAsync(r, short)
           IN  \/ g.status = NoMemory
               \/ /\ g.status = "success" /\ Handle(g.r) /\ g.r.Body # "borrowed"
                  /\ Content(g.r, buffer) = Content(r, buffer) /\ Written(g.r) = Written(r)
<1>1. PICK bare : bare = [NewRequest EXCEPT !.Method = r.Method, !.Url = r.Url, !.HasTlsOverride = r.HasTlsOverride,
                                            !.ServerName = r.ServerName, !.BodyMode = r.BodyMode]
  OBVIOUS
<1>2. /\ DOMAIN bare = Fields /\ bare.Method = r.Method /\ bare.Url = r.Url /\ bare.HasTlsOverride = r.HasTlsOverride
      /\ bare.ServerName = r.ServerName /\ bare.BodyMode = r.BodyMode /\ bare.OwnedBody = <<>>
      /\ bare.OwnedBodyCapacity = 0 /\ bare.BodyLength = 0 /\ bare.Body = "null"
  BY <1>1 DEF NewRequest, Fields
<1>3. Store(bare)
  BY <1>2 DEF Store
<1>4. PICK data \in Seq(Symbols) : data = Content(r, buffer)
  OBVIOUS
<1>5. PICK bodied : bodied = IF r.HasBody /\ r.BodyLength # 0
                             THEN AppendOwnedBody(BeginOwnedBodyBuild(bare), data, short)
                             ELSE Result("success", [bare EXCEPT !.HasBody = r.HasBody])
  OBVIOUS
<1>6. PICK g : g = CloneRequestForAsync(r, short)
  OBVIOUS
<1>7. g = IF bodied.status # "success" \/ short = "header" THEN Result(NoMemory, r)
          ELSE Result("success", [bodied.r EXCEPT !.Headers = r.Headers, !.Trailers = r.Trailers])
  BY <1>1, <1>4, <1>5, <1>6 DEF CloneRequestForAsync
<1>8. CASE bodied.status # "success" \/ short = "header"
  BY <1>6, <1>7, <1>8 DEF Result
<1>9. CASE ~(bodied.status # "success" \/ short = "header")
  <2>1. PICK e : e = bodied.r
    OBVIOUS
  <2>2. Store(r) /\ Sound(r) /\ DOMAIN r = Fields /\ r.Headers \in Seq(HeaderRecords) /\ Addressed(r)
    BY DEF Handle
  <2>3. /\ DOMAIN e = Fields /\ e.Method = r.Method /\ e.Url = r.Url /\ e.HasTlsOverride = r.HasTlsOverride
        /\ e.ServerName = r.ServerName /\ e.BodyMode = r.BodyMode
        /\ Store(e) /\ Sound(e) /\ Content(e, buffer) = data /\ e.Body # "borrowed"
    <3>1. CASE r.HasBody /\ r.BodyLength # 0
      <4>1. bodied = AppendOwnedBody(BeginOwnedBodyBuild(bare), data, short)
        BY <1>5, <3>1
      <4>2. Builds(bare, bodied, data)
        BY <1>2, <1>3, <4>1, FirstPiece
      <4>3. DOMAIN e = Fields /\ SameFrame(bare, e) /\ Store(e) /\ Built(e, data)
        BY <1>9, <2>1, <4>2 DEF Builds
      <4>4. Sound(e) /\ Content(e, buffer) = data
        BY <4>3, BuiltContent
      <4>5. e.Body # "borrowed"
        BY <4>3 DEF Built
      <4>6. QED
        BY <1>2, <4>3, <4>4, <4>5 DEF SameFrame
    <3>2. CASE ~(r.HasBody /\ r.BodyLength # 0)
      <4>1. e = [bare EXCEPT !.HasBody = r.HasBody]
        BY <1>5, <2>1, <3>2 DEF Result
      <4>2. /\ DOMAIN e = Fields /\ e.Method = r.Method /\ e.Url = r.Url /\ e.HasTlsOverride = r.HasTlsOverride
            /\ e.ServerName = r.ServerName /\ e.BodyMode = r.BodyMode /\ e.OwnedBody = <<>>
            /\ e.OwnedBodyCapacity = 0 /\ e.BodyLength = 0 /\ e.Body = "null"
        BY <1>2, <4>1 DEF Fields, NewRequest
      <4>3. Store(e) /\ Sound(e)
        BY <4>2 DEF Store, Sound
      <4>4. Content(e, buffer) = <<>>
        BY <4>2, <4>3, ContentFacts
      <4>5. r.BodyLength = 0
        BY <2>2, <3>2 DEF Sound
      <4>6. data = <<>>
        BY <1>4, <2>2, <4>5, ContentFacts
      <4>7. QED
        BY <4>2, <4>3, <4>4, <4>6
    <3>3. QED
      BY <3>1, <3>2
  <2>4. PICK d : d = [e EXCEPT !.Headers = r.Headers, !.Trailers = r.Trailers]
    OBVIOUS
  <2>5. /\ DOMAIN d = Fields /\ d.Method = e.Method /\ d.Url = e.Url /\ d.HasTlsOverride = e.HasTlsOverride
        /\ d.ServerName = e.ServerName /\ d.BodyMode = e.BodyMode /\ SameBody(e, d)
        /\ d.Headers = r.Headers /\ d.Trailers = r.Trailers
    BY <2>3, <2>4 DEF Fields, NewRequest, SameBody
  <2>6. Store(d) /\ Sound(d) /\ Content(d, buffer) = data /\ d.Body # "borrowed"
    BY <2>3, <2>5, SameBodyFacts DEF SameBody
  <2>7. SameFrame(r, d) /\ Handle(d)
    BY <2>2, <2>3, <2>5, <2>6 DEF SameFrame, Handle, Addressed
  <2>8. Written(d) = Written(r)
    BY <1>4, <2>5, <2>6, <2>7, SameWritten
  <2>9. g.status = "success" /\ g.r = d
    BY <1>7, <1>9, <2>1, <2>4 DEF Result
  <2>10. QED
    BY <1>4, <1>6, <2>6, <2>7, <2>8, <2>9
<1>10. QED
  BY <1>8, <1>9

\* Where the request goes, and whose credentials it carries there.
LEMMA FollowsItself ==
    ASSUME NEW w
    PROVE  Follows(w, w, FALSE)
  BY DEF Follows

\* What a move to another target leaves of a request.
Moved(r, old, new, moved) ==
    /\ Handle(moved) /\ moved.Url = {new} /\ moved.Method = r.Method /\ moved.Body = r.Body
    /\ Content(moved, buffer) = Content(r, buffer)
    /\ \A n : Values(moved.Headers, n) \subseteq Values(r.Headers, n)
    /\ old # new => \A n \in Sensitive : Values(moved.Headers, n) = {}
    /\ old # new /\ new.scheme = "https" => moved.ServerName = OwnHost
    /\ old = new => moved.ServerName \in {OwnHost, r.ServerName}

\* The request is moved: its credentials stay behind, and its name when a host is left.
LEMMA MovedFacts ==
    ASSUME NEW r, Handle(r), NEW old \in Targets, r.Url = {old}, NEW new \in Targets, NEW moved, moved = MoveTo(r, old, new)
    PROVE  Moved(r, old, new, moved)
<1>1. DOMAIN r = Fields /\ r.Headers \in Seq(HeaderRecords)
  BY DEF Handle
<1>2. PICK there : there = SetUrl(r, new)
  OBVIOUS
<1>3. /\ DOMAIN there = Fields /\ there.Url = {new} /\ SameBody(r, there) /\ there.Headers = r.Headers
      /\ there.Method = r.Method /\ there.ServerName \in {OwnHost, r.ServerName}
  BY <1>1, <1>2, SetUrlFacts
<1>4. Handle(there) /\ Content(there, buffer) = Content(r, buffer) /\ there.Body = r.Body
  BY <1>3, PlainChange DEF Addressed, SameBody
<1>5. CASE old = new
  <2>1. moved = there
    BY <1>2, <1>5 DEF MoveTo, IsCrossOriginRedirect
  <2>2. QED
    BY <1>3, <1>4, <1>5, <2>1 DEF Moved
<1>6. CASE old # new
  <2>1. PICK own : own = IF new.scheme = "https" THEN [there EXCEPT !.ServerName = OwnHost] ELSE there
    OBVIOUS
  <2>2. /\ DOMAIN own = Fields /\ own.Url = {new} /\ SameBody(there, own) /\ own.Headers = r.Headers
        /\ own.Method = r.Method /\ (new.scheme = "https" => own.ServerName = OwnHost)
    BY <1>3, <2>1 DEF Fields, NewRequest, SameBody
  <2>3. PICK hs : hs = Without(own.Headers, Sensitive)
    OBVIOUS
  <2>4. /\ hs \in Seq(HeaderRecords) /\ \A n : Values(hs, n) \subseteq Values(r.Headers, n)
        /\ \A n \in Sensitive : Values(hs, n) = {}
    <3>1. hs = Without(r.Headers, Sensitive)
      BY <2>2, <2>3
    <3>2. QED
      BY <1>1, <3>1, KeptValues
  <2>5. moved = [own EXCEPT !.Headers = hs]
    BY <1>2, <1>6, <2>1, <2>3 DEF MoveTo, IsCrossOriginRedirect, RemoveRedirectSensitiveHeaders
  <2>6. /\ DOMAIN moved = Fields /\ moved.Url = {new} /\ SameBody(own, moved) /\ moved.Headers = hs
        /\ moved.Method = r.Method /\ moved.ServerName = own.ServerName
    BY <2>2, <2>5 DEF Fields, NewRequest, SameBody
  <2>7. SameBody(there, moved) /\ Store(there) /\ Sound(there)
    BY <1>4, <2>2, <2>6 DEF SameBody, Handle
  <2>8. Store(moved) /\ Sound(moved) /\ Content(moved, buffer) = Content(there, buffer) /\ moved.Body = there.Body
    BY <2>7, SameBodyFacts DEF SameBody
  <2>9. Handle(moved)
    BY <2>4, <2>6, <2>8 DEF Handle, Addressed
  <2>10. QED
    BY <1>4, <1>6, <2>2, <2>4, <2>6, <2>8, <2>9 DEF Moved
<1>7. QED
  BY <1>5, <1>6

\* A redirect refused or applied.
Applied(a, first, rewritten) ==
    \/ a.status = "not supported"
    \/ /\ a.status = "success" /\ Handle(a.r) /\ a.r.Body # "borrowed"
       /\ Content(a.r, buffer) \in Seq(Symbols) /\ Follows(Written(a.r), first, rewritten)

\* What a redirect makes of a request that was in order.
LEMMA RedirectFacts ==
    ASSUME NEW r, Handle(r), r.Body # "borrowed", Content(r, buffer) \in Seq(Symbols),
           NEW first, NEW rewritten \in BOOLEAN, Follows(Written(r), first, rewritten),
           NEW code, NEW new \in Targets, NEW location, location = {new}
    PROVE  Applied(ApplyRedirectToRequest(r, code, location), first, rewritten \/ ShouldRewriteRedirectToGet(code, r.Method))
<1>1. PICK old \in Targets : r.Url = {old}
  BY DEF Handle, Addressed
<1>2. (CHOOSE t \in r.Url : TRUE) = old /\ (CHOOSE t \in location : TRUE) = new /\ location # {}
  BY <1>1
<1>3. PICK moved : moved = MoveTo(r, old, new)
  OBVIOUS
<1>4. /\ Handle(moved) /\ moved.Url = {new} /\ moved.Method = r.Method /\ moved.Body = r.Body
      /\ Content(moved, buffer) = Content(r, buffer)
      /\ \A n : Values(moved.Headers, n) \subseteq Values(r.Headers, n)
      /\ old # new => \A n \in Sensitive : Values(moved.Headers, n) = {}
      /\ old # new /\ new.scheme = "https" => moved.ServerName = OwnHost
      /\ old = new => moved.ServerName \in {OwnHost, r.ServerName}
  <2>1. moved = MoveTo(r, old, new)
    BY <1>3
  <2>2. Moved(r, old, new, moved)
    BY <1>1, <2>1, MovedFacts
  <2>3. QED
    BY <2>2 DEF Moved
<1>5. PICK a : a = ApplyRedirectToRequest(r, code, location)
  OBVIOUS
<1>6. PICK rewrites \in BOOLEAN : rewrites = ShouldRewriteRedirectToGet(code, r.Method)
  BY DEF ShouldRewriteRedirectToGet
<1>7. \/ a.status = "not supported"
      \/ /\ a.status = "success" /\ ~IsHttpsDowngradeRedirect(old, new)
         /\ a.r = IF rewrites THEN RewriteToGet(moved) ELSE moved
  <2>1. CASE IsHttpsDowngradeRedirect(old, new)
    BY <1>2, <1>5, <2>1 DEF ApplyRedirectToRequest, Result
  <2>2. CASE /\ ~IsHttpsDowngradeRedirect(old, new)
             /\ IsCrossOriginRedirect(old, new) /\ r.HasTlsOverride /\ ServerName(r) # old.host
    BY <1>2, <1>5, <2>2 DEF ApplyRedirectToRequest, Result
  <2>3. CASE /\ ~IsHttpsDowngradeRedirect(old, new)
             /\ ~(IsCrossOriginRedirect(old, new) /\ r.HasTlsOverride /\ ServerName(r) # old.host)
    <3>1. CASE rewrites
      <4>1. a = Result("success", RewriteToGet(moved))
        BY <1>2, <1>3, <1>5, <1>6, <2>3, <3>1 DEF ApplyRedirectToRequest
      <4>2. QED
        BY <2>3, <3>1, <4>1 DEF Result
    <3>2. CASE ~rewrites
      <4>1. a = Result("success", moved)
        BY <1>2, <1>3, <1>5, <1>6, <2>3, <3>2 DEF ApplyRedirectToRequest
      <4>2. QED
        BY <2>3, <3>2, <4>1 DEF Result
    <3>3. QED
      BY <3>1, <3>2
  <2>4. QED
    BY <2>1, <2>2, <2>3
<1>8. ASSUME a.status # "not supported"
       PROVE  /\ Handle(a.r) /\ a.r.Body # "borrowed" /\ a.r.Url = {new} /\ a.r.ServerName = moved.ServerName
              /\ \A n : Values(a.r.Headers, n) \subseteq Values(moved.Headers, n)
              /\ rewrites => a.r.Method = "GET" /\ Content(a.r, buffer) = <<>> /\ Values(a.r.Headers, "Content-Type") = {}
              /\ ~rewrites => a.r = moved
  <2>1. CASE ~rewrites
    BY <1>4, <1>7, <1>8, <2>1
  <2>2. CASE rewrites
    <3>1. PICK e : e = [moved EXCEPT !.Method = "GET"]
      OBVIOUS
    <3>2. DOMAIN moved = Fields
      BY <1>4 DEF Handle
    <3>3. /\ DOMAIN e = Fields /\ e.Method = "GET" /\ e.Url = {new} /\ SameBody(moved, e) /\ e.Headers = moved.Headers
          /\ e.ServerName = moved.ServerName
      BY <1>4, <3>1, <3>2 DEF Fields, NewRequest, SameBody
    <3>4. Handle(e)
      BY <1>4, <3>3, PlainChange DEF Addressed
    <3>5. PICK d : d = ClearBody(e)
      OBVIOUS
    <3>6. /\ Handle(d) /\ SameFrame(e, d) /\ d.Body = "null" /\ Content(d, buffer) = <<>>
          /\ \A n : Values(d.Headers, n) \subseteq Values(e.Headers, n)
          /\ Values(d.Headers, "Content-Type") = {}
      BY <3>4, <3>5, ClearBodyFacts
    <3>7. a.r = d
      BY <1>7, <1>8, <2>2, <3>1, <3>5 DEF RewriteToGet
    <3>8. QED
      BY <2>2, <3>3, <3>6, <3>7 DEF SameFrame
  <2>3. QED
    BY <2>1, <2>2
<1>9. ASSUME a.status # "not supported"
       PROVE  Content(a.r, buffer) \in Seq(Symbols)
  <2>1. CASE rewrites
    <3>1. Content(a.r, buffer) = <<>>
      BY <1>8, <1>9, <2>1
    <3>2. <<>> \in Seq(Symbols)
      OBVIOUS
    <3>3. QED
      BY <3>1, <3>2
  <2>2. CASE ~rewrites
    BY <1>4, <1>8, <1>9, <2>2
  <2>3. QED
    BY <2>1, <2>2
<1>10. ASSUME a.status # "not supported"
       PROVE  Follows(Written(a.r), first, rewritten \/ rewrites)
  <2>1. PICK v : v = Written(r)
    OBVIOUS
  <2>2. /\ v.method = r.Method /\ v.target = old /\ v.headers = r.Headers /\ v.body = Content(r, buffer)
        /\ v.name = IF r.ServerName \in {NullName, OwnHost} THEN old.host ELSE r.ServerName
    BY <1>1, <2>1, WrittenFacts
  <2>3. PICK w : w = Written(a.r)
    OBVIOUS
  <2>4. /\ w.method = a.r.Method /\ w.target = new /\ w.headers = a.r.Headers /\ w.body = Content(a.r, buffer)
        /\ w.name = IF a.r.ServerName \in {NullName, OwnHost} THEN new.host ELSE a.r.ServerName
    <3>1. PICK e : e = a.r
      OBVIOUS
    <3>2. e.Url = {new} /\ w = Written(e)
      BY <1>8, <1>10, <2>3, <3>1
    <3>3. /\ w.method = e.Method /\ w.target = new /\ w.headers = e.Headers /\ w.body = Content(e, buffer)
          /\ w.name = IF e.ServerName \in {NullName, OwnHost} THEN new.host ELSE e.ServerName
      BY <3>2, WrittenFacts
    <3>4. QED
      BY <3>1, <3>3
  <2>5. Follows(v, first, rewritten)
    BY <2>1
  <2>6. w.target # first.target => \A h \in Sensitive : Values(w.headers, h) = {}
    <3>1. \A n : Values(w.headers, n) \subseteq Values(moved.Headers, n)
      BY <1>8, <1>10, <2>4
    <3>2. CASE old # new
      BY <1>4, <3>1, <3>2
    <3>3. CASE old = new
      <4>1. new # first.target => \A h \in Sensitive : Values(r.Headers, h) = {}
        BY <2>2, <2>5, <3>3 DEF Follows
      <4>2. QED
        BY <1>4, <2>4, <3>1, <4>1
    <3>4. QED
      BY <3>2, <3>3
  <2>7. first.target.scheme = "https" => w.target.scheme = "https"
    <3>1. first.target.scheme = "https" => old.scheme = "https"
      BY <2>2, <2>5 DEF Follows
    <3>2. old.scheme = "https" => new.scheme # "http"
      BY <1>7, <1>10 DEF IsHttpsDowngradeRedirect
    <3>3. new.scheme \in {"http", "https"}
      BY RequestAssumption
    <3>4. QED
      BY <2>4, <3>1, <3>2, <3>3
  <2>8. w.target.scheme = "https" => w.name = w.target.host \/ (w.name = first.name /\ w.target = first.target)
    <3>1. a.r.ServerName = moved.ServerName
      BY <1>8, <1>10
    <3>2. CASE old # new
      BY <1>4, <2>4, <3>1, <3>2
    <3>3. CASE old = new
      <4>1. w.name = new.host \/ w.name = v.name
        BY <1>4, <2>2, <2>4, <3>1, <3>3
      <4>2. new.scheme = "https" => v.name = new.host \/ (v.name = first.name /\ new = first.target)
        BY <2>2, <2>5, <3>3 DEF Follows
      <4>3. QED
        BY <2>4, <4>1, <4>2
    <3>4. QED
      BY <3>2, <3>3
  <2>9. rewritten \/ rewrites => w.method = "GET" /\ w.body = <<>> /\ Values(w.headers, "Content-Type") = {}
    <3>1. CASE rewrites
      BY <1>8, <1>10, <2>4, <3>1
    <3>2. CASE rewritten /\ ~rewrites
      <4>1. r.Method = "GET" /\ Content(r, buffer) = <<>> /\ Values(r.Headers, "Content-Type") = {}
        BY <2>2, <2>5, <3>2 DEF Follows
      <4>2. a.r = moved
        BY <1>8, <1>10, <3>2
      <4>3. QED
        BY <1>4, <2>4, <4>1, <4>2
    <3>3. QED
      BY <3>1, <3>2
  <2>10. Follows(w, first, rewritten \/ rewrites)
    BY <2>6, <2>7, <2>8, <2>9 DEF Follows
  <2>11. QED
    BY <2>3, <2>10
<1>11. Applied(a, first, rewritten \/ rewrites)
  BY <1>7, <1>8, <1>9, <1>10 DEF Applied
<1>12. QED
  BY <1>5, <1>6, <1>11

-----------------------------------------------------------------------------
(* The send.                                                               *)

\* No send is in progress at first.
LEMMA SendInit == Init => SendInv
<1> SUFFICES ASSUME Init PROVE SendInv
  OBVIOUS
<1>1. sending = NotSending /\ wire = <<>>
  BY DEF Init, NothingWritten
<1>2. /\ DOMAIN sending = DOMAIN NotSending /\ sending.phase = "idle" /\ sending.redirects = 0
      /\ sending.async = FALSE /\ sending.cloned = FALSE /\ sending.rewritten = FALSE
  BY <1>1 DEF NotSending
<1>3. ~Underway
  BY <1>2 DEF Underway
<1>4. /\ sending.async \in BOOLEAN /\ sending.cloned \in BOOLEAN /\ sending.rewritten \in BOOLEAN
      /\ ~sending.cloned /\ ~sending.rewritten
  BY <1>2
<1>5. sending.redirects \in Nat /\ ~(sending.redirects > 0)
  BY <1>2
<1>6. QED
  BY <1>1, <1>2, <1>3, <1>4, <1>5 DEF SendInv

\* While a send has a request of its own, nothing the caller does changes what is written of it.
LEMMA CallerLeavesSend ==
    ASSUME RequestInv, CallerStep
    PROVE  SendInv'
<1>1. MayCall /\ sending' = sending /\ wire' = wire
  BY DEF CallerStep, Called, CalledFor, Reuse, KhHttpRequestSetUrl, KhHttpRequestSetMethod, KhHttpRequestSetHeader,
         KhHttpRequestSetBody, KhHttpRequestSetBodyMode, KhHttpRequestAddTrailer, KhHttpRequestClearBody,
         KhHttpRequestSetTextBody, KhHttpRequestSetRawBody, KhHttpRequestSetUrlEncodedBody,
         KhHttpRequestSetMultipartFormDataBody, KhHttpRequestSetFileBody, KhHttpRequestSetTlsOptions
<1>2. SendInv
  BY DEF RequestInv
<1>3. Underway' <=> Underway
  BY <1>1 DEF Underway
<1>4. ASSUME Underway
      PROVE  Current' /\ Written(sending.current)' = Written(sending.current)
  <2>1. PICK r : r = sending.current
    OBVIOUS
  <2>2. sending.async
    BY <1>1, <1>4 DEF MayCall, Underway
  <2>3. Current
    BY <1>2, <1>4 DEF SendInv
  <2>4. /\ Handle(r) /\ r.Body # "borrowed" /\ Content(r, buffer) \in Seq(Symbols)
        /\ sending.redirects = 0 => sending.first = <<Written(r)>>
        /\ sending.redirects > 0 => Follows(Written(r), sending.first[1], sending.rewritten)
    BY <2>1, <2>2, <2>3 DEF Current
  <2>5. Content(r, buffer') = Content(r, buffer)
    BY <2>4, OwnContent
  <2>6. sending'.current = r
    BY <1>1, <2>1
  <2>7. Written(sending.current)' = Written(r)
    BY <2>5, <2>6 DEF Written
  <2>8. Current'
    BY <1>1, <2>2, <2>4, <2>5, <2>6, <2>7 DEF Current
  <2>9. QED
    BY <2>1, <2>7, <2>8
<1>5. QED
  BY <1>1, <1>2, <1>3, <1>4 DEF SendInv

\* A send that works on the caller's request.
LEMMA SyncStarts ==
    ASSUME RequestInv, KhHttpSendSync
    PROVE  SendInv'
<1>1. /\ sending.phase = "idle" /\ wire' = wire /\ request' = request /\ buffer' = buffer
      /\ sending' = [NotSending EXCEPT !.phase = "send", !.current = request, !.first = <<Written(request)>>]
  BY DEF KhHttpSendSync
<1>2. /\ DOMAIN sending' = DOMAIN NotSending /\ sending'.phase = "send" /\ sending'.current = request
      /\ sending'.first = <<Written(request)>> /\ sending'.redirects = 0 /\ sending'.async = FALSE
      /\ sending'.cloned = FALSE /\ sending'.rewritten = FALSE /\ sending'.status = "none"
  BY <1>1 DEF NotSending
<1>3. wire' = <<>>
  BY <1>1 DEF RequestInv, SendInv
<1>4. Handle(request) /\ Content(request, buffer) \in Seq(Symbols)
  <2>1. <<>> \in Seq(Symbols)
    OBVIOUS
  <2>2. QED
    BY <2>1 DEF RequestInv, CallerInv, Kept
<1>5. Written(sending.current)' = Written(request)
  BY <1>1, <1>2 DEF Written
<1>6. Current'
  BY <1>1, <1>2, <1>4, <1>5 DEF Current
<1>7. /\ sending'.async \in BOOLEAN /\ sending'.cloned \in BOOLEAN /\ sending'.rewritten \in BOOLEAN
      /\ ~sending'.cloned /\ ~sending'.rewritten
  BY <1>2
<1>8. sending'.redirects \in Nat /\ ~(sending'.redirects > 0)
  BY <1>2
<1>9. QED
  BY <1>2, <1>3, <1>6, <1>7, <1>8 DEF SendInv

\* A send that works on a copy.
LEMMA AsyncStarts ==
    ASSUME RequestInv, KhHttpSendAsync
    PROVE  SendInv'
<1>1. PICK short \in {"none", "body", "header"} :
        LET clone == CloneRequestForAsync(request, short)
            given == [NotSending EXCEPT !.async = TRUE, !.first = <<Written(request)>>]
        IN sending' = IF clone.status = "success"
                      THEN [given EXCEPT !.phase = "send", !.current = clone.r]
                      ELSE [given EXCEPT !.phase = "done", !.status = clone.status]
  BY DEF KhHttpSendAsync
<1>2. sending.phase = "idle" /\ wire' = wire /\ request' = request /\ buffer' = buffer
  BY DEF KhHttpSendAsync
<1>3. PICK clone : clone = CloneRequestForAsync(request, short)
  OBVIOUS
<1>4. Handle(request) /\ Content(request, buffer) \in Seq(Symbols)
  <2>1. <<>> \in Seq(Symbols)
    OBVIOUS
  <2>2. QED
    BY <2>1 DEF RequestInv, CallerInv, Kept
<1>5. \/ clone.status = NoMemory
      \/ /\ clone.status = "success" /\ Handle(clone.r) /\ clone.r.Body # "borrowed"
         /\ Content(clone.r, buffer) = Content(request, buffer) /\ Written(clone.r) = Written(request)
  BY <1>3, <1>4, CloneFacts
<1>6. PICK given : given = [NotSending EXCEPT !.async = TRUE, !.first = <<Written(request)>>]
  OBVIOUS
<1>7. /\ DOMAIN given = DOMAIN NotSending /\ given.first = <<Written(request)>> /\ given.redirects = 0
      /\ given.async = TRUE /\ given.cloned = FALSE /\ given.rewritten = FALSE /\ given.status = "none"
  BY <1>6 DEF NotSending
<1>8. wire' = <<>>
  BY <1>2 DEF RequestInv, SendInv
<1>9. CASE clone.status = "success"
  <2>1. sending' = [given EXCEPT !.phase = "send", !.current = clone.r]
    BY <1>1, <1>3, <1>6, <1>9
  <2>2. /\ DOMAIN sending' = DOMAIN NotSending /\ sending'.phase = "send" /\ sending'.current = clone.r
        /\ sending'.first = <<Written(request)>> /\ sending'.redirects = 0 /\ sending'.async = TRUE
        /\ sending'.cloned = FALSE /\ sending'.rewritten = FALSE /\ sending'.status = "none"
    BY <1>7, <2>1 DEF NotSending
  <2>3. Written(sending.current)' = Written(clone.r)
    BY <1>2, <2>2 DEF Written
  <2>4. /\ Handle(clone.r) /\ clone.r.Body # "borrowed" /\ Content(clone.r, buffer) \in Seq(Symbols)
        /\ Written(clone.r) = Written(request)
    BY <1>4, <1>5, <1>9 DEF NoMemory
  <2>5. Current'
    BY <1>2, <2>2, <2>3, <2>4 DEF Current
  <2>6. /\ sending'.async \in BOOLEAN /\ sending'.cloned \in BOOLEAN /\ sending'.rewritten \in BOOLEAN
        /\ ~sending'.cloned /\ ~sending'.rewritten
    BY <2>2
  <2>7. sending'.redirects \in Nat /\ ~(sending'.redirects > 0)
    BY <2>2
  <2>8. QED
    BY <1>8, <2>2, <2>5, <2>6, <2>7 DEF SendInv
<1>10. CASE clone.status # "success"
  <2>1. sending' = [given EXCEPT !.phase = "done", !.status = NoMemory]
    BY <1>1, <1>3, <1>5, <1>6, <1>10
  <2>2. /\ DOMAIN sending' = DOMAIN NotSending /\ sending'.phase = "done" /\ sending'.redirects = 0
        /\ sending'.async = TRUE /\ sending'.cloned = FALSE /\ sending'.rewritten = FALSE
        /\ sending'.status = NoMemory
    BY <1>7, <2>1 DEF NotSending
  <2>3. ~Underway'
    BY <2>2 DEF Underway, NoMemory
  <2>4. /\ sending'.async \in BOOLEAN /\ sending'.cloned \in BOOLEAN /\ sending'.rewritten \in BOOLEAN
        /\ ~sending'.cloned /\ ~sending'.rewritten
    BY <2>2
  <2>5. sending'.redirects \in Nat /\ ~(sending'.redirects > 0)
    BY <2>2
  <2>6. QED
    BY <1>8, <2>2, <2>3, <2>4, <2>5 DEF SendInv, NoMemory
<1>11. QED
  BY <1>9, <1>10

\* The request is written, or refused before anything is.
LEMMA Writes ==
    ASSUME RequestInv, SendSingleHttpRequest
    PROVE  SendInv'
<1>1. SendInv /\ sending.phase = "send" /\ request' = request /\ buffer' = buffer
  BY DEF RequestInv, SendSingleHttpRequest
<1>2. Current
  BY <1>1 DEF SendInv, Underway
<1>3. PICK status : status = BuildHttpRequestOptions(sending.current)
  OBVIOUS
<1>4. status \in {"success", "invalid parameter", "not supported"}
  BY <1>3 DEF BuildHttpRequestOptions
<1>5. /\ DOMAIN sending = DOMAIN NotSending /\ sending.async \in BOOLEAN /\ sending.cloned \in BOOLEAN /\ sending.rewritten \in BOOLEAN
      /\ sending.redirects \in Nat /\ (sending.cloned <=> sending.redirects > 0)
      /\ (sending.redirects = 0 => wire = <<>>) /\ (sending.redirects = 0 => ~sending.rewritten)
      /\ (wire # <<>> => wire[1].body \in Seq(Symbols)) /\ sending.status = "none"
  BY <1>1 DEF SendInv
<1>6. CASE status = "success"
  <2>1. wire' = <<Written(sending.current)>> /\ sending' = [sending EXCEPT !.phase = "answer"]
    BY <1>3, <1>6 DEF SendSingleHttpRequest
  <2>2. /\ DOMAIN sending' = DOMAIN NotSending /\ sending'.phase = "answer" /\ sending'.current = sending.current
        /\ sending'.first = sending.first /\ sending'.redirects = sending.redirects /\ sending'.async = sending.async
        /\ sending'.cloned = sending.cloned /\ sending'.rewritten = sending.rewritten /\ sending'.status = "none"
    BY <1>5, <2>1 DEF NotSending
  <2>3. Written(sending.current)' = Written(sending.current)
    BY <1>1, <2>2 DEF Written
  <2>4. Current'
    BY <1>1, <1>2, <2>2, <2>3 DEF Current
  <2>5. PICK w : w = Written(sending.current)
    OBVIOUS
  <2>6. w.body \in Seq(Symbols) /\ (sending.redirects = 0 => sending.first = <<w>>)
    <3>1. w.body = Content(sending.current, buffer)
      BY <2>5 DEF Written
    <3>2. QED
      BY <1>2, <2>5, <3>1 DEF Current
  <2>7. wire' = <<w>> /\ wire'[1] = w
    BY <2>1, <2>5
  <2>8. QED
    BY <1>5, <2>2, <2>3, <2>4, <2>5, <2>6, <2>7 DEF SendInv
<1>7. CASE status # "success"
  <2>1. wire' = wire /\ sending' = [sending EXCEPT !.phase = "done", !.status = status]
    BY <1>3, <1>7 DEF SendSingleHttpRequest
  <2>2. /\ DOMAIN sending' = DOMAIN NotSending /\ sending'.phase = "done" /\ sending'.status = status
        /\ sending'.redirects = sending.redirects /\ sending'.async = sending.async
        /\ sending'.cloned = sending.cloned /\ sending'.rewritten = sending.rewritten
    BY <1>5, <2>1 DEF NotSending
  <2>3. ~Underway' /\ status # "none"
    BY <1>4, <1>7, <2>2 DEF Underway
  <2>4. QED
    BY <1>5, <2>1, <2>2, <2>3 DEF SendInv
<1>8. QED
  BY <1>6, <1>7

\* A send that ends here has written what it worked on, or has failed.
LEMMA Finishes ==
    ASSUME RequestInv, sending.phase = "answer", NEW status, status # "none", Finish(status),
           UNCHANGED <<request, buffer, wire>>
    PROVE  SendInv'
<1>1. SendInv /\ Current /\ wire = <<Written(sending.current)>>
  BY DEF RequestInv, SendInv, Underway
<1>2. /\ DOMAIN sending = DOMAIN NotSending /\ sending.async \in BOOLEAN /\ sending.cloned \in BOOLEAN
      /\ sending.rewritten \in BOOLEAN /\ sending.redirects \in Nat /\ (sending.cloned <=> sending.redirects > 0)
      /\ (sending.redirects = 0 => ~sending.rewritten) /\ (wire # <<>> => wire[1].body \in Seq(Symbols))
      /\ (wire # <<>> /\ sending.redirects = 0 => wire = sending.first)
  BY <1>1 DEF SendInv
<1>3. /\ DOMAIN sending' = DOMAIN NotSending /\ sending'.phase = "done" /\ sending'.current = sending.current
      /\ sending'.first = sending.first /\ sending'.redirects = sending.redirects /\ sending'.async = sending.async
      /\ sending'.cloned = sending.cloned /\ sending'.rewritten = sending.rewritten /\ sending'.status = status
  BY <1>2 DEF Finish, NotSending
<1>4. Written(sending.current)' = Written(sending.current)
  BY <1>3 DEF Written
<1>5. Current'
  BY <1>1, <1>3, <1>4 DEF Current
<1>6. QED
  BY <1>1, <1>2, <1>3, <1>4, <1>5 DEF SendInv

\* A redirect is followed with a request of the send's own, or the send ends.
LEMMA Redirects ==
    ASSUME RequestInv, Redirected
    PROVE  SendInv'
<1>1. /\ sending.phase = "answer" /\ sending.redirects < MaxRedirects
      /\ UNCHANGED <<request, buffer, meant, calls, wire>>
  BY DEF Redirected
<1>2. PICK code \in {c \in 300 .. 308 : IsRedirectStatus(c)},
           location \in {{}} \cup {{t} : t \in Targets}, short \in {"none", "body"} :
        LET clone == IF sending.cloned THEN Result("success", sending.current)
                     ELSE CloneRequestForAsync(sending.current, short)
            applied == ApplyRedirectToRequest(clone.r, code, location)
        IN IF clone.status # "success" THEN Finish(clone.status)
           ELSE IF applied.status = "invalid parameter" THEN Finish("success")
           ELSE IF applied.status # "success" THEN Finish(applied.status)
           ELSE sending' = [sending EXCEPT !.phase = "send", !.cloned = TRUE, !.current = applied.r,
                                           !.redirects = @ + 1,
                                           !.rewritten = @ \/ ShouldRewriteRedirectToGet(code, clone.r.Method)]
  BY DEF Redirected
<1>3. PICK r : r = sending.current
  OBVIOUS
<1>4. PICK clone : clone = IF sending.cloned THEN Result("success", r) ELSE CloneRequestForAsync(r, short)
  OBVIOUS
<1>5. PICK applied : applied = ApplyRedirectToRequest(clone.r, code, location)
  OBVIOUS
<1>6. \/ clone.status # "success" /\ Finish(clone.status)
      \/ clone.status = "success" /\ applied.status = "invalid parameter" /\ Finish("success")
      \/ /\ clone.status = "success" /\ applied.status \notin {"invalid parameter", "success"}
         /\ Finish(applied.status)
      \/ /\ clone.status = "success" /\ applied.status = "success"
         /\ sending' = [sending EXCEPT !.phase = "send", !.cloned = TRUE, !.current = applied.r,
                                       !.redirects = @ + 1,
                                       !.rewritten = @ \/ ShouldRewriteRedirectToGet(code, clone.r.Method)]
  BY <1>2, <1>3, <1>4, <1>5
<1>7. SendInv /\ Current
  BY <1>1 DEF RequestInv, SendInv, Underway
<1>8. /\ DOMAIN sending = DOMAIN NotSending /\ sending.async \in BOOLEAN /\ sending.cloned \in BOOLEAN
      /\ sending.rewritten \in BOOLEAN /\ sending.redirects \in Nat /\ (sending.cloned <=> sending.redirects > 0)
      /\ (sending.redirects = 0 => ~sending.rewritten) /\ (wire # <<>> => wire[1].body \in Seq(Symbols))
      /\ sending.status = "none"
  BY <1>1, <1>7 DEF SendInv
<1>9. /\ Handle(r) /\ Content(r, buffer) \in Seq(Symbols)
      /\ sending.redirects > 0 => r.Body # "borrowed" /\ Follows(Written(r), sending.first[1], sending.rewritten)
      /\ sending.redirects = 0 => sending.first = <<Written(r)>>
  BY <1>3, <1>7 DEF Current
<1>10. \/ clone.status = NoMemory
       \/ /\ clone.status = "success" /\ Handle(clone.r) /\ clone.r.Body # "borrowed"
          /\ Content(clone.r, buffer) \in Seq(Symbols)
          /\ Follows(Written(clone.r), sending.first[1], sending.rewritten)
  <2>1. CASE sending.cloned
    <3>1. clone.status = "success" /\ clone.r = r
      BY <1>4, <2>1 DEF Result
    <3>2. QED
      BY <1>8, <1>9, <2>1, <3>1
  <2>2. CASE ~sending.cloned
    <3>1. sending.redirects = 0 /\ sending.rewritten = FALSE
      BY <1>8, <2>2
    <3>2. \/ clone.status = NoMemory
          \/ /\ clone.status = "success" /\ Handle(clone.r) /\ clone.r.Body # "borrowed"
             /\ Content(clone.r, buffer) = Content(r, buffer) /\ Written(clone.r) = Written(r)
      BY <1>4, <1>9, <2>2, CloneFacts
    <3>3. PICK w : w = Written(r)
      OBVIOUS
    <3>4. sending.first[1] = w
      BY <1>9, <3>1, <3>3
    <3>5. Follows(w, w, FALSE)
      BY FollowsItself
    <3>6. Follows(Written(r), sending.first[1], sending.rewritten)
      BY <3>1, <3>3, <3>4, <3>5
    <3>7. QED
      BY <1>9, <3>2, <3>6
  <2>3. QED
    BY <1>8, <2>1, <2>2
<1>11. PICK rewritten \in BOOLEAN : rewritten = (sending.rewritten \/ ShouldRewriteRedirectToGet(code, clone.r.Method))
  OBVIOUS
<1>12. ASSUME clone.status = "success", location # {}
      PROVE  Applied(applied, sending.first[1], rewritten)
  <2>1. PICK new \in Targets : location = {new}
    BY <1>2, <1>12
  <2>2. PICK first, c : first = sending.first[1] /\ c = clone.r
    OBVIOUS
  <2>3. PICK was \in BOOLEAN : was = sending.rewritten
    BY <1>8
  <2>4. Handle(c) /\ c.Body # "borrowed" /\ Content(c, buffer) \in Seq(Symbols) /\ Follows(Written(c), first, was)
    BY <1>10, <1>12, <2>2, <2>3 DEF NoMemory
  <2>5. Applied(ApplyRedirectToRequest(c, code, location), first, was \/ ShouldRewriteRedirectToGet(code, c.Method))
    BY <2>1, <2>4, RedirectFacts
  <2>6. QED
    BY <1>5, <1>11, <2>2, <2>3, <2>5
<1>13. CASE clone.status # "success" /\ Finish(clone.status)
  BY <1>1, <1>10, <1>13, Finishes DEF NoMemory
<1>14. CASE Finish("success")
  BY <1>1, <1>14, Finishes
<1>15. CASE clone.status = "success" /\ applied.status \notin {"invalid parameter", "success"} /\ Finish(applied.status)
  <2>1. applied.status = "not supported"
    <3>1. CASE location = {}
      <4>1. applied.status = "invalid parameter"
        BY <1>5, <3>1 DEF ApplyRedirectToRequest, Result
      <4>2. QED
        BY <1>15, <4>1
    <3>2. CASE location # {}
      BY <1>15, <1>12, <3>2 DEF Applied
    <3>3. QED
      BY <3>1, <3>2
  <2>2. QED
    BY <1>1, <1>15, <2>1, Finishes
<1>16. CASE /\ clone.status = "success" /\ applied.status = "success"
            /\ sending' = [sending EXCEPT !.phase = "send", !.cloned = TRUE, !.current = applied.r,
                                          !.redirects = @ + 1,
                                          !.rewritten = @ \/ ShouldRewriteRedirectToGet(code, clone.r.Method)]
  <2>1. location # {}
    BY <1>5, <1>16 DEF ApplyRedirectToRequest, Result
  <2>2. /\ Handle(applied.r) /\ applied.r.Body # "borrowed" /\ Content(applied.r, buffer) \in Seq(Symbols)
        /\ Follows(Written(applied.r), sending.first[1], rewritten)
    BY <1>16, <1>12, <2>1 DEF Applied
  <2>3. sending' = [sending EXCEPT !.phase = "send", !.cloned = TRUE, !.current = applied.r,
                                   !.redirects = sending.redirects + 1, !.rewritten = rewritten]
    BY <1>16, <1>11
  <2>4. /\ DOMAIN sending' = DOMAIN NotSending /\ sending'.phase = "send" /\ sending'.current = applied.r
        /\ sending'.first = sending.first /\ sending'.redirects = sending.redirects + 1
        /\ sending'.async = sending.async /\ sending'.cloned = TRUE /\ sending'.rewritten = rewritten
        /\ sending'.status = "none"
    BY <1>8, <2>3 DEF NotSending
  <2>5. sending'.redirects \in Nat /\ sending'.redirects > 0 /\ sending'.redirects # 0
    BY <1>8, <2>4
  <2>6. Written(sending.current)' = Written(applied.r)
    BY <1>1, <2>4 DEF Written
  <2>7. Current'
    BY <1>1, <2>2, <2>4, <2>5, <2>6 DEF Current
  <2>8. sending'.async \in BOOLEAN /\ sending'.cloned \in BOOLEAN /\ sending'.cloned /\ sending'.rewritten \in BOOLEAN
    BY <1>8, <2>4
  <2>9. wire' = wire
    BY <1>1
  <2>10. QED
    BY <1>8, <2>4, <2>5, <2>7, <2>8, <2>9 DEF SendInv
<1>17. QED
  BY <1>6, <1>13, <1>14, <1>15, <1>16

-----------------------------------------------------------------------------
(***************************************************************************)
(* The inductive invariant.  The handle and its buffer are in order, with  *)
(* the last body asked for if that call succeeded (and then a multipart    *)
(* body under its own boundary), and with that body or none if it failed,  *)
(* also where SetMultipartContentType finds no memory and leaves the body  *)
(* under an earlier boundary; a send works on the caller's request         *)
(* only while the caller has to wait, otherwise on a copy that shares no   *)
(* memory with it; and what it works on follows from what it was given.    *)
(***************************************************************************)
THEOREM RequestInvariant == RequestSpec => []RequestInv
<1>1. Init => RequestInv
  BY CallerInit, SendInit DEF RequestInv
<1>2. RequestInv /\ [Next]_requestVars => RequestInv'
  <2> SUFFICES ASSUME RequestInv, [Next]_requestVars
               PROVE  RequestInv'
    OBVIOUS
  <2>1. CallerInv'
    BY CallerKept DEF RequestInv
  <2>2. SendInv'
    <3>1. CASE CallerStep
      BY <3>1, CallerLeavesSend
    <3>2. CASE KhHttpSendSync
      BY <3>2, SyncStarts
    <3>3. CASE KhHttpSendAsync
      BY <3>3, AsyncStarts
    <3>4. CASE SendSingleHttpRequest
      BY <3>4, Writes
    <3>5. CASE Answered
      <4>1. sending.phase = "answer" /\ Finish("success") /\ UNCHANGED <<request, buffer, wire>>
        BY <3>5 DEF Answered
      <4>2. QED
        BY <4>1, Finishes
    <3>6. CASE Redirected
      BY <3>6, Redirects
    <3>7. CASE UNCHANGED requestVars
      <4>1. Written(sending.current)' = Written(sending.current)
        BY <3>7 DEF requestVars, Written
      <4>2. SendInv /\ sending' = sending /\ wire' = wire /\ request' = request /\ buffer' = buffer
        BY <3>7 DEF requestVars, RequestInv
      <4>3. (Underway' <=> Underway) /\ (Current' <=> Current)
        BY <4>1, <4>2 DEF Underway, Current
      <4>4. QED
        BY <4>1, <4>2, <4>3 DEF SendInv
    <3>8. QED
      BY <3>1, <3>2, <3>3, <3>4, <3>5, <3>6, <3>7 DEF Next, CallerStep
  <2>3. QED
    BY <2>1, <2>2 DEF RequestInv
<1>3. QED
  BY <1>1, <1>2, PTL DEF RequestSpec

(***************************************************************************)
(* SentAsSubmitted for any targets, names, limits and number of calls: the *)
(* first thing a send writes is the request it was given, byte for byte,   *)
(* whatever the caller does with the handle and its buffer meanwhile, and  *)
(* no byte of it comes from freed memory.  A body set by a call that       *)
(* returned success is exactly what it asked for, a multipart one under a  *)
(* Content-Type with its boundary; about the Content-Type a failed call    *)
(* leaves, nothing is claimed.                                             *)
(***************************************************************************)
THEOREM SubmittedIsSent == RequestSpec => []SentAsSubmitted
<1>1. RequestInv => SentAsSubmitted
  <2> SUFFICES ASSUME RequestInv PROVE SentAsSubmitted
    OBVIOUS
  <2>1. wire # <<>> /\ sending.redirects = 0 /\ sending.phase # "idle" => wire = sending.first
    BY DEF RequestInv, SendInv
  <2>2. wire # <<>> => "?" \notin {wire[1].body[i] : i \in 1 .. Len(wire[1].body)}
    <3> SUFFICES ASSUME wire # <<>> PROVE "?" \notin {wire[1].body[i] : i \in 1 .. Len(wire[1].body)}
      OBVIOUS
    <3>1. PICK body \in Seq(Symbols) : body = wire[1].body
      BY DEF RequestInv, SendInv
    <3>2. \A i \in 1 .. Len(body) : body[i] \in Symbols
      OBVIOUS
    <3>3. "?" \notin Symbols
      <4>1. \A n \in 1 .. 3 : Boundary(n) # "?"
        BY DEF Boundary
      <4>2. QED
        BY <4>1 DEF Symbols, Boundaries
    <3>4. QED
      BY <3>1, <3>2, <3>3
  <2>3. Kept(request, buffer, meant)
    BY DEF RequestInv, CallerInv
  <2>4. QED
    BY <2>1, <2>2, <2>3 DEF SentAsSubmitted, Kept, Agree, Boundaries
<1>2. QED
  BY <1>1, RequestInvariant, PTL

(***************************************************************************)
(* RedirectSafe for any targets, names, limits, number of calls and of     *)
(* redirects: over a whole chain of redirects no credential reaches an     *)
(* origin it was not given for, no secure request is continued in the      *)
(* clear, the name asked for in TLS is that of the host, and a request     *)
(* rewritten to GET has lost its body.                                     *)
(***************************************************************************)
THEOREM RedirectsSafe == RequestSpec => []RedirectSafe
<1>1. RequestInv => RedirectSafe
  <2> SUFFICES ASSUME RequestInv, wire # <<>>, sending.redirects > 0, sending.phase \in {"answer", "done"},
                      sending.status \in {"none", "success"}
               PROVE  Follows(wire[1], sending.first[1], sending.rewritten)
    BY DEF RedirectSafe
  <2>1. Underway /\ sending.phase # "send"
    BY DEF RequestInv, SendInv, Underway
  <2>2. Current /\ wire = <<Written(sending.current)>>
    BY <2>1 DEF RequestInv, SendInv
  <2>3. PICK w : w = Written(sending.current)
    OBVIOUS
  <2>4. wire[1] = w
    BY <2>2, <2>3
  <2>5. QED
    BY <2>2, <2>3, <2>4 DEF Current
<1>2. QED
  BY <1>1, RequestInvariant, PTL
===============================================================================
