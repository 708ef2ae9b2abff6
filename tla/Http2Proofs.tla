------------------------------ MODULE Http2Proofs ------------------------------
(***************************************************************************)
(* Proofs about an HTTP/2 connection: both ends agree on the windows, a    *)
(* frame is stored only for a request that waits for it, and a response    *)
(* that is reported is whole.  Any number of requests and slots, any       *)
(* windows, limits, frames and transport failures.                         *)
(***************************************************************************)
EXTENDS Http2Connection, FiniteSetTheorems, WellFoundedInduction, TLAPS

Ids == StreamIds \cup {0}
Fields == DOMAIN NoStream
Ended == {"HalfClosedRemote", "Closed"}

\* The records and the numbers in them.
StreamShape(s) ==
    /\ DOMAIN s = Fields /\ {s.localWindow, s.remoteWindow} \subseteq Int
    /\ {s.BodyLength, s.ResponseHeaderBlockLen} \subseteq Nat /\ s.ResponseContentLength \in Nat \cup {-1}

Shape(c) ==
    /\ DOMAIN c = {"up", "goAwaySent", "goAwayReceived", "nextStreamId", "framesRead", "controlSignals",
                   "InitialWindowSize", "MaxConcurrentStreams", "connectionSendWindow",
                   "connectionRecvWindow", "connectionRecvConsumed", "streams", "block", "ledger"}
    /\ DOMAIN c.streams = Slots /\ \A i \in Slots : StreamShape(c.streams[i])
    /\ DOMAIN c.ledger = {"allowed", "credit", "content", "ended", "faulted"}
    /\ c.ledger.allowed \in [Ids -> Int] /\ c.ledger.credit \in [Ids -> Int] /\ c.ledger.content \in [StreamIds -> Nat]
    /\ {c.connectionSendWindow, c.connectionRecvWindow, c.InitialWindowSize} \subseteq Int
    /\ {c.connectionRecvConsumed, c.MaxConcurrentStreams} \subseteq Nat /\ DOMAIN c.block = 1 .. HeaderBlockCapacity

\* Slot i holds stream id.
Holds(c, i, id) == c.streams[i].InUse /\ c.streams[i].streamId = id

\* A stream is in one slot, and one at a time is in the middle of a header block.
Table(c) ==
    /\ \A i \in Live(c) : c.streams[i].streamId \in StreamIds /\ c.streams[i].streamId < c.nextStreamId
    /\ \A i, j \in Live(c) : c.streams[i].streamId = c.streams[j].streamId => i = j
    /\ \A i, j \in InUseSlots(c) :
          c.streams[i].ExpectingContinuation /\ c.streams[j].ExpectingContinuation => i = j

\* The peer's books on a stream this side does not know are closed.
Blank(c) ==
    \A id \in StreamIds : (\A i \in Slots : ~Holds(c, i, id)) =>
        c.ledger.credit[id] = InitialWindow /\ c.ledger.content[id] = 0
        /\ id \notin c.ledger.ended /\ id \notin c.ledger.faulted

InForce(c) == c.up /\ ~c.goAwaySent

Balanced(c) ==
    /\ InForce(c) => c.connectionSendWindow = c.ledger.allowed[0] /\ c.connectionSendWindow >= 0
    /\ c.connectionRecvWindow >= c.ledger.credit[0]
    /\ c.connectionRecvWindow + c.connectionRecvConsumed <= InitialWindow

StreamBalanced(c, i) ==
    LET s == c.streams[i] IN
    /\ InForce(c) => s.remoteWindow = c.ledger.allowed[s.streamId]
    /\ s.localWindow >= c.ledger.credit[s.streamId]

\* What a stream none of whose frames failed has of its response: its header block so far,
\* all content, and the end if the peer has sent that.
Told(s, block, ended, content) ==
    /\ IF s.ExpectingContinuation THEN \A k \in 1 .. s.ResponseHeaderBlockLen : block[k] = s.streamId
                                  ELSE s.ResponseHeaderBlockLen = 0
    /\ s.BodyLength = content
    /\ ended => s.state \in Ended \/ (s.ExpectingContinuation /\ s.PendingHeaderEndStream)
    /\ s.ExpectingContinuation /\ s.PendingHeaderEndStream => ended
    /\ s.StreamClosed => ended /\ s.state \in Ended /\ s.ResponseContentLength \in {-1, s.BodyLength}

Whole(c, i) ==
    LET id == c.streams[i].streamId IN
    id \notin c.ledger.faulted => Told(c.streams[i], c.block, id \in c.ledger.ended, c.ledger.content[id])

ConnInv(c) ==
    /\ Shape(c) /\ Table(c) /\ Blank(c) /\ Balanced(c)
    /\ \A i \in Live(c) : StreamBalanced(c, i) /\ Whole(c, i)

\* Requests that have no stream yet.
Waiting == {r \in Requests : req[r].pc \in {"idle", "entering", "locking"}}

\* A request that sends its body holds stateLock_ and its stream.
Sending(r) ==
    /\ stateLock = r /\ req[r].slot \in Slots /\ req[r].id # 0 /\ Holds(h2, req[r].slot, req[r].id)
    /\ h2.streams[req[r].slot].state \in {"Open", "HalfClosedRemote"} /\ req[r].body \in Nat

\* Whose the streams are, and that there is a number for every request to come.
Callers ==
    /\ DOMAIN req = Requests /\ \A r \in Requests : DOMAIN req[r] = DOMAIN NoRequest
    /\ \A r \in Requests : req[r].pc \in Over \cup {"entering", "locking"} => req[r].id = 0
    /\ \A r \in Requests : req[r].id # 0 => req[r].id \in StreamIds /\ req[r].id < h2.nextStreamId
    /\ \A r, q \in Requests : req[r].id # 0 /\ req[r].id = req[q].id => r = q
    /\ \A i \in Live(h2) : \E r \in Requests : req[r].id = h2.streams[i].streamId
    /\ \A r \in Requests : req[r].pc = "sending" => Sending(r)
    /\ \A r \in Requests : req[r].pc \in {"entering", "locking"} => req[r].body \in Nat
    /\ \E n \in 1 .. NumRequests + 1 : h2.nextStreamId = 2 * n - 1
    /\ h2.nextStreamId + 2 * Cardinality(Waiting) <= 2 * NumRequests + 1

H2Inv == ConnInv(h2) /\ Callers

-----------------------------------------------------------------------------
(* The stream table.                                                       *)

\* The array of streams is finite.
LEMMA SlotsFinite == IsFiniteSet(Slots) /\ Cardinality(Slots) = Capacity
<1>1. Capacity \in Nat
  BY Http2Assumption
<1>2. IsFiniteSet(1 .. Capacity) /\ Cardinality(1 .. Capacity) = Capacity
  BY <1>1, FS_Interval
<1>3. QED
  BY <1>2 DEF Slots

\* The first free entry of the table is one of the free entries.
LEMMA MinIsMember ==
    ASSUME NEW T \in SUBSET Slots, T # {}
    PROVE  Min(T) \in T
<1>1. T \subseteq Nat
  BY Http2Assumption DEF Slots
<1> DEFINE Less == {ss \in Nat \X Nat : ss[1] < ss[2]}
<1>2. IsWellFoundedOn(Less, Nat)
  BY NatLessThanWellFounded, Zenon DEF OpToRel
<1>3. PICK x \in T : \A y \in T : ~(<<y, x>> \in Less)
  <2> HIDE DEF Less
  <2> QED
    BY <1>1, <1>2, WFMin
<1>4. ASSUME NEW y \in T
      PROVE  x <= y
  <2>1. x \in Nat /\ y \in Nat
    BY <1>1
  <2>2. y < x => <<y, x>> \in Less
    BY <2>1
  <2>3. ~(y < x)
    BY <1>3, <2>2
  <2>4. QED
    BY <2>1, <2>3
<1>5. QED
  BY <1>4 DEF Min

\* The lesser of two numbers.
LEMMA MinOfTwo ==
    ASSUME NEW a \in Int, NEW b \in Int
    PROVE  Min({a, b}) \in {a, b} /\ Min({a, b}) <= a /\ Min({a, b}) <= b
<1>1. \E x \in {a, b} : \A y \in {a, b} : x <= y
  BY a <= b \/ b <= a
<1>2. QED
  BY <1>1 DEF Min

\* ReserveActiveStream finds an entry when the number of streams allows one.
LEMMA ReserveFindsSlot ==
    ASSUME NEW c, c.MaxConcurrentStreams \in Nat, CanReserve(c)
    PROVE  Min(Slots \ InUseSlots(c)) \in Slots \ InUseSlots(c)
<1>1. Cardinality(InUseSlots(c)) < Min({c.MaxConcurrentStreams, Capacity})
  BY DEF CanReserve
<1>2. Min({c.MaxConcurrentStreams, Capacity}) <= Capacity /\ Min({c.MaxConcurrentStreams, Capacity}) \in Int
  <2>1. c.MaxConcurrentStreams \in Int /\ Capacity \in Int
    BY Http2Assumption
  <2>2. Min({c.MaxConcurrentStreams, Capacity}) \in {c.MaxConcurrentStreams, Capacity}
        /\ Min({c.MaxConcurrentStreams, Capacity}) <= Capacity
    BY <2>1, MinOfTwo
  <2>3. QED
    BY <2>1, <2>2
<1>3. Capacity \in Nat
  BY Http2Assumption
<1>4. InUseSlots(c) # Slots
  <2> SUFFICES ASSUME InUseSlots(c) = Slots PROVE FALSE
    OBVIOUS
  <2>1. Cardinality(InUseSlots(c)) = Capacity
    BY SlotsFinite
  <2>2. QED
    BY <2>1, <1>1, <1>2, <1>3
<1>5. Slots \ InUseSlots(c) # {}
  BY <1>4 DEF InUseSlots
<1>6. QED
  BY <1>5, MinIsMember

\* The greatest of 0 and at most one slot.
LEMMA MaxOfSlot ==
    /\ Max({0} \cup {}) = 0
    /\ \A i \in Slots : Max({0} \cup {i}) = i
<1>1. Max({0} \cup {}) = 0
  BY DEF Max
<1>2. ASSUME NEW i \in Slots PROVE Max({0} \cup {i}) = i
  <2>1. i \in Nat /\ i > 0
    BY Http2Assumption DEF Slots
  <2>2. \A x \in {0} \cup {i} : (\A y \in {0} \cup {i} : x >= y) <=> x = i
    BY <2>1
  <2>3. QED
    BY <2>2 DEF Max
<1>3. QED
  BY <1>1, <1>2

\* FindActiveStream finds the entry that holds the stream.
LEMMA FindFinds ==
    ASSUME NEW c, Table(c), NEW id
    PROVE  /\ FindActiveStream(c, id) = 0 => id = 0 \/ \A i \in Slots : ~Holds(c, i, id)
           /\ FindActiveStream(c, id) # 0 =>
                 /\ FindActiveStream(c, id) \in Slots /\ id \in StreamIds /\ id # 0
                 /\ Holds(c, FindActiveStream(c, id), id)
                 /\ \A j \in Slots : Holds(c, j, id) => j = FindActiveStream(c, id)
<1> DEFINE S == {i \in Slots : c.streams[i].InUse /\ c.streams[i].streamId = id}
<1>1. CASE id = 0
  BY <1>1 DEF FindActiveStream
<1>2. CASE id # 0 /\ S = {}
  <2>1. FindActiveStream(c, id) = 0
    BY <1>2, MaxOfSlot DEF FindActiveStream
  <2>2. QED
    BY <1>2, <2>1 DEF Holds
<1>3. ASSUME NEW i \in S, id # 0
      PROVE  FindActiveStream(c, id) = i /\ S = {i} /\ i \in Slots /\ i # 0 /\ id \in StreamIds
  <2>1. i \in Slots /\ i # 0
    BY Http2Assumption DEF Slots
  <2>2. S \subseteq Live(c)
    BY <1>3 DEF Live, InUseSlots
  <2>3. S = {i} /\ id \in StreamIds
    BY <2>2 DEF Table
  <2>4. QED
    BY <2>1, <2>3, <1>3, MaxOfSlot DEF FindActiveStream
<1>4. QED
  BY <1>1, <1>2, <1>3 DEF Holds

LEMMA FindHolds ==
    ASSUME NEW c, Table(c), NEW id, id # 0, NEW i \in Slots, Holds(c, i, id)
    PROVE  FindActiveStream(c, id) = i
<1>1. i # 0
  BY Http2Assumption DEF Slots
<1>2. QED
  BY <1>1, FindFinds

\* FindContinuationStream finds the stream in the middle of a header block.
LEMMA FindContinuation ==
    ASSUME NEW c, Table(c)
    PROVE  /\ FindContinuationStream(c) = 0 => \A i \in InUseSlots(c) : ~c.streams[i].ExpectingContinuation
           /\ FindContinuationStream(c) # 0 =>
                 /\ FindContinuationStream(c) \in InUseSlots(c)
                 /\ c.streams[FindContinuationStream(c)].ExpectingContinuation
<1> DEFINE S == {i \in Slots : c.streams[i].InUse /\ c.streams[i].ExpectingContinuation}
<1>1. CASE S = {}
  <2>1. FindContinuationStream(c) = 0
    BY <1>1, MaxOfSlot DEF FindContinuationStream
  <2>2. QED
    BY <1>1, <2>1 DEF InUseSlots
<1>2. ASSUME NEW i \in S
      PROVE  FindContinuationStream(c) = i /\ i \in InUseSlots(c) /\ c.streams[i].ExpectingContinuation /\ i # 0
  <2>1. i \in Slots /\ i # 0
    BY Http2Assumption DEF Slots
  <2>2. S \subseteq InUseSlots(c)
    BY DEF InUseSlots
  <2>3. S = {i}
    BY <2>2 DEF Table
  <2>4. QED
    BY <2>1, <2>2, <2>3, MaxOfSlot DEF FindContinuationStream
<1>3. QED
  BY <1>1, <1>2

-----------------------------------------------------------------------------
(* Frames.                                                                 *)

\* The numbers in a frame, and which frames have a stream.
FrameOk(f) ==
    /\ f.type = "DATA" => f.streamId \in StreamIds /\ {f.len, f.content} \subseteq Nat /\ f.end \in BOOLEAN
    /\ f.type = "HEADERS" => /\ f.streamId \in StreamIds /\ f.len \in Nat /\ f.clen \in Nat \cup {-1}
                             /\ f.end \in BOOLEAN
    /\ f.type = "CONTINUATION" => f.streamId \in StreamIds /\ f.len \in Nat /\ f.clen \in Nat \cup {-1}
    /\ f.type = "WINDOW_UPDATE" => f.inc \in Nat /\ f.streamId \in Ids
    /\ f.type = "RST_STREAM" => f.streamId \in StreamIds
    /\ f.type = "SETTINGS" => f.window \in Int /\ f.limit \in Nat /\ f.streamId = 0
    /\ f.type \in {"GOAWAY", "PING", "INVALID"} => f.streamId = 0
    /\ f.type \in {"DATA", "HEADERS", "CONTINUATION", "WINDOW_UPDATE", "RST_STREAM", "SETTINGS",
                   "GOAWAY", "PING", "INVALID"}

LEMMA StreamIdsOdd == 0 \notin StreamIds /\ StreamIds \subseteq Int
<1>1. \A n \in Requests : 2 * n - 1 # 0 /\ 2 * n - 1 \in Int
  BY Http2Assumption DEF Requests
<1>2. QED
  BY <1>1 DEF StreamIds

LEMMA PeerFramesOk ==
    ASSUME NEW f \in PeerFrames
    PROVE  FrameOk(f)
<1> DEFINE ends == {[endHeaders |-> FALSE, block |-> "none", clen |-> -1]}
                \cup {[endHeaders |-> TRUE, block |-> b, clen |-> -1] : b \in Blocks \ {"final"}}
                \cup {[endHeaders |-> TRUE, block |-> "final", clen |-> n] : n \in ContentLengths}
<1>0. \A h \in ends : h.clen \in Nat \cup {-1}
  <2>1. ContentLengths \subseteq Nat \cup {-1}
    BY Http2Assumption
  <2>2. -1 \in Nat \cup {-1}
    OBVIOUS
  <2>3. \A h \in {[endHeaders |-> FALSE, block |-> "none", clen |-> -1]} : h.clen \in Nat \cup {-1}
    OBVIOUS
  <2>4. \A h \in {[endHeaders |-> TRUE, block |-> b, clen |-> -1] : b \in Blocks \ {"final"}} :
           h.clen \in Nat \cup {-1}
    OBVIOUS
  <2>5. \A h \in {[endHeaders |-> TRUE, block |-> "final", clen |-> n] : n \in ContentLengths} :
           h.clen \in Nat \cup {-1}
    BY <2>1
  <2>6. QED
    BY <2>3, <2>4, <2>5
<1> DEFINE F1 == {[type |-> "HEADERS", streamId |-> i, len |-> 1, end |-> e,
          endHeaders |-> h.endHeaders, block |-> h.block, clen |-> h.clen] :
            i \in StreamIds, e \in BOOLEAN, h \in ends}
           F2 == {[type |-> "CONTINUATION", streamId |-> i, len |-> l,
          endHeaders |-> h.endHeaders, block |-> h.block, clen |-> h.clen] :
            i \in StreamIds, l \in 0 .. 1, h \in ends}
           F3 == {[type |-> "DATA", streamId |-> i, content |-> d[1], len |-> d[2], end |-> e] :
            i \in StreamIds, d \in DataSizes, e \in BOOLEAN}
           F4 == {[type |-> "RST_STREAM", streamId |-> i, code |-> n] : i \in StreamIds, n \in 0 .. 1}
           F5 == {[type |-> "WINDOW_UPDATE", streamId |-> i, inc |-> n] :
            i \in StreamIds \cup {0}, n \in 0 .. 1}
           F6 == {[type |-> "SETTINGS", streamId |-> 0, window |-> w, limit |-> n] :
            w \in PeerWindows, n \in StreamLimits}
           F7 == {[type |-> "GOAWAY", streamId |-> 0, code |-> n] : n \in 0 .. 1}
           F8 == {[type |-> "PING", streamId |-> 0], [type |-> "INVALID", streamId |-> 0]}
<1>a. f \in UNION {F1, F2, F3, F4, F5, F6, F7, F8}
  BY DEF PeerFrames
<1> HIDE DEF ends
<1>1. CASE f \in F1
  BY <1>0, <1>1 DEF FrameOk
<1>2. CASE f \in F2
  BY <1>0, <1>2 DEF FrameOk
<1>3. CASE f \in F3
  <2>1. \A d \in DataSizes : d[1] \in Nat /\ d[2] \in Nat
    BY Http2Assumption
  <2>2. PICK i \in StreamIds, d \in DataSizes, e \in BOOLEAN :
           f = [type |-> "DATA", streamId |-> i, content |-> d[1], len |-> d[2], end |-> e]
    BY <1>3
  <2>3. QED
    BY <2>1, <2>2 DEF FrameOk
<1>4. CASE f \in F4
  BY <1>4 DEF FrameOk
<1>5. CASE f \in F5
  BY <1>5 DEF FrameOk, Ids
<1>6. CASE f \in F6
  <2>1. \A w \in PeerWindows : w \in Int
    BY Http2Assumption
  <2>2. \A n \in StreamLimits : n \in Nat
    BY Http2Assumption
  <2>3. QED
    BY <1>6, <2>1, <2>2 DEF FrameOk
<1>7. CASE f \in F7
  BY <1>7 DEF FrameOk
<1>8. CASE f \in F8
  BY <1>8 DEF FrameOk
<1> HIDE DEF F1, F2, F3, F4, F5, F6, F7, F8
<1>9. QED
  BY <1>1, <1>2, <1>3, <1>4, <1>5, <1>6, <1>7, <1>8, <1>a
-----------------------------------------------------------------------------
(* Changing the connection.                                                *)

\* The books of every stream but one are the same.
OthersBooks(c, d, id) ==
    \A n \in StreamIds \ {id} :
        /\ d.ledger.allowed[n] = c.ledger.allowed[n] /\ d.ledger.credit[n] = c.ledger.credit[n]
        /\ d.ledger.content[n] = c.ledger.content[n]
        /\ n \in d.ledger.ended <=> n \in c.ledger.ended
        /\ n \in d.ledger.faulted <=> n \in c.ledger.faulted

\* A step that is about one stream, in slot i.
LEMMA MoveOne ==
    ASSUME NEW c, ConnInv(c), NEW i \in Slots, NEW id, id # 0, Holds(c, i, id),
           NEW d, Shape(d), d.nextStreamId = c.nextStreamId,
           \A j \in Slots \ {i} : d.streams[j] = c.streams[j],
           OthersBooks(c, d, id), Holds(d, i, id),
           d.streams[i].ExpectingContinuation => c.streams[i].ExpectingContinuation
               \/ \A j \in InUseSlots(c) : ~c.streams[j].ExpectingContinuation,
           d.block = c.block \/ \A j \in InUseSlots(c) \ {i} : ~c.streams[j].ExpectingContinuation,
           InForce(d) => InForce(c),
           Balanced(d), StreamBalanced(d, i), Whole(d, i)
    PROVE  ConnInv(d)
<1>1. InUseSlots(d) = InUseSlots(c) /\ Live(d) = Live(c) /\ i \in Live(c)
  BY DEF InUseSlots, Live, Holds
<1>2. \A j \in Slots : \/ d.streams[j].streamId = c.streams[j].streamId /\ d.streams[j].InUse = c.streams[j].InUse
                       \/ j = i /\ Holds(c, i, id) /\ Holds(d, i, id)
  OBVIOUS
<1>3. Table(d)
  <2>1. \A j \in Live(c) : d.streams[j].streamId = c.streams[j].streamId
    BY <1>2 DEF Live, InUseSlots, Holds
  <2>2. \A j \in Live(d) : d.streams[j].streamId \in StreamIds /\ d.streams[j].streamId < d.nextStreamId
    BY <1>1, <2>1 DEF ConnInv, Table
  <2>3. \A j, k \in Live(d) : d.streams[j].streamId = d.streams[k].streamId => j = k
    BY <1>1, <2>1 DEF ConnInv, Table
  <2>4. ASSUME NEW j \in InUseSlots(d), NEW k \in InUseSlots(d),
               d.streams[j].ExpectingContinuation, d.streams[k].ExpectingContinuation
        PROVE  j = k
    <3>1. \A m, n \in InUseSlots(c) :
             c.streams[m].ExpectingContinuation /\ c.streams[n].ExpectingContinuation => m = n
      BY DEF ConnInv, Table
    <3>2. j \in Slots /\ k \in Slots /\ j \in InUseSlots(c) /\ k \in InUseSlots(c)
      BY <1>1 DEF InUseSlots
    <3>3. CASE j # i /\ k # i
      BY <3>1, <3>2, <3>3, <2>4
    <3>4. CASE j = i \/ k = i
      BY <3>1, <3>2, <3>4, <2>4
    <3>5. QED
      BY <3>3, <3>4
  <2>5. QED
    BY <2>2, <2>3, <2>4 DEF Table
<1>4. Blank(d)
  <2> SUFFICES ASSUME NEW n \in StreamIds, \A j \in Slots : ~Holds(d, j, n)
               PROVE  d.ledger.credit[n] = InitialWindow /\ d.ledger.content[n] = 0
                      /\ n \notin d.ledger.ended /\ n \notin d.ledger.faulted
    BY DEF Blank
  <2>1. n # id
    OBVIOUS
  <2>2. \A j \in Slots : ~Holds(c, j, n)
    BY <2>1, <1>2 DEF Holds
  <2>3. QED
    BY <2>1, <2>2 DEF ConnInv, Blank, OthersBooks
<1>5. ASSUME NEW j \in Live(d), j # i
      PROVE  StreamBalanced(d, j) /\ Whole(d, j)
  <2> DEFINE n == c.streams[j].streamId
  <2>1. j \in Slots /\ j \in Live(c) /\ d.streams[j] = c.streams[j] /\ n \in StreamIds
    BY <1>1, <1>5 DEF ConnInv, Table, Live, InUseSlots
  <2>2. n # id
    BY <1>1, <2>1, <1>5 DEF ConnInv, Table, Holds
  <2>3. StreamBalanced(c, j) /\ Whole(c, j)
    BY <2>1 DEF ConnInv
  <2>4. StreamBalanced(d, j)
    BY <2>1, <2>2, <2>3 DEF StreamBalanced, OthersBooks
  <2>5. d.ledger.content[n] = c.ledger.content[n] /\ (n \in d.ledger.ended <=> n \in c.ledger.ended)
        /\ (n \in d.ledger.faulted <=> n \in c.ledger.faulted)
    BY <2>1, <2>2 DEF OthersBooks
  <2>6. d.block = c.block \/ ~c.streams[j].ExpectingContinuation
    BY <2>1, <1>5 DEF Live
  <2>7. Whole(d, j)
    BY <2>1, <2>3, <2>5, <2>6 DEF Whole, Told
  <2>8. QED
    BY <2>4, <2>7
<1>6. QED
  BY <1>3, <1>4, <1>5 DEF ConnInv

-----------------------------------------------------------------------------
(* The peer's books.                                                       *)

\* Everything but the ledger and the count of frames.
SameButLedger(c, p) ==
    /\ DOMAIN p = DOMAIN c /\ DOMAIN p.ledger = DOMAIN c.ledger
    /\ p.up = c.up /\ p.goAwaySent = c.goAwaySent /\ p.nextStreamId = c.nextStreamId
    /\ p.InitialWindowSize = c.InitialWindowSize /\ p.MaxConcurrentStreams = c.MaxConcurrentStreams
    /\ p.connectionSendWindow = c.connectionSendWindow /\ p.connectionRecvWindow = c.connectionRecvWindow
    /\ p.connectionRecvConsumed = c.connectionRecvConsumed /\ p.streams = c.streams /\ p.block = c.block

LEMMA ShapeParts ==
    ASSUME NEW c, Shape(c), NEW d, DOMAIN d = DOMAIN c, DOMAIN d.ledger = DOMAIN c.ledger,
           DOMAIN d.streams = Slots, \A k \in Slots : StreamShape(d.streams[k]),
           d.ledger.allowed \in [Ids -> Int], d.ledger.credit \in [Ids -> Int],
           d.ledger.content \in [StreamIds -> Nat],
           d.connectionSendWindow \in Int, d.connectionRecvWindow \in Int, d.InitialWindowSize \in Int,
           d.connectionRecvConsumed \in Nat, d.MaxConcurrentStreams \in Nat, DOMAIN d.block = DOMAIN c.block
    PROVE  Shape(d)
BY DEF Shape

LEMMA ShapeSame ==
    ASSUME NEW c, Shape(c), NEW p, SameButLedger(c, p),
           p.ledger.allowed \in [Ids -> Int], p.ledger.credit \in [Ids -> Int],
           p.ledger.content \in [StreamIds -> Nat]
    PROVE  Shape(p)
<1>1. DOMAIN p = DOMAIN c /\ DOMAIN p.ledger = DOMAIN c.ledger
  BY DEF SameButLedger
<1>2. /\ p.InitialWindowSize = c.InitialWindowSize /\ p.MaxConcurrentStreams = c.MaxConcurrentStreams
      /\ p.connectionSendWindow = c.connectionSendWindow /\ p.connectionRecvWindow = c.connectionRecvWindow
      /\ p.connectionRecvConsumed = c.connectionRecvConsumed /\ p.streams = c.streams /\ p.block = c.block
  BY DEF SameButLedger
<1>3. QED
  BY <1>1, <1>2 DEF Shape

\* What the peer has noted when it has sent a frame.
Sent(c, p, f) ==
    LET id == f.streamId
        known == FindActiveStream(c, id) # 0
    IN  /\ SameButLedger(c, p) /\ p.ledger.allowed = c.ledger.allowed
        /\ p.ledger.faulted = c.ledger.faulted
        /\ f.type \notin {"DATA", "HEADERS"} => p.ledger = c.ledger
        /\ f.type \in {"DATA", "HEADERS"} /\ known =>
              p.ledger.ended = c.ledger.ended \cup IF f.end THEN {id} ELSE {}
        /\ ~(f.type \in {"DATA", "HEADERS"} /\ known) => p.ledger.ended = c.ledger.ended
        /\ f.type = "DATA" => p.ledger.credit[0] = c.ledger.credit[0] - f.len
        /\ f.type # "DATA" => p.ledger.credit = c.ledger.credit
        /\ ~(f.type = "DATA" /\ known) =>
              /\ p.ledger.content = c.ledger.content
              /\ \A n \in StreamIds : p.ledger.credit[n] = c.ledger.credit[n]
        /\ f.type = "DATA" /\ known =>
              /\ p.ledger.credit[id] = c.ledger.credit[id] - f.len
              /\ p.ledger.content[id] = c.ledger.content[id] + IF id \in c.ledger.ended THEN 0 ELSE f.content
              /\ \A n \in StreamIds \ {id} : p.ledger.credit[n] = c.ledger.credit[n]
                                             /\ p.ledger.content[n] = c.ledger.content[n]
        /\ Shape(p)

LEMMA PeerSentFacts ==
    ASSUME NEW c, Shape(c), NEW f, FrameOk(f)
    PROVE  Sent(c, PeerSent([c EXCEPT !.framesRead = @ + 1], f), f)
<1> SUFFICES ASSUME NEW c0, c0 = [c EXCEPT !.framesRead = @ + 1],
                    NEW id, id = f.streamId,
                    NEW known, known = (FindActiveStream(c, id) # 0),
                    NEW p, p = PeerSent(c0, f)
             PROVE  Sent(c, p, f)
  OBVIOUS
<1> DEFINE l == c.ledger
<1>1. SameButLedger(c, c0) /\ c0.ledger = l /\ FindActiveStream(c0, id) = FindActiveStream(c, id)
  BY DEF Shape, SameButLedger, FindActiveStream
<1>2. CASE f.type = "DATA" /\ known
  <2>1. p = [c0 EXCEPT !.ledger = [[[c0.ledger EXCEPT !.credit[0] = @ - f.len]
                 EXCEPT !.credit[id] = @ - f.len, !.content[id] = @ + IF id \in c0.ledger.ended THEN 0 ELSE f.content]
                 EXCEPT !.ended = @ \cup IF f.end THEN {id} ELSE {}]]
    BY <1>1, <1>2 DEF PeerSent
  <2>2. id \in StreamIds /\ id # 0 /\ id \in Ids /\ 0 \in Ids /\ f.len \in Nat /\ f.content \in Nat
    BY <1>2, StreamIdsOdd DEF FrameOk, Ids
  <2>3. SameButLedger(c, p)
    BY <1>1, <2>1, <2>2 DEF SameButLedger, Shape
  <2> DEFINE V == [[[l EXCEPT !.credit[0] = @ - f.len]
                 EXCEPT !.credit[id] = @ - f.len, !.content[id] = @ + IF id \in l.ended THEN 0 ELSE f.content]
                 EXCEPT !.ended = @ \cup IF f.end THEN {id} ELSE {}]
  <2>0. p = [c0 EXCEPT !.ledger = V]
    BY <1>1, <2>1
  <2>4. p.ledger = V
    <3> HIDE DEF V
    <3> QED
      BY <1>1, <2>0 DEF Shape, SameButLedger
  <2>5. /\ p.ledger.allowed = l.allowed /\ p.ledger.faulted = l.faulted
        /\ p.ledger.ended = l.ended \cup IF f.end THEN {id} ELSE {}
        /\ p.ledger.credit = [[l.credit EXCEPT ![0] = @ - f.len] EXCEPT ![id] = @ - f.len]
        /\ p.ledger.content = [l.content EXCEPT ![id] = @ + IF id \in l.ended THEN 0 ELSE f.content]
    BY <2>4 DEF Shape
  <2>6. l.credit \in [Ids -> Int] /\ l.content \in [StreamIds -> Nat]
    BY DEF Shape
  <2>7. p.ledger.credit \in [Ids -> Int] /\ p.ledger.content \in [StreamIds -> Nat]
    BY <2>2, <2>5, <2>6
  <2>8. Shape(p)
    <3>1. p.ledger.allowed \in [Ids -> Int] /\ p.ledger.credit \in [Ids -> Int]
          /\ p.ledger.content \in [StreamIds -> Nat]
      BY <2>5, <2>6, <2>7 DEF Shape
    <3>2. QED
      BY <3>1, <2>3, ShapeSame
  <2>9. /\ p.ledger.credit[0] = c.ledger.credit[0] - f.len
        /\ p.ledger.credit[id] = c.ledger.credit[id] - f.len
        /\ p.ledger.content[id] = c.ledger.content[id] + IF id \in c.ledger.ended THEN 0 ELSE f.content
    BY <2>2, <2>5, <2>6
  <2>10. \A n \in StreamIds \ {id} : p.ledger.credit[n] = c.ledger.credit[n]
                                     /\ p.ledger.content[n] = c.ledger.content[n]
    BY <2>2, <2>5, <2>6, StreamIdsOdd DEF Ids
  <2>11. QED
    BY <1>2, <2>3, <2>5, <2>8, <2>9, <2>10 DEF Sent
<1>3. CASE f.type = "DATA" /\ ~known
  <2>1. p = [c0 EXCEPT !.ledger = [c0.ledger EXCEPT !.credit[0] = @ - f.len]]
    BY <1>1, <1>3 DEF PeerSent
  <2>2. 0 \in Ids /\ f.len \in Nat
    BY <1>3 DEF FrameOk, Ids
  <2>3. SameButLedger(c, p)
    BY <1>1, <2>1, <2>2 DEF SameButLedger, Shape
  <2>4. p.ledger = [l EXCEPT !.credit[0] = @ - f.len]
    BY <1>1, <2>1 DEF Shape, SameButLedger
  <2>5. /\ p.ledger.allowed = l.allowed /\ p.ledger.faulted = l.faulted
        /\ p.ledger.ended = l.ended /\ p.ledger.content = l.content
        /\ p.ledger.credit = [l.credit EXCEPT ![0] = @ - f.len]
    BY <2>4 DEF Shape
  <2>6. l.credit \in [Ids -> Int] /\ l.content \in [StreamIds -> Nat]
    BY DEF Shape
  <2>7. p.ledger.credit \in [Ids -> Int]
    BY <2>2, <2>5, <2>6
  <2>8. Shape(p)
    <3>1. p.ledger.allowed \in [Ids -> Int] /\ p.ledger.credit \in [Ids -> Int]
          /\ p.ledger.content \in [StreamIds -> Nat]
      BY <2>5, <2>6, <2>7 DEF Shape
    <3>2. QED
      BY <3>1, <2>3, ShapeSame
  <2>9. p.ledger.credit[0] = c.ledger.credit[0] - f.len
    BY <2>2, <2>5, <2>6
  <2>10. \A n \in StreamIds : p.ledger.credit[n] = c.ledger.credit[n]
    BY <2>2, <2>5, <2>6, StreamIdsOdd DEF Ids
  <2>11. QED
    BY <1>3, <2>3, <2>5, <2>8, <2>9, <2>10 DEF Sent
<1>4. CASE f.type = "HEADERS" /\ known
  <2>1. p = [c0 EXCEPT !.ledger = [c0.ledger EXCEPT !.ended = @ \cup IF f.end THEN {id} ELSE {}]]
    BY <1>1, <1>4 DEF PeerSent
  <2>3. SameButLedger(c, p)
    BY <1>1, <2>1 DEF SameButLedger, Shape
  <2>4. p.ledger = [l EXCEPT !.ended = @ \cup IF f.end THEN {id} ELSE {}]
    BY <1>1, <2>1 DEF Shape, SameButLedger
  <2>5. /\ p.ledger.allowed = l.allowed /\ p.ledger.faulted = l.faulted
        /\ p.ledger.ended = l.ended \cup (IF f.end THEN {id} ELSE {})
        /\ p.ledger.content = l.content /\ p.ledger.credit = l.credit
    BY <2>4 DEF Shape
  <2>8. Shape(p)
    <3>1. p.ledger.allowed \in [Ids -> Int] /\ p.ledger.credit \in [Ids -> Int]
          /\ p.ledger.content \in [StreamIds -> Nat]
      BY <2>5 DEF Shape
    <3>2. QED
      BY <3>1, <2>3, ShapeSame
  <2>9. QED
    BY <1>4, <2>3, <2>5, <2>8 DEF Sent
<1>5. CASE f.type \notin {"DATA", "HEADERS"} \/ (f.type = "HEADERS" /\ ~known)
  <2>1. p = c0
    BY <1>1, <1>5 DEF PeerSent
  <2>2. Shape(p)
    <3>1. p.ledger.allowed \in [Ids -> Int] /\ p.ledger.credit \in [Ids -> Int]
          /\ p.ledger.content \in [StreamIds -> Nat]
      BY <1>1, <2>1 DEF Shape
    <3>2. QED
      BY <1>1, <2>1, <3>1, ShapeSame
  <2>3. QED
    BY <1>1, <1>5, <2>1, <2>2 DEF Sent
<1>6. QED
  <2>1. known \/ ~known
    OBVIOUS
  <2>2. QED
    BY <2>1, <1>2, <1>3, <1>4, <1>5

-----------------------------------------------------------------------------
(* What a frame of a stream changes.                                       *)

\* Only stream id, in slot i, and the connection's receive window have changed.
Touch(c, d, i, id) ==
    /\ Shape(d) /\ d.nextStreamId = c.nextStreamId /\ d.up = c.up
    /\ d.connectionSendWindow = c.connectionSendWindow
    /\ \A j \in Slots \ {i} : d.streams[j] = c.streams[j]
    /\ d.streams[i].InUse = c.streams[i].InUse /\ d.streams[i].streamId = c.streams[i].streamId
    /\ \A n \in StreamIds \ {id} : d.ledger.credit[n] = c.ledger.credit[n]
    /\ d.ledger.allowed = c.ledger.allowed /\ d.ledger.content = c.ledger.content
    /\ d.ledger.ended = c.ledger.ended /\ d.ledger.faulted = c.ledger.faulted
    /\ InForce(d) => InForce(c)

\* The connection's receive window against the peer's credit, when it has sent n more.
Received0(c, d, n) ==
    /\ d.connectionRecvWindow - d.ledger.credit[0] >= c.connectionRecvWindow - c.ledger.credit[0] - n
    /\ d.connectionRecvWindow + d.connectionRecvConsumed <= c.connectionRecvWindow + c.connectionRecvConsumed

\* What DATA leaves alone in the stream.
DataKeeps(s, t) ==
    /\ t.InUse = s.InUse /\ t.streamId = s.streamId
    /\ t.ExpectingContinuation = s.ExpectingContinuation /\ t.ResponseHeaderBlockLen = s.ResponseHeaderBlockLen
    /\ t.PendingHeaderEndStream = s.PendingHeaderEndStream /\ t.remoteWindow = s.remoteWindow
    /\ t.ResponseContentLength = s.ResponseContentLength

\* SendWindowUpdateIfNeeded gives the peer what it adds to the windows.
WindowUpdated(c, d, i, id) ==
    LET s == c.streams[i]
        t == d.streams[i]
    IN  /\ Touch(c, d, i, id) /\ Received0(c, d, 0) /\ d.block = c.block
        /\ DataKeeps(s, t) /\ t.state = s.state /\ t.BodyLength = s.BodyLength
        /\ t.StreamClosed = s.StreamClosed
        /\ t.localWindow - d.ledger.credit[id] = s.localWindow - c.ledger.credit[id]
        /\ d.goAwaySent = c.goAwaySent

LEMMA SendWindowUpdateFacts ==
    ASSUME NEW c, Shape(c), NEW i \in Slots, NEW id \in StreamIds, c.streams[i].streamId = id,
           NEW j \in {0, i}, NEW len \in Nat
    PROVE  WindowUpdated(c, SendWindowUpdateIfNeeded(c, j, len).c, i, id)
<1> SUFFICES ASSUME NEW u, u = SendWindowUpdateIfNeeded(c, j, len),
                    NEW d, d = u.c, NEW s, s = c.streams[i], NEW t, t = d.streams[i]
             PROVE  WindowUpdated(c, d, i, id)
  OBVIOUS
<1> DEFINE all == c.connectionRecvConsumed
           c1  == ConnectionWindowUpdate(c)
           c2  == StreamWindowUpdate(c1, i, len)
<1>0. id # 0 /\ id \in Ids /\ 0 \in Ids /\ i # 0
  BY StreamIdsOdd, Http2Assumption DEF Ids, Slots
<1>1. d \in {c, c1, c2}
  <2>1. CASE j = 0
    BY <2>1 DEF SendWindowUpdateIfNeeded, Result
  <2>2. CASE j = i
    BY <2>2, <1>0 DEF SendWindowUpdateIfNeeded, Result
  <2>3. QED
    BY <2>1, <2>2
<1>2. /\ Touch(c, c1, i, id) /\ Received0(c, c1, 0) /\ c1.block = c.block /\ c1.goAwaySent = c.goAwaySent
      /\ c1.streams = c.streams /\ c1.ledger.credit[id] = c.ledger.credit[id]
  <2>1. CASE all >= WindowUpdateThreshold
    <3>1. c1 = [c EXCEPT !.connectionRecvWindow = @ + all, !.connectionRecvConsumed = 0,
                         !.ledger.credit[0] = @ + all]
      BY <2>1 DEF ConnectionWindowUpdate
    <3> HIDE DEF c1
    <3>2. all \in Nat /\ c.ledger.credit \in [Ids -> Int] /\ c.connectionRecvWindow \in Int
      BY DEF Shape
    <3>3. /\ DOMAIN c1 = DOMAIN c /\ c1.up = c.up /\ c1.goAwaySent = c.goAwaySent /\ c1.nextStreamId = c.nextStreamId
          /\ c1.InitialWindowSize = c.InitialWindowSize /\ c1.MaxConcurrentStreams = c.MaxConcurrentStreams
          /\ c1.connectionSendWindow = c.connectionSendWindow /\ c1.streams = c.streams /\ c1.block = c.block
          /\ c1.connectionRecvWindow = c.connectionRecvWindow + all /\ c1.connectionRecvConsumed = 0
          /\ c1.ledger = [c.ledger EXCEPT !.credit = [c.ledger.credit EXCEPT ![0] = @ + all]]
      BY <3>1 DEF Shape
    <3>4. /\ DOMAIN c1.ledger = DOMAIN c.ledger /\ c1.ledger.allowed = c.ledger.allowed
          /\ c1.ledger.content = c.ledger.content /\ c1.ledger.ended = c.ledger.ended
          /\ c1.ledger.faulted = c.ledger.faulted
          /\ c1.ledger.credit = [c.ledger.credit EXCEPT ![0] = @ + all]
      BY <3>3 DEF Shape
    <3> HIDE DEF all
    <3>5. /\ c1.ledger.credit \in [Ids -> Int] /\ c1.ledger.credit[0] = c.ledger.credit[0] + all
          /\ \A n \in StreamIds : c1.ledger.credit[n] = c.ledger.credit[n]
      BY <3>2, <3>4, <1>0, StreamIdsOdd DEF Ids
    <3>6. Shape(c1)
      BY <3>2, <3>3, <3>4, <3>5, SMTT(30) DEF Shape
    <3>7. Received0(c, c1, 0)
      <4>1. c.ledger.credit[0] \in Int
        BY <3>2, <1>0
      <4>2. c.connectionRecvConsumed = all
        BY DEF all
      <4>3. QED
        BY <4>1, <4>2, <3>2, <3>3, <3>5 DEF Received0
    <3>8. QED
      BY <3>3, <3>4, <3>5, <3>6, <3>7 DEF Touch, InForce
  <2>2. CASE ~(all >= WindowUpdateThreshold)
    <3>1. c1 = c
      BY <2>2 DEF ConnectionWindowUpdate
    <3> HIDE DEF c1
    <3>2. c.connectionRecvWindow \in Int /\ c.ledger.credit[0] \in Int /\ c.connectionRecvConsumed \in Nat
      BY <1>0 DEF Shape
    <3>3. Received0(c, c, 0)
      BY <3>2 DEF Received0
    <3>4. QED
      BY <3>1, <3>3 DEF Touch
  <2>3. QED
    BY <2>1, <2>2
<1> HIDE DEF c1
<1>3. /\ Touch(c, c2, i, id) /\ Received0(c, c2, 0) /\ c2.block = c.block /\ c2.goAwaySent = c.goAwaySent
      /\ c2.streams[i] = [s EXCEPT !.localWindow = @ + len]
      /\ c2.ledger.credit[id] = c.ledger.credit[id] + len
  <2>1. Shape(c1) /\ c1.streams = c.streams
    BY <1>2 DEF Touch
  <2>2. /\ DOMAIN c2 = DOMAIN c1 /\ c2.up = c1.up /\ c2.goAwaySent = c1.goAwaySent /\ c2.nextStreamId = c1.nextStreamId
        /\ c2.InitialWindowSize = c1.InitialWindowSize /\ c2.MaxConcurrentStreams = c1.MaxConcurrentStreams
        /\ c2.connectionSendWindow = c1.connectionSendWindow /\ c2.block = c1.block
        /\ c2.connectionRecvWindow = c1.connectionRecvWindow
        /\ c2.connectionRecvConsumed = c1.connectionRecvConsumed
        /\ c2.streams = [c1.streams EXCEPT ![i] = [c1.streams[i] EXCEPT !.localWindow = @ + len]]
        /\ c2.ledger = [c1.ledger EXCEPT !.credit = [c1.ledger.credit EXCEPT ![id] = @ + len]]
    <3>1. c2 = [c1 EXCEPT !.streams[i].localWindow = @ + len, !.ledger.credit[id] = @ + len]
      BY <2>1 DEF StreamWindowUpdate
    <3> HIDE DEF c2
    <3>2. QED
      BY <2>1, <3>1 DEF Shape
  <2> HIDE DEF c2
  <2>3. /\ DOMAIN c2.ledger = DOMAIN c1.ledger /\ c2.ledger.allowed = c1.ledger.allowed
        /\ c2.ledger.content = c1.ledger.content /\ c2.ledger.ended = c1.ledger.ended
        /\ c2.ledger.faulted = c1.ledger.faulted
        /\ c2.ledger.credit = [c1.ledger.credit EXCEPT ![id] = @ + len]
    BY <2>1, <2>2 DEF Shape
  <2>4. /\ c2.ledger.credit \in [Ids -> Int] /\ c2.ledger.credit[id] = c1.ledger.credit[id] + len
        /\ \A n \in Ids \ {id} : c2.ledger.credit[n] = c1.ledger.credit[n]
    <3>1. c1.ledger.credit \in [Ids -> Int]
      BY <2>1 DEF Shape
    <3>2. QED
      BY <2>3, <3>1, <1>0
  <2>5. /\ DOMAIN c2.streams = Slots /\ \A k \in Slots \ {i} : c2.streams[k] = c1.streams[k]
        /\ c2.streams[i] = [s EXCEPT !.localWindow = @ + len]
    BY <2>1, <2>2 DEF Shape
  <2>6. StreamShape(c2.streams[i]) /\ c2.streams[i].InUse = s.InUse /\ c2.streams[i].streamId = s.streamId
    <3>1. StreamShape(s)
      BY DEF Shape
    <3>2. QED
      BY <3>1, <2>5 DEF StreamShape, Fields, NoStream
  <2>7. Shape(c2)
    <3>1. \A k \in Slots : StreamShape(c2.streams[k])
      BY <2>1, <2>5, <2>6 DEF Shape
    <3>2. /\ c1.ledger.allowed \in [Ids -> Int] /\ c1.ledger.content \in [StreamIds -> Nat]
          /\ c1.connectionSendWindow \in Int /\ c1.connectionRecvWindow \in Int /\ c1.InitialWindowSize \in Int
          /\ c1.connectionRecvConsumed \in Nat /\ c1.MaxConcurrentStreams \in Nat
      BY <2>1 DEF Shape
    <3>3. QED
      BY <2>1, <2>2, <2>3, <2>4, <2>5, <3>1, <3>2, ShapeParts
  <2>8. Received0(c, c2, 0)
    BY <1>0, <1>2, <2>2, <2>4 DEF Received0
  <2>9. QED
    BY <1>0, <1>2, <2>2, <2>3, <2>4, <2>5, <2>6, <2>7, <2>8 DEF Touch, InForce, Ids
<1>4. CASE d = c
  <2>1. c.connectionRecvWindow \in Int /\ c.ledger.credit[0] \in Int /\ c.connectionRecvConsumed \in Nat
        /\ s.localWindow \in Int /\ c.ledger.credit[id] \in Int
    BY <1>0 DEF Shape, StreamShape
  <2>2. QED
    BY <1>4, <2>1 DEF Touch, Received0, DataKeeps, WindowUpdated
<1>5. CASE d = c1
  BY <1>5, <1>2 DEF DataKeeps, WindowUpdated
<1>6. CASE d = c2
  <2> HIDE DEF c2
  <2>1. DOMAIN s = Fields /\ s.localWindow \in Int /\ c.ledger.credit[id] \in Int
    BY <1>0 DEF Shape, StreamShape
  <2>2. DataKeeps(s, t) /\ t.state = s.state /\ t.BodyLength = s.BodyLength
        /\ t.StreamClosed = s.StreamClosed /\ t.localWindow = s.localWindow + len
    BY <1>3, <1>6, <2>1 DEF DataKeeps, Fields, NoStream
  <2>3. QED
    BY <1>3, <1>6, <2>1, <2>2 DEF WindowUpdated
<1>7. QED
  BY <1>1, <1>4, <1>5, <1>6

\* The stream in slot i is rewritten and no book is.
Edited(c, d, i, t) ==
    /\ DOMAIN d = DOMAIN c /\ d.ledger = c.ledger /\ d.nextStreamId = c.nextStreamId /\ d.up = c.up
    /\ d.goAwaySent = c.goAwaySent /\ d.connectionSendWindow = c.connectionSendWindow
    /\ d.InitialWindowSize = c.InitialWindowSize /\ d.MaxConcurrentStreams = c.MaxConcurrentStreams
    /\ d.streams = [c.streams EXCEPT ![i] = t]

LEMMA EditTouch ==
    ASSUME NEW c, Shape(c), NEW i \in Slots, NEW id, NEW d, NEW t, Edited(c, d, i, t),
           d.connectionRecvWindow \in Int, d.connectionRecvConsumed \in Nat,
           DOMAIN d.block = DOMAIN c.block, StreamShape(t),
           t.InUse = c.streams[i].InUse, t.streamId = c.streams[i].streamId
    PROVE  Touch(c, d, i, id) /\ d.streams[i] = t
<1>1. DOMAIN c.streams = Slots /\ \A k \in Slots : StreamShape(c.streams[k])
  BY DEF Shape
<1>2. DOMAIN d.streams = Slots /\ d.streams[i] = t /\ \A k \in Slots \ {i} : d.streams[k] = c.streams[k]
  BY <1>1 DEF Edited
<1>3. \A k \in Slots : StreamShape(d.streams[k])
  BY <1>1, <1>2
<1>4. /\ d.ledger.allowed \in [Ids -> Int] /\ d.ledger.credit \in [Ids -> Int]
      /\ d.ledger.content \in [StreamIds -> Nat] /\ d.connectionSendWindow \in Int
      /\ d.InitialWindowSize \in Int /\ d.MaxConcurrentStreams \in Nat
  BY DEF Shape, Edited
<1>5. Shape(d)
  BY <1>2, <1>3, <1>4, ShapeParts DEF Edited
<1>6. QED
  BY <1>2, <1>5 DEF Touch, InForce, Edited

LEMMA TouchTrans ==
    ASSUME NEW b, NEW c, NEW d, NEW i, NEW id, Touch(b, c, i, id), Touch(c, d, i, id)
    PROVE  Touch(b, d, i, id)
BY DEF Touch

LEMMA SendGoAwayFacts ==
    ASSUME NEW c, Shape(c), NEW i \in Slots, NEW id, NEW d, d = SendGoAway(c)
    PROVE  /\ Touch(c, d, i, id) /\ d.streams = c.streams /\ d.block = c.block /\ d.ledger = c.ledger
           /\ d.connectionRecvWindow = c.connectionRecvWindow
           /\ d.connectionRecvConsumed = c.connectionRecvConsumed
           /\ ~InForce(d)
<1>1. CASE c.up
  <2>1. d = [c EXCEPT !.goAwaySent = TRUE]
    BY <1>1 DEF SendGoAway
  <2>2. /\ DOMAIN d = DOMAIN c /\ d.ledger = c.ledger /\ d.nextStreamId = c.nextStreamId /\ d.up = c.up
        /\ d.goAwaySent = TRUE /\ d.connectionSendWindow = c.connectionSendWindow
        /\ d.InitialWindowSize = c.InitialWindowSize /\ d.MaxConcurrentStreams = c.MaxConcurrentStreams
        /\ d.connectionRecvWindow = c.connectionRecvWindow
        /\ d.connectionRecvConsumed = c.connectionRecvConsumed /\ d.block = c.block
        /\ d.streams = c.streams
    BY <2>1 DEF Shape
  <2>3. Shape(d)
    BY <2>2 DEF Shape
  <2>4. QED
    BY <2>2, <2>3 DEF Touch, InForce
<1>2. CASE ~c.up
  <2>1. d = c
    BY <1>2 DEF SendGoAway
  <2>2. QED
    BY <1>2, <2>1 DEF Touch, InForce
<1>3. QED
  BY <1>1, <1>2

\* A DATA frame of a stream.
DataProcessed(c, r, i, id, f) ==
    LET d == r.c
        s == c.streams[i]
        t == d.streams[i]
        next == AfterReceive(s.state, f.end)
    IN  /\ Touch(c, d, i, id) /\ Received0(c, d, f.len) /\ d.block = c.block /\ DataKeeps(s, t)
        /\ t.localWindow - d.ledger.credit[id] >= s.localWindow - c.ledger.credit[id] - f.len
        /\ \/ t.state = s.state
           \/ t.state = next /\ next # "refused"
        /\ ~Failed(r) => /\ next # "refused" /\ t.state = next /\ t.BodyLength = s.BodyLength + f.content
                         /\ t.StreamClosed = (s.StreamClosed \/ f.end)
                         /\ f.end => s.ResponseContentLength \in {-1, t.BodyLength}

LEMMA ProcessDataFacts ==
    ASSUME NEW c, Shape(c), NEW i \in Slots, NEW id \in StreamIds, c.streams[i].streamId = id,
           NEW f, FrameOk(f), f.type = "DATA"
    PROVE  DataProcessed(c, ProcessData(c, i, f), i, id, f)
<1> SUFFICES ASSUME NEW r, r = ProcessData(c, i, f), NEW d, d = r.c,
                    NEW s, s = c.streams[i], NEW t, t = d.streams[i],
                    NEW next, next = AfterReceive(s.state, f.end)
             PROVE  DataProcessed(c, r, i, id, f)
  OBVIOUS
<1> DEFINE c1 == ReceiveData(c, i, f)
           c2 == DrawWindow(c1, f)
           c3 == StoreData(c2, i, f)
           j  == IF f.end THEN 0 ELSE i
           u  == SendWindowUpdateIfNeeded(c3, j, f.len)
           body == s.BodyLength + f.content
           d4 == CloseOnEnd(u.c, i, f.end)
<1>0. /\ f.len \in Nat /\ f.content \in Nat /\ f.end \in BOOLEAN /\ id \in Ids /\ 0 \in Ids
      /\ StreamShape(s) /\ c.connectionRecvWindow \in Int /\ c.connectionRecvConsumed \in Nat
      /\ c.ledger.credit[0] \in Int /\ c.ledger.credit[id] \in Int
  BY DEF FrameOk, Ids, Shape
<1>1. \/ r = Result(c, "invalid") \/ r = Result(c, "state")
      \/ next # "refused" /\ \/ r = ConnectionError(c1, "invalid")
                             \/ r = Result(c2, "invalid") \/ r = Result(c2, "tooSmall")
                             \/ (r = u /\ Failed(u)) \/ r = Result(u.c, "invalid")
                             \/ r = Result(d4, "success") /\ ~Failed(u)
                                /\ ~(f.end /\ s.ResponseContentLength >= 0 /\ body # s.ResponseContentLength)
  BY <1>0 DEF ProcessData
<1>2. /\ c1.streams = [c.streams EXCEPT ![i] = [s EXCEPT !.localWindow = @ - f.len, !.state = next]]
      /\ DOMAIN c1 = DOMAIN c /\ c1.ledger = c.ledger /\ c1.nextStreamId = c.nextStreamId /\ c1.up = c.up
      /\ c1.goAwaySent = c.goAwaySent /\ c1.connectionSendWindow = c.connectionSendWindow
      /\ c1.InitialWindowSize = c.InitialWindowSize /\ c1.MaxConcurrentStreams = c.MaxConcurrentStreams
      /\ c1.connectionRecvWindow = c.connectionRecvWindow
      /\ c1.connectionRecvConsumed = c.connectionRecvConsumed /\ c1.block = c.block
  BY DEF ReceiveData, Shape
<1> HIDE DEF c1
<1> DEFINE t1 == [s EXCEPT !.localWindow = @ - f.len, !.state = next]
<1>3. /\ StreamShape(t1) /\ DataKeeps(s, t1) /\ t1.localWindow = s.localWindow - f.len /\ t1.state = next
      /\ t1.BodyLength = s.BodyLength /\ t1.StreamClosed = s.StreamClosed
  BY <1>0 DEF StreamShape, Fields, NoStream, DataKeeps
<1> HIDE DEF t1
<1>4. Touch(c, c1, i, id) /\ c1.streams[i] = t1
  <2>1. Edited(c, c1, i, t1)
    BY <1>2 DEF t1, Edited
  <2>2. t1.InUse = c.streams[i].InUse /\ t1.streamId = c.streams[i].streamId
    BY <1>3 DEF DataKeeps
  <2>3. c1.connectionRecvWindow \in Int /\ c1.connectionRecvConsumed \in Nat /\ DOMAIN c1.block = DOMAIN c.block
    BY <1>0, <1>2
  <2>4. QED
    BY <1>3, <2>1, <2>2, <2>3, EditTouch
<1>5. /\ c2.streams = c1.streams /\ c2.ledger = c1.ledger /\ c2.block = c1.block
      /\ c2.connectionRecvWindow = c.connectionRecvWindow - f.len
      /\ c2.connectionRecvConsumed = c.connectionRecvConsumed
      /\ DOMAIN c2 = DOMAIN c /\ c2.nextStreamId = c.nextStreamId /\ c2.up = c.up
      /\ c2.goAwaySent = c.goAwaySent /\ c2.connectionSendWindow = c.connectionSendWindow
      /\ c2.InitialWindowSize = c.InitialWindowSize /\ c2.MaxConcurrentStreams = c.MaxConcurrentStreams
  BY <1>2, <1>4 DEF Shape, Touch, DrawWindow
<1> HIDE DEF c2
<1>6. Touch(c, c2, i, id) /\ c2.streams[i] = t1 /\ c2.connectionRecvWindow \in Int
  <2>1. Edited(c, c2, i, t1)
    BY <1>2, <1>5 DEF t1, Edited
  <2>2. t1.InUse = c.streams[i].InUse /\ t1.streamId = c.streams[i].streamId
    BY <1>3 DEF DataKeeps
  <2>3. c2.connectionRecvWindow \in Int /\ c2.connectionRecvConsumed \in Nat /\ DOMAIN c2.block = DOMAIN c.block
    BY <1>0, <1>2, <1>5
  <2>4. QED
    BY <1>3, <2>1, <2>2, <2>3, EditTouch
<1> DEFINE t3 == [t1 EXCEPT !.BodyLength = @ + f.content, !.ResponseDataReceived = TRUE]
<1>7. /\ c3.streams = [c2.streams EXCEPT ![i] = t3] /\ c3.ledger = c2.ledger /\ c3.block = c2.block
      /\ c3.connectionRecvWindow = c2.connectionRecvWindow
      /\ c3.connectionRecvConsumed = c2.connectionRecvConsumed + f.len
      /\ DOMAIN c3 = DOMAIN c2 /\ c3.nextStreamId = c2.nextStreamId /\ c3.up = c2.up
      /\ c3.goAwaySent = c2.goAwaySent /\ c3.connectionSendWindow = c2.connectionSendWindow
      /\ c3.InitialWindowSize = c2.InitialWindowSize /\ c3.MaxConcurrentStreams = c2.MaxConcurrentStreams
  BY <1>6 DEF Shape, Touch, StoreData
<1>8. /\ StreamShape(t3) /\ DataKeeps(s, t3) /\ t3.localWindow = s.localWindow - f.len /\ t3.state = next
      /\ t3.BodyLength = s.BodyLength + f.content /\ t3.StreamClosed = s.StreamClosed
      /\ t3.InUse = t1.InUse /\ t3.streamId = t1.streamId
  BY <1>0, <1>3 DEF StreamShape, Fields, NoStream, DataKeeps
<1> HIDE DEF t3, c3
<1>9. Touch(c, c3, i, id) /\ c3.streams[i] = t3 /\ c3.connectionRecvConsumed \in Nat
  <2>1. c3.connectionRecvConsumed \in Nat /\ Shape(c2)
    BY <1>0, <1>5, <1>6, <1>7 DEF Touch
  <2>2. Edited(c2, c3, i, t3)
    BY <1>7 DEF Edited
  <2>3. t3.InUse = c2.streams[i].InUse /\ t3.streamId = c2.streams[i].streamId
    BY <1>6, <1>8
  <2>4. c3.connectionRecvWindow \in Int /\ DOMAIN c3.block = DOMAIN c2.block
    BY <1>6, <1>7
  <2>5. Touch(c2, c3, i, id) /\ c3.streams[i] = t3
    BY <1>8, <2>1, <2>2, <2>3, <2>4, EditTouch
  <2>6. QED
    BY <1>6, <2>1, <2>5, TouchTrans
<1>10. Received0(c, c3, f.len) /\ c3.ledger = c.ledger /\ c3.block = c.block
  BY <1>0, <1>2, <1>5, <1>7 DEF Received0
<1> DEFINE e == u.c
           te == e.streams[i]
<1>11. /\ Touch(c3, e, i, id) /\ Received0(c3, e, 0) /\ e.block = c3.block
       /\ DataKeeps(t3, te) /\ te.state = t3.state /\ te.BodyLength = t3.BodyLength
       /\ te.StreamClosed = t3.StreamClosed
       /\ te.localWindow - e.ledger.credit[id] = t3.localWindow - c3.ledger.credit[id]
  <2>1. Shape(c3) /\ c3.streams[i].streamId = id /\ j \in {0, i}
    BY <1>8, <1>9 DEF Touch, DataKeeps
  <2> HIDE DEF u, j
  <2>2. u = SendWindowUpdateIfNeeded(c3, j, f.len)
    BY DEF u
  <2>3. WindowUpdated(c3, u.c, i, id)
    BY <2>1, <2>2, <1>0, SendWindowUpdateFacts
  <2>4. QED
    BY <2>3, <1>9 DEF WindowUpdated
<1> HIDE DEF u, e, j
<1>12. /\ Touch(c, e, i, id) /\ Received0(c, e, f.len) /\ e.block = c.block
       /\ DataKeeps(s, te) /\ te.state = next /\ te.BodyLength = s.BodyLength + f.content
       /\ te.StreamClosed = s.StreamClosed
       /\ te.localWindow - e.ledger.credit[id] = s.localWindow - c.ledger.credit[id] - f.len
  <2>1. Touch(c, e, i, id)
    BY <1>9, <1>11, TouchTrans
  <2>2. Received0(c, e, f.len)
    <3>1. /\ e.connectionRecvWindow \in Int /\ e.ledger.credit[0] \in Int /\ e.connectionRecvConsumed \in Int
          /\ c3.connectionRecvWindow \in Int /\ c3.ledger.credit[0] \in Int /\ c3.connectionRecvConsumed \in Int
      BY <1>0, <1>9, <2>1, SMTT(30) DEF Touch, Shape
    <3>2. QED
      BY <1>0, <1>10, <1>11, <3>1 DEF Received0
  <2>3. DataKeeps(s, te)
    BY <1>8, <1>11 DEF DataKeeps
  <2>4. te.localWindow - e.ledger.credit[id] = s.localWindow - c.ledger.credit[id] - f.len
    BY <1>0, <1>8, <1>10, <1>11 DEF StreamShape
  <2>5. QED
    BY <1>8, <1>10, <1>11, <2>1, <2>2, <2>3, <2>4
<1> DEFINE t4 == [te EXCEPT !.StreamClosed = @ \/ f.end]
<1>13. /\ Touch(c, d4, i, id) /\ Received0(c, d4, f.len) /\ d4.block = c.block
       /\ d4.streams[i] = t4 /\ d4.ledger = e.ledger
  <2>1. /\ d4.streams = [e.streams EXCEPT ![i] = t4] /\ d4.ledger = e.ledger /\ d4.block = e.block
        /\ d4.connectionRecvWindow = e.connectionRecvWindow
        /\ d4.connectionRecvConsumed = e.connectionRecvConsumed
        /\ DOMAIN d4 = DOMAIN e /\ d4.nextStreamId = e.nextStreamId /\ d4.up = e.up
        /\ d4.goAwaySent = e.goAwaySent /\ d4.connectionSendWindow = e.connectionSendWindow
        /\ d4.InitialWindowSize = e.InitialWindowSize /\ d4.MaxConcurrentStreams = e.MaxConcurrentStreams
    BY <1>12 DEF Shape, Touch, e, CloseOnEnd
  <2> HIDE DEF d4
  <2>2. Shape(e) /\ e.connectionRecvWindow \in Int /\ e.connectionRecvConsumed \in Nat /\ StreamShape(te)
    BY <1>12 DEF Touch, Shape
  <2>3. StreamShape(t4) /\ t4.InUse = te.InUse /\ t4.streamId = te.streamId
    BY <2>2 DEF StreamShape, Fields, NoStream
  <2> HIDE DEF t4
  <2>8. Edited(e, d4, i, t4) /\ te = e.streams[i]
    BY <2>1 DEF Edited
  <2>4. Touch(e, d4, i, id) /\ d4.streams[i] = t4
    <3>1. d4.connectionRecvWindow \in Int /\ d4.connectionRecvConsumed \in Nat /\ DOMAIN d4.block = DOMAIN e.block
      BY <2>1, <2>2
    <3>2. StreamShape(t4) /\ t4.InUse = e.streams[i].InUse /\ t4.streamId = e.streams[i].streamId
      BY <2>3
    <3>3. QED
      BY <2>2, <2>8, <3>1, <3>2, EditTouch
  <2>5. Touch(c, d4, i, id)
    BY <2>4, <1>12, TouchTrans
  <2>6. Received0(c, d4, f.len)
    BY <2>1, <1>12 DEF Received0
  <2>7. QED
    BY <2>1, <2>4, <2>5, <2>6, <1>12
<1>14. /\ DataKeeps(s, t4) /\ t4.state = next /\ t4.BodyLength = s.BodyLength + f.content
       /\ t4.StreamClosed = (s.StreamClosed \/ f.end) /\ t4.localWindow = te.localWindow
  <2>1. DOMAIN te = Fields
    BY <1>12 DEF Touch, Shape, StreamShape
  <2> HIDE DEF te
  <2>2. DataKeeps(te, t4) /\ t4.state = te.state /\ t4.BodyLength = te.BodyLength
        /\ t4.StreamClosed = (te.StreamClosed \/ f.end) /\ t4.localWindow = te.localWindow
    BY <2>1 DEF Fields, NoStream, DataKeeps
  <2> HIDE DEF t4
  <2>3. QED
    BY <2>2, <1>12 DEF DataKeeps
<1> HIDE DEF t4, d4, te
<1>15. CASE d = c /\ Failed(r)
  <2>1. Received0(c, c, f.len)
    BY <1>0 DEF Received0
  <2>2. Touch(c, c, i, id) /\ DataKeeps(s, s)
    BY DEF Touch, DataKeeps
  <2>3. s.localWindow - c.ledger.credit[id] >= s.localWindow - c.ledger.credit[id] - f.len
    BY <1>0 DEF StreamShape
  <2>4. QED
    BY <1>15, <2>1, <2>2, <2>3 DEF DataProcessed
<1>16. CASE d = SendGoAway(c1) /\ Failed(r) /\ next # "refused"
  <2>1. Shape(c1)
    BY <1>4 DEF Touch
  <2>2. /\ Touch(c1, d, i, id) /\ d.streams = c1.streams /\ d.block = c1.block /\ d.ledger = c1.ledger
        /\ d.connectionRecvWindow = c1.connectionRecvWindow
        /\ d.connectionRecvConsumed = c1.connectionRecvConsumed
    BY <1>16, <2>1, SendGoAwayFacts
  <2>3. Touch(c, d, i, id)
    BY <1>4, <2>2, TouchTrans
  <2>4. Received0(c, d, f.len)
    BY <1>0, <1>2, <2>2 DEF Received0
  <2>5. t.localWindow - d.ledger.credit[id] >= s.localWindow - c.ledger.credit[id] - f.len
    BY <1>0, <1>2, <1>3, <1>4, <2>2 DEF StreamShape
  <2>6. QED
    BY <1>2, <1>3, <1>4, <1>16, <2>2, <2>3, <2>4, <2>5 DEF DataProcessed
<1>17. CASE d = c2 /\ Failed(r) /\ next # "refused"
  <2>1. Received0(c, d, f.len)
    BY <1>0, <1>2, <1>5, <1>17 DEF Received0
  <2>2. t.localWindow - d.ledger.credit[id] >= s.localWindow - c.ledger.credit[id] - f.len
    <3>1. t.localWindow = s.localWindow - f.len /\ d.ledger = c.ledger
      BY <1>2, <1>3, <1>5, <1>6, <1>17
    <3>2. QED
      BY <1>0, <3>1 DEF StreamShape
  <2>3. QED
    BY <1>2, <1>3, <1>5, <1>6, <1>17, <2>1, <2>2 DEF DataProcessed
<1>18. CASE d = e /\ Failed(r) /\ next # "refused"
  <2>1. t = te
    BY <1>18 DEF te
  <2>2. t.localWindow \in Int /\ d.ledger.credit[id] \in Int
    BY <1>0, <1>12, <1>18, <2>1 DEF Touch, Shape, StreamShape
  <2>3. t.localWindow - d.ledger.credit[id] >= s.localWindow - c.ledger.credit[id] - f.len
    BY <1>0, <1>12, <1>18, <2>1, <2>2 DEF StreamShape
  <2>4. QED
    BY <1>12, <1>18, <2>1, <2>3 DEF DataProcessed
<1>19. CASE d = d4 /\ ~Failed(r) /\ next # "refused"
            /\ ~(f.end /\ s.ResponseContentLength >= 0 /\ body # s.ResponseContentLength)
  <2>1. t = t4
    BY <1>19, <1>13
  <2>2. te.localWindow - e.ledger.credit[id] >= s.localWindow - c.ledger.credit[id] - f.len
    <3>1. te.localWindow \in Int /\ e.ledger.credit[id] \in Int
      BY <1>0, <1>12 DEF Touch, Shape, StreamShape, te
    <3>2. QED
      BY <1>0, <1>12, <3>1 DEF StreamShape
  <2>3. f.end => s.ResponseContentLength \in {-1, t.BodyLength}
    BY <1>0, <1>14, <1>19, <2>1 DEF StreamShape
  <2>4. QED
    BY <1>13, <1>14, <1>19, <2>1, <2>2, <2>3 DEF DataProcessed
<1>20. QED
  <2>1. ASSUME NEW x, NEW y PROVE Result(x, y).c = x /\ (Failed(Result(x, y)) <=> y # "success")
    BY DEF Result, Failed
  <2>2. \A x : ConnectionError(x, "invalid").c = SendGoAway(x) /\ Failed(ConnectionError(x, "invalid"))
    BY DEF ConnectionError, Result, Failed
  <2>3. /\ Result(c, "invalid").c = c /\ Failed(Result(c, "invalid")) /\ Result(c, "state").c = c
        /\ Failed(Result(c, "state")) /\ Result(c2, "invalid").c = c2 /\ Failed(Result(c2, "invalid"))
        /\ Result(c2, "tooSmall").c = c2 /\ Failed(Result(c2, "tooSmall"))
        /\ Result(e, "invalid").c = e /\ Failed(Result(e, "invalid"))
        /\ Result(d4, "success").c = d4 /\ ~Failed(Result(d4, "success"))
    BY DEF Result, Failed
  <2>4. u.c = e
    BY DEF e
  <2>5. QED
    BY <1>1, <1>15, <1>16, <1>17, <1>18, <1>19, <2>2, <2>3, <2>4

-----------------------------------------------------------------------------
(* Header blocks.                                                          *)

\* Only the stream in slot i and the header block buffer are written.
Rewrites(c, d, i, t) ==
    /\ Edited(c, d, i, t) /\ DOMAIN d.block = DOMAIN c.block
    /\ d.connectionRecvWindow = c.connectionRecvWindow /\ d.connectionRecvConsumed = c.connectionRecvConsumed

\* What a header block leaves alone in the stream.
HeadersKeep(s, t) ==
    /\ t.InUse = s.InUse /\ t.streamId = s.streamId /\ t.localWindow = s.localWindow
    /\ t.remoteWindow = s.remoteWindow /\ t.BodyLength = s.BodyLength

Quiet(c, d, i, id) ==
    /\ Touch(c, d, i, id) /\ d.ledger = c.ledger /\ HeadersKeep(c.streams[i], d.streams[i])
    /\ d.connectionRecvWindow = c.connectionRecvWindow /\ d.connectionRecvConsumed = c.connectionRecvConsumed

LEMMA RewriteQuiet ==
    ASSUME NEW c, Shape(c), NEW i \in Slots, NEW id, NEW d, NEW t, Rewrites(c, d, i, t),
           StreamShape(t), HeadersKeep(c.streams[i], t)
    PROVE  Quiet(c, d, i, id) /\ d.streams[i] = t
<1>1. d.connectionRecvWindow \in Int /\ d.connectionRecvConsumed \in Nat
  BY DEF Shape, Rewrites
<1>2. Edited(c, d, i, t) /\ DOMAIN d.block = DOMAIN c.block
  BY DEF Rewrites
<1>3. t.InUse = c.streams[i].InUse /\ t.streamId = c.streams[i].streamId
  BY DEF HeadersKeep
<1>4. Touch(c, d, i, id) /\ d.streams[i] = t
  BY <1>1, <1>2, <1>3, EditTouch
<1>5. QED
  BY <1>4 DEF Quiet, Rewrites, Edited

LEMMA QuietTrans ==
    ASSUME NEW b, NEW c, NEW d, NEW i, NEW id, Quiet(b, c, i, id), Quiet(c, d, i, id)
    PROVE  Quiet(b, d, i, id)
<1>1. Touch(b, d, i, id)
  BY TouchTrans DEF Quiet
<1>2. QED
  BY <1>1 DEF Quiet, HeadersKeep

LEMMA QuietSelf ==
    ASSUME NEW c, Shape(c), NEW i \in Slots, NEW id
    PROVE  Quiet(c, c, i, id) /\ Quiet(c, SendGoAway(c), i, id)
           /\ SendGoAway(c).streams = c.streams /\ SendGoAway(c).block = c.block
<1>1. Quiet(c, c, i, id)
  BY DEF Quiet, Touch, HeadersKeep
<1>2. /\ Touch(c, SendGoAway(c), i, id) /\ SendGoAway(c).streams = c.streams
      /\ SendGoAway(c).block = c.block /\ SendGoAway(c).ledger = c.ledger
      /\ SendGoAway(c).connectionRecvWindow = c.connectionRecvWindow
      /\ SendGoAway(c).connectionRecvConsumed = c.connectionRecvConsumed
  BY SendGoAwayFacts
<1>3. QED
  BY <1>1, <1>2 DEF Quiet, HeadersKeep

\* The parts of the stream a step of the header block leaves or sets.
LEMMA OpenForHeadersFacts ==
    ASSUME NEW c, Shape(c), NEW i \in Slots, NEW id
    PROVE  /\ Quiet(c, OpenForHeaders(c, i), i, id) /\ OpenForHeaders(c, i).block = c.block
           /\ OpenForHeaders(c, i).streams[i].ExpectingContinuation = c.streams[i].ExpectingContinuation
           /\ OpenForHeaders(c, i).streams[i].StreamClosed = c.streams[i].StreamClosed
           /\ OpenForHeaders(c, i).streams[i].ResponseContentLength = c.streams[i].ResponseContentLength
           /\ OpenForHeaders(c, i).streams[i].ResponseHeaderBlockLen = c.streams[i].ResponseHeaderBlockLen
           /\ OpenForHeaders(c, i).streams[i].PendingHeaderEndStream = c.streams[i].PendingHeaderEndStream
           /\ OpenForHeaders(c, i).streams[i].state = ReceiveHeaders(c.streams[i].state, c.streams[i].PendingHeaderEndStream)
<1> SUFFICES ASSUME NEW s, s = c.streams[i], NEW d, d = OpenForHeaders(c, i)
             PROVE  /\ Quiet(c, d, i, id) /\ d.block = c.block
                    /\ d.streams[i].ExpectingContinuation = s.ExpectingContinuation
                    /\ d.streams[i].StreamClosed = s.StreamClosed
                    /\ d.streams[i].ResponseContentLength = s.ResponseContentLength
                    /\ d.streams[i].ResponseHeaderBlockLen = s.ResponseHeaderBlockLen
                    /\ d.streams[i].PendingHeaderEndStream = s.PendingHeaderEndStream
                    /\ d.streams[i].state = ReceiveHeaders(s.state, s.PendingHeaderEndStream)
  OBVIOUS
<1> DEFINE t == [s EXCEPT !.state = ReceiveHeaders(s.state, s.PendingHeaderEndStream)]
<1>1. Rewrites(c, d, i, t) /\ d.block = c.block
  BY DEF OpenForHeaders, Rewrites, Edited, Shape
<1>2. StreamShape(s)
  BY DEF Shape
<1>3. /\ StreamShape(t) /\ HeadersKeep(s, t)
      /\ t.ExpectingContinuation = s.ExpectingContinuation
      /\ t.StreamClosed = s.StreamClosed
      /\ t.ResponseContentLength = s.ResponseContentLength
      /\ t.ResponseHeaderBlockLen = s.ResponseHeaderBlockLen
      /\ t.PendingHeaderEndStream = s.PendingHeaderEndStream
      /\ t.state = ReceiveHeaders(s.state, s.PendingHeaderEndStream)
  BY <1>2 DEF StreamShape, HeadersKeep, Fields, NoStream
<1> HIDE DEF t
<1>4. Quiet(c, d, i, id) /\ d.streams[i] = t
  BY <1>1, <1>3, RewriteQuiet
<1>5. QED
  BY <1>1, <1>3, <1>4

\* The response is applied to the stream.
LEMMA ApplyResponseFacts ==
    ASSUME NEW c, Shape(c), NEW i \in Slots, NEW id,
           NEW f, f.clen \in Nat \cup {-1}
    PROVE  /\ Quiet(c, ApplyResponse(c, i, f), i, id) /\ ApplyResponse(c, i, f).block = c.block
           /\ ApplyResponse(c, i, f).streams[i].state = c.streams[i].state
           /\ ApplyResponse(c, i, f).streams[i].ExpectingContinuation = c.streams[i].ExpectingContinuation
           /\ ApplyResponse(c, i, f).streams[i].StreamClosed = c.streams[i].StreamClosed
           /\ ApplyResponse(c, i, f).streams[i].ResponseHeaderBlockLen = c.streams[i].ResponseHeaderBlockLen
           /\ ApplyResponse(c, i, f).streams[i].PendingHeaderEndStream = c.streams[i].PendingHeaderEndStream
<1> SUFFICES ASSUME NEW s, s = c.streams[i], NEW d, d = ApplyResponse(c, i, f)
             PROVE  /\ Quiet(c, d, i, id) /\ d.block = c.block
                    /\ d.streams[i].state = s.state
                    /\ d.streams[i].ExpectingContinuation = s.ExpectingContinuation
                    /\ d.streams[i].StreamClosed = s.StreamClosed
                    /\ d.streams[i].ResponseHeaderBlockLen = s.ResponseHeaderBlockLen
                    /\ d.streams[i].PendingHeaderEndStream = s.PendingHeaderEndStream
  OBVIOUS
<1> DEFINE t == [s EXCEPT !.ResponseContentLength = f.clen,
                    !.ResponseBodyForbidden = s.RequestForbidsResponseBody \/ f.block = "empty"]
<1>1. Rewrites(c, d, i, t) /\ d.block = c.block
  BY DEF ApplyResponse, Rewrites, Edited, Shape
<1>2. StreamShape(s)
  BY DEF Shape
<1>3. /\ StreamShape(t) /\ HeadersKeep(s, t)
      /\ t.state = s.state
      /\ t.ExpectingContinuation = s.ExpectingContinuation
      /\ t.StreamClosed = s.StreamClosed
      /\ t.ResponseHeaderBlockLen = s.ResponseHeaderBlockLen
      /\ t.PendingHeaderEndStream = s.PendingHeaderEndStream
  BY <1>2 DEF StreamShape, HeadersKeep, Fields, NoStream
<1> HIDE DEF t
<1>4. Quiet(c, d, i, id) /\ d.streams[i] = t
  BY <1>1, <1>3, RewriteQuiet
<1>5. QED
  BY <1>1, <1>3, <1>4

\* The headers have been received.
LEMMA HeadersAppliedFacts ==
    ASSUME NEW c, Shape(c), NEW i \in Slots, NEW id
    PROVE  /\ Quiet(c, HeadersApplied(c, i), i, id) /\ HeadersApplied(c, i).block = c.block
           /\ HeadersApplied(c, i).streams[i].state = c.streams[i].state
           /\ HeadersApplied(c, i).streams[i].ExpectingContinuation = c.streams[i].ExpectingContinuation
           /\ HeadersApplied(c, i).streams[i].StreamClosed = c.streams[i].StreamClosed
           /\ HeadersApplied(c, i).streams[i].ResponseContentLength = c.streams[i].ResponseContentLength
           /\ HeadersApplied(c, i).streams[i].PendingHeaderEndStream = c.streams[i].PendingHeaderEndStream
           /\ HeadersApplied(c, i).streams[i].ResponseHeaderBlockLen = 0
<1> SUFFICES ASSUME NEW s, s = c.streams[i], NEW d, d = HeadersApplied(c, i)
             PROVE  /\ Quiet(c, d, i, id) /\ d.block = c.block
                    /\ d.streams[i].state = s.state
                    /\ d.streams[i].ExpectingContinuation = s.ExpectingContinuation
                    /\ d.streams[i].StreamClosed = s.StreamClosed
                    /\ d.streams[i].ResponseContentLength = s.ResponseContentLength
                    /\ d.streams[i].PendingHeaderEndStream = s.PendingHeaderEndStream
                    /\ d.streams[i].ResponseHeaderBlockLen = 0
  OBVIOUS
<1> DEFINE t == [s EXCEPT !.ResponseHeadersReceived = TRUE, !.ResponseHeaderBlockLen = 0]
<1>1. Rewrites(c, d, i, t) /\ d.block = c.block
  BY DEF HeadersApplied, Rewrites, Edited, Shape
<1>2. StreamShape(s)
  BY DEF Shape
<1>3. /\ StreamShape(t) /\ HeadersKeep(s, t)
      /\ t.state = s.state
      /\ t.ExpectingContinuation = s.ExpectingContinuation
      /\ t.StreamClosed = s.StreamClosed
      /\ t.ResponseContentLength = s.ResponseContentLength
      /\ t.PendingHeaderEndStream = s.PendingHeaderEndStream
      /\ t.ResponseHeaderBlockLen = 0
  BY <1>2 DEF StreamShape, HeadersKeep, Fields, NoStream
<1> HIDE DEF t
<1>4. Quiet(c, d, i, id) /\ d.streams[i] = t
  BY <1>1, <1>3, RewriteQuiet
<1>5. QED
  BY <1>1, <1>3, <1>4

\* The block is used up.
LEMMA BlockDoneFacts ==
    ASSUME NEW c, Shape(c), NEW i \in Slots, NEW id
    PROVE  /\ Quiet(c, BlockDone(c, i), i, id)
           /\ BlockDone(c, i).streams[i].state = c.streams[i].state
           /\ BlockDone(c, i).streams[i].ExpectingContinuation = c.streams[i].ExpectingContinuation
           /\ BlockDone(c, i).streams[i].StreamClosed = c.streams[i].StreamClosed
           /\ BlockDone(c, i).streams[i].ResponseContentLength = c.streams[i].ResponseContentLength
           /\ BlockDone(c, i).streams[i].ResponseHeaderBlockLen = 0
<1> SUFFICES ASSUME NEW s, s = c.streams[i], NEW d, d = BlockDone(c, i)
             PROVE  /\ Quiet(c, d, i, id)
                    /\ d.streams[i].state = s.state
                    /\ d.streams[i].ExpectingContinuation = s.ExpectingContinuation
                    /\ d.streams[i].StreamClosed = s.StreamClosed
                    /\ d.streams[i].ResponseContentLength = s.ResponseContentLength
                    /\ d.streams[i].ResponseHeaderBlockLen = 0
  OBVIOUS
<1> DEFINE t == [s EXCEPT !.ResponseHeaderBlockLen = 0, !.PendingHeaderEndStream = FALSE]
<1>1. Rewrites(c, d, i, t)
  BY DEF BlockDone, Rewrites, Edited, Shape, NoBlock
<1>2. StreamShape(s)
  BY DEF Shape
<1>3. /\ StreamShape(t) /\ HeadersKeep(s, t)
      /\ t.state = s.state
      /\ t.ExpectingContinuation = s.ExpectingContinuation
      /\ t.StreamClosed = s.StreamClosed
      /\ t.ResponseContentLength = s.ResponseContentLength
      /\ t.ResponseHeaderBlockLen = 0
  BY <1>2 DEF StreamShape, HeadersKeep, Fields, NoStream
<1> HIDE DEF t
<1>4. Quiet(c, d, i, id) /\ d.streams[i] = t
  BY <1>1, <1>3, RewriteQuiet
<1>5. QED
  BY <1>1, <1>3, <1>4

\* The stream is over.
Closing(c, d, i, id, end) ==
    LET s == c.streams[i]
        t == d.streams[i]
    IN  /\ Quiet(c, d, i, id) /\ t.state = s.state /\ t.ExpectingContinuation = s.ExpectingContinuation
        /\ t.ResponseContentLength = s.ResponseContentLength
        /\ t.ResponseHeaderBlockLen = s.ResponseHeaderBlockLen
        /\ t.StreamClosed => s.StreamClosed \/ end

LEMMA CloseOnEndFacts ==
    ASSUME NEW c, Shape(c), NEW i \in Slots, NEW id, NEW end
    PROVE  Closing(c, CloseOnEnd(c, i, end), i, id, end)
<1> SUFFICES ASSUME NEW s, s = c.streams[i], NEW d, d = CloseOnEnd(c, i, end)
             PROVE  Closing(c, d, i, id, end)
  OBVIOUS
<1> DEFINE t == [s EXCEPT !.StreamClosed = @ \/ end]
<1>1. Rewrites(c, d, i, t) /\ d.block = c.block
  BY DEF CloseOnEnd, Rewrites, Edited, Shape
<1>2. StreamShape(s)
  BY DEF Shape
<1>3. /\ StreamShape(t) /\ HeadersKeep(s, t)
      /\ t.state = s.state
      /\ t.ExpectingContinuation = s.ExpectingContinuation
      /\ t.ResponseContentLength = s.ResponseContentLength
      /\ t.ResponseHeaderBlockLen = s.ResponseHeaderBlockLen
      /\ t.PendingHeaderEndStream = s.PendingHeaderEndStream
      /\ t.StreamClosed => s.StreamClosed \/ end
  BY <1>2 DEF StreamShape, HeadersKeep, Fields, NoStream
<1> HIDE DEF t
<1>4. Quiet(c, d, i, id) /\ d.streams[i] = t
  BY <1>1, <1>3, RewriteQuiet
<1>5. QED
  BY <1>1, <1>3, <1>4 DEF Closing

\* The block goes on.
LEMMA BlockStarts ==
    ASSUME NEW c, Shape(c), NEW i \in Slots, NEW id
    PROVE  /\ Quiet(c, ExpectContinuation(c, i, TRUE), i, id) /\ ExpectContinuation(c, i, TRUE).block = c.block
           /\ ExpectContinuation(c, i, TRUE).streams[i].state = c.streams[i].state
           /\ ExpectContinuation(c, i, TRUE).streams[i].StreamClosed = c.streams[i].StreamClosed
           /\ ExpectContinuation(c, i, TRUE).streams[i].ResponseContentLength = c.streams[i].ResponseContentLength
           /\ ExpectContinuation(c, i, TRUE).streams[i].ResponseHeaderBlockLen = c.streams[i].ResponseHeaderBlockLen
           /\ ExpectContinuation(c, i, TRUE).streams[i].PendingHeaderEndStream = c.streams[i].PendingHeaderEndStream
           /\ ExpectContinuation(c, i, TRUE).streams[i].ExpectingContinuation = TRUE
<1> SUFFICES ASSUME NEW s, s = c.streams[i], NEW d, d = ExpectContinuation(c, i, TRUE)
             PROVE  /\ Quiet(c, d, i, id) /\ d.block = c.block
                    /\ d.streams[i].state = s.state
                    /\ d.streams[i].StreamClosed = s.StreamClosed
                    /\ d.streams[i].ResponseContentLength = s.ResponseContentLength
                    /\ d.streams[i].ResponseHeaderBlockLen = s.ResponseHeaderBlockLen
                    /\ d.streams[i].PendingHeaderEndStream = s.PendingHeaderEndStream
                    /\ d.streams[i].ExpectingContinuation = TRUE
  OBVIOUS
<1> DEFINE t == [s EXCEPT !.ExpectingContinuation = TRUE, !.ContinuationFrames = 0,
                            !.EmptyContinuationFrames = 0]
<1>1. Rewrites(c, d, i, t) /\ d.block = c.block
  BY DEF ExpectContinuation, Rewrites, Edited, Shape
<1>2. StreamShape(s)
  BY DEF Shape
<1>3. /\ StreamShape(t) /\ HeadersKeep(s, t)
      /\ t.state = s.state
      /\ t.StreamClosed = s.StreamClosed
      /\ t.ResponseContentLength = s.ResponseContentLength
      /\ t.ResponseHeaderBlockLen = s.ResponseHeaderBlockLen
      /\ t.PendingHeaderEndStream = s.PendingHeaderEndStream
      /\ t.ExpectingContinuation = TRUE
  BY <1>2 DEF StreamShape, HeadersKeep, Fields, NoStream
<1> HIDE DEF t
<1>4. Quiet(c, d, i, id) /\ d.streams[i] = t
  BY <1>1, <1>3, RewriteQuiet
<1>5. QED
  BY <1>1, <1>3, <1>4

\* The block is complete.
LEMMA BlockEnds ==
    ASSUME NEW c, Shape(c), NEW i \in Slots, NEW id
    PROVE  /\ Quiet(c, ExpectContinuation(c, i, FALSE), i, id) /\ ExpectContinuation(c, i, FALSE).block = c.block
           /\ ExpectContinuation(c, i, FALSE).streams[i].state = c.streams[i].state
           /\ ExpectContinuation(c, i, FALSE).streams[i].StreamClosed = c.streams[i].StreamClosed
           /\ ExpectContinuation(c, i, FALSE).streams[i].ResponseContentLength = c.streams[i].ResponseContentLength
           /\ ExpectContinuation(c, i, FALSE).streams[i].ResponseHeaderBlockLen = c.streams[i].ResponseHeaderBlockLen
           /\ ExpectContinuation(c, i, FALSE).streams[i].PendingHeaderEndStream = c.streams[i].PendingHeaderEndStream
           /\ ExpectContinuation(c, i, FALSE).streams[i].ExpectingContinuation = FALSE
<1> SUFFICES ASSUME NEW s, s = c.streams[i], NEW d, d = ExpectContinuation(c, i, FALSE)
             PROVE  /\ Quiet(c, d, i, id) /\ d.block = c.block
                    /\ d.streams[i].state = s.state
                    /\ d.streams[i].StreamClosed = s.StreamClosed
                    /\ d.streams[i].ResponseContentLength = s.ResponseContentLength
                    /\ d.streams[i].ResponseHeaderBlockLen = s.ResponseHeaderBlockLen
                    /\ d.streams[i].PendingHeaderEndStream = s.PendingHeaderEndStream
                    /\ d.streams[i].ExpectingContinuation = FALSE
  OBVIOUS
<1> DEFINE t == [s EXCEPT !.ExpectingContinuation = FALSE, !.ContinuationFrames = 0,
                            !.EmptyContinuationFrames = 0]
<1>1. Rewrites(c, d, i, t) /\ d.block = c.block
  BY DEF ExpectContinuation, Rewrites, Edited, Shape
<1>2. StreamShape(s)
  BY DEF Shape
<1>3. /\ StreamShape(t) /\ HeadersKeep(s, t)
      /\ t.state = s.state
      /\ t.StreamClosed = s.StreamClosed
      /\ t.ResponseContentLength = s.ResponseContentLength
      /\ t.ResponseHeaderBlockLen = s.ResponseHeaderBlockLen
      /\ t.PendingHeaderEndStream = s.PendingHeaderEndStream
      /\ t.ExpectingContinuation = FALSE
  BY <1>2 DEF StreamShape, HeadersKeep, Fields, NoStream
<1> HIDE DEF t
<1>4. Rewrites(c, d, i, t) /\ StreamShape(t) /\ HeadersKeep(c.streams[i], t)
  BY <1>1, <1>3
<1>5. Quiet(c, d, i, id) /\ d.streams[i] = t
  BY <1>4, RewriteQuiet
<1>6. QED
  BY <1>1, <1>3, <1>5

\* The fragment is in the buffer, as the stream's own.
LEMMA AppendFragmentFacts ==
    ASSUME NEW c, Shape(c), NEW i \in Slots, NEW id, NEW f, f.len \in Nat,
           c.streams[i].ResponseHeaderBlockLen + f.len <= HeaderBlockCapacity
    PROVE  /\ Quiet(c, AppendFragment(c, i, f), i, id)
           /\ AppendFragment(c, i, f).streams[i].state = c.streams[i].state
           /\ AppendFragment(c, i, f).streams[i].StreamClosed = c.streams[i].StreamClosed
           /\ AppendFragment(c, i, f).streams[i].ResponseContentLength = c.streams[i].ResponseContentLength
           /\ AppendFragment(c, i, f).streams[i].PendingHeaderEndStream = c.streams[i].PendingHeaderEndStream
           /\ AppendFragment(c, i, f).streams[i].ExpectingContinuation = c.streams[i].ExpectingContinuation
           /\ (\A k \in 1 .. c.streams[i].ResponseHeaderBlockLen : c.block[k] = f.streamId)
              => \A k \in 1 .. AppendFragment(c, i, f).streams[i].ResponseHeaderBlockLen :
                    AppendFragment(c, i, f).block[k] = f.streamId
<1> SUFFICES ASSUME NEW s, s = c.streams[i], NEW d, d = AppendFragment(c, i, f)
             PROVE  /\ Quiet(c, d, i, id)
                    /\ d.streams[i].state = s.state /\ d.streams[i].StreamClosed = s.StreamClosed
                    /\ d.streams[i].ResponseContentLength = s.ResponseContentLength
                    /\ d.streams[i].PendingHeaderEndStream = s.PendingHeaderEndStream
                    /\ d.streams[i].ExpectingContinuation = s.ExpectingContinuation
                    /\ (\A k \in 1 .. s.ResponseHeaderBlockLen : c.block[k] = f.streamId)
                       => \A k \in 1 .. d.streams[i].ResponseHeaderBlockLen : d.block[k] = f.streamId
  OBVIOUS
<1> DEFINE t == [s EXCEPT !.ResponseHeaderBlockLen = @ + f.len]
           n == s.ResponseHeaderBlockLen
           B == [k \in DOMAIN c.block |->
                    IF k \in n + 1 .. n + f.len THEN f.streamId ELSE c.block[k]]
<1>0. d = [c EXCEPT !.streams[i].ResponseHeaderBlockLen = n + f.len, !.block = B]
  BY DEF AppendFragment
<1>1. DOMAIN B = DOMAIN c.block
  OBVIOUS
<1> HIDE DEF B
<1>2. Rewrites(c, d, i, t) /\ d.block = B
  BY <1>0, <1>1 DEF Rewrites, Edited, Shape
<1>3. StreamShape(s) /\ n \in Nat
  BY DEF Shape, StreamShape
<1>4. /\ StreamShape(t) /\ HeadersKeep(s, t) /\ t.ResponseHeaderBlockLen = n + f.len
      /\ t.state = s.state /\ t.StreamClosed = s.StreamClosed
      /\ t.ResponseContentLength = s.ResponseContentLength
      /\ t.PendingHeaderEndStream = s.PendingHeaderEndStream
      /\ t.ExpectingContinuation = s.ExpectingContinuation
  BY <1>3 DEF StreamShape, HeadersKeep, Fields, NoStream
<1> HIDE DEF t
<1>5. Quiet(c, d, i, id) /\ d.streams[i] = t
  BY <1>2, <1>4, RewriteQuiet
<1>6. ASSUME \A k \in 1 .. n : c.block[k] = f.streamId, NEW k \in 1 .. n + f.len
      PROVE  B[k] = f.streamId
  <2>1. DOMAIN c.block = 1 .. HeaderBlockCapacity /\ HeaderBlockCapacity \in Nat
    BY Http2Assumption DEF Shape
  <2>2. k \in DOMAIN c.block
    BY <1>3, <2>1
  <2>3. k \in 1 .. n \/ k \in n + 1 .. n + f.len
    BY <1>3
  <2>4. QED
    BY <1>6, <2>2, <2>3 DEF B
<1>7. QED
  BY <1>2, <1>4, <1>5, <1>6

\* What counting the frames of a block leaves alone.
Counted(c, d, i, id, f) ==
    LET s == c.streams[i]
        t == d.streams[i]
    IN  /\ Quiet(c, d, i, id) /\ d.block = c.block
        /\ t.ExpectingContinuation = s.ExpectingContinuation /\ t.state = s.state
        /\ t.ResponseHeaderBlockLen = s.ResponseHeaderBlockLen /\ t.StreamClosed = s.StreamClosed
        /\ t.ResponseContentLength = s.ResponseContentLength
        /\ t.PendingHeaderEndStream = IF f.type = "CONTINUATION" THEN s.PendingHeaderEndStream ELSE f.end

LEMMA CountContinuationFacts ==
    ASSUME NEW c, Shape(c), NEW i \in Slots, NEW id, NEW f
    PROVE  Counted(c, CountContinuation(c, i, f), i, id, f)
<1> SUFFICES ASSUME NEW s, s = c.streams[i], NEW d, d = CountContinuation(c, i, f), NEW t, t = d.streams[i]
             PROVE  Counted(c, d, i, id, f)
  OBVIOUS
<1>1. StreamShape(s)
  BY DEF Shape
<1>2. CASE f.type = "CONTINUATION"
  <2> DEFINE x == [s EXCEPT !.ContinuationFrames = @ + 1,
                            !.EmptyContinuationFrames = IF f.len = 0 THEN @ + 1 ELSE 0]
  <2>1. Rewrites(c, d, i, x) /\ d.block = c.block
    BY <1>2 DEF CountContinuation, Rewrites, Edited, Shape
  <2>2. /\ StreamShape(x) /\ HeadersKeep(s, x)
        /\ x.ExpectingContinuation = s.ExpectingContinuation /\ x.state = s.state
        /\ x.ResponseHeaderBlockLen = s.ResponseHeaderBlockLen /\ x.StreamClosed = s.StreamClosed
        /\ x.ResponseContentLength = s.ResponseContentLength
        /\ x.PendingHeaderEndStream = s.PendingHeaderEndStream
    BY <1>1 DEF StreamShape, HeadersKeep, Fields, NoStream
  <2> HIDE DEF x
  <2>3. Quiet(c, d, i, id) /\ t = x
    BY <2>1, <2>2, RewriteQuiet
  <2>4. QED
    BY <1>2, <2>1, <2>2, <2>3 DEF Counted
<1>3. CASE f.type # "CONTINUATION"
  <2> DEFINE x == [s EXCEPT !.PendingHeaderEndStream = f.end]
  <2>1. Rewrites(c, d, i, x) /\ d.block = c.block
    BY <1>3 DEF CountContinuation, Rewrites, Edited, Shape
  <2>2. /\ StreamShape(x) /\ HeadersKeep(s, x)
        /\ x.ExpectingContinuation = s.ExpectingContinuation /\ x.state = s.state
        /\ x.ResponseHeaderBlockLen = s.ResponseHeaderBlockLen /\ x.StreamClosed = s.StreamClosed
        /\ x.ResponseContentLength = s.ResponseContentLength /\ x.PendingHeaderEndStream = f.end
    BY <1>1 DEF StreamShape, HeadersKeep, Fields, NoStream
  <2> HIDE DEF x
  <2>3. Quiet(c, d, i, id) /\ t = x
    BY <2>1, <2>2, RewriteQuiet
  <2>4. QED
    BY <1>3, <2>1, <2>2, <2>3 DEF Counted
<1>4. QED
  BY <1>2, <1>3

\* The end of a header block, for the stream in slot i.
FinishProcessed(c, r, i, id) ==
    LET s == c.streams[i]
        t == r.c.streams[i]
        next == ReceiveHeaders(s.state, s.PendingHeaderEndStream)
    IN  /\ Quiet(c, r.c, i, id) /\ t.ExpectingContinuation = s.ExpectingContinuation
        /\ \/ t.state = s.state
           \/ t.state = next /\ next # "refused"
        /\ ~Failed(r) => /\ next # "refused" /\ t.state = next /\ t.ResponseHeaderBlockLen = 0
                         /\ t.StreamClosed => \/ s.StreamClosed
                                              \/ /\ s.PendingHeaderEndStream
                                                 /\ t.ResponseContentLength \in {-1, t.BodyLength}

LEMMA FinishHeadersFacts ==
    ASSUME NEW c0, Shape(c0), NEW i \in Slots, NEW id, NEW f, f.clen \in Nat \cup {-1}
    PROVE  FinishProcessed(c0, FinishHeaders(c0, i, f), i, id)
<1> SUFFICES ASSUME NEW r, r = FinishHeaders(c0, i, f), NEW d, d = r.c,
                    NEW s, s = c0.streams[i], NEW t, t = d.streams[i],
                    NEW next, next = ReceiveHeaders(s.state, s.PendingHeaderEndStream)
             PROVE  FinishProcessed(c0, r, i, id)
  OBVIOUS
<1> DEFINE c    == OpenForHeaders(c0, i)
           end  == s.PendingHeaderEndStream
           c1   == IF s.ResponseHeadersReceived THEN c ELSE ApplyResponse(c, i, f)
           c2   == HeadersApplied(c1, i)
           clen == c1.streams[i].ResponseContentLength
           d4   == CloseOnEnd(BlockDone(c2, i), i, end)
<1>0. StreamShape(s)
  BY DEF Shape
<1>1. /\ Quiet(c0, c, i, id) /\ c.streams[i].state = next
      /\ c.streams[i].ExpectingContinuation = s.ExpectingContinuation
      /\ c.streams[i].StreamClosed = s.StreamClosed
  BY OpenForHeadersFacts
<1> HIDE DEF c
<1> DEFINE x == c.streams[i]
<1>2. /\ x.state = next /\ x.ExpectingContinuation = s.ExpectingContinuation /\ x.StreamClosed = s.StreamClosed
      /\ x.BodyLength = s.BodyLength /\ Shape(c)
  BY <1>1 DEF HeadersKeep, Quiet, Touch
<1>3. /\ Quiet(c0, c1, i, id) /\ c1.streams[i].state = next
      /\ c1.streams[i].ExpectingContinuation = s.ExpectingContinuation
      /\ c1.streams[i].StreamClosed = s.StreamClosed /\ c1.streams[i].BodyLength = s.BodyLength /\ Shape(c1)
  <2>1. CASE s.ResponseHeadersReceived
    <3>1. c1 = c
      BY <2>1
    <3>2. QED
      BY <3>1, <1>1, <1>2
  <2>2. CASE ~s.ResponseHeadersReceived
    <3>1. c1 = ApplyResponse(c, i, f)
      BY <2>2
    <3> HIDE DEF c1
    <3>2. Quiet(c, ApplyResponse(c, i, f), i, id)
      BY <1>2, ApplyResponseFacts
    <3>3. /\ ApplyResponse(c, i, f).streams[i].state = c.streams[i].state
          /\ ApplyResponse(c, i, f).streams[i].ExpectingContinuation = c.streams[i].ExpectingContinuation
          /\ ApplyResponse(c, i, f).streams[i].StreamClosed = c.streams[i].StreamClosed
      BY <1>2, ApplyResponseFacts
    <3>4. /\ c1.streams[i].state = x.state /\ c1.streams[i].ExpectingContinuation = x.ExpectingContinuation
          /\ c1.streams[i].StreamClosed = x.StreamClosed /\ c1.streams[i].BodyLength = x.BodyLength
      BY <3>1, <3>2, <3>3 DEF Quiet, HeadersKeep
    <3>5. Quiet(c0, c1, i, id) /\ Shape(c1)
      BY <1>1, <3>1, <3>2, QuietTrans DEF Quiet, Touch
    <3>6. QED
      BY <1>2, <3>4, <3>5
  <2>3. QED
    BY <2>1, <2>2
<1> HIDE DEF c1
<1> DEFINE y == c1.streams[i]
<1>4. /\ Quiet(c0, c2, i, id) /\ c2.streams[i].state = next
      /\ c2.streams[i].ExpectingContinuation = s.ExpectingContinuation
      /\ c2.streams[i].StreamClosed = s.StreamClosed /\ c2.streams[i].BodyLength = s.BodyLength /\ Shape(c2)
      /\ c2.streams[i].ResponseContentLength = clen /\ clen \in Nat \cup {-1}
  <2>1. /\ Quiet(c1, c2, i, id) /\ c2.streams[i].state = y.state
        /\ c2.streams[i].ExpectingContinuation = y.ExpectingContinuation
        /\ c2.streams[i].StreamClosed = y.StreamClosed
        /\ c2.streams[i].ResponseContentLength = y.ResponseContentLength
    BY <1>3, HeadersAppliedFacts
  <2> HIDE DEF c2
  <2>2. clen \in Nat \cup {-1}
    BY <1>3 DEF Shape, StreamShape
  <2>3. c2.streams[i].BodyLength = y.BodyLength
    BY <2>1 DEF Quiet, HeadersKeep
  <2>4. Quiet(c0, c2, i, id) /\ Shape(c2)
    BY <1>3, <2>1, QuietTrans DEF Quiet, Touch
  <2>5. QED
    BY <1>3, <2>1, <2>2, <2>3, <2>4
<1> HIDE DEF c2, clen
\* BlockDone on a copy of the connection.
<1>5. ASSUME NEW a, Shape(a), Quiet(c0, a, i, id)
      PROVE  LET b == BlockDone(a, i) IN
             /\ Quiet(c0, b, i, id) /\ Shape(b) /\ b.streams[i].state = a.streams[i].state
             /\ b.streams[i].ExpectingContinuation = a.streams[i].ExpectingContinuation
             /\ b.streams[i].StreamClosed = a.streams[i].StreamClosed
             /\ b.streams[i].BodyLength = a.streams[i].BodyLength
             /\ b.streams[i].ResponseContentLength = a.streams[i].ResponseContentLength
             /\ b.streams[i].ResponseHeaderBlockLen = 0
  <2> DEFINE b == BlockDone(a, i)
             z == a.streams[i]
  <2>1. /\ Quiet(a, b, i, id) /\ b.streams[i].state = z.state
        /\ b.streams[i].ExpectingContinuation = z.ExpectingContinuation
        /\ b.streams[i].StreamClosed = z.StreamClosed
        /\ b.streams[i].ResponseContentLength = z.ResponseContentLength
        /\ b.streams[i].ResponseHeaderBlockLen = 0
    BY <1>5, BlockDoneFacts
  <2> HIDE DEF b
  <2>3. b.streams[i].BodyLength = z.BodyLength
    BY <2>1 DEF Quiet, HeadersKeep
  <2>4. Quiet(c0, b, i, id) /\ Shape(b)
    BY <1>5, <2>1, QuietTrans DEF Quiet, Touch
  <2>5. QED
    BY <2>1, <2>3, <2>4 DEF b
<1> DEFINE e == BlockDone(c, i)
           g == BlockDone(c2, i)
<1>6. /\ Quiet(c0, e, i, id) /\ e.streams[i].state = next
      /\ e.streams[i].ExpectingContinuation = s.ExpectingContinuation
      /\ e.streams[i].StreamClosed = s.StreamClosed /\ e.streams[i].ResponseHeaderBlockLen = 0
  BY <1>1, <1>2, <1>5
<1>7. /\ Quiet(c0, g, i, id) /\ Shape(g) /\ g.streams[i].state = next
      /\ g.streams[i].ExpectingContinuation = s.ExpectingContinuation
      /\ g.streams[i].StreamClosed = s.StreamClosed /\ g.streams[i].ResponseHeaderBlockLen = 0
      /\ g.streams[i].BodyLength = s.BodyLength /\ g.streams[i].ResponseContentLength = clen
  BY <1>4, <1>5
<1> HIDE DEF e, g
<1>8. /\ Quiet(c0, d4, i, id) /\ d4.streams[i].state = next
      /\ d4.streams[i].ExpectingContinuation = s.ExpectingContinuation
      /\ (d4.streams[i].StreamClosed => s.StreamClosed \/ end) /\ d4.streams[i].ResponseHeaderBlockLen = 0
      /\ d4.streams[i].BodyLength = s.BodyLength /\ d4.streams[i].ResponseContentLength = clen
  <2> DEFINE z == g.streams[i]
  <2>0. d4 = CloseOnEnd(g, i, end)
    BY DEF g
  <2>1. Closing(g, CloseOnEnd(g, i, end), i, id, end)
    BY <1>7, CloseOnEndFacts
  <2> HIDE DEF end, d4
  <2>2. /\ Quiet(g, d4, i, id) /\ d4.streams[i].state = z.state
        /\ d4.streams[i].ExpectingContinuation = z.ExpectingContinuation
        /\ d4.streams[i].ResponseContentLength = z.ResponseContentLength
        /\ d4.streams[i].ResponseHeaderBlockLen = z.ResponseHeaderBlockLen
        /\ d4.streams[i].StreamClosed => z.StreamClosed \/ end
    BY <2>0, <2>1 DEF Closing
  <2>3. d4.streams[i].BodyLength = z.BodyLength
    BY <2>2 DEF Quiet, HeadersKeep
  <2>4. Quiet(c0, d4, i, id)
    BY <1>7, <2>2, QuietTrans
  <2>5. QED
    BY <1>7, <2>2, <2>3, <2>4
<1>9. \/ r = Result(c0, "state")
      \/ next # "refused" /\ \/ r = Result(c, "invalid") \/ r = ConnectionError(c, "invalid")
                             \/ r = Result(e, "success") \/ r = Result(c, "tooSmall")
                             \/ r = Result(c1, "invalid") \/ r = Result(c2, "invalid")
                             \/ r = Result(d4, "success") /\ ~(end /\ clen >= 0 /\ s.BodyLength # clen)
  BY <1>2 DEF FinishHeaders, c, c1, c2, clen, e
<1> HIDE DEF d4
<1>10. CASE r = Result(c0, "state")
  <2>1. d = c0 /\ Failed(r)
    BY <1>10 DEF Result, Failed
  <2>2. Quiet(c0, c0, i, id)
    BY QuietSelf
  <2>3. QED
    BY <2>1, <2>2 DEF FinishProcessed
<1>11. CASE next # "refused" /\ (r = Result(c, "invalid") \/ r = Result(c, "tooSmall"))
  <2>1. d = c /\ Failed(r)
    BY <1>11 DEF Result, Failed
  <2>2. QED
    BY <1>1, <1>2, <1>11, <2>1 DEF FinishProcessed
<1>12. CASE next # "refused" /\ r = ConnectionError(c, "invalid")
  <2>1. d = SendGoAway(c) /\ Failed(r)
    BY <1>12 DEF ConnectionError, Result, Failed
  <2>2. Quiet(c, d, i, id) /\ d.streams = c.streams
    BY <1>2, <2>1, QuietSelf
  <2>3. Quiet(c0, d, i, id)
    BY <1>1, <2>2, QuietTrans
  <2>4. QED
    BY <1>2, <1>12, <2>1, <2>2, <2>3 DEF FinishProcessed
<1>13. CASE next # "refused" /\ r = Result(c1, "invalid")
  <2>1. d = c1 /\ Failed(r)
    BY <1>13 DEF Result, Failed
  <2>2. QED
    BY <1>3, <1>13, <2>1 DEF FinishProcessed
<1>14. CASE next # "refused" /\ r = Result(c2, "invalid")
  <2>1. d = c2 /\ Failed(r)
    BY <1>14 DEF Result, Failed
  <2>2. QED
    BY <1>4, <1>14, <2>1 DEF FinishProcessed
<1>15. CASE next # "refused" /\ r = Result(e, "success")
  <2>1. d = e
    BY <1>15 DEF Result
  <2>2. QED
    BY <1>6, <1>15, <2>1 DEF FinishProcessed
<1>16. CASE next # "refused" /\ r = Result(d4, "success") /\ ~(end /\ clen >= 0 /\ s.BodyLength # clen)
  <2>1. d = d4
    BY <1>16 DEF Result
  <2>2. d4.streams[i].StreamClosed =>
           s.StreamClosed \/ (end /\ d4.streams[i].ResponseContentLength \in {-1, d4.streams[i].BodyLength})
    BY <1>4, <1>8, <1>16
  <2>3. QED
    BY <1>8, <1>16, <2>1, <2>2 DEF FinishProcessed
<1>17. QED
  BY <1>9, <1>10, <1>11, <1>12, <1>13, <1>14, <1>15, <1>16

\* A HEADERS or CONTINUATION frame: the block is finished, or goes on.
Pending(s, f) == IF f.type = "CONTINUATION" THEN s.PendingHeaderEndStream ELSE f.end

Finished(s, t, f) ==
    /\ ReceiveHeaders(s.state, Pending(s, f)) # "refused"
    /\ t.state = ReceiveHeaders(s.state, Pending(s, f))
    /\ t.ExpectingContinuation = FALSE /\ t.ResponseHeaderBlockLen = 0
    /\ t.StreamClosed => s.StreamClosed \/ (Pending(s, f) /\ t.ResponseContentLength \in {-1, t.BodyLength})

GoesOn(c, d, i, f) ==
    LET s == c.streams[i]
        t == d.streams[i]
    IN  /\ f.type = "HEADERS" => t.ExpectingContinuation = TRUE
        /\ f.type # "HEADERS" => t.ExpectingContinuation = s.ExpectingContinuation
        /\ t.state = s.state /\ t.StreamClosed = s.StreamClosed
        /\ t.ResponseContentLength = s.ResponseContentLength
        /\ t.PendingHeaderEndStream = Pending(s, f)
        /\ (\A k \in 1 .. s.ResponseHeaderBlockLen : c.block[k] = f.streamId)
           => \A k \in 1 .. t.ResponseHeaderBlockLen : d.block[k] = f.streamId

HeadersProcessed(c, r, i, id, f) ==
    LET s == c.streams[i]
        t == r.c.streams[i]
        next == ReceiveHeaders(s.state, Pending(s, f))
    IN  /\ Quiet(c, r.c, i, id)
        /\ \/ t.state = s.state
           \/ t.state = next /\ next # "refused"
        /\ t.ExpectingContinuation => s.ExpectingContinuation \/ f.type = "HEADERS"
        /\ ~Failed(r) => Finished(s, t, f) \/ GoesOn(c, r.c, i, f)

LEMMA ProcessHeadersFacts ==
    ASSUME NEW c0, Shape(c0), NEW i \in Slots, NEW id, NEW f, f.clen \in Nat \cup {-1}, f.len \in Nat
    PROVE  HeadersProcessed(c0, ProcessHeaders(c0, i, f), i, id, f)
<1> SUFFICES ASSUME NEW r, r = ProcessHeaders(c0, i, f), NEW d, d = r.c,
                    NEW s, s = c0.streams[i], NEW t, t = d.streams[i],
                    NEW next, next = ReceiveHeaders(s.state, Pending(s, f))
             PROVE  HeadersProcessed(c0, r, i, id, f)
  OBVIOUS
<1> DEFINE c  == CountContinuation(c0, i, f)
           x  == c.streams[i]
           c1 == AppendFragment(c, i, f)
           y  == c1.streams[i]
           c2 == ExpectContinuation(c1, i, FALSE)
           c3 == ExpectContinuation(c1, i, TRUE)
           q  == FinishHeaders(c2, i, f)
<1>1. Counted(c0, c, i, id, f)
  BY CountContinuationFacts
<1>2. \/ r = ConnectionError(c, "invalid") \/ r = ConnectionError(c, "tooSmall")
      \/ /\ ~(x.ResponseHeaderBlockLen + f.len > HeaderBlockCapacity)
         /\ \/ r = q
            \/ r = Result(c3, "success") /\ f.type = "HEADERS"
            \/ r = Result(c1, "success") /\ f.type # "HEADERS"
  BY DEF ProcessHeaders
<1> HIDE DEF c
<1>3. /\ Quiet(c0, c, i, id) /\ c.block = c0.block
      /\ x.ExpectingContinuation = s.ExpectingContinuation /\ x.state = s.state
      /\ x.ResponseHeaderBlockLen = s.ResponseHeaderBlockLen /\ x.StreamClosed = s.StreamClosed
      /\ x.ResponseContentLength = s.ResponseContentLength
      /\ x.PendingHeaderEndStream = Pending(s, f) /\ Shape(c) /\ x.BodyLength = s.BodyLength
  BY <1>1 DEF Counted, Pending, Quiet, Touch, HeadersKeep
<1>4. CASE d = SendGoAway(c) /\ Failed(r)
  <2>1. Quiet(c, d, i, id) /\ d.streams = c.streams
    BY <1>3, <1>4, QuietSelf
  <2>2. Quiet(c0, d, i, id)
    BY <1>3, <2>1, QuietTrans
  <2>3. QED
    BY <1>3, <1>4, <2>1, <2>2 DEF HeadersProcessed
<1>5. CASE x.ResponseHeaderBlockLen + f.len <= HeaderBlockCapacity
           /\ \/ r = q
              \/ r = Result(c3, "success") /\ f.type = "HEADERS"
              \/ r = Result(c1, "success") /\ f.type # "HEADERS"
  <2>1. /\ Quiet(c, c1, i, id)
        /\ y.state = x.state /\ y.StreamClosed = x.StreamClosed
        /\ y.ResponseContentLength = x.ResponseContentLength
        /\ y.PendingHeaderEndStream = x.PendingHeaderEndStream
        /\ y.ExpectingContinuation = x.ExpectingContinuation
        /\ (\A k \in 1 .. x.ResponseHeaderBlockLen : c.block[k] = f.streamId)
           => \A k \in 1 .. y.ResponseHeaderBlockLen : c1.block[k] = f.streamId
    BY <1>3, <1>5, AppendFragmentFacts
  <2> HIDE DEF c1
  <2>2. Quiet(c0, c1, i, id) /\ Shape(c1)
    BY <1>3, <2>1, QuietTrans, SMTT(30) DEF Quiet, Touch
  <2>3. /\ Quiet(c1, c2, i, id) /\ c2.streams[i].state = y.state /\ c2.streams[i].StreamClosed = y.StreamClosed
        /\ c2.streams[i].PendingHeaderEndStream = y.PendingHeaderEndStream
        /\ c2.streams[i].ExpectingContinuation = FALSE
    BY <2>2, BlockEnds
  <2>4. /\ Quiet(c1, c3, i, id) /\ c3.block = c1.block /\ c3.streams[i].state = y.state
        /\ c3.streams[i].StreamClosed = y.StreamClosed
        /\ c3.streams[i].ResponseContentLength = y.ResponseContentLength
        /\ c3.streams[i].ResponseHeaderBlockLen = y.ResponseHeaderBlockLen
        /\ c3.streams[i].PendingHeaderEndStream = y.PendingHeaderEndStream
        /\ c3.streams[i].ExpectingContinuation = TRUE
    BY <2>2, BlockStarts
  <2> HIDE DEF c2, c3
  <2>5. Quiet(c0, c2, i, id) /\ Quiet(c0, c3, i, id) /\ Shape(c2)
    <3>1. Quiet(c0, c2, i, id)
      BY <2>2, <2>3, QuietTrans
    <3>2. Quiet(c0, c3, i, id)
      BY <2>2, <2>4, QuietTrans
    <3>3. QED
      BY <3>1, <3>2 DEF Quiet, Touch
  <2>6. CASE r = q
    <3>1. FinishProcessed(c2, q, i, id)
      BY <2>5, FinishHeadersFacts
    <3> HIDE DEF q
    <3>2. Quiet(c0, d, i, id)
      BY <2>5, <2>6, <3>1, QuietTrans DEF FinishProcessed
    <3>3. ReceiveHeaders(c2.streams[i].state, c2.streams[i].PendingHeaderEndStream) = next
      BY <1>3, <2>1, <2>3
    <3>4. /\ t.ExpectingContinuation = FALSE
          /\ \/ t.state = s.state
             \/ t.state = next /\ next # "refused"
      BY <1>3, <2>1, <2>3, <2>6, <3>1, <3>3 DEF FinishProcessed
    <3>5. ~Failed(r) => Finished(s, t, f)
      <4>1. ~Failed(r) => /\ next # "refused" /\ t.state = next /\ t.ResponseHeaderBlockLen = 0
                          /\ t.StreamClosed => \/ c2.streams[i].StreamClosed
                                               \/ /\ c2.streams[i].PendingHeaderEndStream
                                                  /\ t.ResponseContentLength \in {-1, t.BodyLength}
        BY <2>6, <3>1, <3>3 DEF FinishProcessed
      <4>2. c2.streams[i].StreamClosed = s.StreamClosed /\ c2.streams[i].PendingHeaderEndStream = Pending(s, f)
        BY <1>3, <2>1, <2>3
      <4>3. QED
        BY <4>1, <4>2, <3>4 DEF Finished
    <3>6. QED
      BY <3>2, <3>4, <3>5 DEF HeadersProcessed
  <2>7. CASE r = Result(c3, "success") /\ f.type = "HEADERS"
    <3>1. d = c3
      BY <2>7 DEF Result
    <3>2. GoesOn(c0, c3, i, f)
      BY <1>3, <2>1, <2>4, <2>7 DEF GoesOn
    <3>3. QED
      BY <1>3, <2>1, <2>4, <2>5, <2>7, <3>1, <3>2 DEF HeadersProcessed
  <2>8. CASE r = Result(c1, "success") /\ f.type # "HEADERS"
    <3>1. d = c1
      BY <2>8 DEF Result
    <3>2. GoesOn(c0, c1, i, f)
      BY <1>3, <2>1, <2>8 DEF GoesOn
    <3>3. QED
      BY <1>3, <2>1, <2>2, <2>8, <3>1, <3>2 DEF HeadersProcessed
  <2>9. QED
    BY <1>5, <2>6, <2>7, <2>8
<1>6. x.ResponseHeaderBlockLen \in Nat /\ HeaderBlockCapacity \in Nat
  BY <1>3, Http2Assumption DEF Shape, StreamShape
<1>7. /\ ConnectionError(c, "invalid").c = SendGoAway(c) /\ Failed(ConnectionError(c, "invalid"))
      /\ ConnectionError(c, "tooSmall").c = SendGoAway(c) /\ Failed(ConnectionError(c, "tooSmall"))
  BY DEF ConnectionError, Result, Failed
<1> HIDE DEF x, c1, c2, c3, q
<1>8. QED
  BY <1>2, <1>4, <1>5, <1>6, <1>7

-----------------------------------------------------------------------------
(* A frame is received.                                                    *)

\* What a frame may do to the streams: none is put into another slot, and one that is
\* reset is marked closed.
Effects(c, d) ==
    /\ d.nextStreamId = c.nextStreamId
    /\ \A j \in Slots :
          LET s == c.streams[j]
              t == d.streams[j]
          IN  /\ t.InUse = s.InUse
              /\ t.streamId = s.streamId \/ (t.streamId = 0 /\ t.StreamClosed)
              /\ t.streamId = s.streamId /\ s.state \in {"Open", "HalfClosedRemote"}
                    => t.state \in {"Open", "HalfClosedRemote"}

LEMMA FindSame ==
    ASSUME NEW c, NEW d, NEW id,
           \A j \in Slots : d.streams[j].InUse = c.streams[j].InUse /\ d.streams[j].streamId = c.streams[j].streamId
    PROVE  FindActiveStream(d, id) = FindActiveStream(c, id)
<1>1. {j \in Slots : d.streams[j].InUse /\ d.streams[j].streamId = id}
      = {j \in Slots : c.streams[j].InUse /\ c.streams[j].streamId = id}
  OBVIOUS
<1>2. QED
  BY <1>1 DEF FindActiveStream

LEMMA FindNone ==
    ASSUME NEW d, NEW id, \A j \in Slots : ~Holds(d, j, id)
    PROVE  FindActiveStream(d, id) = 0
<1>1. {j \in Slots : d.streams[j].InUse /\ d.streams[j].streamId = id} = {}
  BY DEF Holds
<1>2. QED
  BY <1>1, MaxOfSlot DEF FindActiveStream

\* The streams and their books are as they were.
LEMMA KeepStreams ==
    ASSUME NEW c, ConnInv(c), NEW d, Shape(d), d.streams = c.streams, d.block = c.block,
           d.nextStreamId = c.nextStreamId, d.ledger.content = c.ledger.content,
           d.ledger.ended = c.ledger.ended, d.ledger.faulted = c.ledger.faulted,
           \A n \in StreamIds : d.ledger.credit[n] = c.ledger.credit[n]
                                /\ d.ledger.allowed[n] = c.ledger.allowed[n],
           InForce(d) => InForce(c), Balanced(d)
    PROVE  ConnInv(d) /\ Effects(c, d)
<1>1. InUseSlots(d) = InUseSlots(c) /\ Live(d) = Live(c)
  BY DEF InUseSlots, Live
<1>2. Table(d)
  BY <1>1 DEF ConnInv, Table
<1>3. Blank(d)
  <2>1. \A j, n : Holds(d, j, n) <=> Holds(c, j, n)
    BY DEF Holds
  <2>2. QED
    BY <2>1 DEF ConnInv, Blank
<1>4. ASSUME NEW j \in Live(d)
      PROVE  StreamBalanced(d, j) /\ Whole(d, j)
  <2>1. StreamBalanced(c, j) /\ Whole(c, j) /\ c.streams[j].streamId \in StreamIds
    BY <1>1 DEF ConnInv, Table
  <2>2. StreamBalanced(d, j)
    BY <2>1 DEF StreamBalanced
  <2>3. Whole(d, j)
    BY <2>1 DEF Whole
  <2>4. QED
    BY <2>2, <2>3
<1>5. Effects(c, d)
  BY DEF Effects
<1>6. QED
  BY <1>2, <1>3, <1>4, <1>5 DEF ConnInv

\* The connection is given up.
LEMMA GiveUpKeeps ==
    ASSUME NEW c, ConnInv(c)
    PROVE  /\ ConnInv(SendGoAway(c)) /\ Effects(c, SendGoAway(c))
           /\ ConnInv([c EXCEPT !.up = FALSE]) /\ Effects(c, [c EXCEPT !.up = FALSE])
<1>0. Shape(c) /\ Balanced(c)
  BY DEF ConnInv
<1>1. ConnInv(SendGoAway(c)) /\ Effects(c, SendGoAway(c))
  <2> DEFINE d == SendGoAway(c)
  <2>0. 1 \in Slots
    BY Http2Assumption DEF Slots
  <2>1. /\ Touch(c, d, 1, 0) /\ d.streams = c.streams /\ d.block = c.block /\ d.ledger = c.ledger
        /\ d.connectionRecvWindow = c.connectionRecvWindow
        /\ d.connectionRecvConsumed = c.connectionRecvConsumed /\ ~InForce(d)
    BY <1>0, <2>0, SendGoAwayFacts
  <2> HIDE DEF d
  <2>2. Balanced(d) /\ Shape(d) /\ d.nextStreamId = c.nextStreamId
    BY <1>0, <2>1 DEF Balanced, Touch
  <2>3. QED
    BY <2>1, <2>2, KeepStreams DEF d
<1>2. ConnInv([c EXCEPT !.up = FALSE]) /\ Effects(c, [c EXCEPT !.up = FALSE])
  <2> DEFINE d == [c EXCEPT !.up = FALSE]
  <2>1. /\ DOMAIN d = DOMAIN c /\ d.streams = c.streams /\ d.block = c.block /\ d.ledger = c.ledger
        /\ d.connectionRecvWindow = c.connectionRecvWindow
        /\ d.connectionRecvConsumed = c.connectionRecvConsumed /\ d.up = FALSE
        /\ d.nextStreamId = c.nextStreamId /\ d.InitialWindowSize = c.InitialWindowSize
        /\ d.MaxConcurrentStreams = c.MaxConcurrentStreams
        /\ d.connectionSendWindow = c.connectionSendWindow
    BY <1>0 DEF Shape
  <2> HIDE DEF d
  <2>2. Shape(d)
    BY <1>0, <2>1 DEF Shape
  <2>3. Balanced(d) /\ ~InForce(d)
    BY <1>0, <2>1 DEF Balanced, InForce
  <2>4. QED
    BY <2>1, <2>2, <2>3, KeepStreams DEF d
<1>3. QED
  BY <1>1, <1>2

\* The frame is recorded as failed, which leaves everything else.
LEMMA FaultFacts ==
    ASSUME NEW x, Shape(x), NEW id, NEW d, d = [x EXCEPT !.ledger.faulted = @ \cup {id}]
    PROVE  /\ SameButLedger(x, d) /\ Shape(d) /\ d.ledger.allowed = x.ledger.allowed
           /\ d.ledger.credit = x.ledger.credit /\ d.ledger.content = x.ledger.content
           /\ d.ledger.ended = x.ledger.ended /\ d.ledger.faulted = x.ledger.faulted \cup {id}
<1>1. /\ DOMAIN d = DOMAIN x /\ d.ledger = [x.ledger EXCEPT !.faulted = @ \cup {id}]
      /\ d.up = x.up /\ d.goAwaySent = x.goAwaySent /\ d.nextStreamId = x.nextStreamId
      /\ d.InitialWindowSize = x.InitialWindowSize /\ d.MaxConcurrentStreams = x.MaxConcurrentStreams
      /\ d.connectionSendWindow = x.connectionSendWindow /\ d.connectionRecvWindow = x.connectionRecvWindow
      /\ d.connectionRecvConsumed = x.connectionRecvConsumed /\ d.streams = x.streams /\ d.block = x.block
  BY DEF Shape
<1>2. /\ DOMAIN d.ledger = DOMAIN x.ledger /\ d.ledger.allowed = x.ledger.allowed
      /\ d.ledger.credit = x.ledger.credit /\ d.ledger.content = x.ledger.content
      /\ d.ledger.ended = x.ledger.ended /\ d.ledger.faulted = x.ledger.faulted \cup {id}
  BY <1>1 DEF Shape
<1>3. SameButLedger(x, d)
  BY <1>1, <1>2 DEF SameButLedger
<1>4. /\ d.ledger.allowed \in [Ids -> Int] /\ d.ledger.credit \in [Ids -> Int]
      /\ d.ledger.content \in [StreamIds -> Nat]
  BY <1>2 DEF Shape
<1>5. QED
  BY <1>2, <1>3, <1>4, ShapeSame

\* What ReceiveFrame makes of a result.
Recorded(x, d, id, failed) ==
    /\ failed => d = [x EXCEPT !.ledger.faulted = @ \cup {id}]
    /\ ~failed => d = x

\* A frame of stream id, in slot i.
LEMMA StreamFrameKeeps ==
    ASSUME NEW c, ConnInv(c), NEW i \in Slots, NEW id \in StreamIds, Holds(c, i, id),
           FindActiveStream(c, id) = i,
           NEW f, FrameOk(f), f.streamId = id, NEW p, Sent(c, p, f),
           NEW n \in Nat, n = IF f.type = "DATA" THEN f.len ELSE 0,
           NEW x, Touch(p, x, i, id), Received0(p, x, n),
           x.streams[i].remoteWindow = c.streams[i].remoteWindow,
           x.streams[i].localWindow - x.ledger.credit[id] >= c.streams[i].localWindow - p.ledger.credit[id] - n,
           x.streams[i].ExpectingContinuation => c.streams[i].ExpectingContinuation
               \/ \A j \in InUseSlots(c) : ~c.streams[j].ExpectingContinuation,
           x.block = c.block \/ \A j \in InUseSlots(c) \ {i} : ~c.streams[j].ExpectingContinuation,
           c.streams[i].state \in {"Open", "HalfClosedRemote"} => x.streams[i].state \in {"Open", "HalfClosedRemote"},
           NEW failed, NEW d, Recorded(x, d, id, failed),
           ~failed => id \in c.ledger.faulted
               \/ Told(x.streams[i], x.block, id \in p.ledger.ended, p.ledger.content[id])
    PROVE  ConnInv(d) /\ Effects(c, d)
<1>0. id # 0 /\ id \in Ids /\ 0 \in Ids /\ i # 0
  BY StreamIdsOdd, Http2Assumption DEF Ids, Slots
<1>1. Shape(c) /\ Shape(x) /\ Shape(p) /\ SameButLedger(c, p) /\ Balanced(c)
  BY DEF ConnInv, Touch, Sent
<1>2. /\ SameButLedger(x, d) /\ Shape(d) /\ d.ledger.allowed = x.ledger.allowed
      /\ d.ledger.credit = x.ledger.credit /\ d.ledger.content = x.ledger.content
      /\ d.ledger.ended = x.ledger.ended
      /\ failed => d.ledger.faulted = x.ledger.faulted \cup {id}
      /\ ~failed => d.ledger.faulted = x.ledger.faulted
  <2>1. CASE failed
    BY <1>1, <2>1, FaultFacts DEF Recorded
  <2>2. CASE ~failed
    BY <1>1, <2>2 DEF Recorded, SameButLedger
  <2>3. QED
    BY <2>1, <2>2
<1>3. OthersBooks(c, d, id)
  <2> SUFFICES ASSUME NEW m \in StreamIds \ {id}
               PROVE  /\ d.ledger.allowed[m] = c.ledger.allowed[m] /\ d.ledger.credit[m] = c.ledger.credit[m]
                      /\ d.ledger.content[m] = c.ledger.content[m]
                      /\ m \in d.ledger.ended <=> m \in c.ledger.ended
                      /\ m \in d.ledger.faulted <=> m \in c.ledger.faulted
    BY DEF OthersBooks
  <2>1. /\ p.ledger.credit[m] = c.ledger.credit[m] /\ p.ledger.content[m] = c.ledger.content[m]
        /\ p.ledger.allowed = c.ledger.allowed /\ p.ledger.faulted = c.ledger.faulted
    BY DEF Sent
  <2>2. m \in p.ledger.ended <=> m \in c.ledger.ended
    <3>1. p.ledger.ended = c.ledger.ended \/ p.ledger.ended = c.ledger.ended \cup (IF f.end THEN {id} ELSE {})
      BY DEF Sent
    <3>2. QED
      BY <3>1
  <2>3. QED
    BY <2>1, <2>2, <1>2 DEF Touch
<1>4. /\ d.nextStreamId = c.nextStreamId /\ d.streams = x.streams /\ d.block = x.block
      /\ \A j \in Slots \ {i} : d.streams[j] = c.streams[j]
      /\ d.streams[i].InUse = c.streams[i].InUse /\ d.streams[i].streamId = c.streams[i].streamId
  BY <1>1, <1>2 DEF SameButLedger, Touch
<1>5. InForce(d) => InForce(c)
  BY <1>1, <1>2 DEF InForce, SameButLedger, Touch
<1>6. Balanced(d)
  <2>1. /\ d.connectionSendWindow = c.connectionSendWindow /\ d.ledger.allowed = c.ledger.allowed
        /\ d.connectionRecvWindow = x.connectionRecvWindow /\ d.connectionRecvConsumed = x.connectionRecvConsumed
        /\ p.connectionRecvWindow = c.connectionRecvWindow /\ p.connectionRecvConsumed = c.connectionRecvConsumed
    BY <1>1, <1>2 DEF SameButLedger, Touch, Sent
  <2>2. p.ledger.credit[0] = c.ledger.credit[0] - n
    <3>1. c.ledger.credit[0] \in Int
      BY <1>0, <1>1 DEF Shape
    <3>2. QED
      BY <3>1 DEF Sent
  <2>3. /\ x.connectionRecvWindow \in Int /\ x.ledger.credit[0] \in Int /\ x.connectionRecvConsumed \in Nat
        /\ c.connectionRecvWindow \in Int /\ c.ledger.credit[0] \in Int /\ c.connectionRecvConsumed \in Nat
        /\ InitialWindow \in Int
    BY <1>0, <1>1, Http2Assumption, SMTT(30) DEF Shape
  <2>4. c.connectionRecvWindow >= c.ledger.credit[0]
        /\ c.connectionRecvWindow + c.connectionRecvConsumed <= InitialWindow
    BY <1>1 DEF Balanced
  <2>5. /\ x.connectionRecvWindow - x.ledger.credit[0] >= c.connectionRecvWindow - (c.ledger.credit[0] - n) - n
        /\ x.connectionRecvWindow + x.connectionRecvConsumed <= c.connectionRecvWindow + c.connectionRecvConsumed
    BY <2>1, <2>2 DEF Received0
  <2>6. /\ d.connectionRecvWindow >= d.ledger.credit[0]
        /\ d.connectionRecvWindow + d.connectionRecvConsumed <= InitialWindow
    BY <1>2, <2>1, <2>3, <2>4, <2>5
  <2>7. QED
    BY <1>1, <1>5, <2>1, <2>6 DEF Balanced
<1>7. i \in Live(c)
  BY <1>0 DEF Live, InUseSlots, Holds
<1>8. StreamBalanced(d, i)
  <2>1. StreamBalanced(c, i) /\ c.streams[i].streamId = id
    BY <1>7 DEF ConnInv, Holds
  <2>2. p.ledger.credit[id] = c.ledger.credit[id] - n
    <3>1. c.ledger.credit[id] \in Int
      BY <1>0, <1>1 DEF Shape
    <3>2. QED
      BY <1>0, <3>1 DEF Sent
  <2>3. /\ x.streams[i].localWindow \in Int /\ x.ledger.credit[id] \in Int
        /\ c.streams[i].localWindow \in Int /\ c.ledger.credit[id] \in Int
    BY <1>0, <1>1 DEF Shape, StreamShape
  <2>4. c.streams[i].localWindow >= c.ledger.credit[id]
    BY <2>1 DEF StreamBalanced
  <2>5. d.streams[i].localWindow >= d.ledger.credit[id]
    BY <1>2, <1>4, <2>2, <2>3, <2>4
  <2>6. d.ledger.allowed = c.ledger.allowed
    BY <1>2 DEF Touch, Sent
  <2>7. QED
    BY <1>4, <1>5, <2>1, <2>5, <2>6 DEF StreamBalanced
<1>9. Whole(d, i)
  <2>1. d.streams[i].streamId = id /\ x.ledger.ended = p.ledger.ended /\ x.ledger.content = p.ledger.content
        /\ x.ledger.faulted = c.ledger.faulted
    BY <1>4 DEF Touch, Sent, Holds
  <2>2. CASE failed
    BY <1>2, <2>1, <2>2 DEF Whole
  <2>3. CASE ~failed
    BY <1>2, <1>4, <2>1, <2>3 DEF Whole
  <2>4. QED
    BY <2>2, <2>3
<1>10. Holds(d, i, id)
  BY <1>4 DEF Holds
<1>11. ConnInv(d)
  BY <1>0, <1>2, <1>3, <1>4, <1>5, <1>6, <1>8, <1>9, <1>10, MoveOne
<1>12. Effects(c, d)
  BY <1>4 DEF Effects
<1>13. QED
  BY <1>11, <1>12

\* AfterReceive, by its cases.
LEMMA AfterReceiveFacts ==
    ASSUME NEW st, NEW end \in BOOLEAN
    PROVE  /\ AfterReceive(st, end) # "refused" => st \notin Ended
           /\ AfterReceive(st, end) # "refused" /\ end => AfterReceive(st, end) \in Ended
           /\ st \in {"Open", "HalfClosedRemote"} /\ AfterReceive(st, end) # "refused"
                 => AfterReceive(st, end) \in {"Open", "HalfClosedRemote"}
<1>1. CASE st = "Open"
  BY <1>1 DEF AfterReceive, Ended
<1>2. CASE st = "HalfClosedLocal"
  BY <1>2 DEF AfterReceive, Ended
<1>3. CASE st \notin {"Open", "HalfClosedLocal"}
  BY <1>3 DEF AfterReceive, Ended
<1>4. QED
  BY <1>1, <1>2, <1>3

\* A frame of a stream in the table has been sent: its slot and who expects what.
Arrives(c, p, i, id, f) ==
    /\ ConnInv(c) /\ i \in Slots /\ id \in StreamIds /\ Holds(c, i, id) /\ FindActiveStream(c, id) = i
    /\ FrameOk(f) /\ f.streamId = id /\ Sent(c, p, f)

LEMMA ArrivesFacts ==
    ASSUME NEW c, NEW p, NEW i, NEW id, NEW f, Arrives(c, p, i, id, f)
    PROVE  /\ p.streams = c.streams /\ p.block = c.block /\ Shape(p) /\ Shape(c) /\ i \in Slots /\ i # 0 /\ id # 0
           /\ id \in StreamIds /\ p.streams[i].streamId = id /\ i \in InUseSlots(c) /\ i \in Live(c)
           /\ p.ledger.faulted = c.ledger.faulted
           /\ id \notin c.ledger.faulted => Told(c.streams[i], c.block, id \in c.ledger.ended, c.ledger.content[id])
<1>1. i \in Slots /\ i # 0 /\ id \in StreamIds /\ id # 0
  BY StreamIdsOdd, Http2Assumption DEF Arrives, Slots
<1>2. p.streams = c.streams /\ p.block = c.block /\ Shape(p) /\ Shape(c) /\ p.ledger.faulted = c.ledger.faulted
  BY DEF Arrives, Sent, SameButLedger, ConnInv
<1>3. c.streams[i].streamId = id /\ i \in InUseSlots(c) /\ i \in Live(c)
  BY <1>1 DEF Arrives, Holds, InUseSlots, Live
<1>4. Whole(c, i)
  BY <1>3 DEF Arrives, ConnInv
<1>5. QED
  BY <1>1, <1>2, <1>3, <1>4 DEF Whole

\* ProcessResponseFrame, DATA.
LEMMA DataKept ==
    ASSUME NEW c, NEW p, NEW i, NEW id, NEW f, Arrives(c, p, i, id, f), f.type = "DATA",
           \A j \in InUseSlots(c) : ~c.streams[j].ExpectingContinuation,
           NEW d, Recorded(ProcessData(p, i, f).c, d, id, Failed(ProcessData(p, i, f)))
    PROVE  ConnInv(d) /\ Effects(c, d)
<1> SUFFICES ASSUME NEW r, r = ProcessData(p, i, f), NEW x, x = r.c,
                    NEW s, s = c.streams[i], NEW t, t = x.streams[i],
                    NEW next, next = AfterReceive(s.state, f.end),
                    Recorded(x, d, id, Failed(r))
             PROVE  ConnInv(d) /\ Effects(c, d)
  OBVIOUS
<1>1. /\ p.streams = c.streams /\ p.block = c.block /\ Shape(p) /\ Shape(c) /\ i \in Slots /\ i # 0 /\ id # 0
      /\ id \in StreamIds /\ p.streams[i].streamId = id /\ i \in InUseSlots(c)
  BY ArrivesFacts
<1>2. FrameOk(f) /\ ConnInv(c) /\ Sent(c, p, f) /\ f.streamId = id /\ Holds(c, i, id) /\ FindActiveStream(c, id) = i
  BY DEF Arrives
<1>3. f.end \in BOOLEAN /\ f.len \in Nat /\ f.content \in Nat
  BY <1>2 DEF FrameOk
<1>4. DataProcessed(p, r, i, id, f)
  BY <1>1, <1>2, ProcessDataFacts
<1>5. /\ Touch(p, x, i, id) /\ Received0(p, x, f.len) /\ x.block = c.block /\ DataKeeps(s, t)
      /\ t.localWindow - x.ledger.credit[id] >= s.localWindow - p.ledger.credit[id] - f.len
      /\ t.state = s.state \/ (t.state = next /\ next # "refused")
      /\ ~Failed(r) => /\ next # "refused" /\ t.state = next /\ t.BodyLength = s.BodyLength + f.content
                       /\ t.StreamClosed = (s.StreamClosed \/ f.end)
                       /\ f.end => s.ResponseContentLength \in {-1, t.BodyLength}
  BY <1>1, <1>4 DEF DataProcessed
<1>6. t.remoteWindow = s.remoteWindow /\ t.ExpectingContinuation = s.ExpectingContinuation
  BY <1>5 DEF DataKeeps
<1>7. s.state \in {"Open", "HalfClosedRemote"} => t.state \in {"Open", "HalfClosedRemote"}
  BY <1>3, <1>5, AfterReceiveFacts
<1>8. ASSUME ~Failed(r), id \notin c.ledger.faulted
      PROVE  Told(t, x.block, id \in p.ledger.ended, p.ledger.content[id])
  <2>1. Told(s, c.block, id \in c.ledger.ended, c.ledger.content[id])
    BY <1>8, ArrivesFacts
  <2>2. ~s.ExpectingContinuation
    BY <1>1
  <2>3. s.state \notin Ended /\ (f.end => t.state \in Ended)
    BY <1>3, <1>5, <1>8, AfterReceiveFacts
  <2>4. id \notin c.ledger.ended
    BY <2>1, <2>2, <2>3 DEF Told
  <2>5. p.ledger.content[id] = c.ledger.content[id] + f.content
        /\ p.ledger.ended = c.ledger.ended \cup (IF f.end THEN {id} ELSE {})
    BY <1>1, <1>2, <2>4 DEF Sent
  <2>6. id \in p.ledger.ended <=> f.end
    BY <2>4, <2>5
  <2>7. t.ResponseHeaderBlockLen = 0 /\ ~t.ExpectingContinuation
    BY <1>5, <2>1, <2>2 DEF Told, DataKeeps
  <2>8. t.BodyLength = p.ledger.content[id]
    BY <1>5, <1>8, <2>1, <2>5 DEF Told
  <2>9. t.StreamClosed => f.end /\ t.ResponseContentLength \in {-1, t.BodyLength}
    <3>1. ~s.StreamClosed
      BY <2>1, <2>4 DEF Told
    <3>2. t.StreamClosed => f.end
      BY <1>5, <1>8, <3>1
    <3>3. t.ResponseContentLength = s.ResponseContentLength
      BY <1>5 DEF DataKeeps
    <3>4. f.end => s.ResponseContentLength \in {-1, t.BodyLength}
      BY <1>5, <1>8
    <3>5. QED
      BY <3>2, <3>3, <3>4
  <2>10. QED
    BY <2>3, <2>6, <2>7, <2>8, <2>9 DEF Told
<1>9. PICK n \in Nat : n = f.len
  BY <1>3
<1>10. /\ Touch(p, x, i, id) /\ Received0(p, x, n)
       /\ x.streams[i].remoteWindow = c.streams[i].remoteWindow
       /\ x.streams[i].localWindow - x.ledger.credit[id]
             >= c.streams[i].localWindow - p.ledger.credit[id] - n
       /\ n = IF f.type = "DATA" THEN f.len ELSE 0
       /\ x.block = c.block \/ \A j \in InUseSlots(c) \ {i} : ~c.streams[j].ExpectingContinuation
       /\ x.streams[i].ExpectingContinuation => c.streams[i].ExpectingContinuation
              \/ \A j \in InUseSlots(c) : ~c.streams[j].ExpectingContinuation
       /\ c.streams[i].state \in {"Open", "HalfClosedRemote"}
             => x.streams[i].state \in {"Open", "HalfClosedRemote"}
  BY <1>5, <1>6, <1>7, <1>9
<1>11. CASE Failed(r)
  <2>1. Recorded(x, d, id, TRUE)
    BY <1>11 DEF Recorded
  <2>2. QED
    BY <1>1, <1>2, <1>3, <1>10, <2>1, StreamFrameKeeps
<1>12. CASE ~Failed(r)
  <2>1. Recorded(x, d, id, FALSE)
    BY <1>12 DEF Recorded
  <2>2. id \in c.ledger.faulted
        \/ Told(x.streams[i], x.block, id \in p.ledger.ended, p.ledger.content[id])
    BY <1>8, <1>12
  <2>3. QED
    BY <1>1, <1>2, <1>3, <1>10, <2>1, <2>2, StreamFrameKeeps
<1>13. QED
  BY <1>11, <1>12

\* ReceiveHeaders, by its cases.
LEMMA ReceiveHeadersFacts ==
    ASSUME NEW st, NEW end
    PROVE  /\ ReceiveHeaders(st, end) # "refused" => st \notin Ended
           /\ ReceiveHeaders(st, end) # "refused" /\ end => ReceiveHeaders(st, end) \in Ended
           /\ st \in {"Open", "HalfClosedRemote"} /\ ReceiveHeaders(st, end) # "refused"
                 => ReceiveHeaders(st, end) \in {"Open", "HalfClosedRemote"}
<1>1. CASE st = "Open"
  BY <1>1 DEF ReceiveHeaders, AfterReceive, Ended
<1>2. CASE st = "HalfClosedLocal"
  BY <1>2 DEF ReceiveHeaders, AfterReceive, Ended
<1>3. CASE st = "Idle"
  BY <1>3 DEF ReceiveHeaders, AfterReceive, Ended
<1>4. CASE st \notin {"Open", "HalfClosedLocal", "Idle"}
  BY <1>4 DEF ReceiveHeaders, AfterReceive, Ended
<1>5. QED
  BY <1>1, <1>2, <1>3, <1>4

\* The peer has ended the stream with the frame that begins the block, or before.
EndedBy(c, p, id, end) ==
    /\ id \in p.ledger.ended => id \in c.ledger.ended \/ end
    /\ id \in c.ledger.ended \/ end => id \in p.ledger.ended

\* A header block begins with the stream told everything so far.
LEMMA HeadersTold ==
    ASSUME NEW c, NEW p, NEW x, NEW i, NEW id, NEW f, f.type = "HEADERS", f.streamId = id,
           NEW s, NEW t, s = c.streams[i], t = x.streams[i], s.streamId = id, HeadersKeep(s, t),
           Told(s, c.block, id \in c.ledger.ended, c.ledger.content[id]), ~s.ExpectingContinuation,
           EndedBy(c, p, id, f.end), p.ledger.content[id] = c.ledger.content[id],
           Finished(s, t, f) \/ GoesOn(c, x, i, f)
    PROVE  Told(t, x.block, id \in p.ledger.ended, p.ledger.content[id])
<1>1. s.ResponseHeaderBlockLen = 0 /\ Pending(s, f) = f.end
  BY DEF Told, Pending
<1>2. t.BodyLength = p.ledger.content[id] /\ t.streamId = id
  BY DEF Told, HeadersKeep
<1>3. CASE Finished(s, t, f)
  <2>1. s.state \notin Ended /\ (f.end => t.state \in Ended)
    BY <1>1, <1>3, ReceiveHeadersFacts DEF Finished
  <2>2. id \notin c.ledger.ended /\ ~s.StreamClosed
    BY <2>1 DEF Told
  <2>3. t.ExpectingContinuation = FALSE /\ t.ResponseHeaderBlockLen = 0
        /\ (t.StreamClosed => f.end /\ t.ResponseContentLength \in {-1, t.BodyLength})
    BY <1>1, <1>3, <2>2 DEF Finished
  <2>4. id \in p.ledger.ended <=> f.end
    BY <2>2 DEF EndedBy
  <2>5. QED
    BY <1>2, <2>1, <2>3, <2>4 DEF Told
<1>4. CASE GoesOn(c, x, i, f)
  <2>1. /\ t.ExpectingContinuation = TRUE /\ t.state = s.state /\ t.StreamClosed = s.StreamClosed
        /\ t.ResponseContentLength = s.ResponseContentLength /\ t.PendingHeaderEndStream = f.end
        /\ (\A k \in 1 .. s.ResponseHeaderBlockLen : c.block[k] = id)
           => \A k \in 1 .. t.ResponseHeaderBlockLen : x.block[k] = id
    BY <1>1, <1>4 DEF GoesOn
  <2>2. \A k \in 1 .. t.ResponseHeaderBlockLen : x.block[k] = id
    BY <1>1, <2>1
  <2>3. id \in p.ledger.ended => t.state \in Ended \/ f.end
    BY <2>1 DEF Told, EndedBy
  <2>4. f.end => id \in p.ledger.ended
    BY DEF EndedBy
  <2>5. t.StreamClosed => /\ id \in p.ledger.ended /\ t.state \in Ended
                          /\ t.ResponseContentLength \in {-1, t.BodyLength}
    BY <2>1 DEF Told, EndedBy, HeadersKeep
  <2>6. QED
    BY <1>2, <2>1, <2>2, <2>3, <2>4, <2>5 DEF Told
<1>5. QED
  BY <1>3, <1>4

\* A header block goes on.
LEMMA ContinuationTold ==
    ASSUME NEW c, NEW p, NEW x, NEW i, NEW id, NEW f, f.type = "CONTINUATION", f.streamId = id,
           NEW s, NEW t, s = c.streams[i], t = x.streams[i], s.streamId = id, HeadersKeep(s, t),
           Told(s, c.block, id \in c.ledger.ended, c.ledger.content[id]), s.ExpectingContinuation,
           p.ledger = c.ledger,
           Finished(s, t, f) \/ GoesOn(c, x, i, f)
    PROVE  Told(t, x.block, id \in p.ledger.ended, p.ledger.content[id])
<1>1. Pending(s, f) = s.PendingHeaderEndStream
  BY DEF Pending
<1>2. t.BodyLength = p.ledger.content[id] /\ t.streamId = id
  BY DEF Told, HeadersKeep
<1>3. CASE Finished(s, t, f)
  <2>1. s.state \notin Ended /\ (s.PendingHeaderEndStream => t.state \in Ended)
    BY <1>1, <1>3, ReceiveHeadersFacts DEF Finished
  <2>2. ~s.StreamClosed /\ (id \in c.ledger.ended <=> s.PendingHeaderEndStream)
    BY <2>1 DEF Told
  <2>3. t.ExpectingContinuation = FALSE /\ t.ResponseHeaderBlockLen = 0
        /\ (t.StreamClosed => s.PendingHeaderEndStream /\ t.ResponseContentLength \in {-1, t.BodyLength})
    BY <1>1, <1>3, <2>2 DEF Finished
  <2>4. QED
    BY <1>2, <2>1, <2>2, <2>3 DEF Told
<1>4. CASE GoesOn(c, x, i, f)
  <2>1. /\ t.ExpectingContinuation = s.ExpectingContinuation /\ t.state = s.state /\ t.StreamClosed = s.StreamClosed
        /\ t.ResponseContentLength = s.ResponseContentLength
        /\ t.PendingHeaderEndStream = s.PendingHeaderEndStream
        /\ (\A k \in 1 .. s.ResponseHeaderBlockLen : c.block[k] = id)
           => \A k \in 1 .. t.ResponseHeaderBlockLen : x.block[k] = id
    BY <1>1, <1>4 DEF GoesOn
  <2>2. \A k \in 1 .. t.ResponseHeaderBlockLen : x.block[k] = id
    BY <2>1 DEF Told
  <2>3. QED
    BY <1>2, <2>1, <2>2 DEF Told, HeadersKeep
<1>5. QED
  BY <1>3, <1>4

\* ProcessResponseFrame, HEADERS and CONTINUATION.
LEMMA HeadersKept ==
    ASSUME NEW c, NEW p, NEW i, NEW id, NEW f, Arrives(c, p, i, id, f), f.type \in {"HEADERS", "CONTINUATION"},
           f.type = "HEADERS" => \A j \in InUseSlots(c) : ~c.streams[j].ExpectingContinuation,
           f.type = "CONTINUATION" => c.streams[i].ExpectingContinuation,
           NEW d, Recorded(ProcessHeaders(p, i, f).c, d, id, Failed(ProcessHeaders(p, i, f)))
    PROVE  ConnInv(d) /\ Effects(c, d)
<1> SUFFICES ASSUME NEW r, r = ProcessHeaders(p, i, f), NEW x, x = r.c,
                    NEW s, s = c.streams[i], NEW t, t = x.streams[i],
                    Recorded(x, d, id, Failed(r))
             PROVE  ConnInv(d) /\ Effects(c, d)
  OBVIOUS
<1>1. /\ p.streams = c.streams /\ p.block = c.block /\ Shape(p) /\ Shape(c) /\ i \in Slots /\ i # 0 /\ id # 0
      /\ id \in StreamIds /\ p.streams[i].streamId = id /\ i \in InUseSlots(c)
  BY ArrivesFacts
<1>2. FrameOk(f) /\ ConnInv(c) /\ Sent(c, p, f) /\ f.streamId = id /\ Holds(c, i, id) /\ FindActiveStream(c, id) = i
  BY DEF Arrives
<1>3. f.len \in Nat /\ f.clen \in Nat \cup {-1}
  BY <1>2 DEF FrameOk
<1>4. HeadersProcessed(p, r, i, id, f)
  BY <1>1, <1>3, ProcessHeadersFacts
<1>5. /\ Quiet(p, x, i, id)
      /\ t.state = s.state \/ (t.state = ReceiveHeaders(s.state, Pending(s, f))
                               /\ ReceiveHeaders(s.state, Pending(s, f)) # "refused")
      /\ t.ExpectingContinuation => s.ExpectingContinuation \/ f.type = "HEADERS"
      /\ ~Failed(r) => Finished(s, t, f) \/ GoesOn(p, x, i, f)
  BY <1>1, <1>4 DEF HeadersProcessed
<1>6. /\ Touch(p, x, i, id) /\ x.ledger = p.ledger /\ HeadersKeep(s, t)
      /\ x.connectionRecvWindow = p.connectionRecvWindow /\ x.connectionRecvConsumed = p.connectionRecvConsumed
  BY <1>1, <1>5 DEF Quiet
<1>7. Received0(p, x, 0)
  <2>1. p.connectionRecvWindow \in Int /\ p.connectionRecvConsumed \in Nat /\ p.ledger.credit[0] \in Int
    BY <1>1 DEF Shape, Ids
  <2>2. QED
    BY <1>6, <2>1 DEF Received0
<1>8. s.state \in {"Open", "HalfClosedRemote"} => t.state \in {"Open", "HalfClosedRemote"}
  BY <1>5, ReceiveHeadersFacts
<1>9. t.localWindow - x.ledger.credit[id] >= s.localWindow - p.ledger.credit[id] - 0
      /\ t.remoteWindow = s.remoteWindow
  <2>1. s.localWindow \in Int /\ p.ledger.credit[id] \in Int
    BY <1>1 DEF Shape, StreamShape, Ids
  <2>2. QED
    BY <1>6, <2>1 DEF HeadersKeep
<1>10. \A j \in InUseSlots(c) \ {i} : ~c.streams[j].ExpectingContinuation
  <2>1. Table(c)
    BY <1>2 DEF ConnInv
  <2>2. QED
    BY <1>1, <2>1 DEF Table
<1>11. GoesOn(p, x, i, f) => GoesOn(c, x, i, f)
  BY <1>1 DEF GoesOn
<1>12. ASSUME ~Failed(r), id \notin c.ledger.faulted
       PROVE  Told(t, x.block, id \in p.ledger.ended, p.ledger.content[id])
  <2>1. Told(s, c.block, id \in c.ledger.ended, c.ledger.content[id])
    BY <1>12, ArrivesFacts
  <2>2. s.streamId = id
    BY <1>2 DEF Holds
  <2>3. CASE f.type = "HEADERS"
    <3>1. p.ledger.content[id] = c.ledger.content[id]
          /\ p.ledger.ended = c.ledger.ended \cup (IF f.end THEN {id} ELSE {})
      BY <1>1, <1>2, <2>3 DEF Sent
    <3>2. EndedBy(c, p, id, f.end)
      BY <3>1 DEF EndedBy
    <3>3. ~s.ExpectingContinuation
      BY <1>1, <2>3
    <3>4. QED
      BY <1>2, <1>5, <1>6, <1>11, <1>12, <2>1, <2>2, <2>3, <3>1, <3>2, <3>3, HeadersTold
  <2>4. CASE f.type = "CONTINUATION"
    <3>1. p.ledger = c.ledger
      BY <1>2, <2>4 DEF Sent
    <3>2. QED
      BY <1>2, <1>5, <1>6, <1>11, <1>12, <2>1, <2>2, <2>4, <3>1, ContinuationTold
  <2>5. QED
    BY <2>3, <2>4
<1>13. /\ Touch(p, x, i, id) /\ Received0(p, x, 0)
       /\ x.streams[i].remoteWindow = c.streams[i].remoteWindow
       /\ x.streams[i].localWindow - x.ledger.credit[id]
             >= c.streams[i].localWindow - p.ledger.credit[id] - 0
       /\ x.streams[i].ExpectingContinuation => c.streams[i].ExpectingContinuation
              \/ \A j \in InUseSlots(c) : ~c.streams[j].ExpectingContinuation
       /\ 0 = IF f.type = "DATA" THEN f.len ELSE 0
       /\ x.block = c.block \/ \A j \in InUseSlots(c) \ {i} : ~c.streams[j].ExpectingContinuation
       /\ c.streams[i].state \in {"Open", "HalfClosedRemote"}
             => x.streams[i].state \in {"Open", "HalfClosedRemote"}
  BY <1>5, <1>6, <1>7, <1>8, <1>9, <1>10
<1>14. CASE Failed(r)
  <2>1. Recorded(x, d, id, TRUE)
    BY <1>14 DEF Recorded
  <2>2. QED
    BY <1>1, <1>2, <1>3, <1>13, <2>1, StreamFrameKeeps, ZenonT(60)
<1>15. CASE ~Failed(r)
  <2>1. Recorded(x, d, id, FALSE)
    BY <1>15 DEF Recorded
  <2>2. id \in c.ledger.faulted
        \/ Told(x.streams[i], x.block, id \in p.ledger.ended, p.ledger.content[id])
    BY <1>12, <1>15
  <2>3. QED
    BY <1>1, <1>2, <1>3, <1>13, <2>1, <2>2, StreamFrameKeeps
<1>16. QED
  BY <1>14, <1>15

\* DispatchFrame refuses the frame: the connection is given up.
LEMMA RefusedKept ==
    ASSUME NEW c, NEW p, NEW i, NEW id, NEW f, Arrives(c, p, i, id, f),
           NEW x \in {p, SendGoAway(p)}, NEW d, Recorded(x, d, id, TRUE)
    PROVE  ConnInv(d) /\ Effects(c, d)
<1>1. /\ p.streams = c.streams /\ p.block = c.block /\ Shape(p) /\ Shape(c) /\ i \in Slots /\ i # 0 /\ id # 0
      /\ id \in StreamIds /\ p.streams[i].streamId = id /\ i \in InUseSlots(c)
  BY ArrivesFacts
<1>2. FrameOk(f) /\ ConnInv(c) /\ Sent(c, p, f) /\ f.streamId = id /\ Holds(c, i, id) /\ FindActiveStream(c, id) = i
  BY DEF Arrives
<1> DEFINE n == IF f.type = "DATA" THEN f.len ELSE 0
<1>3. n \in Nat
  BY <1>2 DEF FrameOk
<1>4. Quiet(p, x, i, id) /\ x.streams = p.streams /\ x.block = p.block
  BY <1>1, QuietSelf
<1>5. Touch(p, x, i, id) /\ x.ledger = p.ledger
      /\ x.connectionRecvWindow = p.connectionRecvWindow /\ x.connectionRecvConsumed = p.connectionRecvConsumed
  BY <1>4 DEF Quiet
<1>6. p.connectionRecvWindow \in Int /\ p.connectionRecvConsumed \in Nat /\ p.ledger.credit[0] \in Int
      /\ p.streams[i].localWindow \in Int /\ p.ledger.credit[id] \in Int
  BY <1>1 DEF Shape, StreamShape, Ids
<1> HIDE DEF n
<1>7. Received0(p, x, n)
  BY <1>3, <1>5, <1>6 DEF Received0
<1>8. x.streams[i].localWindow - x.ledger.credit[id] >= c.streams[i].localWindow - p.ledger.credit[id] - n
  BY <1>1, <1>3, <1>4, <1>5, <1>6
<1>9. n = IF f.type = "DATA" THEN f.len ELSE 0
  BY DEF n
<1>10. QED
  BY <1>1, <1>2, <1>3, <1>4, <1>5, <1>7, <1>8, <1>9, StreamFrameKeeps

\* The peer's WINDOW_UPDATE is in both books.
LEMMA WindowUpdateKept ==
    ASSUME NEW c, NEW p, NEW i, NEW id, NEW f, Arrives(c, p, i, id, f), f.type = "WINDOW_UPDATE",
           NEW d, Recorded(ProcessWindowUpdate(p, i, f).c, d, id, Failed(ProcessWindowUpdate(p, i, f)))
    PROVE  ConnInv(d) /\ Effects(c, d)
<1>1. /\ p.streams = c.streams /\ p.block = c.block /\ Shape(p) /\ Shape(c) /\ i \in Slots /\ i # 0 /\ id # 0
      /\ id \in StreamIds /\ p.streams[i].streamId = id /\ i \in Live(c)
  BY ArrivesFacts
<1>2. FrameOk(f) /\ ConnInv(c) /\ Sent(c, p, f) /\ f.streamId = id /\ Holds(c, i, id) /\ FindActiveStream(c, id) = i
  BY DEF Arrives
<1>3. CASE f.inc = 0 \/ p.streams[i].remoteWindow > MaxWindow - f.inc
  <2>1. Recorded(p, d, id, TRUE)
    BY <1>3 DEF Recorded, ProcessWindowUpdate, Failed, Result
  <2>2. QED
    BY <2>1, RefusedKept
<1>4. CASE ~(f.inc = 0 \/ p.streams[i].remoteWindow > MaxWindow - f.inc)
  <2> DEFINE x == [p EXCEPT !.streams[i].remoteWindow = @ + f.inc, !.ledger.allowed[id] = @ + f.inc]
  <2>1. d = x
    BY <1>2, <1>4 DEF Recorded, ProcessWindowUpdate, Failed, Result
  <2>2. p.ledger = c.ledger /\ SameButLedger(c, p) /\ f.inc \in Int
    BY <1>2 DEF Sent, FrameOk
  <2>3. /\ DOMAIN p = DOMAIN c /\ "streams" \in DOMAIN p /\ "ledger" \in DOMAIN p
        /\ DOMAIN p.streams = Slots /\ "allowed" \in DOMAIN p.ledger /\ id \in DOMAIN p.ledger.allowed
        /\ DOMAIN p.streams[i] = Fields /\ "remoteWindow" \in Fields
        /\ p.ledger.allowed \in [Ids -> Int] /\ id \in Ids /\ 0 \in Ids /\ p.streams[i].remoteWindow \in Int
        /\ p.ledger.credit \in [Ids -> Int] /\ p.ledger.content \in [StreamIds -> Nat]
    BY <1>1, <2>2 DEF Shape, StreamShape, Ids, Fields, NoStream, SameButLedger
  <2> DEFINE books == [p.ledger EXCEPT !.allowed = [p.ledger.allowed EXCEPT ![id] = p.ledger.allowed[id] + f.inc]]
  <2>a. /\ x.streams = [p.streams EXCEPT ![i] = [p.streams[i] EXCEPT !.remoteWindow = p.streams[i].remoteWindow + f.inc]]
        /\ x.ledger = books /\ DOMAIN x = DOMAIN p
    BY <2>3
  <2>b. /\ DOMAIN books = DOMAIN p.ledger
        /\ books.allowed = [p.ledger.allowed EXCEPT ![id] = p.ledger.allowed[id] + f.inc]
        /\ books.credit = p.ledger.credit /\ books.content = p.ledger.content
        /\ books.ended = p.ledger.ended /\ books.faulted = p.ledger.faulted
    BY <2>3
  <2>5. /\ x.up = p.up /\ x.goAwaySent = p.goAwaySent /\ x.nextStreamId = p.nextStreamId
        /\ x.connectionSendWindow = p.connectionSendWindow /\ x.connectionRecvWindow = p.connectionRecvWindow
        /\ x.connectionRecvConsumed = p.connectionRecvConsumed /\ x.block = p.block
        /\ x.InitialWindowSize = p.InitialWindowSize /\ x.MaxConcurrentStreams = p.MaxConcurrentStreams
    BY <2>3
  <2> HIDE DEF x, books
  <2>4. /\ DOMAIN x.streams = Slots /\ DOMAIN x.ledger = DOMAIN p.ledger
        /\ x.ledger.allowed = [p.ledger.allowed EXCEPT ![id] = p.ledger.allowed[id] + f.inc]
        /\ x.ledger.credit = p.ledger.credit /\ x.ledger.content = p.ledger.content
        /\ x.ledger.ended = p.ledger.ended /\ x.ledger.faulted = p.ledger.faulted
    BY <2>3, <2>a, <2>b
  <2> DEFINE s == p.streams[i]
             t == [s EXCEPT !.remoteWindow = s.remoteWindow + f.inc]
  <2>6. /\ t.InUse = s.InUse /\ t.streamId = s.streamId /\ t.state = s.state /\ t.localWindow = s.localWindow
        /\ t.remoteWindow = s.remoteWindow + f.inc /\ t.StreamClosed = s.StreamClosed
        /\ t.ResponseContentLength = s.ResponseContentLength /\ t.BodyLength = s.BodyLength
        /\ t.ExpectingContinuation = s.ExpectingContinuation /\ t.PendingHeaderEndStream = s.PendingHeaderEndStream
        /\ t.ResponseHeaderBlockLen = s.ResponseHeaderBlockLen /\ DOMAIN t = Fields
    BY <2>3
  <2>7. x.streams[i] = t /\ \A j \in Slots \ {i} : x.streams[j] = c.streams[j]
    BY <1>1, <2>3, <2>a
  <2> HIDE DEF t
  <2>8. StreamShape(t)
    <3>1. StreamShape(s)
      BY <1>1 DEF Shape
    <3>2. s.remoteWindow + f.inc \in Int
      BY <2>2, <2>3
    <3>3. QED
      BY <2>6, <3>1, <3>2 DEF StreamShape
  <2>9. Shape(x)
    <3>1. \A j \in Slots : StreamShape(x.streams[j])
      BY <1>1, <2>7, <2>8 DEF Shape
    <3>2. x.ledger.allowed \in [Ids -> Int]
      BY <2>2, <2>3, <2>4
    <3>3. /\ x.connectionSendWindow \in Int /\ x.connectionRecvWindow \in Int /\ x.InitialWindowSize \in Int
          /\ x.connectionRecvConsumed \in Nat /\ x.MaxConcurrentStreams \in Nat
      BY <1>1, <2>5 DEF Shape
    <3>4. x.ledger.credit \in [Ids -> Int] /\ x.ledger.content \in [StreamIds -> Nat]
      BY <2>3, <2>4
    <3>5. QED
      BY <1>1, <2>a, <2>4, <2>5, <3>1, <3>2, <3>3, <3>4, ShapeParts
  <2>10. x.ledger.allowed[id] = c.ledger.allowed[id] + f.inc /\ x.ledger.allowed[0] = c.ledger.allowed[0]
         /\ \A n \in StreamIds \ {id} : x.ledger.allowed[n] = c.ledger.allowed[n]
    BY <1>1, <2>2, <2>3, <2>4 DEF Ids
  <2>11. OthersBooks(c, x, id)
    BY <2>2, <2>4, <2>10 DEF OthersBooks
  <2>12. InForce(x) => InForce(c)
    BY <2>2, <2>5 DEF InForce, SameButLedger
  <2>13. Balanced(x)
    BY <1>2, <2>2, <2>4, <2>5, <2>10, <2>12 DEF Balanced, ConnInv, SameButLedger
  <2>14. StreamBalanced(x, i)
    <3>1. StreamBalanced(c, i)
      BY <1>1, <1>2 DEF ConnInv
    <3>2. QED
      BY <1>1, <2>2, <2>4, <2>6, <2>7, <2>10, <2>12, <3>1 DEF StreamBalanced
  <2>15. Whole(x, i)
    <3>1. Whole(c, i)
      BY <1>1, <1>2 DEF ConnInv
    <3>2. QED
      BY <1>1, <2>2, <2>4, <2>5, <2>6, <2>7, <3>1 DEF Whole, Told
  <2>16. Holds(x, i, id) /\ x.nextStreamId = c.nextStreamId /\ x.block = c.block
    BY <1>1, <1>2, <2>2, <2>5, <2>6, <2>7 DEF Holds, SameButLedger
  <2>17. ConnInv(x)
    BY <1>1, <1>2, <2>6, <2>7, <2>9, <2>11, <2>12, <2>13, <2>14, <2>15, <2>16, MoveOne
  <2>18. Effects(c, x)
    BY <1>1, <2>6, <2>7, <2>16 DEF Effects
  <2>19. QED
    BY <2>1, <2>17, <2>18
<1>5. QED
  BY <1>3, <1>4

\* The books of a stream are closed.
Forgotten(c, d, id) ==
    /\ SameButLedger(c, d) /\ Shape(d) /\ OthersBooks(c, d, id)
    /\ d.ledger.allowed[0] = c.ledger.allowed[0] /\ d.ledger.credit[0] = c.ledger.credit[0]
    /\ d.ledger.credit[id] = InitialWindow /\ d.ledger.content[id] = 0
    /\ id \notin d.ledger.ended /\ id \notin d.ledger.faulted

LEMMA ForgetFacts ==
    ASSUME NEW c, Shape(c), NEW id \in StreamIds
    PROVE  Forgotten(c, Forget(c, id), id)
<1> DEFINE d == Forget(c, id)
           books == [c.ledger EXCEPT !.allowed = [c.ledger.allowed EXCEPT ![id] = 0],
                                     !.credit = [c.ledger.credit EXCEPT ![id] = InitialWindow],
                                     !.content = [c.ledger.content EXCEPT ![id] = 0],
                                     !.ended = c.ledger.ended \ {id}, !.faulted = c.ledger.faulted \ {id}]
<1>0. id # 0 /\ id \in Ids /\ 0 \in Ids /\ InitialWindow \in Int
  BY StreamIdsOdd, Http2Assumption DEF Ids
<1>1. /\ DOMAIN d = DOMAIN c /\ d.ledger = books
      /\ d.up = c.up /\ d.goAwaySent = c.goAwaySent /\ d.nextStreamId = c.nextStreamId
      /\ d.InitialWindowSize = c.InitialWindowSize /\ d.MaxConcurrentStreams = c.MaxConcurrentStreams
      /\ d.connectionSendWindow = c.connectionSendWindow /\ d.connectionRecvWindow = c.connectionRecvWindow
      /\ d.connectionRecvConsumed = c.connectionRecvConsumed /\ d.streams = c.streams /\ d.block = c.block
  <2>1. DOMAIN c = {"up", "goAwaySent", "goAwayReceived", "nextStreamId", "framesRead", "controlSignals",
                   "InitialWindowSize", "MaxConcurrentStreams", "connectionSendWindow",
                   "connectionRecvWindow", "connectionRecvConsumed", "streams", "block", "ledger"}
        /\ DOMAIN c.ledger = {"allowed", "credit", "content", "ended", "faulted"}
    BY DEF Shape
  <2>2. d = [c EXCEPT !.ledger = books]
    BY <2>1 DEF Forget
  <2> HIDE DEF books, d
  <2>3. QED
    BY <2>1, <2>2
<1>2. /\ DOMAIN books = DOMAIN c.ledger /\ books.allowed = [c.ledger.allowed EXCEPT ![id] = 0]
      /\ books.credit = [c.ledger.credit EXCEPT ![id] = InitialWindow]
      /\ books.content = [c.ledger.content EXCEPT ![id] = 0]
      /\ books.ended = c.ledger.ended \ {id} /\ books.faulted = c.ledger.faulted \ {id}
  BY DEF Shape
<1> HIDE DEF books, d
<1>3. /\ c.ledger.allowed \in [Ids -> Int] /\ c.ledger.credit \in [Ids -> Int]
      /\ c.ledger.content \in [StreamIds -> Nat]
  BY DEF Shape
<1>4. SameButLedger(c, d)
  BY <1>1, <1>2 DEF SameButLedger
<1>5. /\ d.ledger.allowed \in [Ids -> Int] /\ d.ledger.credit \in [Ids -> Int]
      /\ d.ledger.content \in [StreamIds -> Nat]
  BY <1>0, <1>1, <1>2, <1>3
<1>6. Shape(d)
  BY <1>4, <1>5, ShapeSame
<1>7. OthersBooks(c, d, id)
  <2> SUFFICES ASSUME NEW n \in StreamIds \ {id}
               PROVE  /\ d.ledger.allowed[n] = c.ledger.allowed[n] /\ d.ledger.credit[n] = c.ledger.credit[n]
                      /\ d.ledger.content[n] = c.ledger.content[n]
                      /\ n \in d.ledger.ended <=> n \in c.ledger.ended
                      /\ n \in d.ledger.faulted <=> n \in c.ledger.faulted
    BY DEF OthersBooks
  <2>1. n \in Ids
    BY DEF Ids
  <2>2. QED
    BY <1>1, <1>2, <1>3, <2>1
<1>8. /\ d.ledger.allowed[0] = c.ledger.allowed[0] /\ d.ledger.credit[0] = c.ledger.credit[0]
      /\ d.ledger.credit[id] = InitialWindow /\ d.ledger.content[id] = 0
      /\ id \notin d.ledger.ended /\ id \notin d.ledger.faulted
  BY <1>0, <1>1, <1>2, <1>3
<1>9. Forgotten(c, d, id)
  BY <1>4, <1>6, <1>7, <1>8 DEF Forgotten
<1>10. QED
  BY <1>9 DEF d

\* A stream leaves the table and its books are closed.
LEMMA DropOne ==
    ASSUME NEW c, ConnInv(c), NEW i \in Slots, NEW id \in StreamIds, Holds(c, i, id),
           NEW b, Shape(b), b.ledger = c.ledger, b.up = c.up, b.goAwaySent = c.goAwaySent,
           b.nextStreamId = c.nextStreamId, b.block = c.block, b.connectionSendWindow = c.connectionSendWindow,
           b.connectionRecvWindow = c.connectionRecvWindow, b.connectionRecvConsumed = c.connectionRecvConsumed,
           \A j \in Slots \ {i} : b.streams[j] = c.streams[j],
           b.streams[i].streamId = 0, b.streams[i].InUse => c.streams[i].InUse,
           b.streams[i].ExpectingContinuation => c.streams[i].ExpectingContinuation,
           NEW d, Forgotten(b, d, id)
    PROVE  ConnInv(d)
<1>0. id # 0
  BY StreamIdsOdd
<1>1. /\ d.streams = b.streams /\ d.block = c.block /\ d.nextStreamId = c.nextStreamId
      /\ d.up = c.up /\ d.goAwaySent = c.goAwaySent /\ d.connectionSendWindow = c.connectionSendWindow
      /\ d.connectionRecvWindow = c.connectionRecvWindow /\ d.connectionRecvConsumed = c.connectionRecvConsumed
  BY DEF Forgotten, SameButLedger
<1>2. /\ \A j \in Slots \ {i} : d.streams[j] = c.streams[j]
      /\ d.streams[i].streamId = 0
      /\ d.streams[i].InUse => c.streams[i].InUse
      /\ d.streams[i].ExpectingContinuation => c.streams[i].ExpectingContinuation
  BY <1>1
<1>3. InUseSlots(d) \subseteq InUseSlots(c) /\ Live(d) = Live(c) \ {i} /\ Live(d) \subseteq Slots
  <2>1. \A j \in Slots : d.streams[j].InUse => c.streams[j].InUse
    BY <1>2
  <2>2. InUseSlots(d) \subseteq InUseSlots(c)
    BY <2>1 DEF InUseSlots
  <2>3. Live(d) = Live(c) \ {i}
    BY <1>2 DEF InUseSlots, Live
  <2>4. QED
    BY <2>2, <2>3 DEF Live, InUseSlots
<1>4. Table(d)
  <2>1. Table(c)
    BY DEF ConnInv
  <2>2. \A j \in Live(d) : d.streams[j] = c.streams[j] /\ j \in Live(c)
    BY <1>2, <1>3
  <2>3. \A j \in InUseSlots(d) : d.streams[j].ExpectingContinuation => c.streams[j].ExpectingContinuation
    BY <1>2 DEF InUseSlots
  <2>4. \A j, k \in InUseSlots(d) :
          d.streams[j].ExpectingContinuation /\ d.streams[k].ExpectingContinuation => j = k
    BY <1>3, <2>1, <2>3 DEF Table
  <2>5. QED
    BY <1>1, <2>1, <2>2, <2>4 DEF Table
<1>5. OthersBooks(c, d, id)
  BY DEF Forgotten, OthersBooks
<1>6. Blank(d)
  <2> SUFFICES ASSUME NEW n \in StreamIds, \A j \in Slots : ~Holds(d, j, n)
               PROVE  d.ledger.credit[n] = InitialWindow /\ d.ledger.content[n] = 0
                      /\ n \notin d.ledger.ended /\ n \notin d.ledger.faulted
    BY DEF Blank
  <2>1. CASE n = id
    BY <2>1 DEF Forgotten
  <2>2. CASE n # id
    <3>1. \A j \in Slots : ~Holds(c, j, n)
      BY <1>2, <2>2 DEF Holds
    <3>2. QED
      BY <1>5, <2>2, <3>1 DEF ConnInv, Blank, OthersBooks
  <2>3. QED
    BY <2>1, <2>2
<1>7. Balanced(d)
  <2>1. d.ledger.allowed[0] = c.ledger.allowed[0] /\ d.ledger.credit[0] = c.ledger.credit[0] /\ Balanced(c)
    BY DEF Forgotten, ConnInv
  <2>2. QED
    BY <1>1, <2>1 DEF Balanced, InForce
<1>8. ASSUME NEW j \in Live(d)
      PROVE  StreamBalanced(d, j) /\ Whole(d, j)
  <2> DEFINE n == c.streams[j].streamId
  <2>1. j \in Slots /\ j \in Live(c) /\ j # i /\ d.streams[j] = c.streams[j] /\ n \in StreamIds
    BY <1>2, <1>3 DEF ConnInv, Table
  <2>2. n # id
    <3>1. i \in Live(c)
      BY <1>0 DEF Live, InUseSlots, Holds
    <3>2. QED
      BY <2>1, <3>1 DEF ConnInv, Table, Holds
  <2>3. StreamBalanced(c, j) /\ Whole(c, j)
    BY <2>1 DEF ConnInv
  <2>4. d.ledger.content[n] = c.ledger.content[n] /\ (n \in d.ledger.ended <=> n \in c.ledger.ended)
        /\ (n \in d.ledger.faulted <=> n \in c.ledger.faulted) /\ d.ledger.allowed[n] = c.ledger.allowed[n]
        /\ d.ledger.credit[n] = c.ledger.credit[n]
    BY <1>5, <2>1, <2>2 DEF OthersBooks
  <2>5. StreamBalanced(d, j)
    BY <1>1, <2>1, <2>3, <2>4 DEF StreamBalanced, InForce
  <2>6. Whole(d, j)
    BY <1>1, <2>1, <2>3, <2>4 DEF Whole, Told
  <2>7. QED
    BY <2>5, <2>6
<1>9. Shape(d)
  BY DEF Forgotten
<1>10. QED
  BY <1>4, <1>6, <1>7, <1>8, <1>9 DEF ConnInv

\* Rewriting one stream keeps the shape of the table.
LEMMA RewriteShape ==
    ASSUME NEW c, Shape(c), NEW i \in Slots, NEW d, NEW t, Rewrites(c, d, i, t), StreamShape(t)
    PROVE  Shape(d) /\ d.streams[i] = t /\ \A j \in Slots \ {i} : d.streams[j] = c.streams[j]
<1>1. DOMAIN c.streams = Slots /\ \A j \in Slots : StreamShape(c.streams[j])
  BY DEF Shape
<1>2. d.streams = [c.streams EXCEPT ![i] = t] /\ DOMAIN d = DOMAIN c /\ d.ledger = c.ledger
      /\ DOMAIN d.block = DOMAIN c.block
      /\ d.connectionSendWindow = c.connectionSendWindow /\ d.connectionRecvWindow = c.connectionRecvWindow
      /\ d.connectionRecvConsumed = c.connectionRecvConsumed
      /\ d.InitialWindowSize = c.InitialWindowSize /\ d.MaxConcurrentStreams = c.MaxConcurrentStreams
  BY DEF Rewrites, Edited
<1>3. DOMAIN d.streams = Slots /\ d.streams[i] = t /\ \A j \in Slots \ {i} : d.streams[j] = c.streams[j]
  BY <1>1, <1>2
<1>4. \A j \in Slots : StreamShape(d.streams[j])
  BY <1>1, <1>3
<1>5. Shape(d)
  BY <1>2, <1>3, <1>4 DEF Shape
<1>6. QED
  BY <1>3, <1>5

\* A stream is taken out of the table: released, or reset by the peer.
LEMMA DropRewritten ==
    ASSUME NEW c, ConnInv(c), NEW i \in Slots, NEW id \in StreamIds, Holds(c, i, id),
           NEW p, SameButLedger(c, p), p.ledger = c.ledger, Shape(p),
           NEW b, NEW t, Rewrites(p, b, i, t), b.block = p.block, StreamShape(t), t.streamId = 0,
           t.InUse => c.streams[i].InUse, t.ExpectingContinuation => c.streams[i].ExpectingContinuation
    PROVE  /\ ConnInv(Forget(b, id)) /\ Forget(b, id).nextStreamId = c.nextStreamId
           /\ Forget(b, id).streams[i] = t
           /\ \A j \in Slots \ {i} : Forget(b, id).streams[j] = c.streams[j]
           /\ FindActiveStream(Forget(b, id), id) = 0
<1> SUFFICES ASSUME NEW d, d = Forget(b, id)
             PROVE  ConnInv(d) /\ d.nextStreamId = c.nextStreamId /\ d.streams[i] = t
                    /\ (\A j \in Slots \ {i} : d.streams[j] = c.streams[j]) /\ FindActiveStream(d, id) = 0
  OBVIOUS
<1>0. id # 0
  BY StreamIdsOdd
<1>1. Shape(b) /\ b.streams[i] = t /\ \A j \in Slots \ {i} : b.streams[j] = p.streams[j]
  BY RewriteShape
<1>2. Forgotten(b, d, id)
  BY <1>1, ForgetFacts
<1>3. b.ledger = c.ledger /\ b.up = c.up /\ b.goAwaySent = c.goAwaySent
      /\ b.nextStreamId = c.nextStreamId /\ b.block = c.block /\ b.connectionSendWindow = c.connectionSendWindow
      /\ b.connectionRecvWindow = c.connectionRecvWindow /\ b.connectionRecvConsumed = c.connectionRecvConsumed
      /\ p.streams = c.streams
  BY DEF Rewrites, Edited, SameButLedger
<1>4. ConnInv(d)
  BY <1>1, <1>2, <1>3, DropOne
<1>5. d.streams = b.streams /\ d.nextStreamId = c.nextStreamId
  BY <1>2, <1>3 DEF Forgotten, SameButLedger
<1>6. d.streams[i] = t /\ \A j \in Slots \ {i} : d.streams[j] = c.streams[j]
  BY <1>1, <1>3, <1>5
<1>7. \A j \in Slots : ~Holds(d, j, id)
  <2>1. i \in Live(c) /\ Table(c)
    BY <1>0 DEF Live, InUseSlots, Holds, ConnInv
  <2>2. ASSUME NEW j \in Slots, j # i, Holds(d, j, id) PROVE FALSE
    <3>1. j \in Live(c) /\ c.streams[j].streamId = id
      BY <1>0, <1>6, <2>2 DEF Live, InUseSlots, Holds
    <3>2. QED
      BY <2>1, <2>2, <3>1 DEF Table, Holds
  <2>3. ~Holds(d, i, id)
    BY <1>0, <1>6 DEF Holds
  <2>4. QED
    BY <2>2, <2>3
<1>8. FindActiveStream(d, id) = 0
  BY <1>7, FindNone
<1>9. QED
  BY <1>4, <1>5, <1>6, <1>8

\* The peer resets a stream.
LEMMA ResetKept ==
    ASSUME NEW c, NEW p, NEW i, NEW id, NEW f, Arrives(c, p, i, id, f), f.type = "RST_STREAM"
    PROVE  /\ ConnInv(ProcessReset(p, i, f).c) /\ Effects(c, ProcessReset(p, i, f).c)
           /\ FindActiveStream(ProcessReset(p, i, f).c, id) = 0
<1>1. /\ p.streams = c.streams /\ p.block = c.block /\ Shape(p) /\ Shape(c) /\ i \in Slots /\ i # 0 /\ id # 0
      /\ id \in StreamIds /\ p.streams[i].streamId = id /\ i \in Live(c)
  BY ArrivesFacts
<1>2. FrameOk(f) /\ ConnInv(c) /\ Sent(c, p, f) /\ f.streamId = id /\ Holds(c, i, id) /\ FindActiveStream(c, id) = i
  BY DEF Arrives
<1>3. p.ledger = c.ledger /\ SameButLedger(c, p)
  BY <1>2 DEF Sent
<1> DEFINE s == c.streams[i]
           t == [s EXCEPT !.streamId = 0, !.state = "Idle", !.localWindow = InitialWindow,
                          !.remoteWindow = InitialWindow, !.StreamClosed = TRUE]
           b == [p EXCEPT !.streams[i].streamId = 0, !.streams[i].state = "Idle",
                            !.streams[i].localWindow = InitialWindow,
                            !.streams[i].remoteWindow = InitialWindow,
                            !.streams[i].StreamClosed = TRUE]
<1>4. Rewrites(p, b, i, t) /\ b.block = p.block
  <2>1. "streams" \in DOMAIN p /\ DOMAIN p.streams = Slots /\ "ledger" \in DOMAIN p
    BY <1>1 DEF Shape
  <2>2. b.streams = [p.streams EXCEPT ![i] = t]
    BY <1>1, <2>1
  <2>3. /\ DOMAIN b = DOMAIN p /\ b.ledger = p.ledger /\ b.nextStreamId = p.nextStreamId /\ b.up = p.up
        /\ b.goAwaySent = p.goAwaySent /\ b.connectionSendWindow = p.connectionSendWindow
        /\ b.InitialWindowSize = p.InitialWindowSize /\ b.MaxConcurrentStreams = p.MaxConcurrentStreams
        /\ b.block = p.block /\ b.connectionRecvWindow = p.connectionRecvWindow
        /\ b.connectionRecvConsumed = p.connectionRecvConsumed
    OBVIOUS
  <2> HIDE DEF b, t
  <2>4. QED
    BY <2>2, <2>3 DEF Rewrites, Edited
<1>5. StreamShape(s) /\ InitialWindow \in Int
  BY <1>1, Http2Assumption DEF Shape
<1>6. StreamShape(t) /\ t.streamId = 0 /\ t.StreamClosed = TRUE /\ t.InUse = s.InUse
      /\ t.ExpectingContinuation = s.ExpectingContinuation
  BY <1>5 DEF StreamShape, Fields, NoStream
<1>7. ProcessReset(p, i, f).c = Forget(b, id)
  BY <1>2 DEF ProcessReset, Result
<1> HIDE DEF b, t
<1>8. /\ ConnInv(Forget(b, id)) /\ Forget(b, id).nextStreamId = c.nextStreamId
      /\ Forget(b, id).streams[i] = t
      /\ \A j \in Slots \ {i} : Forget(b, id).streams[j] = c.streams[j]
      /\ FindActiveStream(Forget(b, id), id) = 0
  BY <1>1, <1>2, <1>3, <1>4, <1>6, DropRewritten
<1>9. Effects(c, Forget(b, id))
  <2>1. SUFFICES ASSUME NEW d, d = Forget(b, id) PROVE Effects(c, d)
    OBVIOUS
  <2>2. d.streams[i] = t /\ \A j \in Slots \ {i} : d.streams[j] = c.streams[j]
    BY <1>8, <2>1
  <2>3. QED
    BY <1>1, <1>6, <1>8, <2>1, <2>2 DEF Effects
<1>10. QED
  BY <1>7, <1>8, <1>9

\* ReleaseActiveStream gives back the entry of a stream, if it still has one.
LEMMA ReleaseKeeps ==
    ASSUME NEW c, ConnInv(c), NEW id, NEW d, d = ReleaseActiveStream(c, id)
    PROVE  /\ ConnInv(d) /\ d.nextStreamId = c.nextStreamId
           /\ \A j \in Slots : d.streams[j] = c.streams[j]
                  \/ (Holds(c, j, id) /\ d.streams[j] = NoStream)
           /\ id # 0 => \A j \in Slots : ~Holds(d, j, id)
<1> DEFINE i == FindActiveStream(c, id)
<1>0. Table(c) /\ Shape(c)
  BY DEF ConnInv
<1>1. CASE i = 0
  <2>1. d = c
    BY <1>1 DEF ReleaseActiveStream
  <2>2. QED
    BY <1>0, <1>1, <2>1, FindFinds
<1>2. CASE i # 0
  <2>1. i \in Slots /\ id \in StreamIds /\ id # 0 /\ Holds(c, i, id)
        /\ \A j \in Slots : Holds(c, j, id) => j = i
    BY <1>0, <1>2, FindFinds
  <2> DEFINE b == [c EXCEPT !.streams[i] = NoStream]
  <2> HIDE DEF i
  <2>2. Rewrites(c, b, i, NoStream) /\ b.block = c.block
    BY <1>0, <2>1 DEF Rewrites, Edited, Shape
  <2>3. d = Forget(b, id)
    BY <1>2 DEF ReleaseActiveStream, i
  <2>4. StreamShape(NoStream) /\ NoStream.streamId = 0 /\ NoStream.InUse = FALSE
        /\ NoStream.ExpectingContinuation = FALSE
    <3>1. InitialWindow \in Int
      BY Http2Assumption
    <3>2. QED
      BY <3>1 DEF StreamShape, Fields, NoStream
  <2>5. SameButLedger(c, c)
    BY DEF SameButLedger
  <2> HIDE DEF b
  <2>6. /\ ConnInv(Forget(b, id)) /\ Forget(b, id).nextStreamId = c.nextStreamId
        /\ Forget(b, id).streams[i] = NoStream
        /\ \A j \in Slots \ {i} : Forget(b, id).streams[j] = c.streams[j]
        /\ FindActiveStream(Forget(b, id), id) = 0
    BY <1>0, <2>1, <2>2, <2>4, <2>5, DropRewritten
  <2>7. d.streams[i] = NoStream /\ \A j \in Slots \ {i} : d.streams[j] = c.streams[j]
    BY <2>3, <2>6
  <2>8. \A j \in Slots : ~Holds(d, j, id)
    BY <2>1, <2>4, <2>7 DEF Holds
  <2>9. QED
    BY <2>1, <2>3, <2>6, <2>7, <2>8
<1>3. QED
  BY <1>1, <1>2

\* Only the window for sending has moved.
WindowMoved(s, t) ==
    /\ StreamShape(t) /\ t.InUse = s.InUse /\ t.streamId = s.streamId /\ t.state = s.state
    /\ t.localWindow = s.localWindow /\ t.StreamClosed = s.StreamClosed
    /\ t.ResponseContentLength = s.ResponseContentLength /\ t.BodyLength = s.BodyLength
    /\ t.ExpectingContinuation = s.ExpectingContinuation /\ t.PendingHeaderEndStream = s.PendingHeaderEndStream
    /\ t.ResponseHeaderBlockLen = s.ResponseHeaderBlockLen

LEMMA WindowMovedFacts ==
    ASSUME NEW s, StreamShape(s), NEW w \in Int
    PROVE  /\ WindowMoved(s, s) /\ WindowMoved(s, [s EXCEPT !.remoteWindow = w])
           /\ [s EXCEPT !.remoteWindow = w].remoteWindow = w
<1>1. WindowMoved(s, s)
  BY DEF WindowMoved
<1>2. WindowMoved(s, [s EXCEPT !.remoteWindow = w]) /\ [s EXCEPT !.remoteWindow = w].remoteWindow = w
  BY DEF WindowMoved, StreamShape, Fields, NoStream
<1>3. QED
  BY <1>1, <1>2

\* The windows of all streams move, in the table and in the peer's books, or the connection is given up.
LEMMA MoveAll ==
    ASSUME NEW c, ConnInv(c), NEW d, Shape(d), NEW delta \in Int,
           d.block = c.block, d.nextStreamId = c.nextStreamId,
           \A j \in Slots : WindowMoved(c.streams[j], d.streams[j]),
           d.ledger.credit = c.ledger.credit, d.ledger.content = c.ledger.content,
           d.ledger.ended = c.ledger.ended, d.ledger.faulted = c.ledger.faulted,
           InForce(d) => /\ InForce(c)
                         /\ \A j \in Live(c) :
                               /\ d.streams[j].remoteWindow = c.streams[j].remoteWindow + delta
                               /\ d.ledger.allowed[c.streams[j].streamId]
                                     = c.ledger.allowed[c.streams[j].streamId] + delta,
           Balanced(d)
    PROVE  ConnInv(d) /\ Effects(c, d)
<1>1. \A j \in Slots : d.streams[j].InUse = c.streams[j].InUse /\ d.streams[j].streamId = c.streams[j].streamId
                       /\ d.streams[j].ExpectingContinuation = c.streams[j].ExpectingContinuation
                       /\ d.streams[j].state = c.streams[j].state
  BY DEF WindowMoved
<1>2. InUseSlots(d) = InUseSlots(c) /\ Live(d) = Live(c) /\ Live(c) \subseteq Slots /\ InUseSlots(c) \subseteq Slots
  BY <1>1 DEF InUseSlots, Live
<1>3. Table(d)
  <2>1. Table(c)
    BY DEF ConnInv
  <2>2. \A j \in Live(d) : d.streams[j].streamId = c.streams[j].streamId
    BY <1>1, <1>2
  <2>3. \A j \in InUseSlots(d) : d.streams[j].ExpectingContinuation = c.streams[j].ExpectingContinuation
    BY <1>1, <1>2
  <2>4. QED
    BY <1>2, <2>1, <2>2, <2>3 DEF Table
<1>4. Blank(d)
  <2>1. Blank(c)
    BY DEF ConnInv
  <2>2. \A j \in Slots : \A id \in StreamIds : Holds(d, j, id) <=> Holds(c, j, id)
    BY <1>1 DEF Holds
  <2>3. QED
    BY <2>1, <2>2 DEF Blank
<1>5. ASSUME NEW j \in Live(d)
      PROVE  StreamBalanced(d, j) /\ Whole(d, j)
  <2>1. j \in Slots /\ j \in Live(c) /\ StreamBalanced(c, j) /\ Whole(c, j)
    BY <1>2 DEF ConnInv
  <2>2. WindowMoved(c.streams[j], d.streams[j])
    BY <2>1
  <2>3. StreamBalanced(d, j)
    BY <2>1, <2>2 DEF StreamBalanced, WindowMoved
  <2>4. Whole(d, j)
    BY <2>1, <2>2 DEF Whole, Told, WindowMoved
  <2>5. QED
    BY <2>3, <2>4
<1>6. Effects(c, d)
  BY <1>1 DEF Effects
<1>7. QED
  BY <1>3, <1>4, <1>5, <1>6 DEF ConnInv

\* SETTINGS: the streams have their new windows, or the connection is given up.
LEMMA SettingsKept ==
    ASSUME NEW c, ConnInv(c), NEW f, f.window \in Int, f.limit \in Nat
    PROVE  ConnInv(HandleSettings(c, f).c) /\ Effects(c, HandleSettings(c, f).c)
<1> DEFINE delta == f.window - c.InitialWindowSize
           known == {c.streams[i].streamId : i \in InUseSlots(c)} \ {0}
           allowed == [n \in DOMAIN c.ledger.allowed |-> c.ledger.allowed[n] + IF n \in known THEN delta ELSE 0]
           b == [c EXCEPT !.InitialWindowSize = f.window, !.MaxConcurrentStreams = f.limit,
                          !.ledger.allowed = allowed]
           over == {i \in InUseSlots(b) : b.streams[i].remoteWindow + delta \notin -MaxWindow .. MaxWindow}
           first == Min(over \cup {Capacity + 1})
           table == [i \in Slots |->
                       IF b.streams[i].InUse /\ i < first
                       THEN [b.streams[i] EXCEPT !.remoteWindow = b.streams[i].remoteWindow + delta]
                       ELSE b.streams[i]]
           x == [b EXCEPT !.streams = table]
           d == HandleSettings(c, f).c
<1>0. Shape(c) /\ Balanced(c) /\ 0 \in Ids
  BY DEF ConnInv, Ids
<1>1. delta \in Int
  BY <1>0 DEF Shape
<1>2. d = IF over = {} THEN x ELSE SendGoAway(x)
  BY DEF HandleSettings, AdjustActiveStreamRemoteWindows, SendRaw, ConnectionError, Result
<1> HIDE DEF delta, known, d
<1>3. /\ allowed \in [Ids -> Int] /\ \A n \in known : n \in Ids => allowed[n] = c.ledger.allowed[n] + delta
      /\ 0 \notin known /\ allowed[0] = c.ledger.allowed[0]
  <2>1. DOMAIN c.ledger.allowed = Ids /\ c.ledger.allowed \in [Ids -> Int]
    BY <1>0 DEF Shape
  <2>2. 0 \notin known
    BY DEF known
  <2>3. \A n \in Ids : c.ledger.allowed[n] \in Int
    BY <2>1
  <2>4. QED
    BY <1>0, <1>1, <2>1, <2>2, <2>3
<1> HIDE DEF allowed
<1>4. /\ DOMAIN b = DOMAIN c /\ b.ledger = [c.ledger EXCEPT !.allowed = allowed]
      /\ b.streams = c.streams /\ b.block = c.block /\ b.nextStreamId = c.nextStreamId
      /\ b.up = c.up /\ b.goAwaySent = c.goAwaySent /\ b.connectionSendWindow = c.connectionSendWindow
      /\ b.connectionRecvWindow = c.connectionRecvWindow /\ b.connectionRecvConsumed = c.connectionRecvConsumed
      /\ b.InitialWindowSize = f.window /\ b.MaxConcurrentStreams = f.limit
  BY <1>0 DEF Shape
<1>5. /\ DOMAIN b.ledger = DOMAIN c.ledger /\ b.ledger.allowed = allowed /\ b.ledger.credit = c.ledger.credit
      /\ b.ledger.content = c.ledger.content /\ b.ledger.ended = c.ledger.ended
      /\ b.ledger.faulted = c.ledger.faulted
  BY <1>0, <1>4 DEF Shape
<1> HIDE DEF b
<1>6. InUseSlots(b) = InUseSlots(c)
  BY <1>4 DEF InUseSlots
<1>7. ASSUME NEW j \in Slots
      PROVE  WindowMoved(c.streams[j], table[j])
             /\ (over = {} /\ c.streams[j].InUse => table[j].remoteWindow = c.streams[j].remoteWindow + delta)
  <2>1. StreamShape(c.streams[j]) /\ c.streams[j].remoteWindow \in Int
    BY <1>0 DEF Shape, StreamShape
  <2>2. c.streams[j].remoteWindow + delta \in Int
    BY <1>1, <2>1
  <2> DEFINE t == [c.streams[j] EXCEPT !.remoteWindow = c.streams[j].remoteWindow + delta]
  <2>3. /\ WindowMoved(c.streams[j], c.streams[j]) /\ WindowMoved(c.streams[j], t)
        /\ t.remoteWindow = c.streams[j].remoteWindow + delta
    BY <2>1, <2>2, WindowMovedFacts
  <2>4. table[j] = IF c.streams[j].InUse /\ j < first THEN t ELSE c.streams[j]
    BY <1>4
  <2>5. over = {} => j < first
    <3>1. Capacity \in Nat /\ j \in 1 .. Capacity
      BY Http2Assumption DEF Slots
    <3>2. Min({Capacity + 1}) = Capacity + 1
      BY <3>1 DEF Min
    <3>3. over = {} => first = Capacity + 1
      BY <3>2
    <3>4. QED
      BY <3>1, <3>3
  <2> HIDE DEF t, table, over, first
  <2>6. QED
    BY <2>3, <2>4, <2>5
<1>8. DOMAIN table = Slots
  OBVIOUS
<1> HIDE DEF table, over
<1>9. /\ DOMAIN x = DOMAIN c /\ x.ledger = b.ledger
      /\ x.streams = table /\ x.block = c.block /\ x.nextStreamId = c.nextStreamId
      /\ x.up = c.up /\ x.goAwaySent = c.goAwaySent /\ x.connectionSendWindow = c.connectionSendWindow
      /\ x.connectionRecvWindow = c.connectionRecvWindow /\ x.connectionRecvConsumed = c.connectionRecvConsumed
      /\ x.InitialWindowSize = f.window /\ x.MaxConcurrentStreams = f.limit
  BY <1>0, <1>4 DEF Shape
<1> HIDE DEF x
<1>10. \A j \in Slots : WindowMoved(c.streams[j], x.streams[j])
  BY <1>7, <1>9
<1>11. Shape(x)
  <2>1. DOMAIN x.streams = Slots /\ \A j \in Slots : StreamShape(x.streams[j])
    BY <1>8, <1>9, <1>10 DEF WindowMoved
  <2>2. DOMAIN x.ledger = DOMAIN c.ledger /\ x.ledger.allowed \in [Ids -> Int]
        /\ x.ledger.credit \in [Ids -> Int] /\ x.ledger.content \in [StreamIds -> Nat]
    BY <1>0, <1>3, <1>5, <1>9 DEF Shape
  <2>3. /\ x.connectionSendWindow \in Int /\ x.connectionRecvWindow \in Int /\ x.InitialWindowSize \in Int
        /\ x.connectionRecvConsumed \in Nat /\ x.MaxConcurrentStreams \in Nat
    BY <1>0, <1>9 DEF Shape
  <2>4. QED
    BY <1>0, <1>9, <2>1, <2>2, <2>3, ShapeParts
<1>12. Balanced(x)
  BY <1>0, <1>3, <1>5, <1>9 DEF Balanced, InForce
<1>13. CASE over = {}
  <2>1. \A j \in Live(c) : /\ x.streams[j].remoteWindow = c.streams[j].remoteWindow + delta
                           /\ x.ledger.allowed[c.streams[j].streamId]
                                 = c.ledger.allowed[c.streams[j].streamId] + delta
    <3> SUFFICES ASSUME NEW j \in Live(c)
                 PROVE  /\ x.streams[j].remoteWindow = c.streams[j].remoteWindow + delta
                        /\ x.ledger.allowed[c.streams[j].streamId]
                              = c.ledger.allowed[c.streams[j].streamId] + delta
      OBVIOUS
    <3>1. j \in Slots /\ j \in InUseSlots(c) /\ c.streams[j].InUse /\ c.streams[j].streamId # 0
      BY DEF Live, InUseSlots
    <3>2. c.streams[j].streamId \in Ids
      BY DEF ConnInv, Table, Ids
    <3>3. c.streams[j].streamId \in known
      BY <3>1 DEF known
    <3>4. x.ledger.allowed[c.streams[j].streamId] = c.ledger.allowed[c.streams[j].streamId] + delta
      BY <1>3, <1>5, <1>9, <3>2, <3>3
    <3>5. QED
      BY <1>7, <1>9, <1>13, <3>1, <3>4
  <2>2. d = x
    BY <1>2, <1>13
  <2>3. InForce(x) => InForce(c)
    BY <1>9 DEF InForce
  <2>4. ConnInv(x) /\ Effects(c, x)
    BY <1>1, <1>5, <1>9, <1>10, <1>11, <1>12, <2>1, <2>3, MoveAll
  <2>5. QED
    BY <2>2, <2>4 DEF d
<1>14. CASE over # {}
  <2>1. PICK j \in Slots : TRUE
    BY Http2Assumption, 1 \in Slots DEF Slots
  <2> DEFINE y == SendGoAway(x)
  <2>2. d = y
    BY <1>2, <1>14
  <2>3. /\ Touch(x, y, j, 0) /\ y.streams = x.streams /\ y.block = x.block /\ y.ledger = x.ledger
        /\ y.connectionRecvWindow = x.connectionRecvWindow
        /\ y.connectionRecvConsumed = x.connectionRecvConsumed
        /\ ~InForce(y)
    BY <1>11, SendGoAwayFacts
  <2> HIDE DEF y
  <2>4. Shape(y) /\ y.nextStreamId = x.nextStreamId /\ y.connectionSendWindow = x.connectionSendWindow
    BY <2>3 DEF Touch
  <2>5. Balanced(y)
    BY <1>12, <2>3, <2>4 DEF Balanced
  <2>6. ConnInv(y) /\ Effects(c, y)
    BY <1>1, <1>5, <1>9, <1>10, <2>3, <2>4, <2>5, MoveAll
  <2>7. QED
    BY <2>2, <2>6 DEF d
<1>15. QED
  BY <1>13, <1>14

\* A step that changes nothing a stream can see.
LEMMA Unseen ==
    ASSUME NEW c, ConnInv(c), NEW d, SameButLedger(c, d), d.ledger = c.ledger
    PROVE  ConnInv(d) /\ Effects(c, d)
<1>1. Shape(c) /\ Balanced(c)
  BY DEF ConnInv
<1>2. Shape(d)
  <2>1. /\ d.ledger.allowed \in [Ids -> Int] /\ d.ledger.credit \in [Ids -> Int]
        /\ d.ledger.content \in [StreamIds -> Nat]
    BY <1>1 DEF Shape
  <2>2. QED
    BY <1>1, <2>1, ShapeSame
<1>3. Balanced(d) /\ (InForce(d) => InForce(c))
  BY <1>1 DEF Balanced, InForce, SameButLedger
<1>4. d.streams = c.streams /\ d.block = c.block /\ d.nextStreamId = c.nextStreamId
  BY DEF SameButLedger
<1>5. QED
  BY <1>2, <1>3, <1>4, KeepStreams

\* Doing something after what nobody sees.
LEMMA EffectsAfter ==
    ASSUME NEW b, NEW c, NEW d, c.streams = b.streams, c.nextStreamId = b.nextStreamId, Effects(c, d)
    PROVE  Effects(b, d)
BY DEF Effects

\* WINDOW_UPDATE of the connection is in both books.
LEMMA ConnectionWindowKept ==
    ASSUME NEW c, ConnInv(c), NEW f, f.inc \in Nat
    PROVE  ConnInv(HandleWindowUpdate(c, f).c) /\ Effects(c, HandleWindowUpdate(c, f).c)
<1>1. CASE f.inc = 0 \/ c.connectionSendWindow > MaxWindow - f.inc
  <2>1. HandleWindowUpdate(c, f).c = SendGoAway(c)
    BY <1>1 DEF HandleWindowUpdate, ConnectionError, Result
  <2>2. QED
    BY <2>1, GiveUpKeeps
<1>2. CASE ~(f.inc = 0 \/ c.connectionSendWindow > MaxWindow - f.inc)
  <2> DEFINE d == [c EXCEPT !.connectionSendWindow = @ + f.inc, !.ledger.allowed[0] = @ + f.inc]
             books == [c.ledger EXCEPT !.allowed = [c.ledger.allowed EXCEPT ![0] = c.ledger.allowed[0] + f.inc]]
  <2>0. Shape(c) /\ Balanced(c) /\ 0 \in Ids /\ 0 \notin StreamIds
    BY StreamIdsOdd DEF ConnInv, Ids
  <2>1. HandleWindowUpdate(c, f).c = d
    BY <1>2 DEF HandleWindowUpdate, Result
  <2>2. /\ DOMAIN d = DOMAIN c /\ d.ledger = books
        /\ d.connectionSendWindow = c.connectionSendWindow + f.inc
        /\ d.streams = c.streams /\ d.block = c.block /\ d.nextStreamId = c.nextStreamId
        /\ d.up = c.up /\ d.goAwaySent = c.goAwaySent
        /\ d.connectionRecvWindow = c.connectionRecvWindow /\ d.connectionRecvConsumed = c.connectionRecvConsumed
        /\ d.InitialWindowSize = c.InitialWindowSize /\ d.MaxConcurrentStreams = c.MaxConcurrentStreams
    BY <2>0 DEF Shape
  <2>3. /\ DOMAIN books = DOMAIN c.ledger
        /\ books.allowed = [c.ledger.allowed EXCEPT ![0] = c.ledger.allowed[0] + f.inc]
        /\ books.credit = c.ledger.credit /\ books.content = c.ledger.content
        /\ books.ended = c.ledger.ended /\ books.faulted = c.ledger.faulted
    BY <2>0 DEF Shape
  <2> HIDE DEF d, books
  <2>4. c.ledger.allowed \in [Ids -> Int] /\ c.connectionSendWindow \in Int /\ c.ledger.allowed[0] \in Int
    BY <2>0 DEF Shape
  <2>5. /\ d.ledger.allowed \in [Ids -> Int] /\ d.ledger.allowed[0] = c.ledger.allowed[0] + f.inc
        /\ \A n \in StreamIds : d.ledger.allowed[n] = c.ledger.allowed[n]
    BY <2>0, <2>2, <2>3, <2>4 DEF Ids
  <2>6. Shape(d)
    <3>1. /\ d.connectionSendWindow \in Int /\ d.connectionRecvWindow \in Int /\ d.InitialWindowSize \in Int
          /\ d.connectionRecvConsumed \in Nat /\ d.MaxConcurrentStreams \in Nat
      BY <2>0, <2>2, <2>4 DEF Shape
    <3>2. DOMAIN d.streams = Slots /\ \A k \in Slots : StreamShape(d.streams[k])
      BY <2>0, <2>2 DEF Shape
    <3>3. d.ledger.credit \in [Ids -> Int] /\ d.ledger.content \in [StreamIds -> Nat]
          /\ DOMAIN d.ledger = DOMAIN c.ledger
      BY <2>0, <2>2, <2>3 DEF Shape
    <3>4. QED
      BY <2>0, <2>2, <2>5, <3>1, <3>2, <3>3, ShapeParts
  <2>7. Balanced(d)
    BY <2>0, <2>2, <2>3, <2>4, <2>5 DEF Balanced, InForce
  <2>8. InForce(d) => InForce(c)
    BY <2>2 DEF InForce
  <2>9. ConnInv(d) /\ Effects(c, d)
    BY <2>2, <2>3, <2>5, <2>6, <2>7, <2>8, KeepStreams
  <2>10. QED
    BY <2>1, <2>9
<1>3. QED
  BY <1>1, <1>2

\* HandleConnectionFrame.
LEMMA ConnectionFrameKept ==
    ASSUME NEW c0, ConnInv(c0), NEW f, FrameOk(f), f.streamId = 0, f.type # "INVALID"
    PROVE  ConnInv(HandleConnectionFrame(c0, f).c) /\ Effects(c0, HandleConnectionFrame(c0, f).c)
<1>1. CASE c0.controlSignals >= MaxControlSignals
  <2>1. HandleConnectionFrame(c0, f).c = SendGoAway(c0)
    BY <1>1 DEF HandleConnectionFrame, ConnectionError, Result
  <2>2. QED
    BY <2>1, GiveUpKeeps
<1>2. CASE ~(c0.controlSignals >= MaxControlSignals)
  <2> DEFINE c == [c0 EXCEPT !.controlSignals = @ + 1]
  <2>1. SameButLedger(c0, c) /\ c.ledger = c0.ledger
    BY DEF SameButLedger, ConnInv, Shape
  <2>2. ConnInv(c) /\ Effects(c0, c) /\ c.streams = c0.streams /\ c.nextStreamId = c0.nextStreamId
    BY <2>1, Unseen DEF SameButLedger
  <2>3. f.type \in {"SETTINGS", "WINDOW_UPDATE", "GOAWAY", "PING"}
    BY StreamIdsOdd DEF FrameOk
  <2>4. HandleConnectionFrame(c0, f) = CASE f.type = "SETTINGS"      -> HandleSettings(c, f)
               [] f.type = "WINDOW_UPDATE" -> HandleWindowUpdate(c, f)
               [] f.type = "GOAWAY"        -> HandleGoAway(c, f)
               [] f.type = "PING"          -> SendRaw(c)
    BY <1>2 DEF HandleConnectionFrame
  <2> HIDE DEF c
  <2>5. CASE f.type = "SETTINGS"
    <3>1. f.window \in Int /\ f.limit \in Nat
      BY <2>5 DEF FrameOk
    <3>2. HandleConnectionFrame(c0, f) = HandleSettings(c, f)
      BY <2>4, <2>5
    <3>3. QED
      BY <2>2, <3>1, <3>2, SettingsKept, EffectsAfter
  <2>6. CASE f.type = "WINDOW_UPDATE"
    <3>1. f.inc \in Nat
      BY <2>6 DEF FrameOk
    <3>2. HandleConnectionFrame(c0, f) = HandleWindowUpdate(c, f)
      BY <2>4, <2>6
    <3>3. QED
      BY <2>2, <3>1, <3>2, ConnectionWindowKept, EffectsAfter
  <2>7. CASE f.type = "GOAWAY"
    <3> DEFINE d == [c EXCEPT !.goAwayReceived = TRUE]
    <3>0. HandleConnectionFrame(c0, f) = HandleGoAway(c, f)
      BY <2>4, <2>7
    <3>1. HandleConnectionFrame(c0, f).c = d
      BY <3>0 DEF HandleGoAway, Result
    <3>2. SameButLedger(c, d) /\ d.ledger = c.ledger
      BY <2>2 DEF SameButLedger, ConnInv, Shape
    <3> HIDE DEF d
    <3>3. ConnInv(d) /\ Effects(c, d)
      BY <2>2, <3>2, Unseen
    <3>4. QED
      BY <2>2, <3>1, <3>3, EffectsAfter
  <2>8. CASE f.type = "PING"
    <3>1. HandleConnectionFrame(c0, f).c = c
      BY <2>4, <2>8 DEF SendRaw, Result
    <3>2. QED
      BY <2>2, <3>1
  <2>9. QED
    BY <2>3, <2>5, <2>6, <2>7, <2>8
<1>3. QED
  BY <1>1, <1>2

\* A frame of no stream in the table: the peer's credit for the connection is all it costs.
LEMMA SentKeeps ==
    ASSUME NEW c, ConnInv(c), NEW f, FrameOk(f), NEW p, Sent(c, p, f), FindActiveStream(c, f.streamId) = 0
    PROVE  ConnInv(p) /\ Effects(c, p) /\ p.streams = c.streams /\ p.nextStreamId = c.nextStreamId
<1>1. Shape(c) /\ Shape(p) /\ Balanced(c) /\ SameButLedger(c, p)
  BY DEF ConnInv, Sent
<1>2. /\ p.ledger.content = c.ledger.content /\ p.ledger.ended = c.ledger.ended
      /\ p.ledger.faulted = c.ledger.faulted /\ p.ledger.allowed = c.ledger.allowed
      /\ \A n \in StreamIds : p.ledger.credit[n] = c.ledger.credit[n]
  BY DEF Sent
<1>3. p.ledger.credit[0] <= c.ledger.credit[0]
  <2>1. c.ledger.credit[0] \in Int
    BY <1>1 DEF Shape, Ids
  <2>2. CASE f.type = "DATA"
    <3>1. f.len \in Nat /\ p.ledger.credit[0] = c.ledger.credit[0] - f.len
      BY <2>2 DEF FrameOk, Sent
    <3>2. QED
      BY <2>1, <3>1
  <2>3. CASE f.type # "DATA"
    BY <2>1, <2>3 DEF Sent
  <2>4. QED
    BY <2>2, <2>3
<1>4. p.ledger.credit[0] \in Int /\ c.ledger.credit[0] \in Int /\ c.connectionRecvWindow \in Int
  BY <1>1 DEF Shape, Ids
<1>5. Balanced(p) /\ (InForce(p) => InForce(c))
  BY <1>1, <1>2, <1>3, <1>4 DEF Balanced, InForce, SameButLedger
<1>6. p.streams = c.streams /\ p.block = c.block /\ p.nextStreamId = c.nextStreamId
  BY <1>1 DEF SameButLedger
<1>7. QED
  BY <1>1, <1>2, <1>5, <1>6, KeepStreams

\* A stream is where it was.
LEMMA TouchFinds ==
    ASSUME NEW c, NEW d, NEW i, NEW id, NEW n, Touch(c, d, i, id)
    PROVE  FindActiveStream(d, n) = FindActiveStream(c, n)
<1>1. \A j \in Slots : d.streams[j].InUse = c.streams[j].InUse /\ d.streams[j].streamId = c.streams[j].streamId
  BY DEF Touch
<1>2. QED
  BY <1>1, FindSame

\* ProcessResponseFrame, for a frame DispatchFrame admits.
LEMMA ResponseFrameKept ==
    ASSUME NEW c, NEW p, NEW i, NEW id, NEW f, Arrives(c, p, i, id, f), FindActiveStream(p, id) = i,
           f.type # "CONTINUATION" => \A j \in InUseSlots(c) : ~c.streams[j].ExpectingContinuation,
           f.type = "CONTINUATION" => c.streams[i].ExpectingContinuation,
           NEW r, r = ProcessResponseFrame(p, i, f), NEW d,
           Failed(r) /\ FindActiveStream(r.c, id) # 0 => d = [r.c EXCEPT !.ledger.faulted = @ \cup {id}],
           ~(Failed(r) /\ FindActiveStream(r.c, id) # 0) => d = r.c
    PROVE  ConnInv(d) /\ Effects(c, d)
<1>1. /\ Shape(p) /\ i \in Slots /\ i # 0 /\ id # 0 /\ id \in StreamIds /\ p.streams[i].streamId = id
  BY ArrivesFacts
<1>2. FrameOk(f) /\ f.streamId = id
  BY DEF Arrives
<1>3. f.type \in {"DATA", "HEADERS", "CONTINUATION", "WINDOW_UPDATE", "RST_STREAM"}
  BY <1>1, <1>2 DEF FrameOk
<1>4. CASE f.type = "DATA"
  <2>1. r = ProcessData(p, i, f)
    BY <1>4 DEF ProcessResponseFrame
  <2>2. Touch(p, r.c, i, id)
    BY <1>1, <1>2, <1>4, <2>1, ProcessDataFacts DEF DataProcessed
  <2>3. FindActiveStream(r.c, id) # 0
    BY <1>1, <2>2, TouchFinds
  <2>4. Recorded(r.c, d, id, Failed(r))
    BY <2>3 DEF Recorded
  <2>5. QED
    BY <1>4, <2>1, <2>4, DataKept
<1>5. CASE f.type \in {"HEADERS", "CONTINUATION"}
  <2>1. r = ProcessHeaders(p, i, f)
    BY <1>5 DEF ProcessResponseFrame
  <2>2. Touch(p, r.c, i, id)
    <3>1. f.clen \in Nat \cup {-1} /\ f.len \in Nat
      BY <1>2, <1>5 DEF FrameOk
    <3>2. HeadersProcessed(p, r, i, id, f)
      BY <1>1, <2>1, <3>1, ProcessHeadersFacts
    <3>3. QED
      BY <3>2 DEF HeadersProcessed, Quiet
  <2>3. FindActiveStream(r.c, id) # 0
    BY <1>1, <2>2, TouchFinds
  <2>4. Recorded(r.c, d, id, Failed(r))
    BY <2>3 DEF Recorded
  <2>5. QED
    BY <1>5, <2>1, <2>4, HeadersKept
<1>6. CASE f.type = "WINDOW_UPDATE"
  <2>1. r = ProcessWindowUpdate(p, i, f)
    BY <1>6 DEF ProcessResponseFrame
  <2>2. Failed(r) => r.c = p
    BY <2>1 DEF ProcessWindowUpdate, Failed, Result
  <2>3. Recorded(r.c, d, id, Failed(r))
    BY <1>1, <2>2 DEF Recorded
  <2>4. QED
    BY <1>6, <2>1, <2>3, WindowUpdateKept
<1>7. CASE f.type = "RST_STREAM"
  <2>1. r = ProcessReset(p, i, f)
    BY <1>7 DEF ProcessResponseFrame
  <2>2. ConnInv(r.c) /\ Effects(c, r.c) /\ FindActiveStream(r.c, id) = 0
    BY <1>7, <2>1, ResetKept
  <2>3. QED
    BY <2>2
<1>8. QED
  BY <1>3, <1>4, <1>5, <1>6, <1>7

\* RecordReceivedFrame and DispatchFrame keep the connection's invariant.
LEMMA ReceiveFrameKeeps ==
    ASSUME NEW c, ConnInv(c), NEW f \in PeerFrames
    PROVE  ConnInv(ReceiveFrame(c, f).c) /\ Effects(c, ReceiveFrame(c, f).c)
<1> DEFINE p == PeerSent([c EXCEPT !.framesRead = @ + 1], f)
           r == DispatchFrame(p, f)
           id == f.streamId
           i == FindActiveStream(p, id)
           k == FindContinuationStream(p)
           expected == IF k = 0 THEN f.type # "CONTINUATION"
                       ELSE f.type = "CONTINUATION" /\ f.streamId = p.streams[k].streamId
           d == ReceiveFrame(c, f).c
<1>1. FrameOk(f) /\ Shape(c) /\ Table(c)
  BY PeerFramesOk DEF ConnInv
<1>2. Sent(c, p, f)
  BY <1>1, PeerSentFacts
<1>3. CASE c.framesRead >= MaxFrames
  <2>1. d = SendGoAway(c)
    BY <1>3 DEF ReceiveFrame, ConnectionError, Result
  <2>2. QED
    BY <2>1, GiveUpKeeps
<1>4. CASE ~(c.framesRead >= MaxFrames)
  <2>1. /\ Failed(r) /\ FindActiveStream(r.c, id) # 0 => d = [r.c EXCEPT !.ledger.faulted = @ \cup {id}]
        /\ ~(Failed(r) /\ FindActiveStream(r.c, id) # 0) => d = r.c
    BY <1>4 DEF ReceiveFrame, Result
  <2>2. /\ f.type = "INVALID" \/ ~expected => r = ConnectionError(p, "invalid")
        /\ ~(f.type = "INVALID" \/ ~expected) /\ id = 0 => r = HandleConnectionFrame(p, f)
        /\ ~(f.type = "INVALID" \/ ~expected) /\ id # 0 /\ i = 0 => r.c = p
        /\ ~(f.type = "INVALID" \/ ~expected) /\ id # 0 /\ i # 0 => r = ProcessResponseFrame(p, i, f)
    BY DEF DispatchFrame, Result
  <2> HIDE DEF p, r, d
  <2>3. p.streams = c.streams
    BY <1>2 DEF Sent, SameButLedger
  <2>4. i = FindActiveStream(c, id) /\ k = FindContinuationStream(c)
    BY <2>3 DEF FindActiveStream, FindContinuationStream
  <2>5. CASE i = 0
    <3>1. ConnInv(p) /\ Effects(c, p) /\ p.nextStreamId = c.nextStreamId
      BY <1>1, <1>2, <2>4, <2>5, SentKeeps
    <3>2. CASE f.type = "INVALID" \/ ~expected
      <4>1. r.c = SendGoAway(p)
        BY <2>2, <3>2 DEF ConnectionError, Result
      <4>2. SendGoAway(p).streams = p.streams
        <5>1. PICK j \in Slots : TRUE
          BY Http2Assumption, 1 \in Slots DEF Slots
        <5>2. Shape(p)
          BY <3>1 DEF ConnInv
        <5>3. QED
          BY <5>2, QuietSelf
      <4>3. FindActiveStream(r.c, id) = FindActiveStream(p, id)
        BY <4>1, <4>2, FindSame
      <4>4. d = r.c
        BY <2>1, <2>5, <4>3
      <4>5. QED
        BY <2>3, <3>1, <4>1, <4>4, GiveUpKeeps, EffectsAfter DEF d
    <3>3. CASE ~(f.type = "INVALID" \/ ~expected) /\ id = 0
      <4>1. FindActiveStream(r.c, id) = 0
        BY <3>3 DEF FindActiveStream
      <4>2. d = HandleConnectionFrame(p, f).c
        BY <2>1, <2>2, <3>3, <4>1
      <4>3. ConnInv(HandleConnectionFrame(p, f).c) /\ Effects(p, HandleConnectionFrame(p, f).c)
        BY <1>1, <3>1, <3>3, ConnectionFrameKept
      <4>4. QED
        BY <2>3, <3>1, <4>2, <4>3, EffectsAfter DEF d
    <3>4. CASE ~(f.type = "INVALID" \/ ~expected) /\ id # 0
      <4>1. r.c = p
        BY <2>2, <2>5, <3>4
      <4>2. d = p
        BY <2>1, <2>5, <4>1
      <4>3. QED
        BY <3>1, <4>2 DEF d
    <3>5. QED
      BY <3>2, <3>3, <3>4
  <2>6. CASE i # 0
    <3>1. i \in Slots /\ id \in StreamIds /\ id # 0 /\ Holds(c, i, id)
      BY <1>1, <2>4, <2>6, FindFinds
    <3>2. Arrives(c, p, i, id, f)
      BY <1>1, <1>2, <2>4, <3>1 DEF Arrives
    <3>3. CASE f.type = "INVALID" \/ ~expected
      <4>1. r.c = SendGoAway(p) /\ Failed(r)
        BY <2>2, <3>3 DEF ConnectionError, Result, Failed
      <4>2. Touch(p, SendGoAway(p), i, id)
        BY <1>2, <3>1, SendGoAwayFacts DEF Sent
      <4>3. FindActiveStream(r.c, id) # 0
        BY <2>6, <4>1, <4>2, TouchFinds
      <4>4. Recorded(SendGoAway(p), d, id, TRUE)
        BY <2>1, <4>1, <4>3 DEF Recorded
      <4>5. QED
        BY <3>2, <4>4, RefusedKept DEF d
    <3>4. CASE ~(f.type = "INVALID" \/ ~expected)
      <4>1. f.type # "CONTINUATION" => \A j \in InUseSlots(c) : ~c.streams[j].ExpectingContinuation
        BY <1>1, <2>4, <3>4, FindContinuation
      <4>2. f.type = "CONTINUATION" => c.streams[i].ExpectingContinuation
        <5>1. SUFFICES ASSUME f.type = "CONTINUATION" PROVE c.streams[i].ExpectingContinuation
          OBVIOUS
        <5>2. k # 0 /\ id = c.streams[k].streamId
          BY <2>3, <3>4, <5>1
        <5>3. k \in InUseSlots(c) /\ c.streams[k].ExpectingContinuation
          BY <1>1, <2>4, <5>2, FindContinuation
        <5>4. k = i
          BY <1>1, <2>4, <3>1, <5>2, <5>3, FindHolds DEF Holds, InUseSlots
        <5>5. QED
          BY <5>3, <5>4
      <4>3. r = ProcessResponseFrame(p, i, f)
        BY <2>2, <2>6, <3>1, <3>4
      <4>4. ConnInv(d) /\ Effects(c, d)
        BY <2>1, <3>2, <4>1, <4>2, <4>3, ResponseFrameKept
      <4>5. QED
        BY <4>4 DEF d
    <3>5. QED
      BY <3>3, <3>4
  <2>7. QED
    BY <2>5, <2>6
<1>5. QED
  BY <1>3, <1>4

-----------------------------------------------------------------------------
(* The callers.                                                            *)

\* The entry of a new stream.
Opened(c, d, i, id) ==
    /\ d.streams[i].InUse = TRUE /\ d.streams[i].streamId = id /\ d.streams[i].ExpectingContinuation = FALSE
    /\ d.streams[i].ResponseHeaderBlockLen = 0 /\ d.streams[i].BodyLength = 0 /\ d.streams[i].StreamClosed = FALSE
    /\ d.streams[i].localWindow = InitialWindow /\ d.streams[i].remoteWindow = c.InitialWindowSize
    /\ StreamShape(d.streams[i])

\* ReserveActiveStream puts a new stream into a free entry.
Reserved(c, d, i, st) ==
    /\ ConnInv(d) /\ d.nextStreamId = c.nextStreamId + 2
    /\ \A j \in Slots \ {i} : d.streams[j] = c.streams[j]
    /\ Holds(d, i, c.nextStreamId) /\ d.streams[i].state = st

LEMMA ReserveKeeps ==
    ASSUME NEW c, ConnInv(c), c.nextStreamId \in StreamIds, NEW i \in Slots, ~c.streams[i].InUse,
           NEW head, NEW st
    PROVE  Reserved(c, [ReserveActiveStream(c, i, head) EXCEPT !.streams[i].state = st], i, st)
<1> DEFINE id == c.nextStreamId
           new == [NoStream EXCEPT
                  !.InUse = TRUE, !.streamId = c.nextStreamId,
                  !.remoteWindow = c.InitialWindowSize,
                  !.RequestForbidsResponseBody = head,
                  !.ResponseBodyForbidden = head]
           t == [new EXCEPT !.state = st]
           books == [c.ledger EXCEPT !.allowed = [c.ledger.allowed EXCEPT ![id] = c.InitialWindowSize]]
           b == ReserveActiveStream(c, i, head)
           d == [b EXCEPT !.streams[i].state = st]
<1>0. Shape(c) /\ Table(c) /\ Blank(c) /\ Balanced(c) /\ id \in Ids /\ 0 \in Ids /\ id # 0 /\ id \in Int
      /\ InitialWindow \in Int /\ 0 \notin StreamIds
  <2>1. id # 0 /\ id \in Ids /\ 0 \in Ids /\ 0 \notin StreamIds
    BY StreamIdsOdd DEF Ids
  <2>3. id \in Int
    BY StreamIdsOdd
  <2>4. QED
    BY <2>1, <2>3, Http2Assumption DEF ConnInv
<1>a. /\ DOMAIN c = {"up", "goAwaySent", "goAwayReceived", "nextStreamId", "framesRead", "controlSignals",
                   "InitialWindowSize", "MaxConcurrentStreams", "connectionSendWindow",
                   "connectionRecvWindow", "connectionRecvConsumed", "streams", "block", "ledger"}
      /\ DOMAIN c.streams = Slots /\ DOMAIN c.ledger = {"allowed", "credit", "content", "ended", "faulted"}
      /\ c.ledger.allowed \in [Ids -> Int] /\ c.InitialWindowSize \in Int
  BY <1>0 DEF Shape
<1>1. /\ DOMAIN b = DOMAIN c /\ b.ledger = books /\ b.nextStreamId = id + 2
      /\ b.streams = [c.streams EXCEPT ![i] = new]
      /\ b.up = c.up /\ b.goAwaySent = c.goAwaySent /\ b.block = c.block
      /\ b.InitialWindowSize = c.InitialWindowSize /\ b.MaxConcurrentStreams = c.MaxConcurrentStreams
      /\ b.connectionSendWindow = c.connectionSendWindow /\ b.connectionRecvWindow = c.connectionRecvWindow
      /\ b.connectionRecvConsumed = c.connectionRecvConsumed
  <2> HIDE DEF new
  <2>1. b = [c EXCEPT !.nextStreamId = @ + 2, !.streams[i] = new, !.ledger.allowed[id] = c.InitialWindowSize]
    BY DEF ReserveActiveStream, new
  <2> HIDE DEF b
  <2>2. QED
    BY <1>a, <2>1
<1> HIDE DEF b
<1>2. /\ DOMAIN d = DOMAIN c /\ d.ledger = books /\ d.nextStreamId = id + 2
      /\ d.streams = [b.streams EXCEPT ![i] = [b.streams[i] EXCEPT !.state = st]]
      /\ d.up = c.up /\ d.goAwaySent = c.goAwaySent /\ d.block = c.block
      /\ d.InitialWindowSize = c.InitialWindowSize /\ d.MaxConcurrentStreams = c.MaxConcurrentStreams
      /\ d.connectionSendWindow = c.connectionSendWindow /\ d.connectionRecvWindow = c.connectionRecvWindow
      /\ d.connectionRecvConsumed = c.connectionRecvConsumed
  <2> HIDE DEF new, books
  <2>1. QED
    BY <1>a, <1>1
<1> HIDE DEF d
<1>3. d.streams[i] = t /\ DOMAIN d.streams = Slots /\ \A j \in Slots \ {i} : d.streams[j] = c.streams[j]
  <2> HIDE DEF new
  <2>1. b.streams[i] = new /\ DOMAIN b.streams = Slots /\ \A j \in Slots \ {i} : b.streams[j] = c.streams[j]
    BY <1>a, <1>1
  <2>2. QED
    BY <1>2, <2>1
<1>4. Opened(c, d, i, id) /\ d.streams[i].state = st
  <2>1. /\ t.InUse = TRUE /\ t.streamId = id /\ t.ExpectingContinuation = FALSE
        /\ t.ResponseHeaderBlockLen = 0 /\ t.BodyLength = 0 /\ t.StreamClosed = FALSE
        /\ t.localWindow = InitialWindow /\ t.remoteWindow = c.InitialWindowSize
        /\ t.state = st /\ DOMAIN t = Fields /\ t.ResponseContentLength = -1
    BY DEF NoStream, Fields
  <2> HIDE DEF t
  <2>2. StreamShape(t)
    BY <1>0, <1>a, <2>1 DEF StreamShape
  <2>3. QED
    BY <1>3, <2>1, <2>2 DEF Opened
<1> HIDE DEF t, new
<1>5. /\ DOMAIN books = DOMAIN c.ledger /\ books.credit = c.ledger.credit /\ books.content = c.ledger.content
      /\ books.ended = c.ledger.ended /\ books.faulted = c.ledger.faulted
      /\ books.allowed = [c.ledger.allowed EXCEPT ![id] = c.InitialWindowSize]
  BY <1>a
<1> HIDE DEF books
<1>6. /\ d.ledger.allowed \in [Ids -> Int] /\ d.ledger.allowed[id] = c.InitialWindowSize
      /\ d.ledger.allowed[0] = c.ledger.allowed[0]
      /\ \A n \in StreamIds \ {id} : d.ledger.allowed[n] = c.ledger.allowed[n]
  BY <1>0, <1>a, <1>2, <1>5 DEF Ids
<1>7. Shape(d)
  <2>1. \A k \in Slots : StreamShape(d.streams[k])
    BY <1>0, <1>3, <1>4 DEF Shape, Opened
  <2>2. /\ d.connectionSendWindow \in Int /\ d.connectionRecvWindow \in Int /\ d.InitialWindowSize \in Int
        /\ d.connectionRecvConsumed \in Nat /\ d.MaxConcurrentStreams \in Nat
    BY <1>0, <1>2 DEF Shape
  <2>3. d.ledger.credit \in [Ids -> Int] /\ d.ledger.content \in [StreamIds -> Nat]
        /\ DOMAIN d.ledger = DOMAIN c.ledger
    BY <1>0, <1>2, <1>5 DEF Shape
  <2>4. QED
    BY <1>0, <1>2, <1>3, <1>6, <2>1, <2>2, <2>3, ShapeParts
<1>8. /\ InUseSlots(d) = InUseSlots(c) \cup {i} /\ Live(d) = Live(c) \cup {i}
      /\ i \notin InUseSlots(c) /\ Live(c) \subseteq InUseSlots(c) /\ InUseSlots(c) \subseteq Slots
  BY <1>0, <1>3, <1>4 DEF InUseSlots, Live, Opened
<1>9. \A j \in Live(c) : d.streams[j] = c.streams[j] /\ c.streams[j].streamId \in StreamIds
                         /\ c.streams[j].streamId < id /\ c.streams[j].streamId # id
                         /\ c.streams[j].streamId \in Int
  <2>2. \A n \in StreamIds : n \in Int
    BY StreamIdsOdd
  <2>3. QED
    BY <1>0, <1>3, <1>8, <2>2 DEF Table
<1>10. Table(d)
  <2>1. \A j \in Live(d) : d.streams[j].streamId \in StreamIds /\ d.streams[j].streamId < d.nextStreamId
    BY <1>0, <1>2, <1>4, <1>8, <1>9 DEF Opened
  <2>2. \A j, k \in Live(d) : d.streams[j].streamId = d.streams[k].streamId => j = k
    BY <1>0, <1>4, <1>8, <1>9 DEF Opened, Table
  <2>3. \A j \in InUseSlots(c) : d.streams[j] = c.streams[j]
    BY <1>3, <1>8
  <2>4. \A j, k \in InUseSlots(d) :
          d.streams[j].ExpectingContinuation /\ d.streams[k].ExpectingContinuation => j = k
    BY <1>0, <1>4, <1>8, <2>3 DEF Opened, Table
  <2>5. QED
    BY <2>1, <2>2, <2>4 DEF Table
<1>11. \A n \in StreamIds : (\A j \in Slots : ~Holds(c, j, n)) =>
          /\ c.ledger.credit[n] = InitialWindow /\ c.ledger.content[n] = 0
          /\ n \notin c.ledger.ended /\ n \notin c.ledger.faulted
  BY <1>0 DEF Blank
<1>12. Blank(d)
  <2> SUFFICES ASSUME NEW n \in StreamIds, \A j \in Slots : ~Holds(d, j, n)
               PROVE  d.ledger.credit[n] = InitialWindow /\ d.ledger.content[n] = 0
                      /\ n \notin d.ledger.ended /\ n \notin d.ledger.faulted
    BY DEF Blank
  <2>1. \A j \in Slots : ~Holds(c, j, n)
    BY <1>3 DEF Holds
  <2>2. QED
    BY <1>2, <1>5, <1>11, <2>1
<1>13. InForce(d) => InForce(c)
  BY <1>2 DEF InForce
<1>14. Balanced(d)
  BY <1>0, <1>2, <1>5, <1>6, <1>13 DEF Balanced
<1>15. \A j \in Slots : ~Holds(c, j, id)
  BY <1>0, <1>8, <1>9 DEF Holds, Live, InUseSlots
<1>16. StreamBalanced(d, i) /\ Whole(d, i)
  <2>1. d.ledger.credit[id] = InitialWindow /\ d.ledger.content[id] = 0 /\ id \notin d.ledger.ended
    BY <1>2, <1>5, <1>11, <1>15
  <2>2. StreamBalanced(d, i)
    BY <1>0, <1>4, <1>6, <2>1 DEF StreamBalanced, Opened
  <2>3. Told(d.streams[i], d.block, id \in d.ledger.ended, d.ledger.content[id])
    BY <1>4, <2>1 DEF Told, Opened
  <2>4. Whole(d, i)
    BY <1>4, <2>3 DEF Whole, Opened
  <2>5. QED
    BY <2>2, <2>4
<1>17. ASSUME NEW j \in Live(c)
       PROVE  StreamBalanced(d, j) /\ Whole(d, j)
  <2>1. StreamBalanced(c, j) /\ Whole(c, j)
    BY DEF ConnInv
  <2>2. d.streams[j] = c.streams[j] /\ c.streams[j].streamId \in StreamIds \ {id}
    BY <1>9
  <2>3. StreamBalanced(d, j)
    BY <1>2, <1>5, <1>6, <1>13, <2>1, <2>2 DEF StreamBalanced
  <2>4. Whole(d, j)
    BY <1>2, <1>5, <2>1, <2>2 DEF Whole
  <2>5. QED
    BY <2>3, <2>4
<1>18. ConnInv(d)
  BY <1>7, <1>8, <1>10, <1>12, <1>14, <1>16, <1>17 DEF ConnInv
<1>19. Holds(d, i, id)
  BY <1>4 DEF Opened, Holds
<1>20. Reserved(c, d, i, st)
  BY <1>2, <1>3, <1>4, <1>18, <1>19 DEF Reserved
<1>21. QED
  BY <1>20 DEF d, b

\* DATA goes out: both windows and the peer's books shrink together.
BodySent(c, d, i, st) ==
    /\ ConnInv(d) /\ d.nextStreamId = c.nextStreamId
    /\ \A j \in Slots : d.streams[j].InUse = c.streams[j].InUse /\ d.streams[j].streamId = c.streams[j].streamId
    /\ d.streams[i].state = st

LEMMA SendBodyKeeps ==
    ASSUME NEW c, ConnInv(c), NEW i \in Slots, NEW id \in StreamIds, Holds(c, i, id),
           c.streams[i].state \in {"Open", "HalfClosedRemote"},
           NEW n \in Int, n <= c.connectionSendWindow, NEW last
    PROVE  BodySent(c, SendData(c, i, id, n, last), i, AfterSend(c.streams[i].state, last))
<1> DEFINE s == c.streams[i]
           st == AfterSend(s.state, last)
           t == [s EXCEPT !.remoteWindow = s.remoteWindow - n, !.state = st]
           allowed == [c.ledger.allowed EXCEPT ![0] = c.ledger.allowed[0] - n, ![id] = c.ledger.allowed[id] - n]
           books == [c.ledger EXCEPT !.allowed = allowed]
           d == [c EXCEPT !.streams[i].remoteWindow = @ - n,
                             !.streams[i].state = AfterSend(@, last),
                             !.connectionSendWindow = @ - n,
                             !.ledger.allowed[0] = @ - n, !.ledger.allowed[id] = @ - n]
<1>0. Shape(c) /\ Balanced(c) /\ id \in Ids /\ 0 \in Ids /\ id # 0 /\ 0 \notin StreamIds /\ i \in Live(c)
      /\ s.streamId = id
  BY StreamIdsOdd DEF ConnInv, Ids, Live, InUseSlots, Holds
<1>a. /\ DOMAIN c = {"up", "goAwaySent", "goAwayReceived", "nextStreamId", "framesRead", "controlSignals",
                   "InitialWindowSize", "MaxConcurrentStreams", "connectionSendWindow",
                   "connectionRecvWindow", "connectionRecvConsumed", "streams", "block", "ledger"}
      /\ DOMAIN c.streams = Slots /\ DOMAIN c.ledger = {"allowed", "credit", "content", "ended", "faulted"}
      /\ c.ledger.allowed \in [Ids -> Int] /\ DOMAIN s = Fields /\ s.remoteWindow \in Int
      /\ c.connectionSendWindow \in Int /\ c.ledger.allowed[0] \in Int /\ c.ledger.allowed[id] \in Int
  BY <1>0 DEF Shape, StreamShape
<1>b. "remoteWindow" \in Fields /\ "state" \in Fields
  BY DEF Fields, NoStream
<1>1. d.streams = [c.streams EXCEPT ![i] = t]
  BY <1>a, <1>b
<1>2. d.ledger = books
  <2>1. allowed = [[c.ledger.allowed EXCEPT ![0] = c.ledger.allowed[0] - n] EXCEPT ![id] = c.ledger.allowed[id] - n]
    OBVIOUS
  <2>2. [c.ledger.allowed EXCEPT ![0] = c.ledger.allowed[0] - n][id] = c.ledger.allowed[id]
    BY <1>0, <1>a
  <2>3. QED
    BY <1>0, <1>a, <2>1, <2>2
<1>3. /\ DOMAIN d = DOMAIN c /\ d.connectionSendWindow = c.connectionSendWindow - n
      /\ d.up = c.up /\ d.goAwaySent = c.goAwaySent /\ d.nextStreamId = c.nextStreamId /\ d.block = c.block
      /\ d.InitialWindowSize = c.InitialWindowSize /\ d.MaxConcurrentStreams = c.MaxConcurrentStreams
      /\ d.connectionRecvWindow = c.connectionRecvWindow /\ d.connectionRecvConsumed = c.connectionRecvConsumed
  <2> HIDE DEF s, t, books, allowed
  <2>1. QED
    BY <1>a
<1> HIDE DEF d
<1>4. /\ t.InUse = s.InUse /\ t.streamId = s.streamId /\ t.state = st /\ t.localWindow = s.localWindow
      /\ t.remoteWindow = s.remoteWindow - n /\ t.StreamClosed = s.StreamClosed
      /\ t.ResponseContentLength = s.ResponseContentLength /\ t.BodyLength = s.BodyLength
      /\ t.ExpectingContinuation = s.ExpectingContinuation /\ t.PendingHeaderEndStream = s.PendingHeaderEndStream
      /\ t.ResponseHeaderBlockLen = s.ResponseHeaderBlockLen /\ DOMAIN t = Fields
  BY <1>a, <1>b
<1>5. s.state \in Ended => st \in Ended
  BY DEF AfterSend, Ended
<1> HIDE DEF t, st
<1>6. d.streams[i] = t /\ DOMAIN d.streams = Slots /\ \A j \in Slots \ {i} : d.streams[j] = c.streams[j]
  BY <1>a, <1>1
<1>7. allowed \in [Ids -> Int] /\ allowed[0] = c.ledger.allowed[0] - n /\ allowed[id] = c.ledger.allowed[id] - n
      /\ \A m \in StreamIds \ {id} : allowed[m] = c.ledger.allowed[m]
  BY <1>0, <1>a DEF Ids
<1> HIDE DEF allowed
<1>8. /\ DOMAIN books = DOMAIN c.ledger /\ books.credit = c.ledger.credit /\ books.content = c.ledger.content
      /\ books.ended = c.ledger.ended /\ books.faulted = c.ledger.faulted /\ books.allowed = allowed
  BY <1>a
<1> HIDE DEF books
<1>9. StreamShape(t)
  <2>1. StreamShape(s)
    BY <1>0 DEF Shape
  <2>2. s.remoteWindow - n \in Int
    BY <1>a
  <2>3. QED
    BY <1>4, <2>1, <2>2 DEF StreamShape
<1>10. Shape(d)
  <2>1. \A k \in Slots : StreamShape(d.streams[k])
    BY <1>0, <1>6, <1>9 DEF Shape
  <2>2. /\ d.connectionSendWindow \in Int /\ d.connectionRecvWindow \in Int /\ d.InitialWindowSize \in Int
        /\ d.connectionRecvConsumed \in Nat /\ d.MaxConcurrentStreams \in Nat
    BY <1>0, <1>a, <1>3 DEF Shape
  <2>3. d.ledger.credit \in [Ids -> Int] /\ d.ledger.content \in [StreamIds -> Nat]
        /\ DOMAIN d.ledger = DOMAIN c.ledger /\ d.ledger.allowed \in [Ids -> Int]
    BY <1>0, <1>2, <1>7, <1>8 DEF Shape
  <2>4. QED
    BY <1>0, <1>3, <1>6, <2>1, <2>2, <2>3, ShapeParts
<1>11. OthersBooks(c, d, id)
  BY <1>2, <1>7, <1>8 DEF OthersBooks
<1>12. InForce(d) => InForce(c)
  BY <1>3 DEF InForce
<1>13. Balanced(d)
  <2>1. InForce(d) => d.connectionSendWindow = d.ledger.allowed[0] /\ d.connectionSendWindow >= 0
    BY <1>0, <1>a, <1>2, <1>3, <1>7, <1>8, <1>12 DEF Balanced
  <2>2. QED
    BY <1>0, <1>2, <1>3, <1>8, <2>1 DEF Balanced
<1>14. StreamBalanced(d, i)
  <2>1. StreamBalanced(c, i)
    BY <1>0 DEF ConnInv
  <2>2. QED
    BY <1>0, <1>2, <1>4, <1>6, <1>7, <1>8, <1>12, <2>1 DEF StreamBalanced
<1>15. Whole(d, i)
  <2>1. Whole(c, i)
    BY <1>0 DEF ConnInv
  <2>2. QED
    BY <1>0, <1>2, <1>3, <1>4, <1>5, <1>6, <1>8, <2>1 DEF Whole, Told
<1>16. Holds(d, i, id)
  BY <1>4, <1>6 DEF Holds
<1>17. ConnInv(d)
  BY <1>0, <1>3, <1>4, <1>6, <1>10, <1>11, <1>12, <1>13, <1>14, <1>15, <1>16, MoveOne
<1>18. BodySent(c, d, i, AfterSend(c.streams[i].state, last))
  BY <1>3, <1>4, <1>6, <1>17 DEF BodySent, st
<1>19. QED
  BY <1>18 DEF d, SendData

\* What a request that has no stream yet may become.
Early == {"idle", "entering", "locking"}

LEMMA WaitingFinite == IsFiniteSet(Requests) /\ IsFiniteSet(Waiting) /\ Cardinality(Waiting) \in Nat
<1>1. NumRequests \in Nat
  BY Http2Assumption
<1>2. IsFiniteSet(1 .. NumRequests)
  BY <1>1, FS_Interval
<1>3. IsFiniteSet(Requests)
  BY <1>2 DEF Requests
<1>4. Waiting \subseteq Requests
  BY DEF Waiting
<1>5. IsFiniteSet(Waiting)
  BY <1>3, <1>4, FS_Subset
<1>6. Cardinality(Waiting) \in Nat
  BY <1>5, FS_CardinalityType
<1>7. QED
  BY <1>3, <1>5, <1>6

\* Only request r is written.
Writes(r) ==
    /\ DOMAIN req' = Requests /\ DOMAIN req'[r] = DOMAIN NoRequest
    /\ \A q \in Requests \ {r} : req'[q] = req[q]

\* A stream number is held by the request it was given to.
NumbersKept(r) ==
    /\ req'[r].pc \in Over \cup {"entering", "locking"} => req'[r].id = 0
    /\ req'[r].id \in {0, req[r].id}
    /\ \A i \in Live(h2') : /\ i \in Live(h2) /\ h2'.streams[i].streamId = h2.streams[i].streamId
                            /\ req'[r].id = req[r].id \/ h2.streams[i].streamId # req[r].id

\* A step of request r that takes no new stream number keeps the callers' part of the invariant.
LEMMA CallerStep ==
    ASSUME Callers, NEW r \in Requests, Writes(r), NumbersKept(r), h2'.nextStreamId = h2.nextStreamId,
           stateLock \in {0, r} \/ (h2' = h2 /\ stateLock' = stateLock),
           req'[r].pc = "sending" => Sending(r)',
           req'[r].pc \in {"entering", "locking"} => req'[r].body \in Nat,
           req'[r].pc \in Early => req[r].pc \in Early
    PROVE  Callers'
<1>1. DOMAIN req' = Requests /\ \A q \in Requests : DOMAIN req'[q] = DOMAIN NoRequest
  BY DEF Callers, Writes
<1>2. \A q \in Requests : req'[q].pc \in Over \cup {"entering", "locking"} => req'[q].id = 0
  BY DEF Callers, Writes, NumbersKept
<1>3. \A q \in Requests : req'[q].id # 0 => req'[q].id = req[q].id
  BY DEF Writes, NumbersKept
<1>4. \A q \in Requests : req'[q].id # 0 => req'[q].id \in StreamIds /\ req'[q].id < h2'.nextStreamId
  BY <1>3 DEF Callers
<1>5. \A p, q \in Requests : req'[p].id # 0 /\ req'[p].id = req'[q].id => p = q
  BY <1>3 DEF Callers
<1>6. \A i \in Live(h2') : \E q \in Requests : req'[q].id = h2'.streams[i].streamId
  <2> SUFFICES ASSUME NEW i \in Live(h2')
               PROVE  \E q \in Requests : req'[q].id = h2'.streams[i].streamId
    OBVIOUS
  <2>1. i \in Live(h2) /\ h2'.streams[i].streamId = h2.streams[i].streamId
        /\ (req'[r].id = req[r].id \/ h2.streams[i].streamId # req[r].id)
    BY DEF NumbersKept
  <2>2. PICK q \in Requests : req[q].id = h2.streams[i].streamId
    BY <2>1 DEF Callers
  <2>3. req'[q].id = req[q].id
    BY <2>1, <2>2 DEF Writes
  <2>4. QED
    BY <2>1, <2>2, <2>3
<1>7. \A q \in Requests : req'[q].pc = "sending" => Sending(q)'
  <2> SUFFICES ASSUME NEW q \in Requests, req'[q].pc = "sending"
               PROVE  Sending(q)'
    OBVIOUS
  <2>1. CASE q = r
    BY <2>1
  <2>2. CASE q # r
    <3>1. req'[q] = req[q]
      BY <2>2 DEF Writes
    <3>2. Sending(q)
      BY <3>1 DEF Callers
    <3>3. q # 0
      BY Http2Assumption DEF Requests
    <3>4. h2' = h2 /\ stateLock' = stateLock
      BY <2>2, <3>2, <3>3 DEF Sending
    <3>5. QED
      BY <3>1, <3>2, <3>4 DEF Sending, Holds
  <2>3. QED
    BY <2>1, <2>2
<1>8. \A q \in Requests : req'[q].pc \in {"entering", "locking"} => req'[q].body \in Nat
  BY DEF Callers, Writes
<1>9. h2'.nextStreamId + 2 * Cardinality(Waiting') <= 2 * NumRequests + 1
  <2>1. Waiting' \subseteq Waiting
    BY DEF Waiting, Writes, Early
  <2>2. Cardinality(Waiting') \in Nat /\ Cardinality(Waiting') <= Cardinality(Waiting)
    <3>1. Cardinality(Waiting') <= Cardinality(Waiting) /\ IsFiniteSet(Waiting')
      BY <2>1, WaitingFinite, FS_Subset
    <3>2. Cardinality(Waiting') \in Nat
      BY <3>1, FS_CardinalityType
    <3>3. QED
      BY <3>1, <3>2
  <2>3. h2.nextStreamId \in Int /\ NumRequests \in Nat /\ Cardinality(Waiting) \in Nat
    <3>1. NumRequests \in Nat /\ Cardinality(Waiting) \in Nat
      BY WaitingFinite, Http2Assumption
    <3>2. QED
      BY <3>1 DEF Callers
  <2>4. h2.nextStreamId + 2 * Cardinality(Waiting) <= 2 * NumRequests + 1
    BY DEF Callers
  <2>5. QED
    BY <2>2, <2>3, <2>4
<1>10. \E n \in 1 .. NumRequests + 1 : h2'.nextStreamId = 2 * n - 1
  BY DEF Callers
<1>11. QED
  BY <1>1, <1>2, <1>4, <1>5, <1>6, <1>7, <1>8, <1>9, <1>10 DEF Callers

\* There is a stream number for a request that has none.
LEMMA NumberLeft ==
    ASSUME Callers, NEW r \in Requests, req[r].pc \in Early
    PROVE  /\ h2.nextStreamId \in StreamIds
           /\ \E n \in 1 .. NumRequests : h2.nextStreamId = 2 * n - 1
           /\ Cardinality(Waiting \ {r}) = Cardinality(Waiting) - 1
           /\ Cardinality(Waiting \ {r}) \in Nat /\ Cardinality(Waiting) \in Nat
<1>1. r \in Waiting /\ IsFiniteSet(Waiting)
  BY WaitingFinite DEF Waiting, Early
<1>2. Cardinality(Waiting \ {r}) = Cardinality(Waiting) - 1 /\ IsFiniteSet(Waiting \ {r})
  BY <1>1, FS_RemoveElement
<1>3. Cardinality(Waiting \ {r}) \in Nat
  BY <1>2, FS_CardinalityType
<1>4. Cardinality(Waiting) \in Nat /\ NumRequests \in Nat
  BY WaitingFinite, Http2Assumption
<1>5. PICK n \in 1 .. NumRequests + 1 : h2.nextStreamId = 2 * n - 1
  BY DEF Callers
<1>6. h2.nextStreamId + 2 * Cardinality(Waiting) <= 2 * NumRequests + 1
  BY DEF Callers
<1>7. n \in 1 .. NumRequests
  BY <1>2, <1>3, <1>4, <1>5, <1>6
<1>8. h2.nextStreamId \in StreamIds
  BY <1>5, <1>7 DEF StreamIds, Requests
<1>9. QED
  BY <1>2, <1>3, <1>4, <1>5, <1>7, <1>8

\* A request takes the next stream number.
LEMMA BeginStep ==
    ASSUME Callers, NEW r \in Requests, req[r].pc \in Early, Writes(r), h2'.nextStreamId = h2.nextStreamId + 2,
           stateLock \in {0, r}, req'[r].id \in {0, h2.nextStreamId}, req'[r].pc \notin Early,
           req'[r].pc \in Over => req'[r].id = 0,
           \A i \in Live(h2') : \/ i \in Live(h2) /\ h2'.streams[i].streamId = h2.streams[i].streamId
                                \/ h2'.streams[i].streamId = req'[r].id,
           req'[r].pc = "sending" => Sending(r)'
    PROVE  Callers'
<1>0. req[r].id = 0
  BY DEF Callers, Early, Over
<1>1. DOMAIN req' = Requests /\ \A q \in Requests : DOMAIN req'[q] = DOMAIN NoRequest
  BY DEF Callers, Writes
<1>2. \A q \in Requests : req'[q].pc \in Over \cup {"entering", "locking"} => req'[q].id = 0
  BY DEF Callers, Writes, Early
<1>3. \A q \in Requests \ {r} : req'[q].id = req[q].id
  BY DEF Writes
<1>4. PICK n \in 1 .. NumRequests : h2.nextStreamId = 2 * n - 1
  BY NumberLeft
<1>5. n \in Int /\ NumRequests \in Nat /\ h2.nextStreamId \in Int
  BY <1>4, Http2Assumption
<1>6. \A q \in Requests : req'[q].id # 0 => req'[q].id \in StreamIds /\ req'[q].id < h2'.nextStreamId
  <2>1. \A q \in Requests : req[q].id # 0 => req[q].id \in StreamIds /\ req[q].id < h2.nextStreamId
    BY DEF Callers
  <2>2. \A x \in Int : x < h2.nextStreamId => x < h2.nextStreamId + 2
    BY <1>5
  <2>3. h2.nextStreamId \in StreamIds /\ StreamIds \subseteq Int
    BY NumberLeft, StreamIdsOdd
  <2>4. \A q \in Requests \ {r} : req'[q].id # 0 => req'[q].id \in StreamIds /\ req'[q].id < h2'.nextStreamId
    BY <1>3, <2>1, <2>2, <2>3
  <2>5. h2.nextStreamId < h2'.nextStreamId
    BY <1>5
  <2>6. req'[r].id # 0 => req'[r].id \in StreamIds /\ req'[r].id < h2'.nextStreamId
    BY <2>3, <2>5
  <2>7. QED
    BY <2>4, <2>6
<1>7. \A p, q \in Requests : req'[p].id # 0 /\ req'[p].id = req'[q].id => p = q
  <2>1. \A q \in Requests : req[q].id # h2.nextStreamId
    BY <1>5 DEF Callers
  <2>2. \A p, q \in Requests : req[p].id # 0 /\ req[p].id = req[q].id => p = q
    BY DEF Callers
  <2>3. QED
    BY <1>3, <2>1, <2>2
<1>8. \A i \in Live(h2') : \E q \in Requests : req'[q].id = h2'.streams[i].streamId
  <2> SUFFICES ASSUME NEW i \in Live(h2')
               PROVE  \E q \in Requests : req'[q].id = h2'.streams[i].streamId
    OBVIOUS
  <2>1. CASE i \in Live(h2) /\ h2'.streams[i].streamId = h2.streams[i].streamId
    <3>1. PICK q \in Requests : req[q].id = h2.streams[i].streamId
      BY <2>1 DEF Callers
    <3>2. q # r
      BY <1>0, <2>1, <3>1 DEF Live
    <3>3. QED
      BY <1>3, <2>1, <3>1, <3>2
  <2>2. CASE h2'.streams[i].streamId = req'[r].id
    BY <2>2
  <2>3. QED
    BY <2>1, <2>2
<1>9. \A q \in Requests : req'[q].pc = "sending" => Sending(q)'
  <2> SUFFICES ASSUME NEW q \in Requests, req'[q].pc = "sending", q # r
               PROVE  Sending(q)'
    OBVIOUS
  <2>1. Sending(q) /\ q # 0
    BY Http2Assumption, SMTT(30) DEF Callers, Writes, Requests
  <2>2. QED
    BY <2>1 DEF Sending
<1>10. \A q \in Requests : req'[q].pc \in {"entering", "locking"} => req'[q].body \in Nat
  BY DEF Callers, Writes, Early
<1>11. h2'.nextStreamId + 2 * Cardinality(Waiting') <= 2 * NumRequests + 1
  <2>1. Waiting' = Waiting \ {r}
    BY DEF Waiting, Writes, Early
  <2>2. Cardinality(Waiting') = Cardinality(Waiting) - 1 /\ Cardinality(Waiting) \in Nat
    BY <2>1, NumberLeft
  <2>3. h2.nextStreamId + 2 * Cardinality(Waiting) <= 2 * NumRequests + 1
    BY DEF Callers
  <2>4. QED
    BY <1>5, <2>2, <2>3
<1>12. \E m \in 1 .. NumRequests + 1 : h2'.nextStreamId = 2 * m - 1
  BY <1>4, <1>5, n + 1 \in 1 .. NumRequests + 1
<1>13. QED
  BY <1>1, <1>2, <1>6, <1>7, <1>8, <1>9, <1>10, <1>11, <1>12 DEF Callers

\* The fields of a request.
LEMMA GotoFacts ==
    ASSUME Callers, NEW r \in Requests, NEW p, req' = Goto(r, p)
    PROVE  /\ Writes(r) /\ req'[r].pc = p /\ req'[r].id = req[r].id /\ req'[r].slot = req[r].slot
           /\ req'[r].body = req[r].body
<1>1. DOMAIN req = Requests /\ DOMAIN req[r] = DOMAIN NoRequest
  BY DEF Callers
<1>2. req' = [req EXCEPT ![r] = [req[r] EXCEPT !.pc = p]]
  BY DEF Goto
<1>3. QED
  BY <1>1, <1>2 DEF Writes, NoRequest

LEMMA ReturnedFacts ==
    ASSUME Callers, NEW r \in Requests, NEW p, NEW b, req' = Returned(r, p, b)
    PROVE  /\ Writes(r) /\ req'[r].pc = p
           /\ p = "release" => req'[r].id = req[r].id
           /\ p # "release" => req'[r].id = 0
<1>1. DOMAIN req = Requests /\ DOMAIN req[r] = DOMAIN NoRequest
  BY DEF Callers
<1>2. PICK q : q = [NoRequest EXCEPT !.pc = p, !.id = IF p = "release" THEN req[r].id ELSE 0,
                                     !.foreign = b \notin {0, req[r].id}]
  OBVIOUS
<1>3. req' = [req EXCEPT ![r] = q]
  BY <1>2 DEF Returned
<1>4. /\ DOMAIN q = DOMAIN NoRequest /\ q.pc = p
      /\ p = "release" => q.id = req[r].id
      /\ p # "release" => q.id = 0
  BY <1>2 DEF NoRequest
<1>5. QED
  BY <1>1, <1>3, <1>4 DEF Writes

LEMMA SameFacts ==
    ASSUME Callers, NEW r \in Requests, req' = req
    PROVE  Writes(r)
BY DEF Callers, Writes

\* The streams after a frame: those that are left are the ones there were.
LEMMA EffectsLive ==
    ASSUME NEW c, NEW d, Effects(c, d)
    PROVE  \A i \in Live(d) : i \in Live(c) /\ d.streams[i].streamId = c.streams[i].streamId
BY DEF Effects, Live, InUseSlots

LEMMA ReleaseLive ==
    ASSUME NEW c, ConnInv(c), NEW id, id # 0
    PROVE  /\ ConnInv(ReleaseActiveStream(c, id)) /\ ReleaseActiveStream(c, id).nextStreamId = c.nextStreamId
           /\ \A i \in Live(ReleaseActiveStream(c, id)) :
                 /\ i \in Live(c) /\ ReleaseActiveStream(c, id).streams[i].streamId = c.streams[i].streamId
                 /\ ReleaseActiveStream(c, id).streams[i].streamId # id
<1> SUFFICES ASSUME NEW d, d = ReleaseActiveStream(c, id)
             PROVE  /\ ConnInv(d) /\ d.nextStreamId = c.nextStreamId
                    /\ \A i \in Live(d) : i \in Live(c) /\ d.streams[i].streamId = c.streams[i].streamId
                                          /\ d.streams[i].streamId # id
  OBVIOUS
<1>1. /\ ConnInv(d) /\ d.nextStreamId = c.nextStreamId
      /\ \A j \in Slots : d.streams[j] = c.streams[j] \/ (Holds(c, j, id) /\ d.streams[j] = NoStream)
      /\ \A j \in Slots : ~Holds(d, j, id)
  BY ReleaseKeeps
<1>2. NoStream.InUse = FALSE
  BY DEF NoStream
<1>3. \A i \in Live(d) : i \in Slots /\ d.streams[i].InUse /\ d.streams[i].streamId # 0
  BY DEF Live, InUseSlots
<1>4. \A i \in Live(d) : d.streams[i] = c.streams[i]
  BY <1>1, <1>2, <1>3
<1>5. \A i \in Live(d) : i \in Live(c) /\ d.streams[i].streamId # id
  BY <1>1, <1>3, <1>4 DEF Live, InUseSlots, Holds
<1>6. QED
  BY <1>1, <1>4, <1>5

-----------------------------------------------------------------------------
(* The steps.                                                              *)

\* A reader has dispatched a frame, or given up: BeginRequest waiting for window, or ReceiveResponse.
LEMMA AnsweredKeeps ==
    ASSUME H2Inv, NEW r \in Requests, NEW c, NEW s, NEW b, ConnInv(c), Effects(h2, c),
           At(r, "sending") \/ (At(r, "receiving") /\ stateLock = 0), Answered(r, c, s, b)
    PROVE  H2Inv'
<1>0. Callers /\ ConnInv(h2)
  BY DEF H2Inv
<1>1. /\ c.nextStreamId = h2.nextStreamId
      /\ \A i \in Live(c) : i \in Live(h2) /\ c.streams[i].streamId = h2.streams[i].streamId
  BY EffectsLive DEF Effects
<1>2. CASE At(r, "sending") /\ (s # "success" \/ BodyCutShort(c, r)) /\ s = "success"
  <2>1. h2' = c /\ req' = Goto(r, "begun")
    BY <1>2 DEF Answered, Waited, EndSending
  <2>2. Writes(r) /\ req'[r].pc = "begun" /\ req'[r].id = req[r].id
    BY <1>0, <2>1, GotoFacts
  <2>3. stateLock = r
    BY <1>0, <1>2 DEF Callers, Sending, At
  <2>4. NumbersKept(r)
    BY <1>1, <2>1, <2>2 DEF NumbersKept, Over
  <2>5. Callers'
    BY <1>0, <1>1, <2>1, <2>2, <2>3, <2>4, CallerStep DEF Early
  <2>6. QED
    BY <2>1, <2>5 DEF H2Inv
<1>3. CASE At(r, "sending") /\ (s # "success" \/ BodyCutShort(c, r)) /\ s # "success"
  <2>1. h2' = ReleaseActiveStream(c, req[r].id) /\ req' = Returned(r, "failed", b)
    BY <1>3 DEF Answered, Waited, EndSending
  <2>2. Writes(r) /\ req'[r].pc = "failed" /\ req'[r].id = 0
    BY <1>0, <2>1, ReturnedFacts
  <2>3. stateLock = r /\ req[r].id # 0
    BY <1>0, <1>3 DEF Callers, Sending, At
  <2>4. /\ ConnInv(h2') /\ h2'.nextStreamId = c.nextStreamId
        /\ \A i \in Live(h2') : i \in Live(c) /\ h2'.streams[i].streamId = c.streams[i].streamId
                                /\ h2'.streams[i].streamId # req[r].id
    BY <2>1, <2>3, ReleaseLive
  <2>5. NumbersKept(r)
    BY <1>1, <2>2, <2>4 DEF NumbersKept, Over
  <2>6. Callers'
    BY <1>0, <1>1, <2>2, <2>3, <2>4, <2>5, CallerStep DEF Early
  <2>7. QED
    BY <2>4, <2>6 DEF H2Inv
<1>4. CASE At(r, "sending") /\ ~(s # "success" \/ BodyCutShort(c, r))
  <2>1. h2' = c /\ req' = req /\ stateLock' = stateLock
    BY <1>4 DEF Answered, Waited
  <2>2. Sending(r)
    BY <1>0, <1>4 DEF Callers, At
  <2>3. Writes(r)
    BY <1>0, <2>1, SameFacts
  <2>4. NumbersKept(r)
    BY <1>0, <1>1, <2>1 DEF NumbersKept, Callers
  <2>5. Sending(r)'
    <3> DEFINE i == req[r].slot
    <3>1. i \in Slots /\ req[r].id # 0 /\ Holds(h2, i, req[r].id) /\ stateLock = r /\ req[r].body \in Nat
          /\ h2.streams[i].state \in {"Open", "HalfClosedRemote"}
      BY <2>2 DEF Sending
    <3>2. ~c.streams[i].StreamClosed
      BY <1>4 DEF BodyCutShort
    <3>3. c.streams[i].InUse = h2.streams[i].InUse /\ c.streams[i].streamId = h2.streams[i].streamId
          /\ c.streams[i].state \in {"Open", "HalfClosedRemote"}
      BY <3>1, <3>2 DEF Effects
    <3>4. Holds(c, i, req[r].id)
      BY <3>1, <3>3 DEF Holds
    <3>5. QED
      BY <2>1, <3>1, <3>3, <3>4 DEF Sending
  <2>6. Callers'
    BY <1>0, <1>1, <1>4, <2>1, <2>2, <2>3, <2>4, <2>5, CallerStep DEF Sending, At
  <2>7. QED
    BY <2>1, <2>6 DEF H2Inv
<1>5. CASE At(r, "receiving") /\ stateLock = 0 /\ s = "success"
  <2>1. h2' = c /\ req' = req /\ stateLock' = stateLock
    BY <1>5 DEF Answered, Received, At
  <2>2. Writes(r)
    BY <1>0, <2>1, SameFacts
  <2>3. NumbersKept(r)
    BY <1>0, <1>1, <2>1 DEF NumbersKept, Callers
  <2>4. Callers'
    BY <1>0, <1>1, <1>5, <2>1, <2>2, <2>3, CallerStep DEF At
  <2>5. QED
    BY <2>1, <2>4 DEF H2Inv
<1>6. CASE At(r, "receiving") /\ stateLock = 0 /\ s # "success"
  <2>1. h2' = c /\ req' = Returned(r, "release", b)
    BY <1>6 DEF Answered, Received, At
  <2>2. Writes(r) /\ req'[r].pc = "release" /\ req'[r].id = req[r].id
    BY <1>0, <2>1, ReturnedFacts
  <2>3. NumbersKept(r)
    BY <1>1, <2>1, <2>2 DEF NumbersKept, Over
  <2>4. Callers'
    BY <1>0, <1>1, <1>6, <2>1, <2>2, <2>3, CallerStep DEF Early
  <2>5. QED
    BY <2>1, <2>4 DEF H2Inv
<1>7. QED
  BY <1>2, <1>3, <1>4, <1>5, <1>6

\* The transport, up or lost.
LEMMA TransportFacts ==
    ASSUME ConnInv(h2), NEW c \in Transport
    PROVE  /\ ConnInv(c) /\ Effects(h2, c) /\ c.streams = h2.streams /\ c.nextStreamId = h2.nextStreamId
           /\ c.MaxConcurrentStreams = h2.MaxConcurrentStreams /\ c.connectionSendWindow = h2.connectionSendWindow
<1>1. CASE c = h2
  <2>1. SameButLedger(h2, h2)
    BY DEF SameButLedger
  <2>2. QED
    BY <1>1, <2>1, Unseen
<1>2. CASE c = [h2 EXCEPT !.up = FALSE]
  <2>1. ConnInv(c) /\ Effects(h2, c)
    BY <1>2, GiveUpKeeps
  <2>2. QED
    BY <1>2, <2>1 DEF ConnInv, Shape
<1>3. QED
  BY <1>1, <1>2 DEF Transport

LEMMA ReaderKeeps ==
    ASSUME H2Inv, NEW r \in Requests, At(r, "sending") \/ (At(r, "receiving") /\ stateLock = 0),
           DispatchNextFrame(r) \/ ReadFails(r)
    PROVE  H2Inv'
<1>0. ConnInv(h2)
  BY DEF H2Inv
<1>1. CASE DispatchNextFrame(r)
  <2>1. PICK f \in Frames(h2) :
          \E c \in IF f.type \in {"DATA", "SETTINGS", "PING"} THEN Transport ELSE {h2} :
              Answered(r, ReceiveFrame(c, f).c, ReceiveFrame(c, f).status,
                       IF ReceiveFrame(c, f).c.goAwaySent \/ ~c.up THEN 0 ELSE f.streamId)
    BY <1>1 DEF DispatchNextFrame
  <2>2. PICK c \in IF f.type \in {"DATA", "SETTINGS", "PING"} THEN Transport ELSE {h2} :
              Answered(r, ReceiveFrame(c, f).c, ReceiveFrame(c, f).status,
                       IF ReceiveFrame(c, f).c.goAwaySent \/ ~c.up THEN 0 ELSE f.streamId)
    BY <2>1
  <2>3. c \in Transport /\ f \in PeerFrames
    BY DEF Transport, Frames
  <2>4. ConnInv(c) /\ c.streams = h2.streams /\ c.nextStreamId = h2.nextStreamId
    BY <1>0, <2>3, TransportFacts
  <2>5. PICK d, s, b : d = ReceiveFrame(c, f).c /\ Answered(r, d, s, b)
    BY <2>2
  <2>6. ConnInv(d) /\ Effects(c, d)
    BY <2>3, <2>4, <2>5, ReceiveFrameKeeps
  <2>7. Effects(h2, d)
    BY <2>4, <2>6, EffectsAfter
  <2>8. QED
    BY <2>5, <2>6, <2>7, AnsweredKeeps
<1>2. CASE \E c \in Transport : ~c.up /\ Answered(r, c, "disconnected", 0)
  <2>1. PICK c \in Transport : Answered(r, c, "disconnected", 0)
    BY <1>2
  <2>2. ConnInv(c) /\ Effects(h2, c)
    BY <1>0, TransportFacts
  <2>3. QED
    BY <2>1, <2>2, AnsweredKeeps
<1>3. CASE h2.up /\ Answered(r, SendGoAway(h2), "invalid", 0)
  <2>1. PICK c : c = SendGoAway(h2) /\ Answered(r, c, "invalid", 0)
    BY <1>3
  <2>2. ConnInv(c) /\ Effects(h2, c)
    BY <1>0, <2>1, GiveUpKeeps
  <2>3. QED
    BY <2>1, <2>2, AnsweredKeeps
<1>4. QED
  BY <1>1, <1>2, <1>3 DEF ReadFails

\* A step of request r that does not touch the connection.
LEMMA QuietCaller ==
    ASSUME H2Inv, NEW r \in Requests, Writes(r), h2' = h2,
           stateLock \in {0, r} \/ stateLock' = stateLock,
           req'[r].id = req[r].id,
           req'[r].pc \in Over \cup {"entering", "locking"} => req'[r].id = 0,
           req'[r].pc # "sending",
           req'[r].pc \in {"entering", "locking"} => req'[r].body \in Nat,
           req'[r].pc \in Early => req[r].pc \in Early
    PROVE  H2Inv'
<1>1. Callers /\ ConnInv(h2)
  BY DEF H2Inv
<1>2. NumbersKept(r)
  BY DEF NumbersKept
<1>3. Callers'
  BY <1>1, <1>2, CallerStep
<1>4. QED
  BY <1>1, <1>3 DEF H2Inv

LEMMA StartKeeps ==
    ASSUME H2Inv, NEW r \in Requests, Start(r)
    PROVE  H2Inv'
<1>1. Callers /\ At(r, "idle")
  BY DEF H2Inv, Start
<1>2. PICK k \in Kinds :
          req' = [req EXCEPT ![r].pc = IF k = "POST" THEN "entering" ELSE "locking",
                             ![r].kind = k, ![r].body = IF k = "POST" THEN BodyLength ELSE 0]
  BY DEF Start
<1>3. DOMAIN req = Requests /\ DOMAIN req[r] = DOMAIN NoRequest
  BY <1>1 DEF Callers
<1>4. PICK q : q = [req[r] EXCEPT !.pc = IF k = "POST" THEN "entering" ELSE "locking",
                             !.kind = k, !.body = IF k = "POST" THEN BodyLength ELSE 0]
  OBVIOUS
<1>5. req' = [req EXCEPT ![r] = q]
  BY <1>2, <1>3, <1>4
<1>6. /\ DOMAIN q = DOMAIN NoRequest /\ q.pc \in {"entering", "locking"} /\ q.id = req[r].id
      /\ q.body \in Nat
  <2>1. BodyLength \in Nat
    BY Http2Assumption
  <2>2. QED
    BY <1>3, <1>4, <2>1 DEF NoRequest
<1>7. Writes(r) /\ req'[r] = q
  BY <1>3, <1>5, <1>6 DEF Writes
<1>8. h2' = h2 /\ stateLock' = stateLock
  BY DEF Start
<1>9. req[r].pc = "idle" /\ req[r].id = 0
  BY <1>1 DEF At, Callers, Over
<1>10. QED
  BY <1>6, <1>7, <1>8, <1>9, QuietCaller DEF Early

LEMMA LockFirstKeeps ==
    ASSUME H2Inv, NEW r \in Requests, LockFirst(r)
    PROVE  H2Inv'
<1>1. Callers /\ req[r].pc = "entering" /\ req' = Goto(r, "locking") /\ h2' = h2
  BY DEF H2Inv, LockFirst, At
<1>2. stateLock' = stateLock
  BY DEF LockFirst, BodyLocks
<1>3. /\ Writes(r) /\ req'[r].pc = "locking" /\ req'[r].id = req[r].id /\ req'[r].body = req[r].body
  BY <1>1, GotoFacts
<1>4. req[r].id = 0
  BY <1>1 DEF Callers
<1>5. req[r].body \in Nat
  BY <1>1 DEF Callers
<1>6. QED
  BY <1>1, <1>2, <1>3, <1>4, <1>5, QuietCaller DEF Early

\* The last lock a request waits for is stateLock_.
LEMMA EnterFacts ==
    ASSUME Callers, NEW r \in Requests, CanEnter(r)
    PROVE  stateLock = 0 /\ req[r].pc = "locking" /\ req[r].id = 0 /\ req[r].body \in Nat
<1>1. req[r].pc = "locking" /\ stateLock = 0
  BY DEF CanEnter, At, Free, BodyLocks
<1>2. QED
  BY <1>1 DEF Callers

LEMMA RefusedKeeps ==
    ASSUME H2Inv, NEW r \in Requests, Refused(r)
    PROVE  H2Inv'
<1>1. Callers /\ CanEnter(r) /\ req' = Returned(r, "failed", 0) /\ h2' = h2
  BY DEF H2Inv, Refused
<1>2. stateLock = 0 /\ req[r].pc = "locking" /\ req[r].id = 0
  BY <1>1, EnterFacts
<1>3. Writes(r) /\ req'[r].pc = "failed" /\ req'[r].id = 0
  BY <1>1, ReturnedFacts
<1>4. QED
  BY <1>1, <1>2, <1>3, QuietCaller DEF Early

LEMMA PromotionFailsKeeps ==
    ASSUME H2Inv, NEW r \in Requests, PromotionFails(r)
    PROVE  H2Inv'
<1>1. Callers /\ req[r].pc = "begun" /\ req' = Returned(r, "release", 0) /\ h2' = h2 /\ stateLock' = stateLock
  BY DEF H2Inv, PromotionFails, At
<1>2. Writes(r) /\ req'[r].pc = "release" /\ req'[r].id = req[r].id
  BY <1>1, ReturnedFacts
<1>3. req'[r].pc \notin Over \cup {"entering", "locking"} /\ req'[r].pc \notin Early /\ req'[r].pc # "sending"
  BY <1>2 DEF Early, Over
<1>4. QED
  BY <1>1, <1>2, <1>3, QuietCaller

LEMMA EnterReceiveKeeps ==
    ASSUME H2Inv, NEW r \in Requests, EnterReceive(r)
    PROVE  H2Inv'
<1>1. Callers /\ req' = Goto(r, "receiving") /\ h2' = h2 /\ stateLock' = stateLock
  BY DEF H2Inv, EnterReceive
<1>2. Writes(r) /\ req'[r].pc = "receiving" /\ req'[r].id = req[r].id
  BY <1>1, GotoFacts
<1>3. req'[r].pc \notin Over \cup {"entering", "locking"} /\ req'[r].pc \notin Early /\ req'[r].pc # "sending"
  BY <1>2 DEF Early, Over
<1>4. QED
  BY <1>1, <1>2, <1>3, QuietCaller

LEMMA StreamGoneKeeps ==
    ASSUME H2Inv, NEW r \in Requests, StreamGone(r)
    PROVE  H2Inv'
<1>1. Callers /\ req' = Returned(r, "release", 0) /\ h2' = h2 /\ stateLock' = stateLock
  BY DEF H2Inv, StreamGone
<1>2. Writes(r) /\ req'[r].pc = "release" /\ req'[r].id = req[r].id
  BY <1>1, ReturnedFacts
<1>3. req'[r].pc \notin Over \cup {"entering", "locking"} /\ req'[r].pc \notin Early /\ req'[r].pc # "sending"
  BY <1>2 DEF Early, Over
<1>4. QED
  BY <1>1, <1>2, <1>3, QuietCaller

\* Request r is over and gives its stream back.
LEMMA ReleaseStep ==
    ASSUME H2Inv, NEW r \in Requests, Writes(r), stateLock = 0, h2' = ReleaseActiveStream(h2, req[r].id),
           req'[r].pc \in {"succeeded", "failed"}, req'[r].id = 0
    PROVE  H2Inv'
<1>1. Callers /\ ConnInv(h2)
  BY DEF H2Inv
<1>2. CASE req[r].id = 0
  <2>1. h2' = h2
    BY <1>2 DEF ReleaseActiveStream, FindActiveStream
  <2>2. QED
    BY <1>2, <2>1, QuietCaller DEF Early
<1>3. CASE req[r].id # 0
  <2>1. /\ ConnInv(h2') /\ h2'.nextStreamId = h2.nextStreamId
        /\ \A i \in Live(h2') : i \in Live(h2) /\ h2'.streams[i].streamId = h2.streams[i].streamId
                                /\ h2'.streams[i].streamId # req[r].id
    BY <1>1, <1>3, ReleaseLive
  <2>2. NumbersKept(r)
    BY <2>1 DEF NumbersKept
  <2>3. Callers'
    BY <1>1, <2>1, <2>2, CallerStep DEF Early
  <2>4. QED
    BY <2>1, <2>3 DEF H2Inv
<1>4. QED
  BY <1>2, <1>3

LEMMA ResponseCompleteKeeps ==
    ASSUME H2Inv, NEW r \in Requests, ResponseComplete(r)
    PROVE  H2Inv'
<1>1. Callers /\ stateLock = 0 /\ h2' = ReleaseActiveStream(h2, req[r].id) /\ req' = Returned(r, "succeeded", 0)
  BY DEF H2Inv, ResponseComplete
<1>2. Writes(r) /\ req'[r].pc = "succeeded" /\ req'[r].id = 0
  BY <1>1, ReturnedFacts
<1>3. QED
  BY <1>1, <1>2, ReleaseStep

LEMMA ReleaseStreamKeeps ==
    ASSUME H2Inv, NEW r \in Requests, ReleaseStream(r)
    PROVE  H2Inv'
<1>1. Callers /\ stateLock = 0 /\ h2' = ReleaseActiveStream(h2, req[r].id)
      /\ req' = [req EXCEPT ![r].pc = "failed", ![r].id = 0]
  BY DEF H2Inv, ReleaseStream
<1>2. DOMAIN req = Requests /\ DOMAIN req[r] = DOMAIN NoRequest
  BY <1>1 DEF Callers
<1>3. PICK q : q = [req[r] EXCEPT !.pc = "failed", !.id = 0]
  OBVIOUS
<1>4. req' = [req EXCEPT ![r] = q]
  BY <1>1, <1>2, <1>3
<1>5. DOMAIN q = DOMAIN NoRequest /\ q.pc = "failed" /\ q.id = 0
  BY <1>2, <1>3 DEF NoRequest
<1>6. Writes(r) /\ req'[r].pc = "failed" /\ req'[r].id = 0
  BY <1>2, <1>4, <1>5 DEF Writes
<1>7. QED
  BY <1>1, <1>6, ReleaseStep

\* BeginRequest: the request has its stream, or the transport was lost and it is given up.
LEMMA BeginRequestKeeps ==
    ASSUME H2Inv, NEW r \in Requests, BeginRequest(r)
    PROVE  H2Inv'
<1> DEFINE id == h2.nextStreamId
           more == req[r].body > 0
           st == IF more THEN "Open" ELSE "HalfClosedLocal"
           head == req[r].kind = "HEAD"
<1>1. Callers /\ ConnInv(h2) /\ CanEnter(r) /\ CanReserve(h2)
  BY DEF H2Inv, BeginRequest
<1>2. stateLock = 0 /\ req[r].pc = "locking" /\ req[r].id = 0 /\ req[r].body \in Nat
  BY <1>1, EnterFacts
<1>3. PICK i : i = Min(Slots \ InUseSlots(h2))
  OBVIOUS
<1>4. i \in Slots /\ ~h2.streams[i].InUse
  <2>1. h2.MaxConcurrentStreams \in Nat
    BY <1>1 DEF ConnInv, Shape
  <2>2. i \in Slots \ InUseSlots(h2)
    BY <1>1, <1>3, <2>1, ReserveFindsSlot
  <2>3. QED
    BY <2>2 DEF InUseSlots
<1>5. req[r].pc \in Early
  BY <1>2 DEF Early
<1>6. id \in StreamIds /\ id # 0
  BY <1>1, <1>5, NumberLeft, StreamIdsOdd
<1>7. PICK c \in Transport :
        IF c.up
        THEN /\ h2' = [ReserveActiveStream(c, i, head) EXCEPT !.streams[i].state = st]
             /\ req' = [req EXCEPT ![r].pc = IF more THEN "sending" ELSE "begun",
                                   ![r].id = id, ![r].slot = i]
             /\ IF more THEN stateLock' = r /\ receiveLock' = r
                        ELSE UNCHANGED <<stateLock, receiveLock>>
        ELSE /\ h2' = ReleaseActiveStream([ReserveActiveStream(c, i, head) EXCEPT !.streams[i].state = st], id)
             /\ req' = Returned(r, "failed", 0)
             /\ receiveLock' = Unlocked(receiveLock, r)
             /\ stateLock' = Unlocked(stateLock, r)
  BY <1>3 DEF BeginRequest
<1>8. ConnInv(c) /\ c.streams = h2.streams /\ c.nextStreamId = id
  BY <1>1, TransportFacts
<1>9. PICK d : d = [ReserveActiveStream(c, i, head) EXCEPT !.streams[i].state = st]
  OBVIOUS
<1>10. Reserved(c, d, i, st)
  BY <1>4, <1>6, <1>8, <1>9, ReserveKeeps
<1>11. /\ ConnInv(d) /\ d.nextStreamId = id + 2 /\ Holds(d, i, id) /\ d.streams[i].state = st
       /\ \A j \in Slots \ {i} : d.streams[j] = h2.streams[j]
  BY <1>8, <1>10 DEF Reserved
<1>12. \A j \in Live(d) : \/ j \in Live(h2) /\ d.streams[j].streamId = h2.streams[j].streamId
                          \/ d.streams[j].streamId = id
  BY <1>11 DEF Live, InUseSlots, Holds
<1>13. CASE c.up
  <2>1. h2' = d
    BY <1>7, <1>9, <1>13
  <2>2. DOMAIN req = Requests /\ DOMAIN req[r] = DOMAIN NoRequest
    BY <1>1 DEF Callers
  <2>3. PICK q : q = [req[r] EXCEPT !.pc = IF more THEN "sending" ELSE "begun", !.id = id, !.slot = i]
    OBVIOUS
  <2>4. req' = [req EXCEPT ![r] = q]
    BY <1>7, <1>13, <2>2, <2>3
  <2>5. DOMAIN q = DOMAIN NoRequest /\ q.pc = (IF more THEN "sending" ELSE "begun") /\ q.id = id /\ q.slot = i
        /\ q.body = req[r].body
    BY <2>2, <2>3 DEF NoRequest
  <2>6. Writes(r) /\ req'[r] = q
    BY <2>2, <2>4, <2>5 DEF Writes
  <2>7. q.pc \notin Early /\ q.pc \notin Over
    BY <2>5 DEF Early, Over
  <2>8. q.pc = "sending" => Sending(r)'
    <3>1. SUFFICES ASSUME q.pc = "sending" PROVE Sending(r)'
      OBVIOUS
    <3>2. more
      BY <2>5, <3>1
    <3>3. stateLock' = r
      BY <1>7, <1>13, <3>2
    <3>4. h2'.streams[i].state = "Open"
      BY <1>11, <2>1, <3>2
    <3>5. Holds(h2', i, id)
      BY <1>11, <2>1
    <3>6. QED
      BY <1>2, <1>4, <1>6, <2>5, <2>6, <3>3, <3>4, <3>5 DEF Sending, Holds
  <2>9. Callers'
    BY <1>1, <1>2, <1>5, <1>11, <1>12, <2>1, <2>5, <2>6, <2>7, <2>8, BeginStep
  <2>10. QED
    BY <1>11, <2>1, <2>9 DEF H2Inv
<1>14. CASE ~c.up
  <2>1. h2' = ReleaseActiveStream(d, id) /\ req' = Returned(r, "failed", 0)
    BY <1>7, <1>9, <1>14
  <2>2. Writes(r) /\ req'[r].pc = "failed" /\ req'[r].id = 0
    BY <1>1, <2>1, ReturnedFacts
  <2>3. /\ ConnInv(h2') /\ h2'.nextStreamId = id + 2
        /\ \A j \in Live(h2') : j \in Live(d) /\ h2'.streams[j].streamId = d.streams[j].streamId
                                /\ h2'.streams[j].streamId # id
    BY <1>6, <1>11, <2>1, ReleaseLive
  <2>4. \A j \in Live(h2') : j \in Live(h2) /\ h2'.streams[j].streamId = h2.streams[j].streamId
    BY <1>12, <2>3
  <2>5. "failed" \notin Early
    BY DEF Early
  <2>6. Callers'
    BY <1>1, <1>2, <1>5, <2>2, <2>3, <2>4, <2>5, BeginStep
  <2>7. QED
    BY <2>3, <2>6 DEF H2Inv
<1>15. QED
  BY <1>13, <1>14

\* SendRequestFrames: a piece of the body goes out.
LEMMA SendBodyStep ==
    ASSUME H2Inv, NEW r \in Requests, SendBody(r)
    PROVE  H2Inv'
<1> DEFINE last == Min({req[r].body, Available(r)}) = req[r].body
<1>1. Callers /\ ConnInv(h2) /\ req[r].pc = "sending" /\ Available(r) > 0
  BY DEF H2Inv, SendBody, At
<1>2. Sending(r)
  BY <1>1 DEF Callers
<1>3. PICK i, id, n : i = req[r].slot /\ id = req[r].id /\ n = Min({req[r].body, Available(r)})
  OBVIOUS
<1>4. /\ stateLock = r /\ i \in Slots /\ id # 0 /\ Holds(h2, i, id)
      /\ h2.streams[i].state \in {"Open", "HalfClosedRemote"} /\ req[r].body \in Nat
  BY <1>2, <1>3 DEF Sending
<1>5. id \in StreamIds
  BY <1>1, <1>4 DEF ConnInv, Table, Live, InUseSlots, Holds
<1>6. n \in Int /\ n <= h2.connectionSendWindow /\ n <= req[r].body
  <2>1. h2.connectionSendWindow \in Int /\ h2.streams[i].remoteWindow \in Int
    BY <1>1, <1>4 DEF ConnInv, Shape, StreamShape
  <2>2. Available(r) = Min({h2.connectionSendWindow, h2.streams[i].remoteWindow})
    BY <1>3 DEF Available
  <2>3. Available(r) \in Int /\ Available(r) <= h2.connectionSendWindow
    BY <2>1, <2>2, MinOfTwo
  <2>4. req[r].body \in Int
    BY <1>4
  <2>5. n \in {req[r].body, Available(r)} /\ n <= req[r].body /\ n <= Available(r)
    BY <1>3, <2>3, <2>4, MinOfTwo
  <2>6. n \in Int
    BY <2>3, <2>4, <2>5
  <2>7. QED
    BY <2>1, <2>3, <2>5, <2>6
<1>7. PICK c \in Transport :
        IF last \/ ~c.up
        THEN EndSending(r, SendData(c, i, id, n, last), SendRaw(c).status, 0)
        ELSE /\ h2' = SendData(c, i, id, n, last)
             /\ req' = [req EXCEPT ![r].body = @ - n]
             /\ UNCHANGED <<stateLock, receiveLock>>
  BY <1>3 DEF SendBody
<1>8. ConnInv(c) /\ c.streams = h2.streams /\ c.nextStreamId = h2.nextStreamId
      /\ c.connectionSendWindow = h2.connectionSendWindow
  BY <1>1, TransportFacts
<1>9. PICK d : d = SendData(c, i, id, n, last)
  OBVIOUS
<1>10. Holds(c, i, id) /\ c.streams[i].state \in {"Open", "HalfClosedRemote"}
  BY <1>4, <1>8 DEF Holds
<1>11. BodySent(c, d, i, AfterSend(c.streams[i].state, last))
  <2> HIDE DEF last
  <2>1. QED
    BY <1>4, <1>5, <1>6, <1>8, <1>9, <1>10, SendBodyKeeps
<1>12. /\ ConnInv(d) /\ d.nextStreamId = h2.nextStreamId
       /\ d.streams[i].state = AfterSend(h2.streams[i].state, last)
       /\ \A j \in Slots : d.streams[j].InUse = h2.streams[j].InUse /\ d.streams[j].streamId = h2.streams[j].streamId
  BY <1>8, <1>11 DEF BodySent
<1>13. \A j \in Live(d) : j \in Live(h2) /\ d.streams[j].streamId = h2.streams[j].streamId
  BY <1>12 DEF Live, InUseSlots
<1>14. CASE (last \/ ~c.up) /\ SendRaw(c).status = "success"
  <2>1. h2' = d /\ req' = Goto(r, "begun")
    BY <1>7, <1>9, <1>14 DEF EndSending
  <2>2. Writes(r) /\ req'[r].pc = "begun" /\ req'[r].id = req[r].id
    BY <1>1, <2>1, GotoFacts
  <2>3. NumbersKept(r)
    BY <1>13, <2>1, <2>2 DEF NumbersKept, Over
  <2>4. Callers'
    BY <1>1, <1>4, <1>12, <2>1, <2>2, <2>3, CallerStep DEF Early
  <2>5. QED
    BY <1>12, <2>1, <2>4 DEF H2Inv
<1>15. CASE (last \/ ~c.up) /\ SendRaw(c).status # "success"
  <2>1. h2' = ReleaseActiveStream(d, id) /\ req' = Returned(r, "failed", 0)
    BY <1>3, <1>7, <1>9, <1>15 DEF EndSending
  <2>2. Writes(r) /\ req'[r].pc = "failed" /\ req'[r].id = 0
    BY <1>1, <2>1, ReturnedFacts
  <2>3. /\ ConnInv(h2') /\ h2'.nextStreamId = d.nextStreamId
        /\ \A j \in Live(h2') : j \in Live(d) /\ h2'.streams[j].streamId = d.streams[j].streamId
                                /\ h2'.streams[j].streamId # id
    BY <1>4, <1>12, <2>1, ReleaseLive
  <2>4. NumbersKept(r)
    BY <1>3, <1>13, <2>2, <2>3 DEF NumbersKept, Over
  <2>5. Callers'
    BY <1>1, <1>4, <1>12, <2>2, <2>3, <2>4, CallerStep DEF Early
  <2>6. QED
    BY <2>3, <2>5 DEF H2Inv
<1>16. CASE ~(last \/ ~c.up)
  <2>1. h2' = d /\ req' = [req EXCEPT ![r].body = @ - n] /\ stateLock' = stateLock
    BY <1>7, <1>9, <1>16
  <2>2. DOMAIN req = Requests /\ DOMAIN req[r] = DOMAIN NoRequest
    BY <1>1 DEF Callers
  <2>3. PICK q : q = [req[r] EXCEPT !.body = req[r].body - n]
    OBVIOUS
  <2>4. req' = [req EXCEPT ![r] = q]
    BY <2>1, <2>2, <2>3
  <2>5. DOMAIN q = DOMAIN NoRequest /\ q.pc = "sending" /\ q.id = id /\ q.slot = i /\ q.body = req[r].body - n
    BY <1>1, <1>3, <2>2, <2>3 DEF NoRequest
  <2>6. Writes(r) /\ req'[r] = q
    BY <2>2, <2>4, <2>5 DEF Writes
  <2>7. NumbersKept(r)
    BY <1>3, <1>13, <2>1, <2>5, <2>6 DEF NumbersKept, Over
  <2>8. Sending(r)'
    <3>1. h2'.streams[i].state = h2.streams[i].state
      BY <1>12, <1>16, <2>1 DEF AfterSend
    <3>2. q.body \in Nat
      BY <1>4, <1>6, <2>5
    <3>3. Holds(h2', i, id)
      BY <1>4, <1>12, <2>1 DEF Holds
    <3>4. QED
      BY <1>4, <2>1, <2>5, <2>6, <3>1, <3>2, <3>3 DEF Sending, Holds
  <2>9. Callers'
    BY <1>1, <1>4, <1>12, <2>1, <2>5, <2>6, <2>7, <2>8, CallerStep
  <2>10. QED
    BY <1>12, <2>1, <2>9 DEF H2Inv
<1>17. QED
  BY <1>14, <1>15, <1>16

\* After Initialize.
LEMMA InitHolds == Init => H2Inv
<1> SUFFICES ASSUME Init PROVE H2Inv
  OBVIOUS
<1>1. PICK n \in StreamLimits :
          h2 = [up |-> TRUE, goAwaySent |-> FALSE, goAwayReceived |-> FALSE,
                nextStreamId |-> 1, framesRead |-> 0, controlSignals |-> 0,
                InitialWindowSize |-> FirstPeerWindow, MaxConcurrentStreams |-> n,
                connectionSendWindow |-> InitialWindow,
                connectionRecvWindow |-> InitialWindow, connectionRecvConsumed |-> 0,
                streams |-> [i \in Slots |-> NoStream],
                block |-> NoBlock,
                ledger |-> NewLedger]
  BY DEF Init
<1>2. /\ n \in Nat /\ FirstPeerWindow \in Int /\ InitialWindow \in Nat /\ NumRequests \in Nat \ {0}
  BY Http2Assumption
<1>3. req = [r \in Requests |-> NoRequest] /\ stateLock = 0
  BY DEF Init
<1>4. /\ NoStream.InUse = FALSE /\ StreamShape(NoStream) /\ NoRequest.pc = "idle" /\ NoRequest.id = 0
  BY <1>2 DEF NoStream, StreamShape, Fields, NoRequest
<1>5. /\ h2.streams = [i \in Slots |-> NoStream] /\ h2.ledger = NewLedger /\ h2.block = NoBlock
      /\ h2.nextStreamId = 1 /\ h2.connectionSendWindow = InitialWindow
      /\ h2.connectionRecvWindow = InitialWindow /\ h2.connectionRecvConsumed = 0
      /\ h2.InitialWindowSize = FirstPeerWindow /\ h2.MaxConcurrentStreams = n
      /\ DOMAIN h2 = {"up", "goAwaySent", "goAwayReceived", "nextStreamId", "framesRead", "controlSignals",
                   "InitialWindowSize", "MaxConcurrentStreams", "connectionSendWindow",
                   "connectionRecvWindow", "connectionRecvConsumed", "streams", "block", "ledger"}
  BY <1>1
<1>6. /\ DOMAIN NewLedger = {"allowed", "credit", "content", "ended", "faulted"}
      /\ NewLedger.allowed \in [Ids -> Int] /\ NewLedger.credit \in [Ids -> Int]
      /\ NewLedger.content \in [StreamIds -> Nat] /\ NewLedger.ended = {} /\ NewLedger.faulted = {}
      /\ NewLedger.allowed[0] = InitialWindow /\ NewLedger.credit[0] = InitialWindow
      /\ \A id \in StreamIds : NewLedger.credit[id] = InitialWindow /\ NewLedger.content[id] = 0
  BY <1>2 DEF NewLedger, Ids
<1>7. InUseSlots(h2) = {} /\ Live(h2) = {}
  BY <1>4, <1>5 DEF InUseSlots, Live
<1>8. Shape(h2)
  <2>1. DOMAIN h2.block = 1 .. HeaderBlockCapacity
    BY <1>5 DEF NoBlock
  <2>2. QED
    BY <1>2, <1>4, <1>5, <1>6, <2>1 DEF Shape
<1>9. Table(h2) /\ Blank(h2) /\ Balanced(h2)
  BY <1>2, <1>5, <1>6, <1>7 DEF Table, Blank, Balanced
<1>10. ConnInv(h2)
  BY <1>7, <1>8, <1>9 DEF ConnInv
<1>11. Waiting = Requests /\ Cardinality(Requests) = NumRequests
  <2>1. Waiting = Requests
    BY <1>3, <1>4 DEF Waiting
  <2>2. Cardinality(1 .. NumRequests) = NumRequests
    BY <1>2, FS_Interval
  <2>3. QED
    BY <2>1, <2>2 DEF Requests
<1>12. h2.nextStreamId + 2 * Cardinality(Waiting) <= 2 * NumRequests + 1
  BY <1>2, <1>5, <1>11
<1>13. \E m \in 1 .. NumRequests + 1 : h2.nextStreamId = 2 * m - 1
  BY <1>2, <1>5, 1 \in 1 .. NumRequests + 1
<1>14. Callers
  BY <1>3, <1>4, <1>7, <1>12, <1>13 DEF Callers
<1>15. QED
  BY <1>10, <1>14 DEF H2Inv

\* Every step keeps the invariant.
LEMMA NextKeeps == H2Inv /\ [Next]_vars => H2Inv'
<1> SUFFICES ASSUME H2Inv, [Next]_vars PROVE H2Inv'
  OBVIOUS
<1>1. CASE UNCHANGED vars
  <2>1. h2' = h2 /\ req' = req /\ stateLock' = stateLock
    BY <1>1 DEF vars
  <2>2. Callers' /\ ConnInv(h2')
    BY <2>1 DEF H2Inv, Callers, Sending, Waiting, Holds
  <2>3. QED
    BY <2>2 DEF H2Inv
<1>2. ASSUME NEW r \in Requests, Start(r) \/ PromotionFails(r) \/ Step(r)
      PROVE  H2Inv'
  <2>1. CASE Start(r)
    BY <2>1, StartKeeps
  <2>2. CASE PromotionFails(r)
    BY <2>2, PromotionFailsKeeps
  <2>3. CASE LockFirst(r)
    BY <2>3, LockFirstKeeps
  <2>4. CASE Refused(r)
    BY <2>4, RefusedKeeps
  <2>5. CASE BeginRequest(r)
    BY <2>5, BeginRequestKeeps
  <2>6. CASE SendBody(r)
    BY <2>6, SendBodyStep
  <2>7. CASE WaitForWindow(r)
    BY <2>7, ReaderKeeps DEF WaitForWindow
  <2>8. CASE EnterReceive(r)
    BY <2>8, EnterReceiveKeeps
  <2>9. CASE ReadResponse(r)
    BY <2>9, ReaderKeeps DEF ReadResponse
  <2>10. CASE ResponseComplete(r)
    BY <2>10, ResponseCompleteKeeps
  <2>11. CASE StreamGone(r)
    BY <2>11, StreamGoneKeeps
  <2>12. CASE ReleaseStream(r)
    BY <2>12, ReleaseStreamKeeps
  <2>13. QED
    BY <1>2, <2>1, <2>2, <2>3, <2>4, <2>5, <2>6, <2>7, <2>8, <2>9, <2>10, <2>11, <2>12 DEF Step
<1>3. QED
  BY <1>1, <1>2 DEF Next

\* The inductive invariant: the stream table, the books of both ends and the callers agree, whatever the peer
\* sends and however the callers interleave (Http2Connection, all operations after Initialize).
THEOREM H2Invariant == Spec => []H2Inv
<1>1. Init => H2Inv
  BY InitHolds
<1>2. H2Inv /\ [Next]_vars => H2Inv'
  BY NextKeeps
<1>3. QED
  BY <1>1, <1>2, PTL DEF Spec

\* The send windows are what the peer has granted less what was sent, the connection's never falls below zero,
\* and a peer that keeps to its windows is never refused (SendRequestFrames, AdjustActiveStreamRemoteWindows,
\* SendWindowUpdateIfNeeded), for any number of streams and any window sizes.
THEOREM WindowsAlwaysAgree == Spec => []WindowsAgree
<1>1. H2Inv => WindowsAgree
  BY DEF H2Inv, ConnInv, Balanced, StreamBalanced, InForce, WindowsAgree
<1>2. QED
  BY <1>1, H2Invariant, PTL

\* DispatchFrame stores a frame only for a request that has not returned, one header block is open at a time,
\* and what a stream has in the shared header buffer is its own.
THEOREM FramesAlwaysReachTheirStream == Spec => []FramesReachTheirStream
<1>1. H2Inv => FramesReachTheirStream
  <2> SUFFICES ASSUME H2Inv PROVE FramesReachTheirStream
    OBVIOUS
  <2>1. ConnInv(h2) /\ Callers
    BY DEF H2Inv
  <2>2. \A i \in Live(h2) : \E r \in Requests :
          req[r].id = h2.streams[i].streamId /\ req[r].pc \notin Over
    <3> SUFFICES ASSUME NEW i \in Live(h2)
                 PROVE  \E r \in Requests : req[r].id = h2.streams[i].streamId /\ req[r].pc \notin Over
      OBVIOUS
    <3>1. PICK r \in Requests : req[r].id = h2.streams[i].streamId
      BY <2>1 DEF Callers
    <3>2. req[r].id # 0
      BY <3>1 DEF Live
    <3>3. QED
      BY <2>1, <3>1, <3>2 DEF Callers
  <2>3. Cardinality({i \in InUseSlots(h2) : h2.streams[i].ExpectingContinuation}) <= 1
    <3> DEFINE T == {i \in InUseSlots(h2) : h2.streams[i].ExpectingContinuation}
    <3>1. ASSUME T = {} PROVE Cardinality(T) <= 1
      <4>1. Cardinality(T) = 0
        BY <3>1, FS_EmptySet
      <4>2. QED
        BY <4>1
    <3>2. ASSUME NEW i \in T PROVE Cardinality(T) <= 1
      <4>1. T = {i}
        BY <2>1 DEF ConnInv, Table
      <4> HIDE DEF T
      <4>2. Cardinality({i}) = 1
        BY FS_Singleton
      <4>3. QED
        BY <4>1, <4>2
    <3> HIDE DEF T
    <3>3. Cardinality(T) <= 1
      BY <3>1, <3>2
    <3>4. QED
      BY <3>3 DEF T
  <2>4. \A i \in Live(h2) :
          LET s == h2.streams[i] IN
          s.streamId \notin h2.ledger.faulted =>
              IF s.ExpectingContinuation
              THEN \A k \in 1 .. s.ResponseHeaderBlockLen : h2.block[k] = s.streamId
              ELSE s.ResponseHeaderBlockLen = 0
    BY <2>1 DEF ConnInv, Whole, Told
  <2>5. QED
    BY <2>2, <2>3, <2>4 DEF FramesReachTheirStream
<1>2. QED
  BY <1>1, H2Invariant, PTL

\* Only ReceiveResponse that finds its stream closed reports success.
LEMMA OnlyCompletionSucceeds ==
    ASSUME H2Inv, NEW q \in Requests, Start(q) \/ PromotionFails(q) \/ Step(q),
           NEW r \in Requests, req'[r].pc = "succeeded", req[r].pc # "succeeded"
    PROVE  ResponseComplete(r)
<1>0. Callers /\ DOMAIN req = Requests /\ DOMAIN req[q] = DOMAIN NoRequest
  BY DEF H2Inv, Callers
<1>1. ASSUME NEW p, NEW b, req' = req \/ req' = Goto(q, p) \/ req' = Returned(q, p, b), p # "succeeded"
      PROVE  FALSE
  <2>1. Writes(q) /\ (req'[q].pc = p \/ req' = req)
    BY <1>0, <1>1, GotoFacts, ReturnedFacts, SameFacts
  <2>2. QED
    BY <1>1, <2>1 DEF Writes
<1>2. ASSUME NEW c, NEW s, NEW b, Answered(q, c, s, b)
      PROVE  FALSE
  <2>1. req' = req \/ req' = Goto(q, "begun") \/ req' = Returned(q, "failed", b) \/ req' = Returned(q, "release", b)
    BY <1>2 DEF Answered, Waited, Received, EndSending
  <2>2. QED
    BY <1>1, <2>1
<1>3. ASSUME DispatchNextFrame(q) \/ ReadFails(q)
      PROVE  FALSE
  <2>1. PICK c, s, b : Answered(q, c, s, b)
    BY <1>3 DEF DispatchNextFrame, ReadFails
  <2>2. QED
    BY <1>2, <2>1
<1>4. ASSUME NEW t, req' = [req EXCEPT ![q] = t], t.pc # "succeeded"
      PROVE  FALSE
  BY <1>0, <1>4
<1>5. CASE Start(q)
  <2>1. PICK k \in Kinds :
          req' = [req EXCEPT ![q].pc = IF k = "POST" THEN "entering" ELSE "locking",
                             ![q].kind = k, ![q].body = IF k = "POST" THEN BodyLength ELSE 0]
    BY <1>5 DEF Start
  <2>2. PICK t : t = [req[q] EXCEPT !.pc = IF k = "POST" THEN "entering" ELSE "locking",
                             !.kind = k, !.body = IF k = "POST" THEN BodyLength ELSE 0]
    OBVIOUS
  <2>3. req' = [req EXCEPT ![q] = t] /\ t.pc # "succeeded"
    BY <1>0, <2>1, <2>2 DEF NoRequest
  <2>4. QED
    BY <1>4, <2>3
<1>6. CASE PromotionFails(q) \/ LockFirst(q) \/ Refused(q) \/ EnterReceive(q) \/ StreamGone(q)
  <2>1. \/ req' = Returned(q, "release", 0) \/ req' = Goto(q, "locking")
        \/ req' = Returned(q, "failed", 0) \/ req' = Goto(q, "receiving")
    BY <1>6 DEF PromotionFails, LockFirst, Refused, EnterReceive, StreamGone
  <2>2. QED
    BY <1>1, <2>1
<1>7. CASE BeginRequest(q)
  <2> DEFINE i == Min(Slots \ InUseSlots(h2))
             next == IF req[q].body > 0 THEN "sending" ELSE "begun"
  <2>1. \/ req' = Returned(q, "failed", 0)
        \/ req' = [req EXCEPT ![q].pc = next, ![q].id = h2.nextStreamId, ![q].slot = i]
    BY <1>7 DEF BeginRequest
  <2>2. PICK t : t = [req[q] EXCEPT !.pc = next, !.id = h2.nextStreamId, !.slot = i]
    OBVIOUS
  <2>3. t.pc # "succeeded"
    BY <1>0, <2>2 DEF NoRequest
  <2> HIDE DEF i, next
  <2>4. req' = Returned(q, "failed", 0) \/ req' = [req EXCEPT ![q] = t]
    BY <1>0, <2>1, <2>2
  <2>5. QED
    BY <1>1, <1>4, <2>3, <2>4
<1>8. CASE SendBody(q)
  <2>1. PICK n : n = Min({req[q].body, Available(q)})
    OBVIOUS
  <2>2. \/ req' = Goto(q, "begun") \/ req' = Returned(q, "failed", 0)
        \/ req' = [req EXCEPT ![q].body = @ - n]
    BY <1>8, <2>1 DEF SendBody, EndSending
  <2>3. req' = [req EXCEPT ![q].body = @ - n] => req'[r].pc = req[r].pc
    BY <1>0 DEF NoRequest
  <2>4. QED
    BY <1>1, <2>2, <2>3
<1>9. CASE WaitForWindow(q) \/ ReadResponse(q)
  BY <1>3, <1>9 DEF WaitForWindow, ReadResponse
<1>10. CASE ResponseComplete(q)
  <2>1. req' = Returned(q, "succeeded", 0)
    BY <1>10 DEF ResponseComplete
  <2>2. Writes(q)
    BY <1>0, <2>1, ReturnedFacts
  <2>3. r = q
    BY <2>2 DEF Writes
  <2>4. QED
    BY <1>10, <2>3
<1>11. CASE ReleaseStream(q)
  <2>1. req' = [req EXCEPT ![q].pc = "failed", ![q].id = 0]
    BY <1>11 DEF ReleaseStream
  <2>2. PICK t : t = [req[q] EXCEPT !.pc = "failed", !.id = 0]
    OBVIOUS
  <2>3. req' = [req EXCEPT ![q] = t] /\ t.pc # "succeeded"
    BY <1>0, <2>1, <2>2 DEF NoRequest
  <2>4. QED
    BY <1>4, <2>3
<1>12. QED
  BY <1>5, <1>6, <1>7, <1>8, <1>9, <1>10, <1>11 DEF Step

\* A stream that is closed and none of whose frames failed has its whole response.
LEMMA CompletedIsWhole ==
    ASSUME H2Inv, NEW r \in Requests, ResponseComplete(r)
    PROVE  LET id == req[r].id
               s  == h2.streams[FindActiveStream(h2, id)]
           IN  id \in h2.ledger.faulted \/
               /\ id \in h2.ledger.ended
               /\ s.BodyLength = h2.ledger.content[id]
               /\ s.ResponseContentLength \in {-1, s.BodyLength}
<1> DEFINE id == req[r].id
           i == FindActiveStream(h2, id)
<1>1. ConnInv(h2) /\ i # 0 /\ h2.streams[i].StreamClosed
  BY DEF H2Inv, ResponseComplete
<1>2. i \in Slots /\ id # 0 /\ Holds(h2, i, id)
  BY <1>1, FindFinds DEF ConnInv
<1> HIDE DEF i
<1>3. i \in Live(h2) /\ h2.streams[i].streamId = id
  BY <1>2 DEF Live, InUseSlots, Holds
<1>4. Whole(h2, i)
  BY <1>1, <1>3 DEF ConnInv
<1>5. id \notin h2.ledger.faulted =>
        /\ id \in h2.ledger.ended /\ h2.streams[i].BodyLength = h2.ledger.content[id]
        /\ h2.streams[i].ResponseContentLength \in {-1, h2.streams[i].BodyLength}
  BY <1>1, <1>3, <1>4 DEF Whole, Told
<1>6. QED
  BY <1>5 DEF i

\* ReceiveResponse reports success only for a whole response: the peer ended the stream, all of its content is
\* stored and it is as long as content-length declared, unless a frame of the stream failed under another reader.
THEOREM SuccessIsAlwaysComplete == Spec => SuccessIsComplete
<1> DEFINE Complete == \A r \in Requests : req'[r].pc = "succeeded" /\ ~At(r, "succeeded") =>
        LET id == req[r].id
            s  == h2.streams[FindActiveStream(h2, id)]
        IN  id \in h2.ledger.faulted \/
            /\ id \in h2.ledger.ended
            /\ s.BodyLength = h2.ledger.content[id]
            /\ s.ResponseContentLength \in {-1, s.BodyLength}
<1>1. H2Inv /\ [Next]_vars => [Complete]_vars
  <2> SUFFICES ASSUME H2Inv, Next PROVE Complete
    OBVIOUS
  <2>1. PICK q \in Requests : Start(q) \/ PromotionFails(q) \/ Step(q)
    BY DEF Next
  <2>2. ASSUME NEW r \in Requests, req'[r].pc = "succeeded", ~At(r, "succeeded")
        PROVE  ResponseComplete(r)
    BY <2>1, <2>2, OnlyCompletionSucceeds DEF At
  <2>3. QED
    BY <2>2, CompletedIsWhole
<1>2. QED
  BY <1>1, H2Invariant, PTL DEF Spec, SuccessIsComplete
================================================================================
