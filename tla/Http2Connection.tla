--------------------------- MODULE Http2Connection ---------------------------
(***************************************************************************)
(* One HTTP/2 connection shared by the requests that hold stream leases on *)
(* it (http2/Http2Connection.cpp, http2/Http2Stream.cpp), after Initialize *)
(* has exchanged the first SETTINGS.                                       *)
(*                                                                         *)
(* Two mutexes guard it.  stateLock_ is held for each look at the stream   *)
(* table and, by a request with a body, from BeginRequest's start to its   *)
(* end; receiveLock_ is held by whoever reads frames.  A reader waits for  *)
(* the network without stateLock_ and takes it to dispatch what it read,   *)
(* so a read and its dispatch are one step: nobody else reads, and what    *)
(* arrives is the peer's choice anyway.                                    *)
(*                                                                         *)
(* A header block is reduced to what the code makes of it, lengths are     *)
(* small numbers, and the peer sends what it likes.  The field ledger is   *)
(* history: the peer's side of the flow control accounts.                  *)
(***************************************************************************)
EXTENDS Integers, FiniteSets, FiniteSetsExt

CONSTANTS
    NumRequests,            \* calls, numbered in the order in which they start
    Capacity,               \* activeStreamCapacity_
    InitialWindow,          \* Http2InitialWindowSize
    MaxWindow,              \* Http2MaxWindowSize
    FirstPeerWindow,        \* SETTINGS_INITIAL_WINDOW_SIZE of the peer's first SETTINGS
    PeerWindows,            \* the values it may change it to
    StreamLimits,           \* SETTINGS_MAX_CONCURRENT_STREAMS values of the peer
    Kinds,                  \* requests: "GET", "HEAD", and "POST" with a body
    BodyLength,             \* length of the body of a POST
    DataSizes,              \* DATA frames: pairs of content and payload length
    Blocks,                 \* what header blocks may hold, see BlockTypes
    ContentLengths,         \* content-length values, -1 for none
    MaxFrames,              \* KH_HARD_MAX_CONNECTION_FRAMES
    MaxControlSignals,      \* KH_HARD_MAX_CONNECTION_CONTROL_SIGNALS
    MaxContinuationFrames,  \* Http2MaxContinuationFrames
    MaxEmptyContinuationFrames,
    HeaderBlockCapacity,    \* headerBlockCapacity_, in fragments
    ResponseCapacity,       \* what the caller's response body sink takes
    Faults                  \* "network": the transport may fail or time out

\* final: a response; empty: one whose status forbids a body (204, 304);
\* interim: 1xx; switch: 101; fields: no :status, as trailers are;
\* many: more fields than the caller has room for; garbled: HPACK refuses it.
BlockTypes == {"final", "empty", "interim", "switch", "fields", "many", "garbled"}

ASSUME Http2Assumption ==
    /\ NumRequests \in Nat \ {0} /\ Capacity \in Nat \ {0}
    /\ InitialWindow \in 1 .. MaxWindow /\ MaxWindow \in Nat
    /\ PeerWindows \cup {FirstPeerWindow} \subseteq 0 .. MaxWindow /\ StreamLimits \subseteq Nat
    /\ Kinds \subseteq {"GET", "HEAD", "POST"} /\ BodyLength \in Nat \ {0}
    /\ \A d \in DataSizes : d[1] \in 0 .. d[2] /\ d[2] \in Nat
    /\ Blocks \subseteq BlockTypes /\ ContentLengths \subseteq Nat \cup {-1}
    /\ {MaxFrames, MaxControlSignals, HeaderBlockCapacity} \subseteq Nat
    /\ {MaxContinuationFrames, MaxEmptyContinuationFrames} \subseteq Nat
    /\ ResponseCapacity \in Nat /\ Faults \subseteq {"network"}

VARIABLES
    h2,          \* the connection: settings, windows, stream table, counters
    stateLock,   \* who holds stateLock_, 0 for nobody
    receiveLock, \* who holds receiveLock_
    req          \* the callers

vars == <<h2, stateLock, receiveLock, req>>

Requests == 1 .. NumRequests
Slots == 1 .. Capacity
StreamIds == {2 * n - 1 : n \in Requests}
WindowUpdateThreshold == InitialWindow \div 2

\* Http2ActiveStream: Http2Stream and Http2ResponseFrameState.
NoStream ==
    [InUse |-> FALSE, streamId |-> 0, state |-> "Idle",
     localWindow |-> InitialWindow, remoteWindow |-> InitialWindow,
     StreamClosed |-> FALSE, ResponseHeadersReceived |-> FALSE,
     ResponseDataReceived |-> FALSE, ResponseContentLength |-> -1,
     RequestForbidsResponseBody |-> FALSE, ResponseBodyForbidden |-> FALSE,
     ExpectingContinuation |-> FALSE, PendingHeaderEndStream |-> FALSE,
     ContinuationFrames |-> 0, EmptyContinuationFrames |-> 0, ResponseHeaderBlockLen |-> 0, BodyLength |-> 0]

\* The peer's books, per stream and, under 0, for the connection.
NewLedger ==
    [allowed |-> [i \in StreamIds \cup {0} |-> IF i = 0 THEN InitialWindow ELSE 0],
     credit  |-> [i \in StreamIds \cup {0} |-> InitialWindow],
     content |-> [i \in StreamIds |-> 0],
     ended   |-> {},
     faulted |-> {}]
\* allowed: DATA it still takes; credit: DATA it may still send; content: what it
\* sent; ended: streams it ended; faulted: streams a frame of which failed here.

NoRequest == [pc |-> "idle", kind |-> "GET", body |-> 0, slot |-> 0, id |-> 0, foreign |-> FALSE]

\* responseHeaderBlock_: whose fragments it holds.  What is left in it of a block
\* that has been used is not kept.
NoBlock == [k \in 1 .. HeaderBlockCapacity |-> 0]

\* Initialize has returned STATUS_SUCCESS.
Init ==
    /\ \E n \in StreamLimits :
          h2 = [up |-> TRUE, goAwaySent |-> FALSE, goAwayReceived |-> FALSE,
                nextStreamId |-> 1, framesRead |-> 0, controlSignals |-> 0,
                InitialWindowSize |-> FirstPeerWindow, MaxConcurrentStreams |-> n,
                connectionSendWindow |-> InitialWindow,
                connectionRecvWindow |-> InitialWindow, connectionRecvConsumed |-> 0,
                streams |-> [i \in Slots |-> NoStream],
                block |-> NoBlock,
                ledger |-> NewLedger]
    /\ stateLock = 0 /\ receiveLock = 0
    /\ req = [r \in Requests |-> NoRequest]

(***************************************************************************)
(* What a step of the code leaves: the connection and a status.            *)
(***************************************************************************)
Result(c, s) == [c |-> c, status |-> s]
Failed(res) == res.status # "success"

\* SendGoAway: only a GOAWAY that went out counts.
SendGoAway(c) == IF c.up THEN [c EXCEPT !.goAwaySent = TRUE] ELSE c

ConnectionError(c, s) == Result(SendGoAway(c), s)

\* SendRaw, when the whole answer has been written to the transport.
SendRaw(c) == Result(c, IF c.up THEN "success" ELSE "disconnected")

-----------------------------------------------------------------------------
\* FindActiveStream: the slot of a stream, 0 for none.
FindActiveStream(c, id) ==
    IF id = 0 THEN 0
    ELSE Max({0} \cup {i \in Slots : c.streams[i].InUse /\ c.streams[i].streamId = id})

FindContinuationStream(c) ==
    Max({0} \cup {i \in Slots : c.streams[i].InUse /\ c.streams[i].ExpectingContinuation})

InUseSlots(c) == {i \in Slots : c.streams[i].InUse}

\* ReserveActiveStream's test, against MaxConcurrentStreamsLocked.
CanReserve(c) ==
    Cardinality(InUseSlots(c)) < Min({c.MaxConcurrentStreams, Capacity})

\* ReserveActiveStream, AllocateStreamId and Initialize of the stream.
ReserveActiveStream(c, i, head) ==
    [c EXCEPT !.nextStreamId = @ + 2,
              !.streams[i] = [NoStream EXCEPT
                  !.InUse = TRUE, !.streamId = c.nextStreamId,
                  !.remoteWindow = c.InitialWindowSize,
                  !.RequestForbidsResponseBody = head,
                  !.ResponseBodyForbidden = head],
              !.ledger.allowed[c.nextStreamId] = c.InitialWindowSize]

\* The peer's books on a stream are closed when this side has forgotten it.
Forget(c, id) ==
    [c EXCEPT !.ledger.allowed[id] = 0, !.ledger.credit[id] = InitialWindow,
              !.ledger.content[id] = 0, !.ledger.ended = @ \ {id},
              !.ledger.faulted = @ \ {id}]

ReleaseActiveStream(c, id) ==
    LET i == FindActiveStream(c, id)
    IN  IF i = 0 THEN c ELSE Forget([c EXCEPT !.streams[i] = NoStream], id)

-----------------------------------------------------------------------------
\* Http2Stream::ReceiveHeaders and ReceiveData: the next state, or "refused".
AfterReceive(st, end) ==
    CASE st = "Open"            -> IF end THEN "HalfClosedRemote" ELSE "Open"
      [] st = "HalfClosedLocal" -> IF end THEN "Closed" ELSE "HalfClosedLocal"
      [] OTHER                  -> "refused"

\* Http2Stream::ReceiveHeaders also opens an idle stream.
ReceiveHeaders(st, end) ==
    IF st = "Idle" THEN IF end THEN "HalfClosedRemote" ELSE "Open"
                   ELSE AfterReceive(st, end)

\* Http2Stream::SendData's next state.
AfterSend(st, end) ==
    IF ~end THEN st
    ELSE IF st = "HalfClosedRemote" THEN "Closed" ELSE "HalfClosedLocal"

-----------------------------------------------------------------------------
\* WINDOW_UPDATE of the connection, once enough has been consumed, and of a stream.
ConnectionWindowUpdate(c) ==
    IF c.connectionRecvConsumed >= WindowUpdateThreshold
    THEN [c EXCEPT !.connectionRecvWindow = @ + c.connectionRecvConsumed,
                   !.connectionRecvConsumed = 0,
                   !.ledger.credit[0] = @ + c.connectionRecvConsumed]
    ELSE c

StreamWindowUpdate(c, i, len) ==
    [c EXCEPT !.streams[i].localWindow = @ + len,
              !.ledger.credit[c.streams[i].streamId] = @ + len]

\* SendWindowUpdateIfNeeded for slot i, 0 when the stream has ended.
SendWindowUpdateIfNeeded(c, i, len) ==
    LET due  == c.connectionRecvConsumed >= WindowUpdateThreshold
        more == i # 0 /\ len > 0
        c1   == ConnectionWindowUpdate(c)
    IN  IF (due \/ more) /\ ~c.up THEN Result(c, "disconnected")
        ELSE Result(IF more THEN StreamWindowUpdate(c1, i, len) ELSE c1, "success")

\* mutant: the last DATA frame is not held against the declared length
ProcessDataUnchecked(c, i, f) ==
    LET s    == c.streams[i]
        next == AfterReceive(s.state, f.end)
        c1   == [c EXCEPT !.streams[i].localWindow = @ - f.len, !.streams[i].state = next,
                          !.connectionRecvWindow = @ - f.len,
                          !.connectionRecvConsumed = @ + f.len]
        c2   == [c1 EXCEPT !.streams[i].BodyLength = @ + f.content,
                           !.streams[i].ResponseDataReceived = TRUE]
        upd  == SendWindowUpdateIfNeeded(c2, IF f.end THEN 0 ELSE i, f.len)
    IN  IF \/ ~s.ResponseHeadersReceived \/ s.ResponseBodyForbidden \/ next = "refused"
           \/ f.len > s.localWindow \/ f.len > c.connectionRecvWindow
           \/ s.BodyLength + f.content > ResponseCapacity \/ Failed(upd)
        THEN Result(c, "invalid")
        ELSE Result([upd.c EXCEPT !.streams[i].StreamClosed = @ \/ f.end], "success")

\* Http2Stream::ReceiveData.
ReceiveData(c, i, f) ==
    [c EXCEPT !.streams[i].localWindow = @ - f.len,
              !.streams[i].state = AfterReceive(c.streams[i].state, f.end)]

\* The frame fits the connection's window too.
DrawWindow(c, f) == [c EXCEPT !.connectionRecvWindow = @ - f.len]

\* The body sink has taken the content.
StoreData(c, i, f) ==
    [c EXCEPT !.streams[i].BodyLength = @ + f.content, !.streams[i].ResponseDataReceived = TRUE,
              !.connectionRecvConsumed = @ + f.len]

CloseOnEnd(c, i, end) == [c EXCEPT !.streams[i].StreamClosed = @ \/ end]

\* ProcessResponseFrame, DATA.
ProcessData(c, i, f) ==
    LET s    == c.streams[i]
        c1   == ReceiveData(c, i, f)
        c2   == DrawWindow(c1, f)
        body == s.BodyLength + f.content
        upd  == SendWindowUpdateIfNeeded(StoreData(c2, i, f), IF f.end THEN 0 ELSE i, f.len)
    IN  IF ~s.ResponseHeadersReceived \/ s.ResponseBodyForbidden THEN Result(c, "invalid")
        ELSE IF AfterReceive(s.state, f.end) = "refused" THEN Result(c, "state")
        ELSE IF f.len # 0 /\ f.len > s.localWindow THEN Result(c, "invalid")
        ELSE IF f.len > c.connectionRecvWindow THEN ConnectionError(c1, "invalid")
        ELSE IF s.ResponseContentLength >= 0 /\ body > s.ResponseContentLength THEN Result(c2, "invalid")
        ELSE IF body > ResponseCapacity THEN Result(c2, "tooSmall")
        ELSE IF Failed(upd) THEN upd
        ELSE IF f.end /\ s.ResponseContentLength >= 0 /\ body # s.ResponseContentLength
             THEN Result(upd.c, "invalid")
        ELSE Result(CloseOnEnd(upd.c, i, f.end), "success")

\* Http2Stream::ReceiveHeaders.
OpenForHeaders(c, i) ==
    [c EXCEPT !.streams[i].state =
        ReceiveHeaders(c.streams[i].state, c.streams[i].PendingHeaderEndStream)]

\* What a response says of its body.
ApplyResponse(c, i, f) ==
    [c EXCEPT !.streams[i].ResponseContentLength = f.clen,
              !.streams[i].ResponseBodyForbidden =
                  c.streams[i].RequestForbidsResponseBody \/ f.block = "empty"]

HeadersApplied(c, i) ==
    [c EXCEPT !.streams[i].ResponseHeadersReceived = TRUE,
              !.streams[i].ResponseHeaderBlockLen = 0]

BlockDone(c, i) ==
    [c EXCEPT !.streams[i].ResponseHeaderBlockLen = 0, !.block = NoBlock,
              !.streams[i].PendingHeaderEndStream = FALSE]

\* The end of a header block: decode, validate and apply it.
FinishHeaders(c0, i, f) ==
    LET s    == c0.streams[i]
        c    == OpenForHeaders(c0, i)
        end  == s.PendingHeaderEndStream
        trailers == s.ResponseHeadersReceived
        c1   == IF trailers THEN c ELSE ApplyResponse(c, i, f)
        c2   == HeadersApplied(c1, i)
        clen == c1.streams[i].ResponseContentLength
    IN  IF c.streams[i].state = "refused" THEN Result(c0, "state")
        ELSE IF trailers /\ ~(s.ResponseDataReceived /\ end) THEN Result(c, "invalid")
        ELSE IF f.block = "garbled" THEN ConnectionError(c, "invalid")
        ELSE IF trailers # (f.block = "fields") THEN Result(c, "invalid")
        ELSE IF f.block \in {"interim", "switch"}
             THEN IF f.block = "switch" \/ end THEN Result(c, "invalid")
                                               ELSE Result(BlockDone(c, i), "success")
        ELSE IF ~trailers /\ f.block = "many" THEN Result(c, "tooSmall")
        ELSE IF ~trailers /\ c1.streams[i].ResponseBodyForbidden /\ clen > 0 THEN Result(c1, "invalid")
        ELSE IF end /\ clen >= 0 /\ s.BodyLength # clen THEN Result(c2, "invalid")
        ELSE Result(CloseOnEnd(BlockDone(c2, i), i, end), "success")

\* ProcessResponseFrame, CONTINUATION: how many, and how many empty ones in a row.
CountContinuation(c, i, f) ==
    IF f.type = "CONTINUATION"
    THEN [c EXCEPT !.streams[i].ContinuationFrames = @ + 1,
                   !.streams[i].EmptyContinuationFrames = IF f.len = 0 THEN @ + 1 ELSE 0]
    ELSE [c EXCEPT !.streams[i].PendingHeaderEndStream = f.end]

\* The fragment is put behind the ones the stream has in the buffer.
AppendFragment(c, i, f) ==
    LET len == c.streams[i].ResponseHeaderBlockLen
    IN  [c EXCEPT !.streams[i].ResponseHeaderBlockLen = len + f.len,
                  !.block = [k \in DOMAIN c.block |->
                       IF k \in len + 1 .. len + f.len THEN f.streamId ELSE c.block[k]]]

ExpectContinuation(c, i, more) ==
    [c EXCEPT !.streams[i].ExpectingContinuation = more,
              !.streams[i].ContinuationFrames = 0, !.streams[i].EmptyContinuationFrames = 0]

\* ProcessResponseFrame, HEADERS and CONTINUATION: collect the fragments in the
\* buffer all streams share.
ProcessHeaders(c0, i, f) ==
    LET c  == CountContinuation(c0, i, f)
        s  == c.streams[i]
        c1 == AppendFragment(c, i, f)
    IN  IF \/ s.ContinuationFrames > MaxContinuationFrames
           \/ s.EmptyContinuationFrames > MaxEmptyContinuationFrames
        THEN ConnectionError(c, "invalid")
        ELSE IF s.ResponseHeaderBlockLen + f.len > HeaderBlockCapacity THEN ConnectionError(c, "tooSmall")
        ELSE IF f.endHeaders THEN FinishHeaders(ExpectContinuation(c1, i, FALSE), i, f)
        ELSE IF f.type = "HEADERS" THEN Result(ExpectContinuation(c1, i, TRUE), "success")
        ELSE Result(c1, "success")

\* ProcessResponseFrame, RST_STREAM: Http2Stream::Reset forgets the stream's id.
ProcessReset(c, i, f) ==
    Result(Forget([c EXCEPT !.streams[i].streamId = 0, !.streams[i].state = "Idle",
                            !.streams[i].localWindow = InitialWindow,
                            !.streams[i].remoteWindow = InitialWindow,
                            !.streams[i].StreamClosed = TRUE], f.streamId),
           IF f.code = 0 /\ c.streams[i].ResponseHeadersReceived
           THEN "success" ELSE "disconnected")

\* ProcessResponseFrame, WINDOW_UPDATE: Http2Stream::IncreaseRemoteWindow.
ProcessWindowUpdate(c, i, f) ==
    IF f.inc = 0 \/ c.streams[i].remoteWindow > MaxWindow - f.inc
    THEN Result(c, "invalid")
    ELSE Result([c EXCEPT !.streams[i].remoteWindow = @ + f.inc,
                          !.ledger.allowed[f.streamId] = @ + f.inc], "success")

ProcessResponseFrame(c, i, f) ==
    CASE f.type = "DATA"          -> ProcessData(c, i, f)
      [] f.type = "RST_STREAM"    -> ProcessReset(c, i, f)
      [] f.type = "WINDOW_UPDATE" -> ProcessWindowUpdate(c, i, f)
      [] OTHER                    -> ProcessHeaders(c, i, f)

-----------------------------------------------------------------------------
\* AdjustActiveStreamRemoteWindows: slot after slot, until one overflows.
AdjustActiveStreamRemoteWindows(c, delta) ==
    LET over  == {i \in InUseSlots(c) :
                     c.streams[i].remoteWindow + delta \notin -MaxWindow .. MaxWindow}
        first == Min(over \cup {Capacity + 1})
        c1    == [c EXCEPT !.streams = [i \in Slots |->
                    IF c.streams[i].InUse /\ i < first
                    THEN [c.streams[i] EXCEPT !.remoteWindow = c.streams[i].remoteWindow + delta]
                    ELSE c.streams[i]]]
    IN  IF over = {} THEN SendRaw(c1) ELSE ConnectionError(c1, "invalid")

\* mutant: new windows are for new streams
HandleSettingsForNewStreams(c, f) ==
    LET known == {c.streams[i].streamId : i \in InUseSlots(c)} \ {0}
    IN  SendRaw([c EXCEPT !.InitialWindowSize = f.window, !.MaxConcurrentStreams = f.limit,
                          !.ledger.allowed = [n \in DOMAIN @ |->
                              IF n \in known THEN @[n] + f.window - c.InitialWindowSize
                                             ELSE @[n]]])

\* HandleConnectionFrame: SETTINGS, acknowledged once it has been applied.  The
\* peer has moved the windows of all streams it knows.
HandleSettings(c, f) ==
    LET delta == f.window - c.InitialWindowSize
        known == {c.streams[i].streamId : i \in InUseSlots(c)} \ {0}
    IN  AdjustActiveStreamRemoteWindows(
            [c EXCEPT !.InitialWindowSize = f.window, !.MaxConcurrentStreams = f.limit,
                      !.ledger.allowed = [n \in DOMAIN c.ledger.allowed |->
                           c.ledger.allowed[n] + IF n \in known THEN delta ELSE 0]],
            delta)

\* HandleConnectionFrame: WINDOW_UPDATE of the connection.
HandleWindowUpdate(c, f) ==
    IF f.inc = 0 \/ c.connectionSendWindow > MaxWindow - f.inc
    THEN ConnectionError(c, "invalid")
    ELSE Result([c EXCEPT !.connectionSendWindow = @ + f.inc,
                          !.ledger.allowed[0] = @ + f.inc], "success")

\* HandleConnectionFrame: GOAWAY.  DispatchFrame names no active stream, so a
\* stream beyond the peer's last one is not told.
HandleGoAway(c, f) ==
    Result([c EXCEPT !.goAwayReceived = TRUE], IF f.code = 0 THEN "success" ELSE "disconnected")

HandleConnectionFrame(c0, f) ==
    LET c == [c0 EXCEPT !.controlSignals = @ + 1]   \* RecordConnectionControlSignal
    IN  IF c0.controlSignals >= MaxControlSignals THEN ConnectionError(c0, "invalid")
        ELSE CASE f.type = "SETTINGS"      -> HandleSettings(c, f)
               [] f.type = "WINDOW_UPDATE" -> HandleWindowUpdate(c, f)
               [] f.type = "GOAWAY"        -> HandleGoAway(c, f)
               [] f.type = "PING"          -> SendRaw(c)

-----------------------------------------------------------------------------
\* DispatchFrame.  INVALID stands for the frames no state admits: a wrong
\* target, PUSH_PROMISE, SETTINGS whose payload is refused.
DispatchFrame(c, f) ==
    LET k == FindContinuationStream(c)
        i == FindActiveStream(c, f.streamId)
        expected == IF k = 0 THEN f.type # "CONTINUATION"
                    ELSE f.type = "CONTINUATION" /\ f.streamId = c.streams[k].streamId
    IN  IF f.type = "INVALID" \/ ~expected THEN ConnectionError(c, "invalid")
        ELSE IF f.streamId = 0 THEN HandleConnectionFrame(c, f)
        ELSE IF i = 0 THEN Result(c, IF f.type = "WINDOW_UPDATE" /\ f.inc = 0
                                     THEN "invalid" ELSE "success")
        ELSE ProcessResponseFrame(c, i, f)

\* The peer's books on a frame it sent; a stream that is gone has none.
PeerSent(c, f) ==
    LET id == f.streamId
        known == FindActiveStream(c, id) # 0
        spent(l) == [l EXCEPT !.credit[0] = @ - f.len]
        data(l)  == [spent(l) EXCEPT !.credit[id] = @ - f.len,
                         !.content[id] = @ + IF id \in l.ended THEN 0 ELSE f.content]
        close(l) == [l EXCEPT !.ended = @ \cup IF f.end THEN {id} ELSE {}]
    IN  CASE f.type = "DATA" /\ known    -> [c EXCEPT !.ledger = close(data(c.ledger))]
          [] f.type = "DATA" /\ ~known   -> [c EXCEPT !.ledger = spent(c.ledger)]
          [] f.type = "HEADERS" /\ known -> [c EXCEPT !.ledger = close(c.ledger)]
          [] OTHER -> c

\* RecordReceivedFrame, then DispatchFrame.
ReceiveFrame(c, f) ==
    LET res   == DispatchFrame(PeerSent([c EXCEPT !.framesRead = @ + 1], f), f)
        known == FindActiveStream(res.c, f.streamId) # 0
    IN  IF c.framesRead >= MaxFrames THEN ConnectionError(c, "invalid")
        ELSE IF Failed(res) /\ known
             THEN Result([res.c EXCEPT !.ledger.faulted = @ \cup {f.streamId}], res.status)
             ELSE res

\* The frames of a peer.  INVALID stands for every frame that no state admits;
\* those that are only counted (ACKs, PRIORITY, unknown types) are left out.
PeerFrames ==
    LET ends == {[endHeaders |-> FALSE, block |-> "none", clen |-> -1]}
                \cup {[endHeaders |-> TRUE, block |-> b, clen |-> -1] : b \in Blocks \ {"final"}}
                \cup {[endHeaders |-> TRUE, block |-> "final", clen |-> n] : n \in ContentLengths}
    IN  UNION {
        {[type |-> "HEADERS", streamId |-> i, len |-> 1, end |-> e,
          endHeaders |-> h.endHeaders, block |-> h.block, clen |-> h.clen] :
            i \in StreamIds, e \in BOOLEAN, h \in ends},
        {[type |-> "CONTINUATION", streamId |-> i, len |-> l,
          endHeaders |-> h.endHeaders, block |-> h.block, clen |-> h.clen] :
            i \in StreamIds, l \in 0 .. 1, h \in ends},
        {[type |-> "DATA", streamId |-> i, content |-> d[1], len |-> d[2], end |-> e] :
            i \in StreamIds, d \in DataSizes, e \in BOOLEAN},
        {[type |-> "RST_STREAM", streamId |-> i, code |-> n] : i \in StreamIds, n \in 0 .. 1},
        {[type |-> "WINDOW_UPDATE", streamId |-> i, inc |-> n] :
            i \in StreamIds \cup {0}, n \in 0 .. 1},
        {[type |-> "SETTINGS", streamId |-> 0, window |-> w, limit |-> n] :
            w \in PeerWindows, n \in StreamLimits},
        {[type |-> "GOAWAY", streamId |-> 0, code |-> n] : n \in 0 .. 1},
        {[type |-> "PING", streamId |-> 0], [type |-> "INVALID", streamId |-> 0]}}

\* What it may send now: a frame for any stream it has seen, or for none.  A
\* CONTINUATION nobody expects is refused whatever it holds, as INVALID is.
Frames(c) ==
    {f \in PeerFrames : /\ f.streamId < c.nextStreamId
                        /\ f.type = "CONTINUATION" => FindContinuationStream(c) # 0}

-----------------------------------------------------------------------------
(***************************************************************************)
(* The callers: BeginRequest, ReceiveResponse and, when something failed,  *)
(* ReleaseStream, as HttpEngine calls them.                                *)
(***************************************************************************)
At(r, p) == req[r].pc = p

Goto(r, p) == [req EXCEPT ![r].pc = p]

\* The locks of BeginRequest: without a body it takes only stateLock_.
BodyLocksSwapped == <<"state", "receive">>  \* mutant: the other way round

BodyLocks == <<"receive", "state">>

Free(l) == IF l = "receive" THEN receiveLock = 0 ELSE stateLock = 0

\* BeginRequest is called.
Start(r) ==
    /\ At(r, "idle")
    /\ \A q \in 1 .. r - 1 : ~At(q, "idle")
    /\ \E k \in Kinds :
          req' = [req EXCEPT ![r].pc = IF k = "POST" THEN "entering" ELSE "locking",
                             ![r].kind = k, ![r].body = IF k = "POST" THEN BodyLength ELSE 0]
    /\ UNCHANGED <<h2, stateLock, receiveLock>>

LockFirst(r) ==
    /\ At(r, "entering") /\ Free(BodyLocks[1])
    /\ req' = Goto(r, "locking")
    /\ IF BodyLocks[1] = "receive" THEN receiveLock' = r /\ UNCHANGED stateLock
                                   ELSE stateLock' = r /\ UNCHANGED receiveLock
    /\ UNCHANGED h2

\* The last lock is free: stateLock_, when it is the only one.
CanEnter(r) ==
    /\ At(r, "locking")
    /\ Free(IF req[r].kind = "POST" THEN BodyLocks[2] ELSE "state")

\* The call is over, or only the stream's release is left.  foreign is history:
\* the error is that of another request's stream.
Returned(r, p, blame) ==
    [req EXCEPT ![r] = [NoRequest EXCEPT !.pc = p,
                            !.id = IF p = "release" THEN req[r].id ELSE 0,
                            !.foreign = blame \notin {0, req[r].id}]]

Unlocked(l, r) == IF l = r THEN 0 ELSE l

\* BeginRequest finds no free stream.
Refused(r) ==
    /\ CanEnter(r) /\ ~CanReserve(h2)
    /\ req' = Returned(r, "failed", 0)
    /\ receiveLock' = Unlocked(receiveLock, r) /\ stateLock' = Unlocked(stateLock, r)
    /\ UNCHANGED h2

\* The transport now, or lost at this moment.
Transport == IF "network" \in Faults THEN {h2, [h2 EXCEPT !.up = FALSE]} ELSE {h2}

\* BeginRequest up to the HEADERS frame, which ends the stream unless a body
\* follows.  Without a body nothing is waited for and stateLock_ is free again.
BeginRequest(r) ==
    LET i  == Min(Slots \ InUseSlots(h2))
        id == h2.nextStreamId
        more == req[r].body > 0
        begun(c) == [ReserveActiveStream(c, i, req[r].kind = "HEAD")
               EXCEPT !.streams[i].state = IF more THEN "Open" ELSE "HalfClosedLocal"]
    IN  /\ CanEnter(r) /\ CanReserve(h2)
        /\ \E c \in Transport :
              IF c.up
              THEN /\ h2' = begun(c)
                   /\ req' = [req EXCEPT ![r].pc = IF more THEN "sending" ELSE "begun",
                                         ![r].id = id, ![r].slot = i]
                   /\ IF more THEN stateLock' = r /\ receiveLock' = r
                              ELSE UNCHANGED <<stateLock, receiveLock>>
              ELSE /\ h2' = ReleaseActiveStream(begun(c), id)
                   /\ req' = Returned(r, "failed", 0)
                   /\ receiveLock' = Unlocked(receiveLock, r)
                   /\ stateLock' = Unlocked(stateLock, r)

Available(r) == Min({h2.connectionSendWindow, h2.streams[req[r].slot].remoteWindow})

BodyCutShort(c, r) ==
    c.streams[req[r].slot].ResponseHeadersReceived \/ c.streams[req[r].slot].StreamClosed

\* BeginRequest returns c with the status of the last send or dispatch.
EndSending(r, c, s, blame) ==
    /\ h2' = IF s = "success" THEN c ELSE ReleaseActiveStream(c, req[r].id)
    /\ req' = IF s = "success" THEN Goto(r, "begun") ELSE Returned(r, "failed", blame)
    /\ stateLock' = 0 /\ receiveLock' = 0

\* Http2Stream::SendData, and the connection's window with the stream's.
SendData(c, i, id, n, last) ==
    [c EXCEPT !.streams[i].remoteWindow = @ - n, !.streams[i].state = AfterSend(@, last),
              !.connectionSendWindow = @ - n,
              !.ledger.allowed[0] = @ - n, !.ledger.allowed[id] = @ - n]

\* SendRequestFrames: as much of the body as both windows allow.
SendBody(r) ==
    LET n    == Min({req[r].body, Available(r)})
        last == n = req[r].body
        sent(c) == SendData(c, req[r].slot, req[r].id, n, last)
    IN  /\ At(r, "sending") /\ Available(r) > 0
        /\ \E c \in Transport :
              IF last \/ ~c.up
              THEN EndSending(r, sent(c), SendRaw(c).status, 0)
              ELSE /\ h2' = sent(c)
                   /\ req' = [req EXCEPT ![r].body = @ - n]
                   /\ UNCHANGED <<stateLock, receiveLock>>

\* SendRequestFrames waits for window with both locks held and serves all streams.
Waited(r, c, s, blame) ==
    IF s # "success" \/ BodyCutShort(c, r)
    THEN EndSending(r, c, s, blame)
    ELSE h2' = c /\ UNCHANGED <<req, stateLock, receiveLock>>

\* ReceiveResponse goes on after a frame, or returns its error.
Received(r, c, s, blame) ==
    /\ h2' = c
    /\ IF s = "success"
       THEN UNCHANGED <<req, receiveLock>>
       ELSE req' = Returned(r, "release", blame) /\ receiveLock' = 0
    /\ UNCHANGED stateLock

\* What the reader makes of a frame.  It is told the stream that failed, unless
\* the connection is to blame.
Answered(r, c, s, blame) ==
    IF At(r, "sending") THEN Waited(r, c, s, blame) ELSE Received(r, c, s, blame)

\* A frame is read and dispatched.  Where it is answered, the transport may fail
\* under the answer.
DispatchNextFrame(r) ==
    /\ h2.up
    /\ \E f \in Frames(h2) :
          \E c \in IF f.type \in {"DATA", "SETTINGS", "PING"} THEN Transport ELSE {h2} :
              LET res == ReceiveFrame(c, f) IN
              Answered(r, res.c, res.status,
                       IF res.c.goAwaySent \/ ~c.up THEN 0 ELSE f.streamId)

\* ReadFrame fails: the transport is closed, or the wait times out, which closes
\* it (WskSocket::Receive), or the frame is longer than SETTINGS allow.
ReadFails(r) ==
    \/ \E c \in Transport : ~c.up /\ Answered(r, c, "disconnected", 0)
    \/ h2.up /\ Answered(r, SendGoAway(h2), "invalid", 0)

WaitForWindow(r) ==
    /\ At(r, "sending") /\ Available(r) <= 0
    /\ DispatchNextFrame(r) \/ ReadFails(r)

\* HttpEngine: no lease could be had for the stream, so it is given up.
PromotionFails(r) ==
    /\ At(r, "begun")
    /\ req' = Returned(r, "release", 0)
    /\ UNCHANGED <<h2, stateLock, receiveLock>>

\* ReceiveResponse takes receiveLock_.
EnterReceive(r) ==
    /\ At(r, "begun") /\ receiveLock = 0
    /\ receiveLock' = r
    /\ req' = Goto(r, "receiving")
    /\ UNCHANGED <<h2, stateLock>>

\* ReceiveResponse finds its stream closed.
ResponseComplete(r) ==
    LET i == FindActiveStream(h2, req[r].id) IN
    /\ At(r, "receiving") /\ stateLock = 0
    /\ i # 0 /\ h2.streams[i].StreamClosed
    /\ h2' = ReleaseActiveStream(h2, req[r].id)
    /\ req' = Returned(r, "succeeded", 0)
    /\ receiveLock' = 0
    /\ UNCHANGED stateLock

\* ReceiveResponse does not find its stream, or not any more.
StreamGone(r) ==
    /\ At(r, "receiving") /\ stateLock = 0
    /\ FindActiveStream(h2, req[r].id) = 0
    /\ req' = Returned(r, "release", 0)
    /\ receiveLock' = 0
    /\ UNCHANGED <<h2, stateLock>>

\* ReceiveResponse reads a frame, of whatever stream, and dispatches it.
ReadResponse(r) ==
    LET i == FindActiveStream(h2, req[r].id)
    IN  /\ At(r, "receiving") /\ stateLock = 0
        /\ i # 0 /\ ~h2.streams[i].StreamClosed
        /\ DispatchNextFrame(r) \/ ReadFails(r)

\* mutant: the caller returns without releasing its stream
ReleaseStreamForgotten(r) ==
    /\ At(r, "release")
    /\ req' = [req EXCEPT ![r].pc = "failed", ![r].id = 0]
    /\ UNCHANGED <<h2, stateLock, receiveLock>>

\* ReleaseStream after a failure.
ReleaseStream(r) ==
    /\ At(r, "release") /\ stateLock = 0
    /\ h2' = ReleaseActiveStream(h2, req[r].id)
    /\ req' = [req EXCEPT ![r].pc = "failed", ![r].id = 0]
    /\ UNCHANGED <<stateLock, receiveLock>>

Step(r) ==
    \/ LockFirst(r) \/ Refused(r) \/ BeginRequest(r)
    \/ SendBody(r) \/ WaitForWindow(r)
    \/ EnterReceive(r) \/ ReadResponse(r) \/ ResponseComplete(r) \/ StreamGone(r)
    \/ ReleaseStream(r)

Next == \E r \in Requests : Start(r) \/ PromotionFails(r) \/ Step(r)

Spec == Init /\ [][Next]_vars /\ WF_vars(\E r \in Requests : Step(r))

-----------------------------------------------------------------------------
Live(c) == {i \in InUseSlots(c) : c.streams[i].streamId # 0}

Over == {"idle", "succeeded", "failed"}

\* A frame that any reader dispatches is only ever stored through the pointers
\* of a caller that is still inside BeginRequest .. ReleaseStream: a stream the
\* table can find belongs to such a request.  The buffer all streams share holds
\* one header block at a time: what a stream has collected is its own, and nothing
\* is left over from an earlier block.
FramesReachTheirStream ==
    /\ \A i \in Live(h2) : \E r \in Requests :
        req[r].id = h2.streams[i].streamId /\ req[r].pc \notin Over
    /\ Cardinality({i \in InUseSlots(h2) : h2.streams[i].ExpectingContinuation}) <= 1
    /\ \A i \in Live(h2) :
          LET s == h2.streams[i] IN
          s.streamId \notin h2.ledger.faulted =>
              IF s.ExpectingContinuation
              THEN \A k \in 1 .. s.ResponseHeaderBlockLen : h2.block[k] = s.streamId
              ELSE s.ResponseHeaderBlockLen = 0

\* Both ends agree on the windows.  The send windows are the peer's: what its
\* SETTINGS and WINDOW_UPDATEs granted less the DATA sent, whoever read those
\* frames, and the connection's is never overdrawn, as long as the connection has
\* not been given up.  A peer that keeps to the windows it was granted is never
\* accused of a flow control error: our receive windows are at least its own, and
\* it is never granted more than the connection's initial window.
WindowsAgree ==
    /\ h2.up /\ ~h2.goAwaySent =>
        /\ h2.connectionSendWindow = h2.ledger.allowed[0]
        /\ h2.connectionSendWindow >= 0
        /\ \A i \in Live(h2) :
              h2.streams[i].remoteWindow = h2.ledger.allowed[h2.streams[i].streamId]
    /\ h2.connectionRecvWindow >= h2.ledger.credit[0]
    /\ h2.connectionRecvWindow + h2.connectionRecvConsumed <= InitialWindow
    /\ \A i \in Live(h2) :
          h2.streams[i].localWindow >= h2.ledger.credit[h2.streams[i].streamId]

\* A request that reports success has all of its response: the peer ended the
\* stream, every byte of content was delivered, and it was as long as declared,
\* unless a frame of the stream failed and the error went to another reader.
SuccessIsComplete == [][
    \A r \in Requests : req'[r].pc = "succeeded" /\ ~At(r, "succeeded") =>
        LET id == req[r].id
            s  == h2.streams[FindActiveStream(h2, id)]
        IN  id \in h2.ledger.faulted \/
            /\ id \in h2.ledger.ended
            /\ s.BodyLength = h2.ledger.content[id]
            /\ s.ResponseContentLength \in {-1, s.BodyLength}]_vars

\* Every call returns, whatever the peer sends and however the callers interleave.
RequestsReturn == <>[](\A r \in Requests : req[r].pc \in Over)

\* docs/capability-gap-closing-plan-phase2.md: an error of one stream must not
\* reach another stream of the connection.
StreamErrorsStayLocal == \A r \in Requests : ~req[r].foreign
=============================================================================
