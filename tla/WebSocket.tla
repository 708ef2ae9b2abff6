------------------------------ MODULE WebSocket ------------------------------
(***************************************************************************)
(* One KH_WEBSOCKET: the engine's handle (engine/WsEngine.cpp) over a      *)
(* WebSocketClient (client/WebSocketClient.cpp).                           *)
(*                                                                         *)
(* Senders take SendLock and the receiver takes ReceiveLock; Close turns   *)
(* the handle away, waits until no call is inside, and closes.  A frame    *)
(* leaves in two writes, its header and its payload, and arrives in two    *)
(* pieces, of which a read brings one or two.  The peer chooses a frame    *)
(* when it is read, and parses ours as it is written.                      *)
(*                                                                         *)
(* A payload is a sequence of units, one unit to a frame buffer: "char" is *)
(* whole text, "lead" ends inside a character that "tail" finishes, "bad"  *)
(* is the payload of a Close frame that must be refused.                   *)
(*                                                                         *)
(* Duplex lets a receive run while a send does; without it the caller      *)
(* keeps the two apart, as the documents advise.                           *)
(***************************************************************************)
EXTENDS Integers, Sequences, FiniteSets, SequencesExt

CONSTANTS
    Senders,            \* threads that send
    Duplex,             \* receive and send at the same time
    Messages,           \* data frames callers send
    Callers,            \* how a handle is used: bounds on calls that send and on frames the peer
                        \* sends (none if it is endless, but then nobody records what is received),
                        \* the frames it sends, AutoReplyPing, and whether HTTP/2 is below
    MaxMessage,         \* MaxMessageBytes, in units
    MaxControlFrames,   \* KhWsMaxControlFramesPerReceive
    MaxAddresses        \* addresses ResolveAll returns

VARIABLES engine, client, op, wire, peer, hist

wsVars == <<engine, client, op, wire, peer, hist>>

Receiver == "receiver"
Closer == "closer"
Threads == Senders \cup {Receiver, Closer}
Frame(o, fin, body) == [op |-> o, fin |-> fin, body |-> body]
NoFrame == Frame("none", TRUE, <<>>)
CloseFrame == Frame("close", TRUE, <<>>)

ASSUME WebSocketAssumption ==
    /\ Duplex \in BOOLEAN /\ IsFiniteSet(Senders) /\ Senders \cap {Receiver, Closer, "none"} = {}
    /\ \A m \in Messages : m.fin \in BOOLEAN /\ m.body \in Seq({"char", "lead", "tail"})
    /\ \A c \in Callers : {c.sends, c.frames} \subseteq Nat /\ {c.endless, c.autoReply, c.h2} \subseteq BOOLEAN
    /\ {MaxMessage, MaxControlFrames, MaxAddresses} \subseteq Nat

Idle == [pc |-> "idle", type |-> "none", fin |-> TRUE, rest |-> <<>>, first |-> TRUE,
         len |-> 0, utf |-> 0, next |-> 0, frame |-> NoFrame, then |-> "none"]

\* A client before its first ConnectAddress.
FreshClient ==
    [connected |-> FALSE, closeSent |-> FALSE, closeReceived |-> FALSE, transport |-> FALSE,
     sendOpen |-> FALSE, sendOp |-> "none", utf |-> 0,
     recvOpen |-> FALSE, recvOp |-> "none", recvBody |-> <<>>, inbuf |-> <<>>, kept |-> 0,
     controls |-> 0]

Init ==
    /\ engine \in [phase : {"connecting"}, connected : {FALSE}, transportClosed : {FALSE},
                   fragOpen : {FALSE}, fragType : {"none"}, fragLen : {0}, utf : {0},
                   use : Callers, address : {0}, confirm : {FALSE},
                   sends : {0}]
    /\ client = FreshClient
    /\ op = [t \in Threads |-> Idle]
    /\ wire = [half |-> "none", open |-> FALSE, text |-> FALSE, utf |-> 0, closed |-> FALSE, bad |-> FALSE]
    /\ peer = [half |-> NoFrame, sent |-> <<>>]
    /\ hist = [got |-> <<>>, torn |-> FALSE, lost |-> FALSE, misuse |-> FALSE]

-----------------------------------------------------------------------------
(***************************************************************************)
(* Text.  A state is how many units of a character are missing, Missing it *)
(* behind the first units of a body; Bad is the failure of                 *)
(* AdvanceUtf8State.                                                       *)
(***************************************************************************)
Bad == 9
Missing(state, body, i) == IF i = 0 THEN state ELSE IF body[i] = "lead" THEN 1 ELSE 0
AdvanceUtf8State(state, body, fin) ==
    LET after == Missing(state, body, Len(body))
    IN IF \/ state = Bad \/ (fin /\ after # 0)
          \/ \E i \in DOMAIN body : (body[i] = "tail") # (Missing(state, body, i - 1) = 1)
       THEN Bad ELSE after
IsValidUtf8(body) == AdvanceUtf8State(0, body, TRUE) = 0

-----------------------------------------------------------------------------
(***************************************************************************)
(* Shared pieces of the client and of the engine.                          *)
(***************************************************************************)
ResetSendFragment(c) == [c EXCEPT !.sendOpen = FALSE, !.sendOp = "none", !.utf = 0]

\* Mutant: the length of the last message stays.
BadResetReceiveFragment(c) == [c EXCEPT !.recvOpen = FALSE, !.recvOp = "none"]
ResetReceiveFragment(c) == [c EXCEPT !.recvOpen = FALSE, !.recvOp = "none", !.recvBody = <<>>]
CloseTransport(c) == [c EXCEPT !.transport = FALSE]
ResetWebSocketSendFragmentState(e) == [e EXCEPT !.fragOpen = FALSE, !.fragType = "none", !.fragLen = 0, !.utf = 0]

\* The end of Close, after the closing handshake if there is one.
ClientClosed(c) ==
    CloseTransport(ResetReceiveFragment(ResetSendFragment(
        [c EXCEPT !.connected = FALSE, !.closeSent = FALSE, !.closeReceived = FALSE,
                  !.inbuf = <<>>, !.kept = 0])))

Inside(t) == op[t].pc \notin {"idle", "drain"}

\* Mutant: only senders are counted.
BadInFlight == Cardinality({t \in Senders : Inside(t)})

\* KhWebSocketBeginOperation and KhWebSocketEndOperation count the calls inside.
InFlight == Cardinality({t \in Senders \cup {Receiver} : Inside(t)})
HoldsSendLock(t) == op[t].pc \in {"write", "write2", "wait"} /\ t \in Senders

\* The caller's own serialisation of receives and sends.
MayEnter(t) == Duplex \/ IF t = Receiver THEN \A s \in Senders : ~Inside(s) ELSE ~Inside(Receiver)

Return(t) == op' = [op EXCEPT ![t] = Idle]
Write(t, frame, then) ==
    op' = [op EXCEPT ![t].pc = "write", ![t].frame = frame, ![t].then = then]

\* CloseWebSocketTransport by thread t, which leaves its call afterwards: the client announces
\* the close when it still can.
CloseWebSocketTransport(t, c) ==
    LET announce == ~engine.transportClosed /\ c.connected /\ ~c.closeSent /\ ~c.closeReceived
    IN /\ engine' = [ResetWebSocketSendFragmentState(engine) EXCEPT
                        !.connected = FALSE, !.transportClosed = TRUE,
                        !.phase = IF t = Closer /\ ~announce THEN "freed" ELSE @]
       /\ IF announce THEN /\ client' = c
                           /\ Write(t, CloseFrame, "announce")
          ELSE /\ client' = IF t = Closer \/ ~engine.transportClosed THEN ClientClosed(c) ELSE c
               /\ Return(t)

\* A call that ends with an error; the engine gives up the connection on a terminal one.
LeaveWith(t, c, terminal) ==
    IF terminal THEN CloseWebSocketTransport(t, c)
    ELSE /\ client' = c
         /\ UNCHANGED engine
         /\ Return(t)

\* The rest of Close once the closing handshake is over or has been skipped.
CloseEnds(t, c) ==
    /\ client' = ClientClosed(c)
    /\ engine' = [engine EXCEPT !.phase = IF t = Closer THEN "freed" ELSE @]
    /\ Return(t)

-----------------------------------------------------------------------------
(***************************************************************************)
(* Connect.                                                                *)
(***************************************************************************)
\* ConnectAddress fails.  A candidate is tried once more with TLS 1.2 before the next address.
ConnectFails(candidate) ==
    /\ engine.phase = "connecting"
    /\ LET again == candidate /\ ~engine.confirm
           address == IF again THEN engine.address ELSE engine.address + 1
       IN engine' = [engine EXCEPT !.address = address, !.confirm = again,
                                   !.phase = IF address >= MaxAddresses THEN "freed" ELSE @]
    /\ client' = ClientClosed(client)
    /\ UNCHANGED <<op, wire, peer, hist>>

\* ConnectAddress and the rest of CompleteWebSocketConnect: bytes behind the answer are frames already.
ConnectSucceeds(early, f) ==
    /\ engine.phase = "connecting"
    /\ early <= 2 /\ (early > 0 => engine.use.endless \/ engine.use.frames > 0)
    /\ engine.use.h2 => early = 0
    /\ engine' = [engine EXCEPT !.phase = "open", !.connected = TRUE, !.address = 0, !.confirm = FALSE]
    /\ client' = [FreshClient EXCEPT !.connected = TRUE, !.transport = TRUE,
                                     !.inbuf = [i \in 1..early |-> f]]
    /\ peer' = [half |-> IF early = 1 THEN f ELSE NoFrame, sent |-> IF early = 0 \/ engine.use.endless THEN <<>> ELSE <<f>>]
    /\ UNCHANGED <<op, wire, hist>>

\* RegisterActiveWebSocketHandle finds no room: the client is closed without an announcement.
ConnectUnregistered ==
    /\ engine.phase = "connecting"
    /\ engine' = [engine EXCEPT !.phase = "freed"]
    /\ client' = ClientClosed(client)
    /\ UNCHANGED <<op, wire, peer, hist>>

-----------------------------------------------------------------------------
(***************************************************************************)
(* Send.                                                                   *)
(***************************************************************************)
Text(type, fragType) == type = "text" \/ (type = "cont" /\ fragType = "text")
StartOf(type, state) == IF type = "cont" THEN state ELSE 0

\* ValidateWebSocketOutgoingText, on the fragment as the engine knows it.
ValidateOutgoingText(m) ==
    IF Text(m.op, engine.fragType) THEN AdvanceUtf8State(StartOf(m.op, engine.utf), m.body, m.fin) ELSE 0

\* A call up to SendLock; one that is refused changes nothing.
SendBegin(t, m) ==
    /\ op[t].pc = "idle" /\ engine.phase = "open" /\ MayEnter(t)
    /\ engine.sends < engine.use.sends
    /\ engine.connected
    /\ StartOf(m.op, engine.fragLen) + Len(m.body) <= MaxMessage
    /\ ValidateOutgoingText(m) # Bad
    /\ op' = [op EXCEPT ![t] = [Idle EXCEPT !.pc = "lock", !.type = m.op, !.fin = m.fin, !.rest = m.body,
                                            !.len = Len(m.body), !.utf = ValidateOutgoingText(m)]]
    /\ engine' = [engine EXCEPT !.sends = @ + 1]
    /\ UNCHANGED <<client, wire, peer, hist>>

SendText(t, m) == m.op = "text" /\ ~engine.fragOpen /\ SendBegin(t, m)
SendBinary(t, m) == m.op = "binary" /\ ~engine.fragOpen /\ SendBegin(t, m)
SendContinuation(t, m) == m.op = "cont" /\ engine.fragOpen /\ SendBegin(t, m)

\* KhWebSocketSendControl up to SendLock.
SendControlBegin(t, type) ==
    /\ op[t].pc = "idle" /\ engine.phase = "open" /\ MayEnter(t)
    /\ engine.sends < engine.use.sends
    /\ engine.connected
    /\ op' = [op EXCEPT ![t] = [Idle EXCEPT !.pc = "lock", !.type = type]]
    /\ engine' = [engine EXCEPT !.sends = @ + 1]
    /\ UNCHANGED <<client, wire, peer, hist>>

\* The next frame of a message longer than a frame buffer.
ChunkFrame(o) ==
    Frame(IF o.first THEN o.type ELSE "cont", o.fin /\ Len(o.rest) <= 1, SubSeq(o.rest, 1, IF o.rest = <<>> THEN 0 ELSE 1))

\* Mutant: the client trusts the engine to keep fragments in order.
BadRefusesFrame(o, next) == client.closeSent \/ client.closeReceived \/ next = Bad

\* What WebSocketClient::SendFrame refuses, now that SendLock is held.
RefusesFrame(o, next) ==
    \/ (o.type = "cont") # client.sendOpen
    \/ client.closeSent \/ client.closeReceived
    \/ next = Bad

\* WebSocketClient::SendFrame up to its first frame.
SendFrame(t) ==
    LET o == op[t]
        next == IF Text(o.type, client.sendOp)
                THEN AdvanceUtf8State(StartOf(o.type, client.utf), o.rest, o.fin) ELSE 0
    IN /\ o.pc = "lock" /\ o.type \notin {"ping", "pong"}
       /\ \A s \in Senders : ~HoldsSendLock(s)
       /\ IF ~client.connected THEN LeaveWith(t, client, TRUE)
          ELSE IF RefusesFrame(o, next) THEN LeaveWith(t, client, FALSE)
          ELSE /\ op' = [op EXCEPT ![t].pc = "write", ![t].next = next, ![t].then = "data",
                                   ![t].frame = ChunkFrame(o)]
               /\ UNCHANGED <<engine, client>>
       /\ UNCHANGED <<wire, peer, hist>>

\* WebSocketClient::SendControlFrame
SendControlFrame(t) ==
    /\ op[t].pc = "lock" /\ op[t].type \in {"ping", "pong"}
    /\ \A s \in Senders : ~HoldsSendLock(s)
    /\ IF ~client.connected THEN LeaveWith(t, client, TRUE)
       ELSE IF client.closeSent \/ client.closeReceived THEN LeaveWith(t, client, FALSE)
       ELSE /\ Write(t, Frame(op[t].type, TRUE, <<>>), "control")
            /\ UNCHANGED <<engine, client>>
    /\ UNCHANGED <<wire, peer, hist>>

\* CompleteWebSocketSendFragment, under SendLock but with what was computed before it.
CompleteSendFragment(o) ==
    LET type == IF engine.fragOpen THEN engine.fragType ELSE o.type
    IN engine' = IF o.fin THEN ResetWebSocketSendFragmentState(engine)
                 ELSE [engine EXCEPT !.fragOpen = TRUE, !.fragType = type,
                                     !.fragLen = (IF engine.fragOpen THEN @ ELSE 0) + o.len,
                                     !.utf = IF type = "text" THEN o.utf ELSE 0]

\* A frame of the message has left: send the next, or record the fragment.
DataSent(t) ==
    LET o == [op[t] EXCEPT !.rest = SubSeq(@, 2, Len(@)), !.first = FALSE]
    IN IF o.rest # <<>>
       THEN /\ op' = [op EXCEPT ![t] = [o EXCEPT !.pc = "write", !.frame = ChunkFrame(o)]]
            /\ UNCHANGED <<engine, client>>
       ELSE /\ client' = IF o.fin THEN ResetSendFragment(client)
                         ELSE [client EXCEPT !.sendOpen = TRUE, !.utf = o.next,
                                             !.sendOp = IF o.type = "cont" THEN @ ELSE o.type]
            /\ CompleteSendFragment(o)
            /\ Return(t)

-----------------------------------------------------------------------------
(***************************************************************************)
(* Receive.                                                                *)
(***************************************************************************)
\* ReceiveMessage up to its loop.
ReceiveStarts(c) == [c EXCEPT !.kept = Len(c.inbuf), !.controls = 0]

\* KhWebSocketReceive, under ReceiveLock.
ReceiveBegin ==
    /\ op[Receiver].pc = "idle" /\ engine.phase = "open" /\ MayEnter(Receiver)
    /\ engine.connected
    /\ IF ~client.connected \/ client.closeReceived THEN LeaveWith(Receiver, client, TRUE)
       ELSE /\ op' = [op EXCEPT ![Receiver].pc = "read"]
            /\ client' = ReceiveStarts(client)
            /\ UNCHANGED engine
    /\ UNCHANGED <<wire, peer, hist>>

IsData(f) == f.op \in {"text", "binary"}
TooBig(f) == (IsData(f) \/ f.op = "cont") /\ Len(client.recvBody) + Len(f.body) > MaxMessage

\* DecodeFrameHeader refuses reserved bits, unknown opcodes, masked frames and bad control frames.
DecodeFrameHeader(f) == f.op # "junk"

\* TryDecodeCompleteFrame: the header is there with the first piece, the frame with the second.
HeaderDecoded == client.inbuf # <<>>
Complete == Len(client.inbuf) >= 2

\* What the header of a frame is refused for before its payload is read.
HeaderFault(f) ==
    ~DecodeFrameHeader(f) \/ (IsData(f) /\ client.recvOpen) \/ (f.op = "cont" /\ ~client.recvOpen) \/ TooBig(f)

\* A read brings the next piece or the next two of what the peer sends.
Pieces(f, two) ==
    IF peer.half # NoFrame THEN IF two THEN <<peer.half, f>> ELSE <<peer.half>>
    ELSE IF two THEN <<f, f>> ELSE <<f>>

\* An HTTP/2 stream may end with what is read, and brings nothing more.
ReadRaw(f, two, end) ==
    LET starts == peer.half = NoFrame \/ two
        recorded == starts /\ ~engine.use.endless
    IN /\ recorded => Len(peer.sent) < engine.use.frames
       /\ starts = (f # NoFrame)
       /\ end => engine.use.h2
       /\ client.transport /\ ~client.closeReceived
       /\ client' = [client EXCEPT !.inbuf = @ \o Pieces(f, two),
                                   !.connected = @ /\ ~end, !.closeReceived = end]
       /\ peer' = [sent |-> IF recorded THEN Append(peer.sent, f) ELSE peer.sent,
                   half |-> IF starts /\ (two = (peer.half # NoFrame)) THEN f ELSE NoFrame]

ReceiveRaw(f, two, end) ==
    /\ op[Receiver].pc = "read"
    /\ ~Complete /\ (HeaderDecoded => ~HeaderFault(client.inbuf[1]))
    /\ ReadRaw(f, two, end)
    /\ UNCHANGED <<engine, op, wire, hist>>

\* What was read of an unfinished frame is not recorded when a call returns early.
Forgotten(c) == [c EXCEPT !.inbuf = SubSeq(@, 1, c.kept)]
Forgets(c) == Len(c.inbuf) > c.kept

\* The transport fails or times out, hands over garbage, or has no memory.
ReceiveFails(why) ==
    /\ op[Receiver].pc = "read"
    /\ ~Complete /\ (HeaderDecoded => ~HeaderFault(client.inbuf[1]))
    /\ IF why = "terminal"
       THEN LeaveWith(Receiver, CloseTransport([client EXCEPT !.connected = FALSE, !.closeReceived = TRUE]), TRUE)
       ELSE LeaveWith(Receiver, Forgotten(client), why = "invalid")
    /\ hist' = [hist EXCEPT !.misuse = @ \/ ~client.transport, !.lost = @ \/ Forgets(client)]
    /\ UNCHANGED <<wire, peer>>

\* FailConnectionWithClose up to its Close frame.
FailConnectionWithClose ==
    LET c == ResetReceiveFragment(ResetSendFragment(client))
    IN IF c.connected /\ ~c.closeSent
       THEN /\ client' = c
            /\ Write(Receiver, CloseFrame, "fail")
            /\ UNCHANGED engine
       ELSE LeaveWith(Receiver, CloseTransport([c EXCEPT !.connected = FALSE, !.closeReceived = TRUE]), TRUE)

\* The rest of the buffer moves to its front.
Consumed(c) == [c EXCEPT !.inbuf = SubSeq(@, 3, Len(@)), !.kept = Len(c.inbuf) - 2]

\* What the engine hands to its caller: nothing when the callback or StoreWebSocketMessage fails.
Received(f, stored) ==
    IF engine.use.endless THEN hist.got ELSE Append(hist.got, IF stored THEN f ELSE NoFrame)
Deliver(f, stored) == hist' = [hist EXCEPT !.got = Received(f, stored)]

\* DecodeFramePayload would overwrite the fragments in the caller's buffer, so the payload of a control
\* frame between them is dropped.
ControlPayload(f) == IF client.recvOpen THEN <<>> ELSE f.body

\* A Ping or a Pong.  One that does not fit the caller's buffer stays where it is.
ReceivePing(f, stored) ==
    LET c == [client EXCEPT !.controls = @ + 1]
    IN IF c.controls > MaxControlFrames THEN FailConnectionWithClose /\ UNCHANGED hist
       ELSE IF engine.use.autoReply
            THEN /\ IF f.op = "ping" THEN client' = c /\ Write(Receiver, Frame("pong", TRUE, f.body), "pong")
                    ELSE client' = Consumed(c) /\ UNCHANGED op
                 /\ UNCHANGED <<engine, hist>>
       ELSE IF Len(ControlPayload(f)) > MaxMessage
            THEN /\ LeaveWith(Receiver, Forgotten(IF f.op = "ping" THEN ResetReceiveFragment(c) ELSE c), TRUE)
                 /\ UNCHANGED hist
       ELSE /\ LeaveWith(Receiver, Consumed(c), FALSE)
            /\ Deliver(Frame(f.op, TRUE, ControlPayload(f)), stored)

\* ReceiveMessage behind the Close frame f, which is delivered if it fits: the engine gives up the
\* connection unless its caller could not take the frame.
Fits(f) == Len(f.body) <= MaxMessage
CloseTaken(t, c, f, stored) ==
    LeaveWith(t, CloseTransport([Consumed(c) EXCEPT !.connected = FALSE]), stored \/ ~Fits(f))

ReceiveClose(f, stored) ==
    LET c == [ResetReceiveFragment(client) EXCEPT !.closeReceived = TRUE]
    IN IF f.body = <<"bad">> THEN FailConnectionWithClose /\ UNCHANGED hist
       ELSE IF c.closeSent
            THEN /\ CloseTaken(Receiver, c, f, stored)
                 /\ IF Fits(f) THEN Deliver(f, stored) ELSE UNCHANGED hist
       ELSE IF ~c.connected THEN LeaveWith(Receiver, Forgotten(c), FALSE) /\ UNCHANGED hist
       ELSE /\ client' = c
            /\ Write(Receiver, f, "reply")
            /\ UNCHANGED <<engine, hist>>

ReceiveData(f, stored) ==
    LET body == client.recvBody \o f.body
        type == IF client.recvOpen THEN client.recvOp ELSE f.op
        c == [Consumed(client) EXCEPT !.recvOp = type, !.recvBody = body]
    IN IF ~f.fin
       THEN /\ client' = [c EXCEPT !.recvOpen = TRUE]
            /\ UNCHANGED <<engine, op, hist>>
       ELSE IF type = "text" /\ ~IsValidUtf8(body) THEN FailConnectionWithClose /\ UNCHANGED hist
       ELSE /\ client' = ResetReceiveFragment(c)
            /\ UNCHANGED engine
            /\ Return(Receiver)
            /\ Deliver(Frame(type, TRUE, body), stored)

\* ReceiveMessage takes the frame at the front of the buffer.
ReceiveFrame(stored) ==
    /\ op[Receiver].pc = "read"
    /\ HeaderDecoded
    /\ LET f == client.inbuf[1]
       IN \/ HeaderFault(f) /\ FailConnectionWithClose /\ UNCHANGED hist
          \/ /\ ~HeaderFault(f) /\ Complete
             /\ \/ f.op \in {"ping", "pong"} /\ ReceivePing(f, stored)
                \/ f.op = "close" /\ ReceiveClose(f, stored)
                \/ (IsData(f) \/ f.op = "cont") /\ ReceiveData(f, stored)
    /\ UNCHANGED <<wire, peer>>

-----------------------------------------------------------------------------
(***************************************************************************)
(* EncodeAndSendFrame, for every thread that writes.                       *)
(***************************************************************************)
\* The peer's parser, at the end of a frame.
Parsed(w, f) ==
    LET data == f.op \in {"text", "binary", "cont"}
        text == IF f.op = "cont" THEN w.text ELSE f.op = "text"
        utf == IF data /\ text THEN AdvanceUtf8State(StartOf(f.op, w.utf), f.body, f.fin) ELSE 0
    IN [w EXCEPT !.half = "none", !.closed = @ \/ f.op = "close",
                 !.bad = @ \/ w.closed \/ (data /\ (f.op = "cont") # w.open) \/ utf = Bad,
                 !.open = IF data THEN ~f.fin ELSE @,
                 !.text = IF data THEN text ELSE @,
                 !.utf = IF data THEN utf ELSE @]

WriteHead(t) ==
    /\ op[t].pc = "write" /\ client.transport
    /\ wire' = [wire EXCEPT !.half = t, !.bad = @ \/ wire.half # "none"]
    /\ op' = [op EXCEPT ![t].pc = "write2"]
    /\ UNCHANGED <<engine, client, peer, hist>>

\* What a finished frame is followed by.
AfterWrite(t, stored) ==
    LET closing == [client EXCEPT !.closeSent = TRUE]
        then == op[t].then
    IN CASE then = "data" -> DataSent(t)
         [] then = "control" -> LeaveWith(t, client, FALSE)
         [] then = "pong" -> /\ client' = Consumed(client)
                             /\ op' = [op EXCEPT ![t].pc = "read"]
                             /\ UNCHANGED engine
         [] then = "reply" -> CloseTaken(t, closing, op[t].frame, stored)
         [] then = "fail" -> LeaveWith(t, CloseTransport([closing EXCEPT !.connected = FALSE, !.closeReceived = TRUE]), TRUE)
         [] then = "closeEx" -> CloseWebSocketTransport(t, ClientClosed(closing))
         [] then = "announce" -> /\ client' = closing
                                 /\ op' = [op EXCEPT ![t].pc = "wait"]
                                 /\ UNCHANGED engine

WriteTail(t, stored) ==
    /\ op[t].pc = "write2"
    /\ wire' = IF wire.half = t THEN Parsed(wire, op[t].frame) ELSE [wire EXCEPT !.bad = TRUE]
    /\ AfterWrite(t, stored)
    /\ hist' = [hist EXCEPT !.misuse = @ \/ ~client.transport,
                            !.got = IF op[t].then = "reply" /\ Fits(op[t].frame)
                                    THEN Received(op[t].frame, stored) ELSE @]
    /\ UNCHANGED peer

\* No memory or random bytes for a masking key, or the transport fails.
WriteFails(t, terminal) ==
    LET c == IF ~terminal THEN client
             ELSE IF engine.use.h2 THEN [client EXCEPT !.connected = FALSE]
             ELSE CloseTransport([client EXCEPT !.connected = FALSE, !.closeReceived = TRUE])
        then == op[t].then
    IN /\ op[t].pc \in (IF terminal THEN {"write", "write2"} ELSE {"write"})
       /\ CASE then \in {"data", "control"} -> LeaveWith(t, c, terminal)
            [] then = "pong" -> LeaveWith(t, Forgotten(c), terminal)
            [] then = "reply" -> LeaveWith(t, Forgotten(c), terminal)
            [] then = "fail" -> LeaveWith(t, CloseTransport([c EXCEPT !.connected = FALSE, !.closeReceived = TRUE]), TRUE)
            [] then = "closeEx" -> CloseWebSocketTransport(t, c)
            [] then = "announce" -> CloseEnds(t, c)
       /\ hist' = [hist EXCEPT !.misuse = @ \/ (op[t].pc = "write2" /\ ~client.transport),
                               !.torn = @ \/ (then = "data" /\ ~terminal /\ ~op[t].first),
                               !.lost = @ \/ (then = "pong" /\ ~terminal /\ Forgets(client))]
       /\ UNCHANGED <<wire, peer>>

-----------------------------------------------------------------------------
(***************************************************************************)
(* Close.                                                                  *)
(***************************************************************************)
\* TryCloseActiveWebSocketHandle
CloseBegin ==
    /\ op[Closer].pc = "idle" /\ engine.phase = "open"
    /\ engine' = [engine EXCEPT !.phase = "closing"]
    /\ op' = [op EXCEPT ![Closer].pc = "drain"]
    /\ UNCHANGED <<client, wire, peer, hist>>

\* WaitForWebSocketDrain
Drained == InFlight = 0

\* KhWebSocketClose after the drain.
Close ==
    /\ op[Closer].pc = "drain" /\ Drained
    /\ CloseWebSocketTransport(Closer, client)
    /\ UNCHANGED <<wire, peer, hist>>

\* KhWebSocketCloseEx after the drain: its own Close frame first.
CloseEx ==
    /\ op[Closer].pc = "drain" /\ Drained
    /\ IF client.connected /\ ~client.closeSent /\ ~client.closeReceived
       THEN /\ Write(Closer, CloseFrame, "closeEx")
            /\ UNCHANGED <<engine, client>>
       ELSE CloseWebSocketTransport(Closer, ClientClosed(client))
    /\ UNCHANGED <<wire, peer, hist>>

\* WaitForPeerClose: frames other than Close are skipped.
WaitReads(t, f, two, end) ==
    /\ op[t].pc = "wait" /\ ~Complete
    /\ ReadRaw(f, two, end)
    /\ UNCHANGED <<engine, op, wire, hist>>
WaitSkips(t) ==
    /\ op[t].pc = "wait" /\ Complete
    /\ client.inbuf[1].op \notin {"close", "junk"}
    /\ client' = Consumed(client)
    /\ UNCHANGED <<engine, op, wire, peer, hist>>

\* Mutant: no deadline.
BadWaitEnds(t) ==
    /\ op[t].pc = "wait" /\ Complete /\ client.inbuf[1].op = "close"
    /\ CloseEnds(t, client)
    /\ UNCHANGED <<wire, peer, hist>>

\* The peer's Close, a refused frame, a failure, or three seconds.
WaitEnds(t) ==
    /\ op[t].pc = "wait"
    /\ CloseEnds(t, client)
    /\ UNCHANGED <<wire, peer, hist>>

-----------------------------------------------------------------------------
ThreadStep(t) ==
    \/ SendFrame(t) \/ SendControlFrame(t)
    \/ WriteHead(t)
    \/ \E stored \in (IF op[t].then = "reply" THEN BOOLEAN ELSE {TRUE}) : WriteTail(t, stored)
    \/ \E terminal \in BOOLEAN : WriteFails(t, terminal)
    \/ \E f \in engine.use.peer \cup {NoFrame}, two, end \in BOOLEAN : WaitReads(t, f, two, end)
    \/ WaitSkips(t) \/ WaitEnds(t)

ReceiverStep ==
    \/ \E f \in engine.use.peer \cup {NoFrame}, two, end \in BOOLEAN : ReceiveRaw(f, two, end)
    \/ \E why \in {"terminal", "invalid", "local"} : ReceiveFails(why)
    \/ \E stored \in BOOLEAN : ReceiveFrame(stored)

Calls ==
    \/ \E candidate \in BOOLEAN : ConnectFails(candidate)
    \/ \E early \in 0..2, f \in engine.use.peer : ConnectSucceeds(early, f)
    \/ ConnectUnregistered
    \/ \E t \in Senders, m \in Messages : SendText(t, m) \/ SendBinary(t, m) \/ SendContinuation(t, m)
    \/ \E t \in Senders, type \in {"ping", "pong"} : SendControlBegin(t, type)
    \/ ReceiveBegin
    \/ CloseBegin

Next == Calls \/ ReceiverStep \/ Close \/ CloseEx \/ \E t \in Threads : ThreadStep(t)

\* Every thread goes on; three seconds pass, whatever the peer sends.
Fairness ==
    /\ WF_wsVars(ReceiverStep)
    /\ WF_wsVars(Close \/ CloseEx)
    /\ \A t \in Threads : WF_wsVars(ThreadStep(t)) /\ WF_wsVars(WaitEnds(t))

Spec == Init /\ [][Next]_wsVars /\ Fairness

-----------------------------------------------------------------------------
(***************************************************************************)
(* Properties.                                                             *)
(***************************************************************************)
\* What the peer reads from this client is RFC 6455: frames one after the other, fragments of one
\* message only between its first and last, text that is text, and nothing behind a Close frame.
\* A message given up between two of its frames for want of memory is the exception, see the README.
WireWellFormed == hist.torn \/ ~wire.bad

\* The frames the peer sent that end something a caller receives, in order.
Ends(f) == ((IsData(f) \/ f.op = "cont") /\ f.fin) \/ f.op = "close" \/ (~engine.use.autoReply /\ f.op \in {"ping", "pong"})
EndIndices == {i \in DOMAIN peer.sent : Ends(peer.sent[i])}

\* The message that ends with frame i: what the data frames since its first one hold.  A control frame
\* comes with its payload, or without when a message is open around it.
MessageAt(i) ==
    LET f == peer.sent[i]
        data == {j \in 1..i : IsData(peer.sent[j]) \/ peer.sent[j].op = "cont"}
        starts == {j \in data : IsData(peer.sent[j])}
        first == Max(starts)
        parts == SelectSeq(SubSeq(peer.sent, first, i), LAMBDA g : IsData(g) \/ g.op = "cont")
        between == data # {} /\ ~peer.sent[Max(data)].fin
    IN IF i \in data THEN Frame(peer.sent[first].op, TRUE, FlattenSeq([k \in DOMAIN parts |-> parts[k].body]))
       ELSE IF f.op # "close" /\ between THEN Frame(f.op, TRUE, <<>>)
       ELSE f

\* What callers receive is what the peer sent, each message whole, in order and once, whatever was
\* read together, behind the answer to the opening handshake, or between fragments.  A message whose
\* callback or copy fails is gone, but keeps its place.  From the moment a receive returns early inside
\* a frame without giving up the connection (no memory, a failed Pong) nothing is claimed: it forgets
\* what it had read of the frame, and the next one begins in the middle.
MessagesWhole ==
    \/ hist.lost
    \/ \A k \in DOMAIN hist.got :
          \E i \in EndIndices :
             /\ Cardinality({j \in EndIndices : j <= i}) = k
             /\ hist.got[k] \in {MessageAt(i), NoFrame}

\* No thread uses the transport, or the client, after another has freed it.
TransportOutlivesUse ==
    /\ ~hist.misuse
    /\ engine.phase = "freed" => \A t \in Threads : ~Inside(t)

\* ReceiveMessage reads an empty fragment that is not the last: the one frame it neither counts nor
\* returns with.
EmptyFragmentRead == \E two, end \in BOOLEAN : ReceiveRaw(Frame("cont", FALSE, <<>>), two, end)

\* A Close that has begun frees the handle, whatever the other threads do and whatever the peer sends,
\* for ever if it likes: a receive inside ends with its message, at MaxMessageBytes or behind its last
\* control frame, and the wait for the peer's Close at its deadline.  The exception is a peer that sends
\* empty fragments without end, for which ReceiveMessage has no limit.
ClosingEnds ==
    <>[][~EmptyFragmentRead]_wsVars => (engine.phase = "closing" ~> engine.phase = "freed")
=============================================================================
