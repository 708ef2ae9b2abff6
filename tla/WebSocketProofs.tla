--------------------------- MODULE WebSocketProofs ---------------------------
(***************************************************************************)
(* Proofs about a WebSocket handle whose caller does not receive and send  *)
(* at the same time: the transport outlives its users, and what leaves is  *)
(* a well-formed sequence of frames.  Any threads, messages, peers and     *)
(* limits.                                                                 *)
(***************************************************************************)
EXTENDS WebSocket, FiniteSetTheorems, SequenceTheorems, TLAPS

Units == {"char", "lead", "tail"}
Writing(t) == op[t].pc \in {"write", "write2", "wait"}

\* The fields of the records.
Shapes ==
    /\ DOMAIN engine = {"phase", "connected", "transportClosed", "fragOpen", "fragType", "fragLen", "utf",
                        "use", "address", "confirm", "sends"}
    /\ DOMAIN client = DOMAIN FreshClient
    /\ DOMAIN op = Threads /\ \A t \in Threads : DOMAIN op[t] = DOMAIN Idle
    /\ DOMAIN wire = {"half", "open", "text", "utf", "closed", "bad"}
    /\ DOMAIN hist = {"got", "torn", "lost", "misuse"}

\* Where the threads are, by the phase of the handle and by what they do.
Places ==
    /\ engine.phase \in {"connecting", "open", "closing", "freed"}
    /\ \A s \in Senders : op[s].pc \in {"idle", "lock", "write", "write2"}
    /\ op[Receiver].pc \in {"idle", "read", "write", "write2", "wait"}
    /\ op[Closer].pc \in {"idle", "drain", "write", "write2", "wait"}
    /\ engine.phase \in {"connecting", "freed"} => \A t \in Threads : op[t].pc = "idle"
    /\ engine.phase = "open" => op[Closer].pc = "idle"

\* The frame a call has in hand, by its purpose.
Labelled(o) ==
    o.pc \in {"write", "write2"} =>
        /\ o.then = "data" => o.frame.op \in {"text", "binary", "cont"}
        /\ o.then \in {"control", "pong"} => o.frame.op \in {"ping", "pong"}
        /\ o.then \in {"reply", "fail", "closeEx", "announce"} => o.frame.op = "close"

\* What is written, by whom.
Purposes ==
    /\ \A s \in Senders : Writing(s) => op[s].then \in {"data", "control"}
    /\ Writing(Receiver) => op[Receiver].then \in {"pong", "reply", "fail", "announce"}
    /\ Writing(Closer) => op[Closer].then \in {"closeEx", "announce"}
    /\ \A t \in Threads : Labelled(op[t]) /\ (op[t].pc = "wait" => op[t].then = "announce")

\* The locks, the drain, and a caller that keeps sends and receives apart.
Turns ==
    /\ Inside(Closer) => \A t \in Senders \cup {Receiver} : ~Inside(t)
    /\ Inside(Receiver) => \A s \in Senders : ~Inside(s)
    /\ \A s, t \in Senders : Writing(s) /\ Writing(t) => s = t

\* Whoever reads or writes has a transport, also when an HTTP/2 stream has ended; the engine has given
\* it up only if somebody is announcing that.
Connection ==
    /\ \A t \in Threads : Writing(t) \/ op[t].pc = "read" => client.transport
    /\ \A t \in Threads : op[t].pc \in {"write", "write2", "read"} => ~client.closeSent
    /\ client.connected => client.transport
    /\ client.transport /\ engine.transportClosed => \E t \in Threads : Writing(t) /\ op[t].then = "announce"
    /\ client.transport /\ client.closeSent => \E t \in Threads : op[t].pc = "wait"
    /\ engine.phase = "connecting" => ~client.transport /\ ~engine.transportClosed
    /\ hist.misuse = FALSE

LifeInv == Shapes /\ Places /\ Purposes /\ Turns /\ Connection

\* One frame at a time, and none behind a Close frame.
Framing ==
    /\ engine.phase = "connecting" => wire.half = "none" /\ ~wire.closed /\ wire.open = FALSE
    /\ client.transport =>
        /\ \A t \in Threads : op[t].pc = "write2" => wire.half = t
        /\ (\A t \in Threads : op[t].pc # "write2") => wire.half = "none"
        /\ ~client.closeSent => ~wire.closed

\* The peer's parser w is where the client c takes it to be.
Agreed(w, c) ==
    /\ w.open = c.sendOpen
    /\ w.open => w.text = (c.sendOp = "text") /\ (w.text => w.utf = c.utf)

\* A call as it waits for SendLock.
Asked(o) == o.first = TRUE /\ o.fin \in BOOLEAN /\ o.rest \in Seq(Units)
            /\ o.type \in {"text", "binary", "cont", "ping", "pong"}

\* A message between its frames, the first of which has been sent or not.
Chunking(o, w, c) ==
    /\ o.fin \in BOOLEAN /\ o.rest \in Seq(Units) /\ o.type \in {"text", "binary", "cont"}
    /\ o.first \in BOOLEAN /\ o.frame = ChunkFrame(o) /\ (o.rest = <<>> => o.first)
    /\ (o.type = "cont") = c.sendOpen
    /\ o.first => Agreed(w, c)
    /\ ~o.first => w.open = TRUE /\ w.text = Text(o.type, c.sendOp)
    /\ Text(o.type, c.sendOp) =>
          /\ o.next # Bad
          /\ o.next = AdvanceUtf8State(IF o.first THEN StartOf(o.type, c.utf) ELSE w.utf, o.rest, o.fin)

\* The fragments and their text, unless a message was given up between its frames.
Fragments ==
    /\ ~wire.bad
    /\ client.transport =>
        /\ \/ \E t \in Threads : Writing(t) /\ op[t].then \in {"data", "fail"}
           \/ Agreed(wire, client)
        /\ \A s \in Senders : Writing(s) /\ op[s].then = "data" => Chunking(op[s], wire, client)

WireInv ==
    /\ LifeInv /\ Framing
    /\ \A s \in Senders : op[s].pc = "lock" => Asked(op[s])
    /\ hist.torn \/ Fragments

-----------------------------------------------------------------------------
(***************************************************************************)
(* Steps of one thread, by what they leave of the call and the connection. *)
(***************************************************************************)
\* Nobody but t uses the transport; for the closer, nobody else is inside.
Alone(t) ==
    /\ \A s \in Threads \ {t} : ~Writing(s) /\ op[s].pc # "read"
    /\ t = Closer => \A s \in Senders \cup {Receiver} : ~Inside(s)
    /\ t = Receiver => \A s \in Senders : ~Inside(s)
    /\ t # Closer => op[Closer].pc \in {"idle", "drain"}
    /\ t \in Senders => op[Receiver].pc = "idle"
    /\ engine.phase \in {"open", "closing"}
    /\ t = Closer => engine.phase = "closing"

\* The records keep their fields and the other calls their state.
Kept(t) ==
    /\ DOMAIN engine' = DOMAIN engine /\ DOMAIN client' = DOMAIN FreshClient
    /\ DOMAIN wire' = DOMAIN wire /\ DOMAIN hist' = DOMAIN hist /\ hist'.misuse = hist.misuse
    /\ DOMAIN op' = Threads /\ DOMAIN op'[t] = DOMAIN Idle
    /\ \A s \in Threads \ {t} : op'[s] = op[s]

LEMMA Distinct ==
    /\ Receiver \in Threads /\ Closer \in Threads /\ Senders \subseteq Threads
    /\ Receiver \notin Senders /\ Closer \notin Senders /\ Receiver # Closer
    /\ "none" \notin Threads
BY WebSocketAssumption DEF Threads, Receiver, Closer

LEMMA Frames ==
    ASSUME NEW o, NEW fin, NEW body
    PROVE  Frame(o, fin, body).op = o /\ Frame(o, fin, body).fin = fin /\ Frame(o, fin, body).body = body
           /\ CloseFrame.op = "close"
BY DEF Frame, CloseFrame

\* A thread that reads or writes does so alone.
LEMMA UserAlone ==
    ASSUME LifeInv, NEW t \in Threads, Writing(t) \/ op[t].pc = "read"
    PROVE  Alone(t)
<1>1. CASE t \in Senders
  BY <1>1, Distinct DEF LifeInv, Places, Turns, Alone, Writing, Inside, Threads
<1>2. CASE t = Receiver
  BY <1>2, Distinct DEF LifeInv, Places, Turns, Alone, Writing, Inside, Threads
<1>3. CASE t = Closer
  BY <1>3, Distinct DEF LifeInv, Places, Turns, Alone, Writing, Inside, Threads
<1> QED BY <1>1, <1>2, <1>3 DEF Threads


\* A sender that finds SendLock free.
LEMMA LockAlone ==
    ASSUME LifeInv, NEW t \in Senders, op[t].pc = "lock", \A s \in Senders : ~HoldsSendLock(s)
    PROVE  Alone(t)
BY Distinct DEF LifeInv, Places, Turns, Alone, Writing, Inside, Threads, HoldsSendLock

\* The closer once the handle is drained.
LEMMA DrainedAlone ==
    ASSUME LifeInv, op[Closer].pc = "drain", Drained
    PROVE  Alone(Closer)
<1>1. \A s \in Senders \cup {Receiver} : ~Inside(s)
  <2> DEFINE In == {t \in Senders \cup {Receiver} : Inside(t)}
  <2>1. IsFiniteSet(Senders \cup {Receiver})
    BY WebSocketAssumption, FS_AddElement
  <2>2. IsFiniteSet(In)
    BY <2>1, FS_Subset
  <2>3. In = {}
    BY <2>2, FS_EmptySet DEF Drained, InFlight
  <2> QED BY <2>3
<1>2. engine.phase = "closing"
  BY Distinct DEF LifeInv, Places
<1> QED BY <1>1, <1>2, Distinct DEF LifeInv, Places, Alone, Writing, Inside, Threads

\* A receive that its caller allows.
LEMMA ReceiverAlone ==
    ASSUME LifeInv, ~Duplex, op[Receiver].pc = "idle", engine.phase = "open", MayEnter(Receiver)
    PROVE  Alone(Receiver)
BY Distinct DEF LifeInv, Places, MayEnter, Alone, Writing, Inside, Threads

\* The call of t is over.  The closer frees the handle with it.
Over(t) ==
    /\ op'[t] = Idle /\ engine'.phase = (IF t = Closer THEN "freed" ELSE engine.phase)
    /\ client'.connected => client'.transport
    /\ client'.transport => ~engine'.transportClosed /\ ~client'.closeSent

LEMMA OverLife ==
    ASSUME LifeInv, NEW t \in Threads, Alone(t), Kept(t), Over(t)
    PROVE  LifeInv'
<1>1. Idle.pc = "idle"
  BY DEF Idle
<1>2. op'[t].pc = "idle"
  BY <1>1 DEF Over
<1>3. Shapes'
  BY DEF LifeInv, Shapes, Kept
<1>4. Places'
  <2>1. CASE t = Closer
    BY <1>2, <2>1, Distinct DEF LifeInv, Places, Kept, Over, Alone, Inside, Threads
  <2>2. CASE t # Closer
    BY <1>2, <2>2, Distinct DEF LifeInv, Places, Kept, Over, Alone, Threads
  <2> QED BY <2>1, <2>2
<1>5. Purposes' /\ Turns'
  BY <1>2, Distinct DEF LifeInv, Purposes, Labelled, Turns, Kept, Writing, Inside, Threads
<1>6. Connection'
  <2>1. \A s \in Threads : ~(Writing(s) \/ op[s].pc = "read")'
    BY <1>2 DEF Kept, Alone, Writing
  <2>2. engine'.phase # "connecting"
    BY DEF Over, Alone
  <2> QED BY <2>1, <2>2 DEF LifeInv, Connection, Kept, Over, Writing
<1> QED BY <1>3, <1>4, <1>5, <1>6 DEF LifeInv

\* The call of t goes on at a read, a write or the wait for the peer's Close.
GoesOn(t) ==
    /\ op'[t].pc \in {"read", "write", "write2", "wait"} /\ Labelled(op'[t])
    /\ op'[t].pc = "read" => t = Receiver
    /\ op'[t].pc = "wait" => t \notin Senders /\ op'[t].then = "announce"
    /\ op'[t].pc # "wait" => ~client'.closeSent
    /\ t \in Senders => op'[t].then \in {"data", "control"}
    /\ t = Receiver /\ op'[t].pc # "read" => op'[t].then \in {"pong", "reply", "fail", "announce"}
    /\ t = Closer => op'[t].then \in {"closeEx", "announce"}
    /\ engine'.phase = engine.phase /\ client'.transport
    /\ engine'.transportClosed => op'[t].pc # "read" /\ op'[t].then = "announce"

LEMMA GoesOnLife ==
    ASSUME LifeInv, NEW t \in Threads, Alone(t), Kept(t), GoesOn(t)
    PROVE  LifeInv'
<1>3. Shapes'
  BY DEF LifeInv, Shapes, Kept
<1>4. Places'
  BY Distinct DEF LifeInv, Places, Kept, GoesOn, Alone, Threads
<1>5. Purposes'
  BY Distinct DEF LifeInv, Purposes, Kept, GoesOn, Writing, Threads
<1>6. Turns'
  <2>1. CASE t \in Senders
    BY <2>1, Distinct DEF LifeInv, Turns, Kept, GoesOn, Alone, Writing, Inside, Threads
  <2>2. CASE t = Receiver
    BY <2>2, Distinct DEF LifeInv, Turns, Kept, GoesOn, Alone, Writing, Inside, Threads
  <2>3. CASE t = Closer
    BY <2>3, Distinct DEF LifeInv, Turns, Kept, GoesOn, Alone, Writing, Inside, Threads
  <2> QED BY <2>1, <2>2, <2>3 DEF Threads
<1>7. Connection'
  <2>1. \A s \in Threads \ {t} : ~(Writing(s) \/ op[s].pc = "read")'
    BY DEF Kept, Alone, Writing
  <2>2. engine'.phase # "connecting"
    BY DEF GoesOn, Alone
  <2> QED BY <2>1, <2>2 DEF LifeInv, Connection, Kept, GoesOn, Writing
<1> QED BY <1>3, <1>4, <1>5, <1>6, <1>7 DEF LifeInv

-----------------------------------------------------------------------------
(***************************************************************************)
(* What the shared pieces do to a client.                                  *)
(***************************************************************************)
ClientShape(c) == DOMAIN c = DOMAIN FreshClient

\* c differs from b in nothing that the other threads and the peer's parser go by.
SameFor(c, b) ==
    /\ (c.connected => b.connected) /\ c.closeSent = b.closeSent /\ c.transport = b.transport
    /\ c.sendOpen = b.sendOpen /\ c.sendOp = b.sendOp /\ c.utf = b.utf

LEMMA ClientPieces ==
    ASSUME NEW c, ClientShape(c)
    PROVE  /\ ClientShape(CloseTransport(c)) /\ CloseTransport(c).connected = c.connected /\ CloseTransport(c).transport = FALSE
           /\ ClientShape(ResetSendFragment(c)) /\ ClientShape(ResetReceiveFragment(c))
           /\ ResetSendFragment(c).connected = c.connected /\ ResetSendFragment(c).closeSent = c.closeSent
           /\ ResetSendFragment(c).transport = c.transport
           /\ SameFor(ResetReceiveFragment(c), c)
           /\ ClientShape(Consumed(c)) /\ SameFor(Consumed(c), c)
           /\ ClientShape(Forgotten(c)) /\ SameFor(Forgotten(c), c)
           /\ ClientShape(ReceiveStarts(c)) /\ SameFor(ReceiveStarts(c), c)
<1>1. DOMAIN c = {"connected", "closeSent", "closeReceived", "transport", "sendOpen", "sendOp", "utf",
                  "recvOpen", "recvOp", "recvBody", "inbuf", "kept", "controls"}
  BY DEF ClientShape, FreshClient
<1>2. /\ ClientShape(CloseTransport(c)) /\ CloseTransport(c).connected = c.connected /\ CloseTransport(c).transport = FALSE
      /\ ClientShape(ResetSendFragment(c)) /\ ClientShape(ResetReceiveFragment(c))
      /\ ResetSendFragment(c).connected = c.connected /\ ResetSendFragment(c).closeSent = c.closeSent
      /\ ResetSendFragment(c).transport = c.transport
      /\ SameFor(ResetReceiveFragment(c), c)
  BY <1>1 DEF ClientShape, CloseTransport, ResetSendFragment, ResetReceiveFragment, SameFor
<1>3. /\ ClientShape(Consumed(c)) /\ SameFor(Consumed(c), c)
      /\ ClientShape(Forgotten(c)) /\ SameFor(Forgotten(c), c)
      /\ ClientShape(ReceiveStarts(c)) /\ SameFor(ReceiveStarts(c), c)
  BY <1>1 DEF ClientShape, Consumed, Forgotten, ReceiveStarts, SameFor
<1> QED BY <1>2, <1>3

\* A client after Close.
LEMMA ClosedClient ==
    ASSUME NEW c, ClientShape(c)
    PROVE  ClientShape(ClientClosed(c)) /\ ClientClosed(c).connected = FALSE /\ ClientClosed(c).transport = FALSE
<1> DEFINE a == [c EXCEPT !.connected = FALSE, !.closeSent = FALSE, !.closeReceived = FALSE,
                          !.inbuf = <<>>, !.kept = 0]
<1>1. ClientShape(a) /\ a.connected = FALSE
  BY DEF ClientShape, FreshClient
<1>2. ClientClosed(c) = CloseTransport(ResetReceiveFragment(ResetSendFragment(a)))
  BY DEF ClientClosed
<1> HIDE DEF a
<1> DEFINE b == ResetSendFragment(a)
<1>3. ClientShape(b) /\ b.connected = FALSE
  BY <1>1, ClientPieces
<1> HIDE DEF b
<1> DEFINE d == ResetReceiveFragment(b)
<1>4. ClientShape(d) /\ d.connected = FALSE
  BY <1>3 DEF d, ResetReceiveFragment, ClientShape, FreshClient
<1> HIDE DEF d
<1> QED BY <1>2, <1>4, ClientPieces DEF b, d

\* A client that lost its transport (HandleTransportFailure).
Lost(c) == CloseTransport([c EXCEPT !.connected = FALSE, !.closeReceived = TRUE])

LEMMA LostClient ==
    ASSUME NEW c, ClientShape(c)
    PROVE  ClientShape(Lost(c)) /\ Lost(c).connected = FALSE /\ Lost(c).transport = FALSE
<1>1. ClientShape([c EXCEPT !.connected = FALSE, !.closeReceived = TRUE])
      /\ [c EXCEPT !.connected = FALSE, !.closeReceived = TRUE].connected = FALSE
  BY DEF ClientShape, FreshClient
<1> QED BY <1>1, ClientPieces DEF Lost

-----------------------------------------------------------------------------
(***************************************************************************)
(* The ends of a call.                                                     *)
(***************************************************************************)
\* The call of t announces the close of the client c.
Announces(t, c) ==
    /\ op'[t].pc = "write" /\ op'[t].then = "announce" /\ op'[t].frame = CloseFrame
    /\ client' = c /\ c.connected /\ ~c.closeSent /\ engine'.phase = engine.phase

\* The call of t is over and the client is c, or nothing of it is left.
Ended(t, c) ==
    /\ op'[t] = Idle /\ engine'.phase = (IF t = Closer THEN "freed" ELSE engine.phase)
    /\ client'.connected => client'.transport
    /\ client'.transport => client' = c /\ ~engine'.transportClosed

CallKept(t) ==
    /\ DOMAIN engine' = DOMAIN engine /\ DOMAIN client' = DOMAIN FreshClient
    /\ DOMAIN op' = Threads /\ DOMAIN op'[t] = DOMAIN Idle
    /\ \A s \in Threads \ {t} : op'[s] = op[s]

LEMMA Engines ==
    ASSUME Shapes, NEW p
    PROVE  LET e == [ResetWebSocketSendFragmentState(engine) EXCEPT
                        !.connected = FALSE, !.transportClosed = TRUE, !.phase = p]
           IN DOMAIN e = DOMAIN engine /\ e.phase = p
BY DEF Shapes, ResetWebSocketSendFragmentState

LEMMA Calling ==
    ASSUME Shapes, NEW t \in Threads
    PROVE  /\ \A frame, then : Write(t, frame, then) =>
                 /\ DOMAIN op' = Threads /\ DOMAIN op'[t] = DOMAIN Idle /\ (\A s \in Threads \ {t} : op'[s] = op[s])
                 /\ op'[t].pc = "write" /\ op'[t].then = then /\ op'[t].frame = frame
           /\ Return(t) => /\ DOMAIN op' = Threads /\ DOMAIN op'[t] = DOMAIN Idle
                           /\ (\A s \in Threads \ {t} : op'[s] = op[s]) /\ op'[t] = Idle
<1>1. DOMAIN op = Threads /\ DOMAIN op[t] = {"pc", "type", "fin", "rest", "first", "len", "utf", "next", "frame", "then"}
  BY DEF Shapes, Idle
<1>2. DOMAIN Idle = {"pc", "type", "fin", "rest", "first", "len", "utf", "next", "frame", "then"}
  BY DEF Idle
<1>3. ASSUME NEW frame, NEW then, Write(t, frame, then)
      PROVE  /\ DOMAIN op' = Threads /\ DOMAIN op'[t] = DOMAIN Idle /\ (\A s \in Threads \ {t} : op'[s] = op[s])
             /\ op'[t].pc = "write" /\ op'[t].then = then /\ op'[t].frame = frame
  BY <1>1, <1>2, <1>3 DEF Write
<1>4. ASSUME Return(t)
      PROVE  /\ DOMAIN op' = Threads /\ DOMAIN op'[t] = DOMAIN Idle
             /\ (\A s \in Threads \ {t} : op'[s] = op[s]) /\ op'[t] = Idle
  BY <1>1, <1>4 DEF Return
<1> QED BY <1>3, <1>4

LEMMA ClosingEffect ==
    ASSUME Shapes, NEW t \in Threads, NEW c, ClientShape(c), c.connected => c.transport,
           c.transport => ~engine.transportClosed, CloseWebSocketTransport(t, c)
    PROVE  CallKept(t) /\ (Announces(t, c) \/ (Ended(t, c) /\ ~client'.transport))
<1> DEFINE announce == ~engine.transportClosed /\ c.connected /\ ~c.closeSent /\ ~c.closeReceived
           p == IF t = Closer /\ ~announce THEN "freed" ELSE engine.phase
<1>1. engine' = [ResetWebSocketSendFragmentState(engine) EXCEPT
                        !.connected = FALSE, !.transportClosed = TRUE, !.phase = p]
  <2>1. ResetWebSocketSendFragmentState(engine).phase = engine.phase
    BY DEF Shapes, ResetWebSocketSendFragmentState
  <2>2. [ResetWebSocketSendFragmentState(engine) EXCEPT !.connected = FALSE, !.transportClosed = TRUE].phase = engine.phase
    BY DEF Shapes, ResetWebSocketSendFragmentState
  <2> QED BY <2>1, <2>2 DEF CloseWebSocketTransport
<1>2. DOMAIN engine' = DOMAIN engine /\ engine'.phase = p
  BY <1>1, Engines
<1>3. CASE announce
  <2>1. client' = c /\ Write(t, CloseFrame, "announce")
    BY <1>3 DEF CloseWebSocketTransport
  <2> QED BY <1>2, <1>3, <2>1, Calling DEF CallKept, Announces, ClientShape
<1>4. CASE ~announce
  <2>1. client' = (IF t = Closer \/ ~engine.transportClosed THEN ClientClosed(c) ELSE c) /\ Return(t)
    BY <1>4 DEF CloseWebSocketTransport
  <2>2. ClientShape(client') /\ ~client'.connected /\ ~client'.transport
    BY <2>1, ClosedClient
  <2> QED BY <1>2, <1>4, <2>1, <2>2, Calling DEF CallKept, Ended, ClientShape
<1> QED BY <1>3, <1>4

LEMMA LeavingEffect ==
    ASSUME Shapes, NEW t \in Threads, NEW c, ClientShape(c), c.connected => c.transport,
           c.transport => ~engine.transportClosed, NEW terminal, ~terminal => t # Closer, LeaveWith(t, c, terminal)
    PROVE  CallKept(t) /\ (Ended(t, c) \/ (terminal /\ Announces(t, c)))
<1>1. CASE terminal
  BY <1>1, ClosingEffect DEF LeaveWith
<1>2. CASE ~terminal
  <2>1. client' = c /\ engine' = engine /\ Return(t)
    BY <1>2 DEF LeaveWith
  <2> QED BY <1>2, <2>1, Calling DEF CallKept, Ended, ClientShape
<1> QED BY <1>1, <1>2

LEMMA CloseEndsEffect ==
    ASSUME Shapes, NEW t \in Threads, NEW c, ClientShape(c), CloseEnds(t, c)
    PROVE  CallKept(t) /\ Ended(t, ClientClosed(c))
<1>1. client' = ClientClosed(c) /\ Return(t)
      /\ engine' = [engine EXCEPT !.phase = IF t = Closer THEN "freed" ELSE @]
  BY DEF CloseEnds
<1>2. DOMAIN engine' = DOMAIN engine /\ engine'.phase = (IF t = Closer THEN "freed" ELSE engine.phase)
  BY <1>1 DEF Shapes
<1> QED BY <1>1, <1>2, ClosedClient, Calling DEF CallKept, Ended, ClientShape

\* The two outcomes keep LifeInv.
LEMMA EndLife ==
    ASSUME LifeInv, NEW t \in Threads, Alone(t), NEW c, CallKept(t), Announces(t, c) \/ Ended(t, c),
           c.connected => c.transport, c.transport => ~c.closeSent /\ (t \notin Senders \/ ~Announces(t, c)),
           DOMAIN wire' = DOMAIN wire, DOMAIN hist' = DOMAIN hist, hist'.misuse = hist.misuse
    PROVE  LifeInv'
<1>1. Kept(t)
  BY DEF CallKept, Kept
<1>2. CASE Ended(t, c)
  <2>1. Over(t)
    BY <1>2 DEF Ended, Over
  <2> QED BY <1>1, <2>1, OverLife
<1>3. CASE Announces(t, c)
  <2>1. GoesOn(t)
    BY <1>3, Distinct, Frames DEF Announces, GoesOn, Threads, Labelled
  <2> QED BY <1>1, <2>1, GoesOnLife
<1> QED BY <1>2, <1>3

-----------------------------------------------------------------------------
(***************************************************************************)
(* The same for what is on the wire.                                       *)
(***************************************************************************)
\* Before a step of t.
LEMMA WireNow ==
    ASSUME WireInv, NEW t \in Threads, Alone(t), client.transport
    PROVE  /\ wire.half = (IF op[t].pc = "write2" THEN t ELSE "none")
           /\ ~client.closeSent => ~wire.closed
           /\ ~hist.torn => /\ ~wire.bad
                            /\ ~(Writing(t) /\ op[t].then \in {"data", "fail"}) => Agreed(wire, client)
                            /\ Writing(t) /\ op[t].then = "data" /\ t \in Senders => Chunking(op[t], wire, client)
<1>1. wire.half = (IF op[t].pc = "write2" THEN t ELSE "none")
  BY DEF WireInv, Framing, Alone, Writing
<1>2. ~client.closeSent => ~wire.closed
  BY DEF WireInv, Framing
<1>3. ASSUME ~hist.torn
      PROVE  /\ ~wire.bad
             /\ ~(Writing(t) /\ op[t].then \in {"data", "fail"}) => Agreed(wire, client)
             /\ Writing(t) /\ op[t].then = "data" /\ t \in Senders => Chunking(op[t], wire, client)
  BY <1>3 DEF WireInv, Fragments, Alone
<1> QED BY <1>1, <1>2, <1>3

\* The call of t goes on.
LEMMA GoesOnWire ==
    ASSUME WireInv, NEW t \in Threads, Alone(t), Kept(t), GoesOn(t),
           wire'.half = (IF op'[t].pc = "write2" THEN t ELSE "none"),
           ~client'.closeSent => ~wire'.closed,
           hist.torn => hist'.torn,
           ~hist'.torn => /\ ~wire'.bad
                          /\ Agreed(wire', client') \/ (op'[t].pc # "read" /\ op'[t].then \in {"data", "fail"})
                          /\ t \in Senders /\ op'[t].then = "data" => Chunking(op'[t], wire', client')
    PROVE  WireInv'
<1>1. LifeInv'
  BY GoesOnLife DEF WireInv
<1>2. \A s \in Threads \ {t} : op'[s] = op[s] /\ ~Writing(s)'
  BY DEF Kept, Alone, Writing
<1>3. Framing'
  <2>1. engine'.phase # "connecting"
    BY DEF GoesOn, Alone
  <2>2. \A s \in Threads : op'[s].pc = "write2" => s = t
    BY <1>2 DEF Writing
  <2> QED BY <2>1, <2>2 DEF Framing
<1>4. \A s \in Senders : op'[s].pc = "lock" => Asked(op'[s])
  BY <1>2, Distinct DEF WireInv, GoesOn
<1>5. ASSUME ~hist'.torn PROVE Fragments'
  <2>1. \/ \E s \in Threads : Writing(s)' /\ op'[s].then \in {"data", "fail"}
        \/ Agreed(wire', client')
    BY <1>5 DEF GoesOn, Writing
  <2>2. \A s \in Senders : Writing(s)' /\ op'[s].then = "data" => Chunking(op'[s], wire', client')
    BY <1>2, <1>5, Distinct
  <2> QED BY <1>5, <2>1, <2>2 DEF Fragments
<1> QED BY <1>1, <1>3, <1>4, <1>5 DEF WireInv

\* The call of t ends, or announces the close of the client.
LEMMA EndWire ==
    ASSUME WireInv, NEW t \in Threads, Alone(t), NEW c, CallKept(t), Announces(t, c) \/ Ended(t, c),
           DOMAIN wire' = DOMAIN wire, DOMAIN hist' = DOMAIN hist, hist'.misuse = hist.misuse,
           hist.torn => hist'.torn, ~hist'.torn => ~wire'.bad,
           c.connected => c.transport,
           c.transport => /\ t \notin Senders \/ ~Announces(t, c)
                          /\ ~c.closeSent /\ wire'.half = "none" /\ ~wire'.closed
                          /\ ~hist'.torn => Agreed(wire', c)
    PROVE  WireInv'
<1>0. Kept(t)
  BY DEF CallKept, Kept
<1>1. CASE Ended(t, c)
  <2>1. LifeInv'
    BY <1>1, EndLife DEF WireInv
  <2>2. op'[t].pc = "idle"
    BY <1>1 DEF Ended, Idle
  <2>3. \A s \in Threads : ~Writing(s)'
    BY <1>0, <2>2 DEF Kept, Alone, Writing
  <2>4. Framing'
    <3>1. engine'.phase # "connecting"
      BY <1>1 DEF Ended, Alone
    <3>2. \A s \in Threads : op'[s].pc # "write2"
      BY <2>3 DEF Writing
    <3> QED BY <1>1, <3>1, <3>2 DEF Framing, Ended
  <2>5. \A s \in Senders : op'[s].pc = "lock" => Asked(op'[s])
    BY <1>0, <2>2, Distinct DEF WireInv, Kept
  <2>6. ~hist'.torn => Fragments'
    BY <1>1, <2>3, Distinct DEF Fragments, Ended
  <2> QED BY <2>1, <2>4, <2>5, <2>6 DEF WireInv
<1>2. CASE Announces(t, c)
  <2>1. GoesOn(t) /\ op'[t].pc = "write" /\ op'[t].then = "announce" /\ client' = c
    BY <1>2, Distinct, Frames DEF Announces, GoesOn, Threads, Labelled
  <2>2. t \notin Senders /\ wire'.half = "none" /\ (~client'.closeSent => ~wire'.closed)
        /\ (~hist'.torn => Agreed(wire', client'))
    BY <1>2, <2>1 DEF Announces
  <2> QED BY <1>0, <2>1, <2>2, GoesOnWire
<1> QED BY <1>1, <1>2

-----------------------------------------------------------------------------
(***************************************************************************)
(* Text.                                                                   *)
(***************************************************************************)
LEMMA FirstUnit ==
    ASSUME NEW rest \in Seq(Units), rest # <<>>
    PROVE  /\ SubSeq(rest, 1, 1) = <<rest[1]>>
           /\ SubSeq(rest, 2, Len(rest)) \in Seq(Units) /\ Len(SubSeq(rest, 2, Len(rest))) = Len(rest) - 1
           /\ \A i \in 1 .. Len(rest) - 1 : SubSeq(rest, 2, Len(rest))[i] = rest[i + 1]
           /\ (SubSeq(rest, 2, Len(rest)) = <<>>) <=> (Len(rest) = 1)
           /\ Len(rest) = 1 => rest = <<rest[1]>>
<1>1. Len(rest) \in Nat /\ Len(rest) >= 1 /\ \A i \in 1 .. Len(rest) : rest[i] \in Units
  BY EmptySeq
<1> DEFINE n == Len(rest)
           r == SubSeq(rest, 2, n)
           b == SubSeq(rest, 1, 1)
<1>2. n \in Int /\ 2 \in Int /\ 1 \in Int /\ n >= 1
  BY <1>1
<1>3. (\A i \in 2 .. n : rest[i] \in Units) /\ (\A i \in 1 .. 1 : rest[i] \in Units)
  BY <1>1
<1> HIDE DEF n
<1>4. r \in Seq(Units) /\ Len(r) = (IF 2 <= n THEN n - 2 + 1 ELSE 0) /\ \A i \in 1 .. n - 2 + 1 : r[i] = rest[2 + i - 1]
  BY <1>2, <1>3, SubSeqProperties
<1>5. b \in Seq(Units) /\ Len(b) = 1 /\ b[1] = rest[1]
  <2>1. b \in Seq(Units) /\ Len(b) = (IF 1 <= 1 THEN 1 - 1 + 1 ELSE 0) /\ \A i \in 1 .. 1 - 1 + 1 : b[i] = rest[1 + i - 1]
    BY <1>2, <1>3, SubSeqProperties
  <2> QED BY <2>1
<1> HIDE DEF r, b
<1>6. b = <<rest[1]>>
  <2>1. ASSUME NEW x \in Seq(Units), Len(x) = 1 PROVE x = <<x[1]>>
    BY <2>1
  <2> QED BY <1>5, <2>1
<1>7. Len(r) = n - 1
  BY <1>2, <1>4
<1>8. \A i \in 1 .. n - 1 : r[i] = rest[i + 1]
  <2>1. ASSUME NEW i \in 1 .. n - 1 PROVE i \in 1 .. n - 2 + 1 /\ 2 + i - 1 = i + 1
    BY <1>2, <2>1
  <2> QED BY <1>4, <2>1
<1>9. (r = <<>>) <=> (n = 1)
  BY <1>2, <1>4, <1>7, EmptySeq
<1>10. n = 1 => rest = <<rest[1]>>
  BY <1>1 DEF n
<1> QED BY <1>4, <1>6, <1>7, <1>8, <1>9, <1>10 DEF n, r, b

\* A body may be checked unit by unit.
LEMMA Utf8ByUnit ==
    ASSUME NEW state, NEW rest \in Seq(Units), Len(rest) > 1, NEW fin \in BOOLEAN,
           AdvanceUtf8State(state, rest, fin) # Bad
    PROVE  LET first == AdvanceUtf8State(state, SubSeq(rest, 1, 1), FALSE)
           IN /\ first # Bad
              /\ AdvanceUtf8State(first, SubSeq(rest, 2, Len(rest)), fin) = AdvanceUtf8State(state, rest, fin)
<1> DEFINE b == SubSeq(rest, 1, 1)
           r == SubSeq(rest, 2, Len(rest))
           n == Len(rest)
           m == IF rest[1] = "lead" THEN 1 ELSE 0
<1>1. n \in Nat /\ n > 1 /\ DOMAIN rest = 1 .. n
  OBVIOUS
<1>2. b = <<rest[1]>> /\ Len(b) = 1 /\ DOMAIN b = {1} /\ b[1] = rest[1]
  <2>1. b = <<rest[1]>>
    BY <1>1, FirstUnit
  <2> QED BY <2>1
<1>3. r \in Seq(Units) /\ Len(r) = n - 1 /\ DOMAIN r = 1 .. n - 1 /\ \A i \in 1 .. n - 1 : r[i] = rest[i + 1]
  <2>1. r \in Seq(Units) /\ Len(r) = n - 1 /\ \A i \in 1 .. n - 1 : r[i] = rest[i + 1]
    BY <1>1, FirstUnit
  <2> QED BY <2>1
<1> HIDE DEF b, r
<1>4. state # Bad /\ (\A i \in 1 .. n : (rest[i] = "tail") <=> (Missing(state, rest, i - 1) = 1))
      /\ (fin => Missing(state, rest, n) = 0)
      /\ AdvanceUtf8State(state, rest, fin) = Missing(state, rest, n)
  BY <1>1 DEF AdvanceUtf8State
<1>5. AdvanceUtf8State(state, b, FALSE) = m
  <2>1. Missing(state, b, 1) = m /\ Missing(state, b, 1 - 1) = state /\ Missing(state, rest, 1 - 1) = state
    BY <1>2 DEF Missing
  <2>2. (b[1] = "tail") <=> (Missing(state, b, 1 - 1) = 1)
    BY <1>1, <1>2, <1>4, <2>1
  <2> QED BY <1>2, <1>4, <2>1, <2>2 DEF AdvanceUtf8State
<1>6. \A i \in 0 .. n - 1 : Missing(m, r, i) = Missing(state, rest, i + 1)
  BY <1>1, <1>3 DEF Missing
<1>7. m # Bad
  BY DEF Bad
<1> HIDE DEF m
<1>8. AdvanceUtf8State(m, r, fin) = Missing(state, rest, n)
  <2>1. \A i \in 1 .. n - 1 : (r[i] = "tail") <=> (Missing(m, r, i - 1) = 1)
    <3>1. ASSUME NEW i \in 1 .. n - 1 PROVE (r[i] = "tail") <=> (Missing(m, r, i - 1) = 1)
      <4>1. Missing(m, r, i - 1) = Missing(state, rest, (i - 1) + 1) /\ (i - 1) + 1 = (i + 1) - 1
        BY <1>1, <1>6
      <4>2. (rest[i + 1] = "tail") <=> (Missing(state, rest, (i + 1) - 1) = 1)
        BY <1>1, <1>4
      <4> QED BY <1>3, <4>1, <4>2
    <3> QED BY <3>1
  <2>2. Missing(m, r, n - 1) = Missing(state, rest, n)
    BY <1>1, <1>6
  <2> QED BY <1>3, <1>4, <1>7, <2>1, <2>2 DEF AdvanceUtf8State
<1> QED BY <1>4, <1>5, <1>7, <1>8 DEF b, r

-----------------------------------------------------------------------------
(***************************************************************************)
(* Calls that begin, and reads.                                            *)
(***************************************************************************)
\* The connection is there and has not been given up, unless t announces that.
LEMMA Linked ==
    ASSUME LifeInv, NEW t \in Threads, Alone(t), ~(Writing(t) /\ op[t].then = "announce")
    PROVE  /\ client.connected => client.transport
           /\ client.transport => ~engine.transportClosed /\ ~client.closeSent
BY DEF LifeInv, Connection, Purposes, Alone, Writing

\* The client of a thread that reads or writes.
LEMMA UserLink ==
    ASSUME LifeInv, NEW t \in Threads, Writing(t) \/ op[t].pc = "read"
    PROVE  /\ Alone(t) /\ client.transport
           /\ op[t].pc # "wait" => ~client.closeSent
           /\ engine.transportClosed => Writing(t) /\ op[t].then = "announce"
<1>1. Alone(t)
  BY UserAlone
<1> QED BY <1>1, Linked DEF LifeInv, Connection, Writing

LEMMA ConnectKeeps ==
    ASSUME WireInv, engine.phase = "connecting", op' = op, wire' = wire, hist' = hist,
           ClientShape(client'), DOMAIN engine' = DOMAIN engine,
           engine'.phase \in {"connecting", "open", "freed"}, engine'.transportClosed = engine.transportClosed,
           client'.connected => client'.transport,
           client'.transport => engine'.phase = "open" /\ ~client'.closeSent /\ client'.sendOpen = FALSE
    PROVE  WireInv'
<1>1. \A t \in Threads : op'[t].pc = "idle"
  BY DEF WireInv, LifeInv, Places
<1>2. LifeInv'
  BY <1>1, Distinct DEF WireInv, LifeInv, Shapes, Places, Purposes, Turns, Connection, Writing, Inside, ClientShape
<1>3. Framing'
  BY <1>1 DEF WireInv, Framing
<1>4. hist.torn \/ Fragments'
  BY <1>1, Distinct DEF WireInv, Framing, Fragments, Agreed, Writing
<1>5. \A s \in Senders : op'[s].pc = "lock" => Asked(op'[s])
  BY <1>1, Distinct
<1> QED BY <1>2, <1>3, <1>4, <1>5 DEF WireInv

LEMMA ConnectStep ==
    ASSUME WireInv,
           \/ \E candidate \in BOOLEAN : ConnectFails(candidate)
           \/ \E early \in 0..2, f \in engine.use.peer : ConnectSucceeds(early, f)
           \/ ConnectUnregistered
    PROVE  WireInv'
<1>0. Shapes /\ ClientShape(client)
  BY DEF WireInv, LifeInv, Shapes, ClientShape
<1>1. ASSUME NEW candidate, ConnectFails(candidate) PROVE WireInv'
  <2>1. engine.phase = "connecting" /\ client' = ClientClosed(client) /\ op' = op /\ wire' = wire /\ hist' = hist
    BY <1>1 DEF ConnectFails
  <2>2. \E a, b, p : engine' = [engine EXCEPT !.address = a, !.confirm = b, !.phase = p] /\ p \in {"connecting", "freed"}
    <3> DEFINE again == candidate /\ ~engine.confirm
               address == IF again THEN engine.address ELSE engine.address + 1
               p == IF address >= MaxAddresses THEN "freed" ELSE engine.phase
    <3>1. engine' = [engine EXCEPT !.address = address, !.confirm = again, !.phase = p]
      BY <1>0, <1>1 DEF ConnectFails, Shapes
    <3>2. p \in {"connecting", "freed"}
      BY <2>1
    <3> HIDE DEF p, again, address
    <3> QED BY <3>1, <3>2
  <2>3. DOMAIN engine' = DOMAIN engine /\ engine'.phase \in {"connecting", "freed"}
        /\ engine'.transportClosed = engine.transportClosed
    BY <1>0, <2>2 DEF Shapes
  <2> QED BY <1>0, <2>1, <2>3, ClosedClient, ConnectKeeps
<1>2. ASSUME NEW early, NEW f, ConnectSucceeds(early, f) PROVE WireInv'
  <2>1. engine.phase = "connecting" /\ op' = op /\ wire' = wire /\ hist' = hist
        /\ engine' = [engine EXCEPT !.phase = "open", !.connected = TRUE, !.address = 0, !.confirm = FALSE]
    BY <1>2 DEF ConnectSucceeds
  <2>2. DOMAIN engine' = DOMAIN engine /\ engine'.phase = "open" /\ engine'.transportClosed = engine.transportClosed
    BY <1>0, <2>1 DEF Shapes
  <2>3. ClientShape(client') /\ client'.transport /\ ~client'.closeSent /\ client'.sendOpen = FALSE
    BY <1>2 DEF ConnectSucceeds, FreshClient, ClientShape
  <2> QED BY <2>1, <2>2, <2>3, ConnectKeeps
<1>3. ASSUME ConnectUnregistered PROVE WireInv'
  <2>1. engine.phase = "connecting" /\ client' = ClientClosed(client) /\ op' = op /\ wire' = wire /\ hist' = hist
        /\ engine' = [engine EXCEPT !.phase = "freed"]
    BY <1>3 DEF ConnectUnregistered
  <2>2. DOMAIN engine' = DOMAIN engine /\ engine'.phase = "freed" /\ engine'.transportClosed = engine.transportClosed
    BY <1>0, <2>1 DEF Shapes
  <2> QED BY <1>0, <2>1, <2>2, ClosedClient, ConnectKeeps
<1> QED BY <1>1, <1>2, <1>3

\* A call that has come as far as SendLock.
LEMMA LockKeeps ==
    ASSUME WireInv, NEW t \in Senders, op[t].pc = "idle", engine.phase = "open", ~Inside(Receiver),
           Kept(t), op'[t].pc = "lock", Asked(op'[t]), client' = client, wire' = wire, hist' = hist,
           engine'.phase = engine.phase, engine'.transportClosed = engine.transportClosed
    PROVE  WireInv'
<1>1. t \in Threads /\ t # Receiver /\ t # Closer /\ op'[Receiver] = op[Receiver] /\ op'[Closer] = op[Closer]
  BY Distinct DEF Kept
<1>2. \A s \in Threads : Writing(s)' <=> Writing(s)
  BY <1>1 DEF Kept, Writing
<1>3. \A s \in Threads : Writing(s) => op'[s] = op[s]
  BY <1>1 DEF Kept, Writing
<1>4. \A s \in Threads : op'[s].pc \in {"read", "write", "write2"} <=> op[s].pc \in {"read", "write", "write2"}
  BY <1>1 DEF Kept
<1>5. \A s \in Threads : (op'[s].pc = "write2" <=> op[s].pc = "write2") /\ (op'[s].pc = "read" <=> op[s].pc = "read")
  BY <1>1 DEF Kept
<1>6. Shapes' /\ Places'
  <2>1. Shapes'
    BY DEF WireInv, LifeInv, Shapes, Kept
  <2>2. \A s \in Senders : op'[s].pc \in {"idle", "lock", "write", "write2"}
    BY Distinct DEF WireInv, LifeInv, Places, Kept
  <2> QED BY <1>1, <2>1, <2>2 DEF WireInv, LifeInv, Places
<1>7. Purposes'
  <2>1. \A s \in Threads : op'[s].pc = "wait" => Writing(s)'
    BY DEF Writing
  <2>2. \A s \in Threads : op'[s].pc = "wait" => op'[s] = op[s]
    BY <1>2, <1>3, <2>1
  <2>3. \A s \in Threads : Labelled(op'[s])
    BY <1>3, <2>2 DEF WireInv, LifeInv, Purposes, Kept, Labelled
  <2> QED BY <1>2, <1>3, <2>2, <2>3, Distinct DEF WireInv, LifeInv, Purposes
<1>8. Turns'
  <2>1. ~Inside(Closer)' /\ ~Inside(Receiver)'
    BY <1>1 DEF WireInv, LifeInv, Places, Inside
  <2> QED BY <1>2, <2>1, Distinct DEF WireInv, LifeInv, Turns
<1>9. Connection'
  <2>1. client.transport /\ engine.transportClosed => \E s \in Threads : Writing(s)' /\ op'[s].then = "announce"
    BY <1>2, <1>3 DEF WireInv, LifeInv, Connection
  <2>2. client.transport /\ client.closeSent => \E s \in Threads : op'[s].pc = "wait"
    BY <1>3 DEF WireInv, LifeInv, Connection, Writing
  <2> QED BY <1>2, <1>4, <1>5, <2>1, <2>2 DEF WireInv, LifeInv, Connection
<1>10. Framing'
  BY <1>5 DEF WireInv, Framing
<1>11. \A s \in Senders : op'[s].pc = "lock" => Asked(op'[s])
  BY Distinct DEF WireInv, Kept
<1>12. hist.torn \/ Fragments'
  <2>1. (\E s \in Threads : Writing(s) /\ op[s].then \in {"data", "fail"})
          => \E s \in Threads : Writing(s)' /\ op'[s].then \in {"data", "fail"}
    BY <1>2, <1>3
  <2>2. ASSUME NEW s \in Senders, Writing(s)', op'[s].then = "data", Fragments, client.transport
        PROVE  Chunking(op'[s], wire, client)
    BY <1>2, <1>3, <2>2, Distinct DEF Fragments
  <2> QED BY <2>1, <2>2 DEF WireInv, Fragments
<1> QED BY <1>6, <1>7, <1>8, <1>9, <1>10, <1>11, <1>12 DEF WireInv, LifeInv

LEMMA SendStep ==
    ASSUME WireInv, ~Duplex, NEW t \in Senders,
           \/ \E m \in Messages : SendText(t, m) \/ SendBinary(t, m) \/ SendContinuation(t, m)
           \/ \E type \in {"ping", "pong"} : SendControlBegin(t, type)
    PROVE  WireInv'
<1>0. Shapes /\ t \in Threads /\ t # Receiver
  BY Distinct DEF WireInv, LifeInv
<1>1. DOMAIN op = Threads
      /\ DOMAIN engine = {"phase", "connected", "transportClosed", "fragOpen", "fragType", "fragLen", "utf",
                          "use", "address", "confirm", "sends"}
      /\ DOMAIN Idle = {"pc", "type", "fin", "rest", "first", "len", "utf", "next", "frame", "then"}
      /\ Idle.first = TRUE /\ Idle.fin = TRUE /\ Idle.rest = <<>>
  BY <1>0 DEF Shapes, Idle
<1>2. DOMAIN client = DOMAIN FreshClient
  BY <1>0 DEF Shapes
<1>3. ASSUME NEW m \in Messages, m.op \in {"text", "binary", "cont"}, SendBegin(t, m) PROVE WireInv'
  <2>1. op[t].pc = "idle" /\ engine.phase = "open" /\ MayEnter(t) /\ client' = client /\ wire' = wire /\ hist' = hist
        /\ engine' = [engine EXCEPT !.sends = @ + 1]
    BY <1>3 DEF SendBegin
  <2>2. PICK len, utf : op' = [op EXCEPT ![t] = [Idle EXCEPT !.pc = "lock", !.type = m.op, !.fin = m.fin,
                                                     !.rest = m.body, !.len = len, !.utf = utf]]
    BY <1>3 DEF SendBegin
  <2>3. m.fin \in BOOLEAN /\ m.body \in Seq(Units)
    BY WebSocketAssumption DEF Units
  <2>4. op'[t].pc = "lock" /\ Asked(op'[t]) /\ DOMAIN op'[t] = DOMAIN Idle
    BY <1>0, <1>1, <1>3, <2>2, <2>3 DEF Asked
  <2>5. DOMAIN op' = Threads /\ \A s \in Threads \ {t} : op'[s] = op[s]
    BY <1>0, <1>1, <2>2
  <2>6. Kept(t) /\ engine'.phase = engine.phase /\ engine'.transportClosed = engine.transportClosed
    BY <1>1, <1>2, <2>1, <2>4, <2>5 DEF Kept
  <2>7. ~Inside(Receiver)
    BY <1>0, <2>1 DEF MayEnter
  <2> QED BY <2>1, <2>4, <2>6, <2>7, LockKeeps
<1>4. ASSUME NEW type \in {"ping", "pong"}, SendControlBegin(t, type) PROVE WireInv'
  <2>1. op[t].pc = "idle" /\ engine.phase = "open" /\ MayEnter(t) /\ client' = client /\ wire' = wire /\ hist' = hist
        /\ engine' = [engine EXCEPT !.sends = @ + 1]
        /\ op' = [op EXCEPT ![t] = [Idle EXCEPT !.pc = "lock", !.type = type]]
    BY <1>4 DEF SendControlBegin
  <2>3. op'[t] = [Idle EXCEPT !.pc = "lock", !.type = type] /\ <<>> \in Seq(Units)
    BY <1>0, <1>1, <2>1
  <2>4. op'[t].pc = "lock" /\ Asked(op'[t]) /\ DOMAIN op'[t] = DOMAIN Idle
    <3> DEFINE q == op'[t]
    <3>1. q.pc = "lock" /\ q.type = type /\ q.first = TRUE /\ q.fin = TRUE /\ q.rest = Idle.rest /\ DOMAIN q = DOMAIN Idle
      BY <1>1, <2>3
    <3> HIDE DEF q
    <3>2. q.rest = <<>> /\ <<>> \in Seq(Units)
      BY <1>1, <2>3, <3>1
    <3>3. q.rest \in Seq(Units)
      BY <3>2, Zenon
    <3> QED BY <1>4, <3>1, <3>3 DEF Asked, q
  <2>5. DOMAIN op' = Threads /\ \A s \in Threads \ {t} : op'[s] = op[s]
    BY <1>0, <1>1, <2>1
  <2>6. Kept(t) /\ engine'.phase = engine.phase /\ engine'.transportClosed = engine.transportClosed
    BY <1>1, <1>2, <2>1, <2>4, <2>5 DEF Kept
  <2>7. ~Inside(Receiver)
    BY <1>0, <2>1 DEF MayEnter
  <2> QED BY <2>1, <2>4, <2>6, <2>7, LockKeeps
<1> QED BY <1>3, <1>4 DEF SendText, SendBinary, SendContinuation

\* A step that only changes what has been read.
LEMMA SameKeeps ==
    ASSUME WireInv, op' = op, engine' = engine, wire' = wire,
           DOMAIN hist' = DOMAIN hist, hist'.misuse = hist.misuse, hist'.torn = hist.torn,
           ClientShape(client'), SameFor(client', client)
    PROVE  WireInv'
<1>1. LifeInv'
  BY DEF WireInv, LifeInv, Shapes, Places, Purposes, Turns, Connection, Writing, Inside, ClientShape, SameFor
<1>2. Framing'
  BY DEF WireInv, Framing, SameFor
<1>3. \A o : Chunking(o, wire, client) => Chunking(o, wire, client')
  BY DEF Chunking, Agreed, SameFor
<1>4. hist.torn \/ Fragments'
  BY <1>3 DEF WireInv, Fragments, Agreed, SameFor, Writing
<1> QED BY <1>1, <1>2, <1>4 DEF WireInv

LEMMA CloseBeginStep ==
    ASSUME WireInv, CloseBegin
    PROVE  WireInv'
<1>0. Shapes
  BY DEF WireInv, LifeInv
<1>1. op[Closer].pc = "idle" /\ engine.phase = "open" /\ client' = client /\ wire' = wire /\ hist' = hist
      /\ engine' = [engine EXCEPT !.phase = "closing"] /\ op' = [op EXCEPT ![Closer].pc = "drain"]
  BY DEF CloseBegin
<1>2. DOMAIN engine' = DOMAIN engine /\ engine'.phase = "closing" /\ engine'.transportClosed = engine.transportClosed
  BY <1>0, <1>1 DEF Shapes
<1>3. DOMAIN op' = Threads /\ DOMAIN op'[Closer] = DOMAIN Idle /\ op'[Closer].pc = "drain"
      /\ \A s \in Threads \ {Closer} : op'[s] = op[s]
  BY <1>0, <1>1, Distinct DEF Shapes, Idle
<1>4. \A s \in Threads : (Writing(s)' <=> Writing(s)) /\ (Writing(s) => op'[s] = op[s])
  BY <1>1, <1>3 DEF Writing
<1>5. \A s \in Threads : (op'[s].pc = "write2" <=> op[s].pc = "write2") /\ (op'[s].pc = "read" <=> op[s].pc = "read")
                         /\ (op'[s].pc = "write" <=> op[s].pc = "write")
  BY <1>1, <1>3
<1>6. Shapes' /\ Places'
  BY <1>1, <1>2, <1>3, Distinct DEF WireInv, LifeInv, Shapes, Places
<1>7. Purposes' /\ Turns'
  <2>1. \A s \in Threads : Labelled(op'[s])
    BY <1>3 DEF WireInv, LifeInv, Purposes, Labelled
  <2> QED BY <1>1, <1>3, <1>4, <2>1, Distinct DEF WireInv, LifeInv, Purposes, Turns, Inside
<1>8. Connection'
  <2>1. client.transport /\ engine.transportClosed => \E s \in Threads : Writing(s)' /\ op'[s].then = "announce"
    BY <1>4 DEF WireInv, LifeInv, Connection
  <2> QED BY <1>1, <1>2, <1>4, <1>5, <2>1 DEF WireInv, LifeInv, Connection
<1>9. Framing'
  BY <1>1, <1>2, <1>5 DEF WireInv, Framing
<1>10. \A s \in Senders : op'[s].pc = "lock" => Asked(op'[s])
  BY <1>3, Distinct DEF WireInv
<1>11. hist.torn \/ Fragments'
  <2>1. (\E s \in Threads : Writing(s) /\ op[s].then \in {"data", "fail"})
          => \E s \in Threads : Writing(s)' /\ op'[s].then \in {"data", "fail"}
    BY <1>4
  <2>2. ASSUME NEW s \in Senders, Writing(s)', op'[s].then = "data", Fragments, client.transport
        PROVE  Chunking(op'[s], wire, client)
    BY <1>4, <2>2, Distinct DEF Fragments
  <2> QED BY <1>1, <2>1, <2>2 DEF WireInv, Fragments
<1> QED BY <1>1, <1>6, <1>7, <1>8, <1>9, <1>10, <1>11 DEF WireInv, LifeInv

-----------------------------------------------------------------------------
(***************************************************************************)
(* A send that has SendLock.                                               *)
(***************************************************************************)
\* What a step that ends the call without writing needs.
LEMMA QuietEnd ==
    ASSUME WireInv, NEW t \in Threads, Alone(t), NEW c, ClientShape(c),
           ~(Writing(t) /\ op[t].then = "announce"),
           c.connected => c.transport,
           c.transport => SameFor(c, client) /\ ~(Writing(t) /\ op[t].then = "fail") /\ op[t].pc # "write2",
           c.transport /\ Writing(t) /\ op[t].then = "data" => hist'.torn \/ (op[t].first /\ t \in Senders),
           NEW terminal, ~terminal => t # Closer, LeaveWith(t, c, terminal), c.connected => t \notin Senders \/ ~terminal,
           wire' = wire, DOMAIN hist' = DOMAIN hist, hist'.misuse = hist.misuse, hist.torn => hist'.torn
    PROVE  WireInv'
<1>0. LifeInv /\ Shapes
  BY DEF WireInv, LifeInv
<1>1. c.transport => client.transport /\ ~engine.transportClosed /\ ~client.closeSent /\ ~c.closeSent
  BY <1>0, Linked DEF SameFor
<1>2. CallKept(t) /\ (Ended(t, c) \/ (terminal /\ Announces(t, c)))
  BY <1>0, <1>1, LeavingEffect
<1>3. ~hist'.torn => ~wire.bad
  BY DEF WireInv, Fragments
<1>4. ASSUME c.transport
      PROVE  /\ wire.half = "none" /\ ~wire.closed
             /\ ~hist'.torn => Agreed(wire, c)
  <2>1. wire.half = "none" /\ ~wire.closed
    BY <1>1, <1>4, WireNow
  <2>2. ~hist'.torn => Agreed(wire, client)
    <3>1. CASE Writing(t) /\ op[t].then = "data"
      BY <1>1, <1>4, <3>1, WireNow DEF Chunking
    <3>2. CASE ~(Writing(t) /\ op[t].then = "data")
      BY <1>1, <1>4, <3>2, WireNow
    <3> QED BY <3>1, <3>2
  <2>3. Agreed(wire, client) => Agreed(wire, c)
    BY <1>4 DEF Agreed, SameFor
  <2> QED BY <1>1, <1>4, <2>1, <2>2, <2>3
<1>5. t \notin Senders \/ ~Announces(t, c)
  <2>1. Ended(t, c) => ~Announces(t, c)
    BY DEF Ended, Announces, Idle
  <2>2. Announces(t, c) => c.connected
    BY DEF Announces
  <2> QED BY <1>2, <2>1, <2>2
<1> QED BY <1>1, <1>2, <1>3, <1>4, <1>5, EndWire

LEMMA SendFrameStep ==
    ASSUME WireInv, NEW t \in Threads, SendFrame(t)
    PROVE  WireInv'
<1> DEFINE o == op[t]
           next == IF Text(o.type, client.sendOp)
                   THEN AdvanceUtf8State(StartOf(o.type, client.utf), o.rest, o.fin) ELSE 0
<1>0. LifeInv /\ Shapes /\ ClientShape(client)
  BY DEF WireInv, LifeInv, Shapes, ClientShape
<1>1. o.pc = "lock" /\ o.type \notin {"ping", "pong"} /\ (\A s \in Senders : ~HoldsSendLock(s))
      /\ wire' = wire /\ hist' = hist
  BY DEF SendFrame
<1>2. t \in Senders /\ t # Closer
  BY <1>0, <1>1, Distinct DEF LifeInv, Places, Threads
<1>3. Alone(t) /\ ~Writing(t)
  BY <1>0, <1>1, <1>2, LockAlone DEF Writing
<1>4. SameFor(client, client) /\ (client.connected => client.transport)
  BY <1>0, <1>3, Linked DEF SameFor
<1>5. CASE ~client.connected
  <2>1. LeaveWith(t, client, TRUE)
    BY <1>5 DEF SendFrame
  <2> QED BY <1>0, <1>1, <1>2, <1>3, <1>4, <1>5, <2>1, QuietEnd
<1>6. CASE client.connected /\ RefusesFrame(o, next)
  <2>1. LeaveWith(t, client, FALSE)
    BY <1>6 DEF SendFrame
  <2> QED BY <1>0, <1>1, <1>2, <1>3, <1>4, <1>6, <2>1, QuietEnd
<1>7. CASE client.connected /\ ~RefusesFrame(o, next)
  <2>1. op' = [op EXCEPT ![t].pc = "write", ![t].next = next, ![t].then = "data", ![t].frame = ChunkFrame(o)]
        /\ engine' = engine /\ client' = client
    BY <1>7 DEF SendFrame
  <2>2. Asked(o) /\ o.type \in {"text", "binary", "cont"}
    BY <1>1, <1>2 DEF WireInv, Asked
  <2>3. /\ ((o.type = "cont") <=> client.sendOpen) /\ ~client.closeSent /\ next # Bad
    BY <1>7 DEF RefusesFrame
  <2>4. client.transport /\ ~engine.transportClosed
    BY <1>0, <1>3, <1>4, <1>7, Linked
  <2> DEFINE q == op'[t]
  <2>5. DOMAIN op = Threads /\ DOMAIN o = {"pc", "type", "fin", "rest", "first", "len", "utf", "next", "frame", "then"}
    BY <1>0 DEF Shapes, Idle
  <2> HIDE DEF next
  <2>6. /\ q.pc = "write" /\ q.next = next /\ q.then = "data" /\ q.frame = ChunkFrame(o) /\ q.type = o.type
        /\ q.fin = o.fin /\ q.rest = o.rest /\ q.first = o.first /\ DOMAIN q = DOMAIN o
    BY <2>1, <2>5
  <2>7. DOMAIN op' = Threads /\ \A s \in Threads \ {t} : op'[s] = op[s]
    BY <2>1, <2>5
  <2> HIDE DEF q
  <2>8. Kept(t)
    BY <1>0, <1>1, <2>1, <2>5, <2>6, <2>7 DEF Kept, Shapes, q, Idle
  <2>9. GoesOn(t)
    <3>1. ChunkFrame(o).op \in {"text", "binary", "cont"}
      BY <2>2, Frames DEF ChunkFrame
    <3> QED BY <1>2, <1>7, <2>1, <2>3, <2>4, <2>6, <3>1, Distinct DEF GoesOn, Labelled, q
  <2>10. ASSUME ~hist.torn PROVE Chunking(q, wire, client) /\ ~wire.bad
    <3>1. Agreed(wire, client) /\ ~wire.bad
      BY <1>3, <1>7, <2>4, <2>10, WireNow
    <3>2. q.frame = ChunkFrame(q)
      BY <2>6 DEF ChunkFrame
    <3>3. (o.type = "cont") = client.sendOpen
      BY <1>7 DEF RefusesFrame
    <3>4. Text(q.type, client.sendOp) => q.next # Bad /\ q.next = AdvanceUtf8State(StartOf(q.type, client.utf), q.rest, q.fin)
      BY <2>3, <2>6 DEF next
    <3> QED BY <2>2, <2>6, <3>1, <3>2, <3>3, <3>4 DEF Chunking, Asked
  <2>11. wire.half = "none" /\ ~wire.closed
    BY <1>1, <1>3, <1>7, <2>3, <2>4, WireNow
  <2> QED BY <1>1, <1>3, <2>1, <2>3, <2>6, <2>8, <2>9, <2>10, <2>11, GoesOnWire DEF q
<1> QED BY <1>5, <1>6, <1>7

LEMMA SendControlFrameStep ==
    ASSUME WireInv, NEW t \in Threads, SendControlFrame(t)
    PROVE  WireInv'
<1>0. LifeInv /\ Shapes /\ ClientShape(client) /\ SameFor(client, client)
  BY DEF WireInv, LifeInv, Shapes, ClientShape, SameFor
<1>1. op[t].pc = "lock" /\ op[t].type \in {"ping", "pong"} /\ (\A s \in Senders : ~HoldsSendLock(s))
      /\ wire' = wire /\ hist' = hist
  BY DEF SendControlFrame
<1>2. t \in Senders /\ t # Closer
  BY <1>0, <1>1, Distinct DEF LifeInv, Places, Threads
<1>3. Alone(t) /\ ~Writing(t)
  BY <1>0, <1>1, <1>2, LockAlone DEF Writing
<1>4. client.connected => client.transport
  BY <1>0, <1>3, Linked
<1>5. CASE ~client.connected
  <2>1. LeaveWith(t, client, TRUE)
    BY <1>5 DEF SendControlFrame
  <2> QED BY <1>0, <1>1, <1>2, <1>3, <1>4, <1>5, <2>1, QuietEnd
<1>6. CASE client.connected /\ (client.closeSent \/ client.closeReceived)
  <2>1. LeaveWith(t, client, FALSE)
    BY <1>6 DEF SendControlFrame
  <2> QED BY <1>0, <1>1, <1>2, <1>3, <1>4, <1>6, <2>1, QuietEnd
<1>7. CASE client.connected /\ ~(client.closeSent \/ client.closeReceived)
  <2>1. Write(t, Frame(op[t].type, TRUE, <<>>), "control") /\ engine' = engine /\ client' = client
    BY <1>7 DEF SendControlFrame
  <2>2. client.transport /\ ~engine.transportClosed
    BY <1>0, <1>3, <1>4, <1>7, Linked
  <2>3. Kept(t) /\ op'[t].pc = "write" /\ op'[t].then = "control" /\ op'[t].frame = Frame(op[t].type, TRUE, <<>>)
    BY <1>0, <1>1, <2>1, Calling DEF Kept, ClientShape
  <2>4. GoesOn(t)
    <3>1. op'[t].frame.op \in {"ping", "pong"}
      BY <1>1, <2>3 DEF Frame
    <3> QED BY <1>1, <1>2, <1>7, <2>1, <2>2, <2>3, <3>1, Distinct DEF GoesOn, Labelled
  <2>5. wire.half = "none" /\ ~wire.closed /\ (~hist.torn => ~wire.bad /\ Agreed(wire, client))
    BY <1>1, <1>3, <1>7, <2>2, WireNow
  <2> QED BY <1>1, <1>3, <2>1, <2>3, <2>4, <2>5, GoesOnWire
<1> QED BY <1>5, <1>6, <1>7

-----------------------------------------------------------------------------
(***************************************************************************)
(* Receive.                                                                *)
(***************************************************************************)
\* The receiver, at a read.
LEMMA Reading ==
    ASSUME WireInv, op[Receiver].pc = "read"
    PROVE  /\ LifeInv /\ Shapes /\ ClientShape(client) /\ Receiver \in Threads /\ Receiver \notin Senders
           /\ Receiver # Closer /\ Alone(Receiver) /\ client.transport /\ ~client.closeSent
           /\ (client.connected => client.transport) /\ ~engine.transportClosed /\ ~Writing(Receiver) /\ SameFor(client, client)
           /\ wire.half = "none" /\ ~wire.closed /\ (~hist.torn => ~wire.bad /\ Agreed(wire, client))
<1>1. /\ LifeInv /\ Shapes /\ ClientShape(client) /\ Receiver \in Threads /\ Receiver \notin Senders
      /\ Receiver # Closer /\ ~Writing(Receiver) /\ SameFor(client, client)
  BY Distinct DEF WireInv, LifeInv, Shapes, ClientShape, SameFor, Writing
<1>2. /\ Alone(Receiver) /\ client.transport /\ ~client.closeSent /\ ~engine.transportClosed
  BY <1>1, UserLink
<1> QED BY <1>1, <1>2, WireNow

\* Writing to the peer, which still takes the fragments as the client does.
LEMMA ReceiverWrites ==
    ASSUME WireInv, op[Receiver].pc = "read", NEW frame, NEW then \in {"pong", "reply", "fail"},
           frame.op = (IF then = "pong" THEN "pong" ELSE "close"),
           Write(Receiver, frame, then), engine' = engine, wire' = wire, hist' = hist, ClientShape(client'),
           client'.closeSent = client.closeSent,
           client'.transport = client.transport, then # "fail" => SameFor(client', client)
    PROVE  WireInv'
<1>1. Kept(Receiver) /\ op'[Receiver].pc = "write" /\ op'[Receiver].then = then /\ op'[Receiver].frame = frame
  BY Reading, Calling DEF Kept, ClientShape
<1>2. GoesOn(Receiver)
  BY <1>1, Reading DEF GoesOn, Labelled
<1>3. then # "fail" /\ Agreed(wire, client) => Agreed(wire, client')
  BY DEF Agreed, SameFor
<1>4. ~hist'.torn => /\ ~wire'.bad
                     /\ Agreed(wire', client') \/ (op'[Receiver].pc # "read" /\ op'[Receiver].then \in {"data", "fail"})
                     /\ Receiver \in Senders /\ op'[Receiver].then = "data" => Chunking(op'[Receiver], wire', client')
  BY <1>1, <1>3, Reading
<1> QED BY <1>1, <1>2, <1>4, Reading, GoesOnWire

\* The end of a receive: what was read is all that has changed, or the connection is lost.
LEMMA ReceiverLeaves ==
    ASSUME WireInv, op[Receiver].pc = "read", NEW c, ClientShape(c), c.connected => c.transport,
           c.transport => SameFor(c, client), NEW terminal, LeaveWith(Receiver, c, terminal),
           wire' = wire, DOMAIN hist' = DOMAIN hist, hist'.misuse = hist.misuse, hist'.torn = hist.torn
    PROVE  WireInv'
BY Reading, QuietEnd

LEMMA FailConnectionKeeps ==
    ASSUME WireInv, op[Receiver].pc = "read", FailConnectionWithClose, wire' = wire, hist' = hist
    PROVE  WireInv'
<1> DEFINE d == ResetSendFragment(client)
           c == ResetReceiveFragment(d)
<1>1. ClientShape(d) /\ d.connected = client.connected /\ d.closeSent = client.closeSent /\ d.transport = client.transport
  BY Reading, ClientPieces
<1>2. ClientShape(c) /\ c.connected = client.connected /\ c.closeSent = client.closeSent /\ c.transport = client.transport
  <2> HIDE DEF d
  <2> QED BY <1>1 DEF c, ResetReceiveFragment, ClientShape, FreshClient
<1>3. CASE client.connected
  <2>1. client' = c /\ Write(Receiver, CloseFrame, "fail") /\ engine' = engine
    BY <1>2, <1>3, Reading DEF FailConnectionWithClose
  <2> HIDE DEF c
  <2> QED BY <1>2, <2>1, Frames, ReceiverWrites
<1>4. CASE ~client.connected
  <2>1. LeaveWith(Receiver, Lost(c), TRUE)
    BY <1>2, <1>4 DEF FailConnectionWithClose, Lost
  <2> HIDE DEF c
  <2>2. ClientShape(Lost(c)) /\ ~Lost(c).connected /\ ~Lost(c).transport
    BY <1>2, LostClient
  <2> QED BY <2>1, <2>2, ReceiverLeaves
<1> QED BY <1>3, <1>4

LEMMA ReceiveBeginStep ==
    ASSUME WireInv, ~Duplex, ReceiveBegin
    PROVE  WireInv'
<1>0. LifeInv /\ Shapes /\ ClientShape(client) /\ SameFor(client, client)
  BY DEF WireInv, LifeInv, Shapes, ClientShape, SameFor
<1>1. op[Receiver].pc = "idle" /\ engine.phase = "open" /\ MayEnter(Receiver) /\ wire' = wire /\ hist' = hist
  BY DEF ReceiveBegin
<1>2. Alone(Receiver) /\ ~Writing(Receiver) /\ Receiver \in Threads /\ Receiver \notin Senders /\ Receiver # Closer
  BY <1>0, <1>1, ReceiverAlone, Distinct DEF Writing
<1>a. client.connected => client.transport
  BY <1>0, <1>2, Linked
<1>3. CASE ~client.connected \/ client.closeReceived
  <2>1. LeaveWith(Receiver, client, TRUE)
    BY <1>3 DEF ReceiveBegin
  <2> QED BY <1>0, <1>1, <1>2, <1>a, <2>1, QuietEnd
<1>4. CASE ~(~client.connected \/ client.closeReceived)
  <2>1. op' = [op EXCEPT ![Receiver].pc = "read"] /\ client' = ReceiveStarts(client) /\ engine' = engine
    BY <1>4 DEF ReceiveBegin
  <2>2. ClientShape(client') /\ SameFor(client', client)
    BY <1>0, <2>1, ClientPieces
  <2>3. Kept(Receiver) /\ op'[Receiver].pc = "read"
    <3>1. DOMAIN op' = Threads /\ (\A s \in Threads \ {Receiver} : op'[s] = op[s])
          /\ op'[Receiver].pc = "read" /\ DOMAIN op'[Receiver] = DOMAIN op[Receiver]
      BY <1>0, <1>2, <2>1 DEF Shapes, Idle
    <3> QED BY <1>0, <1>1, <1>2, <2>1, <2>2, <3>1 DEF Kept, Shapes, ClientShape
  <2>4. client.transport /\ ~engine.transportClosed /\ ~client.closeSent
    BY <1>0, <1>2, <1>a, <1>4, Linked
  <2>5. GoesOn(Receiver)
    BY <1>2, <2>1, <2>2, <2>3, <2>4 DEF GoesOn, Labelled, SameFor
  <2>6. wire.half = "none" /\ ~wire.closed /\ (~hist.torn => ~wire.bad /\ Agreed(wire, client))
    BY <1>1, <1>2, <2>4, WireNow
  <2>7. Agreed(wire, client) => Agreed(wire, client')
    BY <2>2 DEF Agreed, SameFor
  <2> QED BY <1>1, <1>2, <2>3, <2>5, <2>6, <2>7, GoesOnWire
<1> QED BY <1>3, <1>4

\* Also the end of an HTTP/2 stream leaves the transport to its user.
LEMMA ReadRawSame ==
    ASSUME NEW f, NEW two, NEW end, ReadRaw(f, two, end), ClientShape(client)
    PROVE  ClientShape(client') /\ SameFor(client', client)
BY DEF ReadRaw, ClientShape, FreshClient, SameFor

LEMMA ReceiveRawStep ==
    ASSUME WireInv, NEW f, NEW two, NEW end, ReceiveRaw(f, two, end)
    PROVE  WireInv'
<1>1. op' = op /\ engine' = engine /\ wire' = wire /\ hist' = hist /\ ReadRaw(f, two, end)
  BY DEF ReceiveRaw
<1>2. ClientShape(client)
  BY DEF WireInv, LifeInv, Shapes, ClientShape
<1> QED BY <1>1, <1>2, ReadRawSame, SameKeeps

LEMMA ReceiveFailsStep ==
    ASSUME WireInv, NEW why, ReceiveFails(why)
    PROVE  WireInv'
<1>1. op[Receiver].pc = "read" /\ wire' = wire
      /\ hist' = [hist EXCEPT !.misuse = @ \/ ~client.transport, !.lost = @ \/ Forgets(client)]
  BY DEF ReceiveFails
<1>2. DOMAIN hist = {"got", "torn", "lost", "misuse"} /\ hist.misuse = FALSE
  BY DEF WireInv, LifeInv, Shapes, Connection
<1>3. DOMAIN hist' = DOMAIN hist /\ hist'.torn = hist.torn /\ hist'.misuse = hist.misuse
  <2>1. client.transport
    BY <1>1, Reading
  <2> QED BY <1>1, <1>2, <2>1
<1>4. CASE why = "terminal"
  <2>1. LeaveWith(Receiver, Lost(client), TRUE)
    BY <1>4 DEF ReceiveFails, Lost
  <2>2. ClientShape(Lost(client)) /\ ~Lost(client).connected /\ ~Lost(client).transport
    BY <1>1, Reading, LostClient
  <2> QED BY <1>1, <1>3, <2>1, <2>2, ReceiverLeaves
<1>5. CASE why # "terminal"
  <2>1. LeaveWith(Receiver, Forgotten(client), why = "invalid")
    BY <1>5 DEF ReceiveFails
  <2>2. ClientShape(Forgotten(client)) /\ SameFor(Forgotten(client), client)
    BY <1>1, Reading, ClientPieces
  <2>3. Forgotten(client).connected => Forgotten(client).transport
    BY <1>1, <2>2, Reading DEF SameFor
  <2> QED BY <1>1, <1>3, <2>1, <2>2, <2>3, ReceiverLeaves
<1> QED BY <1>4, <1>5

\* Delivering a frame touches neither the accounts of misuse nor those of torn messages.
LEMMA Delivering ==
    ASSUME Shapes, NEW f, NEW stored, Deliver(f, stored)
    PROVE  DOMAIN hist' = DOMAIN hist /\ hist'.misuse = hist.misuse /\ hist'.torn = hist.torn
BY DEF Shapes, Deliver

\* A receive that ends with the client as it was but for what it has read.
LEMMA ReceiverReturns ==
    ASSUME WireInv, op[Receiver].pc = "read", NEW c, ClientShape(c), SameFor(c, client),
           NEW terminal, LeaveWith(Receiver, c, terminal),
           wire' = wire, DOMAIN hist' = DOMAIN hist, hist'.misuse = hist.misuse, hist'.torn = hist.torn
    PROVE  WireInv'
<1>1. c.connected => c.transport
  BY Reading DEF SameFor
<1> QED BY <1>1, ReceiverLeaves

LEMMA ReceivePingKeeps ==
    ASSUME WireInv, op[Receiver].pc = "read", wire' = wire, NEW f, NEW stored, ReceivePing(f, stored)
    PROVE  WireInv'
<1> DEFINE c == [client EXCEPT !.controls = @ + 1]
<1>1. ClientShape(c) /\ SameFor(c, client)
  BY Reading DEF ClientShape, FreshClient, SameFor
<1>2. CASE c.controls > MaxControlFrames
  BY <1>2, FailConnectionKeeps DEF ReceivePing
<1>3. CASE ~(c.controls > MaxControlFrames) /\ engine.use.autoReply /\ f.op = "ping"
  <2>1. client' = c /\ Write(Receiver, Frame("pong", TRUE, f.body), "pong") /\ engine' = engine /\ hist' = hist
    BY <1>3 DEF ReceivePing
  <2> HIDE DEF c
  <2>2. Frame("pong", TRUE, f.body).op = "pong"
    BY DEF Frame
  <2>3. c.closeSent = client.closeSent /\ c.transport = client.transport
    BY <1>1 DEF SameFor
  <2> QED BY <1>1, <2>1, <2>2, <2>3, ReceiverWrites
<1>4. CASE ~(c.controls > MaxControlFrames) /\ engine.use.autoReply /\ f.op # "ping"
  <2>1. client' = Consumed(c) /\ engine' = engine /\ op' = op /\ hist' = hist
    BY <1>4 DEF ReceivePing
  <2> HIDE DEF c
  <2>2. ClientShape(Consumed(c)) /\ SameFor(Consumed(c), client)
    BY <1>1, ClientPieces DEF SameFor
  <2> QED BY <2>1, <2>2, SameKeeps
<1>5. CASE /\ ~(c.controls > MaxControlFrames) /\ ~engine.use.autoReply
           /\ Len(ControlPayload(f)) > MaxMessage
  <2> DEFINE d == IF f.op = "ping" THEN ResetReceiveFragment(c) ELSE c
  <2>1. LeaveWith(Receiver, Forgotten(d), TRUE) /\ hist' = hist
    BY <1>5 DEF ReceivePing
  <2> HIDE DEF c
  <2>2. ClientShape(d) /\ SameFor(d, client)
    BY <1>1, ClientPieces DEF SameFor
  <2> HIDE DEF d
  <2>3. ClientShape(Forgotten(d)) /\ SameFor(Forgotten(d), client)
    BY <2>2, ClientPieces DEF SameFor
  <2> QED BY <2>1, <2>3, ReceiverReturns
<1>6. CASE /\ ~(c.controls > MaxControlFrames) /\ ~engine.use.autoReply
           /\ ~(Len(ControlPayload(f)) > MaxMessage)
  <2>1. LeaveWith(Receiver, Consumed(c), FALSE) /\ Deliver(Frame(f.op, TRUE, ControlPayload(f)), stored)
    BY <1>6 DEF ReceivePing
  <2> HIDE DEF c
  <2>2. ClientShape(Consumed(c)) /\ SameFor(Consumed(c), client)
    BY <1>1, ClientPieces DEF SameFor
  <2>3. DOMAIN hist' = DOMAIN hist /\ hist'.misuse = hist.misuse /\ hist'.torn = hist.torn
    BY <2>1, Delivering DEF WireInv, LifeInv
  <2> QED BY <2>1, <2>2, <2>3, ReceiverReturns
<1> QED BY <1>2, <1>3, <1>4, <1>5, <1>6

LEMMA ReceiveCloseKeeps ==
    ASSUME WireInv, op[Receiver].pc = "read", wire' = wire, NEW f, f.op = "close", NEW stored, ReceiveClose(f, stored)
    PROVE  WireInv'
<1>1. CASE f.body = <<"bad">>
  BY <1>1, FailConnectionKeeps DEF ReceiveClose
<1>2. CASE f.body # <<"bad">>
  <2> DEFINE d == ResetReceiveFragment(client)
             c == [d EXCEPT !.closeReceived = TRUE]
  <2>1. ClientShape(d) /\ SameFor(d, client)
    BY Reading, ClientPieces
  <2> HIDE DEF d
  <2>2. ClientShape(c) /\ SameFor(c, client)
    BY <2>1 DEF ClientShape, FreshClient, SameFor
  <2> HIDE DEF c
  <2>3. ~c.closeSent
    BY <2>2, Reading DEF SameFor
  <2>4. CASE c.connected
    <3>1. client' = c /\ Write(Receiver, f, "reply") /\ engine' = engine /\ hist' = hist
      BY <1>2, <2>3, <2>4 DEF ReceiveClose, c, d
    <3> QED BY <2>2, <3>1, ReceiverWrites DEF SameFor
  <2>5. CASE ~c.connected
    <3>1. LeaveWith(Receiver, Forgotten(c), FALSE) /\ hist' = hist
      BY <1>2, <2>3, <2>5 DEF ReceiveClose, c, d
    <3>2. ClientShape(Forgotten(c)) /\ SameFor(Forgotten(c), client)
      BY <2>2, ClientPieces DEF SameFor
    <3> QED BY <3>1, <3>2, ReceiverReturns
  <2> QED BY <2>4, <2>5
<1> QED BY <1>1, <1>2

LEMMA ReceiveDataKeeps ==
    ASSUME WireInv, op[Receiver].pc = "read", wire' = wire, NEW f, NEW stored, ReceiveData(f, stored)
    PROVE  WireInv'
<1> DEFINE body == client.recvBody \o f.body
           type == IF client.recvOpen THEN client.recvOp ELSE f.op
           d == Consumed(client)
           c == [d EXCEPT !.recvOp = type, !.recvBody = body]
<1>1. ClientShape(d) /\ SameFor(d, client)
  BY Reading, ClientPieces
<1> HIDE DEF d, body, type
<1>2. ClientShape(c) /\ SameFor(c, client)
  BY <1>1 DEF ClientShape, FreshClient, SameFor
<1>3. CASE ~f.fin
  <2>1. client' = [c EXCEPT !.recvOpen = TRUE] /\ engine' = engine /\ op' = op /\ hist' = hist
    BY <1>3 DEF ReceiveData, c, d, body, type
  <2> HIDE DEF c
  <2>2. ClientShape(client') /\ SameFor(client', client)
    BY <1>2, <2>1 DEF ClientShape, FreshClient, SameFor
  <2> QED BY <2>1, <2>2, SameKeeps
<1>4. CASE f.fin /\ type = "text" /\ ~IsValidUtf8(body)
  <2>1. FailConnectionWithClose /\ hist' = hist
    BY <1>4 DEF ReceiveData, body, type
  <2> QED BY <2>1, FailConnectionKeeps
<1>5. CASE f.fin /\ ~(type = "text" /\ ~IsValidUtf8(body))
  <2>1. client' = ResetReceiveFragment(c) /\ engine' = engine /\ Return(Receiver) /\ Deliver(Frame(type, TRUE, body), stored)
    BY <1>5 DEF ReceiveData, body, type, c, d
  <2> HIDE DEF c
  <2>2. ClientShape(ResetReceiveFragment(c)) /\ SameFor(ResetReceiveFragment(c), client)
    BY <1>2, ClientPieces DEF SameFor
  <2>3. LeaveWith(Receiver, ResetReceiveFragment(c), FALSE)
    BY <2>1 DEF LeaveWith
  <2>4. DOMAIN hist' = DOMAIN hist /\ hist'.misuse = hist.misuse /\ hist'.torn = hist.torn
    BY <2>1, Delivering DEF WireInv, LifeInv
  <2> QED BY <2>2, <2>3, <2>4, ReceiverReturns
<1> QED BY <1>3, <1>4, <1>5

LEMMA ReceiverStepKeeps ==
    ASSUME WireInv, ReceiverStep
    PROVE  WireInv'
<1>1. ASSUME NEW stored, ReceiveFrame(stored) PROVE WireInv'
  <2>1. op[Receiver].pc = "read" /\ wire' = wire
    BY <1>1 DEF ReceiveFrame
  <2> QED BY <1>1, <2>1, FailConnectionKeeps, ReceivePingKeeps, ReceiveCloseKeeps, ReceiveDataKeeps DEF ReceiveFrame
<1> QED BY <1>1, ReceiveRawStep, ReceiveFailsStep DEF ReceiverStep

-----------------------------------------------------------------------------
(***************************************************************************)
(* Writes.                                                                 *)
(***************************************************************************)
LEMMA WriteHeadStep ==
    ASSUME WireInv, NEW t \in Threads, WriteHead(t)
    PROVE  WireInv'
<1>0. LifeInv /\ Shapes
  BY DEF WireInv, LifeInv
<1>1. /\ op[t].pc = "write" /\ op' = [op EXCEPT ![t].pc = "write2"] /\ engine' = engine /\ client' = client /\ hist' = hist
      /\ wire' = [wire EXCEPT !.half = t, !.bad = @ \/ wire.half # "none"]
  BY DEF WriteHead
<1>2. Writing(t)
  BY <1>1 DEF Writing
<1>3. Alone(t) /\ client.transport /\ ~client.closeSent
      /\ (engine.transportClosed => op[t].then = "announce")
  BY <1>0, <1>1, <1>2, UserLink
<1>4. wire.half = "none" /\ ~wire.closed
  BY <1>1, <1>3, WireNow
<1>5. /\ DOMAIN op' = Threads /\ (\A s \in Threads \ {t} : op'[s] = op[s]) /\ DOMAIN op'[t] = DOMAIN op[t]
      /\ op'[t].pc = "write2" /\ op'[t].then = op[t].then /\ op'[t].frame = op[t].frame /\ op'[t].type = op[t].type
      /\ op'[t].fin = op[t].fin /\ op'[t].rest = op[t].rest /\ op'[t].first = op[t].first /\ op'[t].next = op[t].next
  BY <1>0, <1>1 DEF Shapes, Idle
<1>6. /\ DOMAIN wire' = DOMAIN wire /\ wire'.half = t /\ wire'.open = wire.open /\ wire'.text = wire.text
      /\ wire'.utf = wire.utf /\ wire'.closed = wire.closed /\ (wire'.bad <=> wire.bad)
  BY <1>0, <1>1, <1>4 DEF Shapes
<1>7. Kept(t)
  BY <1>0, <1>1, <1>5, <1>6 DEF Kept, Shapes
<1>8. GoesOn(t)
  <2>1. Labelled(op'[t])
    BY <1>0, <1>1, <1>5 DEF LifeInv, Purposes, Labelled
  <2> QED BY <1>0, <1>1, <1>2, <1>3, <1>5, <2>1 DEF GoesOn, LifeInv, Purposes
<1>9. Chunking(op[t], wire, client) => Chunking(op'[t], wire', client)
  BY <1>5, <1>6 DEF Chunking, Agreed, ChunkFrame
<1>10. Agreed(wire, client) => Agreed(wire', client)
  BY <1>6 DEF Agreed
<1>11. ~hist.torn => /\ ~wire'.bad
                     /\ Agreed(wire', client) \/ op[t].then \in {"data", "fail"}
                     /\ t \in Senders /\ op[t].then = "data" => Chunking(op'[t], wire', client)
  BY <1>2, <1>3, <1>6, <1>9, <1>10, WireNow
<1> QED BY <1>1, <1>3, <1>4, <1>5, <1>6, <1>7, <1>8, <1>11, GoesOnWire

\* The peer at the end of a control frame.
LEMMA ParsedControl ==
    ASSUME NEW w, DOMAIN w = {"half", "open", "text", "utf", "closed", "bad"},
           NEW f, f.op \in {"ping", "pong", "close"}
    PROVE  LET p == Parsed(w, f)
           IN /\ DOMAIN p = DOMAIN w /\ p.half = "none" /\ p.open = w.open /\ p.text = w.text /\ p.utf = w.utf
              /\ p.closed <=> w.closed \/ f.op = "close"
              /\ p.bad <=> w.bad \/ w.closed
<1>1. f.op \notin {"text", "binary", "cont"} /\ 0 # Bad
  BY DEF Bad
<1>2. Parsed(w, f) = [w EXCEPT !.half = "none", !.closed = @ \/ f.op = "close", !.bad = @ \/ w.closed,
                               !.open = @, !.text = @, !.utf = @]
  BY <1>1 DEF Parsed
<1> QED BY <1>2

\* The peer at the end of a frame of a message.
LEMMA ParsedData ==
    ASSUME NEW w, DOMAIN w = {"half", "open", "text", "utf", "closed", "bad"},
           NEW f, f.op \in {"text", "binary", "cont"}
    PROVE  LET p == Parsed(w, f)
               text == IF f.op = "cont" THEN w.text ELSE f.op = "text"
               utf == IF text THEN AdvanceUtf8State(StartOf(f.op, w.utf), f.body, f.fin) ELSE 0
           IN /\ DOMAIN p = DOMAIN w /\ p.half = "none" /\ p.open = ~f.fin /\ p.text = text /\ p.utf = utf
              /\ p.closed <=> w.closed
              /\ p.bad <=> w.bad \/ w.closed \/ (f.op = "cont") # w.open \/ utf = Bad
<1> DEFINE text == IF f.op = "cont" THEN w.text ELSE f.op = "text"
           utf == IF text THEN AdvanceUtf8State(StartOf(f.op, w.utf), f.body, f.fin) ELSE 0
<1>1. Parsed(w, f) = [w EXCEPT !.half = "none", !.closed = @ \/ f.op = "close",
                 !.bad = @ \/ w.closed \/ (f.op = "cont") # w.open \/ utf = Bad,
                 !.open = ~f.fin, !.text = text, !.utf = utf]
  BY DEF Parsed
<1> HIDE DEF text, utf
<1>2. LET p == Parsed(w, f)
      IN /\ DOMAIN p = DOMAIN w /\ p.half = "none" /\ p.open = ~f.fin /\ p.text = text /\ p.utf = utf
         /\ p.closed <=> w.closed
         /\ p.bad <=> w.bad \/ w.closed \/ (f.op = "cont") # w.open \/ utf = Bad
  BY <1>1
<1> QED BY <1>2 DEF text, utf

\* The peer at the end of the next frame of a message: it takes the frame, and stands where the
\* client will stand behind the last one.
LEMMA ParsedChunk ==
    ASSUME NEW w, DOMAIN w = {"half", "open", "text", "utf", "closed", "bad"}, ~w.bad, ~w.closed,
           NEW o, NEW c, Chunking(o, w, c)
    PROVE  LET p == Parsed(w, o.frame)
           IN /\ ~p.bad /\ p.text = Text(o.type, c.sendOp) /\ p.open = ~(o.fin /\ Len(o.rest) <= 1)
              /\ Text(o.type, c.sendOp) =>
                    /\ Len(o.rest) <= 1 => p.utf = o.next
                    /\ Len(o.rest) > 1 => o.next = AdvanceUtf8State(p.utf, SubSeq(o.rest, 2, Len(o.rest)), o.fin)
<1> DEFINE f == o.frame
           n == Len(o.rest)
           txt == Text(o.type, c.sendOp)
           start == IF o.first THEN StartOf(o.type, c.utf) ELSE w.utf
           body == SubSeq(o.rest, 1, IF o.rest = <<>> THEN 0 ELSE 1)
<1>1. /\ o.fin \in BOOLEAN /\ o.rest \in Seq(Units) /\ o.type \in {"text", "binary", "cont"} /\ o.first \in BOOLEAN
      /\ (o.type = "cont") = c.sendOpen /\ (o.first => Agreed(w, c)) /\ (~o.first => w.open = TRUE /\ w.text = txt)
      /\ txt => o.next # Bad /\ o.next = AdvanceUtf8State(start, o.rest, o.fin)
  BY DEF Chunking
<1>2. f.op = (IF o.first THEN o.type ELSE "cont") /\ f.fin = (o.fin /\ n <= 1) /\ f.body = body
  <2>1. f = ChunkFrame(o)
    BY DEF Chunking
  <2> QED BY <2>1 DEF ChunkFrame, Frame
<1>3. f.op \in {"text", "binary", "cont"}
  BY <1>1, <1>2
<1>4. n \in Nat /\ (n = 0 <=> o.rest = <<>>)
  BY <1>1, EmptySeq
<1>5. (f.op = "cont") = w.open
  BY <1>1, <1>2 DEF Agreed
<1> DEFINE text == IF f.op = "cont" THEN w.text ELSE f.op = "text"
           utf == IF text THEN AdvanceUtf8State(StartOf(f.op, w.utf), f.body, f.fin) ELSE 0
<1>6. text = txt
  <2>1. CASE o.first /\ o.type = "cont"
    <3>1. w.open = TRUE /\ w.text = (c.sendOp = "text")
      BY <1>1, <2>1 DEF Agreed
    <3> QED BY <1>2, <2>1, <3>1 DEF Text
  <2>2. CASE o.first /\ o.type # "cont"
    BY <1>2, <2>2 DEF Text
  <2>3. CASE ~o.first
    BY <1>1, <1>2, <2>3
  <2> QED BY <1>1, <2>1, <2>2, <2>3
<1>7. txt => StartOf(f.op, w.utf) = start
  <2>1. ASSUME txt, o.first, o.type = "cont" PROVE StartOf(f.op, w.utf) = start
    <3>1. w.open = TRUE /\ w.text /\ w.utf = c.utf
      BY <1>1, <2>1 DEF Agreed, Text
    <3> QED BY <1>2, <2>1, <3>1 DEF StartOf
  <2>2. ASSUME o.first, o.type # "cont" PROVE StartOf(f.op, w.utf) = start
    BY <1>2, <2>2 DEF StartOf
  <2>3. ASSUME ~o.first PROVE StartOf(f.op, w.utf) = start
    BY <1>2, <2>3 DEF StartOf
  <2> QED BY <1>1, <2>1, <2>2, <2>3
<1>8. n <= 1 => body = o.rest /\ f.fin = o.fin
  <2>1. n = 0 => body = <<>> /\ o.rest = <<>>
    BY <1>4
  <2>2. ASSUME n = 1 PROVE body = o.rest
    <3>1. o.rest # <<>>
      BY <1>4, <2>2
    <3>2. SubSeq(o.rest, 1, 1) = <<o.rest[1]>> /\ o.rest = <<o.rest[1]>>
      BY <1>1, <2>2, <3>1, FirstUnit
    <3> QED BY <3>1, <3>2
  <2> QED BY <1>1, <1>2, <1>4, <2>1, <2>2
<1>9. n > 1 => body = SubSeq(o.rest, 1, 1) /\ f.fin = FALSE
  <2>1. n > 1 => o.rest # <<>> /\ ~(n <= 1)
    BY <1>4
  <2> QED BY <1>1, <1>2, <2>1
<1>10. txt => /\ utf # Bad
              /\ n <= 1 => utf = o.next
              /\ n > 1 => o.next = AdvanceUtf8State(utf, SubSeq(o.rest, 2, n), o.fin)
  <2>1. ASSUME txt PROVE utf = AdvanceUtf8State(start, body, f.fin)
    BY <1>2, <1>6, <1>7, <2>1
  <2> HIDE DEF utf, start, body, f, txt
  <2>2. ASSUME txt, n <= 1 PROVE utf = o.next /\ utf # Bad
    BY <1>1, <1>8, <2>1, <2>2
  <2>3. ASSUME txt, n > 1 PROVE utf # Bad /\ o.next = AdvanceUtf8State(utf, SubSeq(o.rest, 2, n), o.fin)
    <3>1. utf = AdvanceUtf8State(start, SubSeq(o.rest, 1, 1), FALSE)
      BY <1>9, <2>1, <2>3
    <3>2. AdvanceUtf8State(start, o.rest, o.fin) # Bad
      BY <1>1, <2>3
    <3>3. o.rest \in Seq(Units) /\ Len(o.rest) > 1 /\ o.fin \in BOOLEAN
      BY <1>1, <2>3
    <3>4. LET first == AdvanceUtf8State(start, SubSeq(o.rest, 1, 1), FALSE)
          IN /\ first # Bad
             /\ AdvanceUtf8State(first, SubSeq(o.rest, 2, Len(o.rest)), o.fin) = AdvanceUtf8State(start, o.rest, o.fin)
      BY <3>2, <3>3, Utf8ByUnit
    <3>5. o.next = AdvanceUtf8State(start, o.rest, o.fin)
      BY <1>1, <2>3
    <3> QED BY <3>1, <3>4, <3>5
  <2> QED BY <1>4, <2>2, <2>3
<1>11. ~txt => utf = 0 /\ utf # Bad
  <2> HIDE DEF text, txt
  <2>1. ~txt => ~text
    BY <1>6
  <2> QED BY <2>1 DEF Bad
<1>12. LET p == Parsed(w, f)
       IN /\ p.open = ~f.fin /\ p.text = text /\ p.utf = utf
          /\ p.bad <=> w.bad \/ w.closed \/ (f.op = "cont") # w.open \/ utf = Bad
  BY <1>3, ParsedData
<1> HIDE DEF text, utf, txt, f
<1>13. ~Parsed(w, f).bad
  BY <1>5, <1>10, <1>11, <1>12
<1>14. Parsed(w, f).open = ~(o.fin /\ n <= 1)
  BY <1>2, <1>12
<1> QED BY <1>6, <1>10, <1>12, <1>13, <1>14 DEF txt, f

\* A call that ends and leaves no transport.
LEMMA LastEnd ==
    ASSUME WireInv, NEW t \in Threads, Alone(t), NEW c, ClientShape(c), ~c.connected,
           c.transport => ~engine.transportClosed, NEW terminal, ~terminal => t # Closer /\ ~c.transport,
           LeaveWith(t, c, terminal) \/ CloseWebSocketTransport(t, c) \/ CloseEnds(t, c),
           DOMAIN wire' = DOMAIN wire, DOMAIN hist' = DOMAIN hist, hist'.misuse = hist.misuse,
           hist.torn => hist'.torn, ~hist'.torn => ~wire'.bad
    PROVE  WireInv'
<1>0. Shapes
  BY DEF WireInv, LifeInv
<1>1. ASSUME CallKept(t), Ended(t, c) \/ Ended(t, ClientClosed(c)), ~client'.transport PROVE WireInv'
  <2>1. Ended(t, client') /\ ~client'.connected
    BY <1>1 DEF Ended
  <2> QED BY <1>1, <2>1, EndWire
<1>2. ASSUME CloseWebSocketTransport(t, c) PROVE WireInv'
  <2>1. CallKept(t) /\ (Announces(t, c) \/ (Ended(t, c) /\ ~client'.transport))
    BY <1>0, <1>2, ClosingEffect
  <2>2. ~Announces(t, c)
    BY DEF Announces
  <2> QED BY <1>1, <2>1, <2>2
<1>3. ASSUME LeaveWith(t, c, terminal) PROVE WireInv'
  <2>1. CASE terminal
    BY <1>2, <1>3, <2>1 DEF LeaveWith
  <2>2. CASE ~terminal
    <3>1. CallKept(t) /\ Ended(t, c)
      BY <1>0, <1>3, <2>2, LeavingEffect
    <3>2. client' = c
      BY <1>3, <2>2 DEF LeaveWith
    <3> QED BY <1>1, <2>2, <3>1, <3>2
  <2> QED BY <2>1, <2>2
<1>4. ASSUME CloseEnds(t, c) PROVE WireInv'
  <2>1. CallKept(t) /\ Ended(t, ClientClosed(c)) /\ client' = ClientClosed(c)
    BY <1>0, <1>4, CloseEndsEffect DEF CloseEnds
  <2> QED BY <1>1, <2>1, ClosedClient
<1> QED BY <1>2, <1>3, <1>4

\* A client that has sent its Close frame, and is then disconnected.
LEMMA ClosingClients ==
    ASSUME NEW c, ClientShape(c)
    PROVE  LET closing == [c EXCEPT !.closeSent = TRUE]
           IN /\ ClientShape(closing) /\ closing.connected = c.connected /\ closing.transport = c.transport
              /\ closing.closeSent = TRUE /\ closing.sendOpen = c.sendOpen /\ closing.sendOp = c.sendOp
              /\ closing.utf = c.utf
              /\ ClientShape(CloseTransport([Consumed(closing) EXCEPT !.connected = FALSE]))
              /\ ~CloseTransport([Consumed(closing) EXCEPT !.connected = FALSE]).connected
              /\ ~CloseTransport([Consumed(closing) EXCEPT !.connected = FALSE]).transport
              /\ ClientShape(Lost(closing)) /\ ~Lost(closing).connected /\ ~Lost(closing).transport
              /\ ClientShape(ClientClosed(closing)) /\ ~ClientClosed(closing).connected /\ ~ClientClosed(closing).transport
<1> DEFINE d == [c EXCEPT !.closeSent = TRUE]
<1>1. /\ ClientShape(d) /\ d.connected = c.connected /\ d.transport = c.transport /\ d.closeSent = TRUE
      /\ d.sendOpen = c.sendOpen /\ d.sendOp = c.sendOp /\ d.utf = c.utf
  BY DEF ClientShape, FreshClient
<1> HIDE DEF d
<1> DEFINE e == Consumed(d)
<1>2. ClientShape(e)
  BY <1>1, ClientPieces
<1> HIDE DEF e
<1> DEFINE g == [e EXCEPT !.connected = FALSE]
<1>3. ClientShape(g) /\ g.connected = FALSE
  BY <1>2 DEF ClientShape, FreshClient
<1> HIDE DEF g
<1>4. ClientShape(CloseTransport(g)) /\ ~CloseTransport(g).connected /\ ~CloseTransport(g).transport
  BY <1>3, ClientPieces
<1>5. /\ ClientShape(Lost(d)) /\ ~Lost(d).connected /\ ~Lost(d).transport
      /\ ClientShape(ClientClosed(d)) /\ ~ClientClosed(d).connected /\ ~ClientClosed(d).transport
  BY <1>1, LostClient, ClosedClient
<1> QED BY <1>1, <1>4, <1>5 DEF d, e, g

\* A message between two frames, or behind its last one.
LEMMA DataSentKeeps ==
    ASSUME WireInv, NEW t \in Senders, op[t].pc = "write2", op[t].then = "data", DataSent(t),
           wire' = Parsed(wire, op[t].frame),
           DOMAIN hist' = DOMAIN hist, hist'.misuse = hist.misuse, hist'.torn = hist.torn
    PROVE  WireInv'
<1> DEFINE o == op[t]
           rest == SubSeq(o.rest, 2, Len(o.rest))
           q == [o EXCEPT !.rest = rest, !.first = FALSE]
<1>0. LifeInv /\ Shapes /\ ClientShape(client) /\ t \in Threads /\ t # Closer /\ t # Receiver
  BY Distinct DEF WireInv, LifeInv, Shapes, ClientShape
<1>1. Writing(t)
  BY DEF Writing
<1>2. Alone(t) /\ client.transport /\ ~client.closeSent /\ ~engine.transportClosed
  BY <1>0, <1>1, UserLink
<1>3. ~wire.closed /\ (~hist.torn => ~wire.bad /\ Chunking(o, wire, client))
  BY <1>0, <1>1, <1>2, WireNow
<1>4. DOMAIN wire = {"half", "open", "text", "utf", "closed", "bad"} /\ DOMAIN op = Threads
      /\ DOMAIN o = {"pc", "type", "fin", "rest", "first", "len", "utf", "next", "frame", "then"}
  BY <1>0 DEF Shapes, Idle
<1>5. o.frame.op \in {"text", "binary", "cont"}
  BY <1>0 DEF LifeInv, Purposes, Labelled
<1>6. DOMAIN wire' = DOMAIN wire /\ wire'.half = "none" /\ ~wire'.closed
  BY <1>3, <1>4, <1>5, ParsedData
<1>7. ~hist.torn =>
        /\ ~wire'.bad /\ wire'.text = Text(o.type, client.sendOp) /\ wire'.open = ~(o.fin /\ Len(o.rest) <= 1)
        /\ Text(o.type, client.sendOp) =>
             /\ Len(o.rest) <= 1 => wire'.utf = o.next
             /\ Len(o.rest) > 1 => o.next = AdvanceUtf8State(wire'.utf, rest, o.fin)
  BY <1>3, <1>4, ParsedChunk
<1>8. /\ DOMAIN q = DOMAIN o /\ q.rest = rest /\ q.first = FALSE /\ q.type = o.type /\ q.fin = o.fin /\ q.next = o.next
      /\ q.then = "data"
  BY <1>4
<1>9. ~hist.torn => /\ o.fin \in BOOLEAN /\ o.rest \in Seq(Units) /\ o.type \in {"text", "binary", "cont"}
                    /\ (o.type = "cont") = client.sendOpen /\ Len(o.rest) \in Nat
                    /\ (rest # <<>> <=> Len(o.rest) > 1)
                    /\ (o.rest = <<>> => o.first) /\ rest \in Seq(Units)
                    /\ (Text(o.type, client.sendOp) => o.next # Bad)
  <2>1. ASSUME ~hist.torn
        PROVE  /\ o.fin \in BOOLEAN /\ o.rest \in Seq(Units) /\ o.type \in {"text", "binary", "cont"}
               /\ (o.type = "cont") = client.sendOpen /\ Len(o.rest) \in Nat /\ (o.rest = <<>> => o.first)
               /\ (Text(o.type, client.sendOp) => o.next # Bad)
    BY <1>3, <2>1 DEF Chunking
  <2>2. ASSUME ~hist.torn PROVE (rest # <<>> <=> Len(o.rest) > 1) /\ rest \in Seq(Units)
    <3>1. CASE o.rest = <<>>
      <4>1. Len(o.rest) = 0 /\ rest = <<>>
        BY <3>1
      <4> QED BY <4>1
    <3>2. CASE o.rest # <<>>
      <4>1. Len(o.rest) >= 1
        BY <2>1, <2>2, <3>2, EmptySeq
      <4> QED BY <2>1, <2>2, <3>2, <4>1, FirstUnit
    <3> QED BY <3>1, <3>2
  <2> QED BY <2>1, <2>2
<1> HIDE DEF rest
<1>10. CASE rest # <<>>
  <2>1. op' = [op EXCEPT ![t] = [q EXCEPT !.pc = "write", !.frame = ChunkFrame(q)]] /\ engine' = engine /\ client' = client
    BY <1>8, <1>10 DEF DataSent, rest
  <2> HIDE DEF q
  <2>2. /\ DOMAIN op' = Threads /\ (\A s \in Threads \ {t} : op'[s] = op[s]) /\ DOMAIN op'[t] = DOMAIN o
        /\ op'[t].pc = "write" /\ op'[t].frame = ChunkFrame(q) /\ op'[t].rest = rest /\ op'[t].first = FALSE
        /\ op'[t].type = o.type /\ op'[t].fin = o.fin /\ op'[t].next = o.next /\ op'[t].then = "data"
    BY <1>0, <1>4, <1>8, <2>1
  <2>3. Kept(t)
    BY <1>0, <1>4, <1>6, <2>1, <2>2 DEF Kept, Shapes
  <2>4. ChunkFrame(q).op = "cont"
    BY <1>8 DEF ChunkFrame, Frame
  <2>5. GoesOn(t)
    BY <1>0, <1>2, <2>1, <2>2, <2>4 DEF GoesOn, Labelled
  <2>6. ChunkFrame(op'[t]) = ChunkFrame(q)
    BY <1>8, <2>2 DEF ChunkFrame
  <2>7. ~hist.torn => Chunking(op'[t], wire', client)
    <3>1. ASSUME ~hist.torn PROVE wire'.open = TRUE /\ Len(o.rest) > 1
      <4>1. Len(o.rest) > 1 /\ ~(Len(o.rest) <= 1)
        BY <1>9, <1>10, <3>1
      <4> QED BY <1>7, <3>1, <4>1
    <3> QED BY <1>7, <1>9, <1>10, <2>2, <2>6, <3>1 DEF Chunking
  <2> QED BY <1>0, <1>2, <1>6, <1>7, <2>1, <2>2, <2>3, <2>5, <2>7, GoesOnWire
<1>11. CASE rest = <<>>
  <2>1. /\ client' = IF q.fin THEN ResetSendFragment(client)
                     ELSE [client EXCEPT !.sendOpen = TRUE, !.utf = q.next,
                                         !.sendOp = IF q.type = "cont" THEN @ ELSE q.type]
        /\ CompleteSendFragment(q) /\ Return(t)
    BY <1>8, <1>11 DEF DataSent, rest
  <2> HIDE DEF q
  <2>2. DOMAIN engine' = DOMAIN engine /\ engine'.phase = engine.phase /\ engine'.transportClosed = engine.transportClosed
    BY <1>0, <2>1 DEF CompleteSendFragment, ResetWebSocketSendFragmentState, Shapes
  <2>3. /\ ClientShape(client') /\ client'.connected = client.connected /\ client'.transport = client.transport
        /\ client'.closeSent = client.closeSent
    <3>1. CASE q.fin
      BY <1>0, <2>1, <3>1, ClientPieces
    <3>2. CASE ~q.fin
      BY <1>0, <2>1, <3>2 DEF ClientShape, FreshClient
    <3> QED BY <3>1, <3>2
  <2>4. CallKept(t) /\ Ended(t, client')
    BY <1>0, <1>2, <2>1, <2>2, <2>3, Calling DEF CallKept, Ended, ClientShape
  <2>5. ~hist.torn => Agreed(wire', client')
    <3>1. ASSUME ~hist.torn PROVE wire'.open = ~o.fin /\ Len(o.rest) <= 1
      <4>1. Len(o.rest) <= 1
        BY <1>9, <1>11, <3>1
      <4> QED BY <1>7, <1>9, <3>1, <4>1
    <3>2. CASE q.fin
      <4>1. client'.sendOpen = FALSE
        BY <1>0, <2>1, <3>2 DEF ResetSendFragment, ClientShape, FreshClient
      <4> QED BY <1>8, <1>9, <3>1, <3>2, <4>1 DEF Agreed
    <3>3. CASE ~q.fin
      <4>1. /\ client'.sendOpen = TRUE /\ client'.utf = o.next
            /\ client'.sendOp = IF o.type = "cont" THEN client.sendOp ELSE o.type
        BY <1>0, <1>8, <2>1, <3>3 DEF ClientShape, FreshClient
      <4>2. Text(o.type, client.sendOp) = (client'.sendOp = "text")
        BY <4>1 DEF Text
      <4>3. ASSUME ~hist.torn
            PROVE  wire'.open = TRUE /\ wire'.text = (client'.sendOp = "text") /\ (wire'.text => wire'.utf = client'.utf)
        <5>1. wire'.open = TRUE
          BY <1>8, <1>9, <3>1, <3>3, <4>3
        <5>2. wire'.text = (client'.sendOp = "text")
          BY <1>7, <4>2, <4>3
        <5>3. wire'.text => wire'.utf = client'.utf
          BY <1>7, <3>1, <4>1, <4>3
        <5> QED BY <5>1, <5>2, <5>3
      <4> QED BY <4>1, <4>3 DEF Agreed
    <3> QED BY <3>2, <3>3
  <2>6. ~Announces(t, client')
    BY <2>4 DEF Ended, Announces, Idle
  <2> QED BY <1>0, <1>2, <1>6, <1>7, <2>3, <2>4, <2>5, <2>6, EndWire
<1> QED BY <1>10, <1>11

LEMMA WriteTailStep ==
    ASSUME WireInv, NEW t \in Threads, NEW stored, WriteTail(t, stored)
    PROVE  WireInv'
<1> DEFINE then == op[t].then
           closing == [client EXCEPT !.closeSent = TRUE]
<1>0. LifeInv /\ Shapes /\ ClientShape(client) /\ DOMAIN wire = {"half", "open", "text", "utf", "closed", "bad"}
      /\ DOMAIN hist = {"got", "torn", "lost", "misuse"} /\ hist.misuse = FALSE
  BY DEF WireInv, LifeInv, Shapes, ClientShape, Connection
<1>1. op[t].pc = "write2" /\ AfterWrite(t, stored)
      /\ wire' = (IF wire.half = t THEN Parsed(wire, op[t].frame) ELSE [wire EXCEPT !.bad = TRUE])
      /\ hist' = [hist EXCEPT !.misuse = @ \/ ~client.transport,
                              !.got = IF op[t].then = "reply" /\ Fits(op[t].frame)
                                      THEN Received(op[t].frame, stored) ELSE @]
  BY DEF WriteTail
<1>2. Writing(t)
  BY <1>1 DEF Writing
<1>3. Alone(t) /\ client.transport /\ ~client.closeSent
      /\ (engine.transportClosed => then = "announce")
  BY <1>0, <1>1, <1>2, UserLink
<1>4. wire.half = t /\ ~wire.closed /\ (~hist.torn => ~wire.bad /\ (then \notin {"data", "fail"} => Agreed(wire, client)))
  BY <1>1, <1>3, WireNow
<1>5. wire' = Parsed(wire, op[t].frame)
  BY <1>1, <1>4
<1>6. DOMAIN hist' = DOMAIN hist /\ hist'.misuse = hist.misuse /\ hist'.torn = hist.torn
  BY <1>0, <1>1, <1>3
<1>7. /\ t \in Senders => then \in {"data", "control"}
      /\ t = Receiver => then \in {"pong", "reply", "fail", "announce"}
      /\ t = Closer => then \in {"closeEx", "announce"}
  BY <1>0, <1>2 DEF LifeInv, Purposes
<1>8. /\ then \in {"control", "pong"} => op[t].frame.op \in {"ping", "pong"}
      /\ then \in {"reply", "fail", "closeEx", "announce"} => op[t].frame.op = "close"
  BY <1>0, <1>1 DEF LifeInv, Purposes, Labelled
<1>9. t \in Senders \/ t = Receiver \/ t = Closer
  BY DEF Threads
<1>10. /\ DOMAIN op = Threads
       /\ DOMAIN op[t] = {"pc", "type", "fin", "rest", "first", "len", "utf", "next", "frame", "then"}
       /\ DOMAIN Idle = {"pc", "type", "fin", "rest", "first", "len", "utf", "next", "frame", "then"}
  BY <1>0 DEF Shapes, Idle
<1>11. ASSUME then # "data"
       PROVE  /\ DOMAIN wire' = DOMAIN wire /\ wire'.half = "none" /\ wire'.open = wire.open
              /\ wire'.text = wire.text /\ wire'.utf = wire.utf /\ (wire'.bad <=> wire.bad)
              /\ then \in {"control", "pong"} => ~wire'.closed
  <2>1. op[t].frame.op \in {"ping", "pong", "close"}
    BY <1>7, <1>8, <1>9, <1>11
  <2>2. (wire'.closed <=> wire.closed \/ op[t].frame.op = "close") /\ (wire'.bad <=> wire.bad \/ wire.closed)
        /\ DOMAIN wire' = DOMAIN wire /\ wire'.half = "none" /\ wire'.open = wire.open
        /\ wire'.text = wire.text /\ wire'.utf = wire.utf
    BY <1>0, <1>5, <2>1, ParsedControl
  <2> QED BY <1>4, <1>8, <2>2
<1>12. ASSUME then # "data", NEW c, SameFor(c, client) \/ c = closing PROVE Agreed(wire, client) => Agreed(wire', c)
  <2>1. c.sendOpen = client.sendOpen /\ c.sendOp = client.sendOp /\ c.utf = client.utf
    BY <1>0, <1>12, ClosingClients DEF SameFor
  <2> QED BY <1>11, <1>12, <2>1 DEF Agreed
<1>13. CASE then = "data"
  <2>1. DataSent(t) /\ t \in Senders
    BY <1>1, <1>7, <1>9, <1>13 DEF AfterWrite
  <2> QED BY <1>1, <1>5, <1>6, <1>13, <2>1, DataSentKeeps
<1>14. CASE then = "control"
  <2>1. LeaveWith(t, client, FALSE) /\ t # Closer
    BY <1>1, <1>7, <1>14 DEF AfterWrite
  <2>2. CallKept(t) /\ Ended(t, client)
    BY <1>0, <1>3, <1>14, <2>1, LeavingEffect
  <2>3. ~Announces(t, client)
    BY <2>2 DEF Ended, Announces, Idle
  <2>4. SameFor(client, client)
    BY DEF SameFor
  <2> QED BY <1>3, <1>4, <1>6, <1>11, <1>12, <1>14, <2>2, <2>3, <2>4, EndWire
<1>15. CASE then = "pong"
  <2>1. client' = Consumed(client) /\ op' = [op EXCEPT ![t].pc = "read"] /\ engine' = engine
    BY <1>1, <1>15 DEF AfterWrite
  <2>2. ClientShape(client') /\ SameFor(client', client)
    BY <1>0, <2>1, ClientPieces
  <2>3. DOMAIN op' = Threads /\ (\A s \in Threads \ {t} : op'[s] = op[s]) /\ op'[t].pc = "read" /\ DOMAIN op'[t] = DOMAIN Idle
    BY <1>10, <2>1
  <2>4. Kept(t)
    BY <1>0, <1>6, <1>11, <1>15, <2>1, <2>2, <2>3 DEF Kept, ClientShape
  <2>5. GoesOn(t)
    BY <1>3, <1>7, <1>9, <1>15, <2>1, <2>2, <2>3, Distinct DEF GoesOn, Labelled, SameFor
  <2>6. t \notin Senders
    BY <1>7, <1>15
  <2> QED BY <1>3, <1>4, <1>6, <1>11, <1>12, <1>15, <2>2, <2>3, <2>4, <2>5, <2>6, GoesOnWire
<1>16. CASE then = "announce"
  <2>1. client' = closing /\ op' = [op EXCEPT ![t].pc = "wait"] /\ engine' = engine
    BY <1>1, <1>16 DEF AfterWrite
  <2>2. ClientShape(closing) /\ closing.connected = client.connected /\ closing.transport = client.transport
        /\ closing.closeSent = TRUE
    BY <1>0, ClosingClients
  <2>3. DOMAIN op' = Threads /\ (\A s \in Threads \ {t} : op'[s] = op[s]) /\ op'[t].pc = "wait" /\ DOMAIN op'[t] = DOMAIN Idle
        /\ op'[t].then = then
    BY <1>10, <2>1
  <2> HIDE DEF closing
  <2>4. Kept(t)
    BY <1>0, <1>6, <1>11, <1>16, <2>1, <2>2, <2>3 DEF Kept, ClientShape
  <2>5. GoesOn(t)
    BY <1>3, <1>7, <1>9, <1>16, <2>1, <2>2, <2>3, Distinct DEF GoesOn, Labelled
  <2>6. t \notin Senders
    BY <1>7, <1>16
  <2> QED BY <1>3, <1>4, <1>6, <1>11, <1>12, <1>16, <2>1, <2>2, <2>3, <2>4, <2>5, <2>6, GoesOnWire
<1>17. CASE then \in {"reply", "fail", "closeEx"}
  <2>1. ~hist'.torn => ~wire'.bad
    BY <1>4, <1>6, <1>11, <1>17
  <2>2. CASE then = "reply"
    <3> DEFINE d == CloseTransport([Consumed(closing) EXCEPT !.connected = FALSE])
    <3>1. LeaveWith(t, d, stored \/ ~Fits(op[t].frame))
      BY <1>1, <2>2 DEF AfterWrite, CloseTaken
    <3>2. ClientShape(d) /\ ~d.connected /\ ~d.transport
      BY <1>0, ClosingClients
    <3>3. t # Closer
      BY <1>7, <2>2
    <3> HIDE DEF d
    <3> QED BY <1>3, <1>6, <1>11, <1>17, <2>1, <3>1, <3>2, <3>3, LastEnd
  <2>3. CASE then = "fail"
    <3>1. LeaveWith(t, Lost(closing), TRUE)
      BY <1>1, <2>3 DEF AfterWrite, Lost
    <3>2. ClientShape(Lost(closing)) /\ ~Lost(closing).connected /\ ~Lost(closing).transport
      BY <1>0, ClosingClients
    <3> QED BY <1>3, <1>6, <1>11, <1>17, <2>1, <3>1, <3>2, LastEnd
  <2>4. CASE then = "closeEx"
    <3>1. CloseWebSocketTransport(t, ClientClosed(closing))
      BY <1>1, <2>4 DEF AfterWrite
    <3>2. ClientShape(ClientClosed(closing)) /\ ~ClientClosed(closing).connected /\ ~ClientClosed(closing).transport
      BY <1>0, ClosingClients
    <3> QED BY <1>3, <1>6, <1>11, <1>17, <2>1, <3>1, <3>2, LastEnd
  <2> QED BY <1>17, <2>2, <2>3, <2>4
<1> QED BY <1>7, <1>9, <1>13, <1>14, <1>15, <1>16, <1>17

\* The closing handshake ends, or is given up.
LEMMA CloseEndsKeeps ==
    ASSUME WireInv, NEW t \in Threads, Alone(t), NEW c, ClientShape(c), CloseEnds(t, c),
           wire' = wire, DOMAIN hist' = DOMAIN hist, hist'.misuse = hist.misuse, hist.torn => hist'.torn
    PROVE  WireInv'
<1>1. CallKept(t) /\ Ended(t, ClientClosed(c)) /\ ~ClientClosed(c).connected /\ ~ClientClosed(c).transport
  BY CloseEndsEffect, ClosedClient DEF WireInv, LifeInv
<1>2. ~hist'.torn => ~wire'.bad
  BY DEF WireInv, Fragments
<1> QED BY <1>1, <1>2, EndWire

LEMMA WriteFailsStep ==
    ASSUME WireInv, NEW t \in Threads, NEW terminal \in BOOLEAN, WriteFails(t, terminal)
    PROVE  WireInv'
<1> DEFINE then == op[t].then
           c == IF ~terminal THEN client
                ELSE IF engine.use.h2 THEN [client EXCEPT !.connected = FALSE]
                ELSE Lost(client)
<1>0. LifeInv /\ Shapes /\ ClientShape(client)
      /\ DOMAIN hist = {"got", "torn", "lost", "misuse"} /\ hist.misuse = FALSE
  BY DEF WireInv, LifeInv, Shapes, ClientShape, Connection
<1>1. op[t].pc \in (IF terminal THEN {"write", "write2"} ELSE {"write"}) /\ wire' = wire
      /\ hist' = [hist EXCEPT !.misuse = @ \/ (op[t].pc = "write2" /\ ~client.transport),
                              !.torn = @ \/ (op[t].then = "data" /\ ~terminal /\ ~op[t].first),
                              !.lost = @ \/ (op[t].then = "pong" /\ ~terminal /\ Forgets(client))]
  BY DEF WriteFails
<1>2. Writing(t)
  BY <1>1 DEF Writing
<1>3. Alone(t) /\ client.transport /\ (client.connected => client.transport)
      /\ (engine.transportClosed => then = "announce")
  BY <1>0, <1>2, UserLink
<1>4. /\ t \in Senders => then \in {"data", "control"}
      /\ t = Receiver => then \in {"pong", "reply", "fail", "announce"}
      /\ t = Closer => then \in {"closeEx", "announce"}
      /\ (t \in Senders \/ t = Receiver \/ t = Closer)
  BY <1>0, <1>2 DEF LifeInv, Purposes, Threads
<1>5. /\ DOMAIN hist' = DOMAIN hist /\ hist'.misuse = hist.misuse /\ (hist.torn => hist'.torn)
      /\ then = "data" /\ ~terminal /\ ~op[t].first => hist'.torn
  BY <1>0, <1>1, <1>3
<1>6. ClientShape(c) /\ (terminal => ~c.connected) /\ (~terminal => c = client)
  <2>1. LET d == [client EXCEPT !.connected = FALSE] IN ClientShape(d) /\ d.connected = FALSE
    BY <1>0 DEF ClientShape, FreshClient
  <2> QED BY <1>0, <2>1, LostClient
<1>7. ~hist'.torn => ~wire'.bad
  BY <1>1, <1>5 DEF WireInv, Fragments
<1>8. /\ then \in {"data", "control"} => LeaveWith(t, c, terminal)
      /\ then \in {"pong", "reply"} => LeaveWith(t, Forgotten(c), terminal)
      /\ then = "fail" => LeaveWith(t, Lost(c), TRUE)
      /\ then = "closeEx" => CloseWebSocketTransport(t, c)
      /\ then = "announce" => CloseEnds(t, c)
  BY DEF WriteFails, Lost
<1> HIDE DEF c
<1>9. ASSUME ~terminal PROVE SameFor(c, client) /\ op[t].pc # "write2" /\ (c.connected => c.transport)
  BY <1>1, <1>3, <1>6, <1>9 DEF SameFor
<1>10. ClientShape(Forgotten(c)) /\ SameFor(Forgotten(c), c) /\ (~terminal => SameFor(Forgotten(c), client))
  BY <1>6, <1>9, ClientPieces DEF SameFor
<1>11. terminal = TRUE \/ terminal = FALSE
  OBVIOUS
<1>12. CASE then \in {"data", "control"}
  <2>1. LeaveWith(t, c, terminal) /\ t # Closer /\ then # "announce" /\ then # "fail" /\ t \in Senders
    BY <1>4, <1>8, <1>12
  <2>2. CASE terminal = TRUE
    BY <1>1, <1>3, <1>5, <1>6, <1>7, <2>1, <2>2, LastEnd
  <2>3. CASE terminal = FALSE
    BY <1>1, <1>3, <1>5, <1>6, <1>9, <2>1, <2>3, QuietEnd
  <2> QED BY <1>11, <2>2, <2>3
<1>13. CASE then \in {"pong", "reply"}
  <2>1. LeaveWith(t, Forgotten(c), terminal) /\ t # Closer /\ then # "announce" /\ then # "fail" /\ then # "data"
    BY <1>4, <1>8, <1>13
  <2>2. CASE terminal = TRUE
    <3>1. ~Forgotten(c).connected
      BY <1>6, <1>10, <2>2 DEF SameFor
    <3> QED BY <1>1, <1>3, <1>5, <1>7, <1>10, <2>1, <2>2, <3>1, LastEnd
  <2>3. CASE terminal = FALSE
    <3>1. Forgotten(c).connected => Forgotten(c).transport
      BY <1>9, <1>10, <2>3 DEF SameFor
    <3> QED BY <1>1, <1>3, <1>5, <1>9, <1>10, <2>1, <2>3, <3>1, QuietEnd
  <2> QED BY <1>11, <2>2, <2>3
<1>14. CASE then = "fail"
  BY <1>1, <1>3, <1>5, <1>6, <1>7, <1>8, <1>14, LostClient, LastEnd
<1>15. CASE then = "closeEx"
  <2>1. LeaveWith(t, c, TRUE) /\ CloseWebSocketTransport(t, c) /\ t \notin Senders /\ then # "announce" /\ then # "fail" /\ then # "data"
    BY <1>4, <1>8, <1>15 DEF LeaveWith
  <2>2. CASE terminal = TRUE
    BY <1>1, <1>3, <1>5, <1>6, <1>7, <2>1, <2>2, LastEnd
  <2>3. CASE terminal = FALSE
    BY <1>1, <1>3, <1>5, <1>6, <1>9, <2>1, <2>3, QuietEnd
  <2> QED BY <1>11, <2>2, <2>3
<1>16. CASE then = "announce"
  BY <1>1, <1>3, <1>5, <1>6, <1>8, <1>16, CloseEndsKeeps
<1> QED BY <1>4, <1>12, <1>13, <1>14, <1>15, <1>16

-----------------------------------------------------------------------------
(***************************************************************************)
(* Close, and the invariant.                                               *)
(***************************************************************************)
LEMMA CloseSteps ==
    ASSUME WireInv, Close \/ CloseEx
    PROVE  WireInv'
<1>0. LifeInv /\ Shapes /\ ClientShape(client) /\ SameFor(client, client) /\ Closer \in Threads /\ Closer \notin Senders
      /\ Receiver # Closer
  BY Distinct DEF WireInv, LifeInv, Shapes, ClientShape, SameFor
<1>1. op[Closer].pc = "drain" /\ Drained /\ wire' = wire /\ hist' = hist
  BY DEF Close, CloseEx
<1>2. Alone(Closer) /\ ~Writing(Closer)
  BY <1>0, <1>1, DrainedAlone DEF Writing
<1>a. client.connected => client.transport
  BY <1>0, <1>2, Linked
<1>3. CASE Close
  <2>1. LeaveWith(Closer, client, TRUE)
    BY <1>3 DEF Close, LeaveWith
  <2> QED BY <1>0, <1>1, <1>2, <1>a, <2>1, QuietEnd
<1>4. CASE CloseEx /\ client.connected /\ ~client.closeSent /\ ~client.closeReceived
  <2>1. Write(Closer, CloseFrame, "closeEx") /\ engine' = engine /\ client' = client
    BY <1>4 DEF CloseEx
  <2>2. client.transport /\ ~engine.transportClosed
    BY <1>0, <1>2, <1>a, <1>4, Linked
  <2>3. Kept(Closer) /\ op'[Closer].pc = "write" /\ op'[Closer].then = "closeEx" /\ op'[Closer].frame = CloseFrame
    BY <1>0, <1>1, <2>1, Calling DEF Kept, ClientShape
  <2>4. GoesOn(Closer)
    BY <1>0, <1>4, <2>1, <2>2, <2>3, Frames DEF GoesOn, Labelled
  <2>5. wire.half = "none" /\ ~wire.closed /\ (~hist.torn => ~wire.bad /\ Agreed(wire, client))
    BY <1>0, <1>1, <1>2, <1>4, <2>2, WireNow
  <2> QED BY <1>0, <1>1, <1>2, <2>1, <2>3, <2>4, <2>5, GoesOnWire
<1>5. CASE CloseEx /\ ~(client.connected /\ ~client.closeSent /\ ~client.closeReceived)
  <2>1. CloseWebSocketTransport(Closer, ClientClosed(client))
    BY <1>5 DEF CloseEx
  <2>2. ClientShape(ClientClosed(client)) /\ ~ClientClosed(client).connected /\ ~ClientClosed(client).transport
    BY <1>0, ClosedClient
  <2>3. ~hist'.torn => ~wire'.bad
    BY <1>1 DEF WireInv, Fragments
  <2> QED BY <1>0, <1>1, <1>2, <2>1, <2>2, <2>3, LastEnd
<1> QED BY <1>3, <1>4, <1>5

LEMMA WaitSteps ==
    ASSUME WireInv, NEW t \in Threads, NEW f, NEW two, NEW end, WaitReads(t, f, two, end) \/ WaitSkips(t) \/ WaitEnds(t)
    PROVE  WireInv'
<1>0. LifeInv /\ ClientShape(client)
  BY DEF WireInv, LifeInv, Shapes, ClientShape
<1>1. CASE WaitReads(t, f, two, end)
  <2>1. op' = op /\ engine' = engine /\ wire' = wire /\ hist' = hist /\ ReadRaw(f, two, end)
    BY <1>1 DEF WaitReads
  <2> QED BY <1>0, <2>1, ReadRawSame, SameKeeps
<1>2. CASE WaitSkips(t)
  <2>1. op' = op /\ engine' = engine /\ wire' = wire /\ hist' = hist /\ client' = Consumed(client)
    BY <1>2 DEF WaitSkips
  <2> QED BY <1>0, <2>1, ClientPieces, SameKeeps
<1>3. CASE WaitEnds(t)
  <2>1. op[t].pc = "wait" /\ CloseEnds(t, client) /\ wire' = wire /\ hist' = hist
    BY <1>3 DEF WaitEnds
  <2>2. Alone(t)
    BY <1>0, <2>1, UserAlone DEF Writing
  <2> QED BY <1>0, <2>1, <2>2, CloseEndsKeeps
<1> QED BY <1>1, <1>2, <1>3

LEMMA WireInit == Init => WireInv
<1> SUFFICES ASSUME Init PROVE WireInv
  OBVIOUS
<1>1. /\ engine.phase = "connecting" /\ engine.transportClosed = FALSE
      /\ DOMAIN engine = {"phase", "connected", "transportClosed", "fragOpen", "fragType", "fragLen", "utf",
                          "use", "address", "confirm", "sends"}
  BY DEF Init
<1>2. client = FreshClient /\ client.connected = FALSE /\ client.transport = FALSE
  BY DEF Init, FreshClient
<1>3. DOMAIN op = Threads /\ \A t \in Threads : op[t] = Idle /\ op[t].pc = "idle"
  BY DEF Init, Idle
<1>4. /\ wire.half = "none" /\ wire.closed = FALSE /\ wire.open = FALSE /\ wire.bad = FALSE
      /\ DOMAIN wire = {"half", "open", "text", "utf", "closed", "bad"}
      /\ hist.misuse = FALSE /\ DOMAIN hist = {"got", "torn", "lost", "misuse"}
  BY DEF Init
<1>5. Shapes
  BY <1>1, <1>2, <1>3, <1>4 DEF Shapes
<1>6. Places /\ Purposes /\ Turns
  BY <1>1, <1>3, Distinct DEF Places, Purposes, Labelled, Turns, Writing, Inside
<1>7. Connection
  BY <1>1, <1>2, <1>3, <1>4 DEF Connection, Writing
<1>8. Framing /\ Fragments /\ \A s \in Senders : op[s].pc # "lock"
  BY <1>1, <1>2, <1>3, <1>4, Distinct DEF Framing, Fragments
<1> QED BY <1>5, <1>6, <1>7, <1>8 DEF WireInv, LifeInv

LEMMA WireStep ==
    ASSUME ~Duplex, WireInv, [Next]_wsVars
    PROVE  WireInv'
<1>1. CASE Calls
  <2>1. \A s \in Senders : s \in Threads
    BY Distinct
  <2> QED BY <1>1, <2>1, ConnectStep, SendStep, ReceiveBeginStep, CloseBeginStep DEF Calls
<1>2. ASSUME NEW t \in Threads, ThreadStep(t) PROVE WireInv'
  BY <1>2, SendFrameStep, SendControlFrameStep, WriteHeadStep, WriteTailStep, WriteFailsStep, WaitSteps DEF ThreadStep
<1>3. CASE UNCHANGED wsVars
  <2>1. ClientShape(client') /\ SameFor(client', client)
    BY <1>3 DEF WireInv, LifeInv, Shapes, ClientShape, SameFor, wsVars
  <2> QED BY <1>3, <2>1, SameKeeps DEF wsVars
<1> QED BY <1>1, <1>2, <1>3, ReceiverStepKeeps, CloseSteps DEF Next

\* A call that reads or writes has the transport to itself, and the peer's parser is where the
\* client takes it to be, at every step of KhWebSocketSend, KhWebSocketReceive and KhWebSocketClose,
\* as long as the caller does not receive and send at once.
THEOREM WebSocketInvariant ==
    ASSUME ~Duplex
    PROVE  Spec => []WireInv
BY WireInit, WireStep, PTL DEF Spec

\* CloseWebSocketTransport never frees the transport under a call that still reads or writes, and the
\* handle is freed only when no call is inside: WaitForWebSocketDrain and the locks are enough.
THEOREM TransportSafe ==
    ASSUME ~Duplex
    PROVE  Spec => []TransportOutlivesUse
<1>1. WireInv => TransportOutlivesUse
  BY DEF WireInv, LifeInv, Connection, Places, TransportOutlivesUse, Inside
<1> QED BY <1>1, WebSocketInvariant, PTL

\* What EncodeAndSendFrame puts on the wire for all threads together is a well-formed sequence of
\* frames: none inside another, fragments in order, text that is text, nothing behind a Close frame.
THEOREM WireCorrect ==
    ASSUME ~Duplex
    PROVE  Spec => []WireWellFormed
<1>1. WireInv => WireWellFormed
  BY DEF WireInv, Fragments, WireWellFormed
<1> QED BY <1>1, WebSocketInvariant, PTL
=============================================================================
