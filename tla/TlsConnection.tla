---------------------------- MODULE TlsConnection ----------------------------
(***************************************************************************)
(* An established TlsConnection: Send, Receive, the record layer           *)
(* (tls/TlsRecord.cpp) and the key updates between them.                   *)
(*                                                                         *)
(* Send and Receive run on two threads where the caller is full duplex     *)
(* (WebSocket, HTTP/2), on one otherwise; a client that answers            *)
(* certificate requests after the handshake does so from Receive, so only  *)
(* callers with one thread may allow them.  The transport keeps the order  *)
(* of bytes, so the peer opens a record when it is sent and decides what   *)
(* it sends when it is read; it sends what it likes but seals it           *)
(* correctly, and a record may be changed on the way.                      *)
(*                                                                         *)
(* A record is sealed under a key, the generation of the traffic secret    *)
(* and the sequence number; data is numbered, and each record of the peer  *)
(* holds two numbers, so that a caller's buffer may hold less than a       *)
(* record.                                                                 *)
(***************************************************************************)
EXTENDS Integers, Sequences, FiniteSets

CONSTANTS
    MaxSequence,       \* last sequence number, 2^64 - 1 in the code
    MaxData,           \* data records the client sends
    MaxPeerRecords,    \* records the peer sends
    MaxEmptyRecords,   \* TlsApplicationMaxEmptyRecords
    MaxPostHandshake   \* TlsApplicationMaxPostHandshakeRecords

VARIABLE rec

ASSUME RecordAssumption ==
    {MaxSequence, MaxData, MaxPeerRecords, MaxEmptyRecords, MaxPostHandshake} \subseteq Nat

FirstKey == [epoch |-> 0, seq |-> 0]
NextKey(key) == [epoch |-> key.epoch + 1, seq |-> 0]
NoRecord == [type |-> "none", key |-> FirstKey, body |-> <<>>]

\* What ConnectTls12 or ConnectTls13 leaves behind, and the peer's side of it.
Established(ver, duplex, auth) ==
    [open |-> TRUE, ver |-> ver, duplex |-> duplex, auth |-> auth,
     write |-> FirstKey, read |-> FirstKey, keyFlag |-> FALSE, out |-> NoRecord,
     sender |-> "idle", chunks |-> 0, receiver |-> "idle", empties |-> 0, posts |-> 0,
     plain |-> <<>>, torn |-> FALSE, outcome |-> "none",
     peerWrite |-> FirstKey, peerRead |-> FirstKey,
     sealed |-> {}, sent |-> 0, owed |-> 0, peerSent |-> 0, peerData |-> 0,
     peerGot |-> <<>>, got |-> <<>>, peerFailed |-> FALSE, reused |-> FALSE]

Closed == [Established(12, FALSE, FALSE) EXCEPT !.open = FALSE]

RecInit == rec \in {Established(12, FALSE, FALSE), Established(13, TRUE, FALSE), Established(13, FALSE, TRUE)}

-----------------------------------------------------------------------------
(***************************************************************************)
(* The record layer.                                                       *)
(***************************************************************************)
\* ValidateSequenceCanAdvance, and the increment that follows.
CanAdvance(key) == key.seq < MaxSequence
IncrementSequence(key) == [key EXCEPT !.seq = @ + 1]

\* ProtectAesGcm and its variants: seal under the write state and advance it.
Protect(r, type, body) ==
    [r EXCEPT !.out = [type |-> type, key |-> r.write, body |-> body],
              !.reused = @ \/ r.write \in r.sealed, !.sealed = @ \cup {r.write},
              !.write = IncrementSequence(@)]

\* SendAll: the peer opens the record under the key it has derived.
SendAll(r) ==
    LET opened == IF r.out.key # r.peerRead THEN [r EXCEPT !.peerFailed = TRUE]
                  ELSE IF r.out.type = "keyUpdate" THEN [r EXCEPT !.peerRead = NextKey(@)]
                  ELSE [r EXCEPT !.peerRead.seq = @ + 1, !.peerGot = @ \o r.out.body]
    IN [opened EXCEPT !.out = NoRecord]

\* UnprotectAesGcm and its variants: only what was sealed under the same key opens.
Unprotects(r, key) == key = r.read /\ CanAdvance(r.read)

\* Mutant: the sequence number goes on.
BadUpdateTrafficSecret(key) == [key EXCEPT !.epoch = @ + 1]

\* UpdateTls13ApplicationTrafficSecret
UpdateTrafficSecret(key) == NextKey(key)

-----------------------------------------------------------------------------
(***************************************************************************)
(* Send.                                                                   *)
(***************************************************************************)
Alone(thread) == rec.duplex \/ (IF thread = "sender" THEN rec.receiver ELSE rec.sender) = "idle"

Send ==
    /\ rec.open /\ rec.sender = "idle" /\ rec.outcome # "send_failed" /\ Alone("sender")
    /\ \E n \in 1 .. 2 :
          /\ rec.sent + n <= MaxData
          /\ rec' = [rec EXCEPT !.sender = IF rec.ver = 13 THEN "flag" ELSE "data", !.chunks = n]

\* SendPendingTls13KeyUpdate takes the flag.
TakeKeyUpdateFlag ==
    /\ rec.sender = "flag"
    /\ rec' = [rec EXCEPT !.keyFlag = FALSE, !.sender = IF rec.keyFlag THEN "keyUpdate" ELSE "data"]

SendFails(r) == [r EXCEPT !.sender = "idle", !.outcome = "send_failed", !.out = NoRecord]

ProtectKeyUpdate ==
    /\ rec.sender = "keyUpdate"
    /\ rec' = IF CanAdvance(rec.write) THEN [Protect(rec, "keyUpdate", <<>>) EXCEPT !.sender = "sendKeyUpdate"]
              ELSE SendFails(rec)

SendKeyUpdate ==
    /\ rec.sender = "sendKeyUpdate"
    /\ rec' = [SendAll(rec) EXCEPT !.sender = "newKey"]

UpdateWriteKey ==
    /\ rec.sender = "newKey"
    /\ rec' = [rec EXCEPT !.write = UpdateTrafficSecret(@), !.sender = "data", !.owed = 0]

\* A fragment of the data; another one starts with the flag again.
ProtectData ==
    /\ rec.sender = "data"
    /\ rec' = IF CanAdvance(rec.write)
              THEN [Protect(rec, "data", <<rec.sent + 1>>) EXCEPT !.sender = "sendData", !.sent = @ + 1,
                        !.owed = IF rec.keyFlag THEN @ + 1 ELSE @]
              ELSE SendFails(rec)

\* TLS 1.3 looks at the flag before every fragment.
AfterFragment(r) == IF r.chunks > 1 THEN IF r.ver = 13 THEN "flag" ELSE "data" ELSE "idle"

SendData ==
    /\ rec.sender = "sendData"
    /\ rec' = [SendAll(rec) EXCEPT !.chunks = @ - 1, !.sender = AfterFragment(rec)]

\* The transport refuses a record: Send returns and the connection is given up.
SendError ==
    /\ rec.sender \in {"sendKeyUpdate", "sendData"}
    /\ rec' = SendFails(rec)

-----------------------------------------------------------------------------
(***************************************************************************)
(* Receive.                                                                *)
(***************************************************************************)
Halted == {"closed", "failed", "crashed"}
Returns(r, outcome) == [r EXCEPT !.receiver = "idle", !.outcome = IF @ = "send_failed" THEN @ ELSE outcome]

\* Mutant: what is left of the last record is overwritten.
BadReceive ==
    /\ rec.open /\ rec.receiver = "idle" /\ rec.outcome \notin Halted /\ Alone("receiver")
    /\ rec' = [rec EXCEPT !.receiver = "reading", !.empties = 0, !.posts = 0]

\* What is left of the last record is returned first.
Receive ==
    /\ rec.open /\ rec.receiver = "idle" /\ rec.outcome \notin Halted /\ Alone("receiver")
    /\ rec' = IF rec.plain # <<>>
              THEN [rec EXCEPT !.got = Append(@, Head(rec.plain)), !.plain = Tail(@)]
              ELSE [rec EXCEPT !.receiver = "reading", !.empties = 0, !.posts = 0]

\* ReadRecord: the bytes that have come when the time is up are forgotten, since
\* inputLength_ moves with whole reads, and what comes next is no record.
ReceiveTimeout ==
    /\ rec.receiver = "reading"
    /\ \E torn \in {rec.torn, TRUE} : rec' = [Returns(rec, "timeout") EXCEPT !.torn = torn]

\* The peer's next record of a type, and how it is opened.
KeyUpdates == {"keyUpdate", "keyUpdateRequested"}
Readable == rec.receiver = "reading" /\ rec.peerSent < MaxPeerRecords /\ ~rec.torn /\ Unprotects(rec, rec.peerWrite)

Opened(r, type) ==
    [r EXCEPT !.read = IncrementSequence(@), !.peerSent = @ + 1,
              !.peerWrite = IF type \in KeyUpdates THEN NextKey(@) ELSE IncrementSequence(@)]

\* A record that does not open: changed on the way, torn, or of another key.
ReceiveGarbled ==
    /\ rec.receiver = "reading"
    /\ rec' = Returns(rec, "failed")

\* Application data: as much of it as the caller's buffer takes.
ReceiveData ==
    /\ Readable
    /\ \E n \in 1 .. 2 :
          LET body == <<rec.peerData + 1, rec.peerData + 2>>
          IN rec' = [Returns(Opened(rec, "data"), "data") EXCEPT !.got = @ \o SubSeq(body, 1, n),
                         !.plain = SubSeq(body, n + 1, 2), !.peerData = @ + 2]

ReceiveEmpty ==
    /\ Readable
    /\ rec' = IF rec.empties + 1 > MaxEmptyRecords THEN Returns(Opened(rec, "empty"), "failed")
              ELSE [Opened(rec, "empty") EXCEPT !.empties = @ + 1]

\* A close_notify, or another alert.
ReceiveAlert ==
    /\ Readable
    /\ \E outcome \in {"closed", "failed"} : rec' = Returns(Opened(rec, "alert"), outcome)

\* ConsumeTls13PostHandshakeRecord, one kind of message at a time.
PostHandshake == {"ticket", "certificateRequest"} \cup KeyUpdates

\* Certificate, CertificateVerify and Finished, from the receiving thread.
AnswerRequest(r) ==
    LET first == SendAll(Protect(r, "certificate", <<>>))
    IN SendAll(Protect(first, "finished", <<>>))

OnPostHandshake(r, type) ==
    CASE type = "ticket" -> r
      [] type = "certificateRequest" ->
            IF ~r.auth \/ r.outcome = "send_failed" \/ r.write.seq + 1 >= MaxSequence
            THEN Returns(r, "failed") ELSE AnswerRequest(r)
      [] OTHER -> [r EXCEPT !.read = UpdateTrafficSecret(@),
                            !.keyFlag = @ \/ type = "keyUpdateRequested"]

ReceivePostHandshake ==
    /\ Readable /\ rec.ver = 13
    /\ \E type \in PostHandshake :
          rec' = IF rec.posts + 1 > MaxPostHandshake THEN Returns(Opened(rec, type), "failed")
                 ELSE OnPostHandshake([Opened(rec, type) EXCEPT !.posts = @ + 1], type)

\* ConsumeOptionalPlainHandshakeRecord after TLS 1.2's handshake: the record is copied
\* to handshakeBuffer_, which ReleaseHandshakeScratch has set to null.
ReceiveHandshake12 ==
    /\ Readable /\ rec.ver = 12
    /\ rec' = Returns(Opened(rec, "handshake"), "crashed")

RecNext ==
    \/ Send \/ TakeKeyUpdateFlag \/ ProtectKeyUpdate \/ SendKeyUpdate \/ UpdateWriteKey
    \/ ProtectData \/ SendData \/ SendError
    \/ Receive \/ ReceiveTimeout \/ ReceiveGarbled \/ ReceiveData \/ ReceiveEmpty \/ ReceiveAlert
    \/ ReceivePostHandshake \/ ReceiveHandshake12

-----------------------------------------------------------------------------
(***************************************************************************)
(* Properties.                                                             *)
(***************************************************************************)
Counts(n) == [i \in 1 .. n |-> i]

\* No two records are sealed under the same secret and sequence number, and the peer
\* opens all it gets: key updates, requested while Send is under way, change the key
\* behind the record that announces it and nowhere else; and once the peer has asked
\* for new keys at most one record of data, the one that Send was at, goes out before
\* the KeyUpdate.
KeysInStep == ~rec.reused /\ ~rec.peerFailed /\ rec.owed <= 1

\* Either side gets a prefix of what the other one sent, in order and without a gap,
\* through partial reads, key updates, timeouts in the middle of a record and records
\* changed on the way.
DataInOrder ==
    /\ rec.got = Counts(Len(rec.got)) /\ Len(rec.got) <= rec.peerData
    /\ rec.peerGot = Counts(Len(rec.peerGot)) /\ Len(rec.peerGot) <= rec.sent
====
