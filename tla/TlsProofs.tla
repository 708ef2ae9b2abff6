------------------------------ MODULE TlsProofs ------------------------------
(***************************************************************************)
(* Theorems about TLS connections, for every value of the constants:      *)
(* an established connection (TlsConnection) and the second attempt at     *)
(* TLS 1.2 (TlsHandshake).                                                 *)
(*                                                                         *)
(* The two sides of the record layer are held together by RecordInv: what  *)
(* is in flight (out) is sealed under the key the peer will open it with,  *)
(* and the write key is that key, its successor, or one generation behind  *)
(* it, as the place of Send says.  The peer's data is split between what   *)
(* the caller has and what is left of the last record.                     *)
(***************************************************************************)
EXTENDS MCTls, SequenceTheorems, TLAPS

Keys == [epoch : Nat, seq : Nat]
Sealeds == [type : {"none", "keyUpdate", "data", "certificate", "finished"}, key : Keys, body : Seq(Nat)]
Senders == {"idle", "flag", "keyUpdate", "sendKeyUpdate", "newKey", "data", "sendData"}
Outcomes == {"none", "send_failed", "timeout", "data", "closed", "failed", "crashed"}

Records ==
    [open : BOOLEAN, ver : {12, 13}, duplex : BOOLEAN, auth : BOOLEAN,
     write : Keys, read : Keys, keyFlag : BOOLEAN, out : Sealeds,
     sender : Senders, chunks : Int, receiver : {"idle", "reading"}, empties : Nat, posts : Nat,
     plain : Seq(Nat), torn : BOOLEAN, outcome : Outcomes,
     peerWrite : Keys, peerRead : Keys,
     sealed : SUBSET Keys, sent : Nat, owed : Nat, peerSent : Nat, peerData : Nat,
     peerGot : Seq(Nat), got : Seq(Nat), peerFailed : BOOLEAN, reused : BOOLEAN]

\* A key that was in use before another one.
Before(k, key) == k.epoch < key.epoch \/ (k.epoch = key.epoch /\ k.seq < key.seq)
Advanced(key) == [epoch |-> key.epoch, seq |-> key.seq + 1]

\* Whatever was sealed was sealed before the write key, each time under another key.
Sealing(r) == ~r.reused /\ \A k \in r.sealed : Before(k, r.write)

\* Where the peer's read key is, by the place of Send; a failed Send ends this.
InStep(r) ==
    /\ ~r.peerFailed
    /\ r.sender # "idle" => r.outcome # "send_failed"
    /\ r.outcome # "send_failed" =>
        /\ r.sender \in {"idle", "flag", "keyUpdate", "data"} => r.write = r.peerRead
        /\ r.sender \in {"sendKeyUpdate", "sendData"} => r.out.key = r.peerRead /\ r.write = Advanced(r.peerRead)
        /\ r.sender = "sendKeyUpdate" => r.out.type = "keyUpdate"
        /\ r.sender = "sendData" => r.out.type = "data" /\ r.out.body = <<r.sent>>
        /\ r.sender = "newKey" => r.peerRead = NextKey(r.write)
        /\ r.sender # "sendData" => Len(r.peerGot) = r.sent
        /\ r.sender = "sendData" => Len(r.peerGot) + 1 = r.sent

\* Data that went out behind a request for new keys: Send has not looked at the flag since.
Owing(r) ==
    /\ r.owed <= 1
    /\ r.ver = 12 => ~r.keyFlag /\ r.owed = 0 /\ r.sender \in {"idle", "data", "sendData"}
    /\ r.sender = "data" => r.owed = 0
    /\ r.outcome # "send_failed" /\ r.sender \in {"idle", "flag", "sendData"} => r.owed = 0 \/ r.keyFlag

\* Only callers with one thread answer certificate requests, and they do one thing at a time.
Turns(r) ==
    /\ r.auth => ~r.duplex
    /\ ~r.duplex => r.sender = "idle" \/ r.receiver = "idle"

\* The peer's data: with the caller, then left of the last record; none left while reading.
Taking(r) ==
    /\ r.got = Counts(Len(r.got))
    /\ Len(r.got) + Len(r.plain) = r.peerData
    /\ \A i \in 1 .. Len(r.plain) : r.plain[i] = Len(r.got) + i
    /\ r.receiver = "reading" => r.plain = <<>>

\* The caller's data with the peer.
Giving(r) == r.peerGot = Counts(Len(r.peerGot)) /\ Len(r.peerGot) <= r.sent

RecordInv ==
    /\ rec \in Records /\ Sealing(rec) /\ InStep(rec) /\ Owing(rec)
    /\ Turns(rec) /\ Taking(rec) /\ Giving(rec)

-----------------------------------------------------------------------------
(***************************************************************************)
(* Keys and sequences.                                                     *)
(***************************************************************************)
LEMMA KeyTypes ==
    /\ FirstKey \in Keys
    /\ \A k \in Keys : NextKey(k) \in Keys /\ Advanced(k) \in Keys
    /\ \A k \in Keys : IncrementSequence(k) = Advanced(k)
    /\ \A k \in Keys : [k EXCEPT !.seq = @ + 1] = Advanced(k)
    /\ \A k \in Keys : UpdateTrafficSecret(k) = NextKey(k)
BY DEF FirstKey, NextKey, Advanced, IncrementSequence, UpdateTrafficSecret, Keys

LEMMA KeysMove ==
    ASSUME NEW key \in Keys
    PROVE  /\ Before(key, Advanced(key)) /\ ~Before(key, key)
           /\ \A k \in Keys : Before(k, key) => Before(k, Advanced(key)) /\ Before(k, NextKey(key))
BY DEF Keys, Before, Advanced, NextKey

LEMMA SealedTypes ==
    /\ NoRecord \in Sealeds
    /\ \A k \in Keys, type \in {"keyUpdate", "data", "certificate", "finished"}, body \in Seq(Nat) :
          [type |-> type, key |-> k, body |-> body] \in Sealeds
<1>1. <<>> \in Seq(Nat)
  OBVIOUS
<1> QED BY <1>1, KeyTypes DEF Sealeds, NoRecord

LEMMA Sums ==
    /\ \A a \in Nat, i \in Nat : a + (i + 1) = (a + 1) + i
    /\ \A a \in Nat, b \in Nat : (a + 1) + (b - 1) = a + b
OBVIOUS

LEMMA CountsTypes ==
    ASSUME NEW n \in Nat
    PROVE  /\ Counts(n) \in Seq(Nat) /\ Len(Counts(n)) = n
           /\ \A i \in 1 .. n : Counts(n)[i] = i
BY DEF Counts

LEMMA CountsExtend ==
    ASSUME NEW s \in Seq(Nat), s = Counts(Len(s)), NEW x \in Nat, x = Len(s) + 1
    PROVE  /\ Append(s, x) \in Seq(Nat) /\ Len(Append(s, x)) = Len(s) + 1
           /\ Append(s, x) = Counts(Len(s) + 1)
           /\ s \o <<x>> = Append(s, x)
<1>1. Append(s, x) \in Seq(Nat) /\ Len(Append(s, x)) = Len(s) + 1
  OBVIOUS
<1>2. \A i \in 1 .. Len(s) + 1 : Append(s, x)[i] = i
  BY DEF Counts
<1>3. Append(s, x) = Counts(Len(s) + 1)
  <2>1. Len(s) \in Nat
    OBVIOUS
  <2>2. Append(s, x) = [i \in 1 .. Len(s) + 1 |-> Append(s, x)[i]]
    BY <1>1
  <2> QED BY <1>2, <2>1, <2>2 DEF Counts
<1>4. s \o <<x>> = Append(s, x)
  OBVIOUS
<1> QED BY <1>1, <1>3, <1>4

LEMMA Pairs ==
    ASSUME NEW x \in Nat, NEW y \in Nat
    PROVE  /\ SubSeq(<<x, y>>, 1, 1) = <<x>> /\ SubSeq(<<x, y>>, 2, 2) = <<y>>
           /\ SubSeq(<<x, y>>, 1, 2) = <<x, y>> /\ SubSeq(<<x, y>>, 3, 2) = <<>>
           /\ \A s \in Seq(Nat) : s \o <<x, y>> = Append(Append(s, x), y)
<1>1. <<x, y>> \in Seq(Nat) /\ Len(<<x, y>>) = 2 /\ <<x, y>>[1] = x /\ <<x, y>>[2] = y
  OBVIOUS
<1> DEFINE b == <<x, y>>
<1>0. ASSUME NEW s \in Seq(Nat), Len(s) = 1 PROVE s = <<s[1]>>
  <2>0. s[1] \in Nat
    BY <1>0, ElementOfSeq
  <2>1. <<s[1]>> \in Seq(Nat) /\ Len(<<s[1]>>) = 1
    BY <2>0
  <2>2. \A i \in 1 .. Len(s) : s[i] = <<s[1]>>[i]
    BY <1>0
  <2> QED BY <1>0, <2>1, <2>2, SeqEqual
<1>2. SubSeq(b, 1, 1) = <<x>>
  <2>1. SubSeq(b, 1, 1) \in Seq(Nat) /\ Len(SubSeq(b, 1, 1)) = 1 /\ SubSeq(b, 1, 1)[1] = x
    BY <1>1, SubSeqProperties
  <2> QED BY <1>0, <2>1
<1>3. SubSeq(b, 2, 2) = <<y>>
  <2>1. SubSeq(b, 2, 2) \in Seq(Nat) /\ Len(SubSeq(b, 2, 2)) = 1 /\ SubSeq(b, 2, 2)[1] = y
    BY <1>1, SubSeqProperties
  <2> QED BY <1>0, <2>1
<1>4. SubSeq(b, 1, 2) = b
  BY <1>1, SubSeqFull
<1>5. SubSeq(b, 3, 2) = <<>>
  BY <1>1, SubSeqProperties
<1>6. ASSUME NEW s \in Seq(Nat) PROVE s \o <<x, y>> = Append(Append(s, x), y)
  <2>1. /\ s \o <<x, y>> \in Seq(Nat) /\ Len(s \o <<x, y>>) = Len(s) + 2
    OBVIOUS
  <2>2. /\ Append(Append(s, x), y) \in Seq(Nat) /\ Len(Append(Append(s, x), y)) = Len(s) + 2
    OBVIOUS
  <2>3. \A i \in 1 .. Len(s) + 2 : (s \o <<x, y>>)[i] = Append(Append(s, x), y)[i]
    OBVIOUS
  <2> QED BY <2>1, <2>2, <2>3, SeqEqual
<1> QED BY <1>2, <1>3, <1>4, <1>5, <1>6

-----------------------------------------------------------------------------
(***************************************************************************)
(* The operators of the record layer, field by field.                      *)
(***************************************************************************)
\* Protect: the record is in flight under the write key, which advances.
ProtectedAs(r, p, type, body) ==
    /\ p.ver = r.ver /\ p.duplex = r.duplex /\ p.auth = r.auth /\ p.keyFlag = r.keyFlag
    /\ p.sender = r.sender /\ p.receiver = r.receiver /\ p.plain = r.plain /\ p.outcome = r.outcome
    /\ p.peerRead = r.peerRead /\ p.sent = r.sent /\ p.owed = r.owed /\ p.peerData = r.peerData
    /\ p.peerGot = r.peerGot /\ p.got = r.got /\ p.peerFailed = r.peerFailed
    /\ p.out.type = type /\ p.out.key = r.write /\ p.out.body = body
    /\ p.write = Advanced(r.write) /\ p.sealed = r.sealed \cup {r.write}
    /\ p.reused <=> r.reused \/ r.write \in r.sealed

LEMMA ProtectFields ==
    ASSUME NEW r \in Records, NEW type \in {"keyUpdate", "data", "certificate", "finished"}, NEW body \in Seq(Nat)
    PROVE  Protect(r, type, body) \in Records /\ ProtectedAs(r, Protect(r, type, body), type, body)
<1> DEFINE p == Protect(r, type, body)
           o == [type |-> type, key |-> r.write, body |-> body]
           S == r.sealed \cup {r.write}
           w == Advanced(r.write)
<1>1. r.write \in Keys /\ r.sealed \subseteq Keys /\ r.reused \in BOOLEAN
  BY DEF Records
<1>2. o \in Sealeds /\ S \in SUBSET Keys /\ w \in Keys /\ IncrementSequence(r.write) = w
  BY <1>1, SealedTypes, KeyTypes
<1>3. p \in Records
  <2>1. p = [r EXCEPT !.out = o, !.reused = r.reused \/ r.write \in r.sealed, !.sealed = S, !.write = w]
    BY <1>2 DEF Protect, Records
  <2>2. ASSUME NEW a \in Sealeds, NEW b, NEW T \in SUBSET Keys, NEW k \in Keys
        PROVE  [r EXCEPT !.out = a, !.reused = r.reused \/ b \in r.sealed, !.sealed = T, !.write = k] \in Records
    BY <1>1, ZenonT(60) DEF Records
  <2> HIDE DEF o, S, w
  <2>3. [r EXCEPT !.out = o, !.reused = r.reused \/ r.write \in r.sealed, !.sealed = S, !.write = w] \in Records
    BY <1>2, <2>2, Zenon
  <2> QED BY <2>1, <2>3, Zenon
<1>4. p.out = o
  BY DEF Protect, Records
<1>5. p.out.type = type /\ p.out.key = r.write /\ p.out.body = body
  BY <1>4
<1>6. p.write = w
  BY <1>2 DEF Protect, Records
<1>7. p.sealed = S
  BY DEF Protect, Records
<1>8. p.reused <=> r.reused \/ r.write \in r.sealed
  BY DEF Protect, Records
<1>9. /\ p.ver = r.ver /\ p.duplex = r.duplex /\ p.auth = r.auth /\ p.keyFlag = r.keyFlag
      /\ p.sender = r.sender /\ p.receiver = r.receiver /\ p.plain = r.plain /\ p.outcome = r.outcome
      /\ p.peerRead = r.peerRead /\ p.sent = r.sent /\ p.owed = r.owed /\ p.peerData = r.peerData
      /\ p.peerGot = r.peerGot /\ p.got = r.got /\ p.peerFailed = r.peerFailed
  BY DEF Protect, Records
<1> QED BY <1>3, <1>5, <1>6, <1>7, <1>8, <1>9 DEF ProtectedAs

\* SendAll of a record under the peer's key: the peer opens it and follows.
Delivered(r, p) ==
    /\ p.ver = r.ver /\ p.duplex = r.duplex /\ p.auth = r.auth /\ p.keyFlag = r.keyFlag
    /\ p.sender = r.sender /\ p.receiver = r.receiver /\ p.plain = r.plain /\ p.outcome = r.outcome
    /\ p.sent = r.sent /\ p.owed = r.owed /\ p.peerData = r.peerData
    /\ p.got = r.got /\ p.peerFailed = r.peerFailed /\ p.reused = r.reused
    /\ p.write = r.write /\ p.sealed = r.sealed
    /\ r.out.type = "keyUpdate" => p.peerRead = NextKey(r.peerRead) /\ p.peerGot = r.peerGot
    /\ r.out.type # "keyUpdate" => p.peerRead = Advanced(r.peerRead) /\ p.peerGot = r.peerGot \o r.out.body

LEMMA SendAllFields ==
    ASSUME NEW r \in Records, r.out.key = r.peerRead
    PROVE  SendAll(r) \in Records /\ Delivered(r, SendAll(r))
<1>1. /\ r.peerRead \in Keys /\ r.peerGot \in Seq(Nat) /\ r.out \in Sealeds
      /\ NoRecord \in Sealeds
  BY SealedTypes DEF Records
<1>2. r.out.body \in Seq(Nat)
  BY <1>1 DEF Sealeds
<1>3. r.peerGot \o r.out.body \in Seq(Nat)
  BY <1>1, <1>2
<1>4. NextKey(r.peerRead) \in Keys /\ Advanced(r.peerRead) \in Keys
      /\ [r.peerRead EXCEPT !.seq = @ + 1] = Advanced(r.peerRead)
  BY <1>1, KeyTypes
<1>5. CASE r.out.type = "keyUpdate"
  <2>1. SendAll(r) = [r EXCEPT !.peerRead = NextKey(r.peerRead), !.out = NoRecord]
    BY <1>5 DEF SendAll, Records
  <2>2. [r EXCEPT !.peerRead = NextKey(r.peerRead), !.out = NoRecord] \in Records
    BY <1>1, <1>4 DEF Records
  <2> QED BY <1>5, <2>1, <2>2 DEF Delivered, Records
<1>6. CASE r.out.type # "keyUpdate"
  <2> DEFINE k == Advanced(r.peerRead)
             s == r.peerGot \o r.out.body
  <2>1. SendAll(r) = [[r EXCEPT !.peerRead.seq = @ + 1, !.peerGot = @ \o r.out.body] EXCEPT !.out = NoRecord]
    BY <1>6 DEF SendAll
  <2>2. [r EXCEPT !.peerRead.seq = @ + 1, !.peerGot = @ \o r.out.body]
          = [r EXCEPT !.peerRead = k, !.peerGot = s]
    BY <1>4 DEF Records
  <2>3. SendAll(r) = [r EXCEPT !.peerRead = k, !.peerGot = s, !.out = NoRecord]
    BY <2>1, <2>2 DEF Records
  <2>4. k \in Keys /\ s \in Seq(Nat)
    BY <1>3, <1>4
  <2>5. k = Advanced(r.peerRead) /\ s = r.peerGot \o r.out.body
    OBVIOUS
  <2> HIDE DEF k, s
  <2>6. SendAll(r) \in Records
    BY <1>1, <2>3, <2>4, ZenonT(60) DEF Records
  <2> QED BY <1>6, <2>3, <2>5, <2>6, ZenonT(60) DEF Delivered, Records
<1> QED BY <1>5, <1>6

\* Opened: both ends of the peer's direction move on, and nothing else.
LEMMA OpenedFields ==
    ASSUME NEW r \in Records, NEW type
    PROVE  /\ Opened(r, type) \in Records
           /\ \E k1 \in Keys, k2 \in Keys :
                Opened(r, type) = [r EXCEPT !.read = k1, !.peerSent = r.peerSent + 1, !.peerWrite = k2]
<1>1. r.read \in Keys /\ r.peerWrite \in Keys /\ r.peerSent \in Nat
  BY DEF Records
<1> DEFINE k1 == IncrementSequence(r.read)
           k2 == IF type \in KeyUpdates THEN NextKey(r.peerWrite) ELSE IncrementSequence(r.peerWrite)
<1>2. k1 \in Keys /\ k2 \in Keys
  BY <1>1, KeyTypes
<1>3. Opened(r, type) = [r EXCEPT !.read = k1, !.peerSent = r.peerSent + 1, !.peerWrite = k2]
  BY DEF Opened, Records
<1>4. ASSUME NEW a \in Keys, NEW n \in Nat, NEW b \in Keys
      PROVE  [r EXCEPT !.read = a, !.peerSent = n, !.peerWrite = b] \in Records
  BY DEF Records
<1> HIDE DEF k1, k2
<1>5. r.peerSent + 1 \in Nat
  BY <1>1
<1>6. Opened(r, type) \in Records
  BY <1>2, <1>3, <1>4, <1>5, ZenonT(60)
<1> QED BY <1>2, <1>3, <1>6

\* Returns: the receiving thread is idle, and a failed Send is not forgotten.
LEMMA ReturnsFields ==
    ASSUME NEW r \in Records, NEW outcome \in Outcomes
    PROVE  /\ Returns(r, outcome) \in Records
           /\ \E o \in Outcomes :
                /\ Returns(r, outcome) = [r EXCEPT !.receiver = "idle", !.outcome = o]
                /\ r.outcome = "send_failed" => o = "send_failed"
                /\ r.outcome # "send_failed" => o = outcome
<1>1. r.outcome \in Outcomes
  BY DEF Records
<1> DEFINE o == IF r.outcome = "send_failed" THEN r.outcome ELSE outcome
<1>2. o \in Outcomes
  BY <1>1
<1>3. Returns(r, outcome) = [r EXCEPT !.receiver = "idle", !.outcome = o]
  BY DEF Returns, Records
<1>4. ASSUME NEW x \in Outcomes
      PROVE  [r EXCEPT !.receiver = "idle", !.outcome = x] \in Records
  BY DEF Records
<1>5. Returns(r, outcome) \in Records
  BY <1>2, <1>3, <1>4
<1>6. /\ r.outcome = "send_failed" => o = "send_failed"
      /\ r.outcome # "send_failed" => o = outcome
  OBVIOUS
<1> QED BY <1>2, <1>3, <1>5, <1>6

\* SendFails: nothing is in flight any more, and the connection is given up.
LEMMA SendFailsFields ==
    ASSUME NEW r \in Records
    PROVE  /\ SendFails(r) \in Records
           /\ SendFails(r) = [r EXCEPT !.sender = "idle", !.outcome = "send_failed", !.out = NoRecord]
<1>1. [r EXCEPT !.sender = "idle", !.outcome = "send_failed", !.out = NoRecord] \in Records
  BY SealedTypes DEF Records, Senders, Outcomes
<1> QED BY <1>1 DEF SendFails

-----------------------------------------------------------------------------
(***************************************************************************)
(* RecordInv is an invariant.                                              *)
(***************************************************************************)
RecordOk(r) ==
    /\ r \in Records /\ Sealing(r) /\ InStep(r) /\ Owing(r) /\ Turns(r) /\ Taking(r) /\ Giving(r)

\* What a step leaves alone: the caller's choices, the way out, the way in.
SameKind(r, s) == s.ver = r.ver /\ s.duplex = r.duplex /\ s.auth = r.auth
SameOut(r, s) ==
    /\ s.write = r.write /\ s.out = r.out /\ s.sender = r.sender /\ s.sealed = r.sealed
    /\ s.sent = r.sent /\ s.owed = r.owed /\ s.peerRead = r.peerRead /\ s.peerGot = r.peerGot
    /\ s.peerFailed = r.peerFailed /\ s.reused = r.reused
SameIn(r, s) == s.got = r.got /\ s.plain = r.plain /\ s.peerData = r.peerData
SameFailed(r, s) == s.outcome = "send_failed" <=> r.outcome = "send_failed"

LEMMA EstablishedOk ==
    ASSUME NEW ver \in {12, 13}, NEW duplex \in BOOLEAN, NEW auth \in BOOLEAN, auth => ~duplex
    PROVE  /\ RecordOk(Established(ver, duplex, auth))
           /\ RecordOk([Established(ver, duplex, auth) EXCEPT !.open = FALSE])
<1> DEFINE r == Established(ver, duplex, auth)
<1>1. <<>> \in Seq(Nat) /\ Len(<<>>) = 0 /\ {} \in SUBSET Keys /\ FirstKey \in Keys /\ NoRecord \in Sealeds
  BY KeyTypes, SealedTypes
<1>2. r \in Records
  BY <1>1 DEF Established, Records, Senders, Outcomes
<1>3. /\ r.ver = ver /\ r.duplex = duplex /\ r.auth = auth /\ r.write = FirstKey /\ r.peerRead = FirstKey
      /\ ~r.keyFlag /\ r.sender = "idle" /\ r.receiver = "idle" /\ r.plain = <<>> /\ r.outcome = "none"
      /\ r.sealed = {} /\ r.sent = 0 /\ r.owed = 0 /\ r.peerData = 0 /\ r.peerGot = <<>> /\ r.got = <<>>
      /\ ~r.peerFailed /\ ~r.reused
  BY DEF Established
<1>4. Counts(0) = <<>>
  BY DEF Counts
<1> HIDE DEF r
<1>5. RecordOk(r)
  BY <1>1, <1>2, <1>3, <1>4 DEF RecordOk, Sealing, InStep, Owing, Turns, Taking, Giving
<1>6. [r EXCEPT !.open = FALSE] \in Records
  BY <1>2 DEF Records
<1>7. RecordOk([r EXCEPT !.open = FALSE])
  <2> DEFINE s == [r EXCEPT !.open = FALSE]
  <2>1. SameKind(r, s) /\ SameOut(r, s) /\ SameIn(r, s)
        /\ s.keyFlag = r.keyFlag /\ s.outcome = r.outcome /\ s.receiver = r.receiver
    BY <1>2 DEF Records, SameKind, SameOut, SameIn
  <2> HIDE DEF s
  <2>2. RecordOk(s)
    BY <1>5, <1>6, <2>1, ZenonT(60) DEF s, SameKind, SameOut, SameIn, RecordOk, Sealing, InStep, Owing, Turns, Taking, Giving
  <2> QED BY <2>2 DEF s
<1> QED BY <1>5, <1>7 DEF r

LEMMA RecordInit == Connecting \/ Connected => RecordInv
<1>1. RecordOk(Closed)
  BY EstablishedOk DEF Closed
<1>2. \A r \in {Established(12, FALSE, FALSE), Established(13, TRUE, FALSE), Established(13, FALSE, TRUE)} : RecordOk(r)
  BY EstablishedOk
<1>3. Connecting \/ Connected => RecordOk(rec)
  BY <1>1, <1>2 DEF Connecting, Connected, RecInit
<1> QED BY <1>3 DEF RecordInv, RecordOk

\* Send takes its turn.
LEMMA SendStep == RecordInv /\ Send => RecordInv'
<1> SUFFICES ASSUME RecordInv, Send PROVE RecordInv'
  OBVIOUS
<1>0. rec \in Records
  BY DEF RecordInv
<1> PICK n \in 1 .. 2 : rec' = [rec EXCEPT !.sender = IF rec.ver = 13 THEN "flag" ELSE "data", !.chunks = n]
  BY DEF Send
<1>1. rec' = [rec EXCEPT !.sender = IF rec.ver = 13 THEN "flag" ELSE "data", !.chunks = n]
  OBVIOUS
<1>2. /\ rec.ver \in {12, 13} /\ rec.sender = "idle" /\ rec.outcome # "send_failed"
      /\ rec.duplex \/ rec.receiver = "idle"
      /\ rec.owed \in Nat /\ rec.keyFlag \in BOOLEAN
  BY <1>0 DEF Send, Alone, Records
<1>3. rec' \in Records
  <2>1. ASSUME NEW v1 \in Senders, NEW v2 \in Int
      PROVE  [rec EXCEPT !.sender = v1, !.chunks = v2] \in Records
    BY <1>0 DEF Records
  <2>2. (IF rec.ver = 13 THEN "flag" ELSE "data") \in Senders
    BY DEF Senders
  <2>3. (n) \in Int
    OBVIOUS
  <2> QED BY <1>1, <2>1, <2>2, <2>3, ZenonT(60)
<1>4. /\ rec'.ver = rec.ver /\ rec'.duplex = rec.duplex /\ rec'.auth = rec.auth
      /\ rec'.write = rec.write /\ rec'.keyFlag = rec.keyFlag /\ rec'.out = rec.out
      /\ rec'.sender = (IF rec.ver = 13 THEN "flag" ELSE "data") /\ rec'.receiver = rec.receiver
      /\ rec'.plain = rec.plain /\ rec'.outcome = rec.outcome /\ rec'.peerRead = rec.peerRead
      /\ rec'.sealed = rec.sealed /\ rec'.sent = rec.sent /\ rec'.owed = rec.owed
      /\ rec'.peerData = rec.peerData /\ rec'.peerGot = rec.peerGot /\ rec'.got = rec.got
      /\ rec'.peerFailed = rec.peerFailed /\ rec'.reused = rec.reused
  BY <1>0, <1>1 DEF Records
<1>5. Sealing(rec')
  BY <1>2, <1>4 DEF RecordInv, Sealing
<1>6. InStep(rec')
  BY <1>2, <1>4 DEF RecordInv, InStep
<1>7. Owing(rec')
  BY <1>2, <1>4 DEF RecordInv, Owing
<1>8. Turns(rec')
  BY <1>2, <1>4 DEF RecordInv, Turns
<1>9. Taking(rec')
  BY <1>2, <1>4 DEF RecordInv, Taking
<1>10. Giving(rec')
  BY <1>2, <1>4 DEF RecordInv, Giving
<1> QED BY <1>3, <1>5, <1>6, <1>7, <1>8, <1>9, <1>10 DEF RecordInv

\* The flag is taken: no data is owed, or the key update comes next.
LEMMA FlagStep == RecordInv /\ TakeKeyUpdateFlag => RecordInv'
<1> SUFFICES ASSUME RecordInv, TakeKeyUpdateFlag PROVE RecordInv'
  OBVIOUS
<1>0. rec \in Records
  BY DEF RecordInv
<1>1. rec' = [rec EXCEPT !.keyFlag = FALSE, !.sender = IF rec.keyFlag THEN "keyUpdate" ELSE "data"]
  BY DEF TakeKeyUpdateFlag
<1>2. /\ rec.sender = "flag" /\ rec.outcome # "send_failed" /\ rec.ver # 12
      /\ rec.owed \in Nat /\ rec.keyFlag \in BOOLEAN /\ rec.ver \in {12, 13}
  BY <1>0 DEF TakeKeyUpdateFlag, RecordInv, InStep, Owing, Records
<1>3. rec' \in Records
  <2>1. ASSUME NEW v1 \in BOOLEAN, NEW v2 \in Senders
      PROVE  [rec EXCEPT !.keyFlag = v1, !.sender = v2] \in Records
    BY <1>0 DEF Records
  <2>2. (FALSE) \in BOOLEAN
    OBVIOUS
  <2>3. (IF rec.keyFlag THEN "keyUpdate" ELSE "data") \in Senders
    BY DEF Senders
  <2> QED BY <1>1, <2>1, <2>2, <2>3
<1>4. /\ rec'.ver = rec.ver /\ rec'.duplex = rec.duplex /\ rec'.auth = rec.auth
      /\ rec'.write = rec.write /\ rec'.keyFlag = FALSE /\ rec'.out = rec.out
      /\ rec'.sender = (IF rec.keyFlag THEN "keyUpdate" ELSE "data")
      /\ rec'.receiver = rec.receiver /\ rec'.plain = rec.plain /\ rec'.outcome = rec.outcome
      /\ rec'.peerRead = rec.peerRead /\ rec'.sealed = rec.sealed /\ rec'.sent = rec.sent
      /\ rec'.owed = rec.owed /\ rec'.peerData = rec.peerData /\ rec'.peerGot = rec.peerGot
      /\ rec'.got = rec.got /\ rec'.peerFailed = rec.peerFailed /\ rec'.reused = rec.reused
  BY <1>0, <1>1 DEF Records
<1>5. Sealing(rec')
  BY <1>2, <1>4 DEF RecordInv, Sealing
<1>6. InStep(rec')
  BY <1>2, <1>4 DEF RecordInv, InStep
<1>7. Owing(rec')
  BY <1>2, <1>4 DEF RecordInv, Owing
<1>8. Turns(rec')
  BY <1>2, <1>4 DEF RecordInv, Turns
<1>9. Taking(rec')
  BY <1>2, <1>4 DEF RecordInv, Taking
<1>10. Giving(rec')
  BY <1>2, <1>4 DEF RecordInv, Giving
<1> QED BY <1>3, <1>5, <1>6, <1>7, <1>8, <1>9, <1>10 DEF RecordInv

\* A Send that fails.
LEMMA SendFailsOk == RecordInv /\ rec.sender # "idle" /\ rec' = SendFails(rec) => RecordInv'
<1> SUFFICES ASSUME RecordInv, rec.sender # "idle", rec' = SendFails(rec) PROVE RecordInv'
  OBVIOUS
<1>0. rec \in Records
  BY DEF RecordInv
<1>1. rec' = [rec EXCEPT !.sender = "idle", !.outcome = "send_failed", !.out = NoRecord]
  BY DEF SendFails
<1>2. rec.owed \in Nat /\ NoRecord \in Sealeds
  BY <1>0, SealedTypes DEF Records
<1>3. rec' \in Records
  <2>1. ASSUME NEW v1 \in Senders, NEW v2 \in Outcomes, NEW v3 \in Sealeds
      PROVE  [rec EXCEPT !.sender = v1, !.outcome = v2, !.out = v3] \in Records
    BY <1>0 DEF Records
  <2>2. ("idle") \in Senders
    BY DEF Senders
  <2>3. ("send_failed") \in Outcomes
    BY DEF Outcomes
  <2>4. (NoRecord) \in Sealeds
    BY <1>2
  <2> QED BY <1>0, <1>1, <1>2, ZenonT(60) DEF Records, Senders, Outcomes
<1>4. /\ rec'.ver = rec.ver /\ rec'.duplex = rec.duplex /\ rec'.auth = rec.auth
      /\ rec'.write = rec.write /\ rec'.keyFlag = rec.keyFlag /\ rec'.out = NoRecord
      /\ rec'.sender = "idle" /\ rec'.receiver = rec.receiver /\ rec'.plain = rec.plain
      /\ rec'.outcome = "send_failed" /\ rec'.peerRead = rec.peerRead /\ rec'.sealed = rec.sealed
      /\ rec'.sent = rec.sent /\ rec'.owed = rec.owed /\ rec'.peerData = rec.peerData
      /\ rec'.peerGot = rec.peerGot /\ rec'.got = rec.got /\ rec'.peerFailed = rec.peerFailed
      /\ rec'.reused = rec.reused
  BY <1>0, <1>1 DEF Records
<1>5. Sealing(rec')
  BY <1>2, <1>4 DEF RecordInv, Sealing
<1>6. InStep(rec')
  BY <1>2, <1>4 DEF RecordInv, InStep
<1>7. Owing(rec')
  BY <1>2, <1>4 DEF RecordInv, Owing
<1>8. Turns(rec')
  BY <1>2, <1>4 DEF RecordInv, Turns
<1>9. Taking(rec')
  BY <1>2, <1>4 DEF RecordInv, Taking
<1>10. Giving(rec')
  BY <1>2, <1>4 DEF RecordInv, Giving
<1> QED BY <1>3, <1>5, <1>6, <1>7, <1>8, <1>9, <1>10 DEF RecordInv

\* The key update is sealed under the key it replaces.
LEMMA ProtectKeyUpdateStep == RecordInv /\ ProtectKeyUpdate => RecordInv'
<1> SUFFICES ASSUME RecordInv, ProtectKeyUpdate PROVE RecordInv'
  OBVIOUS
<1>a. rec \in Records
  BY DEF RecordInv
<1>b. CASE rec' = SendFails(rec)
  BY <1>b, SendFailsOk DEF ProtectKeyUpdate
<1>c. CASE rec' # SendFails(rec)
  <2> DEFINE p == Protect(rec, "keyUpdate", <<>>)
             key == rec.write
  <2>a. rec.sent \in Nat /\ <<>> \in Seq(Nat) /\ key \in Keys /\ rec.sealed \subseteq Keys
    BY <1>a DEF Records
  <2>b. p \in Records /\ ProtectedAs(rec, p, "keyUpdate", <<>>)
    BY <1>a, <2>a, ProtectFields
  <2>c. key \notin rec.sealed /\ \A k \in rec.sealed \cup {key} : Before(k, Advanced(key))
    BY <2>a, KeysMove DEF RecordInv, Sealing
  <2>1. rec' = [p EXCEPT !.sender = "sendKeyUpdate"]
    BY <1>c DEF ProtectKeyUpdate
  <2> HIDE DEF p
  <2>d. /\ p.ver = rec.ver /\ p.duplex = rec.duplex /\ p.auth = rec.auth /\ p.keyFlag = rec.keyFlag
        /\ p.sender = rec.sender /\ p.receiver = rec.receiver /\ p.plain = rec.plain
        /\ p.outcome = rec.outcome /\ p.peerRead = rec.peerRead /\ p.sent = rec.sent
        /\ p.owed = rec.owed /\ p.peerData = rec.peerData /\ p.peerGot = rec.peerGot
        /\ p.got = rec.got /\ p.peerFailed = rec.peerFailed
        /\ p.out.type = "keyUpdate" /\ p.out.key = key /\ p.out.body = <<>>
        /\ (p.reused <=> rec.reused \/ key \in rec.sealed)
        /\ p.sealed = rec.sealed \cup {key} /\ p.write = Advanced(key)
    BY <2>b DEF ProtectedAs
  <2>0. p \in Records
    BY <2>b
  <2>2. rec.sender = "keyUpdate" /\ rec.outcome # "send_failed" /\ rec.ver # 12
    BY <1>a, <1>c DEF ProtectKeyUpdate, RecordInv, InStep, Owing, Records
  <2>3. rec' \in Records
    <3>1. ASSUME NEW v1 \in Senders
        PROVE  [p EXCEPT !.sender = v1] \in Records
      BY <2>0 DEF Records
    <3>2. ("sendKeyUpdate") \in Senders
      BY DEF Senders
    <3> QED BY <2>1, <3>1, <3>2
  <2>4. /\ rec'.ver = p.ver /\ rec'.duplex = p.duplex /\ rec'.auth = p.auth /\ rec'.write = p.write
        /\ rec'.keyFlag = p.keyFlag /\ rec'.out = p.out /\ rec'.sender = "sendKeyUpdate"
        /\ rec'.receiver = p.receiver /\ rec'.plain = p.plain /\ rec'.outcome = p.outcome
        /\ rec'.peerRead = p.peerRead /\ rec'.sealed = p.sealed /\ rec'.sent = p.sent
        /\ rec'.owed = p.owed /\ rec'.peerData = p.peerData /\ rec'.peerGot = p.peerGot
        /\ rec'.got = p.got /\ rec'.peerFailed = p.peerFailed /\ rec'.reused = p.reused
    BY <2>0, <2>1 DEF Records
  <2>5. Sealing(rec')
    BY <2>c, <2>d, <2>4 DEF RecordInv, Sealing
  <2>6. InStep(rec')
    BY <2>2, <2>d, <2>4 DEF RecordInv, InStep
  <2>7. Owing(rec')
    BY <2>2, <2>d, <2>4 DEF RecordInv, Owing
  <2>8. Turns(rec')
    BY <2>2, <2>d, <2>4 DEF RecordInv, Turns
  <2>9. Taking(rec')
    <3>1. rec'.got = rec.got /\ rec'.plain = rec.plain /\ rec'.peerData = rec.peerData /\ rec'.receiver = rec.receiver
      BY <2>d, <2>4
    <3> QED BY <3>1 DEF RecordInv, Taking
  <2>10. Giving(rec')
    BY <2>2, <2>d, <2>4 DEF RecordInv, Giving
  <2> QED BY <2>3, <2>5, <2>6, <2>7, <2>8, <2>9, <2>10 DEF RecordInv
<1> QED BY <1>b, <1>c

\* A fragment is sealed; it is owed a key update if the flag is up.
LEMMA ProtectDataStep == RecordInv /\ ProtectData => RecordInv'
<1> SUFFICES ASSUME RecordInv, ProtectData PROVE RecordInv'
  OBVIOUS
<1>a. rec \in Records
  BY DEF RecordInv
<1>b. CASE rec' = SendFails(rec)
  BY <1>b, SendFailsOk DEF ProtectData
<1>c. CASE rec' # SendFails(rec)
  <2> DEFINE p == Protect(rec, "data", <<rec.sent + 1>>)
             key == rec.write
  <2>a. rec.sent \in Nat /\ <<rec.sent + 1>> \in Seq(Nat) /\ key \in Keys /\ rec.sealed \subseteq Keys
    BY <1>a DEF Records
  <2>b. p \in Records /\ ProtectedAs(rec, p, "data", <<rec.sent + 1>>)
    BY <1>a, <2>a, ProtectFields
  <2>c. key \notin rec.sealed /\ \A k \in rec.sealed \cup {key} : Before(k, Advanced(key))
    BY <2>a, KeysMove DEF RecordInv, Sealing
  <2>1. rec' = [p EXCEPT !.sender = "sendData", !.sent = p.sent + 1,
                       !.owed = IF rec.keyFlag THEN p.owed + 1 ELSE p.owed]
    BY <1>c DEF ProtectData
  <2> HIDE DEF p
  <2>d. /\ p.ver = rec.ver /\ p.duplex = rec.duplex /\ p.auth = rec.auth /\ p.keyFlag = rec.keyFlag
        /\ p.sender = rec.sender /\ p.receiver = rec.receiver /\ p.plain = rec.plain
        /\ p.outcome = rec.outcome /\ p.peerRead = rec.peerRead /\ p.sent = rec.sent
        /\ p.owed = rec.owed /\ p.peerData = rec.peerData /\ p.peerGot = rec.peerGot
        /\ p.got = rec.got /\ p.peerFailed = rec.peerFailed
        /\ p.out.type = "data" /\ p.out.key = key /\ p.out.body = <<rec.sent + 1>>
        /\ (p.reused <=> rec.reused \/ key \in rec.sealed)
        /\ p.sealed = rec.sealed \cup {key} /\ p.write = Advanced(key)
    BY <2>b DEF ProtectedAs
  <2>0. p \in Records
    BY <2>b
  <2>2. rec.sender = "data" /\ rec.outcome # "send_failed" /\ rec.owed = 0 /\ (rec.ver = 12 => ~rec.keyFlag) /\ rec.sent \in Nat
        /\ Len(rec.peerGot) = rec.sent /\ rec.write = rec.peerRead
    BY <1>a, <1>c DEF ProtectData, RecordInv, InStep, Owing, Records
  <2>3. rec' \in Records
    <3>1. ASSUME NEW v1 \in Senders, NEW v2 \in Nat, NEW v3 \in Nat
        PROVE  [p EXCEPT !.sender = v1, !.sent = v2, !.owed = v3] \in Records
      BY <2>0 DEF Records
    <3>2. ("sendData") \in Senders
      BY DEF Senders
    <3>3. (p.sent + 1) \in Nat
      BY <2>a, <2>d
    <3>4. (IF rec.keyFlag THEN p.owed + 1 ELSE p.owed) \in Nat
      BY <2>2, <2>d
    <3> QED BY <2>1, <3>1, <3>2, <3>3, <3>4
  <2>4. /\ rec'.ver = p.ver /\ rec'.duplex = p.duplex /\ rec'.auth = p.auth /\ rec'.write = p.write
        /\ rec'.keyFlag = p.keyFlag /\ rec'.out = p.out /\ rec'.sender = "sendData"
        /\ rec'.receiver = p.receiver /\ rec'.plain = p.plain /\ rec'.outcome = p.outcome
        /\ rec'.peerRead = p.peerRead /\ rec'.sealed = p.sealed /\ rec'.sent = (p.sent + 1)
        /\ rec'.owed = (IF rec.keyFlag THEN p.owed + 1 ELSE p.owed) /\ rec'.peerData = p.peerData
        /\ rec'.peerGot = p.peerGot /\ rec'.got = p.got /\ rec'.peerFailed = p.peerFailed
        /\ rec'.reused = p.reused
    BY <2>0, <2>1 DEF Records
  <2>5. Sealing(rec')
    BY <2>c, <2>d, <2>4 DEF RecordInv, Sealing
  <2>6. InStep(rec')
    BY <2>2, <2>d, <2>4 DEF RecordInv, InStep
  <2>7. Owing(rec')
    BY <2>2, <2>d, <2>4 DEF RecordInv, Owing
  <2>8. Turns(rec')
    BY <2>2, <2>d, <2>4 DEF RecordInv, Turns
  <2>9. Taking(rec')
    <3>1. rec'.got = rec.got /\ rec'.plain = rec.plain /\ rec'.peerData = rec.peerData /\ rec'.receiver = rec.receiver
      BY <2>d, <2>4
    <3> QED BY <3>1 DEF RecordInv, Taking
  <2>10. Giving(rec')
    BY <2>2, <2>d, <2>4 DEF RecordInv, Giving
  <2> QED BY <2>3, <2>5, <2>6, <2>7, <2>8, <2>9, <2>10 DEF RecordInv
<1> QED BY <1>b, <1>c

\* The key update goes out: the peer has the next key, Send the one before.
LEMMA SendKeyUpdateStep == RecordInv /\ SendKeyUpdate => RecordInv'
<1> SUFFICES ASSUME RecordInv, SendKeyUpdate PROVE RecordInv'
  OBVIOUS
<1> DEFINE p == SendAll(rec)
<1>a. /\ rec \in Records /\ rec.sender = "sendKeyUpdate" /\ rec.outcome # "send_failed"
      /\ rec.out.key = rec.peerRead /\ rec.write = Advanced(rec.peerRead) /\ rec.out.type = "keyUpdate"
      /\ Len(rec.peerGot) = rec.sent /\ rec.ver # 12 /\ rec.owed <= 1
  BY DEF RecordInv, InStep, Owing, SendKeyUpdate
<1>b. p \in Records /\ Delivered(rec, p)
  BY <1>a, SendAllFields
<1>1. rec' = [p EXCEPT !.sender = "newKey"]
  BY DEF SendKeyUpdate
<1>c. rec.peerRead \in Keys
  BY <1>a DEF Records
<1>d. NextKey(rec.peerRead) = NextKey(rec.write)
  BY <1>a, <1>c DEF Advanced, NextKey, Keys
<1> HIDE DEF p
<1>0. p \in Records
  BY <1>b
<1>2. /\ p.ver = rec.ver /\ p.duplex = rec.duplex /\ p.auth = rec.auth /\ p.keyFlag = rec.keyFlag
      /\ p.sender = rec.sender /\ p.receiver = rec.receiver /\ p.plain = rec.plain /\ p.outcome = rec.outcome
      /\ p.sent = rec.sent /\ p.owed = rec.owed /\ p.peerData = rec.peerData
      /\ p.got = rec.got /\ p.peerFailed = rec.peerFailed /\ p.reused = rec.reused
      /\ p.write = rec.write /\ p.sealed = rec.sealed
      /\ p.peerRead = NextKey(rec.write) /\ p.peerGot = rec.peerGot
  BY <1>a, <1>b, <1>d DEF Delivered
<1>3. rec' \in Records
  <2>1. ASSUME NEW v1 \in Senders
      PROVE  [p EXCEPT !.sender = v1] \in Records
    BY <1>0 DEF Records
  <2>2. ("newKey") \in Senders
    BY DEF Senders
  <2> QED BY <1>1, <2>1, <2>2
<1>4. /\ rec'.ver = p.ver /\ rec'.duplex = p.duplex /\ rec'.auth = p.auth /\ rec'.write = p.write
      /\ rec'.keyFlag = p.keyFlag /\ rec'.out = p.out /\ rec'.sender = "newKey"
      /\ rec'.receiver = p.receiver /\ rec'.plain = p.plain /\ rec'.outcome = p.outcome
      /\ rec'.peerRead = p.peerRead /\ rec'.sealed = p.sealed /\ rec'.sent = p.sent
      /\ rec'.owed = p.owed /\ rec'.peerData = p.peerData /\ rec'.peerGot = p.peerGot
      /\ rec'.got = p.got /\ rec'.peerFailed = p.peerFailed /\ rec'.reused = p.reused
  BY <1>0, <1>1 DEF Records
<1>5. Sealing(rec')
  BY <1>2, <1>4 DEF RecordInv, Sealing
<1>6. InStep(rec')
  BY <1>a, <1>2, <1>4 DEF RecordInv, InStep
<1>7. Owing(rec')
  BY <1>a, <1>2, <1>4 DEF RecordInv, Owing
<1>8. Turns(rec')
  BY <1>a, <1>2, <1>4 DEF RecordInv, Turns
<1>9. Taking(rec')
  <2>1. rec'.got = rec.got /\ rec'.plain = rec.plain /\ rec'.peerData = rec.peerData /\ rec'.receiver = rec.receiver
    BY <1>2, <1>4
  <2> QED BY <2>1 DEF RecordInv, Taking
<1>10. Giving(rec')
  BY <1>2, <1>4 DEF RecordInv, Giving
<1> QED BY <1>3, <1>5, <1>6, <1>7, <1>8, <1>9, <1>10 DEF RecordInv

\* Send follows: the two keys are the same again, and nothing is owed.
LEMMA UpdateWriteKeyStep == RecordInv /\ UpdateWriteKey => RecordInv'
<1> SUFFICES ASSUME RecordInv, UpdateWriteKey PROVE RecordInv'
  OBVIOUS
<1>0. rec \in Records
  BY DEF RecordInv
<1>1. rec' = [rec EXCEPT !.write = UpdateTrafficSecret(rec.write), !.sender = "data", !.owed = 0]
  BY DEF UpdateWriteKey
<1>2. /\ rec.sender = "newKey" /\ rec.outcome # "send_failed" /\ rec.peerRead = NextKey(rec.write)
      /\ rec.write \in Keys /\ rec.sealed \subseteq Keys /\ rec.ver # 12
  BY <1>0 DEF UpdateWriteKey, RecordInv, InStep, Owing, Records
<1>a. UpdateTrafficSecret(rec.write) = NextKey(rec.write) /\ NextKey(rec.write) \in Keys
  BY <1>2, KeyTypes
<1>3. rec' \in Records
  <2>1. ASSUME NEW v1 \in Keys, NEW v2 \in Senders, NEW v3 \in Nat
      PROVE  [rec EXCEPT !.write = v1, !.sender = v2, !.owed = v3] \in Records
    BY <1>0 DEF Records
  <2>2. (UpdateTrafficSecret(rec.write)) \in Keys
    BY <1>a
  <2>3. ("data") \in Senders
    BY DEF Senders
  <2>4. (0) \in Nat
    OBVIOUS
  <2> QED BY <1>1, <2>1, <2>2, <2>3, <2>4
<1>4. /\ rec'.ver = rec.ver /\ rec'.duplex = rec.duplex /\ rec'.auth = rec.auth
      /\ rec'.write = UpdateTrafficSecret(rec.write) /\ rec'.keyFlag = rec.keyFlag
      /\ rec'.out = rec.out /\ rec'.sender = "data" /\ rec'.receiver = rec.receiver
      /\ rec'.plain = rec.plain /\ rec'.outcome = rec.outcome /\ rec'.peerRead = rec.peerRead
      /\ rec'.sealed = rec.sealed /\ rec'.sent = rec.sent /\ rec'.owed = 0
      /\ rec'.peerData = rec.peerData /\ rec'.peerGot = rec.peerGot /\ rec'.got = rec.got
      /\ rec'.peerFailed = rec.peerFailed /\ rec'.reused = rec.reused
  BY <1>0, <1>1 DEF Records
<1>5. Sealing(rec')
  BY <1>2, <1>4, <1>a, KeysMove DEF RecordInv, Sealing
<1>6. InStep(rec')
  BY <1>2, <1>4, <1>a DEF RecordInv, InStep
<1>7. Owing(rec')
  BY <1>2, <1>4 DEF RecordInv, Owing
<1>8. Turns(rec')
  BY <1>2, <1>4 DEF RecordInv, Turns
<1>9. Taking(rec')
  BY <1>2, <1>4 DEF RecordInv, Taking
<1>10. Giving(rec')
  BY <1>2, <1>4 DEF RecordInv, Giving
<1> QED BY <1>3, <1>5, <1>6, <1>7, <1>8, <1>9, <1>10 DEF RecordInv

\* A fragment goes out, and the peer has its data.
LEMMA SendDataStep == RecordInv /\ SendData => RecordInv'
<1> SUFFICES ASSUME RecordInv, SendData PROVE RecordInv'
  OBVIOUS
<1> DEFINE p == SendAll(rec)
<1>a. /\ rec \in Records /\ rec.sender = "sendData" /\ rec.outcome # "send_failed"
      /\ rec.out.key = rec.peerRead /\ rec.write = Advanced(rec.peerRead) /\ rec.out.type = "data"
      /\ rec.out.body = <<rec.sent>> /\ Len(rec.peerGot) + 1 = rec.sent
  BY DEF RecordInv, InStep, SendData
<1>b. p \in Records /\ Delivered(rec, p)
  BY <1>a, SendAllFields
<1>1. rec' = [p EXCEPT !.chunks = p.chunks - 1, !.sender = AfterFragment(rec)]
  BY DEF SendData
<1>c. /\ rec.peerGot \in Seq(Nat) /\ rec.sent \in Nat /\ Len(rec.peerGot) \in Nat
      /\ rec.peerGot = Counts(Len(rec.peerGot)) /\ rec.ver \in {12, 13}
  BY <1>a DEF Records, RecordInv, Giving
<1>d. /\ rec.peerGot \o rec.out.body = Counts(rec.sent)
      /\ Len(rec.peerGot \o rec.out.body) = rec.sent
  <2> DEFINE g == rec.peerGot
             n == rec.sent
  <2>1. g \in Seq(Nat) /\ g = Counts(Len(g)) /\ n \in Nat /\ n = Len(g) + 1 /\ rec.out.body = <<n>>
    BY <1>a, <1>c
  <2> HIDE DEF g, n
  <2>2. /\ g \o <<n>> = Append(g, n) /\ Append(g, n) = Counts(Len(g) + 1)
        /\ Len(Append(g, n)) = Len(g) + 1
    BY <2>1, CountsExtend
  <2>3. g \o <<n>> = Counts(n) /\ Len(g \o <<n>>) = n
    BY <2>1, <2>2
  <2> QED BY <2>1, <2>3 DEF g, n
<1>e. AfterFragment(rec) \in {"flag", "data", "idle"} /\ (rec.ver = 13 => AfterFragment(rec) # "data")
      /\ (rec.ver = 12 => AfterFragment(rec) # "flag")
  BY <1>c DEF AfterFragment
<1> HIDE DEF p
<1>0. p \in Records
  BY <1>b
<1>2. /\ p.ver = rec.ver /\ p.duplex = rec.duplex /\ p.auth = rec.auth /\ p.keyFlag = rec.keyFlag
      /\ p.sender = rec.sender /\ p.receiver = rec.receiver /\ p.plain = rec.plain /\ p.outcome = rec.outcome
      /\ p.sent = rec.sent /\ p.owed = rec.owed /\ p.peerData = rec.peerData
      /\ p.got = rec.got /\ p.peerFailed = rec.peerFailed /\ p.reused = rec.reused
      /\ p.write = rec.write /\ p.sealed = rec.sealed
      /\ p.peerRead = rec.write /\ p.peerGot = Counts(rec.sent) /\ Len(p.peerGot) = rec.sent
  BY <1>a, <1>b, <1>d DEF Delivered
<1>3. rec' \in Records
  <2>1. ASSUME NEW v1 \in Int, NEW v2 \in Senders
      PROVE  [p EXCEPT !.chunks = v1, !.sender = v2] \in Records
    BY <1>0 DEF Records
  <2>2. (p.chunks - 1) \in Int
    BY <1>0 DEF Records
  <2>3. (AfterFragment(rec)) \in Senders
    BY <1>e DEF Senders
  <2> QED BY <1>1, <2>1, <2>2, <2>3
<1>4. /\ rec'.ver = p.ver /\ rec'.duplex = p.duplex /\ rec'.auth = p.auth /\ rec'.write = p.write
      /\ rec'.keyFlag = p.keyFlag /\ rec'.out = p.out /\ rec'.sender = AfterFragment(rec)
      /\ rec'.receiver = p.receiver /\ rec'.plain = p.plain /\ rec'.outcome = p.outcome
      /\ rec'.peerRead = p.peerRead /\ rec'.sealed = p.sealed /\ rec'.sent = p.sent
      /\ rec'.owed = p.owed /\ rec'.peerData = p.peerData /\ rec'.peerGot = p.peerGot
      /\ rec'.got = p.got /\ rec'.peerFailed = p.peerFailed /\ rec'.reused = p.reused
  BY <1>0, <1>1 DEF Records
<1>5. Sealing(rec')
  BY <1>2, <1>4 DEF RecordInv, Sealing
<1>6. InStep(rec')
  BY <1>a, <1>c, <1>e, <1>2, <1>4 DEF RecordInv, InStep
<1>7. Owing(rec')
  BY <1>a, <1>c, <1>e, <1>2, <1>4 DEF RecordInv, Owing
<1>8. Turns(rec')
  BY <1>a, <1>e, <1>2, <1>4 DEF RecordInv, Turns
<1>9. Taking(rec')
  <2>1. rec'.got = rec.got /\ rec'.plain = rec.plain /\ rec'.peerData = rec.peerData /\ rec'.receiver = rec.receiver
    BY <1>2, <1>4
  <2> QED BY <2>1 DEF RecordInv, Taking
<1>10. Giving(rec')
  BY <1>c, <1>2, <1>4 DEF Giving
<1> QED BY <1>3, <1>5, <1>6, <1>7, <1>8, <1>9, <1>10 DEF RecordInv

\* The receiving thread does not touch the way out; it may raise the flag, and come back.
LEMMA ReceiverFrame ==
    ASSUME NEW r, NEW s \in Records, RecordOk(r),
           SameKind(r, s), SameOut(r, s), SameIn(r, s), SameFailed(r, s),
           r.keyFlag => s.keyFlag, r.ver = 12 => ~s.keyFlag,
           s.receiver = "reading" => r.receiver = "reading"
    PROVE  RecordOk(s)
<1> USE DEF RecordOk, SameKind, SameOut, SameIn, SameFailed
<1>1. Sealing(s)
  BY DEF Sealing
<1>2. InStep(s)
  BY DEF InStep
<1>3. Owing(s)
  <2>1. r.keyFlag \in BOOLEAN /\ s.keyFlag \in BOOLEAN
    BY DEF Records
  <2> QED BY <2>1 DEF Owing
<1>4. Turns(s)
  BY DEF Turns, Records
<1>5. Taking(s)
  BY ZenonT(60) DEF Taking
<1>6. Giving(s)
  BY DEF Giving
<1> QED BY <1>1, <1>2, <1>3, <1>4, <1>5, <1>6

\* Opened, and a count beside it.
LEMMA OpenedOk ==
    ASSUME NEW r, RecordOk(r), NEW type
    PROVE  LET s == Opened(r, type)
           IN RecordOk(s) /\ SameKind(r, s) /\ SameOut(r, s) /\ SameIn(r, s) /\ s.keyFlag = r.keyFlag
              /\ s.outcome = r.outcome /\ s.receiver = r.receiver
<1> DEFINE s == Opened(r, type)
<1>1. r \in Records
  BY DEF RecordOk
<1>2. s \in Records
  BY <1>1, OpenedFields
<1>3. SameKind(r, s) /\ SameOut(r, s) /\ SameIn(r, s)
      /\ s.keyFlag = r.keyFlag /\ s.outcome = r.outcome /\ s.receiver = r.receiver
  <2> PICK k1 \in Keys, k2 \in Keys : s = [r EXCEPT !.read = k1, !.peerSent = r.peerSent + 1, !.peerWrite = k2]
    BY <1>1, OpenedFields
  <2> HIDE DEF s
  <2> QED BY <1>1 DEF Records, SameKind, SameOut, SameIn
<1> HIDE DEF s
<1>4. RecordOk(s)
  BY <1>2, <1>3, ReceiverFrame DEF SameFailed, RecordOk, Owing, SameKind
<1> QED BY <1>3, <1>4 DEF s

LEMMA CountedOk ==
    ASSUME NEW r, RecordOk(r), NEW n \in Nat
    PROVE  /\ RecordOk([r EXCEPT !.posts = n]) /\ RecordOk([r EXCEPT !.empties = n])
           /\ LET s == [r EXCEPT !.posts = n]
              IN SameKind(r, s) /\ SameOut(r, s) /\ SameIn(r, s) /\ s.keyFlag = r.keyFlag
                 /\ s.outcome = r.outcome /\ s.receiver = r.receiver
<1>1. r \in Records
  BY DEF RecordOk
<1>2. ASSUME NEW s \in Records, s = [r EXCEPT !.posts = n] \/ s = [r EXCEPT !.empties = n]
      PROVE  RecordOk(s) /\ SameKind(r, s) /\ SameOut(r, s) /\ SameIn(r, s) /\ s.keyFlag = r.keyFlag
             /\ s.outcome = r.outcome /\ s.receiver = r.receiver
  <2>1. SameKind(r, s) /\ SameOut(r, s) /\ SameIn(r, s)
        /\ s.keyFlag = r.keyFlag /\ s.outcome = r.outcome /\ s.receiver = r.receiver
    <3>1. CASE s = [r EXCEPT !.posts = n]
      BY <1>1, <3>1 DEF Records, SameKind, SameOut, SameIn
    <3>2. CASE s = [r EXCEPT !.empties = n]
      BY <1>1, <3>2 DEF Records, SameKind, SameOut, SameIn
    <3> QED BY <1>2, <3>1, <3>2
  <2> QED BY <2>1, ReceiverFrame DEF SameFailed, RecordOk, Owing, SameKind
<1>3. [r EXCEPT !.posts = n] \in Records /\ [r EXCEPT !.empties = n] \in Records
  BY <1>1 DEF Records
<1> QED BY <1>2, <1>3

LEMMA ReturnsOk ==
    ASSUME NEW r, RecordOk(r), NEW outcome \in Outcomes \ {"send_failed"}
    PROVE  RecordOk(Returns(r, outcome))
<1> DEFINE s == Returns(r, outcome)
<1>1. r \in Records
  BY DEF RecordOk
<1>2. s \in Records
  BY <1>1, ReturnsFields
<1>3. SameKind(r, s) /\ SameOut(r, s) /\ SameIn(r, s) /\ SameFailed(r, s)
      /\ s.keyFlag = r.keyFlag /\ s.receiver = "idle"
  <2> PICK o \in Outcomes :
          /\ s = [r EXCEPT !.receiver = "idle", !.outcome = o]
          /\ r.outcome = "send_failed" => o = "send_failed"
          /\ r.outcome # "send_failed" => o = outcome
    BY <1>1, ReturnsFields
  <2> HIDE DEF s
  <2> QED BY <1>1 DEF Records, SameKind, SameOut, SameIn, SameFailed
<1> HIDE DEF s
<1>4. RecordOk(s)
  BY <1>2, <1>3, ReceiverFrame DEF RecordOk, Owing, SameKind
<1> QED BY <1>4 DEF s

\* A flight of the receiving thread, while Send is idle and has not failed.
LEMMA FlightOk ==
    ASSUME NEW r, RecordOk(r), r.sender = "idle", r.outcome # "send_failed",
           NEW type \in {"certificate", "finished"}
    PROVE  LET s == SendAll(Protect(r, type, <<>>))
           IN RecordOk(s) /\ s.sender = "idle" /\ s.outcome # "send_failed"
<1> DEFINE p == Protect(r, type, <<>>)
           s == SendAll(p)
<1>1. r \in Records /\ r.write = r.peerRead /\ Len(r.peerGot) = r.sent
  BY DEF RecordOk, InStep
<1>2. r.write \in Keys /\ r.sealed \subseteq Keys /\ r.peerGot \in Seq(Nat) /\ <<>> \in Seq(Nat)
  BY <1>1 DEF Records
<1>3. p \in Records /\ ProtectedAs(r, p, type, <<>>)
  BY <1>1, <1>2, ProtectFields
<1> HIDE DEF p
<1>4. p.out.key = p.peerRead /\ p.out.type # "keyUpdate" /\ p.out.body = <<>>
  BY <1>1, <1>3 DEF ProtectedAs
<1>5. s \in Records /\ Delivered(p, s)
  BY <1>3, <1>4, SendAllFields
<1> HIDE DEF s
<1>6. r.peerGot \o <<>> = r.peerGot
  BY <1>2
<1>7. /\ s.ver = r.ver /\ s.duplex = r.duplex /\ s.auth = r.auth /\ s.keyFlag = r.keyFlag
      /\ s.sender = r.sender /\ s.receiver = r.receiver /\ s.plain = r.plain /\ s.outcome = r.outcome
      /\ s.sent = r.sent /\ s.owed = r.owed /\ s.peerData = r.peerData
      /\ s.got = r.got /\ s.peerFailed = r.peerFailed
      /\ s.write = Advanced(r.write) /\ s.sealed = r.sealed \cup {r.write}
      /\ s.peerRead = Advanced(r.write) /\ s.peerGot = r.peerGot
      /\ s.reused <=> r.reused \/ r.write \in r.sealed
  BY <1>1, <1>3, <1>4, <1>5, <1>6 DEF ProtectedAs, Delivered
<1>8. Sealing(s)
  BY <1>2, <1>7, KeysMove DEF RecordOk, Sealing
<1>9. InStep(s)
  BY <1>1, <1>7 DEF RecordOk, InStep
<1>10. Owing(s) /\ Turns(s) /\ Giving(s)
  BY <1>7 DEF RecordOk, Owing, Turns, Giving
<1>11. Taking(s)
  <2>1. s.got = r.got /\ s.plain = r.plain /\ s.peerData = r.peerData /\ s.receiver = r.receiver
    BY <1>7
  <2> QED BY <2>1 DEF RecordOk, Taking
<1> QED BY <1>5, <1>7, <1>8, <1>9, <1>10, <1>11 DEF RecordOk, s, p

\* A read of the data that is left, or of the next record.
LEMMA ReceiveStep == RecordInv /\ Receive => RecordInv'
<1> SUFFICES ASSUME RecordInv, Receive PROVE RecordInv'
  OBVIOUS
<1>0. rec \in Records
  BY DEF RecordInv
<1>a. /\ rec.receiver = "idle" /\ (rec.duplex \/ rec.sender = "idle")
      /\ rec.got \in Seq(Nat) /\ rec.plain \in Seq(Nat) /\ rec.peerData \in Nat
      /\ rec.got = Counts(Len(rec.got)) /\ Len(rec.got) + Len(rec.plain) = rec.peerData
      /\ \A i \in 1 .. Len(rec.plain) : rec.plain[i] = Len(rec.got) + i
  BY <1>0 DEF Receive, Alone, Records, RecordInv, Taking
<1>b. CASE rec.plain # <<>>
  <2> DEFINE g == Append(rec.got, Head(rec.plain))
             t == Tail(rec.plain)
  <2>a. Len(rec.plain) \in Nat /\ Len(rec.plain) > 0 /\ Head(rec.plain) = rec.plain[1] /\ Len(rec.got) \in Nat
    BY <1>a, <1>b
  <2>b. Head(rec.plain) = Len(rec.got) + 1 /\ Head(rec.plain) \in Nat
    BY <1>a, <2>a
  <2>c. g \in Seq(Nat) /\ Len(g) = Len(rec.got) + 1 /\ g = Counts(Len(rec.got) + 1)
    BY <1>a, <2>b, CountsExtend
  <2>d. t \in Seq(Nat) /\ Len(t) = Len(rec.plain) - 1 /\ \A i \in 1 .. Len(t) : t[i] = rec.plain[i + 1]
    BY <1>a, <1>b
  <2>1. rec' = [rec EXCEPT !.got = g, !.plain = t]
    BY <1>0, <1>b DEF Receive, Records
  <2> HIDE DEF g, t
  <2>e. \A i \in 1 .. Len(t) : t[i] = Len(g) + i
    <3> TAKE i \in 1 .. Len(t)
    <3>1. i \in Nat /\ i + 1 \in 1 .. Len(rec.plain)
      BY <2>a, <2>d
    <3>2. t[i] = Len(rec.got) + (i + 1)
      BY <1>a, <2>d, <3>1
    <3>3. Len(g) = Len(rec.got) + 1 /\ Len(rec.got) \in Nat
      BY <2>a, <2>c
    <3> QED BY <3>1, <3>2, <3>3, Sums, ZenonT(60)
  <2>f. Len(g) + Len(t) = rec.peerData
    <3>1. Len(g) = Len(rec.got) + 1 /\ Len(rec.got) \in Nat
      BY <2>a, <2>c
    <3>2. Len(t) = Len(rec.plain) - 1 /\ Len(rec.plain) \in Nat
      BY <2>a, <2>d
    <3>3. Len(rec.got) + Len(rec.plain) = rec.peerData
      BY <1>a
    <3>4. (Len(rec.got) + 1) + (Len(rec.plain) - 1) = Len(rec.got) + Len(rec.plain)
      BY <3>1, <3>2, Sums
    <3> QED BY <3>1, <3>2, <3>3, <3>4, Zenon
  <2>2. rec' \in Records
    BY <1>0, <2>1, <2>c, <2>d, ZenonT(60) DEF Records
  <2>3. SameKind(rec, rec') /\ SameOut(rec, rec') /\ rec'.keyFlag = rec.keyFlag /\ rec'.outcome = rec.outcome
        /\ rec'.receiver = rec.receiver /\ rec'.got = g /\ rec'.plain = t /\ rec'.peerData = rec.peerData
    BY <1>0, <2>1 DEF Records, SameKind, SameOut
  <2>4. Taking(rec')
    BY <1>a, <2>3, <2>c, <2>e, <2>f DEF Taking
  <2>5. Sealing(rec') /\ InStep(rec')
    BY <2>3 DEF RecordInv, SameOut, Sealing, InStep
  <2>6. Owing(rec') /\ Turns(rec') /\ Giving(rec')
    BY <2>3 DEF RecordInv, SameKind, SameOut, Owing, Turns, Giving
  <2> QED BY <2>2, <2>4, <2>5, <2>6 DEF RecordInv
<1>c. CASE rec.plain = <<>>
  <2>1. rec' = [rec EXCEPT !.receiver = "reading", !.empties = 0, !.posts = 0]
    BY <1>c DEF Receive
  <2>2. rec' \in Records
    BY <1>0, <2>1 DEF Records
  <2>3. SameKind(rec, rec') /\ SameOut(rec, rec') /\ SameIn(rec, rec') /\ rec'.keyFlag = rec.keyFlag
        /\ rec'.outcome = rec.outcome /\ rec'.receiver = "reading"
    BY <1>0, <2>1 DEF Records, SameKind, SameOut, SameIn
  <2>4. Taking(rec')
    BY <1>c, <2>3 DEF RecordInv, SameIn, Taking
  <2>5. Sealing(rec') /\ InStep(rec')
    BY <2>3 DEF RecordInv, SameOut, Sealing, InStep
  <2>6. Owing(rec') /\ Giving(rec')
    BY <2>3 DEF RecordInv, SameKind, SameOut, Owing, Giving
  <2>7. Turns(rec')
    BY <1>a, <2>3 DEF RecordInv, SameKind, SameOut, Turns
  <2> QED BY <2>2, <2>4, <2>5, <2>6, <2>7 DEF RecordInv
<1> QED BY <1>b, <1>c

\* Reads that bring no data.
LEMMA NoDataStep ==
    RecordInv /\ (ReceiveTimeout \/ ReceiveGarbled \/ ReceiveEmpty \/ ReceiveAlert \/ ReceiveHandshake12) => RecordInv'
<1> SUFFICES ASSUME RecordInv, ReceiveTimeout \/ ReceiveGarbled \/ ReceiveEmpty \/ ReceiveAlert \/ ReceiveHandshake12
             PROVE  RecordOk(rec')
  BY DEF RecordInv, RecordOk
<1>0. RecordOk(rec) /\ rec \in Records
  BY DEF RecordInv, RecordOk
<1>a. {"timeout", "failed", "closed", "crashed"} \subseteq Outcomes \ {"send_failed"}
  BY DEF Outcomes
<1>b. \A type : RecordOk(Opened(rec, type))
  BY <1>0, OpenedOk
<1>1. CASE ReceiveTimeout
  <2> PICK torn \in {rec.torn, TRUE} : rec' = [Returns(rec, "timeout") EXCEPT !.torn = torn]
    BY <1>1 DEF ReceiveTimeout
  <2> DEFINE r == Returns(rec, "timeout")
  <2>1. RecordOk(r) /\ torn \in BOOLEAN
    BY <1>0, <1>a, ReturnsOk DEF Records
  <2> HIDE DEF r
  <2>2. rec' = [r EXCEPT !.torn = torn]
    BY DEF r
  <2>3. r \in Records
    BY <2>1 DEF RecordOk
  <2>4. rec' \in Records
    BY <2>1, <2>2, <2>3, ZenonT(60) DEF Records
  <2>5. SameKind(r, rec') /\ SameOut(r, rec') /\ SameIn(r, rec') /\ rec'.keyFlag = r.keyFlag
        /\ rec'.outcome = r.outcome /\ rec'.receiver = r.receiver
    BY <2>2, <2>3, ZenonT(60) DEF Records, SameKind, SameOut, SameIn
  <2>6. (r.ver = 12 => ~rec'.keyFlag) /\ SameFailed(r, rec')
    BY <2>1, <2>5 DEF SameFailed, RecordOk, Owing
  <2> QED BY <2>1, <2>4, <2>5, <2>6, ReceiverFrame
<1>2. CASE ReceiveGarbled
  BY <1>0, <1>2, <1>a, ReturnsOk DEF ReceiveGarbled
<1>3. CASE ReceiveEmpty
  <2> DEFINE r == Opened(rec, "empty")
  <2>1. RecordOk(r)
    BY <1>b
  <2>2. r.empties \in Nat
    BY <2>1 DEF RecordOk, Records
  <2>3. rec' = Returns(r, "failed") \/ rec' = [r EXCEPT !.empties = r.empties + 1]
    BY <1>3 DEF ReceiveEmpty
  <2> HIDE DEF r
  <2>4. RecordOk(Returns(r, "failed"))
    BY <1>a, <2>1, ReturnsOk
  <2>5. r.empties + 1 \in Nat
    BY <2>2
  <2>6. RecordOk([r EXCEPT !.empties = r.empties + 1])
    BY <2>1, <2>5, CountedOk
  <2> QED BY <2>3, <2>4, <2>6
<1>4. CASE ReceiveAlert
  BY <1>4, <1>a, <1>b, ReturnsOk DEF ReceiveAlert
<1>5. CASE ReceiveHandshake12
  BY <1>5, <1>a, <1>b, ReturnsOk DEF ReceiveHandshake12
<1> QED BY <1>1, <1>2, <1>3, <1>4, <1>5

\* Data: the record holds the two numbers that follow what the caller has.
LEMMA ReceiveDataStep == RecordInv /\ ReceiveData => RecordInv'
<1> SUFFICES ASSUME RecordInv, ReceiveData PROVE RecordOk(rec')
  BY DEF RecordInv, RecordOk
<1>0. RecordOk(rec) /\ rec \in Records /\ rec.receiver = "reading"
  BY DEF RecordInv, RecordOk, ReceiveData, Readable
<1> DEFINE d == rec.peerData
           body == <<d + 1, d + 2>>
           o == Opened(rec, "data")
           r == Returns(o, "data")
<1> PICK n \in 1 .. 2 : rec' = [r EXCEPT !.got = r.got \o SubSeq(body, 1, n), !.plain = SubSeq(body, n + 1, 2),
                                        !.peerData = r.peerData + 2]
  BY DEF ReceiveData
<1>1. RecordOk(o) /\ SameIn(rec, o)
  BY <1>0, OpenedOk
<1>2. RecordOk(r) /\ r.got = rec.got /\ r.plain = rec.plain /\ r.peerData = d /\ r.receiver = "idle"
  <2>1. o \in Records /\ "data" \in Outcomes \ {"send_failed"}
    BY <1>1 DEF RecordOk, Outcomes
  <2>2. RecordOk(r)
    BY <1>1, <2>1, ReturnsOk
  <2>3. r.got = o.got /\ r.plain = o.plain /\ r.peerData = o.peerData /\ r.receiver = "idle"
    <3> HIDE DEF o
    <3> QED BY <2>1 DEF Returns, Records
  <2> QED BY <1>1, <2>2, <2>3 DEF SameIn
<1>3. /\ d \in Nat /\ rec.got \in Seq(Nat) /\ rec.got = Counts(Len(rec.got)) /\ Len(rec.got) = d
  <2>1. d \in Nat /\ rec.got \in Seq(Nat) /\ rec.plain = <<>> /\ rec.got = Counts(Len(rec.got))
        /\ Len(rec.got) + Len(rec.plain) = d
    BY <1>0 DEF RecordOk, Records, Taking
  <2>2. Len(rec.plain) = 0 /\ Len(rec.got) \in Nat
    BY <2>1
  <2> QED BY <2>1, <2>2
<1>4. r \in Records
  BY <1>2 DEF RecordOk
<1> DEFINE g == rec.got \o SubSeq(body, 1, n)
           t == SubSeq(body, n + 1, 2)
<1>5. rec' = [r EXCEPT !.got = g, !.plain = t, !.peerData = d + 2]
  BY <1>2
<1>6. /\ g \in Seq(Nat) /\ t \in Seq(Nat) /\ g = Counts(Len(g)) /\ Len(g) + Len(t) = d + 2
      /\ \A i \in 1 .. Len(t) : t[i] = Len(g) + i
  <2>1. d + 1 \in Nat /\ d + 2 \in Nat /\ body \in Seq(Nat) /\ Len(body) = 2 /\ body[1] = d + 1 /\ body[2] = d + 2
    BY <1>3
  <2>2. Append(rec.got, d + 1) \in Seq(Nat) /\ Append(rec.got, d + 1) = Counts(d + 1)
        /\ rec.got \o <<d + 1>> = Append(rec.got, d + 1) /\ Len(Append(rec.got, d + 1)) = d + 1
    BY <1>3, <2>1, CountsExtend
  <2>3. CASE n = 1
    <3>1. SubSeq(body, 1, n) = <<d + 1>> /\ t = <<d + 2>>
      BY <2>1, <2>3, Pairs
    <3>2. g = Append(rec.got, d + 1)
      BY <2>2, <3>1
    <3>3. g = Counts(d + 1) /\ Len(g) = d + 1 /\ g \in Seq(Nat)
      BY <2>2, <3>2
    <3> HIDE DEF g, t
    <3>4. t \in Seq(Nat) /\ Len(t) = 1 /\ t[1] = d + 2
      BY <2>1, <3>1
    <3>5. \A i \in 1 .. Len(t) : i = 1
      BY <3>4
    <3> QED BY <1>3, <3>3, <3>4, <3>5
  <2>4. CASE n = 2
    <3>1. SubSeq(body, 1, n) = body /\ t = <<>>
      BY <2>1, <2>4, Pairs
    <3> DEFINE a == Append(rec.got, d + 1)
    <3>2. g = Append(a, d + 2)
      <4>1. g = rec.got \o <<d + 1, d + 2>>
        BY <3>1
      <4>2. rec.got \o <<d + 1, d + 2>> = Append(Append(rec.got, d + 1), d + 2)
        BY <1>3, <2>1, Pairs
      <4> QED BY <4>1, <4>2
    <3>3. a \in Seq(Nat) /\ a = Counts(Len(a)) /\ Len(a) = d + 1
      BY <2>2
    <3> HIDE DEF a, g, t
    <3>4. d + 2 = Len(a) + 1 /\ Len(a) + 1 = d + 2
      BY <1>3, <3>3
    <3>5. g = Counts(d + 2) /\ Len(g) = d + 2 /\ g \in Seq(Nat)
      BY <2>1, <3>2, <3>3, <3>4, CountsExtend
    <3>6. t \in Seq(Nat) /\ Len(t) = 0
      BY <3>1
    <3> QED BY <1>3, <3>5, <3>6
  <2>5. n = 1 \/ n = 2
    OBVIOUS
  <2> HIDE DEF g, t
  <2> QED BY <2>3, <2>4, <2>5
<1> HIDE DEF r, g, t, d
<1>7. d + 2 \in Nat
  BY <1>3
<1>8. rec' \in Records
  <2>1. ASSUME NEW a \in Seq(Nat), NEW b \in Seq(Nat), NEW c \in Nat
        PROVE  [r EXCEPT !.got = a, !.plain = b, !.peerData = c] \in Records
    BY <1>4 DEF Records
  <2>2. [r EXCEPT !.got = g, !.plain = t, !.peerData = d + 2] \in Records
    BY <1>6, <1>7, <2>1, Zenon
  <2> QED BY <1>5, <2>2
<1>9. SameKind(r, rec') /\ SameOut(r, rec') /\ rec'.keyFlag = r.keyFlag /\ rec'.outcome = r.outcome
      /\ rec'.receiver = r.receiver /\ rec'.got = g /\ rec'.plain = t /\ rec'.peerData = d + 2
  BY <1>4, <1>5, ZenonT(60) DEF Records, SameKind, SameOut
<1>10. Taking(rec')
  BY <1>2, <1>6, <1>9 DEF Taking
<1>11. Sealing(rec') /\ InStep(rec')
  BY <1>2, <1>9 DEF RecordOk, SameOut, Sealing, InStep
<1>12. Owing(rec') /\ Turns(rec') /\ Giving(rec')
  BY <1>2, <1>9 DEF RecordOk, SameKind, SameOut, Owing, Turns, Giving
<1> QED BY <1>8, <1>10, <1>11, <1>12 DEF RecordOk

\* Messages after the handshake: the flag goes up, or the receiving thread answers.
LEMMA PostHandshakeStep == RecordInv /\ ReceivePostHandshake => RecordInv'
<1> SUFFICES ASSUME RecordInv, ReceivePostHandshake PROVE RecordOk(rec')
  BY DEF RecordInv, RecordOk
<1>0. RecordOk(rec) /\ rec.receiver = "reading" /\ rec.ver = 13
  BY DEF RecordInv, RecordOk, ReceivePostHandshake, Readable
<1> PICK type \in PostHandshake :
        rec' = IF rec.posts + 1 > MaxPostHandshake THEN Returns(Opened(rec, type), "failed")
               ELSE OnPostHandshake([Opened(rec, type) EXCEPT !.posts = @ + 1], type)
  BY DEF ReceivePostHandshake
<1> DEFINE o == Opened(rec, type)
           r == [o EXCEPT !.posts = o.posts + 1]
<1>1. RecordOk(o) /\ SameKind(rec, o) /\ o.receiver = rec.receiver
  BY <1>0, OpenedOk
<1>2. "failed" \in Outcomes \ {"send_failed"}
  BY DEF Outcomes
<1>3. rec' = Returns(o, "failed") \/ rec' = OnPostHandshake(r, type)
  OBVIOUS
<1>4. CASE rec' = Returns(o, "failed")
  BY <1>1, <1>2, <1>4, ReturnsOk
<1>5. CASE rec' = OnPostHandshake(r, type)
  <2>1. o.posts + 1 \in Nat
    BY <1>1 DEF RecordOk, Records
  <2> HIDE DEF o
  <2>2. RecordOk(r) /\ SameKind(o, r) /\ r.receiver = o.receiver
    BY <1>1, <2>1, CountedOk
  <2> HIDE DEF r
  <2>3. r \in Records /\ r.ver = 13 /\ r.receiver = "reading"
    BY <1>0, <1>1, <2>2 DEF SameKind, RecordOk
  <2>4. CASE rec' = r
    BY <2>2, <2>4
  <2>5. CASE rec' = Returns(r, "failed")
    BY <1>2, <2>2, <2>5, ReturnsOk
  <2>6. CASE rec' = AnswerRequest(r) /\ r.auth /\ r.outcome # "send_failed"
    <3> DEFINE first == SendAll(Protect(r, "certificate", <<>>))
    <3>1. r.sender = "idle"
      BY <2>2, <2>3, <2>6 DEF RecordOk, Turns
    <3>2. RecordOk(first) /\ first.sender = "idle" /\ first.outcome # "send_failed"
      BY <2>2, <2>6, <3>1, FlightOk
    <3>3. rec' = SendAll(Protect(first, "finished", <<>>))
      BY <2>6 DEF AnswerRequest
    <3> HIDE DEF first
    <3> QED BY <3>2, <3>3, FlightOk
  <2>7. CASE rec' = [r EXCEPT !.read = UpdateTrafficSecret(r.read),
                              !.keyFlag = r.keyFlag \/ type = "keyUpdateRequested"]
    <3>1. r.read \in Keys /\ r.keyFlag \in BOOLEAN
      BY <2>3 DEF Records
    <3>2. UpdateTrafficSecret(r.read) \in Keys
      BY <3>1, KeyTypes
    <3>3. rec' \in Records
      <4>1. ASSUME NEW k \in Keys, NEW b
            PROVE  [r EXCEPT !.read = k, !.keyFlag = r.keyFlag \/ type = b] \in Records
        BY <2>3, <3>1 DEF Records
      <4> QED BY <2>7, <3>2, <4>1, Zenon
    <3>4. SameKind(r, rec') /\ SameOut(r, rec') /\ SameIn(r, rec') /\ SameFailed(r, rec')
          /\ rec'.receiver = r.receiver
      BY <2>3, <2>7, ZenonT(60) DEF Records, SameKind, SameOut, SameIn, SameFailed
    <3>5. r.keyFlag => rec'.keyFlag
      BY <2>3, <2>7 DEF Records
    <3> QED BY <2>2, <2>3, <3>3, <3>4, <3>5, ReceiverFrame
  <2> QED BY <1>5, <2>4, <2>5, <2>6, <2>7 DEF OnPostHandshake
<1> QED BY <1>3, <1>4, <1>5

\* RecordInv is an invariant.
LEMMA RecordStep == RecordInv /\ [Next]_vars => RecordInv'
<1> SUFFICES ASSUME RecordInv, [Next]_vars PROVE RecordInv'
  OBVIOUS
<1>1. CASE UNCHANGED rec
  BY <1>1 DEF RecordInv
<1>2. CASE RecNext
  <2>1. CASE SendError
    BY <2>1, SendFailsOk DEF SendError
  <2> QED
    BY <1>2, <2>1, SendStep, FlagStep, ProtectKeyUpdateStep, SendKeyUpdateStep, UpdateWriteKeyStep, ProtectDataStep,
       SendDataStep, ReceiveStep, NoDataStep, ReceiveDataStep, PostHandshakeStep DEF RecNext
<1> QED BY <1>1, <1>2 DEF Next, Quiet, vars

\* Whatever the order of the alerts, tickets, key updates, sends, receives and deliveries, the two ends of a record
\* channel stay in the relation RecordInv: typed, in step generation by generation, nothing owed twice or lost.
THEOREM RecordInvariant == Spec => []RecordInv
<1> QED BY RecordInit, RecordStep, PTL DEF Spec

\* KeysInStep, for every limit of the sequence numbers, of the data and of the records.
THEOREM KeysCorrect == Spec => []KeysInStep
<1>1. RecordInv => KeysInStep
  BY DEF RecordInv, Sealing, InStep, Owing, KeysInStep
<1> QED BY <1>1, RecordInvariant, PTL

\* DataInOrder, likewise.
THEOREM DataCorrect == Spec => []DataInOrder
<1>1. RecordInv => DataInOrder
  <2> SUFFICES ASSUME RecordInv PROVE DataInOrder
    OBVIOUS
  <2>1. rec.got \in Seq(Nat) /\ rec.plain \in Seq(Nat) /\ rec.peerData \in Nat
    BY DEF RecordInv, Records
  <2>2. Len(rec.got) \in Nat /\ Len(rec.plain) \in Nat
    BY <2>1
  <2>3. Len(rec.got) <= rec.peerData
    <3>1. ASSUME NEW a \in Nat, NEW b \in Nat, NEW c \in Nat, a + b = c PROVE a <= c
      BY <3>1
    <3> QED BY <2>1, <2>2, <3>1 DEF RecordInv, Taking
  <2> QED BY <2>3 DEF RecordInv, Taking, Giving, DataInOrder
<1> QED BY <1>1, RecordInvariant, PTL

-----------------------------------------------------------------------------
(***************************************************************************)
(* The second attempt at TLS 1.2.  A failure is recorded at most once in a *)
(* handshake; what was recorded, or the status it ended with, decides what *)
(* the caller does, and each of these is tied to the cause here.           *)
(***************************************************************************)
\* A connection has the fields of NoConnection, whatever their values.
Shaped(h) == DOMAIN h = DOMAIN NoConnection

\* What a server did that warrants the second attempt.
Evidence(cause) ==
    \/ cause[1] \in {"tls12_server_hello", "unsupported", "protocol_version"}
    \/ cause[2] = 1 /\ cause[1] \in {"handshake_failure", "close_notify", "disconnected"}

\* A handshake under way: nothing has failed, and a second attempt was warranted.
Ready(h) == Shaped(h) /\ h.failure = NoFailure /\ (h.confirming => Evidence(h.cause))

HandshakeOk(h) ==
    /\ Shaped(h)
    /\ h.pc = "failed" => (IsTls12ConfirmationCandidate(h) => Evidence(h.cause))
    /\ h.pc # "failed" => Ready(h)
    /\ h.pc = "serverHello13" /\ ~h.retry => Len(h.wire) = 1

-----------------------------------------------------------------------------
\* The helpers of the handshake do not touch the failure, nor the cause of a second attempt.
LEMMA HelpersReady ==
    ASSUME NEW h, Ready(h), NEW m
    PROVE  /\ Ready(AppendTranscript(h, m)) /\ Ready(OnWire(h, m)) /\ Ready(Exchanged(h, m))
           /\ Ready(Digested(h, m)) /\ Ready(Rehash(h, m)) /\ Ready(Accept(h, m))
           /\ Ready(Blamed(h, m)) /\ Ready(Bound(h)) /\ Ready(Requested(h, m))
<1>1. \A k, x : Ready(k) => Ready(AppendTranscript(k, x)) /\ Ready(OnWire(k, x))
  BY DEF Ready, Shaped, NoConnection, AppendTranscript, OnWire
<1>2. Ready(Exchanged(h, m))
  BY <1>1 DEF Exchanged
<1>3. Ready(Digested(h, m)) /\ Ready(Rehash(h, m)) 
  BY DEF Ready, Shaped, NoConnection, Digested, Rehash
<1>4. Ready(Accept(h, m)) /\ Ready(Blamed(h, m)) /\ Ready(Bound(h))
  BY DEF Ready, Shaped, NoConnection, Accept, Blamed, Bound
<1>5. Ready(Requested(h, m))
  <2>1. Ready(Exchanged(h, m.type))
    BY <1>1 DEF Exchanged
  <2> QED BY <2>1 DEF Ready, Shaped, NoConnection, Requested
<1> QED BY <1>1, <1>2, <1>3, <1>4, <1>5

\* Waiting for the next message, or the end.
LEMMA AwaitOk ==
    ASSUME NEW h, Ready(h), NEW pc, pc # "failed", pc # "serverHello13"
    PROVE  HandshakeOk(Await(h, pc))
BY DEF Ready, Shaped, NoConnection, HandshakeOk, Await

\* Waiting for the first ServerHello of TLS 1.3, or for the one after a HelloRetryRequest.
LEMMA AwaitHello13Ok ==
    ASSUME NEW h, Ready(h), h.retry \/ Len(h.wire) = 1
    PROVE  HandshakeOk(Await(h, "serverHello13"))
BY DEF Ready, Shaped, NoConnection, HandshakeOk, Await

LEMMA NoFailureFields ==
    /\ NoFailure.cat = "None" /\ NoFailure.status = "" /\ NoFailure.alert = "" /\ NoFailure.before = FALSE
    /\ \A x, y, z : LET e == [NoFailure EXCEPT !.cat = x, !.status = y, !.alert = z]
                    IN e.cat = x /\ e.status = y /\ e.alert = z /\ e.before = FALSE
BY DEF NoFailure

\* What Fail leaves.
FailedAs(h, f, status, cause) ==
    /\ Shaped(f) /\ f.pc = "failed" /\ f.opt = h.opt
    /\ f.cause[1] = cause /\ f.cause[2] = Len(h.wire)
    /\ h.failure.cat = "None" =>
          f.failure = [h.failure EXCEPT !.cat = CategoryForStatus(status), !.status = status, !.alert = ""]
    /\ h.failure.cat # "None" => f.failure = h.failure

LEMMA FailFields ==
    ASSUME NEW h, Shaped(h), NEW status, NEW cause
    PROVE  FailedAs(h, Fail(h, status, cause), status, cause)
<1>1. h.failure.cat = "None" =>
        RecordHandshakeFailure(h, CategoryForStatus(status), status).failure
          = [h.failure EXCEPT !.cat = CategoryForStatus(status), !.status = status, !.alert = ""]
  BY DEF RecordHandshakeFailure, Shaped, NoConnection
<1> DEFINE g == IF h.failure.cat = "None"
                THEN RecordHandshakeFailure(h, CategoryForStatus(status), status) ELSE h
           failure == g.failure
           c == <<cause, Len(h.wire)>>
<1>2. Fail(h, status, cause) =
        [NoConnection EXCEPT !.pc = "failed", !.n = h.n, !.opt = h.opt, !.confirming = h.confirming,
                            !.failure = failure, !.cause = c, !.fault = h.fault,
                            !.suite = h.suite, !.psk = h.psk, !.requested = h.requested,
                            !.disagree = h.disagree]
  BY DEF Fail
<1>3. /\ h.failure.cat = "None" =>
            failure = [h.failure EXCEPT !.cat = CategoryForStatus(status), !.status = status, !.alert = ""]
      /\ h.failure.cat # "None" => failure = h.failure
  BY <1>1
<1>4. c[1] = cause /\ c[2] = Len(h.wire)
  OBVIOUS
<1> HIDE DEF g, failure, c
<1> DEFINE f == Fail(h, status, cause)
<1>5. Shaped(f)
  BY <1>2 DEF Shaped, NoConnection
<1>6. f.pc = "failed" /\ f.opt = h.opt /\ f.cause = c /\ f.failure = failure
  BY <1>2 DEF NoConnection
<1> HIDE DEF f
<1> QED BY <1>3, <1>4, <1>5, <1>6 DEF f, FailedAs

\* A failure by its status alone is no reason for a second attempt.
LEMMA FailOk ==
    ASSUME NEW h, Ready(h), NEW status, NEW cause
    PROVE  HandshakeOk(Fail(h, status, cause))
<1> DEFINE f == Fail(h, status, cause)
<1>1. Shaped(h) /\ h.failure = NoFailure
  BY DEF Ready
<1>2. h.failure.cat = "None" /\ ~h.failure.before
  BY <1>1, NoFailureFields
<1>3. Shaped(f) /\ f.pc = "failed"
      /\ f.failure = [NoFailure EXCEPT !.cat = CategoryForStatus(status), !.status = status, !.alert = ""]
  <2>1. FailedAs(h, f, status, cause)
    BY <1>1, FailFields
  <2> HIDE DEF f
  <2> QED BY <1>1, <1>2, <2>1 DEF FailedAs
<1>4. CategoryForStatus(status) # "VersionNegotiation"
  BY DEF CategoryForStatus
<1> HIDE DEF f
<1>5. f.failure.cat # "VersionNegotiation" /\ ~f.failure.before
  <2> DEFINE c == CategoryForStatus(status)
             e == [NoFailure EXCEPT !.cat = c, !.status = status, !.alert = ""]
  <2>1. e.cat = c /\ e.before = FALSE
    BY DEF NoFailure
  <2> HIDE DEF e
  <2>2. f.failure = e
    BY <1>3 DEF e
  <2> QED BY <1>4, <2>1, <2>2
<1> QED BY <1>3, <1>5 DEF HandshakeOk, IsTls12ConfirmationCandidate, f

\* A failure that is recorded as something else than a version is none either.
LEMMA FailAsOk ==
    ASSUME NEW h, Ready(h), NEW cat, NEW status, NEW cause, cat # "None",
           cat # "NetworkIo", cat = "VersionNegotiation" => cause \in {"tls12_server_hello", "unsupported"}
    PROVE  HandshakeOk(FailAs(h, cat, status, cause))
<1> DEFINE g == RecordHandshakeFailure(h, cat, status)
           f == Fail(g, status, cause)
<1>1. Shaped(h) /\ h.failure = NoFailure
  BY DEF Ready
<1>2. Shaped(g) /\ g.failure = [NoFailure EXCEPT !.cat = cat, !.status = status, !.alert = ""]
  BY <1>1 DEF RecordHandshakeFailure, Shaped, NoConnection
<1>3. g.failure.cat = cat
  BY <1>2 DEF NoFailure
<1>4. Shaped(f) /\ f.pc = "failed" /\ f.failure = g.failure /\ f.cause[1] = cause
  <2>1. FailedAs(g, f, status, cause)
    BY <1>2, FailFields
  <2> HIDE DEF f, g
  <2> QED BY <1>3, <2>1 DEF FailedAs
<1> HIDE DEF f, g
<1>5. IsTls12ConfirmationCandidate(f) => Evidence(f.cause)
  BY <1>3, <1>4 DEF IsTls12ConfirmationCandidate, Evidence
<1> QED BY <1>4, <1>5 DEF HandshakeOk, FailAs, f, g

\* A failed read.  Before the first ServerHello of TLS 1.3 the end of the connection, or an
\* alert that ends it, counts; so does the alert about versions at any time.
LEMMA ReadFailsOk ==
    ASSUME NEW h, HandshakeOk(h), Ready(h), NEW status, NEW cause,
           status = "disconnected" => cause = "disconnected"
    PROVE  HandshakeOk(ReadFails(h, status, cause))
<1>1. CASE ~FirstServerHello(h)
  BY <1>1, FailOk DEF ReadFails
<1>2. CASE FirstServerHello(h)
  <2> DEFINE g == RecordFirstServerHelloFailure(h, status)
             f == Fail(g, status, cause)
  <2>1. Shaped(h) /\ h.failure = NoFailure /\ Len(h.wire) = 1
    BY <1>2 DEF Ready, HandshakeOk, FirstServerHello
  <2>2. h.failure.alert = ""
    BY <2>1, NoFailureFields
  <2>3. Shaped(g) /\ g.wire = h.wire /\ (g.failure = h.failure \/ g.failure = [h.failure EXCEPT !.before = TRUE])
    BY <2>1, <2>2 DEF RecordFirstServerHelloFailure, Shaped, NoConnection
  <2>a. [NoFailure EXCEPT !.before = TRUE].cat = "None"
    BY DEF NoFailure
  <2>4. g.failure.cat = "None"
    BY <2>1, <2>3, <2>a, NoFailureFields
  <2> HIDE DEF g
  <2>5. Shaped(f) /\ f.pc = "failed" /\ f.cause[1] = cause /\ f.cause[2] = 1
        /\ f.failure = [g.failure EXCEPT !.cat = CategoryForStatus(status), !.status = status, !.alert = ""]
    <3>1. FailedAs(g, f, status, cause)
      BY <2>3, FailFields
    <3> HIDE DEF f
    <3> QED BY <2>1, <2>3, <2>4, <3>1 DEF FailedAs
  <2> HIDE DEF f
  <2>6. f.failure.cat = CategoryForStatus(status) /\ f.failure.status = status
    <3> DEFINE c == CategoryForStatus(status)
    <3>1. \A e \in {NoFailure, [NoFailure EXCEPT !.before = TRUE]} :
             LET x == [e EXCEPT !.cat = c, !.status = status, !.alert = ""] IN x.cat = c /\ x.status = status
      BY DEF NoFailure
    <3> QED BY <2>1, <2>3, <2>5, <3>1
  <2>7. /\ CategoryForStatus(status) # "VersionNegotiation"
        /\ CategoryForStatus(status) = "NetworkIo" /\ status # "io_timeout" => status = "disconnected"
    BY DEF CategoryForStatus
  <2>8. IsTls12ConfirmationCandidate(f) => Evidence(f.cause)
    BY <2>5, <2>6, <2>7 DEF IsTls12ConfirmationCandidate, Evidence
  <2> QED BY <1>2, <2>5, <2>8 DEF HandshakeOk, ReadFails, f, g
<1> QED BY <1>1, <1>2

LEMMA AlertOk ==
    ASSUME NEW h, HandshakeOk(h), Ready(h), NEW alert \in Alerts
    PROVE  HandshakeOk(ReadFails(RecordPeerAlertFailure(h, alert), "invalid_response", alert))
<1> DEFINE a == RecordPeerAlertFailure(h, alert)
           g == IF FirstServerHello(a) THEN RecordFirstServerHelloFailure(a, "invalid_response") ELSE a
           f == Fail(g, "invalid_response", alert)
<1>1. Shaped(h) /\ h.failure = NoFailure
  BY DEF Ready
<1>2. /\ Shaped(a) /\ a.wire = h.wire /\ a.opt = h.opt /\ a.pc = h.pc /\ a.retry = h.retry
      /\ alert = "malformed" =>
            a.failure = [NoFailure EXCEPT !.cat = "DecodeError", !.status = "invalid_response", !.alert = ""]
      /\ alert # "malformed" =>
            a.failure = [NoFailure EXCEPT !.cat = CategoryForPeerAlert(alert), !.status = "invalid_response", !.alert = alert]
  BY <1>1 DEF RecordPeerAlertFailure, RecordHandshakeFailure, Shaped, NoConnection, NoFailure
<1> HIDE DEF a
<1>3. a.failure.cat \in {"DecodeError", "VersionNegotiation", "CertificateValidation", "PeerAlert"}
      /\ (a.failure.cat = "VersionNegotiation" => alert = "protocol_version")
      /\ (a.failure.alert = alert \/ a.failure.alert = "")
  BY <1>2 DEF NoFailure, CategoryForPeerAlert
<1>4. FirstServerHello(a) => Len(a.wire) = 1
  BY <1>2 DEF FirstServerHello, HandshakeOk
<1>5. /\ Shaped(g) /\ g.wire = a.wire
      /\ \/ g.failure.cat = a.failure.cat
         \/ g.failure.cat = "VersionNegotiation" /\ alert \in {"handshake_failure", "close_notify"} /\ Len(a.wire) = 1
  <2>0. a.failure = [a.failure EXCEPT !.cat = a.failure.cat] /\ "cat" \in DOMAIN a.failure /\ "before" \in DOMAIN a.failure
        /\ "status" \in DOMAIN a.failure
    BY <1>2 DEF NoFailure
  <2>1. CASE g = a
    BY <1>2, <2>1
  <2>2. CASE g = [a EXCEPT !.failure.before = TRUE]
    BY <1>2, <2>0, <2>2 DEF Shaped, NoConnection
  <2>3. CASE /\ g = [[a EXCEPT !.failure.before = TRUE]
                        EXCEPT !.failure.cat = "VersionNegotiation", !.failure.status = "invalid_response"]
             /\ FirstServerHello(a) /\ a.failure.alert \in {"handshake_failure", "close_notify"}
    <3>1. Shaped(g) /\ g.wire = a.wire /\ g.failure.cat = "VersionNegotiation"
      <4> DEFINE b == [a EXCEPT !.failure.before = TRUE]
      <4>1. Shaped(b) /\ b.wire = a.wire /\ "cat" \in DOMAIN b.failure /\ "status" \in DOMAIN b.failure
        BY <1>2, <2>0 DEF Shaped, NoConnection
      <4>2. g = [b EXCEPT !.failure.cat = "VersionNegotiation", !.failure.status = "invalid_response"]
        BY <2>3
      <4> HIDE DEF b, g
      <4>3. Shaped(g) /\ g.wire = b.wire
        BY <4>1, <4>2 DEF Shaped, NoConnection
      <4>4. g.failure = [[b.failure EXCEPT !.cat = "VersionNegotiation"] EXCEPT !.status = "invalid_response"]
        BY <4>1, <4>2 DEF Shaped, NoConnection
      <4> QED BY <4>1, <4>3, <4>4
    <3> QED BY <1>3, <1>4, <2>3, <3>1
  <2> QED BY <2>1, <2>2, <2>3 DEF RecordFirstServerHelloFailure
<1> HIDE DEF g
<1>6. g.failure.cat # "None"
  BY <1>3, <1>5
<1>7. Shaped(f) /\ f.pc = "failed" /\ f.cause[1] = alert /\ f.cause[2] = Len(a.wire) /\ f.failure = g.failure
  <2>1. FailedAs(g, f, "invalid_response", alert)
    BY <1>5, FailFields
  <2> HIDE DEF f
  <2> QED BY <1>5, <1>6, <2>1 DEF FailedAs
<1> HIDE DEF f
<1>8. IsTls12ConfirmationCandidate(f) => Evidence(f.cause)
  BY <1>3, <1>5, <1>7 DEF IsTls12ConfirmationCandidate, Evidence
<1>9. HandshakeOk(f)
  BY <1>7, <1>8 DEF HandshakeOk
<1> QED BY <1>9 DEF ReadFails, f, g, a

\* A connection starts with nothing exchanged.
LEMMA StartOk ==
    ASSUME NEW h, Ready(h), h.wire = <<>>
    PROVE  HandshakeOk(Start(h))
<1>1. \A b : Ready([h EXCEPT !.fault = b])
  BY DEF Ready, Shaped, NoConnection
<1>2. HandshakeOk(StartTls12(h))
  <2> DEFINE session == SelectTls12Session(h.opt)
             hello == [h EXCEPT !.selected = session, !.hello = EncodeClientHello12(h.opt, session),
                                !.transcript.hash = "sha256"]
  <2>1. Ready(hello)
    BY DEF Ready, Shaped, NoConnection
  <2> HIDE DEF hello
  <2>2. Ready(Exchanged(hello, "ClientHello"))
    BY <2>1, HelpersReady
  <2>3. HandshakeOk(Await(Exchanged(hello, "ClientHello"), "serverHello12"))
    BY <2>2, AwaitOk
  <2> QED BY <1>1, <2>3, FailOk DEF StartTls12, hello
<1>3. HandshakeOk(StartTls13(h))
  <2> DEFINE ticket == SelectTls13Ticket(h.opt)
             early == h.opt.early = "safe" /\ ticket.early
             hello == [h EXCEPT !.selected = ticket, !.hello = EncodeClientHello13(h.opt, "x25519", ticket, early),
                                !.suite = IF ticket = NoSession THEN "aes128" ELSE ticket.suite,
                                !.transcript.hash = "sha256"]
             sent == Exchanged(hello, "ClientHello")
             bound == Bound(sent)
             last == DeriveEarlySecrets(bound)
  <2>1. Ready(hello) /\ hello.wire = <<>>
    BY DEF Ready, Shaped, NoConnection
  <2>0. StartTls13(h) = Await(last, "serverHello13")
    BY DEF StartTls13
  <2> HIDE DEF hello
  <2>2. Ready(sent)
    BY <2>1, HelpersReady
  <2>3. sent.wire = Append(<<>>, "ClientHello")
    BY <2>1 DEF Exchanged, OnWire, AppendTranscript, Ready, Shaped, NoConnection
  <2> HIDE DEF sent
  <2>4. Ready(bound) /\ bound.wire = sent.wire
    BY <2>2, HelpersReady DEF Bound, Ready, Shaped, NoConnection
  <2> HIDE DEF bound
  <2>5. Ready(last) /\ last.wire = bound.wire
    BY <2>4, HelpersReady DEF DeriveEarlySecrets, Digested, Ready, Shaped, NoConnection
  <2> HIDE DEF last
  <2>6. Len(last.wire) = 1
    BY <2>3, <2>4, <2>5
  <2> QED BY <2>0, <2>5, <2>6, AwaitHello13Ok
<1>4. /\ HandshakeOk(FailAs([h EXCEPT !.fault = TRUE], "LocalPolicy", "invalid_parameter", "local"))
      /\ HandshakeOk(FailAs([h EXCEPT !.fault = TRUE], "LocalPolicy", "not_supported", "local"))
  BY <1>1, FailAsOk
<1> QED BY <1>2, <1>3, <1>4 DEF Start

LEMMA ConnectStep == HandshakeOk(hs) /\ (Connect \/ ConfirmTls12) => HandshakeOk(hs')
<1> SUFFICES ASSUME HandshakeOk(hs), Connect \/ ConfirmTls12 PROVE HandshakeOk(hs')
  OBVIOUS
<1>1. CASE Connect
  <2> PICK opt : hs' = Start([NoConnection EXCEPT !.n = hs.n + 1, !.opt = opt])
    BY <1>1 DEF Connect
  <2> DEFINE h == [NoConnection EXCEPT !.n = hs.n + 1, !.opt = opt]
  <2>1. Ready(h) /\ h.wire = <<>>
    BY DEF Ready, Shaped, NoConnection
  <2> HIDE DEF h
  <2> QED BY <2>1, StartOk DEF h
<1>2. CASE ConfirmTls12
  <2> DEFINE opt == [hs.opt EXCEPT !.max = 12]
             h == [NoConnection EXCEPT !.n = hs.n, !.opt = opt, !.confirming = TRUE, !.cause = hs.cause]
  <2>1. hs' = Start(h) /\ Evidence(hs.cause)
    BY <1>2 DEF ConfirmTls12, HandshakeOk
  <2>2. Ready(h) /\ h.wire = <<>>
    BY <2>1 DEF Ready, Shaped, NoConnection
  <2> HIDE DEF h
  <2> QED BY <2>1, <2>2, StartOk
<1> QED BY <1>1, <1>2

-----------------------------------------------------------------------------
\* The messages of TLS 1.3.
LEMMA ServerHello13Ok ==
    ASSUME NEW h, Ready(h), NEW m
    PROVE  HandshakeOk(OnServerHello13(h, m))
<1>1. \A status : HandshakeOk(ServerHelloRefused(h, m, status))
  BY FailOk, FailAsOk DEF ServerHelloRefused
<1>2. HandshakeOk(HelloRetry(h, m))
  <2> DEFINE g == [h EXCEPT !.retry = TRUE, !.suite = m.suite,
                            !.hello = EncodeClientHello13(h.opt, m.group, h.selected, h.hello.early)]
             asked == Exchanged(g, "HelloRetryRequest")
             again == Exchanged(asked, "ClientHello2")
             bound == Bound(again)
  <2>1. Ready(g) /\ g.retry
    BY DEF Ready, Shaped, NoConnection
  <2>0. HelloRetry(h, m) = Fail(h, "invalid_response", "retry") \/ HelloRetry(h, m) = Await(bound, "serverHello13")
    BY DEF HelloRetry
  <2> HIDE DEF g
  <2>2. Ready(asked) /\ asked.retry
    BY <2>1, HelpersReady DEF Exchanged, OnWire, AppendTranscript, Ready, Shaped, NoConnection
  <2> HIDE DEF asked
  <2>3. Ready(again) /\ again.retry
    BY <2>2, HelpersReady DEF Exchanged, OnWire, AppendTranscript, Ready, Shaped, NoConnection
  <2> HIDE DEF again
  <2>4. Ready(bound) /\ bound.retry
    BY <2>3, HelpersReady DEF Bound, Ready, Shaped, NoConnection
  <2> HIDE DEF bound
  <2> QED BY <2>0, <2>4, FailOk, AwaitHello13Ok
<1>3. HandshakeOk(ServerHelloAccepted13(h, m))
  <2> DEFINE g == [h EXCEPT !.suite = m.suite, !.psk = m.psk, !.encrypted = TRUE]
             read == OnWire(g, "ServerHello")
             first == IF h.retry THEN <<"message_hash", "HelloRetryRequest", "ClientHello2">> ELSE <<"ClientHello">>
             hashed == Rehash(read, Append(first, "ServerHello"))
  <2>1. Ready(g)
    BY DEF Ready, Shaped, NoConnection
  <2>2. Ready(read)
    BY <2>1, HelpersReady
  <2>3. Ready(hashed)
    BY <2>2, HelpersReady
  <2>4. Ready(DeriveHandshakeSecrets(hashed))
    BY <2>3, HelpersReady DEF DeriveHandshakeSecrets
  <2> QED BY <2>4, AwaitOk DEF ServerHelloAccepted13
<1> QED BY <1>1, <1>2, <1>3, FailOk DEF OnServerHello13

LEMMA Messages13Ok ==
    ASSUME NEW h, Ready(h), NEW m
    PROVE  /\ HandshakeOk(OnEncryptedExtensions(h, m)) /\ HandshakeOk(OnCertificateRequest13(h, m))
           /\ HandshakeOk(OnCertificate13(h, m)) /\ HandshakeOk(OnCertificateVerify13(h, m))
           /\ HandshakeOk(OnFinished13(h, m))
<1>0. /\ \A status, cause : HandshakeOk(Fail(h, status, cause))
      /\ HandshakeOk(FailAs(h, "AlpnMismatch", "not_supported", "alpn"))
  BY FailOk, FailAsOk
<1>1. HandshakeOk(OnEncryptedExtensions(h, m))
  <2> DEFINE sent == Exchanged(h, m.type)
             read == [sent EXCEPT !.negotiatedAlpn = m.alpn]
  <2>1. Ready(sent)
    BY HelpersReady
  <2> HIDE DEF sent
  <2>2. Ready([read EXCEPT !.earlyAccepted = m.early])
    BY <2>1 DEF Ready, Shaped, NoConnection
  <2>3. HandshakeOk(Await([read EXCEPT !.earlyAccepted = m.early], "certificateOrRequest13"))
    BY <2>2, AwaitOk
  <2> QED BY <1>0, <2>3 DEF OnEncryptedExtensions, sent
<1>2. HandshakeOk(OnCertificateRequest13(h, m))
  BY <1>0, HelpersReady, AwaitOk DEF OnCertificateRequest13
<1>3. \A x : Ready(Exchanged(Accept(h, m), x))
  BY HelpersReady
<1>4. HandshakeOk(OnCertificate13(h, m)) /\ HandshakeOk(OnCertificateVerify13(h, m))
  BY <1>0, <1>3, AwaitOk DEF OnCertificate13, OnCertificateVerify13
<1>5. HandshakeOk(OnFinished13(h, m))
  <2> DEFINE secrets == DeriveApplicationSecrets(Exchanged(Accept(h, m), m.type))
             ended == IF secrets.earlyAccepted THEN Exchanged(secrets, "EndOfEarlyData") ELSE secrets
             sent == IF secrets.requested THEN Exchanged(ended, "ClientCertificate") ELSE ended
             answer == ClientAnswer13(secrets)
             answered == Digested(answer, "client_finished")
  <2>1. Ready(secrets)
    BY <1>3, HelpersReady DEF DeriveApplicationSecrets
  <2>0. OnFinished13(h, m) = Fail(h, "invalid_response", "finished")
        \/ OnFinished13(h, m) = Await(Exchanged(answered, "ClientFinished"), "established")
    BY DEF OnFinished13
  <2> HIDE DEF secrets
  <2>2. Ready(ended)
    BY <2>1, HelpersReady
  <2>3. answer = IF secrets.sendVerify
                 THEN Exchanged(Digested(sent, "client_signature"), "ClientCertificateVerify") ELSE sent
    BY DEF ClientAnswer13
  <2> HIDE DEF ended, answer
  <2>4. Ready(sent)
    BY <2>2, HelpersReady
  <2> HIDE DEF sent
  <2>5. Ready(Digested(sent, "client_signature"))
    BY <2>4, HelpersReady
  <2>6. Ready(answer)
    BY <2>3, <2>4, <2>5, HelpersReady
  <2>7. Ready(answered)
    BY <2>6, HelpersReady
  <2>8. Ready(Exchanged(answered, "ClientFinished"))
    BY <2>7, HelpersReady
  <2> QED BY <1>0, <2>0, <2>8, AwaitOk
<1> QED BY <1>1, <1>2, <1>4, <1>5

\* The messages of TLS 1.2.
LEMMA ServerHello12Ok ==
    ASSUME NEW h, Ready(h), NEW m
    PROVE  HandshakeOk(OnServerHello12(h, m))
<1>0. /\ \A status, cause : HandshakeOk(Fail(h, status, cause))
      /\ HandshakeOk(FailAs(h, "AlpnMismatch", "not_supported", "alpn"))
      /\ HandshakeOk(FailAs(h, "LocalPolicy", "not_supported", "server_hello"))
  BY FailOk, FailAsOk
<1>1. HandshakeOk(ServerHelloAccepted12(h, m))
  <2> DEFINE sid == SessionIdOf(h, m)
             resumed == Echoed(h, sid)
             g == [h EXCEPT !.suite = m.suite, !.sid = sid, !.mayTicket = HasSessionTicket(m),
                            !.negotiatedAlpn = m.alpn, !.resumed = resumed,
                            !.forged = IF resumed THEN h.selected.forged ELSE {},
                            !.viewLive = m.coalesced \/ resumed]
             read == OnWire(g, "ServerHello")
             hashed == Rehash(read, <<"ClientHello", "ServerHello">>)
  <2>1. Ready(g)
    BY DEF Ready, Shaped, NoConnection
  <2>2. \/ ServerHelloAccepted12(h, m) = Await(hashed, "certificate12")
        \/ ServerHelloAccepted12(h, m) = Fail(h, "invalid_response", "resumption")
        \/ ServerHelloAccepted12(h, m) = Await(hashed, "ccs12")
    BY DEF ServerHelloAccepted12
  <2> HIDE DEF g
  <2>3. Ready(read)
    BY <2>1, HelpersReady
  <2> HIDE DEF read
  <2>4. Ready(hashed)
    BY <2>3, HelpersReady
  <2> HIDE DEF hashed
  <2> QED BY <1>0, <2>2, <2>4, AwaitOk
<1> QED BY <1>0, <1>1 DEF OnServerHello12

LEMMA Messages12Ok ==
    ASSUME NEW h, Ready(h), NEW m
    PROVE  /\ HandshakeOk(OnCertificate12(h, m)) /\ HandshakeOk(OnServerKeyExchange(h, m))
           /\ HandshakeOk(OnCertificateRequest12(h, m)) /\ HandshakeOk(OnServerHelloDone(h, m))
           /\ HandshakeOk(OnFinished12(h, m))
<1>0. \A status, cause : HandshakeOk(Fail(h, status, cause))
  BY FailOk
<1>1. Ready(Exchanged(Accept(h, m), m.type))
  BY HelpersReady
<1>2. HandshakeOk(OnCertificate12(h, m)) /\ HandshakeOk(OnServerKeyExchange(h, m))
  BY <1>0, <1>1, AwaitOk DEF OnCertificate12, OnServerKeyExchange
<1>3. HandshakeOk(OnCertificateRequest12(h, m))
  <2> DEFINE asked == OnWire(Requested(h, m), "ServerHelloDone")
  <2>1. Ready(Requested(h, m))
    BY HelpersReady
  <2>2. Ready(asked)
    BY <2>1, HelpersReady
  <2>3. Ready(Exchanged(asked, "ClientCertificate"))
    BY <2>2, HelpersReady
  <2> QED BY <1>0, <2>3, AwaitOk DEF OnCertificateRequest12
<1>4. ASSUME NEW k, Ready(k) PROVE Ready(ClientFlight12(k))
  <2> DEFINE sent == Exchanged(k, "ClientKeyExchange")
             keyed == DeriveExtendedMasterSecret(sent)
             signed == IF k.sendVerify
                       THEN Exchanged(Digested(keyed, "client_signature"), "ClientCertificateVerify") ELSE keyed
  <2>1. Ready(sent)
    BY <1>4, HelpersReady
  <2>2. Ready(keyed)
    BY <2>1, HelpersReady DEF DeriveExtendedMasterSecret
  <2>0. ClientFlight12(k) = Exchanged(Digested(signed, "client_finished"), "ClientFinished")
    BY DEF ClientFlight12
  <2> HIDE DEF keyed
  <2>3. Ready(Digested(keyed, "client_signature"))
    BY <2>2, HelpersReady
  <2>4. Ready(signed)
    BY <2>2, <2>3, HelpersReady
  <2> HIDE DEF signed
  <2>5. Ready(Digested(signed, "client_finished"))
    BY <2>4, HelpersReady
  <2> QED BY <2>0, <2>5, HelpersReady
<1>5. HandshakeOk(OnServerHelloDone(h, m))
  <2> DEFINE k == IF h.requested THEN AppendTranscript(h, m.type) ELSE Exchanged(h, m.type)
  <2>1. Ready(k)
    BY HelpersReady
  <2>2. Ready(ClientFlight12(k))
    BY <1>4, <2>1
  <2> QED BY <1>0, <2>2, AwaitOk DEF OnServerHelloDone
<1>6. HandshakeOk(OnFinished12(h, m))
  <2> DEFINE verified == Exchanged(Accept(h, m), m.type)
             k == IF h.resumed THEN Exchanged(Digested(verified, "client_finished"), "ClientFinished") ELSE verified
  <2>1. Ready(verified)
    BY <1>1
  <2>0. OnFinished12(h, m) = Fail(h, "invalid_response", "finished") \/ OnFinished12(h, m) = Await(k, "established")
    BY DEF OnFinished12
  <2> HIDE DEF verified
  <2>2. Ready(Digested(verified, "client_finished"))
    BY <2>1, HelpersReady
  <2>3. Ready(k)
    BY <2>1, <2>2, HelpersReady
  <2> HIDE DEF k
  <2> QED BY <1>0, <2>0, <2>3, AwaitOk
<1> QED BY <1>2, <1>3, <1>5, <1>6

-----------------------------------------------------------------------------
\* Every step of a handshake.
LEMMA HandshakeStep == HandshakeOk(hs) /\ HsStep => HandshakeOk(hs')
<1> SUFFICES ASSUME HandshakeOk(hs), HsStep PROVE HandshakeOk(hs')
  OBVIOUS
<1>a. ASSUME hs.pc # "failed" PROVE Ready(hs) /\ \A b : Ready(Blamed(hs, b))
  BY <1>a, HelpersReady DEF HandshakeOk
<1>1. CASE ReadServerHello13
  BY <1>1, <1>a, ServerHello13Ok DEF ReadServerHello13, Awaits
<1>2. CASE ReadEncryptedExtensions
  BY <1>2, <1>a, Messages13Ok DEF ReadEncryptedExtensions, Awaits
<1>3. CASE ReadCertificate13
  BY <1>3, <1>a, Messages13Ok DEF ReadCertificate13, Awaits
<1>4. CASE ReadCertificateVerify13
  BY <1>4, <1>a, Messages13Ok DEF ReadCertificateVerify13, Awaits
<1>5. CASE ReadFinished13
  BY <1>5, <1>a, Messages13Ok DEF ReadFinished13, Awaits
<1>6. CASE ReadServerHello12
  BY <1>6, <1>a, ServerHello12Ok DEF ReadServerHello12, Awaits
<1>7. CASE ReadCertificate12
  BY <1>7, <1>a, Messages12Ok DEF ReadCertificate12, Awaits
<1>8. CASE ReadCertificateStatus
  <2> PICK m : LET h == Blamed(hs, m.form = "ok")
               IN hs' = IF ParseCertificateStatus(m) = "success" THEN Await(Exchanged(h, m.type), "keyExchange12")
                        ELSE Fail(h, "invalid_response", "status")
    BY <1>8 DEF ReadCertificateStatus
  <2>1. Ready(Blamed(hs, m.form = "ok"))
    BY <1>8, <1>a DEF ReadCertificateStatus, Awaits
  <2>2. Ready(Exchanged(Blamed(hs, m.form = "ok"), m.type))
    BY <2>1, HelpersReady
  <2> QED BY <2>1, <2>2, AwaitOk, FailOk
<1>9. CASE ReadServerKeyExchange
  BY <1>9, <1>a, Messages12Ok DEF ReadServerKeyExchange, Awaits
<1>10. CASE ReadRequestOrDone12
  BY <1>10, <1>a, Messages12Ok DEF ReadRequestOrDone12, MayFollow12, Awaits
<1>11. CASE ReadNewSessionTicket
  <2> PICK life : hs' = OnNewSessionTicket(Blamed(hs, hs.mayTicket /\ hs.pending.ticket = 0), life)
    BY <1>11 DEF ReadNewSessionTicket
  <2> DEFINE h == Blamed(hs, hs.mayTicket /\ hs.pending.ticket = 0)
             k == Exchanged(h, "NewSessionTicket")
             t == [k EXCEPT !.pending.ticket = h.n, !.pending.life = life,
                            !.viewLive = FALSE, !.partial = FALSE, !.records = k.records + 1]
  <2>1. Ready(h) /\ h.pc = "ccs12"
    <3>1. hs.pc = "ccs12" /\ Shaped(hs)
      BY <1>11 DEF ReadNewSessionTicket, Awaits, HandshakeOk
    <3>2. h.pc = hs.pc
      BY <3>1 DEF Blamed, Shaped, NoConnection
    <3> QED BY <1>a, <3>1, <3>2
  <2>0. hs' = Fail(h, "invalid_response", "ticket") \/ hs' = t
    BY DEF OnNewSessionTicket
  <2> HIDE DEF h
  <2>2. Ready(k) /\ k.pc = "ccs12"
    BY <2>1, HelpersReady DEF Exchanged, OnWire, AppendTranscript, Ready, Shaped, NoConnection
  <2> HIDE DEF k
  <2>3. Ready(t) /\ t.pc = "ccs12"
    BY <2>2 DEF Ready, Shaped, NoConnection
  <2> HIDE DEF t
  <2> QED BY <2>0, <2>1, <2>3, FailOk DEF HandshakeOk, Ready
<1>12. CASE ReadChangeCipherSpec
  <2> DEFINE h == Blamed(hs, ~hs.partial)
  <2>1. Ready(h)
    BY <1>12, <1>a DEF ReadChangeCipherSpec, Awaits
  <2>0. hs' = Fail(h, "invalid_response", "ccs") \/ hs' = Await([h EXCEPT !.encrypted = TRUE], "finished12")
    BY <1>12 DEF ReadChangeCipherSpec
  <2> HIDE DEF h
  <2>2. Ready([h EXCEPT !.encrypted = TRUE])
    BY <2>1 DEF Ready, Shaped, NoConnection
  <2> QED BY <2>0, <2>1, <2>2, FailOk, AwaitOk
<1>13. CASE ReadFinished12
  BY <1>13, <1>a, Messages12Ok DEF ReadFinished12, Awaits
<1>b. ASSUME NEW k, Reading(hs), k = [hs EXCEPT !.fault = k.fault] PROVE HandshakeOk(k) /\ Ready(k)
  <2>1. Ready(hs)
    BY <1>a, <1>b DEF Reading
  <2>2. k.pc = hs.pc /\ k.retry = hs.retry /\ k.wire = hs.wire /\ Ready(k)
    BY <1>b, <2>1 DEF Ready, Shaped, NoConnection
  <2> QED BY <1>b, <2>2 DEF HandshakeOk, Ready, Reading
<1>14. CASE ReadAlert
  <2> PICK alert \in Alerts :
         hs' = ReadFails(RecordPeerAlertFailure(Blamed(hs, alert = "decrypt_error" /\ hs.disagree # {}), alert),
                         "invalid_response", alert)
    BY <1>14 DEF ReadAlert
  <2> DEFINE h == Blamed(hs, alert = "decrypt_error" /\ hs.disagree # {})
  <2>1. h = [hs EXCEPT !.fault = h.fault] /\ Reading(hs)
    BY <1>14 DEF ReadAlert, Blamed, HandshakeOk, Shaped, NoConnection
  <2> HIDE DEF h
  <2>2. HandshakeOk(h) /\ Ready(h)
    BY <1>b, <2>1
  <2> QED BY <2>2, AlertOk DEF h
<1>15. CASE ReadError
  <2> PICK status : hs' = ReadFails([hs EXCEPT !.fault = TRUE], status, status)
    BY <1>15 DEF ReadError
  <2> DEFINE h == [hs EXCEPT !.fault = TRUE]
  <2>1. h = [hs EXCEPT !.fault = h.fault] /\ Reading(hs)
    BY <1>15 DEF ReadError, HandshakeOk, Shaped, NoConnection
  <2> HIDE DEF h
  <2>2. HandshakeOk(h) /\ Ready(h)
    BY <1>b, <2>1
  <2> QED BY <2>2, ReadFailsOk DEF h
<1>16. CASE ReadFragment
  <2> DEFINE h == [hs EXCEPT !.fault = TRUE]
             k == [hs EXCEPT !.records = hs.records + 1, !.partial = TRUE]
  <2>1. h = [hs EXCEPT !.fault = h.fault] /\ Reading(hs)
    BY <1>16 DEF ReadFragment, HandshakeOk, Shaped, NoConnection
  <2>0. hs' = k \/ hs' = ReadFails(h, "invalid_response", "records")
    BY <1>16 DEF ReadFragment
  <2> HIDE DEF h
  <2>2. HandshakeOk(h) /\ Ready(h)
    BY <1>b, <2>1
  <2>3. HandshakeOk(ReadFails(h, "invalid_response", "records"))
    BY <2>2, ReadFailsOk
  <2>4. Ready(hs)
    BY <1>a, <2>1 DEF Reading
  <2>5. k.pc = hs.pc /\ k.retry = hs.retry /\ k.wire = hs.wire /\ Ready(k)
    BY <2>4 DEF Ready, Shaped, NoConnection
  <2> HIDE DEF k
  <2>6. HandshakeOk(k)
    BY <2>1, <2>5 DEF HandshakeOk, Ready, Reading
  <2> QED BY <2>0, <2>3, <2>6
<1>17. CASE LocalFailure
  <2> DEFINE h == [hs EXCEPT !.fault = TRUE]
  <2>1. h = [hs EXCEPT !.fault = h.fault] /\ Reading(hs) /\ hs' = Fail(h, "resources", "local")
    BY <1>17 DEF LocalFailure, HandshakeOk, Shaped, NoConnection
  <2> HIDE DEF h
  <2>2. HandshakeOk(h) /\ Ready(h)
    BY <1>b, <2>1
  <2> QED BY <2>1, <2>2, FailOk
<1> QED BY <1>1, <1>2, <1>3, <1>4, <1>5, <1>6, <1>7, <1>8, <1>9, <1>10, <1>11, <1>12, <1>13, <1>14, <1>15,
           <1>16, <1>17 DEF HsStep

\* Every handshake in progress, and the one a fallback starts, is as HandshakeOk says: a narrowed attempt is there only
\* because the callers and the servers gave the evidence for it.
THEOREM HandshakeInvariant == Spec => []HandshakeOk(hs)
<1>1. Connecting \/ Connected => HandshakeOk(hs)
  <2>1. HandshakeOk(NoConnection)
    BY DEF HandshakeOk, Ready, Shaped, NoConnection
  <2>2. \A n : HandshakeOk([NoConnection EXCEPT !.n = n])
    BY DEF HandshakeOk, Ready, Shaped, NoConnection
  <2> QED BY <2>1, <2>2 DEF Connecting, Connected, HsInit
<1>2. HandshakeOk(hs) /\ [Next]_vars => HandshakeOk(hs)'
  <2>1. CASE UNCHANGED hs
    BY <2>1
  <2> QED BY <2>1, ConnectStep, HandshakeStep DEF Next, HsNext, Tick, Quiet, hsVars, vars
<1> QED BY <1>1, <1>2, PTL DEF Spec

\* FallbackOnlyOnEvidence, for any options of the callers and any answers of the servers.
THEOREM FallbackCorrect == Spec => []FallbackOnlyOnEvidence
<1>1. HandshakeOk(hs) => FallbackOnlyOnEvidence
  BY DEF HandshakeOk, Ready, Evidence, FallbackOnlyOnEvidence
<1> QED BY <1>1, HandshakeInvariant, PTL
====
