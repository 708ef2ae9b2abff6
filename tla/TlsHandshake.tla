----------------------------- MODULE TlsHandshake -----------------------------
(***************************************************************************)
(* TlsConnection::Connect: the handshakes of a TLS client (tls/            *)
(* TlsConnection.cpp with TlsHandshake12, TlsHandshake13, TlsContext and   *)
(* TlsPolicy), and the callers' second attempt at TLS 1.2                  *)
(* (engine/HttpEngine.cpp).                                                *)
(*                                                                         *)
(* Connect is one thread that waits for the server, so a step is one       *)
(* message of the server and all the client does until it reads again.     *)
(* The server may send any message, well formed or not, and any record     *)
(* event.  Messages are reduced to what the code decides by, a digest to   *)
(* the messages it was fed, a certificate chain to the verdict on it.      *)
(*                                                                         *)
(* History: wire is the handshake as a conforming server hashes it, fault  *)
(* that the server (or an allocation) gave a reason to fail, forged the    *)
(* messages accepted that no honest server made (a session keeps those it  *)
(* was made with), disagree the secrets and signatures the client computed *)
(* over another transcript, cause what ended a connection and how many     *)
(* messages had been exchanged by then.                                    *)
(***************************************************************************)
EXTENDS TlsMessages, FiniteSetsExt, SequencesExt, TLC

CONSTANTS
    Options,              \* the TlsClientConnectionOptions of the callers, per connection
    Tickets,              \* contents of the TLS 1.3 ticket cache to start from
    MaxSessions,          \* Tls12MaxSessionCount
    HandshakeMaxRecords,  \* TlsHandshakeMaxRecords
    MaxClock,             \* last tick of the clock
    Lifetimes,            \* ticket lifetimes, 0 for none
    Resumptions           \* how the server resumes: "id" (TLS 1.2), "psk" (TLS 1.3)

VARIABLES
    hs,        \* the connection that is being made
    sessions,  \* Tls12SessionCache, oldest first
    tickets,   \* Tls13SessionCache, oldest first
    clock

hsVars == <<hs, sessions, tickets, clock>>

ASSUME TlsAssumption ==
    /\ MaxSessions \in Nat \ {0}
    /\ HandshakeMaxRecords \in Nat \ {0} /\ MaxClock \in Nat
    /\ Lifetimes \subseteq Nat /\ Resumptions \subseteq {"id", "psk"}
    /\ \A o \in UNION Range(Options) : o.alpn \subseteq {"h2", "http/1.1"} /\ {o.min, o.max} \subseteq Protocols

NoOptions == [name |-> "", policy |-> "modern", min |-> 12, max |-> 12, alpn |-> {},
              resume |-> FALSE, early |-> "no", cred |-> FALSE, verify |-> TRUE]
NoSession == [n |-> 0, id |-> 0, ticket |-> 0, life |-> 0, issued |-> 0, name |-> "",
              alpn |-> "", suite |-> "", policy |-> "", early |-> FALSE, forged |-> {}]
NoHello == EncodeClientHello12(NoOptions, NoSession)
NoTranscript == [hash |-> "", msgs |-> <<>>]
NoFailure == [cat |-> "None", status |-> "", alert |-> "", before |-> FALSE]

\* Reset: a connection before Connect.  Session ids are numbers, 0 for none and
\* -1 for bytes that are not an id of the server.
NoConnection ==
    [pc |-> "idle", n |-> 0, opt |-> NoOptions, confirming |-> FALSE,
     failure |-> NoFailure, cause |-> <<"", 0>>, fault |-> FALSE,
     selected |-> NoSession, hello |-> NoHello, retry |-> FALSE,
     suite |-> "", psk |-> 0, sid |-> 0, viewLive |-> FALSE, mayTicket |-> FALSE, resumed |-> FALSE,
     negotiatedAlpn |-> "", earlyAccepted |-> FALSE, encrypted |-> FALSE,
     requested |-> FALSE, sendVerify |-> FALSE, records |-> 0, partial |-> FALSE, pending |-> NoSession,
     transcript |-> NoTranscript, wire |-> <<>>, forged |-> {}, disagree |-> {}]

HsInit ==
    /\ hs = NoConnection /\ sessions = <<>> /\ clock = 1
    /\ tickets \in Tickets

-----------------------------------------------------------------------------
(***************************************************************************)
(* Failures.                                                               *)
(***************************************************************************)
CategoryForPeerAlert(alert) ==
    CASE alert = "protocol_version" -> "VersionNegotiation"
      [] alert = "bad_certificate"  -> "CertificateValidation"
      [] OTHER                      -> "PeerAlert"

CategoryForStatus(status) ==
    CASE status \in {"trust_failure", "invalid_signature"} -> "CertificateValidation"
      [] status \in {"io_timeout", "disconnected"}         -> "NetworkIo"
      [] status = "invalid_response"                       -> "DecodeError"
      [] status \in {"not_supported", "invalid_parameter"} -> "LocalPolicy"
      [] OTHER                                             -> "CryptoError"

\* RecordHandshakeFailure
RecordHandshakeFailure(h, cat, status) ==
    [h EXCEPT !.failure = [@ EXCEPT !.cat = cat, !.status = status, !.alert = ""]]

\* The end of Connect: what was recorded stays, or the status decides.
\* The buffers of the handshake are released.
Fail(h, status, cause) ==
    LET recorded == IF h.failure.cat = "None"
                    THEN RecordHandshakeFailure(h, CategoryForStatus(status), status) ELSE h
    IN [NoConnection EXCEPT !.pc = "failed", !.n = h.n, !.opt = h.opt, !.confirming = h.confirming,
                            !.failure = recorded.failure, !.cause = <<cause, Len(h.wire)>>, !.fault = h.fault,
                            !.suite = h.suite, !.psk = h.psk, !.requested = h.requested,
                            !.disagree = h.disagree]

FailAs(h, cat, status, cause) == Fail(RecordHandshakeFailure(h, cat, status), status, cause)

ProtocolAllowed(opt, p) == opt.min <= p /\ p <= opt.max

\* CanConfirmTls12FromTls13Attempt
CanConfirmTls12(opt) == ProtocolAllowed(opt, 12) /\ ProtocolAllowed(opt, 13) /\ opt.early = "no"

\* RecordTls13FirstServerHelloFailure
RecordFirstServerHelloFailure(h, status) ==
    LET marked == [h EXCEPT !.failure.before = TRUE]
    IN IF ~CanConfirmTls12(h.opt) THEN h
       ELSE IF status = "invalid_response" /\ h.failure.alert \in {"handshake_failure", "close_notify"}
            THEN [marked EXCEPT !.failure.cat = "VersionNegotiation", !.failure.status = status]
            ELSE marked

-----------------------------------------------------------------------------
(***************************************************************************)
(* The transcript.  The server's digest covers what went over the wire in  *)
(* the order in which it sent and received it, and the first ClientHello   *)
(* only as a hash once it has asked for a second one.                      *)
(***************************************************************************)
AppendTranscript(h, m) == [h EXCEPT !.transcript.msgs = Append(@, m)]
OnWire(h, m) == [h EXCEPT !.wire = Append(@, m)]
Exchanged(h, m) == OnWire(AppendTranscript(h, m), m)

ServerTranscript(h) ==
    [hash |-> SuiteHash(h.suite),
     msgs |-> IF Len(h.wire) > 1 /\ h.wire[2] = "HelloRetryRequest"
              THEN <<"message_hash">> \o Tail(h.wire) ELSE h.wire]

\* FinishTranscript, for a secret, a signature or a Finished called what.
Digested(h, what) ==
    IF h.transcript = ServerTranscript(h) THEN h ELSE [h EXCEPT !.disagree = @ \cup {what}]

\* A verify_data, signature or certificate of the server holds if an honest server
\* made it and the client checks it against the same transcript.
Genuine(h, m) == m.good /\ h.transcript = ServerTranscript(h)

\* transcript_.Initialize with the hash of the suite, and what is fed to it again.
Rehash(h, msgs) == [h EXCEPT !.transcript = [hash |-> SuiteHash(h.suite), msgs |-> msgs]]

\* The next read: a message or a flight of records is counted from the start, and
\* its last record is the TlsHandshakeMaxRecords-th at most.
Await(h, pc) == [h EXCEPT !.pc = pc, !.records = 0, !.partial = FALSE]
Awaits(pcs) == hs.pc \in pcs /\ hs.records < HandshakeMaxRecords

-----------------------------------------------------------------------------
(***************************************************************************)
(* Sessions that may be resumed.                                           *)
(***************************************************************************)
IsOfferedAlpn(opt, a) == a \in opt.alpn

AlpnMatches(opt, s) == IF s.alpn = "" THEN opt.alpn = {} ELSE IsOfferedAlpn(opt, s.alpn)

\* Sessions without a lifetime do not expire (TLS 1.2).
Unexpired(s) == s.issued <= clock /\ clock < s.issued + s.life

Newest(cache, usable) == IF usable = {} THEN NoSession ELSE cache[Max(usable)]

Session12Usable(opt, s) ==
    /\ s.policy = opt.policy /\ TlsPolicyAllowsCipherSuite(opt.policy, s.suite)
    /\ s.name = opt.name /\ AlpnMatches(opt, s)
    /\ s.life # 0 => Unexpired(s)
    /\ s.id # 0 \/ s.ticket # 0

SelectTls12Session(opt) ==
    Newest(sessions, {i \in DOMAIN sessions : opt.resume /\ Session12Usable(opt, sessions[i])})

Ticket13Usable(opt, s) ==
    /\ s.policy = opt.policy /\ s.suite \in Suites13
    /\ s.name = opt.name /\ AlpnMatches(opt, s)
    /\ s.life # 0 /\ Unexpired(s)

SelectTls13Ticket(opt) ==
    Newest(tickets, {i \in DOMAIN tickets : opt.resume /\ Ticket13Usable(opt, tickets[i])})

\* StoreTls12SessionInCache: the oldest goes when the cache is full.
Stored(cache, s) == IF Len(cache) < MaxSessions THEN Append(cache, s) ELSE Append(Tail(cache), s)

\* StoreTls12SessionFromHandshake.  The session id is read through the view of the
\* ServerHello, whose bytes later records have replaced unless viewLive.
StoreTls12Session(h) ==
    LET id == IF h.sid = 0 \/ h.viewLive THEN h.sid ELSE -1
    IN IF ~h.opt.resume \/ (h.sid = 0 /\ h.pending.ticket = 0) THEN sessions
       ELSE Stored(sessions, [NoSession EXCEPT !.n = IF h.resumed THEN h.selected.n ELSE h.n,
                     !.id = id, !.ticket = h.pending.ticket, !.life = h.pending.life, !.issued = clock,
                     !.name = h.opt.name, !.alpn = h.negotiatedAlpn, !.suite = h.suite,
                     !.policy = h.opt.policy, !.forged = h.forged])

-----------------------------------------------------------------------------
(***************************************************************************)
(* ClientHello.                                                            *)
(***************************************************************************)
\* ConnectTls12 up to its first read; early data is refused.
StartTls12(h) ==
    LET session == SelectTls12Session(h.opt)
        hello == [h EXCEPT !.selected = session, !.hello = EncodeClientHello12(h.opt, session),
                           !.transcript.hash = "sha256"]
    IN IF h.opt.early # "no" THEN Fail([h EXCEPT !.fault = TRUE], "not_supported", "local")
       ELSE Await(Exchanged(hello, "ClientHello"), "serverHello12")

\* ComputePskBinderForClientHello: over its own digest with the hash of the ticket.
Bound(h) ==
    IF h.hello.identities = 0 \/ BinderTranscript("ClientHello", h.retry) = ServerTranscript(h).msgs THEN h
    ELSE [h EXCEPT !.disagree = @ \cup {"binder"}]

\* Early data behind the ClientHello, under a secret bound to it.
DeriveEarlySecrets(h) == IF h.hello.early THEN Digested(h, "early_traffic") ELSE h

\* ConnectTls13 up to its first read: an X25519 share, the ticket with its suite, and
\* early data if the ticket takes it.
StartTls13(h) ==
    LET ticket == SelectTls13Ticket(h.opt)
        early == h.opt.early = "safe" /\ ticket.early
        hello == [h EXCEPT !.selected = ticket, !.hello = EncodeClientHello13(h.opt, "x25519", ticket, early),
                           !.suite = IF ticket = NoSession THEN "aes128" ELSE ticket.suite,
                           !.transcript.hash = "sha256"]
    IN Await(DeriveEarlySecrets(Bound(Exchanged(hello, "ClientHello"))), "serverHello13")

\* Connect: parameters, then the one version to try.
Start(h) ==
    IF ~TlsValidatePolicy(h.opt.policy) \/ h.opt.min > h.opt.max
    THEN FailAs([h EXCEPT !.fault = TRUE], "LocalPolicy", "invalid_parameter", "local")
    ELSE IF h.opt.early = "unsafe"
    THEN FailAs([h EXCEPT !.fault = TRUE], "LocalPolicy", "not_supported", "local")
    ELSE IF ProtocolAllowed(h.opt, 13) THEN StartTls13(h) ELSE StartTls12(h)

Connect ==
    /\ hs.pc \in {"idle", "established", "failed"} /\ hs.n < Len(Options)
    /\ \E opt \in Options[hs.n + 1] :
          hs' = Start([NoConnection EXCEPT !.n = hs.n + 1, !.opt = opt])
    /\ UNCHANGED <<sessions, tickets, clock>>

\* Mutant: a timeout counts as well.
BadIsTls12ConfirmationCandidate(h) ==
    /\ ProtocolAllowed(h.opt, 12) /\ ProtocolAllowed(h.opt, 13)
    /\ h.failure.cat = "VersionNegotiation" \/ (h.failure.cat = "NetworkIo" /\ h.failure.before)

\* IsHttpTls12ConfirmationCandidate
IsTls12ConfirmationCandidate(h) ==
    /\ ProtocolAllowed(h.opt, 12) /\ ProtocolAllowed(h.opt, 13)
    /\ \/ h.failure.cat = "VersionNegotiation"
       \/ h.failure.cat = "NetworkIo" /\ h.failure.before /\ h.failure.status # "io_timeout"

\* The caller's second attempt, on a new transport and with TLS 1.2 as the maximum.
ConfirmTls12 ==
    /\ hs.pc = "failed" /\ IsTls12ConfirmationCandidate(hs)
    /\ hs' = Start([NoConnection EXCEPT !.n = hs.n, !.opt = [hs.opt EXCEPT !.max = 12],
                                        !.confirming = TRUE, !.cause = hs.cause])
    /\ UNCHANGED <<sessions, tickets, clock>>

Tick ==
    /\ hs.pc \in {"idle", "established", "failed"} /\ clock < MaxClock
    /\ clock' = clock + 1
    /\ UNCHANGED <<hs, sessions, tickets>>

-----------------------------------------------------------------------------
\* A handshake step h of the client on a message m, conforming or not.
Blamed(h, conforming) == [h EXCEPT !.fault = @ \/ ~conforming]
Accept(h, m) == IF m.good THEN h ELSE [h EXCEPT !.forged = @ \cup {m.type}]

-----------------------------------------------------------------------------
(***************************************************************************)
(* TLS 1.3.                                                                *)
(***************************************************************************)
\* ClassifyTls12ServerHelloFromTls13Attempt
Classify(opt, m) ==
    IF ~CanConfirmTls12(opt) \/ ParseServerHello12(m) # "success" THEN "NotTls12"
    ELSE IF HasDowngradeSentinel(m) THEN "RejectedDowngrade" ELSE "Tls12Selected"

ServerHelloRefused(h, m, status) ==
    LET selection == Classify(h.opt, m)
    IN CASE selection = "Tls12Selected" ->
              FailAs(h, "VersionNegotiation", status, "tls12_server_hello")
         [] selection = "RejectedDowngrade" ->
              FailAs(h, "DecodeError", "invalid_response", "downgrade")
         [] selection = "NotTls12" /\ status = "not_supported" ->
              FailAs(h, "VersionNegotiation", status, "unsupported")
         [] OTHER -> Fail(h, status, "server_hello")

\* TlsHandshake13::ValidateServerHelloOffer
ValidateServerHelloOffer13(h, m) ==
    /\ m.suite \in h.hello.suites /\ m.sid = h.hello.sid
    /\ IF m.retry THEN m.group \in h.hello.groups /\ m.group # h.hello.share ELSE m.group = h.hello.share

\* ValidateSelectedPskForConnection
ValidateSelectedPsk(h, m) ==
    m.psk # 0 => m.psk <= h.hello.identities /\ h.selected.suite = m.suite

\* The second ClientHello, with a share of the group asked for and a new binder.
HelloRetry(h, m) ==
    IF h.selected # NoSession /\ h.selected.suite # m.suite THEN Fail(h, "invalid_response", "retry")
    ELSE LET asked == Exchanged([h EXCEPT !.retry = TRUE, !.suite = m.suite,
                                          !.hello = EncodeClientHello13(h.opt, m.group, h.selected, h.hello.early)],
                                "HelloRetryRequest")
         IN Await(Bound(Exchanged(asked, "ClientHello2")), "serverHello13")

\* TlsContext::DeriveTls13HandshakeSecrets and DeriveTls13ApplicationSecrets
DeriveHandshakeSecrets(h) == Digested(h, "handshake_secrets")
DeriveApplicationSecrets(h) == Digested(h, "application_secrets")

\* Shared secret, the transcript again with the hash of the suite, handshake keys.
ServerHelloAccepted13(h, m) ==
    LET read == OnWire([h EXCEPT !.suite = m.suite, !.psk = m.psk, !.encrypted = TRUE], "ServerHello")
        first == IF h.retry THEN <<"message_hash", "HelloRetryRequest", "ClientHello2">> ELSE <<"ClientHello">>
        hashed == Rehash(read, Append(first, "ServerHello"))
    IN Await(DeriveHandshakeSecrets(hashed), "encryptedExtensions")

OnServerHello13(h, m) ==
    LET status == ParseServerHello13(m)
    IN IF status # "success" THEN ServerHelloRefused(h, m, status)
       ELSE IF ~ValidateServerHelloOffer13(h, m) \/ (m.retry /\ h.retry)
               \/ ~ValidateSelectedPsk(h, m) THEN Fail(h, "invalid_response", "server_hello")
       ELSE IF m.retry THEN HelloRetry(h, m) ELSE ServerHelloAccepted13(h, m)

\* A server of RFC 8446 that supports what is offered.
ServerHello13Conforms(h, m) ==
    /\ Parses(m, "ServerHello") /\ m.ver = 13 /\ m.suite \in Suites13 /\ m.sid = 0
    /\ IF m.retry THEN ~h.retry /\ m.psk = 0 /\ m.group \in NamedGroups \ {h.hello.share}
                       /\ (h.selected # NoSession => m.suite = h.selected.suite)
                  ELSE m.group = h.hello.share
    /\ h.retry => m.suite = h.suite
    /\ m.psk # 0 => m.psk = 1 /\ "psk" \in Resumptions /\ h.selected # NoSession /\ m.suite = h.selected.suite

ReadServerHello13 ==
    /\ Awaits({"serverHello13"})
    /\ \E m \in ServerHellos13 \cup ServerHellos12 \cup {Stray} :
          hs' = OnServerHello13(Blamed(hs, ServerHello13Conforms(hs, m)), m)
    /\ UNCHANGED <<sessions, tickets, clock>>

\* EncryptedExtensions
OnEncryptedExtensions(h, m) ==
    LET read == [Exchanged(h, m.type) EXCEPT !.negotiatedAlpn = m.alpn]
    IN IF ParseEncryptedExtensions(m) # "success" THEN Fail(h, "invalid_response", "extensions")
       ELSE IF m.alpn # "" /\ ~IsOfferedAlpn(h.opt, m.alpn)
            THEN FailAs(h, "AlpnMismatch", "not_supported", "alpn")
       ELSE IF h.psk # 0 /\ h.selected.alpn # m.alpn THEN Fail(h, "invalid_response", "alpn")
       ELSE IF m.early /\ (~h.hello.early \/ h.psk = 0) THEN Fail(h, "invalid_response", "extensions")
       ELSE Await([read EXCEPT !.earlyAccepted = m.early], "certificateOrRequest13")

ExtensionsConform(h, m) ==
    /\ Parses(m, "EncryptedExtensions")
    /\ m.alpn # "" => m.alpn \in h.opt.alpn
    /\ h.psk # 0 => m.alpn = h.selected.alpn
    /\ m.early => h.hello.early /\ h.psk # 0

ReadEncryptedExtensions ==
    /\ Awaits({"encryptedExtensions"})
    /\ \E m \in Extensions \cup {Stray} :
          hs' = OnEncryptedExtensions(Blamed(hs, ExtensionsConform(hs, m)), m)
    /\ UNCHANGED <<sessions, tickets, clock>>

\* CertificateRequest: the credential is used if a signature scheme fits both.
Requested(h, m) == [Exchanged(h, m.type) EXCEPT !.requested = TRUE, !.sendVerify = h.opt.cred /\ SchemeFitsCredential(m)]

OnCertificateRequest13(h, m) ==
    IF ParseCertificateRequest13(m) # "success" \/ m.context THEN Fail(h, "invalid_response", "request")
    ELSE Await(Requested(h, m), "certificate13")

\* ValidateTls13Certificate
OnCertificate13(h, m) ==
    IF ParseCertificate13(m) # "success" THEN Fail(h, "invalid_response", "certificate")
    ELSE IF (h.opt.verify /\ ~m.good) \/ ~m.usage THEN Fail(h, "trust_failure", "certificate")
    ELSE Await(Exchanged(Accept(h, m), m.type), "certificateVerify13")

Certificate13Conforms(h, m) ==
    /\ h.psk = 0
    /\ \/ Parses(m, "Certificate") /\ m.good /\ m.usage
       \/ Parses(m, "CertificateRequest") /\ ~m.context /\ ~h.requested

\* An honest server that resumes a session goes on with its Finished.
ReadCertificate13 ==
    /\ Awaits({"certificateOrRequest13", "certificate13"})
    /\ \E m \in Certificates \cup Requests \cup Plain("Finished") \cup {Stray} :
          LET h == Blamed(hs, Certificate13Conforms(hs, m) \/ (hs.psk # 0 /\ Parses(m, "Finished") /\ m.good))
          IN hs' = IF m.type = "CertificateRequest" /\ hs.pc = "certificateOrRequest13"
                   THEN OnCertificateRequest13(h, m) ELSE OnCertificate13(h, m)
    /\ UNCHANGED <<sessions, tickets, clock>>

\* VerifyTls13CertificateVerify, over the transcript up to the certificate
OnCertificateVerify13(h, m) ==
    IF ParseCertificateVerify13(m) # "success" THEN Fail(h, "invalid_response", "signature")
    ELSE IF ~m.scheme THEN Fail(h, "not_supported", "signature")
    ELSE IF ~Genuine(h, m) THEN Fail(h, "invalid_signature", "signature")
    ELSE Await(Exchanged(Accept(h, m), m.type), "finished13")

ReadCertificateVerify13 ==
    /\ Awaits({"certificateVerify13"})
    /\ \E m \in Signed("CertificateVerify") \cup {Stray} :
          hs' = OnCertificateVerify13(Blamed(hs, Parses(m, "CertificateVerify") /\ m.scheme /\ m.good), m)
    /\ UNCHANGED <<sessions, tickets, clock>>

\* EndOfEarlyData, the client's certificate and its signature, if any.
ClientAnswer13(h) ==
    LET ended == IF h.earlyAccepted THEN Exchanged(h, "EndOfEarlyData") ELSE h
        sent == IF h.requested THEN Exchanged(ended, "ClientCertificate") ELSE ended
    IN IF h.sendVerify THEN Exchanged(Digested(sent, "client_signature"), "ClientCertificateVerify") ELSE sent

\* The server's Finished (by its verify_data alone), the application secrets, and
\* the client's Finished.
OnFinished13(h, m) ==
    IF m.form # "ok" \/ ~Genuine(h, m) THEN Fail(h, "invalid_response", "finished")
    ELSE LET secrets == DeriveApplicationSecrets(Exchanged(Accept(h, m), m.type))
             answered == Digested(ClientAnswer13(secrets), "client_finished")
         IN Await(Exchanged(answered, "ClientFinished"), "established")

ReadFinished13 ==
    /\ Awaits({"finished13"})
    /\ \E m \in Plain("Finished") \cup {Stray} :
          hs' = OnFinished13(Blamed(hs, Parses(m, "Finished") /\ m.good), m)
    /\ UNCHANGED <<sessions, tickets, clock>>

-----------------------------------------------------------------------------
(***************************************************************************)
(* TLS 1.2.                                                                *)
(***************************************************************************)
\* The id of the ServerHello: none, one of the server's own, or the one offered.
SessionIdOf(h, m) ==
    CASE m.echo = "none" -> 0 [] m.echo = "own" -> 100 + h.n [] OTHER -> h.selected.id

\* Tls12ServerHelloEchoedSessionId
Echoed(h, sid) == h.selected # NoSession /\ h.selected.id # 0 /\ sid = h.selected.id

\* The ServerHello: what it must confirm, then resumption or a full handshake.
ServerHelloAccepted12(h, m) ==
    LET sid == SessionIdOf(h, m)
        resumed == Echoed(h, sid)
        read == OnWire([h EXCEPT !.suite = m.suite, !.sid = sid, !.mayTicket = HasSessionTicket(m),
                                 !.negotiatedAlpn = m.alpn, !.resumed = resumed,
                                 !.forged = IF resumed THEN h.selected.forged ELSE {},
                                 !.viewLive = m.coalesced \/ resumed], "ServerHello")
        hashed == Rehash(read, <<"ClientHello", "ServerHello">>)
    IN IF ~resumed THEN Await(hashed, "certificate12")
       ELSE IF h.selected.suite # m.suite \/ h.selected.alpn # m.alpn
            THEN Fail(h, "invalid_response", "resumption")
       ELSE Await(hashed, "ccs12")

OnServerHello12(h, m) ==
    LET status == ParseServerHello12(m)
        refused == FailAs(h, "LocalPolicy", "not_supported", "server_hello")
    IN IF status # "success" THEN Fail(h, status, "server_hello")
       ELSE IF m.suite \notin h.hello.suites THEN Fail(h, "invalid_response", "server_hello")
       ELSE IF ~HasExtendedMasterSecret(m) \/ ~HasSecureRenegotiation(m) \/ ~TlsPolicyAllowsCipherSuite(h.opt.policy, m.suite)
               \/ (m.suite = "cbc" /\ ~m.etm) THEN refused
       ELSE IF ParseServerHelloAlpn(m) # "success" THEN Fail(h, "invalid_response", "alpn")
       ELSE IF m.alpn # "" /\ ~IsOfferedAlpn(h.opt, m.alpn)
            THEN FailAs(h, "AlpnMismatch", "not_supported", "alpn")
       ELSE ServerHelloAccepted12(h, m)

\* A server of RFC 5246 with the extensions the client insists on.  It resumes a
\* session with the suite and the protocol the session was made with.
ServerHello12Conforms(h, m) ==
    /\ Parses(m, "ServerHello") /\ m.ver = 12 /\ m.suite \in h.hello.suites
    /\ m.flaw = "none" /\ (m.suite = "cbc" => m.etm)
    /\ m.alpn # "" => m.alpn \in h.opt.alpn
    /\ Echoed(h, SessionIdOf(h, m)) =>
          "id" \in Resumptions /\ m.suite = h.selected.suite /\ m.alpn = h.selected.alpn

ReadServerHello12 ==
    /\ Awaits({"serverHello12"})
    /\ \E m \in ServerHellos12 \cup {Stray} :
          /\ m \in ServerHellos12 => (m.echo = "echo" => hs.selected.id > 0 /\ "id" \in Resumptions)
          /\ hs' = OnServerHello12(Blamed(hs, ServerHello12Conforms(hs, m)), m)
    /\ UNCHANGED <<sessions, tickets, clock>>

\* Certificate: the chain, then its key against the suite.
\* Mutant: the chain is not validated.
BadOnCertificate12(h, m) ==
    IF ParseCertificateList12(m) # "success" THEN Fail(h, "invalid_response", "certificate")
    ELSE Await(Exchanged(Accept(h, m), m.type), "status12")

OnCertificate12(h, m) ==
    IF ParseCertificateList12(m) # "success" THEN Fail(h, "invalid_response", "certificate")
    ELSE IF h.opt.verify /\ ~m.good THEN Fail(h, "trust_failure", "certificate")
    ELSE IF m.key # Authentication(h.suite) THEN Fail(h, "invalid_response", "certificate")
    ELSE IF ~m.usage THEN Fail(h, "trust_failure", "certificate")
    ELSE Await(Exchanged(Accept(h, m), m.type), "status12")

ReadCertificate12 ==
    /\ Awaits({"certificate12"})
    /\ \E m \in Certificates \cup {Stray} :
          hs' = OnCertificate12(Blamed(hs, Parses(m, "Certificate") /\ m.good /\ m.usage
                                           /\ m.key = Authentication(hs.suite)), m)
    /\ UNCHANGED <<sessions, tickets, clock>>

\* CertificateStatus, at most one, in front of what follows.
ReadCertificateStatus ==
    /\ Awaits({"status12"})
    /\ \E m \in Plain("CertificateStatus") :
          LET h == Blamed(hs, m.form = "ok")
          IN hs' = IF ParseCertificateStatus(m) = "success" THEN Await(Exchanged(h, m.type), "keyExchange12")
                   ELSE Fail(h, "invalid_response", "status")
    /\ UNCHANGED <<sessions, tickets, clock>>

\* ParseServerKeyExchange, ValidateServerKeyExchangeOffer, VerifyServerKeyExchange.
\* The signature covers the randoms and the parameters.
OnServerKeyExchange(h, m) ==
    IF ParseServerKeyExchange(m) # "success" \/ ~ValidateServerKeyExchangeOffer(m) THEN Fail(h, "invalid_response", "signature")
    ELSE IF ~m.good THEN Fail(h, "invalid_signature", "signature")
    ELSE Await(Exchanged(Accept(h, m), m.type), "requestOrDone12")

ReadServerKeyExchange ==
    /\ Awaits({"status12", "keyExchange12"}) /\ Tls12KeyExchange(hs.suite) # "rsa"
    /\ \E m \in Signed("ServerKeyExchange") \cup {Stray} :
          hs' = OnServerKeyExchange(Blamed(hs, Parses(m, "ServerKeyExchange") /\ m.scheme /\ m.good), m)
    /\ UNCHANGED <<sessions, tickets, clock>>

\* CertificateRequest: the client's Certificate goes out at once, in front of the
\* ServerHelloDone, which the server has sent with its request.
OnCertificateRequest12(h, m) ==
    IF ParseCertificateRequest12(m) # "success" THEN Fail(h, "invalid_response", "request")
    ELSE LET asked == OnWire(Requested(h, m), "ServerHelloDone")
         IN Await(Exchanged(asked, "ClientCertificate"), "done12")

\* TlsContext::DeriveExtendedMasterSecret
DeriveExtendedMasterSecret(h) == Digested(h, "master_secret")

\* ClientKeyExchange, the signature over what was sent, keys, ChangeCipherSpec and
\* Finished; the master secret is bound to the digest before the signature.
ClientFlight12(h) ==
    LET keyed == DeriveExtendedMasterSecret(Exchanged(h, "ClientKeyExchange"))
        signed == IF h.sendVerify
                  THEN Exchanged(Digested(keyed, "client_signature"), "ClientCertificateVerify") ELSE keyed
    IN Exchanged(Digested(signed, "client_finished"), "ClientFinished")

\* MarkServerHelloDone
OnServerHelloDone(h, m) ==
    IF MarkServerHelloDone(m) # "success" THEN Fail(h, "invalid_response", "done")
    ELSE Await(ClientFlight12(IF h.requested THEN AppendTranscript(h, m.type) ELSE Exchanged(h, m.type)),
               "ccs12")

MayFollow12 ==
    \/ Awaits({"requestOrDone12", "done12"})
    \/ Awaits({"status12", "keyExchange12"}) /\ Tls12KeyExchange(hs.suite) = "rsa"

ReadRequestOrDone12 ==
    /\ MayFollow12
    /\ \E m \in Requests \cup Plain("ServerHelloDone") \cup {Stray} :
          LET h == Blamed(hs, \/ Parses(m, "ServerHelloDone")
                              \/ Parses(m, "CertificateRequest") /\ ~m.context /\ hs.pc # "done12")
          IN hs' = IF m.type = "CertificateRequest" /\ hs.pc # "done12"
                   THEN OnCertificateRequest12(h, m) ELSE OnServerHelloDone(h, m)
    /\ UNCHANGED <<sessions, tickets, clock>>

\* ReadServerChangeCipherSpec: tickets if the ServerHello announced one, then the
\* ChangeCipherSpec on a message boundary.  The ticket is copied over the ServerHello.
\* Mutant: the ticket is left out of the transcript.
BadOnNewSessionTicket(h, life) ==
    IF ~h.mayTicket THEN Fail(h, "invalid_response", "ticket")
    ELSE [OnWire(h, "NewSessionTicket") EXCEPT !.pending.ticket = h.n, !.pending.life = life,
              !.viewLive = FALSE, !.partial = FALSE, !.records = @ + 1]

OnNewSessionTicket(h, life) ==
    IF ~h.mayTicket THEN Fail(h, "invalid_response", "ticket")
    ELSE [Exchanged(h, "NewSessionTicket") EXCEPT !.pending.ticket = h.n, !.pending.life = life,
              !.viewLive = FALSE, !.partial = FALSE, !.records = @ + 1]

ReadNewSessionTicket ==
    /\ Awaits({"ccs12"})
    /\ \E life \in Lifetimes :
          hs' = OnNewSessionTicket(Blamed(hs, hs.mayTicket /\ hs.pending.ticket = 0), life)
    /\ UNCHANGED <<sessions, tickets, clock>>

ReadChangeCipherSpec ==
    /\ Awaits({"ccs12"})
    /\ LET h == Blamed(hs, ~hs.partial)
       IN hs' = IF hs.partial THEN Fail(h, "invalid_response", "ccs")
                ELSE Await([h EXCEPT !.encrypted = TRUE], "finished12")
    /\ UNCHANGED <<sessions, tickets, clock>>

\* The server's Finished; a resuming client answers it, and the session is stored.
OnFinished12(h, m) ==
    IF ~Parses(m, "Finished") \/ ~Genuine(h, m) THEN Fail(h, "invalid_response", "finished")
    ELSE LET verified == Exchanged(Accept(h, m), m.type)
         IN Await(IF h.resumed THEN Exchanged(Digested(verified, "client_finished"), "ClientFinished")
                  ELSE verified, "established")

ReadFinished12 ==
    /\ Awaits({"finished12"})
    /\ \E m \in Plain("Finished") \cup {Stray} :
          hs' = OnFinished12(Blamed(hs, Parses(m, "Finished") /\ m.good), m)
    /\ sessions' = IF hs'.pc = "established" THEN StoreTls12Session(hs) ELSE sessions
    /\ UNCHANGED <<tickets, clock>>

-----------------------------------------------------------------------------
(***************************************************************************)
(* Records that bring no message.                                          *)
(***************************************************************************)
Reading(h) == h.pc \notin {"idle", "established", "failed"}
FirstServerHello(h) == h.pc = "serverHello13" /\ ~h.retry

\* A read that fails; before the first ServerHello of TLS 1.3 that is noted.
ReadFails(h, status, cause) ==
    Fail(IF FirstServerHello(h) THEN RecordFirstServerHelloFailure(h, status) ELSE h, status, cause)

\* RecordPeerAlertFailure
Alerts == {"protocol_version", "bad_certificate", "handshake_failure", "close_notify", "decrypt_error", "malformed"}
RecordPeerAlertFailure(h, alert) ==
    IF alert = "malformed" THEN RecordHandshakeFailure(h, "DecodeError", "invalid_response")
    ELSE [h EXCEPT !.failure.cat = CategoryForPeerAlert(alert), !.failure.status = "invalid_response",
                   !.failure.alert = alert]

\* A conforming server alerts where what the client sent does not fit.
ReadAlert ==
    /\ Reading(hs)
    /\ \E alert \in Alerts :
          hs' = ReadFails(RecordPeerAlertFailure(Blamed(hs, alert = "decrypt_error" /\ hs.disagree # {}), alert),
                          "invalid_response", alert)
    /\ UNCHANGED <<sessions, tickets, clock>>

\* The transport, the record layer or another content type ends the read.
ReadError ==
    /\ Reading(hs)
    /\ \E status \in {"disconnected", "io_timeout", "invalid_response"}
                     \cup (IF hs.encrypted THEN {"invalid_signature"} ELSE {}) :
          hs' = ReadFails([hs EXCEPT !.fault = TRUE], status, status)
    /\ UNCHANGED <<sessions, tickets, clock>>

\* A record with a part of a message, up to TlsHandshakeMaxRecords of them.
ReadFragment ==
    /\ Reading(hs)
    /\ hs' = IF hs.records < HandshakeMaxRecords /\ (hs.pc = "ccs12" => hs.mayTicket)
             THEN [hs EXCEPT !.records = @ + 1, !.partial = TRUE]
             ELSE ReadFails([hs EXCEPT !.fault = TRUE], "invalid_response", "records")
    /\ UNCHANGED <<sessions, tickets, clock>>

\* An allocation or a primitive fails between two reads.
LocalFailure ==
    /\ Reading(hs)
    /\ hs' = Fail([hs EXCEPT !.fault = TRUE], "resources", "local")
    /\ UNCHANGED <<sessions, tickets, clock>>

HsStep ==
    \/ ReadServerHello13 \/ ReadEncryptedExtensions \/ ReadCertificate13
    \/ ReadCertificateVerify13 \/ ReadFinished13
    \/ ReadServerHello12 \/ ReadCertificate12 \/ ReadCertificateStatus \/ ReadServerKeyExchange
    \/ ReadRequestOrDone12 \/ ReadNewSessionTicket \/ ReadChangeCipherSpec \/ ReadFinished12
    \/ ReadAlert \/ ReadError \/ ReadFragment \/ LocalFailure

HsNext == Connect \/ ConfirmTls12 \/ Tick \/ HsStep

-----------------------------------------------------------------------------
(***************************************************************************)
(* Properties.                                                             *)
(***************************************************************************)
\* The messages of a handshake without the optional ones.
Optional == {"CertificateStatus", "CertificateRequest", "ClientCertificate", "ClientCertificateVerify",
             "EndOfEarlyData", "NewSessionTicket", "HelloRetryRequest", "ClientHello2"}
Spine(h) == SelectSeq(h.wire, LAMBDA m : m \notin Optional)

LegalSpine(h) ==
    IF h.suite \in Suites13
    THEN <<"ClientHello", "ServerHello", "EncryptedExtensions", "Certificate", "CertificateVerify",
           "Finished", "ClientFinished">>
    ELSE IF h.resumed THEN <<"ClientHello", "ServerHello", "Finished", "ClientFinished">>
    ELSE <<"ClientHello", "ServerHello", "Certificate">>
         \o (IF Tls12KeyExchange(h.suite) = "rsa" THEN <<>> ELSE <<"ServerKeyExchange">>)
         \o <<"ServerHelloDone", "ClientKeyExchange", "ClientFinished", "Finished">>

\* A resumed session is one of the same server, policy, protocol and suite that has
\* not expired.
ResumptionIsBound(h, s) ==
    /\ s.name = h.opt.name /\ s.policy = h.opt.policy /\ s.suite = h.suite /\ s.alpn = h.negotiatedAlpn
    /\ s.life # 0 => Unexpired(s)

\* Every secret, signature and Finished of the client covers the messages the server
\* has hashed, through HelloRetryRequest, early data, resumption, tickets and the
\* change of hash with the suite.  There are two exceptions: a certificate request of
\* TLS 1.2 (ClientCertificatesWork), and early data with a ticket of a SHA-384 suite,
\* whose secret is bound to a SHA-256 digest.
TranscriptsAgree ==
    \/ hs.disagree = {} \/ hs.pc = "failed"
    \/ hs.requested /\ hs.suite \in Suites12
    \/ hs.disagree = {"early_traffic"} /\ SuiteHash(hs.selected.suite) = "sha384"

\* Connect reports success only after a whole handshake of its version in which the
\* server proved the possession of a verified certificate's key (or of the secret of
\* a session made so), with a suite and a protocol that were offered, and the two
\* sides have hashed the same messages wherever one of them relies on it.
EstablishedIsAuthenticated ==
    /\ TranscriptsAgree
    /\ hs.pc = "established" =>
        /\ Spine(hs) = LegalSpine(hs)
        /\ hs.forged \subseteq (IF hs.opt.verify THEN {} ELSE {"Certificate"})
        /\ hs.disagree \subseteq {"early_traffic"}
        /\ hs.suite \in Tls12Offers(hs.opt.policy) \/ (hs.suite \in Suites13 /\ hs.opt.max = 13)
        /\ hs.negotiatedAlpn # "" => hs.negotiatedAlpn \in hs.opt.alpn
        /\ hs.resumed => ResumptionIsBound(hs, hs.selected)

\* A handshake with a server that keeps to the protocol and offers what the client
\* insists on does not fail.  The exceptions are those of TranscriptsAgree and the
\* resumption of TLS 1.3, after which the code still wants a Certificate.
ConformingServerAccepted ==
    hs.pc = "failed" /\ ~hs.fault =>
        \/ hs.psk # 0 \/ (hs.requested /\ hs.suite \in Suites12)
        \/ hs.disagree = {"early_traffic"}

\* A server that asks a TLS 1.2 client for a certificate, and conforms, gets on.
ClientCertificatesWork == ~(hs.pc = "failed" /\ ~hs.fault /\ hs.requested)

\* The second attempt at TLS 1.2 is made on evidence of a server without TLS 1.3: its
\* ServerHello, a version alert, or the end of the connection in answer to the first
\* ClientHello; not after a timeout, nor when the certificate, the protocol or a
\* signature was wrong, nor when the server signalled a downgrade.
FallbackOnlyOnEvidence ==
    hs.confirming =>
        \/ hs.cause[1] \in {"tls12_server_hello", "unsupported", "protocol_version"}
        \/ hs.cause[2] = 1 /\ hs.cause[1] \in {"handshake_failure", "close_notify", "disconnected"}
        \/ hs.pc = "failed"
====
