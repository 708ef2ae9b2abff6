----------------------------- MODULE TlsMessages -----------------------------
(***************************************************************************)
(* The handshake messages of TLS 1.2 and 1.3 (tls/TlsHandshake12.cpp,      *)
(* tls/TlsHandshake13.cpp), the suites (tls/TlsCapabilities.cpp) and the   *)
(* policy (tls/TlsPolicy.cpp): what a message of the client offers, what a *)
(* message of the server may say, and the status its parser returns.       *)
(*                                                                         *)
(* A message is a record of what the handshake decides by.  form: the      *)
(* bytes parse ("ok"), they do not ("malformed"), or they say what the     *)
(* client cannot do ("unsupported").  good: an honest server made it.      *)
(***************************************************************************)
EXTENDS Integers, Sequences, FiniteSets

Protocols == {12, 13}

\* TlsCapabilities: what a suite stands for.
Suites12 == {"ecdhe256", "ecdhe384", "rsakx", "cbc"}
Suites13 == {"aes128", "aes256"}
SuiteHash(s) == IF s \in {"ecdhe384", "aes256"} THEN "sha384" ELSE "sha256"
Tls12KeyExchange(s) == IF s = "rsakx" THEN "rsa" ELSE "ecdhe"
Authentication(s) == IF s = "ecdhe384" THEN "ecdsa" ELSE "rsa"
NamedGroups == {"x25519", "secp256r1"}

\* "modern" is ModernDefault, "compat" CompatibilityExplicit with RSA key exchange
\* and CBC enabled, "broken" a ModernDefault with such a switch set.
TlsValidatePolicy(policy) == policy # "broken"
TlsPolicyAllowsCipherSuite(policy, s) ==
    s \in {"ecdhe256", "ecdhe384"} \/ (s \in {"rsakx", "cbc"} /\ policy = "compat")

-----------------------------------------------------------------------------
(***************************************************************************)
(* ClientHello.                                                            *)
(***************************************************************************)
\* BuildTls12PolicyOffers
Tls12Offers(policy) == {s \in Suites12 : TlsPolicyAllowsCipherSuite(policy, s)}

\* The extensions: encrypt-then-MAC with CBC, the ticket of a session, ALPN.
Extensions12(opt, session) ==
    [alpn |-> opt.alpn, etm |-> opt.policy = "compat", ticket |-> session.ticket]

EncodeClientHello12(opt, session) ==
    [suites |-> Tls12Offers(opt.policy), groups |-> NamedGroups, share |-> "", sid |-> session.id,
     identities |-> 0, early |-> FALSE, ext |-> Extensions12(opt, session)]

\* The extensions of TLS 1.3 besides those of the key exchange.
Extensions13(opt) == [alpn |-> opt.alpn, etm |-> FALSE, ticket |-> 0]

\* BuildPreSharedKeyExtension: at most one identity.
PreSharedKeys(ticket) == IF ticket.ticket = 0 THEN 0 ELSE 1

\* One key share; the session id is empty.
EncodeClientHello13(opt, share, ticket, early) ==
    [suites |-> Suites13, groups |-> NamedGroups, share |-> share, sid |-> 0,
     identities |-> PreSharedKeys(ticket), early |-> early, ext |-> Extensions13(opt)]

\* FindPskBinderTranscriptLength: a binder covers the ClientHello up to the binders,
\* behind what was exchanged before it.
BinderTranscript(first, retried) ==
    IF retried THEN <<"message_hash", "HelloRetryRequest", "ClientHello2">> ELSE <<first>>

-----------------------------------------------------------------------------
(***************************************************************************)
(* What the server may send.                                               *)
(***************************************************************************)
Stray == [type |-> "Other", form |-> "ok", good |-> FALSE]
Forms == {"ok", "malformed"}

\* HelloRetryRequest is a ServerHello with a certain random.
ServerHellos13 ==
    [type : {"ServerHello"}, ver : {13}, form : {"ok"}, retry : BOOLEAN, suite : Suites13 \cup {"ccm8"},
     group : NamedGroups \cup {"other"}, psk : 0 .. 2, sid : {0, 99}]
    \cup [type : {"ServerHello"}, ver : {13}, form : {"malformed", "unsupported"}, retry : {FALSE},
          suite : {"aes128"}, group : {"x25519"}, psk : {0}, sid : {0}]

ServerHellos12 ==
    [type : {"ServerHello"}, ver : {12}, form : {"ok"}, flaw : {"none"}, suite : Suites12,
     etm : BOOLEAN, ticket : BOOLEAN, alpn : {"", "h2", "spdy"}, echo : {"none", "own", "echo"},
     coalesced : BOOLEAN]
    \cup [type : {"ServerHello"}, ver : {12}, form : {"ok", "malformed", "unsupported"},
          flaw : {"none", "ems", "reneg", "sentinel", "alpn"}, suite : {"ecdhe256"}, etm : {TRUE},
          ticket : {FALSE}, alpn : {""}, echo : {"none"}, coalesced : {TRUE}]

Certificates ==
    [type : {"Certificate"}, form : Forms, good : BOOLEAN, key : {"rsa", "ecdsa"}, usage : BOOLEAN]
Requests == [type : {"CertificateRequest"}, form : Forms, good : {TRUE}, context : BOOLEAN, scheme : BOOLEAN]
Signed(type) == [type : {type}, form : Forms, good : BOOLEAN, scheme : BOOLEAN]
Plain(type) == [type : {type}, form : Forms, good : BOOLEAN]
Extensions ==
    [type : {"EncryptedExtensions"}, form : Forms, good : {TRUE}, alpn : {"", "h2", "spdy"}, early : BOOLEAN]

-----------------------------------------------------------------------------
(***************************************************************************)
(* Parsers.                                                                *)
(***************************************************************************)
\* ValidateHandshakeType, then the lengths of the body.
Parses(m, type) == m.type = type /\ m.form = "ok"
StatusOf(m, type) == IF Parses(m, type) THEN "success" ELSE "invalid_response"

\* The version decides before the extensions are read.
ParseServerHello13(m) ==
    IF m.type # "ServerHello" \/ (m.form = "malformed" /\ m.ver = 13) THEN "invalid_response"
    ELSE IF m.ver = 12 \/ m.form = "unsupported" THEN "not_supported"
    ELSE "success"

ParseServerHello12(m) ==
    IF m.type # "ServerHello" \/ m.form = "malformed" THEN "invalid_response"
    ELSE IF m.ver # 12 \/ m.form = "unsupported" THEN "not_supported"
    ELSE "success"

\* ParseServerHelloExtensions and ServerHelloHasEmptyExtension
HasExtendedMasterSecret(m) == m.flaw # "ems"
HasSecureRenegotiation(m) == m.flaw # "reneg"
HasSessionTicket(m) == m.ticket
\* ParseServerHelloAlpn: one protocol, and no byte after it.
ParseServerHelloAlpn(m) == IF m.flaw = "alpn" THEN "invalid_response" ELSE "success"
\* HasTls13DowngradeSentinel
HasDowngradeSentinel(m) == m.flaw = "sentinel"

\* ParseEncryptedExtensions, with ValidateNoDuplicateExtensions and ParseAlpnExtension.
ParseEncryptedExtensions(m) == StatusOf(m, "EncryptedExtensions")
ParseCertificateRequest13(m) == StatusOf(m, "CertificateRequest")
\* FindTls13CertificateRequestSignatureAlgorithms and SelectClientCredentialSignatureScheme
SchemeFitsCredential(m) == m.scheme
\* ParseCertificate, and ConvertTls13CertificateListToLegacy for the chain.
ParseCertificate13(m) == StatusOf(m, "Certificate")
ParseCertificateVerify13(m) == StatusOf(m, "CertificateVerify")
ParseCertificateList12(m) == StatusOf(m, "Certificate")
ParseCertificateStatus(m) == StatusOf(m, "CertificateStatus")
ParseServerKeyExchange(m) == StatusOf(m, "ServerKeyExchange")
\* ValidateServerKeyExchangeOffer: the group and the scheme were offered.
ValidateServerKeyExchangeOffer(m) == m.scheme
ParseCertificateRequest12(m) == StatusOf(m, "CertificateRequest")
MarkServerHelloDone(m) == StatusOf(m, "ServerHelloDone")
====
