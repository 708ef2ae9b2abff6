--------------------------- MODULE CertificateChain --------------------------
(***************************************************************************)
(* How the certificates of a server are judged: ValidateChain of           *)
(* tls/CertificateValidator.cpp, and the CertificateStore it asks.         *)
(*                                                                         *)
(* chain is the sequence of certificates as the server sent them, each the *)
(* tree of CertificateDer.  A signature is modelled by the key that made   *)
(* it, a hash of a key by the key.  The options are a record: HostName,    *)
(* EnableIdna, VerifyCertificate, RequireServerAuthEku, RevocationMode,    *)
(* RequireRevocationCheck, Now (the clock) and Store, a record of the four *)
(* lists of CertificateStoreOptions.                                       *)
(***************************************************************************)
EXTENDS CertificateDer

CONSTANTS
    MaxChainLength,      \* CertificateMaxChainLength
    NormalizedCapacity,  \* CertificateMaxNormalizedDnsNameLength + 1
    MaxStoreEntries      \* CertificateMaxTrustAnchors, ...AuthorityBundles, ...RevocationEntries

TrustFailure == "trust failure"

-----------------------------------------------------------------------------
\* CertificateStore::Initialize takes these lists; AnyName is an anchor's empty SubjectName.
AnyName == {}
ValidStore(store) ==
    /\ Len(store.TrustAnchors) <= MaxStoreEntries /\ Len(store.AuthorityBundles) <= MaxStoreEntries
    /\ Len(store.RevocationEntries) <= MaxStoreEntries
    /\ \A i \in 1 .. Len(store.TrustAnchors) : store.TrustAnchors[i].MatchSubjectPublicKey
    /\ \A i \in 1 .. Len(store.AuthorityBundles) : store.AuthorityBundles[i] # <<>>
    /\ \A i \in 1 .. Len(store.Pins) : store.Pins[i].HostName # <<>>
    /\ \A i \in 1 .. Len(store.RevocationEntries) :
        LET entry == store.RevocationEntries[i] IN
        /\ entry.SerialNumber # <<>> /\ entry.Source \in {"Ocsp", "Crl"}
        /\ entry.NextUpdate = NoTime \/ entry.ThisUpdate = NoTime \/ ~Earlier(entry.NextUpdate, entry.ThisUpdate)

IsTrustedAnchor(store, subject, spki) ==
    \E i \in 1 .. Len(store.TrustAnchors) :
        LET anchor == store.TrustAnchors[i] IN
        /\ anchor.SubjectName = AnyName \/ anchor.SubjectName = {subject}
        /\ anchor.MatchSubjectPublicKey => anchor.SubjectPublicKey = spki

MatchesPin(store, host, spki) ==
    LET pins == SelectSeq(store.Pins, LAMBDA pin : EqualsIgnoreCase(pin.HostName, host))
    IN pins = <<>> \/ \E i \in 1 .. Len(pins) : pins[i].SubjectPublicKey = spki

\* FindRevocationEntry: the first entry, or none.
FindRevocationEntry(store, c, source) ==
    LET found == SelectSeq(store.RevocationEntries,
                           LAMBDA e : e.Source = source /\ e.IssuerName = c.Issuer /\ e.SerialNumber = c.SerialNumber)
    IN IF found = <<>> THEN {} ELSE {found[1]}

-----------------------------------------------------------------------------
\* Signatures.
ToSignatureAlgorithm(algorithm) ==
    CASE algorithm \in {"RsaPkcs1Sha256", "RsaPkcs1Sha384"} -> "Rsa"
      [] algorithm \in {"EcdsaSha256", "EcdsaSha384"} -> "Ecdsa"
      [] algorithm \in {"Ed25519", "Ed448"} -> algorithm
      [] OTHER -> "Unknown"

\* ImportSubjectPublicKey knows RSA and the curves of ECDSA.
ImportSubjectPublicKey(c) ==
    CASE c.PublicKeyAlgorithm = "Rsa" -> "Rsa"
      [] c.PublicKeyAlgorithm \in {"EcdsaP256", "EcdsaP384", "EcdsaP521"} -> "Ecdsa"
      [] OTHER -> "not supported"

\* HashForSignature knows the algorithms with a hash.
HashForSignature(algorithm) ==
    IF algorithm \in {"RsaPkcs1Sha256", "RsaPkcs1Sha384", "EcdsaSha256", "EcdsaSha384"}
    THEN "success" ELSE "not supported"

MadeBy(c, issuer) == c.Signature = issuer.PublicKey

VerifyCertificateSignature(c, issuer) ==
    IF c.SignatureAlgorithm \in {"Ed25519", "Ed448"}
    THEN IF issuer.PublicKeyAlgorithm = c.SignatureAlgorithm /\ MadeBy(c, issuer)
         THEN "success" ELSE "invalid signature"
    ELSE IF ImportSubjectPublicKey(issuer) = "not supported" \/ HashForSignature(c.SignatureAlgorithm) # "success"
    THEN "not supported"
    ELSE IF ImportSubjectPublicKey(issuer) = ToSignatureAlgorithm(c.SignatureAlgorithm) /\ MadeBy(c, issuer)
    THEN "success" ELSE "invalid signature"

HashSubjectPublicKey(c) == c.SubjectPublicKeyInfo

-----------------------------------------------------------------------------
\* The path.
DistinguishedNameEquals(a, b) == a = b
IsExactAnchorMatch(c, anchor) ==
    DistinguishedNameEquals(c.Subject, anchor.Subject) /\ c.SubjectPublicKeyInfo = anchor.SubjectPublicKeyInfo
IsSelfIssued(c) == DistinguishedNameEquals(c.Subject, c.Issuer)
CertificateIssuerMatches(child, issuer) == DistinguishedNameEquals(child.Issuer, issuer.Subject)

\* Mutant: the certificate below the issuer is not counted.
BadCountSubordinateCaCertificates(path, issuer) ==
    Cardinality({i \in 2 .. Min({issuer - 1, Len(path)}) : path[i].IsCa /\ ~IsSelfIssued(path[i])})

\* The certificates of authorities after the leaf and before position issuer (counted from 0).
CountSubordinateCaCertificates(path, issuer) ==
    Cardinality({i \in 2 .. Min({issuer, Len(path)}) : path[i].IsCa /\ ~IsSelfIssued(path[i])})

CertificateIssuesAny(certificates, i) ==
    \E j \in 1 .. Len(certificates) : j # i /\ CertificateIssuerMatches(certificates[j], certificates[i])

\* From the last certificate of the path to the first unused one with the issuer's name.
RECURSIVE PathFrom(_, _, _)
PathFrom(certificates, path, used) ==
    LET Extended(issuer) == PathFrom(certificates, Append(path, issuer), used \cup {issuer})
        Above(current, issuers) == IF IsSelfIssued(current) \/ issuers = {} THEN path ELSE Extended(Min(issuers))
        Of(current) ==
            Above(current, {i \in 1 .. Len(certificates) \ used : CertificateIssuerMatches(current, certificates[i])})
    IN Of(certificates[Last(path)])

ReorderCertificatePath(certificates, host) ==
    LET Path(path) == [i \in 1 .. Len(path) |-> certificates[path[i]]]
        FromLeaf(leaf) == Path(PathFrom(certificates, <<leaf>>, {leaf}))
        Choice(ends, named) == IF ends = {} THEN <<>> ELSE FromLeaf(Min(IF named # {} THEN named ELSE ends))
        Ends(ends) == Choice(ends, {i \in ends : ValidateHostName(certificates[i], host)})
    IN Ends({i \in 1 .. Len(certificates) : ~CertificateIssuesAny(certificates, i)})

-----------------------------------------------------------------------------
\* Name constraints.
AgainstConstraints(matches, excluded, permitted) ==
    /\ \A i \in 1 .. Len(excluded) : ~matches[excluded[i]]
    /\ permitted # <<>> => \E i \in 1 .. Len(permitted) : matches[permitted[i]]

ValidateDnsNameAgainstConstraints(name, issuer) ==
    LET subtrees == Range(issuer.Excluded.dns) \cup Range(issuer.Permitted.dns)
    IN AgainstConstraints([s \in subtrees |-> DnsNameMatchesSubtree(name, s)], issuer.Excluded.dns, issuer.Permitted.dns)

Bit(octet, k) == (octet \div 2 ^ k) % 2
IpAddressMatchesSubtree(address, subtree) ==
    LET n == Len(address) IN
    /\ n \in {4, 16} /\ Len(subtree) = 2 * n
    /\ \A i \in 1 .. n : \A k \in 0 .. 7 : Bit(subtree[n + i], k) = 1 => Bit(address[i], k) = Bit(subtree[i], k)

ValidateIpAddressAgainstConstraints(address, issuer) ==
    LET subtrees == Range(issuer.Excluded.ip) \cup Range(issuer.Permitted.ip)
    IN AgainstConstraints([s \in subtrees |-> IpAddressMatchesSubtree(address, s)], issuer.Excluded.ip, issuer.Permitted.ip)

ValidateDirectoryNameAgainstConstraints(subject, issuer) ==
    LET names == Range(issuer.Excluded.directory) \cup Range(issuer.Permitted.directory)
    IN AgainstConstraints([n \in names |-> DistinguishedNameEquals(subject.Subject, n)],
                          issuer.Excluded.directory, issuer.Permitted.directory)

ValidateNameConstraintsFromIssuer(subject, issuer, subjectIsLeaf) ==
    \/ ~issuer.HasNameConstraints
    \/ ~subjectIsLeaf /\ IsSelfIssued(subject)
    \/ /\ ValidateDirectoryNameAgainstConstraints(subject, issuer)
       /\ \A i \in 1 .. Len(subject.DnsNames) : ValidateDnsNameAgainstConstraints(subject.DnsNames[i], issuer)
       /\ subject.DnsNames = <<>> /\ subject.CommonName # <<>> =>
            ValidateDnsNameAgainstConstraints(subject.CommonName, issuer)
       /\ \A i \in 1 .. Len(subject.IpAddresses) : ValidateIpAddressAgainstConstraints(subject.IpAddresses[i], issuer)

ValidateNameConstraints(path) ==
    \A i \in 2 .. Len(path) : \A s \in 1 .. i - 1 : ValidateNameConstraintsFromIssuer(path[s], path[i], s = 1)

-----------------------------------------------------------------------------
\* Policies.
AnyPolicy == "anyPolicy"
Policies(c) == Range(c.CertificatePolicyOids)
CertificateHasConcretePolicy(c) == Policies(c) \ {AnyPolicy} # {}
CertificatePoliciesIntersect(a, b) == (Policies(a) \cap Policies(b)) \ {AnyPolicy} # {}

ValidateCertificatePolicyTree(path) ==
    LET leaf == path[1] IN
    \A i \in 2 .. Len(path) :
        LET issuer == path[i] IN
        /\ ~(issuer.RequireExplicitPolicy = {0} /\ ~leaf.HasCertificatePolicies)
        /\ ~(issuer.InhibitAnyPolicy = {0} /\ AnyPolicy \in Policies(leaf) /\ ~CertificateHasConcretePolicy(leaf))
        /\ ~( /\ issuer.CertificatePoliciesCritical /\ issuer.HasCertificatePolicies /\ leaf.HasCertificatePolicies
              /\ AnyPolicy \notin Policies(issuer) \cup Policies(leaf)
              /\ ~CertificatePoliciesIntersect(issuer, leaf))

-----------------------------------------------------------------------------
\* Revocation.
ValidateRevocationEntry(entry, now) ==
    /\ entry.ThisUpdate # NoTime => ~Earlier(now, entry.ThisUpdate)
    /\ entry.NextUpdate # NoTime => ~Earlier(entry.NextUpdate, now)
    /\ entry.Status = "Good"

ValidateCertificateRevocation(path, options, anchor) ==
    LET mode == IF options.RevocationMode = "Off" /\ options.RequireRevocationCheck
                THEN "OnlineRequired" ELSE options.RevocationMode
        Found(c) == LET ocsp == FindRevocationEntry(options.Store, c, "Ocsp")
                    IN IF ocsp # {} THEN ocsp
                       ELSE IF mode = "OnlineRequired" THEN FindRevocationEntry(options.Store, c, "Crl") ELSE {}
    IN mode = "Off" \/ \A i \in 1 .. Min({anchor, Len(path)}) :
                            \E entry \in Found(path[i]) : ValidateRevocationEntry(entry, options.Now)

-----------------------------------------------------------------------------
\* Trust.  A verdict is a status and whether the certificate is trusted.
Verdict(status, trusted) == [status |-> status, trusted |-> trusted]

AnchorSignsCertificate(c, anchor, subordinates) ==
    LET Signed(status) == Verdict(IF status = "invalid signature" THEN "success" ELSE status, status = "success") IN
    IF IsExactAnchorMatch(c, anchor) THEN Verdict("success", TRUE)
    ELSE IF \/ ~anchor.HasBasicConstraints \/ ~anchor.IsCa \/ ~anchor.HasKeyUsage \/ ~anchor.AllowsKeyCertSign
            \/ \E n \in anchor.PathLenConstraint : subordinates > n
            \/ ~CertificateIssuerMatches(c, anchor)
    THEN Verdict("success", FALSE)
    ELSE Signed(VerifyCertificateSignature(c, anchor))

\* The certificates of a bundle in turn, until one fails or is trusted.
ParsedCertificateMatchesAuthorityBundle(c, bundle, subordinates) ==
    LET Anchored(anchor) ==
            IF anchor.ok THEN AnchorSignsCertificate(c, anchor, subordinates) ELSE Verdict("invalid response", FALSE)
    IN FoldLeft(LAMBDA v, der : IF v.status # "success" \/ v.trusted THEN v ELSE Anchored(ParseCertificate(der)),
                Verdict("success", FALSE), bundle)

StoreHasTrustedAnchor(store, c, subordinates) ==
    IF IsTrustedAnchor(store, c.Subject, HashSubjectPublicKey(c)) THEN Verdict("success", TRUE)
    ELSE FoldLeft(LAMBDA v, bundle : IF v.status # "success" \/ v.trusted THEN v
                                     ELSE ParsedCertificateMatchesAuthorityBundle(c, bundle, subordinates),
                  Verdict("success", FALSE), store.AuthorityBundles)

\* The position of the first certificate that is trusted; 0 if there is none.
RECURSIVE FindTrustedAnchor(_, _, _)
FindTrustedAnchor(store, path, i) ==
    LET Found(v) ==
            IF v.status # "success" THEN [status |-> v.status, index |-> 0]
            ELSE IF v.trusted THEN [status |-> "success", index |-> i]
            ELSE FindTrustedAnchor(store, path, i + 1)
    IN IF i > Len(path) THEN [status |-> "success", index |-> 0]
       ELSE Found(StoreHasTrustedAnchor(store, path[i], CountSubordinateCaCertificates(path, i)))

-----------------------------------------------------------------------------
\* ValidateChainImpl, in the order of its checks.
InTime(c, now) == ~Earlier(now, c.NotBefore) /\ ~Earlier(c.NotAfter, now)

IsLeaf(c) == ~(c.HasBasicConstraints /\ c.IsCa) /\ c.HasKeyUsage /\ c.AllowsDigitalSignature

\* Between path[i] and its issuer.
ValidateLink(path, i) ==
    LET issuer == path[i + 1] IN
    IF \/ ~CertificateIssuerMatches(path[i], issuer) \/ ~issuer.HasBasicConstraints \/ ~issuer.IsCa
       \/ ~issuer.HasKeyUsage \/ ~issuer.AllowsKeyCertSign
       \/ \E n \in issuer.PathLenConstraint : CountSubordinateCaCertificates(path, i) > n
    THEN TrustFailure ELSE VerifyCertificateSignature(path[i], issuer)

ValidateLinks(path) ==
    LET First(broken) == IF broken = {} THEN "success" ELSE ValidateLink(path, Min(broken))
    IN First({i \in 1 .. Len(path) - 1 : ValidateLink(path, i) # "success"})

ValidateAnchored(path, host, options) ==
    LET self == IF Len(path) = 1 /\ IsSelfIssued(path[1]) THEN VerifyCertificateSignature(path[1], path[1]) ELSE "success"
        Anchored(anchor) ==
            IF anchor.status # "success" THEN anchor.status
            ELSE IF anchor.index = 0 THEN TrustFailure
            ELSE IF self # "success" THEN self
            ELSE IF ~ValidateCertificateRevocation(path, options, anchor.index) THEN TrustFailure ELSE "success"
    IN IF ~MatchesPin(options.Store, host, HashSubjectPublicKey(path[1])) THEN TrustFailure
       ELSE Anchored(FindTrustedAnchor(options.Store, path, 1))

ValidatePath(path, host, options) ==
    LET Linked(status) == IF status # "success" THEN status ELSE ValidateAnchored(path, host, options)
    IN IF \/ ~ValidateNameConstraints(path) \/ ~ValidateCertificatePolicyTree(path)
          \/ \E i \in 1 .. Len(path) : ~InTime(path[i], options.Now)
          \/ options.RequireServerAuthEku /\ ~(path[1].HasExtendedKeyUsage /\ path[1].AllowsServerAuth)
          \/ ~IsLeaf(path[1]) \/ ~ValidateHostName(path[1], host)
       THEN TrustFailure ELSE Linked(ValidateLinks(path))

\* The name the certificate is checked against: an address as it is, a name normalised.
ExpectedHost(options) ==
    IF ParseIpLiteral(options.HostName) # NoAddress THEN Accepted(options.HostName)
    ELSE NormalizeDnsName(options.HostName, options.EnableIdna, NormalizedCapacity)

ValidateChain(chain, options) ==
    LET wanted == IF options.VerifyCertificate THEN Len(chain) ELSE 1
        Ordered(path, host) == IF path = <<>> THEN TrustFailure ELSE ValidatePath(path, host, options)
        Expected(parsed, host) ==
            IF host.ok THEN Ordered(ReorderCertificatePath(parsed, host.text), host.text) ELSE "invalid parameter"
        Parsed(parsed) ==
            IF \E i \in 1 .. wanted : ~parsed[i].ok THEN "invalid response"
            ELSE IF ~options.VerifyCertificate THEN "success" ELSE Expected(parsed, ExpectedHost(options))
    IN IF chain = <<>> \/ Len(chain) > MaxChainLength \/ (options.VerifyCertificate /\ options.HostName = <<>>)
       THEN "invalid parameter"
       ELSE Parsed([i \in 1 .. wanted |-> ParseCertificate(chain[i])])

\* ReadNextCertificate: the lengths of a Certificate message's list, three octets each.
ReadNextCertificate(data, offset) ==
    LET length == data[offset + 1] * 65536 + data[offset + 2] * 256 + data[offset + 3]
    IN IF offset > Len(data) \/ Len(data) - offset < 3 THEN [ok |-> FALSE, der |-> <<>>, next |-> offset]
       ELSE IF length = 0 \/ length > Len(data) - offset - 3 THEN [ok |-> FALSE, der |-> <<>>, next |-> offset + 3]
       ELSE [ok |-> TRUE, der |-> SubSeq(data, offset + 4, offset + 3 + length), next |-> offset + 3 + length]

RECURSIVE ReadCertificates(_, _, _)
ReadCertificates(data, offset, count) ==
    LET Joined(der, rest) == [rest EXCEPT !.list = <<der>> \o @]
        Next(one) ==
            IF one.ok THEN Joined(one.der, ReadCertificates(data, one.next, count - 1)) ELSE [ok |-> FALSE, list |-> <<>>]
    IN IF count = 0 THEN [ok |-> offset = Len(data), list |-> <<>>] ELSE Next(ReadNextCertificate(data, offset))
=============================================================================
