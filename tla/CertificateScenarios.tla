------------------------ MODULE CertificateScenarios -------------------------
(***************************************************************************)
(* Certificates described by what they say, the trees they are sent as,    *)
(* and when a server's certificates are to be trusted (RFC 5280, 6.1),     *)
(* stated about the descriptions.                                          *)
(***************************************************************************)
EXTENDS CertificateChain

Host == <<104>>
Other == <<103>>
Now == <<2026, 1, 1, 0, 0, 0>>
Year(y) == <<48 + (y \div 10), 48 + (y % 10), 48, 49, 48, 49, 48, 48, 48, 48, 48, 48, 90>>

\* A certificate: subject, issuer, key and signing key are numbers; ca is "yes", "no" or "absent".
Leaf == [subject |-> 1, issuer |-> 2, key |-> 11, signer |-> 12, ca |-> "absent", pathLen |-> {}, digital |-> TRUE,
         certSign |-> FALSE, from |-> 20, to |-> 30, dns |-> Host, permitted |-> {}, excluded |-> {}, critical |-> FALSE]
Issuing == [Leaf EXCEPT !.subject = 2, !.issuer = 3, !.key = 12, !.signer = 13, !.ca = "yes", !.digital = FALSE,
                        !.certSign = TRUE, !.dns = <<>>]
Root == [Issuing EXCEPT !.subject = 3, !.key = 13]

-----------------------------------------------------------------------------
Sequence(items) == Element("sequence", <<>>, items)
Oid(name) == Element("oid", name, <<>>)
NameOf(n) == Sequence(<<Element("set", <<>>, <<Sequence(<<Oid("commonName"), Element("string", <<n>>, <<>>)>>)>>)>>)
Algorithm == Sequence(<<Oid("ecdsaWithSha256")>>)
SpkiOf(key) == Sequence(<<Sequence(<<Oid("ecPublicKey"), Oid("secp256r1")>>), Element("bits", <<0, key>>, <<>>)>>)
Extension(name, value) == Sequence(<<Oid(name), Element("octets", <<>>, <<value>>)>>)
When(condition, value) == IF condition THEN <<value>> ELSE <<>>
Subtrees(tag, names) ==
    IF names = {} THEN <<>>
    ELSE <<Element(tag, <<>>, <<Sequence(<<Element("dns", CHOOSE n \in names : TRUE, <<>>)>>)>>)>>

Extensions(d) ==
    When(d.ca # "absent",
         Extension("basicConstraints",
                   Sequence(<<Element("bool", <<IF d.ca = "yes" THEN 255 ELSE 0>>, <<>>)>>
                            \o (IF d.pathLen = {} THEN <<>>
                                ELSE <<Element("integer", <<CHOOSE n \in d.pathLen : TRUE>>, <<>>)>>))))
    \o When(d.digital \/ d.certSign,
            Extension("keyUsage", Element("bits", <<2, (IF d.digital THEN 128 ELSE 0) + (IF d.certSign THEN 4 ELSE 0)>>,
                                          <<>>)))
    \o When(d.dns # <<>>, Extension("subjectAltName", Sequence(<<Element("dns", d.dns, <<>>)>>)))
    \o When(d.permitted \cup d.excluded # {},
            Extension("nameConstraints", Sequence(Subtrees("permitted", d.permitted) \o Subtrees("excluded", d.excluded))))
    \o When(d.critical, Sequence(<<Oid("unknown"), Element("bool", <<255>>, <<>>), Element("octets", <<>>, <<>>)>>))

TreeOf(d) ==
    Sequence(<<Sequence(<<Element("version", <<2>>, <<>>), Element("integer", <<d.key>>, <<>>), Algorithm, NameOf(d.issuer),
                          Sequence(<<Element("utc", Year(d.from), <<>>), Element("utc", Year(d.to), <<>>)>>),
                          NameOf(d.subject), SpkiOf(d.key)>>
                        \o When(Extensions(d) # <<>>, Element("extensions", <<>>, <<Sequence(Extensions(d))>>))),
               Algorithm, Element("bits", <<0, d.signer>>, <<>>)>>)

-----------------------------------------------------------------------------
\* The stores: which keys are anchors, which certificates are in the bundle, pins, revoked keys.
StoreOf(s) ==
    [TrustAnchors |-> [i \in 1 .. Len(s.keys) |-> [SubjectName |-> AnyName, MatchSubjectPublicKey |-> TRUE,
                                                  SubjectPublicKey |-> SpkiOf(s.keys[i])]],
     AuthorityBundles |-> IF s.bundle = <<>> THEN <<>> ELSE <<[i \in 1 .. Len(s.bundle) |-> TreeOf(s.bundle[i])]>>,
     Pins |-> [i \in 1 .. Len(s.pins) |-> [HostName |-> Host, SubjectPublicKey |-> SpkiOf(s.pins[i])]],
     RevocationEntries |-> [i \in 1 .. Len(s.status) |->
        [IssuerName |-> NameOf(s.status[i].issuer), SerialNumber |-> <<s.status[i].key>>, Source |-> s.status[i].source,
         Status |-> s.status[i].status, ThisUpdate |-> <<2025, 1, 1, 0, 0, 0>>, NextUpdate |-> <<2027, 1, 1, 0, 0, 0>>]]]

OptionsOf(s) ==
    [HostName |-> Host, EnableIdna |-> FALSE, VerifyCertificate |-> TRUE, RequireServerAuthEku |-> FALSE,
     RevocationMode |-> s.mode, RequireRevocationCheck |-> FALSE, Now |-> Now, Store |-> StoreOf(s)]

Judged(sent, options) ==
    IF ValidStore(options.Store) THEN ValidateChain([i \in 1 .. Len(sent) |-> TreeOf(sent[i])], options)
    ELSE "invalid store"

-----------------------------------------------------------------------------
\* What RFC 5280 asks of a path, leaf first.
MayIssue(d, below) == d.ca = "yes" /\ d.certSign /\ \A n \in d.pathLen : below <= n
Below(p, i) == Cardinality({j \in 2 .. i - 1 : p[j].subject # p[j].issuer})
\* The name under which a certificate is held against constraints: here the common name stands in for a DNS name.
DnsOf(d) == IF d.dns = <<>> THEN <<d.subject>> ELSE d.dns
Permits(d, name) == name \notin d.excluded /\ (d.permitted # {} => name \in d.permitted)

Constrained(p) ==
    \A i \in 1 .. Len(p) : \A j \in 1 .. i - 1 : (j > 1 /\ p[j].subject = p[j].issuer) \/ Permits(p[i], DnsOf(p[j]))

Trusted(p, s) ==
    \E i \in 1 .. Len(p) :
        \/ p[i].key \in Range(s.keys)
        \/ \E a \in Range(s.bundle) :
            \/ a.subject = p[i].subject /\ a.key = p[i].key
            \/ a.subject = p[i].issuer /\ a.key = p[i].signer /\ MayIssue(a, Below(p, i + 1))

\* The certificates up to the first trusted one have a good answer.
Unrevoked(p, s) ==
    s.mode = "Off" \/ \E i \in 1 .. Len(p) : Trusted(SubSeq(p, 1, i), s)
        /\ \A j \in 1 .. i : \E k \in 1 .. Len(s.status) :
            /\ s.status[k].issuer = p[j].issuer /\ s.status[k].key = p[j].key /\ s.status[k].status = "Good"
            /\ s.status[k].source = "Ocsp" \/ s.mode = "OnlineRequired"
            /\ s.status[k].source = "Crl" =>
                \A m \in 1 .. Len(s.status) : s.status[m].source = "Ocsp" =>
                    s.status[m].issuer # p[j].issuer \/ s.status[m].key # p[j].key

GoodPath(p, s) ==
    /\ p[1].dns = Host /\ p[1].ca # "yes" /\ p[1].digital
    /\ \A i \in 1 .. Len(p) : p[i].from < 26 /\ p[i].to >= 26 /\ ~p[i].critical
    /\ \A i \in 1 .. Len(p) - 1 : /\ p[i].issuer = p[i + 1].subject /\ p[i].signer = p[i + 1].key
                                  /\ MayIssue(p[i + 1], Below(p, i + 1))
    /\ Constrained(p) /\ Trusted(p, s) /\ Unrevoked(p, s)
    /\ s.pins = <<>> \/ p[1].key \in Range(s.pins)
    /\ Len(p) = 1 /\ p[1].issuer = p[1].subject => p[1].signer = p[1].key

\* Every path over what was sent, and the ones that cannot be made longer.
PathsOf(sent) ==
    LET ids == 1 .. Len(sent)
        Chains == UNION {{f \in [1 .. n -> ids] : IsInjective(f)} : n \in ids}
    IN {[i \in DOMAIN f |-> sent[f[i]]] :
            f \in {g \in Chains : \A i \in 1 .. Len(g) - 1 :
                        sent[g[i]].issuer = sent[g[i + 1]].subject /\ sent[g[i]].issuer # sent[g[i]].subject}}
EndsOf(sent) == {d \in Range(sent) : \A e \in Range(sent) : e = d \/ e.issuer # d.subject}
Longest(p, sent) ==
    Last(p).issuer = Last(p).subject \/ \A e \in Range(sent) : e \in Range(p) \/ e.subject # Last(p).issuer

\* Nothing to choose: no two certificates of one subject, one end that names the host.
Unambiguous(sent) ==
    /\ \A i, j \in 1 .. Len(sent) : i # j => sent[i].subject # sent[j].subject
    /\ Cardinality({d \in EndsOf(sent) : d.dns = Host}) = 1

Right(sent, s) ==
    LET unread == \E d \in Range(sent) \cup Range(s.bundle) : d.critical
        Agrees(accepted, good) ==
            /\ accepted => good # {}
            /\ Unambiguous(sent) /\ ~unread => accepted = (good # {})
    IN Agrees(Judged(sent, OptionsOf(s)) = "success",
              {p \in PathsOf(sent) : p[1] \in EndsOf(sent) /\ Longest(p, sent) /\ GoodPath(p, s)})

-----------------------------------------------------------------------------
\* What can be wrong with a leaf, with the authority that issued it, and with the root.
Leaves ==
    {Leaf, [Leaf EXCEPT !.to = 25], [Leaf EXCEPT !.ca = "yes"], [Leaf EXCEPT !.digital = FALSE], [Leaf EXCEPT !.dns = Other],
     [Leaf EXCEPT !.signer = 99], [Leaf EXCEPT !.critical = TRUE], [Leaf EXCEPT !.issuer = 1, !.signer = 11]}
Authorities ==
    {Issuing, [Issuing EXCEPT !.from = 27], [Issuing EXCEPT !.ca = "no"], [Issuing EXCEPT !.certSign = FALSE],
     [Issuing EXCEPT !.pathLen = {0}], [Issuing EXCEPT !.permitted = {Host}], [Issuing EXCEPT !.permitted = {Other}],
     [Issuing EXCEPT !.excluded = {Host}], [Issuing EXCEPT !.signer = 99]}
Roots ==
    {Root, [Root EXCEPT !.pathLen = {0}], [Root EXCEPT !.pathLen = {1}], [Root EXCEPT !.to = 25],
     [Root EXCEPT !.permitted = {Host}], [Root EXCEPT !.excluded = {Other}]}
\* A second certificate of the issuing authority's name, with another key; a second leaf.
Twin == [Issuing EXCEPT !.key = 14]
Sibling == [Leaf EXCEPT !.subject = 5, !.key = 15, !.dns = Other]

NoStore == [keys |-> <<>>, bundle |-> <<>>, pins |-> <<>>, mode |-> "Off", status |-> <<>>]
StatusOf(d, source, status) == [issuer |-> d.issuer, key |-> d.key, source |-> source, status |-> status]
Stores ==
    {NoStore, [NoStore EXCEPT !.keys = <<13>>], [NoStore EXCEPT !.keys = <<12>>],
     [NoStore EXCEPT !.bundle = <<Sibling, Root>>], [NoStore EXCEPT !.bundle = <<[Root EXCEPT !.pathLen = {0}]>>],
     [NoStore EXCEPT !.bundle = <<[Leaf EXCEPT !.critical = TRUE], Root>>],
     [NoStore EXCEPT !.keys = <<13>>, !.pins = <<15>>], [NoStore EXCEPT !.keys = <<13>>, !.pins = <<15, 11>>],
     [NoStore EXCEPT !.keys = <<12>>, !.mode = "OnlineRequired",
                     !.status = <<StatusOf(Leaf, "Crl", "Good"), StatusOf(Issuing, "Ocsp", "Good")>>],
     [NoStore EXCEPT !.keys = <<12>>, !.mode = "OnlineRequired",
                     !.status = <<StatusOf(Leaf, "Crl", "Good"), StatusOf(Leaf, "Ocsp", "Revoked"),
                                  StatusOf(Issuing, "Ocsp", "Good")>>],
     [NoStore EXCEPT !.keys = <<12>>, !.mode = "StapledOnly", !.status = <<StatusOf(Leaf, "Ocsp", "Good")>>]}

Orders ==
    LET Sent(names) == {[i \in DOMAIN f |-> f[i]] : f \in {g \in [1 .. Cardinality(names) -> names] : IsInjective(g)}}
    IN UNION {Sent(names) : names \in {{"leaf"}, {"leaf", "issuing"}, {"leaf", "issuing", "root"},
                                       {"leaf", "twin", "issuing"}, {"sibling", "leaf", "issuing"}}}

Certificate(name, l, a, r) ==
    CASE name = "leaf" -> l [] name = "issuing" -> a [] name = "root" -> r [] name = "twin" -> Twin [] name = "sibling" -> Sibling
=============================================================================
