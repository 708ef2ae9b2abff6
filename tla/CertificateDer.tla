---------------------------- MODULE CertificateDer ---------------------------
(***************************************************************************)
(* How an X.509 certificate is read (tls/CertificateValidator.cpp): DER    *)
(* elements, times, names, extensions, keys, and certificates in PEM.      *)
(*                                                                         *)
(* ReadElement works on octets.  Above it a certificate is the tree of its *)
(* elements: a tag, the octets of the value and, where the value is made   *)
(* of elements, those.  An element that ReadElement refuses has the tag    *)
(* "bad".  An object identifier's value is its name.                       *)
(***************************************************************************)
EXTENDS Names

CONSTANTS
    LengthOctets,        \* sizeof(SIZE_T)
    MaxSanNames,         \* the sizes of DnsNames and IpAddresses
    MaxNameConstraints,  \* CertificateMaxNameConstraints
    MaxPolicies,         \* CertificateMaxCertificatePolicies
    MinModulusOctets     \* KhMinRsaModulusBits / 8

Element(tag, value, items) == [Tag |-> tag, Value |-> value, Items |-> items]

-----------------------------------------------------------------------------
HasCapacity(capacity, offset, length) == offset <= capacity /\ length <= capacity - offset

\* ReadElement, of the octets from offset (counted from 0).
ReadElement(data, offset) ==
    LET Fail == [ok |-> FALSE, tag |-> 0, value |-> <<>>, next |-> offset]
        first == data[offset + 2]
        octets == first - 128
        digits == SubSeq(data, offset + 3, offset + 2 + octets)
        long == FoldLeft(LAMBDA v, x : v * 256 + x, 0, digits)
        start == IF first < 128 THEN offset + 2 ELSE offset + 2 + octets
        length == IF first < 128 THEN first ELSE long
    IN IF ~HasCapacity(Len(data), offset, 2) THEN Fail
       ELSE IF first >= 128 /\ (octets = 0 \/ octets > LengthOctets \/ ~HasCapacity(Len(data), offset + 2, octets))
       THEN Fail
       ELSE IF first >= 128 /\ ((octets > 1 /\ digits[1] = 0) \/ long < 128) THEN Fail
       ELSE IF ~HasCapacity(Len(data), start, length) THEN Fail
       ELSE [ok |-> TRUE, tag |-> data[offset + 1], value |-> SubSeq(data, start + 1, start + length),
             next |-> start + length]

\* ReadExpected: the i-th element of a list has this tag.
ReadExpected(items, i, tag) == i <= Len(items) /\ items[i].Tag = tag
Readable(items) == \A i \in 1 .. Len(items) : items[i].Tag # "bad"

OidEquals(e, name) == e.Tag = "oid" /\ e.Value = name

Number(octets) ==
    FoldLeft(LAMBDA acc, x : IF ~acc.ok \/ acc.value > ULongMax \div 256 THEN [ok |-> FALSE, value |-> 0]
                             ELSE [ok |-> TRUE, value |-> acc.value * 256 + x],
             [ok |-> TRUE, value |-> 0], octets)

NoNumber == [ok |-> FALSE, value |-> 0]

ParseUnsignedDerInteger(e) ==
    IF e.Tag # "integer" \/ e.Value = <<>> THEN NoNumber
    ELSE IF e.Value[1] >= 128 \/ (Len(e.Value) > 1 /\ e.Value[1] = 0 /\ e.Value[2] < 128) THEN NoNumber
    ELSE Number(IF Len(e.Value) > 1 /\ e.Value[1] = 0 THEN Tail(e.Value) ELSE e.Value)

\* An implicit tag: leading zeros are not looked at.
ParseImplicitUnsignedInteger(e) ==
    IF e.Value = <<>> THEN NoNumber ELSE IF e.Value[1] >= 128 THEN NoNumber ELSE Number(e.Value)

-----------------------------------------------------------------------------
\* Times.  PackTime's number orders times as the tuple of its parts does.
IsLeapYear(year) == year % 4 = 0 /\ (year % 100 # 0 \/ year % 400 = 0)
DaysInMonth(year, month) ==
    CASE month \in {1, 3, 5, 7, 8, 10, 12} -> 31
      [] month \in {4, 6, 9, 11} -> 30
      [] month = 2 -> IF IsLeapYear(year) THEN 29 ELSE 28
      [] OTHER -> 0

PackTime(year, month, day, hour, minute, second) == <<year, month, day, hour, minute, second>>
Earlier(a, b) == \E i \in 1 .. 6 : a[i] < b[i] /\ \A j \in 1 .. i - 1 : a[j] = b[j]

NoTime == <<>>
TwoDigits(text, i) == (text[i] - 48) * 10 + text[i + 1] - 48

ParseDerTime(e) ==
    LET utc == e.Tag = "utc"
        length == IF utc THEN 13 ELSE 15
        at == IF utc THEN 3 ELSE 5
        short == TwoDigits(e.Value, 1)
        year == IF ~utc THEN short * 100 + TwoDigits(e.Value, 3)
                ELSE IF short >= 50 THEN 1900 + short ELSE 2000 + short
        month == TwoDigits(e.Value, at)
        day == TwoDigits(e.Value, at + 2)
        hour == TwoDigits(e.Value, at + 4)
        minute == TwoDigits(e.Value, at + 6)
        second == TwoDigits(e.Value, at + 8)
    IN IF \/ e.Tag \notin {"utc", "general"} \/ Len(e.Value) # length
       THEN NoTime
       ELSE IF \/ e.Value[length] # 90 \/ \E i \in 1 .. length - 1 : ~IsDecimalDigit(e.Value[i])
       THEN NoTime
       ELSE IF day \notin 1 .. DaysInMonth(year, month) \/ hour > 23 \/ minute > 59 \/ second > 59
       THEN NoTime ELSE PackTime(year, month, day, hour, minute, second)

-----------------------------------------------------------------------------
\* ParseAlgorithmIdentifier
SignatureAlgorithms ==
    [sha256WithRsa |-> "RsaPkcs1Sha256", sha384WithRsa |-> "RsaPkcs1Sha384",
     ecdsaWithSha256 |-> "EcdsaSha256", ecdsaWithSha384 |-> "EcdsaSha384",
     ed25519 |-> "Ed25519", ed448 |-> "Ed448"]
Curves == [secp256r1 |-> "EcdsaP256", secp384r1 |-> "EcdsaP384", secp521r1 |-> "EcdsaP521"]

Named(names, name) == IF name \in DOMAIN names THEN names[name] ELSE "Unknown"

AlgorithmReadable(a) == a.Tag = "sequence" /\ ReadExpected(a.Items, 1, "oid")
ParseSignatureAlgorithm(a) == Named(SignatureAlgorithms, a.Items[1].Value)
ParsePublicKeyAlgorithm(a) ==
    LET name == a.Items[1].Value IN
    CASE name = "rsaEncryption" -> "Rsa"
      [] name = "ed25519" -> "Ed25519"
      [] name = "ed448" -> "Ed448"
      [] name = "ecPublicKey" -> IF ReadExpected(a.Items, 2, "oid") THEN Named(Curves, a.Items[2].Value) ELSE "bad"
      [] OTHER -> "Unknown"

Bad(c) == [c EXCEPT !.ok = FALSE]

\* ParseName: the subject's first common name.
ParseName(name, c) ==
    LET attributes == FoldLeft(LAMBDA l, set : l \o set.Items, <<>>, name.Items)
        common == SelectSeq(attributes, LAMBDA a : OidEquals(a.Items[1], "commonName") /\ a.Items[2].Tag = "string")
    IN IF \/ name.Tag # "sequence"
          \/ \E i \in 1 .. Len(name.Items) : name.Items[i].Tag # "set"
          \/ \E i \in 1 .. Len(attributes) :
                \/ attributes[i].Tag # "sequence" \/ Len(attributes[i].Items) < 2
                \/ attributes[i].Items[1].Tag # "oid" \/ attributes[i].Items[2].Tag = "bad"
       THEN Bad(c)
       ELSE IF common = <<>> THEN c ELSE [c EXCEPT !.CommonName = common[1].Items[2].Value]

-----------------------------------------------------------------------------
(***************************************************************************)
(* Extensions.  Each function gets the elements in the extension's value.  *)
(***************************************************************************)
ParseBasicConstraints(items, c) ==
    LET list == items[1].Items
        ca == list[1].Value[1] # 0
        pathLen == ParseUnsignedDerInteger(list[2])
    IN IF ~ReadExpected(items, 1, "sequence") THEN Bad(c)
       ELSE IF list = <<>> THEN [c EXCEPT !.HasBasicConstraints = TRUE]
       ELSE IF list[1].Tag # "bool" \/ Len(list[1].Value) # 1 \/ Len(list) > 2 THEN Bad(c)
       ELSE IF Len(list) = 1 THEN [c EXCEPT !.HasBasicConstraints = TRUE, !.IsCa = ca]
       ELSE IF ~pathLen.ok \/ ~ca THEN Bad(c)
       ELSE [c EXCEPT !.HasBasicConstraints = TRUE, !.IsCa = TRUE, !.PathLenConstraint = {pathLen.value}]

BitStringHasBit(value, bit) ==
    LET octet == 2 + bit \div 8
    IN octet <= Len(value) /\ (value[octet] \div 2 ^ (7 - (bit % 8))) % 2 = 1

ParseKeyUsage(items, c) ==
    LET value == items[1].Value IN
    IF ~ReadExpected(items, 1, "bits") \/ Len(items) # 1 THEN Bad(c)
    ELSE IF Len(value) < 2 THEN Bad(c)
    ELSE IF value[1] > 7 THEN Bad(c)
    ELSE IF Last(value) % 2 ^ value[1] # 0 THEN Bad(c)
    ELSE [c EXCEPT !.HasKeyUsage = TRUE, !.AllowsDigitalSignature = BitStringHasBit(value, 0),
                   !.AllowsKeyCertSign = BitStringHasBit(value, 5)]

ParseSubjectAltName(items, c) ==
    LET names == items[1].Items
        Of(tag) == LET found == SelectSeq(names, LAMBDA e : e.Tag = tag)
                   IN [i \in 1 .. Len(found) |-> found[i].Value]
    IN IF ~ReadExpected(items, 1, "sequence") \/ Len(items) # 1 THEN Bad(c)
       ELSE IF \/ ~Readable(names)
               \/ \E i \in 1 .. Len(names) :
                    \/ names[i].Tag = "dns" /\ ContainsNonAscii(names[i].Value)
                    \/ names[i].Tag = "ip" /\ Len(names[i].Value) \notin {4, 16}
               \/ Len(Of("dns")) > MaxSanNames \/ Len(Of("ip")) > MaxSanNames
       THEN Bad(c)
       ELSE [c EXCEPT !.DnsNames = Of("dns"), !.IpAddresses = Of("ip")]

\* AddDnsNameConstraint, AddIpNameConstraint, AddDirectoryNameConstraint
AddDnsNameConstraint(c, list, base) ==
    IF base.Value = <<>> \/ ContainsNonAscii(base.Value) \/ Len(c[list].dns) >= MaxNameConstraints THEN Bad(c)
    ELSE [c EXCEPT ![list].dns = Append(@, base.Value)]
AddIpNameConstraint(c, list, base) ==
    IF Len(base.Value) \notin {8, 32} \/ Len(c[list].ip) >= MaxNameConstraints THEN Bad(c)
    ELSE [c EXCEPT ![list].ip = Append(@, base.Value)]
AddDirectoryNameConstraint(c, list, base) ==
    IF ~ReadExpected(base.Items, 1, "sequence") \/ Len(base.Items) # 1
       \/ Len(c[list].directory) >= MaxNameConstraints THEN Bad(c)
    ELSE [c EXCEPT ![list].directory = Append(@, base.Items[1])]

\* ParseGeneralSubtreeRemainder: only the default minimum.
ParseGeneralSubtreeRemainder(items) ==
    \A i \in 2 .. Len(items) : items[i].Tag = "minimum" /\ items[i].Value = <<0>>

ParseNameConstraintSubtree(c, list, subtree) ==
    LET base == subtree.Items[1] IN
    IF ~c.ok \/ subtree.Tag # "sequence" \/ subtree.Items = <<>> THEN Bad(c)
    ELSE IF base.Tag \notin {"dns", "ip", "directory"} \/ ~ParseGeneralSubtreeRemainder(subtree.Items) THEN Bad(c)
    ELSE CASE base.Tag = "dns" -> AddDnsNameConstraint(c, list, base)
           [] base.Tag = "ip" -> AddIpNameConstraint(c, list, base)
           [] base.Tag = "directory" -> AddDirectoryNameConstraint(c, list, base)

ParseNameConstraintSubtrees(c, subtrees) ==
    LET list == IF subtrees.Tag = "permitted" THEN "Permitted" ELSE "Excluded" IN
    IF subtrees.Tag \notin {"permitted", "excluded"} \/ subtrees.Items = <<>> THEN Bad(c)
    ELSE FoldLeft(LAMBDA acc, subtree : ParseNameConstraintSubtree(acc, list, subtree), c, subtrees.Items)

ParseNameConstraints(items, c) ==
    IF ~ReadExpected(items, 1, "sequence") \/ Len(items) # 1 THEN Bad(c)
    ELSE [FoldLeft(ParseNameConstraintSubtrees, c, items[1].Items) EXCEPT !.HasNameConstraints = TRUE]

IsValidObjectIdentifierValue(e) == e.Tag = "oid" /\ e.Value # "cut short"

ParsePolicyQualifierInfos(qualifiers) ==
    /\ qualifiers.Tag = "sequence" /\ qualifiers.Items # <<>>
    /\ \A i \in 1 .. Len(qualifiers.Items) :
        LET info == qualifiers.Items[i] IN
        /\ info.Tag = "sequence" /\ Len(info.Items) \in 1 .. 2 /\ Readable(info.Items)
        /\ IsValidObjectIdentifierValue(info.Items[1])

ParseCertificatePolicies(items, c, critical) ==
    LET infos == items[1].Items
        oids == [i \in 1 .. Len(infos) |-> infos[i].Items[1].Value]
    IN IF ~ReadExpected(items, 1, "sequence") \/ Len(items) # 1 THEN Bad(c)
       ELSE IF \/ infos = <<>> \/ Len(infos) > MaxPolicies
               \/ \E i \in 1 .. Len(infos) :
                    \/ infos[i].Tag # "sequence" \/ Len(infos[i].Items) \notin 1 .. 2
                    \/ ~IsValidObjectIdentifierValue(infos[i].Items[1])
                    \/ Len(infos[i].Items) = 2 /\ ~ParsePolicyQualifierInfos(infos[i].Items[2])
       THEN Bad(c)
       ELSE [c EXCEPT !.HasCertificatePolicies = TRUE, !.CertificatePoliciesCritical = critical,
                      !.CertificatePolicyOids = oids]

ParsePolicyConstraints(items, c) ==
    LET list == items[1].Items
        \* The last one of a tag counts.
        Skip(tag) == LET found == SelectSeq(list, LAMBDA e : e.Tag = tag)
                     IN IF found = <<>> THEN {} ELSE {ParseImplicitUnsignedInteger(Last(found)).value}
    IN IF ~ReadExpected(items, 1, "sequence") \/ Len(items) # 1 THEN Bad(c)
       ELSE IF list = <<>> \/ \E i \in 1 .. Len(list) :
                    list[i].Tag \notin {"minimum", "maximum"} \/ ~ParseImplicitUnsignedInteger(list[i]).ok
       THEN Bad(c)
       ELSE [c EXCEPT !.RequireExplicitPolicy = Skip("minimum"), !.InhibitPolicyMapping = Skip("maximum")]

ParseInhibitAnyPolicy(items, c) ==
    LET skip == ParseUnsignedDerInteger(items[1]) IN
    IF ~ReadExpected(items, 1, "integer") \/ Len(items) # 1 THEN Bad(c)
    ELSE IF ~skip.ok THEN Bad(c) ELSE [c EXCEPT !.InhibitAnyPolicy = {skip.value}]

ParseExtendedKeyUsage(items, c) ==
    LET usages == items[1].Items IN
    IF ~ReadExpected(items, 1, "sequence") THEN Bad(c)
    ELSE IF \E i \in 1 .. Len(usages) : usages[i].Tag # "oid" THEN Bad(c)
    ELSE [c EXCEPT !.HasExtendedKeyUsage = TRUE,
                   !.AllowsServerAuth = \E i \in 1 .. Len(usages) : OidEquals(usages[i], "serverAuth")]

\* One turn of ParseExtensions' loop.
ParseExtension(acc, e) ==
    LET oid == e.Items[1]
        marked == ReadExpected(e.Items, 2, "bool")
        critical == marked /\ e.Items[2].Value # <<0>>
        at == IF marked THEN 3 ELSE 2
        value == e.Items[at].Items
        seen == [acc EXCEPT !.seen = @ \cup {oid.Value}]
        Give(c) == [seen EXCEPT !.c = c]
    IN IF ~acc.c.ok \/ e.Tag # "sequence" \/ ~ReadExpected(e.Items, 1, "oid") THEN [acc EXCEPT !.c = Bad(@)]
       ELSE IF \/ oid.Value \in acc.seen \/ (marked /\ Len(e.Items[2].Value) # 1)
               \/ ~ReadExpected(e.Items, at, "octets")
       THEN [acc EXCEPT !.c = Bad(@)]
       ELSE CASE oid.Value = "basicConstraints" -> Give(ParseBasicConstraints(value, acc.c))
              [] oid.Value = "keyUsage" -> Give(ParseKeyUsage(value, acc.c))
              [] oid.Value = "subjectAltName" -> Give(ParseSubjectAltName(value, acc.c))
              [] oid.Value = "nameConstraints" -> Give(ParseNameConstraints(value, acc.c))
              [] oid.Value = "certificatePolicies" -> Give(ParseCertificatePolicies(value, acc.c, critical))
              [] oid.Value = "policyConstraints" -> Give(ParsePolicyConstraints(value, acc.c))
              [] oid.Value = "inhibitAnyPolicy" -> Give(ParseInhibitAnyPolicy(value, acc.c))
              [] oid.Value = "extendedKeyUsage" -> Give(ParseExtendedKeyUsage(value, acc.c))
              [] OTHER -> IF critical THEN Give(Bad(acc.c)) ELSE seen

ParseExtensions(e, c) ==
    IF ~ReadExpected(e.Items, 1, "sequence") THEN Bad(c)
    ELSE FoldLeft(ParseExtension, [c |-> c, seen |-> {}], e.Items[1].Items).c

-----------------------------------------------------------------------------
\* ParseSubjectPublicKeyInfo; the elements of an RSA key are the items of the bit string.
ParseSubjectPublicKeyInfo(spki, c) ==
    LET algorithm == ParsePublicKeyAlgorithm(spki.Items[1])
        key == spki.Items[2]
        modulus == key.Items[1].Items[1].Value
        zeros == Min({i \in 0 .. Len(modulus) - 1 : i = Len(modulus) - 1 \/ modulus[i + 1] # 0})
    IN IF Len(spki.Items) < 2 THEN Bad(c)
       ELSE IF ~AlgorithmReadable(spki.Items[1]) \/ key.Tag # "bits" THEN Bad(c)
       ELSE IF algorithm \in {"bad", "Unknown"} \/ Len(key.Value) < 2 THEN Bad(c)
       ELSE IF key.Value[1] # 0 THEN Bad(c)
       ELSE IF algorithm = "Rsa" /\ ~( /\ ReadExpected(key.Items, 1, "sequence")
                                       /\ ReadExpected(key.Items[1].Items, 1, "integer")
                                       /\ ReadExpected(key.Items[1].Items, 2, "integer")
                                       /\ Len(modulus) - zeros >= MinModulusOctets)
       THEN Bad(c)
       ELSE [c EXCEPT !.SubjectPublicKeyInfo = spki, !.PublicKeyAlgorithm = algorithm, !.PublicKey = Tail(key.Value)]

NoSubtrees == [dns |-> <<>>, ip |-> <<>>, directory |-> <<>>]

EmptyCertificate ==
    [ok |-> TRUE, Subject |-> 0, Issuer |-> 0, SerialNumber |-> <<>>, NotBefore |-> NoTime, NotAfter |-> NoTime,
     SignatureAlgorithm |-> "Unknown", TbsCertificate |-> 0, Signature |-> <<>>, CommonName |-> <<>>,
     SubjectPublicKeyInfo |-> 0, PublicKeyAlgorithm |-> "Unknown", PublicKey |-> <<>>,
     HasBasicConstraints |-> FALSE, IsCa |-> FALSE, PathLenConstraint |-> {}, HasKeyUsage |-> FALSE,
     AllowsDigitalSignature |-> FALSE, AllowsKeyCertSign |-> FALSE, DnsNames |-> <<>>, IpAddresses |-> <<>>,
     HasNameConstraints |-> FALSE, Permitted |-> NoSubtrees, Excluded |-> NoSubtrees,
     HasCertificatePolicies |-> FALSE, CertificatePoliciesCritical |-> FALSE, CertificatePolicyOids |-> <<>>,
     RequireExplicitPolicy |-> {}, InhibitPolicyMapping |-> {}, InhibitAnyPolicy |-> {},
     HasExtendedKeyUsage |-> FALSE, AllowsServerAuth |-> FALSE]

\* The part after SubjectPublicKeyInfo: of the optional elements only the extensions are read.
ParseOptional(acc, e) ==
    IF ~acc.ok \/ e.Tag = "bad" THEN Bad(acc) ELSE IF e.Tag = "extensions" THEN ParseExtensions(e, acc) ELSE acc

\* ParseTbs: what ParseCertificate does with the list of TBSCertificate's fields.
ParseTbs(t, c) ==
    LET from == IF ReadExpected(t, 1, "version") THEN 1 ELSE 0
        F(i) == t[from + i]
        before == ParseDerTime(F(4).Items[1])
        after == ParseDerTime(F(4).Items[2])
        filled == [c EXCEPT !.SerialNumber = F(1).Value, !.Issuer = F(3), !.Subject = F(5),
                            !.NotBefore = before, !.NotAfter = after]
    IN IF \/ Len(t) < from + 6 \/ ~ReadExpected(t, from + 1, "integer")
          \/ \E i \in 2 .. 6 : ~ReadExpected(t, from + i, "sequence")
       THEN Bad(c)
       ELSE IF ~AlgorithmReadable(F(2)) \/ Len(F(4).Items) < 2 THEN Bad(c)
       ELSE IF ParseSignatureAlgorithm(F(2)) # c.SignatureAlgorithm \/ before = NoTime \/ after = NoTime
       THEN Bad(c)
       ELSE LET keyed == ParseSubjectPublicKeyInfo(F(6), ParseName(F(5), filled))
            IN IF ~keyed.ok THEN keyed ELSE FoldLeft(ParseOptional, keyed, SubSeq(t, from + 7, Len(t)))

ParseCertificate(root) ==
    LET signature == root.Items[3].Value
        c == [EmptyCertificate EXCEPT !.SignatureAlgorithm = ParseSignatureAlgorithm(root.Items[2]),
                                      !.TbsCertificate = root.Items[1], !.Signature = Tail(signature)]
    IN IF root.Tag # "sequence" \/ ~ReadExpected(root.Items, 1, "sequence") \/ ~ReadExpected(root.Items, 2, "sequence")
          \/ ~ReadExpected(root.Items, 3, "bits") THEN Bad(EmptyCertificate)
       ELSE IF ~AlgorithmReadable(root.Items[2]) \/ Len(signature) < 2 THEN Bad(EmptyCertificate)
       ELSE IF signature[1] # 0 THEN Bad(EmptyCertificate)
       ELSE ParseTbs(root.Items[1].Items, c)

-----------------------------------------------------------------------------
(***************************************************************************)
(* PEM.  A BEGIN line and an END line are one symbol each.                 *)
(***************************************************************************)
BeginLine == 256
EndLine == 257
IsPemWhitespace(c) == c \in {32, 13, 10, 9}
Padding == 61

\* FindPattern, of a marker; 0 if it is not there.
FindPattern(data, marker, start) ==
    LET at == {i \in start .. Len(data) : data[i] = marker} IN IF at = {} THEN 0 ELSE Min(at)

DecodeBase64Char(c) ==
    CASE c \in 65 .. 90 -> c - 65 [] c \in 97 .. 122 -> c - 71 [] c \in 48 .. 57 -> c + 4
      [] c = 43 -> 62 [] c = 47 -> 63 [] OTHER -> -1

FlushBase64Quartet(acc, capacity) ==
    LET q == acc.quartet
        padding == [i \in 1 .. 4 |-> q[i] = Padding]
        V(i) == IF padding[i] THEN 0 ELSE DecodeBase64Char(q[i])
        value == V(1) * 262144 + V(2) * 4096 + V(3) * 64 + V(4)
        count == IF padding[3] THEN 1 ELSE IF padding[4] THEN 2 ELSE 3
        octets == SubSeq(<<value \div 65536, (value \div 256) % 256, value % 256>>, 1, count)
    IN IF padding[1] \/ padding[2] \/ (padding[3] /\ ~padding[4]) \/ Len(acc.out) + count > capacity
       THEN [acc EXCEPT !.ok = FALSE]
       ELSE [acc EXCEPT !.out = @ \o octets, !.quartet = <<>>, !.completed = count < 3]

\* One character of the body.
DecodeBase64(acc, c, capacity) ==
    LET more == [acc EXCEPT !.quartet = Append(@, c)] IN
    IF ~acc.ok \/ IsPemWhitespace(c) THEN acc
    ELSE IF acc.completed \/ (c # Padding /\ DecodeBase64Char(c) < 0) THEN [acc EXCEPT !.ok = FALSE]
    ELSE IF Len(more.quartet) = 4 THEN FlushBase64Quartet(more, capacity) ELSE more

DecodePemCertificate(data, start, capacity) ==
    LET begin == FindPattern(data, BeginLine, start)
        end == FindPattern(data, EndLine, begin + 1)
        decoded == FoldLeft(LAMBDA acc, c : DecodeBase64(acc, c, capacity),
                            [ok |-> TRUE, out |-> <<>>, quartet |-> <<>>, completed |-> FALSE],
                            SubSeq(data, begin + 1, end - 1))
        Result(status, out, next) == [status |-> status, der |-> out, next |-> next]
    IN IF begin = 0 THEN Result("not found", <<>>, start)
       ELSE IF end = 0 \/ ~decoded.ok \/ decoded.quartet # <<>> \/ decoded.out = <<>> THEN Result("invalid", <<>>, start)
       ELSE Result("success", decoded.out, end + 1)

-----------------------------------------------------------------------------
(***************************************************************************)
(* X.690 and RFC 4648, the other way round.                                *)
(***************************************************************************)
RECURSIVE BigEndian(_)
BigEndian(n) == IF n < 256 THEN <<n>> ELSE Append(BigEndian(n \div 256), n % 256)
EncodedLength(n) == IF n < 128 THEN <<n>> ELSE <<128 + Len(BigEndian(n))>> \o BigEndian(n)

Base64Char(v) ==
    CASE v < 26 -> v + 65 [] v \in 26 .. 51 -> v + 71 [] v \in 52 .. 61 -> v - 4 [] v = 62 -> 43 [] OTHER -> 47

RECURSIVE Base64(_)
Base64(text) ==
    LET At(i) == IF i <= Len(text) THEN text[i] ELSE 0
        value == At(1) * 65536 + At(2) * 256 + At(3)
        chars == <<value \div 262144, (value \div 4096) % 64, (value \div 64) % 64, value % 64>>
    IN IF text = <<>> THEN <<>>
       ELSE [i \in 1 .. 4 |-> IF i > Len(text) + 1 THEN Padding ELSE Base64Char(chars[i])]
            \o (IF Len(text) <= 3 THEN <<>> ELSE Base64(SubSeq(text, 4, Len(text))))

\* A PEM block comes back as the octets it was made of, from among others and with line ends in it, if they fit.
PemRight(octets) ==
    LET text == Base64(octets)
        cut == Len(text) \div 2
        pem == <<120, BeginLine>> \o SubSeq(text, 1, cut) \o <<13, 10>> \o SubSeq(text, cut + 1, Len(text)) \o <<10, EndLine, 10>>
    IN octets # <<>> => /\ DecodePemCertificate(pem, 1, Len(octets))
                             = [status |-> "success", der |-> octets, next |-> Len(pem)]
                        /\ DecodePemCertificate(pem, 1, Len(octets) - 1).status = "invalid"

\* Octets after a tag are taken as a length exactly when they are the one way to write it and the value is there.
LengthRight(octets) ==
    LET data == <<48>> \o octets \o [i \in 1 .. 140 |-> 0]
        said == ReadElement(data, 0)
        Lengths == {n \in 0 .. Len(data) : /\ IsPrefix(EncodedLength(n), Tail(data))
                                           /\ 1 + Len(EncodedLength(n)) + n <= Len(data)}
    IN IF Lengths = {} THEN ~said.ok
       ELSE said.ok /\ Lengths = {Len(said.value)} /\ said.next = 1 + Len(EncodedLength(Len(said.value))) + Len(said.value)
=============================================================================
