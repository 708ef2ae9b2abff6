----------------------------- MODULE MCMessages ------------------------------
(***************************************************************************)
(* What is written and read, for TLC.  A run is about one subject: a       *)
(* request handle and its sends, an HPACK encoder with its peer, an HPACK  *)
(* decoder with its peer, a text that grows symbol by symbol, or a message *)
(* or certificate chain that departs more and more from the plainest one.  *)
(***************************************************************************)
EXTENDS Requests, SequencesExt

CONSTANTS
    MaxBlocks,       \* header blocks on a connection
    MaxVariations    \* departures from the plainest message

VARIABLES
    subject,
    input,     \* the text or the description
    steps,     \* how often it has been changed
    hp         \* the two ends of a header compression

mcVars == <<subject, input, steps, hp, requestVars>>

Header(name, value) == [Name |-> name, Value |-> value]

\* Tables of one or two entries, integers of 9 bits in groups of 2, bytes of 3 bits.
H == INSTANCE Hpack WITH
    StaticTable <- <<Header(<<"s">>, <<"1">>), Header(<<"s">>, <<>>)>>, SensitiveNames <- {<<"k">>},
    EntryOverhead <- 1, DataSlack <- 2, FirstEntries <- 1, GroupBits <- 2, IntegerBits <- 9, MaxGroups <- 5,
    ByteBits <- 3, MaxCodeBits <- 4,
    HuffmanCode <- [a |-> <<0, 0>>, b |-> <<0, 1>>, c |-> <<1, 0>>, d |-> <<1, 1, 0>>, e |-> <<1, 1, 1, 0>>,
                    eos |-> <<1, 1, 1, 1>>]

\* Binary literals, groups of two codes.
C == INSTANCE Codecs WITH LiteralBits <- 1, CodesPerGroup <- 2, DataUnitBits <- 2

M == INSTANCE MessageScenarios WITH
    SizeLimit <- 40, MaxHeaders <- 4, MaxHeaderSymbols <- 30, MaxLineSymbols <- 9, MaxTrailers <- 2, MaxChunks <- 12,
    MaxTransferCodings <- 3, MaxContentCodings <- 3, MaxExpansionRatio <- 9

\* Addresses of three groups of two digits, paths of twelve characters.
U == INSTANCE Urls WITH
    ULongMax <- 2147483647, MaxLabel <- 63, MaxName <- 255, Ipv6Groups <- 3, GroupDigits <- 2, HostCapacity <- 20,
    MaxPathLength <- 12, UrlCapacity <- 60

X == INSTANCE CertificateScenarios WITH
    ULongMax <- 2147483647, MaxLabel <- 63, MaxName <- 255, Ipv6Groups <- 8, GroupDigits <- 4, LengthOctets <- 4,
    MaxSanNames <- 2, MaxNameConstraints <- 2, MaxPolicies <- 2, MinModulusOctets <- 2, MaxChainLength <- 4,
    NormalizedCapacity <- 256, MaxStoreEntries <- 4

Target(scheme, host) == [scheme |-> scheme, host |-> host, port |-> IF scheme = "https" THEN 443 ELSE 80]
MCTargets == {Target("http", "a"), Target("https", "a"), Target("https", "b")}

-----------------------------------------------------------------------------
\* Texts: the symbols they are made of, how long they get and how they begin.
Text(alphabet, limit) == [alphabet |-> alphabet, limit |-> limit, start |-> <<>>]
Texts ==
    [bits |-> Text({0, 1}, 9),
     letters |-> Text({"a", "b", "c", "d", "e"}, 4),
     groups |-> Text([chunk : {0, 1, 3}, more : BOOLEAN], 5),
     octets |-> Text({0, 77, 255}, 5),
     lengths |-> Text({0, 1, 127, 128, 129, 130, 255}, 3),
     ranges |-> [Text({" ", "-", "/", "*", "0", "1"}, 7) EXCEPT !.start = <<"u", " ">>],
     points |-> Text({97, 72, 128, 252, 2047, 20013, 55296, 65536, 1114110, 1114111}, 3),
     ipv6 |-> Text({46, 49, 58}, 9),
     patterns |-> Text({42, 46, 97}, 4),
     locations |-> Text({46, 47, 97, 63, 35}, 5),
     authorities |-> Text({97, 65, 46, 58, 49, 64, 91, 93}, 4)]

\* Descriptions: the plainest, and what may be changed in it.
PlainChain == [order |-> <<"leaf", "issuing">>, store |-> [X!NoStore EXCEPT !.keys = <<13>>], leaf |-> X!Leaf,
               issuing |-> X!Issuing, root |-> X!Root]
ChainVariants ==
    [order |-> X!Orders, store |-> X!Stores, leaf |-> X!Leaves, issuing |-> X!Authorities, root |-> X!Roots]
Described == [response |-> M!Plain, message |-> M!PlainRequest, chain |-> PlainChain]
Variations == [response |-> M!Variants, message |-> M!RequestVariants, chain |-> ChainVariants]

\* Header compression: our encoder with a peer and with our own decoder, and what a peer may send to our decoder.
Lists == {<<Header(<<"s">>, <<"2">>)>>, <<Header(<<"x", "y">>, <<"1">>)>>, <<Header(<<"z">>, <<>>)>>, <<Header(<<"k">>, <<"1">>)>>,
          <<Header(<<"x", "y">>, <<"1">>), Header(<<"s">>, <<"1">>)>>}
Sizes == {0, 4, 8}
Blocks ==
    LET Literal(kind, index, name) == [kind |-> kind, index |-> index, Name |-> name, Value |-> <<"v">>, size |-> 0]
        Single == {Literal("indexed", i, <<>>) : i \in 0 .. 4} \cup {[Literal("size", 0, <<>>) EXCEPT !.size = n] : n \in Sizes \cup {9}}
                  \cup {Literal(k, i, <<"n">>) : k \in {"incremental", "never"}, i \in {0, 2, 3}}
    IN {<<r>> : r \in Single} \cup {<<[Literal("size", 0, <<>>) EXCEPT !.size = 4], r>> : r \in Single}
Limits == [headers |-> 2, bytes |-> 20, list |-> 20]
NewEnds(n) == [enc |-> H!NewEncoder(n), peer |-> H!NewReceiver(n), dec |-> H!NewDecoder(n), blocks |-> 0, ok |-> TRUE, lost |-> FALSE]

-----------------------------------------------------------------------------
Subjects == {"request", "sent headers", "received headers"} \cup DOMAIN Texts \cup DOMAIN Described

MCInit ==
    /\ subject \in Subjects /\ steps = 0 /\ hp = NewEnds(IF subject = "received headers" THEN 8 ELSE 4)
    /\ input = IF subject \in DOMAIN Texts THEN Texts[subject].start
               ELSE IF subject \in DOMAIN Described THEN Described[subject] ELSE <<>>
    /\ IF subject = "request" THEN Init
       ELSE /\ request = NewRequest /\ buffer = <<>> /\ meant = NoBody /\ calls = 0
            /\ sending = NotSending /\ wire = NothingWritten

\* The caller of a request handle.
Handle == subject = "request" /\ Next /\ UNCHANGED <<subject, input, steps, hp>>

\* The peer's SETTINGS arrive.
Settings ==
    /\ subject = "sent headers"
    /\ \E n \in Sizes \ {hp.peer.limit} :
        hp' = [hp EXCEPT !.enc = H!UpdateMaxTableSize(@, n), !.peer.limit = n, !.dec.maxTableSize = n]
    /\ UNCHANGED <<subject, input, steps, requestVars>>

SendBlock ==
    /\ subject = "sent headers" /\ hp.blocks < MaxBlocks
    /\ \E headers \in Lists : \E sent \in {H!Encode(hp.enc, headers, 20)} :
       \E read \in {H!RfcDecode(hp.peer, sent.block)}, own \in {H!Decode(hp.dec, sent.block, Limits)} :
           hp' = [hp EXCEPT !.enc = sent.encoder, !.peer = read.peer, !.dec = own.decoder, !.blocks = @ + 1,
                            !.ok = /\ sent.status = "success" /\ ~read.error /\ read.headers = headers
                                   /\ own.status = "success" /\ own.headers = headers]
    /\ UNCHANGED <<subject, input, steps, requestVars>>

\* A block that cannot be decoded ends the connection.
ReceiveBlock ==
    /\ subject = "received headers" /\ hp.blocks < MaxBlocks /\ ~hp.lost
    /\ \E block \in Blocks :
       \E read \in {H!RfcDecode(hp.peer, block)}, own \in {H!Decode(hp.dec, block, Limits)} :
           hp' = [hp EXCEPT !.peer = IF read.error THEN @ ELSE read.peer, !.dec = IF read.error THEN @ ELSE own.decoder,
                            !.blocks = @ + 1, !.lost = read.error,
                            !.ok = IF read.error THEN own.status # "success"
                                   ELSE own.status = "success" /\ own.headers = read.headers]
    /\ UNCHANGED <<subject, input, steps, requestVars>>

Grow ==
    /\ subject \in DOMAIN Texts /\ Len(input) < Texts[subject].limit
    /\ \E x \in Texts[subject].alphabet : input' = Append(input, x)
    /\ UNCHANGED <<subject, steps, hp, requestVars>>

Vary ==
    /\ subject \in DOMAIN Described /\ steps < MaxVariations
    /\ \E field \in DOMAIN Variations[subject] : \E v \in Variations[subject][field] \ {input[field]} :
        input' = [input EXCEPT ![field] = v]
    /\ steps' = steps + 1 /\ UNCHANGED <<subject, hp, requestVars>>

MCNext == Handle \/ Settings \/ SendBlock \/ ReceiveBlock \/ Grow \/ Vary

MCSpec == MCInit /\ [][MCNext]_mcVars

-----------------------------------------------------------------------------
(***************************************************************************)
(* Header compression stays in step: whatever sizes the peer announces     *)
(* between the blocks, an RFC 7541 receiver and our own decoder read every *)
(* block as it was meant, the encoder's table is a beginning of theirs,    *)
(* and a block of the peer is accepted exactly when RFC 7541 allows it     *)
(* (Hpack.cpp: the dynamic table, Encode, Decode, UpdateMaxTableSize).     *)
(***************************************************************************)
HpackInStep ==
    /\ hp.ok
    /\ H!Contents(hp.dec.table) = hp.peer.list
    /\ IsPrefix(H!Contents(hp.enc.table), hp.peer.list)

(***************************************************************************)
(* Codings are read back as they were written and nothing else is taken    *)
(* for them: HPACK integers and Huffman strings (Hpack.cpp), compress,     *)
(* gzip and deflate (HttpCoding.cpp), PEM and the lengths of DER           *)
(* (CertificateValidator.cpp), Content-Range (HttpResponse.cpp).           *)
(***************************************************************************)
CodingsExact ==
    CASE subject = "bits" -> C!CompressRight(input) /\ C!GzipRight(input) /\ C!ZlibRight(input) /\ H!HuffmanRight(input)
      [] subject = "letters" -> H!StringRight(input)
      [] subject = "groups" -> H!IntegerRight(input)
      [] subject = "octets" -> X!PemRight(input)
      [] subject = "lengths" -> X!LengthRight(input)
      [] subject = "ranges" -> M!RangeRight(input)
      [] OTHER -> TRUE

(***************************************************************************)
(* A response is understood as the server meant it: its body decoded whole *)
(* through any chain of codings and buffers, its end found where it is,    *)
(* and no ambiguous framing accepted; wherever the network cuts it, the    *)
(* parser asks for more or has come to its verdict (HttpParser.cpp,        *)
(* HttpTransferCoding.cpp, HttpCoding.cpp).  A request that is built has   *)
(* one framing, and a server that follows it reads the body and the        *)
(* trailers the caller gave (HttpRequest.cpp).                             *)
(***************************************************************************)
MessagesExact ==
    /\ subject = "response" => M!ResponseRight(input)
    /\ subject = "message" => M!RequestRight(input)

(***************************************************************************)
(* Host names and addresses mean to the client what their definitions say: *)
(* UTF-8 and Punycode (RFC 3492), IPv6 literals (RFC 4291), wildcards of   *)
(* certificates (RFC 6125) (UrlParser.cpp, CertificateValidator.cpp).      *)
(* With two exceptions of the code's: a label with U+10FFFF is refused     *)
(* (PunycodeEncodeLabel, UrlParser.cpp:282), and so is an address whose    *)
(* end is written as an IPv4 address (ParseIpv6Literal).                   *)
(***************************************************************************)
MCHosts == UNION {[1 .. n -> {46, 65, 98}] : n \in 0 .. 4}
NamesAgree ==
    CASE subject = "points" -> U!LabelRight(input)
      [] subject = "ipv6" -> U!Ipv6Right(input)
      [] subject = "patterns" -> \A host \in MCHosts : U!MatchRight(input, host)
      [] OTHER -> TRUE

(***************************************************************************)
(* A redirect leads where RFC 3986 says: a relative Location is resolved   *)
(* against the request's URL, and the origin written for it is parsed back *)
(* to the same host and port (BuildRedirectUrl of HttpEngine.cpp,          *)
(* ParseUrlIntoRequest of UrlParser.cpp).                                  *)
(***************************************************************************)
Base(path) == U!TextHttp \o U!SchemeMark \o <<104>> \o path
MCBases == {Base(<<>>), Base(<<47, 97, 47, 98>>), Base(<<47, 97, 47, 98, 63, 99, 35, 100>>), Base(<<47, 97, 47, 46, 46>>)}
UrlsResolve ==
    CASE subject = "locations" -> \A base \in MCBases : U!ReferenceRight(base, input)
      [] subject = "authorities" -> U!AuthorityRight(input)
      [] OTHER -> TRUE

(***************************************************************************)
(* A chain is accepted only if what the server sent contains a path that   *)
(* is good by RFC 5280, in whatever order it was sent; when there is       *)
(* nothing to choose, every good path is accepted                          *)
(* (CertificateValidator::ValidateChain; README_en.md:44).                 *)
(***************************************************************************)
ChainSound ==
    subject = "chain" =>
        X!Right([i \in 1 .. Len(input.order) |-> X!Certificate(input.order[i], input.leaf, input.issuing, input.root)],
                input.store)
=============================================================================
