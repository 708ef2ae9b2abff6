------------------------------ MODULE HttpSend ------------------------------
(***************************************************************************)
(* Request threads over the pool (engine/HttpEngine.cpp).  Each request is *)
(* one pass through SendSingleHttpRequest: acquire a pooled connection,    *)
(* bring its socket, proxy tunnel and TLS layer up (SendViaTransport),     *)
(* exchange one HTTP/1.1 or HTTP/2 message, and give the connection back,  *)
(* after at most one replay on a fresh connection.                         *)
(*                                                                         *)
(* Several requests run at once and meet in the pool.  A pool operation is *)
(* one critical section; everything between two of them runs without the   *)
(* pool lock, on the entry the request holds, and is split here at every   *)
(* network wait.                                                           *)
(***************************************************************************)
EXTENDS ConnectionPool

CONSTANTS
    Requests,       \* the request threads
    Kinds,          \* what a request may be: [key, policy, safe]
    ProxyEnabled,   \* session->Options.Proxy.Enabled
    StreamLimits,   \* what the peers advertise as MAX_CONCURRENT_STREAMS
    Faults,         \* link faults that may hit: "timeout", "tls"
    MaxTime         \* bound of the clock

ASSUME SendAssumption ==
    /\ IsFiniteSet(Requests)
    /\ \A k \in Kinds : /\ k.key \in Keys
                        /\ k.policy \in {"ReuseOrCreate", "ForceNew", "NoPool"}
                        /\ k.safe \in BOOLEAN
    /\ ProxyEnabled \in BOOLEAN
    /\ StreamLimits \subseteq Nat
    /\ Faults \subseteq {"timeout", "tls"}
    /\ MaxTime \in Nat

VARIABLES
    Entries, ActiveCount, NextConnectionId,   \* KhConnectionPool
    now,        \* KeQueryInterruptTime
    shut,       \* KhConnectionPoolShutdown has run
    pc,         \* where each request is
    kind,       \* the request
    slot,       \* pooledConnection, as an index; 0 is nullptr
    conn,       \* history: the Id the slot had when it was acquired
    reused,     \* reusedConnection
    original,   \* originalStatus while TLS 1.2 is being confirmed, or "none"
    status,     \* "none", "ok", "stale" (IsFreshConnectionRetryStatus) or "error"
    reusable,   \* connectionReusable
    sends       \* history: how often the request went to a transport

pool == <<Entries, ActiveCount, NextConnectionId, shut>>
request == <<pc, kind, slot, conn, reused, original, status, reusable, sends>>
vars == <<pool, now, request>>

Statuses == {"none", "ok", "stale", "error"}
Failures == {"stale", "error"}
Using == {"socket", "dial", "tls", "tunnel", "handshake", "send", "promote",
          "receive", "finish"}

Entry(r) == Entries[slot[r]]
Key(r) == kind[r].key

Init ==
    /\ Entries = [i \in Slots |-> ZeroEntry]
    /\ ActiveCount = 0
    /\ NextConnectionId = 1
    /\ shut = FALSE
    /\ now = 1
    /\ pc = [r \in Requests |-> "idle"]
    /\ kind \in [Requests -> Kinds]
    /\ slot = [r \in Requests |-> 0]
    /\ conn = [r \in Requests |-> 0]
    /\ reused = [r \in Requests |-> FALSE]
    /\ original = [r \in Requests |-> "none"]
    /\ status = [r \in Requests |-> "none"]
    /\ reusable = [r \in Requests |-> FALSE]
    /\ sends = [r \in Requests |-> 0]

Goto(r, p) == pc' = [pc EXCEPT ![r] = p]

\* SendViaTransport returns failure s to SendSingleHttpRequest.
Fail(r, s) == Goto(r, "finish") /\ status' = [status EXCEPT ![r] = s]

SetEntry(r, e) == Entries' = [Entries EXCEPT ![slot[r]] = e]

-----------------------------------------------------------------------------
(* Acquiring.  res is what KhConnectionPoolAcquire did.                    *)

Install(res) ==
    /\ Entries' = res.pool.E
    /\ ActiveCount' = res.pool.A
    /\ NextConnectionId' = NextConnectionId
                           + IF res.slot # 0 /\ ~res.reused THEN 1 ELSE 0

Take(r, res) ==
    /\ slot' = [slot EXCEPT ![r] = res.slot]
    /\ conn' = [conn EXCEPT ![r] = IF res.slot = 0 THEN 0
                                   ELSE res.pool.E[res.slot].Id]
    /\ reused' = [reused EXCEPT ![r] = res.reused]

\* BuildPoolKey and the first KhConnectionPoolAcquire of SendSingleHttpRequest.
Acquire(r) ==
    /\ pc[r] = "idle"
    /\ ~shut
    /\ LET res == AcquireResult(Entries, ActiveCount, Key(r), kind[r].policy,
                                now, NextConnectionId)
       IN  /\ Install(res)
           /\ Take(r, res)
           /\ IF res.slot = 0
              THEN /\ Goto(r, "done")
                   /\ status' = [status EXCEPT ![r] = "error"]
              ELSE Goto(r, "socket") /\ UNCHANGED status
    /\ UNCHANGED <<shut, now, kind, original, reusable, sends>>

-----------------------------------------------------------------------------
(* Bringing the connection up.                                             *)

\* EnsureSocketConnected releases HTTP/2, TLS, transport and socket objects.
TornDown(e) ==
    [e EXCEPT !.Socket = "none", !.Tunnel = FALSE, !.Tls = "none",
              !.Alpn = "", !.Http2 = FALSE]

\* ReleaseTlsLayer: back to the raw transport.
WithoutTls(e) == [e EXCEPT !.Tls = "none", !.Alpn = "", !.Http2 = FALSE]

\* ClosePooledTransportResources
Closed(e) == [TornDown(e) EXCEPT !.LastUsedTime = 0]

\* ConnectSocketToAddress, EstablishProxyTunnel, ConnectTlsOnExistingSocket and
\* SendHttp2ViaTransport each add one layer.
Dialled(e) == [e EXCEPT !.Socket = "connected", !.Tunnel = FALSE]
Tunnelled(e) == [e EXCEPT !.Tunnel = TRUE]
Secured(e, alpn) == [e EXCEPT !.Tls = "established", !.Alpn = alpn]
WithHttp2(e, b) == [e EXCEPT !.Http2 = b]

\* A timed-out or cancelled operation closes the socket; a TLS error ends TLS.
Lost(e) == [e EXCEPT !.Socket = "lost"]
TlsFailed(e) == [e EXCEPT !.Tls = "failed"]

EnsureSocketConnected(r) ==
    /\ pc[r] = "socket"
    /\ IF Entry(r).Socket = "connected"
       THEN Goto(r, "tls") /\ UNCHANGED Entries
       ELSE Goto(r, "dial") /\ SetEntry(r, TornDown(Entry(r)))
    /\ UNCHANGED <<ActiveCount, NextConnectionId, shut, now, kind, slot, conn,
                   reused, original, status, reusable, sends>>

\* The original failure hides the ones met while confirming TLS 1.2.
Reported(r, s) == IF original[r] = "none" THEN s ELSE original[r]

\* ResolveAll and ConnectSocketToAddress for the first address that answers.
ConnectSocketToAddress(r) ==
    /\ pc[r] = "dial"
    /\ \/ /\ Goto(r, "tls")
          /\ SetEntry(r, Dialled(Entry(r)))
          /\ UNCHANGED status
       \/ /\ \E s \in Failures : Fail(r, Reported(r, s))
          /\ UNCHANGED Entries
    /\ UNCHANGED <<ActiveCount, NextConnectionId, shut, now, kind, slot, conn,
                   reused, original, reusable, sends>>

\* Up to EstablishProxyTunnel; SendViaTransport skips it for plain http.
EnsureTlsConnected(r) ==
    /\ pc[r] = "tls"
    /\ IF ~Key(r).https \/ Entry(r).Tls = "established"
       THEN Goto(r, "send") /\ UNCHANGED Entries
       ELSE Goto(r, "tunnel") /\ SetEntry(r, WithoutTls(Entry(r)))
    /\ UNCHANGED <<ActiveCount, NextConnectionId, shut, now, kind, slot, conn,
                   reused, original, status, reusable, sends>>

EstablishProxyTunnel(r) ==
    /\ pc[r] = "tunnel"
    /\ \/ /\ ~ProxyEnabled \/ Entry(r).Tunnel
          /\ Goto(r, "handshake")
          /\ UNCHANGED <<Entries, status>>
       \/ /\ ProxyEnabled /\ ~Entry(r).Tunnel
          /\ Goto(r, "handshake")
          /\ SetEntry(r, Tunnelled(Entry(r)))
          /\ UNCHANGED status
       \/ /\ ProxyEnabled /\ ~Entry(r).Tunnel
          /\ \E s \in Failures : Fail(r, Reported(r, s))
          /\ UNCHANGED Entries
    /\ UNCHANGED <<ActiveCount, NextConnectionId, shut, now, kind, slot, conn,
                   reused, original, reusable, sends>>

\* What the peer may select out of what the request offers.
Negotiable(key) ==
    IF key.auto THEN {"h2", "http/1.1", ""} ELSE {key.alpn, ""}

\* The TLS handshake; a failure IsHttpTls12ConfirmationCandidate rejects ends
\* the attempt.
ConnectTlsOnExistingSocket(r) ==
    /\ pc[r] = "handshake"
    /\ \/ /\ \E a \in Negotiable(Key(r)) :
                SetEntry(r, Secured(Entry(r), a))
          /\ Goto(r, "send")
          /\ original' = [original EXCEPT ![r] = "none"]
          /\ UNCHANGED status
       \/ /\ original[r] = "none"
          /\ \E s \in Failures : Fail(r, s)
          /\ UNCHANGED <<Entries, original>>
    /\ UNCHANGED <<ActiveCount, NextConnectionId, shut, now, kind, slot, conn,
                   reused, reusable, sends>>

\* Mutant: the confirmation attempt may be confirmed in its turn.
ConfirmTls12Again(r) ==
    /\ pc[r] = "handshake"
    /\ SetEntry(r, Closed(Entry(r)))
    /\ Goto(r, "socket")
    /\ UNCHANGED <<ActiveCount, NextConnectionId, shut, now, kind, slot, conn,
                   reused, original, status, reusable, sends>>

\* The tail of EnsureTlsConnected: a failed handshake that may be a version
\* mismatch is tried once more on a new socket with TLS 1.2 as the maximum;
\* when that fails too, the original failure is reported.
ConfirmTls12(r) ==
    /\ pc[r] = "handshake"
    /\ SetEntry(r, Closed(Entry(r)))
    /\ \/ /\ original[r] = "none"
          /\ \E s \in Failures : original' = [original EXCEPT ![r] = s]
          /\ Goto(r, "socket")
          /\ UNCHANGED status
       \/ /\ original[r] # "none"
          /\ Fail(r, original[r])
          /\ UNCHANGED original
    /\ UNCHANGED <<ActiveCount, NextConnectionId, shut, now, kind, slot, conn,
                   reused, reusable, sends>>

-----------------------------------------------------------------------------
(* Exchanging.                                                             *)

\* SendViaTransport copies the negotiated protocol into an automatic key.
WithNegotiatedAlpn(e, key) ==
    IF key.auto /\ e.Tls = "established" /\ e.Alpn # ""
    THEN [e EXCEPT !.Key.alpn = e.Alpn]
    ELSE e

LinkUp(e, key) == /\ e.Socket = "connected"
                  /\ key.https => e.Tls = "established"

NotNegotiated(e, key) == key.alpn = "h2" /\ e.Alpn # "h2"

\* The HTTP/1.1 send, or SendHttp2ViaTransport up to BeginRequest.
Send(r) ==
    /\ pc[r] = "send"
    /\ LET e == WithNegotiatedAlpn(Entry(r), Key(r))
           h2 == e.Alpn = "h2"
       IN  \/ /\ NotNegotiated(e, Key(r))
              /\ Fail(r, "error")
              /\ SetEntry(r, e)
              /\ UNCHANGED sends
           \/ /\ ~NotNegotiated(e, Key(r))
              /\ SetEntry(r, WithHttp2(e, e.Http2 \/ h2))
              /\ sends' = [sends EXCEPT ![r] = @ + 1]
              /\ \/ /\ LinkUp(e, Key(r))
                    /\ Goto(r, IF h2 /\ e.Leases = 0   \* ~h2LeaseAlreadyHeld
                              THEN "promote" ELSE "receive")
                    /\ UNCHANGED status
                 \/ \E s \in Failures : Fail(r, s)
           \/ /\ ~NotNegotiated(e, Key(r))
              /\ h2 /\ ~e.Http2       \* Http2Connection::Initialize fails
              /\ SetEntry(r, e)
              /\ \E s \in Failures : Fail(r, s)
              /\ UNCHANGED sends
    /\ UNCHANGED <<ActiveCount, NextConnectionId, shut, now, kind, slot, conn,
                   reused, original, reusable>>

\* KhConnectionPoolPromoteHttp2StreamLease with the limit the peer announced.
Promote(r) ==
    /\ pc[r] = "promote"
    /\ \E limit \in StreamLimits :
          IF CanPromote(Entry(r), limit)
          THEN /\ Entries' = PromoteResult(Entries, slot[r], limit)
               /\ Goto(r, "receive")
               /\ UNCHANGED status
          ELSE Fail(r, "error") /\ UNCHANGED Entries
    /\ UNCHANGED <<ActiveCount, NextConnectionId, shut, now, kind, slot, conn,
                   reused, original, reusable, sends>>

\* ReadHttpResponseFromSocket or Http2Connection::ReceiveResponse.
Receive(r) ==
    /\ pc[r] = "receive"
    /\ \/ /\ Goto(r, "finish")
          /\ status' = [status EXCEPT ![r] = "ok"]
          /\ \E b \in BOOLEAN : reusable' = [reusable EXCEPT ![r] = b]
          /\ UNCHANGED Entries
       \/ /\ \E s \in Failures : Fail(r, s)
          /\ UNCHANGED <<Entries, reusable>>
       \/ /\ "timeout" \in Faults     \* CloseAfterCancelledOperation
          /\ \E s \in Failures : Fail(r, s)
          /\ SetEntry(r, Lost(Entry(r)))
          /\ UNCHANGED reusable
       \/ /\ "tls" \in Faults         \* the TlsConnection leaves Established
          /\ Entry(r).Tls = "established"
          /\ \E s \in Failures : Fail(r, s)
          /\ SetEntry(r, TlsFailed(Entry(r)))
          /\ UNCHANGED reusable
    /\ UNCHANGED <<ActiveCount, NextConnectionId, shut, now, kind, slot, conn,
                   reused, original, sends>>

-----------------------------------------------------------------------------
(* Giving the connection back.                                             *)

\* Mutant: the method is not asked about.
ShouldRetryAnyMethod(r) ==
    status[r] = "stale" /\ reused[r] /\ kind[r].policy = "ReuseOrCreate"

ShouldRetryWithFreshConnection(r) ==
    /\ status[r] = "stale"
    /\ reused[r]
    /\ kind[r].policy = "ReuseOrCreate"
    /\ kind[r].safe

\* KhConnectionPoolClose before the retry.
CloseForRetry(r) ==
    /\ pc[r] = "finish"
    /\ ShouldRetryWithFreshConnection(r)
    /\ LET p == CloseResult(Entries, ActiveCount, slot[r])
       IN  Entries' = p.E /\ ActiveCount' = p.A
    /\ slot' = [slot EXCEPT ![r] = 0]
    /\ Goto(r, "reacquire")
    /\ UNCHANGED <<NextConnectionId, shut, now, kind, conn, reused, original, status, reusable, sends>>

\* The ForceNew acquire: when it fails the first failure is reported; when
\* the request cannot be rebuilt the fresh connection is closed.
RetryWithFreshConnection(r) ==
    /\ pc[r] = "reacquire"
    /\ LET res == AcquireResult(Entries, ActiveCount, Key(r), "ForceNew",
                                now, NextConnectionId)
       IN  /\ Install(res)
           /\ Take(r, res)
           /\ \/ /\ res.slot = 0
                 /\ Goto(r, "done")
                 /\ UNCHANGED status
              \/ /\ res.slot # 0
                 /\ Goto(r, "socket")
                 /\ status' = [status EXCEPT ![r] = "none"]
              \/ /\ res.slot # 0
                 /\ Fail(r, "error")
    /\ original' = [original EXCEPT ![r] = "none"]
    /\ UNCHANGED <<shut, now, kind, reusable, sends>>

CanReturnToPool(r) ==
    /\ status[r] = "ok"
    /\ reusable[r]
    /\ kind[r].policy = "ReuseOrCreate"

Release(r) ==
    /\ pc[r] = "finish"
    /\ ~ShouldRetryWithFreshConnection(r)
    /\ LET p == ReleaseResult(Entries, ActiveCount, slot[r], CanReturnToPool(r), now)
       IN  Entries' = p.E /\ ActiveCount' = p.A
    /\ slot' = [slot EXCEPT ![r] = 0]
    /\ Goto(r, "done")
    /\ UNCHANGED <<NextConnectionId, shut, now, kind, conn, reused, original, status, reusable, sends>>

-----------------------------------------------------------------------------
Tick ==
    /\ now < MaxTime
    /\ ~shut
    /\ now' = now + 1
    /\ UNCHANGED <<pool, request>>

\* KhSessionClose shuts the pool down once no operation uses the session.
Shutdown ==
    /\ ~shut
    /\ \A r \in Requests : pc[r] \in {"idle", "done"}
    /\ shut' = TRUE
    /\ Entries' = ShutdownEntries
    /\ ActiveCount' = 0
    /\ NextConnectionId' = 0
    /\ UNCHANGED <<now, request>>

\* The steps of a request that is under way.
Progress(r) ==
    \/ EnsureSocketConnected(r)
    \/ ConnectSocketToAddress(r)
    \/ EnsureTlsConnected(r)
    \/ EstablishProxyTunnel(r)
    \/ ConnectTlsOnExistingSocket(r)
    \/ ConfirmTls12(r)
    \/ Send(r)
    \/ Promote(r)
    \/ Receive(r)
    \/ CloseForRetry(r)
    \/ RetryWithFreshConnection(r)
    \/ Release(r)

Next ==
    \/ \E r \in Requests : Acquire(r) \/ Progress(r)
    \/ Tick
    \/ Shutdown
    \/ shut /\ UNCHANGED vars      \* the session is gone

Spec == Init /\ [][Next]_vars /\ \A r \in Requests : WF_vars(Progress(r))

-----------------------------------------------------------------------------
(* Properties.                                                             *)

\* Type invariant of the pool and of the request threads.
TypeOK ==
    /\ Entries \in [Slots -> EntryType]
    /\ ActiveCount \in Nat
    /\ NextConnectionId \in Nat
    /\ shut \in BOOLEAN
    /\ now \in Nat
    /\ pc \in [Requests -> Using \cup {"idle", "reacquire", "done"}]
    /\ kind \in [Requests -> Kinds]
    /\ slot \in [Requests -> {0} \cup Slots]
    /\ \A r \in Requests : slot[r] = 0 <=> pc[r] \notin Using
    /\ conn \in [Requests -> Nat]
    /\ reused \in [Requests -> BOOLEAN]
    /\ original \in [Requests -> {"none", "stale", "error"}]
    /\ status \in [Requests -> Statuses]
    /\ reusable \in [Requests -> BOOLEAN]
    /\ sends \in [Requests -> Nat]

Holders(i) == {r \in Requests : slot[r] = i}

\* KhConnectionPool::ActiveCount is the number of connected entries, although
\* every detach decrements it by hand and eviction hands a slot on without
\* touching it.
ActiveCountExact ==
    ActiveCount = Cardinality({i \in Slots : Entries[i].Connected})

\* MaxConnectionsPerHost is never exceeded for any host, whatever mixture of
\* policies, evictions, expiries, closes and fresh-connection retries.
QuotaRespected ==
    \A k \in Keys :
        CountConnectionsForHostQuota(Entries, k) <= MaxConnectionsPerHost

\* A request that still has pooledConnection finds there the connection it
\* acquired: no Close, eviction or Release of another request has freed the
\* entry or handed it to somebody else in the meantime.
HoldersKeepConnection ==
    \A r \in Requests : slot[r] # 0 =>
        /\ Entry(r).Id = conn[r]
        /\ Entry(r).InUse
        /\ Entry(r).Connected

\* Stream leases count the requests on a connection exactly, within the limit
\* the peer announced; a connection without leases has a single user.
LeasesExact ==
    \A i \in Slots :
        LET n == Cardinality(Holders(i))
            e == Entries[i]
        IN  IF e.Leases = 0 THEN n <= 1 ELSE n = e.Leases /\ n <= e.MaxLeases

\* An entry is in use only while a request holds it: no failure path of
\* SendSingleHttpRequest leaks a slot of the pool.
NoSlotLeak == \A i \in Slots : Entries[i].InUse => Holders(i) # {}

\* Between sending and the end of the response, the transport objects a request
\* works with exist: nobody else tears the layers down under it.
LayersStayUp ==
    \A r \in Requests : pc[r] \in {"promote", "receive"} =>
        /\ Entry(r).Socket # "none"
        /\ Key(r).https => Entry(r).Tls # "none"
        /\ Entry(r).Alpn = "h2" => Entry(r).Http2

\* Requests that share an HTTP/2 connection do not take it from each other: each
\* keeps the connection it acquired, the leases count them exactly, and the layers
\* they work with stay up (as long as no request retries and no stream times out).
SharedConnectionSound == HoldersKeepConnection /\ LeasesExact /\ LayersStayUp

\* A request is only ever sent over a connection of its own pool identity
\* (server, TLS configuration, certificate policy, credential, proxy) and, if
\* it asks for a protocol, over that protocol; with a proxy, TLS towards the
\* origin only exists on a socket whose CONNECT tunnel has been established on
\* that very socket.
RightConnection ==
    /\ \A r \in Requests : pc[r] \in {"promote", "receive"} =>
        /\ KeysEqualExceptAlpn(Key(r), Entry(r).Key)
        /\ Key(r).alpn = "h2" => Entry(r).Alpn = "h2"
    /\ \A i \in Slots :
        /\ Entries[i].Tls = "established" /\ ProxyEnabled => Entries[i].Tunnel
        /\ Entries[i].Tunnel => Entries[i].Socket # "none"

\* Replay: a request reaches a transport at most twice, and at most once when
\* its method is not GET, HEAD or OPTIONS or its policy is not ReuseOrCreate.
ReplayAtMostOnce ==
    \A r \in Requests :
        sends[r] <= IF kind[r].safe /\ kind[r].policy = "ReuseOrCreate"
                    THEN 2 ELSE 1

\* A connection whose idle time has reached the timeout is never handed out
\* again by KhConnectionPoolAcquire: its entry gets a new connection instead.
NoExpiredReuse ==
    [][\A i \in Slots :
          /\ Entries[i].Connected /\ ~Entries[i].InUse /\ Entries'[i].InUse
          /\ IdleTimeout # 0 /\ now >= Entries[i].LastUsedTime + IdleTimeout
          => Entries'[i].Id # Entries[i].Id]_vars

\* Once a release has marked a shared connection CloseWhenIdle, no further
\* request joins it, and it never becomes idle again.
DoomedConnectionDrains ==
    [][\A i \in Slots :
          Entries[i].CloseWhenIdle /\ Entries'[i].Id = Entries[i].Id
              => /\ Entries'[i].Leases <= Entries[i].Leases
                 /\ Entries'[i].InUse]_vars

\* Every request that acquired a connection eventually gives it back: the
\* retry and the TLS 1.2 confirmation happen at most once each.
RequestsFinish == \A r \in Requests : (slot[r] # 0) ~> (pc[r] = "done")
=============================================================================
