--------------------------- MODULE ConnectionPool ---------------------------
(***************************************************************************)
(* The session's connection pool (engine/ConnectionPool.cpp): a fixed      *)
(* array of entries guarded by one FAST_MUTEX.  Every operation of the     *)
(* pool is one critical section, so every operation is one action here;    *)
(* closing the resources an operation detached happens after the unlock    *)
(* but touches nothing another thread may legally reach, and is part of    *)
(* the same action.                                                        *)
(*                                                                         *)
(* The operators below are functions of the entry table, so that           *)
(* HttpSend.tla, which runs the request threads, can compose them.         *)
(***************************************************************************)
EXTENDS Naturals, FiniteSets, FiniteSetsExt

CONSTANTS
    Capacity,               \* KhConnectionPool::Capacity
    MaxConnectionsPerHost,  \* KhConnectionPool::MaxConnectionsPerHost
    IdleTimeout,            \* IdleTimeoutMilliseconds, in clock ticks; 0 disables
    Hosts,                  \* scheme, host, port and address family
    Identities,             \* TLS configuration, certificates, SNI and proxy
    Keys                    \* the KhConnectionPoolKey values requests use

\* SupportedHttpAlpn, and "" while no protocol is known.
Alpns == {"", "h2", "http/1.1"}

\* KhConnectionPoolKey.  quota is what the per-host quota compares (https tells
\* its scheme), ident the rest of what reuse compares, alpn apart.
KeyType == [quota : Hosts \cup {""}, ident : Identities \cup {""},
            https : BOOLEAN, alpn : Alpns, auto : BOOLEAN]

ASSUME PoolAssumption ==    \* KhConnectionPoolInitialize rejects the rest
    /\ Capacity \in Nat \ {0}
    /\ MaxConnectionsPerHost \in 1 .. Capacity
    /\ IdleTimeout \in Nat
    /\ Keys \subseteq KeyType

Slots == 1 .. Capacity

NoKey == [quota |-> "", ident |-> "", https |-> FALSE, alpn |-> "", auto |-> FALSE]

KeysEqualExceptAlpn(l, r) ==
    /\ l.quota = r.quota
    /\ l.ident = r.ident
    /\ l.auto = r.auto

KeysEqual(l, r) == KeysEqualExceptAlpn(l, r) /\ l.alpn = r.alpn

KeysEqualByHost(l, r) == l.quota = r.quota  \* mutant: TLS identity ignored

KeysEqualForAutoAlpnAcquire(l, r) ==
    IF \/ l.alpn # ""
       \/ r.alpn = ""
       \/ ~l.auto
       \/ ~r.auto
    THEN KeysEqual(l, r)
    ELSE KeysEqualExceptAlpn(l, r)

HostQuotaKeysEqual(l, r) == l.quota = r.quota

(***************************************************************************)
(* Entries.  Socket is "none" (no socket and no transport objects),        *)
(* "connected", or "lost" (the WskSocket closed itself after a timed-out   *)
(* or cancelled operation, so IsConnected() is false).  Tunnel is          *)
(* ProxyTunnelEstablished.  Tls is "none", "established", or "failed" (an  *)
(* object whose IsEstablished() is false); Alpn is what its handshake      *)
(* negotiated.  Http2 says whether the Http2Connection exists.             *)
(***************************************************************************)
ZeroEntry ==
    [InUse |-> FALSE, Connected |-> FALSE, Id |-> 0, LastUsedTime |-> 0,
     Leases |-> 0, MaxLeases |-> 0, CloseWhenIdle |-> FALSE, Key |-> NoKey,
     Socket |-> "none", Tunnel |-> FALSE, Tls |-> "none", Alpn |-> "",
     Http2 |-> FALSE]

EntryType ==
    [InUse : BOOLEAN, Connected : BOOLEAN, Id : Nat, LastUsedTime : Nat,
     Leases : Nat, MaxLeases : Nat, CloseWhenIdle : BOOLEAN, Key : KeyType,
     Socket : {"none", "connected", "lost"}, Tunnel : BOOLEAN,
     Tls : {"none", "established", "failed"}, Alpn : Alpns, Http2 : BOOLEAN]

HasResources(e) == e.Socket # "none" \/ e.Tls # "none" \/ e.Http2

HasConnectionState(e) ==
    e.InUse \/ e.Connected \/ e.Leases # 0 \/ e.CloseWhenIdle \/ HasResources(e)

\* Mutant: CloseWhenIdle ignored.
CanShareDoomed(e, key) ==
    /\ e.Connected /\ e.Http2
    /\ e.Leases # 0 /\ e.Leases < e.MaxLeases
    /\ KeysEqualForAutoAlpnAcquire(key, e.Key)

CanShareHttp2Connection(e, key) ==
    /\ e.Connected
    /\ ~e.CloseWhenIdle
    /\ e.Leases # 0
    /\ e.MaxLeases # 0
    /\ e.Leases < e.MaxLeases
    /\ KeysEqualForAutoAlpnAcquire(key, e.Key)
    /\ e.Http2
    /\ e.Socket # "none"

\* Mutant: an entry is kept for one tick more.
IsIdleExpiredLate(e, now) ==
    IdleTimeout # 0 /\ e.LastUsedTime # 0 /\ now > e.LastUsedTime + IdleTimeout

IsIdleExpired(e, now) ==
    /\ IdleTimeout # 0
    /\ e.LastUsedTime # 0
    /\ now >= e.LastUsedTime
    /\ now - e.LastUsedTime >= IdleTimeout

\* The entry is the pool's to take back: nobody uses it.
Idle(e) == e.Connected /\ ~e.InUse /\ e.Leases = 0

CountedForQuota(E, key) ==
    {i \in Slots : /\ E[i].Connected \/ E[i].InUse
                   /\ HostQuotaKeysEqual(E[i].Key, key)}

CountConnectionsForHostQuota(E, key) == Cardinality(CountedForQuota(E, key))

QuotaFullOffByOne(E, key) ==                \* mutant
    CountConnectionsForHostQuota(E, key) > MaxConnectionsPerHost

QuotaFull(E, key) == CountConnectionsForHostQuota(E, key) >= MaxConnectionsPerHost

\* "if (ActiveCount != 0) --ActiveCount"
Decrement(n) == IF n = 0 THEN 0 ELSE n - 1

(***************************************************************************)
(* A pool value is the entry table with its ActiveCount; `got' says that   *)
(* the operation has already detached an entry with resources (there is    *)
(* room for one set of detached resources only).                           *)
(***************************************************************************)
Detach(p, i) ==
    [E   |-> [p.E EXCEPT ![i] = ZeroEntry],
     A   |-> IF p.E[i].Connected THEN Decrement(p.A) ELSE p.A,
     got |-> p.got \/ HasResources(p.E[i])]

Pool(E, A) == [E |-> E, A |-> A, got |-> FALSE]

Put(p, i, e) == [p EXCEPT !.E = [p.E EXCEPT ![i] = e]]

-----------------------------------------------------------------------------
(* KhConnectionPoolAcquire.                                                *)

\* First loop: the entries a ReuseOrCreate request may ride on; the code
\* stops at the first one.
Reusable(E, key) ==
    {i \in Slots :
        \/ E[i].InUse /\ CanShareHttp2Connection(E[i], key)
        \/ Idle(E[i]) /\ KeysEqualForAutoAlpnAcquire(key, E[i].Key)}

FirstReusable(E, key, policy) ==
    IF policy = "ReuseOrCreate" /\ Reusable(E, key) # {}
    THEN Min(Reusable(E, key))
    ELSE 0

\* Quota: over the limit, one idle connection of the same host gives way,
\* unless an expired one already did.
DetachIdleForHostQuota(p, key) ==
    LET idle == {i \in Slots : /\ Idle(p.E[i])
                               /\ HostQuotaKeysEqual(p.E[i].Key, key)}
    IN  IF \/ ~QuotaFull(p.E, key)
           \/ p.got
           \/ idle = {}
        THEN p
        ELSE Detach(p, Min(idle))

UnusedSlots(p) ==
    {i \in Slots : /\ ~p.E[i].Connected
                   /\ ~p.E[i].InUse
                   /\ p.E[i].Leases = 0
                   /\ ~(HasConnectionState(p.E[i]) /\ p.got)}

EvictableSlots(p, policy) ==
    {i \in Slots : /\ policy # "NoPool"
                   /\ ~p.E[i].InUse
                   /\ p.E[i].Leases = 0
                   /\ ~(HasConnectionState(p.E[i]) /\ p.got)}

FreshSlot(p, policy) ==
    CASE UnusedSlots(p) # {}            -> Min(UnusedSlots(p))
      [] /\ UnusedSlots(p) = {}
         /\ EvictableSlots(p, policy) # {} -> Min(EvictableSlots(p, policy))
      [] OTHER                          -> 0

Occupied(e) == [e EXCEPT !.InUse = TRUE, !.Connected = TRUE]

Stamped(e, key, id) == [e EXCEPT !.Key = key, !.Id = id, !.LastUsedTime = 0]

FreshEntry(e, key, id) ==
    Stamped(Occupied(IF HasConnectionState(e) THEN ZeroEntry ELSE e), key, id)

\* The pool with slot i handed out as a new connection.
TakeFresh(p, i, key, id) ==
    [Put(p, i, FreshEntry(p.E[i], key, id)) EXCEPT
        !.A = IF p.E[i].Connected THEN p.A ELSE p.A + 1]

\* KhConnectionPoolAcquire: the pool afterwards, the slot handed out (0 is
\* STATUS_INSUFFICIENT_RESOURCES) and whether it carries a live connection.
AcquireResult(E, A, key, policy, now, id) ==
    LET i  == FirstReusable(E, key, policy)
        p0 == Pool(E, A)
        expired == i # 0 /\ Idle(E[i]) /\ IsIdleExpired(E[i], now)
        p1 == DetachIdleForHostQuota(IF expired THEN Detach(p0, i) ELSE p0, key)
        j  == IF QuotaFull(p1.E, key) THEN 0 ELSE FreshSlot(p1, policy)
    IN  CASE i # 0 /\ E[i].InUse ->
               [pool |-> Put(p0, i, [E[i] EXCEPT !.Leases = @ + 1]),
                slot |-> i, reused |-> TRUE]
          [] i # 0 /\ ~E[i].InUse /\ ~expired ->
               [pool |-> Put(p0, i, [E[i] EXCEPT !.InUse = TRUE]),
                slot |-> i, reused |-> TRUE]
          [] OTHER ->
               [pool |-> IF j = 0 THEN p1 ELSE TakeFresh(p1, j, key, id),
                slot |-> j, reused |-> FALSE]

-----------------------------------------------------------------------------
(* KhConnectionPoolRelease, KhConnectionPoolPromoteHttp2StreamLease,       *)
(* KhConnectionPoolClose and KhConnectionPoolShutdown.                     *)

ReturnStillInUse(p, i, now) ==              \* mutant
    Put(p, i, [p.E[i] EXCEPT !.LastUsedTime = now])

ReturnIdle(p, i, now) ==
    Put(p, i, [p.E[i] EXCEPT !.LastUsedTime = now, !.InUse = FALSE])

DropLease(p, i) == Put(p, i, [p.E[i] EXCEPT !.Leases = @ - 1])

\* Mutant: a release that cannot be reused closes under the other leases.
ReleaseIgnoringLeases(E, A, i, reusable, now) ==
    IF reusable THEN ReturnIdle(Pool(E, A), i, now) ELSE Detach(Pool(E, A), i)

ReleaseResult(E, A, i, reusable, now) ==
    LET p == Pool(E, A)
        close == ~reusable \/ E[i].CloseWhenIdle
    IN  CASE E[i].Leases = 0 ->
               IF reusable THEN ReturnIdle(p, i, now) ELSE Detach(p, i)
          [] E[i].Leases = 1 ->
               IF close THEN Detach(p, i) ELSE ReturnIdle(DropLease(p, i), i, now)
          [] OTHER ->
               Put(p, i, [E[i] EXCEPT !.Leases = @ - 1, !.CloseWhenIdle = close])

CanPromote(e, limit) ==
    /\ limit # 0
    /\ e.Connected
    /\ e.InUse
    /\ ~e.CloseWhenIdle
    /\ e.Leases = 0
    /\ e.Http2
    /\ e.Socket # "none"

PromoteResult(E, i, limit) ==
    [E EXCEPT ![i] = [E[i] EXCEPT !.MaxLeases = limit, !.Leases = 1]]

CloseResult(E, A, i) == Detach(Pool(E, A), i)

ShutdownEntries == [i \in Slots |-> ZeroEntry]
=============================================================================
