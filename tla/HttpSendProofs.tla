--------------------------- MODULE HttpSendProofs ---------------------------
(***************************************************************************)
(* What the operations of the pool preserve, and then, for every pool,     *)
(* every set of requests and every interleaving, link fault and retry: the *)
(* types, the exactness of ActiveCount, the quota of connections per host, *)
(* who holds a connection and what it is used for.                         *)
(***************************************************************************)
EXTENDS HttpSend, FiniteSetTheorems, WellFoundedInduction, TLAPS

ConnectedSlots(E) == {i \in Slots : E[i].Connected}

\* The pool invariant, as a predicate on an entry table and its ActiveCount.
Consistent(E, A) ==
    /\ E \in [Slots -> EntryType]
    /\ A = Cardinality(ConnectedSlots(E))
    /\ \A i \in Slots : E[i].InUse => E[i].Connected
    /\ \A k \in Keys : CountConnectionsForHostQuota(E, k) <= MaxConnectionsPerHost

PoolType == [E : [Slots -> EntryType], A : Nat, got : BOOLEAN]

\* The array has finitely many entries, so what the pool counts is a number.
LEMMA SlotsFinite ==
    /\ IsFiniteSet(Slots)
    /\ \A S \in SUBSET Slots : IsFiniteSet(S) /\ Cardinality(S) \in Nat
<1>1. IsFiniteSet(Slots)
  BY PoolAssumption, FS_Interval DEF Slots
<1>2. ASSUME NEW S \in SUBSET Slots
      PROVE  IsFiniteSet(S) /\ Cardinality(S) \in Nat
  <2>1. IsFiniteSet(S)
    BY <1>1, FS_Subset
  <2>2. QED
    BY <2>1, FS_CardinalityType
<1>3. QED
  BY <1>1, <1>2

\* The first entry a loop of the pool stops at is one of its candidates.
LEMMA MinIsMember ==
    ASSUME NEW T \in SUBSET Slots, T # {}
    PROVE  Min(T) \in T
<1>1. T \subseteq Nat
  BY PoolAssumption DEF Slots
<1> DEFINE Less == {ss \in Nat \X Nat : ss[1] < ss[2]}
<1>2. IsWellFoundedOn(Less, Nat)
  BY NatLessThanWellFounded, Zenon DEF OpToRel
<1>3. PICK x \in T : \A y \in T : ~(<<y, x>> \in Less)
  <2> HIDE DEF Less
  <2> QED
    BY <1>1, <1>2, WFMin
<1>4. ASSUME NEW y \in T
      PROVE  x <= y
  <2>1. x \in Nat /\ y \in Nat
    BY <1>1
  <2>2. y < x => <<y, x>> \in Less
    BY <2>1
  <2>3. ~(y < x)
    BY <1>3, <2>2
  <2>4. QED
    BY <2>1, <2>3
<1>5. QED
  BY <1>4 DEF Min
-----------------------------------------------------------------------------
(* Rewriting one entry.                                                    *)

\* An entry whose Connected flag and quota identity do not change, and which is
\* not put in use without being connected, may be rewritten freely.
LEMMA RewriteEntry ==
    ASSUME NEW E, NEW A, Consistent(E, A),
           NEW i \in Slots, NEW e \in EntryType,
           e.Connected = E[i].Connected,
           e.InUse => e.Connected,
           e.Key.quota = E[i].Key.quota
    PROVE  Consistent([E EXCEPT ![i] = e], A)
<1> DEFINE F == [E EXCEPT ![i] = e]
<1>1. E \in [Slots -> EntryType] /\ F \in [Slots -> EntryType]
  BY DEF Consistent
<1>2. \A j \in Slots : /\ F[j].Connected = E[j].Connected
                       /\ F[j].InUse => F[j].Connected
                       /\ F[j].Key.quota = E[j].Key.quota
  BY <1>1 DEF Consistent
<1>3. ConnectedSlots(F) = ConnectedSlots(E)
  BY <1>2 DEF ConnectedSlots
<1>4. ASSUME NEW k \in Keys
      PROVE  CountConnectionsForHostQuota(F, k) <= MaxConnectionsPerHost
  <2>1. CountedForQuota(F, k) = CountedForQuota(E, k)
    BY <1>2 DEF CountedForQuota, HostQuotaKeysEqual, Consistent
  <2>2. QED
    BY <2>1 DEF CountConnectionsForHostQuota, Consistent
<1>5. QED
  BY <1>1, <1>2, <1>3, <1>4 DEF Consistent

\* RtlZeroMemory leaves an entry of the right type behind.
LEMMA ZeroEntryType == ZeroEntry \in EntryType
<1>1. NoKey \in KeyType
  BY DEF NoKey, KeyType, Alpns
<1>2. QED
  BY <1>1 DEF ZeroEntry, EntryType, Alpns

\* Detaching an entry with the decrement of ActiveCount keeps the pool
\* consistent, and frees one connection of the entry's host.
LEMMA DetachConsistent ==
    ASSUME NEW p \in PoolType, Consistent(p.E, p.A), NEW i \in Slots
    PROVE  /\ Detach(p, i) \in PoolType
           /\ Consistent(Detach(p, i).E, Detach(p, i).A)
<1> DEFINE E == p.E
           F == [p.E EXCEPT ![i] = ZeroEntry]
           B == IF p.E[i].Connected THEN Decrement(p.A) ELSE p.A
<1>1. /\ Detach(p, i).E = F
      /\ Detach(p, i).A = B
      /\ Detach(p, i).got \in BOOLEAN
      /\ Detach(p, i) = [E |-> F, A |-> B, got |-> Detach(p, i).got]
  BY ZeroEntryType DEF Detach, PoolType, HasResources, EntryType
<1>2. E \in [Slots -> EntryType] /\ F \in [Slots -> EntryType]
  BY ZeroEntryType DEF PoolType
<1>3. /\ ~F[i].Connected /\ ~F[i].InUse
      /\ \A j \in Slots \ {i} : F[j] = E[j]
  BY <1>2 DEF ZeroEntry
<1>4. ConnectedSlots(F) = ConnectedSlots(E) \ {i}
  BY <1>3 DEF ConnectedSlots
<1>5. ConnectedSlots(E) \in SUBSET Slots
  BY DEF ConnectedSlots
<1>6. IsFiniteSet(ConnectedSlots(E)) /\ Cardinality(ConnectedSlots(E)) \in Nat
  BY <1>5, SlotsFinite
<1>7. B \in Nat /\ B = Cardinality(ConnectedSlots(F))
  <2>1. Cardinality(ConnectedSlots(F))
          = IF i \in ConnectedSlots(E) THEN Cardinality(ConnectedSlots(E)) - 1
            ELSE Cardinality(ConnectedSlots(E))
    BY <1>4, <1>6, FS_RemoveElement
  <2>2. Cardinality(ConnectedSlots(F)) \in Nat
    <3>1. ConnectedSlots(F) \in SUBSET Slots
      BY DEF ConnectedSlots
    <3>2. QED
      BY <3>1, SlotsFinite
  <2>3. i \in ConnectedSlots(E) <=> E[i].Connected
    BY DEF ConnectedSlots
  <2>4. p.A = Cardinality(ConnectedSlots(E))
    BY DEF Consistent
  <2>5. QED
    BY <1>6, <2>1, <2>2, <2>3, <2>4 DEF Decrement
<1>8. \A j \in Slots : F[j].InUse => F[j].Connected
  BY <1>3 DEF Consistent
<1>9. ASSUME NEW k \in Keys
      PROVE  CountConnectionsForHostQuota(F, k) <= MaxConnectionsPerHost
  <2>1. CountedForQuota(F, k) \in SUBSET CountedForQuota(E, k)
    BY <1>3 DEF CountedForQuota
  <2>2. CountedForQuota(E, k) \in SUBSET Slots /\ CountedForQuota(F, k) \in SUBSET Slots
    BY DEF CountedForQuota
  <2>3. Cardinality(CountedForQuota(F, k)) <= Cardinality(CountedForQuota(E, k))
    BY <2>1, <2>2, SlotsFinite, FS_Subset
  <2>4. Cardinality(CountedForQuota(E, k)) <= MaxConnectionsPerHost
    BY DEF Consistent, CountConnectionsForHostQuota
  <2>5. Cardinality(CountedForQuota(F, k)) \in Nat /\ Cardinality(CountedForQuota(E, k)) \in Nat
    BY <2>2, SlotsFinite
  <2>6. QED
    BY <2>3, <2>4, <2>5, PoolAssumption DEF CountConnectionsForHostQuota
<1>10. QED
  BY <1>1, <1>2, <1>7, <1>8, <1>9 DEF Consistent, PoolType

-----------------------------------------------------------------------------
(* KhConnectionPoolAcquire.                                                *)

\* Stamping an entry with the key and the Id of a new connection.
LEMMA StampedEntry ==
    ASSUME NEW o \in EntryType, NEW key \in KeyType, NEW id \in Nat
    PROVE  /\ Stamped(o, key, id) \in EntryType
           /\ Stamped(o, key, id).Connected = o.Connected
           /\ Stamped(o, key, id).InUse = o.InUse
           /\ Stamped(o, key, id).Key = key
BY DEF EntryType, Stamped

\* A new connection enters the table only below the quota of its host, so the
\* quota holds afterwards, whether the slot was unused or an idle connection
\* (of any host) was evicted from it.
LEMMA TakeFreshConsistent ==
    ASSUME NEW p \in PoolType, Consistent(p.E, p.A), NEW i \in Slots,
           NEW key \in Keys, NEW id \in Nat,
           ~QuotaFull(p.E, key)
    PROVE  /\ TakeFresh(p, i, key, id) \in PoolType
           /\ Consistent(TakeFresh(p, i, key, id).E, TakeFresh(p, i, key, id).A)
<1> DEFINE E == p.E
           e == FreshEntry(E[i], key, id)
           F == [E EXCEPT ![i] = e]
           B == IF E[i].Connected THEN p.A ELSE p.A + 1
<1>0. E \in [Slots -> EntryType] /\ p.A \in Nat /\ key \in KeyType
  BY PoolAssumption DEF PoolType
<1>1. e \in EntryType /\ e.Connected /\ e.InUse /\ e.Key = key
  <2> DEFINE base == IF HasConnectionState(E[i]) THEN ZeroEntry ELSE E[i]
  <2>1. base \in EntryType
    BY <1>0, ZeroEntryType
  <2>2. e = Stamped(Occupied(base), key, id)
    BY DEF FreshEntry
  <2> HIDE DEF base
  <2>3. Occupied(base) \in EntryType /\ Occupied(base).Connected /\ Occupied(base).InUse
    BY <2>1 DEF EntryType, Occupied
  <2>4. QED
    BY <1>0, <2>2, <2>3, StampedEntry
<1>2. TakeFresh(p, i, key, id) = [E |-> F, A |-> B, got |-> p.got]
  <2>1. p = [E |-> p.E, A |-> p.A, got |-> p.got]
    BY DEF PoolType
  <2>2. Put(p, i, e) = [E |-> F, A |-> p.A, got |-> p.got]
    BY <2>1 DEF Put
  <2>3. QED
    BY <2>2 DEF TakeFresh
<1>3. F \in [Slots -> EntryType]
  BY <1>0, <1>1
<1>4. F[i] = e /\ \A j \in Slots \ {i} : F[j] = E[j]
  BY <1>0
<1>5. ConnectedSlots(F) = ConnectedSlots(E) \cup {i}
  BY <1>1, <1>4 DEF ConnectedSlots
<1>6. IsFiniteSet(ConnectedSlots(E)) /\ Cardinality(ConnectedSlots(E)) \in Nat
  <2>1. ConnectedSlots(E) \in SUBSET Slots
    BY DEF ConnectedSlots
  <2>2. QED
    BY <2>1, SlotsFinite
<1>7. B \in Nat /\ B = Cardinality(ConnectedSlots(F))
  <2>1. Cardinality(ConnectedSlots(F))
          = IF i \in ConnectedSlots(E) THEN Cardinality(ConnectedSlots(E))
            ELSE Cardinality(ConnectedSlots(E)) + 1
    BY <1>5, <1>6, FS_AddElement
  <2>2. i \in ConnectedSlots(E) <=> E[i].Connected
    BY DEF ConnectedSlots
  <2>3. p.A = Cardinality(ConnectedSlots(E))
    BY DEF Consistent
  <2>4. QED
    BY <1>6, <2>1, <2>2, <2>3
<1>8. \A j \in Slots : F[j].InUse => F[j].Connected
  BY <1>1, <1>4 DEF Consistent
<1>9. ASSUME NEW k \in Keys
      PROVE  CountConnectionsForHostQuota(F, k) <= MaxConnectionsPerHost
  <2>1. CountedForQuota(E, k) \in SUBSET Slots /\ CountedForQuota(F, k) \in SUBSET Slots
    BY DEF CountedForQuota
  <2>2. /\ IsFiniteSet(CountedForQuota(E, k))
        /\ Cardinality(CountedForQuota(E, k)) \in Nat
        /\ Cardinality(CountedForQuota(F, k)) \in Nat
    BY <2>1, SlotsFinite
  <2>3. Cardinality(CountedForQuota(E, k)) <= MaxConnectionsPerHost
    BY DEF Consistent, CountConnectionsForHostQuota
  <2>4. CASE k.quota = key.quota
    <3>1. CountedForQuota(E, k) = CountedForQuota(E, key)
      BY <2>4 DEF CountedForQuota, HostQuotaKeysEqual
    <3>2. Cardinality(CountedForQuota(E, k)) < MaxConnectionsPerHost
      BY <3>1, <2>2, PoolAssumption DEF QuotaFull, CountConnectionsForHostQuota
    <3>3. CountedForQuota(F, k) \in SUBSET (CountedForQuota(E, k) \cup {i})
      BY <1>4 DEF CountedForQuota
    <3>4. /\ IsFiniteSet(CountedForQuota(E, k) \cup {i})
          /\ Cardinality(CountedForQuota(E, k) \cup {i})
               = IF i \in CountedForQuota(E, k) THEN Cardinality(CountedForQuota(E, k))
                 ELSE Cardinality(CountedForQuota(E, k)) + 1
      BY <2>2, FS_AddElement
    <3>5. Cardinality(CountedForQuota(F, k)) <= Cardinality(CountedForQuota(E, k) \cup {i})
      BY <3>3, <3>4, FS_Subset
    <3>6. QED
      BY <2>2, <3>2, <3>4, <3>5, PoolAssumption DEF CountConnectionsForHostQuota
  <2>5. CASE k.quota # key.quota
    <3>1. CountedForQuota(F, k) \in SUBSET CountedForQuota(E, k)
      BY <1>1, <1>4, <2>5 DEF CountedForQuota, HostQuotaKeysEqual
    <3>2. Cardinality(CountedForQuota(F, k)) <= Cardinality(CountedForQuota(E, k))
      BY <2>2, <3>1, FS_Subset
    <3>3. QED
      BY <2>2, <2>3, <3>2, PoolAssumption DEF CountConnectionsForHostQuota
  <2>6. QED
    BY <2>4, <2>5
<1>10. QED
  BY <1>2, <1>3, <1>7, <1>8, <1>9 DEF Consistent, PoolType

\* The slots the acquire loops stop at are slots of the table.
LEMMA ChosenSlots ==
    ASSUME NEW p, NEW E, NEW key, NEW policy
    PROVE  /\ FirstReusable(E, key, policy) \in {0} \cup Reusable(E, key)
           /\ FreshSlot(p, policy) \in {0} \cup Slots
<1>1. Reusable(E, key) \in SUBSET Slots
  BY DEF Reusable
<1>2. FirstReusable(E, key, policy) \in {0} \cup Reusable(E, key)
  BY <1>1, MinIsMember DEF FirstReusable
<1>3. UnusedSlots(p) \in SUBSET Slots /\ EvictableSlots(p, policy) \in SUBSET Slots
  BY DEF UnusedSlots, EvictableSlots
<1>4. FreshSlot(p, policy) \in {0} \cup Slots
  <2>1. CASE UnusedSlots(p) # {}
    BY <1>3, <2>1, MinIsMember DEF FreshSlot
  <2>2. CASE UnusedSlots(p) = {} /\ EvictableSlots(p, policy) # {}
    BY <1>3, <2>2, MinIsMember DEF FreshSlot
  <2>3. CASE UnusedSlots(p) = {} /\ EvictableSlots(p, policy) = {}
    BY <2>3 DEF FreshSlot
  <2>4. QED
    BY <2>1, <2>2, <2>3
<1>5. QED
  BY <1>2, <1>4

\* Making room under the quota is at most one detach.
LEMMA QuotaDetachConsistent ==
    ASSUME NEW p \in PoolType, Consistent(p.E, p.A), NEW key
    PROVE  /\ DetachIdleForHostQuota(p, key) \in PoolType
           /\ Consistent(DetachIdleForHostQuota(p, key).E,
                         DetachIdleForHostQuota(p, key).A)
<1> DEFINE idle == {i \in Slots : /\ Idle(p.E[i])
                                  /\ HostQuotaKeysEqual(p.E[i].Key, key)}
<1>1. idle # {} => Min(idle) \in Slots
  BY MinIsMember
<1>2. CASE ~QuotaFull(p.E, key) \/ p.got \/ idle = {}
  BY <1>2 DEF DetachIdleForHostQuota
<1>3. CASE ~(~QuotaFull(p.E, key) \/ p.got \/ idle = {})
  <2>1. DetachIdleForHostQuota(p, key) = Detach(p, Min(idle))
    BY <1>3 DEF DetachIdleForHostQuota
  <2>2. QED
    BY <1>1, <1>3, <2>1, DetachConsistent
<1>4. QED
  BY <1>2, <1>3

\* KhConnectionPoolAcquire preserves the pool invariant and returns a slot of
\* the table, or none.
LEMMA AcquireConsistent ==
    ASSUME NEW E, NEW A, Consistent(E, A), NEW key \in Keys, NEW policy,
           NEW clock \in Nat, NEW id \in Nat
    PROVE  LET res == AcquireResult(E, A, key, policy, clock, id)
           IN  /\ Consistent(res.pool.E, res.pool.A)
               /\ res.slot \in {0} \cup Slots
               /\ res.reused \in BOOLEAN
<1> DEFINE i == FirstReusable(E, key, policy)
           p0 == Pool(E, A)
           expired == i # 0 /\ Idle(E[i]) /\ IsIdleExpired(E[i], clock)
           pe == IF expired THEN Detach(p0, i) ELSE p0
           p1 == DetachIdleForHostQuota(pe, key)
           j == IF QuotaFull(p1.E, key) THEN 0 ELSE FreshSlot(p1, policy)
           res == AcquireResult(E, A, key, policy, clock, id)
<1>1. i \in {0} \cup Reusable(E, key) /\ Reusable(E, key) \subseteq Slots /\ 0 \notin Slots
  BY ChosenSlots DEF Reusable, Slots
<1>2. /\ A \in Nat /\ E \in [Slots -> EntryType]
      /\ p0 \in PoolType /\ p0.E = E /\ p0.A = A
  <2>1. ConnectedSlots(E) \in SUBSET Slots
    BY DEF ConnectedSlots
  <2>2. A \in Nat /\ E \in [Slots -> EntryType]
    BY <2>1, SlotsFinite DEF Consistent
  <2>3. QED
    BY <2>2 DEF Pool, PoolType
<1>3. CASE i # 0 /\ E[i].InUse
  <2> DEFINE e == [E[i] EXCEPT !.Leases = @ + 1]
  <2>1. /\ res.pool = Put(p0, i, e) /\ res.slot = i /\ res.reused = TRUE
    BY <1>3 DEF AcquireResult
  <2>2. i \in Slots
    BY <1>1, <1>3
  <2>3. /\ e \in EntryType /\ e.Connected = E[i].Connected
        /\ e.InUse = E[i].InUse /\ e.Key = E[i].Key
    BY <1>2, <2>2 DEF EntryType
  <2>4. res.pool.E = [E EXCEPT ![i] = e] /\ res.pool.A = A
    BY <2>1, <1>2 DEF Put, Pool
  <2>5. Consistent([E EXCEPT ![i] = e], A)
    <3>1. e.InUse => e.Connected
      BY <2>2, <2>3 DEF Consistent
    <3> HIDE DEF e
    <3>2. QED
      BY <2>2, <2>3, <3>1, RewriteEntry
  <2>6. QED
    BY <2>1, <2>2, <2>4, <2>5
<1>4. CASE i # 0 /\ ~E[i].InUse /\ ~expired
  <2> DEFINE e == [E[i] EXCEPT !.InUse = TRUE]
  <2>1. /\ res.pool = Put(p0, i, e) /\ res.slot = i /\ res.reused = TRUE
    BY <1>4 DEF AcquireResult
  <2>2. i \in Slots
    BY <1>1, <1>4
  <2>3. /\ e \in EntryType /\ e.Connected = E[i].Connected
        /\ e.Key = E[i].Key
    BY <1>2, <2>2 DEF EntryType
  <2>4. res.pool.E = [E EXCEPT ![i] = e] /\ res.pool.A = A
    BY <2>1, <1>2 DEF Put, Pool
  <2>5. E[i].Connected
    BY <1>1, <1>4 DEF Reusable, Idle
  <2>6. Consistent([E EXCEPT ![i] = e], A)
    <3> HIDE DEF e
    <3>2. QED
      BY <2>2, <2>3, <2>5, RewriteEntry
  <2>7. QED
    BY <2>1, <2>2, <2>4, <2>6
<1>5. CASE ~(i # 0 /\ E[i].InUse) /\ ~(i # 0 /\ ~E[i].InUse /\ ~expired)
  <2>1. /\ res.pool = IF j = 0 THEN p1 ELSE TakeFresh(p1, j, key, id)
        /\ res.slot = j /\ res.reused = FALSE
    BY <1>5 DEF AcquireResult
  <2>2. pe \in PoolType /\ Consistent(pe.E, pe.A)
    <3>1. CASE expired
      <4>1. i \in Slots
        BY <1>1, <3>1
      <4>2. QED
        BY <1>2, <3>1, <4>1, DetachConsistent
    <3>2. CASE ~expired
      BY <1>2, <3>2
    <3>3. QED
      BY <3>1, <3>2
  <2>3. p1 \in PoolType /\ Consistent(p1.E, p1.A)
    <3> HIDE DEF pe
    <3> QED
      BY <2>2, QuotaDetachConsistent
  <2>4. j \in {0} \cup Slots /\ (j # 0 => ~QuotaFull(p1.E, key))
    BY ChosenSlots
  <2> HIDE DEF p1, j
  <2>5. CASE j = 0
    BY <2>1, <2>3, <2>4, <2>5
  <2>6. CASE j # 0
    <3>1. Consistent(TakeFresh(p1, j, key, id).E, TakeFresh(p1, j, key, id).A)
      BY <2>3, <2>4, <2>6, TakeFreshConsistent
    <3>2. QED
      BY <2>1, <2>4, <2>6, <3>1
  <2>7. QED
    BY <2>5, <2>6
<1>6. QED
  BY <1>3, <1>4, <1>5

-----------------------------------------------------------------------------
\* KhConnectionPoolRelease preserves the pool invariant, even for an entry that
\* has been detached or handed on in the meantime.
LEMMA ReleaseConsistent ==
    ASSUME NEW E, NEW A, Consistent(E, A), NEW i \in Slots,
           NEW keep \in BOOLEAN, NEW clock \in Nat
    PROVE  LET p == ReleaseResult(E, A, i, keep, clock)
           IN  Consistent(p.E, p.A)
<1> DEFINE p == Pool(E, A)
           close == ~keep \/ E[i].CloseWhenIdle
           res == ReleaseResult(E, A, i, keep, clock)
<1>1. /\ E \in [Slots -> EntryType] /\ E[i] \in EntryType
      /\ p \in PoolType /\ p.E = E /\ p.A = A
  <2>1. ConnectedSlots(E) \in SUBSET Slots
    BY DEF ConnectedSlots
  <2>2. A \in Nat /\ E \in [Slots -> EntryType]
    BY <2>1, SlotsFinite DEF Consistent
  <2>3. QED
    BY <2>2 DEF Pool, PoolType
<1>2. Consistent(Detach(p, i).E, Detach(p, i).A)
  BY <1>1, DetachConsistent
<1>3. ASSUME NEW e \in EntryType, e.Connected = E[i].Connected,
             e.Key = E[i].Key, e.InUse => E[i].InUse
      PROVE  Consistent([E EXCEPT ![i] = e], A)
  <2>1. e.InUse => e.Connected
    BY <1>3 DEF Consistent
  <2>2. QED
    BY <1>3, <2>1, RewriteEntry
<1>4. CASE E[i].Leases = 0
  <2> DEFINE e == [E[i] EXCEPT !.LastUsedTime = clock, !.InUse = FALSE]
  <2>1. res = IF keep THEN ReturnIdle(p, i, clock) ELSE Detach(p, i)
    BY <1>4 DEF ReleaseResult
  <2>2. ReturnIdle(p, i, clock).E = [E EXCEPT ![i] = e] /\ ReturnIdle(p, i, clock).A = A
    BY <1>1 DEF ReturnIdle, Put, Pool
  <2>3. Consistent([E EXCEPT ![i] = e], A)
    <3>1. e \in EntryType /\ e.Connected = E[i].Connected /\ e.Key = E[i].Key /\ ~e.InUse
      BY <1>1 DEF EntryType
    <3> HIDE DEF e
    <3>2. QED
      BY <1>3, <3>1
  <2>4. QED
    BY <1>2, <2>1, <2>2, <2>3
<1>5. CASE E[i].Leases = 1
  <2> DEFINE d == [E[i] EXCEPT !.Leases = @ - 1]
             e == [d EXCEPT !.LastUsedTime = clock, !.InUse = FALSE]
             F == [E EXCEPT ![i] = d]
             q == DropLease(p, i)
  <2>1. res = IF close THEN Detach(p, i) ELSE ReturnIdle(q, i, clock)
    BY <1>5 DEF ReleaseResult
  <2>2. q.E = F /\ q = [E |-> F, A |-> A, got |-> FALSE] /\ F[i] = d
    <3>1. q = [p EXCEPT !.E = [p.E EXCEPT ![i] = [p.E[i] EXCEPT !.Leases = @ - 1]]]
      BY DEF DropLease, Put
    <3>2. p = [E |-> E, A |-> A, got |-> FALSE]
      BY DEF Pool
    <3>3. q = [E |-> F, A |-> A, got |-> FALSE]
      <4> HIDE DEF q, p
      <4> QED
        BY <3>1, <3>2
    <3>4. F[i] = d
      <4> HIDE DEF d
      <4> QED
        BY <1>1
    <3>5. QED
      <4> HIDE DEF q, F, d
      <4> QED
        BY <3>3, <3>4
  <2>3. ReturnIdle(q, i, clock).E = [F EXCEPT ![i] = e] /\ ReturnIdle(q, i, clock).A = A
    <3> HIDE DEF q, F, d
    <3>1. ReturnIdle(q, i, clock) = [q EXCEPT !.E = [q.E EXCEPT ![i] =
              [q.E[i] EXCEPT !.LastUsedTime = clock, !.InUse = FALSE]]]
      BY DEF ReturnIdle, Put
    <3>2. q.E[i] = d
      BY <2>2
    <3>3. ReturnIdle(q, i, clock) = [q EXCEPT !.E = [F EXCEPT ![i] =
              [d EXCEPT !.LastUsedTime = clock, !.InUse = FALSE]]]
      BY <2>2, <3>1, <3>2
    <3> HIDE DEF e
    <3> DEFINE X == [F EXCEPT ![i] = e]
    <3>4. ReturnIdle(q, i, clock) = [q EXCEPT !.E = X]
      BY <3>3 DEF e
    <3> HIDE DEF X
    <3>5. ReturnIdle(q, i, clock).E = X /\ ReturnIdle(q, i, clock).A = A
      BY <2>2, <3>4
    <3>6. QED
      BY <3>5 DEF X
  <2>4. [F EXCEPT ![i] = e] = [E EXCEPT ![i] = e]
    BY <1>1
  <2>5. Consistent([E EXCEPT ![i] = e], A)
    <3>1. d \in EntryType /\ d.Connected = E[i].Connected /\ d.Key = E[i].Key
      BY <1>1, <1>5 DEF EntryType
    <3>2. e \in EntryType /\ e.Connected = d.Connected /\ e.Key = d.Key /\ ~e.InUse
      <4> HIDE DEF d
      <4> QED
        BY <3>1 DEF EntryType
    <3> HIDE DEF e, d
    <3>3. QED
      BY <1>3, <3>1, <3>2
  <2>6. QED
    BY <1>2, <2>1, <2>3, <2>4, <2>5
<1>6. CASE E[i].Leases # 0 /\ E[i].Leases # 1
  <2> DEFINE e == [E[i] EXCEPT !.Leases = @ - 1, !.CloseWhenIdle = close]
  <2>1. res = Put(p, i, e)
    BY <1>6 DEF ReleaseResult
  <2>2. res.E = [E EXCEPT ![i] = e] /\ res.A = A
    BY <1>1, <2>1 DEF Put, Pool
  <2>3. e \in EntryType /\ e.Connected = E[i].Connected /\ e.Key = E[i].Key /\ e.InUse = E[i].InUse
    <3> DEFINE n == E[i].Leases - 1
    <3>1. close \in BOOLEAN
      BY <1>1 DEF EntryType
    <3>2. n \in Nat
      BY <1>1, <1>6 DEF EntryType
    <3>3. e = [E[i] EXCEPT !.Leases = n, !.CloseWhenIdle = close]
      OBVIOUS
    <3> HIDE DEF close, n, e
    <3>4. QED
      BY <1>1, <3>1, <3>2, <3>3 DEF EntryType
  <2>4. Consistent([E EXCEPT ![i] = e], A)
    <3> HIDE DEF e
    <3> QED
      BY <1>3, <2>3
  <2>5. QED
    BY <2>2, <2>4
<1>7. QED
  BY <1>4, <1>5, <1>6

\* KhConnectionPoolClose preserves the pool invariant.
LEMMA CloseConsistent ==
    ASSUME NEW E, NEW A, Consistent(E, A), NEW i \in Slots
    PROVE  Consistent(CloseResult(E, A, i).E, CloseResult(E, A, i).A)
<1>1. ConnectedSlots(E) \in SUBSET Slots
  BY DEF ConnectedSlots
<1>2. A \in Nat /\ E \in [Slots -> EntryType]
  BY <1>1, SlotsFinite DEF Consistent
<1>3. Pool(E, A) \in PoolType /\ Pool(E, A).E = E /\ Pool(E, A).A = A
  BY <1>2 DEF Pool, PoolType
<1>4. QED
  BY <1>3, DetachConsistent DEF CloseResult

\* An empty table is consistent: Init and Shutdown.
LEMMA EmptyConsistent == Consistent([i \in Slots |-> ZeroEntry], 0)
<1> DEFINE E == [i \in Slots |-> ZeroEntry]
<1>1. E \in [Slots -> EntryType]
  BY ZeroEntryType
<1>2. \A i \in Slots : ~E[i].Connected /\ ~E[i].InUse
  BY DEF ZeroEntry
<1>3. ConnectedSlots(E) = {} /\ \A k : CountedForQuota(E, k) = {}
  BY <1>2 DEF ConnectedSlots, CountedForQuota
<1>4. QED
  BY <1>1, <1>2, <1>3, FS_EmptySet, PoolAssumption
     DEF Consistent, CountConnectionsForHostQuota
-----------------------------------------------------------------------------
(* What an acquire and a release do to the table, entry by entry.          *)

\* The request joins the HTTP/2 connection in slot i.
Shares(E, F, i, key) ==
    /\ i \in Slots /\ E[i].InUse /\ CanShareHttp2Connection(E[i], key)
    /\ F = [E EXCEPT ![i] = [E[i] EXCEPT !.Leases = @ + 1]]

\* It takes over the idle connection in slot i.
Reuses(E, F, i, key, clock) ==
    /\ i \in Slots /\ Idle(E[i]) /\ KeysEqualForAutoAlpnAcquire(key, E[i].Key)
    /\ ~IsIdleExpired(E[i], clock)
    /\ F = [E EXCEPT ![i] = [E[i] EXCEPT !.InUse = TRUE]]

\* It gets a new connection in slot j, or none if j is 0; only idle connections
\* gave way.
Renews(E, F, j, key, id) ==
    /\ j \in {0} \cup Slots
    /\ \A k \in Slots \ {j} : F[k] = E[k] \/ (Idle(E[k]) /\ F[k] = ZeroEntry)
    /\ j # 0 => /\ ~E[j].InUse /\ E[j].Leases = 0
                /\ \E e \in {ZeroEntry, E[j]} :
                     ~HasConnectionState(e) /\ F[j] = Stamped(Occupied(e), key, id)

\* A slot is free to be renewed when nobody uses it.
LEMMA FreshSlotUnused ==
    ASSUME NEW p \in PoolType, NEW policy, NEW j, j = FreshSlot(p, policy), j # 0
    PROVE  j \in Slots /\ ~p.E[j].InUse /\ p.E[j].Leases = 0
<1>1. UnusedSlots(p) \in SUBSET Slots /\ EvictableSlots(p, policy) \in SUBSET Slots
  BY DEF UnusedSlots, EvictableSlots
<1>2. j \in UnusedSlots(p) \cup EvictableSlots(p, policy)
  <2>1. CASE UnusedSlots(p) # {}
    BY <1>1, <2>1, MinIsMember DEF FreshSlot
  <2>2. CASE UnusedSlots(p) = {} /\ EvictableSlots(p, policy) # {}
    BY <1>1, <2>2, MinIsMember DEF FreshSlot
  <2>3. CASE UnusedSlots(p) = {} /\ EvictableSlots(p, policy) = {}
    BY <2>3 DEF FreshSlot
  <2>4. QED
    BY <2>1, <2>2, <2>3
<1>3. QED
  BY <1>2 DEF UnusedSlots, EvictableSlots

\* Detaching an idle entry leaves the others.
IdleGone(E, F) == \A k \in Slots : F[k] = E[k] \/ (Idle(E[k]) /\ F[k] = ZeroEntry)

LEMMA DetachIdle ==
    ASSUME NEW p \in PoolType, NEW i \in Slots, Idle(p.E[i])
    PROVE  IdleGone(p.E, Detach(p, i).E)
BY DEF IdleGone, Detach, PoolType

\* KhConnectionPoolAcquire shares, reuses or renews; with a policy other than
\* ReuseOrCreate it renews.
LEMMA AcquireEffect ==
    ASSUME NEW E, NEW A, Consistent(E, A), NEW key \in Keys, NEW policy,
           NEW clock \in Nat, NEW id \in Nat,
           NEW res, res = AcquireResult(E, A, key, policy, clock, id)
    PROVE  \/ /\ policy = "ReuseOrCreate" /\ res.reused = TRUE
              /\ \/ Shares(E, res.pool.E, res.slot, key)
                 \/ Reuses(E, res.pool.E, res.slot, key, clock)
           \/ res.reused = FALSE /\ Renews(E, res.pool.E, res.slot, key, id)
<1> DEFINE i == FirstReusable(E, key, policy)
           p0 == Pool(E, A)
           expired == i # 0 /\ Idle(E[i]) /\ IsIdleExpired(E[i], clock)
           pe == IF expired THEN Detach(p0, i) ELSE p0
           p1 == DetachIdleForHostQuota(pe, key)
           j == IF QuotaFull(p1.E, key) THEN 0 ELSE FreshSlot(p1, policy)
<1>1. /\ i \in {0} \cup Reusable(E, key) /\ Reusable(E, key) \subseteq Slots /\ 0 \notin Slots
      /\ i # 0 => policy = "ReuseOrCreate"
  <2>1. i \in {0} \cup Reusable(E, key)
    BY ChosenSlots, Zenon
  <2>2. Reusable(E, key) \subseteq Slots
    BY Zenon DEF Reusable
  <2>3. 0 \notin Slots
    BY PoolAssumption DEF Slots
  <2>4. i # 0 => policy = "ReuseOrCreate"
    BY Zenon DEF FirstReusable
  <2>5. QED
    BY <2>1, <2>2, <2>3, <2>4
<1>2. /\ A \in Nat /\ E \in [Slots -> EntryType]
      /\ p0 \in PoolType /\ p0.E = E /\ p0.A = A
  <2>1. ConnectedSlots(E) \in SUBSET Slots
    BY DEF ConnectedSlots
  <2>2. A \in Nat /\ E \in [Slots -> EntryType]
    BY <2>1, SlotsFinite DEF Consistent
  <2>3. QED
    BY <2>2 DEF Pool, PoolType
<1>3. CASE i # 0 /\ E[i].InUse
  <2>1. /\ res.pool = Put(p0, i, [E[i] EXCEPT !.Leases = @ + 1])
        /\ res.slot = i /\ res.reused = TRUE
    BY <1>3 DEF AcquireResult
  <2>2. i \in Slots /\ CanShareHttp2Connection(E[i], key)
    BY <1>1, <1>3 DEF Reusable, Idle
  <2>3. res.pool.E = [E EXCEPT ![i] = [E[i] EXCEPT !.Leases = @ + 1]]
    BY <2>1, <1>2 DEF Put, Pool
  <2> HIDE DEF i
  <2>4. QED
    BY <1>1, <1>3, <2>1, <2>2, <2>3 DEF Shares
<1>4. CASE i # 0 /\ ~E[i].InUse /\ ~expired
  <2>1. /\ res.pool = Put(p0, i, [E[i] EXCEPT !.InUse = TRUE])
        /\ res.slot = i /\ res.reused = TRUE
    BY <1>4 DEF AcquireResult
  <2>2. i \in Slots /\ Idle(E[i]) /\ KeysEqualForAutoAlpnAcquire(key, E[i].Key)
    BY <1>1, <1>4 DEF Reusable
  <2>3. res.pool.E = [E EXCEPT ![i] = [E[i] EXCEPT !.InUse = TRUE]]
    BY <2>1, <1>2 DEF Put, Pool
  <2>4. ~IsIdleExpired(E[i], clock)
    BY <1>4, <2>2
  <2> HIDE DEF i
  <2>5. QED
    BY <1>1, <1>4, <2>1, <2>2, <2>3, <2>4 DEF Reuses
<1>5. CASE ~(i # 0 /\ E[i].InUse) /\ ~(i # 0 /\ ~E[i].InUse /\ ~expired)
  <2>1. /\ res.pool = IF j = 0 THEN p1 ELSE TakeFresh(p1, j, key, id)
        /\ res.slot = j /\ res.reused = FALSE
    BY <1>5 DEF AcquireResult
  <2>2. pe \in PoolType /\ Consistent(pe.E, pe.A) /\ IdleGone(E, pe.E)
    <3>1. CASE expired
      <4>1. i \in Slots /\ Idle(p0.E[i])
        BY <1>1, <1>2, <3>1
      <4> HIDE DEF i
      <4>2. IdleGone(E, Detach(p0, i).E)
        BY <1>2, <4>1, DetachIdle
      <4>3. QED
        BY <1>2, <3>1, <4>1, <4>2, DetachConsistent
    <3>2. CASE ~expired
      BY <1>2, <3>2 DEF IdleGone
    <3>3. QED
      BY <3>1, <3>2
  <2> HIDE DEF pe
  <2>3. p1 \in PoolType /\ Consistent(p1.E, p1.A)
    BY <2>2, QuotaDetachConsistent
  <2>4. IdleGone(pe.E, p1.E)
    <3> DEFINE idle == {k \in Slots : /\ Idle(pe.E[k])
                                      /\ HostQuotaKeysEqual(pe.E[k].Key, key)}
    <3>1. CASE ~QuotaFull(pe.E, key) \/ pe.got \/ idle = {}
      BY <3>1 DEF DetachIdleForHostQuota, IdleGone
    <3>2. CASE ~(~QuotaFull(pe.E, key) \/ pe.got \/ idle = {})
      <4>1. p1 = Detach(pe, Min(idle))
        BY <3>2 DEF DetachIdleForHostQuota
      <4>2. Min(idle) \in Slots /\ Idle(pe.E[Min(idle)])
        BY <3>2, MinIsMember
      <4>3. QED
        BY <2>2, <4>1, <4>2, DetachIdle
    <3>3. QED
      BY <3>1, <3>2
  <2>5. IdleGone(E, p1.E)
    BY <2>2, <2>4 DEF IdleGone, Idle, ZeroEntry
  <2>6. j # 0 => j \in Slots /\ ~p1.E[j].InUse /\ p1.E[j].Leases = 0
    BY <2>3, FreshSlotUnused
  <2> HIDE DEF p1, j
  <2>7. CASE j = 0
    BY <1>1, <2>1, <2>5, <2>7 DEF Renews, IdleGone
  <2>8. CASE j # 0
    <3> DEFINE F == res.pool.E
    <3>1. F = [p1.E EXCEPT ![j] = FreshEntry(p1.E[j], key, id)]
      BY <2>1, <2>3, <2>8 DEF TakeFresh, Put, PoolType
    <3>2. p1.E \in [Slots -> EntryType]
      BY <2>3 DEF PoolType
    <3>3. F[j] = FreshEntry(p1.E[j], key, id) /\ \A k \in Slots \ {j} : F[k] = p1.E[k]
      BY <2>6, <2>8, <3>1, <3>2
    <3>4. ~E[j].InUse /\ E[j].Leases = 0 /\ p1.E[j] \in {ZeroEntry, E[j]}
      BY <2>5, <2>6, <2>8 DEF IdleGone, Idle
    <3>5. ~HasConnectionState(ZeroEntry)
      BY DEF HasConnectionState, HasResources, ZeroEntry
    <3>6. \E e \in {ZeroEntry, E[j]} :
            ~HasConnectionState(e) /\ F[j] = Stamped(Occupied(e), key, id)
      BY <3>3, <3>4, <3>5 DEF FreshEntry
    <3> HIDE DEF F
    <3>7. Renews(E, F, j, key, id)
      BY <2>5, <2>6, <2>8, <3>3, <3>4, <3>6 DEF Renews, IdleGone
    <3>8. QED
      BY <2>1, <3>7 DEF F
  <2>9. QED
    BY <2>7, <2>8
<1>6. QED
  BY <1>3, <1>4, <1>5

\* What a release leaves in its slot: nothing, an idle connection, or one lease less.
GivenBack(e, f, clock) ==
    \/ e.Leases \in {0, 1} /\ f = ZeroEntry
    \/ /\ e.Leases \in {0, 1}
       /\ e.Leases = 1 => ~e.CloseWhenIdle
       /\ f = [e EXCEPT !.Leases = 0, !.LastUsedTime = clock, !.InUse = FALSE]
    \/ /\ e.Leases \in Nat \ {0, 1}
       /\ \E close \in BOOLEAN :
            /\ e.CloseWhenIdle => close
            /\ f = [e EXCEPT !.Leases = @ - 1, !.CloseWhenIdle = close]

LEMMA ReleaseEffect ==
    ASSUME NEW E, NEW A, E \in [Slots -> EntryType], NEW i \in Slots,
           NEW keep \in BOOLEAN, NEW clock \in Nat,
           NEW F, F = ReleaseResult(E, A, i, keep, clock).E
    PROVE  /\ \A k \in Slots \ {i} : F[k] = E[k]
           /\ GivenBack(E[i], F[i], clock)
<1> USE DEF GivenBack
<1> DEFINE p == Pool(E, A)
           close == ~keep \/ E[i].CloseWhenIdle
           res == ReleaseResult(E, A, i, keep, clock)
<1>1. p.E = E /\ E[i] \in EntryType /\ E[i].Leases \in Nat
  BY DEF Pool, EntryType
<1>2. CASE E[i].Leases = 0
  <2>1. res = IF keep THEN ReturnIdle(p, i, clock) ELSE Detach(p, i)
    BY <1>2 DEF ReleaseResult
  <2>2. ReturnIdle(p, i, clock).E = [E EXCEPT ![i] = [E[i] EXCEPT !.LastUsedTime = clock, !.InUse = FALSE]]
    BY <1>1 DEF ReturnIdle, Put, Pool
  <2>3. Detach(p, i).E = [E EXCEPT ![i] = ZeroEntry]
    BY <1>1 DEF Detach, Pool
  <2>4. [E[i] EXCEPT !.LastUsedTime = clock, !.InUse = FALSE] =
          [E[i] EXCEPT !.Leases = 0, !.LastUsedTime = clock, !.InUse = FALSE]
    BY <1>1, <1>2 DEF EntryType
  <2> DEFINE idle == [E[i] EXCEPT !.Leases = 0, !.LastUsedTime = clock, !.InUse = FALSE]
  <2> HIDE DEF idle
  <2>5. F = [E EXCEPT ![i] = idle] \/ F = [E EXCEPT ![i] = ZeroEntry]
    BY <2>1, <2>2, <2>3, <2>4 DEF idle
  <2>6. (\A k \in Slots \ {i} : F[k] = E[k]) /\ (F[i] = idle \/ F[i] = ZeroEntry)
    BY <2>5
  <2>7. QED
    BY <1>2, <2>6 DEF idle
<1>3. CASE E[i].Leases = 1
  <2>1. res = IF close THEN Detach(p, i) ELSE ReturnIdle(DropLease(p, i), i, clock)
    BY <1>3 DEF ReleaseResult
  <2>2. DropLease(p, i).E = [E EXCEPT ![i] = [E[i] EXCEPT !.Leases = @ - 1]]
    BY <1>1 DEF DropLease, Put, Pool
  <2>3. ReturnIdle(DropLease(p, i), i, clock).E =
          [DropLease(p, i).E EXCEPT ![i] = [DropLease(p, i).E[i] EXCEPT !.LastUsedTime = clock, !.InUse = FALSE]]
    BY <1>1 DEF ReturnIdle, DropLease, Put, Pool
  <2>4. Detach(p, i).E = [E EXCEPT ![i] = ZeroEntry]
    BY <1>1 DEF Detach, Pool
  <2>5. DropLease(p, i).E[i] = [E[i] EXCEPT !.Leases = 0]
    BY <1>1, <1>3, <2>2
  <2>6. ReturnIdle(DropLease(p, i), i, clock).E =
          [E EXCEPT ![i] = [E[i] EXCEPT !.Leases = 0, !.LastUsedTime = clock, !.InUse = FALSE]]
    BY <1>1, <2>2, <2>3, <2>5 DEF EntryType
  <2>7. QED
    BY <1>1, <1>3, <2>1, <2>4, <2>6
<1>4. CASE E[i].Leases \notin {0, 1}
  <2>1. res = Put(p, i, [E[i] EXCEPT !.Leases = @ - 1, !.CloseWhenIdle = close])
    BY <1>4 DEF ReleaseResult
  <2>2. res.E = [E EXCEPT ![i] = [E[i] EXCEPT !.Leases = @ - 1, !.CloseWhenIdle = close]]
    BY <1>1, <2>1 DEF Put, Pool
  <2>3. close \in BOOLEAN /\ (E[i].CloseWhenIdle => close)
    BY <1>1 DEF EntryType
  <2> HIDE DEF close, res
  <2>4. QED
    BY <1>1, <1>4, <2>2, <2>3 DEF res
<1>5. QED
  BY <1>2, <1>3, <1>4

-----------------------------------------------------------------------------
(* Sends.                                                                  *)

\* The inductive invariant: besides the two counting properties it says that an
\* entry in use is connected.
PoolInv == TypeOK /\ Consistent(Entries, ActiveCount)

\* f differs from e in the link layers only.
LinkOnly(e, f) ==
    /\ f \in EntryType
    /\ f.Connected = e.Connected
    /\ f.InUse = e.InUse
    /\ f.Key.quota = e.Key.quota

\* Building, losing and tearing down layers is a matter of the link fields.
LEMMA LinkLayers ==
    ASSUME NEW e \in EntryType
    PROVE  /\ LinkOnly(e, e)
           /\ LinkOnly(e, TornDown(e))
           /\ LinkOnly(e, WithoutTls(e))
           /\ LinkOnly(e, Closed(e))
           /\ LinkOnly(e, Dialled(e))
           /\ LinkOnly(e, Tunnelled(e))
           /\ \A a \in Alpns : LinkOnly(e, Secured(e, a))
           /\ \A b \in BOOLEAN : LinkOnly(e, WithHttp2(e, b))
           /\ LinkOnly(e, Lost(e))
           /\ LinkOnly(e, TlsFailed(e))
<1>1. LinkOnly(e, e)
  BY DEF LinkOnly
<1>2. LinkOnly(e, TornDown(e))
  <2> DEFINE d == [e EXCEPT !.Socket = "none", !.Tunnel = FALSE, !.Tls = "none"]
  <2>1. LinkOnly(e, d)
    BY DEF LinkOnly, EntryType
  <2>2. TornDown(e) = [d EXCEPT !.Alpn = "", !.Http2 = FALSE]
    BY DEF TornDown
  <2> HIDE DEF d
  <2>3. LinkOnly(d, TornDown(e))
    BY <2>1, <2>2 DEF LinkOnly, EntryType, Alpns
  <2>4. QED
    BY <2>1, <2>3 DEF LinkOnly
<1>3. LinkOnly(e, WithoutTls(e))
  BY DEF LinkOnly, WithoutTls, EntryType, Alpns
<1>4. LinkOnly(e, Closed(e))
  <2>1. TornDown(e) \in EntryType
    BY <1>2 DEF LinkOnly
  <2>2. LinkOnly(TornDown(e), Closed(e))
    BY <2>1 DEF LinkOnly, Closed, EntryType
  <2>3. QED
    BY <1>2, <2>2 DEF LinkOnly
<1>5. LinkOnly(e, Dialled(e)) /\ LinkOnly(e, Tunnelled(e))
  BY DEF LinkOnly, Dialled, Tunnelled, EntryType
<1>6. ASSUME NEW a \in Alpns PROVE LinkOnly(e, Secured(e, a))
  BY DEF LinkOnly, Secured, EntryType
<1>7. ASSUME NEW b \in BOOLEAN PROVE LinkOnly(e, WithHttp2(e, b))
  BY DEF LinkOnly, WithHttp2, EntryType
<1>8. LinkOnly(e, Lost(e)) /\ LinkOnly(e, TlsFailed(e))
  BY DEF LinkOnly, Lost, TlsFailed, EntryType
<1>9. QED
  BY <1>1, <1>2, <1>3, <1>4, <1>5, <1>6, <1>7, <1>8

\* Writing the negotiated protocol into the key does not touch its quota part.
LEMMA NegotiatedKey ==
    ASSUME NEW e \in EntryType, NEW key \in KeyType
    PROVE  LinkOnly(e, WithNegotiatedAlpn(e, key))
<1>1. CASE key.auto /\ e.Tls = "established" /\ e.Alpn # ""
  <2> DEFINE k == [e.Key EXCEPT !.alpn = e.Alpn]
  <2>1. k \in KeyType /\ k.quota = e.Key.quota
    BY DEF EntryType, KeyType
  <2>2. WithNegotiatedAlpn(e, key) = [e EXCEPT !.Key = k]
    BY <1>1 DEF WithNegotiatedAlpn
  <2> HIDE DEF k
  <2>3. QED
    BY <2>1, <2>2 DEF LinkOnly, EntryType
<1>2. CASE ~(key.auto /\ e.Tls = "established" /\ e.Alpn # "")
  BY <1>2 DEF WithNegotiatedAlpn, LinkOnly
<1>3. QED
  BY <1>1, <1>2

\* A step that rewrites the link fields of its own entry keeps the pool
\* consistent.
LEMMA LinkStep ==
    ASSUME PoolInv, NEW r \in Requests, pc[r] \in Using,
           NEW e, LinkOnly(Entry(r), e),
           SetEntry(r, e), ActiveCount' = ActiveCount
    PROVE  Consistent(Entries', ActiveCount')
<1>1. slot[r] \in Slots
  BY DEF PoolInv, TypeOK
<1>2. e.InUse => e.Connected
  BY <1>1 DEF PoolInv, Consistent, LinkOnly, Entry
<1>3. Consistent([Entries EXCEPT ![slot[r]] = e], ActiveCount)
  BY <1>1, <1>2, RewriteEntry DEF PoolInv, LinkOnly, Entry
<1>4. QED
  BY <1>3 DEF SetEntry

\* A request holds an entry of the right type while it uses a connection.
LEMMA HeldEntry ==
    ASSUME TypeOK, NEW r \in Requests, pc[r] \in Using
    PROVE  slot[r] \in Slots /\ Entry(r) \in EntryType
BY DEF TypeOK, Entry

-----------------------------------------------------------------------------
(* The type invariant without the entry table.                             *)

ThreadTypes ==
    /\ NextConnectionId \in Nat
    /\ shut \in BOOLEAN
    /\ now \in Nat
    /\ pc \in [Requests -> Using \cup {"idle", "reacquire", "done"}]
    /\ kind \in [Requests -> Kinds]
    /\ slot \in [Requests -> {0} \cup Slots]
    /\ \A r \in Requests : slot[r] = 0 <=> pc[r] \notin Using
    /\ conn \in [Requests -> Nat]
    /\ reused \in [Requests -> BOOLEAN]
    /\ original \in [Requests -> {"none", "stale", "error"}]
    /\ status \in [Requests -> Statuses]
    /\ reusable \in [Requests -> BOOLEAN]
    /\ sends \in [Requests -> Nat]

\* The table's part of TypeOK follows from its consistency.
LEMMA InvParts == PoolInv <=> ThreadTypes /\ Consistent(Entries, ActiveCount)
<1>1. Consistent(Entries, ActiveCount) =>
        Entries \in [Slots -> EntryType] /\ ActiveCount \in Nat
  <2>1. ConnectedSlots(Entries) \in SUBSET Slots
    BY DEF ConnectedSlots
  <2>2. QED
    BY <2>1, SlotsFinite DEF Consistent
<1>2. QED
  BY <1>1 DEF PoolInv, TypeOK, ThreadTypes

LEMMA InvPartsPrime == PoolInv' <=> ThreadTypes' /\ Consistent(Entries', ActiveCount')
<1>1. Consistent(Entries', ActiveCount') =>
        Entries' \in [Slots -> EntryType] /\ ActiveCount' \in Nat
  <2>1. ConnectedSlots(Entries') \in SUBSET Slots
    BY DEF ConnectedSlots
  <2>2. QED
    BY <2>1, SlotsFinite DEF Consistent
<1>2. QED
  BY <1>1 DEF PoolInv, TypeOK, ThreadTypes

\* The initial states satisfy the invariant.
LEMMA PoolInvInit == Init => PoolInv
<1> SUFFICES ASSUME Init PROVE PoolInv
  OBVIOUS
<1>1. Consistent(Entries, ActiveCount)
  BY EmptyConsistent DEF Init
<1>2. ThreadTypes
  BY DEF Init, ThreadTypes, Using, Statuses
<1>3. QED
  BY <1>1, <1>2, InvParts

\* Both acquires keep the invariant.
LEMMA AcquirePreserves ==
    ASSUME PoolInv, NEW r \in Requests, Acquire(r)
    PROVE  PoolInv'
<1> DEFINE res == AcquireResult(Entries, ActiveCount, Key(r), kind[r].policy,
                                now, NextConnectionId)
<1>1. Key(r) \in Keys /\ now \in Nat /\ NextConnectionId \in Nat
  BY SendAssumption DEF PoolInv, TypeOK, Key
<1>2. /\ Consistent(res.pool.E, res.pool.A)
      /\ res.slot \in {0} \cup Slots
      /\ res.reused \in BOOLEAN
  BY <1>1, AcquireConsistent DEF PoolInv
<1>3. res.slot # 0 => res.pool.E[res.slot].Id \in Nat
  BY <1>2 DEF Consistent, EntryType
<1>4. /\ Install(res) /\ Take(r, res)
      /\ IF res.slot = 0
         THEN Goto(r, "done") /\ status' = [status EXCEPT ![r] = "error"]
         ELSE Goto(r, "socket") /\ UNCHANGED status
      /\ UNCHANGED <<shut, now, kind, original, reusable, sends>>
  BY DEF Acquire
<1> HIDE DEF res
<1>5. Consistent(Entries', ActiveCount')
  BY <1>2, <1>4 DEF Install
<1>6. 0 \notin Slots
  BY DEF Slots
<1>7. ThreadTypes'
  <2>1. ThreadTypes
    BY InvParts
  <2>2. NextConnectionId' \in Nat
    BY <1>4, <2>1 DEF Install, ThreadTypes
  <2>3. /\ conn' \in [Requests -> Nat] /\ reused' \in [Requests -> BOOLEAN]
        /\ slot' \in [Requests -> {0} \cup Slots]
    BY <1>2, <1>3, <1>4, <2>1 DEF Take, ThreadTypes
  <2>4. /\ pc' \in [Requests -> Using \cup {"idle", "reacquire", "done"}]
        /\ status' \in [Requests -> Statuses]
    BY <1>4, <2>1 DEF Goto, ThreadTypes, Using, Statuses
  <2>5. \A q \in Requests : slot'[q] = 0 <=> pc'[q] \notin Using
    <3>1. slot' = [slot EXCEPT ![r] = res.slot]
      BY <1>4 DEF Take
    <3>2. pc' = [pc EXCEPT ![r] = IF res.slot = 0 THEN "done" ELSE "socket"]
      BY <1>4 DEF Goto
    <3>3. QED
      BY <2>1, <3>1, <3>2 DEF ThreadTypes, Using
  <2>6. QED
    BY <1>4, <2>1, <2>2, <2>3, <2>4, <2>5 DEF ThreadTypes
<1>8. QED
  BY <1>5, <1>7, InvPartsPrime

LEMMA RetryPreserves ==
    ASSUME PoolInv, NEW r \in Requests, RetryWithFreshConnection(r)
    PROVE  PoolInv'
<1> DEFINE res == AcquireResult(Entries, ActiveCount, Key(r), "ForceNew",
                                now, NextConnectionId)
<1>1. Key(r) \in Keys /\ now \in Nat /\ NextConnectionId \in Nat
  BY SendAssumption DEF PoolInv, TypeOK, Key
<1>2. /\ Consistent(res.pool.E, res.pool.A)
      /\ res.slot \in {0} \cup Slots
      /\ res.reused \in BOOLEAN
  BY <1>1, AcquireConsistent DEF PoolInv
<1>3. res.slot # 0 => res.pool.E[res.slot].Id \in Nat
  BY <1>2 DEF Consistent, EntryType
<1>4. /\ Install(res) /\ Take(r, res)
      /\ \/ res.slot = 0 /\ Goto(r, "done") /\ UNCHANGED status
         \/ res.slot # 0 /\ Goto(r, "socket") /\ status' = [status EXCEPT ![r] = "none"]
         \/ res.slot # 0 /\ Fail(r, "error")
      /\ original' = [original EXCEPT ![r] = "none"]
      /\ UNCHANGED <<shut, now, kind, reusable, sends>>
  BY DEF RetryWithFreshConnection
<1> HIDE DEF res
<1>5. Consistent(Entries', ActiveCount')
  BY <1>2, <1>4 DEF Install
<1>7. ThreadTypes'
  <2>1. ThreadTypes
    BY InvParts
  <2>2. NextConnectionId' \in Nat
    BY <1>4, <2>1 DEF Install, ThreadTypes
  <2>3. /\ conn' \in [Requests -> Nat] /\ reused' \in [Requests -> BOOLEAN]
        /\ slot' \in [Requests -> {0} \cup Slots]
        /\ original' \in [Requests -> {"none", "stale", "error"}]
    BY <1>2, <1>3, <1>4, <2>1 DEF Take, ThreadTypes
  <2>4. PICK p \in {"done", "socket", "finish"} :
          pc' = [pc EXCEPT ![r] = p] /\ (res.slot = 0 <=> p = "done")
    BY <1>4 DEF Goto, Fail
  <2>5. PICK st \in Statuses : status' = [status EXCEPT ![r] = st] \/ status' = status
    BY <1>4 DEF Fail, Statuses
  <2>6. /\ pc' \in [Requests -> Using \cup {"idle", "reacquire", "done"}]
        /\ status' \in [Requests -> Statuses]
    BY <2>1, <2>4, <2>5 DEF ThreadTypes, Using
  <2>7. \A q \in Requests : slot'[q] = 0 <=> pc'[q] \notin Using
    <3>1. slot' = [slot EXCEPT ![r] = res.slot]
      BY <1>4 DEF Take
    <3>2. QED
      BY <2>1, <2>4, <3>1 DEF ThreadTypes, Using
  <2>8. QED
    BY <1>4, <2>1, <2>2, <2>3, <2>6, <2>7 DEF ThreadTypes
<1>8. QED
  BY <1>5, <1>7, InvPartsPrime

-----------------------------------------------------------------------------
(* The steps of SendViaTransport.                                          *)

\* A step of a request on the connection it holds disturbs at most its own
\* position, status, confirmation state, reusability and send count.
LEMMA ThreadStep ==
    ASSUME PoolInv, NEW r \in Requests, pc[r] \in Using,
           NEW p \in Using, Goto(r, p),
           status' \in [Requests -> Statuses],
           original' \in [Requests -> {"none", "stale", "error"}],
           reusable' \in [Requests -> BOOLEAN],
           sends' \in [Requests -> Nat],
           UNCHANGED <<NextConnectionId, shut, now, kind, slot, conn, reused>>
    PROVE  ThreadTypes'
<1>1. ThreadTypes
  BY InvParts
<1>2. pc' \in [Requests -> Using \cup {"idle", "reacquire", "done"}]
  BY <1>1 DEF ThreadTypes, Goto
<1>3. \A q \in Requests : slot'[q] = 0 <=> pc'[q] \notin Using
  BY <1>1 DEF ThreadTypes, Goto
<1>4. QED
  BY <1>1, <1>2, <1>3 DEF ThreadTypes

\* What the steps below use of the invariant and of the entry's layers.
LEMMA StepFacts ==
    ASSUME PoolInv, NEW r \in Requests, pc[r] \in Using
    PROVE  /\ Entry(r) \in EntryType
           /\ Key(r) \in KeyType
           /\ slot[r] \in Slots
           /\ status \in [Requests -> Statuses]
           /\ original \in [Requests -> {"none", "stale", "error"}]
           /\ reusable \in [Requests -> BOOLEAN]
           /\ sends \in [Requests -> Nat]
           /\ Consistent(Entries, ActiveCount)
<1>1. Entry(r) \in EntryType /\ slot[r] \in Slots
  BY HeldEntry DEF PoolInv
<1>2. Key(r) \in KeyType
  BY SendAssumption, PoolAssumption DEF PoolInv, TypeOK, Key
<1>3. QED
  BY <1>1, <1>2 DEF PoolInv, TypeOK

\* A failed step: the status is a failure, the request goes to "finish".
LEMMA FailTypes ==
    ASSUME NEW r \in Requests, NEW s \in Statuses, Fail(r, s),
           status \in [Requests -> Statuses]
    PROVE  /\ status' \in [Requests -> Statuses]
           /\ Goto(r, "finish")
           /\ "finish" \in Using
BY DEF Fail, Using

LEMMA EnsureSocketPreserves ==
    ASSUME PoolInv, NEW r \in Requests, EnsureSocketConnected(r)
    PROVE  PoolInv'
<1>1. pc[r] \in Using
  BY DEF EnsureSocketConnected, Using
<1>2. PICK p \in {"tls", "dial"} : Goto(r, p)
  BY DEF EnsureSocketConnected
<1>3. p \in Using
  BY DEF Using
<1>4. Consistent(Entries', ActiveCount')
  <2>1. CASE UNCHANGED Entries
    BY <1>1, <2>1, StepFacts DEF EnsureSocketConnected
  <2>2. CASE SetEntry(r, TornDown(Entry(r)))
    <3>1. LinkOnly(Entry(r), TornDown(Entry(r)))
      BY <1>1, StepFacts, LinkLayers
    <3>2. QED
      BY <1>1, <2>2, <3>1, LinkStep DEF EnsureSocketConnected
  <2>3. QED
    BY <2>1, <2>2 DEF EnsureSocketConnected
<1>5. ThreadTypes'
  BY <1>1, <1>2, <1>3, StepFacts, ThreadStep DEF EnsureSocketConnected
<1>6. QED
  BY <1>4, <1>5, InvPartsPrime

LEMMA DialPreserves ==
    ASSUME PoolInv, NEW r \in Requests, ConnectSocketToAddress(r)
    PROVE  PoolInv'
<1>1. pc[r] \in Using
  BY DEF ConnectSocketToAddress, Using
<1>2. CASE Goto(r, "tls") /\ SetEntry(r, Dialled(Entry(r))) /\ UNCHANGED status
  <2>1. LinkOnly(Entry(r), Dialled(Entry(r)))
    BY <1>1, StepFacts, LinkLayers
  <2>2. Consistent(Entries', ActiveCount')
    BY <1>1, <1>2, <2>1, LinkStep DEF ConnectSocketToAddress
  <2>3. "tls" \in Using
    BY DEF Using
  <2>4. ThreadTypes'
    BY <1>1, <1>2, <2>3, StepFacts, ThreadStep DEF ConnectSocketToAddress
  <2>5. QED
    BY <2>2, <2>4, InvPartsPrime
<1>3. CASE (\E s \in Failures : Fail(r, Reported(r, s))) /\ UNCHANGED Entries
  <2>1. PICK s \in Failures : Fail(r, Reported(r, s))
    BY <1>3
  <2>2. Reported(r, s) \in Statuses
    BY <1>1, StepFacts DEF Reported, Failures, Statuses
  <2>3. status' \in [Requests -> Statuses] /\ Goto(r, "finish") /\ "finish" \in Using
    BY <1>1, <2>1, <2>2, StepFacts, FailTypes
  <2>4. ThreadTypes'
    BY <1>1, <2>3, StepFacts, ThreadStep DEF ConnectSocketToAddress
  <2>5. Consistent(Entries', ActiveCount')
    BY <1>1, <1>3, StepFacts DEF ConnectSocketToAddress
  <2>6. QED
    BY <2>4, <2>5, InvPartsPrime
<1>4. QED
  BY <1>2, <1>3 DEF ConnectSocketToAddress

LEMMA EnsureTlsPreserves ==
    ASSUME PoolInv, NEW r \in Requests, EnsureTlsConnected(r)
    PROVE  PoolInv'
<1>1. pc[r] \in Using
  BY DEF EnsureTlsConnected, Using
<1>2. PICK p \in {"send", "tunnel"} : Goto(r, p)
  BY DEF EnsureTlsConnected
<1>3. p \in Using
  BY DEF Using
<1>4. Consistent(Entries', ActiveCount')
  <2>1. CASE UNCHANGED Entries
    BY <1>1, <2>1, StepFacts DEF EnsureTlsConnected
  <2>2. CASE SetEntry(r, WithoutTls(Entry(r)))
    <3>1. LinkOnly(Entry(r), WithoutTls(Entry(r)))
      BY <1>1, StepFacts, LinkLayers
    <3>2. QED
      BY <1>1, <2>2, <3>1, LinkStep DEF EnsureTlsConnected
  <2>3. QED
    BY <2>1, <2>2 DEF EnsureTlsConnected
<1>5. ThreadTypes'
  BY <1>1, <1>2, <1>3, StepFacts, ThreadStep DEF EnsureTlsConnected
<1>6. QED
  BY <1>4, <1>5, InvPartsPrime

LEMMA TunnelPreserves ==
    ASSUME PoolInv, NEW r \in Requests, EstablishProxyTunnel(r)
    PROVE  PoolInv'
<1>1. pc[r] \in Using
  BY DEF EstablishProxyTunnel, Using
<1>2. Consistent(Entries', ActiveCount')
  <2>1. CASE UNCHANGED Entries
    BY <1>1, <2>1, StepFacts DEF EstablishProxyTunnel
  <2>2. CASE SetEntry(r, Tunnelled(Entry(r)))
    <3>1. LinkOnly(Entry(r), Tunnelled(Entry(r)))
      BY <1>1, StepFacts, LinkLayers
    <3>2. QED
      BY <1>1, <2>2, <3>1, LinkStep DEF EstablishProxyTunnel
  <2>3. QED
    BY <2>1, <2>2 DEF EstablishProxyTunnel
<1>3. \/ Goto(r, "handshake") /\ UNCHANGED status
      \/ \E s \in Failures : Fail(r, Reported(r, s))
  BY DEF EstablishProxyTunnel
<1>4. ThreadTypes'
  <2>1. CASE Goto(r, "handshake") /\ UNCHANGED status
    <3>1. "handshake" \in Using
      BY DEF Using
    <3>2. QED
      BY <1>1, <2>1, <3>1, StepFacts, ThreadStep DEF EstablishProxyTunnel
  <2>2. CASE \E s \in Failures : Fail(r, Reported(r, s))
    <3>1. PICK s \in Failures : Fail(r, Reported(r, s))
      BY <2>2
    <3>2. Reported(r, s) \in Statuses
      BY <1>1, StepFacts DEF Reported, Failures, Statuses
    <3>3. status' \in [Requests -> Statuses] /\ Goto(r, "finish") /\ "finish" \in Using
      BY <1>1, <3>1, <3>2, StepFacts, FailTypes
    <3>4. QED
      BY <1>1, <3>3, StepFacts, ThreadStep DEF EstablishProxyTunnel
  <2>3. QED
    BY <1>3, <2>1, <2>2
<1>5. QED
  BY <1>2, <1>4, InvPartsPrime

LEMMA HandshakePreserves ==
    ASSUME PoolInv, NEW r \in Requests, ConnectTlsOnExistingSocket(r)
    PROVE  PoolInv'
<1>1. pc[r] \in Using
  BY DEF ConnectTlsOnExistingSocket, Using
<1>2. ASSUME NEW a \in Negotiable(Key(r)), SetEntry(r, Secured(Entry(r), a)),
             Goto(r, "send"), original' = [original EXCEPT ![r] = "none"],
             UNCHANGED status
      PROVE  PoolInv'
  <2>1. a \in Alpns
    BY <1>1, StepFacts DEF Negotiable, Alpns, KeyType
  <2>2. LinkOnly(Entry(r), Secured(Entry(r), a))
    BY <1>1, <2>1, StepFacts, LinkLayers
  <2>3. Consistent(Entries', ActiveCount')
    BY <1>1, <1>2, <2>2, LinkStep DEF ConnectTlsOnExistingSocket
  <2>4. "send" \in Using
    BY DEF Using
  <2>5. original' \in [Requests -> {"none", "stale", "error"}]
    BY <1>1, <1>2, StepFacts
  <2>6. ThreadTypes'
    BY <1>1, <1>2, <2>4, <2>5, StepFacts, ThreadStep DEF ConnectTlsOnExistingSocket
  <2>7. QED
    BY <2>3, <2>6, InvPartsPrime
<1>3. ASSUME NEW s \in Failures, Fail(r, s), UNCHANGED <<Entries, original>>
      PROVE  PoolInv'
  <2>1. s \in Statuses
    BY DEF Failures, Statuses
  <2>2. status' \in [Requests -> Statuses] /\ Goto(r, "finish") /\ "finish" \in Using
    BY <1>1, <1>3, <2>1, StepFacts, FailTypes
  <2>3. ThreadTypes'
    BY <1>1, <1>3, <2>2, StepFacts, ThreadStep DEF ConnectTlsOnExistingSocket
  <2>4. Consistent(Entries', ActiveCount')
    BY <1>1, <1>3, StepFacts DEF ConnectTlsOnExistingSocket
  <2>5. QED
    BY <2>3, <2>4, InvPartsPrime
<1>4. QED
  BY <1>2, <1>3 DEF ConnectTlsOnExistingSocket

LEMMA ConfirmTls12Preserves ==
    ASSUME PoolInv, NEW r \in Requests, ConfirmTls12(r)
    PROVE  PoolInv'
<1>1. pc[r] \in Using
  BY DEF ConfirmTls12, Using
<1>2. Consistent(Entries', ActiveCount')
  <2>1. LinkOnly(Entry(r), Closed(Entry(r)))
    BY <1>1, StepFacts, LinkLayers
  <2>2. QED
    BY <1>1, <2>1, LinkStep DEF ConfirmTls12
<1>3. ASSUME NEW s \in Failures, original' = [original EXCEPT ![r] = s],
             Goto(r, "socket"), UNCHANGED status
      PROVE  ThreadTypes'
  <2>1. original' \in [Requests -> {"none", "stale", "error"}]
    BY <1>1, <1>3, StepFacts DEF Failures
  <2>2. "socket" \in Using
    BY DEF Using
  <2>3. QED
    BY <1>1, <1>3, <2>1, <2>2, StepFacts, ThreadStep DEF ConfirmTls12
<1>4. ASSUME Fail(r, original[r]), UNCHANGED original
      PROVE  ThreadTypes'
  <2>1. original[r] \in Statuses
    BY <1>1, StepFacts DEF Statuses
  <2>2. status' \in [Requests -> Statuses] /\ Goto(r, "finish") /\ "finish" \in Using
    BY <1>1, <1>4, <2>1, StepFacts, FailTypes
  <2>3. QED
    BY <1>1, <1>4, <2>2, StepFacts, ThreadStep DEF ConfirmTls12
<1>5. QED
  BY <1>2, <1>3, <1>4, InvPartsPrime DEF ConfirmTls12

LEMMA SendPreserves ==
    ASSUME PoolInv, NEW r \in Requests, Send(r)
    PROVE  PoolInv'
<1> DEFINE e == WithNegotiatedAlpn(Entry(r), Key(r))
           f == WithHttp2(e, e.Http2 \/ e.Alpn = "h2")
<1>1. pc[r] \in Using
  BY DEF Send, Using
<1>2. LinkOnly(Entry(r), e)
  BY <1>1, StepFacts, NegotiatedKey
<1>3. LinkOnly(Entry(r), f)
  <2>1. e \in EntryType
    BY <1>2 DEF LinkOnly
  <2>2. (e.Http2 \/ e.Alpn = "h2") \in BOOLEAN
    OBVIOUS
  <2>3. LinkOnly(e, f)
    BY <2>1, <2>2, LinkLayers
  <2>4. QED
    BY <1>2, <2>3 DEF LinkOnly
<1>4. SetEntry(r, e) \/ SetEntry(r, f)
  BY DEF Send
<1>5. ActiveCount' = ActiveCount
  BY DEF Send
<1>6. Consistent(Entries', ActiveCount')
  <2> HIDE DEF e, f
  <2> QED
    BY <1>1, <1>2, <1>3, <1>4, <1>5, LinkStep
<1>7. sends' \in [Requests -> Nat]
  <2>1. sends' = sends \/ sends' = [sends EXCEPT ![r] = @ + 1]
    BY DEF Send
  <2>2. QED
    BY <1>1, <2>1, StepFacts
<1>8. UNCHANGED <<NextConnectionId, shut, now, kind, slot, conn, reused, original, reusable>>
  BY DEF Send
<1>9. \/ \E s \in Statuses : Fail(r, s)
      \/ (Goto(r, "promote") \/ Goto(r, "receive")) /\ UNCHANGED status
  BY DEF Send, Failures, Statuses
<1>10. ThreadTypes'
  <2>1. ASSUME NEW s \in Statuses, Fail(r, s) PROVE ThreadTypes'
    <3>1. status' \in [Requests -> Statuses] /\ Goto(r, "finish") /\ "finish" \in Using
      BY <1>1, <2>1, StepFacts, FailTypes
    <3>2. QED
      BY <1>1, <1>7, <1>8, <3>1, StepFacts, ThreadStep
  <2>2. CASE (Goto(r, "promote") \/ Goto(r, "receive")) /\ UNCHANGED status
    <3>1. "promote" \in Using /\ "receive" \in Using
      BY DEF Using
    <3>2. QED
      BY <1>1, <1>7, <1>8, <2>2, <3>1, StepFacts, ThreadStep
  <2>3. QED
    BY <1>9, <2>1, <2>2
<1>11. QED
  BY <1>6, <1>10, InvPartsPrime

LEMMA PromotePreserves ==
    ASSUME PoolInv, NEW r \in Requests, Promote(r)
    PROVE  PoolInv'
<1>1. pc[r] \in Using
  BY DEF Promote, Using
<1>2. PICK limit \in StreamLimits :
        IF CanPromote(Entry(r), limit)
        THEN /\ Entries' = PromoteResult(Entries, slot[r], limit)
             /\ Goto(r, "receive")
             /\ UNCHANGED status
        ELSE Fail(r, "error") /\ UNCHANGED Entries
  BY DEF Promote
<1>3. UNCHANGED <<ActiveCount, NextConnectionId, shut, now, kind, slot, conn,
                  reused, original, reusable, sends>>
  BY DEF Promote
<1>4. CASE CanPromote(Entry(r), limit)
  <2> DEFINE e == Entry(r)
             f == [e EXCEPT !.MaxLeases = limit, !.Leases = 1]
  <2>1. e \in EntryType /\ limit \in Nat
    BY <1>1, StepFacts, SendAssumption
  <2>2. LinkOnly(e, f)
    <3> HIDE DEF e
    <3> QED
      BY <2>1 DEF LinkOnly, EntryType
  <2>3. SetEntry(r, f)
    BY <1>2, <1>4 DEF SetEntry, PromoteResult, Entry
  <2>4. Consistent(Entries', ActiveCount')
    <3> HIDE DEF f
    <3> QED
      BY <1>1, <1>3, <2>2, <2>3, LinkStep
  <2>5. "receive" \in Using
    BY DEF Using
  <2>6. ThreadTypes'
    BY <1>1, <1>2, <1>3, <1>4, <2>5, StepFacts, ThreadStep
  <2>7. QED
    BY <2>4, <2>6, InvPartsPrime
<1>5. CASE ~CanPromote(Entry(r), limit)
  <2>1. "error" \in Statuses
    BY DEF Statuses
  <2>2. status' \in [Requests -> Statuses] /\ Goto(r, "finish") /\ "finish" \in Using
    BY <1>1, <1>2, <1>5, <2>1, StepFacts, FailTypes
  <2>3. ThreadTypes'
    BY <1>1, <1>3, <2>2, StepFacts, ThreadStep
  <2>4. Consistent(Entries', ActiveCount')
    BY <1>1, <1>2, <1>3, <1>5, StepFacts
  <2>5. QED
    BY <2>3, <2>4, InvPartsPrime
<1>6. QED
  BY <1>4, <1>5

LEMMA ReceivePreserves ==
    ASSUME PoolInv, NEW r \in Requests, Receive(r)
    PROVE  PoolInv'
<1>1. pc[r] \in Using
  BY DEF Receive, Using
<1>2. UNCHANGED <<ActiveCount, NextConnectionId, shut, now, kind, slot, conn,
                  reused, original, sends>>
  BY DEF Receive
<1>3. Consistent(Entries', ActiveCount')
  <2>1. PICK e : LinkOnly(Entry(r), e) /\ (SetEntry(r, e) \/ UNCHANGED Entries)
    <3>1. /\ LinkOnly(Entry(r), Lost(Entry(r)))
          /\ LinkOnly(Entry(r), TlsFailed(Entry(r)))
      BY <1>1, StepFacts, LinkLayers
    <3>2. \/ UNCHANGED Entries
          \/ SetEntry(r, Lost(Entry(r)))
          \/ SetEntry(r, TlsFailed(Entry(r)))
      BY DEF Receive
    <3>3. QED
      BY <3>1, <3>2
  <2>2. CASE UNCHANGED Entries
    BY <1>1, <1>2, <2>2, StepFacts
  <2>3. CASE SetEntry(r, e)
    BY <1>1, <1>2, <2>1, <2>3, LinkStep
  <2>4. QED
    BY <2>1, <2>2, <2>3
<1>4. reusable' \in [Requests -> BOOLEAN]
  <2>1. \E b \in BOOLEAN : reusable' = reusable \/ reusable' = [reusable EXCEPT ![r] = b]
    BY DEF Receive
  <2>2. QED
    BY <1>1, <2>1, StepFacts
<1>5. \E s \in Statuses : Fail(r, s)
  BY DEF Receive, Fail, Failures, Statuses
<1>6. PICK s \in Statuses : Fail(r, s)
  BY <1>5
<1>7. status' \in [Requests -> Statuses] /\ Goto(r, "finish") /\ "finish" \in Using
  BY <1>1, <1>6, StepFacts, FailTypes
<1>8. ThreadTypes'
  BY <1>1, <1>2, <1>4, <1>7, StepFacts, ThreadStep
<1>9. QED
  BY <1>3, <1>8, InvPartsPrime

-----------------------------------------------------------------------------
(* Giving the connection back, and the theorems.                           *)

\* The request lets go of its connection.
LEMMA LetGo ==
    ASSUME PoolInv, NEW r \in Requests, NEW p \in {"reacquire", "done"},
           Goto(r, p), slot' = [slot EXCEPT ![r] = 0],
           UNCHANGED <<NextConnectionId, shut, now, kind, conn, reused,
                       original, status, reusable, sends>>
    PROVE  ThreadTypes'
<1>1. ThreadTypes
  BY InvParts
<1>2. pc' \in [Requests -> Using \cup {"idle", "reacquire", "done"}]
  BY <1>1 DEF ThreadTypes, Goto
<1>3. slot' \in [Requests -> {0} \cup Slots]
  BY <1>1 DEF ThreadTypes
<1>4. \A q \in Requests : slot'[q] = 0 <=> pc'[q] \notin Using
  BY <1>1 DEF ThreadTypes, Goto, Using
<1>5. QED
  BY <1>1, <1>2, <1>3, <1>4 DEF ThreadTypes

LEMMA CloseForRetryPreserves ==
    ASSUME PoolInv, NEW r \in Requests, CloseForRetry(r)
    PROVE  PoolInv'
<1>1. pc[r] \in Using
  BY DEF CloseForRetry, Using
<1>2. Consistent(CloseResult(Entries, ActiveCount, slot[r]).E,
                 CloseResult(Entries, ActiveCount, slot[r]).A)
  BY <1>1, StepFacts, CloseConsistent
<1>3. Consistent(Entries', ActiveCount')
  BY <1>2 DEF CloseForRetry
<1>4. ThreadTypes'
  BY LetGo DEF CloseForRetry
<1>5. QED
  BY <1>3, <1>4, InvPartsPrime

LEMMA ReleasePreserves ==
    ASSUME PoolInv, NEW r \in Requests, Release(r)
    PROVE  PoolInv'
<1> DEFINE p == ReleaseResult(Entries, ActiveCount, slot[r], CanReturnToPool(r), now)
<1>1. pc[r] \in Using
  BY DEF Release, Using
<1>2. CanReturnToPool(r) \in BOOLEAN /\ now \in Nat
  BY DEF CanReturnToPool, PoolInv, TypeOK
<1>3. Consistent(p.E, p.A)
  BY <1>1, <1>2, StepFacts, ReleaseConsistent
<1>4. Consistent(Entries', ActiveCount')
  BY <1>3 DEF Release
<1>5. ThreadTypes'
  BY LetGo DEF Release
<1>6. QED
  BY <1>4, <1>5, InvPartsPrime

LEMMA ShutdownPreserves ==
    ASSUME PoolInv, Shutdown
    PROVE  PoolInv'
<1>1. Consistent(Entries', ActiveCount')
  BY EmptyConsistent DEF Shutdown, ShutdownEntries
<1>2. ThreadTypes'
  BY InvParts DEF Shutdown, ThreadTypes, request
<1>3. QED
  BY <1>1, <1>2, InvPartsPrime

LEMMA TickPreserves ==
    ASSUME PoolInv, Tick
    PROVE  PoolInv'
<1>1. Consistent(Entries', ActiveCount')
  BY DEF Tick, pool, PoolInv
<1>2. ThreadTypes'
  BY InvParts DEF Tick, ThreadTypes, request, pool
<1>3. QED
  BY <1>1, <1>2, InvPartsPrime

\* Every step of a request, of the clock and of the session keeps the invariant.
LEMMA PoolInvStep == PoolInv /\ [Next]_vars => PoolInv'
<1> SUFFICES ASSUME PoolInv, [Next]_vars PROVE PoolInv'
  OBVIOUS
<1>1. ASSUME NEW r \in Requests, Acquire(r) PROVE PoolInv'
  BY <1>1, AcquirePreserves
<1>2. ASSUME NEW r \in Requests, Progress(r) PROVE PoolInv'
  BY <1>2, EnsureSocketPreserves, DialPreserves, EnsureTlsPreserves,
     TunnelPreserves, HandshakePreserves, ConfirmTls12Preserves, SendPreserves,
     PromotePreserves, ReceivePreserves, CloseForRetryPreserves, RetryPreserves,
     ReleasePreserves
     DEF Progress
<1>3. CASE Tick
  BY <1>3, TickPreserves
<1>4. CASE Shutdown
  BY <1>4, ShutdownPreserves
<1>5. CASE UNCHANGED vars
  <2>1. ThreadTypes' /\ Consistent(Entries', ActiveCount')
    BY <1>5, InvParts DEF vars, pool, request, ThreadTypes
  <2>2. QED
    BY <2>1, InvPartsPrime
<1>6. QED
  BY <1>1, <1>2, <1>3, <1>4, <1>5 DEF Next

\* The inductive invariant holds in every reachable state of every instance.
THEOREM PoolInvariant == Spec => []PoolInv
<1>1. Init => PoolInv
  BY PoolInvInit
<1>2. PoolInv /\ [Next]_vars => PoolInv'
  BY PoolInvStep
<1>3. QED
  BY <1>1, <1>2, PTL DEF Spec

\* Type correctness of the pool and of the request threads; in particular a
\* request has a pooledConnection exactly while it is between a successful
\* acquire and the close or release.
THEOREM Typing == Spec => []TypeOK
<1>1. PoolInv => TypeOK
  BY DEF PoolInv
<1>2. QED
  BY <1>1, PoolInvariant, PTL

\* ActiveCount is exact for every capacity, key set and number of requests.
THEOREM ActiveCountCorrect == Spec => []ActiveCountExact
<1>1. PoolInv => ActiveCountExact
  BY DEF PoolInv, Consistent, ConnectedSlots, ActiveCountExact
<1>2. QED
  BY <1>1, PoolInvariant, PTL

\* No mixture of policies, evictions, expiries, closes and retries opens more
\* than MaxConnectionsPerHost connections to a host.
THEOREM QuotaCorrect == Spec => []QuotaRespected
<1>1. PoolInv => QuotaRespected
  BY DEF PoolInv, Consistent, QuotaRespected
<1>2. QED
  BY <1>1, PoolInvariant, PTL
-----------------------------------------------------------------------------
(* The ledger: what holds of every pool, retries on shared connections       *)
(* included.                                                                 *)

\* A request may go to a transport once more than it may be replayed.
Replays(r) == IF kind[r].safe /\ kind[r].policy = "ReuseOrCreate" THEN 1 ELSE 0
Unsent == {"idle", "socket", "dial", "tls", "tunnel", "handshake", "send"}

\* A request on a reused connection has not been replayed: this is what bounds
\* the replays, since the connection of a replay is new.
SendBudget(r) ==
    /\ pc[r] = "idle" \/ (pc[r] \in Unsent /\ reused[r]) => sends[r] = 0
    /\ pc[r] \in Unsent => sends[r] <= Replays(r)
    /\ reused[r] => sends[r] <= 1
    /\ pc[r] = "reacquire" => sends[r] <= 1 /\ Replays(r) = 1
    /\ sends[r] <= Replays(r) + 1

\* No more leases than holders, and a holder for an entry in use.
Backed(i) ==
    /\ Entries[i].Leases <= Cardinality(Holders(i))
    /\ Entries[i].InUse => Holders(i) # {}

\* A leased connection is in use, and a doomed one is leased.
Leased(e) ==
    /\ e.Leases # 0 => e.InUse
    /\ e.CloseWhenIdle => e.Leases # 0

\* Connections are numbered in the order they are opened.
Numbered ==
    /\ ~shut => NextConnectionId # 0 /\ \A i \in Slots : Entries[i].Id < NextConnectionId
    /\ \A i \in Slots : Entries[i].Connected => Entries[i].Id # 0
    /\ shut => \A r \in Requests : pc[r] \in {"idle", "done"}
    /\ now # 0

LedgerInv ==
    /\ PoolInv
    /\ \A r \in Requests : SendBudget(r)
    /\ \A i \in Slots : Backed(i)
    /\ \A i \in Slots : Leased(Entries[i])
    /\ Numbered

\* The holders of a slot are finitely many.
LEMMA HoldersFinite ==
    ASSUME NEW i PROVE IsFiniteSet(Holders(i)) /\ Cardinality(Holders(i)) \in Nat
<1>1. IsFiniteSet(Holders(i))
  BY SendAssumption, FS_Subset DEF Holders
<1>2. QED
  BY <1>1, FS_CardinalityType

LEMMA HolderJoins ==
    ASSUME TypeOK, NEW r \in Requests, slot[r] = 0, NEW j \in {0} \cup Slots,
           slot' = [slot EXCEPT ![r] = j]
    PROVE  /\ \A i \in Slots \ {j} : Holders(i)' = Holders(i)
           /\ j # 0 => /\ Holders(j)' = Holders(j) \cup {r}
                       /\ Cardinality(Holders(j))' = Cardinality(Holders(j)) + 1
<1>1. 0 \notin Slots
  BY DEF Slots
<1>2. \A i \in Slots \ {j} : Holders(i)' = Holders(i)
  BY <1>1 DEF Holders, TypeOK
<1>3. ASSUME j # 0
      PROVE  Holders(j)' = Holders(j) \cup {r} /\ r \notin Holders(j)
  BY <1>1, <1>3 DEF Holders, TypeOK
<1>4. QED
  BY <1>2, <1>3, HoldersFinite, FS_AddElement

LEMMA HolderLeaves ==
    ASSUME TypeOK, NEW r \in Requests, NEW j \in Slots, slot[r] = j,
           slot' = [slot EXCEPT ![r] = 0]
    PROVE  /\ \A i \in Slots \ {j} : Holders(i)' = Holders(i)
           /\ Holders(j)' = Holders(j) \ {r} /\ r \in Holders(j)
           /\ Cardinality(Holders(j))' = Cardinality(Holders(j)) - 1
<1>1. 0 \notin Slots
  BY DEF Slots
<1>2. \A i \in Slots \ {j} : Holders(i)' = Holders(i)
  BY <1>1 DEF Holders, TypeOK
<1>3. Holders(j)' = Holders(j) \ {r} /\ r \in Holders(j)
  BY <1>1 DEF Holders, TypeOK
<1>4. QED
  BY <1>2, <1>3, HoldersFinite, FS_RemoveElement

\* Fewer than one is none.
LEMMA SomeHolder ==
    ASSUME NEW i, Cardinality(Holders(i)) # 0 PROVE Holders(i) # {}
BY FS_EmptySet

-----------------------------------------------------------------------------
(* A step on the link of the request's own connection.                       *)

\* Entry f is e but for its link, its protocol and its time stamp.
SameBooks(e, f) ==
    /\ f \in EntryType
    /\ f.InUse = e.InUse /\ f.Connected = e.Connected /\ f.Id = e.Id
    /\ f.Leases = e.Leases /\ f.MaxLeases = e.MaxLeases
    /\ f.CloseWhenIdle = e.CloseWhenIdle
    /\ KeysEqualExceptAlpn(e.Key, f.Key)

LEMMA BooksKept ==
    ASSUME NEW e \in EntryType
    PROVE  /\ SameBooks(e, e)
           /\ SameBooks(e, TornDown(e))
           /\ SameBooks(e, WithoutTls(e))
           /\ SameBooks(e, Closed(e))
           /\ SameBooks(e, Dialled(e))
           /\ SameBooks(e, Tunnelled(e))
           /\ \A a \in Alpns : SameBooks(e, Secured(e, a))
           /\ SameBooks(e, Lost(e))
           /\ SameBooks(e, TlsFailed(e))
<1> USE DEF SameBooks, KeysEqualExceptAlpn
<1>1. SameBooks(e, e)
  OBVIOUS
<1>2. SameBooks(e, TornDown(e)) /\ SameBooks(e, Closed(e))
  <2>1. TornDown(e) \in EntryType /\ Closed(e) \in EntryType
    BY LinkLayers DEF LinkOnly
  <2>2. QED
    BY <2>1 DEF TornDown, Closed, EntryType
<1>3. SameBooks(e, WithoutTls(e)) /\ SameBooks(e, Dialled(e)) /\ SameBooks(e, Tunnelled(e))
  <2>1. WithoutTls(e) \in EntryType /\ Dialled(e) \in EntryType /\ Tunnelled(e) \in EntryType
    BY LinkLayers DEF LinkOnly
  <2>2. QED
    BY <2>1 DEF WithoutTls, Dialled, Tunnelled, EntryType
<1>4. ASSUME NEW a \in Alpns PROVE SameBooks(e, Secured(e, a))
  <2>1. Secured(e, a) \in EntryType
    BY LinkLayers DEF LinkOnly
  <2>2. QED
    BY <2>1 DEF Secured, EntryType
<1>5. SameBooks(e, Lost(e)) /\ SameBooks(e, TlsFailed(e))
  <2>1. Lost(e) \in EntryType /\ TlsFailed(e) \in EntryType
    BY LinkLayers DEF LinkOnly
  <2>2. QED
    BY <2>1 DEF Lost, TlsFailed, EntryType
<1>6. QED
  BY <1>1, <1>2, <1>3, <1>4, <1>5

\* What Send writes into the entry.
LEMMA SentBooksKept ==
    ASSUME NEW e \in EntryType, NEW key \in KeyType, NEW b \in BOOLEAN
    PROVE  LET f == WithNegotiatedAlpn(e, key)
           IN  /\ SameBooks(e, f) /\ SameBooks(e, WithHttp2(f, b))
               /\ f.Socket = e.Socket /\ f.Tunnel = e.Tunnel /\ f.Tls = e.Tls
               /\ f.Alpn = e.Alpn /\ f.Http2 = e.Http2
               /\ WithHttp2(f, b).Socket = e.Socket /\ WithHttp2(f, b).Tunnel = e.Tunnel
               /\ WithHttp2(f, b).Tls = e.Tls /\ WithHttp2(f, b).Alpn = e.Alpn
               /\ WithHttp2(f, b).Http2 = b
<1> DEFINE f == WithNegotiatedAlpn(e, key)
           g == WithHttp2(f, b)
<1>1. f \in EntryType
  BY NegotiatedKey DEF LinkOnly
<1>2. /\ SameBooks(e, f) /\ f.Socket = e.Socket /\ f.Tunnel = e.Tunnel /\ f.Tls = e.Tls
      /\ f.Alpn = e.Alpn /\ f.Http2 = e.Http2
  <2>1. CASE key.auto /\ e.Tls = "established" /\ e.Alpn # ""
    <3> DEFINE k == [e.Key EXCEPT !.alpn = e.Alpn]
    <3>1. k \in KeyType /\ KeysEqualExceptAlpn(e.Key, k)
      BY DEF EntryType, KeyType, KeysEqualExceptAlpn
    <3>2. f = [e EXCEPT !.Key = k]
      BY <2>1 DEF WithNegotiatedAlpn
    <3> HIDE DEF k
    <3>3. QED
      BY <1>1, <3>1, <3>2 DEF SameBooks, EntryType
  <2>2. CASE ~(key.auto /\ e.Tls = "established" /\ e.Alpn # "")
    BY <1>1, <2>2 DEF WithNegotiatedAlpn, SameBooks, KeysEqualExceptAlpn
  <2>3. QED
    BY <2>1, <2>2
<1> HIDE DEF f
<1>3. g \in EntryType
  BY <1>1, LinkLayers DEF LinkOnly
<1>4. g = [f EXCEPT !.Http2 = b]
  BY DEF WithHttp2
<1>5. /\ SameBooks(e, g) /\ g.Socket = f.Socket /\ g.Tunnel = f.Tunnel /\ g.Tls = f.Tls
      /\ g.Alpn = f.Alpn /\ g.Http2 = b
  BY <1>1, <1>2, <1>3, <1>4 DEF SameBooks, EntryType
<1>6. QED
  BY <1>2, <1>5 DEF f
\* A step of a request on the connection it holds: it disturbs its own entry, its
\* own position and, when it sends, its own count.
Moves(r) ==
    /\ pc[r] \in Using /\ pc'[r] \in Using /\ slot[r] \in Slots
    /\ \A q \in Requests \ {r} : pc'[q] = pc[q] /\ sends'[q] = sends[q]
    /\ UNCHANGED <<NextConnectionId, shut, now, kind, slot, conn, reused>>
    /\ \A i \in Slots \ {slot[r]} : Entries'[i] = Entries[i]
    /\ SameBooks(Entries[slot[r]], Entries'[slot[r]])
    /\ \/ sends'[r] = sends[r] /\ (pc'[r] \in Unsent => pc[r] \in Unsent)
       \/ pc[r] = "send" /\ sends'[r] = sends[r] + 1 /\ pc'[r] \notin Unsent

\* The steps of SendViaTransport but for the promotion to a shared connection.
LinkActions(r) ==
    \/ EnsureSocketConnected(r) \/ ConnectSocketToAddress(r) \/ EnsureTlsConnected(r)
    \/ EstablishProxyTunnel(r) \/ ConnectTlsOnExistingSocket(r) \/ ConfirmTls12(r)
    \/ Send(r) \/ Receive(r)

\* How the entry changes in them.
LEMMA EntryMoves ==
    ASSUME PoolInv, NEW r \in Requests, LinkActions(r)
    PROVE  /\ pc[r] \in Using
           /\ \E f \in EntryType : SameBooks(Entry(r), f) /\ SetEntry(r, f)
<1>1. pc[r] \in Using
  BY DEF LinkActions, Using, EnsureSocketConnected, ConnectSocketToAddress,
         EnsureTlsConnected, EstablishProxyTunnel, ConnectTlsOnExistingSocket,
         ConfirmTls12, Send, Receive
<1> DEFINE e == Entry(r)
<1>2. e \in EntryType /\ Key(r) \in KeyType /\ slot[r] \in Slots
  BY <1>1, StepFacts
<1>3. SUFFICES \E f : SameBooks(e, f) /\ SetEntry(r, f)
  BY <1>1 DEF SameBooks
<1>4. CASE UNCHANGED Entries
  <2>1. SetEntry(r, e)
    BY <1>2, <1>4 DEF SetEntry, Entry, PoolInv, TypeOK
  <2>2. SameBooks(e, e)
    BY <1>2, BooksKept
  <2>3. QED
    BY <2>1, <2>2
<1>5. CASE \/ SetEntry(r, TornDown(e)) \/ SetEntry(r, WithoutTls(e)) \/ SetEntry(r, Closed(e))
           \/ SetEntry(r, Dialled(e)) \/ SetEntry(r, Tunnelled(e)) \/ SetEntry(r, Lost(e))
           \/ SetEntry(r, TlsFailed(e))
  <2> HIDE DEF e
  <2>1. QED
    BY <1>2, <1>5, BooksKept
<1>6. ASSUME NEW a \in Negotiable(Key(r)), SetEntry(r, Secured(e, a))
      PROVE  \E f : SameBooks(e, f) /\ SetEntry(r, f)
  <2>1. a \in Alpns
    BY <1>2, <1>6 DEF Negotiable, KeyType, Alpns
  <2> HIDE DEF e
  <2>2. QED
    BY <1>2, <1>6, <2>1, BooksKept
<1>7. CASE Send(r)
  <2> DEFINE f == WithNegotiatedAlpn(e, Key(r))
             b == f.Http2 \/ f.Alpn = "h2"
  <2>1. SetEntry(r, f) \/ SetEntry(r, WithHttp2(f, b))
    BY <1>7 DEF Send
  <2>2. b \in BOOLEAN
    OBVIOUS
  <2>3. SameBooks(e, f) /\ SameBooks(e, WithHttp2(f, b))
    <3> HIDE DEF b, e
    <3> QED
      BY <1>2, <2>2, SentBooksKept
  <2>4. QED
    BY <2>1, <2>3
<1>8. QED
  BY <1>4, <1>5, <1>6, <1>7
     DEF LinkActions, EnsureSocketConnected, ConnectSocketToAddress, EnsureTlsConnected,
         EstablishProxyTunnel, ConnectTlsOnExistingSocket, ConfirmTls12, Receive

LEMMA LinkMoves ==
    ASSUME PoolInv, NEW r \in Requests, LinkActions(r)
    PROVE  Moves(r)
<1>1. pc[r] \in Using /\ \E f \in EntryType : SameBooks(Entry(r), f) /\ SetEntry(r, f)
  BY EntryMoves
<1>2. slot[r] \in Slots /\ sends \in [Requests -> Nat] /\ pc \in [Requests -> Using \cup {"idle", "reacquire", "done"}]
  BY <1>1 DEF PoolInv, TypeOK
<1>3. PICK f : SameBooks(Entry(r), f) /\ SetEntry(r, f)
  BY <1>1
<1>4. /\ \A i \in Slots \ {slot[r]} : Entries'[i] = Entries[i]
      /\ SameBooks(Entries[slot[r]], Entries'[slot[r]])
  <2>1. Entries \in [Slots -> EntryType]
    BY DEF PoolInv, TypeOK
  <2>2. Entries'[slot[r]] = f
    BY <1>2, <1>3, <2>1 DEF SetEntry
  <2>3. QED
    BY <1>2, <1>3, <2>1, <2>2 DEF SetEntry, Entry
<1>5. UNCHANGED <<NextConnectionId, shut, now, kind, slot, conn, reused>>
  BY DEF LinkActions, EnsureSocketConnected, ConnectSocketToAddress, EnsureTlsConnected,
         EstablishProxyTunnel, ConnectTlsOnExistingSocket, ConfirmTls12, Send, Receive
<1>6. CASE ~Send(r) /\ ~Receive(r)
  <2>1. sends' = sends /\ pc[r] \in Unsent
    BY <1>6 DEF LinkActions, EnsureSocketConnected, ConnectSocketToAddress, EnsureTlsConnected,
         EstablishProxyTunnel, ConnectTlsOnExistingSocket, ConfirmTls12, Unsent
  <2>2. \E p \in Using : Goto(r, p)
    BY <1>6 DEF LinkActions, EnsureSocketConnected, ConnectSocketToAddress, EnsureTlsConnected,
         EstablishProxyTunnel, ConnectTlsOnExistingSocket, ConfirmTls12, Fail, Using
  <2>3. QED
    BY <1>1, <1>2, <1>4, <1>5, <2>1, <2>2 DEF Moves, Goto
<1>7. CASE Receive(r)
  <2>1. sends' = sends /\ Goto(r, "finish")
    BY <1>7 DEF Receive, Fail
  <2>2. "finish" \in Using /\ "finish" \notin Unsent
    BY DEF Using, Unsent
  <2>3. QED
    BY <1>1, <1>2, <1>4, <1>5, <2>1, <2>2 DEF Moves, Goto
<1>8. CASE Send(r)
  <2>1. \E p \in {"finish", "promote", "receive"} : Goto(r, p)
    BY <1>8 DEF Send, Fail
  <2>2. pc[r] = "send" /\ (sends' = sends \/ sends' = [sends EXCEPT ![r] = @ + 1])
    BY <1>8 DEF Send
  <2>3. pc'[r] \in Using /\ pc'[r] \notin Unsent /\ \A q \in Requests \ {r} : pc'[q] = pc[q]
    BY <1>2, <2>1 DEF Goto, Using, Unsent
  <2>4. QED
    BY <1>1, <1>2, <1>4, <1>5, <2>2, <2>3 DEF Moves
<1>9. QED
  BY <1>6, <1>7, <1>8

\* A request that is on its way finds the session open.
LEMMA NotShut ==
    ASSUME LedgerInv, NEW r \in Requests, pc[r] \notin {"idle", "done"}
    PROVE  shut = FALSE
BY DEF LedgerInv, Numbered, PoolInv, TypeOK

LEMMA MovesKeepLedger ==
    ASSUME LedgerInv, PoolInv', NEW r \in Requests, Moves(r)
    PROVE  LedgerInv'
<1> USE DEF LedgerInv
<1>0. sends \in [Requests -> Nat] /\ pc \in [Requests -> Using \cup {"idle", "reacquire", "done"}]
  BY DEF PoolInv, TypeOK
<1>1. ASSUME NEW q \in Requests PROVE SendBudget(q)'
  <2>1. Replays(q)' = Replays(q) /\ reused'[q] = reused[q] /\ Replays(q) \in {0, 1}
    BY DEF Moves, Replays
  <2>2. CASE q # r
    BY <2>1, <2>2 DEF Moves, SendBudget
  <2>3. CASE q = r
    <3>1. pc'[q] \notin {"idle", "reacquire"} /\ pc[q] # "idle" /\ sends[q] \in Nat /\ SendBudget(q)
      BY <1>0, <2>3 DEF Moves, Using
    <3>2. "send" \in Unsent
      BY DEF Unsent
    <3>3. QED
      BY <2>1, <2>3, <3>1, <3>2 DEF Moves, SendBudget
  <2>4. QED
    BY <2>2, <2>3
<1>2. ASSUME NEW i \in Slots PROVE Backed(i)' /\ Leased(Entries[i])'
  <2>1. Holders(i)' = Holders(i)
    BY DEF Moves, Holders
  <2>2. /\ Entries'[i].Leases = Entries[i].Leases /\ Entries'[i].InUse = Entries[i].InUse
        /\ Entries'[i].Connected = Entries[i].Connected
        /\ Entries'[i].CloseWhenIdle = Entries[i].CloseWhenIdle
    BY DEF Moves, SameBooks
  <2>3. QED
    BY <2>1, <2>2 DEF Backed, Leased
<1>3. Numbered'
  <2>1. \A i \in Slots : /\ Entries'[i].Id = Entries[i].Id
                         /\ Entries'[i].Connected = Entries[i].Connected
    BY DEF Moves, SameBooks
  <2>2. ~shut
    BY NotShut DEF Moves, Using
  <2>3. QED
    BY <2>1, <2>2 DEF Moves, Numbered
<1>4. QED
  BY <1>1, <1>2, <1>3
-----------------------------------------------------------------------------
(* Acquiring and giving back, and the ledger.                                *)

\* The request gets a connection, or none: shared or reused on its first attempt
\* only, or new.
Takes(r, j, b) ==
    /\ pc[r] \in {"idle", "reacquire"} /\ slot[r] = 0 /\ ~shut
    /\ j \in {0} \cup Slots
    /\ slot' = [slot EXCEPT ![r] = j]
    /\ conn' = [conn EXCEPT ![r] = IF j = 0 THEN 0 ELSE Entries'[j].Id]
    /\ reused' = [reused EXCEPT ![r] = b]
    /\ NextConnectionId' = NextConnectionId + IF j # 0 /\ ~b THEN 1 ELSE 0
    /\ \A q \in Requests \ {r} : pc'[q] = pc[q]
    /\ pc'[r] \in (IF j = 0 THEN {"done"} ELSE {"socket", "finish"})
    /\ UNCHANGED <<shut, now, kind, sends>>
    /\ \/ /\ b = TRUE /\ pc[r] = "idle"
          /\ \/ Shares(Entries, Entries', j, Key(r))
             \/ Reuses(Entries, Entries', j, Key(r), now)
       \/ b = FALSE /\ Renews(Entries, Entries', j, Key(r), NextConnectionId)

LEMMA AcquireTakes ==
    ASSUME PoolInv, NEW r \in Requests, Acquire(r)
    PROVE  \E j, b : Takes(r, j, b) /\ pc'[r] # "finish"
<1> DEFINE res == AcquireResult(Entries, ActiveCount, Key(r), kind[r].policy,
                                now, NextConnectionId)
<1>1. Key(r) \in Keys /\ now \in Nat /\ NextConnectionId \in Nat /\ Consistent(Entries, ActiveCount)
  BY SendAssumption DEF PoolInv, TypeOK, Key
<1>2. \/ /\ kind[r].policy = "ReuseOrCreate" /\ res.reused = TRUE
         /\ \/ Shares(Entries, res.pool.E, res.slot, Key(r))
            \/ Reuses(Entries, res.pool.E, res.slot, Key(r), now)
      \/ res.reused = FALSE /\ Renews(Entries, res.pool.E, res.slot, Key(r), NextConnectionId)
  BY <1>1, AcquireEffect
<1>3. res.slot \in {0} \cup Slots
  BY <1>1, AcquireConsistent
<1>4. /\ Install(res) /\ Take(r, res)
      /\ IF res.slot = 0 THEN Goto(r, "done") ELSE Goto(r, "socket")
      /\ pc[r] = "idle" /\ ~shut
      /\ UNCHANGED <<shut, now, kind, original, reusable, sends>>
  BY DEF Acquire
<1>5. slot[r] = 0 /\ pc \in [Requests -> Using \cup {"idle", "reacquire", "done"}]
  BY <1>4 DEF PoolInv, TypeOK, Using
<1> HIDE DEF res
<1>6. /\ \A q \in Requests \ {r} : pc'[q] = pc[q]
      /\ pc'[r] = IF res.slot = 0 THEN "done" ELSE "socket"
  BY <1>4, <1>5 DEF Goto
<1>7. Takes(r, res.slot, res.reused)
  BY <1>2, <1>3, <1>4, <1>5, <1>6 DEF Takes, Install, Take
<1>8. QED
  BY <1>6, <1>7

LEMMA RetryTakes ==
    ASSUME PoolInv, ~shut, NEW r \in Requests, RetryWithFreshConnection(r)
    PROVE  \E j : Takes(r, j, FALSE)
<1> DEFINE res == AcquireResult(Entries, ActiveCount, Key(r), "ForceNew",
                                now, NextConnectionId)
<1>1. Key(r) \in Keys /\ now \in Nat /\ NextConnectionId \in Nat /\ Consistent(Entries, ActiveCount)
  BY SendAssumption DEF PoolInv, TypeOK, Key
<1>2. res.reused = FALSE /\ Renews(Entries, res.pool.E, res.slot, Key(r), NextConnectionId)
  BY <1>1, AcquireEffect
<1>3. res.slot \in {0} \cup Slots
  BY <1>1, AcquireConsistent
<1>4. /\ Install(res) /\ Take(r, res)
      /\ \/ res.slot = 0 /\ Goto(r, "done")
         \/ res.slot # 0 /\ (Goto(r, "socket") \/ Goto(r, "finish"))
      /\ pc[r] = "reacquire"
      /\ UNCHANGED <<shut, now, kind, reusable, sends>>
  BY DEF RetryWithFreshConnection, Fail
<1>5. slot[r] = 0 /\ pc \in [Requests -> Using \cup {"idle", "reacquire", "done"}]
  BY <1>4 DEF PoolInv, TypeOK, Using
<1> HIDE DEF res
<1>6. /\ \A q \in Requests \ {r} : pc'[q] = pc[q]
      /\ pc'[r] \in (IF res.slot = 0 THEN {"done"} ELSE {"socket", "finish"})
  BY <1>4, <1>5 DEF Goto
<1>7. Takes(r, res.slot, FALSE)
  BY <1>2, <1>3, <1>4, <1>5, <1>6 DEF Takes, Install, Take
<1>8. QED
  BY <1>7

\* A new connection: in use, connected, numbered, with the request's key, not leased
\* and without layers.
LEMMA RenewedEntry ==
    ASSUME Entries \in [Slots -> EntryType], NEW j \in Slots, NEW key \in KeyType,
           NEW id \in Nat, Renews(Entries, Entries', j, key, id)
    PROVE  LET f == Entries'[j]
           IN  /\ f.InUse /\ f.Connected /\ f.Id = id /\ f.Leases = 0
               /\ ~f.CloseWhenIdle /\ f.Key = key
               /\ f.Socket = "none" /\ f.Tls = "none" /\ ~f.Http2
               /\ \/ f.Tunnel = FALSE /\ f.Alpn = "" /\ f.MaxLeases = 0
                  \/ /\ f.Tunnel = Entries[j].Tunnel /\ f.Alpn = Entries[j].Alpn
                     /\ f.MaxLeases = Entries[j].MaxLeases
                     /\ Entries[j].Socket = "none" /\ Entries[j].Tls = "none"
<1>1. j # 0
  BY DEF Slots
<1>2. PICK e \in {ZeroEntry, Entries[j]} :
        ~HasConnectionState(e) /\ Entries'[j] = Stamped(Occupied(e), key, id)
  BY <1>1 DEF Renews
<1>3. e \in EntryType
  BY <1>2, ZeroEntryType
<1> DEFINE g == Occupied(e)
<1>4. /\ g.InUse = TRUE /\ g.Connected = TRUE /\ g.Leases = e.Leases
      /\ g.CloseWhenIdle = e.CloseWhenIdle /\ g.Socket = e.Socket /\ g.Tls = e.Tls
      /\ g.Http2 = e.Http2 /\ g.Tunnel = e.Tunnel /\ g.Alpn = e.Alpn
      /\ g.MaxLeases = e.MaxLeases /\ g \in EntryType
  BY <1>3 DEF Occupied, EntryType
<1> HIDE DEF g
<1> DEFINE f == Stamped(g, key, id)
<1>5. /\ f.InUse = TRUE /\ f.Connected = TRUE /\ f.Id = id /\ f.Leases = e.Leases
      /\ f.CloseWhenIdle = e.CloseWhenIdle /\ f.Key = key /\ f.Socket = e.Socket
      /\ f.Tls = e.Tls /\ f.Http2 = e.Http2 /\ f.Tunnel = e.Tunnel /\ f.Alpn = e.Alpn
      /\ f.MaxLeases = e.MaxLeases
  BY <1>4 DEF Stamped, EntryType
<1>6. Entries'[j] = f
  BY <1>2 DEF g
<1> HIDE DEF f
<1>7. e.Leases = 0 /\ ~e.CloseWhenIdle /\ e.Socket = "none" /\ e.Tls = "none" /\ ~e.Http2
  BY <1>2 DEF HasConnectionState, HasResources
<1>8. ZeroEntry.Tunnel = FALSE /\ ZeroEntry.Alpn = "" /\ ZeroEntry.MaxLeases = 0
  BY DEF ZeroEntry
<1>9. QED
  BY <1>2, <1>5, <1>6, <1>7, <1>8

\* The entry a request joins, or takes over.
LEMMA JoinedEntry ==
    ASSUME Entries \in [Slots -> EntryType], NEW j, NEW key,
           \/ Shares(Entries, Entries', j, key)
           \/ Reuses(Entries, Entries', j, key, now)
    PROVE  /\ j \in Slots
           /\ \A i \in Slots \ {j} : Entries'[i] = Entries[i]
           /\ LET e == Entries[j]
                  f == Entries'[j]
              IN  /\ f.InUse /\ f.Connected /\ e.Connected /\ f.Id = e.Id
                  /\ f.CloseWhenIdle = e.CloseWhenIdle /\ f.Key = e.Key
                  /\ f.MaxLeases = e.MaxLeases /\ f.LastUsedTime = e.LastUsedTime
                  /\ f.Socket = e.Socket /\ f.Tls = e.Tls /\ f.Http2 = e.Http2
                  /\ f.Tunnel = e.Tunnel /\ f.Alpn = e.Alpn
                  /\ KeysEqualForAutoAlpnAcquire(key, e.Key)
                  /\ e.Leases \in Nat
                  /\ \/ /\ e.InUse /\ f.Leases = e.Leases + 1 /\ e.Leases # 0
                        /\ e.Leases < e.MaxLeases /\ ~e.CloseWhenIdle
                     \/ /\ ~e.InUse /\ f.Leases = e.Leases /\ e.Leases = 0
                        /\ ~IsIdleExpired(e, now)
<1>1. CASE Shares(Entries, Entries', j, key)
  <2> DEFINE g == [Entries[j] EXCEPT !.Leases = @ + 1]
  <2>1. /\ g.InUse = Entries[j].InUse /\ g.Connected = Entries[j].Connected
        /\ g.Id = Entries[j].Id /\ g.CloseWhenIdle = Entries[j].CloseWhenIdle
        /\ g.Key = Entries[j].Key /\ g.MaxLeases = Entries[j].MaxLeases
        /\ g.LastUsedTime = Entries[j].LastUsedTime /\ g.Socket = Entries[j].Socket
        /\ g.Tls = Entries[j].Tls /\ g.Http2 = Entries[j].Http2
        /\ g.Tunnel = Entries[j].Tunnel /\ g.Alpn = Entries[j].Alpn
        /\ g.Leases = Entries[j].Leases + 1 /\ Entries[j].Leases \in Nat
    BY <1>1 DEF Shares, EntryType
  <2>2. Entries' = [Entries EXCEPT ![j] = g] /\ j \in Slots
    BY <1>1 DEF Shares
  <2> HIDE DEF g
  <2>3. Entries'[j] = g /\ \A i \in Slots \ {j} : Entries'[i] = Entries[i]
    BY <2>2
  <2>4. QED
    BY <1>1, <2>1, <2>2, <2>3 DEF Shares, CanShareHttp2Connection
<1>2. CASE Reuses(Entries, Entries', j, key, now)
  <2> DEFINE g == [Entries[j] EXCEPT !.InUse = TRUE]
  <2>1. /\ g.InUse = TRUE /\ g.Connected = Entries[j].Connected
        /\ g.Id = Entries[j].Id /\ g.CloseWhenIdle = Entries[j].CloseWhenIdle
        /\ g.Key = Entries[j].Key /\ g.MaxLeases = Entries[j].MaxLeases
        /\ g.LastUsedTime = Entries[j].LastUsedTime /\ g.Socket = Entries[j].Socket
        /\ g.Tls = Entries[j].Tls /\ g.Http2 = Entries[j].Http2
        /\ g.Tunnel = Entries[j].Tunnel /\ g.Alpn = Entries[j].Alpn
        /\ g.Leases = Entries[j].Leases /\ Entries[j].Leases \in Nat
    BY <1>2 DEF Reuses, EntryType
  <2>2. Entries' = [Entries EXCEPT ![j] = g] /\ j \in Slots
    BY <1>2 DEF Reuses
  <2> HIDE DEF g
  <2>3. Entries'[j] = g /\ \A i \in Slots \ {j} : Entries'[i] = Entries[i]
    BY <2>2
  <2>4. QED
    BY <1>2, <2>1, <2>2, <2>3 DEF Reuses, Idle
<1>3. QED
  BY <1>1, <1>2

\* The request gives its connection back, or closes it for its replay.
Gives(r) ==
    LET i == slot[r]
        e == Entries[i]
        f == Entries'[i]
    IN  /\ pc[r] = "finish" /\ i \in Slots
        /\ slot' = [slot EXCEPT ![r] = 0]
        /\ \A q \in Requests \ {r} : pc'[q] = pc[q]
        /\ UNCHANGED <<NextConnectionId, shut, now, kind, conn, reused, sends>>
        /\ \A k \in Slots \ {i} : Entries'[k] = Entries[k]
        /\ f.Id \in {0, e.Id} /\ (f.Connected => f.Id = e.Id /\ e.Connected)
        /\ \/ f = ZeroEntry
           \/ /\ f.Id = e.Id /\ f.Connected = e.Connected /\ f.Key = e.Key
              /\ f.MaxLeases = e.MaxLeases /\ f.Socket = e.Socket /\ f.Tls = e.Tls
              /\ f.Http2 = e.Http2 /\ f.Tunnel = e.Tunnel /\ f.Alpn = e.Alpn
        /\ \/ /\ pc'[r] = "reacquire" /\ ShouldRetryWithFreshConnection(r)
              /\ f = ZeroEntry
           \/ /\ pc'[r] = "done"
              /\ \/ e.Leases \in {0, 1} /\ f = ZeroEntry
                 \/ /\ e.Leases = 0 \/ (e.Leases = 1 /\ ~e.CloseWhenIdle)
                    /\ f.Leases = 0 /\ f.LastUsedTime = now /\ ~f.InUse
                    /\ f.CloseWhenIdle = e.CloseWhenIdle
                 \/ /\ e.Leases \in Nat \ {0, 1}
                    /\ f.Leases = e.Leases - 1 /\ f.InUse = e.InUse
                    /\ f.LastUsedTime = e.LastUsedTime
                    /\ e.CloseWhenIdle => f.CloseWhenIdle

LEMMA ReleaseGives ==
    ASSUME PoolInv, NEW r \in Requests, Release(r) \/ CloseForRetry(r)
    PROVE  Gives(r)
<1>1. /\ pc[r] = "finish" /\ slot' = [slot EXCEPT ![r] = 0]
      /\ UNCHANGED <<NextConnectionId, shut, now, kind, conn, reused, sends>>
  BY DEF Release, CloseForRetry
<1>2. /\ slot[r] \in Slots /\ Entries \in [Slots -> EntryType]
      /\ pc \in [Requests -> Using \cup {"idle", "reacquire", "done"}] /\ now \in Nat
  BY <1>1 DEF PoolInv, TypeOK, Using
<1> DEFINE i == slot[r]
           e == Entries[i]
           f == Entries'[i]
<1>3. e \in EntryType /\ ZeroEntry.Id = 0 /\ ZeroEntry.Connected = FALSE
  BY <1>2 DEF ZeroEntry
<1>4. CASE CloseForRetry(r)
  <2>1. Entries' = [Entries EXCEPT ![i] = ZeroEntry]
    BY <1>4 DEF CloseForRetry, CloseResult, Detach, Pool
  <2>2. f = ZeroEntry /\ \A k \in Slots \ {i} : Entries'[k] = Entries[k]
    BY <1>2, <2>1
  <2>3. pc'[r] = "reacquire" /\ \A q \in Requests \ {r} : pc'[q] = pc[q]
    BY <1>2, <1>4 DEF CloseForRetry, Goto
  <2>4. ShouldRetryWithFreshConnection(r)
    BY <1>4 DEF CloseForRetry
  <2>5. QED
    BY <1>1, <1>2, <1>3, <2>2, <2>3, <2>4 DEF Gives
<1>5. CASE Release(r)
  <2>1. Entries' = ReleaseResult(Entries, ActiveCount, i, CanReturnToPool(r), now).E
    BY <1>5 DEF Release
  <2>2. CanReturnToPool(r) \in BOOLEAN
    BY DEF CanReturnToPool
  <2>3. pc'[r] = "done" /\ \A q \in Requests \ {r} : pc'[q] = pc[q]
    BY <1>2, <1>5 DEF Release, Goto
  <2>4. (\A k \in Slots \ {i} : Entries'[k] = Entries[k]) /\ GivenBack(e, f, now)
    BY <1>2, <2>1, <2>2, ReleaseEffect
  <2> HIDE DEF e, f
  <2>5. CASE e.Leases \in {0, 1} /\ f = ZeroEntry
    BY <1>1, <1>2, <1>3, <2>3, <2>4, <2>5 DEF Gives, e, f
  <2>6. CASE /\ e.Leases \in {0, 1}
             /\ e.Leases = 1 => ~e.CloseWhenIdle
             /\ f = [e EXCEPT !.Leases = 0, !.LastUsedTime = now, !.InUse = FALSE]
    <3>1. /\ f.Id = e.Id /\ f.Connected = e.Connected /\ f.Key = e.Key
          /\ f.MaxLeases = e.MaxLeases /\ f.Socket = e.Socket /\ f.Tls = e.Tls
          /\ f.Http2 = e.Http2 /\ f.Tunnel = e.Tunnel /\ f.Alpn = e.Alpn
          /\ f.Leases = 0 /\ f.LastUsedTime = now /\ ~f.InUse
          /\ f.CloseWhenIdle = e.CloseWhenIdle
      BY <1>3, <2>6 DEF EntryType
    <3>2. QED
      BY <1>1, <1>2, <2>3, <2>4, <2>6, <3>1 DEF Gives, e, f
  <2>7. ASSUME e.Leases \in Nat \ {0, 1}, NEW close \in BOOLEAN, e.CloseWhenIdle => close,
               f = [e EXCEPT !.Leases = @ - 1, !.CloseWhenIdle = close]
        PROVE  Gives(r)
    <3>1. /\ f.Id = e.Id /\ f.Connected = e.Connected /\ f.Key = e.Key
          /\ f.MaxLeases = e.MaxLeases /\ f.Socket = e.Socket /\ f.Tls = e.Tls
          /\ f.Http2 = e.Http2 /\ f.Tunnel = e.Tunnel /\ f.Alpn = e.Alpn
          /\ f.Leases = e.Leases - 1 /\ f.InUse = e.InUse
          /\ f.LastUsedTime = e.LastUsedTime /\ f.CloseWhenIdle = close
      BY <1>3, <2>7 DEF EntryType
    <3>2. QED
      BY <1>1, <1>2, <2>3, <2>4, <2>7, <3>1 DEF Gives, e, f
  <2>8. QED
    BY <2>4, <2>5, <2>6, <2>7 DEF GivenBack
<1>6. QED
  BY <1>4, <1>5
\* What becomes of the entries when a request takes j.
LEMMA TakenEntries ==
    ASSUME PoolInv, NEW r \in Requests, NEW j, NEW b, Takes(r, j, b)
    PROVE  \A i \in Slots \ {j} :
             \/ Entries'[i] = Entries[i]
             \/ Idle(Entries[i]) /\ Entries'[i] = ZeroEntry
<1>1. Entries \in [Slots -> EntryType]
  BY DEF PoolInv, TypeOK
<1>2. CASE Shares(Entries, Entries', j, Key(r)) \/ Reuses(Entries, Entries', j, Key(r), now)
  BY <1>1, <1>2, JoinedEntry
<1>3. CASE Renews(Entries, Entries', j, Key(r), NextConnectionId)
  BY <1>3 DEF Renews
<1>4. QED
  BY <1>2, <1>3 DEF Takes

\* The entry the request takes.
LEMMA TakenEntry ==
    ASSUME PoolInv, NEW r \in Requests, NEW j \in Slots, NEW b, Takes(r, j, b)
    PROVE  LET e == Entries[j]
               f == Entries'[j]
           IN  /\ f.InUse /\ f.Connected /\ e.Leases \in Nat
               /\ b = TRUE =>
                    /\ f.Id = e.Id /\ e.Connected /\ f.CloseWhenIdle = e.CloseWhenIdle
                    /\ \/ /\ e.InUse /\ f.Leases = e.Leases + 1 /\ ~e.CloseWhenIdle
                       \/ ~e.InUse /\ f.Leases = 0 /\ e.Leases = 0
               /\ b = FALSE =>
                    /\ f.Id = NextConnectionId /\ f.Leases = 0 /\ ~f.CloseWhenIdle
                    /\ ~e.InUse /\ e.Leases = 0
<1>1. /\ Entries \in [Slots -> EntryType] /\ NextConnectionId \in Nat /\ Key(r) \in KeyType
      /\ Entries[j].Leases \in Nat
  BY SendAssumption, PoolAssumption DEF PoolInv, TypeOK, Key, EntryType
<1>2. CASE /\ b = TRUE
           /\ \/ Shares(Entries, Entries', j, Key(r))
              \/ Reuses(Entries, Entries', j, Key(r), now)
  BY <1>1, <1>2, JoinedEntry
<1>3. CASE b = FALSE /\ Renews(Entries, Entries', j, Key(r), NextConnectionId)
  <2>1. ~Entries[j].InUse /\ Entries[j].Leases = 0
    BY <1>3 DEF Renews, Slots
  <2>2. QED
    BY <1>1, <1>3, <2>1, RenewedEntry
<1>4. QED
  BY <1>2, <1>3 DEF Takes

LEMMA TakesKeepLedger ==
    ASSUME LedgerInv, PoolInv', NEW r \in Requests, NEW j, NEW b, Takes(r, j, b)
    PROVE  LedgerInv'
<1> USE DEF LedgerInv
<1>0. /\ j \in {0} \cup Slots /\ 0 \notin Slots /\ b \in BOOLEAN
      /\ reused \in [Requests -> BOOLEAN] /\ slot \in [Requests -> {0} \cup Slots]
      /\ sends \in [Requests -> Nat] /\ NextConnectionId \in Nat
      /\ Entries \in [Slots -> EntryType]
  BY DEF PoolInv, TypeOK, Takes, Slots
<1>z. /\ ZeroEntry.Leases = 0 /\ ZeroEntry.InUse = FALSE /\ ZeroEntry.Connected = FALSE
      /\ ZeroEntry.CloseWhenIdle = FALSE /\ ZeroEntry.Id = 0
  BY DEF ZeroEntry
<1>1. ASSUME NEW q \in Requests PROVE SendBudget(q)'
  <2>1. Replays(q)' = Replays(q) /\ Replays(q) \in {0, 1} /\ sends'[q] = sends[q] /\ sends[q] \in Nat
    BY <1>0 DEF Takes, Replays
  <2>2. CASE q # r
    BY <1>0, <2>1, <2>2 DEF Takes, SendBudget
  <2>3. CASE q = r
    <3>1. reused'[q] = b /\ pc'[q] \in {"done", "socket", "finish"}
      BY <1>0, <2>3 DEF Takes
    <3>2. pc[q] = "idle" => sends[q] = 0
      BY <2>1 DEF SendBudget
    <3>3. pc[q] = "reacquire" => sends[q] <= 1 /\ Replays(q) = 1
      BY <2>1 DEF SendBudget
    <3>4. pc[q] = "idle" \/ (pc[q] = "reacquire" /\ b = FALSE)
      BY <1>0, <2>3 DEF Takes
    <3>5. QED
      BY <2>1, <3>1, <3>2, <3>3, <3>4 DEF SendBudget
  <2>4. QED
    BY <2>2, <2>3
<1>2. ASSUME NEW i \in Slots PROVE Backed(i)' /\ Leased(Entries[i])'
  <2>1. TypeOK /\ slot[r] = 0 /\ slot' = [slot EXCEPT ![r] = j]
    BY DEF PoolInv, Takes
  <2>2. Cardinality(Holders(i)) \in Nat /\ Entries[i].Leases \in Nat
    BY <1>0, HoldersFinite DEF EntryType
  <2>3. CASE i # j
    <3>1. Holders(i)' = Holders(i)
      BY <1>0, <2>1, <2>3, HolderJoins
    <3>2. Entries'[i] = Entries[i] \/ Entries'[i] = ZeroEntry
      BY <2>3, TakenEntries
    <3>3. QED
      BY <1>z, <2>2, <3>1, <3>2 DEF Backed, Leased
  <2>4. CASE i = j
    <3>1. /\ Holders(i)' = Holders(i) \cup {r}
          /\ Cardinality(Holders(i))' = Cardinality(Holders(i)) + 1
      BY <1>0, <2>1, <2>4, HolderJoins
    <3>2. /\ Entries'[i].InUse /\ Entries'[i].Connected
          /\ Entries'[i].Leases = 0 \/ Entries'[i].Leases = Entries[i].Leases + 1
          /\ ~Entries'[i].CloseWhenIdle
      BY <1>0, <2>2, <2>4, TakenEntry DEF Leased
    <3>3. QED
      BY <2>2, <3>1, <3>2 DEF Backed, Leased
  <2>5. QED
    BY <2>3, <2>4
<1>3. Numbered'
  <2>1. /\ ~shut /\ shut' = shut /\ now' = now
        /\ NextConnectionId' = NextConnectionId + IF j # 0 /\ ~b THEN 1 ELSE 0
    BY DEF Takes
  <2>2. ASSUME NEW i \in Slots
        PROVE  /\ Entries'[i].Id < NextConnectionId'
               /\ Entries'[i].Connected => Entries'[i].Id # 0
    <3>1. Entries[i].Id \in Nat /\ Entries[i].Id < NextConnectionId /\ NextConnectionId # 0
      BY <1>0, <2>1 DEF Numbered, EntryType
    <3>2. CASE i # j
      <4>1. Entries'[i] = Entries[i] \/ Entries'[i] = ZeroEntry
        BY <3>2, TakenEntries
      <4>2. QED
        BY <1>0, <1>z, <2>1, <3>1, <4>1 DEF Numbered
    <3>3. CASE i = j /\ b = TRUE
      <4>1. Entries'[i].Id = Entries[i].Id /\ Entries[i].Connected
        BY <3>3, TakenEntry
      <4>2. QED
        BY <1>0, <2>1, <3>1, <3>3, <4>1 DEF Numbered
    <3>4. CASE i = j /\ b = FALSE
      <4>1. Entries'[i].Id = NextConnectionId
        BY <3>4, TakenEntry
      <4>2. QED
        BY <1>0, <2>1, <3>1, <3>4, <4>1
    <3>5. QED
      BY <1>0, <3>2, <3>3, <3>4
  <2>3. QED
    BY <1>0, <2>1, <2>2 DEF Numbered
<1>4. QED
  BY <1>1, <1>2, <1>3

LEMMA GivesKeepLedger ==
    ASSUME LedgerInv, PoolInv', NEW r \in Requests, Gives(r)
    PROVE  LedgerInv'
<1> USE DEF LedgerInv
<1> DEFINE j == slot[r]
<1>0. /\ j \in Slots /\ sends \in [Requests -> Nat] /\ NextConnectionId \in Nat
      /\ Entries \in [Slots -> EntryType] /\ slot' = [slot EXCEPT ![r] = 0]
  BY DEF PoolInv, TypeOK, Gives
<1>z. /\ ZeroEntry.Leases = 0 /\ ZeroEntry.InUse = FALSE /\ ZeroEntry.Connected = FALSE
      /\ ZeroEntry.CloseWhenIdle = FALSE /\ ZeroEntry.Id = 0
  BY DEF ZeroEntry
<1>1. ASSUME NEW q \in Requests PROVE SendBudget(q)'
  <2>1. /\ Replays(q)' = Replays(q) /\ Replays(q) \in {0, 1} /\ sends'[q] = sends[q]
        /\ sends[q] \in Nat /\ reused'[q] = reused[q]
    BY <1>0 DEF Gives, Replays
  <2>2. CASE q # r
    BY <2>1, <2>2 DEF Gives, SendBudget
  <2>3. CASE q = r
    <3>1. \/ pc'[q] = "reacquire" /\ reused[q] /\ Replays(q) = 1
          \/ pc'[q] = "done"
      BY <2>3 DEF Gives, ShouldRetryWithFreshConnection, Replays
    <3>2. "reacquire" \notin Unsent /\ "done" \notin Unsent
      BY DEF Unsent
    <3>3. SendBudget(q)
      OBVIOUS
    <3>4. QED
      BY <2>1, <3>1, <3>2, <3>3 DEF SendBudget
  <2>4. QED
    BY <2>2, <2>3
<1>2. ASSUME NEW i \in Slots PROVE Backed(i)' /\ Leased(Entries[i])'
  <2>1. TypeOK
    BY DEF PoolInv
  <2>2. Cardinality(Holders(i)) \in Nat /\ Cardinality(Holders(i))' \in Nat /\ Entries[i].Leases \in Nat
    <3>1. IsFiniteSet(Holders(i)')
      BY SendAssumption, FS_Subset DEF Holders
    <3>2. QED
      BY <1>0, <3>1, HoldersFinite, FS_CardinalityType DEF EntryType
  <2>3. CASE i # j
    <3>1. Holders(i)' = Holders(i)
      BY <1>0, <2>1, <2>3, HolderLeaves
    <3>2. Entries'[i] = Entries[i]
      BY <2>3 DEF Gives
    <3>3. QED
      BY <3>1, <3>2 DEF Backed, Leased
  <2>4. CASE i = j
    <3>1. Cardinality(Holders(i))' = Cardinality(Holders(i)) - 1
      BY <1>0, <2>1, <2>4, HolderLeaves
    <3>2. \/ Entries'[i] = ZeroEntry
          \/ /\ Entries'[i].Leases = 0 /\ ~Entries'[i].InUse
             /\ Entries'[i].CloseWhenIdle = Entries[i].CloseWhenIdle
             /\ Entries[i].Leases = 0 \/ ~Entries[i].CloseWhenIdle
          \/ /\ Entries[i].Leases \in Nat \ {0, 1}
             /\ Entries'[i].Leases = Entries[i].Leases - 1
             /\ Entries'[i].InUse = Entries[i].InUse
             /\ Entries'[i].Connected = Entries[i].Connected
      BY <2>4 DEF Gives
    <3>3. CASE Entries'[i] = ZeroEntry
      BY <1>z, <2>2, <3>3 DEF Backed, Leased
    <3>4. CASE /\ Entries'[i].Leases = 0 /\ ~Entries'[i].InUse
               /\ Entries'[i].CloseWhenIdle = Entries[i].CloseWhenIdle
               /\ Entries[i].Leases = 0 \/ ~Entries[i].CloseWhenIdle
      BY <2>2, <3>4 DEF Backed, Leased
    <3>5. CASE /\ Entries[i].Leases \in Nat \ {0, 1}
               /\ Entries'[i].Leases = Entries[i].Leases - 1
               /\ Entries'[i].InUse = Entries[i].InUse
               /\ Entries'[i].Connected = Entries[i].Connected
      <4>1. Entries'[i].Leases <= Cardinality(Holders(i))' /\ Cardinality(Holders(i))' # 0
        BY <2>2, <3>1, <3>5 DEF Backed
      <4>2. Holders(i)' # {}
        BY <4>1, FS_EmptySet
      <4>3. Entries'[i].InUse
        BY <3>5 DEF Leased
      <4>4. QED
        BY <3>5, <4>1, <4>2, <4>3 DEF Backed, Leased
    <3>6. QED
      BY <3>2, <3>3, <3>4, <3>5
  <2>5. QED
    BY <2>3, <2>4
<1>3. Numbered'
  <2>1. ~shut /\ shut' = shut /\ now' = now /\ NextConnectionId' = NextConnectionId
    BY NotShut DEF Gives
  <2>2. ASSUME NEW i \in Slots
        PROVE  /\ Entries'[i].Id < NextConnectionId'
               /\ Entries'[i].Connected => Entries'[i].Id # 0
    <3>1. Entries[i].Id \in Nat /\ Entries[i].Id < NextConnectionId /\ NextConnectionId # 0
      BY <1>0, <2>1 DEF Numbered, EntryType
    <3>2. Entries'[i].Id \in {0, Entries[i].Id}
      BY DEF Gives
    <3>3. Entries'[i].Connected => Entries'[i].Id = Entries[i].Id /\ Entries[i].Connected
      BY DEF Gives
    <3>4. QED
      BY <1>0, <2>1, <3>1, <3>2, <3>3 DEF Numbered
  <2>3. QED
    BY <2>1, <2>2 DEF Numbered
<1>4. QED
  BY <1>1, <1>2, <1>3
\* A new HTTP/2 connection becomes one that others may share.
Promotes(r) ==
    LET e == Entries[slot[r]]
        f == Entries'[slot[r]]
    IN  /\ pc[r] = "promote" /\ pc'[r] = "receive" /\ slot[r] \in Slots
        /\ \A q \in Requests \ {r} : pc'[q] = pc[q]
        /\ UNCHANGED <<NextConnectionId, shut, now, kind, slot, conn, reused, sends>>
        /\ \A k \in Slots \ {slot[r]} : Entries'[k] = Entries[k]
        /\ e.InUse /\ e.Connected /\ e.Leases = 0 /\ ~e.CloseWhenIdle
        /\ f.InUse /\ f.Connected /\ f.Leases = 1 /\ ~f.CloseWhenIdle
        /\ f.MaxLeases \in StreamLimits \ {0}
        /\ f.Id = e.Id /\ f.Key = e.Key /\ f.LastUsedTime = e.LastUsedTime
        /\ f.Socket = e.Socket /\ f.Tls = e.Tls /\ f.Http2 = e.Http2
        /\ f.Tunnel = e.Tunnel /\ f.Alpn = e.Alpn

LEMMA PromoteMoves ==
    ASSUME PoolInv, NEW r \in Requests, Promote(r)
    PROVE  Promotes(r) \/ (Moves(r) /\ pc'[r] = "finish" /\ Entries' = Entries)
<1>1. PICK limit \in StreamLimits :
        IF CanPromote(Entry(r), limit)
        THEN /\ Entries' = PromoteResult(Entries, slot[r], limit)
             /\ Goto(r, "receive")
             /\ UNCHANGED status
        ELSE Fail(r, "error") /\ UNCHANGED Entries
  BY DEF Promote
<1>2. /\ UNCHANGED <<NextConnectionId, shut, now, kind, slot, conn, reused, sends>>
      /\ pc[r] = "promote" /\ pc[r] \in Using
  BY DEF Promote, Using
<1>3. /\ slot[r] \in Slots /\ Entries \in [Slots -> EntryType] /\ Entries[slot[r]] \in EntryType
      /\ pc \in [Requests -> Using \cup {"idle", "reacquire", "done"}]
      /\ sends \in [Requests -> Nat] /\ limit \in Nat
  BY <1>2, SendAssumption DEF PoolInv, TypeOK
<1>4. CASE CanPromote(Entry(r), limit)
  <2> DEFINE e == Entries[slot[r]]
             g == [e EXCEPT !.MaxLeases = limit, !.Leases = 1]
  <2>1. /\ g.InUse = e.InUse /\ g.Connected = e.Connected /\ g.Leases = 1
        /\ g.CloseWhenIdle = e.CloseWhenIdle /\ g.MaxLeases = limit /\ g.Id = e.Id
        /\ g.Key = e.Key /\ g.LastUsedTime = e.LastUsedTime /\ g.Socket = e.Socket
        /\ g.Tls = e.Tls /\ g.Http2 = e.Http2 /\ g.Tunnel = e.Tunnel /\ g.Alpn = e.Alpn
    BY <1>3 DEF EntryType
  <2>2. Entries' = [Entries EXCEPT ![slot[r]] = g]
    BY <1>1, <1>4 DEF PromoteResult
  <2> HIDE DEF g
  <2>3. Entries'[slot[r]] = g /\ \A k \in Slots \ {slot[r]} : Entries'[k] = Entries[k]
    BY <1>3, <2>2
  <2>4. pc'[r] = "receive" /\ \A q \in Requests \ {r} : pc'[q] = pc[q]
    BY <1>1, <1>3, <1>4 DEF Goto
  <2>5. e.InUse /\ e.Connected /\ e.Leases = 0 /\ ~e.CloseWhenIdle /\ limit # 0
    BY <1>4 DEF CanPromote, Entry
  <2>6. Promotes(r)
    BY <1>2, <1>3, <2>1, <2>3, <2>4, <2>5 DEF Promotes
  <2>7. QED
    BY <2>6
<1>5. CASE ~CanPromote(Entry(r), limit)
  <2>1. pc'[r] = "finish" /\ (\A q \in Requests \ {r} : pc'[q] = pc[q]) /\ Entries' = Entries
    BY <1>1, <1>3, <1>5 DEF Fail, Goto
  <2>2. "finish" \in Using /\ "finish" \notin Unsent
    BY DEF Using, Unsent
  <2>3. SameBooks(Entries[slot[r]], Entries[slot[r]])
    BY <1>3, BooksKept
  <2>4. QED
    BY <1>2, <1>3, <2>1, <2>2, <2>3 DEF Moves
<1>6. QED
  BY <1>4, <1>5

LEMMA PromotesKeepLedger ==
    ASSUME LedgerInv, PoolInv', NEW r \in Requests, Promotes(r)
    PROVE  LedgerInv'
<1> USE DEF LedgerInv
<1>1. ASSUME NEW q \in Requests PROVE SendBudget(q)'
  <2>1. /\ Replays(q)' = Replays(q) /\ sends'[q] = sends[q] /\ reused'[q] = reused[q]
    BY DEF Promotes, Replays
  <2>2. SendBudget(q) /\ "receive" \notin Unsent
    BY DEF Unsent
  <2>3. pc'[q] = pc[q] \/ pc'[q] = "receive"
    BY DEF Promotes
  <2>4. QED
    BY <2>1, <2>2, <2>3 DEF SendBudget
<1>2. ASSUME NEW i \in Slots PROVE Backed(i)' /\ Leased(Entries[i])'
  <2>1. Holders(i)' = Holders(i)
    BY DEF Promotes, Holders
  <2>2. CASE i # slot[r]
    BY <2>1, <2>2 DEF Promotes, Backed, Leased
  <2>3. CASE i = slot[r]
    <3>1. r \in Holders(i)
      BY <2>3 DEF Holders
    <3>2. Cardinality(Holders(i)) \in Nat /\ Cardinality(Holders(i)) # 0
      BY <3>1, HoldersFinite, FS_EmptySet
    <3>3. QED
      BY <2>1, <2>3, <3>1, <3>2 DEF Promotes, Backed, Leased
  <2>4. QED
    BY <2>2, <2>3
<1>3. Numbered'
  <2>1. \A i \in Slots : Entries'[i].Id = Entries[i].Id
    BY DEF Promotes
  <2>2. \A i \in Slots : Entries'[i].Connected => Entries[i].Connected
    BY DEF Promotes
  <2>3. ~shut
    BY NotShut DEF Promotes
  <2>4. QED
    BY <2>1, <2>2, <2>3 DEF Promotes, Numbered
<1>4. QED
  BY <1>1, <1>2, <1>3

LEMMA ShutdownKeepsLedger ==
    ASSUME LedgerInv, PoolInv', Shutdown
    PROVE  LedgerInv'
<1> USE DEF LedgerInv
<1>1. \A i \in Slots : Entries'[i] = ZeroEntry
  BY DEF Shutdown, ShutdownEntries
<1>2. UNCHANGED <<now, pc, kind, slot, conn, reused, sends>> /\ shut'
  BY DEF Shutdown, request
<1>3. \A r \in Requests : SendBudget(r)'
  BY <1>2 DEF SendBudget, Replays
<1>4. ASSUME NEW i \in Slots PROVE Backed(i)' /\ Leased(Entries[i])'
  <2>1. Cardinality(Holders(i)) \in Nat /\ Holders(i)' = Holders(i)
    BY <1>2, HoldersFinite DEF Holders
  <2>2. ZeroEntry.Leases = 0 /\ ~ZeroEntry.InUse /\ ~ZeroEntry.CloseWhenIdle
    BY DEF ZeroEntry
  <2>3. QED
    BY <1>1, <2>1, <2>2 DEF Backed, Leased
<1>5. Numbered'
  <2>1. ~ZeroEntry.Connected
    BY DEF ZeroEntry
  <2>2. \A r \in Requests : pc[r] \in {"idle", "done"}
    BY DEF Shutdown
  <2>3. QED
    BY <1>1, <1>2, <2>1, <2>2 DEF Numbered
<1>6. QED
  BY <1>3, <1>4, <1>5

LEMMA IdleKeepsLedger ==
    ASSUME LedgerInv, PoolInv', Tick \/ UNCHANGED vars
    PROVE  LedgerInv'
<1>1. /\ UNCHANGED <<Entries, ActiveCount, NextConnectionId, shut, pc, kind, slot, conn, reused, sends>>
      /\ now' = now \/ now' = now + 1
  BY DEF Tick, vars, pool, request
<1>2. now \in Nat
  BY DEF LedgerInv, PoolInv, TypeOK
<1>3. QED
  BY <1>1, <1>2 DEF LedgerInv, SendBudget, Replays, Backed, Holders, Leased, Numbered

\* The steps of a request, seen as what they do to the pool.
LEMMA RequestSteps ==
    ASSUME LedgerInv, NEW r \in Requests, Acquire(r) \/ Progress(r)
    PROVE  \/ Moves(r)
           \/ Promotes(r)
           \/ \E j, b : Takes(r, j, b)
           \/ Gives(r)
<1>1. PoolInv
  BY DEF LedgerInv
<1>2. CASE RetryWithFreshConnection(r)
  <2>1. ~shut
    BY <1>2, NotShut DEF RetryWithFreshConnection
  <2>2. QED
    BY <1>1, <1>2, <2>1, RetryTakes
<1>3. QED
  BY <1>1, <1>2, AcquireTakes, LinkMoves, PromoteMoves, ReleaseGives DEF Progress, LinkActions

LEMMA LedgerInit == Init => LedgerInv
<1> SUFFICES ASSUME Init PROVE LedgerInv
  OBVIOUS
<1>1. PoolInv
  BY PoolInvInit
<1>2. /\ ZeroEntry.Leases = 0 /\ ~ZeroEntry.InUse /\ ~ZeroEntry.CloseWhenIdle
      /\ ZeroEntry.Id = 0 /\ ~ZeroEntry.Connected
  BY DEF ZeroEntry
<1>3. \A r \in Requests : SendBudget(r)
  BY DEF Init, SendBudget, Replays
<1>4. \A i \in Slots : Backed(i) /\ Leased(Entries[i])
  BY <1>2, HoldersFinite DEF Init, Backed, Leased
<1>5. Numbered
  BY <1>2 DEF Init, Numbered
<1>6. QED
  BY <1>1, <1>3, <1>4, <1>5 DEF LedgerInv

LEMMA LedgerStep == LedgerInv /\ [Next]_vars => LedgerInv'
<1> SUFFICES ASSUME LedgerInv, [Next]_vars PROVE LedgerInv'
  OBVIOUS
<1>1. PoolInv'
  BY PoolInvStep DEF LedgerInv
<1>2. ASSUME NEW r \in Requests, Acquire(r) \/ Progress(r) PROVE LedgerInv'
  BY <1>1, <1>2, RequestSteps, MovesKeepLedger, PromotesKeepLedger, TakesKeepLedger,
     GivesKeepLedger
<1>3. QED
  BY <1>1, <1>2, ShutdownKeepsLedger, IdleKeepsLedger DEF Next

\* The ledger holds of every pool and all requests, whatever they share and retry.
THEOREM LedgerInvariant == Spec => []LedgerInv
<1>1. Init => LedgerInv
  BY LedgerInit
<1>2. LedgerInv /\ [Next]_vars => LedgerInv'
  BY LedgerStep
<1>3. QED
  BY <1>1, <1>2, PTL DEF Spec

\* For every pool and every set of requests, a request goes to a transport at most
\* twice, and only once when its method or its policy forbids a replay
\* (SendSingleHttpRequest, ShouldRetryWithFreshConnection).
THEOREM ReplayCorrect == Spec => []ReplayAtMostOnce
<1>1. LedgerInv => ReplayAtMostOnce
  BY DEF LedgerInv, SendBudget, Replays, ReplayAtMostOnce
<1>2. QED
  BY <1>1, LedgerInvariant, PTL

\* No entry stays in use without a request that holds it, on no failure path and even
\* when a retry closes a connection under the leases of others.
THEOREM NoLeaks == Spec => []NoSlotLeak
<1>1. LedgerInv => NoSlotLeak
  BY DEF LedgerInv, Backed, NoSlotLeak
<1>2. QED
  BY <1>1, LedgerInvariant, PTL

-----------------------------------------------------------------------------
(* A doomed connection drains.                                               *)

Drains(i) ==
    Entries[i].CloseWhenIdle /\ Entries'[i].Id = Entries[i].Id
        => Entries'[i].Leases <= Entries[i].Leases /\ Entries'[i].InUse

\* What is known of a doomed entry.
LEMMA DoomedEntry ==
    ASSUME LedgerInv, NEW i \in Slots, Entries[i].CloseWhenIdle
    PROVE  /\ Entries[i].InUse /\ Entries[i].Leases \in Nat \ {0}
           /\ Entries[i].Id # 0 /\ Entries[i].Id \in Nat
           /\ ~shut => Entries[i].Id < NextConnectionId
<1>1. Entries[i] \in EntryType
  BY DEF LedgerInv, PoolInv, TypeOK
<1>2. Entries[i].InUse /\ Entries[i].Leases # 0
  BY DEF LedgerInv, Leased
<1>3. Entries[i].Connected
  BY <1>2 DEF LedgerInv, PoolInv, Consistent
<1>4. QED
  BY <1>1, <1>2, <1>3 DEF LedgerInv, Numbered, EntryType

LEMMA RequestsDrain ==
    ASSUME LedgerInv, NEW r \in Requests, Acquire(r) \/ Progress(r), NEW i \in Slots
    PROVE  Drains(i)
<1> SUFFICES ASSUME Entries[i].CloseWhenIdle, Entries'[i].Id = Entries[i].Id
             PROVE  Entries'[i].Leases <= Entries[i].Leases /\ Entries'[i].InUse
  BY DEF Drains
<1>1. /\ Entries[i].InUse /\ Entries[i].Leases \in Nat \ {0}
      /\ Entries[i].Id # 0 /\ Entries[i].Id \in Nat
      /\ ~shut => Entries[i].Id < NextConnectionId
  BY DoomedEntry
<1>2. ZeroEntry.Id = 0 /\ PoolInv
  BY DEF ZeroEntry, LedgerInv
<1>3. CASE Moves(r) \/ Promotes(r)
  BY <1>1, <1>3 DEF Moves, SameBooks, Promotes
<1>4. ASSUME NEW j, NEW b, Takes(r, j, b)
      PROVE  Entries'[i].Leases <= Entries[i].Leases /\ Entries'[i].InUse
  <2>1. CASE i # j
    <3>1. Entries'[i] = Entries[i] \/ Entries'[i] = ZeroEntry
      BY <1>2, <1>4, <2>1, TakenEntries
    <3>2. QED
      BY <1>1, <1>2, <3>1
  <2>2. CASE i = j
    <3>1. ~shut /\ (b = TRUE \/ b = FALSE) /\ NextConnectionId \in Nat
      BY <1>2, <1>4 DEF Takes, PoolInv, TypeOK
    <3>2. QED
      BY <1>1, <1>2, <1>4, <2>2, <3>1, TakenEntry
  <2>3. QED
    BY <2>1, <2>2
<1>5. CASE Gives(r)
  BY <1>1, <1>2, <1>5 DEF Gives
<1>6. QED
  BY <1>3, <1>4, <1>5, RequestSteps

\* Once a release has doomed a shared connection, nobody joins it and it never becomes
\* idle again (KhConnectionPoolRelease), for every pool and set of requests.
THEOREM DoomedDrain == Spec => DoomedConnectionDrains
<1>1. ASSUME LedgerInv, [Next]_vars PROVE [\A i \in Slots : Drains(i)]_vars
  <2>1. ASSUME NEW r \in Requests, Acquire(r) \/ Progress(r) PROVE \A i \in Slots : Drains(i)
    BY <1>1, <2>1, RequestsDrain
  <2>2. ASSUME Shutdown PROVE \A i \in Slots : Drains(i)
    <3>1. \A i \in Slots : Entries'[i].Id = 0
      BY <2>2 DEF Shutdown, ShutdownEntries, ZeroEntry
    <3>2. QED
      BY <1>1, <3>1, DoomedEntry DEF Drains
  <2>3. ASSUME Tick PROVE \A i \in Slots : Drains(i)
    <3>1. Entries' = Entries
      BY <2>3 DEF Tick, pool
    <3>2. QED
      BY <1>1, <3>1, DoomedEntry DEF Drains
  <2>4. QED
    BY <1>1, <2>1, <2>2, <2>3 DEF Next
<1>2. LedgerInv /\ [Next]_vars =>
        [\A i \in Slots :
           Entries[i].CloseWhenIdle /\ Entries'[i].Id = Entries[i].Id
               => /\ Entries'[i].Leases <= Entries[i].Leases
                  /\ Entries'[i].InUse]_vars
  BY <1>1 DEF Drains
<1>3. QED
  BY <1>2, LedgerInvariant, PTL DEF Spec, DoomedConnectionDrains
-----------------------------------------------------------------------------
(* Requests keep their connections, unless a request is replayed while others   *)
(* share its connection.                                                        *)

\* No request may be replayed.
NoReplay == \A k \in Kinds : ~(k.safe /\ k.policy = "ReuseOrCreate")

\* No peer allows a second stream: no connection is shared.
Unshared == StreamLimits \subseteq {0, 1}

KeptInv ==
    /\ LedgerInv
    /\ HoldersKeepConnection
    /\ LeasesExact
    /\ Unshared => \A i \in Slots : Entries[i].MaxLeases <= 1
    /\ \A i \in Slots : Entries[i].Connected /\ ~Entries[i].InUse => Entries[i].LastUsedTime # 0
    /\ \A r \in Requests : slot[r] # 0 => KeysEqualExceptAlpn(Key(r), Entry(r).Key)

\* The parts of the invariant, by request and by slot.
Keeps(r) ==
    slot[r] # 0 => /\ Entries[slot[r]].Id = conn[r]
                   /\ Entries[slot[r]].InUse
                   /\ Entries[slot[r]].Connected
                   /\ KeysEqualExceptAlpn(Key(r), Entries[slot[r]].Key)
Exact(i) ==
    IF Entries[i].Leases = 0
    THEN Cardinality(Holders(i)) <= 1
    ELSE /\ Cardinality(Holders(i)) = Entries[i].Leases
         /\ Cardinality(Holders(i)) <= Entries[i].MaxLeases
Sound(e) ==
    /\ Unshared => e.MaxLeases <= 1
    /\ e.Connected /\ ~e.InUse => e.LastUsedTime # 0

LEMMA KeptParts ==
    KeptInv <=> /\ LedgerInv
                /\ \A r \in Requests : Keeps(r)
                /\ \A i \in Slots : Exact(i) /\ Sound(Entries[i])
BY DEF KeptInv, Keeps, Exact, Sound, HoldersKeepConnection, LeasesExact, Entry

LEMMA KeptPartsPrime ==
    ASSUME LedgerInv', \A r \in Requests : Keeps(r)', \A i \in Slots : Exact(i)' /\ Sound(Entries[i])'
    PROVE  KeptInv'
BY DEF KeptInv, Keeps, Exact, Sound, HoldersKeepConnection, LeasesExact, Entry, Key

\* Two holders are two.
LEMMA TwoHolders ==
    ASSUME NEW i, NEW q \in Requests, NEW r \in Requests, q # r, slot[q] = i, slot[r] = i
    PROVE  Cardinality(Holders(i)) > 1
<1>1. q \in Holders(i) /\ r \in Holders(i)
  BY DEF Holders
<1>2. IsFiniteSet(Holders(i)) /\ Cardinality(Holders(i)) \in Nat
  BY HoldersFinite
<1>3. Cardinality(Holders(i)) # 0
  BY <1>1, <1>2, FS_EmptySet
<1>4. Cardinality(Holders(i)) # 1
  BY <1>1, <1>2, FS_Singleton
<1>5. QED
  BY <1>2, <1>3, <1>4

\* A connection with two holders is leased at least twice, and is not closed for a
\* replay.
LEMMA SharedLeases ==
    ASSUME KeptInv, NEW q \in Requests, NEW r \in Requests, q # r, slot[q] = slot[r],
           slot[r] \in Slots
    PROVE  /\ Entries[slot[r]].Leases \in Nat \ {0, 1}
           /\ ~Unshared
<1>1. Cardinality(Holders(slot[r])) > 1 /\ Cardinality(Holders(slot[r])) \in Nat
  BY TwoHolders, HoldersFinite
<1>2. Exact(slot[r]) /\ Sound(Entries[slot[r]])
  BY KeptParts
<1>3. Entries[slot[r]].Leases \in Nat /\ Entries[slot[r]].MaxLeases \in Nat
  BY DEF KeptInv, LedgerInv, PoolInv, TypeOK, EntryType
<1>4. QED
  BY <1>1, <1>2, <1>3 DEF Exact, Sound

\* An entry that nobody has in use has no holder.
LEMMA UnusedUnheld ==
    ASSUME KeptInv, NEW i \in Slots, ~Entries[i].InUse
    PROVE  Holders(i) = {} /\ Cardinality(Holders(i)) = 0
<1>1. Holders(i) = {}
  <2>1. \A q \in Requests : Keeps(q)
    BY KeptParts
  <2>2. 0 \notin Slots
    BY DEF Slots
  <2>3. QED
    BY <2>1, <2>2 DEF Keeps, Holders
<1>2. QED
  BY <1>1, FS_EmptySet

LEMMA MovesKeep ==
    ASSUME KeptInv, LedgerInv', NEW r \in Requests, Moves(r)
    PROVE  KeptInv'
<1>0. /\ \A q \in Requests : Keeps(q)
      /\ \A i \in Slots : Exact(i) /\ Sound(Entries[i])
      /\ slot \in [Requests -> {0} \cup Slots] /\ 0 \notin Slots
  BY KeptParts, SMTT(30) DEF KeptInv, LedgerInv, PoolInv, TypeOK, Slots
<1>1. \A i \in Slots : Entries'[i] = Entries[i] \/ SameBooks(Entries[i], Entries'[i])
  BY DEF Moves
<1>2. ASSUME NEW q \in Requests PROVE Keeps(q)'
  <2>1. slot'[q] = slot[q] /\ conn'[q] = conn[q] /\ Key(q)' = Key(q)
    BY DEF Moves, Key
  <2>2. Keeps(q)
    BY <1>0
  <2>3. slot[q] = 0 \/ slot[q] \in Slots
    BY <1>0
  <2>4. QED
    BY <1>1, <2>1, <2>2, <2>3 DEF Keeps, SameBooks, KeysEqualExceptAlpn
<1>3. ASSUME NEW i \in Slots PROVE Exact(i)' /\ Sound(Entries[i])'
  <2>1. Holders(i)' = Holders(i)
    BY DEF Moves, Holders
  <2>2. Exact(i) /\ Sound(Entries[i])
    BY <1>0
  <2>3. CASE Entries'[i] = Entries[i]
    BY <2>1, <2>2, <2>3 DEF Exact, Sound
  <2>4. CASE Entries'[i] # Entries[i]
    <3>1. i = slot[r] /\ SameBooks(Entries[i], Entries'[i])
      BY <2>4 DEF Moves
    <3>2. Entries[i].InUse
      BY <1>0, <3>1 DEF Keeps
    <3>3. QED
      BY <2>1, <2>2, <3>1, <3>2 DEF Exact, Sound, SameBooks
  <2>5. QED
    BY <2>3, <2>4
<1>4. QED
  BY <1>2, <1>3, KeptPartsPrime

LEMMA TakesKeep ==
    ASSUME KeptInv, LedgerInv', NEW r \in Requests, NEW j, NEW b, Takes(r, j, b)
    PROVE  KeptInv'
<1>p. KeptInv => PoolInv
  BY DEF KeptInv, LedgerInv
<1>k. /\ \A q \in Requests : Keeps(q)
      /\ \A i \in Slots : Exact(i) /\ Sound(Entries[i])
  BY KeptParts
<1>t. /\ slot \in [Requests -> {0} \cup Slots] /\ 0 \notin Slots
      /\ conn \in [Requests -> Nat] /\ kind \in [Requests -> Kinds]
      /\ Entries \in [Slots -> EntryType] /\ NextConnectionId \in Nat
  BY <1>p DEF PoolInv, TypeOK, Slots
<1>0. /\ \A q \in Requests : Keeps(q)
      /\ \A i \in Slots : Exact(i) /\ Sound(Entries[i])
      /\ slot \in [Requests -> {0} \cup Slots] /\ 0 \notin Slots /\ j \in {0} \cup Slots
      /\ conn \in [Requests -> Nat] /\ PoolInv
      /\ Entries \in [Slots -> EntryType] /\ Key(r) \in KeyType /\ NextConnectionId \in Nat
  <2>1. j \in {0} \cup Slots
    BY DEF Takes
  <2>2. Key(r) \in KeyType
    BY <1>t, SendAssumption, PoolAssumption DEF Key
  <2>3. QED
    BY <1>p, <1>k, <1>t, <2>1, <2>2
<1>z. ~ZeroEntry.Connected /\ ~ZeroEntry.InUse /\ ZeroEntry.Leases = 0 /\ ZeroEntry.MaxLeases = 0
  BY DEF ZeroEntry
<1>1. \A i \in Slots \ {j} :
        Entries'[i] = Entries[i] \/ (~Entries[i].InUse /\ Entries'[i] = ZeroEntry)
  BY <1>0, TakenEntries DEF Idle
<1>2. ASSUME j # 0
      PROVE  LET e == Entries[j]
                 f == Entries'[j]
             IN  /\ f.InUse /\ f.Connected /\ e.Leases \in Nat /\ e.MaxLeases \in Nat
                 /\ KeysEqualExceptAlpn(Key(r), f.Key)
                 /\ f.MaxLeases \in {0, e.MaxLeases}
                 /\ \/ /\ e.InUse /\ f.Id = e.Id /\ f.Key = e.Key
                       /\ f.Leases = e.Leases + 1 /\ e.Leases # 0
                       /\ e.Leases < f.MaxLeases
                    \/ ~e.InUse /\ f.Leases = 0
  <2>0. j \in Slots /\ Entries[j].Leases \in Nat /\ Entries[j].MaxLeases \in Nat
    BY <1>0, <1>2 DEF EntryType
  <2>1. CASE \/ Shares(Entries, Entries', j, Key(r))
             \/ Reuses(Entries, Entries', j, Key(r), now)
    <3>1. KeysEqualForAutoAlpnAcquire(Key(r), Entries[j].Key) /\ Entries'[j].Key = Entries[j].Key
      BY <1>0, <2>1, JoinedEntry
    <3>2. KeysEqualExceptAlpn(Key(r), Entries'[j].Key)
      BY <3>1 DEF KeysEqualForAutoAlpnAcquire, KeysEqual
    <3>3. QED
      BY <1>0, <2>0, <2>1, <3>1, <3>2, JoinedEntry
  <2>2. CASE Renews(Entries, Entries', j, Key(r), NextConnectionId)
    <3>1. ~Entries[j].InUse
      BY <1>2, <2>2 DEF Renews
    <3>2. /\ Entries'[j].Key = Key(r) /\ Entries'[j].InUse /\ Entries'[j].Connected
          /\ Entries'[j].Leases = 0 /\ Entries'[j].MaxLeases \in {0, Entries[j].MaxLeases}
      BY <1>0, <2>0, <2>2, RenewedEntry
    <3>3. QED
      BY <2>0, <3>1, <3>2 DEF KeysEqualExceptAlpn
  <2>3. QED
    BY <2>1, <2>2 DEF Takes
<1>3. /\ slot' = [slot EXCEPT ![r] = j] /\ kind' = kind /\ slot[r] = 0
      /\ conn' = [conn EXCEPT ![r] = IF j = 0 THEN 0 ELSE Entries'[j].Id]
  BY DEF Takes
<1>4. ASSUME NEW q \in Requests PROVE Keeps(q)'
  <2>1. Key(q)' = Key(q)
    BY <1>3 DEF Key
  <2>2. CASE q = r
    <3>1. slot'[q] = j /\ (j # 0 => conn'[q] = Entries'[j].Id)
      BY <1>0, <1>3, <2>2
    <3>2. QED
      BY <1>2, <2>1, <2>2, <3>1 DEF Keeps
  <2>3. CASE q # r
    <3>1. slot'[q] = slot[q] /\ conn'[q] = conn[q] /\ Keeps(q) /\ (slot[q] = 0 \/ slot[q] \in Slots)
      BY <1>0, <1>3, <2>3
    <3>2. CASE slot[q] = j /\ j # 0
      BY <1>2, <2>1, <3>1, <3>2 DEF Keeps
    <3>3. CASE slot[q] # j /\ slot[q] # 0
      <4>1. Entries'[slot[q]] = Entries[slot[q]]
        BY <1>1, <3>1, <3>3 DEF Keeps
      <4>2. QED
        BY <2>1, <3>1, <4>1 DEF Keeps
    <3>4. QED
      BY <3>1, <3>2, <3>3 DEF Keeps
  <2>4. QED
    BY <2>2, <2>3
<1>5. ASSUME NEW i \in Slots PROVE Exact(i)' /\ Sound(Entries[i])'
  <2>0. Exact(i) /\ Sound(Entries[i]) /\ TypeOK /\ Cardinality(Holders(i)) \in Nat
    BY <1>0, HoldersFinite DEF PoolInv
  <2>1. CASE i # j
    <3>1. Holders(i)' = Holders(i)
      BY <1>0, <1>3, <2>0, <2>1, HolderJoins
    <3>2. CASE Entries'[i] = Entries[i]
      BY <2>0, <3>1, <3>2 DEF Exact, Sound
    <3>3. CASE ~Entries[i].InUse /\ Entries'[i] = ZeroEntry
      <4>1. Cardinality(Holders(i)) = 0
        BY <3>3, UnusedUnheld
      <4>2. QED
        BY <1>z, <3>1, <3>3, <4>1 DEF Exact, Sound
    <3>4. QED
      BY <1>1, <2>1, <3>2, <3>3
  <2>2. CASE i = j
    <3>1. Cardinality(Holders(i))' = Cardinality(Holders(i)) + 1
      BY <1>0, <1>3, <2>0, <2>2, HolderJoins
    <3>2. ~Entries[i].InUse => Cardinality(Holders(i)) = 0
      BY UnusedUnheld
    <3>3. QED
      BY <1>0, <1>2, <2>0, <2>2, <3>1, <3>2 DEF Exact, Sound
  <2>3. QED
    BY <2>1, <2>2
<1>6. QED
  BY <1>4, <1>5, KeptPartsPrime
\* Giving back: the others that hold the connection keep it, because it is leased to
\* them, and nobody closes it for a replay.
LEMMA GivesKeep ==
    ASSUME Unshared \/ NoReplay, KeptInv, LedgerInv', NEW r \in Requests, Gives(r)
    PROVE  KeptInv'
<1>p. KeptInv => PoolInv /\ TypeOK
  BY DEF KeptInv, LedgerInv, PoolInv
<1>k. /\ \A q \in Requests : Keeps(q)
      /\ \A i \in Slots : Exact(i) /\ Sound(Entries[i])
  BY KeptParts
<1>t. /\ slot \in [Requests -> {0} \cup Slots] /\ 0 \notin Slots /\ now # 0
      /\ Entries \in [Slots -> EntryType] /\ kind \in [Requests -> Kinds]
  BY <1>p DEF TypeOK, Slots, KeptInv, LedgerInv, Numbered
<1>z. ~ZeroEntry.Connected /\ ~ZeroEntry.InUse /\ ZeroEntry.Leases = 0 /\ ZeroEntry.MaxLeases = 0
  BY DEF ZeroEntry
<1> DEFINE i == slot[r]
           e == Entries[i]
           f == Entries'[i]
<1>g. /\ i \in Slots /\ slot' = [slot EXCEPT ![r] = 0] /\ conn' = conn /\ kind' = kind
      /\ \A k \in Slots \ {i} : Entries'[k] = Entries[k]
  BY DEF Gives
<1>e. e.Leases \in Nat /\ e.MaxLeases \in Nat
  BY <1>g, <1>t DEF EntryType
<1>1. ASSUME NEW q \in Requests, q # r, slot[q] = i
      PROVE  /\ e.Leases \in Nat \ {0, 1} /\ f.Leases = e.Leases - 1 /\ f.InUse = e.InUse
             /\ f.Id = e.Id /\ f.Connected = e.Connected /\ f.Key = e.Key
  <2>1. e.Leases \in Nat \ {0, 1} /\ ~Unshared
    BY <1>1, <1>g, SharedLeases
  <2>2. ~ShouldRetryWithFreshConnection(r)
    BY <2>1, <1>t DEF NoReplay, ShouldRetryWithFreshConnection
  <2>3. f.Leases = e.Leases - 1 /\ f.InUse = e.InUse
    BY <2>1, <2>2 DEF Gives
  <2>4. f # ZeroEntry
    BY <1>z, <2>1, <2>3
  <2>5. QED
    BY <2>1, <2>3, <2>4 DEF Gives
<1>2. /\ Sound(f)
      /\ \/ f.Leases = 0
         \/ e.Leases \in Nat \ {0, 1} /\ f.Leases = e.Leases - 1 /\ f.MaxLeases = e.MaxLeases
  <2>1. f = ZeroEntry \/ f.MaxLeases = e.MaxLeases
    BY DEF Gives
  <2>2. Unshared => f.MaxLeases <= 1
    BY <1>k, <1>g, <1>z, <2>1 DEF Sound
  <2>3. e.InUse
    BY <1>k, <1>g, <1>t DEF Keeps
  <2>4. f.Connected /\ ~f.InUse => f.LastUsedTime # 0
    BY <1>z, <1>t, <2>3 DEF Gives
  <2>5. \/ f.Leases = 0
        \/ e.Leases \in Nat \ {0, 1} /\ f.Leases = e.Leases - 1
    BY <1>z DEF Gives
  <2>6. QED
    BY <1>z, <2>1, <2>2, <2>4, <2>5 DEF Sound
<1>3. ASSUME NEW q \in Requests PROVE Keeps(q)'
  <2>1. Key(q)' = Key(q) /\ conn'[q] = conn[q] /\ Keeps(q)
    BY <1>g, <1>k DEF Key
  <2>2. CASE q = r
    <3>1. slot'[q] = 0
      BY <1>g, <1>t, <2>2
    <3>2. QED
      BY <3>1 DEF Keeps
  <2>3. CASE q # r
    <3>1. slot'[q] = slot[q] /\ (slot[q] = 0 \/ slot[q] \in Slots)
      BY <1>g, <1>t, <2>3
    <3>2. CASE slot[q] = i
      <4>1. f.Id = e.Id /\ f.Connected = e.Connected /\ f.Key = e.Key /\ f.InUse = e.InUse
        BY <1>1, <2>3, <3>2
      <4>2. QED
        BY <2>1, <3>1, <3>2, <4>1 DEF Keeps
    <3>3. CASE slot[q] # i
      BY <1>g, <2>1, <3>1, <3>3 DEF Keeps
    <3>4. QED
      BY <3>2, <3>3
  <2>4. QED
    BY <2>2, <2>3
<1>4. ASSUME NEW k \in Slots PROVE Exact(k)' /\ Sound(Entries[k])'
  <2>0. Exact(k) /\ Sound(Entries[k]) /\ Cardinality(Holders(k)) \in Nat
    BY <1>k, HoldersFinite
  <2>1. CASE k # i
    <3>1. Holders(k)' = Holders(k) /\ Entries'[k] = Entries[k]
      BY <1>g, <1>p, <2>1, HolderLeaves
    <3>2. QED
      BY <2>0, <3>1 DEF Exact, Sound
  <2>2. CASE k = i
    <3>1. Cardinality(Holders(k))' = Cardinality(Holders(k)) - 1
      BY <1>g, <1>p, <2>2, HolderLeaves
    <3>2. Sound(Entries[k])'
      BY <1>2, <2>2 DEF Sound
    <3>3. Exact(k)'
      <4>1. CASE \E q \in Requests : q # r /\ slot[q] = i
        BY <1>1, <1>2, <1>e, <2>0, <2>2, <3>1, <4>1 DEF Exact
      <4>2. CASE ~\E q \in Requests : q # r /\ slot[q] = i
        <5>1. Holders(k) = {r}
          BY <2>2, <4>2 DEF Holders
        <5>2. Cardinality(Holders(k)) = 1
          BY <5>1, FS_Singleton
        <5>3. f.Leases = 0
          BY <1>2, <1>e, <2>0, <2>2, <5>2 DEF Exact
        <5>4. QED
          BY <2>2, <3>1, <5>2, <5>3 DEF Exact
      <4>3. QED
        BY <4>1, <4>2
    <3>4. QED
      BY <3>2, <3>3
  <2>3. QED
    BY <2>1, <2>2
<1>5. QED
  BY <1>3, <1>4, KeptPartsPrime

LEMMA PromotesKeep ==
    ASSUME KeptInv, LedgerInv', NEW r \in Requests, Promotes(r)
    PROVE  KeptInv'
<1>k. /\ \A q \in Requests : Keeps(q)
      /\ \A i \in Slots : Exact(i) /\ Sound(Entries[i])
  BY KeptParts
<1>t. slot \in [Requests -> {0} \cup Slots] /\ 0 \notin Slots
  BY DEF TypeOK, Slots, KeptInv, LedgerInv, PoolInv
<1> DEFINE i == slot[r]
           e == Entries[i]
           f == Entries'[i]
<1>g. /\ i \in Slots /\ slot' = slot /\ conn' = conn /\ kind' = kind
      /\ \A k \in Slots \ {i} : Entries'[k] = Entries[k]
      /\ e.Leases = 0 /\ f.InUse /\ f.Connected /\ f.Leases = 1
      /\ f.MaxLeases \in StreamLimits \ {0} /\ f.Id = e.Id /\ f.Key = e.Key
  BY DEF Promotes
<1>m. f.MaxLeases \in Nat \ {0} /\ (Unshared => f.MaxLeases <= 1)
  <2>1. f.MaxLeases \in StreamLimits /\ f.MaxLeases # 0 /\ StreamLimits \subseteq Nat
    BY <1>g, SendAssumption
  <2>2. Unshared => f.MaxLeases = 1
    BY <2>1 DEF Unshared
  <2>3. f.MaxLeases \in Nat
    BY <2>1
  <2>4. Unshared => f.MaxLeases <= 1
    BY <2>2
  <2>5. QED
    BY <2>1, <2>3, <2>4
<1>1. ASSUME NEW q \in Requests PROVE Keeps(q)'
  <2>1. Key(q)' = Key(q) /\ conn'[q] = conn[q] /\ Keeps(q) /\ slot'[q] = slot[q]
    BY <1>g, <1>k DEF Key
  <2>2. slot[q] = 0 \/ slot[q] \in Slots
    BY <1>t
  <2>3. QED
    BY <1>g, <2>1, <2>2 DEF Keeps
<1>2. ASSUME NEW k \in Slots PROVE Exact(k)' /\ Sound(Entries[k])'
  <2>0. Exact(k) /\ Sound(Entries[k]) /\ Cardinality(Holders(k)) \in Nat
    BY <1>k, HoldersFinite
  <2>1. Holders(k)' = Holders(k)
    BY <1>g DEF Holders
  <2>2. CASE k # i
    BY <1>g, <2>0, <2>1, <2>2 DEF Exact, Sound
  <2>3. CASE k = i
    <3>1. r \in Holders(k)
      BY <2>3 DEF Holders
    <3>2. Cardinality(Holders(k)) # 0
      BY <3>1, HoldersFinite, FS_EmptySet
    <3>3. Cardinality(Holders(k)) = 1
      BY <1>g, <2>0, <2>3, <3>2 DEF Exact
    <3>4. QED
      BY <1>g, <1>m, <2>1, <2>3, <3>3 DEF Exact, Sound
  <2>4. QED
    BY <2>2, <2>3
<1>3. QED
  BY <1>1, <1>2, KeptPartsPrime

LEMMA RestKeeps ==
    ASSUME KeptInv, LedgerInv', Shutdown \/ Tick \/ UNCHANGED vars
    PROVE  KeptInv'
<1>k. /\ \A q \in Requests : Keeps(q)
      /\ \A i \in Slots : Exact(i) /\ Sound(Entries[i])
  BY KeptParts
<1>u. slot' = slot /\ conn' = conn /\ kind' = kind
  BY DEF Shutdown, Tick, vars, request
<1>h. \A i \in Slots : Holders(i)' = Holders(i)
  BY <1>u DEF Holders
<1>1. CASE Entries' = Entries
  <2>1. \A q \in Requests : Keeps(q)'
    BY <1>1, <1>k, <1>u DEF Keeps, Key
  <2>2. \A i \in Slots : Exact(i)' /\ Sound(Entries[i])'
    BY <1>1, <1>k, <1>h DEF Exact, Sound
  <2>3. QED
    BY <2>1, <2>2, KeptPartsPrime
<1>2. CASE Shutdown
  <2>1. \A q \in Requests : slot[q] = 0
    BY <1>2 DEF KeptInv, LedgerInv, PoolInv, TypeOK, Using, Shutdown
  <2>2. \A q \in Requests : Keeps(q)'
    BY <1>u, <2>1 DEF Keeps
  <2>3. 0 \notin Slots
    BY DEF Slots
  <2>4. ASSUME NEW i \in Slots PROVE Exact(i)' /\ Sound(Entries[i])'
    <3>1. Holders(i) = {}
      BY <2>1, <2>3 DEF Holders
    <3>2. Cardinality(Holders(i)) = 0
      BY <3>1, FS_EmptySet
    <3>3. Entries'[i] = ZeroEntry
      BY <1>2 DEF Shutdown, ShutdownEntries
    <3>4. ~ZeroEntry.Connected /\ ZeroEntry.Leases = 0 /\ ZeroEntry.MaxLeases = 0
      BY DEF ZeroEntry
    <3>5. QED
      BY <1>h, <3>2, <3>3, <3>4 DEF Exact, Sound
  <2>5. QED
    BY <2>2, <2>4, KeptPartsPrime
<1>3. QED
  BY <1>1, <1>2 DEF Tick, vars, pool

LEMMA KeptInit == Init => KeptInv
<1> SUFFICES ASSUME Init PROVE KeptInv
  OBVIOUS
<1>1. LedgerInv
  BY LedgerInit
<1>2. \A r \in Requests : Keeps(r)
  BY DEF Init, Keeps
<1>3. ASSUME NEW i \in Slots PROVE Exact(i) /\ Sound(Entries[i])
  <2>1. 0 \notin Slots
    BY DEF Slots
  <2>2. Holders(i) = {}
    BY <2>1 DEF Init, Holders
  <2>3. Cardinality(Holders(i)) = 0
    BY <2>2, FS_EmptySet
  <2>4. ~ZeroEntry.Connected /\ ZeroEntry.Leases = 0 /\ ZeroEntry.MaxLeases = 0
    BY DEF ZeroEntry
  <2>5. Entries[i] = ZeroEntry
    BY DEF Init
  <2>6. QED
    BY <2>3, <2>4, <2>5 DEF Exact, Sound
<1>4. QED
  BY <1>1, <1>2, <1>3, KeptParts

LEMMA KeptStep ==
    ASSUME Unshared \/ NoReplay, KeptInv, [Next]_vars PROVE KeptInv'
<1>1. LedgerInv /\ LedgerInv'
  BY LedgerStep DEF KeptInv
<1>2. ASSUME NEW r \in Requests, Acquire(r) \/ Progress(r) PROVE KeptInv'
  BY <1>1, <1>2, RequestSteps, MovesKeep, PromotesKeep, TakesKeep, GivesKeep
<1>3. QED
  BY <1>1, <1>2, RestKeeps DEF Next

LEMMA KeptInvariant == ASSUME Unshared \/ NoReplay PROVE Spec => []KeptInv
<1>1. Init => KeptInv
  BY KeptInit
<1>2. KeptInv /\ [Next]_vars => KeptInv'
  BY KeptStep
<1>3. QED
  BY <1>1, <1>2, PTL DEF Spec

\* For every pool and every set of requests: a request that holds a connection finds
\* there the connection it acquired, and the leases count the holders exactly within
\* the peer's limit, provided that no connection is shared or no request is replayed
\* (KhConnectionPoolClose closes a shared connection for the replay of one of its
\* users: run pool_shared_retry shows that the hypothesis is needed).
THEOREM ConnectionsKept ==
    ASSUME Unshared \/ NoReplay
    PROVE  Spec => [](HoldersKeepConnection /\ LeasesExact)
<1>1. KeptInv => HoldersKeepConnection /\ LeasesExact
  BY DEF KeptInv
<1>2. QED
  BY <1>1, KeptInvariant, PTL

-----------------------------------------------------------------------------
(* An expired connection is not handed out.                                   *)

Renewed(i) ==
    /\ Entries[i].Connected /\ ~Entries[i].InUse /\ Entries'[i].InUse
    /\ IdleTimeout # 0 /\ now >= Entries[i].LastUsedTime + IdleTimeout
    => Entries'[i].Id # Entries[i].Id

LEMMA RequestsRenew ==
    ASSUME KeptInv, NEW r \in Requests, Acquire(r) \/ Progress(r), NEW i \in Slots
    PROVE  Renewed(i)
<1> SUFFICES ASSUME Entries[i].Connected, ~Entries[i].InUse, Entries'[i].InUse,
                    IdleTimeout # 0, now >= Entries[i].LastUsedTime + IdleTimeout
             PROVE  Entries'[i].Id # Entries[i].Id
  BY DEF Renewed
<1>1. LedgerInv /\ PoolInv /\ (\A q \in Requests : Keeps(q)) /\ Sound(Entries[i])
  BY KeptParts DEF LedgerInv
<1>2. /\ Entries \in [Slots -> EntryType] /\ now \in Nat /\ IdleTimeout \in Nat
      /\ NextConnectionId \in Nat
      /\ Entries[i].LastUsedTime \in Nat /\ Entries[i].Id \in Nat
  BY <1>1, PoolAssumption DEF PoolInv, TypeOK, EntryType
<1>3. IsIdleExpired(Entries[i], now)
  BY <1>1, <1>2 DEF IsIdleExpired, Sound
<1>4. ~Moves(r) /\ ~Promotes(r) /\ ~Gives(r)
  <2>1. 0 \notin Slots /\ ~ZeroEntry.InUse
    BY DEF Slots, ZeroEntry
  <2>2. slot[r] \in Slots => Entries[slot[r]].InUse
    BY <1>1, <2>1 DEF Keeps
  <2>3. ~Moves(r) /\ ~Promotes(r)
    BY <2>2 DEF Moves, Promotes, SameBooks
  <2>4. ~Gives(r)
    BY <2>1, <2>2 DEF Gives
  <2>5. QED
    BY <2>3, <2>4
<1>5. PICK j, b : Takes(r, j, b)
  BY <1>1, <1>4, RequestSteps
<1>6. i = j
  <2>1. ~ZeroEntry.InUse
    BY DEF ZeroEntry
  <2>2. QED
    BY <1>1, <1>5, <2>1, TakenEntries
<1>7. ~Shares(Entries, Entries', j, Key(r)) /\ ~Reuses(Entries, Entries', j, Key(r), now)
  BY <1>3, <1>6 DEF Shares, Reuses
<1>8. b = FALSE /\ ~shut
  BY <1>5, <1>7 DEF Takes
<1>9. Entries'[i].Id = NextConnectionId
  BY <1>1, <1>5, <1>6, <1>8, TakenEntry
<1>10. Entries[i].Id < NextConnectionId
  BY <1>1, <1>8 DEF LedgerInv, Numbered
<1>11. QED
  BY <1>2, <1>9, <1>10

\* KhConnectionPoolAcquire never hands out a connection that has been idle for the
\* timeout, for every pool without replays on shared connections.
THEOREM ExpiredNotReused ==
    ASSUME Unshared \/ NoReplay PROVE Spec => NoExpiredReuse
<1>1. ASSUME KeptInv, [Next]_vars PROVE [\A i \in Slots : Renewed(i)]_vars
  <2>1. ASSUME NEW r \in Requests, Acquire(r) \/ Progress(r) PROVE \A i \in Slots : Renewed(i)
    BY <1>1, <2>1, RequestsRenew
  <2>2. ASSUME Shutdown PROVE \A i \in Slots : Renewed(i)
    <3>1. \A i \in Slots : ~Entries'[i].InUse
      BY <2>2 DEF Shutdown, ShutdownEntries, ZeroEntry
    <3>2. QED
      BY <3>1 DEF Renewed
  <2>3. ASSUME Tick PROVE \A i \in Slots : Renewed(i)
    <3>1. Entries' = Entries
      BY <2>3 DEF Tick, pool
    <3>2. QED
      BY <3>1 DEF Renewed
  <2>4. QED
    BY <1>1, <2>1, <2>2, <2>3 DEF Next
<1>2. KeptInv /\ [Next]_vars =>
        [\A i \in Slots :
           /\ Entries[i].Connected /\ ~Entries[i].InUse /\ Entries'[i].InUse
           /\ IdleTimeout # 0 /\ now >= Entries[i].LastUsedTime + IdleTimeout
           => Entries'[i].Id # Entries[i].Id]_vars
  BY <1>1 DEF Renewed
<1>3. QED
  BY <1>2, KeptInvariant, PTL DEF Spec, NoExpiredReuse
-----------------------------------------------------------------------------
(* The layers of a connection: who holds it works on a link that is up.       *)

SameLink(e, f) ==
    /\ f.Socket = e.Socket /\ f.Tunnel = e.Tunnel /\ f.Tls = e.Tls /\ f.Alpn = e.Alpn
    /\ f.Http2 = e.Http2

Bare(f) ==
    f.Socket = "none" /\ ~f.Tunnel /\ f.Tls = "none" /\ f.Alpn = "" /\ ~f.Http2

\* What a step of SendViaTransport from p to q does to the link of its connection.
LinkEffect(p, q, key, e, f) ==
    \/ p = "socket" /\ q = "tls" /\ e.Socket = "connected" /\ SameLink(e, f)
    \/ p = "socket" /\ q = "dial" /\ e.Socket # "connected" /\ Bare(f)
    \/ /\ p = "dial" /\ q = "tls" /\ f.Socket = "connected" /\ ~f.Tunnel
       /\ f.Tls = e.Tls /\ f.Alpn = e.Alpn
    \/ p \in {"dial", "tunnel", "handshake", "receive"} /\ q = "finish" /\ SameLink(e, f)
    \/ p = "tls" /\ q = "send" /\ SameLink(e, f)
    \/ /\ p = "tls" /\ q = "tunnel" /\ e.Tls # "established" /\ f.Tls = "none"
       /\ f.Alpn = "" /\ f.Socket = e.Socket /\ f.Tunnel = e.Tunnel
    \/ /\ p = "tunnel" /\ q = "handshake" /\ f.Tls = e.Tls /\ f.Alpn = e.Alpn
       /\ f.Socket = e.Socket /\ (ProxyEnabled => f.Tunnel)
    \/ /\ p = "handshake" /\ q = "send" /\ f.Tls = "established" /\ f.Socket = e.Socket
       /\ f.Tunnel = e.Tunnel
    \/ p = "handshake" /\ q \in {"socket", "finish"} /\ Bare(f)
    \/ /\ p = "send" /\ f.Socket = e.Socket /\ f.Tunnel = e.Tunnel /\ f.Tls = e.Tls
       /\ f.Alpn = e.Alpn /\ (e.Http2 => f.Http2)
       /\ \/ q = "finish"
          \/ /\ q = IF e.Alpn = "h2" /\ e.Leases = 0 THEN "promote" ELSE "receive"
             /\ LinkUp(e, key) /\ ~NotNegotiated(e, key)
             /\ e.Alpn = "h2" => f.Http2
    \/ /\ p = "receive" /\ q = "finish" /\ Faults # {}
       /\ f.Socket \in {e.Socket, "lost"} /\ f.Tunnel = e.Tunnel /\ f.Alpn = e.Alpn
       /\ f.Tls = e.Tls \/ (e.Tls = "established" /\ f.Tls = "failed")

\* The layers each operation leaves.
LEMMA LayersOf ==
    ASSUME NEW e \in EntryType
    PROVE  /\ SameLink(e, e)
           /\ Bare(TornDown(e))
           /\ Bare(Closed(e))
           /\ LET f == WithoutTls(e) IN
                f.Tls = "none" /\ f.Alpn = "" /\ f.Socket = e.Socket /\ f.Tunnel = e.Tunnel
           /\ LET f == Dialled(e) IN
                f.Socket = "connected" /\ ~f.Tunnel /\ f.Tls = e.Tls /\ f.Alpn = e.Alpn
           /\ LET f == Tunnelled(e) IN
                f.Tunnel /\ f.Socket = e.Socket /\ f.Tls = e.Tls /\ f.Alpn = e.Alpn
           /\ \A a \in Alpns : LET f == Secured(e, a) IN
                f.Tls = "established" /\ f.Socket = e.Socket /\ f.Tunnel = e.Tunnel
           /\ LET f == Lost(e) IN
                f.Socket = "lost" /\ f.Tunnel = e.Tunnel /\ f.Tls = e.Tls /\ f.Alpn = e.Alpn
           /\ LET f == TlsFailed(e) IN
                f.Socket = e.Socket /\ f.Tunnel = e.Tunnel /\ f.Tls = "failed" /\ f.Alpn = e.Alpn
<1>1. SameLink(e, e)
  BY DEF SameLink
<1>2. Bare(TornDown(e))
  BY DEF Bare, TornDown, EntryType
<1>3. Bare(Closed(e))
  <2>1. TornDown(e) \in EntryType
    BY LinkLayers DEF LinkOnly
  <2>2. QED
    BY <1>2, <2>1 DEF Bare, Closed, EntryType
<1>4. QED
  BY <1>1, <1>2, <1>3 DEF WithoutTls, Dialled, Tunnelled, Secured, Lost, TlsFailed, EntryType

LEMMA LinkEffects ==
    ASSUME PoolInv, NEW r \in Requests, LinkActions(r)
    PROVE  LinkEffect(pc[r], pc'[r], Key(r), Entry(r), Entries'[slot[r]])
<1>1. pc[r] \in Using /\ pc \in [Requests -> Using \cup {"idle", "reacquire", "done"}]
  BY EntryMoves DEF PoolInv, TypeOK
<1>2. Entry(r) \in EntryType /\ slot[r] \in Slots /\ Key(r) \in KeyType
      /\ Entries \in [Slots -> EntryType]
  BY <1>1, StepFacts DEF PoolInv, TypeOK
<1> DEFINE e == Entry(r)
           f == Entries'[slot[r]]
<1>3. \A g : SetEntry(r, g) => f = g
  BY <1>2 DEF SetEntry
<1>4. Entries' = Entries => f = e
  BY DEF Entry
<1>5. \A p : Goto(r, p) => pc'[r] = p
  BY <1>1 DEF Goto
<1>6. \A s : Fail(r, s) => pc'[r] = "finish"
  BY <1>5 DEF Fail
<1>7. /\ SameLink(e, e) /\ Bare(TornDown(e)) /\ Bare(Closed(e))
  BY <1>2, LayersOf
<1> HIDE DEF e, f
<1>8. CASE EnsureSocketConnected(r)
  <2>1. /\ pc[r] = "socket"
        /\ \/ e.Socket = "connected" /\ pc'[r] = "tls" /\ f = e
           \/ e.Socket # "connected" /\ pc'[r] = "dial" /\ f = TornDown(e)
    BY <1>3, <1>4, <1>5, <1>8 DEF EnsureSocketConnected, e
  <2>2. QED
    BY <1>7, <2>1 DEF LinkEffect, e, f
<1>9. CASE ConnectSocketToAddress(r)
  <2>1. /\ pc[r] = "dial"
        /\ \/ pc'[r] = "tls" /\ f = Dialled(e)
           \/ pc'[r] = "finish" /\ f = e
    BY <1>3, <1>4, <1>5, <1>6, <1>9 DEF ConnectSocketToAddress, e
  <2>2. LET g == Dialled(e) IN
          g.Socket = "connected" /\ ~g.Tunnel /\ g.Tls = e.Tls /\ g.Alpn = e.Alpn
    BY <1>2, LayersOf DEF e
  <2>3. QED
    BY <1>7, <2>1, <2>2 DEF LinkEffect, e, f
<1>10. CASE EnsureTlsConnected(r)
  <2>1. /\ pc[r] = "tls"
        /\ \/ pc'[r] = "send" /\ f = e
           \/ e.Tls # "established" /\ pc'[r] = "tunnel" /\ f = WithoutTls(e)
    BY <1>3, <1>4, <1>5, <1>10 DEF EnsureTlsConnected, e
  <2>2. LET g == WithoutTls(e) IN
          g.Tls = "none" /\ g.Alpn = "" /\ g.Socket = e.Socket /\ g.Tunnel = e.Tunnel
    BY <1>2, LayersOf DEF e
  <2>3. QED
    BY <1>7, <2>1, <2>2 DEF LinkEffect, e, f
<1>11. CASE EstablishProxyTunnel(r)
  <2>1. /\ pc[r] = "tunnel"
        /\ \/ pc'[r] = "handshake" /\ f = e /\ (~ProxyEnabled \/ e.Tunnel)
           \/ pc'[r] = "handshake" /\ f = Tunnelled(e)
           \/ pc'[r] = "finish" /\ f = e
    BY <1>3, <1>4, <1>5, <1>6, <1>11 DEF EstablishProxyTunnel, e
  <2>2. LET g == Tunnelled(e) IN
          g.Tunnel /\ g.Socket = e.Socket /\ g.Tls = e.Tls /\ g.Alpn = e.Alpn
    BY <1>2, LayersOf DEF e
  <2>3. QED
    BY <1>7, <2>1, <2>2 DEF LinkEffect, e, f
<1>12. CASE ConnectTlsOnExistingSocket(r)
  <2>1. /\ pc[r] = "handshake"
        /\ \/ pc'[r] = "send" /\ \E a \in Negotiable(Key(r)) : f = Secured(e, a)
           \/ pc'[r] = "finish" /\ f = e
    BY <1>3, <1>4, <1>5, <1>6, <1>12 DEF ConnectTlsOnExistingSocket, e
  <2>2. Negotiable(Key(r)) \subseteq Alpns
    BY <1>2 DEF Negotiable, KeyType, Alpns
  <2>3. \A a \in Alpns : LET g == Secured(e, a) IN
          g.Tls = "established" /\ g.Socket = e.Socket /\ g.Tunnel = e.Tunnel
    BY <1>2, LayersOf DEF e
  <2>4. QED
    BY <1>7, <2>1, <2>2, <2>3 DEF LinkEffect, e, f
<1>13. CASE ConfirmTls12(r)
  <2>1. pc[r] = "handshake" /\ pc'[r] \in {"socket", "finish"} /\ f = Closed(e)
    BY <1>3, <1>5, <1>6, <1>13 DEF ConfirmTls12, e
  <2>2. QED
    BY <1>7, <2>1 DEF LinkEffect, e, f
<1>14. CASE Send(r)
  <2> DEFINE g == WithNegotiatedAlpn(e, Key(r))
             b == g.Http2 \/ g.Alpn = "h2"
  <2>1. /\ g.Socket = e.Socket /\ g.Tunnel = e.Tunnel /\ g.Tls = e.Tls
        /\ g.Alpn = e.Alpn /\ g.Http2 = e.Http2 /\ SameBooks(e, g)
        /\ LET h == WithHttp2(g, b) IN
             /\ h.Socket = e.Socket /\ h.Tunnel = e.Tunnel /\ h.Tls = e.Tls
             /\ h.Alpn = e.Alpn /\ h.Http2 = b
    <3>1. b \in BOOLEAN
      OBVIOUS
    <3> HIDE DEF b
    <3>2. QED
      BY <1>2, <3>1, SentBooksKept DEF e
  <2>2. /\ pc[r] = "send"
        /\ \/ pc'[r] = "finish" /\ (f = g \/ f = WithHttp2(g, b))
           \/ /\ f = WithHttp2(g, b) /\ LinkUp(g, Key(r)) /\ ~NotNegotiated(g, Key(r))
              /\ pc'[r] = IF g.Alpn = "h2" /\ g.Leases = 0 THEN "promote" ELSE "receive"
    <3> HIDE DEF b
    <3>1. b = (g.Http2 \/ g.Alpn = "h2") /\ g = WithNegotiatedAlpn(Entry(r), Key(r))
      BY DEF b, e
    <3> HIDE DEF g
    <3>2. QED
      BY <1>3, <1>5, <1>6, <1>14, <3>1 DEF Send
  <2>3. g.Leases = e.Leases /\ (LinkUp(g, Key(r)) <=> LinkUp(e, Key(r)))
        /\ (NotNegotiated(g, Key(r)) <=> NotNegotiated(e, Key(r)))
    BY <2>1 DEF SameBooks, LinkUp, NotNegotiated
  <2> HIDE DEF g
  <2>4. f.Socket = e.Socket /\ f.Tunnel = e.Tunnel /\ f.Tls = e.Tls
        /\ f.Alpn = e.Alpn /\ (e.Http2 => f.Http2)
    BY <2>1, <2>2
  <2>5. QED
    BY <2>1, <2>2, <2>3, <2>4 DEF LinkEffect, e, f
<1>15. CASE Receive(r)
  <2>1. /\ pc[r] = "receive" /\ pc'[r] = "finish"
        /\ \/ f = e
           \/ Faults # {} /\ f = Lost(e)
           \/ Faults # {} /\ e.Tls = "established" /\ f = TlsFailed(e)
    BY <1>3, <1>4, <1>5, <1>6, <1>15 DEF Receive, e
  <2>2. /\ LET g == Lost(e) IN
             g.Socket = "lost" /\ g.Tunnel = e.Tunnel /\ g.Tls = e.Tls /\ g.Alpn = e.Alpn
        /\ LET g == TlsFailed(e) IN
             g.Socket = e.Socket /\ g.Tunnel = e.Tunnel /\ g.Tls = "failed" /\ g.Alpn = e.Alpn
    BY <1>2, LayersOf DEF e
  <2>3. QED
    BY <1>7, <2>1, <2>2 DEF LinkEffect, e, f
<1>16. QED
  BY <1>8, <1>9, <1>10, <1>11, <1>12, <1>13, <1>14, <1>15 DEF LinkActions, e, f
\* No connection is shared, or nobody closes a shared one: no replay, no link fault.
Undisturbed == Unshared \/ (NoReplay /\ Faults = {})

\* Of an entry: TLS towards the origin lies on a tunnel of this socket, a protocol on
\* TLS, and a connection that may be shared has every layer.
Layered(e) ==
    /\ e.Tls = "established" /\ ProxyEnabled => e.Tunnel
    /\ e.Tunnel => e.Socket # "none"
    /\ e.Alpn # "" => e.Tls # "none"
    /\ ~Unshared => e.Tls # "failed"
    /\ e.Leases # 0 /\ ~Unshared =>
         e.Socket = "connected" /\ e.Tls = "established" /\ e.Alpn = "h2" /\ e.Http2

\* Of a request at p and the entry it holds: the layers it has passed are there, and
\* the ones it still has to build are nobody else's.
Working(p, key, e) ==
    /\ p \in {"tls", "tunnel", "handshake"} => e.Socket = "connected"
    /\ p = "handshake" /\ ProxyEnabled => e.Tunnel
    /\ p = "dial" => e.Tls = "none" /\ e.Alpn = ""
    /\ p \in {"dial", "tunnel", "handshake", "promote"} => e.Leases = 0
    /\ Unshared /\ p \in {"socket", "tls", "send"} => e.Leases = 0
    /\ p \in {"promote", "receive"} =>
         /\ e.Socket = "connected"
         /\ key.https => e.Tls = "established"
         /\ e.Alpn = "h2" => e.Http2
         /\ key.alpn = "h2" => e.Alpn = "h2"
    /\ p = "promote" => e.Alpn = "h2" /\ (~Unshared => e.Tls = "established")

Works(r) == slot[r] # 0 => Working(pc[r], Key(r), Entries[slot[r]])

LayersInv ==
    /\ KeptInv
    /\ \A i \in Slots : Layered(Entries[i])
    /\ \A r \in Requests : Works(r)

\* A step on the link keeps the layers of its connection in order.
LEMMA LayersBuilt ==
    ASSUME Undisturbed, NEW p, NEW q, NEW key, NEW e \in EntryType, NEW f \in EntryType,
           LinkEffect(p, q, key, e, f), f.Leases = e.Leases,
           Layered(e), Working(p, key, e)
    PROVE  Layered(f) /\ Working(q, key, f)
<1> USE DEF Layered, Working
<1>0. ~Unshared => Faults = {}
  BY DEF Undisturbed
<1>1. CASE p = "socket" /\ q = "tls" /\ e.Socket = "connected" /\ SameLink(e, f)
  BY <1>1 DEF SameLink
<1>2. CASE p = "socket" /\ q = "dial" /\ e.Socket # "connected" /\ Bare(f)
  BY <1>2 DEF Bare
<1>3. CASE /\ p = "dial" /\ q = "tls" /\ f.Socket = "connected" /\ ~f.Tunnel
           /\ f.Tls = e.Tls /\ f.Alpn = e.Alpn
  BY <1>3
<1>4. CASE p \in {"dial", "tunnel", "handshake", "receive"} /\ q = "finish" /\ SameLink(e, f)
  BY <1>4 DEF SameLink
<1>5. CASE p = "tls" /\ q = "send" /\ SameLink(e, f)
  BY <1>5 DEF SameLink
<1>6. CASE /\ p = "tls" /\ q = "tunnel" /\ e.Tls # "established" /\ f.Tls = "none"
           /\ f.Alpn = "" /\ f.Socket = e.Socket /\ f.Tunnel = e.Tunnel
  BY <1>6
<1>7. CASE /\ p = "tunnel" /\ q = "handshake" /\ f.Tls = e.Tls /\ f.Alpn = e.Alpn
           /\ f.Socket = e.Socket /\ (ProxyEnabled => f.Tunnel)
  BY <1>7
<1>8. CASE /\ p = "handshake" /\ q = "send" /\ f.Tls = "established" /\ f.Socket = e.Socket
           /\ f.Tunnel = e.Tunnel
  BY <1>8
<1>9. CASE p = "handshake" /\ q \in {"socket", "finish"} /\ Bare(f)
  BY <1>9 DEF Bare
<1>10. CASE /\ p = "send" /\ f.Socket = e.Socket /\ f.Tunnel = e.Tunnel /\ f.Tls = e.Tls
            /\ f.Alpn = e.Alpn /\ (e.Http2 => f.Http2)
            /\ \/ q = "finish"
               \/ /\ q = IF e.Alpn = "h2" /\ e.Leases = 0 THEN "promote" ELSE "receive"
                  /\ LinkUp(e, key) /\ ~NotNegotiated(e, key)
                  /\ e.Alpn = "h2" => f.Http2
  <2>1. Layered(f)
    BY <1>10
  <2>2. e.Tls \in {"none", "established", "failed"}
    BY DEF EntryType
  <2>3. Working(q, key, f)
    BY <1>10, <2>2 DEF LinkUp, NotNegotiated
  <2>4. QED
    BY <2>1, <2>3
<1>11. CASE /\ p = "receive" /\ q = "finish" /\ Faults # {}
            /\ f.Socket \in {e.Socket, "lost"} /\ f.Tunnel = e.Tunnel /\ f.Alpn = e.Alpn
            /\ f.Tls = e.Tls \/ (e.Tls = "established" /\ f.Tls = "failed")
  BY <1>0, <1>11
<1>12. QED
  BY <1>1, <1>2, <1>3, <1>4, <1>5, <1>6, <1>7, <1>8, <1>9, <1>10, <1>11 DEF LinkEffect

\* A step on a link that others share leaves it alone.
LEMMA SharedLinkStays ==
    ASSUME Undisturbed, NEW p, NEW q, NEW key, NEW e \in EntryType, NEW f \in EntryType,
           LinkEffect(p, q, key, e, f), e.Leases # 0, ~Unshared,
           Layered(e), Working(p, key, e)
    PROVE  SameLink(e, f)
<1>1. e.Socket = "connected" /\ e.Tls = "established" /\ e.Alpn = "h2" /\ e.Http2 /\ Faults = {}
  BY DEF Layered, Undisturbed
<1>2. p \notin {"dial", "tunnel", "handshake", "promote"}
  BY DEF Working
<1>3. QED
  BY <1>1, <1>2 DEF LinkEffect, SameLink, EntryType

\* What a request needs of its entry, it finds in one with the same link, unless the
\* first lease was given while it still builds.
LEMMA WorkingStays ==
    ASSUME NEW p, NEW key, NEW e, NEW f, SameLink(e, f), Working(p, key, e),
           f.Leases = e.Leases \/ (e.Leases # 0 /\ ~Unshared)
    PROVE  Working(p, key, f)
BY DEF SameLink, Working

LEMMA LayersPartsPrime ==
    ASSUME KeptInv', \A i \in Slots : Layered(Entries[i])', \A r \in Requests : Works(r)'
    PROVE  LayersInv'
BY DEF LayersInv

LEMMA LinkKeepsLayers ==
    ASSUME Undisturbed, LayersInv, KeptInv', NEW r \in Requests, LinkActions(r)
    PROVE  LayersInv'
<1>p. KeptInv /\ PoolInv /\ (\A i \in Slots : Layered(Entries[i])) /\ \A q \in Requests : Works(q)
  BY DEF LayersInv, KeptInv, LedgerInv
<1>t. /\ slot \in [Requests -> {0} \cup Slots] /\ 0 \notin Slots
      /\ Entries \in [Slots -> EntryType] /\ Entries' \in [Slots -> EntryType]
  BY <1>p DEF PoolInv, TypeOK, Slots, KeptInv, LedgerInv
<1>m. Moves(r)
  BY <1>p, LinkMoves
<1> DEFINE i == slot[r]
           e == Entries[i]
           f == Entries'[i]
<1>1. /\ i \in Slots /\ slot' = slot /\ kind' = kind /\ \A k \in Slots \ {i} : Entries'[k] = Entries[k]
      /\ \A q \in Requests \ {r} : pc'[q] = pc[q]
      /\ f.Leases = e.Leases
  BY <1>m DEF Moves, SameBooks
<1>2. LinkEffect(pc[r], pc'[r], Key(r), e, f)
  BY <1>p, LinkEffects DEF Entry
<1>3. e \in EntryType /\ f \in EntryType /\ Layered(e) /\ Working(pc[r], Key(r), e)
  BY <1>p, <1>t, <1>1 DEF Works
<1>4. Layered(f) /\ Working(pc'[r], Key(r), f)
  BY <1>1, <1>2, <1>3, LayersBuilt
<1>5. ASSUME NEW k \in Slots PROVE Layered(Entries[k])'
  <2>1. Layered(Entries'[k])
    BY <1>p, <1>1, <1>4
  <2>2. QED
    BY <2>1 DEF Layered
<1>6. ASSUME NEW q \in Requests PROVE Works(q)'
  <2>0. slot'[q] = slot[q] /\ Key(q)' = Key(q) /\ Works(q) /\ (slot[q] = 0 \/ slot[q] \in Slots)
    BY <1>p, <1>t, <1>1 DEF Key
  <2>1. slot[q] # 0 => Working(pc'[q], Key(q), Entries'[slot[q]])
    <3>1. CASE q = r
      BY <1>4, <3>1
    <3>2. CASE q # r /\ slot[q] # i
      BY <1>1, <2>0, <3>2 DEF Works
    <3>3. CASE q # r /\ slot[q] = i
      <4>1. e.Leases # 0 /\ ~Unshared
        BY <1>p, <1>1, <3>3, SharedLeases
      <4>2. SameLink(e, f)
        BY <1>2, <1>3, <4>1, SharedLinkStays
      <4>3. Working(pc[q], Key(q), e)
        BY <1>1, <1>t, <2>0, <3>3 DEF Works
      <4>4. Working(pc[q], Key(q), f)
        BY <1>1, <4>2, <4>3, WorkingStays
      <4>5. QED
        BY <1>1, <3>3, <4>4
    <3>4. QED
      BY <3>1, <3>2, <3>3
  <2>2. QED
    BY <2>0, <2>1 DEF Works, Working
<1>7. QED
  BY <1>5, <1>6, LayersPartsPrime
\* The zeroed entry has no layers.
LEMMA ZeroLayered == Layered(ZeroEntry) /\ ZeroEntry.Leases = 0 /\ ~ZeroEntry.InUse
BY DEF Layered, ZeroEntry

LEMMA TakesKeepLayers ==
    ASSUME LayersInv, KeptInv', NEW r \in Requests, NEW j, NEW b, Takes(r, j, b)
    PROVE  LayersInv'
<1>p. KeptInv /\ PoolInv /\ (\A i \in Slots : Layered(Entries[i])) /\ \A q \in Requests : Works(q)
  BY DEF LayersInv, KeptInv, LedgerInv
<1>t. /\ slot \in [Requests -> {0} \cup Slots] /\ 0 \notin Slots
      /\ Entries \in [Slots -> EntryType] /\ kind \in [Requests -> Kinds]
      /\ NextConnectionId \in Nat
  BY <1>p DEF PoolInv, TypeOK, Slots
<1>k. Key(r) \in KeyType
  BY <1>t, SendAssumption, PoolAssumption DEF Key
<1>1. /\ j \in {0} \cup Slots /\ slot' = [slot EXCEPT ![r] = j] /\ kind' = kind
      /\ \A q \in Requests \ {r} : pc'[q] = pc[q]
      /\ j # 0 => pc'[r] \in {"socket", "finish"}
  BY DEF Takes
<1>2. \A k \in Slots \ {j} :
        Entries'[k] = Entries[k] \/ (~Entries[k].InUse /\ Entries'[k] = ZeroEntry)
  BY <1>p, TakenEntries DEF Idle
<1>3. ASSUME j # 0
      PROVE  /\ Layered(Entries'[j])
             /\ Unshared => Entries'[j].Leases = 0
             /\ Entries[j].InUse => /\ SameLink(Entries[j], Entries'[j])
                                    /\ Entries[j].Leases # 0 /\ ~Unshared
  <2> DEFINE e == Entries[j]
             f == Entries'[j]
  <2>0. j \in Slots /\ Layered(e) /\ e.Leases \in Nat /\ Sound(e) /\ e.MaxLeases \in Nat
    BY <1>p, <1>t, <1>1, <1>3, KeptParts DEF EntryType
  <2>1. CASE \/ Shares(Entries, Entries', j, Key(r))
             \/ Reuses(Entries, Entries', j, Key(r), now)
    <3>1. /\ f.Socket = e.Socket /\ f.Tls = e.Tls /\ f.Http2 = e.Http2
          /\ f.Tunnel = e.Tunnel /\ f.Alpn = e.Alpn
          /\ \/ e.InUse /\ f.Leases = e.Leases + 1 /\ e.Leases # 0 /\ e.Leases < e.MaxLeases
             \/ ~e.InUse /\ f.Leases = e.Leases /\ e.Leases = 0
      BY <1>t, <2>1, JoinedEntry
    <3>2. Unshared => e.MaxLeases <= 1
      BY <2>0 DEF Sound
    <3>3. (e.InUse => ~Unshared /\ e.Leases # 0) /\ (Unshared => f.Leases = 0)
      BY <2>0, <3>1, <3>2
    <3>4. SameLink(e, f)
      BY <3>1 DEF SameLink
    <3>5. Layered(f)
      BY <2>0, <3>1, <3>3 DEF Layered
    <3>6. QED
      BY <3>3, <3>4, <3>5
  <2>2. CASE Renews(Entries, Entries', j, Key(r), NextConnectionId)
    <3>1. ~e.InUse
      BY <1>3, <2>2 DEF Renews
    <3>2. /\ f.Leases = 0 /\ f.Tls = "none" /\ f.Socket = "none"
          /\ \/ f.Tunnel = FALSE /\ f.Alpn = ""
             \/ f.Tunnel = e.Tunnel /\ f.Alpn = e.Alpn /\ e.Socket = "none" /\ e.Tls = "none"
      BY <1>k, <1>t, <2>0, <2>2, RenewedEntry
    <3>3. Layered(f)
      BY <2>0, <3>2 DEF Layered
    <3>4. QED
      BY <3>1, <3>2, <3>3
  <2>3. QED
    BY <2>1, <2>2 DEF Takes
<1>4. ASSUME NEW k \in Slots PROVE Layered(Entries[k])'
  <2>1. Layered(Entries'[k])
    <3>1. CASE k = j
      BY <1>3, <1>t, <3>1
    <3>2. CASE k # j
      BY <1>2, <1>p, <3>2, ZeroLayered
    <3>3. QED
      BY <3>1, <3>2
  <2>2. QED
    BY <2>1 DEF Layered
<1>5. ASSUME NEW q \in Requests PROVE Works(q)'
  <2>0. Key(q)' = Key(q) /\ Works(q)
    BY <1>p, <1>1 DEF Key
  <2>1. slot'[q] # 0 => Working(pc'[q], Key(q), Entries'[slot'[q]])
    <3>1. CASE q = r
      <4>1. slot'[q] = j
        BY <1>t, <1>1, <3>1
      <4>2. QED
        BY <1>1, <1>3, <3>1, <4>1 DEF Working
    <3>2. CASE q # r
      <4>0. slot'[q] = slot[q] /\ pc'[q] = pc[q] /\ (slot[q] = 0 \/ slot[q] \in Slots)
        BY <1>t, <1>1, <3>2
      <4>k. slot[q] # 0 => Entries[slot[q]].InUse
        BY <1>p, KeptParts DEF Keeps
      <4>1. CASE slot[q] = j /\ j # 0
        <5>1. SameLink(Entries[j], Entries'[j]) /\ Entries[j].Leases # 0 /\ ~Unshared
          BY <1>3, <4>1, <4>k
        <5>2. Working(pc[q], Key(q), Entries[j])
          BY <2>0, <4>1 DEF Works
        <5>3. Working(pc[q], Key(q), Entries'[j])
          BY <5>1, <5>2, WorkingStays
        <5>4. QED
          BY <4>0, <4>1, <5>3
      <4>2. CASE slot[q] # j /\ slot[q] # 0
        BY <1>2, <2>0, <4>0, <4>k, <4>2 DEF Works
      <4>3. QED
        BY <4>0, <4>1, <4>2
    <3>3. QED
      BY <3>1, <3>2
  <2>2. QED
    BY <2>0, <2>1 DEF Works, Working
<1>6. QED
  BY <1>4, <1>5, LayersPartsPrime

LEMMA GivesKeepLayers ==
    ASSUME Undisturbed, LayersInv, KeptInv', NEW r \in Requests, Gives(r)
    PROVE  LayersInv'
<1>p. KeptInv /\ PoolInv /\ (\A i \in Slots : Layered(Entries[i])) /\ \A q \in Requests : Works(q)
  BY DEF LayersInv, KeptInv, LedgerInv
<1>t. /\ slot \in [Requests -> {0} \cup Slots] /\ 0 \notin Slots
      /\ Entries \in [Slots -> EntryType] /\ kind \in [Requests -> Kinds]
  BY <1>p DEF PoolInv, TypeOK, Slots
<1> DEFINE i == slot[r]
           e == Entries[i]
           f == Entries'[i]
<1>1. /\ i \in Slots /\ slot' = [slot EXCEPT ![r] = 0] /\ kind' = kind
      /\ \A k \in Slots \ {i} : Entries'[k] = Entries[k]
      /\ \A q \in Requests \ {r} : pc'[q] = pc[q]
  BY DEF Gives
<1>2. f = ZeroEntry \/ (SameLink(e, f) /\ (f.Leases # 0 => e.Leases # 0))
  <2>1. f = ZeroEntry \/ SameLink(e, f)
    BY DEF Gives, SameLink
  <2>2. f.Leases # 0 => e.Leases # 0
    BY ZeroLayered DEF Gives
  <2>3. QED
    BY <2>1, <2>2
<1>3. Layered(e)
  BY <1>1, <1>p
<1>4. Layered(f)
  BY <1>2, <1>3, ZeroLayered DEF Layered, SameLink
<1>5. ASSUME NEW q \in Requests, q # r, slot[q] = i
      PROVE  e.Leases # 0 /\ ~Unshared /\ SameLink(e, f)
  <2>1. e.Leases \in Nat \ {0, 1} /\ ~Unshared
    BY <1>5, <1>p, <1>1, SharedLeases
  <2>2. ~ShouldRetryWithFreshConnection(r)
    BY <2>1, <1>t DEF Undisturbed, NoReplay, ShouldRetryWithFreshConnection
  <2>3. f.Leases = e.Leases - 1
    BY <2>1, <2>2 DEF Gives
  <2>4. f # ZeroEntry
    BY <2>1, <2>3, ZeroLayered
  <2>5. QED
    BY <1>2, <2>1, <2>4
<1>6. ASSUME NEW k \in Slots PROVE Layered(Entries[k])'
  <2>1. Layered(Entries'[k])
    BY <1>1, <1>p, <1>4
  <2>2. QED
    BY <2>1 DEF Layered
<1>7. ASSUME NEW q \in Requests PROVE Works(q)'
  <2>0. Key(q)' = Key(q) /\ Works(q)
    BY <1>p, <1>1 DEF Key
  <2>1. CASE q = r
    <3>1. slot'[q] = 0
      BY <1>1, <1>t, <2>1
    <3>2. QED
      BY <3>1 DEF Works
  <2>2. CASE q # r
    <3>0. slot'[q] = slot[q] /\ pc'[q] = pc[q] /\ (slot[q] = 0 \/ slot[q] \in Slots)
      BY <1>t, <1>1, <2>2
    <3>1. slot[q] # 0 => Working(pc[q], Key(q), Entries'[slot[q]])
      <4>1. CASE slot[q] = i
        <5>1. e.Leases # 0 /\ ~Unshared /\ SameLink(e, f)
          BY <1>5, <2>2, <4>1
        <5>2. Working(pc[q], Key(q), e)
          BY <1>1, <1>t, <2>0, <4>1 DEF Works
        <5>3. Working(pc[q], Key(q), f)
          BY <5>1, <5>2, WorkingStays
        <5>4. QED
          BY <4>1, <5>3
      <4>2. CASE slot[q] # i
        BY <1>1, <2>0, <3>0, <4>2 DEF Works
      <4>3. QED
        BY <4>1, <4>2
    <3>2. QED
      BY <2>0, <3>0, <3>1 DEF Works, Working
  <2>3. QED
    BY <2>1, <2>2
<1>8. QED
  BY <1>6, <1>7, LayersPartsPrime

LEMMA PromotesKeepLayers ==
    ASSUME LayersInv, KeptInv', NEW r \in Requests, Promotes(r)
    PROVE  LayersInv'
<1>p. KeptInv /\ PoolInv /\ (\A i \in Slots : Layered(Entries[i])) /\ \A q \in Requests : Works(q)
  BY DEF LayersInv, KeptInv, LedgerInv
<1>t. slot \in [Requests -> {0} \cup Slots] /\ 0 \notin Slots
  BY <1>p DEF PoolInv, TypeOK, Slots
<1> DEFINE i == slot[r]
           e == Entries[i]
           f == Entries'[i]
<1>1. /\ i \in Slots /\ slot' = slot /\ kind' = kind
      /\ \A k \in Slots \ {i} : Entries'[k] = Entries[k]
      /\ \A q \in Requests \ {r} : pc'[q] = pc[q]
      /\ pc[r] = "promote" /\ pc'[r] = "receive" /\ e.Leases = 0 /\ f.Leases = 1
      /\ f.Socket = e.Socket /\ f.Tls = e.Tls /\ f.Http2 = e.Http2
      /\ f.Tunnel = e.Tunnel /\ f.Alpn = e.Alpn
  BY DEF Promotes
<1>2. Layered(e) /\ Working("promote", Key(r), e)
  BY <1>1, <1>p, <1>t DEF Works
<1>3. Layered(f) /\ Working("receive", Key(r), f)
  BY <1>1, <1>2 DEF Layered, Working
<1>4. ASSUME NEW q \in Requests, q # r PROVE slot[q] # i
  BY <1>4, <1>p, <1>1, SharedLeases
<1>5. ASSUME NEW k \in Slots PROVE Layered(Entries[k])'
  <2>1. Layered(Entries'[k])
    BY <1>1, <1>p, <1>3
  <2>2. QED
    BY <2>1 DEF Layered
<1>6. ASSUME NEW q \in Requests PROVE Works(q)'
  <2>0. Key(q)' = Key(q) /\ Works(q) /\ slot'[q] = slot[q] /\ (slot[q] = 0 \/ slot[q] \in Slots)
    BY <1>p, <1>1, <1>t DEF Key
  <2>1. slot[q] # 0 => Working(pc'[q], Key(q), Entries'[slot[q]])
    <3>1. CASE q = r
      BY <1>1, <1>3, <3>1
    <3>2. CASE q # r
      BY <1>1, <1>4, <2>0, <3>2 DEF Works
    <3>3. QED
      BY <3>1, <3>2
  <2>2. QED
    BY <2>0, <2>1 DEF Works, Working
<1>7. QED
  BY <1>5, <1>6, LayersPartsPrime

\* A promotion that the pool refuses changes no entry.
LEMMA RefusedKeepsLayers ==
    ASSUME LayersInv, KeptInv', NEW r \in Requests, Moves(r), pc'[r] = "finish",
           Entries' = Entries
    PROVE  LayersInv'
<1>p. (\A i \in Slots : Layered(Entries[i])) /\ \A q \in Requests : Works(q)
  BY DEF LayersInv
<1>1. /\ slot' = slot /\ kind' = kind /\ \A q \in Requests \ {r} : pc'[q] = pc[q]
  BY DEF Moves
<1>2. \A i \in Slots : Layered(Entries[i])'
  BY <1>p DEF Layered
<1>3. ASSUME NEW q \in Requests PROVE Works(q)'
  <2>1. Works(q) /\ Key(q)' = Key(q) /\ (pc'[q] = pc[q] \/ pc'[q] = "finish")
    BY <1>p, <1>1 DEF Key
  <2>2. QED
    BY <1>1, <2>1 DEF Works, Working
<1>4. QED
  BY <1>2, <1>3, LayersPartsPrime

LEMMA RestKeepsLayers ==
    ASSUME LayersInv, KeptInv', Shutdown \/ Tick \/ UNCHANGED vars
    PROVE  LayersInv'
<1>p. (\A i \in Slots : Layered(Entries[i])) /\ \A q \in Requests : Works(q)
  BY DEF LayersInv
<1>u. slot' = slot /\ pc' = pc /\ kind' = kind
  BY DEF Shutdown, Tick, vars, request
<1>1. CASE Entries' = Entries
  <2>1. \A i \in Slots : Layered(Entries[i])'
    BY <1>p, <1>1 DEF Layered
  <2>2. \A q \in Requests : Works(q)'
    BY <1>p, <1>u, <1>1 DEF Works, Working, Key
  <2>3. QED
    BY <2>1, <2>2, LayersPartsPrime
<1>2. CASE Shutdown
  <2>1. \A i \in Slots : Entries'[i] = ZeroEntry
    BY <1>2 DEF Shutdown, ShutdownEntries
  <2>2. ASSUME NEW i \in Slots PROVE Layered(Entries[i])'
    <3>1. Layered(Entries'[i])
      BY <2>1, ZeroLayered
    <3>2. QED
      BY <3>1 DEF Layered
  <2>3. \A q \in Requests : slot[q] = 0
    BY <1>2 DEF LayersInv, KeptInv, LedgerInv, PoolInv, TypeOK, Using, Shutdown
  <2>4. \A q \in Requests : Works(q)'
    BY <1>u, <2>3 DEF Works
  <2>5. QED
    BY <2>2, <2>4, LayersPartsPrime
<1>3. QED
  BY <1>1, <1>2 DEF Tick, vars, pool

LEMMA LayersInit == Init => LayersInv
<1> SUFFICES ASSUME Init PROVE LayersInv
  OBVIOUS
<1>1. KeptInv
  BY KeptInit
<1>2. \A i \in Slots : Layered(Entries[i])
  BY ZeroLayered DEF Init
<1>3. \A r \in Requests : Works(r)
  BY DEF Init, Works
<1>4. QED
  BY <1>1, <1>2, <1>3 DEF LayersInv

LEMMA LayersStep == ASSUME Undisturbed, LayersInv, [Next]_vars PROVE LayersInv'
<1>1. KeptInv /\ LedgerInv /\ PoolInv
  BY DEF LayersInv, KeptInv, LedgerInv
<1>2. KeptInv'
  BY <1>1, KeptStep DEF Undisturbed
<1>3. ASSUME NEW r \in Requests, Acquire(r) \/ Progress(r) PROVE LayersInv'
  <2>1. CASE LinkActions(r)
    BY <1>2, <2>1, LinkKeepsLayers
  <2>2. CASE Promote(r)
    BY <1>1, <1>2, <2>2, PromoteMoves, PromotesKeepLayers, RefusedKeepsLayers
  <2>3. CASE Release(r) \/ CloseForRetry(r)
    BY <1>1, <1>2, <2>3, ReleaseGives, GivesKeepLayers
  <2>4. CASE Acquire(r)
    BY <1>1, <1>2, <2>4, AcquireTakes, TakesKeepLayers
  <2>5. CASE RetryWithFreshConnection(r)
    <3>1. ~shut
      BY <1>1, <2>5, NotShut DEF RetryWithFreshConnection
    <3>2. QED
      BY <1>1, <1>2, <2>5, <3>1, RetryTakes, TakesKeepLayers
  <2>6. QED
    BY <1>3, <2>1, <2>2, <2>3, <2>4, <2>5 DEF Progress, LinkActions
<1>4. QED
  BY <1>2, <1>3, RestKeepsLayers DEF Next

LEMMA LayersInvariant == ASSUME Undisturbed PROVE Spec => []LayersInv
<1>1. Init => LayersInv
  BY LayersInit
<1>2. LayersInv /\ [Next]_vars => LayersInv'
  BY LayersStep
<1>3. QED
  BY <1>1, <1>2, PTL DEF Spec

\* For every pool and every set of requests: those that share an HTTP/2 connection do
\* not take it from each other, provided that no request retries and no stream times
\* out; and without the proviso when the peers allow one stream per connection.
THEOREM SharingSound == ASSUME Undisturbed PROVE Spec => []SharedConnectionSound
<1>1. LayersInv => SharedConnectionSound
  <2> SUFFICES ASSUME LayersInv PROVE SharedConnectionSound
    OBVIOUS
  <2>1. HoldersKeepConnection /\ LeasesExact /\ TypeOK
    BY DEF LayersInv, KeptInv, LedgerInv, PoolInv
  <2>2. ASSUME NEW r \in Requests, pc[r] \in {"promote", "receive"}
        PROVE  Working(pc[r], Key(r), Entry(r))
    <3>1. slot[r] # 0
      BY <2>1, <2>2 DEF TypeOK, Using
    <3>2. QED
      BY <3>1 DEF LayersInv, Works, Entry
  <2>3. LayersStayUp
    BY <2>2 DEF Working, LayersStayUp
  <2>4. QED
    BY <2>1, <2>3 DEF SharedConnectionSound
<1>2. QED
  BY <1>1, LayersInvariant, PTL

\* For every pool and every set of requests, with the same proviso: a request goes out
\* over a connection of its own pool identity and over the protocol it asks for, and
\* TLS towards the origin lies on a tunnel of the socket it is on (EnsureTlsConnected).
THEOREM IdentityKept == ASSUME Undisturbed PROVE Spec => []RightConnection
<1>1. LayersInv => RightConnection
  <2> SUFFICES ASSUME LayersInv PROVE RightConnection
    OBVIOUS
  <2>1. TypeOK /\ (\A r \in Requests : Keeps(r) /\ Works(r)) /\ \A i \in Slots : Layered(Entries[i])
    BY KeptParts DEF LayersInv, KeptInv, LedgerInv, PoolInv
  <2>2. ASSUME NEW r \in Requests, pc[r] \in {"promote", "receive"}
        PROVE  /\ KeysEqualExceptAlpn(Key(r), Entry(r).Key)
               /\ Key(r).alpn = "h2" => Entry(r).Alpn = "h2"
    <3>1. slot[r] # 0
      BY <2>1, <2>2 DEF TypeOK, Using
    <3>2. QED
      BY <2>1, <2>2, <3>1 DEF Keeps, Works, Working, Entry
  <2>3. QED
    BY <2>1, <2>2 DEF RightConnection, Layered
<1>2. QED
  BY <1>1, LayersInvariant, PTL
=============================================================================
