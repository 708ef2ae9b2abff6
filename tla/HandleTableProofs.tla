-------------------------- MODULE HandleTableProofs --------------------------
(***************************************************************************)
(* For every number of handles and threads: no handle is freed while an    *)
(* operation uses it, and every handle is closed by one thread only.       *)
(***************************************************************************)
EXTENDS HandleTable, FiniteSetTheorems, TLAPS

\* What the table's list and the creating threads say about memory.
Ownership ==
    /\ \A h \in active : memory[h] = "live"
    /\ \A t \in Threads : pc[t] = "creating" =>
          /\ memory[target[t]] = "building"
          /\ \A u \in Threads \ {t} : pc[u] = "creating" => target[u] # target[t]
    /\ \A t \in Threads : pc[t] = "freeing" => InFlight[target[t]] = 0

\* The inductive invariant: UsedIsLive needs the exact count, because a close
\* goes by InFlight, and ClosedOnce, because a second close would free memory
\* that may have a new owner.
HandleInv == TypeOK /\ InFlightExact /\ UsedIsLive /\ ClosedOnce /\ Ownership

LEMMA UsersFinite ==
    ASSUME NEW h
    PROVE  IsFiniteSet(Users(h)) /\ Cardinality(Users(h)) \in Nat
<1>1. Users(h) \subseteq Threads
  BY DEF Users
<1>2. QED
  BY <1>1, HandleAssumption, FS_Subset, FS_CardinalityType

\* A handle with a user has InFlight at least 1.
LEMMA UserCounts ==
    ASSUME HandleInv, NEW t \in Threads, pc[t] = "using"
    PROVE  InFlight[target[t]] \in Nat \ {0}
<1>1. t \in Users(target[t])
  BY DEF Users
<1>2. Cardinality(Users(target[t])) # 0
  BY <1>1, UsersFinite, FS_EmptySet
<1>3. QED
  BY <1>2, UsersFinite DEF HandleInv, TypeOK, InFlightExact

LEMMA HandleInvInit == Init => HandleInv
<1> SUFFICES ASSUME Init PROVE HandleInv
  OBVIOUS
<1>1. TypeOK /\ UsedIsLive /\ ClosedOnce /\ Ownership
  BY DEF Init, TypeOK, UsedIsLive, ClosedOnce, Closing, Ownership, Steps
<1>2. \A h \in Handles : Users(h) = {}
  BY DEF Init, Users
<1>3. InFlightExact
  BY <1>2, FS_EmptySet DEF Init, InFlightExact
<1>4. QED
  BY <1>1, <1>3 DEF HandleInv

\* A step that neither starts nor ends an operation leaves the users alone.
LEMMA SameUsers ==
    ASSUME InFlightExact, InFlight' = InFlight,
           \A h \in Handles : Users(h)' = Users(h)
    PROVE  InFlightExact'
BY DEF InFlightExact

LEMMA CreatePreserves ==
    ASSUME HandleInv, NEW t \in Threads, NEW h \in Handles, Create(t, h)
    PROVE  HandleInv'
<1>1. TypeOK'
  BY DEF HandleInv, TypeOK, Create, Goto, Steps
<1>2. UsedIsLive'
  BY DEF HandleInv, TypeOK, UsedIsLive, Create, Goto
<1>3. ClosedOnce'
  BY DEF HandleInv, TypeOK, ClosedOnce, Closing, Create, Goto
<1>4. Ownership'
  BY DEF HandleInv, TypeOK, Ownership, Create, Goto
<1>5. InFlightExact'
  <2>1. \A g \in Handles : Users(g)' = Users(g)
    BY DEF HandleInv, TypeOK, Users, Create, Goto
  <2>2. Users(h) = {}
    BY DEF HandleInv, TypeOK, UsedIsLive, Users, Create
  <2>3. InFlight[h] = 0
    BY <2>2, FS_EmptySet DEF HandleInv, InFlightExact
  <2>4. InFlight' = InFlight
    BY <2>3 DEF HandleInv, TypeOK, Create
  <2>5. QED
    BY <2>1, <2>4, SameUsers DEF HandleInv
<1>6. QED
  BY <1>1, <1>2, <1>3, <1>4, <1>5 DEF HandleInv

LEMMA RegisterPreserves ==
    ASSUME HandleInv, NEW t \in Threads, RegisterActiveHandle(t)
    PROVE  HandleInv'
<1>1. TypeOK'
  BY DEF HandleInv, TypeOK, RegisterActiveHandle, Goto, Steps
<1>2. UsedIsLive'
  BY DEF HandleInv, TypeOK, UsedIsLive, Ownership, RegisterActiveHandle, Goto
<1>3. ClosedOnce'
  BY DEF HandleInv, TypeOK, ClosedOnce, Closing, Ownership, RegisterActiveHandle, Goto
<1>4. Ownership'
  BY DEF HandleInv, TypeOK, Ownership, RegisterActiveHandle, Goto
<1>5. InFlightExact'
  <2>1. \A g \in Handles : Users(g)' = Users(g)
    BY DEF HandleInv, TypeOK, Users, RegisterActiveHandle, Goto
  <2>2. QED
    BY <2>1, SameUsers DEF HandleInv, RegisterActiveHandle
<1>6. QED
  BY <1>1, <1>2, <1>3, <1>4, <1>5 DEF HandleInv

LEMMA BeginPreserves ==
    ASSUME HandleInv, NEW t \in Threads, NEW h \in Handles, BeginHandleOperation(t, h)
    PROVE  HandleInv'
<1>1. TypeOK'
  BY DEF HandleInv, TypeOK, BeginHandleOperation, Goto, Steps
<1>2. UsedIsLive'
  BY DEF HandleInv, TypeOK, UsedIsLive, Ownership, BeginHandleOperation, Goto
<1>3. ClosedOnce'
  BY DEF HandleInv, TypeOK, ClosedOnce, Closing, BeginHandleOperation, Goto
<1>4. Ownership'
  BY DEF HandleInv, TypeOK, ClosedOnce, Closing, Ownership, BeginHandleOperation, Goto
<1>5. InFlightExact'
  <2>1. \A g \in Handles \ {h} : Users(g)' = Users(g)
    BY DEF HandleInv, TypeOK, Users, BeginHandleOperation, Goto
  <2>2. Users(h)' = Users(h) \cup {t} /\ t \notin Users(h)
    BY DEF HandleInv, TypeOK, Users, BeginHandleOperation, Goto
  <2>3. Cardinality(Users(h) \cup {t}) = Cardinality(Users(h)) + 1
    BY <2>2, UsersFinite, FS_AddElement
  <2>4. /\ InFlight'[h] = InFlight[h] + 1
        /\ \A g \in Handles \ {h} : InFlight'[g] = InFlight[g]
    BY DEF HandleInv, TypeOK, BeginHandleOperation
  <2>5. QED
    BY <2>1, <2>2, <2>3, <2>4 DEF HandleInv, InFlightExact
<1>6. QED
  BY <1>1, <1>2, <1>3, <1>4, <1>5 DEF HandleInv

LEMMA EndPreserves ==
    ASSUME HandleInv, NEW t \in Threads, EndHandleOperation(t)
    PROVE  HandleInv'
<1>0. PICK h \in Handles : h = target[t] /\ InFlight[h] \in Nat \ {0}
  BY UserCounts DEF HandleInv, TypeOK, EndHandleOperation
<1>1. TypeOK'
  BY <1>0 DEF HandleInv, TypeOK, EndHandleOperation, Goto, Steps
<1>2. UsedIsLive'
  BY DEF HandleInv, TypeOK, UsedIsLive, EndHandleOperation, Goto
<1>3. ClosedOnce'
  BY DEF HandleInv, TypeOK, ClosedOnce, Closing, EndHandleOperation, Goto
<1>4. Ownership'
  BY <1>0 DEF HandleInv, TypeOK, Ownership, EndHandleOperation, Goto
<1>5. InFlightExact'
  <2>1. \A g \in Handles \ {h} : Users(g)' = Users(g)
    BY <1>0 DEF HandleInv, TypeOK, Users, EndHandleOperation, Goto
  <2>2. Users(h)' = Users(h) \ {t} /\ t \in Users(h)
    BY <1>0 DEF HandleInv, TypeOK, Users, EndHandleOperation, Goto
  <2>3. Cardinality(Users(h) \ {t}) = Cardinality(Users(h)) - 1
    BY <2>2, UsersFinite, FS_RemoveElement
  <2>4. /\ InFlight'[h] = InFlight[h] - 1
        /\ \A g \in Handles \ {h} : InFlight'[g] = InFlight[g]
    BY <1>0 DEF HandleInv, TypeOK, EndHandleOperation
  <2>5. QED
    BY <1>0, <2>1, <2>2, <2>3, <2>4 DEF HandleInv, InFlightExact
<1>6. QED
  BY <1>1, <1>2, <1>3, <1>4, <1>5 DEF HandleInv

LEMMA SignalPreserves ==
    ASSUME HandleInv, NEW t \in Threads, SignalDrain(t)
    PROVE  HandleInv'
<1>1. TypeOK'
  BY DEF HandleInv, TypeOK, SignalDrain, Goto, Steps
<1>2. UsedIsLive' /\ ClosedOnce' /\ Ownership'
  BY DEF HandleInv, TypeOK, UsedIsLive, ClosedOnce, Closing, Ownership, SignalDrain, Goto
<1>3. InFlightExact'
  <2>1. \A g \in Handles : Users(g)' = Users(g)
    BY DEF HandleInv, TypeOK, Users, SignalDrain, Goto
  <2>2. QED
    BY <2>1, SameUsers DEF HandleInv, SignalDrain
<1>4. QED
  BY <1>1, <1>2, <1>3 DEF HandleInv

LEMMA ClosePreserves ==
    ASSUME HandleInv, NEW t \in Threads, NEW h \in Handles, TryCloseActiveHandle(t, h)
    PROVE  HandleInv'
<1>1. TypeOK'
  BY DEF HandleInv, TypeOK, TryCloseActiveHandle, Goto, Steps
<1>2. UsedIsLive' /\ Ownership'
  BY DEF HandleInv, TypeOK, UsedIsLive, Ownership, TryCloseActiveHandle, Goto
<1>3. ClosedOnce'
  BY DEF HandleInv, TypeOK, ClosedOnce, Closing, Ownership, TryCloseActiveHandle, Goto
<1>4. InFlightExact'
  <2>1. \A g \in Handles : Users(g)' = Users(g)
    BY DEF HandleInv, TypeOK, Users, TryCloseActiveHandle, Goto
  <2>2. QED
    BY <2>1, SameUsers DEF HandleInv, TryCloseActiveHandle
<1>5. QED
  BY <1>1, <1>2, <1>3, <1>4 DEF HandleInv

LEMMA DrainPreserves ==
    ASSUME HandleInv, NEW t \in Threads, WaitForHandleDrain(t)
    PROVE  HandleInv'
<1>1. TypeOK'
  BY DEF HandleInv, TypeOK, WaitForHandleDrain, Goto, Steps
<1>2. UsedIsLive' /\ Ownership'
  BY DEF HandleInv, TypeOK, UsedIsLive, Ownership, WaitForHandleDrain, Goto
<1>3. ClosedOnce'
  BY DEF HandleInv, TypeOK, ClosedOnce, Closing, WaitForHandleDrain, Goto
<1>4. InFlightExact'
  <2>1. \A g \in Handles : Users(g)' = Users(g)
    BY DEF HandleInv, TypeOK, Users, WaitForHandleDrain, Goto
  <2>2. QED
    BY <2>1, SameUsers DEF HandleInv, WaitForHandleDrain
<1>5. QED
  BY <1>1, <1>2, <1>3, <1>4 DEF HandleInv

LEMMA FreePreserves ==
    ASSUME HandleInv, NEW t \in Threads, FreeHandle(t)
    PROVE  HandleInv'
<1> DEFINE h == target[t]
<1>1. TypeOK'
  BY DEF HandleInv, TypeOK, FreeHandle, Goto, Steps
<1>2. h \in Handles /\ memory[h] = "live" /\ h \notin active
  BY DEF HandleInv, TypeOK, ClosedOnce, Closing, FreeHandle
<1>3. UsedIsLive'
  <2>1. \A u \in Threads : pc[u] = "using" => target[u] # h
    BY UserCounts DEF HandleInv, Ownership, FreeHandle
  <2>2. QED
    BY <2>1 DEF HandleInv, TypeOK, UsedIsLive, FreeHandle, Goto
<1>4. ClosedOnce'
  <2>1. \A u \in Threads \ {t} : Closing(u) => target[u] # h
    BY DEF HandleInv, ClosedOnce, Closing, FreeHandle
  <2>2. QED
    BY <2>1 DEF HandleInv, TypeOK, ClosedOnce, Closing, FreeHandle, Goto
<1>5. Ownership'
  BY <1>2 DEF HandleInv, TypeOK, Ownership, FreeHandle, Goto
<1>6. InFlightExact'
  <2>1. \A g \in Handles : Users(g)' = Users(g)
    BY DEF HandleInv, TypeOK, Users, FreeHandle, Goto
  <2>2. QED
    BY <2>1, SameUsers DEF HandleInv, FreeHandle
<1>7. QED
  BY <1>1, <1>3, <1>4, <1>5, <1>6 DEF HandleInv

LEMMA HandleInvStep == HandleInv /\ [Next]_vars => HandleInv'
<1> SUFFICES ASSUME HandleInv, [Next]_vars PROVE HandleInv'
  OBVIOUS
<1>1. ASSUME NEW t \in Threads, Finish(t) PROVE HandleInv'
  BY <1>1, RegisterPreserves, EndPreserves, SignalPreserves, DrainPreserves,
     FreePreserves DEF Finish
<1>2. ASSUME NEW t \in Threads, NEW h \in Handles,
             Create(t, h) \/ BeginHandleOperation(t, h) \/ TryCloseActiveHandle(t, h)
      PROVE  HandleInv'
  BY <1>2, CreatePreserves, BeginPreserves, ClosePreserves
<1>3. CASE UNCHANGED vars
  <2>1. \A g \in Handles : Users(g)' = Users(g)
    BY <1>3 DEF vars, Users
  <2>2. InFlightExact'
    BY <1>3, <2>1, SameUsers DEF HandleInv, vars
  <2>3. QED
    BY <1>3, <2>2
       DEF vars, HandleInv, TypeOK, UsedIsLive, ClosedOnce, Closing, Ownership
<1>4. QED
  BY <1>1, <1>2, <1>3 DEF Next

\* The inductive invariant of the handle table.
THEOREM HandleInvariant == Spec => []HandleInv
<1>1. Init => HandleInv
  BY HandleInvInit
<1>2. HandleInv /\ [Next]_vars => HandleInv'
  BY HandleInvStep
<1>3. QED
  BY <1>1, <1>2, PTL DEF Spec

\* No handle is freed, nor its memory handed to another handle, while an
\* operation that began on it has not ended, for any number of threads, handles
\* and closes.
THEOREM HandlesOutliveOperations == Spec => []UsedIsLive
<1>1. HandleInv => UsedIsLive
  BY DEF HandleInv
<1>2. QED
  BY <1>1, HandleInvariant, PTL

\* Exactly one of the closes of a handle frees it, and it frees its own memory.
THEOREM HandlesClosedOnce == Spec => []ClosedOnce
<1>1. HandleInv => ClosedOnce
  BY DEF HandleInv
<1>2. QED
  BY <1>1, HandleInvariant, PTL

\* InFlight is the number of operations under way, so it never wraps below 0.
THEOREM InFlightCorrect == Spec => []InFlightExact
<1>1. HandleInv => InFlightExact
  BY DEF HandleInv
<1>2. QED
  BY <1>1, HandleInvariant, PTL

\* No operation starts on a handle whose close has begun.
THEOREM NoLateOperations == Spec => ClosedStaysQuiet
<1>1. HandleInv /\ [Next]_vars =>
        [\A h \in Handles : h \notin active /\ memory[h] = "live"
                               => InFlight'[h] <= InFlight[h]]_vars
  <2> SUFFICES ASSUME HandleInv, Next, NEW h \in Handles,
                      h \notin active, memory[h] = "live"
               PROVE  InFlight'[h] <= InFlight[h]
    OBVIOUS
  <2>1. InFlight \in [Handles -> Nat] /\ target \in [Threads -> Handles]
    BY DEF HandleInv, TypeOK
  <2>2. ASSUME NEW t \in Threads, Finish(t) PROVE InFlight'[h] <= InFlight[h]
    <3>1. CASE EndHandleOperation(t)
      <4>1. InFlight[target[t]] \in Nat \ {0}
        BY <3>1, UserCounts DEF EndHandleOperation
      <4>2. QED
        BY <2>1, <3>1, <4>1 DEF EndHandleOperation
    <3>2. CASE ~EndHandleOperation(t)
      BY <2>1, <2>2, <3>2
         DEF Finish, RegisterActiveHandle, SignalDrain, WaitForHandleDrain, FreeHandle
    <3>3. QED
      BY <3>1, <3>2
  <2>3. ASSUME NEW t \in Threads, NEW g \in Handles,
               Create(t, g) \/ BeginHandleOperation(t, g) \/ TryCloseActiveHandle(t, g)
        PROVE  InFlight'[h] <= InFlight[h]
    BY <2>1, <2>3 DEF Create, BeginHandleOperation, TryCloseActiveHandle
  <2>4. QED
    BY <2>2, <2>3 DEF Next
<1>2. QED
  BY <1>1, HandleInvariant, PTL DEF Spec, ClosedStaysQuiet
=============================================================================
