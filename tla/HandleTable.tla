----------------------------- MODULE HandleTable -----------------------------
(***************************************************************************)
(* Lifetimes of the Kh* handles (engine/Engine.cpp): the active-handle     *)
(* lists, and InFlight with DrainEvent in every handle.  An operation      *)
(* starts by finding its handle in the list under the table lock; a close  *)
(* unlinks the handle, waits until InFlight is 0 and frees it.             *)
(*                                                                         *)
(* One list is modelled: the four kinds (session, request, response,       *)
(* WebSocket) do not share state.  A handle value is an address, so a      *)
(* thread may come with one that was freed, or freed and allocated again.  *)
(***************************************************************************)
EXTENDS Naturals, FiniteSets

CONSTANTS
    Handles,    \* addresses
    Threads     \* the caller's threads

ASSUME HandleAssumption == IsFiniteSet(Threads)

VARIABLES
    memory,     \* "free", "building" (not yet registered) or "live"
    active,     \* the handles in ActiveHandleList(kind)
    InFlight, DrainEvent,
    pc,         \* what each thread is doing
    target      \* the handle it is doing it to

vars == <<memory, active, InFlight, DrainEvent, pc, target>>

Steps == {"idle", "creating", "using", "signalling", "draining", "waiting", "freeing"}

Init ==
    /\ memory = [h \in Handles |-> "free"]
    /\ active = {}
    /\ InFlight = [h \in Handles |-> 0]
    /\ DrainEvent = [h \in Handles |-> FALSE]
    /\ pc = [t \in Threads |-> "idle"]
    /\ target \in [Threads -> Handles]

Goto(t, p) == pc' = [pc EXCEPT ![t] = p]

-----------------------------------------------------------------------------
\* KhSessionCreate and the like, up to the registration.
Create(t, h) ==
    /\ pc[t] = "idle"
    /\ memory[h] = "free"
    /\ memory' = [memory EXCEPT ![h] = "building"]
    /\ InFlight' = [InFlight EXCEPT ![h] = 0]
    /\ DrainEvent' = [DrainEvent EXCEPT ![h] = TRUE]
    /\ target' = [target EXCEPT ![t] = h]
    /\ Goto(t, "creating")
    /\ UNCHANGED active

\* RegisterActiveHandle, or a failed step of the creation and FreeHandle.
RegisterActiveHandle(t) ==
    /\ pc[t] = "creating"
    /\ \/ /\ active' = active \cup {target[t]}
          /\ memory' = [memory EXCEPT ![target[t]] = "live"]
       \/ /\ memory' = [memory EXCEPT ![target[t]] = "free"]
          /\ UNCHANGED active
    /\ Goto(t, "idle")
    /\ UNCHANGED <<InFlight, DrainEvent, target>>

\* BeginHandleOperation, one critical section; a handle that is not in the list
\* is refused.  (Closed is set and the handle unlinked in one section, so that a
\* listed handle is never closed.)
BeginHandleOperation(t, h) ==
    /\ pc[t] = "idle"
    /\ h \in active
    /\ InFlight' = [InFlight EXCEPT ![h] = @ + 1]
    /\ DrainEvent' = [DrainEvent EXCEPT ![h] = FALSE]
    /\ target' = [target EXCEPT ![t] = h]
    /\ Goto(t, "using")
    /\ UNCHANGED <<memory, active>>

\* EndHandleOperation: the interlocked decrement, ...
EndHandleOperation(t) ==
    /\ pc[t] = "using"
    /\ InFlight' = [InFlight EXCEPT ![target[t]] = @ - 1]
    /\ Goto(t, IF InFlight[target[t]] = 1 THEN "signalling" ELSE "idle")
    /\ UNCHANGED <<memory, active, DrainEvent, target>>

\* ... and KeSetEvent by the one that reached zero.
SignalDrain(t) ==
    /\ pc[t] = "signalling"
    /\ DrainEvent' = [DrainEvent EXCEPT ![target[t]] = TRUE]
    /\ Goto(t, "idle")
    /\ UNCHANGED <<memory, active, InFlight, target>>

\* TryCloseActiveHandle, for a handle of the caller's or for the first one
\* KhEngineCloseActiveHandles found; the loser of two closes changes nothing.
TryCloseActiveHandle(t, h) ==
    /\ pc[t] = "idle"
    /\ h \in active
    /\ active' = active \ {h}
    /\ target' = [target EXCEPT ![t] = h]
    /\ Goto(t, "draining")
    /\ UNCHANGED <<memory, InFlight, DrainEvent>>

\* Mutant: the wait ends with the event, whatever InFlight is.
DrainByEvent(t) ==
    /\ \/ pc[t] = "draining" /\ Goto(t, "waiting")
       \/ pc[t] = "waiting" /\ Goto(t, "freeing")
    /\ UNCHANGED <<memory, active, InFlight, DrainEvent, target>>

\* Mutant: the last operation is not waited for, and no operation for ever.
DrainOffByOne(t) ==
    /\ \/ pc[t] = "draining" /\ Goto(t, IF InFlight[target[t]] = 1
                                       THEN "freeing" ELSE "waiting")
       \/ pc[t] = "waiting" /\ Goto(t, "draining")
    /\ UNCHANGED <<memory, active, InFlight, DrainEvent, target>>

\* WaitForHandleDrain: test InFlight, wait for the event or the timeout, and
\* test again.
WaitForHandleDrain(t) ==
    /\ \/ pc[t] = "draining" /\ Goto(t, IF InFlight[target[t]] = 0
                                       THEN "freeing" ELSE "waiting")
       \/ pc[t] = "waiting" /\ Goto(t, "draining")
    /\ UNCHANGED <<memory, active, InFlight, DrainEvent, target>>

\* The storage is released and FreeHandle called.
FreeHandle(t) ==
    /\ pc[t] = "freeing"
    /\ memory' = [memory EXCEPT ![target[t]] = "free"]
    /\ Goto(t, "idle")
    /\ UNCHANGED <<active, InFlight, DrainEvent, target>>

Finish(t) ==
    \/ RegisterActiveHandle(t)
    \/ EndHandleOperation(t)
    \/ SignalDrain(t)
    \/ WaitForHandleDrain(t)
    \/ FreeHandle(t)

Next == \E t \in Threads :
    \/ Finish(t)
    \/ \E h \in Handles :
          \/ Create(t, h)
          \/ BeginHandleOperation(t, h)
          \/ TryCloseActiveHandle(t, h)

\* A thread inside a call of the library goes on; nobody must call it.
Spec == Init /\ [][Next]_vars /\ \A t \in Threads : WF_vars(Finish(t))

-----------------------------------------------------------------------------
(* Properties.                                                             *)

\* The values of the table; InFlight never becomes negative.
TypeOK ==
    /\ memory \in [Handles -> {"free", "building", "live"}]
    /\ active \in SUBSET Handles
    /\ InFlight \in [Handles -> Nat]
    /\ DrainEvent \in [Handles -> BOOLEAN]
    /\ pc \in [Threads -> Steps]
    /\ target \in [Threads -> Handles]

Users(h) == {t \in Threads : pc[t] = "using" /\ target[t] = h}

Closing(t) == pc[t] \in {"draining", "waiting", "freeing"}

\* InFlight counts the operations under way on the handle at that address, also
\* after the address went through a free and an allocation.
InFlightExact == \A h \in Handles : InFlight[h] = Cardinality(Users(h))

\* A handle is not freed, and its memory not given to a new handle, while an
\* operation that started on it is under way: KhSessionClose and the releases
\* wait for all of them, also for those that found the handle just before.
UsedIsLive ==
    \A t \in Threads : pc[t] = "using" => memory[target[t]] = "live"

\* Of several closes of a handle only one drains and frees it, and it frees
\* memory that is still the handle's.
ClosedOnce ==
    \A t \in Threads : Closing(t) =>
        /\ memory[target[t]] = "live"
        /\ target[t] \notin active
        /\ \A u \in Threads \ {t} : Closing(u) => target[u] # target[t]

\* Every write of the library goes to a handle that exists, the last write of
\* EndHandleOperation included.
SignalsLive ==
    \A t \in Threads : pc[t] = "signalling" => memory[target[t]] = "live"

\* No operation starts on a handle once its close has begun.
ClosedStaysQuiet ==
    [][\A h \in Handles :
          h \notin active /\ memory[h] = "live" => InFlight'[h] <= InFlight[h]]_vars

\* A close that has begun ends, however the last decrement, the event and the
\* timeouts fall.
CloseEnds == \A t \in Threads : (pc[t] = "draining") ~> (pc[t] = "idle")
=============================================================================
