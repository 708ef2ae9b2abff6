---------------------------- MODULE AsyncRuntime ----------------------------
(***************************************************************************)
(* The asynchronous runtime (engine/Async.cpp) and what the asynchronous   *)
(* sends put on it (engine/HttpEngine.cpp, engine/WsEngine.cpp): an        *)
(* operation is created by a client, queued, run by a worker thread or     *)
(* cancelled, completed once, and freed with its last reference; unloading *)
(* drains the runtime.                                                     *)
(*                                                                         *)
(* A step is one interlocked operation or one section of the queue lock.   *)
(* The clients of an operation are its owner, who sends and releases it,   *)
(* and one that cancels; a handle is not released during another call on   *)
(* it, as with any handle of the library.                                  *)
(***************************************************************************)
EXTENDS Naturals, Sequences, FiniteSets

CONSTANTS
    Ops,            \* the operations ever created
    Cancellable,    \* those somebody may cancel
    Workers,        \* KhAsyncWorkerCount threads
    MaxQueueDepth,  \* KhMaxAsyncQueueDepth
    MaxDrains       \* bound of the calls of KhEngineDrainAsync

ASSUME AsyncAssumption ==
    /\ Cancellable \subseteq Ops
    /\ "none" \notin Ops
    /\ IsFiniteSet(Ops) /\ IsFiniteSet(Workers)
    /\ MaxQueueDepth \in Nat \ {0}
    /\ MaxDrains \in Nat

VARIABLES
    \* KhAsyncOperation
    memory,         \* "none", "live", "freed"
    Closed, ReferenceCount, Canceled, State, Status, Queued,
    completion,     \* CompleteOperation: "none" (Completed = 0), "claimed",
                    \* "status", "state", "done" (event set, callback called)
    completer,      \* who won the exchange of Completed, and with which status
    \* the runtime
    runtime,        \* g_asyncRuntimeState
    queue, stopped, semaphore, InFlight, DrainEvent,
    workerOp,       \* g_asyncWorkerOperations, or "none"
    \* the threads
    owner, canceller, worker, held, result,
    drain, flushing, drains, drained,
    \* the session of the operations
    session, SessionInFlight, ended

operation == <<memory, Closed, ReferenceCount, Canceled, State, Status, Queued,
               completion, completer>>
counters == <<semaphore, InFlight, DrainEvent>>
shared == <<runtime, queue, stopped, counters, workerOp>>
workers == <<worker, held, result>>
drainer == <<drain, flushing, drains, drained>>
sessions == <<session, SessionInFlight, ended>>
vars == <<operation, shared, owner, canceller, workers, drainer, sessions>>

NoCompleter == [by |-> "nobody", status |-> "pending"]

Init ==
    /\ memory = [o \in Ops |-> "none"]
    /\ Closed = [o \in Ops |-> FALSE]
    /\ ReferenceCount = [o \in Ops |-> 0]
    /\ Canceled = [o \in Ops |-> FALSE]
    /\ State = [o \in Ops |-> "Pending"]
    /\ Status = [o \in Ops |-> "pending"]
    /\ Queued = [o \in Ops |-> FALSE]
    /\ completion = [o \in Ops |-> "none"]
    /\ completer = [o \in Ops |-> NoCompleter]
    /\ runtime = 0
    /\ queue = <<>>
    /\ stopped = FALSE
    /\ semaphore = 0
    /\ InFlight = 0
    /\ DrainEvent = TRUE
    /\ workerOp = [w \in Workers |-> "none"]
    /\ owner = [o \in Ops |-> "none"]
    /\ canceller = [o \in Ops |-> "idle"]
    /\ worker = [w \in Workers |-> "none"]
    /\ held = [w \in Workers |-> "none"]
    /\ result = [w \in Workers |-> "pending"]
    /\ drain = "idle"
    /\ flushing = <<>>
    /\ drains = 0
    /\ drained = "never"
    /\ session = "open"
    /\ SessionInFlight = 0
    /\ ended = [o \in Ops |-> TRUE]

-----------------------------------------------------------------------------
(* References, completion and the counters.                                *)

\* Mutant: the exchange of SessionOperationEnded is dropped.
EndSessionTwice(o) ==
    /\ ended' = [ended EXCEPT ![o] = TRUE]
    /\ SessionInFlight' = IF SessionInFlight = 0 THEN 0 ELSE SessionInFlight - 1
    /\ UNCHANGED session

\* EndAsyncHttpSessionOperation, EndAsyncWebSocketSessionOperation
EndSessionOperation(o) ==
    IF ended[o]
    THEN UNCHANGED sessions
    ELSE /\ ended' = [ended EXCEPT ![o] = TRUE]
         /\ SessionInFlight' = SessionInFlight - 1
         /\ UNCHANGED session

AddRef(o) == ReferenceCount' = [ReferenceCount EXCEPT ![o] = @ + 1]

\* Mutant: the cleanup routine does not end the session's operation.
ReleaseNoCleanup(o) ==
    /\ ReferenceCount' = [ReferenceCount EXCEPT ![o] = @ - 1]
    /\ IF ReferenceCount[o] = 1
       THEN memory' = [memory EXCEPT ![o] = "freed"] /\ UNCHANGED sessions
       ELSE UNCHANGED <<memory, sessions>>

\* ReleaseRef with the cleanup routine of the context.
ReleaseRef(o) ==
    /\ ReferenceCount' = [ReferenceCount EXCEPT ![o] = @ - 1]
    /\ IF ReferenceCount[o] = 1
       THEN memory' = [memory EXCEPT ![o] = "freed"] /\ EndSessionOperation(o)
       ELSE UNCHANGED <<memory, sessions>>

\* CompleteOperation: the exchange of Completed, ...
Claim(o, who, st) ==
    IF completion[o] = "none"
    THEN /\ completion' = [completion EXCEPT ![o] = "claimed"]
         /\ completer' = [completer EXCEPT ![o] = [by |-> who, status |-> st]]
    ELSE UNCHANGED <<completion, completer>>

\* ... which the winner's caller has to see through, ...
Returned(o, who) == completer[o].by = who => completion[o] = "done"

\* ... and the three stores: Status, State, the event with the callback.
CompleteOperation(o) ==
    /\ \/ /\ completion[o] = "claimed"
          /\ Status' = [Status EXCEPT ![o] = completer[o].status]
          /\ completion' = [completion EXCEPT ![o] = "status"]
          /\ UNCHANGED State
       \/ /\ completion[o] = "status"
          /\ State' = [State EXCEPT ![o] = "Completed"]
          /\ completion' = [completion EXCEPT ![o] = "state"]
          /\ UNCHANGED Status
       \/ /\ completion[o] = "state"
          /\ completion' = [completion EXCEPT ![o] = "done"]
          /\ UNCHANGED <<Status, State>>
    /\ UNCHANGED <<memory, Closed, ReferenceCount, Canceled, Queued, completer,
                   shared, owner, canceller, workers, drainer, sessions>>

-----------------------------------------------------------------------------
(* The owner: KhHttpSendAsyncImpl, KhWebSocketConnectAsyncImpl and         *)
(* KhAsyncOperationRelease.                                                *)

Own(o, p) == owner' = [owner EXCEPT ![o] = p]

\* The context takes part in the session; KhAsyncOperationCreate, suspended.
Create(o) ==
    /\ owner[o] = "none"
    /\ session = "open"
    /\ SessionInFlight' = SessionInFlight + 1
    /\ ended' = [ended EXCEPT ![o] = FALSE]
    /\ memory' = [memory EXCEPT ![o] = "live"]
    /\ ReferenceCount' = [ReferenceCount EXCEPT ![o] = 1]
    /\ Own(o, "created")
    /\ UNCHANGED <<Closed, Canceled, State, Status, Queued, completion, completer,
                   shared, canceller, workers, drainer, session>>

\* EnsureAsyncRuntimeInitialized; while another thread initializes, it waits.
EnsureRuntime(o) ==
    /\ owner[o] = "created"
    /\ \/ runtime = 2 /\ Own(o, "check") /\ UNCHANGED runtime
       \/ runtime = 0 /\ Own(o, "starting") /\ runtime' = 1
       \/ runtime = 3 /\ Own(o, "rejected") /\ UNCHANGED runtime
    /\ UNCHANGED <<operation, queue, stopped, counters, workerOp, canceller,
                   workers, drainer, sessions>>

\* StartAsyncWorkers; when a thread cannot be created the ones that run are
\* woken (by both functions) to leave.
StartAsyncWorkers(o) ==
    /\ owner[o] = "starting"
    /\ \/ /\ worker' = [w \in Workers |-> "wait"]
          /\ runtime' = 2
          /\ Own(o, "check")
          /\ UNCHANGED <<stopped, semaphore>>
       \/ /\ \E some \in SUBSET Workers :
                /\ some # Workers
                /\ worker' = [w \in Workers |-> IF w \in some THEN "wait" ELSE "none"]
          /\ stopped' = TRUE
          /\ semaphore' = semaphore + 2 * Cardinality(Workers)
          /\ runtime' = 3     \* after a join whose result is ignored
          /\ Own(o, "rejected")
    /\ UNCHANGED <<operation, queue, InFlight, DrainEvent, workerOp, canceller,
                   held, result, drainer, sessions>>

\* KhAsyncOperationQueue: still pending, and queued by nobody else.
TryQueue(o) ==
    /\ owner[o] = "check"
    /\ IF State[o] = "Pending" /\ ~Queued[o]
       THEN Queued' = [Queued EXCEPT ![o] = TRUE] /\ Own(o, "canceled?")
       ELSE Own(o, "rejected") /\ UNCHANGED Queued
    /\ UNCHANGED <<memory, Closed, ReferenceCount, Canceled, State, Status,
                   completion, completer, shared, canceller, workers, drainer,
                   sessions>>

\* A canceled operation is completed; otherwise the queue gets a reference and
\* BeginAsyncOperation counts it, ...
QueueCanceled(o) ==
    /\ owner[o] = "canceled?"
    /\ IF Canceled[o]
       THEN /\ Claim(o, "owner", "cancelled")
            /\ Own(o, "ready")
            /\ UNCHANGED <<ReferenceCount, InFlight>>
       ELSE /\ AddRef(o)
            /\ InFlight' = InFlight + 1
            /\ Own(o, "begin")
            /\ UNCHANGED <<completion, completer>>
    /\ UNCHANGED <<memory, Closed, Canceled, State, Status, Queued, runtime, queue,
                   stopped, semaphore, DrainEvent, workerOp, canceller, workers,
                   drainer, sessions>>

\* ... and clears the event.
BeginAsyncOperation(o) ==
    /\ owner[o] = "begin"
    /\ DrainEvent' = FALSE
    /\ Own(o, "enqueue")
    /\ UNCHANGED <<operation, runtime, queue, stopped, semaphore, InFlight, workerOp,
                   canceller, workers, drainer, sessions>>

\* Mutant: the queue accepts operations after the stop.
EnqueueStopped(o) ==
    /\ owner[o] = "enqueue"
    /\ IF Len(queue) >= MaxQueueDepth
       THEN Own(o, "undo") /\ UNCHANGED queue
       ELSE Own(o, "post") /\ queue' = Append(queue, o)
    /\ UNCHANGED <<operation, runtime, stopped, counters, workerOp, canceller,
                   workers, drainer, sessions>>

\* EnqueueAsyncOperation under the queue lock, ...
EnqueueAsyncOperation(o) ==
    /\ owner[o] = "enqueue"
    /\ IF stopped \/ Len(queue) >= MaxQueueDepth
       THEN Own(o, "undo") /\ UNCHANGED queue
       ELSE Own(o, "post") /\ queue' = Append(queue, o)
    /\ UNCHANGED <<operation, runtime, stopped, counters, workerOp, canceller,
                   workers, drainer, sessions>>

\* Mutant: no permit when all workers are busy.
PostIfIdle(o) ==
    /\ owner[o] = "post"
    /\ semaphore' = IF \E w \in Workers : worker[w] = "wait" THEN semaphore + 1
                                                            ELSE semaphore
    /\ Own(o, "ready")
    /\ UNCHANGED <<operation, runtime, queue, stopped, InFlight, DrainEvent, workerOp,
                   canceller, workers, drainer, sessions>>

\* ... the semaphore after the unlock.
PostSemaphore(o) ==
    /\ owner[o] = "post"
    /\ semaphore' = semaphore + 1
    /\ Own(o, "ready")
    /\ UNCHANGED <<operation, runtime, queue, stopped, InFlight, DrainEvent, workerOp,
                   canceller, workers, drainer, sessions>>

\* A refused operation: EndAsyncOperation, ReleaseRef, Queued = 0.
UndoQueue(o) ==
    /\ \/ /\ owner[o] = "undo"
          /\ InFlight' = InFlight - 1
          /\ Own(o, IF InFlight = 1 THEN "undoSignal" ELSE "undoRef")
          /\ UNCHANGED <<DrainEvent, ReferenceCount, memory, Queued, sessions>>
       \/ /\ owner[o] = "undoSignal"
          /\ DrainEvent' = TRUE
          /\ Own(o, "undoRef")
          /\ UNCHANGED <<InFlight, ReferenceCount, memory, Queued, sessions>>
       \/ /\ owner[o] = "undoRef"
          /\ ReleaseRef(o)
          /\ Queued' = [Queued EXCEPT ![o] = FALSE]
          /\ Own(o, "rejected")
          /\ UNCHANGED <<InFlight, DrainEvent>>
    /\ UNCHANGED <<Closed, Canceled, State, Status, completion, completer, runtime,
                   queue, stopped, semaphore, workerOp, canceller, workers, drainer>>

\* KhAsyncOperationRelease: by the send that was refused, or by the client,
\* whether it waited for the completion or not.
Release(o) ==
    /\ owner[o] \in {"ready", "rejected"}
    /\ Returned(o, "owner")
    /\ canceller[o] \in {"idle", "returned"}
    /\ ~Closed[o]
    /\ Closed' = [Closed EXCEPT ![o] = TRUE]
    /\ ReleaseRef(o)
    /\ Own(o, IF owner[o] = "ready" THEN "released" ELSE "gone")
    /\ UNCHANGED <<Canceled, State, Status, Queued, completion, completer, shared,
                   canceller, workers, drainer>>

-----------------------------------------------------------------------------
(* KhAsyncOperationCancel.                                                 *)

Cancelling(o, p) == canceller' = [canceller EXCEPT ![o] = p]

CancelSetFlag(o) ==
    /\ o \in Cancellable
    /\ canceller[o] = "idle"
    /\ owner[o] # "none" /\ ~Closed[o]
    /\ Canceled' = [Canceled EXCEPT ![o] = TRUE]
    /\ Cancelling(o, "flagged")
    /\ UNCHANGED <<memory, Closed, ReferenceCount, State, Status, Queued, completion,
                   completer, shared, owner, workers, drainer, sessions>>

\* Only a pending operation is completed here.
CancelPending(o) ==
    /\ \/ /\ canceller[o] = "flagged"
          /\ Cancelling(o, IF State[o] = "Pending" THEN "pending" ELSE "returned")
          /\ UNCHANGED <<completion, completer>>
       \/ /\ canceller[o] = "pending"
          /\ Claim(o, "canceller", "cancelled")
          /\ Cancelling(o, "completing")
       \/ /\ canceller[o] = "completing"
          /\ Returned(o, "canceller")
          /\ Cancelling(o, "returned")
          /\ UNCHANGED <<completion, completer>>
    /\ UNCHANGED <<memory, Closed, ReferenceCount, Canceled, State, Status, Queued,
                   shared, owner, workers, drainer, sessions>>

-----------------------------------------------------------------------------
(* AsyncWorkerRoutine.                                                     *)

Work(w, p) == worker' = [worker EXCEPT ![w] = p]

WaitForWork(w) ==
    /\ worker[w] = "wait"
    /\ semaphore > 0
    /\ semaphore' = semaphore - 1
    /\ Work(w, "dequeue")
    /\ UNCHANGED <<operation, runtime, queue, stopped, InFlight, DrainEvent, workerOp,
                   owner, canceller, held, result, drainer, sessions>>

DequeueAsyncOperation(w) ==
    /\ worker[w] = "dequeue"
    /\ IF queue = <<>>
       THEN Work(w, "empty") /\ UNCHANGED <<queue, workerOp, held>>
       ELSE /\ queue' = Tail(queue)
            /\ workerOp' = [workerOp EXCEPT ![w] = Head(queue)]
            /\ held' = [held EXCEPT ![w] = Head(queue)]
            /\ Work(w, "run")
    /\ UNCHANGED <<operation, runtime, stopped, counters, owner, canceller, result,
                   drainer, sessions>>

LeaveIfStopped(w) ==
    /\ worker[w] = "empty"
    /\ Work(w, IF stopped THEN "exited" ELSE "wait")
    /\ UNCHANGED <<operation, shared, owner, canceller, held, result, drainer, sessions>>

\* RunOperation up to the routine: skip what is completed, complete what is
\* canceled, else State = Running.
RunOperation(w) ==
    /\ LET o == held[w] IN
       \/ /\ worker[w] = "run"
          /\ Work(w, IF completion[o] # "none" THEN "clear" ELSE "canceled?")
          /\ UNCHANGED <<completion, completer, State>>
       \/ /\ worker[w] = "canceled?"
          /\ IF Canceled[o]
             THEN Claim(o, "worker", "cancelled") /\ Work(w, "clear")
             ELSE Work(w, "start") /\ UNCHANGED <<completion, completer>>
          /\ UNCHANGED State
       \/ /\ worker[w] = "start"
          /\ State' = [State EXCEPT ![o] = "Running"]
          /\ Work(w, "routine")
          /\ UNCHANGED <<completion, completer>>
    /\ UNCHANGED <<memory, Closed, ReferenceCount, Canceled, Status, Queued, shared,
                   owner, canceller, held, result, drainer, sessions>>

\* Mutant: the routine does not ask whether it has been canceled.
RoutineUnchecked(w) ==
    /\ worker[w] = "routine"
    /\ Work(w, "sending")
    /\ UNCHANGED <<operation, shared, owner, canceller, held, result, drainer, sessions>>

\* RunHttpAsyncOperation, RunWebSocketConnectAsyncOperation: not begun when
\* canceled, ...
WorkerRoutine(w) ==
    /\ worker[w] = "routine"
    /\ IF Canceled[held[w]]
       THEN /\ EndSessionOperation(held[w])
            /\ result' = [result EXCEPT ![w] = "cancelled"]
            /\ Work(w, "complete")
       ELSE Work(w, "sending") /\ UNCHANGED <<result, sessions>>
    /\ UNCHANGED <<operation, shared, owner, canceller, held, drainer>>

\* ... and a success that comes after a cancel is reported as canceled.
RoutineEnds(w) ==
    /\ worker[w] = "sending"
    /\ \E st \in {"success", "failure"} :
          result' = [result EXCEPT ![w] =
                        IF st = "success" /\ Canceled[held[w]] THEN "cancelled" ELSE st]
    /\ EndSessionOperation(held[w])
    /\ Work(w, "complete")
    /\ UNCHANGED <<operation, shared, owner, canceller, held, drainer>>

\* CompleteOperation with the status of the routine.
CompleteRun(w) ==
    /\ worker[w] = "complete"
    /\ Claim(held[w], "worker", result[w])
    /\ Work(w, "clear")
    /\ UNCHANGED <<memory, Closed, ReferenceCount, Canceled, State, Status, Queued,
                   shared, owner, canceller, held, result, drainer, sessions>>

\* ClearWorkerOperation, then ReleaseRef.
ClearWorkerOperation(w) ==
    /\ \/ /\ worker[w] = "clear"
          /\ Returned(held[w], "worker")
          /\ workerOp' = [workerOp EXCEPT ![w] = "none"]
          /\ Work(w, "release")
          /\ UNCHANGED <<ReferenceCount, memory, held, sessions>>
       \/ /\ worker[w] = "release"
          /\ ReleaseRef(held[w])
          /\ held' = [held EXCEPT ![w] = "none"]
          /\ Work(w, "end")
          /\ UNCHANGED workerOp
    /\ UNCHANGED <<Closed, Canceled, State, Status, Queued, completion, completer,
                   runtime, queue, stopped, counters, owner, canceller, result, drainer>>

\* EndAsyncOperation
EndAsyncOperation(w) ==
    /\ \/ /\ worker[w] = "end"
          /\ InFlight' = InFlight - 1
          /\ Work(w, IF InFlight = 1 THEN "signal" ELSE "wait")
          /\ UNCHANGED DrainEvent
       \/ /\ worker[w] = "signal"
          /\ DrainEvent' = TRUE
          /\ Work(w, "wait")
          /\ UNCHANGED InFlight
    /\ UNCHANGED <<operation, runtime, queue, stopped, semaphore, workerOp, owner,
                   canceller, held, result, drainer, sessions>>

-----------------------------------------------------------------------------
(* KhEngineDrainAsync.                                                     *)

\* Without a running runtime there is nothing to stop; with one, stop the queue.
Drain ==
    /\ drain = "idle"
    /\ drains < MaxDrains
    /\ runtime # 1
    /\ drains' = drains + 1
    /\ IF runtime = 2
       THEN /\ stopped' = TRUE
            /\ drain' = "unlink"
            /\ UNCHANGED drained
       ELSE /\ drained' = IF InFlight = 0 THEN "nothing" ELSE "timeout"
            /\ UNCHANGED <<stopped, drain>>
    /\ UNCHANGED <<operation, runtime, queue, counters, workerOp, owner, canceller,
                   workers, flushing, sessions>>

\* UnlinkAllQueuedOperationsLocked
UnlinkAll ==
    /\ drain = "unlink"
    /\ flushing' = queue
    /\ queue' = <<>>
    /\ drain' = "flush"
    /\ UNCHANGED <<operation, runtime, stopped, counters, workerOp, owner, canceller,
                   workers, drains, drained, sessions>>

\* CompleteQueuedOperationsForShutdown, one unlinked operation after the other.
CompleteQueued ==
    /\ \/ /\ drain = "flush" /\ flushing = <<>>
          /\ drain' = "cancel"
          /\ UNCHANGED <<flushing, completion, completer, ReferenceCount, memory,
                         sessions, InFlight, DrainEvent>>
       \/ /\ drain = "flush" /\ flushing # <<>>
          /\ Claim(Head(flushing), "drain", "cancelled")
          /\ drain' = "flushed"
          /\ UNCHANGED <<flushing, ReferenceCount, memory, sessions, InFlight, DrainEvent>>
       \/ /\ drain = "flushed"
          /\ Returned(Head(flushing), "drain")
          /\ ReleaseRef(Head(flushing))
          /\ flushing' = Tail(flushing)
          /\ drain' = "flushEnd"
          /\ UNCHANGED <<completion, completer, InFlight, DrainEvent>>
       \/ /\ drain = "flushEnd"
          /\ InFlight' = InFlight - 1
          /\ drain' = IF InFlight = 1 THEN "flushSignal" ELSE "flush"
          /\ UNCHANGED <<flushing, completion, completer, ReferenceCount, memory,
                         sessions, DrainEvent>>
       \/ /\ drain = "flushSignal"
          /\ DrainEvent' = TRUE
          /\ drain' = "flush"
          /\ UNCHANGED <<flushing, completion, completer, ReferenceCount, memory,
                         sessions, InFlight>>
    /\ UNCHANGED <<Closed, Canceled, State, Status, Queued, runtime, queue, stopped,
                   semaphore, workerOp, owner, canceller, workers, drains, drained>>

\* CancelRunningOperationsForShutdown under the queue lock, and WakeAsyncWorkers.
CancelRunning ==
    /\ \/ /\ drain = "cancel"
          /\ Canceled' = [o \in Ops |-> Canceled[o] \/ \E w \in Workers : workerOp[w] = o]
          /\ drain' = "wake"
          /\ UNCHANGED semaphore
       \/ /\ drain = "wake"
          /\ semaphore' = semaphore + Cardinality(Workers)
          /\ drain' = "wait"
          /\ UNCHANGED Canceled
    /\ UNCHANGED <<memory, Closed, ReferenceCount, State, Status, Queued, completion,
                   completer, runtime, queue, stopped, InFlight, DrainEvent, workerOp,
                   owner, canceller, workers, flushing, drains, drained, sessions>>

WorkersLeft == {w \in Workers : worker[w] \notin {"none", "exited"}}

\* WaitForAsyncInFlightToDrain and JoinReferencedAsyncWorkers, each with the
\* operation timeout; a successful drain ends the runtime for good.
FinishDrain ==
    /\ \/ /\ drain = "wait" /\ (InFlight = 0 \/ DrainEvent)
          /\ drain' = "join"
          /\ UNCHANGED <<drained, runtime, queue>>
       \/ /\ drain = "join" /\ WorkersLeft = {}
          /\ drain' = "idle"
          /\ drained' = "joined"
          /\ runtime' = 3
          /\ queue' = <<>>
       \/ /\ \/ drain = "wait" /\ InFlight # 0 /\ ~DrainEvent
             \/ drain = "join" /\ WorkersLeft # {}
          /\ drain' = "idle"
          /\ drained' = "timeout"
          /\ UNCHANGED <<runtime, queue>>
    /\ UNCHANGED <<operation, stopped, counters, workerOp, owner, canceller,
                   workers, flushing, drains, sessions>>

-----------------------------------------------------------------------------
\* KhSessionClose: no new operations, wait for the ones in flight, free.
CloseSession ==
    /\ \/ session = "open" /\ session' = "closing"
       \/ session = "closing" /\ SessionInFlight = 0 /\ session' = "closed"
    /\ UNCHANGED <<operation, shared, owner, canceller, workers, drainer,
                   SessionInFlight, ended>>

\* The owner is inside a call of the library.
Sending(o) ==
    \/ EnsureRuntime(o)
    \/ StartAsyncWorkers(o)
    \/ TryQueue(o)
    \/ QueueCanceled(o)
    \/ BeginAsyncOperation(o)
    \/ EnqueueAsyncOperation(o)
    \/ PostSemaphore(o)
    \/ UndoQueue(o)

WorkerStep(w) ==
    \/ WaitForWork(w)
    \/ DequeueAsyncOperation(w)
    \/ LeaveIfStopped(w)
    \/ RunOperation(w)
    \/ WorkerRoutine(w)
    \/ RoutineEnds(w)
    \/ CompleteRun(w)
    \/ ClearWorkerOperation(w)
    \/ EndAsyncOperation(w)

DrainStep == UnlinkAll \/ CompleteQueued \/ CancelRunning \/ FinishDrain

Next ==
    \/ \E o \in Ops : \/ Create(o)
                      \/ Sending(o)
                      \/ Release(o)
                      \/ CancelSetFlag(o)
                      \/ CancelPending(o)
                      \/ CompleteOperation(o)
    \/ \E w \in Workers : WorkerStep(w)
    \/ Drain
    \/ DrainStep
    \/ CloseSession

Spec == Init /\ [][Next]_vars

\* Threads inside the library go on, a send ends (the transport has timeouts),
\* and clients release what they sent.
Fairness ==
    /\ \A o \in Ops : /\ WF_vars(Sending(o))
                      /\ WF_vars(Release(o))
                      /\ WF_vars(CancelPending(o))
                      /\ WF_vars(CompleteOperation(o))
    /\ \A w \in Workers : WF_vars(WorkerStep(w))
    /\ WF_vars(DrainStep)
    /\ WF_vars(session = "closing" /\ CloseSession)

FairSpec == Spec /\ Fairness

-----------------------------------------------------------------------------
(* Properties.                                                             *)

\* The values of the fields; the queue never holds more than its depth.
TypeOK ==
    /\ memory \in [Ops -> {"none", "live", "freed"}]
    /\ Closed \in [Ops -> BOOLEAN] /\ Canceled \in [Ops -> BOOLEAN]
    /\ Queued \in [Ops -> BOOLEAN] /\ ended \in [Ops -> BOOLEAN]
    /\ ReferenceCount \in [Ops -> Nat]
    /\ State \in [Ops -> {"Pending", "Running", "Completed"}]
    /\ Status \in [Ops -> {"pending", "success", "failure", "cancelled"}]
    /\ completion \in [Ops -> {"none", "claimed", "status", "state", "done"}]
    /\ runtime \in 0 .. 3
    /\ queue \in Seq(Ops) /\ Len(queue) <= MaxQueueDepth
    /\ flushing \in Seq(Ops) /\ Len(flushing) <= MaxQueueDepth
    /\ stopped \in BOOLEAN /\ DrainEvent \in BOOLEAN
    /\ semaphore \in Nat /\ InFlight \in Nat /\ SessionInFlight \in Nat
    /\ workerOp \in [Workers -> Ops \cup {"none"}]
    /\ held \in [Workers -> Ops \cup {"none"}]
    /\ drains \in 0 .. MaxDrains
    /\ drained \in {"never", "nothing", "joined", "timeout"}
    /\ session \in {"open", "closing", "closed"}

Times(o, s) == Cardinality({i \in 1 .. Len(s) : s[i] = o})
Holders(o) == {w \in Workers : held[w] = o}
Queueing == {"begin", "enqueue", "undo", "undoSignal", "undoRef"}

\* The references of an operation are those of its open handle, of the queue or
\* of the list the drain unlinked, of the worker that runs it and of a send that
\* is queueing it; it is freed with the last of them, whoever drops it.
ReferencesExact ==
    \A o \in Ops :
        /\ memory[o] # "none" =>
              ReferenceCount[o] = (IF Closed[o] THEN 0 ELSE 1)
                                  + Times(o, queue) + Times(o, flushing)
                                  + Cardinality(Holders(o))
                                  + (IF owner[o] \in Queueing THEN 1 ELSE 0)
        /\ memory[o] = "live" <=> ReferenceCount[o] > 0

\* An accepted operation that nobody has completed is queued, unlinked by the
\* drain, or with a worker that has yet to complete it, whatever the order of a
\* cancel, the worker's tests and an unload.
SomebodyCompletes ==
    \A o \in Ops :
        owner[o] \in {"post", "ready", "released"} /\ completion[o] = "none" =>
            \/ Times(o, queue) = 1
            \/ Times(o, flushing) = 1
            \/ \E w \in Holders(o) :
                  worker[w] \in {"run", "canceled?", "start", "routine", "sending", "complete"}

\* Unloading forgets nothing: what was accepted is in somebody's hands until it is
\* completed; while the runtime is up the permits of queued operations and of the
\* drain's wake-up do not pass the limit the semaphore was initialized with
\* (KeReleaseSemaphore raises); and when KhEngineDrainAsync has succeeded no worker
\* thread is left and whatever was accepted has been completed (or is just being
\* completed by the client's own cancel).
QuietAfterDrain ==
    /\ SomebodyCompletes
    /\ runtime = 2 => semaphore <= MaxQueueDepth + Cardinality(Workers)
    /\ drained = "joined" =>
        /\ WorkersLeft = {}
        /\ queue = <<>> /\ flushing = <<>>
        /\ \A o \in Ops : owner[o] \in {"post", "ready", "released"} =>
              \/ completion[o] = "done"
              \/ completer[o].by \in {"owner", "canceller"}

\* To its clients the runtime is one-shot operations: the exchange of Completed
\* decides the result, the event publishes it. That no send runs for an operation
\* that has been decided rests on cancelling setting Canceled and reading State
\* while the worker sets State and reads Canceled: at least one sees the other. It is
\* unloaded when the runtime has ended for good and none of its threads is left.
Operations == INSTANCE OneShotOperation WITH
    result <- [o \in Ops |-> completer[o].status],
    seen <- [o \in Ops |-> IF completion[o] = "done" THEN Status[o] ELSE "pending"],
    sending <- {held[w] : w \in {v \in Workers : worker[v] = "sending"}},
    unloaded <- runtime = 3 /\ WorkersLeft = {}

ImplementsOneShot == Operations!Spec

\* Nothing is freed under those who use it: the references of an operation are
\* exact, the session counts each operation until its end is recorded (which the
\* last reference does for one that never ran), and the session is not freed before
\* a send on it has ended.
SessionOutlivesSend ==
    /\ ReferencesExact
    /\ SessionInFlight = Cardinality({o \in Ops : ~ended[o]})
    /\ session = "closed" => \A w \in Workers : worker[w] # "sending"

\* Every accepted operation completes, by a worker, a cancel or the drain.
QueuedCompletes ==
    \A o \in Ops : owner[o] = "ready" ~> completion[o] = "done"

\* Closing a session ends once its clients have released their operations, also
\* the ones that were completed without having run.
SessionCloses == session = "closing" ~> session = "closed"
=============================================================================
