------------------------- MODULE AsyncRuntimeProofs -------------------------
(***************************************************************************)
(* Proofs about AsyncRuntime, for any number of operations and workers and *)
(* any depth of the queue.                                                 *)
(*                                                                         *)
(* AsyncInv is inductive and has four parts, each of which rests on the    *)
(* ones before it: where an operation is (Placement), the references on it *)
(* (References), what the session counts (SessionLedger) and who decides   *)
(* it (Completions).  It implies SessionOutlivesSend and SomebodyCompletes *)
(* and is what the refinement of OneShotOperation needs.  The limit of the *)
(* semaphore (PermitsBounded) is kept by the one drain of an unload: a     *)
(* second one after a timeout adds its wake-up to permits nobody took.     *)
(***************************************************************************)
EXTENDS AsyncRuntime, FiniteSetTheorems, TLAPS

\* What a queue holds, and that it holds nothing twice.
Elems(s) == {s[i] : i \in 1 .. Len(s)}
Distinct(s) == \A i, j \in 1 .. Len(s) : s[i] = s[j] => i = j

\* The owner: accepted by the queue, not yet at a running runtime, not yet queued.
Accepted == {"post", "ready", "released"}
Outside == {"none", "created", "starting"}
Before == {"created", "starting", "check", "canceled?", "begin", "enqueue"}
OwnerPcs == Outside \cup Before \cup Queueing \cup Accepted \cup {"rejected", "gone"}
\* A worker with an operation: it may still run it, it may still complete it.
ToRun == {"run", "canceled?", "start", "routine", "sending"}
ToComplete == ToRun \cup {"complete"}
Holding == ToComplete \cup {"clear", "release"}
WorkerPcs == Holding \cup {"none", "wait", "dequeue", "empty", "end", "signal", "exited"}
FlushPcs == {"flush", "flushed", "flushEnd", "flushSignal"}
DrainPcs == FlushPcs \cup {"idle", "unlink", "cancel", "wake", "wait", "join"}

-----------------------------------------------------------------------------
(* Where an operation is.                                                  *)

PlaceTypes ==
    /\ owner \in [Ops -> OwnerPcs]
    /\ worker \in [Workers -> WorkerPcs]
    /\ held \in [Workers -> Ops \cup {"none"}]
    /\ queue \in Seq(Ops) /\ Len(queue) <= MaxQueueDepth
    /\ flushing \in Seq(Ops)
    /\ drain \in DrainPcs
    /\ runtime \in 0 .. 3
    /\ stopped \in BOOLEAN

\* An operation is at most once in the queue, on the list of the drain or with a worker.
OnePlace ==
    /\ Distinct(queue) /\ Distinct(flushing)
    /\ Elems(queue) \cap Elems(flushing) = {}
    /\ \A w \in Workers : held[w] \notin Elems(queue) \cup Elems(flushing)
    /\ \A v, w \in Workers : held[v] \in Ops /\ held[v] = held[w] => v = w

\* A worker has an operation from taking it off the queue to dropping its reference.
HeldByStep == \A w \in Workers : held[w] \in Ops <=> worker[w] \in Holding

\* Only what has been accepted has a place, so that nothing is queued again.
Placed(o) == o \in Elems(queue) \cup Elems(flushing) \/ \E w \in Workers : held[w] = o

PlacedAccepted == \A o \in Ops : Placed(o) => owner[o] \in Accepted

\* The states of the runtime: before it is up nothing is queued and no thread runs, one
\* send at most brings it up; only a running one is drained, and it ends stopped.
RuntimePhases ==
    /\ \A o \in Ops : owner[o] = "starting" => runtime = 1
    /\ \A o, p \in Ops : owner[o] = "starting" /\ owner[p] = "starting" => o = p
    /\ runtime \in {0, 1} =>
          /\ \A w \in Workers : worker[w] = "none"
          /\ \A o \in Ops : owner[o] \in Outside
          /\ queue = <<>> /\ ~stopped
    /\ runtime = 3 => stopped /\ drain = "idle"
    /\ drain # "idle" => runtime = 2 /\ stopped
    /\ drained = "joined" => runtime = 3 /\ WorkersLeft = {}

\* The queue stays empty once a drain has unlinked it, the list lives while it is flushed.
DrainPhases ==
    /\ stopped /\ drain # "unlink" => queue = <<>>
    /\ flushing # <<>> => drain \in FlushPcs
    /\ drain = "flushed" => flushing # <<>>

Placement ==
    /\ PlaceTypes /\ OnePlace /\ HeldByStep /\ PlacedAccepted
    /\ RuntimePhases /\ DrainPhases

-----------------------------------------------------------------------------
(* The references on it.                                                   *)

RefTypes ==
    /\ memory \in [Ops -> {"none", "live", "freed"}]
    /\ Closed \in [Ops -> BOOLEAN]
    /\ ReferenceCount \in [Ops -> Nat]

\* Memory and handle follow the owner; freed with the last reference.
Lives ==
    \A o \in Ops :
        /\ memory[o] = "none" <=> owner[o] = "none"
        /\ Closed[o] <=> owner[o] \in {"released", "gone"}
        /\ memory[o] = "live" <=> ReferenceCount[o] > 0

\* One for the open handle, one for the place, one for the send that is queueing.
RefsOf(o) == (IF Closed[o] THEN 0 ELSE 1) + (IF Placed(o) THEN 1 ELSE 0)
             + (IF owner[o] \in Queueing THEN 1 ELSE 0)

RefsExact == \A o \in Ops : memory[o] # "none" => ReferenceCount[o] = RefsOf(o)

References == RefTypes /\ Lives /\ RefsExact

\* The session counts the operations whose end is not recorded; until it has run, an
\* operation is one of them, and a closed session has none.
SessionLedger ==
    /\ ended \in [Ops -> BOOLEAN]
    /\ SessionInFlight \in Nat
    /\ session \in {"open", "closing", "closed"}
    /\ SessionInFlight = Cardinality({o \in Ops : ~ended[o]})
    /\ session = "closed" => \A o \in Ops : ended[o]
    /\ \A o \in Ops : owner[o] = "none" => ended[o]
    /\ \A o \in Ops : owner[o] \in Before \/ o \in Elems(queue) => ~ended[o]
    /\ \A w \in Workers : worker[w] \in ToRun => ~ended[held[w]]

-----------------------------------------------------------------------------
(* Who decides it.                                                         *)

Results == {"success", "failure", "cancelled"}
CompletionTypes ==
    /\ completion \in [Ops -> {"none", "claimed", "status", "state", "done"}]
    /\ completer \in [Ops -> [by : {"nobody", "owner", "canceller", "worker", "drain"},
                              status : {"pending"} \cup Results]]
    /\ Status \in [Ops -> {"pending"} \cup Results]
    /\ State \in [Ops -> {"Pending", "Running", "Completed"}]
    /\ Canceled \in [Ops -> BOOLEAN]
    /\ canceller \in [Ops -> {"idle", "flagged", "pending", "completing", "returned"}]
    /\ result \in [Workers -> {"pending"} \cup Results]
    /\ \A w \in Workers : worker[w] = "complete" => result[w] \in Results

\* The exchange of Completed and the stores that follow it.
Claimed ==
    \A o \in Ops :
        /\ completion[o] = "none" <=> completer[o].status = "pending"
        /\ completion[o] = "none" <=> completer[o].by = "nobody"
        /\ completion[o] \in {"status", "state", "done"} => Status[o] = completer[o].status
        /\ completion[o] # "none" => owner[o] # "none"

\* The owner and the canceller only decide what is flagged, ...
ByCancel ==
    \A o \in Ops :
        /\ canceller[o] # "idle" => Canceled[o] /\ owner[o] # "none"
        /\ completer[o].by \in {"owner", "canceller"} => Canceled[o]

\* ... a worker and the drain what nobody else will run or complete.
ByRuntime ==
    \A o \in Ops : completer[o].by \in {"worker", "drain"} =>
        /\ owner[o] \in Accepted
        /\ o \notin Elems(queue)
        /\ \A w \in Workers : held[w] = o => worker[w] \notin ToComplete

\* State is written before Canceled is read and Canceled before State: a send that has
\* begun is not decided by a cancel.
NoSendDecided ==
    \A w \in Workers :
        /\ worker[w] \in {"routine", "sending"} => State[held[w]] # "Pending"
        /\ worker[w] = "sending" => canceller[held[w]] # "pending"
        /\ worker[w] = "sending" => completion[held[w]] = "none"

\* The worker and the drain see their completions through.
Unfinished ==
    \A o \in Ops : completion[o] # "done" =>
        /\ completer[o].by = "worker" =>
              \E w \in Workers : held[w] = o /\ worker[w] = "clear"
        /\ completer[o].by = "drain" => drain = "flushed" /\ o = Head(flushing)

\* What is accepted and not decided is with somebody who will.
InHand ==
    /\ \A o \in Ops : owner[o] \in Accepted /\ completion[o] = "none" =>
          \/ o \in Elems(queue)
          \/ o \in Elems(flushing)
          \/ \E w \in Workers : held[w] = o /\ worker[w] \in ToComplete
    /\ drain = "flushed" => completion[Head(flushing)] # "none"

Completions ==
    /\ CompletionTypes /\ Claimed /\ ByCancel /\ ByRuntime
    /\ NoSendDecided /\ Unfinished /\ InHand

-----------------------------------------------------------------------------
(* The permits: of the semaphore, with a worker on its way to the queue, or  *)
(* with a send that has enqueued and will release one.                     *)

Dequeuing == {w \in Workers : worker[w] = "dequeue"}
Posting == {o \in Ops : owner[o] = "post"}
Permits == semaphore + Cardinality(Dequeuing) + Cardinality(Posting)
\* A permit per queued operation, and a wake-up of all workers.
PermitsBounded ==
    /\ semaphore \in Nat
    /\ drains \in 0 .. MaxDrains
    /\ runtime \in {0, 1} => semaphore = 0
    /\ drain # "idle" => drains >= 1
    /\ runtime = 2 =>
         IF ~stopped THEN Permits <= Len(queue)
         ELSE IF drain \in FlushPcs \cup {"unlink", "cancel", "wake"}
              THEN Permits <= MaxQueueDepth
         ELSE drains = 1 /\ Permits <= MaxQueueDepth + Cardinality(Workers)
-----------------------------------------------------------------------------
(* Sequences without repetition.                                           *)

\* What the end of a queue adds.
LEMMA AppendElems ==
    ASSUME NEW S, NEW s \in Seq(S), NEW e \in S
    PROVE  /\ Append(s, e) \in Seq(S) /\ Len(Append(s, e)) = Len(s) + 1
           /\ Elems(Append(s, e)) = Elems(s) \cup {e}
           /\ Distinct(s) /\ e \notin Elems(s) => Distinct(Append(s, e))
  <1>1. /\ Append(s, e) \in Seq(S) /\ Len(Append(s, e)) = Len(s) + 1
        /\ \A i \in 1 .. Len(s) + 1 :
              Append(s, e)[i] = IF i = Len(s) + 1 THEN e ELSE s[i]
        /\ Len(s) \in Nat
    OBVIOUS
  <1>2. Elems(Append(s, e)) = Elems(s) \cup {e}
    BY <1>1 DEF Elems
  <1>3. ASSUME Distinct(s), e \notin Elems(s) PROVE Distinct(Append(s, e))
    BY <1>1, <1>3 DEF Elems, Distinct
  <1> QED BY <1>1, <1>2, <1>3

\* What the head of a queue takes away.
LEMMA TailElems ==
    ASSUME NEW S, NEW s \in Seq(S), s # <<>>, Distinct(s)
    PROVE  /\ Head(s) \in S /\ Head(s) \in Elems(s)
           /\ Tail(s) \in Seq(S) /\ Len(Tail(s)) = Len(s) - 1 /\ Len(s) > 0
           /\ Elems(Tail(s)) = Elems(s) \ {Head(s)}
           /\ Distinct(Tail(s))
  <1>1. /\ Len(s) \in Nat /\ Len(s) > 0
        /\ Head(s) = s[1] /\ Head(s) \in S
        /\ Tail(s) \in Seq(S) /\ Len(Tail(s)) = Len(s) - 1
        /\ \A i \in 1 .. Len(s) - 1 : Tail(s)[i] = s[i + 1]
    OBVIOUS
  <1>2. Head(s) \in Elems(s)
    BY <1>1 DEF Elems
  <1>3. ASSUME NEW x PROVE x \in Elems(Tail(s)) <=> x \in Elems(s) /\ x # Head(s)
    <2>1. ASSUME x \in Elems(Tail(s)) PROVE x \in Elems(s) /\ x # Head(s)
      <3>1. PICK i \in 1 .. Len(s) - 1 : x = Tail(s)[i]
        BY <1>1, <2>1 DEF Elems
      <3>2. x = s[i + 1] /\ i + 1 \in 1 .. Len(s) /\ i + 1 # 1 /\ 1 \in 1 .. Len(s)
        BY <1>1, <3>1
      <3> QED BY <3>2, <1>1 DEF Elems, Distinct
    <2>2. ASSUME x \in Elems(s), x # Head(s) PROVE x \in Elems(Tail(s))
      <3>1. PICK i \in 1 .. Len(s) : x = s[i]
        BY <2>2 DEF Elems
      <3>2. i # 1 /\ i - 1 \in 1 .. Len(s) - 1 /\ (i - 1) + 1 = i
        BY <3>1, <2>2, <1>1
      <3>3. Tail(s)[i - 1] = s[(i - 1) + 1]
        BY <3>2, <1>1
      <3>4. x = Tail(s)[i - 1]
        BY <3>1, <3>2, <3>3
      <3> QED BY <3>2, <3>4, <1>1 DEF Elems
    <2> QED BY <2>1, <2>2
  <1>4. Distinct(Tail(s))
    <2> SUFFICES ASSUME NEW i \in 1 .. Len(s) - 1, NEW j \in 1 .. Len(s) - 1,
                        Tail(s)[i] = Tail(s)[j]
                 PROVE  i = j
      BY <1>1 DEF Distinct
    <2>1. s[i + 1] = s[j + 1] /\ i + 1 \in 1 .. Len(s) /\ j + 1 \in 1 .. Len(s)
      BY <1>1
    <2>2. i + 1 = j + 1
      BY <2>1 DEF Distinct
    <2> QED BY <2>2
  <1> QED BY <1>1, <1>2, <1>3, <1>4

\* Nothing is in the empty queue.
LEMMA EmptyElems ==
    /\ Elems(<<>>) = {} /\ Distinct(<<>>) /\ Len(<<>>) = 0
    /\ \A S : <<>> \in Seq(S)
  BY DEF Elems, Distinct

\* In a queue without repetition an operation is once or not at all.
LEMMA TimesOnce ==
    ASSUME NEW S, NEW s \in Seq(S), Distinct(s), NEW o
    PROVE  Times(o, s) = IF o \in Elems(s) THEN 1 ELSE 0
  <1>1. CASE o \in Elems(s)
    <2>1. PICK i \in 1 .. Len(s) : s[i] = o
      BY <1>1 DEF Elems
    <2>2. {j \in 1 .. Len(s) : s[j] = o} = {i}
      BY <2>1 DEF Distinct
    <2>3. Cardinality({i}) = 1
      BY FS_Singleton
    <2> QED BY <1>1, <2>2, <2>3 DEF Times
  <1>2. CASE o \notin Elems(s)
    <2>1. {j \in 1 .. Len(s) : s[j] = o} = {}
      BY <1>2 DEF Elems
    <2>2. Cardinality({}) = 0
      BY FS_EmptySet
    <2> QED BY <1>2, <2>1, <2>2 DEF Times
  <1> QED BY <1>1, <1>2

\* A queue of operations holds operations.
LEMMA ElemsIn == ASSUME NEW S, NEW s \in Seq(S) PROVE Elems(s) \subseteq S
  BY DEF Elems

-----------------------------------------------------------------------------
(* Where an operation is.                                                  *)

\* At first no operation has a place.
LEMMA PlacementInit == Init => Placement
  <1> SUFFICES ASSUME Init PROVE Placement
    OBVIOUS
  <1>1. PlaceTypes
    <2>1. /\ queue \in Seq(Ops) /\ Len(queue) <= MaxQueueDepth
          /\ flushing \in Seq(Ops)
      BY AsyncAssumption, EmptyElems DEF Init
    <2>2. owner \in [Ops -> OwnerPcs] /\ worker \in [Workers -> WorkerPcs]
      BY DEF Init, OwnerPcs, WorkerPcs, Outside
    <2>3. held \in [Workers -> Ops \cup {"none"}] /\ drain \in DrainPcs
      BY DEF Init, DrainPcs
    <2>4. runtime \in 0 .. 3
      BY DEF Init
    <2>5. stopped \in BOOLEAN
      BY DEF Init
    <2> QED BY <2>1, <2>2, <2>3, <2>4, <2>5 DEF PlaceTypes
  <1>2. OnePlace
    BY AsyncAssumption, EmptyElems DEF Init, OnePlace
  <1>3. HeldByStep
    BY AsyncAssumption DEF Init, HeldByStep, Holding, ToComplete, ToRun
  <1>4. PlacedAccepted
    BY AsyncAssumption, EmptyElems DEF Init, PlacedAccepted, Placed
  <1>5. RuntimePhases
    BY DEF Init, RuntimePhases, Outside
  <1>6. DrainPhases
    BY DEF Init, DrainPhases
  <1> QED BY <1>1, <1>2, <1>3, <1>4, <1>5, <1>6 DEF Placement

\* The send that brings the runtime up, or fails to.
LEMMA PlacementStart ==
    ASSUME Placement, NEW o \in Ops, StartAsyncWorkers(o)
    PROVE  Placement'
  <1> USE DEF StartAsyncWorkers, Placement, shared, counters, workers, drainer, operation, Own
  <1>1. worker' \in [Workers -> WorkerPcs] /\ runtime' \in {2, 3} /\ stopped' \in BOOLEAN
    BY DEF PlaceTypes, WorkerPcs
  <1>2. owner' \in [Ops -> OwnerPcs]
    BY DEF PlaceTypes, OwnerPcs, Before, Outside
  <1>3. PlaceTypes'
    BY <1>1, <1>2 DEF PlaceTypes
  <1>4. OnePlace' /\ DrainPhases'
    BY DEF PlaceTypes, OnePlace, DrainPhases, RuntimePhases
  <1>5. HeldByStep'
    BY DEF PlaceTypes, HeldByStep, Holding, ToComplete, ToRun, RuntimePhases
  <1>6. PlacedAccepted'
    BY DEF PlaceTypes, PlacedAccepted, Placed, Accepted
  <1>7. RuntimePhases'
    BY DEF PlaceTypes, RuntimePhases, WorkersLeft, OwnerPcs, DrainPcs, FlushPcs
  <1> QED BY <1>3, <1>4, <1>5, <1>6, <1>7

\* The queue takes what had no place.
LEMMA PlacementEnqueue ==
    ASSUME Placement, NEW o \in Ops, EnqueueAsyncOperation(o)
    PROVE  Placement'
  <1> USE DEF EnqueueAsyncOperation, Placement, shared, counters, workers, drainer,
              operation, Own
  <1>1. ~Placed(o)
    BY DEF PlacedAccepted, Accepted
  <1>2. CASE owner' = [owner EXCEPT ![o] = "undo"] /\ queue' = queue
    BY <1>2 DEF PlaceTypes, OnePlace, HeldByStep, PlacedAccepted, RuntimePhases, DrainPhases,
                Placed, WorkersLeft, OwnerPcs, Queueing, Accepted, Outside
  <1>3. CASE /\ ~stopped /\ ~(Len(queue) >= MaxQueueDepth)
             /\ owner' = [owner EXCEPT ![o] = "post"] /\ queue' = Append(queue, o)
    <2>1. /\ queue' \in Seq(Ops) /\ Len(queue') = Len(queue) + 1
          /\ Elems(queue') = Elems(queue) \cup {o}
          /\ Distinct(queue')
      BY <1>1, <1>3, AppendElems DEF PlaceTypes, OnePlace, Placed
    <2>2. Len(queue') <= MaxQueueDepth
      BY <1>3, <2>1, AsyncAssumption DEF PlaceTypes
    <2>3. PlaceTypes'
      BY <1>3, <2>1, <2>2 DEF PlaceTypes, OwnerPcs, Accepted
    <2>4. OnePlace'
      BY <1>1, <2>1 DEF OnePlace, Placed
    <2>5. HeldByStep'
      BY DEF HeldByStep
    <2>6. PlacedAccepted'
      BY <1>3, <2>1 DEF PlaceTypes, PlacedAccepted, Placed, Accepted
    <2>7. RuntimePhases' /\ DrainPhases'
      BY <1>3 DEF PlaceTypes, RuntimePhases, DrainPhases, WorkersLeft, Outside
    <2> QED BY <2>3, <2>4, <2>5, <2>6, <2>7
  <1> QED BY <1>2, <1>3

\* The head of the queue goes to the worker.
LEMMA PlacementDequeue ==
    ASSUME Placement, NEW w \in Workers, DequeueAsyncOperation(w)
    PROVE  Placement'
  <1> USE DEF DequeueAsyncOperation, Placement, counters, workers, drainer, operation, Work
  <1>1. held[w] = "none"
    BY DEF HeldByStep, PlaceTypes, Holding, ToComplete, ToRun
  <1>2. CASE queue = <<>>
    BY <1>2 DEF PlaceTypes, OnePlace, HeldByStep, PlacedAccepted, RuntimePhases, DrainPhases,
                Placed, WorkersLeft, WorkerPcs, Holding, ToComplete, ToRun
  <1>3. CASE queue # <<>>
    <2>1. /\ Head(queue) \in Ops /\ Head(queue) \in Elems(queue)
          /\ queue' \in Seq(Ops) /\ Len(queue') = Len(queue) - 1
          /\ Elems(queue') = Elems(queue) \ {Head(queue)}
          /\ Distinct(queue')
      <3>1. queue \in Seq(Ops) /\ Distinct(queue) /\ queue' = Tail(queue)
        BY <1>3 DEF PlaceTypes, OnePlace
      <3> HIDE DEF DequeueAsyncOperation, Placement
      <3> QED BY <1>3, <3>1, TailElems
    <2>2. PlaceTypes'
      <3>1. Len(queue') <= MaxQueueDepth
        BY <2>1, AsyncAssumption DEF PlaceTypes
      <3> QED BY <1>3, <2>1, <3>1 DEF PlaceTypes, WorkerPcs, Holding, ToComplete, ToRun
    <2>3. OnePlace'
      BY <1>3, <2>1 DEF PlaceTypes, OnePlace
    <2>4. HeldByStep'
      BY <1>3, <2>1 DEF PlaceTypes, HeldByStep, Holding, ToComplete, ToRun
    <2>5. PlacedAccepted'
      BY <1>3, <2>1 DEF PlaceTypes, PlacedAccepted, Placed
    <2>6. RuntimePhases' /\ DrainPhases'
      BY <1>3 DEF PlaceTypes, RuntimePhases, DrainPhases, WorkersLeft
    <2> QED BY <2>2, <2>3, <2>4, <2>5, <2>6
  <1> QED BY <1>2, <1>3

\* A worker lets go of its operation.
LEMMA PlacementRelease ==
    ASSUME Placement, NEW w \in Workers, ClearWorkerOperation(w)
    PROVE  Placement'
  <1> USE DEF ClearWorkerOperation, Placement, shared, counters, workers, drainer, Work
  <1>1. Elems(queue) \subseteq Ops /\ Elems(flushing) \subseteq Ops
    BY ElemsIn DEF PlaceTypes
  <1>2. PlaceTypes'
    BY DEF PlaceTypes, WorkerPcs, Holding
  <1>3. OnePlace'
    BY <1>1, AsyncAssumption DEF PlaceTypes, OnePlace
  <1>4. HeldByStep'
    BY AsyncAssumption DEF PlaceTypes, HeldByStep, Holding, ToComplete, ToRun
  <1>5. PlacedAccepted'
    BY <1>1, AsyncAssumption DEF PlaceTypes, PlacedAccepted, Placed
  <1>6. RuntimePhases' /\ DrainPhases'
    BY DEF PlaceTypes, RuntimePhases, DrainPhases, WorkersLeft
  <1> QED BY <1>2, <1>3, <1>4, <1>5, <1>6

\* The drain takes the whole queue.
LEMMA PlacementUnlink ==
    ASSUME Placement, UnlinkAll
    PROVE  Placement'
  <1> USE DEF UnlinkAll, Placement, counters, workers, operation
  <1>1. /\ queue' = <<>> /\ flushing' = queue /\ flushing = <<>>
        /\ Elems(queue') = {} /\ Distinct(queue') /\ Elems(flushing) = {}
    BY EmptyElems DEF DrainPhases, FlushPcs
  <1>2. PlaceTypes'
    BY <1>1, EmptyElems, AsyncAssumption DEF PlaceTypes, DrainPcs, FlushPcs
  <1>3. OnePlace'
    BY <1>1 DEF OnePlace
  <1>4. HeldByStep'
    BY DEF HeldByStep
  <1>5. PlacedAccepted'
    BY <1>1 DEF PlacedAccepted, Placed
  <1>6. RuntimePhases' /\ DrainPhases'
    BY <1>1 DEF PlaceTypes, RuntimePhases, DrainPhases, WorkersLeft, FlushPcs
  <1> QED BY <1>2, <1>3, <1>4, <1>5, <1>6

\* The drain takes one operation after the other off its list.
LEMMA PlacementFlush ==
    ASSUME Placement, CompleteQueued
    PROVE  Placement'
  <1> USE DEF Placement, workers
  <1>1. UNCHANGED <<owner, worker, held, queue, runtime, stopped, drained>>
    BY DEF CompleteQueued
  <1>2. /\ drain \in FlushPcs /\ drain' \in FlushPcs \cup {"cancel"}
        /\ drain = "flushed" => flushing' = Tail(flushing) /\ drain' = "flushEnd"
        /\ drain # "flushed" => flushing' = flushing
        /\ drain' = "flushed" => flushing # <<>>
        /\ drain' = "cancel" => flushing = <<>>
    BY DEF CompleteQueued, FlushPcs
  <1>3. /\ flushing' \in Seq(Ops) /\ Distinct(flushing')
        /\ Elems(flushing') \subseteq Elems(flushing)
    <2>1. flushing \in Seq(Ops) /\ Distinct(flushing)
      BY DEF PlaceTypes, OnePlace
    <2>2. CASE drain # "flushed"
      BY <1>2, <2>1, <2>2
    <2>3. CASE drain = "flushed"
      <3>1. flushing # <<>> /\ flushing' = Tail(flushing)
        BY <1>2, <2>3 DEF DrainPhases
      <3>2. /\ Tail(flushing) \in Seq(Ops) /\ Distinct(Tail(flushing))
            /\ Elems(Tail(flushing)) = Elems(flushing) \ {Head(flushing)}
        BY <2>1, <3>1, TailElems
      <3> QED BY <3>1, <3>2
    <2> QED BY <2>2, <2>3
  <1>4. PlaceTypes'
    BY <1>1, <1>2, <1>3 DEF PlaceTypes, DrainPcs
  <1>5. OnePlace'
    BY <1>1, <1>3 DEF OnePlace
  <1>6. HeldByStep' /\ PlacedAccepted'
    BY <1>1, <1>3 DEF HeldByStep, PlacedAccepted, Placed
  <1>7. RuntimePhases'
    BY <1>1, <1>2 DEF RuntimePhases, WorkersLeft, FlushPcs
  <1>8. DrainPhases'
    BY <1>1, <1>2 DEF DrainPhases, FlushPcs
  <1> QED BY <1>4, <1>5, <1>6, <1>7, <1>8

\* An operation is never in two places, and what has a place has been accepted.
LEMMA PlacementStep == Placement /\ Next => Placement'
  <1> SUFFICES ASSUME Placement, Next PROVE Placement'
    OBVIOUS
  <1> USE DEF Placement, PlaceTypes, OnePlace, HeldByStep, PlacedAccepted, RuntimePhases,
              DrainPhases, Placed, WorkersLeft, OwnerPcs, WorkerPcs, DrainPcs, FlushPcs,
              Accepted, Outside, Before, Queueing, Holding, ToComplete, ToRun, shared,
              counters, workers, drainer, operation, Own, Work
  <1>1. ASSUME NEW o \in Ops, Create(o) PROVE Placement'
    BY <1>1 DEF Create
  <1>2. ASSUME NEW o \in Ops, EnsureRuntime(o) PROVE Placement'
    BY <1>2 DEF EnsureRuntime
  <1>3. ASSUME NEW o \in Ops, StartAsyncWorkers(o) PROVE Placement'
    BY <1>3, PlacementStart
  <1>4. ASSUME NEW o \in Ops, TryQueue(o) PROVE Placement'
    BY <1>4 DEF TryQueue
  <1>5. ASSUME NEW o \in Ops, QueueCanceled(o) PROVE Placement'
    <2>1. PlaceTypes' /\ OnePlace' /\ HeldByStep' /\ PlacedAccepted'
      BY <1>5 DEF QueueCanceled
    <2>2. RuntimePhases' /\ DrainPhases'
      BY <1>5 DEF QueueCanceled
    <2> QED BY <2>1, <2>2
  <1>6. ASSUME NEW o \in Ops, BeginAsyncOperation(o) PROVE Placement'
    BY <1>6 DEF BeginAsyncOperation
  <1>7. ASSUME NEW o \in Ops, EnqueueAsyncOperation(o) PROVE Placement'
    BY <1>7, PlacementEnqueue
  <1>8. ASSUME NEW o \in Ops, PostSemaphore(o) PROVE Placement'
    BY <1>8 DEF PostSemaphore
  <1>9. ASSUME NEW o \in Ops, UndoQueue(o) PROVE Placement'
    BY <1>9 DEF UndoQueue
  <1>10. ASSUME NEW o \in Ops, Release(o) PROVE Placement'
    BY <1>10 DEF Release
  <1>11. ASSUME NEW o \in Ops, CancelSetFlag(o) PROVE Placement'
    BY <1>11 DEF CancelSetFlag
  <1>12. ASSUME NEW o \in Ops, CancelPending(o) PROVE Placement'
    BY <1>12 DEF CancelPending
  <1>13. ASSUME NEW o \in Ops, CompleteOperation(o) PROVE Placement'
    BY <1>13 DEF CompleteOperation
  <1>14. ASSUME NEW w \in Workers, WaitForWork(w) PROVE Placement'
    BY <1>14 DEF WaitForWork
  <1>15. ASSUME NEW w \in Workers, DequeueAsyncOperation(w) PROVE Placement'
    BY <1>15, PlacementDequeue
  <1>16. ASSUME NEW w \in Workers, LeaveIfStopped(w) PROVE Placement'
    BY <1>16 DEF LeaveIfStopped
  <1>17. ASSUME NEW w \in Workers, RunOperation(w) PROVE Placement'
    BY <1>17 DEF RunOperation
  <1>18. ASSUME NEW w \in Workers, WorkerRoutine(w) PROVE Placement'
    BY <1>18 DEF WorkerRoutine
  <1>19. ASSUME NEW w \in Workers, RoutineEnds(w) PROVE Placement'
    BY <1>19 DEF RoutineEnds
  <1>20. ASSUME NEW w \in Workers, CompleteRun(w) PROVE Placement'
    BY <1>20 DEF CompleteRun
  <1>21. ASSUME NEW w \in Workers, ClearWorkerOperation(w) PROVE Placement'
    BY <1>21, PlacementRelease
  <1>22. ASSUME NEW w \in Workers, EndAsyncOperation(w) PROVE Placement'
    BY <1>22 DEF EndAsyncOperation
  <1>23. ASSUME Drain PROVE Placement'
    <2>1. PlaceTypes' /\ OnePlace' /\ HeldByStep' /\ PlacedAccepted'
      BY <1>23 DEF Drain
    <2>2. RuntimePhases' /\ DrainPhases'
      BY <1>23 DEF Drain
    <2> QED BY <2>1, <2>2
  <1>24. ASSUME UnlinkAll PROVE Placement'
    BY <1>24, PlacementUnlink
  <1>25. ASSUME CompleteQueued PROVE Placement'
    BY <1>25, PlacementFlush
  <1>26. ASSUME CancelRunning PROVE Placement'
    BY <1>26 DEF CancelRunning
  <1>27. ASSUME FinishDrain PROVE Placement'
    BY <1>27 DEF FinishDrain
  <1>28. ASSUME CloseSession PROVE Placement'
    BY <1>28 DEF CloseSession
  <1> QED
    BY <1>1, <1>2, <1>3, <1>4, <1>5, <1>6, <1>7, <1>8, <1>9, <1>10, <1>11, <1>12, <1>13, <1>14,
       <1>15, <1>16, <1>17, <1>18, <1>19, <1>20, <1>21, <1>22, <1>23, <1>24, <1>25, <1>26,
       <1>27, <1>28
    DEF Next, Sending, WorkerStep, DrainStep

-----------------------------------------------------------------------------
(* References.                                                             *)

\* At first there is nothing to refer to.
LEMMA ReferencesInit == Init => References
  BY DEF Init, References, RefTypes, Lives, RefsExact, RefsOf

\* Which operations have a place, after each kind of step.
LEMMA PlacedFrame ==
    ASSUME UNCHANGED <<queue, flushing, held>>
    PROVE  \A p \in Ops : Placed(p)' <=> Placed(p)
  BY DEF Placed

\* EnqueueAsyncOperation
LEMMA PlacedEnqueue ==
    ASSUME Placement, NEW o \in Ops, queue' = Append(queue, o), UNCHANGED <<flushing, held>>
    PROVE  \A p \in Ops : Placed(p)' <=> Placed(p) \/ p = o
  <1>1. Elems(queue') = Elems(queue) \cup {o}
    BY AppendElems DEF Placement, PlaceTypes
  <1> QED BY <1>1 DEF Placed

\* DequeueAsyncOperation
LEMMA PlacedDequeue ==
    ASSUME Placement, NEW w \in Workers, DequeueAsyncOperation(w)
    PROVE  \A p \in Ops : Placed(p)' <=> Placed(p)
  <1>1. held[w] \notin Ops
    BY DEF DequeueAsyncOperation, Placement, HeldByStep, Holding, ToComplete, ToRun
  <1>2. CASE queue = <<>>
    BY <1>2, PlacedFrame DEF DequeueAsyncOperation, drainer
  <1>3. CASE queue # <<>>
    <2>1. /\ queue' = Tail(queue) /\ UNCHANGED flushing
          /\ held' = [held EXCEPT ![w] = Head(queue)]
      BY <1>3 DEF DequeueAsyncOperation, drainer
    <2>2. /\ Head(queue) \in Elems(queue)
          /\ Elems(Tail(queue)) = Elems(queue) \ {Head(queue)}
      BY <1>3, TailElems DEF Placement, PlaceTypes, OnePlace
    <2>3. \A v \in Workers : held'[v] = IF v = w THEN Head(queue) ELSE held[v]
      BY <2>1 DEF Placement, PlaceTypes
    <2> QED BY <1>1, <2>1, <2>2, <2>3 DEF Placed
  <1> QED BY <1>2, <1>3

\* UnlinkAllQueuedOperationsLocked
LEMMA PlacedUnlink ==
    ASSUME Placement, UnlinkAll
    PROVE  \A p \in Ops : Placed(p)' <=> Placed(p)
  <1>1. flushing = <<>> /\ queue' = <<>> /\ flushing' = queue /\ held' = held
    BY DEF UnlinkAll, Placement, DrainPhases, FlushPcs, workers
  <1> QED BY <1>1, EmptyElems DEF Placed

\* ReleaseRef by the worker
LEMMA PlacedDrop ==
    ASSUME Placement, NEW w \in Workers, worker[w] = "release",
           held' = [held EXCEPT ![w] = "none"], UNCHANGED <<queue, flushing>>
    PROVE  /\ held[w] \in Ops /\ Placed(held[w])
           /\ \A p \in Ops : Placed(p)' <=> Placed(p) /\ p # held[w]
  <1>1. held[w] \in Ops
    BY DEF Placement, HeldByStep, Holding
  <1>2. \A v \in Workers : held'[v] = IF v = w THEN "none" ELSE held[v]
    BY DEF Placement, PlaceTypes
  <1>3. \A v \in Workers : held[v] = held[w] => v = w
    BY <1>1 DEF Placement, OnePlace
  <1>4. held[w] \notin Elems(queue) \cup Elems(flushing)
    BY DEF Placement, OnePlace
  <1> QED BY <1>1, <1>2, <1>3, <1>4, AsyncAssumption DEF Placed

\* ReleaseRef by the drain
LEMMA PlacedFlushed ==
    ASSUME Placement, drain = "flushed", flushing' = Tail(flushing), UNCHANGED <<queue, held>>
    PROVE  /\ Head(flushing) \in Ops /\ Placed(Head(flushing))
           /\ \A p \in Ops : Placed(p)' <=> Placed(p) /\ p # Head(flushing)
  <1>1. flushing # <<>> /\ flushing \in Seq(Ops) /\ Distinct(flushing)
    BY DEF Placement, DrainPhases, PlaceTypes, OnePlace
  <1>2. /\ Head(flushing) \in Ops /\ Head(flushing) \in Elems(flushing)
        /\ Elems(Tail(flushing)) = Elems(flushing) \ {Head(flushing)}
    BY <1>1, TailElems
  <1>3. Head(flushing) \notin Elems(queue) /\ \A w \in Workers : held[w] # Head(flushing)
    BY <1>2 DEF Placement, OnePlace
  <1> QED BY <1>2, <1>3 DEF Placed

\* A step that leaves counts, handles and places alone.
LEMMA ReferencesFrame ==
    ASSUME References,
           UNCHANGED <<memory, Closed, ReferenceCount>>,
           \A p \in Ops : Placed(p)' <=> Placed(p),
           \A p \in Ops : /\ owner'[p] = "none" <=> owner[p] = "none"
                          /\ owner'[p] \in {"released", "gone"} <=> owner[p] \in {"released", "gone"}
                          /\ owner'[p] \in Queueing <=> owner[p] \in Queueing
    PROVE  References'
  BY DEF References, RefTypes, Lives, RefsExact, RefsOf

\* A dropped reference: one less of what it stood for.
LEMMA ReferencesDrop ==
    ASSUME References, NEW o \in Ops, memory[o] # "none",
           ReferenceCount' = [ReferenceCount EXCEPT ![o] = @ - 1],
           memory' = IF ReferenceCount[o] = 1 THEN [memory EXCEPT ![o] = "freed"] ELSE memory,
           Closed' \in [Ops -> BOOLEAN],
           RefsOf(o)' = RefsOf(o) - 1,
           \A p \in Ops : /\ owner'[p] = "none" <=> owner[p] = "none"
                          /\ Closed'[p] <=> owner'[p] \in {"released", "gone"}
                          /\ p # o => RefsOf(p)' = RefsOf(p)
    PROVE  References'
  <1> USE DEF References, RefTypes, Lives, RefsExact
  <1>1. \A p \in Ops : RefsOf(p) \in Nat /\ RefsOf(p)' \in Nat
    BY DEF RefsOf
  <1>2. ReferenceCount[o] = RefsOf(o) /\ ReferenceCount[o] > 0 /\ memory[o] = "live"
    BY <1>1
  <1>3. \A p \in Ops : ReferenceCount'[p] = IF p = o THEN ReferenceCount[o] - 1 ELSE ReferenceCount[p]
    OBVIOUS
  <1>4. \A p \in Ops : memory'[p] = IF p = o /\ ReferenceCount[o] = 1 THEN "freed" ELSE memory[p]
    OBVIOUS
  <1>5. RefTypes'
    <2>1. ReferenceCount' \in [Ops -> Nat]
      BY <1>2, <1>3
    <2>2. memory' \in [Ops -> {"none", "live", "freed"}]
      OBVIOUS
    <2> QED BY <2>1, <2>2
  <1>6. Lives'
    BY <1>1, <1>2, <1>3, <1>4
  <1>7. RefsExact'
    BY <1>1, <1>2, <1>3, <1>4
  <1> QED BY <1>5, <1>6, <1>7

\* Whoever takes an operation off its place drops the reference of that place.
LEMMA ReferencesLost ==
    ASSUME Placement, References, NEW o \in Ops, Placed(o), ReleaseRef(o),
           UNCHANGED <<owner, Closed>>,
           \A p \in Ops : Placed(p)' <=> Placed(p) /\ p # o
    PROVE  References'
  <1>1. /\ ReferenceCount' = [ReferenceCount EXCEPT ![o] = @ - 1]
        /\ memory' = IF ReferenceCount[o] = 1 THEN [memory EXCEPT ![o] = "freed"] ELSE memory
    BY DEF ReleaseRef
  <1>2. memory[o] # "none"
    BY DEF Placement, PlacedAccepted, Accepted, References, Lives
  <1>3. \A p \in Ops : RefsOf(p)' = IF p = o THEN RefsOf(p) - 1 ELSE RefsOf(p)
    BY DEF RefsOf
  <1> QED BY <1>1, <1>2, <1>3, ReferencesDrop DEF References, RefTypes, Lives

\* A reference is taken and dropped with what it stands for.
LEMMA ReferencesStep == Placement /\ References /\ Next => References'
  <1> SUFFICES ASSUME Placement, References, Next PROVE References'
    OBVIOUS
  <1> USE DEF shared, counters, workers, drainer, operation, Own
  <1>0. owner \in [Ops -> OwnerPcs]
    BY DEF Placement, PlaceTypes
  <1>1. ASSUME NEW o \in Ops, Create(o) PROVE References'
    <2>1. \A p \in Ops : Placed(p)' <=> Placed(p)
      BY <1>1, PlacedFrame DEF Create
    <2>2. ~Placed(o) /\ ~Closed[o]
      BY <1>1 DEF Create, Placement, PlacedAccepted, Accepted, References, Lives
    <2> QED BY <1>0, <1>1, <2>1, <2>2
            DEF Create, References, RefTypes, Lives, RefsExact, RefsOf, Queueing
  <1>2. ASSUME NEW o \in Ops, EnsureRuntime(o) PROVE References'
    BY <1>0, <1>2, PlacedFrame, ReferencesFrame DEF EnsureRuntime, Queueing
  <1>3. ASSUME NEW o \in Ops, StartAsyncWorkers(o) PROVE References'
    BY <1>0, <1>3, PlacedFrame, ReferencesFrame DEF StartAsyncWorkers, Queueing
  <1>4. ASSUME NEW o \in Ops, TryQueue(o) PROVE References'
    BY <1>0, <1>4, PlacedFrame, ReferencesFrame DEF TryQueue, Queueing
  <1>5. ASSUME NEW o \in Ops, QueueCanceled(o) PROVE References'
    <2>1. \A p \in Ops : Placed(p)' <=> Placed(p)
      BY <1>5, PlacedFrame DEF QueueCanceled
    <2>2. CASE Canceled[o]
      BY <1>0, <1>5, <2>1, <2>2, ReferencesFrame DEF QueueCanceled, Queueing
    <2>3. CASE ~Canceled[o]
      <3>1. /\ owner[o] = "canceled?" /\ owner' = [owner EXCEPT ![o] = "begin"]
            /\ ReferenceCount' = [ReferenceCount EXCEPT ![o] = @ + 1]
            /\ UNCHANGED <<memory, Closed>>
        BY <1>5, <2>3 DEF QueueCanceled, AddRef
      <3>2. memory[o] = "live"
        BY <3>1 DEF References, RefTypes, Lives, RefsExact, RefsOf
      <3> QED BY <1>0, <2>1, <3>1, <3>2
              DEF References, RefTypes, Lives, RefsExact, RefsOf, Queueing
    <2> QED BY <2>2, <2>3
  <1>6. ASSUME NEW o \in Ops, BeginAsyncOperation(o) PROVE References'
    BY <1>0, <1>6, PlacedFrame, ReferencesFrame DEF BeginAsyncOperation, Queueing
  <1>7. ASSUME NEW o \in Ops, EnqueueAsyncOperation(o) PROVE References'
    <2>1. CASE UNCHANGED queue /\ owner' = [owner EXCEPT ![o] = "undo"]
      BY <1>0, <1>7, <2>1, PlacedFrame, ReferencesFrame DEF EnqueueAsyncOperation, Queueing
    <2>2. CASE queue' = Append(queue, o) /\ owner' = [owner EXCEPT ![o] = "post"]
      <3>1. \A p \in Ops : Placed(p)' <=> Placed(p) \/ p = o
        BY <1>7, <2>2, PlacedEnqueue DEF EnqueueAsyncOperation
      <3>2. owner[o] = "enqueue" /\ ~Placed(o) /\ UNCHANGED <<memory, Closed, ReferenceCount>>
        BY <1>7 DEF EnqueueAsyncOperation, Placement, PlacedAccepted, Accepted
      <3> QED BY <1>0, <2>2, <3>1, <3>2
              DEF References, RefTypes, Lives, RefsExact, RefsOf, Queueing
    <2> QED BY <1>7, <2>1, <2>2 DEF EnqueueAsyncOperation
  <1>8. ASSUME NEW o \in Ops, PostSemaphore(o) PROVE References'
    BY <1>0, <1>8, PlacedFrame, ReferencesFrame DEF PostSemaphore, Queueing
  <1>9. ASSUME NEW o \in Ops, UndoQueue(o) PROVE References'
    <2>1. \A p \in Ops : Placed(p)' <=> Placed(p)
      BY <1>9, PlacedFrame DEF UndoQueue
    <2>2. CASE owner[o] \in {"undo", "undoSignal"}
      BY <1>0, <1>9, <2>1, <2>2, ReferencesFrame DEF UndoQueue, Queueing
    <2>3. CASE owner[o] = "undoRef"
      <3>1. /\ owner' = [owner EXCEPT ![o] = "rejected"] /\ UNCHANGED Closed
            /\ ReferenceCount' = [ReferenceCount EXCEPT ![o] = @ - 1]
            /\ memory' = IF ReferenceCount[o] = 1 THEN [memory EXCEPT ![o] = "freed"] ELSE memory
        BY <1>9, <2>3 DEF UndoQueue, ReleaseRef
      <3>2. \A p \in Ops : RefsOf(p)' = IF p = o THEN RefsOf(p) - 1 ELSE RefsOf(p)
        BY <1>0, <2>1, <2>3, <3>1 DEF RefsOf, Queueing
      <3> QED BY <1>0, <2>3, <3>1, <3>2, ReferencesDrop DEF References, RefTypes, Lives
    <2> QED BY <1>9, <2>2, <2>3 DEF UndoQueue
  <1>10. ASSUME NEW o \in Ops, Release(o) PROVE References'
    <2>1. \A p \in Ops : Placed(p)' <=> Placed(p)
      BY <1>10, PlacedFrame DEF Release
    <2>2. /\ owner[o] \in {"ready", "rejected"} /\ ~Closed[o]
          /\ owner' = [owner EXCEPT ![o] = IF owner[o] = "ready" THEN "released" ELSE "gone"]
          /\ Closed' = [Closed EXCEPT ![o] = TRUE]
          /\ ReferenceCount' = [ReferenceCount EXCEPT ![o] = @ - 1]
          /\ memory' = IF ReferenceCount[o] = 1 THEN [memory EXCEPT ![o] = "freed"] ELSE memory
      BY <1>10 DEF Release, ReleaseRef
    <2>3. \A p \in Ops : RefsOf(p)' = IF p = o THEN RefsOf(p) - 1 ELSE RefsOf(p)
      BY <1>0, <2>1, <2>2 DEF RefsOf, Queueing, References, RefTypes
    <2> QED BY <1>0, <2>2, <2>3, ReferencesDrop DEF References, RefTypes, Lives
  <1>11. ASSUME NEW o \in Ops, CancelSetFlag(o) PROVE References'
    BY <1>11, PlacedFrame, ReferencesFrame DEF CancelSetFlag
  <1>12. ASSUME NEW o \in Ops, CancelPending(o) PROVE References'
    BY <1>12, PlacedFrame, ReferencesFrame DEF CancelPending
  <1>13. ASSUME NEW o \in Ops, CompleteOperation(o) PROVE References'
    BY <1>13, PlacedFrame, ReferencesFrame DEF CompleteOperation
  <1>14. ASSUME NEW w \in Workers, WaitForWork(w) PROVE References'
    BY <1>14, PlacedFrame, ReferencesFrame DEF WaitForWork
  <1>15. ASSUME NEW w \in Workers, DequeueAsyncOperation(w) PROVE References'
    BY <1>15, PlacedDequeue, ReferencesFrame DEF DequeueAsyncOperation
  <1>16. ASSUME NEW w \in Workers, LeaveIfStopped(w) PROVE References'
    BY <1>16, PlacedFrame, ReferencesFrame DEF LeaveIfStopped
  <1>17. ASSUME NEW w \in Workers, RunOperation(w) PROVE References'
    BY <1>17, PlacedFrame, ReferencesFrame DEF RunOperation
  <1>18. ASSUME NEW w \in Workers, WorkerRoutine(w) PROVE References'
    BY <1>18, PlacedFrame, ReferencesFrame DEF WorkerRoutine
  <1>19. ASSUME NEW w \in Workers, RoutineEnds(w) PROVE References'
    BY <1>19, PlacedFrame, ReferencesFrame DEF RoutineEnds
  <1>20. ASSUME NEW w \in Workers, CompleteRun(w) PROVE References'
    BY <1>20, PlacedFrame, ReferencesFrame DEF CompleteRun
  <1>21. ASSUME NEW w \in Workers, ClearWorkerOperation(w) PROVE References'
    <2>1. CASE worker[w] = "clear"
      BY <1>21, <2>1, PlacedFrame, ReferencesFrame DEF ClearWorkerOperation
    <2>2. CASE worker[w] = "release"
      <3>1. /\ UNCHANGED <<owner, Closed, queue, flushing>> /\ held' = [held EXCEPT ![w] = "none"]
            /\ ReleaseRef(held[w])
        BY <1>21, <2>2 DEF ClearWorkerOperation
      <3>2. /\ held[w] \in Ops /\ Placed(held[w])
            /\ \A p \in Ops : Placed(p)' <=> Placed(p) /\ p # held[w]
        BY <2>2, <3>1, PlacedDrop
      <3> QED BY <3>1, <3>2, ReferencesLost
    <2> QED BY <1>21, <2>1, <2>2 DEF ClearWorkerOperation
  <1>22. ASSUME NEW w \in Workers, EndAsyncOperation(w) PROVE References'
    BY <1>22, PlacedFrame, ReferencesFrame DEF EndAsyncOperation
  <1>23. ASSUME Drain PROVE References'
    BY <1>23, PlacedFrame, ReferencesFrame DEF Drain
  <1>24. ASSUME UnlinkAll PROVE References'
    BY <1>24, PlacedUnlink, ReferencesFrame DEF UnlinkAll
  <1>25. ASSUME CompleteQueued PROVE References'
    <2>1. CASE drain # "flushed"
      BY <1>25, <2>1, PlacedFrame, ReferencesFrame DEF CompleteQueued
    <2>2. CASE drain = "flushed"
      <3>1. /\ UNCHANGED <<owner, Closed, queue, held>> /\ flushing' = Tail(flushing)
            /\ ReleaseRef(Head(flushing))
        BY <1>25, <2>2 DEF CompleteQueued
      <3>2. /\ Head(flushing) \in Ops /\ Placed(Head(flushing))
            /\ \A p \in Ops : Placed(p)' <=> Placed(p) /\ p # Head(flushing)
        BY <2>2, <3>1, PlacedFlushed
      <3> QED BY <3>1, <3>2, ReferencesLost
    <2> QED BY <2>1, <2>2
  <1>26. ASSUME CancelRunning PROVE References'
    BY <1>26, PlacedFrame, ReferencesFrame DEF CancelRunning
  <1>27. ASSUME FinishDrain PROVE References'
    <2>1. queue' = queue
      BY <1>27 DEF FinishDrain, Placement, DrainPhases, RuntimePhases
    <2> QED BY <1>27, <2>1, PlacedFrame, ReferencesFrame DEF FinishDrain
  <1>28. ASSUME CloseSession PROVE References'
    BY <1>28, PlacedFrame, ReferencesFrame DEF CloseSession
  <1> QED
    BY <1>1, <1>2, <1>3, <1>4, <1>5, <1>6, <1>7, <1>8, <1>9, <1>10, <1>11, <1>12, <1>13, <1>14,
       <1>15, <1>16, <1>17, <1>18, <1>19, <1>20, <1>21, <1>22, <1>23, <1>24, <1>25, <1>26,
       <1>27, <1>28
    DEF Next, Sending, WorkerStep, DrainStep

-----------------------------------------------------------------------------
(* The session.                                                            *)

\* At first no operation takes part in the session.
LEMMA SessionInit == Init => SessionLedger
  <1> SUFFICES ASSUME Init PROVE SessionLedger
    OBVIOUS
  <1>1. {o \in Ops : ~ended[o]} = {}
    BY DEF Init
  <1>2. SessionInFlight = Cardinality({o \in Ops : ~ended[o]})
    BY <1>1, FS_EmptySet DEF Init
  <1> QED BY <1>2, EmptyElems DEF Init, SessionLedger, Before, ToRun

\* Who may still run an operation: nobody new but from the queue.
NoNewRun ==
    /\ \A p \in Ops : owner'[p] \in Before => owner[p] \in Before
    /\ \A p \in Ops : owner'[p] = "none" => owner[p] = "none"
    /\ \A p \in Ops : p \in Elems(queue') => p \in Elems(queue) \/ owner[p] \in Before
    /\ \A w \in Workers : worker'[w] \in ToRun =>
          \/ worker[w] \in ToRun /\ held'[w] = held[w]
          \/ held'[w] \in Ops /\ held'[w] \in Elems(queue)

\* A step that ends nothing and lets nobody else run.
LEMMA SessionFrame ==
    ASSUME SessionLedger, UNCHANGED sessions, NoNewRun
    PROVE  SessionLedger'
  BY DEF SessionLedger, sessions, NoNewRun

\* The end of an operation, recorded once, of one that will not run any more.
LEMMA SessionEnd ==
    ASSUME SessionLedger, NEW o \in Ops, EndSessionOperation(o), NoNewRun,
           owner'[o] \notin Before, o \notin Elems(queue'),
           \A w \in Workers : held'[w] = o => worker'[w] \notin ToRun
    PROVE  SessionLedger'
  <1>1. CASE ended[o]
    BY <1>1, SessionFrame DEF EndSessionOperation
  <1>2. CASE ~ended[o]
    <2> DEFINE Left == {p \in Ops : ~ended[p]}
    <2>1. /\ ended' = [ended EXCEPT ![o] = TRUE] /\ session' = session
          /\ SessionInFlight' = SessionInFlight - 1
      BY <1>2 DEF EndSessionOperation
    <2>2. IsFiniteSet(Left) /\ o \in Left
      BY <1>2, AsyncAssumption, FS_Subset
    <2>3. Cardinality(Left \ {o}) = Cardinality(Left) - 1 /\ Cardinality(Left) \in Nat
          /\ Cardinality(Left \ {o}) \in Nat
      BY <2>2, FS_RemoveElement, FS_CardinalityType
    <2>4. {p \in Ops : ~ended'[p]} = Left \ {o}
      BY <2>1 DEF SessionLedger
    <2>5. SessionInFlight' \in Nat /\ SessionInFlight' = Cardinality({p \in Ops : ~ended'[p]})
      BY <2>1, <2>3, <2>4 DEF SessionLedger
    <2>6. \A p \in Ops : ended'[p] = IF p = o THEN TRUE ELSE ended[p]
      BY <2>1 DEF SessionLedger
    <2> HIDE DEF Left
    <2>7. ended' \in [Ops -> BOOLEAN]
      BY <2>1 DEF SessionLedger
    <2> QED BY <2>1, <2>5, <2>6, <2>7 DEF SessionLedger, NoNewRun
  <1> QED BY <1>1, <1>2

\* The cleanup of the last reference: nobody else has the operation.
LEMMA SessionLost ==
    ASSUME Placement, References, SessionLedger, NEW o \in Ops, Placed(o), ReleaseRef(o),
           NoNewRun, UNCHANGED owner, o \notin Elems(queue'),
           \A w \in Workers : held'[w] = o => worker'[w] \notin ToRun
    PROVE  SessionLedger'
  <1>1. CASE ReferenceCount[o] = 1
    <2>1. owner[o] \in Accepted /\ owner[o] \notin Before
      BY DEF Placement, PlacedAccepted, Accepted, Before
    <2> QED BY <1>1, <2>1, SessionEnd DEF ReleaseRef
  <1>2. CASE ReferenceCount[o] # 1
    BY <1>2, SessionFrame DEF ReleaseRef
  <1> QED BY <1>1, <1>2

\* The end of a routine, run or not begun.
LEMMA SessionRan ==
    ASSUME Placement, SessionLedger, NEW w \in Workers, worker[w] \in {"routine", "sending"},
           EndSessionOperation(held[w]), worker' = [worker EXCEPT ![w] = "complete"],
           UNCHANGED <<owner, queue, held>>
    PROVE  SessionLedger'
  <1>1. held[w] \in Ops
    BY DEF Placement, HeldByStep, Holding, ToComplete, ToRun
  <1>2. owner[held[w]] \notin Before
    BY <1>1 DEF Placement, PlacedAccepted, Placed, Accepted, Before
  <1>3. held[w] \notin Elems(queue)
    BY DEF Placement, OnePlace
  <1>4. \A v \in Workers : held[v] = held[w] => v = w
    BY <1>1 DEF Placement, OnePlace
  <1>5. \A v \in Workers : worker'[v] = IF v = w THEN "complete" ELSE worker[v]
    BY DEF Placement, PlaceTypes
  <1>6. NoNewRun
    BY <1>5 DEF NoNewRun, ToRun
  <1> QED BY <1>1, <1>2, <1>3, <1>4, <1>5, <1>6, SessionEnd DEF ToRun

\* The session counts an operation until its end is recorded, and the record of its
\* end comes after its send.
LEMMA SessionStep == Placement /\ References /\ SessionLedger /\ Next => SessionLedger'
  <1> SUFFICES ASSUME Placement, References, SessionLedger, Next PROVE SessionLedger'
    OBVIOUS
  <1> USE DEF shared, counters, workers, drainer, operation, Own, Work, Before, ToRun
  <1>0. /\ owner \in [Ops -> OwnerPcs] /\ worker \in [Workers -> WorkerPcs]
        /\ held \in [Workers -> Ops \cup {"none"}]
    BY DEF Placement, PlaceTypes
  <1>1. ASSUME NEW o \in Ops, Create(o) PROVE SessionLedger'
    <2> DEFINE Left == {p \in Ops : ~ended[p]}
    <2>1. /\ owner[o] = "none" /\ session = "open" /\ session' = session
          /\ owner' = [owner EXCEPT ![o] = "created"] /\ UNCHANGED <<queue, worker, held>>
          /\ ended' = [ended EXCEPT ![o] = FALSE] /\ SessionInFlight' = SessionInFlight + 1
      BY <1>1 DEF Create
    <2>2. IsFiniteSet(Left) /\ o \notin Left
      BY <2>1, AsyncAssumption, FS_Subset DEF SessionLedger
    <2>3. Cardinality(Left \cup {o}) = Cardinality(Left) + 1
      BY <2>2, FS_AddElement
    <2>4. {p \in Ops : ~ended'[p]} = Left \cup {o}
      BY <2>1 DEF SessionLedger
    <2>5. SessionInFlight' \in Nat /\ SessionInFlight' = Cardinality({p \in Ops : ~ended'[p]})
      BY <2>1, <2>3, <2>4 DEF SessionLedger
    <2>6. \A p \in Ops : ended'[p] = IF p = o THEN FALSE ELSE ended[p]
      BY <2>1 DEF SessionLedger
    <2>7. ended' \in [Ops -> BOOLEAN]
      BY <2>1 DEF SessionLedger
    <2>8. \A w \in Workers : worker[w] \in ToRun => held[w] \in Ops
      BY DEF Placement, HeldByStep, Holding, ToComplete
    <2> HIDE DEF Left
    <2> QED BY <1>0, <2>1, <2>5, <2>6, <2>7, <2>8 DEF SessionLedger
  <1>2. ASSUME NEW o \in Ops, EnsureRuntime(o) PROVE SessionLedger'
    BY <1>0, <1>2, SessionFrame DEF EnsureRuntime, NoNewRun
  <1>3. ASSUME NEW o \in Ops, StartAsyncWorkers(o) PROVE SessionLedger'
    BY <1>0, <1>3, SessionFrame DEF StartAsyncWorkers, NoNewRun
  <1>4. ASSUME NEW o \in Ops, TryQueue(o) PROVE SessionLedger'
    BY <1>0, <1>4, SessionFrame DEF TryQueue, NoNewRun
  <1>5. ASSUME NEW o \in Ops, QueueCanceled(o) PROVE SessionLedger'
    BY <1>0, <1>5, SessionFrame DEF QueueCanceled, NoNewRun
  <1>6. ASSUME NEW o \in Ops, BeginAsyncOperation(o) PROVE SessionLedger'
    BY <1>0, <1>6, SessionFrame DEF BeginAsyncOperation, NoNewRun
  <1>7. ASSUME NEW o \in Ops, EnqueueAsyncOperation(o) PROVE SessionLedger'
    <2>1. Elems(queue') \subseteq Elems(queue) \cup {o}
      BY <1>7, AppendElems DEF EnqueueAsyncOperation, Placement, PlaceTypes
    <2> QED BY <1>0, <1>7, <2>1, SessionFrame DEF EnqueueAsyncOperation, NoNewRun
  <1>8. ASSUME NEW o \in Ops, PostSemaphore(o) PROVE SessionLedger'
    BY <1>0, <1>8, SessionFrame DEF PostSemaphore, NoNewRun
  <1>9. ASSUME NEW o \in Ops, UndoQueue(o) PROVE SessionLedger'
    <2>1. UNCHANGED sessions
      <3>1. owner[o] = "undoRef" => ReferenceCount[o] # 1
        BY DEF References, RefTypes, Lives, RefsExact, RefsOf, Queueing
      <3> QED BY <1>9, <3>1 DEF UndoQueue, ReleaseRef
    <2> QED BY <1>0, <1>9, <2>1, SessionFrame DEF UndoQueue, NoNewRun
  <1>10. ASSUME NEW o \in Ops, Release(o) PROVE SessionLedger'
    <2>1. NoNewRun
      BY <1>0, <1>10 DEF Release, NoNewRun
    <2>2. CASE ReferenceCount[o] = 1
      <3>1. ~Placed(o)
        BY <1>10, <2>2 DEF Release, References, RefTypes, Lives, RefsExact, RefsOf
      <3>2. o \notin Elems(queue') /\ \A w \in Workers : held'[w] # o
        BY <1>10, <3>1 DEF Release, Placed
      <3> QED BY <1>0, <1>10, <2>1, <2>2, <3>2, SessionEnd DEF Release, ReleaseRef
    <2>3. CASE ReferenceCount[o] # 1
      BY <1>10, <2>1, <2>3, SessionFrame DEF Release, ReleaseRef
    <2> QED BY <2>2, <2>3
  <1>11. ASSUME NEW o \in Ops, CancelSetFlag(o) PROVE SessionLedger'
    BY <1>0, <1>11, SessionFrame DEF CancelSetFlag, NoNewRun
  <1>12. ASSUME NEW o \in Ops, CancelPending(o) PROVE SessionLedger'
    BY <1>0, <1>12, SessionFrame DEF CancelPending, NoNewRun
  <1>13. ASSUME NEW o \in Ops, CompleteOperation(o) PROVE SessionLedger'
    BY <1>0, <1>13, SessionFrame DEF CompleteOperation, NoNewRun
  <1>14. ASSUME NEW w \in Workers, WaitForWork(w) PROVE SessionLedger'
    BY <1>0, <1>14, SessionFrame DEF WaitForWork, NoNewRun
  <1>15. ASSUME NEW w \in Workers, DequeueAsyncOperation(w) PROVE SessionLedger'
    <2>1. CASE queue = <<>>
      BY <1>0, <1>15, <2>1, SessionFrame DEF DequeueAsyncOperation, NoNewRun
    <2>2. CASE queue # <<>>
      <3>1. /\ Head(queue) \in Ops /\ Head(queue) \in Elems(queue)
            /\ Elems(Tail(queue)) = Elems(queue) \ {Head(queue)}
        BY <2>2, TailElems DEF Placement, PlaceTypes, OnePlace
      <3> QED BY <1>0, <1>15, <2>2, <3>1, SessionFrame DEF DequeueAsyncOperation, NoNewRun
    <2> QED BY <2>1, <2>2
  <1>16. ASSUME NEW w \in Workers, LeaveIfStopped(w) PROVE SessionLedger'
    BY <1>0, <1>16, SessionFrame DEF LeaveIfStopped, NoNewRun
  <1>17. ASSUME NEW w \in Workers, RunOperation(w) PROVE SessionLedger'
    BY <1>0, <1>17, SessionFrame DEF RunOperation, NoNewRun
  <1>18. ASSUME NEW w \in Workers, WorkerRoutine(w) PROVE SessionLedger'
    <2>1. CASE Canceled[held[w]]
      <3>1. EndSessionOperation(held[w]) /\ worker' = [worker EXCEPT ![w] = "complete"]
        BY <1>18, <2>1 DEF WorkerRoutine
      <3> QED BY <1>18, <3>1, SessionRan DEF WorkerRoutine
    <2>2. CASE ~Canceled[held[w]]
      BY <1>0, <1>18, <2>2, SessionFrame DEF WorkerRoutine, NoNewRun
    <2> QED BY <2>1, <2>2
  <1>19. ASSUME NEW w \in Workers, RoutineEnds(w) PROVE SessionLedger'
    BY <1>19, SessionRan DEF RoutineEnds
  <1>20. ASSUME NEW w \in Workers, CompleteRun(w) PROVE SessionLedger'
    BY <1>0, <1>20, SessionFrame DEF CompleteRun, NoNewRun
  <1>21. ASSUME NEW w \in Workers, ClearWorkerOperation(w) PROVE SessionLedger'
    <2>1. NoNewRun
      BY <1>0, <1>21 DEF ClearWorkerOperation, NoNewRun
    <2>2. CASE worker[w] = "clear"
      BY <1>21, <2>1, <2>2, SessionFrame DEF ClearWorkerOperation
    <2>3. CASE worker[w] = "release"
      <3>1. /\ UNCHANGED <<owner, queue, flushing>> /\ held' = [held EXCEPT ![w] = "none"]
            /\ ReleaseRef(held[w])
        BY <1>21, <2>3 DEF ClearWorkerOperation
      <3>2. /\ held[w] \in Ops /\ Placed(held[w])
            /\ \A p \in Ops : Placed(p)' <=> Placed(p) /\ p # held[w]
        BY <2>3, <3>1, PlacedDrop
      <3>3. held[w] \notin Elems(queue') /\ \A v \in Workers : held'[v] # held[w]
        BY <3>2 DEF Placed
      <3> QED BY <2>1, <3>1, <3>2, <3>3, SessionLost
    <2> QED BY <1>21, <2>2, <2>3 DEF ClearWorkerOperation
  <1>22. ASSUME NEW w \in Workers, EndAsyncOperation(w) PROVE SessionLedger'
    BY <1>0, <1>22, SessionFrame DEF EndAsyncOperation, NoNewRun
  <1>23. ASSUME Drain PROVE SessionLedger'
    BY <1>0, <1>23, SessionFrame DEF Drain, NoNewRun
  <1>24. ASSUME UnlinkAll PROVE SessionLedger'
    BY <1>24, EmptyElems, SessionFrame DEF UnlinkAll, NoNewRun
  <1>25. ASSUME CompleteQueued PROVE SessionLedger'
    <2>1. NoNewRun
      BY <1>25 DEF CompleteQueued, NoNewRun
    <2>2. CASE drain # "flushed"
      BY <1>25, <2>1, <2>2, SessionFrame DEF CompleteQueued
    <2>3. CASE drain = "flushed"
      <3>1. /\ UNCHANGED <<owner, queue, held>> /\ flushing' = Tail(flushing)
            /\ ReleaseRef(Head(flushing))
        BY <1>25, <2>3 DEF CompleteQueued
      <3>2. /\ Head(flushing) \in Ops /\ Placed(Head(flushing))
            /\ \A p \in Ops : Placed(p)' <=> Placed(p) /\ p # Head(flushing)
        BY <2>3, <3>1, PlacedFlushed
      <3>3. Head(flushing) \notin Elems(queue') /\ \A v \in Workers : held'[v] # Head(flushing)
        BY <3>2 DEF Placed
      <3> QED BY <2>1, <3>1, <3>2, <3>3, SessionLost
    <2> QED BY <2>2, <2>3
  <1>26. ASSUME CancelRunning PROVE SessionLedger'
    BY <1>0, <1>26, SessionFrame DEF CancelRunning, NoNewRun
  <1>27. ASSUME FinishDrain PROVE SessionLedger'
    <2>1. queue' = queue
      BY <1>27 DEF FinishDrain, Placement, DrainPhases, RuntimePhases
    <2> QED BY <1>27, <2>1, SessionFrame DEF FinishDrain, NoNewRun
  <1>28. ASSUME CloseSession PROVE SessionLedger'
    <2>1. ASSUME SessionInFlight = 0 PROVE \A p \in Ops : ended[p]
      <3>1. IsFiniteSet({p \in Ops : ~ended[p]})
        BY AsyncAssumption, FS_Subset
      <3>2. {p \in Ops : ~ended[p]} = {}
        BY <2>1, <3>1, FS_EmptySet DEF SessionLedger
      <3> QED BY <3>2
    <2> QED BY <1>28, <2>1 DEF CloseSession, SessionLedger
  <1> QED
    BY <1>1, <1>2, <1>3, <1>4, <1>5, <1>6, <1>7, <1>8, <1>9, <1>10, <1>11, <1>12, <1>13, <1>14,
       <1>15, <1>16, <1>17, <1>18, <1>19, <1>20, <1>21, <1>22, <1>23, <1>24, <1>25, <1>26,
       <1>27, <1>28
    DEF Next, Sending, WorkerStep, DrainStep

-----------------------------------------------------------------------------
(* Who decides an operation.                                               *)

\* At first nothing is decided.
LEMMA CompletionsInit == Init => Completions
  <1> SUFFICES ASSUME Init PROVE Completions
    OBVIOUS
  <1> QED BY DEF Init, Completions, CompletionTypes, Claimed, ByCancel, ByRuntime,
                 NoSendDecided, Unfinished, InHand, Results, NoCompleter, Accepted

\* The exchange of Completed: the first one decides.
ClaimedBy(o, who, st) ==
    /\ completion' \in [Ops -> {"none", "claimed", "status", "state", "done"}]
    /\ completer' \in [Ops -> [by : {"nobody", "owner", "canceller", "worker", "drain"},
                               status : {"pending"} \cup Results]]
    /\ completion'[o] # "none"
    /\ completion[o] = "none" =>
          completion'[o] = "claimed" /\ completer'[o].by = who /\ completer'[o].status = st
    /\ \A p \in Ops : p # o \/ completion[p] # "none" =>
          completion'[p] = completion[p] /\ completer'[p] = completer[p]

\* CompleteOperation up to the exchange.
LEMMA ClaimEffect ==
    ASSUME CompletionTypes, NEW o \in Ops, NEW st \in Results,
           NEW who \in {"owner", "canceller", "worker", "drain"}, Claim(o, who, st)
    PROVE  ClaimedBy(o, who, st)
  <1> USE DEF CompletionTypes
  <1>1. CASE completion[o] = "none"
    <2> DEFINE c == [by |-> who, status |-> st]
    <2>1. /\ c \in [by : {"nobody", "owner", "canceller", "worker", "drain"},
                    status : {"pending"} \cup Results]
          /\ c.by = who /\ c.status = st
      OBVIOUS
    <2>2. /\ completion' = [completion EXCEPT ![o] = "claimed"]
          /\ completer' = [completer EXCEPT ![o] = c]
      BY <1>1 DEF Claim
    <2> HIDE DEF c
    <2>3. \A p \in Ops : /\ completion'[p] = IF p = o THEN "claimed" ELSE completion[p]
                         /\ completer'[p] = IF p = o THEN c ELSE completer[p]
      BY <2>2
    <2>4. completion' \in [Ops -> {"none", "claimed", "status", "state", "done"}]
      BY <2>2
    <2>5. completer' \in [Ops -> [by : {"nobody", "owner", "canceller", "worker", "drain"},
                                   status : {"pending"} \cup Results]]
      BY <2>1, <2>2
    <2> QED BY <1>1, <2>1, <2>3, <2>4, <2>5 DEF ClaimedBy
  <1>2. CASE completion[o] # "none"
    BY <1>2 DEF Claim, ClaimedBy
  <1> QED BY <1>1, <1>2

\* Deciding keeps the exchange and its stores in step, ...
LEMMA ClaimedMove ==
    ASSUME Claimed, NEW o \in Ops, NEW st \in Results,
           NEW who \in {"owner", "canceller", "worker", "drain"}, ClaimedBy(o, who, st),
           UNCHANGED Status, owner'[o] # "none",
           \A p \in Ops : owner'[p] = "none" => owner[p] = "none"
    PROVE  Claimed'
  <1>1. st # "pending" /\ who # "nobody"
    BY DEF Results
  <1> QED BY <1>1 DEF Claimed, ClaimedBy

\* ... and so does a step that decides nothing.
LEMMA ClaimedFrame ==
    ASSUME Claimed, UNCHANGED <<completion, completer, Status>>,
           \A p \in Ops : owner'[p] = "none" => owner[p] = "none"
    PROVE  Claimed'
  BY DEF Claimed

\* The first exchange decides; what decides by a cancel has seen Canceled.
LEMMA DecisionStep ==
    ASSUME Placement, Completions, Next
    PROVE  CompletionTypes' /\ Claimed' /\ ByCancel'
  <1> USE DEF shared, counters, workers, drainer, operation, Own, Work, Cancelling,
              Completions, CompletionTypes, Claimed, ByCancel
  <1>0. /\ owner \in [Ops -> OwnerPcs] /\ worker \in [Workers -> WorkerPcs]
        /\ held \in [Workers -> Ops \cup {"none"}] /\ HeldByStep
    BY DEF Placement, PlaceTypes
  <1>1. ASSUME NEW o \in Ops, Create(o) PROVE CompletionTypes' /\ Claimed' /\ ByCancel'
    BY <1>0, <1>1 DEF Create
  <1>2. ASSUME NEW o \in Ops, EnsureRuntime(o)
        PROVE  CompletionTypes' /\ Claimed' /\ ByCancel'
    BY <1>0, <1>2 DEF EnsureRuntime
  <1>3. ASSUME NEW o \in Ops, StartAsyncWorkers(o)
        PROVE  CompletionTypes' /\ Claimed' /\ ByCancel'
    <2>1. CompletionTypes'
      BY <1>0, <1>3 DEF StartAsyncWorkers
    <2>2. Claimed'
      BY <1>0, <1>3 DEF StartAsyncWorkers
    <2>3. ByCancel'
      BY <1>0, <1>3 DEF StartAsyncWorkers
    <2> QED BY <2>1, <2>2, <2>3
  <1>4. ASSUME NEW o \in Ops, TryQueue(o)
        PROVE  CompletionTypes' /\ Claimed' /\ ByCancel'
    BY <1>0, <1>4 DEF TryQueue
  <1>5. ASSUME NEW o \in Ops, QueueCanceled(o)
        PROVE  CompletionTypes' /\ Claimed' /\ ByCancel'
    <2>1. CASE Canceled[o]
      <3>2. ClaimedBy(o, "owner", "cancelled")
        BY <1>5, <2>1, ClaimEffect DEF QueueCanceled, Results
      <3>3. owner'[o] # "none" /\ \A p \in Ops : owner'[p] = "none" => owner[p] = "none"
        BY <1>0, <1>5, <2>1 DEF QueueCanceled
      <3>4. Claimed'
        BY <1>5, <3>2, <3>3, ClaimedMove DEF QueueCanceled, Results
      <3>5. CompletionTypes'
        BY <1>0, <1>5, <2>1, <3>2 DEF QueueCanceled, ClaimedBy
      <3>6. ByCancel'
        BY <1>0, <1>5, <2>1, <3>2 DEF QueueCanceled, ClaimedBy
      <3> QED BY <3>4, <3>5, <3>6
    <2>2. CASE ~(Canceled[o])
      <3>1. UNCHANGED <<completion, completer>> /\ \A p \in Ops : owner'[p] = "none" => owner[p] = "none"
        BY <1>0, <1>5, <2>2 DEF QueueCanceled
      <3>2. Claimed' /\ ByCancel'
        BY <1>0, <1>5, <2>2, <3>1, ClaimedFrame DEF QueueCanceled
      <3>3. CompletionTypes'
        BY <1>0, <1>5, <2>2, <3>1 DEF QueueCanceled
      <3> QED BY <3>2, <3>3
    <2> QED BY <2>1, <2>2
  <1>6. ASSUME NEW o \in Ops, BeginAsyncOperation(o)
        PROVE  CompletionTypes' /\ Claimed' /\ ByCancel'
    BY <1>0, <1>6 DEF BeginAsyncOperation
  <1>7. ASSUME NEW o \in Ops, EnqueueAsyncOperation(o)
        PROVE  CompletionTypes' /\ Claimed' /\ ByCancel'
    BY <1>0, <1>7 DEF EnqueueAsyncOperation
  <1>8. ASSUME NEW o \in Ops, PostSemaphore(o)
        PROVE  CompletionTypes' /\ Claimed' /\ ByCancel'
    BY <1>0, <1>8 DEF PostSemaphore
  <1>9. ASSUME NEW o \in Ops, UndoQueue(o)
        PROVE  CompletionTypes' /\ Claimed' /\ ByCancel'
    BY <1>0, <1>9 DEF UndoQueue
  <1>10. ASSUME NEW o \in Ops, Release(o)
        PROVE  CompletionTypes' /\ Claimed' /\ ByCancel'
    BY <1>0, <1>10 DEF Release
  <1>11. ASSUME NEW o \in Ops, CancelSetFlag(o)
        PROVE  CompletionTypes' /\ Claimed' /\ ByCancel'
    BY <1>0, <1>11 DEF CancelSetFlag
  <1>12. ASSUME NEW o \in Ops, CancelPending(o)
        PROVE  CompletionTypes' /\ Claimed' /\ ByCancel'
    <2>1. CASE canceller[o] = "pending"
      <3>2. ClaimedBy(o, "canceller", "cancelled")
        BY <1>12, <2>1, ClaimEffect DEF CancelPending, Results
      <3>3. owner'[o] # "none" /\ \A p \in Ops : owner'[p] = "none" => owner[p] = "none"
        BY <1>0, <1>12, <2>1 DEF CancelPending
      <3>4. Claimed'
        BY <1>12, <3>2, <3>3, ClaimedMove DEF CancelPending, Results
      <3>5. CompletionTypes'
        <4>1. canceller' \in [Ops -> {"idle", "flagged", "pending", "completing", "returned"}]
          BY <1>12, <2>1 DEF CancelPending
        <4> QED BY <1>12, <3>2, <4>1 DEF CancelPending, ClaimedBy
      <3>6. ByCancel'
        BY <1>0, <1>12, <2>1, <3>2 DEF CancelPending, ClaimedBy
      <3> QED BY <3>4, <3>5, <3>6
    <2>2. CASE ~(canceller[o] = "pending")
      <3>1. UNCHANGED <<completion, completer>> /\ \A p \in Ops : owner'[p] = "none" => owner[p] = "none"
        BY <1>0, <1>12, <2>2 DEF CancelPending
      <3>2. Claimed' /\ ByCancel'
        BY <1>0, <1>12, <2>2, <3>1, ClaimedFrame DEF CancelPending
      <3>3. CompletionTypes'
        <4>1. canceller' \in [Ops -> {"idle", "flagged", "pending", "completing", "returned"}]
          BY <1>12, <2>2 DEF CancelPending
        <4> QED BY <1>12, <3>1, <4>1 DEF CancelPending
      <3> QED BY <3>2, <3>3
    <2> QED BY <2>1, <2>2
  <1>13. ASSUME NEW o \in Ops, CompleteOperation(o)
        PROVE  CompletionTypes' /\ Claimed' /\ ByCancel'
    <2>0. /\ completion' \in [Ops -> {"none", "claimed", "status", "state", "done"}]
          /\ Status' \in [Ops -> {"pending"} \cup Results]
          /\ State' \in [Ops -> {"Pending", "Running", "Completed"}]
      <3>1. CASE completion[o] = "claimed"
        BY <1>13, <3>1 DEF CompleteOperation
      <3>2. CASE completion[o] = "status"
        BY <1>13, <3>2, SMTT(30) DEF CompleteOperation
      <3>3. CASE completion[o] = "state"
        BY <1>13, <3>3 DEF CompleteOperation
      <3> QED BY <1>13, <3>1, <3>2, <3>3 DEF CompleteOperation
    <2>1. CompletionTypes'
      BY <1>0, <1>13, <2>0 DEF CompleteOperation
    <2>2. Claimed'
      BY <1>0, <1>13 DEF CompleteOperation
    <2>3. ByCancel'
      BY <1>0, <1>13 DEF CompleteOperation
    <2> QED BY <2>1, <2>2, <2>3
  <1>14. ASSUME NEW w \in Workers, WaitForWork(w)
        PROVE  CompletionTypes' /\ Claimed' /\ ByCancel'
    BY <1>0, <1>14 DEF WaitForWork
  <1>15. ASSUME NEW w \in Workers, DequeueAsyncOperation(w)
        PROVE  CompletionTypes' /\ Claimed' /\ ByCancel'
    BY <1>0, <1>15 DEF DequeueAsyncOperation
  <1>16. ASSUME NEW w \in Workers, LeaveIfStopped(w)
        PROVE  CompletionTypes' /\ Claimed' /\ ByCancel'
    BY <1>0, <1>16 DEF LeaveIfStopped
  <1>17. ASSUME NEW w \in Workers, RunOperation(w)
        PROVE  CompletionTypes' /\ Claimed' /\ ByCancel'
    <2>1. CASE worker[w] = "canceled?" /\ Canceled[held[w]]
      <3>1. held[w] \in Ops
        BY <1>0, <1>17, <2>1 DEF RunOperation, HeldByStep, Holding, ToComplete, ToRun
      <3>2. ClaimedBy(held[w], "worker", "cancelled")
        BY <1>17, <2>1, <3>1, ClaimEffect DEF RunOperation, Results
      <3>3. owner'[held[w]] # "none" /\ \A p \in Ops : owner'[p] = "none" => owner[p] = "none"
        BY <1>0, <1>17, <2>1, <3>1 DEF RunOperation, Placement, PlacedAccepted, Placed, Accepted
      <3>4. Claimed'
        BY <1>17, <3>1, <3>2, <3>3, ClaimedMove DEF RunOperation, Results
      <3>5. CompletionTypes'
        BY <1>0, <1>17, <2>1, <3>2 DEF RunOperation, ClaimedBy
      <3>6. ByCancel'
        BY <1>0, <1>17, <2>1, <3>2 DEF RunOperation, ClaimedBy
      <3> QED BY <3>4, <3>5, <3>6
    <2>2. CASE ~(worker[w] = "canceled?" /\ Canceled[held[w]])
      <3>1. UNCHANGED <<completion, completer>> /\ \A p \in Ops : owner'[p] = "none" => owner[p] = "none"
        BY <1>0, <1>17, <2>2 DEF RunOperation
      <3>2. Claimed' /\ ByCancel'
        BY <1>0, <1>17, <2>2, <3>1, ClaimedFrame DEF RunOperation
      <3>3. CompletionTypes'
        BY <1>0, <1>17, <2>2, <3>1 DEF RunOperation
      <3> QED BY <3>2, <3>3
    <2> QED BY <2>1, <2>2
  <1>18. ASSUME NEW w \in Workers, WorkerRoutine(w)
        PROVE  CompletionTypes' /\ Claimed' /\ ByCancel'
    <2>1. CompletionTypes'
      BY <1>0, <1>18 DEF WorkerRoutine, Results
    <2>2. Claimed'
      BY <1>0, <1>18 DEF WorkerRoutine, Results
    <2>3. ByCancel'
      BY <1>0, <1>18 DEF WorkerRoutine, Results
    <2> QED BY <2>1, <2>2, <2>3
  <1>19. ASSUME NEW w \in Workers, RoutineEnds(w)
        PROVE  CompletionTypes' /\ Claimed' /\ ByCancel'
    <2>0. result' \in [Workers -> {"pending"} \cup Results] /\ result'[w] \in Results
          /\ \A v \in Workers : v # w => result'[v] = result[v]
      BY <1>19 DEF RoutineEnds, Results
    <2>1. CompletionTypes'
      BY <1>0, <1>19, <2>0 DEF RoutineEnds
    <2>2. Claimed'
      BY <1>0, <1>19 DEF RoutineEnds
    <2>3. ByCancel'
      BY <1>0, <1>19 DEF RoutineEnds
    <2> QED BY <2>1, <2>2, <2>3
  <1>20. ASSUME NEW w \in Workers, CompleteRun(w)
        PROVE  CompletionTypes' /\ Claimed' /\ ByCancel'
    <2>1. held[w] \in Ops /\ result[w] \in Results
      BY <1>0, <1>20 DEF CompleteRun, HeldByStep, Holding, ToComplete, ToRun
    <2>2. ClaimedBy(held[w], "worker", result[w])
      BY <1>20, <2>1, ClaimEffect DEF CompleteRun, Results
    <2>3. owner'[held[w]] # "none" /\ \A p \in Ops : owner'[p] = "none" => owner[p] = "none"
      BY <1>0, <1>20, <2>1 DEF CompleteRun, Placement, PlacedAccepted, Placed, Accepted
    <2>4. Claimed'
      BY <1>20, <2>1, <2>2, <2>3, ClaimedMove DEF CompleteRun, Results
    <2>5. CompletionTypes'
      BY <1>0, <1>20, <2>2 DEF CompleteRun, ClaimedBy
    <2>6. ByCancel'
      BY <1>0, <1>20, <2>2 DEF CompleteRun, ClaimedBy
    <2> QED BY <2>4, <2>5, <2>6
  <1>21. ASSUME NEW w \in Workers, ClearWorkerOperation(w)
        PROVE  CompletionTypes' /\ Claimed' /\ ByCancel'
    BY <1>0, <1>21 DEF ClearWorkerOperation
  <1>22. ASSUME NEW w \in Workers, EndAsyncOperation(w)
        PROVE  CompletionTypes' /\ Claimed' /\ ByCancel'
    BY <1>0, <1>22 DEF EndAsyncOperation
  <1>23. ASSUME Drain PROVE CompletionTypes' /\ Claimed' /\ ByCancel'
    BY <1>0, <1>23 DEF Drain
  <1>24. ASSUME UnlinkAll PROVE CompletionTypes' /\ Claimed' /\ ByCancel'
    BY <1>0, <1>24 DEF UnlinkAll
  <1>25. ASSUME CompleteQueued PROVE CompletionTypes' /\ Claimed' /\ ByCancel'
    <2>1. CASE drain = "flush" /\ flushing # <<>>
      <3>1. Head(flushing) \in Ops
        BY <1>0, <1>25, TailElems, <2>1 DEF CompleteQueued, Placement, DrainPhases,
           PlaceTypes, OnePlace
      <3>2. ClaimedBy(Head(flushing), "drain", "cancelled")
        BY <1>25, <2>1, <3>1, ClaimEffect DEF CompleteQueued, Results
      <3>3. owner'[Head(flushing)] # "none" /\ \A p \in Ops : owner'[p] = "none" => owner[p] = "none"
        BY <1>0, <1>25, <2>1, <3>1, TailElems DEF CompleteQueued, Placement, PlacedAccepted,
           Placed, Accepted, PlaceTypes, OnePlace
      <3>4. Claimed'
        BY <1>25, <3>1, <3>2, <3>3, ClaimedMove DEF CompleteQueued, Results
      <3>5. CompletionTypes'
        BY <1>0, <1>25, <2>1, <3>2 DEF CompleteQueued, ClaimedBy
      <3>6. ByCancel'
        BY <1>0, <1>25, <2>1, <3>2 DEF CompleteQueued, ClaimedBy
      <3> QED BY <3>4, <3>5, <3>6
    <2>2. CASE ~(drain = "flush" /\ flushing # <<>>)
      <3>1. UNCHANGED <<completion, completer>> /\ \A p \in Ops : owner'[p] = "none" => owner[p] = "none"
        BY <1>0, <1>25, <2>2 DEF CompleteQueued
      <3>2. Claimed' /\ ByCancel'
        BY <1>0, <1>25, <2>2, <3>1, ClaimedFrame DEF CompleteQueued
      <3>3. CompletionTypes'
        BY <1>0, <1>25, <2>2, <3>1 DEF CompleteQueued
      <3> QED BY <3>2, <3>3
    <2> QED BY <2>1, <2>2
  <1>26. ASSUME CancelRunning PROVE CompletionTypes' /\ Claimed' /\ ByCancel'
    <2>0. Canceled' \in [Ops -> BOOLEAN]
      <3>1. CASE drain = "cancel"
        <4>1. Canceled' = [p \in Ops |-> Canceled[p] \/ \E w \in Workers : workerOp[w] = p]
          BY <1>26, <3>1 DEF CancelRunning
        <4>2. \A p \in Ops : (Canceled[p] \/ \E w \in Workers : workerOp[w] = p) \in BOOLEAN
          OBVIOUS
        <4> QED BY <4>1, <4>2
      <3>2. CASE drain # "cancel"
        BY <1>26, <3>2 DEF CancelRunning
      <3> QED BY <3>1, <3>2
    <2>1. CompletionTypes'
      BY <1>0, <1>26, <2>0 DEF CancelRunning
    <2>2. Claimed'
      BY <1>0, <1>26 DEF CancelRunning
    <2>3. ByCancel'
      BY <1>0, <1>26 DEF CancelRunning
    <2> QED BY <2>1, <2>2, <2>3
  <1>27. ASSUME FinishDrain PROVE CompletionTypes' /\ Claimed' /\ ByCancel'
    BY <1>0, <1>27 DEF FinishDrain
  <1>28. ASSUME CloseSession PROVE CompletionTypes' /\ Claimed' /\ ByCancel'
    BY <1>0, <1>28 DEF CloseSession
  <1> QED
    BY <1>1, <1>2, <1>3, <1>4, <1>5, <1>6, <1>7, <1>8, <1>9, <1>10, <1>11, <1>12, <1>13, <1>14,
       <1>15, <1>16, <1>17, <1>18, <1>19, <1>20, <1>21, <1>22, <1>23, <1>24, <1>25, <1>26,
       <1>27, <1>28
    DEF Next, Sending, WorkerStep, DrainStep

\* No send of an operation that has been decided.
LEMMA SendingStep ==
    ASSUME Placement, Completions, Next
    PROVE  ByRuntime' /\ NoSendDecided'
  <1> USE DEF shared, counters, workers, drainer, operation, Own, Work, Cancelling,
              Completions, Claimed, ByCancel, ByRuntime, NoSendDecided, HeldByStep, Holding,
              ToComplete, ToRun, Accepted
  <1>0. /\ owner \in [Ops -> OwnerPcs] /\ worker \in [Workers -> WorkerPcs]
        /\ held \in [Workers -> Ops \cup {"none"}] /\ HeldByStep
    BY DEF Placement, PlaceTypes
  <1>1. ASSUME NEW o \in Ops, Create(o) PROVE ByRuntime' /\ NoSendDecided'
    BY <1>0, <1>1 DEF Create
  <1>2. ASSUME NEW o \in Ops, EnsureRuntime(o) PROVE ByRuntime' /\ NoSendDecided'
    BY <1>0, <1>2 DEF EnsureRuntime
  <1>3. ASSUME NEW o \in Ops, StartAsyncWorkers(o) PROVE ByRuntime' /\ NoSendDecided'
    <2>1. ByRuntime'
      BY <1>0, <1>3 DEF StartAsyncWorkers
    <2>2. NoSendDecided'
      BY <1>0, <1>3 DEF StartAsyncWorkers
    <2> QED BY <2>1, <2>2
  <1>4. ASSUME NEW o \in Ops, TryQueue(o) PROVE ByRuntime' /\ NoSendDecided'
    <2>1. ByRuntime'
      BY <1>0, <1>4 DEF TryQueue
    <2>2. NoSendDecided'
      BY <1>0, <1>4 DEF TryQueue
    <2> QED BY <2>1, <2>2
  <1>5. ASSUME NEW o \in Ops, QueueCanceled(o) PROVE ByRuntime' /\ NoSendDecided'
    <2>1. o \notin Elems(queue) /\ \A w \in Workers : held[w] # o
      BY <1>5 DEF QueueCanceled, Placement, PlacedAccepted, Placed
    <2>2. IF Canceled[o] THEN ClaimedBy(o, "owner", "cancelled")
          ELSE UNCHANGED <<completion, completer>>
      BY <1>0, <1>5, <2>1, ClaimEffect DEF QueueCanceled, CompletionTypes, Results
    <2>3. ByRuntime'
      BY <1>0, <1>5, <2>1, <2>2 DEF QueueCanceled, ClaimedBy, Placement, PlacedAccepted
    <2>4. NoSendDecided'
      BY <1>0, <1>5, <2>1, <2>2 DEF QueueCanceled, ClaimedBy, CompletionTypes
    <2> QED BY <2>3, <2>4
  <1>6. ASSUME NEW o \in Ops, BeginAsyncOperation(o) PROVE ByRuntime' /\ NoSendDecided'
    BY <1>0, <1>6 DEF BeginAsyncOperation
  <1>7. ASSUME NEW o \in Ops, EnqueueAsyncOperation(o)
        PROVE  ByRuntime' /\ NoSendDecided'
    <2>0. /\ Elems(queue') \subseteq Elems(queue) \cup {o}
          /\ owner[o] = "enqueue" /\ completer[o].by \notin {"worker", "drain"}
      <3>1. queue' = Append(queue, o) => Elems(queue') = Elems(queue) \cup {o}
        BY AppendElems DEF Placement, PlaceTypes
      <3> QED BY <1>7, <3>1 DEF EnqueueAsyncOperation
    <2>1. ByRuntime'
      BY <1>0, <1>7, <2>0 DEF EnqueueAsyncOperation
    <2>2. NoSendDecided'
      BY <1>0, <1>7, <2>0 DEF EnqueueAsyncOperation
    <2> QED BY <2>1, <2>2
  <1>8. ASSUME NEW o \in Ops, PostSemaphore(o) PROVE ByRuntime' /\ NoSendDecided'
    BY <1>0, <1>8 DEF PostSemaphore
  <1>9. ASSUME NEW o \in Ops, UndoQueue(o) PROVE ByRuntime' /\ NoSendDecided'
    BY <1>0, <1>9 DEF UndoQueue
  <1>10. ASSUME NEW o \in Ops, Release(o) PROVE ByRuntime' /\ NoSendDecided'
    BY <1>0, <1>10 DEF Release
  <1>11. ASSUME NEW o \in Ops, CancelSetFlag(o) PROVE ByRuntime' /\ NoSendDecided'
    BY <1>0, <1>11 DEF CancelSetFlag
  <1>12. ASSUME NEW o \in Ops, CancelPending(o) PROVE ByRuntime' /\ NoSendDecided'
    <2>1. \A w \in Workers : worker[w] = "sending" /\ held[w] = o => canceller[o] # "pending"
      OBVIOUS
    <2>2. IF canceller[o] = "pending" THEN ClaimedBy(o, "canceller", "cancelled")
          ELSE UNCHANGED <<completion, completer>>
      BY <1>0, <1>12, <2>1, ClaimEffect DEF CancelPending, CompletionTypes, Results
    <2>3. ByRuntime'
      BY <1>0, <1>12, <2>1, <2>2 DEF CancelPending, ClaimedBy, Placement, PlacedAccepted
    <2>4. NoSendDecided'
      BY <1>0, <1>12, <2>1, <2>2 DEF CancelPending, ClaimedBy, CompletionTypes
    <2> QED BY <2>3, <2>4
  <1>13. ASSUME NEW o \in Ops, CompleteOperation(o) PROVE ByRuntime' /\ NoSendDecided'
    <2>1. ByRuntime'
      BY <1>0, <1>13 DEF CompleteOperation, CompletionTypes
    <2>2. NoSendDecided'
      BY <1>0, <1>13 DEF CompleteOperation, CompletionTypes
    <2> QED BY <2>1, <2>2
  <1>14. ASSUME NEW w \in Workers, WaitForWork(w) PROVE ByRuntime' /\ NoSendDecided'
    BY <1>0, <1>14 DEF WaitForWork
  <1>15. ASSUME NEW w \in Workers, DequeueAsyncOperation(w)
        PROVE  ByRuntime' /\ NoSendDecided'
    <2>1. CASE queue = <<>>
      BY <1>0, <1>15, <2>1 DEF DequeueAsyncOperation
    <2>2. CASE queue # <<>>
      <3>1. /\ Head(queue) \in Ops /\ Head(queue) \in Elems(queue)
            /\ Elems(Tail(queue)) = Elems(queue) \ {Head(queue)}
        BY <2>2, TailElems DEF Placement, PlaceTypes, OnePlace
      <3>2. completer[Head(queue)].by \notin {"worker", "drain"}
        BY <3>1
      <3>3. /\ queue' = Tail(queue) /\ UNCHANGED <<owner, completer, completion, State, canceller>>
            /\ \A v \in Workers : /\ held'[v] = IF v = w THEN Head(queue) ELSE held[v]
                                  /\ worker'[v] = IF v = w THEN "run" ELSE worker[v]
        BY <1>0, <1>15, <2>2 DEF DequeueAsyncOperation
      <3>4. ByRuntime'
        BY <3>1, <3>2, <3>3
      <3>5. NoSendDecided'
        BY <3>3
      <3> QED BY <3>4, <3>5
    <2> QED BY <2>1, <2>2
  <1>16. ASSUME NEW w \in Workers, LeaveIfStopped(w) PROVE ByRuntime' /\ NoSendDecided'
    BY <1>0, <1>16 DEF LeaveIfStopped
  <1>17. ASSUME NEW w \in Workers, RunOperation(w) PROVE ByRuntime' /\ NoSendDecided'
    <2>1. /\ held[w] \in Ops /\ Placed(held[w]) /\ held[w] \notin Elems(queue)
          /\ \A v \in Workers : held[v] = held[w] => v = w
      BY <1>0, <1>17 DEF RunOperation, HeldByStep, Placement, OnePlace, Placed
    <2>2. IF worker[w] = "canceled?" /\ Canceled[held[w]] THEN ClaimedBy(held[w], "worker", "cancelled")
          ELSE UNCHANGED <<completion, completer>>
      BY <1>0, <1>17, <2>1, ClaimEffect DEF RunOperation, CompletionTypes, Results
    <2>3. ByRuntime'
      BY <1>0, <1>17, <2>1, <2>2 DEF RunOperation, ClaimedBy, Placement, PlacedAccepted
    <2>4. NoSendDecided'
      BY <1>0, <1>17, <2>1, <2>2 DEF RunOperation, ClaimedBy, CompletionTypes
    <2> QED BY <2>3, <2>4
  <1>18. ASSUME NEW w \in Workers, WorkerRoutine(w) PROVE ByRuntime' /\ NoSendDecided'
    <2>1. ASSUME ~Canceled[held[w]] PROVE completion[held[w]] = "none" /\ canceller[held[w]] = "idle"
      <3>1. held[w] \in Ops
        BY <1>0, <1>18 DEF WorkerRoutine
      <3>2. completer[held[w]].by \notin {"worker", "drain", "owner", "canceller"}
        BY <1>18, <2>1, <3>1 DEF WorkerRoutine
      <3>3. completer[held[w]].by \in {"nobody", "worker", "drain", "owner", "canceller"}
        BY <3>1 DEF CompletionTypes
      <3> QED BY <2>1, <3>1, <3>2, <3>3
    <2>2. ByRuntime'
      BY <1>0, <1>18 DEF WorkerRoutine
    <2>3. NoSendDecided'
      BY <1>0, <1>18, <2>1 DEF WorkerRoutine
    <2> QED BY <2>2, <2>3
  <1>19. ASSUME NEW w \in Workers, RoutineEnds(w) PROVE ByRuntime' /\ NoSendDecided'
    BY <1>0, <1>19 DEF RoutineEnds
  <1>20. ASSUME NEW w \in Workers, CompleteRun(w) PROVE ByRuntime' /\ NoSendDecided'
    <2>1. /\ held[w] \in Ops /\ Placed(held[w]) /\ held[w] \notin Elems(queue)
          /\ \A v \in Workers : held[v] = held[w] => v = w
      BY <1>0, <1>20 DEF CompleteRun, HeldByStep, Placement, OnePlace, Placed
    <2>2. ClaimedBy(held[w], "worker", result[w])
      BY <1>0, <1>20, <2>1, ClaimEffect DEF CompleteRun, CompletionTypes, Results
    <2>3. ByRuntime'
      BY <1>0, <1>20, <2>1, <2>2 DEF CompleteRun, ClaimedBy, Placement, PlacedAccepted
    <2>4. NoSendDecided'
      BY <1>0, <1>20, <2>1, <2>2 DEF CompleteRun, ClaimedBy, CompletionTypes
    <2> QED BY <2>3, <2>4
  <1>21. ASSUME NEW w \in Workers, ClearWorkerOperation(w)
        PROVE  ByRuntime' /\ NoSendDecided'
    <2>1. ByRuntime'
      BY <1>0, <1>21 DEF ClearWorkerOperation
    <2>2. NoSendDecided'
      BY <1>0, <1>21 DEF ClearWorkerOperation
    <2> QED BY <2>1, <2>2
  <1>22. ASSUME NEW w \in Workers, EndAsyncOperation(w)
        PROVE  ByRuntime' /\ NoSendDecided'
    BY <1>0, <1>22 DEF EndAsyncOperation
  <1>23. ASSUME Drain PROVE ByRuntime' /\ NoSendDecided'
    BY <1>0, <1>23 DEF Drain
  <1>24. ASSUME UnlinkAll PROVE ByRuntime' /\ NoSendDecided'
    <2>0. Elems(queue') = {}
      BY <1>24, EmptyElems DEF UnlinkAll
    <2>1. ByRuntime'
      BY <1>0, <1>24, <2>0 DEF UnlinkAll
    <2>2. NoSendDecided'
      BY <1>0, <1>24, <2>0 DEF UnlinkAll
    <2> QED BY <2>1, <2>2
  <1>25. ASSUME CompleteQueued PROVE ByRuntime' /\ NoSendDecided'
    <2>1. flushing # <<>> =>
          /\ Head(flushing) \in Ops /\ Placed(Head(flushing))
          /\ Head(flushing) \notin Elems(queue)
          /\ \A w \in Workers : held[w] # Head(flushing)
      BY TailElems DEF Placement, PlaceTypes, OnePlace, Placed
    <2>2. IF drain = "flush" /\ flushing # <<>> THEN ClaimedBy(Head(flushing), "drain", "cancelled")
          ELSE UNCHANGED <<completion, completer>>
      BY <1>0, <1>25, <2>1, ClaimEffect DEF CompleteQueued, CompletionTypes, Results
    <2>3. ByRuntime'
      BY <1>0, <1>25, <2>1, <2>2 DEF CompleteQueued, ClaimedBy, Placement, PlacedAccepted
    <2>4. NoSendDecided'
      BY <1>0, <1>25, <2>1, <2>2 DEF CompleteQueued, ClaimedBy, CompletionTypes
    <2> QED BY <2>3, <2>4
  <1>26. ASSUME CancelRunning PROVE ByRuntime' /\ NoSendDecided'
    BY <1>0, <1>26 DEF CancelRunning
  <1>27. ASSUME FinishDrain PROVE ByRuntime' /\ NoSendDecided'
    <2>0. queue' = queue
      BY <1>27 DEF FinishDrain, Placement, DrainPhases, RuntimePhases
    <2>1. ByRuntime'
      BY <1>0, <1>27, <2>0 DEF FinishDrain
    <2>2. NoSendDecided'
      BY <1>0, <1>27, <2>0 DEF FinishDrain
    <2> QED BY <2>1, <2>2
  <1>28. ASSUME CloseSession PROVE ByRuntime' /\ NoSendDecided'
    BY <1>0, <1>28 DEF CloseSession
  <1> QED
    BY <1>1, <1>2, <1>3, <1>4, <1>5, <1>6, <1>7, <1>8, <1>9, <1>10, <1>11, <1>12, <1>13, <1>14,
       <1>15, <1>16, <1>17, <1>18, <1>19, <1>20, <1>21, <1>22, <1>23, <1>24, <1>25, <1>26,
       <1>27, <1>28
    DEF Next, Sending, WorkerStep, DrainStep

\* What is accepted is in somebody's hands until it is completed.
LEMMA HandStep ==
    ASSUME Placement, Completions, Next
    PROVE  Unfinished' /\ InHand'
  <1> USE DEF shared, counters, workers, drainer, operation, Own, Work, Cancelling,
              Completions, Unfinished, InHand, HeldByStep, Holding, ToComplete, ToRun,
              Accepted
  <1>a. /\ owner \in [Ops -> OwnerPcs] /\ worker \in [Workers -> WorkerPcs]
        /\ held \in [Workers -> Ops \cup {"none"}] /\ HeldByStep
    BY DEF Placement, PlaceTypes
  <1>b. flushing # <<>> => /\ Head(flushing) \in Ops /\ Head(flushing) \in Elems(flushing)
                           /\ Elems(Tail(flushing)) = Elems(flushing) \ {Head(flushing)}
    BY TailElems DEF Placement, PlaceTypes, OnePlace
  <1>0. /\ owner \in [Ops -> OwnerPcs] /\ worker \in [Workers -> WorkerPcs]
        /\ held \in [Workers -> Ops \cup {"none"}] /\ HeldByStep
        /\ drain = "flushed" => flushing # <<>> /\ Head(flushing) \in Ops
    BY <1>a, <1>b DEF Placement, DrainPhases
  <1>1. ASSUME NEW o \in Ops, Create(o) PROVE Unfinished' /\ InHand'
    BY <1>0, <1>1 DEF Create
  <1>2. ASSUME NEW o \in Ops, EnsureRuntime(o) PROVE Unfinished' /\ InHand'
    BY <1>0, <1>2 DEF EnsureRuntime
  <1>3. ASSUME NEW o \in Ops, StartAsyncWorkers(o) PROVE Unfinished' /\ InHand'
    <2>1. \A w \in Workers : held[w] \notin Ops /\ worker[w] = "none"
      BY <1>0, <1>3 DEF StartAsyncWorkers, Placement, RuntimePhases
    <2>2. UNCHANGED <<completion, completer, held, queue, flushing, drain>>
      BY <1>3 DEF StartAsyncWorkers
    <2>3. \A p \in Ops : owner'[p] \in Accepted => owner'[p] = owner[p]
      BY <1>0, <1>3 DEF StartAsyncWorkers
    <2>4. Unfinished'
      BY <2>1, <2>2
    <2>5. InHand'
      BY <2>1, <2>2, <2>3
    <2> QED BY <2>4, <2>5
  <1>4. ASSUME NEW o \in Ops, TryQueue(o) PROVE Unfinished' /\ InHand'
    BY <1>0, <1>4 DEF TryQueue
  <1>5. ASSUME NEW o \in Ops, QueueCanceled(o) PROVE Unfinished' /\ InHand'
    <2>1. o \in Ops
      OBVIOUS
    <2>2. IF Canceled[o] THEN ClaimedBy(o, "owner", "cancelled")
          ELSE UNCHANGED <<completion, completer>>
      BY <1>0, <1>5, <2>1, ClaimEffect DEF QueueCanceled, CompletionTypes, Results
    <2>3. Unfinished'
      BY <1>0, <1>b, <1>5, <2>1, <2>2 DEF QueueCanceled, ClaimedBy, Returned, Claimed
    <2>4. InHand'
      BY <1>0, <1>b, <1>5, <2>1, <2>2 DEF QueueCanceled, ClaimedBy, Returned, Claimed
    <2> QED BY <2>3, <2>4
  <1>6. ASSUME NEW o \in Ops, BeginAsyncOperation(o) PROVE Unfinished' /\ InHand'
    BY <1>0, <1>6 DEF BeginAsyncOperation
  <1>7. ASSUME NEW o \in Ops, EnqueueAsyncOperation(o) PROVE Unfinished' /\ InHand'
    <2>0. /\ owner' = [owner EXCEPT ![o] = "post"] => Elems(queue') = Elems(queue) \cup {o}
          /\ owner' = [owner EXCEPT ![o] = "undo"] => queue' = queue
          /\ owner' = [owner EXCEPT ![o] = "undo"] \/ owner' = [owner EXCEPT ![o] = "post"]
      <3>1. queue' = Append(queue, o) => Elems(queue') = Elems(queue) \cup {o}
        BY AppendElems DEF Placement, PlaceTypes
      <3>2. [owner EXCEPT ![o] = "post"][o] = "post" /\ [owner EXCEPT ![o] = "undo"][o] = "undo"
        BY <1>0
      <3> QED BY <1>7, <3>1, <3>2 DEF EnqueueAsyncOperation
    <2>1. Unfinished'
      BY <1>0, <1>7, <2>0 DEF EnqueueAsyncOperation
    <2>2. InHand'
      BY <1>0, <1>7, <2>0 DEF EnqueueAsyncOperation
    <2> QED BY <2>1, <2>2
  <1>8. ASSUME NEW o \in Ops, PostSemaphore(o) PROVE Unfinished' /\ InHand'
    BY <1>0, <1>8 DEF PostSemaphore
  <1>9. ASSUME NEW o \in Ops, UndoQueue(o) PROVE Unfinished' /\ InHand'
    BY <1>0, <1>9 DEF UndoQueue
  <1>10. ASSUME NEW o \in Ops, Release(o) PROVE Unfinished' /\ InHand'
    BY <1>0, <1>10 DEF Release
  <1>11. ASSUME NEW o \in Ops, CancelSetFlag(o) PROVE Unfinished' /\ InHand'
    BY <1>0, <1>11 DEF CancelSetFlag
  <1>12. ASSUME NEW o \in Ops, CancelPending(o) PROVE Unfinished' /\ InHand'
    <2>1. o \in Ops
      OBVIOUS
    <2>2. IF canceller[o] = "pending" THEN ClaimedBy(o, "canceller", "cancelled")
          ELSE UNCHANGED <<completion, completer>>
      BY <1>0, <1>12, <2>1, ClaimEffect DEF CancelPending, CompletionTypes, Results
    <2>3. Unfinished'
      BY <1>0, <1>b, <1>12, <2>1, <2>2 DEF CancelPending, ClaimedBy, Returned, Claimed
    <2>4. InHand'
      BY <1>0, <1>b, <1>12, <2>1, <2>2 DEF CancelPending, ClaimedBy, Returned, Claimed
    <2> QED BY <2>3, <2>4
  <1>13. ASSUME NEW o \in Ops, CompleteOperation(o) PROVE Unfinished' /\ InHand'
    <2>1. Unfinished'
      BY <1>0, <1>13 DEF CompleteOperation, CompletionTypes
    <2>2. InHand'
      BY <1>0, <1>13 DEF CompleteOperation, CompletionTypes
    <2> QED BY <2>1, <2>2
  <1>14. ASSUME NEW w \in Workers, WaitForWork(w) PROVE Unfinished' /\ InHand'
    BY <1>0, <1>14 DEF WaitForWork
  <1>15. ASSUME NEW w \in Workers, DequeueAsyncOperation(w) PROVE Unfinished' /\ InHand'
    <2>1. CASE queue = <<>>
      BY <1>0, <1>15, <2>1 DEF DequeueAsyncOperation
    <2>2. CASE queue # <<>>
      <3>1. /\ Head(queue) \in Ops /\ Head(queue) \in Elems(queue)
            /\ Elems(Tail(queue)) = Elems(queue) \ {Head(queue)}
        BY <2>2, TailElems DEF Placement, PlaceTypes, OnePlace
      <3>3. /\ queue' = Tail(queue)
            /\ UNCHANGED <<owner, completer, completion, drain, flushing>>
            /\ \A v \in Workers : /\ held'[v] = IF v = w THEN Head(queue) ELSE held[v]
                                  /\ worker'[v] = IF v = w THEN "run" ELSE worker[v]
            /\ worker[w] = "dequeue" /\ held[w] \notin Ops
        BY <1>0, <1>15, <2>2 DEF DequeueAsyncOperation
      <3>4. Unfinished'
        BY <3>1, <3>3
      <3>5. InHand'
        BY <3>1, <3>3
      <3> QED BY <3>4, <3>5
    <2> QED BY <2>1, <2>2
  <1>16. ASSUME NEW w \in Workers, LeaveIfStopped(w) PROVE Unfinished' /\ InHand'
    BY <1>0, <1>16 DEF LeaveIfStopped
  <1>17. ASSUME NEW w \in Workers, RunOperation(w) PROVE Unfinished' /\ InHand'
    <2>1. /\ held[w] \in Ops
          /\ \A v \in Workers : held[v] = held[w] => v = w
      BY <1>0, <1>17 DEF RunOperation, Placement, OnePlace
    <2>2. IF worker[w] = "canceled?" /\ Canceled[held[w]] THEN ClaimedBy(held[w], "worker", "cancelled")
          ELSE UNCHANGED <<completion, completer>>
      BY <1>0, <1>17, <2>1, ClaimEffect DEF RunOperation, CompletionTypes, Results
    <2>3. Unfinished'
      BY <1>0, <1>b, <1>17, <2>1, <2>2 DEF RunOperation, ClaimedBy, Returned, Claimed
    <2>4. InHand'
      BY <1>0, <1>b, <1>17, <2>1, <2>2 DEF RunOperation, ClaimedBy, Returned, Claimed
    <2> QED BY <2>3, <2>4
  <1>18. ASSUME NEW w \in Workers, WorkerRoutine(w) PROVE Unfinished' /\ InHand'
    BY <1>0, <1>18 DEF WorkerRoutine
  <1>19. ASSUME NEW w \in Workers, RoutineEnds(w) PROVE Unfinished' /\ InHand'
    BY <1>0, <1>19 DEF RoutineEnds
  <1>20. ASSUME NEW w \in Workers, CompleteRun(w) PROVE Unfinished' /\ InHand'
    <2>1. /\ held[w] \in Ops
          /\ \A v \in Workers : held[v] = held[w] => v = w
      BY <1>0, <1>20 DEF CompleteRun, Placement, OnePlace
    <2>2. ClaimedBy(held[w], "worker", result[w])
      BY <1>0, <1>20, <2>1, ClaimEffect DEF CompleteRun, CompletionTypes, Results
    <2>3. Unfinished'
      BY <1>0, <1>b, <1>20, <2>1, <2>2 DEF CompleteRun, ClaimedBy, Returned, Claimed
    <2>4. InHand'
      BY <1>0, <1>b, <1>20, <2>1, <2>2 DEF CompleteRun, ClaimedBy, Returned, Claimed
    <2> QED BY <2>3, <2>4
  <1>21. ASSUME NEW w \in Workers, ClearWorkerOperation(w) PROVE Unfinished' /\ InHand'
    <2>1. Unfinished'
      BY <1>0, <1>21 DEF ClearWorkerOperation, Returned, Placement, OnePlace
    <2>2. InHand'
      BY <1>0, <1>21 DEF ClearWorkerOperation, Returned, Placement, OnePlace
    <2> QED BY <2>1, <2>2
  <1>22. ASSUME NEW w \in Workers, EndAsyncOperation(w) PROVE Unfinished' /\ InHand'
    BY <1>0, <1>22 DEF EndAsyncOperation
  <1>23. ASSUME Drain PROVE Unfinished' /\ InHand'
    BY <1>0, <1>23 DEF Drain
  <1>24. ASSUME UnlinkAll PROVE Unfinished' /\ InHand'
    <2>0. Elems(queue') = {} /\ flushing = <<>> /\ Elems(flushing) = {}
      BY <1>24, EmptyElems DEF UnlinkAll, Placement, DrainPhases, FlushPcs
    <2>1. Unfinished'
      BY <1>0, <1>24, <2>0 DEF UnlinkAll
    <2>2. InHand'
      BY <1>0, <1>24, <2>0 DEF UnlinkAll
    <2> QED BY <2>1, <2>2
  <1>25. ASSUME CompleteQueued PROVE Unfinished' /\ InHand'
    <2>1. UNCHANGED <<owner, worker, held, queue>>
      BY <1>25 DEF CompleteQueued
    <2>2. CASE drain = "flush" /\ flushing # <<>>
      <3>1. flushing' = flushing /\ ClaimedBy(Head(flushing), "drain", "cancelled")
        BY <1>b, <1>25, <2>2, ClaimEffect DEF CompleteQueued, CompletionTypes, Results
      <3>2. drain' = "flushed"
        BY <1>25, <2>2 DEF CompleteQueued
      <3>3. Unfinished'
        BY <2>1, <2>2, <3>1, <3>2 DEF ClaimedBy
      <3>4. InHand'
        BY <1>b, <2>1, <2>2, <3>1, <3>2 DEF ClaimedBy
      <3> QED BY <3>3, <3>4
    <2>3. CASE drain = "flushed"
      <3>1. /\ flushing' = Tail(flushing) /\ drain' = "flushEnd"
            /\ Returned(Head(flushing), "drain") /\ UNCHANGED <<completion, completer>>
        BY <1>25, <2>3 DEF CompleteQueued
      <3>2. Unfinished'
        BY <1>0, <2>1, <2>3, <3>1 DEF Returned
      <3>3. InHand'
        BY <1>0, <1>b, <2>1, <2>3, <3>1
      <3> QED BY <3>2, <3>3
    <2>4. CASE drain # "flushed" /\ ~(drain = "flush" /\ flushing # <<>>)
      BY <1>25, <2>1, <2>4 DEF CompleteQueued
    <2> QED BY <2>2, <2>3, <2>4
  <1>26. ASSUME CancelRunning PROVE Unfinished' /\ InHand'
    BY <1>0, <1>26 DEF CancelRunning
  <1>27. ASSUME FinishDrain PROVE Unfinished' /\ InHand'
    <2>0. queue' = queue
      BY <1>27 DEF FinishDrain, Placement, DrainPhases, RuntimePhases
    <2>1. Unfinished'
      BY <1>0, <1>27, <2>0 DEF FinishDrain
    <2>2. InHand'
      BY <1>0, <1>27, <2>0 DEF FinishDrain
    <2> QED BY <2>1, <2>2
  <1>28. ASSUME CloseSession PROVE Unfinished' /\ InHand'
    BY <1>0, <1>28 DEF CloseSession
  <1> QED
    BY <1>1, <1>2, <1>3, <1>4, <1>5, <1>6, <1>7, <1>8, <1>9, <1>10, <1>11, <1>12, <1>13, <1>14,
       <1>15, <1>16, <1>17, <1>18, <1>19, <1>20, <1>21, <1>22, <1>23, <1>24, <1>25, <1>26,
       <1>27, <1>28
    DEF Next, Sending, WorkerStep, DrainStep

-----------------------------------------------------------------------------
(* The permits of the semaphore.                                           *)

\* The counts are numbers.
LEMMA PermitCounts ==
    /\ Cardinality(Workers) \in Nat
    /\ IsFiniteSet(Dequeuing) /\ Cardinality(Dequeuing) \in Nat
    /\ IsFiniteSet(Posting) /\ Cardinality(Posting) \in Nat
  <1>1. Dequeuing \subseteq Workers /\ Posting \subseteq Ops
    BY DEF Dequeuing, Posting
  <1>2. IsFiniteSet(Dequeuing) /\ IsFiniteSet(Posting)
    BY <1>1, AsyncAssumption, FS_Subset
  <1> QED BY <1>2, AsyncAssumption, FS_CardinalityType

\* At first there is no permit.
LEMMA PermitsInit == Init => PermitsBounded
  BY AsyncAssumption DEF Init, PermitsBounded

\* A step that has nothing to do with the semaphore.
LEMMA PermitsFrame ==
    ASSUME PermitsBounded, UNCHANGED <<semaphore, drains, runtime, stopped, drain, queue>>,
           Dequeuing' = Dequeuing, Posting' = Posting
    PROVE  PermitsBounded'
  BY DEF PermitsBounded, Permits

\* With the one drain of an unload, the permits of the queue and of the wake-up are all
\* there ever are.
LEMMA PermitsStep ==
    ASSUME MaxDrains <= 1, Placement, PermitsBounded, Next
    PROVE  PermitsBounded'
  <1> USE DEF shared, counters, workers, drainer, operation, Own, Work
  <1>a. /\ owner \in [Ops -> OwnerPcs] /\ worker \in [Workers -> WorkerPcs]
        /\ queue \in Seq(Ops) /\ Len(queue) \in Nat /\ Len(queue) <= MaxQueueDepth
        /\ MaxQueueDepth \in Nat /\ MaxDrains \in Nat
    BY AsyncAssumption DEF Placement, PlaceTypes
  <1>b. Cardinality(Dequeuing) \in Nat /\ Cardinality(Posting) \in Nat /\ Cardinality(Workers) \in Nat
    BY PermitCounts
  <1>c. UNCHANGED worker => Dequeuing' = Dequeuing
    BY DEF Dequeuing
  <1>d. UNCHANGED owner => Posting' = Posting
    BY DEF Posting
  <1>1. ASSUME NEW o \in Ops, Create(o) PROVE PermitsBounded'
    <2>1. Posting' = Posting
      BY <1>a, <1>1 DEF Create, Posting
    <2> QED BY <1>1, <1>c, <2>1, PermitsFrame DEF Create
  <1>2. ASSUME NEW o \in Ops, EnsureRuntime(o) PROVE PermitsBounded'
    <2>1. Posting' = Posting
      BY <1>a, <1>2 DEF EnsureRuntime, Posting
    <2> QED BY <1>2, <1>c, <2>1 DEF EnsureRuntime, PermitsBounded, Permits
  <1>3. ASSUME NEW o \in Ops, StartAsyncWorkers(o) PROVE PermitsBounded'
    <2>1. semaphore = 0 /\ runtime = 1 /\ queue = <<>> /\ drain = "idle" /\ ~stopped
      BY <1>3 DEF StartAsyncWorkers, Placement, RuntimePhases, PermitsBounded
    <2>2. Dequeuing' = {}
      BY <1>3 DEF StartAsyncWorkers, Dequeuing
    <2>3. Posting' = {}
      BY <1>a, <1>3, <2>1 DEF StartAsyncWorkers, Posting, Placement, RuntimePhases, Outside
    <2>4. Cardinality(Dequeuing') = 0 /\ Cardinality(Posting') = 0 /\ Len(queue) = 0
      BY <2>1, <2>2, <2>3, FS_EmptySet, EmptyElems
    <2> QED BY <1>b, <1>3, <2>1, <2>4 DEF StartAsyncWorkers, PermitsBounded, Permits
  <1>4. ASSUME NEW o \in Ops, TryQueue(o) PROVE PermitsBounded'
    <2>1. Posting' = Posting
      BY <1>a, <1>4 DEF TryQueue, Posting
    <2> QED BY <1>4, <1>c, <2>1, PermitsFrame DEF TryQueue
  <1>5. ASSUME NEW o \in Ops, QueueCanceled(o) PROVE PermitsBounded'
    <2>1. Posting' = Posting
      BY <1>a, <1>5 DEF QueueCanceled, Posting
    <2> QED BY <1>5, <1>c, <2>1, PermitsFrame DEF QueueCanceled
  <1>6. ASSUME NEW o \in Ops, BeginAsyncOperation(o) PROVE PermitsBounded'
    <2>1. Posting' = Posting
      BY <1>a, <1>6 DEF BeginAsyncOperation, Posting
    <2> QED BY <1>6, <1>c, <2>1, PermitsFrame DEF BeginAsyncOperation
  <1>7. ASSUME NEW o \in Ops, EnqueueAsyncOperation(o) PROVE PermitsBounded'
    <2>1. CASE queue' = queue /\ owner' = [owner EXCEPT ![o] = "undo"]
      <3>1. Posting' = Posting
        BY <1>a, <1>7, <2>1 DEF EnqueueAsyncOperation, Posting
      <3> QED BY <1>7, <1>c, <2>1, <3>1, PermitsFrame DEF EnqueueAsyncOperation
    <2>2. CASE ~stopped /\ queue' = Append(queue, o) /\ owner' = [owner EXCEPT ![o] = "post"]
      <3>1. Posting' = Posting \cup {o} /\ o \notin Posting
        BY <1>a, <1>7, <2>2 DEF EnqueueAsyncOperation, Posting
      <3>2. Cardinality(Posting') = Cardinality(Posting) + 1
        BY <3>1, PermitCounts, FS_AddElement
      <3>3. Len(queue') = Len(queue) + 1
        BY <1>a, <2>2
      <3>4. runtime = 2
        BY <1>7, <2>2 DEF EnqueueAsyncOperation, Placement, PlaceTypes, RuntimePhases, Outside
      <3>5. UNCHANGED <<semaphore, drains, runtime, stopped, drain>> /\ Dequeuing' = Dequeuing
        BY <1>c, <1>7 DEF EnqueueAsyncOperation
      <3> QED BY <1>a, <1>b, <2>2, <3>2, <3>3, <3>4, <3>5 DEF PermitsBounded, Permits
    <2> QED BY <1>7, <2>1, <2>2 DEF EnqueueAsyncOperation
  <1>8. ASSUME NEW o \in Ops, PostSemaphore(o) PROVE PermitsBounded'
    <2>1. Posting' = Posting \ {o} /\ o \in Posting
      BY <1>a, <1>8 DEF PostSemaphore, Posting
    <2>2. Cardinality(Posting') = Cardinality(Posting) - 1
      BY <2>1, PermitCounts, FS_RemoveElement
    <2>3. Permits' = Permits /\ runtime \notin {0, 1} /\ semaphore' \in Nat
      <3>1. semaphore \in Nat /\ semaphore' = semaphore + 1 /\ worker' = worker
        BY <1>8 DEF PostSemaphore, PermitsBounded
      <3>2. runtime \notin {0, 1}
        BY <1>8 DEF PostSemaphore, Placement, RuntimePhases, Outside
      <3>3. Permits' = Permits
        BY <1>b, <1>c, <2>2, <3>1 DEF Permits
      <3> QED BY <3>1, <3>2, <3>3
    <2> QED BY <1>8, <2>3 DEF PostSemaphore, PermitsBounded
  <1>9. ASSUME NEW o \in Ops, UndoQueue(o) PROVE PermitsBounded'
    <2>1. Posting' = Posting
      BY <1>a, <1>9 DEF UndoQueue, Posting
    <2> QED BY <1>9, <1>c, <2>1, PermitsFrame DEF UndoQueue
  <1>10. ASSUME NEW o \in Ops, Release(o) PROVE PermitsBounded'
    <2>1. Posting' = Posting
      BY <1>a, <1>10 DEF Release, Posting
    <2> QED BY <1>10, <1>c, <2>1, PermitsFrame DEF Release
  <1>11. ASSUME NEW o \in Ops, CancelSetFlag(o) PROVE PermitsBounded'
    BY <1>c, <1>d, <1>11, PermitsFrame DEF CancelSetFlag
  <1>12. ASSUME NEW o \in Ops, CancelPending(o) PROVE PermitsBounded'
    BY <1>c, <1>d, <1>12, PermitsFrame DEF CancelPending
  <1>13. ASSUME NEW o \in Ops, CompleteOperation(o) PROVE PermitsBounded'
    BY <1>c, <1>d, <1>13, PermitsFrame DEF CompleteOperation
  <1>14. ASSUME NEW w \in Workers, WaitForWork(w) PROVE PermitsBounded'
    <2>1. Dequeuing' = Dequeuing \cup {w} /\ w \notin Dequeuing
      BY <1>a, <1>14 DEF WaitForWork, Dequeuing
    <2>2. Cardinality(Dequeuing') = Cardinality(Dequeuing) + 1
      BY <2>1, PermitCounts, FS_AddElement
    <2>3. Permits' = Permits /\ runtime \notin {0, 1} /\ semaphore' \in Nat
      <3>1. semaphore \in Nat /\ semaphore > 0 /\ semaphore' = semaphore - 1 /\ owner' = owner
        BY <1>14 DEF WaitForWork, PermitsBounded
      <3>2. runtime \notin {0, 1}
        BY <1>14 DEF WaitForWork, Placement, RuntimePhases
      <3>3. Permits' = Permits
        BY <1>b, <1>d, <2>2, <3>1 DEF Permits
      <3> QED BY <3>1, <3>2, <3>3
    <2> QED BY <1>14, <2>3 DEF WaitForWork, PermitsBounded
  <1>15. ASSUME NEW w \in Workers, DequeueAsyncOperation(w) PROVE PermitsBounded'
    <2>1. Dequeuing' = Dequeuing \ {w} /\ w \in Dequeuing
      BY <1>a, <1>15 DEF DequeueAsyncOperation, Dequeuing
    <2>2. Cardinality(Dequeuing') = Cardinality(Dequeuing) - 1
      BY <2>1, PermitCounts, FS_RemoveElement
    <2>3. UNCHANGED <<semaphore, drains, runtime, stopped, drain>> /\ Posting' = Posting
      BY <1>d, <1>15 DEF DequeueAsyncOperation
    <2>4. Permits' = Permits - 1 /\ Permits \in Nat
      <3>1. semaphore \in Nat /\ semaphore' = semaphore
        BY <2>3 DEF PermitsBounded
      <3>2. Permits \in Nat
        BY <1>b, <3>1 DEF Permits
      <3>3. Permits' = semaphore + (Cardinality(Dequeuing) - 1) + Cardinality(Posting)
        BY <2>2, <2>3, <3>1 DEF Permits
      <3> QED BY <1>b, <3>1, <3>2, <3>3 DEF Permits
    <2>5. Len(queue') \in Nat /\ Len(queue') >= Len(queue) - 1
      BY <1>a, <1>15 DEF DequeueAsyncOperation
    <2> QED BY <1>a, <1>b, <2>3, <2>4, <2>5 DEF PermitsBounded
  <1>16. ASSUME NEW w \in Workers, LeaveIfStopped(w) PROVE PermitsBounded'
    <2>1. Dequeuing' = Dequeuing
      BY <1>a, <1>16 DEF LeaveIfStopped, Dequeuing
    <2> QED BY <1>16, <1>d, <2>1, PermitsFrame DEF LeaveIfStopped
  <1>17. ASSUME NEW w \in Workers, RunOperation(w) PROVE PermitsBounded'
    <2>1. Dequeuing' = Dequeuing
      BY <1>a, <1>17 DEF RunOperation, Dequeuing
    <2> QED BY <1>17, <1>d, <2>1, PermitsFrame DEF RunOperation
  <1>18. ASSUME NEW w \in Workers, WorkerRoutine(w) PROVE PermitsBounded'
    <2>1. Dequeuing' = Dequeuing
      BY <1>a, <1>18 DEF WorkerRoutine, Dequeuing
    <2> QED BY <1>18, <1>d, <2>1, PermitsFrame DEF WorkerRoutine
  <1>19. ASSUME NEW w \in Workers, RoutineEnds(w) PROVE PermitsBounded'
    <2>1. Dequeuing' = Dequeuing
      BY <1>a, <1>19 DEF RoutineEnds, Dequeuing
    <2> QED BY <1>19, <1>d, <2>1, PermitsFrame DEF RoutineEnds
  <1>20. ASSUME NEW w \in Workers, CompleteRun(w) PROVE PermitsBounded'
    <2>1. Dequeuing' = Dequeuing
      BY <1>a, <1>20 DEF CompleteRun, Dequeuing
    <2> QED BY <1>20, <1>d, <2>1, PermitsFrame DEF CompleteRun
  <1>21. ASSUME NEW w \in Workers, ClearWorkerOperation(w) PROVE PermitsBounded'
    <2>1. Dequeuing' = Dequeuing
      BY <1>a, <1>21 DEF ClearWorkerOperation, Dequeuing
    <2> QED BY <1>21, <1>d, <2>1, PermitsFrame DEF ClearWorkerOperation
  <1>22. ASSUME NEW w \in Workers, EndAsyncOperation(w) PROVE PermitsBounded'
    <2>1. Dequeuing' = Dequeuing
      BY <1>a, <1>22 DEF EndAsyncOperation, Dequeuing
    <2> QED BY <1>22, <1>d, <2>1, PermitsFrame DEF EndAsyncOperation
  <1>23. ASSUME Drain PROVE PermitsBounded'
    <2>1. Permits' = Permits /\ UNCHANGED <<runtime, semaphore>>
      BY <1>c, <1>d, <1>23 DEF Drain, Permits
    <2>2. drains = 0 /\ drains' = 1 /\ drains' \in 0 .. MaxDrains
      BY <1>a, <1>23 DEF Drain, PermitsBounded
    <2>3. CASE runtime = 2
      <3>1. ~stopped /\ Permits <= Len(queue)
        BY <1>23, <2>2, <2>3 DEF Drain, PermitsBounded, FlushPcs
      <3>2. Permits <= MaxQueueDepth
        BY <1>a, <1>b, <3>1 DEF Permits, PermitsBounded
      <3> QED BY <1>23, <2>1, <2>2, <2>3, <3>2 DEF Drain, PermitsBounded
    <2>4. CASE runtime # 2
      BY <1>23, <2>1, <2>2, <2>4 DEF Drain, PermitsBounded
    <2> QED BY <2>3, <2>4
  <1>24. ASSUME UnlinkAll PROVE PermitsBounded'
    <2>1. Permits' = Permits /\ UNCHANGED <<runtime, semaphore, stopped, drains>>
      BY <1>c, <1>d, <1>24 DEF UnlinkAll, Permits
    <2>2. drain \in FlushPcs \cup {"unlink"} /\ drain' \in FlushPcs \cup {"cancel"} /\ stopped
      BY <1>24 DEF UnlinkAll, FlushPcs, Placement, RuntimePhases
    <2> QED BY <2>1, <2>2 DEF PermitsBounded, FlushPcs
  <1>25. ASSUME CompleteQueued PROVE PermitsBounded'
    <2>1. Permits' = Permits /\ UNCHANGED <<runtime, semaphore, stopped, drains>>
      BY <1>c, <1>d, <1>25 DEF CompleteQueued, Permits
    <2>2. drain \in FlushPcs \cup {"unlink"} /\ drain' \in FlushPcs \cup {"cancel"} /\ stopped
      BY <1>25 DEF CompleteQueued, FlushPcs, Placement, RuntimePhases
    <2> QED BY <2>1, <2>2 DEF PermitsBounded, FlushPcs
  <1>26. ASSUME CancelRunning PROVE PermitsBounded'
    <2>1. /\ UNCHANGED <<runtime, stopped, drains>> /\ stopped /\ runtime = 2 /\ drains = 1
          /\ Dequeuing' = Dequeuing /\ Posting' = Posting
      BY <1>a, <1>c, <1>d, <1>26 DEF CancelRunning, Placement, RuntimePhases, PermitsBounded
    <2>2. CASE drain = "cancel"
      BY <1>26, <2>1, <2>2 DEF CancelRunning, PermitsBounded, Permits
    <2>3. CASE drain = "wake"
      <3>1. /\ Permits' = Permits + Cardinality(Workers) /\ drain' = "wait"
            /\ semaphore' = semaphore + Cardinality(Workers)
        BY <1>b, <1>26, <2>1, <2>3 DEF CancelRunning, Permits, PermitsBounded
      <3>2. Permits <= MaxQueueDepth /\ Permits \in Nat
        BY <1>b, <2>1, <2>3 DEF PermitsBounded, Permits
      <3> QED BY <1>a, <1>b, <2>1, <3>1, <3>2 DEF PermitsBounded, FlushPcs
    <2> QED BY <1>26, <2>2, <2>3 DEF CancelRunning
  <1>27. ASSUME FinishDrain PROVE PermitsBounded'
    <2>1. Permits' = Permits /\ UNCHANGED <<semaphore, stopped, drains>> /\ stopped
      BY <1>c, <1>d, <1>27 DEF FinishDrain, Permits, Placement, RuntimePhases
    <2>2. drain \in {"wait", "join"} /\ drain' \in {"join", "idle"} /\ runtime' \in {runtime, 3}
      BY <1>27 DEF FinishDrain
    <2> QED BY <2>1, <2>2 DEF PermitsBounded, FlushPcs
  <1>28. ASSUME CloseSession PROVE PermitsBounded'
    BY <1>c, <1>d, <1>28, PermitsFrame DEF CloseSession
  <1> QED
    BY <1>1, <1>2, <1>3, <1>4, <1>5, <1>6, <1>7, <1>8, <1>9, <1>10, <1>11, <1>12, <1>13, <1>14,
       <1>15, <1>16, <1>17, <1>18, <1>19, <1>20, <1>21, <1>22, <1>23, <1>24, <1>25, <1>26,
       <1>27, <1>28
    DEF Next, Sending, WorkerStep, DrainStep

-----------------------------------------------------------------------------
(* The invariant of the runtime.                                           *)

AsyncInv == Placement /\ References /\ SessionLedger /\ Completions

\* The inductive invariant of the runtime, for any number of operations, workers and
\* drains: where an operation is, who holds references on it, what the session counts,
\* and who decided it.
THEOREM AsyncInvariant == Spec => []AsyncInv
  <1>1. Init => AsyncInv
    BY PlacementInit, ReferencesInit, SessionInit, CompletionsInit DEF AsyncInv
  <1>2. ASSUME AsyncInv, Next PROVE AsyncInv'
    <2>1. Placement' /\ References' /\ SessionLedger'
      BY <1>2, PlacementStep, ReferencesStep, SessionStep DEF AsyncInv
    <2>2. Completions'
      BY <1>2, DecisionStep, SendingStep, HandStep DEF AsyncInv, Completions
    <2> QED BY <2>1, <2>2 DEF AsyncInv
  <1>3. ASSUME AsyncInv, UNCHANGED vars PROVE AsyncInv'
    <2> USE DEF vars, operation, shared, counters, workers, drainer, sessions
    <2>1. Placement'
      BY <1>3 DEF AsyncInv, Placement, PlaceTypes, OnePlace, HeldByStep, PlacedAccepted, Placed,
                  RuntimePhases, DrainPhases, WorkersLeft
    <2>2. References'
      BY <1>3, PlacedFrame DEF AsyncInv, References, RefTypes, Lives, RefsExact, RefsOf
    <2>3. SessionLedger'
      BY <1>3 DEF AsyncInv, SessionLedger
    <2>4. Completions'
      BY <1>3 DEF AsyncInv, Completions, CompletionTypes, Claimed, ByCancel, ByRuntime,
                  NoSendDecided, Unfinished, InHand
    <2> QED BY <2>1, <2>2, <2>3, <2>4 DEF AsyncInv
  <1> QED BY <1>1, <1>2, <1>3, PTL DEF Spec

\* The count of references as the property states it: how often the operation is in
\* each of the two lists, and by how many workers it is held.
LEMMA CountedReferences == AsyncInv => ReferencesExact
  <1> SUFFICES ASSUME AsyncInv, NEW o \in Ops
               PROVE  /\ memory[o] # "none" =>
                            ReferenceCount[o] = (IF Closed[o] THEN 0 ELSE 1)
                                  + Times(o, queue) + Times(o, flushing)
                                  + Cardinality(Holders(o))
                                  + (IF owner[o] \in Queueing THEN 1 ELSE 0)
                      /\ memory[o] = "live" <=> ReferenceCount[o] > 0
    BY DEF ReferencesExact
  <1> USE DEF AsyncInv
  <1>1. /\ Times(o, queue) = IF o \in Elems(queue) THEN 1 ELSE 0
        /\ Times(o, flushing) = IF o \in Elems(flushing) THEN 1 ELSE 0
    BY TimesOnce DEF Placement, PlaceTypes, OnePlace
  <1>2. Cardinality(Holders(o)) = IF \E w \in Workers : held[w] = o THEN 1 ELSE 0
    <2>1. CASE \E w \in Workers : held[w] = o
      <3>1. PICK w \in Workers : held[w] = o
        BY <2>1
      <3>2. Holders(o) = {w}
        BY <3>1 DEF Holders, Placement, OnePlace
      <3> QED BY <2>1, <3>2, FS_Singleton
    <2>2. CASE ~\E w \in Workers : held[w] = o
      <3>1. Holders(o) = {}
        BY <2>2 DEF Holders
      <3> QED BY <2>2, <3>1, FS_EmptySet
    <2> QED BY <2>1, <2>2
  <1>3. /\ o \in Elems(queue) => o \notin Elems(flushing) /\ \A w \in Workers : held[w] # o
        /\ o \in Elems(flushing) => \A w \in Workers : held[w] # o
    BY DEF Placement, OnePlace
  <1>4. (IF Placed(o) THEN 1 ELSE 0) = Times(o, queue) + Times(o,
  flushing) + Cardinality(Holders(o))
    BY <1>1, <1>2, <1>3 DEF Placed
  <1>5. memory[o] # "none" => ReferenceCount[o] = RefsOf(o)
    BY DEF References, RefsExact
  <1>6. Times(o, queue) \in Nat /\ Times(o, flushing) \in Nat /\ Cardinality(Holders(o)) \in Nat
    BY <1>1, <1>2
  <1>7. memory[o] = "live" <=> ReferenceCount[o] > 0
    BY DEF References, Lives
  <1> QED BY <1>4, <1>5, <1>6, <1>7 DEF RefsOf

\* Nothing is freed under those who use it: an operation has exactly the references of
\* those who have it, and the session outlives every send on it (KhSessionClose).
THEOREM SessionSafe == Spec => []SessionOutlivesSend
  <1>1. AsyncInv => SessionOutlivesSend
    <2> SUFFICES ASSUME AsyncInv PROVE SessionOutlivesSend
      OBVIOUS
    <2>1. ASSUME session = "closed", NEW w \in Workers PROVE worker[w] # "sending"
      <3>1. worker[w] = "sending" => held[w] \in Ops /\ ~ended[held[w]]
        BY DEF AsyncInv, Placement, HeldByStep, Holding, ToComplete, ToRun, SessionLedger
      <3> QED BY <2>1, <3>1 DEF AsyncInv, SessionLedger
    <2> QED BY <2>1, CountedReferences DEF SessionOutlivesSend, AsyncInv, SessionLedger
  <1> QED BY <1>1, AsyncInvariant, PTL

\* The same fact with the counts of the property.
LEMMA InSomebodysHands == AsyncInv => SomebodyCompletes
  <1> SUFFICES ASSUME AsyncInv, NEW o \in Ops, owner[o] \in {"post", "ready", "released"},
                      completion[o] = "none"
               PROVE  \/ Times(o, queue) = 1
                      \/ Times(o, flushing) = 1
                      \/ \E w \in Holders(o) :
                           worker[w] \in {"run", "canceled?", "start", "routine", "sending", "complete"}
    BY DEF SomebodyCompletes
  <1>1. /\ Times(o, queue) = IF o \in Elems(queue) THEN 1 ELSE 0
        /\ Times(o, flushing) = IF o \in Elems(flushing) THEN 1 ELSE 0
    BY TimesOnce DEF AsyncInv, Placement, PlaceTypes, OnePlace
  <1>2. \/ o \in Elems(queue)
        \/ o \in Elems(flushing)
        \/ \E w \in Workers : held[w] = o /\ worker[w] \in ToComplete
    BY DEF AsyncInv, Completions, InHand, Accepted
  <1> QED BY <1>1, <1>2 DEF Holders, ToComplete, ToRun

\* However often the runtime is drained, an accepted operation that nobody has completed
\* is in the queue, on the list of the drain or with a worker that will complete it.
THEOREM NothingForgotten == Spec => []SomebodyCompletes
  BY AsyncInvariant, InSomebodysHands, PTL

\* After a successful drain nothing is left to do.
LEMMA JoinedIsQuiet ==
    ASSUME AsyncInv, drained = "joined"
    PROVE  /\ WorkersLeft = {}
           /\ queue = <<>> /\ flushing = <<>>
           /\ \A o \in Ops : owner[o] \in {"post", "ready", "released"} =>
                 \/ completion[o] = "done"
                 \/ completer[o].by \in {"owner", "canceller"}
  <1>1. /\ WorkersLeft = {} /\ runtime = 3 /\ stopped /\ drain = "idle"
        /\ queue = <<>> /\ flushing = <<>>
    BY DEF AsyncInv, Placement, RuntimePhases, DrainPhases, FlushPcs
  <1>2. \A w \in Workers : worker[w] \in {"none", "exited"} /\ held[w] \notin Ops
    BY <1>1 DEF WorkersLeft, AsyncInv, Placement, HeldByStep, Holding, ToComplete, ToRun
  <1>3. ASSUME NEW o \in Ops, owner[o] \in {"post", "ready", "released"}, completion[o] # "done"
        PROVE  completer[o].by \in {"owner", "canceller"}
    <2>1. completion[o] # "none"
      BY <1>1, <1>2, <1>3, EmptyElems DEF AsyncInv, Completions, InHand, Accepted
    <2>2. completer[o].by \notin {"worker", "drain"}
      BY <1>1, <1>2, <1>3 DEF AsyncInv, Completions, Unfinished
    <2>3. completer[o].by # "nobody"
      BY <2>1 DEF AsyncInv, Completions, Claimed
    <2>4. completer[o].by \in {"nobody", "owner", "canceller", "worker", "drain"}
      BY DEF AsyncInv, Completions, CompletionTypes
    <2> QED BY <2>2, <2>3, <2>4
  <1> QED BY <1>1, <1>3

\* With the one drain that unloading makes (Lifecycle.cpp), the semaphore keeps within
\* its limit, nothing accepted is forgotten, and a successful drain leaves no worker, no
\* queued operation and none that is not completed.
THEOREM DrainQuiet ==
    ASSUME MaxDrains <= 1
    PROVE  Spec => []QuietAfterDrain
  <1>1. ASSUME AsyncInv, PermitsBounded, Next PROVE PermitsBounded'
    BY <1>1, PermitsStep DEF AsyncInv
  <1>2. ASSUME PermitsBounded, UNCHANGED vars PROVE PermitsBounded'
    BY <1>2 DEF PermitsBounded, Permits, Dequeuing, Posting, vars, shared, counters, workers,
                drainer
  <1>3. Spec => []PermitsBounded
    BY <1>1, <1>2, PermitsInit, AsyncInvariant, PTL DEF Spec
  <1>4. AsyncInv /\ PermitsBounded => QuietAfterDrain
    <2> SUFFICES ASSUME AsyncInv, PermitsBounded PROVE QuietAfterDrain
      OBVIOUS
    <2>1. ASSUME runtime = 2 PROVE semaphore <= MaxQueueDepth + Cardinality(Workers)
      <3>1. /\ Cardinality(Workers) \in Nat /\ Cardinality(Dequeuing) \in Nat
            /\ Cardinality(Posting) \in Nat /\ semaphore \in Nat
        BY PermitCounts DEF PermitsBounded
      <3>2. Len(queue) \in Nat /\ Len(queue) <= MaxQueueDepth /\ MaxQueueDepth \in Nat
        BY AsyncAssumption DEF AsyncInv, Placement, PlaceTypes
      <3>3. Permits <= MaxQueueDepth + Cardinality(Workers)
        BY <2>1, <3>1, <3>2 DEF PermitsBounded, Permits
      <3> QED BY <3>1, <3>2, <3>3 DEF Permits
    <2> QED BY <2>1, InSomebodysHands, JoinedIsQuiet DEF QuietAfterDrain
  <1> QED BY <1>3, <1>4, AsyncInvariant, PTL

-----------------------------------------------------------------------------
(* The runtime implements one-shot operations.                             *)

\* The abstract state, as ImplementsOneShot maps it.
Decided == [o \in Ops |-> completer[o].status]
Published == [o \in Ops |-> IF completion[o] = "done" THEN Status[o] ELSE "pending"]
Running == {held[w] : w \in {v \in Workers : worker[v] = "sending"}}
Unloaded == runtime = 3 /\ WorkersLeft = {}

\* The abstract steps, in terms of the mapped state: none, ...
LEMMA AbstractSilent ==
    ASSUME Decided' = Decided, Published' = Published, Running' = Running, Unloaded' <=> Unloaded
    PROVE  UNCHANGED Operations!vars
  BY DEF Operations!vars, Decided, Published, Running, Unloaded

\* ... Decide, ...
LEMMA AbstractDecide ==
    ASSUME NEW o \in Ops, o \notin Running, Decided[o] = "pending", NEW r \in Results,
           Decided' = [Decided EXCEPT ![o] = r],
           Published' = Published, Running' = Running, Unloaded' <=> Unloaded
    PROVE  Operations!Next
  <1>1. Operations!Decide(o)
    BY DEF Operations!Decide, Operations!Results, Results, Decided, Published, Running, Unloaded
  <1> QED BY <1>1 DEF Operations!Next

\* ... Publish, ...
LEMMA AbstractPublish ==
    ASSUME NEW o \in Ops, Decided[o] # "pending", Published[o] = "pending",
           Published' = [Published EXCEPT ![o] = Decided[o]],
           Decided' = Decided, Running' = Running, Unloaded' <=> Unloaded
    PROVE  Operations!Next
  <1>1. Operations!Publish(o)
    BY DEF Operations!Publish, Decided, Published, Running, Unloaded
  <1> QED BY <1>1 DEF Operations!Next

\* ... Start, ...
LEMMA AbstractStart ==
    ASSUME NEW o \in Ops, o \notin Running, Decided[o] = "pending", ~Unloaded,
           Running' = Running \cup {o},
           Decided' = Decided, Published' = Published, Unloaded' <=> Unloaded
    PROVE  Operations!Next
  <1>1. Operations!Start(o)
    BY DEF Operations!Start, Decided, Published, Running, Unloaded
  <1> QED BY <1>1 DEF Operations!Next

\* ... End, ...
LEMMA AbstractEnd ==
    ASSUME NEW o \in Ops, o \in Running, Running' = Running \ {o},
           Decided' = Decided, Published' = Published, Unloaded' <=> Unloaded
    PROVE  Operations!Next
  <1>1. Operations!End(o)
    BY DEF Operations!End, Decided, Published, Running, Unloaded
  <1> QED BY <1>1 DEF Operations!Next

\* ... Unload.
LEMMA AbstractUnload ==
    ASSUME Running = {}, ~Unloaded, Unloaded',
           Decided' = Decided, Published' = Published, Running' = Running
    PROVE  Operations!Next
  <1>1. Operations!Unload
    BY DEF Operations!Unload, Decided, Published, Running, Unloaded
  <1> QED BY <1>1 DEF Operations!Next

\* The parts of the abstract state that a step leaves alone.
LEMMA DecidedSame ==
    ASSUME UNCHANGED <<completion, completer, Status>>
    PROVE  Decided' = Decided /\ Published' = Published
  BY DEF Decided, Published

\* No send begins or ends.
LEMMA RunningSame ==
    ASSUME \A v \in Workers : /\ worker'[v] = "sending" <=> worker[v] = "sending"
                              /\ worker[v] = "sending" => held'[v] = held[v]
    PROVE  Running' = Running
  BY DEF Running

\* No thread is created and none leaves.
LEMMA UnloadedSame ==
    ASSUME runtime' = runtime,
           \A v \in Workers : worker'[v] \in {"none", "exited"} <=> worker[v] \in {"none", "exited"}
    PROVE  Unloaded' <=> Unloaded
  BY DEF Unloaded, WorkersLeft

\* A step of threads that neither decide nor publish, begin nor end a send.
LEMMA SilentStep ==
    ASSUME UNCHANGED <<completion, completer, Status, runtime>>,
           \A v \in Workers : /\ worker'[v] = "sending" <=> worker[v] = "sending"
                              /\ worker[v] = "sending" => held'[v] = held[v]
                              /\ worker'[v] \in {"none", "exited"} <=> worker[v] \in {"none", "exited"}
    PROVE  UNCHANGED Operations!vars
  BY DecidedSame, RunningSame, UnloadedSame, AbstractSilent

\* The exchange of Completed, by whoever: a decision, or nothing.
LEMMA ClaimStep ==
    ASSUME Completions, NEW o \in Ops, NEW st \in Results,
           NEW who \in {"owner", "canceller", "worker", "drain"}, Claim(o, who, st),
           completion[o] = "none" => o \notin Running,
           UNCHANGED Status, Running' = Running, Unloaded' <=> Unloaded
    PROVE  Operations!Next \/ UNCHANGED Operations!vars
  <1>1. CASE completion[o] # "none"
    <2>1. UNCHANGED <<completion, completer, Status>>
      BY <1>1 DEF Claim
    <2> QED BY <2>1, DecidedSame, AbstractSilent
  <1>2. CASE completion[o] = "none"
    <2>1. ClaimedBy(o, who, st)
      BY ClaimEffect DEF Completions
    <2>2. Decided[o] = "pending"
      BY <1>2 DEF Decided, Completions, Claimed
    <2>3. \A p \in Ops : completer'[p].status = IF p = o THEN st ELSE completer[p].status
      BY <1>2, <2>1 DEF ClaimedBy
    <2>4. Decided' = [Decided EXCEPT ![o] = st]
      BY <2>3 DEF Decided
    <2>5. \A p \in Ops : completion'[p] = "done" <=> completion[p] = "done"
      BY <1>2, <2>1 DEF ClaimedBy
    <2>6. Published' = Published
      BY <2>5 DEF Published
    <2> QED BY <1>2, <2>2, <2>4, <2>6, AbstractDecide
  <1> QED BY <1>1, <1>2

\* Every step of the runtime is a step of the one-shot operations, or none of theirs.
LEMMA OneShotStep ==
    ASSUME AsyncInv, Next
    PROVE  Operations!Next \/ UNCHANGED Operations!vars
  <1> USE DEF shared, counters, workers, drainer, operation, Own, Work, Cancelling
  <1>0. /\ Placement /\ Completions
        /\ worker \in [Workers -> WorkerPcs] /\ held \in [Workers -> Ops \cup {"none"}]
    BY DEF AsyncInv, Placement, PlaceTypes
  <1>a. UNCHANGED <<worker, held>> => Running' = Running
    BY RunningSame
  <1>b. UNCHANGED <<worker, runtime>> => (Unloaded' <=> Unloaded)
    BY UnloadedSame
  <1>c. \A w \in Workers : worker[w] \in Holding => held[w] \in Ops
    BY <1>0 DEF Placement, HeldByStep
  <1>d. \A w \in Workers : \A v \in Workers :
           held[w] \in Ops /\ held[v] = held[w] => v = w
    BY <1>0 DEF Placement, OnePlace
  <1>1. ASSUME NEW o \in Ops, Create(o) 
        PROVE  Operations!Next \/ UNCHANGED Operations!vars
    BY <1>0, <1>1, SilentStep DEF Create
  <1>2. ASSUME NEW o \in Ops, EnsureRuntime(o) 
        PROVE  Operations!Next \/ UNCHANGED Operations!vars
    <2>1. Unloaded' <=> Unloaded
      BY <1>2 DEF EnsureRuntime, Unloaded, WorkersLeft
    <2> QED BY <1>a, <1>2, <2>1, DecidedSame, AbstractSilent DEF EnsureRuntime
  <1>3. ASSUME NEW o \in Ops, StartAsyncWorkers(o) 
        PROVE  Operations!Next \/ UNCHANGED Operations!vars
    <2>1. runtime = 1 /\ \A w \in Workers : worker[w] = "none"
      BY <1>0, <1>3 DEF StartAsyncWorkers, Placement, RuntimePhases
    <2>2. Running = {} /\ Running' = Running /\ ~Unloaded
      BY <1>3, <2>1 DEF StartAsyncWorkers, Running, Unloaded
    <2>3. Decided' = Decided /\ Published' = Published
      BY <1>3, DecidedSame DEF StartAsyncWorkers
    <2>4. CASE Unloaded'
      BY <2>2, <2>3, <2>4, AbstractUnload
    <2>5. CASE ~Unloaded'
      BY <2>2, <2>3, <2>5, AbstractSilent
    <2> QED BY <2>4, <2>5
  <1>4. ASSUME NEW o \in Ops, TryQueue(o) 
        PROVE  Operations!Next \/ UNCHANGED Operations!vars
    BY <1>0, <1>4, SilentStep DEF TryQueue
  <1>5. ASSUME NEW o \in Ops, QueueCanceled(o) 
        PROVE  Operations!Next \/ UNCHANGED Operations!vars
    <2>1. CASE Canceled[o]
      <3>1. o \notin Running
        BY <1>0, <1>5 DEF QueueCanceled, Running, Placement, PlacedAccepted, Placed, Accepted
      <3> QED BY <1>0, <1>a, <1>b, <1>5, <2>1, <3>1, ClaimStep DEF QueueCanceled, Results
    <2>2. CASE ~Canceled[o]
      BY <1>5, <2>2, SilentStep DEF QueueCanceled
    <2> QED BY <2>1, <2>2
  <1>6. ASSUME NEW o \in Ops, BeginAsyncOperation(o) 
        PROVE  Operations!Next \/ UNCHANGED Operations!vars
    BY <1>0, <1>6, SilentStep DEF BeginAsyncOperation
  <1>7. ASSUME NEW o \in Ops, EnqueueAsyncOperation(o) 
        PROVE  Operations!Next \/ UNCHANGED Operations!vars
    BY <1>0, <1>7, SilentStep DEF EnqueueAsyncOperation
  <1>8. ASSUME NEW o \in Ops, PostSemaphore(o) 
        PROVE  Operations!Next \/ UNCHANGED Operations!vars
    BY <1>0, <1>8, SilentStep DEF PostSemaphore
  <1>9. ASSUME NEW o \in Ops, UndoQueue(o) 
        PROVE  Operations!Next \/ UNCHANGED Operations!vars
    BY <1>0, <1>9, SilentStep DEF UndoQueue
  <1>10. ASSUME NEW o \in Ops, Release(o) 
        PROVE  Operations!Next \/ UNCHANGED Operations!vars
    BY <1>0, <1>10, SilentStep DEF Release
  <1>11. ASSUME NEW o \in Ops, CancelSetFlag(o) 
        PROVE  Operations!Next \/ UNCHANGED Operations!vars
    BY <1>0, <1>11, SilentStep DEF CancelSetFlag
  <1>12. ASSUME NEW o \in Ops, CancelPending(o) 
        PROVE  Operations!Next \/ UNCHANGED Operations!vars
    <2>1. CASE canceller[o] = "pending"
      <3>1. o \notin Running
        BY <1>0, <2>1 DEF Running, Completions, NoSendDecided
      <3> QED BY <1>0, <1>a, <1>b, <1>12, <2>1, <3>1, ClaimStep DEF CancelPending, Results
    <2>2. CASE canceller[o] # "pending"
      BY <1>12, <2>2, SilentStep DEF CancelPending
    <2> QED BY <2>1, <2>2
  <1>13. ASSUME NEW o \in Ops, CompleteOperation(o) 
        PROVE  Operations!Next \/ UNCHANGED Operations!vars
    <2>1. /\ Decided' = Decided /\ Running' = Running /\ (Unloaded' <=> Unloaded)
          /\ UNCHANGED completer
      BY <1>a, <1>b, <1>13 DEF CompleteOperation, Decided
    <2>2. CASE completion[o] \in {"claimed", "status"}
      <3>1. \A p \in Ops : /\ completion'[p] = "done" <=> completion[p] = "done"
                           /\ completion[p] = "done" => Status'[p] = Status[p]
        BY <1>0, <1>13, <2>2 DEF CompleteOperation, Completions, CompletionTypes
      <3>2. Published' = Published
        BY <3>1 DEF Published
      <3> QED BY <2>1, <3>2, AbstractSilent
    <2>3. CASE completion[o] = "state"
      <3>1. completion' = [completion EXCEPT ![o] = "done"] /\ UNCHANGED Status
        BY <1>13, <2>3 DEF CompleteOperation
      <3>2. Status[o] = completer[o].status /\ completer[o].status # "pending"
        BY <1>0, <2>3 DEF Completions, Claimed
      <3>3. \A p \in Ops : completion'[p] = IF p = o THEN "done" ELSE completion[p]
        BY <1>0, <3>1 DEF Completions, CompletionTypes
      <3>4. Published[o] = "pending" /\ Decided[o] # "pending"
        BY <2>3, <3>2 DEF Published, Decided
      <3>5. Published' = [Published EXCEPT ![o] = Decided[o]]
        BY <3>1, <3>2, <3>3 DEF Published, Decided
      <3> QED BY <2>1, <3>4, <3>5, AbstractPublish
    <2> QED BY <1>13, <2>2, <2>3 DEF CompleteOperation
  <1>14. ASSUME NEW w \in Workers, WaitForWork(w) 
        PROVE  Operations!Next \/ UNCHANGED Operations!vars
    BY <1>0, <1>14, SilentStep DEF WaitForWork
  <1>15. ASSUME NEW w \in Workers, DequeueAsyncOperation(w) 
        PROVE  Operations!Next \/ UNCHANGED Operations!vars
    BY <1>0, <1>15, SilentStep DEF DequeueAsyncOperation
  <1>16. ASSUME NEW w \in Workers, LeaveIfStopped(w) 
        PROVE  Operations!Next \/ UNCHANGED Operations!vars
    <2>1. Running' = Running /\ ~Unloaded
      BY <1>0, <1>16, RunningSame DEF LeaveIfStopped, Unloaded, WorkersLeft
    <2>2. Decided' = Decided /\ Published' = Published
      BY <1>16, DecidedSame DEF LeaveIfStopped
    <2>3. CASE ~Unloaded'
      BY <2>1, <2>2, <2>3, AbstractSilent
    <2>4. CASE Unloaded'
      <3>1. \A v \in Workers : worker'[v] \in {"none", "exited"}
        BY <2>4 DEF Unloaded, WorkersLeft
      <3>2. Running' = {}
        BY <3>1 DEF Running
      <3> QED BY <2>1, <2>2, <2>4, <3>2, AbstractUnload
    <2> QED BY <2>3, <2>4
  <1>17. ASSUME NEW w \in Workers, RunOperation(w) 
        PROVE  Operations!Next \/ UNCHANGED Operations!vars
    <2>1. /\ Running' = Running /\ (Unloaded' <=> Unloaded) /\ UNCHANGED Status
      BY <1>0, <1>17, RunningSame, UnloadedSame DEF RunOperation
    <2>2. CASE worker[w] = "canceled?" /\ Canceled[held[w]]
      <3>1. held[w] \in Ops /\ held[w] \notin Running
        BY <1>c, <1>d, <2>2 DEF Running, Holding, ToComplete, ToRun
      <3>2. Claim(held[w], "worker", "cancelled")
        BY <1>17, <2>2 DEF RunOperation
      <3> QED BY <1>0, <2>1, <3>1, <3>2, ClaimStep DEF Results
    <2>3. CASE ~(worker[w] = "canceled?" /\ Canceled[held[w]])
      BY <1>17, <2>1, <2>3, DecidedSame, AbstractSilent DEF RunOperation
    <2> QED BY <2>2, <2>3
  <1>18. ASSUME NEW w \in Workers, WorkerRoutine(w) 
        PROVE  Operations!Next \/ UNCHANGED Operations!vars
    <2>1. /\ Decided' = Decided /\ Published' = Published /\ (Unloaded' <=> Unloaded)
          /\ ~Unloaded
      BY <1>0, <1>18, DecidedSame, UnloadedSame DEF WorkerRoutine, Unloaded, WorkersLeft
    <2>2. CASE Canceled[held[w]]
      BY <1>0, <1>18, <2>1, <2>2, RunningSame, AbstractSilent DEF WorkerRoutine
    <2>3. CASE ~Canceled[held[w]]
      <3>1. held[w] \in Ops /\ held[w] \notin Running
        BY <1>c, <1>d, <1>18 DEF WorkerRoutine, Running, Holding, ToComplete, ToRun
      <3>2. completer[held[w]].by \notin {"worker", "drain", "owner", "canceller"}
        BY <1>0, <1>18, <2>3, <3>1
        DEF WorkerRoutine, Completions, ByRuntime, ByCancel, ToComplete, ToRun
      <3>3. Decided[held[w]] = "pending"
        <4>1. completer[held[w]].by \in {"nobody", "worker", "drain", "owner", "canceller"}
          BY <1>0, <3>1 DEF Completions, CompletionTypes
        <4> QED BY <1>0, <3>1, <3>2, <4>1 DEF Decided, Completions, Claimed
      <3>4. \A v \in Workers : worker'[v] = IF v = w THEN "sending" ELSE worker[v]
        BY <1>0, <1>18, <2>3 DEF WorkerRoutine
      <3>5. Running' = Running \cup {held[w]}
        BY <1>18, <3>4 DEF WorkerRoutine, Running
      <3> QED BY <2>1, <3>1, <3>3, <3>5, AbstractStart
    <2> QED BY <2>2, <2>3
  <1>19. ASSUME NEW w \in Workers, RoutineEnds(w) 
        PROVE  Operations!Next \/ UNCHANGED Operations!vars
    <2>1. /\ Decided' = Decided /\ Published' = Published /\ (Unloaded' <=> Unloaded)
      BY <1>0, <1>19, DecidedSame, UnloadedSame DEF RoutineEnds
    <2>2. worker[w] = "sending" /\ held[w] \in Ops /\ held' = held
      BY <1>c, <1>19 DEF RoutineEnds, Holding, ToComplete, ToRun
    <2>3. \A v \in Workers : worker'[v] = IF v = w THEN "complete" ELSE worker[v]
      BY <1>0, <1>19 DEF RoutineEnds
    <2>4. held[w] \in Running /\ Running' = Running \ {held[w]}
      BY <1>d, <2>2, <2>3 DEF Running
    <2> QED BY <2>1, <2>2, <2>4, AbstractEnd
  <1>20. ASSUME NEW w \in Workers, CompleteRun(w) 
        PROVE  Operations!Next \/ UNCHANGED Operations!vars
    <2>1. /\ Running' = Running /\ (Unloaded' <=> Unloaded) /\ UNCHANGED Status
      BY <1>0, <1>20, RunningSame, UnloadedSame DEF CompleteRun
    <2>2. held[w] \in Ops /\ held[w] \notin Running
      BY <1>c, <1>d, <1>20 DEF CompleteRun, Running, Holding, ToComplete
    <2>3. Claim(held[w], "worker", result[w]) /\ result[w] \in Results
      BY <1>0, <1>20 DEF CompleteRun, Completions, CompletionTypes
    <2> QED BY <1>0, <2>1, <2>2, <2>3, ClaimStep
  <1>21. ASSUME NEW w \in Workers, ClearWorkerOperation(w) 
        PROVE  Operations!Next \/ UNCHANGED Operations!vars
    BY <1>0, <1>21, SilentStep DEF ClearWorkerOperation
  <1>22. ASSUME NEW w \in Workers, EndAsyncOperation(w) 
        PROVE  Operations!Next \/ UNCHANGED Operations!vars
    BY <1>0, <1>22, SilentStep DEF EndAsyncOperation
  <1>23. ASSUME Drain 
        PROVE  Operations!Next \/ UNCHANGED Operations!vars
    BY <1>23, SilentStep DEF Drain
  <1>24. ASSUME UnlinkAll 
        PROVE  Operations!Next \/ UNCHANGED Operations!vars
    BY <1>24, SilentStep DEF UnlinkAll
  <1>25. ASSUME CompleteQueued 
        PROVE  Operations!Next \/ UNCHANGED Operations!vars
    <2>1. /\ Running' = Running /\ (Unloaded' <=> Unloaded) /\ UNCHANGED Status
      BY <1>a, <1>b, <1>25 DEF CompleteQueued
    <2>2. CASE drain = "flush" /\ flushing # <<>>
      <3>1. Head(flushing) \in Ops /\ Head(flushing) \in Elems(flushing)
        BY <1>0, <2>2, TailElems DEF Placement, PlaceTypes, OnePlace
      <3>2. Head(flushing) \notin Running
        BY <1>0, <3>1 DEF Running, Placement, OnePlace
      <3>3. Claim(Head(flushing), "drain", "cancelled")
        BY <1>25, <2>2 DEF CompleteQueued
      <3> QED BY <1>0, <2>1, <3>1, <3>2, <3>3, ClaimStep DEF Results
    <2>3. CASE ~(drain = "flush" /\ flushing # <<>>)
      BY <1>25, <2>1, <2>3, DecidedSame, AbstractSilent DEF CompleteQueued
    <2> QED BY <2>2, <2>3
  <1>26. ASSUME CancelRunning 
        PROVE  Operations!Next \/ UNCHANGED Operations!vars
    BY <1>26, SilentStep DEF CancelRunning
  <1>27. ASSUME FinishDrain 
        PROVE  Operations!Next \/ UNCHANGED Operations!vars
    <2>1. /\ Decided' = Decided /\ Published' = Published /\ Running' = Running
      BY <1>a, <1>27, DecidedSame DEF FinishDrain
    <2>2. runtime = 2 /\ ~Unloaded /\ UNCHANGED worker
      BY <1>0, <1>27 DEF FinishDrain, Placement, RuntimePhases, Unloaded
    <2>3. CASE ~Unloaded'
      BY <2>1, <2>2, <2>3, AbstractSilent
    <2>4. CASE Unloaded'
      <3>1. Running = {}
        BY <2>2, <2>4 DEF Unloaded, WorkersLeft, Running
      <3> QED BY <2>1, <2>2, <2>4, <3>1, AbstractUnload
    <2> QED BY <2>3, <2>4
  <1>28. ASSUME CloseSession 
        PROVE  Operations!Next \/ UNCHANGED Operations!vars
    BY <1>0, <1>28, SilentStep DEF CloseSession
  <1> QED
    BY <1>1, <1>2, <1>3, <1>4, <1>5, <1>6, <1>7, <1>8, <1>9, <1>10, <1>11, <1>12, <1>13, <1>14,
       <1>15, <1>16, <1>17, <1>18, <1>19, <1>20, <1>21, <1>22, <1>23, <1>24, <1>25, <1>26,
       <1>27, <1>28
    DEF Next, Sending, WorkerStep, DrainStep

\* The runtime implements one-shot operations: one result, decided while no send of the
\* operation runs, published as it was decided, and no send after the runtime is gone.
THEOREM OneShot == Spec => ImplementsOneShot
  <1>1. Init => Operations!Init
    <2> SUFFICES ASSUME Init PROVE Operations!Init
      OBVIOUS
    <2>1. Decided = [o \in Ops |-> "pending"] /\ Published = [o \in Ops |-> "pending"]
      BY DEF Init, Decided, Published, NoCompleter
    <2>2. Running = {} /\ ~Unloaded
      BY DEF Init, Running, Unloaded
    <2> QED BY <2>1, <2>2 DEF Operations!Init, Decided, Published, Running, Unloaded
  <1>2. ASSUME AsyncInv, [Next]_vars PROVE [Operations!Next]_(Operations!vars)
    <2>1. CASE Next
      BY <1>2, <2>1, OneShotStep
    <2>2. CASE UNCHANGED vars
      BY <2>2, SilentStep DEF vars, operation, shared, workers
    <2> QED BY <1>2, <2>1, <2>2
  <1> QED BY <1>1, <1>2, AsyncInvariant, PTL DEF Spec, ImplementsOneShot, Operations!Spec
=============================================================================
