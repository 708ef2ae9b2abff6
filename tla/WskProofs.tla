------------------------------ MODULE WskProofs ------------------------------
(***************************************************************************)
(* For every number of calls: rundown protection keeps the native socket,  *)
(* the references of the IRP contexts are exact, and no native socket is   *)
(* closed twice or lost; where one call runs at a time, each IRP is freed  *)
(* exactly once; and the client's event is never missed.                   *)
(***************************************************************************)
EXTENDS MCWsk, FiniteSetTheorems, TLAPS

-----------------------------------------------------------------------------
(* The inductive invariant, for each call and for the socket.                *)

Freeing == {"freeSend", "clearSend", "freeReceive", "clearReceive", "freed"}
Closing == {"closeCheck", "closeIssue", "rundown", "closeSocket", "closeWait",
            "releaseClose"} \cup Freeing
Waiting == {"wait", "cancelWait", "handOver"}
Unprepared == {"idle", "connect", "prepare", "reuse", "allocate", "bugcheck"}
MayHaveCloseContext == {"rundown", "closeSocket", "closeWait", "releaseClose",
                        "release", "done"} \cup Freeing

\* The steps each operation goes through.
InStep(k, p) ==
    \/ k = "none" /\ p = "idle"
    \/ k = "connect" /\ p \in {"connect", "submit", "connected", "closeNative", "closeWait",
                               "releaseClose", "release", "done"} \cup Waiting
    \/ k \in {"send", "receive"} /\ p \in {"prepare", "reuse", "bugcheck"}
    \/ k = "disconnect" /\ p = "allocate"
    \/ /\ k \in {"send", "receive", "disconnect"}
       /\ p \in {"acquire", "submit", "releaseRundown", "abandon", "closeCancelled",
                 "release", "done"} \cup Waiting \cup Closing
    \/ k \in {"close", "destroy"} /\ p \in Closing \cup {"done"}

\* The context of a call's operation.
IoShape(c) ==
    LET x == ctx[Io(c)]
    IN  /\ kind[c] \notin Operations \/ pc[c] \in Unprepared => x = NoContext
        /\ pc[c] \in {"acquire", "submit"} => x.io = "idle"
        /\ pc[c] \notin {"acquire", "submit"} => x.io # "idle"
        /\ kind[c] \in Operations /\ pc[c] \notin NoIoContext => x.io # "none"
        /\ x.io = "pending" => pc[c] \in Waiting \/ x.owned
        /\ kind[c] \in Operations /\ pc[c] \notin NoIoContext => (x.owned <=> gave[c])
        /\ gave[c] => /\ kind[c] \in Operations
                      /\ pc[c] \notin NoIoContext \cup Waiting \cup {"acquire", "submit"}
        /\ x.completed \/ x.information => x.io \in {"signalled", "returned"}
        /\ x.information => kind[c] = "connect"
        /\ x.refs = 0 => ~x.owned /\ ~x.information

\* The context of the WskCloseSocket that it issues.
ClShape(c) ==
    LET x == ctx[Cl(c)]
    IN  /\ ~x.owned /\ ~x.information
        /\ pc[c] \in {"rundown", "closeSocket"} => x.io = "idle"
        /\ pc[c] \notin {"rundown", "closeSocket"} => x.io # "idle"
        /\ x.io = "pending" => pc[c] \in {"closeWait", "done"}
        /\ pc[c] \in {"closeWait", "releaseClose"} => x.io # "none"
        /\ pc[c] \notin MayHaveCloseContext => x = NoContext
        /\ x.completed => x.io \in {"signalled", "returned"}

\* Exactly the references of the caller and of the completion.
RefsExact(c) ==
    /\ ctx[Io(c)].refs = (IF CallerHolds(Io(c)) THEN 1 ELSE 0)
                         + (IF CompletionHolds(Io(c)) THEN 1 ELSE 0)
    /\ ctx[Cl(c)].refs = (IF CallerHolds(Cl(c)) THEN 1 ELSE 0)
                         + (IF CompletionHolds(Cl(c)) THEN 1 ELSE 0)

\* What holds of a call and its contexts, whatever the socket and the others do.
CallInv(c) == InStep(kind[c], pc[c]) /\ IoShape(c) /\ ClShape(c) /\ RefsExact(c)

\* Two calls run at a time only as the locks of an HTTP/2 connection allow.
Alone ==
    /\ \A c, d \in Calls : c # d /\ c \in Running /\ d \in Running =>
        /\ kind[c] \in {"send", "receive"}
        /\ kind[d] \in {"send", "receive"}
        /\ kind[c] # kind[d]
    /\ \A c, d \in Calls : c # d /\ c \in Running /\ d \in Running => discipline = "shared"
    /\ \A c, d \in Calls : c # d /\ kind[d] = "destroy" => c \notin Running

\* The call has brought a native socket that is not the socket's yet.
Unpublished(c) ==
    /\ ctx[Io(c)].information
    /\ pc[c] \in Waiting \cup {"connected", "closeNative"} \/ ctx[Io(c)].owned

\* Whose the native socket of a connect is.
Natives(c) ==
    /\ closes[c] = (IF native[c] = "closed" THEN 1 ELSE 0)
    /\ native[c] # "none" => kind[c] = "connect" /\ ctx[Io(c)].io \in {"signalled", "returned"}
    /\ Unpublished(c) => native[c] = "open" /\ socket_ # c
    /\ pc[c] = "closeNative" => ctx[Io(c)].information /\ ~gave[c]
    /\ socket_ = c => /\ native[c] = "open"
                      /\ pc[c] \in {"release", "done"}
                      /\ ~ctx[Io(c)].owned
    /\ native[c] = "open" => socket_ = c \/ allocFails \/ Unpublished(c)
    /\ kind[c] = "connect" /\ pc[c] \in Waiting \cup {"connect", "submit", "connected"}
         => socket_ = None

\* A call that will not make closeIssued_ false.
OutOfWay(d) ==
    \/ pc[d] \in {"idle", "done", "release", "releaseClose", "closeWait"}
    \/ pc[d] \in Freeing /\ ctx[Cl(d)].io # "none"

\* closeIssued_ gives the socket to one closing call.
ClosingOnce ==
    /\ \A c \in Calls : pc[c] \in {"rundown", "closeSocket"} => closeIssued_ /\ socket_ # None
    /\ \A c \in Calls : pc[c] = "closeSocket" => rundown.down
    /\ \A c, d \in Calls :
          pc[c] \in {"rundown", "closeSocket"} /\ pc[d] \in {"rundown", "closeSocket"} => c = d
    /\ \A c \in Calls : pc[c] \in Freeing /\ ctx[Cl(c)].io = "none" /\ kind[c] # "destroy"
                           => socket_ = None
    /\ \A c \in Calls : pc[c] = "closeIssue" /\ socket_ = None =>
          closeIssued_ /\ \A d \in Calls \ {c} : OutOfWay(d)
    /\ socket_ # None /\ closeIssued_ => \E c \in Calls : pc[c] \in {"rundown", "closeSocket"}
    /\ \A d \in Calls :
          /\ kind[d] = "destroy" /\ ~allocFails
          /\ pc[d] \notin {"closeCheck", "closeIssue", "rundown", "closeSocket"}
          => socket_ = None

\* Rundown protection is counted exactly, and is what keeps the socket.
RundownExact ==
    /\ rundown.count = Cardinality({c \in Calls : HoldsRundown(c)})
    /\ \A c \in Calls : HoldsRundown(c) => socket_ # None
    /\ \A c \in Calls : pc[c] \in {"prepare", "reuse", "allocate", "acquire"} =>
                            socket_ # None \/ rundown.down

SocketInv ==
    /\ TypeOK
    /\ \A c \in Calls : CallInv(c)
    /\ Alone
    /\ \A c \in Calls : Natives(c)
    /\ ClosingOnce
    /\ RundownExact

-----------------------------------------------------------------------------
(* The names of contexts, and what the operators on contexts do.            *)

LEMMA ContextNames ==
    /\ \A c \in Calls : Io(c) \in CtxIds /\ Cl(c) \in CtxIds
    /\ \A c, d \in Calls : Io(c) # Cl(d)
    /\ \A c, d \in Calls : c # d => Io(c) # Io(d) /\ Cl(c) # Cl(d)
    /\ \A c \in Calls : Io(c)[1] = c /\ Cl(c)[1] = c /\ Io(c)[2] = "io" /\ Cl(c)[2] = "close"
    /\ \A x \in CtxIds : x[1] \in Calls /\ (x = Io(x[1]) \/ x = Cl(x[1]))
    /\ None \notin CtxIds /\ None \notin Calls
    /\ \A c \in Calls : c \in Nat
BY WskAssumption DEF Io, Cl, CtxIds, Calls

Tables == [CtxIds -> ContextType]

LEMMA NoContextType == NoContext \in ContextType
BY DEF NoContext, Context, ContextType

LEMMA InitializeEffect ==
    ASSUME NEW cs \in Tables, NEW x \in CtxIds, NEW irp \in CtxIds, NEW borrowed \in BOOLEAN,
           NEW new, new = WskSyncInitializeIrpContext(cs, x, irp, borrowed)
    PROVE  /\ new \in Tables
           /\ \A y \in CtxIds \ {x} : new[y] = cs[y]
           /\ new[x].refs = 2 /\ new[x].io = "idle"
           /\ ~new[x].completed /\ ~new[x].owned /\ ~new[x].information
           /\ new[x].irp = irp /\ new[x].borrowed = borrowed
<1>1. /\ Context(2, "idle", borrowed, irp) \in ContextType
      /\ new = [cs EXCEPT ![x] = Context(2, "idle", borrowed, irp)]
  BY DEF Context, ContextType, WskSyncInitializeIrpContext
<1>2. QED
  BY <1>1 DEF Tables, Context

LEMMA OneLessEffect ==
    ASSUME NEW cs \in Tables, NEW x \in CtxIds, cs[x].refs \in {1, 2},
           NEW new, new = OneLess(cs, x)
    PROVE  /\ new \in Tables
           /\ \A y \in CtxIds \ {x} : new[y] = cs[y]
           /\ new[x].refs = cs[x].refs - 1
           /\ new[x].irp = cs[x].irp
           /\ cs[x].refs = 1 => /\ new[x].io = "returned"
                                /\ ~new[x].completed /\ ~new[x].owned
                                /\ ~new[x].information /\ ~new[x].borrowed
           /\ cs[x].refs = 2 => /\ new[x].io = cs[x].io
                                /\ new[x].completed = cs[x].completed
                                /\ new[x].owned = cs[x].owned
                                /\ new[x].information = cs[x].information
                                /\ new[x].borrowed = cs[x].borrowed
<1> DEFINE gone == Context(0, "returned", FALSE, cs[x].irp)
<1> DEFINE less == [cs[x] EXCEPT !.refs = cs[x].refs - 1]
<1>0. cs[x] \in ContextType
  BY DEF Tables
<1>1. /\ gone.refs = 0 /\ gone.io = "returned" /\ gone.irp = cs[x].irp
      /\ ~gone.completed /\ ~gone.owned /\ ~gone.information /\ ~gone.borrowed
  BY DEF Context
<1>2. gone \in ContextType
  BY <1>0 DEF Context, ContextType
<1>3. less \in ContextType
  BY <1>0 DEF ContextType
<1>4. /\ less.refs = cs[x].refs - 1 /\ less.irp = cs[x].irp
      /\ less.io = cs[x].io /\ less.completed = cs[x].completed
      /\ less.owned = cs[x].owned /\ less.information = cs[x].information
      /\ less.borrowed = cs[x].borrowed
  BY <1>0 DEF ContextType
<1>5. new = IF cs[x].refs = 1 THEN [cs EXCEPT ![x] = gone] ELSE [cs EXCEPT ![x] = less]
  BY DEF OneLess
<1> HIDE DEF gone, less
<1>6. QED
  BY <1>1, <1>2, <1>3, <1>4, <1>5 DEF Tables

LEMMA FreesType ==
    ASSUME TypeOK, NEW cs, NEW x
    PROVE  IrpsFreed(cs, x) \in [CtxIds -> Nat]
<1> DEFINE irp == cs[x].irp
<1>1. [frees EXCEPT ![irp] = @ + 1] =
        [y \in CtxIds |-> IF y = irp THEN frees[irp] + 1 ELSE frees[y]]
  BY DEF TypeOK
<1>2. [y \in CtxIds |-> IF y = irp THEN frees[irp] + 1 ELSE frees[y]] \in [CtxIds -> Nat]
  BY DEF TypeOK
<1>3. QED
  BY <1>1, <1>2 DEF TypeOK, IrpsFreed

\* A step that changes no context but those of c.
OthersSame(c) == \A d \in Calls \ {c} : ctx'[Io(d)] = ctx[Io(d)] /\ ctx'[Cl(d)] = ctx[Cl(d)]

Fresh(r) == r.refs = 2 /\ r.io = "idle" /\ ~r.completed /\ ~r.owned /\ ~r.information

LEMMA IoInitialized ==
    ASSUME TypeOK, NEW c \in Calls, NEW irp \in CtxIds, NEW borrowed \in BOOLEAN,
           ctx' = WskSyncInitializeIrpContext(ctx, Io(c), irp, borrowed)
    PROVE  /\ ctx' \in [CtxIds -> ContextType]
           /\ OthersSame(c)
           /\ Fresh(ctx'[Io(c)]) /\ ctx'[Io(c)].irp = irp /\ ctx'[Io(c)].borrowed = borrowed
           /\ ctx'[Cl(c)] = ctx[Cl(c)]
<1>1. ctx \in Tables /\ Io(c) \in CtxIds
  BY ContextNames DEF TypeOK, Tables
<1>2. /\ ctx' \in Tables
      /\ \A y \in CtxIds \ {Io(c)} : ctx'[y] = ctx[y]
      /\ Fresh(ctx'[Io(c)]) /\ ctx'[Io(c)].irp = irp /\ ctx'[Io(c)].borrowed = borrowed
  BY <1>1, InitializeEffect DEF Fresh
<1>3. QED
  BY <1>2, ContextNames DEF Tables, OthersSame

LEMMA ClInitialized ==
    ASSUME TypeOK, NEW c \in Calls, NEW irp \in CtxIds, NEW borrowed \in BOOLEAN,
           ctx' = WskSyncInitializeIrpContext(ctx, Cl(c), irp, borrowed)
    PROVE  /\ ctx' \in [CtxIds -> ContextType]
           /\ OthersSame(c)
           /\ Fresh(ctx'[Cl(c)]) /\ ctx'[Cl(c)].irp = irp /\ ctx'[Cl(c)].borrowed = borrowed
           /\ ctx'[Io(c)] = ctx[Io(c)]
<1>1. ctx \in Tables /\ Cl(c) \in CtxIds
  BY ContextNames DEF TypeOK, Tables
<1>2. /\ ctx' \in Tables
      /\ \A y \in CtxIds \ {Cl(c)} : ctx'[y] = ctx[y]
      /\ Fresh(ctx'[Cl(c)]) /\ ctx'[Cl(c)].irp = irp /\ ctx'[Cl(c)].borrowed = borrowed
  BY <1>1, InitializeEffect DEF Fresh
<1>3. QED
  BY <1>2, ContextNames DEF Tables, OthersSame

LEMMA IoReplaced ==
    ASSUME TypeOK, NEW c \in Calls, NEW r \in ContextType, ctx' = [ctx EXCEPT ![Io(c)] = r]
    PROVE  /\ ctx' \in [CtxIds -> ContextType] /\ OthersSame(c)
           /\ ctx'[Io(c)] = r /\ ctx'[Cl(c)] = ctx[Cl(c)]
BY ContextNames DEF TypeOK, OthersSame

LEMMA ClReplaced ==
    ASSUME TypeOK, NEW c \in Calls, NEW r \in ContextType, ctx' = [ctx EXCEPT ![Cl(c)] = r]
    PROVE  /\ ctx' \in [CtxIds -> ContextType] /\ OthersSame(c)
           /\ ctx'[Cl(c)] = r /\ ctx'[Io(c)] = ctx[Io(c)]
BY ContextNames DEF TypeOK, OthersSame

\* Releasing a reference of one of c's two contexts; the last one of a connect that
\* was handed over may start the close of the socket it brought.
LEMMA ReleaseEffect ==
    ASSUME NEW cs \in Tables, NEW c \in Calls, NEW x \in {Io(c), Cl(c)},
           cs[x].refs \in {1, 2}, ~cs[Cl(c)].owned, TypeOK,
           WskSyncReleaseContext(cs, x)
    PROVE  /\ ctx' \in Tables
           /\ \A y \in CtxIds \ {Io(c), Cl(c)} : ctx'[y] = cs[y]
           /\ ctx'[x].refs = cs[x].refs - 1
           /\ ctx'[x].irp = cs[x].irp
           /\ cs[x].refs = 1 => /\ ctx'[x].io = "returned"
                                /\ ~ctx'[x].completed /\ ~ctx'[x].owned
                                /\ ~ctx'[x].information /\ ~ctx'[x].borrowed
           /\ cs[x].refs = 2 => /\ ctx'[x].io = cs[x].io
                                /\ ctx'[x].completed = cs[x].completed
                                /\ ctx'[x].owned = cs[x].owned
                                /\ ctx'[x].information = cs[x].information
                                /\ ctx'[x].borrowed = cs[x].borrowed
           /\ frees' = IrpsFreed(cs, x)
           /\ \/ /\ x = Io(c) /\ ClosesLate(cs, x)
                 /\ native' = [native EXCEPT ![c] = "closed"]
                 /\ closes' = [closes EXCEPT ![c] = @ + 1]
                 /\ ctx'[Cl(c)].refs = 1 /\ ctx'[Cl(c)].io = "pending"
                 /\ ctx'[Cl(c)].irp = Cl(c)
                 /\ ~ctx'[Cl(c)].completed /\ ~ctx'[Cl(c)].owned
                 /\ ~ctx'[Cl(c)].information /\ ~ctx'[Cl(c)].borrowed
              \/ /\ ClosesLate(cs, x) => allocFails
                 /\ UNCHANGED <<native, closes>>
                 /\ \A y \in CtxIds \ {x} : ctx'[y] = cs[y]
<1> DEFINE less == OneLess(cs, x)
<1> DEFINE closing == Context(1, "pending", FALSE, Cl(c))
<1>0. x \in CtxIds /\ x[1] = c /\ Cl(c) \in CtxIds /\ Io(c) # Cl(c) /\ Io(c) \in CtxIds
  BY ContextNames
<1>1. /\ closing.refs = 1 /\ closing.io = "pending" /\ closing.irp = Cl(c)
      /\ ~closing.completed /\ ~closing.owned /\ ~closing.information /\ ~closing.borrowed
  BY DEF Context
<1>2. closing \in ContextType
  BY <1>0 DEF Context, ContextType
<1>3. /\ less \in Tables
      /\ \A y \in CtxIds \ {x} : less[y] = cs[y]
      /\ less[x].refs = cs[x].refs - 1
      /\ less[x].irp = cs[x].irp
      /\ cs[x].refs = 1 => /\ less[x].io = "returned"
                           /\ ~less[x].completed /\ ~less[x].owned
                           /\ ~less[x].information /\ ~less[x].borrowed
      /\ cs[x].refs = 2 => /\ less[x].io = cs[x].io
                           /\ less[x].completed = cs[x].completed
                           /\ less[x].owned = cs[x].owned
                           /\ less[x].information = cs[x].information
                           /\ less[x].borrowed = cs[x].borrowed
  BY <1>0, OneLessEffect
<1>4. ClosesLate(cs, x) => x = Io(c)
  BY DEF ClosesLate
<1>5. \/ /\ ClosesLate(cs, x) => allocFails
         /\ ctx' = less /\ frees' = IrpsFreed(cs, x) /\ UNCHANGED <<native, closes>>
      \/ /\ ClosesLate(cs, x)
         /\ native' = [native EXCEPT ![c] = "closed"]
         /\ closes' = [closes EXCEPT ![c] = @ + 1]
         /\ ctx' = [less EXCEPT ![Cl(c)] = closing]
         /\ frees' = IrpsFreed(cs, x)
  BY <1>0 DEF WskSyncReleaseContext
<1> HIDE DEF less, closing
<1>6. CASE /\ ClosesLate(cs, x) => allocFails
           /\ ctx' = less /\ frees' = IrpsFreed(cs, x) /\ UNCHANGED <<native, closes>>
  BY <1>3, <1>6
<1>7. CASE /\ ClosesLate(cs, x)
           /\ native' = [native EXCEPT ![c] = "closed"]
           /\ closes' = [closes EXCEPT ![c] = @ + 1]
           /\ ctx' = [less EXCEPT ![Cl(c)] = closing]
           /\ frees' = IrpsFreed(cs, x)
  BY <1>0, <1>1, <1>2, <1>3, <1>4, <1>7 DEF Tables
<1>8. QED
  BY <1>5, <1>6, <1>7

\* What a release of a reference on x, a context of the call c, does to c.
ReleasedOf(c, cs, x) ==
    /\ ctx' \in [CtxIds -> ContextType]
    /\ \A d \in Calls \ {c} : ctx'[Io(d)] = cs[Io(d)] /\ ctx'[Cl(d)] = cs[Cl(d)]
    /\ ctx'[x].refs = cs[x].refs - 1
    /\ cs[x].refs = 1 => /\ ctx'[x].io = "returned" /\ ~ctx'[x].completed
                         /\ ~ctx'[x].owned /\ ~ctx'[x].information
    /\ cs[x].refs = 2 => /\ ctx'[x].io = cs[x].io
                         /\ ctx'[x].completed = cs[x].completed
                         /\ ctx'[x].owned = cs[x].owned
                         /\ ctx'[x].information = cs[x].information
    /\ x = Cl(c) => ctx'[Io(c)] = cs[Io(c)]
    /\ frees' \in [CtxIds -> Nat]
    /\ native' \in [Calls -> {"none", "open", "closed"}] /\ closes' \in [Calls -> Nat]
    /\ \A d \in Calls \ {c} : native'[d] = native[d] /\ closes'[d] = closes[d]
    /\ \/ /\ x = Io(c) /\ ClosesLate(cs, x)
          /\ native'[c] = "closed" /\ closes'[c] = closes[c] + 1
          /\ ctx'[Cl(c)].refs = 1 /\ ctx'[Cl(c)].io = "pending"
          /\ ~ctx'[Cl(c)].completed /\ ~ctx'[Cl(c)].owned /\ ~ctx'[Cl(c)].information
       \/ /\ ClosesLate(cs, x) => allocFails
          /\ native'[c] = native[c] /\ closes'[c] = closes[c]
          /\ x = Io(c) => ctx'[Cl(c)] = cs[Cl(c)]

LEMMA ReleasedContext ==
    ASSUME NEW cs \in Tables, NEW c \in Calls, NEW x \in {Io(c), Cl(c)},
           cs[x].refs \in {1, 2}, ~cs[Cl(c)].owned, TypeOK,
           WskSyncReleaseContext(cs, x)
    PROVE  ReleasedOf(c, cs, x)
<1> USE ReleaseEffect
<1>0. ctx' \in Tables /\ frees' \in [CtxIds -> Nat]
  BY FreesType
<1>1. \A d \in Calls \ {c} : ctx'[Io(d)] = cs[Io(d)] /\ ctx'[Cl(d)] = cs[Cl(d)]
  <2>1. \A y \in CtxIds \ {Io(c), Cl(c)} : ctx'[y] = cs[y]
    OBVIOUS
  <2>2. QED
    BY <2>1, ContextNames
<1>2. /\ ctx'[x].refs = cs[x].refs - 1
      /\ cs[x].refs = 1 => /\ ctx'[x].io = "returned" /\ ~ctx'[x].completed
                           /\ ~ctx'[x].owned /\ ~ctx'[x].information
      /\ cs[x].refs = 2 => /\ ctx'[x].io = cs[x].io
                           /\ ctx'[x].completed = cs[x].completed
                           /\ ctx'[x].owned = cs[x].owned
                           /\ ctx'[x].information = cs[x].information
  OBVIOUS
<1>3. \/ /\ x = Io(c) /\ ClosesLate(cs, x)
         /\ native' = [native EXCEPT ![c] = "closed"]
         /\ closes' = [closes EXCEPT ![c] = @ + 1]
         /\ ctx'[Cl(c)].refs = 1 /\ ctx'[Cl(c)].io = "pending"
         /\ ~ctx'[Cl(c)].completed /\ ~ctx'[Cl(c)].owned /\ ~ctx'[Cl(c)].information
      \/ /\ ClosesLate(cs, x) => allocFails
         /\ UNCHANGED <<native, closes>>
         /\ \A y \in CtxIds \ {x} : ctx'[y] = cs[y]
  OBVIOUS
<1>4. Io(c) \in CtxIds /\ Cl(c) \in CtxIds /\ Io(c) # Cl(c)
  BY ContextNames
<1>5. QED
  BY <1>0, <1>1, <1>2, <1>3, <1>4 DEF ReleasedOf, Tables, TypeOK

-----------------------------------------------------------------------------
(* What a step of one call leaves alone.                                     *)

\* The step does not touch the call d.
SameCall(d) ==
    /\ pc'[d] = pc[d] /\ kind'[d] = kind[d] /\ gave'[d] = gave[d]
    /\ ctx'[Io(d)] = ctx[Io(d)] /\ ctx'[Cl(d)] = ctx[Cl(d)]

LEMMA SameCallInv ==
    ASSUME NEW d \in Calls, CallInv(d), SameCall(d)
    PROVE  CallInv(d)'
BY ContextNames DEF SameCall, CallInv, IoShape, ClShape, RefsExact, CallerHolds, CompletionHolds

\* A step that starts no call.
LEMMA StillAlone ==
    ASSUME Alone, kind' = kind, discipline' = discipline,
           \A d \in Calls : d \in Running' => d \in Running
    PROVE  Alone'
BY DEF Alone, Running

Holding == {c \in Calls : HoldsRundown(c)}

LEMMA HoldingFinite == IsFiniteSet(Holding) /\ Cardinality(Holding) \in Nat
<1>1. IsFiniteSet(Calls)
  BY WskAssumption, FS_Interval DEF Calls
<1>2. Holding \subseteq Calls
  BY DEF Holding
<1>3. QED
  BY <1>1, <1>2, FS_Subset, FS_CardinalityType

\* While a call holds rundown protection, the count is not zero.
LEMMA HolderCounts ==
    ASSUME RundownExact, NEW c \in Calls, HoldsRundown(c)
    PROVE  rundown.count \in Nat /\ rundown.count > 0
<1>1. c \in Holding
  BY DEF Holding
<1>2. Cardinality(Holding) # 0
  BY <1>1, HoldingFinite, FS_EmptySet
<1>3. QED
  BY <1>2, HoldingFinite DEF RundownExact, Holding

\* The calls that may go on to take rundown protection.
AboutToTake(d) == pc[d] \in {"prepare", "reuse", "allocate", "acquire"}

\* A step that neither takes nor returns rundown protection.
LEMMA SameRundown ==
    ASSUME RundownExact, rundown'.count = rundown.count, rundown.down => rundown'.down,
           socket_ # None => socket_' # None,
           \A d \in Calls : HoldsRundown(d)' <=> HoldsRundown(d),
           \A d \in Calls : AboutToTake(d)' => AboutToTake(d) \/ socket_' # None
    PROVE  RundownExact'
<1>1. {c \in Calls : HoldsRundown(c)}' = {c \in Calls : HoldsRundown(c)}
  OBVIOUS
<1>2. QED
  BY <1>1 DEF RundownExact, AboutToTake

\* A step by which only c takes or returns it.
LEMMA RundownTaken ==
    ASSUME RundownExact, NEW c \in Calls, ~HoldsRundown(c), HoldsRundown(c)',
           \A d \in Calls \ {c} : HoldsRundown(d)' <=> HoldsRundown(d),
           rundown'.count = rundown.count + 1
    PROVE  (rundown.count = Cardinality({d \in Calls : HoldsRundown(d)}))'
<1>1. Holding' = Holding \cup {c} /\ c \notin Holding
  BY DEF Holding
<1>2. Cardinality(Holding') = Cardinality(Holding) + 1
  BY <1>1, HoldingFinite, FS_AddElement
<1>3. QED
  BY <1>2 DEF Holding, RundownExact

LEMMA RundownReturned ==
    ASSUME RundownExact, NEW c \in Calls, HoldsRundown(c), ~HoldsRundown(c)',
           \A d \in Calls \ {c} : HoldsRundown(d)' <=> HoldsRundown(d),
           rundown'.count = rundown.count - 1
    PROVE  (rundown.count = Cardinality({d \in Calls : HoldsRundown(d)}))'
<1>1. Holding' = Holding \ {c} /\ c \in Holding
  BY DEF Holding
<1>2. Cardinality(Holding') = Cardinality(Holding) - 1
  BY <1>1, HoldingFinite, FS_RemoveElement
<1>3. QED
  BY <1>2 DEF Holding, RundownExact

\* A step that leaves socket_ and closeIssued_ alone and moves no call into or out
\* of the part of CloseOwnedSocket that they guard.
ClosingUndisturbed(d) ==
    /\ pc'[d] \in {"rundown", "closeSocket"} <=> pc[d] \in {"rundown", "closeSocket"}
    /\ pc'[d] = "closeSocket" => pc[d] = "closeSocket" \/ rundown'.down
    /\ pc'[d] = "closeIssue" => pc[d] = "closeIssue" \/ socket_ # None
    /\ OutOfWay(d) => OutOfWay(d)'
    /\ pc'[d] \in Freeing /\ ctx'[Cl(d)].io = "none" =>
          (pc[d] \in Freeing /\ ctx[Cl(d)].io = "none") \/ socket_ = None \/ kind[d] = "destroy"
    /\ pc[d] \in {"closeCheck", "closeIssue", "rundown", "closeSocket"} =>
          kind[d] # "destroy" \/ socket_ = None \/ allocFails
          \/ pc'[d] \in {"closeCheck", "closeIssue", "rundown", "closeSocket"}

LEMMA SameClosing ==
    ASSUME ClosingOnce, UNCHANGED <<socket_, closeIssued_, kind, allocFails>>,
           rundown.down => rundown'.down,
           \A d \in Calls : ClosingUndisturbed(d)
    PROVE  ClosingOnce'
BY DEF ClosingOnce, ClosingUndisturbed

LEMMA SameNatives ==
    ASSUME NEW d \in Calls, Natives(d), SameCall(d), UNCHANGED <<socket_, allocFails>>,
           native'[d] = native[d], closes'[d] = closes[d]
    PROVE  Natives(d)'
BY DEF SameCall, Natives, Unpublished

LEMMA SameUndisturbed ==
    ASSUME NEW d \in Calls, SameCall(d), UNCHANGED socket_
    PROVE  ClosingUndisturbed(d)
BY DEF SameCall, ClosingUndisturbed, OutOfWay

\* The operation's context has been allocated.
LEMMA AllocatedCall ==
    ASSUME NEW c \in Calls, CallInv(c), Natives(c), kind[c] \in Operations,
           pc[c] \in Unprepared, pc'[c] \in {"acquire", "submit"},
           kind'[c] = kind[c], gave'[c] = gave[c], InStep(kind[c], pc'[c]),
           Fresh(ctx'[Io(c)]), ctx'[Cl(c)] = ctx[Cl(c)],
           UNCHANGED <<native, closes, socket_, allocFails>>
    PROVE  CallInv(c)' /\ Natives(c)'
<1>1. ctx[Io(c)] = NoContext /\ ctx[Cl(c)] = NoContext /\ ~gave[c]
  BY DEF CallInv, IoShape, ClShape, Unprepared, MayHaveCloseContext, NoIoContext, Freeing
<1>2. IoShape(c)'
  BY <1>1 DEF IoShape, Fresh, NoIoContext, Operations, Unprepared, Waiting
<1>3. ClShape(c)'
  BY <1>1 DEF ClShape, NoContext, Context, MayHaveCloseContext, Freeing
<1>4. RefsExact(c)'
  BY <1>1, ContextNames DEF RefsExact, CallerHolds, CompletionHolds, Fresh, NoContext,
     Context, NoIoContext
<1>5. native[c] = "none"
  BY <1>1 DEF Natives, NoContext, Context
<1>6. socket_ # c
  BY <1>5 DEF Natives
<1>7. kind[c] = "connect" => socket_ = None
  BY DEF CallInv, InStep, Natives, Unprepared, Waiting, Closing, Freeing
<1>8. Natives(c)'
  BY <1>1, <1>5, <1>6, <1>7 DEF Natives, Unpublished, Fresh
<1>9. QED
  BY <1>2, <1>3, <1>4, <1>8 DEF CallInv

LEMMA WaitEndsPreserves ==
    ASSUME SocketInv, NEW c \in Calls, WaitEnds(c), UNCHANGED <<discipline, allocFails>>
    PROVE  SocketInv'
<1>1. TypeOK'
  BY DEF SocketInv, TypeOK, WaitEnds, Ended, Goto, Steps, fields
<1>2. \A d \in Calls \ {c} : SameCall(d)
  BY ContextNames DEF SocketInv, TypeOK, WaitEnds, Ended, Goto, fields, SameCall
<1>3. CallInv(c)'
  <2>1. InStep(kind[c], pc[c])'
    BY  DEF SocketInv, TypeOK, WaitEnds, Ended, Goto, CallInv, InStep, Waiting, Closing,
       Freeing
  <2>2. IoShape(c)'
    BY  DEF SocketInv, TypeOK, WaitEnds, Ended, Goto, fields, CallInv, InStep, IoShape,
       Waiting, Closing, Freeing, Unprepared, NoIoContext, Operations
  <2>3. ClShape(c)'
    BY  DEF SocketInv, TypeOK, WaitEnds, Ended, Goto, fields, CallInv, InStep, ClShape,
       MayHaveCloseContext, Closing, Freeing
  <2>4. RefsExact(c)'
    BY ContextNames DEF SocketInv, TypeOK, WaitEnds, Ended, Goto, fields, CallInv,
       InStep, IoShape, ClShape, RefsExact, CallerHolds, CompletionHolds, NoIoContext,
       Operations, MayHaveCloseContext, Closing, Freeing
  <2>5. QED
    BY <2>1, <2>2, <2>3, <2>4 DEF CallInv
<1>4. \A d \in Calls : CallInv(d)'
  BY <1>2, <1>3, SameCallInv DEF SocketInv
<1>5. Alone'
  BY StillAlone DEF SocketInv, TypeOK, WaitEnds, Ended, Goto, Running
<1>6. \A d \in Calls : Natives(d)'
  BY ContextNames DEF SocketInv, TypeOK, WaitEnds, Ended, Goto, fields, CallInv, InStep,
     IoShape, Natives, Unpublished, Waiting, Closing, Freeing
<1>7. ClosingOnce'
  <2>1. \A d \in Calls : ClosingUndisturbed(d)
    BY DEF SocketInv, TypeOK, WaitEnds, Ended, Goto, fields, CallInv, InStep, ClShape,
       ClosingUndisturbed, OutOfWay, Waiting, Closing, Freeing
  <2>2. QED
    BY <2>1, SameClosing DEF SocketInv, TypeOK, WaitEnds, Ended, fields
<1>8. RundownExact'
  BY SameRundown DEF SocketInv, TypeOK, WaitEnds, Ended, Goto, fields, CallInv, InStep,
     HoldsRundown, AboutToTake, Waiting, Closing, Freeing
<1>9. QED
  BY <1>1, <1>4, <1>5, <1>6, <1>7, <1>8 DEF SocketInv

LEMMA WaitTimesOutPreserves ==
    ASSUME SocketInv, NEW c \in Calls, WaitTimesOut(c), UNCHANGED <<discipline, allocFails>>
    PROVE  SocketInv'
<1>1. TypeOK'
  BY DEF SocketInv, TypeOK, WaitTimesOut, Goto, Steps, fields
<1>2. \A d \in Calls \ {c} : SameCall(d)
  BY ContextNames DEF SocketInv, TypeOK, WaitTimesOut, Goto, fields, SameCall
<1>3. CallInv(c)'
  <2>1. InStep(kind[c], pc[c])'
    BY  DEF SocketInv, TypeOK, WaitTimesOut, Goto, CallInv, InStep, Waiting, Closing,
       Freeing
  <2>2. IoShape(c)'
    BY  DEF SocketInv, TypeOK, WaitTimesOut, Goto, fields, CallInv, InStep, IoShape,
       Waiting, Closing, Freeing, Unprepared, NoIoContext, Operations
  <2>3. ClShape(c)'
    BY  DEF SocketInv, TypeOK, WaitTimesOut, Goto, fields, CallInv, InStep, ClShape,
       MayHaveCloseContext, Closing, Freeing
  <2>4. RefsExact(c)'
    BY ContextNames DEF SocketInv, TypeOK, WaitTimesOut, Goto, fields, CallInv, InStep,
       IoShape, ClShape, RefsExact, CallerHolds, CompletionHolds, NoIoContext,
       Operations, MayHaveCloseContext, Closing, Freeing
  <2>5. QED
    BY <2>1, <2>2, <2>3, <2>4 DEF CallInv
<1>4. \A d \in Calls : CallInv(d)'
  BY <1>2, <1>3, SameCallInv DEF SocketInv
<1>5. Alone'
  BY StillAlone DEF SocketInv, TypeOK, WaitTimesOut, Goto, Running
<1>6. \A d \in Calls : Natives(d)'
  BY ContextNames DEF SocketInv, TypeOK, WaitTimesOut, Goto, fields, CallInv, InStep,
     IoShape, Natives, Unpublished, Waiting, Closing, Freeing
<1>7. ClosingOnce'
  <2>1. \A d \in Calls : ClosingUndisturbed(d)
    BY DEF SocketInv, TypeOK, WaitTimesOut, Goto, fields, CallInv, InStep, ClShape,
       ClosingUndisturbed, OutOfWay, Waiting, Closing, Freeing
  <2>2. QED
    BY <2>1, SameClosing DEF SocketInv, TypeOK, WaitTimesOut, fields
<1>8. RundownExact'
  BY SameRundown DEF SocketInv, TypeOK, WaitTimesOut, Goto, fields, CallInv, InStep,
     HoldsRundown, AboutToTake, Waiting, Closing, Freeing
<1>9. QED
  BY <1>1, <1>4, <1>5, <1>6, <1>7, <1>8 DEF SocketInv

LEMMA CancelCompletesPreserves ==
    ASSUME SocketInv, NEW c \in Calls, CancelCompletes(c), UNCHANGED <<discipline, allocFails>>
    PROVE  SocketInv'
<1>1. TypeOK'
  BY DEF SocketInv, TypeOK, CancelCompletes, Ended, Goto, Steps, fields
<1>2. \A d \in Calls \ {c} : SameCall(d)
  BY ContextNames DEF SocketInv, TypeOK, CancelCompletes, Ended, Goto, fields, SameCall
<1>3. CallInv(c)'
  <2>1. InStep(kind[c], pc[c])'
    BY  DEF SocketInv, TypeOK, CancelCompletes, Ended, Goto, CallInv, InStep, Waiting,
       Closing, Freeing
  <2>2. IoShape(c)'
    BY  DEF SocketInv, TypeOK, CancelCompletes, Ended, Goto, fields, CallInv, InStep,
       IoShape, Waiting, Closing, Freeing, Unprepared, NoIoContext, Operations
  <2>3. ClShape(c)'
    BY  DEF SocketInv, TypeOK, CancelCompletes, Ended, Goto, fields, CallInv, InStep,
       ClShape, MayHaveCloseContext, Closing, Freeing
  <2>4. RefsExact(c)'
    BY ContextNames DEF SocketInv, TypeOK, CancelCompletes, Ended, Goto, fields,
       CallInv, InStep, IoShape, ClShape, RefsExact, CallerHolds, CompletionHolds,
       NoIoContext, Operations, MayHaveCloseContext, Closing, Freeing
  <2>5. QED
    BY <2>1, <2>2, <2>3, <2>4 DEF CallInv
<1>4. \A d \in Calls : CallInv(d)'
  BY <1>2, <1>3, SameCallInv DEF SocketInv
<1>5. Alone'
  BY StillAlone DEF SocketInv, TypeOK, CancelCompletes, Ended, Goto, Running
<1>6. \A d \in Calls : Natives(d)'
  BY ContextNames DEF SocketInv, TypeOK, CancelCompletes, Ended, Goto, fields, CallInv,
     InStep, IoShape, Natives, Unpublished, Waiting, Closing, Freeing
<1>7. ClosingOnce'
  <2>1. \A d \in Calls : ClosingUndisturbed(d)
    BY DEF SocketInv, TypeOK, CancelCompletes, Ended, Goto, fields, CallInv, InStep,
       ClShape, ClosingUndisturbed, OutOfWay, Waiting, Closing, Freeing
  <2>2. QED
    BY <2>1, SameClosing DEF SocketInv, TypeOK, CancelCompletes, Ended, fields
<1>8. RundownExact'
  BY SameRundown DEF SocketInv, TypeOK, CancelCompletes, Ended, Goto, fields, CallInv,
     InStep, HoldsRundown, AboutToTake, Waiting, Closing, Freeing
<1>9. QED
  BY <1>1, <1>4, <1>5, <1>6, <1>7, <1>8 DEF SocketInv

LEMMA CancelTimesOutPreserves ==
    ASSUME SocketInv, NEW c \in Calls, CancelTimesOut(c), UNCHANGED <<discipline, allocFails>>
    PROVE  SocketInv'
<1>1. TypeOK'
  BY DEF SocketInv, TypeOK, CancelTimesOut, Goto, Steps, fields
<1>2. \A d \in Calls \ {c} : SameCall(d)
  BY ContextNames DEF SocketInv, TypeOK, CancelTimesOut, Goto, fields, SameCall
<1>3. CallInv(c)'
  <2>1. InStep(kind[c], pc[c])'
    BY  DEF SocketInv, TypeOK, CancelTimesOut, Goto, CallInv, InStep, Waiting, Closing,
       Freeing
  <2>2. IoShape(c)'
    BY  DEF SocketInv, TypeOK, CancelTimesOut, Goto, fields, CallInv, InStep, IoShape,
       Waiting, Closing, Freeing, Unprepared, NoIoContext, Operations
  <2>3. ClShape(c)'
    BY  DEF SocketInv, TypeOK, CancelTimesOut, Goto, fields, CallInv, InStep, ClShape,
       MayHaveCloseContext, Closing, Freeing
  <2>4. RefsExact(c)'
    BY ContextNames DEF SocketInv, TypeOK, CancelTimesOut, Goto, fields, CallInv,
       InStep, IoShape, ClShape, RefsExact, CallerHolds, CompletionHolds, NoIoContext,
       Operations, MayHaveCloseContext, Closing, Freeing
  <2>5. QED
    BY <2>1, <2>2, <2>3, <2>4 DEF CallInv
<1>4. \A d \in Calls : CallInv(d)'
  BY <1>2, <1>3, SameCallInv DEF SocketInv
<1>5. Alone'
  BY StillAlone DEF SocketInv, TypeOK, CancelTimesOut, Goto, Running
<1>6. \A d \in Calls : Natives(d)'
  BY ContextNames DEF SocketInv, TypeOK, CancelTimesOut, Goto, fields, CallInv, InStep,
     IoShape, Natives, Unpublished, Waiting, Closing, Freeing
<1>7. ClosingOnce'
  <2>1. \A d \in Calls : ClosingUndisturbed(d)
    BY DEF SocketInv, TypeOK, CancelTimesOut, Goto, fields, CallInv, InStep, ClShape,
       ClosingUndisturbed, OutOfWay, Waiting, Closing, Freeing
  <2>2. QED
    BY <2>1, SameClosing DEF SocketInv, TypeOK, CancelTimesOut, fields
<1>8. RundownExact'
  BY SameRundown DEF SocketInv, TypeOK, CancelTimesOut, Goto, fields, CallInv, InStep,
     HoldsRundown, AboutToTake, Waiting, Closing, Freeing
<1>9. QED
  BY <1>1, <1>4, <1>5, <1>6, <1>7, <1>8 DEF SocketInv

LEMMA RefusedPreserves ==
    ASSUME SocketInv, NEW c \in Calls, Refused(c), UNCHANGED <<discipline, allocFails>>
    PROVE  SocketInv'
<1>1. TypeOK'
  <2>1. sendIrp_' \in CtxIds \cup {None} /\ receiveIrp_' \in CtxIds \cup {None}
    BY ContextNames DEF SocketInv, TypeOK, Refused, SetReusableIrp
  <2>2. QED
    BY <2>1 DEF SocketInv, TypeOK, Refused, Goto, Steps
<1>2. \A d \in Calls \ {c} : SameCall(d)
  BY ContextNames DEF SocketInv, TypeOK, Refused, SetReusableIrp, Goto, fields, SameCall
<1>3. CallInv(c)'
  <2>1. InStep(kind[c], pc[c])'
    BY  DEF SocketInv, TypeOK, Refused, SetReusableIrp, NoContext, Context, Goto,
       CallInv, InStep, Waiting, Closing, Freeing
  <2>2. IoShape(c)'
    BY  DEF SocketInv, TypeOK, Refused, SetReusableIrp, NoContext, Context, Goto,
       fields, CallInv, InStep, IoShape, Waiting, Closing, Freeing, Unprepared,
       NoIoContext, Operations
  <2>3. ClShape(c)'
    BY  DEF SocketInv, TypeOK, Refused, SetReusableIrp, NoContext, Context, Goto,
       fields, CallInv, InStep, ClShape, MayHaveCloseContext, Closing, Freeing
  <2>4. RefsExact(c)'
    BY ContextNames DEF SocketInv, TypeOK, Refused, SetReusableIrp, NoContext, Context,
       Goto, fields, CallInv, InStep, IoShape, ClShape, RefsExact, CallerHolds,
       CompletionHolds, NoIoContext, Operations, MayHaveCloseContext, Closing, Freeing
  <2>5. QED
    BY <2>1, <2>2, <2>3, <2>4 DEF CallInv
<1>4. \A d \in Calls : CallInv(d)'
  BY <1>2, <1>3, SameCallInv DEF SocketInv
<1>5. Alone'
  BY StillAlone DEF SocketInv, TypeOK, Refused, SetReusableIrp, Goto, Running
<1>6. \A d \in Calls : Natives(d)'
  BY ContextNames DEF SocketInv, TypeOK, Refused, SetReusableIrp, Goto, fields, CallInv,
     InStep, IoShape, Natives, Unpublished, Waiting, Closing, Freeing
<1>7. ClosingOnce'
  <2>1. \A d \in Calls : ClosingUndisturbed(d)
    BY DEF SocketInv, TypeOK, Refused, SetReusableIrp, Goto, fields, CallInv, InStep,
       ClShape, ClosingUndisturbed, OutOfWay, Waiting, Closing, Freeing
  <2>2. QED
    BY <2>1, SameClosing DEF SocketInv, TypeOK, Refused, SetReusableIrp, fields
<1>8. RundownExact'
  BY SameRundown DEF SocketInv, TypeOK, Refused, SetReusableIrp, Goto, fields, CallInv,
     InStep, HoldsRundown, AboutToTake, Waiting, Closing, Freeing
<1>9. QED
  BY <1>1, <1>4, <1>5, <1>6, <1>7, <1>8 DEF SocketInv

LEMMA ReleaseIoRundownPreserves ==
    ASSUME SocketInv, NEW c \in Calls, ReleaseIoRundown(c), UNCHANGED <<discipline, allocFails>>
    PROVE  SocketInv'
<1>a. HoldsRundown(c) /\ rundown.count \in Nat /\ rundown.count > 0
  BY HolderCounts DEF SocketInv, CallInv, InStep, ReleaseIoRundown, HoldsRundown,
     Waiting, Closing, Freeing
<1>b. rundown'.count = rundown.count - 1 /\ rundown'.down = rundown.down
  BY DEF SocketInv, TypeOK, ReleaseIoRundown
<1>1. TypeOK'
  BY <1>a, <1>b DEF SocketInv, TypeOK, ReleaseIoRundown, Goto, Steps, fields
<1>2. \A d \in Calls \ {c} : SameCall(d)
  BY <1>a, <1>b, ContextNames DEF SocketInv, TypeOK, ReleaseIoRundown, Goto, fields,
     SameCall
<1>3. CallInv(c)'
  <2>1. InStep(kind[c], pc[c])'
    BY <1>a, <1>b DEF SocketInv, TypeOK, ReleaseIoRundown, Goto, CallInv, InStep,
       Waiting, Closing, Freeing
  <2>2. IoShape(c)'
    BY <1>a, <1>b, ContextNames DEF SocketInv, TypeOK, ReleaseIoRundown, Goto, fields,
       CallInv, InStep, IoShape, RefsExact, CallerHolds, CompletionHolds, Waiting,
       Closing, Freeing, Unprepared, NoIoContext, Operations
  <2>3. ClShape(c)'
    BY <1>a, <1>b, ContextNames DEF SocketInv, TypeOK, ReleaseIoRundown, Goto, fields,
       CallInv, InStep, ClShape, MayHaveCloseContext, Closing, Freeing
  <2>4. RefsExact(c)'
    BY <1>a, <1>b, ContextNames DEF SocketInv, TypeOK, ReleaseIoRundown, Goto, fields,
       CallInv, InStep, IoShape, ClShape, RefsExact, CallerHolds, CompletionHolds,
       NoIoContext, Operations, Waiting, MayHaveCloseContext, Closing, Freeing
  <2>5. QED
    BY <2>1, <2>2, <2>3, <2>4 DEF CallInv
<1>4. \A d \in Calls : CallInv(d)'
  BY <1>2, <1>3, SameCallInv DEF SocketInv
<1>5. Alone'
  BY StillAlone DEF SocketInv, TypeOK, ReleaseIoRundown, Goto, Running
<1>6. \A d \in Calls : Natives(d)'
  BY <1>a, <1>b, ContextNames DEF SocketInv, TypeOK, ReleaseIoRundown, Goto, fields,
     CallInv, InStep, IoShape, Natives, Unpublished, Waiting, Closing, Freeing
<1>7. ClosingOnce'
  <2>1. \A d \in Calls : ClosingUndisturbed(d)
    BY <1>a, <1>b DEF SocketInv, TypeOK, ReleaseIoRundown, Goto, fields, CallInv,
       InStep, ClShape, ClosingUndisturbed, OutOfWay, Waiting, Closing, Freeing
  <2>2. QED
    BY <1>a, <1>b, <2>1, SameClosing DEF SocketInv, TypeOK, ReleaseIoRundown, fields
<1>8. RundownExact'
  <2>1. ~HoldsRundown(c)' /\ \A d \in Calls \ {c} : HoldsRundown(d)' <=> HoldsRundown(d)
    BY DEF SocketInv, TypeOK, ReleaseIoRundown, Goto, HoldsRundown
  <2>2. (rundown.count = Cardinality({d \in Calls : HoldsRundown(d)}))'
    BY <1>a, <1>b, <2>1, RundownReturned DEF SocketInv
  <2>3. QED
    BY <1>b, <2>1, <2>2 DEF SocketInv, TypeOK, RundownExact, ReleaseIoRundown, Goto
<1>9. QED
  BY <1>1, <1>4, <1>5, <1>6, <1>7, <1>8 DEF SocketInv

LEMMA AbandonReusableIrpPreserves ==
    ASSUME SocketInv, NEW c \in Calls, AbandonReusableIrp(c), UNCHANGED <<discipline, allocFails>>
    PROVE  SocketInv'
<1>1. TypeOK'
  BY DEF SocketInv, TypeOK, AbandonReusableIrp, SetReusableIrp, Goto, Steps, fields
<1>2. \A d \in Calls \ {c} : SameCall(d)
  BY ContextNames DEF SocketInv, TypeOK, AbandonReusableIrp, SetReusableIrp, Goto,
     fields, SameCall
<1>3. CallInv(c)'
  <2>1. InStep(kind[c], pc[c])'
    BY  DEF SocketInv, TypeOK, AbandonReusableIrp, SetReusableIrp, Goto, CallInv,
       InStep, Waiting, Closing, Freeing
  <2>2. IoShape(c)'
    BY  DEF SocketInv, TypeOK, AbandonReusableIrp, SetReusableIrp, Goto, fields,
       CallInv, InStep, IoShape, Waiting, Closing, Freeing, Unprepared, NoIoContext,
       Operations
  <2>3. ClShape(c)'
    BY  DEF SocketInv, TypeOK, AbandonReusableIrp, SetReusableIrp, Goto, fields,
       CallInv, InStep, ClShape, MayHaveCloseContext, Closing, Freeing
  <2>4. RefsExact(c)'
    BY ContextNames DEF SocketInv, TypeOK, AbandonReusableIrp, SetReusableIrp, Goto,
       fields, CallInv, InStep, IoShape, ClShape, RefsExact, CallerHolds,
       CompletionHolds, NoIoContext, Operations, MayHaveCloseContext, Closing, Freeing
  <2>5. QED
    BY <2>1, <2>2, <2>3, <2>4 DEF CallInv
<1>4. \A d \in Calls : CallInv(d)'
  BY <1>2, <1>3, SameCallInv DEF SocketInv
<1>5. Alone'
  BY StillAlone DEF SocketInv, TypeOK, AbandonReusableIrp, SetReusableIrp, Goto, Running
<1>6. \A d \in Calls : Natives(d)'
  BY ContextNames DEF SocketInv, TypeOK, AbandonReusableIrp, SetReusableIrp, Goto,
     fields, CallInv, InStep, IoShape, Natives, Unpublished, Waiting, Closing, Freeing
<1>7. ClosingOnce'
  <2>1. \A d \in Calls : ClosingUndisturbed(d)
    BY DEF SocketInv, TypeOK, AbandonReusableIrp, SetReusableIrp, Goto, fields, CallInv,
       InStep, ClShape, ClosingUndisturbed, OutOfWay, Waiting, Closing, Freeing
  <2>2. QED
    BY <2>1, SameClosing DEF SocketInv, TypeOK, AbandonReusableIrp, SetReusableIrp,
       fields
<1>8. RundownExact'
  BY SameRundown DEF SocketInv, TypeOK, AbandonReusableIrp, SetReusableIrp, Goto,
     fields, CallInv, InStep, HoldsRundown, AboutToTake, Waiting, Closing, Freeing
<1>9. QED
  BY <1>1, <1>4, <1>5, <1>6, <1>7, <1>8 DEF SocketInv

LEMMA CloseAfterCancelledOperationPreserves ==
    ASSUME SocketInv, NEW c \in Calls, CloseAfterCancelledOperation(c), UNCHANGED <<discipline, allocFails>>
    PROVE  SocketInv'
<1>1. TypeOK'
  BY DEF SocketInv, TypeOK, CloseAfterCancelledOperation, Goto, Steps, fields
<1>2. \A d \in Calls \ {c} : SameCall(d)
  BY ContextNames DEF SocketInv, TypeOK, CloseAfterCancelledOperation, Goto, fields,
     SameCall
<1>3. CallInv(c)'
  <2>1. InStep(kind[c], pc[c])'
    BY  DEF SocketInv, TypeOK, CloseAfterCancelledOperation, Goto, CallInv, InStep,
       Waiting, Closing, Freeing
  <2>2. IoShape(c)'
    BY  DEF SocketInv, TypeOK, CloseAfterCancelledOperation, Goto, fields, CallInv,
       InStep, IoShape, Waiting, Closing, Freeing, Unprepared, NoIoContext, Operations
  <2>3. ClShape(c)'
    BY  DEF SocketInv, TypeOK, CloseAfterCancelledOperation, Goto, fields, CallInv,
       InStep, ClShape, MayHaveCloseContext, Closing, Freeing
  <2>4. RefsExact(c)'
    BY ContextNames DEF SocketInv, TypeOK, CloseAfterCancelledOperation, Goto, fields,
       CallInv, InStep, IoShape, ClShape, RefsExact, CallerHolds, CompletionHolds,
       NoIoContext, Operations, MayHaveCloseContext, Closing, Freeing
  <2>5. QED
    BY <2>1, <2>2, <2>3, <2>4 DEF CallInv
<1>4. \A d \in Calls : CallInv(d)'
  BY <1>2, <1>3, SameCallInv DEF SocketInv
<1>5. Alone'
  BY StillAlone DEF SocketInv, TypeOK, CloseAfterCancelledOperation, Goto, Running
<1>6. \A d \in Calls : Natives(d)'
  BY ContextNames DEF SocketInv, TypeOK, CloseAfterCancelledOperation, Goto, fields,
     CallInv, InStep, IoShape, Natives, Unpublished, Waiting, Closing, Freeing
<1>7. ClosingOnce'
  <2>1. \A d \in Calls : ClosingUndisturbed(d)
    BY DEF SocketInv, TypeOK, CloseAfterCancelledOperation, Goto, fields, CallInv,
       InStep, ClShape, ClosingUndisturbed, OutOfWay, Waiting, Closing, Freeing
  <2>2. QED
    BY <2>1, SameClosing DEF SocketInv, TypeOK, CloseAfterCancelledOperation, fields
<1>8. RundownExact'
  BY SameRundown DEF SocketInv, TypeOK, CloseAfterCancelledOperation, Goto, fields,
     CallInv, InStep, HoldsRundown, AboutToTake, Waiting, Closing, Freeing
<1>9. QED
  BY <1>1, <1>4, <1>5, <1>6, <1>7, <1>8 DEF SocketInv

LEMMA CloseCheckPreserves ==
    ASSUME SocketInv, NEW c \in Calls, CloseCheck(c), UNCHANGED <<discipline, allocFails>>
    PROVE  SocketInv'
<1>1. TypeOK'
  BY DEF SocketInv, TypeOK, CloseCheck, Goto, Steps, fields
<1>2. \A d \in Calls \ {c} : SameCall(d)
  BY ContextNames DEF SocketInv, TypeOK, CloseCheck, Goto, fields, SameCall
<1>3. CallInv(c)'
  <2>1. InStep(kind[c], pc[c])'
    BY  DEF SocketInv, TypeOK, CloseCheck, NoContext, Context, Goto, CallInv, InStep,
       Waiting, Closing, Freeing
  <2>2. IoShape(c)'
    BY  DEF SocketInv, TypeOK, CloseCheck, NoContext, Context, Goto, fields, CallInv,
       InStep, IoShape, Waiting, Closing, Freeing, Unprepared, NoIoContext, Operations
  <2>3. ClShape(c)'
    BY  DEF SocketInv, TypeOK, CloseCheck, NoContext, Context, Goto, fields, CallInv,
       InStep, ClShape, MayHaveCloseContext, Closing, Freeing
  <2>4. RefsExact(c)'
    BY ContextNames DEF SocketInv, TypeOK, CloseCheck, NoContext, Context, Goto, fields,
       CallInv, InStep, IoShape, ClShape, RefsExact, CallerHolds, CompletionHolds,
       NoIoContext, Operations, MayHaveCloseContext, Closing, Freeing
  <2>5. QED
    BY <2>1, <2>2, <2>3, <2>4 DEF CallInv
<1>4. \A d \in Calls : CallInv(d)'
  BY <1>2, <1>3, SameCallInv DEF SocketInv
<1>5. Alone'
  BY StillAlone DEF SocketInv, TypeOK, CloseCheck, Goto, Running
<1>6. \A d \in Calls : Natives(d)'
  BY ContextNames DEF SocketInv, TypeOK, CloseCheck, Goto, fields, CallInv, InStep,
     IoShape, Natives, Unpublished, Waiting, Closing, Freeing
<1>7. ClosingOnce'
  <2>1. \A d \in Calls : ClosingUndisturbed(d)
    BY DEF SocketInv, TypeOK, CloseCheck, Goto, fields, CallInv, InStep, ClShape,
       ClosingUndisturbed, OutOfWay, Waiting, Closing, Freeing
  <2>2. QED
    BY <2>1, SameClosing DEF SocketInv, TypeOK, CloseCheck, fields
<1>8. RundownExact'
  BY SameRundown DEF SocketInv, TypeOK, CloseCheck, Goto, fields, CallInv, InStep,
     HoldsRundown, AboutToTake, Waiting, Closing, Freeing
<1>9. QED
  BY <1>1, <1>4, <1>5, <1>6, <1>7, <1>8 DEF SocketInv

LEMMA RunDownPreserves ==
    ASSUME SocketInv, NEW c \in Calls, RunDown(c), UNCHANGED <<discipline, allocFails>>
    PROVE  SocketInv'
<1>1. TypeOK'
  BY DEF SocketInv, TypeOK, RunDown, Goto, Steps, fields
<1>2. \A d \in Calls \ {c} : SameCall(d)
  BY ContextNames DEF SocketInv, TypeOK, RunDown, Goto, fields, SameCall
<1>3. CallInv(c)'
  <2>1. InStep(kind[c], pc[c])'
    BY  DEF SocketInv, TypeOK, RunDown, Goto, CallInv, InStep, Waiting, Closing, Freeing
  <2>2. IoShape(c)'
    BY  DEF SocketInv, TypeOK, RunDown, Goto, fields, CallInv, InStep, IoShape, Waiting,
       Closing, Freeing, Unprepared, NoIoContext, Operations
  <2>3. ClShape(c)'
    BY  DEF SocketInv, TypeOK, RunDown, Goto, fields, CallInv, InStep, ClShape,
       MayHaveCloseContext, Closing, Freeing
  <2>4. RefsExact(c)'
    BY ContextNames DEF SocketInv, TypeOK, RunDown, Goto, fields, CallInv, InStep,
       IoShape, ClShape, RefsExact, CallerHolds, CompletionHolds, NoIoContext,
       Operations, MayHaveCloseContext, Closing, Freeing
  <2>5. QED
    BY <2>1, <2>2, <2>3, <2>4 DEF CallInv
<1>4. \A d \in Calls : CallInv(d)'
  BY <1>2, <1>3, SameCallInv DEF SocketInv
<1>5. Alone'
  BY StillAlone DEF SocketInv, TypeOK, RunDown, Goto, Running
<1>6. \A d \in Calls : Natives(d)'
  BY ContextNames DEF SocketInv, TypeOK, RunDown, Goto, fields, CallInv, InStep,
     IoShape, Natives, Unpublished, Waiting, Closing, Freeing
<1>7. ClosingOnce'
  <2>1. \A d \in Calls : ClosingUndisturbed(d)
    BY DEF SocketInv, TypeOK, RunDown, Goto, fields, CallInv, InStep, ClShape,
       ClosingUndisturbed, OutOfWay, Waiting, Closing, Freeing
  <2>2. QED
    BY <2>1, SameClosing DEF SocketInv, TypeOK, RunDown, fields
<1>8. RundownExact'
  BY SameRundown DEF SocketInv, TypeOK, RunDown, Goto, fields, CallInv, InStep,
     HoldsRundown, AboutToTake, Waiting, Closing, Freeing
<1>9. QED
  BY <1>1, <1>4, <1>5, <1>6, <1>7, <1>8 DEF SocketInv

LEMMA CloseWaitPreserves ==
    ASSUME SocketInv, NEW c \in Calls, CloseWait(c), UNCHANGED <<discipline, allocFails>>
    PROVE  SocketInv'
<1>1. TypeOK'
  BY DEF SocketInv, TypeOK, CloseWait, Goto, Steps, fields
<1>2. \A d \in Calls \ {c} : SameCall(d)
  BY ContextNames DEF SocketInv, TypeOK, CloseWait, Goto, fields, SameCall
<1>3. CallInv(c)'
  <2>1. InStep(kind[c], pc[c])'
    BY  DEF SocketInv, TypeOK, CloseWait, Goto, CallInv, InStep, Waiting, Closing,
       Freeing
  <2>2. IoShape(c)'
    BY  DEF SocketInv, TypeOK, CloseWait, Goto, fields, CallInv, InStep, IoShape,
       Waiting, Closing, Freeing, Unprepared, NoIoContext, Operations
  <2>3. ClShape(c)'
    BY  DEF SocketInv, TypeOK, CloseWait, Goto, fields, CallInv, InStep, ClShape,
       MayHaveCloseContext, Closing, Freeing
  <2>4. RefsExact(c)'
    BY ContextNames DEF SocketInv, TypeOK, CloseWait, Goto, fields, CallInv, InStep,
       IoShape, ClShape, RefsExact, CallerHolds, CompletionHolds, NoIoContext,
       Operations, MayHaveCloseContext, Closing, Freeing
  <2>5. QED
    BY <2>1, <2>2, <2>3, <2>4 DEF CallInv
<1>4. \A d \in Calls : CallInv(d)'
  BY <1>2, <1>3, SameCallInv DEF SocketInv
<1>5. Alone'
  BY StillAlone DEF SocketInv, TypeOK, CloseWait, Goto, Running
<1>6. \A d \in Calls : Natives(d)'
  BY ContextNames DEF SocketInv, TypeOK, CloseWait, Goto, fields, CallInv, InStep,
     IoShape, Natives, Unpublished, Waiting, Closing, Freeing
<1>7. ClosingOnce'
  <2>1. \A d \in Calls : ClosingUndisturbed(d)
    BY DEF SocketInv, TypeOK, CloseWait, Goto, fields, CallInv, InStep, ClShape,
       ClosingUndisturbed, OutOfWay, Waiting, Closing, Freeing
  <2>2. QED
    BY <2>1, SameClosing DEF SocketInv, TypeOK, CloseWait, fields
<1>8. RundownExact'
  BY SameRundown DEF SocketInv, TypeOK, CloseWait, Goto, fields, CallInv, InStep,
     HoldsRundown, AboutToTake, Waiting, Closing, Freeing
<1>9. QED
  BY <1>1, <1>4, <1>5, <1>6, <1>7, <1>8 DEF SocketInv

LEMMA ClearSendPreserves ==
    ASSUME SocketInv, NEW c \in Calls, ClearSend(c), UNCHANGED <<discipline, allocFails>>
    PROVE  SocketInv'
<1>1. TypeOK'
  BY DEF SocketInv, TypeOK, ClearSend, Goto, Steps, fields
<1>2. \A d \in Calls \ {c} : SameCall(d)
  BY ContextNames DEF SocketInv, TypeOK, ClearSend, Goto, fields, SameCall
<1>3. CallInv(c)'
  <2>1. InStep(kind[c], pc[c])'
    BY  DEF SocketInv, TypeOK, ClearSend, Goto, CallInv, InStep, Waiting, Closing,
       Freeing
  <2>2. IoShape(c)'
    BY  DEF SocketInv, TypeOK, ClearSend, Goto, fields, CallInv, InStep, IoShape,
       Waiting, Closing, Freeing, Unprepared, NoIoContext, Operations
  <2>3. ClShape(c)'
    BY  DEF SocketInv, TypeOK, ClearSend, Goto, fields, CallInv, InStep, ClShape,
       MayHaveCloseContext, Closing, Freeing
  <2>4. RefsExact(c)'
    BY ContextNames DEF SocketInv, TypeOK, ClearSend, Goto, fields, CallInv, InStep,
       IoShape, ClShape, RefsExact, CallerHolds, CompletionHolds, NoIoContext,
       Operations, MayHaveCloseContext, Closing, Freeing
  <2>5. QED
    BY <2>1, <2>2, <2>3, <2>4 DEF CallInv
<1>4. \A d \in Calls : CallInv(d)'
  BY <1>2, <1>3, SameCallInv DEF SocketInv
<1>5. Alone'
  BY StillAlone DEF SocketInv, TypeOK, ClearSend, Goto, Running
<1>6. \A d \in Calls : Natives(d)'
  BY ContextNames DEF SocketInv, TypeOK, ClearSend, Goto, fields, CallInv, InStep,
     IoShape, Natives, Unpublished, Waiting, Closing, Freeing
<1>7. ClosingOnce'
  <2>1. \A d \in Calls : ClosingUndisturbed(d)
    BY DEF SocketInv, TypeOK, ClearSend, Goto, fields, CallInv, InStep, ClShape,
       ClosingUndisturbed, OutOfWay, Waiting, Closing, Freeing
  <2>2. QED
    BY <2>1, SameClosing DEF SocketInv, TypeOK, ClearSend, fields
<1>8. RundownExact'
  BY SameRundown DEF SocketInv, TypeOK, ClearSend, Goto, fields, CallInv, InStep,
     HoldsRundown, AboutToTake, Waiting, Closing, Freeing
<1>9. QED
  BY <1>1, <1>4, <1>5, <1>6, <1>7, <1>8 DEF SocketInv

LEMMA ClearReceivePreserves ==
    ASSUME SocketInv, NEW c \in Calls, ClearReceive(c), UNCHANGED <<discipline, allocFails>>
    PROVE  SocketInv'
<1>1. TypeOK'
  BY DEF SocketInv, TypeOK, ClearReceive, Goto, Steps, fields
<1>2. \A d \in Calls \ {c} : SameCall(d)
  BY ContextNames DEF SocketInv, TypeOK, ClearReceive, Goto, fields, SameCall
<1>3. CallInv(c)'
  <2>1. InStep(kind[c], pc[c])'
    BY  DEF SocketInv, TypeOK, ClearReceive, Goto, CallInv, InStep, Waiting, Closing,
       Freeing
  <2>2. IoShape(c)'
    BY  DEF SocketInv, TypeOK, ClearReceive, Goto, fields, CallInv, InStep, IoShape,
       Waiting, Closing, Freeing, Unprepared, NoIoContext, Operations
  <2>3. ClShape(c)'
    BY  DEF SocketInv, TypeOK, ClearReceive, Goto, fields, CallInv, InStep, ClShape,
       MayHaveCloseContext, Closing, Freeing
  <2>4. RefsExact(c)'
    BY ContextNames DEF SocketInv, TypeOK, ClearReceive, Goto, fields, CallInv, InStep,
       IoShape, ClShape, RefsExact, CallerHolds, CompletionHolds, NoIoContext,
       Operations, MayHaveCloseContext, Closing, Freeing
  <2>5. QED
    BY <2>1, <2>2, <2>3, <2>4 DEF CallInv
<1>4. \A d \in Calls : CallInv(d)'
  BY <1>2, <1>3, SameCallInv DEF SocketInv
<1>5. Alone'
  BY StillAlone DEF SocketInv, TypeOK, ClearReceive, Goto, Running
<1>6. \A d \in Calls : Natives(d)'
  BY ContextNames DEF SocketInv, TypeOK, ClearReceive, Goto, fields, CallInv, InStep,
     IoShape, Natives, Unpublished, Waiting, Closing, Freeing
<1>7. ClosingOnce'
  <2>1. \A d \in Calls : ClosingUndisturbed(d)
    BY DEF SocketInv, TypeOK, ClearReceive, Goto, fields, CallInv, InStep, ClShape,
       ClosingUndisturbed, OutOfWay, Waiting, Closing, Freeing
  <2>2. QED
    BY <2>1, SameClosing DEF SocketInv, TypeOK, ClearReceive, fields
<1>8. RundownExact'
  BY SameRundown DEF SocketInv, TypeOK, ClearReceive, Goto, fields, CallInv, InStep,
     HoldsRundown, AboutToTake, Waiting, Closing, Freeing
<1>9. QED
  BY <1>1, <1>4, <1>5, <1>6, <1>7, <1>8 DEF SocketInv

LEMMA IrpsReleasedPreserves ==
    ASSUME SocketInv, NEW c \in Calls, IrpsReleased(c), UNCHANGED <<discipline, allocFails>>
    PROVE  SocketInv'
<1>1. TypeOK'
  BY ZenonT(60) DEF SocketInv, TypeOK, IrpsReleased, AfterClose, Goto, Steps, fields
<1>2. \A d \in Calls \ {c} : SameCall(d)
  BY ContextNames DEF SocketInv, TypeOK, IrpsReleased, AfterClose, Goto, fields,
     SameCall
<1>3. CallInv(c)'
  <2>1. InStep(kind[c], pc[c])'
    BY  DEF SocketInv, TypeOK, IrpsReleased, AfterClose, Goto, CallInv, InStep, Waiting,
       Closing, Freeing
  <2>2. IoShape(c)'
    BY  DEF SocketInv, TypeOK, IrpsReleased, AfterClose, Goto, fields, CallInv, InStep,
       IoShape, Waiting, Closing, Freeing, Unprepared, NoIoContext, Operations
  <2>3. ClShape(c)'
    BY  DEF SocketInv, TypeOK, IrpsReleased, AfterClose, Goto, fields, CallInv, InStep,
       ClShape, MayHaveCloseContext, Closing, Freeing
  <2>4. RefsExact(c)'
    BY ContextNames DEF SocketInv, TypeOK, IrpsReleased, AfterClose, Goto, fields,
       CallInv, InStep, IoShape, ClShape, RefsExact, CallerHolds, CompletionHolds,
       NoIoContext, Operations, MayHaveCloseContext, Closing, Freeing
  <2>5. QED
    BY <2>1, <2>2, <2>3, <2>4 DEF CallInv
<1>4. \A d \in Calls : CallInv(d)'
  BY <1>2, <1>3, SameCallInv DEF SocketInv
<1>5. Alone'
  BY StillAlone DEF SocketInv, TypeOK, IrpsReleased, AfterClose, Goto, Running
<1>6. \A d \in Calls : Natives(d)'
  BY ContextNames DEF SocketInv, TypeOK, IrpsReleased, AfterClose, Goto, fields,
     CallInv, InStep, IoShape, Natives, Unpublished, Waiting, Closing, Freeing
<1>7. ClosingOnce'
  <2>1. CASE UNCHANGED closeIssued_
    <3>1. \A d \in Calls : ClosingUndisturbed(d)
      BY DEF SocketInv, TypeOK, IrpsReleased, AfterClose, Goto, CallInv, InStep,
         ClShape, ClosingUndisturbed, OutOfWay, Closing, Freeing
    <3>2. QED
      BY <2>1, <3>1, SameClosing DEF SocketInv, TypeOK, IrpsReleased
  <2>2. CASE ~UNCHANGED closeIssued_
    <3>1. pc[c] = "freed" /\ ctx[Cl(c)].io = "none" /\ kind[c] # "destroy" /\ socket_ = None
      BY <2>2 DEF SocketInv, ClosingOnce, IrpsReleased, Freeing
    <3>2. \A d \in Calls : pc[d] \notin {"closeIssue", "rundown", "closeSocket"}
      BY <3>1 DEF SocketInv, ClosingOnce, OutOfWay, Freeing
    <3>3. \A d \in Calls : pc'[d] \notin {"closeIssue", "rundown", "closeSocket"}
      BY <3>2 DEF SocketInv, TypeOK, IrpsReleased, AfterClose, Goto
    <3>4. QED
      BY <3>1, <3>3 DEF IrpsReleased, ClosingOnce
  <2>3. QED
    BY <2>1, <2>2
<1>8. RundownExact'
  BY SameRundown DEF SocketInv, TypeOK, IrpsReleased, AfterClose, Goto, fields, CallInv,
     InStep, HoldsRundown, AboutToTake, Waiting, Closing, Freeing
<1>9. QED
  BY <1>1, <1>4, <1>5, <1>6, <1>7, <1>8 DEF SocketInv

LEMMA ConnectedPreserves ==
    ASSUME SocketInv, NEW c \in Calls, Connected(c), UNCHANGED <<discipline, allocFails>>
    PROVE  SocketInv'
<1>a. kind[c] = "connect" /\ socket_ = None /\ c \in Running
  BY DEF SocketInv, CallInv, InStep, Natives, Connected, Running, Waiting, Closing,
     Freeing
<1>b. \A d \in Calls \ {c} : pc[d] \in {"idle", "done"} /\ kind[d] # "destroy"
  BY <1>a DEF SocketInv, Alone, Running
<1>c. /\ \A d \in Calls \ {c} : pc'[d] = pc[d]
      /\ pc'[c] \in {"closeNative", "release"}
  BY DEF SocketInv, TypeOK, Connected, Goto
<1>1. TypeOK'
  BY <1>a, <1>b, <1>c, ZenonT(60) DEF SocketInv, TypeOK, Connected, Goto, Steps, fields
<1>2. \A d \in Calls \ {c} : SameCall(d)
  BY <1>a, <1>b, <1>c, ContextNames DEF SocketInv, TypeOK, Connected, Goto, fields,
     SameCall
<1>3. CallInv(c)'
  <2>1. InStep(kind[c], pc[c])'
    BY  DEF SocketInv, TypeOK, Connected, Goto, CallInv, InStep, Waiting, Closing,
       Freeing
  <2>2. IoShape(c)'
    BY  DEF SocketInv, TypeOK, Connected, Goto, fields, CallInv, InStep, IoShape,
       Waiting, Closing, Freeing, Unprepared, NoIoContext, Operations
  <2>3. ClShape(c)'
    BY  DEF SocketInv, TypeOK, Connected, Goto, fields, CallInv, InStep, ClShape,
       MayHaveCloseContext, Closing, Freeing
  <2>4. RefsExact(c)'
    BY <1>a, <1>c, ContextNames DEF SocketInv, Connected, CallInv, RefsExact,
       CallerHolds, CompletionHolds, NoIoContext, Operations
  <2>5. QED
    BY <2>1, <2>2, <2>3, <2>4 DEF CallInv
<1>4. \A d \in Calls : CallInv(d)'
  BY <1>2, <1>3, SameCallInv DEF SocketInv
<1>5. Alone'
  BY StillAlone DEF SocketInv, TypeOK, Connected, Goto, Running
<1>6. \A d \in Calls : Natives(d)'
  <2>1. Natives(c)'
    BY <1>a, ContextNames DEF SocketInv, TypeOK, Connected, Goto, CallInv, IoShape,
       Natives, Unpublished, Waiting, NoIoContext, Operations
  <2>2. ASSUME NEW d \in Calls \ {c} PROVE Natives(d)'
    BY <1>a, <1>b, <1>c, ContextNames DEF SocketInv, TypeOK, Connected, Natives,
       Unpublished, Waiting
  <2>3. QED
    BY <2>1, <2>2
<1>7. ClosingOnce'
  <2>1. socket_' = None \/ ~closeIssued_'
    BY <1>a DEF Connected
  <2>2. \A d \in Calls : pc'[d] \in {"idle", "done", "closeNative", "release"}
    BY <1>b, <1>c
  <2>3. QED
    BY <1>a, <1>b, <2>1, <2>2 DEF ClosingOnce, Connected, Freeing
<1>8. RundownExact'
  <2>1. \A d \in Calls : ~HoldsRundown(d) /\ ~HoldsRundown(d)' /\ ~AboutToTake(d)'
    BY <1>a, <1>b, <1>c DEF HoldsRundown, AboutToTake, Connected
  <2>2. QED
    BY <1>a, <2>1, SameRundown DEF SocketInv, Connected
<1>9. QED
  BY <1>1, <1>4, <1>5, <1>6, <1>7, <1>8 DEF SocketInv

LEMMA FreeSendPreserves ==
    ASSUME SocketInv, NEW c \in Calls, FreeSend(c), UNCHANGED <<discipline, allocFails>>
    PROVE  SocketInv'
<1>1. TypeOK'
  BY DEF SocketInv, TypeOK, FreeSend, FreeReusable, Goto, Steps, fields
<1>2. \A d \in Calls \ {c} : SameCall(d)
  BY ContextNames DEF SocketInv, TypeOK, FreeSend, FreeReusable, Goto, fields, SameCall
<1>3. CallInv(c)'
  <2>1. InStep(kind[c], pc[c])'
    BY  DEF SocketInv, TypeOK, FreeSend, FreeReusable, Goto, CallInv, InStep, Waiting,
       Closing, Freeing
  <2>2. IoShape(c)'
    BY  DEF SocketInv, TypeOK, FreeSend, FreeReusable, Goto, fields, CallInv, InStep,
       IoShape, Waiting, Closing, Freeing, Unprepared, NoIoContext, Operations
  <2>3. ClShape(c)'
    BY  DEF SocketInv, TypeOK, FreeSend, FreeReusable, Goto, fields, CallInv, InStep,
       ClShape, MayHaveCloseContext, Closing, Freeing
  <2>4. RefsExact(c)'
    BY ContextNames DEF SocketInv, TypeOK, FreeSend, FreeReusable, Goto, fields,
       CallInv, InStep, IoShape, ClShape, RefsExact, CallerHolds, CompletionHolds,
       NoIoContext, Operations, MayHaveCloseContext, Closing, Freeing
  <2>5. QED
    BY <2>1, <2>2, <2>3, <2>4 DEF CallInv
<1>4. \A d \in Calls : CallInv(d)'
  BY <1>2, <1>3, SameCallInv DEF SocketInv
<1>5. Alone'
  BY StillAlone DEF SocketInv, TypeOK, FreeSend, FreeReusable, Goto, Running
<1>6. \A d \in Calls : Natives(d)'
  BY ContextNames DEF SocketInv, TypeOK, FreeSend, FreeReusable, Goto, fields, CallInv,
     InStep, IoShape, Natives, Unpublished, Waiting, Closing, Freeing
<1>7. ClosingOnce'
  <2>1. \A d \in Calls : ClosingUndisturbed(d)
    BY DEF SocketInv, TypeOK, FreeSend, FreeReusable, Goto, fields, CallInv, InStep,
       ClShape, ClosingUndisturbed, OutOfWay, Waiting, Closing, Freeing
  <2>2. QED
    BY <2>1, SameClosing DEF SocketInv, TypeOK, FreeSend, FreeReusable, fields
<1>8. RundownExact'
  BY SameRundown DEF SocketInv, TypeOK, FreeSend, FreeReusable, Goto, fields, CallInv,
     InStep, HoldsRundown, AboutToTake, Waiting, Closing, Freeing
<1>9. QED
  BY <1>1, <1>4, <1>5, <1>6, <1>7, <1>8 DEF SocketInv

LEMMA FreeReceivePreserves ==
    ASSUME SocketInv, NEW c \in Calls, FreeReceive(c), UNCHANGED <<discipline, allocFails>>
    PROVE  SocketInv'
<1>1. TypeOK'
  BY DEF SocketInv, TypeOK, FreeReceive, FreeReusable, Goto, Steps, fields
<1>2. \A d \in Calls \ {c} : SameCall(d)
  BY ContextNames DEF SocketInv, TypeOK, FreeReceive, FreeReusable, Goto, fields,
     SameCall
<1>3. CallInv(c)'
  <2>1. InStep(kind[c], pc[c])'
    BY  DEF SocketInv, TypeOK, FreeReceive, FreeReusable, Goto, CallInv, InStep,
       Waiting, Closing, Freeing
  <2>2. IoShape(c)'
    BY  DEF SocketInv, TypeOK, FreeReceive, FreeReusable, Goto, fields, CallInv, InStep,
       IoShape, Waiting, Closing, Freeing, Unprepared, NoIoContext, Operations
  <2>3. ClShape(c)'
    BY  DEF SocketInv, TypeOK, FreeReceive, FreeReusable, Goto, fields, CallInv, InStep,
       ClShape, MayHaveCloseContext, Closing, Freeing
  <2>4. RefsExact(c)'
    BY ContextNames DEF SocketInv, TypeOK, FreeReceive, FreeReusable, Goto, fields,
       CallInv, InStep, IoShape, ClShape, RefsExact, CallerHolds, CompletionHolds,
       NoIoContext, Operations, MayHaveCloseContext, Closing, Freeing
  <2>5. QED
    BY <2>1, <2>2, <2>3, <2>4 DEF CallInv
<1>4. \A d \in Calls : CallInv(d)'
  BY <1>2, <1>3, SameCallInv DEF SocketInv
<1>5. Alone'
  BY StillAlone DEF SocketInv, TypeOK, FreeReceive, FreeReusable, Goto, Running
<1>6. \A d \in Calls : Natives(d)'
  BY ContextNames DEF SocketInv, TypeOK, FreeReceive, FreeReusable, Goto, fields,
     CallInv, InStep, IoShape, Natives, Unpublished, Waiting, Closing, Freeing
<1>7. ClosingOnce'
  <2>1. \A d \in Calls : ClosingUndisturbed(d)
    BY DEF SocketInv, TypeOK, FreeReceive, FreeReusable, Goto, fields, CallInv, InStep,
       ClShape, ClosingUndisturbed, OutOfWay, Waiting, Closing, Freeing
  <2>2. QED
    BY <2>1, SameClosing DEF SocketInv, TypeOK, FreeReceive, FreeReusable, fields
<1>8. RundownExact'
  BY SameRundown DEF SocketInv, TypeOK, FreeReceive, FreeReusable, Goto, fields,
     CallInv, InStep, HoldsRundown, AboutToTake, Waiting, Closing, Freeing
<1>9. QED
  BY <1>1, <1>4, <1>5, <1>6, <1>7, <1>8 DEF SocketInv

LEMMA WskSyncAllocateIrpPreserves ==
    ASSUME SocketInv, NEW c \in Calls, WskSyncAllocateIrp(c), UNCHANGED <<discipline, allocFails>>
    PROVE  SocketInv'
<1>a. /\ ctx' \in [CtxIds -> ContextType] /\ OthersSame(c)
      /\ Fresh(ctx'[Io(c)]) /\ ctx'[Cl(c)] = ctx[Cl(c)]
  BY IoInitialized, ContextNames DEF SocketInv, WskSyncAllocateIrp
<1>1. TypeOK'
  BY <1>a DEF SocketInv, TypeOK, WskSyncAllocateIrp, Goto, Steps, fields
<1>2. \A d \in Calls \ {c} : SameCall(d)
  BY <1>a DEF SocketInv, TypeOK, WskSyncAllocateIrp, Goto, SameCall, OthersSame
<1>3. CallInv(c)' /\ Natives(c)'
  <2>1. pc[c] \in Unprepared /\ pc'[c] \in {"acquire", "submit"} /\ kind[c] \in Operations
    BY DEF SocketInv, TypeOK, WskSyncAllocateIrp, Goto, CallInv, InStep, Unprepared,
       Operations, Waiting, Closing, Freeing
  <2>2. InStep(kind[c], pc'[c])
    BY DEF SocketInv, TypeOK, WskSyncAllocateIrp, Goto, CallInv, InStep, Waiting,
       Closing, Freeing
  <2>3. QED
    BY <1>a, <2>1, <2>2, AllocatedCall DEF SocketInv, WskSyncAllocateIrp, fields
<1>4. \A d \in Calls : CallInv(d)'
  BY <1>2, <1>3, SameCallInv DEF SocketInv
<1>5. Alone'
  BY StillAlone DEF SocketInv, TypeOK, WskSyncAllocateIrp, Goto, Running
<1>6. \A d \in Calls : Natives(d)'
  BY <1>2, <1>3, SameNatives DEF SocketInv, WskSyncAllocateIrp, fields
<1>7. ClosingOnce'
  <2>1. ClosingUndisturbed(c)
    BY <1>a DEF SocketInv, TypeOK, WskSyncAllocateIrp, Goto, fields, CallInv, InStep,
       ClosingUndisturbed, OutOfWay, Waiting, Closing, Freeing
  <2>2. QED
    BY <1>2, <2>1, SameUndisturbed, SameClosing DEF SocketInv, WskSyncAllocateIrp,
       fields
<1>8. RundownExact'
  BY SameRundown DEF SocketInv, TypeOK, WskSyncAllocateIrp, Goto, fields, CallInv,
     InStep, HoldsRundown, AboutToTake, Waiting, Closing, Freeing
<1>9. QED
  BY <1>1, <1>4, <1>5, <1>6, <1>7, <1>8 DEF SocketInv

LEMMA ConnectAllocatePreserves ==
    ASSUME SocketInv, NEW c \in Calls, ConnectAllocate(c), UNCHANGED <<discipline, allocFails>>
    PROVE  SocketInv'
<1>a. /\ ctx' \in [CtxIds -> ContextType] /\ OthersSame(c)
      /\ Fresh(ctx'[Io(c)]) /\ ctx'[Cl(c)] = ctx[Cl(c)]
  BY IoInitialized, ContextNames DEF SocketInv, ConnectAllocate
<1>1. TypeOK'
  BY <1>a DEF SocketInv, TypeOK, ConnectAllocate, Goto, Steps, fields
<1>2. \A d \in Calls \ {c} : SameCall(d)
  BY <1>a DEF SocketInv, TypeOK, ConnectAllocate, Goto, SameCall, OthersSame
<1>3. CallInv(c)' /\ Natives(c)'
  <2>1. pc[c] \in Unprepared /\ pc'[c] \in {"acquire", "submit"} /\ kind[c] \in Operations
    BY DEF SocketInv, TypeOK, ConnectAllocate, Goto, CallInv, InStep, Unprepared,
       Operations, Waiting, Closing, Freeing
  <2>2. InStep(kind[c], pc'[c])
    BY DEF SocketInv, TypeOK, ConnectAllocate, Goto, CallInv, InStep, Waiting, Closing,
       Freeing
  <2>3. QED
    BY <1>a, <2>1, <2>2, AllocatedCall DEF SocketInv, ConnectAllocate, fields
<1>4. \A d \in Calls : CallInv(d)'
  BY <1>2, <1>3, SameCallInv DEF SocketInv
<1>5. Alone'
  BY StillAlone DEF SocketInv, TypeOK, ConnectAllocate, Goto, Running
<1>6. \A d \in Calls : Natives(d)'
  BY <1>2, <1>3, SameNatives DEF SocketInv, ConnectAllocate, fields
<1>7. ClosingOnce'
  <2>1. ClosingUndisturbed(c)
    BY <1>a DEF SocketInv, TypeOK, ConnectAllocate, Goto, fields, CallInv, InStep,
       ClosingUndisturbed, OutOfWay, Waiting, Closing, Freeing
  <2>2. QED
    BY <1>2, <2>1, SameUndisturbed, SameClosing DEF SocketInv, ConnectAllocate, fields
<1>8. RundownExact'
  BY SameRundown DEF SocketInv, TypeOK, ConnectAllocate, Goto, fields, CallInv, InStep,
     HoldsRundown, AboutToTake, Waiting, Closing, Freeing
<1>9. QED
  BY <1>1, <1>4, <1>5, <1>6, <1>7, <1>8 DEF SocketInv

LEMMA PrepareReusableIrpPreserves ==
    ASSUME SocketInv, NEW c \in Calls, PrepareReusableIrp(c), UNCHANGED <<discipline, allocFails>>
    PROVE  SocketInv'
<1>a. ReusableIrp(c) = None => /\ ctx' \in [CtxIds -> ContextType] /\ OthersSame(c)
                                /\ Fresh(ctx'[Io(c)]) /\ ctx'[Cl(c)] = ctx[Cl(c)]
  <2>1. HAVE ReusableIrp(c) = None
  <2>2. Io(c) \in CtxIds
    BY ContextNames
  <2>3. PICK irp \in CtxIds : ctx' = WskSyncInitializeIrpContext(ctx, Io(c), irp, TRUE)
    BY <2>1, <2>2 DEF SocketInv, TypeOK, PrepareReusableIrp
  <2>4. QED
    BY <2>3, IoInitialized DEF SocketInv
<1>b. ctx' \in [CtxIds -> ContextType] /\ OthersSame(c)
  BY <1>a DEF SocketInv, TypeOK, PrepareReusableIrp, OthersSame
<1>1. TypeOK'
  <2>1. Io(c) \in CtxIds
    BY ContextNames
  <2>2. sendIrp_' \in CtxIds \cup {None} /\ receiveIrp_' \in CtxIds \cup {None}
    BY <2>1 DEF SocketInv, TypeOK, PrepareReusableIrp, SetReusableIrp
  <2>3. QED
    BY <1>b, <2>2, ZenonT(60) DEF SocketInv, TypeOK, PrepareReusableIrp, Goto, Steps
<1>2. \A d \in Calls \ {c} : SameCall(d)
  BY <1>b DEF SocketInv, TypeOK, PrepareReusableIrp, Goto, SameCall, OthersSame
<1>3. CallInv(c)' /\ Natives(c)'
  <2>1. CASE ReusableIrp(c) = None
    <3>1. pc[c] \in Unprepared /\ pc'[c] = "acquire" /\ kind[c] \in Operations
      BY <2>1 DEF SocketInv, TypeOK, PrepareReusableIrp, Goto, CallInv, InStep,
         Unprepared, Operations, Waiting, Closing, Freeing
    <3>2. InStep(kind[c], pc'[c])
      BY <2>1 DEF SocketInv, TypeOK, PrepareReusableIrp, Goto, CallInv, InStep, Waiting,
         Closing, Freeing
    <3>3. QED
      BY <1>a, <2>1, <3>1, <3>2, AllocatedCall DEF SocketInv, PrepareReusableIrp, fields
  <2>2. CASE ~(ReusableIrp(c) = None)
    <3>1. pc[c] \in {"prepare", "reuse"} /\ pc'[c] \in {"reuse", "bugcheck"} /\ UNCHANGED ctx
      BY <2>2 DEF SocketInv, TypeOK, PrepareReusableIrp, Goto
    <3>2. InStep(kind[c], pc[c])'
      BY <3>1 DEF SocketInv, TypeOK, PrepareReusableIrp, CallInv, InStep, Waiting,
         Closing, Freeing
    <3>3. IoShape(c)' /\ ClShape(c)'
      BY <3>1 DEF SocketInv, PrepareReusableIrp, CallInv, IoShape, ClShape, Unprepared,
         NoIoContext, Operations, Waiting, MayHaveCloseContext, Freeing
    <3>4. RefsExact(c)'
      BY <3>1, ContextNames DEF SocketInv, PrepareReusableIrp, CallInv, RefsExact,
         CallerHolds, CompletionHolds, NoIoContext
    <3>5. Natives(c)'
      BY <3>1 DEF SocketInv, PrepareReusableIrp, fields, Natives, Unpublished, Waiting
    <3>6. QED
      BY <3>2, <3>3, <3>4, <3>5 DEF CallInv
  <2>3. QED
    BY <2>1, <2>2
<1>4. \A d \in Calls : CallInv(d)'
  BY <1>2, <1>3, SameCallInv DEF SocketInv
<1>5. Alone'
  BY StillAlone DEF SocketInv, TypeOK, PrepareReusableIrp, Goto, Running
<1>6. \A d \in Calls : Natives(d)'
  BY <1>2, <1>3, SameNatives DEF SocketInv, PrepareReusableIrp, fields
<1>7. ClosingOnce'
  <2>1. ClosingUndisturbed(c)
    BY <1>b, ZenonT(60) DEF SocketInv, TypeOK, PrepareReusableIrp, Goto, fields, CallInv, InStep,
       ClosingUndisturbed, OutOfWay, Waiting, Closing, Freeing
  <2>2. QED
    BY <1>2, <2>1, SameUndisturbed, SameClosing DEF SocketInv, PrepareReusableIrp,
       fields
<1>8. RundownExact'
  BY SameRundown, ZenonT(60) DEF SocketInv, TypeOK, PrepareReusableIrp, Goto, fields, CallInv,
     InStep, HoldsRundown, AboutToTake, Waiting, Closing, Freeing
<1>9. QED
  BY <1>1, <1>4, <1>5, <1>6, <1>7, <1>8 DEF SocketInv

LEMMA IoReuseIrpPreserves ==
    ASSUME SocketInv, NEW c \in Calls, IoReuseIrp(c), UNCHANGED <<discipline, allocFails>>
    PROVE  SocketInv'
<1>a. ReusableIrp(c) # None => /\ ctx' \in [CtxIds -> ContextType] /\ OthersSame(c)
                                /\ Fresh(ctx'[Io(c)]) /\ ctx'[Cl(c)] = ctx[Cl(c)]
  <2>1. HAVE ReusableIrp(c) # None
  <2>2. Io(c) \in CtxIds
    BY ContextNames
  <2>3. PICK irp \in CtxIds : ctx' = WskSyncInitializeIrpContext(ctx, Io(c), irp, TRUE)
    BY <2>1, <2>2 DEF SocketInv, TypeOK, IoReuseIrp, ReusableIrp
  <2>4. QED
    BY <2>3, IoInitialized DEF SocketInv
<1>b. ctx' \in [CtxIds -> ContextType] /\ OthersSame(c)
  BY <1>a DEF SocketInv, TypeOK, IoReuseIrp, OthersSame
<1>1. TypeOK'
  BY <1>b, ZenonT(60) DEF SocketInv, TypeOK, IoReuseIrp, Goto, Steps, fields
<1>2. \A d \in Calls \ {c} : SameCall(d)
  BY <1>b DEF SocketInv, TypeOK, IoReuseIrp, Goto, SameCall, OthersSame
<1>3. CallInv(c)' /\ Natives(c)'
  <2>1. CASE ReusableIrp(c) # None
    <3>1. pc[c] \in Unprepared /\ pc'[c] = "acquire" /\ kind[c] \in Operations
      BY <2>1 DEF SocketInv, TypeOK, IoReuseIrp, Goto, CallInv, InStep, Unprepared,
         Operations, Waiting, Closing, Freeing
    <3>2. InStep(kind[c], pc'[c])
      BY <2>1 DEF SocketInv, TypeOK, IoReuseIrp, Goto, CallInv, InStep, Waiting,
         Closing, Freeing
    <3>3. QED
      BY <1>a, <2>1, <3>1, <3>2, AllocatedCall DEF SocketInv, IoReuseIrp, fields
  <2>2. CASE ~(ReusableIrp(c) # None)
    <3>1. pc[c] \in {"prepare", "reuse"} /\ pc'[c] \in {"reuse", "bugcheck"} /\ UNCHANGED ctx
      BY <2>2 DEF SocketInv, TypeOK, IoReuseIrp, Goto
    <3>2. InStep(kind[c], pc[c])'
      BY <3>1 DEF SocketInv, TypeOK, IoReuseIrp, CallInv, InStep, Waiting, Closing,
         Freeing
    <3>3. IoShape(c)' /\ ClShape(c)'
      BY <3>1 DEF SocketInv, IoReuseIrp, CallInv, IoShape, ClShape, Unprepared,
         NoIoContext, Operations, Waiting, MayHaveCloseContext, Freeing
    <3>4. RefsExact(c)'
      BY <3>1, ContextNames DEF SocketInv, IoReuseIrp, CallInv, RefsExact, CallerHolds,
         CompletionHolds, NoIoContext
    <3>5. Natives(c)'
      BY <3>1 DEF SocketInv, IoReuseIrp, fields, Natives, Unpublished, Waiting
    <3>6. QED
      BY <3>2, <3>3, <3>4, <3>5 DEF CallInv
  <2>3. QED
    BY <2>1, <2>2
<1>4. \A d \in Calls : CallInv(d)'
  BY <1>2, <1>3, SameCallInv DEF SocketInv
<1>5. Alone'
  BY StillAlone DEF SocketInv, TypeOK, IoReuseIrp, Goto, Running
<1>6. \A d \in Calls : Natives(d)'
  BY <1>2, <1>3, SameNatives DEF SocketInv, IoReuseIrp, fields
<1>7. ClosingOnce'
  <2>1. ClosingUndisturbed(c)
    BY <1>b, ZenonT(60) DEF SocketInv, TypeOK, IoReuseIrp, Goto, fields, CallInv, InStep,
       ClosingUndisturbed, OutOfWay, Waiting, Closing, Freeing
  <2>2. QED
    BY <1>2, <2>1, SameUndisturbed, SameClosing DEF SocketInv, IoReuseIrp, fields
<1>8. RundownExact'
  BY SameRundown, ZenonT(60) DEF SocketInv, TypeOK, IoReuseIrp, Goto, fields, CallInv, InStep,
     HoldsRundown, AboutToTake, Waiting, Closing, Freeing
<1>9. QED
  BY <1>1, <1>4, <1>5, <1>6, <1>7, <1>8 DEF SocketInv

LEMMA HandOverPreserves ==
    ASSUME SocketInv, NEW c \in Calls, HandOver(c), UNCHANGED <<discipline, allocFails>>
    PROVE  SocketInv'
<1>a. /\ ctx' \in [CtxIds -> ContextType] /\ OthersSame(c)
      /\ ctx'[Cl(c)] = ctx[Cl(c)]
      /\ ctx'[Io(c)].refs = ctx[Io(c)].refs /\ ctx'[Io(c)].io = ctx[Io(c)].io
      /\ ctx'[Io(c)].completed = ctx[Io(c)].completed
      /\ ctx'[Io(c)].information = ctx[Io(c)].information
      /\ ctx'[Io(c)].owned
  <2> DEFINE r == [ctx[Io(c)] EXCEPT !.owned = TRUE]
  <2>1. Io(c) \in CtxIds /\ ctx[Io(c)] \in ContextType
    BY ContextNames DEF SocketInv, TypeOK
  <2>2. r \in ContextType /\ r.owned /\ r.refs = ctx[Io(c)].refs /\ r.io = ctx[Io(c)].io
        /\ r.completed = ctx[Io(c)].completed /\ r.information = ctx[Io(c)].information
    BY <2>1 DEF ContextType
  <2>3. ctx' = [ctx EXCEPT ![Io(c)] = r]
    BY DEF HandOver
  <2> HIDE DEF r
  <2>4. QED
    BY <2>2, <2>3, IoReplaced DEF SocketInv
<1>b. /\ pc[c] = "handOver" /\ kind[c] \in Operations /\ kind'[c] = kind[c] /\ gave'[c]
      /\ pc'[c] = IF kind[c] = "connect" THEN "connected" ELSE "releaseRundown"
  BY DEF SocketInv, TypeOK, HandOver, Ended, Goto, CallInv, InStep, Operations, Waiting,
     Closing, Freeing
<1>1. TypeOK'
  BY <1>a DEF SocketInv, TypeOK, HandOver, Ended, Goto, Steps, fields
<1>2. \A d \in Calls \ {c} : SameCall(d)
  BY <1>a DEF SocketInv, TypeOK, HandOver, Ended, Goto, SameCall, OthersSame
<1>3. CallInv(c)'
  <2>1. InStep(kind[c], pc[c])'
    BY <1>b DEF InStep, Operations
  <2>2. IoShape(c)'
    BY <1>a, <1>b, ContextNames DEF SocketInv, CallInv, IoShape, RefsExact, CallerHolds,
       Operations, Unprepared, NoIoContext, Waiting
  <2>3. ClShape(c)'
    BY <1>a, <1>b DEF SocketInv, CallInv, ClShape, MayHaveCloseContext, Freeing
  <2>4. RefsExact(c)'
    BY <1>a, <1>b, ContextNames DEF SocketInv, CallInv, RefsExact, CallerHolds,
       CompletionHolds, NoIoContext
  <2>5. QED
    BY <2>1, <2>2, <2>3, <2>4 DEF CallInv
<1>4. \A d \in Calls : CallInv(d)'
  BY <1>2, <1>3, SameCallInv DEF SocketInv
<1>5. Alone'
  BY StillAlone DEF SocketInv, TypeOK, HandOver, Ended, Goto, Running
<1>6. \A d \in Calls : Natives(d)'
  <2>1. Natives(c)'
    BY <1>a DEF SocketInv, TypeOK, HandOver, Ended, Goto, fields, CallInv, InStep,
       IoShape, Natives, Unpublished, Fresh, NoContext, Context, Waiting, Unprepared,
       Closing, Freeing
  <2>2. QED
    BY <1>2, <2>1, SameNatives DEF SocketInv, TypeOK, HandOver, Ended, fields
<1>7. ClosingOnce'
  <2>1. ClosingUndisturbed(c)
    BY <1>a DEF SocketInv, TypeOK, HandOver, Ended, Goto, fields, CallInv, InStep,
       ClosingUndisturbed, OutOfWay, Waiting, Closing, Freeing
  <2>2. QED
    BY <1>2, <2>1, SameUndisturbed, SameClosing DEF SocketInv, HandOver, Ended, fields
<1>8. RundownExact'
  BY SameRundown DEF SocketInv, TypeOK, HandOver, Ended, Goto, fields, CallInv, InStep,
     HoldsRundown, AboutToTake, Waiting, Closing, Freeing
<1>9. QED
  BY <1>1, <1>4, <1>5, <1>6, <1>7, <1>8 DEF SocketInv

LEMMA SubmitPreserves ==
    ASSUME SocketInv, NEW c \in Calls, Submit(c), UNCHANGED <<discipline, allocFails>>
    PROVE  SocketInv'
<1>0. Io(c) \in CtxIds /\ ctx[Io(c)] \in ContextType
  BY ContextNames DEF SocketInv, TypeOK
<1>a. /\ ctx[Io(c)].io = "idle" /\ ctx[Io(c)].refs = 2 /\ ~ctx[Io(c)].owned
      /\ ~ctx[Io(c)].completed /\ ~ctx[Io(c)].information
  BY ContextNames DEF SocketInv, CallInv, InStep, IoShape, RefsExact, CallerHolds,
     CompletionHolds, Submit, Operations, NoIoContext, Waiting, Closing, Freeing
<1>b. /\ ctx' \in [CtxIds -> ContextType] /\ OthersSame(c)
      /\ ctx'[Cl(c)] = ctx[Cl(c)]
      /\ ~ctx'[Io(c)].owned
      /\ \/ /\ pc'[c] = "wait"
            /\ ctx'[Io(c)].io = "pending" /\ ctx'[Io(c)].refs = 2
            /\ ~ctx'[Io(c)].completed /\ ~ctx'[Io(c)].information
            /\ native' = native
         \/ /\ pc'[c] = Ended(c)
            /\ ctx'[Io(c)].io = "returned" /\ ctx'[Io(c)].refs = 1
            /\ ctx'[Io(c)].information => kind[c] = "connect"
            /\ native' = [native EXCEPT ![c] = IF ctx'[Io(c)].information THEN "open" ELSE @]
  <2>1. CASE ctx' = [ctx EXCEPT ![Io(c)].io = "pending"] /\ Goto(c, "wait") /\ UNCHANGED native
    <3> DEFINE r == [ctx[Io(c)] EXCEPT !.io = "pending"]
    <3>1. r \in ContextType /\ r.io = "pending" /\ r.refs = 2 /\ ~r.owned /\ ~r.completed /\ ~r.information
      BY <1>0, <1>a DEF ContextType
    <3>2. ctx' = [ctx EXCEPT ![Io(c)] = r]
      BY <2>1
    <3> HIDE DEF r
    <3>5. /\ ctx' \in [CtxIds -> ContextType] /\ OthersSame(c)
          /\ ctx'[Io(c)] = r /\ ctx'[Cl(c)] = ctx[Cl(c)]
      BY <3>1, <3>2, IoReplaced DEF SocketInv
    <3>6. QED
      BY <2>1, <3>1, <3>2, <3>5 DEF SocketInv, TypeOK, Goto
  <2>2. ASSUME NEW ok \in BOOLEAN,
               ctx' = [ctx EXCEPT ![Io(c)].io = "returned", ![Io(c)].refs = 1,
                                ![Io(c)].completed = TRUE,
                                ![Io(c)].information = ok /\ kind[c] = "connect"],
               native' = [native EXCEPT ![c] = IF ok /\ kind[c] = "connect" THEN "open" ELSE @],
               Goto(c, Ended(c))
        PROVE  <1>b
    <3> DEFINE r == [ctx[Io(c)] EXCEPT !.io = "returned", !.refs = 1, !.completed = TRUE,
                                       !.information = ok /\ kind[c] = "connect"]
    <3>1. r \in ContextType
      <4> DEFINE r1 == [ctx[Io(c)] EXCEPT !.io = "returned"]
      <4> DEFINE r2 == [r1 EXCEPT !.refs = 1]
      <4> DEFINE r3 == [r2 EXCEPT !.completed = TRUE]
      <4>1. r1 \in ContextType
        BY <1>0 DEF ContextType
      <4>2. r = [r3 EXCEPT !.information = ok /\ kind[c] = "connect"]
        OBVIOUS
      <4> HIDE DEF r1
      <4>3. r2 \in ContextType
        BY <4>1 DEF ContextType
      <4> HIDE DEF r2
      <4>4. r3 \in ContextType
        BY <4>3 DEF ContextType
      <4> HIDE DEF r3
      <4>5. QED
        BY <4>2, <4>4 DEF ContextType
    <3>2. r.io = "returned" /\ r.refs = 1 /\ ~r.owned /\ r.information = (ok /\ kind[c] = "connect")
      BY <1>0, <1>a DEF ContextType
    <3>3. ctx' = [ctx EXCEPT ![Io(c)] = r]
      BY <1>0, <2>2
    <3> HIDE DEF r
    <3>5. /\ ctx' \in [CtxIds -> ContextType] /\ OthersSame(c)
          /\ ctx'[Io(c)] = r /\ ctx'[Cl(c)] = ctx[Cl(c)]
      BY <3>1, <3>3, IoReplaced DEF SocketInv
    <3>6. QED
      BY <2>2, <3>1, <3>2, <3>5 DEF SocketInv, TypeOK, Goto
  <2>3. CASE /\ ctx' = [ctx EXCEPT ![Io(c)].io = "returned", ![Io(c)].refs = 1]
             /\ Goto(c, Ended(c)) /\ UNCHANGED native
    <3> DEFINE r == [ctx[Io(c)] EXCEPT !.io = "returned", !.refs = 1]
    <3>1. r.io = "returned" /\ r.refs = 1 /\ ~r.owned /\ ~r.information
      BY <1>0, <1>a DEF ContextType
    <3>4. r \in ContextType
      <4> DEFINE r1 == [ctx[Io(c)] EXCEPT !.io = "returned"]
      <4>1. r1 \in ContextType
        BY <1>0 DEF ContextType
      <4>2. r = [r1 EXCEPT !.refs = 1]
        OBVIOUS
      <4> HIDE DEF r1, r
      <4>3. QED
        BY <4>1, <4>2 DEF ContextType
    <3>2. ctx' = [ctx EXCEPT ![Io(c)] = r]
      BY <1>0, <2>3
    <3> HIDE DEF r
    <3>5. /\ ctx' \in [CtxIds -> ContextType] /\ OthersSame(c)
          /\ ctx'[Io(c)] = r /\ ctx'[Cl(c)] = ctx[Cl(c)]
      BY <3>2, <3>4, IoReplaced DEF SocketInv
    <3>6. QED
      BY <2>3, <3>1, <3>2, <3>5 DEF SocketInv, TypeOK, Goto
  <2>9. QED
    BY <2>1, <2>2, <2>3 DEF Submit
<1>c. /\ pc[c] = "submit" /\ kind[c] \in Operations /\ kind'[c] = kind[c] /\ gave'[c] = gave[c]
      /\ pc'[c] \in {"wait", "connected", "releaseRundown"}
      /\ pc'[c] = "wait" \/ (pc'[c] = "connected" <=> kind[c] = "connect")
  BY DEF SocketInv, TypeOK, Submit, Ended, Goto, CallInv, InStep, Operations, Waiting,
     Closing, Freeing
<1>1. TypeOK'
  BY <1>a, <1>b DEF SocketInv, TypeOK, Submit, Ended, Goto, Steps, fields
<1>2. \A d \in Calls \ {c} : SameCall(d)
  BY <1>a, <1>b DEF SocketInv, TypeOK, Submit, Ended, Goto, SameCall, OthersSame
<1>3. CallInv(c)'
  <2>1. InStep(kind[c], pc[c])'
    BY <1>c DEF InStep, Operations, Waiting
  <2>2. IoShape(c)'
    BY <1>a, <1>b, <1>c DEF SocketInv, CallInv, IoShape, Ended, Operations, Unprepared,
       NoIoContext, Waiting
  <2>3. ClShape(c)'
    BY <1>b, <1>c DEF SocketInv, CallInv, ClShape, MayHaveCloseContext, Freeing
  <2>4. RefsExact(c)'
    BY <1>b, <1>c, ContextNames DEF SocketInv, CallInv, RefsExact, CallerHolds,
       CompletionHolds, NoIoContext, Ended
  <2>5. QED
    BY <2>1, <2>2, <2>3, <2>4 DEF CallInv
<1>4. \A d \in Calls : CallInv(d)'
  BY <1>2, <1>3, SameCallInv DEF SocketInv
<1>5. Alone'
  BY StillAlone DEF SocketInv, TypeOK, Submit, Ended, Goto, Running
<1>6. \A d \in Calls : Natives(d)'
  <2>1. Natives(c)'
    BY <1>a, <1>b DEF SocketInv, TypeOK, Submit, Ended, Goto, fields, CallInv, InStep,
       IoShape, Natives, Unpublished, Fresh, NoContext, Context, Waiting, Unprepared,
       Closing, Freeing
  <2>2. QED
    BY <1>2, <2>1, SameNatives DEF SocketInv, TypeOK, Submit, Ended, fields
<1>7. ClosingOnce'
  <2>1. ClosingUndisturbed(c)
    BY <1>a, <1>b DEF SocketInv, TypeOK, Submit, Ended, Goto, fields, CallInv, InStep,
       ClosingUndisturbed, OutOfWay, Waiting, Closing, Freeing
  <2>2. QED
    BY <1>2, <2>1, SameUndisturbed, SameClosing DEF SocketInv, Submit, Ended, fields
<1>8. RundownExact'
  BY SameRundown DEF SocketInv, TypeOK, Submit, Ended, Goto, fields, CallInv, InStep,
     HoldsRundown, AboutToTake, Waiting, Closing, Freeing
<1>9. QED
  BY <1>1, <1>4, <1>5, <1>6, <1>7, <1>8 DEF SocketInv

LEMMA AcquireIoRundownPreserves ==
    ASSUME SocketInv, NEW c \in Calls, AcquireIoRundown(c), UNCHANGED <<discipline, allocFails>>
    PROVE  SocketInv'
<1>a. /\ pc[c] = "acquire" /\ kind[c] \in {"send", "receive", "disconnect"} /\ ~gave[c]
      /\ ctx[Io(c)].refs = 2 /\ ctx[Io(c)].io = "idle"
      /\ kind' = kind /\ gave' = gave
      /\ UNCHANGED <<socket_, closeIssued_, native, closes>>
  BY ContextNames DEF SocketInv, CallInv, InStep, IoShape, RefsExact, CallerHolds,
     CompletionHolds, AcquireIoRundown, Operations, NoIoContext, Waiting, Closing,
     Freeing
<1>b. \/ /\ pc' = [pc EXCEPT ![c] = "submit"] /\ UNCHANGED <<ctx, frees>>
         /\ ~rundown.down /\ ~rundown'.down /\ rundown'.count = rundown.count + 1
         /\ rundown' \in [count : Nat, down : BOOLEAN]
      \/ /\ pc' = [pc EXCEPT ![c] = "done"] /\ UNCHANGED rundown
         /\ ctx' = OneLess(OneLess(ctx, Io(c)), Io(c))
         /\ frees' = IrpsFreed(OneLess(ctx, Io(c)), Io(c))
  BY DEF SocketInv, TypeOK, AcquireIoRundown, Goto
<1>c. \/ pc'[c] = "submit" /\ UNCHANGED ctx
      \/ /\ pc'[c] = "done"
         /\ ctx' \in [CtxIds -> ContextType] /\ OthersSame(c) /\ ctx'[Cl(c)] = ctx[Cl(c)]
         /\ ctx'[Io(c)].refs = 0 /\ ctx'[Io(c)].io = "returned" /\ ~ctx'[Io(c)].owned
         /\ ~ctx'[Io(c)].completed /\ ~ctx'[Io(c)].information
  <2>1. CASE pc'[c] = "submit" /\ UNCHANGED ctx
    BY <2>1
  <2>2. CASE pc'[c] = "done" /\ ctx' = OneLess(OneLess(ctx, Io(c)), Io(c))
    <3> DEFINE less == OneLess(ctx, Io(c))
    <3>1. Io(c) \in CtxIds /\ ctx \in Tables
      BY ContextNames DEF SocketInv, TypeOK, Tables
    <3>2. less \in Tables /\ less[Io(c)].refs = 1 /\ \A y \in CtxIds \ {Io(c)} : less[y] = ctx[y]
      BY <1>a, <3>1, OneLessEffect
    <3> HIDE DEF less
    <3>3. /\ ctx' \in Tables /\ \A y \in CtxIds \ {Io(c)} : ctx'[y] = ctx[y]
          /\ ctx'[Io(c)].refs = 0 /\ ctx'[Io(c)].io = "returned" /\ ~ctx'[Io(c)].owned
          /\ ~ctx'[Io(c)].completed /\ ~ctx'[Io(c)].information
      BY <2>2, <3>1, <3>2, OneLessEffect DEF less
    <3>4. QED
      BY <2>2, <3>3, ContextNames DEF Tables, OthersSame
  <2>3. QED
    BY <1>b, <2>1, <2>2 DEF SocketInv, TypeOK
<1>d. frees' \in [CtxIds -> Nat]
  BY <1>b, FreesType DEF SocketInv, TypeOK
<1>1. TypeOK'
  BY <1>b, <1>c, <1>d DEF SocketInv, TypeOK, AcquireIoRundown, Steps
<1>2. \A d \in Calls \ {c} : SameCall(d)
  BY <1>b, <1>c DEF SocketInv, TypeOK, AcquireIoRundown, SameCall, OthersSame
<1>3. CallInv(c)'
  <2>1. InStep(kind[c], pc[c])'
    BY <1>a, <1>c DEF InStep, Closing, Freeing, Waiting
  <2>2. IoShape(c)'
    BY <1>a, <1>c DEF SocketInv, CallInv, IoShape, Operations, Unprepared, NoIoContext,
       Waiting
  <2>3. ClShape(c)'
    BY <1>a, <1>c DEF SocketInv, CallInv, ClShape, NoContext, Context,
       MayHaveCloseContext, Freeing
  <2>4. RefsExact(c)'
    BY <1>a, <1>c, ContextNames DEF SocketInv, CallInv, RefsExact, CallerHolds,
       CompletionHolds, NoIoContext, Operations
  <2>5. QED
    BY <2>1, <2>2, <2>3, <2>4 DEF CallInv
<1>4. \A d \in Calls : CallInv(d)'
  BY <1>2, <1>3, SameCallInv DEF SocketInv
<1>5. Alone'
  BY <1>a, <1>b, StillAlone DEF SocketInv, TypeOK, Running
<1>6. \A d \in Calls : Natives(d)'
  <2>1. Natives(c)'
    BY <1>a, <1>c DEF SocketInv, Natives, Unpublished, Waiting
  <2>2. QED
    BY <1>a, <1>2, <2>1, SameNatives DEF SocketInv, TypeOK
<1>7. ClosingOnce'
  <2>1. ClosingUndisturbed(c)
    BY <1>a, <1>c DEF ClosingUndisturbed, OutOfWay, Freeing
  <2>2. QED
    BY <1>a, <1>b, <1>2, <2>1, SameUndisturbed, SameClosing DEF SocketInv
<1>8. RundownExact'
  <2>1. \A d \in Calls \ {c} : HoldsRundown(d)' <=> HoldsRundown(d)
    BY <1>2 DEF SameCall, HoldsRundown
  <2>2. ~HoldsRundown(c) /\ (HoldsRundown(c)' <=> pc'[c] = "submit") /\ ~AboutToTake(c)'
    BY <1>a, <1>c DEF HoldsRundown, AboutToTake
  <2>3. CASE ~rundown.down /\ pc'[c] = "submit" /\ rundown'.count = rundown.count + 1
    <3>1. (rundown.count = Cardinality({d \in Calls : HoldsRundown(d)}))'
      BY <2>1, <2>2, <2>3, RundownTaken DEF SocketInv
    <3>2. socket_ # None
      BY <1>a, <2>3 DEF SocketInv, RundownExact
    <3>3. QED
      BY <1>a, <3>1, <3>2 DEF RundownExact
  <2>4. CASE pc'[c] = "done" /\ UNCHANGED rundown
    <3>1. \A d \in Calls : AboutToTake(d)' => AboutToTake(d)
      BY <1>2, <2>2 DEF SameCall, AboutToTake
    <3>2. QED
      BY <1>a, <2>1, <2>2, <2>4, <3>1, SameRundown DEF SocketInv
  <2>5. QED
    BY <1>b, <2>3, <2>4 DEF SocketInv, TypeOK
<1>9. QED
  BY <1>1, <1>4, <1>5, <1>6, <1>7, <1>8 DEF SocketInv

LEMMA CloseNativePreserves ==
    ASSUME SocketInv, NEW c \in Calls, CloseNative(c), UNCHANGED <<discipline, allocFails>>
    PROVE  SocketInv'
<1>a. /\ pc[c] = "closeNative" /\ kind[c] = "connect" /\ ~gave[c] /\ ctx[Io(c)].information
      /\ ~ctx[Io(c)].owned /\ native[c] = "open" /\ closes[c] = 0 /\ socket_ # c
      /\ ctx[Cl(c)] = NoContext
      /\ kind' = kind /\ gave' = gave /\ UNCHANGED <<frees, socket_, closeIssued_, rundown>>
  BY DEF SocketInv, CallInv, InStep, IoShape, ClShape, Natives, Unpublished,
     CloseNative, fields, Operations, NoIoContext, MayHaveCloseContext, Waiting,
     Closing, Freeing
<1>b. \/ /\ pc' = [pc EXCEPT ![c] = "closeWait"]
         /\ native' = [native EXCEPT ![c] = "closed"]
         /\ closes' = [closes EXCEPT ![c] = @ + 1]
         /\ ctx' \in [CtxIds -> ContextType] /\ OthersSame(c) /\ ctx'[Io(c)] = ctx[Io(c)]
         /\ ctx'[Cl(c)].refs = 2 /\ ctx'[Cl(c)].io = "pending" /\ ~ctx'[Cl(c)].completed
         /\ ~ctx'[Cl(c)].owned /\ ~ctx'[Cl(c)].information
      \/ /\ pc' = [pc EXCEPT ![c] = "release"]
         /\ allocFails
         /\ UNCHANGED <<native, closes, ctx>>
  <2>1. CASE ctx' = [WskSyncInitializeIrpContext(ctx, Cl(c), Cl(c), FALSE) EXCEPT ![Cl(c)].io = "pending"]
    <3> DEFINE new == WskSyncInitializeIrpContext(ctx, Cl(c), Cl(c), FALSE)
    <3> DEFINE r == Context(2, "idle", FALSE, Cl(c))
    <3> DEFINE p == [r EXCEPT !.io = "pending"]
    <3>1. Cl(c) \in CtxIds
      BY ContextNames
    <3>2. /\ r \in ContextType /\ r.refs = 2 /\ ~r.completed /\ ~r.owned /\ ~r.information
      BY <3>1 DEF Context, ContextType
    <3>3. new = [ctx EXCEPT ![Cl(c)] = r]
      BY DEF WskSyncInitializeIrpContext
    <3> HIDE DEF r
    <3>4. /\ p \in ContextType /\ p.refs = 2 /\ p.io = "pending"
          /\ ~p.completed /\ ~p.owned /\ ~p.information
      BY <3>2 DEF ContextType
    <3>5. ctx' = [ctx EXCEPT ![Cl(c)] = p]
      BY <2>1, <3>1, <3>3 DEF SocketInv, TypeOK
    <3> HIDE DEF p
    <3>6. QED
      BY <2>1, <3>4, <3>5, ClReplaced DEF SocketInv, CloseNative, Goto
  <2>2. CASE UNCHANGED <<native, closes, ctx>> /\ allocFails /\ Goto(c, "release")
    BY <2>2 DEF Goto
  <2>3. QED
    BY <2>1, <2>2 DEF CloseNative
<1>c. ctx' \in [CtxIds -> ContextType] /\ OthersSame(c) /\ ctx'[Io(c)] = ctx[Io(c)]
      /\ pc'[c] \in {"closeWait", "release"}
  BY <1>b DEF SocketInv, TypeOK, OthersSame
<1>d. \/ pc'[c] = "closeWait" /\ ctx'[Cl(c)].refs = 2 /\ ctx'[Cl(c)].io = "pending"
      \/ pc'[c] = "release" /\ ctx'[Cl(c)].refs = 0 /\ ctx'[Cl(c)].io = "none"
  BY <1>a, <1>b DEF SocketInv, TypeOK, NoContext, Context
<1>1. TypeOK'
  BY <1>b, <1>c DEF SocketInv, TypeOK, CloseNative, fields, Steps
<1>2. \A d \in Calls \ {c} : SameCall(d)
  BY <1>a, <1>b, <1>c DEF SocketInv, TypeOK, SameCall, OthersSame
<1>3. CallInv(c)'
  <2>1. InStep(kind[c], pc[c])'
    BY <1>a, <1>c DEF InStep
  <2>2. IoShape(c)'
    BY <1>a, <1>c DEF SocketInv, CallInv, IoShape, Operations, Unprepared, NoIoContext,
       Waiting
  <2>3. ClShape(c)'
    BY <1>a, <1>b, <1>c DEF SocketInv, TypeOK, CallInv, ClShape, NoContext, Context,
       MayHaveCloseContext, Freeing
  <2>4. RefsExact(c)'
    BY <1>a, <1>c, <1>d, ContextNames DEF SocketInv, CallInv, RefsExact, CallerHolds,
       CompletionHolds, NoIoContext, Operations
  <2>5. QED
    BY <2>1, <2>2, <2>3, <2>4 DEF CallInv
<1>4. \A d \in Calls : CallInv(d)'
  BY <1>2, <1>3, SameCallInv DEF SocketInv
<1>5. Alone'
  BY <1>a, <1>b, StillAlone DEF SocketInv, TypeOK, Running
<1>6. \A d \in Calls : Natives(d)'
  <2>1. Natives(c)'
    BY <1>a, <1>b, <1>c DEF SocketInv, TypeOK, Natives, Unpublished, Waiting
  <2>2. \A d \in Calls \ {c} : native'[d] = native[d] /\ closes'[d] = closes[d]
    BY <1>b DEF SocketInv, TypeOK
  <2>3. QED
    BY <1>a, <1>2, <2>1, <2>2, SameNatives DEF SocketInv, TypeOK
<1>7. ClosingOnce'
  <2>1. ClosingUndisturbed(c)
    BY <1>a, <1>c DEF ClosingUndisturbed, OutOfWay, Freeing
  <2>2. QED
    BY <1>a, <1>b, <1>2, <2>1, SameUndisturbed, SameClosing DEF SocketInv
<1>8. RundownExact'
  <2>1. \A d \in Calls : (HoldsRundown(d)' <=> HoldsRundown(d)) /\ (AboutToTake(d)' => AboutToTake(d))
    BY <1>a, <1>c, <1>2 DEF SameCall, HoldsRundown, AboutToTake
  <2>2. QED
    BY <1>a, <2>1, SameRundown DEF SocketInv
<1>9. QED
  BY <1>1, <1>4, <1>5, <1>6, <1>7, <1>8 DEF SocketInv

LEMMA CloseIssuePreserves ==
    ASSUME SocketInv, NEW c \in Calls, CloseIssue(c), UNCHANGED <<discipline, allocFails>>
    PROVE  SocketInv'
<1>a. /\ pc[c] = "closeIssue" /\ kind[c] \notin {"none", "connect"} /\ ctx[Cl(c)] = NoContext
      /\ kind' = kind /\ gave' = gave /\ UNCHANGED <<socket_, rundown, native, closes>>
  BY DEF SocketInv, CallInv, InStep, ClShape, CloseIssue, MayHaveCloseContext, Waiting,
     Closing, Freeing
<1>b. \/ /\ pc' = [pc EXCEPT ![c] = "rundown"] /\ ~closeIssued_ /\ closeIssued_' = TRUE
         /\ ctx' \in [CtxIds -> ContextType] /\ OthersSame(c)
         /\ Fresh(ctx'[Cl(c)]) /\ ctx'[Io(c)] = ctx[Io(c)]
      \/ /\ pc' = [pc EXCEPT ![c] = AfterClose(c)] /\ UNCHANGED <<ctx, closeIssued_>>
         /\ closeIssued_ \/ allocFails
  <2>1. CASE ctx' = WskSyncInitializeIrpContext(ctx, Cl(c), Cl(c), FALSE) /\ Goto(c, "rundown")
             /\ ~closeIssued_ /\ closeIssued_' = TRUE
    BY <2>1, ClInitialized, ContextNames DEF SocketInv, Goto
  <2>2. CASE Goto(c, AfterClose(c)) /\ UNCHANGED <<ctx, closeIssued_>> /\ (closeIssued_ \/ allocFails)
    BY <2>2 DEF Goto
  <2>3. QED
    BY <2>1, <2>2 DEF CloseIssue
<1>c. ctx' \in [CtxIds -> ContextType] /\ OthersSame(c) /\ ctx'[Io(c)] = ctx[Io(c)]
      /\ pc'[c] \in {"rundown", "done", "freeSend", "release"}
      /\ (pc'[c] = "release" => kind[c] \in {"send", "receive", "disconnect"})
      /\ (pc'[c] = "done" => kind[c] = "close") /\ (pc'[c] = "freeSend" => kind[c] = "destroy")
  BY <1>a, <1>b DEF SocketInv, TypeOK, OthersSame, AfterClose, CallInv, InStep
<1>d. frees' \in [CtxIds -> Nat]
  <2>1. Cl(c) \in CtxIds
    BY ContextNames
  <2>2. frees' = frees \/ frees' = [frees EXCEPT ![Cl(c)] = @ + 1]
    BY DEF CloseIssue
  <2>3. QED
    BY <2>1, <2>2 DEF SocketInv, TypeOK
<1>e. \/ pc'[c] = "rundown" /\ ~closeIssued_ /\ closeIssued_' = TRUE /\ Fresh(ctx'[Cl(c)])
      \/ /\ pc'[c] # "rundown" /\ UNCHANGED closeIssued_ /\ (closeIssued_ \/ allocFails)
         /\ ctx'[Cl(c)] = NoContext
  BY <1>a, <1>b, <1>c DEF SocketInv, TypeOK, AfterClose
<1>1. TypeOK'
  <2>1. pc' \in [Calls -> Steps] /\ closeIssued_' \in BOOLEAN
    BY <1>c, <1>e, ZenonT(60) DEF SocketInv, TypeOK, CloseIssue, Goto, Steps, AfterClose
  <2>2. UNCHANGED <<kind, outcome, gave, socket_, ownershipState_, sendIrp_, receiveIrp_,
                    rundown, native, closes>>
    BY DEF CloseIssue
  <2>3. QED
    BY <1>c, <1>d, <2>1, <2>2 DEF SocketInv, TypeOK
<1>2. \A d \in Calls \ {c} : SameCall(d)
  BY <1>a, <1>b, <1>c DEF SocketInv, TypeOK, SameCall, OthersSame
<1>3. CallInv(c)'
  <2>1. InStep(kind[c], pc[c])'
    BY <1>a, <1>c DEF SocketInv, CallInv, InStep, Waiting, Closing, Freeing
  <2>2. IoShape(c)'
    BY <1>a, <1>c DEF SocketInv, CallInv, IoShape, Operations, Unprepared, NoIoContext,
       Waiting
  <2>3. ClShape(c)'
    BY <1>c, <1>e DEF ClShape, Fresh, NoContext, Context, MayHaveCloseContext, Freeing
  <2>4. RefsExact(c)'
    BY <1>a, <1>c, <1>e, ContextNames DEF SocketInv, CallInv, RefsExact, CallerHolds,
       CompletionHolds, Fresh, NoContext, Context, NoIoContext, Operations
  <2>5. QED
    BY <2>1, <2>2, <2>3, <2>4 DEF CallInv
<1>4. \A d \in Calls : CallInv(d)'
  BY <1>2, <1>3, SameCallInv DEF SocketInv
<1>5. Alone'
  BY <1>a, <1>b, <1>c, StillAlone DEF SocketInv, TypeOK, Running
<1>6. \A d \in Calls : Natives(d)'
  <2>1. Natives(c)'
    BY <1>a, <1>c DEF SocketInv, Natives, Unpublished, Waiting
  <2>2. QED
    BY <1>a, <1>2, <2>1, SameNatives DEF SocketInv, TypeOK
<1>7. ClosingOnce'
  <2>1. CASE pc'[c] = "rundown" /\ ~closeIssued_ /\ closeIssued_' = TRUE
    <3>1. socket_ # None
      BY <1>a, <2>1 DEF SocketInv, ClosingOnce
    <3>2. \A d \in Calls \ {c} : pc'[d] = pc[d] /\ pc[d] \notin {"rundown", "closeSocket"}
      BY <1>2, <2>1 DEF SocketInv, ClosingOnce, SameCall
    <3>3. QED
      BY <1>a, <1>2, <2>1, <3>1, <3>2 DEF SocketInv, ClosingOnce, SameCall, Freeing
  <2>2. CASE pc'[c] # "rundown" /\ UNCHANGED closeIssued_ /\ (closeIssued_ \/ allocFails)
    <3>1. kind[c] # "destroy" \/ socket_ = None \/ allocFails
      BY <1>a, <2>2 DEF SocketInv, ClosingOnce, Alone, Running
    <3>2. ClosingUndisturbed(c)
      BY <1>a, <1>c, <2>2, <3>1 DEF ClosingUndisturbed, OutOfWay, Freeing
    <3>3. QED
      BY <1>a, <1>2, <2>2, <3>2, SameUndisturbed, SameClosing DEF SocketInv
  <2>3. QED
    BY <1>e, <2>1, <2>2
<1>8. RundownExact'
  <2>1. \A d \in Calls : (HoldsRundown(d)' <=> HoldsRundown(d)) /\ (AboutToTake(d)' => AboutToTake(d))
    BY <1>a, <1>c, <1>2 DEF SameCall, HoldsRundown, AboutToTake
  <2>2. QED
    BY <1>a, <2>1, SameRundown DEF SocketInv
<1>9. QED
  BY <1>1, <1>4, <1>5, <1>6, <1>7, <1>8 DEF SocketInv

LEMMA CloseSocketPreserves ==
    ASSUME SocketInv, NEW c \in Calls, CloseSocket(c), UNCHANGED <<discipline, allocFails>>
    PROVE  SocketInv'
<1>a. /\ pc[c] = "closeSocket" /\ socket_ \in Calls /\ closeIssued_ /\ rundown.down
      /\ rundown.count = 0 /\ socket_' = None /\ pc' = [pc EXCEPT ![c] = "closeWait"]
      /\ native' = [native EXCEPT ![socket_] = "closed"]
      /\ closes' = [closes EXCEPT ![socket_] = @ + 1]
      /\ kind' = kind /\ gave' = gave /\ UNCHANGED <<closeIssued_, rundown>>
  BY DEF SocketInv, TypeOK, ClosingOnce, CloseSocket, Goto
<1>b. ctx[Cl(c)].io = "idle" /\ ctx[Cl(c)].refs = 2 /\ kind[c] # "connect" /\ kind[c] # "none"
  BY <1>a, ContextNames DEF SocketInv, CallInv, InStep, ClShape, RefsExact, CallerHolds,
     CompletionHolds, Waiting
<1>c. /\ ctx' \in [CtxIds -> ContextType] /\ OthersSame(c) /\ ctx'[Io(c)] = ctx[Io(c)]
      /\ ctx'[Cl(c)].io = "pending" /\ ctx'[Cl(c)].refs = 2
      /\ ctx'[Cl(c)].completed = ctx[Cl(c)].completed
      /\ ctx'[Cl(c)].owned = ctx[Cl(c)].owned /\ ctx'[Cl(c)].information = ctx[Cl(c)].information
  <2> DEFINE r == [ctx[Cl(c)] EXCEPT !.io = "pending"]
  <2>1. Cl(c) \in CtxIds /\ ctx[Cl(c)] \in ContextType
    BY ContextNames DEF SocketInv, TypeOK
  <2>2. /\ r \in ContextType /\ r.io = "pending" /\ r.refs = 2 /\ r.completed = ctx[Cl(c)].completed
        /\ r.owned = ctx[Cl(c)].owned /\ r.information = ctx[Cl(c)].information
    BY <1>b, <2>1 DEF ContextType
  <2>3. ctx' = [ctx EXCEPT ![Cl(c)] = r]
    BY DEF CloseSocket
  <2> HIDE DEF r
  <2>4. QED
    BY <2>2, <2>3, ClReplaced DEF SocketInv
<1>d. pc'[c] = "closeWait" /\ \A d \in Calls \ {c} : pc'[d] = pc[d]
  BY <1>a DEF SocketInv, TypeOK
<1>e. /\ native[socket_] = "open" /\ closes[socket_] = 0
      /\ native'[socket_] = "closed" /\ closes'[socket_] = 1
      /\ \A d \in Calls \ {socket_} : native'[d] = native[d] /\ closes'[d] = closes[d]
  BY <1>a DEF SocketInv, TypeOK, Natives
<1>1. TypeOK'
  BY <1>a, <1>c DEF SocketInv, TypeOK, CloseSocket, Steps
<1>2. \A d \in Calls \ {c} : SameCall(d)
  BY <1>a, <1>c, <1>d DEF SameCall, OthersSame
<1>3. CallInv(c)'
  <2>1. InStep(kind[c], pc[c])'
    BY <1>a, <1>d DEF SocketInv, CallInv, InStep, Waiting, Closing, Freeing
  <2>2. IoShape(c)'
    BY <1>a, <1>c, <1>d DEF SocketInv, CallInv, IoShape, Operations, Unprepared,
       NoIoContext, Waiting
  <2>3. ClShape(c)'
    BY <1>a, <1>b, <1>c, <1>d DEF SocketInv, CallInv, ClShape, MayHaveCloseContext,
       Freeing
  <2>4. RefsExact(c)'
    BY <1>a, <1>b, <1>c, <1>d, ContextNames DEF SocketInv, CallInv, RefsExact,
       CallerHolds, CompletionHolds, NoIoContext, Operations
  <2>5. QED
    BY <2>1, <2>2, <2>3, <2>4 DEF CallInv
<1>4. \A d \in Calls : CallInv(d)'
  BY <1>2, <1>3, SameCallInv DEF SocketInv
<1>5. Alone'
  BY <1>a, <1>d, StillAlone DEF SocketInv, TypeOK, Running
<1>6. \A d \in Calls : Natives(d)'
  <2>1. c # socket_
    BY <1>a DEF SocketInv, Natives
  <2>2. ASSUME NEW d \in Calls
        PROVE  (Unpublished(d)' <=> Unpublished(d)) /\ ctx'[Io(d)] = ctx[Io(d)]
    BY <1>a, <1>c, <1>d DEF OthersSame, Unpublished, Waiting
  <2>3. ASSUME NEW d \in Calls, d = socket_ PROVE Natives(d)'
    BY <1>a, <1>d, <1>e, <2>1, <2>2, <2>3, ContextNames DEF SocketInv, Natives
  <2>4. ASSUME NEW d \in Calls, d # socket_ PROVE Natives(d)'
    BY <1>a, <1>b, <1>d, <1>e, <2>2, <2>4, ContextNames DEF SocketInv, Natives
  <2>5. QED
    BY <2>3, <2>4
<1>7. ClosingOnce'
  <2>1. \A d \in Calls : pc'[d] \notin {"rundown", "closeSocket"}
    BY <1>a, <1>d DEF SocketInv, ClosingOnce
  <2>2. ASSUME NEW d \in Calls, pc'[d] = "closeIssue", NEW e \in Calls \ {d}
        PROVE  OutOfWay(e)'
    BY <1>a, <1>d, <2>2 DEF SocketInv, Alone, Running, OutOfWay
  <2>3. QED
    BY <1>a, <2>1, <2>2 DEF ClosingOnce
<1>8. RundownExact'
  <2>1. \A d \in Calls : ~HoldsRundown(d)
    BY <1>a, HolderCounts DEF SocketInv
  <2>2. \A d \in Calls : HoldsRundown(d)' <=> HoldsRundown(d)
    BY <1>a, <1>d DEF HoldsRundown
  <2>3. {d \in Calls : HoldsRundown(d)}' = {d \in Calls : HoldsRundown(d)}
    BY <2>2
  <2>4. QED
    BY <1>a, <2>1, <2>2, <2>3 DEF SocketInv, RundownExact
<1>9. QED
  BY <1>1, <1>4, <1>5, <1>6, <1>7, <1>8 DEF SocketInv

LEMMA ReleaseClosePreserves ==
    ASSUME SocketInv, NEW c \in Calls, ReleaseClose(c), UNCHANGED <<discipline, allocFails>>
    PROVE  SocketInv'
<1>a. /\ pc[c] = "releaseClose" /\ kind' = kind /\ gave' = gave
      /\ pc' = [pc EXCEPT ![c] = IF kind[c] \in {"close", "destroy"} THEN "done" ELSE "release"]
      /\ UNCHANGED <<socket_, closeIssued_, rundown>>
      /\ ~ctx[Cl(c)].owned /\ ctx[Cl(c)].io \in {"signalled", "returned"}
      /\ ctx[Cl(c)].refs = IF ctx[Cl(c)].io = "signalled" THEN 2 ELSE 1
  BY ContextNames, SMTT(30) DEF SocketInv, TypeOK, ContextType, CallInv, ClShape, RefsExact,
     CallerHolds, CompletionHolds, ReleaseClose, Goto, fields
<1>b. /\ ctx' \in [CtxIds -> ContextType] /\ OthersSame(c) /\ ctx'[Io(c)] = ctx[Io(c)]
      /\ UNCHANGED <<native, closes>> /\ frees' = IrpsFreed(ctx, Cl(c))
      /\ ctx'[Cl(c)].refs = ctx[Cl(c)].refs - 1 /\ ctx'[Cl(c)].io = ctx[Cl(c)].io
      /\ ~ctx'[Cl(c)].owned /\ ~ctx'[Cl(c)].information
  <2>1. ctx \in Tables
    BY DEF SocketInv, TypeOK, Tables
  <2>2. /\ ctx' \in Tables /\ UNCHANGED <<native, closes>> /\ frees' = IrpsFreed(ctx, Cl(c))
        /\ \A y \in CtxIds \ {Cl(c)} : ctx'[y] = ctx[y]
        /\ ctx'[Cl(c)].refs = ctx[Cl(c)].refs - 1 /\ ctx'[Cl(c)].io = ctx[Cl(c)].io
        /\ ~ctx'[Cl(c)].owned /\ ~ctx'[Cl(c)].information
    BY <1>a, <2>1, ReleaseEffect, ContextNames DEF SocketInv, CallInv, ClShape,
       ReleaseClose
  <2>3. QED
    BY <2>2, ContextNames DEF Tables, OthersSame
<1>c. pc'[c] \in {"done", "release"} /\ (pc'[c] = "done" <=> kind[c] \in {"close", "destroy"})
  BY <1>a DEF SocketInv, TypeOK
<1>d. frees' \in [CtxIds -> Nat]
  BY <1>b, FreesType DEF SocketInv
<1>1. TypeOK'
  BY <1>a, <1>b, <1>d DEF SocketInv, TypeOK, ReleaseClose, fields, Steps
<1>2. \A d \in Calls \ {c} : SameCall(d)
  BY <1>a, <1>b DEF SocketInv, TypeOK, SameCall, OthersSame
<1>3. CallInv(c)'
  <2>1. InStep(kind[c], pc[c])'
    BY <1>a, <1>c DEF SocketInv, CallInv, InStep, Waiting, Closing, Freeing
  <2>2. IoShape(c)'
    BY <1>a, <1>b, <1>c DEF SocketInv, CallInv, IoShape, Operations, Unprepared,
       NoIoContext, Waiting
  <2>3. ClShape(c)'
    BY <1>a, <1>b, <1>c DEF ClShape, MayHaveCloseContext, Freeing
  <2>4. RefsExact(c)'
    BY <1>a, <1>b, <1>c, ContextNames DEF SocketInv, CallInv, RefsExact, CallerHolds,
       CompletionHolds, NoIoContext, Operations
  <2>5. QED
    BY <2>1, <2>2, <2>3, <2>4 DEF CallInv
<1>4. \A d \in Calls : CallInv(d)'
  BY <1>2, <1>3, SameCallInv DEF SocketInv
<1>5. Alone'
  BY <1>a, StillAlone DEF SocketInv, TypeOK, Running
<1>6. \A d \in Calls : Natives(d)'
  <2>1. Natives(c)'
    BY <1>a, <1>b, <1>c DEF SocketInv, Natives, Unpublished, Waiting
  <2>2. QED
    BY <1>a, <1>b, <1>2, <2>1, SameNatives DEF SocketInv, TypeOK
<1>7. ClosingOnce'
  <2>1. ClosingUndisturbed(c)
    BY <1>a, <1>c DEF ClosingUndisturbed, OutOfWay, Freeing
  <2>2. QED
    BY <1>a, <1>2, <2>1, SameUndisturbed, SameClosing DEF SocketInv
<1>8. RundownExact'
  <2>1. \A d \in Calls : (HoldsRundown(d)' <=> HoldsRundown(d)) /\ (AboutToTake(d)' => AboutToTake(d))
    BY <1>a, <1>c, <1>2 DEF SameCall, HoldsRundown, AboutToTake
  <2>2. QED
    BY <1>a, <2>1, SameRundown DEF SocketInv
<1>9. QED
  BY <1>1, <1>4, <1>5, <1>6, <1>7, <1>8 DEF SocketInv

LEMMA ReleaseOperationPreserves ==
    ASSUME SocketInv, NEW c \in Calls, ReleaseOperation(c), UNCHANGED <<discipline, allocFails>>
    PROVE  SocketInv'
<1>a. /\ pc[c] = "release" /\ kind[c] \in Operations /\ kind' = kind
      /\ gave' = [gave EXCEPT ![c] = FALSE] /\ pc' = [pc EXCEPT ![c] = "done"]
      /\ UNCHANGED <<socket_, closeIssued_, rundown>>
      /\ ctx[Io(c)].io \in {"pending", "signalled", "returned"}
      /\ ctx[Io(c)].refs = IF ctx[Io(c)].io = "returned" THEN 1 ELSE 2
      /\ ~ctx[Cl(c)].owned /\ (ctx[Io(c)].io = "pending" => ctx[Io(c)].owned)
  <2>1. /\ pc[c] = "release" /\ kind' = kind
        /\ gave' = [gave EXCEPT ![c] = FALSE] /\ pc' = [pc EXCEPT ![c] = "done"]
        /\ UNCHANGED <<socket_, closeIssued_, rundown>>
    BY DEF ReleaseOperation, Goto, fields
  <2>2. kind[c] \in Operations
    BY <2>1 DEF SocketInv, CallInv, InStep, Operations, Waiting, Closing, Freeing
  <2>3. /\ ctx[Io(c)].io \in {"pending", "signalled", "returned"}
        /\ ~ctx[Cl(c)].owned /\ (ctx[Io(c)].io = "pending" => ctx[Io(c)].owned)
    BY <2>1, <2>2, ContextNames DEF SocketInv, TypeOK, ContextType, CallInv, IoShape,
       ClShape, NoIoContext, Waiting
  <2>4. ctx[Io(c)].refs = IF ctx[Io(c)].io = "returned" THEN 1 ELSE 2
    BY <2>1, <2>2, <2>3, ContextNames DEF SocketInv, CallInv, RefsExact, CallerHolds,
       CompletionHolds, NoIoContext
  <2>5. QED
    BY <2>1, <2>2, <2>3, <2>4
<1>b. ReleasedOf(c, ctx, Io(c))
  <2>1. ctx \in Tables /\ ctx[Io(c)].refs \in {1, 2}
    BY <1>a DEF SocketInv, TypeOK, Tables
  <2>2. QED
    BY <1>a, <2>1, ReleasedContext DEF SocketInv, ReleaseOperation
<1>c. /\ pc'[c] = "done" /\ ~gave'[c]
      /\ \A d \in Calls \ {c} : pc'[d] = pc[d] /\ gave'[d] = gave[d]
  BY <1>a DEF SocketInv, TypeOK
<1>1. TypeOK'
  BY <1>a, <1>b, ZenonT(60) DEF SocketInv, TypeOK, ReleasedOf, ReleaseOperation, fields, Steps
<1>2. \A d \in Calls \ {c} : SameCall(d)
  BY <1>a, <1>b, <1>c DEF SameCall, ReleasedOf
<1>3. CallInv(c)'
  <2>1. InStep(kind[c], pc[c])'
    BY <1>a, <1>c DEF InStep, Operations
  <2>2. IoShape(c)'
    BY <1>a, <1>b, <1>c DEF SocketInv, CallInv, IoShape, ReleasedOf, Operations,
       Unprepared, NoIoContext, Waiting
  <2>3. ClShape(c)'
    BY <1>a, <1>b, <1>c DEF SocketInv, CallInv, ClShape, ReleasedOf, MayHaveCloseContext
  <2>4. RefsExact(c)'
    BY <1>a, <1>b, <1>c, ContextNames DEF SocketInv, CallInv, RefsExact, ReleasedOf,
       CallerHolds, CompletionHolds, NoIoContext
  <2>5. QED
    BY <2>1, <2>2, <2>3, <2>4 DEF CallInv
<1>4. \A d \in Calls : CallInv(d)'
  BY <1>2, <1>3, SameCallInv DEF SocketInv
<1>5. Alone'
  BY <1>a, <1>c, StillAlone DEF SocketInv, TypeOK, Running
<1>6. \A d \in Calls : Natives(d)'
  <2>1. Natives(c)'
    BY <1>a, <1>b, <1>c DEF SocketInv, TypeOK, Natives, Unpublished, ReleasedOf,
       ClosesLate, Waiting
  <2>2. QED
    BY <1>a, <1>b, <1>2, <2>1, SameNatives DEF SocketInv, TypeOK, ReleasedOf
<1>7. ClosingOnce'
  <2>1. ClosingUndisturbed(c)
    BY <1>a, <1>c DEF ClosingUndisturbed, OutOfWay, Freeing
  <2>2. QED
    BY <1>a, <1>2, <2>1, SameUndisturbed, SameClosing DEF SocketInv
<1>8. RundownExact'
  <2>1. \A d \in Calls : (HoldsRundown(d)' <=> HoldsRundown(d)) /\ (AboutToTake(d)' => AboutToTake(d))
    BY <1>a, <1>c, <1>2 DEF SameCall, HoldsRundown, AboutToTake
  <2>2. QED
    BY <1>a, <2>1, SameRundown DEF SocketInv
<1>9. QED
  BY <1>1, <1>4, <1>5, <1>6, <1>7, <1>8 DEF SocketInv

\* The completion routine of the context x of the call c drops its reference.
LEMMA CompletionReleasesPreserves ==
    ASSUME SocketInv, NEW c \in Calls, NEW x \in {Io(c), Cl(c)}, CompletionReleases(x),
           UNCHANGED <<discipline, allocFails>>
    PROVE  SocketInv'
<1> DEFINE cs == [ctx EXCEPT ![x].io = "returned"]
<1>0. /\ x \in CtxIds /\ ctx[x] \in ContextType
      /\ Io(c) \in CtxIds /\ Cl(c) \in CtxIds /\ Io(c) # Cl(c)
  BY ContextNames DEF SocketInv, TypeOK
<1>a. /\ ctx[x].io = "signalled" /\ WskSyncReleaseContext(cs, x)
      /\ UNCHANGED <<pc, kind, outcome, gave, socket_, closeIssued_, rundown>>
      /\ UNCHANGED <<ownershipState_, sendIrp_, receiveIrp_>>
  BY DEF CompletionReleases, local, fields
<1>b. /\ cs \in Tables /\ \A y \in CtxIds \ {x} : cs[y] = ctx[y]
      /\ cs[x].io = "returned" /\ cs[x].refs = ctx[x].refs
      /\ cs[x].completed = ctx[x].completed /\ cs[x].owned = ctx[x].owned
      /\ cs[x].information = ctx[x].information
  BY <1>0 DEF SocketInv, TypeOK, Tables, ContextType
<1> HIDE DEF cs
<1>c. /\ ctx[x].refs = IF CallerHolds(x) THEN 2 ELSE 1
      /\ ~ctx[Cl(c)].owned
  BY <1>a DEF SocketInv, CallInv, ClShape, RefsExact, CompletionHolds
<1>d. ReleasedOf(c, cs, x)
  <2>1. cs[x].refs \in {1, 2} /\ ~cs[Cl(c)].owned
    BY <1>0, <1>b, <1>c
  <2>2. QED
    BY <1>a, <1>b, <2>1, ReleasedContext DEF SocketInv
<1>1. TypeOK'
  BY <1>a, <1>d DEF SocketInv, TypeOK, ReleasedOf
<1>2. \A d \in Calls \ {c} : SameCall(d)
  <2>1. \A d \in Calls \ {c} : cs[Io(d)] = ctx[Io(d)] /\ cs[Cl(d)] = ctx[Cl(d)]
    BY <1>b, ContextNames
  <2>2. QED
    BY <1>a, <1>d, <2>1 DEF ReleasedOf, SameCall
<1>3. CallInv(c)'
  <2>1. InStep(kind[c], pc[c])'
    BY <1>a DEF SocketInv, CallInv
  <2>2. CASE x = Io(c)
    <3>1. \/ ctx'[Cl(c)] = ctx[Cl(c)]
          \/ /\ pc[c] = "done" /\ ctx'[Cl(c)].refs = 1 /\ ctx'[Cl(c)].io = "pending"
             /\ ~ctx'[Cl(c)].completed /\ ~ctx'[Cl(c)].owned /\ ~ctx'[Cl(c)].information
      BY <1>0, <1>a, <1>b, <1>c, <1>d, <2>2, ContextNames
         DEF SocketInv, CallInv, IoShape, ReleasedOf, ClosesLate, CallerHolds, NoIoContext, Unprepared, NoContext, Context
    <3>2. /\ ctx'[Io(c)].io = "returned" /\ ctx'[Io(c)].refs = ctx[Io(c)].refs - 1
          /\ ctx'[Io(c)].owned => ctx[Io(c)].owned
          /\ ctx[Io(c)].refs = 2 => (ctx'[Io(c)].owned <=> ctx[Io(c)].owned)
          /\ ctx'[Io(c)].information => ctx[Io(c)].information
          /\ ctx'[Io(c)].refs = 0 => ~ctx'[Io(c)].owned /\ ~ctx'[Io(c)].information
      BY <1>b, <1>c, <1>d, <2>2 DEF ReleasedOf
    <3>3. IoShape(c)'
      BY <1>a, <1>c, <2>2, <3>2, ContextNames DEF SocketInv, CallInv, IoShape, CallerHolds, NoContext, Context, NoIoContext, Unprepared
    <3>4. ClShape(c)'
      BY <1>a, <3>1 DEF SocketInv, CallInv, ClShape, MayHaveCloseContext
    <3>5. RefsExact(c)'
      BY <1>a, <1>c, <2>2, <3>1, <3>2, ContextNames DEF SocketInv, CallInv, RefsExact, CallerHolds, CompletionHolds, NoIoContext
    <3>6. QED
      BY <2>1, <3>3, <3>4, <3>5 DEF CallInv
  <2>3. CASE x = Cl(c)
    <3>1. /\ ctx'[Io(c)] = ctx[Io(c)] /\ ctx'[Cl(c)].io = "returned"
          /\ ctx'[Cl(c)].refs = ctx[Cl(c)].refs - 1
          /\ ~ctx'[Cl(c)].owned /\ ~ctx'[Cl(c)].information
      BY <1>0, <1>b, <1>c, <1>d, <2>3 DEF SocketInv, CallInv, ClShape, ReleasedOf
    <3>2. IoShape(c)'
      BY <1>a, <3>1 DEF SocketInv, CallInv, IoShape
    <3>3. ClShape(c)'
      BY <1>a, <2>3, <3>1 DEF SocketInv, CallInv, ClShape, NoContext, Context, MayHaveCloseContext
    <3>4. RefsExact(c)'
      BY <1>a, <1>c, <2>3, <3>1, ContextNames DEF SocketInv, CallInv, RefsExact, CallerHolds, CompletionHolds
    <3>5. QED
      BY <2>1, <3>2, <3>3, <3>4 DEF CallInv
  <2>4. QED
    BY <2>2, <2>3
<1>4. \A d \in Calls : CallInv(d)'
  BY <1>2, <1>3, SameCallInv DEF SocketInv
<1>5. Alone'
  BY <1>a, StillAlone DEF SocketInv, Running
<1>6. \A d \in Calls : Natives(d)'
  <2>1. CASE x = Io(c)
    <3>1. ctx[Io(c)].refs = 1 => pc[c] \notin Waiting \cup {"connected", "closeNative"}
      BY <1>c, <2>1, ContextNames DEF SocketInv, CallInv, InStep, CallerHolds, Operations, NoIoContext, Waiting, Closing, Freeing
    <3>2. ctx'[Io(c)].io = "returned" /\ ctx[Io(c)].io = "signalled"
      BY <1>a, <1>b, <1>c, <1>d, <2>1 DEF ReleasedOf
    <3>3. Natives(c)'
      BY <1>a, <1>b, <1>c, <1>d, <2>1, <3>1, <3>2 DEF SocketInv, TypeOK, Natives, Unpublished, ReleasedOf, ClosesLate
    <3>4. QED
      BY <1>a, <1>d, <1>2, <3>3, SameNatives DEF SocketInv, ReleasedOf
  <2>2. CASE x = Cl(c)
    <3>1. ctx'[Io(c)] = ctx[Io(c)] /\ native'[c] = native[c] /\ closes'[c] = closes[c]
      BY <1>0, <1>b, <1>d, <2>2 DEF ReleasedOf
    <3>2. Natives(c)'
      BY <1>a, <3>1 DEF SocketInv, Natives, Unpublished
    <3>3. QED
      BY <1>a, <1>d, <1>2, <3>2, SameNatives DEF SocketInv, ReleasedOf
  <2>3. QED
    BY <2>1, <2>2
<1>7. ClosingOnce'
  <2>1. pc[c] \in Freeing => (ctx'[Cl(c)].io = "none" <=> ctx[Cl(c)].io = "none")
    <3>1. CASE x = Io(c)
      BY <1>0, <1>b, <1>c, <1>d, <3>1, ContextNames
         DEF SocketInv, CallInv, IoShape, InStep, ReleasedOf, ClosesLate, CallerHolds, NoIoContext, Operations, NoContext, Context, Freeing
    <3>2. CASE x = Cl(c)
      BY <1>a, <1>b, <1>c, <1>d, <3>2 DEF ReleasedOf
    <3>3. QED
      BY <3>1, <3>2
  <2>2. ClosingUndisturbed(c)
    BY <1>a, <2>1 DEF ClosingUndisturbed, OutOfWay
  <2>3. QED
    BY <1>a, <1>2, <2>2, SameUndisturbed, SameClosing DEF SocketInv
<1>8. RundownExact'
  <2>1. \A d \in Calls : (HoldsRundown(d)' <=> HoldsRundown(d)) /\ (AboutToTake(d)' => AboutToTake(d))
    BY <1>a DEF HoldsRundown, AboutToTake
  <2>2. QED
    BY <1>a, <2>1, SameRundown DEF SocketInv
<1>9. QED
  BY <1>1, <1>4, <1>5, <1>6, <1>7, <1>8 DEF SocketInv

\* The provider completes the context x of the call c.
LEMMA CompletePreserves ==
    ASSUME SocketInv, NEW c \in Calls, NEW x \in {Io(c), Cl(c)}, Complete(x),
           UNCHANGED <<discipline, allocFails>>
    PROVE  SocketInv'
<1>0. /\ x \in CtxIds /\ ctx[x] \in ContextType /\ x[1] = c
      /\ Io(c) \in CtxIds /\ Cl(c) \in CtxIds /\ Io(c) # Cl(c)
      /\ x = Cl(c) => x[2] # "io"
  BY ContextNames DEF SocketInv, TypeOK
<1>a. /\ ctx[x].io = "pending"
      /\ UNCHANGED <<pc, kind, outcome, gave, socket_, closeIssued_, rundown>>
      /\ UNCHANGED <<ownershipState_, sendIrp_, receiveIrp_, frees, closes>>
  BY DEF Complete, local, fields
<1>b. PICK brings \in BOOLEAN :
        /\ brings => kind[c] = "connect" /\ x = Io(c)
        /\ ctx' = [ctx EXCEPT ![x].io = "signalled", ![x].completed = TRUE, ![x].information = brings]
        /\ native' = [native EXCEPT ![c] = IF brings THEN "open" ELSE @]
  BY <1>0 DEF Complete
<1> DEFINE r1 == [ctx[x] EXCEPT !.io = "signalled"]
<1> DEFINE r2 == [r1 EXCEPT !.completed = TRUE]
<1> DEFINE r == [r2 EXCEPT !.information = brings]
<1>c. ctx' = [ctx EXCEPT ![x] = r]
  BY <1>0, <1>b
<1>d. /\ r \in ContextType /\ r.io = "signalled" /\ r.information = brings
      /\ r.refs = ctx[x].refs /\ r.owned = ctx[x].owned
  <2>1. r1 \in ContextType /\ r1.io = "signalled" /\ r1.refs = ctx[x].refs /\ r1.owned = ctx[x].owned
    BY <1>0 DEF ContextType
  <2> HIDE DEF r1
  <2>2. r2 \in ContextType /\ r2.io = "signalled" /\ r2.refs = ctx[x].refs /\ r2.owned = ctx[x].owned
    BY <2>1 DEF ContextType
  <2> HIDE DEF r2
  <2>3. QED
    BY <2>2 DEF ContextType
<1> HIDE DEF r
<1>e. /\ ctx' \in [CtxIds -> ContextType] /\ OthersSame(c) /\ ctx'[x] = r
      /\ x = Io(c) => ctx'[Cl(c)] = ctx[Cl(c)]
      /\ x = Cl(c) => ctx'[Io(c)] = ctx[Io(c)]
  <2>1. CASE x = Io(c)
    BY <1>0, <1>c, <1>d, <2>1, IoReplaced DEF SocketInv
  <2>2. CASE x = Cl(c)
    BY <1>0, <1>c, <1>d, <2>2, ClReplaced DEF SocketInv
  <2>3. QED
    BY <2>1, <2>2
<1>f. ctx[x].refs # 0
  BY <1>a DEF SocketInv, CallInv, RefsExact, CompletionHolds
<1>1. TypeOK'
  BY <1>a, <1>b, <1>e DEF SocketInv, TypeOK
<1>2. \A d \in Calls \ {c} : SameCall(d)
  BY <1>a, <1>e DEF OthersSame, SameCall
<1>3. CallInv(c)'
  <2>1. InStep(kind[c], pc[c])'
    BY <1>a DEF SocketInv, CallInv
  <2>2. CASE x = Io(c)
    <3>1. IoShape(c)'
      BY <1>a, <1>b, <1>d, <1>e, <1>f, <2>2 DEF SocketInv, CallInv, IoShape, NoContext, Context
    <3>2. ClShape(c)'
      BY <1>a, <1>e, <2>2 DEF SocketInv, CallInv, ClShape
    <3>3. RefsExact(c)'
      BY <1>a, <1>d, <1>e, <2>2, ContextNames DEF SocketInv, CallInv, RefsExact, CallerHolds, CompletionHolds
    <3>4. QED
      BY <2>1, <3>1, <3>2, <3>3 DEF CallInv
  <2>3. CASE x = Cl(c)
    <3>1. IoShape(c)'
      BY <1>a, <1>e, <2>3 DEF SocketInv, CallInv, IoShape
    <3>2. ClShape(c)'
      BY <1>0, <1>a, <1>b, <1>d, <1>e, <2>3 DEF SocketInv, CallInv, ClShape, NoContext, Context
    <3>3. RefsExact(c)'
      BY <1>a, <1>d, <1>e, <2>3, ContextNames DEF SocketInv, CallInv, RefsExact, CallerHolds, CompletionHolds
    <3>4. QED
      BY <2>1, <3>1, <3>2, <3>3 DEF CallInv
  <2>4. QED
    BY <2>2, <2>3
<1>4. \A d \in Calls : CallInv(d)'
  BY <1>2, <1>3, SameCallInv DEF SocketInv
<1>5. Alone'
  BY <1>a, StillAlone DEF SocketInv, Running
<1>6. \A d \in Calls : Natives(d)'
  <2>1. Natives(c)'
    <3>1. CASE x = Io(c)
      <4>1. native[c] = "none" /\ socket_ # c /\ (pc[c] \in Waiting \/ ctx[Io(c)].owned)
        BY <1>a, <3>1 DEF SocketInv, CallInv, IoShape, Natives
      <4>2. native'[c] = IF brings THEN "open" ELSE "none"
        BY <1>b, <4>1 DEF SocketInv, TypeOK
      <4>3. QED
        BY <1>a, <1>b, <1>d, <1>e, <3>1, <4>1, <4>2 DEF SocketInv, Natives, Unpublished, Waiting
    <3>2. CASE x = Cl(c)
      <4>1. native'[c] = native[c]
        BY <1>0, <1>b, <3>2 DEF SocketInv, TypeOK
      <4>2. QED
        BY <1>a, <1>e, <3>2, <4>1 DEF SocketInv, Natives, Unpublished
    <3>3. QED
      BY <3>1, <3>2
  <2>2. \A d \in Calls \ {c} : native'[d] = native[d]
    BY <1>b DEF SocketInv, TypeOK
  <2>3. QED
    BY <1>a, <1>2, <2>1, <2>2, SameNatives DEF SocketInv
<1>7. ClosingOnce'
  <2>1. ctx'[Cl(c)].io = "none" <=> ctx[Cl(c)].io = "none"
    BY <1>a, <1>d, <1>e
  <2>2. ClosingUndisturbed(c)
    BY <1>a, <2>1 DEF ClosingUndisturbed, OutOfWay
  <2>3. QED
    BY <1>a, <1>2, <2>2, SameUndisturbed, SameClosing DEF SocketInv
<1>8. RundownExact'
  <2>1. \A d \in Calls : (HoldsRundown(d)' <=> HoldsRundown(d)) /\ (AboutToTake(d)' => AboutToTake(d))
    BY <1>a DEF HoldsRundown, AboutToTake
  <2>2. QED
    BY <1>a, <2>1, SameRundown DEF SocketInv
<1>9. QED
  BY <1>1, <1>4, <1>5, <1>6, <1>7, <1>8 DEF SocketInv

LEMMA StartPreserves ==
    ASSUME SocketInv, NEW c \in Calls, NEW k \in Kinds, Start(c, k),
           UNCHANGED <<discipline, allocFails>>
    PROVE  SocketInv'
<1>a. /\ pc[c] = "idle" /\ kind[c] = "none" /\ ~gave[c]
      /\ ctx[Io(c)] = NoContext /\ ctx[Cl(c)] = NoContext
  BY DEF SocketInv, CallInv, InStep, IoShape, ClShape, Start, Unprepared, NoIoContext, MayHaveCloseContext, Waiting, Closing, Freeing
<1>b. /\ UNCHANGED <<outcome, gave, ctx, frees, native, closes>>
      /\ UNCHANGED <<socket_, ownershipState_, closeIssued_, sendIrp_, receiveIrp_, rundown>>
      /\ kind' = [kind EXCEPT ![c] = k]
      /\ k = "connect" => socket_ = None
      /\ k \in {"send", "receive", "disconnect"} => socket_ # None
  BY DEF Start, IsConnected, fields
<1>c. PICK p :
        /\ pc' = [pc EXCEPT ![c] = p]
        /\ \/ p = "connect" /\ k = "connect"
           \/ p = "prepare" /\ k \in {"send", "receive"}
           \/ p = "allocate" /\ k = "disconnect"
           \/ p = "closeCheck" /\ k \in {"close", "destroy"}
           \/ p = "freeSend" /\ k = "destroy" /\ socket_ = None
  <2> DEFINE q == CASE k = "connect" -> "connect"
                    [] k \in {"send", "receive"} -> "prepare"
                    [] k = "disconnect" -> "allocate"
                    [] k = "close" -> "closeCheck"
                    [] k = "destroy" -> IF socket_ # None \/ ownershipState_ # "Closed"
                                        THEN "closeCheck" ELSE "freeSend"
  <2>1. pc' = [pc EXCEPT ![c] = q]
    BY DEF Start, Goto
  <2>2. \/ q = "connect" /\ k = "connect"
        \/ q = "prepare" /\ k \in {"send", "receive"}
        \/ q = "allocate" /\ k = "disconnect"
        \/ q = "closeCheck" /\ k \in {"close", "destroy"}
        \/ q = "freeSend" /\ k = "destroy" /\ socket_ = None
    BY DEF Kinds
  <2> HIDE DEF q
  <2>3. QED
    BY <2>1, <2>2
<1>d. /\ pc'[c] = p /\ kind'[c] = k
      /\ \A d \in Calls \ {c} : pc'[d] = pc[d] /\ kind'[d] = kind[d]
  BY <1>b, <1>c DEF SocketInv, TypeOK
<1>e. /\ \A d \in Calls : kind[d] # "destroy"
      /\ \A d \in Running : /\ discipline = "shared" /\ k \in {"send", "receive"}
                            /\ kind[d] \in {"send", "receive"} /\ kind[d] # k
  BY DEF Start, MayStart, Destroyed, Running, Busy
<1>1. TypeOK'
  BY <1>b, <1>c DEF SocketInv, TypeOK, Steps
<1>2. \A d \in Calls \ {c} : SameCall(d)
  BY <1>b, <1>d DEF SameCall
<1>3. CallInv(c)'
  <2>1. InStep(kind[c], pc[c])'
    BY <1>c, <1>d DEF InStep, Closing, Freeing
  <2>2. IoShape(c)'
    BY <1>a, <1>b, <1>c, <1>d DEF IoShape, NoContext, Context, Operations, NoIoContext, Unprepared, Waiting
  <2>3. ClShape(c)'
    BY <1>a, <1>b, <1>c, <1>d DEF ClShape, NoContext, Context, MayHaveCloseContext, Freeing
  <2>4. RefsExact(c)'
    BY <1>a, <1>b, <1>c, <1>d, ContextNames DEF RefsExact, CallerHolds, CompletionHolds, NoContext, Context, Operations, NoIoContext
  <2>5. QED
    BY <2>1, <2>2, <2>3, <2>4 DEF CallInv
<1>4. \A d \in Calls : CallInv(d)'
  BY <1>2, <1>3, SameCallInv DEF SocketInv
<1>5. Alone'
  <2>1. \A d \in Calls \ {c} : d \in Running' <=> d \in Running
    BY <1>d DEF Running
  <2>2. QED
    BY <1>d, <1>e, <2>1 DEF SocketInv, Alone, Running
<1>6. \A d \in Calls : Natives(d)'
  <2>1. Natives(c)'
    <3>1. native[c] = "none" /\ socket_ # c
      BY <1>a DEF SocketInv, Natives, NoContext, Context
    <3>2. QED
      BY <1>a, <1>b, <1>c, <1>d, <3>1 DEF SocketInv, Natives, Unpublished, NoContext, Context, Waiting
  <2>2. QED
    BY <1>b, <1>2, <2>1, SameNatives DEF SocketInv
<1>7. ClosingOnce'
  <2>1. \A d \in Calls : pc'[d] = "closeIssue" => d # c /\ d \in Running /\ socket_ # None
    BY <1>b, <1>c, <1>d, <1>e DEF Running
  <2>2. \A d \in Calls : pc'[d] \in {"rundown", "closeSocket"} <=> pc[d] \in {"rundown", "closeSocket"}
    BY <1>a, <1>c, <1>d
  <2>3. \A d \in Calls : pc'[d] = "closeSocket" => pc[d] = "closeSocket"
    BY <1>c, <1>d
  <2>4. ASSUME NEW d \in Calls, pc'[d] \in Freeing, ctx'[Cl(d)].io = "none", kind'[d] # "destroy"
        PROVE  socket_' = None
    BY <1>b, <1>c, <1>d, <2>4 DEF SocketInv, ClosingOnce, Freeing
  <2>5. ASSUME NEW d \in Calls, kind'[d] = "destroy",
               pc'[d] \notin {"closeCheck", "closeIssue", "rundown", "closeSocket"}
        PROVE  socket_' = None
    BY <1>b, <1>c, <1>d, <1>e, <2>5
  <2>6. QED
    BY <1>b, <2>1, <2>2, <2>3, <2>4, <2>5 DEF SocketInv, ClosingOnce
<1>8. RundownExact'
  <2>1. \A d \in Calls : HoldsRundown(d)' <=> HoldsRundown(d)
    BY <1>a, <1>c, <1>d DEF HoldsRundown
  <2>2. \A d \in Calls : AboutToTake(d)' => AboutToTake(d) \/ socket_' # None
    BY <1>b, <1>c, <1>d DEF AboutToTake
  <2>3. QED
    BY <1>b, <2>1, <2>2, SameRundown DEF SocketInv
<1>9. QED
  BY <1>1, <1>4, <1>5, <1>6, <1>7, <1>8 DEF SocketInv

-----------------------------------------------------------------------------
LEMMA SocketInvInit == Init => SocketInv
<1> SUFFICES ASSUME Init PROVE SocketInv
  OBVIOUS
<1>1. TypeOK
  BY NoContextType DEF Init, TypeOK, Steps
<1>2. ASSUME NEW c \in Calls PROVE CallInv(c) /\ Natives(c)
  <2>1. ctx[Io(c)] = NoContext /\ ctx[Cl(c)] = NoContext
    BY ContextNames DEF Init
  <2>2. InStep(kind[c], pc[c]) /\ IoShape(c) /\ ClShape(c)
    BY <2>1 DEF Init, InStep, IoShape, ClShape, NoContext, Context, Operations, NoIoContext, Waiting, MayHaveCloseContext, Freeing
  <2>3. RefsExact(c)
    BY <2>1, ContextNames DEF Init, RefsExact, CallerHolds, CompletionHolds, NoContext, Context, Operations
  <2>4. Natives(c)
    BY <2>1, ContextNames DEF Init, Natives, Unpublished, NoContext, Context
  <2>5. QED
    BY <2>2, <2>3, <2>4 DEF CallInv
<1>3. Alone /\ ClosingOnce
  BY DEF Init, Alone, Running, ClosingOnce, Freeing
<1>4. RundownExact
  <2>1. {c \in Calls : HoldsRundown(c)} = {}
    BY DEF Init, HoldsRundown
  <2>2. QED
    BY <2>1, FS_EmptySet DEF Init, RundownExact, HoldsRundown
<1>5. QED
  BY <1>1, <1>2, <1>3, <1>4 DEF SocketInv

LEMMA SocketInvStutter ==
    ASSUME SocketInv, UNCHANGED vars
    PROVE  SocketInv'
<1>1. UNCHANGED <<discipline, allocFails, pc, kind, outcome, gave, ctx, frees, socket_,
                  ownershipState_, closeIssued_, sendIrp_, receiveIrp_, rundown, native, closes>>
  BY DEF vars, state, local, fields
<1>2. TypeOK' /\ Alone'
  BY <1>1 DEF SocketInv, TypeOK, Alone, Running
<1>3. \A c \in Calls : SameCall(c)
  BY <1>1 DEF SameCall
<1>4. \A c \in Calls : CallInv(c)' /\ Natives(c)'
  BY <1>1, <1>3, SameCallInv, SameNatives DEF SocketInv
<1>5. ClosingOnce'
  BY <1>1, <1>3, SameUndisturbed, SameClosing DEF SocketInv
<1>6. RundownExact'
  BY <1>1, SameRundown DEF SocketInv, HoldsRundown, AboutToTake
<1>7. QED
  BY <1>2, <1>4, <1>5, <1>6 DEF SocketInv

LEMMA SocketInvNext ==
    ASSUME SocketInv, [Next]_vars
    PROVE  SocketInv'
<1>1. CASE UNCHANGED vars
  BY <1>1, SocketInvStutter
<1>2. ASSUME NEW c \in Calls, Step(c), UNCHANGED <<discipline, allocFails>> PROVE SocketInv'
  BY <1>2, RefusedPreserves, ConnectAllocatePreserves, ConnectedPreserves,
     CloseNativePreserves, PrepareReusableIrpPreserves, IoReuseIrpPreserves,
     WskSyncAllocateIrpPreserves, AcquireIoRundownPreserves, SubmitPreserves,
     WaitEndsPreserves, WaitTimesOutPreserves, CancelCompletesPreserves,
     CancelTimesOutPreserves, HandOverPreserves, ReleaseIoRundownPreserves,
     AbandonReusableIrpPreserves, CloseAfterCancelledOperationPreserves,
     CloseCheckPreserves, CloseIssuePreserves, RunDownPreserves, CloseSocketPreserves,
     CloseWaitPreserves, FreeSendPreserves, ClearSendPreserves, FreeReceivePreserves,
     ClearReceivePreserves, IrpsReleasedPreserves, ReleaseClosePreserves,
     ReleaseOperationPreserves DEF Step
<1>3. ASSUME NEW c \in Calls, NEW k \in Kinds, Start(c, k), UNCHANGED <<discipline, allocFails>>
      PROVE  SocketInv'
  BY <1>3, StartPreserves
<1>4. ASSUME NEW x \in CtxIds, Complete(x) \/ CompletionReleases(x),
             UNCHANGED <<discipline, allocFails>>
      PROVE  SocketInv'
  <2>1. x[1] \in Calls /\ x \in {Io(x[1]), Cl(x[1])}
    BY ContextNames
  <2>2. QED
    BY <1>4, <2>1, CompletePreserves, CompletionReleasesPreserves
<1>5. CASE Stopped
  BY <1>1, <1>5 DEF Stopped
<1>6. QED
  BY <1>1, <1>2, <1>3, <1>4, <1>5 DEF Next, Returns

\* The inductive invariant of a socket: what each call's step says about its two IRP
\* contexts, who may run at the same time, who owns a native socket, who may close it,
\* and the exact count of rundown protection.
THEOREM SocketInvariant == Spec => []SocketInv
<1>1. Init => SocketInv
  BY SocketInvInit
<1>2. SocketInv /\ [Next]_vars => SocketInv'
  BY SocketInvNext
<1>3. QED
  BY <1>1, <1>2, PTL DEF Spec

\* For every number of calls and both ways of using the socket: while a call holds
\* rundown protection, the socket it works on is there and was not given to
\* WskCloseSocket, whoever times out and closes (WskSocket::CloseOwnedSocket).
THEOREM RundownCorrect == Spec => []RundownHoldsSocket
<1>1. SocketInv => RundownHoldsSocket
  BY DEF SocketInv, TypeOK, RundownExact, Natives, RundownHoldsSocket
<1>2. QED
  BY <1>1, SocketInvariant, PTL

LEMMA ReferencesFollow == ASSUME SocketInv PROVE ReferencesExact
<1> SUFFICES ASSUME NEW x \in CtxIds
             PROVE  ctx[x].refs = (IF CallerHolds(x) THEN 1 ELSE 0)
                                  + (IF CompletionHolds(x) THEN 1 ELSE 0)
  BY DEF ReferencesExact
<1>1. PICK c \in Calls : x = Io(c) \/ x = Cl(c)
  BY ContextNames
<1>2. QED
  BY <1>1 DEF SocketInv, CallInv, RefsExact

\* Every IRP context has exactly the references of its caller and its completion.
THEOREM ReferencesCorrect == Spec => []ReferencesExact
<1>1. SocketInv => ReferencesExact
  BY ReferencesFollow
<1>2. QED
  BY <1>1, SocketInvariant, PTL

-----------------------------------------------------------------------------
(* The IRPs of a socket that is used by one call at a time.                  *)

\* A context that frees its IRP when its last reference is dropped.
Owns(cs, y) == cs[y].refs > 0 /\ (~cs[y].borrowed \/ cs[y].owned)

\* Each IRP a context knows was freed once, or is one of the set S that the socket
\* has, or has one owner among the contexts.
IrpLedger(cs, fr, S) ==
    /\ \A x \in CtxIds : fr[x] <= 1
    /\ \A x \in S : x \in CtxIds /\ fr[x] = 0
    /\ \A y \in CtxIds : Owns(cs, y) =>
          cs[y].irp \in CtxIds /\ cs[y].irp \notin S /\ fr[cs[y].irp] = 0
    /\ \A y, z \in CtxIds : Owns(cs, y) /\ Owns(cs, z) /\ cs[y].irp = cs[z].irp => y = z
    /\ \A y \in CtxIds : cs[y].irp # None =>
          \/ fr[cs[y].irp] = 1
          \/ cs[y].irp \in S
          \/ \E z \in CtxIds : Owns(cs, z) /\ cs[z].irp = cs[y].irp

\* The IRP named x was not allocated.
NewIrp(x) ==
    frees[x] = 0 /\ sendIrp_ # x /\ receiveIrp_ # x /\ \A y \in CtxIds : ctx[y].irp # x

\* The call c has freed or handed over the IRP x, and has not cleared the field yet.
Leaving(c, x) ==
    \/ pc[c] = "clearSend" /\ x = sendIrp_
    \/ pc[c] = "clearReceive" /\ x = receiveIrp_
    \/ /\ kind[c] \in {"send", "receive"} /\ gave[c] /\ pc[c] \in {"releaseRundown", "abandon"}
       /\ x = ReusableIrp(c)

\* The IRPs that are the socket's.
Held == {x \in {sendIrp_, receiveIrp_} \ {None} : \A c \in Calls : ~Leaving(c, x)}

UsesReusable(c) ==
    /\ kind[c] \in {"send", "receive"}
    /\ pc[c] \in {"acquire", "submit", "releaseRundown", "abandon"} \cup Waiting

\* What a call knows of its IRPs.
CallIrp(c) ==
    /\ UsesReusable(c) => /\ ctx[Io(c)].borrowed /\ ReusableIrp(c) # None
                          /\ ctx[Io(c)].irp = ReusableIrp(c)
    /\ pc[c] \in {"idle", "connect", "prepare", "allocate"} => NewIrp(Io(c))
    /\ pc[c] \notin MayHaveCloseContext \/ (kind[c] = "connect" /\ ctx[Io(c)].owned)
          => NewIrp(Cl(c)) /\ ctx[Cl(c)].refs = 0
    /\ pc[c] = "reuse" => ReusableIrp(c) # None
    /\ kind[c] = "destroy" =>
          /\ pc[c] \in {"freeReceive", "clearReceive", "freed", "releaseClose", "done"}
               => sendIrp_ = None
          /\ pc[c] \in {"freed", "releaseClose", "done"} => receiveIrp_ = None
    /\ pc[c] = "clearSend" => sendIrp_ # None
    /\ pc[c] = "clearReceive" => receiveIrp_ # None
    /\ gave[c] => outcome[c] = "timeout"
    /\ ~ctx[Cl(c)].borrowed /\ (ctx[Io(c)].borrowed => kind[c] \in {"send", "receive"})

IrpOwners ==
    /\ IrpLedger(ctx, frees, Held)
    /\ sendIrp_ # None => sendIrp_ # receiveIrp_
    /\ \A c \in Calls : CallIrp(c)

IrpInv == SocketInv /\ (discipline = "exclusive" => IrpOwners)

-----------------------------------------------------------------------------
(* What allocating, handing over and freeing do to the ledger.               *)

Others(cs, ds, y) ==
    \A z \in CtxIds \ {y} : ds[z].irp = cs[z].irp /\ (Owns(ds, z) <=> Owns(cs, z))

LEMMA LedgerSame ==
    ASSUME NEW cs, NEW ds, NEW fr, NEW S, IrpLedger(cs, fr, S),
           \A y \in CtxIds : ds[y].irp = cs[y].irp /\ (Owns(ds, y) <=> Owns(cs, y))
    PROVE  IrpLedger(ds, fr, S)
BY DEF IrpLedger

LEMMA LedgerAllocates ==
    ASSUME NEW cs, NEW ds, NEW fr, NEW S, IrpLedger(cs, fr, S), NEW y \in CtxIds,
           NEW x \in CtxIds, fr[x] = 0, x \notin S, \A z \in CtxIds : cs[z].irp # x,
           Others(cs, ds, y), ~Owns(cs, y), Owns(ds, y), ds[y].irp = x
    PROVE  IrpLedger(ds, fr, S)
BY DEF IrpLedger, Others

LEMMA LedgerBorrows ==
    ASSUME NEW cs, NEW ds, NEW fr, NEW S, IrpLedger(cs, fr, S), NEW y \in CtxIds,
           Others(cs, ds, y), ~Owns(cs, y), ~Owns(ds, y), ds[y].irp \in S
    PROVE  IrpLedger(ds, fr, S)
BY DEF IrpLedger, Others

LEMMA LedgerKeepsNew ==
    ASSUME NEW cs, NEW fr, NEW S, IrpLedger(cs, fr, S), NEW x \in CtxIds,
           fr[x] = 0, \A z \in CtxIds : cs[z].irp # x
    PROVE  IrpLedger(cs, fr, S \cup {x})
BY DEF IrpLedger

LEMMA LedgerFrees ==
    ASSUME NEW cs, NEW ds, NEW fr \in [CtxIds -> Nat], NEW S, IrpLedger(cs, fr, S),
           NEW y \in CtxIds, Others(cs, ds, y), Owns(cs, y), ~Owns(ds, y),
           ds[y].irp = cs[y].irp, NEW gr, gr = [fr EXCEPT ![cs[y].irp] = @ + 1]
    PROVE  IrpLedger(ds, gr, S)
<1>1. /\ cs[y].irp \in CtxIds /\ fr[cs[y].irp] = 0 /\ cs[y].irp \notin S
  BY DEF IrpLedger
<1>2. gr[cs[y].irp] = 1 /\ \A x \in CtxIds \ {cs[y].irp} : gr[x] = fr[x]
  BY <1>1
<1>3. \A z \in CtxIds : Owns(ds, z) => z # y /\ Owns(cs, z) /\ cs[z].irp # cs[y].irp
  BY DEF IrpLedger, Others
<1>4. QED
  BY <1>1, <1>2, <1>3 DEF IrpLedger, Others

LEMMA LedgerHandsOver ==
    ASSUME NEW cs, NEW ds, NEW fr, NEW S, IrpLedger(cs, fr, S), NEW y \in CtxIds,
           Others(cs, ds, y), ~Owns(cs, y), Owns(ds, y), ds[y].irp = cs[y].irp,
           cs[y].irp \in S
    PROVE  IrpLedger(ds, fr, S \ {cs[y].irp})
BY DEF IrpLedger, Others

LEMMA LedgerFreesHeld ==
    ASSUME NEW cs, NEW fr \in [CtxIds -> Nat], NEW S, IrpLedger(cs, fr, S),
           NEW x \in S, NEW gr, gr = [fr EXCEPT ![x] = @ + 1]
    PROVE  IrpLedger(cs, gr, S \ {x})
<1>1. x \in CtxIds /\ fr[x] = 0 /\ \A z \in CtxIds : Owns(cs, z) => cs[z].irp # x
  BY DEF IrpLedger
<1>2. gr[x] = 1 /\ \A z \in CtxIds \ {x} : gr[z] = fr[z]
  BY <1>1
<1>3. QED
  BY <1>1, <1>2 DEF IrpLedger

LEMMA LedgerFreesUnused ==
    ASSUME NEW cs, NEW fr \in [CtxIds -> Nat], NEW S, IrpLedger(cs, fr, S),
           NEW x \in CtxIds, fr[x] = 0, x \notin S, \A z \in CtxIds : cs[z].irp # x,
           NEW gr, gr = [fr EXCEPT ![x] = @ + 1]
    PROVE  IrpLedger(cs, gr, S)
<1>1. gr[x] = 1 /\ \A z \in CtxIds \ {x} : gr[z] = fr[z]
  OBVIOUS
<1>2. QED
  BY <1>1 DEF IrpLedger

-----------------------------------------------------------------------------
(* What a step of the call c leaves alone.                                   *)

\* The other calls and their contexts are as they were, and the IRPs the step
\* touches are known ones or named after a context of c.
Aside(c) ==
    /\ \A d \in Calls \ {c} : SameCall(d) /\ outcome'[d] = outcome[d]
    /\ sendIrp_' \in {sendIrp_, None, Io(c)}
    /\ receiveIrp_' \in {receiveIrp_, None, Io(c)}
    /\ UNCHANGED <<sendIrp_, receiveIrp_>> \/ c \in Running
    /\ \A y \in {Io(c), Cl(c)} :
          ctx'[y].irp \in {ctx[y].irp, Io(c), Cl(c), sendIrp_, receiveIrp_}
    /\ \A x \in CtxIds :
          frees'[x] = frees[x] \/ x \in {Io(c), Cl(c), sendIrp_, receiveIrp_,
                                         ctx[Io(c)].irp, ctx[Cl(c)].irp}

LEMMA NewStays ==
    ASSUME NEW c \in Calls, Aside(c), NEW x \in CtxIds, x # Io(c), x # Cl(c), NewIrp(x)
    PROVE  NewIrp(x)'
<1>1. frees'[x] = 0
  BY ContextNames DEF Aside, NewIrp
<1>2. sendIrp_' # x /\ receiveIrp_' # x
  BY ContextNames DEF Aside, NewIrp
<1>3. ASSUME NEW y \in CtxIds PROVE ctx'[y].irp # x
  <2>1. CASE y \in {Io(c), Cl(c)}
    BY <2>1, ContextNames DEF Aside, NewIrp
  <2>2. CASE y \notin {Io(c), Cl(c)}
    <3>1. y[1] \in Calls \ {c} /\ (y = Io(y[1]) \/ y = Cl(y[1]))
      BY <2>2, ContextNames
    <3>2. ctx'[y] = ctx[y]
      BY <3>1 DEF Aside, SameCall
    <3>3. QED
      BY <3>2 DEF NewIrp
  <2>3. QED
    BY <2>1, <2>2
<1>4. QED
  BY <1>1, <1>2, <1>3 DEF NewIrp

LEMMA OnlyRunning ==
    ASSUME SocketInv, discipline = "exclusive", NEW c \in Calls, c \in Running
    PROVE  \A d \in Calls \ {c} : pc[d] \in {"idle", "done"} /\ kind[d] # "destroy"
BY DEF SocketInv, Alone, Running

LEMMA OthersKeep ==
    ASSUME SocketInv, discipline = "exclusive", \A d \in Calls : CallIrp(d),
           NEW c \in Calls, Aside(c)
    PROVE  \A d \in Calls \ {c} : CallIrp(d)'
<1> SUFFICES ASSUME NEW d \in Calls, d # c PROVE CallIrp(d)'
  OBVIOUS
<1>1. SameCall(d) /\ outcome'[d] = outcome[d] /\ CallIrp(d)
  BY DEF Aside
<1>2. NewIrp(Io(d)) => NewIrp(Io(d))'
  BY NewStays, ContextNames
<1>3. NewIrp(Cl(d)) => NewIrp(Cl(d))'
  BY NewStays, ContextNames
<1>4. CASE UNCHANGED <<sendIrp_, receiveIrp_>>
  BY <1>1, <1>2, <1>3, <1>4 DEF SameCall, CallIrp, UsesReusable, ReusableIrp
<1>5. CASE c \in Running
  <2>1. pc[d] \in {"idle", "done"} /\ kind[d] # "destroy"
    BY <1>5, OnlyRunning
  <2>2. QED
    BY <1>1, <1>2, <1>3, <2>1 DEF SameCall, CallIrp, UsesReusable, Waiting
<1>6. QED
  BY <1>4, <1>5 DEF Aside

\* The socket's IRPs, when c is the call that runs.
LEMMA HeldOf ==
    ASSUME SocketInv, discipline = "exclusive", NEW c \in Calls, c \in Running
    PROVE  Held = {x \in {sendIrp_, receiveIrp_} \ {None} : ~Leaving(c, x)}
<1>1. \A d \in Calls \ {c} : \A x : ~Leaving(d, x)
  BY OnlyRunning DEF Leaving
<1>2. QED
  BY <1>1 DEF Held

LEMMA HeldOfNext ==
    ASSUME SocketInv, discipline = "exclusive", NEW c \in Calls, c \in Running, Aside(c)
    PROVE  Held' = {x \in {sendIrp_', receiveIrp_'} \ {None} : ~(Leaving(c, x))'}
<1>1. \A d \in Calls \ {c} : pc'[d] \in {"idle", "done"}
  BY OnlyRunning DEF Aside, SameCall
<1>2. \A d \in Calls \ {c} : \A x : ~(Leaving(d, x))'
  BY <1>1 DEF Leaving
<1>3. QED
  BY <1>2 DEF Held

\* A step that leaves the fields and what c is about to clear.
LEMMA HeldSame ==
    ASSUME NEW c \in Calls, Aside(c), UNCHANGED <<sendIrp_, receiveIrp_>>,
           \A x : (Leaving(c, x))' <=> Leaving(c, x)
    PROVE  Held' = Held
<1>1. \A d \in Calls \ {c} : \A x : (Leaving(d, x))' <=> Leaving(d, x)
  BY DEF Aside, SameCall, Leaving, ReusableIrp
<1>2. \A d \in Calls : \A x : (Leaving(d, x))' <=> Leaving(d, x)
  BY <1>1
<1>3. QED
  BY <1>2 DEF Held

\* A step that allocates, frees and hands over no IRP.
LEMMA PlainMove ==
    ASSUME SocketInv, discipline = "exclusive", IrpOwners, NEW c \in Calls, Aside(c),
           UNCHANGED <<frees, sendIrp_, receiveIrp_>>,
           \A x : (Leaving(c, x))' <=> Leaving(c, x),
           \A y \in CtxIds : ctx'[y].irp = ctx[y].irp /\ (Owns(ctx', y) <=> Owns(ctx, y)),
           CallIrp(c)'
    PROVE  IrpOwners'
<1>1. Held' = Held
  BY HeldSame
<1>2. IrpLedger(ctx', frees, Held)
  BY LedgerSame DEF IrpOwners
<1>3. IrpLedger(ctx, frees, Held)'
  BY <1>1, <1>2
<1>4. \A d \in Calls : CallIrp(d)'
  BY OthersKeep DEF IrpOwners
<1>5. QED
  BY <1>3, <1>4 DEF IrpOwners

LEMMA NewSame ==
    ASSUME UNCHANGED <<frees, sendIrp_, receiveIrp_>>,
           \A y \in CtxIds : ctx'[y].irp = ctx[y].irp, NEW x, NewIrp(x)
    PROVE  NewIrp(x)'
BY DEF NewIrp

\* A step that only moves c on.
LEMMA QuietMove ==
    ASSUME SocketInv, discipline = "exclusive", IrpOwners, NEW c \in Calls, NEW p,
           pc' = [pc EXCEPT ![c] = p],
           UNCHANGED <<kind, gave, ctx, frees, sendIrp_, receiveIrp_>>,
           \A d \in Calls \ {c} : outcome'[d] = outcome[d],
           gave[c] => outcome'[c] = "timeout",
           (UsesReusable(c))' => UsesReusable(c),
           p \notin {"idle", "connect", "prepare", "allocate", "clearSend", "clearReceive"},
           pc[c] \notin {"clearSend", "clearReceive"},
           p = "reuse" => ReusableIrp(c) # None,
           p \notin MayHaveCloseContext => pc[c] \notin MayHaveCloseContext,
           kind[c] = "destroy" =>
              /\ p \in {"freeReceive", "freed", "releaseClose", "done"} => sendIrp_ = None
              /\ p \in {"freed", "releaseClose", "done"} => receiveIrp_ = None,
           kind[c] \in {"send", "receive"} /\ gave[c] =>
              (p \in {"releaseRundown", "abandon"} <=> pc[c] \in {"releaseRundown", "abandon"})
    PROVE  IrpOwners'
<1>1. pc'[c] = p /\ \A d \in Calls \ {c} : pc'[d] = pc[d]
  BY DEF SocketInv, TypeOK
<1>2. Aside(c)
  BY <1>1 DEF Aside, SameCall
<1>3. \A x : (Leaving(c, x))' <=> Leaving(c, x)
  BY <1>1 DEF Leaving, ReusableIrp
<1>4. \A x : NewIrp(x) => NewIrp(x)'
  BY NewSame
<1>5. CallIrp(c)
  BY DEF IrpOwners
<1>6. CallIrp(c)'
  <2>1. ReusableIrp(c)' = ReusableIrp(c)
    BY DEF ReusableIrp
  <2>2. QED
    BY <1>1, <1>4, <1>5, <2>1 DEF CallIrp
<1>7. \A y \in CtxIds : ctx'[y].irp = ctx[y].irp /\ (Owns(ctx', y) <=> Owns(ctx, y))
  OBVIOUS
<1>8. QED
  BY <1>2, <1>3, <1>6, <1>7, PlainMove

LEMMA WaitKeepsIrps ==
    ASSUME SocketInv, discipline = "exclusive", IrpOwners, NEW c \in Calls,
           WaitEnds(c) \/ WaitTimesOut(c) \/ CancelCompletes(c) \/ CancelTimesOut(c)
    PROVE  IrpOwners'
<1>1. pc[c] \in {"wait", "cancelWait"} /\ ~gave[c]
  BY DEF SocketInv, CallInv, IoShape, Waiting, WaitEnds, WaitTimesOut, CancelCompletes,
         CancelTimesOut
<1>2. PICK p \in {"cancelWait", "handOver", "connected", "releaseRundown"} :
         pc' = [pc EXCEPT ![c] = p]
  BY DEF WaitEnds, WaitTimesOut, CancelCompletes, CancelTimesOut, Goto, Ended
<1>3. UNCHANGED <<kind, gave, ctx, frees, sendIrp_, receiveIrp_>>
  BY DEF WaitEnds, WaitTimesOut, CancelCompletes, CancelTimesOut, fields
<1>4. \A d \in Calls \ {c} : outcome'[d] = outcome[d]
  BY DEF WaitEnds, WaitTimesOut, CancelCompletes, CancelTimesOut, SocketInv, TypeOK
<1>5. (UsesReusable(c))' => UsesReusable(c)
  BY <1>1, <1>3 DEF UsesReusable, Waiting
<1>6. p \notin MayHaveCloseContext /\ pc[c] \notin MayHaveCloseContext
  BY <1>1, <1>2 DEF MayHaveCloseContext, Freeing
<1>7. QED
  BY <1>1, <1>2, <1>3, <1>4, <1>5, <1>6, QuietMove

LEMMA ReleaseIoRundownKeepsIrps ==
    ASSUME SocketInv, discipline = "exclusive", IrpOwners, NEW c \in Calls, ReleaseIoRundown(c)
    PROVE  IrpOwners'
<1>1. pc[c] = "releaseRundown" /\ CallIrp(c) /\ CallInv(c)
  BY DEF ReleaseIoRundown, IrpOwners, SocketInv
<1>2. PICK p \in {"abandon", "release"} :
         pc' = [pc EXCEPT ![c] = p] /\ (gave[c] => p = "abandon")
  BY <1>1 DEF ReleaseIoRundown, Goto, CallIrp
<1>3. UNCHANGED <<kind, outcome, gave, ctx, frees, sendIrp_, receiveIrp_>>
  BY DEF ReleaseIoRundown
<1>4. /\ gave[c] => outcome'[c] = "timeout"
      /\ kind[c] = "destroy" =>
           /\ p \in {"freeReceive", "freed", "releaseClose", "done"} => sendIrp_ = None
           /\ p \in {"freed", "releaseClose", "done"} => receiveIrp_ = None
  BY <1>1, <1>2, <1>3 DEF CallIrp, CallInv, InStep, Waiting, Closing, Freeing
<1>5. (UsesReusable(c))' => UsesReusable(c)
  <2>1. pc'[c] = p
    BY <1>2 DEF SocketInv, TypeOK
  <2>2. QED
    BY <1>1, <1>2, <1>3, <2>1 DEF UsesReusable, Waiting
<1>6. p \notin MayHaveCloseContext => pc[c] \notin MayHaveCloseContext
  BY <1>1, <1>2 DEF MayHaveCloseContext, Freeing
<1>7. \A d \in Calls \ {c} : outcome'[d] = outcome[d]
  BY <1>3
<1>8. /\ p \notin {"idle", "connect", "prepare", "allocate", "clearSend", "clearReceive", "reuse"}
      /\ pc[c] \notin {"clearSend", "clearReceive"}
  BY <1>1, <1>2
<1>9. kind[c] \in {"send", "receive"} /\ gave[c] =>
         (p \in {"releaseRundown", "abandon"} <=> pc[c] \in {"releaseRundown", "abandon"})
  BY <1>1, <1>2 DEF CallInv, InStep
<1>10. QED
  BY <1>2, <1>3, <1>4, <1>5, <1>6, <1>7, <1>8, <1>9, QuietMove


LEMMA CloseAfterCancelledOperationKeepsIrps ==
    ASSUME SocketInv, discipline = "exclusive", IrpOwners, NEW c \in Calls, CloseAfterCancelledOperation(c)
    PROVE  IrpOwners'
<1>1. pc[c] = "closeCancelled" /\ CallIrp(c) /\ CallInv(c)
  BY DEF CloseAfterCancelledOperation, IrpOwners, SocketInv
<1>2. PICK p \in {"closeCheck", "release"} :
         pc' = [pc EXCEPT ![c] = p]
  BY <1>1 DEF CloseAfterCancelledOperation, Goto
<1>3. UNCHANGED <<kind, outcome, gave, ctx, frees, sendIrp_, receiveIrp_>>
  BY DEF CloseAfterCancelledOperation
<1>4. /\ gave[c] => outcome'[c] = "timeout"
      /\ kind[c] = "destroy" =>
           /\ p \in {"freeReceive", "freed", "releaseClose", "done"} => sendIrp_ = None
           /\ p \in {"freed", "releaseClose", "done"} => receiveIrp_ = None
  BY <1>1, <1>2, <1>3 DEF CallIrp, CallInv, InStep, Waiting, Closing, Freeing
<1>5. (UsesReusable(c))' => UsesReusable(c)
  <2>1. pc'[c] = p
    BY <1>2 DEF SocketInv, TypeOK
  <2>2. QED
    BY <1>1, <1>2, <1>3, <2>1 DEF UsesReusable, Waiting
<1>6. p \notin MayHaveCloseContext => pc[c] \notin MayHaveCloseContext
  BY <1>1, <1>2 DEF MayHaveCloseContext, Freeing
<1>7. \A d \in Calls \ {c} : outcome'[d] = outcome[d]
  BY <1>3
<1>8. /\ p \notin {"idle", "connect", "prepare", "allocate", "clearSend", "clearReceive", "reuse"}
      /\ pc[c] \notin {"clearSend", "clearReceive"}
  BY <1>1, <1>2
<1>9. kind[c] \in {"send", "receive"} /\ gave[c] =>
         (p \in {"releaseRundown", "abandon"} <=> pc[c] \in {"releaseRundown", "abandon"})
  BY <1>1, <1>2 DEF CallInv, InStep
<1>10. QED
  BY <1>2, <1>3, <1>4, <1>5, <1>6, <1>7, <1>8, <1>9, QuietMove


LEMMA CloseCheckKeepsIrps ==
    ASSUME SocketInv, discipline = "exclusive", IrpOwners, NEW c \in Calls, CloseCheck(c)
    PROVE  IrpOwners'
<1>1. pc[c] = "closeCheck" /\ CallIrp(c) /\ CallInv(c)
  BY DEF CloseCheck, IrpOwners, SocketInv
<1>2. PICK p \in {"freeSend", "closeIssue"} :
         pc' = [pc EXCEPT ![c] = p]
  BY <1>1 DEF CloseCheck, Goto
<1>3. UNCHANGED <<kind, outcome, gave, ctx, frees, sendIrp_, receiveIrp_>>
  BY DEF CloseCheck, fields
<1>4. /\ gave[c] => outcome'[c] = "timeout"
      /\ kind[c] = "destroy" =>
           /\ p \in {"freeReceive", "freed", "releaseClose", "done"} => sendIrp_ = None
           /\ p \in {"freed", "releaseClose", "done"} => receiveIrp_ = None
  BY <1>1, <1>2, <1>3 DEF CallIrp, CallInv, InStep, Waiting, Closing, Freeing
<1>5. (UsesReusable(c))' => UsesReusable(c)
  <2>1. pc'[c] = p
    BY <1>2 DEF SocketInv, TypeOK
  <2>2. QED
    BY <1>1, <1>2, <1>3, <2>1 DEF UsesReusable, Waiting
<1>6. p \notin MayHaveCloseContext => pc[c] \notin MayHaveCloseContext
  BY <1>1, <1>2 DEF MayHaveCloseContext, Freeing
<1>7. \A d \in Calls \ {c} : outcome'[d] = outcome[d]
  BY <1>3
<1>8. /\ p \notin {"idle", "connect", "prepare", "allocate", "clearSend", "clearReceive", "reuse"}
      /\ pc[c] \notin {"clearSend", "clearReceive"}
  BY <1>1, <1>2
<1>9. kind[c] \in {"send", "receive"} /\ gave[c] =>
         (p \in {"releaseRundown", "abandon"} <=> pc[c] \in {"releaseRundown", "abandon"})
  BY <1>1, <1>2 DEF CallInv, InStep
<1>10. QED
  BY <1>2, <1>3, <1>4, <1>5, <1>6, <1>7, <1>8, <1>9, QuietMove


LEMMA RunDownKeepsIrps ==
    ASSUME SocketInv, discipline = "exclusive", IrpOwners, NEW c \in Calls, RunDown(c)
    PROVE  IrpOwners'
<1>1. pc[c] = "rundown" /\ CallIrp(c) /\ CallInv(c)
  BY DEF RunDown, IrpOwners, SocketInv
<1>2. PICK p \in {"closeSocket"} :
         pc' = [pc EXCEPT ![c] = p]
  BY <1>1 DEF RunDown, Goto
<1>3. UNCHANGED <<kind, outcome, gave, ctx, frees, sendIrp_, receiveIrp_>>
  BY DEF RunDown
<1>4. /\ gave[c] => outcome'[c] = "timeout"
      /\ kind[c] = "destroy" =>
           /\ p \in {"freeReceive", "freed", "releaseClose", "done"} => sendIrp_ = None
           /\ p \in {"freed", "releaseClose", "done"} => receiveIrp_ = None
  BY <1>1, <1>2, <1>3 DEF CallIrp, CallInv, InStep, Waiting, Closing, Freeing
<1>5. (UsesReusable(c))' => UsesReusable(c)
  <2>1. pc'[c] = p
    BY <1>2 DEF SocketInv, TypeOK
  <2>2. QED
    BY <1>1, <1>2, <1>3, <2>1 DEF UsesReusable, Waiting
<1>6. p \notin MayHaveCloseContext => pc[c] \notin MayHaveCloseContext
  BY <1>1, <1>2 DEF MayHaveCloseContext, Freeing
<1>7. \A d \in Calls \ {c} : outcome'[d] = outcome[d]
  BY <1>3
<1>8. /\ p \notin {"idle", "connect", "prepare", "allocate", "clearSend", "clearReceive", "reuse"}
      /\ pc[c] \notin {"clearSend", "clearReceive"}
  BY <1>1, <1>2
<1>9. kind[c] \in {"send", "receive"} /\ gave[c] =>
         (p \in {"releaseRundown", "abandon"} <=> pc[c] \in {"releaseRundown", "abandon"})
  BY <1>1, <1>2 DEF CallInv, InStep
<1>10. QED
  BY <1>2, <1>3, <1>4, <1>5, <1>6, <1>7, <1>8, <1>9, QuietMove


LEMMA CloseWaitKeepsIrps ==
    ASSUME SocketInv, discipline = "exclusive", IrpOwners, NEW c \in Calls, CloseWait(c)
    PROVE  IrpOwners'
<1>1. pc[c] = "closeWait" /\ CallIrp(c) /\ CallInv(c)
  BY DEF CloseWait, IrpOwners, SocketInv
<1>2. PICK p \in {"releaseClose", "freeSend"} :
         pc' = [pc EXCEPT ![c] = p] /\ (p = "releaseClose" => kind[c] = "connect")
  BY <1>1 DEF CloseWait, Goto
<1>3. UNCHANGED <<kind, outcome, gave, ctx, frees, sendIrp_, receiveIrp_>>
  BY DEF CloseWait
<1>4. /\ gave[c] => outcome'[c] = "timeout"
      /\ kind[c] = "destroy" =>
           /\ p \in {"freeReceive", "freed", "releaseClose", "done"} => sendIrp_ = None
           /\ p \in {"freed", "releaseClose", "done"} => receiveIrp_ = None
  BY <1>1, <1>2, <1>3 DEF CallIrp, CallInv, InStep, Waiting, Closing, Freeing
<1>5. (UsesReusable(c))' => UsesReusable(c)
  <2>1. pc'[c] = p
    BY <1>2 DEF SocketInv, TypeOK
  <2>2. QED
    BY <1>1, <1>2, <1>3, <2>1 DEF UsesReusable, Waiting
<1>6. p \notin MayHaveCloseContext => pc[c] \notin MayHaveCloseContext
  BY <1>1, <1>2 DEF MayHaveCloseContext, Freeing
<1>7. \A d \in Calls \ {c} : outcome'[d] = outcome[d]
  BY <1>3
<1>8. /\ p \notin {"idle", "connect", "prepare", "allocate", "clearSend", "clearReceive", "reuse"}
      /\ pc[c] \notin {"clearSend", "clearReceive"}
  BY <1>1, <1>2
<1>9. kind[c] \in {"send", "receive"} /\ gave[c] =>
         (p \in {"releaseRundown", "abandon"} <=> pc[c] \in {"releaseRundown", "abandon"})
  BY <1>1, <1>2 DEF CallInv, InStep
<1>10. QED
  BY <1>2, <1>3, <1>4, <1>5, <1>6, <1>7, <1>8, <1>9, QuietMove


LEMMA IrpsReleasedKeepsIrps ==
    ASSUME SocketInv, discipline = "exclusive", IrpOwners, NEW c \in Calls, IrpsReleased(c)
    PROVE  IrpOwners'
<1>1. pc[c] = "freed" /\ CallIrp(c) /\ CallInv(c)
  BY DEF IrpsReleased, IrpOwners, SocketInv
<1>2. PICK p \in {"releaseClose", "done", "freeSend", "release"} :
         pc' = [pc EXCEPT ![c] = p]
  BY <1>1 DEF IrpsReleased, AfterClose, Goto
<1>3. UNCHANGED <<kind, outcome, gave, ctx, frees, sendIrp_, receiveIrp_>>
  BY DEF IrpsReleased
<1>4. /\ gave[c] => outcome'[c] = "timeout"
      /\ kind[c] = "destroy" =>
           /\ p \in {"freeReceive", "freed", "releaseClose", "done"} => sendIrp_ = None
           /\ p \in {"freed", "releaseClose", "done"} => receiveIrp_ = None
  BY <1>1, <1>2, <1>3 DEF CallIrp, CallInv, InStep, Waiting, Closing, Freeing
<1>5. (UsesReusable(c))' => UsesReusable(c)
  <2>1. pc'[c] = p
    BY <1>2 DEF SocketInv, TypeOK
  <2>2. QED
    BY <1>1, <1>2, <1>3, <2>1 DEF UsesReusable, Waiting
<1>6. p \notin MayHaveCloseContext => pc[c] \notin MayHaveCloseContext
  BY <1>1, <1>2 DEF MayHaveCloseContext, Freeing
<1>7. \A d \in Calls \ {c} : outcome'[d] = outcome[d]
  BY <1>3
<1>8. /\ p \notin {"idle", "connect", "prepare", "allocate", "clearSend", "clearReceive", "reuse"}
      /\ pc[c] \notin {"clearSend", "clearReceive"}
  BY <1>1, <1>2
<1>9. kind[c] \in {"send", "receive"} /\ gave[c] =>
         (p \in {"releaseRundown", "abandon"} <=> pc[c] \in {"releaseRundown", "abandon"})
  BY <1>1, <1>2 DEF CallInv, InStep
<1>10. QED
  BY <1>2, <1>3, <1>4, <1>5, <1>6, <1>7, <1>8, <1>9, QuietMove


LEMMA ConnectedKeepsIrps ==
    ASSUME SocketInv, discipline = "exclusive", IrpOwners, NEW c \in Calls, Connected(c)
    PROVE  IrpOwners'
<1>1. pc[c] = "connected" /\ CallIrp(c) /\ CallInv(c)
  BY DEF Connected, IrpOwners, SocketInv
<1>2. PICK p \in {"closeNative", "release"} :
         pc' = [pc EXCEPT ![c] = p]
  BY <1>1 DEF Connected, Goto
<1>3. UNCHANGED <<kind, outcome, gave, ctx, frees, sendIrp_, receiveIrp_>>
  BY DEF Connected
<1>4. /\ gave[c] => outcome'[c] = "timeout"
      /\ kind[c] = "destroy" =>
           /\ p \in {"freeReceive", "freed", "releaseClose", "done"} => sendIrp_ = None
           /\ p \in {"freed", "releaseClose", "done"} => receiveIrp_ = None
  BY <1>1, <1>2, <1>3 DEF CallIrp, CallInv, InStep, Waiting, Closing, Freeing
<1>5. (UsesReusable(c))' => UsesReusable(c)
  <2>1. pc'[c] = p
    BY <1>2 DEF SocketInv, TypeOK
  <2>2. QED
    BY <1>1, <1>2, <1>3, <2>1 DEF UsesReusable, Waiting
<1>6. p \notin MayHaveCloseContext => pc[c] \notin MayHaveCloseContext
  BY <1>1, <1>2 DEF MayHaveCloseContext, Freeing
<1>7. \A d \in Calls \ {c} : outcome'[d] = outcome[d]
  BY <1>3
<1>8. /\ p \notin {"idle", "connect", "prepare", "allocate", "clearSend", "clearReceive", "reuse"}
      /\ pc[c] \notin {"clearSend", "clearReceive"}
  BY <1>1, <1>2
<1>9. kind[c] \in {"send", "receive"} /\ gave[c] =>
         (p \in {"releaseRundown", "abandon"} <=> pc[c] \in {"releaseRundown", "abandon"})
  BY <1>1, <1>2 DEF CallInv, InStep
<1>10. QED
  BY <1>2, <1>3, <1>4, <1>5, <1>6, <1>7, <1>8, <1>9, QuietMove

\* A context that gets an IRP, its own or one it borrows.
LEMMA GivenContext ==
    ASSUME TypeOK, NEW x \in CtxIds, NEW irp \in CtxIds, NEW borrowed \in BOOLEAN,
           ctx' = WskSyncInitializeIrpContext(ctx, x, irp, borrowed)
    PROVE  /\ \A y \in CtxIds \ {x} : ctx'[y] = ctx[y]
           /\ ctx'[x].refs = 2 /\ ctx'[x].irp = irp
           /\ ctx'[x].borrowed <=> borrowed
           /\ ~ctx'[x].owned
<1> DEFINE r == Context(2, "idle", borrowed, irp)
<1>1. r.refs = 2 /\ r.irp = irp /\ (r.borrowed <=> borrowed) /\ ~r.owned
  BY DEF Context
<1>2. ctx' = [ctx EXCEPT ![x] = r]
  BY DEF WskSyncInitializeIrpContext
<1> HIDE DEF r
<1>3. QED
  BY <1>1, <1>2 DEF TypeOK

\* A step that moves c on with a new context that has an IRP of its own.
LEMMA AllocationMove ==
    ASSUME SocketInv, discipline = "exclusive", IrpOwners, NEW c \in Calls, NEW p,
           NEW x \in {Io(c), Cl(c)}, NewIrp(x), ctx[x].refs = 0,
           pc' = [pc EXCEPT ![c] = p],
           UNCHANGED <<kind, outcome, gave, frees, sendIrp_, receiveIrp_>>,
           \A y \in CtxIds \ {x} : ctx'[y] = ctx[y],
           ctx'[x].refs = 2, ctx'[x].irp = x, ~ctx'[x].borrowed, ~ctx'[x].owned,
           p \in {"submit", "acquire", "rundown", "closeWait"},
           pc[c] \in {"connect", "allocate", "closeNative", "closeIssue"},
           p \in {"submit", "acquire"} => kind[c] \notin {"send", "receive"},
           x = Cl(c) => /\ p \in MayHaveCloseContext
                        /\ ~(kind[c] = "connect" /\ ctx[Io(c)].owned)
    PROVE  IrpOwners'
<1>0. Io(c) # Cl(c) /\ Io(c) \in CtxIds /\ Cl(c) \in CtxIds /\ None \notin CtxIds
  BY ContextNames
<1>1. pc'[c] = p /\ \A d \in Calls \ {c} : pc'[d] = pc[d]
  BY DEF SocketInv, TypeOK
<1>2. Aside(c)
  <2>1. \A d \in Calls \ {c} : ctx'[Io(d)] = ctx[Io(d)] /\ ctx'[Cl(d)] = ctx[Cl(d)]
    BY ContextNames
  <2>2. \A y \in {Io(c), Cl(c)} : ctx'[y].irp \in {ctx[y].irp, Io(c), Cl(c)}
    BY <1>0
  <2>3. QED
    BY <1>1, <2>1, <2>2 DEF Aside, SameCall
<1>3. \A z : (Leaving(c, z))' <=> Leaving(c, z)
  BY <1>1 DEF Leaving
<1>4. Held' = Held
  BY <1>2, <1>3, HeldSame
<1>5. IrpLedger(ctx', frees, Held)
  <2>1. ~Owns(ctx, x) /\ Owns(ctx', x)
    BY DEF Owns
  <2>2. Others(ctx, ctx', x)
    BY DEF Others, Owns
  <2>3. x \notin Held
    BY DEF Held, NewIrp
  <2>4. QED
    BY <1>0, <2>1, <2>2, <2>3, LedgerAllocates DEF IrpOwners, NewIrp
<1>6. x = Io(c) => (NewIrp(Cl(c)) => NewIrp(Cl(c))')
  BY <1>0 DEF NewIrp
<1>7. CallIrp(c)'
  <2>1. CallIrp(c)
    BY DEF IrpOwners
  <2>2. CASE x = Io(c)
    <3>1. pc[c] \notin MayHaveCloseContext
      BY DEF MayHaveCloseContext, Freeing
    <3>2. ctx'[Cl(c)] = ctx[Cl(c)]
      BY <1>0, <2>2
    <3>3. ~UsesReusable(c)'
      BY <1>1 DEF UsesReusable, Waiting
    <3>4. QED
      BY <1>1, <1>6, <2>1, <2>2, <3>1, <3>2, <3>3 DEF CallIrp
  <2>3. CASE x = Cl(c)
    <3>1. ctx'[Io(c)] = ctx[Io(c)]
      BY <1>0, <2>3
    <3>2. ~UsesReusable(c)'
      BY <1>1 DEF UsesReusable, Waiting
    <3>3. QED
      BY <1>1, <2>1, <2>3, <3>1, <3>2 DEF CallIrp
  <2>4. QED
    BY <2>2, <2>3
<1>8. \A d \in Calls : CallIrp(d)'
  BY <1>2, <1>7, OthersKeep DEF IrpOwners
<1>9. QED
  BY <1>4, <1>5, <1>8 DEF IrpOwners

LEMMA ConnectAllocateKeepsIrps ==
    ASSUME SocketInv, discipline = "exclusive", IrpOwners, NEW c \in Calls,
           ConnectAllocate(c) \/ WskSyncAllocateIrp(c)
    PROVE  IrpOwners'
<1>0. Io(c) \in CtxIds /\ TypeOK
  BY ContextNames DEF SocketInv
<1>1. /\ pc[c] \in {"connect", "allocate"} /\ CallIrp(c) /\ CallInv(c)
      /\ ctx' = WskSyncInitializeIrpContext(ctx, Io(c), Io(c), FALSE)
      /\ UNCHANGED <<kind, outcome, gave, frees, sendIrp_, receiveIrp_>>
  BY DEF ConnectAllocate, WskSyncAllocateIrp, IrpOwners, SocketInv, fields
<1>2. PICK p \in {"submit", "acquire"} : pc' = [pc EXCEPT ![c] = p]
  BY DEF ConnectAllocate, WskSyncAllocateIrp, Goto
<1>3. kind[c] \notin {"send", "receive"}
  BY <1>1 DEF CallInv, InStep, Waiting, Closing, Freeing
<1>4. /\ \A y \in CtxIds \ {Io(c)} : ctx'[y] = ctx[y]
      /\ ctx'[Io(c)].refs = 2 /\ ctx'[Io(c)].irp = Io(c)
      /\ ~ctx'[Io(c)].borrowed /\ ~ctx'[Io(c)].owned
  BY <1>0, <1>1, GivenContext
<1>5. NewIrp(Io(c))
  BY <1>1 DEF CallIrp
<1>6. ctx[Io(c)].refs = 0
  BY <1>1 DEF CallInv, IoShape, Unprepared, NoContext, Context
<1>7. Io(c) # Cl(c)
  BY ContextNames
<1>8. QED
  BY <1>1, <1>2, <1>3, <1>4, <1>5, <1>6, <1>7, AllocationMove

LEMMA CloseNativeKeepsIrps ==
    ASSUME SocketInv, discipline = "exclusive", IrpOwners, NEW c \in Calls, CloseNative(c)
    PROVE  IrpOwners'
<1>0. Cl(c) \in CtxIds /\ TypeOK /\ Io(c) # Cl(c)
  BY ContextNames DEF SocketInv
<1>1. /\ pc[c] = "closeNative" /\ CallIrp(c) /\ CallInv(c) /\ ~gave[c]
      /\ UNCHANGED <<kind, outcome, gave, frees, sendIrp_, receiveIrp_>>
  BY DEF CloseNative, IrpOwners, SocketInv, Natives, fields
<1>2. kind[c] = "connect"
  BY <1>1 DEF CallInv, InStep, Waiting, Closing, Freeing
<1>3. ~ctx[Io(c)].owned
  BY <1>1, <1>2 DEF CallInv, IoShape, Operations, NoIoContext
<1>4. NewIrp(Cl(c)) /\ ctx[Cl(c)].refs = 0
  BY <1>1 DEF CallIrp, MayHaveCloseContext, Freeing
<1>5. CASE /\ pc' = [pc EXCEPT ![c] = "closeWait"]
           /\ ctx' = [WskSyncInitializeIrpContext(ctx, Cl(c), Cl(c), FALSE)
                         EXCEPT ![Cl(c)].io = "pending"]
  <2> DEFINE r == [Context(2, "idle", FALSE, Cl(c)) EXCEPT !.io = "pending"]
  <2>1. r.refs = 2 /\ r.irp = Cl(c) /\ ~r.borrowed /\ ~r.owned
    BY DEF Context
  <2>2. ctx' = [ctx EXCEPT ![Cl(c)] = r]
    BY <1>0, <1>5 DEF TypeOK, WskSyncInitializeIrpContext
  <2> HIDE DEF r
  <2>4. /\ \A y \in CtxIds \ {Cl(c)} : ctx'[y] = ctx[y]
        /\ ctx'[Cl(c)].refs = 2 /\ ctx'[Cl(c)].irp = Cl(c)
        /\ ~ctx'[Cl(c)].borrowed /\ ~ctx'[Cl(c)].owned
    BY <1>0, <2>1, <2>2 DEF TypeOK
  <2>5. "closeWait" \in MayHaveCloseContext
    BY DEF MayHaveCloseContext
  <2>6. QED
    BY <1>1, <1>2, <1>3, <1>4, <1>5, <2>4, <2>5, AllocationMove
<1>6. CASE pc' = [pc EXCEPT ![c] = "release"] /\ ctx' = ctx
  <2>1. ~UsesReusable(c)'
    BY <1>1, <1>2 DEF UsesReusable
  <2>2. \A d \in Calls \ {c} : outcome'[d] = outcome[d]
    BY <1>1
  <2>3. "release" \in MayHaveCloseContext
    BY DEF MayHaveCloseContext
  <2>4. QED
    BY <1>1, <1>2, <1>6, <2>1, <2>2, <2>3, QuietMove
<1>7. QED
  BY <1>5, <1>6 DEF CloseNative, Goto

LEMMA CloseIssueKeepsIrps ==
    ASSUME SocketInv, discipline = "exclusive", IrpOwners, NEW c \in Calls, CloseIssue(c)
    PROVE  IrpOwners'
<1>0. Cl(c) \in CtxIds /\ TypeOK /\ Io(c) # Cl(c) /\ Io(c) \in CtxIds /\ None \notin CtxIds
      /\ TypeOK
  BY ContextNames DEF SocketInv
<1>1. /\ pc[c] = "closeIssue" /\ CallIrp(c) /\ CallInv(c)
      /\ UNCHANGED <<kind, outcome, gave, sendIrp_, receiveIrp_>>
  BY DEF CloseIssue, IrpOwners, SocketInv
<1>2. kind[c] # "connect"
  BY <1>1 DEF CallInv, InStep, Waiting
<1>3. NewIrp(Cl(c)) /\ ctx[Cl(c)].refs = 0
  BY <1>1 DEF CallIrp, MayHaveCloseContext, Freeing
<1>4. CASE /\ pc' = [pc EXCEPT ![c] = "rundown"] /\ frees' = frees
           /\ ctx' = WskSyncInitializeIrpContext(ctx, Cl(c), Cl(c), FALSE)
  <2>1. /\ \A y \in CtxIds \ {Cl(c)} : ctx'[y] = ctx[y]
        /\ ctx'[Cl(c)].refs = 2 /\ ctx'[Cl(c)].irp = Cl(c)
        /\ ~ctx'[Cl(c)].borrowed /\ ~ctx'[Cl(c)].owned
    BY <1>0, <1>4, GivenContext
  <2>2. "rundown" \in MayHaveCloseContext
    BY DEF MayHaveCloseContext
  <2>3. QED
    BY <1>1, <1>2, <1>3, <1>4, <2>1, <2>2, AllocationMove
<1>5. PICK p \in {"done", "freeSend", "release"} :
         p = AfterClose(c) /\ (kind[c] = "destroy" => p = "freeSend")
  BY DEF AfterClose
<1>6. p \in MayHaveCloseContext
  BY DEF MayHaveCloseContext, Freeing
<1>7. CASE pc' = [pc EXCEPT ![c] = p] /\ frees' = frees /\ ctx' = ctx
  <2>1. pc'[c] = p
    BY <1>7 DEF SocketInv, TypeOK
  <2>2. ~UsesReusable(c)'
    BY <2>1 DEF UsesReusable, Waiting
  <2>3. \A d \in Calls \ {c} : outcome'[d] = outcome[d]
    BY <1>1
  <2>4. gave[c] => outcome'[c] = "timeout"
    BY <1>1 DEF CallIrp
  <2>5. QED
    BY <1>1, <1>5, <1>6, <1>7, <2>2, <2>3, <2>4, QuietMove
<1>8. CASE /\ pc' = [pc EXCEPT ![c] = p] /\ ctx' = ctx
           /\ frees' = [frees EXCEPT ![Cl(c)] = @ + 1]
  <2>1. pc'[c] = p /\ \A d \in Calls \ {c} : pc'[d] = pc[d]
    BY <1>8 DEF SocketInv, TypeOK
  <2>2. Aside(c)
    <3>1. \A x \in CtxIds \ {Cl(c)} : frees'[x] = frees[x]
      BY <1>8 DEF SocketInv, TypeOK
    <3>2. QED
      BY <1>1, <1>8, <2>1, <3>1 DEF Aside, SameCall
  <2>3. \A z : (Leaving(c, z))' <=> Leaving(c, z)
    BY <1>1, <2>1 DEF Leaving
  <2>4. Held' = Held
    BY <1>1, <2>2, <2>3, HeldSame
  <2>5. Cl(c) \notin Held
    BY <1>3 DEF Held, NewIrp
  <2>6. IrpLedger(ctx', frees', Held)
    BY <1>0, <1>3, <1>8, <2>5, LedgerFreesUnused DEF IrpOwners, NewIrp, TypeOK
  <2>7. CallIrp(c)'
    BY <1>1, <1>2, <1>5, <1>6, <1>8, <2>1 DEF CallIrp, UsesReusable, Waiting
  <2>8. \A d \in Calls : CallIrp(d)'
    BY <2>2, <2>7, OthersKeep DEF IrpOwners
  <2>9. QED
    BY <1>1, <2>4, <2>6, <2>8 DEF IrpOwners
<1>9. QED
  BY <1>4, <1>5, <1>7, <1>8 DEF CloseIssue, Goto

\* A new reusable IRP becomes the socket's.
LEMMA NewReusable ==
    ASSUME SocketInv, discipline = "exclusive", IrpOwners, NEW c \in Calls, Aside(c),
           pc[c] = "prepare", pc'[c] \in {"acquire", "done"}, kind[c] \in {"send", "receive"},
           ReusableIrp(c) = None, SetReusableIrp(c, Io(c)), UNCHANGED frees
    PROVE  /\ Held' = Held \cup {Io(c)}
           /\ sendIrp_' # None => sendIrp_' # receiveIrp_'
           /\ NewIrp(Io(c)) /\ IrpLedger(ctx, frees, Held \cup {Io(c)})
<1>0. Io(c) \in CtxIds /\ None \notin CtxIds
  BY ContextNames
<1>1. c \in Running
  BY DEF Running
<1>2. \A x : ~Leaving(c, x) /\ ~(Leaving(c, x))'
  BY DEF Leaving
<1>3. Held = {sendIrp_, receiveIrp_} \ {None} /\ Held' = {sendIrp_', receiveIrp_'} \ {None}
  BY <1>1, <1>2, HeldOf, HeldOfNext
<1>4. NewIrp(Io(c))
  BY DEF IrpOwners, CallIrp
<1>5. {sendIrp_', receiveIrp_'} \ {None} = ({sendIrp_, receiveIrp_} \ {None}) \cup {Io(c)}
  BY <1>0 DEF SetReusableIrp, ReusableIrp
<1>6. sendIrp_' # None => sendIrp_' # receiveIrp_'
  BY <1>0, <1>4 DEF SetReusableIrp, ReusableIrp, NewIrp
<1>7. IrpLedger(ctx, frees, Held \cup {Io(c)})
  BY <1>0, <1>4, LedgerKeepsNew DEF IrpOwners, NewIrp
<1>8. QED
  BY <1>3, <1>4, <1>5, <1>6, <1>7

LEMMA RefusedKeepsIrps ==
    ASSUME SocketInv, discipline = "exclusive", IrpOwners, NEW c \in Calls, Refused(c)
    PROVE  IrpOwners'
<1>1. /\ pc[c] \in {"connect", "prepare", "reuse", "allocate"} /\ CallIrp(c) /\ CallInv(c)
      /\ pc' = [pc EXCEPT ![c] = "done"]
      /\ UNCHANGED <<kind, outcome, gave, ctx, frees>>
  BY DEF Refused, IrpOwners, SocketInv, Goto
<1>2. pc'[c] = "done" /\ \A d \in Calls \ {c} : pc'[d] = pc[d]
  BY <1>1 DEF SocketInv, TypeOK
<1>3. kind[c] \in Operations /\ ~gave[c]
  BY <1>1 DEF CallInv, InStep, IoShape, NoIoContext, Operations, Waiting, Closing, Freeing
<1>4. "done" \in MayHaveCloseContext
  BY DEF MayHaveCloseContext
<1>5. CASE UNCHANGED <<sendIrp_, receiveIrp_>>
  <2>1. ~UsesReusable(c)'
    BY <1>2 DEF UsesReusable, Waiting
  <2>2. \A d \in Calls \ {c} : outcome'[d] = outcome[d]
    BY <1>1
  <2>3. QED
    BY <1>1, <1>3, <1>4, <1>5, <2>1, <2>2, QuietMove DEF Operations
<1>6. CASE pc[c] = "prepare" /\ ReusableIrp(c) = None /\ SetReusableIrp(c, Io(c))
  <2>1. kind[c] \in {"send", "receive"}
    BY <1>1, <1>6 DEF CallInv, InStep, Waiting, Closing, Freeing
  <2>2. Aside(c)
    BY <1>1, <1>2, <1>6 DEF Aside, SameCall, SetReusableIrp, Running
  <2>3. Held' = Held \cup {Io(c)} /\ IrpLedger(ctx, frees, Held \cup {Io(c)})
    BY <1>1, <1>2, <1>6, <2>1, <2>2, NewReusable
  <2>4. sendIrp_' # None => sendIrp_' # receiveIrp_'
    BY <1>1, <1>2, <1>6, <2>1, <2>2, NewReusable
  <2>5. ctx[Io(c)] = NoContext
    BY <1>1 DEF CallInv, IoShape, Unprepared
  <2>6. CallIrp(c)'
    BY <1>1, <1>2, <1>3, <1>4, <2>1, <2>5 DEF CallIrp, UsesReusable, Waiting, NoContext, Context
  <2>7. \A d \in Calls : CallIrp(d)'
    BY <2>2, <2>6, OthersKeep DEF IrpOwners
  <2>8. QED
    BY <1>1, <2>3, <2>4, <2>7 DEF IrpOwners
<1>7. QED
  BY <1>5, <1>6 DEF Refused

LEMMA PrepareReusableIrpKeepsIrps ==
    ASSUME SocketInv, discipline = "exclusive", IrpOwners, NEW c \in Calls, PrepareReusableIrp(c)
    PROVE  IrpOwners'
<1>0. Io(c) \in CtxIds /\ Cl(c) \in CtxIds /\ None \notin CtxIds /\ Io(c) # Cl(c) /\ TypeOK
  BY ContextNames DEF SocketInv
<1>1. /\ pc[c] = "prepare" /\ CallIrp(c) /\ CallInv(c)
      /\ UNCHANGED <<kind, outcome, gave, frees>>
  BY DEF PrepareReusableIrp, IrpOwners, SocketInv
<1>2. kind[c] \in {"send", "receive"}
  BY <1>1 DEF CallInv, InStep, Waiting, Closing, Freeing
<1>3. ~gave[c] /\ ctx[Io(c)] = NoContext
  BY <1>1 DEF CallInv, IoShape, NoIoContext, Unprepared
<1>4. CASE /\ ReusableIrp(c) # None /\ pc' = [pc EXCEPT ![c] = "reuse"]
           /\ UNCHANGED <<sendIrp_, receiveIrp_, ctx>>
  <2>1. pc'[c] = "reuse"
    BY <1>4 DEF SocketInv, TypeOK
  <2>2. ~UsesReusable(c)'
    BY <2>1 DEF UsesReusable, Waiting
  <2>3. \A d \in Calls \ {c} : outcome'[d] = outcome[d]
    BY <1>1
  <2>4. pc[c] \notin MayHaveCloseContext
    BY <1>1 DEF MayHaveCloseContext, Freeing
  <2>5. QED
    BY <1>1, <1>2, <1>3, <1>4, <2>2, <2>3, <2>4, QuietMove
<1>5. CASE /\ ReusableIrp(c) = None /\ pc' = [pc EXCEPT ![c] = "acquire"]
           /\ SetReusableIrp(c, Io(c))
           /\ ctx' = WskSyncInitializeIrpContext(ctx, Io(c), Io(c), TRUE)
  <2>1. pc'[c] = "acquire" /\ \A d \in Calls \ {c} : pc'[d] = pc[d]
    BY <1>5 DEF SocketInv, TypeOK
  <2>2. /\ \A y \in CtxIds \ {Io(c)} : ctx'[y] = ctx[y]
        /\ ctx'[Io(c)].refs = 2 /\ ctx'[Io(c)].irp = Io(c)
        /\ ctx'[Io(c)].borrowed /\ ~ctx'[Io(c)].owned
    BY <1>0, <1>5, GivenContext
  <2>3. Aside(c)
    <3>1. \A d \in Calls \ {c} : ctx'[Io(d)] = ctx[Io(d)] /\ ctx'[Cl(d)] = ctx[Cl(d)]
      BY <2>2, ContextNames
    <3>2. \A y \in {Io(c), Cl(c)} : ctx'[y].irp \in {ctx[y].irp, Io(c)}
      BY <1>0, <2>2
    <3>3. QED
      BY <1>1, <1>5, <2>1, <3>1, <3>2 DEF Aside, SameCall, SetReusableIrp, Running
  <2>4. /\ Held' = Held \cup {Io(c)} /\ IrpLedger(ctx, frees, Held \cup {Io(c)})
        /\ NewIrp(Io(c))
    BY <1>1, <1>2, <1>5, <2>1, <2>3, NewReusable
  <2>5. sendIrp_' # None => sendIrp_' # receiveIrp_'
    BY <1>1, <1>2, <1>5, <2>1, <2>3, NewReusable
  <2>6. IrpLedger(ctx', frees, Held \cup {Io(c)})
    <3>1. ~Owns(ctx, Io(c)) /\ ~Owns(ctx', Io(c))
      BY <1>3, <2>2 DEF Owns, NoContext, Context
    <3>2. Others(ctx, ctx', Io(c))
      BY <2>2 DEF Others, Owns
    <3>3. QED
      BY <1>0, <2>2, <2>4, <3>1, <3>2, LedgerBorrows
  <2>7. CallIrp(c)'
    <3>1. NewIrp(Cl(c)) /\ ctx[Cl(c)].refs = 0
      BY <1>1 DEF CallIrp, MayHaveCloseContext, Freeing
    <3>2. NewIrp(Cl(c))'
      BY <1>0, <1>1, <1>5, <2>2, <3>1 DEF NewIrp, SetReusableIrp
    <3>3. ReusableIrp(c)' = Io(c)
      BY <1>1, <1>2, <1>5 DEF ReusableIrp, SetReusableIrp
    <3>4. ctx'[Cl(c)] = ctx[Cl(c)]
      BY <1>0, <2>2
    <3>5. QED
      BY <1>0, <1>1, <1>2, <1>3, <2>1, <2>2, <3>1, <3>2, <3>3, <3>4 DEF CallIrp
  <2>8. \A d \in Calls : CallIrp(d)'
    BY <2>3, <2>7, OthersKeep DEF IrpOwners
  <2>9. QED
    BY <1>1, <2>4, <2>5, <2>6, <2>8 DEF IrpOwners
<1>6. QED
  BY <1>4, <1>5 DEF PrepareReusableIrp, Goto

LEMMA IoReuseIrpKeepsIrps ==
    ASSUME SocketInv, discipline = "exclusive", IrpOwners, NEW c \in Calls, IoReuseIrp(c)
    PROVE  IrpOwners'
<1>0. Io(c) \in CtxIds /\ Cl(c) \in CtxIds /\ None \notin CtxIds /\ Io(c) # Cl(c) /\ TypeOK
  BY ContextNames DEF SocketInv
<1>1. /\ pc[c] = "reuse" /\ CallIrp(c) /\ CallInv(c)
      /\ UNCHANGED <<kind, outcome, gave, frees, sendIrp_, receiveIrp_>>
  BY DEF IoReuseIrp, IrpOwners, SocketInv, fields
<1>2. kind[c] \in {"send", "receive"}
  BY <1>1 DEF CallInv, InStep, Waiting, Closing, Freeing
<1>3. ~gave[c] /\ ctx[Io(c)] = NoContext
  BY <1>1 DEF CallInv, IoShape, NoIoContext, Unprepared
<1>4. ReusableIrp(c) # None /\ ReusableIrp(c) \in CtxIds
  BY <1>0, <1>1 DEF CallIrp, TypeOK, ReusableIrp
<1>5. /\ pc' = [pc EXCEPT ![c] = "acquire"]
      /\ ctx' = WskSyncInitializeIrpContext(ctx, Io(c), ReusableIrp(c), TRUE)
  BY <1>4 DEF IoReuseIrp, Goto
<1>6. pc'[c] = "acquire" /\ \A d \in Calls \ {c} : pc'[d] = pc[d]
  BY <1>5 DEF SocketInv, TypeOK
<1>7. /\ \A y \in CtxIds \ {Io(c)} : ctx'[y] = ctx[y]
      /\ ctx'[Io(c)].refs = 2 /\ ctx'[Io(c)].irp = ReusableIrp(c)
      /\ ctx'[Io(c)].borrowed /\ ~ctx'[Io(c)].owned
  BY <1>0, <1>4, <1>5, GivenContext
<1>8. Aside(c)
  <2>1. \A d \in Calls \ {c} : ctx'[Io(d)] = ctx[Io(d)] /\ ctx'[Cl(d)] = ctx[Cl(d)]
    BY <1>7, ContextNames
  <2>2. \A y \in {Io(c), Cl(c)} : ctx'[y].irp \in {ctx[y].irp, sendIrp_, receiveIrp_}
    BY <1>0, <1>7 DEF ReusableIrp
  <2>3. QED
    BY <1>1, <1>6, <2>1, <2>2 DEF Aside, SameCall
<1>9. \A x : ~Leaving(c, x) /\ ~(Leaving(c, x))'
  BY <1>1, <1>6 DEF Leaving
<1>10. Held' = Held
  BY <1>1, <1>8, <1>9, HeldSame
<1>11. ReusableIrp(c) \in Held
  <2>1. c \in Running
    BY <1>1 DEF Running
  <2>2. QED
    BY <1>4, <1>9, <2>1, HeldOf DEF ReusableIrp
<1>12. IrpLedger(ctx', frees, Held)
  <2>1. ~Owns(ctx, Io(c)) /\ ~Owns(ctx', Io(c))
    BY <1>3, <1>7 DEF Owns, NoContext, Context
  <2>2. Others(ctx, ctx', Io(c))
    BY <1>7 DEF Others, Owns
  <2>3. QED
    BY <1>0, <1>7, <1>11, <2>1, <2>2, LedgerBorrows DEF IrpOwners
<1>13. CallIrp(c)'
  <2>1. NewIrp(Cl(c)) /\ ctx[Cl(c)].refs = 0
    BY <1>1 DEF CallIrp, MayHaveCloseContext, Freeing
  <2>2. NewIrp(Cl(c))'
    BY <1>0, <1>1, <1>7, <2>1 DEF NewIrp, ReusableIrp
  <2>3. ReusableIrp(c)' = ReusableIrp(c)
    BY <1>1 DEF ReusableIrp
  <2>4. ctx'[Cl(c)] = ctx[Cl(c)]
    BY <1>0, <1>7
  <2>5. QED
    BY <1>1, <1>2, <1>3, <1>4, <1>6, <1>7, <2>1, <2>2, <2>3, <2>4 DEF CallIrp
<1>14. \A d \in Calls : CallIrp(d)'
  BY <1>8, <1>13, OthersKeep DEF IrpOwners
<1>15. QED
  BY <1>1, <1>10, <1>12, <1>14 DEF IrpOwners

LEMMA FreeSendKeepsIrps ==
    ASSUME SocketInv, discipline = "exclusive", IrpOwners, NEW c \in Calls, FreeSend(c)
    PROVE  IrpOwners'
<1>1. /\ pc[c] = "freeSend" /\ CallIrp(c) /\ CallInv(c) /\ TypeOK
      /\ UNCHANGED <<kind, outcome, gave, ctx, sendIrp_, receiveIrp_>>
  BY DEF FreeSend, FreeReusable, IrpOwners, SocketInv, fields
<1>2. kind[c] # "connect"
  BY <1>1 DEF CallInv, InStep, Waiting
<1>3. {"freeSend", "freeReceive", "clearSend"} \subseteq MayHaveCloseContext
  BY DEF MayHaveCloseContext, Freeing
<1>4. CASE sendIrp_ = None /\ pc' = [pc EXCEPT ![c] = "freeReceive"] /\ frees' = frees
  <2>1. pc'[c] = "freeReceive"
    BY <1>1, <1>4 DEF TypeOK
  <2>2. ~UsesReusable(c)'
    BY <2>1 DEF UsesReusable, Waiting
  <2>3. \A d \in Calls \ {c} : outcome'[d] = outcome[d]
    BY <1>1
  <2>4. /\ gave[c] => outcome'[c] = "timeout"
        /\ kind[c] = "destroy" => sendIrp_ = None
    BY <1>1, <1>4 DEF CallIrp
  <2>5. QED
    BY <1>1, <1>2, <1>3, <1>4, <2>2, <2>3, <2>4, QuietMove
<1>5. CASE /\ sendIrp_ # None /\ pc' = [pc EXCEPT ![c] = "clearSend"]
           /\ frees' = [frees EXCEPT ![sendIrp_] = @ + 1]
  <2>1. pc'[c] = "clearSend" /\ \A d \in Calls \ {c} : pc'[d] = pc[d]
    BY <1>1, <1>5 DEF TypeOK
  <2>2. Aside(c)
    <3>1. \A x \in CtxIds \ {sendIrp_} : frees'[x] = frees[x]
      BY <1>1, <1>5 DEF TypeOK
    <3>2. QED
      BY <1>1, <2>1, <3>1 DEF Aside, SameCall
  <2>3. c \in Running
    BY <1>1 DEF Running
  <2>4. \A x : ~Leaving(c, x) /\ ((Leaving(c, x))' <=> x = sendIrp_)
    BY <1>1, <2>1 DEF Leaving
  <2>5. Held = {sendIrp_, receiveIrp_} \ {None}
    BY <2>3, <2>4, HeldOf
  <2>6. Held' = {x \in {sendIrp_, receiveIrp_} \ {None} : x # sendIrp_}
    BY <1>1, <2>2, <2>3, <2>4, HeldOfNext
  <2>7. Held' = Held \ {sendIrp_} /\ sendIrp_ \in Held
    BY <1>5, <2>5, <2>6
  <2>8. IrpLedger(ctx, frees', Held \ {sendIrp_})
    BY <1>1, <1>5, <2>7, LedgerFreesHeld DEF IrpOwners, TypeOK
  <2>9. CallIrp(c)'
    BY <1>1, <1>2, <1>3, <1>5, <2>1 DEF CallIrp, UsesReusable, Waiting
  <2>10. \A d \in Calls : CallIrp(d)'
    BY <2>2, <2>9, OthersKeep DEF IrpOwners
  <2>11. QED
    BY <1>1, <2>7, <2>8, <2>10 DEF IrpOwners
<1>6. QED
  BY <1>4, <1>5 DEF FreeSend, FreeReusable, Goto

LEMMA ClearSendKeepsIrps ==
    ASSUME SocketInv, discipline = "exclusive", IrpOwners, NEW c \in Calls, ClearSend(c)
    PROVE  IrpOwners'
<1>1. /\ pc[c] = "clearSend" /\ CallIrp(c) /\ CallInv(c) /\ TypeOK
      /\ pc' = [pc EXCEPT ![c] = "freeReceive"] /\ sendIrp_' = None
      /\ UNCHANGED <<kind, outcome, gave, ctx, frees, receiveIrp_>>
  BY DEF ClearSend, Goto, IrpOwners, SocketInv
<1>2. kind[c] # "connect" /\ sendIrp_ # None /\ sendIrp_ # receiveIrp_
  BY <1>1 DEF CallInv, InStep, Waiting, CallIrp, IrpOwners
<1>3. "freeReceive" \in MayHaveCloseContext
  BY DEF MayHaveCloseContext, Freeing
<1>4. pc'[c] = "freeReceive" /\ \A d \in Calls \ {c} : pc'[d] = pc[d]
  BY <1>1 DEF TypeOK
<1>5. c \in Running
  BY <1>1 DEF Running
<1>6. Aside(c)
  BY <1>1, <1>4, <1>5 DEF Aside, SameCall
<1>7. \A x : (Leaving(c, x) <=> x = sendIrp_) /\ ~(Leaving(c, x))'
  BY <1>1, <1>4 DEF Leaving
<1>8. Held = {x \in {sendIrp_, receiveIrp_} \ {None} : x # sendIrp_}
  BY <1>5, <1>7, HeldOf
<1>9. Held' = {sendIrp_', receiveIrp_'} \ {None}
  BY <1>5, <1>6, <1>7, HeldOfNext
<1>10. Held' = Held
  BY <1>1, <1>2, <1>8, <1>9
<1>11. CallIrp(c)'
  BY <1>1, <1>2, <1>3, <1>4 DEF CallIrp, UsesReusable, Waiting
<1>12. \A d \in Calls : CallIrp(d)'
  BY <1>6, <1>11, OthersKeep DEF IrpOwners
<1>13. sendIrp_' # None => sendIrp_' # receiveIrp_'
  BY <1>1
<1>14. QED
  BY <1>1, <1>10, <1>12, <1>13 DEF IrpOwners

LEMMA FreeReceiveKeepsIrps ==
    ASSUME SocketInv, discipline = "exclusive", IrpOwners, NEW c \in Calls, FreeReceive(c)
    PROVE  IrpOwners'
<1>1. /\ pc[c] = "freeReceive" /\ CallIrp(c) /\ CallInv(c) /\ TypeOK
      /\ UNCHANGED <<kind, outcome, gave, ctx, sendIrp_, receiveIrp_>>
  BY DEF FreeReceive, FreeReusable, IrpOwners, SocketInv, fields
<1>2. kind[c] # "connect"
  BY <1>1 DEF CallInv, InStep, Waiting
<1>3. {"freeReceive", "freed", "clearReceive"} \subseteq MayHaveCloseContext
  BY DEF MayHaveCloseContext, Freeing
<1>4. CASE receiveIrp_ = None /\ pc' = [pc EXCEPT ![c] = "freed"] /\ frees' = frees
  <2>1. pc'[c] = "freed"
    BY <1>1, <1>4 DEF TypeOK
  <2>2. ~UsesReusable(c)'
    BY <2>1 DEF UsesReusable, Waiting
  <2>3. \A d \in Calls \ {c} : outcome'[d] = outcome[d]
    BY <1>1
  <2>4. /\ gave[c] => outcome'[c] = "timeout"
        /\ kind[c] = "destroy" => sendIrp_ = None /\ receiveIrp_ = None
    BY <1>1, <1>4 DEF CallIrp
  <2>5. QED
    BY <1>1, <1>2, <1>3, <1>4, <2>2, <2>3, <2>4, QuietMove
<1>5. CASE /\ receiveIrp_ # None /\ pc' = [pc EXCEPT ![c] = "clearReceive"]
           /\ frees' = [frees EXCEPT ![receiveIrp_] = @ + 1]
  <2>1. pc'[c] = "clearReceive" /\ \A d \in Calls \ {c} : pc'[d] = pc[d]
    BY <1>1, <1>5 DEF TypeOK
  <2>2. Aside(c)
    <3>1. \A x \in CtxIds \ {receiveIrp_} : frees'[x] = frees[x]
      BY <1>1, <1>5 DEF TypeOK
    <3>2. QED
      BY <1>1, <2>1, <3>1 DEF Aside, SameCall
  <2>3. c \in Running
    BY <1>1 DEF Running
  <2>4. \A x : ~Leaving(c, x) /\ ((Leaving(c, x))' <=> x = receiveIrp_)
    BY <1>1, <2>1 DEF Leaving
  <2>5. Held = {sendIrp_, receiveIrp_} \ {None}
    BY <2>3, <2>4, HeldOf
  <2>6. Held' = {x \in {sendIrp_, receiveIrp_} \ {None} : x # receiveIrp_}
    BY <1>1, <2>2, <2>3, <2>4, HeldOfNext
  <2>7. Held' = Held \ {receiveIrp_} /\ receiveIrp_ \in Held
    BY <1>5, <2>5, <2>6
  <2>8. IrpLedger(ctx, frees', Held \ {receiveIrp_})
    BY <1>1, <1>5, <2>7, LedgerFreesHeld DEF IrpOwners, TypeOK
  <2>9. CallIrp(c)'
    BY <1>1, <1>2, <1>3, <1>5, <2>1 DEF CallIrp, UsesReusable, Waiting
  <2>10. \A d \in Calls : CallIrp(d)'
    BY <2>2, <2>9, OthersKeep DEF IrpOwners
  <2>11. QED
    BY <1>1, <2>7, <2>8, <2>10 DEF IrpOwners
<1>6. QED
  BY <1>4, <1>5 DEF FreeReceive, FreeReusable, Goto

LEMMA ClearReceiveKeepsIrps ==
    ASSUME SocketInv, discipline = "exclusive", IrpOwners, NEW c \in Calls, ClearReceive(c)
    PROVE  IrpOwners'
<1>1. /\ pc[c] = "clearReceive" /\ CallIrp(c) /\ CallInv(c) /\ TypeOK
      /\ pc' = [pc EXCEPT ![c] = "freed"] /\ receiveIrp_' = None
      /\ UNCHANGED <<kind, outcome, gave, ctx, frees, sendIrp_>>
  BY DEF ClearReceive, Goto, IrpOwners, SocketInv
<1>2. kind[c] # "connect" /\ receiveIrp_ # None /\ receiveIrp_ # sendIrp_
  BY <1>1 DEF CallInv, InStep, Waiting, CallIrp, IrpOwners
<1>3. "freed" \in MayHaveCloseContext
  BY DEF MayHaveCloseContext, Freeing
<1>4. pc'[c] = "freed" /\ \A d \in Calls \ {c} : pc'[d] = pc[d]
  BY <1>1 DEF TypeOK
<1>5. c \in Running
  BY <1>1 DEF Running
<1>6. Aside(c)
  BY <1>1, <1>4, <1>5 DEF Aside, SameCall
<1>7. \A x : (Leaving(c, x) <=> x = receiveIrp_) /\ ~(Leaving(c, x))'
  BY <1>1, <1>4 DEF Leaving
<1>8. Held = {x \in {sendIrp_, receiveIrp_} \ {None} : x # receiveIrp_}
  BY <1>5, <1>7, HeldOf
<1>9. Held' = {sendIrp_', receiveIrp_'} \ {None}
  BY <1>5, <1>6, <1>7, HeldOfNext
<1>10. Held' = Held
  BY <1>1, <1>2, <1>8, <1>9
<1>11. CallIrp(c)'
  BY <1>1, <1>2, <1>3, <1>4 DEF CallIrp, UsesReusable, Waiting
<1>12. \A d \in Calls : CallIrp(d)'
  BY <1>6, <1>11, OthersKeep DEF IrpOwners
<1>13. sendIrp_' # None => sendIrp_' # receiveIrp_'
  BY <1>1
<1>14. QED
  BY <1>1, <1>10, <1>12, <1>13 DEF IrpOwners

LEMMA AbandonReusableIrpKeepsIrps ==
    ASSUME SocketInv, discipline = "exclusive", IrpOwners, NEW c \in Calls, AbandonReusableIrp(c)
    PROVE  IrpOwners'
<1>1. /\ pc[c] = "abandon" /\ CallIrp(c) /\ CallInv(c) /\ TypeOK
      /\ pc' = [pc EXCEPT ![c] = "closeCancelled"]
      /\ UNCHANGED <<kind, outcome, gave, ctx, frees>>
  BY DEF AbandonReusableIrp, Goto, IrpOwners, SocketInv
<1>2. kind[c] # "connect" /\ kind[c] # "destroy"
  BY <1>1 DEF CallInv, InStep, Waiting, Closing, Freeing
<1>3. pc[c] \notin MayHaveCloseContext
  BY <1>1 DEF MayHaveCloseContext, Freeing
<1>4. pc'[c] = "closeCancelled" /\ \A d \in Calls \ {c} : pc'[d] = pc[d]
  BY <1>1 DEF TypeOK
<1>5. CASE UNCHANGED <<sendIrp_, receiveIrp_>> /\ ~(gave[c] /\ kind[c] \in {"send", "receive"})
  <2>1. ~UsesReusable(c)'
    BY <1>4 DEF UsesReusable, Waiting
  <2>2. \A d \in Calls \ {c} : outcome'[d] = outcome[d]
    BY <1>1
  <2>3. gave[c] => outcome'[c] = "timeout"
    BY <1>1 DEF CallIrp
  <2>4. QED
    BY <1>1, <1>2, <1>3, <1>5, <2>1, <2>2, <2>3, QuietMove
<1>6. CASE gave[c] /\ kind[c] \in {"send", "receive"} /\ SetReusableIrp(c, None)
  <2>1. ReusableIrp(c) # None
    BY <1>1, <1>6 DEF CallIrp, UsesReusable
  <2>2. c \in Running
    BY <1>1 DEF Running
  <2>3. Aside(c)
    BY <1>1, <1>4, <1>6, <2>2 DEF Aside, SameCall, SetReusableIrp
  <2>4. \A x : (Leaving(c, x) <=> x = ReusableIrp(c)) /\ ~(Leaving(c, x))'
    BY <1>1, <1>4, <1>6 DEF Leaving
  <2>5. Held = {x \in {sendIrp_, receiveIrp_} \ {None} : x # ReusableIrp(c)}
    BY <2>2, <2>4, HeldOf
  <2>6. Held' = {sendIrp_', receiveIrp_'} \ {None}
    BY <2>2, <2>3, <2>4, HeldOfNext
  <2>7. Held' = Held
    BY <1>6, <2>1, <2>5, <2>6 DEF ReusableIrp, SetReusableIrp, IrpOwners
  <2>8. CallIrp(c)'
    <3>1. NewIrp(Cl(c)) /\ NewIrp(Cl(c))'
      <4>1. NewIrp(Cl(c))
        BY <1>1, <1>3 DEF CallIrp
      <4>2. Cl(c) # None
        BY ContextNames
      <4>3. QED
        BY <1>1, <1>6, <4>1, <4>2 DEF NewIrp, SetReusableIrp
    <3>2. QED
      BY <1>1, <1>2, <1>3, <1>4, <3>1 DEF CallIrp, UsesReusable, Waiting
  <2>9. \A d \in Calls : CallIrp(d)'
    BY <2>3, <2>8, OthersKeep DEF IrpOwners
  <2>10. sendIrp_' # None => sendIrp_' # receiveIrp_'
    BY <1>6 DEF SetReusableIrp
  <2>11. QED
    BY <1>1, <2>7, <2>9, <2>10 DEF IrpOwners
<1>7. QED
  BY <1>5, <1>6 DEF AbandonReusableIrp

\* The contexts keep their IRPs, and who owns them.
SameIrps(c) ==
    /\ \A y \in CtxIds \ {Io(c), Cl(c)} : ctx'[y] = ctx[y]
    /\ \A y \in {Io(c), Cl(c)} :
          /\ ctx'[y].irp = ctx[y].irp
          /\ ctx'[y].owned <=> ctx[y].owned
          /\ ctx'[y].borrowed <=> ctx[y].borrowed
          /\ ctx'[y].refs > 0 <=> ctx[y].refs > 0
    /\ ctx'[Cl(c)].refs = ctx[Cl(c)].refs

LEMMA TableMove ==
    ASSUME SocketInv, discipline = "exclusive", IrpOwners, NEW c \in Calls, SameIrps(c),
           UNCHANGED <<kind, gave, frees, sendIrp_, receiveIrp_>>,
           \A d \in Calls \ {c} : pc'[d] = pc[d] /\ outcome'[d] = outcome[d],
           gave[c] => outcome'[c] = "timeout",
           \/ pc'[c] = pc[c]
           \/ /\ (UsesReusable(c))' => UsesReusable(c)
              /\ pc'[c] \in Waiting \cup {"connected", "releaseRundown", "closeWait"}
              /\ pc[c] \in {"submit", "closeSocket"}
              /\ pc'[c] \notin MayHaveCloseContext => pc[c] \notin MayHaveCloseContext
              /\ pc[c] = "submit" => ~gave[c]
    PROVE  IrpOwners'
<1>1. Aside(c)
  <2>1. \A d \in Calls \ {c} : ctx'[Io(d)] = ctx[Io(d)] /\ ctx'[Cl(d)] = ctx[Cl(d)]
    BY ContextNames DEF SameIrps
  <2>2. QED
    BY <2>1 DEF Aside, SameCall, SameIrps
<1>2. \A x : (Leaving(c, x))' <=> Leaving(c, x)
  <2>1. ReusableIrp(c)' = ReusableIrp(c)
    BY DEF ReusableIrp
  <2>2. CASE pc'[c] = pc[c]
    BY <2>1, <2>2 DEF Leaving
  <2>3. CASE pc[c] = "submit" /\ ~gave[c] /\ pc'[c] \notin {"clearSend", "clearReceive"}
    BY <2>3 DEF Leaving
  <2>4. CASE /\ pc[c] = "closeSocket"
             /\ pc'[c] \in Waiting \cup {"connected", "releaseRundown", "closeWait"}
             /\ ((UsesReusable(c))' => UsesReusable(c))
    BY <2>4 DEF Leaving, UsesReusable, Waiting
  <2>5. QED
    BY <2>2, <2>3, <2>4 DEF Waiting
<1>3. \A y \in CtxIds : ctx'[y].irp = ctx[y].irp /\ (Owns(ctx', y) <=> Owns(ctx, y))
  BY DEF SameIrps, Owns
<1>4. \A x : NewIrp(x) => NewIrp(x)'
  BY <1>3, NewSame
<1>5. CallIrp(c)'
  <2>1. CallIrp(c) /\ ReusableIrp(c)' = ReusableIrp(c)
    BY DEF IrpOwners, ReusableIrp
  <2>2. /\ ctx'[Io(c)].irp = ctx[Io(c)].irp
        /\ ctx'[Io(c)].owned <=> ctx[Io(c)].owned
        /\ ctx'[Io(c)].borrowed <=> ctx[Io(c)].borrowed
        /\ ctx'[Cl(c)].borrowed <=> ctx[Cl(c)].borrowed
        /\ ctx'[Cl(c)].refs = ctx[Cl(c)].refs
    BY DEF SameIrps
  <2>3. CASE pc'[c] = pc[c]
    BY <1>4, <2>1, <2>2, <2>3 DEF CallIrp, UsesReusable
  <2>4. CASE /\ (UsesReusable(c))' => UsesReusable(c)
             /\ pc'[c] \in Waiting \cup {"connected", "releaseRundown", "closeWait"}
             /\ pc'[c] \notin MayHaveCloseContext => pc[c] \notin MayHaveCloseContext
    BY <1>4, <2>1, <2>2, <2>4 DEF CallIrp, Waiting
  <2>5. QED
    BY <2>3, <2>4
<1>6. QED
  BY <1>1, <1>2, <1>3, <1>5, PlainMove

LEMMA SubmitKeepsIrps ==
    ASSUME SocketInv, discipline = "exclusive", IrpOwners, NEW c \in Calls, Submit(c)
    PROVE  IrpOwners'
<1>0. Io(c) \in CtxIds /\ Cl(c) \in CtxIds /\ Io(c) # Cl(c) /\ TypeOK
  BY ContextNames DEF SocketInv
<1>1. /\ pc[c] = "submit" /\ CallInv(c)
      /\ UNCHANGED <<kind, gave, frees, sendIrp_, receiveIrp_>>
  BY DEF Submit, SocketInv, fields
<1>2. ~gave[c] /\ ctx[Io(c)].refs > 0
  <2>1. ~gave[c]
    BY <1>1 DEF CallInv, IoShape
  <2>2. kind[c] \in Operations
    BY <1>1 DEF CallInv, InStep, Operations, Closing, Freeing
  <2>3. CallerHolds(Io(c))
    BY <1>1, <2>2, ContextNames DEF CallerHolds, NoIoContext
  <2>4. QED
    BY <1>1, <2>1, <2>3 DEF CallInv, RefsExact
<1>3. PICK r : /\ r.irp = ctx[Io(c)].irp /\ r.refs > 0
               /\ r.owned <=> ctx[Io(c)].owned
               /\ r.borrowed <=> ctx[Io(c)].borrowed
               /\ ctx' = [ctx EXCEPT ![Io(c)] = r]
  <2>0. ctx[Io(c)] \in ContextType
    BY <1>0 DEF TypeOK
  <2>1. CASE ctx' = [ctx EXCEPT ![Io(c)].io = "pending"]
    <3> DEFINE r == [ctx[Io(c)] EXCEPT !.io = "pending"]
    <3>1. /\ r.irp = ctx[Io(c)].irp /\ r.refs > 0
          /\ r.owned <=> ctx[Io(c)].owned
          /\ r.borrowed <=> ctx[Io(c)].borrowed
      BY <1>2, <2>0 DEF ContextType
    <3>2. ctx' = [ctx EXCEPT ![Io(c)] = r]
      BY <2>1
    <3> HIDE DEF r
    <3>3. QED
      BY <3>1, <3>2
  <2>2. ASSUME NEW ok \in BOOLEAN,
               ctx' = [ctx EXCEPT ![Io(c)].io = "returned", ![Io(c)].refs = 1,
                                  ![Io(c)].completed = TRUE,
                                  ![Io(c)].information = ok /\ kind[c] = "connect"]
        PROVE  \E r : /\ r.irp = ctx[Io(c)].irp /\ r.refs > 0
                      /\ r.owned <=> ctx[Io(c)].owned
                      /\ r.borrowed <=> ctx[Io(c)].borrowed
                      /\ ctx' = [ctx EXCEPT ![Io(c)] = r]
    <3> DEFINE r == [ctx[Io(c)] EXCEPT !.io = "returned", !.refs = 1, !.completed = TRUE,
                                       !.information = ok /\ kind[c] = "connect"]
    <3>1. /\ r.irp = ctx[Io(c)].irp /\ r.refs > 0
          /\ r.owned <=> ctx[Io(c)].owned
          /\ r.borrowed <=> ctx[Io(c)].borrowed
      BY <2>0 DEF ContextType
    <3>2. ctx' = [ctx EXCEPT ![Io(c)] = r]
      BY <1>0, <2>2 DEF TypeOK
    <3> HIDE DEF r
    <3>3. QED
      BY <3>1, <3>2
  <2>3. CASE ctx' = [ctx EXCEPT ![Io(c)].io = "returned", ![Io(c)].refs = 1]
    <3> DEFINE r == [ctx[Io(c)] EXCEPT !.io = "returned", !.refs = 1]
    <3>1. /\ r.irp = ctx[Io(c)].irp /\ r.refs > 0
          /\ r.owned <=> ctx[Io(c)].owned
          /\ r.borrowed <=> ctx[Io(c)].borrowed
      BY <2>0 DEF ContextType
    <3>2. ctx' = [ctx EXCEPT ![Io(c)] = r]
      BY <1>0, <2>3 DEF TypeOK
    <3> HIDE DEF r
    <3>3. QED
      BY <3>1, <3>2
  <2>4. QED
    BY <2>1, <2>2, <2>3 DEF Submit
<1>4. SameIrps(c)
  BY <1>0, <1>2, <1>3 DEF SameIrps, TypeOK
<1>5. /\ pc'[c] \in {"wait", "connected", "releaseRundown"}
      /\ \A d \in Calls \ {c} : pc'[d] = pc[d] /\ outcome'[d] = outcome[d]
  BY <1>0 DEF Submit, Goto, Ended, TypeOK
<1>6. (UsesReusable(c))' => UsesReusable(c)
  BY <1>1 DEF UsesReusable
<1>7. pc[c] \notin MayHaveCloseContext
  BY <1>1 DEF MayHaveCloseContext, Freeing
<1>8. pc'[c] \in Waiting \cup {"connected", "releaseRundown", "closeWait"}
  BY <1>5 DEF Waiting
<1>9. QED
  BY <1>1, <1>2, <1>4, <1>5, <1>6, <1>7, <1>8, TableMove

LEMMA CloseSocketKeepsIrps ==
    ASSUME SocketInv, discipline = "exclusive", IrpOwners, NEW c \in Calls, CloseSocket(c)
    PROVE  IrpOwners'
<1>0. Io(c) \in CtxIds /\ Cl(c) \in CtxIds /\ Io(c) # Cl(c) /\ TypeOK
  BY ContextNames DEF SocketInv
<1>1. /\ pc[c] = "closeSocket" /\ CallIrp(c)
      /\ UNCHANGED <<kind, gave, outcome, frees, sendIrp_, receiveIrp_>>
  BY DEF CloseSocket, IrpOwners
<1>2. SameIrps(c)
  <2> DEFINE r == [ctx[Cl(c)] EXCEPT !.io = "pending"]
  <2>1. /\ r.irp = ctx[Cl(c)].irp /\ r.refs = ctx[Cl(c)].refs
        /\ r.owned <=> ctx[Cl(c)].owned
        /\ r.borrowed <=> ctx[Cl(c)].borrowed
    BY <1>0 DEF ContextType, TypeOK
  <2>2. ctx' = [ctx EXCEPT ![Cl(c)] = r]
    BY DEF CloseSocket
  <2> HIDE DEF r
  <2>3. QED
    BY <1>0, <2>1, <2>2 DEF SameIrps, TypeOK
<1>3. pc'[c] = "closeWait" /\ \A d \in Calls \ {c} : pc'[d] = pc[d] /\ outcome'[d] = outcome[d]
  BY <1>0, <1>1 DEF CloseSocket, Goto, TypeOK
<1>4. (UsesReusable(c))' => UsesReusable(c)
  BY <1>3 DEF UsesReusable, Waiting
<1>5. "closeWait" \in MayHaveCloseContext
  BY DEF MayHaveCloseContext
<1>6. gave[c] => outcome'[c] = "timeout"
  BY <1>1 DEF CallIrp
<1>7. QED
  BY <1>1, <1>2, <1>3, <1>4, <1>5, <1>6, TableMove

LEMMA CompleteKeepsIrps ==
    ASSUME SocketInv, discipline = "exclusive", IrpOwners, NEW x \in CtxIds, Complete(x)
    PROVE  IrpOwners'
<1> DEFINE c == x[1]
<1>0. c \in Calls /\ Io(c) \in CtxIds /\ Cl(c) \in CtxIds /\ Io(c) # Cl(c) /\ x \in {Io(c), Cl(c)}
  BY ContextNames
<1>1. TypeOK /\ CallIrp(c) /\ UNCHANGED <<pc, kind, gave, outcome, frees, sendIrp_, receiveIrp_>>
  BY <1>0 DEF Complete, IrpOwners, SocketInv, fields, local
<1>2. PICK brings \in BOOLEAN :
         ctx' = [ctx EXCEPT ![x].io = "signalled", ![x].completed = TRUE,
                            ![x].information = brings]
  BY DEF Complete
<1>3. SameIrps(c)
  <2> DEFINE r == [ctx[x] EXCEPT !.io = "signalled", !.completed = TRUE, !.information = brings]
  <2>1. /\ r.irp = ctx[x].irp /\ r.refs = ctx[x].refs
        /\ r.owned <=> ctx[x].owned
        /\ r.borrowed <=> ctx[x].borrowed
    BY <1>1 DEF ContextType, TypeOK
  <2>2. ctx' = [ctx EXCEPT ![x] = r]
    BY <1>1, <1>2 DEF TypeOK
  <2> HIDE DEF r
  <2>3. ctx'[x] = r /\ \A y \in CtxIds \ {x} : ctx'[y] = ctx[y]
    BY <1>1, <2>2 DEF TypeOK
  <2>4. QED
    BY <1>0, <2>1, <2>3 DEF SameIrps
<1>4. gave[c] => outcome'[c] = "timeout"
  BY <1>1 DEF CallIrp
<1>5. QED
  BY <1>0, <1>1, <1>3, <1>4, TableMove

LEMMA HandOverKeepsIrps ==
    ASSUME SocketInv, discipline = "exclusive", IrpOwners, NEW c \in Calls, HandOver(c)
    PROVE  IrpOwners'
<1>0. /\ Io(c) \in CtxIds /\ Cl(c) \in CtxIds /\ Io(c) # Cl(c)
      /\ None \notin CtxIds /\ TypeOK
  BY ContextNames DEF SocketInv
<1>1. /\ pc[c] = "handOver" /\ CallIrp(c) /\ CallInv(c)
      /\ UNCHANGED <<kind, frees, sendIrp_, receiveIrp_>>
  BY DEF HandOver, IrpOwners, SocketInv, fields
<1>2. /\ gave'[c] /\ outcome'[c] = "timeout" /\ pc'[c] = Ended(c)
      /\ \A d \in Calls \ {c} : pc'[d] = pc[d] /\ outcome'[d] = outcome[d] /\ gave'[d] = gave[d]
  BY <1>0 DEF HandOver, Goto, TypeOK
<1>3. kind[c] \in Operations /\ ~gave[c]
  BY <1>1 DEF CallInv, InStep, IoShape, Waiting, Operations, Closing, Freeing
<1>4. ~ctx[Io(c)].owned /\ ctx[Io(c)].refs > 0
  <2>1. CallerHolds(Io(c))
    BY <1>1, <1>3, ContextNames DEF CallerHolds, NoIoContext
  <2>2. ~ctx[Io(c)].owned
    BY <1>1, <1>3 DEF CallInv, IoShape, NoIoContext
  <2>3. QED
    BY <1>1, <2>1, <2>2 DEF CallInv, RefsExact
<1>5. /\ \A y \in CtxIds \ {Io(c)} : ctx'[y] = ctx[y]
      /\ ctx'[Io(c)].irp = ctx[Io(c)].irp /\ ctx'[Io(c)].refs = ctx[Io(c)].refs
      /\ ctx'[Io(c)].owned
      /\ ctx'[Io(c)].borrowed <=> ctx[Io(c)].borrowed
  <2> DEFINE r == [ctx[Io(c)] EXCEPT !.owned = TRUE]
  <2>1. /\ r.irp = ctx[Io(c)].irp /\ r.refs = ctx[Io(c)].refs /\ r.owned
        /\ r.borrowed <=> ctx[Io(c)].borrowed
    BY <1>0 DEF ContextType, TypeOK
  <2>2. ctx' = [ctx EXCEPT ![Io(c)] = r]
    BY DEF HandOver
  <2> HIDE DEF r
  <2>3. QED
    BY <1>0, <2>1, <2>2 DEF TypeOK
<1>6. Aside(c)
  <2>1. \A d \in Calls \ {c} : ctx'[Io(d)] = ctx[Io(d)] /\ ctx'[Cl(d)] = ctx[Cl(d)]
    BY <1>5, ContextNames
  <2>2. \A y \in {Io(c), Cl(c)} : ctx'[y].irp = ctx[y].irp
    BY <1>0, <1>5
  <2>3. QED
    BY <1>1, <1>2, <2>1, <2>2 DEF Aside, SameCall
<1>7. NewIrp(Cl(c)) /\ NewIrp(Cl(c))' /\ ctx'[Cl(c)] = ctx[Cl(c)] /\ ctx[Cl(c)].refs = 0
  <2>1. NewIrp(Cl(c)) /\ ctx[Cl(c)].refs = 0
    BY <1>1 DEF CallIrp, MayHaveCloseContext, Freeing
  <2>2. \A y \in CtxIds : ctx'[y].irp = ctx[y].irp
    BY <1>5
  <2>3. QED
    BY <1>0, <1>1, <1>5, <2>1, <2>2, NewSame
<1>8. CallIrp(c)'
  <2>1. ReusableIrp(c)' = ReusableIrp(c)
    BY <1>1 DEF ReusableIrp
  <2>2. UsesReusable(c)' => UsesReusable(c)
    BY <1>1 DEF UsesReusable, Waiting
  <2>3. pc'[c] \in {"connected", "releaseRundown"}
    BY <1>2 DEF Ended
  <2>4. QED
    BY <1>1, <1>2, <1>5, <1>7, <2>1, <2>2, <2>3 DEF CallIrp
<1>9. CASE kind[c] \notin {"send", "receive"}
  <2>1. \A x : (Leaving(c, x))' <=> Leaving(c, x)
    BY <1>1, <1>2, <1>9 DEF Leaving, Ended
  <2>2. \A y \in CtxIds : ctx'[y].irp = ctx[y].irp /\ (Owns(ctx', y) <=> Owns(ctx, y))
    BY <1>1, <1>4, <1>5, <1>9 DEF Owns, CallIrp
  <2>3. QED
    BY <1>1, <1>6, <1>8, <2>1, <2>2, PlainMove
<1>10. CASE kind[c] \in {"send", "receive"}
  <2>1. c \in Running
    BY <1>1 DEF Running
  <2>2. \A x : ~Leaving(c, x) /\ ((Leaving(c, x))' <=> x = ReusableIrp(c))
    BY <1>1, <1>2, <1>3, <1>10 DEF Leaving, Ended, ReusableIrp
  <2>3. /\ Held = {sendIrp_, receiveIrp_} \ {None}
        /\ Held' = {x \in {sendIrp_, receiveIrp_} \ {None} : x # ReusableIrp(c)}
    <3>1. Held = {sendIrp_, receiveIrp_} \ {None}
      BY <2>1, <2>2, HeldOf
    <3>2. Held' = {x \in {sendIrp_, receiveIrp_} \ {None} : x # ReusableIrp(c)}
      BY <1>1, <1>6, <2>1, <2>2, HeldOfNext
    <3>3. QED
      BY <3>1, <3>2
  <2>4. /\ ctx[Io(c)].borrowed /\ ReusableIrp(c) # None
        /\ ctx[Io(c)].irp = ReusableIrp(c)
    BY <1>1, <1>10 DEF CallIrp, UsesReusable, Waiting
  <2>5. ctx[Io(c)].irp \in Held /\ Held' = Held \ {ctx[Io(c)].irp}
    <3>1. ReusableIrp(c) \in {sendIrp_, receiveIrp_}
      BY DEF ReusableIrp
    <3>2. QED
      BY <2>3, <2>4, <3>1
  <2>6. IrpLedger(ctx', frees, Held \ {ctx[Io(c)].irp})
    <3>1. ~Owns(ctx, Io(c)) /\ Owns(ctx', Io(c))
      BY <1>4, <1>5, <2>4 DEF Owns
    <3>2. Others(ctx, ctx', Io(c))
      BY <1>5 DEF Others, Owns
    <3>3. QED
      BY <1>0, <1>5, <2>5, <3>1, <3>2, LedgerHandsOver DEF IrpOwners
  <2>7. \A d \in Calls : CallIrp(d)'
    BY <1>6, <1>8, OthersKeep DEF IrpOwners
  <2>8. QED
    BY <1>1, <2>5, <2>6, <2>7 DEF IrpOwners
<1>11. QED
  BY <1>9, <1>10

\* The table the release starts from differs only in what the ledger does not see.
SameEntries(cs) ==
    \A y \in CtxIds : /\ cs[y].irp = ctx[y].irp /\ cs[y].refs = ctx[y].refs
                      /\ cs[y].borrowed <=> ctx[y].borrowed
                      /\ cs[y].owned <=> ctx[y].owned

\* Dropping a reference frees the IRP that its last holder owns, and no other.
LEMMA ReleaseLedger ==
    ASSUME TypeOK, NEW c \in Calls, NEW x \in {Io(c), Cl(c)}, NEW cs \in Tables,
           SameEntries(cs), ctx[x].refs \in {1, 2}, ~ctx[Cl(c)].owned,
           WskSyncReleaseContext(cs, x), NEW S, IrpLedger(ctx, frees, S),
           ctx[x].refs = 1 /\ ctx[x].owned /\ x = Io(c) =>
              (cs[x].information => /\ NewIrp(Cl(c)) /\ ctx[Cl(c)].refs = 0 /\ Cl(c) \notin S)
    PROVE  /\ IrpLedger(ctx', frees', S)
           /\ \A z \in CtxIds : frees'[z] = frees[z] \/ z = ctx[x].irp
           /\ ctx[x].refs = 2 => frees' = frees /\ \A y \in CtxIds : ctx'[y].irp = ctx[y].irp
           /\ ctx'[x].irp = ctx[x].irp
           /\ \A y \in {Io(c), Cl(c)} : ctx'[y].irp \in {ctx[y].irp, Cl(c)}
<1>0. /\ Io(c) \in CtxIds /\ Cl(c) \in CtxIds /\ Io(c) # Cl(c) /\ x \in CtxIds
      /\ x[1] = c /\ frees \in [CtxIds -> Nat]
  BY ContextNames DEF TypeOK
<1>1. /\ cs[x].refs \in {1, 2} /\ ~cs[Cl(c)].owned
      /\ cs[x].irp = ctx[x].irp
  BY <1>0 DEF SameEntries
<1>2. PICK mid : mid = OneLess(cs, x)
  OBVIOUS
<1>3. /\ mid \in Tables
      /\ \A y \in CtxIds \ {x} : mid[y] = cs[y]
      /\ mid[x].refs = cs[x].refs - 1 /\ mid[x].irp = cs[x].irp
      /\ cs[x].refs = 2 => /\ mid[x].owned = cs[x].owned /\ mid[x].borrowed = cs[x].borrowed
  BY <1>0, <1>1, <1>2, OneLessEffect
<1>4. IrpLedger(cs, frees, S)
  BY LedgerSame DEF SameEntries, Owns
<1>5. IrpLedger(mid, IrpsFreed(cs, x), S)
  <2>1. CASE FreesIrp(cs, x)
    <3>1. IrpsFreed(cs, x) = [frees EXCEPT ![cs[x].irp] = @ + 1]
      BY <2>1 DEF IrpsFreed
    <3>2. Owns(cs, x) /\ ~Owns(mid, x)
      BY <1>1, <1>3, <2>1 DEF FreesIrp, Owns
    <3>3. Others(cs, mid, x)
      BY <1>3 DEF Others, Owns
    <3>4. PICK fr : fr = [frees EXCEPT ![cs[x].irp] = @ + 1]
      OBVIOUS
    <3>5. IrpLedger(mid, fr, S)
      BY <1>0, <1>3, <1>4, <3>2, <3>3, <3>4, LedgerFrees
    <3>6. QED
      BY <3>1, <3>4, <3>5
  <2>2. CASE ~FreesIrp(cs, x)
    <3>1. IrpsFreed(cs, x) = frees
      BY <2>2 DEF IrpsFreed
    <3>2. \A y \in CtxIds : mid[y].irp = cs[y].irp /\ (Owns(mid, y) <=> Owns(cs, y))
      BY <1>1, <1>3, <2>2 DEF FreesIrp, Owns
    <3>3. QED
      BY <1>4, <3>1, <3>2, LedgerSame
  <2>3. QED
    BY <2>1, <2>2
<1>6. \A z \in CtxIds : IrpsFreed(cs, x)[z] = frees[z] \/ z = ctx[x].irp
  BY <1>0, <1>1 DEF IrpsFreed
<1>7. cs[x].refs = 2 => IrpsFreed(cs, x) = frees /\ ~ClosesLate(cs, x)
  BY DEF IrpsFreed, FreesIrp, ClosesLate
<1>8. CASE ctx' = mid /\ frees' = IrpsFreed(cs, x)
  BY <1>0, <1>1, <1>3, <1>5, <1>6, <1>7, <1>8 DEF SameEntries
<1>9. CASE /\ ClosesLate(cs, x) /\ frees' = IrpsFreed(cs, x)
           /\ ctx' = [mid EXCEPT ![Cl(c)] = Context(1, "pending", FALSE, Cl(c))]
  <2>1. cs[x].refs = 1 /\ cs[x].owned /\ cs[x].information /\ x = Io(c)
    BY <1>0, <1>1, <1>9 DEF ClosesLate
  <2>2. NewIrp(Cl(c)) /\ ctx[Cl(c)].refs = 0 /\ Cl(c) \notin S
    BY <1>0, <2>1 DEF SameEntries
  <2> DEFINE r == Context(1, "pending", FALSE, Cl(c))
  <2>3. r.refs = 1 /\ ~r.borrowed /\ r.irp = Cl(c)
    BY DEF Context
  <2>4. ctx' = [mid EXCEPT ![Cl(c)] = r]
    BY <1>9
  <2> HIDE DEF r
  <2>5. ctx'[Cl(c)] = r /\ \A y \in CtxIds \ {Cl(c)} : ctx'[y] = mid[y]
    BY <1>0, <1>3, <2>4 DEF Tables
  <2>6. \A y \in CtxIds : mid[y].irp = ctx[y].irp
    BY <1>1, <1>3 DEF SameEntries
  <2>7. IrpLedger(ctx', frees', S)
    <3>1. frees'[Cl(c)] = 0
      BY <1>0, <1>6, <1>9, <2>2 DEF NewIrp
    <3>2. \A y \in CtxIds : mid[y].irp # Cl(c)
      BY <2>2, <2>6 DEF NewIrp
    <3>3. ~Owns(mid, Cl(c)) /\ Owns(ctx', Cl(c))
      BY <1>0, <1>3, <2>1, <2>2, <2>3, <2>5 DEF Owns, SameEntries
    <3>4. Others(mid, ctx', Cl(c))
      BY <2>5 DEF Others, Owns
    <3>5. QED
      BY <1>0, <1>5, <1>9, <2>2, <2>3, <2>5, <3>1, <3>2, <3>3, <3>4, LedgerAllocates
  <2>8. ctx[x].refs = 1
    BY <1>0, <2>1 DEF SameEntries
  <2>9. ctx'[x].irp = ctx[x].irp
    BY <1>0, <2>1, <2>5, <2>6
  <2>10. \A y \in {Io(c), Cl(c)} : ctx'[y].irp \in {ctx[y].irp, Cl(c)}
    BY <1>0, <2>3, <2>5, <2>6
  <2>11. \A z \in CtxIds : frees'[z] = frees[z] \/ z = ctx[x].irp
    BY <1>6, <1>9
  <2>12. ctx[x].refs # 2
    BY <2>8
  <2>13. QED
    BY <2>7, <2>9, <2>10, <2>11, <2>12
<1>10. QED
  BY <1>0, <1>2, <1>8, <1>9 DEF WskSyncReleaseContext

\* A step of c, or of one of its completions, that drops a reference.
LEMMA ReleaseMove ==
    ASSUME SocketInv, discipline = "exclusive", IrpOwners, NEW c \in Calls,
           NEW x \in {Io(c), Cl(c)}, NEW cs \in Tables, SameEntries(cs),
           \A y \in CtxIds \ {x} : cs[y] = ctx[y], cs[x].information <=> ctx[x].information,
           ctx[x].refs \in {1, 2}, WskSyncReleaseContext(cs, x),
           UNCHANGED <<kind, sendIrp_, receiveIrp_>>,
           \A d \in Calls \ {c} :
              pc'[d] = pc[d] /\ outcome'[d] = outcome[d] /\ gave'[d] = gave[d],
           \A z : (Leaving(c, z))' <=> Leaving(c, z),
           gave'[c] => outcome'[c] = "timeout",
           \/ pc'[c] = pc[c]
           \/ /\ pc[c] \in {"release", "releaseClose"} /\ pc'[c] \in {"release", "done"}
              /\ kind[c] = "destroy" => pc[c] = "releaseClose",
           x = Io(c) /\ (UsesReusable(c) \/ pc[c] \notin MayHaveCloseContext) => ctx[x].refs = 2,
           x = Cl(c) => pc[c] \in MayHaveCloseContext,
           pc[c] \notin {"idle", "connect", "prepare", "allocate"}
    PROVE  IrpOwners'
<1>0. /\ Io(c) \in CtxIds /\ Cl(c) \in CtxIds /\ Io(c) # Cl(c) /\ x \in CtxIds
      /\ TypeOK /\ CallInv(c) /\ CallIrp(c)
  BY ContextNames DEF SocketInv, IrpOwners
<1>1. ~ctx[Cl(c)].owned /\ ~cs[Cl(c)].owned
  BY <1>0 DEF CallInv, ClShape, SameEntries
<1>2. /\ ctx' \in Tables
      /\ \A y \in CtxIds \ {Io(c), Cl(c)} : ctx'[y] = cs[y]
      /\ ctx'[x].refs = cs[x].refs - 1
      /\ cs[x].refs = 1 => ~ctx'[x].owned /\ ~ctx'[x].borrowed
      /\ cs[x].refs = 2 => ctx'[x].owned = cs[x].owned /\ ctx'[x].borrowed = cs[x].borrowed
      /\ \/ x = Io(c) /\ cs[x].refs = 1 /\ ~ctx'[Cl(c)].borrowed
         \/ \A y \in CtxIds \ {x} : ctx'[y] = cs[y]
  <2>1. cs[x].refs \in {1, 2}
    BY <1>0 DEF SameEntries
  <2>2. QED
    BY <1>0, <1>1, <2>1, ReleaseEffect DEF ClosesLate
<1>3. ctx[x].refs = 1 /\ ctx[x].owned /\ x = Io(c) =>
        (cs[x].information => NewIrp(Cl(c)) /\ ctx[Cl(c)].refs = 0 /\ Cl(c) \notin Held)
  <2>1. ctx[Io(c)].information => kind[c] = "connect"
    BY <1>0 DEF CallInv, IoShape
  <2>2. NewIrp(Cl(c)) => Cl(c) \notin Held
    BY DEF Held, NewIrp
  <2>3. QED
    BY <1>0, <2>1, <2>2 DEF CallIrp
<1>4. /\ IrpLedger(ctx', frees', Held)
      /\ \A z \in CtxIds : frees'[z] = frees[z] \/ z = ctx[x].irp
      /\ ctx[x].refs = 2 => frees' = frees /\ \A y \in CtxIds : ctx'[y].irp = ctx[y].irp
      /\ ctx'[x].irp = ctx[x].irp
      /\ \A y \in {Io(c), Cl(c)} : ctx'[y].irp \in {ctx[y].irp, Cl(c)}
  <2>1. IrpLedger(ctx, frees, Held)
    BY DEF IrpOwners
  <2>2. QED
    BY <1>0, <1>1, <1>3, <2>1, ReleaseLedger
<1>5. Aside(c)
  <2>1. \A d \in Calls \ {c} : ctx'[Io(d)] = ctx[Io(d)] /\ ctx'[Cl(d)] = ctx[Cl(d)]
    BY <1>2, ContextNames
  <2>2. \A y \in {Io(c), Cl(c)} : ctx'[y].irp \in {ctx[y].irp, Cl(c)}
    BY <1>4
  <2>3. \A z \in CtxIds : frees'[z] = frees[z] \/ z \in {ctx[Io(c)].irp, ctx[Cl(c)].irp}
    BY <1>4
  <2>4. QED
    BY <2>1, <2>2, <2>3 DEF Aside, SameCall
<1>6. Held' = Held
  BY <1>5, HeldSame
<1>7. ctx[x].refs = 2 /\ NewIrp(Cl(c)) => NewIrp(Cl(c))'
  BY <1>4, NewSame
<1>8. CallIrp(c)'
  <2>1. ReusableIrp(c)' = ReusableIrp(c) /\ kind'[c] = kind[c]
    BY DEF ReusableIrp
  <2>2. UsesReusable(c)' => UsesReusable(c) /\ pc'[c] = pc[c]
    BY DEF UsesReusable, Waiting
  <2>3. cs[x].refs = ctx[x].refs /\ (cs[x].owned <=> ctx[x].owned)
        /\ (cs[x].borrowed <=> ctx[x].borrowed)
    BY <1>0 DEF SameEntries
  <2>4. CASE x = Io(c)
    <3>1. \/ ctx'[Cl(c)] = ctx[Cl(c)]
          \/ ctx[x].refs = 1 /\ ~ctx'[Cl(c)].borrowed
      BY <1>0, <1>2, <2>3, <2>4
    <3>2. ctx'[x].owned => ctx[x].refs = 2 /\ ctx[x].owned
      BY <1>2, <2>3
    <3>3. ctx'[x].borrowed => ctx[x].refs = 2 /\ ctx[x].borrowed
      BY <1>2, <2>3
    <3>4. ctx[x].refs = 2 => (ctx'[x].borrowed <=> ctx[x].borrowed)
      BY <1>2, <2>3
    <3>5. pc'[c] \notin MayHaveCloseContext => ctx[x].refs = 2 /\ pc[c] \notin MayHaveCloseContext
      BY <2>4 DEF MayHaveCloseContext
    <3>6. UsesReusable(c)' => /\ ctx'[Io(c)].borrowed /\ ReusableIrp(c)' # None
                              /\ ctx'[Io(c)].irp = ReusableIrp(c)'
      BY <1>0, <1>4, <2>1, <2>2, <2>4, <3>4 DEF CallIrp
    <3>7. pc'[c] \notin MayHaveCloseContext \/ (kind'[c] = "connect" /\ ctx'[Io(c)].owned)
            => NewIrp(Cl(c))' /\ ctx'[Cl(c)].refs = 0
      BY <1>0, <1>7, <2>1, <2>4, <3>1, <3>2, <3>5 DEF CallIrp
    <3>8. ~ctx'[Cl(c)].borrowed /\ (ctx'[Io(c)].borrowed => kind'[c] \in {"send", "receive"})
      BY <1>0, <2>1, <2>4, <3>1, <3>3 DEF CallIrp
    <3>9. QED
      BY <1>0, <2>1, <3>6, <3>7, <3>8 DEF CallIrp
  <2>5. CASE x = Cl(c)
    <3>1. ctx'[Io(c)] = ctx[Io(c)]
      BY <1>0, <1>2, <2>5
    <3>2. ~(kind[c] = "connect" /\ ctx[Io(c)].owned)
      BY <1>0, <2>5 DEF CallIrp
    <3>3. ~ctx'[Cl(c)].borrowed
      BY <1>0, <1>2, <2>3, <2>5 DEF CallIrp
    <3>4. pc'[c] \in MayHaveCloseContext
      BY <2>5 DEF MayHaveCloseContext
    <3>5. UsesReusable(c)' => /\ ctx'[Io(c)].borrowed /\ ReusableIrp(c)' # None
                              /\ ctx'[Io(c)].irp = ReusableIrp(c)'
      BY <1>0, <2>1, <2>2, <3>1 DEF CallIrp
    <3>6. QED
      BY <1>0, <2>1, <3>1, <3>2, <3>3, <3>4, <3>5 DEF CallIrp
  <2>6. QED
    BY <2>4, <2>5
<1>9. \A d \in Calls : CallIrp(d)'
  BY <1>5, <1>8, OthersKeep DEF IrpOwners
<1>10. QED
  BY <1>4, <1>6, <1>9 DEF IrpOwners

LEMMA ReleaseOperationKeepsIrps ==
    ASSUME SocketInv, discipline = "exclusive", IrpOwners, NEW c \in Calls, ReleaseOperation(c)
    PROVE  IrpOwners'
<1>0. Io(c) \in CtxIds /\ Cl(c) \in CtxIds /\ Io(c) # Cl(c) /\ TypeOK /\ ctx \in Tables
  BY ContextNames DEF SocketInv, TypeOK, Tables
<1>1. /\ pc[c] = "release" /\ CallInv(c) /\ WskSyncReleaseContext(ctx, Io(c))
      /\ UNCHANGED <<kind, sendIrp_, receiveIrp_>>
  BY DEF ReleaseOperation, SocketInv, fields
<1>2. /\ pc'[c] = "done" /\ ~gave'[c]
      /\ \A d \in Calls \ {c} : pc'[d] = pc[d] /\ outcome'[d] = outcome[d] /\ gave'[d] = gave[d]
  BY <1>0 DEF ReleaseOperation, Goto, TypeOK
<1>3. kind[c] \in Operations
  BY <1>1 DEF CallInv, InStep, Operations, Closing, Freeing
<1>4. ctx[Io(c)].refs \in {1, 2}
  <2>1. CallerHolds(Io(c))
    BY <1>1, <1>3, ContextNames DEF CallerHolds, NoIoContext
  <2>2. QED
    BY <1>1, <2>1 DEF CallInv, RefsExact
<1>5. \A z : (Leaving(c, z))' <=> Leaving(c, z)
  BY <1>1, <1>2 DEF Leaving
<1>6. SameEntries(ctx)
  BY DEF SameEntries
<1>7. "release" \in MayHaveCloseContext /\ ~UsesReusable(c)
  BY <1>1 DEF MayHaveCloseContext, UsesReusable, Waiting
<1>8. kind[c] # "destroy"
  BY <1>3 DEF Operations
<1>9. QED
  BY <1>0, <1>1, <1>2, <1>4, <1>5, <1>6, <1>7, <1>8, ReleaseMove

LEMMA ReleaseCloseKeepsIrps ==
    ASSUME SocketInv, discipline = "exclusive", IrpOwners, NEW c \in Calls, ReleaseClose(c)
    PROVE  IrpOwners'
<1>0. Io(c) \in CtxIds /\ Cl(c) \in CtxIds /\ Io(c) # Cl(c) /\ TypeOK /\ ctx \in Tables
  BY ContextNames DEF SocketInv, TypeOK, Tables
<1>1. /\ pc[c] = "releaseClose" /\ CallInv(c) /\ CallIrp(c) /\ WskSyncReleaseContext(ctx, Cl(c))
      /\ UNCHANGED <<kind, gave, outcome, sendIrp_, receiveIrp_>>
  BY DEF ReleaseClose, SocketInv, IrpOwners, fields
<1>2. /\ pc'[c] \in {"release", "done"} /\ (gave'[c] => outcome'[c] = "timeout")
      /\ \A d \in Calls \ {c} : pc'[d] = pc[d] /\ outcome'[d] = outcome[d] /\ gave'[d] = gave[d]
  BY <1>0, <1>1 DEF ReleaseClose, Goto, TypeOK, CallIrp
<1>3. ctx[Cl(c)].refs \in {1, 2}
  <2>1. CallerHolds(Cl(c))
    BY <1>1, ContextNames DEF CallerHolds
  <2>2. QED
    BY <1>1, <2>1 DEF CallInv, RefsExact
<1>4. \A z : (Leaving(c, z))' <=> Leaving(c, z)
  BY <1>1, <1>2 DEF Leaving
<1>5. SameEntries(ctx)
  BY DEF SameEntries
<1>6. "releaseClose" \in MayHaveCloseContext
  BY DEF MayHaveCloseContext
<1>7. QED
  BY <1>0, <1>1, <1>2, <1>3, <1>4, <1>5, <1>6, ReleaseMove

LEMMA CompletionReleasesKeepsIrps ==
    ASSUME SocketInv, discipline = "exclusive", IrpOwners, NEW x \in CtxIds, CompletionReleases(x)
    PROVE  IrpOwners'
<1> DEFINE c == x[1]
<1>0. c \in Calls /\ Io(c) \in CtxIds /\ Cl(c) \in CtxIds /\ Io(c) # Cl(c) /\ x \in {Io(c), Cl(c)}
  BY ContextNames
<1>1. /\ TypeOK /\ CallInv(c) /\ CallIrp(c) /\ ctx[x].io = "signalled"
      /\ UNCHANGED <<pc, kind, gave, outcome, sendIrp_, receiveIrp_>>
  BY <1>0 DEF CompletionReleases, IrpOwners, SocketInv, fields, local
<1>2. PICK cs : /\ cs \in Tables /\ WskSyncReleaseContext(cs, x) /\ SameEntries(cs)
                /\ \A y \in CtxIds \ {x} : cs[y] = ctx[y]
                /\ cs[x].information <=> ctx[x].information
  <2> DEFINE r == [ctx[x] EXCEPT !.io = "returned"]
  <2> DEFINE cs == [ctx EXCEPT ![x] = r]
  <2>1. /\ r \in ContextType
        /\ r.irp = ctx[x].irp /\ r.refs = ctx[x].refs
        /\ r.owned <=> ctx[x].owned
        /\ r.borrowed <=> ctx[x].borrowed
        /\ r.information <=> ctx[x].information
    BY <1>1 DEF ContextType, TypeOK
  <2>2. WskSyncReleaseContext(cs, x)
    BY DEF CompletionReleases
  <2> HIDE DEF r
  <2>3. cs \in Tables /\ cs[x] = r /\ \A y \in CtxIds \ {x} : cs[y] = ctx[y]
    BY <1>1, <2>1 DEF TypeOK, Tables
  <2> HIDE DEF cs
  <2>4. SameEntries(cs) /\ (cs[x].information <=> ctx[x].information)
    BY <2>1, <2>3 DEF SameEntries
  <2>5. QED
    BY <2>2, <2>3, <2>4
<1>3. /\ pc[c] \notin Unprepared
      /\ x = Cl(c) => pc[c] \in MayHaveCloseContext
      /\ x = Io(c) => kind[c] \in Operations
  BY <1>0, <1>1 DEF CallInv, IoShape, ClShape, NoContext, Context, Unprepared, MayHaveCloseContext, Freeing
<1>4. CompletionHolds(x)
  BY <1>1 DEF CompletionHolds
<1>5. ctx[x].refs \in {1, 2} /\ (CallerHolds(x) => ctx[x].refs = 2)
  BY <1>0, <1>1, <1>4 DEF CallInv, RefsExact
<1>6. x = Io(c) /\ (UsesReusable(c) \/ pc[c] \notin MayHaveCloseContext) => CallerHolds(x)
  BY <1>3, ContextNames DEF CallerHolds, UsesReusable, Waiting, NoIoContext, Unprepared,
     MayHaveCloseContext, Operations
<1>7. \A z : (Leaving(c, z))' <=> Leaving(c, z)
  BY <1>1 DEF Leaving, ReusableIrp
<1>8. gave'[c] => outcome'[c] = "timeout"
  BY <1>1 DEF CallIrp
<1>9. pc[c] \notin {"idle", "connect", "prepare", "allocate"}
  BY <1>3 DEF Unprepared
<1>10. \A d \in Calls \ {c} : pc'[d] = pc[d] /\ outcome'[d] = outcome[d] /\ gave'[d] = gave[d]
  BY <1>1
<1> HIDE DEF c
<1>11. QED
  BY <1>0, <1>1, <1>2, <1>3, <1>5, <1>6, <1>7, <1>8, <1>9, <1>10, ReleaseMove

LEMMA AcquireIoRundownKeepsIrps ==
    ASSUME SocketInv, discipline = "exclusive", IrpOwners, NEW c \in Calls, AcquireIoRundown(c)
    PROVE  IrpOwners'
<1>0. Io(c) \in CtxIds /\ Cl(c) \in CtxIds /\ Io(c) # Cl(c) /\ TypeOK /\ ctx \in Tables
  BY ContextNames DEF SocketInv, TypeOK, Tables
<1>1. /\ pc[c] = "acquire" /\ CallInv(c) /\ CallIrp(c)
      /\ UNCHANGED <<kind, gave, outcome, sendIrp_, receiveIrp_>>
  BY DEF AcquireIoRundown, SocketInv, IrpOwners
<1>2. kind[c] \in Operations /\ kind[c] # "connect" /\ ~gave[c]
  BY <1>1 DEF CallInv, InStep, IoShape, Waiting, Operations, Closing, Freeing
<1>3. \A d \in Calls \ {c} : outcome'[d] = outcome[d]
  BY <1>1
<1>4. CASE pc' = [pc EXCEPT ![c] = "submit"] /\ UNCHANGED <<ctx, frees>>
  <2>1. (UsesReusable(c))' => UsesReusable(c)
    BY <1>1 DEF UsesReusable
  <2>2. pc[c] \notin MayHaveCloseContext /\ kind[c] # "destroy"
    BY <1>1, <1>2 DEF MayHaveCloseContext, Freeing, Operations
  <2>3. QED
    BY <1>1, <1>2, <1>3, <1>4, <2>1, <2>2, QuietMove
<1>5. CASE /\ pc' = [pc EXCEPT ![c] = "done"]
           /\ ctx' = OneLess(OneLess(ctx, Io(c)), Io(c))
           /\ frees' = IrpsFreed(OneLess(ctx, Io(c)), Io(c))
  <2>1. pc'[c] = "done" /\ \A d \in Calls \ {c} : pc'[d] = pc[d]
    BY <1>0, <1>5 DEF TypeOK
  <2>2. ctx[Io(c)].refs = 2 /\ ~ctx[Io(c)].owned
    <3>1. CallerHolds(Io(c)) /\ ctx[Io(c)].io = "idle"
      BY <1>1, <1>2, ContextNames DEF CallerHolds, NoIoContext, CallInv, IoShape
    <3>2. CompletionHolds(Io(c)) /\ ~ctx[Io(c)].owned
      BY <1>1, <1>2, <3>1 DEF CompletionHolds, CallInv, IoShape, NoIoContext
    <3>3. QED
      BY <1>1, <3>1, <3>2 DEF CallInv, RefsExact
  <2>3. PICK mid : mid = OneLess(ctx, Io(c))
    OBVIOUS
  <2>4. /\ mid \in Tables
        /\ \A y \in CtxIds \ {Io(c)} : mid[y] = ctx[y]
        /\ mid[Io(c)].refs = 1 /\ mid[Io(c)].irp = ctx[Io(c)].irp
        /\ mid[Io(c)].owned = ctx[Io(c)].owned /\ mid[Io(c)].borrowed = ctx[Io(c)].borrowed
    BY <1>0, <2>2, <2>3, OneLessEffect
  <2>5. /\ \A y \in CtxIds \ {Io(c)} : ctx'[y] = ctx[y]
        /\ ctx'[Io(c)].refs = 0 /\ ctx'[Io(c)].irp = ctx[Io(c)].irp
        /\ ~ctx'[Io(c)].owned /\ ~ctx'[Io(c)].borrowed
    <3>1. ctx' = OneLess(mid, Io(c))
      BY <1>5, <2>3
    <3>2. /\ \A y \in CtxIds \ {Io(c)} : ctx'[y] = mid[y]
          /\ ctx'[Io(c)].refs = 0 /\ ctx'[Io(c)].irp = mid[Io(c)].irp
          /\ ~ctx'[Io(c)].owned /\ ~ctx'[Io(c)].borrowed
      BY <1>0, <2>4, <3>1, OneLessEffect
    <3>3. QED
      BY <2>4, <3>2
  <2>6. frees' = IF ctx[Io(c)].borrowed THEN frees
                 ELSE [frees EXCEPT ![ctx[Io(c)].irp] = @ + 1]
    BY <1>5, <2>2, <2>3, <2>4 DEF IrpsFreed, FreesIrp
  <2>7. IrpLedger(ctx', frees', Held)
    <3>0. Others(ctx, ctx', Io(c)) /\ ~Owns(ctx', Io(c))
      BY <2>5 DEF Others, Owns
    <3>1. CASE ctx[Io(c)].borrowed
      <4>1. ~Owns(ctx, Io(c))
        BY <2>2, <3>1 DEF Owns
      <4>2. \A y \in CtxIds : ctx'[y].irp = ctx[y].irp /\ (Owns(ctx', y) <=> Owns(ctx, y))
        BY <2>5, <3>0, <4>1 DEF Others
      <4>3. frees' = frees
        BY <2>6, <3>1
      <4>4. IrpLedger(ctx', frees, Held)
        BY <4>2, LedgerSame DEF IrpOwners
      <4>5. QED
        BY <4>3, <4>4
    <3>2. CASE ~ctx[Io(c)].borrowed
      <4>1. Owns(ctx, Io(c))
        BY <2>2, <3>2 DEF Owns
      <4>2. frees' = [frees EXCEPT ![ctx[Io(c)].irp] = @ + 1] /\ frees \in [CtxIds -> Nat]
        BY <1>0, <2>6, <3>2 DEF TypeOK
      <4>3. QED
        BY <1>0, <2>5, <3>0, <4>1, <4>2, LedgerFrees DEF IrpOwners
    <3>3. QED
      BY <3>1, <3>2
  <2>8. Aside(c)
    <3>1. \A d \in Calls \ {c} : ctx'[Io(d)] = ctx[Io(d)] /\ ctx'[Cl(d)] = ctx[Cl(d)]
      BY <2>5, ContextNames
    <3>2. \A y \in {Io(c), Cl(c)} : ctx'[y].irp = ctx[y].irp
      BY <1>0, <2>5
    <3>3. \A z \in CtxIds : frees'[z] = frees[z] \/ z = ctx[Io(c)].irp
      BY <1>0, <2>6 DEF TypeOK
    <3>4. QED
      BY <1>1, <2>1, <3>1, <3>2, <3>3 DEF Aside, SameCall
  <2>9. Held' = Held
    <3>1. \A z : (Leaving(c, z))' <=> Leaving(c, z)
      BY <1>1, <2>1 DEF Leaving
    <3>2. QED
      BY <1>1, <2>8, <3>1, HeldSame
  <2>10. CallIrp(c)'
    <3>1. ctx'[Cl(c)] = ctx[Cl(c)]
      BY <1>0, <2>5
    <3>2. QED
      BY <1>1, <1>2, <2>1, <2>5, <3>1 DEF CallIrp, UsesReusable, Waiting, MayHaveCloseContext,
         Operations
  <2>11. \A d \in Calls : CallIrp(d)'
    BY <2>8, <2>10, OthersKeep DEF IrpOwners
  <2>12. QED
    BY <1>1, <2>7, <2>9, <2>11 DEF IrpOwners
<1>6. QED
  BY <1>4, <1>5 DEF AcquireIoRundown, Goto

LEMMA StartKeepsIrps ==
    ASSUME SocketInv, discipline = "exclusive", IrpOwners, NEW c \in Calls, NEW k \in Kinds,
           Start(c, k)
    PROVE  IrpOwners'
<1>0. Io(c) \in CtxIds /\ Cl(c) \in CtxIds /\ TypeOK
  BY ContextNames DEF SocketInv
<1>1. /\ pc[c] = "idle" /\ CallInv(c) /\ CallIrp(c)
      /\ UNCHANGED <<gave, outcome, ctx, frees, sendIrp_, receiveIrp_>>
  BY DEF Start, SocketInv, IrpOwners, fields
<1>2. /\ pc'[c] \in {"connect", "prepare", "allocate", "closeCheck", "freeSend"}
      /\ \A d \in Calls \ {c} : pc'[d] = pc[d] /\ kind'[d] = kind[d]
  BY <1>0 DEF Start, Goto, TypeOK, Kinds
<1>3. ctx[Io(c)] = NoContext /\ ~gave[c]
  BY <1>1 DEF CallInv, IoShape, Unprepared, NoIoContext
<1>4. Aside(c)
  BY <1>1, <1>2 DEF Aside, SameCall
<1>5. \A x : (Leaving(c, x))' <=> Leaving(c, x)
  BY <1>1, <1>2 DEF Leaving
<1>6. \A x : NewIrp(x) => NewIrp(x)'
  BY <1>1, NewSame
<1>7. CallIrp(c)'
  <2>1. NewIrp(Io(c)) /\ NewIrp(Cl(c)) /\ ctx[Cl(c)].refs = 0
    BY <1>1 DEF CallIrp, MayHaveCloseContext, Freeing
  <2>2. ~ctx[Io(c)].borrowed /\ ~ctx[Io(c)].owned
    BY <1>3 DEF NoContext, Context
  <2>3. QED
    BY <1>1, <1>2, <1>3, <1>6, <2>1, <2>2 DEF CallIrp, UsesReusable, Waiting
<1>8. \A y \in CtxIds : ctx'[y].irp = ctx[y].irp /\ (Owns(ctx', y) <=> Owns(ctx, y))
  BY <1>1
<1>9. QED
  BY <1>1, <1>4, <1>5, <1>7, <1>8, PlainMove

-----------------------------------------------------------------------------
LEMMA IrpInvInit == Init => IrpInv
<1> SUFFICES ASSUME Init PROVE IrpInv
  OBVIOUS
<1>1. Held = {}
  BY DEF Init, Held
<1>2. \A y \in CtxIds : ctx[y].irp = None /\ ~Owns(ctx, y) /\ frees[y] = 0 /\ ctx[y].refs = 0
                        /\ ~ctx[y].borrowed /\ ~ctx[y].owned
  BY DEF Init, NoContext, Context, Owns
<1>3. IrpLedger(ctx, frees, Held)
  BY <1>1, <1>2 DEF IrpLedger
<1>4. \A y \in CtxIds : NewIrp(y)
  BY <1>2, ContextNames DEF NewIrp, Init
<1>5. ASSUME NEW c \in Calls PROVE CallIrp(c)
  <2>1. pc[c] = "idle" /\ kind[c] = "none" /\ ~gave[c] /\ Io(c) \in CtxIds /\ Cl(c) \in CtxIds
    BY ContextNames DEF Init
  <2>2. QED
    BY <1>2, <1>4, <2>1 DEF CallIrp, UsesReusable, Waiting
<1>6. QED
  BY <1>3, <1>5, SocketInvInit DEF IrpInv, IrpOwners, Init

LEMMA IrpOwnersStutter ==
    ASSUME IrpOwners, UNCHANGED vars
    PROVE  IrpOwners'
<1>1. UNCHANGED <<pc, kind, outcome, gave, ctx, frees, sendIrp_, receiveIrp_>>
  BY DEF vars, state, local, fields
<1>2. \A c \in Calls : ReusableIrp(c)' = ReusableIrp(c)
  BY <1>1 DEF ReusableIrp
<1>3. Held' = Held
  BY <1>1, <1>2 DEF Held, Leaving
<1>4. \A x : NewIrp(x)' <=> NewIrp(x)
  BY <1>1 DEF NewIrp
<1>5. \A c \in Calls : CallIrp(c)'
  BY <1>1, <1>2, <1>4 DEF IrpOwners, CallIrp, UsesReusable
<1>6. QED
  BY <1>1, <1>3, <1>5 DEF IrpOwners

LEMMA IrpInvNext ==
    ASSUME IrpInv, [Next]_vars
    PROVE  IrpInv'
<1>1. SocketInv /\ SocketInv'
  BY SocketInvNext DEF IrpInv
<1>2. discipline' = discipline
  BY DEF Next, vars
<1> SUFFICES ASSUME discipline = "exclusive" PROVE IrpOwners'
  BY <1>1, <1>2 DEF IrpInv
<1>3. IrpOwners
  BY DEF IrpInv
<1>4. ASSUME NEW c \in Calls, Step(c) PROVE IrpOwners'
  <2>1. CASE \/ Refused(c) \/ ConnectAllocate(c) \/ Connected(c) \/ CloseNative(c)
             \/ PrepareReusableIrp(c) \/ IoReuseIrp(c) \/ WskSyncAllocateIrp(c)
    BY <1>1, <1>3, <2>1, RefusedKeepsIrps, ConnectAllocateKeepsIrps, ConnectedKeepsIrps,
       CloseNativeKeepsIrps, PrepareReusableIrpKeepsIrps, IoReuseIrpKeepsIrps
  <2>2. CASE \/ AcquireIoRundown(c) \/ Submit(c) \/ WaitEnds(c) \/ WaitTimesOut(c)
             \/ CancelCompletes(c) \/ CancelTimesOut(c) \/ HandOver(c) \/ ReleaseIoRundown(c)
             \/ AbandonReusableIrp(c)
    BY <1>1, <1>3, <2>2, AcquireIoRundownKeepsIrps, SubmitKeepsIrps, WaitKeepsIrps,
       HandOverKeepsIrps, ReleaseIoRundownKeepsIrps, AbandonReusableIrpKeepsIrps
  <2>3. CASE \/ CloseAfterCancelledOperation(c) \/ CloseCheck(c) \/ CloseIssue(c)
             \/ RunDown(c) \/ CloseSocket(c) \/ CloseWait(c)
    BY <1>1, <1>3, <2>3, CloseAfterCancelledOperationKeepsIrps, CloseCheckKeepsIrps,
       CloseIssueKeepsIrps, RunDownKeepsIrps, CloseSocketKeepsIrps, CloseWaitKeepsIrps
  <2>4. CASE \/ FreeSend(c) \/ ClearSend(c) \/ FreeReceive(c) \/ ClearReceive(c)
             \/ IrpsReleased(c) \/ ReleaseClose(c) \/ ReleaseOperation(c)
    BY <1>1, <1>3, <2>4, FreeSendKeepsIrps, ClearSendKeepsIrps, FreeReceiveKeepsIrps,
       ClearReceiveKeepsIrps, IrpsReleasedKeepsIrps, ReleaseCloseKeepsIrps,
       ReleaseOperationKeepsIrps
  <2>5. QED
    BY <1>4, <2>1, <2>2, <2>3, <2>4 DEF Step
<1>5. ASSUME NEW c \in Calls, NEW k \in Kinds, Start(c, k) PROVE IrpOwners'
  BY <1>1, <1>3, <1>5, StartKeepsIrps
<1>6. ASSUME NEW x \in CtxIds, Complete(x) \/ CompletionReleases(x) PROVE IrpOwners'
  BY <1>1, <1>3, <1>6, CompleteKeepsIrps, CompletionReleasesKeepsIrps
<1>7. CASE UNCHANGED vars
  BY <1>3, <1>7, IrpOwnersStutter
<1>8. QED
  BY <1>4, <1>5, <1>6, <1>7 DEF Next, Returns, Stopped

\* The IRPs of a socket used by one call at a time are owned by one party at a time.
THEOREM IrpInvariant == Spec => []IrpInv
<1>1. Init => IrpInv
  BY IrpInvInit
<1>2. IrpInv /\ [Next]_vars => IrpInv'
  BY IrpInvNext
<1>3. QED
  BY <1>1, <1>2, PTL DEF Spec

LEMMA OwnersFreeOnce ==
    ASSUME SocketInv, discipline = "exclusive", IrpOwners
    PROVE  /\ IrpsOwnedOnce
           /\ Quiet /\ Destroyed => \A x \in CtxIds : ctx[x].irp # None => frees[ctx[x].irp] = 1
<1>0. IrpLedger(ctx, frees, Held)
  BY DEF IrpOwners
<1>1. \A x \in CtxIds : frees[x] <= 1
  BY <1>0 DEF IrpLedger
<1>2. ASSUME NEW c \in Calls, UsesReusable(c) \/ pc[c] = "reuse", ~gave[c]
      PROVE  ReusableIrp(c) # None /\ frees[ReusableIrp(c)] = 0
  <2>1. ReusableIrp(c) # None
    BY <1>2 DEF IrpOwners, CallIrp
  <2>2. c \in Running /\ ~Leaving(c, ReusableIrp(c))
    BY <1>2 DEF Running, UsesReusable, Waiting, Leaving
  <2>3. ReusableIrp(c) \in {sendIrp_, receiveIrp_}
    BY DEF ReusableIrp
  <2>4. ReusableIrp(c) \in Held
    BY <2>1, <2>2, <2>3, HeldOf
  <2>5. QED
    BY <1>0, <2>1, <2>4 DEF IrpLedger
<1>3. ASSUME NEW x \in CtxIds, ctx[x].io = "pending" PROVE frees[ctx[x].irp] = 0
  <2> DEFINE c == x[1]
  <2>1. c \in Calls /\ CallInv(c) /\ CallIrp(c) /\ x \in {Io(c), Cl(c)}
    BY ContextNames DEF SocketInv, IrpOwners
  <2>2. ctx[x].refs > 0
    <3>1. CompletionHolds(x)
      BY <1>3 DEF CompletionHolds
    <3>2. QED
      BY <2>1, <3>1 DEF CallInv, RefsExact
  <2>3. CASE Owns(ctx, x)
    BY <1>0, <2>3 DEF IrpLedger
  <2>4. CASE ~Owns(ctx, x)
    <3>1. ctx[x].borrowed /\ ~ctx[x].owned
      BY <2>2, <2>4 DEF Owns
    <3>2. x = Io(c) /\ kind[c] \in {"send", "receive"} /\ pc[c] \in Waiting
      BY <1>3, <2>1, <3>1 DEF CallIrp, CallInv, IoShape
    <3>3. ~gave[c] /\ UsesReusable(c)
      BY <2>1, <3>2 DEF CallInv, IoShape, UsesReusable
    <3>4. ctx[x].irp = ReusableIrp(c)
      BY <2>1, <3>2, <3>3 DEF CallIrp
    <3>5. QED
      BY <1>2, <2>1, <3>3, <3>4
  <2>5. QED
    BY <2>3, <2>4
<1>4. ASSUME NEW c \in Calls, pc[c] = "reuse"
      PROVE  ReusableIrp(c) # None /\ frees[ReusableIrp(c)] = 0
  <2>1. ~gave[c]
    BY <1>4 DEF SocketInv, CallInv, IoShape, NoIoContext
  <2>2. QED
    BY <1>2, <1>4, <2>1
<1>5. ASSUME Quiet, Destroyed, NEW x \in CtxIds, ctx[x].irp # None
      PROVE  frees[ctx[x].irp] = 1
  <2>1. PICK d \in Calls : kind[d] = "destroy"
    BY <1>5 DEF Destroyed
  <2>2. pc[d] = "done"
    BY <1>5, <2>1 DEF Quiet, Running, SocketInv, CallInv, InStep, Closing, Freeing
  <2>3. sendIrp_ = None /\ receiveIrp_ = None
    BY <2>1, <2>2 DEF IrpOwners, CallIrp
  <2>4. Held = {}
    BY <2>3 DEF Held
  <2>5. \A z \in CtxIds : ~Owns(ctx, z)
    BY <1>5 DEF Quiet, Contexts, Owns
  <2>6. QED
    BY <1>0, <1>5, <2>4, <2>5 DEF IrpLedger
<1>6. QED
  BY <1>1, <1>3, <1>4, <1>5 DEF IrpsOwnedOnce

\* On a socket of any discipline the references are exact and each native socket is
\* closed once; where one call runs at a time each IRP is freed once, never while the
\* provider or the socket has it, and destroying the socket loses none of them.
THEOREM FreedCorrect == Spec => []FreedOnce
<1>1. ASSUME IrpInv PROVE FreedOnce
  <2>1. SocketInv
    BY <1>1 DEF IrpInv
  <2>2. ReferencesExact
    BY <2>1, ReferencesFollow
  <2>3. discipline = "exclusive" =>
          /\ IrpsOwnedOnce
          /\ Quiet /\ Destroyed => \A x \in CtxIds : ctx[x].irp # None => frees[ctx[x].irp] = 1
    BY <1>1, <2>1, OwnersFreeOnce DEF IrpInv
  <2>4. \A c \in Calls : closes[c] <= 1
    BY <2>1 DEF SocketInv, Natives
  <2>5. ASSUME Quiet, Destroyed, ~allocFails, NEW c \in Calls PROVE native[c] # "open"
    <3>1. PICK d \in Calls : kind[d] = "destroy"
      BY <2>5 DEF Destroyed
    <3>2. pc[d] = "done"
      BY <2>1, <2>5, <3>1 DEF Quiet, Running, SocketInv, CallInv, InStep, Closing, Freeing
    <3>3. socket_ = None
      BY <2>1, <2>5, <3>1, <3>2 DEF SocketInv, ClosingOnce
    <3>4. ctx[Io(c)].refs = 0
      <4>1. Io(c) \in CtxIds /\ ctx[Io(c)] \in ContextType
        BY <2>1, ContextNames DEF SocketInv, TypeOK
      <4>2. ~(ctx[Io(c)].refs > 0)
        BY <2>5, <4>1 DEF Quiet, Contexts
      <4>3. QED
        BY <4>1, <4>2 DEF ContextType
    <3>5. ~Unpublished(c)
      BY <2>1, <3>4 DEF SocketInv, CallInv, IoShape, Unpublished
    <3>6. QED
      BY <2>1, <2>5, <3>3, <3>5, ContextNames DEF SocketInv, Natives
  <2>6. QED
    BY <2>2, <2>3, <2>4, <2>5 DEF FreedOnce
<1>2. QED
  BY <1>1, IrpInvariant, PTL

-----------------------------------------------------------------------------
(* The client's count of contexts and its event.                             *)

\* The count is that of the threads between taking and returning a context.
ClientInv ==
    /\ event \in BOOLEAN
    /\ clientPc \in [Threads -> {"idle", "clearing", "holding", "setting"}]
    /\ count = Cardinality(Client!Holders)
    /\ EmptyIsSignalled

\* A thread more or less with a context.
LEMMA HoldersChange ==
    ASSUME ClientInv, NEW t \in Threads
    PROVE  /\ IsFiniteSet(Client!Holders) /\ count \in Nat
           /\ Client!Holders' = Client!Holders \cup {t} /\ t \notin Client!Holders
                => Cardinality(Client!Holders)' = count + 1
           /\ Client!Holders' = Client!Holders \ {t} /\ t \in Client!Holders
                => Cardinality(Client!Holders)' = count - 1
           /\ count = 1 /\ t \in Client!Holders => Client!Holders = {t}
           /\ Client!Holders = {t} => count = 1
<1>1. IsFiniteSet(Client!Holders)
  BY ThreadsAssumption, FS_Subset DEF Client!Holders
<1>2. count = Cardinality(Client!Holders)
  BY DEF ClientInv
<1> DEFINE S == Client!Holders
           T == Client!Holders'
<1>3. Cardinality(S) \in Nat
  BY <1>1, FS_CardinalityType
<1>4. Cardinality(S) = 1 <=> \E x : S = {x}
  BY <1>1, FS_Singleton
<1>5. T = S \cup {t} /\ t \notin S => Cardinality(T) = Cardinality(S) + 1
  BY <1>1, FS_AddElement
<1>6. T = S \ {t} /\ t \in S => Cardinality(T) = Cardinality(S) - 1
  BY <1>1, FS_RemoveElement
<1>7. Cardinality(Client!Holders)' = Cardinality(T)
  OBVIOUS
<1> HIDE DEF S, T
<1>8. QED
  BY <1>1, <1>2, <1>3, <1>4, <1>5, <1>6, <1>7 DEF S, T

LEMMA ClientInvNext ==
    ASSUME ClientInv, [Client!Next]_(Client!vars)
    PROVE  ClientInv'
<1> USE DEF EmptyIsSignalled
<1>1. CASE UNCHANGED <<count, event, clientPc>>
  BY <1>1 DEF ClientInv, Client!Holders, Client!EmptyIsSignalled
<1>2. ASSUME NEW t \in Threads, Client!TrackContextAllocated(t)
      PROVE  ClientInv'
  <2>1. /\ clientPc' \in [Threads -> {"idle", "clearing", "holding", "setting"}]
        /\ t \notin Client!Holders /\ Client!Holders' = Client!Holders \cup {t}
        /\ count' = count + 1 /\ event' = event
    BY <1>2 DEF ClientInv, Client!TrackContextAllocated, Client!Goto, Client!Holders
  <2>2. QED
    BY <2>1, HoldersChange DEF ClientInv, Client!EmptyIsSignalled
<1>3. ASSUME NEW t \in Threads, Client!ClearEvent(t)
      PROVE  ClientInv'
  <2>1. /\ clientPc' \in [Threads -> {"idle", "clearing", "holding", "setting"}]
        /\ t \in Client!Holders /\ Client!Holders' = Client!Holders
        /\ count' = count /\ event' = FALSE
    BY <1>3 DEF ClientInv, Client!ClearEvent, Client!Goto, Client!Holders
  <2>2. QED
    BY <2>1 DEF ClientInv, Client!EmptyIsSignalled
<1>4. ASSUME NEW t \in Threads, Client!TrackContextReleased(t)
      PROVE  ClientInv'
  <2>1. /\ clientPc' \in [Threads -> {"idle", "clearing", "holding", "setting"}]
        /\ t \in Client!Holders /\ Client!Holders' = Client!Holders \ {t}
        /\ count' = count - 1 /\ event' = event
        /\ count = 1 => clientPc'[t] = "setting"
    BY <1>4 DEF ClientInv, Client!TrackContextReleased, Client!Goto, Client!Holders
  <2>2. Client!Holders' = {} => clientPc'[t] = "setting"
    BY <2>1, HoldersChange
  <2>3. QED
    BY <2>1, <2>2, HoldersChange DEF ClientInv, Client!EmptyIsSignalled
<1>5. ASSUME NEW t \in Threads, Client!SetEvent(t)
      PROVE  ClientInv'
  <2>1. /\ clientPc' \in [Threads -> {"idle", "clearing", "holding", "setting"}]
        /\ Client!Holders' = Client!Holders /\ count' = count /\ event' = TRUE
    BY <1>5 DEF ClientInv, Client!SetEvent, Client!Goto, Client!Holders
  <2>2. QED
    BY <2>1 DEF ClientInv, Client!EmptyIsSignalled
<1>6. QED
  BY <1>1, <1>2, <1>3, <1>4, <1>5
     DEF Client!Next, Client!vars, Client!Register, Client!CaptureProvider,
         Client!Shutdown, Client!DrainNothing, Client!DrainEnds, Client!DrainTimesOut,
         Client!Deregister

\* For every number of threads: no wake-up is lost.  When no context is outstanding,
\* the event that WskClient::Shutdown waits for is set or about to be set, although
\* the count and the event change in two steps (WskSyncTrackContextReleased).
THEOREM NoLostWakeUp == Client!Spec => []EmptyIsSignalled
<1>1. Client!Init => ClientInv
  <2>1. Client!Init => Client!Holders = {}
    BY DEF Client!Init, Client!Holders
  <2>2. QED
    BY <2>1, FS_EmptySet DEF Client!Init, ClientInv, EmptyIsSignalled, Client!EmptyIsSignalled
<1>2. ClientInv /\ [Client!Next]_(Client!vars) => ClientInv'
  BY ClientInvNext
<1>3. ClientInv => EmptyIsSignalled
  BY DEF ClientInv
<1>4. QED
  BY <1>1, <1>2, <1>3, PTL DEF Client!Spec
=============================================================================
