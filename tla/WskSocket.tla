------------------------------ MODULE WskSocket ------------------------------
(***************************************************************************)
(* A WskSocket (net/WskSocket.cpp) and the synchronous IRP contexts of     *)
(* net/WskSync.h.  A call allocates a context with two references, one for *)
(* the caller and one for the completion routine, submits its IRP, waits,  *)
(* and on a timeout cancels; when even the cancelled IRP does not return,  *)
(* the completion is left to clean up.  Send and receive reuse one IRP     *)
(* each, kept in the socket.  Closing is guarded by closeIssued_ and by    *)
(* rundown protection.                                                     *)
(*                                                                         *)
(* Calls are numbered in the order they start.  A call's two contexts,     *)
(* the operation's and that of a WskCloseSocket it issues, name the IRPs   *)
(* they allocate.  The WSK provider is external: a request may complete    *)
(* before the submit returns, be refused, or stay pending.                 *)
(***************************************************************************)
EXTENDS Naturals

CONSTANTS
    NumCalls,     \* bound: how many calls are made
    Disciplines,  \* how the socket may be used: "exclusive", one call at a time, or
                  \* "shared", one sender and one receiver at a time, as the locks
                  \* of an HTTP/2 connection allow
    Scarcities,   \* {TRUE}: allocations may fail; {FALSE}: they do not
    None

ASSUME WskAssumption ==
    /\ NumCalls \in Nat
    /\ Disciplines \subseteq {"exclusive", "shared"}
    /\ Scarcities \subseteq BOOLEAN
    /\ None \notin Nat
    /\ None \notin Nat \X {"io", "close"}

Calls == 1..NumCalls

VARIABLES
    discipline,       \* the one this socket is used by
    allocFails,       \* whether memory is scarce
    pc, kind,         \* each call's step and operation
    outcome,          \* of WskSyncCompleteIrp: "ended" with the request's status, or
                      \* "timeout" for a timeout or a cancellation by the caller
    gave,             \* its completion.CompletionOwnedCleanup
    ctx,              \* the WskSyncIrpContexts
    frees,            \* how often each IRP went to IoFreeIrp
    socket_,          \* the call that connected the current native socket, or None
    ownershipState_, closeIssued_, sendIrp_, receiveIrp_,
    rundown,          \* ioRundown_: its references, and whether it was run down
    native,           \* the socket a connecting call was given: none, open or closed
    closes            \* how often it went to WskCloseSocket

local == <<pc, kind, outcome, gave>>
fields == <<socket_, ownershipState_, closeIssued_, sendIrp_, receiveIrp_, rundown>>
state == <<local, ctx, frees, fields, native, closes>>
vars == <<discipline, allocFails, state>>

Kinds == {"connect", "send", "receive", "disconnect", "close", "destroy"}
CtxIds == Calls \X {"io", "close"}
Io(c) == <<c, "io">>
Cl(c) == <<c, "close">>

Context(refs, io, borrowed, irp) ==
    [refs |-> refs, io |-> io, completed |-> FALSE, owned |-> FALSE,
     borrowed |-> borrowed, irp |-> irp, information |-> FALSE]

NoContext == Context(0, "none", FALSE, None)

Init ==
    /\ discipline \in Disciplines
    /\ allocFails \in Scarcities
    /\ pc = [c \in Calls |-> "idle"]
    /\ kind = [c \in Calls |-> "none"]
    /\ outcome = [c \in Calls |-> "none"]
    /\ gave = [c \in Calls |-> FALSE]
    /\ ctx = [x \in CtxIds |-> NoContext]
    /\ frees = [x \in CtxIds |-> 0]
    /\ socket_ = None
    /\ ownershipState_ = "Closed"
    /\ closeIssued_ = FALSE
    /\ sendIrp_ = None
    /\ receiveIrp_ = None
    /\ rundown = [count |-> 0, down |-> FALSE]
    /\ native = [c \in Calls |-> "none"]
    /\ closes = [c \in Calls |-> 0]

Goto(c, p) == pc' = [pc EXCEPT ![c] = p]

-----------------------------------------------------------------------------
(* Contexts.  Operators from the table of contexts to the next one.         *)

\* WskSyncInitializeIrpContext.
WskSyncInitializeIrpContext(cs, x, irp, borrowed) ==
    [cs EXCEPT ![x] = Context(2, "idle", borrowed, irp)]

\* One reference less; with the last one the context is freed, and only its IRP
\* is remembered.
OneLess(cs, x) ==
    IF cs[x].refs = 1
    THEN [cs EXCEPT ![x] = Context(0, "returned", FALSE, cs[x].irp)]
    ELSE [cs EXCEPT ![x].refs = @ - 1]

\* WskSyncReleaseContext frees the IRP with the last reference, unless the socket
\* owns it and no cleanup was handed over.
FreesIrp(cs, x) == cs[x].refs = 1 /\ (~cs[x].borrowed \/ cs[x].owned)

\* CompletionCleanupRoutine, CloseLateConnectedSocket: with the last reference of
\* a handed-over connect, the socket it brought is closed.
ClosesLate(cs, x) ==
    cs[x].refs = 1 /\ cs[x].owned /\ cs[x].information

IrpsFreed(cs, x) == IF FreesIrp(cs, x) THEN [frees EXCEPT ![cs[x].irp] = @ + 1]
                                       ELSE frees

\* WskSyncReleaseContext, with what the last reference cleans up: the detached
\* close of CloseNativeSocketDetachedIfPresent, whose caller's reference is
\* dropped at once (WskSyncDetachSubmittedIrp).  cs is the table with x prepared.
WskSyncReleaseContext(cs, x) ==
    LET c == x[1]
        less == OneLess(cs, x)
    IN  IF ~ClosesLate(cs, x)
        THEN /\ ctx' = less
             /\ frees' = IrpsFreed(cs, x)
             /\ UNCHANGED <<native, closes>>
        ELSE \/ /\ native' = [native EXCEPT ![c] = "closed"]
                /\ closes' = [closes EXCEPT ![c] = @ + 1]
                /\ ctx' = [less EXCEPT ![Cl(c)] = Context(1, "pending", FALSE, Cl(c))]
                /\ frees' = IrpsFreed(cs, x)
             \/ /\ allocFails            \* the detached close has no IRP
                /\ ctx' = less
                /\ frees' = IrpsFreed(cs, x)
                /\ UNCHANGED <<native, closes>>

-----------------------------------------------------------------------------
(* The provider and the completion routine.                                  *)

\* External: the provider completes a pending IRP, and WskSyncCompletionRoutine
\* stores the status, sets Completed and signals Event.  A connect that succeeds
\* brings a socket.
Complete(x) ==
    /\ ctx[x].io = "pending"
    /\ \E brings \in IF kind[x[1]] = "connect" /\ x[2] = "io" THEN BOOLEAN ELSE {FALSE} :
          /\ ctx' = [ctx EXCEPT ![x].io = "signalled", ![x].completed = TRUE,
                                ![x].information = brings]
          /\ native' = [native EXCEPT ![x[1]] = IF brings THEN "open" ELSE @]
    /\ UNCHANGED <<local, frees, fields, closes>>

\* The completion routine drops its reference.
CompletionReleases(x) ==
    /\ ctx[x].io = "signalled"
    /\ WskSyncReleaseContext([ctx EXCEPT ![x].io = "returned"], x)
    /\ UNCHANGED <<local, fields>>

-----------------------------------------------------------------------------
(* Starting a call.                                                          *)

Busy(k) == {c \in Calls : kind[c] = k /\ pc[c] \notin {"idle", "done"}}
Running == {c \in Calls : pc[c] \notin {"idle", "done"}}
Destroyed == \E c \in Calls : kind[c] = "destroy"

\* The discipline of the socket's users: an exclusive connection runs one call at
\* a time; a shared one sends under one lock and receives under another.  The
\* socket is connected, closed and destroyed by whoever has it alone.
MayStart(k) ==
    /\ ~Destroyed
    /\ \/ Running = {}
       \/ /\ discipline = "shared"
          /\ k \in {"send", "receive"}
          /\ Running = Busy("send") \cup Busy("receive")
          /\ Busy(k) = {}

IsConnected == socket_ # None /\ ownershipState_ = "Active"

\* The entry checks of each operation: one that fails returns an error and changes
\* nothing.  ~WskSocket closes a socket that is not closed, then frees the IRPs.
Start(c, k) ==
    /\ pc[c] = "idle"
    /\ \A d \in Calls : d < c => pc[d] # "idle"
    /\ MayStart(k)
    /\ k = "connect" => socket_ = None
    /\ k \in {"send", "receive", "disconnect"} => IsConnected
    /\ kind' = [kind EXCEPT ![c] = k]
    /\ Goto(c, CASE k = "connect" -> "connect"
                 [] k \in {"send", "receive"} -> "prepare"
                 [] k = "disconnect" -> "allocate"
                 [] k = "close" -> "closeCheck"
                 [] k = "destroy" -> IF socket_ # None \/ ownershipState_ # "Closed"
                                     THEN "closeCheck" ELSE "freeSend")
    /\ UNCHANGED <<outcome, gave, ctx, frees, fields, native, closes>>

-----------------------------------------------------------------------------
(* The reusable IRPs.                                                        *)

ReusableIrp(c) == IF kind[c] = "send" THEN sendIrp_ ELSE receiveIrp_

SetReusableIrp(c, irp) ==
    /\ sendIrp_' = IF kind[c] = "send" THEN irp ELSE sendIrp_
    /\ receiveIrp_' = IF kind[c] = "send" THEN receiveIrp_ ELSE irp

\* PrepareReusableIrp: an absent IRP is allocated ...
PrepareReusableIrp(c) ==
    /\ pc[c] = "prepare"
    /\ IF ReusableIrp(c) = None
       THEN /\ SetReusableIrp(c, Io(c))
            /\ ctx' = WskSyncInitializeIrpContext(ctx, Io(c), Io(c), TRUE)
            /\ Goto(c, "acquire")
       ELSE /\ Goto(c, "reuse")
            /\ UNCHANGED <<sendIrp_, receiveIrp_, ctx>>
    /\ UNCHANGED <<kind, outcome, gave, frees, socket_, ownershipState_, closeIssued_,
                   rundown, native, closes>>

\* ... and a present one is initialised again; the field is read a second time,
\* and IoReuseIrp of a null pointer is a bug check.
IoReuseIrp(c) ==
    /\ pc[c] = "reuse"
    /\ IF ReusableIrp(c) = None
       THEN Goto(c, "bugcheck") /\ UNCHANGED ctx
       ELSE /\ ctx' = WskSyncInitializeIrpContext(ctx, Io(c), ReusableIrp(c), TRUE)
            /\ Goto(c, "acquire")
    /\ UNCHANGED <<kind, outcome, gave, frees, fields, native, closes>>

\* An allocation of the call fails before anything is submitted.  A new reusable
\* IRP stays with the socket when only the context is missing.
Refused(c) ==
    /\ allocFails
    /\ pc[c] \in {"connect", "prepare", "reuse", "allocate"}
    /\ \/ UNCHANGED <<sendIrp_, receiveIrp_>>
       \/ pc[c] = "prepare" /\ ReusableIrp(c) = None /\ SetReusableIrp(c, Io(c))
    /\ Goto(c, "done")
    /\ UNCHANGED <<kind, outcome, gave, ctx, frees, socket_, ownershipState_,
                   closeIssued_, rundown, native, closes>>

\* WskSyncAllocateIrp of a disconnect.
WskSyncAllocateIrp(c) ==
    /\ pc[c] = "allocate"
    /\ ctx' = WskSyncInitializeIrpContext(ctx, Io(c), Io(c), FALSE)
    /\ Goto(c, "acquire")
    /\ UNCHANGED <<kind, outcome, gave, frees, fields, native, closes>>

\* AcquireIoRundown; when it fails, or the buffer cannot be allocated,
\* WskSyncReleaseUnsubmittedContext drops both references.
AcquireIoRundown(c) ==
    /\ pc[c] = "acquire"
    /\ \/ /\ ~rundown.down
          /\ rundown' = [rundown EXCEPT !.count = @ + 1]
          /\ Goto(c, "submit")
          /\ UNCHANGED <<ctx, frees>>
       \/ /\ rundown.down \/ allocFails
          /\ ctx' = OneLess(OneLess(ctx, Io(c)), Io(c))
          /\ frees' = IrpsFreed(OneLess(ctx, Io(c)), Io(c))
          /\ Goto(c, "done")
          /\ UNCHANGED rundown
    /\ UNCHANGED <<kind, outcome, gave, socket_, ownershipState_, closeIssued_,
                   sendIrp_, receiveIrp_, native, closes>>

-----------------------------------------------------------------------------
(* Submitting and WskSyncCompleteIrp.                                        *)

\* Connect: the context is allocated; the rest is as for the others.
ConnectAllocate(c) ==
    /\ pc[c] = "connect"
    /\ ctx' = WskSyncInitializeIrpContext(ctx, Io(c), Io(c), FALSE)
    /\ Goto(c, "submit")
    /\ UNCHANGED <<kind, outcome, gave, frees, fields, native, closes>>

\* Where a call goes once its request has ended.
Ended(c) == IF kind[c] = "connect" THEN "connected" ELSE "releaseRundown"

\* WskSocketConnect, WskSend, WskReceive or WskDisconnect: the request stays
\* pending; or it completed before the submit returned; or the provider refused
\* it without completing the IRP, and the caller drops that reference
\* (WskSyncDropCompletionReferenceIfNotCompleted).
Submit(c) ==
    /\ pc[c] = "submit"
    /\ \/ /\ ctx' = [ctx EXCEPT ![Io(c)].io = "pending"]
          /\ Goto(c, "wait")
          /\ UNCHANGED <<outcome, native>>
       \/ \E ok \in BOOLEAN :
          /\ ctx' = [ctx EXCEPT ![Io(c)].io = "returned", ![Io(c)].refs = 1,
                                ![Io(c)].completed = TRUE,
                                ![Io(c)].information = ok /\ kind[c] = "connect"]
          /\ native' = [native EXCEPT ![c] = IF ok /\ kind[c] = "connect" THEN "open" ELSE @]
          /\ outcome' = [outcome EXCEPT ![c] = "ended"]
          /\ Goto(c, Ended(c))
       \/ /\ ctx' = [ctx EXCEPT ![Io(c)].io = "returned", ![Io(c)].refs = 1]
          /\ outcome' = [outcome EXCEPT ![c] = "ended"]
          /\ Goto(c, Ended(c))
          /\ UNCHANGED native
    /\ UNCHANGED <<kind, gave, frees, fields, closes>>

\* The wait ends with the event: the status is the IRP's.
WaitEnds(c) ==
    /\ pc[c] = "wait"
    /\ ctx[Io(c)].completed
    /\ outcome' = [outcome EXCEPT ![c] = "ended"]
    /\ Goto(c, Ended(c))
    /\ UNCHANGED <<kind, gave, ctx, frees, fields, native, closes>>

\* The wait ends with the timeout, or the caller's cancellation: IoCancelIrp.
\* Completion may have come just before.
WaitTimesOut(c) ==
    /\ pc[c] = "wait"
    /\ Goto(c, "cancelWait")
    /\ UNCHANGED <<kind, outcome, gave, ctx, frees, fields, native, closes>>

\* The cancelled IRP comes back within the bounded wait: the call has timed out,
\* whatever the IRP's status.
CancelCompletes(c) ==
    /\ pc[c] = "cancelWait"
    /\ ctx[Io(c)].completed
    /\ outcome' = [outcome EXCEPT ![c] = "timeout"]
    /\ Goto(c, Ended(c))
    /\ UNCHANGED <<kind, gave, ctx, frees, fields, native, closes>>

\* It does not: the wait ends ...
CancelTimesOut(c) ==
    /\ pc[c] = "cancelWait"
    /\ ~ctx[Io(c)].completed
    /\ Goto(c, "handOver")
    /\ UNCHANGED <<kind, outcome, gave, ctx, frees, fields, native, closes>>

\* ... and CompletionOwnedCleanup is set, perhaps after a completion that came
\* in between.
HandOver(c) ==
    /\ pc[c] = "handOver"
    /\ ctx' = [ctx EXCEPT ![Io(c)].owned = TRUE]
    /\ outcome' = [outcome EXCEPT ![c] = "timeout"]
    /\ gave' = [gave EXCEPT ![c] = TRUE]
    /\ Goto(c, Ended(c))
    /\ UNCHANGED <<kind, frees, fields, native, closes>>

-----------------------------------------------------------------------------
(* Connect, after the request.                                               *)

\* A socket that came with success is taken over; one that came with a timed-out
\* connect is closed (CloseNativeSocketIfPresent); a handed-over connect reports
\* no information.
Connected(c) ==
    /\ pc[c] = "connected"
    /\ LET brought == ctx[Io(c)].information /\ ~gave[c]
       IN  IF brought /\ outcome[c] = "ended"
           THEN /\ socket_' = c
                /\ ownershipState_' = "Active"
                /\ closeIssued_' = FALSE
                /\ Goto(c, "release")
           ELSE /\ Goto(c, IF brought THEN "closeNative" ELSE "release")
                /\ UNCHANGED <<socket_, ownershipState_, closeIssued_>>
    /\ UNCHANGED <<kind, outcome, gave, ctx, frees, sendIrp_, receiveIrp_, rundown,
                   native, closes>>

\* CloseNativeSocketIfPresent of a socket the call has not published.
CloseNative(c) ==
    /\ pc[c] = "closeNative"
    /\ \/ /\ native' = [native EXCEPT ![c] = "closed"]
          /\ closes' = [closes EXCEPT ![c] = @ + 1]
          /\ ctx' = [WskSyncInitializeIrpContext(ctx, Cl(c), Cl(c), FALSE)
                        EXCEPT ![Cl(c)].io = "pending"]
          /\ Goto(c, "closeWait")
       \/ /\ allocFails
          /\ Goto(c, "release")
          /\ UNCHANGED <<native, closes, ctx>>
    /\ UNCHANGED <<kind, outcome, gave, frees, fields>>

-----------------------------------------------------------------------------
(* After a send, a receive or a disconnect.                                  *)

\* Mutant: the protection is returned on success only.
ReleaseIoRundownIfEnded(c) ==
    /\ pc[c] = "releaseRundown"
    /\ rundown' = [rundown EXCEPT !.count = IF outcome[c] = "timeout" THEN @ ELSE @ - 1]
    /\ Goto(c, IF outcome[c] = "timeout" THEN "abandon" ELSE "release")
    /\ UNCHANGED <<kind, outcome, gave, ctx, frees, socket_, ownershipState_,
                   closeIssued_, sendIrp_, receiveIrp_, native, closes>>

ReleaseIoRundown(c) ==
    /\ pc[c] = "releaseRundown"
    /\ rundown' = [rundown EXCEPT !.count = @ - 1]
    /\ Goto(c, IF outcome[c] = "timeout" THEN "abandon" ELSE "release")
    /\ UNCHANGED <<kind, outcome, gave, ctx, frees, socket_, ownershipState_,
                   closeIssued_, sendIrp_, receiveIrp_, native, closes>>

\* Mutant: the socket keeps the IRP it handed over.
AbandonNothing(c) ==
    /\ pc[c] = "abandon"
    /\ Goto(c, "closeCancelled")
    /\ UNCHANGED <<kind, outcome, gave, ctx, frees, fields, native, closes>>

\* AbandonReusableIrp: the socket forgets an IRP that was handed over.
AbandonReusableIrp(c) ==
    /\ pc[c] = "abandon"
    /\ IF gave[c] /\ kind[c] \in {"send", "receive"}
       THEN SetReusableIrp(c, None)
       ELSE UNCHANGED <<sendIrp_, receiveIrp_>>
    /\ Goto(c, "closeCancelled")
    /\ UNCHANGED <<kind, outcome, gave, ctx, frees, socket_, ownershipState_,
                   closeIssued_, rundown, native, closes>>

\* CloseAfterCancelledOperation.
CloseAfterCancelledOperation(c) ==
    /\ pc[c] = "closeCancelled"
    /\ ownershipState_' = IF gave[c] THEN "CompletionOwnedCleanup"
                          ELSE IF socket_ = None THEN "Closed" ELSE "CancelPending"
    /\ Goto(c, IF socket_ = None THEN "release" ELSE "closeCheck")
    /\ UNCHANGED <<kind, outcome, gave, ctx, frees, socket_, closeIssued_, sendIrp_,
                   receiveIrp_, rundown, native, closes>>

-----------------------------------------------------------------------------
(* CloseOwnedSocket.                                                         *)

\* Where a call goes on when CloseOwnedSocket returns: a close is done, a
\* destructor frees the IRPs, an operation drops its context.
AfterClose(c) == CASE kind[c] = "close" -> "done"
                   [] kind[c] = "destroy" -> "freeSend"
                   [] OTHER -> "release"

\* The test for a socket.  Without one the IRPs are freed and the state reset.
CloseCheck(c) ==
    /\ pc[c] = "closeCheck"
    /\ Goto(c, IF socket_ = None THEN "freeSend" ELSE "closeIssue")
    /\ UNCHANGED <<kind, outcome, gave, ctx, frees, fields, native, closes>>

\* The IRP of the close is allocated, then closeIssued_ decides who closes; the
\* loser frees its unsubmitted context and returns success.
CloseIssue(c) ==
    /\ pc[c] = "closeIssue"
    /\ \/ /\ ~closeIssued_
          /\ closeIssued_' = TRUE
          /\ ctx' = WskSyncInitializeIrpContext(ctx, Cl(c), Cl(c), FALSE)
          /\ Goto(c, "rundown")
          /\ UNCHANGED frees
       \/ /\ closeIssued_
          /\ frees' = [frees EXCEPT ![Cl(c)] = @ + 1]
          /\ Goto(c, AfterClose(c))
          /\ UNCHANGED <<closeIssued_, ctx>>
       \/ /\ allocFails
          /\ Goto(c, AfterClose(c))
          /\ UNCHANGED <<closeIssued_, ctx, frees>>
    /\ UNCHANGED <<kind, outcome, gave, socket_, ownershipState_, sendIrp_, receiveIrp_,
                   rundown, native, closes>>

\* WaitForIoRundown: no reference is granted any more ...
RunDown(c) ==
    /\ pc[c] = "rundown"
    /\ rundown' = [rundown EXCEPT !.down = TRUE]
    /\ Goto(c, "closeSocket")
    /\ UNCHANGED <<kind, outcome, gave, ctx, frees, socket_, ownershipState_,
                   closeIssued_, sendIrp_, receiveIrp_, native, closes>>

\* Mutant: the close does not wait for the references.
CloseSocketAtOnce(c) ==
    /\ pc[c] = "closeSocket"
    /\ ownershipState_' = "ClosePending"
    /\ native' = [native EXCEPT ![socket_] = "closed"]
    /\ closes' = [closes EXCEPT ![socket_] = @ + 1]
    /\ ctx' = [ctx EXCEPT ![Cl(c)].io = "pending"]
    /\ socket_' = None
    /\ Goto(c, "closeWait")
    /\ UNCHANGED <<kind, outcome, gave, frees, closeIssued_, sendIrp_, receiveIrp_,
                   rundown>>

\* ... and when the last one is returned, WskCloseSocket is called.
CloseSocket(c) ==
    /\ pc[c] = "closeSocket"
    /\ rundown.count = 0
    /\ ownershipState_' = "ClosePending"
    /\ native' = [native EXCEPT ![socket_] = "closed"]
    /\ closes' = [closes EXCEPT ![socket_] = @ + 1]
    /\ ctx' = [ctx EXCEPT ![Cl(c)].io = "pending"]
    /\ socket_' = None
    /\ Goto(c, "closeWait")
    /\ UNCHANGED <<kind, outcome, gave, frees, closeIssued_, sendIrp_, receiveIrp_,
                   rundown>>

\* The wait for a close has no timeout.
CloseWait(c) ==
    /\ pc[c] = "closeWait"
    /\ ctx[Cl(c)].completed
    /\ ownershipState_' = IF kind[c] = "connect" THEN ownershipState_ ELSE "Closed"
    /\ Goto(c, IF kind[c] = "connect" THEN "releaseClose" ELSE "freeSend")
    /\ UNCHANGED <<kind, outcome, gave, ctx, frees, socket_, closeIssued_, sendIrp_,
                   receiveIrp_, rundown, native, closes>>

\* ReleaseReusableIrps: each IRP is freed, and then its field cleared.
FreeReusable(c, here, field, then, next) ==
    /\ pc[c] = here
    /\ IF field = None
       THEN Goto(c, next) /\ UNCHANGED frees
       ELSE /\ frees' = [frees EXCEPT ![field] = @ + 1]
            /\ Goto(c, then)
    /\ UNCHANGED <<kind, outcome, gave, ctx, fields, native, closes>>

FreeSend(c) == FreeReusable(c, "freeSend", sendIrp_, "clearSend", "freeReceive")
FreeReceive(c) == FreeReusable(c, "freeReceive", receiveIrp_, "clearReceive", "freed")

ClearSend(c) ==
    /\ pc[c] = "clearSend"
    /\ sendIrp_' = None
    /\ Goto(c, "freeReceive")
    /\ UNCHANGED <<kind, outcome, gave, ctx, frees, socket_, ownershipState_,
                   closeIssued_, receiveIrp_, rundown, native, closes>>

ClearReceive(c) ==
    /\ pc[c] = "clearReceive"
    /\ receiveIrp_' = None
    /\ Goto(c, "freed")
    /\ UNCHANGED <<kind, outcome, gave, ctx, frees, socket_, ownershipState_,
                   closeIssued_, sendIrp_, rundown, native, closes>>

\* CloseOwnedSocket ends: with the context of its close, or, where there was no
\* socket, by resetting the state.  (The destructor runs alone: its second
\* ReleaseReusableIrps finds nothing unless the close had failed.)
IrpsReleased(c) ==
    /\ pc[c] = "freed"
    /\ IF ctx[Cl(c)].io # "none"
       THEN Goto(c, "releaseClose") /\ UNCHANGED <<ownershipState_, closeIssued_>>
       ELSE /\ Goto(c, IF kind[c] = "destroy" THEN "done" ELSE AfterClose(c))
            /\ IF ownershipState_ = "CompletionOwnedCleanup" \/ kind[c] = "destroy"
               THEN UNCHANGED <<ownershipState_, closeIssued_>>
               ELSE ownershipState_' = "Closed" /\ closeIssued_' = FALSE
    /\ UNCHANGED <<kind, outcome, gave, ctx, frees, socket_, sendIrp_, receiveIrp_,
                   rundown, native, closes>>

\* The caller drops its reference on the context of the close.
ReleaseClose(c) ==
    /\ pc[c] = "releaseClose"
    /\ WskSyncReleaseContext(ctx, Cl(c))
    /\ Goto(c, IF kind[c] \in {"close", "destroy"} THEN "done" ELSE "release")
    /\ UNCHANGED <<kind, outcome, gave, fields>>

\* The caller drops its reference on the context of the operation and returns.
ReleaseOperation(c) ==
    /\ pc[c] = "release"
    /\ WskSyncReleaseContext(ctx, Io(c))
    /\ Goto(c, "done")
    /\ outcome' = [outcome EXCEPT ![c] = "none"]
    /\ gave' = [gave EXCEPT ![c] = FALSE]
    /\ UNCHANGED <<kind, fields>>

-----------------------------------------------------------------------------
Contexts == {x \in CtxIds : ctx[x].refs > 0}

\* Every call has returned and every context is gone; the machine has stopped.
Quiet == Running = {} /\ Contexts = {}
Crashed == \E c \in Calls : pc[c] = "bugcheck"
Stopped ==
    /\ Crashed \/ (Quiet /\ (Destroyed \/ \A c \in Calls : pc[c] = "done"))
    /\ UNCHANGED vars

Step(c) ==
    \/ Refused(c) \/ ConnectAllocate(c) \/ Connected(c) \/ CloseNative(c)
    \/ PrepareReusableIrp(c) \/ IoReuseIrp(c) \/ WskSyncAllocateIrp(c)
    \/ AcquireIoRundown(c) \/ Submit(c)
    \/ WaitEnds(c) \/ WaitTimesOut(c) \/ CancelCompletes(c) \/ CancelTimesOut(c)
    \/ HandOver(c) \/ ReleaseIoRundown(c) \/ AbandonReusableIrp(c)
    \/ CloseAfterCancelledOperation(c) \/ CloseCheck(c) \/ CloseIssue(c)
    \/ RunDown(c) \/ CloseSocket(c) \/ CloseWait(c)
    \/ FreeSend(c) \/ ClearSend(c) \/ FreeReceive(c) \/ ClearReceive(c)
    \/ IrpsReleased(c) \/ ReleaseClose(c) \/ ReleaseOperation(c)

Returns == \E x \in CtxIds : Complete(x) \/ CompletionReleases(x)

Next ==
    /\ \/ \E c \in Calls : Step(c)
       \/ \E c \in Calls, k \in Kinds : Start(c, k)
       \/ Returns
       \/ Stopped
    /\ UNCHANGED <<discipline, allocFails>>

\* Some thread that can run does, waits with a timeout end, and the provider
\* completes what it was given in the end (a close waits for it without a
\* timeout).  No call and no context takes a step for ever, so that this gives
\* each of them its turn.
Fairness ==
    /\ WF_state(\E c \in Calls : Step(c))
    /\ WF_state(Returns)

Spec == Init /\ [][Next]_vars /\ Fairness

-----------------------------------------------------------------------------
Steps == {"idle", "connect", "prepare", "reuse", "allocate", "acquire", "submit",
          "wait", "cancelWait", "handOver", "connected", "closeNative",
          "releaseRundown", "abandon", "closeCancelled", "closeCheck", "closeIssue",
          "rundown", "closeSocket", "closeWait", "freeSend", "clearSend",
          "freeReceive", "clearReceive", "freed", "releaseClose", "release",
          "bugcheck", "done"}

ContextType == [refs : 0..2, io : {"none", "idle", "pending", "signalled", "returned"},
                completed : BOOLEAN, owned : BOOLEAN, borrowed : BOOLEAN,
                irp : CtxIds \cup {None}, information : BOOLEAN]

TypeOK ==
    /\ discipline \in Disciplines
    /\ allocFails \in Scarcities
    /\ pc \in [Calls -> Steps]
    /\ kind \in [Calls -> Kinds \cup {"none"}]
    /\ outcome \in [Calls -> {"none", "ended", "timeout"}]
    /\ gave \in [Calls -> BOOLEAN]
    /\ ctx \in [CtxIds -> ContextType]
    /\ frees \in [CtxIds -> Nat]
    /\ socket_ \in Calls \cup {None}
    /\ ownershipState_ \in {"Closed", "Active", "CancelPending", "ClosePending",
                            "CompletionOwnedCleanup"}
    /\ closeIssued_ \in BOOLEAN
    /\ sendIrp_ \in CtxIds \cup {None}
    /\ receiveIrp_ \in CtxIds \cup {None}
    /\ rundown \in [count : Nat, down : BOOLEAN]
    /\ native \in [Calls -> {"none", "open", "closed"}]
    /\ closes \in [Calls -> Nat]

Operations == {"connect", "send", "receive", "disconnect"}
NoIoContext == {"idle", "connect", "prepare", "reuse", "allocate", "bugcheck", "done"}

\* The caller's reference on each of its contexts.
CallerHolds(x) ==
    LET c == x[1]
    IN  IF x[2] = "io"
        THEN kind[c] \in Operations /\ pc[c] \notin NoIoContext
        ELSE \/ pc[c] \in {"rundown", "closeSocket", "closeWait", "releaseClose"}
             \/ /\ pc[c] \in {"freeSend", "clearSend", "freeReceive", "clearReceive", "freed"}
                /\ ctx[x].io # "none"

\* The completion's reference, which the provider will give back.
CompletionHolds(x) == ctx[x].io \in {"idle", "pending", "signalled"}

\* A context has exactly the references of its caller and its completion, on every
\* path of a timeout, a late completion and a refused request: the buffer and the
\* IRP the provider works on are not freed under it, and nothing is leaked
\* (WskSyncReleaseContext).
ReferencesExact ==
    \A x \in CtxIds :
        ctx[x].refs = (IF CallerHolds(x) THEN 1 ELSE 0) + (IF CompletionHolds(x) THEN 1 ELSE 0)

\* The calls that hold rundown protection.
HoldsRundown(c) ==
    /\ kind[c] \in {"send", "receive", "disconnect"}
    /\ pc[c] \in {"submit", "wait", "cancelWait", "handOver", "releaseRundown"}

\* As long as a call holds rundown protection the socket it works on is there and
\* was not given to WskCloseSocket, even when another call times out and closes
\* (CloseOwnedSocket waits for the rundown).
RundownHoldsSocket ==
    \A c \in Calls : HoldsRundown(c) => socket_ # None /\ native[socket_] = "open"

\* An IRP is freed once, never while the provider has it, and the reusable IRPs
\* of the socket are not freed ones.
IrpsOwnedOnce ==
    /\ \A x \in CtxIds : frees[x] <= 1
    /\ \A x \in CtxIds : ctx[x].io = "pending" => frees[ctx[x].irp] = 0
    /\ \A c \in Calls : pc[c] = "reuse" => ReusableIrp(c) # None /\ frees[ReusableIrp(c)] = 0

\* Nothing is lost and nothing is freed twice.  The references of a context are
\* exact.  On a socket that is used by one call at a time, a timeout, its late completion and the close that follows have the IRP
\* one after the other.  A native socket goes to WskCloseSocket once, however many
\* calls time out, close or destroy.  When the socket is destroyed and all is quiet,
\* every IRP was freed, the ones handed over to a late completion included, and every
\* native socket was closed, the one of a connect that completed after its caller had
\* given up included (CloseLateConnectedSocket); only an IRP that cannot be allocated
\* prevents that.
FreedOnce ==
    /\ ReferencesExact
    /\ discipline = "exclusive" =>
        /\ IrpsOwnedOnce
        /\ Quiet /\ Destroyed => \A x \in CtxIds : ctx[x].irp # None => frees[ctx[x].irp] = 1
    /\ \A c \in Calls : closes[c] <= 1
    /\ Quiet /\ Destroyed /\ ~allocFails => \A c \in Calls : native[c] # "open"

\* Every call returns, also when requests hang until they are cancelled and when
\* one call waits in its close for another's request; and every context is freed,
\* so that WskClient::Shutdown can wait for it.  (The calls are finitely many.)
CallsReturn == <>[](Quiet \/ Crashed)
=============================================================================
