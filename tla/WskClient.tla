------------------------------ MODULE WskClient ------------------------------
(***************************************************************************)
(* WskClient::Initialize and Shutdown, and the count of outstanding IRP    *)
(* contexts that Shutdown waits for (net/WskClient.cpp).  The count and    *)
(* the event are two variables: whoever brings the count to one clears the *)
(* event, whoever brings it to zero sets it, each in a step of its own.    *)
(***************************************************************************)
EXTENDS Naturals, FiniteSets

CONSTANT Threads     \* what allocates and releases contexts: callers, completions

VARIABLES
    registered_, providerCaptured_,
    count,       \* g_wskOutstandingContextCount
    event,       \* g_wskOutstandingContextEvent
    pc,          \* each thread: "idle", "clearing", "holding" or "setting"
    client       \* where Initialize or Shutdown is

vars == <<registered_, providerCaptured_, count, event, pc, client>>

Init ==
    /\ registered_ = FALSE
    /\ providerCaptured_ = FALSE
    /\ count = 0
    /\ event = TRUE
    /\ pc = [t \in Threads |-> "idle"]
    /\ client = "out"

Goto(t, p) == pc' = [pc EXCEPT ![t] = p]

-----------------------------------------------------------------------------
\* Initialize registers with WSK; a failure leaves nothing behind.
Register ==
    /\ client = "out"
    /\ registered_' = TRUE
    /\ client' = "capturing"
    /\ UNCHANGED <<providerCaptured_, count, event, pc>>

\* It captures the provider, or shuts down again.
CaptureProvider ==
    /\ client = "capturing"
    /\ \/ providerCaptured_' = TRUE /\ client' = "in"
       \/ client' = "draining" /\ UNCHANGED providerCaptured_
    /\ UNCHANGED <<registered_, count, event, pc>>

\* WskSyncTrackContextAllocated.  Contexts are allocated by users of the client,
\* which its owner has stopped before it shuts down.
TrackContextAllocated(t) ==
    /\ client = "in"
    /\ pc[t] = "idle"
    /\ count' = count + 1
    /\ Goto(t, IF count = 0 THEN "clearing" ELSE "holding")
    /\ UNCHANGED <<registered_, providerCaptured_, event, client>>

ClearEvent(t) ==
    /\ pc[t] = "clearing"
    /\ event' = FALSE
    /\ Goto(t, "holding")
    /\ UNCHANGED <<registered_, providerCaptured_, count, client>>

\* Mutant: the event is set by whoever leaves one context behind.
TrackReleasedEarly(t) ==
    /\ pc[t] = "holding"
    /\ count' = count - 1
    /\ Goto(t, IF count = 2 THEN "setting" ELSE "idle")
    /\ UNCHANGED <<registered_, providerCaptured_, event, client>>

\* WskSyncTrackContextReleased.
TrackContextReleased(t) ==
    /\ pc[t] = "holding"
    /\ count' = count - 1
    /\ Goto(t, IF count = 1 THEN "setting" ELSE "idle")
    /\ UNCHANGED <<registered_, providerCaptured_, event, client>>

SetEvent(t) ==
    /\ pc[t] = "setting"
    /\ event' = TRUE
    /\ Goto(t, "idle")
    /\ UNCHANGED <<registered_, providerCaptured_, count, client>>

-----------------------------------------------------------------------------
\* Shutdown of an initialised client, called when no user is inside a call: the
\* contexts that are left belong to completions.
Shutdown ==
    /\ client = "in"
    /\ \A t \in Threads : pc[t] # "clearing"
    /\ client' = "draining"
    /\ UNCHANGED <<registered_, providerCaptured_, count, event, pc>>

\* WskSyncWaitForOutstandingContexts: nothing to wait for ...
DrainNothing ==
    /\ client = "draining"
    /\ client' = IF count = 0 THEN "leaving" ELSE "waiting"
    /\ UNCHANGED <<registered_, providerCaptured_, count, event, pc>>

\* ... or the event ...
DrainEnds ==
    /\ client = "waiting"
    /\ event
    /\ client' = "leaving"
    /\ UNCHANGED <<registered_, providerCaptured_, count, event, pc>>

\* ... or the timeout, which is only logged.
DrainTimesOut ==
    /\ client = "waiting"
    /\ ~event
    /\ client' = "leavingLate"
    /\ UNCHANGED <<registered_, providerCaptured_, count, event, pc>>

\* WskReleaseProviderNPI and WskDeregister.
Deregister ==
    /\ client \in {"leaving", "leavingLate"}
    /\ registered_' = FALSE
    /\ providerCaptured_' = FALSE
    /\ client' = "out"
    /\ UNCHANGED <<count, event, pc>>

Next ==
    \/ Register \/ CaptureProvider \/ Shutdown
    \/ DrainNothing \/ DrainEnds \/ DrainTimesOut \/ Deregister
    \/ \E t \in Threads :
         \/ TrackContextAllocated(t) \/ ClearEvent(t)
         \/ TrackContextReleased(t) \/ SetEvent(t)

Spec == Init /\ [][Next]_vars

-----------------------------------------------------------------------------
TypeOK ==
    /\ registered_ \in BOOLEAN
    /\ providerCaptured_ \in BOOLEAN
    /\ count \in 0..Cardinality(Threads)
    /\ event \in BOOLEAN
    /\ pc \in [Threads -> {"idle", "clearing", "holding", "setting"}]
    /\ client \in {"out", "capturing", "in", "draining", "waiting", "leaving", "leavingLate"}

Holders == {t \in Threads : pc[t] \in {"clearing", "holding"}}

\* No wake-up is lost: when no context is outstanding, the event is set or a
\* thread is about to set it, so that a Shutdown that saw a context and waits is
\* not left to its timeout (WskSyncTrackContextReleased).
EmptyIsSignalled == Holders = {} => event \/ \E t \in Threads : pc[t] = "setting"
=============================================================================
