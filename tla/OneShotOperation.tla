------------------------- MODULE OneShotOperation --------------------------
(***************************************************************************)
(* What a client may rely on when it sends asynchronously: its operation   *)
(* gets one result, which is not replaced; while the send runs there is    *)
(* none, and after there is one the send does not run (any more), so that  *)
(* the client may free what it sent from; whoever is woken sees that       *)
(* result; and after unloading no send runs.                               *)
(***************************************************************************)
CONSTANT Ops

VARIABLES
    result,    \* of each operation, "pending" until it is decided
    seen,      \* what those who wait for it or are called back read
    sending,   \* operations whose send is running
    unloaded

vars == <<result, seen, sending, unloaded>>

Results == {"success", "failure", "cancelled"}

Init ==
    /\ result = [o \in Ops |-> "pending"]
    /\ seen = [o \in Ops |-> "pending"]
    /\ sending = {}
    /\ unloaded = FALSE

Start(o) ==
    /\ o \notin sending /\ result[o] = "pending" /\ ~unloaded
    /\ sending' = sending \cup {o}
    /\ UNCHANGED <<result, seen, unloaded>>

End(o) ==
    /\ o \in sending
    /\ sending' = sending \ {o}
    /\ UNCHANGED <<result, seen, unloaded>>

Decide(o) ==
    /\ o \notin sending /\ result[o] = "pending"
    /\ \E r \in Results : result' = [result EXCEPT ![o] = r]
    /\ UNCHANGED <<seen, sending, unloaded>>

Publish(o) ==
    /\ result[o] # "pending" /\ seen[o] = "pending"
    /\ seen' = [seen EXCEPT ![o] = result[o]]
    /\ UNCHANGED <<result, sending, unloaded>>

Unload ==
    /\ sending = {} /\ ~unloaded
    /\ unloaded' = TRUE
    /\ UNCHANGED <<result, seen, sending>>

Next == Unload \/ \E o \in Ops : Start(o) \/ End(o) \/ Decide(o) \/ Publish(o)

Spec == Init /\ [][Next]_vars
=============================================================================
