-------------------------------- MODULE MCWsk --------------------------------
(***************************************************************************)
(* A socket and the client's count of contexts for TLC.  The count does    *)
(* not depend on what the contexts are for, so either the socket's calls   *)
(* run or the client does.                                                 *)
(***************************************************************************)
EXTENDS WskSocket, FiniteSets

CONSTANT Threads

ASSUME ThreadsAssumption == IsFiniteSet(Threads)

VARIABLES registered_, providerCaptured_, count, event, clientPc, client

Client == INSTANCE WskClient WITH pc <- clientPc

clientVars == <<registered_, providerCaptured_, count, event, clientPc, client>>

MCInit == Init /\ Client!Init

MCNext ==
    \/ Client!Init /\ Next /\ UNCHANGED clientVars
    \/ Client!Next /\ Running = {} /\ Contexts = {} /\ pc[1] = "idle" /\ UNCHANGED vars

MCSpec ==
    /\ MCInit /\ [][MCNext]_<<vars, clientVars>>
    /\ Fairness

\* No wake-up is lost: when no context is outstanding, the event that
\* WskClient::Shutdown waits for is set or a thread is about to set it.
EmptyIsSignalled == Client!EmptyIsSignalled
=============================================================================
