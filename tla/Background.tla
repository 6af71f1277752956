------------------------------- MODULE Background -------------------------------
(***************************************************************************)
(* The background work of the engine's replicas: the outbox relay and the  *)
(* worker that delivers chained starts.  The two loops share no row, no    *)
(* lock and no variable of the process, so a behaviour is that of one of   *)
(* them, which Init chooses, with the other at rest.                       *)
(***************************************************************************)
EXTENDS OutboxRelay, WorkflowChain

VARIABLE part

backgroundVars == <<part, vars, chainVars>>

BackgroundInit == Init /\ ChainInit /\ part \in {"relay", "chain"}

BackgroundNext ==
    \/ part = "relay" /\ Next /\ UNCHANGED <<part, chainVars>>
    \/ part = "chain" /\ ChainNext /\ UNCHANGED <<part, vars>>

\* The fairness of FairSpec and of ChainFairSpec, for the part that runs.
BackgroundFairness ==
    /\ \A r \in Replica :
        /\ WF_backgroundVars(part = "relay" /\ ElectionStep(r) /\ UNCHANGED <<part, chainVars>>)
        /\ WF_backgroundVars(part = "relay" /\ RelayStep(r) /\ UNCHANGED <<part, chainVars>>)
    /\ \A r \in Process :
        WF_backgroundVars(part = "chain" /\ WorkerStep(r) /\ UNCHANGED <<part, vars>>)

BackgroundSpec == BackgroundInit /\ [][BackgroundNext]_backgroundVars /\ BackgroundFairness
================================================================================
