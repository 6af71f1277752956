---------------------------- MODULE MCWorkflowEngine ----------------------------
(* Small workflow definitions for TLC.  Order and Escalation follow the shapes *)
(* of the examples in docs/workflow-format.md.                                 *)
EXTENDS WorkflowEngine

CONSTANTS i1, w1, r1

Plain(type, next) ==
    [type |-> type, next |-> next, cond |-> <<>>, par |-> <<>>, join |-> NoStep,
     timers |-> <<>>, chains |-> FALSE]
Branching(type, cond) == [Plain(type, NoStep) EXCEPT !.cond = cond]
Parallel(par, join)   == [Plain("PARALLEL_GATEWAY", NoStep) EXCEPT !.par = par, !.join = join]
Timed(step, timers)   == [step EXCEPT !.timers = timers]
Interrupting(t)       == [target |-> t, interrupting |-> TRUE]
NonInterrupting(t)    == [target |-> t, interrupting |-> FALSE]
End                   == Plain("END", NoStep)
ChainingEnd           == [End EXCEPT !.chains = TRUE]

\* Two parallel branches of one step, a join, automatic steps, a timed wait.
Order ==
    [split   |-> Parallel(<<"charge", "approve">>, "merge"),
     charge  |-> Plain("SERVICE_TASK", "merge"),
     approve |-> Plain("USER_TASK", "merge"),
     merge   |-> Plain("JOIN_GATEWAY", "price"),
     price   |-> Plain("TRANSFORMATION", "route"),
     route   |-> Branching("DECISION", <<"hold", "ship">>),
     hold    |-> Timed(Plain("WAIT", "ship"), <<Interrupting("ship")>>),
     ship    |-> ChainingEnd]

\* A task, prepared by automatic steps, with a reminder and an escalation.
Escalation ==
    [collect  |-> Plain("TRANSFORMATION", "score"),
     score    |-> Plain("DECISION_TABLE", "enrich"),
     enrich   |-> Plain("TRANSFORMATION", "rank"),
     rank     |-> Plain("DECISION_TABLE", "trim"),
     trim     |-> Plain("TRANSFORMATION", "triage"),
     triage   |-> Branching("DECISION", <<"review">>),
     review   |-> Timed(Branching("USER_TASK", <<"close">>),
                        <<NonInterrupting("remind"), Interrupting("escalate")>>),
     remind   |-> Plain("SERVICE_TASK", NoStep),
     escalate |-> Timed(Branching("SERVICE_TASK", <<"close">>),
                        <<Interrupting("close")>>),
     close    |-> End]

\* A parallel branch of two steps.
LongBranch ==
    [split   |-> Parallel(<<"charge", "pick">>, "merge"),
     charge  |-> Plain("SERVICE_TASK", "merge"),
     pick    |-> Plain("SERVICE_TASK", "pack"),
     pack    |-> Plain("SERVICE_TASK", "merge"),
     merge   |-> Plain("JOIN_GATEWAY", "ship"),
     ship    |-> End]

\* Both workflows; First says where an instance of each begins.
OrderAndEscalation ==
    [n \in DOMAIN Order \cup DOMAIN Escalation |-> IF n \in DOMAIN Order THEN Order[n] ELSE Escalation[n]]

OrderAndEscalationSteps == DOMAIN OrderAndEscalation
LongBranchSteps == DOMAIN LongBranch

ServiceSteps == {n \in Node : Def[n].type = "SERVICE_TASK"}
Retries == [s \in Step |-> IF s = "charge" THEN 1 ELSE 0]
================================================================================
