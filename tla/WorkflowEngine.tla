----------------------------- MODULE WorkflowEngine -----------------------------
(***************************************************************************)
(* The step graph interpreter: how an instance moves through the steps of  *)
(* its definition.  It extends JobDelivery with what that module leaves    *)
(* open: current_step_ids, the step executions of the other step types,    *)
(* user tasks, boundary timers and the chaining request.  Every action is  *)
(* an action of JobDelivery together with what the same transaction does   *)
(* to the rest of the instance, so everything shown about JobDelivery      *)
(* holds here.                                                             *)
(*                                                                         *)
(* Variables are not modelled: an expression may match any branch or none, *)
(* and an evaluation may fail.  A timer may become due at any moment.      *)
(***************************************************************************)
EXTENDS JobDelivery, Functions

CONSTANTS
    Node,         \* step ids of the uploaded definitions
    Def,          \* the WorkflowStep of each step id
    First,        \* steps[0] of each definition
    NoStep,       \* an empty nextStep or joinStep
    MaxDispatch,  \* bound: steps entered by one transaction
    MaxRows       \* bound: step executions of an instance, SERVICE_TASK apart

StepType == {"SERVICE_TASK", "USER_TASK", "DECISION", "TRANSFORMATION", "WAIT",
             "PARALLEL_GATEWAY", "JOIN_GATEWAY", "END", "DECISION_TABLE"}

\* chains, on an END step: its definition has autoStartNextWorkflow.
WorkflowStep ==
    [type : StepType, next : Node \cup {NoStep}, cond : Seq(Node), par : Seq(Node),
     join : Node \cup {NoStep}, timers : Seq([target : Node, interrupting : BOOLEAN]),
     chains : BOOLEAN]

ASSUME GraphAssumption ==
    /\ Def \in [Node -> WorkflowStep]
    /\ First \subseteq Node
    /\ NoStep \notin Node
    /\ Step = {n \in Node : Def[n].type = "SERVICE_TASK"}
ASSUME DispatchAssumption == MaxDispatch \in Nat

VARIABLE flow    \* per instance: current steps, other step executions, timers, chain

engineVars == <<vars, flow>>

TaskState == {"NONE", "OPEN", "COMPLETED", "CANCELLED"}
Row   == [step : Node \ Step, status : ExecState, task : TaskState]
Timer == [step : Node, row : Nat, event : Nat, fired : BOOLEAN]
Flow  == [current : SUBSET Node, rows : Seq(Row), timers : SUBSET Timer, chain : BOOLEAN]

--------------------------------------------------------------------------------
(* One transaction works on a context: the instance row as it is in memory, *)
(* the rows written so far, the SERVICE_TASK steps dispatched so far (out)  *)
(* and the stack of steps still to dispatch (work).                         *)

Ctx(i) ==
    [inst |-> i, status |-> instances[i], current |-> flow[i].current,
     rows |-> flow[i].rows, timers |-> flow[i].timers, chain |-> flow[i].chain,
     done |-> {execs[x].step : x \in {y \in DOMAIN execs :
                 execs[y].inst = i /\ execs[y].status = "COMPLETED"}},
     base |-> Len(execs), out |-> <<>>, work |-> <<>>]

CloseRow(row, st) == [row EXCEPT !.status = st]

\* CompleteStepExecutionByStep, FailStepExecutionByStep: every RUNNING row of n.
CloseByStep(c, n, st) ==
    [c EXCEPT !.rows = [k \in DOMAIN c.rows |->
        IF c.rows[k].step = n /\ c.rows[k].status = "RUNNING"
        THEN CloseRow(c.rows[k], st) ELSE c.rows[k]]]

\* CompleteStepExecutionByID of the row dispatchStep has just inserted.
CompleteThis(c) == [c EXCEPT !.rows[Len(c.rows)].status = "COMPLETED"]

RemoveFromCurrentSteps(c, n) == [c EXCEPT !.current = @ \ {n}]

Call(c, ss) == [c EXCEPT !.work = ss \o @]

ScheduleBoundaryEvents(c, n, x) ==
    [c EXCEPT !.timers = @ \cup
        {[step |-> n, row |-> x, event |-> k, fired |-> FALSE] :
            k \in DOMAIN Def[n].timers}]

FailInstance(c, n) == [CloseByStep(c, n, "FAILED") EXCEPT !.status = "FAILED"]

RecomputeInstanceStatus(current) ==
    IF \E n \in current : Def[n].type \in {"USER_TASK", "WAIT"} THEN "WAITING" ELSE "ACTIVE"

--------------------------------------------------------------------------------
(* The handlers: each gives the set of contexts it may end in.              *)

HandleServiceTask(c, n) ==
    {ScheduleBoundaryEvents([c EXCEPT !.out = Append(@, n)], n, c.base + Len(c.out) + 1)}

HandleUserTask(c, n) ==
    {ScheduleBoundaryEvents([c EXCEPT !.rows[Len(c.rows)].task = "OPEN",
                                      !.status = "WAITING"], n, Len(c.rows))}

HandleWait(c, n) ==
    {ScheduleBoundaryEvents([c EXCEPT !.status = "WAITING"], n, Len(c.rows))}

HandleDecision(c, n) ==
    {FailInstance(c, n)} \cup
    {Call(RemoveFromCurrentSteps(CloseByStep(c, n, "COMPLETED"), n), <<t>>) :
        t \in Range(Def[n].cond)}

HandleTransformation(c, n) ==
    {FailInstance(c, n),
     Call(RemoveFromCurrentSteps(CompleteThis(c), n), <<Def[n].next>>)}

HandleDecisionTable(c, n) ==
    {FailInstance(c, n),
     Call(RemoveFromCurrentSteps(CloseByStep(c, n, "COMPLETED"), n), <<Def[n].next>>)}

HandleParallelGateway(c, n) ==
    {Call(RemoveFromCurrentSteps(CloseByStep(c, n, "COMPLETED"), n), Def[n].par)}

FindParallelGatewayFor(n) ==
    {g \in Node : Def[g].type = "PARALLEL_GATEWAY" /\ Def[g].join = n}

BranchLeafsFor(g) == Range(Def[g].par)

CountCompletedBranchLeafs(c, g) ==
    Cardinality({b \in BranchLeafsFor(g) :
        b \in c.done \/ \E k \in DOMAIN c.rows :
            c.rows[k].step = b /\ c.rows[k].status = "COMPLETED"})

\* Broken: the join passes on the last but one branch.
HandleJoinGatewayCompensated(c, n) ==
    {IF CountCompletedBranchLeafs(c, g) + 1 < Len(Def[g].par)
     THEN CompleteThis(c)
     ELSE Call(RemoveFromCurrentSteps(CompleteThis(c), n), <<Def[n].next>>) :
        g \in FindParallelGatewayFor(n)}

\* Broken: the join waits for one branch too many.
HandleJoinGatewayOneMore(c, n) ==
    {IF CountCompletedBranchLeafs(c, g) <= Len(Def[g].par)
     THEN CompleteThis(c)
     ELSE Call(RemoveFromCurrentSteps(CompleteThis(c), n), <<Def[n].next>>) :
        g \in FindParallelGatewayFor(n)}

\* A join without a gateway is an error, which rolls the transaction back.
\* Definitions give a join at most one gateway.
HandleJoinGateway(c, n) ==
    {IF CountCompletedBranchLeafs(c, g) < Len(Def[g].par)
     THEN CompleteThis(c)
     ELSE Call(RemoveFromCurrentSteps(CompleteThis(c), n), <<Def[n].next>>) :
        g \in FindParallelGatewayFor(n)}

HandleEnd(c, n) ==
    {[RemoveFromCurrentSteps(CompleteThis(c), n) EXCEPT
        !.status = "COMPLETED", !.chain = @ \/ Def[n].chains]}

RouteStep(c, n) ==
    CASE Def[n].type = "SERVICE_TASK"     -> HandleServiceTask(c, n)
      [] Def[n].type = "USER_TASK"        -> HandleUserTask(c, n)
      [] Def[n].type = "DECISION"         -> HandleDecision(c, n)
      [] Def[n].type = "TRANSFORMATION"   -> HandleTransformation(c, n)
      [] Def[n].type = "WAIT"             -> HandleWait(c, n)
      [] Def[n].type = "PARALLEL_GATEWAY" -> HandleParallelGateway(c, n)
      [] Def[n].type = "JOIN_GATEWAY"     -> HandleJoinGateway(c, n)
      [] Def[n].type = "END"              -> HandleEnd(c, n)
      [] Def[n].type = "DECISION_TABLE"   -> HandleDecisionTable(c, n)

\* The row of a SERVICE_TASK step is a row of execs, added with its job.
InsertStepExecution(c, n) ==
    IF Def[n].type = "SERVICE_TASK" THEN c
    ELSE [c EXCEPT !.rows = Append(@, [step |-> n, status |-> "RUNNING", task |-> "NONE"])]

DispatchStep(c) ==
    LET n == Head(c.work)
    IN  RouteStep([InsertStepExecution(c, n) EXCEPT
                      !.work = Tail(@), !.current = @ \cup {n}], n)

\* The recursive calls of dispatchStep, run to their end.
Outcomes(c0) ==
    LET Run[k \in 0..MaxDispatch] ==
          IF k = 0 THEN {c0}
          ELSE UNION {IF c.work = <<>> THEN {c} ELSE DispatchStep(c) : c \in Run[k - 1]}
    IN  {c \in Run[MaxDispatch] : c.work = <<>>}

Advanced(c, n) ==
    [RemoveFromCurrentSteps(c, n) EXCEPT
        !.status = RecomputeInstanceStatus(c.current \ {n})]

Targets(n) ==
    IF Def[n].cond # <<>> THEN {<<t>> : t \in Range(Def[n].cond)}
    ELSE IF Def[n].next # NoStep THEN {<<Def[n].next>>}
    ELSE {<<>>}

Matched(c, n) == UNION {Outcomes(Call(Advanced(c, n), ss)) : ss \in Targets(n)}

Unmatched(c, n) ==
    IF Def[n].cond = <<>> THEN {} ELSE {FailInstance(Advanced(c, n), n)}

AdvancePastStep(c, n) == Matched(c, n) \cup Unmatched(c, n)

Commit(r) ==
    /\ r.out \in Dispatches
    /\ r.status \in Outcome
    /\ Len(r.rows) <= MaxRows
    /\ flow' = [flow EXCEPT ![r.inst] = [current |-> r.current, rows |-> r.rows,
                                         timers |-> r.timers, chain |-> r.chain]]

--------------------------------------------------------------------------------
(* Transactions. *)

StartInstance(i, f) ==
    \E r \in Outcomes([Ctx(i) EXCEPT !.status = "ACTIVE", !.current = {f}, !.work = <<f>>]) :
        Start(i, r.out, r.status) /\ Commit(r)

\* CompleteJobAndAdvance has closed the job and its row before it goes on.
AfterJob(j) ==
    LET x == execs[jobs[j].exec]
    IN  [Ctx(x.inst) EXCEPT !.done = @ \cup {x.step}]

\* Without nextStep and branches the step id stays among the current steps.
CompleteJob(j, w) ==
    LET x == execs[jobs[j].exec]
        n == x.step
    IN  IF Def[n].next = NoStep /\ Def[n].cond = <<>>
        THEN CompleteJobAndAdvance(j, w, <<>>, instances[x.inst]) /\ UNCHANGED flow
        ELSE \/ \E r \in Matched(AfterJob(j), n) :
                    CompleteJobAndAdvance(j, w, r.out, r.status) /\ Commit(r)
             \/ \E r \in Unmatched(AfterJob(j), n) :
                    CompleteJobNoBranch(j, w) /\ Commit(r)

OpenTasks(i, n) ==
    {k \in DOMAIN flow[i].rows : flow[i].rows[k].step = n /\ flow[i].rows[k].task = "OPEN"}

\* Close every OPEN task and RUNNING row of user task n, then go on.
AfterUserTask(i, n) ==
    LET c == [Ctx(i) EXCEPT !.rows = [k \in DOMAIN @ |->
                 IF k \in OpenTasks(i, n) THEN [flow[i].rows[k] EXCEPT !.task = "COMPLETED"]
                 ELSE flow[i].rows[k]]]
    IN  CloseByStep(c, n, "COMPLETED")

CompleteUserTaskAndAdvance(i, n) ==
    /\ Def[n].type = "USER_TASK"
    /\ OpenTasks(i, n) # {}
    /\ \E r \in AdvancePastStep(AfterUserTask(i, n), n) :
          Resume(i, r.out, r.status) /\ Commit(r)

RunningRows(i, n) ==
    {k \in DOMAIN flow[i].rows : flow[i].rows[k].step = n /\ flow[i].rows[k].status = "RUNNING"}

SignalWaitAndAdvance(i, n) ==
    /\ Def[n].type = "WAIT"
    /\ n \in flow[i].current
    /\ RunningRows(i, n) # {}
    /\ \E r \in AdvancePastStep(CloseByStep(Ctx(i), n, "COMPLETED"), n) :
          Resume(i, r.out, r.status) /\ Commit(r)

--------------------------------------------------------------------------------
(* Boundary timers.  The sweeper's list is only a hint: FireBoundaryEvent    *)
(* reads everything again under the instance lock, so any replica may fire   *)
(* any pending timer at any time.                                            *)

SourceRunning(i, t) ==
    IF t.step \in Step THEN t.row \in DOMAIN execs /\ execs[t.row].status = "RUNNING"
    ELSE flow[i].rows[t.row].status = "RUNNING"

\* Broken: the claimed timer is not marked as fired.
ClaimDueBoundaryEventUnmarked(c, t) == c

ClaimDueBoundaryEvent(c, t) ==
    [c EXCEPT !.timers = (@ \ {t}) \cup {[t EXCEPT !.fired = TRUE]}]

Event(t) == Def[t.step].timers[t.event]

\* Broken: a timer is consumed without effect although its step runs.
FireSuppressedUnchecked(i, t) ==
    /\ ~t.fired
    /\ flow' = [flow EXCEPT ![i].timers = ClaimDueBoundaryEvent(Ctx(i), t).timers]
    /\ UNCHANGED vars

\* Consumed without effect: the instance is terminal or the step has left RUNNING.
FireSuppressed(i, t) ==
    /\ ~t.fired
    /\ instances[i] \notin LiveInstance \/ ~SourceRunning(i, t)
    /\ flow' = [flow EXCEPT ![i].timers = ClaimDueBoundaryEvent(Ctx(i), t).timers]
    /\ UNCHANGED vars

FireNonInterrupting(i, t) ==
    /\ ~t.fired
    /\ SourceRunning(i, t)
    /\ ~Event(t).interrupting
    /\ \E r \in Outcomes(Call(ClaimDueBoundaryEvent(Ctx(i), t), <<Event(t).target>>)) :
          Resume(i, r.out, r.status) /\ Commit(r)

\* FailStepExecutionByID, CancelUserTaskByStepExecution (CancelJobByStepExecution
\* is part of Interrupt), then the target is dispatched.
AfterInterrupt(i, t) ==
    LET c == RemoveFromCurrentSteps(ClaimDueBoundaryEvent(Ctx(i), t), t.step)
    IN  IF t.step \in Step THEN c
        ELSE [c EXCEPT !.rows[t.row].status = "FAILED",
                       !.rows[t.row].task = IF @ = "OPEN" THEN "CANCELLED" ELSE @]

FireInterrupting(i, t) ==
    /\ ~t.fired
    /\ SourceRunning(i, t)
    /\ Event(t).interrupting
    /\ \E r \in Outcomes(Call(AfterInterrupt(i, t), <<Event(t).target>>)) :
          /\ IF t.step \in Step THEN Interrupt(t.row, r.out, r.status)
             ELSE Resume(i, r.out, r.status)
          /\ Commit(r)

\* Rows of timers whose step has left RUNNING go at once, fired ones after a
\* retention time.
Housekeep(expiredToo) ==
    LET Kept(i) == {t \in flow[i].timers :
                       IF t.fired THEN ~expiredToo ELSE SourceRunning(i, t)}
    IN  /\ \E i \in Instance : Kept(i) # flow[i].timers
        /\ flow' = [i \in Instance |-> [flow[i] EXCEPT !.timers = Kept(i)]]
        /\ UNCHANGED vars

--------------------------------------------------------------------------------
(* Manual retry: the instance is ACTIVE again and the step is dispatched.    *)

Reactivated(i, n) == [Ctx(i) EXCEPT !.status = "ACTIVE", !.work = <<n>>]

RetryServiceTask(x) ==
    \E r \in Outcomes(Reactivated(execs[x].inst, execs[x].step)) :
        RetryFailedStep(x) /\ Commit(r)

LatestFailed(i, n) ==
    \E k \in DOMAIN flow[i].rows :
        /\ flow[i].rows[k].step = n
        /\ flow[i].rows[k].status = "FAILED"
        /\ \A m \in DOMAIN flow[i].rows : flow[i].rows[m].step = n => m <= k

RetryStep(i, n) ==
    /\ LatestFailed(i, n)
    /\ \E r \in Outcomes(Reactivated(i, n)) :
          RetryOtherStep(i, r.out, r.status) /\ Commit(r)

--------------------------------------------------------------------------------
EngineInit ==
    /\ Init
    /\ flow = [i \in Instance |->
                 [current |-> {}, rows |-> <<>>, timers |-> {}, chain |-> FALSE]]

\* The steps of JobDelivery that leave the rest of the instance alone.
DeliveryStep ==
    /\ \/ \E i \in Instance : Cancel(i)
       \/ \E w \in Worker, S \in SUBSET (DOMAIN jobs), s \in LeaseLength : PollJobs(w, S, s)
       \/ \E j \in DOMAIN jobs, w \in Worker :
             \/ \E s \in LeaseLength : ExtendJobLease(j, w, s)
             \/ CompleteJobRejected(j, w)
             \/ FailJobRetry(j, w)
             \/ FailJobFinal(j, w)
       \/ SweeperStep
       \/ Tick
    /\ UNCHANGED flow

GraphStep ==
    \/ \E i \in Instance, f \in First : StartInstance(i, f)
    \/ \E j \in DOMAIN jobs, w \in Worker : CompleteJob(j, w)
    \/ \E i \in Instance, n \in Node :
          \/ CompleteUserTaskAndAdvance(i, n)
          \/ SignalWaitAndAdvance(i, n)
          \/ RetryStep(i, n)
    \/ \E x \in DOMAIN execs : RetryServiceTask(x)

TimerStep ==
    \/ \E i \in Instance : \E t \in flow[i].timers :
          FireSuppressed(i, t) \/ FireNonInterrupting(i, t) \/ FireInterrupting(i, t)
    \/ \E expiredToo \in BOOLEAN : Housekeep(expiredToo)

EngineNext == DeliveryStep \/ GraphStep \/ TimerStep

EngineSpec == EngineInit /\ [][EngineNext]_engineVars

--------------------------------------------------------------------------------
(* What the properties are stated with. *)

ExecsOf(i, n) == {x \in DOMAIN execs : execs[x].inst = i /\ execs[x].step = n}
RowsOf(i, n)  == {k \in DOMAIN flow[i].rows : flow[i].rows[k].step = n}

Running(i, n) ==
    \/ \E x \in ExecsOf(i, n) : execs[x].status = "RUNNING"
    \/ RunningRows(i, n) # {}

Entered(i, n) == Cardinality(ExecsOf(i, n)) + Cardinality(RowsOf(i, n))

\* Entries that did not end in a failure a manual retry may have repeated.
EnteredForGood(i, n) ==
    Cardinality({x \in ExecsOf(i, n) : execs[x].status # "FAILED"}) +
    Cardinality({k \in RowsOf(i, n) : flow[i].rows[k].status # "FAILED"})

Successors(n) == (Range(Def[n].cond) \cup Range(Def[n].par) \cup {Def[n].next}) \ {NoStep}

\* The steps between a gateway and its join.
BranchSteps(g) ==
    LET Reach[k \in 0..Cardinality(Node)] ==
          IF k = 0 THEN Range(Def[g].par) \ {Def[g].join}
          ELSE LET R == Reach[k - 1]
               IN  R \cup (UNION {Successors(n) : n \in R} \ {Def[g].join})
    IN  Reach[Cardinality(Node)]

Gateways == {g \in Node : Def[g].type = "PARALLEL_GATEWAY"}

--------------------------------------------------------------------------------
(* Invariants. *)

\* Every row has the shape of its table and refers to an existing row.
EngineTypeOK ==
    /\ flow \in [Instance -> Flow]
    /\ \A i \in Instance : \A t \in flow[i].timers :
          /\ t.event \in DOMAIN Def[t.step].timers
          /\ t.row \in IF t.step \in Step THEN ExecsOf(i, t.step) ELSE RowsOf(i, t.step)

\* A join passes only when every branch of its gateway has come to it: once the
\* step after the join has been entered no step of a branch is open
\* (handleJoinGateway counts completed branches).
JoinWaitsForAllBranches ==
    \A i \in Instance, g \in Gateways :
        Entered(i, Def[Def[g].join].next) > 0 =>
            \A n \in BranchSteps(g) : ~Running(i, n)

\* A join passes once for each passage of its gateway, whatever the order in
\* which callbacks, tasks, failures and manual retries end the branches.
JoinPassesOnce ==
    \A i \in Instance, g \in Gateways :
        EnteredForGood(i, Def[Def[g].join].next) <= EnteredForGood(i, g)

\* An instance in flight can go on: some step of it is open, that is, waits for
\* a worker, a user or a signal.  No order of events leaves it stranded.
LiveInstanceHasWork ==
    \A i \in Instance : instances[i] \in LiveInstance => \E n \in Node : Running(i, n)

\* Every open step of an instance in flight is among its current_step_ids; an
\* open WAIT step can therefore be signalled, which SignalWait refuses for a
\* step that is not there.
OpenStepsAreCurrent ==
    \A i \in Instance, n \in Node :
        instances[i] \in LiveInstance /\ Running(i, n) => n \in flow[i].current

\* A user task is OPEN exactly as long as its step execution is RUNNING, so the
\* task list offers no task that cannot be completed and misses none.
OpenTaskMirrorsStep ==
    \A i \in Instance : \A k \in DOMAIN flow[i].rows :
        LET row == flow[i].rows[k]
        IN  row.task = "OPEN" <=> Def[row.step].type = "USER_TASK" /\ row.status = "RUNNING"

\* A child workflow is requested only by an instance that completed, and by
\* every one that completed through an END step that chains.
ChainFollowsCompletion ==
    \A i \in Instance :
        flow[i].chain <=> /\ instances[i] = "COMPLETED"
                          /\ \E n \in Node : Def[n].chains /\ Entered(i, n) > 0

\* A target that only a timer leads to is entered at most once for each
\* execution of the step the timer is attached to, however often and by how
\* many replicas the timer is processed (ClaimDueBoundaryEvent).
TimerTargetEnteredOnce ==
    \A i \in Instance, n \in Node : \A e \in DOMAIN Def[n].timers :
        LET t == Def[n].timers[e].target
        IN  (\A m \in Node : t \notin Successors(m)) => EnteredForGood(i, t) <= Entered(i, n)

\* What the tables say of an instance agrees: rows refer to existing rows, open
\* steps are current steps, tasks mirror their step executions, joins pass and
\* timer targets are entered no more often than what leads to them, and a chain
\* request stands for a completion.
RecordsAgree ==
    /\ EngineTypeOK
    /\ OpenStepsAreCurrent /\ OpenTaskMirrorsStep
    /\ JoinPassesOnce /\ TimerTargetEnteredOnce
    /\ ChainFollowsCompletion

--------------------------------------------------------------------------------
(* Action properties. *)

\* Consumption of a timer and dispatch of its target commit together
\* (docs/workflow-format.md, "Boundary Events"): a pending timer of an open step
\* of an instance in flight is kept, by the housekeeper too, until a step that
\* enters its target; that step ends the open one exactly if the timer is
\* interrupting.
TimerIsNotLost ==
    [][\A i \in Instance : \A t \in flow[i].timers :
         (~t.fired /\ instances[i] \in LiveInstance /\ SourceRunning(i, t)) =>
            \/ t \in flow'[i].timers
            \/ /\ Entered(i, Event(t).target)' > Entered(i, Event(t).target)
               /\ Event(t).interrupting <=> ~SourceRunning(i, t)']_engineVars

================================================================================
