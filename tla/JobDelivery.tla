------------------------------ MODULE JobDelivery ------------------------------
(***************************************************************************)
(* Delivery of SERVICE_TASK work to external workers: the job table, the   *)
(* step executions the jobs belong to, the instance status that gates      *)
(* them, and the lease sweeper.  Each database transaction of the engine   *)
(* locks the instance row and then the job row, so it is one action here.  *)
(*                                                                         *)
(* A job row is one delivery attempt of a step execution.  It is taken by  *)
(* a poll (UNLOCKED to LOCKED, under a lease) or handed out by Kafka while *)
(* it stays UNLOCKED.  Any worker may call back for any job at any time:   *)
(* this covers late, repeated, reordered and lost callbacks.  What a step  *)
(* leads to is not this module's business: an advance dispatches any short *)
(* sequence of SERVICE_TASK steps and leaves the instance in any status.   *)
(***************************************************************************)
EXTENDS Integers, FiniteSets, Sequences

CONSTANTS
    Instance,      \* workflow instances that can be started
    Step,          \* SERVICE_TASK steps of their definitions
    RetryCount,    \* retryCount of each step
    Worker,        \* worker ids used by callers
    Replica,       \* engine processes running a lease sweeper
    NoOne,         \* no worker, no lock holder
    LeaseLength,   \* lease lengths a worker may ask for, in clock ticks
    MaxFanOut,     \* bound: SERVICE_TASK steps dispatched by one transaction
    MaxExecs,      \* bound: step executions ever created
    MaxJobs,       \* bound: jobs ever created
    MaxFaults      \* bound: sweeper crashes, lost sessions and failed sweeps

ASSUME RetryAssumption  == RetryCount \in [Step -> Nat]
ASSUME LeaseAssumption  == LeaseLength \subseteq Nat \ {0}
ASSUME NoOneAssumption  == NoOne \notin Worker \cup Replica
ASSUME BoundsAssumption == MaxFanOut \in Nat \ {0} /\ MaxFaults \in Nat

VARIABLES
    instances,   \* workflow_instance.status, "NONE" before the row exists
    execs,       \* step_execution rows of SERVICE_TASK steps, oldest first
    jobs,        \* job rows, oldest first; a job's id is its position
    gate,        \* holder of the lease sweeper's advisory lock
    expired,     \* per replica, what is left of the sweep's candidate list
    faults       \* sweeper faults so far

vars == <<instances, execs, jobs, gate, expired, faults>>
sweeper == <<gate, expired, faults>>

LiveInstance  == {"ACTIVE", "WAITING"}
InstanceState == {"NONE", "ACTIVE", "WAITING", "COMPLETED", "FAILED", "CANCELLED"}
ExecState     == {"RUNNING", "COMPLETED", "FAILED"}
LiveJob       == {"UNLOCKED", "LOCKED"}
JobState      == {"UNLOCKED", "LOCKED", "COMPLETED", "FAILED", "CANCELLED"}

StepExecution == [inst : Instance, step : Step, status : ExecState]

\* lease is lock_expires_at minus the database clock, frozen at -1 once past.
Job == [exec : Nat, status : JobState, worker : Worker \cup {NoOne},
        lease : Int, retries : Nat]

--------------------------------------------------------------------------------
(* What a callback, a heartbeat and the sweeper read under the row locks.  *)

LeaseValid(j) == jobs[j].lease > 0

Active(j) ==
    LET x == execs[jobs[j].exec]
    IN  instances[x.inst] \in LiveInstance /\ x.status = "RUNNING"

AcceptsCallback(j, w) ==
    /\ Active(j)
    /\ \/ jobs[j].status = "UNLOCKED"
       \/ jobs[j].status = "LOCKED" /\ jobs[j].worker = w /\ LeaseValid(j)

(* Updates of the tables. *)

NewExec(i, s) == [inst |-> i, step |-> s, status |-> "RUNNING"]

NewJob(x, r) ==
    [exec |-> x, status |-> "UNLOCKED", worker |-> NoOne, lease |-> 0, retries |-> r]

Retire(j, w, st) ==
    [jobs EXCEPT ![j].status = st, ![j].worker = w, ![j].lease = 0]

CancelJobByStepExecution(x) ==
    [j \in DOMAIN jobs |->
        IF jobs[j].exec = x /\ jobs[j].status \in LiveJob
        THEN [jobs[j] EXCEPT !.status = "CANCELLED", !.lease = 0]
        ELSE jobs[j]]

(* dispatchStep on each of ss, from the tables es and js: a RUNNING row and *)
(* an UNLOCKED job with the full retry budget for every one of them.        *)
DispatchSteps(i, ss, es, js) ==
    /\ Len(es) + Len(ss) <= MaxExecs
    /\ Len(js) + Len(ss) <= MaxJobs
    /\ execs' = es \o [n \in 1..Len(ss) |-> NewExec(i, ss[n])]
    /\ jobs' = js \o [n \in 1..Len(ss) |-> NewJob(Len(es) + n, RetryCount[ss[n]])]

(* The sequences of SERVICE_TASK steps one transaction may dispatch, and    *)
(* the statuses its handlers may leave behind.                              *)
Dispatches == UNION {[1..n -> Step] : n \in 0..MaxFanOut}
Outcome    == {"ACTIVE", "WAITING", "COMPLETED", "FAILED"}

(* A replacement attempt for the same step execution, after job j.          *)
EnqueueReplacement(js, j, r) ==
    /\ Len(js) < MaxJobs
    /\ jobs' = Append(js, NewJob(jobs[j].exec, r))

--------------------------------------------------------------------------------
(* Instance operations. *)

Start(i, ss, st) ==
    /\ instances[i] = "NONE"
    /\ instances' = [instances EXCEPT ![i] = st]
    /\ DispatchSteps(i, ss, execs, jobs)
    /\ UNCHANGED sweeper

Cancel(i) ==
    /\ instances[i] \in LiveInstance
    /\ instances' = [instances EXCEPT ![i] = "CANCELLED"]
    /\ UNCHANGED <<execs, jobs, sweeper>>

\* A completed user task, a signalled wait or a non-interrupting timer: the
\* instance goes on without touching an open SERVICE_TASK step.
Resume(i, ss, st) ==
    /\ instances[i] \in LiveInstance
    /\ instances' = [instances EXCEPT ![i] = st]
    /\ DispatchSteps(i, ss, execs, jobs)
    /\ UNCHANGED sweeper

\* An interrupting boundary timer on a running SERVICE_TASK step.
Interrupt(x, ss, st) ==
    LET i == execs[x].inst
    IN  /\ instances[i] \in LiveInstance
        /\ execs[x].status = "RUNNING"
        /\ instances' = [instances EXCEPT ![i] = st]
        /\ DispatchSteps(i, ss, [execs EXCEPT ![x].status = "FAILED"],
                         CancelJobByStepExecution(x))
        /\ UNCHANGED sweeper

\* Manual retry of a SERVICE_TASK step whose latest execution FAILED.
RetryFailedStep(x) ==
    LET i == execs[x].inst
    IN  /\ instances[i] = "FAILED"
        /\ execs[x].status = "FAILED"
        /\ \A y \in DOMAIN execs :
              execs[y].inst = i /\ execs[y].step = execs[x].step => y <= x
        /\ instances' = [instances EXCEPT ![i] = "ACTIVE"]
        /\ DispatchSteps(i, <<execs[x].step>>, execs, jobs)
        /\ UNCHANGED sweeper

\* Manual retry of a step of another type, which may lead on from there.
RetryOtherStep(i, ss, st) ==
    /\ instances[i] = "FAILED"
    /\ instances' = [instances EXCEPT ![i] = st]
    /\ DispatchSteps(i, ss, execs, jobs)
    /\ UNCHANGED sweeper

--------------------------------------------------------------------------------
(* Worker operations. *)

\* Broken: a poll also takes jobs that are locked.
PollJobsAlreadyLocked(w, S, s) ==
    /\ S # {} /\ \A j \in S : jobs[j].status \in LiveJob
    /\ jobs' = [j \in DOMAIN jobs |->
                  IF j \in S
                  THEN [jobs[j] EXCEPT !.status = "LOCKED", !.worker = w, !.lease = s]
                  ELSE jobs[j]]
    /\ UNCHANGED <<instances, execs, sweeper>>

\* SKIP LOCKED claim of a batch of UNLOCKED jobs; the instance is not read.
PollJobs(w, S, s) ==
    /\ S # {}
    /\ \A j \in S : jobs[j].status = "UNLOCKED"
    /\ jobs' = [j \in DOMAIN jobs |->
                  IF j \in S
                  THEN [jobs[j] EXCEPT !.status = "LOCKED", !.worker = w, !.lease = s]
                  ELSE jobs[j]]
    /\ UNCHANGED <<instances, execs, sweeper>>

ExtendJobLease(j, w, s) ==
    /\ Active(j)
    /\ jobs[j].status = "LOCKED"
    /\ jobs[j].worker = w
    /\ LeaseValid(j)
    /\ jobs' = [jobs EXCEPT ![j].lease = IF s > @ THEN s ELSE @]
    /\ UNCHANGED <<instances, execs, sweeper>>

CompleteJobAndAdvance(j, w, ss, st) ==
    LET x == jobs[j].exec
        i == execs[x].inst
    IN  /\ AcceptsCallback(j, w)
        /\ instances' = [instances EXCEPT ![i] = st]
        /\ DispatchSteps(i, ss, [execs EXCEPT ![x].status = "COMPLETED"],
                         Retire(j, w, "COMPLETED"))
        /\ UNCHANGED sweeper

\* The outputs schema rejects what the worker sent.
CompleteJobRejected(j, w) ==
    LET x == jobs[j].exec
    IN  /\ AcceptsCallback(j, w)
        /\ jobs' = CancelJobByStepExecution(x)
        /\ execs' = [execs EXCEPT ![x].status = "FAILED"]
        /\ instances' = [instances EXCEPT ![execs[x].inst] = "FAILED"]
        /\ UNCHANGED sweeper

\* No conditional branch of the completed step matches: failInstance also
\* fails every RUNNING row the instance has for the same step.
CompleteJobNoBranch(j, w) ==
    LET x == jobs[j].exec
        i == execs[x].inst
        Sibling(y) == /\ execs[y].inst = i
                      /\ execs[y].step = execs[x].step
                      /\ execs[y].status = "RUNNING"
    IN  /\ AcceptsCallback(j, w)
        /\ jobs' = Retire(j, w, "COMPLETED")
        /\ execs' = [y \in DOMAIN execs |->
                       IF y = x THEN [execs[y] EXCEPT !.status = "COMPLETED"]
                       ELSE IF Sibling(y) THEN [execs[y] EXCEPT !.status = "FAILED"]
                       ELSE execs[y]]
        /\ instances' = [instances EXCEPT ![i] = "FAILED"]
        /\ UNCHANGED sweeper

FailJobRetry(j, w) ==
    /\ AcceptsCallback(j, w)
    /\ jobs[j].retries > 0
    /\ EnqueueReplacement(Retire(j, w, "FAILED"), j, jobs[j].retries - 1)
    /\ UNCHANGED <<instances, execs, sweeper>>

\* Not retryable, or no retries left.
FailJobFinal(j, w) ==
    LET x == jobs[j].exec
    IN  /\ AcceptsCallback(j, w)
        /\ jobs' = Retire(j, w, "FAILED")
        /\ execs' = [execs EXCEPT ![x].status = "FAILED"]
        /\ instances' = [instances EXCEPT ![execs[x].inst] = "FAILED"]
        /\ UNCHANGED sweeper

--------------------------------------------------------------------------------
(* The lease sweeper of each replica. *)

ExpiredLeases == {j \in DOMAIN jobs : jobs[j].status = "LOCKED" /\ jobs[j].lease < 0}

\* Take the advisory lock and list the candidates.  An empty list is a no-op.
SweepList(r) ==
    /\ gate = NoOne
    /\ expired[r] = {}
    /\ ExpiredLeases # {}
    /\ gate' = r
    /\ expired' = [expired EXCEPT ![r] = ExpiredLeases]
    /\ UNCHANGED <<instances, execs, jobs, faults>>

\* Broken: the sweeper does not ask again whether the attempt is still locked.
SweepReclaimsUnchecked(j) == Active(j) /\ ~LeaseValid(j)

\* retryJob with expiredOnly: everything is read again under the row locks.
SweepReclaims(j) == Active(j) /\ jobs[j].status = "LOCKED" /\ ~LeaseValid(j)

SweepJob(r, j) ==
    /\ j \in expired[r]
    /\ expired' = [expired EXCEPT ![r] = @ \ {j}]
    /\ \/ /\ SweepReclaims(j)
          /\ EnqueueReplacement(Retire(j, jobs[j].worker, "CANCELLED"), j,
                                jobs[j].retries)
       \/ /\ ~SweepReclaims(j)
          /\ UNCHANGED jobs
    /\ UNCHANGED <<instances, execs, gate, faults>>

\* Broken: the gate stays locked after the sweep.
SweepDoneKeepingLock(r) ==
    /\ gate = r
    /\ expired[r] = {}
    /\ UNCHANGED vars

SweepDone(r) ==
    /\ gate = r
    /\ expired[r] = {}
    /\ gate' = NoOne
    /\ UNCHANGED <<instances, execs, jobs, expired, faults>>

\* A failed transaction: the candidate is skipped until the next sweep.
SweepError(r, j) ==
    /\ faults < MaxFaults
    /\ j \in expired[r]
    /\ expired' = [expired EXCEPT ![r] = @ \ {j}]
    /\ faults' = faults + 1
    /\ UNCHANGED <<instances, execs, jobs, gate>>

\* PostgreSQL frees a session lock when the session ends, while the replica
\* goes on through its list.
LoseSession(r) ==
    /\ faults < MaxFaults
    /\ gate = r
    /\ gate' = NoOne
    /\ faults' = faults + 1
    /\ UNCHANGED <<instances, execs, jobs, expired>>

Crash(r) ==
    /\ faults < MaxFaults
    /\ gate = r \/ expired[r] # {}
    /\ gate' = IF gate = r THEN NoOne ELSE gate
    /\ expired' = [expired EXCEPT ![r] = {}]
    /\ faults' = faults + 1
    /\ UNCHANGED <<instances, execs, jobs>>

Tick ==
    /\ \E j \in DOMAIN jobs : jobs[j].status = "LOCKED" /\ jobs[j].lease >= 0
    /\ jobs' = [j \in DOMAIN jobs |->
                  IF jobs[j].status = "LOCKED" /\ jobs[j].lease >= 0
                  THEN [jobs[j] EXCEPT !.lease = @ - 1]
                  ELSE jobs[j]]
    /\ UNCHANGED <<instances, execs, sweeper>>

--------------------------------------------------------------------------------
Init ==
    /\ instances = [i \in Instance |-> "NONE"]
    /\ execs = <<>>
    /\ jobs = <<>>
    /\ gate = NoOne
    /\ expired = [r \in Replica |-> {}]
    /\ faults = 0

InstanceStep ==
    \/ \E i \in Instance, ss \in Dispatches, st \in Outcome :
          Start(i, ss, st) \/ Resume(i, ss, st) \/ RetryOtherStep(i, ss, st)
    \/ \E i \in Instance : Cancel(i)
    \/ \E x \in DOMAIN execs, ss \in Dispatches, st \in Outcome : Interrupt(x, ss, st)
    \/ \E x \in DOMAIN execs : RetryFailedStep(x)

WorkerStep ==
    \/ \E w \in Worker, S \in SUBSET (DOMAIN jobs), s \in LeaseLength : PollJobs(w, S, s)
    \/ \E j \in DOMAIN jobs, w \in Worker :
          \/ \E s \in LeaseLength : ExtendJobLease(j, w, s)
          \/ \E ss \in Dispatches, st \in Outcome : CompleteJobAndAdvance(j, w, ss, st)
          \/ CompleteJobRejected(j, w)
          \/ CompleteJobNoBranch(j, w)
          \/ FailJobRetry(j, w)
          \/ FailJobFinal(j, w)

SweeperStep ==
    \E r \in Replica :
        \/ SweepList(r)
        \/ SweepDone(r)
        \/ LoseSession(r)
        \/ Crash(r)
        \/ \E j \in DOMAIN jobs : SweepJob(r, j) \/ SweepError(r, j)

Next == InstanceStep \/ WorkerStep \/ SweeperStep \/ Tick

Spec == Init /\ [][Next]_vars

\* The clock runs, and every replica's ticker keeps sweeping.
Fairness ==
    /\ WF_vars(Tick)
    /\ \A r \in Replica :
          /\ WF_vars(SweepList(r))
          /\ WF_vars(SweepDone(r))
          /\ WF_vars(\E j \in DOMAIN jobs : SweepJob(r, j))

FairSpec == Spec /\ Fairness

--------------------------------------------------------------------------------
(* Invariants. *)

\* Every row has the shape of its table, and every job refers to an existing
\* step execution (the foreign key job.step_execution_id).
TypeOK ==
    /\ instances \in [Instance -> InstanceState]
    /\ execs \in Seq(StepExecution)
    /\ jobs \in Seq(Job)
    /\ \A j \in DOMAIN jobs : jobs[j].exec \in DOMAIN execs
    /\ gate \in Replica \cup {NoOne}
    /\ expired \in [Replica -> SUBSET (DOMAIN jobs)]
    /\ faults \in 0..MaxFaults

\* A step execution never has two attempts that a worker could still hold or
\* take: only its newest job may be UNLOCKED or LOCKED, however callbacks, the
\* sweepers of several replicas and polls interleave (retryJob, Fail).
OnlyNewestAttemptIsLive ==
    \A j, k \in DOMAIN jobs :
        jobs[j].exec = jobs[k].exec /\ j < k => jobs[j].status \notin LiveJob

\* A RUNNING step execution is never orphaned: it always has a job that some
\* worker can still take or complete.  enqueueReplacement commits together
\* with the retirement of the attempt it replaces.
RunningStepHasLiveAttempt ==
    \A x \in DOMAIN execs : execs[x].status = "RUNNING" =>
        \E j \in DOMAIN jobs : jobs[j].exec = x /\ jobs[j].status \in LiveJob

\* A step execution is COMPLETED by exactly one of its attempts, and then no
\* other attempt is left for a worker to run (CompleteJobAndAdvance).
CompletedByOneAttempt ==
    \A x \in DOMAIN execs :
        LET Of(st) == {j \in DOMAIN jobs : jobs[j].exec = x /\ jobs[j].status = st}
        IN  /\ Cardinality(Of("COMPLETED")) = IF execs[x].status = "COMPLETED" THEN 1 ELSE 0
            /\ execs[x].status = "COMPLETED" => Of("UNLOCKED") \cup Of("LOCKED") = {}

\* The retry budget: an attempt carries the step's retryCount less the FAILED
\* attempts before it, and never less than zero.  An expired lease costs
\* nothing, and a manual retry starts again with the full budget.
RetryBudget ==
    \A j \in DOMAIN jobs :
        LET spent == {k \in 1..(j - 1) : /\ jobs[k].exec = jobs[j].exec
                                         /\ jobs[k].status = "FAILED"}
        IN  jobs[j].retries = RetryCount[execs[jobs[j].exec].step] - Cardinality(spent)

\* What the job table promises of a step execution in every state: one live
\* attempt while it runs, one completed attempt when it is done, no attempt
\* beyond its budget.
DeliveryIsSafe ==
    /\ OnlyNewestAttemptIsLive
    /\ RunningStepHasLiveAttempt
    /\ CompletedByOneAttempt
    /\ RetryBudget

--------------------------------------------------------------------------------
(* Action properties. *)

\* A retired attempt and a finished step execution never change again: late
\* and repeated callbacks, heartbeats and stale sweeps are no-ops on them.
RetiredRowsStay ==
    /\ \A j \in DOMAIN jobs : jobs[j].status \notin LiveJob => jobs'[j] = jobs[j]
    /\ \A x \in DOMAIN execs : execs[x].status # "RUNNING" => execs'[x] = execs[x]

\* While a lease is valid nobody else disturbs the attempt: it is neither
\* handed to another worker nor replaced.  It ends with a callback, or because
\* its whole step execution was failed by a timer.
ValidLeasesStay ==
    \A j \in DOMAIN jobs :
         (jobs[j].status = "LOCKED" /\ jobs[j].lease > 0) =>
            \/ jobs'[j].worker = jobs[j].worker /\ jobs'[j].status # "CANCELLED"
            \/ execs'[jobs[j].exec].status = "FAILED"

\* A heartbeat never revives a lease that has run out, and never shortens a
\* valid one: a lease only falls by the clock, one tick for every held lease.
LeasesOnlyRunDown ==
    \A j \in DOMAIN jobs :
         (jobs[j].status = "LOCKED" /\ jobs'[j].status = "LOCKED") =>
            /\ jobs[j].lease <= 0 => jobs'[j].lease <= 0
            /\ jobs'[j].lease < jobs[j].lease => Tick

\* A step execution of an instance that is not ACTIVE or WAITING is frozen:
\* its row keeps its status and nothing replaces its attempts, whatever
\* callbacks and sweeps arrive, until a manual retry opens a new row.
StoppedInstancesStay ==
    \A x \in DOMAIN execs :
         instances[execs[x].inst] \notin LiveInstance =>
            /\ execs'[x] = execs[x]
            /\ \A j \in DOMAIN jobs' : jobs'[j].exec = x => j \in DOMAIN jobs

\* COMPLETED and CANCELLED are final for an instance; FAILED is left only by a
\* manual retry, never by a callback or a sweep.
TerminalStatesStay ==
    \A i \in Instance :
         /\ instances[i] \in {"COMPLETED", "CANCELLED"} => instances'[i] = instances[i]
         /\ instances[i] = "FAILED" /\ instances'[i] # "FAILED" =>
              SubSeq(jobs', 1, Len(jobs)) = jobs

\* What no callback, heartbeat, poll or sweep may do, in whatever order they
\* arrive: touch a retired row, disturb a valid lease, revive an expired one,
\* move a stopped instance.
DeliveryStepsAreSafe ==
    [][/\ RetiredRowsStay
       /\ ValidLeasesStay
       /\ LeasesOnlyRunDown
       /\ StoppedInstancesStay
       /\ TerminalStatesStay]_vars

--------------------------------------------------------------------------------
(* Liveness. *)

\* An expired lease of a step that can still run is eventually reclaimed, even
\* if a replica loses its session or crashes while it holds the list.
ExpiredLeaseIsReclaimed ==
    \A j \in 1..MaxJobs :
        LET Stuck == j \in ExpiredLeases /\ Active(j)
        IN  Stuck ~> (~Stuck \/ Len(jobs) = MaxJobs)
================================================================================
