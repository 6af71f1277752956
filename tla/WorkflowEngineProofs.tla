-------------------------- MODULE WorkflowEngineProofs --------------------------
(***************************************************************************)
(* The step graph interpreter implements JobDelivery, for every workflow   *)
(* definition, so what is proved of JobDelivery holds of the engine.       *)
(***************************************************************************)
EXTENDS WorkflowEngine, JobDeliveryProofs

\* What the provers may use on a leaf that names no prover itself.
USE ZenonT(40), SMTT(40)

--------------------------------------------------------------------------------
(* What a step may never do. *)

\* The tables es and js differ from the present ones only where a transaction may
\* write: an attempt is unlocked, ends, or keeps its holder and its lease; an attempt
\* with a valid lease ends by its own holder or with its failed step execution; a step
\* execution is running and its instance live.
Careful(es, js) ==
    /\ \A k \in 1..Len(jobs) :
          \/ js[k] = jobs[k]
          \/ jobs[k].status = "UNLOCKED"
          \/ /\ jobs[k].status = "LOCKED" /\ js[k].status \notin LiveJob
             /\ jobs[k].lease > 0 =>
                   \/ js[k].worker = jobs[k].worker /\ js[k].status # "CANCELLED"
                   \/ es[jobs[k].exec].status = "FAILED"
          \/ /\ jobs[k].status = "LOCKED" /\ js[k].status = "LOCKED"
             /\ jobs[k].lease > 0 /\ js[k].lease >= jobs[k].lease
             /\ js[k].worker = jobs[k].worker
    /\ \A x \in 1..Len(execs) :
          \/ es[x] = execs[x]
          \/ execs[x].status = "RUNNING" /\ instances[execs[x].inst] \in LiveInstance

\* New attempts are for new step executions or for those of a live instance.
OpensAttempts ==
    /\ Len(jobs) <= Len(jobs')
    /\ \A k \in 1..Len(jobs') : k > Len(jobs) =>
          \/ jobs'[k].exec > Len(execs)
          \/ /\ jobs'[k].exec \in 1..Len(execs)
             /\ instances[execs[jobs'[k].exec].inst] \in LiveInstance

\* An instance moves while it is live or not yet there, or from FAILED without
\* touching a present attempt.
MovesInstances ==
    \A i \in Instance :
        \/ instances'[i] = instances[i]
        \/ instances[i] \in LiveInstance \cup {"NONE"}
        \/ instances[i] = "FAILED" /\ \A k \in 1..Len(jobs) : jobs'[k] = jobs[k]

\* The body of DeliveryStepsAreSafe.
StepIsSafe ==
    RetiredRowsStay /\ ValidLeasesStay /\ LeasesOnlyRunDown /\ StoppedInstancesStay
        /\ TerminalStatesStay

\* A step that writes carefully does none of what DeliveryStepsAreSafe rules out.
LEMMA CarefulIsSafe ==
    ASSUME IInv, IInv', Careful(execs', jobs'), OpensAttempts, MovesInstances
    PROVE  StepIsSafe
<1>0. /\ DOMAIN jobs = 1..Len(jobs) /\ DOMAIN execs = 1..Len(execs)
      /\ Len(jobs) \in Nat /\ Len(execs) \in Nat
      /\ jobs \in Seq(Job)
      /\ \A j \in 1..Len(jobs) : jobs[j].exec \in 1..Len(execs)
      /\ \A j \in 1..Len(jobs) : jobs[j].lease \in Int
      /\ \A x \in 1..Len(execs) : execs[x].inst \in Instance
  BY TableFacts DEF Job
<1>1. DOMAIN jobs' = 1..Len(jobs') /\ Len(jobs') \in Nat /\ jobs' \in Seq(Job)
  <2>1. jobs' \in Seq(Job)
    BY DEF IInv, Sound, Typed
  <2> QED BY <2>1, TableShape
<1>2. RetiredRowsStay
  BY <1>0 DEF RetiredRowsStay, Careful, LiveJob
<1>3. ValidLeasesStay
  BY <1>0 DEF ValidLeasesStay, Careful, LiveJob
<1>4. LeasesOnlyRunDown
  <2>1. ASSUME NEW j \in 1..Len(jobs), jobs[j].status = "LOCKED", jobs'[j].status = "LOCKED"
        PROVE  /\ jobs[j].lease <= 0 => jobs'[j].lease <= 0
               /\ ~(jobs'[j].lease < jobs[j].lease)
    <3>1. jobs[j].lease \in Int /\ jobs'[j].lease \in Int
      <4>1. j \in 1..Len(jobs')
        BY SMTT(40), <1>0, <1>1 DEF OpensAttempts
      <4>2. jobs'[j] \in Job
        BY <1>1, <4>1, RowOfTable
      <4> QED BY <1>0, <4>2 DEF Job
    <3>2. jobs'[j] = jobs[j] \/ (jobs[j].lease > 0 /\ jobs'[j].lease >= jobs[j].lease)
      <4>1. jobs[j].status # "UNLOCKED" /\ jobs'[j].status \in LiveJob
        BY <2>1 DEF LiveJob
      <4> QED BY <4>1 DEF Careful
    <3> QED BY SMTT(40), <3>1, <3>2
  <2> QED BY <1>0, <2>1 DEF LeasesOnlyRunDown
<1>5. StoppedInstancesStay
  <2> SUFFICES ASSUME NEW x \in 1..Len(execs), instances[execs[x].inst] \notin LiveInstance
               PROVE  /\ execs'[x] = execs[x]
                      /\ \A j \in 1..Len(jobs') : jobs'[j].exec = x => j \in 1..Len(jobs)
    BY <1>0, <1>1 DEF StoppedInstancesStay
  <2>1. execs'[x] = execs[x]
    BY DEF Careful
  <2>2. ASSUME NEW j \in 1..Len(jobs'), jobs'[j].exec = x PROVE j <= Len(jobs)
    <3>1. ~(j > Len(jobs))
      BY SMTT(40), <1>0, <2>2 DEF OpensAttempts
    <3> QED BY SMTT(40), <1>0, <3>1
  <2> QED BY SMTT(40), <1>0, <2>1, <2>2
<1>6. TerminalStatesStay
  <2>1. ASSUME \A k \in 1..Len(jobs) : jobs'[k] = jobs[k]
        PROVE  SubSeq(jobs', 1, Len(jobs)) = jobs
    BY SMTT(40), <1>0, <1>1, <2>1 DEF OpensAttempts
  <2> QED BY <2>1 DEF TerminalStatesStay, MovesInstances, LiveInstance
<1> QED BY <1>2, <1>3, <1>4, <1>5, <1>6 DEF StepIsSafe

\* The attempts that dispatching appends.
LEMMA DispatchedJobs ==
    ASSUME NEW i \in Instance, NEW ss \in Dispatches, NEW es, NEW js,
           Typed(es, js), DispatchSteps(i, ss, es, js)
    PROVE  \A n \in 1..Len(ss) :
               jobs'[Len(js) + n] = NewJob(Len(es) + n, RetryCount[ss[n]])
<1>1. \A n \in 1..Len(ss) :
         /\ ss[n] \in Step
         /\ execs'[Len(es) + n] = NewExec(i, ss[n])
         /\ jobs'[Len(js) + n] = NewJob(Len(es) + n, RetryCount[ss[n]])
  BY SMTT(40), DispatchRows
<1> QED BY <1>1

\* Dispatching appends rows for new step executions, and is as careful as the tables
\* it starts from.
LEMMA DispatchIsCareful ==
    ASSUME IInv, NEW i \in Instance, NEW ss \in Dispatches, NEW es, NEW js,
           Typed(es, js), Careful(es, js), Len(es) = Len(execs), Len(js) = Len(jobs),
           DispatchSteps(i, ss, es, js)
    PROVE  Careful(execs', jobs') /\ OpensAttempts
           /\ \A k \in 1..Len(jobs) : jobs'[k] = js[k]
<1>0. Len(jobs) \in Nat /\ Len(execs) \in Nat /\ \A j \in 1..Len(jobs) : jobs[j].exec \in 1..Len(execs)
  BY TableFacts
<1>1. /\ Len(ss) \in Nat
      /\ Len(jobs') = Len(jobs) + Len(ss)
      /\ \A x \in 1..Len(execs) : execs'[x] = es[x]
      /\ \A j \in 1..Len(jobs) : jobs'[j] = js[j]
      /\ \A n \in 1..Len(ss) :
            jobs'[Len(jobs) + n] = NewJob(Len(execs) + n, RetryCount[ss[n]])
  <2>1. Len(ss) \in Nat /\ Len(jobs') = Len(js) + Len(ss)
    BY DispatchRows
  <2>2. \A x \in 1..Len(es) : execs'[x] = es[x]
    BY SMTT(40), DispatchRows
  <2>3. \A j \in 1..Len(js) : jobs'[j] = js[j]
    BY SMTT(40), DispatchRows
  <2>4. \A n \in 1..Len(ss) :
           jobs'[Len(js) + n] = NewJob(Len(es) + n, RetryCount[ss[n]])
    BY DispatchedJobs
  <2> QED BY <2>1, <2>2, <2>3, <2>4
<1>2. Careful(execs', jobs')
  BY ZenonT(40), <1>0, <1>1 DEF Careful
<1>3. OpensAttempts
  <2>1. ASSUME NEW k \in 1..Len(jobs'), k > Len(jobs) PROVE jobs'[k].exec > Len(execs)
    <3>1. PICK n \in 1..Len(ss) : k = Len(jobs) + n
      <4>1. k - Len(jobs) \in 1..Len(ss) /\ k = Len(jobs) + (k - Len(jobs))
        BY SMTT(40), <1>0, <1>1, <2>1
      <4> QED BY <4>1
    <3>2. jobs'[k] = NewJob(Len(execs) + n, RetryCount[ss[n]])
      BY <1>1, <3>1
    <3>3. jobs'[k].exec = Len(execs) + n
      BY SMTT(40), <3>2 DEF NewJob
    <3> QED BY SMTT(40), <1>0, <3>1, <3>3
  <2>2. Len(jobs) <= Len(jobs')
    BY SMTT(40), <1>0, <1>1
  <2> QED BY <2>1, <2>2 DEF OpensAttempts
<1> QED BY <1>1, <1>2, <1>3

\* The present tables are careful.
LEMMA UnchangedIsCareful == Careful(execs, jobs)
  BY DEF Careful

\* Retiring an attempt of a live instance, by its holder or after its lease, is careful.
LEMMA RetireIsCareful ==
    ASSUME IInv, NEW j \in 1..Len(jobs), jobs[j].status \in LiveJob,
           NEW w \in Worker \cup {NoOne}, NEW st \in {"COMPLETED", "FAILED", "CANCELLED"},
           NEW es,
           jobs[j].status = "LOCKED" /\ jobs[j].lease > 0
              => jobs[j].worker = w /\ st # "CANCELLED",
           \A x \in 1..Len(execs) :
              \/ es[x] = execs[x]
              \/ execs[x].status = "RUNNING" /\ instances[execs[x].inst] \in LiveInstance
    PROVE  Careful(es, Retire(j, w, st))
<1> DEFINE R == Retire(j, w, st)
<1>1. /\ \A k \in 1..Len(jobs) : k # j => R[k] = jobs[k]
      /\ R[j].status = st /\ R[j].worker = w
  <2>1. jobs \in Seq(Job) /\ st \in JobState
    BY TableFacts DEF JobState
  <2> QED BY SMTT(40), <2>1, RetireRows
<1> HIDE DEF R
<1>2. ASSUME NEW k \in 1..Len(jobs), R[k] # jobs[k], jobs[k].status # "UNLOCKED"
      PROVE  /\ jobs[k].status = "LOCKED" /\ R[k].status \notin LiveJob
             /\ jobs[k].lease > 0 => R[k].worker = jobs[k].worker /\ R[k].status # "CANCELLED"
  BY <1>1, <1>2 DEF LiveJob
<1> QED BY <1>2 DEF Careful, R

\* Cancelling the attempts of a step execution that fails is careful.
LEMMA CancelIsCareful ==
    ASSUME IInv, NEW x \in 1..Len(execs), NEW es, es[x].status = "FAILED",
           execs[x].status = "RUNNING", instances[execs[x].inst] \in LiveInstance,
           \A y \in 1..Len(execs) : y # x => es[y] = execs[y]
    PROVE  Careful(es, CancelJobByStepExecution(x))
<1> DEFINE R == CancelJobByStepExecution(x)
<1>1. \A k \in 1..Len(jobs) :
         IF jobs[k].exec = x /\ jobs[k].status \in LiveJob
         THEN R[k].status = "CANCELLED" ELSE R[k] = jobs[k]
  BY TableFacts, CancelRows
<1> HIDE DEF R
<1>2. ASSUME NEW k \in 1..Len(jobs), R[k] # jobs[k], jobs[k].status # "UNLOCKED"
      PROVE  /\ jobs[k].status = "LOCKED" /\ R[k].status \notin LiveJob
             /\ es[jobs[k].exec].status = "FAILED"
  BY <1>1, <1>2 DEF LiveJob
<1> QED BY <1>2 DEF Careful, R

\* Starts, timers, cancellations and manual retries.
LEMMA InstanceStepIsSafe ==
    ASSUME IInv, IInv', InstanceStep
    PROVE  StepIsSafe
<1>0. /\ Typed(execs, jobs) /\ Careful(execs, jobs) /\ instances \in [Instance -> InstanceState]
      /\ execs \in Seq(StepExecution) /\ Len(jobs) \in Nat /\ DOMAIN execs = 1..Len(execs)
  BY TableFacts, UnchangedIsCareful DEF IInv
\* A step that dispatches from the present tables.
<1>1. ASSUME NEW i \in Instance, NEW ss \in Dispatches, NEW st,
             instances[i] \in LiveInstance \cup {"NONE", "FAILED"},
             instances' = [instances EXCEPT ![i] = st], DispatchSteps(i, ss, execs, jobs)
      PROVE  StepIsSafe
  <2>1. /\ Careful(execs', jobs') /\ OpensAttempts
        /\ \A k \in 1..Len(jobs) : jobs'[k] = jobs[k]
    BY SMTT(40), <1>0, <1>1, DispatchIsCareful
  <2>2. MovesInstances
    BY <1>0, <1>1, <2>1 DEF MovesInstances
  <2> QED BY <2>1, <2>2, CarefulIsSafe
<1>2. ASSUME NEW i \in Instance, NEW ss \in Dispatches, NEW st \in Outcome,
             Start(i, ss, st) \/ Resume(i, ss, st) \/ RetryOtherStep(i, ss, st)
      PROVE  StepIsSafe
  BY <1>1, <1>2 DEF Start, Resume, RetryOtherStep
<1>3. ASSUME NEW i \in Instance, Cancel(i) PROVE StepIsSafe
  <2>1. execs' = execs /\ jobs' = jobs
    BY <1>3 DEF Cancel
  <2>2. Careful(execs', jobs')
    BY <1>0, <2>1
  <2>3. OpensAttempts
    BY SMTT(40), <1>0, <2>1 DEF OpensAttempts
  <2>4. MovesInstances
    BY <1>0, <1>3 DEF MovesInstances, Cancel
  <2> QED BY <2>2, <2>3, <2>4, CarefulIsSafe
<1>4. ASSUME NEW x \in DOMAIN execs, NEW ss \in Dispatches, NEW st \in Outcome,
             Interrupt(x, ss, st)
      PROVE  StepIsSafe
  <2> DEFINE E == [execs EXCEPT ![x].status = "FAILED"]
             J == CancelJobByStepExecution(x)
  <2>1. /\ x \in 1..Len(execs) /\ execs[x].inst \in Instance
        /\ execs[x].status = "RUNNING" /\ instances[execs[x].inst] \in LiveInstance
    BY <1>0, <1>4, TableFacts DEF Interrupt
  <2>2. Typed(E, J) /\ Len(J) = Len(jobs)
    BY <1>4, <2>1, FailStepLemma DEF Interrupt, IInv, Sound
  <2>3. /\ Len(E) = Len(execs) /\ E[x].status = "FAILED"
        /\ \A y \in 1..Len(execs) : y # x => E[y] = execs[y]
    BY <1>0, <2>1, ExecRows DEF ExecState
  <2> HIDE DEF E
  <2>4. Careful(E, J)
    BY <2>1, <2>3, CancelIsCareful
  <2> HIDE DEF J
  <2>5. DispatchSteps(execs[x].inst, ss, E, J)
    BY <1>4 DEF Interrupt, E, J
  <2>6. Careful(execs', jobs') /\ OpensAttempts
    BY <2>1, <2>2, <2>3, <2>4, <2>5, DispatchIsCareful
  <2>7. MovesInstances
    BY <1>0, <1>4, <2>1 DEF MovesInstances, Interrupt
  <2> QED BY <2>6, <2>7, CarefulIsSafe
<1>5. ASSUME NEW x \in DOMAIN execs, RetryFailedStep(x) PROVE StepIsSafe
  <2>1. execs[x].inst \in Instance /\ <<execs[x].step>> \in Dispatches
    <3>1. execs[x].step \in Step /\ execs[x].inst \in Instance
      BY TableFacts
    <3>2. <<execs[x].step>> \in [1..1 -> Step] /\ 1 \in 0..MaxFanOut
      BY SMTT(40), <3>1, BoundsAssumption
    <3> QED BY <3>1, <3>2 DEF Dispatches
  <2> QED BY <1>1, <1>5, <2>1 DEF RetryFailedStep
<1> QED BY <1>2, <1>3, <1>4, <1>5 DEF InstanceStep

\* A step that only touches leases and locks of attempts.
LEMMA LeasesAreSafe ==
    ASSUME IInv, IInv', execs' = execs, instances' = instances, Len(jobs') = Len(jobs),
           \A k \in 1..Len(jobs) :
              \/ jobs'[k] = jobs[k]
              \/ jobs[k].status = "UNLOCKED"
              \/ /\ jobs[k].status = "LOCKED" /\ jobs'[k].status = "LOCKED"
                 /\ jobs[k].lease > 0 /\ jobs'[k].lease >= jobs[k].lease
                 /\ jobs'[k].worker = jobs[k].worker
    PROVE  StepIsSafe
<1>1. Careful(execs', jobs')
  BY DEF Careful
<1>2. OpensAttempts
  BY SMTT(40), TableFacts DEF OpensAttempts
<1>3. MovesInstances
  BY DEF MovesInstances
<1> QED BY <1>1, <1>2, <1>3, CarefulIsSafe

\* Polls and heartbeats.
LEMMA LeaseStepIsSafe ==
    ASSUME IInv, IInv', NEW w \in Worker, NEW s \in LeaseLength
    PROVE  /\ \A S \in SUBSET (DOMAIN jobs) : PollJobs(w, S, s) => StepIsSafe
           /\ \A j \in DOMAIN jobs : ExtendJobLease(j, w, s) => StepIsSafe
<1>0. /\ DOMAIN jobs = 1..Len(jobs) /\ jobs \in Seq(Job)
      /\ \A k \in 1..Len(jobs) : jobs[k] \in Job
      /\ Len(jobs) \in Nat /\ Len(jobs') \in Nat
  <2>1. jobs' \in Seq(Job)
    BY DEF IInv, Sound, Typed
  <2>2. Len(jobs') \in Nat
    BY <2>1, TableShape
  <2> QED BY <2>2, TableFacts
<1>1. ASSUME NEW S \in SUBSET (DOMAIN jobs), PollJobs(w, S, s) PROVE StepIsSafe
  <2>1. /\ execs' = execs /\ instances' = instances
        /\ \A k \in 1..Len(jobs) : jobs'[k] = jobs[k] \/ jobs[k].status = "UNLOCKED"
    BY <1>0, <1>1 DEF PollJobs
  <2>2. Len(jobs') = Len(jobs)
    <3>1. DOMAIN jobs' = 1..Len(jobs)
      BY <1>0, <1>1 DEF PollJobs
    <3>2. jobs' \in Seq(Job)
      BY DEF IInv, Sound, Typed
    <3>3. DOMAIN jobs' = 1..Len(jobs') /\ Len(jobs') \in Nat
      BY <3>2, TableShape
    <3> QED BY SMTT(40), <1>0, <3>1, <3>3
  <2> QED BY <2>1, <2>2, LeasesAreSafe
<1>2. ASSUME NEW j \in DOMAIN jobs, ExtendJobLease(j, w, s) PROVE StepIsSafe
  <2> DEFINE l == IF s > jobs[j].lease THEN s ELSE jobs[j].lease
  <2>1. execs' = execs /\ instances' = instances /\ jobs' = [jobs EXCEPT ![j].lease = l]
    BY <1>2 DEF ExtendJobLease
  <2>2. jobs[j].lease > 0 /\ jobs[j].status = "LOCKED"
    BY <1>2 DEF ExtendJobLease, LeaseValid
  <2>3. l >= jobs[j].lease
    <3>1. jobs[j].lease \in Int /\ s \in Int
      BY SMTT(40), <1>0, LeaseAssumption DEF Job
    <3> QED BY SMTT(40), <3>1
  <2> HIDE DEF l
  <2>4. Len(jobs') = Len(jobs)
    BY SMTT(40), <1>0, <2>1
  <2>5. \A k \in 1..Len(jobs) : k # j => jobs'[k] = jobs[k]
    BY <1>0, <2>1
  <2>6. jobs'[j].status = jobs[j].status /\ jobs'[j].worker = jobs[j].worker /\ jobs'[j].lease = l
    BY <1>0, <2>1 DEF Job
  <2> QED BY <2>1, <2>2, <2>3, <2>4, <2>5, <2>6, LeasesAreSafe
<1> QED BY <1>1, <1>2

\* A step that retires one attempt, appends a replacement or none, and closes step
\* executions of live instances.
LEMMA RetireIsSafe ==
    ASSUME IInv, IInv', NEW j \in 1..Len(jobs), jobs[j].status \in LiveJob,
           NEW w \in Worker \cup {NoOne}, NEW st \in {"COMPLETED", "FAILED", "CANCELLED"},
           jobs[j].status = "LOCKED" /\ jobs[j].lease > 0
              => jobs[j].worker = w /\ st # "CANCELLED",
           \A x \in 1..Len(execs) :
              \/ execs'[x] = execs[x]
              \/ execs[x].status = "RUNNING" /\ instances[execs[x].inst] \in LiveInstance,
           instances[execs[jobs[j].exec].inst] \in LiveInstance,
           MovesInstances,
           \/ jobs' = Retire(j, w, st)
           \/ \E r : EnqueueReplacement(Retire(j, w, st), j, r)
    PROVE  StepIsSafe
<1> DEFINE R == Retire(j, w, st)
<1>0. Len(jobs) \in Nat /\ jobs[j].exec \in 1..Len(execs) /\ jobs \in Seq(Job)
  BY TableFacts
<1>1. R \in Seq(Job) /\ Len(R) = Len(jobs)
  BY SMTT(40), <1>0, RetireRows DEF JobState
<1>2. Careful(execs', R)
  BY RetireIsCareful
<1> HIDE DEF R
<1>3. CASE jobs' = R
  <2>1. OpensAttempts
    BY SMTT(40), <1>0, <1>1, <1>3 DEF OpensAttempts
  <2>2. Careful(execs', jobs')
    BY <1>2, <1>3
  <2> QED BY <2>1, <2>2, CarefulIsSafe
<1>4. CASE \E r : EnqueueReplacement(R, j, r)
  <2>1. PICK r : jobs' = Append(R, NewJob(jobs[j].exec, r))
    BY <1>4 DEF EnqueueReplacement
  <2>2. /\ Len(jobs') = Len(jobs) + 1
        /\ \A k \in 1..Len(jobs) : jobs'[k] = R[k]
        /\ jobs'[Len(jobs) + 1] = NewJob(jobs[j].exec, r)
    BY SMTT(40), <1>0, <1>1, <2>1
  <2>3. Careful(execs', jobs')
    BY <1>2, <2>2 DEF Careful
  <2>4. jobs'[Len(jobs) + 1].exec = jobs[j].exec
    BY SMTT(40), <2>2 DEF NewJob
  <2>5. OpensAttempts
    BY SMTT(40), <1>0, <2>2, <2>4 DEF OpensAttempts
  <2> QED BY <2>3, <2>5, CarefulIsSafe
<1> QED BY <1>3, <1>4 DEF R

\* Completions and failures reported by workers.
LEMMA CallbackIsSafe ==
    ASSUME IInv, IInv', NEW j \in DOMAIN jobs, NEW w \in Worker
    PROVE  /\ \A ss \in Dispatches, st \in Outcome : CompleteJobAndAdvance(j, w, ss, st) => StepIsSafe
           /\ CompleteJobRejected(j, w) => StepIsSafe
           /\ CompleteJobNoBranch(j, w) => StepIsSafe
           /\ FailJobRetry(j, w) => StepIsSafe
           /\ FailJobFinal(j, w) => StepIsSafe
<1> DEFINE x == jobs[j].exec
           i == execs[x].inst
<1>0. /\ Typed(execs, jobs) /\ instances \in [Instance -> InstanceState]
      /\ execs \in Seq(StepExecution) /\ DOMAIN execs = 1..Len(execs)
      /\ Len(execs) \in Nat /\ Len(jobs) \in Nat
  BY TableFacts DEF IInv
<1>1. ASSUME AcceptsCallback(j, w)
      PROVE  /\ j \in 1..Len(jobs) /\ jobs[j].status \in LiveJob /\ x \in 1..Len(execs)
             /\ i \in Instance /\ execs[x].status = "RUNNING" /\ w \in Worker \cup {NoOne}
             /\ instances[i] \in LiveInstance
             /\ jobs[j].status = "LOCKED" => jobs[j].worker = w
  <2>1. instances[i] \in LiveInstance /\ (jobs[j].status = "LOCKED" => jobs[j].worker = w)
    BY <1>1 DEF AcceptsCallback, Active
  <2> QED BY <1>1, <2>1, CallbackFacts
\* The instance of the attempt moves.
<1>2. ASSUME AcceptsCallback(j, w), NEW st, instances' = [instances EXCEPT ![i] = st]
      PROVE  MovesInstances
  <2>1. i \in Instance /\ instances[i] \in LiveInstance
    BY <1>1, <1>2
  <2> HIDE DEF i
  <2> QED BY <1>0, <1>2, <2>1 DEF MovesInstances
<1>3. ASSUME NEW ss \in Dispatches, NEW st \in Outcome, CompleteJobAndAdvance(j, w, ss, st)
      PROVE  StepIsSafe
  <2> DEFINE E == [execs EXCEPT ![x].status = "COMPLETED"]
             J == Retire(j, w, "COMPLETED")
  <2>0. AcceptsCallback(j, w)
    BY <1>3 DEF CompleteJobAndAdvance
  <2>1. /\ Len(E) = Len(execs) /\ \A y \in 1..Len(execs) : y # x => E[y] = execs[y]
        /\ E \in Seq(StepExecution)
    BY <1>0, <1>1, <2>0, ExecRows, "COMPLETED" \in ExecState DEF ExecState
  <2>2. /\ J \in Seq(Job) /\ Len(J) = Len(jobs)
        /\ \A k \in 1..Len(jobs) : J[k].exec = jobs[k].exec
    <3>1. "COMPLETED" \in JobState /\ jobs \in Seq(Job)
      BY TableFacts DEF JobState
    <3>2. /\ J \in Seq(Job) /\ Len(J) = Len(jobs)
          /\ \A k \in 1..Len(jobs) : k # j => J[k] = jobs[k]
          /\ J[j].exec = jobs[j].exec
      BY SMTT(40), <1>1, <2>0, <3>1, RetireRows
    <3> QED BY <3>2
  <2> HIDE DEF E, J
  <2>3. Typed(E, J)
    BY <1>0, <2>1, <2>2 DEF Typed
  <2>4. Careful(E, J)
    <3>1. \A y \in 1..Len(execs) :
             \/ E[y] = execs[y]
             \/ execs[y].status = "RUNNING" /\ instances[execs[y].inst] \in LiveInstance
      BY <1>1, <2>0, <2>1
    <3>2. "COMPLETED" # "CANCELLED" /\ "COMPLETED" \in {"COMPLETED", "FAILED", "CANCELLED"}
      OBVIOUS
    <3> QED BY <1>1, <2>0, <3>1, <3>2, RetireIsCareful DEF J
  <2>5. DispatchSteps(i, ss, E, J) /\ instances' = [instances EXCEPT ![i] = st]
    BY <1>3 DEF CompleteJobAndAdvance, E, J
  <2>6. MovesInstances
    BY <1>2, <2>0, <2>5
  <2>7. i \in Instance
    BY <1>1, <2>0
  <2> HIDE DEF i
  <2>8. Careful(execs', jobs') /\ OpensAttempts
    BY <2>1, <2>2, <2>3, <2>4, <2>5, <2>7, DispatchIsCareful
  <2> QED BY <2>6, <2>8, CarefulIsSafe
<1>4. ASSUME CompleteJobRejected(j, w) PROVE StepIsSafe
  <2>0. AcceptsCallback(j, w)
    BY <1>4 DEF CompleteJobRejected
  <2>1. /\ jobs' = CancelJobByStepExecution(x) /\ execs' = [execs EXCEPT ![x].status = "FAILED"]
        /\ instances' = [instances EXCEPT ![i] = "FAILED"]
    BY <1>4 DEF CompleteJobRejected
  <2>2. /\ execs'[x].status = "FAILED" /\ \A y \in 1..Len(execs) : y # x => execs'[y] = execs[y]
    BY <1>0, <1>1, <2>0, <2>1, ExecRows, "FAILED" \in ExecState DEF ExecState
  <2>3. Careful(execs', jobs')
    BY <1>1, <2>0, <2>1, <2>2, CancelIsCareful
  <2>4. Len(jobs') = Len(jobs)
    BY <2>1, TableFacts, CancelRows
  <2>5. OpensAttempts
    BY SMTT(40), <1>0, <2>4 DEF OpensAttempts
  <2>6. MovesInstances
    BY <1>2, <2>0, <2>1
  <2> QED BY <2>3, <2>5, <2>6, CarefulIsSafe
\* The remaining ones retire the attempt as its holder.
<1>5. ASSUME AcceptsCallback(j, w), NEW st \in {"COMPLETED", "FAILED"}, MovesInstances,
             \A y \in 1..Len(execs) :
                \/ execs'[y] = execs[y]
                \/ execs[y].status = "RUNNING" /\ instances[execs[y].inst] \in LiveInstance,
             \/ jobs' = Retire(j, w, st)
             \/ \E r : EnqueueReplacement(Retire(j, w, st), j, r)
      PROVE  StepIsSafe
  <2>1. st \in {"COMPLETED", "FAILED", "CANCELLED"} /\ st # "CANCELLED"
    OBVIOUS
  <2> QED BY <1>1, <1>5, <2>1, RetireIsSafe
<1>6. ASSUME CompleteJobNoBranch(j, w) PROVE StepIsSafe
  <2>0. AcceptsCallback(j, w)
    BY <1>6 DEF CompleteJobNoBranch
  <2>1. jobs' = Retire(j, w, "COMPLETED") /\ instances' = [instances EXCEPT ![i] = "FAILED"]
    BY <1>6 DEF CompleteJobNoBranch
  <2>2. ASSUME NEW y \in 1..Len(execs), execs'[y] # execs[y]
        PROVE  execs[y].status = "RUNNING" /\ instances[execs[y].inst] \in LiveInstance
    <3>1. y = x \/ (execs[y].inst = i /\ execs[y].status = "RUNNING")
      BY SMTT(40), <1>0, <1>6, <2>2 DEF CompleteJobNoBranch
    <3> QED BY <1>1, <2>0, <3>1
  <2>3. MovesInstances
    BY <1>2, <2>0, <2>1
  <2> QED BY <1>5, <2>0, <2>1, <2>2, <2>3
<1>7. ASSUME FailJobRetry(j, w) PROVE StepIsSafe
  <2>1. /\ AcceptsCallback(j, w) /\ execs' = execs /\ instances' = instances
        /\ EnqueueReplacement(Retire(j, w, "FAILED"), j, jobs[j].retries - 1)
    BY <1>7 DEF FailJobRetry
  <2>2. MovesInstances
    BY <2>1 DEF MovesInstances
  <2> QED BY <1>5, <2>1, <2>2
<1>8. ASSUME FailJobFinal(j, w) PROVE StepIsSafe
  <2>1. /\ AcceptsCallback(j, w) /\ jobs' = Retire(j, w, "FAILED")
        /\ execs' = [execs EXCEPT ![x].status = "FAILED"]
        /\ instances' = [instances EXCEPT ![i] = "FAILED"]
    BY <1>8 DEF FailJobFinal
  <2>2. \A y \in 1..Len(execs) : y # x => execs'[y] = execs[y]
    BY <1>0, <1>1, <2>1, ExecRows, "FAILED" \in ExecState DEF ExecState
  <2>3. MovesInstances
    BY <1>2, <2>1
  <2> QED BY <1>1, <1>5, <2>1, <2>2, <2>3
<1> QED BY <1>3, <1>4, <1>6, <1>7, <1>8

\* The lease sweeper, also with a stale list.
LEMMA SweeperStepIsSafe ==
    ASSUME IInv, IInv', SweeperStep
    PROVE  StepIsSafe
<1>0. DOMAIN jobs = 1..Len(jobs)
  BY TableFacts
<1>1. ASSUME UNCHANGED <<instances, execs, jobs>> PROVE StepIsSafe
  BY <1>1, LeasesAreSafe
<1>2. ASSUME NEW r \in Replica,
             SweepList(r) \/ SweepDone(r) \/ LoseSession(r) \/ Crash(r)
      PROVE  StepIsSafe
  BY <1>1, <1>2 DEF SweepList, SweepDone, LoseSession, Crash
<1>3. ASSUME NEW r \in Replica, NEW j \in DOMAIN jobs, SweepError(r, j) PROVE StepIsSafe
  BY <1>1, <1>3 DEF SweepError
<1>4. ASSUME NEW r \in Replica, NEW j \in DOMAIN jobs, SweepJob(r, j) PROVE StepIsSafe
  <2>1. execs' = execs /\ instances' = instances
    BY <1>4 DEF SweepJob
  <2>2. CASE SweepReclaims(j)
    <3>1. /\ j \in 1..Len(jobs) /\ jobs[j].worker \in Worker \cup {NoOne}
          /\ jobs[j].lease \in Int
      BY <1>0, TableFacts DEF Job
    <3>2. /\ jobs[j].status \in LiveJob /\ ~(jobs[j].lease > 0)
          /\ instances[execs[jobs[j].exec].inst] \in LiveInstance
      BY <2>2 DEF SweepReclaims, LiveJob, LeaseValid, Active
    <3>3. EnqueueReplacement(Retire(j, jobs[j].worker, "CANCELLED"), j, jobs[j].retries)
      BY <1>4, <2>2 DEF SweepJob
    <3>4. MovesInstances
      BY <2>1 DEF MovesInstances
    <3>5. "CANCELLED" \in {"COMPLETED", "FAILED", "CANCELLED"}
      OBVIOUS
    <3> QED BY <2>1, <3>1, <3>2, <3>3, <3>4, <3>5, RetireIsSafe
  <2>3. CASE ~SweepReclaims(j)
    BY <1>1, <1>4, <2>1, <2>3 DEF SweepJob
  <2> QED BY <2>2, <2>3
<1> QED BY <1>2, <1>3, <1>4 DEF SweeperStep

\* The clock runs every held lease down by one tick, and no further than past its end.
LEMMA TickIsSafe ==
    ASSUME IInv, IInv', Tick
    PROVE  StepIsSafe
<1>0. /\ DOMAIN jobs = 1..Len(jobs) /\ Len(jobs) \in Nat
      /\ \A k \in 1..Len(jobs) : jobs[k] \in Job
      /\ DOMAIN execs = 1..Len(execs)
  BY TableFacts
<1>1. execs' = execs /\ instances' = instances /\ DOMAIN jobs' = 1..Len(jobs)
  BY <1>0 DEF Tick
<1>2. ASSUME NEW k \in 1..Len(jobs)
      PROVE  /\ jobs'[k].status = jobs[k].status /\ jobs'[k].worker = jobs[k].worker
             /\ jobs'[k].exec = jobs[k].exec
             /\ jobs[k].status # "LOCKED" => jobs'[k] = jobs[k]
             /\ jobs[k].lease <= 0 => jobs'[k].lease <= 0
  <2>1. CASE jobs[k].status = "LOCKED" /\ jobs[k].lease >= 0
    <3>1. jobs'[k] = [jobs[k] EXCEPT !.lease = jobs[k].lease - 1]
      BY <1>0, <2>1 DEF Tick
    <3>2. jobs[k] \in Job /\ jobs[k].lease \in Int
      BY <1>0 DEF Job
    <3>3. /\ jobs'[k].status = jobs[k].status /\ jobs'[k].worker = jobs[k].worker
          /\ jobs'[k].exec = jobs[k].exec /\ jobs'[k].lease = jobs[k].lease - 1
      BY <3>1, <3>2 DEF Job
    <3> QED BY SMTT(40), <2>1, <3>2, <3>3
  <2>2. CASE ~(jobs[k].status = "LOCKED" /\ jobs[k].lease >= 0)
    <3>1. jobs'[k] = jobs[k]
      BY <1>0, <2>2 DEF Tick
    <3> QED BY <3>1
  <2> QED BY <2>1, <2>2
<1>3. RetiredRowsStay
  BY <1>0, <1>1, <1>2 DEF RetiredRowsStay, LiveJob
<1>4. ValidLeasesStay
  BY <1>0, <1>2 DEF ValidLeasesStay
<1>5. LeasesOnlyRunDown
  BY <1>0, <1>2 DEF LeasesOnlyRunDown
<1>6. StoppedInstancesStay
  BY <1>0, <1>1 DEF StoppedInstancesStay
<1>7. TerminalStatesStay
  BY <1>1 DEF TerminalStatesStay
<1> QED BY <1>3, <1>4, <1>5, <1>6, <1>7 DEF StepIsSafe

\* No step does what DeliveryStepsAreSafe rules out.
LEMMA NextIsSafe ==
    ASSUME IInv, IInv', Next
    PROVE  StepIsSafe
<1>1. CASE InstanceStep
  BY <1>1, InstanceStepIsSafe
<1>2. CASE WorkerStep
  BY <1>2, LeaseStepIsSafe, CallbackIsSafe DEF WorkerStep
<1>3. CASE SweeperStep
  BY SMTT(40), <1>3, SweeperStepIsSafe
<1>4. CASE Tick
  BY SMTT(40), <1>4, TickIsSafe
<1> QED BY <1>1, <1>2, <1>3, <1>4 DEF Next

\* However callbacks, heartbeats, polls, sweeps, timers and retries interleave: a
\* retired attempt and a finished step execution never change again, nobody disturbs
\* a valid lease or revives an expired one, and nothing moves a stopped instance but
\* a manual retry.
THEOREM StepsSafe == Spec => DeliveryStepsAreSafe
<1>1. IInv /\ IInv' /\ [Next]_vars =>
          [/\ RetiredRowsStay
           /\ ValidLeasesStay
           /\ LeasesOnlyRunDown
           /\ StoppedInstancesStay
           /\ TerminalStatesStay]_vars
  BY NextIsSafe DEF StepIsSafe
<1> QED BY <1>1, Invariance, PTL DEF Spec, DeliveryStepsAreSafe

--------------------------------------------------------------------------------
(* The interpreter. *)

\* A transaction may dispatch no SERVICE_TASK step at all.
LEMMA NoDispatch == <<>> \in Dispatches
<1>1. <<>> \in [1..0 -> Step]
  BY SMTT(40)
<1>2. 0 \in 0..MaxFanOut
  BY SMTT(40), BoundsAssumption
<1> QED
  BY <1>1, <1>2 DEF Dispatches

\* What a committed outcome dispatches and leaves behind is what JobDelivery
\* allows any transaction.
LEMMA CommitFacts ==
    ASSUME NEW r, Commit(r)
    PROVE  r.out \in Dispatches /\ r.status \in Outcome
  BY DEF Commit

\* Every action of the engine is an action of JobDelivery, or leaves its
\* variables alone (a consumed timer without effect, the housekeeper).
LEMMA EngineStep ==
    ASSUME [EngineNext]_engineVars
    PROVE  [Next]_vars
<1>1. CASE DeliveryStep
  <2>1. InstanceStep \/ WorkerStep \/ SweeperStep \/ Tick
    BY <1>1 DEF DeliveryStep, InstanceStep, WorkerStep
  <2> QED
    BY <2>1 DEF Next
<1>2. CASE GraphStep
  <2>1. CASE \E i \in Instance, f \in First : StartInstance(i, f)
    <3>1. PICK i \in Instance, f \in First : StartInstance(i, f)
      BY <2>1
    <3>2. PICK r : Start(i, r.out, r.status) /\ Commit(r)
      BY <3>1 DEF StartInstance
    <3>3. InstanceStep
      BY <3>2, CommitFacts DEF InstanceStep
    <3> QED
      BY <3>3 DEF Next
  <2>2. CASE \E j \in DOMAIN jobs, w \in Worker : CompleteJob(j, w)
    <3>1. PICK j \in DOMAIN jobs, w \in Worker : CompleteJob(j, w)
      BY <2>2
    <3>2. CASE CompleteJobAndAdvance(j, w, <<>>, instances[execs[jobs[j].exec].inst])
      <4>1. instances[execs[jobs[j].exec].inst] \in Outcome
        BY <3>2 DEF CompleteJobAndAdvance, AcceptsCallback, Active, LiveInstance, Outcome
      <4>2. WorkerStep
        BY <3>2, <4>1, NoDispatch DEF WorkerStep
      <4> QED
        BY <4>2 DEF Next
    <3>3. CASE \E r : CompleteJobAndAdvance(j, w, r.out, r.status) /\ Commit(r)
      <4>1. WorkerStep
        BY <3>3, CommitFacts DEF WorkerStep
      <4> QED
        BY SMTT(40), <4>1 DEF Next
    <3>4. CASE CompleteJobNoBranch(j, w)
      <4>1. WorkerStep
        BY <3>4 DEF WorkerStep
      <4> QED
        BY SMTT(40), <4>1 DEF Next
    <3> QED
      BY <3>1, <3>2, <3>3, <3>4 DEF CompleteJob
  <2>3. CASE \E i \in Instance, n \in Node :
               \/ CompleteUserTaskAndAdvance(i, n)
               \/ SignalWaitAndAdvance(i, n)
               \/ RetryStep(i, n)
    <3>1. PICK i \in Instance, n \in Node :
               \/ CompleteUserTaskAndAdvance(i, n)
               \/ SignalWaitAndAdvance(i, n)
               \/ RetryStep(i, n)
      BY <2>3
    <3>2. PICK r : /\ Resume(i, r.out, r.status) \/ RetryOtherStep(i, r.out, r.status)
                   /\ Commit(r)
      BY <3>1 DEF CompleteUserTaskAndAdvance, SignalWaitAndAdvance, RetryStep
    <3>3. InstanceStep
      BY <3>2, CommitFacts DEF InstanceStep
    <3> QED
      BY SMTT(40), <3>3 DEF Next
  <2>4. CASE \E x \in DOMAIN execs : RetryServiceTask(x)
    <3>1. InstanceStep
      BY <2>4 DEF InstanceStep, RetryServiceTask
    <3> QED
      BY <3>1 DEF Next
  <2> QED
    BY <1>2, <2>1, <2>2, <2>3, <2>4 DEF GraphStep
<1>3. CASE TimerStep
  <2>1. CASE UNCHANGED vars
    BY <2>1
  <2>2. CASE \E i \in Instance : \E r : Resume(i, r.out, r.status) /\ Commit(r)
    <3>1. InstanceStep
      BY <2>2, CommitFacts DEF InstanceStep
    <3> QED
      BY SMTT(40), <3>1 DEF Next
  <2>3. CASE \E i \in Instance : \E t \in flow[i].timers :
               /\ SourceRunning(i, t) /\ t.step \in Step
               /\ \E r : Interrupt(t.row, r.out, r.status) /\ Commit(r)
    <3>1. InstanceStep
      BY <2>3, CommitFacts DEF InstanceStep, SourceRunning
    <3> QED
      BY SMTT(40), <3>1 DEF Next
  <2> QED
    BY <1>3, <2>1, <2>2, <2>3
       DEF TimerStep, FireSuppressed, FireNonInterrupting, FireInterrupting, Housekeep
<1>4. CASE UNCHANGED engineVars
  BY <1>4 DEF engineVars
<1> QED
  BY <1>1, <1>2, <1>3, <1>4 DEF EngineNext

\* The engine implements JobDelivery: whatever definitions it interprets, seen
\* through the instance status, the SERVICE_TASK executions and the jobs it
\* does what JobDelivery allows and nothing else.
THEOREM EngineImplementsDelivery == EngineSpec => Spec
<1>1. EngineInit => Init
  BY DEF EngineInit
<1>2. [EngineNext]_engineVars => [Next]_vars
  BY EngineStep
<1> QED
  BY <1>1, <1>2, PTL DEF EngineSpec, Spec

\* For every workflow definition, a RUNNING service task keeps exactly one
\* attempt a worker can take or complete, a completed one was completed by one
\* attempt, and no attempt exceeds the retry budget of its step.
THEOREM EngineDeliversSafely == EngineSpec => []DeliveryIsSafe
  BY EngineImplementsDelivery, DeliverySafe, PTL

\* For every workflow definition, each step of the engine is one that job delivery
\* allows: what DeliveryStepsAreSafe says of steps holds of the whole engine.
THEOREM EngineStepsSafe == EngineSpec => DeliveryStepsAreSafe
  BY EngineImplementsDelivery, StepsSafe, PTL
================================================================================
