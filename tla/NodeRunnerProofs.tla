---------------------------- MODULE NodeRunnerProofs ----------------------------
(***************************************************************************)
(* Proofs about NodeRunner, for every number of jobs, every concurrency,   *)
(* lease length and set of configurations: the runner never has more jobs  *)
(* than slots, never believes in a lease the engine has let expire, reports*)
(* no result for a row that has expired, and gives an outcome up only when *)
(* there is nothing left to report, or the engine has refused it for good. *)
(*                                                                         *)
(* ConcurrencyIsRespected is not inductive: a poll counts the tasks of the *)
(* current run, so it has to be known that no task of an earlier run is    *)
(* left when run() is called again.  BelievedLeaseIsHeld needs the answers *)
(* that are still on their way, and that a renewal never shortens a lease. *)
(* That outcomes are kept needs to know why a task counts its lease lost.  *)
(***************************************************************************)
EXTENDS NodeRunner, FiniteSetTheorems, TLAPS

\* What the provers may use on a leaf that names no prover itself.
USE ZenonT(40), SMTT(40)

Held == {j \in Job : Active(j)} \cup polled

\* Tasks in flight belong to the current run, which has not returned; rows are
\* fetched by a poll under way; and all of them fit the slots.
Slots ==
    /\ \A j \in Job : Active(j) => running /\ tasks[j].run = runs
    /\ polled # {} => loop = "polling"
    /\ loop \notin {"idle", "stopped"} => running
    /\ Cardinality(Held) <= Concurrency

\* A row is leased before it has a task.
Fresh ==
    \A j \in Job :
        /\ rows[j].status = "available" => tasks[j].pc = "none" /\ j \notin polled
        /\ j \in polled => tasks[j].pc = "none"

\* The engine's deadline of a row is no earlier than what the task knows or is
\* about to hear, and no later than a whole lease from now.
Leases ==
    \A j \in Job :
        /\ rows[j].until <= now + Lease
        /\ Active(j) => rows[j].until >= tasks[j].expiry
        /\ renewals[j] # NoAnswer => rows[j].until >= renewals[j]
        /\ rows[j].status = "expired" => rows[j].until <= now

\* A task renews only leases it knows, and one that counts its lease lost has a
\* reason that lasts and renews no more.
Losses ==
    \A j \in Job : Active(j) =>
        /\ tasks[j].beat # "off" => config.metadata
        /\ tasks[j].lost => tasks[j].beat = "off" /\ NothingToReport(j)

IInv == TypeOK /\ Slots /\ Fresh /\ Leases /\ Losses

--------------------------------------------------------------------------------
\* What the proofs use of the constants.
LEMMA Constants ==
    /\ IsFiniteSet(Job)
    /\ Concurrency \in Nat /\ Lease \in Nat
    /\ Config \subseteq [heartbeat : BOOLEAN, metadata : BOOLEAN, transport : {"rest", "grpc"}]
BY ConcurrencyAssumption, LeaseAssumption, JobAssumption, ConfigAssumption

\* Fewer jobs in flight still fit the slots.
LEMMA FewerFit ==
    ASSUME NEW S, NEW T \in SUBSET Job, S \subseteq T, Cardinality(T) <= Concurrency
    PROVE  Cardinality(S) <= Concurrency
<1>1. IsFiniteSet(T)
  BY Constants, FS_Subset
<1>2. IsFiniteSet(S) /\ Cardinality(S) <= Cardinality(T)
  BY <1>1, FS_Subset
<1> QED BY SMTT(40), <1>1, <1>2, FS_CardinalityType, Constants

\* A step of tasks alone: none starts, deadlines stay within those of the rows,
\* and answers are at most consumed.
LEMMA TaskStep ==
    ASSUME IInv, UNCHANGED <<config, rows, loop, polled, running, runs>>,
           now' \in Nat, now' >= now, aborted' \in BOOLEAN, tasks' \in [Job -> Task],
           renewals' \in [Job -> Nat \cup {NoAnswer}],
           \A j \in Job : tasks'[j].pc \in InFlight =>
               /\ tasks[j].pc \in InFlight /\ tasks'[j].run = tasks[j].run
               /\ tasks'[j].expiry <= rows[j].until,
           \A j \in Job : tasks[j].pc = "none" => tasks'[j].pc = "none",
           \A j \in Job : tasks'[j].pc \in InFlight =>
               /\ tasks'[j].beat # "off" => config.metadata
               /\ tasks'[j].lost => tasks'[j].beat = "off" /\ NothingToReport(j)',
           \A j \in Job : renewals'[j] \in {NoAnswer, renewals[j]}
    PROVE  IInv'
<1>1. TypeOK'
  BY DEF IInv, TypeOK
<1>2. Slots'
  <2>1. Held' \subseteq Held /\ Held \in SUBSET Job
    BY DEF IInv, TypeOK, Held, Active
  <2>2. Cardinality(Held') <= Concurrency
    BY <2>1, FewerFit DEF IInv, Slots
  <2> QED BY <2>2 DEF IInv, Slots, Active
<1>3. Fresh'
  BY DEF IInv, Fresh
<1>4. Leases'
  BY SMTT(40), Constants DEF IInv, TypeOK, Row, Leases, Active
<1>5. Losses'
  BY DEF Losses, Active
<1> QED BY <1>1, <1>2, <1>3, <1>4, <1>5 DEF IInv

\* A step of the engine alone: no row becomes available, no lease shrinks.
LEMMA RowStep ==
    ASSUME IInv, UNCHANGED <<config, now, loop, polled, running, aborted, runs, tasks>>,
           rows' \in [Job -> Row], renewals' \in [Job -> Nat \cup {NoAnswer}],
           \A j \in Job : /\ rows'[j].status = "available" => rows[j].status = "available"
                          /\ rows'[j].until >= rows[j].until
                          /\ rows'[j].until <= now + Lease
                          /\ renewals'[j] # NoAnswer => rows'[j].until >= renewals'[j]
                          /\ rows'[j].status = "expired" => rows'[j].until <= now
                          /\ LockGone(j) => LockGone(j)'
    PROVE  IInv'
<1>1. TypeOK'
  BY DEF IInv, TypeOK
<1>2. Slots'
  BY DEF IInv, Slots, Active, Held
<1>3. Fresh'
  BY DEF IInv, Fresh
<1>4. Leases'
  BY SMTT(40), Constants DEF IInv, TypeOK, Row, Task, Leases, Active
<1>5. Losses'
  BY DEF IInv, Losses, Active, NothingToReport
<1> QED BY <1>1, <1>2, <1>3, <1>4, <1>5 DEF IInv

\* A step of the poll loop alone: it may end the poll under way.
LEMMA LoopStep ==
    ASSUME IInv, UNCHANGED <<config, now, rows, tasks, renewals>>, aborted' \in BOOLEAN,
           loop' \in LoopState, running' \in BOOLEAN, runs' \in Nat, polled' \subseteq polled,
           polled' # {} => loop' = "polling",
           loop' \notin {"idle", "stopped"} => running',
           \A j \in Job : Active(j) => running' /\ runs' = runs /\ (aborted => aborted')
    PROVE  IInv'
<1>1. TypeOK'
  BY DEF IInv, TypeOK
<1>2. Slots'
  <2>1. Held' \subseteq Held /\ Held \in SUBSET Job
    BY DEF IInv, TypeOK, Held, Active
  <2>2. Cardinality(Held') <= Concurrency
    BY <2>1, FewerFit DEF IInv, Slots
  <2> QED BY <2>2 DEF IInv, Slots, Active
<1>3. Fresh'
  BY DEF IInv, Fresh
<1>4. Leases'
  BY DEF IInv, Leases, Active
<1>5. Losses'
  BY DEF IInv, Losses, Active, NothingToReport, LockGone
<1> QED BY <1>1, <1>2, <1>3, <1>4, <1>5 DEF IInv

--------------------------------------------------------------------------------
(* The poll loop. *)

\* The steps of the loop of run() that take no job.
LEMMA LoopInv ==
    ASSUME IInv, Run \/ Poll \/ PollFails \/ Awakes \/ LoopEnds \/ Drained \/ DrainTimesOut
    PROVE  IInv'
<1> USE DEF LoopState
<1>0. /\ runs \in Nat /\ running \in BOOLEAN /\ aborted \in BOOLEAN /\ loop \in LoopState
      /\ polled # {} => loop = "polling"
      /\ loop \notin {"idle", "stopped"} => running
      /\ \A j \in Job : Active(j) => running /\ tasks[j].run = runs
  BY DEF IInv, TypeOK, Slots
<1>1. CASE Run
  <2>1. polled = {} /\ \A j \in Job : ~Active(j)
    BY <1>0, <1>1 DEF Run
  <2>2. /\ loop' = "ready" /\ running' = TRUE /\ aborted' = FALSE /\ runs' \in Nat /\ polled' = {}
        /\ UNCHANGED <<config, now, rows, tasks, renewals>>
    BY SMTT(40), <1>0, <1>1, <2>1 DEF Run
  <2> QED BY <2>1, <2>2, LoopStep
<1>2. CASE Poll
  BY <1>0, <1>2, LoopStep DEF Poll
<1>3. CASE PollFails
  BY <1>0, <1>3, LoopStep DEF PollFails
<1>4. CASE Awakes
  BY <1>0, <1>4, LoopStep DEF Awakes
<1>5. CASE LoopEnds
  BY <1>0, <1>5, LoopStep DEF LoopEnds
<1>6. CASE Drained
  <2>1. \A j \in Job : ~Active(j)
    BY <1>0, <1>6 DEF Drained, inFlight
  <2> QED BY <1>0, <1>6, <2>1, LoopStep DEF Drained
<1>7. CASE DrainTimesOut
  BY <1>0, <1>7, LoopStep DEF DrainTimesOut
<1> QED BY <1>1, <1>2, <1>3, <1>4, <1>5, <1>6, <1>7

\* The engine leases no more rows than the poll asked for, and the poll asked
\* for the slots the tasks leave.
LEMMA PollServedInv ==
    ASSUME IInv, NEW S \in SUBSET Job, PollServed(S)
    PROVE  IInv'
<1>0. /\ UNCHANGED <<config, now, loop, running, aborted, runs, tasks, renewals>>
      /\ loop = "polling" /\ polled = {} /\ polled' = S /\ now \in Nat
      /\ Cardinality(S) <= Free
      /\ \A j \in S : rows[j].status = "available"
      /\ rows' = [j \in Job |->
                    IF j \in S THEN [status |-> "leased", until |-> now + Lease] ELSE rows[j]]
  BY DEF IInv, TypeOK, PollServed
<1>1. TypeOK'
  BY SMTT(40), <1>0, Constants DEF IInv, TypeOK, Row
<1>2. Slots'
  <2>1. {j \in Job : Active(j)} = inFlight
    BY DEF IInv, Slots, inFlight
  <2>2. Held' = inFlight \cup S
    BY <1>0, <2>1 DEF Held, Active
  <2>3. IsFiniteSet(inFlight) /\ IsFiniteSet(S)
    BY Constants, FS_Subset DEF inFlight
  <2>4. Cardinality(inFlight) \in Nat /\ Cardinality(S) \in Nat
    BY <2>3, FS_CardinalityType
  <2>5. Cardinality(inFlight \cup S) <= Cardinality(inFlight) + Cardinality(S)
    <3>1. /\ Cardinality(inFlight \cup S) =
               Cardinality(inFlight) + Cardinality(S) - Cardinality(inFlight \cap S)
          /\ IsFiniteSet(inFlight \cap S)
      BY <2>3, FS_Union, FS_Intersection
    <3>2. Cardinality(inFlight \cap S) \in Nat
      BY <3>1, FS_CardinalityType
    <3> QED BY SMTT(40), <2>4, <3>1, <3>2
  <2>6. IsFiniteSet(inFlight \cup S)
    BY <2>3, FS_Union
  <2>7. Cardinality(inFlight \cup S) \in Nat
    BY <2>6, FS_CardinalityType
  <2>8. Cardinality(Held') <= Concurrency
    BY SMTT(40), <1>0, <2>2, <2>4, <2>5, <2>7, Constants DEF Free
  <2> QED BY <1>0, <2>8 DEF IInv, Slots, Active
<1>3. Fresh'
  BY <1>0 DEF IInv, TypeOK, Row, Fresh
<1>4. Leases'
  BY SMTT(40), <1>0, Constants DEF IInv, TypeOK, Row, Task, Leases, Active, Fresh, InFlight
<1>5. Losses'
  <2> SUFFICES ASSUME NEW j \in Job, Active(j)
               PROVE  /\ tasks[j].beat # "off" => config.metadata
                      /\ tasks[j].lost => tasks[j].beat = "off" /\ NothingToReport(j)'
    BY <1>0 DEF Losses, Active
  <2>1. j \notin S
    BY <1>0 DEF IInv, Fresh, Active, InFlight
  <2>2. rows'[j] = rows[j]
    BY <1>0, <2>1
  <2> QED BY <1>0, <2>2 DEF IInv, Losses, NothingToReport, LockGone
<1> QED BY <1>1, <1>2, <1>3, <1>4, <1>5 DEF IInv

\* A poll that returns turns its rows into tasks: as many as it asked for at most.
LEMMA PollReturnsInv ==
    ASSUME IInv, PollReturns
    PROVE  IInv'
<1>0. /\ UNCHANGED <<config, now, rows, running, runs, renewals>>
      /\ loop = "polling" /\ polled' = {} /\ loop' \in {"sleeping", "ready"}
      /\ aborted' \in BOOLEAN /\ running = TRUE /\ (aborted => aborted')
      /\ \A j \in Job : j \notin polled => tasks'[j] = tasks[j]
      /\ \A j \in polled : \/ tasks'[j] = [tasks[j] EXCEPT !.pc = "settled"]
                           \/ /\ tasks'[j].pc \in {"opening", "handling"}
                              /\ tasks'[j].run = runs /\ tasks'[j].expiry = rows[j].until
                              /\ ~tasks'[j].lost /\ (tasks'[j].beat # "off" => config.metadata)
  BY DEF IInv, TypeOK, Slots, PollReturns, Begin, CannotBeat
<1>1. TypeOK'
  <2>1. tasks' \in [Job -> Task]
    BY SMTT(40) DEF IInv, TypeOK, PollReturns, Begin, Task, Row, TaskState, InFlight, BeatState
  <2> QED BY <1>0, <2>1 DEF IInv, TypeOK, LoopState
<1>2. Slots'
  <2>1. Held' \subseteq Held /\ Held \in SUBSET Job
    BY <1>0 DEF IInv, TypeOK, Held, Active
  <2>2. Cardinality(Held') <= Concurrency
    BY <2>1, FewerFit DEF IInv, Slots
  <2>3. \A j \in Job : Active(j)' => running' /\ tasks'[j].run = runs'
    <3> SUFFICES ASSUME NEW j \in Job, tasks'[j].pc \in InFlight PROVE tasks'[j].run = runs
      BY <1>0 DEF Active
    <3>1. CASE j \in polled
      <4>1. tasks'[j] # [tasks[j] EXCEPT !.pc = "settled"]
        BY DEF IInv, TypeOK, Task, InFlight
      <4> QED BY <1>0, <3>1, <4>1
    <3>2. CASE j \notin polled
      <4>1. tasks'[j] = tasks[j]
        BY <1>0, <3>2
      <4> QED BY <4>1 DEF IInv, Slots, Active
    <3> QED BY <3>1, <3>2
  <2> QED BY <1>0, <2>2, <2>3 DEF Slots
<1>3. Fresh'
  BY <1>0 DEF IInv, Fresh
<1>4. Leases'
  <2>1. ASSUME NEW j \in Job, Active(j)' PROVE rows[j].until >= tasks'[j].expiry
    <3>1. CASE j \in polled
      <4>1. tasks[j] \in Task /\ rows[j].until \in Nat /\ tasks'[j].pc \in InFlight
        BY <2>1 DEF IInv, TypeOK, Row, Active
      <4>2. tasks'[j] # [tasks[j] EXCEPT !.pc = "settled"]
        BY <4>1 DEF Task, InFlight
      <4> QED BY SMTT(40), <1>0, <3>1, <4>1, <4>2
    <3>2. CASE j \notin polled
      BY <1>0, <2>1, <3>2 DEF IInv, Leases, Active
    <3> QED BY <3>1, <3>2
  <2> QED BY <1>0, <2>1 DEF IInv, Leases
<1>5. Losses'
  <2> SUFFICES ASSUME NEW j \in Job, tasks'[j].pc \in InFlight
               PROVE  /\ tasks'[j].beat # "off" => config.metadata
                      /\ tasks'[j].lost => tasks'[j].beat = "off" /\ NothingToReport(j)'
    BY <1>0 DEF Losses, Active
  <2>1. CASE j \in polled
    <3>1. tasks'[j] # [tasks[j] EXCEPT !.pc = "settled"]
      BY DEF IInv, TypeOK, Task, InFlight
    <3> QED BY <1>0, <2>1, <3>1
  <2>2. CASE j \notin polled
    <3>1. tasks'[j] = tasks[j] /\ Active(j)
      BY <1>0, <2>2 DEF Active
    <3> QED BY <1>0, <3>1 DEF IInv, Losses, NothingToReport, LockGone
  <2> QED BY <2>1, <2>2
<1> QED BY <1>1, <1>2, <1>3, <1>4, <1>5 DEF IInv

--------------------------------------------------------------------------------
(* The engine. *)

\* The steps of the engine: serving a callback or a heartbeat, expiring and withdrawing rows.
LEMMA EngineInv ==
    ASSUME IInv, NEW j \in Job, Engine(j)
    PROVE  IInv'
<1>0. /\ now \in Nat /\ rows \in [Job -> Row] /\ renewals \in [Job -> Nat \cup {NoAnswer}]
      /\ \A i \in Job : /\ rows[i].until <= now + Lease
                        /\ renewals[i] # NoAnswer => rows[i].until >= renewals[i]
                        /\ rows[i].status = "expired" => rows[i].until <= now
  BY DEF IInv, TypeOK, Leases
<1>1. ASSUME NEW st \in {"done", "expired", "withdrawn"}, rows' = [rows EXCEPT ![j].status = st],
             st = "expired" => rows[j].until <= now,
             UNCHANGED <<config, now, loop, polled, running, aborted, runs, tasks, renewals>>
      PROVE  IInv'
  <2>1. /\ rows' \in [Job -> Row]
        /\ \A i \in Job : /\ rows'[i].status = "available" => rows[i].status = "available"
                          /\ rows'[i].until = rows[i].until
                          /\ rows'[i].status = "expired" => rows[i].until <= now
                          /\ rows'[i].status = "leased" => rows[i].status = "leased"
    BY <1>0, <1>1 DEF Row
  <2>2. \A i \in Job : rows[i].until \in Nat
    BY <1>0 DEF Row
  <2>3. \A i \in Job : LockGone(i) => LockGone(i)'
    BY <1>1, <2>1 DEF LockGone
  <2> QED BY SMTT(40), <1>0, <1>1, <2>1, <2>2, <2>3, RowStep
<1>2. CASE RenewalServed(j)
  <2>1. /\ rows' \in [Job -> Row] /\ renewals' \in [Job -> Nat \cup {NoAnswer}]
        /\ \A i \in Job : /\ rows'[i].status = rows[i].status
                          /\ rows'[i].until >= rows[i].until
                          /\ rows'[i].until <= now + Lease
                          /\ renewals'[i] # NoAnswer => rows'[i].until >= renewals'[i]
    BY SMTT(40), <1>0, <1>2, Constants DEF RenewalServed, Row
  <2>2. \A i \in Job : /\ rows'[i] = rows[i] \/ i = j
                       /\ rows'[i].status = "expired" => rows'[i].until <= now
                       /\ LockGone(i) => LockGone(i)'
    BY SMTT(40), <1>0, <1>2, <2>1 DEF RenewalServed, Row, LockGone
  <2> QED BY <1>2, <2>1, <2>2, RowStep DEF RenewalServed
<1> QED BY <1>1, <1>2 DEF Engine, Expires, Cancels, CallbackServed

--------------------------------------------------------------------------------
(* Tasks. *)

\* What the invariant says of one task.
LEMMA TaskFacts ==
    ASSUME IInv
    PROVE  /\ now \in Nat /\ aborted \in BOOLEAN /\ config \in Config
           /\ rows \in [Job -> Row] /\ tasks \in [Job -> Task]
           /\ renewals \in [Job -> Nat \cup {NoAnswer}]
           /\ \A j \in Job : /\ tasks[j].pc \in InFlight => tasks[j].expiry <= rows[j].until
                             /\ renewals[j] # NoAnswer => renewals[j] <= rows[j].until
                             /\ tasks[j].pc \in InFlight =>
                                   /\ tasks[j].beat # "off" => config.metadata
                                   /\ tasks[j].lost => tasks[j].beat = "off" /\ NothingToReport(j)
BY DEF IInv, TypeOK, Leases, Losses, Active, Task, Row

\* A reason to report nothing lasts while the task keeps its deadline.
LEMMA StillNothing ==
    ASSUME IInv, NEW j \in Job, NothingToReport(j), tasks'[j].expiry = tasks[j].expiry,
           now' \in Nat, now' >= now, aborted => aborted', UNCHANGED <<config, rows>>
    PROVE  NothingToReport(j)'
<1>1. now \in Nat /\ rows[j].until \in Nat /\ tasks[j].expiry \in Nat
  BY TaskFacts DEF Row, Task
<1> QED BY SMTT(40), <1>1 DEF NothingToReport, LockGone

\* Aborting a task never puts it back in flight and changes no deadline.
LEMMA AbortedFacts ==
    ASSUME NEW t \in Task
    PROVE  /\ Aborted(t) \in Task
           /\ Aborted(t).pc \in InFlight =>
                 Aborted(t).pc = t.pc /\ Aborted(t).run = t.run /\ Aborted(t).expiry = t.expiry
           /\ Aborted(t).pc \in {t.pc, "settled"} /\ Aborted(t).beat = "off"
           /\ t.pc = "none" => Aborted(t).pc = "none"
<1> DEFINE b == t.pc \in InFlight
<1>1. CASE t.pc \in {"opening", "backoff"}
  <2>1. Aborted(t) = [t EXCEPT !.pc = "settled", !.lost = TRUE, !.beat = "off"]
    BY <1>1 DEF Aborted
  <2> QED BY <1>1, <2>1 DEF Task, TaskState, InFlight, BeatState
<1>2. CASE t.pc \notin {"opening", "backoff"}
  <2>1. Aborted(t) = [t EXCEPT !.lost = b, !.beat = "off"]
    BY <1>2 DEF Aborted
  <2>2. b \in BOOLEAN
    BY SMTT(40)
  <2> HIDE DEF b
  <2> QED BY <2>1, <2>2 DEF Task, TaskState, InFlight, BeatState
<1> QED BY <1>1, <1>2

\* An abort of the run marks every task, and no task gains by it.
LEMMA AbortRunInv ==
    ASSUME IInv, AbortRun, UNCHANGED <<config, now, rows, loop, polled, running, runs>>
    PROVE  IInv'
<1>1. /\ tasks' \in [Job -> Task] /\ renewals' \in [Job -> Nat \cup {NoAnswer}]
      /\ \A j \in Job : tasks'[j] = Aborted(tasks[j]) /\ tasks[j] \in Task
      /\ \A j \in Job : renewals'[j] = NoAnswer
  BY TaskFacts, AbortedFacts DEF AbortRun
<1>2. aborted' = TRUE /\ now \in Nat /\ \A j \in Job : NothingToReport(j)'
  BY TaskFacts DEF AbortRun, NothingToReport
<1>3. \A j \in Job : /\ tasks'[j].beat = "off"
                     /\ tasks'[j].pc \in InFlight => /\ tasks[j].pc \in InFlight
                                                    /\ tasks'[j].run = tasks[j].run
                                                    /\ tasks'[j].expiry <= rows[j].until
                     /\ tasks[j].pc = "none" => tasks'[j].pc = "none"
  BY SMTT(40), <1>1, TaskFacts, AbortedFacts
<1>4. now' \in Nat /\ now' >= now
  BY SMTT(40), <1>2
<1> QED BY <1>1, <1>2, <1>3, <1>4, TaskStep

\* A lease timer that fires only takes belief away.
LEMMA AbortLeaseInv ==
    ASSUME IInv, NEW k \in Job, AbortLease(k), tasks[k].pc \in InFlight => NothingToReport(k),
           UNCHANGED <<config, now, rows, loop, polled, running, runs>>
    PROVE  IInv'
<1>1. /\ tasks' \in [Job -> Task] /\ renewals' \in [Job -> Nat \cup {NoAnswer}]
      /\ \A j \in Job : /\ tasks[j] \in Task
                        /\ tasks'[j] = IF j = k THEN Aborted(tasks[j]) ELSE tasks[j]
      /\ \A j \in Job : renewals'[j] \in {NoAnswer, renewals[j]}
  BY TaskFacts, AbortedFacts DEF AbortLease
<1>2. now' \in Nat /\ now' >= now /\ aborted' = aborted /\ aborted' \in BOOLEAN
  BY SMTT(40), TaskFacts DEF AbortLease
<1>3. \A j \in Job : /\ tasks'[j].pc \in InFlight => /\ tasks[j].pc \in InFlight
                                                    /\ tasks'[j].run = tasks[j].run
                                                    /\ tasks'[j].expiry = tasks[j].expiry
                                                    /\ tasks'[j].expiry <= rows[j].until
                     /\ tasks[j].pc = "none" => tasks'[j].pc = "none"
  BY SMTT(40), <1>1, TaskFacts, AbortedFacts
<1>4. ASSUME NEW j \in Job, tasks'[j].pc \in InFlight
      PROVE  /\ tasks'[j].beat # "off" => config.metadata
             /\ tasks'[j].lost => tasks'[j].beat = "off" /\ NothingToReport(j)'
  <2>1. CASE j = k
    <3>1. tasks'[j].beat = "off" /\ NothingToReport(j) /\ tasks'[j].expiry = tasks[j].expiry
      BY SMTT(40), <1>1, <1>3, <1>4, <2>1, AbortedFacts
    <3> QED BY <1>2, <3>1, StillNothing
  <2>2. CASE j # k
    <3>1. tasks'[j] = tasks[j]
      BY <1>1, <2>2
    <3> QED BY <1>2, <1>4, <3>1, TaskFacts, StillNothing
  <2> QED BY <2>1, <2>2
<1> QED BY <1>1, <1>2, <1>3, <1>4, TaskStep

\* One task moves on and keeps its run; its deadline stays within its row's.
LEMMA OneTaskStep ==
    ASSUME IInv, NEW k \in Job, NEW t \in Task, tasks' = [tasks EXCEPT ![k] = t],
           t.pc \in InFlight => /\ tasks[k].pc \in InFlight /\ t.run = tasks[k].run
                                /\ t.expiry <= rows[k].until
                                /\ t.beat # "off" => config.metadata
                                /\ t.lost => /\ tasks[k].lost /\ t.beat = "off"
                                             /\ t.expiry = tasks[k].expiry,
           tasks[k].pc = "none" => t.pc = "none",
           renewals' = renewals \/ renewals' = [renewals EXCEPT ![k] = NoAnswer],
           now' \in Nat, now' >= now,
           UNCHANGED <<config, rows, loop, polled, running, aborted, runs>>
    PROVE  IInv'
<1>1. /\ tasks' \in [Job -> Task] /\ renewals' \in [Job -> Nat \cup {NoAnswer}]
      /\ \A j \in Job : tasks'[j] = IF j = k THEN t ELSE tasks[j]
      /\ \A j \in Job : renewals'[j] \in {NoAnswer, renewals[j]}
  BY TaskFacts
<1>2. ASSUME NEW j \in Job, tasks'[j].pc \in InFlight
      PROVE  /\ tasks'[j].beat # "off" => config.metadata
             /\ tasks'[j].lost => tasks'[j].beat = "off" /\ NothingToReport(j)'
  <2>1. CASE j = k
    <3>1. /\ tasks'[j] = t /\ tasks[j].pc \in InFlight /\ (t.beat # "off" => config.metadata)
          /\ t.lost => tasks[j].lost /\ t.beat = "off" /\ t.expiry = tasks[j].expiry
      BY <1>1, <1>2, <2>1
    <3> QED BY <3>1, TaskFacts, StillNothing
  <2>2. CASE j # k
    <3>1. tasks'[j] = tasks[j]
      BY <1>1, <2>2
    <3> QED BY <1>2, <3>1, TaskFacts, StillNothing
  <2> QED BY <2>1, <2>2
<1>3. \A j \in Job : /\ tasks'[j].pc \in InFlight => /\ tasks[j].pc \in InFlight
                                                    /\ tasks'[j].run = tasks[j].run
                                                    /\ tasks'[j].expiry <= rows[j].until
                     /\ tasks[j].pc = "none" => tasks'[j].pc = "none"
  BY <1>1, TaskFacts
<1>4. aborted' \in BOOLEAN
  BY TaskFacts
<1> QED BY <1>1, <1>2, <1>3, <1>4, TaskStep

\* A task counts its lease lost when its deadline is over, or when the engine
\* answers that the lock is gone.
LEMMA LosesForAReason ==
    ASSUME IInv, NEW j \in Job, tasks[j].pc \in InFlight, RenewalLosesLease(j) \/ ExpiryTimer(j)
    PROVE  NothingToReport(j)
<1>0. now \in Nat /\ tasks[j].expiry \in Nat /\ config \in Config
  BY TaskFacts DEF Task
<1>1. CASE ExpiryTimer(j)
  BY <1>1 DEF ExpiryTimer, NothingToReport
<1>2. CASE RenewalLosesLease(j) /\ now >= tasks[j].expiry
  <2>1. config.metadata
    BY <1>2, TaskFacts DEF RenewalLosesLease
  <2> QED BY SMTT(40), <1>0, <1>2, <2>1 DEF NothingToReport
<1>3. CASE \E code \in RenewalErrors(j) : LeaseLost(code)
  <2>1. LockGone(j)
    BY SMTT(40), <1>3 DEF RenewalErrors, LeaseLost, Transient, NoLock, NoEndpoint
  <2> QED BY <2>1 DEF NothingToReport
<1> QED BY <1>1, <1>2, <1>3 DEF RenewalLosesLease

\* A renewal moves the deadline a task knows no further than the engine has moved the row.
LEMMA BeatInv ==
    ASSUME IInv, NEW j \in Job, Beat(j)
    PROVE  IInv'
<1>0. /\ now \in Nat /\ tasks[j] \in Task /\ tasks \in [Job -> Task] /\ rows[j].until \in Nat
      /\ renewals[j] \in Nat \cup {NoAnswer}
      /\ tasks[j].pc \in InFlight => tasks[j].expiry <= rows[j].until
      /\ renewals[j] # NoAnswer => renewals[j] <= rows[j].until
      /\ tasks[j].pc \in InFlight /\ tasks[j].beat # "off" => config.metadata /\ ~tasks[j].lost
  BY TaskFacts DEF Row
<1>1. CASE RenewalAccepted(j)
  <2> DEFINE t == [tasks[j] EXCEPT !.expiry = renewals[j], !.beat = "sleeping",
                                   !.pc = IF @ = "opening" THEN "handling" ELSE @]
  <2>1. tasks' = [tasks EXCEPT ![j] = t]
    BY <1>1, <1>0 DEF RenewalAccepted
  <2>2. /\ t \in Task /\ t.run = tasks[j].run /\ t.expiry <= rows[j].until /\ t.lost = tasks[j].lost
        /\ t.pc = IF tasks[j].pc = "opening" THEN "handling" ELSE tasks[j].pc
    BY <1>0, <1>1 DEF RenewalAccepted, Task, TaskState, InFlight, BeatState
  <2>3. /\ t.pc \in InFlight => tasks[j].pc \in InFlight /\ config.metadata /\ ~t.lost
        /\ tasks[j].pc = "none" => t.pc = "none"
    BY SMTT(40), <1>0, <1>1, <2>2 DEF RenewalAccepted, InFlight
  <2>4. /\ now' \in Nat /\ now' >= now /\ renewals' = [renewals EXCEPT ![j] = NoAnswer]
        /\ UNCHANGED <<config, rows, loop, polled, running, aborted, runs>>
    BY SMTT(40), <1>0, <1>1 DEF RenewalAccepted
  <2> HIDE DEF t
  <2> QED BY <2>1, <2>2, <2>3, <2>4, OneTaskStep
<1>2. CASE RenewalLosesLease(j)
  BY <1>2, LosesForAReason, AbortLeaseInv DEF RenewalLosesLease
<1>3. CASE RenewalIsFatal(j)
  BY <1>3, AbortRunInv DEF RenewalIsFatal
<1>4. CASE RenewalFails(j) \/ BeatTimer(j)
  <2>1. PICK b \in BeatState : tasks' = [tasks EXCEPT ![j] = [@ EXCEPT !.beat = b]]
    BY <1>0, <1>4 DEF RenewalFails, BeatTimer, BeatState
  <2> DEFINE t == [tasks[j] EXCEPT !.beat = b]
  <2>2. /\ t \in Task /\ t.run = tasks[j].run /\ t.expiry = tasks[j].expiry /\ t.pc = tasks[j].pc
        /\ t.lost = tasks[j].lost /\ tasks' = [tasks EXCEPT ![j] = t]
    BY <1>0, <2>1 DEF Task
  <2>3. /\ now' \in Nat /\ now' >= now /\ tasks[j].beat # "off"
        /\ renewals' = renewals \/ renewals' = [renewals EXCEPT ![j] = NoAnswer]
        /\ UNCHANGED <<config, rows, loop, polled, running, aborted, runs>>
    BY SMTT(40), <1>0, <1>4 DEF RenewalFails, BeatTimer
  <2> HIDE DEF t
  <2> QED BY <1>0, <2>2, <2>3, OneTaskStep
<1>5. CASE ExpiryTimer(j)
  BY <1>5, LosesForAReason, AbortLeaseInv DEF ExpiryTimer
<1> QED BY <1>1, <1>2, <1>3, <1>4, <1>5 DEF Beat

\* The status codes of a busy engine are not taken for a refusal.
LEMMA TransientIsNotPermanent ==
    ASSUME NEW code \in Transient
    PROVE  ~permanent(code)
BY SMTT(40) DEF Transient, permanent

\* The steps of one task from its lease to its end.
LEMMA DispatchInv ==
    ASSUME IInv, NEW j \in Job, Dispatch(j)
    PROVE  IInv'
<1>0. /\ now \in Nat /\ tasks[j] \in Task /\ tasks \in [Job -> Task] /\ rows[j].until \in Nat
      /\ tasks[j].pc \in InFlight =>
            /\ tasks[j].expiry <= rows[j].until
            /\ tasks[j].beat # "off" => config.metadata
            /\ tasks[j].lost => tasks[j].beat = "off"
  BY TaskFacts DEF Row
<1>1. ASSUME NEW st \in {"settled", "acknowledged", "rejected"}
      PROVE  /\ Settle(tasks[j], st) \in Task
             /\ Settle(tasks[j], st).pc = st /\ st \notin InFlight
  BY <1>0 DEF Settle, Task, TaskState, BeatState, InFlight
<1>2. ASSUME NEW st \in {"calling", "backoff"}
      PROVE  LET t == [tasks[j] EXCEPT !.pc = st]
             IN  /\ t \in Task /\ t.run = tasks[j].run /\ t.expiry = tasks[j].expiry
                 /\ t.pc = st /\ t.lost = tasks[j].lost /\ t.beat = tasks[j].beat
  BY <1>0 DEF Task, TaskState, InFlight
<1>3. ASSUME tasks[j].pc = "calling", NEW t \in Task, Answer(j, t),
             t.pc \in InFlight => /\ t.run = tasks[j].run /\ t.expiry = tasks[j].expiry
                                  /\ t.lost = tasks[j].lost /\ t.beat = tasks[j].beat
      PROVE  IInv'
  <2>1. /\ tasks[j].pc \in InFlight /\ tasks[j].pc # "none" /\ now' \in Nat /\ now' >= now
        /\ tasks' = [tasks EXCEPT ![j] = t]
        /\ renewals' = renewals \/ renewals' = [renewals EXCEPT ![j] = NoAnswer]
        /\ UNCHANGED <<config, rows, loop, polled, running, aborted, runs>>
    BY SMTT(40), <1>0, <1>3 DEF Answer, InFlight
  <2> QED BY <1>0, <1>3, <2>1, OneTaskStep
<1>4. ASSUME NEW d \in {0, 1}, HandlerReturns(j, d) PROVE IInv'
  <2>1. PICK t \in {Settle(tasks[j], "settled"), [tasks[j] EXCEPT !.pc = "calling"]} :
           tasks' = [tasks EXCEPT ![j] = t]
    BY <1>0, <1>4 DEF HandlerReturns
  <2>2. /\ t \in Task
        /\ t.pc \in InFlight => /\ t.run = tasks[j].run /\ t.expiry = tasks[j].expiry
                                /\ t.lost = tasks[j].lost /\ t.beat = tasks[j].beat
    BY <1>1, <1>2, <2>1
  <2>3. /\ tasks[j].pc \in InFlight /\ tasks[j].pc # "none" /\ now' \in Nat /\ now' >= now
        /\ renewals' = renewals \/ renewals' = [renewals EXCEPT ![j] = NoAnswer]
        /\ UNCHANGED <<config, rows, loop, polled, running, aborted, runs>>
    BY SMTT(40), <1>0, <1>4 DEF HandlerReturns, InFlight
  <2> QED BY <1>0, <2>1, <2>2, <2>3, OneTaskStep
<1>5. CASE CallbackAcknowledged(j)
  <2>1. PICK t \in {Settle(tasks[j], "settled"), Settle(tasks[j], "acknowledged")} : Answer(j, t)
    BY <1>5 DEF CallbackAcknowledged
  <2>2. t \in Task /\ t.pc \notin InFlight
    BY <1>1, <2>1
  <2> QED BY <1>0, <1>5, <1>3, <2>1, <2>2 DEF CallbackAcknowledged
<1>6. CASE CallbackFails(j)
  <2>1. PICK code \in Transient \cup (IF j \in Unacceptable THEN {BadRequest} ELSE {}) :
           Answer(j, IF tasks[j].lost THEN Settle(tasks[j], "settled")
                     ELSE IF permanent(code) THEN Settle(tasks[j], "rejected")
                     ELSE IF ~config.metadata THEN Settle(tasks[j], "settled")
                     ELSE [tasks[j] EXCEPT !.pc = "backoff"])
    BY <1>6 DEF CallbackFails
  <2>2. PICK t : /\ Answer(j, t)
                 /\ \/ \E st \in {"settled", "rejected"} : t = Settle(tasks[j], st)
                    \/ t = [tasks[j] EXCEPT !.pc = "backoff"]
    BY <2>1
  <2>3. tasks[j].pc = "calling"
    BY <1>6 DEF CallbackFails
  <2>4. CASE \E st \in {"settled", "rejected"} : t = Settle(tasks[j], st)
    <3>1. t \in Task /\ t.pc \notin InFlight
      BY <1>1, <2>4
    <3> QED BY <1>3, <2>2, <2>3, <3>1
  <2>5. CASE t = [tasks[j] EXCEPT !.pc = "backoff"]
    <3>1. /\ t \in Task /\ t.run = tasks[j].run /\ t.expiry = tasks[j].expiry
          /\ t.lost = tasks[j].lost /\ t.beat = tasks[j].beat
      BY <1>2, <2>5
    <3> QED BY <1>3, <2>2, <2>3, <3>1
  <2> QED BY <2>2, <2>4, <2>5
<1>7. CASE RetryTimer(j)
  <2> DEFINE t == [tasks[j] EXCEPT !.pc = "calling"]
  <2>1. tasks' = [tasks EXCEPT ![j] = t]
    BY <1>0, <1>7 DEF RetryTimer
  <2>2. /\ tasks[j].pc \in InFlight /\ tasks[j].pc # "none" /\ now' \in Nat /\ now' >= now
        /\ UNCHANGED <<config, rows, loop, polled, running, aborted, runs, renewals>>
    BY SMTT(40), <1>0, <1>7 DEF RetryTimer, InFlight
  <2>3. /\ t \in Task /\ t.run = tasks[j].run /\ t.expiry = tasks[j].expiry /\ t.pc = "calling"
        /\ t.lost = tasks[j].lost /\ t.beat = tasks[j].beat
    BY <1>2
  <2> HIDE DEF t
  <2> QED BY <1>0, <2>1, <2>2, <2>3, OneTaskStep
<1> QED BY <1>4, <1>5, <1>6, <1>7 DEF Dispatch

\* The clock moves on and nothing else does.
LEMMA TickInv ==
    ASSUME IInv, Tick
    PROVE  IInv'
<1>1. now \in Nat /\ now' \in Nat /\ now' >= now
  BY SMTT(40), TaskFacts DEF Tick
<1>2. UNCHANGED <<config, rows, loop, polled, running, aborted, runs, tasks, renewals>>
  BY DEF Tick
<1>3. \A j \in Job : tasks[j].pc \in InFlight /\ tasks[j].lost => NothingToReport(j)'
  BY <1>1, <1>2, TaskFacts, StillNothing
<1> QED BY <1>1, <1>2, <1>3, TaskFacts, TaskStep

--------------------------------------------------------------------------------
\* The first of the three facts of the invariance.
LEMMA InitIInv == Init => IInv
<1> SUFFICES ASSUME Init PROVE IInv
  OBVIOUS
<1>1. TypeOK
  BY DEF Init, TypeOK, Row, Task, TaskState, BeatState, LoopState, InFlight
<1>2. Slots
  <2>1. Held = {}
    BY DEF Init, Held, Active, InFlight
  <2> QED BY SMTT(40), <2>1, FS_EmptySet, Constants DEF Init, Slots, Active, InFlight
<1>3. Fresh /\ Leases /\ Losses
  BY SMTT(40), Constants DEF Init, Fresh, Leases, Losses, Active, InFlight
<1> QED BY <1>1, <1>2, <1>3 DEF IInv

\* The second: every step keeps the invariant, action by action.
LEMMA NextIInv == IInv /\ [Next]_vars => IInv'
<1> SUFFICES ASSUME IInv, [Next]_vars PROVE IInv'
  OBVIOUS
<1>1. CASE Loop
  BY <1>1, LoopInv, PollReturnsInv, AbortRunInv DEF Loop, ParentAborts
<1>2. CASE Tick
  BY <1>2, TickInv
<1>3. ASSUME NEW S \in SUBSET Job, PollServed(S) PROVE IInv'
  BY <1>3, PollServedInv
<1>4. ASSUME NEW j \in Job, Engine(j) \/ Beat(j) \/ Dispatch(j) PROVE IInv'
  BY <1>4, EngineInv, BeatInv, DispatchInv
<1>5. CASE UNCHANGED vars
  BY <1>5 DEF vars, IInv, TypeOK, Slots, Fresh, Leases, Losses, Held, Active, NothingToReport,
     LockGone
<1> QED BY <1>1, <1>2, <1>3, <1>4, <1>5 DEF Next

\* The inductive invariant holds in every reachable state.
THEOREM Invariance == Spec => []IInv
BY InitIInv, NextIInv, PTL DEF Spec

\* The state of the runner keeps its type.
THEOREM TypeCorrect == Spec => []TypeOK
<1>1. IInv => TypeOK BY DEF IInv
<1> QED BY <1>1, Invariance, PTL

\* However often run() is called, and with handlers that outlive the drain of an
\* earlier call, jobs in flight and rows being fetched never exceed concurrency.
THEOREM SlotsRespected == Spec => []ConcurrencyIsRespected
<1>1. IInv => ConcurrencyIsRespected BY DEF IInv, Slots, Held, ConcurrencyIsRespected
<1> QED BY <1>1, Invariance, PTL

\* A task whose known deadline is ahead works on a row that the engine has not
\* let expire.
THEOREM LeaseHeld == Spec => []BelievedLeaseIsHeld
<1>1. IInv => BelievedLeaseIsHeld
  <2> SUFFICES ASSUME IInv, NEW j \in Job, Believes(j)
               PROVE  /\ rows[j].status \notin {"available", "expired"}
                      /\ rows[j].until >= tasks[j].expiry
    BY DEF BelievedLeaseIsHeld
  <2>1. now \in Nat /\ rows[j].until \in Nat /\ tasks[j].expiry \in Nat
    BY TaskFacts DEF Row, Task
  <2>2. /\ rows[j].until >= tasks[j].expiry /\ now < tasks[j].expiry
        /\ rows[j].status = "expired" => rows[j].until <= now
    BY DEF IInv, Leases, Believes
  <2>3. rows[j].status # "available"
    BY DEF IInv, Fresh, Believes, Active, InFlight
  <2> QED BY SMTT(40), <2>1, <2>2, <2>3
<1> QED BY <1>1, Invariance, PTL

\* The steps that move a task on from its handler or its callback.
LEMMA TaskMoves ==
    ASSUME IInv, Next, NEW j \in Job,
           tasks[j].pc \in {"handling", "calling", "backoff"}, tasks'[j].pc # tasks[j].pc
    PROVE  \/ AbortRun
           \/ RenewalLosesLease(j) \/ ExpiryTimer(j)
           \/ \E d \in {0, 1} : HandlerReturns(j, d)
           \/ CallbackAcknowledged(j) \/ CallbackFails(j) \/ RetryTimer(j)
<1>0. tasks \in [Job -> Task] /\ tasks[j] \in Task /\ j \notin polled /\ tasks' # tasks
  BY DEF IInv, TypeOK, Fresh
<1>1. CASE Loop
  <2>1. ~PollReturns
    BY <1>0 DEF PollReturns, Begin
  <2> QED BY <1>0, <1>1, <2>1 DEF Loop, Run, Poll, PollFails, Awakes, ParentAborts, LoopEnds,
             Drained, DrainTimesOut
<1>2. ~Tick /\ ~\E S \in SUBSET Job : PollServed(S)
  BY <1>0 DEF Tick, PollServed
<1>3. ASSUME NEW k \in Job PROVE ~Engine(k)
  BY <1>0 DEF Engine, Expires, Cancels, RenewalServed, CallbackServed
<1>4. ASSUME NEW k \in Job, NEW t, tasks' = [tasks EXCEPT ![k] = t] PROVE k = j
  BY <1>0, <1>4
<1>5. ASSUME NEW k \in Job, Beat(k)
      PROVE  AbortRun \/ RenewalLosesLease(j) \/ ExpiryTimer(j)
  <2>1. ~RenewalAccepted(k)
    BY SMTT(40), <1>0 DEF RenewalAccepted, Task
  <2>2. ~RenewalFails(k) /\ ~BeatTimer(k)
    BY SMTT(40), <1>0 DEF RenewalFails, BeatTimer, Task
  <2>3. AbortLease(k) => k = j
    BY <1>4 DEF AbortLease
  <2> QED BY <1>5, <2>1, <2>2, <2>3 DEF Beat, RenewalLosesLease, RenewalIsFatal, ExpiryTimer
<1>6. ASSUME NEW k \in Job, Dispatch(k) PROVE k = j
  <2>1. PICK t : tasks' = [tasks EXCEPT ![k] = t]
    BY <1>0, <1>6 DEF Dispatch, HandlerReturns, CallbackAcknowledged, CallbackFails, RetryTimer,
       Answer
  <2> QED BY <1>4, <2>1
<1> QED BY <1>1, <1>2, <1>3, <1>5, <1>6 DEF Next, Dispatch

\* An outcome is given up only with nothing left to report, by a refusal for
\* good, or after the one attempt of a client without lease metadata.
THEOREM OutcomesKept == Spec => NoOutcomeDropped
<1>1. ASSUME IInv, Next, NEW j \in Job,
             tasks[j].pc \in {"handling", "calling", "backoff"},
             tasks'[j].pc \notin {"handling", "calling", "backoff"}
      PROVE  \/ NothingToReport(j)'
             \/ tasks'[j].pc = "rejected" /\ j \in Unacceptable
             \/ tasks[j].pc = "calling" /\ ~config.metadata
  <2>0. /\ tasks \in [Job -> Task] /\ tasks[j] \in Task /\ now \in Nat
        /\ tasks[j].pc \in InFlight /\ tasks[j].lost => NothingToReport(j)
        /\ tasks[j].pc \in InFlight
    BY <1>1, TaskFacts DEF InFlight
  <2>1. CASE AbortRun
    BY <2>1 DEF AbortRun, NothingToReport
  <2>2. CASE RenewalLosesLease(j) \/ ExpiryTimer(j)
    <3>1. /\ NothingToReport(j) /\ UNCHANGED <<config, now, rows, aborted>>
          /\ tasks' = [tasks EXCEPT ![j] = Aborted(@)]
      BY <1>1, <2>0, <2>2, LosesForAReason DEF RenewalLosesLease, ExpiryTimer, AbortLease
    <3>2. tasks'[j].expiry = tasks[j].expiry
      BY <2>0, <3>1 DEF Aborted, Task
    <3>3. now' \in Nat /\ now' >= now
      BY SMTT(40), <2>0, <3>1
    <3> QED BY <1>1, <3>1, <3>2, <3>3, StillNothing
  <2>3. ASSUME NEW d \in {0, 1}, HandlerReturns(j, d) PROVE NothingToReport(j)'
    <3>1. /\ tasks[j].pc = "handling" /\ now' = now + d /\ UNCHANGED <<config, rows, aborted>>
          /\ tasks'[j] = IF tasks[j].lost \/ (config.metadata /\ tasks[j].expiry <= now + d)
                         THEN Settle(tasks[j], "settled") ELSE [tasks[j] EXCEPT !.pc = "calling"]
      BY <2>0, <2>3 DEF HandlerReturns
    <3>2. tasks[j].lost \/ (config.metadata /\ tasks[j].expiry <= now + d)
      BY <1>1, <2>0, <3>1 DEF Task
    <3>3. tasks'[j].expiry = tasks[j].expiry
      BY <2>0, <3>1, <3>2 DEF Settle, Task
    <3>4. now' \in Nat /\ now' >= now
      BY SMTT(40), <2>0, <3>1
    <3>5. CASE tasks[j].lost
      BY <1>1, <2>0, <3>1, <3>3, <3>4, <3>5, StillNothing
    <3>6. CASE config.metadata /\ tasks[j].expiry <= now + d
      BY <3>1, <3>3, <3>6 DEF NothingToReport
    <3> QED BY <3>2, <3>5, <3>6
  <2>4. CASE CallbackAcknowledged(j)
    BY <2>4 DEF CallbackAcknowledged, Answer, NothingToReport, LockGone
  <2>5. CASE CallbackFails(j)
    <3>1. PICK code \in Transient \cup (IF j \in Unacceptable THEN {BadRequest} ELSE {}) :
             Answer(j, IF tasks[j].lost THEN Settle(tasks[j], "settled")
                       ELSE IF permanent(code) THEN Settle(tasks[j], "rejected")
                       ELSE IF ~config.metadata THEN Settle(tasks[j], "settled")
                       ELSE [tasks[j] EXCEPT !.pc = "backoff"])
      BY <2>5 DEF CallbackFails
    <3>2. tasks[j].pc = "calling" /\ UNCHANGED <<config, now, rows, aborted>>
      BY <2>5, <3>1 DEF CallbackFails, Answer
    <3>3. CASE tasks[j].lost
      <4>1. tasks'[j] = Settle(tasks[j], "settled")
        BY <2>0, <3>1, <3>3 DEF Answer
      <4>2. tasks'[j].expiry = tasks[j].expiry
        BY <2>0, <4>1 DEF Settle, Task
      <4>3. now' \in Nat /\ now' >= now
        BY SMTT(40), <2>0, <3>2
      <4> QED BY <1>1, <2>0, <3>2, <3>3, <4>2, <4>3, StillNothing
    <3>4. CASE ~tasks[j].lost /\ permanent(code)
      <4>1. j \in Unacceptable
        BY <3>1, <3>4, TransientIsNotPermanent
      <4>2. tasks'[j] = Settle(tasks[j], "rejected")
        BY <2>0, <3>1, <3>4 DEF Answer
      <4> QED BY <2>0, <4>1, <4>2 DEF Settle, Task
    <3>5. CASE ~tasks[j].lost /\ ~permanent(code)
      <4>1. tasks'[j] = IF ~config.metadata THEN Settle(tasks[j], "settled")
                        ELSE [tasks[j] EXCEPT !.pc = "backoff"]
        BY <2>0, <3>1, <3>5 DEF Answer
      <4>2. ~config.metadata
        BY <1>1, <2>0, <4>1 DEF Task
      <4> QED BY <3>2, <4>2
    <3> QED BY <3>3, <3>4, <3>5
  <2>6. ~RetryTimer(j)
    BY <1>1, <2>0 DEF RetryTimer, Task
  <2>7. tasks'[j].pc # tasks[j].pc
    BY <1>1
  <2> QED BY <1>1, <2>1, <2>2, <2>3, <2>4, <2>5, <2>6, <2>7, TaskMoves
<1>2. IInv /\ [Next]_vars =>
         [\A j \in Job :
             /\ tasks[j].pc \in {"handling", "calling", "backoff"}
             /\ tasks'[j].pc \notin {"handling", "calling", "backoff"}
             => \/ NothingToReport(j)'
                \/ tasks'[j].pc = "rejected" /\ j \in Unacceptable
                \/ tasks[j].pc = "calling" /\ ~config.metadata]_vars
  BY <1>1
<1> QED BY <1>2, Invariance, PTL DEF Spec, NoOutcomeDropped

\* A result is first reported for a row that the engine still has leased, or has
\* closed itself: never for one that has expired.
THEOREM ExpiredNotReported == Spec => ExpiredRowIsNotReported
<1>1. ASSUME IInv, Next, NEW j \in Job,
             config.metadata, tasks[j].pc = "handling", tasks'[j].pc = "calling"
      PROVE  rows'[j].status # "expired" /\ rows'[j].until > now'
  <2>0. /\ tasks \in [Job -> Task] /\ tasks[j] \in Task /\ now \in Nat
        /\ tasks[j].expiry \in Nat /\ rows[j].until \in Nat
        /\ tasks[j].expiry <= rows[j].until
        /\ rows[j].status = "expired" => rows[j].until <= now
    BY <1>1, TaskFacts DEF Task, Row, InFlight, IInv, Leases
  <2>1. ~AbortRun /\ ~RenewalLosesLease(j) /\ ~ExpiryTimer(j)
    <3>1. Aborted(tasks[j]).pc # "calling"
      BY <1>1, <2>0, AbortedFacts
    <3> QED BY <1>1, <2>0, <3>1 DEF AbortRun, AbortLease, RenewalLosesLease, ExpiryTimer
  <2>2. PICK d \in {0, 1} : HandlerReturns(j, d)
    BY <1>1, <2>1, TaskMoves DEF CallbackAcknowledged, CallbackFails, RetryTimer
  <2>3. /\ now' = now + d /\ rows' = rows
        /\ tasks'[j] = IF tasks[j].lost \/ (config.metadata /\ tasks[j].expiry <= now + d)
                       THEN Settle(tasks[j], "settled") ELSE [tasks[j] EXCEPT !.pc = "calling"]
    BY <2>0, <2>2 DEF HandlerReturns
  <2>4. ~(tasks[j].expiry <= now + d)
    BY <1>1, <2>0, <2>3 DEF Settle, Task
  <2> QED BY SMTT(40), <2>0, <2>3, <2>4
<1>2. IInv /\ [Next]_vars =>
         [\A j \in Job :
             config.metadata /\ tasks[j].pc = "handling" /\ tasks'[j].pc = "calling"
                => rows'[j].status # "expired" /\ rows'[j].until > now']_vars
  BY <1>1
<1> QED BY <1>2, Invariance, PTL DEF Spec, ExpiredRowIsNotReported
================================================================================
