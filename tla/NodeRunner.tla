------------------------------- MODULE NodeRunner -------------------------------
(***************************************************************************)
(* The polling runner of the Node SDK: the poll loop, one dispatch task    *)
(* per claimed job, the heartbeat that renews the job's lease, the         *)
(* callback with its retries, and shutdown.  Node runs one callback at a   *)
(* time, so what runs between two awaits is one action.  A handler that    *)
(* computes without awaiting holds the event loop: time passes, no timer   *)
(* fires, and the code after its await runs before any overdue timer.      *)
(*                                                                         *)
(* The engine is external: it leases each job once, forgets a lease when   *)
(* it runs out or its instance is cancelled, and answers calls after any   *)
(* delay or not at all.  Worker and engine read the same clock.            *)
(***************************************************************************)
EXTENDS Integers, FiniteSets

CONSTANTS
    Job,          \* job rows of the engine; a replacement attempt is another row
    Concurrency,  \* RunnerConfig.concurrency
    Unacceptable, \* jobs whose outcome the engine answers with a bad request
    Lease,        \* length of a lease, in clock ticks
    Config,       \* the configurations of a runner and its client
    MaxTime,      \* bound: clock ticks
    MaxRuns       \* bound: calls of run() on this runner

ASSUME ConcurrencyAssumption == Concurrency \in Nat \ {0}
ASSUME LeaseAssumption       == Lease \in Nat \ {0}
ASSUME JobAssumption         == IsFiniteSet(Job)
ASSUME BoundsAssumption      == MaxTime \in Nat /\ MaxRuns \in Nat
ASSUME ConfigAssumption      ==
    Config \subseteq [heartbeat : BOOLEAN, metadata : BOOLEAN, transport : {"rest", "grpc"}]

\* metadata: the client passes lockExpiresAt on; a legacy custom client does not.
VARIABLES
    config,   \* RunnerConfig and client, fixed by the constructor
    now,      \* Date.now(), and the engine's clock
    rows,     \* the engine's job rows: status and lock_expires_at
    loop,     \* where run() stands
    polled,   \* rows the engine has leased to the poll under way
    running,  \* Runner.running
    aborted,  \* signal.aborted of the current run
    runs,     \* calls of run() so far
    tasks,    \* per job, the dispatch task
    renewals  \* per job, the engine's answer to the renewal under way

vars == <<config, now, rows, loop, polled, running, aborted, runs, tasks, renewals>>

LoopState == {"idle", "ready", "polling", "sleeping", "draining", "stopped"}
InFlight  == {"opening", "handling", "calling", "backoff"}
TaskState == InFlight \cup {"none", "settled", "acknowledged", "rejected"}
BeatState == {"off", "calling", "sleeping", "retrying"}
NoAnswer  == -1

Row  == [status : {"available", "leased", "done", "expired", "withdrawn"}, until : Nat]
Task == [pc : TaskState, run : Nat, expiry : Nat, lost : BOOLEAN, beat : BeatState]

Active(j) == tasks[j].pc \in InFlight

\* The set is local to run(): a new run starts from an empty one.
inFlight  == {j \in Job : Active(j) /\ tasks[j].run = runs}
Free      == Concurrency - Cardinality(inFlight)

--------------------------------------------------------------------------------
(* How the clients and the callback loop read a status code. *)

permanent(code) ==
    IF config.transport = "rest" THEN code \in 400..499 \ {408, 429}
    ELSE code \in {3, 5, 6, 7, 9, 11, 12, 15, 16}

HeartbeatUnsupported(code) ==
    IF config.transport = "rest" THEN code \in {404, 405, 501} ELSE code = 12

LeaseLost(code) == IF config.transport = "rest" THEN code = 409 ELSE code = 9

\* Statuses of a busy or unreachable engine, of a renewal without a lock, of
\* an engine that has no heartbeat endpoint and of a request it cannot take.
Transient   == IF config.transport = "rest" THEN {408, 429, 503} ELSE {4, 14}
NoLock      == IF config.transport = "rest" THEN 409 ELSE 9
NoEndpoint  == IF config.transport = "rest" THEN 404 ELSE 12
BadRequest  == IF config.transport = "rest" THEN 400 ELSE 3

--------------------------------------------------------------------------------
(* Abort signals.  An abort rejects every await that listens to the signal: *)
(* a task waiting for its first renewal or for a retry ends at once, and    *)
(* the heartbeat loop ends.  A handler need not listen.                     *)

Aborted(t) ==
    IF t.pc \in {"opening", "backoff"}
    THEN [t EXCEPT !.pc = "settled", !.lost = TRUE, !.beat = "off"]
    ELSE [t EXCEPT !.lost = (t.pc \in InFlight), !.beat = "off"]

AbortRun ==
    /\ aborted' = TRUE
    /\ tasks' = [j \in Job |-> Aborted(tasks[j])]
    /\ renewals' = [j \in Job |-> NoAnswer]

AbortLease(j) ==
    /\ tasks' = [tasks EXCEPT ![j] = Aborted(@)]
    /\ renewals' = [renewals EXCEPT ![j] = NoAnswer]
    /\ UNCHANGED aborted

--------------------------------------------------------------------------------
(* The engine (external). *)

Expires(j) ==
    /\ rows[j].status = "leased"
    /\ rows[j].until <= now
    /\ rows' = [rows EXCEPT ![j].status = "expired"]
    /\ UNCHANGED <<config, now, loop, polled, running, aborted, runs, tasks, renewals>>

Cancels(j) ==
    /\ rows[j].status = "leased"
    /\ rows' = [rows EXCEPT ![j].status = "withdrawn"]
    /\ UNCHANGED <<config, now, loop, polled, running, aborted, runs, tasks, renewals>>

PollServed(S) ==
    /\ loop = "polling"
    /\ polled = {}
    /\ S # {}
    /\ Cardinality(S) <= Free
    /\ \A j \in S : rows[j].status = "available"
    /\ rows' = [j \in Job |->
                  IF j \in S THEN [status |-> "leased", until |-> now + Lease] ELSE rows[j]]
    /\ polled' = S
    /\ UNCHANGED <<config, now, loop, running, aborted, runs, tasks, renewals>>

RenewalServed(j) ==
    /\ tasks[j].beat = "calling"
    /\ renewals[j] = NoAnswer
    /\ rows[j].status = "leased"
    /\ rows[j].until > now
    /\ rows' = [rows EXCEPT ![j].until = now + Lease]
    /\ renewals' = [renewals EXCEPT ![j] = now + Lease]
    /\ UNCHANGED <<config, now, loop, polled, running, aborted, runs, tasks>>

--------------------------------------------------------------------------------
(* run(): the poll loop. *)

Run ==
    /\ ~running
    /\ runs < MaxRuns
    /\ running' = TRUE
    /\ aborted' = FALSE
    /\ loop' = "ready"
    /\ runs' = runs + 1
    /\ UNCHANGED <<config, now, rows, polled, tasks, renewals>>

Poll ==
    /\ loop = "ready"
    /\ ~aborted
    /\ Free > 0
    /\ loop' = "polling"
    /\ UNCHANGED <<config, now, rows, polled, running, aborted, runs, tasks, renewals>>

\* maintainLease() refuses a job without a deadline, which ends the run.
CannotBeat == config.heartbeat /\ ~config.metadata

(* dispatch() up to its first await, for the jobs S of one poll.  expiry is *)
(* the lease deadline the task knows.                                       *)
Begin(S) ==
    [j \in Job |->
        IF j \notin S THEN tasks[j]
        ELSE IF aborted \/ (config.metadata /\ rows[j].until <= now) \/ CannotBeat
        THEN [tasks[j] EXCEPT !.pc = "settled"]
        ELSE [pc |-> IF config.heartbeat THEN "opening" ELSE "handling", run |-> runs,
              expiry |-> rows[j].until, lost |-> FALSE,
              beat |-> IF config.heartbeat THEN "calling" ELSE "off"]]

PollReturns ==
    /\ loop = "polling"
    /\ tasks' = Begin(polled)
    /\ aborted' = (aborted \/ (CannotBeat /\ polled # {}))
    /\ polled' = {}
    /\ loop' = IF polled = {} THEN "sleeping" ELSE "ready"
    /\ UNCHANGED <<config, now, rows, running, runs, renewals>>

\* The call fails, times out or is cancelled; rows leased to it stay leased.
PollFails ==
    /\ loop = "polling"
    /\ polled' = {}
    /\ loop' = "sleeping"
    /\ UNCHANGED <<config, now, rows, running, aborted, runs, tasks, renewals>>

Awakes ==
    /\ loop = "sleeping"
    /\ ~aborted
    /\ loop' = "ready"
    /\ UNCHANGED <<config, now, rows, polled, running, aborted, runs, tasks, renewals>>

--------------------------------------------------------------------------------
(* Shutdown: the parent signal, the drain and its deadline. *)

ParentAborts ==
    /\ loop \in {"ready", "polling", "sleeping"}
    /\ ~aborted
    /\ AbortRun
    /\ UNCHANGED <<config, now, rows, loop, polled, running, runs>>

LoopEnds ==
    /\ loop \in {"ready", "sleeping"}
    /\ aborted
    /\ loop' = "draining"
    /\ UNCHANGED <<config, now, rows, polled, running, aborted, runs, tasks, renewals>>

\* Promise.allSettled(inFlight), before or after the deadline of the drain.
Drained ==
    /\ loop \in {"draining", "stopped"}
    /\ running
    /\ inFlight = {}
    /\ running' = FALSE
    /\ loop' = "stopped"
    /\ UNCHANGED <<config, now, rows, polled, aborted, runs, tasks, renewals>>

\* Broken: the drain has no deadline.
DrainWaitsForHandlers ==
    /\ loop = "draining"
    /\ inFlight = {}
    /\ loop' = "stopped"
    /\ UNCHANGED <<config, now, rows, polled, running, aborted, runs, tasks, renewals>>

DrainTimesOut ==
    /\ loop = "draining"
    /\ inFlight # {}
    /\ loop' = "stopped"
    /\ UNCHANGED <<config, now, rows, polled, running, aborted, runs, tasks, renewals>>

--------------------------------------------------------------------------------
(* maintainLease(): renewals never overlap, and the handler starts after the *)
(* first one has been accepted.                                              *)

\* Broken: the expiry is counted from the answer, whatever the answer was.
RenewalAcceptedBlindly(j) ==
    /\ tasks[j].beat = "calling"
    /\ tasks' = [tasks EXCEPT ![j].expiry = now + Lease, ![j].beat = "sleeping",
                              ![j].pc = IF @ = "opening" THEN "handling" ELSE @]
    /\ renewals' = [renewals EXCEPT ![j] = NoAnswer]
    /\ UNCHANGED <<config, now, rows, loop, polled, running, aborted, runs>>

\* The answer to a renewal: a new expiry, with the lease not yet run out.
RenewalAccepted(j) ==
    /\ tasks[j].beat = "calling"
    /\ renewals[j] # NoAnswer
    /\ now < tasks[j].expiry
    /\ renewals[j] >= tasks[j].expiry
    /\ renewals[j] > now
    /\ tasks' = [tasks EXCEPT ![j].expiry = renewals[j], ![j].beat = "sleeping",
                              ![j].pc = IF @ = "opening" THEN "handling" ELSE @]
    /\ renewals' = [renewals EXCEPT ![j] = NoAnswer]
    /\ UNCHANGED <<config, now, rows, loop, polled, running, aborted, runs>>

LockGone(j) == rows[j].status # "leased" \/ rows[j].until <= now

\* Error statuses a renewal of job j may be answered with.
RenewalErrors(j) == Transient \cup (IF LockGone(j) THEN {NoLock} ELSE {NoEndpoint})

\* The answer comes after the expiry known so far, or the engine refuses.
RenewalLosesLease(j) ==
    /\ tasks[j].beat = "calling"
    /\ \/ renewals[j] # NoAnswer /\ now >= tasks[j].expiry
       \/ \E code \in RenewalErrors(j) : LeaseLost(code)
    /\ AbortLease(j)
    /\ UNCHANGED <<config, now, rows, loop, polled, running, runs>>

\* An error that another renewal cannot cure ends the whole run.
RenewalIsFatal(j) ==
    /\ tasks[j].beat = "calling"
    /\ \E code \in RenewalErrors(j) :
          ~LeaseLost(code) /\ (HeartbeatUnsupported(code) \/ permanent(code))
    /\ AbortRun
    /\ UNCHANGED <<config, now, rows, loop, polled, running, runs>>

\* A transport error, or 5 seconds without an answer; a served one is lost.
RenewalFails(j) ==
    /\ tasks[j].beat = "calling"
    /\ \E code \in RenewalErrors(j) :
          ~LeaseLost(code) /\ ~HeartbeatUnsupported(code) /\ ~permanent(code)
    /\ tasks' = [tasks EXCEPT ![j].beat = "retrying"]
    /\ renewals' = [renewals EXCEPT ![j] = NoAnswer]
    /\ UNCHANGED <<config, now, rows, loop, polled, running, aborted, runs>>

BeatTimer(j) ==
    /\ tasks[j].beat \in {"sleeping", "retrying"}
    /\ tasks' = [tasks EXCEPT ![j].beat = "calling"]
    /\ UNCHANGED <<config, now, rows, loop, polled, running, aborted, runs, renewals>>

ExpiryTimer(j) ==
    /\ Active(j)
    /\ ~tasks[j].lost
    /\ config.metadata
    /\ tasks[j].expiry <= now
    /\ AbortLease(j)
    /\ UNCHANGED <<config, now, rows, loop, polled, running, runs>>

--------------------------------------------------------------------------------
(* dispatch() after the handler, and deliver(). *)

Settle(t, st) == [t EXCEPT !.pc = st, !.beat = "off"]

\* Broken: the deadline is not looked at again after the handler.
ReportsWhateverTheClock(j, d) ==
    /\ tasks[j].pc = "handling"
    /\ now + d <= MaxTime
    /\ now' = now + d
    /\ tasks' = [tasks EXCEPT ![j] =
                   IF @.lost THEN Settle(@, "settled") ELSE [@ EXCEPT !.pc = "calling"]]
    /\ renewals' = IF tasks'[j].beat = "off"
                   THEN [renewals EXCEPT ![j] = NoAnswer] ELSE renewals
    /\ UNCHANGED <<config, rows, loop, polled, running, aborted, runs>>

\* The handler returns or throws after holding the event loop for d ticks.
HandlerReturns(j, d) ==
    /\ tasks[j].pc = "handling"
    /\ now + d <= MaxTime
    /\ now' = now + d
    /\ tasks' = [tasks EXCEPT ![j] =
                   IF @.lost \/ (config.metadata /\ @.expiry <= now + d) THEN Settle(@, "settled")
                   ELSE [@ EXCEPT !.pc = "calling"]]
    /\ renewals' = IF tasks'[j].beat = "off"
                   THEN [renewals EXCEPT ![j] = NoAnswer] ELSE renewals
    /\ UNCHANGED <<config, rows, loop, polled, running, aborted, runs>>

\* The engine applies the outcome; the answer may still be lost.
CallbackServed(j) ==
    /\ tasks[j].pc = "calling"
    /\ j \notin Unacceptable
    /\ rows[j].status = "leased"
    /\ rows[j].until > now
    /\ rows' = [rows EXCEPT ![j].status = "done"]
    /\ UNCHANGED <<config, now, loop, polled, running, aborted, runs, tasks, renewals>>

Answer(j, t) ==
    /\ tasks' = [tasks EXCEPT ![j] = t]
    /\ renewals' = IF t.beat = "off" THEN [renewals EXCEPT ![j] = NoAnswer] ELSE renewals
    /\ UNCHANGED <<config, now, rows, loop, polled, running, aborted, runs>>

\* The outcome was applied, or the engine ignores it: a late callback for a
\* row that is no longer leased is answered like an accepted one.
CallbackAcknowledged(j) ==
    /\ tasks[j].pc = "calling"
    /\ LockGone(j)
    /\ Answer(j, Settle(tasks[j], IF tasks[j].lost THEN "settled" ELSE "acknowledged"))

\* Broken: a callback that fails is not repeated.
CallbackGivesUp(j) ==
    /\ tasks[j].pc = "calling"
    /\ \E code \in Transient \cup (IF j \in Unacceptable THEN {BadRequest} ELSE {}) :
          Answer(j, Settle(tasks[j], IF permanent(code) /\ ~tasks[j].lost THEN "rejected" ELSE "settled"))

\* A transport error, or an outcome the engine cannot take.
CallbackFails(j) ==
    /\ tasks[j].pc = "calling"
    /\ \E code \in Transient \cup (IF j \in Unacceptable THEN {BadRequest} ELSE {}) :
          Answer(j, IF tasks[j].lost THEN Settle(tasks[j], "settled")
                    ELSE IF permanent(code) THEN Settle(tasks[j], "rejected")
                    ELSE IF ~config.metadata THEN Settle(tasks[j], "settled")
                    ELSE [tasks[j] EXCEPT !.pc = "backoff"])

RetryTimer(j) ==
    /\ tasks[j].pc = "backoff"
    /\ tasks' = [tasks EXCEPT ![j].pc = "calling"]
    /\ UNCHANGED <<config, now, rows, loop, polled, running, aborted, runs, renewals>>

--------------------------------------------------------------------------------
\* While no handler holds the event loop, a due expiry timer fires before
\* the clock moves on.
Tick ==
    /\ now < MaxTime
    /\ config.metadata =>
          \A j \in Job : Active(j) /\ ~tasks[j].lost => tasks[j].expiry > now
    /\ now' = now + 1
    /\ UNCHANGED <<config, rows, loop, polled, running, aborted, runs, tasks, renewals>>

Init ==
    /\ config \in Config
    /\ now = 0
    /\ rows = [j \in Job |-> [status |-> "available", until |-> 0]]
    /\ loop = "idle"
    /\ polled = {}
    /\ running = FALSE
    /\ aborted = FALSE
    /\ runs = 0
    /\ tasks = [j \in Job |-> [pc |-> "none", run |-> 0, expiry |-> 0,
                           lost |-> FALSE, beat |-> "off"]]
    /\ renewals = [j \in Job |-> NoAnswer]

Engine(j) == Expires(j) \/ Cancels(j) \/ RenewalServed(j) \/ CallbackServed(j)

Beat(j) ==
    \/ RenewalAccepted(j) \/ RenewalLosesLease(j) \/ RenewalIsFatal(j)
    \/ RenewalFails(j) \/ BeatTimer(j) \/ ExpiryTimer(j)

Dispatch(j) ==
    \/ \E d \in {0, 1} : HandlerReturns(j, d)
    \/ CallbackAcknowledged(j) \/ CallbackFails(j) \/ RetryTimer(j)

Loop ==
    \/ Run \/ Poll \/ PollReturns \/ PollFails \/ Awakes
    \/ ParentAborts \/ LoopEnds \/ Drained \/ DrainTimesOut

Next ==
    \/ Loop \/ Tick
    \/ \E S \in SUBSET Job : PollServed(S)
    \/ \E j \in Job : Engine(j) \/ Beat(j) \/ Dispatch(j)

Spec == Init /\ [][Next]_vars

\* run()'s own steps, the answers to its polls (a poll call is bounded by 5
\* seconds and by the signal) and the timers of the drain.
FairSpec ==
    /\ Spec
    /\ WF_vars(PollReturns \/ PollFails)
    /\ WF_vars(LoopEnds)
    /\ WF_vars(Drained)
    /\ WF_vars(DrainTimesOut)

--------------------------------------------------------------------------------
(* Properties. *)

\* Every variable keeps its type.
TypeOK ==
    /\ config \in Config
    /\ now \in Nat /\ runs \in Nat
    /\ rows \in [Job -> Row]
    /\ loop \in LoopState
    /\ polled \in SUBSET Job
    /\ running \in BOOLEAN /\ aborted \in BOOLEAN
    /\ tasks \in [Job -> Task]
    /\ renewals \in [Job -> Nat \cup {NoAnswer}]

\* Handlers, callbacks and rows a poll is fetching never exceed concurrency,
\* also when run() is called again after a drain that timed out with
\* handlers still running (runner.ts, "does not free slots").
ConcurrencyIsRespected == Cardinality({j \in Job : Active(j)} \cup polled) <= Concurrency

Believes(j) == Active(j) /\ ~tasks[j].lost /\ now < tasks[j].expiry

\* While a task's lease has not been lost and its deadline is ahead, the
\* engine has the row leased to this worker until then at least, or the
\* outcome has been applied, or the row was withdrawn with its instance: the
\* worker never works on a row the engine has let expire.
BelievedLeaseIsHeld ==
    \A j \in Job : Believes(j) =>
        rows[j].status \notin {"available", "expired"} /\ rows[j].until >= tasks[j].expiry

\* A handler's result is never first reported for a row that the engine has let
\* expire and may have given to another worker, even when the handler held the
\* event loop past the deadline and no timer could abort the signal.
ExpiredRowIsNotReported ==
    [][\A j \in Job :
          config.metadata /\ tasks[j].pc = "handling" /\ tasks'[j].pc = "calling"
             => rows'[j].status # "expired" /\ rows'[j].until > now']_vars

\* The worker may stop caring about job j: the engine has closed its row or
\* let it expire, the run is aborted, or the deadline the task knows is over.
NothingToReport(j) ==
    LockGone(j) \/ aborted \/ (config.metadata /\ tasks[j].expiry <= now)

\* A handler's outcome is given up only when there is nothing to report, when
\* the engine refuses it for good, or after the one attempt of a client without
\* lease metadata: with a lease, errors of a busy, throttled or unreachable
\* engine are retried until the lease is over (callback.ts and
\* docs/sdk/node.md, "Polling callback recovery").
NoOutcomeDropped ==
    [][\A j \in Job :
          /\ tasks[j].pc \in {"handling", "calling", "backoff"}
          /\ tasks'[j].pc \notin {"handling", "calling", "backoff"}
          => \/ NothingToReport(j)'
             \/ tasks'[j].pc = "rejected" /\ j \in Unacceptable
             \/ tasks[j].pc = "calling" /\ ~config.metadata]_vars

\* After an abort run() comes to its end, whatever handlers do: the drain
\* is bounded by shutdownTimeoutMs.
RunEndsAfterAbort == aborted ~> (loop = "stopped" \/ ~aborted)
================================================================================
