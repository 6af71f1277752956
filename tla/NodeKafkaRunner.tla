----------------------------- MODULE NodeKafkaRunner -----------------------------
(***************************************************************************)
(* The Kafka runner of the Node SDK: worker processes of one consumer      *)
(* group share one partition of a job topic.  A worker handles the first   *)
(* record of a batch with the partition paused, reports the outcome to the *)
(* engine until it is acknowledged or refused for good, commits the next   *)
(* offset, seeks there and resumes.  A record that does not decode, that   *)
(* the engine refuses or whose commit fails leaves the partition paused    *)
(* until the worker is restarted.  The group moves the partition between   *)
(* workers at any point: after the rebalance callback has returned, or at  *)
(* once when the broker has given the worker up.                           *)
(*                                                                         *)
(* owners maps the partition to an AbortController made by the rebalance   *)
(* callback; here it is a tenure, and a work item belongs to the tenure it *)
(* was started under.  Node runs the code between two awaits atomically.   *)
(***************************************************************************)
EXTENDS Integers, FiniteSets, Sequences

CONSTANTS
    Worker,       \* processes of the consumer group
    Log,          \* the partition: each record carries a job and a kind
    NoOne,        \* no worker
    MaxTenures,   \* bound: assignments of the partition
    MaxFaults     \* bound: rebalances, lost sessions, refusals, crashes and stops

Tenure == 1..MaxTenures
Kind   == {"job", "invalidPayload", "malformed"}

ASSUME NoOneAssumption == NoOne \notin Worker
ASSUME LogAssumption   ==
    /\ Len(Log) \in Nat /\ DOMAIN Log = 1..Len(Log)
    /\ \A o \in DOMAIN Log : Log[o].kind \in Kind
ASSUME BoundsAssumption == MaxTenures \in Nat /\ MaxFaults \in Nat

VARIABLES
    committed,   \* broker: records of the partition committed by the group
    assigned,    \* broker: the worker the partition is assigned to
    members,     \* broker: workers in the group
    acked,       \* engine: jobs whose outcome has been applied
    owners,      \* per worker, owners.get(partition): a tenure, 0 if absent
    position,    \* per worker, records fetched or skipped by seek
    paused,      \* per worker, the partition is paused
    works,       \* per tenure, the work started under it
    holder,      \* per tenure, the worker it was granted to
    seen,        \* per worker, the deduplication cache
    stopping,    \* per worker, shutdown.signal.aborted
    granted,     \* tenures granted so far
    faults

broker == <<committed, assigned, members>>
client == <<owners, position, paused, stopping>>
vars == <<broker, acked, client, works, holder, seen, granted, faults>>

\* submitted: the commit request is under way; void: the broker will refuse it.
Busy      == {"turn", "handling", "calling", "submitted", "stored", "void"}
\* The ways the work ends in its catch: the partition stays paused.
Halted    == {"unreadable", "rejected", "uncommitted"}
WorkState == Busy \cup Halted \cup {"idle"}
Pending(k) == works[k].pc \in Busy

Job == {Log[o].job : o \in DOMAIN Log}

Revoked(k) == owners[holder[k]] # k
AbortedWork(k) == Revoked(k) \/ stopping[holder[k]]
Record(k) == Log[works[k].at]

At(k, st) == works' = [works EXCEPT ![k].pc = st]

--------------------------------------------------------------------------------
(* rebalance_cb *)

\* A fault budget bounds what the group and the operators do to a worker.
Fault == faults < MaxFaults /\ faults' = faults + 1

\* Broken: the worker starts at the first record, not at the committed offset.
AssignFromBeginning(w) ==
    /\ assigned = NoOne
    /\ w \in members
    /\ ~stopping[w]
    /\ granted < MaxTenures
    /\ owners[w] = 0
    /\ assigned' = w
    /\ granted' = granted + 1
    /\ owners' = [owners EXCEPT ![w] = granted + 1]
    /\ holder' = [holder EXCEPT ![granted + 1] = w]
    /\ position' = [position EXCEPT ![w] = 0]
    /\ paused' = [paused EXCEPT ![w] = FALSE]
    /\ UNCHANGED <<committed, members, acked, works, seen, stopping, faults>>

Assign(w) ==
    /\ assigned = NoOne
    /\ w \in members
    /\ ~stopping[w]
    /\ granted < MaxTenures
    /\ owners[w] = 0
    /\ assigned' = w
    /\ granted' = granted + 1
    /\ owners' = [owners EXCEPT ![w] = granted + 1]
    /\ holder' = [holder EXCEPT ![granted + 1] = w]
    /\ position' = [position EXCEPT ![w] = committed]
    /\ paused' = [paused EXCEPT ![w] = FALSE]
    /\ UNCHANGED <<committed, members, acked, works, seen, stopping, faults>>

\* The group asks for the partition: the tenure is aborted at once.
Revoke(w) ==
    /\ assigned = w
    /\ owners[w] # 0
    /\ Fault
    /\ owners' = [owners EXCEPT ![w] = 0]
    /\ UNCHANGED <<broker, acked, position, paused, works, holder, seen, stopping, granted>>

CommitUnderWay(w) ==
    \E k \in Tenure : holder[k] = w /\ works[k].pc \in {"submitted", "stored"}

\* Broken: the rebalance callback does not wait for a submitted commit.
HandOverAtOnce(w) ==
    /\ assigned = w
    /\ owners[w] = 0
    /\ assigned' = NoOne
    /\ UNCHANGED <<committed, members, acked, client, works, holder, seen, granted, faults>>

\* The callback returns when a submitted commit has settled; then the
\* partition may go to another worker.
HandOver(w) ==
    /\ assigned = w
    /\ owners[w] = 0
    /\ ~CommitUnderWay(w)
    /\ assigned' = NoOne
    /\ UNCHANGED <<committed, members, acked, client, works, holder, seen, granted, faults>>

\* The broker gives the worker up: it may assign the partition at once, and
\* refuses what the old member has not yet got through.
Void(w) ==
    [k \in Tenure |->
        IF holder[k] = w /\ works[k].pc = "submitted"
        THEN [works[k] EXCEPT !.pc = "void"] ELSE works[k]]

SessionLost(w) ==
    /\ w \in members
    /\ Fault
    /\ members' = members \ {w}
    /\ assigned' = IF assigned = w THEN NoOne ELSE assigned
    /\ works' = Void(w)
    /\ UNCHANGED <<committed, acked, client, holder, seen, granted>>

\* The worker finds out: its partitions are revoked and it joins again.
Rejoin(w) ==
    /\ w \notin members
    /\ ~stopping[w]
    /\ members' = members \cup {w}
    /\ owners' = [owners EXCEPT ![w] = 0]
    /\ UNCHANGED <<committed, assigned, acked, position, paused, works, holder, seen,
                   stopping, granted, faults>>

--------------------------------------------------------------------------------
(* eachBatch *)

EachBatch(w) ==
    LET k == owners[w] IN
    /\ k # 0
    /\ ~stopping[w]
    /\ ~paused[w]
    /\ position[w] < Len(Log)
    /\ ~Pending(k)
    /\ works' = [works EXCEPT ![k] = [pc |-> "turn", at |-> position[w] + 1]]
    /\ paused' = [paused EXCEPT ![w] = TRUE]
    /\ UNCHANGED <<broker, acked, owners, position, stopping, holder, seen, granted, faults>>

\* After dispatch(): the offset of the next record, if the tenure still stands.
CommitNext(k) ==
    IF AbortedWork(k) THEN At(k, "idle")
    ELSE At(k, IF holder[k] \in members THEN "submitted" ELSE "void")

\* dispatch() up to the handler, once the event loop has turned.  An invalid
\* payload is reported as a failure without a handler.
FirstStep == [job |-> "handling", invalidPayload |-> "calling", malformed |-> "unreadable"]

Begin(k) ==
    /\ works[k].pc = "turn"
    /\ IF AbortedWork(k) THEN At(k, "idle")
       ELSE IF Record(k).kind # "malformed" /\ Record(k).job \in seen[holder[k]]
       THEN CommitNext(k)
       ELSE At(k, FirstStep[Record(k).kind])
    /\ UNCHANGED <<broker, acked, client, holder, seen, granted, faults>>

\* The handler is not given the signal; deliver() looks at it first.
HandlerReturns(k) ==
    /\ works[k].pc = "handling"
    /\ At(k, IF AbortedWork(k) THEN "idle" ELSE "calling")
    /\ UNCHANGED <<broker, acked, client, holder, seen, granted, faults>>

\* The engine applies a callback once and answers later ones alike.
CallbackServed(k) ==
    /\ works[k].pc = "calling"
    /\ acked' = acked \cup {Record(k).job}
    /\ UNCHANGED <<broker, client, works, holder, seen, granted, faults>>

\* Until the answer arrives deliver() repeats the call: no state changes.
CallbackAcknowledged(k) ==
    /\ works[k].pc = "calling"
    /\ Record(k).job \in acked
    /\ ~AbortedWork(k)
    /\ seen' = [seen EXCEPT ![holder[k]] = @ \cup {Record(k).job}]
    /\ CommitNext(k)
    /\ UNCHANGED <<broker, acked, client, holder, granted, faults>>

\* Broken: a callback the engine refuses counts as delivered.
RejectedIsDelivered(k) ==
    /\ works[k].pc = "calling"
    /\ ~AbortedWork(k)
    /\ Fault
    /\ acked' \in {acked, acked \cup {Record(k).job}}
    /\ CommitNext(k)
    /\ UNCHANGED <<broker, client, holder, seen, granted>>

\* A permanent error: the engine has not taken the outcome (authorization), or
\* has closed the job over it (outputs that break their schema, over gRPC).
CallbackRejected(k) ==
    /\ works[k].pc = "calling"
    /\ ~AbortedWork(k)
    /\ Fault
    /\ acked' \in {acked, acked \cup {Record(k).job}}
    /\ At(k, "rejected")
    /\ UNCHANGED <<broker, client, holder, seen, granted>>

\* Revocation or shutdown ends the retries.
CallbackAborted(k) ==
    /\ works[k].pc = "calling"
    /\ AbortedWork(k)
    /\ At(k, "idle")
    /\ UNCHANGED <<broker, acked, client, holder, seen, granted, faults>>

CommitStored(k) ==
    /\ works[k].pc = "submitted"
    /\ committed' = works[k].at
    /\ At(k, "stored")
    /\ UNCHANGED <<assigned, members, acked, client, holder, seen, granted, faults>>

\* Broken: the partition stays paused after the commit.
CommitReturnsPaused(k) ==
    /\ works[k].pc = "stored"
    /\ At(k, "idle")
    /\ UNCHANGED <<broker, acked, client, holder, seen, granted, faults>>

\* await commit; then seek and resume, unless the partition has moved on.
CommitReturns(k) ==
    LET w == holder[k] IN
    /\ works[k].pc = "stored"
    /\ At(k, "idle")
    /\ IF AbortedWork(k) THEN UNCHANGED <<position, paused>>
       ELSE /\ position' = [position EXCEPT ![w] = works[k].at]
            /\ paused' = [paused EXCEPT ![w] = FALSE]
    /\ UNCHANGED <<broker, acked, owners, stopping, holder, seen, granted, faults>>

\* Refused, or without an answer in time although it may have been stored.
CommitFails(k) ==
    /\ works[k].pc \in {"submitted", "stored", "void"}
    /\ IF works[k].pc = "void" THEN UNCHANGED faults ELSE Fault
    /\ At(k, "uncommitted")
    /\ UNCHANGED <<broker, acked, client, holder, seen, granted>>

--------------------------------------------------------------------------------
(* The deduplication window, stop(), crashes and restarts. *)

Forget(w, j) ==
    /\ j \in seen[w]
    /\ seen' = [seen EXCEPT ![w] = @ \ {j}]
    /\ UNCHANGED <<broker, acked, client, works, holder, granted, faults>>

\* The partition stays paused under a worker whose work has failed.
Stuck(w) == owners[w] # 0 /\ works[owners[w]].pc \in Halted

\* Restarting a worker that a refusal or a failed commit has stopped is the
\* remedy, and costs no fault; no restart helps a record that does not decode.
Stop(w) ==
    /\ ~stopping[w]
    /\ IF Stuck(w) /\ works[owners[w]].pc # "unreadable" THEN UNCHANGED faults ELSE Fault
    /\ stopping' = [stopping EXCEPT ![w] = TRUE]
    /\ UNCHANGED <<broker, acked, owners, position, paused, works, holder, seen, granted>>

Leave(w) ==
    /\ members' = members \ {w}
    /\ assigned' = IF assigned = w THEN NoOne ELSE assigned
    /\ owners' = [owners EXCEPT ![w] = 0]
    /\ seen' = [seen EXCEPT ![w] = {}]
    /\ stopping' = [stopping EXCEPT ![w] = FALSE]
    /\ UNCHANGED <<committed, acked, position, paused, holder, granted>>

\* The pending work has settled: the worker disconnects, and starts afresh.
Disconnect(w) ==
    /\ stopping[w]
    /\ \A k \in Tenure : holder[k] = w => ~Pending(k)
    /\ Leave(w)
    /\ UNCHANGED <<works, faults>>

Crash(w) ==
    /\ Fault
    /\ works' = [k \in Tenure |->
                   IF holder[k] = w THEN [works[k] EXCEPT !.pc = "idle"] ELSE works[k]]
    /\ Leave(w)

--------------------------------------------------------------------------------
Init ==
    /\ committed = 0
    /\ assigned = NoOne
    /\ members = Worker
    /\ acked = {}
    /\ owners = [w \in Worker |-> 0]
    /\ position = [w \in Worker |-> 0]
    /\ paused = [w \in Worker |-> FALSE]
    /\ works = [k \in Tenure |-> [pc |-> "idle", at |-> 0]]
    /\ holder = [k \in Tenure |-> NoOne]
    /\ seen = [w \in Worker |-> {}]
    /\ stopping = [w \in Worker |-> FALSE]
    /\ granted = 0
    /\ faults = 0

Group(w) == Assign(w) \/ Revoke(w) \/ HandOver(w) \/ SessionLost(w) \/ Rejoin(w)

Work(k) ==
    \/ Begin(k) \/ HandlerReturns(k) \/ CallbackServed(k) \/ CallbackAcknowledged(k)
    \/ CallbackRejected(k) \/ CallbackAborted(k) \/ CommitStored(k) \/ CommitReturns(k)

Process(w) == Stop(w) \/ Disconnect(w) \/ Crash(w) \/ \E j \in Job : Forget(w, j)

Next ==
    \/ \E w \in Worker : Group(w) \/ EachBatch(w) \/ Process(w)
    \/ \E k \in Tenure : Work(k) \/ CommitFails(k)

Spec == Init /\ [][Next]_vars

\* The group assigns a free partition, rejoining and shutdown come to an end,
\* handlers return, and the engine answers in the end.  No operator is assumed
\* to restart a worker.
FairSpec ==
    /\ Spec
    /\ WF_vars(\E w \in Worker : Assign(w))
    /\ \A w \in Worker :
          /\ WF_vars(HandOver(w) \/ Rejoin(w))
          /\ WF_vars(EachBatch(w))
          /\ WF_vars(Disconnect(w))
    /\ \A k \in Tenure :
          /\ WF_vars(Begin(k) \/ HandlerReturns(k) \/ CallbackAcknowledged(k)
                       \/ CallbackAborted(k) \/ CommitStored(k) \/ CommitReturns(k)
                       \/ (works[k].pc = "void" /\ CommitFails(k)))
          /\ WF_vars(CallbackServed(k))

--------------------------------------------------------------------------------
(* Properties. *)

\* Every variable keeps its type.
TypeOK ==
    /\ committed \in 0..Len(Log)
    /\ assigned \in Worker \cup {NoOne}
    /\ members \in SUBSET Worker
    /\ acked \in SUBSET Job
    /\ owners \in [Worker -> 0..MaxTenures]
    /\ position \in [Worker -> 0..Len(Log)]
    /\ paused \in [Worker -> BOOLEAN]
    /\ works \in [Tenure -> [pc : WorkState, at : 0..Len(Log)]]
    /\ holder \in [Tenure -> Worker \cup {NoOne}]
    /\ seen \in [Worker -> SUBSET Job]
    /\ stopping \in [Worker -> BOOLEAN]
    /\ granted \in 0..MaxTenures /\ faults \in 0..MaxFaults

\* The group never commits past a record that does not decode or whose job the
\* engine has not settled, not even when the engine refuses the callback
\* (kafka_runner.ts, "malformed records/permanent rejection ... never advance
\* over the record"), and a record is remembered as a duplicate only once its
\* job is settled.
NothingIsSkipped ==
    /\ \A o \in 1..committed : Log[o].kind # "malformed" /\ Log[o].job \in acked
    /\ \A w \in Worker : seen[w] \subseteq acked

\* A commit that the broker can still store comes from the worker the
\* partition is assigned to: the rebalance callback waits for it before the
\* handoff, and no work of an aborted tenure submits one.
CommitsAreFenced ==
    \A k \in Tenure : works[k].pc = "submitted" => assigned = holder[k]

\* The committed offset never goes back, so no acknowledged record is
\* delivered to the group again.
CommitsNeverGoBack == [][committed' >= committed]_vars

\* Whatever rebalances, crashes, lost answers and restarts came before, in the
\* end a record is committed, or the partition stays paused under a worker that
\* gave up on it or on an earlier one: a record that does not decode, that the
\* engine refused or whose commit failed.  The partition is never left paused
\* after records that went well, or assigned to nobody.
PartitionAdvances ==
    \A o \in DOMAIN Log :
        <>[](\/ committed >= o
             \/ \E w \in Worker : Stuck(w) /\ works[owners[w]].at <= o)
================================================================================
