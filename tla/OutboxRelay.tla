------------------------------ MODULE OutboxRelay ------------------------------
(***************************************************************************)
(* Kafka dispatch.  The transaction that inserts a job inserts a row of    *)
(* dispatch_outbox; the relay of the leader replica claims a batch with    *)
(* SKIP LOCKED, publishes it, and deletes and audits it before it commits. *)
(* Leadership is a session-scoped advisory lock which the election loop    *)
(* takes, pings and gives up; a lost session is noticed only by the next   *)
(* ping, so a deposed leader may still be publishing.                      *)
(***************************************************************************)
EXTENDS Integers, FiniteSets

CONSTANTS
    Job,         \* dispatched jobs, numbered by created_at of their outbox row
    Replica,     \* engine processes
    NoOne,       \* nobody holds the advisory lock
    BatchSize,   \* rows per cycle
    MaxFaults    \* bound: lost sessions, shutdowns, crashes and failed cycles

ASSUME JobAssumption      == Job \subseteq Nat
ASSUME ReplicaAssumption  == NoOne \notin Replica /\ IsFiniteSet(Replica)
ASSUME BatchAssumption    == BatchSize \in Nat \ {0} /\ MaxFaults \in Nat

VARIABLES
    enqueued,    \* jobs whose transaction has committed
    outbox,      \* rows of dispatch_outbox
    topic,       \* copies of each job in Kafka
    audit,       \* DISPATCHED_VIA_BROKER rows of each job
    lock,        \* holder of the advisory lock
    tenure,      \* per replica: no relay, a relay, or a cancelled relay that drains
    batch,       \* rows the relay's open transaction has locked
    sent,        \* has the broker acknowledged the batch?
    faults

vars == <<enqueued, outbox, topic, audit, lock, tenure, batch, sent, faults>>
rows == <<enqueued, outbox, topic, audit>>

Tenure == {"FOLLOWER", "LEADER", "LEAVING"}

\* Dispatcher.Enqueue commits with the job.
Enqueue(j) ==
    /\ j \notin enqueued
    /\ enqueued' = enqueued \cup {j}
    /\ outbox' = outbox \cup {j}
    /\ UNCHANGED <<topic, audit, lock, tenure, batch, sent, faults>>

--------------------------------------------------------------------------------
(* The election loop. *)

\* pg_try_advisory_lock succeeds and onLeader launches a relay.  The loop cannot
\* be here while onLeaderLost waits for the relay of an earlier tenure.
TryAcquire(r) ==
    /\ tenure[r] = "FOLLOWER"
    /\ lock = NoOne
    /\ lock' = r
    /\ tenure' = [tenure EXCEPT ![r] = "LEADER"]
    /\ UNCHANGED <<rows, batch, sent, faults>>

\* PostgreSQL ends the session of the lock; the replica does not know yet.
SessionLost(r) ==
    /\ faults < MaxFaults
    /\ lock = r
    /\ lock' = NoOne
    /\ faults' = faults + 1
    /\ UNCHANGED <<rows, tenure, batch, sent>>

\* The ping fails: onLeaderLost cancels the relay and waits for it.
PingFails(r) ==
    /\ tenure[r] = "LEADER"
    /\ lock # r
    /\ tenure' = [tenure EXCEPT ![r] = "LEAVING"]
    /\ UNCHANGED <<rows, lock, batch, sent, faults>>

\* Runtime.Stop cancels the relay and unlocks before the relay has drained.
Stop(r) ==
    /\ faults < MaxFaults
    /\ tenure[r] = "LEADER"
    /\ tenure' = [tenure EXCEPT ![r] = "LEAVING"]
    /\ lock' = IF lock = r THEN NoOne ELSE lock
    /\ faults' = faults + 1
    /\ UNCHANGED <<rows, batch, sent>>

\* Broken: the advisory lock survives the process.
CrashKeepingLock(r) ==
    /\ faults < MaxFaults
    /\ tenure[r] # "FOLLOWER"
    /\ tenure' = [tenure EXCEPT ![r] = "FOLLOWER"]
    /\ batch' = [batch EXCEPT ![r] = {}]
    /\ sent' = [sent EXCEPT ![r] = FALSE]
    /\ faults' = faults + 1
    /\ UNCHANGED <<rows, lock>>

\* The process dies: its sessions end and its transaction rolls back.
Crash(r) ==
    /\ faults < MaxFaults
    /\ tenure[r] # "FOLLOWER"
    /\ tenure' = [tenure EXCEPT ![r] = "FOLLOWER"]
    /\ lock' = IF lock = r THEN NoOne ELSE lock
    /\ batch' = [batch EXCEPT ![r] = {}]
    /\ sent' = [sent EXCEPT ![r] = FALSE]
    /\ faults' = faults + 1
    /\ UNCHANGED rows

--------------------------------------------------------------------------------
(* The relay. *)

Locked == UNION {batch[r] : r \in Replica}

\* The oldest BatchSize rows of S.
Oldest(S) == {j \in S : Cardinality({i \in S : i < j}) < BatchSize}

ClaimBatch(r) ==
    /\ tenure[r] = "LEADER" /\ batch[r] = {}
    /\ outbox \ Locked # {}
    /\ batch' = [batch EXCEPT ![r] = Oldest(outbox \ Locked)]
    /\ UNCHANGED <<rows, lock, tenure, sent, faults>>

Copies(S) == [j \in Job |-> topic[j] + IF j \in S THEN 1 ELSE 0]

\* Broken: the batch counts as published before Kafka answers.
ProduceAsync(r) ==
    /\ batch[r] # {} /\ ~sent[r]
    /\ \E S \in SUBSET batch[r] : topic' = Copies(S)
    /\ sent' = [sent EXCEPT ![r] = TRUE]
    /\ UNCHANGED <<enqueued, outbox, audit, lock, tenure, batch, faults>>

\* Every record of the batch is acknowledged.
ProduceSync(r) ==
    /\ batch[r] # {} /\ ~sent[r]
    /\ topic' = Copies(batch[r])
    /\ sent' = [sent EXCEPT ![r] = TRUE]
    /\ UNCHANGED <<enqueued, outbox, audit, lock, tenure, batch, faults>>

Closed(r) ==
    /\ batch' = [batch EXCEPT ![r] = {}]
    /\ sent' = [sent EXCEPT ![r] = FALSE]

\* DeleteByIDs, WriteAuditEntries and the commit.
CommitBatch(r) ==
    /\ sent[r]
    /\ outbox' = outbox \ batch[r]
    /\ audit' = [j \in Job |-> audit[j] + IF j \in batch[r] THEN 1 ELSE 0]
    /\ Closed(r)
    /\ UNCHANGED <<enqueued, topic, lock, tenure, faults>>

\* A produce error, after part S of the batch has reached the broker, or a
\* failed delete, audit or commit rolls the cycle back; so does the cancelled
\* context of a relay that is leaving, which has been counted as a fault before.
CycleFails(r, S) ==
    /\ faults < MaxFaults \/ tenure[r] = "LEAVING"
    /\ batch[r] # {} /\ S \subseteq batch[r]
    /\ sent[r] => S = {}
    /\ topic' = Copies(S)
    /\ Closed(r)
    /\ faults' = IF tenure[r] = "LEAVING" THEN faults ELSE faults + 1
    /\ UNCHANGED <<enqueued, outbox, audit, lock, tenure>>

\* The cancelled relay returns and relayWG.Wait with it.
RelayExits(r) ==
    /\ tenure[r] = "LEAVING" /\ batch[r] = {}
    /\ tenure' = [tenure EXCEPT ![r] = "FOLLOWER"]
    /\ UNCHANGED <<rows, lock, batch, sent, faults>>

--------------------------------------------------------------------------------
Init ==
    /\ enqueued = {} /\ outbox = {}
    /\ topic = [j \in Job |-> 0]
    /\ audit = [j \in Job |-> 0]
    /\ lock = NoOne
    /\ tenure = [r \in Replica |-> "FOLLOWER"]
    /\ batch = [r \in Replica |-> {}]
    /\ sent = [r \in Replica |-> FALSE]
    /\ faults = 0

ElectionStep(r) == TryAcquire(r) \/ PingFails(r)

RelayStep(r) == ClaimBatch(r) \/ ProduceSync(r) \/ CommitBatch(r) \/ RelayExits(r)

FaultStep(r) ==
    \/ SessionLost(r) \/ Stop(r) \/ Crash(r)
    \/ \E S \in SUBSET Job : CycleFails(r, S)

Next ==
    \/ \E j \in Job : Enqueue(j)
    \/ \E r \in Replica : ElectionStep(r) \/ RelayStep(r) \/ FaultStep(r)

Spec == Init /\ [][Next]_vars

\* Both loops of a replica run on their intervals; a broker or database that
\* does not fail answers; a stopped replica is replaced.
FairSpec == Spec /\ \A r \in Replica : WF_vars(ElectionStep(r)) /\ WF_vars(RelayStep(r))

--------------------------------------------------------------------------------
\* Every variable has its type.
TypeOK ==
    /\ enqueued \subseteq Job /\ outbox \subseteq enqueued
    /\ topic \in [Job -> Nat] /\ audit \in [Job -> Nat]
    /\ lock \in Replica \cup {NoOne}
    /\ tenure \in [Replica -> Tenure]
    /\ batch \in [Replica -> SUBSET Job]
    /\ sent \in [Replica -> BOOLEAN]
    /\ faults \in 0..MaxFaults

Settled == enqueued \ outbox

\* A committed job waits in the outbox or is in Kafka, wherever a replica stops
\* between claim, publish and commit (drainOnce).
NoDispatchLost == \A j \in Settled : topic[j] > 0

\* The audit trail has exactly one row for a job that has left the outbox, even
\* with two relays at work.
AuditedExactlyOnce == \A j \in Job : audit[j] = IF j \in Settled THEN 1 ELSE 0

\* A job is published a second time only because a cycle failed: overlapping
\* leaders alone do not duplicate it.
DuplicatesNeedFaults == \A j \in Job : topic[j] <= 1 + faults

\* Delivery to Kafka is at least once, its duplicates are paid for by faults and
\* its audit trail is exact, whoever leads and wherever a leader stops.
RelayIsSafe == NoDispatchLost /\ AuditedExactlyOnce /\ DuplicatesNeedFaults

\* Once the row of a job is gone no relay publishes it again, not even a deposed
\* leader with a batch in its hands.
SettledStaysQuiet == [][\A j \in Settled : topic'[j] = topic[j]]_vars

\* Every dispatched job reaches Kafka and leaves the outbox.
EveryJobIsSettled == \A j \in Job : j \in enqueued ~> j \in Settled
================================================================================
