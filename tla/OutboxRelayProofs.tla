--------------------------- MODULE OutboxRelayProofs ---------------------------
(***************************************************************************)
(* Proofs about OutboxRelay for every set of jobs, every finite set of     *)
(* replicas, every batch size and every number of faults.                  *)
(***************************************************************************)
EXTENDS OutboxRelay, FiniteSetTheorems, TLAPS

\* SKIP LOCKED keeps the open batches apart, and only rows that are still in the
\* outbox are in a batch; an acknowledged batch is in Kafka.
Batches ==
    /\ \A r, s \in Replica : r # s => batch[r] \cap batch[s] = {}
    /\ \A r \in Replica : batch[r] \subseteq outbox
    /\ \A r \in Replica : sent[r] => batch[r] # {}
    /\ \A r \in Replica : sent[r] => \A j \in batch[r] : topic[j] > 0

\* The inductive invariant.
IInv == TypeOK /\ Batches /\ NoDispatchLost /\ AuditedExactlyOnce

\* The initial state: no rows, no relay.
LEMMA InitIInv == Init => IInv
BY JobAssumption, ReplicaAssumption, BatchAssumption
DEF Init, IInv, TypeOK, Batches, NoDispatchLost, AuditedExactlyOnce, Settled, Tenure

\* Steps that leave the rows, the batches and what was sent alone.
LEMMA ElectionIInv ==
    ASSUME IInv, NEW r \in Replica,
           TryAcquire(r) \/ PingFails(r) \/ SessionLost(r) \/ Stop(r) \/ RelayExits(r)
    PROVE  IInv'
<1>1. UNCHANGED <<rows, batch, sent>>
    BY DEF TryAcquire, PingFails, SessionLost, Stop, RelayExits
<1>2. TypeOK'
    BY <1>1, ReplicaAssumption, BatchAssumption
    DEF IInv, TypeOK, Tenure, rows, TryAcquire, PingFails, SessionLost, Stop, RelayExits
<1>3. (Batches /\ NoDispatchLost /\ AuditedExactlyOnce)'
    BY <1>1 DEF IInv, Batches, NoDispatchLost, AuditedExactlyOnce, Settled, rows
<1> QED BY <1>2, <1>3 DEF IInv

\* A new row is in no batch and has not left the outbox.
LEMMA EnqueueIInv ==
    ASSUME IInv, NEW j \in Job, Enqueue(j)
    PROVE  IInv'
<1>1. TypeOK'
    BY DEF IInv, TypeOK, Enqueue
<1>2. Settled' = Settled
    BY DEF IInv, TypeOK, Enqueue, Settled
<1>3. Batches'
    BY DEF IInv, Batches, Enqueue
<1>4. (NoDispatchLost /\ AuditedExactlyOnce)'
    BY <1>2 DEF IInv, NoDispatchLost, AuditedExactlyOnce, Enqueue
<1> QED BY <1>1, <1>3, <1>4 DEF IInv

\* The claimed rows are in the outbox and in no other batch.
LEMMA ClaimIInv ==
    ASSUME IInv, NEW r \in Replica, ClaimBatch(r)
    PROVE  IInv'
<1>1. Oldest(outbox \ Locked) \subseteq outbox \ Locked
    BY DEF Oldest
<1>2. \A s \in Replica : batch[s] \subseteq Locked
    BY DEF Locked
<1>3. /\ batch' = [batch EXCEPT ![r] = Oldest(outbox \ Locked)]
      /\ UNCHANGED <<rows, lock, tenure, sent, faults>>
      /\ batch[r] = {}
    BY DEF ClaimBatch
<1> HIDE DEF Oldest, Locked
<1>4. TypeOK'
    BY Zenon, <1>1, <1>3 DEF IInv, TypeOK, rows
<1>5. ~sent[r]
    BY <1>3 DEF IInv, Batches
<1>6. Batches'
    <2>1. \A p, s \in Replica : p # s => (batch[p] \cap batch[s] = {})'
        BY Zenon, <1>1, <1>2, <1>3 DEF IInv, TypeOK, Batches
    <2>2. \A s \in Replica : (batch[s] \subseteq outbox)'
        BY Zenon, <1>1, <1>3 DEF IInv, TypeOK, Batches, rows
    <2>3. \A s \in Replica : sent'[s] => s # r /\ batch'[s] = batch[s]
        BY <1>3, <1>5 DEF IInv, TypeOK
    <2> QED BY <2>1, <2>2, <2>3, <1>3 DEF IInv, Batches, rows
<1>7. (NoDispatchLost /\ AuditedExactlyOnce)'
    BY <1>3 DEF IInv, NoDispatchLost, AuditedExactlyOnce, Settled, rows
<1> QED BY <1>4, <1>6, <1>7 DEF IInv

\* More copies in Kafka disturb nothing but the sent flag of the batch.
LEMMA ProduceIInv ==
    ASSUME IInv, NEW r \in Replica, ProduceSync(r)
    PROVE  IInv'
<1>1. topic' \in [Job -> Nat] /\ \A j \in Job : topic'[j] >= topic[j]
    BY DEF IInv, TypeOK, ProduceSync, Copies
<1>2. \A j \in batch[r] : topic'[j] > 0
    BY DEF IInv, TypeOK, ProduceSync, Copies
<1>3. TypeOK'
    BY <1>1 DEF IInv, TypeOK, ProduceSync
<1>4. Batches'
    <2>1. \A s \in Replica : s # r => sent'[s] = sent[s]
        BY DEF ProduceSync, IInv, TypeOK
    <2>2. \A s \in Replica : sent'[s] => \A j \in batch[s] : topic'[j] > 0
        BY <2>1, <1>1, <1>2 DEF IInv, TypeOK, Batches
    <2>3. \A s \in Replica : sent'[s] => batch[s] # {}
        BY <2>1 DEF IInv, Batches, ProduceSync
    <2> QED BY <2>2, <2>3 DEF IInv, Batches, ProduceSync
<1>5. NoDispatchLost'
    BY <1>1 DEF IInv, TypeOK, NoDispatchLost, Settled, ProduceSync
<1>6. AuditedExactlyOnce'
    BY DEF IInv, AuditedExactlyOnce, Settled, ProduceSync
<1> QED BY <1>3, <1>4, <1>5, <1>6 DEF IInv

\* The committed batch was published, was in no other batch, and had no audit row.
LEMMA CommitIInv ==
    ASSUME IInv, NEW r \in Replica, CommitBatch(r)
    PROVE  IInv'
<1>1. TypeOK'
    BY DEF IInv, TypeOK, CommitBatch, Closed
<1>2. \A s \in Replica : batch'[s] = IF s = r THEN {} ELSE batch[s]
    BY DEF IInv, TypeOK, CommitBatch, Closed
<1>3. \A s \in Replica : sent'[s] => s # r /\ sent[s]
    BY DEF IInv, TypeOK, CommitBatch, Closed
<1>4. Batches'
    BY <1>2, <1>3 DEF IInv, Batches, CommitBatch
<1>5. Settled' = Settled \cup batch[r] /\ Settled \cap batch[r] = {}
    BY DEF IInv, TypeOK, Batches, Settled, CommitBatch
<1>6. NoDispatchLost'
    BY <1>5 DEF IInv, Batches, NoDispatchLost, CommitBatch
<1>7. AuditedExactlyOnce'
    BY <1>5 DEF IInv, TypeOK, AuditedExactlyOnce, CommitBatch
<1> QED BY <1>1, <1>4, <1>6, <1>7 DEF IInv

\* A rolled back cycle only adds copies and gives its rows back.
LEMMA RollbackIInv ==
    ASSUME IInv, NEW r \in Replica,
           Crash(r) \/ \E S \in SUBSET Job : CycleFails(r, S)
    PROVE  IInv'
<1>1. topic' \in [Job -> Nat] /\ \A j \in Job : topic'[j] >= topic[j]
    BY DEF IInv, TypeOK, Crash, rows, CycleFails, Copies
<1>2. UNCHANGED <<enqueued, outbox, audit>> /\ Closed(r)
    BY DEF Crash, CycleFails, Closed, rows
<1>3. /\ tenure' \in [Replica -> Tenure]
      /\ lock' \in Replica \cup {NoOne}
    BY DEF IInv, TypeOK, Tenure, Crash, CycleFails
<1>4. faults' \in 0..MaxFaults
    BY BatchAssumption DEF IInv, TypeOK, Crash, CycleFails
<1>5. TypeOK'
    BY Zenon, <1>1, <1>2, <1>3, <1>4 DEF IInv, TypeOK, Closed
<1>6. \A s \in Replica : batch'[s] = IF s = r THEN {} ELSE batch[s]
    BY <1>2 DEF IInv, TypeOK, Closed
<1>7. \A s \in Replica : sent'[s] => s # r /\ sent[s]
    BY <1>2 DEF IInv, TypeOK, Closed
<1>8. \A s \in Replica : sent'[s] => \A j \in batch'[s] : topic'[j] > 0
    BY <1>1, <1>6, <1>7 DEF IInv, TypeOK, Batches
<1>9. Batches'
    BY <1>2, <1>6, <1>7, <1>8 DEF IInv, Batches
<1>10. NoDispatchLost'
    BY <1>1, <1>2 DEF IInv, TypeOK, NoDispatchLost, Settled
<1>11. AuditedExactlyOnce'
    BY <1>2 DEF IInv, AuditedExactlyOnce, Settled
<1> QED BY <1>5, <1>9, <1>10, <1>11 DEF IInv

\* Every step preserves the inductive invariant.
LEMMA NextIInv == IInv /\ [Next]_vars => IInv'
<1> SUFFICES ASSUME IInv, [Next]_vars PROVE IInv'
    OBVIOUS
<1>1. CASE \E j \in Job : Enqueue(j)
    BY <1>1, EnqueueIInv
<1>2. ASSUME NEW r \in Replica, ElectionStep(r) \/ RelayStep(r) \/ FaultStep(r)
      PROVE  IInv'
    BY <1>2, ElectionIInv, ClaimIInv, ProduceIInv, CommitIInv, RollbackIInv
    DEF ElectionStep, RelayStep, FaultStep
<1>3. CASE UNCHANGED vars
    BY <1>3 DEF vars, IInv, TypeOK, Batches, NoDispatchLost, AuditedExactlyOnce, Settled
<1> QED BY <1>1, <1>2, <1>3 DEF Next

\* The relay keeps its inductive invariant.
THEOREM Invariance == Spec => []IInv
BY InitIInv, NextIInv, PTL DEF Spec

\* The relay's state keeps its type.
THEOREM TypeCorrect == Spec => []TypeOK
<1>1. IInv => TypeOK BY DEF IInv
<1> QED BY <1>1, Invariance, PTL

\* A committed job is in the outbox or in Kafka, for any number of replicas.
THEOREM AtLeastOnce == Spec => []NoDispatchLost
<1>1. IInv => NoDispatchLost BY DEF IInv
<1> QED BY <1>1, Invariance, PTL

\* The audit trail is exact, for any number of replicas.
THEOREM ExactTrail == Spec => []AuditedExactlyOnce
<1>1. IInv => AuditedExactlyOnce BY DEF IInv
<1> QED BY <1>1, Invariance, PTL

\* A job that has left the outbox is never published again.
THEOREM QuietAfterCommit == Spec => SettledStaysQuiet
<1>1. IInv /\ [Next]_vars => [\A j \in Settled : topic'[j] = topic[j]]_vars
    <2> SUFFICES ASSUME IInv, Next, NEW j \in Settled PROVE topic'[j] = topic[j]
        OBVIOUS
    <2>1. j \in Job /\ \A r \in Replica : j \notin batch[r]
        BY DEF IInv, TypeOK, Batches, Settled
    <2>2. \A S : j \notin S => Copies(S)[j] = topic[j]
        BY <2>1 DEF Copies, IInv, TypeOK
    <2>3. CASE \E i \in Job : Enqueue(i)
        BY <2>3 DEF Enqueue
    <2>4. ASSUME NEW r \in Replica, ElectionStep(r) \/ RelayStep(r) \/ FaultStep(r)
          PROVE  topic'[j] = topic[j]
        <3>1. CASE ElectionStep(r)
            BY <3>1 DEF ElectionStep, TryAcquire, PingFails, rows
        <3>2. CASE RelayStep(r)
            BY <3>2, <2>1, <2>2
            DEF RelayStep, ClaimBatch, ProduceSync, CommitBatch, RelayExits, rows
        <3>3. CASE FaultStep(r)
            BY <3>3, <2>1, <2>2 DEF FaultStep, SessionLost, Stop, Crash, CycleFails, rows
        <3> QED BY <2>4, <3>1, <3>2, <3>3
    <2> QED BY <2>3, <2>4 DEF Next
<1> QED BY <1>1, Invariance, PTL DEF Spec, SettledStaysQuiet

--------------------------------------------------------------------------------
(* Duplicates.  A lost session or a shutdown is counted as a fault before the  *)
(* cycle it spoils has failed: until then the replica owes a failed cycle.     *)

Owes(r) ==
    \/ tenure[r] = "LEAVING" /\ batch[r] # {}
    \/ tenure[r] = "LEADER" /\ lock # r

Debtors == {r \in Replica : Owes(r)}

\* The copy of j that needs no fault has been made.
Delivered(j) == j \in Settled \/ \E r \in Replica : sent[r] /\ j \in batch[r]

\* Every other copy, and every cycle still to fail, is paid for by a fault.
Paid ==
    \A j \in Job :
        topic[j] + Cardinality(Debtors) <= faults + IF Delivered(j) THEN 1 ELSE 0

\* What adding or dropping one debtor does to their number.
LEMMA DebtorCount ==
    /\ Cardinality(Debtors) \in Nat
    /\ Cardinality(Debtors)' \in Nat
    /\ Debtors' \subseteq Debtors => Cardinality(Debtors)' <= Cardinality(Debtors)
    /\ \A r \in Replica :
          /\ Debtors' \subseteq Debtors \cup {r} => Cardinality(Debtors)' <= Cardinality(Debtors) + 1
          /\ (r \in Debtors /\ Debtors' \subseteq Debtors \ {r}) =>
                Cardinality(Debtors)' <= Cardinality(Debtors) - 1
<1> DEFINE D == Debtors
           E == Debtors'
<1>1. IsFiniteSet(D) /\ IsFiniteSet(E)
    <2>1. D \subseteq Replica /\ E \subseteq Replica
        BY DEF Debtors
    <2> QED BY <2>1, ReplicaAssumption, FS_Subset
<1> HIDE DEF D, E
<1>2. Cardinality(D) \in Nat /\ Cardinality(E) \in Nat
    BY <1>1, FS_CardinalityType
<1>3. E \subseteq D => Cardinality(E) <= Cardinality(D)
    BY <1>1, FS_Subset
<1>4. ASSUME NEW r \in Replica
      PROVE  /\ E \subseteq D \cup {r} => Cardinality(E) <= Cardinality(D) + 1
             /\ (r \in D /\ E \subseteq D \ {r}) => Cardinality(E) <= Cardinality(D) - 1
    <2>1. /\ IsFiniteSet(D \cup {r})
          /\ Cardinality(D \cup {r}) = IF r \in D THEN Cardinality(D) ELSE Cardinality(D) + 1
        BY <1>1, FS_AddElement
    <2>2. /\ IsFiniteSet(D \ {r})
          /\ Cardinality(D \ {r}) = IF r \in D THEN Cardinality(D) - 1 ELSE Cardinality(D)
        BY <1>1, FS_RemoveElement
    <2>3. E \subseteq D \cup {r} => Cardinality(E) <= Cardinality(D \cup {r})
        BY <2>1, FS_Subset
    <2>4. E \subseteq D \ {r} => Cardinality(E) <= Cardinality(D \ {r})
        BY <2>2, FS_Subset
    <2> QED BY <1>2, <2>1, <2>2, <2>3, <2>4
<1> QED BY <1>2, <1>3, <1>4 DEF D, E

\* Arithmetic of Paid: what a step must do to the copies, debts and faults of j.
LEMMA PaidStep ==
    ASSUME IInv, IInv', Paid,
           NEW dt \in Nat, NEW dd \in Int, NEW df \in Nat, NEW j \in Job,
           topic'[j] <= topic[j] + dt,
           Cardinality(Debtors)' <= Cardinality(Debtors) + dd,
           faults' = faults + df,
           dt + dd + (IF Delivered(j) THEN 1 ELSE 0) <= df + (IF Delivered(j)' THEN 1 ELSE 0)
    PROVE  topic'[j] + Cardinality(Debtors)' <= faults' + IF Delivered(j)' THEN 1 ELSE 0
<1>1. topic[j] \in Nat /\ topic'[j] \in Nat /\ faults \in Nat
    BY BatchAssumption DEF IInv, TypeOK
<1>2. Cardinality(Debtors) \in Nat /\ Cardinality(Debtors)' \in Nat
    BY DebtorCount
<1>3. topic[j] + Cardinality(Debtors) <= faults + IF Delivered(j) THEN 1 ELSE 0
    BY DEF Paid
<1> HIDE DEF Debtors, Delivered
<1> QED BY <1>1, <1>2, <1>3

\* Nothing is owed and nothing is published initially.
LEMMA InitPaid == Init => Paid
<1> SUFFICES ASSUME Init PROVE Paid
    OBVIOUS
<1>1. Debtors = {}
    BY DEF Init, Debtors, Owes
<1>2. Cardinality(Debtors) = 0
    BY <1>1, FS_EmptySet
<1>3. \A j \in Job : ~Delivered(j) /\ topic[j] = 0
    BY DEF Init, Delivered, Settled
<1>4. faults = 0
    BY DEF Init
<1> HIDE DEF Debtors, Delivered
<1> QED BY <1>2, <1>3, <1>4 DEF Paid

\* Steps of the election and a claim: no copies are made.
LEMMA QuietPaid ==
    ASSUME IInv, IInv', Paid, NEW r \in Replica,
           \/ TryAcquire(r) \/ PingFails(r) \/ SessionLost(r) \/ Stop(r)
           \/ RelayExits(r) \/ ClaimBatch(r)
    PROVE  Paid'
<1>1. topic' = topic /\ sent' = sent
    BY DEF TryAcquire, PingFails, SessionLost, Stop, RelayExits, ClaimBatch, rows
<1>2. \A j \in Job : Delivered(j) => Delivered(j)'
    <2> SUFFICES ASSUME NEW j \in Job, Delivered(j) PROVE Delivered(j)'
        OBVIOUS
    <2>1. Settled' = Settled
        BY DEF IInv, TypeOK, Settled, rows, TryAcquire, PingFails, SessionLost, Stop,
               RelayExits, ClaimBatch
    <2>2. \A s \in Replica : sent[s] => batch'[s] = batch[s]
        BY DEF IInv, TypeOK, Batches, TryAcquire, PingFails, SessionLost, Stop,
               RelayExits, ClaimBatch
    <2> QED BY <1>1, <2>1, <2>2 DEF Delivered
<1>3. CASE TryAcquire(r) \/ PingFails(r) \/ RelayExits(r) \/ ClaimBatch(r)
    <2>1. Debtors' \subseteq Debtors
        BY <1>3, ReplicaAssumption
        DEF Debtors, Owes, IInv, TypeOK, TryAcquire, PingFails, RelayExits, ClaimBatch
    <2>2. faults' = faults + 0
        BY <1>3, BatchAssumption
        DEF IInv, TypeOK, TryAcquire, PingFails, RelayExits, ClaimBatch
    <2>3. Cardinality(Debtors)' <= Cardinality(Debtors) + 0
        BY <2>1, DebtorCount
    <2>4. \A j \in Job : topic'[j] <= topic[j] + 0
        BY <1>1 DEF IInv, TypeOK
    <2> HIDE DEF Debtors, Delivered
    <2>5. ASSUME NEW j \in Job
          PROVE  topic'[j] + Cardinality(Debtors)' <= faults' + IF Delivered(j)' THEN 1 ELSE 0
        BY <1>2, <2>2, <2>3, <2>4, PaidStep
    <2> QED BY <2>5 DEF Paid
<1>4. CASE SessionLost(r) \/ Stop(r)
    <2>1. Debtors' \subseteq Debtors \cup {r}
        BY <1>4, ReplicaAssumption DEF Debtors, Owes, IInv, TypeOK, SessionLost, Stop
    <2>2. faults' = faults + 1
        BY <1>4 DEF SessionLost, Stop
    <2>3. Cardinality(Debtors)' <= Cardinality(Debtors) + 1
        BY <2>1, DebtorCount
    <2>4. \A j \in Job : topic'[j] <= topic[j] + 0
        BY <1>1 DEF IInv, TypeOK
    <2> HIDE DEF Debtors, Delivered
    <2>5. ASSUME NEW j \in Job
          PROVE  topic'[j] + Cardinality(Debtors)' <= faults' + IF Delivered(j)' THEN 1 ELSE 0
        BY <1>2, <2>2, <2>3, <2>4, PaidStep
    <2> QED BY <2>5 DEF Paid
<1> QED BY <1>3, <1>4

\* Publishing a batch is the one free copy of its rows; the commit keeps it.
LEMMA CyclePaid ==
    ASSUME IInv, IInv', Paid, NEW r \in Replica, ProduceSync(r) \/ CommitBatch(r)
    PROVE  Paid'
<1>1. Debtors' \subseteq Debtors /\ faults' = faults + 0
    BY BatchAssumption
    DEF Debtors, Owes, IInv, TypeOK, ProduceSync, CommitBatch, Closed
<1>2. Cardinality(Debtors)' <= Cardinality(Debtors) + 0
    BY <1>1, DebtorCount
<1>3. CASE ProduceSync(r)
    <2> SUFFICES ASSUME NEW j \in Job
                 PROVE topic'[j] + Cardinality(Debtors)' <= faults' + IF Delivered(j)' THEN 1 ELSE 0
        BY DEF Paid
    <2>1. CASE j \in batch[r]
        <3>1. ~Delivered(j)
            BY <1>3, <2>1 DEF IInv, TypeOK, Batches, Delivered, Settled, ProduceSync
        <3>2. Delivered(j)'
            BY <1>3, <2>1 DEF IInv, TypeOK, Delivered, ProduceSync
        <3>3. topic'[j] <= topic[j] + 1
            BY <1>3, <2>1 DEF IInv, TypeOK, ProduceSync, Copies
        <3> HIDE DEF Debtors, Delivered
        <3> QED BY <1>1, <1>2, <3>1, <3>2, <3>3, PaidStep
    <2>2. CASE j \notin batch[r]
        <3>1. Delivered(j) => Delivered(j)'
            BY <1>3 DEF IInv, TypeOK, Delivered, Settled, ProduceSync
        <3>2. topic'[j] <= topic[j] + 0
            BY <1>3, <2>2 DEF IInv, TypeOK, ProduceSync, Copies
        <3> HIDE DEF Debtors, Delivered
        <3> QED BY <1>1, <1>2, <3>1, <3>2, PaidStep
    <2> QED BY <2>1, <2>2
<1>4. CASE CommitBatch(r)
    <2>1. \A j \in Job : Delivered(j) => Delivered(j)'
        BY <1>4 DEF IInv, TypeOK, Batches, Delivered, Settled, CommitBatch, Closed
    <2>2. \A j \in Job : topic'[j] <= topic[j] + 0
        BY <1>4 DEF IInv, TypeOK, CommitBatch
    <2> HIDE DEF Debtors, Delivered
    <2>3. ASSUME NEW j \in Job
          PROVE  topic'[j] + Cardinality(Debtors)' <= faults' + IF Delivered(j)' THEN 1 ELSE 0
        BY <1>1, <1>2, <2>1, <2>2, PaidStep
    <2> QED BY <2>3 DEF Paid
<1> QED BY <1>3, <1>4

\* A failed cycle costs a copy or a delivery, and a fault or a debt pays for it.
LEMMA FailurePaid ==
    ASSUME IInv, IInv', Paid, NEW r \in Replica,
           Crash(r) \/ \E S \in SUBSET Job : CycleFails(r, S)
    PROVE  Paid'
<1>1. CASE Crash(r)
    <2>1. Debtors' \subseteq Debtors
        BY <1>1, ReplicaAssumption DEF Debtors, Owes, IInv, TypeOK, Crash
    <2>2. Cardinality(Debtors)' <= Cardinality(Debtors) + 0
        BY <2>1, DebtorCount
    <2>3. faults' = faults + 1
        BY <1>1 DEF Crash
    <2>4. \A j \in Job : topic'[j] <= topic[j] + 0
        BY <1>1 DEF IInv, TypeOK, Crash, rows
    <2> HIDE DEF Debtors, Delivered
    <2>5. ASSUME NEW j \in Job
          PROVE  topic'[j] + Cardinality(Debtors)' <= faults' + IF Delivered(j)' THEN 1 ELSE 0
        <3>1. 0 + 0 + (IF Delivered(j) THEN 1 ELSE 0) <= 1 + (IF Delivered(j)' THEN 1 ELSE 0)
            OBVIOUS
        <3> QED BY <3>1, <2>2, <2>3, <2>4, PaidStep
    <2> QED BY <2>5 DEF Paid
<1>2. ASSUME NEW S \in SUBSET Job, CycleFails(r, S), NEW j \in Job
      PROVE  topic'[j] + Cardinality(Debtors)' <= faults' + IF Delivered(j)' THEN 1 ELSE 0
    <2>1. \/ topic'[j] <= topic[j] + 0
          \/ topic'[j] <= topic[j] + 1 /\ (Delivered(j) => Delivered(j)')
        <3>1. CASE sent[r]
            BY <1>2, <3>1 DEF IInv, TypeOK, CycleFails, Copies
        <3>2. CASE ~sent[r]
            <4>1. topic'[j] <= topic[j] + 1
                BY <1>2 DEF IInv, TypeOK, CycleFails, Copies
            <4>2. Delivered(j) => Delivered(j)'
                BY <1>2, <3>2 DEF IInv, TypeOK, CycleFails, Closed, Delivered, Settled
            <4> QED BY <4>1, <4>2
        <3> QED BY <3>1, <3>2
    <2>2. CASE tenure[r] = "LEAVING"
        <3>1. r \in Debtors /\ Debtors' \subseteq Debtors \ {r}
            BY <1>2, <2>2 DEF Debtors, Owes, IInv, TypeOK, CycleFails, Closed
        <3>2. Cardinality(Debtors)' <= Cardinality(Debtors) + (-1)
            BY <3>1, DebtorCount
        <3>3. faults' = faults + 0
            BY <1>2, <2>2, BatchAssumption DEF IInv, TypeOK, CycleFails
        <3> HIDE DEF Debtors, Delivered
        <3>4. CASE topic'[j] <= topic[j] + 0
            <4>1. 0 + (-1) + (IF Delivered(j) THEN 1 ELSE 0) <= 0 + (IF Delivered(j)' THEN 1 ELSE 0)
                OBVIOUS
            <4> QED BY <4>1, <3>2, <3>3, <3>4, PaidStep
        <3>5. CASE topic'[j] <= topic[j] + 1 /\ (Delivered(j) => Delivered(j)')
            <4>1. 1 + (-1) + (IF Delivered(j) THEN 1 ELSE 0) <= 0 + (IF Delivered(j)' THEN 1 ELSE 0)
                BY <3>5
            <4> QED BY <4>1, <3>2, <3>3, <3>5, PaidStep
        <3> QED BY <2>1, <3>4, <3>5
    <2>3. CASE tenure[r] # "LEAVING"
        <3>1. Debtors' \subseteq Debtors
            BY <1>2, <2>3 DEF Debtors, Owes, IInv, TypeOK, CycleFails, Closed
        <3>2. Cardinality(Debtors)' <= Cardinality(Debtors) + 0
            BY <3>1, DebtorCount
        <3>3. faults' = faults + 1
            BY <1>2, <2>3 DEF CycleFails
        <3> HIDE DEF Debtors, Delivered
        <3>4. CASE topic'[j] <= topic[j] + 0
            <4>1. 0 + 0 + (IF Delivered(j) THEN 1 ELSE 0) <= 1 + (IF Delivered(j)' THEN 1 ELSE 0)
                OBVIOUS
            <4> QED BY <4>1, <3>2, <3>3, <3>4, PaidStep
        <3>5. CASE topic'[j] <= topic[j] + 1 /\ (Delivered(j) => Delivered(j)')
            <4>1. 1 + 0 + (IF Delivered(j) THEN 1 ELSE 0) <= 1 + (IF Delivered(j)' THEN 1 ELSE 0)
                BY <3>5
            <4> QED BY <4>1, <3>2, <3>3, <3>5, PaidStep
        <3> QED BY <2>1, <3>4, <3>5
    <2> QED BY <2>2, <2>3
<1> QED BY <1>1, <1>2 DEF Paid

\* Every step keeps the books.
LEMMA NextPaid == IInv /\ IInv' /\ Paid /\ [Next]_vars => Paid'
<1> SUFFICES ASSUME IInv, IInv', Paid, [Next]_vars PROVE Paid'
    OBVIOUS
<1>1. ASSUME NEW r \in Replica, ElectionStep(r) \/ RelayStep(r) \/ FaultStep(r)
      PROVE  Paid'
    BY <1>1, QuietPaid, CyclePaid, FailurePaid DEF ElectionStep, RelayStep, FaultStep
<1>2. CASE \E j \in Job : Enqueue(j)
    <2>1. topic' = topic /\ faults' = faults /\ Debtors' = Debtors
        BY <1>2 DEF Enqueue, Debtors, Owes
    <2>2. \A j \in Job : Delivered(j)' = Delivered(j)
        BY <1>2 DEF Enqueue, Delivered, Settled, IInv, TypeOK
    <2> HIDE DEF Debtors, Delivered
    <2> QED BY <2>1, <2>2 DEF Paid
<1>3. CASE UNCHANGED vars
    BY Zenon, <1>3 DEF vars, Paid, Debtors, Owes, Delivered, Settled
<1> QED BY <1>1, <1>2, <1>3 DEF Next

\* A job is in Kafka at most once more often than there were faults, for any
\* number of replicas that overlap as leaders.
THEOREM BoundedDuplicates == Spec => []DuplicatesNeedFaults
<1>1. IInv /\ Paid => DuplicatesNeedFaults
    <2> SUFFICES ASSUME IInv, Paid, NEW j \in Job PROVE topic[j] <= 1 + faults
        BY DEF DuplicatesNeedFaults
    <2>1. topic[j] \in Nat /\ faults \in Nat
        BY BatchAssumption DEF IInv, TypeOK
    <2>2. Cardinality(Debtors) \in Nat
        BY DebtorCount
    <2>3. topic[j] + Cardinality(Debtors) <= faults + IF Delivered(j) THEN 1 ELSE 0
        BY DEF Paid
    <2> HIDE DEF Debtors, Delivered
    <2> QED BY <2>1, <2>2, <2>3
<1> QED BY <1>1, Invariance, InitPaid, NextPaid, PTL DEF Spec

\* Nothing is lost, the trail is exact and duplicates are bounded by the faults,
\* for every number of replicas and jobs.
THEOREM RelaySafe == Spec => []RelayIsSafe
BY AtLeastOnce, ExactTrail, BoundedDuplicates, PTL DEF RelayIsSafe
================================================================================
