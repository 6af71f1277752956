------------------------- MODULE NodeKafkaRunnerProofs -------------------------
(***************************************************************************)
(* Proofs about NodeKafkaRunner, for every number of workers, every log    *)
(* and every bound on tenures and faults: the group never commits past an  *)
(* unapplied record, commits are fenced by the assignment, and committed   *)
(* offsets never go back.                                                  *)
(*                                                                         *)
(* The invariants are not inductive.  A commit request carries an offset   *)
(* chosen long before, so what has to be carried along is that the one     *)
(* tenure that may still commit works on the record after the committed    *)
(* offset, and that every other tenure is cut off: revoked, refused by the *)
(* broker, or waited for by the rebalance callback.                        *)
(***************************************************************************)
EXTENDS NodeKafkaRunner, TLAPS

\* What the provers may use on a leaf that names no prover itself.
USE ZenonT(40), SMTT(40)

\* Tenures are granted in order, each to one worker.
Tenures ==
    /\ \A w \in Worker : owners[w] # 0 => owners[w] <= granted /\ holder[owners[w]] = w
    /\ \A k \in Tenure :
          IF k <= granted THEN holder[k] \in Worker ELSE works[k].pc = "idle"

\* The broker has the partition assigned to a member, and a member that owns
\* it is the one it is assigned to.
Assignment ==
    /\ assigned # NoOne => assigned \in members
    /\ \A w \in members : owners[w] # 0 => assigned = w

\* At most one commit can still be stored.  It is the next one, and comes from
\* the last tenure of the worker the partition is assigned to.
Fenced ==
    \A k \in Tenure : works[k].pc = "submitted" =>
        /\ assigned = holder[k]
        /\ owners[holder[k]] \in {0, k}
        /\ works[k].at = committed + 1
        /\ \A l \in Tenure : works[l].pc = "submitted" => l = k

\* A worker that is in the group works on the record after the committed one.
InStep ==
    \A w \in members : owners[w] # 0 =>
        /\ ~paused[w] => position[w] = committed /\ works[owners[w]].pc = "idle"
        /\ works[owners[w]].pc \in {"turn", "handling", "calling"}
              => works[owners[w]].at = committed + 1
        /\ works[owners[w]].pc = "stored" => works[owners[w]].at = committed

\* What a work item has established about its record when it gets so far.
Established ==
    \A k \in Tenure :
        /\ works[k].pc \in Busy => works[k].at \in DOMAIN Log
        /\ works[k].pc \in {"handling", "calling", "submitted"} => Record(k).kind # "malformed"
        /\ works[k].pc = "submitted" => Record(k).job \in acked

IInv ==
    TypeOK /\ Tenures /\ Assignment /\ Fenced /\ InStep /\ Established /\ NothingIsSkipped

--------------------------------------------------------------------------------
\* What the proofs use of the constants.
LEMMA Constants ==
    /\ NoOne \notin Worker
    /\ Len(Log) \in Nat /\ DOMAIN Log = 1..Len(Log)
    /\ \A o \in 1..Len(Log) : Log[o].kind \in {"job", "invalidPayload", "malformed"}
    /\ MaxTenures \in Nat /\ MaxFaults \in Nat
BY NoOneAssumption, LogAssumption, BoundsAssumption DEF Kind

\* A new tenure starts with no work, after the last commit of the one before it.
LEMMA AssignInv ==
    ASSUME IInv, NEW w \in Worker, Assign(w)
    PROVE  IInv'
<1> USE Constants DEF Assign, broker, client, Tenure, Busy, Halted, WorkState
<1>1. TypeOK'
  BY SMTT(40) DEF IInv, TypeOK
<1>2. Tenures'
  <2>1. granted + 1 \in Tenure /\ granted' = granted + 1 /\ works' = works
    BY SMTT(40) DEF IInv, TypeOK
  <2>2. ASSUME NEW v \in Worker, owners'[v] # 0
        PROVE  owners'[v] <= granted' /\ holder'[owners'[v]] = v
    <3>1. CASE v = w
      BY SMTT(40), <2>1, <3>1 DEF IInv, TypeOK
    <3>2. CASE v # w
      <4>1. owners'[v] = owners[v] /\ owners[v] \in 0..MaxTenures
        BY <3>2 DEF IInv, TypeOK
      <4>2. owners[v] <= granted /\ holder[owners[v]] = v
        BY <2>2, <4>1 DEF IInv, Tenures
      <4> QED BY SMTT(40), <2>1, <2>2, <4>1, <4>2 DEF IInv, TypeOK
    <3> QED BY <3>1, <3>2
  <2>3. \A k \in Tenure :
           IF k <= granted' THEN holder'[k] \in Worker ELSE works'[k].pc = "idle"
    BY SMTT(40), <2>1 DEF IInv, TypeOK, Tenures
  <2> QED BY <2>2, <2>3 DEF Tenures
<1>3. Assignment'
  BY DEF IInv, TypeOK, Assignment
<1>4. Fenced'
  BY SMTT(40) DEF IInv, Tenures, Fenced
<1>5. InStep'
  BY SMTT(40) DEF IInv, TypeOK, Tenures, Assignment, InStep
<1>6. Established'
  BY DEF IInv, Established, Record
<1>7. NothingIsSkipped'
  BY DEF IInv, NothingIsSkipped
<1> QED
  BY <1>1, <1>2, <1>3, <1>4, <1>5, <1>6, <1>7 DEF IInv

\* A revocation ends the tenure; its submitted commit keeps the partition from moving on.
LEMMA RevokeInv ==
    ASSUME IInv, NEW w \in Worker, Revoke(w)
    PROVE  IInv'
<1> USE Constants DEF Revoke, Fault, broker, client, Tenure, Busy, Halted, WorkState
<1>1. TypeOK'
  BY SMTT(40) DEF IInv, TypeOK
<1>2. Tenures'
  <2>1. \A v \in Worker : owners'[v] # 0 => owners'[v] = owners[v]
    BY SMTT(40) DEF TypeOK
  <2> QED BY SMTT(40), <2>1 DEF IInv, TypeOK, Tenures
<1>3. Assignment'
  BY SMTT(40) DEF IInv, Assignment
<1>4. Fenced'
  BY SMTT(40) DEF IInv, Fenced
<1>5. InStep'
  BY SMTT(40) DEF IInv, InStep
<1>6. Established'
  BY DEF IInv, Established, Record
<1>7. NothingIsSkipped'
  BY DEF IInv, NothingIsSkipped
<1> QED
  BY <1>1, <1>2, <1>3, <1>4, <1>5, <1>6, <1>7 DEF IInv

\* The partition leaves its worker only when no commit of it is under way.
LEMMA HandOverInv ==
    ASSUME IInv, NEW w \in Worker, HandOver(w)
    PROVE  IInv'
<1> USE Constants DEF HandOver, CommitUnderWay, broker, client, Tenure, Busy, Halted, WorkState
<1>1. TypeOK'
  BY DEF IInv, TypeOK
<1>2. Tenures'
  BY DEF IInv, Tenures
<1>3. Assignment'
  BY DEF IInv, Assignment
<1>4. Fenced'
  BY DEF IInv, Fenced
<1>5. InStep'
  BY DEF IInv, InStep
<1>6. Established'
  BY DEF IInv, Established, Record
<1>7. NothingIsSkipped'
  BY DEF IInv, NothingIsSkipped
<1> QED
  BY <1>1, <1>2, <1>3, <1>4, <1>5, <1>6, <1>7 DEF IInv

\* A commit of a worker that the broker has given up is never stored.
LEMMA SessionLostInv ==
    ASSUME IInv, NEW w \in Worker, SessionLost(w)
    PROVE  IInv'
<1> USE Constants DEF SessionLost, Fault, Void, broker, client, Tenure, Busy, Halted, WorkState
<1>1. TypeOK'
  BY SMTT(40) DEF IInv, TypeOK, Established
<1>2. Tenures'
  BY DEF IInv, Tenures
<1>3. Assignment'
  BY DEF IInv, Assignment
<1>4. Fenced'
  BY SMTT(40) DEF IInv, Fenced
<1>5. InStep'
  BY SMTT(40) DEF IInv, TypeOK, InStep
<1>6. Established'
  BY SMTT(40) DEF IInv, Established, Record
<1>7. NothingIsSkipped'
  BY DEF IInv, NothingIsSkipped
<1> QED
  BY <1>1, <1>2, <1>3, <1>4, <1>5, <1>6, <1>7 DEF IInv

\* A worker that rejoins has lost what it owned.
LEMMA RejoinInv ==
    ASSUME IInv, NEW w \in Worker, Rejoin(w)
    PROVE  IInv'
<1> USE Constants DEF Rejoin, broker, client, Tenure, Busy, Halted, WorkState
<1>1. TypeOK'
  BY SMTT(40) DEF IInv, TypeOK
<1>2. Tenures'
  BY SMTT(40) DEF IInv, Tenures
<1>3. Assignment'
  BY SMTT(40) DEF IInv, TypeOK, Assignment
<1>4. Fenced'
  BY SMTT(40) DEF IInv, Fenced
<1>5. InStep'
  BY SMTT(40) DEF IInv, TypeOK, InStep
<1>6. Established'
  BY DEF IInv, Established, Record
<1>7. NothingIsSkipped'
  BY DEF IInv, NothingIsSkipped
<1> QED
  BY <1>1, <1>2, <1>3, <1>4, <1>5, <1>6, <1>7 DEF IInv

\* Work starts on the record at the position of its tenure.
LEMMA EachBatchInv ==
    ASSUME IInv, NEW w \in Worker, EachBatch(w)
    PROVE  IInv'
<1> DEFINE k == owners[w]
<1> USE Constants DEF Tenure, broker, client
<1>0. /\ k \in Tenure /\ ~paused[w] /\ works[k].pc \notin Busy
      /\ works' \in [Tenure -> [pc : WorkState, at : 0..Len(Log)]]
      /\ works'[k].pc = "turn" /\ works'[k].at = position[w] + 1
      /\ position[w] + 1 \in 1..Len(Log)
      /\ \A l \in Tenure : l # k => works'[l] = works[l]
      /\ paused' = [paused EXCEPT ![w] = TRUE]
      /\ UNCHANGED <<broker, acked, owners, position, stopping, holder, seen, granted, faults>>
  BY SMTT(40) DEF IInv, TypeOK, EachBatch, Pending, WorkState, Busy
<1> HIDE DEF k
<1>1. TypeOK'
  BY <1>0 DEF IInv, TypeOK
<1>2. Tenures'
  <2>1. k <= granted
    BY SMTT(40), <1>0 DEF IInv, Tenures, k
  <2>2. ASSUME NEW l \in Tenure, ~(l <= granted) PROVE works'[l].pc = "idle"
    <3>1. l # k
      BY <2>1, <2>2
    <3>2. works'[l] = works[l]
      BY <1>0, <3>1
    <3>3. works[l].pc = "idle"
      BY SMTT(40), <2>2 DEF IInv, Tenures
    <3> QED BY <3>2, <3>3
  <2> QED BY <1>0, <2>2 DEF IInv, Tenures
<1>3. Assignment'
  BY <1>0 DEF IInv, Assignment
<1>4. Fenced'
  BY SMTT(40), <1>0 DEF IInv, Fenced
<1>5. InStep'
  <2> SUFFICES ASSUME NEW v \in members, owners[v] # 0
               PROVE  /\ ~paused'[v] => position[v] = committed /\ works'[owners[v]].pc = "idle"
                      /\ works'[owners[v]].pc \in {"turn", "handling", "calling"}
                            => works'[owners[v]].at = committed + 1
                      /\ works'[owners[v]].pc = "stored" => works'[owners[v]].at = committed
    BY <1>0 DEF InStep
  <2>a. v \in Worker /\ owners[v] \in Tenure
    BY SMTT(40) DEF IInv, TypeOK
  <2>0. v \in Worker /\ owners[v] \in Tenure /\ holder[owners[v]] = v
    BY <2>a DEF IInv, Tenures
  <2>1. CASE v = w
    BY <1>0, <2>0, <2>1 DEF IInv, TypeOK, InStep, k
  <2>2. CASE v # w
    <3>1. owners[v] # k
      BY <2>0, <2>2 DEF IInv, Tenures, k
    <3> QED BY <1>0, <2>0, <2>2, <3>1 DEF IInv, TypeOK, InStep
  <2> QED BY <2>1, <2>2
<1>6. Established'
  BY <1>0 DEF IInv, TypeOK, Established, Record, Busy
<1>7. NothingIsSkipped'
  BY <1>0 DEF IInv, NothingIsSkipped
<1> QED
  BY <1>1, <1>2, <1>3, <1>4, <1>5, <1>6, <1>7 DEF IInv

\* A work item moves on without a commit being stored.
LEMMA WorkMoves ==
    ASSUME IInv, NEW k \in Tenure, NEW st,
           works[k].pc \in {"turn", "handling", "calling"},
           st \in {"idle", "unreadable", "void", "handling", "calling", "submitted"}, At(k, st),
           st \in {"handling", "calling", "submitted"} => Record(k).kind # "malformed",
           st = "submitted" => /\ owners[holder[k]] = k /\ holder[k] \in members
                               /\ Record(k).job \in acked,
           seen' \in [Worker -> SUBSET acked],
           UNCHANGED <<broker, acked, client, holder, granted, faults>>
    PROVE  IInv'
<1> USE Constants DEF Tenure, broker, client
<1>0. /\ works' \in [Tenure -> [pc : WorkState, at : 0..Len(Log)]]
      /\ works'[k].pc = st /\ works'[k].at = works[k].at
      /\ \A l \in Tenure : l # k => works'[l] = works[l]
  BY DEF IInv, TypeOK, At, WorkState, Busy, Halted
<1>1. TypeOK'
  BY <1>0 DEF IInv, TypeOK
<1>2. Tenures'
  BY SMTT(40), <1>0 DEF IInv, Tenures
<1>3. Assignment'
  BY DEF IInv, Assignment
<1>4. Fenced'
  <2>0. st = "submitted" => assigned = holder[k] /\ works[k].at = committed + 1
    <3> SUFFICES ASSUME st = "submitted" PROVE assigned = holder[k] /\ works[k].at = committed + 1
      OBVIOUS
    <3>1. holder[k] \in members /\ owners[holder[k]] = k /\ k # 0
      BY SMTT(40)
    <3> QED BY <3>1 DEF IInv, Assignment, InStep
  <2>1. ASSUME st = "submitted", NEW l \in Tenure, works[l].pc = "submitted" PROVE FALSE
    <3>1. assigned = holder[l] /\ owners[holder[l]] \in {0, l}
      BY <2>1 DEF IInv, Fenced
    <3> QED BY SMTT(40), <2>0, <2>1, <3>1
  <2> QED BY <1>0, <2>0, <2>1 DEF IInv, Fenced
<1>5. InStep'
  <2> SUFFICES ASSUME NEW w \in members, owners[w] # 0
               PROVE  /\ ~paused[w] => position[w] = committed /\ works'[owners[w]].pc = "idle"
                      /\ works'[owners[w]].pc \in {"turn", "handling", "calling"}
                            => works'[owners[w]].at = committed + 1
                      /\ works'[owners[w]].pc = "stored" => works'[owners[w]].at = committed
    BY DEF InStep
  <2>0. w \in Worker /\ owners[w] \in Tenure
    BY SMTT(40) DEF IInv, TypeOK
  <2>1. CASE owners[w] = k
    BY <1>0, <2>0, <2>1 DEF IInv, InStep
  <2>2. CASE owners[w] # k
    BY <1>0, <2>0, <2>2 DEF IInv, InStep
  <2> QED BY <2>1, <2>2
<1>6. Established'
  BY <1>0 DEF IInv, Established, Record, Busy
<1>7. NothingIsSkipped'
  BY DEF IInv, NothingIsSkipped
<1> QED
  BY <1>1, <1>2, <1>3, <1>4, <1>5, <1>6, <1>7 DEF IInv

\* CommitNext submits only for a tenure that stands, of a member of the group.
LEMMA CommitNextMoves ==
    ASSUME NEW k \in Tenure, CommitNext(k)
    PROVE  \E st \in {"idle", "submitted", "void"} :
              At(k, st) /\ (st = "submitted" => owners[holder[k]] = k /\ holder[k] \in members)
BY DEF CommitNext, AbortedWork, Revoked

\* A record that does not decode ends its work without a commit.
LEMMA BeginInv ==
    ASSUME IInv, NEW k \in Tenure, Begin(k)
    PROVE  IInv'
<1>1. /\ works[k].pc = "turn" /\ works[k].at \in 1..Len(Log)
      /\ UNCHANGED <<broker, acked, client, holder, seen, granted, faults>>
      /\ seen \in [Worker -> SUBSET acked]
  BY Constants DEF IInv, TypeOK, Established, NothingIsSkipped, Begin, Busy
<1>2. CASE AbortedWork(k)
  BY SMTT(40), <1>1, <1>2, WorkMoves DEF Begin
<1>3. CASE /\ ~AbortedWork(k)
           /\ Record(k).kind # "malformed" /\ Record(k).job \in seen[holder[k]]
  <2>1. Record(k).job \in acked
    BY <1>1, <1>3, Constants DEF IInv, Tenures
  <2>2. PICK st \in {"idle", "submitted", "void"} :
           At(k, st) /\ (st = "submitted" => owners[holder[k]] = k /\ holder[k] \in members)
    BY <1>3, CommitNextMoves DEF Begin
  <2> QED BY SMTT(40), <1>1, <1>3, <2>1, <2>2, WorkMoves
<1>4. CASE /\ ~AbortedWork(k)
           /\ ~(Record(k).kind # "malformed" /\ Record(k).job \in seen[holder[k]])
  <2>1. At(k, FirstStep[Record(k).kind])
    BY <1>4 DEF Begin
  <2>2. /\ FirstStep[Record(k).kind] \in {"handling", "calling", "unreadable"}
        /\ FirstStep[Record(k).kind] # "unreadable" => Record(k).kind # "malformed"
    BY SMTT(40), <1>1, Constants DEF FirstStep, Record
  <2> QED BY SMTT(40), <1>1, <2>1, <2>2, WorkMoves
<1> QED BY <1>2, <1>3, <1>4

\* A handler that returns changes nothing outside its work.
LEMMA HandlerReturnsInv ==
    ASSUME IInv, NEW k \in Tenure, HandlerReturns(k)
    PROVE  IInv'
<1>1. /\ works[k].pc = "handling" /\ Record(k).kind # "malformed"
      /\ seen' \in [Worker -> SUBSET acked]
  BY DEF IInv, TypeOK, Established, NothingIsSkipped, HandlerReturns
<1> QED BY SMTT(40), <1>1, WorkMoves DEF HandlerReturns

\* A record is remembered, and its offset submitted, only once its outcome is applied.
LEMMA CallbackAcknowledgedInv ==
    ASSUME IInv, NEW k \in Tenure, CallbackAcknowledged(k)
    PROVE  IInv'
<1>1. /\ works[k].pc = "calling" /\ Record(k).kind # "malformed" /\ Record(k).job \in acked
      /\ seen' \in [Worker -> SUBSET acked]
  BY DEF IInv, TypeOK, Established, NothingIsSkipped, CallbackAcknowledged
<1>2. PICK st \in {"idle", "submitted", "void"} :
         At(k, st) /\ (st = "submitted" => owners[holder[k]] = k /\ holder[k] \in members)
  BY CommitNextMoves DEF CallbackAcknowledged
<1> QED BY SMTT(40), <1>1, <1>2, WorkMoves DEF CallbackAcknowledged

\* An aborted callback ends its work without a commit.
LEMMA CallbackAbortedInv ==
    ASSUME IInv, NEW k \in Tenure, CallbackAborted(k)
    PROVE  IInv'
<1>1. works[k].pc = "calling" /\ seen' \in [Worker -> SUBSET acked]
  BY DEF IInv, TypeOK, NothingIsSkipped, CallbackAborted
<1> QED BY SMTT(40), <1>1, WorkMoves DEF CallbackAborted

\* The engine applies outcomes and takes none back.
LEMMA CallbackServedInv ==
    ASSUME IInv, NEW k \in Tenure, CallbackServed(k)
    PROVE  IInv'
<1> USE Constants DEF CallbackServed, broker, client, Tenure, Busy, Halted, WorkState
<1>1. TypeOK'
  BY DEF IInv, TypeOK, Established, Record, Job
<1>2. Tenures'
  BY DEF IInv, Tenures
<1>3. Assignment'
  BY DEF IInv, Assignment
<1>4. Fenced'
  BY DEF IInv, Fenced
<1>5. InStep'
  BY DEF IInv, InStep
<1>6. Established'
  BY DEF IInv, Established, Record
<1>7. NothingIsSkipped'
  BY DEF IInv, NothingIsSkipped
<1> QED
  BY <1>1, <1>2, <1>3, <1>4, <1>5, <1>6, <1>7 DEF IInv

\* A refusal ends the work without a commit, whatever the engine did to the job.
LEMMA CallbackRejectedInv ==
    ASSUME IInv, NEW k \in Tenure, CallbackRejected(k)
    PROVE  IInv'
<1> USE Constants DEF Tenure, broker, client
<1>0. /\ works[k].pc = "calling"
      /\ works' \in [Tenure -> [pc : WorkState, at : 0..Len(Log)]]
      /\ works'[k].pc = "rejected" /\ works'[k].at = works[k].at
      /\ \A l \in Tenure : l # k => works'[l] = works[l]
      /\ UNCHANGED <<broker, client, holder, seen, granted>>
  BY DEF IInv, TypeOK, CallbackRejected, At, WorkState, Busy, Halted
<1>a. acked \subseteq acked' /\ acked' \in SUBSET Job
  <2>1. works[k].at \in DOMAIN Log
    BY <1>0 DEF IInv, Established, Busy
  <2>2. Record(k).job \in Job
    BY <2>1 DEF Record, Job
  <2>3. acked \in SUBSET Job /\ acked' \in {acked, acked \cup {Record(k).job}}
    BY DEF IInv, TypeOK, CallbackRejected
  <2> QED BY <2>2, <2>3
<1>b. faults' \in 0..MaxFaults
  BY SMTT(40) DEF IInv, TypeOK, CallbackRejected, Fault
<1>1. TypeOK'
  BY <1>0, <1>a, <1>b DEF IInv, TypeOK
<1>2. Tenures'
  BY SMTT(40), <1>0 DEF IInv, Tenures
<1>3. Assignment'
  BY <1>0 DEF IInv, Assignment
<1>4. Fenced'
  BY <1>0 DEF IInv, Fenced
<1>5. InStep'
  <2> SUFFICES ASSUME NEW w \in members, owners[w] # 0
               PROVE  /\ ~paused[w] => position[w] = committed /\ works'[owners[w]].pc = "idle"
                      /\ works'[owners[w]].pc \in {"turn", "handling", "calling"}
                            => works'[owners[w]].at = committed + 1
                      /\ works'[owners[w]].pc = "stored" => works'[owners[w]].at = committed
    BY <1>0 DEF InStep
  <2>0. w \in Worker /\ owners[w] \in Tenure
    BY SMTT(40) DEF IInv, TypeOK
  <2>1. CASE owners[w] = k
    BY <1>0, <2>0, <2>1 DEF IInv, InStep
  <2>2. CASE owners[w] # k
    BY <1>0, <2>0, <2>2 DEF IInv, InStep
  <2> QED BY <2>1, <2>2
<1>6. Established'
  BY <1>0, <1>a DEF IInv, Established, Record, Busy
<1>7. NothingIsSkipped'
  BY <1>0, <1>a DEF IInv, NothingIsSkipped
<1> QED
  BY <1>1, <1>2, <1>3, <1>4, <1>5, <1>6, <1>7 DEF IInv

\* The broker stores the commit of the current tenure: one record further.
LEMMA CommitStoredInv ==
    ASSUME IInv, NEW k \in Tenure, CommitStored(k)
    PROVE  IInv'
<1> USE Constants DEF CommitStored, At, broker, client, Tenure, Busy, Halted, WorkState
<1>1. TypeOK'
  BY DEF IInv, TypeOK, Established, Job
<1>2. Tenures'
  BY SMTT(40) DEF IInv, Tenures
<1>3. Assignment'
  BY DEF IInv, Assignment
<1>4. Fenced'
  <2>1. \A l \in Tenure : works'[l].pc # "submitted"
    BY SMTT(40) DEF IInv, TypeOK, Fenced
  <2> QED BY <2>1 DEF Fenced
<1>5. InStep'
  BY SMTT(40) DEF IInv, Assignment, Fenced, InStep
<1>6. Established'
  BY SMTT(40) DEF IInv, Established, Record
<1>7. NothingIsSkipped'
  BY SMTT(40) DEF IInv, TypeOK, NothingIsSkipped, Fenced, Established, Record
<1> QED
  BY <1>1, <1>2, <1>3, <1>4, <1>5, <1>6, <1>7 DEF IInv

\* A commit that returns only lets its work end.
LEMMA CommitReturnsInv ==
    ASSUME IInv, NEW k \in Tenure, CommitReturns(k)
    PROVE  IInv'
<1>0. works' \in [Tenure -> [pc : WorkState, at : 0..Len(Log)]]
  <2>1. works' = [works EXCEPT ![k].pc = "idle"]
    BY DEF CommitReturns, At
  <2>2. works \in [Tenure -> [pc : WorkState, at : 0..Len(Log)]] /\ "idle" \in WorkState
    BY DEF IInv, TypeOK, WorkState
  <2> QED BY <2>1, <2>2
<1> USE Constants DEF CommitReturns, At, AbortedWork, Revoked, broker, client, Tenure, Busy, Halted, WorkState
<1>1. TypeOK'
  <2>0. works[k].at \in 0..Len(Log)
    BY DEF IInv, TypeOK
  <2>1. position' \in [Worker -> 0..Len(Log)]
    BY <2>0 DEF IInv, TypeOK
  <2>2. paused' \in [Worker -> BOOLEAN]
    BY DEF IInv, TypeOK
  <2> QED BY <1>0, <2>1, <2>2 DEF IInv, TypeOK
<1>2. Tenures'
  BY SMTT(40) DEF IInv, Tenures
<1>3. Assignment'
  BY DEF IInv, Assignment
<1>4. Fenced'
  BY SMTT(40) DEF IInv, Fenced
<1>5. InStep'
  <2> SUFFICES ASSUME NEW v \in members, owners[v] # 0
               PROVE  /\ ~paused'[v] => position'[v] = committed /\ works'[owners[v]].pc = "idle"
                      /\ works'[owners[v]].pc \in {"turn", "handling", "calling"}
                            => works'[owners[v]].at = committed + 1
                      /\ works'[owners[v]].pc = "stored" => works'[owners[v]].at = committed
    BY DEF InStep
  <2>0. v \in Worker /\ owners[v] \in Tenure /\ holder[owners[v]] = v
    BY SMTT(40) DEF IInv, TypeOK, Tenures
  <2>1. CASE owners[v] = k
    BY SMTT(40), <2>0, <2>1 DEF IInv, TypeOK, InStep
  <2>2. CASE owners[v] # k
    <3>1. works'[owners[v]] = works[owners[v]]
      BY SMTT(40), <2>0, <2>2 DEF TypeOK
    <3>2. paused'[v] = paused[v] /\ position'[v] = position[v]
      BY <2>0, <2>2 DEF IInv, TypeOK
    <3> QED BY <2>0, <3>1, <3>2 DEF IInv, InStep
  <2> QED BY <2>1, <2>2
<1>6. Established'
  BY SMTT(40) DEF IInv, Established, Record
<1>7. NothingIsSkipped'
  BY DEF IInv, NothingIsSkipped
<1> QED
  BY <1>1, <1>2, <1>3, <1>4, <1>5, <1>6, <1>7 DEF IInv

\* A commit that fails leaves the committed offset alone.
LEMMA CommitFailsInv ==
    ASSUME IInv, NEW k \in Tenure, CommitFails(k)
    PROVE  IInv'
<1> USE Constants DEF CommitFails, Fault, At, broker, client, Tenure, Busy, Halted, WorkState
<1>1. TypeOK'
  <2>1. faults' \in 0..MaxFaults
    BY SMTT(40) DEF IInv, TypeOK
  <2> QED BY <2>1 DEF IInv, TypeOK
<1>2. Tenures'
  BY SMTT(40) DEF IInv, Tenures
<1>3. Assignment'
  BY DEF IInv, Assignment
<1>4. Fenced'
  BY SMTT(40) DEF IInv, Fenced
<1>5. InStep'
  BY SMTT(40) DEF IInv, InStep
<1>6. Established'
  BY SMTT(40) DEF IInv, Established, Record
<1>7. NothingIsSkipped'
  BY DEF IInv, NothingIsSkipped
<1> QED
  BY <1>1, <1>2, <1>3, <1>4, <1>5, <1>6, <1>7 DEF IInv

\* A shorter memory of duplicates is still one of applied outcomes.
LEMMA ForgetInv ==
    ASSUME IInv, NEW w \in Worker, NEW j \in Job, Forget(w, j)
    PROVE  IInv'
<1> USE Constants DEF Forget, broker, client, Tenure, Busy, Halted, WorkState
<1>1. TypeOK'
  BY DEF IInv, TypeOK
<1>2. Tenures'
  BY DEF IInv, Tenures
<1>3. Assignment'
  BY DEF IInv, Assignment
<1>4. Fenced'
  BY DEF IInv, Fenced
<1>5. InStep'
  BY DEF IInv, InStep
<1>6. Established'
  BY DEF IInv, Established, Record
<1>7. NothingIsSkipped'
  BY SMTT(40) DEF IInv, NothingIsSkipped
<1> QED
  BY <1>1, <1>2, <1>3, <1>4, <1>5, <1>6, <1>7 DEF IInv

\* A stopping runner aborts its work and submits no new commit.
LEMMA StopInv ==
    ASSUME IInv, NEW w \in Worker, Stop(w)
    PROVE  IInv'
<1> USE Constants DEF Stop, Fault, broker, client, Tenure, Busy, Halted, WorkState
<1>1. TypeOK'
  <2>1. faults' \in 0..MaxFaults
    BY SMTT(40) DEF IInv, TypeOK
  <2> QED BY <2>1 DEF IInv, TypeOK
<1>2. Tenures'
  BY DEF IInv, Tenures
<1>3. Assignment'
  BY DEF IInv, Assignment
<1>4. Fenced'
  BY DEF IInv, Fenced
<1>5. InStep'
  BY DEF IInv, InStep
<1>6. Established'
  BY DEF IInv, Established, Record
<1>7. NothingIsSkipped'
  BY DEF IInv, NothingIsSkipped
<1> QED
  BY <1>1, <1>2, <1>3, <1>4, <1>5, <1>6, <1>7 DEF IInv

\* A runner disconnects when its work has ended.
LEMMA DisconnectInv ==
    ASSUME IInv, NEW w \in Worker, Disconnect(w)
    PROVE  IInv'
<1> USE Constants DEF Disconnect, Leave, Pending, broker, client, Tenure, Busy, Halted, WorkState
<1>1. TypeOK'
  BY SMTT(40) DEF IInv, TypeOK
<1>2. Tenures'
  <2>1. \A v \in Worker : owners'[v] # 0 => owners'[v] = owners[v]
    BY SMTT(40) DEF TypeOK
  <2> QED BY SMTT(40), <2>1 DEF IInv, TypeOK, Tenures
<1>3. Assignment'
  BY SMTT(40) DEF IInv, Assignment
<1>4. Fenced'
  BY SMTT(40) DEF IInv, Fenced
<1>5. InStep'
  BY SMTT(40) DEF IInv, InStep
<1>6. Established'
  BY DEF IInv, Established, Record
<1>7. NothingIsSkipped'
  BY SMTT(40) DEF IInv, NothingIsSkipped
<1> QED
  BY <1>1, <1>2, <1>3, <1>4, <1>5, <1>6, <1>7 DEF IInv

\* A crash drops the memory of a worker and its submitted commit.
LEMMA CrashInv ==
    ASSUME IInv, NEW w \in Worker, Crash(w)
    PROVE  IInv'
<1> USE Constants DEF Crash, Leave, Fault, broker, client, Tenure, Busy, Halted, WorkState
<1>1. TypeOK'
  BY SMTT(40) DEF IInv, TypeOK, Established, Record, Job
<1>2. Tenures'
  BY SMTT(40) DEF IInv, Tenures
<1>3. Assignment'
  BY SMTT(40) DEF IInv, Assignment
<1>4. Fenced'
  BY SMTT(40) DEF IInv, Fenced
<1>5. InStep'
  BY SMTT(40) DEF IInv, TypeOK, InStep
<1>6. Established'
  BY SMTT(40) DEF IInv, Established, Record
<1>7. NothingIsSkipped'
  BY SMTT(40) DEF IInv, TypeOK, NothingIsSkipped, Fenced, Established, Record
<1> QED
  BY <1>1, <1>2, <1>3, <1>4, <1>5, <1>6, <1>7 DEF IInv

--------------------------------------------------------------------------------
\* The first of the three facts of the invariance.
LEMMA InitIInv == Init => IInv
BY SMTT(40), Constants DEF Init, IInv, TypeOK, Tenures, Assignment, Fenced, InStep, Established,
   NothingIsSkipped, Tenure, Busy, Halted, WorkState

\* The second: every step keeps the invariant, action by action.
LEMMA NextIInv == IInv /\ [Next]_vars => IInv'
<1> SUFFICES ASSUME IInv, [Next]_vars PROVE IInv'
  OBVIOUS
<1>1. ASSUME NEW w \in Worker, Group(w) PROVE IInv'
  BY <1>1, AssignInv, RevokeInv, HandOverInv, SessionLostInv, RejoinInv DEF Group
<1>2. ASSUME NEW w \in Worker, EachBatch(w) PROVE IInv'
  BY <1>2, EachBatchInv
<1>3. ASSUME NEW w \in Worker, Process(w) PROVE IInv'
  BY <1>3, StopInv, DisconnectInv, CrashInv, ForgetInv DEF Process
<1>4. ASSUME NEW k \in Tenure, Work(k) PROVE IInv'
  BY <1>4, BeginInv, HandlerReturnsInv, CallbackServedInv, CallbackAcknowledgedInv,
     CallbackRejectedInv, CallbackAbortedInv, CommitStoredInv, CommitReturnsInv DEF Work
<1>5. ASSUME NEW k \in Tenure, CommitFails(k) PROVE IInv'
  BY <1>5, CommitFailsInv
<1>6. CASE UNCHANGED vars
  BY SMTT(40), <1>6 DEF vars, broker, client, IInv, TypeOK, Tenures, Assignment, Fenced, InStep,
     Established, NothingIsSkipped, Record
<1> QED BY <1>1, <1>2, <1>3, <1>4, <1>5, <1>6 DEF Next

\* The inductive invariant holds in every reachable state.
THEOREM Invariance == Spec => []IInv
BY InitIInv, NextIInv, PTL DEF Spec

\* The state of the consumer group and its workers keeps its type.
THEOREM TypeCorrect == Spec => []TypeOK
<1>1. IInv => TypeOK BY DEF IInv
<1> QED BY <1>1, Invariance, PTL

\* However the partition moves, wherever workers fail and whatever callbacks the
\* engine refuses for good, the group commits only past records that decode and
\* whose job the engine has settled, and the deduplication cache remembers only
\* such records.
THEOREM NoRecordSkipped == Spec => []NothingIsSkipped
<1>1. IInv => NothingIsSkipped BY DEF IInv
<1> QED BY <1>1, Invariance, PTL

\* A commit the broker may store always comes from the worker the partition is
\* assigned to: the wait of the rebalance callback is enough.
THEOREM FencedCommits == Spec => []CommitsAreFenced
<1>1. IInv => CommitsAreFenced BY DEF IInv, Fenced, CommitsAreFenced
<1> QED BY <1>1, Invariance, PTL

\* No commit of an earlier tenure takes the committed offset back.
THEOREM OffsetsGrow == Spec => CommitsNeverGoBack
<1>1. IInv /\ [Next]_vars => [committed' >= committed]_vars
  <2> SUFFICES ASSUME IInv, Next PROVE committed' >= committed
    OBVIOUS
  <2>1. committed \in Int
    BY SMTT(40) DEF IInv, TypeOK
  <2>2. CASE \E k \in Tenure : CommitStored(k)
    BY SMTT(40), <2>1, <2>2 DEF IInv, Fenced, CommitStored
  <2>3. CASE ~\E k \in Tenure : CommitStored(k)
    <3>1. committed' = committed
      BY <2>3 DEF Next, Group, Process, Work, Assign, Revoke, HandOver, SessionLost, Rejoin,
         EachBatch, Begin, HandlerReturns, CallbackServed, CallbackAcknowledged, CallbackRejected,
         CallbackAborted, CommitReturns, CommitFails, Forget, Stop, Disconnect, Crash, Leave, broker
    <3> QED BY SMTT(40), <2>1, <3>1
  <2> QED BY <2>2, <2>3
<1> QED BY <1>1, Invariance, PTL DEF Spec, CommitsNeverGoBack
================================================================================
