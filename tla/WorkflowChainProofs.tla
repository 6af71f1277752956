-------------------------- MODULE WorkflowChainProofs --------------------------
(***************************************************************************)
(* Proofs about WorkflowChain for every set of parents, replicas and keys. *)
(***************************************************************************)
EXTENDS WorkflowChain, FiniteSetTheorems, SequenceTheorems, TLAPS

\* A row lock is held for an unacknowledged request by the replica that works on
\* it; workers only know of requests that were made.
LocksAreWork ==
    /\ Len(insts) <= MaxInstances
    /\ \A r \in Process : todo[r] \subseteq request
    /\ \A r \in Process : at[r] # Nobody => at[r] \in request
    /\ \A p \in Parent : rowLock[p] # Nobody => at[rowLock[p]] = p /\ child[p] = 0

\* The inductive invariant.
ChainIInv == ChainTypeOK /\ LocksAreWork /\ AcknowledgedIffStarted /\ BusinessKeyUnique

\* Appending an instance keeps the others.
LEMMA AppendFacts ==
    ASSUME insts \in Seq(TargetInstance), NEW e \in TargetInstance, insts' = Append(insts, e)
    PROVE  /\ insts' \in Seq(TargetInstance)
           /\ Len(insts') = Len(insts) + 1
           /\ DOMAIN insts = 1..Len(insts)
           /\ DOMAIN insts' = DOMAIN insts \cup {Len(insts) + 1}
           /\ Len(insts) \in Nat
           /\ Len(insts) + 1 \notin DOMAIN insts
           /\ insts'[Len(insts) + 1] = e
           /\ \A c \in DOMAIN insts : insts'[c] = insts[c]
<1> HIDE DEF TargetInstance
<1> QED OBVIOUS

\* Changing the status of an instance keeps its origin and its key.
LEMMA StatusFacts ==
    ASSUME insts \in Seq(TargetInstance), NEW c \in DOMAIN insts, NEW st \in InstanceState,
           insts' = [insts EXCEPT ![c].status = st]
    PROVE  /\ insts' \in Seq(TargetInstance)
           /\ Len(insts') = Len(insts)
           /\ DOMAIN insts' = DOMAIN insts
           /\ insts'[c].status = st
           /\ \A d \in DOMAIN insts : insts'[d].from = insts[d].from /\ insts'[d].key = insts[d].key
           /\ \A d \in DOMAIN insts : d # c => insts'[d] = insts[d]
<1> DEFINE e == [insts[c] EXCEPT !.status = st]
<1>1. insts[c] \in TargetInstance
    <2> HIDE DEF TargetInstance
    <2> QED OBVIOUS
<1>2. /\ e \in TargetInstance
      /\ e.status = st /\ e.from = insts[c].from /\ e.key = insts[c].key
    BY <1>1 DEF TargetInstance
<1>3. insts' = [insts EXCEPT ![c] = e]
    OBVIOUS
<1> HIDE DEF e, TargetInstance
<1>4. insts' \in Seq(TargetInstance) /\ Len(insts') = Len(insts)
    BY <1>2, <1>3
<1>5. DOMAIN insts' = DOMAIN insts
    BY <1>3
<1>6. \A d \in DOMAIN insts : insts'[d] = IF d = c THEN e ELSE insts[d]
    BY <1>3
<1> QED BY <1>2, <1>4, <1>5, <1>6

\* Initially nothing is requested and nothing is started.
LEMMA ChainInitIInv == ChainInit => ChainIInv
<1> SUFFICES ASSUME ChainInit PROVE ChainIInv
    OBVIOUS
<1>1. insts = <<>> /\ DOMAIN insts = {} /\ Len(insts) = 0 /\ insts \in Seq(TargetInstance)
    BY DEF ChainInit
<1>2. ChainTypeOK
    BY <1>1, BoundAssumption DEF ChainInit, ChainTypeOK, TargetState
<1>3. LocksAreWork
    BY <1>1, BoundAssumption DEF ChainInit, LocksAreWork
<1>4. AcknowledgedIffStarted
    BY <1>1 DEF ChainInit, AcknowledgedIffStarted, ChildrenOf
<1>5. BusinessKeyUnique
    BY <1>1 DEF BusinessKeyUnique
<1> QED BY <1>2, <1>3, <1>4, <1>5 DEF ChainIInv

\* Steps that touch neither the instances nor the acknowledgements.
LEMMA QuietIInv ==
    ASSUME ChainIInv, UNCHANGED <<insts, child>>, request \subseteq request',
           ChainTypeOK', LocksAreWork'
    PROVE  ChainIInv'
BY DEF ChainIInv, AcknowledgedIffStarted, ChildrenOf, BusinessKeyUnique

\* Requests, uploads, lists, lookups and claims.
LEMMA BookkeepingIInv ==
    ASSUME ChainIInv,
           \/ \E p \in Parent : ReachEnd(p)
           \/ \E st \in TargetState : Upload(st)
           \/ \E r \in Process : \/ ListPendingWorkflowChains(r)
                                 \/ \E p \in Parent : PrepareStart(r, p)
                                 \/ ClaimWorkflowChain(r)
                                 \/ StartConflicts(r)
                                 \/ ErrorStep(r)
    PROVE  ChainIInv'
<1>1. CASE \E p \in Parent : ReachEnd(p)
    <2>1. ChainTypeOK'
        BY <1>1 DEF ChainIInv, ChainTypeOK, ReachEnd
    <2>2. LocksAreWork'
        BY <1>1 DEF ChainIInv, LocksAreWork, ReachEnd
    <2> QED BY <1>1, <2>1, <2>2, QuietIInv DEF ReachEnd
<1>2. CASE \E st \in TargetState : Upload(st)
    <2>1. ChainTypeOK'
        BY <1>2 DEF ChainIInv, ChainTypeOK, Upload
    <2>2. LocksAreWork'
        BY <1>2 DEF ChainIInv, LocksAreWork, Upload
    <2> QED BY <1>2, <2>1, <2>2, QuietIInv DEF Upload
<1>3. ASSUME NEW r \in Process, ListPendingWorkflowChains(r)
      PROVE  ChainIInv'
    <2>1. Pending \subseteq request
        BY DEF Pending
    <2>2. ChainTypeOK'
        BY <1>3, <2>1 DEF ChainIInv, ChainTypeOK, ListPendingWorkflowChains
    <2>3. LocksAreWork'
        BY <1>3, <2>1 DEF ChainIInv, ChainTypeOK, LocksAreWork, ListPendingWorkflowChains
    <2> QED BY <1>3, <2>2, <2>3, QuietIInv DEF ListPendingWorkflowChains
<1>4. ASSUME NEW r \in Process, NEW p \in Parent, PrepareStart(r, p)
      PROVE  ChainIInv'
    <2>1. ChainTypeOK'
        BY <1>4 DEF ChainIInv, ChainTypeOK, PrepareStart
    <2>2. LocksAreWork'
        <3>1. at[r] = Nobody /\ p \in request
            BY <1>4 DEF ChainIInv, LocksAreWork, PrepareStart, Idle
        <3>2. \A s \in Process : todo'[s] \subseteq request /\ (at'[s] # Nobody => at'[s] \in request)
            BY <1>4, <3>1 DEF ChainIInv, ChainTypeOK, LocksAreWork, PrepareStart
        <3>3. ASSUME NEW o \in Parent, rowLock[o] # Nobody
              PROVE  at'[rowLock[o]] = o /\ child[o] = 0
            <4>1. at[rowLock[o]] = o /\ child[o] = 0 /\ rowLock[o] \in Process
                BY <3>3 DEF ChainIInv, ChainTypeOK, LocksAreWork
            <4>2. rowLock[o] # r
                BY <4>1, <3>1, NobodyAssumption
            <4> QED BY <1>4, <4>1, <4>2 DEF ChainIInv, ChainTypeOK, PrepareStart
        <3> QED BY <1>4, <3>2, <3>3 DEF ChainIInv, LocksAreWork, PrepareStart
    <2> QED BY <1>4, <2>1, <2>2, QuietIInv DEF PrepareStart
<1>5. ASSUME NEW r \in Process, ClaimWorkflowChain(r)
      PROVE  ChainIInv'
    <2>1. ChainTypeOK'
        BY SMTT(20), <1>5 DEF ChainIInv, ChainTypeOK, ClaimWorkflowChain, Idle
    <2>2. LocksAreWork'
        <3>1. at[r] \in Parent /\ rowLock[at[r]] # r
            BY <1>5 DEF ChainIInv, ChainTypeOK, ClaimWorkflowChain, Idle
        <3>2. \A o \in Parent : rowLock[o] # r
            BY <3>1, NobodyAssumption DEF ChainIInv, ChainTypeOK, LocksAreWork
        <3>3. CASE rowLock[at[r]] = Nobody /\ child[at[r]] = 0
            BY <1>5, <3>1, <3>3, NobodyAssumption DEF ChainIInv, ChainTypeOK, LocksAreWork, ClaimWorkflowChain
        <3>4. CASE ~(rowLock[at[r]] = Nobody /\ child[at[r]] = 0)
            BY <1>5, <3>2, <3>4 DEF ChainIInv, ChainTypeOK, LocksAreWork, ClaimWorkflowChain
        <3> QED BY <3>3, <3>4
    <2> QED BY <1>5, <2>1, <2>2, QuietIInv DEF ClaimWorkflowChain
<1>6. ASSUME NEW r \in Process, StartConflicts(r) \/ TransactionFails(r) \/ ProcessDies(r)
      PROVE  ChainIInv'
    <2>1. /\ at' = [at EXCEPT ![r] = Nobody]
          /\ rowLock' = [p \in Parent |-> IF rowLock[p] = r THEN Nobody ELSE rowLock[p]]
          /\ UNCHANGED <<request, child, insts, target>>
        BY <1>6 DEF StartConflicts, TransactionFails, ProcessDies, Unlocked
    <2>2. errors' \in 0..MaxErrors
        BY <1>6, BoundAssumption DEF ChainIInv, ChainTypeOK, StartConflicts, TransactionFails, ProcessDies
    <2>3. /\ todo' \in [Process -> SUBSET Parent]
          /\ \A s \in Process : todo'[s] \subseteq todo[s]
        BY Zenon, <1>6 DEF ChainIInv, ChainTypeOK, StartConflicts, TransactionFails, ProcessDies
    <2>4. ChainTypeOK'
        BY Zenon, <2>1, <2>2, <2>3 DEF ChainIInv, ChainTypeOK
    <2>5. LocksAreWork'
        BY <2>1, <2>3, NobodyAssumption DEF ChainIInv, ChainTypeOK, LocksAreWork
    <2> QED BY <2>1, <2>4, <2>5, QuietIInv
<1> QED BY <1>1, <1>2, <1>3, <1>4, <1>5, <1>6 DEF ErrorStep

\* An instance appended under a free key keeps business keys unique.
LEMMA AppendUnique ==
    ASSUME ChainIInv, NEW e \in TargetInstance, insts' = Append(insts, e), ~KeyTaken(e.key)
    PROVE  BusinessKeyUnique'
<1>1. insts \in Seq(TargetInstance)
    BY DEF ChainIInv, ChainTypeOK
<1>2. /\ DOMAIN insts' = DOMAIN insts \cup {Len(insts) + 1}
      /\ insts'[Len(insts) + 1] = e
      /\ \A c \in DOMAIN insts : insts'[c] = insts[c]
    BY <1>1, AppendFacts
<1> QED BY <1>2 DEF ChainIInv, BusinessKeyUnique, KeyTaken

\* A client's instance is nobody's child.
LEMMA StartByClientIInv ==
    ASSUME ChainIInv, NEW k \in Key \cup {NoKey}, NEW st \in Dispatched, StartByClient(k, st)
    PROVE  ChainIInv'
<1> DEFINE e == [from |-> Nobody, key |-> k, status |-> st]
<1>1. e \in TargetInstance /\ e.from = Nobody /\ e.key = k
    BY DEF TargetInstance, Dispatched
<1>2. insts' = Append(insts, e) /\ ~KeyTaken(e.key) /\ Len(insts) < MaxInstances
    BY DEF StartByClient
<1>3. UNCHANGED <<request, child, rowLock, target, todo, at, errors>>
    BY DEF StartByClient
<1> HIDE DEF e
<1>4. /\ insts' \in Seq(TargetInstance)
      /\ Len(insts') = Len(insts) + 1
      /\ DOMAIN insts' = DOMAIN insts \cup {Len(insts) + 1}
      /\ insts'[Len(insts) + 1] = e
      /\ Len(insts) \in Nat
      /\ \A c \in DOMAIN insts : insts'[c] = insts[c]
    BY <1>1, <1>2, AppendFacts DEF ChainIInv, ChainTypeOK
<1>5. ChainTypeOK'
    BY <1>3, <1>4 DEF ChainIInv, ChainTypeOK
<1>6. LocksAreWork'
    BY <1>2, <1>3, <1>4, BoundAssumption DEF ChainIInv, LocksAreWork
<1>7. \A p \in Parent : ChildrenOf(p)' = ChildrenOf(p)
    BY <1>1, <1>4, NobodyAssumption DEF ChildrenOf
<1>8. AcknowledgedIffStarted'
    BY <1>3, <1>7 DEF ChainIInv, AcknowledgedIffStarted
<1>9. BusinessKeyUnique'
    BY <1>1, <1>2, AppendUnique
<1> QED BY <1>5, <1>6, <1>8, <1>9 DEF ChainIInv

\* The lock holder's request had no child; now it has this one.
LEMMA StartChildIInv ==
    ASSUME ChainIInv, NEW r \in Process, NEW st \in Dispatched, StartChild(r, st)
    PROVE  /\ ChainIInv'
           /\ ChildrenOf(at[r]) = {} /\ at[r] \in request
           /\ \A p \in Parent :
                ChildrenOf(p)' = IF p = at[r] THEN {Len(insts) + 1} ELSE ChildrenOf(p)
<1> DEFINE q == at[r]
           e == [from |-> q, key |-> KeyOf[q], status |-> st]
<1>1. q \in Parent /\ q # Nobody /\ rowLock[q] = r /\ child[q] = 0 /\ q \in request
    BY NobodyAssumption DEF StartChild, Holds, Idle, ChainIInv, ChainTypeOK, LocksAreWork
<1>2. e \in TargetInstance /\ e.from = q /\ e.key = KeyOf[q]
    BY <1>1, KeyAssumption DEF TargetInstance, Dispatched
<1>3. insts' = Append(insts, e) /\ ~KeyTaken(e.key) /\ Len(insts) < MaxInstances
    BY DEF StartChild
<1>4. /\ child' = [child EXCEPT ![q] = Len(insts) + 1]
      /\ rowLock' = [p \in Parent |-> IF rowLock[p] = r THEN Nobody ELSE rowLock[p]]
      /\ at' = [at EXCEPT ![r] = Nobody]
      /\ UNCHANGED <<request, target, todo, errors>>
    BY DEF StartChild, Unlocked
<1> HIDE DEF e, q
<1>5. /\ insts' \in Seq(TargetInstance)
      /\ Len(insts') = Len(insts) + 1
      /\ DOMAIN insts' = DOMAIN insts \cup {Len(insts) + 1}
      /\ Len(insts) + 1 \notin DOMAIN insts
      /\ insts'[Len(insts) + 1] = e
      /\ Len(insts) \in Nat
      /\ \A c \in DOMAIN insts : insts'[c] = insts[c]
    BY <1>2, <1>3, AppendFacts DEF ChainIInv, ChainTypeOK
<1>6. ChainTypeOK'
    BY <1>1, <1>3, <1>4, <1>5, BoundAssumption DEF ChainIInv, ChainTypeOK
<1>7. LocksAreWork'
    <2>1. (Len(insts) <= MaxInstances)'
        BY <1>3, <1>5, BoundAssumption
    <2>2. \A s \in Process : (todo[s] \subseteq request)' /\ (at[s] # Nobody => at[s] \in request)'
        BY <1>4 DEF ChainIInv, ChainTypeOK, LocksAreWork
    <2>3. \A p \in Parent : (rowLock[p] # Nobody => at[rowLock[p]] = p /\ child[p] = 0)'
        BY <1>1, <1>4, NobodyAssumption DEF ChainIInv, ChainTypeOK, LocksAreWork
    <2> QED BY <2>1, <2>2, <2>3 DEF LocksAreWork
<1>8. ChildrenOf(q) = {}
    BY <1>1 DEF ChainIInv, AcknowledgedIffStarted
<1>9. \A p \in Parent : ChildrenOf(p)' = IF p = q THEN {Len(insts) + 1} ELSE ChildrenOf(p)
    BY <1>2, <1>5, <1>8 DEF ChildrenOf
<1>10. AcknowledgedIffStarted'
    BY <1>1, <1>4, <1>5, <1>9 DEF ChainIInv, ChainTypeOK, AcknowledgedIffStarted
<1>11. BusinessKeyUnique'
    BY <1>2, <1>3, AppendUnique
<1> QED BY <1>1, <1>6, <1>7, <1>8, <1>9, <1>10, <1>11 DEF ChainIInv, q

\* A status change takes a key only if nobody in flight has it.
LEMMA StatusIInv ==
    ASSUME ChainIInv, NEW c \in DOMAIN insts, NEW st \in InstanceState,
           Proceed(c, st) \/ Reactivate(c, st)
    PROVE  ChainIInv' /\ \A p \in Parent : ChildrenOf(p)' = ChildrenOf(p)
<1>1. /\ insts' = [insts EXCEPT ![c].status = st]
      /\ UNCHANGED <<request, child, rowLock, target, todo, at, errors>>
      /\ insts[c].status \in InFlight \/ ~KeyTaken(insts[c].key)
    BY DEF Proceed, Reactivate
<1>2. /\ insts' \in Seq(TargetInstance)
      /\ Len(insts') = Len(insts)
      /\ DOMAIN insts' = DOMAIN insts
      /\ \A d \in DOMAIN insts : insts'[d].from = insts[d].from /\ insts'[d].key = insts[d].key
      /\ \A d \in DOMAIN insts : d # c => insts'[d] = insts[d]
    BY Zenon, <1>1, StatusFacts DEF ChainIInv, ChainTypeOK
<1>3. ChainTypeOK'
    BY <1>1, <1>2 DEF ChainIInv, ChainTypeOK
<1>4. LocksAreWork'
    BY <1>1, <1>2 DEF ChainIInv, LocksAreWork
<1>5. \A p \in Parent : ChildrenOf(p)' = ChildrenOf(p)
    BY <1>2 DEF ChildrenOf
<1>6. AcknowledgedIffStarted'
    BY <1>1, <1>5 DEF ChainIInv, AcknowledgedIffStarted
<1>7. BusinessKeyUnique'
    BY <1>1, <1>2 DEF ChainIInv, BusinessKeyUnique, KeyTaken
<1> QED BY <1>3, <1>4, <1>5, <1>6, <1>7 DEF ChainIInv

\* Every step preserves the inductive invariant.
LEMMA ChainNextIInv == ChainIInv /\ [ChainNext]_chainVars => ChainIInv'
<1> SUFFICES ASSUME ChainIInv, [ChainNext]_chainVars PROVE ChainIInv'
    OBVIOUS
<1>1. CASE EnvironmentStep
    BY <1>1, BookkeepingIInv, StartByClientIInv, StatusIInv DEF EnvironmentStep, Dispatched
<1>2. ASSUME NEW r \in Process, WorkerStep(r) \/ ErrorStep(r)
      PROVE  ChainIInv'
    BY <1>2, BookkeepingIInv, StartChildIInv DEF WorkerStep
<1>3. CASE UNCHANGED chainVars
    BY <1>3 DEF chainVars, ChainIInv, ChainTypeOK, LocksAreWork, AcknowledgedIffStarted, ChildrenOf,
                BusinessKeyUnique
<1> QED BY <1>1, <1>2, <1>3 DEF ChainNext

\* Chaining keeps its inductive invariant.
THEOREM ChainInvariance == ChainSpec => []ChainIInv
BY ChainInitIInv, ChainNextIInv, PTL DEF ChainSpec

\* The state of chaining keeps its type.
THEOREM ChainTypeCorrect == ChainSpec => []ChainTypeOK
<1>1. ChainIInv => ChainTypeOK BY DEF ChainIInv
<1> QED BY <1>1, ChainInvariance, PTL

\* A parent has one child exactly if its request is acknowledged.
THEOREM OneChild == ChainSpec => []AcknowledgedIffStarted
<1>1. ChainIInv => AcknowledgedIffStarted BY DEF ChainIInv
<1> QED BY <1>1, ChainInvariance, PTL

\* Business keys in flight are unique whoever starts or revives instances.
THEOREM UniqueKeys == ChainSpec => []BusinessKeyUnique
<1>1. ChainIInv => BusinessKeyUnique BY DEF ChainIInv
<1> QED BY <1>1, ChainInvariance, PTL

--------------------------------------------------------------------------------
(* Chaining implements ChainedStart. *)

\* The refinement mapping of started.
Started == [p \in Parent |-> Cardinality(ChildrenOf(p))]

\* A step that changes nobody's children and requests nothing stutters.
LEMMA Stutters ==
    ASSUME request' = request, \A p \in Parent : ChildrenOf(p)' = ChildrenOf(p)
    PROVE  UNCHANGED <<request, Started>>
<1> HIDE DEF ChildrenOf
<1> QED BY DEF Started

\* ReachEnd is the abstract request, StartChild the abstract start, all other
\* steps stutter.
LEMMA StepSimulation ==
    ChainIInv /\ [ChainNext]_chainVars => [Abstract!Next]_<<request, Started>>
<1> SUFFICES ASSUME ChainIInv, [ChainNext]_chainVars PROVE [Abstract!Next]_<<request, Started>>
    OBVIOUS
<1> USE DEF Abstract!Next, Abstract!Request, Abstract!StartChild
<1>0. ASSUME insts' = insts PROVE \A p \in Parent : ChildrenOf(p)' = ChildrenOf(p)
    BY <1>0 DEF ChildrenOf
<1>1. CASE \E p \in Parent : ReachEnd(p)
    <2>1. PICK p \in Parent : ReachEnd(p)
        BY <1>1
    <2>2. request' = request \cup {p} /\ insts' = insts
        BY <2>1 DEF ReachEnd
    <2>3. Started' = Started
        BY <1>0, <2>2 DEF Started
    <2> QED BY <2>2, <2>3 DEF Started
<1>2. ASSUME NEW r \in Process, NEW st \in Dispatched, StartChild(r, st)
      PROVE  Abstract!StartChild(at[r]) /\ at[r] \in Parent
    <2> DEFINE q == at[r]
    <2>1. /\ ChildrenOf(q) = {} /\ q \in request
          /\ \A p \in Parent : ChildrenOf(p)' = IF p = q THEN {Len(insts) + 1} ELSE ChildrenOf(p)
        BY <1>2, StartChildIInv
    <2>2. q \in Parent
        BY <2>1 DEF ChainIInv, ChainTypeOK
    <2>3. request' = request
        BY <1>2 DEF StartChild
    <2> HIDE DEF q, ChildrenOf
    <2>4. Cardinality({}) = 0 /\ Cardinality({Len(insts) + 1}) = 1
        BY Zenon, FS_EmptySet, FS_Singleton
    <2>5. Started[q] = 0
        BY Zenon, <2>1, <2>2, <2>4 DEF Started
    <2>6. \A p \in Parent : Started'[p] = IF p = q THEN 1 ELSE Started[p]
        BY Zenon, <2>1, <2>4 DEF Started
    <2>7. Started' = [Started EXCEPT ![q] = 1]
        BY Zenon, <2>6 DEF Started
    <2>8. Abstract!StartChild(q)
        BY <2>1, <2>3, <2>5, <2>7 DEF Started
    <2> QED BY <2>2, <2>8 DEF q
<1>3. ASSUME NEW c \in DOMAIN insts, NEW st \in InstanceState, Proceed(c, st) \/ Reactivate(c, st)
      PROVE  UNCHANGED <<request, Started>>
    <2>1. request' = request
        BY <1>3 DEF Proceed, Reactivate
    <2> QED BY <1>3, <2>1, StatusIInv, Stutters
<1>4. ASSUME NEW k \in Key \cup {NoKey}, NEW st \in Dispatched, StartByClient(k, st)
      PROVE  UNCHANGED <<request, Started>>
    <2> DEFINE e == [from |-> Nobody, key |-> k, status |-> st]
    <2>1. e \in TargetInstance /\ e.from = Nobody
        BY DEF TargetInstance, Dispatched
    <2>2. insts' = Append(insts, e) /\ request' = request
        BY <1>4 DEF StartByClient
    <2> HIDE DEF e
    <2>3. /\ DOMAIN insts' = DOMAIN insts \cup {Len(insts) + 1}
          /\ insts'[Len(insts) + 1] = e
          /\ \A c \in DOMAIN insts : insts'[c] = insts[c]
        BY <2>1, <2>2, AppendFacts DEF ChainIInv, ChainTypeOK
    <2>4. \A p \in Parent : ChildrenOf(p)' = ChildrenOf(p)
        BY <2>1, <2>3, NobodyAssumption DEF ChildrenOf
    <2> QED BY <2>2, <2>4, Stutters
<1>5. CASE \/ \E st \in TargetState : Upload(st)
           \/ \E r \in Process : \/ ListPendingWorkflowChains(r) \/ ClaimWorkflowChain(r)
                                 \/ \E p \in Parent : PrepareStart(r, p)
                                 \/ StartConflicts(r) \/ ErrorStep(r)
           \/ UNCHANGED chainVars
    <2>1. request' = request /\ insts' = insts
        BY <1>5 DEF Upload, ListPendingWorkflowChains, ClaimWorkflowChain, PrepareStart,
                    StartConflicts, ErrorStep, TransactionFails, ProcessDies, chainVars
    <2> QED BY <1>0, <2>1, Stutters
<1>6. CASE EnvironmentStep
    BY Zenon, <1>1, <1>3, <1>4, <1>5, <1>6 DEF EnvironmentStep, Dispatched
<1>7. CASE \E r \in Process : WorkerStep(r) \/ ErrorStep(r)
    BY Zenon, <1>2, <1>5, <1>7 DEF WorkerStep, Started
<1> QED BY Zenon, <1>5, <1>6, <1>7 DEF ChainNext

\* Durable chaining starts exactly one child for a completed parent: it
\* implements its abstract specification.
THEOREM ChainingImplementsChainedStart == ChainSpec => ImplementsChainedStart
<1>1. ChainInit => Abstract!Init
    <2> SUFFICES ASSUME ChainInit PROVE Abstract!Init
        OBVIOUS
    <2>1. \A p \in Parent : ChildrenOf(p) = {}
        BY DEF ChainInit, ChildrenOf
    <2>2. \A p \in Parent : Cardinality(ChildrenOf(p)) = 0
        BY <2>1, FS_EmptySet
    <2> HIDE DEF ChildrenOf
    <2> QED BY <2>2 DEF ChainInit, Abstract!Init
<1>2. ChainIInv /\ [ChainNext]_chainVars => [Abstract!Next]_<<request, Started>>
    BY StepSimulation
<1> QED BY <1>1, <1>2, ChainInvariance, PTL DEF ChainSpec, ImplementsChainedStart, Abstract!Spec, Started
================================================================================
