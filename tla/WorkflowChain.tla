----------------------------- MODULE WorkflowChain -----------------------------
(***************************************************************************)
(* Durable workflow chaining and business keys.  A parent that reaches END *)
(* leaves a row in workflow_chain; a worker on every replica lists the     *)
(* rows without a child, resolves the target definition, locks the row     *)
(* with SKIP LOCKED and commits the child together with the               *)
(* acknowledgement.  Children of the target definition carry the parent's  *)
(* business key, which a partial unique index keeps unique among the       *)
(* instances in flight.                                                    *)
(***************************************************************************)
EXTENDS Integers, FiniteSets, Sequences

CONSTANTS
    Parent,        \* instances whose definition chains to the target definition
    Process,       \* engine processes running a chain worker
    Nobody,        \* no process, no parent
    Key,           \* business keys
    NoKey,         \* a NULL business key
    KeyOf,         \* business key of each parent
    MaxInstances,  \* bound: instances of the target definition
    MaxErrors      \* bound: crashes and failed transactions

ASSUME KeyAssumption    == KeyOf \in [Parent -> Key \cup {NoKey}] /\ NoKey \notin Key
ASSUME NobodyAssumption == Nobody \notin Parent \cup Process
ASSUME BoundAssumption  == MaxInstances \in Nat /\ MaxErrors \in Nat

VARIABLES
    request,    \* source_instance_id of the rows of workflow_chain
    child,      \* child_instance_id of each row, 0 for NULL
    rowLock,    \* replica whose transaction holds the lock of each row
    insts,      \* instances of the target definition; an id is a position
    target,     \* what the latest version of the target definition does
    todo,       \* per replica, what is left of the listed requests
    at,         \* per replica, the request prepareStart has been called for
    errors

chainVars == <<request, child, rowLock, insts, target, todo, at, errors>>

TargetState   == {"MISSING", "REJECTS", "ACCEPTS"}
InFlight      == {"ACTIVE", "WAITING"}
InstanceState == {"ACTIVE", "WAITING", "COMPLETED", "FAILED", "CANCELLED"}
\* What the dispatch in the same transaction can leave a started instance in.
Dispatched == InstanceState \ {"CANCELLED"}
TargetInstance ==
    [from : Parent \cup {Nobody}, key : Key \cup {NoKey}, status : InstanceState]

Pending == {p \in request : child[p] = 0}

\* uniq_workflow_instance_bk_def_active would reject key k.
KeyTaken(k) ==
    k # NoKey /\ \E c \in DOMAIN insts : insts[c].key = k /\ insts[c].status \in InFlight

--------------------------------------------------------------------------------
(* Parents, the target definition and its instances. *)

\* A transaction of p that reaches END commits.  Several branches may do so:
\* ON CONFLICT DO NOTHING keeps the first row.
ReachEnd(p) ==
    /\ request' = request \cup {p}
    /\ UNCHANGED <<child, rowLock, insts, target, todo, at, errors>>

\* A new version of the target definition, which may reject the variables.
Upload(st) ==
    /\ target # st /\ st # "MISSING"
    /\ target' = st
    /\ UNCHANGED <<request, child, rowLock, insts, todo, at, errors>>

\* Start of the target definition by a client.
StartByClient(k, st) ==
    /\ target = "ACCEPTS"
    /\ ~KeyTaken(k)
    /\ Len(insts) < MaxInstances
    /\ insts' = Append(insts, [from |-> Nobody, key |-> k, status |-> st])
    /\ UNCHANGED <<request, child, rowLock, target, todo, at, errors>>

\* A transaction of the engine or a cancellation moves an instance in flight.
Proceed(c, st) ==
    /\ insts[c].status \in InFlight
    /\ st # insts[c].status
    /\ insts' = [insts EXCEPT ![c].status = st]
    /\ UNCHANGED <<request, child, rowLock, target, todo, at, errors>>

\* Broken: a revived instance takes its business key back unchecked.
ReactivateUnchecked(c, st) ==
    /\ insts[c].status = "FAILED"
    /\ insts' = [insts EXCEPT ![c].status = st]
    /\ UNCHANGED <<request, child, rowLock, target, todo, at, errors>>

\* Manual retry: the index rejects the flip to ACTIVE if the key is in use.
Reactivate(c, st) ==
    /\ insts[c].status = "FAILED"
    /\ ~KeyTaken(insts[c].key)
    /\ insts' = [insts EXCEPT ![c].status = st]
    /\ UNCHANGED <<request, child, rowLock, target, todo, at, errors>>

--------------------------------------------------------------------------------
(* The chain worker of each replica. *)

Idle(r) == at[r] = Nobody

\* Broken: the list ends one request too early.
ListShortByOne(r) ==
    /\ Idle(r) /\ todo[r] = {}
    /\ Pending # {}
    /\ todo' = [todo EXCEPT ![r] = Pending \ {CHOOSE p \in Pending : TRUE}]
    /\ UNCHANGED <<request, child, rowLock, insts, target, at, errors>>

ListPendingWorkflowChains(r) ==
    /\ Idle(r) /\ todo[r] = {}
    /\ Pending # {}
    /\ todo' = [todo EXCEPT ![r] = Pending]
    /\ UNCHANGED <<request, child, rowLock, insts, target, at, errors>>

\* prepareStart, outside the transaction: a failure leaves the request for a
\* later list and does not stop the others.
PrepareStart(r, p) ==
    /\ Idle(r) /\ p \in todo[r]
    /\ todo' = [todo EXCEPT ![r] = @ \ {p}]
    /\ at' = [at EXCEPT ![r] = IF target = "ACCEPTS" THEN p ELSE Nobody]
    /\ UNCHANGED <<request, child, rowLock, insts, target, errors>>

\* Broken: the claim does not ask whether the request is still pending.
ClaimUnchecked(r) ==
    /\ ~Idle(r) /\ rowLock[at[r]] # r
    /\ IF rowLock[at[r]] = Nobody
       THEN rowLock' = [rowLock EXCEPT ![at[r]] = r] /\ UNCHANGED at
       ELSE at' = [at EXCEPT ![r] = Nobody] /\ UNCHANGED rowLock
    /\ UNCHANGED <<request, child, insts, target, todo, errors>>

\* SELECT ... WHERE child_instance_id IS NULL FOR UPDATE SKIP LOCKED.
ClaimWorkflowChain(r) ==
    /\ ~Idle(r) /\ rowLock[at[r]] # r
    /\ IF rowLock[at[r]] = Nobody /\ child[at[r]] = 0
       THEN rowLock' = [rowLock EXCEPT ![at[r]] = r] /\ UNCHANGED at
       ELSE at' = [at EXCEPT ![r] = Nobody] /\ UNCHANGED rowLock
    /\ UNCHANGED <<request, child, insts, target, todo, errors>>

Holds(r) == ~Idle(r) /\ rowLock[at[r]] = r

Unlocked(r) == rowLock' = [p \in Parent |-> IF rowLock[p] = r THEN Nobody ELSE rowLock[p]]

\* startInTx and CompleteWorkflowChain commit together.
StartChild(r, st) ==
    LET p == at[r]
    IN  /\ Holds(r)
        /\ ~KeyTaken(KeyOf[p])
        /\ Len(insts) < MaxInstances
        /\ insts' = Append(insts, [from |-> p, key |-> KeyOf[p], status |-> st])
        /\ child' = [child EXCEPT ![p] = Len(insts) + 1]
        /\ Unlocked(r)
        /\ at' = [at EXCEPT ![r] = Nobody]
        /\ UNCHANGED <<request, target, todo, errors>>

\* ErrBusinessKeyConflict rolls back; the request stays pending.
StartConflicts(r) ==
    /\ Holds(r)
    /\ KeyTaken(KeyOf[at[r]])
    /\ Unlocked(r)
    /\ at' = [at EXCEPT ![r] = Nobody]
    /\ UNCHANGED <<request, child, insts, target, todo, errors>>

\* The database or the dispatcher fails: rollback, and on to the next request.
TransactionFails(r) ==
    /\ errors < MaxErrors
    /\ ~Idle(r)
    /\ Unlocked(r)
    /\ at' = [at EXCEPT ![r] = Nobody]
    /\ errors' = errors + 1
    /\ UNCHANGED <<request, child, insts, target, todo>>

\* The replica dies; PostgreSQL rolls back and releases the row lock.
ProcessDies(r) ==
    /\ errors < MaxErrors
    /\ ~Idle(r) \/ todo[r] # {}
    /\ Unlocked(r)
    /\ at' = [at EXCEPT ![r] = Nobody]
    /\ todo' = [todo EXCEPT ![r] = {}]
    /\ errors' = errors + 1
    /\ UNCHANGED <<request, child, insts, target>>

--------------------------------------------------------------------------------
ChainInit ==
    /\ request = {}
    /\ child = [p \in Parent |-> 0]
    /\ rowLock = [p \in Parent |-> Nobody]
    /\ insts = <<>>
    /\ target = "MISSING"
    /\ todo = [r \in Process |-> {}]
    /\ at = [r \in Process |-> Nobody]
    /\ errors = 0

EnvironmentStep ==
    \/ \E p \in Parent : ReachEnd(p)
    \/ \E st \in TargetState : Upload(st)
    \/ \E k \in Key \cup {NoKey}, st \in Dispatched : StartByClient(k, st)
    \/ \E c \in DOMAIN insts : \/ \E st \in InstanceState : Proceed(c, st)
                               \/ \E st \in Dispatched : Reactivate(c, st)

WorkerStep(r) ==
    \/ ListPendingWorkflowChains(r)
    \/ \E p \in Parent : PrepareStart(r, p)
    \/ ClaimWorkflowChain(r)
    \/ \E st \in Dispatched : StartChild(r, st)
    \/ StartConflicts(r)

ErrorStep(r) == TransactionFails(r) \/ ProcessDies(r)

ChainNext == EnvironmentStep \/ \E r \in Process : WorkerStep(r) \/ ErrorStep(r)

ChainSpec == ChainInit /\ [][ChainNext]_chainVars

\* Every replica's worker runs on its ticker.
ChainFairSpec == ChainSpec /\ \A r \in Process : WF_chainVars(WorkerStep(r))

--------------------------------------------------------------------------------
\* Every row has the shape of its table.
ChainTypeOK ==
    /\ request \subseteq Parent
    /\ child \in [Parent -> 0..MaxInstances]
    /\ rowLock \in [Parent -> Process \cup {Nobody}]
    /\ insts \in Seq(TargetInstance)
    /\ target \in TargetState
    /\ todo \in [Process -> SUBSET Parent]
    /\ at \in [Process -> Parent \cup {Nobody}]
    /\ errors \in 0..MaxErrors

ChildrenOf(p) == {c \in DOMAIN insts : insts[c].from = p}

\* The acknowledgement and the child commit together: the row of a parent names
\* its child as soon as there is one, there is never a second one, and a parent
\* that asked for nothing has none (startChainedWorkflow).
AcknowledgedIffStarted ==
    \A p \in Parent :
        /\ ChildrenOf(p) = IF child[p] = 0 THEN {} ELSE {child[p]}
        /\ child[p] # 0 => p \in request

\* No two instances of the definition in flight share a business key, whether
\* clients, chain workers or manual retries started them.
BusinessKeyUnique ==
    \A c, d \in DOMAIN insts :
        (c # d /\ insts[c].status \in InFlight /\ insts[d].status \in InFlight) =>
            insts[c].key = NoKey \/ insts[c].key # insts[d].key

\* Chaining implements its abstract specification.
Abstract == INSTANCE ChainedStart WITH
    requested <- request,
    started <- [p \in Parent |-> Cardinality(ChildrenOf(p))]

\* A completed parent gets at most one child, whatever the workers of several
\* replicas do and wherever they stop.
ImplementsChainedStart == Abstract!Spec

\* A request is delivered if from some time on nothing stands in its way: the
\* target definition accepts the variables and the business key is free.
RequestIsDelivered ==
    \A p \in Parent :
        LET Clear == /\ target = "ACCEPTS" /\ ~KeyTaken(KeyOf[p])
                     /\ Len(insts) < MaxInstances
        IN  <>[]Clear => (p \in request ~> child[p] # 0)
================================================================================
