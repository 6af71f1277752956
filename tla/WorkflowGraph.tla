------------------------------ MODULE WorkflowGraph ------------------------------
(***************************************************************************)
(* The definitions the modeller edits and the pure operations on them: the *)
(* step graph, renaming a step, redirecting and scrubbing the references   *)
(* to it, finding them.  A definition is a record whose steps are a        *)
(* sequence; every step has all the fields, "" and <<>> standing for the   *)
(* ones its type does not have.  A field that a step's type does not have  *)
(* may still be filled (imports keep unknown fields), and the operations   *)
(* then leave it alone, as the code does.                                  *)
(***************************************************************************)
EXTENDS Integers, Sequences, FiniteSets

STEP_TYPES == {"SERVICE_TASK", "USER_TASK", "DECISION", "DECISION_TABLE", "TRANSFORMATION",
               "WAIT", "PARALLEL_GATEWAY", "JOIN_GATEWAY", "END"}

NextTypes     == {"SERVICE_TASK", "USER_TASK", "WAIT", "TRANSFORMATION", "JOIN_GATEWAY",
                  "DECISION_TABLE"}
BoundaryTypes == {"SERVICE_TASK", "USER_TASK", "WAIT"}

\* A step as newStep creates it: no reference, no entry, no rule.
\* conditionalNextSteps holds <<expression, target>>, transformations <<key, value>>.
\* outputsSchema and extra come in with an import only: a schema for the results
\* ("sound" or "unsound"), and something of the JSON the editor has no field for,
\* "key" in the step itself, "inner" in a timer or rule or a number out of range.
newStep(id, type) ==
    [id |-> id, name |-> "step", type |-> type, nextStep |-> "", conditionalNextSteps |-> <<>>,
     transformations |-> <<>>, parallelNextSteps |-> <<>>, joinStep |-> "",
     boundaryEvents |-> <<>>, jobType |-> "",
     hitPolicy |-> IF type = "DECISION_TABLE" THEN "U" ELSE "", rules |-> <<>>,
     outputsSchema |-> "", extra |-> ""]

emptyDefinition ==
    [id |-> "new-workflow", name |-> "Untitled workflow", autoStartNextWorkflow |-> FALSE,
     nextWorkflowId |-> "", version |-> 0, steps |-> <<>>, inputSchema |-> "", extra |-> ""]

stepIds(def) == {def.steps[n].id : n \in DOMAIN def.steps}

\* indexSteps: a later step replaces an earlier one with its id.
hasStep(def, id) == id \in stepIds(def)
indexSteps(def, id) ==
    def.steps[CHOOSE n \in DOMAIN def.steps :
                  /\ def.steps[n].id = id
                  /\ \A m \in DOMAIN def.steps : def.steps[m].id = id => m <= n]

MapSteps(def, F(_)) == [def EXCEPT !.steps = [n \in DOMAIN def.steps |-> F(def.steps[n])]]

--------------------------------------------------------------------------------
(* Edges. *)

makeEdge(from, to, kind, key) == [from |-> from, to |-> to, kind |-> kind, key |-> key]

pushBoundaryEdges(step) ==
    {makeEdge(step.id, step.boundaryEvents[n].targetStepId, "boundary", n) :
        n \in DOMAIN step.boundaryEvents}

pushStepEdges(step) ==
    CASE step.type \in {"SERVICE_TASK", "USER_TASK"} ->
            {e \in {makeEdge(step.id, step.nextStep, "sequential", 0)} : e.to # ""}
            \cup pushBoundaryEdges(step)
      [] step.type = "WAIT" ->
            {makeEdge(step.id, step.nextStep, "sequential", 0)} \cup pushBoundaryEdges(step)
      [] step.type \in {"DECISION_TABLE", "TRANSFORMATION"} ->
            {makeEdge(step.id, step.nextStep, "sequential", 0)}
      [] step.type = "JOIN_GATEWAY" -> {makeEdge(step.id, step.nextStep, "join-out", 0)}
      [] step.type = "DECISION" ->
            {makeEdge(step.id, step.conditionalNextSteps[n][2], "conditional", n) :
                n \in DOMAIN step.conditionalNextSteps}
      [] step.type = "PARALLEL_GATEWAY" ->
            {makeEdge(step.id, step.parallelNextSteps[n], "parallel", n) :
                n \in DOMAIN step.parallelNextSteps}
      [] OTHER -> {}

toEdges(def) == UNION {pushStepEdges(def.steps[n]) : n \in DOMAIN def.steps}

--------------------------------------------------------------------------------
(* Rewriting references. *)

\* The references of a step, each field under the types that have it.
MapRefs(step, oldId, newId) ==
    LET Remap(id) == IF id = oldId THEN newId ELSE id
    IN [step EXCEPT
        !.nextStep = IF step.type \in NextTypes THEN Remap(@) ELSE @,
        !.boundaryEvents =
            IF step.type \in BoundaryTypes
            THEN [n \in DOMAIN @ |-> [step.boundaryEvents[n] EXCEPT !.targetStepId = Remap(@)]]
            ELSE @,
        !.conditionalNextSteps =
            IF step.type = "DECISION"
            THEN [n \in DOMAIN @ |-> <<step.conditionalNextSteps[n][1],
                                       Remap(step.conditionalNextSteps[n][2])>>]
            ELSE @,
        !.parallelNextSteps =
            IF step.type = "PARALLEL_GATEWAY"
            THEN [n \in DOMAIN @ |-> Remap(step.parallelNextSteps[n])] ELSE @,
        !.joinStep = IF step.type = "PARALLEL_GATEWAY" THEN Remap(@) ELSE @]

\* A variant that forgets the join of a parallel gateway.
rewriteAllButJoin(step, oldId, newId) ==
    [MapRefs(step, oldId, newId) EXCEPT !.joinStep = step.joinStep]

rewriteRefs(step, oldId, newId) ==
    MapRefs(step, oldId, newId)

remapStep(step, oldId, newId) ==
    [rewriteRefs(step, oldId, newId) EXCEPT !.id = IF @ = oldId THEN newId ELSE @]

\* renameStepId throws on this.
RenameCollides(def, oldId, newId) == oldId # newId /\ hasStep(def, newId)

renameStepId(def, oldId, newId) == MapSteps(def, LAMBDA s : remapStep(s, oldId, newId))

\* A variant that leaves the timers of waiting steps alone.
scrubStepButTimers(step, removedId) ==
    [MapRefs(step, removedId, "") EXCEPT
        !.boundaryEvents = step.boundaryEvents,
        !.conditionalNextSteps = SelectSeq(@, LAMBDA c : c[2] # ""),
        !.parallelNextSteps = SelectSeq(@, LAMBDA t : t # "")]

\* What the deleted step leaves: an empty reference, or one entry less in a list.
scrubStep(step, removedId) ==
    [step EXCEPT
        !.nextStep = IF step.type \in NextTypes /\ @ = removedId THEN "" ELSE @,
        !.boundaryEvents =
            IF step.type \in BoundaryTypes
            THEN SelectSeq(@, LAMBDA e : e.targetStepId # removedId) ELSE @,
        !.conditionalNextSteps =
            IF step.type = "DECISION" THEN SelectSeq(@, LAMBDA c : c[2] # removedId) ELSE @,
        !.parallelNextSteps =
            IF step.type = "PARALLEL_GATEWAY"
            THEN SelectSeq(@, LAMBDA t : t # removedId) ELSE @,
        !.joinStep = IF step.type = "PARALLEL_GATEWAY" /\ @ = removedId THEN "" ELSE @]

scrubRefs(def, removedId) == MapSteps(def, LAMBDA s : scrubStep(s, removedId))

deleteStep(def, id) ==
    scrubRefs([def EXCEPT !.steps = SelectSeq(@, LAMBDA s : s.id # id)], id)

\* The other button of the delete dialog: redirect the references, then delete.
replaceAndDelete(def, id, replacement) ==
    deleteStep(MapSteps(def, LAMBDA s : rewriteRefs(s, id, replacement)), id)

\* The places that refer to id, as the delete dialog lists them.
findReferences(def, id) ==
    UNION {LET step == def.steps[n] IN
             {<<step.id, "nextStep", m>> : m \in {m \in {0} :
                      step.type \in NextTypes /\ step.nextStep = id}}
             \cup {<<step.id, "boundaryEvents", m>> : m \in {m \in DOMAIN step.boundaryEvents :
                      step.type \in BoundaryTypes /\ step.boundaryEvents[m].targetStepId = id}}
             \cup {<<step.id, "conditionalNextSteps", m>> : m \in {m \in DOMAIN step.conditionalNextSteps :
                      step.type = "DECISION" /\ step.conditionalNextSteps[m][2] = id}}
             \cup {<<step.id, "parallelNextSteps", m>> : m \in {m \in DOMAIN step.parallelNextSteps :
                      step.type = "PARALLEL_GATEWAY" /\ step.parallelNextSteps[m] = id}}
             \cup {<<step.id, "joinStep", m>> : m \in {m \in {0} :
                      step.type = "PARALLEL_GATEWAY" /\ step.joinStep = id}} :
           n \in DOMAIN def.steps}
================================================================================
