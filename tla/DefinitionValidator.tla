--------------------------- MODULE DefinitionValidator ---------------------------
(***************************************************************************)
(* The modeller's validator and the engine's, side by side.  The modeller's *)
(* validate gives a set of diagnostics, one record of code and node each;  *)
(* the engine's Validate accepts or refuses.  A definition the modeller    *)
(* finds no error in can be exported and uploaded.                         *)
(***************************************************************************)
EXTENDS WorkflowGraph, ExpressionParser

Blank(text) == text \in {"", " "}

\* The texts that stand for a malformed id, for one of more than 256 characters
\* and for a malformed duration.
ID_PATTERN(id) == id \notin {"", "bad id"}
Long(id) == id = "long-id"
ISO_DURATION_PATTERN(duration) == duration \notin {"", "1h"}

HIT_POLICIES == {"U", "F", "A", "R", "C", "C+", "C#", "C>", "C<"}

D(code, node) == [code |-> code, node |-> node]
If(cond, code, node) == IF cond THEN {D(code, node)} ELSE {}

Warnings == {"GRAPH_CYCLE", "UNKNOWN_FIELDS_PRESENT", "DECISION_TABLE_UNREACHABLE_RULE",
             "DECISION_EXPR_UNKNOWN_IDENT", "DT_CELL_EXPR_UNKNOWN_IDENT"}

Steps(def) == {def.steps[n] : n \in DOMAIN def.steps}

--------------------------------------------------------------------------------
(* Fields. *)

checkIdFormat(def) == If(~ID_PATTERN(def.id), "ID_FORMAT", "")

checkNameRequired(def) ==
    If(Blank(def.name), "NAME_REQUIRED", "")
    \cup {D("NAME_REQUIRED", s.id) : s \in {s \in Steps(def) : Blank(s.name)}}

checkStepsNonEmpty(def) == If(def.steps = <<>>, "STEPS_NONEMPTY", "")

checkStepIdsUnique(def) ==
    {D("STEP_ID_UNIQUE", def.steps[n].id) :
        n \in {n \in DOMAIN def.steps : \E m \in 1..(n - 1) : def.steps[m].id = def.steps[n].id}}

checkStepIdsPresent(def) == If(\E s \in Steps(def) : Blank(s.id), "STEP_ID_REQUIRED", "")

checkStepTypesValid(def) ==
    {D("STEP_TYPE_VALID", s.id) : s \in {s \in Steps(def) : s.type \notin STEP_TYPES}}

checkNextWorkflowConsistency(def) ==
    If(def.autoStartNextWorkflow # ~Blank(def.nextWorkflowId), "NEXT_WORKFLOW_CONSISTENCY", "")

\* The optional fields a step carries, and those its type is known to have.
Filled(step) ==
    {f \in {"nextStep", "joinStep", "jobType", "hitPolicy"} : step[f] # ""}
    \cup {f \in {"conditionalNextSteps", "transformations", "parallelNextSteps",
                 "boundaryEvents", "rules"} : step[f] # <<>>}
    \cup {f \in {"outputsSchema"} : step[f] # ""} \cup {f \in {"key"} : step.extra = f}

KNOWN_STEP_KEYS(type) ==
    CASE type \in {"SERVICE_TASK", "USER_TASK"} -> {"nextStep", "jobType", "boundaryEvents"}
      [] type = "DECISION"         -> {"conditionalNextSteps"}
      [] type = "DECISION_TABLE"   -> {"hitPolicy", "nextStep", "rules"}
      [] type = "TRANSFORMATION"   -> {"nextStep", "transformations"}
      [] type = "WAIT"             -> {"nextStep", "boundaryEvents"}
      [] type = "PARALLEL_GATEWAY" -> {"parallelNextSteps", "joinStep"}
      [] type = "JOIN_GATEWAY"     -> {"nextStep"}
      [] OTHER                     -> {}

checkUnknownFields(def) ==
    If(def.inputSchema # "" \/ def.extra = "key", "UNKNOWN_FIELDS_PRESENT", "")
    \cup {D("UNKNOWN_FIELDS_PRESENT", s.id) :
        s \in {s \in Steps(def) : Filled(s) \ KNOWN_STEP_KEYS(s.type) # {}}}

\* A rule without a condition matches every input: the rules after the first such one are dead.
UnreachableRule(rules) ==
    \E n \in DOMAIN rules : \E m \in 1..(n - 1) : rules[m].when = <<>>

checkDecisionTableShape(step) ==
    If(step.rules = <<>>, "DECISION_TABLE_HAS_RULES", step.id)
    \cup If(Blank(step.nextStep), "DECISION_TABLE_HAS_NEXT", step.id)
    \cup If(step.hitPolicy \notin HIT_POLICIES \cup {""}, "DECISION_TABLE_HIT_POLICY_UNKNOWN", step.id)
    \cup If(step.hitPolicy = "U+", "DECISION_TABLE_AGGREGATOR_ON_NON_C", step.id)
    \cup If(step.extra = "then", "DECISION_TABLE_LEGACY_THEN", step.id)
    \cup If(step.extra = "defaultNextStep", "DECISION_TABLE_LEGACY_DEFAULT_NEXT_STEP", step.id)
    \cup If(Filled(step) \cap {"conditionalNextSteps", "transformations", "parallelNextSteps",
                               "joinStep", "jobType", "boundaryEvents"} # {},
            "STEP_FIELD_INVALID", step.id)
    \cup If(UnreachableRule(step.rules), "DECISION_TABLE_UNREACHABLE_RULE", step.id)

checkStepVariantShape(step) ==
    CASE step.type = "DECISION" ->
            If(step.conditionalNextSteps = <<>>, "DECISION_HAS_BRANCHES", step.id)
      [] step.type = "DECISION_TABLE" -> checkDecisionTableShape(step)
      [] step.type = "TRANSFORMATION" ->
            If(Blank(step.nextStep), "TRANSFORMATION_HAS_NEXT", step.id)
            \cup If(step.transformations = <<>>, "TRANSFORMATION_HAS_ENTRIES", step.id)
      [] step.type = "WAIT" -> If(Blank(step.nextStep), "WAIT_HAS_NEXT", step.id)
      [] step.type = "PARALLEL_GATEWAY" ->
            If(Len(step.parallelNextSteps) < 2, "PARALLEL_MIN_BRANCHES", step.id)
            \cup If(Blank(step.joinStep), "PARALLEL_HAS_JOIN", step.id)
      [] step.type = "JOIN_GATEWAY" -> If(Blank(step.nextStep), "JOIN_HAS_NEXT", step.id)
      [] OTHER -> {}

--------------------------------------------------------------------------------
(* References, timers and expressions. *)

Range(f) == {f[n] : n \in DOMAIN f}


checkRefsResolve(step, def) ==
    LET missing(target) == If(~hasStep(def, target), "REF_RESOLVES", step.id)
    IN  CASE step.type \in NextTypes -> IF step.nextStep = "" THEN {} ELSE missing(step.nextStep)
          [] step.type = "DECISION" ->
                UNION {missing(c[2]) : c \in Range(step.conditionalNextSteps)}
          [] step.type = "PARALLEL_GATEWAY" ->
                UNION {missing(t) : t \in Range(step.parallelNextSteps) \cup ({step.joinStep} \ {""})}
          [] OTHER -> {}

checkBoundaryEvents(step, def) ==
    IF step.type \notin BoundaryTypes
    THEN If(step.boundaryEvents # <<>>, "BOUNDARY_PARENT_SUPPORTS", step.id)
    ELSE UNION {If(evt.type # "TIMER", "BOUNDARY_TYPE", step.id)
                \cup If(~ISO_DURATION_PATTERN(evt.duration), "BOUNDARY_DURATION", step.id)
                \cup If(~hasStep(def, evt.targetStepId), "BOUNDARY_TARGET_RESOLVES", step.id) :
                evt \in Range(step.boundaryEvents)}

collectKnownVariables(def) ==
    UNION {{t[1] : t \in Range(s.transformations)} :
              s \in {s \in Steps(def) : s.type = "TRANSFORMATION"}}

remapCellCode(code) ==
    CASE code = "DECISION_EXPR_SYNTAX"        -> "DT_CELL_EXPR_SYNTAX"
      [] code = "DECISION_EXPR_NON_BOOLEAN"   -> "DT_CELL_EXPR_NON_BOOLEAN"
      [] code = "DECISION_EXPR_UNKNOWN_IDENT" -> "DT_CELL_EXPR_UNKNOWN_IDENT"

checkExpressions(step, def) ==
    LET known == collectKnownVariables(def)
        codes ==
            CASE step.type = "DECISION" ->
                    UNION {lintDecisionExpression(c[1], known) : c \in Range(step.conditionalNextSteps)}
              [] step.type = "TRANSFORMATION" ->
                    UNION {lintTransformationExpression(t[2]) : t \in Range(step.transformations)}
              [] step.type = "DECISION_TABLE" ->
                    UNION {{remapCellCode(code) : code \in
                              UNION {lintDecisionExpression(cell[2], known) :
                                        cell \in {w \in Range(rule.when) : trim(w[2]) # <<>>}}}
                           \cup {"DT_OUTPUT_EXPR_SYNTAX" : code \in
                              UNION {lintTransformationExpression(o[2]) : o \in Range(rule.outputs)}} :
                           rule \in Range(step.rules)}
              [] OTHER -> {}
    IN  {D(code, step.id) : code \in codes}

--------------------------------------------------------------------------------
(* The graph. *)

checkParallelJoinTarget(def) ==
    {D("PARALLEL_HAS_JOIN", s.id) :
        s \in {s \in Steps(def) : /\ s.type = "PARALLEL_GATEWAY"
                                  /\ hasStep(def, s.joinStep)
                                  /\ indexSteps(def, s.joinStep).type # "JOIN_GATEWAY"}}

outgoingTargets(step) ==
    CASE step.type \in {"WAIT", "TRANSFORMATION", "JOIN_GATEWAY"} -> <<step.nextStep>>
      [] step.type \in {"SERVICE_TASK", "USER_TASK", "DECISION_TABLE"} ->
            IF step.nextStep = "" THEN <<>> ELSE <<step.nextStep>>
      [] step.type = "DECISION" ->
            [n \in DOMAIN step.conditionalNextSteps |-> step.conditionalNextSteps[n][2]]
      [] step.type = "PARALLEL_GATEWAY" -> step.parallelNextSteps
      [] OTHER -> <<>>

allOutgoing(step) ==
    outgoingTargets(step) \o
    IF step.type \in BoundaryTypes
    THEN [n \in DOMAIN step.boundaryEvents |-> step.boundaryEvents[n].targetStepId]
    ELSE <<>>

RECURSIVE Walk(_, _)
Walk(succ, visited) ==
    LET more == visited \cup UNION {succ[id] : id \in visited \cap DOMAIN succ}
    IN  IF more = visited THEN visited ELSE Walk(succ, more)

checkReachability(def) ==
    IF def.steps = <<>> THEN {}
    ELSE LET succ == [id \in stepIds(def) |-> Range(allOutgoing(indexSteps(def, id))) \ {""}]
             visited == Walk(succ, {def.steps[1].id} \ {""})
         IN  {D("ALL_REACHABLE", id) : id \in stepIds(def) \ visited}
             \cup If(~\E id \in visited \cap stepIds(def) : indexSteps(def, id).type = "END",
                     "END_REACHABLE", "")

\* From the branches of each gateway, not beyond its join and not along timers.
checkNestedParallel(def) ==
    UNION {LET succ == [id \in stepIds(def) |->
                           Range(outgoingTargets(indexSteps(def, id))) \ {"", g.joinStep}]
               visited == Walk(succ, Range(g.parallelNextSteps) \ {"", g.joinStep})
           IN  {D("NO_NESTED_PARALLEL", id) :
                   id \in {id \in visited \cap stepIds(def) :
                              indexSteps(def, id).type = "PARALLEL_GATEWAY"}} :
           g \in {s \in Steps(def) : s.type = "PARALLEL_GATEWAY"}}

\* Depth-first colouring; the search stops at the first edge to a gray step.
RECURSIVE dfs(_, _, _), dfsEach(_, _, _)
dfs(def, id, st) ==
    LET done == dfsEach(def, allOutgoing(indexSteps(def, id)), [st EXCEPT !.color[id] = "gray"])
    IN  IF done.onCycle # <<>> THEN done ELSE [done EXCEPT !.color[id] = "black"]

\* A variant without the third colour: a step seen on another path counts as a cycle.
dfsTwoColours(def, targets, st) ==
    IF targets = <<>> \/ st.onCycle # <<>> THEN st
    ELSE LET c == IF Head(targets) \in DOMAIN st.color THEN st.color[Head(targets)] ELSE "none"
         IN  CASE c \in {"gray", "black"} -> [st EXCEPT !.onCycle = <<Head(targets)>>]
               [] c = "white" -> dfsEach(def, Tail(targets), dfs(def, Head(targets), st))
               [] OTHER -> dfsEach(def, Tail(targets), st)

dfsEach(def, targets, st) ==
    IF targets = <<>> \/ st.onCycle # <<>> THEN st
    ELSE LET c == IF Head(targets) \in DOMAIN st.color THEN st.color[Head(targets)] ELSE "none"
         IN  CASE c = "gray"  -> [st EXCEPT !.onCycle = <<Head(targets)>>]
               [] c = "white" -> dfsEach(def, Tail(targets), dfs(def, Head(targets), st))
               [] OTHER       -> dfsEach(def, Tail(targets), st)

RECURSIVE dfsRoots(_, _, _)
dfsRoots(def, n, st) ==
    IF n > Len(def.steps) \/ st.onCycle # <<>> THEN st
    ELSE dfsRoots(def, n + 1,
            IF st.color[def.steps[n].id] = "white" THEN dfs(def, def.steps[n].id, st) ELSE st)

checkGraphCycle(def) ==
    LET st == dfsRoots(def, 1, [color |-> [id \in stepIds(def) |-> "white"], onCycle |-> <<>>])
    IN  {D("GRAPH_CYCLE", id) : id \in Range(st.onCycle)}

--------------------------------------------------------------------------------
validate(def) ==
    checkIdFormat(def) \cup checkNameRequired(def) \cup checkStepsNonEmpty(def)
    \cup checkStepIdsUnique(def) \cup checkStepIdsPresent(def) \cup checkStepTypesValid(def)
    \cup checkNextWorkflowConsistency(def)
    \cup UNION {checkStepVariantShape(s) \cup checkRefsResolve(s, def)
                \cup checkBoundaryEvents(s, def) \cup checkExpressions(s, def) : s \in Steps(def)}
    \cup checkParallelJoinTarget(def) \cup checkReachability(def) \cup checkNestedParallel(def)
    \cup checkGraphCycle(def) \cup checkUnknownFields(def)

errorDiagnostics(diagnostics) == {d \in diagnostics : d.code \notin Warnings}

--------------------------------------------------------------------------------
(* The engine. *)

\* The decoder refuses a key its structs do not have, at any depth, and a value of
\* another type than theirs.
Parse(def) == def.extra = "" /\ \A s \in Steps(def) : s.extra = ""

validateSchemaShape(schema) == schema # "unsound"

\* graphWalk follows every field that is set, whatever the type, the join included.
graphWalk(def) ==
    LET succ == [id \in stepIds(def) |->
                    LET s == indexSteps(def, id)
                    IN  ({s.nextStep, s.joinStep} \ {""})
                        \cup {c[2] : c \in Range(s.conditionalNextSteps)}
                        \cup Range(s.parallelNextSteps)
                        \cup {e.targetStepId : e \in Range(s.boundaryEvents)}]
    IN  Walk(succ, {def.steps[1].id})

validateDecisionTable(step, def) ==
    /\ step.rules # <<>>
    /\ step.nextStep # "" /\ hasStep(def, step.nextStep)
    /\ step.hitPolicy \in HIT_POLICIES \cup {""}
    /\ Filled(step) \cap {"conditionalNextSteps", "transformations", "parallelNextSteps",
                          "joinStep", "jobType", "boundaryEvents"} = {}

engineAcceptsStep(step, def) ==
    /\ step.name # ""
    /\ step.type \in STEP_TYPES
    /\ CASE step.type \in {"SERVICE_TASK", "USER_TASK"} ->
                /\ step.type = "SERVICE_TASK" => step.jobType # ""
                /\ step.nextStep # "" => hasStep(def, step.nextStep)
         [] step.type = "DECISION" ->
                /\ step.conditionalNextSteps # <<>>
                /\ \A c \in Range(step.conditionalNextSteps) : hasStep(def, c[2])
         [] step.type \in {"TRANSFORMATION", "WAIT", "JOIN_GATEWAY"} ->
                /\ step.nextStep # "" /\ hasStep(def, step.nextStep)
                /\ step.type = "TRANSFORMATION" => step.transformations # <<>>
         [] step.type = "PARALLEL_GATEWAY" ->
                /\ Len(step.parallelNextSteps) >= 2
                /\ step.joinStep # "" /\ hasStep(def, step.joinStep)
                /\ \A t \in Range(step.parallelNextSteps) : hasStep(def, t)
         [] step.type = "DECISION_TABLE" -> validateDecisionTable(step, def)
         [] OTHER -> TRUE
    /\ step.type # "DECISION_TABLE" => step.rules = <<>>
    /\ step.outputsSchema # "" =>
          step.type = "SERVICE_TASK" /\ validateSchemaShape(step.outputsSchema)
    /\ \A evt \in Range(step.boundaryEvents) :
          evt.type = "TIMER" /\ evt.duration # "" /\ evt.targetStepId # "" /\ hasStep(def, evt.targetStepId)

engineAccepts(def) ==
    /\ Parse(def)
    /\ ID_PATTERN(def.id) /\ ~Long(def.id)
    /\ def.name # ""
    /\ def.steps # <<>>
    /\ def.autoStartNextWorkflow => def.nextWorkflowId # ""
    /\ validateSchemaShape(def.inputSchema)
    /\ Cardinality(stepIds(def)) = Len(def.steps) /\ "" \notin stepIds(def)
    /\ \A s \in Steps(def) : engineAcceptsStep(s, def)
    /\ LET reachable == graphWalk(def)
       IN  /\ stepIds(def) \subseteq reachable
           /\ \E id \in reachable \cap stepIds(def) : indexSteps(def, id).type = "END"
================================================================================
