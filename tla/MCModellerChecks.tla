----------------------------- MODULE MCModellerChecks -----------------------------
EXTENDS ModellerChecks

(* Trees: operators of every level over operands of every kind, two deep. *)

Id1 == [kind |-> "identifier", path |-> <<<<"i", "n">>>>]
Id2 == [kind |-> "identifier", path |-> <<<<"a">>, <<"b">>>>]
Neg == mkLit("int", <<"-", "1">>)
Atoms == {Id1, Neg}
Leaves == Atoms \cup {Id2, mkLit("float", <<"0", ".", "5">>), mkLit("bool", <<"true">>),
                      mkLit("string", <<"(">>), mkLit("string", <<>>)}

Binaries(ops, left, right) == {mkBin(op, l, r) : op \in ops, l \in left, r \in right}
Members(left, right) == {mkMem(l, r) : l \in left, r \in right}
Nots(args) == {[kind |-> "unary", op |-> "!", arg |-> a] : a \in args}
Calls(args) ==
    {[kind |-> "call", fn |-> "len", args |-> <<a>>] : a \in args}
    \cup {[kind |-> "call", fn |-> "contains", args |-> <<a, a, a>>] : a \in args}
    \cup {[kind |-> "call", fn |-> "len", args |-> <<>>]}

AllOps == {"||", "&&", "==", "!=", ">=", "<=", ">", "<", "+", "-", "*", "/"}
LevelOps == {"||", "&&", "==", "<", "-", "/"}

One == Atoms \cup Binaries(LevelOps, {Id1}, Atoms) \cup Members({Id1}, Atoms) \cup Nots(Atoms)
       \cup Calls({Id1})

TreesDef ==
    Leaves \cup Binaries(AllOps, Leaves, Leaves) \cup Members(Leaves, Leaves)
    \cup Binaries(LevelOps, One, One) \cup Members(One, One) \cup Nots(One) \cup Nots(Nots(One))
    \cup Calls(One)

StylesDef ==
    {[space |-> <<>>, sigil |-> "bare", calls |-> FALSE],
     [space |-> <<" ">>, sigil |-> "dollar", calls |-> TRUE],
     [space |-> <<"\n">>, sigil |-> "hash", calls |-> FALSE]}

Alphabet == {"a", "1", "-", "!", "(", ")", "=", ".", " "}
MaxOpen == 3 \* brackets a text opens
Opens(text) == {i \in DOMAIN text : text[i] = "("}
TextsDef == {text \in UNION {[1..n -> Alphabet] : n \in 0..5} : Cardinality(Opens(text)) <= MaxOpen}

--------------------------------------------------------------------------------
(* Definitions of three steps a, b and c. *)

S(id, type) == newStep(id, type)
Timer(target, duration) == [type |-> "TIMER", duration |-> duration, targetStepId |-> target]
Good == <<"x", ">", "1">>
Ill  == <<"x", "+">>
Rule(when, out) == [when |-> when, outputs |-> <<<<<<"o">>, out>>>>]

Tasks(id, next) ==
    {[S(id, "SERVICE_TASK") EXCEPT !.nextStep = n, !.jobType = j] : n \in {"", next}, j \in {"", "job"}}
    \cup {[S(id, "SERVICE_TASK") EXCEPT !.nextStep = "c", !.jobType = "job", !.boundaryEvents = t] :
             t \in {<<Timer("b", "PT1H")>>, <<Timer("b", "PT1H"), Timer("gone", "PT1H")>>,
                    <<Timer("a", "1h")>>}}
    \cup {[S(id, "USER_TASK") EXCEPT !.nextStep = n] : n \in {next, "gone"}}
    \cup {[S(id, "WAIT") EXCEPT !.nextStep = n, !.boundaryEvents = t] :
             n \in {"", "c"}, t \in {<<>>, <<Timer("b", "PT1H")>>}}

Decisions(id, next) ==
    {[S(id, "DECISION") EXCEPT !.conditionalNextSteps = c] :
        c \in {<<>>, <<<<Good, next>>>>, <<<<Good, "b">>, <<<<"y">>, "c">>>>, <<<<Ill, "c">>>>,
               <<<<<<"1">>, next>>>>}}
    \cup {[S(id, "TRANSFORMATION") EXCEPT !.nextStep = next, !.transformations = t] :
             t \in {<<>>, <<<<<<"x">>, Good>>>>, <<<<<<"y">>, <<"$", "{">> \o Ill \o <<"}">>>>>>}}
    \cup {[S(id, "DECISION_TABLE") EXCEPT !.nextStep = next, !.rules = r, !.hitPolicy = h] :
             r \in {<<>>, <<Rule(<<>>, Good), Rule(<<<<<<"x">>, Good>>>>, Good)>>}, h \in {"U", "U+"}}
    \cup {[S(id, "DECISION_TABLE") EXCEPT !.nextStep = next, !.rules = r, !.joinStep = j] :
             r \in {<<Rule(<<<<<<"x">>, Ill>>>>, <<"$", "{", "}">>)>>, <<Rule(<<>>, Good)>>}, j \in {"", "c"}}

Gateways(id, next) ==
    {[S(id, "PARALLEL_GATEWAY") EXCEPT !.parallelNextSteps = p, !.joinStep = j] :
        p \in {<<next, "c">>, <<"b", "b">>, <<"b">>}, j \in {"", "c", "gone"}}
    \cup {[S(id, "JOIN_GATEWAY") EXCEPT !.nextStep = n] : n \in {"", next}}

Ends(id) == {S(id, "END"), [S(id, "END") EXCEPT !.rules = <<Rule(<<>>, Good)>>]}

Shapes(id, next) == Tasks(id, next) \cup Decisions(id, next) \cup Gateways(id, next) \cup Ends(id)

Last == {S("c", "END"), [S("c", "JOIN_GATEWAY") EXCEPT !.nextStep = "a"],
         [S("c", "USER_TASK") EXCEPT !.boundaryEvents = <<Timer("d", "PT1H")>>]}

Named(steps) == [emptyDefinition EXCEPT !.steps = steps]

Sound == Named(<<[S("a", "WAIT") EXCEPT !.nextStep = "b"], S("b", "END")>>)

\* What an import can add to a definition and to its steps.
Imports ==
    {[d EXCEPT !.inputSchema = i, !.extra = x] :
        d \in {Sound}, i \in {"", "sound", "unsound"}, x \in {"", "key", "inner"}}
    \cup {Named(<<[s EXCEPT !.outputsSchema = o, !.extra = x], S("b", "END")>>) :
            s \in Shapes("a", "b"), o \in {"", "sound", "unsound"},
            x \in {"", "key", "inner", "then", "defaultNextStep"}}

DefinitionsDef ==
    {Named(<<x, y, z>>) : x \in Shapes("a", "b"), y \in Shapes("b", "c"), z \in Last}
    \cup {Named(<<[g EXCEPT !.joinStep = "c"], b, [S("c", "JOIN_GATEWAY") EXCEPT !.nextStep = n],
                  S("d", "END")>>) :
             g \in Gateways("a", "b"), b \in Tasks("b", "c") \cup Gateways("b", "d"), n \in {"d", "c"}}
    \cup Imports
    \cup {Named(<<>>), Sound, [Sound EXCEPT !.id = "long-id"], [Sound EXCEPT !.name = " "], [Sound EXCEPT !.id = "bad id"],
          [Sound EXCEPT !.autoStartNextWorkflow = TRUE], [Sound EXCEPT !.nextWorkflowId = "w"],
          [Sound EXCEPT !.autoStartNextWorkflow = TRUE, !.nextWorkflowId = " "],
          [Sound EXCEPT !.steps[1].id = "b"], [Sound EXCEPT !.steps[1].id = ""],
          [Sound EXCEPT !.steps[1].name = " "], [Sound EXCEPT !.steps[1].type = "TIMER"]}
================================================================================
