------------------------------ MODULE ModellerChecks ------------------------------
(***************************************************************************)
(* The modeller's pure algorithms applied to bounded inputs: expressions   *)
(* are parsed, definitions are validated and edited.  Each behaviour takes *)
(* one input and applies one operation to it.                              *)
(***************************************************************************)
EXTENDS DefinitionValidator

CONSTANTS Trees,        \* syntax trees to print and parse
          Styles,       \* ways of printing a tree
          Texts,        \* texts to parse
          Definitions,  \* definitions to validate and edit
          NewId         \* a step id no definition mentions

VARIABLES input, output

checksVars == <<input, output>>

Nothing == [op |-> "none"]

ChecksInit ==
    /\ output = Nothing
    /\ input \in [kind : {"tree"}, tree : Trees, style : Styles]
                 \cup [kind : {"text"}, text : Texts]
                 \cup [kind : {"definition"}, def : Definitions]

--------------------------------------------------------------------------------
(* A printer, the reference for the parser: as few parentheses as the       *)
(* precedence of the operators and left associativity allow.               *)

BinaryPrecedence(op) ==
    CASE op = "||" -> 1
      [] op = "&&" -> 2
      [] op \in {"==", "!="} -> 3
      [] op \in {">=", "<=", ">", "<"} -> 4
      [] op \in {"+", "-"} -> 5
      [] op \in {"*", "/"} -> 6

Precedence(ast) ==
    CASE ast.kind = "binary" -> BinaryPrecedence(ast.op)
      [] ast.kind = "membership" -> 4
      [] ast.kind = "unary" -> 7
      [] OTHER -> 8

OpText ==
    [op \in {"||", "&&", "==", "!=", ">=", "<=", ">", "<", "+", "-", "*", "/"} |->
        CASE op = "||" -> <<"|", "|">> [] op = "&&" -> <<"&", "&">>
          [] op = "==" -> <<"=", "=">> [] op = "!=" -> <<"!", "=">>
          [] op = ">=" -> <<">", "=">> [] op = "<=" -> <<"<", "=">>
          [] OTHER -> <<op>>]

FnText == [fn \in {"len", "contains"} |->
              IF fn = "len" THEN <<"l", "e", "n">>
              ELSE <<"c", "o", "n", "t", "a", "i", "n", "s">>]

RECURSIVE Joined(_, _)
Joined(parts, separator) ==
    CASE parts = <<>> -> <<>>
      [] Len(parts) = 1 -> parts[1]
      [] OTHER -> parts[1] \o separator \o Joined(Tail(parts), separator)

RECURSIVE Printed(_, _, _)
Printed(ast, style, min) ==
    LET p == Precedence(ast)
        sp == style.space
        call(fn, args) ==
            FnText[fn] \o sp \o <<"(">> \o sp
            \o Joined([n \in DOMAIN args |-> Printed(args[n], style, 1)], sp \o <<",">> \o sp)
            \o sp \o <<")">>
        path == Joined(ast.path, <<".">>)
        body ==
            CASE ast.kind = "binary" ->
                    Printed(ast.lhs, style, p) \o sp \o OpText[ast.op] \o sp
                    \o Printed(ast.rhs, style, p + 1)
              [] ast.kind = "membership" ->
                    IF style.calls THEN call("contains", <<ast.haystack, ast.needle>>)
                    ELSE Printed(ast.needle, style, p) \o <<" ", "i", "n", " ">>
                         \o Printed(ast.haystack, style, p + 1)
              [] ast.kind = "unary" -> <<"!">> \o sp \o Printed(ast.arg, style, 7)
              [] ast.kind = "call" -> call(ast.fn, ast.args)
              [] ast.kind = "literal" ->
                    IF ast.valueKind = "string" THEN <<"'">> \o ast.value \o <<"'">>
                    ELSE IF ast.valueKind = "bool"
                    THEN IF ast.value = <<"true">> THEN <<"t", "r", "u", "e">>
                         ELSE <<"f", "a", "l", "s", "e">>
                    ELSE ast.value
              [] ast.kind = "identifier" ->
                    CASE style.sigil = "dollar" -> <<"$", "{">> \o sp \o path \o sp \o <<"}">>
                      [] style.sigil = "hash" -> <<"#">> \o path
                      [] OTHER -> path
    IN  IF p < min THEN <<"(">> \o sp \o body \o sp \o <<")">> ELSE body

Render(ast, style) == style.space \o Printed(ast, style, 1) \o style.space

--------------------------------------------------------------------------------
(* Operations. *)

ParseTree ==
    /\ output = Nothing /\ input.kind = "tree"
    /\ output' = [op |-> "parse", ast |-> parseExpression(Render(input.tree, input.style))]
    /\ UNCHANGED input

ParseText ==
    /\ output = Nothing /\ input.kind = "text"
    /\ output' = [op |-> "parse", ast |-> parseExpression(input.text)]
    /\ UNCHANGED input

Validate ==
    /\ output = Nothing /\ input.kind = "definition"
    /\ output' = [op |-> "validate", diagnostics |-> validate(input.def)]
    /\ UNCHANGED input

Rename(id) ==
    /\ output = Nothing /\ input.kind = "definition"
    /\ id \in stepIds(input.def) /\ ~RenameCollides(input.def, id, NewId)
    /\ output' = [op |-> "rename", id |-> id, def |-> renameStepId(input.def, id, NewId)]
    /\ UNCHANGED input

Delete(id) ==
    /\ output = Nothing /\ input.kind = "definition"
    /\ id \in stepIds(input.def)
    /\ output' = [op |-> "delete", id |-> id, def |-> deleteStep(input.def, id)]
    /\ UNCHANGED input

\* The dialog offers it only when something refers to the step.
Replace(id, replacement) ==
    /\ output = Nothing /\ input.kind = "definition"
    /\ id \in stepIds(input.def) /\ replacement \in stepIds(input.def) \ {id}
    /\ findReferences(input.def, id) # {}
    /\ output' = [op |-> "replace", id |-> id, def |-> replaceAndDelete(input.def, id, replacement)]
    /\ UNCHANGED input

Ids == IF input.kind = "definition" THEN stepIds(input.def) ELSE {}

ChecksNext ==
    \/ ParseTree
    \/ ParseText
    \/ Validate
    \/ \E id \in Ids : Rename(id) \/ Delete(id)
    \/ \E id, replacement \in Ids : Replace(id, replacement)

ChecksSpec == ChecksInit /\ [][ChecksNext]_checksVars

--------------------------------------------------------------------------------
(* Properties. *)

Plain == [space |-> <<>>, sigil |-> "bare", calls |-> FALSE]

\* Precedence, associativity, the three spellings of an identifier, the two of a
\* membership and white space: parsing a printed tree gives the tree back, and
\* whatever text is accepted, printing its tree and parsing again changes nothing.
ParserInvertsPrinter ==
    output.op = "parse" =>
        IF input.kind = "tree" THEN output.ast = input.tree
        ELSE output.ast = None \/ parseExpression(Render(output.ast, Plain)) = output.ast

\* Where the editor is laxer than the engine: the length of the id, what an import
\* brings in beside the editor's own fields (JSON the strict decoder refuses, the
\* two schemas), the job type of a SERVICE_TASK, a decision table on another step.
Laxities(def) ==
    \/ Long(def.id) \/ ~Parse(def) \/ def.inputSchema = "unsound"
    \/ \E s \in Steps(def) :
          \/ s.type = "SERVICE_TASK" /\ (s.jobType = "" \/ s.outputsSchema = "unsound")
          \/ s.type # "SERVICE_TASK" /\ s.outputsSchema # ""
          \/ s.type # "DECISION_TABLE" /\ s.rules # <<>>


\* Steps that come back to themselves along the edges the editor follows.
OnCycle(def) ==
    LET succ == [id \in stepIds(def) |-> Range(allOutgoing(indexSteps(def, id)))]
    IN  {id \in stepIds(def) : id \in Walk(succ, succ[id])}

\* The depth-first search warns of a cycle exactly when there is one, and names a
\* step that lies on it.
CycleWarningIsExact ==
    output.op = "validate" =>
        LET named == {d.node : d \in {d \in output.diagnostics : d.code = "GRAPH_CYCLE"}}
        IN  /\ named \subseteq OnCycle(input.def)
            /\ (named = {}) <=> (OnCycle(input.def) = {})

\* Renaming a step to an id that occurs nowhere changes only names: the edges and
\* every diagnostic are those of the old definition under the new name.  (A step
\* with an empty id cannot be told from an unset reference.)
RenameKeepsGraph ==
    (output.op = "rename" /\ output.id # "") =>
        LET new(id) == IF id = output.id THEN NewId ELSE id
        IN  /\ toEdges(output.def) = {[e EXCEPT !.from = new(@), !.to = new(@)] : e \in toEdges(input.def)}
            /\ validate(output.def) = {[d EXCEPT !.node = new(@)] : d \in validate(input.def)}

\* Whichever button of the dialog deletes a step, no edge and no join leads to it
\* afterwards, and no reference dangles that did not dangle before.
DeleteLeavesNoReference ==
    (output.op \in {"delete", "replace"} /\ output.id # "") =>
        LET dangling(def) == {e \in toEdges(def) : e.to # "" /\ ~hasStep(def, e.to)}
        IN  /\ ~hasStep(output.def, output.id)
            /\ findReferences(output.def, output.id) = {}
            /\ \A e \in toEdges(output.def) : e.to # output.id
            /\ {<<e.from, e.to>> : e \in dangling(output.def)}
                  \subseteq {<<e.from, e.to>> : e \in dangling(input.def)}

================================================================================
