---------------------------- MODULE ExpressionParser ----------------------------
(***************************************************************************)
(* The parser of decision and transformation expressions in the modeller:  *)
(* the rules of the generated PEG parser, one operator per rule.  A source *)
(* text is a sequence of characters.  A rule applied at position i gives   *)
(* the position after the match and its syntax tree, or FAILED; choice is  *)
(* ordered and a sequence that fails gives its input back, as in the       *)
(* generated code.  Syntax trees are records; the value of a literal is    *)
(* kept as characters, without redundant zeros.                            *)
(***************************************************************************)
EXTENDS Integers, Sequences

\* The upper-case letters, which the rules treat like these, are left out.
Digit  == {"0", "1", "2", "3", "4", "5", "6", "7", "8", "9"}
Letter == {"a", "b", "c", "d", "e", "f", "g", "h", "i", "j", "k", "l", "m", "n", "o", "p",
           "q", "r", "s", "t", "u", "v", "w", "x", "y", "z", "_"}

None   == [kind |-> "none"]
FAILED == [at |-> 0, ast |-> None]
Match(i, tree) == [at |-> i, ast |-> tree]
Failed(r) == r.at = 0

charAt(s, i) == IF i \in 1..Len(s) THEN s[i] ELSE ""

\* The text lit stands at position i.
Lit(s, i, lit) == i + Len(lit) - 1 <= Len(s) /\ SubSeq(s, i, i + Len(lit) - 1) = lit

\* The first of two results that is not FAILED.
Or(r, q) == IF Failed(r) THEN q ELSE r

--------------------------------------------------------------------------------
(* Trees. *)

mkBin(op, lhs, rhs) == [kind |-> "binary", op |-> op, lhs |-> lhs, rhs |-> rhs]
mkMem(needle, haystack) == [kind |-> "membership", needle |-> needle, haystack |-> haystack]
mkLit(vk, v) == [kind |-> "literal", valueKind |-> vk, value |-> v]

\* foldRel makes a membership of "in"; foldBin has no such operator.
fold(op, lhs, rhs) == IF op = "in" THEN mkMem(lhs, rhs) ELSE mkBin(op, lhs, rhs)

--------------------------------------------------------------------------------
(* Spaces and words. *)

RECURSIVE Skip(_, _)
Skip(s, i) == IF charAt(s, i) \in {" ", "\t", "\n", "\r"} THEN Skip(s, i + 1) ELSE i

RECURSIVE Run(_, _, _)
Run(s, i, chars) == IF charAt(s, i) \in chars THEN Run(s, i + 1, chars) ELSE i

IdentRest(s, i) == charAt(s, i) \in Letter \cup Digit

Ident(s, i) ==
    IF charAt(s, i) \in Letter
    THEN LET e == Run(s, i, Letter \cup Digit) IN Match(e, SubSeq(s, i, e - 1))
    ELSE FAILED

RECURSIVE MoreIdents(_, _, _)
MoreIdents(s, i, path) ==
    LET r == IF charAt(s, i) = "." THEN Ident(s, i + 1) ELSE FAILED
    IN  IF Failed(r) THEN Match(i, path) ELSE MoreIdents(s, r.at, Append(path, r.ast))

IdentPath(s, i) ==
    LET r == Ident(s, i) IN IF Failed(r) THEN FAILED ELSE MoreIdents(s, r.at, <<r.ast>>)

Identifier(r, i) ==
    IF Failed(r) THEN FAILED ELSE Match(i, [kind |-> "identifier", path |-> r.ast])

BareIdent(s, i) == LET r == IdentPath(s, i) IN Identifier(r, r.at)

HashIdent(s, i) ==
    IF charAt(s, i) = "#" THEN LET r == IdentPath(s, i + 1) IN Identifier(r, r.at) ELSE FAILED

DollarIdent(s, i) ==
    IF ~Lit(s, i, <<"$", "{">>) THEN FAILED
    ELSE LET r == IdentPath(s, Skip(s, i + 2))
             e == Skip(s, r.at)
         IN  IF ~Failed(r) /\ charAt(s, e) = "}" THEN Identifier(r, e + 1) ELSE FAILED

IdentifierExpr(s, i) == Or(DollarIdent(s, i), Or(HashIdent(s, i), BareIdent(s, i)))

--------------------------------------------------------------------------------
(* Literals. *)

StringLit(s, i) ==
    LET q == charAt(s, i)
        closing == {j \in (i + 1)..Len(s) : s[j] = q /\ \A k \in (i + 1)..(j - 1) : s[k] # q}
    IN  IF q \in {"'", "\""} /\ closing # {}
        THEN LET j == CHOOSE j \in closing : TRUE
             IN  Match(j + 1, mkLit("string", SubSeq(s, i + 1, j - 1)))
        ELSE FAILED

BoolLitPrefix(s, i) ==
    IF Lit(s, i, <<"t", "r", "u", "e">>) THEN Match(i + 4, mkLit("bool", <<"true">>))
    ELSE IF Lit(s, i, <<"f", "a", "l", "s", "e">>) THEN Match(i + 5, mkLit("bool", <<"false">>))
    ELSE FAILED

BoolLit(s, i) ==
    LET r == BoolLitPrefix(s, i) IN IF IdentRest(s, r.at) THEN FAILED ELSE r

Unsigned(s, i) == IF charAt(s, i) = "-" THEN i + 1 ELSE i
Sign(s, i) == IF charAt(s, i) = "-" THEN <<"-">> ELSE <<>>

RECURSIVE parseInt(_), parseFraction(_)
parseInt(digits) ==
    IF Len(digits) > 1 /\ Head(digits) = "0" THEN parseInt(Tail(digits)) ELSE digits

parseFraction(digits) ==
    IF Len(digits) > 1 /\ digits[Len(digits)] = "0"
    THEN parseFraction(SubSeq(digits, 1, Len(digits) - 1)) ELSE digits

IntLit(s, i) ==
    LET d == Unsigned(s, i)
        e == Run(s, d, Digit)
    IN  IF e = d THEN FAILED
        ELSE Match(e, mkLit("int", Sign(s, i) \o parseInt(SubSeq(s, d, e - 1))))

FloatLit(s, i) ==
    LET d == Unsigned(s, i)
        e == Run(s, d, Digit)
        f == Run(s, e + 1, Digit)
    IN  IF e > d /\ charAt(s, e) = "." /\ f > e + 1
        THEN Match(f, mkLit("float", Sign(s, i) \o parseInt(SubSeq(s, d, e - 1)) \o <<".">>
                                      \o parseFraction(SubSeq(s, e + 1, f - 1))))
        ELSE FAILED

Literal(s, i) ==
    Or(FloatLit(s, i), Or(IntLit(s, i), Or(BoolLit(s, i), StringLit(s, i))))

--------------------------------------------------------------------------------
(* Operators of the six binary levels; ast is the operator's name. *)

Op(s, i, lit, name) == IF Lit(s, i, lit) THEN Match(i + Len(lit), name) ELSE FAILED

OrOp(s, i)  == Op(s, i, <<"|", "|">>, "||")
AndOp(s, i) == Op(s, i, <<"&", "&">>, "&&")
EqOp(s, i)  == Or(Op(s, i, <<"=", "=">>, "=="), Op(s, i, <<"!", "=">>, "!="))

RelOp(s, i) ==
    Or(Op(s, i, <<">", "=">>, ">="), Or(Op(s, i, <<"<", "=">>, "<="),
    Or(Op(s, i, <<">">>, ">"), Or(Op(s, i, <<"<">>, "<"),
       IF IdentRest(s, i + 2) THEN FAILED ELSE Op(s, i, <<"i", "n">>, "in")))))

AddOp(s, i) == Or(Op(s, i, <<"+">>, "+"), Op(s, i, <<"-">>, "-"))
MulOp(s, i) == Or(Op(s, i, <<"*">>, "*"), Op(s, i, <<"/">>, "/"))

CallFn(s, i) ==
    LET r == Or(Op(s, i, <<"c", "o", "n", "t", "a", "i", "n", "s">>, "contains"),
                Op(s, i, <<"l", "e", "n">>, "len"))
    IN  IF IdentRest(s, r.at) THEN FAILED ELSE r

--------------------------------------------------------------------------------
(* Expressions. *)

RECURSIVE Level(_, _, _), Climb(_, _, _, _), FoldTail(_, _, _), FoldNext(_, _, _, _),
          UnaryExpr(_, _), Primary(_, _), ParenExpr(_, _), Call(_, _), Args(_, _), MoreArgs(_, _, _)

\* Six rules have one shape, Operand (_ Operator _ Operand)*, folded to the left,
\* where the operand is the rule of the next level: OrExpr, AndExpr, EqExpr,
\* RelExpr, AddExpr and MulExpr are levels 1 to 6, UnaryExpr is level 7.
Operator(level, s, i) ==
    CASE level = 1 -> OrOp(s, i)
      [] level = 2 -> AndOp(s, i)
      [] level = 3 -> EqOp(s, i)
      [] level = 4 -> RelOp(s, i)
      [] level = 5 -> AddOp(s, i)
      [] level = 6 -> MulOp(s, i)

\* All of the rules start with a UnaryExpr; the tails follow, the tightest first.
Level(level, s, i) == Climb(level, 6, s, UnaryExpr(s, i))

Climb(level, n, s, lhs) ==
    IF Failed(lhs) \/ n < level THEN lhs ELSE Climb(level, n - 1, s, FoldTail(n, s, lhs))

OrExpr(s, i) == Level(1, s, i)

\* A variant that folds to the right: a - b - c read as a - (b - c).
RightNext(level, s, lhs, op) ==
    LET rhs == IF Failed(op) THEN FAILED
               ELSE FoldTail(level, s, Level(level + 1, s, Skip(s, op.at)))
    IN  IF Failed(rhs) THEN lhs ELSE Match(rhs.at, fold(op.ast, lhs.ast, rhs.ast))

\* An operator with no operand after it is given back.
Folded(lhs, op, rhs) == Match(rhs.at, fold(op.ast, lhs.ast, rhs.ast))

FoldNext(level, s, lhs, op) ==
    LET rhs == IF Failed(op) THEN FAILED ELSE Level(level + 1, s, Skip(s, op.at))
    IN  IF Failed(rhs) THEN lhs ELSE FoldTail(level, s, Folded(lhs, op, rhs))

FoldTail(level, s, lhs) == FoldNext(level, s, lhs, Operator(level, s, Skip(s, lhs.at)))

Negated(arg) ==
    IF Failed(arg) THEN FAILED
    ELSE Match(arg.at, [kind |-> "unary", op |-> "!", arg |-> arg.ast])

Not(s, i) == Negated(IF charAt(s, i) = "!" THEN UnaryExpr(s, Skip(s, i + 1)) ELSE FAILED)

UnaryExpr(s, i) == Or(Not(s, i), Primary(s, i))

Primary(s, i) ==
    Or(Call(s, i), Or(ParenExpr(s, i), Or(Literal(s, i), IdentifierExpr(s, i))))

\* What a rule matched, up to the closing bracket.
ClosedParen(s, r) ==
    LET e == Skip(s, r.at)
    IN  IF ~Failed(r) /\ charAt(s, e) = ")" THEN Match(e + 1, r.ast) ELSE FAILED

ParenExpr(s, i) ==
    ClosedParen(s, IF charAt(s, i) = "(" THEN OrExpr(s, Skip(s, i + 1)) ELSE FAILED)

Argument(s, i, args, r) ==
    IF Failed(r) THEN Match(i, args) ELSE MoreArgs(s, r.at, Append(args, r.ast))

Args(s, i) == Argument(s, Skip(s, i), <<>>, OrExpr(s, i))

MoreArgs(s, i, args) ==
    LET c == Skip(s, i)
    IN  Argument(s, i, args, IF charAt(s, c) = "," THEN OrExpr(s, Skip(s, c + 1)) ELSE FAILED)

mkCall(fn, args) ==
    IF fn = "contains" /\ Len(args) = 2 THEN mkMem(args[2], args[1])
    ELSE [kind |-> "call", fn |-> fn, args |-> args]

CallOf(fn, r) == IF Failed(r) THEN FAILED ELSE Match(r.at, mkCall(fn, r.ast))

Call(s, i) ==
    LET fn   == CallFn(s, i)
        open == Skip(s, fn.at)
    IN  IF Failed(fn) \/ charAt(s, open) # "(" THEN FAILED
        ELSE CallOf(fn.ast, ClosedParen(s, Args(s, Skip(s, open + 1))))

Padded(s, r) == IF Failed(r) THEN FAILED ELSE Match(Skip(s, r.at), r.ast)

Start(s, i) == Padded(s, OrExpr(s, Skip(s, i)))

--------------------------------------------------------------------------------
(* parser.ts and lint.ts on top of it. *)

\* A match must reach the end of the text.
Whole(s, r) == IF r.at = Len(s) + 1 THEN r ELSE FAILED

pegParse(s) == Whole(s, Start(s, 1))

\* The tree, or None in place of a syntax error.
parseExpression(s) == pegParse(s).ast

RECURSIVE trim(_)
trim(s) ==
    IF s # <<>> /\ Head(s) = " " THEN trim(Tail(s))
    ELSE IF s # <<>> /\ s[Len(s)] = " " THEN trim(SubSeq(s, 1, Len(s) - 1))
    ELSE s

\* The expression inside an envelope, or the empty sequence of results.
unwrapTransformationExpression(s) ==
    LET t == trim(s)
    IN  IF Len(t) >= 3 /\ Lit(t, 1, <<"$", "{">>) /\ t[Len(t)] = "}"
        THEN <<SubSeq(t, 3, Len(t) - 1)>> ELSE <<>>

RECURSIVE collectIdentifiers(_)
collectIdentifiers(ast) ==
    CASE ast.kind = "identifier" -> {ast.path}
      [] ast.kind = "literal"    -> {}
      [] ast.kind = "unary"      -> collectIdentifiers(ast.arg)
      [] ast.kind = "binary"     -> collectIdentifiers(ast.lhs) \cup collectIdentifiers(ast.rhs)
      [] ast.kind = "membership" -> collectIdentifiers(ast.needle) \cup collectIdentifiers(ast.haystack)
      [] ast.kind = "call"       -> UNION {collectIdentifiers(ast.args[n]) : n \in DOMAIN ast.args}

topLevelLikelyBoolean(ast) ==
    CASE ast.kind = "literal" -> ast.valueKind = "bool"
      [] ast.kind = "binary"  -> ast.op \in {"==", "!=", ">", ">=", "<", "<=", "&&", "||"}
      [] ast.kind \in {"unary", "membership", "identifier", "call"} -> TRUE

\* Error and warning codes.
lintDecisionTree(ast, knownVars) ==
    IF ast = None THEN {"DECISION_EXPR_SYNTAX"}
    ELSE (IF topLevelLikelyBoolean(ast) THEN {} ELSE {"DECISION_EXPR_NON_BOOLEAN"})
         \cup
         (IF knownVars # {} /\ \E path \in collectIdentifiers(ast) : path[1] \notin knownVars
          THEN {"DECISION_EXPR_UNKNOWN_IDENT"} ELSE {})

lintDecisionExpression(s, knownVars) == lintDecisionTree(parseExpression(s), knownVars)

lintTransformationExpression(s) ==
    LET inner == unwrapTransformationExpression(s)
    IN  IF inner # <<>> /\ parseExpression(inner[1]) = None
        THEN {"TRANSFORMATION_EXPR_SYNTAX"} ELSE {}
================================================================================
