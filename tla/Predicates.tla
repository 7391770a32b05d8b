----------------------------- MODULE Predicates -----------------------------
(***************************************************************************)
(* APL predicates: the attribute bag, the recursive-descent parser of      *)
(* predicate strings and of require(...), and their evaluation.            *)
(*                                                                         *)
(* A predicate is a sequence of tokens, which are strings: the identifiers *)
(* of Idents (`not` is one), the literals in the domain of Literals and    *)
(* the punctuation and keywords written below.  A bag maps the attributes  *)
(* that are present to tagged values <<type, value>>.                      *)
(***************************************************************************)
EXTENDS Integers, Sequences, SequencesExt

CONSTANTS Idents,       \* attribute paths, and the word "not"
          Literals,     \* literal token -> its value <<type, value>>
          Interpolated, \* path with a [..] group -> [inner, at: scalar -> path]
          NumberOf      \* numeric-looking string -> the number it parses to

CompareOps == {"==", "!=", ">", ">=", "<", "<=", "contains"}
-----------------------------------------------------------------------------
\* The bag.  Optional results are sets of at most one element.
Get(bag, key) == IF key \in DOMAIN bag THEN {bag[key]} ELSE {}

GetTyped(bag, key, type) == {v[2] : v \in {u \in Get(bag, key) : u[1] = type}}

ScalarAsString(bag, key) == {v[2] : v \in {u \in Get(bag, key) : u[1] # "StringSet"}}

ResolveKey(bag, key) ==
  IF key \notin DOMAIN Interpolated THEN {key}
  ELSE {Interpolated[key].at[s] : s \in ScalarAsString(bag, Interpolated[key].inner)}

Resolved(bag, key) == UNION {Get(bag, k) : k \in ResolveKey(bag, key)}
-----------------------------------------------------------------------------
\* Parsing.  A parse is a failure or what was read and the position after it.
Fail == [ok |-> FALSE]

Read(expr, pos) == [ok |-> TRUE, expr |-> expr, pos |-> pos]

Peek(toks, p) == IF p <= Len(toks) THEN toks[p] ELSE "end of input"

Condition(c) == [op |-> "Condition", cond |-> c]

ParseExists(toks, p) ==
  IF /\ Peek(toks, p + 1) = "("
     /\ Peek(toks, p + 2) \in Idents
     /\ Peek(toks, p + 3) = ")"
  THEN Read(Condition([is |-> "Exists", key |-> toks[p + 2]]), p + 4)
  ELSE Fail

FinishInSet(toks, p, key, negate) ==
  IF Peek(toks, p) \in Idents
  THEN Read(Condition([is |-> "InSet", key |-> key, set |-> toks[p], negate |-> negate]), p + 1)
  ELSE Fail

ParseIdentifierPredicate(toks, p) ==
  LET key == toks[p]
      next == Peek(toks, p + 1)
  IN CASE next = "in" -> FinishInSet(toks, p + 2, key, FALSE)
       [] next = "not" /\ Peek(toks, p + 2) = "in" -> FinishInSet(toks, p + 3, key, TRUE)
       [] next \in CompareOps ->
            IF Peek(toks, p + 2) \in DOMAIN Literals
            THEN Read(Condition([is |-> "Comparison", key |-> key, cmp |-> next,
                                 value |-> Literals[toks[p + 2]]]), p + 3)
            ELSE Fail
       [] OTHER -> Read(Condition([is |-> "IsTrue", key |-> key]), p + 1)

RECURSIVE ParseOperands(_, _, _)
RECURSIVE ParseUnary(_, _)

\* A list with one part is that part.
Joined(op, parts) ==
  CASE ~parts.ok -> Fail
    [] parts.ok /\ Len(parts.expr) = 1 -> Read(parts.expr[1], parts.pos)
    [] OTHER -> Read([op |-> op, parts |-> parts.expr], parts.pos)

ParseAnd(toks, p) == Joined("And", ParseOperands("&", toks, p))

ParseOr(toks, p) == Joined("Or", ParseOperands("|", toks, p))

Prepended(first, rest) == IF rest.ok THEN Read(<<first.expr>> \o rest.expr, rest.pos) ELSE Fail

\* The operands that follow the first one.
ParseRest(sep, toks, first) ==
  CASE ~first.ok -> Fail
    [] first.ok /\ Peek(toks, first.pos) # sep -> Read(<<first.expr>>, first.pos)
    [] OTHER -> Prepended(first, ParseOperands(sep, toks, first.pos + 1))

\* The operands that sep joins, from position p on.
ParseOperands(sep, toks, p) ==
  ParseRest(sep, toks, IF sep = "|" THEN ParseAnd(toks, p) ELSE ParseUnary(toks, p))

Closed(toks, inner) ==
  IF inner.ok /\ Peek(toks, inner.pos) = ")" THEN Read(inner.expr, inner.pos + 1) ELSE Fail

ParseParens(toks, p) == Closed(toks, ParseOr(toks, p + 1))

ParseAtom(toks, p) ==
  CASE Peek(toks, p) = "(" -> ParseParens(toks, p)
    [] Peek(toks, p) = "exists" -> ParseExists(toks, p)
    [] Peek(toks, p) \in Idents -> ParseIdentifierPredicate(toks, p)
    [] OTHER -> Fail

Negated(inner) == IF inner.ok THEN Read([op |-> "Not", inner |-> inner.expr], inner.pos) ELSE Fail

ParseUnary(toks, p) ==
  IF Peek(toks, p) # "!" THEN ParseAtom(toks, p) ELSE Negated(ParseUnary(toks, p + 1))

\* Nothing may follow an expression.
ToTheEnd(toks, parse) == IF parse.ok /\ parse.pos = Len(toks) + 1 THEN parse ELSE Fail

\* Fault: `|` binds as tightly as `&`, both being read left to right.
ParsePredicateFlat(toks) ==
  ToTheEnd(toks, ParseOr([i \in DOMAIN toks |-> IF toks[i] = "|" THEN "&" ELSE toks[i]], 1))

ParsePredicate(toks) == ToTheEnd(toks, ParseOr(toks, 1))
-----------------------------------------------------------------------------
\* require(a, b, ..) or require(a | b | ..), as the condition of its deny.
RequiredKeys(toks) == {toks[i] : i \in {j \in 3..(Len(toks) - 1) : j % 2 = 1}}

RequireSeparators(toks) == {toks[i] : i \in {j \in 3..(Len(toks) - 1) : j % 2 = 0}}

IsFalseOf(toks) ==
  [k \in 1..((Len(toks) - 2) \div 2) |-> Condition([is |-> "IsFalse", key |-> toks[2 * k + 1]])]

RequireShape(toks) ==
  /\ Len(toks) >= 4 /\ Len(toks) % 2 = 0
  /\ toks[1] = "require" /\ toks[2] = "(" /\ Last(toks) = ")"
  /\ RequiredKeys(toks) \subseteq Idents
  /\ RequireSeparators(toks) \in {{}, {","}, {"|"}}

ParseRequireRule(toks) ==
  CASE ~RequireShape(toks) -> Fail
    [] RequireShape(toks) /\ Len(toks) = 4 -> Read(IsFalseOf(toks)[1], Len(toks) + 1)
    [] OTHER -> Read([op |-> IF RequireSeparators(toks) = {"|"} THEN "And" ELSE "Or",
                      parts |-> IsFalseOf(toks)], Len(toks) + 1)
-----------------------------------------------------------------------------
\* Evaluation.  Integers and floats are numbers; a float may be fractional, and
\* numbers are counted in halves.
CoerceF64(value) ==
  CASE value[1] \in {"Int", "Float"} -> {value[2]}
    [] value[1] = "String" /\ value[2] \in DOMAIN NumberOf -> {NumberOf[value[2]]}
    [] OTHER -> {}

ValuesEq(attr, lit) ==
  /\ \/ attr[1] = lit[1] /\ attr[1] # "StringSet"
     \/ {attr[1], lit[1]} = {"Int", "Float"}
  /\ attr[2] = lit[2]

NumericCompare(attr, lit, op) ==
  \E a \in CoerceF64(attr), b \in CoerceF64(lit) :
    CASE op = ">" -> a > b
      [] op = ">=" -> a >= b
      [] op = "<" -> a < b
      [] op = "<=" -> a <= b

EvalComparison(attr, op, lit) ==
  CASE op = "contains" -> attr[1] = "StringSet" /\ lit[1] = "String" /\ lit[2] \in attr[2]
    [] op = "==" -> ValuesEq(attr, lit)
    [] op = "!=" -> ~ValuesEq(attr, lit)
    [] OTHER -> NumericCompare(attr, lit, op)

IsTruthy(bag, key) == <<"Bool", TRUE>> \in {v \in Resolved(bag, key) : v[1] = "Bool"}

InSet(bag, c) ==
  \E v \in ResolveKey(bag, c.key), s \in ResolveKey(bag, c.set) :
    \E x \in GetTyped(bag, v, "String"), set \in GetTyped(bag, s, "StringSet") : x \in set

EvalCondition(c, bag) ==
  CASE c.is = "IsTrue" -> IsTruthy(bag, c.key)
    [] c.is = "IsFalse" -> ~IsTruthy(bag, c.key)
    [] c.is = "Exists" -> Resolved(bag, c.key) # {}
    [] c.is = "Comparison" -> \E v \in Resolved(bag, c.key) : EvalComparison(v, c.cmp, c.value)
    [] c.is = "InSet" -> InSet(bag, c) # c.negate

RECURSIVE EvalExpression(_, _)

EvalExpression(e, bag) ==
  CASE e.op = "Condition" -> EvalCondition(e.cond, bag)
    [] e.op = "And" -> \A i \in DOMAIN e.parts : EvalExpression(e.parts[i], bag)
    [] e.op = "Or" -> \E i \in DOMAIN e.parts : EvalExpression(e.parts[i], bag)
    [] e.op = "Not" -> ~EvalExpression(e.inner, bag)
    [] e.op = "Always" -> TRUE
-----------------------------------------------------------------------------
(***************************************************************************)
(* What a predicate means, from the grammar of the language rather than    *)
(* from the parser: the truth values a token string has in a bag, one for  *)
(* each of its derivations and none when it is not a predicate.            *)
(*                                                                         *)
(*   or    ::= and | and "|" or           and ::= unary | unary "&" and    *)
(*   unary ::= atom | "!" unary           atom ::= "(" or ")" | condition  *)
(***************************************************************************)
RECURSIVE OrValues(_, _)

RECURSIVE AndValues(_, _)

RECURSIVE UnaryValues(_, _)

Left(t, i) == SubSeq(t, 1, i - 1)

Right(t, i) == SubSeq(t, i + 1, Len(t))

ConditionValues(t, bag) ==
  CASE Len(t) = 1 /\ t[1] \in Idents -> {IsTruthy(bag, t[1])}
    [] Len(t) = 4 /\ t[1] = "exists" /\ t[2] = "(" /\ t[3] \in Idents /\ t[4] = ")" ->
         {Resolved(bag, t[3]) # {}}
    [] Len(t) = 3 /\ t[1] \in Idents /\ t[2] \in CompareOps /\ t[3] \in DOMAIN Literals ->
         {\E v \in Resolved(bag, t[1]) : EvalComparison(v, t[2], Literals[t[3]])}
    [] Len(t) = 3 /\ t[1] \in Idents /\ t[2] = "in" /\ t[3] \in Idents ->
         {InSet(bag, [key |-> t[1], set |-> t[3]])}
    [] Len(t) = 4 /\ t[1] \in Idents /\ t[2] = "not" /\ t[3] = "in" /\ t[4] \in Idents ->
         {~InSet(bag, [key |-> t[1], set |-> t[4]])}
    [] OTHER -> {}

UnaryValues(t, bag) ==
  CASE Len(t) = 0 -> {}
    [] Len(t) > 0 /\ t[1] = "!" -> {~v : v \in UnaryValues(Tail(t), bag)}
    [] Len(t) > 0 /\ t[1] = "(" /\ Last(t) = ")" -> OrValues(Right(Front(t), 1), bag)
    [] OTHER -> ConditionValues(t, bag)

AndValues(t, bag) ==
  UnaryValues(t, bag) \cup
  UNION {{x /\ y : x \in UnaryValues(Left(t, i), bag), y \in AndValues(Right(t, i), bag)} :
           i \in {j \in DOMAIN t : t[j] = "&"}}

OrValues(t, bag) ==
  AndValues(t, bag) \cup
  UNION {{x \/ y : x \in AndValues(Left(t, i), bag), y \in OrValues(Right(t, i), bag)} :
           i \in {j \in DOMAIN t : t[j] = "|"}}
=============================================================================
