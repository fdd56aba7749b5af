------------------------------- MODULE Query -------------------------------
(***************************************************************************)
(* The query language: predicates, how the parser builds them, and the SQL *)
(* that the PostgreSQL stores build from them, with what PostgreSQL makes  *)
(* of it.                                                                  *)
(*                                                                         *)
(* A value is <<"str", text>>, <<"num", n>>, <<"bool", b>>, <<"nil">>,     *)
(* <<"list", values>>, or, with values by name, <<"map", f>> and           *)
(* <<"struct", f>>.  A predicate is an atom with a field (its names), an   *)
(* operator and a value; a compound with AND or OR; or the one that        *)
(* matches everything.                                                     *)
(***************************************************************************)
EXTENDS Integers, SequencesExt

Kind(v) == v[1]

Atom(field, op, value) == [kind |-> "atom", field |-> field, op |-> op, value |-> value]
Eq(field, value) == Atom(field, "=", value)
And(preds) == [kind |-> "compound", op |-> "AND", preds |-> preds]
MatchAll == [kind |-> "all"]

\* toString, which is also the text that a parameter is sent to the database as.
toString(v) ==
  CASE Kind(v) = "str"  -> v[2]
    [] Kind(v) = "num"  -> ToString(v[2])
    [] Kind(v) = "bool" -> IF v[2] THEN "true" ELSE "false"
    [] OTHER            -> "<nil>"

-----------------------------------------------------------------------------
\* The parser.  The grammar's input is a list of atoms with a connective between each
\* two, or TRUE; parentheses go around all of it or nothing.

ExitAtomicPredicate(a) ==
  CASE a.form = "null" -> Atom(a.field, IF a.not THEN "IS NOT NULL" ELSE "IS NULL", <<"nil">>)
    [] a.form = "in"   -> Atom(a.field, IF a.not THEN "NOT IN" ELSE "IN", a.value)
    [] a.form = "cmp"  -> Atom(a.field, a.op, a.value)

\* One AND among the connectives makes all of them AND.
ExitCompoundPredicate(preds, connectives) ==
  IF Len(preds) = 1 THEN preds[1]
  ELSE [kind |-> "compound", op |-> IF "AND" \in ToSet(connectives) THEN "AND" ELSE "OR",
        preds |-> preds]

ParsePredicate(src) ==
  IF src.atoms = <<>> THEN MatchAll
  ELSE ExitCompoundPredicate([i \in DOMAIN src.atoms |-> ExitAtomicPredicate(src.atoms[i])],
                             src.connectives)

-----------------------------------------------------------------------------
\* The SQL of a predicate.  A table t has columns, JSON columns of some type, and
\* other names for columns.  A condition is "true"; "test", an operand with an operator
\* and parameters; "exists", a test of some element of a JSON array; "join", conditions
\* in parentheses with AND or OR between; or what the database rejects.

Column(t, name) == IF name \in DOMAIN t.mappings THEN t.mappings[name] ELSE name

\* The operand: the column, or the element of an array, and the path from it, read as
\* JSON, as text, as a number, or as the column's own type.
Test(column, path, as, op, params) ==
  [sql |-> "test", column |-> column, path |-> path, as |-> as, op |-> op, params |-> params]
Exists(column, test) == [sql |-> "exists", column |-> column, test |-> test]
Invalid == [sql |-> "invalid"]

Params(p) == IF p.op \in {"IN", "NOT IN"} THEN p.value[2] ELSE <<p.value>>

buildStandardPredicateSQL(t, p) ==
  IF Len(p.field) > 1 THEN Invalid ELSE Test(Column(t, p.field[1]), <<>>, "column", p.op, Params(p))

\* IS NULL, IS NOT NULL: of a root, a path, or any element's path.
buildJSONBIsNull(col, path, type, p) ==
  IF path = <<>> \/ type = "scalar" THEN Test(col, path, "json", p.op, <<>>)
  ELSE Exists(col, Test("elem", path, "text", p.op, <<>>))

buildJSONBArraySearch(col, path, op, p, type) ==
  IF path = <<>> /\ type = "arrayOfScalars"
  THEN Exists(col, Test("elem", <<>>, "json", "=", Params(p)))
  ELSE Exists(col, Test("elem", path, "text", op, Params(p)))

buildJSONBEqual(col, path, type, p) ==
  CASE type = "mapOfArrays" /\ path # <<>> -> Test(col, path, "json", "@> array", Params(p))
    [] type = "scalar" -> Test(col, path, IF path = <<>> THEN "json" ELSE "text", "=", Params(p))
    [] OTHER -> buildJSONBArraySearch(col, path, "=", p, type)

\* Mutant: elements are compared for equality.
buildJSONBNotEqual_Equal(col, path, type, p) ==
  IF type = "scalar" THEN Test(col, path, IF path = <<>> THEN "json" ELSE "text", "!=", Params(p))
  ELSE buildJSONBArraySearch(col, path, "=", p, type)

buildJSONBNotEqual(col, path, type, p) ==
  IF type = "scalar" THEN Test(col, path, IF path = <<>> THEN "json" ELSE "text", "!=", Params(p))
  ELSE buildJSONBArraySearch(col, path, "!=", p, type)

buildJSONBComparison(col, path, type, p) ==
  IF type = "scalar" THEN Test(col, path, "number", p.op, Params(p))
  ELSE Exists(col, Test("elem", path, "number", p.op, Params(p)))

\* An element without a path is its JSON text, in which a text is quoted.
buildJSONBIn(col, path, type, p) ==
  CASE type = "scalar" -> Test(col, path, IF path = <<>> THEN "json" ELSE "text", "IN", Params(p))
    [] OTHER -> Exists(col, Test("elem", path, IF path = <<>> THEN "quoted" ELSE "text", "IN", Params(p)))

buildJSONBNotIn(col, path, type, p) ==
  CASE type = "scalar" -> Test(col, path, IF path = <<>> THEN "json" ELSE "text", "NOT IN", Params(p))
    [] OTHER -> Exists(col, Test("elem", path, IF path = <<>> THEN "quoted" ELSE "text", "NOT IN", Params(p)))

buildJSONBContains(col, path, type, p) ==
  Test(col, IF type = "scalar" THEN path ELSE <<>>, "json", "@>", Params(p))

buildJSONBCondition(col, path, type, p) ==
  CASE p.op \in {"IS NULL", "IS NOT NULL"} -> buildJSONBIsNull(col, path, type, p)
    [] p.op = "=" -> buildJSONBEqual(col, path, type, p)
    [] p.op = "!=" -> buildJSONBNotEqual(col, path, type, p)
    [] p.op = "IN" -> buildJSONBIn(col, path, type, p)
    [] p.op = "NOT IN" -> buildJSONBNotIn(col, path, type, p)
    [] p.op \in {"<", "<=", ">", ">="} -> buildJSONBComparison(col, path, type, p)
    [] p.op = "CONTAINS" -> buildJSONBContains(col, path, type, p)
    [] OTHER -> Invalid

buildSimplePredicateSQL(t, p) ==
  LET root == Head(p.field)
  IN  IF root \in DOMAIN t.types
      THEN buildJSONBCondition(Column(t, root), Tail(p.field), t.types[root], p)
      ELSE buildStandardPredicateSQL(t, p)

\* A predicate that is no compound is built as a compound of itself, one that matches
\* all as an empty compound: both give the condition that the predicate has alone.
Preds(p) ==
  CASE p.kind = "compound" -> p.preds
    [] p.kind = "atom"     -> <<p>>
    [] OTHER               -> <<>>

\* parts: the conditions that its predicates are built into.
buildCompoundPredicateSQL(p, parts) ==
  CASE Preds(p) = <<>>    -> [sql |-> "true"]
    [] Len(Preds(p)) = 1  -> parts[1]
    [] OTHER              -> [sql |-> "join", op |-> p.op, parts |-> parts]

\* A compound's parts are atoms; in the one that restricts a query to the caller's rows,
\* also compounds.  No compound is nested deeper.
buildPart(t, p) ==
  buildCompoundPredicateSQL(p, [i \in DOMAIN Preds(p) |-> buildSimplePredicateSQL(t, Preds(p)[i])])

buildSQL(t, p) ==
  buildCompoundPredicateSQL(p, [i \in DOMAIN Preds(p) |-> buildPart(t, Preds(p)[i])])

-----------------------------------------------------------------------------
\* What PostgreSQL makes of a condition on a row: "T", "F", "N" (unknown), or "E", an
\* error of the statement.

ThreeValued(b) == IF b THEN "T" ELSE "F"

\* The value at a path of a JSON value; SQL's NULL is <<"nil">>.
AtPath(v, path) ==
  LET at[i \in 0 .. Len(path)] ==
        IF i = 0 THEN v
        ELSE LET w == at[i - 1]
             IN  IF Kind(w) \in {"map", "struct"} /\ path[i] \in DOMAIN w[2] THEN w[2][path[i]]
                 ELSE <<"nil">>
  IN  IF path = <<>> THEN v ELSE at[Len(path)]

\* A text is no JSON; parameters of array tests are turned into JSON texts.
TestJSON(v, test, base) ==
  LET w == test.params[1]
  IN  CASE test.op = "@> array" -> 
               ThreeValued(Kind(v) = "list" /\ <<"str", toString(w)>> \in ToSet(v[2]))
        [] base = "elem" /\ test.op = "=" -> ThreeValued(v = <<"str", toString(w)>>)
        [] Kind(w) = "str" -> "E"
        [] test.op = "@>"  -> ThreeValued(v = w \/ (Kind(v) = "list" /\ \E i \in DOMAIN v[2] : v[2][i] = w))
        [] test.op = "="   -> ThreeValued(v = w)
        [] test.op = "!="  -> ThreeValued(v # w)
        [] OTHER -> "E"

TestNumber(v, op, w) ==
  IF Kind(v) # "num" \/ Kind(w) # "num" THEN "E"
  ELSE ThreeValued(CASE op = "<"  -> v[2] < w[2]
                     [] op = "<=" -> v[2] <= w[2]
                     [] op = ">"  -> v[2] > w[2]
                     [] op = ">=" -> v[2] >= w[2])

TestText(text, op, params) ==
  LET listed == \E i \in DOMAIN params : toString(params[i]) = text
  IN  CASE op = "="  -> ThreeValued(listed)
        [] op = "!=" -> ThreeValued(~listed)
        [] op = "IN"     /\ params # <<>> -> ThreeValued(listed)
        [] op = "NOT IN" /\ params # <<>> -> ThreeValued(~listed)
        [] op = "LIKE" -> ThreeValued(listed)  \* patterns without wildcards
        [] OTHER -> "E"

EvalTest(base, test) ==
  LET v == AtPath(base, test.path)
  IN  CASE test.op = "IS NULL"     -> ThreeValued(Kind(v) = "nil")
        [] test.op = "IS NOT NULL" -> ThreeValued(Kind(v) # "nil")
        [] Kind(v) = "nil"         -> "N"
        [] test.as = "json"        -> TestJSON(v, test, test.column)
        [] test.as = "number"      -> TestNumber(v, test.op, test.params[1])
        [] test.as = "quoted" /\ Kind(v) = "str" ->
             TestText("\"" \o v[2] \o "\"", test.op, test.params)
        [] test.as = "column" /\ test.op \in {"<", "<=", ">", ">="} ->
             TestNumber(v, test.op, test.params[1])
        [] OTHER -> TestText(toString(v), test.op, test.params)

EvalTerm(c, row) ==
  CASE c.sql = "true" -> "T"
    [] c.sql = "invalid" -> "E"
    [] c.sql = "test" ->
         IF c.column \in DOMAIN row THEN EvalTest(row[c.column], c) ELSE "E"
    [] c.sql = "exists" ->
         IF c.column \notin DOMAIN row \/ Kind(row[c.column]) # "list" THEN "E"
         ELSE LET vs == {EvalTest(row[c.column][2][i], c.test) : i \in DOMAIN row[c.column][2]}
              IN  IF "E" \in vs THEN "E" ELSE ThreeValued("T" \in vs)

\* AND and OR of the values of a join's parts.
EvalJoin(op, vs) ==
  LET absorbing == IF op = "AND" THEN "F" ELSE "T"
      neutral == IF op = "AND" THEN "T" ELSE "F"
  IN  CASE "E" \in vs -> "E"
        [] absorbing \in vs -> absorbing
        [] "N" \in vs -> "N"
        [] OTHER -> neutral

\* A condition that is no join is the join of itself, whose value is its own.
Parts(c) == IF c.sql = "join" THEN ToSet(c.parts) ELSE {c}
JoinOp(c) == IF c.sql = "join" THEN c.op ELSE "AND"

EvalPart(c, row) == EvalJoin(JoinOp(c), {EvalTerm(x, row) : x \in Parts(c)})
Eval(c, row) == EvalJoin(JoinOp(c), {EvalPart(x, row) : x \in Parts(c)})
=============================================================================
