------------------------------- MODULE Stores -------------------------------
(***************************************************************************)
(* How the in-memory stores match predicates, next to the SQL stores of    *)
(* Api: which rows a query selects must not depend on the store.           *)
(***************************************************************************)
EXTENDS Api

CONSTANTS
  Before  \* texts <<a, b>> of which a sorts before b

Missing == <<"missing">>

\* GetFieldValue: the values of all elements of a list; a map's values are not looked
\* into.
RECURSIVE GetFieldValue(_, _)
GetFieldValue(val, parts) ==
  IF parts = <<>> THEN val
  ELSE IF Kind(val) \notin {"map", "struct"} THEN Missing
  ELSE IF Head(parts) \notin DOMAIN val[2] THEN Missing
  ELSE LET v == val[2][Head(parts)]
           rest == Tail(parts)
           found == SelectSeq([i \in DOMAIN v[2] |-> GetFieldValue(v[2][i], rest)],
                              LAMBDA x : Kind(x) \notin {"missing", "nil"})
       IN  CASE Kind(val) = "map" -> IF rest = <<>> THEN v ELSE Missing
             [] Kind(val) = "struct" /\ rest # <<>> /\ Kind(v) = "list" ->
                  IF found = <<>> THEN Missing ELSE <<"list", found>>
             [] OTHER -> GetFieldValue(v, rest)

compare(a, b) ==
  IF Kind(a) = "num" /\ Kind(b) = "num" THEN a[2] - b[2]
  ELSE CASE <<toString(a), toString(b)>> \in Before -> -1
         [] toString(a) = toString(b)               -> 0
         [] OTHER                                   -> 1

inSlice(v, list) == Kind(list) = "list" /\ \E i \in DOMAIN list[2] : list[2][i] = v

\* Where the characters of text b are those of a from the i-th on.
FoundAt(a, b, i) == i + Len(b) - 1 <= Len(a) /\ SubSeq(a, i, i + Len(b) - 1) = b

compareValueForSingleElement(op, v, w) ==
  CASE op = "="  -> v = w
    [] op = "!=" -> v # w
    [] op = ">"  -> compare(v, w) > 0
    [] op = ">=" -> compare(v, w) >= 0
    [] op = "<"  -> compare(v, w) < 0
    [] op = "<=" -> compare(v, w) <= 0
    [] op = "IN" -> inSlice(v, w)
    [] op = "NOT IN" -> ~inSlice(v, w)
    [] op \in {"LIKE", "CONTAINS"} ->
         \E i \in 1 .. Len(toString(v)) + 1 : FoundAt(toString(v), toString(w), i)
    [] op = "STARTS_WITH" -> FoundAt(toString(v), toString(w), 1)
    [] op = "ENDS_WITH" ->
         /\ Len(toString(w)) <= Len(toString(v))
         /\ FoundAt(toString(v), toString(w), Len(toString(v)) - Len(toString(w)) + 1)
    [] op = "IS NULL" -> Kind(v) = "nil"
    [] op = "IS NOT NULL" -> Kind(v) # "nil"
    [] OTHER -> FALSE

CompareValues(op, v, w) ==
  IF Kind(v) = "list"
  THEN \E i \in DOMAIN v[2] : compareValueForSingleElement(op, v[2][i], w)
  ELSE compareValueForSingleElement(op, v, w)

RECURSIVE Matches(_, _)
Matches(p, entity) ==
  CASE p.kind = "all" -> TRUE
    [] p.kind = "atom" ->
         LET v == GetFieldValue(entity, p.field)
         IN  IF v = Missing THEN p.op = "IS NULL" ELSE CompareValues(p.op, v, p.value)
    [] p.kind = "compound" ->
         \/ p.preds = <<>>
         \/ p.op = "AND" /\ \A i \in DOMAIN p.preds : Matches(p.preds[i], entity)
         \/ p.op = "OR" /\ \E i \in DOMAIN p.preds : Matches(p.preds[i], entity)

-----------------------------------------------------------------------------
\* The predicates on which the stores are meant to agree, for a table t: the operators
\* that the SQL builder supports for the type of the field, with no empty list.  No
\* text is written like a number, and no property is null.
RECURSIVE Portable(_, _)
Portable(t, p) ==
  CASE p.kind = "all" -> TRUE
    [] p.kind = "compound" -> \A i \in DOMAIN p.preds : Portable(t, p.preds[i])
    [] p.kind = "atom" ->
         LET root == Head(p.field)
             type == IF root \in DOMAIN t.types THEN t.types[root] ELSE "column"
             depth == Len(p.field) - 1
             listed == p.op \in {"=", "!="} \/ (p.op \in {"IN", "NOT IN"} /\ p.value[2] # <<>>)
             null == p.op \in {"IS NULL", "IS NOT NULL"}
             ordered == p.op \in {"<", "<=", ">", ">="} /\ Kind(p.value) = "num"
         IN  CASE type = "column"         -> depth = 0 /\ (listed \/ ordered)
               [] type = "scalar"         -> depth = 1 /\ (listed \/ null \/ ordered)
               [] type = "arrayOfObjects" -> depth = 1 /\ (listed \/ ordered \/ p.op = "IS NOT NULL")
               [] type = "arrayOfScalars" -> depth = 0 /\ p.op = "="
               [] type = "mapOfArrays"    -> depth = 1 /\ p.op = "="

-----------------------------------------------------------------------------
\* Properties.

\* The in-memory and the PostgreSQL store select the same rows for a predicate, as the
\* parser builds it and restricted to the caller's rows, if it is one that both support.
StoresAgree ==
  \A q \in DOMAIN trx : At(q, "query", "rows") =>
    LET p == RestrictTo(req[q].by, Predicate(req[q]))
    IN  Portable(Table(req[q].kind), p) =>
          \A r \in Rows(req[q].kind) : Where(q, p, r, "T") <=> Matches(p, <<"struct", Entity(r)>>)
=============================================================================
