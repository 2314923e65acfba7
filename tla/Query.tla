-------------------------------- MODULE Query --------------------------------
(***************************************************************************)
(* Filters and sorting, as the in-memory storage backend evaluates them    *)
(* (memory/storage/filters.go) and as the SQL means that the PostgreSQL    *)
(* backend writes for them (postgres/storage/query.go).                    *)
(*                                                                         *)
(* A value is one of an object's field or of a query parameter, as gjson   *)
(* types it: a missing field and an empty parameter are null.  n orders    *)
(* the values of one type and identifies them.  Fields are taken from the  *)
(* JSON of an object, not its ID or its epoch, for which SQL converts the  *)
(* parameter to the column's type.                                         *)
(*                                                                         *)
(* The operators that match parts of values are left out: like, which only *)
(* in PostgreSQL ignores case and anchors what has an asterisk, contains   *)
(* and contains_any, which only PostgreSQL supports.                       *)
(***************************************************************************)
EXTENDS Integers, Sequences

CONSTANTS
  Values,    \* the values of fields and query parameters
  MaxValues  \* bound: the values of one parameter

Types == {"string", "number", "false", "true", "null"}
Value == [type : Types, n : Int]

Null      == [type |-> "null", n |-> 0]
Number(n) == [type |-> "number", n |-> n]

\* the values modelled: arrays, objects and a stored null are left out, which
\* jsonb orders otherwise than the backend in memory
Scalar == {v \in Value : v.type \in {"false", "true", "null"} => v.n = 0}

Operators == {"lt", "min", "max", "not", "eq", "gt", "in", "exclude", "has"}

ASSUME ValuesAssumption == Values \subseteq Scalar /\ MaxValues \in Nat

\* Every filter has a value, only in and exclude have several, has a Boolean one.
Filter == {f \in [op : Operators, values : UNION {[1..n -> Values] : n \in 1..MaxValues}] :
             /\ f.op \notin {"in", "exclude"} => Len(f.values) = 1
             /\ f.op = "has" => f.values[1].type \in {"false", "true"}}

Given(f) == {f.values[i] : i \in DOMAIN f.values}

-----------------------------------------------------------------------------
(* In memory. *)

Rank == [string |-> 1, number |-> 2, false |-> 3, true |-> 4, null |-> 5]

\* negative, zero or positive
Compare(v, w) == IF v.type # w.type THEN Rank[v.type] - Rank[w.type] ELSE v.n - w.n

Before(v, w) == Compare(v, w) < 0

\* match
Match(v, f) ==
  LET w == f.values[1]
  IN  \/ f.op = "gt" /\ Compare(v, w) > 0
      \/ f.op = "min" /\ Compare(v, w) > -1
      \/ f.op = "lt" /\ Compare(v, w) < 0
      \/ f.op = "max" /\ Compare(v, w) < 1
      \/ f.op = "eq" /\ v = w
      \/ f.op = "not" /\ v # w
      \/ f.op = "in" /\ v \in Given(f)
      \/ f.op = "exclude" /\ v \notin Given(f)
      \/ f.op = "has" /\ (w.type = "true" <=> v # Null)

-----------------------------------------------------------------------------
(* In SQL: a condition is true, false or unknown, and selects if it is true. *)

IsNull(v) == IF v = Null THEN "true" ELSE "false"
Not(x)    == IF x = "true" THEN "false" ELSE IF x = "false" THEN "true" ELSE "unknown"
And(x, y) == IF "false" \in {x, y} THEN "false" ELSE IF "unknown" \in {x, y} THEN "unknown" ELSE "true"
Or(x, y)  == Not(And(Not(x), Not(y)))

\* a comparison of a jsonb column, unknown for a missing one
Compared(v, holds) == IF v = Null THEN "unknown" ELSE IF holds THEN "true" ELSE "false"

\* the order of jsonb scalars
JsonbRank == [null |-> 0, string |-> 1, number |-> 2, false |-> 3, true |-> 3]
JsonbBelow(v, w) ==
  \/ JsonbRank[v.type] < JsonbRank[w.type]
  \/ v.type = w.type /\ v.n < w.n
  \/ v.type = "false" /\ w.type = "true"

\* Mutant of Comparison: missing fields are left to SQL.
ComparisonOnly(v, holds, required) == Compared(v, holds)

\* filterComparison
Comparison(v, holds, required) ==
  IF required THEN And(Compared(v, holds), Not(IsNull(v))) ELSE Or(Compared(v, holds), IsNull(v))

\* queryBuilder.filter
SqlFilter(v, f) ==
  LET w      == f.values[1]
      isNull == Null \in Given(f)
      Equal(x) == x # Null /\ v = x   \* nothing stored is the JSON null
  IN  CASE f.op = "has" -> IF w.type = "true" THEN Not(IsNull(v)) ELSE IsNull(v)
        [] f.op = "eq"  -> IF isNull THEN IsNull(v) ELSE Comparison(v, Equal(w), TRUE)
        [] f.op = "not" -> IF isNull THEN Not(IsNull(v)) ELSE Comparison(v, ~Equal(w), FALSE)
        [] f.op = "gt"  -> IF isNull THEN "false" ELSE Comparison(v, JsonbBelow(w, v), FALSE)
        [] f.op = "lt"  -> IF isNull THEN Not(IsNull(v)) ELSE Comparison(v, JsonbBelow(v, w), TRUE)
        [] f.op = "min" -> IF isNull THEN IsNull(v) ELSE Comparison(v, ~JsonbBelow(v, w), FALSE)
        [] f.op = "max" -> IF isNull THEN "true" ELSE Comparison(v, ~JsonbBelow(w, v), TRUE)
        [] f.op = "in"  -> Comparison(v, \E x \in Given(f) : Equal(x), ~isNull)
        [] f.op = "exclude" -> Comparison(v, \A x \in Given(f) : ~Equal(x), isNull)

\* ORDER BY of one field: what is missing is last, or first if descending
SqlBefore(v, w) == v # Null /\ (w = Null \/ JsonbBelow(v, w))

-----------------------------------------------------------------------------

\* the values that some filter selects in one backend only
SelectedApart ==
  {p[1] : p \in {q \in Values \X Filter : ~(Match(q[1], q[2]) <=> SqlFilter(q[1], q[2]) = "true")}}

\* both backends sort them alike
SortedAlike(v, w) == Before(v, w) <=> SqlBefore(v, w)
=============================================================================
