------------------------------ MODULE PagingMC ------------------------------
(* Small instances of Paging. *)
EXTENDS Paging, TLC

CONSTANTS a, b, c

Ascending(f)  == [field |-> f, descending |-> FALSE]
Descending(f) == [field |-> f, descending |-> TRUE]

\* two numbers, a value of another type and a missing field
Mixed == {Number(1), Number(2), [type |-> "false", n |-> 0], Null}
OnlyNull == {Null}

\* every type of scalar, two values of those that have several
AnyScalar == Mixed \cup [type: {"string"}, n: {1, 2}] \cup [type: {"false", "true"}, n: {0}]

\* by last change, and by a field that objects may share or lack
OldestOrNum == {<<Ascending("last_modified")>>, <<Ascending("num")>>}

\* the latest first, what the Kinto clients ask for
LatestFirst == {<<Descending("last_modified")>>}

Symmetry == Permutations(Ids)
=============================================================================
