----------------------------- MODULE MemStoreMC -----------------------------
(* Small instances of MemStore. *)
EXTENDS MemStore, TLC

CONSTANTS Buckets, Groups, a, b, x, y

\* "/buckets", and the groups of a bucket whose name begins with any in Ids, as
\* "/buckets/ab/groups" for "a" and "ab"
NestedNamespaces == {Buckets, Groups}
NestedPrefixed == [p \in NestedNamespaces \X Ids |-> IF p[1] = Buckets THEN {Groups} ELSE {}]

\* nothing tells the IDs apart
NestedSymmetry == Permutations(Ids)
=============================================================================
