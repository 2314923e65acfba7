----------------------------- MODULE PgStoreMC -----------------------------
(* Two objects of a namespace, and one nested beneath the first. *)
EXTENDS PgStore, TLC

CONSTANTS a, b, r, top, nested

MCSpaceOf == a :> top @@ b :> top @@ r :> nested
MCBeneath == a :> {r} @@ b :> {} @@ r :> {}
MCMaxTime == top :> 3 @@ nested :> 2
Symmetry  == Permutations(Txns)
=============================================================================
