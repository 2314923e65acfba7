------------------------------- MODULE CtrlMC -------------------------------
(* A bucket with a group and a collection of two records, one user besides  *)
(* the anonymous one.                                                       *)
EXTENDS Ctrl, TLC

CONSTANTS b, g, c, r, q

MCParent == b :> Root @@ g :> b @@ c :> b @@ r :> c @@ q :> c
MCKind   == b :> "bucket" @@ g :> "group" @@ c :> "collection" @@ r :> "record" @@ q :> "record"
MCSwept  == b :> {g, c, r, q} @@ c :> {r, q} @@ g :> {} @@ r :> {} @@ q :> {}
MCStatic == [perm \in Perms |-> IF perm = "bucket:create" THEN {Authenticated} ELSE {}]
MCMaxTime == [bucket |-> 3, group |-> 3, collection |-> 1, record |-> 2]
MCMembers == {{}, {Everyone}}
\* nothing tells the records apart
MCSymmetry == Permutations({r, q})
MCGrants == [kind \in Kinds |-> IF kind \in {"group", "record"} THEN {} ELSE {"write" :> {g}}]
=============================================================================
