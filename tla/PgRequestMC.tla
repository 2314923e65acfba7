---------------------------- MODULE PgRequestMC ----------------------------
(* A collection with a record, three requests of two users. *)
EXTENDS PgRequest, TLC

CONSTANTS r1, r2, r3, ann, bob, bucket, coll, rec

MCUserOf  == r1 :> ann @@ r2 :> ann @@ r3 :> bob
MCParent  == coll :> bucket @@ rec :> coll
MCBeneath == coll :> {rec} @@ rec :> {}
MCJobs ==
  [op : {"put"}, paths : {{rec}}, grants : BOOLEAN]
  \cup [op : {"delete"}, paths : {{coll}, {rec}}, grants : {FALSE}]
  \cup [op : {"bulk"}, paths : {{rec}}, grants : {FALSE}]
=============================================================================
