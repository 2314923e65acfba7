---------------------------- MODULE PermTablesMC ----------------------------
(* A bucket and a record beneath it, one user besides the two of the system. *)
EXTENDS PermTables, TLC

CONSTANTS ann, group, bucket, record, buckets, records, write

RecordBeneath == bucket :> {record} @@ record :> {}
MCNode == bucket :> buckets @@ record :> records
=============================================================================
