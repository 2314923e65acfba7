----------------------------- MODULE PgCacheMC ------------------------------
(* Small instances of PgCache, hence of MemCache. *)
EXTENDS PgCache

CONSTANTS k1, k2, v1
=============================================================================
