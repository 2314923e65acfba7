------------------------------ MODULE ReqTxnMC ------------------------------
(* Small instances of ReqTxn. *)
EXTENDS ReqTxn, TLC

CONSTANTS r1, r2

\* all in memory (the default configuration), the cache apart, all databases
MemoryMixedDatabase == {Backends, {"store", "perms"}, {}}

StoreAndPerms == {"store", "perms"}
StoreOnly == {"store"}
=============================================================================
