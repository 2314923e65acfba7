------------------------------ MODULE TxStore -------------------------------
(***************************************************************************)
(* What a storage backend promises its callers (the Transaction interface, *)
(* pkg/conn/storage): one transaction at a time sees and changes a working *)
(* copy; Commit makes the copy the content, Rollback drops it.  Flush      *)
(* empties the copy and may make what it held what Rollback returns to.    *)
(***************************************************************************)
CONSTANT Snapshots   \* everything the backend may hold

VARIABLES committed, working, open

vars == <<committed, working, open>>

Init ==
  /\ committed \in Snapshots
  /\ working = committed
  /\ open = FALSE

Begin ==
  /\ ~open /\ open' = TRUE
  /\ UNCHANGED <<committed, working>>

Change ==
  /\ open /\ UNCHANGED <<open, committed>>
  /\ working' \in Snapshots

Flush ==
  /\ open /\ UNCHANGED open
  /\ committed' \in {committed, working}
  /\ working' \in Snapshots

Commit ==
  /\ open /\ open' = FALSE
  /\ committed' = working
  /\ UNCHANGED working

Rollback ==
  /\ open /\ open' = FALSE
  /\ working' = committed
  /\ UNCHANGED committed

Next == Begin \/ Change \/ Flush \/ Commit \/ Rollback

Spec == Init /\ [][Next]_vars
=============================================================================
