------------------------------ MODULE TtlCache ------------------------------
(***************************************************************************)
(* What a cache backend promises its callers (the Transaction interface of *)
(* pkg/conn/cache): a map whose entries disappear the moment they expire,  *)
(* changed by one transaction at a time that commits or leaves no trace.   *)
(* Only Flush, which empties the map, makes a difference: a transaction    *)
(* that flushed may be rolled back to what was there before the flush      *)
(* instead of what was there before the transaction.                       *)
(***************************************************************************)
EXTENDS Naturals

CONSTANTS Keys, Items, NoItem, Alive(_, _)   \* Alive(item, time)

VARIABLES
  now, committed, working, open,
  fallback, \* what a rollback may restore besides committed
  granted   \* the keys the transaction has deleted successfully

vars == <<now, committed, working, open, fallback, granted>>

\* the entries of a map that are left at a time
Left(map, t) == [k \in Keys |-> IF map[k] # NoItem /\ Alive(map[k], t) THEN map[k] ELSE NoItem]

Init ==
  /\ now \in Nat
  /\ committed = [k \in Keys |-> NoItem]
  /\ working = committed
  /\ fallback = committed
  /\ open = FALSE
  /\ granted = {}

\* time passes for every copy
Tick ==
  /\ now' \in Nat /\ now' > now
  /\ committed' = Left(committed, now')
  /\ working' = Left(working, now')
  /\ fallback' = Left(fallback, now')
  /\ UNCHANGED <<open, granted>>

Begin ==
  /\ ~open /\ open' = TRUE
  /\ UNCHANGED <<now, committed, working, fallback, granted>>

Set(k, item) ==
  /\ open
  /\ working' = Left([working EXCEPT ![k] = item], now)
  /\ UNCHANGED <<now, committed, open, fallback, granted>>

\* a successful Del, which only an entry that is there grants
Del(k) ==
  /\ open /\ working[k] # NoItem
  /\ working' = [working EXCEPT ![k] = NoItem]
  /\ granted' = granted \cup {k}
  /\ UNCHANGED <<now, committed, open, fallback>>

Flush ==
  /\ open
  /\ working' = [k \in Keys |-> NoItem]
  /\ fallback' \in {fallback, working}
  /\ UNCHANGED <<now, committed, open, granted>>

\* the end of a transaction: nothing but its result is left
End ==
  /\ open /\ open' = FALSE
  /\ committed' = working' /\ fallback' = working' /\ granted' = {}
  /\ UNCHANGED now

Commit   == End /\ UNCHANGED working
Rollback == End /\ working' \in {committed, fallback}

Next ==
  \/ Tick \/ Begin \/ Flush \/ Commit \/ Rollback
  \/ \E k \in Keys : Del(k) \/ \E item \in Items : Set(k, item)

Spec == Init /\ [][Next]_vars
=============================================================================
