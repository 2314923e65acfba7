------------------------------- MODULE PgCache -------------------------------
(***************************************************************************)
(* The cache backend in PostgreSQL (internal/conn/postgres/cache), which a *)
(* server may have in place of the one in memory: a table of keys with an  *)
(* expiry, which the statements compare to the clock of the server, and a  *)
(* loop that prunes what has expired in a session of its own, while a      *)
(* transaction is open, too.  (Transactions that overlap, and wait for     *)
(* each other's rows, are in PgRequest.)                                   *)
(***************************************************************************)
EXTENDS MemCache

VARIABLES
  postgres,  \* the server's cache is in PostgreSQL
  rows,      \* cache_keys as the transaction finds it
  saved,     \* cache_keys as committed
  locked,    \* the keys whose rows the transaction has written
  spent      \* history: the keys it has deleted successfully

table == <<rows, saved, locked, spent>>

EitherInit ==
  /\ Init
  /\ postgres \in BOOLEAN
  /\ rows = Empty /\ saved = Empty /\ locked = {} /\ spent = {}

\* what the table leaves alone in the backend in memory
Elsewhere == <<keys, flushed, xkeys, base, granted, postgres>>

-----------------------------------------------------------------------------

\* expires_at > now
Lives(item, t) == item.exp > t

SqlFound(item, t) == IF item # NoItem /\ Lives(item, t) THEN item ELSE NoItem

SqlBegin ==
  /\ ~open /\ open' = TRUE
  /\ UNCHANGED <<now, table, Elsewhere>>

SqlEnd ==
  /\ open /\ open' = FALSE
  /\ locked' = {} /\ spent' = {}
  /\ UNCHANGED <<now, Elsewhere>>

SqlCommit == SqlEnd /\ saved' = rows /\ UNCHANGED rows

\* also when the database fails the transaction
SqlRollback == SqlEnd /\ rows' = saved /\ UNCHANGED saved

\* INSERT ... ON CONFLICT DO UPDATE
SqlSet(k, item) ==
  /\ open
  /\ rows' = [rows EXCEPT ![k] = item]
  /\ locked' = locked \cup {k}
  /\ UNCHANGED <<now, open, saved, spent, Elsewhere>>

\* Mutant of SqlDel: an expired row is found, too.
SqlDelStale(k) ==
  /\ open /\ rows[k] # NoItem
  /\ rows' = [rows EXCEPT ![k] = NoItem]
  /\ locked' = locked \cup {k}
  /\ spent' = spent \cup {k}
  /\ UNCHANGED <<now, open, saved, Elsewhere>>

\* DELETE ... RETURNING key that finds its row; else nothing changes
SqlDel(k) ==
  /\ open /\ SqlFound(rows[k], now) # NoItem
  /\ rows' = [rows EXCEPT ![k] = NoItem]
  /\ locked' = locked \cup {k}
  /\ spent' = spent \cup {k}
  /\ UNCHANGED <<now, open, saved, Elsewhere>>

\* TRUNCATE, which locks the whole table
SqlFlush ==
  /\ open
  /\ rows' = Empty
  /\ locked' = Keys
  /\ UNCHANGED <<now, open, saved, spent, Elsewhere>>

\* pruneExpired, with the time of a tick since which it may have waited: it
\* deletes none of the rows that a transaction has written
Prune(at) ==
  LET gone         == {k \in Keys \ locked : saved[k] # NoItem /\ ~Lives(saved[k], at)}
      without(map) == [k \in Keys |-> IF k \in gone THEN NoItem ELSE map[k]]
  IN  /\ at \in 0..now
      /\ rows' = without(rows) /\ saved' = without(saved)
      /\ UNCHANGED <<now, open, locked, spent, Elsewhere>>

-----------------------------------------------------------------------------

SqlNext ==
  \/ Tick /\ UNCHANGED <<table, postgres>>
  \/ SqlBegin \/ SqlCommit \/ SqlRollback \/ SqlFlush
  \/ \E k \in Keys : SqlDel(k) \/ \E item \in Item : SqlSet(k, item)
  \/ \E at \in 0..MaxTime : Prune(at)

EitherNext ==
  \/ ~postgres /\ Next /\ UNCHANGED <<table, postgres>>
  \/ postgres /\ SqlNext

EitherSpec == EitherInit /\ [][EitherNext]_<<vars, table, postgres>>

-----------------------------------------------------------------------------
(* Properties. *)

SqlAnswers(map) == [k \in Keys |-> SqlFound(map[k], now)]

\* Comparing the expiry in each statement and pruning beside an open
\* transaction are invisible, too: the table is a map whose entries vanish the
\* moment they expire, in which transactions are all or nothing, flushed or
\* not, and in which Del grants a key only while it is there
\* (statements.go:7-43, cache.go:115-204).
SC == INSTANCE TtlCache WITH
        Items     <- Item,
        Alive     <- Lives,
        committed <- SqlAnswers(saved),
        working   <- SqlAnswers(rows),
        fallback  <- SqlAnswers(saved),
        granted   <- spent

TableImplementsTtlCache == SC!Spec
=============================================================================
