------------------------------ MODULE MemCache ------------------------------
(***************************************************************************)
(* The in-memory cache backend (internal/conn/memory/cache): a map of      *)
(* items with an expiry, transactions that own its mutex and keep an undo  *)
(* log per key, and a goroutine that reaps expired items when the mutex is *)
(* free.  Items stay in the map past their expiry until they are reaped,   *)
(* deleted or overwritten, so every read compares the expiry to the clock. *)
(***************************************************************************)
EXTENDS Integers

CONSTANTS
  Keys,       \* cache keys that pass ValidateKey
  Values,     \* stored values
  MaxTime,    \* bound: the last clock reading of a run
  NoItem,     \* no item for a key
  NotSaved    \* no entry for a key in the undo log

Item == [val: Values, exp: 0..MaxTime]

ASSUME TimeAssumption == MaxTime \in Nat
ASSUME SentinelAssumption == NoItem \notin Item /\ NotSaved \notin Item \cup {NoItem}

VARIABLES
  now,      \* the clock
  keys,     \* backend.keys
  open,     \* a transaction holds backend.mu
  flushed,  \* transaction.flushed
  xkeys,    \* transaction.xkeys
  base,     \* history: backend.keys when the transaction began
  granted   \* history: the keys it has deleted successfully

vars == <<now, keys, open, flushed, xkeys, base, granted>>

Empty == [k \in Keys |-> NoItem]
EmptyLog == [k \in Keys |-> NotSaved]

Init ==
  /\ now = 0
  /\ keys = Empty
  /\ open = FALSE
  /\ flushed = FALSE
  /\ xkeys = EmptyLog
  /\ base = Empty
  /\ granted = {}

-----------------------------------------------------------------------------

\* item.Expired: its last moment still counts
Expired(item, t) == item.exp < t
Fresh(item, t)   == ~Expired(item, t)

\* what Get finds under a key
Found(item, t) == IF item # NoItem /\ Fresh(item, t) THEN item ELSE NoItem

\* the clock moves, between any two steps
Tick ==
  /\ now < MaxTime
  /\ now' = now + 1
  /\ UNCHANGED <<keys, open, flushed, xkeys, base, granted>>

Begin ==
  /\ ~open
  /\ open' = TRUE
  /\ UNCHANGED <<now, keys, flushed, xkeys, base, granted>>

Discard ==
  /\ open' = FALSE
  /\ flushed' = FALSE
  /\ xkeys' = EmptyLog
  /\ base' = keys'
  /\ granted' = {}
  /\ UNCHANGED now

Commit ==
  /\ open
  /\ UNCHANGED keys
  /\ Discard

\* Saved keys are put back; after a Flush the log is the whole former map.
Rollback ==
  /\ open
  /\ keys' = [k \in Keys |-> IF xkeys[k] = NotSaved THEN keys[k] ELSE xkeys[k]]
  /\ Discard

\* transaction.backup
Backup(k) ==
  xkeys' = IF flushed \/ xkeys[k] # NotSaved THEN xkeys ELSE [xkeys EXCEPT ![k] = keys[k]]

\* Set, with an expiry that may have passed already
Set(k, item) ==
  /\ open
  /\ Backup(k)
  /\ keys' = [keys EXCEPT ![k] = item]
  /\ UNCHANGED <<now, open, flushed, base, granted>>

\* Mutant of Del: an expired item is spent all the same.
DelStale(k) ==
  /\ open /\ keys[k] # NoItem
  /\ Backup(k)
  /\ keys' = [keys EXCEPT ![k] = NoItem]
  /\ granted' = granted \cup {k}
  /\ UNCHANGED <<now, open, flushed, base>>

\* Del that succeeds
Del(k) ==
  /\ open /\ Found(keys[k], now) # NoItem
  /\ Backup(k)
  /\ keys' = [keys EXCEPT ![k] = NoItem]
  /\ granted' = granted \cup {k}
  /\ UNCHANGED <<now, open, flushed, base>>

\* Del that returns ErrNotFound: an expired item goes all the same
DelMissing(k) ==
  /\ open /\ Found(keys[k], now) = NoItem
  /\ Backup(k)
  /\ keys' = [keys EXCEPT ![k] = NoItem]
  /\ UNCHANGED <<now, open, flushed, base, granted>>

\* The first Flush replaces the log by the map as it is now.
Flush ==
  /\ open
  /\ flushed' = TRUE
  /\ xkeys' = IF flushed THEN xkeys ELSE keys
  /\ keys' = Empty
  /\ UNCHANGED <<now, open, base, granted>>

\* reapExpired at a tick of its own, which it may have waited with since: it
\* holds the mutex for the whole scan
Reap(at) ==
  /\ ~open /\ at \in 0..now
  /\ keys' = [k \in Keys |-> IF keys[k] # NoItem /\ Expired(keys[k], at) THEN NoItem ELSE keys[k]]
  /\ base' = keys'
  /\ UNCHANGED <<now, open, flushed, xkeys, granted>>

-----------------------------------------------------------------------------

Next ==
  \/ Tick \/ Begin \/ Commit \/ Rollback \/ Flush
  \/ \E k \in Keys :
       \/ Del(k) \/ DelMissing(k)
       \/ \E item \in Item : Set(k, item)
  \/ \E at \in 0..MaxTime : Reap(at)

Spec == Init /\ [][Next]_vars

-----------------------------------------------------------------------------
(* Properties. *)

\* Every variable has its type.
TypeOK ==
  /\ now \in 0..MaxTime
  /\ keys \in [Keys -> Item \cup {NoItem}]
  /\ base \in [Keys -> Item \cup {NoItem}]
  /\ xkeys \in [Keys -> Item \cup {NoItem, NotSaved}]
  /\ open \in BOOLEAN /\ flushed \in BOOLEAN
  /\ granted \subseteq Keys

\* what a map answers now
Answers(map) == [k \in Keys |-> Found(map[k], now)]

\* The lazy expiry, the reaper and the undo log are invisible: to its callers
\* the backend is a map whose entries vanish the moment they expire, in which
\* transactions are all or nothing, but for what Flush does to a rollback, and
\* in which Del grants a key only while it is there (cache.go:93-233), as the
\* single-use pagination token needs.
TC == INSTANCE TtlCache WITH
        Items     <- Item,
        Alive     <- Fresh,
        committed <- Answers(base),
        working   <- Answers(keys),
        fallback  <- Answers(IF flushed THEN xkeys ELSE base)

ImplementsTtlCache == TC!Spec
=============================================================================
