------------------------------ MODULE PgStore ------------------------------
(***************************************************************************)
(* The storage backend in PostgreSQL (internal/conn/postgres/storage):     *)
(* its statements, the trigger that stamps objects with epochs, and what   *)
(* the database does with them at its default isolation level, READ        *)
(* COMMITTED.                                                              *)
(*                                                                         *)
(* A step is a statement, or what a statement does to one row.  A          *)
(* statement reads what was committed when it began and what its own       *)
(* transaction wrote; before it writes it locks the row until its          *)
(* transaction ends, and if it had to wait for the lock it tests the row   *)
(* again.  A row has therefore at most one version that is not committed.  *)
(* A statement that touches a row and the timestamp of its namespace takes *)
(* both locks in one step: holding one while it waits for the other only   *)
(* keeps others waiting.  A transaction chosen to break a deadlock, like   *)
(* any that fails, is rolled back.                                         *)
(*                                                                         *)
(* The data of an object is identified with its epoch.                     *)
(***************************************************************************)
EXTENDS Naturals, FiniteSets

CONSTANTS
  Txns,     \* transactions: one of them is one connection of the pool
  Paths,    \* (path, id) of storage_objects
  Spaces,   \* path of storage_timestamps
  SpaceOf,  \* [Paths -> Spaces]
  Beneath,  \* [Paths -> SUBSET Paths]: rows whose path is LIKE the path + "/%"
  Clock,    \* bound: what clock_timestamp() may read, in milliseconds
  MaxTime,  \* bound: [Spaces -> Nat], the last epoch of a namespace
  Polled,   \* bound: the namespaces clients list
  MaxCalls, \* bound: the calls of a transaction
  Free,     \* the owner of a row that is not locked
  NoRow,    \* no such row
  None      \* nothing read, listed or answered yet

ASSUME SpacesAssumption ==
  /\ SpaceOf \in [Paths -> Spaces]
  /\ Beneath \in [Paths -> SUBSET Paths]
  /\ Paths \cap Spaces = {}
ASSUME PolledAssumption == Polled \subseteq Spaces
ASSUME ClockAssumption == Clock \subseteq Nat \ {0} /\ MaxTime \in [Spaces -> Nat] /\ MaxCalls \in Nat

Row  == [modTime : Nat, deleted : BOOLEAN]
Read == [path : Paths, row : Row]
List == [space : Spaces, etag : Nat, list : (SUBSET (Paths \X Nat)) \cup {None}]

ASSUME SentinelAssumption == Free \notin Txns /\ NoRow \notin Row /\ None \notin Read \cup List

VARIABLES
  rows,      \* storage_objects as committed
  newRows,   \* the latest version of each row, committed or not
  stamps,    \* storage_timestamps as committed, zero where there is no row
  newStamps, \* the latest version of each timestamp
  owner,     \* the transaction that has locked a row of either table
  open,      \* the transactions that have begun
  calls,     \* how many calls each transaction has made
  todo,      \* what is left of the call each transaction is in
  got,       \* the object each transaction has last read with a lock
  poll,      \* the namespace each transaction is listing, and what it found
  seen       \* what a client was last answered of a namespace

committed == <<rows, stamps>>
latest    == <<newRows, newStamps>>
vars      == <<committed, latest, owner, open, calls, todo, got, poll, seen>>

NothingToDo == [create |-> {}, delete |-> {}, nested |-> {}]

Init ==
  /\ rows = [p \in Paths |-> NoRow] /\ newRows = rows
  /\ stamps = [s \in Spaces |-> 0] /\ newStamps = stamps
  /\ owner = [k \in Paths \cup Spaces |-> Free]
  /\ open = {} /\ calls = [t \in Txns |-> 0]
  /\ todo = [t \in Txns |-> NothingToDo]
  /\ got = [t \in Txns |-> None]
  /\ poll = [t \in Txns |-> None]
  /\ seen = None

-----------------------------------------------------------------------------
(* Rows, locks and epochs. *)

Live(row) == row # NoRow /\ row.deleted = FALSE

\* what the statements of t see of a row, and of the timestamp of a namespace
RowFor(t, p) == IF owner[p] = t THEN newRows[p] ELSE rows[p]

\* Mutant of StampFor: a namespace without a timestamp has no epoch, not even zero.
StampForKnown(t, s) == IF stamps[s] = 0 THEN None ELSE stamps[s]

StampFor(t, s) == IF owner[s] = t THEN newStamps[s] ELSE stamps[s]

\* t waits for the locks of the rows and takes them
Lock(t, keys) ==
  /\ \A k \in keys : owner[k] \in {Free, t}
  /\ owner' = [k \in DOMAIN owner |-> IF k \in keys THEN t ELSE owner[k]]

\* Mutant of Incremented: an epoch that has been reached is used again.
IncrementedByClock(e) == {IF e < now THEN now ELSE e : now \in Clock}

\* storage_timestamps_increment of a timestamp e, whatever the clock reads
Incremented(e) == {IF e < now THEN now ELSE e + 1 : now \in Clock}

\* Mutant of Stamped: the trigger does not fire when a row is only marked as deleted.
StampedUnlessDeleted(p, deleted, epochs) ==
  \E e \in {e \in epochs : e <= MaxTime[SpaceOf[p]]} :
    /\ newRows' = [newRows EXCEPT ![p] = [modTime |-> IF deleted THEN @.modTime ELSE e, deleted |-> deleted]]
    /\ newStamps' = [newStamps EXCEPT ![SpaceOf[p]] = e]

\* the row is written with one of the epochs, which its namespace keeps
Stamped(p, deleted, epochs) ==
  \E e \in {e \in epochs : e <= MaxTime[SpaceOf[p]]} :
    /\ newRows' = [newRows EXCEPT ![p] = [modTime |-> e, deleted |-> deleted]]
    /\ newStamps' = [newStamps EXCEPT ![SpaceOf[p]] = e]

\* UPDATE ... SET deleted = TRUE, of one row
Bury(t, p) ==
  /\ Lock(t, {p, SpaceOf[p]})
  /\ Stamped(p, TRUE, Incremented(newStamps[SpaceOf[p]]))

\* INSERT ... ON CONFLICT DO UPDATE.  The trigger fires before the insert, and
\* again before the update of a row that is in the way.
Upsert(t, p) ==
  LET first == Incremented(newStamps[SpaceOf[p]])
  IN  /\ Lock(t, {p, SpaceOf[p]})
      /\ Stamped(p, FALSE, IF newRows[p] = NoRow THEN first ELSE UNION {Incremented(e) : e \in first})

\* the same with a condition that the row in the way does not meet: nothing is
\* written and no row returned, but the trigger has fired
FireOnly(t, p) ==
  /\ Lock(t, {p, SpaceOf[p]})
  /\ \E e \in {e \in Incremented(newStamps[SpaceOf[p]]) : e <= MaxTime[SpaceOf[p]]} :
       newStamps' = [newStamps EXCEPT ![SpaceOf[p]] = e]
  /\ UNCHANGED newRows

-----------------------------------------------------------------------------
(* The calls of a transaction. *)

\* t has begun and is in no call
Ready(t) == t \in open /\ todo[t] = NothingToDo

Call(t) ==
  /\ Ready(t) /\ calls[t] < MaxCalls
  /\ calls' = [calls EXCEPT ![t] = @ + 1]
  /\ UNCHANGED <<committed, open, seen>>

\* t goes on with the call it is in
Continue(t) == UNCHANGED <<committed, open, calls, poll, seen>>

\* what t has read of p and changes now is no longer what it has read
Forget(t, p) ==
  got' = IF got[t] # None /\ got[t].path = p THEN [got EXCEPT ![t] = None] ELSE got

Begin(t) ==
  /\ t \notin open
  /\ open' = open \cup {t}
  /\ UNCHANGED <<committed, latest, owner, calls, todo, got, poll, seen>>

\* Mutant of GetForUpdate: the row is not locked.
GetUnlocked(t, p) ==
  /\ Call(t) /\ Live(RowFor(t, p))
  /\ got' = [got EXCEPT ![t] = [path |-> p, row |-> RowFor(t, p)]]
  /\ UNCHANGED <<latest, owner, todo, poll>>

\* Get with a lock finds the object; without a lock it leaves no trace
GetForUpdate(t, p) ==
  /\ Call(t) /\ Live(RowFor(t, p))
  /\ Lock(t, {p})
  /\ got' = [got EXCEPT ![t] = [path |-> p, row |-> newRows[p]]]
  /\ UNCHANGED <<latest, todo, poll>>

\* Create finds by Exists that there is no such object ...
CreateStart(t, p) ==
  /\ Call(t) /\ ~Live(RowFor(t, p))
  /\ todo' = [todo EXCEPT ![t].create = {p}]
  /\ UNCHANGED <<latest, owner, got, poll>>

\* Mutant of CreateInsert: whatever is in the way is overwritten.
CreateUpsert(t, p) ==
  /\ p \in todo[t].create /\ Continue(t)
  /\ Upsert(t, p)
  /\ todo' = [todo EXCEPT ![t].create = {}]
  /\ UNCHANGED got

\* ... and inserts it, unless another transaction has created it since
CreateInsert(t, p) ==
  /\ p \in todo[t].create /\ Continue(t)
  /\ IF Live(newRows[p]) THEN FireOnly(t, p) ELSE Upsert(t, p)
  /\ todo' = [todo EXCEPT ![t].create = {}]
  /\ UNCHANGED got

Update(t, p) ==
  /\ Call(t)
  /\ Upsert(t, p) /\ Forget(t, p)
  /\ UNCHANGED <<todo, poll>>

\* Delete marks the object it finds; what is nested beneath it comes next
Delete(t, p) ==
  /\ Call(t) /\ Live(RowFor(t, p))
  /\ Bury(t, p) /\ Forget(t, p)
  /\ todo' = [todo EXCEPT ![t].nested = {p}]
  /\ UNCHANGED poll

\* DeleteAll of paths of one namespace finds those that are there
DeleteAll(t, S) ==
  /\ Call(t) /\ S # {} /\ \A p, q \in S : SpaceOf[p] = SpaceOf[q]
  /\ todo' = [todo EXCEPT ![t].delete = {p \in S : Live(RowFor(t, p))}, ![t].nested = S]
  /\ UNCHANGED <<latest, owner, got, poll>>

\* the next row an UPDATE ... SET deleted = TRUE has found, if it is still there
DeleteRow(t, p) ==
  /\ p \in todo[t].delete /\ Continue(t)
  /\ todo' = [todo EXCEPT ![t].delete = @ \ {p}]
  /\ \/ Live(newRows[p]) /\ Bury(t, p) /\ Forget(t, p)
     \/ ~Live(newRows[p]) /\ owner[p] \in {Free, t} /\ UNCHANGED <<latest, owner, got>>

\* the second statement of Delete and DeleteAll finds what is nested
DeleteNested(t) ==
  /\ todo[t].delete = {} /\ todo[t].nested # {} /\ Continue(t)
  /\ todo' = [todo EXCEPT
       ![t].delete = {q \in UNION {Beneath[p] : p \in todo[t].nested} : Live(RowFor(t, q))},
       ![t].nested = {}]
  /\ UNCHANGED <<latest, owner, got>>

\* a listing reads the epoch of the namespace first ...
ModTime(t, s) ==
  /\ Call(t)
  /\ poll' = [poll EXCEPT ![t] = [space |-> s, etag |-> StampFor(t, s), list |-> None]]
  /\ UNCHANGED <<latest, owner, todo, got>>

\* ... and then its live objects
ListAll(t) ==
  /\ Call(t) /\ poll[t] # None
  /\ poll' = [poll EXCEPT ![t].list =
       {<<p, RowFor(t, p).modTime>> : p \in {p \in Paths : SpaceOf[p] = poll[t].space /\ Live(RowFor(t, p))}}]
  /\ UNCHANGED <<latest, owner, todo, got>>

\* t gives back what it has locked and is over
Finish(t) ==
  /\ owner' = [k \in DOMAIN owner |-> IF owner[k] = t THEN Free ELSE owner[k]]
  /\ open' = open \ {t}
  /\ calls' = [calls EXCEPT ![t] = 0]
  /\ todo' = [todo EXCEPT ![t] = NothingToDo]
  /\ got' = [got EXCEPT ![t] = None]
  /\ poll' = [poll EXCEPT ![t] = None]

\* what the client is answered, after the commit, if it gets there
Answers(t) == IF poll[t] = None THEN {} ELSE {l \in {poll[t]} : l.list # None}

Commit(t) ==
  /\ Ready(t)
  /\ rows' = [p \in Paths |-> RowFor(t, p)]
  /\ stamps' = [s \in Spaces |-> StampFor(t, s)]
  /\ seen' \in {seen} \cup Answers(t)
  /\ Finish(t)
  /\ UNCHANGED latest

\* at any moment: an error of a statement, a deadlock, a lost connection
Rollback(t) ==
  /\ t \in open
  /\ newRows' = [p \in Paths |-> IF owner[p] = t THEN rows[p] ELSE newRows[p]]
  /\ newStamps' = [s \in Spaces |-> IF owner[s] = t THEN stamps[s] ELSE newStamps[s]]
  /\ Finish(t)
  /\ UNCHANGED <<committed, seen>>

Next ==
  \E t \in Txns :
    \/ Begin(t) \/ DeleteNested(t) \/ ListAll(t) \/ Commit(t) \/ Rollback(t)
    \/ \E p \in Paths : \/ GetForUpdate(t, p) \/ CreateStart(t, p) \/ CreateInsert(t, p)
                        \/ Update(t, p) \/ Delete(t, p) \/ DeleteRow(t, p)
    \/ \E S \in SUBSET Paths : DeleteAll(t, S)
    \/ \E s \in Polled : ModTime(t, s)

Spec == Init /\ [][Next]_vars

-----------------------------------------------------------------------------
(* Properties. *)

\* The variables have their types.
TypeOK ==
  /\ rows \in [Paths -> Row \cup {NoRow}] /\ newRows \in [Paths -> Row \cup {NoRow}]
  /\ stamps \in [Spaces -> Nat] /\ newStamps \in [Spaces -> Nat]
  /\ owner \in [Paths \cup Spaces -> Txns \cup {Free}]
  /\ open \subseteq Txns /\ calls \in [Txns -> Nat]
  /\ todo \in [Txns -> [create : SUBSET Paths, delete : SUBSET Paths, nested : SUBSET Paths]]
  /\ got \in [Txns -> Read \cup {None}]
  /\ poll \in [Txns -> List \cup {None}] /\ seen \in List \cup {None}

\* the versions of a row a unique index compares with others
Versions(p) == {rows[p], newRows[p]} \ {NoRow}

\* No two objects of a namespace have the same epoch, in whatever versions, so
\* the unique index over path and last_modified never fails a statement, and
\* none is ahead of the epoch of the namespace (storage_timestamps_increment).
EpochsSound ==
  \A p \in Paths :
    /\ \A v \in Versions(p) : v.modTime <= newStamps[SpaceOf[p]]
    /\ \A q \in Paths \ {p} : SpaceOf[q] = SpaceOf[p] =>
         \A v \in Versions(p), w \in Versions(q) : v.modTime # w.modTime

\* A client that was answered a listing and its ETag misses nothing: whatever
\* has changed in the namespace since has a newer epoch than the ETag,
\* although ETag and listing were read by two statements and transactions commit
\* in an order of their own.
PollsSound ==
  seen # None =>
    \A p \in Paths : SpaceOf[p] = seen.space /\ rows[p] # NoRow /\ rows[p].modTime <= seen.etag =>
      {e \in seen.list : e[1] = p} = IF Live(rows[p]) THEN {<<p, rows[p].modTime>>} ELSE {}

\* What a transaction has read with a lock stays the latest version until it
\* changes it itself, so an update replaces what its precondition was tested on.
LockedReadStands == \A t \in Txns : got[t] # None => newRows[got[t].path] = got[t].row

\* An object that was created between the two statements of Create is not
\* overwritten.
CreateOverwritesNothing ==
  [][\A t \in Txns : \A p \in todo[t].create \ todo'[t].create :
       Live(newRows[p]) => newRows'[p] = newRows[p]]_vars
=============================================================================
