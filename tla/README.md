# Verification of riposo

riposo is a Go implementation of the Kinto API: buckets, collections, groups
and records are JSON objects with permissions, kept by interchangeable storage,
permission and cache backends and served over HTTP. This directory holds TLA+
models of the parts that carry its logic, the TLC configurations that check
them, and proofs of the properties that matter most. Paths below are relative
to the repository; `PROJECT.json` maps every definition to the lines it models
and lists, per hazard, the line where it bites and the property that covers it.

## Inventory

| Component | State | Operations | What is hard | What makes it correct |
|---|---|---|---|---|
| In-memory storage (`internal/conn/memory/storage`) | trees of live objects and tombstones, one node per namespace with its epoch; per transaction an undo log | Create, Update, Delete, DeleteAll, Purge, Flush, reads, Begin, Commit, Rollback | deletes sweep nested namespaces in map order; the undo log; epochs within one millisecond or with a clock that steps back | epochs of a namespace are distinct and grow, changes carry a newer epoch or leave a tombstone, a rollback restores the content |
| In-memory cache (`internal/conn/memory/cache`) | items with an expiry, undo log | Get, Set, Del, Flush, reaper goroutine | expiry against a moving clock, lazily and by the reaper; the undo log | a map whose entries vanish when they expire, transactions that are all or nothing, a key is granted to one Del |
| In-memory permissions (`internal/conn/memory/permission`) | principals per user, principals per path and permission, two undo logs | user and ACE principals, create, merge and delete permissions | sets changed in place, purges that reach users nobody named | a rollback leaves no trace |
| Request transactions (`pkg/api/txn.go`, `internal/server/middleware.go`) | a transaction per backend, the status already written or not | NewTxn, authentication, handler, WriteHeader, Commit, deferred Rollback | three mutexes, failures at any step, panics, databases whose commit fails or whose answer is lost | what the status says is what is kept; no deadlock; no request sees half of another |
| Listing and bulk deletion (`pkg/api/ctrl.go`, `pkg/params/pagination.go`) | the client's token, nonces in the cache | List, DeleteBulk, paginate | objects written between pages; repeated, late and lost requests | nothing missed, no page twice, a token deletes once |
| Object controller and models (`pkg/api/ctrl.go`, `model.go`, `actions.go`) | none beyond the transaction | Get, Create, Update, Patch, Delete, callbacks | order of checks and writes: a 4xx after a write is committed | a refusal leaves objects, grants and principals alone; store and permissions agree; parents exist |
| Conditional requests (`pkg/api/ctrl_cache.go`) | none | If-Match, If-None-Match, If-(Un)Modified-Since | whole seconds against milliseconds, epoch read and used later | no lost update |
| Groups (`internal/model/group`) | members in the object, principals at the users | callbacks of create, update, patch, delete | two copies of one fact | users hold the principal exactly when they are members |
| Queries (`memory/storage/filters.go`, `postgres/storage/query.go`, `pkg/params`) | none | filters, sort orders, conditions of a token | a missing field, values of several types, three-valued logic in SQL | both backends select and sort alike |
| Batch (`internal/batch`) | one recorder and one transaction for all sub-requests | sub-requests in order, responses | a failing sub-request within a committed whole | the transaction of the batch is answered as it is kept |
| Server life cycle (`internal/server/server.go`, `internal/cli/server.go`, `pkg/conn/conn.go`) | what is open, the context, connections | New, ListenAndServe, Close | failures half-way, a signal, the grace time | everything opened is closed, handlers keep their backends, the process ends |
| PostgreSQL storage (`internal/conn/postgres/storage`) | objects, timestamps of namespaces, row locks | statements of the calls, a trigger that stamps | transactions that overlap at READ COMMITTED, lock order, create against create | epochs distinct, listings miss nothing, no lost update |
| PostgreSQL permissions (`internal/conn/postgres/permission`) | a row per user and principal, a row per path, permission and principal | as the interface, in a session of its own | merges and deletions that overlap, another session than the objects' | answers as the backend in memory does; a grant stays with its writer and ends with its object |
| PostgreSQL cache (`internal/conn/postgres/cache`) | a row per key with its expiry, a pruning goroutine | as the interface | expiry by the server's clock, pruning beside open transactions | the map the cache in memory is; a token is spent once |
| Authentication, configuration, routing, utilities | little or none | parsing, hashing, wiring | sequential code | only what reaches a transaction is modelled |

How they interact: the server opens the backends and hands them to the
middleware; the middleware begins one transaction in each of the three and
puts them in the request's context; the controller reads and writes through
them and asks for a status; writing a status below 500 commits, and the
deferred rollback ends what is still open. In-memory backends hold their mutex
from Begin to Commit or Rollback; the cache's reaper takes that mutex too. In
PostgreSQL a request has three sessions, one per backend, that the database does
not know to belong together and that are committed one after the other.

## Modules

| Module | Models | State and actions |
|---|---|---|
| `MemStore` | the storage backend in memory | `tree` and `dead` are the two object trees, `xtree` and `xdead` the undo log, one action per call (`Create`, `Update`, `Delete`, `DeleteAll` with one step per path, `Purge`, `Flush`) and per end of the transaction. `base` and `purged` are history. Namespaces are model values and `Prefixed` says which begin with a path as a string, as `backend.delete` tests it. A sweep picks any order of the map. |
| `MemCache` | the cache backend in memory | `keys`, the undo log `xkeys`, a clock that ticks between any two steps and a reaper that may act on an older tick |
| `PgCache` | the cache backend in PostgreSQL, which a server may have instead | `rows` and `saved` are the table in the transaction and as committed; a statement per call, `Prune` in a session of its own at any time |
| `TtlCache` | what a cache promises | the content committed, the working copy, and keys granted |
| `MemPerms` | the permission backend in memory | `users`, `perms` and their logs; one action per call, with every argument |
| `PermTables` | both permission backends side by side | `principalRows` and `pathRows` are the tables; a step is an action of `MemPerms` together with the statement that stands for it, and the questions of the controller are asked of both |
| `TxStore` | what a transactional store promises | a committed snapshot and a working copy; `Flush` may make what the copy held the snapshot |
| `ReqTxn` | the life of a request's transaction, or a batch's | `pc` and `at` place each request, `open` its transactions, `holder` the mutexes, `visible` whose writes a reader of a backend would find. `memory` says which backends are in memory and is chosen when the server starts. Every fallible call has a failing action beside it, and a failing commit may or may not have been kept. `aborted` are the databases that gave a transaction up: a part of a batch may fail at a statement and the parts after it go on (`Abort`), but what was given up cannot be committed. |
| `Query` | filters and sorting | an operator for what the backend in memory evaluates and one for what the SQL means, over scalars of every type; `And`, `Or` and `Not` are three-valued |
| `Paging` | listing and bulk deletion by token | writers, a lister and a deleter whose requests may be repeated, late or unheard; `sort` and `limit` are what the clients ask for |
| `Ctrl` | controller, authorization, conditional requests, default and group model | `object`, `clock`, `perms` and `held` are what the backends hold; `Get`, `Create`, `Update`, `Patch`, `Delete` and `DeleteBulk` are whole requests of a user with any body and headers a client can send. `seen` is a representation some client kept, `cached` the nonces of the page tokens that can still be spent (`Expire` takes one), `answer` the last answer. A request is one step because its transaction owns the mutexes of the in-memory backends (`ReadsWhole` of `ReqTxn`), and a refusal keeps what was written before it because a status below 500 commits. |
| `PgStore` | the storage backend in PostgreSQL | `rows` and `stamps` are the tables as committed, `newRows` and `newStamps` their latest versions, `owner` the row locks; an action per statement, or per row of an UPDATE of several; `Rollback` may strike anywhere, as errors, deadlocks and lost connections do. `Lock` and `RowFor` are what the database does at READ COMMITTED. |
| `PgRequest` | requests that overlap, with all backends in PostgreSQL | `live`, `newLive` and `owner` are the objects as committed, by their latest versions, and their row locks; `grants`, `newGrants` and `holder` the same of permissions; `token` and `spender` the key of a page. An action per statement, two for one that may wait (it finds rows, and later locks and tests them again); `step` is where a request is. The three commits are three steps, and `Rollback` may strike before the first. `wrote`, `gave`, `last` and `due` are history. |
| `ServerLife` | the process and the requests it serves | `ReqTxn` inside the life of the server: `Handle` is any step of a request under what the process allows it (a pool that is open, a context that no signal has cancelled). `progress` follows `New` as it opens, `toClose` what `New` after a failure (`Cleanup`) or `Close` has left to close, one resource per step, and `held` is what is open; `unready` are the databases that refused to prepare statements and serve without, `doomed` says that the cache prunes without its statement, which ends the process at a tick (`PrunePanics`); signal, grace time, and the reaper of a cache in memory |
| `MemStoreProofs`, `ServerProofs`, `PgStoreProofs`, `PagingProofs`, `PermTablesProofs`, `PgCacheProofs`, `CtrlProofs`, `PgRequestProofs` | | theorems and proofs |
| `*MC` | | the constants of the runs |

Mutants, the operators whose comment begins "Mutant of", are plausible bugs of
the definition below them. They are part of no specification; each property is
violated when its mutant takes the definition's place.

`PgCache` and `PermTables` extend the models of the backends in memory; `Paging`
extends `Query`, and `ServerLife` extends `ReqTxn`. `MemStore` and `MemPerms`
implement `TxStore`, `MemCache` and `PgCache` implement `TtlCache`, by `INSTANCE`
with a refinement mapping. `ReqTxn` implements `TxStore` too, when all backends
are in memory: there a transaction is that of a whole request, and a snapshot
says which requests' writes each backend holds. This is why `Ctrl` may take a
request for one step.

The state of a transaction that is over is reset (`Discard`) as the Go object
is dropped. Calls on a transaction that is done return an error and change
nothing, so the models have no such step.

## Runs

| Run | Instance | What it shows |
|---|---|---|
| `store_nested` | a bucket namespace and one nested in it, two IDs, epochs to 4, all calls, Purge and Flush included (the latter up to epoch 1) | epochs are sound; changes are visible to a client that polls with an older ETag; an epoch that stands means content that stands; to the top-level namespace the calls implement `TxStore` |
| `store_rollback_nested` | one ID, epochs to 2 | finding: nested objects swept by a delete are not restored |
| `cache` | two keys, four clock readings, all calls; in memory with the reaper, or in PostgreSQL with pruning | either backend implements `TtlCache` |
| `perms` | a user beside `system.Everyone` and `system.Authenticated`, a group, a bucket and a record, all calls on both backends, several transactions | both backends answer alike; the transactions of the one in memory are all or nothing (`TxStore`) |
| `req_txn` | two requests and the reaper; all in memory, cache in a database, all in databases; statements of a batch's parts may fail in the store | status against what is kept, isolation, and that every request is answered |
| `paging` | three objects, pages of one and two, the order of last change and of a field, epochs to 4, two tokens; filters of up to two values over every type | tokens spend once; in the order of last change listing and deleting are complete and advance; both storage backends filter and sort alike |
| `paging_down` | two objects, latest first | finding: the second page is sought on the wrong side |
| `ctrl` | a bucket with a group and a collection of two records, a user and the anonymous one, all requests, one page token at a time | members hold the group's principal and only they do; grants have objects and objects parents; a write guarded by an ETag replaces what the client saw; a refusal changes no object, grant or principal, and spends a page token only where nothing is left to delete |
| `pg_store` | two transactions of two calls each, two objects and one nested, epochs to 3 and 2, a clock that leaps or stands | epochs stay distinct, a listing and its ETag miss nothing, a locked read stands until its transaction changes it, a create overwrites nothing |
| `pg_request` | three requests of two users that write a record with or without permissions, delete it or its collection, or delete in bulk; any is rolled back anywhere | the last writer keeps the grant it gave, a deletion ends the grants it found, a token is spent once, requests for single objects never block each other for ever |
| `server_life` | two plugins, a rule, two authentication methods, two requests, permissions and cache in databases or everything in memory, failure anywhere | whether opening fails half-way or serving ends, what was opened is closed, not before the handlers are done or the grace time is over; no request has a transaction in a pool that is not open; a failed listener ends the process |
| `server_signal` | the same | finding: a signal does not end a process that serves |

Why the bounds are enough. The hazards of the undo logs need a version, a second
one (told apart by its epoch) and a third step; two epochs more than a namespace
has objects let every object be written, swept and reported: with two objects
and four epochs both are put and one deletion from above sweeps them, in either
order. Flush is called up to the first epoch (`MaxFlushed`), which leaves three
for what comes after it, and a bulk deletion names different paths of one
namespace (`BulkLists`), as a request lists them. Both IDs have the nested
namespace beneath them, as `a` and `ab` have the groups of `ab`, so that nothing
tells them apart (`NestedSymmetry`). The request's control flow touches other
requests only through a mutex and through visible writes, so two requests, each
writing and reading store and permissions, show every pair of steps; a wait in a
circle needs two. In `ctrl` a group is created, changed and deleted, or deleted
and created again (three epochs), and so is its bucket; the collection is put
once and its records twice in all, so that a page may leave one of them behind
and the collection vanish under a token. Nothing tells the records apart
(`MCSymmetry`), and clients send permissions with buckets and collections. One
representation is kept, of the group, whose members tell versions apart; two
epochs share a second, so that a date is less than an ETag. In `pg_store` two
calls make every handler (a locked read and a write, an epoch and a listing), a
call of the other transaction comes between any two statements, and three epochs
let an object be created, replaced (which takes two) or deleted and created.
Three objects give a first, a middle and a last page. In `perms` one path lies
beneath another and one group is granted beside `system.Everyone`, so that every
statement has a row to match and one to pass over; nothing bounds the number of
transactions. In `pg_request` two requests are an overlap and the third stands
between them or is a deletion from above; two users tell whose grant it is. The
time of `cache` lets an item be set, live, expire and be set again. In `Query`
two values of a type are one below the other and every type is there. In
`server_life` and `server_signal` the requests only write to the store, so that
their steps multiply less: what matters there is where a request is when a
signal comes or the server closes. All safety properties are also proved without
bounds.

`CHECK_DEADLOCK FALSE` stands where the program may stop: bounded clocks and
tokens run out, and requests and the server come to an end. The runs of
`MemStore`, `PermTables`, `Ctrl`, `PgStore` and `PgRequest` check for deadlock. In
`PgRequest` a request that waits may still be rolled back, so a circle of waits
across sessions is no deadlock to TLC: that waits end without it says
`SinglesEnd`.

Fairness. `ReqTxn` assumes that a mutex that is freed again and again is
eventually obtained (strong fairness of `Begin`): Go's `sync.Mutex` hands itself
over to a waiter of more than a millisecond. Everything else a request does is
code that runs to its end or fails, hence weak fairness of the choice between
the two; nothing forces a request to arrive. `ServerLife` assumes that started
code goes on and that the grace time passes, not that a signal or a failure
comes. A request and the closing of a cache in memory wait for mutexes, so both
have strong fairness (`Handle`, `CloseNext`), as in `ReqTxn`. `Shutdown` does
not wait for a handler longer than the grace time, but the closing of that cache
does, for its mutex: that the process ends rests on handlers that return.
`PgRequest` assumes that a request whose next statement can run does run it
(weak fairness of `Step`), and that no rollback comes to the rescue: row locks
have no timeout that the code sets.

## Theorems

`MemStoreProofs`, from finite IDs and the assumptions on `Prefixed` and the
sentinels, for any namespaces, IDs, clock readings and map orders:
`StoreTypeCorrect`, `StoreVersionsSound`, `StoreChangesVisible`,
`StoreModTimeValidates`, `StoreRollback`, and `StoreAtomic` (to the namespaces
nested in no other, `Spec` implements `TxStore`). Epochs alone are not
inductive: a rollback puts back what the log holds, so the invariant says that
the logged nodes are sound too, that the log holds what the namespace had when
the transaction began or first flushed (`base`), and that what is not logged has
not been written, except by a sweep from above. `TopLevel` namespaces are those
no sweep reaches, which is why the rollback theorem and the refinement are
theirs.

`ServerProofs`, for any set of requests and any backends in memory. About
`ReqTxn`: `ReqTypeCorrect`, `FineIsKept`, `ErrorsLeaveNothing`,
`ReadersSeeWhole`, `LocksInOrder`, `ServedOneByOne`, `HandlersReadCurrent`. The
invariant has four parts per request: which transactions are open follows from
where it is (`OpenFits`); an open transaction in memory owns the mutex
(`MutexOwned`); what is visible before it commits is in a backend with an undo
log and still open (`Undoable`); what was committed without an error stays
(`CommitsKept`). None is inductive alone: a rollback removes a request's writes,
which is safe only because a request that was answered has nothing open. A step
of one request is the same to all others (`Same`), so each action is proved
once. `ReadersSeeWhole` adds `MemInv`: as a handler holds every mutex while it
reads (`WorkerAlone`), what it finds was left by requests that had finished
(`WorkerFinds`), and nobody finishes meanwhile. `ServedOneByOne` is
serializability: with all backends in memory the requests, however they fail,
implement `TxStore` as one transaction after another over all three backends. A
request is open to `TxStore` while its handler runs (`Handling`), its commit or
rollback is the step that leaves the handler, and what the three commits or
rollbacks do after that is a stutter, for it changes neither what is for good
(`Settled`) nor what a handler finds (`Current`); `HandlersReadCurrent` says
that what a handler reads is the working copy of `TxStore`. `LocksInOrder`
(`LocksOrdered`) is the part of `Answered` that is a safety property: no mutex
is lost on any path, and who has one waits only for a later one.

About `ServerLife`, for any plugins, rules and methods besides, all different:
`ServedAsSpecified`, `ServedAnswersHold`, `ServesWhileOpen`, `ClosesAll`. The
server implements `ReqTxn` (what opens, signals and closes is a stutter, and
what a cancelled context or a closed pool refuses is a failure `ReqTxn` has), so
what `ReqTxn` promises, it promises in a server that is opening, signalled or
closing. `ClosesAll` is about every way to `exited`, a failed start included:
what `Cleanup` lists is, kind by kind, what `New` has opened (`CleanupFacts`).
Of a panic of the pruning loop it claims nothing. The invariant (`LifeInv`) says
what is held in each phase: while it opens the first of `Opening` but for those
without statements, while it closes what is left in `toClose`; and that every
open transaction is in a pool that is held until the grace time is over.

`PgStoreProofs`, for any transactions, rows, namespaces, LIKE relation and clock
readings: `PgTypeCorrect`, `PgEpochsSound`, `PgPollsSound`,
`PgLockedReadStands`, `PgCreateOverwritesNothing`. To the tables every action is
one of six steps (`TableStep`), so their invariant is proved once per kind of
step. It says why epochs that another transaction has not committed do no harm:
what nobody has locked is committed (`LocksCover`), and whoever wrote a row also
holds the timestamp of its namespace and is beyond the committed one
(`WritesAhead`). The versions a transaction finds therefore only go forward
(`Advances`), by which a listing stays right about everything not newer than its
ETag (`PollFits`) and the client's copy after it (`SeenFits`). `GotHeld` and
`CreatesAbsent` say what a transaction relies on between two statements; a step
of another leaves what it has locked alone (`KeepsLocks`). The theorems rest on
row locks and READ COMMITTED as `Lock` and `RowFor` state them, on a clock above
zero and on a namespace not being a row.

`PagingProofs`, for any objects, values, page sizes, writers and repeated or
lost requests: `SelectAlike`, `SortsInOrder`, `TokensSpentOnce`,
`ListingComplete`, `ListingAdvances`, `DeletionComplete`. `SelectAlike` is by
cases of the types: a missing value is greatest in memory and null in SQL, and
each operator is written so that this comes to the same. `SortsInOrder`
(`SortOrderSound`) says of every `_sort` that `Less` is a strict order whose
ties agree in every field sorted by, over values of any types, which `sort.Sort`
and the cut of a page rely on. A token deletes once because its nonce is in the
cache only while no page was deleted by it. Completeness rests on the epochs:
those of a namespace are distinct and at most its clock's (`Stamped`), so an
object that changes moves beyond the cursor, what the client listed is what
there is up to it (`Listed`), and what there is beyond is ahead of it (`Ahead`).

`PermTablesProofs`, for any users, groups, paths, permissions and payloads:
`PermTypeCorrect`, `PermRollback`, `SameAnswers`, `PermsAtomic`. The tables are
the rows that the maps stand for (`UserRows`, `GrantRows`), also those that
began: undoing the log yields what the transaction began with (`Undo`), which is
what the database goes back to, so they are alike after a rollback, too.
`PermsAtomic` is the refinement of `TxStore`, flushes included: what is
committed is the content with the undo log put back. That a call leaves this
alone (`ChangeKeeps`) needs that what it changes is in the log by then
(`UserChanges`, `GrantLog`), also the users a purge finds by itself
(`PurgeChanges`). `PermRollback` is about every transaction that did not flush
(`RollbackRestores`).

`PgCacheProofs`, for any keys, values and clock readings: `MemIsTtlCache` and
`TableIsTtlCache`. In memory what is not in the undo log is as committed
(`MemInv`); in the table what is not locked is (`TableInv`), so pruning in another
session takes away only what has expired to everybody.

`CtrlProofs`, for any tree of paths, users, bodies and headers:
`CtrlTypeCorrect`, `MembersHoldTheGroup`, `HoldersAreInTheGroup`,
`UpdatesAreSeen`, `RefusalsAreClean`, `GrantsEndWithObjects`,
`NothingWithoutParent`. Every handler refuses, reads, creates, overwrites or
removes (`StepKinds`), with what it has checked by then, and each property is
proved once per effect. `RefusalsAreClean` covers the token a 404 spends: a
collection that is gone has nothing beneath it, as what is created there finds
it and a deletion sweeps all beneath (`ChildrenHaveParent`). `UpdatesAreSeen`
needs that an ETag tells the versions of a path apart, also after a deletion
(`SeenTells`), and that objects are no younger than their namespace
(`WellFormed`). The last two have the assumption `SweptExactly`, that a deletion
reaches what is beneath its path and nothing else; with names of which one
begins another it reaches more, see below.

`PgRequestProofs`, for any requests, paths, jobs and users:
`RequestTypeCorrect`, `OneDeletionPerToken`, `LastWriterKeepsGrant`,
`DeletionEndsGrants`, `SinglesWaitInOrder`. The invariant follows each request:
what it has written and found (`Progress`, `Fetched`, `Found`), what it has
locked (`ObjectLocks`, `GrantLocks`) and that who spends a token has it to the
end (`Spends`). The permission session of a writer may commit long after its
store session let the object go. Its grant stands nevertheless (`Standing`):
whoever takes it away has locked it and goes on to write the object itself
(`Overwrites`), and is then the last writer. A grant that is there when a
deletion begins is found, locked and removed by it, or has ended otherwise
(`Ended`). `SinglesWaitInOrder` (`SinglesWaitShort`) is the safety part of
`SinglesEnd`, for any number of requests for single objects: a request fetches
its object with a lock first (`OneObject`), so that one waiting for an object
has locked nothing (`ObjectFirst`) and one that has locked a grant waits for
nothing.

Only proved, because no run checks them: `LocksOrdered`, `ReadsCurrent` and
the refinement of `ReqTxn`, `RollbackRestores` and `RollbackRestoresTopLevel`,
`SortOrderSound`, `SinglesWaitShort`, and that the server implements `ReqTxn`.

Only model-checked: liveness (`Answered`, `FailureEnds`, `SinglesEnd`), which
the prover cannot do. Of the first and the last, what is a safety property is
proved (`LocksInOrder`, `SinglesWaitInOrder`); that a request which nothing
holds up goes on is fairness and `ENABLED`.

## Where the code and its promises part

Checked by a run:

- `store_rollback_nested`: `Delete` and `DeleteAll` back up the path's own
  namespace, the sweep reaches nested ones (`storage.go:61-90, 275, 356`).
- `paging_down`: a token always asks for greater values, whatever the
  direction of the sort (`pagination.go:52-81`).
- `server_signal`: the context that a signal cancels stops nothing
  (`internal/cli/server.go:39`) while the server serves. Before its databases are
  open it does end the process: `Connect` fails with a cancelled context
  (`conn/postgres/common/common.go:25`), which `Open` and `PrepareFails` respect.

Read in the code, described here and kept out of what the properties claim:

- The first Flush of a transaction in memory replaces the undo log by the
  content of that moment, so a later rollback keeps what was written before
  (`storage.go:146-159`, `cache.go:148-160`, `permission.go:106-120`). No
  handler flushes. `RollbackRestores` is about transactions that did not flush;
  `TxStore` and `TtlCache` let a rollback after a Flush restore either content.
- Nested namespaces are found by a string prefix without a separator, so
  deleting `/buckets/a` reaches the groups of `/buckets/ab` (`storage.go:81`).
  `Prefixed` may be any such relation.
- The three commits of a request are independent: when one database fails, the
  others keep their part while the client is told 503 (`txn.go:72-79`). They are
  tried one after the other whatever became of the one before, so permissions
  and cache are committed after the store has failed; and when the cache's fails,
  a page is deleted and its token can be used again.
- Sorted by two fields, a token asks for one greater and the others equal and
  misses objects; without `_sort` it holds no field and leads back to the first
  page (`pagination.go:52-94`), as does one whose last object lacks the field.
  `ListComplete`, `PagesAdvance` and `DeleteComplete` speak of the order of last
  change.
- A PUT of an object that does not exist creates it without looking at its
  headers, so `If-Match` does not refuse it (`ctrl.go:190-200`); a bulk delete
  compares headers with the zero epoch (`ctrl.go:87`). `NoLostUpdate` speaks of
  requests that name the ETag of an object that is there.
- Groups that vanish with their bucket do not go through the group model, so
  users keep their principals until a request replaces, patches or deletes a
  group of that path (`group.go:98-134`). `HoldersAreMembers` leaves them out
  (`orphaned`).
- Buckets are not looked up as parents (`ctrl.go:363`). `ParentsExist` holds
  when `permission.defaults` grant no more than creating buckets, since grants
  vanish with the bucket.
- In PostgreSQL two requests that create the same object may both find that it
  is not there; the second inserts nothing and is told "not found"
  (`statements.go:73`, `storage.go:548`), and the epoch of the namespace moves
  although nothing changed. A create may also commit after the deletion of its
  parent, which `checkParent` does not lock (`ctrl.go:364`), so `ParentsExist` is
  about requests one after the other.
- In PostgreSQL nested objects are found by LIKE, to which `_` and `%` of an ID
  are wildcards (`storage.go:372, 507`). `Beneath` may be any relation.
- In PostgreSQL a PUT with permissions that races a DELETE of the object may
  leave grants without an object, and two PUTs that overlap may leave the grants
  of both: the permission sessions lock rows, not paths
  (`permission.go:389-478`). `GrantsDieWithObject` is about grants from before the
  deletion, `LastWriterGranted` about what the last writer keeps.
- A create that finds such a grant left over has inserted nothing and locked
  nothing (`ON CONFLICT DO NOTHING`, `permission.go:384`), so a deletion of what is
  above that is under way may take it from the new object. `LastWriterGranted`
  leaves that create out (`PutGrant`).
- A deletion takes locks of grants before locks of objects (`model.go:76-100`), a
  PUT the other way round, each in two sessions. When the deletion reaches
  objects it has not fetched with a lock (in bulk, or beneath its path) the two
  may wait for each other for ever, and the database, which sees no circle, does
  not end it. `SinglesEnd` is about requests that reach one object each.
- A payload that grants nothing to anybody, as of an anonymous create without
  permissions, leaves `VALUES` without a row, a syntax error in PostgreSQL
  (`permission.go:360-386`); in memory it succeeds.
- Filters and sort orders differ between the storage backends beyond scalars:
  `like` ignores case and is anchored when it has an asterisk in PostgreSQL, and
  minds case and is never anchored in memory, `contains` and `contains_any` exist in
  PostgreSQL alone, arrays and objects are greatest in jsonb and lowest in
  memory, a stored null is a value to jsonb, strings follow the collation or
  their bytes, and a condition on `id` or `last_modified` converts its parameter
  to the type of the column (`filters.go:24-128`, `query.go:121-301`). `Query` is
  about the other operators and scalars of fields.
- In its very last moment a key is still found in memory and not in PostgreSQL
  (`memory/cache/cache.go:34`, `expires_at > now`). `TtlCache` has it as a
  parameter (`Alive`).
- `Connect` of permissions and cache returns no error of `Prepare`
  (`permission.go:50-56`, `cache.go:45-57`), so a server may start with statements
  missing and fail when they are used (`unready`). The permissions have their pool
  closed by then. The cache starts its pruning all the same (`cache.go:48-55`), by
  a statement that is closed, or nil when it was never prepared: then the first
  tick panics in a goroutine that nothing recovers (`cache.go:115-129`) and the
  process ends with nothing closed (`PrunePanics`). `AllReleased` is about the ways
  out of `run`, not about this one. `Close` of the cache stops its
  pruning and leaves its pool open (`cache.go:94-113`); `AllReleased` counts the
  pools but for this one (`Outliving`).
- A bulk deletion spends its page token (`ctrl.go:103`) before it looks the parent
  up (`ctrl.go:111`), so a 404 commits the spent token. `RefusalsChangeNothing` says
  of such a refusal that nothing is left the token could have deleted. A token is
  not bound to a collection: a client that sends it to another one, which is gone,
  loses it there.
- A signal cancels the base context of every request (`server.go:85`): the server
  goes on accepting, and from then on every database transaction fails to begin,
  and an open one to be written or committed (`Beginnable`, `Cancelled`).
- The batch endpoint announces `batch.max_requests` (`README.md:65`, `mux.go:103`)
  and does not enforce it. It refuses a batch within a batch by the path as
  sent, before it is normalised; the routes it serves have no batch, so nothing
  comes of it. In PostgreSQL a part that fails at a statement has given the
  transaction up, so that the whole batch is answered 503 when it comes to be committed.

## Not modelled, and the plan

- Wording, JSON, HTTP headers, routing, logging, password hashing, configuration
  and the backoff headers: sequential code without state a property could be
  about.
- Merge patches of nested JSON and the normalising of paths and query strings:
  recursion over text, for which the repository's own tests are the better tool.
- `like`, `contains` and `contains_any`, which look into values.
- Setting the PostgreSQL schema up: one script that takes effect whole or not at
  all.
- Count and callbacks: the one reads, nothing in the repository registers the
  others.
- Purge and Flush of the PostgreSQL store, which only tests call.

What would come next: `PgRequest` over
versions instead of presence, which would join it with `PgStore`; a commit that
fails between two sessions of a request in `PgRequest`, as `ReqTxn` has it.
