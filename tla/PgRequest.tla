------------------------------ MODULE PgRequest ------------------------------
(***************************************************************************)
(* Concurrent requests with all three backends in PostgreSQL.  A request   *)
(* has three database sessions, one per backend (pkg/api/txn.go), so the   *)
(* database knows nothing of the order between what it does in one and in  *)
(* another, and they are committed one after the other.                    *)
(*                                                                         *)
(* A step is a statement.  One that may wait is two steps: it finds rows   *)
(* in what was committed when it began and its session wrote, and later    *)
(* locks them, tests them again and writes.  Locks last until the session  *)
(* ends.  A request whose statement fails, or whose client goes away, is   *)
(* rolled back.                                                            *)
(*                                                                         *)
(* Objects are there or not; PgStore models their versions.  Users are     *)
(* granted write permission above every path, so that no request is        *)
(* forbidden, and a write with permissions asks for those of its user.     *)
(* Commits that fail are modelled by ReqTxn.                               *)
(***************************************************************************)
EXTENDS Naturals, FiniteSets

CONSTANTS
  Requests,
  Users,
  UserOf,   \* [Requests -> Users]
  Founder,  \* another principal, granted every object at first
  Paths,    \* (path, id) of storage_objects
  Parent,   \* [Paths -> Paths and what is above them]
  Beneath,  \* [Paths -> SUBSET Paths]: the paths LIKE the path + "/%"
  Present,  \* the objects there at first
  Jobs,     \* bound: what requests do
  Free,     \* nobody
  None

Grantees == Users \cup {Founder}
Rows     == Paths \X Grantees  \* permission_paths, of one permission
Job      == [op : {"put", "delete", "bulk"}, paths : SUBSET Paths, grants : BOOLEAN]

ASSUME RequestAssumption ==
  /\ UserOf \in [Requests -> Users] /\ Free \notin Requests /\ None \notin Requests
  /\ Founder \notin Users
ASSUME PathAssumption ==
  /\ DOMAIN Parent = Paths /\ Beneath \in [Paths -> SUBSET Paths] /\ Present \subseteq Paths
ASSUME JobAssumption ==
  /\ Jobs \subseteq Job
  /\ \A j \in Jobs : j.op # "bulk" => \E p \in Paths : j.paths = {p}

VARIABLES
  job,       \* what each request is to do
  step,      \* the statement it is at
  found,     \* what the statement it is in has found: rows or objects
  page,      \* the objects a deletion is to delete
  live,      \* the objects as committed
  newLive,   \* the objects by the latest version of each row
  owner,     \* the request whose store session has locked a row
  grants,    \* the rows of permission_paths as committed
  newGrants, \* by their latest version
  holder,    \* the request whose permission session has locked a row
  token,     \* the key of a page is in cache_keys
  spender,   \* the request whose cache session has deleted it
  wrote,     \* history: the objects each request wrote
  gave,      \* history: the requests that gave their user a grant, or merged it
  last,      \* history: the request that last wrote an object and committed that
  due        \* history: the grants there when a request began, not given again since

store == <<live, newLive, owner>>
perms == <<grants, newGrants, holder>>
cache == <<token, spender>>
vars  == <<job, step, found, page, store, perms, cache, wrote, gave, last, due>>

Init ==
  /\ job \in [Requests -> Jobs]
  /\ step = [r \in Requests |-> "new"]
  /\ found = [r \in Requests |-> {}] /\ page = found /\ wrote = found /\ due = found
  /\ live = Present /\ newLive = live
  /\ owner = [p \in Paths |-> Free]
  /\ grants = Present \X {Founder} /\ newGrants = grants
  /\ holder = [row \in Rows |-> Free]
  /\ token = TRUE /\ spender = Free
  /\ gave = {}
  /\ last = [p \in Paths |-> None]

-----------------------------------------------------------------------------
(* What a session sees, and locks. *)

Objects(r) == {p \in Paths : IF owner[p] = r THEN p \in newLive ELSE p \in live}
Granted(r) == {row \in Rows : IF holder[row] = r THEN row \in newGrants ELSE row \in grants}

Mine(r)    == Rows \cap (job[r].paths \X {UserOf[r]})
At(r, s)   == step[r] = s
Goto(r, s) == step' = [step EXCEPT ![r] = s]

\* Mutant of Take: nothing is locked.
TakeNothing(locks, r, S) == locks

\* locks of either kind are waited for, and then held
Take(locks, r, S) == [k \in DOMAIN locks |-> IF k \in S THEN r ELSE locks[k]]
Within(locks, r, S) == \A k \in S : locks[k] \in {Free, r}

LockObjects(r, S) == Within(owner, r, S) /\ owner' = Take(owner, r, S)
LockGrants(r, S)  == Within(holder, r, S) /\ holder' = Take(holder, r, S)

\* the request is in its store session, or in its permission session
InStore(r) == UNCHANGED <<job, live, perms, cache, gave, last, due>>
InPerms(r) == UNCHANGED <<job, grants, store, cache, wrote, last, due>>
Reading(r) == UNCHANGED <<job, store, perms, cache, wrote, gave, last, due>>

\* checkParent, without a lock
ParentThere(r) ==
  \A p \in job[r].paths : Parent[p] \in Paths => Parent[p] \in Objects(r)

-----------------------------------------------------------------------------
(* Controller.Update: PUT of an object, with or without permissions. *)

\* Store.Get with a lock of the request's object
GetForUpdate(r, there, gone) ==
  /\ UNCHANGED <<found, page, newLive, wrote>> /\ InStore(r)
  /\ \/ job[r].paths \subseteq Objects(r) /\ LockObjects(r, job[r].paths) /\ Goto(r, there)
     \/ ~(job[r].paths \subseteq Objects(r)) /\ UNCHANGED owner /\ Goto(r, gone)

PutGet(r) == At(r, "put") /\ GetForUpdate(r, "update", "create")

PutUpdate(r) ==
  /\ At(r, "update") /\ UNCHANGED <<found, page>> /\ InStore(r)
  /\ IF ParentThere(r)
     THEN /\ LockObjects(r, job[r].paths)
          /\ newLive' = newLive \cup job[r].paths
          /\ wrote' = [wrote EXCEPT ![r] = job[r].paths]
          /\ Goto(r, IF job[r].grants THEN "merge" ELSE "commit")
     ELSE UNCHANGED <<newLive, owner, wrote>> /\ Goto(r, "commit")

\* MergePermissions, one statement: it finds the grants to replace ...
MergeFind(r) ==
  /\ At(r, "merge") /\ Reading(r) /\ UNCHANGED page
  /\ found' = [found EXCEPT ![r] = {row \in Granted(r) : row[1] \in job[r].paths} \ Mine(r)]
  /\ Goto(r, "merging")

\* ... and deletes those still there; its INSERT waits for a row in conflict
\* that is not committed, and does nothing if one is there
MergeWrite(r) ==
  LET changed == (found[r] \cap newGrants) \cup (Mine(r) \ newGrants)
  IN  /\ At(r, "merging") /\ InPerms(r) /\ UNCHANGED <<found, page>>
      /\ Within(holder, r, found[r] \cup Mine(r)) /\ LockGrants(r, changed)
      /\ newGrants' = (newGrants \ found[r]) \cup Mine(r)
      /\ gave' = gave \cup {r}
      /\ Goto(r, "commit")

\* createOrGet: the parent must be there ...
PutParent(r) ==
  /\ At(r, "create") /\ Reading(r) /\ UNCHANGED <<found, page>>
  /\ Goto(r, IF ParentThere(r) THEN "exists" ELSE "commit")

\* ... and the object not, for it is sent instead
PutExists(r) ==
  /\ At(r, "exists") /\ Reading(r) /\ UNCHANGED <<found, page>>
  /\ Goto(r, IF job[r].paths \cap Objects(r) = {} THEN "insert" ELSE "commit")

\* an object created since is left alone, but stays locked
PutInsert(r) ==
  /\ At(r, "insert") /\ InStore(r) /\ UNCHANGED <<found, page>>
  /\ LockObjects(r, job[r].paths)
  /\ IF job[r].paths \subseteq newLive
     THEN UNCHANGED <<newLive, wrote>> /\ Goto(r, "commit")
     ELSE /\ newLive' = newLive \cup job[r].paths
          /\ wrote' = [wrote EXCEPT ![r] = job[r].paths]
          /\ Goto(r, "grant")

\* Mutant of PutGrant: a grant the session sees is not given again.
PutGrantMissing(r) ==
  /\ At(r, "grant") /\ InPerms(r) /\ UNCHANGED <<found, page>>
  /\ LockGrants(r, Mine(r) \ Granted(r))
  /\ newGrants' = newGrants \cup (Mine(r) \ Granted(r))
  /\ gave' = IF Mine(r) \subseteq newGrants THEN gave ELSE gave \cup {r}
  /\ Goto(r, "commit")

\* CreatePermissions: INSERT ... ON CONFLICT DO NOTHING; a grant left over from
\* an object deleted before is not locked
PutGrant(r) ==
  /\ At(r, "grant") /\ InPerms(r) /\ UNCHANGED <<found, page>>
  /\ Within(holder, r, Mine(r)) /\ LockGrants(r, Mine(r) \ newGrants)
  /\ newGrants' = newGrants \cup Mine(r)
  /\ gave' = IF Mine(r) \subseteq newGrants THEN gave ELSE gave \cup {r}
  /\ Goto(r, "commit")

Put(r) == PutGet(r) \/ PutUpdate(r) \/ MergeFind(r) \/ MergeWrite(r)
          \/ PutParent(r) \/ PutExists(r) \/ PutInsert(r) \/ PutGrant(r)

-----------------------------------------------------------------------------
(* Controller.Delete and DeleteBulk. *)

\* Mutant of DeleteParent: the object is not fetched with a lock.
DeleteUnfetched(r) ==
  /\ At(r, "delete") \/ At(r, "spent")
  /\ Reading(r) /\ UNCHANGED <<found, page>>
  /\ Goto(r, IF ParentThere(r) THEN "page" ELSE "commit")

\* an object is fetched next, the objects of a page are listed
DeleteParent(r) ==
  /\ At(r, "delete") \/ At(r, "spent")
  /\ Reading(r) /\ UNCHANGED <<found, page>>
  /\ Goto(r, IF ~ParentThere(r) THEN "commit" ELSE IF At(r, "delete") THEN "get" ELSE "page")

DeleteGet(r) == At(r, "get") /\ GetForUpdate(r, "page", "commit")

\* Mutant of SpendToken: the key is looked up and deleted later, without a lock.
SpendUnlocked(r) ==
  /\ At(r, "bulk") /\ UNCHANGED <<job, found, page, store, perms, token, wrote, gave, last, due>>
  /\ spender' = IF token THEN r ELSE spender
  /\ Goto(r, IF token THEN "spent" ELSE "refused")

\* Cache.Del of the token's nonce: DELETE ... RETURNING
SpendToken(r) ==
  /\ At(r, "bulk") /\ UNCHANGED <<job, found, page, store, perms, token, wrote, gave, last, due>>
  /\ IF token THEN spender = Free /\ spender' = r /\ Goto(r, "spent")
              ELSE UNCHANGED spender /\ Goto(r, "refused")

\* the object got, or those listed without a lock
ListPage(r) ==
  /\ At(r, "page") /\ Reading(r) /\ UNCHANGED found
  /\ page' = [page EXCEPT ![r] = job[r].paths \cap Objects(r)]
  /\ Goto(r, "ungrant")

Nested(S) == UNION {Beneath[p] : p \in S}

\* Mutant of UngrantFind: the grants beneath are not looked for.
UngrantFindOwn(r) ==
  /\ At(r, "ungrant") /\ Reading(r) /\ UNCHANGED page
  /\ found' = [found EXCEPT ![r] = {row \in Granted(r) : row[1] \in page[r]}]
  /\ Goto(r, "ungranting")

\* DeletePermissions, which comes before the objects are deleted
UngrantFind(r) ==
  /\ At(r, "ungrant") /\ Reading(r) /\ UNCHANGED page
  /\ found' = [found EXCEPT ![r] = {row \in Granted(r) : row[1] \in page[r] \cup Nested(page[r])}]
  /\ Goto(r, "ungranting")

UngrantWrite(r) ==
  /\ At(r, "ungranting") /\ InPerms(r) /\ UNCHANGED <<found, page, gave>>
  /\ Within(holder, r, found[r]) /\ LockGrants(r, found[r] \cap newGrants)
  /\ newGrants' = newGrants \ found[r]
  /\ Goto(r, "bury")

\* Store.Delete and DeleteAll: the page, and then what is nested beneath it
BuryFind(r) ==
  /\ At(r, "bury") \/ At(r, "nested")
  /\ Reading(r) /\ UNCHANGED page
  /\ found' = [found EXCEPT ![r] =
       Objects(r) \cap (IF At(r, "bury") THEN page[r] ELSE Nested(page[r]))]
  /\ Goto(r, IF At(r, "bury") THEN "burying" ELSE "burying nested")

BuryWrite(r) ==
  /\ At(r, "burying") \/ At(r, "burying nested")
  /\ InStore(r) /\ UNCHANGED <<found, page>>
  /\ Within(owner, r, found[r]) /\ LockObjects(r, found[r] \cap newLive)
  /\ newLive' = newLive \ found[r]
  /\ wrote' = [wrote EXCEPT ![r] = @ \cup (found[r] \cap newLive)]
  /\ Goto(r, IF At(r, "burying") THEN "nested" ELSE "commit")

Delete(r) == DeleteParent(r) \/ DeleteGet(r) \/ SpendToken(r) \/ ListPage(r)
             \/ UngrantFind(r) \/ UngrantWrite(r) \/ BuryFind(r) \/ BuryWrite(r)

-----------------------------------------------------------------------------
(* The life of a request (NewTxn, Txn.Commit and Txn.Rollback). *)

Begin(r) ==
  /\ At(r, "new") /\ Goto(r, job[r].op)
  /\ due' = [due EXCEPT ![r] = grants]
  /\ UNCHANGED <<job, found, page, store, perms, cache, wrote, gave, last>>

Release(locks, r) == [k \in DOMAIN locks |-> IF locks[k] = r THEN Free ELSE locks[k]]

CommitStore(r) ==
  /\ At(r, "commit") /\ Goto(r, "stored")
  /\ live' = Objects(r) /\ owner' = Release(owner, r)
  /\ last' = [p \in Paths |-> IF p \in wrote[r] THEN r ELSE last[p]]
  /\ UNCHANGED <<job, found, page, newLive, perms, cache, wrote, gave, due>>

CommitPerms(r) ==
  /\ At(r, "stored") /\ Goto(r, "granted")
  /\ grants' = Granted(r) /\ holder' = Release(holder, r)
  /\ due' = [x \in Requests |-> due[x] \ (Granted(r) \ grants)]
  /\ UNCHANGED <<job, found, page, store, newGrants, cache, wrote, gave, last>>

CommitCache(r) ==
  /\ At(r, "granted") /\ Goto(r, "done")
  /\ token' = (token /\ spender # r)
  /\ spender' = IF spender = r THEN Free ELSE spender
  /\ UNCHANGED <<job, found, page, store, perms, wrote, gave, last, due>>

\* before the first commit
Rollback(r) ==
  /\ step[r] \notin {"new", "refused", "stored", "granted", "done", "failed"}
  /\ Goto(r, "failed")
  /\ newLive' = {p \in Paths : IF owner[p] = r THEN p \in live ELSE p \in newLive}
  /\ owner' = Release(owner, r)
  /\ newGrants' = {row \in Rows : IF holder[row] = r THEN row \in grants ELSE row \in newGrants}
  /\ holder' = Release(holder, r)
  /\ spender' = IF spender = r THEN Free ELSE spender
  /\ wrote' = [wrote EXCEPT ![r] = {}] /\ gave' = gave \ {r}
  /\ UNCHANGED <<job, found, page, live, grants, token, last, due>>

\* what the request itself does, which it does whenever it can
Step(r) == Begin(r) \/ Put(r) \/ Delete(r) \/ CommitStore(r) \/ CommitPerms(r) \/ CommitCache(r)

Over(r) == step[r] \in {"refused", "done", "failed"}

Rest == (\A r \in Requests : Over(r)) /\ UNCHANGED vars

Next == (\E r \in Requests : Step(r) \/ Rollback(r)) \/ Rest

Spec == Init /\ [][Next]_vars /\ \A r \in Requests : WF_vars(Step(r))

-----------------------------------------------------------------------------
(* Properties. *)

Steps == {"new", "put", "update", "merge", "merging", "create", "exists", "insert", "grant", "delete", "get",
          "bulk", "spent", "page", "ungrant", "ungranting", "bury", "burying", "nested", "burying nested",
          "commit", "stored", "granted", "refused", "done", "failed"}

\* The variables have their types, and only locked rows have a version that is
\* not committed.
TypeOK ==
  /\ job \in [Requests -> Jobs] /\ step \in [Requests -> Steps]
  /\ found \in [Requests -> (SUBSET Paths) \cup (SUBSET Rows)]
  /\ page \in [Requests -> SUBSET Paths] /\ wrote \in [Requests -> SUBSET Paths]
  /\ live \subseteq Paths /\ newLive \subseteq Paths
  /\ owner \in [Paths -> Requests \cup {Free}]
  /\ grants \subseteq Rows /\ newGrants \subseteq Rows
  /\ holder \in [Rows -> Requests \cup {Free}]
  /\ token \in BOOLEAN /\ spender \in Requests \cup {Free}
  /\ gave \subseteq Requests /\ last \in [Paths -> Requests \cup {None}]
  /\ due \in [Requests -> SUBSET Rows]
  /\ \A p \in Paths : owner[p] = Free => (p \in live <=> p \in newLive)
  /\ \A row \in Rows : holder[row] = Free => (row \in grants <=> row \in newGrants)

\* The token of a page lets one bulk deletion through, however many name it at
\* once: another waits for the first and finds it spent, unless that failed.
TokenSpentOnce ==
  Cardinality({r \in Requests : job[r].op = "bulk" /\ step[r] = "done"}) <= 1

\* Whoever's write with permissions was the last to be committed has them, also
\* when other writes and deletions were under way: their permission sessions
\* commit after their store sessions have let the row go.  The exception is a
\* create that found the grant left over from an earlier object: it has locked
\* nothing, and a deletion of what is above may still take the grant away.
LastWriterGranted ==
  \A p \in Paths :
    last[p] \in gave /\ step[last[p]] = "done" => <<p, UserOf[last[p]]>> \in grants

\* A deletion ends every grant on the objects it deleted that was there before
\* it began, whatever other requests do with the same grants meanwhile, unless
\* one of them gave it again.
GrantsDieWithObject ==
  \A r \in Requests :
    job[r].op # "put" /\ step[r] = "done" => \A row \in due[r] \cap grants : row[1] \notin wrote[r]

\* Requests for single objects with nothing beneath them never wait for each
\* other in a circle across their sessions, which the database would not see:
\* every one of them ends.
SinglesEnd ==
  (\A r \in Requests : job[r].op # "bulk" /\ Nested(job[r].paths) = {})
    => <>(\A r \in Requests : Over(r))

\* the rows the statement a request is at locks, or waits for
WantedObjects(r) ==
  IF step[r] \in {"put", "get", "update", "insert"} THEN job[r].paths
  ELSE IF step[r] \in {"burying", "burying nested"} THEN found[r] ELSE {}

WantedGrants(r) ==
  IF At(r, "merging") THEN found[r] \cup Mine(r)
  ELSE IF At(r, "grant") THEN Mine(r)
  ELSE IF At(r, "ungranting") THEN found[r] ELSE {}

WaitsFor(r) ==
  {x \in Requests \ {r} :
     \/ \E p \in Paths : p \in WantedObjects(r) /\ owner[p] = x
     \/ \E row \in Rows : row \in WantedGrants(r) /\ holder[row] = x
     \/ At(r, "bulk") /\ token /\ spender = x}

\* Why they do not: who waits for an object has nothing that others wait for,
\* and who has a grant waits for nothing.  Of three requests that wait for each
\* other in a row the last one can go on, so there is no circle.
SinglesWaitShort ==
  (\A r \in Requests : job[r].op # "bulk" /\ Nested(job[r].paths) = {})
    => \A r, x, y \in Requests : x \in WaitsFor(r) /\ y \in WaitsFor(x) => WaitsFor(y) = {}
=============================================================================
