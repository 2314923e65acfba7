--------------------------- MODULE PgRequestProofs ---------------------------
(***************************************************************************)
(* Proofs of the safety properties of PgRequest, for any requests, paths   *)
(* and jobs: what three sessions per request keep apart although nothing   *)
(* orders them in the database.                                            *)
(*                                                                         *)
(* The invariant follows a request through its statements: what it has     *)
(* written and locked by then (Progress, ObjectLocks, GrantLocks), and     *)
(* what others may do to a grant it gave (Standing) or ends (Ended).       *)
(***************************************************************************)
EXTENDS PgRequest, FiniteSetTheorems, TLAPS

PutSteps    == {"put", "update", "merge", "merging", "create", "exists", "insert", "grant"}
DeleteSteps == {"page", "ungrant", "ungranting", "bury", "burying", "nested", "burying nested"}
Stored      == {"stored", "granted", "done"}
Unpaged     == {"new", "delete", "get", "bulk", "spent", "page", "refused"}
Unwritten   == Unpaged \cup {"put", "update", "create", "exists", "insert",
                             "ungrant", "ungranting", "bury", "burying", "failed"}
Unlocked    == Stored \cup {"new", "put", "bulk", "refused", "failed"}
Granting    == {"bury", "burying", "nested", "burying nested", "commit", "stored"}

Bulk(r) == job[r].op = "bulk"
Puts(r) == job[r].op = "put"
Area(r) == page[r] \cup Nested(page[r])   \* what a deletion is about

-----------------------------------------------------------------------------
(* The parts of the invariant, of a request. *)

JobSteps(r) ==
  /\ step[r] \in PutSteps => Puts(r)
  /\ step[r] \in {"delete", "get"} => job[r].op = "delete"
  /\ step[r] \in {"bulk", "spent", "refused"} => Bulk(r)
  /\ step[r] \in DeleteSteps => ~Puts(r)

Progress(r) ==
  /\ step[r] \in Unpaged => page[r] = {}
  /\ step[r] \in Unwritten => wrote[r] = {}
  /\ step[r] \in {"merge", "merging", "grant"} => wrote[r] = job[r].paths
  /\ r \in gave => step[r] \in Stored \cup {"commit"} /\ Puts(r) /\ wrote[r] = job[r].paths
  /\ ~Puts(r) => wrote[r] \subseteq Area(r)
  /\ step[r] \in {"burying", "burying nested"} => found[r] \subseteq Area(r)

ObjectLocks(r) ==
  /\ step[r] \in Unlocked => \A p \in Paths : owner[p] # r
  /\ step[r] \notin Stored => \A p \in wrote[r] : owner[p] = r
  /\ \A p \in Paths \ wrote[r] : owner[p] = r => (p \in live <=> p \in newLive)
  /\ Puts(r) => \A p \in wrote[r] : owner[p] = r => p \in newLive

\* an object to be replaced is there, and locked
Fetched(r) ==
  step[r] \in {"update", "merge", "merging"} => \A p \in job[r].paths : p \in live /\ owner[p] = r

\* the grants found are on what the request is about
Found(r) ==
  /\ step[r] = "ungranting" => \A row \in found[r] : row[1] \in Area(r)
  /\ step[r] = "merging" => \A row \in found[r] : row[1] \in job[r].paths

GrantLocks(r) == step[r] \notin Granting => \A row \in Rows : holder[row] # r

\* who spends the token has it until the end
Spends(r) ==
  /\ Bulk(r) /\ step[r] \in DeleteSteps \cup {"spent", "commit", "stored", "granted"} => token /\ spender = r
  /\ Bulk(r) /\ step[r] = "done" => ~token
  /\ spender = r => Bulk(r)

\* a request that takes a grant away goes on to write the object
Overwrites(d, p) ==
  \/ step[d] = "bury" /\ p \in Area(d)
  \/ step[d] = "burying" /\ p \in found[d] \cup Nested(page[d])
  \/ step[d] = "nested" /\ p \in wrote[d] \cup Nested(page[d])
  \/ step[d] = "burying nested" /\ p \in wrote[d] \cup found[d]
  \/ step[d] = "commit" /\ p \in wrote[d]

\* a grant given to the writer of the object p stands until another writes it
Stands(r, p) ==
  r \in gave /\ (step[r] = "commit" \/ last[p] = r) =>
    LET row == <<p, UserOf[r]>>
    IN  /\ holder[row] = Free => row \in grants
        /\ holder[row] = r => row \in newGrants
        /\ \A d \in Requests \ {r} : holder[row] = d => row \in grants /\ Overwrites(d, p)
        /\ holder[row] # r \/ last[p] = r => p \in live

Standing(r) == \A p \in wrote[r] : Stands(r, p)

\* a grant there since a deletion began is found, locked and ended by it
Ended(r) ==
  \A row \in due[r] \cap grants :
    ~Puts(r) /\ row[1] \in Area(r) =>
      /\ step[r] = "ungranting" => row \in found[r]
      /\ step[r] \in Granting => holder[row] = r /\ row \notin newGrants
      /\ step[r] \notin {"granted", "done"}

LastStored ==
  \A p \in Paths : last[p] \in Requests => p \in wrote[last[p]] /\ step[last[p]] \in Stored

OneSpent == \A r, q \in Requests : Bulk(r) /\ Bulk(q) /\ step[r] = "done" /\ step[q] = "done" => r = q

IInv ==
  /\ TypeOK /\ LastStored /\ OneSpent
  /\ \A r \in Requests : /\ JobSteps(r) /\ Progress(r) /\ Fetched(r) /\ Found(r) /\ ObjectLocks(r) /\ GrantLocks(r)
                         /\ Spends(r) /\ Standing(r) /\ Ended(r)

-----------------------------------------------------------------------------
(* Jobs, locks and steps. *)

LEMMA JobFacts ==
  ASSUME TypeOK, NEW r \in Requests
  PROVE  /\ job[r].paths \subseteq Paths
         /\ job[r].op \in {"put", "delete", "bulk"}
         /\ ~Bulk(r) => \E p \in Paths : job[r].paths = {p}
         /\ Mine(r) = job[r].paths \X {UserOf[r]}
         /\ UserOf[r] \in Grantees
<1>1. job[r] \in Job
  BY JobAssumption DEF TypeOK
<1>2. UserOf[r] \in Grantees
  BY RequestAssumption DEF Grantees
<1>3. job[r].paths \subseteq Paths /\ job[r].op \in {"put", "delete", "bulk"}
  BY <1>1 DEF Job
<1>4. ~Bulk(r) => \E p \in Paths : job[r].paths = {p}
  BY JobAssumption DEF TypeOK, Bulk
<1>5. job[r].paths \X {UserOf[r]} \subseteq Rows
  BY <1>2, <1>3 DEF Rows
<1> QED
  BY <1>2, <1>3, <1>4, <1>5 DEF Mine

LEMMA TakeTyped ==
  ASSUME NEW K, NEW locks \in [K -> Requests \cup {Free}], NEW r \in Requests, NEW S
  PROVE  /\ Take(locks, r, S) \in [K -> Requests \cup {Free}]
         /\ \A k \in K : Take(locks, r, S)[k] = IF k \in S THEN r ELSE locks[k]
         /\ Release(locks, r) \in [K -> Requests \cup {Free}]
         /\ \A k \in K : Release(locks, r)[k] = IF locks[k] = r THEN Free ELSE locks[k]
BY DEF Take, Release

\* A step moves one request.
LEMMA GotoMoves ==
  ASSUME TypeOK, NEW r \in Requests, NEW s, Goto(r, s)
  PROVE  step'[r] = s /\ \A x \in Requests \ {r} : step'[x] = step[x]
BY DEF Goto, TypeOK

LEMMA GotoTyped ==
  ASSUME TypeOK, NEW r \in Requests, NEW s \in Steps, Goto(r, s)
  PROVE  step' \in [Requests -> Steps]
BY DEF Goto, TypeOK

LEMMA NestedTyped == \A S \in SUBSET Paths : Nested(S) \subseteq Paths
BY PathAssumption DEF Nested

LEMMA InitInv == Init => IInv
<1> SUFFICES ASSUME Init PROVE IInv
  OBVIOUS
<1>1. /\ \A r \in Requests : /\ step[r] = "new" /\ found[r] = {} /\ page[r] = {} /\ wrote[r] = {} /\ due[r] = {}
                             /\ job[r] \in Jobs
      /\ live = Present /\ newLive = live /\ token = TRUE /\ spender = Free /\ gave = {}
      /\ \A p \in Paths : owner[p] = Free /\ last[p] = None
      /\ \A row \in Rows : holder[row] = Free
      /\ grants = Present \X {Founder} /\ newGrants = grants
  BY DEF Init
<1>2. TypeOK
  <2>1. grants \subseteq Rows /\ live \subseteq Paths
    BY <1>1, PathAssumption DEF Rows, Grantees
  <2> QED
    BY <1>1, <2>1 DEF TypeOK, Init, Steps
<1>3. LastStored /\ OneSpent
  BY <1>1, RequestAssumption DEF LastStored, OneSpent
<1>4. ASSUME NEW r \in Requests
      PROVE  /\ JobSteps(r) /\ Progress(r) /\ Fetched(r) /\ Found(r) /\ ObjectLocks(r) /\ GrantLocks(r)
             /\ Spends(r) /\ Standing(r) /\ Ended(r)
  <2>1. JobSteps(r) /\ Progress(r) /\ Fetched(r) /\ Found(r) /\ Standing(r) /\ Ended(r)
    BY <1>1 DEF Fetched, Found, JobSteps, Progress, Standing, Ended, PutSteps, DeleteSteps, Unpaged, Unwritten, Stored
  <2>2. ObjectLocks(r) /\ GrantLocks(r) /\ Spends(r)
    BY <1>1, RequestAssumption DEF ObjectLocks, GrantLocks, Spends, DeleteSteps, Stored, Unlocked, Granting
  <2> QED
    BY <2>1, <2>2
<1> QED
  BY <1>2, <1>3, <1>4 DEF IInv

-----------------------------------------------------------------------------
(* Types. *)

\* what a step does to its request's notes
LEMMA NotesTyped ==
  ASSUME TypeOK, NEW r \in Requests, NEW S \in (SUBSET Paths) \cup (SUBSET Rows), NEW P \in SUBSET Paths
  PROVE  /\ [found EXCEPT ![r] = S] \in [Requests -> (SUBSET Paths) \cup (SUBSET Rows)]
         /\ [page EXCEPT ![r] = P] \in [Requests -> SUBSET Paths]
         /\ [wrote EXCEPT ![r] = P] \in [Requests -> SUBSET Paths]
         /\ [wrote EXCEPT ![r] = @ \cup P] \in [Requests -> SUBSET Paths]
BY DEF TypeOK

\* the step goes to one of Steps
LEMMA StepTyped ==
  ASSUME TypeOK, NEW r \in Requests, Step(r) \/ Rollback(r)
  PROVE  /\ step' \in [Requests -> Steps] /\ job' = job
         /\ \A x \in Requests \ {r} : step'[x] = step[x]
<1> USE GotoTyped, GotoMoves, JobFacts DEF Steps
<1>1. CASE Put(r)
  BY <1>1 DEF Put, PutGet, GetForUpdate, PutUpdate, MergeFind, MergeWrite, PutParent, PutExists, PutInsert, PutGrant,
              InStore, InPerms, Reading
<1>2. CASE Delete(r)
  BY <1>2 DEF Delete, DeleteParent, DeleteGet, GetForUpdate, SpendToken, ListPage, UngrantFind, UngrantWrite,
              BuryFind, BuryWrite, InStore, InPerms, Reading
<1>3. CASE Begin(r) \/ CommitStore(r) \/ CommitPerms(r) \/ CommitCache(r) \/ Rollback(r)
  BY <1>3, ZenonT(30) DEF Begin, CommitStore, CommitPerms, CommitCache, Rollback
<1> QED
  BY <1>1, <1>2, <1>3 DEF Step

\* a step takes notes of its own request only
LEMMA NotesMove ==
  ASSUME TypeOK, NEW r \in Requests, Step(r) \/ Rollback(r)
  PROVE  /\ found' \in [Requests -> (SUBSET Paths) \cup (SUBSET Rows)]
         /\ page' \in [Requests -> SUBSET Paths] /\ wrote' \in [Requests -> SUBSET Paths]
         /\ gave' \subseteq Requests /\ due' \in [Requests -> SUBSET Rows]
         /\ \A x \in Requests \ {r} :
              /\ found'[x] = found[x] /\ page'[x] = page[x] /\ wrote'[x] = wrote[x]
              /\ x \in gave' <=> x \in gave
<1> USE DEF TypeOK
<1>1. CASE Begin(r) \/ CommitStore(r) \/ CommitPerms(r) \/ CommitCache(r)
  BY <1>1 DEF Begin, CommitStore, CommitPerms, CommitCache
<1>2. CASE Rollback(r)
  BY <1>2 DEF Rollback
<1>3. CASE PutGet(r) \/ DeleteGet(r) \/ SpendToken(r) \/ PutParent(r) \/ PutExists(r) \/ DeleteParent(r)
  BY <1>3 DEF PutGet, DeleteGet, GetForUpdate, SpendToken, PutParent, PutExists, DeleteParent, InStore, Reading
<1>4. CASE PutUpdate(r) \/ PutInsert(r)
  BY <1>4, JobFacts DEF PutUpdate, PutInsert, InStore
<1>5. CASE BuryWrite(r)
  <2>1. found[r] \cap newLive \subseteq Paths
    OBVIOUS
  <2> QED
    BY <1>5, <2>1 DEF BuryWrite, InStore
<1>6. CASE MergeWrite(r) \/ PutGrant(r) \/ UngrantWrite(r)
  BY <1>6 DEF MergeWrite, PutGrant, UngrantWrite, InPerms
<1>7. CASE MergeFind(r) \/ UngrantFind(r) \/ BuryFind(r)
  <2>1. PICK S \in (SUBSET Paths) \cup (SUBSET Rows) : found' = [found EXCEPT ![r] = S]
    <3>1. \A S : S \subseteq Granted(r) => S \in SUBSET Rows
      BY DEF Granted
    <3>2. \A S : Objects(r) \cap S \in SUBSET Paths
      BY DEF Objects
    <3>3. CASE MergeFind(r)
      <4> DEFINE S == {row \in Granted(r) : row[1] \in job[r].paths} \ Mine(r)
      <4>1. found' = [found EXCEPT ![r] = S]
        BY <3>3 DEF MergeFind
      <4>2. S \subseteq Granted(r)
        OBVIOUS
      <4> HIDE DEF S
      <4> QED
        BY <3>1, <4>1, <4>2
    <3>4. CASE UngrantFind(r)
      <4> DEFINE S == {row \in Granted(r) : row[1] \in page[r] \cup Nested(page[r])}
      <4>1. found' = [found EXCEPT ![r] = S]
        BY <3>4 DEF UngrantFind
      <4>2. S \subseteq Granted(r)
        OBVIOUS
      <4> HIDE DEF S
      <4> QED
        BY <3>1, <4>1, <4>2
    <3>5. CASE BuryFind(r)
      BY <3>2, <3>5 DEF BuryFind
    <3> QED
      BY <1>7, <3>3, <3>4, <3>5
  <2> QED
    BY <1>7, <2>1 DEF MergeFind, UngrantFind, BuryFind, Reading
<1>8. CASE ListPage(r)
  <2>1. job[r].paths \cap Objects(r) \subseteq Paths
    BY JobFacts
  <2> QED
    BY <1>8, <2>1 DEF ListPage, Reading
<1> QED
  BY <1>1, <1>2, <1>3, <1>4, <1>5, <1>6, <1>7, <1>8 DEF Step, Put, Delete

\* a session locks the rows S and writes some of them
Writes(r, S) ==
  /\ Within(owner, r, S) /\ owner' = Take(owner, r, S) /\ S \subseteq Paths
  /\ live' = live /\ last' = last
  /\ newLive' \subseteq Paths /\ \A p \in Paths \ S : p \in newLive' <=> p \in newLive

Regrants(r, S) ==
  /\ Within(holder, r, S) /\ holder' = Take(holder, r, S) /\ S \subseteq Rows
  /\ grants' = grants
  /\ newGrants' \subseteq Rows /\ \A row \in Rows \ S : row \in newGrants' <=> row \in newGrants

\* what the steps of a request do to the objects, and to the grants
LEMMA StoreSteps ==
  ASSUME TypeOK, NEW r \in Requests, Step(r)
  PROVE  \/ store' = store /\ last' = last
         \/ \E S : Writes(r, S)
         \/ CommitStore(r)
<1> USE DEF TypeOK
<1>1. CASE PutGet(r) \/ DeleteGet(r)
  BY <1>1, JobFacts DEF PutGet, DeleteGet, GetForUpdate, InStore, LockObjects, Writes, store
<1>2. CASE PutUpdate(r)
  <2>1. CASE ParentThere(r)
    <3>1. Writes(r, job[r].paths)
      BY <1>2, <2>1, JobFacts DEF PutUpdate, InStore, LockObjects, Writes
    <3> QED
      BY <3>1
  <2> QED
    BY <1>2, <2>1 DEF PutUpdate, InStore, store
<1>3. CASE PutInsert(r)
  <2>1. Writes(r, job[r].paths)
    BY <1>3, JobFacts DEF PutInsert, InStore, LockObjects, Writes
  <2> QED
    BY <2>1
<1>4. CASE BuryWrite(r)
  <2>1. Writes(r, found[r] \cap newLive)
    BY <1>4 DEF BuryWrite, InStore, LockObjects, Writes
  <2> QED
    BY <2>1
<1>5. CASE MergeFind(r) \/ MergeWrite(r) \/ PutParent(r) \/ PutExists(r) \/ PutGrant(r)
  BY <1>5 DEF MergeFind, MergeWrite, PutParent, PutExists, PutGrant, Reading, InPerms
<1>6. CASE DeleteParent(r) \/ SpendToken(r) \/ ListPage(r) \/ UngrantFind(r) \/ UngrantWrite(r) \/ BuryFind(r)
  BY <1>6 DEF DeleteParent, SpendToken, ListPage, UngrantFind, UngrantWrite, BuryFind, Reading, InPerms
<1>7. CASE Begin(r) \/ CommitPerms(r) \/ CommitCache(r)
  BY <1>7 DEF Begin, CommitPerms, CommitCache
<1> QED
  BY <1>1, <1>2, <1>3, <1>4, <1>5, <1>6, <1>7 DEF Step, Put, Delete

LEMMA PermsSteps ==
  ASSUME TypeOK, NEW r \in Requests, Step(r)
  PROVE  \/ perms' = perms
         \/ \E S : Regrants(r, S)
         \/ CommitPerms(r)
<1> USE DEF TypeOK
<1>1. CASE MergeWrite(r)
  <2> DEFINE S == (found[r] \cap newGrants) \cup (Mine(r) \ newGrants)
  <2>1. Mine(r) \subseteq Rows
    BY DEF Mine
  <2>2. Regrants(r, S)
    BY <1>1, <2>1 DEF MergeWrite, InPerms, LockGrants, Regrants
  <2> QED
    BY <2>2
<1>2. CASE PutGrant(r)
  <2>1. Mine(r) \subseteq Rows
    BY DEF Mine
  <2>2. Regrants(r, Mine(r) \ newGrants)
    BY <1>2, <2>1 DEF PutGrant, InPerms, LockGrants, Regrants
  <2> QED
    BY <2>2
<1>3. CASE UngrantWrite(r)
  <2>1. Regrants(r, found[r] \cap newGrants)
    BY <1>3 DEF UngrantWrite, InPerms, LockGrants, Regrants
  <2> QED
    BY <2>1
<1>4. CASE PutGet(r) \/ PutUpdate(r) \/ MergeFind(r) \/ PutParent(r) \/ PutExists(r) \/ PutInsert(r)
  BY <1>4 DEF PutGet, GetForUpdate, PutUpdate, MergeFind, PutParent, PutExists, PutInsert, InStore, Reading
<1>5. CASE DeleteGet(r) \/ DeleteParent(r) \/ SpendToken(r) \/ ListPage(r) \/ UngrantFind(r) \/ BuryFind(r) \/ BuryWrite(r)
  BY <1>5 DEF DeleteGet, GetForUpdate, DeleteParent, SpendToken, ListPage, UngrantFind, BuryFind, BuryWrite, InStore, Reading
<1>6. CASE Begin(r) \/ CommitStore(r) \/ CommitCache(r)
  BY <1>6 DEF Begin, CommitStore, CommitCache
<1> QED
  BY <1>1, <1>2, <1>3, <1>4, <1>5, <1>6 DEF Step, Put, Delete

LEMMA CacheSteps ==
  ASSUME TypeOK, NEW r \in Requests, Step(r)
  PROVE  cache' = cache \/ SpendToken(r) \/ CommitCache(r)
<1>1. CASE Put(r)
  BY <1>1 DEF Put, PutGet, GetForUpdate, PutUpdate, MergeFind, MergeWrite, PutParent, PutExists, PutInsert, PutGrant,
              InStore, InPerms, Reading
<1>2. CASE Delete(r)
  BY <1>2 DEF Delete, DeleteParent, DeleteGet, GetForUpdate, ListPage, UngrantFind, UngrantWrite,
              BuryFind, BuryWrite, InStore, InPerms, Reading
<1>3. CASE Begin(r) \/ CommitStore(r) \/ CommitPerms(r)
  BY <1>3 DEF Begin, CommitStore, CommitPerms
<1> QED
  BY <1>1, <1>2, <1>3 DEF Step

LEMMA LocksTyped ==
  ASSUME TypeOK, NEW r \in Requests
  PROVE  /\ \A S : Writes(r, S) =>
              /\ owner' \in [Paths -> Requests \cup {Free}]
              /\ \A p \in Paths : owner'[p] = IF p \in S THEN r ELSE owner[p]
         /\ \A S : Regrants(r, S) =>
              /\ holder' \in [Rows -> Requests \cup {Free}]
              /\ \A row \in Rows : holder'[row] = IF row \in S THEN r ELSE holder[row]
         /\ owner' = Release(owner, r) =>
              /\ owner' \in [Paths -> Requests \cup {Free}]
              /\ \A p \in Paths : owner'[p] = IF owner[p] = r THEN Free ELSE owner[p]
         /\ holder' = Release(holder, r) =>
              /\ holder' \in [Rows -> Requests \cup {Free}]
              /\ \A row \in Rows : holder'[row] = IF holder[row] = r THEN Free ELSE holder[row]
<1>1. owner \in [Paths -> Requests \cup {Free}] /\ holder \in [Rows -> Requests \cup {Free}]
  BY DEF TypeOK
<1>2. \A S : Writes(r, S) =>
        /\ owner' \in [Paths -> Requests \cup {Free}]
        /\ \A p \in Paths : owner'[p] = IF p \in S THEN r ELSE owner[p]
  BY <1>1, TakeTyped DEF Writes
<1>3. \A S : Regrants(r, S) =>
        /\ holder' \in [Rows -> Requests \cup {Free}]
        /\ \A row \in Rows : holder'[row] = IF row \in S THEN r ELSE holder[row]
  BY <1>1, TakeTyped DEF Regrants
<1> QED
  BY <1>1, <1>2, <1>3, TakeTyped

LEMMA TypeNext == TypeOK /\ [Next]_vars => TypeOK'
<1> SUFFICES ASSUME TypeOK, [Next]_vars PROVE TypeOK'
  OBVIOUS
<1> USE DEF TypeOK
<1>0. CASE UNCHANGED vars
  BY <1>0 DEF vars, store, perms, cache
<1> SUFFICES ASSUME NEW r \in Requests, Step(r) \/ Rollback(r) PROVE TypeOK'
  BY <1>0 DEF Next, Rest
<1> DEFINE StoreTyped == /\ live \subseteq Paths /\ newLive \subseteq Paths
                         /\ owner \in [Paths -> Requests \cup {Free}]
                         /\ last \in [Paths -> Requests \cup {None}]
                         /\ \A p \in Paths : owner[p] = Free => (p \in live <=> p \in newLive)
           PermsTyped == /\ grants \subseteq Rows /\ newGrants \subseteq Rows
                         /\ holder \in [Rows -> Requests \cup {Free}]
                         /\ \A row \in Rows : holder[row] = Free => (row \in grants <=> row \in newGrants)
           CacheTyped == token \in BOOLEAN /\ spender \in Requests \cup {Free}
<1>1. r # Free
  BY RequestAssumption
<1>2. StoreTyped'
  <2>1. CASE store' = store /\ last' = last
    BY <2>1 DEF store
  <2>2. ASSUME NEW S, Writes(r, S) PROVE StoreTyped'
    BY <1>1, <2>2, LocksTyped DEF Writes
  <2>3. CASE CommitStore(r)
    BY <2>3, LocksTyped DEF CommitStore, Objects
  <2>4. CASE Rollback(r)
    BY <2>4, LocksTyped DEF Rollback
  <2> QED
    BY <2>1, <2>2, <2>3, <2>4, StoreSteps
<1>3. PermsTyped'
  <2>1. CASE perms' = perms
    BY <2>1 DEF perms
  <2>2. ASSUME NEW S, Regrants(r, S) PROVE PermsTyped'
    BY <1>1, <2>2, LocksTyped DEF Regrants
  <2>3. CASE CommitPerms(r)
    BY <2>3, LocksTyped DEF CommitPerms, Granted
  <2>4. CASE Rollback(r)
    BY <2>4, LocksTyped DEF Rollback
  <2> QED
    BY <2>1, <2>2, <2>3, <2>4, PermsSteps
<1>4. CacheTyped'
  BY CacheSteps DEF cache, SpendToken, CommitCache, Rollback
<1> QED
  BY <1>2, <1>3, <1>4, StepTyped, NotesMove

-----------------------------------------------------------------------------
(* The parts of the invariant are preserved. *)

\* the statement a request is at, and the next
LEMMA Edges ==
  ASSUME TypeOK, NEW r \in Requests
  PROVE  /\ Begin(r) => step[r] = "new" /\ step'[r] = job[r].op
         /\ PutGet(r) => step[r] = "put" /\ step'[r] \in {"update", "create"}
         /\ PutUpdate(r) => step[r] = "update" /\ step'[r] \in {"merge", "commit"}
         /\ MergeFind(r) => step[r] = "merge" /\ step'[r] = "merging"
         /\ MergeWrite(r) => step[r] = "merging" /\ step'[r] = "commit"
         /\ PutParent(r) => step[r] = "create" /\ step'[r] \in {"exists", "commit"}
         /\ PutExists(r) => step[r] = "exists" /\ step'[r] \in {"insert", "commit"}
         /\ PutInsert(r) => step[r] = "insert" /\ step'[r] \in {"grant", "commit"}
         /\ PutGrant(r) => step[r] = "grant" /\ step'[r] = "commit"
         /\ DeleteParent(r) =>
              /\ step[r] \in {"delete", "spent"}
              /\ step'[r] \in {"commit", IF step[r] = "delete" THEN "get" ELSE "page"}
         /\ DeleteGet(r) => step[r] = "get" /\ step'[r] \in {"page", "commit"}
         /\ SpendToken(r) => step[r] = "bulk" /\ step'[r] = IF token THEN "spent" ELSE "refused"
         /\ ListPage(r) => step[r] = "page" /\ step'[r] = "ungrant"
         /\ UngrantFind(r) => step[r] = "ungrant" /\ step'[r] = "ungranting"
         /\ UngrantWrite(r) => step[r] = "ungranting" /\ step'[r] = "bury"
         /\ BuryFind(r) => \/ step[r] = "bury" /\ step'[r] = "burying"
                           \/ step[r] = "nested" /\ step'[r] = "burying nested"
         /\ BuryWrite(r) => \/ step[r] = "burying" /\ step'[r] = "nested"
                            \/ step[r] = "burying nested" /\ step'[r] = "commit"
         /\ CommitStore(r) => step[r] = "commit" /\ step'[r] = "stored"
         /\ CommitPerms(r) => step[r] = "stored" /\ step'[r] = "granted"
         /\ CommitCache(r) => step[r] = "granted" /\ step'[r] = "done"
         /\ Rollback(r) => step[r] \notin {"new", "refused", "stored", "granted", "done", "failed"} /\ step'[r] = "failed"
<1> USE GotoMoves DEF At
<1>1. /\ PutGet(r) => step[r] = "put" /\ step'[r] \in {"update", "create"}
      /\ DeleteGet(r) => step[r] = "get" /\ step'[r] \in {"page", "commit"}
  BY DEF PutGet, DeleteGet, GetForUpdate
<1>2. /\ PutUpdate(r) => step[r] = "update" /\ step'[r] \in {"merge", "commit"}
      /\ MergeFind(r) => step[r] = "merge" /\ step'[r] = "merging"
      /\ MergeWrite(r) => step[r] = "merging" /\ step'[r] = "commit"
  BY DEF PutUpdate, MergeFind, MergeWrite
<1>3. /\ PutParent(r) => step[r] = "create" /\ step'[r] \in {"exists", "commit"}
      /\ PutExists(r) => step[r] = "exists" /\ step'[r] \in {"insert", "commit"}
      /\ PutInsert(r) => step[r] = "insert" /\ step'[r] \in {"grant", "commit"}
      /\ PutGrant(r) => step[r] = "grant" /\ step'[r] = "commit"
  BY DEF PutParent, PutExists, PutInsert, PutGrant
<1>4. /\ DeleteParent(r) => /\ step[r] \in {"delete", "spent"}
                            /\ step'[r] \in {"commit", IF step[r] = "delete" THEN "get" ELSE "page"}
      /\ SpendToken(r) => step[r] = "bulk" /\ step'[r] = IF token THEN "spent" ELSE "refused"
      /\ ListPage(r) => step[r] = "page" /\ step'[r] = "ungrant"
  BY DEF DeleteParent, SpendToken, ListPage
<1>5. /\ UngrantFind(r) => step[r] = "ungrant" /\ step'[r] = "ungranting"
      /\ UngrantWrite(r) => step[r] = "ungranting" /\ step'[r] = "bury"
  BY DEF UngrantFind, UngrantWrite
<1>6. /\ BuryFind(r) => \/ step[r] = "bury" /\ step'[r] = "burying"
                        \/ step[r] = "nested" /\ step'[r] = "burying nested"
      /\ BuryWrite(r) => \/ step[r] = "burying" /\ step'[r] = "nested"
                         \/ step[r] = "burying nested" /\ step'[r] = "commit"
  BY DEF BuryFind, BuryWrite
<1>7. /\ Begin(r) => step[r] = "new" /\ step'[r] = job[r].op
      /\ CommitStore(r) => step[r] = "commit" /\ step'[r] = "stored"
      /\ CommitPerms(r) => step[r] = "stored" /\ step'[r] = "granted"
      /\ CommitCache(r) => step[r] = "granted" /\ step'[r] = "done"
      /\ Rollback(r) => step[r] \notin {"new", "refused", "stored", "granted", "done", "failed"} /\ step'[r] = "failed"
  BY DEF Begin, CommitStore, CommitPerms, CommitCache, Rollback
<1> QED
  BY <1>1, <1>2, <1>3, <1>4, <1>5, <1>6, <1>7

LEMMA JobStepsNext ==
  ASSUME TypeOK, NEW r \in Requests, JobSteps(r), Progress(r), NEW q \in Requests, Step(q) \/ Rollback(q)
  PROVE  JobSteps(r)'
<1>1. job' = job /\ \A x \in Requests \ {q} : step'[x] = step[x]
  BY StepTyped
<1>2. CASE r # q
  BY <1>1, <1>2 DEF JobSteps, Puts, Bulk
<1>3. CASE r = q
  <2>1. job[r].op \in {"put", "delete", "bulk"} /\ job'[r] = job[r]
    BY <1>1, JobFacts
  <2> USE <2>1 DEF JobSteps, Puts, Bulk, PutSteps, DeleteSteps
  <2>2. CASE Begin(r) \/ CommitStore(r) \/ CommitPerms(r) \/ CommitCache(r) \/ Rollback(r)
    BY <2>2, Edges
  <2>3. CASE Put(r)
    BY <2>3, Edges DEF Put
  <2>4. CASE Delete(r)
    BY <2>4, Edges DEF Delete
  <2> QED
    BY <1>3, <2>2, <2>3, <2>4 DEF Step
<1> QED
  BY <1>2, <1>3

LEMMA ProgressNext ==
  ASSUME TypeOK, NEW r \in Requests, JobSteps(r), Progress(r), NEW q \in Requests, Step(q) \/ Rollback(q)
  PROVE  Progress(r)'
<1>1. job' = job /\ \A x \in Requests \ {q} :
        step'[x] = step[x] /\ found'[x] = found[x] /\ page'[x] = page[x] /\ wrote'[x] = wrote[x] /\ (x \in gave' <=> x \in gave)
  BY StepTyped, NotesMove
<1>2. CASE r # q
  BY <1>1, <1>2 DEF Progress, Puts, Area, Nested
<1>3. CASE r = q
  <2>1. job'[r] = job[r]
    BY <1>1
  <2> USE <2>1, Edges DEF Progress, Puts, Stored, Unpaged, Unwritten
  <2>2. CASE Begin(r)
    BY <2>2, JobFacts DEF Begin, Area, Nested
  <2>3. CASE CommitStore(r) \/ CommitPerms(r) \/ CommitCache(r)
    BY <2>3 DEF CommitStore, CommitPerms, CommitCache, Area, Nested
  <2>4. CASE Rollback(r)
    BY <2>4 DEF Rollback, TypeOK
  <2>5. CASE PutGet(r) \/ PutParent(r) \/ PutExists(r) \/ DeleteGet(r) \/ DeleteParent(r) \/ SpendToken(r)
    BY <2>5 DEF PutGet, DeleteGet, GetForUpdate, PutParent, PutExists, DeleteParent, SpendToken, InStore, Reading,
                Area, Nested, JobSteps, PutSteps
  <2>6. CASE PutUpdate(r) \/ PutInsert(r)
    <3>1. wrote'[r] = wrote[r] \/ wrote'[r] = job[r].paths
      BY <2>6 DEF PutUpdate, PutInsert, TypeOK
    <3>2. step'[r] \in {"merge", "grant"} => wrote'[r] = job[r].paths
      <4>1. wrote' = [wrote EXCEPT ![r] = job[r].paths] \/ Goto(r, "commit")
        BY <2>6 DEF PutUpdate, PutInsert
      <4>2. Goto(r, "commit") => step'[r] = "commit"
        BY GotoMoves
      <4> QED
        BY <4>1, <4>2 DEF TypeOK
    <3>3. gave' = gave /\ page' = page /\ Puts(r)
      BY <2>6 DEF PutUpdate, PutInsert, InStore, JobSteps, PutSteps
    <3> QED
      BY <2>6, <3>1, <3>2, <3>3
  <2>7. CASE MergeFind(r) \/ MergeWrite(r) \/ PutGrant(r)
    BY <2>7 DEF MergeFind, MergeWrite, PutGrant, Reading, InPerms, JobSteps, PutSteps
  <2>8. CASE ListPage(r)
    BY <2>8 DEF ListPage, Reading, JobSteps, DeleteSteps
  <2>9. CASE UngrantFind(r) \/ UngrantWrite(r)
    BY <2>9 DEF UngrantFind, UngrantWrite, Reading, InPerms, Area, Nested, JobSteps, DeleteSteps
  <2>11. CASE BuryFind(r)
    <3>1. found'[r] \subseteq Area(r)
      BY <2>11 DEF BuryFind, Area, TypeOK
    <3> QED
      BY <2>11, <3>1 DEF BuryFind, Reading, Area, Nested, JobSteps, DeleteSteps
  <2>10. CASE BuryWrite(r)
    <3>1. PICK S : wrote'[r] = wrote[r] \cup S /\ S \subseteq found[r]
      BY <2>10, ZenonT(30) DEF BuryWrite, TypeOK
    <3> QED
      BY <2>10, <3>1 DEF BuryWrite, InStore, Area, Nested, JobSteps, DeleteSteps
  <2> QED
    BY <1>3, <2>2, <2>3, <2>4, <2>5, <2>6, <2>7, <2>8, <2>9, <2>10, <2>11 DEF Step, Put, Delete
<1> QED
  BY <1>2, <1>3

\* the locks of one request are not those of another
LEMMA ObjectLocksNext ==
  ASSUME TypeOK, NEW r \in Requests, JobSteps(r), Progress(r), ObjectLocks(r), Progress(r)',
         NEW q \in Requests, Step(q) \/ Rollback(q)
  PROVE  ObjectLocks(r)'
<1>1. job' = job /\ r # Free /\ q # Free
  BY StepTyped, RequestAssumption
<1>2. wrote[r] \subseteq Paths /\ wrote'[r] \subseteq Paths
  BY NotesMove DEF TypeOK
<1> USE DEF ObjectLocks, Puts
<1>3. CASE r # q
  <2>1. step'[r] = step[r] /\ wrote'[r] = wrote[r]
    BY <1>3, StepTyped, NotesMove
  <2>2. CASE store' = store
    BY <1>1, <2>1, <2>2 DEF store
  <2>3. ASSUME NEW S, Writes(q, S) PROVE ObjectLocks(r)'
    <3>1. \A p \in Paths : owner[p] = r \/ owner'[p] = r => p \notin S /\ owner'[p] = owner[p]
      BY <1>1, <1>3, <2>3, LocksTyped DEF Writes, Within
    <3>2. \A p \in Paths : owner'[p] = r => (p \in live' <=> p \in live) /\ (p \in newLive' <=> p \in newLive)
      BY <2>3, <3>1 DEF Writes
    <3> QED
      BY <1>1, <1>2, <2>1, <3>1, <3>2
  <2>4. ASSUME owner' = Release(owner, q),
               \A p \in Paths : owner[p] # q => (p \in live' <=> p \in live) /\ (p \in newLive' <=> p \in newLive)
        PROVE  ObjectLocks(r)'
    <3>1. \A p \in Paths : owner'[p] = r <=> owner[p] = r
      BY <1>1, <1>3, <2>4, LocksTyped
    <3> QED
      BY <1>1, <1>2, <1>3, <2>1, <2>4, <3>1
  <2>5. CASE CommitStore(q)
    BY <2>4, <2>5 DEF CommitStore, Objects, TypeOK
  <2>6. CASE Rollback(q)
    BY <2>4, <2>6 DEF Rollback
  <2> QED
    BY <2>2, <2>3, <2>5, <2>6, StoreSteps
<1>4. CASE r = q
  <2>1. job'[r] = job[r]
    BY <1>1
  <2> USE <2>1
  <2>2. CASE CommitStore(r) \/ Rollback(r)
    <3>1. owner' = Release(owner, r) /\ step'[r] \in Stored \cup {"failed"}
      BY <2>2, Edges DEF CommitStore, Rollback, Stored
    <3>2. \A p \in Paths : owner'[p] # r
      BY <1>1, <3>1, LocksTyped
    <3>3. step'[r] \notin Stored => wrote'[r] = {}
      BY <2>2, <3>1, Edges DEF Progress, Unwritten, Stored
    <3> QED
      BY <1>2, <3>1, <3>2, <3>3 DEF Stored, Unlocked
  <2>3. CASE Begin(r) \/ CommitPerms(r) \/ CommitCache(r)
    <3>1. store' = store /\ wrote' = wrote
      BY <2>3 DEF Begin, CommitPerms, CommitCache
    <3>2. CASE Begin(r)
      BY <3>1, <3>2, Edges DEF store, Progress, Unwritten, Unpaged, Unlocked
    <3>3. CASE CommitPerms(r) \/ CommitCache(r)
      BY <3>1, <3>3, Edges DEF store, Stored, Unlocked
    <3> QED
      BY <2>3, <3>2, <3>3
  <2>4. ASSUME store' = store, wrote' = wrote, step[r] \notin Stored, step'[r] \notin Stored,
               step'[r] \in Unlocked => step[r] \in Unlocked
        PROVE  ObjectLocks(r)'
    BY <2>4 DEF store
  <2>5. CASE MergeFind(r) \/ MergeWrite(r) \/ PutParent(r) \/ PutExists(r) \/ PutGrant(r)
    BY <2>4, <2>5, Edges DEF MergeFind, MergeWrite, PutParent, PutExists, PutGrant, Reading, InPerms, Stored, Unlocked
  <2>6. CASE DeleteParent(r) \/ SpendToken(r) \/ ListPage(r) \/ UngrantFind(r) \/ UngrantWrite(r) \/ BuryFind(r)
    BY <2>4, <2>6, Edges DEF DeleteParent, SpendToken, ListPage, UngrantFind, UngrantWrite, BuryFind, Reading, InPerms,
                             Stored, Unlocked
  <2>7. ASSUME NEW S, Writes(r, S), NEW W, W \subseteq S, wrote'[r] = wrote[r] \cup W,
               step[r] \notin Stored \cup Unlocked, step'[r] \notin Stored \cup Unlocked,
               \A p \in Paths \ W : p \in newLive' <=> p \in newLive,
               Puts(r) => W \subseteq newLive'
        PROVE  ObjectLocks(r)'
    <3>1. \A p \in Paths : owner'[p] = IF p \in S THEN r ELSE owner[p]
      BY <2>7, LocksTyped
    <3>2. live' = live /\ \A p \in S : owner[p] \in {Free, r}
      BY <2>7 DEF Writes, Within
    <3>3. \A p \in wrote'[r] : owner'[p] = r
      BY <1>2, <2>7, <3>1
    <3>4. \A p \in Paths \ wrote'[r] : owner'[p] = r => (p \in live' <=> p \in newLive')
      BY <2>7, <3>1, <3>2 DEF TypeOK
    <3>5. Puts(r) => \A p \in wrote'[r] : owner'[p] = r => p \in newLive'
      BY <1>2, <2>7, <3>3
    <3> QED
      BY <2>7, <3>3, <3>4, <3>5
  <2>11. ASSUME NEW S, Writes(r, S), wrote' = wrote, newLive' = newLive,
                step[r] \notin Stored, step'[r] \notin Stored \cup Unlocked
         PROVE  ObjectLocks(r)'
    <3>1. \A p \in Paths : owner'[p] = IF p \in S THEN r ELSE owner[p]
      BY <2>11, LocksTyped
    <3>2. live' = live /\ \A p \in S : owner[p] \in {Free, r}
      BY <2>11 DEF Writes, Within
    <3> QED
      BY <1>2, <2>11, <3>1, <3>2 DEF TypeOK
  <2>8. CASE PutGet(r) \/ DeleteGet(r)
    <3>1. store' = store \/ Writes(r, job[r].paths)
      BY <2>8, JobFacts DEF PutGet, DeleteGet, GetForUpdate, InStore, LockObjects, Writes, store, TypeOK
    <3>2. newLive' = newLive /\ wrote' = wrote
      BY <2>8 DEF PutGet, DeleteGet, GetForUpdate
    <3>3. step[r] \notin Stored /\ step'[r] \notin Stored \cup Unlocked
      BY <2>8, Edges DEF Stored, Unlocked
    <3>4. ASSUME Writes(r, job[r].paths) PROVE ObjectLocks(r)'
      BY <2>11, <3>2, <3>3, <3>4
    <3> QED
      BY <2>4, <3>1, <3>2, <3>3, <3>4
  <2>9. CASE PutUpdate(r) \/ PutInsert(r)
    <3>1. step[r] \notin Stored \cup Unlocked /\ step'[r] \notin Stored \cup Unlocked /\ wrote[r] = {}
      BY <2>9, Edges DEF Stored, Unlocked, Progress, Unwritten
    <3>2. CASE store' = store /\ wrote' = wrote
      BY <2>4, <3>1, <3>2
    <3>3. ASSUME Writes(r, job[r].paths), newLive' = newLive, wrote' = wrote PROVE ObjectLocks(r)'
      BY <2>7, <3>1, <3>3
    <3>4. ASSUME Writes(r, job[r].paths), newLive' = newLive \cup job[r].paths, wrote'[r] = job[r].paths
          PROVE  ObjectLocks(r)'
      BY <2>7, <3>1, <3>4
    <3>5. PutUpdate(r) => \/ store' = store /\ wrote' = wrote
                          \/ /\ Writes(r, job[r].paths)
                             /\ newLive' = newLive \cup job[r].paths /\ wrote'[r] = job[r].paths
      BY JobFacts DEF PutUpdate, InStore, LockObjects, Writes, store, TypeOK
    <3>6. PutInsert(r) => /\ Writes(r, job[r].paths)
                          /\ \/ newLive' = newLive /\ wrote' = wrote
                             \/ newLive' = newLive \cup job[r].paths /\ wrote'[r] = job[r].paths
      BY JobFacts DEF PutInsert, InStore, LockObjects, Writes, TypeOK
    <3> QED
      BY <2>9, <3>2, <3>3, <3>4, <3>5, <3>6
  <2>10. CASE BuryWrite(r)
    <3> DEFINE S == found[r] \cap newLive
    <3>1. Writes(r, S) /\ newLive' = newLive \ S /\ wrote'[r] = wrote[r] \cup S
      BY <2>10 DEF BuryWrite, InStore, LockObjects, Writes, TypeOK
    <3>2. step[r] \notin Stored \cup Unlocked /\ step'[r] \notin Stored \cup Unlocked /\ ~Puts(r)
      BY <2>10, Edges DEF Stored, Unlocked, JobSteps, DeleteSteps
    <3> HIDE DEF S
    <3> QED
      BY <2>7, <3>1, <3>2
  <2> QED
    BY <1>4, <2>2, <2>3, <2>5, <2>6, <2>8, <2>9, <2>10 DEF Step, Put, Delete
<1> QED
  BY <1>3, <1>4

LEMMA GrantLocksNext ==
  ASSUME TypeOK, NEW r \in Requests, GrantLocks(r), NEW q \in Requests, Step(q) \/ Rollback(q)
  PROVE  GrantLocks(r)'
<1>1. r # Free /\ q # Free
  BY RequestAssumption
<1> USE DEF GrantLocks
<1>2. CASE r # q
  <2>1. step'[r] = step[r]
    BY <1>2, StepTyped
  <2>2. CASE perms' = perms
    BY <2>1, <2>2 DEF perms
  <2>3. ASSUME NEW S, Regrants(q, S) PROVE GrantLocks(r)'
    BY <1>2, <2>1, <2>3, LocksTyped
  <2>4. CASE CommitPerms(q) \/ Rollback(q)
    BY <1>1, <1>2, <2>1, <2>4, LocksTyped DEF CommitPerms, Rollback
  <2> QED
    BY <2>2, <2>3, <2>4, PermsSteps
<1>3. CASE r = q
  <2>1. CASE CommitPerms(r) \/ Rollback(r)
    BY <1>1, <2>1, LocksTyped DEF CommitPerms, Rollback
  <2>2. CASE MergeWrite(r) \/ PutGrant(r) \/ UngrantWrite(r)
    BY <2>2, Edges DEF Granting
  <2>3. CASE Begin(r) \/ CommitStore(r) \/ CommitCache(r)
    BY <2>3, Edges, JobFacts DEF Begin, CommitStore, CommitCache, perms, Granting
  <2>4. CASE PutGet(r) \/ PutUpdate(r) \/ MergeFind(r) \/ PutParent(r) \/ PutExists(r) \/ PutInsert(r)
    BY <2>4, Edges DEF PutGet, GetForUpdate, PutUpdate, MergeFind, PutParent, PutExists, PutInsert, InStore, Reading,
                       perms, Granting
  <2>5. CASE DeleteGet(r) \/ DeleteParent(r) \/ SpendToken(r) \/ ListPage(r) \/ UngrantFind(r) \/ BuryFind(r) \/ BuryWrite(r)
    BY <2>5, Edges DEF DeleteGet, GetForUpdate, DeleteParent, SpendToken, ListPage, UngrantFind, BuryFind, BuryWrite,
                       InStore, Reading, perms, Granting
  <2> QED
    BY <1>3, <2>1, <2>2, <2>3, <2>4, <2>5 DEF Step, Put, Delete
<1> QED
  BY <1>2, <1>3

\* the key of a page is one request's until that ends
LEMMA SpendsNext ==
  ASSUME TypeOK, \A x \in Requests : JobSteps(x) /\ Spends(x), OneSpent,
         NEW q \in Requests, Step(q) \/ Rollback(q)
  PROVE  OneSpent' /\ \A x \in Requests : Spends(x)'
<1> DEFINE Spending == DeleteSteps \cup {"spent", "commit", "stored", "granted"}
<1>1. job' = job /\ \A x \in Requests \ {q} : step'[x] = step[x]
  BY StepTyped
<1>2. q # Free
  BY RequestAssumption
<1> USE DEF Spends, OneSpent, Bulk
<1>7. \A x \in Requests : Bulk(x)' <=> Bulk(x)
  BY <1>1
<1>3. CASE SpendToken(q)
  <2>1. Bulk(q) /\ token' = token /\ step'[q] = (IF token THEN "spent" ELSE "refused")
    BY <1>3, Edges DEF SpendToken, JobSteps
  <2>2. token => spender = Free /\ spender' = q
    BY <1>3 DEF SpendToken
  <2>3. ~token => spender' = spender
    BY <1>3 DEF SpendToken
  <2>4. OneSpent'
    BY <1>1, <2>1
  <2>5. ASSUME NEW x \in Requests, x # q PROVE Spends(x)'
    BY <1>1, <1>2, <2>1, <2>2, <2>3, <2>5, RequestAssumption
  <2>6. Spends(q)'
    BY <1>1, <2>1, <2>2, <2>3 DEF DeleteSteps
  <2> QED
    BY <2>4, <2>5, <2>6
<1>4. CASE CommitCache(q)
  <2>1. /\ step[q] = "granted" /\ step'[q] = "done" /\ token' = (token /\ spender # q)
        /\ spender' = IF spender = q THEN Free ELSE spender
    BY <1>4, Edges DEF CommitCache
  <2>2. Bulk(q) => token /\ spender = q
    BY <2>1
  <2>3. OneSpent'
    BY <1>1, <2>1, <2>2
  <2>4. ASSUME NEW x \in Requests, x # q PROVE Spends(x)'
    <3>1. step'[x] = step[x] /\ job'[x] = job[x]
      BY <1>1, <2>4
    <3>2. spender = x /\ token => spender' = x /\ token'
      BY <2>1, <2>4
    <3>3. spender' = x => spender = x
      BY <1>2, <2>1, <2>4, RequestAssumption
    <3>4. ~token => ~token'
      BY <2>1
    <3> QED
      BY <3>1, <3>2, <3>3, <3>4
  <2>5. Spends(q)'
    BY <1>1, <1>2, <2>1, <2>2 DEF DeleteSteps
  <2> QED
    BY <2>3, <2>4, <2>5
<1>5. CASE Rollback(q)
  <2>1. /\ step[q] # "done" /\ step'[q] = "failed" /\ token' = token
        /\ spender' = IF spender = q THEN Free ELSE spender
    BY <1>5, Edges DEF Rollback
  <2>2. OneSpent'
    BY <1>1, <2>1
  <2>3. ASSUME NEW x \in Requests, x # q PROVE Spends(x)'
    BY <1>1, <1>2, <2>1, <2>3, RequestAssumption
  <2>4. Spends(q)'
    BY <1>1, <1>2, <2>1 DEF DeleteSteps
  <2> QED
    BY <2>2, <2>3, <2>4
<1>6. CASE cache' = cache /\ Step(q)
  <2>1. token' = token /\ spender' = spender
    BY <1>6 DEF cache
  <2>2. step'[q] # "done" \/ CommitCache(q)
    BY <1>6, Edges, JobFacts DEF Step, Put, Delete
  <2>3. Bulk(q) /\ step'[q] \in Spending => step[q] \in Spending \/ SpendToken(q)
    BY <1>6, Edges, JobFacts DEF Step, Put, Delete, JobSteps, Puts, PutSteps, DeleteSteps
  <2> QED
    BY <1>1, <1>3, <1>4, <2>1, <2>2, <2>3
<1> QED
  BY <1>3, <1>4, <1>5, <1>6, CacheSteps

\* whoever is the last to have written an object has committed that
LEMMA LastStoredNext ==
  ASSUME TypeOK, LastStored, NEW q \in Requests, Progress(q), ObjectLocks(q), Step(q) \/ Rollback(q)
  PROVE  LastStored'
<1>1. /\ None \notin Requests /\ \A x \in Requests \ {q} : step'[x] = step[x] /\ wrote'[x] = wrote[x]
  BY StepTyped, NotesMove, RequestAssumption
<1>2. last \in [Paths -> Requests \cup {None}]
  BY DEF TypeOK
<1>3. step[q] \in Stored => step'[q] \in Stored /\ wrote' = wrote
  BY Edges DEF Step, Put, Delete, Stored, CommitPerms, CommitCache
<1>4. CASE last' = last
  BY <1>1, <1>2, <1>3, <1>4 DEF LastStored
<1>5. CASE CommitStore(q)
  <2>1. /\ step'[q] \in Stored /\ wrote' = wrote
        /\ \A p \in Paths : last'[p] = IF p \in wrote[q] THEN q ELSE last[p]
    BY <1>5, Edges DEF CommitStore, Stored
  <2> QED
    BY <1>1, <1>2, <1>3, <2>1 DEF LastStored
<1>6. last' = last \/ CommitStore(q)
  BY StoreSteps DEF Writes, Rollback
<1> QED
  BY <1>4, <1>5, <1>6

-----------------------------------------------------------------------------
(* Grants that end. *)

\* what one request has done to a grant no other undoes
LEMMA HeldStays ==
  ASSUME TypeOK, NEW r \in Requests, NEW q \in Requests \ {r}, Step(q) \/ Rollback(q), NEW row \in Rows, holder[row] = r
  PROVE  /\ holder'[row] = r
         /\ row \in newGrants' <=> row \in newGrants
<1>1. r # Free /\ q # Free
  BY RequestAssumption
<1>2. CASE perms' = perms
  BY <1>2 DEF perms
<1>3. ASSUME NEW S, Regrants(q, S)
      PROVE  holder'[row] = r /\ (row \in newGrants' <=> row \in newGrants)
  BY <1>1, <1>3, LocksTyped DEF Regrants, Within
<1>4. CASE CommitPerms(q)
  BY <1>4, LocksTyped DEF CommitPerms
<1>5. CASE Rollback(q)
  BY <1>5, LocksTyped DEF Rollback
<1> QED
  BY <1>2, <1>3, <1>4, <1>5, PermsSteps

LEMMA EndedNext ==
  ASSUME TypeOK, NEW r \in Requests, JobSteps(r), Progress(r), GrantLocks(r), Ended(r),
         NEW q \in Requests, Step(q) \/ Rollback(q)
  PROVE  Ended(r)'
<1>1. /\ job' = job /\ r # Free /\ q # Free
      /\ \A x \in Requests \ {q} : step'[x] = step[x] /\ found'[x] = found[x] /\ page'[x] = page[x]
  BY StepTyped, NotesMove, RequestAssumption
<1>2. due[r] \subseteq Rows /\ due'[r] \subseteq Rows /\ grants \subseteq Rows /\ grants' \subseteq Rows
  BY NotesMove, TypeNext DEF TypeOK, Next
\* a grant due that is there was there before, and due
<1>3. ~Begin(r) => due'[r] \cap grants' \subseteq due[r] \cap grants
  <2>1. CASE CommitPerms(q)
    BY <2>1 DEF CommitPerms, TypeOK
  <2>2. CASE ~CommitPerms(q)
    <3>1. grants' = grants
      BY <2>2, PermsSteps DEF Regrants, Rollback, perms
    <3>2. ~Begin(r) => due'[r] = due[r]
      BY <2>2 DEF Step, Put, Delete, Begin, TypeOK, PutGet, GetForUpdate, PutUpdate, MergeFind, MergeWrite, PutParent,
                  PutExists, PutInsert, PutGrant, DeleteGet, DeleteParent, SpendToken, ListPage, UngrantFind,
                  UngrantWrite, BuryFind, BuryWrite, CommitStore, CommitCache, Rollback, InStore, InPerms, Reading
    <3> QED
      BY <3>1, <3>2
  <2> QED
    BY <2>1, <2>2
<1>4. CASE r # q
  <2>1. /\ ~Begin(r) /\ step'[r] = step[r] /\ found'[r] = found[r] /\ Area(r)' = Area(r)
        /\ Puts(r)' <=> Puts(r)
    BY <1>1, <1>4, Edges, JobFacts DEF Area, Nested, Puts
  <2>2. \A row \in Rows : holder[row] = r /\ row \notin newGrants => holder'[row] = r /\ row \notin newGrants'
    BY <1>4, HeldStays
  <2> QED
    BY <1>2, <1>3, <2>1, <2>2 DEF Ended
<1>5. CASE r = q
  <2>1. Puts(r)' <=> Puts(r)
    BY <1>1 DEF Puts
  <2>2. CASE Puts(r)
    BY <2>1, <2>2 DEF Ended
  <2>3. CASE Begin(r) \/ DeleteGet(r) \/ DeleteParent(r) \/ SpendToken(r)
    <3>1. page'[r] = {}
      BY <2>3, Edges DEF Begin, DeleteGet, GetForUpdate, DeleteParent, SpendToken, Reading, Progress, Unpaged
    <3>2. Area(r)' = {}
      BY <3>1 DEF Area, Nested
    <3> QED
      BY <3>2 DEF Ended
  <2>4. CASE ListPage(r) \/ Rollback(r)
    BY <2>4, Edges DEF Ended, Granting
  <2>5. CASE UngrantFind(r)
    <3>1. page' = page /\ grants' = grants /\ due' = due /\ step[r] = "ungrant" /\ step'[r] = "ungranting"
      BY <2>5, Edges DEF UngrantFind, Reading, perms
    <3>2. found'[r] = {row \in Granted(r) : row[1] \in Area(r)}
      BY <2>5 DEF UngrantFind, TypeOK, Area
    <3>3. \A row \in grants : row \in Granted(r)
      BY <1>2, <3>1 DEF GrantLocks, Granting, Granted
    <3>4. Area(r)' = Area(r)
      BY <3>1 DEF Area, Nested
    <3> QED
      BY <3>1, <3>2, <3>3, <3>4 DEF Ended, Granting
  <2>6. CASE UngrantWrite(r)
    <3>1. page' = page /\ grants' = grants /\ due' = due /\ step[r] = "ungranting" /\ step'[r] = "bury"
      BY <2>6, Edges DEF UngrantWrite, InPerms
    <3>2. Area(r)' = Area(r)
      BY <3>1 DEF Area, Nested
    <3>3. SUFFICES ASSUME NEW row \in due[r] \cap grants, ~Puts(r), row[1] \in Area(r)
                   PROVE  holder'[row] = r /\ row \notin newGrants'
      BY <2>1, <3>1, <3>2 DEF Ended
    <3>4. row \in Rows /\ row \in found[r]
      BY <1>2, <3>1, <3>3 DEF Ended
    <3>5. holder[row] = Free
      BY <2>6, <3>1, <3>4 DEF UngrantWrite, Within, GrantLocks, Granting
    <3>6. row \in newGrants
      BY <3>4, <3>5 DEF TypeOK
    <3>7. holder' = Take(holder, r, found[r] \cap newGrants) /\ newGrants' = newGrants \ found[r]
      BY <2>6 DEF UngrantWrite, LockGrants
    <3> QED
      BY <3>4, <3>6, <3>7 DEF Take, TypeOK
  <2>7. CASE BuryFind(r) \/ BuryWrite(r) \/ CommitStore(r)
    <3>1. page' = page /\ perms' = perms /\ due' = due
      BY <2>7 DEF BuryFind, BuryWrite, CommitStore, Reading, InStore
    <3>2. step[r] \in Granting /\ step'[r] \in Granting
      BY <2>7, Edges DEF Granting
    <3> QED
      BY <2>1, <3>1, <3>2 DEF Ended, Area, Nested, perms, Granting
  <2>8. CASE CommitPerms(r)
    <3>1. page' = page /\ step[r] = "stored" /\ step'[r] = "granted" /\ grants' = Granted(r)
      BY <2>8, Edges DEF CommitPerms
    <3>2. Area(r)' = Area(r)
      BY <3>1 DEF Area, Nested
    <3>3. SUFFICES ASSUME NEW row \in due'[r] \cap grants', ~Puts(r), row[1] \in Area(r) PROVE FALSE
      BY <2>1, <3>2 DEF Ended
    <3>4. row \in due[r] \cap grants
      BY <1>3, <3>1, Edges
    <3>5. holder[row] = r /\ row \notin newGrants
      BY <3>1, <3>3, <3>4 DEF Ended, Granting
    <3> QED
      BY <3>1, <3>3, <3>5 DEF Granted
  <2>9. CASE CommitCache(r)
    <3>1. page' = page /\ perms' = perms /\ due' = due /\ step[r] = "granted" /\ step'[r] = "done"
      BY <2>9, Edges DEF CommitCache
    <3> QED
      BY <2>1, <3>1 DEF Ended, Area, Nested, perms
  <2>10. ~Puts(r) => ~Put(r)
    BY Edges DEF Put, JobSteps, PutSteps
  <2> QED
    BY <1>5, <2>2, <2>3, <2>4, <2>5, <2>6, <2>7, <2>8, <2>9, <2>10 DEF Step, Delete
<1> QED
  BY <1>4, <1>5

-----------------------------------------------------------------------------
(* Grants that stand. *)

LEMMA FoundNext ==
  ASSUME TypeOK, NEW r \in Requests, Found(r), NEW q \in Requests, Step(q) \/ Rollback(q)
  PROVE  Found(r)'
<1>1. job' = job /\ \A x \in Requests \ {q} : step'[x] = step[x] /\ found'[x] = found[x] /\ page'[x] = page[x]
  BY StepTyped, NotesMove
<1>2. CASE r # q
  BY <1>1, <1>2 DEF Found, Area, Nested
<1>3. CASE MergeFind(r)
  <2>1. found'[r] = {row \in Granted(r) : row[1] \in job[r].paths} \ Mine(r)
    BY <1>3 DEF MergeFind, TypeOK
  <2> QED
    BY <1>1, <1>3, <2>1, Edges DEF Found
<1>4. CASE UngrantFind(r)
  <2>1. found'[r] = {row \in Granted(r) : row[1] \in Area(r)} /\ page' = page
    BY <1>4 DEF UngrantFind, TypeOK, Area
  <2>2. Area(r)' = Area(r)
    BY <2>1 DEF Area, Nested
  <2> QED
    BY <1>4, <2>1, <2>2, Edges DEF Found
<1>5. CASE r = q /\ ~MergeFind(r) /\ ~UngrantFind(r)
  <2>1. step'[r] \notin {"merging", "ungranting"}
    BY <1>5, Edges, JobFacts DEF Step, Put, Delete
  <2> QED
    BY <2>1 DEF Found
<1> QED
  BY <1>2, <1>3, <1>4, <1>5

LEMMA FetchedNext ==
  ASSUME TypeOK, NEW r \in Requests, ObjectLocks(r), Fetched(r), NEW q \in Requests, Step(q) \/ Rollback(q)
  PROVE  Fetched(r)'
<1>1. /\ job' = job /\ r # Free /\ q # Free /\ job[r].paths \subseteq Paths
      /\ \A x \in Requests \ {q} : step'[x] = step[x]
  BY StepTyped, JobFacts, RequestAssumption
<1>2. CASE r # q
  <2>1. ASSUME NEW p \in Paths, p \in live, owner[p] = r PROVE p \in live' /\ owner'[p] = r
    <3>1. CASE store' = store
      BY <2>1, <3>1 DEF store
    <3>2. ASSUME NEW S, Writes(q, S) PROVE p \in live' /\ owner'[p] = r
      BY <1>1, <1>2, <2>1, <3>2, LocksTyped DEF Writes, Within
    <3>3. CASE CommitStore(q) \/ Rollback(q)
      BY <1>1, <1>2, <2>1, <3>3, LocksTyped DEF CommitStore, Rollback, Objects
    <3> QED
      BY <3>1, <3>2, <3>3, StoreSteps
  <2> QED
    BY <1>1, <1>2, <2>1 DEF Fetched
<1>3. CASE PutGet(r)
  <2>1. \A p \in Paths : owner[p] # r
    BY <1>3, Edges DEF ObjectLocks, Unlocked
  <2>2. step'[r] = "update" => job[r].paths \subseteq Objects(r) /\ LockObjects(r, job[r].paths)
    BY <1>3, GotoMoves DEF PutGet, GetForUpdate
  <2>3. live' = live
    BY <1>3 DEF PutGet, GetForUpdate, InStore
  <2> QED
    BY <1>1, <1>3, <2>1, <2>2, <2>3, Edges DEF Fetched, Objects, LockObjects, Take, TypeOK
<1>4. CASE PutUpdate(r)
  <2>1. live' = live /\ (owner' = owner \/ owner' = Take(owner, r, job[r].paths))
    BY <1>4 DEF PutUpdate, InStore, LockObjects
  <2> QED
    BY <1>1, <1>4, <2>1, Edges DEF Fetched, Take, TypeOK
<1>5. CASE MergeFind(r)
  BY <1>1, <1>5, Edges DEF Fetched, MergeFind, Reading, store
<1>6. CASE r = q /\ ~PutGet(r) /\ ~PutUpdate(r) /\ ~MergeFind(r)
  <2>1. step'[r] \notin {"update", "merge", "merging"}
    BY <1>6, Edges, JobFacts DEF Step, Put, Delete
  <2> QED
    BY <2>1 DEF Fetched
<1> QED
  BY <1>2, <1>3, <1>4, <1>5, <1>6

LEMMA RowTyped ==
  ASSUME TypeOK, NEW r \in Requests, NEW p \in Paths
  PROVE  <<p, UserOf[r]>> \in Rows
BY JobFacts DEF Rows

\* its own steps
LEMMA StandsOwn ==
  ASSUME TypeOK, LastStored, NEW r \in Requests,
         JobSteps(r), Progress(r), Progress(r)', Fetched(r), ObjectLocks(r), GrantLocks(r),
         NEW p \in wrote'[r], p \in wrote[r] => Stands(r, p), Step(r) \/ Rollback(r)
  PROVE  Stands(r, p)'
<1> SUFFICES ASSUME r \in gave', step'[r] = "commit" \/ last'[p] = r PROVE Stands(r, p)'
  BY DEF Stands
<1> DEFINE row == <<p, UserOf[r]>>
<1>1. p \in Paths /\ row \in Rows /\ r # Free /\ Free \notin Requests
  BY NotesMove, RowTyped, RequestAssumption
<1>2. step'[r] \in Stored \cup {"commit"} /\ job' = job /\ Puts(r) /\ wrote'[r] = job[r].paths
  BY StepTyped DEF Progress, Puts
<1>3. step[r] \notin Stored => last[p] # r
  BY <1>1, RequestAssumption DEF LastStored
<1>4. CASE MergeWrite(r)
  <2>1. /\ store' = store /\ last' = last /\ grants' = grants /\ step[r] = "merging"
        /\ Within(holder, r, found[r] \cup Mine(r))
        /\ holder' = Take(holder, r, (found[r] \cap newGrants) \cup (Mine(r) \ newGrants))
        /\ newGrants' = (newGrants \ found[r]) \cup Mine(r)
    BY <1>4, Edges DEF MergeWrite, InPerms, LockGrants
  <2>2. p \in live /\ live' = live
    BY <1>2, <2>1 DEF Fetched, store
  <2>3. row \in Mine(r)
    BY <1>1, <1>2 DEF Mine
  <2>4. holder[row] = Free
    BY <1>1, <2>1, <2>3 DEF Within, GrantLocks, Granting
  <2>5. row \in newGrants <=> row \in grants
    BY <1>1, <2>4 DEF TypeOK
  <2>6. holder'[row] = IF row \in (found[r] \cap newGrants) \cup (Mine(r) \ newGrants) THEN r ELSE Free
    BY <1>1, <2>1, <2>4 DEF Take, TypeOK
  <2>7. holder'[row] = Free => row \in grants'
    BY <1>1, <2>1, <2>3, <2>5, <2>6
  <2> QED
    BY <1>1, <2>1, <2>2, <2>3, <2>6, <2>7 DEF Stands
<1>5. CASE PutGrant(r)
  <2>1. /\ store' = store /\ last' = last /\ step[r] = "grant" /\ wrote' = wrote
        /\ holder' = Take(holder, r, Mine(r) \ newGrants) /\ newGrants' = newGrants \cup Mine(r)
        /\ gave' = IF Mine(r) \subseteq newGrants THEN gave ELSE gave \cup {r}
    BY <1>5, Edges DEF PutGrant, InPerms, LockGrants
  <2>2. r \notin gave
    BY <2>1 DEF Progress, Stored
  <2>3. PICK q \in Paths : job[r].paths = {q}
    BY <1>2, JobFacts DEF Puts, Bulk
  <2>4. Mine(r) = {row}
    BY <1>2, <2>3, JobFacts
  <2>5. row \notin newGrants /\ holder'[row] = r /\ row \in newGrants'
    BY <1>1, <2>1, <2>2, <2>4 DEF Take, TypeOK
  <2>6. last'[p] # r
    BY <1>3, <2>1 DEF Stored
  <2> QED
    BY <1>1, <2>5, <2>6 DEF Stands
<1>6. CASE CommitStore(r)
  <2>1. /\ step[r] = "commit" /\ step'[r] = "stored" /\ perms' = perms /\ wrote' = wrote /\ gave' = gave
        /\ found' = found /\ page' = page /\ live' = Objects(r)
    BY <1>6, Edges DEF CommitStore
  <2>2. owner[p] = r /\ p \in newLive
    BY <1>2, <2>1 DEF ObjectLocks, Stored
  <2>3. p \in live'
    BY <1>1, <2>1, <2>2 DEF Objects
  <2>4. Stands(r, p)
    BY <2>1
  <2>5. ASSUME NEW d \in Requests \ {r}, Overwrites(d, p) PROVE Overwrites(d, p)'
    BY <2>1, <2>5, StepTyped DEF Overwrites, Area, Nested
  <2>6. holder'[row] = holder[row] /\ holder[row] \in Requests \cup {Free}
    BY <1>1, <2>1 DEF perms, TypeOK
  <2> QED
    BY <2>1, <2>3, <2>4, <2>5, <2>6 DEF Stands, perms
<1>7. CASE CommitPerms(r)
  <2>1. /\ step[r] = "stored" /\ store' = store /\ last' = last /\ wrote' = wrote /\ gave' = gave
        /\ step'[r] = "granted" /\ found' = found /\ page' = page
        /\ grants' = Granted(r) /\ holder' = Release(holder, r) /\ newGrants' = newGrants
    BY <1>7, Edges DEF CommitPerms
  <2>2. Stands(r, p) /\ r \in gave /\ last[p] = r
    BY <2>1
  <2>3. holder'[row] = IF holder[row] = r THEN Free ELSE holder[row]
    BY <1>1, <2>1, LocksTyped
  <2>4. holder[row] \in Requests \cup {Free}
    BY <1>1 DEF TypeOK
  <2>5. row \in grants' /\ p \in live'
    BY <1>1, <2>1, <2>2, <2>4 DEF Stands, Granted, store
  <2>6. ASSUME NEW d \in Requests \ {r}, holder'[row] = d PROVE Overwrites(d, p)'
    <3>1. holder[row] = d
      BY <1>1, <2>3, <2>6
    <3>2. Overwrites(d, p)
      BY <2>2, <3>1 DEF Stands
    <3> QED
      BY <2>1, <3>2, StepTyped DEF Overwrites, Area, Nested
  <2> QED
    BY <1>1, <2>3, <2>4, <2>5, <2>6 DEF Stands
<1>8. CASE CommitCache(r)
  <2>1. /\ step[r] = "granted" /\ step'[r] = "done" /\ store' = store /\ perms' = perms /\ last' = last /\ wrote' = wrote
        /\ gave' = gave /\ found' = found /\ page' = page
    BY <1>8, Edges DEF CommitCache
  <2>2. Stands(r, p) /\ r \in gave /\ last[p] = r
    BY <2>1
  <2>3. ASSUME NEW d \in Requests \ {r}, Overwrites(d, p) PROVE Overwrites(d, p)'
    BY <2>1, <2>3, StepTyped DEF Overwrites, Area, Nested
  <2>4. holder[row] \in Requests \cup {Free}
    BY <1>1 DEF TypeOK
  <2> QED
    BY <2>1, <2>2, <2>3, <2>4 DEF Stands, store, perms
<1>9. CASE ~(MergeWrite(r) \/ PutGrant(r) \/ CommitStore(r) \/ CommitPerms(r) \/ CommitCache(r))
  <2>1. ~Rollback(r)
    BY <1>2, Edges DEF Stored
  <2>2. step[r] \notin Stored \cup {"commit"}
    BY <1>9, <2>1, Edges DEF Step, Put, Delete, Stored
  <2>3. gave' = gave
    BY <1>9, <2>1 DEF Step, Put, Delete, PutGet, GetForUpdate, PutUpdate, MergeFind, PutParent, PutExists, PutInsert,
                      DeleteGet, DeleteParent, SpendToken, ListPage, UngrantFind, UngrantWrite, BuryFind, BuryWrite, Begin,
                      InStore, InPerms, Reading
  <2> QED
    BY <2>2, <2>3 DEF Progress
<1> QED
  BY <1>4, <1>5, <1>6, <1>7, <1>8, <1>9

\* a request that took the grant away stays about to write the object, and
\* once it has committed that, no other is the last to have written it
LEMMA OverwritesOwn ==
  ASSUME TypeOK, NEW d \in Requests, Progress(d), ObjectLocks(d), NEW p \in Paths, p \in live, Overwrites(d, p), Step(d)
  PROVE  Overwrites(d, p)' \/ (CommitStore(d) /\ p \in wrote[d])
<1>1. /\ step[d] \in {"bury", "burying", "nested", "burying nested", "commit"}
      /\ BuryFind(d) \/ BuryWrite(d) \/ CommitStore(d)
  BY Edges, JobFacts DEF Overwrites, Step, Put, Delete
\* it sees the object unless it has written it
<1>2. p \notin wrote[d] => p \in Objects(d)
  BY DEF ObjectLocks, Objects
<1>3. CASE BuryFind(d)
  <2>1. page' = page /\ wrote' = wrote
    BY <1>3 DEF BuryFind, Reading
  <2>2. found'[d] = Objects(d) \cap (IF At(d, "bury") THEN page[d] ELSE Nested(page[d]))
    BY <1>3 DEF BuryFind, TypeOK
  <2>3. CASE step[d] = "bury"
    <3>1. step'[d] = "burying" /\ wrote[d] = {}
      BY <1>3, <2>3, Edges DEF Progress, Unwritten
    <3>2. p \in found'[d] \cup Nested(page[d])
      BY <1>2, <2>2, <2>3, <3>1 DEF Overwrites, Area, At
    <3> QED
      BY <2>1, <3>1, <3>2 DEF Overwrites, Nested
  <2>4. CASE step[d] = "nested"
    <3>1. step'[d] = "burying nested"
      BY <1>3, <2>4, Edges
    <3>2. p \in found'[d] \cup wrote[d]
      BY <1>2, <2>2, <2>4 DEF Overwrites, At
    <3> QED
      BY <2>1, <3>1, <3>2 DEF Overwrites
  <2> QED
    BY <1>3, <2>3, <2>4, Edges
<1>4. CASE BuryWrite(d)
  <2>1. /\ found' = found /\ page' = page /\ Within(owner, d, found[d])
        /\ wrote'[d] = wrote[d] \cup (found[d] \cap newLive)
    BY <1>4 DEF BuryWrite, InStore, TypeOK
  <2>2. p \in found[d] => p \in wrote'[d]
    <3>1. SUFFICES ASSUME p \in found[d], p \notin wrote[d] PROVE p \in newLive
      BY <2>1
    <3>2. owner[p] \in {Free, d}
      BY <2>1, <3>1 DEF Within
    <3> QED
      BY <3>1, <3>2 DEF ObjectLocks, TypeOK
  <2>3. CASE step[d] = "burying"
    BY <1>4, <2>1, <2>2, <2>3, Edges DEF Overwrites, Nested
  <2>4. CASE step[d] = "burying nested"
    BY <1>4, <2>1, <2>2, <2>4, Edges DEF Overwrites
  <2> QED
    BY <1>4, <2>3, <2>4, Edges
<1>5. CASE CommitStore(d)
  BY <1>5, Edges DEF Overwrites
<1> QED
  BY <1>1, <1>3, <1>4, <1>5

\* the steps of others
LEMMA StandsOthers ==
  ASSUME TypeOK, NEW r \in Requests, Progress(r), ObjectLocks(r),
         NEW q \in Requests \ {r}, JobSteps(q), Progress(q), Found(q), ObjectLocks(q), GrantLocks(q),
         NEW p \in wrote[r], Stands(r, p), Step(q) \/ Rollback(q)
  PROVE  Stands(r, p)'
<1> DEFINE row == <<p, UserOf[r]>>
<1>1. p \in Paths /\ row \in Rows /\ Free \notin Requests /\ holder[row] \in Requests \cup {Free}
  BY RowTyped, RequestAssumption DEF TypeOK
<1>2. /\ job' = job /\ (r \in gave' <=> r \in gave)
      /\ \A x \in Requests \ {q} : step'[x] = step[x] /\ found'[x] = found[x] /\ page'[x] = page[x] /\ wrote'[x] = wrote[x]
  BY StepTyped, NotesMove
<1>3. last'[p] = r => last[p] = r
  BY <1>1, StoreSteps DEF CommitStore, Rollback, Writes
<1> SUFFICES ASSUME r \in gave, step[r] = "commit" \/ last'[p] = r PROVE Stands(r, p)'
  BY <1>2 DEF Stands
<1>4. /\ holder[row] = Free => row \in grants
      /\ holder[row] = r => row \in newGrants
      /\ \A d \in Requests \ {r} : holder[row] = d => row \in grants /\ Overwrites(d, p)
      /\ holder[row] # r \/ last[p] = r => p \in live
  BY <1>3 DEF Stands
<1>5. \A d \in Requests \ {q} : Overwrites(d, p) => Overwrites(d, p)'
  BY <1>2 DEF Overwrites, Area, Nested
\* an object r has not committed yet nobody else writes
<1>6. ~(CommitStore(q) /\ p \in wrote[q])
  <2>1. SUFFICES ASSUME CommitStore(q), p \in wrote[q] PROVE FALSE
    OBVIOUS
  <2>2. owner[p] = q /\ last'[p] = q
    BY <1>1, <2>1, Edges DEF CommitStore, ObjectLocks, Stored
  <2>3. step[r] = "commit" => owner[p] = r
    BY DEF ObjectLocks, Stored
  <2> QED
    BY <2>2, <2>3
<1>7. p \in live => p \in live'
  <2>1. CASE CommitStore(q)
    BY <1>1, <1>6, <2>1 DEF CommitStore, Objects, ObjectLocks
  <2> QED
    BY <2>1, StoreSteps DEF Writes, Rollback, store
<1>8. /\ holder[row] = r => holder'[row] = r
      /\ holder'[row] = r => holder[row] = r /\ row \in newGrants'
  <2>1. holder[row] = r => holder'[row] = r /\ (row \in newGrants' <=> row \in newGrants)
    BY <1>1, HeldStays
  <2>2. holder'[row] = r => holder[row] = r
    <3>1. CASE perms' = perms
      BY <3>1 DEF perms
    <3>2. ASSUME NEW S, Regrants(q, S) PROVE holder'[row] = r => holder[row] = r
      BY <1>1, <3>2, LocksTyped
    <3>3. CASE CommitPerms(q) \/ Rollback(q)
      BY <1>1, <3>3, LocksTyped DEF CommitPerms, Rollback
    <3> QED
      BY <3>1, <3>2, <3>3, PermsSteps
  <2> QED
    BY <1>4, <2>1, <2>2
<1>9. ASSUME NEW d \in Requests \cup {Free}, holder'[row] = d, d # r
      PROVE  row \in grants' /\ (d # Free => Overwrites(d, p)')
  <2>1. CASE perms' = perms /\ Step(q)
    <3>1. holder[row] = q => Overwrites(q, p)'
      BY <1>1, <1>4, <1>6, <2>1, OverwritesOwn
    <3> QED
      BY <1>1, <1>4, <1>5, <1>9, <2>1, <3>1 DEF perms
  <2>2. CASE MergeWrite(q) \/ PutGrant(q) \/ UngrantWrite(q)
    <3>1. holder[row] # q
      BY <1>1, <2>2, Edges DEF GrantLocks, Granting
    <3>2. grants' = grants
      BY <2>2 DEF MergeWrite, PutGrant, UngrantWrite, InPerms
    <3>3. CASE holder'[row] = holder[row]
      BY <1>1, <1>4, <1>5, <1>9, <3>1, <3>2, <3>3
    <3>4. CASE holder'[row] # holder[row]
      <4>1. PICK S : Regrants(q, S)
        BY <2>2, <3>4, PermsSteps, Edges DEF perms
      <4>2. holder[row] = Free /\ holder'[row] = q
        BY <1>1, <3>1, <3>4, <4>1, LocksTyped DEF Regrants, Within
      <4>3. row \in grants /\ row \in newGrants
        BY <1>1, <1>4, <4>2 DEF TypeOK
      <4>4. ~PutGrant(q)
        <5>1. SUFFICES ASSUME PutGrant(q) PROVE FALSE
          OBVIOUS
        <5>2. holder' = Take(holder, q, Mine(q) \ newGrants)
          BY <5>1 DEF PutGrant, LockGrants
        <5> QED
          BY <1>1, <3>4, <4>3, <5>2, TakeTyped DEF TypeOK
      <4>5. row \in found[q]
        <5>1. CASE MergeWrite(q)
          <6>1. holder' = Take(holder, q, (found[q] \cap newGrants) \cup (Mine(q) \ newGrants))
            BY <5>1 DEF MergeWrite, LockGrants
          <6>2. row \in (found[q] \cap newGrants) \cup (Mine(q) \ newGrants)
            BY <1>1, <3>4, <6>1, TakeTyped DEF TypeOK
          <6> QED
            BY <4>3, <6>2
        <5>2. CASE UngrantWrite(q)
          <6>1. holder' = Take(holder, q, found[q] \cap newGrants)
            BY <5>2 DEF UngrantWrite, LockGrants
          <6> QED
            BY <1>1, <3>4, <6>1, TakeTyped DEF TypeOK
        <5> QED
          BY <2>2, <4>4, <5>1, <5>2
      <4>6. Overwrites(q, p)'
        <5>1. CASE MergeWrite(q)
          <6>1. wrote' = wrote /\ step[q] = "merging" /\ step'[q] = "commit"
            BY <5>1, Edges DEF MergeWrite, InPerms
          <6>2. p \in job[q].paths /\ wrote[q] = job[q].paths
            BY <4>5, <6>1 DEF Found, Progress
          <6> QED
            BY <6>1, <6>2 DEF Overwrites
        <5>2. CASE UngrantWrite(q)
          <6>1. page' = page /\ step[q] = "ungranting" /\ step'[q] = "bury"
            BY <5>2, Edges DEF UngrantWrite, InPerms
          <6>2. p \in Area(q)
            BY <4>5, <6>1 DEF Found
          <6> QED
            BY <6>1, <6>2 DEF Overwrites, Area, Nested
        <5> QED
          BY <2>2, <4>4, <5>1, <5>2
      <4> QED
        BY <1>9, <3>2, <4>2, <4>3, <4>6
    <3> QED
      BY <3>3, <3>4
  <2>3. CASE CommitPerms(q)
    <3>1. step[q] = "stored" /\ grants' = Granted(q) /\ holder' = Release(holder, q)
      BY <2>3, Edges DEF CommitPerms
    <3>2. holder[row] # q
      BY <1>1, <1>4, <3>1 DEF Overwrites
    <3>3. holder'[row] = holder[row] /\ (row \in grants' <=> row \in grants)
      BY <1>1, <3>1, <3>2, LocksTyped DEF Granted
    <3> QED
      BY <1>1, <1>4, <1>5, <1>9, <3>2, <3>3
  <2>4. CASE Rollback(q)
    <3>1. grants' = grants /\ holder'[row] = IF holder[row] = q THEN Free ELSE holder[row]
      BY <1>1, <2>4, LocksTyped DEF Rollback
    <3> QED
      BY <1>1, <1>4, <1>5, <1>9, <3>1
  <2>5. perms' = perms \/ MergeWrite(q) \/ PutGrant(q) \/ UngrantWrite(q) \/ CommitPerms(q) \/ Rollback(q)
    BY DEF Step, Put, Delete, PutGet, GetForUpdate, PutUpdate, MergeFind, PutParent, PutExists, PutInsert, DeleteGet,
           DeleteParent, SpendToken, ListPage, UngrantFind, BuryFind, BuryWrite, Begin, CommitStore, CommitCache,
           InStore, Reading
  <2> QED
    BY <2>1, <2>2, <2>3, <2>4, <2>5
<1>10. holder'[row] \in Requests \cup {Free}
  BY <1>1, TypeNext DEF TypeOK, Next
<1>11. holder'[row] = r => row \in newGrants'
  BY <1>8
<1>12. holder'[row] # r \/ last'[p] = r => p \in live'
  BY <1>3, <1>4, <1>7, <1>8
<1> QED
  BY <1>1, <1>9, <1>10, <1>11, <1>12 DEF Stands

-----------------------------------------------------------------------------
(* The invariant and the theorems. *)

LEMMA StandingNext ==
  ASSUME IInv, NEW r \in Requests, Progress(r)', NEW q \in Requests, Step(q) \/ Rollback(q)
  PROVE  Standing(r)'
<1>1. Standing(r)' <=> \A p \in wrote'[r] : Stands(r, p)'
  BY DEF Standing
<1>2. \A p \in wrote[r] : Stands(r, p)
  BY DEF IInv, Standing
<1>3. CASE r = q
  BY <1>1, <1>2, <1>3, StandsOwn DEF IInv
<1>4. CASE r # q
  BY <1>1, <1>2, <1>4, StandsOthers, NotesMove DEF IInv
<1> QED
  BY <1>3, <1>4

LEMMA NextInv == IInv /\ [Next]_vars => IInv'
<1> SUFFICES ASSUME IInv, [Next]_vars PROVE IInv'
  OBVIOUS
<1>1. CASE UNCHANGED vars
  <2> USE <1>1 DEF IInv, vars, store, perms, cache
  <2>1. TypeOK' /\ LastStored' /\ OneSpent'
    BY DEF TypeOK, LastStored, OneSpent, Bulk
  <2>2. ASSUME NEW r \in Requests
        PROVE  JobSteps(r)' /\ Progress(r)' /\ Fetched(r)' /\ Found(r)' /\ ObjectLocks(r)' /\ GrantLocks(r)'
    <3>1. JobSteps(r)' /\ Fetched(r)' /\ GrantLocks(r)'
      BY DEF JobSteps, Fetched, GrantLocks, Puts, Bulk
    <3>2. Progress(r)' /\ Found(r)'
      BY DEF Progress, Found, Area, Nested, Puts
    <3>3. ObjectLocks(r)'
      BY DEF ObjectLocks, Puts
    <3> QED
      BY <3>1, <3>2, <3>3
  <2>3. ASSUME NEW r \in Requests PROVE Spends(r)' /\ Ended(r)'
    BY DEF Spends, Ended, Area, Nested, Puts, Bulk
  <2>4. ASSUME NEW r \in Requests PROVE Standing(r)'
    <3>1. \A d \in Requests, p \in Paths : Overwrites(d, p) => Overwrites(d, p)'
      BY DEF Overwrites, Area, Nested
    <3>2. wrote[r] \subseteq Paths
      BY DEF TypeOK
    <3> QED
      BY <3>1, <3>2 DEF Standing, Stands
  <2> QED
    BY <2>1, <2>2, <2>3, <2>4
<1> SUFFICES ASSUME NEW q \in Requests, Step(q) \/ Rollback(q) PROVE IInv'
  BY <1>1 DEF Next, Rest
<1>2. TypeOK'
  BY TypeNext DEF IInv
<1>3. LastStored'
  BY LastStoredNext DEF IInv
<1>4. OneSpent' /\ \A r \in Requests : Spends(r)'
  BY SpendsNext DEF IInv
<1>5. ASSUME NEW r \in Requests
      PROVE  /\ JobSteps(r)' /\ Progress(r)' /\ Fetched(r)' /\ Found(r)' /\ ObjectLocks(r)' /\ GrantLocks(r)'
             /\ Standing(r)' /\ Ended(r)'
  <2>1. JobSteps(r)' /\ Progress(r)' /\ Fetched(r)' /\ Found(r)'
    BY JobStepsNext, ProgressNext, FetchedNext, FoundNext DEF IInv
  <2>2. ObjectLocks(r)' /\ GrantLocks(r)'
    BY <2>1, ObjectLocksNext, GrantLocksNext DEF IInv
  <2>3. Standing(r)' /\ Ended(r)'
    BY <2>1, StandingNext, EndedNext DEF IInv
  <2> QED
    BY <2>1, <2>2, <2>3
<1> QED
  BY <1>2, <1>3, <1>4, <1>5 DEF IInv

LEMMA Invariance == Spec => []IInv
BY InitInv, NextInv, PTL DEF Spec

\* The variables of the requests and of the database have their types.
THEOREM RequestTypeCorrect == Spec => []TypeOK
BY Invariance, PTL DEF IInv

\* One of the bulk deletions that name the token of a page goes through, at most.
THEOREM OneDeletionPerToken == Spec => []TokenSpentOnce
<1>1. IInv => TokenSpentOnce
  <2> SUFFICES ASSUME IInv PROVE TokenSpentOnce
    OBVIOUS
  <2> DEFINE through == {r \in Requests : job[r].op = "bulk" /\ step[r] = "done"}
  <2>1. \A r, q \in through : r = q
    BY DEF IInv, OneSpent, Bulk
  <2>2. CASE through = {}
    BY <2>2, FS_EmptySet DEF TokenSpentOnce
  <2>3. CASE through # {}
    <3>1. PICK r \in through : through = {r}
      BY <2>1, <2>3
    <3>2. Cardinality(through) = 1
      BY <3>1, FS_Singleton
    <3> QED
      BY <3>2 DEF TokenSpentOnce
  <2> QED
    BY <2>2, <2>3
<1> QED
  BY <1>1, Invariance, PTL

\* The last to have written an object with permissions has them.
THEOREM LastWriterKeepsGrant == Spec => []LastWriterGranted
<1>1. IInv => LastWriterGranted
  <2> SUFFICES ASSUME IInv, NEW p \in Paths, last[p] \in gave, step[last[p]] = "done"
               PROVE  <<p, UserOf[last[p]]>> \in grants
    BY DEF LastWriterGranted
  <2> DEFINE r   == last[p]
             row == <<p, UserOf[r]>>
  <2>1. r \in Requests /\ p \in wrote[r] /\ r \in gave
    BY DEF IInv, TypeOK, LastStored
  <2>2. row \in Rows
    BY <2>1, RowTyped DEF IInv
  <2>3. holder[row] # r
    BY <2>1, <2>2 DEF IInv, GrantLocks, Granting
  <2>4. holder[row] \in Requests \cup {Free}
    BY <2>2 DEF IInv, TypeOK
  <2> QED
    BY <2>1, <2>3, <2>4 DEF IInv, Standing, Stands
<1> QED
  BY <1>1, Invariance, PTL

\* A deletion ends the grants on what it deleted that were there before.
THEOREM DeletionEndsGrants == Spec => []GrantsDieWithObject
<1>1. IInv => GrantsDieWithObject
  <2> SUFFICES ASSUME IInv, NEW r \in Requests, job[r].op # "put", step[r] = "done", NEW row \in due[r] \cap grants
               PROVE  row[1] \notin wrote[r]
    BY DEF GrantsDieWithObject
  <2>1. row[1] \notin Area(r)
    BY DEF IInv, Ended, Puts
  <2> QED
    BY <2>1 DEF IInv, Progress, Puts
<1> QED
  BY <1>1, Invariance, PTL

-----------------------------------------------------------------------------
(* No circle of waits. *)

\* a request locks its object with the first statement that needs it
OneObject(r) ==
  /\ step[r] \in {"create", "exists", "insert", "delete", "get"} => \A p \in Paths : owner[p] # r
  /\ job[r].op = "delete" /\ step[r] \in DeleteSteps => \A p \in job[r].paths : owner[p] = r
  /\ page[r] \subseteq job[r].paths

\* another request's step leaves a request the objects it has locked
LEMMA OwnersKeep ==
  ASSUME TypeOK, NEW q \in Requests, Step(q) \/ Rollback(q), NEW r \in Requests \ {q}, NEW p \in Paths
  PROVE  owner'[p] = r <=> owner[p] = r
<1>1. r # Free /\ q # Free
  BY RequestAssumption
<1>2. CASE store' = store
  BY <1>2 DEF store
<1>3. ASSUME NEW S, Writes(q, S) PROVE owner'[p] = r <=> owner[p] = r
  BY <1>1, <1>3, LocksTyped DEF Writes, Within
<1>4. CASE CommitStore(q) \/ Rollback(q)
  BY <1>1, <1>4, LocksTyped DEF CommitStore, Rollback
<1> QED
  BY <1>2, <1>3, <1>4, StoreSteps

LEMMA FetchLocks ==
  ASSUME TypeOK, NEW r \in Requests
  PROVE  /\ PutGet(r) /\ step'[r] = "create" => owner' = owner
         /\ DeleteGet(r) /\ step'[r] = "page" => owner' = Take(owner, r, job[r].paths)
BY GotoMoves DEF PutGet, DeleteGet, GetForUpdate, LockObjects

LEMMA OneObjectNext ==
  ASSUME TypeOK, NEW r \in Requests, JobSteps(r), Progress(r), ObjectLocks(r), OneObject(r),
         NEW q \in Requests, Step(q) \/ Rollback(q)
  PROVE  OneObject(r)'
<1>1. /\ job' = job /\ job[r].paths \subseteq Paths
      /\ \A x \in Requests \ {q} : step'[x] = step[x] /\ page'[x] = page[x]
  BY StepTyped, NotesMove, JobFacts
<1>2. CASE r # q
  BY <1>1, <1>2, OwnersKeep DEF OneObject
<1>3. CASE r = q
  <2> USE Edges DEF OneObject, DeleteSteps
  <2>1. page'[r] \subseteq job[r].paths
    <3>1. CASE ListPage(r)
      BY <1>1, <3>1 DEF ListPage, TypeOK
    <3>2. CASE ~ListPage(r)
      <4>1. page' = page
        <5>1. CASE Put(r)
          BY <5>1 DEF Put, PutGet, GetForUpdate, PutUpdate, MergeFind, MergeWrite, PutParent, PutExists, PutInsert, PutGrant
        <5>2. CASE Delete(r)
          BY <3>2, <5>2 DEF Delete, DeleteParent, DeleteGet, GetForUpdate, SpendToken, UngrantFind, UngrantWrite,
                            BuryFind, BuryWrite
        <5>3. CASE Begin(r) \/ CommitStore(r) \/ CommitPerms(r) \/ CommitCache(r) \/ Rollback(r)
          BY <5>3 DEF Begin, CommitStore, CommitPerms, CommitCache, Rollback
        <5> QED
          BY <1>3, <5>1, <5>2, <5>3 DEF Step
      <4> QED
        BY <4>1
    <3> QED
      BY <3>1, <3>2
  <2>2. CASE Begin(r)
    <3>1. owner' = owner /\ \A p \in Paths : owner[p] # r
      BY <2>2 DEF Begin, ObjectLocks, Unlocked, store
    <3>2. step'[r] \in {"put", "delete", "bulk"}
      BY <2>2, JobFacts
    <3> QED
      BY <1>1, <2>1, <3>1, <3>2
  <2>3. CASE PutGet(r)
    <3>1. \A p \in Paths : owner[p] # r
      BY <2>3 DEF ObjectLocks, Unlocked
    <3>2. step'[r] = "create" => owner' = owner
      BY <2>3, FetchLocks
    <3> QED
      BY <1>1, <2>1, <2>3, <3>1, <3>2
  <2>4. CASE PutParent(r) \/ PutExists(r) \/ DeleteParent(r)
    <3>1. owner' = owner
      BY <2>4 DEF PutParent, PutExists, DeleteParent, Reading, store
    <3>2. step[r] = "spent" => job[r].op # "delete"
      BY DEF JobSteps, Bulk
    <3> QED
      BY <1>1, <2>1, <2>4, <3>1, <3>2
  <2>5. CASE DeleteGet(r)
    <3>1. step'[r] = "page" => owner' = Take(owner, r, job[r].paths)
      BY <2>5, FetchLocks
    <3>2. step'[r] = "page" => \A p \in job[r].paths : owner'[p] = r
      BY <1>1, <3>1 DEF Take, TypeOK
    <3> QED
      BY <1>1, <2>1, <2>5, <3>2
  <2>6. CASE ListPage(r) \/ UngrantFind(r) \/ UngrantWrite(r) \/ BuryFind(r)
    <3>1. owner' = owner
      BY <2>6 DEF ListPage, UngrantFind, UngrantWrite, BuryFind, Reading, InPerms, store
    <3> QED
      BY <1>1, <2>1, <2>6, <3>1
  <2>7. CASE BuryWrite(r)
    <3>1. owner' = Take(owner, r, found[r] \cap newLive)
      BY <2>7 DEF BuryWrite, LockObjects
    <3>2. \A p \in Paths : owner[p] = r => owner'[p] = r
      BY <3>1 DEF Take, TypeOK
    <3> QED
      BY <1>1, <2>1, <2>7, <3>2
  <2>8. CASE \/ PutUpdate(r) \/ MergeFind(r) \/ MergeWrite(r) \/ PutInsert(r) \/ PutGrant(r) \/ SpendToken(r)
             \/ CommitStore(r) \/ CommitPerms(r) \/ CommitCache(r) \/ Rollback(r)
    BY <1>1, <2>1, <2>8
  <2> QED
    BY <1>3, <2>2, <2>3, <2>4, <2>5, <2>6, <2>7, <2>8 DEF Step, Put, Delete
<1> QED
  BY <1>2, <1>3

\* who waits for an object has locked none, and no grant
LEMMA ObjectFirst ==
  ASSUME IInv, NEW r \in Requests, OneObject(r), ~Bulk(r), Nested(job[r].paths) = {},
         NEW p \in Paths, p \in WantedObjects(r), owner[p] # r
  PROVE  /\ \A o \in Paths : owner[o] # r
         /\ \A row \in Rows : holder[row] # r
<1>1. TypeOK /\ JobSteps(r) /\ Progress(r) /\ Fetched(r) /\ ObjectLocks(r) /\ GrantLocks(r)
  BY DEF IInv
<1>2. step[r] # "update"
  BY <1>1 DEF Fetched, WantedObjects
<1>3. step[r] \notin {"burying", "burying nested"}
  <2> SUFFICES ASSUME step[r] \in {"burying", "burying nested"} PROVE FALSE
    OBVIOUS
  <2>1. job[r].op = "delete"
    BY <1>1, JobFacts DEF JobSteps, DeleteSteps, Puts, Bulk
  <2>2. p \in Area(r)
    BY <1>1 DEF WantedObjects, Progress
  <2>3. Area(r) \subseteq job[r].paths
    BY DEF OneObject, Area, Nested
  <2> QED
    BY <2>1, <2>2, <2>3 DEF OneObject, DeleteSteps
<1>4. step[r] \in {"put", "get", "insert"}
  BY <1>2, <1>3 DEF WantedObjects
<1> QED
  BY <1>1, <1>4 DEF OneObject, ObjectLocks, Unlocked, GrantLocks, Granting

\* Requests for single objects do not wait for each other in a circle: a row of
\* waits, across all sessions, is two long at most.
THEOREM SinglesWaitInOrder == Spec => []SinglesWaitShort
<1> DEFINE Inv == \A r \in Requests : OneObject(r)
<1>1. Init => Inv
  BY DEF Init, OneObject, DeleteSteps
<1>2. IInv /\ Inv /\ [Next]_vars => Inv'
  <2> SUFFICES ASSUME IInv, Inv, [Next]_vars, NEW r \in Requests PROVE OneObject(r)'
    OBVIOUS
  <2>1. CASE UNCHANGED vars
    BY <2>1 DEF OneObject, vars, store
  <2>2. ASSUME NEW q \in Requests, Step(q) \/ Rollback(q) PROVE OneObject(r)'
    BY <2>2, OneObjectNext DEF IInv
  <2> QED
    BY <2>1, <2>2 DEF Next, Rest
<1>3. IInv /\ Inv => SinglesWaitShort
  <2> SUFFICES ASSUME IInv, Inv, \A r \in Requests : ~Bulk(r) /\ Nested(job[r].paths) = {},
                      NEW r \in Requests, NEW x \in WaitsFor(r), NEW y \in WaitsFor(x)
               PROVE  WaitsFor(y) = {}
    BY DEF SinglesWaitShort, Bulk
  <2>1. /\ x \in Requests /\ y \in Requests
        /\ \A z \in Requests : step[z] # "bulk" /\ GrantLocks(z) /\ OneObject(z)
    BY DEF WaitsFor, IInv, JobSteps
  <2>2. (\E p \in Paths : owner[p] = x) \/ (\E row \in Rows : holder[row] = x)
    BY <2>1 DEF WaitsFor, At
  <2>3. \E row \in Rows : holder[row] = y
    <3>1. \A p \in Paths : p \in WantedObjects(x) => owner[p] = x
      BY <2>1, <2>2, ObjectFirst
    <3>2. y # x
      BY DEF WaitsFor
    <3> QED
      BY <2>1, <3>1, <3>2 DEF WaitsFor, At
  <2>4. step[y] \in Granting
    BY <2>1, <2>3 DEF GrantLocks
  <2>5. WantedGrants(y) = {}
    BY <2>4 DEF WantedGrants, At, Granting
  <2>6. \A p \in Paths : p \in WantedObjects(y) => owner[p] = y
    BY <2>1, <2>3, ObjectFirst
  <2> QED
    BY <2>1, <2>5, <2>6 DEF WaitsFor, At
<1>4. Spec => []Inv
  BY <1>1, <1>2, Invariance, PTL DEF Spec
<1> QED
  BY <1>3, <1>4, Invariance, PTL

=============================================================================
