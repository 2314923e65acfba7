-------------------------- MODULE PermTablesProofs --------------------------
(***************************************************************************)
(* Theorems about MemPerms and PermTables: both permission backends answer *)
(* alike after any calls, since the tables of the one are what the maps of *)
(* the other say, also once a rollback has put its undo log back; and the  *)
(* transactions of the one in memory are all or nothing.                   *)
(***************************************************************************)
EXTENDS PermTables, TLAPS

\* The rows that stand for the users' principals, and for what is granted.
UserRows(us)  == {row \in Users \X Groups : row[2] \in us[row[1]]}
GrantRows(ps) == {row \in Paths \X Perms \X Principals : row[3] \in ps[row[1]][row[2]]}

\* Undoing the log of a transaction that did not flush yields what it began with.
Undo ==
  ~flushed => /\ Restored(xusers, users) = base.users
              /\ Restored(xperms, perms) = base.perms

\* No transaction, nothing to undo.
Closed == ~open => ~flushed /\ xusers = NoUserLog /\ xperms = NoPermLog

Alike ==
  /\ principalRows = UserRows(users)
  /\ pathRows = GrantRows(perms)
  /\ open /\ ~flushed => begun = [principals |-> UserRows(base.users), paths |-> GrantRows(base.perms)]

IInv == TypeOK /\ Undo /\ Closed /\ Alike

-----------------------------------------------------------------------------
(* The undo log. *)

LEMMA Sentinels == NotSaved \notin SUBSET Groups /\ NotSaved \notin Grants
BY SentinelAssumption

\* Entries that a call changes are saved before, unless they are already.
LEMMA SavedRestores ==
  ASSUME NEW K, NEW V, NotSaved \notin V, NEW log \in [K -> {NotSaved} \cup V],
         NEW old \in [K -> V], NEW new \in [K -> V], NEW S,
         \A k \in K \ S : new[k] = old[k]
  PROVE  /\ Saved(log, old, S) \in [K -> {NotSaved} \cup V]
         /\ ~flushed => Restored(Saved(log, old, S), new) = Restored(log, old)
<1>1. CASE flushed
  BY <1>1 DEF Saved
<1>2. CASE ~flushed
  <2> DEFINE saved == Saved(log, old, S)
  <2>1. saved = [k \in K |-> IF k \in S /\ log[k] = NotSaved THEN old[k] ELSE log[k]]
    BY <1>2 DEF Saved
  <2>2. saved \in [K -> {NotSaved} \cup V]
    BY <2>1
  <2>3. \A k \in K : (IF saved[k] = NotSaved THEN new[k] ELSE saved[k])
                       = (IF log[k] = NotSaved THEN old[k] ELSE log[k])
    BY <2>1
  <2>4. DOMAIN saved = K /\ DOMAIN log = K
    BY <2>1
  <2> HIDE DEF saved
  <2>5. Restored(saved, new) = Restored(log, old)
    BY <2>3, <2>4 DEF Restored
  <2> QED BY <2>2, <2>5 DEF saved
<1> QED BY <1>1, <1>2

\* A call that saves the users it changes leaves what their log restores alone.
LEMMA UserLog ==
  ASSUME TypeOK, NEW S, users' \in UserTable, \A u \in Users \ S : users'[u] = users[u]
  PROVE  /\ Saved(xusers, users, S) \in [Users -> {NotSaved} \cup SUBSET Groups]
         /\ ~flushed => Restored(Saved(xusers, users, S), users') = Restored(xusers, users)
<1> DEFINE Held == SUBSET Groups
<1>1. /\ NotSaved \notin Held /\ xusers \in [Users -> {NotSaved} \cup Held]
      /\ users \in [Users -> Held] /\ users' \in [Users -> Held]
  BY Sentinels DEF TypeOK, UserTable
<1> HIDE DEF Held
<1>2. /\ Saved(xusers, users, S) \in [Users -> {NotSaved} \cup Held]
      /\ ~flushed => Restored(Saved(xusers, users, S), users') = Restored(xusers, users)
  BY ONLY <1>1, SavedRestores, \A k \in Users \ S : users'[k] = users[k], SMTT(30)
<1> QED BY <1>2 DEF Held

\* The same of paths.
LEMMA GrantLog ==
  ASSUME TypeOK, NEW S, perms' \in PermTable, \A p \in Paths \ S : perms'[p] = perms[p]
  PROVE  /\ Saved(xperms, perms, S) \in [Paths -> {NotSaved} \cup Grants]
         /\ ~flushed => Restored(Saved(xperms, perms, S), perms') = Restored(xperms, perms)
<1>1. /\ NotSaved \notin Grants /\ xperms \in [Paths -> {NotSaved} \cup Grants]
      /\ perms \in [Paths -> Grants] /\ perms' \in [Paths -> Grants]
  BY Sentinels DEF TypeOK, PermTable
<1> QED
  BY ONLY <1>1, SavedRestores, \A k \in Paths \ S : perms'[k] = perms[k], SMTT(30)

LEMMA RestoredType ==
  ASSUME NEW K, NEW V, NEW log \in [K -> {NotSaved} \cup V], NEW current \in [K -> V]
  PROVE  Restored(log, current) \in [K -> V]
BY DEF Restored

\* An empty log undoes nothing.
LEMMA NothingLogged ==
  TypeOK => Restored(NoUserLog, users) = users /\ Restored(NoPermLog, perms) = perms
<1> SUFFICES ASSUME TypeOK
             PROVE  Restored(NoUserLog, users) = users /\ Restored(NoPermLog, perms) = perms
  OBVIOUS
<1>1. Restored(NoUserLog, users) = [u \in Users |-> users[u]]
  BY DEF Restored, NoUserLog
<1>2. Restored(NoPermLog, perms) = [p \in Paths |-> perms[p]]
  BY DEF Restored, NoPermLog
<1> QED BY <1>1, <1>2 DEF TypeOK, UserTable, PermTable

-----------------------------------------------------------------------------
(* Calls. *)

\* A call on users keeps the invariant if it saves what it changes and the
\* statement changes the rows alike.
LEMMA UserCall ==
  ASSUME IInv, NEW S, OnUsers(S), users' \in UserTable,
         \A u \in Users \ S : users'[u] = users[u],
         SetPrincipals(UserRows(users'))
  PROVE  IInv'
<1>1. /\ open /\ xusers' = Saved(xusers, users, S) /\ perms' = perms /\ open' = open
      /\ flushed' = flushed /\ xperms' = xperms /\ base' = base
      /\ principalRows' = UserRows(users') /\ pathRows' = pathRows /\ begun' = begun
  BY DEF OnUsers, SetPrincipals
<1>2. /\ xusers' \in [Users -> {NotSaved} \cup SUBSET Groups]
      /\ ~flushed => Restored(xusers', users') = Restored(xusers, users)
  BY <1>1, UserLog DEF IInv
<1> QED BY <1>1, <1>2 DEF IInv, TypeOK, Undo, Closed, Alike

LEMMA GrantCall ==
  ASSUME IInv, NEW S, OnPerms(S), perms' \in PermTable,
         \A p \in Paths \ S : perms'[p] = perms[p],
         SetPaths(GrantRows(perms'))
  PROVE  IInv'
<1>1. /\ open /\ xperms' = Saved(xperms, perms, S) /\ users' = users /\ open' = open
      /\ flushed' = flushed /\ xusers' = xusers /\ base' = base
      /\ pathRows' = GrantRows(perms') /\ principalRows' = principalRows /\ begun' = begun
  BY DEF OnPerms, SetPaths
<1>2. /\ xperms' \in [Paths -> {NotSaved} \cup Grants]
      /\ ~flushed => Restored(xperms', perms') = Restored(xperms, perms)
  BY <1>1, GrantLog DEF IInv
<1> QED BY <1>1, <1>2 DEF IInv, TypeOK, Undo, Closed, Alike

-----------------------------------------------------------------------------
(* Each call, in both backends. *)

LEMMA UserCalls ==
  ASSUME IInv, NEW group \in Groups, NEW us \in SUBSET Users
  PROVE  /\ AddUserPrincipal(group, us) /\ SqlAddUserPrincipal(group, us) => IInv'
         /\ RemoveUserPrincipal(group, us) /\ SqlRemoveUserPrincipal(group, us) => IInv'
<1>1. users \in UserTable /\ principalRows = UserRows(users)
  BY DEF IInv, TypeOK, Alike
<1>2. ASSUME AddUserPrincipal(group, us), SqlAddUserPrincipal(group, us) PROVE IInv'
  <2>1. users' = [u \in Users |-> IF u \in us THEN users[u] \cup {group} ELSE users[u]]
    BY <1>2 DEF AddUserPrincipal
  <2>2. users' \in UserTable /\ \A u \in Users \ us : users'[u] = users[u]
    BY <1>1, <2>1 DEF UserTable
  <2>3. principalRows \cup (us \X {group}) = UserRows(users')
    BY <1>1, <2>1 DEF UserRows, UserTable
  <2> QED BY <1>2, <2>2, <2>3, UserCall DEF AddUserPrincipal, SqlAddUserPrincipal
<1>3. ASSUME RemoveUserPrincipal(group, us), SqlRemoveUserPrincipal(group, us) PROVE IInv'
  <2> DEFINE S == {u \in us : users[u] # {}}
  <2>1. users' = [u \in Users |-> IF u \in us THEN users[u] \ {group} ELSE users[u]]
    BY <1>3 DEF RemoveUserPrincipal
  <2>2. users' \in UserTable /\ \A u \in Users \ S : users'[u] = users[u]
    BY <1>1, <2>1 DEF UserTable
  <2>3. {row \in principalRows : ~(row[2] = group /\ row[1] \in us)} = UserRows(users')
    BY <1>1, <2>1 DEF UserRows, UserTable
  <2>4. OnUsers(S) /\ SetPrincipals(UserRows(users'))
    BY <1>3, <2>3 DEF RemoveUserPrincipal, SqlRemoveUserPrincipal
  <2> HIDE DEF S
  <2> QED BY <2>2, <2>4, UserCall
<1> QED BY <1>2, <1>3

LEMMA PurgeCall ==
  ASSUME IInv, NEW groups \in SUBSET Groups,
         PurgeUserPrincipals(groups), SqlPurgeUserPrincipals(groups)
  PROVE  IInv'
<1> DEFINE S == {u \in Users : groups # {} /\ users[u] # {}}
<1>1. users \in UserTable /\ principalRows = UserRows(users)
  BY DEF IInv, TypeOK, Alike
<1>2. users' = [u \in Users |-> users[u] \ groups]
  BY DEF PurgeUserPrincipals
<1>3. users' \in UserTable /\ \A u \in Users \ S : users'[u] = users[u]
  BY <1>1, <1>2 DEF UserTable
<1>4. {row \in principalRows : row[2] \notin groups} = UserRows(users')
  BY <1>1, <1>2 DEF UserRows, UserTable
<1>5. OnUsers(S) /\ SetPrincipals(UserRows(users'))
  BY <1>4 DEF PurgeUserPrincipals, SqlPurgeUserPrincipals
<1> HIDE DEF S
<1> QED BY <1>3, <1>5, UserCall

LEMMA PrincipalCalls ==
  ASSUME IInv, NEW path \in Paths, NEW perm \in Perms, NEW principal \in Grantees
  PROVE  /\ AddACEPrincipal(principal, path, perm) /\ SqlAddACEPrincipal(principal, path, perm) => IInv'
         /\ RemoveACEPrincipal(principal, path, perm) /\ SqlRemoveACEPrincipal(principal, path, perm)
              => IInv'
<1>1. perms \in PermTable /\ pathRows = GrantRows(perms) /\ principal \in Principals
  BY GranteesAssumption DEF IInv, TypeOK, Alike
<1>2. ASSUME AddACEPrincipal(principal, path, perm), SqlAddACEPrincipal(principal, path, perm) PROVE IInv'
  <2>1. perms' = [perms EXCEPT ![path][perm] = @ \cup {principal}]
    BY <1>2 DEF AddACEPrincipal
  <2>2. perms' \in PermTable /\ \A p \in Paths \ {path} : perms'[p] = perms[p]
    BY <1>1, <2>1 DEF PermTable, Grants
  <2>3. pathRows \cup {<<path, perm, principal>>} = GrantRows(perms')
    BY <1>1, <2>1 DEF GrantRows, PermTable, Grants
  <2> QED BY <1>2, <2>2, <2>3, GrantCall DEF AddACEPrincipal, SqlAddACEPrincipal
<1>3. ASSUME RemoveACEPrincipal(principal, path, perm), SqlRemoveACEPrincipal(principal, path, perm)
      PROVE  IInv'
  <2> DEFINE S == {path} \cap {p \in Paths : perms[p] # NoGrants}
  <2>1. perms' = [perms EXCEPT ![path][perm] = @ \ {principal}]
    BY <1>3 DEF RemoveACEPrincipal
  <2>2. perms' \in PermTable /\ \A p \in Paths \ {path} : perms'[p] = perms[p]
    BY <1>1, <2>1 DEF PermTable, Grants
  <2>3. perms[path] = NoGrants => perms'[path] = perms[path]
    BY <1>1, <2>1 DEF PermTable, Grants, NoGrants
  <2>4. pathRows \ {<<path, perm, principal>>} = GrantRows(perms')
    BY <1>1, <2>1 DEF GrantRows, PermTable, Grants
  <2>5. OnPerms(S) /\ SetPaths(GrantRows(perms')) /\ \A p \in Paths \ S : perms'[p] = perms[p]
    BY <1>3, <2>2, <2>3, <2>4 DEF RemoveACEPrincipal, SqlRemoveACEPrincipal
  <2> HIDE DEF S
  <2> QED BY <2>2, <2>5, GrantCall
<1> QED BY <1>2, <1>3

\* What a payload asks for is of the types of the tables.
LEMMA PayloadFacts ==
  ASSUME NEW payload \in Payloads
  PROVE  DOMAIN payload \subseteq Perms /\ \A perm \in DOMAIN payload : payload[perm] \subseteq Principals
BY GranteesAssumption DEF Payloads

LEMMA PayloadCalls ==
  ASSUME IInv, NEW path \in Paths, NEW payload \in Payloads
  PROVE  /\ CreatePermissions(path, payload) /\ SqlCreatePermissions(path, payload) => IInv'
         /\ MergePermissions(path, payload) /\ SqlMergePermissions(path, payload) => IInv'
<1>1. perms \in PermTable /\ pathRows = GrantRows(perms)
  BY DEF IInv, TypeOK, Alike
<1>2. DOMAIN payload \subseteq Perms /\ \A perm \in DOMAIN payload : payload[perm] \subseteq Principals
  BY PayloadFacts
<1>3. ASSUME CreatePermissions(path, payload), SqlCreatePermissions(path, payload) PROVE IInv'
  <2> DEFINE granted == [perm \in Perms |-> IF perm \in DOMAIN payload
                                             THEN perms[path][perm] \cup payload[perm] ELSE perms[path][perm]]
  <2>1. perms' = [perms EXCEPT ![path] = granted]
    BY <1>3 DEF CreatePermissions
  <2>2. granted \in Grants
    BY <1>1, <1>2 DEF PermTable, Grants
  <2>3. perms' \in PermTable /\ \A p \in Paths \ {path} : perms'[p] = perms[p]
    BY <1>1, <2>1, <2>2 DEF PermTable
  <2>4. perms'[path] = granted
    BY <1>1, <2>1 DEF PermTable
  <2>5. pathRows \cup Tuples(path, payload) = GrantRows(perms')
    BY <1>1, <1>2, <2>3, <2>4 DEF GrantRows, Tuples
  <2> QED BY <1>3, <2>3, <2>5, GrantCall DEF CreatePermissions, SqlCreatePermissions
<1>4. ASSUME MergePermissions(path, payload), SqlMergePermissions(path, payload) PROVE IInv'
  <2> DEFINE granted == [perm \in Perms |-> IF perm \in DOMAIN payload
                                             THEN payload[perm] ELSE perms[path][perm]]
  <2>1. perms' = [perms EXCEPT ![path] = granted]
    BY <1>4 DEF MergePermissions
  <2>2. granted \in Grants
    BY <1>1, <1>2 DEF PermTable, Grants
  <2>3. perms' \in PermTable /\ \A p \in Paths \ {path} : perms'[p] = perms[p]
    BY <1>1, <2>1, <2>2 DEF PermTable
  <2>4. perms'[path] = granted
    BY <1>1, <2>1 DEF PermTable
  <2> DEFINE gone  == {row \in pathRows : /\ row[1] = path
                                          /\ row[2] \in DOMAIN payload
                                          /\ row[3] \notin payload[row[2]]}
             added == Tuples(path, payload) \ pathRows
  <2>5. (pathRows \ gone) \cup added = GrantRows(perms')
    BY <1>1, <1>2, <2>3, <2>4 DEF GrantRows, Tuples
  <2>6. SetPaths(GrantRows(perms'))
    BY <1>4, <2>5 DEF SqlMergePermissions
  <2> QED BY <1>4, <2>3, <2>6, GrantCall DEF MergePermissions
<1> QED BY <1>3, <1>4

LEMMA DeleteCall ==
  ASSUME IInv, NEW paths \in SUBSET Paths, DeletePermissions(paths), SqlDeletePermissions(paths)
  PROVE  IInv'
<1> DEFINE gone == paths \cup UNION {Beneath[p] : p \in paths}
           S    == {p \in gone : perms[p] # NoGrants}
<1>1. perms \in PermTable /\ pathRows = GrantRows(perms)
  BY DEF IInv, TypeOK, Alike
<1>2. perms' = [p \in Paths |-> IF p \in gone THEN NoGrants ELSE perms[p]] /\ OnPerms(S)
  BY DEF DeletePermissions
<1>3. perms' \in PermTable /\ \A p \in Paths \ S : perms'[p] = perms[p]
  BY <1>1, <1>2 DEF PermTable, Grants, NoGrants
<1>4. \A q \in Paths : q \in gone <=> ~(\A p \in paths : q # p /\ q \notin Beneath[p])
  OBVIOUS
<1>5. {row \in pathRows : \A p \in paths : row[1] # p /\ row[1] \notin Beneath[p]}
        = {row \in pathRows : row[1] \notin gone}
  <2>1. \A row \in pathRows : row[1] \in Paths
    BY <1>1 DEF GrantRows
  <2> HIDE DEF gone
  <2> QED BY <1>4, <2>1
<1> HIDE DEF gone
<1>6. {row \in pathRows : row[1] \notin gone} = GrantRows(perms')
  BY <1>1, <1>2 DEF GrantRows, PermTable, Grants, NoGrants
<1>7. SetPaths(GrantRows(perms'))
  BY <1>5, <1>6 DEF SqlDeletePermissions
<1> HIDE DEF S
<1> QED BY <1>2, <1>3, <1>7, GrantCall

-----------------------------------------------------------------------------
(* The life of a transaction. *)

LEMMA BeginCall == ASSUME IInv, Begin, SqlBegin PROVE IInv'
<1>1. /\ ~open /\ open' /\ UNCHANGED <<users, perms, flushed, xusers, xperms, base>>
      /\ begun' = [principals |-> principalRows, paths |-> pathRows]
      /\ principalRows' = principalRows /\ pathRows' = pathRows /\ open' \in BOOLEAN
  BY DEF Begin, SqlBegin
<1>2. ~flushed /\ base.users = users /\ base.perms = perms
  BY <1>1, NothingLogged DEF IInv, Closed, Undo
<1> QED BY <1>1, <1>2 DEF IInv, TypeOK, Undo, Closed, Alike

\* What Discard leaves is consistent with any content.
LEMMA DiscardCall ==
  ASSUME Discard, users' \in UserTable, perms' \in PermTable,
         principalRows' = UserRows(users'), pathRows' = GrantRows(perms')
  PROVE  IInv'
<1>1. /\ open' = FALSE /\ flushed' = FALSE /\ xusers' = NoUserLog /\ xperms' = NoPermLog
      /\ base' = [users |-> users', perms |-> perms']
  BY DEF Discard
<1>2. xusers' \in [Users -> {NotSaved} \cup SUBSET Groups] /\ xperms' \in [Paths -> {NotSaved} \cup Grants]
  BY <1>1 DEF NoUserLog, NoPermLog
<1>3. TypeOK'
  BY <1>1, <1>2 DEF TypeOK
<1>4. Restored(NoUserLog, users') = users' /\ Restored(NoPermLog, perms') = perms'
  <2>1. Restored(NoUserLog, users') = [u \in Users |-> users'[u]]
    BY DEF Restored, NoUserLog
  <2>2. Restored(NoPermLog, perms') = [p \in Paths |-> perms'[p]]
    BY DEF Restored, NoPermLog
  <2> QED BY <2>1, <2>2 DEF UserTable, PermTable
<1> QED BY <1>1, <1>3, <1>4 DEF IInv, Undo, Closed, Alike, Restored, NoUserLog, NoPermLog

LEMMA CommitCall == ASSUME IInv, Commit, SqlCommit PROVE IInv'
<1>1. Discard /\ users' = users /\ perms' = perms /\ principalRows' = principalRows /\ pathRows' = pathRows
  BY DEF Commit, SqlCommit
<1> QED BY <1>1, DiscardCall DEF IInv, TypeOK, Alike

LEMMA RollbackCall == ASSUME IInv, Rollback, ~flushed, SqlRollback PROVE IInv'
<1>1. /\ Discard /\ open /\ users' = Restored(xusers, users) /\ perms' = Restored(xperms, perms)
      /\ principalRows' = begun.principals /\ pathRows' = begun.paths
  BY DEF Rollback, SqlRollback
<1>2. users' = base.users /\ perms' = base.perms
  BY <1>1 DEF IInv, Undo
<1>3. users' \in UserTable /\ perms' \in PermTable
  BY <1>2 DEF IInv, TypeOK
<1>4. principalRows' = UserRows(users') /\ pathRows' = GrantRows(perms')
  BY <1>1, <1>2 DEF IInv, Alike
<1> QED BY <1>1, <1>3, <1>4, DiscardCall

LEMMA FlushCall == ASSUME IInv, Flush, SqlFlush PROVE IInv'
<1>1. /\ open /\ open' = open /\ flushed' = TRUE
      /\ xusers' = (IF flushed THEN xusers ELSE users) /\ xperms' = (IF flushed THEN xperms ELSE perms)
      /\ users' = NoUsers /\ perms' = NoPerms /\ base' = [users |-> NoUsers, perms |-> NoPerms]
      /\ principalRows' = {} /\ pathRows' = {}
  BY DEF Flush, SqlFlush
<1>2. NoUsers \in UserTable /\ NoPerms \in PermTable
  BY DEF NoUsers, NoPerms, NoGrants, UserTable, PermTable, Grants
<1>3. UserRows(NoUsers) = {} /\ GrantRows(NoPerms) = {}
  BY DEF UserRows, GrantRows, NoUsers, NoPerms, NoGrants
<1>4. TypeOK'
  BY <1>1, <1>2 DEF IInv, TypeOK, UserTable, PermTable
<1> QED BY <1>1, <1>3, <1>4 DEF IInv, Undo, Closed, Alike

LEMMA Invariant == BothSpec => []IInv
<1>1. BothInit => IInv
  <2> SUFFICES ASSUME BothInit PROVE IInv
    OBVIOUS
  <2>1. NoUsers \in UserTable /\ NoPerms \in PermTable
    BY DEF NoUsers, NoPerms, NoGrants, UserTable, PermTable, Grants
  <2>2. UserRows(NoUsers) = {} /\ GrantRows(NoPerms) = {}
    BY DEF UserRows, GrantRows, NoUsers, NoPerms, NoGrants
  <2>3. TypeOK
    BY <2>1 DEF BothInit, Init, TypeOK, NoUserLog, NoPermLog
  <2> QED BY <2>2, <2>3, NothingLogged DEF BothInit, Init, IInv, Undo, Closed, Alike
<1>2. IInv /\ [BothNext]_<<vars, tables>> => IInv'
  <2> SUFFICES ASSUME IInv, [BothNext]_<<vars, tables>> PROVE IInv'
    OBVIOUS
  <2>1. CASE BothNext
    BY <2>1, BeginCall, CommitCall, RollbackCall, FlushCall, UserCalls, PurgeCall, PrincipalCalls,
       PayloadCalls, DeleteCall DEF BothNext
  <2>2. CASE UNCHANGED <<vars, tables>>
    BY <2>2 DEF vars, tables, IInv, TypeOK, Undo, Closed, Alike
  <2> QED BY <2>1, <2>2
<1> QED BY <1>1, <1>2, PTL DEF BothSpec

\* Every variable of the in-memory backend keeps its type under any calls
\* (permission.go:50-409).
THEOREM PermTypeCorrect == BothSpec => []TypeOK
BY Invariant, PTL DEF IInv

\* A rollback without a flush restores all users and all paths, whatever the
\* transaction changed, how often and in which order (backupUser and
\* backupPerms, permission.go:379-409).
THEOREM PermRollback == BothSpec => RollbackRestores
<1>1. IInv => [Rollback /\ ~flushed => users' = base.users /\ perms' = base.perms]_vars
  BY DEF IInv, Undo, Rollback
<1> QED BY <1>1, Invariant, PTL DEF RollbackRestores

-----------------------------------------------------------------------------
(* The answers. *)

LEMMA SameUserPrincipals ==
  ASSUME IInv, NEW u \in Users
  PROVE  MemUserPrincipals(u) = SqlUserPrincipals(u)
<1> DEFINE near == {row \in principalRows : row[1] \in {u, Authenticated, Everyone}}
           mine == {row[2] : row \in {row \in near : u = Everyone => row[1] = Everyone}}
<1>1. \A v \in Users : users[v] \subseteq Groups
  BY DEF IInv, TypeOK, UserTable
<1>2. \A g : g \in mine <=> \E v \in Users : /\ v \in {u, Authenticated, Everyone}
                                             /\ u = Everyone => v = Everyone
                                             /\ g \in users[v]
  <2>1. principalRows = UserRows(users)
    BY DEF IInv, Alike
  <2>2. ASSUME NEW g, g \in mine
        PROVE  \E v \in Users : /\ v \in {u, Authenticated, Everyone}
                                /\ u = Everyone => v = Everyone
                                /\ g \in users[v]
    BY <2>1, <2>2 DEF UserRows
  <2>3. ASSUME NEW g, NEW v \in Users, v \in {u, Authenticated, Everyone},
               u = Everyone => v = Everyone, g \in users[v]
        PROVE  g \in mine
    <3>1. <<v, g>> \in near
      BY <1>1, <2>1, <2>3 DEF UserRows
    <3> QED BY <2>3, <3>1
  <2> QED BY <2>2, <2>3
<1>3. SqlUserPrincipals(u)
        = {u} \cup (IF u \notin {Everyone, Authenticated} THEN {Authenticated} ELSE {})
              \cup (IF u # Everyone THEN {Everyone} ELSE {}) \cup mine
  BY DEF SqlUserPrincipals
<1> HIDE DEF mine
<1>4. mine = IF u = Everyone THEN users[u]
             ELSE users[u] \cup users[Everyone] \cup users[Authenticated]
  <2>1. {u, Everyone, Authenticated} \subseteq Users
    BY SystemAssumption
  <2>2. CASE u = Everyone
    BY <1>2, <2>1, <2>2
  <2>3. CASE u # Everyone
    BY <1>2, <2>1, <2>3
  <2> QED BY <2>2, <2>3
<1> QED BY <1>3, <1>4 DEF MemUserPrincipals

LEMMA SameGrants ==
  ASSUME IInv, NEW p \in Paths
  PROVE  /\ MemGetPermissions(p) = SqlGetPermissions(p)
         /\ LET above == Perms \X {q \in Paths : q = p \/ p \in Beneath[q]}
            IN  MemAllACEPrincipals(above) = SqlAllACEPrincipals(above)
<1>1. perms \in PermTable /\ pathRows = GrantRows(perms)
  BY DEF IInv, TypeOK, Alike
<1>2. MemGetPermissions(p) = SqlGetPermissions(p)
  <2>1. ASSUME NEW perm \in Perms
        PROVE  perms[p][perm] = {row[3] : row \in {row \in pathRows : row[1] = p /\ row[2] = perm}}
    <3> DEFINE found == {row \in pathRows : row[1] = p /\ row[2] = perm}
    <3>1. ASSUME NEW x \in perms[p][perm] PROVE x \in {row[3] : row \in found}
      <4>1. <<p, perm, x>> \in pathRows
        BY <1>1 DEF GrantRows, PermTable, Grants
      <4>2. <<p, perm, x>> \in found
        BY <4>1
      <4> QED BY <4>2
    <3>2. \A row \in found : row[3] \in perms[p][perm]
      BY <1>1 DEF GrantRows
    <3> HIDE DEF found
    <3>3. \A x : x \in {row[3] : row \in found} <=> x \in perms[p][perm]
      BY <3>1, <3>2
    <3>4. {row[3] : row \in found} = perms[p][perm]
      BY <3>3
    <3> QED BY <3>4 DEF found
  <2>2. perms[p] = [perm \in Perms |-> perms[p][perm]]
    BY <1>1 DEF PermTable, Grants
  <2> QED BY <2>1, <2>2 DEF MemGetPermissions, SqlGetPermissions
<1> DEFINE above == Perms \X {q \in Paths : q = p \/ p \in Beneath[q]}
<1>3. \A e \in above : e[1] \in Perms /\ e[2] \in Paths
  OBVIOUS
<1> HIDE DEF above
<1>4. ASSUME NEW e \in above, NEW row \in pathRows
      PROVE  SqlContains(e, row) <=> row[1] = e[2] /\ row[2] = e[1]
  BY <1>3, NodeAssumption DEF SqlContains, Contains
<1>5. ASSUME NEW x, x \in MemAllACEPrincipals(above) PROVE x \in SqlAllACEPrincipals(above)
  <2>1. PICK e \in above : x \in perms[e[2]][e[1]]
    BY <1>5 DEF MemAllACEPrincipals
  <2>2. <<e[2], e[1], x>> \in pathRows
    BY <1>1, <1>3, <2>1 DEF GrantRows, PermTable, Grants
  <2> QED BY <1>4, <2>2 DEF SqlAllACEPrincipals
<1>6. ASSUME NEW x, x \in SqlAllACEPrincipals(above) PROVE x \in MemAllACEPrincipals(above)
  <2>1. PICK row \in pathRows, e \in above : SqlContains(e, row) /\ x = row[3]
    BY <1>6 DEF SqlAllACEPrincipals
  <2>2. x \in perms[e[2]][e[1]]
    BY <1>1, <1>4, <2>1 DEF GrantRows
  <2> QED BY <1>3, <2>2 DEF MemAllACEPrincipals
<1>7. MemAllACEPrincipals(above) = SqlAllACEPrincipals(above)
  BY <1>5, <1>6
<1> QED BY <1>2, <1>7 DEF above

LEMMA SameAccess ==
  ASSUME IInv, NEW principals, NEW node \in Nodes
  PROVE  MemAccessiblePaths(principals, Perms \X {node}) = SqlAccessiblePaths(principals, Perms \X {node})
<1> DEFINE entries == Perms \X {node}
<1>1. perms \in PermTable /\ pathRows = GrantRows(perms)
  BY DEF IInv, TypeOK, Alike
<1>2. \A e \in entries : e[1] \in Perms /\ e[2] = node
  OBVIOUS
<1> HIDE DEF entries
<1>3. ASSUME NEW p, p \in MemAccessiblePaths(principals, entries)
      PROVE  p \in SqlAccessiblePaths(principals, entries)
  <2>1. p \in Paths
    BY <1>3 DEF MemAccessiblePaths
  <2>2. PICK e \in entries, x \in principals : Contains(e[2], p) /\ x \in perms[p][e[1]]
    BY <1>3 DEF MemAccessiblePaths
  <2>3. <<p, e[1], x>> \in pathRows
    BY <1>1, <1>2, <2>1, <2>2 DEF GrantRows, PermTable, Grants
  <2>4. SqlContains(e, <<p, e[1], x>>)
    BY <2>2 DEF SqlContains
  <2> QED BY <2>3, <2>4 DEF SqlAccessiblePaths
<1>4. ASSUME NEW p, p \in SqlAccessiblePaths(principals, entries)
      PROVE  p \in MemAccessiblePaths(principals, entries)
  <2>1. PICK row \in pathRows, e \in entries : row[3] \in principals /\ SqlContains(e, row) /\ p = row[1]
    BY <1>4 DEF SqlAccessiblePaths
  <2>2. p \in Paths /\ Contains(e[2], p) /\ row[3] \in perms[p][e[1]]
    BY <1>1, <2>1 DEF GrantRows, SqlContains
  <2> QED BY <2>1, <2>2 DEF MemAccessiblePaths
<1> QED BY <1>3, <1>4 DEF entries

\* Both permission backends answer every question of the controller alike,
\* after any calls in transactions committed, flushed or rolled back
\* (memory/permission/permission.go, postgres/permission/permission.go).
THEOREM SameAnswers == BothSpec => []BackendsAgree
<1>1. IInv => BackendsAgree
  <2> SUFFICES ASSUME IInv PROVE BackendsAgree
    OBVIOUS
  <2>1. ASSUME NEW u \in Users, NEW node \in Nodes
        PROVE  MemAccessiblePaths(MemUserPrincipals(u), Perms \X {node})
                 = SqlAccessiblePaths(SqlUserPrincipals(u), Perms \X {node})
    BY SameUserPrincipals, SameAccess
  <2> QED BY <2>1, SameUserPrincipals, SameGrants DEF BackendsAgree
<1> QED BY <1>1, Invariant, PTL
-----------------------------------------------------------------------------
(* The calls in memory implement TxStore.                                  *)

\* What a call on users does, and one on permissions: entries that it does not
\* save keep their content.
UserChange ==
  \E S \in SUBSET Users : /\ OnUsers(S) /\ users' \in UserTable
                          /\ \A u \in Users \ S : users'[u] = users[u]
GrantChange ==
  \E S \in SUBSET Paths : /\ OnPerms(S) /\ perms' \in PermTable
                          /\ \A p \in Paths \ S : perms'[p] = perms[p]

LEMMA UserChanges ==
  ASSUME TypeOK, NEW group \in Groups, NEW us \in SUBSET Users,
         AddUserPrincipal(group, us) \/ RemoveUserPrincipal(group, us)
  PROVE  UserChange
<1>1. users \in UserTable
  BY DEF TypeOK
<1>2. CASE AddUserPrincipal(group, us)
  <2>1. OnUsers(us) /\ users' \in UserTable /\ \A u \in Users \ us : users'[u] = users[u]
    BY <1>1, <1>2 DEF AddUserPrincipal, UserTable
  <2> QED BY <2>1 DEF UserChange
<1>3. CASE RemoveUserPrincipal(group, us)
  <2> DEFINE S == {u \in us : users[u] # {}}
  <2>1. OnUsers(S) /\ users' \in UserTable /\ \A u \in Users \ S : users'[u] = users[u]
    BY <1>1, <1>3 DEF RemoveUserPrincipal, UserTable
  <2>2. S \in SUBSET Users
    OBVIOUS
  <2> HIDE DEF S
  <2> QED BY <2>1, <2>2 DEF UserChange
<1> QED BY <1>2, <1>3

LEMMA PurgeChanges ==
  ASSUME TypeOK, NEW groups \in SUBSET Groups, PurgeUserPrincipals(groups)
  PROVE  UserChange
<1> DEFINE S == {u \in Users : groups # {} /\ users[u] # {}}
<1>1. OnUsers(S) /\ users' \in UserTable /\ \A u \in Users \ S : users'[u] = users[u]
  BY DEF PurgeUserPrincipals, UserTable, TypeOK
<1>2. S \in SUBSET Users
  OBVIOUS
<1> HIDE DEF S
<1> QED BY <1>1, <1>2 DEF UserChange

LEMMA PrincipalChanges ==
  ASSUME TypeOK, NEW path \in Paths, NEW perm \in Perms, NEW principal \in Grantees,
         AddACEPrincipal(principal, path, perm) \/ RemoveACEPrincipal(principal, path, perm)
  PROVE  GrantChange
<1>1. perms \in PermTable /\ principal \in Principals
  BY GranteesAssumption DEF TypeOK
<1>2. CASE AddACEPrincipal(principal, path, perm)
  <2>1. OnPerms({path}) /\ perms' \in PermTable /\ \A p \in Paths \ {path} : perms'[p] = perms[p]
    BY <1>1, <1>2 DEF AddACEPrincipal, PermTable, Grants
  <2> QED BY <2>1 DEF GrantChange
<1>3. CASE RemoveACEPrincipal(principal, path, perm)
  <2> DEFINE S == {path} \cap {p \in Paths : perms[p] # NoGrants}
  <2>1. perms' = [perms EXCEPT ![path][perm] = @ \ {principal}] /\ OnPerms(S)
    BY <1>3 DEF RemoveACEPrincipal
  <2>2. perms' \in PermTable /\ \A p \in Paths \ {path} : perms'[p] = perms[p]
    BY <1>1, <2>1 DEF PermTable, Grants
  <2>3. perms[path] = NoGrants => perms'[path] = perms[path]
    BY <1>1, <2>1 DEF PermTable, Grants, NoGrants
  <2>4. \A p \in Paths \ S : perms'[p] = perms[p]
    BY <2>2, <2>3
  <2>5. S \in SUBSET Paths
    OBVIOUS
  <2> HIDE DEF S
  <2> QED BY <2>1, <2>2, <2>4, <2>5 DEF GrantChange
<1> QED BY <1>2, <1>3

LEMMA PayloadChanges ==
  ASSUME TypeOK, NEW path \in Paths, NEW payload \in Payloads,
         CreatePermissions(path, payload) \/ MergePermissions(path, payload)
  PROVE  GrantChange
<1>1. perms \in PermTable
  BY DEF TypeOK
<1>2. DOMAIN payload \subseteq Perms /\ \A perm \in DOMAIN payload : payload[perm] \subseteq Principals
  BY PayloadFacts
<1>3. \E granted \in Grants : perms' = [perms EXCEPT ![path] = granted]
  <2>1. CASE CreatePermissions(path, payload)
    <3> DEFINE granted == [perm \in Perms |-> IF perm \in DOMAIN payload
                                              THEN perms[path][perm] \cup payload[perm] ELSE perms[path][perm]]
    <3>1. granted \in Grants
      BY <1>1, <1>2 DEF PermTable, Grants
    <3> QED BY <2>1, <3>1 DEF CreatePermissions
  <2>2. CASE MergePermissions(path, payload)
    <3> DEFINE granted == [perm \in Perms |-> IF perm \in DOMAIN payload
                                              THEN payload[perm] ELSE perms[path][perm]]
    <3>1. granted \in Grants
      BY <1>1, <1>2 DEF PermTable, Grants
    <3> QED BY <2>2, <3>1 DEF MergePermissions
  <2> QED BY <2>1, <2>2
<1>4. perms' \in PermTable /\ \A p \in Paths \ {path} : perms'[p] = perms[p]
  BY <1>1, <1>3 DEF PermTable
<1>5. OnPerms({path})
  BY DEF CreatePermissions, MergePermissions
<1> QED BY <1>4, <1>5 DEF GrantChange

LEMMA DeleteChanges ==
  ASSUME TypeOK, NEW paths \in SUBSET Paths, DeletePermissions(paths)
  PROVE  GrantChange
<1> DEFINE gone == paths \cup UNION {Beneath[p] : p \in paths}
           S    == {p \in gone : perms[p] # NoGrants}
<1>1. perms \in PermTable /\ gone \subseteq Paths
  BY BeneathAssumption DEF TypeOK
<1>2. perms' = [p \in Paths |-> IF p \in gone THEN NoGrants ELSE perms[p]] /\ OnPerms(S)
  BY DEF DeletePermissions
<1> HIDE DEF gone
<1>3. perms' \in PermTable /\ \A p \in Paths \ S : perms'[p] = perms[p]
  BY <1>1, <1>2 DEF PermTable, Grants, NoGrants
<1>4. S \in SUBSET Paths
  BY <1>1
<1> HIDE DEF S
<1> QED BY <1>2, <1>3, <1>4 DEF GrantChange

\* A step begins or ends a transaction, flushes, or changes users or grants.
LEMMA Steps ==
  ASSUME TypeOK, Next
  PROVE  Begin \/ Commit \/ Rollback \/ Flush \/ UserChange \/ GrantChange
<1>1. CASE \E group \in Groups, us \in SUBSET Users :
             AddUserPrincipal(group, us) \/ RemoveUserPrincipal(group, us)
  BY <1>1, UserChanges
<1>2. CASE \E groups \in SUBSET Groups : PurgeUserPrincipals(groups)
  BY <1>2, PurgeChanges
<1>3. CASE \E path \in Paths, perm \in Perms, principal \in Grantees :
             AddACEPrincipal(principal, path, perm) \/ RemoveACEPrincipal(principal, path, perm)
  BY <1>3, PrincipalChanges
<1>4. CASE \E path \in Paths, payload \in Payloads :
             CreatePermissions(path, payload) \/ MergePermissions(path, payload)
  BY <1>4, PayloadChanges
<1>5. CASE \E paths \in SUBSET Paths : DeletePermissions(paths)
  BY <1>5, DeleteChanges
<1> QED BY <1>1, <1>2, <1>3, <1>4, <1>5 DEF Next

\* After a flush the log is the whole former content.
LogFull == flushed => xusers \in UserTable /\ xperms \in PermTable

MInv == TypeOK /\ Closed /\ LogFull

\* What is committed, and what the transaction sees.
Kept == Content(Restored(xusers, users), Restored(xperms, perms))
Seen == Content(users, perms)

\* A change leaves what is committed alone.
LEMMA ChangeKeeps ==
  ASSUME MInv, UserChange \/ GrantChange
  PROVE  MInv' /\ Kept' = Kept /\ open /\ open' = open
<1>1. CASE UserChange
  <2>1. PICK S \in SUBSET Users : /\ OnUsers(S) /\ users' \in UserTable
                                  /\ \A u \in Users \ S : users'[u] = users[u]
    BY <1>1 DEF UserChange
  <2>2. /\ open /\ xusers' = Saved(xusers, users, S) /\ perms' = perms /\ open' = open
        /\ flushed' = flushed /\ xperms' = xperms /\ base' = base
    BY <2>1 DEF OnUsers
  <2>3. /\ xusers' \in [Users -> {NotSaved} \cup SUBSET Groups]
        /\ ~flushed => Restored(xusers', users') = Restored(xusers, users)
    BY <2>1, <2>2, UserLog DEF MInv
  <2>4. flushed => xusers' = xusers /\ Restored(xusers, users') = Restored(xusers, users)
    <3>1. flushed => xusers' = xusers
      BY <2>2 DEF Saved
    <3>2. flushed => \A u \in Users : xusers[u] # NotSaved
      BY Sentinels DEF MInv, LogFull, UserTable
    <3>3. DOMAIN xusers = Users
      BY DEF MInv, TypeOK
    <3> QED BY <3>1, <3>2, <3>3 DEF Restored
  <2>5. Kept' = Kept
    BY <2>2, <2>3, <2>4 DEF Kept, Content
  <2>6. MInv'
    BY <2>1, <2>2, <2>3, <2>4 DEF MInv, TypeOK, Closed, LogFull
  <2> QED BY <2>2, <2>5, <2>6
<1>2. CASE GrantChange
  <2>1. PICK S \in SUBSET Paths : /\ OnPerms(S) /\ perms' \in PermTable
                                  /\ \A p \in Paths \ S : perms'[p] = perms[p]
    BY <1>2 DEF GrantChange
  <2>2. /\ open /\ xperms' = Saved(xperms, perms, S) /\ users' = users /\ open' = open
        /\ flushed' = flushed /\ xusers' = xusers /\ base' = base
    BY <2>1 DEF OnPerms
  <2>3. /\ xperms' \in [Paths -> {NotSaved} \cup Grants]
        /\ ~flushed => Restored(xperms', perms') = Restored(xperms, perms)
    BY <2>1, <2>2, GrantLog DEF MInv
  <2>4. flushed => xperms' = xperms /\ Restored(xperms, perms') = Restored(xperms, perms)
    <3>1. flushed => xperms' = xperms
      BY <2>2 DEF Saved
    <3>2. flushed => \A p \in Paths : xperms[p] # NotSaved
      BY Sentinels DEF MInv, LogFull, PermTable
    <3>3. DOMAIN xperms = Paths
      BY DEF MInv, TypeOK
    <3> QED BY <3>1, <3>2, <3>3 DEF Restored
  <2>5. Kept' = Kept
    BY <2>2, <2>3, <2>4 DEF Kept, Content
  <2>6. MInv'
    BY <2>1, <2>2, <2>3, <2>4 DEF MInv, TypeOK, Closed, LogFull
  <2> QED BY <2>2, <2>5, <2>6
<1> QED BY <1>1, <1>2

\* What ends a transaction leaves nothing to undo.
LEMMA DiscardKeeps ==
  ASSUME Discard, users' \in UserTable, perms' \in PermTable
  PROVE  MInv' /\ Kept' = Seen' /\ open' = FALSE
<1>1. /\ open' = FALSE /\ flushed' = FALSE /\ xusers' = NoUserLog /\ xperms' = NoPermLog
      /\ base' = [users |-> users', perms |-> perms']
  BY DEF Discard
<1>2. xusers' \in [Users -> {NotSaved} \cup SUBSET Groups] /\ xperms' \in [Paths -> {NotSaved} \cup Grants]
  BY <1>1 DEF NoUserLog, NoPermLog
<1>3. TypeOK'
  BY <1>1, <1>2 DEF TypeOK
<1>4. Restored(NoUserLog, users') = users' /\ Restored(NoPermLog, perms') = perms'
  <2>1. Restored(NoUserLog, users') = [u \in Users |-> users'[u]]
    BY DEF Restored, NoUserLog
  <2>2. Restored(NoPermLog, perms') = [p \in Paths |-> perms'[p]]
    BY DEF Restored, NoPermLog
  <2> QED BY <2>1, <2>2 DEF UserTable, PermTable
<1>5. Kept' = Seen'
  BY <1>1, <1>4 DEF Kept, Seen, Content
<1> QED BY <1>1, <1>3, <1>5 DEF MInv, Closed, LogFull, NoUserLog, NoPermLog

\* What Rollback puts back is what is committed, and of the types of the maps.
LEMMA RestoredTables ==
  ASSUME TypeOK
  PROVE  Restored(xusers, users) \in UserTable /\ Restored(xperms, perms) \in PermTable
BY RestoredType DEF TypeOK, UserTable, PermTable

\* Commit, Rollback and Flush of the permission backend in memory are all or
\* nothing, a flush before or in between included (permission.go:65-121).
THEOREM PermsAtomic == Spec => ImplementsTxStore
<1> USE DEF Seen, Kept
<1>1. Init => MInv /\ TS!Init
  <2> SUFFICES ASSUME Init PROVE MInv /\ TS!Init
    OBVIOUS
  <2>1. NoUsers \in UserTable /\ NoPerms \in PermTable
    BY DEF NoUsers, NoPerms, NoGrants, UserTable, PermTable, Grants
  <2>2. TypeOK
    BY <2>1 DEF Init, TypeOK, NoUserLog, NoPermLog
  <2>3. Kept = Seen /\ Seen \in [users: UserTable, perms: PermTable]
    BY <2>1, <2>2, NothingLogged DEF Init, Content
  <2> QED BY <2>2, <2>3 DEF Init, MInv, Closed, LogFull, TS!Init
<1>2. MInv /\ [Next]_vars => MInv' /\ [TS!Next]_TS!vars
  <2> SUFFICES ASSUME MInv, [Next]_vars PROVE MInv' /\ [TS!Next]_TS!vars
    OBVIOUS
  <2>1. TypeOK
    BY DEF MInv
  <2>2. CASE Begin
    <3>1. MInv' /\ Kept' = Kept /\ Seen' = Seen /\ ~open /\ open' = TRUE
      BY <2>2 DEF Begin, MInv, TypeOK, Closed, LogFull, Content
    <3> QED BY <3>1 DEF TS!Next, TS!Begin
  <2>3. CASE Commit
    <3>1. Discard /\ users' = users /\ perms' = perms /\ open
      BY <2>3 DEF Commit
    <3>2. MInv' /\ Kept' = Seen' /\ open' = FALSE
      BY <2>1, <3>1, DiscardKeeps DEF TypeOK
    <3>3. Seen' = Seen
      BY <3>1 DEF Content
    <3> QED BY <3>1, <3>2, <3>3 DEF TS!Next, TS!Commit
  <2>4. CASE Rollback
    <3>1. Discard /\ users' = Restored(xusers, users) /\ perms' = Restored(xperms, perms) /\ open
      BY <2>4 DEF Rollback
    <3>2. MInv' /\ Kept' = Seen' /\ open' = FALSE
      BY <2>1, <3>1, RestoredTables, DiscardKeeps
    <3>3. Seen' = Kept
      BY <3>1 DEF Content
    <3> QED BY <3>1, <3>2, <3>3 DEF TS!Next, TS!Rollback
  <2>5. CASE Flush
    <3>1. /\ open /\ open' = open /\ flushed' = TRUE
          /\ xusers' = (IF flushed THEN xusers ELSE users) /\ xperms' = (IF flushed THEN xperms ELSE perms)
          /\ users' = NoUsers /\ perms' = NoPerms /\ base' = [users |-> NoUsers, perms |-> NoPerms]
      BY <2>5 DEF Flush
    <3>2. NoUsers \in UserTable /\ NoPerms \in PermTable
      BY DEF NoUsers, NoPerms, NoGrants, UserTable, PermTable, Grants
    <3>3. xusers' \in UserTable /\ xperms' \in PermTable
      BY <2>1, <3>1 DEF MInv, LogFull, TypeOK
    <3>4. MInv'
      BY <2>1, <3>1, <3>2, <3>3 DEF MInv, TypeOK, Closed, LogFull, UserTable, PermTable
    <3>5. \A current, log \in UserTable : Restored(log, current) = log
      BY Sentinels DEF Restored, UserTable
    <3>6. \A current, log \in PermTable : Restored(log, current) = log
      BY Sentinels DEF Restored, PermTable
    <3>7. Kept' = Content(xusers', xperms')
      BY <3>1, <3>2, <3>3, <3>5, <3>6 DEF Content
    <3>8. flushed => Kept = Content(xusers, xperms)
      BY <2>1, <3>5, <3>6 DEF MInv, LogFull, TypeOK, Content
    <3>9. Kept' \in {Kept, Seen} /\ Seen' \in [users: UserTable, perms: PermTable]
      BY <3>1, <3>2, <3>7, <3>8 DEF Content
    <3> QED BY <3>1, <3>4, <3>9 DEF TS!Next, TS!Flush
  <2>6. CASE UserChange \/ GrantChange
    <3>1. MInv' /\ Kept' = Kept /\ open /\ open' = open
      BY <2>6, ChangeKeeps
    <3>2. Seen' \in [users: UserTable, perms: PermTable]
      BY <3>1 DEF MInv, TypeOK, Content
    <3> QED BY <3>1, <3>2 DEF TS!Next, TS!Change
  <2>7. CASE UNCHANGED vars
    <3>1. MInv' /\ Kept' = Kept /\ Seen' = Seen /\ open' = open
      BY <2>7 DEF vars, MInv, TypeOK, Closed, LogFull, Content
    <3> QED BY <3>1 DEF TS!vars
  <2> QED BY <2>1, <2>2, <2>3, <2>4, <2>5, <2>6, <2>7, Steps
<1> QED BY <1>1, <1>2, PTL DEF Spec, ImplementsTxStore, TS!Spec
=============================================================================
