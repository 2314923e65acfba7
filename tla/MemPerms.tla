------------------------------ MODULE MemPerms ------------------------------
(***************************************************************************)
(* The in-memory permission backend (internal/conn/memory/permission): the *)
(* principals each user holds and, per object path, the principals granted *)
(* each permission; transactions that own the backend's mutex and keep an  *)
(* undo log per user and per path.                                         *)
(*                                                                         *)
(* A user without an entry and one with an empty set are the same here, as *)
(* are a path or a permission without an entry and with an empty one: no   *)
(* call of the backend tells a caller's decision apart by it.              *)
(***************************************************************************)
EXTENDS Naturals

CONSTANTS
  Users,       \* user IDs
  Groups,      \* the principals a user may hold besides itself
  Paths,       \* object paths
  Beneath,     \* [Paths -> SUBSET Paths]: the paths that start with path + "/"
  Perms,       \* permission names
  Grantees,    \* bound: the principals clients grant permissions to
  NotSaved     \* no entry in an undo log

Principals == Users \cup Groups

ASSUME BeneathAssumption == Beneath \in [Paths -> SUBSET Paths]
ASSUME GranteesAssumption == Grantees \subseteq Principals

UserTable == [Users -> SUBSET Groups]
Grants    == [Perms -> SUBSET Principals]
PermTable == [Paths -> Grants]

ASSUME SentinelAssumption ==
  (\A s \in SUBSET Groups : NotSaved # s) /\ (\A g \in Grants : NotSaved # g)

VARIABLES
  users,    \* backend.users
  perms,    \* backend.perms
  open,     \* a transaction holds backend.mu
  flushed,  \* transaction.flushed
  xusers,   \* transaction.xusers, the undo log of users
  xperms,   \* transaction.xperms, the undo log of perms
  base      \* history: the content when the transaction began, until it flushes

vars == <<users, perms, open, flushed, xusers, xperms, base>>

NoUsers == [u \in Users |-> {}]
NoGrants == [perm \in Perms |-> {}]
NoPerms == [p \in Paths |-> NoGrants]
NoUserLog == [u \in Users |-> NotSaved]
NoPermLog == [p \in Paths |-> NotSaved]

Init ==
  /\ users = NoUsers
  /\ perms = NoPerms
  /\ open = FALSE
  /\ flushed = FALSE
  /\ xusers = NoUserLog
  /\ xperms = NoPermLog
  /\ base = [users |-> users, perms |-> perms]

-----------------------------------------------------------------------------
(* The transaction's life. *)

Begin ==
  /\ ~open
  /\ open' = TRUE
  /\ UNCHANGED <<users, perms, flushed, xusers, xperms, base>>

Discard ==
  /\ open' = FALSE
  /\ flushed' = FALSE
  /\ xusers' = NoUserLog
  /\ xperms' = NoPermLog
  /\ base' = [users |-> users', perms |-> perms']

Commit ==
  /\ open
  /\ UNCHANGED <<users, perms>>
  /\ Discard

\* the content with every saved entry put back
Restored(log, current) ==
  [k \in DOMAIN log |-> IF log[k] = NotSaved THEN current[k] ELSE log[k]]

Rollback ==
  /\ open
  /\ users' = Restored(xusers, users)
  /\ perms' = Restored(xperms, perms)
  /\ Discard

\* backupUser and backupPerms of the entries of S
Saved(log, current, S) ==
  IF flushed THEN log
  ELSE [k \in DOMAIN log |-> IF k \in S /\ log[k] = NotSaved THEN current[k] ELSE log[k]]

\* what every call on users leaves alone, and every call on permissions
OnUsers(S) ==
  /\ open
  /\ xusers' = Saved(xusers, users, S)
  /\ UNCHANGED <<perms, open, flushed, xperms, base>>

OnPerms(S) ==
  /\ open
  /\ xperms' = Saved(xperms, perms, S)
  /\ UNCHANGED <<users, open, flushed, xusers, base>>

-----------------------------------------------------------------------------
(* Users and their principals. *)

\* Mutant of AddUserPrincipal: user and group are swapped.
AddUserPrincipalSwapped(group, us) ==
  /\ OnUsers(us)
  /\ users' = [u \in Users |-> IF u \in us THEN users[u] \cup {u} ELSE users[u]]

AddUserPrincipal(group, us) ==
  /\ OnUsers(us)
  /\ users' = [u \in Users |-> IF u \in us THEN users[u] \cup {group} ELSE users[u]]

RemoveUserPrincipal(group, us) ==
  /\ OnUsers({u \in us : users[u] # {}})
  /\ users' = [u \in Users |-> IF u \in us THEN users[u] \ {group} ELSE users[u]]

\* Mutant of PurgeUserPrincipals: it does not back up the users it changes.
PurgeUnsaved(groups) ==
  /\ OnUsers({})
  /\ users' = [u \in Users |-> users[u] \ groups]

\* backs up every user, whether or not it holds one of the groups
PurgeUserPrincipals(groups) ==
  /\ OnUsers({u \in Users : groups # {} /\ users[u] # {}})
  /\ users' = [u \in Users |-> users[u] \ groups]

-----------------------------------------------------------------------------
(* Permissions.  A payload maps some permissions to principals. *)

Payloads == UNION {[S -> SUBSET Grantees] : S \in SUBSET Perms}

AddACEPrincipal(principal, path, perm) ==
  /\ OnPerms({path})
  /\ perms' = [perms EXCEPT ![path][perm] = @ \cup {principal}]

RemoveACEPrincipal(principal, path, perm) ==
  /\ OnPerms({path} \cap {p \in Paths : perms[p] # NoGrants})
  /\ perms' = [perms EXCEPT ![path][perm] = @ \ {principal}]

\* adds to what is there
CreatePermissions(path, payload) ==
  /\ OnPerms({path})
  /\ perms' = [perms EXCEPT ![path] = [perm \in Perms |->
                 IF perm \in DOMAIN payload THEN @[perm] \cup payload[perm] ELSE @[perm]]]

\* replaces the permissions the payload names, an empty list removes one
MergePermissions(path, payload) ==
  /\ OnPerms({path})
  /\ perms' = [perms EXCEPT ![path] = [perm \in Perms |->
                 IF perm \in DOMAIN payload THEN payload[perm] ELSE @[perm]]]

DeletePermissions(paths) ==
  LET gone == paths \cup UNION {Beneath[p] : p \in paths}
  IN  /\ OnPerms({p \in gone : perms[p] # NoGrants})
      /\ perms' = [p \in Paths |-> IF p \in gone THEN NoGrants ELSE perms[p]]

\* The first Flush replaces the logs by the content as it is now.
Flush ==
  /\ open
  /\ flushed' = TRUE
  /\ xusers' = IF flushed THEN xusers ELSE users
  /\ xperms' = IF flushed THEN xperms ELSE perms
  /\ users' = NoUsers
  /\ perms' = NoPerms
  /\ base' = [users |-> NoUsers, perms |-> NoPerms]
  /\ UNCHANGED open

-----------------------------------------------------------------------------

Next ==
  \/ Begin \/ Commit \/ Rollback \/ Flush
  \/ \E group \in Groups, us \in SUBSET Users :
       AddUserPrincipal(group, us) \/ RemoveUserPrincipal(group, us)
  \/ \E groups \in SUBSET Groups : PurgeUserPrincipals(groups)
  \/ \E path \in Paths, perm \in Perms, principal \in Grantees :
       AddACEPrincipal(principal, path, perm) \/ RemoveACEPrincipal(principal, path, perm)
  \/ \E path \in Paths, payload \in Payloads :
       CreatePermissions(path, payload) \/ MergePermissions(path, payload)
  \/ \E paths \in SUBSET Paths : DeletePermissions(paths)

Spec == Init /\ [][Next]_vars

-----------------------------------------------------------------------------
(* Properties. *)

\* Every variable has its type.
TypeOK ==
  /\ users \in UserTable
  /\ perms \in PermTable
  /\ open \in BOOLEAN /\ flushed \in BOOLEAN
  /\ xusers \in [Users -> {NotSaved} \cup SUBSET Groups]
  /\ xperms \in [Paths -> {NotSaved} \cup Grants]
  /\ base \in [users: UserTable, perms: PermTable]

\* Whatever users and paths a transaction touched, in whatever order and
\* however often, the rollback of one that did not flush leaves no trace, also
\* after others that did flush (backupUser and backupPerms,
\* permission.go:379-409).
RollbackRestores ==
  [][Rollback /\ ~flushed => users' = base.users /\ perms' = base.perms]_vars

Content(us, ps) == [users |-> us, perms |-> ps]

\* The transactions are all or nothing: what is committed is the content with
\* the undo log put back, and a rollback returns to it or, after a flush, to
\* what the first flush found (Commit, Rollback and Flush, permission.go:65-121).
TS == INSTANCE TxStore WITH
        Snapshots <- [users: UserTable, perms: PermTable],
        committed <- Content(Restored(xusers, users), Restored(xperms, perms)),
        working   <- Content(users, perms)

ImplementsTxStore == TS!Spec
=============================================================================
