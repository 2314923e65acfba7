----------------------------- MODULE PermTables -----------------------------
(***************************************************************************)
(* The PostgreSQL permission backend (internal/conn/postgres/permission)   *)
(* beside the in-memory one: every call of the interface is made to both,  *)
(* so that a step is MemPerms' action together with the SQL statement the  *)
(* other backend sends.  The two tables have a row per user and principal  *)
(* and a row per path, permission and principal.                           *)
(*                                                                         *)
(* This is one transaction at a time, which is all the in-memory backend   *)
(* allows.  LIKE is taken to match a prefix: it also matches any character *)
(* where an ID has an underscore.                                          *)
(***************************************************************************)
EXTENDS MemPerms

CONSTANTS
  Everyone,      \* system.Everyone
  Authenticated, \* system.Authenticated
  Node           \* [Paths -> nodes]: the path that ends in /* and contains it

Nodes == {Node[p] : p \in Paths}

ASSUME SystemAssumption == {Everyone, Authenticated} \subseteq Users
ASSUME NodeAssumption == DOMAIN Node = Paths /\ Nodes \cap Paths = {}

VARIABLES
  principalRows, \* permission_principals: <<user_id, principal>>
  pathRows,      \* permission_paths: <<path, permission, principal>>
  begun          \* both tables when the transaction began

tables == <<principalRows, pathRows, begun>>

-----------------------------------------------------------------------------
(* The SQL statements. *)

SqlBegin ==
  /\ begun' = [principals |-> principalRows, paths |-> pathRows]
  /\ UNCHANGED <<principalRows, pathRows>>

NoneBegun == begun' = [principals |-> {}, paths |-> {}]

SqlCommit   == NoneBegun /\ UNCHANGED <<principalRows, pathRows>>
SqlRollback == NoneBegun /\ principalRows' = begun.principals /\ pathRows' = begun.paths

\* TRUNCATE; what began is of no use to a transaction that then commits
SqlFlush == NoneBegun /\ principalRows' = {} /\ pathRows' = {}

SetPrincipals(rows) == principalRows' = rows /\ UNCHANGED <<pathRows, begun>>
SetPaths(rows)      == pathRows' = rows /\ UNCHANGED <<principalRows, begun>>

\* INSERT ... ON CONFLICT DO NOTHING
SqlAddUserPrincipal(group, us) == SetPrincipals(principalRows \cup (us \X {group}))

\* DELETE ... WHERE principal = $1 AND user_id = ANY($2)
SqlRemoveUserPrincipal(group, us) ==
  SetPrincipals({row \in principalRows : ~(row[2] = group /\ row[1] \in us)})

\* DELETE ... WHERE principal = ANY($1)
SqlPurgeUserPrincipals(groups) == SetPrincipals({row \in principalRows : row[2] \notin groups})

SqlAddACEPrincipal(principal, path, perm)    == SetPaths(pathRows \cup {<<path, perm, principal>>})
SqlRemoveACEPrincipal(principal, path, perm) == SetPaths(pathRows \ {<<path, perm, principal>>})

\* the rows a payload asks for, and whether it names a principal at all
Tuples(path, payload) ==
  {row \in {path} \X (DOMAIN payload) \X Principals : row[3] \in payload[row[2]]}
IncludesChanges(payload) == \E perm \in DOMAIN payload : payload[perm] # {}

\* Without a tuple VALUES is a syntax error, and the transaction fails.
SqlCreatePermissions(path, payload) ==
  /\ IncludesChanges(payload)
  /\ SetPaths(pathRows \cup Tuples(path, payload))

\* Mutant of SqlMergePermissions: the DELETE also takes the rows the INSERT,
\* which does not see it, finds in conflict.
SqlMergeAll(path, payload) ==
  LET gone  == {row \in pathRows : row[1] = path /\ row[2] \in DOMAIN payload}
      added == Tuples(path, payload) \ pathRows
  IN  SetPaths((pathRows \ gone) \cup added)

\* One statement: its DELETE and its INSERT both see the rows before it.
SqlMergePermissions(path, payload) ==
  LET gone  == {row \in pathRows : /\ row[1] = path
                                   /\ row[2] \in DOMAIN payload
                                   /\ row[3] \notin payload[row[2]]}
      added == Tuples(path, payload) \ pathRows
  IN  SetPaths((pathRows \ gone) \cup added)

SqlDeletePermissions(paths) ==
  SetPaths({row \in pathRows : \A p \in paths : row[1] # p /\ row[1] \notin Beneath[p]})

-----------------------------------------------------------------------------
(* The answers of the two backends, to the questions the controller asks. *)

MemUserPrincipals(u) ==
  {u} \cup users[u]
  \cup (IF u # Everyone THEN {Everyone} \cup users[Everyone] ELSE {})
  \cup (IF u \notin {Everyone, Authenticated} THEN {Authenticated} \cup users[Authenticated] ELSE {})

SqlUserPrincipals(u) ==
  LET rows == {row \in principalRows : row[1] \in {u, Authenticated, Everyone}}
  IN  {u}
      \cup (IF u \notin {Everyone, Authenticated} THEN {Authenticated} ELSE {})
      \cup (IF u # Everyone THEN {Everyone} ELSE {})
      \cup {row[2] : row \in {row \in rows : u = Everyone => row[1] = Everyone}}

\* Path.Contains, and the constraint appendACEConstraints writes for an entry
Contains(target, path) == IF target \in Nodes THEN target = Node[path] ELSE target = path
SqlContains(entry, row) == row[2] = entry[1] /\ Contains(entry[2], row[1])

\* GetAllACEPrincipals; the in-memory one looks the paths up as they are
MemAllACEPrincipals(entries) == UNION {perms[e[2]][e[1]] : e \in {e \in entries : e[2] \in Paths}}
SqlAllACEPrincipals(entries) ==
  {row[3] : row \in {row \in pathRows : \E e \in entries : SqlContains(e, row)}}

MemAccessiblePaths(principals, entries) ==
  {p \in Paths : \E e \in entries : Contains(e[2], p) /\ perms[p][e[1]] \cap principals # {}}
SqlAccessiblePaths(principals, entries) ==
  {row[1] : row \in {row \in pathRows : /\ row[3] \in principals
                                        /\ \E e \in entries : SqlContains(e, row)}}

MemGetPermissions(path) == perms[path]
SqlGetPermissions(path) ==
  [perm \in Perms |-> {row[3] : row \in {row \in pathRows : row[1] = path /\ row[2] = perm}}]

-----------------------------------------------------------------------------

BothInit == Init /\ principalRows = {} /\ pathRows = {} /\ begun = [principals |-> {}, paths |-> {}]

\* A flushed transaction is not rolled back: the in-memory one would restore
\* what it had written before it flushed.
BothNext ==
  \/ Begin /\ SqlBegin
  \/ Commit /\ SqlCommit
  \/ Rollback /\ SqlRollback /\ ~flushed
  \/ Flush /\ SqlFlush
  \/ \E group \in Groups, us \in SUBSET Users :
       \/ AddUserPrincipal(group, us) /\ SqlAddUserPrincipal(group, us)
       \/ RemoveUserPrincipal(group, us) /\ SqlRemoveUserPrincipal(group, us)
  \/ \E groups \in SUBSET Groups : PurgeUserPrincipals(groups) /\ SqlPurgeUserPrincipals(groups)
  \/ \E path \in Paths, perm \in Perms, principal \in Grantees :
       \/ AddACEPrincipal(principal, path, perm) /\ SqlAddACEPrincipal(principal, path, perm)
       \/ RemoveACEPrincipal(principal, path, perm) /\ SqlRemoveACEPrincipal(principal, path, perm)
  \/ \E path \in Paths, payload \in Payloads :
       \/ CreatePermissions(path, payload) /\ SqlCreatePermissions(path, payload)
       \/ MergePermissions(path, payload) /\ SqlMergePermissions(path, payload)
  \/ \E paths \in SUBSET Paths : DeletePermissions(paths) /\ SqlDeletePermissions(paths)

BothSpec == BothInit /\ [][BothNext]_<<vars, tables>>

-----------------------------------------------------------------------------
(* Properties. *)

\* After any calls in any transactions, committed or rolled back, the two
\* backends answer every question of the controller alike: who a user is, what
\* is granted on a path and above it, which paths of a namespace a user was
\* granted, what a path grants.
BackendsAgree ==
  /\ \A u \in Users : MemUserPrincipals(u) = SqlUserPrincipals(u)
  /\ \A p \in Paths :
       LET above == Perms \X {q \in Paths : q = p \/ p \in Beneath[q]}
       IN  /\ MemAllACEPrincipals(above) = SqlAllACEPrincipals(above)
           /\ MemGetPermissions(p) = SqlGetPermissions(p)
  /\ \A u \in Users, node \in Nodes :
       MemAccessiblePaths(MemUserPrincipals(u), Perms \X {node})
         = SqlAccessiblePaths(SqlUserPrincipals(u), Perms \X {node})
=============================================================================
