-------------------------------- MODULE Ctrl --------------------------------
(***************************************************************************)
(* The object controller (pkg/api/ctrl.go) with the authorization guard,   *)
(* the conditional requests, the default model and the group model, over   *)
(* an abstract store and abstract permissions.                             *)
(*                                                                         *)
(* A request is one step: with in-memory backends its transaction owns all *)
(* three mutexes while it is handled (ReqTxn).  Clients may keep a         *)
(* representation they were sent and name its ETag or its date later.      *)
(* An answer below 500 commits, so a refusal keeps whatever was written    *)
(* before it.                                                              *)
(*                                                                         *)
(* The data of an object is abstracted to the members of a group.  The     *)
(* epochs of a namespace are successive: writes within one millisecond.    *)
(***************************************************************************)
EXTENDS Naturals, FiniteSets

CONSTANTS
  Paths,         \* object paths
  Root,          \* the empty path above the buckets
  Parent,        \* [Paths -> Paths \cup {Root}]
  Kind,          \* [Paths -> Kinds], Path.ResourceName
  Swept,         \* [Paths -> SUBSET Paths]: their namespace starts with the path
  Users,         \* the IDs of authenticated users
  Everyone,      \* system.Everyone, also the ID of the anonymous user
  Authenticated, \* system.Authenticated
  Static,        \* permission.defaults: [Perms -> SUBSET Principals]
  MemberLists,   \* bound: the members clients send
  GrantSets,     \* bound: the permissions clients send for each kind of object
  Kept,          \* bound: the paths whose representations clients keep
  MaxTime,       \* bound: [Kinds -> Nat], the last epoch at which objects are put
  Nonces,        \* bound: those of the page tokens that can still be spent
  PerSecond,     \* epochs per second
  Malformed,     \* members that are not a list of strings
  Absent,        \* a header, or a part of a body, that is not given
  AnyTag,        \* If-Match: * and If-None-Match: *
  NoObject       \* nothing at a path

Kinds == {"bucket", "group", "collection", "record"}
Perms == {"read", "write"} \cup {"bucket:create", "group:create", "collection:create", "record:create"}
CreatePerm == [bucket |-> "bucket:create", group |-> "group:create",
               collection |-> "collection:create", record |-> "record:create"]

Groups     == {p \in Paths : Kind[p] = "group"}
Clients    == Users \cup {Everyone}
Names      == Clients \cup {Authenticated}   \* who may be a member
Principals == Names \cup Groups

\* a path and the paths above it, as Path.Traverse visits them
Above[p \in Paths \cup {Root}] == IF p = Root THEN {Root} ELSE {p} \cup Above[Parent[p]]

Beneath(p) == {q \in Paths : p \in Above[q]}
Space(p)   == <<Parent[p], Kind[p]>>         \* the namespace of a path
Spaces     == {Space(p) : p \in Paths}

ASSUME TreeAssumption ==
  /\ IsFiniteSet(Paths) /\ Root \notin Paths
  /\ Parent \in [Paths -> Paths \cup {Root}]
  /\ Kind \in [Paths -> Kinds]
  /\ Swept \in [Paths -> SUBSET Paths]
  /\ \A p \in Paths : Kind[p] = "bucket" <=> Parent[p] = Root
  /\ \A p \in Paths : Beneath(p) \ {p} \subseteq Swept[p] /\ p \notin Swept[p]
  \* a namespace that starts with the path starts those beneath its objects
  /\ \A p \in Paths : \A q \in Swept[p] : Beneath(q) \subseteq Swept[p]
\* the recursion ends: no path is above itself
ASSUME AboveAssumption ==
  Above[Root] = {Root} /\ \A p \in Paths : Above[p] = {p} \cup Above[Parent[p]]
ASSUME BoundsAssumption == MaxTime \in [Kinds -> Nat] /\ PerSecond \in Nat \ {0}
ASSUME InputAssumption ==
  /\ Static \in [Perms -> SUBSET Principals]
  /\ MemberLists \subseteq SUBSET Names
  /\ \A kind \in Kinds : \A grants \in GrantSets[kind] :
       DOMAIN grants \subseteq Perms /\ \A perm \in DOMAIN grants : grants[perm] \subseteq Principals

Version == [modTime : Nat, members : (SUBSET Names) \cup {Malformed}]
Nothing == [path |-> Root, version |-> NoObject]

ASSUME SentinelAssumption ==
  /\ NoObject \notin Version
  /\ \A members \in SUBSET Names : members # Malformed /\ members # Absent
  /\ {Absent, AnyTag} \cap Nat = {} /\ Absent # AnyTag

VARIABLES
  object,   \* the live objects of the store
  clock,    \* the epoch of each namespace
  perms,    \* the principals granted each permission on each path
  held,     \* the groups each user holds the principal of
  seen,     \* a representation some client was sent and kept, and its path
  cached,   \* the nonces in the cache
  answer,   \* of the last step: its status, whether it was conditional on the
            \* ETag kept, and the parent it says is missing
  orphaned  \* history: groups swept with their bucket and not purged since

data == <<object, clock, perms, held, orphaned>>
vars == <<object, clock, perms, held, seen, cached, answer, orphaned>>

Answer(status, guarded) == [status |-> status, guarded |-> guarded, missing |-> Absent]
NotAnswered == Answer("none", FALSE)

Init ==
  /\ object = [p \in Paths |-> NoObject]
  /\ clock = [s \in Spaces |-> 0]
  /\ perms = [p \in Paths |-> [perm \in Perms |-> {}]]
  /\ held = [n \in Names |-> {}]
  /\ seen = Nothing
  /\ cached = {}
  /\ answer = NotAnswered
  /\ orphaned = {}

-----------------------------------------------------------------------------
(* Authorization. *)

PrincipalsOf(u) ==
  IF u = Everyone THEN held[u] \cup {u}
  ELSE held[u] \cup {u, Authenticated, Everyone} \cup held[Authenticated] \cup held[Everyone]

\* GetAllACEPrincipals: nothing is stored for the root
Granted(entries) == UNION {perms[e[2]][e[1]] : e \in {e \in entries : e[2] # Root}}

\* Authz.Verify of the user's principals for the entries <<permission, path>>
Verify(u, entries) ==
  PrincipalsOf(u) \cap (Granted(entries) \cup UNION {Static[e[1]] : e \in entries}) # {}

\* checkPermission: one of the permissions on the path or above it
Permitted(u, p, wanted) == Verify(u, wanted \X Above[p])

MayCreate(u, p) ==
  Verify(u, {<<CreatePerm[Kind[p]], Parent[p]>>} \cup ({"write"} \X Above[Parent[p]]))

\* Mutant of ParentThere: no parent is looked up.
ParentIgnored(up) == TRUE

\* checkParent, of the path's parent: buckets are not looked up
ParentThere(up) == up \in Paths /\ Kind[up] # "bucket" => object[up] # NoObject

-----------------------------------------------------------------------------
(* Conditional requests: what the headers h say of an object of epoch t. *)

NoHeaders == [match |-> Absent, noneMatch |-> Absent, unmodified |-> Absent, modified |-> Absent]

\* the epoch in whole seconds, zero only for the zero epoch
Second(t) == IF t = 0 THEN 0 ELSE 1 + t \div PerSecond

IfMatch(h, t) ==
  IF h.match = Absent THEN "none" ELSE IF h.match \in {AnyTag, t} THEN "true" ELSE "false"

IfNoneMatch(h, t) ==
  IF h.noneMatch = Absent THEN "none" ELSE IF h.noneMatch \in {AnyTag, t} THEN "false" ELSE "true"

IfUnmodifiedSince(h, t) ==
  IF h.unmodified = Absent \/ Second(t) < 1 THEN "none"
  ELSE IF Second(t) <= h.unmodified THEN "true" ELSE "false"

IfModifiedSince(method, h, t) ==
  IF method # "GET" \/ h.modified = Absent \/ Second(t) < 1 THEN "none"
  ELSE IF Second(t) <= h.modified THEN "false" ELSE "true"

\* Mutant of CondPasses: dates are preferred to ETags.
CondByDate(method, h, t) ==
  (IF IfUnmodifiedSince(h, t) = "none" THEN IfMatch(h, t) ELSE IfUnmodifiedSince(h, t)) # "false"

\* condStatus returns nil
CondPasses(method, h, t) ==
  /\ (IF IfMatch(h, t) = "none" THEN IfUnmodifiedSince(h, t) ELSE IfMatch(h, t)) # "false"
  /\ (IF IfNoneMatch(h, t) = "none" THEN IfModifiedSince(method, h, t) ELSE IfNoneMatch(h, t)) # "false"

\* the headers a client sends about a path: none, *, or those of what was kept
Headers(p) ==
  LET t == seen.version.modTime
  IN  {NoHeaders, [NoHeaders EXCEPT !.match = AnyTag], [NoHeaders EXCEPT !.noneMatch = AnyTag]}
      \cup IF seen.path # p THEN {}
           ELSE {[NoHeaders EXCEPT !.match = t], [NoHeaders EXCEPT !.noneMatch = t],
                 [NoHeaders EXCEPT !.unmodified = Second(t)], [NoHeaders EXCEPT !.modified = Second(t)],
                 [NoHeaders EXCEPT !.match = t, !.unmodified = Second(t)]}

-----------------------------------------------------------------------------
(* Payloads. *)

\* what clients send: data, with members for a group, and permissions
Bodies(p) ==
  [members : IF p \in Groups THEN MemberLists \cup {Absent, Malformed} ELSE {Absent},
   grants : GrantSets[Kind[p]] \cup {Absent}]

\* PermissionSet.Add("write", user) of a set that may be nil
WithWriter(u, grants) ==
  LET given == IF grants = Absent THEN {} ELSE DOMAIN grants
  IN  [perm \in given \cup (IF u = Everyone THEN {} ELSE {"write"}) |->
         (IF perm \in given THEN grants[perm] ELSE {})
         \cup (IF perm = "write" /\ u # Everyone THEN {u} ELSE {})]

\* the bodies normGroup accepts
Accepted(p) == {body \in Bodies(p) : body.members # Malformed}

\* Mutant of Provided: a group is a member of itself.
ProvidedWithSelf(p, body) == IF body.members = Absent THEN {p} ELSE body.members \cup {p}

\* what a created or replaced object holds: normGroup provides an empty list
Provided(p, body) == IF p \notin Groups \/ body.members = Absent THEN {} ELSE body.members

\* what a patched object holds: Object.Patch skips a field that is null
Patched(p, body) ==
  IF p \in Groups /\ body.members # Absent THEN body.members ELSE object[p].members

-----------------------------------------------------------------------------
(* Writes to the backends. *)

Put(p, members) ==
  /\ clock[Space(p)] < MaxTime[Kind[p]]
  /\ clock' = [clock EXCEPT ![Space(p)] = @ + 1]
  /\ object' = [object EXCEPT ![p] = [modTime |-> clock'[Space(p)], members |-> members]]

\* Delete or DeleteAll of the objects S and whatever their paths begin
Remove(S) ==
  LET gone == {q \in S \cup UNION {Swept[p] : p \in S} : object[q] # NoObject}
  IN  /\ object' = [q \in Paths |-> IF q \in gone THEN NoObject ELSE object[q]]
      /\ clock' = [s \in Spaces |-> clock[s] + Cardinality({q \in gone : Space(q) = s})]
      /\ orphaned' = (orphaned \ S) \cup ((gone \ S) \cap Groups)

CreateGrants(p, grants) ==
  perms' = [perms EXCEPT ![p] =
              [perm \in Perms |-> @[perm] \cup (IF perm \in DOMAIN grants THEN grants[perm] ELSE {})]]

MergeGrants(p, grants) ==
  perms' = [perms EXCEPT ![p] =
              [perm \in Perms |-> IF perm \in DOMAIN grants THEN grants[perm] ELSE @[perm]]]

\* Mutant of RemoveGrants: nested paths are left.
RemoveOwnGrants(S) ==
  perms' = [q \in Paths |-> IF q \in S THEN [perm \in Perms |-> {}] ELSE perms[q]]

RemoveGrants(S) ==
  perms' = [q \in Paths |-> IF Above[q] \cap S # {} THEN [perm \in Perms |-> {}] ELSE perms[q]]

\* held after PurgeUserPrincipals of the groups S, and after AddUserPrincipal
Purged(S) == [n \in Names |-> held[n] \ S]
Joined(table, g, members) == [n \in Names |-> IF n \in members THEN table[n] \cup {g} ELSE table[n]]

-----------------------------------------------------------------------------
(* The default model and the group model. *)

DefaultCreate(u, p, body) ==
  /\ Put(p, Provided(p, body))
  /\ CreateGrants(p, WithWriter(u, body.grants))
  /\ UNCHANGED orphaned

\* the part Update and Patch share: the object is written, grants are merged if given
Overwrite(u, p, members, grants) ==
  /\ Put(p, members)
  /\ IF grants = Absent THEN UNCHANGED perms ELSE MergeGrants(p, WithWriter(u, grants))

DefaultUpdate(u, p, body) == Overwrite(u, p, Provided(p, body), body.grants)
DefaultPatch(u, p, body)  == Overwrite(u, p, Patched(p, body), body.grants)

DefaultDeleteAll(S) == RemoveGrants(S) /\ Remove(S)
DefaultDelete(p)    == DefaultDeleteAll({p})

GroupCreate(u, p, body) ==
  /\ DefaultCreate(u, p, body)
  /\ held' = Joined(held, p, Provided(p, body))

\* Mutant of GroupUpdate: former members are not purged.
GroupUpdateJoining(u, p, body) ==
  /\ DefaultUpdate(u, p, body)
  /\ held' = Joined(held, p, Provided(p, body))
  /\ orphaned' = orphaned \ {p}

GroupUpdate(u, p, body) ==
  /\ DefaultUpdate(u, p, body)
  /\ held' = Joined(Purged({p}), p, Provided(p, body))
  /\ orphaned' = orphaned \ {p}

\* Mutant of GroupPatch: the members of the payload join, not the merged ones.
GroupPatchJoining(u, p, body) ==
  /\ DefaultPatch(u, p, body)
  /\ held' = Joined(Purged({p}), p, Provided(p, body))
  /\ orphaned' = orphaned \ {p}

\* the merged members are parsed after the purge and the write
GroupPatch(u, p, body) ==
  /\ DefaultPatch(u, p, body)
  /\ held' = IF Patched(p, body) = Malformed THEN Purged({p})
             ELSE Joined(Purged({p}), p, Patched(p, body))
  /\ orphaned' = orphaned \ {p}

GroupDeleteAll(S) == held' = Purged(S) /\ DefaultDeleteAll(S)
GroupDelete(p)    == held' = Purged({p}) /\ DefaultDelete(p)

(* Actions of the resource's model, with no callbacks registered. *)

ActCreate(u, p, body) ==
  \/ p \in Groups /\ GroupCreate(u, p, body)
  \/ p \notin Groups /\ DefaultCreate(u, p, body) /\ UNCHANGED held

ActUpdate(u, p, body) ==
  \/ p \in Groups /\ GroupUpdate(u, p, body)
  \/ p \notin Groups /\ DefaultUpdate(u, p, body) /\ UNCHANGED <<held, orphaned>>

ActPatch(u, p, body) ==
  \/ p \in Groups /\ GroupPatch(u, p, body)
  \/ p \notin Groups /\ DefaultPatch(u, p, body) /\ UNCHANGED <<held, orphaned>>

ActDelete(p) ==
  \/ p \in Groups /\ GroupDelete(p)
  \/ p \notin Groups /\ DefaultDelete(p) /\ UNCHANGED held

\* S is within the namespace s
ActDeleteAll(s, S) ==
  \/ s[2] = "group" /\ GroupDeleteAll(S)
  \/ s[2] # "group" /\ DefaultDeleteAll(S) /\ UNCHANGED held

-----------------------------------------------------------------------------
(* Answers. *)

\* the headers name the ETag kept
Guarded(h) == h.match \notin {Absent, AnyTag}

\* an error below 500: what was written until now is kept
Complain ==
  /\ answer' = Answer("refused", FALSE)
  /\ UNCHANGED seen

\* an error before the first write
Refuse == Complain /\ UNCHANGED data

\* 404 for the parent, before any write but to the cache
RefuseMissing(up) ==
  /\ answer' = [Answer("refused", FALSE) EXCEPT !.missing = up]
  /\ UNCHANGED <<data, seen>>

\* the client is sent the object as it is from now on, and may keep it
Send(p, guarded) ==
  /\ answer' = Answer("done", guarded)
  /\ seen' \in {seen} \cup (IF p \in Kept THEN {[path |-> p, version |-> object'[p]]} ELSE {})

\* the client is told of a deletion
SendGone(guarded) ==
  /\ answer' = Answer("done", guarded)
  /\ UNCHANGED seen

-----------------------------------------------------------------------------
(* The handlers. *)

\* the object is there and the user may have what it wants of it; headers come later
Reaches(u, p, wanted) == Permitted(u, p, wanted) /\ ParentThere(Parent[p]) /\ object[p] # NoObject

\* renderConditional: some headers are refused, others pass, guarded by the ETag or not
Failing(method, p) == \E h \in Headers(p) : ~CondPasses(method, h, object[p].modTime)
Passing(method, p) == {Guarded(h) : h \in {h \in Headers(p) : CondPasses(method, h, object[p].modTime)}}

\* doGet
DoGet(u, p) ==
  \/ /\ Reaches(u, p, {"read", "write"}) /\ Passing("GET", p) # {}
     /\ UNCHANGED data
     /\ Send(p, FALSE)
  \/ /\ ~(Reaches(u, p, {"read", "write"}) /\ ~Failing("GET", p))
     /\ Refuse

Get(u, p) == DoGet(u, p)

\* an object that exists is sent instead, and headers count only then
CreateOrGet(u, p) ==
  LET allowed == MayCreate(u, p) /\ ParentThere(Parent[p])
  IN  \/ /\ allowed /\ object[p] = NoObject
         /\ \E body \in Accepted(p) : ActCreate(u, p, body)
         /\ Send(p, FALSE)
      \/ allowed /\ object[p] # NoObject /\ DoGet(u, p)
      \/ ~(allowed /\ Accepted(p) = Bodies(p)) /\ Refuse

Create(u, p) == CreateOrGet(u, p)

Update(u, p) ==
  LET allowed == Reaches(u, p, {"write"})
  IN  \/ object[p] = NoObject /\ CreateOrGet(u, p)
      \/ /\ allowed
         /\ \E guarded \in Passing("PUT", p), body \in Accepted(p) :
              ActUpdate(u, p, body) /\ Send(p, guarded)
      \/ /\ object[p] # NoObject
         /\ ~(allowed /\ Accepted(p) = Bodies(p) /\ ~Failing("PUT", p))
         /\ Refuse

\* a body with neither data nor permissions is refused from anyone
Patch(u, p) ==
  \/ /\ Reaches(u, p, {"write"})
     /\ \E guarded \in Passing("PATCH", p), body \in Accepted(p) :
          /\ ActPatch(u, p, body)
          /\ IF Patched(p, body) = Malformed THEN Complain ELSE Send(p, guarded)
  \/ Refuse

Delete(u, p) ==
  LET allowed == Reaches(u, p, {"write"})
  IN  \/ /\ allowed
         /\ \E guarded \in Passing("DELETE", p) : ActDelete(p) /\ SendGone(guarded)
      \/ ~(allowed /\ ~Failing("DELETE", p)) /\ Refuse

\* GetAccessiblePaths of a namespace
Accessible(u, s) == {p \in Paths : Space(p) = s /\ Verify(u, {"read", "write"} \X {p})}

\* parseBulkQuery: everything, or what the user has been granted itself
Listed(u, s) ==
  LET all == Permitted(u, s[1], {"read", "write"})
  IN  {p \in Paths : Space(p) = s /\ object[p] # NoObject /\ (all \/ p \in Accessible(u, s))}

\* filters and the page select any of the objects listed; when the page leaves
\* some, the client is sent a token for the next one
Page(u, s, left) ==
  \E S \in SUBSET Listed(u, s) :
    /\ ActDeleteAll(s, S)
    /\ SendGone(FALSE)
    /\ \/ cached' = left
       \/ /\ S \notin {{}, Listed(u, s)}
          /\ \E nonce \in Nonces \ cached : cached' = left \cup {nonce}

\* Mutant of DeleteBulk: the token is spent before headers and query are checked.
DeleteBulkSpending(u, s) ==
  \E token \in cached \cup {Absent} :
    LET left == cached \ {token}
    IN  \/ Refuse /\ cached' = left
        \/ ParentThere(s[1]) /\ Page(u, s, left)
        \/ ~ParentThere(s[1]) /\ RefuseMissing(s[1]) /\ cached' = left

\* headers may always refuse, as they are compared with the zero epoch, and so
\* may the query, with a token that has no nonce or is not in the cache; the
\* token, if there is one, is spent before the parent is looked up
DeleteBulk(u, s) ==
  \/ Refuse /\ UNCHANGED cached
  \/ \E token \in cached \cup {Absent} :
       LET left == cached \ {token}
       IN  \/ ParentThere(s[1]) /\ Page(u, s, left)
           \/ ~ParentThere(s[1]) /\ RefuseMissing(s[1]) /\ cached' = left

\* a nonce outlives token_validity
Expire ==
  /\ \E nonce \in cached : cached' = cached \ {nonce}
  /\ answer' = NotAnswered
  /\ UNCHANGED <<data, seen>>

Next ==
  \/ \E u \in Clients, p \in Paths :
       \/ Get(u, p) /\ UNCHANGED cached
       \/ Create(u, p) /\ UNCHANGED cached
       \/ Update(u, p) /\ UNCHANGED cached
       \/ Patch(u, p) /\ UNCHANGED cached
       \/ Delete(u, p) /\ UNCHANGED cached
  \/ \E u \in Clients, s \in Spaces : DeleteBulk(u, s)
  \/ Expire

Spec == Init /\ [][Next]_vars

-----------------------------------------------------------------------------
(* Properties. *)

\* The variables have their types.
TypeOK ==
  /\ object \in [Paths -> Version \cup {NoObject}]
  /\ clock \in [Spaces -> Nat]
  /\ perms \in [Paths -> [Perms -> SUBSET Principals]]
  /\ held \in [Names -> SUBSET Groups]
  /\ seen \in [path : Paths \cup {Root}, version : Version \cup {NoObject}]
  /\ cached \subseteq Nonces
  /\ answer \in [status : {"none", "refused", "done"}, guarded : BOOLEAN, missing : Paths \cup {Absent}]
  /\ orphaned \subseteq Groups

MembersOf(g) ==
  IF object[g] = NoObject THEN {}
  ELSE IF object[g].members = Malformed THEN {} ELSE object[g].members

\* Whoever is a member of a group holds its principal, whatever sequence of
\* creates, replacements, patches and deletions led there (group.Model).
MembersHold == \A g \in Groups : \A n \in MembersOf(g) : g \in held[n]

\* Whoever holds the principal of a group is a member of it, and the group
\* exists, unless the group vanished with its bucket, which does not go through
\* group.Model, and has not been purged since.
HoldersAreMembers ==
  \A n \in Names : \A g \in held[n] \ orphaned : n \in MembersOf(g)

\* Grants vanish with the object they are about, also when a deletion above
\* takes it away, so that one created there later starts without them.
GrantsHaveObject ==
  \A p \in Paths, perm \in Perms : perms[p][perm] # {} => object[p] # NoObject

\* The parent of an object exists, although checkParent does not look buckets
\* up: unless permission.defaults grant more than creating buckets, whoever may
\* create beneath a bucket was granted that by the bucket, and grants end with it.
ParentsExist ==
  (\A perm \in Perms \ {"bucket:create"} : Static[perm] = {})
    => \A p \in Paths : object[p] # NoObject /\ Parent[p] # Root => object[Parent[p]] # NoObject

\* An update, patch or deletion that names the ETag of what the client saw
\* replaces exactly that: nothing written in between is lost (If-Match).
NoLostUpdate ==
  [][answer'.guarded /\ data' # data => object[seen.path] = seen.version]_vars

\* A refusal commits what was written before it.  It has changed no object, no
\* grant and no principal: every check that can fail comes before the first
\* write to them.  It may have spent a page token, on a collection that is gone
\* (ctrl.go spends it before it looks the parent up), and then nothing is left
\* there that the token could have deleted.
RefusalsChangeNothing ==
  [][answer'.status = "refused" =>
       /\ UNCHANGED data
       /\ cached' # cached =>
            answer'.missing \in Paths /\ \A p \in Paths : Parent[p] = answer'.missing => object[p] = NoObject]_vars
=============================================================================
