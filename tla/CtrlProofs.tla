----------------------------- MODULE CtrlProofs -----------------------------
(***************************************************************************)
(* Proofs of the properties of Ctrl, for every tree of paths, every set of *)
(* users and every body they send.                                         *)
(*                                                                         *)
(* A handler refuses, reads, creates, overwrites or removes: StepKinds     *)
(* reduces Next to these effects, with the facts each handler has          *)
(* established when it reaches its effect, and every invariant is shown    *)
(* for the effects.  The cache holds only page tokens: TokensNext.         *)
(***************************************************************************)
EXTENDS Ctrl, FiniteSetTheorems, TLAPS

USE DEF Groups, Clients, Names, Principals

Live(p) == object[p] # NoObject

\* Every object is well formed and no younger than its namespace.
WellFormed ==
  \A p \in Paths : Live(p) =>
    /\ object[p] \in Version
    /\ object[p].members \in SUBSET Names
    /\ object[p].modTime <= clock[Space(p)]

\* What was kept tells the object of its path by its ETag.
SeenTells ==
  seen.path \in Paths =>
    /\ seen.version \in Version
    /\ seen.version.modTime <= clock[Space(seen.path)]
    /\ (Live(seen.path) /\ object[seen.path].modTime = seen.version.modTime) => object[seen.path] = seen.version

IInv == TypeOK /\ WellFormed /\ SeenTells /\ MembersHold /\ HoldersAreMembers

-----------------------------------------------------------------------------
(* The effects of a handler. *)

WellTyped(grants) == DOMAIN grants \subseteq Perms /\ \A perm \in DOMAIN grants : grants[perm] \subseteq Principals

Keeps(p)      == seen' \in {seen, [path |-> p, version |-> object'[p]]}
Done(guarded) == answer' = Answer("done", guarded)

\* the ETag kept is that of the object replaced
Matches(p, guarded) ==
  guarded => Live(p) /\ seen.path = p /\ seen.version.modTime = object[p].modTime

Reads == data' = data /\ Done(FALSE) /\ \E p \in Paths : Live(p) /\ Keeps(p)

Creates(u, p, members, grants) ==
  /\ ~Live(p) /\ MayCreate(u, p) /\ ParentThere(Parent[p])
  /\ Put(p, members) /\ CreateGrants(p, grants) /\ orphaned' = orphaned
  /\ held' = IF p \in Groups THEN Joined(held, p, members) ELSE held
  /\ Keeps(p) /\ Done(FALSE)

Overwrites(p, members, guarded) ==
  /\ Live(p) /\ Matches(p, guarded)
  /\ Put(p, members)
  /\ perms' = perms \/ \E grants : WellTyped(grants) /\ MergeGrants(p, grants)
  /\ held' = IF p \in Groups THEN Joined(Purged({p}), p, members) ELSE held
  /\ orphaned' = IF p \in Groups THEN orphaned \ {p} ELSE orphaned
  /\ Keeps(p) /\ Done(guarded)

Removes(S, guarded) ==
  /\ guarded => \E p \in Paths : Matches(p, guarded)
  /\ RemoveGrants(S) /\ Remove(S)
  /\ held' = Purged(S) \/ (S \cap Groups = {} /\ held' = held)
  /\ seen' = seen /\ Done(guarded)

\* the parent is missing, and the token may be spent
Misses == \E up \in Paths : ~ParentThere(up) /\ RefuseMissing(up)

Effect ==
  \/ data' = data /\ seen' = seen /\ answer' \in {answer, NotAnswered}
  \/ Refuse
  \/ Misses
  \/ Reads
  \/ \E u \in Clients, p \in Paths, members \in SUBSET Names : \E grants :
       WellTyped(grants) /\ Creates(u, p, members, grants)
  \/ \E p \in Paths, members \in SUBSET Names, guarded \in BOOLEAN : Overwrites(p, members, guarded)
  \/ \E S \in SUBSET Paths, guarded \in BOOLEAN : Removes(S, guarded)

-----------------------------------------------------------------------------
(* The handlers have these effects only. *)

\* A request guarded by an ETag that passes names the ETag of the object.
LEMMA GuardMatches ==
  ASSUME TypeOK, NEW p \in Paths, Live(p), object[p] \in Version, NEW method,
         NEW guarded \in Passing(method, p)
  PROVE  guarded \in BOOLEAN /\ Matches(p, guarded)
<1>1. PICK h \in Headers(p) : guarded = Guarded(h) /\ CondPasses(method, h, object[p].modTime)
  BY DEF Passing
<1>2. guarded \in BOOLEAN
  BY <1>1 DEF Guarded
<1>3. ASSUME guarded PROVE Matches(p, guarded)
  <2>1. h.match \notin {Absent, AnyTag}
    BY <1>1, <1>3 DEF Guarded
  <2>2. seen.path = p /\ h.match = seen.version.modTime
    <3> DEFINE t == seen.version.modTime
               Own == {[NoHeaders EXCEPT !.match = t], [NoHeaders EXCEPT !.noneMatch = t],
                       [NoHeaders EXCEPT !.unmodified = Second(t)], [NoHeaders EXCEPT !.modified = Second(t)],
                       [NoHeaders EXCEPT !.match = t, !.unmodified = Second(t)]}
               Any == {NoHeaders, [NoHeaders EXCEPT !.match = AnyTag], [NoHeaders EXCEPT !.noneMatch = AnyTag]}
    <3>1. \A k \in Any : k.match \in {Absent, AnyTag}
      BY DEF NoHeaders
    <3>2. \A k \in Own : k.match \in {Absent, t}
      BY DEF NoHeaders
    <3>3. Headers(p) = Any \cup (IF seen.path # p THEN {} ELSE Own)
      BY DEF Headers
    <3> HIDE DEF Own, Any
    <3> QED
      BY <2>1, <3>1, <3>2, <3>3
  <2>3. IfMatch(h, object[p].modTime) \in {"true", "false"} /\ IfMatch(h, object[p].modTime) # "false"
    BY <1>1, <2>1 DEF CondPasses, IfMatch
  <2>4. h.match = object[p].modTime
    BY <2>1, <2>3 DEF IfMatch
  <2> QED
    BY <2>2, <2>4 DEF Matches
<1> QED
  BY <1>2, <1>3 DEF Matches

\* The grants a body brings, with those of its author, are well typed.
LEMMA WriterTyped ==
  ASSUME NEW u \in Clients, NEW p \in Paths, NEW body \in Bodies(p)
  PROVE  WellTyped(WithWriter(u, body.grants))
<1>1. body.grants \in GrantSets[Kind[p]] \cup {Absent} /\ Kind[p] \in Kinds
  BY TreeAssumption DEF Bodies
<1>2. CASE body.grants = Absent
  BY <1>2 DEF WithWriter, WellTyped, Perms
<1>3. CASE body.grants \in GrantSets[Kind[p]] /\ body.grants # Absent
  BY <1>1, <1>3, InputAssumption DEF WithWriter, WellTyped, Perms
<1> QED
  BY <1>1, <1>2, <1>3

\* An accepted body gives an object a list of names.
LEMMA AcceptedMembers ==
  ASSUME NEW p \in Paths, NEW body \in Accepted(p)
  PROVE  /\ body \in Bodies(p)
         /\ Provided(p, body) \in SUBSET Names
         /\ body.members # Absent /\ p \in Groups => body.members \in SUBSET Names
<1>1. body \in Bodies(p) /\ body.members # Malformed
  BY DEF Accepted
<1>2. p \in Groups => body.members \in MemberLists \cup {Absent, Malformed}
  BY <1>1 DEF Bodies
<1> QED
  BY <1>1, <1>2, InputAssumption DEF Provided

LEMMA PatchedMembers ==
  ASSUME WellFormed, NEW p \in Paths, Live(p), NEW body \in Accepted(p)
  PROVE  Patched(p, body) \in SUBSET Names /\ Patched(p, body) # Malformed
<1>1. Patched(p, body) \in SUBSET Names
  BY AcceptedMembers DEF Patched, WellFormed
<1> QED
  BY <1>1, SentinelAssumption

\* Answering with the object read or written.
LEMMA SendKeeps ==
  ASSUME NEW p, NEW guarded, Send(p, guarded)
  PROVE  Keeps(p) /\ Done(guarded)
BY DEF Send, Keeps, Done

LEMMA GetEffect ==
  ASSUME NEW u \in Clients, NEW p \in Paths, DoGet(u, p)
  PROVE  Refuse \/ Reads
<1>1. CASE Reaches(u, p, {"read", "write"}) /\ UNCHANGED data /\ Send(p, FALSE)
  BY <1>1, SendKeeps DEF Reads, Live, Reaches
<1> QED
  BY <1>1 DEF DoGet

LEMMA CreateOrGetEffect ==
  ASSUME TypeOK, NEW u \in Clients, NEW p \in Paths, CreateOrGet(u, p)
  PROVE  Effect
<1>1. CASE Refuse
  BY <1>1 DEF Effect
<1>2. CASE DoGet(u, p)
  BY <1>2, GetEffect DEF Effect
<1>3. ASSUME MayCreate(u, p), ParentThere(Parent[p]), ~Live(p), Send(p, FALSE),
             NEW body \in Accepted(p), ActCreate(u, p, body)
      PROVE  Effect
  <2>1. DefaultCreate(u, p, body) /\ held' = IF p \in Groups THEN Joined(held, p, Provided(p, body)) ELSE held
    BY <1>3 DEF ActCreate, GroupCreate
  <2>2. Creates(u, p, Provided(p, body), WithWriter(u, body.grants))
    BY <1>3, <2>1, SendKeeps DEF Creates, DefaultCreate
  <2>3. Provided(p, body) \in SUBSET Names /\ WellTyped(WithWriter(u, body.grants))
    BY AcceptedMembers, WriterTyped
  <2> QED
    BY <2>2, <2>3 DEF Effect
<1> QED
  BY <1>1, <1>2, <1>3 DEF CreateOrGet, Live

LEMMA OverwriteEffect ==
  ASSUME NEW u \in Clients, NEW p \in Paths, NEW body \in Bodies(p), NEW members,
         Overwrite(u, p, members, body.grants)
  PROVE  /\ Put(p, members)
         /\ perms' = perms \/ \E grants : WellTyped(grants) /\ MergeGrants(p, grants)
BY WriterTyped DEF Overwrite

LEMMA UpdateEffect ==
  ASSUME TypeOK, WellFormed, NEW u \in Clients, NEW p \in Paths, Update(u, p)
  PROVE  Effect
<1>1. CASE Refuse
  BY <1>1 DEF Effect
<1>2. CASE CreateOrGet(u, p)
  BY <1>2, CreateOrGetEffect
<1>3. ASSUME Live(p), NEW guarded \in Passing("PUT", p), NEW body \in Accepted(p),
             ActUpdate(u, p, body), Send(p, guarded)
      PROVE  Effect
  <2>1. /\ DefaultUpdate(u, p, body)
        /\ held' = IF p \in Groups THEN Joined(Purged({p}), p, Provided(p, body)) ELSE held
        /\ orphaned' = IF p \in Groups THEN orphaned \ {p} ELSE orphaned
    BY <1>3 DEF ActUpdate, GroupUpdate
  <2>2. guarded \in BOOLEAN /\ Matches(p, guarded)
    BY <1>3, GuardMatches DEF WellFormed
  <2>3. Provided(p, body) \in SUBSET Names /\ body \in Bodies(p)
    BY AcceptedMembers
  <2>4. Overwrites(p, Provided(p, body), guarded)
    BY <1>3, <2>1, <2>2, <2>3, SendKeeps, OverwriteEffect DEF Overwrites, DefaultUpdate
  <2> QED
    BY <2>2, <2>3, <2>4 DEF Effect
<1> QED
  BY <1>1, <1>2, <1>3 DEF Update, Reaches, Live

LEMMA PatchEffect ==
  ASSUME TypeOK, WellFormed, NEW u \in Clients, NEW p \in Paths, Patch(u, p)
  PROVE  Effect
<1>1. CASE Refuse
  BY <1>1 DEF Effect
<1>2. ASSUME Live(p), NEW guarded \in Passing("PATCH", p), NEW body \in Accepted(p), ActPatch(u, p, body),
             IF Patched(p, body) = Malformed THEN Complain ELSE Send(p, guarded)
      PROVE  Effect
  <2>1. Patched(p, body) \in SUBSET Names /\ Patched(p, body) # Malformed
    BY <1>2, PatchedMembers
  <2>2. /\ DefaultPatch(u, p, body)
        /\ held' = IF p \in Groups THEN Joined(Purged({p}), p, Patched(p, body)) ELSE held
        /\ orphaned' = IF p \in Groups THEN orphaned \ {p} ELSE orphaned
    BY <1>2, <2>1 DEF ActPatch, GroupPatch
  <2>3. guarded \in BOOLEAN /\ Matches(p, guarded)
    BY <1>2, GuardMatches DEF WellFormed
  <2>4. body \in Bodies(p)
    BY AcceptedMembers
  <2>5. Overwrites(p, Patched(p, body), guarded)
    BY <1>2, <2>1, <2>2, <2>3, <2>4, SendKeeps, OverwriteEffect DEF Overwrites, DefaultPatch
  <2> QED
    BY <2>1, <2>3, <2>5 DEF Effect
<1> QED
  BY <1>1, <1>2 DEF Patch, Reaches, Live

LEMMA DeleteEffect ==
  ASSUME TypeOK, WellFormed, NEW u \in Clients, NEW p \in Paths, Delete(u, p)
  PROVE  Effect
<1>1. CASE Refuse
  BY <1>1 DEF Effect
<1>2. ASSUME Live(p), NEW guarded \in Passing("DELETE", p), ActDelete(p), SendGone(guarded)
      PROVE  Effect
  <2>1. guarded \in BOOLEAN /\ Matches(p, guarded)
    BY <1>2, GuardMatches DEF WellFormed
  <2>2. Removes({p}, guarded)
    BY <1>2, <2>1 DEF Removes, ActDelete, GroupDelete, DefaultDelete, DefaultDeleteAll, SendGone, Done
  <2> QED
    BY <2>1, <2>2 DEF Effect
<1> QED
  BY <1>1, <1>2 DEF Delete, Reaches, Live

LEMMA DeleteBulkEffect ==
  ASSUME NEW u \in Clients, NEW s \in Spaces, DeleteBulk(u, s)
  PROVE  Effect
<1>1. CASE Refuse
  BY <1>1 DEF Effect
<1>2. ASSUME NEW S \in SUBSET Listed(u, s), ActDeleteAll(s, S), SendGone(FALSE)
      PROVE  Effect
  <2>1. S \subseteq Paths /\ \A p \in S : Kind[p] = s[2]
    BY DEF Listed, Space
  <2>2. Removes(S, FALSE)
    BY <1>2, <2>1 DEF Removes, ActDeleteAll, GroupDeleteAll, DefaultDeleteAll, SendGone, Done
  <2> QED
    BY <2>1, <2>2 DEF Effect
<1>3. CASE ~ParentThere(s[1]) /\ RefuseMissing(s[1])
  BY <1>3 DEF Effect, Misses, ParentThere
<1> QED
  BY <1>1, <1>2, <1>3 DEF DeleteBulk, Page

LEMMA StepKinds == TypeOK /\ WellFormed /\ [Next]_vars => Effect
<1> SUFFICES ASSUME TypeOK, WellFormed, [Next]_vars PROVE Effect
  OBVIOUS
<1>1. CASE UNCHANGED vars \/ Expire
  BY <1>1 DEF Effect, Expire, vars, data
<1>2. ASSUME NEW u \in Clients, NEW p \in Paths, Get(u, p) \/ Create(u, p) PROVE Effect
  BY <1>2, GetEffect, CreateOrGetEffect DEF Get, Create, Effect
<1>3. ASSUME NEW u \in Clients, NEW p \in Paths, Update(u, p) \/ Patch(u, p) \/ Delete(u, p) PROVE Effect
  BY <1>3, UpdateEffect, PatchEffect, DeleteEffect
<1>4. ASSUME NEW u \in Clients, NEW s \in Spaces, DeleteBulk(u, s) PROVE Effect
  BY <1>4, DeleteBulkEffect
<1> QED
  BY <1>1, <1>2, <1>3, <1>4 DEF Next

\* The cache holds nonces, whatever the step.
LEMMA TokensNext == TypeOK /\ [Next]_vars => cached' \subseteq Nonces
<1> SUFFICES ASSUME TypeOK, [Next]_vars PROVE cached' \subseteq Nonces
  OBVIOUS
<1>1. cached \subseteq Nonces
  BY DEF TypeOK
<1>2. CASE cached' = cached
  BY <1>1, <1>2
<1>3. ASSUME NEW u \in Clients, NEW s \in Spaces, DeleteBulk(u, s) PROVE cached' \subseteq Nonces
  <2>1. PICK token \in cached \cup {Absent} :
          \/ cached' = cached \/ cached' = cached \ {token}
          \/ \E nonce \in Nonces \ cached : cached' = (cached \ {token}) \cup {nonce}
    BY <1>3 DEF DeleteBulk, Page
  <2> QED
    BY <1>1, <2>1
<1>4. CASE Expire
  BY <1>1, <1>4 DEF Expire
<1> QED
  BY <1>2, <1>3, <1>4 DEF Next, vars

-----------------------------------------------------------------------------
(* What writes do to the objects. *)

LEMMA PutEffect ==
  ASSUME TypeOK, NEW p \in Paths, NEW members \in SUBSET Names, Put(p, members)
  PROVE  /\ clock' \in [Spaces -> Nat]
         /\ clock'[Space(p)] = clock[Space(p)] + 1
         /\ \A s \in Spaces : clock[s] <= clock'[s]
         /\ object'[p] = [modTime |-> clock'[Space(p)], members |-> members]
         /\ object'[p] \in Version /\ object'[p] # NoObject
         /\ object' \in [Paths -> Version \cup {NoObject}]
         /\ \A q \in Paths \ {p} : object'[q] = object[q]
<1>1. Space(p) \in Spaces /\ clock \in [Spaces -> Nat] /\ object \in [Paths -> Version \cup {NoObject}]
  BY DEF TypeOK, Spaces
<1>2. clock' = [clock EXCEPT ![Space(p)] = @ + 1]
  BY DEF Put
<1>3. clock' \in [Spaces -> Nat] /\ clock'[Space(p)] = clock[Space(p)] + 1
  BY <1>1, <1>2
<1>4. \A s \in Spaces : clock[s] <= clock'[s]
  BY <1>1, <1>2
<1>5. object' = [object EXCEPT ![p] = [modTime |-> clock'[Space(p)], members |-> members]]
  BY DEF Put
<1>6. [modTime |-> clock'[Space(p)], members |-> members] \in Version
  BY <1>1, <1>3 DEF Version
<1> QED
  BY <1>1, <1>3, <1>4, <1>5, <1>6, SentinelAssumption

\* the objects a deletion takes away
Gone(S) == {q \in S \cup UNION {Swept[p] : p \in S} : object[q] # NoObject}

LEMMA RemoveEffect ==
  ASSUME TypeOK, NEW S \in SUBSET Paths, Remove(S)
  PROVE  /\ clock' \in [Spaces -> Nat]
         /\ \A s \in Spaces : clock[s] <= clock'[s]
         /\ object' \in [Paths -> Version \cup {NoObject}]
         /\ \A q \in Paths : object'[q] = IF q \in Gone(S) THEN NoObject ELSE object[q]
         /\ orphaned' = (orphaned \ S) \cup ((Gone(S) \ S) \cap Groups)
<1>1. clock \in [Spaces -> Nat] /\ object \in [Paths -> Version \cup {NoObject}]
  BY DEF TypeOK
<1>2. /\ object' = [q \in Paths |-> IF q \in Gone(S) THEN NoObject ELSE object[q]]
      /\ clock' = [s \in Spaces |-> clock[s] + Cardinality({q \in Gone(S) : Space(q) = s})]
      /\ orphaned' = (orphaned \ S) \cup ((Gone(S) \ S) \cap Groups)
  BY DEF Remove, Gone
<1>3. \A s \in Spaces : Cardinality({q \in Gone(S) : Space(q) = s}) \in Nat
  <2> TAKE s \in Spaces
  <2>1. {q \in Gone(S) : Space(q) = s} \subseteq Paths
    BY TreeAssumption DEF Gone
  <2> QED
    BY <2>1, TreeAssumption, FS_Subset, FS_CardinalityType
<1>4. clock' \in [Spaces -> Nat] /\ \A s \in Spaces : clock[s] <= clock'[s]
  BY <1>1, <1>2, <1>3
<1> QED
  BY <1>1, <1>2, <1>4

LEMMA GrantsTyped ==
  ASSUME TypeOK, NEW p \in Paths, NEW grants, WellTyped(grants), CreateGrants(p, grants) \/ MergeGrants(p, grants)
  PROVE  /\ perms' \in [Paths -> [Perms -> SUBSET Principals]]
         /\ \A q \in Paths \ {p} : perms'[q] = perms[q]
<1>1. perms \in [Paths -> [Perms -> SUBSET Principals]]
  BY DEF TypeOK
<1>2. \A perm \in Perms : perms[p][perm] \subseteq Principals
  BY <1>1
<1>3. \A perm \in Perms : perm \in DOMAIN grants => grants[perm] \subseteq Principals
  BY DEF WellTyped
<1>4. CASE CreateGrants(p, grants)
  <2> DEFINE new == [perm \in Perms |-> perms[p][perm] \cup (IF perm \in DOMAIN grants THEN grants[perm] ELSE {})]
  <2>1. perms' = [perms EXCEPT ![p] = new]
    BY <1>4 DEF CreateGrants
  <2>2. new \in [Perms -> SUBSET Principals]
    BY <1>2, <1>3
  <2> HIDE DEF new
  <2> QED
    BY <1>1, <2>1, <2>2
<1>5. CASE MergeGrants(p, grants)
  <2> DEFINE new == [perm \in Perms |-> IF perm \in DOMAIN grants THEN grants[perm] ELSE perms[p][perm]]
  <2>1. perms' = [perms EXCEPT ![p] = new]
    BY <1>5 DEF MergeGrants
  <2>2. new \in [Perms -> SUBSET Principals]
    BY <1>2, <1>3
  <2> HIDE DEF new
  <2> QED
    BY <1>1, <2>1, <2>2
<1> QED
  BY <1>4, <1>5

LEMMA RemoveGrantsEffect ==
  ASSUME TypeOK, NEW S \in SUBSET Paths, RemoveGrants(S)
  PROVE  /\ perms' \in [Paths -> [Perms -> SUBSET Principals]]
         /\ \A q \in Paths : \A perm \in Perms :
              perms'[q][perm] = IF Above[q] \cap S # {} THEN {} ELSE perms[q][perm]
BY DEF RemoveGrants, TypeOK

-----------------------------------------------------------------------------
(* The inductive invariant. *)

LEMMA InitInv == Init => IInv
<1> SUFFICES ASSUME Init PROVE IInv
  OBVIOUS
<1>1. TypeOK
  BY DEF Init, TypeOK, Nothing, NotAnswered, Answer
<1>2. WellFormed /\ SeenTells
  BY TreeAssumption DEF Init, WellFormed, SeenTells, Live, Nothing
<1>3. MembersHold /\ HoldersAreMembers
  BY DEF Init, MembersHold, HoldersAreMembers, MembersOf
<1> QED
  BY <1>1, <1>2, <1>3 DEF IInv

\* What is kept is a path and a version of an object.
LEMMA KeepsTyped ==
  ASSUME TypeOK, NEW p \in Paths, Keeps(p), object'[p] \in Version
  PROVE  seen' \in [path : Paths \cup {Root}, version : Version \cup {NoObject}]
BY DEF TypeOK, Keeps

\* A representation kept before or now tells the object, when the object of its
\* path is the same or younger than its namespace was.
LEMMA KeepsTells ==
  ASSUME TypeOK, SeenTells, NEW p \in Paths, Keeps(p), object'[p] \in Version,
         object'[p].modTime <= clock'[Space(p)],
         clock' \in [Spaces -> Nat], \A s \in Spaces : clock[s] <= clock'[s],
         \A q \in Paths : object'[q] = object[q] \/ object'[q].modTime = clock[Space(q)] + 1
  PROVE  SeenTells'
<1>1. CASE seen' = [path |-> p, version |-> object'[p]]
  BY <1>1 DEF SeenTells, Live, Space
<1>2. CASE seen' = seen
  <2> SUFFICES ASSUME seen.path \in Paths PROVE SeenTells'
    BY <1>2 DEF SeenTells
  <2> DEFINE q == seen.path
  <2>1. /\ seen.version \in Version /\ seen.version.modTime <= clock[Space(q)]
        /\ (Live(q) /\ object[q].modTime = seen.version.modTime) => object[q] = seen.version
    BY DEF SeenTells
  <2>2. Space(q) \in Spaces /\ clock \in [Spaces -> Nat] /\ seen.version.modTime \in Nat
    BY <2>1 DEF Spaces, TypeOK, Version
  <2>3. seen.version.modTime <= clock'[Space(q)]
    BY <2>1, <2>2
  <2>4. (object'[q] # NoObject /\ object'[q].modTime = seen.version.modTime) => object'[q] = seen.version
    <3>1. CASE object'[q] = object[q]
      BY <2>1, <3>1 DEF Live
    <3>2. CASE object'[q].modTime = clock[Space(q)] + 1
      BY <2>1, <2>2, <3>2
    <3> QED
      BY <3>1, <3>2
  <2> QED
    BY <1>2, <2>1, <2>3, <2>4 DEF SeenTells, Live, Space
<1> QED
  BY <1>1, <1>2 DEF Keeps

LEMMA ReadsInv ==
  ASSUME IInv, Reads, cached' \subseteq Nonces
  PROVE  IInv'
<1>1. PICK p \in Paths : Live(p) /\ Keeps(p)
  BY DEF Reads
<1>2. object' = object /\ clock' = clock /\ perms' = perms /\ held' = held /\ orphaned' = orphaned /\ Done(FALSE)
  BY DEF Reads, data
<1>3. object[p] \in Version /\ object[p].modTime <= clock[Space(p)]
  BY <1>1 DEF IInv, WellFormed
<1>4. TypeOK'
  <2>1. seen' \in [path : Paths \cup {Root}, version : Version \cup {NoObject}]
    BY <1>1, <1>2, <1>3, KeepsTyped DEF IInv
  <2> QED
    BY <1>2, <2>1 DEF IInv, TypeOK, Done, Answer
<1>5. WellFormed'
  BY <1>2 DEF IInv, WellFormed, Live, Space
<1>6. SeenTells'
  <2>1. clock \in [Spaces -> Nat] /\ \A s \in Spaces : clock[s] <= clock[s]
    BY DEF IInv, TypeOK
  <2> QED
    BY <1>1, <1>2, <1>3, <2>1, KeepsTells DEF IInv
<1>7. MembersHold' /\ HoldersAreMembers'
  BY <1>2 DEF IInv, MembersHold, HoldersAreMembers, MembersOf
<1> QED
  BY <1>4, <1>5, <1>6, <1>7 DEF IInv

\* What creating and overwriting share.
LEMMA PutInv ==
  ASSUME IInv, NEW p \in Paths, NEW members \in SUBSET Names, Put(p, members), Keeps(p)
  PROVE  /\ object' \in [Paths -> Version \cup {NoObject}] /\ clock' \in [Spaces -> Nat]
         /\ seen' \in [path : Paths \cup {Root}, version : Version \cup {NoObject}]
         /\ WellFormed' /\ SeenTells'
         /\ MembersOf(p)' = members
         /\ \A g \in Groups \ {p} : MembersOf(g)' = MembersOf(g)
<1> USE DEF IInv
<1>1. /\ clock' \in [Spaces -> Nat]
      /\ clock'[Space(p)] = clock[Space(p)] + 1
      /\ \A s \in Spaces : clock[s] <= clock'[s]
      /\ object'[p] = [modTime |-> clock'[Space(p)], members |-> members]
      /\ object'[p] \in Version /\ object'[p] # NoObject
      /\ object' \in [Paths -> Version \cup {NoObject}]
      /\ \A q \in Paths \ {p} : object'[q] = object[q]
  BY PutEffect
<1>2. \A q \in Paths : Space(q) \in Spaces
  BY DEF Spaces
<1>3. clock[Space(p)] \in Nat /\ clock'[Space(p)] \in Nat
  BY <1>1, <1>2 DEF TypeOK
<1>4. WellFormed'
  <2> SUFFICES ASSUME NEW q \in Paths, Live(q)'
               PROVE  /\ object'[q] \in Version
                      /\ object'[q].members \in SUBSET Names
                      /\ object'[q].modTime <= clock'[Space(q)]
    BY DEF WellFormed, Space
  <2>1. CASE q = p
    BY <1>1, <1>3, <2>1
  <2>2. CASE q # p
    <3>1. object'[q] = object[q] /\ Live(q)
      BY <1>1, <2>2 DEF Live
    <3>2. object[q] \in Version /\ object[q].members \in SUBSET Names /\ object[q].modTime <= clock[Space(q)]
      BY <3>1 DEF WellFormed
    <3>3. object[q].modTime \in Nat /\ clock[Space(q)] \in Nat /\ clock'[Space(q)] \in Nat /\ clock[Space(q)] <= clock'[Space(q)]
      BY <1>1, <1>2, <3>2 DEF Version, TypeOK
    <3> QED
      BY <3>1, <3>2, <3>3
  <2> QED
    BY <2>1, <2>2
<1>5. SeenTells'
  <2>1. \A q \in Paths : object'[q] = object[q] \/ object'[q].modTime = clock[Space(q)] + 1
    BY <1>1
  <2>2. object'[p].modTime <= clock'[Space(p)]
    BY <1>1, <1>3
  <2> QED
    BY <1>1, <2>1, <2>2, KeepsTells
<1>6. MembersOf(p)' = members
  BY <1>1, SentinelAssumption DEF MembersOf
<1>7. \A g \in Groups \ {p} : MembersOf(g)' = MembersOf(g)
  BY <1>1 DEF MembersOf
<1> QED
  BY <1>1, <1>4, <1>5, <1>6, <1>7, KeepsTyped

LEMMA CreatesInv ==
  ASSUME IInv, NEW u \in Clients, NEW p \in Paths, NEW members \in SUBSET Names, NEW grants,
         WellTyped(grants), Creates(u, p, members, grants), cached' \subseteq Nonces
  PROVE  IInv'
<1> USE DEF IInv
<1>1. /\ object' \in [Paths -> Version \cup {NoObject}] /\ clock' \in [Spaces -> Nat]
      /\ seen' \in [path : Paths \cup {Root}, version : Version \cup {NoObject}]
      /\ WellFormed' /\ SeenTells'
      /\ MembersOf(p)' = members
      /\ \A g \in Groups \ {p} : MembersOf(g)' = MembersOf(g)
  BY PutInv DEF Creates
<1>2. held' = (IF p \in Groups THEN Joined(held, p, members) ELSE held) /\ orphaned' = orphaned
  BY DEF Creates
<1>3. held \in [Names -> SUBSET Groups] /\ orphaned \subseteq Groups
  BY DEF TypeOK
<1>4. /\ held' \in [Names -> SUBSET Groups]
      /\ \A n \in Names : held'[n] = IF p \in Groups /\ n \in members THEN held[n] \cup {p} ELSE held[n]
  <2>1. CASE p \in Groups
    BY <1>2, <1>3, <2>1 DEF Joined
  <2>2. CASE p \notin Groups
    BY <1>2, <1>3, <2>2
  <2> QED
    BY <2>1, <2>2
<1>5. TypeOK'
  <2>1. perms' \in [Paths -> [Perms -> SUBSET Principals]]
    BY GrantsTyped DEF Creates
  <2> QED
    BY <1>1, <1>2, <1>3, <1>4, <2>1 DEF TypeOK, Creates, Done, Answer
<1>6. MembersHold'
  <2> SUFFICES ASSUME NEW g \in Groups, NEW n \in MembersOf(g)' PROVE g \in held'[n]
    BY DEF MembersHold
  <2>1. n \in Names
    BY <1>1 DEF WellFormed, MembersOf, Live
  <2>2. CASE g = p
    BY <1>1, <1>4, <2>1, <2>2
  <2>3. CASE g # p
    <3>1. n \in MembersOf(g)
      BY <1>1, <2>3
    <3>2. g \in held[n]
      BY <3>1 DEF MembersHold
    <3> QED
      BY <1>4, <2>1, <2>3, <3>2
  <2> QED
    BY <2>2, <2>3
<1>7. HoldersAreMembers'
  <2> SUFFICES ASSUME NEW n \in Names, NEW g \in held'[n] \ orphaned' PROVE n \in MembersOf(g)'
    BY DEF HoldersAreMembers
  <2>1. CASE g \in held[n]
    <3>1. n \in MembersOf(g) /\ g \in Groups
      BY <1>2, <1>3, <2>1 DEF HoldersAreMembers
    <3>2. g # p
      BY <3>1 DEF Creates, Live, MembersOf
    <3> QED
      BY <1>1, <3>1, <3>2
  <2>2. CASE g \notin held[n]
    BY <1>1, <1>4, <2>2
  <2> QED
    BY <2>1, <2>2
<1> QED
  BY <1>1, <1>5, <1>6, <1>7

LEMMA OverwritesInv ==
  ASSUME IInv, NEW p \in Paths, NEW members \in SUBSET Names, NEW guarded \in BOOLEAN,
         Overwrites(p, members, guarded), cached' \subseteq Nonces
  PROVE  IInv'
<1> USE DEF IInv
<1>1. /\ object' \in [Paths -> Version \cup {NoObject}] /\ clock' \in [Spaces -> Nat]
      /\ seen' \in [path : Paths \cup {Root}, version : Version \cup {NoObject}]
      /\ WellFormed' /\ SeenTells'
      /\ MembersOf(p)' = members
      /\ \A g \in Groups \ {p} : MembersOf(g)' = MembersOf(g)
  BY PutInv DEF Overwrites
<1>2. /\ held' = IF p \in Groups THEN Joined(Purged({p}), p, members) ELSE held
      /\ orphaned' = IF p \in Groups THEN orphaned \ {p} ELSE orphaned
  BY DEF Overwrites
<1>3. held \in [Names -> SUBSET Groups] /\ orphaned \subseteq Groups
  BY DEF TypeOK
<1>4. /\ held' \in [Names -> SUBSET Groups]
      /\ \A n \in Names : held'[n] = IF p \notin Groups THEN held[n]
                                     ELSE IF n \in members THEN held[n] \cup {p} ELSE held[n] \ {p}
  <2>1. CASE p \in Groups
    <3>1. Purged({p}) = [n \in Names |-> held[n] \ {p}]
      BY DEF Purged
    <3>2. held' = [n \in Names |-> IF n \in members THEN (held[n] \ {p}) \cup {p} ELSE held[n] \ {p}]
      BY <1>2, <2>1, <3>1 DEF Joined
    <3> QED
      BY <1>3, <2>1, <3>2
  <2>2. CASE p \notin Groups
    BY <1>2, <1>3, <2>2
  <2> QED
    BY <2>1, <2>2
<1>5. TypeOK'
  <2>1. perms' \in [Paths -> [Perms -> SUBSET Principals]]
    BY GrantsTyped DEF Overwrites, TypeOK
  <2> QED
    BY <1>1, <1>2, <1>3, <1>4, <2>1 DEF TypeOK, Overwrites, Done, Answer
<1>6. MembersHold'
  <2> SUFFICES ASSUME NEW g \in Groups, NEW n \in MembersOf(g)' PROVE g \in held'[n]
    BY DEF MembersHold
  <2>1. n \in Names
    BY <1>1 DEF WellFormed, MembersOf, Live
  <2>2. CASE g = p
    BY <1>1, <1>4, <2>1, <2>2
  <2>3. CASE g # p
    <3>1. n \in MembersOf(g)
      BY <1>1, <2>3
    <3>2. g \in held[n]
      BY <3>1 DEF MembersHold
    <3> QED
      BY <1>4, <2>1, <2>3, <3>2
  <2> QED
    BY <2>2, <2>3
<1>7. HoldersAreMembers'
  <2> SUFFICES ASSUME NEW n \in Names, NEW g \in held'[n] \ orphaned' PROVE n \in MembersOf(g)'
    BY DEF HoldersAreMembers
  <2>1. g \in Groups
    BY <1>4
  <2>2. CASE g = p
    <3>1. n \in members
      BY <1>4, <2>1, <2>2
    <3>2. MembersOf(p)' = members
      BY <1>1
    <3> QED
      BY <2>2, <3>1, <3>2
  <2>3. CASE g # p
    <3>1. g \in held'[n] /\ held'[n] \subseteq held[n] \cup {p}
      BY <1>4
    <3>2. g \in held[n]
      BY <2>3, <3>1
    <3>3. g \notin orphaned
      BY <1>2, <2>3
    <3> QED
      BY <1>1, <2>1, <2>3, <3>2, <3>3 DEF HoldersAreMembers
  <2> QED
    BY <2>2, <2>3
<1> QED
  BY <1>1, <1>5, <1>6, <1>7

LEMMA RemovesInv ==
  ASSUME IInv, NEW S \in SUBSET Paths, NEW guarded \in BOOLEAN, Removes(S, guarded), cached' \subseteq Nonces
  PROVE  IInv'
<1> USE DEF IInv
<1>1. /\ clock' \in [Spaces -> Nat]
      /\ \A s \in Spaces : clock[s] <= clock'[s]
      /\ object' \in [Paths -> Version \cup {NoObject}]
      /\ \A q \in Paths : object'[q] = IF q \in Gone(S) THEN NoObject ELSE object[q]
      /\ orphaned' = (orphaned \ S) \cup ((Gone(S) \ S) \cap Groups)
  BY RemoveEffect DEF Removes
<1>2. held \in [Names -> SUBSET Groups] /\ orphaned \subseteq Groups
  BY DEF TypeOK
<1>3. held' \in [Names -> SUBSET Groups] /\ \A n \in Names : held'[n] = held[n] \ S
  <2>1. CASE held' = Purged(S)
    BY <1>2, <2>1 DEF Purged
  <2>2. CASE S \cap Groups = {} /\ held' = held
    BY <1>2, <2>2
  <2> QED
    BY <2>1, <2>2 DEF Removes
<1>4. TypeOK'
  <2>1. perms' \in [Paths -> [Perms -> SUBSET Principals]]
    BY RemoveGrantsEffect DEF Removes
  <2>2. seen' = seen /\ answer' = Answer("done", guarded)
    BY DEF Removes, Done
  <2> QED
    BY <1>1, <1>2, <1>3, <2>1, <2>2 DEF TypeOK, Answer
<1>5. \A q \in Paths : Space(q) \in Spaces
  BY DEF Spaces
<1>6. WellFormed'
  <2> SUFFICES ASSUME NEW q \in Paths, Live(q)'
               PROVE  /\ object'[q] \in Version
                      /\ object'[q].members \in SUBSET Names
                      /\ object'[q].modTime <= clock'[Space(q)]
    BY DEF WellFormed, Space
  <2>1. object'[q] = object[q] /\ Live(q)
    BY <1>1 DEF Live
  <2>2. object[q] \in Version /\ object[q].members \in SUBSET Names /\ object[q].modTime <= clock[Space(q)]
    BY <2>1 DEF WellFormed
  <2>3. object[q].modTime \in Nat /\ clock[Space(q)] \in Nat /\ clock'[Space(q)] \in Nat /\ clock[Space(q)] <= clock'[Space(q)]
    BY <1>1, <1>5, <2>2 DEF Version, TypeOK
  <2> QED
    BY <2>1, <2>2, <2>3
<1>7. SeenTells'
  <2>1. seen' = seen
    BY DEF Removes
  <2> SUFFICES ASSUME seen.path \in Paths PROVE SeenTells'
    BY <2>1 DEF SeenTells
  <2>2. /\ seen.version \in Version /\ seen.version.modTime <= clock[Space(seen.path)]
        /\ (Live(seen.path) /\ object[seen.path].modTime = seen.version.modTime) => object[seen.path] = seen.version
    BY DEF SeenTells
  <2>3. seen.version.modTime <= clock'[Space(seen.path)]
    BY <1>1, <1>5, <2>2 DEF Version, TypeOK
  <2>4. object'[seen.path] # NoObject => object'[seen.path] = object[seen.path]
    BY <1>1
  <2> QED
    BY <2>1, <2>2, <2>3, <2>4 DEF SeenTells, Live, Space
<1>8. \A g \in Groups : MembersOf(g)' = IF g \in Gone(S) THEN {} ELSE MembersOf(g)
  BY <1>1 DEF MembersOf
<1>9. MembersHold'
  <2> SUFFICES ASSUME NEW g \in Groups, NEW n \in MembersOf(g)' PROVE g \in held'[n]
    BY DEF MembersHold
  <2>1. g \notin Gone(S) /\ n \in MembersOf(g)
    BY <1>8
  <2>2. n \in Names /\ Live(g)
    BY <2>1 DEF WellFormed, MembersOf, Live
  <2>3. g \notin S
    BY <2>1, <2>2 DEF Gone, Live
  <2> QED
    BY <1>3, <2>1, <2>2, <2>3 DEF MembersHold
<1>10. HoldersAreMembers'
  <2> SUFFICES ASSUME NEW n \in Names, NEW g \in held'[n] \ orphaned' PROVE n \in MembersOf(g)'
    BY DEF HoldersAreMembers
  <2>1. g \in Groups /\ g \in held[n] /\ g \notin S
    BY <1>2, <1>3
  <2>2. g \notin orphaned /\ g \notin Gone(S)
    BY <1>1, <2>1
  <2> QED
    BY <1>8, <2>1, <2>2 DEF HoldersAreMembers
<1> QED
  BY <1>4, <1>6, <1>7, <1>9, <1>10

LEMMA NextInv == IInv /\ [Next]_vars => IInv'
<1> SUFFICES ASSUME IInv, [Next]_vars PROVE IInv'
  OBVIOUS
<1>1. Effect
  BY StepKinds DEF IInv
<1>2. cached' \subseteq Nonces
  BY TokensNext DEF IInv
<1>3. ASSUME data' = data, seen' = seen,
             answer' \in [status : {"none", "refused", "done"}, guarded : BOOLEAN, missing : Paths \cup {Absent}]
      PROVE  IInv'
  <2>1. object' = object /\ clock' = clock /\ perms' = perms /\ held' = held /\ orphaned' = orphaned
    BY <1>3 DEF data
  <2>2. TypeOK'
    BY <1>2, <1>3, <2>1 DEF IInv, TypeOK
  <2>3. WellFormed' /\ SeenTells' /\ MembersHold' /\ HoldersAreMembers'
    BY <1>3, <2>1 DEF IInv, WellFormed, SeenTells, MembersHold, HoldersAreMembers, MembersOf, Live, Space
  <2> QED
    BY <2>2, <2>3 DEF IInv
<1>4. CASE data' = data /\ seen' = seen /\ answer' \in {answer, NotAnswered}
  <2>1. NotAnswered \in [status : {"none", "refused", "done"}, guarded : BOOLEAN, missing : Paths \cup {Absent}]
    BY DEF NotAnswered, Answer
  <2> QED
    BY <1>3, <1>4, <2>1 DEF IInv, TypeOK
<1>5. CASE Refuse
  BY <1>3, <1>5 DEF Refuse, Complain, Answer
<1>6. ASSUME NEW up \in Paths, RefuseMissing(up) PROVE IInv'
  <2>1. answer' = [status |-> "refused", guarded |-> FALSE, missing |-> up] /\ data' = data /\ seen' = seen
    BY <1>6 DEF RefuseMissing, Answer, data
  <2> QED
    BY <1>3, <2>1
<1> QED
  BY <1>1, <1>2, <1>4, <1>5, <1>6, ReadsInv, CreatesInv, OverwritesInv, RemovesInv DEF Effect, Misses

LEMMA Invariance == Spec => []IInv
BY InitInv, NextInv, PTL DEF Spec

-----------------------------------------------------------------------------
(* The theorems. *)

\* The variables of the controller have their types.
THEOREM CtrlTypeCorrect == Spec => []TypeOK
BY Invariance, PTL DEF IInv

\* Members of a group hold its principal, after any sequence of creates,
\* replacements, patches and deletions of any groups (group.Model).
THEOREM MembersHoldTheGroup == Spec => []MembersHold
BY Invariance, PTL DEF IInv

\* Who holds the principal of a group is a member of it, unless the group
\* vanished with its bucket.
THEOREM HoldersAreInTheGroup == Spec => []HoldersAreMembers
BY Invariance, PTL DEF IInv

\* A change guarded by an ETag replaces the very version the ETag is of.
THEOREM UpdatesAreSeen == Spec => NoLostUpdate
<1>1. IInv /\ [Next]_vars => [answer'.guarded /\ data' # data => object[seen.path] = seen.version]_vars
  <2> SUFFICES ASSUME IInv, [Next]_vars, answer'.guarded, data' # data
               PROVE  object[seen.path] = seen.version
    OBVIOUS
  <2>1. Effect
    BY StepKinds DEF IInv
  <2>2. \A p \in Paths : Matches(p, TRUE) => object[seen.path] = seen.version
    BY DEF Matches, IInv, SeenTells
  <2>3. ~Refuse /\ ~Misses /\ ~Reads
    BY DEF Refuse, Misses, RefuseMissing, Reads
  <2>4. ~ \E u \in Clients, p \in Paths, members \in SUBSET Names : \E grants : Creates(u, p, members, grants)
    BY DEF Creates, Done, Answer
  <2>5. ASSUME NEW p \in Paths, NEW members \in SUBSET Names, NEW guarded \in BOOLEAN,
               Overwrites(p, members, guarded)
        PROVE  Matches(p, TRUE)
    BY <2>5 DEF Overwrites, Done, Answer, Matches
  <2>6. ASSUME NEW S \in SUBSET Paths, NEW guarded \in BOOLEAN, Removes(S, guarded)
        PROVE  \E p \in Paths : Matches(p, TRUE)
    BY <2>6 DEF Removes, Done, Answer, Matches
  <2> QED
    BY <2>1, <2>2, <2>3, <2>4, <2>5, <2>6 DEF Effect
<1> QED
  BY <1>1, Invariance, PTL DEF Spec, NoLostUpdate

\* An object whose parent is looked up has it.
ChildrenHaveParent == \A p \in Paths : Live(p) => ParentThere(Parent[p])

\* What is created finds its parent, and a deletion leaves nothing beneath what it takes away.
LEMMA ChildrenNext == IInv /\ ChildrenHaveParent /\ [Next]_vars => ChildrenHaveParent'
<1> SUFFICES ASSUME IInv, ChildrenHaveParent, [Next]_vars,
                    NEW q \in Paths, Live(q)', Parent[q] \in Paths, Kind[Parent[q]] # "bucket"
             PROVE  Live(Parent[q])'
  BY DEF ChildrenHaveParent, ParentThere, Live
<1>1. Effect
  BY StepKinds DEF IInv
<1>2. Live(q) => Live(Parent[q])
  BY DEF ChildrenHaveParent, ParentThere, Live
<1>3. CASE object' = object
  BY <1>2, <1>3 DEF Live
<1>4. ASSUME NEW p \in Paths, NEW members \in SUBSET Names, Put(p, members), Live(p) \/ ParentThere(Parent[p])
      PROVE  Live(Parent[q])'
  <2>1. object'[p] # NoObject /\ \A r \in Paths \ {p} : object'[r] = object[r]
    BY <1>4, PutEffect DEF IInv
  <2>2. q = p => Live(Parent[q])
    BY <1>2, <1>4 DEF ParentThere, Live
  <2> QED
    BY <1>2, <2>1, <2>2 DEF Live
<1>5. ASSUME NEW S \in SUBSET Paths, Remove(S) PROVE Live(Parent[q])'
  <2>1. \A r \in Paths : object'[r] = IF r \in Gone(S) THEN NoObject ELSE object[r]
    BY <1>5, RemoveEffect DEF IInv
  <2>2. Live(q) /\ q \notin Gone(S)
    BY <2>1 DEF Live
  <2>3. Above[q] = {q} \cup Above[Parent[q]] /\ Parent[q] \in Above[Parent[q]]
    BY AboveAssumption
  <2>4. q \in Beneath(Parent[q])
    BY <2>3 DEF Beneath
  <2>5. Parent[q] \in S /\ Parent[q] # q => q \in Swept[Parent[q]]
    BY <2>4, TreeAssumption
  <2>6. \A p \in S : Parent[q] \in Swept[p] => q \in Swept[p]
    BY <2>4, TreeAssumption
  <2>7. Parent[q] \notin Gone(S)
    BY <2>2, <2>5, <2>6 DEF Gone, Live
  <2> QED
    BY <1>2, <2>1, <2>2, <2>7 DEF Live
<1> QED
  BY <1>1, <1>3, <1>4, <1>5 DEF Effect, Refuse, Misses, RefuseMissing, Reads, Creates, Overwrites, Removes, data

LEMMA ChildrenInvariance == Spec => []ChildrenHaveParent
<1>1. Init => ChildrenHaveParent
  BY DEF Init, ChildrenHaveParent, Live
<1> QED
  BY <1>1, ChildrenNext, Invariance, PTL DEF Spec

\* A refused request has changed no object, grant or principal, and spends a
\* page token only on a collection that is gone with everything in it.
THEOREM RefusalsAreClean == Spec => RefusalsChangeNothing
<1> DEFINE Clean ==
      answer'.status = "refused" =>
        /\ UNCHANGED data
        /\ cached' # cached =>
             answer'.missing \in Paths /\ \A p \in Paths : Parent[p] = answer'.missing => object[p] = NoObject
<1>1. IInv /\ ChildrenHaveParent /\ [Next]_vars => [Clean]_vars
  <2> SUFFICES ASSUME IInv, ChildrenHaveParent, Next, answer'.status = "refused" PROVE Clean
    OBVIOUS
  <2>1. UNCHANGED data
    <3>1. Effect
      BY StepKinds DEF IInv
    <3>2. \A guarded : ~Done(guarded)
      BY DEF Done, Answer
    <3> QED
      BY <3>1, <3>2 DEF Effect, Refuse, Misses, RefuseMissing, Reads, Creates, Overwrites, Removes
  <2>2. ASSUME cached' # cached
        PROVE  answer'.missing \in Paths /\ \A p \in Paths : Parent[p] = answer'.missing => object[p] = NoObject
    <3>1. ~Expire
      BY DEF Expire, NotAnswered, Answer
    <3>2. PICK u \in Clients, s \in Spaces : DeleteBulk(u, s)
      BY <2>2, <3>1 DEF Next
    <3>3. ~SendGone(FALSE)
      BY DEF SendGone, Answer
    <3>4. ~ParentThere(s[1]) /\ RefuseMissing(s[1])
      BY <2>2, <3>2, <3>3 DEF DeleteBulk, Page
    <3>5. answer'.missing = s[1] /\ s[1] \in Paths
      BY <3>4 DEF RefuseMissing, Answer, ParentThere
    <3> QED
      BY <3>4, <3>5 DEF ChildrenHaveParent, Live
  <2> QED
    BY <2>1, <2>2
<1> QED
  BY <1>1, Invariance, ChildrenInvariance, PTL DEF Spec, RefusalsChangeNothing

-----------------------------------------------------------------------------
(* Trees in which a deletion sweeps what is beneath it and nothing else: no *)
(* name of an object is the beginning of its neighbour's.                   *)

SweptExactly == \A p \in Paths : Swept[p] = Beneath(p) \ {p}

LEMMA InAbove == \A q \in Paths : q \in Above[q]
BY AboveAssumption

LEMMA GoneBeneath ==
  ASSUME SweptExactly, NEW S \in SUBSET Paths, NEW q \in Paths
  PROVE  q \in Gone(S) <=> Live(q) /\ Above[q] \cap S # {}
<1>1. q \in UNION {Swept[p] : p \in S} <=> \E p \in S : p \in Above[q] /\ q # p
  BY DEF SweptExactly, Beneath
<1> QED
  BY <1>1, InAbove DEF Gone, Live

LEMMA GrantsNext ==
  ASSUME SweptExactly, IInv, GrantsHaveObject, [Next]_vars
  PROVE  GrantsHaveObject'
<1>1. Effect
  BY StepKinds DEF IInv
<1> SUFFICES ASSUME NEW q \in Paths, NEW perm \in Perms, perms'[q][perm] # {} PROVE object'[q] # NoObject
  BY DEF GrantsHaveObject
<1>2. CASE perms' = perms /\ object' = object
  BY <1>2 DEF GrantsHaveObject
<1>3. ASSUME NEW p \in Paths, NEW members \in SUBSET Names, Put(p, members),
             \A r \in Paths \ {p} : perms'[r] = perms[r]
      PROVE  object'[q] # NoObject
  <2>1. object'[p] # NoObject /\ \A r \in Paths \ {p} : object'[r] = object[r]
    BY <1>3, PutEffect DEF IInv
  <2> QED
    BY <1>3, <2>1 DEF GrantsHaveObject
<1>4. ASSUME NEW u \in Clients, NEW p \in Paths, NEW members \in SUBSET Names, NEW grants,
             WellTyped(grants), Creates(u, p, members, grants)
      PROVE  object'[q] # NoObject
  BY <1>3, <1>4, GrantsTyped DEF Creates, IInv
<1>5. ASSUME NEW p \in Paths, NEW members \in SUBSET Names, NEW guarded \in BOOLEAN,
             Overwrites(p, members, guarded)
      PROVE  object'[q] # NoObject
  BY <1>3, <1>5, GrantsTyped DEF Overwrites, IInv
<1>6. ASSUME NEW S \in SUBSET Paths, NEW guarded \in BOOLEAN, Removes(S, guarded)
      PROVE  object'[q] # NoObject
  <2>1. Above[q] \cap S = {} /\ perms[q][perm] # {}
    BY <1>6, RemoveGrantsEffect DEF Removes, IInv
  <2>2. object'[q] = object[q]
    BY <1>6, <2>1, GoneBeneath, RemoveEffect DEF Removes, IInv
  <2> QED
    BY <2>1, <2>2 DEF GrantsHaveObject
<1> QED
  BY <1>1, <1>2, <1>4, <1>5, <1>6 DEF Effect, Refuse, Misses, RefuseMissing, Reads, data

\* Grants vanish with the object they are about.
THEOREM GrantsEndWithObjects == SweptExactly => (Spec => []GrantsHaveObject)
<1> SUFFICES ASSUME SweptExactly PROVE Spec => []GrantsHaveObject
  OBVIOUS
<1>1. Init => GrantsHaveObject
  BY DEF Init, GrantsHaveObject
<1>2. IInv /\ GrantsHaveObject /\ [Next]_vars => GrantsHaveObject'
  BY GrantsNext
<1> QED
  BY <1>1, <1>2, Invariance, PTL DEF Spec

\* Whoever may create beneath a bucket was granted that by the bucket, which
\* is therefore there.
LEMMA CreatorsParent ==
  ASSUME GrantsHaveObject, \A perm \in Perms \ {"bucket:create"} : Static[perm] = {},
         NEW u \in Clients, NEW p \in Paths, Parent[p] # Root, MayCreate(u, p), ParentThere(Parent[p])
  PROVE  object[Parent[p]] # NoObject
<1>1. Parent[p] \in Paths /\ Kind[p] # "bucket" /\ Kind[p] \in Kinds
  BY TreeAssumption
<1>2. CASE Kind[Parent[p]] # "bucket"
  BY <1>1, <1>2 DEF ParentThere
<1>3. CASE Kind[Parent[p]] = "bucket"
  <2> DEFINE up == Parent[p]
             entries == {<<CreatePerm[Kind[p]], up>>} \cup ({"write"} \X Above[up])
  <2>1. Above[up] = {up, Root}
    BY <1>1, <1>3, TreeAssumption, AboveAssumption
  <2>2. \A e \in entries : e[1] \in Perms \ {"bucket:create"} /\ e[2] \in {up, Root}
    BY <1>1, <2>1 DEF CreatePerm, Kinds, Perms
  <2>3. UNION {Static[e[1]] : e \in entries} = {}
    BY <2>2
  <2>4. Verify(u, entries)
    BY DEF MayCreate
  <2> HIDE DEF entries
  <2>5. Granted(entries) # {}
    BY <2>3, <2>4 DEF Verify
  <2>6. PICK e \in entries : e[2] # Root /\ perms[e[2]][e[1]] # {}
    BY <2>5 DEF Granted
  <2> QED
    BY <1>1, <2>2, <2>6 DEF GrantsHaveObject
<1> QED
  BY <1>2, <1>3

LEMMA ParentsNext ==
  ASSUME SweptExactly, IInv, GrantsHaveObject, ParentsExist, [Next]_vars
  PROVE  ParentsExist'
<1>1. Effect
  BY StepKinds DEF IInv
<1> SUFFICES ASSUME \A perm \in Perms \ {"bucket:create"} : Static[perm] = {},
                    NEW q \in Paths, object'[q] # NoObject, Parent[q] # Root
             PROVE  object'[Parent[q]] # NoObject
  BY DEF ParentsExist
<1>2. Parent[q] \in Paths
  BY TreeAssumption
<1>3. object[q] # NoObject => object[Parent[q]] # NoObject
  BY DEF ParentsExist
<1>4. CASE data' = data
  <2>1. object' = object
    BY <1>4 DEF data
  <2> QED
    BY <1>3, <2>1
<1>5. ASSUME NEW u \in Clients, NEW p \in Paths, NEW members \in SUBSET Names, NEW grants,
             Creates(u, p, members, grants)
      PROVE  object'[Parent[q]] # NoObject
  <2>1. object'[p] # NoObject /\ \A r \in Paths \ {p} : object'[r] = object[r]
    BY <1>5, PutEffect DEF Creates, IInv
  <2>2. q = p => object[Parent[q]] # NoObject
    BY <1>5, CreatorsParent DEF Creates
  <2> QED
    BY <1>2, <1>3, <2>1, <2>2
<1>6. ASSUME NEW p \in Paths, NEW members \in SUBSET Names, NEW guarded \in BOOLEAN,
             Overwrites(p, members, guarded)
      PROVE  object'[Parent[q]] # NoObject
  <2>1. object'[p] # NoObject /\ object[p] # NoObject /\ \A r \in Paths \ {p} : object'[r] = object[r]
    BY <1>6, PutEffect DEF Overwrites, Live, IInv
  <2> QED
    BY <1>2, <1>3, <2>1
<1>7. ASSUME NEW S \in SUBSET Paths, NEW guarded \in BOOLEAN, Removes(S, guarded)
      PROVE  object'[Parent[q]] # NoObject
  <2>1. \A r \in Paths : object'[r] = IF r \in Gone(S) THEN NoObject ELSE object[r]
    BY <1>7, RemoveEffect DEF Removes, IInv
  <2>2. object[q] # NoObject /\ Above[q] \cap S = {}
    BY <2>1, GoneBeneath DEF Live
  <2>3. Above[Parent[q]] \cap S = {}
    BY <2>2, AboveAssumption
  <2> QED
    BY <1>2, <1>3, <2>1, <2>2, <2>3, GoneBeneath
<1> QED
  <2>1. Refuse \/ Misses \/ Reads => data' = data
    BY DEF Refuse, Misses, RefuseMissing, Reads, data
  <2> QED
    BY <1>1, <1>4, <1>5, <1>6, <1>7, <2>1 DEF Effect

\* Every object has a parent, although the controller does not look buckets up.
THEOREM NothingWithoutParent == SweptExactly => (Spec => []ParentsExist)
<1> SUFFICES ASSUME SweptExactly PROVE Spec => []ParentsExist
  OBVIOUS
<1>1. Init => ParentsExist
  BY DEF Init, ParentsExist
<1>2. IInv /\ GrantsHaveObject /\ ParentsExist /\ [Next]_vars => ParentsExist'
  BY ParentsNext
<1> QED
  BY <1>1, <1>2, Invariance, GrantsEndWithObjects, PTL DEF Spec

=============================================================================
