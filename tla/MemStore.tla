------------------------------ MODULE MemStore ------------------------------
(***************************************************************************)
(* The in-memory storage backend (internal/conn/memory/storage): a tree of *)
(* namespaces holding the live objects, a tree of tombstones, and          *)
(* transactions that own the backend's mutex from Begin to Commit or       *)
(* Rollback and keep an undo log of whole namespaces.                      *)
(*                                                                         *)
(* An absent node of the live tree is the node with modTime 0 and no       *)
(* objects: FetchNode(ns, 0) creates exactly that, every Put stamps it     *)
(* with at least 1, and no operation but Flush and Rollback removes a node.*)
(* A node of the tombstone tree exists exactly when it holds a tombstone,  *)
(* and its own modTime is never read.                                      *)
(***************************************************************************)
EXTENDS Integers, FiniteSets, Sequences

CONSTANTS
  Namespaces,   \* the strings in front of an object ID ("/buckets", ...)
  Ids,          \* object IDs
  Contents,     \* the payloads (Object.Extra) the properties tell apart
  Prefixed,     \* [Paths -> SUBSET Namespaces]: their string starts with the path
  MaxTime,      \* bound: the largest epoch a run hands out
  MaxBulk,      \* bound: the longest list of paths given to DeleteAll
  MaxFlushed,   \* bound: the largest epoch of a namespace that is flushed
  NoObject,     \* no entry for an ID
  NotSaved      \* no entry for a namespace in the undo log

Paths == Namespaces \X Ids

ASSUME IdsFinite == IsFiniteSet(Ids)
ASSUME BoundsAssumption == MaxTime \in Nat /\ MaxBulk \in Nat /\ MaxFlushed \in Nat
ASSUME PrefixedAssumption ==
  /\ Prefixed \in [Paths -> SUBSET Namespaces]
  \* a path is longer than its namespace, so it cannot be a prefix of it
  /\ \A ns \in Namespaces, id \in Ids : ns \notin Prefixed[<<ns, id>>]

Object == [content: Contents, modTime: 1..MaxTime]
Table  == [Ids -> Object \cup {NoObject}]
Node   == [objects: Table, modTime: 0..MaxTime]

ASSUME SentinelAssumption == NoObject \notin Object /\ NotSaved \notin Node \cup Table

NoObjects == [id \in Ids |-> NoObject]
NoNode    == [objects |-> NoObjects, modTime |-> 0]

VARIABLES
  tree,     \* backend.tree: the live objects
  dead,     \* backend.dead: the tombstones
  open,     \* a transaction holds backend.mu (its done flag is not set)
  flushed,  \* transaction.flushed
  xtree,    \* transaction.xtree, the undo log of tree
  xdead,    \* transaction.xdead, the undo log of dead
  bulk,     \* the DeleteAll loop in progress: paths left and its epoch
  base,     \* history: the content when the transaction began, or first flushed
  purged    \* history: the transaction ran Purge

store == <<tree, dead>>
undo  == <<flushed, xtree, xdead>>
vars  == <<tree, dead, open, flushed, xtree, xdead, bulk, base, purged>>

NoBulk == [paths |-> <<>>, now |-> 0]
EmptyLog == [ns \in Namespaces |-> NotSaved]

Init ==
  /\ tree = [ns \in Namespaces |-> NoNode]
  /\ dead = [ns \in Namespaces |-> NoObjects]
  /\ open = FALSE
  /\ flushed = FALSE
  /\ xtree = EmptyLog
  /\ xdead = EmptyLog
  /\ bulk = NoBulk
  /\ base = [tree |-> tree, dead |-> dead]
  /\ purged = FALSE

-----------------------------------------------------------------------------
(* Helpers of store.go. *)

\* Mutant of Stamp: the clock alone decides.
StampOfClock(node, now) == now

\* the epoch a write of the node at clock reading now is given
Stamp(node, now) == IF node.modTime >= now THEN node.modTime + 1 ELSE now

Present(table) == {id \in Ids : table[id] # NoObject}

\* objectNode.Put of a copy of the object
PutIn(node, id, content, now) ==
  LET at == Stamp(node, now)
  IN  [objects |-> [node.objects EXCEPT ![id] = [content |-> content, modTime |-> at]],
       modTime |-> at]

\* The order in which objectNode.Del removes the IDs of S, map order in Go.
Orders(S) ==
  {r \in [S -> 0..Cardinality(S) - 1] : \A i, j \in S : i # j => r[i] # r[j]}

\* Mutant of DelFrom: the node's epoch stays.
DelFromSilently(node, S, now) ==
  [objects |-> [id \in Ids |-> IF id \in S THEN NoObject ELSE node.objects[id]],
   modTime |-> node.modTime]

\* The node after Del of every ID of S, one after another.
DelFrom(node, S, now) ==
  [objects |-> [id \in Ids |-> IF id \in S THEN NoObject ELSE node.objects[id]],
   modTime |-> IF S = {} THEN node.modTime ELSE Stamp(node, now) + Cardinality(S) - 1]

\* The tombstones after ForcePut of the objects those Dels return.
Bury(table, node, S, order, now) ==
  [id \in Ids |->
     IF id \in S
     THEN [content |-> node.objects[id].content, modTime |-> Stamp(node, now) + order[id]]
     ELSE table[id]]

-----------------------------------------------------------------------------
(* The transaction's life. *)

InTx == open /\ bulk.paths = <<>>

\* backend.Begin: takes the mutex
Begin ==
  /\ ~open
  /\ open' = TRUE
  /\ UNCHANGED <<tree, dead, flushed, xtree, xdead, bulk, base, purged>>

\* What the end of a transaction discards: its log and the histories.
Discard ==
  /\ open' = FALSE
  /\ flushed' = FALSE
  /\ xtree' = EmptyLog
  /\ xdead' = EmptyLog
  /\ purged' = FALSE
  /\ base' = [tree |-> tree', dead |-> dead']
  /\ UNCHANGED bulk

Commit ==
  /\ InTx
  /\ UNCHANGED store
  /\ Discard

\* Mutant of Restored: namespaces the transaction never saved are put back too.
RestoredBlindly(log, current) == log

\* After a Flush the log is the whole former tree, so one formula covers both
\* branches: every saved namespace is put back, the others are left.
Restored(log, current) ==
  [ns \in Namespaces |-> IF log[ns] = NotSaved THEN current[ns] ELSE log[ns]]

Rollback ==
  /\ InTx
  /\ tree' = Restored(xtree, tree)
  /\ dead' = Restored(xdead, dead)
  /\ Discard

\* Mutant of Saved: the latest content is saved, not the first.
SavedAgain(log, current, S) ==
  [ns \in Namespaces |-> IF ns \in S THEN current[ns] ELSE log[ns]]

\* transaction.backup of the namespaces of S
Saved(log, current, S) ==
  [ns \in Namespaces |-> IF ns \in S /\ log[ns] = NotSaved THEN current[ns] ELSE log[ns]]

Backup(S) ==
  /\ xtree' = IF flushed THEN xtree ELSE Saved(xtree, tree, S)
  /\ xdead' = IF flushed THEN xdead ELSE Saved(xdead, dead, S)
  /\ UNCHANGED flushed

-----------------------------------------------------------------------------
(* Writes. The wall clock reads any epoch: it may stand still or step back. *)

Write(ns, id, content, now) ==
  /\ Stamp(tree[ns], now) <= MaxTime
  /\ Backup({ns})
  /\ tree' = [tree EXCEPT ![ns] = PutIn(tree[ns], id, content, now)]
  /\ dead' = [dead EXCEPT ![ns] = [dead[ns] EXCEPT ![id] = NoObject]]
  /\ UNCHANGED <<open, bulk, base, purged>>

\* Create with an ID nobody uses, the caller's or a generated one
Create(ns, id, content, now) ==
  /\ InTx
  /\ tree[ns].objects[id] = NoObject
  /\ Write(ns, id, content, now)

\* Create that returns ErrObjectExists: the namespace is backed up already
CreateExists(ns, id) ==
  /\ InTx
  /\ tree[ns].objects[id] # NoObject
  /\ Backup({ns})
  /\ UNCHANGED <<tree, dead, open, bulk, base, purged>>

\* Update writes whether or not the object exists
Update(ns, id, content, now) ==
  /\ InTx
  /\ Write(ns, id, content, now)

\* The IDs backend.delete takes out of each namespace for a path.
Doomed(ns, id) ==
  [n \in Namespaces |->
     CASE n = ns -> {id} \cap Present(tree[ns].objects)
       [] n # ns /\ n \in Prefixed[<<ns, id>>] -> Present(tree[n].objects)
       [] OTHER -> {}]

\* backend.delete past its early returns: only ns has been backed up
Sweep(ns, id, now) ==
  LET doomed == Doomed(ns, id)
      orders == [n \in Namespaces |-> Orders(doomed[n])]
  IN  /\ \A n \in Namespaces : DelFrom(tree[n], doomed[n], now).modTime <= MaxTime
      /\ tree' = [n \in Namespaces |-> DelFrom(tree[n], doomed[n], now)]
      /\ \E order \in {o \in [Namespaces -> UNION {orders[n] : n \in Namespaces}] :
                         \A n \in Namespaces : o[n] \in orders[n]} :
            dead' = [n \in Namespaces |-> Bury(dead[n], tree[n], doomed[n], order[n], now)]

Delete(ns, id, now) ==
  /\ InTx
  /\ tree[ns].objects[id] # NoObject
  /\ Backup({ns})
  /\ Sweep(ns, id, now)
  /\ UNCHANGED <<open, bulk, base, purged>>

\* Delete that returns ErrNotFound
DeleteMissing(ns, id) ==
  /\ InTx
  /\ tree[ns].objects[id] = NoObject
  /\ Backup({ns})
  /\ UNCHANGED <<tree, dead, open, bulk, base, purged>>

-----------------------------------------------------------------------------
(* DeleteAll: one epoch for the call, then path after path. *)

\* (The bound leaves room for the whole loop.)
DeleteAll(paths, now) ==
  /\ InTx
  /\ \A ns \in Namespaces : DelFrom(tree[ns], Present(tree[ns].objects), now).modTime <= MaxTime
  /\ bulk' = [paths |-> paths, now |-> now]
  /\ UNCHANGED <<tree, dead, open, flushed, xtree, xdead, base, purged>>

\* One round of the loop. A namespace without a node ends the round early; a
\* missing object does not (requireExact is false).
DeleteAllStep ==
  /\ open /\ bulk.paths # <<>>
  /\ LET ns == Head(bulk.paths)[1]
         id == Head(bulk.paths)[2]
     IN  /\ Backup({ns})
         /\ \/ /\ tree[ns].modTime = 0
               /\ UNCHANGED store
            \/ /\ tree[ns].modTime # 0
               /\ Sweep(ns, id, bulk.now)
  /\ bulk' = IF Len(bulk.paths) = 1 THEN NoBulk ELSE [bulk EXCEPT !.paths = Tail(@)]
  /\ UNCHANGED <<open, base, purged>>

-----------------------------------------------------------------------------
(* Maintenance. *)

Purge(olderThan) ==
  LET old(t) == t # NoObject /\ (olderThan = 0 \/ t.modTime < olderThan)
  IN  /\ InTx
      /\ Backup({ns \in Namespaces : Present(dead[ns]) # {}})
      /\ dead' = [ns \in Namespaces |-> [id \in Ids |->
                    IF old(dead[ns][id]) THEN NoObject ELSE dead[ns][id]]]
      /\ purged' = TRUE
      /\ UNCHANGED <<tree, open, bulk, base>>

\* The first Flush replaces the log by the trees as they are now.
Flush ==
  /\ InTx
  /\ \A ns \in Namespaces : tree[ns].modTime <= MaxFlushed
  /\ flushed' = TRUE
  /\ xtree' = IF flushed THEN xtree ELSE tree
  /\ xdead' = IF flushed THEN xdead ELSE dead
  /\ tree' = [ns \in Namespaces |-> NoNode]
  /\ dead' = [ns \in Namespaces |-> NoObjects]
  /\ base' = IF flushed THEN base ELSE [tree |-> tree, dead |-> dead]
  /\ UNCHANGED <<open, bulk, purged>>

-----------------------------------------------------------------------------

\* what a request lists and then deletes: objects of one namespace, each once
BulkLists ==
  {paths \in UNION {[1..n -> Paths] : n \in 1..MaxBulk} :
     \A i, j \in DOMAIN paths :
       paths[i][1] = paths[j][1] /\ (i # j => paths[i] # paths[j])}

\* What the program itself calls: no handler purges or flushes.
ApiNext ==
  \/ Begin
  \/ Commit
  \/ Rollback
  \/ \E ns \in Namespaces, id \in Ids :
       \/ CreateExists(ns, id)
       \/ DeleteMissing(ns, id)
  \/ \E ns \in Namespaces, id \in Ids, now \in 1..MaxTime :
       \/ Delete(ns, id, now)
       \/ \E content \in Contents :
            Create(ns, id, content, now) \/ Update(ns, id, content, now)
  \/ \E paths \in BulkLists, now \in 1..MaxTime : DeleteAll(paths, now)
  \/ DeleteAllStep

Next ==
  \/ ApiNext
  \/ \E olderThan \in 0..MaxTime : Purge(olderThan)
  \/ Flush

Spec == Init /\ [][Next]_vars

-----------------------------------------------------------------------------
(* Properties. *)

\* Every variable has its type.
TypeOK ==
  /\ tree \in [Namespaces -> Node]
  /\ dead \in [Namespaces -> Table]
  /\ open \in BOOLEAN /\ flushed \in BOOLEAN /\ purged \in BOOLEAN
  /\ xtree \in [Namespaces -> Node \cup {NotSaved}]
  /\ xdead \in [Namespaces -> Table \cup {NotSaved}]
  /\ bulk \in [paths: Seq(Paths), now: 0..MaxTime]
  /\ base \in [tree: [Namespaces -> Node], dead: [Namespaces -> Table]]

\* What a namespace records of an ID: the object, its tombstone or nothing.
Entry(node, table, id) == IF node.objects[id] # NoObject THEN node.objects[id] ELSE table[id]

\* The entries of a namespace, live or dead, agree with its node's epoch.
Sound(node, table) ==
  /\ \A i \in Ids : node.objects[i] = NoObject \/ table[i] = NoObject
  /\ \A i \in Ids : Entry(node, table, i) # NoObject =>
                     Entry(node, table, i).modTime <= node.modTime
  /\ \A i, j \in Ids :
       i # j /\ Entry(node, table, i) # NoObject /\ Entry(node, table, j) # NoObject
         => Entry(node, table, i).modTime # Entry(node, table, j).modTime

\* An object is never live and a tombstone at once, no two entries of a
\* namespace share an epoch, and none is newer than the namespace: what
\* sorting and paging by last_modified, and the collection's ETag, rest on
\* (objectNode.Put, Del and ForcePut, store.go:58-85).
VersionsSound == \A ns \in Namespaces : Sound(tree[ns], dead[ns])

\* What a transaction changed since it began carries an epoch larger than the
\* one the namespace had, and what it removed is a tombstone unless it purged:
\* a client that asks for everything since the ETag it holds misses no change
\* (_since and If-None-Match, over ListAll with IncludeAll, storage.go:290).
ChangesVisible ==
  open /\ ~flushed =>
    \A ns \in Namespaces, id \in Ids :
      LET was == base.tree[ns].objects[id]
          is  == tree[ns].objects[id]
          fresh(entry) == entry.modTime > base.tree[ns].modTime
      IN  /\ is \notin {was, NoObject} => fresh(is)
          /\ dead[ns][id] \notin {base.dead[ns][id], NoObject} => fresh(dead[ns][id])
          /\ was # NoObject /\ is = NoObject => dead[ns][id] # NoObject \/ purged

\* The epoch of a namespace is a validator: while it stands, so do the live
\* objects (ModTime, storage.go:162, behind the ETag of a list).
ModTimeValidates ==
  open /\ ~flushed =>
    \A ns \in Namespaces :
      tree[ns].modTime = base.tree[ns].modTime => tree[ns].objects = base.tree[ns].objects

RollsBack(S) == \A ns \in S : tree'[ns] = base.tree[ns] /\ dead'[ns] = base.dead[ns]

\* No path reaches these namespaces but through their own objects.
TopLevel == {ns \in Namespaces : \A p \in Paths : ns \notin Prefixed[p]}

\* Rolling back a transaction that did not flush restores every namespace that
\* is nested in no other, whatever it wrote there (backup, storage.go:390).
RollbackRestoresTopLevel == [][Rollback /\ ~flushed => RollsBack(TopLevel)]_vars

\* Rolling back restores the backend, nested namespaces included.
RollbackRestoresNested == [][Rollback /\ ~flushed => RollsBack(Namespaces)]_vars

Tops(trees, graves) ==
  [tree |-> [ns \in TopLevel |-> trees[ns]], dead |-> [ns \in TopLevel |-> graves[ns]]]

\* The namespaces nested in no other are all-or-nothing transactions: their
\* content is what was committed last, and a rollback returns to it or to what
\* the first flush found (Commit, Rollback and Flush, storage.go:104-159).
TS == INSTANCE TxStore WITH
        Snapshots <- [tree: [TopLevel -> Node], dead: [TopLevel -> Table]],
        committed <- Tops(base.tree, base.dead),
        working   <- Tops(tree, dead)

ImplementsTxStore == TS!Spec

=============================================================================
