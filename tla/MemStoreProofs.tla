--------------------------- MODULE MemStoreProofs ---------------------------
(* Theorems about MemStore, for every set of namespaces, IDs and contents. *)
EXTENDS MemStore, FiniteSetTheorems, TLAPS

-----------------------------------------------------------------------------
(* Lemmas about the operators of store.go. *)

\* A stamp is later than the node's epoch.
LEMMA StampLater ==
  ASSUME NEW node \in Node, NEW now \in 0..MaxTime
  PROVE  /\ Stamp(node, now) \in Nat \ {0}
         /\ Stamp(node, now) > node.modTime
BY BoundsAssumption DEF Stamp, Node

\* Put keeps a namespace sound when the ID's tombstone is unlinked.
LEMMA PutSound ==
  ASSUME NEW node \in Node, NEW table \in Table, Sound(node, table),
         NEW id \in Ids, NEW content \in Contents, NEW now \in 0..MaxTime,
         Stamp(node, now) <= MaxTime
  PROVE  /\ PutIn(node, id, content, now) \in Node
         /\ [table EXCEPT ![id] = NoObject] \in Table
         /\ Sound(PutIn(node, id, content, now), [table EXCEPT ![id] = NoObject])
<1> DEFINE at   == Stamp(node, now)
           obj  == [content |-> content, modTime |-> at]
           put  == PutIn(node, id, content, now)
           rest == [table EXCEPT ![id] = NoObject]
<1>1. at \in 1..MaxTime /\ at > node.modTime
  BY StampLater, BoundsAssumption
<1>2. obj \in Object
  BY <1>1 DEF Object
<1>3. node.objects \in Table /\ node.modTime \in 0..MaxTime
  BY DEF Node
<1>4. put = [objects |-> [node.objects EXCEPT ![id] = obj], modTime |-> at]
  BY DEF PutIn
<1>5. put.objects \in Table
  BY <1>2, <1>3, <1>4 DEF Table
<1>6. put \in Node
  BY <1>1, <1>4, <1>5, BoundsAssumption DEF Node
<1>7. rest \in Table
  BY DEF Table
<1>8. Entry(put, rest, id) = obj /\ Entry(put, rest, id).modTime = at
  BY <1>2, <1>3, <1>4, SentinelAssumption DEF Entry, Table
<1>9. ASSUME NEW i \in Ids, i # id
      PROVE  Entry(put, rest, i) = Entry(node, table, i)
  BY <1>3, <1>4, <1>9 DEF Entry, Table
<1>10. ASSUME NEW i \in Ids, i # id, Entry(node, table, i) # NoObject
      PROVE  Entry(node, table, i).modTime \in Nat /\ Entry(node, table, i).modTime < at
  <2>1. Entry(node, table, i) \in Object
    BY <1>3, <1>10 DEF Entry, Table
  <2>2. Entry(node, table, i).modTime <= node.modTime
    BY <1>10 DEF Sound
  <2> QED BY <1>1, <1>3, <2>1, <2>2, BoundsAssumption DEF Object
<1>11. \A i \in Ids : put.objects[i] = NoObject \/ rest[i] = NoObject
  BY <1>3, <1>4 DEF Sound, Table
<1>12. \A i \in Ids : Entry(put, rest, i) # NoObject => Entry(put, rest, i).modTime <= put.modTime
  <2> SUFFICES ASSUME NEW i \in Ids, Entry(put, rest, i) # NoObject
               PROVE  Entry(put, rest, i).modTime <= put.modTime
    OBVIOUS
  <2>0. put.modTime = at
    BY <1>4
  <2>1. CASE i = id
    BY <1>1, <1>8, <2>0, <2>1, BoundsAssumption
  <2>2. CASE i # id
    <3>1. Entry(put, rest, i) = Entry(node, table, i)
      BY <1>9, <2>2
    <3> QED BY <1>1, <1>10, <2>0, <2>2, <3>1, BoundsAssumption
  <2> QED BY <2>1, <2>2
<1>13. \A i, j \in Ids :
         i # j /\ Entry(put, rest, i) # NoObject /\ Entry(put, rest, j) # NoObject
           => Entry(put, rest, i).modTime # Entry(put, rest, j).modTime
  <2> SUFFICES ASSUME NEW i \in Ids, NEW j \in Ids, i # j,
                      Entry(put, rest, i) # NoObject, Entry(put, rest, j) # NoObject
               PROVE  Entry(put, rest, i).modTime # Entry(put, rest, j).modTime
    OBVIOUS
  <2>1. CASE i = id
    <3>1. Entry(put, rest, j) = Entry(node, table, j)
      BY <1>9, <2>1
    <3> QED BY <1>1, <1>8, <1>10, <2>1, <3>1
  <2>2. CASE j = id
    <3>1. Entry(put, rest, i) = Entry(node, table, i)
      BY <1>9, <2>2
    <3> QED BY <1>1, <1>8, <1>10, <2>2, <3>1
  <2>3. CASE i # id /\ j # id
    BY <1>9, <2>3 DEF Sound
  <2> QED BY <2>1, <2>2, <2>3
<1> QED BY <1>6, <1>7, <1>11, <1>12, <1>13 DEF Sound

\* Dels and ForcePuts of the objects of S, in any order, keep a namespace
\* sound; its epoch only grows.
LEMMA DelSound ==
  ASSUME NEW node \in Node, NEW table \in Table, Sound(node, table),
         NEW S \in SUBSET Present(node.objects), NEW now \in 0..MaxTime,
         NEW order \in Orders(S),
         DelFrom(node, S, now).modTime <= MaxTime
  PROVE  /\ DelFrom(node, S, now) \in Node
         /\ Bury(table, node, S, order, now) \in Table
         /\ Sound(DelFrom(node, S, now), Bury(table, node, S, order, now))
<1> DEFINE at   == Stamp(node, now)
           left == DelFrom(node, S, now)
           rest == Bury(table, node, S, order, now)
           last == at + Cardinality(S) - 1
           old(i) == Entry(node, table, i)
           new(i) == Entry(left, rest, i)
<1>1. at \in Nat \ {0} /\ at > node.modTime
  BY StampLater
<1>2. node.objects \in Table /\ node.modTime \in 0..MaxTime
  BY DEF Node
<1>3. S \subseteq Ids /\ \A i \in S : node.objects[i] \in Object
  BY <1>2 DEF Present, Table
<1>4. Cardinality(S) \in Nat
  BY <1>3, IdsFinite, FS_Subset, FS_CardinalityType
<1>5. \A i \in S : order[i] \in 0..Cardinality(S) - 1
  BY DEF Orders
<1>6. \A i, j \in S : i # j => order[i] # order[j]
  BY DEF Orders
<1>7. left = [objects |-> [id \in Ids |-> IF id \in S THEN NoObject ELSE node.objects[id]],
              modTime |-> IF S = {} THEN node.modTime ELSE last]
  BY DEF DelFrom
<1>8. left.modTime \in 0..MaxTime /\ left.modTime >= node.modTime
  <2>1. CASE S = {}
    BY <1>2, <1>7, <2>1, BoundsAssumption
  <2>2. CASE S # {}
    <3>1. PICK i \in S : TRUE
      BY <2>2
    <3>2. order[i] \in 0..Cardinality(S) - 1
      BY <1>5, <3>1
    <3>3. Cardinality(S) >= 1
      BY <1>4, <3>2
    <3>4. left.modTime = last
      BY <1>7, <2>2
    <3> QED BY <1>1, <1>2, <1>4, <3>3, <3>4, BoundsAssumption
  <2> QED BY <2>1, <2>2
<1>9. left.objects \in Table
  BY <1>2, <1>7 DEF Table
<1>10. left \in Node
  BY <1>7, <1>8, <1>9 DEF Node
<1>11. ASSUME NEW i \in S
       PROVE  /\ left.objects[i] = NoObject
              /\ rest[i] = [content |-> node.objects[i].content, modTime |-> at + order[i]]
              /\ rest[i] \in Object
              /\ rest[i].modTime = at + order[i]
              /\ rest[i].modTime \in 1..left.modTime
              /\ rest[i].modTime > node.modTime
  <2>1. left.objects[i] = NoObject
    BY <1>3, <1>7
  <2>2. rest[i] = [content |-> node.objects[i].content, modTime |-> at + order[i]]
    BY <1>3 DEF Bury
  <2>3. left.modTime = last
    BY <1>7
  <2>4. order[i] \in 0..Cardinality(S) - 1
    BY <1>5
  <2>5. at + order[i] \in 1..MaxTime /\ at + order[i] > node.modTime /\ at + order[i] <= last
    BY <1>1, <1>2, <1>4, <1>8, <2>3, <2>4, BoundsAssumption
  <2>6. node.objects[i].content \in Contents
    BY <1>3 DEF Object
  <2>7. rest[i] \in Object
    BY <2>2, <2>5, <2>6 DEF Object
  <2>8. rest[i].modTime = at + order[i]
    BY <2>2
  <2>9. rest[i].modTime \in 1..left.modTime
    BY <1>8, <2>3, <2>5, <2>8, BoundsAssumption
  <2> QED BY <2>1, <2>2, <2>5, <2>7, <2>8, <2>9
<1>12. ASSUME NEW i \in Ids \ S
       PROVE  left.objects[i] = node.objects[i] /\ rest[i] = table[i] /\ new(i) = old(i)
  <2>1. left.objects[i] = node.objects[i]
    BY <1>7
  <2>2. rest[i] = table[i]
    BY DEF Bury
  <2> QED BY <2>1, <2>2 DEF Entry
<1>13. ASSUME NEW i \in S
       PROVE  /\ new(i).modTime = at + order[i]
              /\ new(i).modTime \in 1..left.modTime
              /\ new(i).modTime > node.modTime
  <2>1. new(i) = rest[i]
    BY <1>11 DEF Entry
  <2> QED BY <1>11, <2>1
<1>14. rest \in Table
  <2>1. ASSUME NEW i \in Ids PROVE rest[i] \in Object \cup {NoObject}
    <3>1. CASE i \in S
      BY <1>11, <3>1
    <3>2. CASE i \notin S
      BY <1>12, <3>2 DEF Table
    <3> QED BY <3>1, <3>2
  <2> QED BY <2>1 DEF Bury, Table
<1>15. ASSUME NEW i \in Ids, old(i) # NoObject
       PROVE  old(i).modTime \in Nat /\ old(i).modTime <= node.modTime
  <2>1. old(i) \in Object
    BY <1>2, <1>15 DEF Entry, Table
  <2> QED BY <1>15, <2>1, BoundsAssumption DEF Object, Sound
<1>16. \A i \in Ids : left.objects[i] = NoObject \/ rest[i] = NoObject
  BY <1>11, <1>12 DEF Sound
<1>17. ASSUME NEW i \in Ids, new(i) # NoObject
       PROVE  new(i).modTime <= left.modTime
  <2>1. CASE i \in S
    <3>1. new(i).modTime \in 1..left.modTime
      BY <1>13, <2>1
    <3> QED BY <1>8, <3>1, BoundsAssumption
  <2>2. CASE i \notin S
    BY <1>2, <1>8, <1>12, <1>15, <1>17, <2>2, BoundsAssumption
  <2> QED BY <2>1, <2>2
<1>18. ASSUME NEW i \in Ids, NEW j \in Ids, i # j, new(i) # NoObject, new(j) # NoObject
       PROVE  new(i).modTime # new(j).modTime
  <2>1. CASE i \in S /\ j \in S
    <3>1. order[i] # order[j] /\ order[i] \in Int /\ order[j] \in Int
      BY <1>5, <1>6, <1>18, <2>1
    <3>2. new(i).modTime = at + order[i] /\ new(j).modTime = at + order[j]
      BY <1>13, <2>1
    <3> QED BY <1>1, <3>1, <3>2
  <2>2. CASE i \in S /\ j \notin S
    <3>1. new(j).modTime \in Nat /\ new(j).modTime <= node.modTime
      BY <1>12, <1>15, <1>18, <2>2
    <3>2. new(i).modTime > node.modTime /\ new(i).modTime \in Int
      <4>1. new(i).modTime \in 1..left.modTime /\ new(i).modTime > node.modTime
        BY <1>13, <2>2
      <4> QED BY <1>8, <4>1, BoundsAssumption
    <3> QED BY <1>2, <3>1, <3>2
  <2>3. CASE i \notin S /\ j \in S
    <3>1. new(i).modTime \in Nat /\ new(i).modTime <= node.modTime
      BY <1>12, <1>15, <1>18, <2>3
    <3>2. new(j).modTime > node.modTime /\ new(j).modTime \in Int
      <4>1. new(j).modTime \in 1..left.modTime /\ new(j).modTime > node.modTime
        BY <1>13, <2>3
      <4> QED BY <1>8, <4>1, BoundsAssumption
    <3> QED BY <1>2, <3>1, <3>2
  <2>4. CASE i \notin S /\ j \notin S
    <3>1. new(i) = old(i) /\ new(j) = old(j)
      BY <1>12, <2>4
    <3> QED BY <1>18, <3>1 DEF Sound
  <2> QED BY <2>1, <2>2, <2>3, <2>4
<1> QED BY <1>10, <1>14, <1>16, <1>17, <1>18 DEF Sound

\* What Doomed names is there to be deleted.
LEMMA DoomedPresent ==
  ASSUME NEW ns \in Namespaces, NEW id \in Ids, NEW n \in Namespaces
  PROVE  Doomed(ns, id)[n] \in SUBSET Present(tree[n].objects)
BY DEF Doomed, Present

-----------------------------------------------------------------------------
(* Type correctness and the soundness of epochs. A Rollback reinstates what  *)
(* the log holds, so the log must be sound as well: each saved namespace is  *)
(* saved with its tombstones, and the pair is sound.                         *)

LogSound ==
  \A ns \in Namespaces :
    /\ xtree[ns] = NotSaved <=> xdead[ns] = NotSaved
    /\ xtree[ns] # NotSaved => Sound(xtree[ns], xdead[ns])

IInv == TypeOK /\ VersionsSound /\ LogSound

LEMMA NoNodeSound == /\ NoObjects \in Table
                     /\ NoNode \in Node
                     /\ Sound(NoNode, NoObjects)
BY BoundsAssumption DEF NoNode, NoObjects, Node, Table, Sound, Entry

LEMMA InitIInv == Init => IInv
<1> SUFFICES ASSUME Init PROVE IInv
  OBVIOUS
<1>1. TypeOK
  <2>1. tree \in [Namespaces -> Node] /\ dead \in [Namespaces -> Table]
    BY NoNodeSound DEF Init
  <2>2. xtree \in [Namespaces -> Node \cup {NotSaved}] /\ xdead \in [Namespaces -> Table \cup {NotSaved}]
    BY DEF Init, EmptyLog
  <2>3. bulk \in [paths: Seq(Paths), now: 0..MaxTime]
    BY BoundsAssumption DEF Init, NoBulk
  <2> QED BY <2>1, <2>2, <2>3 DEF Init, TypeOK
<1>2. VersionsSound
  BY NoNodeSound DEF Init, VersionsSound
<1>3. LogSound
  BY DEF Init, LogSound, EmptyLog
<1> QED BY <1>1, <1>2, <1>3 DEF IInv

\* Saving namespaces keeps the log sound.
LEMMA BackupSound ==
  ASSUME IInv, NEW S \in SUBSET Namespaces, Backup(S)
  PROVE  /\ xtree' \in [Namespaces -> Node \cup {NotSaved}]
         /\ xdead' \in [Namespaces -> Table \cup {NotSaved}]
         /\ flushed' \in BOOLEAN
         /\ LogSound'
<1> USE DEF IInv, TypeOK
<1>1. CASE flushed
  BY <1>1 DEF Backup, LogSound
<1>2. CASE ~flushed
  <2>1. xtree' = Saved(xtree, tree, S) /\ xdead' = Saved(xdead, dead, S) /\ flushed' = flushed
    BY <1>2 DEF Backup
  <2>2. xtree' \in [Namespaces -> Node \cup {NotSaved}] /\ xdead' \in [Namespaces -> Table \cup {NotSaved}]
    BY <2>1 DEF Saved
  <2>3. ASSUME NEW ns \in Namespaces
        PROVE  /\ xtree'[ns] = NotSaved <=> xdead'[ns] = NotSaved
               /\ xtree'[ns] # NotSaved => Sound(xtree'[ns], xdead'[ns])
    <3>1. tree[ns] # NotSaved /\ dead[ns] # NotSaved
      BY SentinelAssumption
    <3>2. CASE ns \in S /\ xtree[ns] = NotSaved
      <4>1. xtree'[ns] = tree[ns] /\ xdead'[ns] = dead[ns]
        BY <2>1, <3>2 DEF Saved, LogSound
      <4> QED BY <3>1, <4>1 DEF VersionsSound
    <3>3. CASE ~(ns \in S /\ xtree[ns] = NotSaved)
      <4>1. xtree'[ns] = xtree[ns] /\ xdead'[ns] = xdead[ns]
        BY <2>1, <3>3 DEF Saved, LogSound
      <4> QED BY <4>1 DEF LogSound
    <3> QED BY <3>2, <3>3
  <2> QED BY <2>1, <2>2, <2>3 DEF LogSound
<1> QED BY <1>1, <1>2

\* A write keeps the store typed and sound.
LEMMA WriteSound ==
  ASSUME IInv, NEW ns \in Namespaces, NEW id \in Ids, NEW content \in Contents,
         NEW now \in 0..MaxTime, Write(ns, id, content, now)
  PROVE  IInv'
<1> USE DEF IInv, TypeOK
<1> DEFINE node == PutIn(tree[ns], id, content, now)
           rest == [dead[ns] EXCEPT ![id] = NoObject]
<1>1. tree[ns] \in Node /\ dead[ns] \in Table /\ Sound(tree[ns], dead[ns])
  BY DEF VersionsSound
<1>2. node \in Node /\ rest \in Table /\ Sound(node, rest)
  BY <1>1, PutSound DEF Write
<1>3. tree' = [tree EXCEPT ![ns] = node] /\ dead' = [dead EXCEPT ![ns] = rest]
  BY DEF Write
<1>4. tree' \in [Namespaces -> Node] /\ dead' \in [Namespaces -> Table]
  BY <1>2, <1>3
<1>5. \A n \in Namespaces : Sound(tree'[n], dead'[n])
  BY <1>2, <1>3 DEF VersionsSound
<1>6. /\ xtree' \in [Namespaces -> Node \cup {NotSaved}]
      /\ xdead' \in [Namespaces -> Table \cup {NotSaved}]
      /\ flushed' \in BOOLEAN
      /\ LogSound'
  BY BackupSound DEF Write
<1> QED BY <1>4, <1>5, <1>6 DEF Write, VersionsSound

\* A sweep keeps the store typed and sound, and no epoch goes back.
LEMMA SweepSound ==
  ASSUME IInv, NEW ns \in Namespaces, NEW id \in Ids, NEW now \in 0..MaxTime,
         Sweep(ns, id, now)
  PROVE  /\ tree' \in [Namespaces -> Node]
         /\ dead' \in [Namespaces -> Table]
         /\ VersionsSound'
<1> DEFINE doomed == Doomed(ns, id)
           orders == [n \in Namespaces |-> Orders(doomed[n])]
<1>1. PICK order \in {o \in [Namespaces -> UNION {orders[n] : n \in Namespaces}] :
                         \A n \in Namespaces : o[n] \in orders[n]} :
        dead' = [n \in Namespaces |-> Bury(dead[n], tree[n], doomed[n], order[n], now)]
  BY DEF Sweep
<1>2. tree' = [n \in Namespaces |-> DelFrom(tree[n], doomed[n], now)]
  BY DEF Sweep
<1>3. ASSUME NEW n \in Namespaces
      PROVE  /\ tree'[n] \in Node
             /\ dead'[n] \in Table
             /\ Sound(tree'[n], dead'[n])
  <2>1. tree[n] \in Node /\ dead[n] \in Table /\ Sound(tree[n], dead[n])
    BY DEF IInv, TypeOK, VersionsSound
  <2>2. order[n] \in Orders(doomed[n])
    BY <1>1
  <2>3. doomed[n] \in SUBSET Present(tree[n].objects)
    BY DoomedPresent
  <2>4. DelFrom(tree[n], doomed[n], now).modTime <= MaxTime
    BY DEF Sweep
  <2>5. tree'[n] = DelFrom(tree[n], doomed[n], now)
        /\ dead'[n] = Bury(dead[n], tree[n], doomed[n], order[n], now)
    BY <1>1, <1>2
  <2> HIDE DEF doomed
  <2> QED BY <2>1, <2>2, <2>3, <2>4, <2>5, DelSound
<1>4. tree' \in [Namespaces -> Node] /\ dead' \in [Namespaces -> Table]
  BY <1>1, <1>2, <1>3
<1> QED BY <1>3, <1>4 DEF VersionsSound

\* Rolling back keeps the store typed and sound.
LEMMA RestoreSound ==
  ASSUME IInv
  PROVE  /\ Restored(xtree, tree) \in [Namespaces -> Node]
         /\ Restored(xdead, dead) \in [Namespaces -> Table]
         /\ \A ns \in Namespaces : Sound(Restored(xtree, tree)[ns], Restored(xdead, dead)[ns])
<1>1. ASSUME NEW ns \in Namespaces
      PROVE  /\ Restored(xtree, tree)[ns] \in Node
             /\ Restored(xdead, dead)[ns] \in Table
             /\ Sound(Restored(xtree, tree)[ns], Restored(xdead, dead)[ns])
  <2>1. CASE xtree[ns] = NotSaved
    BY <2>1 DEF Restored, IInv, TypeOK, LogSound, VersionsSound
  <2>2. CASE xtree[ns] # NotSaved
    BY <2>2 DEF Restored, IInv, TypeOK, LogSound
  <2> QED BY <2>1, <2>2
<1> QED BY <1>1 DEF Restored

\* Discarding the transaction leaves a typed state when the store is typed.
LEMMA DiscardSound ==
  ASSUME IInv, Discard, tree' \in [Namespaces -> Node], dead' \in [Namespaces -> Table],
         \A ns \in Namespaces : Sound(tree'[ns], dead'[ns])
  PROVE  IInv'
<1>1. xtree' = EmptyLog /\ xdead' = EmptyLog
  BY DEF Discard
<1>2. LogSound'
  BY <1>1 DEF LogSound, EmptyLog
<1>3. TypeOK'
  BY <1>1 DEF Discard, IInv, TypeOK, EmptyLog
<1> QED BY <1>2, <1>3 DEF IInv, VersionsSound

\* A round of the DeleteAll loop keeps the list of paths a list of paths.
LEMMA BulkTyped ==
  ASSUME bulk \in [paths: Seq(Paths), now: 0..MaxTime], bulk.paths # <<>>
  PROVE  /\ Head(bulk.paths) \in Paths
         /\ Head(bulk.paths)[1] \in Namespaces
         /\ Head(bulk.paths)[2] \in Ids
         /\ NoBulk \in [paths: Seq(Paths), now: 0..MaxTime]
         /\ [bulk EXCEPT !.paths = Tail(@)] \in [paths: Seq(Paths), now: 0..MaxTime]
<1>1. bulk.paths \in Seq(Paths)
  OBVIOUS
<1>2. Head(bulk.paths) \in Paths /\ Tail(bulk.paths) \in Seq(Paths)
  BY <1>1
<1>3. NoBulk \in [paths: Seq(Paths), now: 0..MaxTime]
  BY BoundsAssumption DEF NoBulk
<1> QED BY <1>2, <1>3 DEF Paths

LEMMA NextIInv == IInv /\ [Next]_vars => IInv'
<1> SUFFICES ASSUME IInv, [Next]_vars PROVE IInv'
  OBVIOUS
<1>1. CASE Begin
  BY <1>1 DEF Begin, IInv, TypeOK, VersionsSound, LogSound
<1>2. CASE Commit
  BY <1>2, DiscardSound DEF Commit, IInv, TypeOK, VersionsSound, store
<1>3. CASE Rollback
  BY <1>3, RestoreSound, DiscardSound DEF Rollback
<1>4. ASSUME NEW ns \in Namespaces, NEW id \in Ids, CreateExists(ns, id) \/ DeleteMissing(ns, id)
      PROVE  IInv'
  <2>1. Backup({ns}) /\ UNCHANGED <<tree, dead, open, bulk, base, purged>>
    BY <1>4 DEF CreateExists, DeleteMissing
  <2> QED BY <2>1, BackupSound DEF IInv, TypeOK, VersionsSound
<1>5. ASSUME NEW ns \in Namespaces, NEW id \in Ids, NEW now \in 1..MaxTime,
             NEW content \in Contents,
             Create(ns, id, content, now) \/ Update(ns, id, content, now)
      PROVE  IInv'
  <2>1. Write(ns, id, content, now)
    BY <1>5 DEF Create, Update
  <2> QED BY <2>1, WriteSound
<1>6. ASSUME NEW ns \in Namespaces, NEW id \in Ids, NEW now \in 1..MaxTime, Delete(ns, id, now)
      PROVE  IInv'
  <2>1. Backup({ns}) /\ Sweep(ns, id, now) /\ UNCHANGED <<open, bulk, base, purged>>
    BY <1>6 DEF Delete
  <2> QED BY <2>1, BackupSound, SweepSound DEF IInv, TypeOK
<1>7. ASSUME NEW paths \in BulkLists, NEW now \in 1..MaxTime, DeleteAll(paths, now)
      PROVE  IInv'
  <2>1. paths \in Seq(Paths)
    BY BoundsAssumption DEF BulkLists
  <2>2. bulk' \in [paths: Seq(Paths), now: 0..MaxTime]
    BY <1>7, <2>1 DEF DeleteAll
  <2> QED BY <1>7, <2>2 DEF DeleteAll, IInv, TypeOK, VersionsSound, LogSound
<1>8. CASE DeleteAllStep
  <2> DEFINE ns == Head(bulk.paths)[1]
             id == Head(bulk.paths)[2]
  <2>1. ns \in Namespaces /\ id \in Ids /\ bulk.now \in 0..MaxTime
        /\ bulk' \in [paths: Seq(Paths), now: 0..MaxTime]
    BY <1>8, BulkTyped DEF DeleteAllStep, IInv, TypeOK
  <2>2. Backup({ns}) /\ UNCHANGED <<open, base, purged>>
    BY <1>8 DEF DeleteAllStep
  <2>3. CASE UNCHANGED store
    BY <2>1, <2>2, <2>3, BackupSound DEF IInv, TypeOK, VersionsSound, store
  <2>4. CASE Sweep(ns, id, bulk.now)
    BY <2>1, <2>2, <2>4, BackupSound, SweepSound DEF IInv, TypeOK
  <2> QED BY <1>8, <2>3, <2>4 DEF DeleteAllStep
<1>9. ASSUME NEW olderThan \in 0..MaxTime, Purge(olderThan)
      PROVE  IInv'
  <2>1. PICK S \in SUBSET Namespaces : Backup(S)
    BY <1>9 DEF Purge
  <2>2. ASSUME NEW ns \in Namespaces
        PROVE  /\ dead'[ns] \in Table
               /\ \A id \in Ids : dead'[ns][id] \in {dead[ns][id], NoObject}
    BY <1>9 DEF Purge, IInv, TypeOK, Table
  <2>3. tree' = tree /\ dead' \in [Namespaces -> Table]
    BY <1>9, <2>2 DEF Purge
  <2>4. VersionsSound'
    BY <2>2, <2>3 DEF VersionsSound, Sound, Entry, IInv
  <2> QED BY <1>9, <2>1, <2>3, <2>4, BackupSound DEF Purge, IInv, TypeOK
<1>10. CASE Flush
  <2>1. tree' = [ns \in Namespaces |-> NoNode] /\ dead' = [ns \in Namespaces |-> NoObjects]
    BY <1>10 DEF Flush
  <2>2. VersionsSound'
    BY <2>1, NoNodeSound DEF VersionsSound
  <2>3. \A ns \in Namespaces : tree[ns] # NotSaved /\ dead[ns] # NotSaved
    BY SentinelAssumption DEF IInv, TypeOK
  <2>4. LogSound'
    BY <1>10, <2>3 DEF Flush, IInv, LogSound, VersionsSound
  <2>5. TypeOK'
    BY <1>10, <2>1, NoNodeSound DEF Flush, IInv, TypeOK
  <2> QED BY <2>2, <2>4, <2>5 DEF IInv
<1>11. CASE UNCHANGED vars
  BY <1>11 DEF vars, IInv, TypeOK, VersionsSound, LogSound
<1> QED BY <1>1, <1>2, <1>3, <1>4, <1>5, <1>6, <1>7, <1>8, <1>9, <1>10, <1>11 DEF Next, ApiNext

LEMMA SpecIInv == Spec => []IInv
BY InitIInv, NextIInv, PTL DEF Spec

\* The variables keep their types, whatever the transactions do.
THEOREM StoreTypeCorrect == Spec => []TypeOK
BY SpecIInv, PTL DEF IInv

\* Live objects and tombstones stay apart and their epochs distinct and at most
\* the namespace's, through nested deletes, rollbacks and flushes
\* (objectNode.Put and Del, backend.delete, transaction.Rollback).
THEOREM StoreVersionsSound == Spec => []VersionsSound
BY SpecIInv, PTL DEF IInv

-----------------------------------------------------------------------------
(* What a transaction has changed. Since compares a namespace with its       *)
(* content at Begin; it is kept by every write because a stamp is later than *)
(* the node's epoch, which never goes back within a transaction.             *)

Since(was, wasDead, is, isDead) ==
  /\ was.modTime <= is.modTime
  /\ is.objects # was.objects => was.modTime < is.modTime
  /\ \A id \in Ids :
       /\ is.objects[id] \notin {was.objects[id], NoObject} => is.objects[id].modTime > was.modTime
       /\ isDead[id] \notin {wasDead[id], NoObject} => isDead[id].modTime > was.modTime
       /\ was.objects[id] # NoObject /\ is.objects[id] = NoObject
            => isDead[id] # NoObject \/ purged

LEMMA PutSince ==
  ASSUME NEW was \in Node, NEW wasDead \in Table, NEW node \in Node, NEW table \in Table,
         Since(was, wasDead, node, table),
         NEW id \in Ids, NEW content \in Contents, NEW now \in 0..MaxTime,
         Stamp(node, now) <= MaxTime
  PROVE  Since(was, wasDead, PutIn(node, id, content, now), [table EXCEPT ![id] = NoObject])
<1> DEFINE at   == Stamp(node, now)
           obj  == [content |-> content, modTime |-> at]
           put  == PutIn(node, id, content, now)
           rest == [table EXCEPT ![id] = NoObject]
<1>1. at \in 1..MaxTime /\ at > node.modTime
  BY StampLater, BoundsAssumption
<1>2. node.modTime \in Nat /\ was.modTime \in Nat /\ was.modTime <= node.modTime
  BY BoundsAssumption DEF Node, Since
<1>3. was.modTime < at
  BY <1>1, <1>2, BoundsAssumption
<1>4. put = [objects |-> [node.objects EXCEPT ![id] = obj], modTime |-> at] /\ put.modTime = at
  BY DEF PutIn
<1>5. put.objects[id] = obj /\ put.objects[id].modTime = at
  BY <1>4 DEF Node, Table
<1>6. obj # NoObject
  <2>1. obj \in Object
    BY <1>1 DEF Object
  <2> QED BY <2>1, SentinelAssumption
<1>7. \A i \in Ids \ {id} : put.objects[i] = node.objects[i] /\ rest[i] = table[i]
  BY <1>4 DEF Node, Table
<1>8. rest[id] = NoObject
  BY DEF Table
<1>9. ASSUME NEW i \in Ids
      PROVE  /\ put.objects[i] \notin {was.objects[i], NoObject} => put.objects[i].modTime > was.modTime
             /\ rest[i] \notin {wasDead[i], NoObject} => rest[i].modTime > was.modTime
             /\ was.objects[i] # NoObject /\ put.objects[i] = NoObject
                  => rest[i] # NoObject \/ purged
  <2>1. CASE i = id
    <3>1. put.objects[i].modTime > was.modTime
      BY <1>3, <1>5, <2>1
    <3> QED BY <1>5, <1>6, <1>8, <2>1, <3>1
  <2>2. CASE i # id
    <3>1. put.objects[i] = node.objects[i] /\ rest[i] = table[i]
      BY <1>7, <2>2
    <3> QED BY <3>1 DEF Since
  <2> QED BY <2>1, <2>2
<1>10. was.modTime <= put.modTime /\ was.modTime < put.modTime
  BY <1>1, <1>2, <1>3, <1>4, BoundsAssumption
<1> HIDE DEF put, rest
<1> QED BY <1>9, <1>10 DEF Since, put, rest

LEMMA DelSince ==
  ASSUME NEW was \in Node, NEW wasDead \in Table, NEW node \in Node, NEW table \in Table,
         Since(was, wasDead, node, table),
         NEW S \in SUBSET Present(node.objects), NEW now \in 0..MaxTime,
         NEW order \in Orders(S),
         DelFrom(node, S, now).modTime <= MaxTime
  PROVE  Since(was, wasDead, DelFrom(node, S, now), Bury(table, node, S, order, now))
<1> DEFINE at   == Stamp(node, now)
           left == DelFrom(node, S, now)
           rest == Bury(table, node, S, order, now)
<1>1. at \in Nat /\ at > node.modTime
  BY StampLater
<1>2. node.modTime \in Nat /\ was.modTime \in Nat /\ was.modTime <= node.modTime
  BY BoundsAssumption DEF Node, Since
<1>3. S \subseteq Ids /\ IsFiniteSet(S) /\ Cardinality(S) \in Nat
  BY IdsFinite, FS_Subset, FS_CardinalityType DEF Present
<1>4. \A i \in S : order[i] \in 0..Cardinality(S) - 1
  BY DEF Orders
<1>5. left.objects = [i \in Ids |-> IF i \in S THEN NoObject ELSE node.objects[i]]
      /\ left.modTime = IF S = {} THEN node.modTime ELSE at + Cardinality(S) - 1
  BY DEF DelFrom
<1>6. ASSUME NEW i \in S
      PROVE  /\ left.objects[i] = NoObject
             /\ rest[i] # NoObject
             /\ rest[i].modTime > was.modTime
  <2>1. rest[i] = [content |-> node.objects[i].content, modTime |-> at + order[i]]
        /\ rest[i].modTime = at + order[i]
    BY <1>3 DEF Bury
  <2>2. order[i] \in 0..Cardinality(S) - 1
    BY <1>4
  <2>3. left.modTime = at + Cardinality(S) - 1
    BY <1>5
  <2>4. at + order[i] \in 1..MaxTime /\ at + order[i] > was.modTime
    BY <1>1, <1>2, <1>3, <2>2, <2>3, BoundsAssumption
  <2>5. node.objects[i] \in Object
    BY <1>3 DEF Present, Node, Table
  <2>6. rest[i] \in Object
    BY <2>1, <2>4, <2>5 DEF Object
  <2>7. left.objects[i] = NoObject
    BY <1>3, <1>5
  <2> QED BY <2>1, <2>4, <2>6, <2>7, SentinelAssumption
<1>7. ASSUME NEW i \in Ids \ S
      PROVE  left.objects[i] = node.objects[i] /\ rest[i] = table[i]
  BY <1>5 DEF Bury
<1>8. /\ was.modTime <= left.modTime
      /\ left.objects # was.objects => was.modTime < left.modTime
  <2>1. CASE S = {}
    <3>1. left.objects = node.objects
      BY <1>5, <2>1 DEF Node, Table
    <3>2. left.modTime = node.modTime
      BY <1>5, <2>1
    <3> QED BY <3>1, <3>2 DEF Since
  <2>2. CASE S # {}
    <3>1. PICK i \in S : TRUE
      BY <2>2
    <3>2. Cardinality(S) >= 1
      BY <1>3, <1>4, <3>1
    <3>3. left.modTime = at + Cardinality(S) - 1
      BY <1>5, <2>2
    <3> QED BY <1>1, <1>2, <1>3, <3>2, <3>3
  <2> QED BY <2>1, <2>2
<1>9. ASSUME NEW i \in Ids
      PROVE  /\ left.objects[i] \notin {was.objects[i], NoObject} => left.objects[i].modTime > was.modTime
             /\ rest[i] \notin {wasDead[i], NoObject} => rest[i].modTime > was.modTime
             /\ was.objects[i] # NoObject /\ left.objects[i] = NoObject
                  => rest[i] # NoObject \/ purged
  <2>1. CASE i \in S
    BY <1>6, <2>1
  <2>2. CASE i \notin S
    <3>1. left.objects[i] = node.objects[i] /\ rest[i] = table[i]
      BY <1>7, <2>2
    <3> QED BY <3>1 DEF Since
  <2> QED BY <2>1, <2>2
<1> HIDE DEF left, rest
<1> QED BY <1>8, <1>9 DEF Since, left, rest

\* Between transactions there is no log and base is the content.
Closed ==
  ~open => /\ base = [tree |-> tree, dead |-> dead]
           /\ xtree = EmptyLog /\ xdead = EmptyLog
           /\ ~flushed /\ ~purged

Changed ==
  open /\ ~flushed =>
    \A ns \in Namespaces : Since(base.tree[ns], base.dead[ns], tree[ns], dead[ns])

\* A top-level namespace the log lacks is untouched.
SavedOrSame(ns) ==
  IF xtree[ns] = NotSaved
  THEN tree[ns] = base.tree[ns] /\ dead[ns] = base.dead[ns]
  ELSE xtree[ns] = base.tree[ns] /\ xdead[ns] = base.dead[ns]

TopSaved == open /\ ~flushed => \A ns \in TopLevel : SavedOrSame(ns)

HInv == IInv /\ Closed /\ Changed /\ TopSaved

LEMMA SinceSelf ==
  ASSUME NEW node \in Node, NEW table \in Table
  PROVE  Since(node, table, node, table)
BY BoundsAssumption DEF Since, Node

\* A step that saves S and writes top-level namespaces of S only keeps TopSaved.
LEMMA TopSavedKept ==
  ASSUME HInv, open, NEW S \in SUBSET Namespaces, Backup(S), base' = base,
         \A ns \in TopLevel \ S : tree'[ns] = tree[ns] /\ dead'[ns] = dead[ns]
  PROVE  TopSaved'
<1>1. CASE flushed
  BY <1>1 DEF Backup, TopSaved
<1>2. CASE ~flushed
  <2>1. xtree' = Saved(xtree, tree, S) /\ xdead' = Saved(xdead, dead, S)
    BY <1>2 DEF Backup
  <2>2. ASSUME NEW ns \in TopLevel
        PROVE  SavedOrSame(ns)'
    <3>1. ns \in Namespaces /\ SavedOrSame(ns)
      BY <1>2 DEF HInv, TopSaved, TopLevel
    <3>2. tree[ns] # NotSaved
      BY <3>1, SentinelAssumption DEF HInv, IInv, TypeOK
    <3>3. xtree[ns] = NotSaved <=> xdead[ns] = NotSaved
      BY <3>1 DEF HInv, IInv, LogSound
    <3>4. CASE xtree[ns] # NotSaved
      <4>1. xtree'[ns] = xtree[ns] /\ xdead'[ns] = xdead[ns]
        BY <2>1, <3>1, <3>3, <3>4 DEF Saved
      <4> QED BY <3>1, <3>4, <4>1 DEF SavedOrSame
    <3>5. CASE xtree[ns] = NotSaved /\ ns \in S
      <4>1. xtree'[ns] = tree[ns] /\ xdead'[ns] = dead[ns]
        BY <2>1, <3>1, <3>3, <3>5 DEF Saved
      <4> QED BY <3>1, <3>2, <3>5, <4>1 DEF SavedOrSame
    <3>6. CASE xtree[ns] = NotSaved /\ ns \notin S
      <4>1. xtree'[ns] = NotSaved
        BY <2>1, <3>1, <3>6 DEF Saved
      <4> QED BY <3>1, <3>6, <4>1 DEF SavedOrSame
    <3> QED BY <3>4, <3>5, <3>6
  <2> QED BY <2>2 DEF TopSaved
<1> QED BY <1>1, <1>2

\* A write changes what it backed up, at a fresh epoch.
LEMMA WriteHInv ==
  ASSUME HInv, open, NEW ns \in Namespaces, NEW id \in Ids, NEW content \in Contents,
         NEW now \in 0..MaxTime, Write(ns, id, content, now)
  PROVE  HInv'
<1> USE DEF HInv
<1>1. IInv'
  BY WriteSound
<1>2. /\ Backup({ns}) /\ base' = base /\ purged' = purged /\ open' = open /\ flushed' = flushed
      /\ tree' = [tree EXCEPT ![ns] = PutIn(tree[ns], id, content, now)]
      /\ dead' = [dead EXCEPT ![ns] = [dead[ns] EXCEPT ![id] = NoObject]]
  BY DEF Write, Backup
<1>3. TopSaved'
  <2>1. \A n \in TopLevel \ {ns} : tree'[n] = tree[n] /\ dead'[n] = dead[n]
    BY <1>2 DEF TopLevel, IInv, TypeOK
  <2> QED BY <1>2, <2>1, TopSavedKept
<1>4. Changed'
  <2> SUFFICES ASSUME ~flushed, NEW n \in Namespaces
               PROVE  Since(base.tree[n], base.dead[n], tree[n], dead[n])'
    BY <1>2 DEF Changed
  <2>1. Since(base.tree[n], base.dead[n], tree[n], dead[n])
    BY DEF Changed
  <2>2. base.tree[n] \in Node /\ base.dead[n] \in Table /\ tree[n] \in Node /\ dead[n] \in Table
    BY DEF IInv, TypeOK
  <2>3. Stamp(tree[ns], now) <= MaxTime
    BY DEF Write
  <2>4. Since(base.tree[n], base.dead[n], tree'[n], dead'[n])
    <3>1. CASE n = ns
      <4>1. tree'[n] = PutIn(tree[n], id, content, now) /\ dead'[n] = [dead[n] EXCEPT ![id] = NoObject]
        BY <1>2, <3>1 DEF IInv, TypeOK
      <4>2. Stamp(tree[n], now) <= MaxTime
        BY <2>3, <3>1
      <4>3. n = ns /\ n \in Namespaces
        BY <3>1
      <4>4. Since(base.tree[n], base.dead[n], PutIn(tree[n], id, content, now),
                  [dead[n] EXCEPT ![id] = NoObject])
        BY <2>1, <2>2, <4>2, PutSince
      <4> QED BY <4>1, <4>4
    <3>2. CASE n # ns
      BY <1>2, <2>1, <3>2 DEF IInv, TypeOK
    <3> QED BY <3>1, <3>2
  <2> QED BY <1>2, <2>4 DEF Since
<1> QED BY <1>1, <1>2, <1>3, <1>4 DEF Closed

\* A sweep buries what it takes out at fresh epochs, and takes nothing out of
\* the other top-level namespaces.
LEMMA SweepHInv ==
  ASSUME HInv, open, NEW ns \in Namespaces, NEW id \in Ids, NEW now \in 0..MaxTime,
         Backup({ns}), Sweep(ns, id, now), base' = base, purged' = purged, open' = open
  PROVE  Changed' /\ TopSaved'
<1> USE DEF HInv
<1> DEFINE doomed == Doomed(ns, id)
           orders == [n \in Namespaces |-> Orders(doomed[n])]
<1>1. PICK order \in {o \in [Namespaces -> UNION {orders[n] : n \in Namespaces}] :
                         \A n \in Namespaces : o[n] \in orders[n]} :
        dead' = [n \in Namespaces |-> Bury(dead[n], tree[n], doomed[n], order[n], now)]
  BY DEF Sweep
<1>2. tree' = [n \in Namespaces |-> DelFrom(tree[n], doomed[n], now)]
  BY DEF Sweep
<1>3. flushed' = flushed
  BY DEF Backup
<1>4. TopSaved'
  <2>1. ASSUME NEW n \in TopLevel \ {ns}
        PROVE  tree'[n] = tree[n] /\ dead'[n] = dead[n]
    <3>1. n \in Namespaces /\ <<ns, id>> \in Paths
      BY DEF TopLevel, Paths
    <3>2. n \notin Prefixed[<<ns, id>>]
      BY <2>1, <3>1 DEF TopLevel
    <3>3. doomed[n] = {}
      BY <2>1, <3>1, <3>2 DEF Doomed
    <3>4. tree[n] \in Node /\ dead[n] \in Table
      BY <3>1 DEF IInv, TypeOK
    <3>5. DelFrom(tree[n], {}, now) = tree[n]
      BY <3>4 DEF DelFrom, Node, Table
    <3>6. Bury(dead[n], tree[n], {}, order[n], now) = dead[n]
      BY <3>4 DEF Bury, Table
    <3>7. tree'[n] = DelFrom(tree[n], doomed[n], now)
          /\ dead'[n] = Bury(dead[n], tree[n], doomed[n], order[n], now)
      BY <1>1, <1>2, <3>1
    <3> QED BY <3>3, <3>5, <3>6, <3>7
  <2> QED BY <2>1, TopSavedKept
<1>5. Changed'
  <2> SUFFICES ASSUME ~flushed, NEW n \in Namespaces
               PROVE  Since(base.tree[n], base.dead[n], tree[n], dead[n])'
    BY <1>3 DEF Changed
  <2>1. Since(base.tree[n], base.dead[n], tree[n], dead[n])
    BY DEF Changed
  <2>2. base.tree[n] \in Node /\ base.dead[n] \in Table /\ tree[n] \in Node /\ dead[n] \in Table
    BY DEF IInv, TypeOK
  <2>3. order[n] \in Orders(doomed[n])
    BY <1>1
  <2>4. doomed[n] \in SUBSET Present(tree[n].objects)
    BY DoomedPresent
  <2>5. DelFrom(tree[n], doomed[n], now).modTime <= MaxTime
    BY DEF Sweep
  <2>6. tree'[n] = DelFrom(tree[n], doomed[n], now)
        /\ dead'[n] = Bury(dead[n], tree[n], doomed[n], order[n], now)
    BY <1>1, <1>2
  <2>7. Since(base.tree[n], base.dead[n], tree'[n], dead'[n])
    <3> HIDE DEF doomed
    <3> QED BY <2>1, <2>2, <2>3, <2>4, <2>5, <2>6, DelSince
  <2> QED BY <2>7 DEF Since
<1> QED BY <1>4, <1>5

LEMMA InitHInv == Init => HInv
BY InitIInv DEF Init, HInv, Closed, Changed, TopSaved

LEMMA NextHInv == HInv /\ [Next]_vars => HInv'
<1> SUFFICES ASSUME HInv, [Next]_vars PROVE HInv'
  OBVIOUS
<1>0. IInv /\ IInv'
  BY NextIInv DEF HInv
<1>1. CASE Begin
  <2>1. /\ open' /\ base = [tree |-> tree, dead |-> dead] /\ xtree = EmptyLog
        /\ UNCHANGED <<tree, dead, flushed, xtree, xdead, base, purged>>
    BY <1>1 DEF Begin, HInv, Closed
  <2>2. \A ns \in Namespaces : Since(tree[ns], dead[ns], tree[ns], dead[ns])
    BY <1>0, SinceSelf DEF IInv, TypeOK
  <2>3. Changed'
    BY <2>1, <2>2 DEF Changed, Since
  <2>4. TopSaved'
    BY <2>1 DEF TopSaved, SavedOrSame, EmptyLog, TopLevel
  <2> QED BY <1>0, <2>1, <2>3, <2>4 DEF HInv, Closed
<1>2. CASE Commit \/ Rollback
  BY <1>0, <1>2 DEF Commit, Rollback, Discard, HInv, Closed, Changed, TopSaved
<1>3. ASSUME NEW ns \in Namespaces, NEW id \in Ids, CreateExists(ns, id) \/ DeleteMissing(ns, id)
      PROVE  HInv'
  <2>1. open /\ Backup({ns}) /\ UNCHANGED <<tree, dead, open, bulk, base, purged>>
    BY <1>3 DEF CreateExists, DeleteMissing, InTx
  <2>2. TopSaved'
    BY <2>1, TopSavedKept
  <2>3. Changed'
    BY <2>1 DEF HInv, Changed, Since, Backup
  <2> QED BY <1>0, <2>1, <2>2, <2>3 DEF HInv, Closed
<1>4. ASSUME NEW ns \in Namespaces, NEW id \in Ids, NEW now \in 1..MaxTime,
             NEW content \in Contents,
             Create(ns, id, content, now) \/ Update(ns, id, content, now)
      PROVE  HInv'
  BY <1>4, WriteHInv DEF Create, Update, InTx
<1>5. ASSUME NEW ns \in Namespaces, NEW id \in Ids, NEW now \in 1..MaxTime, Delete(ns, id, now)
      PROVE  HInv'
  <2>1. open /\ Backup({ns}) /\ Sweep(ns, id, now) /\ UNCHANGED <<open, bulk, base, purged>>
    BY <1>5 DEF Delete, InTx
  <2> QED BY <1>0, <2>1, SweepHInv DEF HInv, Closed
<1>6. ASSUME NEW paths \in BulkLists, NEW now \in 1..MaxTime, DeleteAll(paths, now)
      PROVE  HInv'
  BY <1>0, <1>6 DEF DeleteAll, HInv, Closed, Changed, Since, TopSaved, SavedOrSame
<1>7. CASE DeleteAllStep
  <2> DEFINE ns == Head(bulk.paths)[1]
             id == Head(bulk.paths)[2]
  <2>1. ns \in Namespaces /\ id \in Ids /\ bulk.now \in 0..MaxTime
    BY <1>0, <1>7, BulkTyped DEF DeleteAllStep, IInv, TypeOK
  <2>2. open /\ Backup({ns}) /\ UNCHANGED <<open, base, purged>>
    BY <1>7 DEF DeleteAllStep
  <2>3. CASE UNCHANGED store
    <3>1. TopSaved'
      BY <2>1, <2>2, <2>3, TopSavedKept DEF store
    <3>2. Changed'
      BY <2>2, <2>3 DEF HInv, Changed, Since, Backup, store
    <3> QED BY <1>0, <2>2, <3>1, <3>2 DEF HInv, Closed
  <2>4. CASE Sweep(ns, id, bulk.now)
    BY <1>0, <2>1, <2>2, <2>4, SweepHInv DEF HInv, Closed
  <2> QED BY <1>7, <2>3, <2>4 DEF DeleteAllStep
<1>8. ASSUME NEW olderThan \in 0..MaxTime, Purge(olderThan)
      PROVE  HInv'
  <2> DEFINE S == {ns \in Namespaces : Present(dead[ns]) # {}}
  <2>1. open /\ Backup(S) /\ purged' /\ UNCHANGED <<tree, open, bulk, base>>
    BY <1>8 DEF Purge, InTx
  <2>2. \A ns \in Namespaces, id \in Ids : dead'[ns][id] \in {dead[ns][id], NoObject}
    BY <1>8 DEF Purge
  <2>3. ASSUME NEW ns \in Namespaces \ S
        PROVE  dead'[ns] = dead[ns]
    <3>1. \A id \in Ids : dead[ns][id] = NoObject
      BY DEF Present
    <3>2. dead[ns] \in Table /\ dead'[ns] \in Table
      BY <1>0 DEF IInv, TypeOK
    <3>3. \A id \in Ids : dead'[ns][id] = NoObject
      BY <2>2, <3>1
    <3> QED BY <3>1, <3>2, <3>3 DEF Table
  <2>4. TopSaved'
    <3> HIDE DEF S
    <3>1. S \in SUBSET Namespaces
      BY DEF S
    <3> QED BY <2>1, <2>3, <3>1, TopSavedKept DEF TopLevel
  <2>5. Changed'
    <3>1. flushed' = flushed
      BY <2>1 DEF Backup
    <3> QED BY <2>1, <2>2, <3>1 DEF HInv, Changed, Since
  <2> QED BY <1>0, <2>1, <2>4, <2>5 DEF HInv, Closed
<1>9. CASE Flush
  BY <1>0, <1>9 DEF Flush, InTx, HInv, Closed, Changed, TopSaved
<1>10. CASE UNCHANGED vars
  BY <1>0, <1>10 DEF vars, HInv, Closed, Changed, Since, TopSaved, SavedOrSame
<1> QED BY <1>1, <1>2, <1>3, <1>4, <1>5, <1>6, <1>7, <1>8, <1>9, <1>10 DEF Next, ApiNext

LEMMA SpecHInv == Spec => []HInv
BY InitHInv, NextHInv, PTL DEF Spec

\* A committed change is visible to whoever holds an older ETag: it is newer
\* than the namespace was, and what was removed left a tombstone
\* (objectNode.Put, objectNode.Del and backend.delete).
THEOREM StoreChangesVisible == Spec => []ChangesVisible
<1>1. HInv => ChangesVisible
  BY DEF HInv, Changed, Since, ChangesVisible
<1> QED BY <1>1, SpecHInv, PTL

\* An unchanged epoch means unchanged live objects (transaction.ModTime, from
\* which the API makes the ETag of a list).
THEOREM StoreModTimeValidates == Spec => []ModTimeValidates
<1>1. HInv => ModTimeValidates
  <2> SUFFICES ASSUME HInv, open, ~flushed, NEW ns \in Namespaces,
                      tree[ns].modTime = base.tree[ns].modTime
               PROVE  tree[ns].objects = base.tree[ns].objects
    BY DEF ModTimeValidates
  <2>1. Since(base.tree[ns], base.dead[ns], tree[ns], dead[ns])
    BY DEF HInv, Changed
  <2>2. tree[ns].modTime \in Int
    BY BoundsAssumption DEF HInv, IInv, TypeOK, Node
  <2> QED BY <2>1, <2>2 DEF Since
<1> QED BY <1>1, SpecHInv, PTL

\* Rollback restores a top-level namespace exactly, tombstones and epoch
\* included, unless the transaction flushed (transaction.backup, Rollback).
LEMMA RollbackTopLevel ==
  ASSUME HInv, Rollback, ~flushed
  PROVE  RollsBack(TopLevel)
<1> SUFFICES ASSUME NEW ns \in TopLevel
             PROVE  tree'[ns] = base.tree[ns] /\ dead'[ns] = base.dead[ns]
  BY DEF RollsBack
<1>1. ns \in Namespaces /\ SavedOrSame(ns)
  BY DEF HInv, TopSaved, Rollback, InTx, TopLevel
<1>2. xtree[ns] = NotSaved <=> xdead[ns] = NotSaved
  BY <1>1 DEF HInv, IInv, LogSound
<1> QED BY <1>1, <1>2 DEF SavedOrSame, Rollback, Restored

\* The same, as a property of every step.
THEOREM StoreRollback == Spec => RollbackRestoresTopLevel
<1>1. HInv /\ [Next]_vars => [Rollback /\ ~flushed => RollsBack(TopLevel)]_vars
  BY RollbackTopLevel
<1> QED BY <1>1, SpecHInv, PTL DEF Spec, RollbackRestoresTopLevel

-----------------------------------------------------------------------------
(* The calls on top-level namespaces implement TxStore.                     *)

\* After a flush the log is the whole former content.
LogFull == flushed => xtree = base.tree /\ xdead = base.dead

AInv == HInv /\ LogFull

LEMMA SpecAInv == Spec => []AInv
<1>1. Init => AInv
  BY InitHInv DEF AInv, LogFull, Init
<1>2. AInv /\ [Next]_vars => AInv'
  <2> SUFFICES ASSUME AInv, [Next]_vars PROVE AInv'
    OBVIOUS
  <2>1. HInv'
    BY NextHInv DEF AInv
  <2>2. TypeOK
    BY DEF AInv, HInv, IInv
  <2>3. LogFull'
    <3>1. CASE Flush
      BY <3>1 DEF AInv, LogFull, Flush
    <3>2. CASE Commit \/ Rollback
      BY <3>2 DEF LogFull, Commit, Rollback, Discard
    <3>3. ASSUME ~Flush, ~Commit, ~Rollback
          PROVE  /\ flushed' = flushed /\ base' = base
                 /\ (flushed => xtree' = xtree /\ xdead' = xdead)
      BY <3>3, ZenonT(30) DEF Next, ApiNext, Begin, CreateExists, DeleteMissing, Backup, Create, Update,
                  Write, Delete, DeleteAll, DeleteAllStep, Purge, vars
    <3> QED BY <3>1, <3>2, <3>3 DEF AInv, LogFull
  <2> QED BY <2>1, <2>3 DEF AInv
<1> QED BY <1>1, <1>2, PTL DEF Spec

\* What is kept of the namespaces is a snapshot.
LEMMA TopsTyped ==
  ASSUME NEW trees \in [Namespaces -> Node], NEW graves \in [Namespaces -> Table]
  PROVE  Tops(trees, graves) \in [tree: [TopLevel -> Node], dead: [TopLevel -> Table]]
BY DEF Tops, TopLevel

\* It depends on the top-level namespaces only.
LEMMA TopsSame ==
  ASSUME NEW trees, NEW graves, NEW trees2, NEW graves2,
         \A ns \in TopLevel : trees[ns] = trees2[ns] /\ graves[ns] = graves2[ns]
  PROVE  Tops(trees, graves) = Tops(trees2, graves2)
BY DEF Tops

\* Commit and Rollback are all or nothing for the namespaces nested in no
\* other (transaction.Commit, transaction.Rollback, transaction.Flush).
THEOREM StoreAtomic == Spec => ImplementsTxStore
<1> DEFINE saved == Tops(base.tree, base.dead)
           here  == Tops(tree, dead)
<1>1. Init => TS!Init
  <2> SUFFICES ASSUME Init PROVE TS!Init
    OBVIOUS
  <2>1. TypeOK
    BY InitIInv DEF IInv
  <2>2. here \in [tree: [TopLevel -> Node], dead: [TopLevel -> Table]]
    BY <2>1, TopsTyped DEF TypeOK
  <2>3. ~flushed /\ base.tree = tree /\ base.dead = dead /\ open = FALSE
    BY DEF Init
  <2> QED BY <2>2, <2>3 DEF TS!Init
<1>2. AInv /\ AInv' /\ [Next]_vars => [TS!Next]_TS!vars
  <2> SUFFICES ASSUME AInv, AInv', [Next]_vars
               PROVE  [TS!Next]_TS!vars
    OBVIOUS
  <2>0. TypeOK /\ TypeOK'
    BY DEF AInv, HInv, IInv
  <2>1. here' \in [tree: [TopLevel -> Node], dead: [TopLevel -> Table]]
    <3>1. tree' \in [Namespaces -> Node] /\ dead' \in [Namespaces -> Table]
      BY <2>0 DEF TypeOK
    <3>2. Tops(tree', dead') \in [tree: [TopLevel -> Node], dead: [TopLevel -> Table]]
      BY <3>1, TopsTyped
    <3> QED BY <3>2 DEF Tops, TopLevel
  <2>2. CASE Begin
    BY <2>2 DEF Begin, Tops, TopLevel, TS!Next, TS!Begin
  <2>3. CASE Commit
    <3>1. /\ open /\ ~open' /\ ~flushed' /\ tree' = tree /\ dead' = dead
          /\ base'.tree = tree /\ base'.dead = dead
      BY <2>3 DEF Commit, Discard, InTx, store
    <3>2. here' = here /\ saved' = here
      BY <3>1 DEF Tops, TopLevel
    <3> QED BY <3>1, <3>2 DEF TS!Next, TS!Commit
  <2>4. CASE Rollback
    <3>1. /\ open /\ ~open' /\ ~flushed'
          /\ base'.tree = tree' /\ base'.dead = dead'
          /\ tree' = Restored(xtree, tree) /\ dead' = Restored(xdead, dead)
      BY <2>4 DEF Rollback, Discard, InTx
    <3>2. saved' = here'
      BY <3>1 DEF Tops, TopLevel
    <3>3. here' = saved
      <4>1. CASE flushed
        <5>1. \A ns \in Namespaces : xtree[ns] # NotSaved /\ xdead[ns] # NotSaved
          BY <2>0, <4>1, SentinelAssumption DEF AInv, LogFull, TypeOK
        <5>2. \A ns \in TopLevel : tree'[ns] = xtree[ns] /\ dead'[ns] = xdead[ns]
          BY <3>1, <5>1 DEF Restored, TopLevel
        <5>3. Tops(tree', dead') = Tops(xtree, xdead)
          BY <5>2, TopsSame
        <5> QED BY <4>1, <5>3 DEF AInv, LogFull
      <4>2. CASE ~flushed
        <5>1. \A ns \in TopLevel : tree'[ns] = base.tree[ns] /\ dead'[ns] = base.dead[ns]
          BY <2>4, <4>2, RollbackTopLevel DEF AInv, RollsBack
        <5>2. Tops(tree', dead') = Tops(base.tree, base.dead)
          BY <5>1, TopsSame
        <5> QED BY <4>2, <5>2 DEF Tops, TopLevel
      <4> QED BY <4>1, <4>2
    <3> HIDE DEF saved, here
    <3>4. open /\ open' = FALSE /\ here' = saved /\ saved' = saved
      BY <2>0, <3>1, <3>2, <3>3 DEF TypeOK
    <3> QED BY <3>4 DEF TS!Next, TS!Rollback, saved, here
  <2>5. CASE Flush
    <3>1. open /\ open' = open
      BY <2>5 DEF Flush, InTx
    <3>2. saved' \in {saved, here}
      <4>1. base' = base \/ (base'.tree = tree /\ base'.dead = dead)
        BY <2>5 DEF Flush
      <4> QED BY <4>1 DEF Tops, TopLevel
    <3> QED BY <2>1, <3>1, <3>2 DEF TS!Next, TS!Flush
  <2>6. CASE open /\ open' = open /\ base' = base
    <3>1. saved' = saved
      BY <2>6 DEF Tops, TopLevel
    <3> QED BY <2>1, <2>6, <3>1 DEF TS!Next, TS!Change
  <2>7. CASE UNCHANGED vars
    BY <2>7 DEF vars, Tops, TopLevel, TS!vars
  <2>8. ASSUME ~Begin, ~Commit, ~Rollback, ~Flush, Next
        PROVE  open /\ open' = open /\ base' = base
    BY <2>8, ZenonT(30) DEF Next, ApiNext, CreateExists, DeleteMissing, InTx, Create, Update, Write,
                Delete, DeleteAll, DeleteAllStep, Purge, Backup
  <2> QED BY <2>2, <2>3, <2>4, <2>5, <2>6, <2>7, <2>8
<1> QED BY <1>1, <1>2, SpecAInv, PTL DEF Spec, ImplementsTxStore, TS!Spec
=============================================================================
