--------------------------- MODULE PgStoreProofs ---------------------------
(***************************************************************************)
(* Theorems about PgStore, for any transactions, rows, namespaces, clock   *)
(* readings and bounds: types, distinct epochs, listings that miss         *)
(* nothing, locked reads that stand.                                       *)
(*                                                                         *)
(* To the tables a step is one of six things (TableStep): nothing, a lock, *)
(* a row written with a new epoch, an epoch alone, a commit, a rollback.   *)
(***************************************************************************)
EXTENDS PgStore, TLAPS

-----------------------------------------------------------------------------
(* Epochs grow whatever the clock reads. *)

\* An increment ends above what it began with.
LEMMA IncrementedGrows ==
  ASSUME NEW e \in Nat, NEW f \in Incremented(e)
  PROVE  f \in Nat /\ e < f
BY ClockAssumption DEF Incremented

\* t has locked the row and its namespace and written the row with a new epoch.
Writes(t, p, e, deleted) ==
  /\ Lock(t, {p, SpaceOf[p]})
  /\ e \in Nat /\ newStamps[SpaceOf[p]] < e
  /\ newRows' = [newRows EXCEPT ![p] = [modTime |-> e, deleted |-> deleted]]
  /\ newStamps' = [newStamps EXCEPT ![SpaceOf[p]] = e]

\* t has locked both and written the timestamp only.
Fires(t, p, e) ==
  /\ Lock(t, {p, SpaceOf[p]})
  /\ e \in Nat /\ newStamps[SpaceOf[p]] < e
  /\ newRows' = newRows
  /\ newStamps' = [newStamps EXCEPT ![SpaceOf[p]] = e]

\* A burial is a write with a newer epoch.
LEMMA BuryWrites ==
  ASSUME TypeOK, NEW t \in Txns, NEW p \in Paths, Bury(t, p)
  PROVE  \E e \in Nat : Writes(t, p, e, TRUE)
<1>1. newStamps[SpaceOf[p]] \in Nat
  BY SpacesAssumption DEF TypeOK
<1>2. PICK e \in Incremented(newStamps[SpaceOf[p]]) :
        /\ newRows' = [newRows EXCEPT ![p] = [modTime |-> e, deleted |-> TRUE]]
        /\ newStamps' = [newStamps EXCEPT ![SpaceOf[p]] = e]
  BY DEF Bury, Stamped
<1>3. e \in Nat /\ newStamps[SpaceOf[p]] < e
  BY <1>1, IncrementedGrows
<1> QED BY <1>2, <1>3 DEF Bury, Writes

\* So is an upsert, although the trigger may fire twice.
LEMMA UpsertWrites ==
  ASSUME TypeOK, NEW t \in Txns, NEW p \in Paths, Upsert(t, p)
  PROVE  \E e \in Nat : Writes(t, p, e, FALSE)
<1> DEFINE s == newStamps[SpaceOf[p]]
           both == UNION {Incremented(e) : e \in Incremented(s)}
<1>1. s \in Nat
  BY SpacesAssumption DEF TypeOK
<1>2. PICK e \in Incremented(s) \cup both :
        /\ newRows' = [newRows EXCEPT ![p] = [modTime |-> e, deleted |-> FALSE]]
        /\ newStamps' = [newStamps EXCEPT ![SpaceOf[p]] = e]
  BY DEF Upsert, Stamped
<1>3. e \in Nat /\ s < e
  <2>1. CASE e \in Incremented(s)
    BY <1>1, <2>1, IncrementedGrows
  <2>2. CASE e \in both
    <3>1. PICK f \in Incremented(s) : e \in Incremented(f)
      BY <2>2
    <3>2. f \in Nat /\ s < f
      BY <1>1, IncrementedGrows
    <3>3. e \in Nat /\ f < e
      BY <3>1, <3>2, IncrementedGrows
    <3> QED BY <1>1, <3>2, <3>3
  <2> QED BY <1>2, <2>1, <2>2
<1> QED BY <1>2, <1>3 DEF Upsert, Writes

\* An insert whose condition fails moves the timestamp only.
LEMMA FireOnlyFires ==
  ASSUME TypeOK, NEW t \in Txns, NEW p \in Paths, FireOnly(t, p)
  PROVE  \E e \in Nat : Fires(t, p, e)
<1>1. newStamps[SpaceOf[p]] \in Nat
  BY SpacesAssumption DEF TypeOK
<1>2. PICK e \in Incremented(newStamps[SpaceOf[p]]) :
        newStamps' = [newStamps EXCEPT ![SpaceOf[p]] = e]
  BY DEF FireOnly
<1>3. e \in Nat /\ newStamps[SpaceOf[p]] < e
  BY <1>1, IncrementedGrows
<1> QED BY <1>2, <1>3 DEF FireOnly, Fires

-----------------------------------------------------------------------------
(* What a step does to the tables. *)

CommitsTables(t) ==
  /\ rows' = [p \in Paths |-> RowFor(t, p)]
  /\ stamps' = [s \in Spaces |-> StampFor(t, s)]
  /\ owner' = [k \in DOMAIN owner |-> IF owner[k] = t THEN Free ELSE owner[k]]
  /\ UNCHANGED latest

UndoesTables(t) ==
  /\ newRows' = [p \in Paths |-> IF owner[p] = t THEN rows[p] ELSE newRows[p]]
  /\ newStamps' = [s \in Spaces |-> IF owner[s] = t THEN stamps[s] ELSE newStamps[s]]
  /\ owner' = [k \in DOMAIN owner |-> IF owner[k] = t THEN Free ELSE owner[k]]
  /\ UNCHANGED committed

\* t gives nothing up
GoesOn(t) ==
  \/ UNCHANGED <<committed, latest, owner>>
  \/ UNCHANGED <<committed, latest>> /\ \E p \in Paths : Lock(t, {p})
  \/ UNCHANGED committed /\ \E p \in Paths, e \in Nat, d \in BOOLEAN : Writes(t, p, e, d)
  \/ UNCHANGED committed /\ \E p \in Paths, e \in Nat : Fires(t, p, e)
  \/ CommitsTables(t)

TableStep(t) == GoesOn(t) \/ UndoesTables(t)

StepOf(t) ==
  \/ Begin(t) \/ DeleteNested(t) \/ ListAll(t) \/ Commit(t) \/ Rollback(t)
  \/ \E p \in Paths : \/ GetForUpdate(t, p) \/ CreateStart(t, p) \/ CreateInsert(t, p)
                      \/ Update(t, p) \/ Delete(t, p) \/ DeleteRow(t, p)
  \/ \E S \in SUBSET Paths : DeleteAll(t, S)
  \/ \E s \in Polled : ModTime(t, s)

\* Only a rollback gives up what was written.
LEMMA StepsOfTables ==
  ASSUME TypeOK, NEW t \in Txns, StepOf(t)
  PROVE  GoesOn(t) \/ (Rollback(t) /\ UndoesTables(t))
<1>1. ASSUME Begin(t) PROVE GoesOn(t)
  BY <1>1 DEF Begin, GoesOn
<1>2. ASSUME DeleteNested(t) PROVE GoesOn(t)
  BY <1>2 DEF DeleteNested, Continue, GoesOn
<1>3. ASSUME ListAll(t) PROVE GoesOn(t)
  BY <1>3 DEF ListAll, Call, GoesOn
<1>4. ASSUME Commit(t) PROVE GoesOn(t)
  BY <1>4 DEF Commit, Finish, CommitsTables, GoesOn
<1>5. ASSUME Rollback(t) PROVE UndoesTables(t)
  BY <1>5 DEF Rollback, Finish, UndoesTables
<1>6. ASSUME NEW p \in Paths, GetForUpdate(t, p) PROVE GoesOn(t)
  BY <1>6 DEF GetForUpdate, Call, GoesOn
<1>7. ASSUME NEW p \in Paths, CreateStart(t, p) PROVE GoesOn(t)
  BY <1>7 DEF CreateStart, Call, GoesOn
<1>8. ASSUME NEW p \in Paths, CreateInsert(t, p) PROVE GoesOn(t)
  <2>1. UNCHANGED committed
    BY <1>8 DEF CreateInsert, Continue
  <2>2. CASE FireOnly(t, p)
    BY <2>1, <2>2, FireOnlyFires DEF GoesOn
  <2>3. CASE Upsert(t, p)
    <3>1. \E e \in Nat : Writes(t, p, e, FALSE)
      BY <2>3, UpsertWrites
    <3> QED BY <2>1, <3>1 DEF GoesOn
  <2> QED BY <1>8, <2>2, <2>3 DEF CreateInsert
<1>9. ASSUME NEW p \in Paths, Update(t, p) PROVE GoesOn(t)
  <2>1. \E e \in Nat : Writes(t, p, e, FALSE)
    BY <1>9, UpsertWrites DEF Update
  <2>2. UNCHANGED committed
    BY <1>9 DEF Update, Call
  <2> QED BY <2>1, <2>2 DEF GoesOn
<1>10. ASSUME NEW p \in Paths, Delete(t, p) PROVE GoesOn(t)
  <2>1. \E e \in Nat : Writes(t, p, e, TRUE)
    BY <1>10, BuryWrites DEF Delete
  <2>2. UNCHANGED committed
    BY <1>10 DEF Delete, Call
  <2> QED BY <2>1, <2>2 DEF GoesOn
<1>11. ASSUME NEW p \in Paths, DeleteRow(t, p) PROVE GoesOn(t)
  <2>1. UNCHANGED committed
    BY <1>11 DEF DeleteRow, Continue
  <2>2. CASE Bury(t, p)
    <3>1. \E e \in Nat : Writes(t, p, e, TRUE)
      BY <2>2, BuryWrites
    <3> QED BY <2>1, <3>1 DEF GoesOn
  <2>3. CASE UNCHANGED <<latest, owner, got>>
    BY <2>1, <2>3 DEF GoesOn
  <2> QED BY <1>11, <2>2, <2>3 DEF DeleteRow
<1>12. ASSUME NEW S \in SUBSET Paths, DeleteAll(t, S) PROVE GoesOn(t)
  BY <1>12 DEF DeleteAll, Call, GoesOn
<1>13. ASSUME NEW s \in Polled, ModTime(t, s) PROVE GoesOn(t)
  BY <1>13 DEF ModTime, Call, GoesOn
<1>14. CASE ~Rollback(t)
  <2>1. GoesOn(t)
    BY <1>1, <1>2, <1>3, <1>4, <1>6, <1>7, <1>8, <1>9, <1>10, <1>11, <1>12, <1>13, <1>14
    DEF StepOf
  <2> QED BY <2>1
<1> QED BY <1>5, <1>14

\* No action does anything else to the tables.
LEMMA StepsAreTableSteps ==
  ASSUME TypeOK, NEW t \in Txns, StepOf(t)
  PROVE  TableStep(t)
BY StepsOfTables DEF TableStep

\* Every step is one of some transaction.
LEMMA NextIsStep == Next => \E t \in Txns : StepOf(t)
BY DEF Next, StepOf

-----------------------------------------------------------------------------
(* The invariant of the tables. *)

TablesTyped ==
  /\ rows \in [Paths -> Row \cup {NoRow}] /\ newRows \in [Paths -> Row \cup {NoRow}]
  /\ stamps \in [Spaces -> Nat] /\ newStamps \in [Spaces -> Nat]
  /\ owner \in [Paths \cup Spaces -> Txns \cup {Free}]

\* What nobody has locked is committed.
LocksCover ==
  /\ \A p \in Paths : owner[p] = Free => newRows[p] = rows[p]
  /\ \A s \in Spaces : owner[s] = Free => newStamps[s] = stamps[s]

\* Whoever has written a row has locked its namespace and gone beyond its epoch.
WritesAhead ==
  \A p \in Paths : newRows[p] # rows[p] =>
    /\ owner[SpaceOf[p]] = owner[p]
    /\ newRows[p] # NoRow
    /\ stamps[SpaceOf[p]] < newRows[p].modTime

\* No row is ahead of its namespace.
StampsBound ==
  /\ \A s \in Spaces : stamps[s] <= newStamps[s]
  /\ \A p \in Paths :
       /\ rows[p] # NoRow => rows[p].modTime <= stamps[SpaceOf[p]]
       /\ newRows[p] # NoRow => newRows[p].modTime <= newStamps[SpaceOf[p]]

Differ(v, w) == v # NoRow /\ w # NoRow => v.modTime # w.modTime

EpochsDiffer ==
  \A p, q \in Paths : p # q /\ SpaceOf[p] = SpaceOf[q] =>
    /\ Differ(rows[p], rows[q])
    /\ Differ(rows[p], newRows[q])
    /\ Differ(newRows[p], newRows[q])

TablesInv == TablesTyped /\ LocksCover /\ WritesAhead /\ StampsBound /\ EpochsDiffer

\* What taking locks does, pointwise.
LEMMA LockTyped ==
  ASSUME TablesTyped, NEW t \in Txns, NEW K \in SUBSET (Paths \cup Spaces), Lock(t, K)
  PROVE  /\ owner' \in [Paths \cup Spaces -> Txns \cup {Free}]
         /\ \A k \in Paths \cup Spaces : owner'[k] = IF k \in K THEN t ELSE owner[k]
         /\ \A k \in K : owner[k] = Free \/ owner[k] = t
BY DEF TablesTyped, Lock

\* What a write does, pointwise.
LEMMA WriteEffect ==
  ASSUME TablesInv, NEW t \in Txns, NEW p \in Paths, NEW e \in Nat, NEW d \in BOOLEAN,
         UNCHANGED committed, Writes(t, p, e, d)
  PROVE  /\ TablesTyped'
         /\ rows' = rows /\ stamps' = stamps
         /\ SpaceOf[p] \in Spaces /\ newStamps[SpaceOf[p]] < e
         /\ newRows'[p] # NoRow /\ newRows'[p] \in Row /\ newRows'[p].modTime = e
         /\ newStamps'[SpaceOf[p]] = e
         /\ \A q \in Paths \ {p} : newRows'[q] = newRows[q]
         /\ \A s \in Spaces \ {SpaceOf[p]} : newStamps'[s] = newStamps[s]
         /\ owner'[p] = t /\ owner'[SpaceOf[p]] = t
         /\ \A k \in (Paths \cup Spaces) \ {p, SpaceOf[p]} : owner'[k] = owner[k]
         /\ owner[p] = Free \/ owner[p] = t
         /\ owner[SpaceOf[p]] = Free \/ owner[SpaceOf[p]] = t
<1>1. SpaceOf[p] \in Spaces /\ {p, SpaceOf[p]} \subseteq Paths \cup Spaces
  BY SpacesAssumption
<1>2. Lock(t, {p, SpaceOf[p]})
  BY DEF Writes
<1>3. /\ owner' \in [Paths \cup Spaces -> Txns \cup {Free}]
      /\ \A k \in Paths \cup Spaces : owner'[k] = IF k \in {p, SpaceOf[p]} THEN t ELSE owner[k]
      /\ \A k \in {p, SpaceOf[p]} : owner[k] = Free \/ owner[k] = t
  BY <1>1, <1>2, LockTyped DEF TablesInv
<1>4. rows' = rows /\ stamps' = stamps
  BY DEF committed
<1>5. [modTime |-> e, deleted |-> d] \in Row
  BY DEF Row
<1>6. [modTime |-> e, deleted |-> d] # NoRow
  BY <1>5, SentinelAssumption
<1>7. newRows'[p] = [modTime |-> e, deleted |-> d]
  BY DEF Writes, TablesInv, TablesTyped
<1>8. newRows' \in [Paths -> Row \cup {NoRow}] /\ newStamps' \in [Spaces -> Nat]
  BY <1>5 DEF Writes, TablesInv, TablesTyped
<1>9. /\ newStamps'[SpaceOf[p]] = e /\ newStamps[SpaceOf[p]] < e
      /\ \A q \in Paths \ {p} : newRows'[q] = newRows[q]
      /\ \A s \in Spaces \ {SpaceOf[p]} : newStamps'[s] = newStamps[s]
  BY <1>1 DEF Writes, TablesInv, TablesTyped
<1>10. TablesTyped'
  BY <1>3, <1>4, <1>8 DEF TablesInv, TablesTyped
<1> QED BY <1>1, <1>3, <1>4, <1>5, <1>6, <1>7, <1>9, <1>10

\* A write keeps the invariant of the tables: its epoch is new and its
\* namespace goes along.
LEMMA WriteKeepsTables ==
  ASSUME TablesInv, NEW t \in Txns, NEW p \in Paths, NEW e \in Nat, NEW d \in BOOLEAN,
         UNCHANGED committed, Writes(t, p, e, d)
  PROVE  TablesInv'
<1> USE SpacesAssumption
<1>1. /\ TablesTyped'
      /\ rows' = rows /\ stamps' = stamps
      /\ SpaceOf[p] \in Spaces /\ newStamps[SpaceOf[p]] < e
      /\ newRows'[p] # NoRow /\ newRows'[p] \in Row /\ newRows'[p].modTime = e
      /\ newStamps'[SpaceOf[p]] = e
      /\ \A q \in Paths \ {p} : newRows'[q] = newRows[q]
      /\ \A s \in Spaces \ {SpaceOf[p]} : newStamps'[s] = newStamps[s]
      /\ owner'[p] = t /\ owner'[SpaceOf[p]] = t
      /\ \A k \in (Paths \cup Spaces) \ {p, SpaceOf[p]} : owner'[k] = owner[k]
      /\ owner[p] = Free \/ owner[p] = t
      /\ owner[SpaceOf[p]] = Free \/ owner[SpaceOf[p]] = t
  BY WriteEffect
<1>2. t # Free
  BY SentinelAssumption
<1>3. LocksCover'
  BY <1>1, <1>2 DEF TablesInv, LocksCover
<1>4. stamps[SpaceOf[p]] < e
  BY <1>1 DEF TablesInv, TablesTyped, StampsBound
<1>5. WritesAhead'
  <2> SUFFICES ASSUME NEW q \in Paths, newRows'[q] # rows[q]
               PROVE  /\ owner'[SpaceOf[q]] = owner'[q]
                      /\ newRows'[q] # NoRow
                      /\ stamps[SpaceOf[q]] < newRows'[q].modTime
    BY <1>1 DEF WritesAhead
  <2>1. CASE q = p
    BY <1>1, <1>4, <2>1
  <2>2. CASE q # p
    <3>1. /\ owner[SpaceOf[q]] = owner[q] /\ newRows[q] # NoRow
          /\ stamps[SpaceOf[q]] < newRows[q].modTime /\ owner[q] # Free
      BY <1>1, <2>2 DEF TablesInv, WritesAhead, LocksCover
    <3>2. q # SpaceOf[p] /\ SpaceOf[q] # p /\ SpaceOf[q] \in Spaces
      BY <1>1
    <3>3. owner'[q] = owner[q]
      BY <1>1, <2>2, <3>2
    <3>4. owner'[SpaceOf[q]] = owner[SpaceOf[q]]
      <4>1. CASE SpaceOf[q] = SpaceOf[p]  BY <1>1, <3>1, <4>1
      <4>2. CASE SpaceOf[q] # SpaceOf[p]  BY <1>1, <3>2, <4>2
      <4> QED BY <4>1, <4>2
    <3> QED BY <1>1, <2>2, <3>1, <3>3, <3>4
  <2> QED BY <2>1, <2>2
<1>6. StampsBound'
  <2>1. \A s \in Spaces : newStamps[s] <= newStamps'[s] /\ newStamps'[s] \in Nat /\ newStamps[s] \in Nat
    BY <1>1 DEF TablesInv, TablesTyped
  <2>2. \A s \in Spaces : stamps[s] <= newStamps'[s]
    BY <2>1 DEF TablesInv, TablesTyped, StampsBound
  <2>3. ASSUME NEW q \in Paths, newRows'[q] # NoRow
        PROVE  newRows'[q].modTime <= newStamps'[SpaceOf[q]]
    <3>1. CASE q = p  BY <1>1, <3>1
    <3>2. CASE q # p
      <4>1. newRows'[q] = newRows[q] /\ newRows[q] \in Row /\ newRows[q].modTime \in Nat
        BY <1>1, <2>3, <3>2 DEF TablesInv, TablesTyped, Row
      <4>2. newRows[q].modTime <= newStamps[SpaceOf[q]] /\ SpaceOf[q] \in Spaces
        BY <2>3, <4>1 DEF TablesInv, StampsBound
      <4> QED BY <2>1, <4>1, <4>2
    <3> QED BY <3>1, <3>2
  <2> QED BY <1>1, <2>2, <2>3 DEF TablesInv, StampsBound
<1>7. EpochsDiffer'
  <2>1. ASSUME NEW q \in Paths, SpaceOf[q] = SpaceOf[p]
        PROVE  /\ rows[q] # NoRow => rows[q].modTime < e
               /\ newRows[q] # NoRow => newRows[q].modTime < e
    <3>1. rows[q] # NoRow => rows[q].modTime \in Nat
      BY DEF TablesInv, TablesTyped, Row
    <3>2. newRows[q] # NoRow => newRows[q].modTime \in Nat
      BY DEF TablesInv, TablesTyped, Row
    <3>3. stamps[SpaceOf[p]] \in Nat /\ newStamps[SpaceOf[p]] \in Nat
      BY <1>1 DEF TablesInv, TablesTyped
    <3> QED BY <1>1, <1>4, <2>1, <3>1, <3>2, <3>3 DEF TablesInv, StampsBound
  <2>2. ASSUME NEW q \in Paths, NEW r \in Paths, q # r, SpaceOf[q] = SpaceOf[r]
        PROVE  Differ(rows[q], newRows'[r]) /\ Differ(newRows'[q], newRows'[r])
    <3>1. CASE q # p /\ r # p
      BY <1>1, <2>2, <3>1 DEF TablesInv, EpochsDiffer
    <3>2. CASE r = p
      BY <1>1, <2>1, <2>2, <3>2 DEF Differ
    <3>3. CASE q = p
      <4>1. newRows'[r] = newRows[r] /\ Differ(rows[q], newRows[r])
        BY <1>1, <2>2, <3>3 DEF TablesInv, EpochsDiffer
      <4>2. Differ(newRows'[q], newRows[r])
        BY <1>1, <2>1, <2>2, <3>3 DEF Differ
      <4> QED BY <4>1, <4>2
    <3> QED BY <3>1, <3>2, <3>3
  <2> QED BY <1>1, <2>2 DEF TablesInv, EpochsDiffer
<1> QED BY <1>1, <1>3, <1>5, <1>6, <1>7 DEF TablesInv

\* What a timestamp that moves alone does, pointwise.
LEMMA FireEffect ==
  ASSUME TablesInv, NEW t \in Txns, NEW p \in Paths, NEW e \in Nat,
         UNCHANGED committed, Fires(t, p, e)
  PROVE  /\ TablesTyped'
         /\ rows' = rows /\ stamps' = stamps /\ newRows' = newRows
         /\ SpaceOf[p] \in Spaces /\ newStamps[SpaceOf[p]] < e /\ newStamps'[SpaceOf[p]] = e
         /\ \A s \in Spaces \ {SpaceOf[p]} : newStamps'[s] = newStamps[s]
         /\ owner'[p] = t /\ owner'[SpaceOf[p]] = t
         /\ \A k \in (Paths \cup Spaces) \ {p, SpaceOf[p]} : owner'[k] = owner[k]
         /\ owner[p] = Free \/ owner[p] = t
         /\ owner[SpaceOf[p]] = Free \/ owner[SpaceOf[p]] = t
<1>1. SpaceOf[p] \in Spaces /\ {p, SpaceOf[p]} \subseteq Paths \cup Spaces
  BY SpacesAssumption
<1>2. Lock(t, {p, SpaceOf[p]})
  BY DEF Fires
<1>3. /\ owner' \in [Paths \cup Spaces -> Txns \cup {Free}]
      /\ \A k \in Paths \cup Spaces : owner'[k] = IF k \in {p, SpaceOf[p]} THEN t ELSE owner[k]
      /\ \A k \in {p, SpaceOf[p]} : owner[k] = Free \/ owner[k] = t
  BY <1>1, <1>2, LockTyped DEF TablesInv
<1>4. rows' = rows /\ stamps' = stamps /\ newRows' = newRows
  BY DEF committed, Fires
<1>5. newStamps' \in [Spaces -> Nat]
  BY DEF Fires, TablesInv, TablesTyped
<1>6. /\ newStamps'[SpaceOf[p]] = e /\ newStamps[SpaceOf[p]] < e
      /\ \A s \in Spaces \ {SpaceOf[p]} : newStamps'[s] = newStamps[s]
  BY <1>1 DEF Fires, TablesInv, TablesTyped
<1>7. TablesTyped'
  BY <1>3, <1>4, <1>5 DEF TablesInv, TablesTyped
<1> QED BY <1>1, <1>3, <1>4, <1>6, <1>7

\* A timestamp that moves alone leaves every row behind it.
LEMMA FireKeepsTables ==
  ASSUME TablesInv, NEW t \in Txns, NEW p \in Paths, NEW e \in Nat,
         UNCHANGED committed, Fires(t, p, e)
  PROVE  TablesInv'
<1> USE SpacesAssumption
<1>1. /\ TablesTyped'
      /\ rows' = rows /\ stamps' = stamps /\ newRows' = newRows
      /\ SpaceOf[p] \in Spaces /\ newStamps[SpaceOf[p]] < e /\ newStamps'[SpaceOf[p]] = e
      /\ \A s \in Spaces \ {SpaceOf[p]} : newStamps'[s] = newStamps[s]
      /\ owner'[p] = t /\ owner'[SpaceOf[p]] = t
      /\ \A k \in (Paths \cup Spaces) \ {p, SpaceOf[p]} : owner'[k] = owner[k]
      /\ owner[p] = Free \/ owner[p] = t
      /\ owner[SpaceOf[p]] = Free \/ owner[SpaceOf[p]] = t
  BY FireEffect
<1>2. t # Free
  BY SentinelAssumption
<1>3. LocksCover'
  BY <1>1, <1>2 DEF TablesInv, LocksCover
<1>4. WritesAhead'
  <2> SUFFICES ASSUME NEW q \in Paths, newRows[q] # rows[q]
               PROVE  owner'[SpaceOf[q]] = owner'[q]
    BY <1>1 DEF TablesInv, WritesAhead
  <2>1. owner[SpaceOf[q]] = owner[q] /\ owner[q] # Free
    BY DEF TablesInv, WritesAhead, LocksCover
  <2>2. q # SpaceOf[p] /\ SpaceOf[q] # p /\ SpaceOf[q] \in Spaces
    BY <1>1
  <2>3. owner'[q] = owner[q]
    <3>1. CASE q = p  BY <1>1, <2>1, <3>1
    <3>2. CASE q # p  BY <1>1, <2>2, <3>2
    <3> QED BY <3>1, <3>2
  <2>4. owner'[SpaceOf[q]] = owner[SpaceOf[q]]
    <3>1. CASE SpaceOf[q] = SpaceOf[p]  BY <1>1, <2>1, <3>1
    <3>2. CASE SpaceOf[q] # SpaceOf[p]  BY <1>1, <2>2, <3>2
    <3> QED BY <3>1, <3>2
  <2> QED BY <2>1, <2>3, <2>4
<1>5. StampsBound'
  <2>1. \A s \in Spaces : newStamps[s] <= newStamps'[s] /\ newStamps'[s] \in Nat /\ newStamps[s] \in Nat
    BY <1>1 DEF TablesInv, TablesTyped
  <2>2. \A s \in Spaces : stamps[s] <= newStamps'[s]
    BY <2>1 DEF TablesInv, TablesTyped, StampsBound
  <2>3. ASSUME NEW q \in Paths, newRows[q] # NoRow
        PROVE  newRows[q].modTime <= newStamps'[SpaceOf[q]]
    <3>1. newRows[q].modTime \in Nat /\ newRows[q].modTime <= newStamps[SpaceOf[q]]
      BY <2>3 DEF TablesInv, TablesTyped, StampsBound, Row
    <3> QED BY <2>1, <3>1
  <2> QED BY <1>1, <2>2, <2>3 DEF TablesInv, StampsBound
<1>6. EpochsDiffer'
  BY <1>1 DEF TablesInv, EpochsDiffer
<1> QED BY <1>1, <1>3, <1>4, <1>5, <1>6 DEF TablesInv

\* A lock changes no version.
LEMMA LockKeepsTables ==
  ASSUME TablesInv, NEW t \in Txns, NEW p \in Paths, UNCHANGED <<committed, latest>>, Lock(t, {p})
  PROVE  TablesInv'
<1>1. rows' = rows /\ stamps' = stamps /\ newRows' = newRows /\ newStamps' = newStamps
  BY DEF committed, latest
<1>2. /\ owner' \in [Paths \cup Spaces -> Txns \cup {Free}]
      /\ \A k \in Paths \cup Spaces : owner'[k] = IF k \in {p} THEN t ELSE owner[k]
      /\ \A k \in {p} : owner[k] = Free \/ owner[k] = t
  BY LockTyped DEF TablesInv
<1>3. t # Free
  BY SentinelAssumption
<1>4. LocksCover'
  BY <1>1, <1>2, <1>3 DEF TablesInv, LocksCover
<1>5. WritesAhead'
  <2> SUFFICES ASSUME NEW q \in Paths, newRows[q] # rows[q]
               PROVE  owner'[SpaceOf[q]] = owner'[q]
    BY <1>1 DEF TablesInv, WritesAhead
  <2>1. owner[SpaceOf[q]] = owner[q] /\ owner[q] # Free
    BY DEF TablesInv, WritesAhead, LocksCover
  <2>2. SpaceOf[q] \in Spaces /\ SpaceOf[q] # p
    BY SpacesAssumption
  <2> QED BY <1>2, <2>1, <2>2
<1> QED
  BY <1>1, <1>2, <1>4, <1>5 DEF TablesInv, TablesTyped, StampsBound, EpochsDiffer

\* A commit moves every version its transaction has written to the tables.
LEMMA CommitEffect ==
  ASSUME TablesInv, NEW t \in Txns, CommitsTables(t)
  PROVE  /\ TablesTyped' /\ newRows' = newRows /\ newStamps' = newStamps
         /\ \A k \in Paths \cup Spaces : owner'[k] = IF owner[k] = t THEN Free ELSE owner[k]
         /\ \A p \in Paths : rows'[p] = IF owner[p] = t THEN newRows[p] ELSE rows[p]
         /\ \A s \in Spaces : stamps'[s] = IF owner[s] = t THEN newStamps[s] ELSE stamps[s]
BY DEF TablesInv, TablesTyped, CommitsTables, latest, RowFor, StampFor

\* A commit makes rows and timestamps what the transaction saw.
LEMMA CommitKeepsTables ==
  ASSUME TablesInv, NEW t \in Txns, CommitsTables(t)
  PROVE  TablesInv'
<1> USE SpacesAssumption
<1>1. /\ TablesTyped' /\ newRows' = newRows /\ newStamps' = newStamps
      /\ \A k \in Paths \cup Spaces : owner'[k] = IF owner[k] = t THEN Free ELSE owner[k]
      /\ \A p \in Paths : rows'[p] = IF owner[p] = t THEN newRows[p] ELSE rows[p]
      /\ \A s \in Spaces : stamps'[s] = IF owner[s] = t THEN newStamps[s] ELSE stamps[s]
  BY CommitEffect
<1>2. t # Free
  BY SentinelAssumption
<1>3. LocksCover'
  BY <1>1, <1>2 DEF TablesInv, LocksCover
<1>4. WritesAhead'
  <2> SUFFICES ASSUME NEW q \in Paths, newRows[q] # rows'[q]
               PROVE  /\ owner'[SpaceOf[q]] = owner'[q]
                      /\ newRows[q] # NoRow
                      /\ stamps'[SpaceOf[q]] < newRows[q].modTime
    BY <1>1 DEF WritesAhead
  <2>1. owner[q] # t /\ newRows[q] # rows[q]
    BY <1>1
  <2>2. /\ owner[SpaceOf[q]] = owner[q] /\ newRows[q] # NoRow
        /\ stamps[SpaceOf[q]] < newRows[q].modTime
    BY <2>1 DEF TablesInv, WritesAhead
  <2> QED BY <1>1, <2>1, <2>2
<1>5. \A s \in Spaces : stamps[s] <= stamps'[s] /\ stamps'[s] <= newStamps[s]
  BY <1>1 DEF TablesInv, TablesTyped, StampsBound
<1>6. StampsBound'
  <2>1. ASSUME NEW q \in Paths, rows'[q] # NoRow
        PROVE  rows'[q].modTime <= stamps'[SpaceOf[q]]
    <3>1. CASE rows'[q] = rows[q]
      <4>1. rows[q].modTime \in Nat /\ rows[q].modTime <= stamps[SpaceOf[q]] /\ SpaceOf[q] \in Spaces
        BY <2>1, <3>1 DEF TablesInv, TablesTyped, StampsBound, Row
      <4>2. stamps[SpaceOf[q]] \in Nat /\ stamps'[SpaceOf[q]] \in Nat
        BY <1>1, <4>1 DEF TablesInv, TablesTyped
      <4> QED BY <1>5, <3>1, <4>1, <4>2
    <3>2. CASE rows'[q] # rows[q]
      <4>1. owner[q] = t /\ rows'[q] = newRows[q] /\ owner[SpaceOf[q]] = t
        BY <1>1, <3>2 DEF TablesInv, WritesAhead
      <4> QED BY <1>1, <2>1, <4>1 DEF TablesInv, StampsBound
    <3> QED BY <3>1, <3>2
  <2> QED BY <1>1, <1>5, <2>1 DEF TablesInv, StampsBound
<1>7. EpochsDiffer'
  BY <1>1 DEF TablesInv, EpochsDiffer, Differ
<1> QED BY <1>1, <1>3, <1>4, <1>6, <1>7 DEF TablesInv

\* A rollback leaves what is committed.
LEMMA UndoEffect ==
  ASSUME TablesInv, NEW t \in Txns, UndoesTables(t)
  PROVE  /\ TablesTyped' /\ rows' = rows /\ stamps' = stamps
         /\ \A k \in Paths \cup Spaces : owner'[k] = IF owner[k] = t THEN Free ELSE owner[k]
         /\ \A p \in Paths : newRows'[p] = IF owner[p] = t THEN rows[p] ELSE newRows[p]
         /\ \A s \in Spaces : newStamps'[s] = IF owner[s] = t THEN stamps[s] ELSE newStamps[s]
BY DEF TablesInv, TablesTyped, UndoesTables, committed

\* A rollback takes back what the locks cover.
LEMMA UndoKeepsTables ==
  ASSUME TablesInv, NEW t \in Txns, UndoesTables(t)
  PROVE  TablesInv'
<1> USE SpacesAssumption
<1>1. /\ TablesTyped' /\ rows' = rows /\ stamps' = stamps
      /\ \A k \in Paths \cup Spaces : owner'[k] = IF owner[k] = t THEN Free ELSE owner[k]
      /\ \A p \in Paths : newRows'[p] = IF owner[p] = t THEN rows[p] ELSE newRows[p]
      /\ \A s \in Spaces : newStamps'[s] = IF owner[s] = t THEN stamps[s] ELSE newStamps[s]
  BY UndoEffect
<1>2. t # Free
  BY SentinelAssumption
<1>3. LocksCover'
  BY <1>1, <1>2 DEF TablesInv, LocksCover
<1>4. WritesAhead'
  <2> SUFFICES ASSUME NEW q \in Paths, newRows'[q] # rows[q]
               PROVE  /\ owner'[SpaceOf[q]] = owner'[q]
                      /\ newRows'[q] # NoRow
                      /\ stamps[SpaceOf[q]] < newRows'[q].modTime
    BY <1>1 DEF WritesAhead
  <2>1. owner[q] # t /\ newRows'[q] = newRows[q]
    BY <1>1
  <2> QED BY <1>1, <2>1 DEF TablesInv, WritesAhead
<1>5. StampsBound'
  <2>1. ASSUME NEW q \in Paths, newRows'[q] # NoRow
        PROVE  newRows'[q].modTime <= newStamps'[SpaceOf[q]]
    <3>1. CASE owner[SpaceOf[q]] = t
      <4>1. newRows'[q] = rows[q]
        BY <1>1, <3>1 DEF TablesInv, WritesAhead
      <4> QED BY <1>1, <2>1, <3>1, <4>1 DEF TablesInv, StampsBound
    <3>2. CASE owner[SpaceOf[q]] # t
      <4>1. newRows'[q] = newRows[q]
        BY <1>1, <3>2 DEF TablesInv, WritesAhead
      <4> QED BY <1>1, <2>1, <3>2, <4>1 DEF TablesInv, StampsBound
    <3> QED BY <3>1, <3>2
  <2>2. \A s \in Spaces : stamps[s] <= newStamps'[s]
    BY <1>1 DEF TablesInv, TablesTyped, StampsBound
  <2> QED BY <1>1, <2>1, <2>2 DEF TablesInv, StampsBound
<1>6. EpochsDiffer'
  BY <1>1 DEF TablesInv, EpochsDiffer, Differ
<1> QED BY <1>1, <1>3, <1>4, <1>5, <1>6 DEF TablesInv

\* Whatever a transaction does keeps the invariant of the tables.
LEMMA StepKeepsTables ==
  ASSUME TablesInv, NEW t \in Txns, TableStep(t)
  PROVE  TablesInv'
<1>1. CASE UNCHANGED <<committed, latest, owner>>
  BY <1>1 DEF TablesInv, TablesTyped, LocksCover, WritesAhead, StampsBound, EpochsDiffer, committed, latest
<1>2. CASE UNCHANGED <<committed, latest>> /\ \E p \in Paths : Lock(t, {p})
  BY <1>2, LockKeepsTables
<1>3. CASE UNCHANGED committed /\ \E p \in Paths, e \in Nat, d \in BOOLEAN : Writes(t, p, e, d)
  BY <1>3, WriteKeepsTables
<1>4. CASE UNCHANGED committed /\ \E p \in Paths, e \in Nat : Fires(t, p, e)
  BY <1>4, FireKeepsTables
<1>5. CASE CommitsTables(t)
  BY <1>5, CommitKeepsTables
<1>6. CASE UndoesTables(t)
  BY <1>6, UndoKeepsTables
<1> QED BY <1>1, <1>2, <1>3, <1>4, <1>5, <1>6 DEF TableStep, GoesOn

\* The invariant of the tables has what the unique index asks for.
LEMMA TablesSound == TablesInv => EpochsSound
<1> SUFFICES ASSUME TablesInv, NEW p \in Paths
             PROVE  /\ \A v \in Versions(p) : v.modTime <= newStamps[SpaceOf[p]]
                    /\ \A q \in Paths \ {p} : SpaceOf[q] = SpaceOf[p] =>
                         \A v \in Versions(p), w \in Versions(q) : v.modTime # w.modTime
  BY DEF EpochsSound
<1>1. SpaceOf[p] \in Spaces
  BY SpacesAssumption
<1>2. ASSUME NEW v \in Versions(p) PROVE v.modTime <= newStamps[SpaceOf[p]]
  <2>1. CASE v = newRows[p]
    BY <1>2, <2>1 DEF Versions, TablesInv, StampsBound
  <2>2. CASE v = rows[p]
    <3>1. v # NoRow /\ v.modTime \in Nat /\ v.modTime <= stamps[SpaceOf[p]]
      BY <1>2, <2>2 DEF Versions, TablesInv, TablesTyped, StampsBound, Row
    <3> QED BY <1>1, <3>1 DEF TablesInv, TablesTyped, StampsBound
  <2> QED BY <1>2, <2>1, <2>2 DEF Versions
<1>3. ASSUME NEW q \in Paths \ {p}, SpaceOf[q] = SpaceOf[p], NEW v \in Versions(p), NEW w \in Versions(q)
      PROVE  v.modTime # w.modTime
  BY <1>3 DEF Versions, TablesInv, EpochsDiffer, Differ
<1> QED BY <1>2, <1>3

-----------------------------------------------------------------------------
(* Types of everything else. *)

Todo == [create : SUBSET Paths, delete : SUBSET Paths, nested : SUBSET Paths]

CallsTyped ==
  /\ open \subseteq Txns /\ calls \in [Txns -> Nat]
  /\ todo \in [Txns -> Todo]
  /\ got \in [Txns -> Read \cup {None}]
  /\ poll \in [Txns -> List \cup {None}] /\ seen \in List \cup {None}

\* The two halves of the type invariant.
LEMMA TypesSplit == TypeOK <=> TablesTyped /\ CallsTyped
BY DEF TypeOK, TablesTyped, CallsTyped, Todo

\* A new call is counted and changes no answer.
LEMMA CallTyped ==
  ASSUME CallsTyped, NEW t \in Txns, Call(t)
  PROVE  calls' \in [Txns -> Nat] /\ open' = open /\ seen' = seen
BY DEF CallsTyped, Call

\* What is forgotten leaves no trace.
LEMMA ForgetTyped ==
  ASSUME CallsTyped, NEW t \in Txns, NEW p \in Paths, Forget(t, p)
  PROVE  got' \in [Txns -> Read \cup {None}]
BY DEF CallsTyped, Forget

\* A transaction that is over is as it was at the start.
LEMMA FinishTyped ==
  ASSUME CallsTyped, NEW t \in Txns, Finish(t)
  PROVE  /\ open' \subseteq Txns /\ calls' \in [Txns -> Nat] /\ todo' \in [Txns -> Todo]
         /\ got' \in [Txns -> Read \cup {None}] /\ poll' \in [Txns -> List \cup {None}]
BY DEF CallsTyped, Finish, NothingToDo, Todo

\* Whatever a transaction does keeps the types of what it is in, has read and
\* lists.
LEMMA StepKeepsCallsTyped ==
  ASSUME TablesInv, CallsTyped, NEW t \in Txns, StepOf(t)
  PROVE  CallsTyped'
<1>1. CASE Begin(t)  BY <1>1 DEF CallsTyped, Begin
<1>2. CASE DeleteNested(t)
  <2>1. {q \in UNION {Beneath[p] : p \in todo[t].nested} : Live(RowFor(t, q))} \in SUBSET Paths
    BY SpacesAssumption DEF CallsTyped, Todo
  <2>2. todo' \in [Txns -> Todo]
    BY <1>2, <2>1, ZenonT(30) DEF CallsTyped, Todo, DeleteNested
  <2> QED BY <1>2, <2>2 DEF CallsTyped, DeleteNested, Continue
<1>3. CASE ListAll(t)
  <2> DEFINE found == {p \in Paths : SpaceOf[p] = poll[t].space /\ Live(RowFor(t, p))}
             list == {<<p, RowFor(t, p).modTime>> : p \in found}
  <2>1. ASSUME NEW p \in found PROVE <<p, RowFor(t, p).modTime>> \in Paths \X Nat
    <3>1. p \in Paths /\ RowFor(t, p) \in Row \cup {NoRow}
      BY DEF TablesInv, TablesTyped, RowFor
    <3>2. RowFor(t, p) \in Row
      BY <3>1 DEF Live
    <3>3. RowFor(t, p).modTime \in Nat
      BY <3>2 DEF Row
    <3> QED BY <3>1, <3>3
  <2>2. list \in SUBSET (Paths \X Nat)
    BY <2>1
  <2>3. poll[t] \in List
    BY <1>3 DEF ListAll, CallsTyped
  <2>4. [poll[t] EXCEPT !.list = list] \in List
    BY <2>2, <2>3 DEF List
  <2>5. poll' = [poll EXCEPT ![t] = [poll[t] EXCEPT !.list = list]]
    BY <1>3 DEF ListAll
  <2>6. poll' \in [Txns -> List \cup {None}]
    BY <2>4, <2>5 DEF CallsTyped
  <2> QED BY <1>3, <2>6, CallTyped DEF CallsTyped, ListAll
<1>4. CASE Commit(t)
  <2>1. seen' \in List \cup {None}
    BY <1>4 DEF CallsTyped, Commit, Answers
  <2> QED BY <1>4, <2>1, FinishTyped DEF CallsTyped, Commit
<1>5. CASE Rollback(t)  BY <1>5, FinishTyped DEF CallsTyped, Rollback
<1>6. ASSUME NEW p \in Paths, GetForUpdate(t, p) PROVE CallsTyped'
  <2>1. owner[p] = Free \/ owner[p] = t
    BY <1>6 DEF GetForUpdate, Lock
  <2>2. newRows[p] = RowFor(t, p)
    BY <2>1 DEF TablesInv, LocksCover, RowFor
  <2>3. newRows[p] \in Row
    BY <1>6, <2>2 DEF GetForUpdate, Live, TablesInv, TablesTyped
  <2>4. [path |-> p, row |-> newRows[p]] \in Read
    BY <2>3 DEF Read
  <2> QED BY <1>6, <2>4, CallTyped DEF CallsTyped, GetForUpdate
<1>7. ASSUME NEW p \in Paths, CreateStart(t, p) PROVE CallsTyped'
  BY <1>7, CallTyped DEF CallsTyped, CreateStart, Todo
<1>8. ASSUME NEW p \in Paths, CreateInsert(t, p) PROVE CallsTyped'
  BY <1>8 DEF CallsTyped, CreateInsert, Continue, Todo
<1>9. ASSUME NEW p \in Paths, Update(t, p) PROVE CallsTyped'
  BY <1>9, CallTyped, ForgetTyped DEF CallsTyped, Update
<1>10. ASSUME NEW p \in Paths, Delete(t, p) PROVE CallsTyped'
  <2>1. todo' \in [Txns -> Todo]
    BY <1>10 DEF CallsTyped, Delete, Todo
  <2> QED BY <1>10, <2>1, CallTyped, ForgetTyped DEF CallsTyped, Delete
<1>11. ASSUME NEW p \in Paths, DeleteRow(t, p) PROVE CallsTyped'
  <2>1. todo' \in [Txns -> Todo]
    BY <1>11, ZenonT(30) DEF CallsTyped, DeleteRow, Todo
  <2>2. got' \in [Txns -> Read \cup {None}]
    BY <1>11, ForgetTyped DEF CallsTyped, DeleteRow
  <2> QED BY <1>11, <2>1, <2>2 DEF CallsTyped, DeleteRow, Continue
<1>12. ASSUME NEW S \in SUBSET Paths, DeleteAll(t, S) PROVE CallsTyped'
  <2>1. todo' \in [Txns -> Todo]
    BY <1>12, ZenonT(30) DEF CallsTyped, DeleteAll, Todo
  <2> QED BY <1>12, <2>1, CallTyped DEF CallsTyped, DeleteAll
<1>13. ASSUME NEW s \in Polled, ModTime(t, s) PROVE CallsTyped'
  <2>1. StampFor(t, s) \in Nat /\ s \in Spaces
    BY PolledAssumption DEF TablesInv, TablesTyped, StampFor
  <2>2. [space |-> s, etag |-> StampFor(t, s), list |-> None] \in List
    BY <2>1 DEF List
  <2> QED BY <1>13, <2>2, CallTyped DEF CallsTyped, ModTime
<1> QED
  BY <1>1, <1>2, <1>3, <1>4, <1>5, <1>6, <1>7, <1>8, <1>9, <1>10, <1>11, <1>12, <1>13
  DEF StepOf

-----------------------------------------------------------------------------
(* What a transaction relies on between its statements. *)

\* What it has read with a lock is still the latest version.
GotHeld(u) == got[u] # None =>
  /\ owner[got[u].path] = u
  /\ newRows[got[u].path] = got[u].row
  /\ Live(got[u].row)

\* It creates one object at a time, which it has not created itself.
CreatesAbsent(u) ==
  /\ \A p, q \in todo[u].create : p = q
  /\ \A p \in todo[u].create : owner[p] = u => ~Live(newRows[p])

\* The list l is right about p, if p has this row and has not changed since.
Shows(l, p, row) == row # NoRow /\ row.modTime <= l.etag =>
  {e \in l.list : e[1] = p} = IF Live(row) THEN {<<p, row.modTime>>} ELSE {}

\* What it is listing is right about everything it would find now.
PollFits(u) == poll[u] # None =>
  /\ poll[u].etag <= StampFor(u, poll[u].space)
  /\ poll[u].list # None =>
       \A p \in Paths : SpaceOf[p] = poll[u].space => Shows(poll[u], p, RowFor(u, p))

SeenFits == seen # None =>
  /\ seen.etag <= stamps[seen.space]
  /\ seen.list # None
  /\ \A p \in Paths : SpaceOf[p] = seen.space => Shows(seen, p, rows[p])

TxnInv(u) == GotHeld(u) /\ CreatesAbsent(u) /\ PollFits(u)

Inv == TablesInv /\ CallsTyped /\ SeenFits /\ \A u \in Txns : TxnInv(u)

-----------------------------------------------------------------------------
(* A step of one transaction, as another sees it. *)

\* What u has locked is its own.
KeepsLocks(u) ==
  /\ \A k \in Paths \cup Spaces : owner[k] = u <=> owner'[k] = u
  /\ \A p \in Paths : owner[p] = u => newRows'[p] = newRows[p]

\* Whatever u finds changed is newer than its namespace was.
Advances(u) ==
  /\ \A s \in Spaces : StampFor(u, s) <= StampFor(u, s)'
  /\ \A p \in Paths : RowFor(u, p)' # RowFor(u, p) =>
       RowFor(u, p)' \in Row /\ StampFor(u, SpaceOf[p]) < RowFor(u, p)'.modTime

\* The same of the tables as committed.
TablesAdvance ==
  /\ \A s \in Spaces : stamps[s] <= stamps'[s]
  /\ \A p \in Paths : rows'[p] # rows[p] =>
       rows'[p] \in Row /\ stamps[SpaceOf[p]] < rows'[p].modTime

\* Nobody else takes or writes what one has locked.
LEMMA OthersKeepLocks ==
  ASSUME TablesInv, NEW t \in Txns, NEW u \in Txns \ {t}, TableStep(t)
  PROVE  KeepsLocks(u)
<1> USE SpacesAssumption
<1>0. u # Free /\ t # Free
  BY SentinelAssumption
<1>1. CASE UNCHANGED <<committed, latest, owner>>
  BY <1>1 DEF KeepsLocks, latest
<1>2. CASE UNCHANGED <<committed, latest>> /\ \E p \in Paths : Lock(t, {p})
  <2>1. PICK p \in Paths : Lock(t, {p})
    BY <1>2
  <2>2. /\ \A k \in Paths \cup Spaces : owner'[k] = IF k \in {p} THEN t ELSE owner[k]
        /\ \A k \in {p} : owner[k] = Free \/ owner[k] = t
    BY <2>1, LockTyped DEF TablesInv
  <2> QED BY <1>0, <1>2, <2>2 DEF KeepsLocks, latest
<1>3. CASE UNCHANGED committed /\ \E p \in Paths, e \in Nat, d \in BOOLEAN : Writes(t, p, e, d)
  <2>1. PICK p \in Paths, e \in Nat, d \in BOOLEAN : Writes(t, p, e, d)
    BY <1>3
  <2>2. /\ \A q \in Paths \ {p} : newRows'[q] = newRows[q]
        /\ owner'[p] = t /\ owner'[SpaceOf[p]] = t
        /\ \A k \in (Paths \cup Spaces) \ {p, SpaceOf[p]} : owner'[k] = owner[k]
        /\ owner[p] = Free \/ owner[p] = t
        /\ owner[SpaceOf[p]] = Free \/ owner[SpaceOf[p]] = t
    BY <1>3, <2>1, WriteEffect
  <2> QED BY <1>0, <2>2 DEF KeepsLocks
<1>4. CASE UNCHANGED committed /\ \E p \in Paths, e \in Nat : Fires(t, p, e)
  <2>1. PICK p \in Paths, e \in Nat : Fires(t, p, e)
    BY <1>4
  <2>2. /\ newRows' = newRows
        /\ owner'[p] = t /\ owner'[SpaceOf[p]] = t
        /\ \A k \in (Paths \cup Spaces) \ {p, SpaceOf[p]} : owner'[k] = owner[k]
        /\ owner[p] = Free \/ owner[p] = t
        /\ owner[SpaceOf[p]] = Free \/ owner[SpaceOf[p]] = t
    BY <1>4, <2>1, FireEffect
  <2> QED BY <1>0, <2>2 DEF KeepsLocks
<1>5. CASE CommitsTables(t)
  BY <1>0, <1>5, CommitEffect DEF KeepsLocks
<1>6. CASE UndoesTables(t)
  BY <1>0, <1>6, UndoEffect DEF KeepsLocks
<1> QED BY <1>1, <1>2, <1>3, <1>4, <1>5, <1>6 DEF TableStep, GoesOn

\* What a transaction finds of a row or a namespace that it has not locked, or
\* has just locked, is what is committed; a version it finds is in the tables.
LEMMA Found ==
  ASSUME TablesInv, NEW u \in Txns
  PROVE  /\ \A p \in Paths : /\ owner[p] = u \/ owner[p] = Free => RowFor(u, p) = newRows[p]
                             /\ owner[p] # u => RowFor(u, p) = rows[p]
         /\ \A s \in Spaces : /\ owner[s] = u \/ owner[s] = Free => StampFor(u, s) = newStamps[s]
                              /\ owner[s] # u => StampFor(u, s) = stamps[s]
                              /\ StampFor(u, s) \in Nat
BY DEF TablesInv, TablesTyped, LocksCover, RowFor, StampFor

\* What a transaction finds of the tables goes forward, unless it is rolled
\* back itself.
LEMMA StepAdvances ==
  ASSUME TablesInv, NEW t \in Txns, NEW u \in Txns, GoesOn(t) \/ (UndoesTables(t) /\ u # t)
  PROVE  Advances(u)
<1> USE SpacesAssumption
<1>0. u # Free /\ t # Free
  BY SentinelAssumption
<1>1. CASE UNCHANGED <<committed, latest, owner>>
  <2>1. \A p \in Paths : RowFor(u, p)' = RowFor(u, p)
    BY <1>1 DEF RowFor, committed, latest
  <2>2. \A s \in Spaces : StampFor(u, s)' = StampFor(u, s)
    BY <1>1 DEF StampFor, committed, latest
  <2> QED BY <2>1, <2>2, Found DEF Advances
<1>2. CASE UNCHANGED <<committed, latest>> /\ \E p \in Paths : Lock(t, {p})
  <2>1. PICK p \in Paths : Lock(t, {p})
    BY <1>2
  <2>2. /\ \A k \in Paths \cup Spaces : owner'[k] = IF k \in {p} THEN t ELSE owner[k]
        /\ \A k \in {p} : owner[k] = Free \/ owner[k] = t
    BY <2>1, LockTyped DEF TablesInv
  <2>3. \A s \in Spaces : StampFor(u, s)' = StampFor(u, s)
    BY <1>2, <2>2 DEF StampFor, committed, latest
  <2>4. \A q \in Paths : RowFor(u, q)' = RowFor(u, q)
    BY <1>0, <1>2, <2>2 DEF RowFor, committed, latest, TablesInv, LocksCover
  <2> QED BY <2>3, <2>4, Found DEF Advances
<1>3. CASE UNCHANGED committed /\ \E p \in Paths, e \in Nat, d \in BOOLEAN : Writes(t, p, e, d)
  <2>1. PICK p \in Paths, e \in Nat, d \in BOOLEAN : Writes(t, p, e, d)
    BY <1>3
  <2>2. /\ TablesTyped'
        /\ rows' = rows /\ stamps' = stamps
        /\ SpaceOf[p] \in Spaces /\ newStamps[SpaceOf[p]] < e
        /\ newRows'[p] # NoRow /\ newRows'[p] \in Row /\ newRows'[p].modTime = e
        /\ newStamps'[SpaceOf[p]] = e
        /\ \A q \in Paths \ {p} : newRows'[q] = newRows[q]
        /\ \A s \in Spaces \ {SpaceOf[p]} : newStamps'[s] = newStamps[s]
        /\ owner'[p] = t /\ owner'[SpaceOf[p]] = t
        /\ \A k \in (Paths \cup Spaces) \ {p, SpaceOf[p]} : owner'[k] = owner[k]
        /\ owner[p] = Free \/ owner[p] = t
        /\ owner[SpaceOf[p]] = Free \/ owner[SpaceOf[p]] = t
    BY <1>3, <2>1, WriteEffect
  <2>3. \A q \in Paths \ {p} : RowFor(u, q)' = RowFor(u, q)
    BY <2>2 DEF RowFor
  <2>4. \A s \in Spaces \ {SpaceOf[p]} : StampFor(u, s)' = StampFor(u, s)
    BY <2>2 DEF StampFor
  <2>5. CASE u # t
    <3>1. RowFor(u, p)' = RowFor(u, p) /\ StampFor(u, SpaceOf[p])' = StampFor(u, SpaceOf[p])
      BY <1>0, <2>2, <2>5 DEF RowFor, StampFor
    <3> QED BY <2>3, <2>4, <3>1, Found DEF Advances
  <2>6. CASE u = t
    <3>1. RowFor(u, p)' = newRows'[p] /\ StampFor(u, SpaceOf[p])' = e
      BY <2>2, <2>6 DEF RowFor, StampFor
    <3>2. StampFor(u, SpaceOf[p]) = newStamps[SpaceOf[p]]
      BY <2>2, <2>6, Found
    <3>3. newStamps[SpaceOf[p]] \in Nat
      BY <2>2 DEF TablesInv, TablesTyped
    <3> QED BY <2>2, <2>3, <2>4, <3>1, <3>2, <3>3, Found DEF Advances
  <2> QED BY <2>5, <2>6
<1>4. CASE UNCHANGED committed /\ \E p \in Paths, e \in Nat : Fires(t, p, e)
  <2>1. PICK p \in Paths, e \in Nat : Fires(t, p, e)
    BY <1>4
  <2>2. /\ rows' = rows /\ stamps' = stamps /\ newRows' = newRows
        /\ SpaceOf[p] \in Spaces /\ newStamps[SpaceOf[p]] < e /\ newStamps'[SpaceOf[p]] = e
        /\ \A s \in Spaces \ {SpaceOf[p]} : newStamps'[s] = newStamps[s]
        /\ owner'[p] = t /\ owner'[SpaceOf[p]] = t
        /\ \A k \in (Paths \cup Spaces) \ {p, SpaceOf[p]} : owner'[k] = owner[k]
        /\ owner[p] = Free \/ owner[p] = t
        /\ owner[SpaceOf[p]] = Free \/ owner[SpaceOf[p]] = t
    BY <1>4, <2>1, FireEffect
  <2>3. \A q \in Paths : RowFor(u, q)' = RowFor(u, q)
    BY <1>0, <2>2 DEF RowFor, TablesInv, LocksCover
  <2>4. \A s \in Spaces \ {SpaceOf[p]} : StampFor(u, s)' = StampFor(u, s)
    BY <2>2 DEF StampFor
  <2>5. StampFor(u, SpaceOf[p]) <= StampFor(u, SpaceOf[p])'
    <3>1. CASE u # t
      BY <1>0, <2>2, <3>1, Found DEF StampFor
    <3>2. CASE u = t
      BY <2>2, <3>2, Found DEF StampFor
    <3> QED BY <3>1, <3>2
  <2> QED BY <2>3, <2>4, <2>5, Found DEF Advances
<1>5. CASE CommitsTables(t)
  <2>1. /\ newRows' = newRows /\ newStamps' = newStamps
        /\ \A k \in Paths \cup Spaces : owner'[k] = IF owner[k] = t THEN Free ELSE owner[k]
        /\ \A p \in Paths : rows'[p] = IF owner[p] = t THEN newRows[p] ELSE rows[p]
        /\ \A s \in Spaces : stamps'[s] = IF owner[s] = t THEN newStamps[s] ELSE stamps[s]
    BY <1>5, CommitEffect
  <2>2. CASE u = t
    <3>1. \A p \in Paths : RowFor(u, p)' = RowFor(u, p)
      BY <1>0, <2>1, <2>2 DEF RowFor
    <3>2. \A s \in Spaces : StampFor(u, s)' = StampFor(u, s)
      BY <1>0, <2>1, <2>2 DEF StampFor
    <3> QED BY <3>1, <3>2, Found DEF Advances
  <2>3. CASE u # t
    <3>1. ASSUME NEW s \in Spaces PROVE StampFor(u, s) <= StampFor(u, s)'
      <4>1. stamps[s] <= newStamps[s] /\ stamps[s] \in Nat /\ newStamps[s] \in Nat
        BY DEF TablesInv, TablesTyped, StampsBound
      <4> QED BY <1>0, <2>1, <2>3, <4>1 DEF StampFor
    <3>2. ASSUME NEW p \in Paths, RowFor(u, p)' # RowFor(u, p)
          PROVE  RowFor(u, p)' \in Row /\ StampFor(u, SpaceOf[p]) < RowFor(u, p)'.modTime
      <4>1. owner[p] = t /\ RowFor(u, p)' = newRows[p] /\ RowFor(u, p) = rows[p]
        BY <1>0, <2>1, <2>3, <3>2 DEF RowFor
      <4>2. /\ owner[SpaceOf[p]] = t /\ newRows[p] # NoRow
            /\ stamps[SpaceOf[p]] < newRows[p].modTime
        BY <3>2, <4>1 DEF TablesInv, WritesAhead
      <4>3. StampFor(u, SpaceOf[p]) = stamps[SpaceOf[p]]
        BY <2>3, <4>2 DEF StampFor
      <4> QED BY <4>1, <4>2, <4>3 DEF TablesInv, TablesTyped
    <3> QED BY <3>1, <3>2 DEF Advances
  <2> QED BY <2>2, <2>3
<1>6. CASE UndoesTables(t) /\ u # t
  <2>1. /\ u # t /\ rows' = rows /\ stamps' = stamps
        /\ \A k \in Paths \cup Spaces : owner'[k] = IF owner[k] = t THEN Free ELSE owner[k]
        /\ \A p \in Paths : newRows'[p] = IF owner[p] = t THEN rows[p] ELSE newRows[p]
        /\ \A s \in Spaces : newStamps'[s] = IF owner[s] = t THEN stamps[s] ELSE newStamps[s]
    BY <1>6, UndoEffect
  <2>2. \A p \in Paths : RowFor(u, p)' = RowFor(u, p)
    BY <1>0, <2>1 DEF RowFor
  <2>3. \A s \in Spaces : StampFor(u, s)' = StampFor(u, s)
    BY <1>0, <2>1 DEF StampFor
  <2> QED BY <2>2, <2>3, Found DEF Advances
<1> QED BY <1>1, <1>2, <1>3, <1>4, <1>5, <1>6 DEF TableStep, GoesOn

\* What is committed goes forward.
LEMMA StepAdvancesTables ==
  ASSUME TablesInv, NEW t \in Txns, TableStep(t)
  PROVE  TablesAdvance
<1> USE SpacesAssumption
<1>1. CASE rows' = rows /\ stamps' = stamps
  BY <1>1 DEF TablesInv, TablesTyped, TablesAdvance
<1>2. CASE CommitsTables(t)
  <2>1. /\ \A p \in Paths : rows'[p] = IF owner[p] = t THEN newRows[p] ELSE rows[p]
        /\ \A s \in Spaces : stamps'[s] = IF owner[s] = t THEN newStamps[s] ELSE stamps[s]
    BY <1>2, CommitEffect
  <2>2. \A s \in Spaces : stamps[s] <= stamps'[s]
    BY <2>1 DEF TablesInv, TablesTyped, StampsBound
  <2>3. ASSUME NEW p \in Paths, rows'[p] # rows[p]
        PROVE  rows'[p] \in Row /\ stamps[SpaceOf[p]] < rows'[p].modTime
    BY <2>1, <2>3 DEF TablesInv, TablesTyped, WritesAhead
  <2> QED BY <2>2, <2>3 DEF TablesAdvance
<1> QED BY <1>1, <1>2 DEF TableStep, GoesOn, committed, UndoesTables

-----------------------------------------------------------------------------
(* A step of another transaction takes nothing from what one relies on. *)

\* What another transaction is in, has read and is listing is its own.
LEMMA OthersStill ==
  ASSUME CallsTyped, NEW t \in Txns, NEW u \in Txns \ {t}, StepOf(t)
  PROVE  todo'[u] = todo[u] /\ got'[u] = got[u] /\ poll'[u] = poll[u]
<1> USE DEF CallsTyped, Call, Continue
<1>1. CASE Begin(t)  BY <1>1 DEF Begin
<1>2. CASE DeleteNested(t)  BY <1>2 DEF DeleteNested
<1>3. CASE ListAll(t)  BY <1>3 DEF ListAll
<1>4. CASE Commit(t)  BY <1>4 DEF Commit, Finish
<1>5. CASE Rollback(t)  BY <1>5 DEF Rollback, Finish
<1>6. CASE \E p \in Paths : GetForUpdate(t, p)  BY <1>6 DEF GetForUpdate
<1>7. CASE \E p \in Paths : CreateStart(t, p)  BY <1>7 DEF CreateStart
<1>8. CASE \E p \in Paths : CreateInsert(t, p)  BY <1>8 DEF CreateInsert
<1>9. CASE \E p \in Paths : Update(t, p)  BY <1>9 DEF Update, Forget
<1>10. CASE \E p \in Paths : Delete(t, p)  BY <1>10 DEF Delete, Forget
<1>11. CASE \E p \in Paths : DeleteRow(t, p)  BY <1>11 DEF DeleteRow, Forget
<1>12. CASE \E S \in SUBSET Paths : DeleteAll(t, S)  BY <1>12 DEF DeleteAll
<1>13. CASE \E s \in Polled : ModTime(t, s)  BY <1>13 DEF ModTime
<1> QED
  BY <1>1, <1>2, <1>3, <1>4, <1>5, <1>6, <1>7, <1>8, <1>9, <1>10, <1>11, <1>12, <1>13
  DEF StepOf

\* What was found stays right while everything that changes has a newer epoch.
LEMMA PollStays ==
  ASSUME TablesInv, CallsTyped, NEW u \in Txns, PollFits(u), Advances(u), TablesInv',
         poll'[u] = poll[u]
  PROVE  PollFits(u)'
<1> SUFFICES ASSUME poll[u] # None
             PROVE  /\ poll[u].etag <= StampFor(u, poll[u].space)'
                    /\ poll[u].list # None =>
                         \A p \in Paths : SpaceOf[p] = poll[u].space => Shows(poll[u], p, RowFor(u, p)')
  BY DEF PollFits, Shows
<1> DEFINE l == poll[u]
<1>1. l \in List /\ l.space \in Spaces /\ l.etag \in Nat
  BY DEF CallsTyped, List
<1>2. StampFor(u, l.space) \in Nat /\ StampFor(u, l.space)' \in Nat
  BY <1>1 DEF TablesInv, TablesTyped, StampFor
<1>3. l.etag <= StampFor(u, l.space) /\ StampFor(u, l.space) <= StampFor(u, l.space)'
  BY <1>1 DEF PollFits, Advances
<1>4. ASSUME l.list # None, NEW p \in Paths, SpaceOf[p] = l.space
      PROVE  Shows(l, p, RowFor(u, p)')
  <2>1. CASE RowFor(u, p)' = RowFor(u, p)
    BY <1>4, <2>1 DEF PollFits
  <2>2. CASE RowFor(u, p)' # RowFor(u, p)
    <3>1. RowFor(u, p)' \in Row /\ StampFor(u, l.space) < RowFor(u, p)'.modTime
      BY <1>4, <2>2 DEF Advances
    <3>2. RowFor(u, p)'.modTime \in Nat
      BY <3>1 DEF Row
    <3>3. ~(RowFor(u, p)'.modTime <= l.etag)
      BY <1>1, <1>2, <1>3, <3>1, <3>2
    <3> QED BY <3>3 DEF Shows
  <2> QED BY <2>1, <2>2
<1> QED BY <1>1, <1>2, <1>3, <1>4

\* So what one relies on stands while others step.
LEMMA OthersKeepTxnInv ==
  ASSUME TablesInv, TablesInv', CallsTyped, NEW t \in Txns, NEW u \in Txns \ {t},
         StepOf(t), TableStep(t), TxnInv(u)
  PROVE  TxnInv(u)'
<1>1. todo'[u] = todo[u] /\ got'[u] = got[u] /\ poll'[u] = poll[u]
  BY OthersStill
<1>2. KeepsLocks(u)
  BY OthersKeepLocks
<1>3. Advances(u)
  BY StepAdvances DEF TableStep
<1>4. GotHeld(u)'
  <2>1. got[u] # None => got[u].path \in Paths
    BY DEF CallsTyped, Read
  <2> QED BY <1>1, <1>2, <2>1 DEF TxnInv, GotHeld, KeepsLocks, Live
<1>5. CreatesAbsent(u)'
  <2>1. todo[u].create \subseteq Paths
    BY DEF CallsTyped, Todo
  <2> QED BY <1>1, <1>2, <2>1 DEF TxnInv, CreatesAbsent, KeepsLocks, Live
<1>6. PollFits(u)'
  BY <1>1, <1>3, PollStays DEF TxnInv
<1> QED BY <1>4, <1>5, <1>6 DEF TxnInv

-----------------------------------------------------------------------------
(* A step of a transaction keeps what it relies on itself. *)

\* What a write of p leaves alone, and what is forgotten of p.
LEMMA OwnWriteKeepsGot ==
  ASSUME TablesInv, CallsTyped, NEW t \in Txns, GotHeld(t), NEW p \in Paths,
         Lock(t, {p, SpaceOf[p]}),
         \A q \in Paths \ {p} : newRows'[q] = newRows[q],
         got'[t] = got[t] \/ got'[t] = None,
         got[t] # None /\ got[t].path = p => got'[t] = None
  PROVE  GotHeld(t)'
<1> SUFFICES ASSUME got'[t] # None
             PROVE  /\ owner'[got[t].path] = t
                    /\ newRows'[got[t].path] = got[t].row
                    /\ Live(got[t].row)
  BY DEF GotHeld, Live
<1>1. got[t].path \in Paths \ {p} /\ got[t] # None
  BY DEF CallsTyped, Read
<1>2. owner'[got[t].path] = t
  BY <1>1, LockTyped, SpacesAssumption DEF GotHeld, TablesInv
<1> QED BY <1>1, <1>2 DEF GotHeld

\* What a burial does to rows.
LEMMA BuryEffect ==
  ASSUME TypeOK, NEW t \in Txns, NEW p \in Paths, Bury(t, p)
  PROVE  /\ Lock(t, {p, SpaceOf[p]})
         /\ \A q \in Paths \ {p} : newRows'[q] = newRows[q]
         /\ ~Live(newRows'[p])
BY DEF TypeOK, Bury, Stamped, Live

\* What an upsert does to rows.
LEMMA UpsertEffect ==
  ASSUME TypeOK, NEW t \in Txns, NEW p \in Paths, Upsert(t, p)
  PROVE  /\ Lock(t, {p, SpaceOf[p]})
         /\ \A q \in Paths \ {p} : newRows'[q] = newRows[q]
<1> DEFINE first == Incremented(newStamps[SpaceOf[p]])
<1>1. Stamped(p, FALSE, IF newRows[p] = NoRow THEN first ELSE UNION {Incremented(e) : e \in first})
  BY DEF Upsert
<1>2. \A epochs : Stamped(p, FALSE, epochs) =>
        \A q \in Paths \ {p} : newRows'[q] = newRows[q]
  BY DEF TypeOK, Stamped
<1> QED BY <1>1, <1>2 DEF Upsert

\* A transaction keeps what it has read or forgets it, and forgets what it
\* changes.
LEMMA ForgetEffect ==
  ASSUME CallsTyped, NEW t \in Txns, NEW p \in Paths, Forget(t, p)
  PROVE  /\ got'[t] = got[t] \/ got'[t] = None
         /\ got[t] # None /\ got[t].path = p => got'[t] = None
BY DEF CallsTyped, Forget

\* Its own steps keep what it has read with a lock.
LEMMA StepKeepsGot ==
  ASSUME TablesInv, CallsTyped, NEW t \in Txns, GotHeld(t), StepOf(t)
  PROVE  GotHeld(t)'
<1> USE SpacesAssumption
<1>a. TypeOK
  BY TypesSplit DEF TablesInv
<1>b. ASSUME got'[t] = got[t], UNCHANGED <<latest, owner>> PROVE GotHeld(t)'
  BY <1>b DEF GotHeld, latest, Live
<1>c. ASSUME got'[t] = None PROVE GotHeld(t)'
  BY <1>c DEF GotHeld
<1>1. CASE Begin(t)  BY <1>1, <1>b DEF Begin
<1>2. CASE DeleteNested(t)  BY <1>2, <1>b DEF DeleteNested
<1>3. CASE ListAll(t)  BY <1>3, <1>b DEF ListAll
<1>4. CASE Commit(t)  BY <1>4, <1>c DEF Commit, Finish, CallsTyped
<1>5. CASE Rollback(t)  BY <1>5, <1>c DEF Rollback, Finish, CallsTyped
<1>6. ASSUME NEW p \in Paths, GetForUpdate(t, p) PROVE GotHeld(t)'
  <2>1. /\ owner'[p] = t /\ newRows' = newRows
        /\ got'[t] = [path |-> p, row |-> newRows[p]]
    BY <1>6, LockTyped DEF GetForUpdate, TablesInv, CallsTyped, latest
  <2>2. owner[p] = Free \/ owner[p] = t
    BY <1>6 DEF GetForUpdate, Lock
  <2>3. Live(newRows[p])
    BY <1>6, <2>2, Found DEF GetForUpdate
  <2> QED BY <2>1, <2>3 DEF GotHeld, Live
<1>7. ASSUME NEW p \in Paths, CreateStart(t, p) PROVE GotHeld(t)'
  BY <1>7, <1>b DEF CreateStart
<1>8. ASSUME NEW p \in Paths, CreateInsert(t, p) PROVE GotHeld(t)'
  <2>1. got' = got
    BY <1>8 DEF CreateInsert
  <2>2. CASE FireOnly(t, p)
    <3>1. newRows' = newRows /\ Lock(t, {p, SpaceOf[p]})
      BY <2>2 DEF FireOnly
    <3>2. \A k \in Paths : owner[k] = t => owner'[k] = t
      BY <3>1, LockTyped DEF TablesInv
    <3>3. got[t] # None => got[t].path \in Paths
      BY DEF CallsTyped, Read
    <3> QED BY <2>1, <3>1, <3>2, <3>3 DEF GotHeld, Live
  <2>3. CASE ~Live(newRows[p]) /\ Upsert(t, p)
    <3>1. ~(got[t] # None /\ got[t].path = p)
      BY <2>3 DEF GotHeld
    <3> QED BY <1>a, <2>1, <2>3, <3>1, UpsertEffect, OwnWriteKeepsGot
  <2> QED BY <1>8, <2>2, <2>3 DEF CreateInsert
<1>9. ASSUME NEW p \in Paths, Update(t, p) PROVE GotHeld(t)'
  BY <1>9, <1>a, UpsertEffect, ForgetEffect, OwnWriteKeepsGot DEF Update
<1>10. ASSUME NEW p \in Paths, Delete(t, p) PROVE GotHeld(t)'
  BY <1>10, <1>a, BuryEffect, ForgetEffect, OwnWriteKeepsGot DEF Delete
<1>11. ASSUME NEW p \in Paths, DeleteRow(t, p) PROVE GotHeld(t)'
  <2>1. CASE Bury(t, p) /\ Forget(t, p)
    BY <2>1, <1>a, BuryEffect, ForgetEffect, OwnWriteKeepsGot
  <2>2. CASE UNCHANGED <<latest, owner, got>>
    BY <2>2, <1>b
  <2> QED BY <1>11, <2>1, <2>2 DEF DeleteRow
<1>12. ASSUME NEW S \in SUBSET Paths, DeleteAll(t, S) PROVE GotHeld(t)'
  BY <1>12, <1>b DEF DeleteAll
<1>13. ASSUME NEW s \in Polled, ModTime(t, s) PROVE GotHeld(t)'
  BY <1>13, <1>b DEF ModTime
<1> QED
  BY <1>1, <1>2, <1>3, <1>4, <1>5, <1>6, <1>7, <1>8, <1>9, <1>10, <1>11, <1>12, <1>13
  DEF StepOf

\* Its own steps create nothing behind the back of Create.
LEMMA StepKeepsCreates ==
  ASSUME TablesInv, CallsTyped, NEW t \in Txns, CreatesAbsent(t), StepOf(t)
  PROVE  CreatesAbsent(t)'
<1> USE SpacesAssumption
<1>a. TypeOK
  BY TypesSplit DEF TablesInv
<1>b. ASSUME todo'[t].create = todo[t].create, UNCHANGED <<latest, owner>> PROVE CreatesAbsent(t)'
  BY <1>b DEF CreatesAbsent, latest, Live
<1>c. ASSUME todo'[t].create = {} PROVE CreatesAbsent(t)'
  BY <1>c DEF CreatesAbsent
<1>d. ASSUME Call(t) PROVE todo[t].create = {}
  BY <1>d DEF Call, Ready, NothingToDo
<1>1. CASE Begin(t)  BY <1>1, <1>b DEF Begin
<1>2. CASE DeleteNested(t)
  <2>1. todo'[t].create = todo[t].create
    BY <1>2 DEF DeleteNested, CallsTyped, Todo
  <2> QED BY <1>2, <2>1, <1>b DEF DeleteNested
<1>3. CASE ListAll(t)  BY <1>3, <1>b DEF ListAll
<1>4. CASE Commit(t)  BY <1>4, <1>c DEF Commit, Finish, CallsTyped, NothingToDo
<1>5. CASE Rollback(t)  BY <1>5, <1>c DEF Rollback, Finish, CallsTyped, NothingToDo
<1>6. ASSUME NEW p \in Paths, GetForUpdate(t, p) PROVE CreatesAbsent(t)'
  BY <1>6, <1>c, <1>d DEF GetForUpdate
<1>7. ASSUME NEW p \in Paths, CreateStart(t, p) PROVE CreatesAbsent(t)'
  <2>1. todo'[t].create = {p} /\ UNCHANGED <<latest, owner>> /\ ~Live(RowFor(t, p))
    BY <1>7 DEF CreateStart, CallsTyped, Todo
  <2> QED BY <2>1, Found DEF CreatesAbsent, latest, Live
<1>8. ASSUME NEW p \in Paths, CreateInsert(t, p) PROVE CreatesAbsent(t)'
  BY <1>8, <1>c DEF CreateInsert, CallsTyped, Todo
<1>9. ASSUME NEW p \in Paths, Update(t, p) PROVE CreatesAbsent(t)'
  BY <1>9, <1>c, <1>d DEF Update
<1>10. ASSUME NEW p \in Paths, Delete(t, p) PROVE CreatesAbsent(t)'
  <2>1. todo'[t].create = todo[t].create
    BY <1>10 DEF Delete, CallsTyped, Todo
  <2> QED BY <1>10, <2>1, <1>c, <1>d DEF Delete
<1>11. ASSUME NEW p \in Paths, DeleteRow(t, p) PROVE CreatesAbsent(t)'
  <2>1. todo'[t].create = todo[t].create /\ todo[t].create \subseteq Paths
    BY <1>11 DEF DeleteRow, CallsTyped, Todo
  <2>2. CASE Bury(t, p)
    <3>1. /\ Lock(t, {p, SpaceOf[p]})
          /\ \A q \in Paths \ {p} : newRows'[q] = newRows[q]
          /\ ~Live(newRows'[p])
      BY <1>a, <2>2, BuryEffect
    <3>2. \A q \in Paths \ {p} : owner'[q] = owner[q]
      BY <3>1, LockTyped DEF TablesInv
    <3>3. ASSUME NEW q \in todo[t].create, owner'[q] = t PROVE ~Live(newRows'[q])
      <4>1. CASE q = p
        BY <3>1, <4>1
      <4>2. CASE q # p
        BY <2>1, <3>1, <3>2, <3>3, <4>2 DEF CreatesAbsent
      <4> QED BY <4>1, <4>2
    <3> QED BY <2>1, <3>3 DEF CreatesAbsent, Live
  <2>3. CASE UNCHANGED <<latest, owner, got>>
    BY <2>1, <2>3, <1>b
  <2> QED BY <1>11, <2>2, <2>3 DEF DeleteRow
<1>12. ASSUME NEW S \in SUBSET Paths, DeleteAll(t, S) PROVE CreatesAbsent(t)'
  <2>1. todo'[t].create = todo[t].create
    BY <1>12 DEF DeleteAll, CallsTyped, Todo
  <2> QED BY <1>12, <2>1, <1>c, <1>d DEF DeleteAll
<1>13. ASSUME NEW s \in Polled, ModTime(t, s) PROVE CreatesAbsent(t)'
  BY <1>13, <1>b DEF ModTime
<1> QED
  BY <1>1, <1>2, <1>3, <1>4, <1>5, <1>6, <1>7, <1>8, <1>9, <1>10, <1>11, <1>12, <1>13
  DEF StepOf

\* What a transaction is listing stays right while it writes itself, and the
\* two statements of a listing find what is right.
LEMMA StepKeepsPoll ==
  ASSUME TablesInv, TablesInv', CallsTyped, NEW t \in Txns, PollFits(t), StepOf(t)
  PROVE  PollFits(t)'
<1> USE SpacesAssumption
<1>a. TypeOK
  BY TypesSplit DEF TablesInv
<1>b. ASSUME poll'[t] = poll[t], ~Rollback(t) PROVE PollFits(t)'
  BY <1>a, <1>b, StepsOfTables, StepAdvances, PollStays
<1>c. ASSUME poll'[t] = None PROVE PollFits(t)'
  BY <1>c DEF PollFits
<1>1. CASE Rollback(t)  BY <1>1, <1>c DEF Rollback, Finish, CallsTyped
<1>2. CASE ~Rollback(t)
  <2>1. CASE Begin(t)  BY <1>2, <2>1, <1>b DEF Begin
  <2>2. CASE DeleteNested(t)  BY <1>2, <2>2, <1>b DEF DeleteNested, Continue
  <2>3. CASE ListAll(t)
    <3> DEFINE list == {<<p, RowFor(t, p).modTime>> :
                          p \in {p \in Paths : SpaceOf[p] = poll[t].space /\ Live(RowFor(t, p))}}
    <3>1. poll[t] # None /\ poll[t] \in List /\ poll'[t] = [poll[t] EXCEPT !.list = list]
      BY <2>3 DEF ListAll, CallsTyped
    <3>2. poll'[t].space = poll[t].space /\ poll'[t].etag = poll[t].etag /\ poll'[t].list = list
      BY <3>1 DEF List
    <3>3. UNCHANGED <<rows, newRows, stamps, newStamps, owner>>
      BY <2>3 DEF ListAll, Call, committed, latest
    <3>4. poll[t].etag <= StampFor(t, poll[t].space)
      BY <3>1 DEF PollFits
    <3>5. ASSUME NEW p \in Paths, SpaceOf[p] = poll'[t].space
          PROVE  Shows(poll'[t], p, RowFor(t, p))
      <4>1. CASE Live(RowFor(t, p))
        <5>1. {e \in list : e[1] = p} = {<<p, RowFor(t, p).modTime>>}
          BY <3>2, <3>5, <4>1
        <5> QED BY <3>2, <4>1, <5>1 DEF Shows
      <4>2. CASE ~Live(RowFor(t, p))
        <5>1. {e \in list : e[1] = p} = {}
          BY <4>2
        <5> QED BY <3>2, <4>2, <5>1 DEF Shows
      <4> QED BY <4>1, <4>2
    <3> HIDE DEF list
    <3> QED BY <3>2, <3>3, <3>4, <3>5 DEF PollFits, Shows, RowFor, StampFor, Live
  <2>4. CASE Commit(t)  BY <2>4, <1>c DEF Commit, Finish, CallsTyped
  <2>6. CASE \E p \in Paths : GetForUpdate(t, p)  BY <1>2, <2>6, <1>b DEF GetForUpdate
  <2>7. CASE \E p \in Paths : CreateStart(t, p)  BY <1>2, <2>7, <1>b DEF CreateStart
  <2>8. CASE \E p \in Paths : CreateInsert(t, p)  BY <1>2, <2>8, <1>b DEF CreateInsert, Continue
  <2>9. CASE \E p \in Paths : Update(t, p)  BY <1>2, <2>9, <1>b DEF Update
  <2>10. CASE \E p \in Paths : Delete(t, p)  BY <1>2, <2>10, <1>b DEF Delete
  <2>11. CASE \E p \in Paths : DeleteRow(t, p)  BY <1>2, <2>11, <1>b DEF DeleteRow, Continue
  <2>12. CASE \E S \in SUBSET Paths : DeleteAll(t, S)  BY <1>2, <2>12, <1>b DEF DeleteAll
  <2>13. ASSUME NEW s \in Polled, ModTime(t, s) PROVE PollFits(t)'
    <3>1. s \in Spaces /\ StampFor(t, s) \in Nat
      BY PolledAssumption, Found
    <3>2. poll'[t] = [space |-> s, etag |-> StampFor(t, s), list |-> None]
      BY <2>13 DEF ModTime, CallsTyped
    <3>3. UNCHANGED <<rows, newRows, stamps, newStamps, owner>>
      BY <2>13 DEF ModTime, Call, committed, latest
    <3>4. StampFor(t, s)' = StampFor(t, s)
      BY <3>3 DEF StampFor
    <3> QED BY <3>1, <3>2, <3>4 DEF PollFits
  <2> QED
    BY <1>2, <2>1, <2>2, <2>3, <2>4, <2>6, <2>7, <2>8, <2>9, <2>10, <2>11, <2>12, <2>13
    DEF StepOf
<1> QED BY <1>1, <1>2

\* What a client was answered stays right: an answer is what a transaction that
\* commits has found, and what is committed later has newer epochs.
LEMMA StepKeepsSeen ==
  ASSUME TablesInv, CallsTyped, SeenFits, NEW t \in Txns, PollFits(t), StepOf(t)
  PROVE  SeenFits'
<1> USE SpacesAssumption
<1>a. TypeOK /\ TableStep(t)
  BY TypesSplit, StepsAreTableSteps DEF TablesInv
<1>1. CASE seen' = seen
  <2> SUFFICES ASSUME seen # None
               PROVE  /\ seen.etag <= stamps'[seen.space]
                      /\ seen.list # None
                      /\ \A p \in Paths : SpaceOf[p] = seen.space => Shows(seen, p, rows'[p])
    BY <1>1 DEF SeenFits, Shows
  <2>1. seen \in List /\ seen.space \in Spaces /\ seen.etag \in Nat
    BY DEF CallsTyped, List
  <2>2. TablesAdvance
    BY <1>a, StepAdvancesTables
  <2>3. stamps[seen.space] \in Nat /\ stamps'[seen.space] \in Nat
    BY <1>a, <2>1, StepKeepsTables DEF TablesInv, TablesTyped
  <2>4. seen.etag <= stamps[seen.space] /\ stamps[seen.space] <= stamps'[seen.space]
    BY <2>1, <2>2 DEF SeenFits, TablesAdvance
  <2>5. ASSUME NEW p \in Paths, SpaceOf[p] = seen.space
        PROVE  Shows(seen, p, rows'[p])
    <3>1. CASE rows'[p] = rows[p]
      BY <2>5, <3>1 DEF SeenFits
    <3>2. CASE rows'[p] # rows[p]
      <4>1. rows'[p] \in Row /\ stamps[seen.space] < rows'[p].modTime
        BY <2>2, <2>5, <3>2 DEF TablesAdvance
      <4>2. rows'[p].modTime \in Nat
        BY <4>1 DEF Row
      <4>3. ~(rows'[p].modTime <= seen.etag)
        BY <2>1, <2>3, <2>4, <4>1, <4>2
      <4> QED BY <4>3 DEF Shows
    <3> QED BY <3>1, <3>2
  <2> QED BY <2>1, <2>3, <2>4, <2>5 DEF SeenFits
<1>2. CASE seen' # seen
  <2>1. Commit(t)
    BY <1>2 DEF StepOf, Begin, DeleteNested, ListAll, Rollback, GetForUpdate, CreateStart,
                CreateInsert, Update, Delete, DeleteRow, DeleteAll, ModTime, Call, Continue
  <2>2. seen' = poll[t] /\ poll[t] # None /\ poll[t].list # None
    BY <1>2, <2>1 DEF Commit, Answers
  <2>3. /\ \A p \in Paths : rows'[p] = RowFor(t, p)
        /\ \A s \in Spaces : stamps'[s] = StampFor(t, s)
    BY <2>1 DEF Commit
  <2>4. poll[t].space \in Spaces
    BY <2>2 DEF CallsTyped, List
  <2> QED BY <2>2, <2>3, <2>4 DEF SeenFits, PollFits, Shows
<1> QED BY <1>1, <1>2

-----------------------------------------------------------------------------
(* The invariant, and what follows from it. *)

\* At the start no row exists, nothing is locked and no transaction has begun.
LEMMA InitInv == Init => Inv
<1> SUFFICES ASSUME Init PROVE Inv
  OBVIOUS
<1> USE SpacesAssumption DEF Init
<1>1. TablesTyped /\ CallsTyped
  BY DEF TablesTyped, CallsTyped, NothingToDo, Todo
<1>2. LocksCover /\ WritesAhead /\ StampsBound /\ EpochsDiffer
  BY DEF LocksCover, WritesAhead, StampsBound, EpochsDiffer, Differ
<1>3. SeenFits /\ \A u \in Txns : TxnInv(u)
  BY DEF SeenFits, TxnInv, GotHeld, CreatesAbsent, PollFits, NothingToDo
<1> QED BY <1>1, <1>2, <1>3 DEF Inv, TablesInv

\* Every step of every transaction keeps it, and so does a step of none.
LEMMA StepKeepsInv == Inv /\ [Next]_vars => Inv'
<1> SUFFICES ASSUME Inv, [Next]_vars PROVE Inv'
  OBVIOUS
<1>1. CASE Next
  <2>1. PICK t \in Txns : StepOf(t)
    BY <1>1, NextIsStep
  <2>2. TypeOK /\ TableStep(t)
    BY <2>1, TypesSplit, StepsAreTableSteps DEF Inv, TablesInv
  <2>3. TablesInv'
    BY <2>2, StepKeepsTables DEF Inv
  <2>4. CallsTyped'
    BY <2>1, StepKeepsCallsTyped DEF Inv
  <2>5. SeenFits'
    BY <2>1, StepKeepsSeen DEF Inv, TxnInv
  <2>6. TxnInv(t)'
    <3>1. GotHeld(t)'
      BY <2>1, StepKeepsGot DEF Inv, TxnInv
    <3>2. CreatesAbsent(t)'
      BY <2>1, StepKeepsCreates DEF Inv, TxnInv
    <3>3. PollFits(t)'
      BY <2>1, <2>3, StepKeepsPoll DEF Inv, TxnInv
    <3> QED BY <3>1, <3>2, <3>3 DEF TxnInv
  <2>7. ASSUME NEW u \in Txns \ {t} PROVE TxnInv(u)'
    BY <2>1, <2>2, <2>3, <2>7, OthersKeepTxnInv DEF Inv
  <2>8. \A u \in Txns : TxnInv(u)'
    BY <2>6, <2>7
  <2> QED BY <2>3, <2>4, <2>5, <2>8 DEF Inv
<1>2. CASE UNCHANGED vars
  <2> USE <1>2 DEF Inv, vars, committed, latest
  <2>1. TablesInv'
    BY DEF TablesInv, TablesTyped, LocksCover, WritesAhead, StampsBound, EpochsDiffer, Differ
  <2>2. CallsTyped'
    BY DEF CallsTyped
  <2>3. SeenFits'
    BY DEF SeenFits, Shows, Live
  <2>4. ASSUME NEW u \in Txns PROVE TxnInv(u)'
    <3>1. GotHeld(u)' /\ CreatesAbsent(u)'
      BY DEF TxnInv, GotHeld, CreatesAbsent, Live
    <3>2. PollFits(u)'
      BY DEF TxnInv, PollFits, Shows, RowFor, StampFor, Live
    <3> QED BY <3>1, <3>2 DEF TxnInv
  <2> QED BY <2>1, <2>2, <2>3, <2>4
<1> QED BY <1>1, <1>2

\* The tables, the locks and what every transaction relies on agree in every
\* state, however the statements of transactions interleave.
THEOREM PgInvariant == Spec => []Inv
BY InitInv, StepKeepsInv, PTL DEF Spec

\* Every variable has its type: what a statement writes is a row, a timestamp or
\* a listing, although the types of a locked read depend on the locks.
THEOREM PgTypeCorrect == Spec => []TypeOK
<1>1. Inv => TypeOK
  BY TypesSplit DEF Inv, TablesInv
<1> QED BY <1>1, PgInvariant, PTL

\* No two objects of a namespace ever share an epoch and none is ahead of its
\* namespace, so the unique index over path and last_modified fails no statement
\* (storage_timestamps_increment, storage_objects_increment).
THEOREM PgEpochsSound == Spec => []EpochsSound
<1>1. Inv => EpochsSound
  BY TablesSound DEF Inv
<1> QED BY <1>1, PgInvariant, PTL

\* A client that was answered a listing and its ETag misses no later change,
\* although ModTime and ListAll are two statements.
THEOREM PgPollsSound == Spec => []PollsSound
<1>1. Inv => PollsSound
  BY DEF Inv, SeenFits, Shows, PollsSound
<1> QED BY <1>1, PgInvariant, PTL

\* What Get has read FOR UPDATE is the latest version until its own transaction
\* changes it.
THEOREM PgLockedReadStands == Spec => []LockedReadStands
<1>1. Inv => LockedReadStands
  BY DEF Inv, TxnInv, GotHeld, LockedReadStands
<1> QED BY <1>1, PgInvariant, PTL

\* A transaction that is about to create an object and does not, or no longer is,
\* leaves a live one alone.
LEMMA StepOverwritesNothing ==
  ASSUME Inv, [Next]_vars, NEW u \in Txns, NEW p \in todo[u].create \ todo'[u].create,
         Live(newRows[p])
  PROVE  newRows'[p] = newRows[p]
<1>0. p \in Paths /\ TypeOK
  BY TypesSplit DEF Inv, TablesInv, CallsTyped, Todo
<1>1. PICK t \in Txns : StepOf(t)
  BY NextIsStep DEF vars
<1>2. t = u
  BY <1>1, OthersStill DEF Inv
<1>3. todo[u].create # {} /\ ~Call(u)
  BY DEF Call, Ready, NothingToDo
<1>4. CASE CreateInsert(u, p)
  BY <1>4, FireOnlyFires DEF CreateInsert, FireOnly
<1>5. CASE Rollback(u)
  <2>1. owner[p] # u
    BY <1>0 DEF Inv, TxnInv, CreatesAbsent
  <2> QED BY <1>0, <1>5, <2>1 DEF Rollback
<1>6. CASE ~CreateInsert(u, p) /\ ~Rollback(u)
  <2>1. ~Commit(u)
    BY <1>3 DEF Commit, Ready, NothingToDo
  <2>2. ASSUME NEW q \in Paths, CreateInsert(u, q) PROVE FALSE
    <3>1. q = p
      BY <2>2 DEF CreateInsert, Inv, TxnInv, CreatesAbsent
    <3> QED BY <1>6, <2>2, <3>1
  <2>3. ASSUME NEW q \in Paths, DeleteRow(u, q) PROVE FALSE
    BY <1>0, <2>3 DEF DeleteRow, Inv, CallsTyped, Todo
  <2>4. ASSUME DeleteNested(u) PROVE FALSE
    BY <1>0, <2>4 DEF DeleteNested, Inv, CallsTyped, Todo
  <2> QED
    BY <1>1, <1>2, <1>3, <1>6, <2>1, <2>2, <2>3, <2>4
    DEF StepOf, Begin, ListAll, GetForUpdate, CreateStart, Update, Delete, DeleteAll, ModTime
<1> QED BY <1>4, <1>5, <1>6

\* Create never overwrites an object that another transaction has created between
\* its Exists and its INSERT: the condition of ON CONFLICT finds it.
THEOREM PgCreateOverwritesNothing == Spec => CreateOverwritesNothing
<1> DEFINE Kept == \A t \in Txns : \A p \in todo[t].create \ todo'[t].create :
                     Live(newRows[p]) => newRows'[p] = newRows[p]
<1>1. Inv /\ [Next]_vars => [Kept]_vars
  BY StepOverwritesNothing
<1>2. Spec => [][Kept]_vars
  BY <1>1, PgInvariant, PTL DEF Spec
<1> QED BY <1>2 DEF CreateOverwritesNothing
=============================================================================
