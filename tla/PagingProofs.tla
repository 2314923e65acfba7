---------------------------- MODULE PagingProofs ----------------------------
(***************************************************************************)
(* Theorems about Query and Paging: the two storage backends select and    *)
(* sort alike, whatever the values and the parameters; a token deletes one *)
(* page; and in the order of last change a listing and a bulk deletion are *)
(* complete, for any IDs, page sizes, writers, lost and repeated requests. *)
(***************************************************************************)
EXTENDS Paging, FiniteSetTheorems, SequenceTheorems, TLAPS

(* Values.  A scalar is told by its type and n. *)

LEMMA ScalarFacts ==
  /\ \A v \in Scalar : v.type \in Types /\ v.n \in Int
  /\ \A v, w \in Scalar : v = w <=> v.type = w.type /\ v.n = w.n
  /\ \A v \in Scalar : v = Null <=> v.type = "null"
  /\ \A v \in Scalar : v.type \in {"false", "true", "null"} => v.n = 0
<1>1. \A v, w \in Value : v = w <=> v.type = w.type /\ v.n = w.n
  BY DEF Value
<1>2. Null \in Value
  BY DEF Null, Value, Types
<1> QED BY <1>1, <1>2 DEF Scalar, Value, Null

LEMMA RankFacts ==
  /\ Rank["string"] = 1 /\ Rank["number"] = 2 /\ Rank["false"] = 3 /\ Rank["true"] = 4
  /\ Rank["null"] = 5
  /\ JsonbRank["null"] = 0 /\ JsonbRank["string"] = 1 /\ JsonbRank["number"] = 2
  /\ JsonbRank["false"] = 3 /\ JsonbRank["true"] = 3
BY DEF Rank, JsonbRank

\* Below null, which is in no column, the two orders are one.
LEMMA OrdersAlike ==
  ASSUME NEW v \in Scalar, NEW w \in Scalar, v # Null, w # Null
  PROVE  /\ Compare(v, w) < 0 <=> JsonbBelow(v, w)
         /\ Compare(v, w) > 0 <=> JsonbBelow(w, v)
         /\ Compare(v, w) > -1 <=> ~JsonbBelow(v, w)
         /\ Compare(v, w) < 1 <=> ~JsonbBelow(w, v)
<1>1. v.type \in {"string", "number", "false", "true"} /\ w.type \in {"string", "number", "false", "true"}
  BY ScalarFacts DEF Types
<1>2. v.n \in Int /\ w.n \in Int
  BY ScalarFacts
<1>3. CASE v.type = w.type
  <2>1. Compare(v, w) = v.n - w.n
    BY <1>3 DEF Compare
  <2>2. JsonbBelow(v, w) <=> v.n < w.n
    BY <1>1, <1>2, <1>3, RankFacts DEF JsonbBelow
  <2>3. JsonbBelow(w, v) <=> w.n < v.n
    BY <1>1, <1>2, <1>3, RankFacts DEF JsonbBelow
  <2> QED BY <1>2, <2>1, <2>2, <2>3
<1>4. CASE v.type # w.type
  <2>1. Compare(v, w) = Rank[v.type] - Rank[w.type]
    BY <1>4 DEF Compare
  <2>2. JsonbBelow(v, w) <=> Rank[v.type] < Rank[w.type]
    BY <1>1, <1>4, RankFacts DEF JsonbBelow
  <2>3. JsonbBelow(w, v) <=> Rank[w.type] < Rank[v.type]
    BY <1>1, <1>4, RankFacts DEF JsonbBelow
  <2>4. Rank[v.type] \in Int /\ Rank[w.type] \in Int
    BY <1>1, RankFacts
  <2> QED BY <2>1, <2>2, <2>3, <2>4
<1> QED BY <1>3, <1>4

\* In memory a missing field is greater than every value.
LEMMA NullLast ==
  ASSUME NEW v \in Scalar
  PROVE  /\ Before(v, Null) <=> v # Null
         /\ ~Before(Null, v)
         /\ Compare(v, Null) < 0 <=> v # Null
         /\ ~(Compare(v, Null) > 0)
         /\ Compare(v, Null) > -1 <=> v = Null
         /\ Compare(v, Null) < 1
         /\ v # Null => /\ Compare(Null, v) > 0 /\ ~(Compare(Null, v) < 0)
                        /\ Compare(Null, v) > -1 /\ ~(Compare(Null, v) < 1)
<1>1. v.type \in Types /\ v.n \in Int /\ (v = Null <=> v.type = "null")
  BY ScalarFacts
<1>2. Null.type = "null" /\ Null.n = 0
  BY DEF Null
<1>3. CASE v = Null
  BY <1>1, <1>2, <1>3 DEF Compare, Before
<1>4. CASE v # Null
  <2>1. Rank[v.type] \in 1..4
    BY <1>1, <1>4, RankFacts DEF Types
  <2>2. Compare(v, Null) = Rank[v.type] - 5 /\ Compare(Null, v) = 5 - Rank[v.type]
    BY <1>1, <1>2, <1>4, RankFacts DEF Compare
  <2> QED BY <1>4, <2>1, <2>2 DEF Before
<1> QED BY <1>3, <1>4

-----------------------------------------------------------------------------
(* Filters. *)

LEMMA FilterFacts ==
  ASSUME NEW f \in Filter
  PROVE  /\ f.op \in Operators
         /\ f.values[1] \in Scalar /\ f.values[1] \in Given(f) /\ Given(f) \subseteq Scalar
         /\ f.op \notin {"in", "exclude"} => Given(f) = {f.values[1]}
         /\ f.op = "has" => f.values[1].type \in {"false", "true"}
<1>1. PICK n \in 1..MaxValues : f.values \in [1..n -> Values]
  BY DEF Filter
<1>2. n \in Nat /\ 1 \in 1..n /\ DOMAIN f.values = 1..n
  BY <1>1, ValuesAssumption
<1>3. f.op \in Operators /\ (f.op = "has" => f.values[1].type \in {"false", "true"})
  BY DEF Filter
<1>4. Given(f) \subseteq Scalar /\ f.values[1] \in Given(f)
  BY <1>1, <1>2, ValuesAssumption DEF Given
<1>5. ASSUME f.op \notin {"in", "exclude"} PROVE Given(f) = {f.values[1]}
  <2>1. Len(f.values) = 1
    BY <1>5 DEF Filter
  <2>2. Len(f.values) = n
    BY <1>1, <1>2
  <2> QED BY <1>2, <2>1, <2>2 DEF Given
<1> QED BY <1>3, <1>4, <1>5

LEMMA LogicFacts ==
  /\ Not("true") = "false" /\ Not("false") = "true" /\ Not("unknown") = "unknown"
  /\ \A v : v = Null => IsNull(v) = "true"
  /\ \A v : v # Null => IsNull(v) = "false"
BY DEF Not, IsNull

\* What a comparison selects: of the missing values all or none.
LEMMA ComparisonSelects ==
  ASSUME NEW v, NEW holds \in BOOLEAN, NEW required \in BOOLEAN
  PROVE  Comparison(v, holds, required) = "true"
           <=> IF v = Null THEN ~required ELSE holds
<1>1. CASE v = Null /\ required
  BY <1>1 DEF Comparison, Compared, IsNull, Not, And
<1>2. CASE v = Null /\ ~required
  BY <1>2 DEF Comparison, Compared, IsNull, Not, And, Or
<1>3. CASE v # Null /\ required
  BY <1>3 DEF Comparison, Compared, IsNull, Not, And
<1>4. CASE v # Null /\ ~required
  BY <1>4 DEF Comparison, Compared, IsNull, Not, And, Or
<1> QED BY <1>1, <1>2, <1>3, <1>4

LEMMA NullFilter == \A v : Not(IsNull(v)) = "true" <=> v # Null
BY DEF Not, IsNull

\* Every operator selects the same in SQL as in memory, of any scalar.
LEMMA FiltersAlike ==
  ASSUME NEW v \in Scalar, NEW f \in Filter
  PROVE  Match(v, f) <=> SqlFilter(v, f) = "true"
<1> DEFINE w == f.values[1]
<1>1. /\ f.op \in Operators /\ w \in Scalar /\ w \in Given(f) /\ Given(f) \subseteq Scalar
      /\ f.op \notin {"in", "exclude"} => Given(f) = {w}
      /\ f.op = "has" => w.type \in {"false", "true"}
  BY FilterFacts
<1>2. f.op \notin {"in", "exclude"} => (Null \in Given(f) <=> w = Null)
  BY <1>1
<1>3. w # Null /\ v # Null
        => /\ Compare(v, w) < 0 <=> JsonbBelow(v, w)
           /\ Compare(v, w) > 0 <=> JsonbBelow(w, v)
           /\ Compare(v, w) > -1 <=> ~JsonbBelow(v, w)
           /\ Compare(v, w) < 1 <=> ~JsonbBelow(w, v)
  BY <1>1, OrdersAlike
<1>4. /\ w = Null => /\ Compare(v, w) < 0 <=> v # Null
                     /\ ~(Compare(v, w) > 0)
                     /\ Compare(v, w) > -1 <=> v = Null
                     /\ Compare(v, w) < 1
      /\ v = Null /\ w # Null => /\ Compare(v, w) > 0 /\ ~(Compare(v, w) < 0)
                                 /\ Compare(v, w) > -1 /\ ~(Compare(v, w) < 1)
  BY <1>1, NullLast
<1> HIDE DEF w
<1>5. CASE f.op = "has"
  BY <1>1, <1>5, NullFilter DEF Match, SqlFilter, IsNull, w
<1>6. CASE f.op = "eq"
  <2>1. CASE w = Null
    BY <1>2, <1>6, <2>1 DEF Match, SqlFilter, IsNull, w
  <2>2. CASE w # Null
    <3>1. SqlFilter(v, f) = Comparison(v, v = w, TRUE)
      BY <1>2, <1>6, <2>2 DEF SqlFilter, w
    <3>2. Match(v, f) <=> v = w
      BY <1>6 DEF Match, w
    <3> QED BY <2>2, <3>1, <3>2, ComparisonSelects
  <2> QED BY <2>1, <2>2
<1>7. CASE f.op = "not"
  <2>1. CASE w = Null
    BY <1>2, <1>7, <2>1, NullFilter DEF Match, SqlFilter, w
  <2>2. CASE w # Null
    <3>1. SqlFilter(v, f) = Comparison(v, ~(v = w), FALSE)
      BY <1>2, <1>7, <2>2 DEF SqlFilter, w
    <3>2. Match(v, f) <=> v # w
      BY <1>7 DEF Match, w
    <3> QED BY <2>2, <3>1, <3>2, ComparisonSelects
  <2> QED BY <2>1, <2>2
<1>8. CASE f.op = "gt"
  <2>0. Match(v, f) <=> Compare(v, w) > 0
    BY <1>8 DEF Match, w
  <2>1. CASE w = Null
    <3>1. SqlFilter(v, f) = "false"
      BY <1>2, <1>8, <2>1 DEF SqlFilter, w
    <3> QED BY <1>4, <2>0, <2>1, <3>1
  <2>2. CASE w # Null
    <3>1. SqlFilter(v, f) = Comparison(v, JsonbBelow(w, v), FALSE)
      BY <1>2, <1>8, <2>2 DEF SqlFilter, w
    <3>2. JsonbBelow(w, v) \in BOOLEAN
      BY DEF JsonbBelow
    <3>3. SqlFilter(v, f) = "true" <=> (v = Null \/ JsonbBelow(w, v))
      <4>1. Comparison(v, JsonbBelow(w, v), FALSE) = "true"
              <=> IF v = Null THEN ~FALSE ELSE JsonbBelow(w, v)
        BY <3>2, ComparisonSelects
      <4> QED BY <3>1, <4>1
    <3>4. CASE v = Null
      BY <1>4, <2>0, <2>2, <3>3, <3>4
    <3>5. CASE v # Null
      BY <1>3, <2>0, <2>2, <3>3, <3>5
    <3> QED BY <3>4, <3>5
  <2> QED BY <2>1, <2>2
<1>9. CASE f.op = "lt"
  <2>0. Match(v, f) <=> Compare(v, w) < 0
    BY <1>9 DEF Match, w
  <2>1. CASE w = Null
    <3>1. SqlFilter(v, f) = Not(IsNull(v))
      BY <1>2, <1>9, <2>1 DEF SqlFilter, w
    <3>2. CASE v = Null
      BY <1>4, <2>0, <2>1, <3>1, <3>2, NullFilter
    <3>3. CASE v # Null
      BY <1>4, <2>0, <2>1, <3>1, <3>3, NullFilter
    <3> QED BY <3>2, <3>3
  <2>2. CASE w # Null
    <3>1. SqlFilter(v, f) = Comparison(v, JsonbBelow(v, w), TRUE)
      BY <1>2, <1>9, <2>2 DEF SqlFilter, w
    <3>2. JsonbBelow(v, w) \in BOOLEAN
      BY DEF JsonbBelow
    <3>3. SqlFilter(v, f) = "true" <=> (v # Null /\ JsonbBelow(v, w))
      BY <3>1, <3>2, ComparisonSelects
    <3>4. CASE v = Null
      BY <1>4, <2>0, <2>2, <3>3, <3>4
    <3>5. CASE v # Null
      BY <1>3, <2>0, <2>2, <3>3, <3>5
    <3> QED BY <3>4, <3>5
  <2> QED BY <2>1, <2>2
<1>10. CASE f.op = "min"
  <2>0. Match(v, f) <=> Compare(v, w) > -1
    BY <1>10 DEF Match, w
  <2>1. CASE w = Null
    <3>1. SqlFilter(v, f) = IsNull(v)
      BY <1>2, <1>10, <2>1 DEF SqlFilter, w
    <3> QED BY <1>4, <2>0, <2>1, <3>1 DEF IsNull
  <2>2. CASE w # Null
    <3>1. SqlFilter(v, f) = Comparison(v, ~JsonbBelow(v, w), FALSE)
      BY <1>2, <1>10, <2>2 DEF SqlFilter, w
    <3>2. Comparison(v, ~JsonbBelow(v, w), FALSE) = "true"
            <=> IF v = Null THEN ~FALSE ELSE ~JsonbBelow(v, w)
      BY ComparisonSelects
    <3>3. CASE v = Null
      BY <1>4, <2>0, <2>2, <3>1, <3>2, <3>3
    <3>4. CASE v # Null
      BY <1>3, <2>0, <2>2, <3>1, <3>2, <3>4
    <3> QED BY <3>3, <3>4
  <2> QED BY <2>1, <2>2
<1>11. CASE f.op = "max"
  <2>0. Match(v, f) <=> Compare(v, w) < 1
    BY <1>11 DEF Match, w
  <2>1. CASE w = Null
    <3>1. SqlFilter(v, f) = "true"
      BY <1>2, <1>11, <2>1 DEF SqlFilter, w
    <3> QED BY <1>4, <2>0, <2>1, <3>1
  <2>2. CASE w # Null
    <3>1. SqlFilter(v, f) = Comparison(v, ~JsonbBelow(w, v), TRUE)
      BY <1>2, <1>11, <2>2 DEF SqlFilter, w
    <3>2. Comparison(v, ~JsonbBelow(w, v), TRUE) = "true" <=> (v # Null /\ ~JsonbBelow(w, v))
      BY ComparisonSelects
    <3>3. CASE v = Null
      BY <1>4, <2>0, <2>2, <3>1, <3>2, <3>3
    <3>4. CASE v # Null
      BY <1>3, <2>0, <2>2, <3>1, <3>2, <3>4
    <3> QED BY <3>3, <3>4
  <2> QED BY <2>1, <2>2
<1>12. CASE f.op = "in"
  <2>1. SqlFilter(v, f)
          = Comparison(v, \E x \in Given(f) : x # Null /\ v = x, Null \notin Given(f))
    BY <1>12 DEF SqlFilter
  <2>2. Match(v, f) <=> v \in Given(f)
    BY <1>12 DEF Match
  <2> QED BY <2>1, <2>2, ComparisonSelects
<1>13. CASE f.op = "exclude"
  <2>1. SqlFilter(v, f)
          = Comparison(v, \A x \in Given(f) : ~(x # Null /\ v = x), Null \in Given(f))
    BY <1>13 DEF SqlFilter
  <2>2. Match(v, f) <=> v \notin Given(f)
    BY <1>13 DEF Match
  <2>3. Comparison(v, \A x \in Given(f) : ~(x # Null /\ v = x), Null \in Given(f)) = "true"
          <=> IF v = Null THEN ~(Null \in Given(f)) ELSE \A x \in Given(f) : ~(x # Null /\ v = x)
    <3> DEFINE P == \A x \in Given(f) : ~(x # Null /\ v = x)
               R == Null \in Given(f)
    <3>1. P \in BOOLEAN /\ R \in BOOLEAN
      OBVIOUS
    <3> HIDE DEF P, R
    <3>2. Comparison(v, P, R) = "true" <=> IF v = Null THEN ~R ELSE P
      BY <3>1, ComparisonSelects
    <3> QED BY <3>2 DEF P, R
  <2> QED BY <2>1, <2>2, <2>3
<1> QED BY <1>1, <1>5, <1>6, <1>7, <1>8, <1>9, <1>10, <1>11, <1>12, <1>13 DEF Operators

LEMMA NothingSelectedApart == SelectedApart = {}
BY FiltersAlike, ValuesAssumption DEF SelectedApart

LEMMA SortsAlike ==
  ASSUME NEW v \in Scalar, NEW w \in Scalar PROVE SortedAlike(v, w)
<1>1. CASE v # Null /\ w # Null
  BY <1>1, OrdersAlike DEF SortedAlike, Before, SqlBefore
<1>2. CASE v = Null \/ w = Null
  BY <1>2, NullLast DEF SortedAlike, SqlBefore
<1> QED BY <1>1, <1>2

-----------------------------------------------------------------------------
(* Types. *)

Cursor == UNION {[S -> Value] : S \in SUBSET Fields}

Lister  == [state : {"idle", "paging", "done"}, cursor : Cursor, got : SUBSET Object]
Deleter == [state : {"idle", "paging", "done", "refused"}, token : Nat]

ObjectsOK == sort \in Sorts /\ limit \in Nat \ {0} /\ objs \in [Ids -> Object \cup {NoObject}]

LEMMA LiveFacts ==
  ASSUME objs \in [Ids -> Object \cup {NoObject}]
  PROVE  /\ Live \subseteq Object /\ IsFiniteSet(Live)
         /\ \A o \in Live : \E id \in Ids : o = objs[id] /\ objs[id] # NoObject
         /\ \A id \in Ids : objs[id] # NoObject => objs[id] \in Live
<1>1. IsFiniteSet({objs[id] : id \in Ids})
  <2> DEFINE at == [id \in Ids |-> objs[id]]
  <2>1. IsFiniteSet(Ids)
    BY ObjectsAssumption
  <2>2. at \in Surjection(Ids, {objs[id] : id \in Ids})
    BY DEF Surjection
  <2> QED BY <2>1, <2>2, FS_Surjection
<1> QED BY <1>1, FS_Subset DEF Live

LEMMA GetFacts ==
  ASSUME NEW o \in Object, NEW field
  PROVE  Get(o, field) \in Value
BY RanksAssumption, ValuesAssumption DEF Get, Object, Number, Scalar, Value, Types

LEMMA CursorFacts == NoCursor \in Cursor /\ \A o \in Object : sort \in Sorts => CursorOf(o) \in Cursor
<1>1. NoCursor \in [{} -> Value] /\ {} \in SUBSET Fields
  BY DEF NoCursor
<1>2. ASSUME NEW o \in Object, sort \in Sorts PROVE CursorOf(o) \in Cursor
  <2> DEFINE S == {g \in {sort[i].field : i \in DOMAIN sort} : Get(o, g) # Null}
  <2>1. sort \in Seq([field: Fields, descending: BOOLEAN])
    BY <1>2, SortAssumption
  <2>2. \A i \in DOMAIN sort : sort[i] \in [field: Fields, descending: BOOLEAN]
    <3>1. DOMAIN sort = 1..Len(sort)
      BY <2>1
    <3> QED BY <2>1, <3>1, ElementOfSeq
  <2>3. S \in SUBSET Fields
    BY <2>2
  <2>4. CursorOf(o) \in [S -> Value]
    BY GetFacts DEF CursorOf
  <2> QED BY <2>3, <2>4 DEF Cursor
<1> QED BY <1>1, <1>2 DEF Cursor

\* A page is the whole of what matches unless it has limit objects.
LEMMA PageFacts ==
  ASSUME NEW rows, IsFiniteSet(rows), limit \in Nat \ {0}, NEW page \in Page(rows)
  PROVE  /\ page \subseteq rows /\ Cardinality(page) \in Nat
         /\ HasMore(rows) => Cardinality(page) = limit
         /\ ~HasMore(rows) => page = rows
<1>1. page \subseteq rows /\ IsFiniteSet(page)
  BY FS_Subset DEF Page
<1>2. Cardinality(rows) \in Nat /\ Cardinality(page) \in Nat
  BY <1>1, FS_CardinalityType
<1>3. Cardinality(page) = IF limit < Cardinality(rows) THEN limit ELSE Cardinality(rows)
  BY DEF Page
<1>4. Cardinality(page) = Cardinality(rows) => page = rows
  BY <1>1, FS_Subset
<1> QED BY <1>1, <1>2, <1>3, <1>4 DEF HasMore

\* The objects that match a cursor.
Matching(cursor) == {o \in Live : Matches(cursor, o)}

LEMMA MatchingFinite == ObjectsOK => \A c : IsFiniteSet(Matching(c))
BY LiveFacts, FS_Subset DEF ObjectsOK, Matching

-----------------------------------------------------------------------------
(* The same objects in both backends. *)

LEMMA ObjectsStep == ASSUME ObjectsOK, [Next]_vars PROVE ObjectsOK'
<1> USE DEF ObjectsOK
<1>1. CASE Writes
  <2>1. ASSUME NEW id \in Ids, NEW num \in Ranks, NEW now \in 1..MaxTime, Put(id, num, now)
        PROVE  ObjectsOK'
    BY <2>1, BoundsAssumption DEF Put, Object
  <2>2. ASSUME NEW id \in Ids, Remove(id) PROVE ObjectsOK'
    BY <2>2 DEF Remove
  <2> QED BY <1>1, <2>1, <2>2 DEF Writes
<1>2. CASE Deletes
  BY <1>2 DEF Deletes, DeletePage
<1>3. CASE StartList \/ ListPage \/ StartDelete \/ DeleteRefused \/ \E token \in cached : Expire(token)
  BY <1>3 DEF StartList, ListPage, StartDelete, DeleteRefused, Expire
<1>4. CASE UNCHANGED vars
  BY <1>4 DEF vars
<1> QED BY <1>1, <1>2, <1>3, <1>4 DEF Next

\* Whatever values objects have, both backends filter and sort them alike
\* (memory/storage/filters.go, postgres/storage/query.go).
THEOREM SelectAlike == Spec => []BackendsSelectAlike
<1>1. Init => ObjectsOK
  BY LimitAssumption DEF Init, ObjectsOK
<1>2. ObjectsOK /\ [Next]_vars => ObjectsOK'
  BY ObjectsStep
<1>3. ObjectsOK => BackendsSelectAlike
  <2> SUFFICES ASSUME ObjectsOK, NEW o \in Live, NEW p \in Live
               PROVE  o.num \notin SelectedApart /\ SortedAlike(o.num, p.num)
    BY DEF BackendsSelectAlike
  <2>1. o.num \in Scalar /\ p.num \in Scalar
    BY LiveFacts, RanksAssumption, ValuesAssumption DEF ObjectsOK, Object
  <2> QED BY <2>1, NothingSelectedApart, SortsAlike
<1> QED BY <1>1, <1>2, <1>3, PTL DEF Spec

-----------------------------------------------------------------------------
(* One page for each token. *)

\* The nonce of a token is in the cache until its page is deleted.
Spends ==
  /\ issued \in Seq(Cursor) /\ spent \in Seq(Nat) /\ Len(spent) = Len(issued)
  /\ cached \subseteq 1..Len(issued)
  /\ \A n \in 1..Len(issued) : spent[n] <= 1 /\ (n \in cached => spent[n] = 0)

\* What a deleted page does.
LEMMA DeletePageFacts ==
  ASSUME NEW token, NEW heard \in BOOLEAN, DeletePage(token, heard)
  PROVE  LET rows == Matching(CursorOfToken(token)) IN
         /\ Spendable(token)
         /\ \E page \in Page(rows) :
              /\ objs' = [id \in Ids |-> IF objs[id] \in page THEN NoObject ELSE objs[id]]
              /\ epoch' = epoch + Cardinality(page)
              /\ HasMore(rows) =>
                   /\ \E last \in LastOf(page) : issued' = Append(issued, CursorOf(last))
                   /\ cached' = (cached \ {token}) \cup {Len(issued) + 1}
                   /\ spent' = Append(Counted(token), 0)
              /\ ~HasMore(rows) => /\ cached' = cached \ {token}
                                   /\ spent' = Counted(token) /\ issued' = issued
BY DEF DeletePage, Matching

LEMMA SpendsStep == ASSUME ObjectsOK, Spends, [Next]_vars PROVE Spends'
<1> USE DEF Spends
<1>1. ASSUME NEW token \in 0..Len(issued), NEW heard \in BOOLEAN, DeletePage(token, heard)
      PROVE  Spends'
  <2> DEFINE rows == Matching(CursorOfToken(token))
             counted == Counted(token)
  <2>1. PICK page \in Page(rows) :
          /\ HasMore(rows) =>
               /\ \E last \in LastOf(page) : issued' = Append(issued, CursorOf(last))
               /\ cached' = (cached \ {token}) \cup {Len(issued) + 1}
               /\ spent' = Append(counted, 0)
          /\ ~HasMore(rows) => /\ cached' = cached \ {token}
                               /\ spent' = counted /\ issued' = issued
    BY <1>1, DeletePageFacts
  <2>2. token = NoToken \/ token \in cached
    BY <1>1, DeletePageFacts DEF Spendable
  <2>3. /\ counted \in Seq(Nat) /\ Len(counted) = Len(issued)
        /\ \A n \in 1..Len(issued) : counted[n] <= 1 /\ (n \in cached \ {token} => counted[n] = 0)
    <3>1. CASE token = NoToken
      BY <3>1 DEF Counted
    <3>2. CASE token # NoToken
      <4>1. token \in cached /\ token \in 1..Len(spent) /\ spent[token] = 0
        BY <2>2, <3>2
      <4>2. counted = [spent EXCEPT ![token] = spent[token] + 1]
        BY <3>2 DEF Counted
      <4> QED BY <4>1, <4>2
    <3> QED BY <3>1, <3>2
  <2> HIDE DEF counted
  <2>4. CASE ~HasMore(rows)
    BY <2>1, <2>3, <2>4
  <2>5. CASE HasMore(rows)
    <3>1. PICK last \in LastOf(page) : issued' = Append(issued, CursorOf(last))
      BY <2>1, <2>5
    <3>2. last \in Object
      BY LiveFacts DEF LastOf, Page, Matching, ObjectsOK
    <3>3. CursorOf(last) \in Cursor
      BY <3>2, CursorFacts DEF ObjectsOK
    <3>4. issued' \in Seq(Cursor) /\ Len(issued') = Len(issued) + 1
      BY <3>1, <3>3
    <3>5. spent' \in Seq(Nat) /\ Len(spent') = Len(issued) + 1 /\ spent'[Len(issued) + 1] = 0
          /\ \A n \in 1..Len(issued) : spent'[n] = counted[n]
      <4>1. spent' = Append(counted, 0)
        BY <2>1, <2>5
      <4>2. counted \in Seq(Nat) /\ 0 \in Nat /\ Len(counted) = Len(issued)
        BY <2>3
      <4> QED BY <4>1, <4>2, AppendProperties
    <3>6. cached' = (cached \ {token}) \cup {Len(issued) + 1}
      BY <2>1, <2>5
    <3>7. Len(issued) \in Nat
      OBVIOUS
    <3>8. ASSUME NEW n \in 1..Len(issued')
          PROVE  spent'[n] <= 1 /\ (n \in cached' => spent'[n] = 0)
      <4>1. CASE n = Len(issued) + 1
        BY <3>5, <4>1
      <4>2. CASE n # Len(issued) + 1
        <5>1. n \in 1..Len(issued)
          BY <3>4, <3>7, <4>2
        <5> QED BY <2>3, <3>5, <3>6, <4>2, <5>1
      <4> QED BY <4>1, <4>2
    <3>9. cached' \subseteq 1..Len(issued')
      <4>1. \A n \in 1..Len(issued) : n \in 1..Len(issued')
        BY <3>4, <3>7
      <4>2. Len(issued) + 1 \in 1..Len(issued')
        BY <3>4, <3>7
      <4> QED BY <3>6, <4>1, <4>2
    <3> QED BY <3>4, <3>5, <3>8, <3>9
  <2> QED BY <2>4, <2>5
<1>2. CASE Writes \/ StartList \/ ListPage \/ StartDelete \/ DeleteRefused
  BY <1>2 DEF Writes, Put, Remove, StartList, ListPage, StartDelete, DeleteRefused
<1>3. CASE \E token \in cached : Expire(token)
  BY <1>3 DEF Expire
<1>4. CASE UNCHANGED vars
  BY <1>4 DEF vars
<1> QED BY <1>1, <1>2, <1>3, <1>4 DEF Next, Deletes

\* The order of values is total, across their types.
LEMMA BeforeOrder ==
  ASSUME NEW v \in Scalar, NEW w \in Scalar
  PROVE  /\ ~(Before(v, w) /\ Before(w, v))
         /\ Before(v, w) \/ Before(w, v) <=> v # w
         /\ \A x \in Scalar : Before(v, w) /\ Before(w, x) => Before(v, x)
<1>1. \A x, y \in Scalar : Before(x, y) <=> \/ Rank[x.type] < Rank[y.type]
                                            \/ x.type = y.type /\ x.n < y.n
  <2> TAKE x, y \in Scalar
  <2>1. x.type \in Types /\ y.type \in Types /\ x.n \in Int /\ y.n \in Int
    BY ScalarFacts
  <2>2. CASE x.type = y.type
    <3>1. Compare(x, y) = x.n - y.n
      BY <2>2 DEF Compare
    <3> QED BY <2>1, <2>2, <3>1, RankFacts DEF Before, Types
  <2>3. CASE x.type # y.type
    <3>1. Compare(x, y) = Rank[x.type] - Rank[y.type]
      BY <2>3 DEF Compare
    <3> QED BY <2>1, <2>3, <3>1, RankFacts DEF Before, Types
  <2> QED BY <2>2, <2>3
<1>2. \A x \in Scalar : x.type \in Types /\ x.n \in Int /\ Rank[x.type] \in 1..5
  BY ScalarFacts, RankFacts DEF Types
<1>3. \A x, y \in Scalar : Rank[x.type] = Rank[y.type] <=> x.type = y.type
  BY ScalarFacts, RankFacts DEF Types
<1>4. ~(Before(v, w) /\ Before(w, v)) /\ (Before(v, w) \/ Before(w, v) <=> v # w)
  <2>1. v = w <=> v.type = w.type /\ v.n = w.n
    BY ScalarFacts
  <2> QED BY <1>1, <1>2, <1>3, <2>1
<1>5. ASSUME NEW x \in Scalar, Before(v, w), Before(w, x) PROVE Before(v, x)
  BY <1>1, <1>2, <1>3, <1>5
<1> QED BY <1>4, <1>5

LEMMA SortFacts ==
  ASSUME sort \in Sorts
  PROVE  /\ DOMAIN sort \in {{}, {1}, {1, 2}}
         /\ \A o \in Object, i \in DOMAIN sort : Get(o, sort[i].field) \in Scalar
<1>1. sort \in Seq([field: Fields, descending: BOOLEAN])
  BY SortAssumption
<1>2. DOMAIN sort = 1..Len(sort) /\ Len(sort) \in Nat
  BY <1>1
<1>3. \A i \in DOMAIN sort : sort[i].field \in Fields
  <2>1. \A i \in DOMAIN sort : sort[i] \in [field: Fields, descending: BOOLEAN]
    BY <1>1, <1>2, ElementOfSeq
  <2> QED BY <2>1
<1>4. Len(sort) < 3
  <2> SUFFICES ASSUME Len(sort) >= 3 PROVE FALSE
    BY <1>2
  <2>1. 1 \in DOMAIN sort /\ 2 \in DOMAIN sort /\ 3 \in DOMAIN sort
    BY <1>2
  <2>2. /\ sort[1].field # sort[2].field /\ sort[1].field # sort[3].field /\ sort[2].field # sort[3].field
    BY <2>1, SortAssumption
  <2> QED BY <1>3, <2>1, <2>2 DEF Fields
<1>5. DOMAIN sort \in {{}, {1}, {1, 2}}
  <2>1. Len(sort) \in {0, 1, 2}
    BY <1>2, <1>4
  <2> QED BY <1>2, <2>1
<1>6. \A o \in Object : \A f : Get(o, f) \in Scalar
  BY RanksAssumption, ValuesAssumption DEF Get, Object, Number, Scalar, Value, Types
<1> QED BY <1>5, <1>6

\* Every order that clients can ask for is an order, whatever values are sorted.
THEOREM SortsInOrder == Spec => []SortOrderSound
<1>1. Init => ObjectsOK
  BY LimitAssumption DEF Init, ObjectsOK
<1>2. ObjectsOK /\ [Next]_vars => ObjectsOK'
  BY ObjectsStep
<1>3. ObjectsOK => SortOrderSound
  <2> SUFFICES ASSUME ObjectsOK, NEW o \in Live, NEW p \in Live, NEW q \in Live
               PROVE  /\ ~(Less(o, p) /\ Less(p, o))
                      /\ Less(o, p) \/ Less(p, o) <=> ~SameKeys(o, p)
                      /\ Less(o, p) /\ Less(p, q) => Less(o, q)
    BY DEF SortOrderSound
  <2> DEFINE Key(x, i)      == Get(x, sort[i].field)
             Ahead(x, y, i) == IF sort[i].descending THEN Before(Key(y, i), Key(x, i)) ELSE Before(Key(x, i), Key(y, i))
             N              == DOMAIN sort
  <2>1. N \in {{}, {1}, {1, 2}} /\ \A x \in {o, p, q}, i \in N : Key(x, i) \in Scalar
    BY SortFacts, LiveFacts DEF ObjectsOK
  <2>2. \A x, y \in {o, p, q}, i \in N : /\ ~(Ahead(x, y, i) /\ Ahead(y, x, i))
                                         /\ Ahead(x, y, i) \/ Ahead(y, x, i) <=> Key(x, i) # Key(y, i)
    BY <2>1, BeforeOrder
  <2>3. \A x, y, z \in {o, p, q}, i \in N : Ahead(x, y, i) /\ Ahead(y, z, i) => Ahead(x, z, i)
    BY <2>1, BeforeOrder
  <2>4. \A x, y, z \in {o, p, q}, i \in N :
          /\ Key(x, i) = Key(y, i) => (Ahead(x, z, i) <=> Ahead(y, z, i))
          /\ Key(x, i) = Key(y, i) => (Ahead(z, x, i) <=> Ahead(z, y, i))
    OBVIOUS
  <2>5. \A x, y \in {o, p, q} :
          /\ Less(x, y) <=> \/ 1 \in N /\ Ahead(x, y, 1)
                            \/ 2 \in N /\ Key(x, 1) = Key(y, 1) /\ Ahead(x, y, 2)
          /\ SameKeys(x, y) <=> \A i \in N : Key(x, i) = Key(y, i)
    <3> TAKE x, y \in {o, p, q}
    <3>1. Less(x, y) <=> \E i \in N : (\A j \in 1..i-1 : Key(x, j) = Key(y, j)) /\ Ahead(x, y, i)
      BY DEF Less
    <3>2. (1..1-1) = {} /\ (1..2-1) = {1}
      OBVIOUS
    <3> HIDE DEF Key, Ahead
    <3>3. Less(x, y) <=> \/ 1 \in N /\ Ahead(x, y, 1)
                         \/ 2 \in N /\ Key(x, 1) = Key(y, 1) /\ Ahead(x, y, 2)
      BY <2>1, <3>1, <3>2
    <3> QED BY <3>3 DEF SameKeys, Key
  <2> HIDE DEF Key, Ahead, N
  <2>6. ~(Less(o, p) /\ Less(p, o))
    BY <2>1, <2>2, <2>5
  <2>7. Less(o, p) \/ Less(p, o) <=> ~SameKeys(o, p)
    BY <2>1, <2>2, <2>5
  <2>8. Less(o, p) /\ Less(p, q) => Less(o, q)
    BY <2>1, <2>2, <2>3, <2>4, <2>5
  <2> QED BY <2>6, <2>7, <2>8
<1> QED BY <1>1, <1>2, <1>3, PTL DEF Spec

\* However often and late the requests of a bulk delete come in, each token
\* deletes one page (ctrl.go:97-108).
THEOREM TokensSpentOnce == Spec => []SpentOnce
<1>1. Init => ObjectsOK /\ Spends
  BY LimitAssumption DEF Init, ObjectsOK, Spends
<1>2. ObjectsOK /\ Spends /\ [Next]_vars => (ObjectsOK /\ Spends)'
  BY ObjectsStep, SpendsStep
<1>3. Spends => SpentOnce
  BY DEF Spends, SpentOnce
<1> QED BY <1>1, <1>2, <1>3, PTL DEF Spec

-----------------------------------------------------------------------------
(* The order of last change. *)

\* The cursor of an object that was changed at t.
TimeCursor(t) == [f \in {"last_modified"} |-> Number(t)]

\* A cursor is at t if what was changed after t is ahead of it.
At(cursor, t) == (cursor = NoCursor /\ t = 0) \/ cursor = TimeCursor(t)

LEMMA OldestFacts ==
  ASSUME sort = Oldest, NEW o \in Object, NEW p \in Object
  PROVE  /\ Less(o, p) <=> o.last_modified < p.last_modified
         /\ CursorOf(o) = TimeCursor(o.last_modified)
<1>1. DOMAIN sort = {1} /\ sort[1].field = "last_modified" /\ sort[1].descending = FALSE
  BY DEF Oldest
<1>2. o.last_modified \in Nat /\ p.last_modified \in Nat
  BY DEF Object
<1>3. Get(o, "last_modified") = Number(o.last_modified) /\ Get(p, "last_modified") = Number(p.last_modified)
  BY DEF Get
<1>4. Before(Number(o.last_modified), Number(p.last_modified)) <=> o.last_modified < p.last_modified
  BY <1>2 DEF Before, Compare, Number
<1>5. Less(o, p) <=> Before(Get(o, "last_modified"), Get(p, "last_modified"))
  BY <1>1 DEF Less
<1>6. {sort[i].field : i \in DOMAIN sort} = {"last_modified"}
  BY <1>1
<1>7. Number(o.last_modified) # Null
  BY DEF Number, Null
<1>8. {g \in {sort[i].field : i \in DOMAIN sort} : Get(o, g) # Null} = {"last_modified"}
  BY <1>3, <1>6, <1>7
<1>9. CursorOf(o) = TimeCursor(o.last_modified)
  BY <1>3, <1>8 DEF CursorOf, TimeCursor
<1> QED BY <1>3, <1>4, <1>5, <1>9

LEMMA AtFacts ==
  ASSUME NEW t \in Nat, NEW c, At(c, t), NEW o \in Object, o.last_modified > 0
  PROVE  Matches(c, o) <=> o.last_modified > t
<1>1. o.last_modified \in Nat
  BY DEF Object
<1>2. CASE c = NoCursor /\ t = 0
  BY <1>1, <1>2 DEF Matches, Conditions, NoCursor
<1>3. CASE c = TimeCursor(t)
  <2> DEFINE after == [g \in {"last_modified"} |-> [op |-> "gt", values |-> <<Number(t)>>]]
  <2>1. DOMAIN c = {"last_modified"} /\ c["last_modified"] = Number(t)
    BY <1>3 DEF TimeCursor
  <2>2. Conditions(c) = {after}
    BY <2>1 DEF Conditions
  <2>3. Match(Number(o.last_modified), after["last_modified"]) <=> o.last_modified > t
    BY <1>1 DEF Match, Compare, Number
  <2>4. Get(o, "last_modified") = Number(o.last_modified)
    BY DEF Get
  <2> QED BY <2>2, <2>3, <2>4 DEF Matches
<1> QED BY <1>2, <1>3 DEF At

\* Every object alive has an epoch of its own, none above the collection's.
Stamped ==
  /\ epoch \in Nat
  /\ \A o \in Live : o.last_modified \in 1..epoch
  /\ \A o, p \in Live : o.last_modified = p.last_modified => o = p

\* A page of what is ahead of a cursor is the first of it.
LEMMA PageInOrder ==
  ASSUME sort = Oldest, ObjectsOK, Stamped, NEW c, NEW t \in Nat, At(c, t),
         NEW page \in Page(Matching(c)), NEW last \in LastOf(page)
  PROVE  /\ last \in Live /\ last.last_modified > t /\ CursorOf(last) = TimeCursor(last.last_modified)
         /\ \A o \in page : t < o.last_modified /\ o.last_modified <= last.last_modified
         /\ \A o \in Live \ page : o.last_modified > t => o.last_modified > last.last_modified
<1>1. Live \subseteq Object /\ \A o \in Live : o.last_modified \in Nat /\ o.last_modified > 0
  BY LiveFacts DEF ObjectsOK, Stamped
<1>2. page \subseteq Matching(c) /\ last \in page
  BY DEF Page, LastOf
<1>3. \A o \in Live : o \in Matching(c) <=> o.last_modified > t
  BY <1>1, AtFacts DEF Matching
<1>4. Matching(c) \subseteq Live
  BY DEF Matching
<1>5. \A o \in page : ~Less(last, o)
  BY DEF LastOf
<1>6. \A o \in Matching(c) \ page : ~Less(o, last)
  BY <1>2 DEF Page
<1>7. \A o \in page : t < o.last_modified /\ o.last_modified <= last.last_modified
  BY <1>1, <1>2, <1>3, <1>4, <1>5, OldestFacts
<1>8. ASSUME NEW o \in Live \ page, o.last_modified > t PROVE o.last_modified > last.last_modified
  <2>1. o \in Matching(c) \ page /\ o # last
    BY <1>2, <1>3, <1>8
  <2>2. ~(o.last_modified < last.last_modified)
    BY <1>1, <1>2, <1>4, <1>6, <2>1, OldestFacts
  <2>3. o.last_modified # last.last_modified
    BY <1>2, <1>4, <2>1 DEF Stamped
  <2> QED BY <1>1, <1>2, <1>4, <2>2, <2>3
<1> QED BY <1>1, <1>2, <1>4, <1>7, <1>8, OldestFacts

\* What a step makes of the collection: it stays, loses objects, or gets one
\* with a new epoch.
LEMMA CollectionSteps ==
  ASSUME ObjectsOK, Stamped, [Next]_vars
  PROVE  /\ epoch' \in Nat /\ epoch' >= epoch
         /\ \/ Live' \subseteq Live
            \/ \E new \in Live' : /\ Live' \subseteq Live \cup {new}
                                  /\ new.last_modified = epoch' /\ epoch' > epoch
<1>1. ASSUME NEW id \in Ids, NEW num \in Ranks, NEW now \in 1..MaxTime, Put(id, num, now)
      PROVE  \E new \in Live' : /\ Live' \subseteq Live \cup {new}
                                /\ new.last_modified = epoch' /\ epoch' > epoch /\ epoch' \in Nat
  <2> DEFINE new == [id |-> id, last_modified |-> now, num |-> num]
  <2>1. objs' = [objs EXCEPT ![id] = new] /\ epoch' = now /\ now > epoch
    BY <1>1 DEF Put
  <2>2. new \in Object
    BY BoundsAssumption DEF Object
  <2>3. new # NoObject
    BY <2>2, ObjectsAssumption
  <2>4. objs'[id] = new /\ \A j \in Ids : j # id => objs'[j] = objs[j]
    BY <2>1 DEF ObjectsOK
  <2>5. Live' \subseteq Live \cup {new}
    BY <2>4 DEF Live
  <2>6. new \in Live'
    BY <2>3, <2>4 DEF Live
  <2> QED BY <2>1, <2>5, <2>6, BoundsAssumption
<1>2. ASSUME NEW id \in Ids, Remove(id)
      PROVE  Live' \subseteq Live /\ epoch' = epoch + 1
  <2>1. epoch' = epoch + 1 /\ objs' = [objs EXCEPT ![id] = NoObject]
    BY <1>2 DEF Remove
  <2> QED BY <2>1 DEF Live, ObjectsOK
<1>3. ASSUME NEW token \in 0..Len(issued), NEW heard \in BOOLEAN, DeletePage(token, heard)
      PROVE  Live' \subseteq Live /\ epoch' \in Nat /\ epoch' >= epoch
  <2> DEFINE rows == Matching(CursorOfToken(token))
  <2>1. PICK page \in Page(rows) :
          /\ objs' = [id \in Ids |-> IF objs[id] \in page THEN NoObject ELSE objs[id]]
          /\ epoch' = epoch + Cardinality(page)
    BY <1>3, DeletePageFacts
  <2>2. Cardinality(page) \in Nat
    BY MatchingFinite, PageFacts DEF ObjectsOK
  <2> QED BY <2>1, <2>2 DEF Live, Stamped
<1>4. CASE StartList \/ ListPage \/ StartDelete \/ DeleteRefused \/ (\E token \in cached : Expire(token))
           \/ UNCHANGED vars
  <2>1. objs' = objs /\ epoch' = epoch
    BY <1>4 DEF StartList, ListPage, StartDelete, DeleteRefused, Expire, vars
  <2> QED BY <2>1 DEF Live, Stamped
<1>5. epoch \in Nat
  BY DEF Stamped
<1> QED BY <1>1, <1>2, <1>3, <1>4, <1>5 DEF Next, Writes, Deletes

LEMMA StampedStep == ASSUME ObjectsOK, Stamped, [Next]_vars PROVE Stamped'
<1>1. /\ epoch \in Nat /\ epoch' \in Nat /\ epoch' >= epoch
      /\ \/ Live' \subseteq Live
         \/ \E new \in Live' : /\ Live' \subseteq Live \cup {new}
                               /\ new.last_modified = epoch' /\ epoch' > epoch
  BY CollectionSteps DEF Stamped
<1>2. \A o \in Live : o.last_modified \in 1..epoch'
  BY <1>1 DEF Stamped
<1>3. CASE Live' \subseteq Live
  BY <1>1, <1>2, <1>3 DEF Stamped
<1>4. ASSUME NEW new \in Live', Live' \subseteq Live \cup {new},
             new.last_modified = epoch', epoch' > epoch
      PROVE  Stamped'
  <2>1. \A o \in Live' : o.last_modified \in 1..epoch'
    BY <1>1, <1>2, <1>4
  <2>2. \A o \in Live : o.last_modified # new.last_modified
    BY <1>1, <1>4 DEF Stamped
  <2>3. \A o, p \in Live' : o.last_modified = p.last_modified => o = p
    BY <1>4, <2>2 DEF Stamped
  <2> QED BY <1>1, <2>1, <2>3 DEF Stamped
<1> QED BY <1>1, <1>3, <1>4

-----------------------------------------------------------------------------
(* A listing in the order of last change. *)

\* The lister holds what lies behind its cursor, and nothing else.
Listed ==
  /\ lister \in Lister
  /\ lister.state = "idle" => lister.cursor = NoCursor /\ lister.got = {}
  /\ lister.state # "done" =>
       \E t \in 0..epoch : /\ At(lister.cursor, t)
                           /\ \A o \in Live : o.last_modified <= t => o \in lister.got
                           /\ \A o \in lister.got : o.last_modified <= t

\* One page of a listing.
LEMMA ListPageFacts ==
  ASSUME ListPage
  PROVE  /\ lister.state = "paging"
         /\ UNCHANGED <<sort, limit, objs, epoch, deleter, cached, issued, spent>>
         /\ LET rows == Matching(lister.cursor) IN
            \E page \in Page(rows) :
              /\ ~HasMore(rows)
                   => lister' = [state |-> "done", cursor |-> NoCursor, got |-> lister.got \cup page]
              /\ HasMore(rows)
                   => \E last \in LastOf(page) :
                        lister' = [state |-> "paging", cursor |-> CursorOf(last),
                                   got |-> lister.got \cup page]
BY DEF ListPage, Matching

LEMMA ListedStep == ASSUME sort = Oldest, ObjectsOK, Stamped, Listed, [Next]_vars PROVE Listed'
<1>1. /\ epoch \in Nat /\ epoch' \in Nat /\ epoch' >= epoch
      /\ \/ Live' \subseteq Live
         \/ \E new \in Live' : /\ Live' \subseteq Live \cup {new}
                               /\ new.last_modified = epoch' /\ epoch' > epoch
  BY CollectionSteps DEF Stamped
<1>2. CASE lister' = lister
  <2>1. CASE lister.state = "done"
    BY <1>2, <2>1 DEF Listed
  <2>2. CASE lister.state # "done"
    <3>1. PICK t \in 0..epoch : /\ At(lister.cursor, t)
                                /\ \A o \in Live : o.last_modified <= t => o \in lister.got
                                /\ \A o \in lister.got : o.last_modified <= t
      BY <2>2 DEF Listed
    <3>2. t \in 0..epoch'
      BY <1>1
    <3>3. \A o \in Live' : o.last_modified <= t => o \in lister.got
      BY <1>1, <3>1
    <3>4. /\ At(lister'.cursor, t)
          /\ \A o \in Live' : o.last_modified <= t => o \in lister'.got
          /\ \A o \in lister'.got : o.last_modified <= t
      <4>1. lister'.cursor = lister.cursor /\ lister'.got = lister.got
        BY <1>2
      <4> QED BY <3>1, <3>3, <4>1 DEF At
    <3>5. \E u \in 0..epoch' : /\ At(lister'.cursor, u)
                               /\ \A o \in Live' : o.last_modified <= u => o \in lister'.got
                               /\ \A o \in lister'.got : o.last_modified <= u
      BY <3>2, <3>4
    <3> QED BY <1>2, <3>5 DEF Listed, At
  <2> QED BY <2>1, <2>2
<1>3. CASE StartList
  <2>1. lister.state = "idle" /\ lister' = [lister EXCEPT !.state = "paging"]
        /\ objs' = objs /\ epoch' = epoch
    BY <1>3 DEF StartList
  <2>2. lister' \in Lister /\ lister'.state = "paging" /\ lister'.got = lister.got
        /\ lister'.cursor = lister.cursor
    BY <2>1 DEF Listed, Lister
  <2>3. Live' = Live
    BY <2>1 DEF Live
  <2> QED BY <2>1, <2>2, <2>3 DEF Listed, At
<1>4. CASE ListPage
  <2> DEFINE rows == Matching(lister.cursor)
  <2>1. PICK page \in Page(rows) :
          /\ ~HasMore(rows)
               => lister' = [state |-> "done", cursor |-> NoCursor, got |-> lister.got \cup page]
          /\ HasMore(rows)
               => \E last \in LastOf(page) :
                    lister' = [state |-> "paging", cursor |-> CursorOf(last),
                               got |-> lister.got \cup page]
    BY <1>4, ListPageFacts
  <2>2. lister.state = "paging" /\ objs' = objs /\ epoch' = epoch
    BY <1>4, ListPageFacts
  <2>3. Live' = Live /\ Live \subseteq Object
    BY <2>2, LiveFacts DEF Live, ObjectsOK
  <2>4. page \subseteq Live /\ lister.got \cup page \in SUBSET Object
    BY <2>3 DEF Page, Matching, Listed, Lister
  <2>5. CASE ~HasMore(rows)
    BY <2>1, <2>4, <2>5, CursorFacts DEF Listed, Lister
  <2>6. CASE HasMore(rows)
    <3>1. PICK last \in LastOf(page) :
            lister' = [state |-> "paging", cursor |-> CursorOf(last), got |-> lister.got \cup page]
      BY <2>1, <2>6
    <3>2. PICK t \in 0..epoch : /\ At(lister.cursor, t)
                                /\ \A o \in Live : o.last_modified <= t => o \in lister.got
                                /\ \A o \in lister.got : o.last_modified <= t
      BY <2>2 DEF Listed
    <3>3. t \in Nat /\ \A o \in lister.got : o.last_modified \in Nat
      BY <1>1 DEF Listed, Lister, Object
    <3>4. /\ last \in Live /\ last.last_modified > t /\ CursorOf(last) = TimeCursor(last.last_modified)
          /\ \A o \in page : t < o.last_modified /\ o.last_modified <= last.last_modified
          /\ \A o \in Live \ page : o.last_modified > t => o.last_modified > last.last_modified
      BY <3>2, <3>3, PageInOrder
    <3>5. last.last_modified \in 0..epoch' /\ \A o \in Live : o.last_modified \in Nat
      BY <2>2, <3>4 DEF Stamped
    <3>6. ASSUME NEW o \in Live, o.last_modified <= last.last_modified
          PROVE  o \in lister.got \cup page
      <4>1. CASE o.last_modified <= t
        BY <3>2, <4>1
      <4>2. CASE ~(o.last_modified <= t)
        <5>1. o.last_modified > t
          BY <3>3, <3>5, <4>2
        <5>2. ~(o.last_modified > last.last_modified)
          BY <3>5, <3>6
        <5> QED BY <3>4, <5>1, <5>2
      <4> QED BY <4>1, <4>2
    <3>7. ASSUME NEW o \in lister.got \cup page PROVE o.last_modified <= last.last_modified
      <4>1. CASE o \in page
        BY <3>4, <4>1
      <4>2. CASE o \in lister.got
        <5>1. o.last_modified <= t /\ o.last_modified \in Nat /\ last.last_modified \in Nat
          BY <3>2, <3>3, <3>4, <3>5, <4>2
        <5> QED BY <3>3, <3>4, <5>1
      <4> QED BY <4>1, <4>2
    <3>8. CursorOf(last) \in Cursor
      BY <2>3, <3>4, CursorFacts DEF ObjectsOK
    <3>9. At(CursorOf(last), last.last_modified)
      BY <3>4 DEF At
    <3>10. lister' \in Lister /\ lister'.state = "paging"
      BY <2>4, <3>1, <3>8 DEF Lister
    <3> QED BY <2>3, <3>1, <3>5, <3>6, <3>7, <3>9, <3>10 DEF Listed, At
  <2> QED BY <2>5, <2>6
<1>5. CASE Writes \/ StartDelete \/ Deletes \/ DeleteRefused \/ (\E token \in cached : Expire(token))
           \/ UNCHANGED vars
  <2>1. lister' = lister
    BY <1>5 DEF Writes, Put, Remove, StartDelete, Deletes, DeletePage, DeleteRefused, Expire, vars
  <2> QED BY <1>2, <2>1
<1> QED BY <1>3, <1>4, <1>5 DEF Next

LEMMA ListInvariant == Spec => [](ObjectsOK /\ Stamped /\ (sort = Oldest => Listed))
<1>1. Init => ObjectsOK /\ Stamped /\ (sort = Oldest => Listed)
  <2> SUFFICES ASSUME Init PROVE ObjectsOK /\ Stamped /\ Listed
    OBVIOUS
  <2>1. Live = {} /\ epoch = 0
    BY DEF Init, Live
  <2>2. lister \in Lister
    BY CursorFacts DEF Init, Lister
  <2> QED BY <2>1, <2>2, LimitAssumption DEF Init, ObjectsOK, Stamped, Listed, At
<1>2. ObjectsOK /\ Stamped /\ (sort = Oldest => Listed) /\ [Next]_vars
        => (ObjectsOK /\ Stamped /\ (sort = Oldest => Listed))'
  <2> SUFFICES ASSUME ObjectsOK, Stamped, sort = Oldest => Listed, [Next]_vars
               PROVE  (ObjectsOK /\ Stamped /\ (sort = Oldest => Listed))'
    OBVIOUS
  <2>1. sort' = sort
    BY DEF Next, Writes, Put, Remove, StartList, ListPage, StartDelete, Deletes, DeletePage,
           DeleteRefused, Expire, vars
  <2>2. (sort = Oldest)' <=> sort = Oldest
    BY <2>1 DEF Oldest
  <2> QED BY <2>2, ObjectsStep, StampedStep, ListedStep
<1> QED BY <1>1, <1>2, PTL DEF Spec

\* The step that ends a page of the listing is ListPage.
LEMMA ListerSteps ==
  ASSUME [Next]_vars, lister.state = "paging", lister' # lister
  PROVE  ListPage
BY DEF Next, Writes, Put, Remove, StartList, StartDelete, Deletes, DeletePage, DeleteRefused, Expire, vars

\* A client that lists in the order of last change misses no object that is
\* there when it gets the last page, whoever wrote in between (paginate,
\* ctrl.go:375-410; the sort order keeps a changed object ahead of the cursor).
THEOREM ListingComplete == Spec => ListComplete
<1>1. ObjectsOK /\ Stamped /\ (sort = Oldest => Listed) /\ [Next]_vars
        => [sort = Oldest /\ lister.state = "paging" /\ lister'.state = "done"
              => Live \subseteq lister'.got]_vars
  <2> SUFFICES ASSUME ObjectsOK, Stamped, sort = Oldest => Listed, [Next]_vars,
                      sort = Oldest, lister.state = "paging", lister'.state = "done"
               PROVE  Live \subseteq lister'.got
    OBVIOUS
  <2> DEFINE rows == Matching(lister.cursor)
  <2>1. ListPage
    BY ListerSteps
  <2>2. PICK page \in Page(rows) :
          /\ ~HasMore(rows)
               => lister' = [state |-> "done", cursor |-> NoCursor, got |-> lister.got \cup page]
          /\ HasMore(rows)
               => \E last \in LastOf(page) :
                    lister' = [state |-> "paging", cursor |-> CursorOf(last),
                               got |-> lister.got \cup page]
    BY <2>1, ListPageFacts
  <2>3. ~HasMore(rows) /\ lister'.got = lister.got \cup page
    BY <2>2
  <2>4. page = rows
    BY <2>3, MatchingFinite, PageFacts DEF ObjectsOK
  <2>5. PICK t \in 0..epoch : At(lister.cursor, t)
                             /\ \A o \in Live : o.last_modified <= t => o \in lister.got
    BY DEF Listed
  <2>6. t \in Nat /\ \A o \in Live : o \in Object /\ o.last_modified \in Nat /\ o.last_modified > 0
    BY LiveFacts DEF Stamped, ObjectsOK
  <2>7. \A o \in Live : o.last_modified > t => o \in rows
    BY <2>5, <2>6, AtFacts DEF Matching
  <2> QED BY <2>3, <2>4, <2>5, <2>6, <2>7
<1> QED BY <1>1, ListInvariant, PTL DEF Spec, ListComplete

\* Every page of a listing in the order of last change but the last brings
\* limit objects that the client does not have (ctrl.go:387-403).
THEOREM ListingAdvances == Spec => PagesAdvance
<1>1. ObjectsOK /\ Stamped /\ (sort = Oldest => Listed) /\ [Next]_vars
        => [sort = Oldest /\ lister.state = "paging" /\ lister' # lister /\ lister'.state = "paging"
              => Cardinality(lister'.got \ lister.got) = limit]_vars
  <2> SUFFICES ASSUME ObjectsOK, Stamped, sort = Oldest => Listed, [Next]_vars, sort = Oldest,
                      lister.state = "paging", lister' # lister, lister'.state = "paging"
               PROVE  Cardinality(lister'.got \ lister.got) = limit
    OBVIOUS
  <2> DEFINE rows == Matching(lister.cursor)
  <2>1. ListPage
    BY ListerSteps
  <2>2. PICK page \in Page(rows) :
          /\ ~HasMore(rows)
               => lister' = [state |-> "done", cursor |-> NoCursor, got |-> lister.got \cup page]
          /\ HasMore(rows)
               => \E last \in LastOf(page) :
                    lister' = [state |-> "paging", cursor |-> CursorOf(last),
                               got |-> lister.got \cup page]
    BY <2>1, ListPageFacts
  <2>3. HasMore(rows) /\ lister'.got = lister.got \cup page
    BY <2>2
  <2>4. Cardinality(page) = limit /\ page \subseteq rows
    BY <2>3, MatchingFinite, PageFacts DEF ObjectsOK
  <2>5. PICK t \in 0..epoch : At(lister.cursor, t)
                             /\ \A o \in lister.got : o.last_modified <= t
    BY DEF Listed
  <2>6. t \in Nat /\ \A o \in Live : o \in Object /\ o.last_modified \in Nat /\ o.last_modified > 0
    BY LiveFacts DEF Stamped, ObjectsOK
  <2>7. \A o \in rows : o.last_modified > t
    BY <2>5, <2>6, AtFacts DEF Matching
  <2>8. page \cap lister.got = {}
    BY <2>4, <2>5, <2>6, <2>7 DEF Matching
  <2>9. lister'.got \ lister.got = page
    BY <2>3, <2>8
  <2> QED BY <2>4, <2>9
<1> QED BY <1>1, ListInvariant, PTL DEF Spec, PagesAdvance

-----------------------------------------------------------------------------
(* A bulk deletion in the order of last change. *)

\* Whatever is alive lies ahead of every token that was ever issued.
Ahead ==
  /\ issued \in Seq(Cursor) /\ deleter \in Deleter
  /\ \A n \in 1..Len(issued) :
       \E t \in 0..epoch : At(issued[n], t) /\ \A o \in Live : o.last_modified > t

\* The same of a request without a token.
LEMMA TokenAhead ==
  ASSUME ObjectsOK, Stamped, Ahead, NEW token \in 0..Len(issued)
  PROVE  \E t \in 0..epoch : /\ At(CursorOfToken(token), t)
                             /\ \A o \in Live : o.last_modified > t
<1>1. CASE token = NoToken
  <2>1. At(CursorOfToken(token), 0) /\ 0 \in 0..epoch
    BY <1>1 DEF CursorOfToken, At, Stamped
  <2>2. \A o \in Live : o.last_modified > 0
    BY DEF Stamped
  <2> QED BY <2>1, <2>2
<1>2. CASE token # NoToken
  <2>1. token \in 1..Len(issued) /\ CursorOfToken(token) = issued[token]
    BY <1>2 DEF CursorOfToken, NoToken, Ahead
  <2> QED BY <2>1 DEF Ahead
<1> QED BY <1>1, <1>2

\* So every token selects the whole of the collection.
LEMMA TokenSelectsAll ==
  ASSUME ObjectsOK, Stamped, Ahead, NEW token \in 0..Len(issued)
  PROVE  Matching(CursorOfToken(token)) = Live
<1>1. PICK t \in 0..epoch : At(CursorOfToken(token), t) /\ \A o \in Live : o.last_modified > t
  BY TokenAhead
<1>2. t \in Nat /\ \A o \in Live : o \in Object /\ o.last_modified > 0
  BY LiveFacts DEF Stamped, ObjectsOK
<1>3. \A o \in Live : Matches(CursorOfToken(token), o)
  BY <1>1, <1>2, AtFacts
<1> QED BY <1>3 DEF Matching

LEMMA DeleterStep == ASSUME Ahead, [Next]_vars PROVE deleter' \in Deleter
<1> USE DEF Ahead, Deleter
<1>1. ASSUME NEW token \in 0..Len(issued), NEW heard \in BOOLEAN, DeletePage(token, heard)
      PROVE  deleter' \in Deleter
  <2> DEFINE rows == Matching(CursorOfToken(token))
  <2>1. deleter' = CASE ~heard -> deleter
                     [] heard /\ HasMore(rows) -> [state |-> "paging", token |-> Len(issued) + 1]
                     [] OTHER -> [deleter EXCEPT !.state = "done"]
    BY <1>1 DEF DeletePage, Matching
  <2>2. Len(issued) + 1 \in Nat
    OBVIOUS
  <2> HIDE DEF rows
  <2> QED BY <2>1, <2>2
<1>2. CASE StartDelete
  BY <1>2 DEF StartDelete, NoToken
<1>3. CASE DeleteRefused
  BY <1>3 DEF DeleteRefused
<1>4. CASE Writes \/ StartList \/ ListPage \/ (\E token \in cached : Expire(token)) \/ UNCHANGED vars
  BY <1>4 DEF Writes, Put, Remove, StartList, ListPage, Expire, vars
<1> QED BY <1>1, <1>2, <1>3, <1>4 DEF Next, Deletes

LEMMA AheadStep == ASSUME sort = Oldest, ObjectsOK, Stamped, Ahead, [Next]_vars PROVE Ahead'
<1>1. /\ epoch \in Nat /\ epoch' \in Nat /\ epoch' >= epoch
      /\ \/ Live' \subseteq Live
         \/ \E new \in Live' : /\ Live' \subseteq Live \cup {new}
                               /\ new.last_modified = epoch' /\ epoch' > epoch
  BY CollectionSteps DEF Stamped
<1>2. ASSUME NEW n \in 1..Len(issued)
      PROVE  \E t \in 0..epoch' : At(issued[n], t) /\ \A o \in Live' : o.last_modified > t
  <2>1. PICK t \in 0..epoch : At(issued[n], t) /\ \A o \in Live : o.last_modified > t
    BY DEF Ahead
  <2>2. t \in 0..epoch' /\ \A o \in Live' : o.last_modified > t
    BY <1>1, <2>1
  <2> QED BY <2>1, <2>2
<1>3. CASE issued' = issued
  <2>1. \A n \in 1..Len(issued') :
          \E t \in 0..epoch' : At(issued'[n], t) /\ \A o \in Live' : o.last_modified > t
    BY <1>2, <1>3
  <2> QED BY <1>3, <2>1, DeleterStep DEF Ahead, At
<1>4. ASSUME NEW token \in 0..Len(issued), NEW heard \in BOOLEAN, DeletePage(token, heard)
      PROVE  Ahead'
  <2> DEFINE rows == Matching(CursorOfToken(token))
  <2>1. PICK page \in Page(rows) :
          /\ objs' = [id \in Ids |-> IF objs[id] \in page THEN NoObject ELSE objs[id]]
          /\ HasMore(rows) => \E last \in LastOf(page) : issued' = Append(issued, CursorOf(last))
          /\ ~HasMore(rows) => issued' = issued
    BY <1>4, DeletePageFacts
  <2>2. CASE ~HasMore(rows)
    BY <1>3, <2>1, <2>2
  <2>3. CASE HasMore(rows)
    <3>1. PICK last \in LastOf(page) : issued' = Append(issued, CursorOf(last))
      BY <2>1, <2>3
    <3>2. PICK t \in 0..epoch : At(CursorOfToken(token), t) /\ \A o \in Live : o.last_modified > t
      BY TokenAhead
    <3>3. t \in Nat
      OBVIOUS
    <3>4. /\ last \in Live /\ CursorOf(last) = TimeCursor(last.last_modified)
          /\ \A o \in Live \ page : o.last_modified > t => o.last_modified > last.last_modified
      BY <3>2, <3>3, PageInOrder
    <3>5. Live' \subseteq Live \ page
      BY <2>1 DEF Live
    <3>6. last.last_modified \in 0..epoch' /\ \A o \in Live' : o.last_modified > last.last_modified
      BY <1>1, <3>2, <3>4, <3>5 DEF Stamped
    <3>7. last \in Object /\ CursorOf(last) \in Cursor /\ At(CursorOf(last), last.last_modified)
      BY <3>4, LiveFacts, CursorFacts DEF ObjectsOK, At
    <3>8. /\ issued' \in Seq(Cursor) /\ Len(issued') = Len(issued) + 1
          /\ \A n \in 1..Len(issued) : issued'[n] = issued[n]
          /\ issued'[Len(issued) + 1] = CursorOf(last)
      BY <3>1, <3>7, AppendProperties DEF Ahead
    <3>9. ASSUME NEW n \in 1..Len(issued')
          PROVE  \E u \in 0..epoch' : At(issued'[n], u) /\ \A o \in Live' : o.last_modified > u
      <4>1. CASE n = Len(issued) + 1
        BY <3>6, <3>7, <3>8, <4>1
      <4>2. CASE n # Len(issued) + 1
        <5>1. n \in 1..Len(issued) /\ issued'[n] = issued[n]
          BY <3>8, <4>2 DEF Ahead
        <5> QED BY <1>2, <5>1
      <4> QED BY <4>1, <4>2
    <3> QED BY <3>8, <3>9, DeleterStep DEF Ahead, At
  <2> QED BY <2>2, <2>3
<1>5. CASE Writes \/ StartList \/ ListPage \/ StartDelete \/ DeleteRefused
           \/ (\E token \in cached : Expire(token)) \/ UNCHANGED vars
  <2>1. issued' = issued
    BY <1>5 DEF Writes, Put, Remove, StartList, ListPage, StartDelete, DeleteRefused, Expire, vars
  <2> QED BY <1>3, <2>1
<1> QED BY <1>4, <1>5 DEF Next, Deletes

LEMMA DeleteInvariant == Spec => [](ObjectsOK /\ Stamped /\ (sort = Oldest => Ahead))
<1>1. Init => ObjectsOK /\ Stamped /\ (sort = Oldest => Ahead)
  <2> SUFFICES ASSUME Init PROVE ObjectsOK /\ Stamped /\ Ahead
    OBVIOUS
  <2>1. Live = {} /\ epoch = 0 /\ issued = <<>>
    BY DEF Init, Live
  <2>2. deleter \in Deleter
    BY DEF Init, Deleter, NoToken
  <2> QED BY <2>1, <2>2, LimitAssumption DEF Init, ObjectsOK, Stamped, Ahead
<1>2. ObjectsOK /\ Stamped /\ (sort = Oldest => Ahead) /\ [Next]_vars
        => (ObjectsOK /\ Stamped /\ (sort = Oldest => Ahead))'
  <2> SUFFICES ASSUME ObjectsOK, Stamped, sort = Oldest => Ahead, [Next]_vars
               PROVE  (ObjectsOK /\ Stamped /\ (sort = Oldest => Ahead))'
    OBVIOUS
  <2>1. sort' = sort
    BY DEF Next, Writes, Put, Remove, StartList, ListPage, StartDelete, Deletes, DeletePage,
           DeleteRefused, Expire, vars
  <2>2. (sort = Oldest)' <=> sort = Oldest
    BY <2>1 DEF Oldest
  <2> QED BY <2>2, ObjectsStep, StampedStep, AheadStep
<1> QED BY <1>1, <1>2, PTL DEF Spec

\* A client that deletes in the order of last change and is told that there is
\* no more has emptied the collection, whichever of its requests were lost,
\* late or repeated and whatever was written meanwhile (DeleteBulk,
\* ctrl.go:83-136).
THEOREM DeletionComplete == Spec => DeleteComplete
<1>1. ObjectsOK /\ Stamped /\ (sort = Oldest => Ahead) /\ [Next]_vars
        => [sort = Oldest /\ deleter.state = "paging" /\ deleter'.state = "done" => Live' = {}]_vars
  <2> SUFFICES ASSUME ObjectsOK, Stamped, sort = Oldest => Ahead, [Next]_vars, sort = Oldest,
                      deleter.state = "paging", deleter'.state = "done"
               PROVE  Live' = {}
    OBVIOUS
  <2>1. PICK token \in 0..Len(issued), heard \in BOOLEAN : DeletePage(token, heard)
    <3>1. deleter' # deleter /\ deleter \in Deleter
      BY DEF Ahead
    <3>2. CASE StartDelete
      BY <3>2 DEF StartDelete
    <3>3. CASE DeleteRefused
      BY <3>1, <3>3 DEF DeleteRefused, Deleter
    <3>4. CASE Writes \/ StartList \/ ListPage \/ (\E n \in cached : Expire(n)) \/ UNCHANGED vars
      BY <3>1, <3>4 DEF Writes, Put, Remove, StartList, ListPage, Expire, vars
    <3> QED BY <3>2, <3>3, <3>4 DEF Next, Deletes
  <2> DEFINE rows == Matching(CursorOfToken(token))
  <2>2. ~HasMore(rows)
    BY <2>1 DEF DeletePage, Matching
  <2>3. PICK page \in Page(rows) :
          objs' = [id \in Ids |-> IF objs[id] \in page THEN NoObject ELSE objs[id]]
    BY <2>1, DeletePageFacts
  <2>4. page = Live
    BY <2>2, TokenSelectsAll, MatchingFinite, PageFacts DEF ObjectsOK
  <2>5. \A id \in Ids : objs'[id] = NoObject
    BY <2>3, <2>4, LiveFacts DEF ObjectsOK
  <2> QED BY <2>5 DEF Live
<1> QED BY <1>1, DeleteInvariant, PTL DEF Spec, DeleteComplete
=============================================================================
