------------------------------- MODULE Paging -------------------------------
(***************************************************************************)
(* Listing and bulk-deleting a collection page by page: the controller's   *)
(* List, DeleteBulk and paginate (pkg/api/ctrl.go), the pagination token   *)
(* (pkg/params/pagination.go), the sort order and the filters that turn a  *)
(* token into conditions (memory/storage/filters.go), and the nonce in the *)
(* cache that makes the token of a bulk delete single-use.                 *)
(*                                                                         *)
(* Every request is one transaction, hence one step here, and any requests *)
(* of other clients happen between two pages.  A delete request may be     *)
(* repeated by its client, answered late or never, or rolled back.         *)
(***************************************************************************)
EXTENDS Query, FiniteSets

CONSTANTS
  Ids,        \* object IDs
  Ranks,      \* values of the field "num", Null if it is missing
  Sorts,      \* the _sort parameters clients use: sequences of [field, descending]
  Limits,     \* the _limit parameters they use, at least 1 once clamped
  MaxTime,    \* bound: the largest epoch writers reach
  MaxTokens,  \* bound: the delete tokens a run issues
  NoObject    \* no object with an ID

Fields == {"last_modified", "num"}

ASSUME LimitAssumption == Limits \subseteq Nat \ {0}
ASSUME RanksAssumption == Ranks \subseteq Values
ASSUME SortAssumption ==
  /\ Sorts \subseteq Seq([field: Fields, descending: BOOLEAN])
  /\ \A s \in Sorts : \A i, j \in DOMAIN s : s[i].field = s[j].field => i = j

ASSUME BoundsAssumption == MaxTime \in Nat /\ MaxTokens \in Nat

\* An object has its epoch and one field that clients sort and filter by.
Object == [id: Ids, last_modified: Nat, num: Ranks]

ASSUME ObjectsAssumption == IsFiniteSet(Ids) /\ NoObject \notin Object

Get(o, field) == IF field = "last_modified" THEN Number(o.last_modified) ELSE o.num

VARIABLES
  sort,     \* the _sort parameter of both clients
  limit,    \* the _limit parameter of both clients
  objs,     \* [Ids -> the live object or NoObject]
  epoch,    \* the collection's epoch
  lister,   \* the listing client: its state, cursor and the objects it got
  deleter,  \* the deleting client: its state and the token it sends next
  cached,   \* the nonces in the cache
  issued,   \* the cursors of the tokens issued, a token's index is its nonce
  spent     \* history: the pages deleted for each token

vars == <<sort, limit, objs, epoch, lister, deleter, cached, issued, spent>>

NoCursor == [f \in {} |-> Null]
NoToken == 0

Init ==
  /\ sort \in Sorts /\ limit \in Limits
  /\ objs = [id \in Ids |-> NoObject]
  /\ epoch = 0
  /\ lister = [state |-> "idle", cursor |-> NoCursor, got |-> {}]
  /\ deleter = [state |-> "idle", token |-> NoToken]
  /\ cached = {}
  /\ issued = <<>>
  /\ spent = <<>>

Live == {objs[id] : id \in Ids} \ {NoObject}

-----------------------------------------------------------------------------
(* Sorting and filtering. *)

\* objectSlice.Less
Less(o, p) ==
  \E i \in DOMAIN sort :
    /\ \A j \in 1..i-1 : Get(o, sort[j].field) = Get(p, sort[j].field)
    /\ IF sort[i].descending
       THEN Before(Get(p, sort[i].field), Get(o, sort[i].field))
       ELSE Before(Get(o, sort[i].field), Get(p, sort[i].field))

\* newPagination: a token holds the last object's fields that are sorted by
\* and not null
CursorOf(o) ==
  LET sorted == {sort[i].field : i \in DOMAIN sort}
  IN  [f \in {g \in sorted : Get(o, g) # Null} |-> Get(o, f)]

\* Mutant of Conditions: they describe the object of the token, too.
ConditionsFrom(cursor) ==
  {[g \in DOMAIN cursor |-> [op |-> IF g = f THEN "min" ELSE "eq", values |-> <<cursor[g]>>]] :
     f \in DOMAIN cursor}

\* the ConditionSet of a token: one field is larger, the others are equal
Conditions(cursor) ==
  {[g \in DOMAIN cursor |-> [op |-> IF g = f THEN "gt" ELSE "eq", values |-> <<cursor[g]>>]] :
     f \in DOMAIN cursor}

\* paginationMatch
Matches(cursor, o) ==
  \/ Conditions(cursor) = {}
  \/ \E condition \in Conditions(cursor) :
       \A field \in DOMAIN condition : Match(Get(o, field), condition[field])

\* Mutant of Page: the objects the store returns are not limited to the first.
PageOfAny(rows) ==
  {page \in SUBSET rows : Cardinality(page) = IF limit < Cardinality(rows) THEN limit ELSE Cardinality(rows)}

\* The pages ListAll and paginate may cut off the objects that match: their
\* first limit in sort order, ties in any order.
Page(rows) ==
  {page \in SUBSET rows :
     /\ Cardinality(page) = IF limit < Cardinality(rows) THEN limit ELSE Cardinality(rows)
     /\ \A o \in page, p \in rows \ page : ~Less(p, o)}

\* Mutant of HasMore: no object beyond the page is asked for.
NeverMore(rows) == FALSE

\* one object more than the limit was found
HasMore(rows) == Cardinality(rows) > limit

\* the last object of a page, ties in any order
LastOf(page) == {o \in page : \A p \in page : ~Less(o, p)}

-----------------------------------------------------------------------------
(* Writers. *)

\* create or update: the store gives it a new epoch
Put(id, num, now) ==
  /\ now > epoch
  /\ epoch' = now
  /\ objs' = [objs EXCEPT ![id] = [id |-> id, last_modified |-> now, num |-> num]]
  /\ UNCHANGED <<sort, limit, lister, deleter, cached, issued, spent>>

Remove(id) ==
  /\ objs[id] # NoObject
  /\ objs' = [objs EXCEPT ![id] = NoObject]
  /\ epoch' = epoch + 1
  /\ UNCHANGED <<sort, limit, lister, deleter, cached, issued, spent>>

-----------------------------------------------------------------------------
(* GET, page by page. *)

StartList ==
  /\ lister.state = "idle"
  /\ lister' = [lister EXCEPT !.state = "paging"]
  /\ UNCHANGED <<sort, limit, objs, epoch, deleter, cached, issued, spent>>

ListPage ==
  /\ lister.state = "paging"
  /\ LET rows == {o \in Live : Matches(lister.cursor, o)}
     IN  \E page \in Page(rows) :
           /\ ~HasMore(rows)
                => lister' = [state |-> "done", cursor |-> NoCursor, got |-> lister.got \cup page]
           /\ HasMore(rows)
                => \E last \in LastOf(page) :
                     lister' = [state |-> "paging", cursor |-> CursorOf(last),
                                got |-> lister.got \cup page]
  /\ UNCHANGED <<sort, limit, objs, epoch, deleter, cached, issued, spent>>

-----------------------------------------------------------------------------
(* DELETE, page by page.  The client sends a request again when no answer   *)
(* came, and a request may come in late or twice, so any token that was     *)
(* issued may be received at any time.                                      *)

StartDelete ==
  /\ deleter.state = "idle"
  /\ deleter' = [state |-> "paging", token |-> NoToken]
  /\ UNCHANGED <<sort, limit, objs, epoch, lister, cached, issued, spent>>

\* Mutant of Spendable: any nonce will do.
AlwaysSpendable(token) == TRUE

\* a request without a token, or Cache.Del finds its nonce
Spendable(token) == token = NoToken \/ token \in cached

CursorOfToken(token) == IF token = NoToken THEN NoCursor ELSE issued[token]

Counted(token) == IF token = NoToken THEN spent ELSE [spent EXCEPT ![token] = @ + 1]

\* A page that is deleted: the request's nonce is spent, and if there is more
\* to delete a nonce is stored for the next page.  heard: the client gets the
\* answer it waits for.
DeletePage(token, heard) ==
  LET rows == {o \in Live : Matches(CursorOfToken(token), o)}
      next == Len(issued) + 1
  IN  /\ Spendable(token)
      /\ deleter.state # "idle"
      /\ heard => deleter = [state |-> "paging", token |-> token]
      /\ HasMore(rows) => next <= MaxTokens
      /\ \E page \in Page(rows) :
           /\ objs' = [id \in Ids |-> IF objs[id] \in page THEN NoObject ELSE objs[id]]
           /\ epoch' = epoch + Cardinality(page)
           /\ IF HasMore(rows)
              THEN /\ \E last \in LastOf(page) : issued' = Append(issued, CursorOf(last))
                   /\ cached' = (cached \ {token}) \cup {next}
                   /\ spent' = Append(Counted(token), 0)
              ELSE /\ cached' = cached \ {token}
                   /\ spent' = Counted(token)
                   /\ UNCHANGED issued
      /\ deleter' = CASE ~heard -> deleter
                      [] heard /\ HasMore(rows) -> [state |-> "paging", token |-> next]
                      [] OTHER -> [deleter EXCEPT !.state = "done"]
      /\ UNCHANGED <<sort, limit, lister>>

\* the client learns that its token was used already or has expired
DeleteRefused ==
  /\ deleter.state = "paging" /\ ~Spendable(deleter.token)
  /\ deleter' = [deleter EXCEPT !.state = "refused"]
  /\ UNCHANGED <<sort, limit, objs, epoch, lister, cached, issued, spent>>

\* token_validity has passed
Expire(token) ==
  /\ token \in cached
  /\ cached' = cached \ {token}
  /\ UNCHANGED <<sort, limit, objs, epoch, lister, deleter, issued, spent>>

-----------------------------------------------------------------------------

Writes ==
  \E id \in Ids :
    \/ Remove(id)
    \/ \E num \in Ranks, now \in 1..MaxTime : Put(id, num, now)

Deletes == \E token \in 0..Len(issued), heard \in BOOLEAN : DeletePage(token, heard)

Next ==
  \/ Writes
  \/ StartList \/ ListPage
  \/ StartDelete \/ Deletes \/ DeleteRefused
  \/ \E token \in cached : Expire(token)

Spec == Init /\ [][Next]_vars

-----------------------------------------------------------------------------
(* Properties. *)

\* the order of last change, in which a write moves an object behind the cursor
Oldest == <<[field |-> "last_modified", descending |-> FALSE]>>

\* When the last page arrives the client that lists in the order of last change
\* holds every object of the collection in its current version, whatever was
\* written and deleted between the pages (paginate, ctrl.go:375-410).
ListComplete ==
  [][sort = Oldest /\ lister.state = "paging" /\ lister'.state = "done"
       => Live \subseteq lister'.got]_vars

\* The same of every order that clients may ask for.
ListCompleteInAnyOrder ==
  [][lister.state = "paging" /\ lister'.state = "done" => Live \subseteq lister'.got]_vars

\* A page that is not the last brings limit objects the client did not have:
\* the listing neither repeats itself nor stands still.
PagesAdvance ==
  [][sort = Oldest /\ lister.state = "paging" /\ lister' # lister /\ lister'.state = "paging"
       => Cardinality(lister'.got \ lister.got) = limit]_vars

\* When the client of a bulk delete in the order of last change learns that it
\* was the last page nothing is left of the collection, whoever else wrote and
\* whichever of its requests were lost, late or repeated (DeleteBulk,
\* ctrl.go:83-136).
DeleteComplete ==
  [][sort = Oldest /\ deleter.state = "paging" /\ deleter'.state = "done" => Live' = {}]_vars

\* A pagination token deletes one page at most, however often it is sent
\* (Cache.Del of the nonce, ctrl.go:97-108).
SpentOnce == \A n \in DOMAIN spent : spent[n] <= 1

\* Whichever backend holds the collection, every filter selects the same of its
\* objects and every sort order is the same, whether fields and parameters have
\* a value or not ("NULL > NOT NULL", pkg/conn/storage/testdata/behaviour.go:595).
BackendsSelectAlike ==
  \A o, p \in Live : o.num \notin SelectedApart /\ SortedAlike(o.num, p.num)

\* what a client sorts by
SameKeys(o, p) == \A i \in DOMAIN sort : Get(o, sort[i].field) = Get(p, sort[i].field)

\* Sorting is well defined, whatever types the values of a field have: of two
\* objects one comes first unless they agree in every field that is sorted by,
\* and the order has no circle (objectSlice.Less, filters.go:19, which sort.Sort
\* relies on, as the cut of a page does).
SortOrderSound ==
  \A o, p, q \in Live :
    /\ ~(Less(o, p) /\ Less(p, o))
    /\ Less(o, p) \/ Less(p, o) <=> ~SameKeys(o, p)
    /\ Less(o, p) /\ Less(p, q) => Less(o, q)
=============================================================================
