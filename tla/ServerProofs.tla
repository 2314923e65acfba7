----------------------------- MODULE ServerProofs -----------------------------
(***************************************************************************)
(* Theorems about ReqTxn, for any requests and any choice of backends kept *)
(* in memory: types, what an answer promises, and what one request sees of *)
(* another; and about ServerLife, the process that serves these requests:  *)
(* they are served as ReqTxn says, on resources that are open, and what    *)
(* was opened is closed.                                                   *)
(*                                                                         *)
(* The inductive invariant of ReqTxn is stated per request.  A step of one *)
(* request changes nothing another request's part speaks of (Same), so     *)
(* every action is proved for the request that takes it alone.  That of    *)
(* ServerLife says what is held in each phase.                             *)
(***************************************************************************)
EXTENDS ServerLife, SequenceTheorems, TLAPS

Before == {"new", "begin", "auth", "work", "commit"}

\* Which transactions r has open follows from where it is.
OpenFits(r) ==
  /\ pc[r] \in {"new", "done"} => open[r] = {}
  /\ pc[r] \in {"new", "auth", "work"} => at[r] = 1
  /\ pc[r] = "begin" => \A i \in 1..3 : Order[i] \in open[r] <=> i < at[r]
  /\ pc[r] \in {"auth", "work"} => open[r] = Backends
  /\ pc[r] = "commit" => \A i \in 1..3 : Order[i] \in open[r] <=> i >= at[r]
  /\ pc[r] \in Before => answer[r] = "none"
  /\ answer[r] \in {"fine", "unavailable"} => open[r] = {}

\* An open transaction in memory owns the mutex.
MutexOwned(r) == \A b \in memory : b \in open[r] => holder[b] = r

\* What is visible of r before it has committed can still be undone.
Undoable(r) ==
  /\ pc[r] \in {"new", "begin", "auth"} => wrote[r] = {}
  /\ \A b \in Backends :
       /\ r \in visible[b] => b \in wrote[r]
       /\ r \in visible[b] /\ b \in open[r] => b \in memory
       /\ r \in visible[b] /\ b \notin open[r]
            => pc[r] = "commit" \/ answer[r] \in {"fine", "unavailable"}

\* What r has committed without an error is visible.
CommitsKept(r) ==
  /\ answer[r] = "unavailable" => failed[r]
  /\ \A b \in wrote[r] :
       /\ pc[r] = "commit" /\ ~failed[r] /\ b \notin open[r] => r \in visible[b]
       /\ answer[r] = "fine" => r \in visible[b]

ReqInv(r) == OpenFits(r) /\ MutexOwned(r) /\ Undoable(r) /\ CommitsKept(r)

Inv == TypeOK /\ \A r \in Requests : ReqInv(r)

-----------------------------------------------------------------------------
(* The order of the backends. *)

LEMMA OrderFacts ==
  /\ Order[1] = "store" /\ Order[2] = "perms" /\ Order[3] = "cache"
  /\ \A i \in 1..3 : Order[i] \in Backends
  /\ \A i, j \in 1..3 : Order[i] = Order[j] => i = j
  /\ \A b \in Backends : \E i \in 1..3 : b = Order[i]
<1>1. Order[1] = "store" /\ Order[2] = "perms" /\ Order[3] = "cache"
  BY DEF Order
<1>2. \A i \in 1..3 : i = 1 \/ i = 2 \/ i = 3
  OBVIOUS
<1>3. \A i \in 1..3 : Order[i] \in Backends
  BY <1>1, <1>2 DEF Backends
<1>4. \A i, j \in 1..3 : Order[i] = Order[j] => i = j
  BY <1>1, <1>2
<1>5. \A b \in Backends : \E i \in 1..3 : b = Order[i]
  <2> SUFFICES ASSUME NEW b \in Backends PROVE \E i \in 1..3 : b = Order[i]
    OBVIOUS
  <2>1. CASE b = "store"  BY <1>1, <2>1
  <2>2. CASE b = "perms"  BY <1>1, <2>2
  <2>3. CASE b = "cache"  BY <1>1, <2>3
  <2> QED BY <2>1, <2>2, <2>3 DEF Backends
<1> QED BY <1>1, <1>3, <1>4, <1>5

-----------------------------------------------------------------------------
(* A step of another request. *)

\* Nothing ReqInv(q) speaks of is changed.
Same(q) ==
  /\ memory' = memory
  /\ pc'[q] = pc[q] /\ at'[q] = at[q] /\ open'[q] = open[q]
  /\ wrote'[q] = wrote[q] /\ failed'[q] = failed[q] /\ answer'[q] = answer[q]
  /\ \A b \in Backends :
       /\ q \in visible'[b] <=> q \in visible[b]
       /\ holder[b] = q => holder'[b] = q

LEMMA SameKeeps ==
  ASSUME NEW q \in Requests, TypeOK, ReqInv(q), Same(q)
  PROVE  ReqInv(q)'
<1>1. memory \subseteq Backends /\ wrote[q] \subseteq Backends
  BY BackendsAssumption DEF TypeOK
<1>2. OpenFits(q)'
  BY DEF ReqInv, OpenFits, Same
<1>3. MutexOwned(q)'
  BY <1>1 DEF ReqInv, MutexOwned, Same
<1>4. Undoable(q)'
  BY DEF ReqInv, Undoable, Same
<1>5. CommitsKept(q)'
  BY <1>1 DEF ReqInv, CommitsKept, Same
<1> QED BY <1>2, <1>3, <1>4, <1>5 DEF ReqInv

\* A step that is good for r and the same to all others keeps the invariant.
LEMMA StepOf ==
  ASSUME Inv, NEW r \in Requests, TypeOK', ReqInv(r)',
         \A q \in Requests \ {r} : Same(q)
  PROVE  Inv'
<1> SUFFICES ASSUME NEW q \in Requests PROVE ReqInv(q)'
  BY DEF Inv
<1>1. CASE q = r  BY <1>1
<1>2. CASE q # r  BY <1>2, SameKeeps DEF Inv
<1> QED BY <1>1, <1>2

-----------------------------------------------------------------------------
(* One lemma per action. *)

LEMMA ArriveKeeps == ASSUME Inv, NEW r \in Requests, Arrive(r) PROVE Inv'
<1> USE DEF Arrive, Goto
<1>1. TypeOK'
  BY DEF Inv, TypeOK, Labels, Answers
<1>2. ReqInv(r)'
  <2>1. OpenFits(r)'
    BY DEF Inv, TypeOK, ReqInv, OpenFits, Before
  <2>2. MutexOwned(r)'
    BY DEF Inv, TypeOK, ReqInv, MutexOwned
  <2>3. Undoable(r)'
    BY DEF Inv, TypeOK, ReqInv, OpenFits, Undoable, Before
  <2>4. CommitsKept(r)'
    BY DEF Inv, TypeOK, ReqInv, OpenFits, CommitsKept, Before
  <2> QED BY <2>1, <2>2, <2>3, <2>4 DEF ReqInv
<1>3. \A q \in Requests \ {r} : Same(q)
  BY DEF Inv, TypeOK, Same
<1> QED BY <1>1, <1>2, <1>3, StepOf

LEMMA BeginFailsKeeps == ASSUME Inv, NEW r \in Requests, BeginFails(r) PROVE Inv'
<1> USE DEF BeginFails, Goto
<1>1. TypeOK'
  BY DEF Inv, TypeOK, Labels, Answers
<1>2. ReqInv(r)'
  <2>1. OpenFits(r)'
    BY DEF Inv, TypeOK, ReqInv, OpenFits, Before
  <2>2. MutexOwned(r)'
    BY DEF Inv, TypeOK, ReqInv, MutexOwned
  <2>3. Undoable(r)'
    BY DEF Inv, TypeOK, ReqInv, OpenFits, Undoable, Before
  <2>4. CommitsKept(r)'
    BY DEF Inv, TypeOK, ReqInv, OpenFits, CommitsKept, Before
  <2> QED BY <2>1, <2>2, <2>3, <2>4 DEF ReqInv
<1>3. \A q \in Requests \ {r} : Same(q)
  BY DEF Inv, TypeOK, Same
<1> QED BY <1>1, <1>2, <1>3, StepOf

LEMMA AuthenticateKeeps == ASSUME Inv, NEW r \in Requests, Authenticate(r) PROVE Inv'
<1> USE DEF Authenticate, Goto
<1>1. TypeOK'
  BY DEF Inv, TypeOK, Labels, Answers
<1>2. ReqInv(r)'
  <2>1. OpenFits(r)'
    BY DEF Inv, TypeOK, ReqInv, OpenFits, Before
  <2>2. MutexOwned(r)'
    BY DEF Inv, TypeOK, ReqInv, MutexOwned
  <2>3. Undoable(r)'
    BY DEF Inv, TypeOK, ReqInv, OpenFits, Undoable, Before
  <2>4. CommitsKept(r)'
    BY DEF Inv, TypeOK, ReqInv, OpenFits, CommitsKept, Before
  <2> QED BY <2>1, <2>2, <2>3, <2>4 DEF ReqInv
<1>3. \A q \in Requests \ {r} : Same(q)
  BY DEF Inv, TypeOK, Same
<1> QED BY <1>1, <1>2, <1>3, StepOf

LEMMA AuthFailsKeeps == ASSUME Inv, NEW r \in Requests, AuthFails(r) PROVE Inv'
<1> USE DEF AuthFails, Goto
<1>1. TypeOK'
  BY DEF Inv, TypeOK, Labels, Answers
<1>2. ReqInv(r)'
  <2>1. OpenFits(r)'
    BY DEF Inv, TypeOK, ReqInv, OpenFits, Before
  <2>2. MutexOwned(r)'
    BY DEF Inv, TypeOK, ReqInv, MutexOwned
  <2>3. Undoable(r)'
    BY DEF Inv, TypeOK, ReqInv, OpenFits, Undoable, Before
  <2>4. CommitsKept(r)'
    BY DEF Inv, TypeOK, ReqInv, OpenFits, CommitsKept, Before
  <2> QED BY <2>1, <2>2, <2>3, <2>4 DEF ReqInv
<1>3. \A q \in Requests \ {r} : Same(q)
  BY DEF Inv, TypeOK, Same
<1> QED BY <1>1, <1>2, <1>3, StepOf

LEMMA RespondKeeps == ASSUME Inv, NEW r \in Requests, Respond(r) PROVE Inv'
<1> USE DEF Respond, Goto
<1>1. TypeOK'
  BY DEF Inv, TypeOK, Labels, Answers
<1>2. ReqInv(r)'
  <2>1. OpenFits(r)'
    BY OrderFacts DEF Inv, TypeOK, ReqInv, OpenFits, Before
  <2>2. MutexOwned(r)'
    BY DEF Inv, TypeOK, ReqInv, MutexOwned
  <2>3. Undoable(r)'
    BY DEF Inv, TypeOK, ReqInv, OpenFits, Undoable, Before
  <2>4. CommitsKept(r)'
    BY DEF Inv, TypeOK, ReqInv, OpenFits, CommitsKept, Before
  <2> QED BY <2>1, <2>2, <2>3, <2>4 DEF ReqInv
<1>3. \A q \in Requests \ {r} : Same(q)
  BY DEF Inv, TypeOK, Same
<1> QED BY <1>1, <1>2, <1>3, StepOf

LEMMA RespondErrorKeeps == ASSUME Inv, NEW r \in Requests, RespondError(r) PROVE Inv'
<1> USE DEF RespondError, Goto
<1>1. TypeOK'
  BY DEF Inv, TypeOK, Labels, Answers
<1>2. ReqInv(r)'
  <2>1. OpenFits(r)'
    BY DEF Inv, TypeOK, ReqInv, OpenFits, Before
  <2>2. MutexOwned(r)'
    BY DEF Inv, TypeOK, ReqInv, MutexOwned
  <2>3. Undoable(r)'
    BY DEF Inv, TypeOK, ReqInv, OpenFits, Undoable, Before
  <2>4. CommitsKept(r)'
    BY DEF Inv, TypeOK, ReqInv, OpenFits, CommitsKept, Before
  <2> QED BY <2>1, <2>2, <2>3, <2>4 DEF ReqInv
<1>3. \A q \in Requests \ {r} : Same(q)
  BY DEF Inv, TypeOK, Same
<1> QED BY <1>1, <1>2, <1>3, StepOf

LEMMA PanicKeeps == ASSUME Inv, NEW r \in Requests, Panic(r) PROVE Inv'
<1> USE DEF Panic, Goto
<1>1. TypeOK'
  BY DEF Inv, TypeOK, Labels, Answers
<1>2. ReqInv(r)'
  <2>1. OpenFits(r)'
    BY DEF Inv, TypeOK, ReqInv, OpenFits, Before
  <2>2. MutexOwned(r)'
    BY DEF Inv, TypeOK, ReqInv, MutexOwned
  <2>3. Undoable(r)'
    BY DEF Inv, TypeOK, ReqInv, OpenFits, Undoable, Before
  <2>4. CommitsKept(r)'
    BY DEF Inv, TypeOK, ReqInv, OpenFits, CommitsKept, Before
  <2> QED BY <2>1, <2>2, <2>3, <2>4 DEF ReqInv
<1>3. \A q \in Requests \ {r} : Same(q)
  BY DEF Inv, TypeOK, Same
<1> QED BY <1>1, <1>2, <1>3, StepOf

LEMMA FinishKeeps == ASSUME Inv, NEW r \in Requests, Finish(r) PROVE Inv'
<1> USE DEF Finish, Goto
<1>1. TypeOK'
  BY DEF Inv, TypeOK, Labels, Answers
<1>2. ReqInv(r)'
  <2>1. OpenFits(r)'
    BY DEF Inv, TypeOK, ReqInv, OpenFits, Before
  <2>2. MutexOwned(r)'
    BY DEF Inv, TypeOK, ReqInv, MutexOwned
  <2>3. Undoable(r)'
    BY DEF Inv, TypeOK, ReqInv, OpenFits, Undoable, Before
  <2>4. CommitsKept(r)'
    BY DEF Inv, TypeOK, ReqInv, OpenFits, CommitsKept, Before
  <2> QED BY <2>1, <2>2, <2>3, <2>4 DEF ReqInv
<1>3. \A q \in Requests \ {r} : Same(q)
  BY DEF Inv, TypeOK, Same
<1> QED BY <1>1, <1>2, <1>3, StepOf

LEMMA BeginKeeps == ASSUME Inv, NEW r \in Requests, Begin(r) PROVE Inv'
<1> DEFINE b == Order[at[r]]
<1> USE DEF Begin, Goto
<1>1. at[r] \in 1..3 /\ b \in Backends /\ memory \subseteq Backends
  BY OrderFacts, BackendsAssumption DEF Inv, TypeOK
<1>2. TypeOK'
  BY <1>1 DEF Inv, TypeOK, Labels
<1>3. ReqInv(r)'
  <2>1. OpenFits(r)'
    <3>1. open'[r] = open[r] \cup {b} /\ answer'[r] = "none"
      BY DEF Inv, TypeOK, ReqInv, OpenFits, Before
    <3>2. \A i \in 1..3 : Order[i] \in open'[r] <=> i <= at[r]
      <4>1. \A i \in 1..3 : Order[i] \in open[r] <=> i < at[r]
        BY DEF Inv, ReqInv, OpenFits
      <4>2. \A i \in 1..3 : Order[i] = b <=> i = at[r]
        BY <1>1, OrderFacts
      <4> HIDE DEF b
      <4> QED BY <1>1, <3>1, <4>1, <4>2
    <3>3. CASE at[r] = 3
      <4>1. pc'[r] = "auth" /\ at'[r] = 1
        BY <3>3 DEF Inv, TypeOK
      <4>2. \A c \in Backends : c \in open'[r]
        BY <3>2, <3>3, OrderFacts
      <4>3. open'[r] = Backends
        BY <4>2, <1>2 DEF TypeOK
      <4> QED BY <3>1, <4>1, <4>3 DEF OpenFits
    <3>4. CASE at[r] # 3
      <4>1. pc'[r] = "begin" /\ at'[r] = at[r] + 1
        BY <3>4 DEF Inv, TypeOK
      <4> QED BY <1>1, <3>1, <3>2, <4>1 DEF OpenFits
    <3> QED BY <3>3, <3>4
  <2>2. MutexOwned(r)'
    BY <1>1 DEF Inv, TypeOK, ReqInv, MutexOwned
  <2>3. Undoable(r)'
    BY DEF Inv, TypeOK, ReqInv, OpenFits, Undoable, Before
  <2>4. CommitsKept(r)'
    BY DEF Inv, TypeOK, ReqInv, OpenFits, Undoable, CommitsKept, Before
  <2> QED BY <2>1, <2>2, <2>3, <2>4 DEF ReqInv
<1>4. \A q \in Requests \ {r} : Same(q)
  BY <1>1, OwnersAssumption DEF Inv, TypeOK, Same
<1> QED BY <1>2, <1>3, <1>4, StepOf

LEMMA ReadKeeps ==
  ASSUME Inv, NEW r \in Requests, NEW b \in Backends, Read(r, b) PROVE Inv'
<1> USE DEF Read
<1>1. TypeOK'
  <2>1. [read |-> TRUE, of |-> visible[b]] \in [read: BOOLEAN, of: SUBSET Requests]
    BY DEF Inv, TypeOK
  <2> QED BY <2>1 DEF Inv, TypeOK
<1>2. \A q \in Requests : Same(q)
  BY DEF Inv, TypeOK, Same
<1>3. ReqInv(r)'
  BY <1>2, SameKeeps DEF Inv
<1> QED BY <1>1, <1>2, <1>3, StepOf

LEMMA WriteKeeps ==
  ASSUME Inv, NEW r \in Requests, NEW b \in Backends, Write(r, b) PROVE Inv'
<1> USE DEF Write
<1>1. TypeOK'
  BY DEF Inv, TypeOK
<1>2. pc[r] = "work" /\ open[r] = Backends /\ answer[r] = "none"
  BY DEF Inv, ReqInv, OpenFits, Before
<1>3. ReqInv(r)'
  <2>1. OpenFits(r)' /\ MutexOwned(r)'
    BY DEF Inv, TypeOK, ReqInv, OpenFits, MutexOwned
  <2>2. wrote'[r] = wrote[r] \cup {b}
    BY DEF Inv, TypeOK
  <2>3. Undoable(r)'
    BY <1>2, <2>2 DEF Inv, TypeOK, ReqInv, Undoable
  <2>4. CommitsKept(r)'
    BY <1>2 DEF Inv, TypeOK, ReqInv, CommitsKept
  <2> QED BY <2>1, <2>3, <2>4 DEF ReqInv
<1>4. \A q \in Requests \ {r} : Same(q)
  BY DEF Inv, TypeOK, Same
<1> QED BY <1>1, <1>3, <1>4, StepOf

LEMMA AbortKeeps ==
  ASSUME Inv, NEW r \in Requests, NEW b \in Backends, Abort(r, b) PROVE Inv'
<1>1. TypeOK'
  BY DEF Inv, TypeOK, Abort
<1>2. \A q \in Requests : Same(q)
  BY DEF Inv, TypeOK, Same, Abort
<1> QED BY <1>1, <1>2, SameKeeps DEF Inv

LEMMA ReapKeeps == ASSUME Inv, Reap \/ ReapDone PROVE Inv'
<1>1. TypeOK'
  BY DEF Inv, TypeOK, Reap, ReapDone
<1>2. \A q \in Requests : Same(q)
  BY OwnersAssumption DEF Inv, TypeOK, Same, Reap, ReapDone
<1> QED BY <1>1, <1>2, SameKeeps DEF Inv

-----------------------------------------------------------------------------
(* Commit and Rollback. *)

\* what one round of Commit does to its own request, whether it fails or not
CommitRound(r, fails) ==
  /\ pc[r] = "commit"
  /\ Close(r, Order[at[r]])
  /\ NextCommit(r, fails)
  /\ UNCHANGED <<memory, wrote, seen, aborted>>
  /\ \A b \in Backends \ {Order[at[r]]} : visible'[b] = visible[b]
  /\ \/ visible' = visible
     \/ /\ Order[at[r]] \in wrote[r]
        /\ visible' = [visible EXCEPT ![Order[at[r]]] = @ \cup {r}]
  /\ Order[at[r]] \in wrote[r] /\ ~fails => r \in visible'[Order[at[r]]]

LEMMA CommitIsRound ==
  ASSUME Inv, NEW r \in Requests, Commit(r) PROVE CommitRound(r, FALSE)
BY OrderFacts DEF Inv, TypeOK, Commit, CommitRound

LEMMA CommitFailsIsRound ==
  ASSUME Inv, NEW r \in Requests, CommitFails(r) PROVE CommitRound(r, TRUE)
BY OrderFacts DEF Inv, TypeOK, CommitFails, CommitRound

LEMMA CommitRoundKeeps ==
  ASSUME Inv, NEW r \in Requests, NEW fails \in BOOLEAN, CommitRound(r, fails)
  PROVE  Inv'
<1> DEFINE b == Order[at[r]]
<1> USE DEF CommitRound, NextCommit, Close, Goto
<1>1. at[r] \in 1..3 /\ b \in Backends /\ memory \subseteq Backends
  BY OrderFacts, BackendsAssumption DEF Inv, TypeOK
<1>2. b \in open[r] /\ (b \in memory => holder[b] = r) /\ answer[r] = "none"
  BY <1>1 DEF Inv, ReqInv, OpenFits, MutexOwned, Before
<1>3. failed'[r] \in BOOLEAN /\ failed'[r] = (failed[r] \/ fails)
  BY DEF Inv, TypeOK
<1>4. TypeOK'
  <2>1. answer' \in [Requests -> Answers]
    BY <1>3 DEF Inv, TypeOK, Answers
  <2>2. visible' \in [Backends -> SUBSET Requests]
    <3>1. visible \in [Backends -> SUBSET Requests]
      BY DEF Inv, TypeOK
    <3>2. CASE visible' = visible  BY <3>1, <3>2
    <3>3. CASE visible' = [visible EXCEPT ![b] = @ \cup {r}]
      <4> HIDE DEF b
      <4> QED BY <1>1, <3>1, <3>3
    <3> QED BY <3>2, <3>3
  <2>3. failed' \in [Requests -> BOOLEAN]
    BY DEF Inv, TypeOK
  <2>4. pc' \in [Requests -> Labels] /\ at' \in [Requests -> 1..3]
    BY <1>1 DEF Inv, TypeOK, Labels
  <2> QED BY <2>1, <2>2, <2>3, <2>4, <1>1 DEF Inv, TypeOK
<1>5. open'[r] = open[r] \ {b}
  BY DEF Inv, TypeOK
<1>6. \A i \in 1..3 : Order[i] \in open'[r] <=> i > at[r]
  <2>1. \A i \in 1..3 : Order[i] \in open[r] <=> i >= at[r]
    BY DEF Inv, ReqInv, OpenFits
  <2>2. \A i \in 1..3 : Order[i] = b <=> i = at[r]
    BY <1>1, OrderFacts
  <2> HIDE DEF b
  <2> QED BY <1>1, <1>5, <2>1, <2>2
<1>7. MutexOwned(r)'
  BY <1>1, <1>5 DEF Inv, TypeOK, ReqInv, MutexOwned
<1>8. \A c \in Backends : r \in visible'[c] => c \in wrote[r]
  BY <1>1 DEF Inv, TypeOK, ReqInv, Undoable
<1>9. \A c \in open'[r] : visible'[c] = visible[c]
  BY <1>5, <1>4 DEF TypeOK
<1>10. ASSUME at[r] = 3 PROVE ReqInv(r)'
  <2>1. pc'[r] = "undo" /\ at'[r] = 1
        /\ answer'[r] = IF failed'[r] THEN "unavailable" ELSE "fine"
    BY <1>10 DEF Inv, TypeOK
  <2>2. \A c \in Backends : c \notin open'[r]
    BY <1>6, <1>10, OrderFacts
  <2>3. open'[r] = {}
    BY <2>2, <1>4 DEF TypeOK
  <2>4. OpenFits(r)'
    BY <2>1, <2>3 DEF OpenFits, Before
  <2>5. Undoable(r)'
    BY <2>1, <2>3, <1>8, <1>3 DEF Undoable
  <2>6. CommitsKept(r)'
    <3>1. ASSUME NEW c \in wrote[r], ~failed'[r] PROVE r \in visible'[c]
      <4>1. c \in Backends /\ ~failed[r] /\ ~fails
        BY <3>1, <1>3 DEF Inv, TypeOK
      <4>2. CASE c = b  BY <4>1, <4>2, <3>1
      <4>3. CASE c # b
        BY <4>1, <4>3, <2>3, <1>5 DEF Inv, ReqInv, CommitsKept
      <4> QED BY <4>2, <4>3
    <3> QED BY <2>1, <3>1 DEF CommitsKept
  <2> QED BY <2>4, <1>7, <2>5, <2>6 DEF ReqInv
<1>11. ASSUME at[r] # 3 PROVE ReqInv(r)'
  <2>1. pc'[r] = "commit" /\ at'[r] = at[r] + 1 /\ answer'[r] = "none"
    BY <1>11, <1>2 DEF Inv, TypeOK
  <2>4. OpenFits(r)'
    BY <1>1, <2>1, <1>6 DEF OpenFits, Before
  <2>5. Undoable(r)'
    <3>1. \A c \in Backends : r \in visible'[c] /\ c \in open'[r] => c \in memory
      BY <1>5, <1>9 DEF Inv, ReqInv, Undoable
    <3> QED BY <2>1, <1>8, <3>1 DEF Undoable
  <2>6. CommitsKept(r)'
    <3>1. ASSUME NEW c \in wrote[r], ~failed'[r], c \notin open'[r] PROVE r \in visible'[c]
      <4>1. c \in Backends /\ ~failed[r] /\ ~fails
        BY <3>1, <1>3 DEF Inv, TypeOK
      <4>2. CASE c = b  BY <4>1, <4>2, <3>1
      <4>3. CASE c # b
        BY <4>1, <4>3, <3>1, <1>5 DEF Inv, ReqInv, CommitsKept
      <4> QED BY <4>2, <4>3
    <3> QED BY <2>1, <3>1 DEF CommitsKept
  <2> QED BY <2>4, <1>7, <2>5, <2>6 DEF ReqInv
<1>12. ReqInv(r)'
  BY <1>10, <1>11
<1>13. \A q \in Requests \ {r} : Same(q)
  BY <1>1, <1>2, OwnersAssumption DEF Inv, TypeOK, Same
<1> QED BY <1>4, <1>12, <1>13, StepOf

LEMMA RollbackKeeps == ASSUME Inv, NEW r \in Requests, Rollback(r) PROVE Inv'
<1> USE DEF Rollback, Close
<1>1. PICK b \in Backends : b \in open[r] /\ Close(r, b) /\ visible' = Undone(r, b)
  BY OrderFacts
<1>2. memory \subseteq Backends /\ (b \in memory => holder[b] = r)
  BY <1>1, BackendsAssumption DEF Inv, TypeOK, ReqInv, MutexOwned
<1>3. TypeOK'
  BY <1>1, <1>2 DEF Inv, TypeOK, Undone
<1>4. pc[r] = "undo" /\ open'[r] = open[r] \ {b} /\ answer[r] \notin {"fine", "unavailable"}
  BY <1>1 DEF Inv, TypeOK, ReqInv, OpenFits
<1>5. \A c \in Backends : r \in visible'[c] => r \in visible[c] /\ (c = b => b \notin memory)
  BY <1>1 DEF Inv, TypeOK, Undone
<1>6. ReqInv(r)'
  <2>1. OpenFits(r)'
    BY <1>4 DEF Inv, ReqInv, OpenFits, Before
  <2>2. MutexOwned(r)'
    BY <1>1, <1>2, <1>4 DEF Inv, TypeOK, ReqInv, MutexOwned
  <2>3. Undoable(r)'
    BY <1>1, <1>4, <1>5 DEF Inv, ReqInv, Undoable
  <2>4. CommitsKept(r)'
    BY <1>4 DEF Inv, ReqInv, CommitsKept
  <2> QED BY <2>1, <2>2, <2>3, <2>4 DEF ReqInv
<1>7. \A q \in Requests \ {r} : Same(q)
  BY <1>1, <1>2, OwnersAssumption DEF Inv, TypeOK, Same, Undone
<1> QED BY <1>3, <1>6, <1>7, StepOf

-----------------------------------------------------------------------------
(* The invariant and what follows from it. *)

LEMMA InvInit == Init => Inv
<1> SUFFICES ASSUME Init PROVE Inv
  OBVIOUS
<1>1. TypeOK
  BY BackendsAssumption DEF Init, TypeOK, Labels, Answers, NotRead, Backends
<1>2. ASSUME NEW r \in Requests PROVE ReqInv(r)
  BY OrderFacts DEF Init, ReqInv, OpenFits, MutexOwned, Undoable, CommitsKept, Before
<1> QED BY <1>1, <1>2 DEF Inv

LEMMA InvNext == Inv /\ [Next]_vars => Inv'
<1> SUFFICES ASSUME Inv, [Next]_vars PROVE Inv'
  OBVIOUS
<1>1. ASSUME NEW r \in Requests, Arrive(r) PROVE Inv'
  BY <1>1, ArriveKeeps
<1>2. ASSUME NEW r \in Requests, Begin(r) \/ BeginFails(r) PROVE Inv'
  BY <1>2, BeginKeeps, BeginFailsKeeps
<1>3. ASSUME NEW r \in Requests, Authenticate(r) \/ AuthFails(r) PROVE Inv'
  BY <1>3, AuthenticateKeeps, AuthFailsKeeps
<1>4. ASSUME NEW r \in Requests, NEW b \in Backends,
             Read(r, b) \/ Write(r, b) \/ Abort(r, b)
      PROVE  Inv'
  BY <1>4, ReadKeeps, WriteKeeps, AbortKeeps
<1>5. ASSUME NEW r \in Requests, Respond(r) \/ RespondError(r) \/ Panic(r) PROVE Inv'
  BY <1>5, RespondKeeps, RespondErrorKeeps, PanicKeeps
<1>6. ASSUME NEW r \in Requests, Commit(r) \/ CommitFails(r) PROVE Inv'
  BY <1>6, CommitIsRound, CommitFailsIsRound, CommitRoundKeeps
<1>7. ASSUME NEW r \in Requests, Rollback(r) \/ Finish(r) PROVE Inv'
  BY <1>7, RollbackKeeps, FinishKeeps
<1>8. CASE UNCHANGED vars
  <2>1. TypeOK'
    BY <1>8 DEF Inv, TypeOK, vars
  <2>2. \A q \in Requests : Same(q)
    BY <1>8 DEF Same, vars
  <2> QED BY <2>1, <2>2, SameKeeps DEF Inv
<1> QED BY <1>1, <1>2, <1>3, <1>4, <1>5, <1>6, <1>7, <1>8, ReapKeeps DEF Next

\* Every variable keeps its type.
THEOREM ReqTypeCorrect == Spec => []TypeOK
<1>1. Inv => TypeOK
  BY DEF Inv
<1> QED BY <1>1, InvInit, InvNext, PTL DEF Spec

\* A response below 500 is sent only when every backend kept what the request
\* wrote (WriteHeader, middleware.go:135-148).
THEOREM FineIsKept == Spec => []FineMeansKept
<1>1. Inv => FineMeansKept
  BY DEF Inv, ReqInv, CommitsKept, FineMeansKept
<1> QED BY <1>1, InvInit, InvNext, PTL DEF Spec

\* A request that failed before it committed leaves nothing behind (the
\* deferred Rollback, middleware.go:100).
THEOREM ErrorsLeaveNothing == Spec => []ErrorLeavesNothing
<1>1. Inv => ErrorLeavesNothing
  BY DEF Inv, ReqInv, OpenFits, Undoable, ErrorLeavesNothing
<1> QED BY <1>1, InvInit, InvNext, PTL DEF Spec

-----------------------------------------------------------------------------
(* The mutexes. *)

\* A mutex belongs to a transaction that is open in its backend, and only
\* databases refuse statements.
Owners ==
  /\ \A b \in Backends, w \in Requests : holder[b] = w => b \in memory /\ b \in open[w]
  /\ \A w \in Requests : aborted[w] \cap memory = {}

LEMMA CloseOwners ==
  ASSUME TypeOK, Owners, NEW r \in Requests, NEW b \in Backends, Close(r, b),
         memory' = memory, aborted' = aborted
  PROVE  Owners'
<1>1. \A c \in Backends : holder'[c] \in {holder[c], Nobody} /\ (c = b /\ b \in memory => holder'[c] = Nobody)
  BY DEF Close, TypeOK
<1>2. /\ \A w \in Requests \ {r} : open'[w] = open[w]
      /\ open'[r] = open[r] \ {b}
  BY DEF Close, TypeOK
<1>3. ASSUME NEW c \in Backends, NEW w \in Requests, holder'[c] = w
      PROVE  c \in memory /\ c \in open'[w]
  <2>1. holder[c] = w /\ ~(c = b /\ b \in memory)
    BY <1>1, <1>3, OwnersAssumption
  <2>2. c \in memory /\ c \in open[w]
    BY <2>1 DEF Owners
  <2> QED BY <1>2, <2>1, <2>2
<1> QED BY <1>3 DEF Owners

LEMMA OwnersNext == Inv /\ Owners /\ [Next]_vars => Owners'
<1> SUFFICES ASSUME Inv, Owners, [Next]_vars PROVE Owners'
  OBVIOUS
<1>1. TypeOK
  BY DEF Inv
<1>2. ASSUME NEW r \in Requests, Begin(r) PROVE Owners'
  <2> DEFINE b == Order[at[r]]
  <2>1. /\ b \in Backends /\ memory' = memory /\ aborted' = aborted
        /\ \A w \in Requests \ {r} : open'[w] = open[w]
        /\ open'[r] = open[r] \cup {b}
        /\ \A c \in Backends : holder'[c] = IF c = b /\ b \in memory THEN r ELSE holder[c]
    BY <1>1, <1>2, OrderFacts DEF Begin, TypeOK
  <2> HIDE DEF b
  <2> QED BY <2>1 DEF Owners
<1>3. ASSUME NEW r \in Requests,
             \/ Arrive(r) \/ BeginFails(r) \/ Authenticate(r) \/ AuthFails(r)
             \/ Respond(r) \/ RespondError(r) \/ Panic(r) \/ Finish(r)
      PROVE  Owners'
  BY <1>3 DEF Arrive, BeginFails, Authenticate, AuthFails, Respond, RespondError, Panic, Finish, Owners
<1>4. ASSUME NEW r \in Requests, NEW b \in Backends, Read(r, b) \/ Write(r, b) PROVE Owners'
  BY <1>4 DEF Read, Write, Owners
<1>5. ASSUME NEW r \in Requests, NEW b \in Backends, Abort(r, b) PROVE Owners'
  BY <1>1, <1>5 DEF Abort, Owners, TypeOK
<1>6. ASSUME NEW r \in Requests, Commit(r) \/ CommitFails(r) PROVE Owners'
  <2>1. Order[at[r]] \in Backends
    BY <1>1, OrderFacts DEF TypeOK
  <2>2. Close(r, Order[at[r]]) /\ memory' = memory /\ aborted' = aborted
    BY <1>6 DEF Commit, CommitFails
  <2> QED BY <1>1, <2>1, <2>2, CloseOwners
<1>7. ASSUME NEW r \in Requests, Rollback(r) PROVE Owners'
  <2>1. PICK i \in 1..3 : Close(r, Order[i])
    BY <1>7 DEF Rollback
  <2>2. Order[i] \in Backends /\ memory' = memory /\ aborted' = aborted
    BY <1>7, OrderFacts DEF Rollback
  <2> QED BY <1>1, <2>1, <2>2, CloseOwners
<1>8. CASE Reap \/ ReapDone
  <2>1. \A c \in Backends : holder'[c] \in {holder[c], Reaper, Nobody}
    BY <1>1, <1>8 DEF Reap, ReapDone, TypeOK
  <2>2. memory' = memory /\ aborted' = aborted /\ open' = open
    BY <1>8 DEF Reap, ReapDone
  <2> QED BY <2>1, <2>2, OwnersAssumption DEF Owners
<1>9. CASE UNCHANGED vars
  BY <1>9 DEF vars, Owners
<1> QED BY <1>2, <1>3, <1>4, <1>5, <1>6, <1>7, <1>8, <1>9 DEF Next

\* No path of a request loses a mutex and no two requests wait for each other
\* (NewTxn, Commit and Rollback, txn.go:42-88): who holds one can go on, or
\* waits for one further on, and nobody waits with the last.
THEOREM LocksInOrder == Spec => []LocksOrdered
<1>1. Init => Owners
  BY OwnersAssumption DEF Init, Owners
<1>2. Inv /\ Owners => LocksOrdered
  BY DEF Inv, ReqInv, OpenFits, Owners, LocksOrdered
<1> QED BY <1>1, <1>2, InvInit, InvNext, OwnersNext, PTL DEF Spec

-----------------------------------------------------------------------------
(* All backends in memory: what a request sees of the others. *)

\* While r works nobody else is answered or commits: what it has read of a
\* backend is all that successful requests left there.
SeenComplete(r) ==
  /\ pc[r] \in {"new", "begin", "auth"} => \A b \in Backends : ~seen[r][b].read
  /\ \A w \in Requests \ {r}, c \in Backends :
       pc[r] = "work" /\ seen[r][c].read /\ answer[w] = "fine" /\ c \in wrote[w]
         => w \in seen[r][c].of

\* What r has read of w: ReadsWhole for two requests.
SawWhole(r, w) ==
  \A b, c \in Backends :
    seen[r][b].read /\ seen[r][c].read /\ w \in seen[r][b].of
      => /\ answer[w] = "fine"
         /\ w \in visible[b]
         /\ c \in wrote[w] => w \in seen[r][c].of

MemInv ==
  memory = Backends =>
    /\ \A r \in Requests : ~failed[r] /\ SeenComplete(r)
    /\ \A r \in Requests : \A w \in Requests \ {r} : SawWhole(r, w)

\* A request that is handled holds every mutex, so no other has anything open.
LEMMA WorkerAlone ==
  ASSUME Inv, memory = Backends, NEW r \in Requests, pc[r] \in {"auth", "work"},
         NEW w \in Requests \ {r}
  PROVE  open[w] = {} /\ pc[w] \notin {"auth", "work", "commit"}
<1>1. \A b \in Backends : holder[b] = r
  BY DEF Inv, ReqInv, OpenFits, MutexOwned
<1>2. open[w] = {}
  BY <1>1 DEF Inv, TypeOK, ReqInv, MutexOwned
<1>3. at[w] \in 1..3 /\ at[w] >= at[w]
  BY DEF Inv, TypeOK
<1>4. /\ pc[w] = "commit" => Order[at[w]] \in open[w]
      /\ pc[w] \in {"auth", "work"} => "store" \in open[w]
  BY <1>3 DEF Inv, ReqInv, OpenFits, Backends
<1> QED BY <1>2, <1>4

\* What a request that works finds in a backend was left by requests that
\* succeeded, and is all that they left.
LEMMA WorkerFinds ==
  ASSUME Inv, MemInv, memory = Backends, NEW r \in Requests, pc[r] = "work",
         NEW w \in Requests \ {r}, NEW b \in Backends
  PROVE  /\ w \in visible[b] => answer[w] = "fine"
         /\ answer[w] = "fine" /\ b \in wrote[w] => w \in visible[b]
<1>1. open[w] = {} /\ pc[w] # "commit"
  BY WorkerAlone
<1>2. ~failed[w]
  BY DEF MemInv
<1> QED BY <1>1, <1>2 DEF Inv, ReqInv, Undoable, CommitsKept

Unread == {"new", "begin", "auth"}

\* A step that reads nothing and lets no request succeed.
Calm ==
  /\ memory' = memory /\ seen' = seen /\ failed' = failed
  /\ \A w \in Requests :
       /\ pc'[w] \in Unread => pc[w] \in Unread
       /\ pc'[w] = "work" => pc[w] \in {"auth", "work"}
       /\ answer'[w] = "fine" <=> answer[w] = "fine"
       /\ answer[w] = "fine" => /\ wrote'[w] = wrote[w]
                                /\ \A b \in Backends : w \in visible[b] => w \in visible'[b]

LEMMA CalmKeeps == ASSUME Inv, MemInv, Calm PROVE MemInv'
<1> SUFFICES ASSUME memory' = Backends
             PROVE  /\ \A r \in Requests : ~failed'[r] /\ SeenComplete(r)'
                    /\ \A r \in Requests : \A w \in Requests \ {r} : SawWhole(r, w)'
  BY DEF MemInv
<1>1. memory = Backends
  BY DEF Calm
<1>2. ASSUME NEW r \in Requests PROVE ~failed'[r] /\ SeenComplete(r)'
  BY <1>1 DEF MemInv, SeenComplete, Calm, Unread
<1>3. ASSUME NEW r \in Requests, NEW w \in Requests \ {r} PROVE SawWhole(r, w)'
  <2> SUFFICES ASSUME NEW b \in Backends, NEW c \in Backends,
                      seen[r][b].read, seen[r][c].read, w \in seen[r][b].of
               PROVE  /\ answer'[w] = "fine" /\ w \in visible'[b]
                      /\ c \in wrote'[w] => w \in seen[r][c].of
    BY DEF SawWhole, Calm
  <2>1. /\ answer[w] = "fine" /\ w \in visible[b]
        /\ c \in wrote[w] => w \in seen[r][c].of
    BY <1>1 DEF MemInv, SawWhole
  <2> QED BY <2>1 DEF Calm
<1> QED BY <1>2, <1>3

LEMMA CalmSteps ==
  ASSUME Inv, NEW r \in Requests,
         \/ Arrive(r) \/ Begin(r) \/ BeginFails(r) \/ Authenticate(r) \/ AuthFails(r)
         \/ Respond(r) \/ RespondError(r) \/ Panic(r) \/ Finish(r)
  PROVE  Calm
<1> USE DEF Goto, Inv, TypeOK, ReqInv, OpenFits, Before, Calm, Unread
<1>1. CASE Arrive(r)  BY <1>1 DEF Arrive
<1>2. CASE Begin(r)  BY <1>2 DEF Begin
<1>3. CASE BeginFails(r)  BY <1>3 DEF BeginFails
<1>4. CASE Authenticate(r)  BY <1>4 DEF Authenticate
<1>5. CASE AuthFails(r)  BY <1>5 DEF AuthFails
<1>6. CASE Respond(r)  BY <1>6 DEF Respond
<1>7. CASE RespondError(r)  BY <1>7 DEF RespondError
<1>8. CASE Panic(r)  BY <1>8 DEF Panic
<1>9. CASE Finish(r)  BY <1>9 DEF Finish
<1> QED BY <1>1, <1>2, <1>3, <1>4, <1>5, <1>6, <1>7, <1>8, <1>9

LEMMA WriteCalm ==
  ASSUME Inv, NEW r \in Requests, NEW b \in Backends, Write(r, b) PROVE Calm
<1>1. answer[r] = "none"
  BY DEF Write, Inv, ReqInv, OpenFits, Before
<1>2. \A w \in Requests : answer[w] = "fine" => wrote'[w] = wrote[w]
  BY <1>1 DEF Write, Inv, TypeOK
<1>3. \A w \in Requests, c \in Backends : w \in visible[c] => w \in visible'[c]
  BY DEF Write, Inv, TypeOK
<1> QED BY <1>2, <1>3 DEF Write, Calm

LEMMA AbortCalm ==
  ASSUME NEW r \in Requests, NEW b \in Backends, Abort(r, b) PROVE Calm
BY DEF Abort, Calm, Unread

LEMMA RollbackCalm ==
  ASSUME Inv, NEW r \in Requests, Rollback(r) PROVE Calm
<1>1. PICK b \in Backends : b \in open[r] /\ visible' = Undone(r, b)
  BY OrderFacts DEF Rollback
<1>2. answer[r] # "fine"
  BY <1>1 DEF Inv, ReqInv, OpenFits
<1>3. \A w \in Requests \ {r}, c \in Backends : w \in visible[c] => w \in visible'[c]
  BY <1>1 DEF Undone, Inv, TypeOK
<1> QED BY <1>2, <1>3 DEF Rollback, Calm

LEMMA ReadWhole ==
  ASSUME Inv, MemInv, NEW r \in Requests, NEW b \in Backends, Read(r, b)
  PROVE  MemInv'
<1> USE DEF Read
<1> SUFFICES ASSUME memory' = Backends
             PROVE  /\ \A q \in Requests : ~failed'[q] /\ SeenComplete(q)'
                    /\ \A q \in Requests : \A w \in Requests \ {q} : SawWhole(q, w)'
  BY DEF MemInv
<1>1. memory = Backends
  OBVIOUS
<1>2. /\ \A q \in Requests \ {r} : seen'[q] = seen[q]
      /\ \A c \in Backends \ {b} : seen'[r][c] = seen[r][c]
      /\ seen'[r][b].read /\ seen'[r][b].of = visible[b]
  BY DEF Inv, TypeOK
<1>3. ASSUME NEW q \in Requests \ {r} PROVE SeenComplete(q)'
  BY <1>1, <1>2 DEF MemInv, SeenComplete
<1>4. SeenComplete(r)'
  <2> SUFFICES ASSUME NEW w \in Requests \ {r}, NEW c \in Backends,
                      seen'[r][c].read, answer[w] = "fine", c \in wrote[w]
               PROVE  w \in seen'[r][c].of
    BY DEF SeenComplete
  <2>1. CASE c = b  BY <2>1, <1>1, <1>2, WorkerFinds
  <2>2. CASE c # b  BY <2>2, <1>1, <1>2 DEF MemInv, SeenComplete
  <2> QED BY <2>1, <2>2
<1>5. ASSUME NEW q \in Requests \ {r}, NEW w \in Requests \ {q} PROVE SawWhole(q, w)'
  BY <1>1, <1>2 DEF MemInv, SawWhole
<1>6. ASSUME NEW w \in Requests \ {r} PROVE SawWhole(r, w)'
  <2> SUFFICES ASSUME NEW c \in Backends, NEW d \in Backends,
                      seen'[r][c].read, seen'[r][d].read, w \in seen'[r][c].of
               PROVE  /\ answer[w] = "fine" /\ w \in visible[c]
                      /\ d \in wrote[w] => w \in seen'[r][d].of
    BY DEF SawWhole
  <2>1. answer[w] = "fine" /\ w \in visible[c]
    <3>1. CASE c = b  BY <3>1, <1>1, <1>2, WorkerFinds
    <3>2. CASE c # b  BY <3>2, <1>1, <1>2 DEF MemInv, SawWhole
    <3> QED BY <3>1, <3>2
  <2>2. d \in wrote[w] => w \in seen'[r][d].of
    BY <2>1, <1>4 DEF SeenComplete
  <2> QED BY <2>1, <2>2
<1> QED BY <1>1, <1>3, <1>4, <1>5, <1>6 DEF MemInv

LEMMA CommitWhole ==
  ASSUME Inv, MemInv, NEW r \in Requests, Commit(r) PROVE MemInv'
<1> USE DEF Commit, NextCommit, Goto
<1> SUFFICES ASSUME memory' = Backends
             PROVE  /\ \A q \in Requests : ~failed'[q] /\ SeenComplete(q)'
                    /\ \A q \in Requests : \A w \in Requests \ {q} : SawWhole(q, w)'
  BY DEF MemInv
<1>1. memory = Backends /\ seen' = seen /\ wrote' = wrote
  OBVIOUS
<1>2. \A q \in Requests : failed'[q] = failed[q]
  BY DEF Inv, TypeOK
<1>3. \A q \in Requests, c \in Backends : q \in visible[c] => q \in visible'[c]
  BY OrderFacts DEF Inv, TypeOK
<1>4. \A q \in Requests : pc[q] # "work" /\ pc'[q] # "work"
                          /\ (pc'[q] \in Unread => pc[q] \in Unread)
  <2>1. \A q \in Requests \ {r} : pc[q] # "work"
    BY <1>1, WorkerAlone
  <2> QED BY <2>1 DEF Inv, TypeOK, Unread
<1>5. \A w \in Requests : answer[w] = "fine" => answer'[w] = "fine"
  BY DEF Inv, TypeOK, ReqInv, OpenFits, Before
<1>6. ASSUME NEW q \in Requests PROVE ~failed'[q] /\ SeenComplete(q)'
  BY <1>1, <1>2, <1>4 DEF MemInv, SeenComplete, Unread
<1>7. ASSUME NEW q \in Requests, NEW w \in Requests \ {q} PROVE SawWhole(q, w)'
  BY <1>1, <1>3, <1>5 DEF MemInv, SawWhole
<1> QED BY <1>6, <1>7

LEMMA MemNext == Inv /\ MemInv /\ [Next]_vars => MemInv'
<1> SUFFICES ASSUME Inv, MemInv, [Next]_vars PROVE MemInv'
  OBVIOUS
<1>1. ASSUME NEW r \in Requests,
             \/ Arrive(r) \/ Begin(r) \/ BeginFails(r) \/ Authenticate(r) \/ AuthFails(r)
             \/ Respond(r) \/ RespondError(r) \/ Panic(r) \/ Finish(r)
      PROVE  MemInv'
  BY <1>1, CalmSteps, CalmKeeps
<1>2. ASSUME NEW r \in Requests, NEW b \in Backends,
             Read(r, b) \/ Write(r, b) \/ Abort(r, b)
      PROVE  MemInv'
  BY <1>2, ReadWhole, WriteCalm, AbortCalm, CalmKeeps
<1>3. ASSUME NEW r \in Requests, Commit(r) PROVE MemInv'
  BY <1>3, CommitWhole
<1>4. ASSUME NEW r \in Requests, CommitFails(r) PROVE MemInv'
  <2>1. Order[at[r]] \in Backends \ memory /\ memory' = memory
    BY <1>4, OrderFacts DEF CommitFails, Inv, TypeOK
  <2> QED BY <2>1 DEF MemInv
<1>5. ASSUME NEW r \in Requests, Rollback(r) PROVE MemInv'
  BY <1>5, RollbackCalm, CalmKeeps
<1>6. CASE Reap \/ ReapDone \/ UNCHANGED vars
  <2>1. Calm
    BY <1>6 DEF Reap, ReapDone, vars, Calm, Unread
  <2> QED BY <2>1, CalmKeeps
<1> QED BY <1>1, <1>2, <1>3, <1>4, <1>5, <1>6 DEF Next

\* With every backend in memory a request reads all of another request or
\* nothing of it (NewTxn, txn.go:42-70): a handler that compares store and
\* permissions never sees half of a change.
THEOREM ReadersSeeWhole == Spec => []ReadsWhole
<1>1. Init => MemInv
  BY DEF Init, MemInv, SeenComplete, SawWhole, NotRead
<1>2. MemInv => ReadsWhole
  BY DEF MemInv, SawWhole, ReadsWhole
<1> QED BY <1>1, <1>2, InvInit, InvNext, MemNext, PTL DEF Spec

-----------------------------------------------------------------------------
(* All backends in memory: requests are the transactions of TxStore.       *)

\* Until a request is undone, what it has written is visible.
WritesVisible ==
  memory = Backends =>
    \A r \in Requests :
      pc[r] \in {"auth", "work", "commit"} => \A b \in wrote[r] : r \in visible[b]

LEMMA WritesVisibleNext == Inv /\ WritesVisible /\ [Next]_vars => WritesVisible'
<1> SUFFICES ASSUME Inv, WritesVisible, [Next]_vars, memory' = Backends
             PROVE  WritesVisible'
  BY DEF WritesVisible
<1>1. ASSUME memory = Backends,
             \A q \in Requests :
               /\ pc'[q] \in {"auth", "work", "commit"}
                    => pc[q] \in {"auth", "work", "commit"} \/ wrote'[q] = {}
               /\ wrote'[q] = wrote[q]
               /\ pc'[q] \in {"auth", "work", "commit"}
                    => \A b \in Backends : q \in visible[b] => q \in visible'[b]
      PROVE  WritesVisible'
  <2>1. \A q \in Requests : wrote[q] \subseteq Backends
    BY DEF Inv, TypeOK
  <2> QED BY <1>1, <2>1 DEF WritesVisible
<1>2. memory = Backends
  BY DEF Next, vars, Arrive, Begin, BeginFails, Authenticate, AuthFails, Read, Write, Abort, Respond,
         RespondError, Panic, Commit, CommitFails, Rollback, Finish, Reap, ReapDone
<1>3. ASSUME NEW r \in Requests,
             \/ Arrive(r) \/ Begin(r) \/ BeginFails(r) \/ Authenticate(r) \/ AuthFails(r)
             \/ Respond(r) \/ RespondError(r) \/ Panic(r) \/ Finish(r)
      PROVE  WritesVisible'
  <2>1. /\ wrote' = wrote /\ visible' = visible
        /\ pc'[r] \in {"auth", "work", "commit"} => pc[r] \in {"begin", "auth", "work", "commit"}
        /\ \A q \in Requests \ {r} : pc'[q] = pc[q]
    BY <1>3 DEF Arrive, Begin, BeginFails, Authenticate, AuthFails, Respond, RespondError, Panic,
                Finish, Goto, Inv, TypeOK
  <2>2. pc[r] = "begin" => wrote[r] = {}
    BY DEF Inv, ReqInv, Undoable
  <2> QED BY <1>1, <1>2, <2>1, <2>2
<1>4. ASSUME NEW r \in Requests, NEW b \in Backends, Read(r, b) \/ Abort(r, b)
      PROVE  WritesVisible'
  BY <1>1, <1>2, <1>4 DEF Read, Abort
<1>5. ASSUME NEW r \in Requests, NEW b \in Backends, Write(r, b) PROVE WritesVisible'
  <2>1. /\ pc' = pc /\ wrote'[r] = wrote[r] \cup {b} /\ visible'[b] = visible[b] \cup {r}
        /\ \A q \in Requests \ {r} : wrote'[q] = wrote[q]
        /\ \A c \in Backends \ {b} : visible'[c] = visible[c]
        /\ \A q \in Requests : wrote[q] \subseteq Backends
    BY <1>2, <1>5 DEF Write, Inv, TypeOK
  <2> QED BY <1>2, <2>1 DEF WritesVisible
<1>6. ASSUME NEW r \in Requests, Commit(r) \/ CommitFails(r) PROVE WritesVisible'
  <2>1. Order[at[r]] \in Backends
    BY OrderFacts DEF Inv, TypeOK
  <2>2. /\ wrote' = wrote /\ pc[r] = "commit"
        /\ \A q \in Requests \ {r} : pc'[q] = pc[q]
    BY <1>6 DEF Commit, CommitFails, NextCommit, Goto, Inv, TypeOK
  <2>3. \A q \in Requests, c \in Backends : q \in visible[c] => q \in visible'[c]
    BY <1>2, <1>6, <2>1 DEF Commit, CommitFails, Inv, TypeOK
  <2> QED BY <1>1, <1>2, <2>2, <2>3
<1>7. ASSUME NEW r \in Requests, Rollback(r) PROVE WritesVisible'
  <2>1. /\ wrote' = wrote /\ pc' = pc /\ pc[r] = "undo"
        /\ \A q \in Requests \ {r}, c \in Backends : q \in visible[c] => q \in visible'[c]
    BY <1>7, OrderFacts DEF Rollback, Undone, Inv, TypeOK
  <2> QED BY <1>1, <1>2, <2>1
<1>8. CASE Reap \/ ReapDone \/ UNCHANGED vars
  BY <1>1, <1>2, <1>8 DEF Reap, ReapDone, vars
<1> QED BY <1>3, <1>4, <1>5, <1>6, <1>7, <1>8 DEF Next

\* A step that neither begins nor ends a handler nor writes is none of TxStore.
Quiet ==
  /\ Handling' = Handling
  /\ \A b \in Backends : Settled(b)' = Settled(b) /\ Current(b)' = Current(b)

\* Which requests are handled, and what they and others have left, is what is
\* said of each of them.
LEMMA QuietIf ==
  ASSUME TypeOK, TypeOK',
         \A q \in Requests :
           /\ pc'[q] \in {"auth", "work"} <=> pc[q] \in {"auth", "work"}
           /\ \A b \in Backends :
                /\ q \in visible'[b] /\ (pc'[q] = "commit" \/ answer'[q] = "fine")
                     <=> q \in visible[b] /\ (pc[q] = "commit" \/ answer[q] = "fine")
                /\ pc[q] \in {"auth", "work"} => (q \in visible'[b] <=> q \in visible[b])
  PROVE  Quiet
<1>1. \A b \in Backends : visible[b] \subseteq Requests /\ visible'[b] \subseteq Requests
  BY DEF TypeOK
<1>2. Handling' = Handling
  BY DEF Handling
<1>3. \A b \in Backends : Settled(b)' = Settled(b)
  BY <1>1 DEF Settled
<1>4. \A b \in Backends : visible'[b] \cap Handling' = visible[b] \cap Handling
  BY <1>1, <1>2 DEF Handling
<1> QED BY <1>2, <1>3, <1>4 DEF Quiet, Current

LEMMA QuietSteps ==
  ASSUME Inv, Inv', memory = Backends, NEW r \in Requests,
         \/ Arrive(r) \/ BeginFails(r) \/ Authenticate(r) \/ Finish(r) \/ Rollback(r)
         \/ \E b \in Backends : Read(r, b) \/ Abort(r, b)
         \/ Reap \/ ReapDone \/ UNCHANGED vars
  PROVE  Quiet
<1> USE DEF Inv
<1>1. CASE Arrive(r) \/ BeginFails(r) \/ Authenticate(r)
  <2>1. /\ visible' = visible /\ answer' = answer
        /\ pc[r] \in {"new", "begin", "auth"} /\ wrote[r] = {}
        /\ \A b \in Backends : r \notin visible[b]
        /\ \A q \in Requests \ {r} : pc'[q] = pc[q]
    BY <1>1 DEF Arrive, BeginFails, Authenticate, Goto, ReqInv, Undoable, TypeOK
  <2>2. pc'[r] \in {"auth", "work"} <=> pc[r] \in {"auth", "work"}
    BY <1>1 DEF Arrive, BeginFails, Authenticate, Goto, TypeOK
  <2> QED BY <2>1, <2>2, QuietIf
<1>2. CASE Finish(r)
  <2>1. /\ visible' = visible /\ pc[r] = "undo" /\ pc'[r] = "done"
        /\ answer'[r] = "fine" <=> answer[r] = "fine"
        /\ \A q \in Requests \ {r} : pc'[q] = pc[q] /\ answer'[q] = answer[q]
    BY <1>2 DEF Finish, Goto, TypeOK
  <2> QED BY <2>1, QuietIf
<1>3. CASE Rollback(r)
  <2>1. PICK b \in Backends : b \in open[r] /\ visible' = Undone(r, b)
    BY <1>3, OrderFacts DEF Rollback
  <2>2. /\ pc' = pc /\ pc[r] = "undo" /\ answer' = answer /\ answer[r] # "fine"
        /\ \A q \in Requests \ {r}, c \in Backends : q \in visible'[c] <=> q \in visible[c]
    BY <1>3, <2>1 DEF Rollback, Undone, ReqInv, OpenFits, TypeOK
  <2> QED BY <2>2, QuietIf
<1>4. CASE \/ \E b \in Backends : Read(r, b) \/ Abort(r, b)
           \/ Reap \/ ReapDone \/ UNCHANGED vars
  <2>1. pc' = pc /\ visible' = visible /\ answer' = answer
    BY <1>4 DEF Read, Abort, Reap, ReapDone, vars
  <2> QED BY <2>1, QuietIf
<1> QED BY <1>1, <1>2, <1>3, <1>4

\* Commit makes nothing visible that was not, and its end is no news.
LEMMA CommitQuiet ==
  ASSUME Inv, Inv', MemInv, WritesVisible, memory = Backends, NEW r \in Requests, Commit(r)
  PROVE  Quiet
<1>1. pc[r] = "commit" /\ Order[at[r]] \in Backends
  BY OrderFacts DEF Commit, Inv, TypeOK
<1>2. \A b \in Backends : visible'[b] = visible[b]
  <2>1. \A b \in Backends : b \in wrote[r] => r \in visible[b]
    BY <1>1 DEF WritesVisible
  <2> QED BY <1>1, <2>1 DEF Commit, Inv, TypeOK
<1>3. /\ \A q \in Requests \ {r} : pc'[q] = pc[q] /\ answer'[q] = answer[q]
      /\ pc'[r] = "commit" \/ (pc'[r] = "undo" /\ answer'[r] = "fine")
  <2>1. failed'[r] = FALSE
    BY DEF Commit, NextCommit, MemInv, Inv, TypeOK
  <2> QED BY <2>1 DEF Commit, NextCommit, Goto, Inv, TypeOK
<1> QED BY <1>1, <1>2, <1>3, QuietIf DEF Inv

\* What the one handler that runs has written is all that is not settled.
LEMMA HandlerAlone ==
  ASSUME Inv, memory = Backends, NEW r \in Requests, pc[r] \in {"auth", "work"}
  PROVE  Handling = {r} /\ \A b \in Backends : r \notin Settled(b)
<1>1. Handling = {r}
  BY WorkerAlone DEF Handling
<1>2. answer[r] = "none"
  BY DEF Inv, ReqInv, OpenFits, Before
<1> QED BY <1>1, <1>2 DEF Settled

\* A handler starts when none runs.
LEMMA BeginSerial ==
  ASSUME Inv, Inv', memory = Backends, NEW r \in Requests, Begin(r)
  PROVE  Quiet \/ (/\ Handling = {} /\ Handling' # {}
                   /\ \A b \in Backends : Settled(b)' = Settled(b) /\ Current(b)' = Current(b))
<1>1. /\ visible' = visible /\ answer' = answer /\ pc[r] = "begin"
      /\ wrote[r] = {} /\ wrote' = wrote
      /\ \A b \in Backends : r \notin visible[b]
      /\ \A q \in Requests \ {r} : pc'[q] = pc[q]
      /\ pc'[r] = IF at[r] = 3 THEN "auth" ELSE "begin"
  BY DEF Begin, Goto, Inv, ReqInv, Undoable, TypeOK
<1>2. CASE at[r] # 3
  BY <1>1, <1>2, QuietIf DEF Inv
<1>3. CASE at[r] = 3
  <2>1. holder["cache"] = Nobody
    BY <1>3, OrderFacts DEF Begin, Backends
  <2>2. \A w \in Requests : pc[w] \in {"auth", "work"} => holder["cache"] = w
    BY DEF Inv, ReqInv, OpenFits, MutexOwned, Backends
  <2>3. Handling = {}
    BY <2>1, <2>2, OwnersAssumption DEF Handling
  <2>4. Handling' = {r}
    BY <1>1, <1>3, <2>3 DEF Handling
  <2>5. \A b \in Backends : Settled(b)' = Settled(b) /\ visible'[b] \cap Handling' = {}
    BY <1>1, <1>3, <2>4 DEF Settled, Inv, TypeOK
  <2>6. \A b \in Backends : Current(b)' = Current(b)
    BY <2>3, <2>5 DEF Current
  <2> QED BY <2>3, <2>4, <2>5, <2>6
<1> QED BY <1>2, <1>3

\* An error or a panic drops what the handler has written.
LEMMA FailSerial ==
  ASSUME Inv, Inv', memory = Backends, NEW r \in Requests,
         AuthFails(r) \/ RespondError(r) \/ Panic(r)
  PROVE  /\ Handling # {} /\ Handling' = {}
         /\ \A b \in Backends : Settled(b)' = Settled(b) /\ Current(b)' = Settled(b)
<1>1. /\ visible' = visible /\ pc[r] \in {"auth", "work"} /\ pc'[r] = "undo" /\ answer'[r] # "fine"
      /\ \A q \in Requests \ {r} : pc'[q] = pc[q] /\ answer'[q] = answer[q]
  BY DEF AuthFails, RespondError, Panic, Goto, Inv, TypeOK, ReqInv, OpenFits, Before
<1>2. Handling = {r} /\ \A b \in Backends : r \notin Settled(b)
  BY <1>1, HandlerAlone
<1>3. Handling' = {}
  BY <1>1, <1>2 DEF Handling
<1>4. \A b \in Backends : Settled(b)' = Settled(b)
  BY <1>1, <1>2 DEF Settled, Inv, TypeOK
<1> QED BY <1>2, <1>3, <1>4 DEF Current

\* An answer keeps it.
LEMMA RespondSerial ==
  ASSUME Inv, Inv', memory = Backends, NEW r \in Requests, Respond(r)
  PROVE  /\ Handling # {} /\ Handling' = {}
         /\ \A b \in Backends : Settled(b)' = Current(b) /\ Current(b)' = Current(b)
<1>1. /\ visible' = visible /\ pc[r] = "work" /\ pc'[r] = "commit" /\ answer' = answer
      /\ \A q \in Requests \ {r} : pc'[q] = pc[q]
  BY DEF Respond, Goto, Inv, TypeOK
<1>2. Handling = {r}
  BY <1>1, HandlerAlone
<1>3. Handling' = {}
  BY <1>1, <1>2 DEF Handling
<1>4. \A b \in Backends : Settled(b)' = Settled(b) \cup (visible[b] \cap {r})
  BY <1>1 DEF Settled, Inv, TypeOK
<1> QED BY <1>2, <1>3, <1>4 DEF Current

LEMMA WriteSerial ==
  ASSUME Inv, Inv', memory = Backends, NEW r \in Requests, NEW c \in Backends, Write(r, c)
  PROVE  /\ Handling # {} /\ Handling' = Handling
         /\ \A b \in Backends : Settled(b)' = Settled(b)
<1>1. /\ pc' = pc /\ pc[r] = "work" /\ answer' = answer
      /\ \A q \in Requests \ {r}, b \in Backends : q \in visible'[b] <=> q \in visible[b]
  BY DEF Write, Inv, TypeOK
<1>2. answer[r] = "none"
  BY <1>1 DEF Inv, ReqInv, OpenFits, Before
<1>3. Handling' = Handling /\ Handling # {}
  BY <1>1 DEF Handling
<1>4. \A b \in Backends : visible[b] \subseteq Requests /\ visible'[b] \subseteq Requests
  BY DEF Inv, TypeOK
<1> QED BY <1>1, <1>2, <1>3, <1>4 DEF Settled

\* With every backend in memory the requests are served one after the other,
\* each with all its writes or none, in store, permissions and cache at once
\* (NewTxn, txn.go:42-70; WriteHeader, middleware.go:135-148).
THEOREM ServedOneByOne == Spec /\ memory = Backends => ImplementsTxStore
<1> DEFINE SInv == Inv /\ MemInv /\ WritesVisible /\ memory = Backends
           kept == [b \in Backends |-> Settled(b)]
           here == [b \in Backends |-> Current(b)]
<1>1. Init /\ memory = Backends => SInv /\ TS!Init
  <2> SUFFICES ASSUME Init, memory = Backends PROVE SInv /\ TS!Init
    OBVIOUS
  <2>1. Inv
    BY InvInit
  <2>2. MemInv /\ WritesVisible
    BY DEF Init, MemInv, SeenComplete, SawWhole, NotRead, WritesVisible
  <2>3. Handling = {} /\ \A b \in Backends : Settled(b) = {} /\ Current(b) = {}
    BY DEF Init, Handling, Settled, Current
  <2> QED BY <2>1, <2>2, <2>3 DEF TS!Init
<1>2. SInv /\ [Next]_vars => SInv' /\ [TS!Next]_TS!vars
  <2> SUFFICES ASSUME SInv, [Next]_vars PROVE SInv' /\ [TS!Next]_TS!vars
    OBVIOUS
  <2>1. SInv'
    <3>1. memory' = memory
      BY DEF Next, vars, Arrive, Begin, BeginFails, Authenticate, AuthFails, Read, Write, Abort,
             Respond, RespondError, Panic, Commit, CommitFails, Rollback, Finish, Reap, ReapDone
    <3> QED BY <3>1, InvNext, MemNext, WritesVisibleNext
  <2>2. here' \in [Backends -> SUBSET Requests]
    BY <2>1 DEF Settled, Current, Inv, TypeOK
  <2>3. ASSUME Quiet PROVE UNCHANGED TS!vars
    BY <2>3 DEF Quiet, TS!vars
  <2>4. ASSUME NEW r \in Requests, Begin(r) PROVE [TS!Next]_TS!vars
    BY <2>1, <2>3, <2>4, BeginSerial DEF TS!Next, TS!Begin
  <2>5. ASSUME NEW r \in Requests, AuthFails(r) \/ RespondError(r) \/ Panic(r)
        PROVE  [TS!Next]_TS!vars
    BY <2>1, <2>5, FailSerial DEF TS!Next, TS!Rollback
  <2>6. ASSUME NEW r \in Requests, Respond(r) PROVE [TS!Next]_TS!vars
    BY <2>1, <2>6, RespondSerial DEF TS!Next, TS!Commit
  <2>7. ASSUME NEW r \in Requests, NEW b \in Backends, Write(r, b) PROVE [TS!Next]_TS!vars
    BY <2>1, <2>2, <2>7, WriteSerial DEF TS!Next, TS!Change
  <2>8. ASSUME NEW r \in Requests, Commit(r) PROVE [TS!Next]_TS!vars
    BY <2>1, <2>3, <2>8, CommitQuiet
  <2>9. ASSUME NEW r \in Requests, CommitFails(r) PROVE FALSE
    BY <2>9, OrderFacts DEF CommitFails, Inv, TypeOK
  <2>10. ASSUME NEW r \in Requests,
                \/ Arrive(r) \/ BeginFails(r) \/ Authenticate(r) \/ Finish(r) \/ Rollback(r)
                \/ \E b \in Backends : Read(r, b) \/ Abort(r, b)
         PROVE  [TS!Next]_TS!vars
    BY <2>1, <2>3, <2>10, QuietSteps
  <2>11. CASE Reap \/ ReapDone \/ UNCHANGED vars
    <3>1. pc' = pc /\ visible' = visible /\ answer' = answer
      BY <2>11 DEF Reap, ReapDone, vars
    <3>2. Quiet
      BY <2>1, <3>1, QuietIf DEF Inv
    <3> QED BY <2>1, <2>3, <3>2
  <2> QED BY <2>1, <2>4, <2>5, <2>6, <2>7, <2>8, <2>9, <2>10, <2>11 DEF Next
<1> QED BY <1>1, <1>2, PTL DEF Spec, ImplementsTxStore, TS!Spec

\* A handler reads what its transaction holds: what requests that succeed have
\* left, and what it has written itself (transaction.Get, storage.go:175-218).
THEOREM HandlersReadCurrent == Spec => ReadsCurrent
<1>1. Inv /\ MemInv => [memory = Backends => \A r \in Requests, b \in Backends :
                          Read(r, b) => visible[b] = Current(b)]_vars
  <2> SUFFICES ASSUME Inv, MemInv, memory = Backends,
                      NEW r \in Requests, NEW b \in Backends, Read(r, b)
               PROVE  visible[b] = Current(b)
    OBVIOUS
  <2>1. pc[r] = "work" /\ Handling = {r}
    BY HandlerAlone DEF Read
  <2>2. \A w \in visible[b] \ {r} : answer[w] = "fine"
    BY <2>1, WorkerFinds DEF Inv, TypeOK
  <2> QED BY <2>1, <2>2 DEF Current, Settled
<1>2. Init => MemInv
  BY DEF Init, MemInv, SeenComplete, SawWhole, NotRead
<1> QED BY <1>1, <1>2, InvInit, InvNext, MemNext, PTL DEF Spec, ReadsCurrent

-----------------------------------------------------------------------------
(* The server that serves the requests.  To them a step of the server is   *)
(* one of theirs or none.                                                  *)

LEMMA ServerSteps == [ServerNext]_serverVars => [Next]_vars
<1> SUFFICES ASSUME [ServerNext]_serverVars PROVE [Next]_vars
  OBVIOUS
<1>1. CASE \E r \in Requests : Accept(r) \/ Handle(r)
  BY <1>1 DEF Accept, Handle, Next
<1>2. CASE Reaping
  BY <1>2 DEF Reaping, Next
<1>3. CASE ~(\E r \in Requests : Accept(r) \/ Handle(r)) /\ ~Reaping
  <2>1. UNCHANGED vars
    BY <1>3 DEF ServerNext, serverVars, Open, OpenFails, PrepareFails, Listen, Signal,
                ListenFails, Expire, ShutDown, CloseNext, Exit, PrunePanics
  <2> QED BY <2>1
<1> QED BY <1>1, <1>2, <1>3

\* Opening, closing, signals and the end of the grace time are nothing to a
\* request but calls that fail and steps that do not come: whatever holds of
\* requests holds of those the server serves (server.go:29-108,
\* middleware.go:88-148).
THEOREM ServedAsSpecified == ServerSpec => Spec
<1>1. ServerInit => Init
  BY DEF ServerInit
<1> QED BY <1>1, ServerSteps, PTL DEF ServerSpec, Spec

\* In a server that starts, is signalled and closes, an answer below 500 still
\* means that the writes are kept, an error that none is, and no request sees a
\* part of another one (BaseContext, server.go:85; middleware.go:88-148).
THEOREM ServedAnswersHold == ServerSpec => [](FineMeansKept /\ ErrorLeavesNothing /\ ReadsWhole)
BY ServedAsSpecified, FineIsKept, ErrorsLeaveNothing, ReadersSeeWhole, PTL

-----------------------------------------------------------------------------
(* What is opened and closed. *)

Opened(n) == {Opening[i] : i \in 1..n}

\* what stays open when a resource cannot be opened, for initAuth closes none
\* of the methods it has
Kept(resource) == IF resource \in ToSet(Methods) THEN ToSet(Methods) ELSE {}

LEMMA ConcatSet ==
  ASSUME NEW S, NEW s \in Seq(S), NEW t \in Seq(S)
  PROVE  s \o t \in Seq(S) /\ ToSet(s \o t) = ToSet(s) \cup ToSet(t)
<1>1. s \o t \in Seq(S)
  BY ConcatProperties
<1>2. Range(s \o t) = Range(s) \cup Range(t)
  BY RangeConcatenation
<1> QED BY <1>1, <1>2 DEF ToSet, Range

LEMMA ConcatSets ==
  ASSUME NEW S, NEW s \in Seq(S), NEW t \in Seq(S), NEW u \in Seq(S), NEW v \in Seq(S)
  PROVE  /\ s \o t \o u \o v \in Seq(S)
         /\ ToSet(s \o t \o u \o v) = ToSet(s) \cup ToSet(t) \cup ToSet(u) \cup ToSet(v)
<1> DEFINE st == s \o t
           stu == st \o u
<1>1. st \in Seq(S) /\ ToSet(st) = ToSet(s) \cup ToSet(t)
  BY ConcatSet
<1> HIDE DEF st
<1>2. stu \in Seq(S) /\ ToSet(stu) = ToSet(st) \cup ToSet(u)
  BY <1>1, ConcatSet
<1> HIDE DEF stu
<1>3. stu \o v \in Seq(S) /\ ToSet(stu \o v) = ToSet(stu) \cup ToSet(v)
  BY <1>2, ConcatSet
<1>4. stu \o v \in Seq(S)
         /\ ToSet(stu \o v) = ToSet(s) \cup ToSet(t) \cup ToSet(u) \cup ToSet(v)
  BY <1>1, <1>2, <1>3
<1> QED BY <1>4 DEF st, stu

\* Everything New opens, and so everything Close closes.
Resources == ToSet(Opening)

\* The parts of Opening are sequences of resources, and Close closes what New
\* has opened.
LEMMA SequenceFacts ==
  /\ Plugins \in Seq(Resources) /\ Rules \in Seq(Resources)
  /\ Methods \in Seq(Resources) /\ Conns \in Seq(Resources)
  /\ Opening \in Seq(Resources) /\ Closing \in Seq(Resources)
  /\ ToSet(Closing) = Resources /\ Backends \subseteq Resources
<1> DEFINE S == ToSet(Plugins) \cup ToSet(Rules) \cup ToSet(Methods) \cup Backends
<1>1. Plugins \in Seq(S) /\ Rules \in Seq(S) /\ Methods \in Seq(S)
  <2>1. \A s : s \in Seq(ToSet(s)) /\ ToSet(s) \subseteq S => s \in Seq(S)
    OBVIOUS
  <2> QED BY <2>1, ResourcesAssumption
<1>2. Conns \in Seq(S) /\ ToSet(Conns) = Backends
  <2>1. /\ Conns \in Seq(Backends) /\ DOMAIN Conns = 1..3
        /\ Conns[1] = "store" /\ Conns[2] = "perms" /\ Conns[3] = "cache"
    BY DEF Conns, Backends
  <2>2. \A i \in 1..3 : i = 1 \/ i = 2 \/ i = 3
    OBVIOUS
  <2> QED BY <2>1, <2>2 DEF ToSet, Backends
<1> HIDE DEF S
<1>3. Opening \in Seq(S) /\ ToSet(Opening)
         = ToSet(Plugins) \cup ToSet(Rules) \cup ToSet(Methods) \cup ToSet(Conns)
  BY <1>1, <1>2, ConcatSets DEF Opening
<1>4. Closing \in Seq(S) /\ ToSet(Closing)
         = ToSet(Conns) \cup ToSet(Methods) \cup ToSet(Rules) \cup ToSet(Plugins)
  BY <1>1, <1>2, ConcatSets DEF Closing
<1>5. Resources = S /\ ToSet(Closing) = Resources /\ Backends \subseteq Resources
  BY <1>2, <1>3, <1>4 DEF Resources, S
<1> QED BY <1>1, <1>2, <1>3, <1>4, <1>5

LEMMA OpenedFacts ==
  /\ Opened(0) = {} /\ Opened(Len(Opening)) = ToSet(Opening)
  /\ \A n \in Nat : n < Len(Opening) => /\ Opened(n + 1) = Opened(n) \cup {Opening[n + 1]}
                                       /\ Opening[n + 1] \notin Opened(n)
<1>1. \A i, j \in 1..Len(Opening) : Opening[i] = Opening[j] => i = j
  BY SequenceFacts, ResourcesAssumption DEF IsInjective
<1>2. Opened(0) = {} /\ Opened(Len(Opening)) = ToSet(Opening)
  BY SequenceFacts DEF Opened, ToSet
<1>3. ASSUME NEW n \in Nat, n < Len(Opening)
      PROVE  Opened(n + 1) = Opened(n) \cup {Opening[n + 1]} /\ Opening[n + 1] \notin Opened(n)
  <2>1. \A i : i \in 1..(n + 1) <=> i \in 1..n \/ i = n + 1
    BY <1>3
  <2>2. n + 1 \in 1..Len(Opening) /\ \A i \in 1..n : i \in 1..Len(Opening) /\ i # n + 1
    BY <1>3, SequenceFacts
  <2> QED BY <1>1, <2>1, <2>2 DEF Opened
<1> QED BY <1>2, <1>3

LEMMA ElementOf ==
  ASSUME NEW S, NEW s \in Seq(S), NEW i \in 1..Len(s) PROVE s[i] \in ToSet(s)
<1>1. DOMAIN s = 1..Len(s)
  OBVIOUS
<1> QED BY <1>1 DEF ToSet

LEMMA TailSet ==
  ASSUME NEW S, NEW s \in Seq(S), s # <<>>
  PROVE  Tail(s) \in Seq(S) /\ ToSet(s) \subseteq {Head(s)} \cup ToSet(Tail(s))
<1>1. /\ Tail(s) \in Seq(S) /\ Len(Tail(s)) = Len(s) - 1 /\ Head(s) = s[1]
      /\ \A i \in 1..Len(Tail(s)) : Tail(s)[i] = s[i + 1]
  BY HeadTailProperties
<1>2. ASSUME NEW i \in 1..Len(s), i # 1 PROVE s[i] \in ToSet(Tail(s))
  <2>1. i - 1 \in 1..Len(Tail(s)) /\ Tail(s)[i - 1] = s[i]
    BY <1>1, <1>2
  <2>2. Tail(s)[i - 1] \in ToSet(Tail(s))
    BY <1>1, <2>1, ElementOf
  <2> QED BY <2>1, <2>2
<1>3. ToSet(s) = {s[i] : i \in 1..Len(s)}
  BY DEF ToSet
<1> QED BY <1>1, <1>2, <1>3

LEMMA PrefixSet ==
  ASSUME NEW S, NEW s \in Seq(S), NEW n \in 0..Len(s)
  PROVE  /\ SubSeq(s, 1, n) \in Seq(S)
         /\ \A i \in 1..n : s[i] \in ToSet(SubSeq(s, 1, n))
<1>1. /\ SubSeq(s, 1, n) \in Seq(S) /\ Len(SubSeq(s, 1, n)) = n
      /\ \A i \in 1..n : SubSeq(s, 1, n)[i] = s[i]
  <2>1. \A i \in 1..n : s[i] \in S
    OBVIOUS
  <2>2. /\ SubSeq(s, 1, n) \in Seq(S)
        /\ Len(SubSeq(s, 1, n)) = IF 1 <= n THEN n - 1 + 1 ELSE 0
        /\ \A i \in 1..(n - 1 + 1) : SubSeq(s, 1, n)[i] = s[1 + i - 1]
    BY <2>1, SubSeqProperties
  <2> QED BY <2>2
<1>2. DOMAIN SubSeq(s, 1, n) = 1..n
  BY <1>1
<1> QED BY <1>1, <1>2 DEF ToSet

\* Where in Opening the resources of a kind are.
LEMMA KindFacts ==
  /\ RulesAt \in Nat /\ RulesAt = Len(Plugins)
  /\ MethodsAt \in Nat /\ MethodsAt = RulesAt + Len(Rules)
  /\ ConnsAt \in Nat /\ ConnsAt = MethodsAt + Len(Methods)
  /\ Len(Opening) = ConnsAt + 3 /\ Len(Conns) = 3
  /\ \A i \in 1..RulesAt : Opening[i] = Plugins[i]
  /\ \A i \in RulesAt + 1..MethodsAt : Opening[i] = Rules[i - RulesAt]
  /\ \A i \in MethodsAt + 1..ConnsAt : Opening[i] = Methods[i - MethodsAt]
  /\ \A i \in ConnsAt + 1..Len(Opening) : Opening[i] = Conns[i - ConnsAt]
<1> DEFINE pr  == Plugins \o Rules
           prm == pr \o Methods
<1>1. /\ Len(Plugins) \in Nat /\ Len(Rules) \in Nat /\ Len(Methods) \in Nat
      /\ Len(Conns) = 3
  BY SequenceFacts DEF Conns
<1>2. /\ pr \in Seq(Resources) /\ Len(pr) = Len(Plugins) + Len(Rules)
      /\ \A i \in 1..Len(pr) : pr[i] = IF i <= Len(Plugins) THEN Plugins[i]
                                                       ELSE Rules[i - Len(Plugins)]
  BY SequenceFacts, ConcatProperties
<1> HIDE DEF pr
<1>3. /\ prm \in Seq(Resources) /\ Len(prm) = Len(pr) + Len(Methods)
      /\ \A i \in 1..Len(prm) : prm[i] = IF i <= Len(pr) THEN pr[i]
                                                         ELSE Methods[i - Len(pr)]
  <2>1. pr \in Seq(Resources) /\ Methods \in Seq(Resources)
    BY <1>2, SequenceFacts
  <2> QED BY <2>1, ConcatProperties
<1> HIDE DEF prm
<1>4. /\ Opening = prm \o Conns /\ Len(prm \o Conns) = Len(prm) + Len(Conns)
      /\ \A i \in 1..Len(prm \o Conns) :
           (prm \o Conns)[i] = IF i <= Len(prm) THEN prm[i] ELSE Conns[i - Len(prm)]
  BY <1>3, SequenceFacts, ConcatProperties DEF Opening, prm, pr
<1>5. RulesAt = Len(Plugins) /\ MethodsAt = Len(pr) /\ ConnsAt = Len(prm)
  BY <1>1, <1>2, <1>3 DEF RulesAt, MethodsAt, ConnsAt
<1>6. \A i \in 1..RulesAt : Opening[i] = Plugins[i]
  BY <1>1, <1>2, <1>3, <1>4, <1>5
<1>7. \A i \in RulesAt + 1..MethodsAt : Opening[i] = Rules[i - RulesAt]
  BY <1>1, <1>2, <1>3, <1>4, <1>5
<1>8. \A i \in MethodsAt + 1..ConnsAt : Opening[i] = Methods[i - MethodsAt]
  BY <1>1, <1>2, <1>3, <1>4, <1>5
<1>9. \A i \in ConnsAt + 1..Len(Opening) : Opening[i] = Conns[i - ConnsAt]
  BY <1>1, <1>2, <1>3, <1>4, <1>5
<1> QED BY <1>1, <1>2, <1>3, <1>4, <1>5, <1>6, <1>7, <1>8, <1>9 DEF MethodsAt, ConnsAt

\* A start that fails closes all it opened but the authentication methods
\* opened before one that fails.
LEMMA CleanupFacts ==
  ASSUME progress \in Nat, progress < Len(Opening)
  PROVE  /\ Cleanup \in Seq(Resources)
         /\ Opened(progress) \subseteq ToSet(Cleanup) \cup Kept(Opening[progress + 1])
<1>0. /\ RulesAt \in Nat /\ MethodsAt \in Nat /\ ConnsAt \in Nat /\ Len(Conns) = 3
      /\ MethodsAt = RulesAt + Len(Rules) /\ Len(Rules) \in Nat
      /\ ConnsAt = MethodsAt + Len(Methods) /\ Len(Methods) \in Nat
      /\ RulesAt = Len(Plugins) /\ Len(Plugins) \in Nat /\ Len(Opening) = ConnsAt + 3
  BY KindFacts, SequenceFacts
<1>p. ASSUME NEW i \in 1..RulesAt PROVE Opening[i] \in ToSet(Plugins)
  BY <1>0, KindFacts, SequenceFacts, ElementOf
<1>r. ASSUME NEW i \in RulesAt + 1..MethodsAt PROVE Opening[i] \in ToSet(Rules)
  <2>1. Opening[i] = Rules[i - RulesAt] /\ i - RulesAt \in 1..Len(Rules)
    BY <1>0, KindFacts
  <2> QED BY <2>1, SequenceFacts, ElementOf
<1>m. ASSUME NEW i \in MethodsAt + 1..ConnsAt PROVE Opening[i] \in ToSet(Methods)
  <2>1. Opening[i] = Methods[i - MethodsAt] /\ i - MethodsAt \in 1..Len(Methods)
    BY <1>0, KindFacts
  <2> QED BY <2>1, SequenceFacts, ElementOf
<1>1. CASE progress < RulesAt
  <2> DEFINE mine == SubSeq(Plugins, 1, progress)
  <2>1. mine \in Seq(Resources) /\ \A i \in 1..progress : Plugins[i] \in ToSet(mine)
    <3>1. progress \in 0..Len(Plugins) /\ Plugins \in Seq(Resources)
      BY <1>0, <1>1, SequenceFacts
    <3> QED BY <3>1, PrefixSet
  <2>2. Cleanup = mine
    BY <1>0, <1>1 DEF Cleanup
  <2>3. \A i \in 1..progress : Opening[i] = Plugins[i]
    BY <1>0, <1>1, KindFacts
  <2> HIDE DEF mine
  <2> QED BY <2>1, <2>2, <2>3 DEF Opened
<1>2. CASE progress \in RulesAt..MethodsAt - 1
  <2> DEFINE mine == SubSeq(Rules, 1, progress - RulesAt)
  <2>1. progress - RulesAt \in 0..Len(Rules)
    BY <1>0, <1>2
  <2>2. /\ mine \in Seq(Resources)
        /\ \A i \in 1..(progress - RulesAt) : Rules[i] \in ToSet(mine)
    BY <2>1, PrefixSet, SequenceFacts
  <2> HIDE DEF mine
  <2>3. Cleanup = mine \o Plugins
    <3>1. ~(progress < RulesAt) /\ progress \notin MethodsAt..ConnsAt - 1
      BY <1>0, <1>2
    <3> QED BY <1>2, <3>1 DEF Cleanup, mine
  <2>4. Cleanup \in Seq(Resources) /\ ToSet(Cleanup) = ToSet(mine) \cup ToSet(Plugins)
    BY <2>2, <2>3, ConcatSet, SequenceFacts
  <2>5. ASSUME NEW i \in 1..progress PROVE Opening[i] \in ToSet(Cleanup)
    <3>1. CASE i <= RulesAt
      BY <1>0, <1>p, <2>4, <3>1
    <3>2. CASE i > RulesAt
      <4>0. i \in RulesAt + 1..MethodsAt
        BY <1>0, <1>2, <3>2
      <4>1. Opening[i] = Rules[i - RulesAt] /\ i - RulesAt \in 1..(progress - RulesAt)
        BY <1>0, <1>2, <4>0, KindFacts
      <4> QED BY <2>2, <2>4, <4>1
    <3>3. i <= RulesAt \/ i > RulesAt
      BY <1>0
    <3> QED BY <3>1, <3>2, <3>3
  <2> QED BY <2>4, <2>5 DEF Opened
<1>3. CASE progress \in MethodsAt..ConnsAt - 1
  <2>1. Cleanup = Rules \o Plugins
    BY <1>0, <1>3 DEF Cleanup
  <2>2. Cleanup \in Seq(Resources) /\ ToSet(Cleanup) = ToSet(Rules) \cup ToSet(Plugins)
    BY <2>1, ConcatSet, SequenceFacts
  <2>3. Kept(Opening[progress + 1]) = ToSet(Methods)
    <3>1. progress + 1 \in MethodsAt + 1..ConnsAt
      BY <1>0, <1>3
    <3> QED BY <1>m, <3>1 DEF Kept
  <2>4. ASSUME NEW i \in 1..progress PROVE Opening[i] \in ToSet(Cleanup) \cup ToSet(Methods)
    <3>1. \/ i \in 1..RulesAt \/ i \in RulesAt + 1..MethodsAt \/ i \in MethodsAt + 1..ConnsAt
      BY <1>0, <1>3
    <3> QED BY <1>p, <1>r, <1>m, <2>2, <3>1
  <2> QED BY <2>2, <2>3, <2>4 DEF Opened
<1>4. CASE progress >= ConnsAt
  <2> DEFINE mine == SubSeq(Conns, 1, progress - ConnsAt)
  <2>1. progress - ConnsAt \in 0..Len(Conns)
    BY <1>0, <1>4
  <2>2. /\ mine \in Seq(Resources)
        /\ \A i \in 1..(progress - ConnsAt) : Conns[i] \in ToSet(mine)
    BY <2>1, PrefixSet, SequenceFacts
  <2> HIDE DEF mine
  <2>3. Cleanup = mine \o Methods \o Rules \o Plugins
    <3>1. /\ ~(progress < RulesAt) /\ progress \notin RulesAt..MethodsAt - 1
          /\ progress \notin MethodsAt..ConnsAt - 1
      BY <1>0, <1>4
    <3> QED BY <3>1 DEF Cleanup, mine
  <2>4. /\ Cleanup \in Seq(Resources)
        /\ ToSet(Cleanup)
             = ToSet(mine) \cup ToSet(Methods) \cup ToSet(Rules) \cup ToSet(Plugins)
    BY <2>2, <2>3, ConcatSets, SequenceFacts
  <2>5. ASSUME NEW i \in 1..progress PROVE Opening[i] \in ToSet(Cleanup)
    <3>1. CASE i > ConnsAt
      <4>1. Opening[i] = Conns[i - ConnsAt] /\ i - ConnsAt \in 1..(progress - ConnsAt)
        BY <1>0, <1>4, <3>1, KindFacts
      <4> QED BY <2>2, <2>4, <4>1
    <3>2. \/ i \in 1..RulesAt \/ i \in RulesAt + 1..MethodsAt \/ i \in MethodsAt + 1..ConnsAt
          \/ i > ConnsAt
      BY <1>0
    <3> QED BY <1>p, <1>r, <1>m, <2>4, <3>1, <3>2
  <2> QED BY <2>4, <2>5 DEF Opened
<1>5. progress < RulesAt \/ progress \in RulesAt..MethodsAt - 1
      \/ progress \in MethodsAt..ConnsAt - 1 \/ progress >= ConnsAt
  BY <1>0
<1> QED BY <1>1, <1>2, <1>3, <1>4, <1>5

-----------------------------------------------------------------------------
(* The invariant of the server.  What is held follows from the phase and   *)
(* the progress in it; a transaction is open only in a backend that is     *)
(* served.                                                                 *)

\* the pool of permissions, when Connect has closed it again
Down == unready \cap {"perms"}

\* the phases the process goes through
Phases == {"opening", "serving", "shutdown", "closing", "exited", "crashed"}

HeldFits ==
  /\ phase = "opening" => /\ progress <= Len(Opening)
                          /\ held = Opened(progress) \ Down
                          /\ unready \subseteq Opened(progress)
  /\ phase \in {"serving", "shutdown"} => held = Resources \ Down
  /\ phase = "closing" => held \subseteq ToSet(toClose) \cup Kept(failing) \cup Outliving
  /\ phase = "exited" => held \subseteq Kept(failing) \cup Outliving

\* a handler that runs was waited for, or the grace time is over, or the process
\* ends under it
ActiveFits ==
  /\ phase = "opening" => Active = {}
  /\ phase \in {"closing", "exited"} => Active = {} \/ expired
  /\ phase = "crashed" => Active = {} \/ expired \/ held = Resources \ Down

LifeInv ==
  /\ phase \in Phases /\ progress \in Nat /\ unready \subseteq Databases
  /\ toClose \in Seq(Resources)
  /\ HeldFits /\ ActiveFits
  /\ held \cap Down = {}
  /\ \A r \in Requests : open[r] \cap Down = {}

\* A request runs until it is done, and its new transactions are in memory or
\* in a pool that is open.
LEMMA HandleFacts ==
  ASSUME TypeOK, NEW r \in Requests, Handle(r)
  PROVE  /\ memory' = memory /\ Active' \subseteq Active
         /\ \A q \in Requests : open'[q] \subseteq open[q] \cup memory \cup held
<1> USE DEF TypeOK
<1>1. CASE Begin(r) /\ Beginnable(Order[at[r]])
  BY <1>1 DEF Begin, Beginnable, Goto, Active
<1>2. CASE Rollback(r)
  BY <1>2 DEF Rollback, Close, Active
<1>3. CASE Commit(r)
  BY <1>3 DEF Commit, Close, NextCommit, Goto, Active
<1>4. CASE CommitFails(r)
  BY <1>4 DEF CommitFails, Close, NextCommit, Goto, Active
<1>5. CASE \E b \in Backends : Read(r, b) \/ Write(r, b) \/ Abort(r, b)
  BY <1>5 DEF Read, Write, Abort, Active
<1>6. CASE BeginFails(r) \/ AuthFails(r) \/ Authenticate(r)
  BY <1>6 DEF BeginFails, AuthFails, Authenticate, Goto, Active
<1>7. CASE Respond(r) \/ RespondError(r) \/ Panic(r) \/ Finish(r)
  BY <1>7 DEF Respond, RespondError, Panic, Finish, Goto, Active
<1> QED BY <1>1, <1>2, <1>3, <1>4, <1>5, <1>6, <1>7 DEF Handle

\* A step of requests that changes nothing of the process keeps the invariant.
LEMMA RequestsKeep ==
  ASSUME LifeInv, UNCHANGED life, memory' = memory,
         phase = "serving" \/ Active' \subseteq Active,
         \A q \in Requests : open'[q] \subseteq open[q] \cup memory \cup held
  PROVE  LifeInv'
<1>1. /\ HeldFits' /\ phase' \in Phases /\ progress' \in Nat /\ unready' \subseteq Databases'
      /\ toClose' \in Seq(Resources) /\ Down' = Down
  BY DEF LifeInv, HeldFits, life, Down, Opened, Outliving, Databases, Kept
<1>2. ActiveFits'
  BY <1>1 DEF LifeInv, ActiveFits, life
<1>3. held' \cap Down' = {}
  BY <1>1 DEF LifeInv, life
<1>4. memory \cap Down = {}
  BY DEF LifeInv, Databases, Down
<1>5. \A q \in Requests : open'[q] \cap Down' = {}
  BY <1>1, <1>4 DEF LifeInv
<1> QED BY <1>1, <1>2, <1>3, <1>5 DEF LifeInv

\* What a step of the process alone leaves as it is.
LEMMA Unserved ==
  ASSUME UNCHANGED vars
  PROVE  Active' = Active /\ open' = open /\ memory' = memory /\ Databases' = Databases
         /\ Outliving' = Outliving
BY DEF vars, Active, Databases, Outliving

LEMMA OpenKeeps == ASSUME LifeInv, Open PROVE LifeInv'
<1> DEFINE opened == Opening[progress + 1]
<1>1. /\ phase = "opening" /\ progress \in Nat /\ progress < Len(Opening)
      /\ held = Opened(progress) \ Down /\ unready \subseteq Opened(progress) /\ Active = {}
  BY DEF LifeInv, HeldFits, ActiveFits, Open
<1>2. Opened(progress + 1) = Opened(progress) \cup {opened} /\ opened \notin Opened(progress)
  BY <1>1, OpenedFacts
<1>3. /\ phase' = "opening" /\ progress' = progress + 1 /\ unready' = unready
      /\ held' = held \cup {opened} /\ Down' = Down /\ toClose' = toClose
  BY <1>1 DEF Open, Down
<1>4. progress' \in Nat /\ progress' <= Len(Opening)
  BY <1>1, <1>3, SequenceFacts
<1>5. Active' = Active /\ open' = open /\ Databases' = Databases
  BY Unserved DEF Open
<1>6. Opened(progress')  = Opened(progress) \cup {opened}
  BY <1>2, <1>3
<1>7. opened \notin Down
  BY <1>1, <1>2 DEF Down
<1>8. HeldFits'
  BY <1>1, <1>3, <1>4, <1>6, <1>7 DEF HeldFits, Opened
<1> QED BY <1>1, <1>3, <1>4, <1>5, <1>7, <1>8 DEF LifeInv, ActiveFits, Phases

LEMMA PrepareFailsKeeps == ASSUME Inv, LifeInv, PrepareFails PROVE LifeInv'
<1> DEFINE db == Opening[progress + 1]
<1>1. /\ phase = "opening" /\ progress \in Nat /\ progress < Len(Opening)
      /\ held = Opened(progress) \ Down /\ unready \subseteq Opened(progress) /\ Active = {}
  BY DEF LifeInv, HeldFits, ActiveFits, PrepareFails
<1>2. Opened(progress + 1) = Opened(progress) \cup {db} /\ db \notin Opened(progress)
  BY <1>1, OpenedFacts
<1>3. /\ phase' = "opening" /\ progress' = progress + 1 /\ unready' = unready \cup {db}
      /\ db \in Databases \ {"store"} /\ toClose' = toClose
      /\ held' = IF db = "cache" THEN held \cup {db} ELSE held
  BY <1>1 DEF PrepareFails
<1>4. progress' \in Nat /\ progress' <= Len(Opening)
  BY <1>1, <1>3, SequenceFacts
<1>5. Active' = Active /\ open' = open /\ Databases' = Databases
  BY Unserved DEF PrepareFails
<1>6. db \in {"perms", "cache"}
  BY <1>3 DEF Databases, Backends
<1>7. /\ held' = Opened(progress') \ Down' /\ unready' \subseteq Opened(progress')
      /\ unready' \subseteq Databases' /\ held' \cap Down' = {}
  BY <1>1, <1>2, <1>3, <1>5, <1>6 DEF Down, LifeInv
<1>8. HeldFits'
  BY <1>3, <1>4, <1>7 DEF HeldFits
<1>9. \A r \in Requests : open'[r] = {}
  BY <1>1, <1>5 DEF Active, Inv, ReqInv, OpenFits
<1> QED BY <1>1, <1>3, <1>4, <1>5, <1>7, <1>8, <1>9 DEF LifeInv, ActiveFits, Phases

LEMMA OpenFailsKeeps == ASSUME LifeInv, OpenFails PROVE LifeInv'
<1>1. /\ phase = "opening" /\ progress \in Nat /\ progress < Len(Opening)
      /\ held \subseteq Opened(progress) /\ Active = {}
  BY DEF LifeInv, HeldFits, ActiveFits, OpenFails
<1>2. /\ phase' = "closing" /\ toClose' = Cleanup /\ failing' = Opening[progress + 1]
      /\ progress' = progress /\ held' = held /\ unready' = unready /\ Down' = Down
  BY DEF OpenFails, Down
<1>3. Active' = Active /\ open' = open /\ Databases' = Databases /\ Outliving' = Outliving
  BY Unserved DEF OpenFails
<1>4. toClose' \in Seq(Resources) /\ held' \subseteq ToSet(toClose') \cup Kept(failing')
  BY <1>1, <1>2, CleanupFacts
<1>5. HeldFits'
  BY <1>2, <1>4 DEF HeldFits, Kept
<1> QED BY <1>1, <1>2, <1>3, <1>4, <1>5 DEF LifeInv, ActiveFits, Phases

LEMMA ListenKeeps == ASSUME LifeInv, Listen PROVE LifeInv'
<1>1. /\ phase = "opening" /\ phase' = "serving" /\ held' = held /\ progress' = progress
      /\ unready' = unready /\ progress = Len(Opening) /\ Down' = Down /\ toClose' = toClose
  BY DEF Listen, Down
<1>2. Active' = Active /\ open' = open /\ Databases' = Databases
  BY Unserved DEF Listen
<1>3. held' = Resources \ Down'
  BY <1>1, OpenedFacts DEF LifeInv, HeldFits, Resources
<1> QED BY <1>1, <1>2, <1>3 DEF LifeInv, HeldFits, ActiveFits, Phases

LEMMA SignalKeeps == ASSUME LifeInv, Signal \/ Expire PROVE LifeInv'
<1>1. /\ phase' = phase /\ progress' = progress /\ held' = held /\ unready' = unready
      /\ failing' = failing /\ toClose' = toClose /\ Down' = Down /\ (expired => expired')
  BY DEF Signal, Expire, Down
<1>2. /\ Active' = Active /\ open' = open /\ Databases' = Databases /\ Outliving' = Outliving
  BY Unserved DEF Signal, Expire
<1>3. HeldFits'
  BY <1>1, <1>2 DEF LifeInv, HeldFits, Opened, Kept
<1> QED BY <1>1, <1>2, <1>3 DEF LifeInv, ActiveFits

LEMMA ListenFailsKeeps == ASSUME LifeInv, ListenFails PROVE LifeInv'
<1>1. /\ phase = "serving" /\ phase' = "shutdown" /\ progress' = progress /\ held' = held
      /\ unready' = unready /\ Down' = Down /\ toClose' = toClose
  BY DEF ListenFails, Down
<1>2. Active' = Active /\ open' = open /\ Databases' = Databases
  BY Unserved DEF ListenFails
<1> QED BY <1>1, <1>2 DEF LifeInv, HeldFits, ActiveFits, Phases

LEMMA PrunePanicsKeeps == ASSUME LifeInv, PrunePanics PROVE LifeInv'
<1>1. /\ phase # "exited" /\ phase' = "crashed" /\ progress' = progress /\ held' = held
      /\ unready' = unready /\ expired' = expired /\ Down' = Down /\ toClose' = toClose
  BY DEF PrunePanics, Down, Over
<1>2. Active' = Active /\ open' = open /\ Databases' = Databases
  BY Unserved DEF PrunePanics
<1>3. HeldFits'
  BY <1>1 DEF HeldFits
<1>4. Active = {} \/ expired \/ held = Resources \ Down
  BY <1>1 DEF LifeInv, HeldFits, ActiveFits, Phases
<1> QED BY <1>1, <1>2, <1>3, <1>4 DEF LifeInv, ActiveFits, Phases

LEMMA ShutDownKeeps == ASSUME LifeInv, ShutDown PROVE LifeInv'
<1>1. /\ phase = "shutdown" /\ phase' = "closing" /\ toClose' = Closing /\ held' = held
      /\ progress' = progress /\ unready' = unready /\ expired' = expired /\ Down' = Down
      /\ (Active = {} \/ expired)
  BY DEF ShutDown, Down
<1>2. /\ Active' = Active /\ open' = open /\ Databases' = Databases /\ Outliving' = Outliving
  BY Unserved DEF ShutDown
<1>3. held \subseteq Resources
  BY <1>1 DEF LifeInv, HeldFits
<1>4. held' \subseteq ToSet(toClose') /\ toClose' \in Seq(Resources)
  BY <1>1, <1>3, SequenceFacts
<1>5. HeldFits'
  BY <1>1, <1>4 DEF HeldFits
<1> QED BY <1>1, <1>2, <1>4, <1>5 DEF LifeInv, ActiveFits, Phases

LEMMA CloseNextKeeps == ASSUME LifeInv, CloseNext PROVE LifeInv'
<1>1. /\ phase = "closing" /\ phase' = "closing" /\ progress' = progress /\ toClose # <<>>
      /\ held' = held \ ({Head(toClose)} \ Outliving) /\ toClose' = Tail(toClose)
      /\ failing' = failing /\ unready' = unready /\ expired' = expired /\ Down' = Down
  BY DEF CloseNext, Down
<1>2. /\ Active' = Active /\ open' = open /\ Databases' = Databases /\ Outliving' = Outliving
  BY Unserved DEF CloseNext
<1>3. /\ toClose \in Seq(Resources)
      /\ held \subseteq ToSet(toClose) \cup Kept(failing) \cup Outliving
  BY <1>1 DEF LifeInv, HeldFits
<1>4. toClose' \in Seq(Resources) /\ ToSet(toClose) \subseteq {Head(toClose)} \cup ToSet(toClose')
  BY <1>1, <1>3, TailSet
<1>5. held' \subseteq ToSet(toClose') \cup Kept(failing') \cup Outliving'
  BY <1>1, <1>2, <1>3, <1>4 DEF Kept
<1>6. HeldFits'
  BY <1>1, <1>5 DEF HeldFits
<1> QED BY <1>1, <1>2, <1>4, <1>6 DEF LifeInv, ActiveFits

LEMMA ExitKeeps == ASSUME LifeInv, Exit PROVE LifeInv'
<1>1. /\ phase = "closing" /\ phase' = "exited" /\ progress' = progress /\ held' = held
      /\ toClose = <<>> /\ toClose' = toClose /\ failing' = failing /\ unready' = unready
      /\ expired' = expired /\ Down' = Down
  BY DEF Exit, Down
<1>2. /\ Active' = Active /\ open' = open /\ Databases' = Databases /\ Outliving' = Outliving
  BY Unserved DEF Exit
<1>3. ToSet(toClose) = {}
  BY <1>1 DEF ToSet
<1>4. held' \subseteq Kept(failing') \cup Outliving'
  BY <1>1, <1>2, <1>3 DEF LifeInv, HeldFits, Kept
<1>5. HeldFits'
  BY <1>1, <1>4 DEF HeldFits
<1> QED BY <1>1, <1>2, <1>5 DEF LifeInv, ActiveFits, Phases

LEMMA LifeNext == Inv /\ LifeInv /\ [ServerNext]_serverVars => LifeInv'
<1> SUFFICES ASSUME Inv, LifeInv, [ServerNext]_serverVars PROVE LifeInv'
  OBVIOUS
<1>1. ASSUME NEW r \in Requests, Accept(r) PROVE LifeInv'
  BY <1>1, RequestsKeep DEF Accept, Arrive
<1>2. ASSUME NEW r \in Requests, Handle(r) PROVE LifeInv'
  <2>1. UNCHANGED life
    BY <1>2 DEF Handle
  <2> QED BY <1>2, <2>1, HandleFacts, RequestsKeep DEF Inv
<1>3. CASE Reaping
  <2>1. UNCHANGED life /\ memory' = memory /\ open' = open /\ Active' = Active
    BY <1>3 DEF Reaping, Reap, ReapDone, Active
  <2> QED BY <2>1, RequestsKeep
<1>4. CASE UNCHANGED serverVars
  <2>1. UNCHANGED life /\ UNCHANGED vars
    BY <1>4 DEF serverVars
  <2> QED BY <2>1, Unserved, RequestsKeep
<1>5. CASE Open \/ OpenFails \/ PrepareFails \/ Listen
  BY <1>5, OpenKeeps, OpenFailsKeeps, PrepareFailsKeeps, ListenKeeps
<1>6. CASE Signal \/ PrunePanics \/ ListenFails \/ Expire \/ ShutDown \/ CloseNext \/ Exit
  BY <1>6, SignalKeeps, PrunePanicsKeeps, ListenFailsKeeps, ShutDownKeeps, CloseNextKeeps,
     ExitKeeps
<1> QED BY <1>1, <1>2, <1>3, <1>4, <1>5, <1>6 DEF ServerNext

LEMMA LifeInvariant == ServerSpec => []LifeInv
<1>1. ServerInit => LifeInv
  <2> SUFFICES ASSUME ServerInit PROVE LifeInv
    OBVIOUS
  <2>1. <<>> \in Seq(Resources) /\ Len(Opening) \in Nat
    BY SequenceFacts
  <2>2. Active = {} /\ Down = {}
    BY DEF ServerInit, Init, Active, Down
  <2>3. HeldFits /\ ActiveFits
    BY <2>1, <2>2, OpenedFacts DEF ServerInit, HeldFits, ActiveFits
  <2> QED BY <2>1, <2>2, <2>3 DEF ServerInit, Init, LifeInv, Phases
<1>2. ServerInit => Init
  BY DEF ServerInit
<1> QED BY <1>1, <1>2, InvInit, InvNext, ServerSteps, LifeNext, PTL DEF ServerSpec

\* Wherever New fails to open, and whenever the listener fails, a process whose
\* main returns has closed what it opened (server.go:29-90, 99-108), but for the
\* methods of one whose authentication failed to open and for the pool of a
\* cache in PostgreSQL.  It does not speak of a process that panics while it
\* prunes that cache without a statement (cache.go:40-58, 115-129).
THEOREM ClosesAll == ServerSpec => []AllReleased
<1>1. LifeInv => AllReleased
  BY DEF LifeInv, HeldFits, AllReleased, Kept
<1> QED BY <1>1, LifeInvariant, PTL

\* Within the grace time no request finds a resource closed under it, and
\* none has a transaction in a pool that is not open (Close, server.go:99-108).
THEOREM ServesWhileOpen == ServerSpec => []OpenWhileServing
<1>1. Inv /\ LifeInv => OpenWhileServing
  <2> SUFFICES ASSUME Inv, LifeInv, Active # {}, ~expired
               PROVE  /\ held = Resources \ Down
                      /\ \A r \in Active : open[r] \subseteq held
    BY DEF OpenWhileServing, Down, Resources
  <2>1. held = Resources \ Down
    BY DEF LifeInv, Phases, HeldFits, ActiveFits
  <2>2. \A r \in Requests : open[r] \subseteq Backends /\ open[r] \cap Down = {}
    BY DEF Inv, TypeOK, LifeInv
  <2> QED BY <2>1, <2>2, SequenceFacts DEF Active
<1> QED BY <1>1, LifeInvariant, ServedAsSpecified, InvInit, InvNext, PTL DEF Spec
=============================================================================
