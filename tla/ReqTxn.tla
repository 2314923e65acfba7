------------------------------- MODULE ReqTxn -------------------------------
(***************************************************************************)
(* The life of an API request's transaction (pkg/api/txn.go and the        *)
(* transactional middleware of internal/server): a transaction is begun in *)
(* the store, the permission and the cache backend, the handler reads and  *)
(* writes them, the status code decides between commit and rollback, and a *)
(* deferred rollback ends whatever is still open.                          *)
(*                                                                         *)
(* A backend is either in memory, where Begin takes a mutex that Commit or *)
(* Rollback releases and writes happen in place, or a database, where any  *)
(* call may fail and writes become visible by Commit.  The goroutine that  *)
(* reaps expired keys takes the mutex of the in-memory cache.              *)
(*                                                                         *)
(* The content of a backend is abstracted to the set of requests whose     *)
(* writes are visible in it: a request writes a backend once or never, and *)
(* reads it once or never.  A batch serves its parts in one such           *)
(* transaction, whatever becomes of each (internal/batch).                 *)
(***************************************************************************)
EXTENDS Naturals

CONSTANTS
  Requests,   \* the requests a run serves
  Deployments, \* the sets of backends a server may keep in memory
  Readable,   \* bound: the backends in memory that handlers read
  Writable,   \* bound: the backends handlers write
  Refusing,   \* bound: the databases in which a statement may fail
  Nobody,     \* a mutex nobody holds
  Reaper      \* the cache's reaper goroutine

Backends == {"store", "perms", "cache"}

\* the order in which a Txn begins, commits and rolls back
Order == <<"store", "perms", "cache">>

ASSUME BackendsAssumption ==
  Deployments \subseteq SUBSET Backends /\ Readable \subseteq Backends
  /\ Writable \subseteq Backends /\ Refusing \subseteq Backends
ASSUME OwnersAssumption == Nobody \notin Requests /\ Reaper \notin Requests /\ Nobody # Reaper

NotRead == [read |-> FALSE, of |-> {}]

VARIABLES
  memory,   \* the backends kept in memory, the others are databases
  pc,       \* [Requests -> where the request is]
  at,       \* [Requests -> position in Order of the next Begin or Commit]
  open,     \* [Requests -> backends whose transaction is not done]
  holder,   \* [Backends -> owner of the mutex]
  wrote,    \* [Requests -> backends the handler has written]
  visible,  \* [Backends -> requests whose writes another request would read]
  seen,     \* [Requests -> what it read of each backend]
  aborted,  \* [Requests -> databases in which a statement of it has failed]
  failed,   \* [Requests -> a Commit returned an error]
  answer    \* [Requests -> the response its client got]

vars == <<memory, pc, at, open, holder, wrote, visible, seen, aborted, failed, answer>>

Init ==
  /\ memory \in Deployments
  /\ pc = [r \in Requests |-> "new"]
  /\ at = [r \in Requests |-> 1]
  /\ open = [r \in Requests |-> {}]
  /\ holder = [b \in Backends |-> Nobody]
  /\ wrote = [r \in Requests |-> {}]
  /\ visible = [b \in Backends |-> {}]
  /\ seen = [r \in Requests |-> [b \in Backends |-> NotRead]]
  /\ aborted = [r \in Requests |-> {}]
  /\ failed = [r \in Requests |-> FALSE]
  /\ answer = [r \in Requests |-> "none"]

Goto(r, label) == pc' = [pc EXCEPT ![r] = label]

\* the end of r's transaction in b, by Commit or Rollback
Close(r, b) ==
  /\ open' = [open EXCEPT ![r] = @ \ {b}]
  /\ holder' = IF b \in memory THEN [holder EXCEPT ![b] = Nobody] ELSE holder

-----------------------------------------------------------------------------
(* NewTxn *)

Arrive(r) ==
  /\ pc[r] = "new"
  /\ Goto(r, "begin")
  /\ UNCHANGED <<memory, at, open, holder, wrote, visible, seen, aborted, failed, answer>>

\* Mutant of Begin: the loop over the backends ends one too late.
BeginBeyond(r) ==
  /\ pc[r] = "begin"
  /\ at' = [at EXCEPT ![r] = @ + 1]
  /\ Goto(r, IF at[r] = 3 THEN "auth" ELSE "begin")
  /\ UNCHANGED <<memory, open, holder, wrote, visible, seen, aborted, failed, answer>>

\* Mutant of Begin: it does not wait for the mutex.
BeginUnlocked(r) ==
  /\ pc[r] = "begin"
  /\ open' = [open EXCEPT ![r] = @ \cup {Order[at[r]]}]
  /\ at' = [at EXCEPT ![r] = IF @ = 3 THEN 1 ELSE @ + 1]
  /\ Goto(r, IF at[r] = 3 THEN "auth" ELSE "begin")
  /\ UNCHANGED <<memory, holder, wrote, visible, seen, aborted, failed, answer>>

\* Begin of the next backend: waits for the mutex of one in memory
Begin(r) ==
  /\ pc[r] = "begin"
  /\ LET b == Order[at[r]]
     IN  /\ b \in memory => holder[b] = Nobody
         /\ holder' = IF b \in memory THEN [holder EXCEPT ![b] = r] ELSE holder
         /\ open' = [open EXCEPT ![r] = @ \cup {b}]
  /\ at' = [at EXCEPT ![r] = IF @ = 3 THEN 1 ELSE @ + 1]
  /\ Goto(r, IF at[r] = 3 THEN "auth" ELSE "begin")
  /\ UNCHANGED <<memory, wrote, visible, seen, aborted, failed, answer>>

\* Mutant of BeginFails: the permission transaction is forgotten.
BeginFailsLeaking(r) ==
  /\ pc[r] = "begin" /\ Order[at[r]] \notin memory
  /\ open' = [open EXCEPT ![r] = @ \ {"perms"}]
  /\ Goto(r, "undo")
  /\ UNCHANGED <<memory, at, holder, wrote, visible, seen, aborted, failed, answer>>

\* Begin fails: the transactions begun so far are rolled back
BeginFails(r) ==
  /\ pc[r] = "begin" /\ Order[at[r]] \notin memory
  /\ Goto(r, "undo")
  /\ UNCHANGED <<memory, at, open, holder, wrote, visible, seen, aborted, failed, answer>>

-----------------------------------------------------------------------------
(* The middleware around the handler and the handler. *)

\* the user is known, or anonymous, and so are its principals
Authenticate(r) ==
  /\ pc[r] = "auth"
  /\ Goto(r, "work")
  /\ UNCHANGED <<memory, at, open, holder, wrote, visible, seen, aborted, failed, answer>>

\* an error while authenticating is rendered past the commit
AuthFails(r) ==
  /\ pc[r] = "auth"
  /\ Goto(r, "undo")
  /\ answer' = [answer EXCEPT ![r] = "error"]
  /\ UNCHANGED <<memory, at, open, holder, wrote, visible, seen, aborted, failed>>

\* what a request reads of a database is the subject of PgStore and PgRequest
Read(r, b) ==
  /\ pc[r] = "work" /\ b \in Readable \cap memory /\ ~seen[r][b].read
  /\ seen' = [seen EXCEPT ![r][b] = [read |-> TRUE, of |-> visible[b]]]
  /\ UNCHANGED <<memory, pc, at, open, holder, wrote, visible, aborted, failed, answer>>

Write(r, b) ==
  /\ pc[r] = "work" /\ b \in Writable \ (wrote[r] \cup aborted[r])
  /\ wrote' = [wrote EXCEPT ![r] = @ \cup {b}]
  /\ visible' = IF b \in memory THEN [visible EXCEPT ![b] = @ \cup {r}] ELSE visible
  /\ UNCHANGED <<memory, pc, at, open, holder, seen, aborted, failed, answer>>

\* A statement of a batch's part fails: its part of the answer is a 5xx, the
\* parts after it are served, in a transaction the database has given up.
Abort(r, b) ==
  /\ pc[r] = "work" /\ b \in Refusing \ (memory \cup aborted[r])
  /\ aborted' = [aborted EXCEPT ![r] = @ \cup {b}]
  /\ UNCHANGED <<memory, pc, at, open, holder, wrote, visible, seen, failed, answer>>

\* WriteHeader with a status below 500 commits first; a batch's always is
Respond(r) ==
  /\ pc[r] = "work"
  /\ Goto(r, "commit")
  /\ UNCHANGED <<memory, at, open, holder, wrote, visible, seen, aborted, failed, answer>>

\* WriteHeader with a status of 500 or more
RespondError(r) ==
  /\ pc[r] = "work"
  /\ Goto(r, "undo")
  /\ answer' = [answer EXCEPT ![r] = "error"]
  /\ UNCHANGED <<memory, at, open, holder, wrote, visible, seen, aborted, failed>>

\* the handler panics before it answers
Panic(r) ==
  /\ pc[r] = "work"
  /\ Goto(r, "undo")
  /\ UNCHANGED <<memory, at, open, holder, wrote, visible, seen, aborted, failed, answer>>

-----------------------------------------------------------------------------
(* Commit runs all three commits, whether or not one fails. *)

\* where Commit goes once the outcome of the backend at at[r] is known
NextCommit(r, fails) ==
  /\ failed' = [failed EXCEPT ![r] = @ \/ fails]
  /\ at' = [at EXCEPT ![r] = IF @ = 3 THEN 1 ELSE @ + 1]
  /\ Goto(r, IF at[r] = 3 THEN "undo" ELSE "commit")
  /\ answer' = IF at[r] = 3
               THEN [answer EXCEPT ![r] = IF failed'[r] THEN "unavailable" ELSE "fine"]
               ELSE answer

\* Mutant of Commit: commits of a transaction given up are taken for commits.
CommitGivenUp(r) ==
  /\ pc[r] = "commit"
  /\ LET b == Order[at[r]]
     IN  /\ Close(r, b)
         /\ visible' = IF b \in wrote[r] \ aborted[r]
                       THEN [visible EXCEPT ![b] = @ \cup {r}] ELSE visible
  /\ NextCommit(r, FALSE)
  /\ UNCHANGED <<memory, wrote, seen, aborted>>

\* the database commits, or the mutex is released
Commit(r) ==
  /\ pc[r] = "commit" /\ Order[at[r]] \notin aborted[r]
  /\ LET b == Order[at[r]]
     IN  /\ Close(r, b)
         /\ visible' = IF b \in wrote[r] THEN [visible EXCEPT ![b] = @ \cup {r}] ELSE visible
  /\ NextCommit(r, FALSE)
  /\ UNCHANGED <<memory, wrote, seen, aborted>>

\* Commit returns an error: the database's answer was lost, or the transaction
\* had been given up and lib/pq says so
CommitFails(r) ==
  /\ pc[r] = "commit" /\ Order[at[r]] \notin memory
  /\ LET b == Order[at[r]]
     IN  /\ Close(r, b)
         /\ \/ UNCHANGED visible
            \/ b \in wrote[r] \ aborted[r] /\ visible' = [visible EXCEPT ![b] = @ \cup {r}]
  /\ NextCommit(r, TRUE)
  /\ UNCHANGED <<memory, wrote, seen, aborted>>

-----------------------------------------------------------------------------
(* The deferred Rollback; a transaction that is done returns ErrTxDone. *)

\* Mutant of Undone: a rollback in memory leaves the writes of permissions.
UndoneButPerms(r, b) ==
  IF b \in memory /\ b # "perms" THEN [visible EXCEPT ![b] = @ \ {r}] ELSE visible

\* b after the rollback of r: the undo log of one in memory, or nothing to do
Undone(r, b) ==
  IF b \in memory THEN [visible EXCEPT ![b] = @ \ {r}] ELSE visible

\* Rollback of the first backend whose transaction is open
Rollback(r) ==
  /\ pc[r] = "undo"
  /\ \E i \in 1..3 :
       /\ Order[i] \in open[r]
       /\ \A j \in 1..i-1 : Order[j] \notin open[r]
       /\ Close(r, Order[i])
       /\ visible' = Undone(r, Order[i])
  /\ UNCHANGED <<memory, pc, at, wrote, seen, aborted, failed, answer>>

\* A request that was not answered yet is now: NewTxn's error is rendered, or
\* the recovered panic is.
Finish(r) ==
  /\ pc[r] = "undo" /\ open[r] = {}
  /\ Goto(r, "done")
  /\ answer' = IF answer[r] = "none" THEN [answer EXCEPT ![r] = "error"] ELSE answer
  /\ UNCHANGED <<memory, at, open, holder, wrote, visible, seen, aborted, failed>>

-----------------------------------------------------------------------------
(* The reaper of the in-memory cache. *)

Reap ==
  /\ "cache" \in memory /\ holder["cache"] = Nobody
  /\ holder' = [holder EXCEPT !["cache"] = Reaper]
  /\ UNCHANGED <<memory, pc, at, open, wrote, visible, seen, aborted, failed, answer>>

ReapDone ==
  /\ holder["cache"] = Reaper
  /\ holder' = [holder EXCEPT !["cache"] = Nobody]
  /\ UNCHANGED <<memory, pc, at, open, wrote, visible, seen, aborted, failed, answer>>

-----------------------------------------------------------------------------

Next ==
  \/ \E r \in Requests :
       \/ Arrive(r) \/ Begin(r) \/ BeginFails(r)
       \/ Authenticate(r) \/ AuthFails(r)
       \/ \E b \in Backends : Read(r, b) \/ Write(r, b) \/ Abort(r, b)
       \/ Respond(r) \/ RespondError(r) \/ Panic(r)
       \/ Commit(r) \/ CommitFails(r)
       \/ Rollback(r) \/ Finish(r)
  \/ Reap \/ ReapDone

Spec == Init /\ [][Next]_vars

\* Go's mutex hands itself to the goroutine that has waited longest once that
\* waits over a millisecond, hence strong fairness of Begin; every other step
\* is code that runs to its end, hence weak fairness.  Requests need not come.
Fairness ==
  /\ \A r \in Requests :
       /\ SF_vars(Begin(r) \/ BeginFails(r))
       /\ WF_vars(Authenticate(r) \/ AuthFails(r))
       /\ WF_vars(Respond(r) \/ RespondError(r) \/ Panic(r))
       /\ WF_vars(Commit(r) \/ CommitFails(r))
       /\ WF_vars(Rollback(r) \/ Finish(r))
  /\ WF_vars(ReapDone)

FairSpec == Spec /\ Fairness

-----------------------------------------------------------------------------
(* Properties. *)

Labels  == {"new", "begin", "auth", "work", "commit", "undo", "done"}
Answers == {"none", "fine", "error", "unavailable"}

\* Every variable has its type.
TypeOK ==
  /\ memory \in Deployments
  /\ pc \in [Requests -> Labels]
  /\ at \in [Requests -> 1..3]
  /\ open \in [Requests -> SUBSET Backends]
  /\ holder \in [Backends -> Requests \cup {Nobody, Reaper}]
  /\ wrote \in [Requests -> SUBSET Backends]
  /\ visible \in [Backends -> SUBSET Requests]
  /\ seen \in [Requests -> [Backends -> [read: BOOLEAN, of: SUBSET Requests]]]
  /\ aborted \in [Requests -> SUBSET Backends]
  /\ failed \in [Requests -> BOOLEAN]
  /\ answer \in [Requests -> Answers]

\* A response below 500 is sent only when every backend kept the request's
\* writes, for good (WriteHeader, middleware.go:135-148), those of a batch's
\* parts that went well beside one that failed included (batch.go:44-53).
FineMeansKept ==
  \A r \in Requests : answer[r] = "fine" => \A b \in wrote[r] : r \in visible[b]

\* A request that failed before it committed leaves no writes behind, however
\* it failed: in NewTxn, in authentication, in the handler or by a panic
\* (the deferred Rollback, middleware.go:100).
ErrorLeavesNothing ==
  \A r \in Requests :
    pc[r] = "done" /\ answer[r] = "error" => \A b \in Backends : r \notin visible[b]

\* With every backend in memory a request reads, of every other request, what
\* that one left behind for good and all of it: store and permissions never
\* disagree about whether it happened (NewTxn takes the three mutexes before
\* it reads, txn.go:42-70).
ReadsWhole ==
  memory = Backends =>
    \A r, w \in Requests :
      \A b, c \in Backends :
        r # w /\ seen[r][b].read /\ seen[r][c].read /\ w \in seen[r][b].of
          => /\ answer[w] = "fine"
             /\ w \in visible[b]
             /\ c \in wrote[w] => w \in seen[r][c].of

\* Every request that arrives is answered and lets go of the backends, so no
\* lock is lost on any path and no requests wait for each other in a circle
\* (NewTxn, Commit and Rollback, txn.go:42-88).
Answered == \A r \in Requests : pc[r] = "begin" ~> pc[r] = "done" /\ answer[r] # "none"

\* No mutex is lost and requests cannot wait for each other in a circle: who
\* holds one has its transaction still to end, waits, while it begins, only for
\* one that comes later in the order, and is not refused its commit (NewTxn,
\* Commit and Rollback, txn.go:42-88).
LocksOrdered ==
  \A b \in Backends, w \in Requests :
    holder[b] = w
      => /\ b \in open[w]
         /\ pc[w] = "begin" => \A i \in 1..3 : Order[i] = b => i < at[w]
         /\ pc[w] = "commit" => b \notin aborted[w]

\* what is in b for good, and what it holds while a handler runs
Settled(b) == {r \in visible[b] : pc[r] = "commit" \/ answer[r] = "fine"}
Handling   == {r \in Requests : pc[r] \in {"auth", "work"}}
Current(b) == Settled(b) \cup (visible[b] \cap Handling)

\* With every backend in memory the requests are transactions one after the
\* other on the three of them together: one ends when its handler answers, with
\* all its writes or none (NewTxn, txn.go:42-70, and WriteHeader,
\* middleware.go:135-148), however its commits and rollbacks mix with the
\* beginning of the next.
TS == INSTANCE TxStore WITH
        Snapshots <- [Backends -> SUBSET Requests],
        committed <- [b \in Backends |-> Settled(b)],
        working   <- [b \in Backends |-> Current(b)],
        open      <- Handling # {}

ImplementsTxStore == TS!Spec

\* And what a handler reads is the working copy of its transaction.
ReadsCurrent ==
  [][memory = Backends => \A r \in Requests, b \in Backends : Read(r, b) => visible[b] = Current(b)]_vars
=============================================================================
