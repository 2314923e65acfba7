----------------------------- MODULE ServerLife -----------------------------
(***************************************************************************)
(* The life of the server process and the requests it serves: internal/cli *)
(* runs server.New, which opens plugins, rules, authentication methods and *)
(* the three backend connections one after the other, then ListenAndServe, *)
(* and closes the server when that returns.  A signal cancels the context  *)
(* of the process, which is that of every request.  A backend in           *)
(* PostgreSQL is a pool of connections and the statements prepared in it:  *)
(* what is open or closed here is the pool.                                *)
(***************************************************************************)
EXTENDS ReqTxn, SequencesExt

CONSTANTS Plugins, Rules, Methods   \* sequences of what the configuration enables

Conns == <<"store", "perms", "cache">>

\* what New opens, in this order, and what Close closes, in this one
Opening == Plugins \o Rules \o Methods \o Conns
Closing == Conns \o Methods \o Rules \o Plugins

ASSUME ResourcesAssumption ==
  /\ \A s \in {Plugins, Rules, Methods} : s \in Seq(ToSet(s))
  /\ IsInjective(Opening)

VARIABLES
  phase,      \* where the process is
  progress,   \* how many of Opening were opened
  toClose,    \* what is left to close, in this order
  held,       \* the resources that are open
  unready,    \* the databases that serve without their statements
  doomed,     \* the pruning loop of the cache runs without its statement
  failing,    \* the resource New failed to open, or "none"
  signalled,  \* SIGHUP, SIGINT or SIGTERM came
  expired     \* shutdown_timeout has passed

life == <<phase, progress, toClose, held, unready, doomed, failing, signalled, expired>>
serverVars == <<vars, life>>

Databases == Backends \ memory

\* the process is over: main has returned, or a goroutine has panicked
Over == {"exited", "crashed"}

\* the requests whose handler runs
Active == {r \in Requests : pc[r] \notin {"new", "done"}}

ServerInit ==
  /\ Init
  /\ phase = "opening"
  /\ progress = 0
  /\ toClose = <<>>
  /\ held = {}
  /\ unready = {}
  /\ doomed = FALSE
  /\ failing = "none"
  /\ signalled = FALSE
  /\ expired = FALSE

-----------------------------------------------------------------------------
(* server.New *)

\* Connect of a database checks it with the context a signal cancels.
Open ==
  /\ phase = "opening" /\ progress < Len(Opening)
  /\ signalled => Opening[progress + 1] \notin Databases
  /\ held' = held \cup {Opening[progress + 1]}
  /\ progress' = progress + 1
  /\ UNCHANGED <<vars, phase, toClose, unready, doomed, failing, signalled, expired>>

RulesAt   == Len(Plugins)
MethodsAt == RulesAt + Len(Rules)
ConnsAt   == MethodsAt + Len(Methods)

\* Mutant of Cleanup: New forgets the authentication methods.
CleanupForgetting ==
  CASE progress < RulesAt -> SubSeq(Plugins, 1, progress)
    [] progress \in RulesAt..MethodsAt - 1 -> SubSeq(Rules, 1, progress - RulesAt) \o Plugins
    [] progress \in MethodsAt..ConnsAt - 1 -> Rules \o Plugins
    [] OTHER -> SubSeq(Conns, 1, progress - ConnsAt) \o Rules \o Plugins

\* What is closed when the next resource cannot be opened: first those of its
\* kind, by the Init or Connect that fails, then the kinds before it, by New.
\* initAuth closes none of the methods it has.
Cleanup ==
  CASE progress < RulesAt -> SubSeq(Plugins, 1, progress)
    [] progress \in RulesAt..MethodsAt - 1 -> SubSeq(Rules, 1, progress - RulesAt) \o Plugins
    [] progress \in MethodsAt..ConnsAt - 1 -> Rules \o Plugins
    [] OTHER -> SubSeq(Conns, 1, progress - ConnsAt) \o Methods \o Rules \o Plugins

\* run returns New's error once that is done
OpenFails ==
  /\ phase = "opening" /\ progress < Len(Opening)
  /\ failing' = Opening[progress + 1]
  /\ phase' = "closing" /\ toClose' = Cleanup
  /\ UNCHANGED <<vars, progress, held, unready, doomed, signalled, expired>>

\* Statements cannot be prepared: Connect of the permissions closes their pool,
\* that of the cache keeps it and prunes all the same, by a statement that is
\* closed or that it never got; neither returns the error.
PrepareFails ==
  /\ phase = "opening" /\ progress < Len(Opening) /\ ~signalled
  /\ LET db == Opening[progress + 1]
     IN  /\ db \in Databases \ {"store"}
         /\ unready' = unready \cup {db}
         /\ held' = IF db = "cache" THEN held \cup {db} ELSE held
         /\ doomed' \in IF db = "cache" THEN BOOLEAN ELSE {FALSE}
  /\ progress' = progress + 1
  /\ UNCHANGED <<vars, phase, toClose, failing, signalled, expired>>

Listen ==
  /\ phase = "opening" /\ progress = Len(Opening)
  /\ phase' = "serving"
  /\ UNCHANGED <<vars, progress, toClose, held, unready, doomed, failing, signalled, expired>>

-----------------------------------------------------------------------------
(* The requests, while ListenAndServe serves them and Shutdown waits. *)

Accept(r) == phase = "serving" /\ Arrive(r) /\ UNCHANGED life

\* BeginTx fails in a pool that is closed, and with a context that is cancelled
Beginnable(b) == b \in memory \/ (b \in held /\ ~signalled)

\* then no commit succeeds in a database either
Cancelled(b) == signalled /\ b \notin memory

\* nor any statement, nor one that was not prepared
Usable(b) == ~Cancelled(b) /\ b \notin unready

\* Shutdown does not interrupt a handler, the end of the process does.
Handle(r) ==
  /\ phase \notin Over /\ UNCHANGED life
  /\ \/ Begin(r) /\ Beginnable(Order[at[r]])
     \/ BeginFails(r) \/ AuthFails(r) \/ (Authenticate(r) /\ Usable("perms"))
     \/ \E b \in Backends : (Usable(b) /\ (Read(r, b) \/ Write(r, b))) \/ Abort(r, b)
     \/ Respond(r) \/ RespondError(r) \/ Panic(r)
     \/ (Commit(r) /\ ~Cancelled(Order[at[r]]))
     \/ CommitFails(r) \/ Rollback(r) \/ Finish(r)

\* the reaper runs from the opening of a cache in memory to its closing
Reaping == phase \notin Over /\ "cache" \in held /\ (Reap \/ ReapDone) /\ UNCHANGED life

\* The first tick of a pruning loop without its statement: nothing recovers the
\* panic.  (The tick may have come before the loop was told to stop.)
PrunePanics ==
  /\ doomed /\ phase \notin Over
  /\ phase' = "crashed"
  /\ UNCHANGED <<vars, progress, toClose, held, unready, doomed, failing, signalled, expired>>

\* NotifyContext takes the signal and cancels the context, which nothing that
\* serves is waiting for
Signal ==
  /\ phase \notin Over /\ ~signalled
  /\ signalled' = TRUE
  /\ UNCHANGED <<vars, phase, progress, toClose, held, unready, doomed, failing, expired>>

\* the address is taken, or the listener fails for good
ListenFails ==
  /\ phase = "serving"
  /\ phase' = "shutdown"
  /\ UNCHANGED <<vars, progress, toClose, held, unready, doomed, failing, signalled, expired>>

-----------------------------------------------------------------------------
(* Server.Close *)

\* the deadline of Shutdown's context passes
Expire ==
  /\ phase = "shutdown" /\ ~expired
  /\ expired' = TRUE
  /\ UNCHANGED <<vars, phase, progress, toClose, held, unready, doomed, failing, signalled>>

\* Mutant of ShutDown: it does not wait.
ShutDownAtOnce ==
  /\ phase = "shutdown"
  /\ phase' = "closing" /\ toClose' = Closing
  /\ UNCHANGED <<vars, progress, held, unready, doomed, failing, signalled, expired>>

\* Mutant of ShutDown: it waits for the context too.
ShutDownWhenCancelled ==
  /\ phase = "shutdown" /\ (Active = {} \/ expired) /\ signalled
  /\ phase' = "closing" /\ toClose' = Closing
  /\ UNCHANGED <<vars, progress, held, unready, doomed, failing, signalled, expired>>

\* Shutdown returns when no request is left or the deadline has passed
ShutDown ==
  /\ phase = "shutdown" /\ (Active = {} \/ expired)
  /\ phase' = "closing" /\ toClose' = Closing
  /\ UNCHANGED <<vars, progress, held, unready, doomed, failing, signalled, expired>>

\* what closing a resource leaves open: Close of a cache in PostgreSQL closes
\* its statements only
Outliving == Databases \cap {"cache"}

\* the next resource is closed, and whether that failed is not looked at; a
\* cache in memory is closed under its mutex
CloseNext ==
  /\ phase = "closing" /\ toClose # <<>>
  /\ Head(toClose) = "cache" /\ "cache" \in memory => holder["cache"] = Nobody
  /\ held' = held \ ({Head(toClose)} \ Outliving)
  /\ toClose' = Tail(toClose)
  /\ UNCHANGED <<vars, phase, progress, unready, doomed, failing, signalled, expired>>

\* main returns
Exit ==
  /\ phase = "closing" /\ toClose = <<>>
  /\ phase' = "exited"
  /\ UNCHANGED <<vars, progress, toClose, held, unready, doomed, failing, signalled, expired>>

-----------------------------------------------------------------------------

ServerNext ==
  \/ Open \/ OpenFails \/ PrepareFails \/ Listen
  \/ \E r \in Requests : Accept(r) \/ Handle(r)
  \/ Reaping \/ PrunePanics
  \/ Signal \/ ListenFails
  \/ Expire \/ ShutDown \/ CloseNext \/ Exit

ServerSpec == ServerInit /\ [][ServerNext]_serverVars

\* Steps of the code are taken and the deadline passes.  A mutex that is freed
\* again and again is obtained by a request, and by Close of the cache, as in
\* Fairness of ReqTxn; a request takes finitely many steps.
ServerFairness ==
  /\ WF_serverVars(Open \/ OpenFails \/ PrepareFails \/ Listen)
  /\ \A r \in Requests : SF_serverVars(Handle(r))
  /\ WF_serverVars(holder["cache"] = Reaper /\ Reaping)
  /\ WF_serverVars(Expire) /\ WF_serverVars(ShutDown)
  /\ SF_serverVars(CloseNext) /\ WF_serverVars(Exit)

FairServerSpec == ServerSpec /\ ServerFairness

-----------------------------------------------------------------------------
(* Properties. *)

\* A process whose main returns has closed all it opened, when New, listening
\* or serving failed (server.go:29-90, 99-108), but for the pool of a cache in
\* PostgreSQL, unless it was an authentication method that failed to open.  One
\* that panics while pruning has closed nothing.
AllReleased == phase = "exited" /\ failing \notin ToSet(Methods) => held \subseteq Outliving

\* While a handler runs every resource it may call is open, until the grace
\* time is over (Close, server.go:99-108), and so is every backend in which it
\* has a transaction; the pool of permissions whose statements could not be
\* prepared never was, and nothing begins there.
OpenWhileServing ==
  Active # {} /\ ~expired
    => /\ held = ToSet(Opening) \ (unready \cap {"perms"})
       /\ \A r \in Active : open[r] \subseteq held

\* Once the listener has failed the process ends, whatever its requests do.
FailureEnds == phase = "shutdown" ~> phase \in Over

\* A signal ends the process after the grace time at most.
SignalEnds == signalled ~> phase \in Over
=============================================================================
