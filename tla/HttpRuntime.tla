----------------------------- MODULE HttpRuntime -----------------------------
(***************************************************************************)
(* The host backend's runtime (internal/runtime/runtime.go) from the moment *)
(* `_start` runs: `main` fills the database and the route table, a server   *)
(* may start, and then one goroutine per HTTP request runs the route        *)
(* handler inside a transaction, under handlerMu.                           *)
(*                                                                          *)
(* The data is abstracted to what the properties tell apart: a database is  *)
(* a function from rows (Keys) to the last writer of the row, so that the   *)
(* effect of every request remains visible in it.                           *)
(***************************************************************************)
EXTENDS Naturals

CONSTANTS
    Requests,           \* the HTTP requests of one execution, one goroutine each
    Keys,               \* rows of a database
    Paths,              \* request paths
    Files,              \* names db_open can be called with, besides ":memory:"
    BadFiles,           \* those that cannot be opened or, if the program declares
                        \* tables, have tables that do not validate
    Mem,                \* ":memory:"
    NoDB,               \* r.db = nil
    NoReq,              \* handlerMu free; currentTx = nil
    Main,               \* the writer of rows that main stored
    Nobody,             \* the writer of rows that nobody stored
    NotRead,            \* a row a handler has not read
    HasTables,          \* the program declares tables: openDB touches the file at once
    HandlersReopen,     \* route handlers call db_open
    GcRequestInterval   \* gcRequestInterval

ASSUME NamesAssumption ==
    /\ BadFiles \subseteq Files
    /\ Mem \notin Files
    /\ NoDB \notin Files \cup {Mem}
    /\ NoReq \notin Requests
    /\ {Main, Nobody, NotRead} \cap Requests = {}
    /\ NotRead \notin {Main, Nobody}
    /\ Main # Nobody
ASSUME FlagsAssumption == HasTables \in BOOLEAN /\ HandlersReopen \in BOOLEAN
ASSUME GcAssumption == GcRequestInterval \in Nat \ {0}

VARIABLES
    phase,       \* "main" (in _start), "serving" (in ListenAndServe) or "exited"
    listening,   \* r.pendingServer # nil
    routes,      \* paths that have a handler on the pending server
    db,          \* r.db
    store,       \* what is committed in each database
    currentTx,   \* r.currentTx: the request whose transaction SQL statements join
    handlerMu,   \* the holder of r.handlerMu
    gcReqCount,  \* r.gcReqCount
    pc,          \* where each request's goroutine is
    path,        \* the path each request asks for
    txState,     \* the local `tx` of each invocation of invokeRouteHandler
    txView,      \* the rows as that transaction sees them
    reply,       \* what the client of each request is answered
    seen,        \* history: what each handler's reads returned
    wrote,       \* history: rows each handler wrote
    reopened     \* history: the handler has called db_open

conn == <<phase, listening, routes>>
data == <<db, store, currentTx, txState, txView>>
past == <<seen, wrote, reopened>>
vars == <<phase, listening, routes, db, store, currentTx, handlerMu, gcReqCount,
          pc, path, txState, txView, reply, seen, wrote, reopened>>

Databases == Files \cup {Mem}
Writers == Requests \cup {Main, Nobody}
Empty == [k \in Keys |-> Nobody]

\* sql.Open does not touch the file: a file that cannot be opened stays r.db
\* when no table is declared, and every statement on it fails.
Usable == db \in Databases \ BadFiles

-----------------------------------------------------------------------------
Init ==
    /\ phase = "main"
    /\ listening = FALSE
    /\ routes = {}
    /\ db = Mem
    /\ store = [d \in Databases |-> Empty]
    /\ currentTx = NoReq
    /\ handlerMu = NoReq
    /\ gcReqCount = 0
    /\ pc = [r \in Requests |-> "idle"]
    /\ path \in [Requests -> Paths]
    /\ txState = [r \in Requests |-> "none"]
    /\ txView = [r \in Requests |-> Empty]
    /\ reply = [r \in Requests |-> "none"]
    /\ seen = [r \in Requests |-> [k \in Keys |-> NotRead]]
    /\ wrote = [r \in Requests |-> {}]
    /\ reopened = [r \in Requests |-> FALSE]

(***************************************************************************)
(* The database calls that main and the handlers share                     *)
(***************************************************************************)

\* Seeded fault: the transaction is rolled back but r.currentTx still points to it.
OpenDBKeepsPointer(f) ==
    /\ txState' = [r \in Requests |-> IF r = currentTx THEN "rolledback" ELSE txState[r]]
    /\ db' = IF f \in BadFiles /\ HasTables THEN NoDB ELSE f
    /\ store' = [store EXCEPT ![Mem] = Empty]
    /\ UNCHANGED <<currentTx, txView>>

\* openDB: the current transaction and the open database go first, so that a
\* failure of initAndValidateTables leaves no database at all.  Closing the
\* in-memory database loses it.
OpenDB(f) ==
    /\ currentTx' = NoReq
    /\ txState' = [r \in Requests |-> IF r = currentTx THEN "rolledback" ELSE txState[r]]
    /\ db' = IF f \in BadFiles /\ HasTables THEN NoDB ELSE f
    /\ store' = [store EXCEPT ![Mem] = Empty]
    /\ UNCHANGED txView

\* What a statement reads: currentExecutor prefers the transaction.
Visible == IF currentTx \in Requests THEN txView[currentTx] ELSE store[db]

\* Seeded fault: dbExec uses r.db although a transaction is open.
WriteRowOutside(w, k) ==
    /\ store' = [store EXCEPT ![db][k] = w]
    /\ UNCHANGED <<db, currentTx, txState, txView>>

\* A statement that writes row k on behalf of w.
WriteRow(w, k) ==
    /\ IF currentTx \in Requests
       THEN /\ txView' = [txView EXCEPT ![currentTx][k] = w]
            /\ UNCHANGED store
       ELSE /\ store' = [store EXCEPT ![db][k] = w]
            /\ UNCHANGED txView
    /\ UNCHANGED <<db, currentTx, txState>>

(***************************************************************************)
(* main, before any request                                                *)
(***************************************************************************)
MainExecute(k) ==
    /\ phase = "main"
    /\ Usable
    /\ WriteRow(Main, k)
    /\ UNCHANGED <<conn, handlerMu, gcReqCount, pc, path, reply, past>>

MainDbOpen(f) ==
    /\ phase = "main"
    /\ OpenDB(f)
    /\ UNCHANGED <<conn, handlerMu, gcReqCount, pc, path, reply, past>>

MainAddRoute(p) ==
    /\ phase = "main"
    /\ routes' = routes \cup {p}
    /\ UNCHANGED <<phase, listening, data, handlerMu, gcReqCount, pc, path, reply, past>>

\* httpListen only remembers the server.
MainListen ==
    /\ phase = "main"
    /\ listening' = TRUE
    /\ UNCHANGED <<phase, routes, data, handlerMu, gcReqCount, pc, path, reply, past>>

\* _start returned: a forced GC, then StartPendingServer.
MainReturns ==
    /\ phase = "main"
    /\ gcReqCount' = 0
    /\ phase' = IF listening THEN "serving" ELSE "exited"
    /\ UNCHANGED <<listening, routes, data, handlerMu, pc, path, reply, past>>

MainTraps ==
    /\ phase = "main"
    /\ phase' = "exited"
    /\ UNCHANGED <<listening, routes, data, handlerMu, gcReqCount, pc, path, reply, past>>

(***************************************************************************)
(* One request: StartPendingServer's callback and invokeRouteHandler       *)
(***************************************************************************)
Goto(r, from, to) == pc[r] = from /\ pc' = [pc EXCEPT ![r] = to]

\* invokeRouteHandler has its result or its error; the deferred calls come next.
Finish(r, from, answer) ==
    /\ Goto(r, from, "unwinding")
    /\ reply' = [reply EXCEPT ![r] = answer]

\* The client's request has been read and parsed; its goroutine blocks on handlerMu.
Arrive(r) ==
    /\ phase = "serving"
    /\ Goto(r, "idle", "waiting")
    /\ UNCHANGED <<conn, data, handlerMu, gcReqCount, path, reply, past>>

\* Seeded fault: a lost database is replaced by the default one.
LockAndEnsureDB(r) ==
    /\ handlerMu = NoReq
    /\ Goto(r, "waiting", "locked")
    /\ handlerMu' = r
    /\ db' = IF db = NoDB THEN Mem ELSE db
    /\ UNCHANGED <<conn, store, currentTx, txState, txView, gcReqCount, path, reply, past>>

Lock(r) ==
    /\ handlerMu = NoReq
    /\ Goto(r, "waiting", "locked")
    /\ handlerMu' = r
    /\ UNCHANGED <<conn, data, gcReqCount, path, reply, past>>

RouteNotFound(r) ==
    /\ path[r] \notin routes
    /\ Finish(r, "locked", "notFound")
    /\ UNCHANGED <<conn, data, handlerMu, gcReqCount, path, past>>

\* r.db is nil, or Begin fails to open the file.
NoTransaction(r) ==
    /\ path[r] \in routes
    /\ ~ Usable
    /\ Finish(r, "locked", "error")
    /\ UNCHANGED <<conn, data, handlerMu, gcReqCount, path, past>>

Begin(r) ==
    /\ path[r] \in routes
    /\ Usable
    /\ Goto(r, "locked", "running")
    /\ currentTx' = r
    /\ txState' = [txState EXCEPT ![r] = "open"]
    /\ txView' = [txView EXCEPT ![r] = store[db]]
    /\ UNCHANGED <<conn, db, store, handlerMu, gcReqCount, path, reply, past>>

\* A handler's fetch of row k.
Fetch(r, k) ==
    /\ pc[r] = "running"
    /\ Usable
    /\ seen' = [seen EXCEPT ![r][k] = Visible[k]]
    /\ UNCHANGED <<conn, data, handlerMu, gcReqCount, pc, path, reply, wrote, reopened>>

\* A handler's execute on row k.  One that fails returns an error value and
\* changes nothing: it needs no action.
Execute(r, k) ==
    /\ pc[r] = "running"
    /\ Usable
    /\ WriteRow(r, k)
    /\ wrote' = [wrote EXCEPT ![r] = @ \cup {k}]
    /\ UNCHANGED <<conn, handlerMu, gcReqCount, pc, path, reply, seen, reopened>>

DbOpen(r, f) ==
    /\ HandlersReopen
    /\ pc[r] = "running"
    /\ OpenDB(f)
    /\ reopened' = [reopened EXCEPT ![r] = TRUE]
    /\ UNCHANGED <<conn, handlerMu, gcReqCount, pc, path, reply, seen, wrote>>

AddRoute(r, p) ==
    /\ pc[r] = "running"
    /\ routes' = routes \cup {p}
    /\ UNCHANGED <<phase, listening, data, handlerMu, gcReqCount, pc, path, reply, past>>

ServerGc(r) ==
    /\ pc[r] = "running"
    /\ gcReqCount' = 0
    /\ UNCHANGED <<conn, data, handlerMu, pc, path, reply, past>>

\* The handler trapped, returned an error, or returned no response object
\* (an error answer), or a host function panicked (net/http drops the
\* connection).
HandlerFails(r) ==
    /\ \E answer \in {"error", "aborted"} : Finish(r, "running", answer)
    /\ UNCHANGED <<conn, data, handlerMu, gcReqCount, path, past>>

\* tx.Commit: ErrTxDone when db_open has ended the transaction, or the
\* database refuses.
CommitFails(r) ==
    /\ Finish(r, "running", "error")
    /\ txState' = [txState EXCEPT ![r] = "rolledback"]
    /\ UNCHANGED <<conn, db, store, currentTx, txView, handlerMu, gcReqCount, path, past>>

\* Seeded fault: one handler too late.
MaybeStoreGCLate ==
    \E due \in BOOLEAN :
        gcReqCount' = IF due \/ gcReqCount + 1 > GcRequestInterval THEN 0 ELSE gcReqCount + 1

\* maybeStoreGC(false): by count, or by heap growth or elapsed time (due).
MaybeStoreGC ==
    \E due \in BOOLEAN :
        gcReqCount' = IF due \/ gcReqCount + 1 >= GcRequestInterval THEN 0 ELSE gcReqCount + 1

\* Seeded fault: the error of tx.Commit is ignored.
CommitAnyway(r) ==
    /\ \E answer \in {"ok", "redirect", "badRedirect"} : Finish(r, "running", answer)
    /\ txState' = [txState EXCEPT ![r] = IF @ = "open" THEN "committed" ELSE @]
    /\ store' = IF txState[r] = "open" THEN [store EXCEPT ![db] = txView[r]] ELSE store
    /\ MaybeStoreGC
    /\ UNCHANGED <<conn, db, currentTx, txView, handlerMu, path, past>>

\* A redirect to the empty URL is committed like any other response, and then
\* answered with a 500.
Commit(r) ==
    /\ txState[r] = "open"
    /\ \E answer \in {"ok", "redirect", "badRedirect"} : Finish(r, "running", answer)
    /\ txState' = [txState EXCEPT ![r] = "committed"]
    /\ store' = [store EXCEPT ![db] = txView[r]]
    /\ MaybeStoreGC
    /\ UNCHANGED <<conn, db, currentTx, txView, handlerMu, path, past>>

\* Seeded faults: no Rollback; Unlock not deferred, so that a panic skips it.
UnwindWithoutRollback(r) ==
    /\ Goto(r, "unwinding", "answering")
    /\ currentTx' = NoReq
    /\ handlerMu' = NoReq
    /\ UNCHANGED <<conn, db, store, txState, txView, gcReqCount, path, reply, past>>
UnwindKeepsLock(r) ==
    /\ Goto(r, "unwinding", "answering")
    /\ txState' = [txState EXCEPT ![r] = IF @ = "open" THEN "rolledback" ELSE @]
    /\ currentTx' = NoReq
    /\ handlerMu' = IF reply[r] = "aborted" THEN handlerMu ELSE NoReq
    /\ UNCHANGED <<conn, db, store, txView, gcReqCount, path, reply, past>>

\* The deferred calls, last registered first: roll back what was not
\* committed, forget the transaction, unlock.
Unwind(r) ==
    /\ Goto(r, "unwinding", "answering")
    /\ txState' = [txState EXCEPT ![r] = IF @ = "open" THEN "rolledback" ELSE @]
    /\ currentTx' = IF txState[r] = "none" THEN currentTx ELSE NoReq
    /\ handlerMu' = NoReq
    /\ UNCHANGED <<conn, db, store, txView, gcReqCount, path, reply, past>>

Answer(r) ==
    /\ Goto(r, "answering", "done")
    /\ UNCHANGED <<conn, data, handlerMu, gcReqCount, path, reply, past>>

-----------------------------------------------------------------------------
MainStep ==
    \/ \E k \in Keys : MainExecute(k)
    \/ \E f \in Databases : MainDbOpen(f)
    \/ \E p \in Paths : MainAddRoute(p)
    \/ MainListen
    \/ MainReturns
    \/ MainTraps

Statement(r) ==
    \/ \E k \in Keys : Fetch(r, k) \/ Execute(r, k)
    \/ \E f \in Databases : DbOpen(r, f)
    \/ \E p \in Paths : AddRoute(r, p)
    \/ ServerGc(r)

Dispatch(r) == RouteNotFound(r) \/ NoTransaction(r) \/ Begin(r)
HandlerEnds(r) == HandlerFails(r) \/ CommitFails(r) \/ Commit(r)

\* The process has exited, or every request has been answered and the server
\* waits for more.
Rest ==
    /\ phase = "exited" \/ (phase = "serving" /\ \A r \in Requests : pc[r] = "done")
    /\ UNCHANGED vars

Next ==
    \/ MainStep
    \/ \E r \in Requests :
           \/ Arrive(r) \/ Lock(r) \/ Dispatch(r) \/ Statement(r)
           \/ HandlerEnds(r) \/ Unwind(r) \/ Answer(r)
    \/ Rest

Spec == Init /\ [][Next]_vars

\* The Go scheduler runs every runnable goroutine, and a waiter of a
\* sync.Mutex gets it (starvation mode); handlers terminate.  Nothing obliges
\* main to return or a client to send.
Fairness ==
    \A r \in Requests :
        /\ SF_vars(Lock(r))
        /\ WF_vars(Dispatch(r))
        /\ WF_vars(HandlerEnds(r))
        /\ WF_vars(Unwind(r))
        /\ WF_vars(Answer(r))

FairSpec == Spec /\ Fairness

-----------------------------------------------------------------------------
(***************************************************************************)
(* Properties                                                              *)
(***************************************************************************)
InHandler == {"locked", "running", "unwinding"}
Decided == {"unwinding", "answering", "done"}
Failures == {"error", "aborted", "notFound"}
Successes == {"ok", "redirect", "badRedirect"}

\* Every variable has its type; the counter of the GC policy stays below its
\* threshold between evaluations (maybeStoreGC).
TypeOK ==
    /\ phase \in {"main", "serving", "exited"}
    /\ listening \in BOOLEAN
    /\ routes \subseteq Paths
    /\ db \in Databases \cup {NoDB}
    /\ store \in [Databases -> [Keys -> Writers]]
    /\ currentTx \in Requests \cup {NoReq}
    /\ handlerMu \in Requests \cup {NoReq}
    /\ gcReqCount \in 0 .. GcRequestInterval - 1
    /\ pc \in [Requests -> {"idle", "waiting", "locked", "running", "unwinding", "answering", "done"}]
    /\ path \in [Requests -> Paths]
    /\ txState \in [Requests -> {"none", "open", "rolledback", "committed"}]
    /\ txView \in [Requests -> [Keys -> Writers]]
    /\ reply \in [Requests -> {"none"} \cup Failures \cup Successes]
    /\ seen \in [Requests -> [Keys -> Writers \cup {NotRead}]]
    /\ wrote \in [Requests -> SUBSET Keys]
    /\ reopened \in [Requests -> BOOLEAN]

\* One goroutine at a time is between handlerMu.Lock and its deferred Unlock,
\* and the shared pointer r.currentTx is never another goroutine's
\* transaction, nor one that has ended while its handler still runs: no
\* statement of a handler can land in the transaction of another request.
TransactionOwned ==
    /\ \A r \in Requests : pc[r] \in InHandler <=> handlerMu = r
    /\ currentTx # NoReq =>
           /\ handlerMu = currentTx
           /\ pc[currentTx] = "running" => txState[currentTx] = "open"

\* When no handler runs, no transaction is open and r.currentTx is nil,
\* whichever way the last handler ended (result, error, trap, host panic,
\* failed commit): the deferred calls of invokeRouteHandler leak neither.
NothingLeaks ==
    handlerMu = NoReq =>
        /\ currentTx = NoReq
        /\ \A r \in Requests : txState[r] # "open"

\* A request that was answered with an error, and whose handler did not call
\* db_open, left no row in any database: the deferred Rollback undoes all its
\* statements.
ErrorLeavesNothing ==
    \A r \in Requests :
        pc[r] \in Decided /\ reply[r] \in Failures /\ ~ reopened[r] =>
            \A d \in Databases, k \in Keys : store[d][k] # r

\* A handler that calls db_open can only be answered with an error: openDB has
\* ended the transaction that the final tx.Commit refers to.
ReopenNeverSucceeds ==
    \A r \in Requests : pc[r] \in Decided /\ reopened[r] => reply[r] \in {"error", "aborted"}

\* The server has no database, and no handler is left that could open one.
LostForGood ==
    /\ phase = "serving"
    /\ db = NoDB
    /\ \A r \in Requests : pc[r] # "running"

\* A db_open that failed, in main or in a handler, is final (openDB has closed
\* the old database before it knew that the new one is good): from the end of
\* that handler on, and while later requests wait, hold handlerMu and are
\* answered, no step opens a database, changes a row or runs a handler, and a
\* request that gets the mutex leaves it with an error or a 404.
LostDatabaseIsFinal ==
    [][LostForGood =>
           /\ LostForGood'
           /\ store' = store
           /\ \A r \in Requests :
                  pc[r] = "locked" /\ pc'[r] # "locked" => reply'[r] \in {"error", "notFound"}]_vars

\* Every request that reaches the server is answered, as long as handlers
\* terminate: no ending of a handler keeps handlerMu locked.
EveryRequestAnswered ==
    \A r \in Requests : pc[r] = "waiting" ~> pc[r] = "done"

(***************************************************************************)
(* Why these hold: the inductive invariant of their proofs.                *)
(***************************************************************************)
\* handlerMu serializes handlers, and r.currentTx and the open transaction are
\* those of the request that holds it, until db_open separates the two.
LockInv ==
    /\ \A r \in Requests : pc[r] \in InHandler <=> handlerMu = r
    /\ currentTx # NoReq =>
           /\ pc[currentTx] \in {"running", "unwinding"}
           /\ txState[currentTx] # "none"
           /\ pc[currentTx] = "running" => txState[currentTx] = "open"
    /\ \A r \in Requests :
           /\ txState[r] = "open" => currentTx = r
           /\ pc[r] \in {"idle", "waiting", "locked"} => txState[r] = "none" /\ ~ reopened[r]
           /\ pc[r] = "running" /\ ~ reopened[r] => currentTx = r
           /\ reopened[r] => txState[r] = "rolledback"
           /\ phase = "main" => pc[r] = "idle"

\* A row of r is in a database, or in the view of another transaction, only if
\* r has committed or has written outside its transaction, after db_open.
Visibly(r) == txState[r] = "committed" \/ reopened[r]
EffectInv ==
    \A r \in Requests :
        /\ txState[r] = "committed" => pc[r] \in Decided /\ reply[r] \in Successes
        /\ pc[r] \in Decided /\ reopened[r] => reply[r] \in {"error", "aborted"}
        /\ \A d \in Databases, k \in Keys : store[d][k] = r => Visibly(r)
        /\ \A q \in Requests \ {r}, k \in Keys :
               txState[q] = "open" /\ txView[q][k] = r => Visibly(r)

(***************************************************************************)
(* The promise of SerialStore, kept when no handler calls db_open.  A       *)
(* request is sent until its outcome is decided under handlerMu, and its    *)
(* reads count from then on.                                                *)
(***************************************************************************)
OpenStore == IF db \in Databases THEN store[db] ELSE Empty
Status(r) ==
    CASE pc[r] = "idle" -> "idle"
      [] pc[r] \in {"waiting", "locked", "running"} -> "sent"
      [] pc[r] \in {"unwinding", "answering"} -> "decided"
      [] pc[r] = "done" -> "answered"

Serial == INSTANCE SerialStore WITH
    serving <- phase = "serving",
    store <- OpenStore,
    status <- [r \in Requests |-> Status(r)],
    seen <- [r \in Requests |-> IF pc[r] \in Decided THEN seen[r] ELSE [k \in Keys |-> NotRead]]

\* Requests are strictly serializable: each one takes effect, or fails without
\* effect, in one step between its arrival and its answer, and what its
\* handler read is the database of that step under its own writes.
ImplementsSerialStore == Serial!Spec

\* Why: while no handler calls db_open, the running handler's transaction is
\* the open database under the handler's own writes, and so is all it has read.
SerialInv ==
    /\ phase = "main" => \A d \in Databases, k \in Keys : store[d][k] \in {Main, Nobody}
    /\ \A r \in Requests :
           /\ ~ reopened[r]
           /\ pc[r] \in {"idle", "waiting", "locked"} =>
                  seen[r] = [k \in Keys |-> NotRead] /\ wrote[r] = {}
           /\ pc[r] = "running" =>
                  /\ Usable
                  /\ \A k \in Keys :
                         /\ txView[r][k] = IF k \in wrote[r] THEN r ELSE store[db][k]
                         /\ seen[r][k] \in {NotRead, store[db][k], txView[r][k]}
=============================================================================
