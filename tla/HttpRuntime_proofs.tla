-------------------------- MODULE HttpRuntime_proofs --------------------------
(***************************************************************************)
(* Proofs about HttpRuntime, for any requests, rows, files and paths.       *)
(***************************************************************************)
EXTENDS HttpRuntime, TLAPS

\* A statement that writes leaves databases and views well-typed.
LEMMA WriteRowType ==
  ASSUME NEW w \in Writers, NEW k \in Keys, Usable, WriteRow(w, k),
         store \in [Databases -> [Keys -> Writers]],
         txView \in [Requests -> [Keys -> Writers]]
  PROVE  /\ store' \in [Databases -> [Keys -> Writers]]
         /\ txView' \in [Requests -> [Keys -> Writers]]
         /\ UNCHANGED <<db, currentTx, txState>>
<1>1. CASE currentTx \in Requests
  <2>1. txView' = [txView EXCEPT ![currentTx] = [txView[currentTx] EXCEPT ![k] = w]]
    BY <1>1 DEF WriteRow
  <2>2. [txView[currentTx] EXCEPT ![k] = w] \in [Keys -> Writers]
    BY <1>1
  <2> QED BY <1>1, <2>1, <2>2 DEF WriteRow
<1>2. CASE currentTx \notin Requests
  <2>1. store' = [store EXCEPT ![db] = [store[db] EXCEPT ![k] = w]]
    BY <1>2 DEF WriteRow
  <2>2. db \in Databases /\ [store[db] EXCEPT ![k] = w] \in [Keys -> Writers]
    BY DEF Usable
  <2> QED BY <1>2, <2>1, <2>2 DEF WriteRow
<1> QED BY <1>1, <1>2

\* The type invariant is inductive.
LEMMA TypeStep == TypeOK /\ [Next]_vars => TypeOK'
<1> SUFFICES ASSUME TypeOK, [Next]_vars PROVE TypeOK'
  OBVIOUS
<1> USE NamesAssumption, FlagsAssumption, GcAssumption
        DEF TypeOK, Databases, Writers, Empty, InHandler, Failures, Successes
<1>1. ASSUME NEW k \in Keys, MainExecute(k) PROVE TypeOK'
  <2>1. Main \in Writers
    OBVIOUS
  <2> HIDE DEF Databases, Writers
  <2>2. /\ store' \in [Databases -> [Keys -> Writers]]
        /\ txView' \in [Requests -> [Keys -> Writers]]
        /\ UNCHANGED <<db, currentTx, txState>>
    BY <1>1, <2>1, WriteRowType DEF MainExecute
  <2> QED BY <1>1, <2>2 DEF MainExecute, conn, past
<1>2. ASSUME NEW f \in Databases, MainDbOpen(f) PROVE TypeOK'
  BY <1>2 DEF MainDbOpen, OpenDB, conn, past
<1>3. ASSUME NEW p \in Paths, MainAddRoute(p) PROVE TypeOK'
  BY <1>3 DEF MainAddRoute, data, past
<1>4. CASE MainListen
  BY <1>4 DEF MainListen, data, past
<1>5. CASE MainReturns
  BY <1>5 DEF MainReturns, data, past
<1>6. CASE MainTraps
  BY <1>6 DEF MainTraps, data, past
<1>7. ASSUME NEW r \in Requests, Arrive(r) PROVE TypeOK'
  BY <1>7 DEF Arrive, Goto, conn, data, past
<1>8. ASSUME NEW r \in Requests, Lock(r) PROVE TypeOK'
  BY <1>8 DEF Lock, Goto, conn, data, past
<1>9. ASSUME NEW r \in Requests, RouteNotFound(r) PROVE TypeOK'
  BY <1>9 DEF RouteNotFound, Finish, Goto, conn, data, past
<1>10. ASSUME NEW r \in Requests, NoTransaction(r) PROVE TypeOK'
  BY <1>10 DEF NoTransaction, Finish, Goto, conn, data, past
<1>11. ASSUME NEW r \in Requests, Begin(r) PROVE TypeOK'
  BY <1>11 DEF Begin, Usable, Goto, conn, past
<1>12. ASSUME NEW r \in Requests, NEW k \in Keys, Fetch(r, k) PROVE TypeOK'
  BY <1>12 DEF Fetch, Visible, Usable, conn, data
<1>13. ASSUME NEW r \in Requests, NEW k \in Keys, Execute(r, k) PROVE TypeOK'
  <2>1. r \in Writers
    OBVIOUS
  <2> HIDE DEF Databases, Writers
  <2>2. /\ store' \in [Databases -> [Keys -> Writers]]
        /\ txView' \in [Requests -> [Keys -> Writers]]
        /\ UNCHANGED <<db, currentTx, txState>>
    BY <1>13, <2>1, WriteRowType DEF Execute
  <2>3. wrote' \in [Requests -> SUBSET Keys]
    BY <1>13 DEF Execute
  <2> QED BY <1>13, <2>2, <2>3 DEF Execute, conn
<1>14. ASSUME NEW r \in Requests, NEW f \in Databases, DbOpen(r, f) PROVE TypeOK'
  BY <1>14 DEF DbOpen, OpenDB, conn
<1>15. ASSUME NEW r \in Requests, NEW p \in Paths, AddRoute(r, p) PROVE TypeOK'
  BY <1>15 DEF AddRoute, data, past
<1>16. ASSUME NEW r \in Requests, ServerGc(r) PROVE TypeOK'
  BY <1>16 DEF ServerGc, conn, data, past
<1>17. ASSUME NEW r \in Requests, HandlerFails(r) PROVE TypeOK'
  BY <1>17 DEF HandlerFails, Finish, Goto, conn, data, past
<1>18. ASSUME NEW r \in Requests, CommitFails(r) PROVE TypeOK'
  BY <1>18 DEF CommitFails, Finish, Goto, conn, past
<1>19. ASSUME NEW r \in Requests, Commit(r) PROVE TypeOK'
  <2> HIDE DEF Databases, Writers
  <2>1. gcReqCount' \in 0 .. GcRequestInterval - 1
    BY <1>19 DEF Commit, MaybeStoreGC
  <2>2. store' \in [Databases -> [Keys -> Writers]]
    BY <1>19 DEF Commit
  <2>3. pc' \in [Requests -> {"idle", "waiting", "locked", "running", "unwinding", "answering", "done"}]
    BY <1>19 DEF Commit, Finish, Goto
  <2>4. txState' \in [Requests -> {"none", "open", "rolledback", "committed"}]
    BY <1>19 DEF Commit
  <2>5. reply' \in [Requests -> {"none"} \cup Failures \cup Successes]
    BY <1>19 DEF Commit, Finish
  <2> QED BY <1>19, <2>1, <2>2, <2>3, <2>4, <2>5 DEF Commit, conn, past
<1>20. ASSUME NEW r \in Requests, Unwind(r) PROVE TypeOK'
  BY <1>20 DEF Unwind, Goto, conn, past
<1>21. ASSUME NEW r \in Requests, Answer(r) PROVE TypeOK'
  BY <1>21 DEF Answer, Goto, conn, data, past
<1>22. CASE UNCHANGED vars
  BY <1>22 DEF vars
<1> HIDE DEF TypeOK, Databases, Writers, Empty, InHandler, Failures, Successes
<1> QED
  BY <1>1, <1>2, <1>3, <1>4, <1>5, <1>6, <1>7, <1>8, <1>9, <1>10, <1>11, <1>12, <1>13, <1>14,
     <1>15, <1>16, <1>17, <1>18, <1>19, <1>20, <1>21, <1>22
     DEF Next, MainStep, Dispatch, Statement, HandlerEnds, Rest

\* The lock, r.currentTx and the open transaction stay together.
LEMMA LockStep == TypeOK /\ LockInv /\ [Next]_vars => LockInv'
<1> SUFFICES ASSUME TypeOK, LockInv, [Next]_vars PROVE LockInv'
  OBVIOUS
<1> USE NamesAssumption DEF TypeOK, LockInv, InHandler, conn, data, past
<1>1. ASSUME NEW k \in Keys, MainExecute(k) PROVE LockInv'
  BY <1>1 DEF MainExecute, WriteRow, Usable
<1>2. ASSUME NEW f \in Databases, MainDbOpen(f) PROVE LockInv'
  BY <1>2 DEF MainDbOpen, OpenDB
<1>3. ASSUME NEW p \in Paths, MainAddRoute(p) PROVE LockInv'
  BY <1>3 DEF MainAddRoute
<1>4. CASE MainListen
  BY <1>4 DEF MainListen
<1>5. CASE MainReturns
  BY <1>5 DEF MainReturns
<1>6. CASE MainTraps
  BY <1>6 DEF MainTraps
<1>7. ASSUME NEW r \in Requests, Arrive(r) PROVE LockInv'
  BY <1>7 DEF Arrive, Goto
<1>8. ASSUME NEW r \in Requests, Lock(r) PROVE LockInv'
  BY <1>8 DEF Lock, Goto
<1>9. ASSUME NEW r \in Requests, RouteNotFound(r) PROVE LockInv'
  BY <1>9 DEF RouteNotFound, Finish, Goto
<1>10. ASSUME NEW r \in Requests, NoTransaction(r) PROVE LockInv'
  BY <1>10 DEF NoTransaction, Finish, Goto
<1>11. ASSUME NEW r \in Requests, Begin(r) PROVE LockInv'
  BY <1>11 DEF Begin, Goto
<1>12. ASSUME NEW r \in Requests, NEW k \in Keys, Fetch(r, k) PROVE LockInv'
  BY <1>12 DEF Fetch
<1>13. ASSUME NEW r \in Requests, NEW k \in Keys, Execute(r, k) PROVE LockInv'
  BY <1>13 DEF Execute, WriteRow
<1>14. ASSUME NEW r \in Requests, NEW f \in Databases, DbOpen(r, f) PROVE LockInv'
  BY <1>14 DEF DbOpen, OpenDB
<1>15. ASSUME NEW r \in Requests, NEW p \in Paths, AddRoute(r, p) PROVE LockInv'
  BY <1>15 DEF AddRoute
<1>16. ASSUME NEW r \in Requests, ServerGc(r) PROVE LockInv'
  BY <1>16 DEF ServerGc
<1>17. ASSUME NEW r \in Requests, HandlerFails(r) PROVE LockInv'
  BY <1>17 DEF HandlerFails, Finish, Goto
<1>18. ASSUME NEW r \in Requests, CommitFails(r) PROVE LockInv'
  BY <1>18 DEF CommitFails, Finish, Goto
<1>19. ASSUME NEW r \in Requests, Commit(r) PROVE LockInv'
  BY <1>19 DEF Commit, Finish, Goto
<1>20. ASSUME NEW r \in Requests, Unwind(r) PROVE LockInv'
  BY <1>20 DEF Unwind, Goto
<1>21. ASSUME NEW r \in Requests, Answer(r) PROVE LockInv'
  BY <1>21 DEF Answer, Goto
<1>22. CASE UNCHANGED vars
  BY <1>22 DEF vars
<1> HIDE DEF TypeOK, LockInv, InHandler, conn, data, past
<1> QED
  BY <1>1, <1>2, <1>3, <1>4, <1>5, <1>6, <1>7, <1>8, <1>9, <1>10, <1>11, <1>12, <1>13, <1>14,
     <1>15, <1>16, <1>17, <1>18, <1>19, <1>20, <1>21, <1>22
     DEF Next, MainStep, Dispatch, Statement, HandlerEnds, Rest

\* Rows appear in databases and views only as EffectInv says.
LEMMA EffectStep == TypeOK /\ LockInv /\ EffectInv /\ [Next]_vars => EffectInv'
<1> SUFFICES ASSUME TypeOK, LockInv, EffectInv, [Next]_vars PROVE EffectInv'
  OBVIOUS
<1> USE NamesAssumption DEF TypeOK, LockInv, EffectInv, InHandler, Decided, Failures, Successes, Visibly,
           Databases, Writers, Empty, conn, data, past
<1>1. ASSUME NEW k \in Keys, MainExecute(k) PROVE EffectInv'
  BY <1>1 DEF MainExecute, WriteRow, Usable
<1>2. ASSUME NEW f \in Databases, MainDbOpen(f) PROVE EffectInv'
  BY <1>2 DEF MainDbOpen, OpenDB
<1>3. ASSUME NEW p \in Paths, MainAddRoute(p) PROVE EffectInv'
  BY <1>3 DEF MainAddRoute
<1>4. CASE MainListen
  BY <1>4 DEF MainListen
<1>5. CASE MainReturns
  BY <1>5 DEF MainReturns
<1>6. CASE MainTraps
  BY <1>6 DEF MainTraps
<1>7. ASSUME NEW r \in Requests, Arrive(r) PROVE EffectInv'
  BY <1>7 DEF Arrive, Goto
<1>8. ASSUME NEW r \in Requests, Lock(r) PROVE EffectInv'
  BY <1>8 DEF Lock, Goto
<1>9. ASSUME NEW r \in Requests, RouteNotFound(r) PROVE EffectInv'
  BY <1>9 DEF RouteNotFound, Finish, Goto
<1>10. ASSUME NEW r \in Requests, NoTransaction(r) PROVE EffectInv'
  BY <1>10 DEF NoTransaction, Finish, Goto
<1>11. ASSUME NEW r \in Requests, Begin(r) PROVE EffectInv'
  <2>1. db \in Databases /\ txView' = [txView EXCEPT ![r] = store[db]]
    BY <1>11 DEF Begin, Usable
  <2>2. \A w \in Requests \ {r}, k \in Keys : txView'[r][k] = w => Visibly(w)
    BY <2>1
  <2>3. \A w \in Requests : Visibly(w) => Visibly(w)'
    BY <1>11 DEF Begin, Goto
  <2> QED BY <1>11, <2>1, <2>2, <2>3 DEF Begin, Goto
<1>12. ASSUME NEW r \in Requests, NEW k \in Keys, Fetch(r, k) PROVE EffectInv'
  BY <1>12 DEF Fetch
<1>13. ASSUME NEW r \in Requests, NEW k \in Keys, Execute(r, k) PROVE EffectInv'
  <2>1. UNCHANGED <<txState, reopened, pc, reply>>
    BY <1>13 DEF Execute, WriteRow
  <2>2. CASE currentTx \in Requests
    <3>1. currentTx = r /\ UNCHANGED store
      BY <1>13, <2>2 DEF Execute, WriteRow
    <3>2. txView' = [txView EXCEPT ![r] = [txView[r] EXCEPT ![k] = r]]
      BY <1>13, <2>2, <3>1 DEF Execute, WriteRow
    <3>3. \A q, w \in Requests, l \in Keys :
            w # q /\ txView'[q][l] = w => txView[q][l] = w
      BY <3>2
    <3> QED BY <2>1, <3>1, <3>3
  <2>3. CASE currentTx \notin Requests
    <3>1. db \in Databases /\ reopened[r] /\ UNCHANGED txView
      BY <1>13, <2>3 DEF Execute, WriteRow, Usable
    <3>2. store' = [store EXCEPT ![db] = [store[db] EXCEPT ![k] = r]]
      BY <1>13, <2>3 DEF Execute, WriteRow
    <3>3. \A d \in Databases, l \in Keys, w \in Requests \ {r} :
            store'[d][l] = w => store[d][l] = w
      BY <3>1, <3>2
    <3>4. \A w \in Requests : Visibly(w)' <=> Visibly(w)
      BY <2>1
    <3>5. \A d \in Databases, l \in Keys, w \in Requests : store[d][l] = w => Visibly(w)
      BY EffectInv
    <3> HIDE DEF TypeOK, LockInv, Visibly, Databases
    <3>6. \A d \in Databases, l \in Keys, w \in Requests : store'[d][l] = w => Visibly(w)'
      <4>1. Visibly(r)
        BY <3>1 DEF Visibly
      <4> QED BY <3>3, <3>4, <3>5, <4>1
    <3> QED BY <2>1, <3>1, <3>4, <3>6
  <2> QED BY <2>2, <2>3
<1>14. ASSUME NEW r \in Requests, NEW f \in Databases, DbOpen(r, f) PROVE EffectInv'
  BY <1>14 DEF DbOpen, OpenDB
<1>15. ASSUME NEW r \in Requests, NEW p \in Paths, AddRoute(r, p) PROVE EffectInv'
  BY <1>15 DEF AddRoute
<1>16. ASSUME NEW r \in Requests, ServerGc(r) PROVE EffectInv'
  BY <1>16 DEF ServerGc
<1>17. ASSUME NEW r \in Requests, HandlerFails(r) PROVE EffectInv'
  BY <1>17 DEF HandlerFails, Finish, Goto
<1>18. ASSUME NEW r \in Requests, CommitFails(r) PROVE EffectInv'
  BY <1>18 DEF CommitFails, Finish, Goto
<1>19. ASSUME NEW r \in Requests, Commit(r) PROVE EffectInv'
  BY <1>19 DEF Commit, Finish, Goto
<1>20. ASSUME NEW r \in Requests, Unwind(r) PROVE EffectInv'
  BY <1>20 DEF Unwind, Goto
<1>21. ASSUME NEW r \in Requests, Answer(r) PROVE EffectInv'
  BY <1>21 DEF Answer, Goto
<1>22. CASE UNCHANGED vars
  BY <1>22 DEF vars
<1> HIDE DEF TypeOK, LockInv, EffectInv, InHandler, Decided, Failures, Successes, Visibly,
            Databases, Writers, Empty, conn, data, past
<1> QED
  BY <1>1, <1>2, <1>3, <1>4, <1>5, <1>6, <1>7, <1>8, <1>9, <1>10, <1>11, <1>12, <1>13, <1>14,
     <1>15, <1>16, <1>17, <1>18, <1>19, <1>20, <1>21, <1>22
     DEF Next, MainStep, Dispatch, Statement, HandlerEnds, Rest

\* Before _start, no goroutine, transaction or route exists.
LEMMA InitInv == Init => TypeOK /\ LockInv /\ EffectInv
<1> SUFFICES ASSUME Init PROVE TypeOK /\ LockInv /\ EffectInv
  OBVIOUS
<1> USE NamesAssumption, GcAssumption
        DEF Init, Databases, Writers, Empty, InHandler, Decided, Failures, Successes, Visibly
<1>1. TypeOK
  <2>1. gcReqCount \in 0 .. GcRequestInterval - 1
    OBVIOUS
  <2>2. /\ store \in [Databases -> [Keys -> Writers]]
        /\ txView \in [Requests -> [Keys -> Writers]]
        /\ seen \in [Requests -> [Keys -> Writers \cup {NotRead}]]
    OBVIOUS
  <2>3. /\ wrote \in [Requests -> SUBSET Keys]
        /\ reopened \in [Requests -> BOOLEAN]
    OBVIOUS
  <2> QED
    BY <2>1, <2>2, <2>3 DEF TypeOK
<1>2. LockInv
  BY DEF LockInv
<1>3. EffectInv
  BY DEF EffectInv
<1> QED
  BY <1>1, <1>2, <1>3

\* The inductive invariant of HttpRuntime.
THEOREM Invariant == Spec => [](TypeOK /\ LockInv /\ EffectInv)
<1>1. TypeOK /\ LockInv /\ EffectInv /\ [Next]_vars => (TypeOK /\ LockInv /\ EffectInv)'
  BY TypeStep, LockStep, EffectStep
<1> QED
  BY <1>1, InitInv, PTL DEF Spec

\* Every variable keeps its type, whatever the requests, rows, files and paths,
\* and however often handlers reopen the database.
THEOREM TypeCorrect == Spec => []TypeOK
BY Invariant, PTL

\* handlerMu serializes the handlers, and r.currentTx is never the transaction
\* of another request than the one whose handler runs.
THEOREM HandlersOwnTheirTransaction == Spec => []TransactionOwned
<1>1. TypeOK /\ LockInv => TransactionOwned
  BY NamesAssumption DEF TypeOK, LockInv, TransactionOwned, InHandler
<1> QED
  BY <1>1, Invariant, PTL

\* Every way out of a handler ends its transaction and clears r.currentTx.
THEOREM HandlersLeakNothing == Spec => []NothingLeaks
<1>1. TypeOK /\ LockInv => NothingLeaks
  BY NamesAssumption DEF TypeOK, LockInv, NothingLeaks, InHandler
<1> QED
  BY <1>1, Invariant, PTL

\* An error answer means that nothing of the handler was kept, unless it called
\* db_open.
THEOREM ErrorsLeaveNothing == Spec => []ErrorLeavesNothing
<1>1. EffectInv => ErrorLeavesNothing
  BY DEF EffectInv, ErrorLeavesNothing, Visibly, Failures, Successes
<1> QED
  BY <1>1, Invariant, PTL

\* A handler that called db_open is never answered with its response.
THEOREM ReopeningFails == Spec => []ReopenNeverSucceeds
<1>1. EffectInv => ReopenNeverSucceeds
  BY DEF EffectInv, ReopenNeverSucceeds
<1> QED
  BY <1>1, Invariant, PTL

\* With r.db nil and no handler running, no step of any request sets it, runs a
\* handler or answers with success, also between Lock and Unlock, where
\* invokeRouteHandler tests r.db.
THEOREM DatabaseLossIsFinal == Spec => LostDatabaseIsFinal
<1> DEFINE Refused == \A r \in Requests :
             pc[r] = "locked" /\ pc'[r] # "locked" => reply'[r] \in {"error", "notFound"}
           StaysLost == LostForGood' /\ store' = store /\ Refused
<1>1. ASSUME TypeOK, [Next]_vars, LostForGood PROVE StaysLost
  <2> USE NamesAssumption DEF TypeOK, LostForGood, data, conn
  <2>1. ASSUME NEW r \in Requests, Arrive(r) \/ Lock(r) \/ Unwind(r) \/ Answer(r) PROVE StaysLost
    BY <1>1, <2>1 DEF Arrive, Lock, Unwind, Answer, Goto
  <2>2. ASSUME NEW r \in Requests, Dispatch(r) PROVE StaysLost
    <3>1. db \notin Databases
      BY <1>1 DEF Databases
    <3>2. ~ Usable
      BY <1>1, <3>1 DEF Usable
    <3>3. RouteNotFound(r) \/ NoTransaction(r)
      BY <2>2, <3>2 DEF Dispatch, Begin
    <3>4. QED
      BY <1>1, <3>3 DEF RouteNotFound, NoTransaction, Finish, Goto
  <2>3. ASSUME NEW r \in Requests, Statement(r) \/ HandlerEnds(r) PROVE FALSE
    <3>1. pc[r] = "running"
      BY <2>3 DEF Statement, Fetch, Execute, DbOpen, AddRoute, ServerGc, HandlerEnds, HandlerFails,
                  CommitFails, Commit, Finish, Goto
    <3>2. QED
      BY <1>1, <3>1
  <2>4. CASE MainStep
    BY <1>1, <2>4 DEF MainStep, MainExecute, MainDbOpen, MainAddRoute, MainListen, MainReturns,
                      MainTraps
  <2>5. CASE Rest \/ UNCHANGED vars
    BY <1>1, <2>5 DEF Rest, vars, past
  <2> QED
    BY <1>1, <2>1, <2>2, <2>3, <2>4, <2>5 DEF Next
<1>2. TypeOK /\ [Next]_vars => [LostForGood => StaysLost]_vars
  BY <1>1
<1> QED
  BY <1>2, Invariant, PTL DEF Spec, LostDatabaseIsFinal

(***************************************************************************)
(* HttpRuntime implements SerialStore when handlers do not call db_open.    *)
(***************************************************************************)
\* The running handler sees the open database under its own writes.
LEMMA SerialStep ==
  ASSUME HandlersReopen = FALSE
  PROVE  TypeOK /\ LockInv /\ SerialInv /\ [Next]_vars => SerialInv'
<1> SUFFICES ASSUME TypeOK, LockInv, SerialInv, [Next]_vars PROVE SerialInv'
  OBVIOUS
<1> USE NamesAssumption DEF TypeOK, LockInv, SerialInv, InHandler, Usable, Databases, Writers, Empty,
           conn, data, past
<1>1. ASSUME NEW k \in Keys, MainExecute(k) PROVE SerialInv'
  <2>1. currentTx \notin Requests
    BY <1>1 DEF MainExecute
  <2>2. store' = [store EXCEPT ![db] = [store[db] EXCEPT ![k] = Main]]
    BY <1>1, <2>1 DEF MainExecute, WriteRow
  <2>3. \A d \in Databases, l \in Keys : store'[d][l] \in {Main, Nobody}
    BY <1>1, <2>2 DEF MainExecute
  <2> QED BY <1>1, <2>3 DEF MainExecute, WriteRow
<1>2. ASSUME NEW f \in Databases, MainDbOpen(f) PROVE SerialInv'
  BY <1>2 DEF MainDbOpen, OpenDB
<1>3. ASSUME NEW p \in Paths, MainAddRoute(p) PROVE SerialInv'
  BY <1>3 DEF MainAddRoute
<1>4. CASE MainListen
  BY <1>4 DEF MainListen
<1>5. CASE MainReturns
  BY <1>5 DEF MainReturns
<1>6. CASE MainTraps
  BY <1>6 DEF MainTraps
<1>7. ASSUME NEW r \in Requests, Arrive(r) PROVE SerialInv'
  BY <1>7 DEF Arrive, Goto
<1>8. ASSUME NEW r \in Requests, Lock(r) PROVE SerialInv'
  BY <1>8 DEF Lock, Goto
<1>9. ASSUME NEW r \in Requests, RouteNotFound(r) PROVE SerialInv'
  BY <1>9 DEF RouteNotFound, Finish, Goto
<1>10. ASSUME NEW r \in Requests, NoTransaction(r) PROVE SerialInv'
  BY <1>10 DEF NoTransaction, Finish, Goto
<1>11. ASSUME NEW r \in Requests, Begin(r) PROVE SerialInv'
  BY <1>11 DEF Begin, Goto
<1>12. ASSUME NEW r \in Requests, NEW k \in Keys, Fetch(r, k) PROVE SerialInv'
  <2>1. currentTx = r /\ Visible = txView[r]
    BY <1>12 DEF Fetch, Visible
  <2>2. seen' = [seen EXCEPT ![r] = [seen[r] EXCEPT ![k] = txView[r][k]]]
    BY <1>12, <2>1 DEF Fetch
  <2>3. \A l \in Keys : seen'[r][l] \in {NotRead, store[db][l], txView[r][l]}
    BY <1>12, <2>2 DEF Fetch
  <2>4. \A q \in Requests \ {r} : seen'[q] = seen[q]
    BY <2>2
  <2> QED BY <1>12, <2>3, <2>4 DEF Fetch
<1>13. ASSUME NEW r \in Requests, NEW k \in Keys, Execute(r, k) PROVE SerialInv'
  BY <1>13 DEF Execute, WriteRow
<1>14. ASSUME NEW r \in Requests, NEW f \in Databases, DbOpen(r, f) PROVE SerialInv'
  BY <1>14 DEF DbOpen, OpenDB
<1>15. ASSUME NEW r \in Requests, NEW p \in Paths, AddRoute(r, p) PROVE SerialInv'
  BY <1>15 DEF AddRoute
<1>16. ASSUME NEW r \in Requests, ServerGc(r) PROVE SerialInv'
  BY <1>16 DEF ServerGc
<1>17. ASSUME NEW r \in Requests, HandlerFails(r) PROVE SerialInv'
  BY <1>17 DEF HandlerFails, Finish, Goto
<1>18. ASSUME NEW r \in Requests, CommitFails(r) PROVE SerialInv'
  BY <1>18 DEF CommitFails, Finish, Goto
<1>19. ASSUME NEW r \in Requests, Commit(r) PROVE SerialInv'
  BY <1>19 DEF Commit, Finish, Goto
<1>20. ASSUME NEW r \in Requests, Unwind(r) PROVE SerialInv'
  BY <1>20 DEF Unwind, Goto
<1>21. ASSUME NEW r \in Requests, Answer(r) PROVE SerialInv'
  BY <1>21 DEF Answer, Goto
<1>22. CASE UNCHANGED vars
  BY <1>22 DEF vars
<1> HIDE DEF TypeOK, LockInv, SerialInv, InHandler, Usable, Databases, Writers, Empty,
            conn, data, past
<1> QED
  BY <1>1, <1>2, <1>3, <1>4, <1>5, <1>6, <1>7, <1>8, <1>9, <1>10, <1>11, <1>12, <1>13, <1>14,
     <1>15, <1>16, <1>17, <1>18, <1>19, <1>20, <1>21, <1>22
     DEF Next, MainStep, Dispatch, Statement, HandlerEnds, Rest

\* Before _start, the store is empty and nobody has sent a request.
LEMMA SerialInit == Init => SerialInv /\ Serial!Init
<1> SUFFICES ASSUME Init PROVE SerialInv /\ Serial!Init
  OBVIOUS
<1> USE NamesAssumption DEF Init, Databases, Empty
<1>1. SerialInv
  BY DEF SerialInv
<1>2. OpenStore = [k \in Keys |-> Nobody]
  BY DEF OpenStore
<1>3. \A r \in Requests : Status(r) = "idle" /\ pc[r] \notin Decided
  BY DEF Status, Decided
<1> QED
  BY <1>1, <1>2, <1>3 DEF Serial!Init, Serial!Unread

\* Steps of main are steps of Setup.
LEMMA SetupStep ==
  ASSUME TypeOK, TypeOK', SerialInv, SerialInv', phase = "main", UNCHANGED <<pc, reply, seen>>,
         phase' = "main" \/ UNCHANGED <<db, store>>
  PROVE  Serial!Setup
<1>1. OpenStore' \in [Keys -> {Main, Nobody}]
  BY DEF TypeOK, SerialInv, OpenStore, Empty
<1> QED
  BY <1>1 DEF Serial!Setup, Status, Decided

\* A request that leaves handler code decides, on what it read and wrote.
LEMMA DecideStep ==
  ASSUME TypeOK, TypeOK', SerialInv, NEW r \in Requests, NEW W \in SUBSET Keys,
         pc[r] \in {"locked", "running"}, NEW answer \in Failures \cup Successes,
         Finish(r, pc[r], answer), UNCHANGED <<seen, phase>>,
         \A k \in Keys : seen[r][k] \in {NotRead, OpenStore[k]} \cup (IF k \in W THEN {r} ELSE {})
  PROVE  Serial!Decide(r, W) /\ reply'[r] = answer
<1> USE DEF TypeOK, Finish, Goto, Failures, Successes
<1>1. /\ Status(r) = "sent"
      /\ pc' = [pc EXCEPT ![r] = "unwinding"]
      /\ reply' = [reply EXCEPT ![r] = answer]
  BY DEF Status
<1>2. Status(r)' = "decided"
  BY <1>1 DEF Status
<1>3. \A q \in Requests \ {r} : Status(q)' = Status(q)
  BY <1>1 DEF Status
<1>4. [q \in Requests |-> Status(q)]' = [[q \in Requests |-> Status(q)] EXCEPT ![r] = "decided"]
  BY <1>2, <1>3
<1> DEFINE Seen == [q \in Requests |-> IF pc[q] \in Decided THEN seen[q]
                                       ELSE [k \in Keys |-> NotRead]]
<1>5. Seen' = [Seen EXCEPT ![r] = seen[r]]
  BY <1>1 DEF Decided
<1>6. seen[r] \in [Keys -> Serial!Writers \cup {NotRead}]
  BY DEF Serial!Writers, Writers
<1> HIDE DEF Seen
<1>7. Serial!Decide(r, W)
  BY <1>1, <1>4, <1>5, <1>6 DEF Serial!Decide, Seen
<1> QED
  BY <1>1, <1>7

\* A step inside the handler, or of its deferred calls, is invisible.
LEMMA SilentStep ==
  ASSUME UNCHANGED <<phase, reply>>, OpenStore' = OpenStore,
         \A r \in Requests :
             /\ Status(r)' = Status(r)
             /\ (pc[r] \in Decided)' = (pc[r] \in Decided)
             /\ pc[r] \in Decided => seen'[r] = seen[r]
  PROVE  UNCHANGED Serial!vars
BY DEF Serial!vars

\* Every step of HttpRuntime is a step of SerialStore or leaves it unchanged.
LEMMA RefinementStep ==
  ASSUME HandlersReopen = FALSE,
         TypeOK, TypeOK', LockInv, SerialInv, SerialInv', [Next]_vars
  PROVE  [Serial!Next]_(Serial!vars)
<1> USE NamesAssumption DEF conn, data, past
<1>1. CASE MainStep
  <2>1. phase = "main" /\ UNCHANGED <<pc, reply, seen>>
    BY <1>1 DEF MainStep, MainExecute, MainDbOpen, MainAddRoute, MainListen, MainReturns, MainTraps
  <2>2. phase' = "main" \/ UNCHANGED <<db, store>>
    BY <1>1 DEF MainStep, MainExecute, MainDbOpen, MainAddRoute, MainListen, MainReturns, MainTraps
  <2> QED BY <2>1, <2>2, SetupStep DEF Serial!Next
<1>2. ASSUME NEW r \in Requests, Arrive(r) PROVE Serial!Send(r)
  <2>1. /\ phase = "serving" /\ pc[r] = "idle" /\ pc' = [pc EXCEPT ![r] = "waiting"]
        /\ UNCHANGED <<phase, db, store, reply, seen>>
    BY <1>2 DEF Arrive, Goto
  <2>2. Status(r) = "idle" /\ Status(r)' = "sent"
    BY <2>1 DEF Status, TypeOK
  <2>3. \A q \in Requests : (pc[q] \in Decided)' = (pc[q] \in Decided)
    BY <2>1 DEF TypeOK, Decided
  <2>4. \A q \in Requests \ {r} : Status(q)' = Status(q)
    BY <2>1 DEF TypeOK, Status
  <2>5. OpenStore' = OpenStore
    BY <2>1 DEF OpenStore
  <2> QED BY <2>1, <2>2, <2>3, <2>4, <2>5 DEF Serial!Send
<1>3. ASSUME NEW r \in Requests, Lock(r) \/ Begin(r) PROVE UNCHANGED Serial!vars
  <2>1. /\ pc[r] \in {"waiting", "locked"}
        /\ pc' = [pc EXCEPT ![r] = IF pc[r] = "waiting" THEN "locked" ELSE "running"]
        /\ UNCHANGED <<phase, db, store, reply, seen>>
    BY <1>3 DEF Lock, Begin, Goto
  <2>2. \A q \in Requests : Status(q)' = Status(q) /\ (pc[q] \in Decided)' = (pc[q] \in Decided)
    BY <2>1 DEF TypeOK, Status, Decided
  <2>3. OpenStore' = OpenStore
    BY <2>1 DEF OpenStore
  <2> QED BY <2>1, <2>2, <2>3, SilentStep
<1>4. ASSUME NEW r \in Requests, RouteNotFound(r) \/ NoTransaction(r) PROVE Serial!Abort(r)
  <2>1. PICK answer \in {"notFound", "error"} : Finish(r, "locked", answer)
    BY <1>4 DEF RouteNotFound, NoTransaction
  <2>2. pc[r] = "locked" /\ UNCHANGED <<phase, seen, db, store>>
    BY <1>4 DEF RouteNotFound, NoTransaction, Finish, Goto
  <2>3. \A k \in Keys : seen[r][k] = NotRead
    BY <2>2 DEF SerialInv
  <2>4. Serial!Decide(r, {}) /\ reply'[r] = answer
    BY <2>1, <2>2, <2>3, DecideStep DEF Failures
  <2>5. OpenStore' = OpenStore
    BY <2>2 DEF OpenStore
  <2> QED BY <2>1, <2>4, <2>5 DEF Serial!Abort
<1>5. ASSUME NEW r \in Requests, Statement(r) PROVE UNCHANGED Serial!vars
  <2>1. pc[r] = "running" /\ UNCHANGED <<phase, db, reply, pc>>
    BY <1>5 DEF Statement, Fetch, Execute, WriteRow, DbOpen, AddRoute, ServerGc
  <2>2. currentTx = r
    BY <2>1 DEF LockInv, SerialInv
  <2>3. UNCHANGED store /\ \A q \in Requests \ {r} : seen'[q] = seen[q]
    BY <1>5, <2>2 DEF Statement, Fetch, Execute, WriteRow, DbOpen, AddRoute, ServerGc, TypeOK
  <2>4. pc[r] \notin Decided
    BY <2>1 DEF Decided
  <2> QED BY <2>1, <2>3, <2>4, SilentStep DEF OpenStore, Status
<1>6. ASSUME NEW r \in Requests, pc[r] = "running"
      PROVE  \A k \in Keys : /\ OpenStore = store[db] /\ db \in Databases
                             /\ seen[r][k] \in {NotRead, OpenStore[k]}
                                               \cup (IF k \in wrote[r] THEN {r} ELSE {})
  BY <1>6 DEF SerialInv, OpenStore, Usable
<1>7. ASSUME NEW r \in Requests, HandlerFails(r) \/ CommitFails(r) PROVE Serial!Abort(r)
  <2>1. PICK answer \in {"error", "aborted"} : Finish(r, "running", answer)
    BY <1>7 DEF HandlerFails, CommitFails
  <2>2. pc[r] = "running" /\ UNCHANGED <<phase, seen, db, store>>
    BY <1>7 DEF HandlerFails, CommitFails, Finish, Goto
  <2>3. PICK W \in SUBSET Keys : W = wrote[r]
    BY DEF TypeOK
  <2>4. \A k \in Keys : seen[r][k] \in {NotRead, OpenStore[k]} \cup (IF k \in W THEN {r} ELSE {})
    BY <1>6, <2>3, <2>2
  <2>5. Serial!Decide(r, W) /\ reply'[r] = answer
    BY <2>1, <2>2, <2>4, DecideStep DEF Failures
  <2>6. OpenStore' = OpenStore
    BY <2>2 DEF OpenStore
  <2> QED BY <2>1, <2>4, <2>5, <2>6 DEF Serial!Abort
<1>8. ASSUME NEW r \in Requests, Commit(r) PROVE Serial!Commit(r)
  <2>1. PICK answer \in Successes : Finish(r, "running", answer)
    BY <1>8 DEF Commit, Successes
  <2>2. pc[r] = "running" /\ UNCHANGED <<phase, seen, db>> /\ store' = [store EXCEPT ![db] = txView[r]]
    BY <1>8 DEF Commit, Finish, Goto
  <2>3. PICK W \in SUBSET Keys : W = wrote[r]
    BY DEF TypeOK
  <2>4. \A k \in Keys : seen[r][k] \in {NotRead, OpenStore[k]} \cup (IF k \in W THEN {r} ELSE {})
    BY <1>6, <2>3, <2>2
  <2>5. OpenStore' = [k \in Keys |-> IF k \in W THEN r ELSE OpenStore[k]]
    <3>1. db \in Databases
      BY <2>2 DEF TypeOK, SerialInv, Usable
    <3> QED BY <2>3, <2>2, <3>1 DEF OpenStore, TypeOK, SerialInv
  <2>6. Serial!Decide(r, W) /\ reply'[r] = answer
    BY <2>1, <2>2, <2>4, DecideStep
  <2> QED BY <2>1, <2>4, <2>5, <2>6 DEF Serial!Commit, Successes
<1>9. ASSUME NEW r \in Requests, Unwind(r) PROVE UNCHANGED Serial!vars
  <2>1. /\ pc[r] = "unwinding" /\ pc' = [pc EXCEPT ![r] = "answering"]
        /\ UNCHANGED <<phase, db, store, reply, seen>>
    BY <1>9 DEF Unwind, Goto
  <2>2. \A q \in Requests : Status(q)' = Status(q) /\ (pc[q] \in Decided)' = (pc[q] \in Decided)
    BY <2>1 DEF TypeOK, Status, Decided
  <2>3. OpenStore' = OpenStore
    BY <2>1 DEF OpenStore
  <2> QED BY <2>1, <2>2, <2>3, SilentStep
<1>10. ASSUME NEW r \in Requests, Answer(r) PROVE Serial!Answer(r)
  <2>1. /\ pc[r] = "answering" /\ pc' = [pc EXCEPT ![r] = "done"]
        /\ UNCHANGED <<phase, db, store, reply, seen>>
    BY <1>10 DEF Answer, Goto
  <2>2. Status(r) = "decided" /\ Status(r)' = "answered"
    BY <2>1 DEF Status, TypeOK
  <2>3. \A q \in Requests : (pc[q] \in Decided)' = (pc[q] \in Decided)
    BY <2>1 DEF TypeOK, Decided
  <2>4. \A q \in Requests \ {r} : Status(q)' = Status(q)
    BY <2>1 DEF TypeOK, Status
  <2>5. OpenStore' = OpenStore
    BY <2>1 DEF OpenStore
  <2> QED BY <2>1, <2>2, <2>3, <2>4, <2>5 DEF Serial!Answer
<1>11. CASE UNCHANGED vars
  BY <1>11 DEF vars, Serial!vars, OpenStore, Status
<1> HIDE DEF conn, data, past
<1> QED
  BY <1>1, <1>2, <1>3, <1>4, <1>5, <1>7, <1>8, <1>9, <1>10, <1>11
     DEF Next, Dispatch, HandlerEnds, Rest, Serial!Next

\* When no handler calls db_open, requests are strictly serializable.
THEOREM Serializable ==
  ASSUME HandlersReopen = FALSE
  PROVE  Spec => ImplementsSerialStore
<1>1. TypeOK /\ LockInv /\ SerialInv /\ [Next]_vars => SerialInv'
  BY SerialStep
<1>2. TypeOK /\ TypeOK' /\ LockInv /\ SerialInv /\ SerialInv' /\ [Next]_vars
        => [Serial!Next]_(Serial!vars)
  BY RefinementStep
<1> QED
  BY <1>1, <1>2, SerialInit, Invariant, PTL DEF Spec, ImplementsSerialStore, Serial!Spec
=============================================================================
