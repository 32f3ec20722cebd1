----------------------------- MODULE SerialStore -----------------------------
(***************************************************************************)
(* What the HTTP runtime of TunaScript promises the clients of a server    *)
(* whose handlers use the database that `main` opened: every request takes *)
(* effect in one indivisible step between its arrival and its answer, or   *)
(* fails in one and leaves the database as it was.  What a handler read is *)
(* what the database held at that step, overlaid with the handler's own    *)
(* writes.  Nothing here is about locks, transactions or pointers: module  *)
(* HttpRuntime has those, and implements this.                             *)
(***************************************************************************)
CONSTANTS
    Requests,   \* the HTTP requests of one execution
    Keys,       \* the rows of the database
    Main,       \* the writer of what `main` stored before the server started
    Nobody,     \* the writer of a row nobody wrote
    NotRead     \* what a request saw of a row it did not read

VARIABLES
    serving,    \* the server accepts requests
    store,      \* the database: who wrote each row last
    status,     \* how far each request is
    reply,      \* the answer decided for each request
    seen        \* what each decided request read

vars == <<serving, store, status, reply, seen>>

Writers == Requests \cup {Main, Nobody}
Unread == [k \in Keys |-> NotRead]

Init ==
    /\ serving = FALSE
    /\ store = [k \in Keys |-> Nobody]
    /\ status = [r \in Requests |-> "idle"]
    /\ reply = [r \in Requests |-> "none"]
    /\ seen = [r \in Requests |-> Unread]

\* main prepares the database, in as many steps as it likes, and then serves.
Setup ==
    /\ ~ serving
    /\ serving' \in BOOLEAN
    /\ store' \in [Keys -> {Main, Nobody}]
    /\ UNCHANGED <<status, reply, seen>>

Send(r) ==
    /\ serving
    /\ status[r] = "idle"
    /\ status' = [status EXCEPT ![r] = "sent"]
    /\ UNCHANGED <<serving, store, reply, seen>>

\* r decides: it read some rows of the database and wrote the rows W.
Decide(r, W) ==
    /\ status[r] = "sent"
    /\ status' = [status EXCEPT ![r] = "decided"]
    /\ \E answer \in {"ok", "redirect", "badRedirect", "error", "aborted", "notFound"} :
           reply' = [reply EXCEPT ![r] = answer]
    /\ \E s \in [Keys -> Writers \cup {NotRead}] :
           /\ \A k \in Keys : s[k] \in {NotRead, store[k]} \cup (IF k \in W THEN {r} ELSE {})
           /\ seen' = [seen EXCEPT ![r] = s]
    /\ UNCHANGED serving

Commit(r) ==
    \E W \in SUBSET Keys :
        /\ Decide(r, W)
        /\ reply'[r] \in {"ok", "redirect", "badRedirect"}
        /\ store' = [k \in Keys |-> IF k \in W THEN r ELSE store[k]]

Abort(r) ==
    \E W \in SUBSET Keys :
        /\ Decide(r, W)
        /\ reply'[r] \in {"error", "aborted", "notFound"}
        /\ UNCHANGED store

Answer(r) ==
    /\ status[r] = "decided"
    /\ status' = [status EXCEPT ![r] = "answered"]
    /\ UNCHANGED <<serving, store, reply, seen>>

Next ==
    \/ Setup
    \/ \E r \in Requests : Send(r) \/ Commit(r) \/ Abort(r) \/ Answer(r)

Spec == Init /\ [][Next]_vars
=============================================================================
