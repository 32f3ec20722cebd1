----------------------------- MODULE SchemaInit -----------------------------
(***************************************************************************)
(* How the tables a program declares come to exist: the start of a process  *)
(* (ensureDefaultDB, the initialisers of top-level constants, then          *)
(* register_tables, then main), db_open, and the loop of                    *)
(* initAndValidateTables, one SQL statement at a time.  None of it runs in  *)
(* a transaction, database files are shared by processes, and a process may *)
(* be killed between two statements.                                        *)
(*                                                                          *)
(* Tables are numbered in the order of the registered definitions; of a     *)
(* table, a database knows whether it is absent, matches its definition or  *)
(* has another shape.                                                       *)
(***************************************************************************)
EXTENDS Naturals

CONSTANTS
    Procs,      \* processes running the same program
    NTables,    \* number of declared tables
    Files,      \* database files
    NoDB,       \* r.db = nil
    Mem         \* the default ":memory:" of a process

ASSUME SchemaAssumption ==
    /\ NTables \in Nat
    /\ NoDB \notin Files
    /\ Mem \notin Files \cup {NoDB}

VARIABLES
    stage,      \* where the process is: "down", "consts" (__init), "main", "failed"
    registered, \* r.tableDefs is set
    db,         \* r.db
    file,       \* the tables of each file
    mem,        \* the tables of each process's in-memory database
    looping,    \* why initAndValidateTables runs: "no", "open" or "register"
    next,       \* the table its loop has reached
    found,      \* what tableExists answered for it: "?", "yes" or "no"
    missed      \* history: stages in which a statement found its table missing

vars == <<stage, registered, db, file, mem, looping, next, found, missed>>
disk == <<file, mem>>

Tables == 1 .. NTables
Shapes == {"absent", "matching", "other"}
NoTables == [t \in Tables |-> "absent"]

\* The tables of the database that p has open.
Schema(p) == IF db[p] = Mem THEN mem[p] ELSE file[db[p]]

Init ==
    /\ stage = [p \in Procs |-> "down"]
    /\ registered = [p \in Procs |-> FALSE]
    /\ db = [p \in Procs |-> NoDB]
    /\ file \in [Files -> [Tables -> Shapes]]
    /\ mem = [p \in Procs |-> NoTables]
    /\ looping = [p \in Procs |-> "no"]
    /\ next = [p \in Procs |-> 1]
    /\ found = [p \in Procs |-> "?"]
    /\ missed = [p \in Procs |-> {}]

\* initAndValidateTables starts its loop over r.tableDefs.
StartLoop(p, reason) ==
    /\ looping' = [looping EXCEPT ![p] = reason]
    /\ next' = [next EXCEPT ![p] = 1]
    /\ found' = [found EXCEPT ![p] = "?"]

\* openDB closes what is open; an in-memory database is lost.
Open(p, d) ==
    /\ db' = [db EXCEPT ![p] = d]
    /\ mem' = [mem EXCEPT ![p] = NoTables]

\* The process starts: ensureDefaultDB opens ":memory:" before any definition
\* is registered, and _start enters __init.
Boot(p) ==
    /\ stage[p] = "down"
    /\ stage' = [stage EXCEPT ![p] = "consts"]
    /\ Open(p, Mem)
    /\ UNCHANGED <<registered, file, looping, next, found, missed>>

\* The program runs; it is not inside a host call that initialises tables.
Running(p) == stage[p] \in {"consts", "main"} /\ looping[p] = "no"

\* A statement on table t, from a constant's initialiser or from main.
Statement(p, t) ==
    /\ Running(p)
    /\ db[p] # NoDB
    /\ missed' = IF Schema(p)[t] = "absent"
                 THEN [missed EXCEPT ![p] = @ \cup {stage[p]}]
                 ELSE missed
    /\ UNCHANGED <<stage, registered, db, disk, looping, next, found>>

\* Seeded fault: openDB leaves the tables to register_tables.
DbOpenUnchecked(p, d) ==
    /\ Running(p)
    /\ Open(p, d)
    /\ UNCHANGED <<stage, registered, file, looping, next, found, missed>>

\* db_open(d): with nothing registered yet it succeeds without looking at the
\* database.
DbOpen(p, d) ==
    /\ Running(p)
    /\ Open(p, d)
    /\ IF registered[p]
       THEN StartLoop(p, "open")
       ELSE UNCHANGED <<looping, next, found>>
    /\ UNCHANGED <<stage, registered, file, missed>>

\* The last call of __init.  Without a database it only stores the definitions.
RegisterTables(p) ==
    /\ stage[p] = "consts"
    /\ Running(p)
    /\ registered' = [registered EXCEPT ![p] = TRUE]
    /\ IF db[p] # NoDB
       THEN StartLoop(p, "register") /\ UNCHANGED stage
       ELSE stage' = [stage EXCEPT ![p] = "main"] /\ UNCHANGED <<looping, next, found>>
    /\ UNCHANGED <<db, disk, missed>>

\* initAndValidateTables returns an error: openDB closes the database and
\* db_open returns the error; register_tables traps, which ends the process.
LoopFails(p) ==
    /\ looping' = [looping EXCEPT ![p] = "no"]
    /\ found' = [found EXCEPT ![p] = "?"]
    /\ IF looping[p] = "open"
       THEN db' = [db EXCEPT ![p] = NoDB] /\ mem' = [mem EXCEPT ![p] = NoTables] /\ UNCHANGED stage
       ELSE stage' = [stage EXCEPT ![p] = "failed"] /\ UNCHANGED <<db, mem>>
    /\ UNCHANGED <<registered, file, next, missed>>

\* The loop asks for the next table.
Asks(p) ==
    /\ looping[p] # "no"
    /\ next[p] \in Tables
    /\ found[p] = "?"

\* tableExists.  Here and below, the statement may also fail: the file cannot be
\* opened or is no database, or another process has locked it.
TableExists(p) ==
    /\ Asks(p)
    /\ \/ /\ found' = [found EXCEPT ![p] = IF Schema(p)[next[p]] = "absent" THEN "no" ELSE "yes"]
          /\ UNCHANGED <<stage, registered, db, disk, looping, next, missed>>
       \/ LoopFails(p)

NextTable(p) ==
    /\ next' = [next EXCEPT ![p] = @ + 1]
    /\ found' = [found EXCEPT ![p] = "?"]
    /\ UNCHANGED <<stage, registered, db, looping, missed>>

\* Seeded fault: a table with another shape is created anew.
ValidateReplaces(p) ==
    /\ found[p] = "yes"
    /\ NextTable(p)
    /\ IF db[p] = Mem
       THEN UNCHANGED disk
       ELSE file' = [file EXCEPT ![db[p]][next[p]] = "matching"] /\ UNCHANGED mem

\* validateTableStructure
Validate(p) ==
    /\ found[p] = "yes"
    /\ \/ /\ Schema(p)[next[p]] = "matching"
          /\ NextTable(p)
          /\ UNCHANGED disk
       \/ LoopFails(p)

\* The CREATE TABLE of createTable, executed.
Created(p) ==
    IF db[p] = Mem
    THEN mem' = [mem EXCEPT ![p][next[p]] = "matching"] /\ UNCHANGED file
    ELSE file' = [file EXCEPT ![db[p]][next[p]] = "matching"] /\ UNCHANGED mem

\* Seeded fault: an error of CREATE is taken for a table that is there.
CreateUnchecked(p) ==
    /\ found[p] = "no"
    /\ NextTable(p)
    /\ IF Schema(p)[next[p]] = "absent" THEN Created(p) ELSE UNCHANGED disk

\* createTable: CREATE TABLE without IF NOT EXISTS, so it has to fail when
\* another process has created the table since tableExists, who knows with what
\* declaration.
Create(p) ==
    /\ found[p] = "no"
    /\ \/ /\ Schema(p)[next[p]] = "absent"
          /\ NextTable(p)
          /\ Created(p)
       \/ LoopFails(p)

LoopEnds(p) ==
    /\ looping[p] # "no"
    /\ next[p] \notin Tables
    /\ looping' = [looping EXCEPT ![p] = "no"]
    /\ stage' = [stage EXCEPT ![p] = "main"]
    /\ UNCHANGED <<registered, db, disk, next, found, missed>>

\* The process is killed, or exits; its files keep what was executed.
Stop(p) ==
    /\ stage[p] # "down"
    /\ stage' = [stage EXCEPT ![p] = "down"]
    /\ registered' = [registered EXCEPT ![p] = FALSE]
    /\ Open(p, NoDB)
    /\ StartLoop(p, "no")
    /\ missed' = [missed EXCEPT ![p] = {}]
    /\ UNCHANGED file

\* A process that runs another program, or another version of this one, creates
\* in the same file a table of this name, with its own declaration.
OtherProgram(d, t) ==
    /\ file[d][t] = "absent"
    /\ \E s \in {"matching", "other"} : file' = [file EXCEPT ![d][t] = s]
    /\ UNCHANGED <<stage, registered, db, mem, looping, next, found, missed>>

Next ==
    \/ \E d \in Files, t \in Tables : OtherProgram(d, t)
    \/ \E p \in Procs :
           \/ Boot(p) \/ RegisterTables(p) \/ Stop(p)
           \/ \E t \in Tables : Statement(p, t)
           \/ \E d \in Files \cup {Mem} : DbOpen(p, d)
           \/ TableExists(p) \/ Validate(p) \/ Create(p) \/ LoopEnds(p)

Spec == Init /\ [][Next]_vars

-----------------------------------------------------------------------------
TypeOK ==
    /\ stage \in [Procs -> {"down", "consts", "main", "failed"}]
    /\ registered \in [Procs -> BOOLEAN]
    /\ db \in [Procs -> Files \cup {Mem, NoDB}]
    /\ file \in [Files -> [Tables -> Shapes]]
    /\ mem \in [Procs -> [Tables -> Shapes]]
    /\ looping \in [Procs -> {"no", "open", "register"}]
    /\ next \in [Procs -> 1 .. NTables + 1]
    /\ found \in [Procs -> {"?", "yes", "no"}]
    /\ missed \in [Procs -> SUBSET {"consts", "main"}]

\* Whenever main (or a handler) runs with an open database, every declared
\* table is there with its declared shape: openDB and registerTables never
\* hand over a database they have not brought to the end of the loop, even if
\* another process creates a table between tableExists and createTable, an
\* earlier run was killed in the middle of its own loop, or a statement fails.
OpenMeansSchema ==
    \A p \in Procs :
        stage[p] = "main" /\ looping[p] = "no" /\ db[p] # NoDB =>
            \A t \in Tables : Schema(p)[t] = "matching"

\* Opening a file creates tables and nothing else: a table that exists is never
\* altered, dropped or replaced, whatever its shape.
SchemaNeverAltered ==
    [][\A d \in Files, t \in Tables : file[d][t] # "absent" => file'[d][t] = file[d][t]]_vars

\* docs/spec.md 11.7: tables that do not exist are created when the program
\* starts, so that the SQL blocks the compiler has checked against them find
\* them.  The initialisers of top-level constants run before that.
ConstsFindTables == \A p \in Procs : "consts" \notin missed[p]

\* Why these hold: the tables behind the loop match, and nobody takes them away.
LoopInv ==
    \A p \in Procs :
        /\ looping[p] = "open" => stage[p] = "main"
        /\ looping[p] = "register" => stage[p] = "consts"
        /\ looping[p] = "no" => found[p] = "?"
        /\ stage[p] = "main" => registered[p]
        /\ stage[p] = "consts" => (registered[p] <=> looping[p] = "register")
        /\ stage[p] = "down" => ~ registered[p]
        /\ looping[p] # "no" =>
               /\ db[p] # NoDB
               /\ \A t \in 1 .. next[p] - 1 : Schema(p)[t] = "matching"
               /\ found[p] # "?" => next[p] \in Tables
=============================================================================
