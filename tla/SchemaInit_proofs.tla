-------------------------- MODULE SchemaInit_proofs --------------------------
(***************************************************************************)
(* Proofs about SchemaInit, for any number of processes, tables and files.  *)
(***************************************************************************)
EXTENDS SchemaInit, TLAPS

USE SchemaAssumption

\* Going on to the next table keeps the types of what it writes.
LEMMA NextTableType ==
  ASSUME TypeOK, NEW p \in Procs, NextTable(p), next[p] \in Tables,
         file' \in [Files -> [Tables -> Shapes]], mem' \in [Procs -> [Tables -> Shapes]]
  PROVE  TypeOK'
<1>1. next[p] + 1 \in 1 .. NTables + 1
  BY DEF Tables
<1>2. next' \in [Procs -> 1 .. NTables + 1]
  BY <1>1 DEF TypeOK, NextTable
<1>3. found' \in [Procs -> {"?", "yes", "no"}]
  BY DEF TypeOK, NextTable
<1>4. QED
  BY <1>2, <1>3 DEF TypeOK, NextTable

\* An error of the loop keeps the types of what it writes.
LEMMA LoopFailsType ==
  ASSUME TypeOK, NEW p \in Procs, LoopFails(p), next[p] \in Tables
  PROVE  TypeOK'
<1>3. mem' \in [Procs -> [Tables -> Shapes]]
  BY DEF TypeOK, LoopFails, NoTables, Shapes
<1>4. db' \in [Procs -> Files \cup {Mem, NoDB}]
  BY DEF TypeOK, LoopFails
<1>5. /\ looping' \in [Procs -> {"no", "open", "register"}]
      /\ found' \in [Procs -> {"?", "yes", "no"}]
      /\ stage' \in [Procs -> {"down", "consts", "main", "failed"}]
  BY DEF TypeOK, LoopFails
<1>6. QED
  BY <1>3, <1>4, <1>5 DEF TypeOK, LoopFails

\* Every step of the start of a process, of db_open and of the table loop
\* keeps the types.
LEMMA TypeStep == TypeOK /\ LoopInv /\ [Next]_vars => TypeOK'
<1> SUFFICES ASSUME TypeOK, LoopInv, [Next]_vars PROVE TypeOK'
  OBVIOUS
<1>a. 1 \in 1 .. NTables + 1
  OBVIOUS
<1> USE <1>a DEF TypeOK, Shapes, NoTables, disk, Open, StartLoop, Running
<1>0. ASSUME NEW d \in Files, NEW t \in Tables, OtherProgram(d, t) PROVE TypeOK'
  BY <1>0 DEF OtherProgram
<1>1. ASSUME NEW p \in Procs, Boot(p) PROVE TypeOK'
  BY <1>1 DEF Boot
<1>2. ASSUME NEW p \in Procs, RegisterTables(p) PROVE TypeOK'
  <2>1. CASE db[p] # NoDB
    BY <1>2, <2>1 DEF RegisterTables
  <2>2. CASE db[p] = NoDB
    BY <1>2, <2>2 DEF RegisterTables
  <2>3. QED
    BY <2>1, <2>2
<1>3. ASSUME NEW p \in Procs, Stop(p) PROVE TypeOK'
  BY <1>3 DEF Stop
<1>4. ASSUME NEW p \in Procs, NEW t \in Tables, Statement(p, t) PROVE TypeOK'
  BY <1>4 DEF Statement
<1>5. ASSUME NEW p \in Procs, NEW d \in Files \cup {Mem}, DbOpen(p, d) PROVE TypeOK'
  <2>1. CASE registered[p]
    BY <1>5, <2>1 DEF DbOpen
  <2>2. CASE ~ registered[p]
    BY <1>5, <2>2 DEF DbOpen
  <2>3. QED
    BY <2>1, <2>2
<1>6. ASSUME NEW p \in Procs, TableExists(p) PROVE TypeOK'
  <2>1. CASE LoopFails(p)
    BY <1>6, <2>1, LoopFailsType DEF TableExists, Asks
  <2>2. QED
    BY <1>6, <2>1 DEF TableExists
<1>7. ASSUME NEW p \in Procs, Validate(p) PROVE TypeOK'
  <2>1. looping[p] # "no" /\ next[p] \in Tables
    BY <1>7 DEF LoopInv, Validate
  <2>2. CASE NextTable(p) /\ UNCHANGED disk
    BY <2>1, <2>2, NextTableType
  <2>3. CASE LoopFails(p)
    BY <2>1, <2>3, LoopFailsType
  <2>4. QED
    BY <1>7, <2>2, <2>3 DEF Validate
<1>8. ASSUME NEW p \in Procs, Create(p) PROVE TypeOK'
  <2>1. looping[p] # "no" /\ db[p] # NoDB /\ next[p] \in Tables
    BY <1>8 DEF LoopInv, Create
  <2>2. CASE NextTable(p) /\ mem' = [mem EXCEPT ![p][next[p]] = "matching"] /\ UNCHANGED file
    <3>1. mem' = [mem EXCEPT ![p] = [mem[p] EXCEPT ![next[p]] = "matching"]]
      BY <2>2
    <3>2. mem' \in [Procs -> [Tables -> Shapes]] /\ file' \in [Files -> [Tables -> Shapes]]
      BY <2>1, <2>2, <3>1
    <3>3. QED
      BY <2>1, <2>2, <3>2, NextTableType
  <2>3. CASE db[p] # Mem /\ NextTable(p) /\ file' = [file EXCEPT ![db[p]][next[p]] = "matching"] /\ UNCHANGED mem
    <3>1. file' = [file EXCEPT ![db[p]] = [file[db[p]] EXCEPT ![next[p]] = "matching"]]
      BY <2>3
    <3>2. mem' \in [Procs -> [Tables -> Shapes]] /\ file' \in [Files -> [Tables -> Shapes]]
      BY <2>1, <2>3, <3>1
    <3>3. QED
      BY <2>1, <2>3, <3>2, NextTableType
  <2>4. CASE LoopFails(p)
    BY <2>1, <2>4, LoopFailsType
  <2>5. QED
    BY <1>8, <2>2, <2>3, <2>4 DEF Create, Created
<1>9. ASSUME NEW p \in Procs, LoopEnds(p) PROVE TypeOK'
  BY <1>9 DEF LoopEnds
<1>10. UNCHANGED vars => TypeOK'
  BY DEF vars, disk
<1> HIDE DEF TypeOK
<1>11. QED
  BY <1>0, <1>1, <1>2, <1>3, <1>4, <1>5, <1>6, <1>7, <1>8, <1>9, <1>10 DEF Next

\* An error of the loop ends it, with its process or with its database.
LEMMA LoopFailsLoop ==
  ASSUME TypeOK, LoopInv, NEW p \in Procs, LoopFails(p), looping[p] # "no"
  PROVE  LoopInv'
<1> SUFFICES ASSUME NEW q \in Procs
             PROVE  /\ looping'[q] = "open" => stage'[q] = "main"
                    /\ looping'[q] = "register" => stage'[q] = "consts"
                    /\ looping'[q] = "no" => found'[q] = "?"
                    /\ stage'[q] = "main" => registered'[q]
                    /\ stage'[q] = "consts" => (registered'[q] <=> looping'[q] = "register")
                    /\ stage'[q] = "down" => ~ registered'[q]
                    /\ looping'[q] # "no" =>
                           /\ db'[q] # NoDB
                           /\ \A t \in 1 .. next'[q] - 1 : Schema(q)'[t] = "matching"
                           /\ found'[q] # "?" => next'[q] \in Tables
  BY DEF LoopInv, Tables
<1>1. CASE q = p
  <2>1. looping'[p] = "no" /\ found'[p] = "?" /\ registered'[p] = registered[p]
    BY DEF LoopFails, TypeOK
  <2>2. CASE looping[p] = "open"
    <3>1. stage'[p] = "main"
      BY <2>2 DEF LoopFails, LoopInv
    <3>2. QED
      BY <1>1, <2>1, <2>2, <3>1 DEF LoopInv
  <2>3. CASE looping[p] # "open"
    <3>1. stage'[p] = "failed"
      BY <2>3 DEF LoopFails, TypeOK
    <3>2. QED
      BY <1>1, <2>1, <3>1
  <2>4. QED
    BY <2>2, <2>3
<1>2. CASE q # p
  <2>1. /\ stage'[q] = stage[q] /\ looping'[q] = looping[q] /\ db'[q] = db[q]
        /\ found'[q] = found[q] /\ next'[q] = next[q] /\ registered'[q] = registered[q]
    BY <1>2 DEF LoopFails, TypeOK
  <2>2. mem'[q] = mem[q] /\ file' = file
    BY <1>2 DEF LoopFails, TypeOK
  <2>3. QED
    BY <2>1, <2>2 DEF LoopInv, Schema
<1>3. QED
  BY <1>1, <1>2

\* Every step keeps the loop invariant: nothing that is behind the loop of one
\* process is undone by the statements of another.
LEMMA LoopStep == TypeOK /\ TypeOK' /\ LoopInv /\ [Next]_vars => LoopInv'
<1> SUFFICES ASSUME TypeOK, TypeOK', LoopInv, [Next]_vars PROVE LoopInv'
  OBVIOUS
<1> USE DEF TypeOK, LoopInv, Schema, Tables, Shapes, NoTables, disk, Open, StartLoop, Running
<1>0. ASSUME NEW d \in Files, NEW t \in Tables, OtherProgram(d, t) PROVE LoopInv'
  <2>1. \A e \in Files, u \in Tables : file[e][u] = "matching" => file'[e][u] = "matching"
    BY <1>0 DEF OtherProgram
  <2>2. QED
    BY <1>0, <2>1 DEF OtherProgram
<1>1. ASSUME NEW p \in Procs, Boot(p) PROVE LoopInv'
  BY <1>1 DEF Boot
<1>2. ASSUME NEW p \in Procs, RegisterTables(p) PROVE LoopInv'
  BY <1>2 DEF RegisterTables
<1>3. ASSUME NEW p \in Procs, Stop(p) PROVE LoopInv'
  BY <1>3 DEF Stop
<1>4. ASSUME NEW p \in Procs, NEW t \in Tables, Statement(p, t) PROVE LoopInv'
  BY <1>4 DEF Statement
<1>5. ASSUME NEW p \in Procs, NEW d \in Files \cup {Mem}, DbOpen(p, d) PROVE LoopInv'
  <2>1. CASE registered[p]
    BY <1>5, <2>1 DEF DbOpen
  <2>2. CASE ~ registered[p]
    BY <1>5, <2>2 DEF DbOpen
  <2>3. QED
    BY <2>1, <2>2
<1>6. ASSUME NEW p \in Procs, TableExists(p) PROVE LoopInv'
  <2>1. CASE LoopFails(p)
    BY <1>6, <2>1, LoopFailsLoop DEF TableExists, Asks
  <2>2. QED
    BY <1>6, <2>1 DEF TableExists, Asks
<1>7. ASSUME NEW p \in Procs, Validate(p) PROVE LoopInv'
  <2>1. looping[p] # "no" /\ db[p] # NoDB /\ next[p] \in Tables
    BY <1>7 DEF LoopInv, Validate
  <2>a. next[p] + 1 \in 1 .. NTables + 1 /\ next[p] \in 0 .. NTables
    BY <2>1 DEF Tables
  <2>2. CASE Schema(p)[next[p]] = "matching" /\ NextTable(p) /\ UNCHANGED disk
    BY <1>7, <2>1, <2>a, <2>2 DEF Validate, NextTable
  <2>3. CASE LoopFails(p)
    BY <2>1, <2>3, LoopFailsLoop
  <2>4. QED
    BY <1>7, <2>2, <2>3 DEF Validate
<1>8. ASSUME NEW p \in Procs, Create(p) PROVE LoopInv'
  <2>1. looping[p] # "no" /\ db[p] # NoDB /\ next[p] \in Tables
    BY <1>8 DEF LoopInv, Create
  <2>a. next[p] + 1 \in 1 .. NTables + 1 /\ next[p] \in 0 .. NTables
    BY <2>1 DEF Tables
  <2>2. CASE NextTable(p) /\ db[p] = Mem /\ Created(p)
    <3>1. mem' = [mem EXCEPT ![p] = [mem[p] EXCEPT ![next[p]] = "matching"]]
      BY <2>2 DEF Created
    <3>2. QED
      BY <2>1, <2>a, <2>2, <3>1 DEF Created, NextTable
  <2>3. CASE NextTable(p) /\ db[p] # Mem /\ Created(p)
    <3>1. file' = [file EXCEPT ![db[p]] = [file[db[p]] EXCEPT ![next[p]] = "matching"]]
      BY <2>3 DEF Created
    <3>2. QED
      BY <2>1, <2>a, <2>3, <3>1 DEF Created, NextTable
  <2>4. CASE LoopFails(p)
    BY <2>1, <2>4, LoopFailsLoop
  <2>5. QED
    BY <1>8, <2>2, <2>3, <2>4 DEF Create
<1>9. ASSUME NEW p \in Procs, LoopEnds(p) PROVE LoopInv'
  <2>1. CASE looping[p] = "open"
    BY <1>9, <2>1 DEF LoopEnds
  <2>2. CASE looping[p] = "register"
    BY <1>9, <2>2 DEF LoopEnds
  <2>3. QED
    BY <1>9, <2>1, <2>2 DEF LoopEnds
<1>10. UNCHANGED vars => LoopInv'
  BY DEF vars, disk
<1> HIDE DEF TypeOK, LoopInv
<1>11. QED
  BY <1>0, <1>1, <1>2, <1>3, <1>4, <1>5, <1>6, <1>7, <1>8, <1>9, <1>10 DEF Next

\* No statement of any process touches a table that exists.
LEMMA FilesGrow ==
  TypeOK /\ LoopInv /\ [Next]_vars =>
    \A d \in Files, t \in Tables : file[d][t] # "absent" => file'[d][t] = file[d][t]
<1> SUFFICES ASSUME TypeOK, LoopInv, [Next]_vars, NEW e \in Files, NEW u \in Tables,
                    file[e][u] # "absent"
             PROVE  file'[e][u] = file[e][u]
  OBVIOUS
<1> USE DEF disk, Open
<1>0. ASSUME NEW d \in Files, NEW t \in Tables, OtherProgram(d, t) PROVE file'[e][u] = file[e][u]
  BY <1>0 DEF OtherProgram, TypeOK
<1>1. ASSUME NEW p \in Procs, Boot(p) PROVE file'[e][u] = file[e][u]
  BY <1>1 DEF Boot
<1>2. ASSUME NEW p \in Procs, RegisterTables(p) PROVE file'[e][u] = file[e][u]
  BY <1>2 DEF RegisterTables
<1>3. ASSUME NEW p \in Procs, Stop(p) PROVE file'[e][u] = file[e][u]
  BY <1>3 DEF Stop
<1>4. ASSUME NEW p \in Procs, NEW t \in Tables, Statement(p, t) PROVE file'[e][u] = file[e][u]
  BY <1>4 DEF Statement
<1>5. ASSUME NEW p \in Procs, NEW d \in Files \cup {Mem}, DbOpen(p, d) PROVE file'[e][u] = file[e][u]
  BY <1>5 DEF DbOpen
<1>6. ASSUME NEW p \in Procs, TableExists(p) PROVE file'[e][u] = file[e][u]
  BY <1>6 DEF TableExists, LoopFails
<1>7. ASSUME NEW p \in Procs, Validate(p) PROVE file'[e][u] = file[e][u]
  BY <1>7 DEF Validate, NextTable, LoopFails
<1>8. ASSUME NEW p \in Procs, Create(p) PROVE file'[e][u] = file[e][u]
  <2>1. CASE file' = [file EXCEPT ![db[p]][next[p]] = "matching"] /\ Schema(p)[next[p]] = "absent" /\ db[p] # Mem
    <3>1. file[db[p]][next[p]] = "absent"
      BY <2>1 DEF Schema
    <3>2. CASE e = db[p] /\ u = next[p]
      BY <3>1, <3>2
    <3>3. CASE e = db[p] /\ u # next[p]
      BY <2>1, <3>3 DEF TypeOK
    <3>4. CASE e # db[p]
      BY <2>1, <3>4 DEF TypeOK
    <3>5. QED
      BY <3>2, <3>3, <3>4
  <2>2. QED
    BY <1>8, <2>1 DEF Create, Created, LoopFails, NextTable
<1>9. ASSUME NEW p \in Procs, LoopEnds(p) PROVE file'[e][u] = file[e][u]
  BY <1>9 DEF LoopEnds
<1>10. UNCHANGED vars => file'[e][u] = file[e][u]
  BY DEF vars, disk
<1>11. QED
  BY <1>0, <1>1, <1>2, <1>3, <1>4, <1>5, <1>6, <1>7, <1>8, <1>9, <1>10 DEF Next

\* An error of the loop leaves no open database behind, or no process.
LEMMA LoopFailsOpen ==
  ASSUME TypeOK, LoopInv, OpenMeansSchema, NEW p \in Procs, LoopFails(p), looping[p] # "no"
  PROVE  OpenMeansSchema'
<1> SUFFICES ASSUME NEW q \in Procs, NEW t \in Tables,
                    stage'[q] = "main", looping'[q] = "no", db'[q] # NoDB
             PROVE  Schema(q)'[t] = "matching"
  BY DEF OpenMeansSchema
<1>1. CASE q = p
  <2>1. looping[p] = "open" => db'[p] = NoDB
    BY DEF LoopFails, TypeOK
  <2>2. looping[p] # "open" => stage'[p] = "failed"
    BY DEF LoopFails, TypeOK
  <2>3. QED
    BY <1>1, <2>1, <2>2
<1>2. CASE q # p
  <2>1. stage'[q] = stage[q] /\ looping'[q] = looping[q] /\ db'[q] = db[q]
    BY <1>2 DEF LoopFails, TypeOK
  <2>2. mem'[q] = mem[q] /\ file' = file
    BY <1>2 DEF LoopFails, TypeOK
  <2>3. QED
    BY <2>1, <2>2 DEF OpenMeansSchema, Schema
<1>3. QED
  BY <1>1, <1>2

\* Every step keeps OpenMeansSchema: a database is handed to main only at the
\* end of the loop, and files only grow.
LEMMA OpenStep ==
  TypeOK /\ TypeOK' /\ LoopInv /\ OpenMeansSchema /\ [Next]_vars => OpenMeansSchema'
<1> SUFFICES ASSUME TypeOK, TypeOK', LoopInv, OpenMeansSchema, [Next]_vars
             PROVE  OpenMeansSchema'
  OBVIOUS
<1> USE DEF TypeOK, LoopInv, OpenMeansSchema, Schema, Tables, Shapes, NoTables, disk, Open, StartLoop, Running
<1>0. ASSUME NEW d \in Files, NEW t \in Tables, OtherProgram(d, t) PROVE OpenMeansSchema'
  <2>1. \A e \in Files, u \in Tables : file[e][u] = "matching" => file'[e][u] = "matching"
    BY <1>0 DEF OtherProgram
  <2>2. QED
    BY <1>0, <2>1 DEF OtherProgram
<1>1. ASSUME NEW p \in Procs, Boot(p) PROVE OpenMeansSchema'
  BY <1>1 DEF Boot
<1>2. ASSUME NEW p \in Procs, RegisterTables(p) PROVE OpenMeansSchema'
  <2>1. CASE db[p] # NoDB
    <3> SUFFICES ASSUME NEW q \in Procs, NEW t \in Tables,
                        stage'[q] = "main", looping'[q] = "no", db'[q] # NoDB
                 PROVE  Schema(q)'[t] = "matching"
      OBVIOUS
    <3>1. UNCHANGED <<stage, db, file, mem>> /\ looping' = [looping EXCEPT ![p] = "register"]
      BY <1>2, <2>1 DEF RegisterTables
    <3>2. q # p /\ looping'[q] = looping[q]
      BY <3>1
    <3>3. QED
      BY <3>1, <3>2
  <2>2. CASE db[p] = NoDB
    BY <1>2, <2>2 DEF RegisterTables
  <2>3. QED
    BY <2>1, <2>2
<1>3. ASSUME NEW p \in Procs, Stop(p) PROVE OpenMeansSchema'
  BY <1>3 DEF Stop
<1>4. ASSUME NEW p \in Procs, NEW t \in Tables, Statement(p, t) PROVE OpenMeansSchema'
  BY <1>4 DEF Statement
<1>5. ASSUME NEW p \in Procs, NEW d \in Files \cup {Mem}, DbOpen(p, d) PROVE OpenMeansSchema'
  <2>1. CASE registered[p]
    BY <1>5, <2>1 DEF DbOpen
  <2>2. CASE ~ registered[p]
    BY <1>5, <2>2 DEF DbOpen
  <2>3. QED
    BY <2>1, <2>2
<1>6. ASSUME NEW p \in Procs, TableExists(p) PROVE OpenMeansSchema'
  <2>1. CASE LoopFails(p)
    BY <1>6, <2>1, LoopFailsOpen DEF TableExists, Asks
  <2>2. QED
    BY <1>6, <2>1 DEF TableExists, Asks
<1>7. ASSUME NEW p \in Procs, Validate(p) PROVE OpenMeansSchema'
  <2>1. looping[p] # "no" /\ db[p] # NoDB /\ next[p] \in Tables
    BY <1>7 DEF LoopInv, Validate
  <2>2. CASE Schema(p)[next[p]] = "matching" /\ NextTable(p) /\ UNCHANGED disk
    BY <1>7, <2>1, <2>2 DEF Validate, NextTable
  <2>3. CASE LoopFails(p)
    BY <2>1, <2>3, LoopFailsOpen
  <2>4. QED
    BY <1>7, <2>2, <2>3 DEF Validate
<1>8. ASSUME NEW p \in Procs, Create(p) PROVE OpenMeansSchema'
  <2>1. looping[p] # "no" /\ db[p] # NoDB /\ next[p] \in Tables
    BY <1>8 DEF LoopInv, Create
  <2>2. CASE NextTable(p) /\ db[p] = Mem /\ Created(p)
    <3>1. mem' = [mem EXCEPT ![p] = [mem[p] EXCEPT ![next[p]] = "matching"]]
      BY <2>2 DEF Created
    <3>2. QED
      BY <2>1, <2>2, <3>1 DEF Created, NextTable
  <2>3. CASE NextTable(p) /\ db[p] # Mem /\ Created(p)
    <3>1. file' = [file EXCEPT ![db[p]] = [file[db[p]] EXCEPT ![next[p]] = "matching"]]
      BY <2>3 DEF Created
    <3>2. QED
      BY <2>1, <2>3, <3>1 DEF Created, NextTable
  <2>4. CASE LoopFails(p)
    BY <2>1, <2>4, LoopFailsOpen
  <2>5. QED
    BY <1>8, <2>2, <2>3, <2>4 DEF Create
<1>9. ASSUME NEW p \in Procs, LoopEnds(p) PROVE OpenMeansSchema'
  BY <1>9 DEF LoopEnds
<1>10. UNCHANGED vars => OpenMeansSchema'
  BY DEF vars, disk
<1> HIDE DEF TypeOK, LoopInv, OpenMeansSchema
<1>11. QED
  BY <1>0, <1>1, <1>2, <1>3, <1>4, <1>5, <1>6, <1>7, <1>8, <1>9, <1>10 DEF Next

\* The initial states satisfy the invariant, whatever the files hold.
LEMMA InitInv == Init => TypeOK /\ LoopInv /\ OpenMeansSchema
<1> SUFFICES ASSUME Init PROVE TypeOK /\ LoopInv /\ OpenMeansSchema
  OBVIOUS
<1>1. TypeOK
  BY DEF Init, TypeOK, NoTables, Tables, Shapes
<1>2. LoopInv
  BY DEF Init, LoopInv, NoTables
<1>3. OpenMeansSchema
  BY DEF Init, OpenMeansSchema
<1>4. QED
  BY <1>1, <1>2, <1>3

-----------------------------------------------------------------------------
\* The invariant of the start of processes that share database files.
THEOREM Invariant ==
  Spec => [](TypeOK /\ LoopInv /\ OpenMeansSchema)
<1>1. TypeOK /\ LoopInv /\ OpenMeansSchema /\ [Next]_vars
      => (TypeOK /\ LoopInv /\ OpenMeansSchema)'
  BY TypeStep, LoopStep, OpenStep
<1>2. QED
  BY InitInv, <1>1, PTL DEF Spec

\* Whenever main or a handler runs with an open database, every declared table
\* is there with its declared shape, whatever other processes do to the file
\* and wherever earlier ones were killed.
THEOREM SchemaComplete == Spec => []OpenMeansSchema
  BY Invariant, PTL

\* No process ever alters or drops a table that exists.
THEOREM SchemasAreKept == Spec => SchemaNeverAltered
<1>1. TypeOK /\ LoopInv /\ [Next]_vars
      => [\A d \in Files, t \in Tables : file[d][t] # "absent" => file'[d][t] = file[d][t]]_vars
  BY FilesGrow
<1>2. QED
  BY Invariant, <1>1, PTL DEF Spec, SchemaNeverAltered
=============================================================================
