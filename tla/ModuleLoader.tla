---------------------------- MODULE ModuleLoader ----------------------------
(***************************************************************************)
(* Compiler.Compile up to the type checker: which modules a program consists *)
(* of.  Files are loaded by a recursive descent over their imports; what the *)
(* calls of the recursion have on Go's stack is the variable stack.  A       *)
(* built-in module is recorded before its imports are followed, a file       *)
(* after them.                                                               *)
(*                                                                           *)
(* An import names a built-in module, or a file: "./a" and "./a.ts" are the   *)
(* same file, the path has been joined with the importer's directory.        *)
(***************************************************************************)
EXTENDS Integers, SequencesExt

CONSTANTS
    Files,          \* paths of TunaScript files
    Texts,          \* paths with another extension: imported as a string
    Names,          \* names a module of the library may have
    ShortNames,     \* names of two letters that are no module of the library
    Backend,        \* "gc" or "host"
    Entry,          \* the file given to the command line
    Programs,       \* what the disk may hold: module -> what its text says
    LibPlaces,      \* sequences of directories findLibDir may look at, as sets of names
    MaxDepth,       \* frames that fit on the stack of the process
    HasSql(_),      \* moduleNeedsSqlite: what declarations say, see DeclScan
    WithCode(_, _)  \* filterDeclsForWAT: the declarations that a WAT file leaves, see DeclScan

Sources == Files \cup Texts
Modules == Sources \cup Names

\* Paths are no names, and a path has one extension.
ASSUME LoaderAssumption ==
    /\ Entry \in Files
    /\ {"prelude", "interop", "sqlite"} \subseteq Names
    /\ Modules \subseteq STRING
    /\ Files \cap Texts = {} /\ Sources \cap Names = {}
    /\ MaxDepth \in Nat \ {0}

\* What a disk may hold: a text for each module, and directories of modules.
ASSUME DiskAssumption ==
    /\ \A p \in Programs : \A m \in Modules : p[m].imports \in Seq(STRING) /\ p[m].bad \in BOOLEAN
    /\ \A l \in LibPlaces : l \in Seq(SUBSET Names)

VARIABLES
    disk,           \* for each module its imports, its declarations decls, the functions its
                    \* WAT file defines (wat, <<>> if it has none), whether it is bad; history:
                    \* sql, leaf and inside, how its author came to write it
    places,         \* the directories findLibDir tries, in its order
    modules,        \* Compiler.Modules: the recorded modules
    stack,          \* calls of loadRecursive and loadBuiltinModule, the running one last
    phase,          \* what Compile does: "index", "prelude", "entry", "sqlite"
    status          \* "loading", "done", "error", "panic", "overflow"

vars == <<disk, places, modules, stack, phase, status>>
input == <<disk, places>>

\* findLibDir and ensureLibIndex: the first place that has a prelude.
IsLibDir(dir) == "prelude" \in dir
Lib == IF SelectInSeq(places, IsLibDir) = 0 THEN {}
       ELSE places[SelectInSeq(places, IsLibDir)]

NeedsHostBridge(name) ==
    \/ name \in {"server", "runtime", "sqlite"}
    \/ name \in {"http", "file"} /\ Backend = "host"

\* What a module declares once it is recorded: of a library module with a WAT
\* file, what does not call functions without code.
DeclaredIn(p, m) ==
    IF m \in Names /\ p[m].wat # <<>> THEN WithCode(p[m].decls, p[m].wat[1]) ELSE p[m].decls
Declarations(m) == DeclaredIn(disk, m)

\* needsSqliteModule: three modules are not asked.
Asked(ms) == ms \ {"sqlite", "server", "host"}
NeedsSqlite == \E m \in Asked(modules) : HasSql(Declarations(m))

Init ==
    /\ disk \in Programs
    /\ places \in LibPlaces
    /\ modules = {}
    /\ stack = <<>>
    /\ phase = "index"
    /\ status = "loading"

-----------------------------------------------------------------------------
Top == Last(stack)
Frame(m) == [module |-> m, at |-> "enter", next |-> 1]
Pop == Front(stack)
\* The running call goes on at another place, or after its import k.
Goto(at) == ReplaceAt(stack, Len(stack), [Top EXCEPT !.at = at])
AfterImport == ReplaceAt(stack, Len(stack), [Top EXCEPT !.next = @ + 1])

\* A call: the recursion has no bound of its own, the process has.
Call(frames, m) ==
    IF Len(frames) < MaxDepth
    THEN stack' = Append(frames, Frame(m)) /\ UNCHANGED status
    ELSE status' = "overflow" /\ UNCHANGED stack

Running(at) == status = "loading" /\ stack # <<>> /\ Top.at = at

\* Both functions return at once for a module that is recorded.
AlreadyLoaded ==
    /\ Running("enter")
    /\ Top.module \in modules
    /\ stack' = Pop
    /\ UNCHANGED <<input, modules, phase, status>>

\* loadBuiltinModule loads interop before the module that needs it.
LoadBridge ==
    /\ Running("enter")
    /\ Top.module \notin modules
    /\ IF Top.module \in Names /\ NeedsHostBridge(Top.module)
       THEN Call(Goto("read"), "interop")
       ELSE stack' = Goto("read") /\ UNCHANGED status
    /\ UNCHANGED <<input, modules, phase>>

\* A built-in module the library does not have is passed over without an error.
NotInLibrary ==
    /\ Running("read")
    /\ Top.module \in Names \ Lib
    /\ stack' = Pop
    /\ UNCHANGED <<input, modules, phase, status>>

\* Seeded fault: an error is taken for a module without declarations.
ReadFailsSilently ==
    /\ Running("read")
    /\ Top.module \in Sources \cup Lib
    /\ disk[Top.module].bad
    /\ modules' = modules \cup {Top.module}
    /\ stack' = Pop
    /\ UNCHANGED <<input, phase, status>>

\* os.ReadFile or ParseModule fails; a text is not parsed.
ReadFails ==
    /\ Running("read")
    /\ Top.module \in Sources \cup Lib
    /\ disk[Top.module].bad
    /\ status' = "error"
    /\ UNCHANGED <<input, modules, stack, phase>>

\* loadTextModule.
ReadText ==
    /\ Running("read")
    /\ Top.module \in Texts
    /\ ~disk[Top.module].bad
    /\ modules' = modules \cup {Top.module}
    /\ stack' = Pop
    /\ UNCHANGED <<input, phase, status>>

ReadBuiltin ==
    /\ Running("read")
    /\ Top.module \in Names \cap Lib
    /\ ~disk[Top.module].bad
    /\ modules' = modules \cup {Top.module}
    /\ stack' = Goto("imports")
    /\ UNCHANGED <<input, phase, status>>

\* Seeded fault: a file is recorded before its imports, as a built-in module is.
ReadFileEarly ==
    /\ Running("read")
    /\ Top.module \in Files
    /\ ~disk[Top.module].bad
    /\ modules' = modules \cup {Top.module}
    /\ stack' = Goto("imports")
    /\ UNCHANGED <<input, phase, status>>

ReadFile ==
    /\ Running("read")
    /\ Top.module \in Files
    /\ ~disk[Top.module].bad
    /\ stack' = Goto("imports")
    /\ UNCHANGED <<input, modules, phase, status>>

\* A text is not parsed: it imports nothing.
Imports(m) == IF m \in Texts THEN <<>> ELSE disk[m].imports

\* Seeded fault: the loop does not get past its first import.
FollowFirstImport ==
    /\ Running("imports")
    /\ Top.next <= Len(Imports(Top.module))
    /\ LET import == Imports(Top.module)[Top.next]
       IN  IF import \in Sources \cup Lib
           THEN Call(stack, import)
           ELSE status' = "error" /\ UNCHANGED stack
    /\ UNCHANGED <<input, modules, phase>>

\* resolveImport and the call that follows it.  A name of two letters that is not
\* in the library is sliced beyond its end.
FollowImport ==
    /\ Running("imports")
    /\ Top.next <= Len(Imports(Top.module))
    /\ LET import == Imports(Top.module)[Top.next]
       IN  IF import \in Sources \cup Lib
           THEN Call(AfterImport, import)
           ELSE /\ status' = IF import \in ShortNames THEN "panic" ELSE "error"
                /\ UNCHANGED stack
    /\ UNCHANGED <<input, modules, phase>>

\* The end of both functions.
Return ==
    /\ Running("imports")
    /\ Top.next > Len(Imports(Top.module))
    /\ modules' = modules \cup {Top.module}
    /\ stack' = Pop
    /\ UNCHANGED <<input, phase, status>>

Idle(p) == status = "loading" /\ stack = <<>> /\ phase = p

\* Seeded fault: the scan for SQL comes before the modules are loaded.
CompileScansFirst ==
    /\ status = "loading" /\ stack = <<>>
    /\ \/ /\ Idle("index") /\ Call(stack, "prelude") /\ phase' = "prelude"
       \/ /\ Idle("prelude")
          /\ IF NeedsSqlite
             THEN Call(stack, "sqlite") /\ phase' = "entry"
             ELSE Call(stack, Entry) /\ phase' = "sqlite"
       \/ /\ Idle("entry") /\ Call(stack, Entry) /\ phase' = "sqlite"
       \/ /\ Idle("sqlite") /\ status' = "done" /\ UNCHANGED <<stack, phase>>
    /\ UNCHANGED <<input, modules>>

\* Compile: the prelude, the entry, and sqlite when some module has SQL.
Compile ==
    /\ \/ /\ Idle("index") /\ Call(stack, "prelude") /\ phase' = "prelude"
       \/ /\ Idle("prelude") /\ Call(stack, Entry) /\ phase' = "entry"
       \/ /\ Idle("entry") /\ NeedsSqlite /\ Call(stack, "sqlite") /\ phase' = "sqlite"
       \/ /\ Idle("entry") /\ ~NeedsSqlite /\ status' = "done" /\ UNCHANGED <<stack, phase>>
       \/ /\ Idle("sqlite") /\ status' = "done" /\ UNCHANGED <<stack, phase>>
    /\ UNCHANGED <<input, modules>>

Finished == status # "loading" /\ UNCHANGED vars

Next ==
    \/ AlreadyLoaded \/ LoadBridge \/ NotInLibrary
    \/ ReadFails \/ ReadText \/ ReadBuiltin \/ ReadFile
    \/ FollowImport \/ Return \/ Compile \/ Finished

\* Nothing but the loader runs, and no step of it waits.
Spec == Init /\ [][Next]_vars /\ WF_vars(Next)

-----------------------------------------------------------------------------
\* A reference definition of a program's modules, as sets instead of a recursion:
\* the smallest set that has the modules it starts with and all that they need.
Needs(m) ==
    {i \in ToSet(Imports(m)) : m \in Sources \cup Lib /\ i \in Sources \cup Lib}
        \cup {i \in {"interop"} : m \in Names /\ NeedsHostBridge(m)}
Covers(S, start) == start \subseteq S /\ \A m \in S : Needs(m) \subseteq S
Reach(start) ==
    CHOOSE S \in SUBSET Modules : Covers(S, start) /\ \A T \in SUBSET S : Covers(T, start) => T = S
Program == Reach({"prelude", Entry}) \cap (Sources \cup Lib)
Needed ==
    IF \E m \in Asked(Program) : disk[m].sql
    THEN Reach({"prelude", Entry, "sqlite"}) \cap (Sources \cup Lib)
    ELSE Program

\* The scan of declarations finds the SQL of a module, wherever its author has
\* written it.
ScanFindsSql ==
    \A p \in Programs : \A m \in Asked(Modules) : HasSql(DeclaredIn(p, m)) <=> p[m].sql

\* A module that cannot be loaded: unreadable, not parsable, or with an import
\* that names nothing.
Faulty(m) == disk[m].bad \/ ~(ToSet(Imports(m)) \subseteq Sources \cup Lib)

\* Some of these files import each other in a circle: each imports one of them.
FileImports(f) == ToSet(Imports(f)) \cap Files
HasCircle(fs) == \E C \in SUBSET fs \ {{}} : \A f \in C : FileImports(f) \cap C # {}

\* When Compile goes on to the type checker it has the modules of the program,
\* all of them and no other, with what SQL, wherever it stands, and the host bridge
\* need.
LoadedExactly == status = "done" => modules = Needed

\* A file is recorded after everything it imports: the recorded files never
\* import one that is missing, whatever the loader is in the middle of.
DependenciesFirst == \A m \in modules \cap Files : ToSet(Imports(m)) \subseteq modules

\* Files that import each other in a circle are not accepted, and nothing else
\* exhausts the stack.
OnlyCirclesOverflow ==
    /\ status = "done" => ~HasCircle(Needed \cap Files)
    /\ status = "overflow" => HasCircle(Needed \cap Files)

\* Compile fails exactly for a module of the program that cannot be loaded: no
\* fault is swallowed on the way up, and none is reported that the program has not.
FaultsReported ==
    /\ status = "done" => \A m \in Needed : ~Faulty(m)
    /\ status \in {"error", "panic"} => \E m \in Needed : Faulty(m)

\* An extern function has code: in the WAT file, or it is one of the numeric ones
\* that the code generator imports from the host as they are.
HasCode(d, m) ==
    d[4] \in disk[m].wat[1] \/ \A t \in ToSet(d[5]) \cup {<<"result", d[6]>>} : t[2] # <<"named", "string">>

WithWAT == {m \in modules \cap Names : disk[m].wat # <<>>}
Externs(m) == {d \in ToSet(disk[m].decls) : d[1] = "extern"}
CallsOf(f, m) == disk[m].leaf = <<"call", <<"ident", f[4]>>, <<>>, <<>>>>

\* Of a library just those functions are left out that call an extern function
\* without code, and that function: what is left calls nothing that was removed,
\* unless the call stands in a block expression, in markup or in a parameter of SQL,
\* where it is not seen.
OnlyCodelessLeftOut ==
    status = "done" =>
        \A m \in WithWAT :
            LET left == ToSet(Declarations(m))
                codeless == {f \in Externs(m) : ~ HasCode(f, m)}
                hidden == disk[m].inside \cap {"block", "jsx", "fragment", "sql"} # {}
            IN  \A d \in ToSet(disk[m].decls) :
                    /\ d \notin left => \E f \in codeless : d = f \/ CallsOf(f, m)
                    /\ d \in codeless \/ (d[1] = "function" /\ ~ hidden /\ \E f \in codeless : CallsOf(f, m))
                           => d \notin left

\* Compile comes to an end, if only because the stack does.
LoadEnds == <>(status # "loading")
=============================================================================
