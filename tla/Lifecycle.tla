------------------------------ MODULE Lifecycle ------------------------------
(***************************************************************************)
(* The commands build, run and launch: from the source to the files, from     *)
(* the files to a running program, and from what the program logs to stdout.   *)
(* A program buffers what it logs in its Runtime; the buffer is printed when   *)
(* the program has ended well or is about to serve.  run_sandbox runs another  *)
(* program in a Runtime of its own.  A command may be killed at any point.     *)
(*                                                                         *)
(* A program is any sequence of what programs can do here: log, run a          *)
(* sandbox, log what the sandbox gave, ask for a server, trap, return.         *)
(***************************************************************************)
EXTENDS Integers, Sequences, SequencesExt

CONSTANTS
    MaxEdits,   \* bound: how often the source is changed
    MaxLogs     \* bound: how much the program and its sandboxes log

ASSUME BoundsAssumption == MaxEdits \in Nat \ {0} /\ MaxLogs \in Nat

VARIABLES
    source,     \* the version of the source
    wat, wasm,  \* the version in each file; 0 is none, -1 a file cut short
    cmd, phase, \* the command and how far it is; "none" between commands
    code,       \* the version of the code that the command has
    output,     \* the buffer of the program's Runtime
    pending,    \* the program has asked for a server
    sandboxed,  \* a sandbox runs, in a Runtime whose buffer is inner
    inner,
    result,     \* what run_sandbox returned last: the sandbox's output, or <<>>
    stdout, exit,
    said        \* ghost: what the program itself has logged

files == <<source, wat, wasm>>
box == <<sandboxed, inner, result>>
run == <<output, pending, box, said>>
vars == <<files, cmd, phase, code, run, stdout, exit>>

Init ==
    /\ source = 1 /\ wat = 0 /\ wasm = 0
    /\ cmd = "none" /\ phase = "idle" /\ code = 0
    /\ output = <<>> /\ pending = FALSE /\ sandboxed = FALSE /\ inner = <<>> /\ result = <<>>
    /\ stdout = <<>> /\ exit = 0 /\ said = <<>>

\* The user changes the source, when no command runs.
Edit ==
    /\ phase = "idle" /\ source < MaxEdits
    /\ source' = source + 1
    /\ UNCHANGED <<wat, wasm, cmd, phase, code, run, stdout, exit>>

\* main: the command line is read.
Start ==
    /\ phase = "idle"
    /\ cmd' \in {"build", "run", "launch"}
    /\ phase' = IF cmd' = "launch" THEN "read" ELSE "compile"
    /\ code' = 0 /\ stdout' = <<>> /\ exit' = 0
    /\ output' = <<>> /\ pending' = FALSE /\ sandboxed' = FALSE /\ inner' = <<>> /\ result' = <<>>
    /\ said' = <<>>
    /\ UNCHANGED files

Exit(status) == phase' = "idle" /\ exit' = status

\* buildCmd, runCmd: Compile gives the code or an error.
Compile ==
    /\ phase = "compile"
    /\ \/ /\ phase' = IF cmd = "build" THEN "writeWat" ELSE "instantiate"
          /\ code' = source
          /\ UNCHANGED exit
       \/ Exit(1) /\ UNCHANGED code
    /\ UNCHANGED <<files, run, cmd, stdout>>

\* os.WriteFile: the file is made empty and written; it may fail before or between.
Write(old, new) == new \in {old, -1}

\* Seeded fault (of WriteWat): an error of the first write is ignored.
WriteWatUnchecked ==
    /\ phase = "writeWat"
    /\ wat' = code \/ Write(wat, wat')
    /\ phase' = "writeWasm"
    /\ UNCHANGED <<source, wasm, run, cmd, code, stdout, exit>>

WriteWat ==
    /\ phase = "writeWat"
    /\ \/ wat' = code /\ phase' = "writeWasm" /\ UNCHANGED exit
       \/ Write(wat, wat') /\ Exit(1)
    /\ UNCHANGED <<source, wasm, run, cmd, code, stdout>>

\* Seeded fault (of WriteWasm): an error of the second write is ignored.
WriteWasmUnchecked ==
    /\ phase = "writeWasm"
    /\ \/ wasm' = code
       \/ Write(wasm, wasm')
    /\ Exit(0)
    /\ UNCHANGED <<source, wat, run, cmd, code, stdout>>

WriteWasm ==
    /\ phase = "writeWasm"
    /\ \/ wasm' = code /\ Exit(0)
       \/ Write(wasm, wasm') /\ Exit(1)
    /\ UNCHANGED <<source, wat, run, cmd, code, stdout>>

\* launchCmd: what is in the file is the code.
Read ==
    /\ phase = "read"
    /\ IF wasm = 0 THEN Exit(1) /\ UNCHANGED code
       ELSE phase' = "instantiate" /\ code' = wasm /\ UNCHANGED exit
    /\ UNCHANGED <<files, run, cmd, stdout>>

\* runWithArgs up to _start: a new Runtime, the module, its imports and the
\* default database.  A file that was cut short fails here, or does not: cut
\* before its data section, say, it is a module like any other.
Instantiate ==
    /\ phase = "instantiate"
    /\ \/ phase' = "start" /\ UNCHANGED exit
       \/ Exit(1)
    /\ UNCHANGED <<files, run, cmd, code, stdout>>

-----------------------------------------------------------------------------
Running == phase \in {"start", "serving"}
Item == Len(said) + Len(inner) + 1

\* fd_write: the text goes to the buffer of the Runtime whose program runs.
Log(items) ==
    /\ output' = output \o items
    /\ said' = said \o items
    /\ UNCHANGED inner
LogInner(items) ==
    /\ inner' = inner \o items
    /\ UNCHANGED <<output, said>>
LogText ==
    /\ Running /\ Item <= MaxLogs
    /\ IF sandboxed THEN LogInner(<<<<"sandbox", Item>>>>) ELSE Log(<<<<"program", Item>>>>)
    /\ UNCHANGED <<files, cmd, phase, code, pending, sandboxed, result, stdout, exit>>

\* The program logs the stdout that run_sandbox returned, as the playground does.
LogResult ==
    /\ Running /\ ~ sandboxed /\ result # <<>> /\ Item <= MaxLogs
    /\ Log(result)
    /\ UNCHANGED <<files, cmd, phase, code, pending, sandboxed, result, stdout, exit>>

\* run_sandbox: the source is compiled for the gc backend and run with a new
\* Runtime; when that cannot be, an error is returned to the program.
Sandbox ==
    /\ Running /\ ~ sandboxed
    /\ sandboxed' \in BOOLEAN
    /\ inner' = <<>> /\ result' = <<>>
    /\ UNCHANGED <<files, cmd, phase, code, output, pending, stdout, exit, said>>

\* Seeded fault (of SandboxEnds): the output of the sandbox is printed.
SandboxPrints ==
    /\ Running /\ sandboxed
    /\ stdout' = stdout \o inner
    /\ sandboxed' = FALSE /\ inner' = <<>> /\ result' = inner
    /\ UNCHANGED <<files, cmd, phase, code, output, pending, exit, said>>

\* The sandbox returns, whatever its main returned, or traps: its output is the
\* result of the call, or is dropped.
SandboxEnds ==
    /\ Running /\ sandboxed
    /\ sandboxed' = FALSE /\ inner' = <<>>
    /\ result' \in {inner, <<>>}
    /\ UNCHANGED <<files, cmd, phase, code, output, pending, stdout, exit, said>>

\* httpListen, which only the host backend calls: a sandbox never does.
Listen ==
    /\ phase = "start" /\ ~ sandboxed
    /\ pending' = TRUE
    /\ UNCHANGED <<files, cmd, phase, code, output, box, stdout, exit, said>>

\* main returns: nothing, or an error, which _start keeps in __main_result and
\* no one looks at.
MainReturns ==
    /\ phase = "start" /\ ~ sandboxed
    /\ phase' = IF pending THEN "flush" ELSE "return"
    /\ UNCHANGED <<files, cmd, code, output, pending, box, stdout, exit, said>>

\* A trap ends the program, and its output is not printed.  (In a handler it
\* ends the request only, see HttpRuntime.)
Trap ==
    /\ phase = "start" /\ ~ sandboxed
    /\ Exit(1)
    /\ UNCHANGED <<files, run, cmd, code, stdout>>

\* Seeded fault (of Flush): the buffer is not emptied.
FlushKeeps ==
    /\ phase = "flush"
    /\ stdout' = stdout \o output /\ phase' = "serving"
    /\ UNCHANGED <<files, run, cmd, code, exit>>

\* Seeded fault (of Flush): nothing is printed before the server starts.
FlushNothing ==
    /\ phase = "flush" /\ phase' = "serving"
    /\ UNCHANGED <<files, run, cmd, code, stdout, exit>>

\* StartPendingServer: print and empty the buffer, then serve.
Flush ==
    /\ phase = "flush"
    /\ stdout' = stdout \o output
    /\ output' = <<>>
    /\ phase' = "serving"
    /\ UNCHANGED <<files, cmd, code, pending, box, exit, said>>

\* ListenAndServe only ever returns an error: the port is taken, say.
ServingFails ==
    /\ phase = "serving" /\ ~ sandboxed
    /\ Exit(1)
    /\ UNCHANGED <<files, run, cmd, code, stdout>>

\* RunWithArgs returns the output, and the command prints it.
Return ==
    /\ phase = "return"
    /\ stdout' = stdout \o output
    /\ Exit(0)
    /\ UNCHANGED <<files, run, cmd, code>>

\* The process is killed; a file that is being written may be cut short.
Kill ==
    /\ phase # "idle"
    /\ Exit(9)
    /\ IF phase = "writeWat" THEN Write(wat, wat') ELSE UNCHANGED wat
    /\ IF phase = "writeWasm" THEN Write(wasm, wasm') ELSE UNCHANGED wasm
    /\ UNCHANGED <<source, run, cmd, code, stdout>>

Next ==
    \/ Edit \/ Start \/ Compile \/ WriteWat \/ WriteWasm \/ Read \/ Instantiate
    \/ LogText \/ LogResult \/ Sandbox \/ SandboxEnds \/ Listen \/ MainReturns \/ Trap
    \/ Flush \/ ServingFails \/ Return \/ Kill

Spec == Init /\ [][Next]_vars

-----------------------------------------------------------------------------
Items == {"program", "sandbox"} \X Nat
Texts == Seq(Items)
Before == {"compile", "read", "writeWat", "writeWasm", "instantiate"}
Executing == {"start", "serving", "flush", "return"}

TypeOK ==
    /\ phase \in {"idle"} \cup Before \cup Executing /\ cmd \in {"none", "build", "run", "launch"}
    /\ source \in 1 .. MaxEdits /\ wat \in -1 .. source /\ wasm \in -1 .. source /\ code \in -1 .. source
    /\ output \in Texts /\ inner \in Texts /\ result \in Texts /\ stdout \in Texts /\ said \in Texts
    /\ pending \in BOOLEAN /\ sandboxed \in BOOLEAN /\ exit \in {0, 1, 9}
    /\ phase \in Executing \cup {"instantiate", "read"} => cmd # "build"

\* What is printed is what the program itself logged, in that order and once:
\* nothing a sandbox logs gets out but through the program.
PrintsWhatWasSaid == IsPrefix(stdout, said)

\* A program that ends well has printed all it logged, and while one serves,
\* what is not printed yet is all in the buffer, once.
NothingHeldBack ==
    /\ phase = "idle" /\ exit = 0 /\ cmd \in {"run", "launch"} => stdout = said
    /\ phase = "serving" => stdout \o output = said

\* What was logged before the server starts is printed before it does, because
\* the server never ends well.
PrintsBeforeServing == [][phase # "serving" /\ phase' = "serving" => stdout' = said]_vars

\* Builds that failed or were killed, one after another, may leave two files of
\* different sources, but never a .wasm that is newer than a whole .wat beside it:
\* buildCmd writes the .wat first, and stops when it cannot.
WasmNotNewer == wat # -1 => wasm <= wat

\* A build that reports success leaves two files of the same source.
BuildsPairs == phase = "idle" /\ cmd = "build" /\ exit = 0 => wat = code /\ wasm = code /\ code # 0

-----------------------------------------------------------------------------
(***************************************************************************)
(* Why it is so: the invariant that is inductive.                            *)
(***************************************************************************)
\* Where the code and the files are, stage by stage.
CodeInv ==
    /\ phase \in {"writeWat", "writeWasm"} => code = source
    /\ phase = "writeWasm" => wat = code
    /\ WasmNotNewer
    /\ BuildsPairs

\* Where the output is: in the program's buffer, then on stdout.
OutputInv ==
    /\ phase \in Before => stdout = <<>> /\ output = <<>> /\ said = <<>>
    /\ phase \in {"start", "flush", "return"} => stdout = <<>> /\ output = said
    /\ NothingHeldBack /\ PrintsWhatWasSaid

IInv == TypeOK /\ CodeInv /\ OutputInv

=============================================================================
