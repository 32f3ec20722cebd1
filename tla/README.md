# TunaScript in TLA+

This directory models TunaScript, a compiler from a TypeScript-like language to
WebAssembly with a formatter and a host runtime with SQLite and HTTP servers:
from the characters of a source file to the requests that a running program
answers. Modules are checked with TLC on small instances; the main results about
the runtime, the commands, the module loader, the lexer and assignability are
proved with TLAPS for every value of the constants. Paths below are relative to `src/`, which holds the repository.

## 1. The system

A `.tuna` program is loaded with the modules it imports (`internal/compiler`),
parsed (`internal/lexer`, `internal/parser`), checked (`internal/types`),
translated to WebAssembly text together with the library (`lib/*.wat`,
`internal/compiler/generator.go`) and run by wasmtime. With `--backend=host`
the runtime of `internal/runtime` supplies values, SQLite, files and HTTP.

| Component | State it keeps | Operations | Correct when |
|---|---|---|---|
| HTTP request execution (`runtime.go`) | `db`, `currentTx`, `handlerMu`, `pendingServer`, one local `tx` per invocation | `StartPendingServer`'s callback, `invokeRouteHandler`, SQL statements, `db_open`, `server.gc` | each request takes effect at once or not at all; nothing outlives its handler; every request is answered |
| Route table (`runtime.go`) | `server.routes`: method, then pattern, to handler | `add_route`, `resolveRouteByMethod`, `resolveRoute`, `matchRoutePattern` | the result does not depend on map iteration order and follows the precedence |
| Store GC policy (`runtime.go`) | `gcReqCount`, `gcLastHeap`, `gcLastAt` | `maybeStoreGC` | garbage between two collections is bounded |
| Schema initialisation (`runtime.go`, `generator.go`) | `tableDefs`, `db`, the database files | `register_tables`, `initAndValidateTables`, `db_open` | an open database has the declared tables; tables that exist are never altered |
| Program life cycle (`runner.go`, `cmd/tuna`) | output buffer, `__inited`, `__main_result`, the built files | build, run, launch, `_start`, flush, serve, `run_sandbox` | what the program logs is what is printed; a build that succeeds leaves a pair of files |
| Value bridge (`runtime.go`) | host values behind externref, interned strings | `newValue`, `objGet`, `arrPush`, ... | values survive the crossing |
| Module loader (`compiler.go`) | loaded modules, library index, the recursion | `Compile`, `loadRecursive`, `loadBuiltinModule`, `resolveImport`, the searches for SQL and for calls without code | exactly the modules of the program, imports first, or a fault it has |
| Type checker (`checker.go`, `types.go`) | scopes, symbols, types of expressions | `AssignableTo`, `NewUnion`, narrowing, SQL checks | assignability is sound |
| Code generator (`generator.go`) | globals, string data, table definitions | `emitInit`, handler wrappers, `emitStart` | constants are initialised before use |
| Lexer (`lexer.go`) | position, the token peeked at, comments | `Next`, `Peek`, copies for going back | every character read once, every comment kept once, literals read as written |
| Parser (`parser.go`, `ast.go`) | current token, lexer, errors | one function per construct | chains grouped by precedence, lines that are statements stay apart, an end for every input |
| Formatter (`formatter.go`) | output, comments printed so far | `Format`, one function per node | formatting keeps the program and its comments, and a second time moves nothing but second lines of comments |
| Prelude and libraries (`lib/*.wat`) | heap pointer, trace stack, interned constants | allocation, strings, arrays, JSON, routes of the gc backend | no overlap in memory; the trace stack matches the calls |

How they interact: `main` runs inside `_start`, calls host functions, and
`http.listen` only stores the server. When `_start` has returned the Runner
forces a GC and enters `ListenAndServe`. From then on net/http starts a
goroutine per request; each calls `invokeRouteHandler`, which takes `handlerMu`,
begins a transaction, publishes it in the shared pointer `currentTx`, calls the
handler in the one WebAssembly instance (which calls back into the SQL functions)
and commits or rolls back. `db_open` can be called by `main` and by handlers and
replaces `db` for all. Several processes may share a database file.

Hard behaviours: many goroutines and one instance; handlers that end in five
ways (response, error value, trap, host panic, failed commit); `db_open` while
the caller's transaction is open; check-then-create of tables without a
transaction; processes killed between two statements; map iteration order; a
heap that Go's collector shrinks behind the policy's back.

`PROJECT.json` lists the hazards at their lines with the properties that cover
them, or the reason why none does.

## 2. Modules

| Module | Models | Composes |
|---|---|---|
| `SerialStore` | abstract: what a server promises its clients | |
| `HttpRuntime` | `invokeRouteHandler`, its callers and the SQL and database calls it shares with `main` | `Serial == INSTANCE SerialStore` (refinement mapping) |
| `RouteTable` | registration and lookup of routes | |
| `GcPolicy` | `maybeStoreGC` in detail | `HttpRuntime` has its counter only |
| `SchemaInit` | start of a process, `register_tables`, `db_open`, the table loop | |
| `Lifecycle` | the commands build, run and launch, the output of a program and of its sandboxes | |
| `ModuleLoader` | `Compile` up to the type checker | the searches as constants; `MCModuleLoader` joins it with `DeclScan` |
| `DeclScan` | operators: the compiler's searches through declarations | |
| `Chars` | operators: characters of a text, columns, what stands before a place on its line | |
| `Scanner` | operators: the lexer character by character | `Chars` |
| `Lexer` | the lexer as the parser drives it | `Scanner` |
| `Tokens`, `Parser`, `Formatter`, `Ast` | operators: texts of tokens, the parser, the printer, the syntax tree | `Tokens` |
| `Misprints` | operators: the forms of a syntax tree that the printer does not print so that they are read back | `Formatter`, `Ast` |
| `Escapes` | operators: what the formatter writes for strings and templates | `Scanner` |
| `Literals` | operators: literals inside one another, as they are printed and read | `Escapes` |
| `Comments` | operators: where the formatter puts comments | |
| `Format` | `tuna format --write` again and again on a file | `Parser`, `Misprints`, `Lit == INSTANCE Literals`, `Com == INSTANCE Comments` |
| `Types` | operators: types, `NewUnion`, and one level of `Equals` and of `AssignableTo` | |
| `TypeRelations` | operators that close the recursion: `Equals`, `AssignableTo`; `bindTypeParams` | `Types` |
| `Assignment` | values that go from constant to constant | `Types`; the relations as constants, `MCAssignment` joins it with `TypeRelations` |
| `MC...` | model values, symmetry and bounds for TLC | each EXTENDS its module |
| `..._proofs` | theorems and proofs | each EXTENDS its module and TLAPS |

### HttpRuntime

Rows of a database are abstracted to their last writer (`Keys`, `Writers`), so
that the effect of each request stays visible. `store[d]` is what is committed
in database `d`; `txView[r]` is the snapshot plus own writes of `r`'s
transaction. The variables carry the names of the Runtime's fields (`db`,
`currentTx`, `handlerMu`, `gcReqCount`); `pc[r]` is the position of the
goroutine of `r`:

| `pc` | in the code | left by |
|---|---|---|
| `idle` | request not sent | `Arrive` |
| `waiting` | blocked in `handlerMu.Lock()` | `Lock` |
| `locked` | route lookup, test of `r.db`, `Begin` | `RouteNotFound`, `NoTransaction`, `Begin` |
| `running` | in the handler; `Fetch`, `Execute`, `DbOpen`, `AddRoute`, `ServerGc` | `HandlerFails`, `CommitFails`, `Commit` |
| `unwinding` | result known, deferred calls pending | `Unwind` |
| `answering` | back in the callback | `Answer` |

`OpenDB` is shared by `MainDbOpen` and `DbOpen`; `WriteRow` and `Visible` are the
executor choice of `currentExecutor`. `BadFiles` stands for files that cannot be
opened or whose tables do not validate; `HasTables` decides whether `openDB`
notices (`sql.Open` does not touch the file, the table loop does). Each step
holds `handlerMu` or touches only the local goroutine, except `Arrive`, `Lock`
and `Answer`, so the grain of atomicity is one SQL statement.

Not in the model: what SQL computes, other processes writing to the same file
while the server runs (their conflicts are covered by `CommitFails` and by
statements that fail), several servers in one program (`routes` are those of the
server that was passed to `listen` last).

### SchemaInit

One action per SQL statement of `initAndValidateTables` (`TableExists`,
`Validate`, `Create`), for processes that share files and can be stopped
anywhere (`Stop`). A table is absent, matches its definition or has another
shape; that is all `validateTableStructure` tells apart. Initially files hold any
mixture, and another program, or another version of this one, may at any time
create in a file a table of a declared name (`OtherProgram`). `missed` is history.
Every statement of the loop may also fail (`LoopFails` as an alternative of
`TableExists`, `Validate` and `Create`): the file cannot be opened, is no
database, or is locked. The statements of programs are
taken to leave `CREATE`, `ALTER` and `DROP` of declared tables to the runtime:
the language does not forbid a program to drop a declared table itself, and then
nothing here applies.

### RouteTable

A path is the sequence of its segments; what the tie-break reads of the
characters (length and lexicographic rank) are constants with the assumptions
that make them such. One action per iteration of `range` (`Visit`), on any entry
not yet visited, is Go's map order.

### GcPolicy

Heap and clock are bounded integers that the environment moves between
evaluations; `answered`, `handled`, `low` and `checked` are history. Subtraction
is guarded as in the code, so the unsigned types do not wrap.

### Lifecycle

`phase` is how far the command is: `compile`, `writeWat` and `writeWasm` of
`buildCmd`; `read` of `launchCmd`; `instantiate`, `start`, `return` of
`runWithArgs`; `flush` and `serving` of `StartPendingServer`. A program is any
sequence of logging, running a sandbox, logging what it gave, asking for a
server, trapping and returning. `output` and `inner` are the buffers of the two
Runtimes that exist while `run_sandbox` runs. `said` is history. Whether `main`
returns an error makes no difference to the process (see Findings). A
process may be killed anywhere, and a write may fail before or after the file
was emptied. A file cut short may still be a module that wasmtime accepts (before
its data section, say), so `Instantiate` takes whatever it is given, or refuses it.
`formatCmd` is not in it.

### ModuleLoader and DeclScan

`stack` is what the calls of `loadRecursive` and `loadBuiltinModule` have on Go's
stack: one action per return of a call or step between two calls. `Modules` is
the compiler's map, in the order of recording. `disk` is what is in the files: for
each its imports, its declarations as syntax trees, the WAT of a library, whether
it can be read. It is one of the constant `Programs`; where `lib` is found is one
of `LibPlaces`. Whether a program needs `sqlite` and which functions of a library
are left out are decided by the searches of `DeclScan`, over the trees themselves.
The searches are recursive, so `ModuleLoader` has them as operator constants,
`HasSql` and `WithCode`, to which `ModuleLoader.cfg` gives `ModuleNeedsSqlite` and
`Filter`: what is checked is the loader with its searches, what is proved holds for
any.
The overflow of Go's stack is a depth of `MaxDepth` calls, more than a program
without circles can reach. `leaf`, `inside` and `sql` are history that says how the
trees were made, so that the properties need no second search.

### Scanner, Lexer, Escapes and Literals

A text is a sequence of characters; those that are treated alike are represented
by one (a letter, a digit), and the words that begin an SQL block by single
characters. `Scanner` says what is read at a place: the space before a token
(`SkipSpace`) and the token (`Scan`). Each of the code's loops is the function of
one round (`SkipRound`, `BlockRound`, ...), and `Loop` applies it as often as the
text has characters: a round either leaves the state as it is, which ends the
loop, or goes on by a character. `Lexer` has `Next`, `Peek`, and `Save`, `Restore`
and `Commit` for the copies that `tryParseCallTypeArgs` and
`parseSwitchCasePattern` make. `Escapes` has the formatter's
escapes for a string and for a template, whose expressions are texts; `Literals`
closes the recursion (an expression may be a literal), and reads what is written
back with `Scanner`; `Format` steps through its literals.

### Parser, Formatter and Format

The parser is a function from tokens to a tree, with the lookahead and the
re-lexing of templates and SQL parameters it does, the line each span ends on,
and the loops that may not end. The formatter is a function from trees to
tokens. `Format` is the command on one file: read, parse, print, write, again. It
looks at a file in one of four ways (`view`): a program as tokens, any short
sequence of tokens, a literal character by character, a layout of statements and
comments. A text is cut in tokens, with their line breaks; those of an SQL block
count, since a `(` or `[` continues an expression on the line where its span ends.
Not told apart: the layout of a list over one line or several, which no rule of the
parser looks at within brackets, indentation outside of comments, and the values of
numbers (a float with and one without a fraction are enough to see that the latter
is printed as an integer).

The printer puts parentheses around an operation in an operation and around a union
in an array, and nowhere else. `Misprints` names, one definition each, the forms that
come back as another program or not at all (lines of `internal/formatter/formatter.go`
and `internal/parser/parser.go`):

* `NotPrinted`: `undefined`, an expression in `${...}` that did not parse, and the
  pattern of `case { a } as T`, for which `FormatExpr` has no case;
* `OperandExposed`: `(a + b).m`, `(-a)?`, `(a + b) as T`, `(a as T)[i]`, a function
  with an expression for a body before `.`, `(`, `[`, `?` or `as`;
* `SignOfOperation`: `-(a + b)`; `LeftOperandExposed`: such a function, or `a as T`
  before `<` or `|`, as the left operand of an operation;
* `MemberOfNumber`: `(1).m`, whose point becomes part of the number;
* `ContinuedTooLate`: a call or index after an SQL block or a template of several
  lines, whose span ends before its last line;
* `LikeTypeArgs`: `f(b < c, d > (e + g))`, read as a call with type arguments;
* `BodyLikeBlock`, `CaseLikeBlock`, `StatementLikeOther`: what begins with `{` or `if`
  where a block or a statement may stand;
* `CaseLikeBinding`: a case whose pattern begins like a binding;
* `TextOfMarkup`: the text of a `style` element, and text in quotes that looks like
  markup;
* `ParameterOfSQL`: a `?` in SQL beside parameters, and a parameter that begins with
  what the lexer takes for SQL;
* `WholeFloat`: `1.0`, printed with `%g` as `1`;
* `StatementsJoined`: a statement that begins with `+`, `-`, `<`, and one that begins
  with `(` or `[` behind one whose last literal has a span up to the next token
  (array, object, function, `if`, `switch`, markup), or `[` behind `as T`;
* `FunctionInArray`, `MemberExposed`, `ParameterWithoutName`: a function type in an
  array, not last in a union, or with a parameter that has no name;
* `ParameterWithoutType` of a declared function, and `PathWithEscape`: an import path
  goes out as it is.

`ProgramKept` is that a program with none of these comes back unchanged, and
`AlwaysParses` that only these fail to be read again: the list is complete, for the
programs of the run, and a form that is missing from it is a counterexample. That
each form does go wrong is not checked.

Of some texts the parser makes a tree that is not what the author meant, or drops
tokens, without an error: the closing tag of an element need not have the name of the
opening one, what follows the expression in `${...}` or in a parameter of SQL is
dropped with its errors and comments (`parser.go:706-711`), type arguments without a
call on the same line are (`parser.go:581-589`), and the name behind `create_table`
is in the text of no token (`lexer.go:106-116`). The formatter then writes what the
parser has read; the properties begin with the module, and say nothing of what
was lost on the way to it. A NUL in a template, by which the lexer joins the segments
and the parser splits them (`parser.go:704`), an integer too large for 64 bits, `--`
in SQL and a `?` in a string of SQL are not among the texts.

### Comments

A text is a sequence of statement heads, statement ends, line breaks and
comments. The lexer's list with lines and columns, the spans of the statements
and the printer that weaves them are those of the code. A comment of two lines has
the indentation of its second one: `writeComment` puts that of the block before every
line, so that the second line moves to the right each time the file is formatted. A
file with a second line indented by more than `MaxIndent` is not formatted again.

### Types and Assignment

Types are tuples; `f64` and `i32` are left out, as they behave like `i64`.
`AssignableBy` is one level of `AssignableTo`, with the relation between the parts
of types as its argument, and `TypeRelations` closes the recursion. `Assignment`
says in the same way what values a type stands for (`HasBy`), and lets
`AssignableTo` move a value from constant to constant. `AssignableTo` passes over
three things (`NothingOverlooked`): what a map holds when it becomes another map
(`types.go:220-227`, so that a `Map<i64>` goes into a `Map<string>`, whereas
docs/spec.md:99 has all values of a `Map<T>` be of `T` and :139 has no implicit
conversions), that a function can take what it will be given under its new type
(`types.go:200-204` compares parameters like results), and generic functions, which
`bindTypeParams` compares by another rule. `Strict` is `AssignableTo` with these asked
for; `loose` is history and records whether a step was taken that it forbids. Without
`loose` each of the first two alone breaks `HasItsType`, and the first breaks `Direct`:
`{of: i64}` may become a `Map<i64>` and that a `Map<string>`, but not at once. `Equals`
compares type parameters by their names, the code by their addresses; no two functions
of the run have one of the same name.

## 3. Runs

| Run | Instance | Shows |
|---|---|---|
| `http_serial` | 2 requests, 2 rows, 1 path, 1 good and 1 bad file, no declared tables, handlers do not call `db_open` | `HttpRuntime` implements `SerialStore` |
| `http_reopen` | 2 requests, 1 row, 1 path that may have a route or none, declared tables, handlers call `db_open`, fairness | ownership of the transaction, no leaks, errors without effect, a reopening handler never succeeds, a lost database is lost for good, every request is answered |
| `gc_policy` | thresholds 3, 2 and 3; heap to 4, clock to 5 | bounds of `GarbageBounded` |
| `gc_handlers` (violation) | same | handlers that fail escape the policy |
| `schema_init` | 2 processes, 2 tables, 1 file and the in-memory databases | schema complete when opened, whatever fails and whoever else creates tables; a table that exists is never altered |
| `schema_consts` (violation) | 1 process, 1 table | SQL in constants runs before the tables exist |
| `route_table` | 5 patterns, 3 paths, 2 methods, at most 4 routes | determinate resolution, exact routes win |
| `lifecycle` | 2 versions of the source, 3 logged texts | stdout is what was said, nothing held back, successful builds leave pairs, the .wasm is never the newer file |
| `module_loader` | programs of 3 files, 1 text and 4 built-in modules with every library place; one file or one library with a leaf nested two deep in every position | exactly the program's modules, imports first, `sqlite` wherever SQL stands, only circles overflow, only functions without code are left out, the load ends |
| `lexer` | all texts of up to 3 to 5 characters from eight alphabets, one saved position | characters tiled by tokens, comments once, no token where a comment begins, inline comments after code (or a wide space) |
| `format` | 11,000 programs: 33 expressions of every kind inside every kind of expression and statement, three of them two deep, any two of 45 statements one after the other, types two deep; 41,000 token sequences of up to 4 tokens out of 14 from the start of an expression, and unclosed markup; strings and templates of up to 3 characters out of 10, with a string or a template inside; 7 programs in two layouts with two comments at every place | programs without a misprinted form come back, the others alone may not parse; chains are grouped, lines are statements, no literal or comment is lost, a second formatting moves nothing but second lines of comments |
| `assignment` | 49 types, 86 values | values have the type of their constant and detours make no difference, where nothing was passed over; unions are flat |

Why the bounds are enough. In `http_*`, `handlerMu` lets two goroutines
interfere at most pairwise: one holds it, the other has ended or waits; a third
would only wait longer. Two rows let a handler read one
and write another; two files beside `:memory:` let `db_open` succeed and fail.
The thresholds of `gc_policy` are larger than one, and heap and clock pass each
of them by at least one. Two processes and two tables reach the race on
`CREATE`, its loser's second attempt and a start that completes a half-made
schema. Four routes allow one table with three candidates for a path beside an
exact one, and two methods. The proofs remove these bounds where they exist.
Two versions of the source tell an old file from a new one; three texts are one
before, in and after a sandbox. Three files give circles of every length up to
three, diamonds, and a circle beside a path. The parser, the printer and the two
searches decide node by node, so that a construct in a construct shows what they
do at each border. The lexer keeps no state but its position, and its rules look
at no more than three characters at once. Two comments are enough for one to be
taken for another; a third meets no code that the second does not.

Bounds in the models: `MaxHeap`, `MaxTime`, `MaxRoutes` (a CONSTRAINT, of
`MCRouteTable`), `handled <= GcRequestInterval` in `HandlerErrs`, which stops
counting once the documented bound has been passed, `MaxDepth` (`ModuleLoader`),
`MaxSaved` (`Lexer`), `MaxIndent` (`Format`), `MaxEdits` and `MaxLogs` (`Lifecycle`).

Deadlock is checked in every run but `assignment`, where a value may stay where it
is: a server at rest, a process that has exited and a compiler that is done take
a step of their own.

Each module also defines seeded faults, marked as such: variants of an action
that a plausible bug would give. `PROJECT.json` names for every property one of
them that violates it.

### Fairness

`FairSpec` of `HttpRuntime` assumes strong fairness of `Lock` and weak fairness of
the steps after it. Go's scheduler runs every runnable goroutine, and
`sync.Mutex` hands the lock to a waiter that has starved for 1 ms, so a waiter
that is enabled again and again gets it. Weak fairness of `HandlerEnds` says that
handlers terminate; the language does not guarantee that, and a handler that
loops stops the server, by design of `handlerMu`. Nothing is assumed of `main` or
of clients.

`Spec` of `ModuleLoader` has weak fairness of `Next`: the compiler is one
sequential program that goes on as long as it can.

### Findings

* `gc_handlers`: docs/spec.md 13.1 evaluates the GC policy after each handler;
  `invokeRouteHandler` does so only after a commit.
* `schema_consts`: docs/spec.md 11.7 creates declared tables at program start;
  `emitInit` registers them after the initialisers of constants.

Other differences met while modelling. The models have them as the code has, and
they occur in the instances where the properties name them as exceptions; no run of
its own shows them.

* A comment calls `__main_result` what the Runner inspects; it does not.
* Spans of array, object, switch, if, function and markup literals end on the line of
  the next token (`parser.go:849`), so that a `(` or `[` that begins the next line
  continues the expression; docs/spec.md:492-493 has no such exception to lines
  being statements. `LinesAreStatements` makes it, by name (`SpanToNext`).
* The loop over type arguments skips a token after the comma.
* The printer changes programs in the ways that `Misprints` lists.
* Markup that is still open at the end of the file is parsed for ever.
* The second lines of comments move right at every formatting.
* The search for the end of `${...}` does not know templates.
* `AssignableTo` does not compare the element types of two maps (docs/spec.md:99, 139).

## 4. Proofs

`HttpRuntime_proofs` (any requests, rows, files, paths, flags):
`LockInv` says who holds the mutex and whose transaction `currentTx` is. It is
needed because `TransactionOwned` and `NothingLeaks` are not inductive: they do
not say that a transaction that is open is the one `currentTx` points to, nor
what `db_open` leaves of it. `EffectInv` adds that a row written by `r` is
visible to anybody else only if `r` has committed or called `db_open`. `TypeStep`,
`LockStep` and `EffectStep` have one step per action, and `Invariant` combines
them into `Spec => [](TypeOK /\ LockInv /\ EffectInv)`, from which
`TransactionOwned`, `NothingLeaks`, `ErrorLeavesNothing`, `ReopenNeverSucceeds`
and the action property `LostDatabaseIsFinal` follow. The last one speaks of every
step after the handler that lost the database, those between `Lock` and `Unlock`
included, where `invokeRouteHandler` tests `r.db`.

`Serializable`, `ASSUME HandlersReopen = FALSE PROVE Spec => ImplementsSerialStore`:
`SerialInv` says that the running handler's view is the open database under its
own writes. `RefinementStep` maps the steps of `main` to `Setup`, `Arrive` to
`Send`, `Commit` to `Commit`, the failing endings to `Abort`, `Answer` to
`Answer`, and everything inside a handler to a stutter. The assumption is
necessary: after `db_open` a handler writes without a transaction.

`SchemaInit_proofs` (any processes, tables, files): `LoopInv` says that the
tables behind the loop match, and where the process is while the loop runs.
`FilesGrow` is the key lemma: no step of any process changes a table that exists.
`LoopFailsLoop` and `LoopFailsOpen` are the error path, which three actions share.
`OpenMeansSchema` and `SchemaNeverAltered` follow.

`GcPolicy_proofs` (any thresholds): `Baselines` identifies the code's baseline
with the smallest heap an evaluation has read and its counter with the handlers
that answered; with it `GarbageBounded` is inductive.

`RouteTable_proofs` (any patterns, paths and methods): `BetterIsTotal` and
`BetterIsTransitive` show that `resolveRoute`'s preference is a strict total order,
for which the score of a pattern has to be a number: `splitRouteSegments` cuts at a
first and a last segment that exist (`SmallestExists`, `LargestExists`). `ScanInv`
says what the loop knows half way: the best of the candidates visited so far is
preferred to all the others, and the parameters are its own. `ResolutionDetermined`
speaks only of the end of the loop and is not inductive without it.

`Lifecycle_proofs` (any number of edits and of logged texts): `IInv` is the type
invariant with `CodeInv` (what is being written is of the latest source, and `wat`
is of it while `wasm` is written) and `OutputInv` (before the server, all that was
said is in the buffer and nothing is printed; behind it, stdout and buffer
together are what was said). `PrintsWhatWasSaid` alone is not inductive: it does
not say what is in the buffer that `Return` and `Flush` print. Texts are handled by
four facts about concatenation and prefixes (`Concatenation`, `PrefixOfText`).

`ModuleLoader_proofs` (any disk, any number of modules, any imports, any searches):
`LoaderInv` says of every call on the stack what it has settled so far (`FramesOK`)
and why it waits (`Links`), of every recorded module that its imports are recorded
or still being followed (`Recorded`), of every phase of `Compile` which roots are
settled (`Phases`), that nothing is called or reported that does not belong to the
program (`Sound`), and that recorded files have no circle. `DependenciesFirst`
alone is not inductive: it does not say what the loop over the imports of a file
has recorded when the file is. The steps are of two kinds, a call and a return
(`Called`, `Returned`), and each conjunct has its lemma for each. `LoadedExactly`,
`DependenciesFirst` and `FaultsReported` follow; a built-in module is recorded
before its imports, so closure under imports holds only when its loop has ended.
The hypothesis `ScanFindsSql` says that the search finds the SQL that the author of
a text wrote; TLC evaluates it for every text of the instance.

For `OnlyCirclesOverflow`, `DepthInv` says that a built-in module is being loaded
once at a time (`LoadedOnce`), that one call at a time waits for the host bridge
(`BridgedOnce`), and that an overflow leaves a full stack (`Exhausted`). Without a
circle of files the calls on the stack are then told apart by the module they are
for and the last built-in module below them (`CallKey`), and by the pigeonhole
principle there are no more than `DeepStack`, `2 n^2 + 2` for `n` modules. That is
why the theorem has finitely many modules and `MaxDepth > DeepStack` as hypotheses:
a smaller stack may overflow on a long chain of imports. The bound is coarse: in the
run TLC finds a `MaxDepth` of 8 to be enough.

`Lexer_proofs` (any texts, any depth of guesses): `LexerInv` says that the lexer has
read all that is behind it, into the tokens taken, the one peeked at and the
comments, in order and apart from each other, and that so has each copy in `saved`,
with the tokens that had been taken when it was made. The properties say nothing
about `saved`, and `Restore` would break them. `Tiled`, `CommentsOnce` and
`InlineMeansAfterCode` follow. The theorems have no hypothesis: what one call of
`skipSpace` and one reading of a token do is proved as well, for texts of any
length (`SpaceIsAPiece`, `ScanIsAPiece`). Each reads a piece of the text from where
it starts, in which everything is blank, in a comment or in the token, marks
comments by `hasCodeBeforeInLine`, and `skipSpace` stops at neither a blank nor a
comment. There is a lemma for each loop of the scanner (`NumberIsBehind`,
`StringIsBehind`, `ParamEndIsBehind`, `TemplateIsBehind`, `BlockIsAPiece`, ...); each
names what a round keeps and rests on two facts about `Loop`, proved by way of the
smallest counterexample: it keeps what its rounds keep (`LoopKeeps`), and when each
round that changes something goes on by a character, it has ended (`LoopEnds`).
That an SQL block's comments are those behind its braces, in order, comes from
`BlockIsAPiece`. What the tokens hold is not part of `LexerInv`.

The same module proves the core of `LiteralsKept`, which `Format` checks, about
`Escapes`: a string that the formatter has written is read back, wherever in a text
it stands and whatever characters it holds (`StringsComeBack`); so is a template,
its segments and the texts of its expressions (`TemplatesComeBack`); each is one
token that ends where the formatter's text does (`LiteralsAreTokens`). The
expressions of the template must be `Skipped`: `readParamExpr` must come out right
behind them. `ExpressionsAreSkipped` says which are: those put together from
written strings, balanced braces, characters that are neither brace nor quotation
mark, and templates whose segments have none of these, at any depth. The last
restriction is the code's, not the proof's: `readParamExpr` does not know templates,
so a brace or a quotation mark in the text of an inner template may mislead it;
`NestedTemplates` in `MCFormat` has the same restriction. The argument: what is
written character by character is read by one round of the loop each
(`StringReads`, `TemplateReads`), rounds join to stretches (`Passes`, `PassesOn`),
and a loop that has come by a stretch to where it stays has ended there
(`LoopArrives`).

`Assignment_proofs` (any values, any set of types): `StrictIsSound`,
`StrictIsTransitive` and `StrictIsAssignable` are inductions on the heights of types, by
way of the smallest counterexample: if all smaller types obey, one level of `Strict`
does (`SoundAtOneLevel`, `AtOnceAtOneLevel`, `AllowedAtOneLevel`, each with a lemma for
types of one kind). The parameters of functions are the other way round, which is no
matter for an induction on the sum of the heights. `HasItsType` and `Direct` follow;
`Direct` is not inductive, as `AssignableTo` is not transitive, and the invariant says
of `Strict` what it says of `AssignableTo`. The hypotheses: types are finite
(`WellFounded`), the relations are what their recursion makes them (`Recursive`), and
the types that occur are among those considered (`Covers`). TLC evaluates them on the
types of `MCAssignment`. Maps of different things, functions of any parameters and
generic functions are among the types of the theorems; what is assumed of a step, that
nothing was passed over, is in the properties.

`UnionsStayFlat` needs `WellFounded`, declared types with flat unions, and that
`Same` is what the recursion of `Equals` makes it (`Comparable`). It rests on three arguments.
`Equals` is an equivalence (`EqualsIsAnEquivalence`, by heights): for unions, which it
compares member by member in one direction, symmetry takes a pigeonhole argument
(`NoOtherMembers`), which holds because no member of a union is there twice; it also
shows that the model may leave out the code's array `used`. The loops of `NewUnion` are
recursive functions; `StepByStep` proves that such functions exist, and
`FlattenFindsAll` and `UniqueKeepsOneOfEach` are inductions on how far they have come.
Equal types stand for the same values and can be assigned to each other
(`EqualTypesStandForTheSame`, `EqualTypesAreAssignable`). From these come
`UnionsStandForTheirMembers` and, without generic functions (`NoGenerics`),
`MembersFitTheirUnion`: leaving out equal members
changes neither what a union means nor what it accepts.

The constants' assumptions are named in the modules (`NamesAssumption`,
`FlagsAssumption`, `GcAssumption`, `SchemaAssumption`, `ThresholdsAssumption`,
`BoundsAssumption`, `LoaderAssumption`, `DiskAssumption`, `TextsAssumption`,
`ValuesAssumption`) and evaluated by TLC in the runs.

The inductive invariants `LockInv`, `EffectInv`, `SerialInv`, `LoopInv`, `Baselines`,
`ScanInv`, `IInv`, `LoaderInv`, `DepthInv` and `LexerInv` are proved and not listed in
the runs.

Model-checked only: `EveryRequestAnswered` and `LoadEnds` (liveness is out of the
prover's reach); the two runs that expect a violation; and what recursive functions
over data compute, which would be proved by induction over the data:
`ScanFindsSql` itself, `OnlyCodelessLeftOut` (`Filter` of `DeclScan`), and all of
`Format` (the parser and the printer walk trees and token lists); of `LiteralsKept`
one level is proved, for texts of any length, and the recursion through literals in
literals is left to TLC.

## 5. Not modelled, and what is next

* `internal/types/checker.go`: the walk of the checker over declarations and
  expressions with its scopes, narrowing and SQL checks. `Types` has the relations
  it asks for.
* `internal/compiler/generator.go` beyond `_start` and the order of `__init`: the
  code of expressions, the wrappers of functions and handlers, the collection of
  texts.
* The value bridge (`newValue`, `objGet`, the conversion of rows) and
  `lib/*.wat` (allocator, values, trace stack, the routes of the gc backend, JSON).
* `formatter/annotate.go` and `formatCmd`.
* wasmtime, SQLite, net/http and the operating system are external; the models say
  what is assumed of them.

Next: the code of expressions against their meaning, with the trace stack; then
the checker's narrowing; the allocator's 32-bit arithmetic.
