------------------------------- MODULE Format -------------------------------
(***************************************************************************)
(* `tuna format --write` on one file, run again and again: read the file,    *)
(* parse it, print the module over it.  A file that does not parse is left    *)
(* as it is and the command fails.  Files are looked at in one of four ways:  *)
(*   "program"  as the tokens of a program, whose constructs matter;         *)
(*   "typed"    the same, but of any tokens, as they are while one types;    *)
(*   "literal"  as the characters of one literal;                            *)
(*   "layout"   as statements, line breaks and comments.                     *)
(***************************************************************************)
EXTENDS Parser, Misprints

CONSTANTS
    Programs,       \* programs that files hold at the start
    Typing,         \* sequences of tokens
    Values,         \* literals that programs are written with
    Layouts,        \* statements with comments
    MaxIndent       \* files with a line indented further are not formatted again

VARIABLES
    view,           \* the way the file is looked at
    file,           \* the text of the file
    module,         \* what Format has parsed, <<>> if nothing
    original,       \* history: the first module (of a program: <<>> until parsed), the
                    \* literal the author meant, the first layout
    stage           \* "start", "parsed", "written", "failed", "hung"

vars == <<view, file, module, original, stage>>

Lit == INSTANCE Literals
Com == INSTANCE Comments

Accepted(m) == [ok |-> TRUE, stuck |-> FALSE, module |-> m]
Parsed(text) ==
    CASE view \in {"program", "typed"} -> ParseModule(Lex(text))
      [] view = "literal" -> Accepted(Lit!Parsed(text))
      [] view = "layout" -> Accepted(Com!Parsed(text))
Printed(m) ==
    CASE view \in {"program", "typed"} -> FormatModule(m)
      [] view = "literal" -> Lit!Written(m)
      [] view = "layout" -> Com!Written(m)

Init ==
    /\ \/ view = "program" /\ file \in Programs /\ original = <<>>
       \/ view = "typed" /\ file \in Typing /\ original = <<>>
       \/ view = "literal" /\ original \in Values /\ file = Lit!Written(original)
       \/ view = "layout" /\ file \in Layouts /\ original = file
    /\ module = <<>>
    /\ stage = "start"

TooFar == view = "layout" /\ Com!Indentation(file) > MaxIndent

\* formatCmd and Formatter.Format up to ParseModule.
Read ==
    /\ stage \in {"start", "written"}
    /\ ~ TooFar
    /\ \E parsed \in {Parsed(file)} :
           IF parsed.ok
           THEN /\ module' = parsed.module
                /\ original' = IF original = <<>> THEN parsed.module ELSE original
                /\ stage' = "parsed"
           ELSE /\ stage' = IF parsed.stuck THEN "hung" ELSE "failed"
                /\ UNCHANGED <<module, original>>
    /\ UNCHANGED <<view, file>>

\* FormatModuleWithComments, then os.WriteFile.
Write ==
    /\ stage = "parsed"
    /\ file' = Printed(module)
    /\ stage' = "written"
    /\ UNCHANGED <<view, module, original>>

\* The command has failed, or the parser is in a loop it never leaves, or the bound
\* is reached.
Rest == (stage \in {"failed", "hung"} \/ (stage = "written" /\ TooFar)) /\ UNCHANGED vars

Next == Read \/ Write \/ Rest

Spec == Init /\ [][Next]_vars

-----------------------------------------------------------------------------
IsProgram == view \in {"program", "typed"}

\* What the parser accepts without an error is a syntax tree: no node is missing,
\* and none of the nodes it makes up after an error is left in it, but for the
\* expressions inside templates and SQL blocks, whose errors are dropped.
TypeOK == IsProgram /\ stage = "parsed" => IsModule(module)

\* Formatting changes a program only if it has one of the forms that are misprinted:
\* else whatever has been written over the file parses to the module the file had
\* before it was first formatted.
ProgramKept == view = "program" /\ stage = "parsed" /\ module # original => Misprinted(original)

\* A text with markup in it, be it in a template or in SQL.
RECURSIVE HasMarkup(_)
HasMarkup(text) ==
    \E x \in ToSet(text) :
        CASE x[1] = "template"   -> \E part \in ToSet(x[3]) : HasMarkup(part)
          [] x[1] \in SqlKinds   -> HasMarkup(x[3])
          [] OTHER               -> x = Mark("<")

\* What the formatter has written is accepted by the parser, of every program but
\* one it misprints; and the parser comes to an end on every text without markup
\* (on a text that ends inside an element it does not: parser.go:1482-1491).
AlwaysParses ==
    /\ stage \in {"failed", "hung"} /\ original # <<>> => Misprinted(original)
    /\ stage = "hung" => HasMarkup(file)

\* Every character of a literal survives the formatter and the lexer, whatever
\* quotes, braces, backslashes and line breaks it holds, and the lexer finds its
\* end where the formatter put it; but not those of a path with quotation marks or
\* backslashes, which is written as it is (formatter.go:165-167, 187-189).
LiteralsKept ==
    view = "literal" /\ ~ (original[1] = "path" /\ ToSet(original[2]) \cap {Lit!Quote, "\\"} # {}) =>
        IF stage = "parsed" THEN module = original ELSE Lit!End(file) = Len(file) + 1

\* Every comment is in the file, once and in the order it was written, and no code
\* disappears behind a comment, however often the file is formatted.
CommentsWoven ==
    view = "layout" /\ stage = "written" =>
        /\ Com!CommentsOf(file) = Com!CommentsOf(original)
        /\ Com!CodeOf(file) = Com!CodeOf(original)

\* A file that has been formatted stays as it is when it is formatted again, but for
\* the second lines of comments, which move right by the depth of their block each
\* time (writeComment, formatter.go:149-157).
Settled == view = "layout" /\ stage = "written" => Printed(Parsed(file).module) = Com!MovedRight(file)

\* The line breaks outside of all brackets but the n-th.
RECURSIVE BreaksAt(_, _)
BreaksAt(text, n) ==
    LET x == Head(text)
        rest == BreaksAt(Tail(text), CASE x[1] \in {"(", "[", "{"} -> n - 1 [] x[1] \in {")", "]", "}"} -> n + 1 [] OTHER -> n)
    IN  IF text = <<>> THEN 0 ELSE (IF x = Newline /\ n = 0 THEN 1 ELSE 0) + rest

\* A line that begins with "(" or "[" is a statement of its own and does not
\* continue the line above, as the specification of the language has it
\* (docs/spec.md:492), if the line above does not end with a literal whose span goes
\* up to the next token (SpanToNext; the specification makes no such exception):
\* a function has as many statements as its body has lines outside of brackets.
LinesAreStatements ==
    LET decl == module[2][1]
        joined == \E x \in NodesOf(module) : x[1] \in {"call", "index"} /\ x[2][1] \in SpanToNext
        markup == \E x \in NodesOf(module) : IsMarkup(x) /\ (x[1] = "jsx" => ~ x[5])
    IN  /\ view = "program" /\ stage = "parsed" /\ module = original /\ decl[1] = "function"
        /\ Len(decl[7][2]) # BreaksAt(file, 1) - 1
        => joined \/ markup

(***************************************************************************)
(* Grouping: in an expression written without parentheses, every operator   *)
(* takes what stands to its left up to the next weaker one, and equally      *)
(* strong ones group to the left.                                           *)
(***************************************************************************)
BinaryOps == {"|", "&", "==", "!=", "<", "<=", ">", ">=", "+", "-", "*", "/", "%"}
Strength(op) == CHOOSE n \in 1 .. 6 :
    op \in <<{"|"}, {"&"}, {"==", "!="}, {"<", "<=", ">", ">="}, {"+", "-"}, {"*", "/", "%"}>>[n]

RECURSIVE WellGrouped(_), InOrder(_)
WellGrouped(e) ==
    e[1] = "binary" =>
        /\ WellGrouped(e[3]) /\ WellGrouped(e[4])
        /\ e[3][1] = "binary" => Strength(e[3][2]) >= Strength(e[2])
        /\ e[4][1] = "binary" => Strength(e[4][2]) > Strength(e[2])
InOrder(e) == IF e[1] = "binary" THEN InOrder(e[3]) \o <<Mark(e[2])>> \o InOrder(e[4]) ELSE <<Word(e[2])>>

\* A constant whose initialiser is a chain of operators is grouped as their
\* precedence says, with every operand in its place.
ChainsGrouped ==
    LET text == SelectSeq(file, LAMBDA x : x # Newline)
        chain == SubSeq(text, 6, Len(text))
        init == module[2][1][5]
    IN  /\ view = "program" /\ stage = "parsed"
        /\ text[1] = Mark("const")
        /\ \A i \in DOMAIN chain : IF i % 2 = 1 THEN chain[i][1] = "ident" ELSE chain[i][1] \in BinaryOps
        => (init[1] = "binary" => WellGrouped(init) /\ InOrder(init) = chain)
=============================================================================
