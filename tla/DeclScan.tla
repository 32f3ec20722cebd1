------------------------------ MODULE DeclScan ------------------------------
(***************************************************************************)
(* Two searches of the compiler through whole functions: does a program use  *)
(* SQL, so that the module sqlite must be loaded with it, and which functions *)
(* of a library call an extern function that its WAT file does not define, so *)
(* that they must be left out.  Each is written in the code as a switch over  *)
(* the kinds of nodes, and a kind that a switch forgets hides all below it.   *)
(* Nodes are those of Ast.                                                   *)
(***************************************************************************)
EXTENDS Integers, Sequences, SequencesExt

Values(entries) == {e[Len(e)] : e \in ToSet(entries)}
NotNil(nodes) == nodes \ {<<>>}
JSXParts(attributes, children) ==
    NotNil({a[2] : a \in ToSet(attributes)})
        \cup {IF c[1] = "jsx" THEN c ELSE c[2] : c \in {x \in ToSet(children) : x[1] # "text"}}

\* The expressions that stand directly in an expression, but for those in the
\* blocks, as both searches list them.
Operands(e) ==
    CASE e[1] = "template" -> ToSet(e[3])
      [] e[1] \in {"array", "object"} -> Values(e[2])
      [] e[1] = "call"   -> {e[2]} \cup ToSet(e[4])
      [] e[1] \in {"member", "try", "as"} -> {e[2]}
      [] e[1] = "index"  -> {e[2], e[3]}
      [] e[1] = "unary"  -> {e[3]}
      [] e[1] = "binary" -> {e[3], e[4]}
      [] e[1] = "if"     -> NotNil({e[2], e[3], e[4]})
      [] e[1] = "switch" -> {e[2]} \cup UNION {{c[1], c[2]} : c \in ToSet(e[3])} \cup NotNil({e[4]})
      [] e[1] = "arrow"  -> NotNil({e[5]})
      [] OTHER -> {}

\* The expressions and the blocks of a statement.
StmtExprs(s) ==
    CASE s[1] \in {"const", "for"} -> {s[3]}
      [] s[1] \in {"expr", "ifstmt"} -> {s[2]}
      [] s[1] = "return" -> NotNil({s[2]})
      [] OTHER -> {}
StmtBlocks(s) ==
    CASE s[1] = "ifstmt" -> NotNil({s[3], s[4]})
      [] s[1] = "for"    -> {s[4]}
      [] s[1] = "block"  -> {s}
      [] OTHER -> {}

RECURSIVE ExprNeedsSqlite(_), BlockNeedsSqlite(_), ExprCalls(_, _), BlockCalls(_, _)

\* exprNeedsSqlite, jsxElementNeedsSqlite, jsxFragmentNeedsSqlite
ExprNeedsSqlite(e) ==
    \/ e[1] = "sql"
    \/ \E x \in Operands(e) : ExprNeedsSqlite(x)
    \/ e[1] = "block" /\ BlockNeedsSqlite(e)
    \/ e[1] = "arrow" /\ e[4] # <<>> /\ BlockNeedsSqlite(e[4])
    \/ e[1] = "jsx" /\ \E x \in JSXParts(e[3], e[4]) : ExprNeedsSqlite(x)
    \/ e[1] = "fragment" /\ \E x \in JSXParts(<<>>, e[2]) : ExprNeedsSqlite(x)

\* blockNeedsSqlite, stmtNeedsSqlite
BlockNeedsSqlite(b) ==
    \E s \in ToSet(b[2]) :
        (\E x \in StmtExprs(s) : ExprNeedsSqlite(x)) \/ \E x \in StmtBlocks(s) : BlockNeedsSqlite(x)

\* moduleNeedsSqlite, declNeedsSqlite
ModuleNeedsSqlite(decls) ==
    \E d \in ToSet(decls) :
        \/ d[1] = "table"
        \/ d[1] = "constdecl" /\ ExprNeedsSqlite(d[5])
        \/ d[1] = "function" /\ BlockNeedsSqlite(d[7])

-----------------------------------------------------------------------------
\* Seeded fault (of ExprCalls): function values are not looked into, either.
ExprCallsNoArrow(e, gone) ==
    \/ e[1] = "call" /\ e[2][1] = "ident" /\ e[2][2] \in gone
    \/ e[1] # "arrow" /\ \E x \in Operands(e) : ExprCalls(x, gone)

\* exprCallsDisallowed.  It does not look into block expressions, markup and SQL.
ExprCalls(e, gone) ==
    \/ e[1] = "call" /\ e[2][1] = "ident" /\ e[2][2] \in gone
    \/ \E x \in Operands(e) : ExprCalls(x, gone)
    \/ e[1] = "arrow" /\ e[4] # <<>> /\ BlockCalls(e[4], gone)

\* blockCallsDisallowed, stmtCallsDisallowed
BlockCalls(b, gone) ==
    \E s \in ToSet(b[2]) :
        (\E x \in StmtExprs(s) : ExprCalls(x, gone)) \/ \E x \in StmtBlocks(s) : BlockCalls(x, gone)

\* typeExprNumericOnly, externDeclNumericOnly
NumericOnly(d) ==
    \A t \in {d[6]} \cup {p[2] : p \in ToSet(d[5])} : t[1] = "named" /\ t[2] \in {"i64", "f64", "boolean", "i32"}

Allowed(d, defined) == d[4] \in defined \/ NumericOnly(d)

\* filterDeclsForWAT, funcDeclCallsDisallowedExtern
Filter(decls, defined) ==
    LET gone == {d[4] : d \in {x \in ToSet(decls) : x[1] = "extern" /\ ~ Allowed(x, defined)}}
        Kept(d) == CASE d[1] = "extern" -> d[4] \notin gone
                     [] d[1] = "function" -> ~ BlockCalls(d[7], gone)
                     [] OTHER -> TRUE
    IN  SelectSeq(decls, Kept)
=============================================================================
