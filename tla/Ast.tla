--------------------------------- MODULE Ast ---------------------------------
(***************************************************************************)
(* The syntax tree: which tuples are nodes.  <<>> is nil, where the tree may  *)
(* have none.                                                                *)
(***************************************************************************)
EXTENDS Integers, Sequences, SequencesExt

RECURSIVE IsType(_), IsExpr(_), IsStmt(_), IsJSXChild(_)

AllOf(s, P(_)) == \A i \in DOMAIN s : P(s[i])

\* TypeExpr.  A function type's parameter without a name has the name "".
IsTypeProp(p) == Len(p) = 3 /\ p[2] \in BOOLEAN /\ IsType(p[3])
IsFuncTypeParam(p) == Len(p) = 2 /\ IsType(p[2])
IsType(t) ==
    CASE t = <<>> -> FALSE
      [] t # <<>> /\ t[1] = "named"   -> Len(t) = 2 /\ t[2] # ""
      [] t # <<>> /\ t[1] = "generic" -> Len(t) = 3 /\ AllOf(t[3], IsType)
      [] t # <<>> /\ t[1] = "array"   -> Len(t) = 2 /\ IsType(t[2])
      [] t # <<>> /\ t[1] \in {"tuple", "union"} -> Len(t) = 2 /\ AllOf(t[2], IsType)
      [] t # <<>> /\ t[1] = "func"    -> Len(t) = 4 /\ AllOf(t[3], IsFuncTypeParam) /\ IsType(t[4])
      [] t # <<>> /\ t[1] = "object"  -> Len(t) = 2 /\ AllOf(t[2], IsTypeProp)
      [] t # <<>> /\ t[1] = "lit"     -> Len(t) = 3

\* Param, and the names of a pattern with their types.
IsName(p) == Len(p) = 2 /\ (p[2] = <<>> \/ IsType(p[2]))
IsPattern(b) == b[1] \in {"objpat", "arrpat"} /\ AllOf(b[2], IsName)
\* ForOfVar and the three kinds of const statements.
IsBinding(b) == IF b[1] = "name" THEN IsName(b[2]) ELSE IsPattern(b)

\* Entries of literals, cases, attributes.
IsArrayEntry(x) == x[1] \in {"value", "spread"} /\ IsExpr(x[2])
IsObjectEntry(x) == IF x[1] = "spread" THEN IsExpr(x[2])
                    ELSE x[1] = "prop" /\ x[3] \in BOOLEAN /\ IsExpr(x[4])
IsCase(c) == (IsExpr(c[1]) \/ IsPattern(c[1])) /\ IsExpr(c[2])
IsAttribute(a) == a[2] = <<>> \/ IsExpr(a[2])
IsElement(e) == Len(e) = 5 /\ AllOf(e[3], IsAttribute) /\ AllOf(e[4], IsJSXChild) /\ (e[5] => e[4] = <<>>)
IsJSXChild(c) ==
    CASE c[1] = "text" -> c[2] # <<>>
      [] c[1] = "expr" -> IsExpr(c[2])
      [] c[1] = "jsx"  -> IsElement(c)

\* Expr.  A function has a block or an expression; a pattern stands only before "as".
\* Nothing is said of the expressions in templates and SQL blocks: nobody looks at
\* the errors of their parsers, so that nodes made up for missing ones stay there.
IsBlock(b) == b[1] = "block" /\ AllOf(b[2], IsStmt)
IsExpr(e) ==
    CASE e = <<>> -> FALSE
      [] e # <<>> /\ e[1] \in {"int", "float", "string", "bool"} -> Len(e) = 2
      [] e # <<>> /\ e[1] = "ident"  -> Len(e) = 2 /\ e[2] # ""
      [] e # <<>> /\ e[1] \in {"null", "undefined"} -> Len(e) = 1
      [] e # <<>> /\ e[1] = "template" -> Len(e[2]) = Len(e[3]) + 1
      [] e # <<>> /\ e[1] = "array"  -> AllOf(e[2], IsArrayEntry)
      [] e # <<>> /\ e[1] = "object" -> AllOf(e[2], IsObjectEntry)
      [] e # <<>> /\ e[1] = "call"   -> IsExpr(e[2]) /\ AllOf(e[3], IsType) /\ AllOf(e[4], IsExpr)
      [] e # <<>> /\ e[1] \in {"member", "try"} -> IsExpr(e[2])
      [] e # <<>> /\ e[1] = "index"  -> IsExpr(e[2]) /\ IsExpr(e[3])
      [] e # <<>> /\ e[1] = "unary"  -> e[2] \in {"+", "-"} /\ IsExpr(e[3])
      [] e # <<>> /\ e[1] = "as"     -> (IsExpr(e[2]) \/ IsPattern(e[2])) /\ IsType(e[3])
      [] e # <<>> /\ e[1] = "binary" -> IsExpr(e[3]) /\ IsExpr(e[4])
      [] e # <<>> /\ e[1] = "if"     -> IsExpr(e[2]) /\ IsExpr(e[3]) /\ (e[4] = <<>> \/ IsExpr(e[4]))
      [] e # <<>> /\ e[1] = "switch" -> IsExpr(e[2]) /\ AllOf(e[3], IsCase) /\ (e[4] = <<>> \/ IsExpr(e[4]))
      [] e # <<>> /\ e[1] = "block"  -> IsBlock(e)
      [] e # <<>> /\ e[1] = "arrow"  ->
             /\ AllOf(e[2], IsName) /\ (e[3] = <<>> \/ IsType(e[3]))
             /\ IF e[4] = <<>> THEN IsExpr(e[5]) ELSE IsBlock(e[4]) /\ e[5] = <<>>
      [] e # <<>> /\ e[1] = "sql"    -> Len(SelectSeq(e[3], LAMBDA x : x[1] = "?")) >= Len(e[4])
      [] e # <<>> /\ e[1] = "jsx"    -> e[2] # "" /\ IsElement(e)
      [] e # <<>> /\ e[1] = "fragment" -> AllOf(e[2], IsJSXChild)
      [] OTHER -> FALSE

IsStmt(s) ==
    CASE s[1] = "const"  -> IsBinding(s[2]) /\ IsExpr(s[3])
      [] s[1] = "expr"   -> IsExpr(s[2])
      [] s[1] = "ifstmt" -> IsExpr(s[2]) /\ IsBlock(s[3]) /\ (s[4] = <<>> \/ IsBlock(s[4]))
      [] s[1] = "for"    -> IsBinding(s[2]) /\ IsExpr(s[3]) /\ IsBlock(s[4])
      [] s[1] = "return" -> s[2] = <<>> \/ IsExpr(s[2])
      [] s[1] = "block"  -> IsBlock(s)

IsDecl(d) ==
    CASE d[1] = "constdecl" -> IsType(d[4]) /\ IsExpr(d[5])
      [] d[1] = "function"  -> AllOf(d[5], IsName) /\ IsType(d[6]) /\ IsBlock(d[7])
      [] d[1] = "extern"    -> AllOf(d[5], IsName) /\ IsType(d[6])
      [] d[1] = "type"      -> IsType(d[5])
      [] d[1] = "table"     -> \A i \in DOMAIN d[3] : Len(d[3][i]) = 3

IsImport(x) == Len(x) = 4 /\ \A i \in DOMAIN x[3] : x[3][i][2] \in BOOLEAN
IsModule(m) == AllOf(m[1], IsImport) /\ AllOf(m[2], IsDecl)

(***************************************************************************)
(* The nodes of a tree: expressions, statements, children of markup.        *)
(***************************************************************************)
Inside(x) ==
    CASE x[1] \in {"member", "try", "as", "expr", "return"} -> {x[2]}
      [] x[1] \in {"const", "unary"} -> {x[3]}
      [] x[1] = "index"    -> {x[2], x[3]}
      [] x[1] = "binary"   -> {x[3], x[4]}
      [] x[1] = "call"     -> {x[2]} \cup ToSet(x[4])
      [] x[1] = "template" -> ToSet(x[3])
      [] x[1] = "sql"      -> ToSet(x[4])
      [] x[1] \in {"array", "object"} -> {Last(entry) : entry \in ToSet(x[2])}
      [] x[1] \in {"if", "ifstmt"} -> {x[2], x[3], x[4]}
      [] x[1] = "switch"   -> UNION {{c[1], c[2]} : c \in ToSet(x[3])} \cup {x[2], x[4]}
      [] x[1] \in {"block", "fragment"} -> ToSet(x[2])
      [] x[1] = "arrow"    -> {x[4], x[5]}
      [] x[1] = "for"      -> {x[3], x[4]}
      [] x[1] = "jsx"      -> {a[2] : a \in ToSet(x[3])} \cup ToSet(x[4])
      [] OTHER             -> {}

RECURSIVE Nodes(_)
Nodes(x) == IF x = <<>> THEN {} ELSE {x} \cup UNION {Nodes(y) : y \in Inside(x)}

NodesOfDecl(d) ==
    CASE d[1] = "constdecl" -> Nodes(d[5])
      [] d[1] = "function"  -> Nodes(d[7])
      [] OTHER              -> {}
NodesOf(m) == UNION {NodesOfDecl(d) : d \in ToSet(m[2])}

\* The types in a tree.
RECURSIVE TypesIn(_)
TypesIn(t) ==
    LET In(ts) == UNION {TypesIn(u) : u \in ts}
    IN  IF t = <<>> THEN {}
        ELSE {t} \cup
             CASE t[1] = "array"   -> TypesIn(t[2])
               [] t[1] = "generic" -> In(ToSet(t[3]))
               [] t[1] \in {"tuple", "union"} -> In(ToSet(t[2]))
               [] t[1] = "object"  -> In({p[3] : p \in ToSet(t[2])})
               [] t[1] = "func"    -> In({p[2] : p \in ToSet(t[3])} \cup {t[4]})
               [] OTHER            -> {}
TypesOfNames(names) == {p[2] : p \in ToSet(names)}
TypesOfBinding(b) == TypesOfNames(IF b[1] = "name" THEN <<b[2]>> ELSE b[2])
TypesAt(x) ==
    CASE x[1] = "as"    -> {x[3]} \cup (IF IsPattern(x[2]) THEN TypesOfNames(x[2][2]) ELSE {})
      [] x[1] = "call"  -> ToSet(x[3])
      [] x[1] = "arrow" -> TypesOfNames(x[2]) \cup {x[3]}
      [] x[1] \in {"const", "for"} -> TypesOfBinding(x[2])
      [] OTHER          -> {}
TypesOfDecl(d) ==
    CASE d[1] = "constdecl" -> {d[4]}
      [] d[1] \in {"function", "extern"} -> TypesOfNames(d[5]) \cup {d[6]}
      [] d[1] = "type"      -> {d[5]}
      [] OTHER              -> {}
TypesOf(m) ==
    UNION {TypesIn(t) : t \in UNION {TypesOfDecl(d) : d \in ToSet(m[2])} \cup UNION {TypesAt(x) : x \in NodesOf(m)}}
=============================================================================
