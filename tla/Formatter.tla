------------------------------ MODULE Formatter ------------------------------
(***************************************************************************)
(* The formatter: from a module to its text.  Indentation is left out, and   *)
(* so are the line breaks between the entries of an array literal, whose     *)
(* span ends at the next token wherever its bracket stands; all other line   *)
(* breaks are kept, for a span may end before one.  A node the printer has   *)
(* no case for prints nothing, as in the code.                               *)
(***************************************************************************)
EXTENDS Tokens

\* Elements separated by a mark, and each followed by a comma.
Separated(texts, k) ==
    FlattenSeq([i \in DOMAIN texts |-> (IF i = 1 THEN <<>> ELSE <<Mark(k)>>) \o texts[i]])
Trailed(texts) == FlattenSeq([i \in DOMAIN texts |-> Append(texts[i], Mark(","))])

StringLexeme(w) == <<"string", w, <<>>>>
Key(key, quoted) == IF quoted THEN StringLexeme(key) ELSE Word(key)

\* %g: a float without a fraction is printed without one.
Whole == {"1.0", "1."}
Float(v) == IF v \in Whole THEN <<"int", "1", <<>>>> ELSE <<"float", v, <<>>>>

(***************************************************************************)
(* formatType                                                               *)
(***************************************************************************)
TypeParams(names) ==
    IF names = <<>> THEN <<>>
    ELSE <<Mark("<")>> \o Trailed([i \in DOMAIN names |-> <<Word(names[i])>>]) \o <<Mark(">")>>

RECURSIVE FormatType(_)
FormatType(t) ==
    LET Each(ts) == [i \in DOMAIN ts |-> FormatType(ts[i])]
    IN  CASE t = <<>> -> <<>>
          [] t # <<>> /\ t[1] = "named" -> <<Word(t[2])>>
          [] t # <<>> /\ t[1] = "generic" -> <<Word(t[2]), Mark("<")>> \o Trailed(Each(t[3])) \o <<Mark(">")>>
          [] t # <<>> /\ t[1] = "lit" -> IF t[2] = "float" THEN <<Float(t[3])>> ELSE <<<<t[2], t[3], <<>>>>>>
          [] t # <<>> /\ t[1] = "array" ->
                 IF t[2][1] = "union"
                 THEN <<Mark("(")>> \o FormatType(t[2]) \o Marks(<<")", "[", "]">>)
                 ELSE FormatType(t[2]) \o Marks(<<"[", "]">>)
          [] t # <<>> /\ t[1] = "tuple" -> <<Mark("[")>> \o Trailed(Each(t[2])) \o <<Mark("]")>>
          [] t # <<>> /\ t[1] = "union" -> Separated(Each(t[2]), "|")
          [] t # <<>> /\ t[1] = "func" ->
                 TypeParams(t[2]) \o <<Mark("(")>>
                 \o Trailed([i \in DOMAIN t[3] |->
                        (IF t[3][i][1] = "" THEN <<>> ELSE <<Word(t[3][i][1])>>)
                        \o <<Mark(":")>> \o FormatType(t[3][i][2])])
                 \o Marks(<<")", "=>">>) \o FormatType(t[4])
          [] t # <<>> /\ t[1] = "object" ->
                 <<Mark("{")>>
                 \o Trailed([i \in DOMAIN t[2] |->
                        <<Key(t[2][i][1], t[2][i][2]), Mark(":")>> \o FormatType(t[2][i][3])])
                 \o <<Mark("}")>>

\* A name with its type, if there is one; always with ":" in a declaration.
Named(p) == <<Word(p[1])>> \o (IF p[2] = <<>> THEN <<>> ELSE <<Mark(":")>> \o FormatType(p[2]))
Names(ps) == [i \in DOMAIN ps |-> Named(ps[i])]

FormatBinding(b) ==
    CASE b[1] = "name"   -> Named(b[2])
      [] b[1] = "arrpat" -> <<Mark("[")>> \o Trailed(Names(b[2])) \o <<Mark("]")>>
      [] b[1] = "objpat" -> <<Mark("{")>> \o Trailed(Names(b[2])) \o <<Mark("}")>>

(***************************************************************************)
(* formatExpr                                                               *)
(***************************************************************************)
RECURSIVE FormatExpr(_), FormatBlock(_), FormatJSXElement(_), FormatJSXChild(_), FormatJSXChildren(_)

Parenthesised(text) == <<Mark("(")>> \o text \o <<Mark(")")>>

\* formatBinaryExpr: an operand that is binary itself goes in parentheses.
Operand(e) == IF e[1] = "binary" THEN Parenthesised(FormatExpr(e)) ELSE FormatExpr(e)

FormatArrayLit(entries) ==
    <<Mark("[")>>
    \o Separated([i \in DOMAIN entries |->
           (IF entries[i][1] = "spread" THEN <<Mark("...")>> ELSE <<>>) \o FormatExpr(entries[i][2])], ",")
    \o <<Mark("]")>>

FormatObjectEntry(x) ==
    LET shorthand == ~ x[3] /\ x[4] = <<"ident", x[2]>>
    IN  IF x[1] = "spread" THEN <<Mark("...")>> \o FormatExpr(x[2])
        ELSE <<Key(x[2], x[3])>>
             \o (IF shorthand THEN <<>> ELSE <<Mark(":")>> \o FormatExpr(x[4]))
FormatObjectLit(entries) ==
    <<Mark("{")>> \o Trailed([i \in DOMAIN entries |-> FormatObjectEntry(entries[i])]) \o <<Mark("}")>>

\* Seeded fault: the type arguments of a call are not printed.
NoTypeArgs(typeArgs) == <<>>

FormatTypeArgs(typeArgs) ==
    IF typeArgs = <<>> THEN <<>>
    ELSE <<Mark("<")>> \o Separated([i \in DOMAIN typeArgs |-> FormatType(typeArgs[i])], ",") \o <<Mark(">")>>

\* Arguments are printed on lines of their own if one of them is markup.
IsMarkup(e) == e[1] \in {"jsx", "fragment"}
FormatCallExpr(callee, typeArgs, args) ==
    LET apart == \E i \in DOMAIN args : IsMarkup(args[i])
        Break == IF apart THEN <<Newline>> ELSE <<>>
        Arg(i) == FormatExpr(args[i]) \o (IF i < Len(args) THEN <<Mark(",")>> ELSE <<>>) \o Break
    IN  FormatExpr(callee) \o FormatTypeArgs(typeArgs)
        \o Parenthesised(Break \o FlattenSeq([i \in DOMAIN args |-> Arg(i)]))

\* No space before the point: the lexer reads it as part of a number.
FormatMember(object, property) ==
    LET last == object[Len(object)]
    IN  IF object # <<>> /\ last[1] = "int"
        THEN Append(Front(object), <<"float", last[2] \o ".", <<>>>>) \o <<Word(property)>>
        ELSE object \o <<Mark("."), Word(property)>>

FormatCaseBody(e) ==
    (IF e[1] = "block" THEN <<>> ELSE <<Newline>>) \o FormatExpr(e) \o <<Newline>>
FormatSwitchExpr(value, cases, default) ==
    <<Mark("switch")>> \o Parenthesised(FormatExpr(value)) \o <<Mark("{"), Newline>>
    \o FlattenSeq([i \in DOMAIN cases |->
           <<Mark("case")>> \o FormatExpr(cases[i][1]) \o <<Mark(":")>> \o FormatCaseBody(cases[i][2])])
    \o (IF default = <<>> THEN <<>> ELSE Marks(<<"default", ":">>) \o FormatCaseBody(default))
    \o <<Mark("}")>>

FormatArrowFunc(params, ret, body, expr) ==
    <<Mark("function")>> \o Parenthesised(Trailed(Names(params)))
    \o (IF ret = <<>> THEN <<>> ELSE <<Mark(":")>> \o FormatType(ret))
    \o (IF body # <<>> THEN FormatBlock(body) ELSE <<Mark("=>")>> \o FormatExpr(expr))

\* formatSQLExpr: each parameter in turn replaces the first "?" there is, be it
\* a placeholder, part of the SQL, or part of a parameter already put in.
RECURSIVE ReplaceFirst(_, _)
ReplaceFirst(query, params) ==
    LET marks == {i \in DOMAIN query : query[i][1] = "?"}
        at == CHOOSE i \in marks : \A j \in marks : i <= j
    IN  IF params = <<>> \/ marks = {} THEN query
        ELSE ReplaceFirst(SubSeq(query, 1, at - 1)
                          \o <<Mark("{")>> \o FormatExpr(Head(params)) \o <<Mark("}")>>
                          \o SubSeq(query, at + 1, Len(query)), Tail(params))

FormatSQLExpr(kind, query, params) ==
    <<kind, "", <<Newline>> \o ReplaceFirst(query, params) \o <<Newline>>>>

\* Seeded fault: the expression of an attribute is printed without braces.
AttributeWithoutBraces(a) ==
    <<Word(a[1])>> \o
    CASE a[2] = <<>> -> <<>>
      [] a[2] # <<>> /\ a[2][1] = "string" -> <<Mark("="), StringLexeme(a[2][2])>>
      [] OTHER -> <<Mark("=")>> \o FormatExpr(a[2])
FormatJSXAttribute(a) ==
    <<Word(a[1])>> \o
    CASE a[2] = <<>> -> <<>>
      [] a[2] # <<>> /\ a[2][1] = "string" -> <<Mark("="), StringLexeme(a[2][2])>>
      [] OTHER -> Marks(<<"=", "{">>) \o FormatExpr(a[2]) \o <<Mark("}")>>

\* The children of an element or a fragment: each on a line if one is an element.
FormatJSXChildren(children) ==
    LET apart == \E i \in DOMAIN children : children[i][1] = "jsx"
        Break == IF apart THEN <<Newline>> ELSE <<>>
    IN  FlattenSeq([i \in DOMAIN children |-> Break \o FormatJSXChild(children[i])]) \o Break

\* formatJSXElement.  The text of a style element goes through formatCSS, which
\* prints the rules it finds; parseJSXText ends a text at "{", so there are none.
FormatJSXElement(e) ==
    LET open == (IF e[2] = "" THEN <<Mark("<")>> ELSE <<Mark("<"), Word(e[2])>>)
                \o FlattenSeq([i \in DOMAIN e[3] |-> FormatJSXAttribute(e[3][i])])
        style == e[2] = "style" /\ Len(e[4]) = 1 /\ e[4][1][1] = "text"
        children == IF style THEN <<Newline, Newline>> ELSE FormatJSXChildren(e[4])
    IN  IF e[5] THEN open \o Marks(<<"/", ">">>)
        ELSE open \o <<Mark(">")>> \o children \o Marks(<<"<", "/">>)
             \o (IF e[2] = "" THEN <<>> ELSE <<Word(e[2])>>) \o <<Mark(">")>>
FormatJSXChild(c) ==
    CASE c[1] = "text" -> [i \in DOMAIN c[2] |-> Word(c[2][i])]
      [] c[1] = "expr" -> <<Mark("{")>> \o FormatExpr(c[2]) \o <<Mark("}")>>
      [] c[1] = "jsx"  -> FormatJSXElement(c)

FormatExpr(e) ==
    LET k == e[1] IN
    CASE k = "ident"  -> IF e[2] = "" THEN <<>> ELSE <<Word(e[2])>>
      [] k \in {"int", "string"} -> <<<<k, e[2], <<>>>>>>
      [] k = "float"  -> <<Float(e[2])>>
      [] k = "bool"   -> <<Mark(e[2])>>
      [] k = "null"   -> <<Mark("null")>>
      [] k = "template" -> <<<<k, e[2], [j \in DOMAIN e[3] |-> FormatExpr(e[3][j])]>>>>
      [] k = "array"  -> FormatArrayLit(e[2])
      [] k = "object" -> FormatObjectLit(e[2])
      [] k = "call"   -> FormatCallExpr(e[2], e[3], e[4])
      [] k = "member" -> FormatMember(FormatExpr(e[2]), e[3])
      [] k = "index"  -> FormatExpr(e[2]) \o <<Mark("[")>> \o FormatExpr(e[3]) \o <<Mark("]")>>
      [] k = "try"    -> FormatExpr(e[2]) \o <<Mark("?")>>
      [] k = "unary"  -> <<Mark(e[2])>> \o FormatExpr(e[3])
      [] k = "as"     -> FormatExpr(e[2]) \o <<Mark("as")>> \o FormatType(e[3])
      [] k = "binary" -> Operand(e[3]) \o <<Mark(e[2])>> \o Operand(e[4])
      [] k = "if"     -> <<Mark("if")>> \o Parenthesised(FormatExpr(e[2])) \o FormatExpr(e[3])
                         \o (IF e[4] = <<>> THEN <<>> ELSE <<Mark("else")>> \o FormatExpr(e[4]))
      [] k = "switch" -> FormatSwitchExpr(e[2], e[3], e[4])
      [] k = "block"  -> FormatBlock(e)
      [] k = "arrow"  -> FormatArrowFunc(e[2], e[3], e[4], e[5])
      [] k = "sql"    -> <<FormatSQLExpr(e[2], e[3], e[4])>>
      [] k = "jsx"    -> FormatJSXElement(e)
      [] k = "fragment" -> Marks(<<"<", ">">>) \o FormatJSXChildren(e[2]) \o Marks(<<"<", "/", ">">>)
      [] OTHER -> <<>>

(***************************************************************************)
(* Statements: each begins a line and ends one.                             *)
(***************************************************************************)
FormatStmt(x) ==
    LET k == x[1] IN
    CASE k = "const"  -> <<Mark("const")>> \o FormatBinding(x[2]) \o <<Mark("=")>> \o FormatExpr(x[3])
      [] k = "expr"   -> FormatExpr(x[2])
      [] k = "ifstmt" -> <<Mark("if")>> \o Parenthesised(FormatExpr(x[2])) \o FormatBlock(x[3])
                         \o (IF x[4] = <<>> THEN <<>> ELSE <<Mark("else")>> \o FormatBlock(x[4]))
      [] k = "for"    -> <<Mark("for")>>
                         \o Parenthesised(<<Mark("const")>> \o FormatBinding(x[2]) \o <<Mark("of")>> \o FormatExpr(x[3]))
                         \o FormatBlock(x[4])
      [] k = "return" -> <<Mark("return")>> \o (IF x[2] = <<>> THEN <<>> ELSE FormatExpr(x[2]))
      [] k = "block"  -> FormatBlock(x)

FormatBlock(b) ==
    <<Mark("{"), Newline>>
    \o FlattenSeq([i \in DOMAIN b[2] |-> Append(FormatStmt(b[2][i]), Newline)])
    \o <<Mark("}")>>

(***************************************************************************)
(* Modules                                                                  *)
(***************************************************************************)
\* The path goes out as it is, not through escapeString: where the lexer reads it
\* again, a backslash in it starts an escape.  (Other texts are names here; the
\* characters of literals and of paths are the subject of Literals.)
BackslashPath == "a\\b"
Unescaped(path) == IF path = BackslashPath THEN "ab" ELSE path

FormatImport(x) ==
    LET items == <<Mark("{")>>
                 \o Trailed([i \in DOMAIN x[3] |->
                        (IF x[3][i][2] THEN <<Mark("type")>> ELSE <<>>) \o <<Word(x[3][i][1])>>])
                 \o <<Mark("}")>>
    IN  <<Mark("import")>>
        \o (IF x[2] = "" THEN items
            ELSE IF x[3] = <<>> THEN <<Word(x[2])>>
            ELSE <<Word(x[2]), Mark(",")>> \o items)
        \o <<Mark("from"), StringLexeme(Unescaped(x[4]))>>

\* Declared parameters are printed with ":" whether they have a type or not.
FormatParams(params) ==
    Parenthesised(Trailed([i \in DOMAIN params |-> <<Word(params[i][1]), Mark(":")>> \o FormatType(params[i][2])]))

FormatDecl(d) ==
    LET signature == <<Word(d[3])>> \o TypeParams(d[4]) \o FormatParams(d[5]) \o <<Mark(":")>> \o FormatType(d[6])
        export == IF d[2] THEN <<Mark("export")>> ELSE <<>>
    IN  CASE d[1] = "constdecl" ->
                 export \o <<Mark("const"), Word(d[3]), Mark(":")>> \o FormatType(d[4])
                 \o <<Mark("=")>> \o FormatExpr(d[5])
          [] d[1] = "function" -> export \o <<Mark("function")>> \o signature \o FormatBlock(d[7])
          [] d[1] = "extern"   -> export \o Marks(<<"extern", "function">>) \o signature
          [] d[1] = "type"     ->
                 export \o <<Mark("type"), Word(d[3])>> \o TypeParams(d[4]) \o <<Mark("=")>> \o FormatType(d[5])
          [] d[1] = "table"    ->
                 <<<<"table", d[2], FlattenSeq([i \in DOMAIN d[3] |-> <<d[3][i][1], d[3][i][2]>> \o d[3][i][3] \o <<",">>])>>>>

FormatModule(module) ==
    FlattenSeq([i \in DOMAIN module[1] |-> Append(FormatImport(module[1][i]), Newline)])
    \o FlattenSeq([i \in DOMAIN module[2] |-> Append(FormatDecl(module[2][i]), Newline)])
=============================================================================
