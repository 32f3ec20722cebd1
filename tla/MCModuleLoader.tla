--------------------------- MODULE MCModuleLoader ---------------------------
EXTENDS ModuleLoader, DeclScan

MCFiles == {"main", "a", "b"}
MCTexts == {"style"}
MCNames == {"prelude", "interop", "sqlite", "server"}

\* Every way for three files to import each other, a text, a built-in module, a
\* name that is in no library and one that has two letters.
MainImports ==
    {<<>>, <<"a">>, <<"main">>, <<"a", "b">>, <<"b", "a">>, <<"a", "style">>, <<"server", "a">>}
AImports ==
    {<<>>, <<"b">>, <<"main">>, <<"b", "style">>, <<"server", "b">>, <<"xy">>, <<"b", "nothing">>}
BImports == {<<>>, <<"a">>, <<"style">>, <<"prelude">>, <<"server", "a">>}
\* The library's own modules import nothing, or each other in a circle.
LibraryImports == {<<>>, <<"server">>}

\* What is in a text: nothing but a leaf that is nested in the kinds inside.
Ident(n) == <<"ident", n>>
BlockOf(stmts) == <<"block", stmts>>
Does(e) == BlockOf(<<<<"expr", e>>>>)
Text == <<"named", "string">>

\* Every place in an expression where an expression can stand.
Nestings(e) ==
    LET v == Ident("v")
    IN  {<<"template", <<"", "", "">>, <<v, e>>>>, <<"array", <<<<"value", v>>, <<"spread", e>>>>>>,
         <<"object", <<<<"spread", v>>, <<"prop", "k", FALSE, e>>>>>>,
         <<"call", Ident("f"), <<>>, <<v, e>>>>, <<"call", e, <<>>, <<>>>>, <<"member", e, "k">>,
         <<"index", e, v>>, <<"index", v, e>>, <<"try", e>>, <<"unary", "-", e>>, <<"as", e, Text>>,
         <<"binary", "+", e, v>>, <<"binary", "+", v, e>>,
         <<"if", e, v, <<>>>>, <<"if", v, e, <<>>>>, <<"if", v, v, e>>,
         <<"switch", e, <<>>, v>>, <<"switch", v, <<<<e, v>>>>, <<>>>>, <<"switch", v, <<<<v, v>>, <<v, e>>>>, <<>>>>,
         <<"switch", v, <<>>, e>>, Does(e), <<"arrow", <<>>, <<>>, <<>>, e>>, <<"arrow", <<>>, <<>>, Does(e), <<>>>>,
         <<"sql", "execute", <<"?">>, <<e>>>>, <<"fragment", <<<<"text", "t">>, <<"expr", e>>>>>>,
         <<"jsx", "p", <<<<"hidden", <<>>>>, <<"class", e>>>>, <<>>, TRUE>>,
         <<"fragment", <<<<"jsx", "p", <<>>, <<<<"jsx", "b", <<>>, <<<<"expr", e>>>>, FALSE>>>>, FALSE>>>>>>}

\* Every place in a statement.
StmtNestings(e) ==
    LET v == Ident("v")
    IN  {<<"const", <<"name", <<"x", Text>>>>, e>>, <<"const", <<"arrpat", <<<<"x", Text>>>>>>, e>>, <<"expr", e>>,
         <<"ifstmt", e, Does(v), <<>>>>, <<"ifstmt", v, Does(e), <<>>>>, <<"ifstmt", v, Does(v), Does(e)>>,
         <<"for", <<"name", <<"x", Text>>>>, e, Does(v)>>, <<"for", <<"name", <<"x", Text>>>>, v, Does(e)>>,
         <<"return", e>>, BlockOf(<<<<"expr", e>>>>)}

FunctionOf(stmt) == <<"function", FALSE, FALSE, "g", <<>>, Text, BlockOf(<<<<"return", <<>>>>, stmt>>)>>

\* Expressions around a leaf with the kinds of nodes it is in, at most n deep.
Around(leaf, n) ==
    LET around[k \in Nat] ==
            IF k = 0 THEN {<<leaf, {}>>}
            ELSE around[k - 1] \cup UNION {{<<y, x[2] \cup {y[1]}>> : y \in Nestings(x[1])} : x \in around[k - 1]}
    IN  around[n]
InFunctions(leaf, n) ==
    {[decl |-> FunctionOf(<<"expr", x[1]>>), inside |-> x[2]] : x \in Around(leaf, n)}
        \cup UNION {{[decl |-> FunctionOf(s), inside |-> x[2]] : s \in StmtNestings(x[1])} : x \in Around(leaf, 1)}

Query == <<"sql", "execute", <<"select">>, <<>>>>
ConstOf(e) == <<"constdecl", FALSE, "c", Text, e>>

\* A text without a history of its own.
Says(i, decls, sql, bad) ==
    [imports |-> i, decls |-> decls, wat |-> <<>>, bad |-> bad, sql |-> sql, leaf |-> <<>>, inside |-> {}]
Importing(i) == Says(i, <<>>, FALSE, FALSE)
Graphs ==
    {[m \in MCFiles \cup MCTexts \cup MCNames |->
        Says(CASE m = "main" -> i [] m = "a" -> j [] m = "b" -> k
               [] m = "prelude" -> l [] m = "server" -> <<"prelude">> [] OTHER -> <<>>,
             IF m = sql THEN <<FunctionOf(<<"expr", Query>>)>> ELSE <<>>, m = sql, m = bad)] :
        i \in MainImports, j \in AImports, k \in BImports, l \in LibraryImports,
        sql \in {"a", "server"}, bad \in {"none", "b", "style"}}

\* Programs that are one file, with an expression in every place.
Plain == [m \in MCFiles \cup MCTexts \cup MCNames |-> Importing(IF m = "main" THEN <<"server">> ELSE <<>>)]
SingleFiles ==
    {[Plain EXCEPT !["main"] = Says(<<>>, <<x.decl>>, "sql" \in x.inside, FALSE)] : x \in InFunctions(Ident("v"), 1)}
    \cup {[Plain EXCEPT !["main"] = Says(<<>>, <<x.decl>>, TRUE, FALSE)] : x \in InFunctions(Query, 2)}
    \cup {[Plain EXCEPT !["main"] = Says(<<>>, <<d>>, TRUE, FALSE)] :
              d \in {ConstOf(Query), ConstOf(<<"try", Query>>), <<"table", FALSE, "t", <<>>>>}}

\* Programs with a library whose function calls an extern function, with numbers
\* only or with texts, in the WAT file or not, in every place; or calls none.
Extern(name, param, ret) == <<"extern", TRUE, FALSE, name, <<<<"p", param>>>>, ret>>
I64 == <<"named", "i64">>
CallsHost == Extern("read", Text, Text)
MCExterns == {Extern("add", I64, I64), CallsHost, Extern("read", Text, I64), Extern("f", I64, Text)}
CallOf(f) == <<"call", Ident(f), <<>>, <<>>>>
Library(extern, x, leaf) ==
    [Importing(<<>>) EXCEPT !.decls = <<extern, x.decl>>, !.wat = <<{"f"}>>, !.leaf = leaf, !.inside = x.inside]
Libraries ==
    UNION {{[Plain EXCEPT !["server"] = Library(e, x, CallOf(e[4]))] : x \in InFunctions(CallOf(e[4]), IF e = CallsHost THEN 2 ELSE 1)} : e \in MCExterns}
    \cup {[Plain EXCEPT !["server"] = Library(CallsHost, x, Ident("v"))] : x \in InFunctions(Ident("v"), 1)}

MCPrograms == Graphs \cup SingleFiles \cup Libraries

\* No library, one found behind a directory that is none, one without sqlite.
MCPlaces == {<<>>, <<{"server"}, MCNames>>, <<{"prelude", "interop", "server"}>>}

\* What the proofs rest on.
ASSUME ScanFindsSql
=============================================================================
