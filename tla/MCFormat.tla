------------------------------ MODULE MCFormat ------------------------------
(***************************************************************************)
(* Texts for checking Format: each kind of expression inside each kind of  *)
(* expression and statement, types two deep, short sequences of any tokens, *)
(* literals, and comments around the parts of small programs.              *)
(***************************************************************************)
EXTENDS Format

Id(n) == <<Word(n)>>
M(ks) == Marks(ks)
In(open, text, close) == <<Mark(open)>> \o text \o <<Mark(close)>>
Close(open) == IF open = "(" THEN ")" ELSE "]"
\* Types: two constructors, one around the other, around each kind of type.
Type0 == {Id("T"), Id("null"), Id("G") \o In("<", Id("U"), ">"), <<<<"float", "1.5", <<>>>>>>, <<<<"float", "1.0", <<>>>>>>,
          Id("T") \o M(<<"[", "]">>), Id("T") \o <<Mark("|")>> \o Id("U"), In("[", Id("T") \o <<Mark(",")>> \o Id("U"), "]"),
          M(<<"(", ")", "=>">>) \o Id("U"), In("(", Id("T"), ")") \o M(<<"=>">>) \o Id("U")}
TypesAround(t) ==
    LET p == In("(", t, ")")
    IN  {p \o M(<<"[", "]">>), p \o <<Mark("|")>> \o Id("U"), Id("U") \o <<Mark("|")>> \o p, Id("G") \o In("<", p, ">"),
         In("[", p \o <<Mark(",")>> \o Id("U"), "]"), In("(", Id("x") \o <<Mark(":")>> \o p, ")") \o <<Mark("=>")>> \o Id("U"),
         In("<", Id("A"), ">") \o In("(", Id("x") \o <<Mark(":")>> \o Id("A"), ")") \o <<Mark("=>")>> \o p,
         In("{", <<StringLexeme("k"), Mark(":")>> \o p \o M(<<",", "type", ":">>) \o Id("U"), "}")}
Type1 == Type0 \cup UNION {TypesAround(t) : t \in Type0}
Type2 == Type1 \cup UNION {TypesAround(t) : t \in Type1}

Braces(stmt) == In("{", <<Newline>> \o stmt \o <<Newline>>, "}")
SqlBlock(kind, text) == <<<<kind, "", text>>>>
Template(a) == <<<<"template", <<"s", "t">>, <<a>>>>>>
Switch(value, pattern, body) ==
    <<Mark("switch")>> \o In("(", value, ")") \o In("{", <<Mark("case")>> \o pattern \o <<Mark(":")>> \o body
        \o <<Newline>> \o M(<<"default", ":">>) \o body \o <<Newline>>, "}")
Tag(text) == In("<", Id("p"), ">") \o text \o M(<<"<", "/">>) \o Id("p") \o <<Mark(">")>>
Markup == In("<", Id("p") \o Id("class") \o M(<<"=">>) \o <<StringLexeme("s"), Mark("/")>>, ">")

\* Expressions of every kind.
Expr0 == {Id("a"), Id("1"), <<<<"float", "1.5", <<>>>>>>, <<<<"float", "1.0", <<>>>>>>, <<Mark("null")>>, <<Mark("undefined")>>,
          <<StringLexeme("s")>>, M(<<"[", "]">>), In("{", Id("k"), "}"),
          Id("f") \o In("(", Id("a"), ")"), Id("f") \o In("(", Markup \o <<Mark(",")>> \o Id("a"), ")"),
          Id("c") \o In("[", Id("a"), "]"), Id("a") \o <<Mark(".")>> \o Id("m"), Id("a") \o <<Mark("?")>>, <<Mark("-")>> \o Id("a"),
          Id("a") \o <<Mark("+")>> \o Id("b"), Id("a") \o <<Mark("<")>> \o Id("b"), Id("a") \o <<Mark(">")>> \o In("(", Id("b") \o <<Mark("+")>> \o Id("c"), ")"),
          Id("a") \o <<Mark("as")>> \o Id("T"), Template(Id("a")), Template(Id("a") \o Id("b")), Template(<<>>),
          SqlBlock("fetch_one", <<Sql("select"), Mark("{")>> \o Id("a") \o <<Mark("}"), Sql("=")>> \o Id("{") \o Id("b") \o Id("}")),
          SqlBlock("execute", <<Sql("select"), Mark("?")>>),
          <<Mark("if")>> \o In("(", Id("a"), ")") \o Braces(Id("b")) \o <<Mark("else")>> \o Braces(<<Mark("return")>>),
          Switch(Id("a"), Id("v") \o <<Mark("as")>> \o Id("T"), <<Mark("return")>> \o Id("b")),
          Switch(Id("a"), In("[", Id("v"), "]") \o <<Mark("as")>> \o Id("T"), Braces(Id("b"))),
          <<Mark("function")>> \o In("(", Id("x"), ")") \o Braces(<<Mark("return")>> \o Id("a")),
          <<Mark("function")>> \o In("(", Id("x"), ")") \o <<Mark("=>")>> \o Id("a"),
          Markup, Tag(Id("w") \o Markup), Tag(<<StringLexeme("<")>>),
          M(<<"<", ">">>) \o Id("w") \o M(<<"<", "/", ">">>)}

\* Every kind of expression around another one in parentheses.
Around(e) ==
    LET p == In("(", e, ")")
        List(x, y) == x \o <<Mark(",")>> \o y
    IN  {p \o s : s \in {<<Mark(".")>> \o Id("m"), <<Mark("?")>>, In("[", Id("b"), "]"), In("(", Id("b"), ")"),
                         In("<", Id("T"), ">") \o In("(", Id("b"), ")"), <<Mark("as")>> \o Id("T"),
                         <<Mark("+")>> \o Id("b"), <<Mark("<")>> \o Id("b"), <<Mark("|")>> \o Id("b")}}
        \cup {<<Mark("-")>> \o p, Id("b") \o <<Mark("+")>> \o p, Id("b") \o <<Mark("==")>> \o p,
              Id("f") \o In("(", List(p, Id("b")), ")"), Id("f") \o In("(", List(Id("b") \o <<Mark("<")>> \o Id("c"), p), ")"),
              Id("f") \o In("(", List(Markup, p), ")"), Id("c") \o In("[", p, "]"),
              In("[", List(<<Mark("...")>> \o p, Id("b") \o <<Mark(">")>> \o In("(", Id("c") \o <<Mark("+")>> \o Id("d"), ")")), "]"),
              In("{", List(Id("k") \o <<Mark(":")>> \o p, <<Mark("...")>> \o p), "}"),
              <<Mark("function")>> \o In("(", Id("x"), ")") \o <<Mark("=>")>> \o p,
              Template(p), SqlBlock("fetch_all", <<Sql("select"), Mark("{")>> \o Id("a") \o <<Mark("}"), Sql("=")>> \o Id("{") \o e \o Id("}")),
              SqlBlock("execute", <<Sql("update"), Mark("{")>> \o p \o <<Mark("}"), Mark("{")>> \o Id("b") \o Id("}")),
              In("<", Id("p") \o Id("class") \o In("=", In("{", p, "}"), "/"), ">"), Tag(Id("w") \o In("{", p, "}")),
              Switch(p, p, Id("b")), Switch(Id("a"), Id("1"), p),
              <<Mark("if")>> \o In("(", p, ")") \o Braces(p)}
\* A few kinds, whose ends or spans differ.
Few0 == {Id("a"), M(<<"[", "]">>), Id("f") \o In("(", M(<<"[", "]">>), ")"), Markup, Id("a") \o <<Mark("as")>> \o Id("T"),
         <<Mark("-")>> \o M(<<"[", "]">>), Switch(Id("a"), Id("1"), Id("b")), SqlBlock("fetch", <<Sql("select")>>),
         <<Mark("function")>> \o In("(", Id("x"), ")") \o <<Mark("=>")>> \o Id("a")}
Expr1 == UNION {Around(e) : e \in Expr0}
Expr2 == UNION {Around(e) : e \in UNION {Around(e) : e \in {M(<<"[", "]">>), Id("a") \o <<Mark("as")>> \o Id("T"),
                                            <<Mark("function")>> \o In("(", Id("x"), ")") \o <<Mark("=>")>> \o Id("a")}}}

Const(init) == <<Mark("const")>> \o Id("c") \o <<Mark(":")>> \o Id("T") \o <<Mark("=")>> \o init
Main(stmts) == <<Mark("function")>> \o Id("main") \o In("<", Id("T"), ">") \o In("(", Id("x") \o <<Mark(":")>> \o Id("T"), ")")
                   \o <<Mark(":")>> \o Id("T") \o Braces(stmts)

\* Statements, alone and one after the other, on lines that begin with "(" and "[".
Starts == {Id("a"), Id("f") \o In("(", Id("a"), ")"), Id("a") \o <<Mark("?")>>}
Let(y, e) == <<Mark("const")>> \o y \o <<Mark("=")>> \o e
For(y, e) == <<Mark("for")>> \o In("(", <<Mark("const")>> \o y \o <<Mark("of")>> \o e, ")") \o Braces(Id("b"))
If(e, rest) == <<Mark("if")>> \o In("(", e, ")") \o Braces(Id("b")) \o rest
With1(t) == {Let(In("[", Id("y") \o <<Mark(":")>> \o t \o <<Mark(",")>> \o Id("z"), "]"), Id("a")),
             Let(In("{", Id("y") \o <<Mark(",")>> \o Id("z") \o <<Mark(":")>> \o t, "}"), Id("a")),
             For(Id("y") \o <<Mark(":")>> \o t, Id("a")),
             Let(Id("y") \o <<Mark(":")>> \o t, Id("a") \o <<Mark("as")>> \o In("(", t, ")")),
             <<Mark("function")>> \o In("(", Id("x") \o <<Mark(":")>> \o t, ")") \o <<Mark(":")>> \o t \o <<Mark("=>")>> \o Id("a"),
             Id("f") \o In("<", t, ">") \o In("(", Id("a"), ")")}
StmtsOf(e) == {In("(", e, ")"), Let(Id("y"), In("(", e, ")")), <<Mark("return")>> \o In("(", e, ")"), For(Id("y"), e), If(e, <<Mark("else")>> \o Braces(Id("a")))}
Bodies == UNION {StmtsOf(e) : e \in Expr0 \cup Expr1} \cup UNION {With1(t) : t \in Type1} \cup {<<Mark("return")>>, Braces(Id("a"))}
    \cup {s \o <<Newline>> \o t : s \in UNION {StmtsOf(e) : e \in Few0}, t \in UNION {StmtsOf(e) : e \in Few0}}
    \cup {s \o <<Newline>> \o In(open, t, Close(open)) :
              s \in Starts \cup Few0 \cup {Let(Id("y"), e) : e \in Few0}, open \in {"(", "["}, t \in Starts}
    \cup {Id("f") \o In("<", Id("T"), ">") \o <<Newline>> \o In("(", Id("a"), ")")}

Import(path) == <<Mark("import")>> \o Id("d") \o <<Mark(",")>> \o In("{", <<Mark("type")>> \o Id("A") \o <<Mark(",")>> \o Id("b"), "}")
              \o <<Mark("from"), StringLexeme(path), Newline>>
Extern(param) == M(<<"extern", "function">>) \o Id("g") \o In("(", param, ")") \o <<Mark(":")>> \o Id("T")
Decls == {<<Mark("export")>> \o Const(Id("a")), Extern(<<>>), Extern(Id("x") \o <<Mark(":")>> \o Id("T")), Extern(Id("x")),
          <<<<"table", "t", <<"id", "INT", ",", "n", "DEC", "(", "1", ",", "2", ")">>>>>>}
Aliases == {<<Mark("type")>> \o Id("A") \o <<Mark("=")>> \o t : t \in Type2}

\* Chains of operators without parentheses.
Ops == {"+", "*", "<", "==", "|"}
Chains == {Id("a") \o <<Mark(p)>> \o Id("b") \o <<Mark(q)>> \o Id("c") \o <<Mark(r)>> \o Id("d") :
              p \in Ops \cup {">="}, q \in Ops \cup {"-"}, r \in Ops \cup {"%"}}

Sources == {Const(e) : e \in Expr0 \cup Expr1 \cup Expr2 \cup Chains} \cup {Main(b) : b \in Bodies} \cup Aliases
                \cup {Import(p) \o d \o <<Newline>> \o Main(Id("a")) : p \in {"m", BackslashPath}, d \in Decls}

\* All short sequences of tokens where an expression is expected, and markup that is
\* not closed, with everything in it and in everything.
Alphabet == {Word("a"), Word("1"), Mark("/"), Mark("("), Mark(")"), Mark("["), Mark("]"),
             Mark("<"), Mark(">"), Mark("-"), Mark("."), Mark("?"), Mark("as"), Newline}
Unclosed(text) == In("<", Id("p"), ">") \o text
TypedTokens == {Const(w) : w \in UNION {[1 .. n -> Alphabet] : n \in 1 .. 4}}
    \cup {Const(Unclosed(e)) : e \in Expr0} \cup {Const(e) : e \in Around(Unclosed(<<>>))}

\* Literals of characters that mean something to the lexer, alone and inside
\* templates.
Up(S, n) == UNION {[1 .. k -> S] : k \in 0 .. n}
Chars == {"a", "n", "'", "\"", "\\", "\n", "tick", "$", "{", "}"}
Strings == {<<"string", w>> : w \in Up(Chars, 3)}
Segments == Up({"\\", "tick", "$", "{"}, 2)
Templates == {<<"template", <<w>>, <<>>>> : w \in Up(Chars, 3)}
                 \cup {<<"template", <<w, v>>, <<<<"string", s>>>>>> :
                          w \in Segments, v \in Segments, s \in Up({"}", "\\", "\"", "{"}, 1)}
\* A template inside a template, whose text has no brace and no quote.
NestedTemplates == {<<"template", <<<<>>, w>>, <<<<"template", <<v>>, <<>>>>>>>> :
              w \in Segments, v \in Up({"a", "\\", "tick", "$"}, 2)}
Paths == {<<"path", w>> : w \in Up(Chars, 2)}
AllLiterals == Strings \cup Paths \cup Templates \cup NestedTemplates

\* Every way to put up to two comments, and line breaks, around the parts of some
\* small programs.
C(ws) == [i \in DOMAIN ws |-> Com!Code(ws[i])]
SmallPrograms == {C(<<"s", "s">>), C(<<"s", "+", "s">>), C(<<"{", "s", "}", "s">>), C(<<"{", "s", "else", "s", "}">>),
             C(<<"{", "={", "s", "}", "s", "}">>), C(<<"={", "s", "+", "}", "+", "s">>), C(<<"{", "{", "}", "}">>)}

\* What may stand in a gap: n is the number of the next comment.
Gaps(n) == {<<<<"line", n>>, Com!NL>>, <<Com!NL, <<"line", n>>, Com!NL>>, <<<<"block", n>>>>, <<<<"block", n>>, Com!NL>>,
            <<<<"lines", n, 0>>>>, <<Com!NL, <<"lines", n, 0>>>>}

Few(n) == {<<<<"line", n>>, Com!NL>>, <<Com!NL, <<"line", n>>, Com!NL>>, <<<<"block", n>>>>}

WithGap(p, i, gap) == SubSeq(p, 1, i) \o gap \o SubSeq(p, i + 1, Len(p))
With(p, gaps) == {WithGap(p, i, g) : i \in 0 .. Len(p), g \in gaps}
OnLines(p) == [i \in 1 .. 2 * Len(p) |-> IF i % 2 = 1 THEN p[(i + 1) \div 2] ELSE Com!NL]
Skeletons == UNION {{p, OnLines(p)} : p \in SmallPrograms}

\* The second comment comes somewhere behind the first.
Second(q) == UNION {{WithGap(q, i, h) : i \in {k \in 0 .. Len(q) : \A j \in k + 1 .. Len(q) : Com!IsCode(q[j])}} : h \in Few(2)}
SmallFiles == UNION {UNION {Second(q) : q \in With(p, Gaps(1))} : p \in Skeletons}
=============================================================================
