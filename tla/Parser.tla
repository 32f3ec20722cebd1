------------------------------- MODULE Parser -------------------------------
(***************************************************************************)
(* The recursive-descent parser: a function from tokens to a module or an   *)
(* error.  A parser state s has the tokens, the index of p.curr, whether an *)
(* error has been recorded (ParseModule returns the first, the parser goes   *)
(* on after it) and whether a loop was entered that never ends.             *)
(*                                                                          *)
(* A parse returns [s, v, end]: the state after it, the node, and the line   *)
(* its span ends on, which decides whether "(" or "[" continues an           *)
(* expression.  A node is a tuple that starts with its kind; <<>> is nil.   *)
(***************************************************************************)
EXTENDS Tokens

Start(tokens) == [tokens |-> tokens, i |-> 1, err |-> FALSE, stuck |-> FALSE]
R(s, v, end) == [s |-> s, v |-> v, end |-> end, bad |-> FALSE]

Curr(s) == s.tokens[s.i]
Kind(s) == Curr(s)[1]
Text(s) == Curr(s)[2]
Parts(s) == Curr(s)[3]
Line(s) == Curr(s)[4]

\* next, err, expect, consumeForbiddenSemicolon.  At the end next stays there.
Skip(s) == IF s.i < Len(s.tokens) THEN [s EXCEPT !.i = @ + 1] ELSE s
Peek(s) == Kind(Skip(s))
\* Seeded fault (of Err): the error is not recorded.
NoErr(s) == s
Err(s) == [s EXCEPT !.err = TRUE]
Expect(s, k) == IF Kind(s) = k THEN Skip(s) ELSE Err(s)
Semicolon(s) == IF Kind(s) = ";" THEN Skip(Err(s)) ELSE s

\* The constructs that contain each other refer to one another by name: Parse,
\* at the end of the grammar, says which parser a name stands for.
RECURSIVE Parse(_, _)
Type(s) == Parse("type", s)
Expr(s) == Parse("expr", s)
Stmt(s) == Parse("stmt", s)
Block(s) == Parse("block", s)
TypePrimary(s) == Parse("typePrimary", s)
JSXElement(s) == Parse("element", s)

(***************************************************************************)
(* Lists: one loop serves every comma-separated list; the last comma may be *)
(* followed by the closing token.                                           *)
(***************************************************************************)
OptionalType(s) == IF Kind(s) = ":" THEN Type(Skip(s)) ELSE R(s, <<>>, Line(s))

\* A name with an optional type: parameters and destructuring patterns.
ParseName(s) ==
    LET type == OptionalType(Expect(s, "ident"))
    IN  R(type.s, <<Text(s), type.v>>, type.end)

ParseImportItem(s) ==
    LET s1 == IF Kind(s) = "type" THEN Skip(s) ELSE s
    IN  R(Expect(s1, "ident"), <<Text(s1), Kind(s) = "type">>, Line(s1))

ParseArrayEntry(s) ==
    LET spread == Kind(s) = "..."
        value == Expr(IF spread THEN Skip(s) ELSE s)
    IN  R(value.s, <<IF spread THEN "spread" ELSE "value", value.v>>, value.end)

Broken(s) == [R(Err(s), <<>>, Line(s)) EXCEPT !.bad = TRUE]

ParseObjectEntry(s) ==
    LET Prop(value, quoted) == R(value.s, <<"prop", Text(s), quoted, value.v>>, value.end)
        next == Skip(s)
        spread == Expr(next)
    IN  CASE Kind(s) = "..."    -> R(spread.s, <<"spread", spread.v>>, spread.end)
          [] Kind(s) = "string" -> Prop(Expr(Expect(next, ":")), TRUE)
          [] Kind(s) = "ident" /\ Kind(next) = ":" -> Prop(Expr(Skip(next)), FALSE)
          [] Kind(s) = "ident" /\ Kind(next) \in {",", "}"} ->
                 Prop(R(next, <<"ident", Text(s)>>, Line(s)), FALSE)
          [] Kind(s) = "ident" /\ Kind(next) \notin {":", ",", "}"} -> Broken(next)
          [] OTHER -> Broken(s)

ParseTypeProp(s) ==
    LET type == Type(Expect(Skip(s), ":"))
    IN  IF Kind(s) \in {"string", "ident"} \cup Keywords \cup SqlKinds
        THEN R(type.s, <<Text(s), Kind(s) = "string", type.v>>, type.end)
        ELSE Broken(s)

ParseFuncTypeParam(s) ==
    LET named == Kind(s) = "ident" /\ Peek(s) = ":"
        type == Type(IF named THEN Skip(Skip(s)) ELSE s)
    IN  R(type.s, <<IF named THEN Text(s) ELSE "", type.v>>, type.end)

RECURSIVE CommaList(_, _, _)
CommaList(item, close, s) ==
    LET x == Parse(item, s)
        after == Skip(x.s)
        rest == CommaList(item, close, after)
    IN  IF x.bad THEN R(x.s, <<>>, x.end)
        ELSE IF Kind(x.s) # "," THEN R(x.s, <<x.v>>, x.end)
        ELSE IF Kind(after) = close
             THEN R(IF item = "arg" THEN Err(after) ELSE after, <<x.v>>, x.end)
             ELSE R(rest.s, <<x.v>> \o rest.v, rest.end)

\* A list between brackets; line is where a span without elements ends.
Bracketed(item, open, close, s, line) ==
    LET s1 == Expect(s, open)
        list == IF Kind(s1) = close THEN R(s1, <<>>, line) ELSE CommaList(item, close, s1)
    IN  R(Expect(list.s, close), list.v, list.end)

ParseParamList(s) == Bracketed("name", "(", ")", s, 0)
ParseArrayPatternNames(s) == Bracketed("name", "[", "]", s, 0)
ParseObjectPatternKeys(s) == Bracketed("name", "{", "}", s, 0)
ParseTypeParamList(s) ==
    LET list == CommaList("typeParam", ">", Expect(s, "<")) IN R(Expect(list.s, ">"), list.v, 0)
OptionalTypeParams(s) == IF Kind(s) = "<" THEN ParseTypeParamList(s) ELSE R(s, <<>>, 0)

(***************************************************************************)
(* Types                                                                    *)
(***************************************************************************)
\* The loop of parseTypeApplication, with s at the token before an argument.
RECURSIVE TypeArgs(_)
TypeArgs(s) ==
    LET arg == Type(Skip(s))
        after == Skip(arg.s)
        rest == TypeArgs(after)
    IN  IF Kind(Skip(s)) = ">" THEN R(Err(Skip(s)), <<>>, 0)
        ELSE IF Kind(arg.s) # "," THEN R(arg.s, <<arg.v>>, 0)
        ELSE IF Kind(after) = ">" THEN R(after, <<arg.v>>, 0)
        ELSE R(rest.s, <<arg.v>> \o rest.v, 0)

ParseTypeApplication(base) ==
    LET args == TypeArgs(base.s)
    IN  IF Kind(base.s) # "<" THEN base
        ELSE R(Expect(args.s, ">"), <<"generic", base.v[2], args.v>>, Line(args.s))

RECURSIVE ParseTypeSuffix(_)
ParseTypeSuffix(base) ==
    IF Kind(base.s) # "[" THEN base
    ELSE LET s1 == Expect(Skip(base.s), "]")
         IN  ParseTypeSuffix(R(s1, <<"array", base.v>>, Line(s1)))

\* parseFuncTypeBody: a function type, or a type in parentheses.
ParseFuncTypeBody(s, typeParams) ==
    LET list == IF Kind(s) = ")" THEN R(s, <<>>, Line(s)) ELSE CommaList("funcParam", ")", s)
        s1 == Expect(list.s, ")")
        ret == Type(Skip(s1))
    IN  CASE Kind(s1) = "=>" -> R(ret.s, <<"func", typeParams, list.v, ret.v>>, ret.end)
          [] Kind(s1) # "=>" /\ Len(list.v) = 1 /\ list.v[1][1] = "" -> R(s1, list.v[1][2], list.end)
          [] OTHER -> R(Err(s1), <<"named", "">>, Line(s))

ParseTypePrimary(s) ==
    LET tuple == Bracketed("type", "[", "]", s, 0)
        object == Bracketed("typeProp", "{", "}", s, 0)
        typeParams == ParseTypeParamList(s)
    IN  CASE Kind(s) = "ident" ->
                 ParseTypeSuffix(ParseTypeApplication(R(Skip(s), <<"named", Text(s)>>, Line(s))))
          [] Kind(s) \in {"null", "undefined"} ->
                 ParseTypeSuffix(R(Skip(s), <<"named", Text(s)>>, Line(s)))
          [] Kind(s) = "[" -> ParseTypeSuffix(R(tuple.s, <<"tuple", tuple.v>>, Line(tuple.s)))
          [] Kind(s) = "{" -> ParseTypeSuffix(R(object.s, <<"object", object.v>>, Line(object.s)))
          [] Kind(s) = "<" -> IF Kind(typeParams.s) = "("
                              THEN ParseTypeSuffix(ParseFuncTypeBody(Skip(typeParams.s), typeParams.v))
                              ELSE R(Err(typeParams.s), <<"named", "">>, Line(typeParams.s))
          [] Kind(s) = "(" -> ParseTypeSuffix(ParseFuncTypeBody(Skip(s), <<>>))
          [] Kind(s) \in {"int", "float", "string", "true", "false"} ->
                 ParseTypeSuffix(R(Skip(s), <<"lit", Kind(s), Text(s)>>, Line(s)))
          [] OTHER -> R(Skip(Err(s)), <<"named", "">>, Line(Skip(s)))

RECURSIVE UnionMembers(_)
UnionMembers(s) ==
    LET member == TypePrimary(Skip(s))
        rest == UnionMembers(member.s)
    IN  IF Kind(s) # "|" THEN R(s, <<>>, 0)
        ELSE R(rest.s, <<member.v>> \o rest.v, IF rest.v = <<>> THEN member.end ELSE rest.end)

ParseType(s) ==
    LET left == TypePrimary(s)
        more == UnionMembers(left.s)
    IN  IF Kind(left.s) # "|" THEN left
        ELSE R(more.s, <<"union", <<left.v>> \o more.v>>, more.end)

(***************************************************************************)
(* Expressions                                                              *)
(***************************************************************************)
\* tryParseCallTypeArgs: "<" types ">" "(", or nothing is consumed and the
\* errors met on the way are forgotten.
TryParseCallTypeArgs(s) ==
    LET list == CommaList("type", ">", Skip(s))
        found == /\ Peek(s) # ">"
                 /\ Kind(list.s) = ">"
                 /\ Peek(list.s) = "("
    IN  IF found THEN [ok |-> TRUE, s |-> Skip(list.s), v |-> list.v]
        ELSE [ok |-> FALSE, s |-> s, v |-> <<>>]

ParseArgs(s) == Bracketed("arg", "(", ")", s, 0)

\* Seeded fault: line breaks do not matter.
ContinuesAnywhere(x) == TRUE

\* "(" and "[" continue an expression only on the line its span ends on.
Continues(x) == Line(x.s) <= x.end

RECURSIVE ParsePostfix(_, _), ParseUnary(_)
\* parsePostfix after its primary x, with the type arguments that are pending.
ParsePostfix(x, typeArgs) ==
    LET k == Kind(x.s)
        next == Skip(x.s)
        try == TryParseCallTypeArgs(x.s)
        args == ParseArgs(x.s)
        index == Expr(next)
        type == Type(next)
    IN  CASE k = "<" /\ try.ok -> ParsePostfix([x EXCEPT !.s = try.s], try.v)
          [] k = "<" /\ ~ try.ok -> [x EXCEPT !.s = try.s]
          [] k = "(" /\ Continues(x) ->
                 ParsePostfix(R(args.s, <<"call", x.v, typeArgs, args.v>>,
                                IF args.v = <<>> THEN x.end ELSE args.end), <<>>)
          [] k = "." -> ParsePostfix(R(Expect(next, "ident"), <<"member", x.v, Text(next)>>, Line(next)), typeArgs)
          [] k = "[" /\ Continues(x) ->
                 ParsePostfix(R(Expect(index.s, "]"), <<"index", x.v, index.v>>, index.end), typeArgs)
          [] k = "?" -> ParsePostfix(R(next, <<"try", x.v>>, Line(x.s)), typeArgs)
          [] k = "as" -> ParsePostfix(R(type.s, <<"as", x.v, type.v>>, type.end), typeArgs)
          [] OTHER -> x

ParseUnary(s) ==
    IF Kind(s) \in {"+", "-"}
    THEN LET x == ParseUnary(Skip(s)) IN R(x.s, <<"unary", Kind(s), x.v>>, x.end)
    ELSE ParsePostfix(Parse("primary", s), <<>>)

\* Seeded fault: comparisons bind as equality does.
FlatPrecedence(k) ==
    CASE k = "|" -> 1
      [] k = "&" -> 2
      [] k \in {"==", "!=", "<", "<=", ">", ">="} -> 3
      [] k \in {"+", "-"} -> 5
      [] k \in {"*", "/", "%"} -> 6
      [] OTHER -> -1

BinaryPrecedence(k) ==
    CASE k = "|" -> 1
      [] k = "&" -> 2
      [] k \in {"==", "!="} -> 3
      [] k \in {"<", "<=", ">", ">="} -> 4
      [] k \in {"+", "-"} -> 5
      [] k \in {"*", "/", "%"} -> 6
      [] OTHER -> -1

RECURSIVE ParseBinary(_, _), ParseExpr(_, _)
ParseBinary(precedence, left) ==
    LET prec == BinaryPrecedence(Kind(left.s))
        right == ParseExpr(prec + 1, Skip(left.s))
    IN  IF prec < precedence THEN left
        ELSE ParseBinary(precedence,
                 R(right.s, <<"binary", Kind(left.s), left.v, right.v>>, right.end))
ParseExpr(precedence, s) == ParseBinary(precedence, ParseUnary(s))

\* The expressions inside a template or an SQL block have parsers of their own,
\* whose errors and remaining tokens nobody looks at.
Interpolated(s) ==
    LET parsed == [j \in DOMAIN Parts(s) |-> Expr(Start(Parts(s)[j]))]
        next == Skip(s)
    IN  [s |-> [next EXCEPT !.stuck = @ \/ \E j \in DOMAIN parsed : parsed[j].s.stuck],
         exprs |-> [j \in DOMAIN parsed |-> parsed[j].v]]

(***************************************************************************)
(* JSX                                                                      *)
(***************************************************************************)
IsClosing(s) == Kind(s) = "<" /\ Peek(s) = "/"

IsAttributeName(s) ==
    Kind(s) \in {"ident"} \cup (Keywords \ {"null", "undefined", "as"})

RECURSIVE ParseAttributes(_)
ParseAttributes(s) ==
    LET next == Skip(s)
        braced == Expr(Skip(Skip(next)))
        value == IF Kind(next) # "=" THEN R(next, <<>>, 0)
                 ELSE IF Peek(next) = "string"
                      THEN R(Skip(Skip(next)), <<"string", Text(Skip(next))>>, 0)
                 ELSE IF Peek(next) = "{" THEN R(Expect(braced.s, "}"), braced.v, 0)
                 ELSE R(Err(Skip(next)), <<>>, 0)
        rest == ParseAttributes(value.s)
    IN  IF ~ IsAttributeName(s) THEN R(s, <<>>, 0)
        ELSE R(rest.s, <<<<Text(s), value.v>>>> \o rest.v, 0)

RECURSIVE ParseJSXText(_)
ParseJSXText(s) ==
    LET rest == ParseJSXText(Skip(s))
    IN  IF Kind(s) \in {"<", "{", "eof"} THEN R(s, <<>>, 0)
        ELSE R(rest.s, (IF Text(s) = "" THEN <<>> ELSE <<Text(s)>>) \o rest.v, 0)

\* parseJSXChildren, and the loop of parseJSXFragment.  At the end of the file
\* parseJSXChild returns without having consumed a token, for ever.
RECURSIVE ParseJSXChildren(_)
ParseJSXChildren(s) ==
    LET expr == Expr(Skip(s))
        element == JSXElement(s)
        text == ParseJSXText(s)
        child == CASE Kind(s) = "<" -> R(element.s,
                          IF element.v[1] = "jsx" THEN element.v
                          ELSE <<"jsx", "", <<>>, element.v[2], FALSE>>, 0)
                   [] Kind(s) = "{" -> R(Expect(expr.s, "}"), <<"expr", expr.v>>, 0)
                   [] OTHER -> R(text.s, <<"text", text.v>>, 0)
        rest == ParseJSXChildren(child.s)
    IN  IF s.stuck \/ IsClosing(s) THEN R(s, <<>>, 0)
        ELSE IF Kind(s) = "eof" THEN R([s EXCEPT !.stuck = TRUE], <<>>, 0)
        ELSE R(rest.s, (IF child.v = <<"text", <<>>>> THEN <<>> ELSE <<child.v>>) \o rest.v, 0)

ParseJSXElement(s) ==
    LET open == Skip(s)
        children == ParseJSXChildren(Skip(open))
        endFragment == Expect(Expect(Expect(children.s, "<"), "/"), ">")
        attrs == ParseAttributes(Expect(open, "ident"))
        selfClosed == Expect(Skip(attrs.s), ">")
        inner == ParseJSXChildren(Expect(attrs.s, ">"))
        closed == Expect(Expect(Expect(Expect(inner.s, "<"), "/"), "ident"), ">")
    IN  CASE Kind(open) = ">" -> R(endFragment, <<"fragment", children.v>>, Line(endFragment))
          [] Kind(open) # ">" /\ Kind(attrs.s) = "/" ->
                 R(selfClosed, <<"jsx", Text(open), attrs.v, <<>>, TRUE>>, Line(selfClosed))
          [] OTHER -> R(closed, <<"jsx", Text(open), attrs.v, inner.v, FALSE>>, Line(closed))

(***************************************************************************)
(* Primary expressions                                                      *)
(***************************************************************************)
\* The result of a construct whose span ends where the next token starts.
UpToNext(s, v) == R(s, v, Line(s))

ParseFunctionLiteral(s) ==
    LET params == ParseParamList(Skip(s))
        ret == OptionalType(params.s)
        arrow == Kind(ret.s) = "=>"
        bodyAt == IF arrow THEN Skip(ret.s) ELSE ret.s
        block == Block(bodyAt)
        expr == Expr(bodyAt)
    IN  IF arrow /\ Kind(bodyAt) # "{"
        THEN UpToNext(expr.s, <<"arrow", params.v, ret.v, <<>>, expr.v>>)
        ELSE UpToNext(block.s, <<"arrow", params.v, ret.v, block.v, <<>>>>)

RECURSIVE BlockStmts(_, _)
BlockStmts(s, separate) ==
    LET stmt == Stmt(s)
        rest == BlockStmts(stmt.s, separate)
    IN  IF Kind(s) \in {"}", "eof"} THEN R(s, <<>>, 0)
        ELSE IF separate /\ Kind(s) = ";" THEN BlockStmts(Semicolon(s), separate)
        ELSE R(rest.s, <<stmt.v>> \o rest.v, 0)

\* parseBlock and parseBlockExpr; a block's span ends at its brace.
ParseBlock(s) ==
    LET stmts == BlockStmts(Expect(s, "{"), TRUE)
    IN  R(Expect(stmts.s, "}"), <<"block", stmts.v>>, Line(stmts.s))
ParseBlockExpr(s) ==
    LET stmts == BlockStmts(Expect(s, "{"), FALSE)
    IN  R(Expect(stmts.s, "}"), <<"block", stmts.v>>, Line(stmts.s))

ParseIfClause(s) == IF Kind(s) = "{" THEN ParseBlockExpr(s) ELSE Expr(Err(s))

ParseIfExpr(s) ==
    LET cond == Expr(Expect(Skip(s), "("))
        then == ParseIfClause(Expect(cond.s, ")"))
        else == ParseIfClause(Skip(then.s))
    IN  IF Kind(then.s) = "else"
        THEN UpToNext(else.s, <<"if", cond.v, then.v, else.v>>)
        ELSE UpToNext(then.s, <<"if", cond.v, then.v, <<>>>>)

\* parseSwitchCasePattern: a binding pattern if "as" follows it, else the
\* parser goes back and reads an expression.
ParseCasePattern(s) ==
    LET bind == CASE Kind(s) = "ident" -> R(Skip(s), <<"ident", Text(s)>>, 0)
                  [] Kind(s) = "{" -> LET keys == ParseObjectPatternKeys(s) IN R(keys.s, <<"objpat", keys.v>>, 0)
                  [] Kind(s) = "[" -> LET names == ParseArrayPatternNames(s) IN R(names.s, <<"arrpat", names.v>>, 0)
                  [] OTHER -> R(s, <<>>, 0)
        type == Type(Skip(bind.s))
    IN  IF Kind(s) \in {"ident", "{", "["} /\ Kind(bind.s) = "as"
        THEN R(type.s, <<"as", bind.v, type.v>>, type.end)
        ELSE Expr(s)

\* parseReturn: a value only on the line of "return".
ParseReturn(s) ==
    LET next == Skip(s)
        value == Expr(next)
    IN  IF Kind(next) \notin {";", "}", "eof"} /\ Line(next) = Line(s)
        THEN R(Semicolon(value.s), <<"return", value.v>>, 0)
        ELSE R(Semicolon(next), <<"return", <<>>>>, 0)

ParseCaseBody(s) ==
    LET ret == ParseReturn(s)
    IN  CASE Kind(s) = "{" -> ParseBlockExpr(s)
          [] Kind(s) = "return" -> R(ret.s, <<"block", <<ret.v>>>>, 0)
          [] OTHER -> Expr(s)

\* The cases and the default, in any order; of two defaults the last remains.
RECURSIVE ParseCases(_, _)
ParseCases(s, x) ==
    LET pattern == Parse("pattern", Skip(s))
        body == ParseCaseBody(Expect(pattern.s, ":"))
        default == ParseCaseBody(Expect(Skip(s), ":"))
    IN  CASE Kind(s) = "case" -> ParseCases(body.s, [x EXCEPT !.cases = Append(@, <<pattern.v, body.v>>)])
          [] Kind(s) = "default" -> ParseCases(default.s, [x EXCEPT !.default = default.v])
          [] Kind(s) \in {"}", "eof"} -> [x EXCEPT !.s = s]
          [] OTHER -> [x EXCEPT !.s = Err(s)]

ParseSwitchExpr(s) ==
    LET value == Expr(Expect(Skip(s), "("))
        open == Expect(Expect(value.s, ")"), "{")
        x == ParseCases(open, [s |-> open, cases |-> <<>>, default |-> <<>>])
    IN  UpToNext(Expect(x.s, "}"), <<"switch", value.v, x.cases, x.default>>)

ParsePrimary(s) ==
    LET k == Kind(s)
        inner == Expr(Skip(s))
        array == Bracketed("entry", "[", "]", s, 0)
        object == Bracketed("prop", "{", "}", s, 0)
        parts == Interpolated(s)
    IN  CASE k \in {"ident", "int", "float", "string"} -> R(Skip(s), <<k, Text(s)>>, Line(s))
          [] k \in {"true", "false"} -> R(Skip(s), <<"bool", k>>, Line(s))
          [] k \in {"null", "undefined"} -> R(Skip(s), <<k>>, Line(s))
          [] k = "template" -> R(parts.s, <<k, Text(s), parts.exprs>>, Line(s))
          [] k \in SqlKinds -> R(parts.s, <<"sql", k, Text(s), parts.exprs>>, Line(s))
          [] k = "(" -> R(Expect(inner.s, ")"), inner.v, inner.end)
          [] k = "[" -> UpToNext(array.s, <<"array", array.v>>)
          [] k = "{" -> UpToNext(object.s, <<"object", object.v>>)
          [] k \in {"function", "switch", "if"} -> Parse(k, s)
          [] k = "<" -> JSXElement(s)
          [] OTHER -> R(Skip(Err(s)), <<"ident", "">>, Line(Skip(s)))

(***************************************************************************)
(* Statements                                                               *)
(***************************************************************************)
\* The binding of a const statement or of a for loop.
ParseBinding(s) ==
    LET name == ParseName(s)
        array == ParseArrayPatternNames(s)
        object == ParseObjectPatternKeys(s)
    IN  CASE Kind(s) = "[" -> R(array.s, <<"arrpat", array.v>>, 0)
          [] Kind(s) = "{" -> R(object.s, <<"objpat", object.v>>, 0)
          [] OTHER -> R(name.s, <<"name", name.v>>, 0)

ParseConstStmt(s) ==
    LET binding == ParseBinding(Skip(s))
        init == Expr(Expect(binding.s, "="))
    IN  R(Semicolon(init.s), <<"const", binding.v, init.v>>, 0)

ParseIf(s) ==
    LET cond == Expr(Expect(Skip(s), "("))
        then == Block(Expect(cond.s, ")"))
        else == Block(Skip(then.s))
    IN  IF Kind(then.s) = "else"
        THEN R(else.s, <<"ifstmt", cond.v, then.v, else.v>>, 0)
        ELSE R(then.s, <<"ifstmt", cond.v, then.v, <<>>>>, 0)

ParseForOf(s) ==
    LET binding == ParseBinding(Expect(Expect(Skip(s), "("), "const"))
        iter == Expr(Expect(binding.s, "of"))
        body == Block(Expect(iter.s, ")"))
    IN  R(body.s, <<"for", binding.v, iter.v, body.v>>, 0)

ParseStmt(s) ==
    LET expr == Expr(s)
    IN  CASE Kind(s) = "const" -> ParseConstStmt(s)
          [] Kind(s) = "if" -> ParseIf(s)
          [] Kind(s) = "for" -> ParseForOf(s)
          [] Kind(s) = "return" -> ParseReturn(s)
          [] Kind(s) = "{" -> Block(s)
          [] Kind(s) = ";" -> Stmt(Semicolon(s))
          [] OTHER -> R(Semicolon(expr.s), <<"expr", expr.v>>, 0)

(***************************************************************************)
(* Declarations                                                             *)
(***************************************************************************)
ParseConstDecl(s, export) ==
    LET name == Skip(s)
        type == Type(Expect(Expect(name, "ident"), ":"))
        init == Expr(Expect(type.s, "="))
    IN  R(Semicolon(init.s), <<"constdecl", export, Text(name), type.v, init.v>>, 0)

\* parseFuncDecl and parseExternFuncDecl, with s at the name.
ParseFunction(s, export, extern) ==
    LET typeParams == OptionalTypeParams(Expect(s, "ident"))
        params == ParseParamList(typeParams.s)
        ret == Type(Expect(params.s, ":"))
        body == Block(ret.s)
        Node(kind, last) == <<kind, export, Text(s), typeParams.v, params.v, ret.v, last>>
    IN  IF extern THEN R(Semicolon(ret.s), Node("extern", <<>>), 0)
        ELSE R(body.s, Node("function", body.v), 0)

ParseTypeAliasDecl(s, export) ==
    LET typeParams == OptionalTypeParams(Expect(Skip(s), "ident"))
        type == Type(Expect(typeParams.s, "="))
    IN  R(Semicolon(type.s), <<"type", export, Text(Skip(s)), typeParams.v, type.v>>, 0)

\* parseTableColumns, parseColumnDef: columns are separated by commas outside
\* parentheses; one of fewer than two words is dropped.
RECURSIVE TableColumns(_, _, _)
TableColumns(words, depth, column) ==
    LET Kept(c) == IF Len(c) < 2 THEN <<>> ELSE <<<<c[1], c[2], SubSeq(c, 3, Len(c))>>>>
        w == Head(words)
    IN  IF words = <<>> THEN Kept(column)
        ELSE IF w = "," /\ depth = 0 THEN Kept(column) \o TableColumns(Tail(words), 0, <<>>)
        ELSE TableColumns(Tail(words),
                          CASE w = "(" -> depth + 1 [] w = ")" -> depth - 1 [] OTHER -> depth,
                          Append(column, w))

\* sync: to behind the next ";" or "}".
RECURSIVE Sync(_)
Sync(s) == IF Kind(s) = "eof" THEN s
           ELSE IF Kind(s) \in {";", "}"} THEN Skip(s) ELSE Sync(Skip(s))

ParseDecl(s) ==
    LET export == Kind(s) = "export"
        s1 == IF export THEN Skip(s) ELSE s
    IN  CASE Kind(s1) = "const" -> ParseConstDecl(s1, export)
          [] Kind(s1) = "extern" -> ParseFunction(Expect(Skip(s1), "function"), export, TRUE)
          [] Kind(s1) = "function" -> ParseFunction(Skip(s1), export, FALSE)
          [] Kind(s1) = "type" -> ParseTypeAliasDecl(s1, export)
          [] Kind(s1) = "table" -> R(Skip(s1), <<"table", Text(s1), TableColumns(Parts(s1), 0, <<>>)>>, 0)
          [] OTHER -> R(Sync(Err(s1)), <<>>, 0)

ParseImport(s) ==
    LET first == Skip(s)
        named == Kind(first) = "ident"
        both == named /\ Peek(first) = ","
        items == Bracketed("importItem", "{", "}", IF both THEN Skip(Skip(first)) ELSE first, 0)
        from == Expect(IF named /\ ~ both THEN Skip(first) ELSE items.s, "from")
    IN  R(Semicolon(Expect(from, "string")),
          <<"import", IF named THEN Text(first) ELSE "",
            IF named /\ ~ both THEN <<>> ELSE items.v, Text(from)>>, 0)

RECURSIVE ParseImports(_), ParseDecls(_)
ParseImports(s) ==
    LET x == Parse("import", s)
        rest == ParseImports(x.s)
    IN  IF Kind(s) = "import" THEN R(rest.s, <<x.v>> \o rest.v, 0) ELSE R(s, <<>>, 0)
ParseDecls(s) ==
    LET x == Parse("decl", s)
        rest == ParseDecls(x.s)
    IN  IF Kind(s) = "eof" THEN R(s, <<>>, 0)
        ELSE IF Kind(s) = ";" THEN ParseDecls(Semicolon(s))
        ELSE R(rest.s, (IF x.v = <<>> THEN <<>> ELSE <<x.v>>) \o rest.v, 0)

\* The loops of ParseModule.
ParseFile(s) ==
    LET imports == Parse("imports", s)
        decls == Parse("decls", imports.s)
    IN  R(decls.s, <<imports.v, decls.v>>, 0)

\* Those that are referred to by name.
Parse(construct, s) ==
    CASE construct = "type"        -> ParseType(s)
      [] construct = "typePrimary" -> ParseTypePrimary(s)
      [] construct = "expr"        -> ParseExpr(0, s)
      [] construct = "primary"     -> ParsePrimary(s)
      [] construct = "element"     -> ParseJSXElement(s)
      [] construct = "stmt"        -> ParseStmt(s)
      [] construct = "block"       -> ParseBlock(s)
      [] construct = "switch"      -> ParseSwitchExpr(s)
      [] construct = "pattern"     -> ParseCasePattern(s)
      [] construct = "function"    -> ParseFunctionLiteral(s)
      [] construct = "if"          -> ParseIfExpr(s)
      [] construct = "import"      -> ParseImport(s)
      [] construct = "decl"        -> ParseDecl(s)
      [] construct = "imports"     -> ParseImports(s)
      [] construct = "decls"       -> ParseDecls(s)
      [] construct = "module"      -> ParseFile(s)
      [] construct = "name"        -> ParseName(s)
      [] construct = "importItem"  -> ParseImportItem(s)
      [] construct = "arg"         -> ParseExpr(0, s)
      [] construct = "entry"       -> ParseArrayEntry(s)
      [] construct = "prop"        -> ParseObjectEntry(s)
      [] construct = "typeProp"    -> ParseTypeProp(s)
      [] construct = "funcParam"   -> ParseFuncTypeParam(s)
      [] construct = "typeParam"   -> IF Kind(s) = "ident" THEN R(Skip(s), Text(s), Line(s)) ELSE Broken(s)

\* ParseModule: the module, unless some error was recorded.
Outcome(x) == [ok |-> ~ x.s.err /\ ~ x.s.stuck, stuck |-> x.s.stuck, module |-> x.v]
ParseModule(tokens) == Outcome(Parse("module", Start(tokens)))
=============================================================================
