------------------------------- MODULE Tokens -------------------------------
(***************************************************************************)
(* Source text and the tokens the lexer makes of it.  A text is a sequence  *)
(* of lexemes <<kind, text, parts>>, of which Newline is one; the kind of a  *)
(* keyword or of punctuation is its text.  The parts of a template are the   *)
(* texts inside ${...}, that of an SQL block is the text between its braces.  *)
(* A token is a lexeme with the line it starts on, its parts lexed.          *)
(***************************************************************************)
EXTENDS Integers, Sequences, SequencesExt

Keywords == {"import", "from", "export", "const", "type", "extern", "if", "else", "for", "of",
             "return", "true", "false", "null", "undefined", "function", "switch", "case",
             "default", "as"}
SqlKinds == {"execute", "fetch_optional", "fetch_one", "fetch", "fetch_all"}

Punctuation == {"(", ")", "{", "}", "[", "]", ",", ".", "...", ";", ":", "?", "+", "-", "*", "/", "%",
                "=", "==", "=>", "!=", "<", "<=", ">", ">=", "&", "|"}
Digits == {"0", "1", "2", "3", "4", "5", "6", "7", "8", "9"}

Newline == <<"newline", "", <<>>>>
Mark(k) == <<k, k, <<>>>>
Marks(ks) == [i \in DOMAIN ks |-> Mark(ks[i])]
Word(w) ==
    CASE w \in Keywords \cup Punctuation -> Mark(w)
      [] w \in Digits -> <<"int", w, <<>>>>
      [] OTHER -> <<"ident", w, <<>>>>

\* Inside an SQL block: plain SQL, and the quotes of its strings.
Sql(w) == <<"sql", w, <<>>>>
Quote == <<"quote", "'", <<>>>>

\* readParamExpr: the length of what stands before the brace that closes one
\* already open.
RECURSIVE ParamLength(_, _)
ParamLength(text, depth) ==
    LET step == CASE Head(text)[1] = "{" -> depth + 1 [] Head(text)[1] = "}" -> depth - 1 [] OTHER -> depth
    IN  IF text = <<>> \/ step = 0 THEN 0 ELSE 1 + ParamLength(Tail(text), step)

\* What may follow "{" in an SQL block for it to open a parameter: an identifier
\* or keyword, "(", a string or a number.
StartsParam(x) == x[1] \in {"ident", "(", "string", "int", "float"} \cup Keywords \cup SqlKinds

\* readSQLBlock: the query with "?" for each parameter, and the parameters.
RECURSIVE SkipSpace(_), ReadSQLBlock(_, _)
SkipSpace(text) == IF text # <<>> /\ Head(text) = Newline THEN SkipSpace(Tail(text)) ELSE text
ReadSQLBlock(text, quoted) ==
    LET inside == SkipSpace(Tail(text))
        n == ParamLength(inside, 1)
        rest == ReadSQLBlock(SubSeq(inside, n + 2, Len(inside)), FALSE)
        next == ReadSQLBlock(Tail(text), quoted # (Head(text) = Quote))
    IN  IF text = <<>> THEN [query |-> <<>>, params |-> <<>>]
        ELSE IF Head(text) = Newline THEN next
        ELSE IF ~ quoted /\ Head(text) = Mark("{") /\ inside # <<>> /\ StartsParam(inside[1])
        THEN [query |-> <<Mark("?")>> \o rest.query, params |-> <<SubSeq(inside, 1, n)>> \o rest.params]
        ELSE [next EXCEPT !.query = <<Head(text)>> \o @]

\* The line breaks in a lexeme: a template and an SQL block have those of their parts.
RECURSIVE LineBreaks(_), Newlines(_)
Newlines(text) == IF text = <<>> THEN 0 ELSE LineBreaks(Head(text)) + Newlines(Tail(text))
LineBreaks(x) ==
    CASE x[1] = "newline"  -> 1
      [] x[1] = "template" -> Newlines(FlattenSeq(x[3]))
      [] x[1] \in SqlKinds -> Newlines(x[3])
      [] OTHER             -> 0

\* Lexer.Next until the end of the text.  The parts are lexed by lexers of
\* their own, whose lines start at 1 (New).
RECURSIVE Lex(_)
Token(x, line) ==
    CASE x[1] = "template"   -> <<x[1], x[2], [j \in DOMAIN x[3] |-> Lex(x[3][j])], line>>
      [] x[1] \in SqlKinds   ->
             LET block == ReadSQLBlock(x[3], FALSE)
             IN  <<x[1], block.query, [j \in DOMAIN block.params |-> Lex(block.params[j])], line>>
      [] OTHER               -> <<x[1], x[2], x[3], line>>
Lex(text) ==
    LET RECURSIVE From(_, _)
        From(i, line) ==
            IF i > Len(text) THEN <<<<"eof", "", <<>>, line>>>>
            ELSE (IF text[i] = Newline THEN <<>> ELSE <<Token(text[i], line)>>)
                 \o From(i + 1, line + LineBreaks(text[i]))
    IN  From(1, 1)
=============================================================================
