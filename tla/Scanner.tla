------------------------------- MODULE Scanner -------------------------------
(***************************************************************************)
(* What the lexer reads at a place of a text, character by character.        *)
(***************************************************************************)
EXTENDS Chars

(***************************************************************************)
(* skipSpace: comments are recorded, with whether something other than       *)
(* blanks stands before them on their line.                                  *)
(***************************************************************************)
StartsComment(t, i) == At(t, i) = "/" /\ At(t, i + 1) \in {"/", "*"}

LineEnd(t, i) == Min({j \in i .. Len(t) + 1 : At(t, j) \in {"\n", "eof"}})
CommentEnd(t, i) ==
    IF At(t, i + 1) = "/" THEN LineEnd(t, i)
    ELSE Min({j \in i + 4 .. Len(t) + 1 : t[j - 2] = "*" /\ t[j - 1] = "/"} \cup {Len(t) + 1})

SkipRound(t, l) ==
    LET comment == [from |-> l.pos, to |-> CommentEnd(t, l.pos), inline |-> HasCodeBeforeInLine(t, l.pos)]
    IN  IF StartsComment(t, l.pos) THEN [pos |-> comment.to, comments |-> Append(l.comments, comment)]
        ELSE IF At(t, l.pos) \in Space THEN [l EXCEPT !.pos = @ + 1]
        ELSE l
SkipSpace(t, i) ==
    Loop([l \in [pos : Place(t), comments : Seq(CommentType)] |-> SkipRound(t, l)],
         [pos |-> i, comments |-> <<>>], t)

\* readNumber: one "." anywhere, and any number of exponent letters.
NumberRound(t, l) ==
    CASE At(t, l.pos) \in Digits -> [l EXCEPT !.pos = @ + 1]
      [] At(t, l.pos) = "." /\ ~ l.isFloat -> [pos |-> l.pos + 1, isFloat |-> TRUE]
      [] At(t, l.pos) = "e" ->
             [pos |-> IF At(t, l.pos + 1) \in {"+", "-"} THEN l.pos + 2 ELSE l.pos + 1, isFloat |-> TRUE]
      [] OTHER -> l
ReadNumber(t, i) ==
    Loop([l \in [pos : Place(t), isFloat : BOOLEAN] |-> NumberRound(t, l)], [pos |-> i, isFloat |-> FALSE], t)

(***************************************************************************)
(* Strings and templates.  An escape sequence is two characters, or "u" and  *)
(* the four after it (fewer at the end), which stand for a character if they *)
(* are hexadecimal and for nothing otherwise.                                *)
(***************************************************************************)
Hex == Digits \cup {"a", "b", "e"}
EscapeEnd(t, i) == IF At(t, i + 1) = "u" THEN Min({i + 6, Len(t) + 1}) ELSE Min({i + 2, Len(t) + 1})

Unescaped(t, i) ==
    LET c == At(t, i + 1)
        hex == Slice(t, i + 2, EscapeEnd(t, i))
    IN  CASE c = "n" -> <<"\n">>
          [] c = "r" -> <<"\r">>
          [] c = "t" -> <<"\t">>
          [] c = "u" -> IF ToSet(hex) \subseteq Hex THEN <<"code">> ELSE <<>>
          [] c = "eof" -> <<>>
          [] OTHER -> <<c>>

\* Behind the character at i, or at the end of the file.
After(t, i) == Min({i + 1, Len(t) + 1})

\* The marks of blocks and of strings.
Open == "{"
Close == "}"
Quotes == {"'", "\""}

\* The characters of a value: those of the text, and those that escapes stand for.
Char == STRING \cup {"\n", "\r", "\t", "code"}

\* readString, with i behind the opening quote.
StringRound(t, quote, l) ==
    CASE At(t, l.pos) \in {quote, "eof"} -> l
      [] At(t, l.pos) = "\\" -> [pos |-> EscapeEnd(t, l.pos), value |-> l.value \o Unescaped(t, l.pos)]
      [] OTHER -> [pos |-> l.pos + 1, value |-> Append(l.value, At(t, l.pos))]
ReadString(t, i, quote) ==
    LET end == Loop([l \in [pos : Place(t), value : Seq(Char)] |-> StringRound(t, quote, l)],
                    [pos |-> i, value |-> <<>>], t)
    IN  [end EXCEPT !.pos = After(t, @)]

\* The end of a string inside an SQL block or a parameter, with i behind its
\* opening quote: a backslash hides the next character.
QuotedRound(t, quote, j) ==
    CASE At(t, j) \in {quote, "eof"} -> j
      [] At(t, j) = "\\" -> Min({j + 2, Len(t) + 1})
      [] OTHER -> j + 1
QuotedEnd(t, i, quote) == After(t, Loop([j \in Place(t) |-> QuotedRound(t, quote, j)], i, t))

\* Seeded fault: strings are not skipped.
ParamEndAnyBrace(t, i) ==
    Min({j \in i .. Len(t) + 1 : At(t, j) \in {Close, "eof"}})

\* readParamExpr: the end of the text before the brace that closes the first.
EndsBlock(t, l) == At(t, l.pos) = "eof" \/ (At(t, l.pos) = Close /\ l.depth = 1)
ParamRound(t, l) ==
    CASE EndsBlock(t, l) -> l
      [] At(t, l.pos) = Open -> [pos |-> l.pos + 1, depth |-> l.depth + 1]
      [] At(t, l.pos) = Close /\ l.depth > 1 -> [pos |-> l.pos + 1, depth |-> l.depth - 1]
      [] At(t, l.pos) \in Quotes -> [l EXCEPT !.pos = QuotedEnd(t, @ + 1, At(t, @))]
      [] OTHER -> [l EXCEPT !.pos = @ + 1]
ParamEnd(t, i) ==
    Loop([l \in [pos : Place(t), depth : Nat] |-> ParamRound(t, l)], [pos |-> i, depth |-> 1], t).pos

\* readTemplateLiteral, with i behind the backtick: the segments and the texts of
\* the parameters.
TemplateRound(t, l) ==
    LET brace == ParamEnd(t, l.pos + 2)
    IN  CASE At(t, l.pos) \in {"tick", "eof"} -> l
          [] At(t, l.pos) = "$" /\ At(t, l.pos + 1) = Open ->
                 [pos |-> After(t, brace), segment |-> <<>>, segments |-> Append(l.segments, l.segment),
                  exprs |-> Append(l.exprs, Slice(t, l.pos + 2, brace))]
          [] At(t, l.pos) = "\\" -> [l EXCEPT !.pos = EscapeEnd(t, @), !.segment = @ \o Unescaped(t, l.pos)]
          [] OTHER -> [l EXCEPT !.pos = @ + 1, !.segment = Append(@, At(t, l.pos))]
ReadTemplate(t, i) ==
    LET end == Loop([l \in [pos : Place(t), segment : Seq(Char), segments : Seq(Seq(Char)), exprs : Seq(Seq(STRING))] |->
                         TemplateRound(t, l)],
                    [pos |-> i, segment |-> <<>>, segments |-> <<>>, exprs |-> <<>>], t)
    IN  [pos |-> After(t, end.pos), segments |-> Append(end.segments, end.segment), exprs |-> end.exprs]

(***************************************************************************)
(* readSQLBlock, with i in the block: the query with "?" for parameters, the *)
(* parameters and the comments that skipSpace records behind a brace, which   *)
(* disappear from the query when the brace is one of SQL.                    *)
(***************************************************************************)
StartsParam(c) == c \in IdentStart \cup Digits \cup {"("} \cup Quotes

BlockRound(t, l) ==
    LET c == At(t, l.pos)
        inner == SkipSpace(t, l.pos + 1)
        brace == ParamEnd(t, inner.pos)
        To(j) == [l EXCEPT !.pos = j, !.query = @ \o Slice(t, l.pos, j)]
    IN  CASE EndsBlock(t, l) -> l
          [] c = Open /\ StartsParam(At(t, inner.pos)) ->
                 [l EXCEPT !.pos = After(t, brace), !.query = Append(@, "?"),
                           !.params = Append(@, Slice(t, inner.pos, brace)), !.comments = @ \o inner.comments]
          [] c = Open /\ ~ StartsParam(At(t, inner.pos)) ->
                 [l EXCEPT !.pos = inner.pos, !.depth = @ + 1, !.query = Append(@, Open),
                           !.comments = @ \o inner.comments]
          [] c = Close /\ l.depth > 1 -> [To(l.pos + 1) EXCEPT !.depth = @ - 1]
          [] c \in Quotes -> To(QuotedEnd(t, l.pos + 1, c))
          [] c = "-" /\ At(t, l.pos + 1) = "-" -> To(LineEnd(t, l.pos))
          [] OTHER -> To(l.pos + 1)
ReadSQLBlock(t, i) ==
    LET end == Loop([l \in [pos : Place(t), depth : Nat, query : Seq(STRING \cup {"?"}), params : Seq(Seq(STRING)),
                            comments : Seq(CommentType)] |-> BlockRound(t, l)],
                    [pos |-> i, depth |-> 1, query |-> <<>>, params |-> <<>>, comments |-> <<>>], t)
    IN  [pos |-> After(t, end.pos), query |-> end.query, params |-> end.params, comments |-> end.comments]

\* readTableBlock: the place behind the brace that closes the block.
TableRound(t, l) ==
    CASE EndsBlock(t, l) -> l
      [] At(t, l.pos) = Close /\ l.depth > 1 -> [pos |-> l.pos + 1, depth |-> l.depth - 1]
      [] At(t, l.pos) = Open -> [pos |-> l.pos + 1, depth |-> l.depth + 1]
      [] OTHER -> [l EXCEPT !.pos = @ + 1]
TableEnd(t, i) ==
    After(t, Loop([l \in [pos : Place(t), depth : Nat] |-> TableRound(t, l)], [pos |-> i, depth |-> 1], t).pos)

(***************************************************************************)
(* Punctuation: the longer of two that start alike.                         *)
(***************************************************************************)
Long == {<<".", ".", ".">>, <<"=", "=">>, <<"=", ">">>, <<"!", "=">>, <<"<", "=">>, <<">", "=">>}
PunctuationEnd(t, i) ==
    LET fit == {p \in Long : Slice(t, i, Min({i + Len(p), Len(t) + 1})) = p}
    IN  i + Max({1} \cup {Len(p) : p \in fit})

(***************************************************************************)
(* Next at a place that is not blank: the token, where the lexer stands      *)
(* after it, and the comments met inside it.                                 *)
(***************************************************************************)
Kinds == {"eof", "ident", "fetch", "table", "fetchBlock", "tableBlock", "int", "float", "string", "template", "mark"}
Scanned(kind, from, to) ==
    [token |-> [kind |-> kind, from |-> from, to |-> to], pos |-> to, comments |-> <<>>]

\* Words.  "fetch" stands for all five words that may open an SQL block.  Behind
\* "table" a name is consumed even if no block follows.
ScanWord(t, i) ==
    LET end == Run(t, IdentPart, i)
        word == Slice(t, i, end)
        space == SkipSpace(t, end)
        next == At(t, space.pos)
        sql == ReadSQLBlock(t, space.pos + 1)
        name == Run(t, IdentPart, space.pos)
        open == SkipSpace(t, name)
    IN  CASE word = <<"fetch">> /\ next = Open ->
                 [Scanned("fetchBlock", i, sql.pos) EXCEPT !.comments = space.comments \o sql.comments]
          [] word = <<"table">> /\ next \in IdentStart /\ At(t, open.pos) = Open ->
                 [Scanned("tableBlock", i, TableEnd(t, open.pos + 1))
                      EXCEPT !.comments = space.comments \o open.comments]
          [] word = <<"table">> /\ next \in IdentStart /\ At(t, open.pos) # Open ->
                 [Scanned("table", i, name) EXCEPT !.pos = open.pos, !.comments = space.comments \o open.comments]
          [] (word = <<"fetch">> /\ next # Open) \/ (word = <<"table">> /\ next \notin IdentStart) ->
                 [Scanned(word[1], i, end) EXCEPT !.pos = space.pos, !.comments = space.comments]
          [] OTHER -> Scanned("ident", i, end)

Scan(t, i) ==
    LET c == At(t, i)
        number == ReadNumber(t, i)
    IN  CASE c = "eof" -> Scanned("eof", i, i)
          [] c \in IdentStart -> ScanWord(t, i)
          [] c \in Digits -> Scanned(IF number.isFloat THEN "float" ELSE "int", i, number.pos)
          [] c \in Quotes -> Scanned("string", i, ReadString(t, i + 1, c).pos)
          [] c = "tick" -> Scanned("template", i, ReadTemplate(t, i + 1).pos)
          [] OTHER -> Scanned("mark", i, PunctuationEnd(t, i))
=============================================================================
