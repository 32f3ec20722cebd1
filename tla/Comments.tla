------------------------------ MODULE Comments ------------------------------
(***************************************************************************)
(* Where the formatter puts comments.  The syntax tree has none: the lexer   *)
(* keeps them in a list with their places, and the printer walks the tree    *)
(* and the list side by side.  A text is a sequence of                       *)
(*   "s"     a declaration or statement without a block (an import, too)     *)
(*   "+"     the rest of such a statement, after a line break                *)
(*   "{"     the head of a declaration or statement with a block             *)
(*   "={"    the head of a statement that goes on after its block, as a      *)
(*           constant does whose value is an if expression                   *)
(*   "}"     the end of a block;  "else" the same, with "else {" behind it   *)
(*   "nl"    a line break                                                    *)
(*   <<"line", c>>, <<"block", c>>, <<"lines", c, k>>  the comment c: up to   *)
(*           the end of the line, on one line, and on two, the second of     *)
(*           which is indented by k.                                         *)
(* Every other line is indented by the depth of its block, and the lexer      *)
(* skips that; the printer's indentation is depth, which here only blocks add *)
(* to.                                                                       *)
(***************************************************************************)
EXTENDS Integers, Sequences, SequencesExt, FiniteSetsExt

Code(w) == <<"code", w>>
IsCode(x) == x[1] = "code"
NL == Code("nl")

(***************************************************************************)
(* The lexer: code with its line and column, and the list of comments.       *)
(***************************************************************************)
LineAt(t, i) == 1 + Cardinality({j \in 1 .. i - 1 : t[j] = NL \/ t[j][1] = "lines"})
Place(t, i) == [line |-> LineAt(t, i), col |-> i]

\* The places in t that are in S, from the first to the last.
InTextOrder(S, t) == SelectSeq([i \in DOMAIN t |-> i], LAMBDA i : i \in S)

\* hasCodeBeforeInLine: the end of a comment on two lines counts as well.
Inline(t, i) == i > 1 /\ t[i - 1] # NL

CommentList(t) ==
    LET at == InTextOrder({i \in DOMAIN t : ~ IsCode(t[i])}, t)
    IN  [n \in DOMAIN at |-> [text |-> t[at[n]], pos |-> Place(t, at[n]), inline |-> Inline(t, at[n])]]

\* What is left of the text for the parser: nothing of a line behind a "//".
CodePlaces(t) ==
    {i \in DOMAIN t : IsCode(t[i]) /\ t[i] # NL
                      /\ ~ \E j \in 1 .. i - 1 : t[j][1] = "line" /\ \A k \in j .. i : t[k] # NL}
CodeOf(t) == LET at == InTextOrder(CodePlaces(t), t) IN [n \in DOMAIN at |-> t[at[n]][2]]

(***************************************************************************)
(* The parser: a list of statements                                          *)
(*   [kind, start, blocks, rest]: blocks are [stmts, end].                   *)
(***************************************************************************)
RECURSIVE Stmts(_, _, _), Blocks(_, _, _)
Blocks(t, at, n) ==
    LET body == Stmts(t, at, n)
        block == [stmts |-> body.stmts, end |-> LineAt(t, at[body.n])]
        more == Blocks(t, at, body.n + 1)
    IN  IF t[at[body.n]] = Code("else") THEN [n |-> more.n, blocks |-> <<block>> \o more.blocks]
        ELSE [n |-> body.n + 1, blocks |-> <<block>>]
Stmts(t, at, n) ==
    LET kind == t[at[n]][2]
        blocks == IF kind \in {"{", "={"} THEN Blocks(t, at, n + 1) ELSE [n |-> n + 1, blocks |-> <<>>]
        goesOn == blocks.n <= Len(at) /\ t[at[blocks.n]] = Code("+")
        rest == Stmts(t, at, IF goesOn THEN blocks.n + 1 ELSE blocks.n)
        stmt == [kind |-> kind, start |-> Place(t, at[n]), blocks |-> blocks.blocks, goesOn |-> goesOn]
    IN  IF n > Len(at) \/ kind \in {"}", "else"} THEN [n |-> n, stmts |-> <<>>]
        ELSE [rest EXCEPT !.stmts = <<stmt>> \o @]
ParsedStmts(t) == Stmts(t, InTextOrder(CodePlaces(t), t), 1).stmts

(***************************************************************************)
(* The printer: out is what has been written, idx the next comment, depth    *)
(* the indentation.                                                         *)
(***************************************************************************)
Put(f, x) == [f EXCEPT !.out = @ \o x]
Before(c, pos) == c.pos.line < pos.line \/ (c.pos.line = pos.line /\ c.pos.col < pos.col)

\* The indentation is written before every line of a comment, on top of what the
\* line itself begins with.
Indented(c, depth) == IF c[1] = "lines" THEN [c EXCEPT ![3] = @ + depth] ELSE c
WriteComment(f) == Put([f EXCEPT !.idx = @ + 1], <<Indented(f.comments[f.idx].text, f.depth), NL>>)

\* writeComment, of the comments from idx as long as they are before pos, up to
\* a line, or all.
RECURSIVE EmitBefore(_, _), EmitUpToLine(_, _), InlineForLine(_, _), EmitRemaining(_)
EmitBefore(f, pos) ==
    IF f.idx <= Len(f.comments) /\ Before(f.comments[f.idx], pos)
    THEN EmitBefore(WriteComment(f), pos) ELSE f

\* Seeded fault (of EmitUpToLine): those on the line of the brace are skipped.
DropAtLine(f, line) ==
    IF f.idx <= Len(f.comments) /\ f.comments[f.idx].pos.line <= line
    THEN EmitUpToLine(IF f.comments[f.idx].pos.line = line THEN [f EXCEPT !.idx = @ + 1] ELSE WriteComment(f), line)
    ELSE f
EmitUpToLine(f, line) ==
    IF f.idx <= Len(f.comments) /\ f.comments[f.idx].pos.line <= line
    THEN EmitUpToLine(WriteComment(f), line) ELSE f
EmitRemaining(f) == IF f.idx <= Len(f.comments) THEN EmitRemaining(WriteComment(f)) ELSE f

\* Seeded fault (of InlineForLine): the comments of the next line are taken, too.
InlineOfNextLine(f, line) ==
    IF f.idx <= Len(f.comments) /\ f.comments[f.idx].pos.line <= line + 1 /\ f.comments[f.idx].text[1] # "lines"
    THEN InlineForLine(Put([f EXCEPT !.idx = @ + 1], <<f.comments[f.idx].text>>), f.comments[f.idx].pos.line - 1)
    ELSE f

\* writeInlineCommentsForLine
InlineForLine(f, line) ==
    LET c == f.comments[f.idx]
    IN  IF f.idx <= Len(f.comments) /\ c.inline /\ c.pos.line = line /\ c.text[1] # "lines"
        THEN InlineForLine(Put([f EXCEPT !.idx = @ + 1], <<c.text>>), line) ELSE f

RECURSIVE FormatStmt(_, _), FormatBlockStmt(_, _)

\* formatBlockStmt and formatBlockExpr
FormatBlockStmt(f, block) ==
    LET inside == [Put(f, <<NL>>) EXCEPT !.depth = @ + 1]
    IN  [EmitUpToLine(FoldLeft(FormatStmt, inside, block.stmts), block.end) EXCEPT !.depth = f.depth]

\* formatStmt and formatDecl, with their printers.  The expressions are printed
\* on one line, with the comments inside them left for later.
FormatStmt(f, s) ==
    LET start == EmitBefore(f, s.start)
        head == Put(start, <<Code(s.kind)>>)
        Close(g, n) == Put(FormatBlockStmt(g, s.blocks[n]), <<Code(IF n = Len(s.blocks) THEN "}" ELSE "else")>>)
        blocks == FoldLeft(Close, head, [n \in DOMAIN s.blocks |-> n])
        end == IF s.goesOn THEN Put(blocks, <<Code("+")>>) ELSE blocks
    IN  Put(IF s.kind = "{" THEN end ELSE InlineForLine(end, s.start.line), <<NL>>)

\* What Format hands to the printer, and FormatModuleWithComments.
Parsed(t) == [stmts |-> ParsedStmts(t), comments |-> CommentList(t)]
Written(m) == EmitRemaining(FoldLeft(FormatStmt, [out |-> <<>>, comments |-> m.comments, idx |-> 1, depth |-> 0], m.stmts)).out

(***************************************************************************)
(* What a reader sees of the comments.                                      *)
(***************************************************************************)
\* Without their indentation.
CommentsOf(t) == LET all == SelectSeq(t, LAMBDA x : ~ IsCode(x)) IN [n \in DOMAIN all |-> SubSeq(all[n], 1, 2)]

\* The text with the second line of every comment moved right by the depth of the
\* block it is in.
DepthAt(t, i) ==
    Cardinality({j \in 1 .. i : t[j] \in {Code("{"), Code("={")}}) - Cardinality({j \in 1 .. i : t[j] = Code("}")})
MovedRight(t) == [i \in DOMAIN t |-> IF IsCode(t[i]) THEN t[i] ELSE Indented(t[i], DepthAt(t, i))]

\* How far the second line of a comment stands to the right.
Indentation(t) == Max({0} \cup {t[i][3] : i \in {j \in DOMAIN t : t[j][1] = "lines"}})
=============================================================================
