------------------------------ MODULE Escapes ------------------------------
(***************************************************************************)
(* What the formatter writes for strings and templates, and what the lexer   *)
(* tells apart in it.                                                        *)
(***************************************************************************)
EXTENDS Scanner

\* The quotation mark the formatter writes strings with.
Quote == "\""

\* escapeString
EscapedChar(c) ==
    CASE c = "\n" -> <<"\\", "n">>
      [] c = "\t" -> <<"\\", "t">>
      [] c = "\r" -> <<"\\", "r">>
      [] c \in {"\\", Quote} -> <<"\\", c>>
      [] OTHER -> <<c>>
EscapeString(chars) == FlattenSeq([i \in DOMAIN chars |-> EscapedChar(chars[i])])

\* escapeTemplateSegment: a "$" is escaped only before "{".
SegmentChar(chars, i) ==
    IF chars[i] \in {"\\", "tick"} \/ (chars[i] = "$" /\ At(chars, i + 1) = Open)
    THEN <<"\\", chars[i]>> ELSE <<chars[i]>>
EscapeTemplateSegment(chars) == FlattenSeq([i \in DOMAIN chars |-> SegmentChar(chars, i)])

\* formatExpr of a string; formatTemplateLit, of the texts of its expressions.
WrittenString(chars) == <<Quote>> \o EscapeString(chars) \o <<Quote>>
Hole(exprs, n) == IF n \in DOMAIN exprs THEN <<"$", Open>> \o exprs[n] \o <<Close>> ELSE <<>>
WrittenTemplate(segments, exprs) ==
    <<"tick">>
    \o FlattenSeq([n \in DOMAIN segments |-> EscapeTemplateSegment(segments[n]) \o Hole(exprs, n)])
    \o <<"tick">>
=============================================================================
