------------------------------ MODULE Literals ------------------------------
(***************************************************************************)
(* String and template literals: what the formatter writes for one and what  *)
(* the lexer and the parser make of it.  A literal is <<"string", chars>> or *)
(* <<"template", segments, exprs>>, whose exprs are literals themselves, or   *)
(* <<"path", chars>>, the string behind the "from" of an import.             *)
(***************************************************************************)
EXTENDS Escapes

\* formatImport writes the path as it is, without escapeString.
WrittenPath(chars) == <<"from", Quote>> \o chars \o <<Quote>>

\* formatExpr
RECURSIVE Written(_)
Written(v) ==
    CASE v[1] = "string"   -> WrittenString(v[2])
      [] v[1] = "template" -> WrittenTemplate(v[2], [n \in DOMAIN v[3] |-> Written(v[3][n])])
      [] v[1] = "path"     -> WrittenPath(v[2])

\* readString and readTemplateLiteral, and parsePrimary with a parser for the
\* text of each expression; parseImport.
RECURSIVE Parsed(_)
Parsed(t) ==
    LET template == ReadTemplate(t, 2)
    IN  CASE t[1] \in {"'", "\""} -> <<"string", ReadString(t, 2, t[1]).value>>
          [] t[1] = "from" -> <<"path", ReadString(t, 3, t[2]).value>>
          [] t[1] = "tick" -> <<"template", template.segments,
                                [n \in DOMAIN template.exprs |-> Parsed(template.exprs[n])]>>

\* Where the lexer finds the end of a literal.
End(t) ==
    CASE t[1] \in {"'", "\""} -> ReadString(t, 2, t[1]).pos
      [] t[1] = "from" -> ReadString(t, 3, t[2]).pos
      [] t[1] = "tick" -> ReadTemplate(t, 2).pos
=============================================================================
