------------------------------ MODULE Misprints ------------------------------
(***************************************************************************)
(* The forms of a syntax tree that the formatter does not print so that they *)
(* are read back: the tree holds no parentheses, and the printer puts them    *)
(* only around an operation within an operation and around a union in an     *)
(* array.  One definition per form; Misprinted says that a module has one.    *)
(***************************************************************************)
EXTENDS Formatter, Ast

StartsWith(text, kinds) == text # <<>> /\ Head(text)[1] \in kinds

(***************************************************************************)
(* Where an expression begins and ends when it is printed.                  *)
(***************************************************************************)
Postfixed == {"member", "call", "index", "try", "as"}

\* The expressions it begins with, from the outside in.
RECURSIVE Beginnings(_), Endings(_)
Beginnings(e) ==
    {e} \cup CASE e[1] \in Postfixed -> Beginnings(e[2])
               [] e[1] = "binary" /\ e[3][1] # "binary" -> Beginnings(e[3])
               [] OTHER -> {}
\* The expressions it ends with.
Endings(e) ==
    {e} \cup CASE e[1] = "unary" -> Endings(e[3])
               [] e[1] = "binary" /\ e[4][1] # "binary" -> Endings(e[4])
               [] e[1] = "arrow" /\ e[4] = <<>> -> Endings(e[5])
               [] OTHER -> {}

\* A function whose body is an expression takes in what follows it; so does the
\* type behind an "as", if it can go on like that.
Takes(e, kinds) ==
    \E x \in Endings(e) : \/ x[1] = "arrow" /\ x[4] = <<>>
                          \/ x[1] = "as" /\ kinds \cap {"<", "[", "|"} # {}

\* The span of such an expression ends on the line of the next token (UpToNext).
SpanToNext == {"array", "object", "arrow", "if", "switch", "jsx", "fragment"}
RunsOn(e) == \E x \in Endings(e) : x[1] \in SpanToNext

\* The span of such an expression ends on an earlier line than its text.
RECURSIVE EndsEarly(_)
EndsEarly(e) ==
    CASE e[1] = "sql"      -> TRUE
      [] e[1] = "template" -> Newlines(FormatExpr(e)) > 0
      [] e[1] = "index"    -> EndsEarly(e[3])
      [] e[1] = "unary"    -> EndsEarly(e[3])
      [] e[1] = "binary"   -> EndsEarly(e[4])
      [] e[1] = "call"     -> /\ e[4] # <<>>
                              /\ \/ EndsEarly(Last(e[4]))
                                 \/ ~ RunsOn(Last(e[4])) /\ \E x \in ToSet(e[4]) : IsMarkup(x)
      [] OTHER             -> FALSE

(***************************************************************************)
(* Expressions                                                              *)
(***************************************************************************)
\* Nothing is printed for these (FormatExpr has no case for them).
NotPrinted(e) == e[1] = "undefined" \/ e = <<"ident", "">> \/ (e[1] = "as" /\ IsPattern(e[2]))

\* What stands before ".", "(", "[", "?" or "as" needs parentheses.
OperandExposed(e) ==
    /\ e[1] \in Postfixed
    /\ \/ e[2][1] \in {"unary", "binary"}
       \/ e[2][1] = "arrow" /\ e[2][4] = <<>>
       \/ e[2][1] = "as" /\ (e[1] = "index" \/ (e[1] = "call" /\ e[3] # <<>>))
SignOfOperation(e) == e[1] = "unary" /\ e[3][1] = "binary"
LeftOperandExposed(e) == e[1] = "binary" /\ e[3][1] # "binary" /\ Takes(e[3], {e[2]})

\* The point behind a number belongs to the number.
MemberOfNumber(e) == e[1] = "member" /\ Last(<<Mark("")>> \o FormatExpr(e[2]))[1] = "int"

\* "(" or "[" on a later line than the one the span ends on is not read as part of it.
ContinuedTooLate(e) == e[1] \in {"call", "index"} /\ EndsEarly(e[2])

\* "a < b, c > (d)" in a list is a call with type arguments, whatever stands for c.
LikeTypeArgs(e) ==
    LET list == IF e[1] = "call" THEN e[4] ELSE [i \in DOMAIN e[2] |-> e[2][i][2]]
    IN  /\ e[1] \in {"call", "array"}
        /\ \E i, j \in DOMAIN list :
               /\ i < j
               /\ \E x \in Nodes(list[i]) : x[1] = "binary" /\ x[2] = "<"
               /\ \E x \in Nodes(list[j]) : x[1] = "binary" /\ x[2] = ">" /\ x[4][1] = "binary"

\* An object where the parser expects a block.
BodyLikeBlock(e) == e[1] = "arrow" /\ e[4] = <<>> /\ StartsWith(FormatExpr(e[5]), {"{"})
CaseLikeBlock(e) ==
    e[1] = "switch" /\ \E body \in {c[2] : c \in ToSet(e[3])} \cup {e[4]} :
        body # <<>> /\ body[1] # "block" /\ StartsWith(FormatExpr(body), {"{"})

\* A pattern of a case that begins like a binding: with a list or a name before an
\* "as", or with a list in which one follows a name.
LikeBinding(x) ==
    IF x[1] = "as" THEN x[2][1] \in {"array", "object"}
    ELSE x[1] \in {"array", "object"} /\ \E y \in Inside(x) : \E z \in Beginnings(y) : z[1] = "as"
CaseLikeBinding(e) ==
    e[1] = "switch" /\ \E c \in ToSet(e[3]) : \E x \in Beginnings(c[1]) :
        LikeBinding(x) \/ (x[1] = "as" /\ x[2][1] = "ident" /\ x # c[1])

\* The text of a style element, and a text in quotes that looks like markup.
TextOfMarkup(e) ==
    e[1] = "jsx" /\ \/ e[2] = "style" /\ Len(e[4]) = 1 /\ e[4][1][1] = "text"
                    \/ \E c \in ToSet(e[4]) : c[1] = "text" /\ ToSet(c[2]) \cap {"<", "{"} # {}

\* A "?" that is not the place of a parameter, and a parameter that is read as SQL.
ParameterOfSQL(e) ==
    LET Question(text) == \E i \in DOMAIN text : text[i][1] = "?"
    IN  e[1] = "sql" /\ \/ e[4] # <<>> /\ Len(SelectSeq(e[3], LAMBDA x : x[1] = "?")) > Len(e[4])
                        \/ \E i \in DOMAIN e[4] : \/ ~ StartsParam(Head(FormatExpr(e[4][i]) \o <<Mark("")>>))
                                                  \/ i < Len(e[4]) /\ Question(FormatExpr(e[4][i]))

\* %g prints a float without a fraction as an integer.
WholeFloat(x) == (x[1] = "float" /\ x[2] \in Whole) \/ (x[1] = "lit" /\ x[2] = "float" /\ x[3] \in Whole)

(***************************************************************************)
(* Statements                                                               *)
(***************************************************************************)
StatementLikeOther(b) ==
    b[1] = "block" /\ \E s \in ToSet(b[2]) : s[1] = "expr" /\ StartsWith(FormatExpr(s[2]), {"if", "{"})

\* The next statement begins like the rest of the one before.
Joined(s, next) ==
    LET e == IF s[1] = "const" THEN s[3] ELSE s[2]
    IN  /\ s[1] \in {"const", "expr", "return"} /\ e # <<>>
        /\ \/ StartsWith(FormatStmt(next), {"+", "-", "<"})
           \/ StartsWith(FormatStmt(next), {"(", "["}) /\ RunsOn(e)
           \/ StartsWith(FormatStmt(next), {"["}) /\ \E x \in Endings(e) : x[1] = "as"
StatementsJoined(b) ==
    b[1] = "block" /\ \E i \in 2 .. Len(b[2]) : Joined(b[2][i - 1], b[2][i])

(***************************************************************************)
(* Types and declarations                                                   *)
(***************************************************************************)
FunctionInArray(t) == t[1] = "array" /\ t[2][1] = "func"
MemberExposed(t) ==
    t[1] = "union" /\ \E i \in DOMAIN t[2] : t[2][i][1] = "union" \/ (t[2][i][1] = "func" /\ i < Len(t[2]))
ParameterWithoutName(t) == t[1] = "func" /\ \E p \in ToSet(t[3]) : p[1] = ""

ParameterWithoutType(d) == d[1] \in {"function", "extern"} /\ \E p \in ToSet(d[5]) : p[2] = <<>>
PathWithEscape(x) == Unescaped(x[4]) # x[4]

MisprintedNode(x) ==
    \/ NotPrinted(x) \/ OperandExposed(x) \/ SignOfOperation(x) \/ LeftOperandExposed(x)
    \/ MemberOfNumber(x) \/ ContinuedTooLate(x) \/ LikeTypeArgs(x) \/ BodyLikeBlock(x)
    \/ CaseLikeBlock(x) \/ CaseLikeBinding(x) \/ TextOfMarkup(x) \/ ParameterOfSQL(x)
    \/ WholeFloat(x) \/ StatementLikeOther(x) \/ StatementsJoined(x)
MisprintedType(t) == FunctionInArray(t) \/ MemberExposed(t) \/ ParameterWithoutName(t) \/ WholeFloat(t)

Misprinted(m) ==
    \/ \E x \in NodesOf(m) : MisprintedNode(x)
    \/ \E t \in TypesOf(m) : MisprintedType(t)
    \/ \E d \in ToSet(m[2]) : ParameterWithoutType(d)
    \/ \E x \in ToSet(m[1]) : PathWithEscape(x)
=============================================================================
