-------------------------------- MODULE Lexer --------------------------------
(***************************************************************************)
(* The lexer as the parser drives it: tokens are taken with Next and looked  *)
(* at with Peek, and the parser goes back to a copy of the lexer when a      *)
(* guess fails (tryParseCallTypeArgs, parseSwitchCasePattern).               *)
(***************************************************************************)
EXTENDS Scanner

CONSTANTS
    Texts,          \* the texts to be lexed
    MaxSaved        \* bound: guesses inside one another

ASSUME TextsAssumption == \A t \in Texts : t \in Seq(STRING) /\ "eof" \notin ToSet(t)

VARIABLES
    src,            \* the text
    lex,            \* the lexer: pos, peeked (a sequence of at most one token), comments
    saved,          \* copies of the lexer, with the tokens taken when each was made
    taken           \* history: the tokens the parser has taken

vars == <<src, lex, saved, taken>>

\* A lexer that has read one more token.
Advanced(l) ==
    LET space == SkipSpace(src, l.pos)
        read == Scan(src, space.pos)
    IN  [token |-> read.token,
         lex |-> [pos |-> read.pos, peeked |-> <<>>,
                  comments |-> l.comments \o space.comments \o read.comments]]

Init ==
    /\ src \in Texts
    /\ lex = [pos |-> 1, peeked |-> <<>>, comments |-> <<>>]
    /\ saved = <<>>
    /\ taken = <<>>

AtEnd == taken # <<>> /\ Last(taken).kind = "eof"

\* Next, of a token that was peeked at or of a new one.
TakePeeked ==
    /\ lex.peeked # <<>>
    /\ lex' = [lex EXCEPT !.peeked = <<>>]
    /\ taken' = taken \o lex.peeked
    /\ UNCHANGED <<src, saved>>

TakeNew ==
    /\ lex.peeked = <<>> /\ ~ AtEnd
    /\ lex' = Advanced(lex).lex
    /\ taken' = Append(taken, Advanced(lex).token)
    /\ UNCHANGED <<src, saved>>

\* Seeded fault (of Peek): a second Peek reads another token.
PeekAgain ==
    /\ ~ AtEnd
    /\ lex' = [Advanced(lex).lex EXCEPT !.peeked = <<Advanced(lex).token>>]
    /\ UNCHANGED <<src, saved, taken>>

\* Peek; a second one finds the token of the first.
Peek ==
    /\ lex.peeked = <<>> /\ ~ AtEnd
    /\ lex' = [Advanced(lex).lex EXCEPT !.peeked = <<Advanced(lex).token>>]
    /\ UNCHANGED <<src, saved, taken>>

\* The parser copies the lexer before a guess ...
Save ==
    /\ Len(saved) < MaxSaved
    /\ saved' = Append(saved, [lex |-> lex, taken |-> taken])
    /\ UNCHANGED <<src, lex, taken>>

\* Seeded fault (of Restore): the comments met during the guess are kept.
RestoreButComments ==
    /\ saved # <<>>
    /\ lex' = [Last(saved).lex EXCEPT !.comments = lex.comments]
    /\ taken' = Last(saved).taken
    /\ saved' = Front(saved)
    /\ UNCHANGED src

\* ... and puts the copy back when the guess was wrong,
Restore ==
    /\ saved # <<>>
    /\ lex' = Last(saved).lex
    /\ taken' = Last(saved).taken
    /\ saved' = Front(saved)
    /\ UNCHANGED src

\* or forgets it.
Commit ==
    /\ saved # <<>>
    /\ saved' = Front(saved)
    /\ UNCHANGED <<src, lex, taken>>

Next == TakePeeked \/ TakeNew \/ Peek \/ Save \/ Restore \/ Commit

Spec == Init /\ [][Next]_vars

-----------------------------------------------------------------------------
Tokens == taken \o lex.peeked
Places(x) == x.from .. x.to - 1

\* Tokens that a comment can be part of.
Enclosing == {"fetchBlock", "tableBlock", "table"}

\* Neither space nor a comment.
StartsToken(t, p) == At(t, p) \notin Space /\ ~ StartsComment(t, p)

\* Nothing is lost and nothing is read twice: behind the lexer every character
\* is in exactly one token, or in a comment, or blank, however the parser looks
\* ahead and goes back; and there is no end of the file before the end of the text.
Tiled ==
    /\ \A i \in 1 .. lex.pos - 1 :
           LET tokens == {n \in DOMAIN Tokens : i \in Places(Tokens[n])}
           IN  \/ Cardinality(tokens) = 1
               \/ tokens = {} /\ \E c \in ToSet(lex.comments) : i \in Places(c)
               \/ tokens = {} /\ src[i] \in Space
    /\ \A n \in DOMAIN Tokens : Tokens[n].to <= lex.pos /\ (n > 1 => Tokens[n - 1].to <= Tokens[n].from)
    /\ \A x \in ToSet(Tokens) : x.kind = "eof" => x.from = Len(src) + 1

\* Each comment is recorded once, in order, behind the lexer, and comments are
\* never found in a string, a template or another comment; and no token is the
\* beginning of a comment that was not recorded.
CommentsOnce ==
    /\ \A n \in DOMAIN lex.comments : lex.comments[n].to <= lex.pos
    /\ \A n \in 2 .. Len(lex.comments) : lex.comments[n - 1].to <= lex.comments[n].from
    /\ \A c \in ToSet(lex.comments), x \in ToSet(Tokens) :
           Places(c) \cap Places(x) # {} => x.kind \in Enclosing
    /\ \A x \in ToSet(Tokens) : StartsToken(src, x.from)

\* A comment is inline exactly if a token or another comment ends or goes on, on
\* the line it starts on, before it, or if one of the wide spaces stands there,
\* which skipSpace skips and hasCodeBeforeInLine takes for code.
InlineMeansAfterCode ==
    \A c \in ToSet(lex.comments) :
        c.inline <=> \E i \in OnLineBefore(src, c.from) :
                         \/ src[i] = "wide"
                         \/ src[i] \notin Space
                            /\ \E x \in ToSet(Tokens) \cup ToSet(lex.comments) : i \in Places(x)
=============================================================================
