-------------------------------- MODULE Chars --------------------------------
(***************************************************************************)
(* Texts and places in them.  A text t is a sequence of characters           *)
(* (one-letter strings; "tick" is the backtick, "fetch" and "table" stand     *)
(* for their letters, "wide" is a form feed, U+3000, or another space that    *)
(* unicode.IsSpace knows), a place is an index, and the place behind the last *)
(* character is the end of the file.                                         *)
(***************************************************************************)
EXTENDS Integers, Sequences, SequencesExt, FiniteSetsExt

Letters == {"a", "b", "e", "n", "r", "t", "u", "x", "fetch", "table"}
Digits == {"0", "1", "2"}
Space == {" ", "\t", "\n", "\r", "wide"}   \* unicode.IsSpace

IdentStart == Letters \cup {"_", "$"}
IdentPart == IdentStart \cup Digits

Place(t) == 1 .. Len(t) + 1
At(t, i) == IF i \in DOMAIN t THEN t[i] ELSE "eof"
Slice(t, i, j) == SubSeq(t, i, j - 1)

(***************************************************************************)
(* A loop over a text: its body is a function on the states of the loop,     *)
(* which goes on by a character or more and leaves a state as it is where     *)
(* the loop ends; so there are not more rounds than characters.               *)
(***************************************************************************)
Loop(body, first, t) ==
    LET state[n \in 0 .. Len(t)] == IF n = 0 THEN first ELSE body[state[n - 1]]
    IN  state[Len(t)]

\* The end of the characters in S that stand at i.
Run(t, S, i) == Min({j \in i .. Len(t) + 1 : At(t, j) \notin S})

\* advance counts columns.
Column(t, i) == i - Max({0} \cup {j \in 1 .. i - 1 : At(t, j) = "\n"})

(***************************************************************************)
(* hasCodeBeforeInLine goes back from a place over spaces and tabs.  It has   *)
(* its own idea of a line, which a "\r" ends too, and of what is no code.      *)
(***************************************************************************)
Margin == {" ", "\t"}
Breaks == {"\n", "\r"}

\* The places before i on its line.
OnLineBefore(t, i) == {j \in 1 .. i - 1 : \A k \in j .. i - 1 : t[k] \notin Breaks}

\* Seeded fault: what is indented counts as well.
NotInFirstColumn(t, i) == Column(t, i) > 1

HasCodeBeforeInLine(t, i) == \E j \in OnLineBefore(t, i) : t[j] \notin Margin

\* What is kept of a comment.
CommentType == [from : Nat, to : Nat, inline : BOOLEAN]
=============================================================================
