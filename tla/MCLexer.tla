------------------------------- MODULE MCLexer -------------------------------
(***************************************************************************)
(* All short texts over the characters that have to do with one another.    *)
(***************************************************************************)
EXTENDS Lexer

Up(S, n) == UNION {[1 .. k -> S] : k \in 0 .. n}
Comments == Up({"a", "/", "*", " ", "\n"}, 5)
Margins == {w \o c : w \in Up({"a", " ", "\t", "\n", "\r", "wide"}, 3),
                     c \in {<<"/", "/", "a">>, <<"/", "*", "\r", "*", "/", "/", "*">>}}
Strings == Up({"a", "'", "\\", "u", "/"}, 4)
Templates == {<<"tick">> \o w : w \in Up({"$", "{", "}", "tick", "'"}, 4)}
Blocks == {<<"fetch", " ", "{">> \o w : w \in Up({"a", "{", "}", "'", "-", "/"}, 3)}
              \cup {<<"fetch", "{", "{">> \o w \o <<"/", "*", "*", "/", "a", "}">> : w \in Up({"{", "'", "-", "}"}, 2)}
Heads == {k \o w : k \in {<<"fetch">>, <<"table">>}, w \in Up({"a", "{", "}", "/", "\n"}, 3)}
Marks == Up({".", "=", ">", "<", "!", "1", "e", "+"}, 3)
AllTexts == Comments \cup Margins \cup Strings \cup Templates \cup Blocks \cup Heads \cup Marks
=============================================================================
