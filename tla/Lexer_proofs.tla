----------------------------- MODULE Lexer_proofs -----------------------------
(***************************************************************************)
(* Proofs about Lexer: what one reading of a token does with a text of any    *)
(* length, and from it what every sequence of looking ahead, taking tokens and *)
(* going back does, with any number of guesses inside one another; and about  *)
(* Escapes: that the lexer reads the literals that the formatter writes.      *)
(***************************************************************************)
EXTENDS Lexer, Escapes, TLAPS, SequenceTheorems, FiniteSetTheorems, WellFoundedInduction

\* What one call of skipSpace and one reading of a token promise: a piece of the text
\* from where they start, with the comments of the piece in order.
InOrder(t, cs, from, to) ==
    /\ \A n \in DOMAIN cs : /\ from <= cs[n].from /\ cs[n].from < cs[n].to /\ cs[n].to <= to
                            /\ cs[n].inline <=> HasCodeBeforeInLine(t, cs[n].from)
    /\ \A m, n \in DOMAIN cs : m < n => cs[m].to <= cs[n].from
NothingBetween(t, cs, from, to) ==
    \A i \in from .. to - 1 : t[i] \in Space \/ \E c \in ToSet(cs) : i \in Places(c)

SkipsAPiece(t, p) ==
    LET space == SkipSpace(t, p)
    IN  /\ space.pos \in p .. Len(t) + 1
        /\ space.comments \in Seq(CommentType)
        /\ InOrder(t, space.comments, p, space.pos)
        /\ NothingBetween(t, space.comments, p, space.pos)
        /\ StartsToken(t, space.pos)
Reads(t, p, read) ==
    /\ read.pos \in p .. Len(t) + 1
    /\ read.comments \in Seq(CommentType)
    /\ InOrder(t, read.comments, p, read.pos)
    /\ read.token \in [kind : Kinds, from : {p}, to : p .. read.pos]
    /\ read.token.kind = "eof" => p = Len(t) + 1
    /\ NothingBetween(t, read.comments, read.token.to, read.pos)
    /\ \A c \in ToSet(read.comments) : Places(c) \cap Places(read.token) # {} => read.token.kind \in Enclosing

TokenType == [kind : Kinds, from : Nat, to : Nat]
LexerType == [pos : Nat, peeked : Seq(TokenType), comments : Seq(CommentType)]

(***************************************************************************)
(* The inductive invariant: a lexer at a place of the text has read all that *)
(* is behind it into the tokens it has given and the comments it has kept.    *)
(* The lexer the parser goes on with is such a lexer, with the tokens taken   *)
(* and the one that was peeked at; and so is every copy it may go back to.    *)
(***************************************************************************)
TokensInOrder(pos, tokens) ==
    /\ \A n \in DOMAIN tokens : 1 <= tokens[n].from /\ tokens[n].to <= pos
    /\ \A m, n \in DOMAIN tokens : m < n => tokens[m].to <= tokens[n].from
Filled(pos, cs, tokens) ==
    \A i \in 1 .. pos - 1 :
        \/ src[i] \in Space
        \/ \E c \in ToSet(cs) : i \in Places(c)
        \/ \E x \in ToSet(tokens) : i \in Places(x)
Apart(cs, tokens) ==
    \A c \in ToSet(cs), x \in ToSet(tokens) : Places(c) \cap Places(x) # {} => x.kind \in Enclosing
Rightly(tokens) ==
    \A x \in ToSet(tokens) : StartsToken(src, x.from) /\ (x.kind = "eof" => x.from = Len(src) + 1)
HasRead(pos, cs, tokens) ==
    /\ pos \in 1 .. Len(src) + 1
    /\ cs \in Seq(CommentType) /\ tokens \in Seq(TokenType)
    /\ InOrder(src, cs, 1, pos)
    /\ TokensInOrder(pos, tokens)
    /\ Filled(pos, cs, tokens)
    /\ Apart(cs, tokens)
    /\ Rightly(tokens)
IsLexer(l, tokens) ==
    /\ l \in LexerType /\ tokens \in Seq(TokenType)
    /\ HasRead(l.pos, l.comments, tokens \o l.peeked)
LexerInv ==
    /\ src \in Texts
    /\ IsLexer(lex, taken)
    /\ saved \in Seq([lex : LexerType, taken : Seq(TokenType)])
    /\ \A n \in 1 .. Len(saved) : IsLexer(saved[n].lex, saved[n].taken)

-----------------------------------------------------------------------------
(***************************************************************************)
(* Sequences.                                                               *)
(***************************************************************************)

\* The elements of two sequences, one behind the other.
LEMMA ToSetConcat ==
  ASSUME NEW S, NEW s \in Seq(S), NEW t \in Seq(S)
  PROVE  ToSet(s \o t) = ToSet(s) \cup ToSet(t)
<1> DEFINE m == Len(s)
           n == Len(t)
           u == s \o t
<1>1. m \in Nat /\ n \in Nat /\ DOMAIN s = 1 .. m /\ DOMAIN t = 1 .. n
  BY LenProperties
<1>2. u \in Seq(S) /\ Len(u) = m + n /\ \A i \in 1 .. m + n : u[i] = IF i <= m THEN s[i] ELSE t[i - m]
  BY ConcatProperties
<1>3. DOMAIN u = 1 .. m + n
  BY <1>2, LenProperties
<1> HIDE DEF u, m, n
<1>4. \A i \in 1 .. m : i \in 1 .. m + n /\ u[i] = s[i]
  BY <1>1, <1>2
<1>5. \A i \in 1 .. n : i + m \in 1 .. m + n /\ u[i + m] = t[i]
  <2> SUFFICES ASSUME NEW i \in 1 .. n PROVE i + m \in 1 .. m + n /\ u[i + m] = t[i]
    OBVIOUS
  <2>1. PICK k \in 1 .. m + n : k = i + m
    BY <1>1
  <2>2. ~ (k <= m) /\ k - m = i
    BY <1>1, <2>1
  <2>3. u[k] = t[k - m]
    BY <1>2, <2>2
  <2>4. QED
    BY <2>1, <2>2, <2>3
<1>6. \A i \in 1 .. m + n : (i \in 1 .. m /\ u[i] = s[i]) \/ (i - m \in 1 .. n /\ u[i] = t[i - m])
  BY <1>1, <1>2
<1>7. ToSet(u) = ToSet(s) \cup ToSet(t)
  <2>1. ToSet(u) \subseteq ToSet(s) \cup ToSet(t)
    BY <1>1, <1>3, <1>6 DEF ToSet
  <2>2. ToSet(s) \subseteq ToSet(u)
    BY <1>1, <1>3, <1>4 DEF ToSet
  <2>3. ToSet(t) \subseteq ToSet(u)
    BY <1>1, <1>3, <1>5 DEF ToSet
  <2>4. QED
    BY <2>1, <2>2, <2>3
<1>8. QED
  BY <1>7 DEF u

\* The elements of a sequence with one more.
LEMMA ToSetAppend ==
  ASSUME NEW S, NEW s \in Seq(S), NEW e \in S
  PROVE  ToSet(Append(s, e)) = ToSet(s) \cup {e}
<1> DEFINE n == Len(s)
           u == Append(s, e)
<1>1. n \in Nat /\ DOMAIN s = 1 .. n
  BY LenProperties
<1>2. u \in Seq(S) /\ Len(u) = n + 1 /\ u[n + 1] = e /\ \A i \in 1 .. n : u[i] = s[i]
  BY AppendProperties
<1>3. DOMAIN u = 1 .. n + 1
  BY <1>2, LenProperties
<1> HIDE DEF n, u
<1>4. 1 .. n + 1 = (1 .. n) \cup {n + 1}
  BY <1>1
<1>5. ToSet(u) = ToSet(s) \cup {e}
  BY <1>1, <1>2, <1>3, <1>4 DEF ToSet
<1>6. QED
  BY <1>5 DEF u

-----------------------------------------------------------------------------
(***************************************************************************)
(* Numbers and loops.                                                       *)
(***************************************************************************)

\* Every set of numbers that is not empty has a smallest one.
LEMMA SmallestIsThere ==
  ASSUME NEW N \in SUBSET Nat, N # {}
  PROVE  Min(N) \in N /\ \A y \in N : Min(N) <= y
<1>1. IsWellFoundedOn(OpToRel(<, Nat), Nat)
  BY NatLessThanWellFounded
<1>2. PICK x \in N : \A y \in N : ~ (<<y, x>> \in OpToRel(<, Nat))
  BY <1>1, WFMin
<1>3. \A m, n \in Nat : m < n => <<m, n>> \in OpToRel(<, Nat)
  BY Zenon DEF OpToRel
<1>4. ASSUME NEW y \in N PROVE x <= y
  <2>1. x \in Nat /\ y \in Nat
    OBVIOUS
  <2>2. ~ (y < x)
    BY <1>2, <1>3, <2>1, Zenon
  <2>3. QED
    BY <2>1, <2>2
<1>5. QED
  BY <1>4 DEF Min

\* A set of numbers that has 0, and with each number below m the next, has all up to m.
LEMMA UpTo ==
  ASSUME NEW m \in Nat, NEW P, 0 \in P, \A n \in 0 .. m - 1 : n \in P => n + 1 \in P
  PROVE  \A n \in 0 .. m : n \in P
<1> DEFINE Missing == {n \in 0 .. m : n \notin P}
<1>1. SUFFICES ASSUME Missing # {} PROVE FALSE
  OBVIOUS
<1>2. PICK n \in Missing : \A k \in Missing : n <= k
  <2>1. Missing \in SUBSET Nat
    OBVIOUS
  <2> HIDE DEF Missing
  <2>2. QED
    BY <1>1, <2>1, SmallestIsThere
<1>3. n \in 0 .. m /\ n \notin P /\ n # 0
  OBVIOUS
<1>4. n - 1 \in 0 .. m - 1 /\ n - 1 \notin Missing
  BY <1>2, <1>3
<1>5. QED
  BY <1>3, <1>4

\* The states of a loop, one round after the other.
Rounds(state, m, first, body) == state[0] = first /\ \A n \in 1 .. m : state[n] = body[state[n - 1]]

\* Some function goes through the states of a loop.
LEMMA RoundByRound ==
  ASSUME NEW m \in Nat, NEW X, NEW first \in X, NEW body, \A x \in X : body[x] \in X
  PROVE  \E f \in [0 .. m -> X] : Rounds(f, m, first, body)
<1> DEFINE Upto(n) == {f \in [0 .. n -> X] : Rounds(f, n, first, body)}
           P == {n \in 0 .. m : Upto(n) # {}}
<1>1. 0 \in P
  <2>1. [k \in 0 .. 0 |-> first] \in Upto(0)
    BY DEF Rounds
  <2>2. QED
    BY <2>1
<1>2. ASSUME NEW n \in 0 .. m - 1, n \in P PROVE n + 1 \in P
  <2>1. PICK f \in Upto(n) : TRUE
    BY <1>2
  <2> DEFINE g == [k \in 0 .. n + 1 |-> IF k = n + 1 THEN body[f[n]] ELSE f[k]]
  <2>2. g \in Upto(n + 1)
    <3>1. body[f[n]] \in X
      OBVIOUS
    <3>2. g \in [0 .. n + 1 -> X]
      BY <3>1
    <3>3. g[0] = first
      BY DEF Rounds
    <3>4. ASSUME NEW k \in 1 .. n + 1 PROVE g[k] = body[g[k - 1]]
      <4>1. g[k - 1] = f[k - 1]
        BY <3>4
      <4>2. CASE k = n + 1
        BY <4>1, <4>2
      <4>3. CASE k # n + 1
        BY <4>1, <4>3 DEF Rounds
      <4>4. QED
        BY <4>2, <4>3
    <3>5. QED
      BY <3>2, <3>3, <3>4 DEF Rounds
  <2>3. QED
    BY <2>2
<1>3. m \in P
  <2>1. \A n \in 0 .. m - 1 : n \in P => n + 1 \in P
    BY <1>2
  <2> HIDE DEF P
  <2>2. \A n \in 0 .. m : n \in P
    BY <1>1, <2>1, UpTo, Zenon
  <2>3. QED
    BY <2>2
<1>4. QED
  BY <1>3

\* What a loop is: the last of its states.
LEMMA LoopRuns ==
  ASSUME NEW t, Len(t) \in Nat, NEW X, NEW first \in X, NEW body, \A x \in X : body[x] \in X
  PROVE  \E f \in [0 .. Len(t) -> X] : Rounds(f, Len(t), first, body) /\ Loop(body, first, t) = f[Len(t)]
<1> DEFINE m == Len(t)
           Is(f) == f = [n \in 0 .. m |-> IF n = 0 THEN first ELSE body[f[n - 1]]]
           the == CHOOSE f : Is(f)
<1>1. PICK f \in [0 .. m -> X] : Rounds(f, m, first, body)
  BY RoundByRound
<1>2. Is(f)
  BY <1>1 DEF Rounds
<1>3. Is(the)
  <2> HIDE DEF Is
  <2>1. QED
    BY <1>2
<1>4. Loop(body, first, t) = the[m]
  BY DEF Loop
<1> HIDE DEF the
<1>5. DOMAIN the = 0 .. m /\ Rounds(the, m, first, body)
  BY <1>3 DEF Rounds
<1>6. \A n \in 0 .. m : the[n] \in X
  <2> DEFINE P == {n \in 0 .. m : the[n] \in X}
  <2>1. 0 \in P
    BY <1>5 DEF Rounds
  <2>2. ASSUME NEW n \in 0 .. m - 1, n \in P PROVE n + 1 \in P
    <3>1. n + 1 \in 1 .. m /\ (n + 1) - 1 = n
      OBVIOUS
    <3>2. the[n + 1] = body[the[n]]
      BY <1>5, <3>1 DEF Rounds
    <3>3. QED
      BY <2>2, <3>1, <3>2
  <2>3. \A n \in 0 .. m - 1 : n \in P => n + 1 \in P
    BY <2>2
  <2>4. \A n \in 0 .. m : n \in P
    <3> HIDE DEF P
    <3>1. QED
      BY <2>1, <2>3, UpTo, Zenon
  <2>5. QED
    BY <2>4
<1>7. the \in [0 .. m -> X]
  BY <1>3, <1>6
<1>8. QED
  BY <1>4, <1>5, <1>7

\* A loop keeps what its body keeps.
LEMMA LoopKeeps ==
  ASSUME NEW t, Len(t) \in Nat, NEW X, NEW first \in X, NEW body, \A x \in X : body[x] \in X
  PROVE  Loop(body, first, t) \in X
BY LoopRuns

\* A loop that goes on by a character or more in each round has ended.
LEMMA LoopEnds ==
  ASSUME NEW t, Len(t) \in Nat, NEW X, NEW first \in X, NEW body, \A x \in X : body[x] \in X,
         \A x \in X : x.pos \in Place(t) /\ (body[x] = x \/ x.pos < body[x].pos)
  PROVE  body[Loop(body, first, t)] = Loop(body, first, t)
<1> DEFINE m == Len(t)
<1>1. PICK f \in [0 .. m -> X] : Rounds(f, m, first, body) /\ Loop(body, first, t) = f[m]
  BY LoopRuns
<1> DEFINE P == {n \in 0 .. m : body[f[n]] = f[n] \/ n + 1 <= f[n].pos}
<1>2. 0 \in P
  BY DEF Place
<1>3. ASSUME NEW n \in 0 .. m - 1, n \in P PROVE n + 1 \in P
  <2>1. n + 1 \in 1 .. m /\ (n + 1) - 1 = n /\ n \in 0 .. m /\ n + 1 \in 0 .. m
    OBVIOUS
  <2>2. f[n + 1] = body[f[n]] /\ f[n] \in X /\ f[n + 1] \in X
    BY <1>1, <2>1 DEF Rounds
  <2>3. CASE body[f[n]] = f[n]
    BY <2>1, <2>2, <2>3
  <2>4. CASE body[f[n]] # f[n]
    <3>1. n + 1 <= f[n].pos /\ f[n].pos < f[n + 1].pos /\ f[n].pos \in Nat /\ f[n + 1].pos \in Nat
      BY <1>3, <2>2, <2>4 DEF Place
    <3>2. n + 1 + 1 <= f[n + 1].pos
      BY <3>1
    <3>3. QED
      BY <2>1, <3>2
  <2>5. QED
    BY <2>3, <2>4
<1>4. m \in P
  <2>1. \A n \in 0 .. m - 1 : n \in P => n + 1 \in P
    BY <1>3
  <2> HIDE DEF P
  <2>2. \A n \in 0 .. m : n \in P
    BY <1>2, <2>1, UpTo, Zenon
  <2>3. QED
    BY <2>2
<1>5. CASE body[f[m]] = f[m]
  BY <1>1, <1>5
<1>6. CASE body[f[m]] # f[m]
  <2>1. f[m] \in X /\ body[f[m]] \in X
    OBVIOUS
  <2>2. m + 1 <= f[m].pos /\ f[m].pos < body[f[m]].pos
    BY <1>4, <1>6, <2>1
  <2>3. f[m].pos \in 1 .. m + 1 /\ body[f[m]].pos \in 1 .. m + 1
    BY <2>1 DEF Place
  <2>4. QED
    BY <2>2, <2>3
<1>7. QED
  BY <1>5, <1>6

-----------------------------------------------------------------------------
(***************************************************************************)
(* Places of a text.                                                        *)
(***************************************************************************)

\* What stands at a place.
LEMMA AtAPlace ==
  ASSUME NEW t \in Seq(STRING), NEW i
  PROVE  /\ Len(t) \in Nat /\ DOMAIN t = 1 .. Len(t)
         /\ i \in 1 .. Len(t) => At(t, i) = t[i] /\ t[i] \in STRING
         /\ At(t, i) # "eof" => i \in 1 .. Len(t)
<1>1. Len(t) \in Nat /\ DOMAIN t = 1 .. Len(t)
  BY LenProperties
<1>2. i \in 1 .. Len(t) => t[i] \in STRING
  BY ElementOfSeq
<1>3. i \in 1 .. Len(t) => At(t, i) = t[i]
  BY <1>1 DEF At
<1>4. i \notin 1 .. Len(t) => At(t, i) = "eof"
  BY <1>1 DEF At
<1>5. QED
  BY <1>1, <1>2, <1>3, <1>4, Zenon

\* A piece of a text is a text.
LEMMA SliceIsText ==
  ASSUME NEW t \in Seq(STRING), NEW i \in Nat, 1 <= i, NEW j \in Place(t), NEW S, STRING \subseteq S
  PROVE  Slice(t, i, j) \in Seq(S)
<1>1. Len(t) \in Nat /\ i \in Int /\ j - 1 \in Int /\ j - 1 <= Len(t)
  BY LenProperties DEF Place
<1>2. \A k \in i .. j - 1 : t[k] \in S
  <2>1. \A k \in i .. j - 1 : t[k] \in STRING
    BY <1>1, ElementOfSeq
  <2>2. QED
    BY <2>1, Zenon
<1>3. SubSeq(t, i, j - 1) \in Seq(S)
  BY <1>1, <1>2, SubSeqProperties
<1>4. QED
  BY <1>3 DEF Slice

\* A place or more on, up to the end.
LEMMA AtMost ==
  ASSUME NEW t \in Seq(STRING), NEW i \in Place(t), NEW k \in Nat
  PROVE  /\ Min({i + k, Len(t) + 1}) \in i .. Len(t) + 1
         /\ i <= Len(t) /\ k > 0 => Min({i + k, Len(t) + 1}) > i
<1>1. Len(t) \in Nat /\ i \in 1 .. Len(t) + 1
  BY LenProperties DEF Place
<1> DEFINE N == {i + k, Len(t) + 1}
<1>2. N \in SUBSET Nat /\ N # {}
  BY <1>1
<1>3. Min(N) \in N
  <2> HIDE DEF N
  <2>1. QED
    BY <1>2, SmallestIsThere
<1>4. /\ i + k \in Nat /\ i <= i + k /\ i <= Len(t) + 1 /\ (k > 0 => i < i + k) /\ (i <= Len(t) => i < Len(t) + 1)
      /\ \A y \in N : Min(N) <= y
  <2> HIDE DEF N
  <2>1. \A y \in N : Min(N) <= y
    BY <1>2, SmallestIsThere
  <2>2. QED
    BY <1>1, <2>1
<1>5. Min(N) <= Len(t) + 1 /\ (Min(N) = i + k \/ Min(N) = Len(t) + 1)
  BY <1>3, <1>4
<1> DEFINE x == Min(N)
<1>6. x \in i .. Len(t) + 1 /\ (i <= Len(t) /\ k > 0 => x > i)
  <2> HIDE DEF x
  <2>1. x <= Len(t) + 1 /\ (x = i + k \/ x = Len(t) + 1)
    BY <1>5 DEF x
  <2>2. QED
    BY <1>1, <1>4, <2>1
<1>7. QED
  BY <1>6

\* The first place from i on at which something is found that is not the end of the text ...
LEMMA FirstFrom ==
  ASSUME NEW t \in Seq(STRING), NEW i \in Place(t), NEW N, N \subseteq i .. Len(t) + 1, Len(t) + 1 \in N
  PROVE  Min(N) \in N /\ Min(N) \in i .. Len(t) + 1
<1>1. Len(t) \in Nat /\ i \in 1 .. Len(t) + 1
  BY LenProperties DEF Place
<1>2. N \in SUBSET Nat /\ N # {}
  BY <1>1
<1>3. QED
  BY <1>2, SmallestIsThere

\* ... as the end of a line,
LEMMA LineEndIsBehind ==
  ASSUME NEW t \in Seq(STRING), NEW i \in Place(t)
  PROVE  /\ LineEnd(t, i) \in i .. Len(t) + 1
         /\ At(t, i) \notin {"\n", "eof"} => LineEnd(t, i) > i
<1> DEFINE N == {j \in i .. Len(t) + 1 : At(t, j) \in {"\n", "eof"}}
<1>1. Len(t) \in Nat /\ i \in 1 .. Len(t) + 1 /\ Len(t) + 1 \notin 1 .. Len(t)
  BY LenProperties DEF Place
<1>2. N \subseteq i .. Len(t) + 1 /\ Len(t) + 1 \in N
  BY <1>1, AtAPlace DEF At
<1>3. LineEnd(t, i) = Min(N)
  BY DEF LineEnd
<1>4. Min(N) \in N
  <2> HIDE DEF N
  <2>1. QED
    BY <1>2, FirstFrom
<1>5. QED
  BY <1>1, <1>3, <1>4

\* the end of a word, of which one character stands there,
LEMMA RunIsBehind ==
  ASSUME NEW t \in Seq(STRING), NEW i \in Place(t), NEW S, "eof" \notin S
  PROVE  /\ Run(t, S, i) \in i .. Len(t) + 1
         /\ At(t, i) \in S => Run(t, S, i) > i
<1> DEFINE N == {j \in i .. Len(t) + 1 : At(t, j) \notin S}
<1>1. Len(t) \in Nat /\ i \in 1 .. Len(t) + 1 /\ Len(t) + 1 \notin 1 .. Len(t)
  BY LenProperties DEF Place
<1>2. N \subseteq i .. Len(t) + 1 /\ Len(t) + 1 \in N
  BY <1>1, AtAPlace DEF At
<1>3. Run(t, S, i) = Min(N)
  BY DEF Run
<1>4. Min(N) \in N
  <2> HIDE DEF N
  <2>1. QED
    BY <1>2, FirstFrom
<1>5. QED
  BY <1>1, <1>3, <1>4

\* and the end of a comment that starts there.
LEMMA CommentEndIsBehind ==
  ASSUME NEW t \in Seq(STRING), NEW i \in Place(t), StartsComment(t, i)
  PROVE  CommentEnd(t, i) \in i + 1 .. Len(t) + 1
<1>1. Len(t) \in Nat /\ i \in 1 .. Len(t) /\ At(t, i) = "/"
  BY AtAPlace DEF StartsComment
<1>2. CASE At(t, i + 1) = "/"
  BY <1>1, <1>2, LineEndIsBehind DEF CommentEnd
<1>3. CASE At(t, i + 1) # "/"
  <2> DEFINE N == {j \in i + 4 .. Len(t) + 1 : t[j - 2] = "*" /\ t[j - 1] = "/"} \cup {Len(t) + 1}
  <2>1. CommentEnd(t, i) = Min(N)
    BY <1>3 DEF CommentEnd
  <2>2. i + 1 \in Place(t) /\ N \subseteq i + 1 .. Len(t) + 1 /\ Len(t) + 1 \in N
    BY <1>1 DEF Place
  <2>3. Min(N) \in i + 1 .. Len(t) + 1
    <3> HIDE DEF N
    <3>1. QED
      BY <2>2, FirstFrom
  <2>4. QED
    BY <2>1, <2>3
<1>4. QED
  BY <1>2, <1>3

(***************************************************************************)
(* One reading after another.                                               *)
(***************************************************************************)

\* Comments in order up to a place, with comments in order behind it.
LEMMA InOrderConcat ==
  ASSUME NEW t, NEW cs \in Seq(CommentType), NEW ds \in Seq(CommentType),
         NEW a \in Nat, NEW b \in Nat, NEW c \in Nat, a <= b, b <= c,
         InOrder(t, cs, a, b), InOrder(t, ds, b, c)
  PROVE  cs \o ds \in Seq(CommentType) /\ InOrder(t, cs \o ds, a, c)
<1> DEFINE m == Len(cs)
           n == Len(ds)
           u == cs \o ds
<1>1. m \in Nat /\ n \in Nat /\ DOMAIN cs = 1 .. m /\ DOMAIN ds = 1 .. n
  BY LenProperties
<1>2. u \in Seq(CommentType) /\ Len(u) = m + n /\ \A i \in 1 .. m + n : u[i] = IF i <= m THEN cs[i] ELSE ds[i - m]
  BY ConcatProperties
<1>3. DOMAIN u = 1 .. m + n
  BY <1>2, LenProperties
<1>4. \A i \in 1 .. m : cs[i] \in CommentType
  BY ElementOfSeq
<1>5. \A i \in 1 .. n : ds[i] \in CommentType
  BY ElementOfSeq
<1> HIDE DEF u, m, n
<1>6. \A i \in 1 .. m + n : (i \in 1 .. m /\ u[i] = cs[i]) \/ (i - m \in 1 .. n /\ i > m /\ u[i] = ds[i - m])
  BY <1>1, <1>2
<1>7. ASSUME NEW i \in 1 .. m + n
      PROVE  /\ a <= u[i].from /\ u[i].from < u[i].to /\ u[i].to <= c
             /\ u[i].inline <=> HasCodeBeforeInLine(t, u[i].from)
  <2>1. ASSUME NEW k \in 1 .. m, u[i] = cs[k]
        PROVE  /\ a <= u[i].from /\ u[i].from < u[i].to /\ u[i].to <= c
               /\ u[i].inline <=> HasCodeBeforeInLine(t, u[i].from)
    <3>1. /\ a <= cs[k].from /\ cs[k].from < cs[k].to /\ cs[k].to <= b
          /\ cs[k].inline <=> HasCodeBeforeInLine(t, cs[k].from)
      BY <1>1 DEF InOrder
    <3>2. cs[k].from \in Nat /\ cs[k].to \in Nat
      BY <1>4 DEF CommentType
    <3>3. cs[k].to <= c
      BY <3>1, <3>2
    <3>4. QED
      BY <2>1, <3>1, <3>3, Zenon
  <2>2. ASSUME NEW k \in 1 .. n, u[i] = ds[k]
        PROVE  /\ a <= u[i].from /\ u[i].from < u[i].to /\ u[i].to <= c
               /\ u[i].inline <=> HasCodeBeforeInLine(t, u[i].from)
    <3>1. /\ b <= ds[k].from /\ ds[k].from < ds[k].to /\ ds[k].to <= c
          /\ ds[k].inline <=> HasCodeBeforeInLine(t, ds[k].from)
      BY <1>1 DEF InOrder
    <3>2. ds[k].from \in Nat /\ ds[k].to \in Nat
      BY <1>5 DEF CommentType
    <3>3. a <= ds[k].from
      BY <3>1, <3>2
    <3>4. QED
      BY <2>2, <3>1, <3>3, Zenon
  <2>3. QED
    BY <1>6, <2>1, <2>2
<1>8. ASSUME NEW i \in 1 .. m + n, NEW j \in 1 .. m + n, i < j
      PROVE  u[i].to <= u[j].from
  <2>1. CASE j \in 1 .. m
    <3>1. i \in 1 .. m /\ u[i] = cs[i] /\ u[j] = cs[j]
      BY <1>1, <1>6, <1>8, <2>1
    <3>2. QED
      BY <1>1, <1>8, <2>1, <3>1 DEF InOrder
  <2>2. CASE i \in 1 .. m /\ j \notin 1 .. m
    <3>1. j - m \in 1 .. n /\ u[i] = cs[i] /\ u[j] = ds[j - m]
      BY <1>1, <1>6, <2>2
    <3>2. u[i].to <= b /\ b <= u[j].from
      BY <1>1, <2>2, <3>1 DEF InOrder
    <3>3. u[i].to \in Nat /\ u[j].from \in Nat
      BY <1>4, <1>5, <2>2, <3>1 DEF CommentType
    <3>4. \A x \in Nat, y \in Nat : x <= b /\ b <= y => x <= y
      OBVIOUS
    <3>5. QED
      BY <3>2, <3>3, <3>4, Zenon
  <2>3. CASE i \notin 1 .. m /\ j \notin 1 .. m
    <3>1. /\ i - m \in 1 .. n /\ u[i] = ds[i - m] /\ j - m \in 1 .. n /\ u[j] = ds[j - m]
          /\ i - m < j - m
      BY <1>1, <1>6, <1>8, <2>3
    <3>2. QED
      BY <1>1, <3>1 DEF InOrder
  <2>4. QED
    BY <2>1, <2>2, <2>3, <1>1, <1>8
<1>9. InOrder(t, u, a, c)
  BY <1>3, <1>7, <1>8 DEF InOrder
<1>10. QED
  BY <1>2, <1>9 DEF u

\* Comments in order between two places stand between them.
LEMMA CommentsBetween ==
  ASSUME NEW t, NEW cs \in Seq(CommentType), NEW a \in Nat, NEW b \in Nat, InOrder(t, cs, a, b), NEW c \in ToSet(cs)
  PROVE  Places(c) \subseteq a .. b - 1
<1>1. DOMAIN cs = 1 .. Len(cs) /\ \A n \in DOMAIN cs : cs[n] \in CommentType
  BY LenProperties, ElementOfSeq
<1>2. c \in CommentType /\ a <= c.from /\ c.to <= b
  BY <1>1 DEF InOrder, ToSet
<1>3. QED
  BY <1>2 DEF Places, CommentType

\* A token that begins where the lexer stands, behind the tokens before it.
LEMMA InOrderAppend ==
  ASSUME NEW tokens \in Seq(TokenType), NEW x \in TokenType, NEW p \in Nat, NEW q \in Nat,
         TokensInOrder(p, tokens), 1 <= p, p <= x.from, x.from <= q, x.to <= q
  PROVE  TokensInOrder(q, Append(tokens, x))
<1> DEFINE n == Len(tokens)
           u == Append(tokens, x)
<1>1. n \in Nat /\ DOMAIN tokens = 1 .. n /\ \A i \in 1 .. n : tokens[i] \in TokenType
  BY LenProperties, ElementOfSeq
<1>2. u \in Seq(TokenType) /\ Len(u) = n + 1 /\ u[n + 1] = x /\ \A i \in 1 .. n : u[i] = tokens[i]
  BY AppendProperties
<1>3. DOMAIN u = 1 .. n + 1
  BY <1>2, LenProperties
<1> HIDE DEF n, u
<1>4. ASSUME NEW i \in 1 .. n + 1 PROVE 1 <= u[i].from /\ u[i].to <= q
  <2>1. CASE i = n + 1
    <3>1. 1 <= x.from
      BY DEF TokenType
    <3>2. QED
      BY <1>2, <2>1, <3>1
  <2>2. CASE i # n + 1
    <3>1. i \in 1 .. n /\ u[i] = tokens[i] /\ u[i] \in TokenType
      BY <1>1, <1>2, <2>2
    <3>2. 1 <= u[i].from /\ u[i].to <= p /\ u[i].to \in Nat
      BY <1>1, <3>1 DEF TokensInOrder, TokenType
    <3>3. x.from \in Nat
      BY DEF TokenType
    <3>4. QED
      BY <3>2, <3>3
  <2>3. QED
    BY <2>1, <2>2
<1>5. ASSUME NEW i \in 1 .. n + 1, NEW j \in 1 .. n + 1, i < j PROVE u[i].to <= u[j].from
  <2>1. i \in 1 .. n /\ u[i] = tokens[i] /\ u[i] \in TokenType
    BY <1>1, <1>2, <1>5
  <2>2. CASE j = n + 1
    <3>1. u[i].to <= p /\ u[i].to \in Nat /\ x.from \in Nat
      BY <1>1, <2>1 DEF TokensInOrder, TokenType
    <3>2. QED
      BY <1>2, <2>2, <3>1
  <2>3. CASE j # n + 1
    <3>1. j \in 1 .. n /\ u[j] = tokens[j]
      BY <1>1, <1>2, <2>3
    <3>2. QED
      BY <1>1, <1>5, <2>1, <3>1 DEF TokensInOrder
  <2>4. QED
    BY <2>2, <2>3
<1>6. TokensInOrder(q, u)
  BY <1>3, <1>4, <1>5 DEF TokensInOrder
<1>7. QED
  BY <1>6 DEF u

\* Comments in order stay so when more of the text is read ...
LEMMA InOrderUpTo ==
  ASSUME NEW t, NEW cs \in Seq(CommentType), NEW a \in Nat, NEW b \in Nat, NEW c \in Nat, b <= c, InOrder(t, cs, a, b)
  PROVE  InOrder(t, cs, a, c)
<1>1. DOMAIN cs = 1 .. Len(cs) /\ \A n \in DOMAIN cs : cs[n] \in CommentType
  BY LenProperties, ElementOfSeq
<1>2. ASSUME NEW n \in DOMAIN cs PROVE cs[n].to <= c
  BY <1>1 DEF InOrder, CommentType
<1>3. QED
  BY <1>2 DEF InOrder

\* ... and when it is a comment.
LEMMA InOrderMore ==
  ASSUME NEW t, NEW cs \in Seq(CommentType), NEW a \in Nat, NEW b \in Nat, NEW c \in Nat, a <= b,
         InOrder(t, cs, a, b), b < c, NEW inline \in BOOLEAN, inline <=> HasCodeBeforeInLine(t, b)
  PROVE  LET comment == [from |-> b, to |-> c, inline |-> inline]
         IN  Append(cs, comment) \in Seq(CommentType) /\ InOrder(t, Append(cs, comment), a, c)
<1> DEFINE comment == [from |-> b, to |-> c, inline |-> inline]
           one == <<comment>>
<1>1. comment \in CommentType /\ comment.from = b /\ comment.to = c /\ (comment.inline <=> HasCodeBeforeInLine(t, b))
  BY DEF CommentType
<1> HIDE DEF comment
<1>2. one \in Seq(CommentType) /\ DOMAIN one = {1} /\ one[1] = comment
  BY <1>1
<1>3. InOrder(t, one, b, c)
  <2> HIDE DEF one
  <2>1. QED
    BY <1>1, <1>2 DEF InOrder
<1>4. Append(cs, comment) = cs \o one
  BY <1>1, AppendIsConcat
<1> HIDE DEF one
<1>5. cs \o one \in Seq(CommentType) /\ InOrder(t, cs \o one, a, c)
  BY <1>2, <1>3, InOrderConcat
<1>6. QED
  BY <1>4, <1>5 DEF comment

\* skipSpace skips space and comments, all there are.
LEMMA SpaceIsAPiece ==
  ASSUME NEW t \in Seq(STRING), NEW p \in Place(t)
  PROVE  SkipsAPiece(t, p)
<1> DEFINE D == [pos : Place(t), comments : Seq(CommentType)]
           body == [l \in D |-> SkipRound(t, l)]
           first == [pos |-> p, comments |-> <<>>]
           Good(l) == /\ p <= l.pos
                      /\ InOrder(t, l.comments, p, l.pos)
                      /\ NothingBetween(t, l.comments, p, l.pos)
           X == {l \in D : Good(l)}
           end == Loop(body, first, t)
<1>1. Len(t) \in Nat /\ p \in Nat /\ Place(t) = 1 .. Len(t) + 1
  BY AtAPlace DEF Place
<1>2. first \in X
  <2>1. InOrder(t, <<>>, p, p) /\ NothingBetween(t, <<>>, p, p)
    BY <1>1 DEF InOrder, NothingBetween
  <2>2. first \in D /\ first.pos = p /\ first.comments = <<>>
    BY EmptySeq
  <2>3. QED
    BY <1>1, <2>1, <2>2
<1>3. ASSUME NEW l \in X
      PROVE  /\ SkipRound(t, l) \in X
             /\ (SkipRound(t, l) = l /\ StartsToken(t, l.pos)) \/ l.pos < SkipRound(t, l).pos
  <2> DEFINE q == l.pos
             cs == l.comments
  <2>1. /\ l = [pos |-> q, comments |-> cs] /\ q \in Place(t) /\ cs \in Seq(CommentType) /\ q \in Nat /\ p <= q
        /\ InOrder(t, cs, p, q) /\ NothingBetween(t, cs, p, q)
    BY <1>1
  <2> HIDE DEF q, cs
  <2>2. CASE StartsComment(t, q)
    <3> DEFINE e == CommentEnd(t, q)
               inline == HasCodeBeforeInLine(t, q)
               comment == [from |-> q, to |-> e, inline |-> inline]
               ds == Append(cs, comment)
    <3>1. e \in q + 1 .. Len(t) + 1
      BY <2>1, <2>2, CommentEndIsBehind
    <3> HIDE DEF e
    <3>2. e \in Nat /\ e \in Place(t) /\ q < e /\ p <= e
      BY <1>1, <2>1, <3>1
    <3>3. inline \in BOOLEAN
      BY DEF HasCodeBeforeInLine
    <3> HIDE DEF inline
    <3>4. inline <=> HasCodeBeforeInLine(t, q)
      BY DEF inline
    <3>5. ds \in Seq(CommentType) /\ InOrder(t, ds, p, e)
      BY <1>1, <2>1, <3>2, <3>3, <3>4, InOrderMore
    <3>6. comment \in CommentType /\ comment.from = q /\ comment.to = e
      BY <2>1, <3>2, <3>3 DEF CommentType
    <3> HIDE DEF comment
    <3>7. ToSet(ds) = ToSet(cs) \cup {comment}
      BY <2>1, <3>6, ToSetAppend
    <3>8. NothingBetween(t, ds, p, e)
      <4> SUFFICES ASSUME NEW i \in p .. e - 1 PROVE t[i] \in Space \/ \E c \in ToSet(ds) : i \in Places(c)
        BY DEF NothingBetween
      <4>1. CASE i < q
        <5>1. i \in p .. q - 1
          BY <1>1, <2>1, <4>1
        <5>2. QED
          BY <2>1, <3>7, <5>1, Zenon DEF NothingBetween
      <4>2. CASE q <= i
        <5>1. i \in Places(comment)
          BY <1>1, <2>1, <3>2, <3>6, <4>2 DEF Places
        <5>2. QED
          BY <3>7, <5>1
      <4>3. QED
        BY <1>1, <2>1, <4>1, <4>2
    <3>9. SkipRound(t, l) = [pos |-> e, comments |-> ds]
      BY <2>2, <3>6 DEF SkipRound, e, comment, inline, q, cs
    <3> HIDE DEF ds
    <3>10. QED
      BY <2>1, <3>2, <3>5, <3>8, <3>9
  <2>3. CASE ~ StartsComment(t, q) /\ At(t, q) \in Space
    <3>1. q \in 1 .. Len(t) /\ At(t, q) = t[q]
      BY <2>3, AtAPlace DEF Space
    <3>2. SkipRound(t, l) = [pos |-> q + 1, comments |-> cs]
      BY <2>1, <2>3 DEF SkipRound, q, cs
    <3>3. q + 1 \in Place(t) /\ q + 1 \in Nat /\ p <= q + 1 /\ q < q + 1
      BY <1>1, <2>1, <3>1
    <3>4. InOrder(t, cs, p, q + 1)
      BY <1>1, <2>1, <3>3, InOrderUpTo
    <3>5. NothingBetween(t, cs, p, q + 1)
      <4>1. \A i \in p .. q + 1 - 1 : i = q \/ i \in p .. q - 1
        BY <1>1, <2>1
      <4>2. QED
        BY <2>1, <2>3, <3>1, <4>1 DEF NothingBetween
    <3>6. QED
      BY <2>1, <3>2, <3>3, <3>4, <3>5
  <2>4. CASE ~ StartsComment(t, q) /\ At(t, q) \notin Space
    <3>1. SkipRound(t, l) = l
      BY <2>4 DEF SkipRound, q
    <3>2. QED
      BY <2>4, <3>1 DEF StartsToken, q
  <2>5. QED
    BY <2>2, <2>3, <2>4
<1>4. \A l \in X : body[l] = SkipRound(t, l) /\ l.pos \in Place(t)
  <2> HIDE DEF Good
  <2>1. QED
    OBVIOUS
<1>5. SkipSpace(t, p) = end
  BY DEF SkipSpace
<1> HIDE DEF body, X, first
<1>6. \A l \in X : body[l] \in X
  BY <1>3, <1>4
<1>7. end \in X
  BY <1>1, <1>2, <1>6, LoopKeeps
<1>8. \A l \in X : l.pos \in Place(t) /\ (body[l] = l \/ l.pos < body[l].pos)
  BY <1>3, <1>4
<1>9. body[end] = end
  BY <1>1, <1>2, <1>6, <1>8, LoopEnds
<1> HIDE DEF end
<1>10. StartsToken(t, end.pos)
  <2>1. SkipRound(t, end) = end /\ end.pos \in Nat
    BY <1>1, <1>4, <1>7, <1>9
  <2>2. ~ (end.pos < end.pos)
    BY <2>1
  <2>3. QED
    BY <1>3, <1>7, <2>1, <2>2
<1>11. /\ end.pos \in Place(t) /\ end.comments \in Seq(CommentType) /\ p <= end.pos
       /\ InOrder(t, end.comments, p, end.pos) /\ NothingBetween(t, end.comments, p, end.pos)
  BY <1>7 DEF X
<1>12. end.pos \in p .. Len(t) + 1
  BY <1>1, <1>11
<1>13. QED
  BY <1>5, <1>10, <1>11, <1>12 DEF SkipsAPiece

\* A loop whose rounds never go back ends where it began, or behind.
LEMMA LoopGoesOn ==
  ASSUME NEW t \in Seq(STRING), NEW D, NEW body, NEW first \in D,
         \A l \in D : l.pos \in Place(t) /\ body[l] \in D /\ l.pos <= body[l].pos
  PROVE  Loop(body, first, t) \in D /\ Loop(body, first, t).pos \in first.pos .. Len(t) + 1
<1> DEFINE X == {l \in D : first.pos <= l.pos}
           end == Loop(body, first, t)
<1>1. Len(t) \in Nat /\ Place(t) = 1 .. Len(t) + 1 /\ \A l \in D : l.pos \in Nat
  BY AtAPlace DEF Place
<1>2. first \in X
  BY <1>1
<1>3. ASSUME NEW l \in X PROVE body[l] \in X
  <2>1. l \in D /\ body[l] \in D /\ first.pos <= l.pos /\ l.pos <= body[l].pos
    OBVIOUS
  <2>2. first.pos <= body[l].pos
    BY <1>1, <2>1
  <2>3. QED
    BY <2>1, <2>2
<1>4. end \in X
  <2>1. \A l \in X : body[l] \in X
    BY <1>3
  <2> HIDE DEF X
  <2>2. QED
    BY <1>1, <1>2, <2>1, LoopKeeps
<1> HIDE DEF end
<1>5. end \in D /\ first.pos <= end.pos /\ end.pos \in 1 .. Len(t) + 1
  BY <1>1, <1>4
<1>6. end.pos \in first.pos .. Len(t) + 1
  BY <1>1, <1>5
<1>7. QED
  BY <1>5, <1>6 DEF end

\* advance stops at the end of the text,
LEMMA AfterIsBehind ==
  ASSUME NEW t \in Seq(STRING), NEW i \in Place(t)
  PROVE  /\ After(t, i) \in i .. Len(t) + 1 /\ After(t, i) \in Place(t)
         /\ i <= Len(t) => After(t, i) > i
<1>1. Len(t) \in Nat /\ i \in 1 .. Len(t) + 1
  BY AtAPlace DEF Place
<1>2. /\ After(t, i) \in i .. Len(t) + 1
      /\ i <= Len(t) => After(t, i) > i
  BY AtMost DEF After
<1>3. QED
  BY <1>1, <1>2 DEF Place

\* and an escape sequence does.
LEMMA EscapeIsBehind ==
  ASSUME NEW t \in Seq(STRING), NEW i \in 1 .. Len(t)
  PROVE  EscapeEnd(t, i) \in i + 1 .. Len(t) + 1 /\ Unescaped(t, i) \in Seq(Char)
<1>1. Len(t) \in Nat /\ i \in Place(t) /\ i <= Len(t) /\ i \in Nat
  BY AtAPlace DEF Place
<1>2. EscapeEnd(t, i) \in i + 1 .. Len(t) + 1
  <2> DEFINE x == Min({i + 6, Len(t) + 1})
             y == Min({i + 2, Len(t) + 1})
  <2>1. x \in i .. Len(t) + 1 /\ x > i /\ y \in i .. Len(t) + 1 /\ y > i
    BY <1>1, AtMost
  <2>2. EscapeEnd(t, i) = IF At(t, i + 1) = "u" THEN x ELSE y
    BY DEF EscapeEnd
  <2> HIDE DEF x, y
  <2>3. QED
    BY <1>1, <2>1, <2>2
<1>3. Unescaped(t, i) \in Seq(Char)
  <2> DEFINE c == At(t, i + 1)
  <2>1. c # "eof" => c \in Char
    BY AtAPlace DEF Char
  <2> HIDE DEF c
  <2>2. /\ <<"\n">> \in Seq(Char) /\ <<"\r">> \in Seq(Char) /\ <<"\t">> \in Seq(Char)
        /\ <<"code">> \in Seq(Char) /\ <<>> \in Seq(Char)
    BY DEF Char
  <2>3. c # "eof" => <<c>> \in Seq(Char)
    BY <2>1
  <2>4. QED
    BY <2>2, <2>3 DEF Unescaped, c
<1>4. QED
  BY <1>2, <1>3

\* readNumber
LEMMA NumberIsBehind ==
  ASSUME NEW t \in Seq(STRING), NEW p \in Place(t)
  PROVE  ReadNumber(t, p).pos \in p .. Len(t) + 1 /\ ReadNumber(t, p).isFloat \in BOOLEAN
<1> DEFINE D == [pos : Place(t), isFloat : BOOLEAN]
           body == [l \in D |-> NumberRound(t, l)]
           first == [pos |-> p, isFloat |-> FALSE]
<1>1. ReadNumber(t, p) = Loop(body, first, t) /\ first \in D /\ first.pos = p
  BY DEF ReadNumber
<1>2. ASSUME NEW l \in D PROVE l.pos \in Place(t) /\ body[l] \in D /\ l.pos <= body[l].pos
  <2> DEFINE q == l.pos
             c == At(t, q)
             d == At(t, q + 1)
  <2>1. body[l] = NumberRound(t, l) /\ l = [pos |-> q, isFloat |-> l.isFloat] /\ l.isFloat \in BOOLEAN
    OBVIOUS
  <2>2. /\ Len(t) \in Nat /\ q \in 1 .. Len(t) + 1 /\ Place(t) = 1 .. Len(t) + 1
        /\ c # "eof" => q \in 1 .. Len(t)
        /\ d # "eof" => q + 1 \in 1 .. Len(t)
    BY AtAPlace DEF Place
  <2>3. c \in Digits \cup {".", "e"} => q + 1 \in Place(t) /\ q <= q + 1
    BY <2>2 DEF Digits
  <2>4. d \in {"+", "-"} => q + 2 \in Place(t) /\ q <= q + 2
    BY <2>2
  <2>5. \/ NumberRound(t, l) = [pos |-> q + 1, isFloat |-> l.isFloat] /\ c \in Digits
        \/ NumberRound(t, l) = [pos |-> q + 1, isFloat |-> TRUE] /\ c \in {".", "e"}
        \/ NumberRound(t, l) = [pos |-> q + 2, isFloat |-> TRUE] /\ d \in {"+", "-"}
        \/ NumberRound(t, l) = l
    <3>1. [l EXCEPT !.pos = @ + 1] = [pos |-> q + 1, isFloat |-> l.isFloat]
      BY <2>1
    <3>2. CASE c \in Digits
      BY <3>1, <3>2 DEF NumberRound, Digits
    <3>3. CASE c = "." /\ ~ l.isFloat
      BY <3>3 DEF NumberRound, Digits
    <3>4. CASE c = "e"
      BY <3>4 DEF NumberRound, Digits
    <3>5. CASE c \notin Digits /\ ~ (c = "." /\ ~ l.isFloat) /\ c # "e"
      BY <3>5 DEF NumberRound
    <3>6. QED
      BY <3>2, <3>3, <3>4, <3>5
  <2>6. \E k \in Place(t), b \in BOOLEAN : q <= k /\ NumberRound(t, l) = [pos |-> k, isFloat |-> b]
    <3>1. q \in Place(t) /\ q <= q /\ TRUE \in BOOLEAN
      BY <2>2
    <3> HIDE DEF q, c, d, body
    <3>2. CASE NumberRound(t, l) = [pos |-> q + 1, isFloat |-> l.isFloat] /\ c \in Digits
      BY <2>1, <2>3, <3>2
    <3>3. CASE NumberRound(t, l) = [pos |-> q + 1, isFloat |-> TRUE] /\ c \in {".", "e"}
      BY <2>3, <3>1, <3>3
    <3>4. CASE NumberRound(t, l) = [pos |-> q + 2, isFloat |-> TRUE] /\ d \in {"+", "-"}
      BY <2>4, <3>1, <3>4
    <3>5. CASE NumberRound(t, l) = l
      BY <2>1, <3>1, <3>5
    <3>6. QED
      BY <2>5, <3>2, <3>3, <3>4, <3>5
  <2>7. PICK k \in Place(t), b \in BOOLEAN : q <= k /\ NumberRound(t, l) = [pos |-> k, isFloat |-> b]
    BY <2>6
  <2> HIDE DEF body
  <2>8. QED
    BY <2>1, <2>7
<1> HIDE DEF D, body, first
<1>3. Loop(body, first, t) \in D /\ Loop(body, first, t).pos \in first.pos .. Len(t) + 1
  BY <1>1, <1>2, LoopGoesOn
<1>4. QED
  BY <1>1, <1>3 DEF D

\* Behind a character is a place.
LEMMA NextPlace ==
  ASSUME NEW t \in Seq(STRING), NEW q \in Place(t), At(t, q) # "eof"
  PROVE  /\ q \in 1 .. Len(t) /\ q \in Nat /\ q + 1 \in Place(t) /\ q <= q + 1
         /\ At(t, q) \in STRING
         /\ At(t, q + 1) # "eof" => q + 2 \in Place(t) /\ q <= q + 2
<1>1. Len(t) \in Nat /\ Place(t) = 1 .. Len(t) + 1 /\ q \in 1 .. Len(t) /\ At(t, q) \in STRING
  BY AtAPlace DEF Place
<1>2. At(t, q + 1) # "eof" => q + 1 \in 1 .. Len(t)
  BY AtAPlace
<1>3. QED
  BY <1>1, <1>2

\* The marks that the lexer tells apart.
LEMMA MarksDiffer ==
  /\ Open \notin Quotes \cup {Close, "eof", "-", "/", "tick", "\\"}
  /\ Close \notin Quotes \cup {"eof", "-", "/", "tick", "\\"}
  /\ "eof" \notin Quotes /\ "-" \notin Quotes /\ "/" \notin Quotes /\ "\\" \notin Quotes /\ "tick" \notin Quotes
BY Zenon DEF Open, Close, Quotes

\* readString
LEMMA StringIsBehind ==
  ASSUME NEW t \in Seq(STRING), NEW p \in Place(t), NEW quote \in Quotes
  PROVE  ReadString(t, p, quote).pos \in p .. Len(t) + 1
<1> DEFINE D == [pos : Place(t), value : Seq(Char)]
           body == [l \in D |-> StringRound(t, quote, l)]
           first == [pos |-> p, value |-> <<>>]
           end == Loop(body, first, t)
<1>1. ReadString(t, p, quote) = [end EXCEPT !.pos = After(t, @)] /\ first \in D /\ first.pos = p
  BY EmptySeq DEF ReadString
<1>2. Len(t) \in Nat /\ Place(t) = 1 .. Len(t) + 1
  BY AtAPlace DEF Place
<1>3. ASSUME NEW l \in D PROVE l.pos \in Place(t) /\ body[l] \in D /\ l.pos <= body[l].pos
  <2> DEFINE q == l.pos
             v == l.value
             c == At(t, q)
  <2>1. body[l] = StringRound(t, quote, l) /\ q \in Place(t) /\ v \in Seq(Char) /\ l = [pos |-> q, value |-> v]
    OBVIOUS
  <2> HIDE DEF D, body
  <2>2. \E k \in Place(t), w \in Seq(Char) : q <= k /\ StringRound(t, quote, l) = [pos |-> k, value |-> w]
    <3>1. CASE c \in {quote, "eof"}
      <4>1. StringRound(t, quote, l) = l
        BY <3>1, MarksDiffer DEF StringRound
      <4>2. q <= q
        BY <1>2, <2>1
      <4> HIDE DEF q, v
      <4>3. QED
        BY <2>1, <4>1, <4>2
    <3>2. CASE c = "\\" /\ c \notin {quote, "eof"}
      <4> DEFINE k == EscapeEnd(t, q)
                 w == v \o Unescaped(t, q)
      <4>1. StringRound(t, quote, l) = [pos |-> k, value |-> w]
        BY <3>2, MarksDiffer DEF StringRound
      <4>2. q \in 1 .. Len(t)
        BY <2>1, <3>2, NextPlace
      <4>3. k \in q + 1 .. Len(t) + 1 /\ Unescaped(t, q) \in Seq(Char)
        BY <4>2, EscapeIsBehind
      <4>4. w \in Seq(Char)
        BY <2>1, <4>3, ConcatProperties
      <4> HIDE DEF k, w, q
      <4>5. k \in Place(t) /\ q <= k
        BY <1>2, <4>2, <4>3
      <4>6. QED
        BY <4>1, <4>4, <4>5
    <3>3. CASE c # "\\" /\ c \notin {quote, "eof"}
      <4> DEFINE w == Append(v, c)
      <4>1. StringRound(t, quote, l) = [pos |-> q + 1, value |-> w]
        BY <3>3, MarksDiffer DEF StringRound
      <4>2. c \in Char /\ q + 1 \in Place(t) /\ q <= q + 1
        BY <2>1, <3>3, NextPlace DEF Char
      <4>3. w \in Seq(Char)
        BY <2>1, <4>2, AppendProperties
      <4> HIDE DEF w, q
      <4>4. QED
        BY <4>1, <4>2, <4>3
    <3>4. QED
      BY <3>1, <3>2, <3>3
  <2>3. PICK k \in Place(t), w \in Seq(Char) : q <= k /\ StringRound(t, quote, l) = [pos |-> k, value |-> w]
    BY <2>2
  <2>4. QED
    BY <2>1, <2>3 DEF D
<1> HIDE DEF body, first
<1>4. end \in D /\ end.pos \in p .. Len(t) + 1
  <2> HIDE DEF D
  <2>1. QED
    BY <1>1, <1>3, LoopGoesOn
<1> HIDE DEF end
<1>5. end.pos \in Place(t) /\ p \in Nat
  BY <1>2, <1>4
<1>6. After(t, end.pos) \in p .. Len(t) + 1
  <2>1. After(t, end.pos) \in end.pos .. Len(t) + 1
    BY <1>5, AfterIsBehind
  <2>2. QED
    BY <1>2, <1>4, <1>5, <2>1
<1>7. ReadString(t, p, quote).pos = After(t, end.pos)
  BY <1>1, <1>4
<1>8. QED
  BY <1>6, <1>7

\* A string inside a block or a parameter.
LEMMA QuotedEndIsBehind ==
  ASSUME NEW t \in Seq(STRING), NEW p \in Place(t), NEW quote \in Quotes
  PROVE  QuotedEnd(t, p, quote) \in p .. Len(t) + 1
<1> DEFINE body == [j \in Place(t) |-> QuotedRound(t, quote, j)]
           X == {j \in Place(t) : p <= j}
           end == Loop(body, p, t)
<1>1. QuotedEnd(t, p, quote) = After(t, end)
  BY DEF QuotedEnd
<1>2. Len(t) \in Nat /\ Place(t) = 1 .. Len(t) + 1
  BY AtAPlace DEF Place
<1>3. ASSUME NEW j \in X PROVE body[j] \in X
  <2>1. body[j] = QuotedRound(t, quote, j) /\ j \in Place(t) /\ p <= j /\ p \in Nat /\ j \in Nat
    BY <1>2
  <2>2. CASE At(t, j) \in {quote, "eof"}
    BY <2>1, <2>2, MarksDiffer DEF QuotedRound
  <2>3. CASE At(t, j) = "\\" /\ At(t, j) \notin {quote, "eof"}
    <3> DEFINE k == Min({j + 2, Len(t) + 1})
    <3>1. QuotedRound(t, quote, j) = k
      BY <2>3, MarksDiffer DEF QuotedRound
    <3>2. k \in j .. Len(t) + 1
      BY <2>1, AtMost
    <3> HIDE DEF k
    <3>3. QED
      BY <1>2, <2>1, <3>1, <3>2
  <2>4. CASE At(t, j) # "\\" /\ At(t, j) \notin {quote, "eof"}
    <3>1. QuotedRound(t, quote, j) = j + 1
      BY <2>4, MarksDiffer DEF QuotedRound
    <3>2. j + 1 \in Place(t) /\ j <= j + 1
      BY <2>1, <2>4, NextPlace
    <3>3. p <= j + 1
      BY <2>1
    <3>4. QED
      BY <2>1, <3>1, <3>2, <3>3
  <2>5. QED
    BY <2>2, <2>3, <2>4
<1>4. end \in X
  <2>1. p \in X /\ \A j \in X : body[j] \in X
    BY <1>2, <1>3
  <2> HIDE DEF X, body
  <2>2. QED
    BY <1>2, <2>1, LoopKeeps
<1> HIDE DEF end
<1>5. After(t, end) \in end .. Len(t) + 1
  BY <1>4, AfterIsBehind
<1>6. QED
  BY <1>1, <1>2, <1>4, <1>5

\* readParamExpr
LEMMA ParamEndIsBehind ==
  ASSUME NEW t \in Seq(STRING), NEW p \in Place(t)
  PROVE  ParamEnd(t, p) \in p .. Len(t) + 1 /\ ParamEnd(t, p) \in Place(t)
<1> DEFINE D == [pos : Place(t), depth : Nat]
           body == [l \in D |-> ParamRound(t, l)]
           first == [pos |-> p, depth |-> 1]
           end == Loop(body, first, t)
<1>1. ParamEnd(t, p) = end.pos /\ first \in D /\ first.pos = p
  BY DEF ParamEnd
<1>2. Len(t) \in Nat /\ Place(t) = 1 .. Len(t) + 1
  BY AtAPlace DEF Place
<1>3. ASSUME NEW l \in D PROVE l.pos \in Place(t) /\ body[l] \in D /\ l.pos <= body[l].pos
  <2> DEFINE q == l.pos
             d == l.depth
             c == At(t, q)
  <2>1. body[l] = ParamRound(t, l) /\ q \in Place(t) /\ q \in Nat /\ d \in Nat /\ l = [pos |-> q, depth |-> d]
    BY <1>2
  <2>2. c # "eof" => q \in 1 .. Len(t) /\ q + 1 \in Place(t) /\ q <= q + 1
    BY <2>1, NextPlace
  <2> HIDE DEF D, body
  <2>3. \E k \in Place(t), e \in Nat : q <= k /\ ParamRound(t, l) = [pos |-> k, depth |-> e]
    <3>1. CASE EndsBlock(t, l)
      <4>1. ParamRound(t, l) = l
        BY <3>1, MarksDiffer DEF ParamRound, EndsBlock
      <4>2. q <= q
        BY <2>1
      <4> HIDE DEF q, d
      <4>3. QED
        BY <2>1, <4>1, <4>2
    <3>2. CASE ~ EndsBlock(t, l) /\ c = Open
      <4>1. ParamRound(t, l) = [pos |-> q + 1, depth |-> d + 1] /\ d + 1 \in Nat
        BY <2>1, <3>2, MarksDiffer DEF ParamRound, EndsBlock
      <4> HIDE DEF q, d
      <4>2. QED
        BY <2>2, <3>2, <4>1, MarksDiffer
    <3>3. CASE ~ EndsBlock(t, l) /\ c = Close /\ d > 1
      <4>1. ParamRound(t, l) = [pos |-> q + 1, depth |-> d - 1] /\ d - 1 \in Nat
        BY <2>1, <3>3, MarksDiffer DEF ParamRound, EndsBlock
      <4> HIDE DEF q, d
      <4>2. QED
        BY <2>2, <3>3, <4>1, MarksDiffer
    <3>4. CASE ~ EndsBlock(t, l) /\ c \in Quotes
      <4> DEFINE k == QuotedEnd(t, q + 1, c)
      <4>1. ParamRound(t, l) = [pos |-> k, depth |-> d]
        BY <2>1, <3>4, MarksDiffer DEF ParamRound, EndsBlock
      <4>2. c # "eof"
        BY <3>4, MarksDiffer
      <4>3. k \in q + 1 .. Len(t) + 1
        <5>1. q + 1 \in Place(t) /\ c \in Quotes
          BY <2>2, <3>4, <4>2
        <5> HIDE DEF q, c
        <5>2. QED
          BY <5>1, QuotedEndIsBehind
      <4> HIDE DEF q, d, k
      <4>4. k \in Place(t) /\ q <= k
        BY <1>2, <2>1, <4>3
      <4>5. QED
        BY <2>1, <4>1, <4>4
    <3>5. CASE ~ EndsBlock(t, l) /\ c # Open /\ ~ (c = Close /\ d > 1) /\ c \notin Quotes
      <4>1. ParamRound(t, l) = [pos |-> q + 1, depth |-> d]
        BY <2>1, <3>5, MarksDiffer DEF ParamRound, EndsBlock
      <4>2. c # "eof"
        BY <3>5 DEF EndsBlock
      <4> HIDE DEF q, d
      <4>3. QED
        BY <2>1, <2>2, <4>1, <4>2
    <3>6. QED
      BY <3>1, <3>2, <3>3, <3>4, <3>5
  <2>4. PICK k \in Place(t), e \in Nat : q <= k /\ ParamRound(t, l) = [pos |-> k, depth |-> e]
    BY <2>3
  <2>5. QED
    BY <2>1, <2>4 DEF D
<1> HIDE DEF body, first, D
<1>4. end.pos \in p .. Len(t) + 1
  BY <1>1, <1>3, LoopGoesOn
<1>5. QED
  BY <1>1, <1>2, <1>4

\* readTableBlock
LEMMA TableEndIsBehind ==
  ASSUME NEW t \in Seq(STRING), NEW p \in Place(t)
  PROVE  TableEnd(t, p) \in p .. Len(t) + 1
<1> DEFINE D == [pos : Place(t), depth : Nat]
           body == [l \in D |-> TableRound(t, l)]
           first == [pos |-> p, depth |-> 1]
           end == Loop(body, first, t)
<1>1. TableEnd(t, p) = After(t, end.pos) /\ first \in D /\ first.pos = p
  BY DEF TableEnd
<1>2. Len(t) \in Nat /\ Place(t) = 1 .. Len(t) + 1
  BY AtAPlace DEF Place
<1>3. ASSUME NEW l \in D PROVE l.pos \in Place(t) /\ body[l] \in D /\ l.pos <= body[l].pos
  <2> DEFINE q == l.pos
             d == l.depth
             c == At(t, q)
  <2>1. body[l] = TableRound(t, l) /\ q \in Place(t) /\ q \in Nat /\ d \in Nat /\ l = [pos |-> q, depth |-> d]
    BY <1>2
  <2>2. c # "eof" => q + 1 \in Place(t) /\ q <= q + 1
    BY <2>1, NextPlace
  <2> HIDE DEF D, body
  <2>3. \E k \in Place(t), e \in Nat : q <= k /\ TableRound(t, l) = [pos |-> k, depth |-> e]
    <3>1. CASE EndsBlock(t, l)
      <4>1. TableRound(t, l) = l
        BY <3>1, MarksDiffer DEF TableRound, EndsBlock
      <4>2. q <= q
        BY <2>1
      <4> HIDE DEF q, d
      <4>3. QED
        BY <2>1, <4>1, <4>2
    <3>2. CASE ~ EndsBlock(t, l) /\ c = Open
      <4>1. TableRound(t, l) = [pos |-> q + 1, depth |-> d + 1] /\ d + 1 \in Nat
        BY <2>1, <3>2, MarksDiffer DEF TableRound, EndsBlock
      <4> HIDE DEF q, d
      <4>2. QED
        BY <2>2, <3>2, <4>1, MarksDiffer
    <3>3. CASE ~ EndsBlock(t, l) /\ c = Close /\ d > 1
      <4>1. TableRound(t, l) = [pos |-> q + 1, depth |-> d - 1] /\ d - 1 \in Nat
        BY <2>1, <3>3, MarksDiffer DEF TableRound, EndsBlock
      <4> HIDE DEF q, d
      <4>2. QED
        BY <2>2, <3>3, <4>1, MarksDiffer
    <3>4. CASE ~ EndsBlock(t, l) /\ c # Open /\ ~ (c = Close /\ d > 1)
      <4>1. TableRound(t, l) = [pos |-> q + 1, depth |-> d]
        BY <2>1, <3>4, MarksDiffer DEF TableRound, EndsBlock
      <4>2. c # "eof"
        BY <3>4 DEF EndsBlock
      <4> HIDE DEF q, d
      <4>3. QED
        BY <2>1, <2>2, <4>1, <4>2
    <3>5. QED
      BY <3>1, <3>2, <3>3, <3>4
  <2>4. PICK k \in Place(t), e \in Nat : q <= k /\ TableRound(t, l) = [pos |-> k, depth |-> e]
    BY <2>3
  <2>5. QED
    BY <2>1, <2>4 DEF D
<1> HIDE DEF body, first, D
<1>4. end.pos \in p .. Len(t) + 1
  BY <1>1, <1>3, LoopGoesOn
<1> HIDE DEF end
<1>5. end.pos \in Place(t)
  BY <1>2, <1>4
<1>6. After(t, end.pos) \in end.pos .. Len(t) + 1
  BY <1>5, AfterIsBehind
<1>7. QED
  BY <1>1, <1>2, <1>4, <1>6

\* readTemplateLiteral
LEMMA TemplateIsBehind ==
  ASSUME NEW t \in Seq(STRING), NEW p \in Place(t)
  PROVE  ReadTemplate(t, p).pos \in p .. Len(t) + 1
<1> DEFINE V == Seq(Char)
           T == Seq(STRING)
           D == [pos : Place(t), segment : V, segments : Seq(V), exprs : Seq(T)]
           body == [l \in D |-> TemplateRound(t, l)]
           first == [pos |-> p, segment |-> <<>>, segments |-> <<>>, exprs |-> <<>>]
           end == Loop(body, first, t)
<1>1. ReadTemplate(t, p).pos = After(t, end.pos) /\ first \in D /\ first.pos = p
  BY EmptySeq DEF ReadTemplate
<1>2. Len(t) \in Nat /\ Place(t) = 1 .. Len(t) + 1
  BY AtAPlace DEF Place
<1>3. ASSUME NEW l \in D PROVE l.pos \in Place(t) /\ body[l] \in D /\ l.pos <= body[l].pos
  <2> DEFINE q == l.pos
             c == At(t, q)
             With(k, v, vs, es) == [pos |-> k, segment |-> v, segments |-> vs, exprs |-> es]
  <2>1. /\ body[l] = TemplateRound(t, l) /\ q \in Place(t) /\ q \in Nat
        /\ l.segment \in V /\ l.segments \in Seq(V) /\ l.exprs \in Seq(T)
        /\ l = With(q, l.segment, l.segments, l.exprs)
    BY <1>2
  <2> HIDE DEF V, T, D, body
  <2>2. \E k \in Place(t), v \in V, vs \in Seq(V), es \in Seq(T) : q <= k /\ TemplateRound(t, l) = With(k, v, vs, es)
    <3>1. CASE c \in {"tick", "eof"}
      <4>1. TemplateRound(t, l) = l
        BY <3>1 DEF TemplateRound
      <4>2. q <= q
        BY <2>1
      <4> HIDE DEF q, With
      <4>3. QED
        BY <2>1, <4>1, <4>2, Zenon
    <3>2. CASE c = "$" /\ At(t, q + 1) = Open
      <4> DEFINE brace == ParamEnd(t, q + 2)
                 k == After(t, brace)
                 vs == Append(l.segments, l.segment)
                 e == Slice(t, q + 2, brace)
                 es == Append(l.exprs, e)
      <4>1. TemplateRound(t, l) = With(k, <<>>, vs, es)
        BY <3>2 DEF TemplateRound
      <4>2. q + 2 \in Place(t) /\ q <= q + 2 /\ q + 2 \in Nat /\ 1 <= q + 2
        <5>1. c # "eof" /\ At(t, q + 1) # "eof"
          BY <3>2, MarksDiffer
        <5>2. q + 2 \in Place(t) /\ q <= q + 2
          BY <2>1, <5>1, NextPlace
        <5>3. QED
          BY <1>2, <5>2
      <4>3. brace \in q + 2 .. Len(t) + 1 /\ brace \in Place(t)
        BY <4>2, ParamEndIsBehind
      <4> HIDE DEF brace
      <4>4. k \in brace .. Len(t) + 1 /\ k \in Place(t)
        BY <4>3, AfterIsBehind
      <4>5. e \in T
        BY <4>2, <4>3, SliceIsText DEF T
      <4> HIDE DEF e, k, q
      <4>6. es \in Seq(T) /\ vs \in Seq(V) /\ <<>> \in V
        BY <2>1, <4>5, AppendProperties, EmptySeq DEF V
      <4>7. q <= k
        BY <1>2, <2>1, <4>3, <4>4
      <4> HIDE DEF vs, es, With
      <4>8. QED
        BY <4>1, <4>4, <4>6, <4>7, Zenon
    <3>3. CASE c = "\\"
      <4> DEFINE k == EscapeEnd(t, q)
                 v == l.segment \o Unescaped(t, q)
      <4>1. TemplateRound(t, l) = With(k, v, l.segments, l.exprs)
        <5>1. TemplateRound(t, l) = [l EXCEPT !.pos = EscapeEnd(t, @), !.segment = @ \o Unescaped(t, l.pos)]
          BY <3>3 DEF TemplateRound
        <5>2. QED
          BY <2>1, <5>1
      <4>2. q \in 1 .. Len(t)
        BY <2>1, <3>3, NextPlace
      <4>3. k \in q + 1 .. Len(t) + 1 /\ Unescaped(t, q) \in V
        BY <4>2, EscapeIsBehind DEF V
      <4>4. v \in V
        BY <2>1, <4>3, ConcatProperties DEF V
      <4> HIDE DEF k, v, q
      <4>5. k \in Place(t) /\ q <= k
        BY <1>2, <4>2, <4>3
      <4> HIDE DEF With
      <4>6. QED
        BY <2>1, <4>1, <4>4, <4>5, Zenon
    <3>4. CASE c \notin {"tick", "eof", "\\"} /\ ~ (c = "$" /\ At(t, q + 1) = Open)
      <4> DEFINE v == Append(l.segment, c)
      <4>1. TemplateRound(t, l) = With(q + 1, v, l.segments, l.exprs)
        <5>1. TemplateRound(t, l) = [l EXCEPT !.pos = @ + 1, !.segment = Append(@, At(t, l.pos))]
          BY <3>4 DEF TemplateRound
        <5>2. QED
          BY <2>1, <5>1
      <4>2. c \in Char /\ q + 1 \in Place(t) /\ q <= q + 1
        BY <2>1, <3>4, NextPlace DEF Char
      <4>3. v \in V
        BY <2>1, <4>2, AppendProperties DEF V
      <4> HIDE DEF v, q, With
      <4>4. QED
        BY <2>1, <4>1, <4>2, <4>3, Zenon
    <3>5. QED
      BY <3>1, <3>2, <3>3, <3>4
  <2>3. PICK k \in Place(t), v \in V, vs \in Seq(V), es \in Seq(T) : q <= k /\ TemplateRound(t, l) = With(k, v, vs, es)
    BY <2>2
  <2>4. QED
    BY <2>1, <2>3 DEF D
<1> HIDE DEF body, first, D
<1>4. end.pos \in p .. Len(t) + 1
  BY <1>1, <1>3, LoopGoesOn
<1> HIDE DEF end
<1>5. end.pos \in Place(t)
  BY <1>2, <1>4
<1>6. After(t, end.pos) \in end.pos .. Len(t) + 1
  BY <1>5, AfterIsBehind
<1>7. QED
  BY <1>1, <1>2, <1>4, <1>6

\* readSQLBlock, with the comments that skipSpace finds in it.
LEMMA BlockIsAPiece ==
  ASSUME NEW t \in Seq(STRING), NEW p \in Place(t)
  PROVE  LET block == ReadSQLBlock(t, p)
         IN  /\ block.pos \in p .. Len(t) + 1 /\ block.comments \in Seq(CommentType)
             /\ InOrder(t, block.comments, p, block.pos)
<1> DEFINE Q == STRING \cup {"?"}
           T == Seq(STRING)
           C == Seq(CommentType)
           D == [pos : Place(t), depth : Nat, query : Seq(Q), params : Seq(T), comments : C]
           body == [l \in D |-> BlockRound(t, l)]
           first == [pos |-> p, depth |-> 1, query |-> <<>>, params |-> <<>>, comments |-> <<>>]
           X == {l \in D : p <= l.pos /\ InOrder(t, l.comments, p, l.pos)}
           end == Loop(body, first, t)
           With(k, d, u, ps, cs) == [pos |-> k, depth |-> d, query |-> u, params |-> ps, comments |-> cs]
<1>1. /\ ReadSQLBlock(t, p).pos = After(t, end.pos) /\ ReadSQLBlock(t, p).comments = end.comments
      /\ first \in D /\ first.pos = p /\ first.comments = <<>>
  BY EmptySeq DEF ReadSQLBlock
<1>2. Len(t) \in Nat /\ Place(t) = 1 .. Len(t) + 1 /\ p \in Nat
  BY AtAPlace DEF Place
<1>3. ASSUME NEW l \in X PROVE body[l] \in X
  <2> DEFINE q == l.pos
             d == l.depth
             u == l.query
             ps == l.params
             cs == l.comments
             c == At(t, q)
             inner == SkipSpace(t, q + 1)
             brace == ParamEnd(t, inner.pos)
             To(j) == [l EXCEPT !.pos = j, !.query = @ \o Slice(t, l.pos, j)]
  <2>1. /\ body[l] = BlockRound(t, l) /\ q \in Place(t) /\ q \in Nat /\ 1 <= q /\ p <= q
        /\ d \in Nat /\ u \in Seq(Q) /\ ps \in Seq(T) /\ cs \in C
        /\ InOrder(t, cs, p, q)
        /\ l = With(q, d, u, ps, cs)
    BY <1>2
  <2>2. c # "eof" => q \in 1 .. Len(t) /\ q + 1 \in Place(t) /\ q <= q + 1 /\ c \in STRING
    BY <2>1, NextPlace
  <2>3. ASSUME NEW k \in Place(t), NEW e \in Nat, NEW v \in Seq(Q), NEW qs \in Seq(T), NEW ds \in C,
               p <= k, InOrder(t, ds, p, k)
        PROVE  With(k, e, v, qs, ds) \in X
    BY <2>3
  <2> HIDE DEF Q, T, C, X, body
  <2>4. ASSUME NEW k \in Place(t), q <= k
        PROVE  /\ To(k) = With(k, d, u \o Slice(t, q, k), ps, cs)
               /\ \A e \in Nat : With(k, e, u \o Slice(t, q, k), ps, cs) \in X
    <3>1. Slice(t, q, k) \in Seq(Q)
      BY <2>1, SliceIsText DEF Q
    <3>2. u \o Slice(t, q, k) \in Seq(Q)
      BY <2>1, <3>1, ConcatProperties
    <3>3. k \in Nat /\ p <= k
      BY <1>2, <2>1, <2>4
    <3>4. InOrder(t, cs, p, k)
      BY <1>2, <2>1, <2>4, <3>3, InOrderUpTo DEF C
    <3>5. To(k) = With(k, d, u \o Slice(t, q, k), ps, cs)
      <4> DEFINE w == u \o Slice(t, q, k)
      <4>1. To(k) = [l EXCEPT !.pos = k, !.query = w]
        OBVIOUS
      <4> HIDE DEF w, To
      <4>2. To(k) = With(k, d, w, ps, cs)
        BY <2>1, <4>1
      <4>3. QED
        BY <4>2 DEF w
    <3> HIDE DEF With
    <3>6. QED
      BY <2>1, <2>3, <3>2, <3>3, <3>4, <3>5
  <2>5. ASSUME c = Open
        PROVE  /\ inner.pos \in Place(t) /\ inner.pos \in Nat /\ 1 <= inner.pos /\ p <= inner.pos
               /\ brace \in Place(t) /\ inner.pos <= brace
               /\ cs \o inner.comments \in C
               /\ InOrder(t, cs \o inner.comments, p, inner.pos)
    <3>1. q + 1 \in Place(t) /\ q + 1 \in Nat /\ p <= q + 1
      BY <1>2, <2>1, <2>2, <2>5, MarksDiffer
    <3> HIDE DEF q, cs
    <3>2. /\ inner.pos \in q + 1 .. Len(t) + 1 /\ inner.comments \in Seq(CommentType)
          /\ InOrder(t, inner.comments, q + 1, inner.pos)
      BY <3>1, SpaceIsAPiece DEF SkipsAPiece
    <3>3. InOrder(t, cs, p, q + 1) /\ cs \in Seq(CommentType)
      <4>1. cs \in Seq(CommentType) /\ q <= q + 1
        BY <2>1 DEF C
      <4>2. QED
        BY <1>2, <2>1, <3>1, <4>1, InOrderUpTo
    <3> HIDE DEF inner
    <3>4. inner.pos \in Nat /\ q + 1 <= inner.pos /\ inner.pos \in Place(t) /\ 1 <= inner.pos /\ p <= inner.pos
      BY <1>2, <2>1, <3>1, <3>2
    <3>5. cs \o inner.comments \in Seq(CommentType) /\ InOrder(t, cs \o inner.comments, p, inner.pos)
      BY <1>2, <3>1, <3>2, <3>3, <3>4, InOrderConcat
    <3>6. brace \in inner.pos .. Len(t) + 1 /\ brace \in Place(t)
      BY <3>4, ParamEndIsBehind
    <3> HIDE DEF brace
    <3>7. inner.pos <= brace
      BY <3>4, <3>6
    <3>8. QED
      BY <3>4, <3>5, <3>6, <3>7 DEF C
  <2>6. CASE EndsBlock(t, l)
    <3>1. BlockRound(t, l) = l
      BY <2>6, MarksDiffer DEF BlockRound, EndsBlock
    <3>2. QED
      BY <2>1, <3>1
  <2>7. CASE ~ EndsBlock(t, l) /\ c = Open /\ StartsParam(At(t, inner.pos))
    <3> DEFINE k == After(t, brace)
               v == Append(u, "?")
               e == Slice(t, inner.pos, brace)
               qs == Append(ps, e)
               ds == cs \o inner.comments
    <3>1. BlockRound(t, l) = With(k, d, v, qs, ds)
      <4>1. BlockRound(t, l) = [l EXCEPT !.pos = k, !.query = v, !.params = qs, !.comments = ds]
        BY <2>7, MarksDiffer DEF BlockRound
      <4> HIDE DEF k, v, e, qs, ds
      <4>2. QED
        BY <2>1, <4>1
    <3>2. k \in brace .. Len(t) + 1 /\ k \in Place(t)
      BY <2>5, <2>7, AfterIsBehind
    <3>3. e \in T
      BY <2>5, <2>7, SliceIsText DEF T
    <3> HIDE DEF e
    <3>4. v \in Seq(Q) /\ qs \in Seq(T) /\ ds \in C
      <4>1. "?" \in Q
        BY DEF Q
      <4>2. v \in Seq(Q)
        BY <2>1, <4>1, AppendProperties
      <4>3. qs \in Seq(T)
        BY <2>1, <3>3, AppendProperties
      <4>4. QED
        BY <2>5, <2>7, <4>2, <4>3
    <3> HIDE DEF v, qs
    <3>5. inner.pos \in Nat /\ k \in Nat /\ inner.pos <= k /\ p <= k /\ InOrder(t, ds, p, inner.pos)
      BY <1>2, <2>5, <2>7, <3>2
    <3> HIDE DEF k, ds, inner, brace, With
    <3>6. InOrder(t, ds, p, k)
      BY <1>2, <3>4, <3>5, InOrderUpTo DEF C
    <3>7. QED
      BY <2>1, <2>3, <3>1, <3>2, <3>4, <3>5, <3>6
  <2>8. CASE ~ EndsBlock(t, l) /\ c = Open /\ ~ StartsParam(At(t, inner.pos))
    <3> DEFINE k == inner.pos
               v == Append(u, Open)
               ds == cs \o inner.comments
    <3>1. BlockRound(t, l) = With(k, d + 1, v, ps, ds)
      <4>1. BlockRound(t, l) = [l EXCEPT !.pos = k, !.depth = d + 1, !.query = v, !.comments = ds]
        BY <2>8, MarksDiffer DEF BlockRound
      <4> HIDE DEF k, v, ds
      <4>2. QED
        BY <2>1, <4>1
    <3>2. v \in Seq(Q) /\ d + 1 \in Nat
      <4>1. Open \in Q
        BY <2>2, <2>8, MarksDiffer DEF Q
      <4>2. QED
        BY <2>1, <4>1, AppendProperties
    <3>3. k \in Place(t) /\ p <= k /\ ds \in C /\ InOrder(t, ds, p, k)
      BY <2>5, <2>8
    <3> HIDE DEF k, v, ds, With
    <3>4. QED
      BY <2>1, <2>3, <3>1, <3>2, <3>3
  <2>9. CASE ~ EndsBlock(t, l) /\ c = Close /\ d > 1
    <3> DEFINE k == q + 1
               v == u \o Slice(t, q, k)
    <3>1. BlockRound(t, l) = [To(k) EXCEPT !.depth = @ - 1]
      BY <2>9, MarksDiffer DEF BlockRound
    <3>2. k \in Place(t) /\ q <= k
      BY <2>2, <2>9, MarksDiffer
    <3> HIDE DEF k, To
    <3>3. To(k) = With(k, d, v, ps, cs) /\ \A e \in Nat : With(k, e, v, ps, cs) \in X
      BY <2>4, <3>2
    <3>4. d - 1 \in Nat
      BY <2>1, <2>9
    <3> HIDE DEF v, d
    <3>5. To(k).depth = d
      BY <3>3
    <3>6. BlockRound(t, l) = With(k, d - 1, v, ps, cs)
      BY <3>1, <3>3, <3>5
    <3> HIDE DEF With
    <3>7. QED
      BY <2>1, <3>3, <3>4, <3>6
  <2>10. CASE ~ EndsBlock(t, l) /\ c \in Quotes
    <3> DEFINE k == QuotedEnd(t, q + 1, c)
    <3>1. BlockRound(t, l) = To(k)
      BY <2>10, MarksDiffer DEF BlockRound
    <3>2. q + 1 \in Place(t)
      BY <2>2, <2>10, MarksDiffer
    <3>3. k \in q + 1 .. Len(t) + 1
      <4> HIDE DEF q, c
      <4>1. QED
        BY <2>10, <3>2, QuotedEndIsBehind
    <3> HIDE DEF k
    <3>4. k \in Place(t) /\ q <= k
      BY <1>2, <2>1, <3>3
    <3> HIDE DEF With, To
    <3>5. QED
      BY <2>1, <2>4, <3>1, <3>4
  <2>11. CASE ~ EndsBlock(t, l) /\ c = "-" /\ At(t, q + 1) = "-"
    <3> DEFINE k == LineEnd(t, q)
    <3>1. BlockRound(t, l) = To(k)
      BY <2>11, MarksDiffer DEF BlockRound
    <3>2. k \in q .. Len(t) + 1
      BY <2>1, LineEndIsBehind
    <3> HIDE DEF k
    <3>3. k \in Place(t) /\ q <= k
      BY <1>2, <2>1, <3>2
    <3> HIDE DEF With, To
    <3>4. QED
      BY <2>1, <2>4, <3>1, <3>3
  <2>12. CASE ~ EndsBlock(t, l) /\ c # Open /\ ~ (c = Close /\ d > 1) /\ c \notin Quotes /\ ~ (c = "-" /\ At(t, q + 1) = "-")
    <3>1. BlockRound(t, l) = To(q + 1)
      BY <2>12 DEF BlockRound
    <3>2. c # "eof"
      BY <2>12 DEF EndsBlock
    <3>3. q + 1 \in Place(t) /\ q <= q + 1
      BY <2>2, <3>2
    <3> HIDE DEF With, To
    <3>4. QED
      BY <2>1, <2>4, <3>1, <3>3
  <2>13. QED
    BY <2>6, <2>7, <2>8, <2>9, <2>10, <2>11, <2>12
<1>4. first \in X
  <2>1. InOrder(t, <<>>, p, p) /\ p <= p
    BY <1>2 DEF InOrder
  <2> HIDE DEF first, D
  <2>2. QED
    BY <1>1, <2>1
<1>5. \A l \in X : l \in D
  OBVIOUS
<1>6. end \in X
  <2> HIDE DEF X, body, first
  <2>1. QED
    BY <1>2, <1>3, <1>4, LoopKeeps
<1> HIDE DEF end
<1>7. end.pos \in Place(t) /\ end.comments \in C /\ p <= end.pos /\ InOrder(t, end.comments, p, end.pos)
  BY <1>6
<1> HIDE DEF C, D, X
<1>8. After(t, end.pos) \in end.pos .. Len(t) + 1
  BY <1>7, AfterIsBehind
<1>9. end.pos \in Nat /\ After(t, end.pos) \in Nat /\ end.pos <= After(t, end.pos) /\ After(t, end.pos) \in p .. Len(t) + 1
  BY <1>2, <1>7, <1>8
<1>10. InOrder(t, end.comments, p, After(t, end.pos))
  BY <1>2, <1>7, <1>9, InOrderUpTo DEF C
<1>11. QED
  BY <1>1, <1>7, <1>9, <1>10 DEF C

\* Every set of numbers up to n that is not empty has a largest one.
LEMMA LargestIsThere ==
  ASSUME NEW n \in Nat, NEW N \in SUBSET (0 .. n), N # {}
  PROVE  Max(N) \in N
<1> DEFINE M == {n - y : y \in N}
<1>1. M \in SUBSET Nat /\ M # {}
  <2>1. \A y \in N : y \in 0 .. n
    OBVIOUS
  <2>2. \A y \in 0 .. n : n - y \in Nat
    OBVIOUS
  <2>3. QED
    BY <2>1, <2>2
<1>2. PICK m \in M : \A x \in M : m <= x
  <2> HIDE DEF M
  <2>1. QED
    BY <1>1, SmallestIsThere
<1>3. PICK y \in N : m = n - y
  OBVIOUS
<1>4. ASSUME NEW z \in N PROVE y >= z
  <2>1. n - z \in M
    OBVIOUS
  <2>2. n - y <= n - z /\ y \in Int /\ z \in Int
    BY <1>2, <1>3, <2>1
  <2>3. QED
    BY <2>2
<1>5. QED
  BY <1>4 DEF Max

\* The longest mark that fits is in the text.
LEMMA MarkIsBehind ==
  ASSUME NEW t \in Seq(STRING), NEW p \in 1 .. Len(t)
  PROVE  PunctuationEnd(t, p) \in p .. Len(t) + 1
<1> DEFINE fit == {x \in Long : Slice(t, p, Min({p + Len(x), Len(t) + 1})) = x}
           N == {1} \cup {Len(x) : x \in fit}
<1>1. Len(t) \in Nat /\ p \in Place(t) /\ p \in Nat
  BY AtAPlace DEF Place
<1>2. \A x \in Long : Len(x) \in {2, 3}
  BY DEF Long
<1>3. ASSUME NEW x \in fit PROVE Len(x) \in 2 .. 3 /\ p + Len(x) <= Len(t) + 1
  <2> DEFINE m == Min({p + Len(x), Len(t) + 1})
  <2>1. x \in Long /\ Slice(t, p, m) = x /\ Len(x) \in Nat /\ Len(x) \in 2 .. 3 /\ Len(x) > 0
    BY <1>2
  <2>2. m \in p .. Len(t) + 1
    BY <1>1, <2>1, AtMost
  <2> HIDE DEF m
  <2>3. p \in Int /\ m - 1 \in Int /\ m - 1 <= Len(t) /\ p <= m /\ \A k \in p .. m - 1 : t[k] \in STRING
    BY <1>1, <2>2, ElementOfSeq
  <2>4. Len(SubSeq(t, p, m - 1)) = IF p <= m - 1 THEN m - 1 - p + 1 ELSE 0
    BY <2>3, SubSeqProperties
  <2>5. Len(x) = IF p <= m - 1 THEN m - 1 - p + 1 ELSE 0
    BY <2>1, <2>4 DEF Slice
  <2>6. Len(x) = m - p
    <3>1. m \in Int /\ p \in Int /\ m - 1 - p + 1 = m - p
      BY <1>1, <2>2
    <3>2. ~ (p <= m - 1) => Len(x) = 0
      BY <2>5
    <3>3. p <= m - 1
      BY <2>1, <3>2
    <3>4. QED
      BY <2>5, <3>1, <3>3
  <2>7. QED
    BY <1>1, <2>1, <2>2, <2>6
<1> HIDE DEF fit
<1>4. N \in SUBSET (0 .. 3) /\ N # {}
  <2>1. \A x \in fit : Len(x) \in 0 .. 3
    BY <1>3
  <2>2. 1 \in 0 .. 3
    OBVIOUS
  <2>3. QED
    BY <2>1, <2>2
<1>5. Max(N) \in N
  <2> HIDE DEF N
  <2>1. QED
    BY <1>4, LargestIsThere
<1>6. Max(N) \in Nat /\ p + Max(N) <= Len(t) + 1
  <2>1. \A y \in N : y \in Nat /\ p + y <= Len(t) + 1
    BY <1>1, <1>3
  <2> HIDE DEF N
  <2>2. QED
    BY <1>5, <2>1
<1>7. PunctuationEnd(t, p) = p + Max(N)
  BY DEF PunctuationEnd, fit
<1> HIDE DEF N
<1>8. QED
  BY <1>1, <1>6, <1>7

\* The characters that words begin with, and those that other tokens do.
LEMMA WordsDiffer ==
  /\ IdentStart \subseteq IdentPart /\ "eof" \notin IdentPart /\ "eof" \notin IdentStart
  /\ \A c \in IdentStart : c \notin Digits /\ c \notin Quotes /\ c # "tick"
  /\ \A c \in Digits : c \notin Quotes /\ c # "tick" /\ c # "eof"
BY Zenon DEF IdentStart, IdentPart, Letters, Digits, Quotes

\* A token, with comments inside or behind it.
LEMMA TokenIsAPiece ==
  ASSUME NEW t \in Seq(STRING), NEW p \in Place(t), NEW kind \in Kinds, kind = "eof" => p = Len(t) + 1,
         NEW to \in p .. Len(t) + 1, NEW pos \in to .. Len(t) + 1, NEW cs \in Seq(CommentType),
         InOrder(t, cs, p, pos), NothingBetween(t, cs, to, pos), kind \in Enclosing \/ InOrder(t, cs, to, pos)
  PROVE  Reads(t, p, [token |-> [kind |-> kind, from |-> p, to |-> to], pos |-> pos, comments |-> cs])
<1> DEFINE token == [kind |-> kind, from |-> p, to |-> to]
<1>1. Len(t) \in Nat /\ p \in Nat /\ to \in Nat /\ pos \in Nat /\ p <= to /\ to <= pos /\ pos <= Len(t) + 1
  BY AtAPlace DEF Place
<1>2. pos \in p .. Len(t) + 1 /\ to \in p .. pos
  BY <1>1
<1>3. /\ token \in [kind : Kinds, from : {p}, to : p .. pos]
      /\ token.kind = kind /\ token.to = to /\ Places(token) = p .. to - 1
  BY <1>2 DEF Places
<1> HIDE DEF token
<1>4. ASSUME NEW c \in ToSet(cs), Places(c) \cap Places(token) # {} PROVE kind \in Enclosing
  <2>1. CASE InOrder(t, cs, to, pos)
    <3>1. Places(c) \subseteq to .. pos - 1
      BY <1>1, <2>1, CommentsBetween
    <3>2. QED
      BY <1>1, <1>3, <1>4, <3>1
  <2>2. QED
    BY <2>1
<1>5. QED
  BY <1>2, <1>3, <1>4 DEF Reads, token

\* A token without comments.
LEMMA PlainTokenIsAPiece ==
  ASSUME NEW t \in Seq(STRING), NEW p \in Place(t), NEW kind \in Kinds, kind = "eof" => p = Len(t) + 1,
         NEW to \in p .. Len(t) + 1
  PROVE  Reads(t, p, Scanned(kind, p, to))
<1>1. Len(t) \in Nat /\ p \in Nat /\ to \in Nat
  BY AtAPlace DEF Place
<1>2. to \in to .. Len(t) + 1 /\ <<>> \in Seq(CommentType)
  BY <1>1, EmptySeq
<1>3. InOrder(t, <<>>, p, to) /\ NothingBetween(t, <<>>, to, to) /\ InOrder(t, <<>>, to, to)
  BY <1>1 DEF InOrder, NothingBetween
<1>4. QED
  BY <1>2, <1>3, TokenIsAPiece DEF Scanned

\* Comments in order stay so when they are counted from further in front.
LEMMA InOrderFrom ==
  ASSUME NEW t, NEW cs \in Seq(CommentType),
         NEW a \in Nat, NEW b \in Nat, NEW c \in Nat, a <= b, b <= c, InOrder(t, cs, b, c)
  PROVE  InOrder(t, cs, a, c)
<1>1. DOMAIN cs = 1 .. Len(cs) /\ \A n \in DOMAIN cs : cs[n] \in CommentType
  BY LenProperties, ElementOfSeq
<1>2. ASSUME NEW n \in DOMAIN cs PROVE a <= cs[n].from
  BY <1>1 DEF InOrder, CommentType
<1>3. QED
  BY <1>2 DEF InOrder

\* Next at a word: a name, a keyword, or a block with the comments around its head.
LEMMA WordIsAPiece ==
  ASSUME NEW t \in Seq(STRING), NEW p \in Place(t), At(t, p) \in IdentStart
  PROVE  Reads(t, p, ScanWord(t, p))
<1> DEFINE end == Run(t, IdentPart, p)
           word == Slice(t, p, end)
           space == SkipSpace(t, end)
           next == At(t, space.pos)
           sql == ReadSQLBlock(t, space.pos + 1)
           name == Run(t, IdentPart, space.pos)
           open == SkipSpace(t, name)
           table == TableEnd(t, open.pos + 1)
           both == space.comments \o open.comments
           inBlock == space.comments \o sql.comments
<1>1. Len(t) \in Nat /\ Place(t) = 1 .. Len(t) + 1 /\ p \in Nat
  BY AtAPlace DEF Place
<1>2. end \in p .. Len(t) + 1 /\ end \in Place(t) /\ end \in Nat /\ p <= end
  <2>1. end \in p .. Len(t) + 1
    BY WordsDiffer, RunIsBehind
  <2> HIDE DEF end
  <2>2. QED
    BY <1>1, <2>1
<1> HIDE DEF end
<1>3. /\ space.pos \in end .. Len(t) + 1 /\ space.comments \in Seq(CommentType)
      /\ InOrder(t, space.comments, end, space.pos) /\ NothingBetween(t, space.comments, end, space.pos)
  BY <1>2, SpaceIsAPiece DEF SkipsAPiece
<1> HIDE DEF space
<1>4. space.pos \in Place(t) /\ space.pos \in Nat /\ p <= space.pos /\ end <= space.pos
  BY <1>1, <1>2, <1>3
<1>5. InOrder(t, space.comments, p, space.pos)
  BY <1>1, <1>2, <1>3, <1>4, InOrderFrom
<1>6. CASE word = <<"fetch">> /\ next = Open
  <2>1. space.pos + 1 \in Place(t) /\ space.pos + 1 \in Nat /\ space.pos <= space.pos + 1 /\ p <= space.pos + 1
    BY <1>1, <1>4, <1>6, MarksDiffer, NextPlace
  <2>2. /\ sql.pos \in space.pos + 1 .. Len(t) + 1 /\ sql.comments \in Seq(CommentType)
        /\ InOrder(t, sql.comments, space.pos + 1, sql.pos)
    BY <2>1, BlockIsAPiece
  <2> HIDE DEF sql
  <2>3. sql.pos \in p .. Len(t) + 1 /\ sql.pos \in sql.pos .. Len(t) + 1 /\ sql.pos \in Nat /\ space.pos + 1 <= sql.pos
    BY <1>1, <2>1, <2>2
  <2>4. InOrder(t, space.comments, p, space.pos + 1)
    BY <1>1, <1>3, <1>4, <1>5, <2>1, InOrderUpTo
  <2>5. inBlock \in Seq(CommentType) /\ InOrder(t, inBlock, p, sql.pos)
    BY <1>1, <1>3, <2>1, <2>2, <2>3, <2>4, InOrderConcat
  <2> HIDE DEF inBlock
  <2>6. NothingBetween(t, inBlock, sql.pos, sql.pos)
    BY <2>3 DEF NothingBetween
  <2>7. "fetchBlock" \in Kinds /\ "fetchBlock" \in Enclosing /\ "fetchBlock" # "eof"
    BY DEF Kinds, Enclosing
  <2>8. Reads(t, p, [token |-> [kind |-> "fetchBlock", from |-> p, to |-> sql.pos], pos |-> sql.pos, comments |-> inBlock])
    BY <2>3, <2>5, <2>6, <2>7, TokenIsAPiece
  <2>9. ScanWord(t, p) = [Scanned("fetchBlock", p, sql.pos) EXCEPT !.comments = inBlock]
    BY <1>6 DEF ScanWord, end, space, sql, inBlock
  <2>10. QED
    BY <2>8, <2>9 DEF Scanned
<1>7. ASSUME word = <<"table">>, next \in IdentStart
      PROVE  /\ name \in p .. Len(t) + 1 /\ name \in Place(t) /\ name \in Nat
             /\ open.pos \in name .. Len(t) + 1 /\ open.pos \in Place(t) /\ open.pos \in Nat /\ p <= open.pos
             /\ both \in Seq(CommentType) /\ InOrder(t, both, p, open.pos) /\ NothingBetween(t, both, name, open.pos)
  <2>1. name \in space.pos .. Len(t) + 1
    BY <1>4, WordsDiffer, RunIsBehind
  <2> HIDE DEF name
  <2>2. name \in p .. Len(t) + 1 /\ name \in Place(t) /\ name \in Nat /\ space.pos <= name /\ p <= name
    BY <1>1, <1>4, <2>1
  <2>3. /\ open.pos \in name .. Len(t) + 1 /\ open.comments \in Seq(CommentType)
        /\ InOrder(t, open.comments, name, open.pos) /\ NothingBetween(t, open.comments, name, open.pos)
    BY <2>2, SpaceIsAPiece DEF SkipsAPiece
  <2> HIDE DEF open
  <2>4. open.pos \in Place(t) /\ open.pos \in Nat /\ name <= open.pos /\ p <= open.pos
    BY <1>1, <2>2, <2>3
  <2>5. InOrder(t, space.comments, p, name)
    BY <1>1, <1>3, <1>4, <1>5, <2>2, InOrderUpTo
  <2>6. both \in Seq(CommentType) /\ InOrder(t, both, p, open.pos)
    BY <1>1, <1>3, <2>2, <2>3, <2>4, <2>5, InOrderConcat
  <2>7. ToSet(both) = ToSet(space.comments) \cup ToSet(open.comments)
    BY <1>3, <2>3, ToSetConcat
  <2> HIDE DEF both
  <2>8. NothingBetween(t, both, name, open.pos)
    BY <2>3, <2>7, Zenon DEF NothingBetween
  <2>9. QED
    BY <2>2, <2>3, <2>4, <2>6, <2>8
<1>8. CASE word = <<"table">> /\ next \in IdentStart /\ At(t, open.pos) = Open
  <2>1. open.pos + 1 \in Place(t) /\ open.pos <= open.pos + 1
    BY <1>7, <1>8, MarksDiffer, NextPlace
  <2>2. table \in open.pos + 1 .. Len(t) + 1
    BY <2>1, TableEndIsBehind
  <2> HIDE DEF table
  <2>3. table \in p .. Len(t) + 1 /\ table \in table .. Len(t) + 1 /\ table \in Nat /\ open.pos <= table
    BY <1>1, <1>7, <1>8, <2>2
  <2>4. both \in Seq(CommentType) /\ InOrder(t, both, p, table)
    <3>1. both \in Seq(CommentType) /\ InOrder(t, both, p, open.pos) /\ open.pos \in Nat
      BY <1>7, <1>8
    <3> HIDE DEF both, open
    <3>2. QED
      BY <1>1, <2>3, <3>1, InOrderUpTo
  <2> HIDE DEF both
  <2>5. NothingBetween(t, both, table, table)
    BY <2>3 DEF NothingBetween
  <2>6. "tableBlock" \in Kinds /\ "tableBlock" \in Enclosing /\ "tableBlock" # "eof"
    BY DEF Kinds, Enclosing
  <2>7. Reads(t, p, [token |-> [kind |-> "tableBlock", from |-> p, to |-> table], pos |-> table, comments |-> both])
    BY <2>3, <2>4, <2>5, <2>6, TokenIsAPiece
  <2>8. ScanWord(t, p) = [Scanned("tableBlock", p, table) EXCEPT !.comments = both]
    BY <1>8 DEF ScanWord, end, space, table, both
  <2>9. QED
    BY <2>7, <2>8 DEF Scanned
<1>9. CASE word = <<"table">> /\ next \in IdentStart /\ At(t, open.pos) # Open
  <2>1. /\ name \in p .. Len(t) + 1 /\ open.pos \in name .. Len(t) + 1
        /\ both \in Seq(CommentType) /\ InOrder(t, both, p, open.pos) /\ NothingBetween(t, both, name, open.pos)
    BY <1>7, <1>9
  <2>2. "table" \in Kinds /\ "table" \in Enclosing /\ "table" # "eof"
    BY DEF Kinds, Enclosing
  <2>3. ScanWord(t, p) = [Scanned("table", p, name) EXCEPT !.pos = open.pos, !.comments = both]
    BY <1>9 DEF ScanWord, end, space
  <2> HIDE DEF name, open, both
  <2>4. Reads(t, p, [token |-> [kind |-> "table", from |-> p, to |-> name], pos |-> open.pos, comments |-> both])
    BY <2>1, <2>2, TokenIsAPiece
  <2>5. QED
    BY <2>3, <2>4 DEF Scanned
<1>10. CASE (word = <<"fetch">> /\ next # Open) \/ (word = <<"table">> /\ next \notin IdentStart)
  <2>1. word[1] \in {"fetch", "table"}
    BY <1>10
  <2>2. ScanWord(t, p) = [Scanned(word[1], p, end) EXCEPT !.pos = space.pos, !.comments = space.comments]
    BY <1>10 DEF ScanWord, end, space
  <2> HIDE DEF word
  <2>3. word[1] \in Kinds /\ word[1] # "eof"
    BY <2>1 DEF Kinds
  <2>4. Reads(t, p, [token |-> [kind |-> word[1], from |-> p, to |-> end], pos |-> space.pos, comments |-> space.comments])
    BY <1>2, <1>3, <1>5, <2>3, TokenIsAPiece
  <2>5. QED
    BY <2>2, <2>4 DEF Scanned
<1>11. CASE word \notin {<<"fetch">>, <<"table">>}
  <2>1. ScanWord(t, p) = Scanned("ident", p, end)
    BY <1>11 DEF ScanWord, end
  <2>2. "ident" \in Kinds /\ "ident" # "eof"
    BY DEF Kinds
  <2>3. QED
    BY <1>2, <2>1, <2>2, PlainTokenIsAPiece
<1>12. QED
  BY <1>6, <1>8, <1>9, <1>10, <1>11

\* Next reads a token, and the comments behind or inside it, at every place of every text.
LEMMA ScanIsAPiece ==
  ASSUME NEW t \in Seq(STRING), "eof" \notin ToSet(t), NEW p \in Place(t)
  PROVE  Reads(t, p, Scan(t, p))
<1> DEFINE c == At(t, p)
           number == ReadNumber(t, p)
<1>1. Len(t) \in Nat /\ Place(t) = 1 .. Len(t) + 1 /\ p \in Nat /\ DOMAIN t = 1 .. Len(t)
  BY AtAPlace DEF Place
<1>2. c # "eof" => p \in 1 .. Len(t) /\ p + 1 \in Place(t) /\ p <= p + 1
  BY NextPlace
<1>3. CASE c = "eof"
  <2>1. p \notin 1 .. Len(t)
    BY <1>1, <1>3, AtAPlace DEF ToSet
  <2>2. p = Len(t) + 1 /\ p \in p .. Len(t) + 1
    BY <1>1, <2>1
  <2>3. Scan(t, p) = Scanned("eof", p, p)
    BY <1>3, WordsDiffer, MarksDiffer DEF Scan
  <2>4. "eof" \in Kinds
    BY DEF Kinds
  <2>5. QED
    BY <2>2, <2>3, <2>4, PlainTokenIsAPiece
<1>4. CASE c \in IdentStart
  <2>1. Scan(t, p) = ScanWord(t, p)
    BY <1>4, WordsDiffer DEF Scan
  <2>2. QED
    BY <1>4, <2>1, WordIsAPiece
<1>5. CASE c \in Digits
  <2> DEFINE kind == IF number.isFloat THEN "float" ELSE "int"
  <2>1. Scan(t, p) = Scanned(kind, p, number.pos)
    BY <1>5, WordsDiffer DEF Scan
  <2>2. kind \in Kinds /\ kind # "eof"
    BY DEF Kinds
  <2>3. number.pos \in p .. Len(t) + 1
    BY NumberIsBehind
  <2> HIDE DEF kind, number
  <2>4. QED
    BY <2>1, <2>2, <2>3, PlainTokenIsAPiece
<1>6. CASE c \in Quotes
  <2> DEFINE end == ReadString(t, p + 1, c).pos
  <2>1. Scan(t, p) = Scanned("string", p, end)
    BY <1>6, WordsDiffer, MarksDiffer DEF Scan
  <2>2. p + 1 \in Place(t)
    BY <1>2, <1>6, MarksDiffer
  <2>3. end \in p + 1 .. Len(t) + 1
    <3> HIDE DEF c
    <3>1. QED
      BY <1>6, <2>2, StringIsBehind
  <2> HIDE DEF end
  <2>4. end \in p .. Len(t) + 1
    BY <1>1, <2>3
  <2>5. "string" \in Kinds /\ "string" # "eof"
    BY DEF Kinds
  <2>6. QED
    BY <2>1, <2>4, <2>5, PlainTokenIsAPiece
<1>7. CASE c = "tick"
  <2> DEFINE end == ReadTemplate(t, p + 1).pos
  <2>1. Scan(t, p) = Scanned("template", p, end)
    BY <1>7, WordsDiffer, MarksDiffer DEF Scan
  <2>2. p + 1 \in Place(t)
    BY <1>2, <1>7
  <2>3. end \in p + 1 .. Len(t) + 1
    BY <2>2, TemplateIsBehind
  <2> HIDE DEF end
  <2>4. end \in p .. Len(t) + 1
    BY <1>1, <2>3
  <2>5. "template" \in Kinds /\ "template" # "eof"
    BY DEF Kinds
  <2>6. QED
    BY <2>1, <2>4, <2>5, PlainTokenIsAPiece
<1>8. CASE c # "eof" /\ c \notin IdentStart /\ c \notin Digits /\ c \notin Quotes /\ c # "tick"
  <2>1. Scan(t, p) = Scanned("mark", p, PunctuationEnd(t, p))
    BY <1>8 DEF Scan
  <2>2. p \in 1 .. Len(t)
    BY <1>2, <1>8
  <2>3. PunctuationEnd(t, p) \in p .. Len(t) + 1
    BY <2>2, MarkIsBehind
  <2>4. "mark" \in Kinds /\ "mark" # "eof"
    BY DEF Kinds
  <2>5. QED
    BY <2>1, <2>3, <2>4, PlainTokenIsAPiece
<1>9. QED
  BY <1>3, <1>4, <1>5, <1>6, <1>7, <1>8

\* A lexer that reads a token more is a lexer still.
LEMMA AdvancedHasRead ==
  ASSUME src \in Texts,
         NEW l \in LexerType, NEW tokens \in Seq(TokenType), HasRead(l.pos, l.comments, tokens)
  PROVE  /\ Advanced(l).lex \in LexerType
         /\ Advanced(l).lex.peeked = <<>>
         /\ Advanced(l).token \in TokenType
         /\ HasRead(Advanced(l).lex.pos, Advanced(l).lex.comments, Append(tokens, Advanced(l).token))
<1> DEFINE N == Len(src) + 1
           p == l.pos
           cs == l.comments
           space == SkipSpace(src, p)
           read == Scan(src, space.pos)
           x == read.token
           both == cs \o space.comments
           all == both \o read.comments
<1>1. Advanced(l) = [token |-> x, lex |-> [pos |-> read.pos, peeked |-> <<>>, comments |-> all]]
  BY DEF Advanced
<1>2. N \in Nat /\ p \in 1 .. N /\ cs \in Seq(CommentType)
  BY TextsAssumption, LenProperties DEF HasRead, LexerType
<1>3. src \in Seq(STRING) /\ "eof" \notin ToSet(src) /\ SkipsAPiece(src, p)
  BY <1>2, TextsAssumption, SpaceIsAPiece DEF Place
<1>4. /\ space.pos \in p .. N /\ space.comments \in Seq(CommentType)
      /\ InOrder(src, space.comments, p, space.pos)
      /\ NothingBetween(src, space.comments, p, space.pos)
      /\ StartsToken(src, space.pos)
  BY <1>3 DEF SkipsAPiece
<1>5. Reads(src, space.pos, read)
  <2>1. space.pos \in Place(src)
    BY <1>2, <1>4 DEF Place
  <2>2. QED
    BY <1>3, <2>1, ScanIsAPiece
<1>6. /\ read.pos \in space.pos .. N /\ read.comments \in Seq(CommentType)
      /\ InOrder(src, read.comments, space.pos, read.pos)
      /\ x \in [kind : Kinds, from : {space.pos}, to : space.pos .. read.pos]
      /\ x.kind = "eof" => space.pos = N
      /\ NothingBetween(src, read.comments, x.to, read.pos)
      /\ \A c \in ToSet(read.comments) : Places(c) \cap Places(x) # {} => x.kind \in Enclosing
  BY <1>5 DEF Reads
<1> HIDE DEF space, read, x, both, all, N, p, cs
<1>7. /\ p \in Nat /\ space.pos \in Nat /\ read.pos \in Nat
      /\ 1 <= p /\ p <= space.pos /\ space.pos <= read.pos /\ read.pos <= N
  BY <1>2, <1>4, <1>6
<1>8. x \in TokenType /\ x.from = space.pos /\ x.from <= x.to /\ x.to <= read.pos
  BY <1>6, <1>7 DEF TokenType
<1>9. all \in Seq(CommentType) /\ InOrder(src, all, 1, read.pos)
  <2>1. InOrder(src, cs, 1, p)
    BY DEF HasRead, cs, p
  <2>2. both \in Seq(CommentType) /\ InOrder(src, both, 1, space.pos)
    BY <1>2, <1>4, <1>7, <2>1, InOrderConcat DEF both
  <2>3. QED
    BY <1>6, <1>7, <2>2, InOrderConcat DEF all
<1>10. ToSet(all) = ToSet(cs) \cup ToSet(space.comments) \cup ToSet(read.comments)
  <2>1. both \in Seq(CommentType) /\ ToSet(both) = ToSet(cs) \cup ToSet(space.comments)
    BY <1>2, <1>4, ConcatProperties, ToSetConcat DEF both
  <2>2. ToSet(all) = ToSet(both) \cup ToSet(read.comments)
    BY <1>6, <2>1, ToSetConcat DEF all
  <2>3. QED
    BY <2>1, <2>2
<1>11. ToSet(Append(tokens, x)) = ToSet(tokens) \cup {x}
  BY <1>8, ToSetAppend
<1>12. TokensInOrder(read.pos, Append(tokens, x))
  <2>1. TokensInOrder(p, tokens)
    BY DEF HasRead, p
  <2>2. QED
    BY <1>7, <1>8, <2>1, InOrderAppend
<1>13. Filled(read.pos, all, Append(tokens, x))
  <2> SUFFICES ASSUME NEW i \in 1 .. read.pos - 1
               PROVE  \/ src[i] \in Space
                      \/ \E c \in ToSet(all) : i \in Places(c)
                      \/ \E y \in ToSet(tokens) \cup {x} : i \in Places(y)
    BY <1>11, Zenon DEF Filled
  <2>1. CASE i < p
    <3>1. Filled(p, cs, tokens)
      BY DEF HasRead, p, cs
    <3>2. i \in 1 .. p - 1
      BY <1>7, <2>1
    <3>3. QED
      BY <1>10, <3>1, <3>2, Zenon DEF Filled
  <2>2. CASE p <= i /\ i < space.pos
    <3>1. i \in p .. space.pos - 1
      BY <1>7, <2>2
    <3>2. QED
      BY <1>4, <1>10, <3>1, Zenon DEF NothingBetween
  <2>3. CASE space.pos <= i /\ i < x.to
    <3>1. i \in Places(x)
      BY <1>7, <1>8, <2>3 DEF Places, TokenType
    <3>2. QED
      BY <3>1
  <2>4. CASE x.to <= i
    <3>1. i \in x.to .. read.pos - 1
      BY <1>7, <1>8, <2>4 DEF TokenType
    <3>2. QED
      BY <1>6, <1>10, <3>1, Zenon DEF NothingBetween
  <2>5. QED
    BY <1>7, <1>8, <2>1, <2>2, <2>3, <2>4 DEF TokenType
<1>14. Apart(all, Append(tokens, x))
  <2> SUFFICES ASSUME NEW c \in ToSet(all), NEW y \in ToSet(tokens) \cup {x}, Places(c) \cap Places(y) # {}
               PROVE  y.kind \in Enclosing
    BY <1>11, Zenon DEF Apart
  <2>1. PICK i \in Places(c) : i \in Places(y)
    OBVIOUS
  <2>2. ASSUME NEW d \in ToSet(cs) PROVE Places(d) \subseteq 1 .. p - 1
    <3>1. InOrder(src, cs, 1, p)
      BY DEF HasRead, cs, p
    <3>2. QED
      BY <1>2, <1>7, <3>1, CommentsBetween
  <2>3. ASSUME NEW d \in ToSet(space.comments) PROVE Places(d) \subseteq p .. space.pos - 1
    BY <1>4, <1>7, CommentsBetween
  <2>4. ASSUME NEW d \in ToSet(read.comments) PROVE Places(d) \subseteq space.pos .. read.pos - 1
    BY <1>6, <1>7, CommentsBetween
  <2>5. ASSUME NEW z \in ToSet(tokens) PROVE \A k \in Places(z) : k < p
    <3>1. DOMAIN tokens = 1 .. Len(tokens) /\ \A n \in DOMAIN tokens : tokens[n] \in TokenType
      BY LenProperties, ElementOfSeq
    <3>2. z \in TokenType /\ z.to <= p
      BY <3>1 DEF ToSet, HasRead, TokensInOrder, p
    <3>3. QED
      BY <1>7, <3>2 DEF Places, TokenType
  <2>6. \A k \in Places(x) : space.pos <= k
    BY <1>8 DEF Places, TokenType
  <2>7. CASE y \in ToSet(tokens)
    <3>1. i < p
      BY <2>1, <2>5, <2>7
    <3>2. c \in ToSet(cs)
      BY <1>7, <1>10, <2>1, <2>3, <2>4, <3>1
    <3>3. Apart(cs, tokens)
      BY DEF HasRead, cs, p
    <3>4. QED
      BY <2>7, <3>2, <3>3 DEF Apart
  <2>8. CASE y = x
    <3>1. space.pos <= i
      BY <2>1, <2>6, <2>8
    <3>2. c \in ToSet(read.comments)
      BY <1>7, <1>10, <2>1, <2>2, <2>3, <3>1
    <3>3. QED
      BY <1>6, <2>8, <3>2
  <2>9. QED
    BY <2>7, <2>8
<1>15. HasRead(read.pos, all, Append(tokens, x))
  <2>0. Rightly(Append(tokens, x))
    BY <1>4, <1>6, <1>8, <1>11 DEF Rightly, HasRead, N
  <2>1. Append(tokens, x) \in Seq(TokenType)
    BY <1>8, AppendProperties
  <2>2. read.pos \in 1 .. Len(src) + 1
    BY <1>7 DEF N
  <2>3. QED
    BY <1>9, <1>12, <1>13, <1>14, <2>0, <2>1, <2>2 DEF HasRead
<1>16. /\ Advanced(l).token = x /\ Advanced(l).lex.pos = read.pos /\ Advanced(l).lex.peeked = <<>>
       /\ Advanced(l).lex.comments = all /\ Advanced(l).lex \in LexerType
  BY <1>1, <1>7, <1>9, EmptySeq DEF LexerType
<1>17. QED
  BY <1>8, <1>15, <1>16

-----------------------------------------------------------------------------
(***************************************************************************)
(* The steps of the parser.                                                 *)
(***************************************************************************)

\* The text stays, and what is said of it.
LEMMA TextStays ==
  ASSUME src' = src
  PROVE  /\ \A l, tokens : IsLexer(l, tokens)' <=> IsLexer(l, tokens)
         /\ LexerInv' <=> /\ src \in Texts
                          /\ IsLexer(lex', taken')
                          /\ saved' \in Seq([lex : LexerType, taken : Seq(TokenType)])
                          /\ \A n \in 1 .. Len(saved') : IsLexer(saved'[n].lex, saved'[n].taken)
<1>1. \A p, cs, tokens : Filled(p, cs, tokens)' <=> Filled(p, cs, tokens)
  BY DEF Filled
<1>2. \A p, cs, tokens : HasRead(p, cs, tokens)' <=> HasRead(p, cs, tokens)
  BY <1>1 DEF HasRead, InOrder, TokensInOrder, Apart, Rightly
<1>3. \A l, tokens : IsLexer(l, tokens)' <=> IsLexer(l, tokens)
  BY <1>2 DEF IsLexer
<1>4. LexerInv' <=> /\ src \in Texts
                    /\ IsLexer(lex', taken')
                    /\ saved' \in Seq([lex : LexerType, taken : Seq(TokenType)])
                    /\ \A n \in 1 .. Len(saved') : IsLexer(saved'[n].lex, saved'[n].taken)
  BY <1>3 DEF LexerInv
<1>5. QED
  BY <1>3, <1>4

\* The copy the parser goes back to, and those that are left.
LEMMA LastCopy ==
  ASSUME LexerInv, saved # <<>>
  PROVE  /\ IsLexer(Last(saved).lex, Last(saved).taken)
         /\ Front(saved) \in Seq([lex : LexerType, taken : Seq(TokenType)])
         /\ \A n \in 1 .. Len(Front(saved)) : IsLexer(Front(saved)[n].lex, Front(saved)[n].taken)
<1> DEFINE S == [lex : LexerType, taken : Seq(TokenType)]
           n == Len(saved)
<1>1. saved \in Seq(S)
  BY DEF LexerInv
<1>2. n \in Nat \ {0} /\ \A i \in 1 .. n - 1 : saved[i] \in S
  <2>1. n \in Nat \ {0}
    BY <1>1, EmptySeq
  <2>2. \A i \in 1 .. n : saved[i] \in S
    BY <1>1, ElementOfSeq
  <2>3. QED
    BY <2>1, <2>2
<1>3. IsLexer(saved[n].lex, saved[n].taken)
  BY <1>2 DEF LexerInv
<1>4. 1 \in Int /\ n - 1 \in Int /\ Front(saved) = SubSeq(saved, 1, n - 1)
  BY <1>2 DEF Front
<1> HIDE DEF S, n
<1>5. /\ SubSeq(saved, 1, n - 1) \in Seq(S)
      /\ Len(SubSeq(saved, 1, n - 1)) = IF 1 <= n - 1 THEN n - 1 - 1 + 1 ELSE 0
      /\ \A i \in 1 .. n - 1 - 1 + 1 : SubSeq(saved, 1, n - 1)[i] = saved[1 + i - 1]
  BY <1>2, <1>4, SubSeqProperties
<1>6. ASSUME NEW i \in 1 .. Len(Front(saved))
      PROVE  IsLexer(Front(saved)[i].lex, Front(saved)[i].taken)
  <2>1. i \in 1 .. n - 1 - 1 + 1 /\ 1 + i - 1 = i /\ i \in 1 .. n
    BY <1>2, <1>4, <1>5
  <2>2. Front(saved)[i] = saved[i]
    BY <1>4, <1>5, <2>1
  <2>3. QED
    BY <2>1, <2>2 DEF LexerInv, n
<1>7. QED
  BY <1>3, <1>4, <1>5, <1>6 DEF Last, n, S

\* Taking the token that was peeked at adds nothing.
LEMMA TakePeekedStep ==
  ASSUME LexerInv, TakePeeked
  PROVE  LexerInv'
<1>1. /\ src' = src /\ saved' = saved
      /\ lex \in LexerType /\ taken \in Seq(TokenType)
      /\ HasRead(lex.pos, lex.comments, taken \o lex.peeked)
      /\ lex' = [lex EXCEPT !.peeked = <<>>] /\ taken' = taken \o lex.peeked
  BY DEF TakePeeked, LexerInv, IsLexer
<1>2. taken' \in Seq(TokenType) /\ taken' \o <<>> = taken'
  BY <1>1, ConcatProperties, ConcatEmptySeq DEF LexerType
<1>3. lex' \in LexerType /\ lex'.pos = lex.pos /\ lex'.comments = lex.comments /\ lex'.peeked = <<>>
  BY <1>1, EmptySeq DEF LexerType
<1>4. IsLexer(lex', taken')
  BY <1>1, <1>2, <1>3 DEF IsLexer
<1>5. QED
  BY <1>1, <1>4, TextStays DEF LexerInv

\* What a lexer is that has read one more token, taken or peeked at.
LEMMA ReadsOn ==
  ASSUME LexerInv, lex.peeked = <<>>
  PROVE  /\ IsLexer(Advanced(lex).lex, Append(taken, Advanced(lex).token))
         /\ IsLexer([Advanced(lex).lex EXCEPT !.peeked = <<Advanced(lex).token>>], taken)
<1> DEFINE x == Advanced(lex).token
           l == Advanced(lex).lex
           tokens == Append(taken, x)
           k == [l EXCEPT !.peeked = <<x>>]
<1>1. src \in Texts /\ lex \in LexerType /\ taken \in Seq(TokenType) /\ HasRead(lex.pos, lex.comments, taken)
  BY ConcatEmptySeq DEF LexerInv, IsLexer
<1>2. l \in LexerType /\ l.peeked = <<>> /\ x \in TokenType /\ HasRead(l.pos, l.comments, tokens)
  BY <1>1, AdvancedHasRead
<1> HIDE DEF x, l
<1>3. tokens \in Seq(TokenType) /\ tokens \o <<>> = tokens /\ taken \o <<x>> = tokens /\ <<x>> \in Seq(TokenType)
  BY <1>1, <1>2, AppendProperties, ConcatEmptySeq
<1>4. k \in LexerType /\ k.pos = l.pos /\ k.comments = l.comments /\ k.peeked = <<x>>
  BY <1>2, <1>3 DEF LexerType
<1> HIDE DEF tokens, k
<1>5. IsLexer(l, tokens)
  BY <1>2, <1>3 DEF IsLexer
<1>6. IsLexer(k, taken)
  BY <1>1, <1>2, <1>3, <1>4 DEF IsLexer
<1>7. QED
  BY <1>5, <1>6 DEF x, l, tokens, k

\* Every sequence of steps leaves a lexer, and copies of lexers.
THEOREM LexerInvariant ==
  Spec => []LexerInv
<1>1. Init => LexerInv
  <2> SUFFICES ASSUME Init PROVE LexerInv
    OBVIOUS
  <2> USE DEF Init
  <2>1. src \in Texts /\ Len(src) \in Nat
    BY TextsAssumption, LenProperties
  <2>2. /\ lex \in LexerType /\ taken \in Seq(TokenType)
        /\ saved \in Seq([lex : LexerType, taken : Seq(TokenType)]) /\ Len(saved) = 0
    BY EmptySeq DEF LexerType
  <2>3. HasRead(1, <<>>, <<>>)
    BY <2>1, EmptySeq DEF HasRead, InOrder, TokensInOrder, Filled, Apart, Rightly, ToSet
  <2>4. <<>> \o <<>> = <<>>
    OBVIOUS
  <2>5. QED
    BY <2>1, <2>2, <2>3, <2>4 DEF LexerInv, IsLexer
<1>2. LexerInv /\ [Next]_vars => LexerInv'
  <2> SUFFICES ASSUME LexerInv, [Next]_vars PROVE LexerInv'
    OBVIOUS
  <2>1. CASE TakePeeked
    BY <2>1, TakePeekedStep
  <2>2. CASE TakeNew
    BY <2>2, ReadsOn, TextStays DEF TakeNew, LexerInv
  <2>3. CASE Peek
    BY <2>3, ReadsOn, TextStays DEF Peek, LexerInv
  <2>4. CASE Save
    <3> DEFINE S == [lex : LexerType, taken : Seq(TokenType)]
               copy == [lex |-> lex, taken |-> taken]
    <3>1. /\ saved \in Seq(S) /\ copy \in S /\ saved' = Append(saved, copy)
          /\ src' = src /\ lex' = lex /\ taken' = taken
      BY <2>4 DEF Save, LexerInv, IsLexer
    <3>2. /\ saved' \in Seq(S) /\ Len(saved') = Len(saved) + 1 /\ saved'[Len(saved) + 1] = copy
          /\ Len(saved) \in Nat /\ \A n \in 1 .. Len(saved) : saved'[n] = saved[n]
      BY <3>1, AppendProperties, LenProperties
    <3>3. ASSUME NEW n \in 1 .. Len(saved') PROVE IsLexer(saved'[n].lex, saved'[n].taken)
      BY <3>1, <3>2 DEF LexerInv
    <3>4. QED
      BY <3>1, <3>2, <3>3, TextStays DEF LexerInv
  <2>5. CASE Restore
    BY <2>5, LastCopy, TextStays DEF Restore, LexerInv
  <2>6. CASE Commit
    BY <2>6, LastCopy, TextStays DEF Commit, LexerInv
  <2>7. CASE UNCHANGED vars
    BY <2>7, TextStays DEF vars, LexerInv
  <2>8. QED
    BY <2>1, <2>2, <2>3, <2>4, <2>5, <2>6, <2>7 DEF Next
<1>3. QED
  BY <1>1, <1>2, PTL DEF Spec

-----------------------------------------------------------------------------
(***************************************************************************)
(* What follows for the tokens and comments of the parser.                   *)
(***************************************************************************)

\* Tokens are what the lexer has read them to be.
LEMMA TokensRead ==
  ASSUME LexerInv
  PROVE  /\ src \in Texts
         /\ HasRead(lex.pos, lex.comments, Tokens)
         /\ DOMAIN Tokens = 1 .. Len(Tokens) /\ \A n \in DOMAIN Tokens : Tokens[n] \in TokenType
         /\ DOMAIN lex.comments = 1 .. Len(lex.comments)
         /\ \A n \in DOMAIN lex.comments : lex.comments[n] \in CommentType
<1>1. src \in Texts /\ HasRead(lex.pos, lex.comments, Tokens)
  BY DEF LexerInv, IsLexer, Tokens
<1>2. Tokens \in Seq(TokenType) /\ lex.comments \in Seq(CommentType)
  BY <1>1 DEF HasRead
<1>3. QED
  BY <1>1, <1>2, LenProperties, ElementOfSeq

\* No place of the text is lost and none is read twice, however the parser looks
\* ahead and goes back (Next, Peek, tryParseCallTypeArgs).
THEOREM EveryPlaceOnce ==
  Spec => []Tiled
<1>1. ASSUME LexerInv PROVE Tiled
  <2> USE <1>1
  <2>1. /\ HasRead(lex.pos, lex.comments, Tokens)
        /\ DOMAIN Tokens = 1 .. Len(Tokens) /\ \A n \in DOMAIN Tokens : Tokens[n] \in TokenType
    BY TokensRead
  <2>2. TokensInOrder(lex.pos, Tokens) /\ Filled(lex.pos, lex.comments, Tokens) /\ lex.pos \in Nat
    BY <2>1 DEF HasRead
  <2>3. ASSUME NEW i \in 1 .. lex.pos - 1
        PROVE  LET tokens == {n \in DOMAIN Tokens : i \in Places(Tokens[n])}
               IN  \/ Cardinality(tokens) = 1
                   \/ tokens = {} /\ \E c \in ToSet(lex.comments) : i \in Places(c)
                   \/ tokens = {} /\ src[i] \in Space
    <3> DEFINE tokens == {n \in DOMAIN Tokens : i \in Places(Tokens[n])}
    <3>1. \/ src[i] \in Space
          \/ \E c \in ToSet(lex.comments) : i \in Places(c)
          \/ tokens # {}
      BY <2>2 DEF Filled, ToSet
    <3>2. ASSUME NEW m \in tokens, NEW n \in tokens, m # n PROVE FALSE
      <4>1. /\ i \in Nat /\ m \in Nat /\ n \in Nat
            /\ Tokens[m] \in TokenType /\ Tokens[n] \in TokenType
            /\ i \in Places(Tokens[m]) /\ i \in Places(Tokens[n])
        BY <2>1, <2>2, LenProperties
      <4>2. /\ m < n => Tokens[m].to <= Tokens[n].from
            /\ n < m => Tokens[n].to <= Tokens[m].from
        BY <2>2 DEF TokensInOrder
      <4>3. m < n \/ n < m
        BY <3>2, <4>1
      <4>4. QED
        BY <4>1, <4>2, <4>3 DEF Places, TokenType
    <3>3. CASE tokens = {}
      BY <3>1, <3>3
    <3>4. CASE tokens # {}
      <4>1. PICK n \in tokens : TRUE
        BY <3>4
      <4>2. tokens = {n}
        BY <3>2, <4>1
      <4>3. Cardinality(tokens) = 1
        BY <4>2, FS_Singleton
      <4>4. QED
        BY <4>3
    <3>5. QED
      BY <3>3, <3>4
  <2>4. ASSUME NEW n \in DOMAIN Tokens
        PROVE  Tokens[n].to <= lex.pos /\ (n > 1 => Tokens[n - 1].to <= Tokens[n].from)
    <3>1. n > 1 => n - 1 \in DOMAIN Tokens /\ n - 1 < n
      BY <2>1
    <3>2. QED
      BY <2>2, <3>1 DEF TokensInOrder
  <2>5. \A x \in ToSet(Tokens) : x.kind = "eof" => x.from = Len(src) + 1
    BY <2>1 DEF HasRead, Rightly
  <2>6. QED
    BY <2>3, <2>4, <2>5 DEF Tiled
<1>2. LexerInv => Tiled
  BY <1>1
<1>3. QED
  BY <1>2, LexerInvariant, PTL

\* Each comment is kept once and in order, and none of what a token is made of,
\* but for those inside a block (skipSpace, also behind a guess that is taken back).
THEOREM EveryCommentOnce ==
  Spec => []CommentsOnce
<1>1. ASSUME LexerInv PROVE CommentsOnce
  <2> USE <1>1
  <2>1. /\ HasRead(lex.pos, lex.comments, Tokens)
        /\ DOMAIN lex.comments = 1 .. Len(lex.comments)
    BY TokensRead
  <2>2. InOrder(src, lex.comments, 1, lex.pos) /\ Apart(lex.comments, Tokens) /\ Rightly(Tokens)
    BY <2>1 DEF HasRead
  <2>3. ASSUME NEW n \in 2 .. Len(lex.comments) PROVE lex.comments[n - 1].to <= lex.comments[n].from
    <3>1. n \in DOMAIN lex.comments /\ n - 1 \in DOMAIN lex.comments /\ n - 1 < n
      BY <2>1
    <3>2. QED
      BY <2>2, <3>1 DEF InOrder
  <2>4. QED
    BY <2>2, <2>3 DEF CommentsOnce, InOrder, Apart, Rightly
<1>2. LexerInv => CommentsOnce
  BY <1>1
<1>3. QED
  BY <1>2, LexerInvariant, PTL

\* A comment is marked as inline exactly if a token, another comment or a wide space
\* stands before it on its line (hasCodeBeforeInLine), where a carriage return ends
\* a line, too.
THEOREM InlineComments ==
  Spec => []InlineMeansAfterCode
<1>1. ASSUME LexerInv, NEW c \in ToSet(lex.comments)
      PROVE  c.inline <=> \E i \in OnLineBefore(src, c.from) :
                              \/ src[i] = "wide"
                              \/ src[i] \notin Space
                                 /\ \E x \in ToSet(Tokens) \cup ToSet(lex.comments) : i \in Places(x)
  <2> USE <1>1
  <2>1. /\ HasRead(lex.pos, lex.comments, Tokens)
        /\ DOMAIN lex.comments = 1 .. Len(lex.comments)
        /\ \A n \in DOMAIN lex.comments : lex.comments[n] \in CommentType
    BY TokensRead
  <2>2. InOrder(src, lex.comments, 1, lex.pos) /\ Filled(lex.pos, lex.comments, Tokens) /\ lex.pos \in Nat
    BY <2>1 DEF HasRead
  <2>3. /\ c \in CommentType /\ c.from < c.to /\ c.to <= lex.pos
        /\ c.inline <=> HasCodeBeforeInLine(src, c.from)
    BY <2>1, <2>2 DEF InOrder, ToSet
  <2>4. \A i \in OnLineBefore(src, c.from) : i \in 1 .. lex.pos - 1 /\ src[i] \notin Breaks
    <3>1. c.from \in Nat /\ c.to \in Nat
      BY <2>3 DEF CommentType
    <3>2. QED
      BY <2>2, <2>3, <3>1 DEF OnLineBefore
  <2>5. ASSUME NEW i \in OnLineBefore(src, c.from), src[i] \notin Margin, src[i] # "wide"
        PROVE  src[i] \notin Space /\ \E x \in ToSet(Tokens) \cup ToSet(lex.comments) : i \in Places(x)
    <3>1. src[i] \notin Space
      BY <2>4, <2>5, Zenon DEF Space, Margin, Breaks
    <3>2. QED
      BY <2>2, <2>4, <3>1 DEF Filled
  <2>6. "wide" \notin Margin /\ Margin \subseteq Space
    BY Zenon DEF Margin, Space
  <2>7. QED
    BY <2>3, <2>5, <2>6, Zenon DEF HasCodeBeforeInLine
<1>2. LexerInv => InlineMeansAfterCode
  BY <1>1 DEF InlineMeansAfterCode
<1>3. QED
  BY <1>2, LexerInvariant, PTL

-----------------------------------------------------------------------------
(***************************************************************************)
(* Literals: what stands in a text, and what the formatter joins to one.    *)
(***************************************************************************)

\* Two sequences, one behind the other (folded, what they are is not looked at).
Cat(u, v) == u \o v

\* The characters of what is written.
Sign == STRING \cup Quotes \cup {"\\", "n", "r", "t", "tick", "$", Open, Close}

\* The text t has w at the place i.
Stands(t, i, w) == i + Len(w) <= Len(t) + 1 /\ \A k \in 1 .. Len(w) : t[i + k - 1] = w[k]

\* Where a whole stands, its two parts do.
LEMMA PartsStand ==
  ASSUME NEW t \in Seq(STRING), NEW u \in Seq(Sign), NEW v \in Seq(Sign), NEW i \in Nat, Stands(t, i, Cat(u, v))
  PROVE  /\ Stands(t, i, u) /\ Stands(t, i + Len(u), v)
         /\ Len(Cat(u, v)) = Len(u) + Len(v) /\ Len(u) \in Nat /\ Len(v) \in Nat /\ Cat(u, v) \in Seq(Sign)
<1> DEFINE m == Len(u)
           n == Len(v)
           w == u \o v
<1>1. m \in Nat /\ n \in Nat /\ Len(t) \in Nat
  BY LenProperties
<1>2. w \in Seq(Sign) /\ Len(w) = m + n /\ \A k \in 1 .. m + n : w[k] = IF k <= m THEN u[k] ELSE v[k - m]
  BY ConcatProperties
<1>3. i + Len(w) <= Len(t) + 1 /\ \A k \in 1 .. Len(w) : t[i + k - 1] = w[k]
  BY DEF Stands, Cat
<1> HIDE DEF m, n, w
<1>4. Stands(t, i, u)
  <2>1. i + m <= Len(t) + 1
    BY <1>1, <1>2, <1>3
  <2>2. \A k \in 1 .. m : t[i + k - 1] = u[k]
    BY <1>1, <1>2, <1>3
  <2>3. QED
    BY <2>1, <2>2 DEF Stands, m
<1>5. Stands(t, i + m, v)
  <2>1. i + m + n <= Len(t) + 1
    BY <1>1, <1>2, <1>3
  <2>2. ASSUME NEW k \in 1 .. n PROVE t[(i + m) + k - 1] = v[k]
    <3>1. PICK j \in 1 .. m + n : j = m + k
      BY <1>1
    <3>2. t[i + j - 1] = w[j] /\ w[j] = v[k] /\ i + j - 1 = (i + m) + k - 1
      <4>1. ~ (j <= m) /\ j - m = k /\ i + j - 1 = (i + m) + k - 1
        BY <1>1, <3>1
      <4>2. w[j] = v[j - m]
        BY <1>2, <4>1
      <4>3. QED
        BY <1>2, <1>3, <4>1, <4>2
    <3>3. QED
      BY <3>2
  <2>3. QED
    BY <2>1, <2>2 DEF Stands, n
<1>6. QED
  BY <1>1, <1>2, <1>4, <1>5 DEF m, n, w, Cat

\* What the first pieces of a sequence are, one behind the other.
Joined(f, m, seqs) ==
    /\ m \in Nat /\ seqs \in [1 .. m -> Seq(Sign)] /\ f \in [0 .. m -> Seq(Sign)]
    /\ f[0] = <<>> /\ \A n \in 1 .. m : f[n] = Cat(f[n - 1], seqs[n])

\* Each step makes the next value of the one before.
Iterates(f, m, x0, step) == f[0] = x0 /\ \A n \in 1 .. m : f[n] = step[n][f[n - 1]]

\* Whatever the steps are, some function goes through them.
LEMMA StepByStep ==
  ASSUME NEW m \in Nat, NEW X, NEW x0 \in X, NEW step \in [1 .. m -> [X -> X]]
  PROVE  \E f \in [0 .. m -> X] : Iterates(f, m, x0, step)
<1> DEFINE Upto(n) == {f \in [0 .. n -> X] : Iterates(f, n, x0, step)}
           P == {n \in 0 .. m : Upto(n) # {}}
<1>1. 0 \in P
  <2>1. [k \in 0 .. 0 |-> x0] \in Upto(0)
    BY DEF Iterates
  <2>2. QED
    BY <2>1
<1>2. ASSUME NEW n \in 0 .. m - 1, n \in P PROVE n + 1 \in P
  <2>1. PICK f \in Upto(n) : TRUE
    BY <1>2
  <2> DEFINE g == [k \in 0 .. n + 1 |-> IF k = n + 1 THEN step[n + 1][f[n]] ELSE f[k]]
  <2>2. g \in Upto(n + 1)
    <3>1. step[n + 1][f[n]] \in X
      OBVIOUS
    <3>2. g \in [0 .. n + 1 -> X]
      BY <3>1
    <3>3. g[0] = x0
      BY DEF Iterates
    <3>4. ASSUME NEW k \in 1 .. n + 1 PROVE g[k] = step[k][g[k - 1]]
      <4>1. g[k - 1] = f[k - 1]
        BY <3>4
      <4>2. CASE k = n + 1
        BY <4>1, <4>2
      <4>3. CASE k # n + 1
        BY <4>1, <4>3 DEF Iterates
      <4>4. QED
        BY <4>2, <4>3
    <3>5. QED
      BY <3>2, <3>3, <3>4 DEF Iterates
  <2>3. QED
    BY <2>2
<1>3. m \in P
  <2>1. \A n \in 0 .. m - 1 : n \in P => n + 1 \in P
    BY <1>2
  <2> HIDE DEF P
  <2>2. \A n \in 0 .. m : n \in P
    BY <1>1, <2>1, UpTo, Zenon
  <2>3. QED
    BY <2>2
<1>4. QED
  BY <1>3

\* Every sequence of pieces can be joined,
LEMMA PiecesJoin ==
  ASSUME NEW m \in Nat, NEW seqs \in [1 .. m -> Seq(Sign)]
  PROVE  \E f : Joined(f, m, seqs)
<1> DEFINE X == Seq(Sign)
           step == [n \in 1 .. m |-> [x \in X |-> Cat(x, seqs[n])]]
<1>1. \A n \in 1 .. m, x \in X : Cat(x, seqs[n]) \in X
  BY ConcatProperties DEF Cat
<1>2. step \in [1 .. m -> [X -> X]] /\ <<>> \in X
  BY <1>1, EmptySeq
<1>3. \A n \in 1 .. m, x \in X : step[n][x] = Cat(x, seqs[n])
  OBVIOUS
<1> HIDE DEF X, step
<1>4. PICK f \in [0 .. m -> X] : Iterates(f, m, <<>>, step)
  BY <1>2, StepByStep
<1>5. ASSUME NEW n \in 1 .. m PROVE f[n] = Cat(f[n - 1], seqs[n])
  <2>1. n - 1 \in 0 .. m
    OBVIOUS
  <2>2. f[n - 1] \in X
    BY <2>1
  <2>3. f[n] = step[n][f[n - 1]]
    BY <1>4 DEF Iterates
  <2>4. QED
    BY <1>3, <2>2, <2>3
<1>6. Joined(f, m, seqs)
  BY <1>4, <1>5 DEF Joined, Iterates, X
<1>7. QED
  BY <1>6

\* What one more piece makes.
LEMMA OneMorePiece ==
  ASSUME NEW m \in Nat, NEW seqs, NEW f, Joined(f, m, seqs)
  PROVE  \A n \in 1 .. m : /\ f[n] = Cat(f[n - 1], seqs[n]) /\ f[n - 1] \in Seq(Sign) /\ seqs[n] \in Seq(Sign)
                           /\ n = 1 => f[n] = seqs[n]
<1> SUFFICES ASSUME NEW n \in 1 .. m
             PROVE  /\ f[n] = Cat(f[n - 1], seqs[n]) /\ f[n - 1] \in Seq(Sign) /\ seqs[n] \in Seq(Sign)
                    /\ n = 1 => f[n] = seqs[n]
  OBVIOUS
<1>1. m \in Nat /\ n - 1 \in 0 .. m /\ (n = 1 => n - 1 = 0)
  BY DEF Joined
<1>2. f[n - 1] \in Seq(Sign) /\ seqs[n] \in Seq(Sign)
  BY <1>1 DEF Joined
<1>3. f[n] = Cat(f[n - 1], seqs[n]) /\ f[0] = <<>>
  BY Zenon DEF Joined
<1>4. Cat(<<>>, seqs[n]) = seqs[n]
  BY <1>2, ConcatEmptySeq DEF Cat
<1>5. n = 1 => f[n - 1] = <<>>
  BY <1>1, <1>3
<1>6. n = 1 => f[n] = Cat(<<>>, seqs[n])
  BY <1>3, <1>5, Zenon
<1>7. QED
  BY <1>2, <1>3, <1>4, <1>6, Zenon

\* and FlattenSeq joins them.
LEMMA FlattenJoins ==
  ASSUME NEW m \in Nat, NEW seqs, NEW f, Joined(f, m, seqs)
  PROVE  FlattenSeq(seqs) = f[m]
<1>0. \A n \in 1 .. m : /\ f[n] = Cat(f[n - 1], seqs[n]) /\ f[n - 1] \in Seq(Sign) /\ seqs[n] \in Seq(Sign)
                        /\ n = 1 => f[n] = seqs[n]
  BY OneMorePiece
<1>1. /\ seqs \in Seq(Seq(Sign)) /\ Len(seqs) = m
      /\ m \in Nat /\ seqs \in [1 .. m -> Seq(Sign)] /\ f \in [0 .. m -> Seq(Sign)]
  BY DEF Joined
<1>2. CASE m = 0
  <2>1. seqs = <<>>
    BY <1>1, <1>2
  <2>2. QED
    BY <1>1, <1>2, <2>1 DEF FlattenSeq, Joined
<1>3. CASE m # 0
  <2> DEFINE Is(g) == g = [i \in 1 .. m |-> IF i = 1 THEN seqs[i] ELSE Cat(g[i - 1], seqs[i])]
             the == CHOOSE g : Is(g)
             g0 == [i \in 1 .. m |-> f[i]]
  <2>1. Is(g0)
    <3>1. ASSUME NEW i \in 1 .. m PROVE f[i] = IF i = 1 THEN seqs[i] ELSE Cat(g0[i - 1], seqs[i])
      <4>1. /\ f[i] = Cat(f[i - 1], seqs[i])
            /\ i = 1 => f[i] = seqs[i]
        BY <1>0, Zenon
      <4>2. i # 1 => i - 1 \in 1 .. m
        OBVIOUS
      <4>3. i # 1 => g0[i - 1] = f[i - 1]
        BY <4>2
      <4> HIDE DEF g0
      <4>4. QED
        BY <4>1, <4>3, Zenon
    <3>2. QED
      BY <3>1, Zenon
  <2>2. Is(the)
    <3> HIDE DEF Is, g0
    <3>1. QED
      BY <2>1
  <2>3. FlattenSeq(seqs) = the[m]
    BY <1>1, <1>3 DEF FlattenSeq, Cat
  <2>4. \A i \in 1 .. m : the[i] = IF i = 1 THEN seqs[i] ELSE Cat(the[i - 1], seqs[i])
    <3> HIDE DEF the
    <3>1. QED
      BY <2>2, Zenon
  <2> HIDE DEF the
  <2> DEFINE P == {n \in 0 .. m : n = 0 \/ the[n] = f[n]}
  <2>5. 0 \in P
    OBVIOUS
  <2>6. ASSUME NEW n \in 0 .. m - 1, n \in P PROVE n + 1 \in P
    <3>1. n + 1 \in 1 .. m /\ (n + 1) - 1 = n /\ n + 1 \in 0 .. m /\ (n + 1 = 1 <=> n = 0)
      OBVIOUS
    <3>2. /\ f[n + 1] = Cat(f[(n + 1) - 1], seqs[n + 1])
          /\ n + 1 = 1 => f[n + 1] = seqs[n + 1]
      BY <1>0, <3>1, Zenon
    <3>3. f[n + 1] = Cat(f[n], seqs[n + 1])
      BY <3>1, <3>2, Zenon
    <3>4. the[n + 1] = IF n + 1 = 1 THEN seqs[n + 1] ELSE Cat(the[(n + 1) - 1], seqs[n + 1])
      BY <2>4, <3>1, Zenon
    <3>5. the[n + 1] = f[n + 1]
      BY <2>6, <3>1, <3>2, <3>3, <3>4, Zenon
    <3>6. QED
      BY <3>1, <3>5
  <2>7. \A n \in 0 .. m - 1 : n \in P => n + 1 \in P
    BY <2>6
  <2>8. \A n \in 0 .. m : n \in P
    <3> HIDE DEF P
    <3>1. QED
      BY <2>5, <2>7, UpTo, Zenon
  <2>9. QED
    BY <1>3, <2>3, <2>8
<1>4. QED
  BY <1>2, <1>3

\* Where pieces that are joined stand, each piece stands behind those before it.
LEMMA PiecesStand ==
  ASSUME NEW m \in Nat, NEW seqs, NEW f, Joined(f, m, seqs),
         NEW t \in Seq(STRING), NEW i \in Nat, Stands(t, i, f[m])
  PROVE  \A n \in 1 .. m : /\ Stands(t, i + Len(f[n - 1]), seqs[n])
                           /\ Len(f[n]) = Len(f[n - 1]) + Len(seqs[n])
                           /\ Len(f[n - 1]) \in Nat /\ Len(seqs[n]) \in Nat /\ Stands(t, i, f[n])
<1>0. \A n \in 1 .. m : /\ f[n] = Cat(f[n - 1], seqs[n]) /\ f[n - 1] \in Seq(Sign) /\ seqs[n] \in Seq(Sign)
                        /\ n = 1 => f[n] = seqs[n]
  BY OneMorePiece
<1> DEFINE P == {k \in 0 .. m : Stands(t, i, f[m - k])}
<1>1. 0 \in P
  OBVIOUS
<1>2. ASSUME NEW n \in 1 .. m, Stands(t, i, f[n])
      PROVE  /\ Stands(t, i + Len(f[n - 1]), seqs[n]) /\ Stands(t, i, f[n - 1])
             /\ Len(f[n]) = Len(f[n - 1]) + Len(seqs[n])
             /\ Len(f[n - 1]) \in Nat /\ Len(seqs[n]) \in Nat
  <2>1. f[n] = Cat(f[n - 1], seqs[n]) /\ f[n - 1] \in Seq(Sign) /\ seqs[n] \in Seq(Sign)
    BY <1>0, Zenon
  <2> DEFINE u == f[n - 1]
             v == seqs[n]
  <2>2. u \in Seq(Sign) /\ v \in Seq(Sign) /\ Stands(t, i, Cat(u, v)) /\ f[n] = Cat(u, v)
    BY <1>2, <2>1, Zenon
  <2> HIDE DEF u, v
  <2>3. Stands(t, i, u) /\ Stands(t, i + Len(u), v) /\ Len(Cat(u, v)) = Len(u) + Len(v)
    BY <2>2, PartsStand
  <2>4. Len(u) \in Nat /\ Len(v) \in Nat
    BY <2>2, LenProperties
  <2>5. QED
    BY <2>2, <2>3, <2>4, Zenon DEF u, v
<1>3. ASSUME NEW k \in 0 .. m - 1, k \in P PROVE k + 1 \in P
  <2>1. m - k \in 1 .. m /\ (m - k) - 1 = m - (k + 1) /\ k + 1 \in 0 .. m
    OBVIOUS
  <2>2. Stands(t, i, f[m - k])
    BY <1>3
  <2>3. Stands(t, i, f[(m - k) - 1])
    BY <1>2, <2>1, <2>2
  <2>4. QED
    BY <2>1, <2>3
<1>4. \A k \in 0 .. m : k \in P
  <2>1. \A k \in 0 .. m - 1 : k \in P => k + 1 \in P
    BY <1>3
  <2> HIDE DEF P
  <2>2. QED
    BY <1>1, <2>1, UpTo, Zenon
<1>5. ASSUME NEW n \in 1 .. m PROVE Stands(t, i, f[n])
  <2>1. m - n \in 0 .. m /\ m - (m - n) = n
    OBVIOUS
  <2>2. Stands(t, i, f[m - (m - n)])
    BY <1>4, <2>1
  <2>3. QED
    BY <2>1, <2>2, Zenon
<1>6. QED
  BY <1>2, <1>5

\* The places of pieces that stand in a text, one behind the other, from i on.
Placed(p, m, seqs, t, i) ==
    /\ p \in [0 .. m -> Place(t)]
    /\ p[0] = i /\ p[m] = i + Len(FlattenSeq(seqs))
    /\ \A n \in 1 .. m : Stands(t, p[n - 1], seqs[n]) /\ p[n] = p[n - 1] + Len(seqs[n])

\* Each piece has such a place.
LEMMA PiecesHavePlaces ==
  ASSUME NEW m \in Nat, NEW seqs \in [1 .. m -> Seq(Sign)], NEW t \in Seq(STRING), NEW i \in Nat, 1 <= i,
         Stands(t, i, FlattenSeq(seqs))
  PROVE  \E p : Placed(p, m, seqs, t, i)
<1>1. m \in Nat /\ Len(t) \in Nat /\ Place(t) = 1 .. Len(t) + 1
  BY LenProperties DEF Place
<1>2. PICK f : Joined(f, m, seqs)
  BY PiecesJoin
<1>3. FlattenSeq(seqs) = f[m] /\ f[0] = <<>>
  <2>1. FlattenSeq(seqs) = f[m]
    BY <1>2, FlattenJoins
  <2>2. f[0] = <<>>
    BY <1>2 DEF Joined
  <2>3. QED
    BY <2>1, <2>2
<1>4. Stands(t, i, f[m])
  BY <1>3
<1>5. \A n \in 1 .. m : /\ Stands(t, i + Len(f[n - 1]), seqs[n])
                        /\ Len(f[n]) = Len(f[n - 1]) + Len(seqs[n])
                        /\ Len(f[n - 1]) \in Nat /\ Len(seqs[n]) \in Nat /\ Stands(t, i, f[n])
  BY <1>2, <1>4, PiecesStand
<1> DEFINE p == [n \in 0 .. m |-> i + Len(f[n])]
<1>6. \A n \in 0 .. m : Len(f[n]) \in Nat /\ p[n] = i + Len(f[n])
  <2>1. \A n \in 0 .. m : f[n] \in Seq(Sign)
    BY <1>2 DEF Joined
  <2>2. QED
    BY <2>1, LenProperties
<1>7. p = [n \in 0 .. m |-> p[n]]
  OBVIOUS
<1> HIDE DEF p
<1>8. p[0] = i /\ p[m] = i + Len(FlattenSeq(seqs))
  <2>1. 0 \in 0 .. m /\ m \in 0 .. m /\ Len(f[0]) = 0
    BY <1>1, <1>3
  <2>2. p[0] = i + Len(f[0]) /\ p[m] = i + Len(f[m])
    BY <1>6, <2>1
  <2>3. QED
    BY <1>3, <2>1, <2>2
<1>9. p \in [0 .. m -> Place(t)]
  <2>1. ASSUME NEW n \in 0 .. m PROVE p[n] \in Place(t)
    <3> DEFINE k == Len(f[n])
    <3>1. p[n] = i + k /\ k \in Nat
      BY <1>6
    <3>2. Stands(t, i, f[n])
      <4>1. CASE n = 0
        <5>1. i + Len(f[m]) <= Len(t) + 1 /\ Len(f[m]) \in Nat /\ Len(f[0]) = 0
          BY <1>1, <1>3, <1>4, <1>6 DEF Stands
        <5>2. QED
          BY <1>1, <4>1, <5>1 DEF Stands
      <4>2. CASE n # 0
        <5>1. n \in 1 .. m
          BY <1>1, <4>2
        <5>2. QED
          BY <1>5, <5>1
      <4>3. QED
        BY <4>1, <4>2
    <3>3. i + k <= Len(t) + 1
      BY <3>2 DEF Stands
    <3> HIDE DEF k
    <3>4. QED
      BY <1>1, <3>1, <3>3
  <2>2. QED
    BY <1>7, <2>1
<1>10. ASSUME NEW n \in 1 .. m PROVE Stands(t, p[n - 1], seqs[n]) /\ p[n] = p[n - 1] + Len(seqs[n])
  <2>1. n - 1 \in 0 .. m /\ n \in 0 .. m
    BY <1>1
  <2> DEFINE k == Len(f[n - 1])
             l == Len(seqs[n])
  <2>2. Stands(t, i + k, seqs[n]) /\ Len(f[n]) = k + l /\ k \in Nat /\ l \in Nat
    BY <1>5
  <2>3. p[n - 1] = i + k /\ p[n] = i + Len(f[n])
    BY <1>6, <2>1
  <2> HIDE DEF k, l
  <2>4. p[n] = i + (k + l)
    BY <2>2, <2>3
  <2>5. p[n] = p[n - 1] + l
    BY <2>2, <2>3, <2>4
  <2>6. Stands(t, p[n - 1], seqs[n])
    BY <2>2, <2>3
  <2>7. QED
    BY <2>5, <2>6 DEF l
<1>11. Placed(p, m, seqs, t, i)
  BY <1>8, <1>9, <1>10 DEF Placed
<1>12. QED
  BY <1>11

\* What pieces make is made of signs.
LEMMA PiecesAreSigns ==
  ASSUME NEW m \in Nat, NEW seqs \in [1 .. m -> Seq(Sign)]
  PROVE  FlattenSeq(seqs) \in Seq(Sign)
<1>1. PICK f : Joined(f, m, seqs)
  BY PiecesJoin
<1>2. FlattenSeq(seqs) = f[m]
  BY <1>1, FlattenJoins
<1>3. f[m] \in Seq(Sign)
  BY <1>1 DEF Joined
<1>4. QED
  BY <1>2, <1>3

\* What stands in a text is what At finds there.
LEMMA StandsAt ==
  ASSUME NEW t \in Seq(STRING), NEW a \in Nat, 1 <= a, NEW w \in Seq(Sign), Stands(t, a, w)
  PROVE  /\ a + Len(w) <= Len(t) + 1
         /\ \A k \in 1 .. Len(w) : a + k - 1 \in 1 .. Len(t) /\ At(t, a + k - 1) = w[k]
<1>1. Len(t) \in Nat /\ Len(w) \in Nat /\ DOMAIN t = 1 .. Len(t)
  BY LenProperties
<1>2. a + Len(w) <= Len(t) + 1 /\ \A k \in 1 .. Len(w) : t[a + k - 1] = w[k]
  BY DEF Stands
<1>3. ASSUME NEW k \in 1 .. Len(w) PROVE a + k - 1 \in 1 .. Len(t) /\ At(t, a + k - 1) = w[k]
  <2>1. a + k - 1 \in 1 .. Len(t)
    BY <1>1, <1>2
  <2>2. t[a + k - 1] = w[k]
    BY <1>2
  <2>3. QED
    BY <1>1, <2>1, <2>2 DEF At
<1>4. QED
  BY <1>2, <1>3

\* What stands between two equal marks.
LEMMA BetweenMarks ==
  ASSUME NEW t \in Seq(STRING), NEW i \in Nat, 1 <= i, NEW mark \in Sign, NEW e \in Seq(Sign),
         NEW w, w = Cat(Cat(<<mark>>, e), <<mark>>), Stands(t, i, w)
  PROVE  /\ Len(e) \in Nat /\ Len(w) = Len(e) + 2 /\ Stands(t, i + 1, e)
         /\ At(t, i) = mark /\ At(t, i + 1 + Len(e)) = mark /\ i + 1 + Len(e) <= Len(t)
<1> DEFINE q == <<mark>>
           x == Cat(q, e)
           k == Len(e)
           last == i + 1 + k
<1>1. q \in Seq(Sign) /\ Len(q) = 1 /\ q[1] = mark /\ k \in Nat /\ Len(t) \in Nat
  BY LenProperties
<1> HIDE DEF q
<1>2. x \in Seq(Sign) /\ Len(x) = 1 + k
  <2>1. Len(q \o e) = Len(q) + Len(e) /\ q \o e \in Seq(Sign)
    BY <1>1, ConcatProperties
  <2>2. Len(x) = Len(q) + Len(e) /\ x \in Seq(Sign)
    BY <2>1, Zenon DEF Cat
  <2>3. QED
    BY <1>1, <2>2
<1>3. w = Cat(x, q)
  BY DEF q
<1>4. Stands(t, i, x) /\ Stands(t, i + (1 + k), q) /\ Len(w) = k + 2
  <2> HIDE DEF x, k
  <2>1. x \in Seq(Sign) /\ q \in Seq(Sign) /\ Stands(t, i, Cat(x, q))
    BY <1>1, <1>2, <1>3
  <2>2. Stands(t, i, x) /\ Stands(t, i + Len(x), q) /\ Len(Cat(x, q)) = Len(x) + Len(q)
    BY <2>1, PartsStand
  <2>3. QED
    BY <1>1, <1>2, <1>3, <2>2
<1>5. Stands(t, i, q) /\ Stands(t, i + 1, e)
  BY <1>1, <1>4, PartsStand
<1> HIDE DEF k, x
<1>6. /\ i + 1 - 1 = i /\ last + 1 - 1 = last /\ i + (1 + k) = last /\ last \in Nat /\ 1 <= last /\ 1 \in 1 .. Len(q)
  BY <1>1
<1>7. Stands(t, last, q)
  BY <1>4, <1>6
<1> HIDE DEF last
<1>8. At(t, i + 1 - 1) = q[1]
  BY <1>1, <1>5, <1>6, StandsAt
<1>9. At(t, last + 1 - 1) = q[1] /\ last + Len(q) <= Len(t) + 1
  BY <1>1, <1>6, <1>7, StandsAt
<1>10. At(t, i) = mark /\ At(t, last) = mark /\ last <= Len(t)
  BY <1>1, <1>6, <1>8, <1>9
<1>11. QED
  BY <1>1, <1>4, <1>5, <1>10 DEF k, last

\* What a sequence is made of, element by element.
LEMMA PrefixesGrow ==
  ASSUME NEW S, NEW s \in Seq(S)
  PROVE  /\ SubSeq(s, 1, 0) = <<>> /\ SubSeq(s, 1, Len(s)) = s
         /\ \A n \in 0 .. Len(s) : SubSeq(s, 1, n) \in Seq(S)
         /\ \A n \in 1 .. Len(s) : s[n] \in S /\ SubSeq(s, 1, n) = Append(SubSeq(s, 1, n - 1), s[n])
<1> DEFINE m == Len(s)
           v(n) == SubSeq(s, 1, n)
<1>1. m \in Nat /\ \A n \in 1 .. m : s[n] \in S
  BY LenProperties
<1>2. v(0) = <<>> /\ v(m) = s
  BY SubSeqEmpty, SubSeqFull
<1>3. \A n \in 0 .. m : v(n) \in Seq(S)
  <2>1. ASSUME NEW n \in 0 .. m PROVE v(n) \in Seq(S)
    <3>1. \A k \in 1 .. n : s[k] \in S
      BY <1>1
    <3>2. QED
      BY <3>1, SubSeqProperties
  <2>2. QED
    BY <2>1
<1>4. \A n \in 1 .. m : v(n) = Append(v(n - 1), s[n])
  <2>1. ASSUME NEW n \in 1 .. m PROVE v(n) = Append(v(n - 1), s[n])
    <3>1. v(n) = v(n - 1) \o <<s[n]>>
      <4>1. 1 \in 1 .. Len(s) /\ n \in 1 .. Len(s)
        BY <1>1
      <4>2. QED
        BY <4>1, SubSeqRecursiveSecond
    <3>2. v(n - 1) \in Seq(S) /\ s[n] \in S
      <4>1. n - 1 \in 0 .. m
        BY <1>1
      <4>2. QED
        BY <1>1, <1>3, <4>1
    <3> HIDE DEF v
    <3>3. QED
      BY <3>1, <3>2, AppendIsConcat
  <2>2. QED
    BY <2>1
<1>5. QED
  BY <1>1, <1>2, <1>3, <1>4

\* Characters of a value: those of a file.
Plain == STRING \ {"eof"}

\* The escape sequence of d stands for c.
StandsFor(d, c) ==
    \/ d = "n" /\ c = "\n"
    \/ d = "t" /\ c = "\t"
    \/ d = "r" /\ c = "\r"
    \/ d = c /\ d \notin {"n", "t", "r", "u", "eof"}

\* From a to b an escape sequence stands in the text that is read as c.
Escaped(t, a, b, c) ==
    At(t, a) = "\\" /\ EscapeEnd(t, a) = b /\ Unescaped(t, a) = <<c>> /\ b = a + 2 /\ b <= Len(t) + 1

\* The quotation mark is none of these.
LEMMA QuoteDiffers ==
  Quote \in Quotes /\ Quote \notin {"\n", "\t", "\r", "n", "t", "r", "u", "eof", "\\", "tick", "$", Open, Close}
BY Zenon DEF Quote, Quotes, Open, Close

\* Reading an escape sequence.
LEMMA EscapeIsRead ==
  ASSUME NEW t \in Seq(STRING), NEW a \in Nat, 1 <= a, NEW d \in Sign, NEW c,
         StandsFor(d, c), Stands(t, a, <<"\\", d>>)
  PROVE  Escaped(t, a, a + 2, c)
<1> DEFINE w == <<"\\", d>>
<1>1. w \in Seq(Sign) /\ Len(w) = 2 /\ w[1] = "\\" /\ w[2] = d
  BY DEF Sign
<1> HIDE DEF w
<1>2. Stands(t, a, w)
  BY DEF w
<1>3. Len(t) \in Nat
  BY LenProperties
<1>4. a + 2 <= Len(t) + 1 /\ At(t, a) = "\\" /\ At(t, a + 1) = d
  <2>1. /\ a + Len(w) <= Len(t) + 1
        /\ \A k \in 1 .. Len(w) : At(t, a + k - 1) = w[k]
    BY <1>1, <1>2, StandsAt
  <2>2. 1 \in 1 .. Len(w) /\ 2 \in 1 .. Len(w) /\ a + 1 - 1 = a /\ a + 2 - 1 = a + 1
    BY <1>1
  <2>3. At(t, a + 1 - 1) = w[1] /\ At(t, a + 2 - 1) = w[2]
    BY <2>1, <2>2
  <2>4. QED
    BY <1>1, <2>1, <2>2, <2>3
<1>5. EscapeEnd(t, a) = a + 2
  <2>1. EscapeEnd(t, a) = Min({a + 2, Len(t) + 1})
    BY <1>4 DEF EscapeEnd, StandsFor
  <2>2. {a + 2, Len(t) + 1} \in SUBSET Nat /\ a + 2 \in {a + 2, Len(t) + 1}
    BY <1>3
  <2> DEFINE N == {a + 2, Len(t) + 1}
  <2>3. Min(N) \in N /\ \A y \in N : Min(N) <= y
    <3>1. N \in SUBSET Nat /\ N # {}
      BY <2>2
    <3> HIDE DEF N
    <3>2. QED
      BY <3>1, SmallestIsThere
  <2>4. QED
    BY <1>3, <1>4, <2>1, <2>3
<1>6. Unescaped(t, a) = <<c>>
  BY <1>4 DEF Unescaped, StandsFor
<1>7. QED
  BY <1>4, <1>5, <1>6 DEF Escaped

\* How escapeString writes a character.
LEMMA CharIsEscaped ==
  ASSUME NEW c \in Plain
  PROVE  /\ EscapedChar(c) \in Seq(Sign)
         /\ \/ EscapedChar(c) = <<c>> /\ c \in Plain \ {"\\", Quote}
            \/ \E d \in Sign : EscapedChar(c) = <<"\\", d>> /\ StandsFor(d, c)
<1>1. /\ c \in Sign /\ "\\" \in Sign /\ "n" \in Sign /\ "t" \in Sign /\ "r" \in Sign /\ c # "eof"
  BY DEF Sign, Plain
<1>2. CASE c = "\n"
  <2>1. EscapedChar(c) = <<"\\", "n">> /\ StandsFor("n", c)
    BY <1>2, QuoteDiffers DEF EscapedChar, StandsFor
  <2>2. QED
    BY <1>1, <2>1
<1>3. CASE c = "\t"
  <2>1. EscapedChar(c) = <<"\\", "t">> /\ StandsFor("t", c)
    BY <1>3, QuoteDiffers DEF EscapedChar, StandsFor
  <2>2. QED
    BY <1>1, <2>1
<1>4. CASE c = "\r"
  <2>1. EscapedChar(c) = <<"\\", "r">> /\ StandsFor("r", c)
    BY <1>4, QuoteDiffers DEF EscapedChar, StandsFor
  <2>2. QED
    BY <1>1, <2>1
<1>5. CASE c \in {"\\", Quote} /\ c \notin {"\n", "\t", "\r"}
  <2>1. EscapedChar(c) = <<"\\", c>>
    BY <1>5 DEF EscapedChar
  <2>2. StandsFor(c, c)
    BY <1>5, QuoteDiffers DEF StandsFor
  <2>3. QED
    BY <1>1, <2>1, <2>2
<1>6. CASE c \notin {"\\", Quote, "\n", "\t", "\r"}
  <2>1. EscapedChar(c) = <<c>>
    BY <1>6 DEF EscapedChar
  <2>2. QED
    BY <1>1, <1>6, <2>1
<1>7. QED
  BY <1>2, <1>3, <1>4, <1>5, <1>6

\* From a to b something stands in the text that a string is read c from.
StringReads(t, a, b, c) ==
    Escaped(t, a, b, c) \/ (At(t, a) = c /\ c \in Plain \ {"\\", Quote} /\ b = a + 1 /\ b <= Len(t) + 1)

\* How a string that the formatter has written stands in a text: an opening mark,
\* one character of its value after the other, and a closing mark.
LEMMA StringStands ==
  ASSUME NEW t \in Seq(STRING), NEW i \in Nat, 1 <= i, NEW s \in Seq(Plain), Stands(t, i, WrittenString(s))
  PROVE  \E p \in [0 .. Len(s) -> Place(t)] :
             /\ p[0] = i + 1 /\ At(t, i) = Quote
             /\ At(t, p[Len(s)]) = Quote /\ p[Len(s)] <= Len(t) /\ i + Len(WrittenString(s)) = p[Len(s)] + 1
             /\ \A n \in 1 .. Len(s) : p[n - 1] < p[n] /\ StringReads(t, p[n - 1], p[n], s[n])
<1> DEFINE m == Len(s)
           seqs == [n \in 1 .. m |-> EscapedChar(s[n])]
           e == EscapeString(s)
           w == WrittenString(s)
<1>1. /\ m \in Nat /\ DOMAIN s = 1 .. m /\ Len(t) \in Nat /\ \A n \in 1 .. m : s[n] \in Plain
  BY LenProperties
<1>2. seqs \in [1 .. m -> Seq(Sign)] /\ \A n \in 1 .. m : seqs[n] = EscapedChar(s[n])
  BY <1>1, CharIsEscaped
<1>3. e = FlattenSeq(seqs)
  BY <1>1 DEF EscapeString
<1>4. w = Cat(Cat(<<Quote>>, e), <<Quote>>)
  BY Zenon DEF WrittenString, Cat
<1> HIDE DEF m, seqs, e, w
<1>5. e \in Seq(Sign) /\ Quote \in Sign
  BY <1>1, <1>2, <1>3, PiecesAreSigns, QuoteDiffers DEF Sign
<1>6. /\ Len(e) \in Nat /\ Len(w) = Len(e) + 2 /\ Stands(t, i + 1, e)
      /\ At(t, i) = Quote /\ At(t, i + 1 + Len(e)) = Quote /\ i + 1 + Len(e) <= Len(t)
  <2>1. Stands(t, i, w)
    BY DEF w
  <2>2. QED
    BY <1>4, <1>5, <2>1, BetweenMarks
<1>7. PICK p : /\ p \in [0 .. m -> Place(t)] /\ p[0] = i + 1 /\ p[m] = i + 1 + Len(e)
               /\ \A n \in 1 .. m : Stands(t, p[n - 1], seqs[n]) /\ p[n] = p[n - 1] + Len(seqs[n])
  <2>1. i + 1 \in Nat /\ 1 <= i + 1 /\ Stands(t, i + 1, FlattenSeq(seqs))
    BY <1>3, <1>6
  <2>2. PICK p : Placed(p, m, seqs, t, i + 1)
    BY <1>1, <1>2, <2>1, PiecesHavePlaces
  <2>3. QED
    BY <1>3, <2>2 DEF Placed
<1>8. ASSUME NEW n \in 1 .. m PROVE p[n - 1] < p[n] /\ StringReads(t, p[n - 1], p[n], s[n])
  <2> DEFINE a == p[n - 1]
             b == p[n]
             c == s[n]
             x == seqs[n]
  <2>1. a \in Place(t) /\ b \in Place(t) /\ x = EscapedChar(c) /\ c \in Plain /\ x \in Seq(Sign)
    BY <1>1, <1>2, <1>7
  <2>2. Stands(t, a, x) /\ b = a + Len(x)
    BY <1>7
  <2> HIDE DEF a, b, c, x
  <2>3. a \in Nat /\ 1 <= a /\ b <= Len(t) + 1
    BY <1>1, <2>1 DEF Place
  <2>4. CASE x = <<c>> /\ c \in Plain \ {"\\", Quote}
    <3>1. Len(x) = 1 /\ x[1] = c /\ 1 \in 1 .. Len(x) /\ a + 1 - 1 = a
      BY <2>3, <2>4
    <3>2. At(t, a + 1 - 1) = x[1]
      BY <2>1, <2>2, <2>3, <3>1, StandsAt
    <3>3. a < b /\ StringReads(t, a, b, c)
      BY <2>2, <2>3, <2>4, <3>1, <3>2 DEF StringReads
    <3>4. QED
      BY <3>3 DEF a, b, c
  <2>5. CASE \E d \in Sign : x = <<"\\", d>> /\ StandsFor(d, c)
    <3>1. PICK d \in Sign : x = <<"\\", d>> /\ StandsFor(d, c)
      BY <2>5
    <3>2. Len(x) = 2 /\ Stands(t, a, <<"\\", d>>)
      BY <2>2, <3>1
    <3>3. Escaped(t, a, a + 2, c)
      BY <2>3, <3>1, <3>2, EscapeIsRead
    <3>4. a < b /\ StringReads(t, a, b, c)
      BY <2>2, <2>3, <3>2, <3>3 DEF StringReads
    <3>5. QED
      BY <3>4 DEF a, b, c
  <2>6. QED
    BY <2>1, <2>4, <2>5, CharIsEscaped
<1>9. i + Len(w) = p[m] + 1
  BY <1>6, <1>7
<1>10. QED
  BY <1>6, <1>7, <1>8, <1>9 DEF m, w

\* A loop that goes through some states, and stays in the last of them, ends there.
LEMMA LoopArrives ==
  ASSUME NEW t, Len(t) \in Nat, NEW body, NEW m \in Nat, m <= Len(t), NEW g,
         \A n \in 1 .. m : body[g[n - 1]] = g[n], body[g[m]] = g[m]
  PROVE  Loop(body, g[0], t) = g[m]
<1> DEFINE l == Len(t)
           X == {g[n] : n \in 0 .. m}
<1>1. g[0] \in X /\ l \in Nat
  OBVIOUS
<1>0. ASSUME NEW x \in X PROVE body[x] \in X
  <2>1. PICK n \in 0 .. m : x = g[n]
    OBVIOUS
  <2>2. CASE n = m
    BY <2>1, <2>2
  <2>3. CASE n # m
    <3>1. n + 1 \in 1 .. m /\ (n + 1) - 1 = n /\ n + 1 \in 0 .. m
      BY <2>1, <2>3
    <3>2. body[g[(n + 1) - 1]] = g[n + 1]
      BY <3>1
    <3>3. QED
      BY <2>1, <3>1, <3>2
  <2>4. QED
    BY <2>2, <2>3
<1> HIDE DEF X
<1>2. PICK f \in [0 .. l -> X] : Rounds(f, l, g[0], body) /\ Loop(body, g[0], t) = f[l]
  <2>1. \A x \in X : body[x] \in X
    BY <1>0
  <2> HIDE DEF l
  <2>2. \E f \in [0 .. Len(t) -> X] :
            Rounds(f, Len(t), g[0], body) /\ Loop(body, g[0], t) = f[Len(t)]
    BY <1>1, <2>1, LoopRuns
  <2>3. QED
    BY <2>2 DEF l
<1>3. f[0] = g[0] /\ \A n \in 1 .. l : f[n] = body[f[n - 1]]
  BY <1>2 DEF Rounds
<1> HIDE DEF l
<1>4. m <= l
  BY DEF l
<1> DEFINE P == {n \in 0 .. l : IF n <= m THEN f[n] = g[n] ELSE f[n] = g[m]}
<1>5. 0 \in P
  BY <1>1, <1>3
<1>6. ASSUME NEW n \in 0 .. l - 1, n \in P PROVE n + 1 \in P
  <2>1. n + 1 \in 1 .. l /\ (n + 1) - 1 = n /\ n + 1 \in 0 .. l
    BY <1>1
  <2>2. f[n + 1] = body[f[n]]
    BY <1>3, <2>1
  <2>3. CASE n + 1 <= m
    <3>1. n + 1 \in 1 .. m /\ n <= m
      BY <1>1, <2>3
    <3>2. body[g[(n + 1) - 1]] = g[n + 1]
      BY <3>1
    <3>3. f[n + 1] = g[n + 1]
      BY <1>6, <2>1, <2>2, <3>1, <3>2
    <3>4. QED
      BY <2>1, <2>3, <3>3
  <2>4. CASE ~ (n + 1 <= m)
    <3>1. f[n] = g[m]
      BY <1>1, <1>6, <2>4
    <3>2. f[n + 1] = g[m]
      BY <2>2, <3>1
    <3>3. QED
      BY <2>1, <2>4, <3>2
  <2>5. QED
    BY <2>3, <2>4
<1>7. l \in P
  <2>1. \A n \in 0 .. l - 1 : n \in P => n + 1 \in P
    BY <1>6
  <2> HIDE DEF P
  <2>2. \A n \in 0 .. l : n \in P
    BY <1>1, <1>5, <2>1, UpTo, Zenon
  <2>3. QED
    BY <1>1, <2>2
<1>8. f[l] = g[m]
  BY <1>1, <1>4, <1>7
<1>9. QED
  BY <1>2, <1>8

\* There are not more places, each behind the one before, than characters.
LEMMA PlacesAreFew ==
  ASSUME NEW t, Len(t) \in Nat, NEW m \in Nat, NEW p \in [0 .. m -> Place(t)],
         \A n \in 1 .. m : p[n - 1] < p[n], p[m] <= Len(t)
  PROVE  m <= Len(t)
<1> DEFINE P == {n \in 0 .. m : n + 1 <= p[n]}
<1>1. 0 \in P
  BY DEF Place
<1>2. ASSUME NEW n \in 0 .. m - 1, n \in P PROVE n + 1 \in P
  <2>1. n + 1 \in 1 .. m /\ (n + 1) - 1 = n /\ n + 1 \in 0 .. m /\ n \in 0 .. m
    OBVIOUS
  <2>2. p[n] \in Nat /\ p[n + 1] \in Nat /\ p[n] < p[n + 1]
    BY <2>1 DEF Place
  <2>3. QED
    BY <1>2, <2>1, <2>2
<1>3. m \in P
  <2>1. \A n \in 0 .. m - 1 : n \in P => n + 1 \in P
    BY <1>2
  <2> HIDE DEF P
  <2>2. \A n \in 0 .. m : n \in P
    BY <1>1, <2>1, UpTo, Zenon
  <2>3. QED
    BY <2>2
<1>4. m + 1 <= p[m] /\ p[m] \in Nat
  BY <1>3 DEF Place
<1>5. QED
  BY <1>4

\* Behind a character is the next place.
LEMMA OneOn ==
  ASSUME NEW t \in Seq(STRING), NEW a \in 1 .. Len(t)
  PROVE  After(t, a) = a + 1
<1> DEFINE N == {a + 1, Len(t) + 1}
<1>1. Len(t) \in Nat
  BY LenProperties
<1>2. N \in SUBSET Nat /\ N # {} /\ a + 1 \in N
  BY <1>1
<1>3. Min(N) \in N /\ \A y \in N : Min(N) <= y
  <2> HIDE DEF N
  <2>1. QED
    BY <1>2, SmallestIsThere
<1>4. Min(N) = a + 1
  BY <1>1, <1>2, <1>3
<1>5. QED
  BY <1>4 DEF After

\* Two characters on, if there are two.
LEMMA TwoOn ==
  ASSUME NEW t \in Seq(STRING), NEW a \in Nat, a + 2 <= Len(t) + 1
  PROVE  Min({a + 2, Len(t) + 1}) = a + 2
<1> DEFINE N == {a + 2, Len(t) + 1}
<1>1. Len(t) \in Nat
  BY LenProperties
<1>2. N \in SUBSET Nat /\ N # {} /\ a + 2 \in N
  BY <1>1
<1>3. Min(N) \in N /\ \A y \in N : Min(N) <= y
  <2> HIDE DEF N
  <2>1. QED
    BY <1>2, SmallestIsThere
<1>4. QED
  BY <1>1, <1>2, <1>3

\* What a round of the lexer makes of a character that stands there.
LEMMA RoundsRead ==
  ASSUME NEW t \in Seq(STRING), NEW a \in Place(t), NEW b, NEW c \in Plain, StringReads(t, a, b, c), NEW v \in Seq(Plain)
  PROVE  /\ StringRound(t, Quote, [pos |-> a, value |-> v]) = [pos |-> b, value |-> Append(v, c)]
         /\ QuotedRound(t, Quote, a) = b
<1>1. a \in Nat /\ Len(t) \in Nat
  BY AtAPlace DEF Place
<1> DEFINE l == [pos |-> a, value |-> v]
<1>2. l.pos = a /\ l.value = v
  OBVIOUS
<1>3. CASE Escaped(t, a, b, c)
  <2>1. At(t, a) = "\\" /\ EscapeEnd(t, a) = b /\ Unescaped(t, a) = <<c>> /\ b = a + 2 /\ b <= Len(t) + 1
    BY <1>3 DEF Escaped
  <2>2. At(t, a) \notin {Quote, "eof"}
    BY <2>1, QuoteDiffers
  <2>3. v \o <<c>> = Append(v, c)
    BY AppendIsConcat
  <2>4. Min({a + 2, Len(t) + 1}) = a + 2
    BY <1>1, <2>1, TwoOn
  <2>5. StringRound(t, Quote, l) = [pos |-> EscapeEnd(t, l.pos), value |-> l.value \o Unescaped(t, l.pos)]
    <3> HIDE DEF l
    <3>1. QED
      BY <1>2, <2>1, <2>2, Zenon DEF StringRound
  <2>6. QuotedRound(t, Quote, a) = Min({a + 2, Len(t) + 1})
    BY <2>1, <2>2 DEF QuotedRound
  <2> HIDE DEF l
  <2>7. StringRound(t, Quote, l) = [pos |-> b, value |-> Append(v, c)]
    BY <1>2, <2>1, <2>3, <2>5
  <2>8. QED
    BY <2>1, <2>4, <2>6, <2>7 DEF l
<1>4. CASE At(t, a) = c /\ c \in Plain \ {"\\", Quote} /\ b = a + 1 /\ b <= Len(t) + 1
  <2>1. At(t, a) \notin {Quote, "eof"} /\ At(t, a) # "\\"
    BY <1>4 DEF Plain
  <2>2. StringRound(t, Quote, l) = [pos |-> l.pos + 1, value |-> Append(l.value, At(t, l.pos))]
    <3> HIDE DEF l
    <3>1. QED
      BY <1>2, <2>1 DEF StringRound
  <2>3. QuotedRound(t, Quote, a) = a + 1
    BY <2>1 DEF QuotedRound
  <2>4. QED
    BY <1>2, <1>4, <2>2, <2>3
<1>5. QED
  BY <1>3, <1>4 DEF StringReads

\* The states of the two loops over a string that the formatter has written.
LEMMA StringStates ==
  ASSUME NEW t \in Seq(STRING), NEW s \in Seq(Plain), NEW p \in [0 .. Len(s) -> Place(t)],
         \A n \in 1 .. Len(s) : p[n - 1] < p[n] /\ StringReads(t, p[n - 1], p[n], s[n]),
         p[Len(s)] <= Len(t), At(t, p[Len(s)]) = Quote
  PROVE  /\ Loop([l \in [pos : Place(t), value : Seq(Char)] |-> StringRound(t, Quote, l)],
                 [pos |-> p[0], value |-> <<>>], t) = [pos |-> p[Len(s)], value |-> s]
         /\ Loop([j \in Place(t) |-> QuotedRound(t, Quote, j)], p[0], t) = p[Len(s)]
<1> DEFINE m == Len(s)
           X == [pos : Place(t), value : Seq(Char)]
           body == [l \in X |-> StringRound(t, Quote, l)]
           quoted == [j \in Place(t) |-> QuotedRound(t, Quote, j)]
           v(n) == SubSeq(s, 1, n)
           g == [n \in 0 .. m |-> [pos |-> p[n], value |-> v(n)]]
<1>1. m \in Nat /\ Len(t) \in Nat /\ DOMAIN s = 1 .. m /\ \A n \in 1 .. m : s[n] \in Plain
  BY LenProperties
<1>2. m <= Len(t)
  BY <1>1, PlacesAreFew
<1>3. /\ \A n \in 0 .. m : v(n) \in Seq(Plain) /\ v(n) \in Seq(Char)
      /\ v(0) = <<>> /\ v(m) = s /\ \A n \in 1 .. m : v(n) = Append(v(n - 1), s[n])
  <2>1. Plain \subseteq Char
    BY DEF Plain, Char
  <2>2. Seq(Plain) \subseteq Seq(Char)
    BY <2>1, SeqDef
  <2>3. QED
    BY <2>2, PrefixesGrow
<1> HIDE DEF v
<1>6. g \in [0 .. m -> X] /\ \A n \in 0 .. m : g[n] = [pos |-> p[n], value |-> v(n)]
  BY <1>3
<1>7. \A x \in X : body[x] = StringRound(t, Quote, x)
  OBVIOUS
<1>8. \A x \in Place(t) : quoted[x] = QuotedRound(t, Quote, x)
  OBVIOUS
<1> HIDE DEF g, X, body, quoted
<1>9. ASSUME NEW n \in 1 .. m PROVE body[g[n - 1]] = g[n] /\ quoted[p[n - 1]] = p[n]
  <2>1. n - 1 \in 0 .. m /\ n \in 0 .. m
    BY <1>1
  <2>2. p[n - 1] \in Place(t) /\ s[n] \in Plain /\ v(n - 1) \in Seq(Plain) /\ StringReads(t, p[n - 1], p[n], s[n])
    BY <1>1, <1>3, <2>1
  <2>3. /\ StringRound(t, Quote, [pos |-> p[n - 1], value |-> v(n - 1)]) = [pos |-> p[n], value |-> Append(v(n - 1), s[n])]
        /\ QuotedRound(t, Quote, p[n - 1]) = p[n]
    BY <2>2, RoundsRead
  <2>4. g[n - 1] \in X /\ g[n - 1] = [pos |-> p[n - 1], value |-> v(n - 1)] /\ g[n] = [pos |-> p[n], value |-> v(n)]
    BY <1>6, <2>1
  <2>5. QED
    BY <1>3, <1>7, <1>8, <2>2, <2>3, <2>4
<1>10. m \in 0 .. m /\ 0 \in 0 .. m
  BY <1>1
<1>11. body[g[m]] = g[m] /\ quoted[p[m]] = p[m]
  <2> DEFINE l == g[m]
  <2>1. l \in X /\ l = [pos |-> p[m], value |-> v(m)] /\ p[m] \in Place(t)
    BY <1>6, <1>10
  <2>2. At(t, p[m]) = Quote
    BY DEF m
  <2>3. QuotedRound(t, Quote, p[m]) = p[m]
    BY <2>2, QuoteDiffers DEF QuotedRound
  <2>4. l.pos = p[m]
    BY <2>1
  <2> HIDE DEF l
  <2>5. StringRound(t, Quote, l) = l
    BY <2>2, <2>4, QuoteDiffers DEF StringRound
  <2>6. body[l] = l
    BY <1>7, <2>1, <2>5
  <2>7. QED
    BY <1>8, <2>1, <2>3, <2>6 DEF l
<1>12. Loop(body, g[0], t) = g[m]
  <2>1. \A n \in 1 .. m : body[g[n - 1]] = g[n]
    BY <1>9
  <2>2. QED
    BY <1>1, <1>2, <1>11, <2>1, LoopArrives
<1>13. Loop(quoted, p[0], t) = p[m]
  <2> DEFINE h == p
  <2>1. \A n \in 1 .. m : quoted[h[n - 1]] = h[n]
    BY <1>9
  <2>2. quoted[h[m]] = h[m]
    BY <1>11
  <2> HIDE DEF h
  <2>3. Loop(quoted, h[0], t) = h[m]
    BY <1>1, <1>2, <2>1, <2>2, LoopArrives
  <2>4. QED
    BY <2>3 DEF h
<1>14. g[0] = [pos |-> p[0], value |-> <<>>] /\ g[m] = [pos |-> p[m], value |-> s]
  BY <1>3, <1>6, <1>10
<1>15. QED
  BY <1>12, <1>13, <1>14 DEF body, quoted, X, m

\* A string that the formatter has written comes back: wherever it stands, the
\* lexer reads its value from it and goes on behind it (escapeString, readString),
\* and a block or a parameter in which it stands skips it and not more (skipString),
\* whatever quotes, backslashes, braces and line breaks it holds.
THEOREM StringsComeBack ==
  ASSUME NEW t \in Seq(STRING), NEW i \in 1 .. Len(t), NEW s \in Seq(Plain), Stands(t, i, WrittenString(s))
  PROVE  /\ At(t, i) = Quote
         /\ ReadString(t, i + 1, Quote) = [pos |-> i + Len(WrittenString(s)), value |-> s]
         /\ QuotedEnd(t, i + 1, Quote) = i + Len(WrittenString(s))
<1> DEFINE m == Len(s)
<1>1. i \in Nat /\ 1 <= i /\ Len(t) \in Nat
  BY AtAPlace
<1>2. PICK p \in [0 .. m -> Place(t)] :
          /\ p[0] = i + 1 /\ At(t, i) = Quote
          /\ At(t, p[m]) = Quote /\ p[m] <= Len(t) /\ i + Len(WrittenString(s)) = p[m] + 1
          /\ \A n \in 1 .. m : p[n - 1] < p[n] /\ StringReads(t, p[n - 1], p[n], s[n])
  BY <1>1, StringStands
<1> DEFINE end == Loop([l \in [pos : Place(t), value : Seq(Char)] |-> StringRound(t, Quote, l)],
                       [pos |-> i + 1, value |-> <<>>], t)
           to == Loop([j \in Place(t) |-> QuotedRound(t, Quote, j)], i + 1, t)
<1>3. end = [pos |-> p[m], value |-> s] /\ to = p[m]
  <2>1. \A n \in 1 .. Len(s) : p[n - 1] < p[n] /\ StringReads(t, p[n - 1], p[n], s[n])
    BY <1>2
  <2>2. p[Len(s)] <= Len(t) /\ At(t, p[Len(s)]) = Quote /\ p \in [0 .. Len(s) -> Place(t)]
    BY <1>2
  <2>3. p[0] = i + 1
    BY <1>2
  <2>4. QED
    BY <2>1, <2>2, <2>3, StringStates
<1>4. ReadString(t, i + 1, Quote) = [end EXCEPT !.pos = After(t, @)] /\ QuotedEnd(t, i + 1, Quote) = After(t, to)
  BY DEF ReadString, QuotedEnd
<1>5. After(t, p[m]) = p[m] + 1
  <2>1. p[m] \in 1 .. Len(t)
    BY <1>2, AtAPlace, QuoteDiffers
  <2>2. QED
    BY <2>1, OneOn
<1> HIDE DEF end, to
<1>6. QED
  BY <1>2, <1>3, <1>4, <1>5

-----------------------------------------------------------------------------
(***************************************************************************)
(* Loops that are put together from several stretches.                     *)
(***************************************************************************)

\* The states of a stretch, each made by a round from the one before and at a place
\* behind it.
Way(t, body, g, m) ==
    /\ \A n \in 0 .. m : g[n].pos \in Place(t)
    /\ \A n \in 1 .. m : body[g[n - 1]] = g[n] /\ g[n - 1].pos < g[n].pos
Passes(t, body, x, y) == \E m \in Nat : \E g : g[0] = x /\ g[m] = y /\ Way(t, body, g, m)

\* A round is a stretch, and so is none.
LEMMA PassesOnce ==
  ASSUME NEW t, NEW body, NEW x, NEW y, x.pos \in Place(t), y.pos \in Place(t),
         x = y \/ (body[x] = y /\ x.pos < y.pos)
  PROVE  Passes(t, body, x, y)
<1>1. CASE x = y
  <2> DEFINE g == [n \in 0 .. 0 |-> x]
  <2>1. g[0] = x /\ Way(t, body, g, 0)
    BY DEF Way
  <2>2. QED
    BY <1>1, <2>1 DEF Passes
<1>2. CASE body[x] = y /\ x.pos < y.pos
  <2> DEFINE g == [n \in 0 .. 1 |-> IF n = 0 THEN x ELSE y]
  <2>1. g[0] = x /\ g[1] = y /\ 0 .. 1 = {0, 1} /\ 1 .. 1 = {1} /\ 1 - 1 = 0
    OBVIOUS
  <2> HIDE DEF g
  <2>2. Way(t, body, g, 1)
    BY <1>2, <2>1 DEF Way
  <2>3. QED
    BY <2>1, <2>2 DEF Passes
<1>3. QED
  BY <1>1, <1>2

\* One stretch behind the other is a stretch,
LEMMA PassesOn ==
  ASSUME NEW t, NEW body, NEW x, NEW y, NEW z, Passes(t, body, x, y), Passes(t, body, y, z)
  PROVE  Passes(t, body, x, z)
<1>m1. PICK m \in Nat : \E g : g[0] = x /\ g[m] = y /\ Way(t, body, g, m)
  BY DEF Passes
<1>1. PICK g : m \in Nat /\ g[0] = x /\ g[m] = y /\ Way(t, body, g, m)
  BY <1>m1
<1>m2. PICK k \in Nat : \E f : f[0] = y /\ f[k] = z /\ Way(t, body, f, k)
  BY DEF Passes
<1>2. PICK f : k \in Nat /\ f[0] = y /\ f[k] = z /\ Way(t, body, f, k)
  BY <1>m2
<1> DEFINE h == [n \in 0 .. m + k |-> IF n <= m THEN g[n] ELSE f[n - m]]
<1>3. \A n \in 0 .. m : h[n] = g[n]
  OBVIOUS
<1>4. \A n \in 0 .. k : h[m + n] = f[n]
  <2>1. ASSUME NEW n \in 0 .. k PROVE h[m + n] = f[n]
    <3>1. CASE n = 0
      BY <1>1, <1>2, <3>1
    <3>2. CASE n # 0
      <4>1. m + n \in 0 .. m + k /\ ~ (m + n <= m) /\ (m + n) - m = n
        BY <3>2
      <4>2. QED
        BY <4>1
    <3>3. QED
      BY <3>1, <3>2
  <2>2. QED
    BY <2>1
<1> HIDE DEF h
<1>5. ASSUME NEW n \in 0 .. m + k PROVE h[n].pos \in Place(t)
  <2>1. CASE n <= m
    BY <1>1, <1>3, <2>1 DEF Way
  <2>2. CASE ~ (n <= m)
    <3>1. n - m \in 0 .. k /\ m + (n - m) = n
      BY <2>2
    <3>2. h[m + (n - m)] = f[n - m] /\ f[n - m].pos \in Place(t)
      BY <1>2, <1>4, <3>1 DEF Way
    <3>3. QED
      BY <3>1, <3>2
  <2>3. QED
    BY <2>1, <2>2
<1>6. ASSUME NEW n \in 1 .. m + k PROVE body[h[n - 1]] = h[n] /\ h[n - 1].pos < h[n].pos
  <2>1. CASE n <= m
    <3>1. n \in 1 .. m /\ n \in 0 .. m /\ n - 1 \in 0 .. m
      BY <2>1
    <3>2. body[g[n - 1]] = g[n] /\ g[n - 1].pos < g[n].pos
      BY <1>1, <3>1 DEF Way
    <3>3. QED
      BY <1>3, <3>1, <3>2
  <2>2. CASE ~ (n <= m)
    <3> DEFINE j == n - m
    <3>1. j \in 1 .. k /\ j \in 0 .. k /\ j - 1 \in 0 .. k /\ m + j = n /\ m + (j - 1) = n - 1
      BY <2>2
    <3> HIDE DEF j
    <3>2. body[f[j - 1]] = f[j] /\ f[j - 1].pos < f[j].pos
      BY <1>2, <3>1 DEF Way
    <3>3. h[m + j] = f[j] /\ h[m + (j - 1)] = f[j - 1]
      BY <1>4, <3>1
    <3>4. QED
      BY <3>1, <3>2, <3>3
  <2>3. QED
    BY <2>1, <2>2
<1>7. h[0] = x /\ h[m + k] = z /\ m + k \in Nat
  <2>1. 0 \in 0 .. m /\ k \in 0 .. k
    OBVIOUS
  <2>2. QED
    BY <1>1, <1>2, <1>3, <1>4, <2>1
<1>8. Way(t, body, h, m + k)
  BY <1>5, <1>6 DEF Way
<1>9. QED
  BY <1>7, <1>8 DEF Passes

\* and so are any number.
LEMMA PassesAll ==
  ASSUME NEW t, NEW body, NEW m \in Nat, NEW x, x[0].pos \in Place(t),
         \A n \in 1 .. m : Passes(t, body, x[n - 1], x[n])
  PROVE  Passes(t, body, x[0], x[m])
<1> DEFINE P == {n \in 0 .. m : Passes(t, body, x[0], x[n])}
<1>1. 0 \in P
  BY PassesOnce
<1>2. ASSUME NEW n \in 0 .. m - 1, n \in P PROVE n + 1 \in P
  <2>1. n + 1 \in 1 .. m /\ (n + 1) - 1 = n /\ n + 1 \in 0 .. m
    OBVIOUS
  <2>2. Passes(t, body, x[0], x[n]) /\ Passes(t, body, x[(n + 1) - 1], x[n + 1])
    BY <1>2, <2>1
  <2>3. Passes(t, body, x[n], x[n + 1])
    BY <2>1, <2>2
  <2>4. Passes(t, body, x[0], x[n + 1])
    BY <2>2, <2>3, PassesOn
  <2>5. QED
    BY <2>1, <2>4
<1>3. \A n \in 0 .. m - 1 : n \in P => n + 1 \in P
  BY <1>2
<1>4. \A n \in 0 .. m : n \in P
  <2> HIDE DEF P
  <2>1. QED
    BY <1>1, <1>3, UpTo, Zenon
<1>5. QED
  BY <1>4

\* A loop that comes to a state in which it stays ends in it.
LEMMA LoopPasses ==
  ASSUME NEW t, Len(t) \in Nat, NEW body, NEW x, NEW y, Passes(t, body, x, y), body[y] = y, y.pos <= Len(t)
  PROVE  Loop(body, x, t) = y
<1>m1. PICK m \in Nat : \E g : g[0] = x /\ g[m] = y /\ Way(t, body, g, m)
  BY DEF Passes
<1>1. PICK g : m \in Nat /\ g[0] = x /\ g[m] = y /\ Way(t, body, g, m)
  BY <1>m1
<1> DEFINE p == [n \in 0 .. m |-> g[n].pos]
<1>2. p \in [0 .. m -> Place(t)] /\ p[m] <= Len(t)
  BY <1>1 DEF Way
<1>3. \A n \in 1 .. m : p[n - 1] < p[n]
  <2>1. ASSUME NEW n \in 1 .. m PROVE p[n - 1] < p[n]
    <3>1. n - 1 \in 0 .. m /\ n \in 0 .. m
      OBVIOUS
    <3>2. g[n - 1].pos < g[n].pos
      BY <1>1 DEF Way
    <3>3. QED
      BY <3>1, <3>2
  <2>2. QED
    BY <2>1
<1> HIDE DEF p
<1>4. m <= Len(t)
  BY <1>2, <1>3, PlacesAreFew
<1>5. \A n \in 1 .. m : body[g[n - 1]] = g[n]
  BY <1>1 DEF Way
<1>6. Loop(body, g[0], t) = g[m]
  <2>1. body[g[m]] = g[m]
    BY <1>1
  <2>2. QED
    BY <1>4, <1>5, <2>1, LoopArrives
<1>7. QED
  BY <1>1, <1>6

-----------------------------------------------------------------------------
(***************************************************************************)
(* Templates.                                                               *)
(***************************************************************************)

\* The states of the loop over a template, and its body.
Reading(a, v, segments, exprs) == [pos |-> a, segment |-> v, segments |-> segments, exprs |-> exprs]
TemplateStates(t) == [pos : Place(t), segment : Seq(Char), segments : Seq(Seq(Char)), exprs : Seq(Seq(STRING))]
TemplateBody(t) == [l \in TemplateStates(t) |-> TemplateRound(t, l)]

\* From a to b something stands in the text that a template reads c from.
TemplateReads(t, a, b, c) ==
    \/ Escaped(t, a, b, c)
    \/ /\ At(t, a) = c /\ c \in Plain \ {"\\", "tick"} /\ (c = "$" => At(t, a + 1) # Open)
       /\ b = a + 1 /\ b <= Len(t) + 1

\* The dollar sign is none of the other marks.
LEMMA DollarDiffers == "$" \notin {Open, Close, "tick", "eof", "\\", "n", "t", "r", "u"}
BY Zenon DEF Open, Close

\* What a round makes of a character of a segment.
LEMMA TemplateRoundReads ==
  ASSUME NEW t \in Seq(STRING), NEW a \in Place(t), NEW b \in Place(t), NEW c \in Plain, TemplateReads(t, a, b, c),
         NEW v \in Seq(Plain), NEW segments \in Seq(Seq(Char)), NEW exprs \in Seq(Seq(STRING))
  PROVE  /\ TemplateBody(t)[Reading(a, v, segments, exprs)] = Reading(b, Append(v, c), segments, exprs)
         /\ a < b
<1> DEFINE l == Reading(a, v, segments, exprs)
<1>1. /\ l \in TemplateStates(t) /\ l.pos = a /\ l.segment = v /\ l.segments = segments /\ l.exprs = exprs
      /\ [l EXCEPT !.pos = b, !.segment = Append(v, c)] = Reading(b, Append(v, c), segments, exprs)
  <2>1. v \in Seq(Char)
    <3>1. Plain \subseteq Char
      BY DEF Plain, Char
    <3>2. QED
      BY <3>1, SeqDef
  <2>2. l \in TemplateStates(t)
    BY <2>1 DEF Reading, TemplateStates
  <2>3. l.pos = a /\ l.segment = v /\ l.segments = segments /\ l.exprs = exprs
    BY DEF Reading
  <2>4. [l EXCEPT !.pos = b, !.segment = Append(v, c)] = Reading(b, Append(v, c), segments, exprs)
    <3> DEFINE w == Append(v, c)
               m == [l EXCEPT !.pos = b, !.segment = w]
    <3> HIDE DEF w
    <3>1. /\ DOMAIN m = {"pos", "segment", "segments", "exprs"} /\ m = [x \in DOMAIN m |-> m[x]]
          /\ m.pos = b /\ m.segment = w /\ m.segments = segments /\ m.exprs = exprs
      BY DEF Reading
    <3> HIDE DEF m
    <3>2. m = Reading(b, w, segments, exprs)
      BY <3>1 DEF Reading
    <3>3. QED
      BY <3>2 DEF m, w
  <2>5. QED
    BY <2>2, <2>3, <2>4
<1>2. TemplateBody(t)[l] = TemplateRound(t, l)
  BY <1>1 DEF TemplateBody
<1>3. a \in Nat /\ b \in Nat
  BY AtAPlace DEF Place
<1> HIDE DEF l
<1>4. CASE Escaped(t, a, b, c)
  <2>1. At(t, a) = "\\" /\ EscapeEnd(t, a) = b /\ Unescaped(t, a) = <<c>> /\ b = a + 2
    BY <1>4 DEF Escaped
  <2>2. v \o <<c>> = Append(v, c)
    BY AppendIsConcat
  <2>3. TemplateRound(t, l) = [l EXCEPT !.pos = EscapeEnd(t, @), !.segment = @ \o Unescaped(t, l.pos)]
    BY <1>1, <2>1 DEF TemplateRound
  <2>4. [l EXCEPT !.pos = EscapeEnd(t, @), !.segment = @ \o Unescaped(t, l.pos)]
        = [l EXCEPT !.pos = b, !.segment = Append(v, c)]
    BY <1>1, <2>1, <2>2
  <2>5. TemplateBody(t)[l] = Reading(b, Append(v, c), segments, exprs)
    BY <1>1, <1>2, <2>3, <2>4
  <2>6. a < b
    BY <1>3, <2>1
  <2>7. QED
    BY <2>5, <2>6 DEF l
<1>5. CASE /\ At(t, a) = c /\ c \in Plain \ {"\\", "tick"} /\ (c = "$" => At(t, a + 1) # Open) /\ b = a + 1
  <2>1. At(t, a) \notin {"tick", "eof", "\\"} /\ ~ (At(t, a) = "$" /\ At(t, a + 1) = Open)
    BY <1>5 DEF Plain
  <2>2. TemplateRound(t, l) = [l EXCEPT !.pos = @ + 1, !.segment = Append(@, At(t, l.pos))]
    BY <1>1, <2>1 DEF TemplateRound
  <2>3. [l EXCEPT !.pos = @ + 1, !.segment = Append(@, At(t, l.pos))] = [l EXCEPT !.pos = b, !.segment = Append(v, c)]
    BY <1>1, <1>5
  <2>4. TemplateBody(t)[l] = Reading(b, Append(v, c), segments, exprs)
    BY <1>1, <1>2, <2>2, <2>3
  <2>5. a < b
    BY <1>3, <1>5
  <2>6. QED
    BY <2>4, <2>5 DEF l
<1>6. QED
  BY <1>4, <1>5 DEF TemplateReads

\* How escapeTemplateSegment writes a character.
LEMMA CharOfSegment ==
  ASSUME NEW s \in Seq(Plain), NEW k \in 1 .. Len(s)
  PROVE  /\ s[k] \in Plain /\ SegmentChar(s, k) \in Seq(Sign)
         /\ \/ /\ SegmentChar(s, k) = <<s[k]>> /\ s[k] \in Plain \ {"\\", "tick"}
               /\ s[k] = "$" => At(s, k + 1) # Open
            \/ s[k] \in Sign /\ SegmentChar(s, k) = <<"\\", s[k]>> /\ StandsFor(s[k], s[k])
<1> DEFINE c == s[k]
<1>1. c \in Plain /\ c \in Sign /\ "\\" \in Sign
  BY ElementOfSeq DEF Sign, Plain
<1>2. CASE c \in {"\\", "tick"} \/ (c = "$" /\ At(s, k + 1) = Open)
  <2>1. SegmentChar(s, k) = <<"\\", c>>
    BY <1>2 DEF SegmentChar
  <2>2. StandsFor(c, c)
    BY <1>1, <1>2, DollarDiffers DEF StandsFor
  <2>3. QED
    BY <1>1, <2>1, <2>2
<1>3. CASE ~ (c \in {"\\", "tick"} \/ (c = "$" /\ At(s, k + 1) = Open))
  <2>1. SegmentChar(s, k) = <<c>>
    BY <1>3 DEF SegmentChar
  <2>2. QED
    BY <1>1, <1>3, <2>1
<1>4. QED
  BY <1>2, <1>3

\* How a segment that the formatter has written stands in a text, in front of
\* something other than a brace: one character of its value after the other.
LEMMA SegmentStands ==
  ASSUME NEW t \in Seq(STRING), NEW i \in Nat, 1 <= i, NEW s \in Seq(Plain),
         Stands(t, i, EscapeTemplateSegment(s)), At(t, i + Len(EscapeTemplateSegment(s))) # Open
  PROVE  \E p \in [0 .. Len(s) -> Place(t)] :
             /\ p[0] = i /\ p[Len(s)] = i + Len(EscapeTemplateSegment(s))
             /\ \A n \in 1 .. Len(s) : TemplateReads(t, p[n - 1], p[n], s[n])
<1> DEFINE m == Len(s)
           seqs == [n \in 1 .. m |-> SegmentChar(s, n)]
           e == EscapeTemplateSegment(s)
<1>1. m \in Nat /\ DOMAIN s = 1 .. m /\ Len(t) \in Nat
  BY LenProperties
<1>2. seqs \in [1 .. m -> Seq(Sign)] /\ \A n \in 1 .. m : seqs[n] = SegmentChar(s, n)
  BY CharOfSegment
<1>3. e = FlattenSeq(seqs)
  BY <1>1 DEF EscapeTemplateSegment
<1>4. Stands(t, i, e) /\ At(t, i + Len(e)) # Open
  OBVIOUS
<1> HIDE DEF m, seqs, e
<1>5. PICK p : /\ p \in [0 .. m -> Place(t)] /\ p[0] = i /\ p[m] = i + Len(e)
               /\ \A n \in 1 .. m : Stands(t, p[n - 1], seqs[n]) /\ p[n] = p[n - 1] + Len(seqs[n])
  <2>1. Stands(t, i, FlattenSeq(seqs))
    BY <1>3, <1>4
  <2>2. PICK p : Placed(p, m, seqs, t, i)
    BY <1>1, <1>2, <2>1, PiecesHavePlaces
  <2>3. QED
    BY <1>3, <2>2 DEF Placed
<1>6. \A n \in 0 .. m : p[n] \in Nat /\ 1 <= p[n] /\ p[n] <= Len(t) + 1
  BY <1>1, <1>5 DEF Place
<1>7. ASSUME NEW n \in 1 .. m PROVE TemplateReads(t, p[n - 1], p[n], s[n])
  <2> DEFINE a == p[n - 1]
             b == p[n]
             c == s[n]
             w == seqs[n]
  <2>1. /\ w = SegmentChar(s, n) /\ w \in Seq(Sign) /\ c \in Plain
        /\ \/ /\ w = <<c>> /\ c \in Plain \ {"\\", "tick"}
              /\ c = "$" => At(s, n + 1) # Open
           \/ c \in Sign /\ w = <<"\\", c>> /\ StandsFor(c, c)
    BY <1>2, CharOfSegment DEF m
  <2>2. Stands(t, a, w) /\ b = a + Len(w) /\ b <= Len(t) + 1 /\ a \in Nat /\ 1 <= a
    <3>1. n - 1 \in 0 .. m /\ n \in 0 .. m
      BY <1>1
    <3>2. QED
      BY <1>5, <1>6, <3>1
  <2> HIDE DEF a, b, c, w
  <2>3. CASE w = <<c>> /\ c \in Plain \ {"\\", "tick"} /\ (c = "$" => At(s, n + 1) # Open)
    <3>1. Len(w) = 1 /\ w[1] = c /\ 1 \in 1 .. Len(w) /\ a + 1 - 1 = a
      BY <2>2, <2>3
    <3>2. At(t, a) = c /\ b = a + 1
      <4>1. At(t, a + 1 - 1) = w[1]
        BY <2>1, <2>2, <3>1, StandsAt
      <4>2. QED
        BY <2>2, <3>1, <4>1
    <3>3. ASSUME c = "$" PROVE At(t, b) # Open
      <4>1. CASE n = m
        BY <1>4, <1>5, <4>1 DEF b
      <4>2. CASE n # m
        <5> DEFINE j == n + 1
                   d == s[j]
                   x == seqs[j]
        <5>1. j \in 1 .. m /\ j - 1 = n
          BY <1>1, <4>2
        <5>2. /\ x = SegmentChar(s, j) /\ x \in Seq(Sign)
              /\ x = <<d>> \/ x = <<"\\", d>>
          BY <1>2, <5>1, CharOfSegment DEF m
        <5>3. Stands(t, b, x) /\ b \in Nat /\ 1 <= b
          BY <1>5, <1>6, <5>1 DEF b
        <5>4. d # Open
          BY <1>1, <2>3, <3>3, <5>1 DEF At
        <5> HIDE DEF j, d, x
        <5>5. 1 \in 1 .. Len(x) /\ (x[1] = d \/ x[1] = "\\") /\ b + 1 - 1 = b
          <6>1. CASE x = <<d>>
            <7>1. Len(x) = 1 /\ x[1] = d
              BY <6>1
            <7>2. QED
              BY <5>3, <7>1
          <6>2. CASE x = <<"\\", d>>
            <7>1. Len(x) = 2 /\ x[1] = "\\"
              BY <6>2
            <7>2. QED
              BY <5>3, <7>1
          <6>3. QED
            BY <5>2, <6>1, <6>2
        <5>6. At(t, b + 1 - 1) = x[1]
          BY <5>2, <5>3, <5>5, StandsAt
        <5>7. QED
          BY <5>4, <5>5, <5>6, MarksDiffer
      <4>3. QED
        BY <4>1, <4>2
    <3>4. TemplateReads(t, a, b, c)
      BY <2>2, <2>3, <3>2, <3>3 DEF TemplateReads
    <3>5. QED
      BY <3>4 DEF a, b, c
  <2>4. CASE c \in Sign /\ w = <<"\\", c>> /\ StandsFor(c, c)
    <3>1. Len(w) = 2 /\ Stands(t, a, <<"\\", c>>)
      BY <2>2, <2>4
    <3>2. Escaped(t, a, a + 2, c)
      BY <2>2, <2>4, <3>1, EscapeIsRead
    <3>3. TemplateReads(t, a, b, c)
      BY <2>2, <3>1, <3>2 DEF TemplateReads
    <3>4. QED
      BY <3>3 DEF a, b, c
  <2>5. QED
    BY <2>1, <2>3, <2>4
<1>8. QED
  BY <1>5, <1>7 DEF m, e

\* A segment that the formatter has written is read character by character.
LEMMA SegmentIsRead ==
  ASSUME NEW t \in Seq(STRING), NEW i \in Nat, 1 <= i, NEW s \in Seq(Plain),
         Stands(t, i, EscapeTemplateSegment(s)), At(t, i + Len(EscapeTemplateSegment(s))) # Open,
         NEW segments \in Seq(Seq(Char)), NEW exprs \in Seq(Seq(STRING))
  PROVE  Passes(t, TemplateBody(t), Reading(i, <<>>, segments, exprs),
                Reading(i + Len(EscapeTemplateSegment(s)), s, segments, exprs))
<1> DEFINE m == Len(s)
           v(n) == SubSeq(s, 1, n)
<1>1. PICK p \in [0 .. m -> Place(t)] :
          /\ p[0] = i /\ p[m] = i + Len(EscapeTemplateSegment(s))
          /\ \A n \in 1 .. m : TemplateReads(t, p[n - 1], p[n], s[n])
  BY SegmentStands
<1>2. m \in Nat /\ \A n \in 1 .. m : s[n] \in Plain
  BY LenProperties
<1>3. /\ \A n \in 0 .. m : v(n) \in Seq(Plain)
      /\ v(0) = <<>> /\ v(m) = s /\ \A n \in 1 .. m : v(n) = Append(v(n - 1), s[n])
  BY PrefixesGrow
<1> HIDE DEF v, m
<1> DEFINE x == [n \in 0 .. m |-> Reading(p[n], v(n), segments, exprs)]
<1>6. \A n \in 0 .. m : x[n] = Reading(p[n], v(n), segments, exprs) /\ x[n].pos = p[n] /\ x[n].pos \in Place(t)
  BY DEF Reading
<1> HIDE DEF x
<1>7. ASSUME NEW n \in 1 .. m PROVE Passes(t, TemplateBody(t), x[n - 1], x[n])
  <2>1. n - 1 \in 0 .. m /\ n \in 0 .. m
    BY <1>2
  <2>2. p[n - 1] \in Place(t) /\ p[n] \in Place(t) /\ s[n] \in Plain /\ v(n - 1) \in Seq(Plain)
    BY <1>2, <1>3, <2>1
  <2>3. /\ TemplateBody(t)[Reading(p[n - 1], v(n - 1), segments, exprs)]
           = Reading(p[n], Append(v(n - 1), s[n]), segments, exprs)
        /\ p[n - 1] < p[n]
    BY <1>1, <2>2, TemplateRoundReads
  <2>4. TemplateBody(t)[x[n - 1]] = x[n] /\ x[n - 1].pos < x[n].pos /\ x[n - 1].pos \in Place(t) /\ x[n].pos \in Place(t)
    BY <1>3, <1>6, <2>1, <2>3
  <2>5. QED
    BY <2>4, PassesOnce
<1>8. 0 \in 0 .. m /\ m \in 0 .. m
  BY <1>2
<1>9. Passes(t, TemplateBody(t), x[0], x[m])
  BY <1>2, <1>6, <1>7, <1>8, PassesAll
<1>10. x[0] = Reading(i, <<>>, segments, exprs) /\ x[m] = Reading(i + Len(EscapeTemplateSegment(s)), s, segments, exprs)
  BY <1>1, <1>3, <1>6, <1>8
<1>11. QED
  BY <1>9, <1>10

\* The states of the loop of readParamExpr, and its body.
Seeking(a, d) == [pos |-> a, depth |-> d]
ParamBody(t) == [l \in [pos : Place(t), depth : Nat] |-> ParamRound(t, l)]

\* A text that readParamExpr goes through, wherever it stands: it comes out behind it,
\* with as many braces open as before.
Skipped(e) ==
    /\ e \in Seq(Sign)
    /\ \A t \in Seq(STRING), i \in Nat, d \in Nat :
           1 <= i /\ 1 <= d /\ Stands(t, i, e) => Passes(t, ParamBody(t), Seeking(i, d), Seeking(i + Len(e), d))

\* What stands in a text is the piece of it from there on.
LEMMA PieceOfText ==
  ASSUME NEW t \in Seq(STRING), NEW a \in Nat, 1 <= a, NEW w \in Seq(Sign), Stands(t, a, w)
  PROVE  Slice(t, a, a + Len(w)) = w /\ w \in Seq(STRING)
<1> DEFINE n == Len(w)
           u == SubSeq(t, a, (a + n) - 1)
<1>1. n \in Nat /\ Len(t) \in Nat /\ DOMAIN t = 1 .. Len(t)
  BY LenProperties
<1>2. a + n <= Len(t) + 1 /\ \A k \in 1 .. n : t[a + k - 1] = w[k]
  BY DEF Stands
<1>3. \A k \in a .. (a + n) - 1 : t[k] \in STRING
  <2> HIDE DEF n
  <2>1. \A k \in a .. (a + n) - 1 : k \in 1 .. Len(t)
    BY <1>1, <1>2
  <2>2. QED
    BY <2>1, ElementOfSeq
<1> HIDE DEF n
<1>4. /\ u \in Seq(STRING) /\ Len(u) = (IF a <= (a + n) - 1 THEN ((a + n) - 1) - a + 1 ELSE 0)
      /\ \A k \in 1 .. ((a + n) - 1) - a + 1 : u[k] = t[a + k - 1]
  BY <1>1, <1>3, SubSeqProperties
<1> HIDE DEF u
<1>5. Len(u) = n /\ \A k \in 1 .. n : u[k] = w[k]
  BY <1>1, <1>2, <1>4
<1>6. u = w
  <2>1. DOMAIN u = 1 .. n /\ DOMAIN w = 1 .. n /\ u = [k \in 1 .. n |-> u[k]] /\ w = [k \in 1 .. n |-> w[k]]
    <3>1. u \in [1 .. n -> STRING] /\ w \in [1 .. n -> Sign]
      BY <1>4, <1>5, LenProperties DEF n
    <3>2. QED
      BY <3>1
  <2>2. QED
    BY <1>5, <2>1
<1>7. Slice(t, a, a + n) = u
  BY Zenon DEF Slice, u
<1>8. QED
  BY <1>4, <1>6, <1>7 DEF n

\* What the formatter writes for a string.
LEMMA StringIsWritten ==
  ASSUME NEW s \in Seq(Plain)
  PROVE  /\ EscapeString(s) \in Seq(Sign) /\ WrittenString(s) = Cat(Cat(<<Quote>>, EscapeString(s)), <<Quote>>)
         /\ WrittenString(s) \in Seq(Sign) /\ 2 <= Len(WrittenString(s)) /\ Len(WrittenString(s)) \in Nat
<1> DEFINE m == Len(s)
           seqs == [n \in 1 .. m |-> EscapedChar(s[n])]
           e == EscapeString(s)
           q == <<Quote>>
<1>1. /\ m \in Nat /\ DOMAIN s = 1 .. m /\ \A n \in 1 .. m : s[n] \in Plain
  BY LenProperties
<1>2. seqs \in [1 .. m -> Seq(Sign)]
  BY <1>1, CharIsEscaped
<1>3. e = FlattenSeq(seqs)
  BY <1>1 DEF EscapeString
<1>4. WrittenString(s) = Cat(Cat(q, e), q)
  BY Zenon DEF WrittenString, Cat
<1> HIDE DEF m, seqs, e
<1>5. e \in Seq(Sign)
  BY <1>1, <1>2, <1>3, PiecesAreSigns
<1>6. q \in Seq(Sign) /\ Len(q) = 1 /\ Len(e) \in Nat
  BY <1>5, LenProperties, QuoteDiffers DEF Sign
<1> HIDE DEF q
<1>7. q \o e \in Seq(Sign) /\ Len(q \o e) = 1 + Len(e)
  <2>1. q \in Seq(Sign) /\ e \in Seq(Sign)
    BY <1>5, <1>6
  <2>2. q \o e \in Seq(Sign) /\ Len(q \o e) = Len(q) + Len(e)
    BY <2>1, ConcatProperties, Zenon
  <2>3. QED
    BY <1>6, <2>2, Zenon
<1> DEFINE u == q \o e
<1>8. u \in Seq(Sign) /\ Len(u) = 1 + Len(e)
  BY <1>7
<1> HIDE DEF u
<1>9. u \o q \in Seq(Sign) /\ Len(u \o q) = Len(u) + Len(q)
  BY <1>6, <1>8, ConcatProperties, Zenon
<1>10. WrittenString(s) = u \o q
  BY <1>4, Zenon DEF Cat, u
<1>11. WrittenString(s) \in Seq(Sign) /\ Len(WrittenString(s)) = Len(e) + 2
  BY <1>6, <1>8, <1>9, <1>10
<1>12. QED
  BY <1>4, <1>5, <1>6, <1>11 DEF e, q

\* A state of the loop, and what its body is there.
LEMMA SeekingRound ==
  ASSUME NEW t \in Seq(STRING), NEW a \in Place(t), NEW d \in Nat
  PROVE  /\ Seeking(a, d).pos = a /\ Seeking(a, d).depth = d
         /\ ParamBody(t)[Seeking(a, d)] = ParamRound(t, Seeking(a, d))
<1> DEFINE x == Seeking(a, d)
<1>1. x.pos = a /\ x.depth = d /\ x \in [pos : Place(t), depth : Nat]
  BY DEF Seeking
<1> HIDE DEF x
<1>2. ParamBody(t)[x] = ParamRound(t, x)
  BY <1>1 DEF ParamBody
<1>3. QED
  BY <1>1, <1>2 DEF x

\* The places of a text that stands there.
LEMMA StandsInPlaces ==
  ASSUME NEW t \in Seq(STRING), NEW i \in Nat, 1 <= i, NEW e \in Seq(Sign), Stands(t, i, e)
  PROVE  Len(e) \in Nat /\ i \in Place(t) /\ i + Len(e) \in Place(t) /\ Len(t) \in Nat
<1>1. Len(e) \in Nat /\ Len(t) \in Nat
  BY LenProperties
<1>2. i + Len(e) <= Len(t) + 1
  BY DEF Stands
<1> DEFINE k == Len(e)
<1>3. k \in Nat /\ i + k <= Len(t) + 1
  BY <1>1, <1>2
<1> HIDE DEF k
<1>4. i \in 1 .. Len(t) + 1 /\ i + k \in 1 .. Len(t) + 1
  BY <1>1, <1>3
<1>5. QED
  BY <1>1, <1>4 DEF k, Place

\* Of such a text that stands before a closing brace the end is found.
LEMMA SkippedEnds ==
  ASSUME NEW e, Skipped(e), NEW t \in Seq(STRING), NEW i \in Nat, 1 <= i, Stands(t, i, e), At(t, i + Len(e)) = Close
  PROVE  ParamEnd(t, i) = i + Len(e)
<1> DEFINE b == i + Len(e)
           x == Seeking(i, 1)
           y == Seeking(b, 1)
<1>1. Passes(t, ParamBody(t), x, y)
  BY DEF Skipped
<1>2. i \in Place(t) /\ b \in Place(t) /\ b \in 1 .. Len(t) /\ Len(t) \in Nat
  <2>1. e \in Seq(Sign)
    BY DEF Skipped
  <2>2. QED
    BY <2>1, StandsInPlaces, AtAPlace, MarksDiffer
<1>3. At(t, b) = Close
  OBVIOUS
<1> HIDE DEF b
<1>4. y.pos = b /\ y.depth = 1 /\ ParamBody(t)[y] = ParamRound(t, y)
  BY <1>2, SeekingRound
<1> HIDE DEF y
<1>5. ParamRound(t, y) = y
  <2>1. EndsBlock(t, y)
    BY <1>3, <1>4 DEF EndsBlock
  <2>2. At(t, y.pos) \notin Quotes \cup {Open} /\ ~ (y.depth > 1)
    BY <1>3, <1>4, MarksDiffer
  <2>3. QED
    BY <2>1, <2>2 DEF ParamRound
<1>6. Loop(ParamBody(t), x, t) = y
  <2>1. y.pos <= Len(t)
    BY <1>2, <1>4
  <2>2. QED
    BY <1>1, <1>2, <1>4, <1>5, <2>1, LoopPasses
<1>7. ParamEnd(t, i) = Loop(ParamBody(t), x, t).pos
  BY Zenon DEF ParamEnd, ParamBody, Seeking
<1>8. QED
  BY <1>4, <1>6, <1>7 DEF b

\* What stands somewhere has its first character there.
LEMMA FirstStands ==
  ASSUME NEW t \in Seq(STRING), NEW i \in Nat, 1 <= i, NEW w \in Seq(Sign), Stands(t, i, w), 1 <= Len(w)
  PROVE  At(t, i) = w[1]
<1>1. \A k \in 1 .. Len(w) : At(t, i + k - 1) = w[k]
  BY StandsAt
<1>2. 1 \in 1 .. Len(w) /\ i + 1 - 1 = i
  BY LenProperties
<1>3. QED
  BY <1>1, <1>2

\* A round over a character that is neither a brace nor a quotation mark.
LEMMA CharIsSkipped ==
  ASSUME NEW c \in Sign, c \notin Quotes \cup {Open, Close, "eof"}
  PROVE  Skipped(<<c>>)
<1> DEFINE e == <<c>>
<1>1. e \in Seq(Sign) /\ Len(e) = 1 /\ e[1] = c
  OBVIOUS
<1> HIDE DEF e
<1>2. SUFFICES ASSUME NEW t \in Seq(STRING), NEW i \in Nat, NEW d \in Nat, 1 <= i, 1 <= d, Stands(t, i, e)
               PROVE  Passes(t, ParamBody(t), Seeking(i, d), Seeking(i + Len(e), d))
  BY <1>1 DEF Skipped, e
<1>3. At(t, i) = c
  <2>1. At(t, i) = e[1]
    BY <1>1, <1>2, FirstStands
  <2>2. QED
    BY <1>1, <2>1
<1>4. i \in Place(t) /\ i + 1 \in Place(t)
  BY <1>1, <1>2, StandsInPlaces
<1> DEFINE x == Seeking(i, d)
           y == Seeking(i + 1, d)
<1>5. x.pos = i /\ x.depth = d /\ ParamBody(t)[x] = ParamRound(t, x) /\ y.pos = i + 1
  BY <1>4, SeekingRound
<1>6. [x EXCEPT !.pos = @ + 1] = y
  BY DEF Seeking
<1> HIDE DEF x, y
<1>7. ParamRound(t, x) = y
  <2>1. ~ EndsBlock(t, x) /\ At(t, x.pos) \notin Quotes \cup {Open, Close}
    BY <1>3, <1>5 DEF EndsBlock
  <2>2. ParamRound(t, x) = [x EXCEPT !.pos = @ + 1]
    BY <2>1 DEF ParamRound
  <2>3. QED
    BY <1>6, <2>2
<1>8. Passes(t, ParamBody(t), x, y)
  BY <1>4, <1>5, <1>7, PassesOnce
<1>9. QED
  BY <1>1, <1>8 DEF x, y

\* A string that the formatter has written, in one round.
LEMMA StringIsSkipped ==
  ASSUME NEW s \in Seq(Plain)
  PROVE  Skipped(WrittenString(s))
<1> DEFINE e == WrittenString(s)
<1>1. e \in Seq(Sign) /\ 2 <= Len(e) /\ Len(e) \in Nat
  BY StringIsWritten
<1>2. SUFFICES ASSUME NEW t \in Seq(STRING), NEW i \in Nat, NEW d \in Nat, 1 <= i, 1 <= d, Stands(t, i, e)
               PROVE  Passes(t, ParamBody(t), Seeking(i, d), Seeking(i + Len(e), d))
  BY <1>1 DEF Skipped
<1> DEFINE b == i + Len(e)
<1>3. i \in Place(t) /\ b \in Place(t) /\ i < b /\ i \in 1 .. Len(t)
  <2>1. Len(t) \in Nat /\ Len(e) \in Nat /\ i + Len(e) <= Len(t) + 1
    BY <1>1, <1>2, AtAPlace DEF Stands
  <2> DEFINE k == Len(e)
  <2> HIDE DEF k
  <2>2. k \in Nat /\ 2 <= k /\ i + k <= Len(t) + 1 /\ b = i + k
    BY <1>1, <2>1 DEF k
  <2> HIDE DEF b
  <2>3. QED
    BY <1>2, <2>1, <2>2 DEF Place
<1>4. At(t, i) = Quote /\ QuotedEnd(t, i + 1, Quote) = b
  BY <1>2, <1>3, StringsComeBack
<1> HIDE DEF b, e
<1> DEFINE x == Seeking(i, d)
           y == Seeking(b, d)
<1>5. x.pos = i /\ x.depth = d /\ ParamBody(t)[x] = ParamRound(t, x) /\ y.pos = b
  BY <1>3, SeekingRound
<1>6. [x EXCEPT !.pos = b] = y
  BY DEF Seeking
<1> HIDE DEF x, y
<1>7. ParamRound(t, x) = y
  <2>1. ~ EndsBlock(t, x) /\ At(t, x.pos) # Open /\ At(t, x.pos) # Close /\ At(t, x.pos) \in Quotes
    BY <1>4, <1>5, QuoteDiffers DEF EndsBlock
  <2>2. ParamRound(t, x) = [x EXCEPT !.pos = QuotedEnd(t, @ + 1, At(t, @))]
    BY <2>1 DEF ParamRound
  <2>3. QED
    BY <1>4, <1>5, <1>6, <2>2
<1>8. Passes(t, ParamBody(t), x, y)
  BY <1>3, <1>5, <1>7, PassesOnce
<1>9. QED
  BY <1>8 DEF x, y, b

\* One such text behind the other.
LEMMA BothAreSkipped ==
  ASSUME NEW u, NEW v, Skipped(u), Skipped(v)
  PROVE  Skipped(Cat(u, v))
<1>1. u \in Seq(Sign) /\ v \in Seq(Sign)
  BY DEF Skipped
<1>2. Cat(u, v) \in Seq(Sign) /\ Len(Cat(u, v)) = Len(u) + Len(v) /\ Len(u) \in Nat /\ Len(v) \in Nat
  <2>1. u \o v \in Seq(Sign) /\ Len(u \o v) = Len(u) + Len(v)
    BY <1>1, ConcatProperties
  <2>2. Len(u) \in Nat /\ Len(v) \in Nat
    BY <1>1, LenProperties
  <2>3. QED
    BY <2>1, <2>2, Zenon DEF Cat
<1>3. ASSUME NEW t \in Seq(STRING), NEW i \in Nat, NEW d \in Nat, 1 <= i, 1 <= d, Stands(t, i, Cat(u, v))
      PROVE  Passes(t, ParamBody(t), Seeking(i, d), Seeking(i + Len(Cat(u, v)), d))
  <2> DEFINE a == i + Len(u)
  <2>1. Stands(t, i, u) /\ Stands(t, a, v)
    BY <1>1, <1>3, PartsStand
  <2>2. a \in Nat /\ 1 <= a /\ a + Len(v) = i + Len(Cat(u, v))
    BY <1>2, <1>3
  <2>3. Passes(t, ParamBody(t), Seeking(i, d), Seeking(a, d))
    BY <1>3, <2>1 DEF Skipped
  <2> HIDE DEF a
  <2>4. Passes(t, ParamBody(t), Seeking(a, d), Seeking(a + Len(v), d))
    BY <1>3, <2>1, <2>2 DEF Skipped
  <2>5. QED
    BY <2>2, <2>3, <2>4, PassesOn
<1>4. QED
  BY <1>2, <1>3 DEF Skipped

\* Such a text in braces.
LEMMA BlockIsSkipped ==
  ASSUME NEW e, Skipped(e)
  PROVE  Skipped(Cat(Cat(<<Open>>, e), <<Close>>))
<1> DEFINE w == Cat(Cat(<<Open>>, e), <<Close>>)
           o == <<Open>>
           c == <<Close>>
<1>1. e \in Seq(Sign) /\ o \in Seq(Sign) /\ c \in Seq(Sign) /\ Len(o) = 1 /\ Len(c) = 1 /\ o[1] = Open /\ c[1] = Close
  BY DEF Skipped, Sign
<1>0. w = Cat(Cat(o, e), c)
  OBVIOUS
<1> HIDE DEF w, o, c
<1>2. Cat(o, e) \in Seq(Sign) /\ Len(Cat(o, e)) = 1 + Len(e) /\ Len(e) \in Nat
  <2>1. o \o e \in Seq(Sign) /\ Len(o \o e) = Len(o) + Len(e)
    BY <1>1, ConcatProperties
  <2>2. Len(e) \in Nat
    BY <1>1, LenProperties
  <2>3. Cat(o, e) = o \o e
    BY Zenon DEF Cat
  <2>4. QED
    BY <1>1, <2>1, <2>2, <2>3
<1> DEFINE u == Cat(o, e)
<1>3. w \in Seq(Sign) /\ Len(w) = Len(e) + 2
  <2>1. u \in Seq(Sign) /\ Len(u) = 1 + Len(e)
    BY <1>2
  <2> HIDE DEF u
  <2>2. u \o c \in Seq(Sign) /\ Len(u \o c) = Len(u) + Len(c)
    BY <1>1, <2>1, ConcatProperties
  <2>3. w = u \o c
    BY <1>0, Zenon DEF Cat, u
  <2>4. QED
    BY <1>1, <1>2, <2>1, <2>2, <2>3
<1>4. ASSUME NEW t \in Seq(STRING), NEW i \in Nat, NEW d \in Nat, 1 <= i, 1 <= d, Stands(t, i, w)
      PROVE  Passes(t, ParamBody(t), Seeking(i, d), Seeking(i + Len(w), d))
  <2> DEFINE k == Len(e)
             a == i + 1
             b == i + (1 + k)
  <2>1. u \in Seq(Sign) /\ Stands(t, i, u) /\ Stands(t, b, c)
    <3>1. u \in Seq(Sign) /\ Stands(t, i, Cat(u, c)) /\ Len(u) = 1 + Len(e)
      BY <1>0, <1>2, <1>4
    <3> HIDE DEF u
    <3>2. Stands(t, i, u) /\ Stands(t, i + Len(u), c)
      BY <1>1, <1>4, <3>1, PartsStand
    <3>3. QED
      BY <3>1, <3>2
  <2>2. Stands(t, i, o) /\ Stands(t, a, e)
    BY <1>1, <1>4, <2>1, PartsStand
  <2>3. k \in Nat /\ a \in Nat /\ 1 <= a /\ b \in Nat /\ 1 <= b /\ a + k = b /\ b + 1 = i + Len(w)
    BY <1>2, <1>3, <1>4
  <2>4. At(t, i) = Open /\ i \in Place(t) /\ a \in Place(t)
    <3>1. 1 \in 1 .. Len(o) /\ i + 1 - 1 = i
      BY <1>1
    <3>2. At(t, i + 1 - 1) = o[1]
      BY <1>1, <1>4, <2>2, <3>1, StandsAt
    <3>3. i \in Place(t) /\ i + Len(o) \in Place(t)
      BY <1>1, <1>4, <2>2, StandsInPlaces
    <3>4. QED
      BY <1>1, <3>1, <3>2, <3>3
  <2>5. At(t, b) = Close /\ b \in Place(t) /\ b + 1 \in Place(t)
    <3> HIDE DEF b
    <3>1. 1 \in 1 .. Len(c) /\ b + 1 - 1 = b
      BY <1>1, <2>3
    <3>2. At(t, b + 1 - 1) = c[1]
      BY <1>1, <2>1, <2>3, <3>1, StandsAt
    <3>3. b \in Place(t) /\ b + Len(c) \in Place(t)
      BY <1>1, <2>1, <2>3, StandsInPlaces
    <3>4. QED
      BY <1>1, <3>1, <3>2, <3>3
  <2>6. Passes(t, ParamBody(t), Seeking(a, d + 1), Seeking(a + Len(e), d + 1))
    <3>1. d + 1 \in Nat /\ 1 <= d + 1
      BY <1>4
    <3> HIDE DEF a
    <3>2. QED
      BY <2>2, <2>3, <3>1 DEF Skipped
  <2>7. a + Len(e) = b
    BY <2>3
  <2> HIDE DEF a, b, k
  <2>8. Passes(t, ParamBody(t), Seeking(i, d), Seeking(a, d + 1))
    <3> DEFINE x == Seeking(i, d)
               y == Seeking(a, d + 1)
    <3>1. x.pos = i /\ x.depth = d /\ ParamBody(t)[x] = ParamRound(t, x) /\ y.pos = a
      BY <1>4, <2>4, SeekingRound
    <3> HIDE DEF x
    <3>2. ~ EndsBlock(t, x) /\ At(t, x.pos) = Open /\ At(t, x.pos) # Close
      BY <2>4, <3>1, MarksDiffer DEF EndsBlock
    <3>3. ParamRound(t, x) = [pos |-> x.pos + 1, depth |-> x.depth + 1]
      BY <3>2, MarksDiffer DEF ParamRound
    <3>4. ParamRound(t, x) = y
      BY <3>1, <3>3 DEF Seeking, a
    <3> HIDE DEF y
    <3>5. i < a
      BY <1>4 DEF a
    <3>6. Passes(t, ParamBody(t), x, y)
      BY <2>4, <3>1, <3>4, <3>5, PassesOnce
    <3>7. QED
      BY <3>6 DEF x, y
  <2>9. Passes(t, ParamBody(t), Seeking(b, d + 1), Seeking(b + 1, d))
    <3> DEFINE x == Seeking(b, d + 1)
               y == Seeking(b + 1, d)
    <3>1. x.pos = b /\ x.depth = d + 1 /\ ParamBody(t)[x] = ParamRound(t, x) /\ y.pos = b + 1
      BY <1>4, <2>5, SeekingRound
    <3> HIDE DEF x
    <3>2. ~ EndsBlock(t, x) /\ At(t, x.pos) = Close /\ x.depth > 1 /\ At(t, x.pos) # Open
      BY <1>4, <2>5, <3>1, MarksDiffer DEF EndsBlock
    <3>3. ParamRound(t, x) = [pos |-> x.pos + 1, depth |-> x.depth - 1]
      BY <3>2, MarksDiffer DEF ParamRound
    <3>4. ParamRound(t, x) = y
      <4>1. x.depth - 1 = d
        BY <1>4, <3>1
      <4>2. QED
        BY <3>1, <3>3, <4>1 DEF Seeking
    <3> HIDE DEF y
    <3>5. b < b + 1
      BY <2>3
    <3>6. Passes(t, ParamBody(t), x, y)
      BY <2>5, <3>1, <3>4, <3>5, PassesOnce
    <3>7. QED
      BY <3>6 DEF x, y
  <2>10. Passes(t, ParamBody(t), Seeking(i, d), Seeking(b, d + 1))
    BY <2>6, <2>7, <2>8, PassesOn
  <2>11. Passes(t, ParamBody(t), Seeking(i, d), Seeking(b + 1, d))
    BY <2>9, <2>10, PassesOn
  <2>12. QED
    BY <2>3, <2>11
<1>5. QED
  BY <1>3, <1>4 DEF Skipped, w

\* An expression that the formatter has written into a template is read as it stands
\* there, and ends the segment before it.
LEMMA HoleIsRead ==
  ASSUME NEW t \in Seq(STRING), NEW a \in Nat, 1 <= a, NEW e \in Seq(Sign), Skipped(e),
         Stands(t, a, Cat(Cat(<<"$", Open>>, e), <<Close>>)),
         NEW v \in Seq(Char), NEW segments \in Seq(Seq(Char)), NEW exprs \in Seq(Seq(STRING))
  PROVE  LET b == a + Len(Cat(Cat(<<"$", Open>>, e), <<Close>>))
         IN  /\ e \in Seq(STRING) /\ At(t, a) = "$" /\ b \in Place(t)
             /\ Passes(t, TemplateBody(t), Reading(a, v, segments, exprs),
                       Reading(b, <<>>, Append(segments, v), Append(exprs, e)))
<1> DEFINE h == <<"$", Open>>
           c == <<Close>>
           k == Len(e)
           w == Cat(Cat(h, e), c)
<1>1. h \in Seq(Sign) /\ Len(h) = 2 /\ h[1] = "$" /\ h[2] = Open /\ c \in Seq(Sign) /\ Len(c) = 1 /\ c[1] = Close
  BY DEF Sign
<1>2. k \in Nat /\ Len(t) \in Nat
  BY LenProperties
<1> HIDE DEF h, c
<1>3. Cat(h, e) \in Seq(Sign) /\ Len(Cat(h, e)) = 2 + k
  <2>1. Cat(h, e) \in Seq(Sign) /\ Len(Cat(h, e)) = Len(h) + Len(e)
    <3>1. Len(h \o e) = Len(h) + Len(e) /\ h \o e \in Seq(Sign)
      BY <1>1, ConcatProperties
    <3>2. QED
      BY <3>1, Zenon DEF Cat
  <2>2. QED
    BY <1>1, <2>1 DEF k
<1>4. /\ Stands(t, a, Cat(h, e)) /\ Stands(t, a + (2 + k), c) /\ Len(w) = (2 + k) + 1
  <2> DEFINE u == Cat(h, e)
  <2>1. u \in Seq(Sign) /\ Len(u) = 2 + k /\ Stands(t, a, Cat(u, c)) /\ w = Cat(u, c)
    BY <1>3 DEF h, c
  <2> HIDE DEF u, w
  <2>0. u \in Seq(Sign) /\ c \in Seq(Sign) /\ Stands(t, a, Cat(u, c))
    BY <1>1, <2>1
  <2>2. Stands(t, a, u) /\ Stands(t, a + Len(u), c) /\ Len(Cat(u, c)) = Len(u) + Len(c)
    BY <2>0, PartsStand
  <2>3. QED
    BY <1>1, <2>1, <2>2 DEF u
<1>5. Stands(t, a, h) /\ Stands(t, a + 2, e)
  BY <1>1, <1>4, PartsStand
<1> HIDE DEF k, w
<1> DEFINE d == a + 2 + k
<1>6. At(t, a) = "$" /\ At(t, a + 1) = Open /\ At(t, d) = Close /\ d \in 1 .. Len(t)
  <2>1. /\ a + 1 - 1 = a /\ a + 2 - 1 = a + 1 /\ a + (2 + k) = d /\ d + 1 - 1 = d /\ d \in Nat /\ 1 <= d
        /\ 1 \in 1 .. Len(h) /\ 2 \in 1 .. Len(h) /\ 1 \in 1 .. Len(c)
    BY <1>1, <1>2
  <2>2. At(t, a + 1 - 1) = h[1] /\ At(t, a + 2 - 1) = h[2]
    BY <1>1, <1>5, <2>1, StandsAt
  <2>3. Stands(t, d, c)
    BY <1>4, <2>1
  <2> HIDE DEF d
  <2>4. At(t, d + 1 - 1) = c[1] /\ d + 1 - 1 \in 1 .. Len(t)
    BY <1>1, <2>1, <2>3, StandsAt
  <2>5. QED
    BY <1>1, <2>1, <2>2, <2>4
<1>7. ParamEnd(t, a + 2) = d /\ Slice(t, a + 2, d) = e /\ e \in Seq(STRING)
  <2>1. a + 2 \in Nat /\ 1 <= a + 2 /\ d = a + 2 + Len(e)
    BY DEF k
  <2>2. At(t, a + 2 + Len(e)) = Close
    BY <1>6, <2>1
  <2>3. ParamEnd(t, a + 2) = a + 2 + Len(e)
    BY <1>5, <2>1, <2>2, SkippedEnds
  <2>4. Slice(t, a + 2, a + 2 + Len(e)) = e /\ e \in Seq(STRING)
    BY <1>5, <2>1, PieceOfText
  <2>5. QED
    BY <2>1, <2>3, <2>4
<1>8. After(t, d) = d + 1
  BY <1>6, OneOn
<1> DEFINE l == Reading(a, v, segments, exprs)
           b == a + Len(w)
           r == Reading(b, <<>>, Append(segments, v), Append(exprs, e))
<1>9. b = d + 1 /\ a < b /\ a \in Place(t) /\ b \in Place(t)
  BY <1>2, <1>4, <1>6 DEF Place
<1> HIDE DEF d
<1>10. l \in TemplateStates(t) /\ l.pos = a /\ l.segment = v /\ l.segments = segments /\ l.exprs = exprs
  BY <1>9 DEF Reading, TemplateStates
<1> HIDE DEF b
<1>11. r.pos = b
  BY DEF Reading
<1>12. TemplateRound(t, l) = r
  <2> HIDE DEF l
  <2>1. At(t, l.pos) \notin {"tick", "eof"} /\ At(t, l.pos) = "$" /\ At(t, l.pos + 1) = Open
    BY <1>6, <1>10, DollarDiffers
  <2>2. TemplateRound(t, l) = [pos |-> After(t, ParamEnd(t, l.pos + 2)), segment |-> <<>>,
                               segments |-> Append(l.segments, l.segment),
                               exprs |-> Append(l.exprs, Slice(t, l.pos + 2, ParamEnd(t, l.pos + 2)))]
    BY <2>1 DEF TemplateRound
  <2>3. QED
    BY <1>7, <1>8, <1>9, <1>10, <2>2 DEF Reading
<1>13. TemplateBody(t)[l] = r
  BY <1>10, <1>12 DEF TemplateBody
<1> HIDE DEF l, r
<1>14. Passes(t, TemplateBody(t), l, r)
  BY <1>9, <1>10, <1>11, <1>13, PassesOnce
<1>15. QED
  BY <1>6, <1>7, <1>9, <1>14 DEF l, r, b, w, h, c

\* Segments, and the expressions between them.
IsTemplate(segments, exprs) ==
    /\ segments \in Seq(Seq(Plain)) /\ exprs \in Seq(Seq(Sign))
    /\ Len(segments) = Len(exprs) + 1
    /\ \A n \in 1 .. Len(exprs) : Skipped(exprs[n])

\* What the formatter writes for a template: a piece for each segment, which is the
\* segment and the expression behind it.
PieceOf(segments, exprs, n) == Cat(EscapeTemplateSegment(segments[n]), Hole(exprs, n))

\* What a piece is made of.
LEMMA PieceIsWritten ==
  ASSUME NEW segments, NEW exprs, IsTemplate(segments, exprs), NEW n \in 1 .. Len(segments)
  PROVE  /\ segments[n] \in Seq(Plain)
         /\ EscapeTemplateSegment(segments[n]) \in Seq(Sign)
         /\ Hole(exprs, n) \in Seq(Sign)
         /\ PieceOf(segments, exprs, n) \in Seq(Sign)
         /\ n = Len(segments) => Hole(exprs, n) = <<>>
         /\ n # Len(segments) => /\ n \in 1 .. Len(exprs) /\ exprs[n] \in Seq(Sign) /\ Skipped(exprs[n])
                                 /\ Hole(exprs, n) = Cat(Cat(<<"$", Open>>, exprs[n]), <<Close>>)
<1> DEFINE s == segments[n]
           h == Hole(exprs, n)
           w == EscapeTemplateSegment(s)
<1>1. /\ s \in Seq(Plain) /\ Len(exprs) \in Nat /\ DOMAIN exprs = 1 .. Len(exprs)
      /\ Len(segments) = Len(exprs) + 1
  BY LenProperties, ElementOfSeq DEF IsTemplate
<1>2. w \in Seq(Sign)
  <2> DEFINE m == Len(s)
             seqs == [k \in 1 .. m |-> SegmentChar(s, k)]
  <2>1. m \in Nat /\ DOMAIN s = 1 .. m
    BY <1>1, LenProperties
  <2>2. seqs \in [1 .. m -> Seq(Sign)]
    BY <1>1, CharOfSegment
  <2>3. w = FlattenSeq(seqs)
    BY <2>1 DEF EscapeTemplateSegment
  <2> HIDE DEF m, seqs, w
  <2>4. QED
    BY <2>1, <2>2, <2>3, PiecesAreSigns
<1>3. CASE n = Len(segments)
  <2>1. n \notin DOMAIN exprs
    BY <1>1, <1>3
  <2>2. h = <<>>
    BY <2>1 DEF Hole
  <2>3. h \in Seq(Sign)
    BY <2>2, EmptySeq
  <2> HIDE DEF w, h
  <2>4. w \o h \in Seq(Sign)
    BY <1>2, <2>3, ConcatProperties
  <2>5. QED
    BY <1>1, <1>2, <1>3, <2>2, <2>3, <2>4 DEF w, h, s, PieceOf, Cat
<1>4. CASE n # Len(segments)
  <2> DEFINE e == exprs[n]
             a == <<"$", Open>>
             c == <<Close>>
  <2>1. n \in 1 .. Len(exprs)
    BY <1>1, <1>4
  <2>2. e \in Seq(Sign) /\ Skipped(e)
    BY <2>1, ElementOfSeq DEF IsTemplate
  <2>3. h = Cat(Cat(a, e), c)
    BY <1>1, <2>1, Zenon DEF Hole, Cat
  <2>4. a \in Seq(Sign) /\ c \in Seq(Sign)
    BY DEF Sign
  <2> HIDE DEF e, a, c, h, w
  <2>5. a \o e \in Seq(Sign)
    BY <2>2, <2>4, ConcatProperties
  <2>6. (a \o e) \o c \in Seq(Sign)
    BY <2>4, <2>5, ConcatProperties
  <2>7. h \in Seq(Sign)
    BY <2>3, <2>6, Zenon DEF Cat
  <2>8. w \o h \in Seq(Sign)
    BY <1>2, <2>7, ConcatProperties
  <2>9. PieceOf(segments, exprs, n) \in Seq(Sign)
    BY <2>8, Zenon DEF PieceOf, Cat, w, h, s
  <2>10. QED
    BY <1>1, <1>2, <1>4, <2>1, <2>2, <2>3, <2>7, <2>9, Zenon DEF w, h, s, e, a, c
<1>5. QED
  BY <1>3, <1>4

\* The places of the pieces of a template that stands in a text, in its marks.
TemplatePlaced(p, t, i, segments, exprs) ==
    /\ p \in [0 .. Len(segments) -> Place(t)]
    /\ p[0] = i + 1 /\ At(t, i) = "tick"
    /\ At(t, p[Len(segments)]) = "tick" /\ p[Len(segments)] \in 1 .. Len(t)
    /\ i + Len(WrittenTemplate(segments, exprs)) = p[Len(segments)] + 1
    /\ \A n \in 1 .. Len(segments) :
           /\ Stands(t, p[n - 1], PieceOf(segments, exprs, n))
           /\ p[n] = p[n - 1] + Len(PieceOf(segments, exprs, n))

\* How a template that the formatter has written stands in a text.
LEMMA TemplateStands ==
  ASSUME NEW t \in Seq(STRING), NEW i \in Nat, 1 <= i, NEW segments, NEW exprs, IsTemplate(segments, exprs),
         Stands(t, i, WrittenTemplate(segments, exprs))
  PROVE  \E p : TemplatePlaced(p, t, i, segments, exprs)
<1> DEFINE m == Len(segments)
           seqs == [n \in 1 .. m |-> PieceOf(segments, exprs, n)]
           e == FlattenSeq(seqs)
           w == WrittenTemplate(segments, exprs)
<1>1. m \in Nat /\ DOMAIN segments = 1 .. m /\ Len(t) \in Nat
  BY LenProperties DEF IsTemplate
<1>2. seqs \in [1 .. m -> Seq(Sign)] /\ \A n \in 1 .. m : seqs[n] = PieceOf(segments, exprs, n)
  BY PieceIsWritten
<1>3. w = Cat(Cat(<<"tick">>, e), <<"tick">>)
  BY <1>1, Zenon DEF WrittenTemplate, Cat, PieceOf
<1> HIDE DEF m, seqs, w
<1>4. e \in Seq(Sign) /\ "tick" \in Sign
  BY <1>1, <1>2, PiecesAreSigns DEF Sign
<1> HIDE DEF e
<1>5. /\ Len(e) \in Nat /\ Len(w) = Len(e) + 2 /\ Stands(t, i + 1, e)
      /\ At(t, i) = "tick" /\ At(t, i + 1 + Len(e)) = "tick" /\ i + 1 + Len(e) <= Len(t)
  <2>1. Stands(t, i, w)
    BY DEF w
  <2>2. QED
    BY <1>3, <1>4, <2>1, BetweenMarks
<1>6. PICK p : Placed(p, m, seqs, t, i + 1)
  <2>1. i + 1 \in Nat /\ 1 <= i + 1 /\ Stands(t, i + 1, FlattenSeq(seqs))
    BY <1>5 DEF e
  <2>2. QED
    BY <1>1, <1>2, <2>1, PiecesHavePlaces
<1>7. /\ p \in [0 .. m -> Place(t)] /\ p[0] = i + 1 /\ p[m] = i + 1 + Len(e)
      /\ \A n \in 1 .. m : /\ Stands(t, p[n - 1], PieceOf(segments, exprs, n))
                           /\ p[n] = p[n - 1] + Len(PieceOf(segments, exprs, n))
  BY <1>2, <1>6 DEF Placed, e
<1>8. p[m] \in 1 .. Len(t) /\ i + Len(w) = p[m] + 1
  BY <1>1, <1>5, <1>7
<1>9. TemplatePlaced(p, t, i, segments, exprs)
  BY <1>5, <1>7, <1>8 DEF m, w, TemplatePlaced
<1>10. QED
  BY <1>9

\* A segment and the expression behind it are read.
LEMMA PieceIsRead ==
  ASSUME NEW t \in Seq(STRING), NEW i \in Nat, 1 <= i, NEW segments, NEW exprs, IsTemplate(segments, exprs),
         NEW n \in 1 .. Len(segments), n # Len(segments), Stands(t, i, PieceOf(segments, exprs, n)),
         NEW before \in Seq(Seq(Char)), NEW texts \in Seq(Seq(STRING))
  PROVE  /\ exprs[n] \in Seq(STRING)
         /\ Passes(t, TemplateBody(t), Reading(i, <<>>, before, texts),
                   Reading(i + Len(PieceOf(segments, exprs, n)), <<>>, Append(before, segments[n]), Append(texts, exprs[n])))
<1> DEFINE s == segments[n]
           e == exprs[n]
           w == EscapeTemplateSegment(s)
           h == Hole(exprs, n)
           x == PieceOf(segments, exprs, n)
           a == i + Len(w)
<1>1. /\ s \in Seq(Plain) /\ w \in Seq(Sign) /\ h \in Seq(Sign) /\ e \in Seq(Sign) /\ Skipped(e)
      /\ h = Cat(Cat(<<"$", Open>>, e), <<Close>>) /\ x = Cat(w, h)
  <2>1. /\ segments[n] \in Seq(Plain) /\ EscapeTemplateSegment(segments[n]) \in Seq(Sign)
        /\ Hole(exprs, n) \in Seq(Sign) /\ exprs[n] \in Seq(Sign) /\ Skipped(exprs[n])
        /\ Hole(exprs, n) = Cat(Cat(<<"$", Open>>, exprs[n]), <<Close>>)
    <3>1. n # Len(segments)
      OBVIOUS
    <3>2. QED
      BY <3>1, PieceIsWritten, Zenon
  <2>2. QED
    BY <2>1 DEF PieceOf
<1>2. s \in Seq(Char)
  <2>1. Plain \subseteq Char
    BY DEF Plain, Char
  <2>2. QED
    BY <1>1, <2>1, SeqDef
<1> HIDE DEF x, h, e, s, w
<1>3. /\ Stands(t, i, w) /\ Stands(t, i + Len(w), h)
      /\ Len(x) = Len(w) + Len(h) /\ Len(w) \in Nat /\ Len(h) \in Nat
  <2>1. w \in Seq(Sign) /\ h \in Seq(Sign) /\ Stands(t, i, Cat(w, h))
    BY <1>1 DEF x
  <2>2. /\ Stands(t, i, w) /\ Stands(t, i + Len(w), h)
        /\ Len(Cat(w, h)) = Len(w) + Len(h) /\ Len(w) \in Nat /\ Len(h) \in Nat
    BY <2>1, PartsStand
  <2>3. QED
    BY <1>1, <2>2
<1> DEFINE b == a + Len(h)
<1>4. a \in Nat /\ 1 <= a /\ b = i + Len(x) /\ Stands(t, a, Cat(Cat(<<"$", Open>>, e), <<Close>>))
  <2>1. Stands(t, a, h)
    BY <1>3
  <2> DEFINE k == Len(w)
             l == Len(h)
  <2> HIDE DEF k, l
  <2>2. k \in Nat /\ l \in Nat /\ Len(x) = k + l /\ a = i + k /\ b = a + l
    BY <1>3 DEF k, l
  <2> HIDE DEF a, b
  <2>3. a \in Nat /\ 1 <= a /\ b = i + Len(x)
    BY <2>2
  <2>4. QED
    BY <1>1, <2>1, <2>3
<1>5. /\ e \in Seq(STRING) /\ At(t, a) = "$"
      /\ Passes(t, TemplateBody(t), Reading(a, s, before, texts),
                Reading(a + Len(Cat(Cat(<<"$", Open>>, e), <<Close>>)), <<>>, Append(before, s), Append(texts, e)))
  <2> HIDE DEF a
  <2>1. QED
    BY <1>1, <1>2, <1>4, HoleIsRead
<1>6. Passes(t, TemplateBody(t), Reading(i, <<>>, before, texts), Reading(i + Len(w), s, before, texts))
  <2>1. At(t, i + Len(EscapeTemplateSegment(s))) # Open
    BY <1>5, DollarDiffers DEF w
  <2>2. Stands(t, i, EscapeTemplateSegment(s))
    BY <1>3 DEF w
  <2>3. QED
    BY <1>1, <2>1, <2>2, SegmentIsRead DEF w
<1>7. Passes(t, TemplateBody(t), Reading(a, s, before, texts), Reading(b, <<>>, Append(before, s), Append(texts, e)))
  BY <1>1, <1>5
<1>8. Passes(t, TemplateBody(t), Reading(i, <<>>, before, texts), Reading(b, <<>>, Append(before, s), Append(texts, e)))
  BY <1>6, <1>7, PassesOn
<1>9. b = i + Len(x)
  BY <1>4
<1> HIDE DEF b
<1>10. QED
  BY <1>5, <1>8, <1>9 DEF s, e, x

\* A template that the formatter has written comes back: wherever it stands, the
\* lexer reads its segments and the texts of its expressions from it and goes on
\* behind it (formatTemplateLit, escapeTemplateSegment, readTemplateLiteral), if the
\* end of each expression is found; ExpressionsAreSkipped says of which it is.
THEOREM TemplatesComeBack ==
  ASSUME NEW t \in Seq(STRING), NEW i \in 1 .. Len(t), NEW segments, NEW exprs, IsTemplate(segments, exprs),
         Stands(t, i, WrittenTemplate(segments, exprs))
  PROVE  /\ At(t, i) = "tick"
         /\ ReadTemplate(t, i + 1) =
                [pos |-> i + Len(WrittenTemplate(segments, exprs)), segments |-> segments, exprs |-> exprs]
<1> DEFINE m == Len(segments)
           k == Len(exprs)
           S(n) == SubSeq(segments, 1, n)
           E(n) == SubSeq(exprs, 1, n)
           body == TemplateBody(t)
<1>1. /\ i \in Nat /\ 1 <= i /\ Len(t) \in Nat /\ k \in Nat /\ m = k + 1 /\ m \in Nat
      /\ segments \in Seq(Seq(Plain)) /\ exprs \in Seq(Seq(Sign))
  BY AtAPlace, LenProperties DEF IsTemplate
<1>0. PICK p : TemplatePlaced(p, t, i, segments, exprs)
  BY <1>1, TemplateStands
<1>2. /\ p \in [0 .. m -> Place(t)] /\ p[0] = i + 1 /\ At(t, i) = "tick"
      /\ At(t, p[m]) = "tick" /\ p[m] \in 1 .. Len(t)
      /\ i + Len(WrittenTemplate(segments, exprs)) = p[m] + 1
      /\ \A n \in 1 .. m : /\ Stands(t, p[n - 1], PieceOf(segments, exprs, n))
                           /\ p[n] = p[n - 1] + Len(PieceOf(segments, exprs, n))
  BY <1>0 DEF TemplatePlaced
<1> HIDE DEF m, k, body
<1>3. \A n \in 0 .. m : p[n] \in Nat /\ 1 <= p[n]
  <2>1. \A n \in 0 .. m : p[n] \in Place(t)
    BY <1>2
  <2>2. \A j \in Place(t) : j \in Nat /\ 1 <= j
    BY <1>1 DEF Place
  <2>3. QED
    BY <2>1, <2>2
<1>4. segments \in Seq(Seq(Char)) /\ exprs \in Seq(Seq(STRING))
  <2>1. Seq(Plain) \subseteq Seq(Char)
    <3>1. Plain \subseteq Char
      BY DEF Plain, Char
    <3>2. QED
      BY <3>1, SeqDef
  <2>2. segments \in Seq(Seq(Char))
    BY <1>1, <2>1, SeqDef
  <2>3. ASSUME NEW n \in 1 .. k PROVE exprs[n] \in Seq(STRING)
    <3>1. n \in 1 .. m /\ n # m /\ n - 1 \in 0 .. m
      BY <1>1
    <3>2. Stands(t, p[n - 1], PieceOf(segments, exprs, n)) /\ p[n - 1] \in Nat /\ 1 <= p[n - 1]
      BY <1>2, <1>3, <3>1
    <3>3. <<>> \in Seq(Seq(Char)) /\ <<>> \in Seq(Seq(STRING))
      BY EmptySeq
    <3>4. QED
      BY <3>1, <3>2, <3>3, PieceIsRead DEF m
  <2>4. exprs \in Seq(Seq(STRING))
    <3>1. exprs \in [1 .. k -> Seq(STRING)]
      BY <1>1, <2>3, LenProperties DEF k
    <3>2. QED
      BY <1>1, <3>1, SeqDef
  <2>5. QED
    BY <2>2, <2>4
<1>5. /\ S(0) = <<>> /\ S(m) = segments /\ \A n \in 0 .. m : S(n) \in Seq(Seq(Char))
      /\ \A n \in 1 .. m : S(n) = Append(S(n - 1), segments[n])
  <2>1. segments \in Seq(Seq(Char))
    BY <1>4
  <2>2. QED
    BY <2>1, PrefixesGrow DEF m
<1>6. /\ E(0) = <<>> /\ E(k) = exprs /\ \A n \in 0 .. k : E(n) \in Seq(Seq(STRING))
      /\ \A n \in 1 .. k : E(n) = Append(E(n - 1), exprs[n])
  <2>1. exprs \in Seq(Seq(STRING))
    BY <1>4
  <2>2. QED
    BY <2>1, PrefixesGrow DEF k
<1> HIDE DEF S, E
<1> DEFINE x == [n \in 0 .. k |-> Reading(p[n], <<>>, S(n), E(n))]
           y == Reading(p[m], segments[m], S(k), exprs)
<1>7. \A n \in 0 .. k : x[n] = Reading(p[n], <<>>, S(n), E(n)) /\ x[n].pos = p[n] /\ x[n].pos \in Place(t)
  <2>1. ASSUME NEW n \in 0 .. k PROVE p[n] \in Place(t)
    <3>1. n \in 0 .. m
      BY <1>1
    <3>2. QED
      BY <1>2, <3>1
  <2>2. \A n \in 0 .. k : x[n] = Reading(p[n], <<>>, S(n), E(n)) /\ x[n].pos = p[n]
    BY DEF Reading
  <2>3. QED
    BY <2>1, <2>2
<1> HIDE DEF x
<1>8. ASSUME NEW n \in 1 .. k PROVE Passes(t, body, x[n - 1], x[n])
  <2>1. n \in 1 .. m /\ n # m /\ n - 1 \in 0 .. m /\ n - 1 \in 0 .. k /\ n \in 0 .. k
    BY <1>1
  <2>2. /\ Stands(t, p[n - 1], PieceOf(segments, exprs, n)) /\ p[n - 1] \in Nat /\ 1 <= p[n - 1]
        /\ p[n] = p[n - 1] + Len(PieceOf(segments, exprs, n))
    BY <1>2, <1>3, <2>1
  <2>3. S(n - 1) \in Seq(Seq(Char)) /\ E(n - 1) \in Seq(Seq(STRING))
    BY <1>5, <1>6, <2>1
  <2>4. Passes(t, TemplateBody(t), Reading(p[n - 1], <<>>, S(n - 1), E(n - 1)),
               Reading(p[n - 1] + Len(PieceOf(segments, exprs, n)), <<>>, Append(S(n - 1), segments[n]),
                       Append(E(n - 1), exprs[n])))
    BY <2>1, <2>2, <2>3, PieceIsRead DEF m
  <2>5. x[n - 1] = Reading(p[n - 1], <<>>, S(n - 1), E(n - 1)) /\ x[n] = Reading(p[n], <<>>, S(n), E(n))
    BY <1>7, <2>1
  <2>6. S(n) = Append(S(n - 1), segments[n]) /\ E(n) = Append(E(n - 1), exprs[n])
    BY <1>5, <1>6, <2>1
  <2>7. QED
    BY <2>2, <2>4, <2>5, <2>6 DEF body
<1>9. 0 \in 0 .. k /\ k \in 0 .. k /\ k \in 0 .. m /\ m \in 1 .. m /\ m - 1 = k
  BY <1>1
<1>10. Passes(t, body, x[0], x[k])
  BY <1>1, <1>7, <1>8, <1>9, PassesAll
<1>11. Passes(t, body, x[k], y)
  <2> DEFINE s == segments[m]
             w == EscapeTemplateSegment(s)
  <2>1. s \in Seq(Plain) /\ w \in Seq(Sign) /\ Hole(exprs, m) = <<>> /\ PieceOf(segments, exprs, m) = Cat(w, <<>>)
    BY <1>9, PieceIsWritten DEF m, PieceOf
  <2>2. PieceOf(segments, exprs, m) = w
    <3>1. w \o <<>> = w
      BY <2>1, ConcatEmptySeq
    <3>2. QED
      BY <2>1, <3>1, Zenon DEF Cat
  <2>3. Stands(t, p[k], w) /\ p[m] = p[k] + Len(w) /\ p[k] \in Nat /\ 1 <= p[k]
    BY <1>2, <1>3, <1>9, <2>2
  <2>4. At(t, p[k] + Len(w)) # Open
    BY <1>2, <2>3, MarksDiffer
  <2>5. S(k) \in Seq(Seq(Char)) /\ exprs \in Seq(Seq(STRING))
    BY <1>4, <1>5, <1>9
  <2>6. Passes(t, TemplateBody(t), Reading(p[k], <<>>, S(k), exprs), Reading(p[k] + Len(w), s, S(k), exprs))
    BY <2>1, <2>3, <2>4, <2>5, SegmentIsRead
  <2>7. x[k] = Reading(p[k], <<>>, S(k), exprs)
    BY <1>6, <1>7, <1>9
  <2>8. QED
    BY <2>3, <2>6, <2>7 DEF body
<1>12. Passes(t, body, x[0], y)
  BY <1>10, <1>11, PassesOn
<1>13. y \in TemplateStates(t) /\ y.pos = p[m] /\ y.segment = segments[m] /\ y.segments = S(k) /\ y.exprs = exprs
  <2>0. segments[m] \in Seq(Char)
    BY <1>4, <1>9, ElementOfSeq DEF m
  <2>1. segments[m] \in Seq(Char) /\ p[m] \in Place(t) /\ S(k) \in Seq(Seq(Char))
    BY <1>1, <1>2, <1>5, <1>9, <2>0
  <2>2. QED
    BY <1>4, <2>1 DEF Reading, TemplateStates
<1> HIDE DEF y
<1>14. body[y] = y
  <2>1. At(t, y.pos) = "tick"
    BY <1>2, <1>13
  <2>2. TemplateRound(t, y) = y
    BY <2>1, DollarDiffers DEF TemplateRound
  <2>3. QED
    BY <1>13, <2>2 DEF body, TemplateBody
<1>15. Loop(body, x[0], t) = y
  <2>1. y.pos <= Len(t)
    BY <1>1, <1>2, <1>13
  <2>2. QED
    BY <1>1, <1>12, <1>14, <2>1, LoopPasses
<1>16. x[0] = [pos |-> i + 1, segment |-> <<>>, segments |-> <<>>, exprs |-> <<>>]
  BY <1>2, <1>5, <1>6, <1>7, <1>9 DEF Reading
<1>17. body = [l \in [pos : Place(t), segment : Seq(Char), segments : Seq(Seq(Char)), exprs : Seq(Seq(STRING))] |->
                  TemplateRound(t, l)]
  BY Zenon DEF body, TemplateBody, TemplateStates
<1>18. ReadTemplate(t, i + 1) = [pos |-> After(t, y.pos), segments |-> Append(y.segments, y.segment), exprs |-> y.exprs]
  BY <1>15, <1>16, <1>17, Zenon DEF ReadTemplate
<1>19. After(t, y.pos) = p[m] + 1
  BY <1>2, <1>13, OneOn
<1>20. Append(y.segments, y.segment) = segments
  BY <1>5, <1>9, <1>13
<1>21. QED
  BY <1>2, <1>13, <1>18, <1>19, <1>20 DEF m

\* A pair, as one element and another.
LEMMA OneAndOne ==
  ASSUME NEW S, NEW a \in S, NEW c \in S
  PROVE  <<a>> \o <<c>> = <<a, c>>
<1> DEFINE u == <<a>>
           v == <<c>>
           w == <<a, c>>
           x == u \o v
<1>1. u \in Seq(S) /\ v \in Seq(S) /\ Len(u) = 1 /\ Len(v) = 1 /\ u[1] = a /\ v[1] = c
  OBVIOUS
<1>2. w \in Seq(S) /\ Len(w) = 2 /\ w[1] = a /\ w[2] = c
  OBVIOUS
<1> HIDE DEF u, v, w
<1>3. x \in Seq(S) /\ Len(x) = Len(u) + Len(v)
      /\ \A i \in 1 .. Len(u) + Len(v) : x[i] = IF i <= Len(u) THEN u[i] ELSE v[i - Len(u)]
  BY <1>1, ConcatProperties
<1> HIDE DEF x
<1>4. Len(x) = Len(w) /\ x[1] = w[1] /\ x[2] = w[2]
  BY <1>1, <1>2, <1>3
<1>5. \A i \in 1 .. Len(x) : x[i] = w[i]
  BY <1>2, <1>4
<1>6. x = w
  BY <1>2, <1>3, <1>4, <1>5, SeqEqual
<1>7. QED
  BY <1>6 DEF x, u, v, w

\* Nothing is skipped,
LEMMA NothingIsSkipped == Skipped(<<>>)
<1>1. <<>> \in Seq(Sign) /\ Len(<<>>) = 0
  BY EmptySeq
<1>2. ASSUME NEW t \in Seq(STRING), NEW i \in Nat, NEW d \in Nat, 1 <= i, 1 <= d, Stands(t, i, <<>>)
      PROVE  Passes(t, ParamBody(t), Seeking(i, d), Seeking(i + Len(<<>>), d))
  <2>1. i \in Place(t) /\ i + Len(<<>>) = i
    <3> DEFINE e == <<>>
    <3>1. e \in Seq(Sign) /\ Stands(t, i, e) /\ Len(e) = 0
      BY <1>1, <1>2
    <3> HIDE DEF e
    <3>2. i \in Place(t)
      BY <1>2, <3>1, StandsInPlaces
    <3>3. QED
      BY <1>1, <3>2
  <2>2. Seeking(i, d).pos \in Place(t)
    BY <2>1 DEF Seeking
  <2>3. Passes(t, ParamBody(t), Seeking(i, d), Seeking(i, d))
    BY <2>2, PassesOnce
  <2>4. QED
    BY <2>1, <2>3
<1>3. QED
  BY <1>1, <1>2 DEF Skipped

\* and so are any number of pieces, one behind the other.
LEMMA PiecesAreSkipped ==
  ASSUME NEW m \in Nat, NEW seqs \in [1 .. m -> Seq(Sign)], \A n \in 1 .. m : Skipped(seqs[n])
  PROVE  Skipped(FlattenSeq(seqs))
<1>1. PICK f : Joined(f, m, seqs)
  BY PiecesJoin
<1>2. FlattenSeq(seqs) = f[m]
  BY <1>1, FlattenJoins
<1>3. f[0] = <<>> /\ \A n \in 1 .. m : f[n] = Cat(f[n - 1], seqs[n])
  BY <1>1, Zenon DEF Joined
<1> DEFINE P == {n \in 0 .. m : Skipped(f[n])}
<1>4. 0 \in P
  BY <1>3, NothingIsSkipped
<1>5. ASSUME NEW n \in 0 .. m - 1, n \in P PROVE n + 1 \in P
  <2>1. n + 1 \in 1 .. m /\ (n + 1) - 1 = n /\ n + 1 \in 0 .. m
    OBVIOUS
  <2>2. Skipped(f[n]) /\ Skipped(seqs[n + 1])
    BY <1>5, <2>1
  <2>3. f[n + 1] = Cat(f[n], seqs[n + 1])
    BY <1>3, <2>1
  <2>4. Skipped(f[n + 1])
    BY <2>2, <2>3, BothAreSkipped
  <2>5. QED
    BY <2>1, <2>4
<1>6. m \in P
  <2>1. \A n \in 0 .. m - 1 : n \in P => n + 1 \in P
    BY <1>5
  <2> HIDE DEF P
  <2>2. \A n \in 0 .. m : n \in P
    BY <1>4, <2>1, UpTo, Zenon
  <2>3. QED
    BY <2>2
<1>7. QED
  BY <1>2, <1>6

\* Three pieces, joined in either order.
LEMMA CatJoins ==
  \A u, v, w \in Seq(Sign) : Cat(u, v) \in Seq(Sign) /\ Cat(Cat(u, v), w) = Cat(u, Cat(v, w))
<1>1. ASSUME NEW u \in Seq(Sign), NEW v \in Seq(Sign), NEW w \in Seq(Sign)
      PROVE  u \o v \in Seq(Sign) /\ (u \o v) \o w = u \o (v \o w)
  <2>1. u \o v \in Seq(Sign)
    BY ConcatProperties
  <2>2. (u \o v) \o w = u \o (v \o w)
    BY ConcatAssociative, SMTT(60)
  <2>3. QED
    BY <2>1, <2>2
<1>2. QED
  BY <1>1, Zenon DEF Cat

\* What may stand in an expression of a template, so that its end is found
\* (readParamExpr): strings as the formatter writes them, whatever quotes and braces
\* they hold; braces that are balanced; every other character; and templates in turn,
\* if the text around their expressions has no braces and no quotation marks.
THEOREM ExpressionsAreSkipped ==
  /\ \A c \in Sign : c \notin Quotes \cup {Open, Close, "eof"} => Skipped(<<c>>)
  /\ \A s \in Seq(Plain) : Skipped(WrittenString(s))
  /\ \A u, v : Skipped(u) /\ Skipped(v) => Skipped(Cat(u, v))
  /\ \A e : Skipped(e) => Skipped(Cat(Cat(<<Open>>, e), <<Close>>))
  /\ \A segments, exprs :
        /\ IsTemplate(segments, exprs)
        /\ \A n \in 1 .. Len(segments) : \A k \in 1 .. Len(segments[n]) : segments[n][k] \notin Quotes \cup {Open, Close}
        => Skipped(WrittenTemplate(segments, exprs))
<1>1. ASSUME NEW segments, NEW exprs, IsTemplate(segments, exprs),
             \A n \in 1 .. Len(segments) : \A k \in 1 .. Len(segments[n]) : segments[n][k] \notin Quotes \cup {Open, Close}
      PROVE  Skipped(WrittenTemplate(segments, exprs))
  <2> DEFINE m == Len(segments)
             seqs == [n \in 1 .. m |-> PieceOf(segments, exprs, n)]
             e == FlattenSeq(seqs)
             q == <<"tick">>
  <2>1. m \in Nat /\ DOMAIN segments = 1 .. m
    BY <1>1, LenProperties DEF IsTemplate
  <2>2. seqs \in [1 .. m -> Seq(Sign)] /\ \A n \in 1 .. m : seqs[n] = PieceOf(segments, exprs, n)
    BY <1>1, PieceIsWritten
  <2>3. WrittenTemplate(segments, exprs) = Cat(Cat(q, e), q)
    BY <2>1, Zenon DEF WrittenTemplate, Cat, PieceOf
  <2>4. Skipped(q) /\ Skipped(<<"\\">>) /\ Skipped(<<"$">>)
    <3>1. "tick" \in Sign /\ "\\" \in Sign /\ "$" \in Sign
      BY DEF Sign
    <3>2. /\ "tick" \notin Quotes \cup {Open, Close, "eof"} /\ "\\" \notin Quotes \cup {Open, Close, "eof"}
          /\ "$" \notin Quotes \cup {Open, Close, "eof"}
      BY Zenon DEF Quotes, Open, Close
    <3>3. QED
      BY <3>1, <3>2, CharIsSkipped
  <2> HIDE DEF m, seqs, q
  <2>5. ASSUME NEW n \in 1 .. m PROVE Skipped(seqs[n])
    <3> DEFINE s == segments[n]
               l == Len(s)
               chars == [k \in 1 .. l |-> SegmentChar(s, k)]
               h == Hole(exprs, n)
    <3>1. /\ s \in Seq(Plain)
          /\ n = Len(segments) => h = <<>>
          /\ n # Len(segments) => /\ exprs[n] \in Seq(Sign) /\ Skipped(exprs[n])
                                  /\ h = Cat(Cat(<<"$", Open>>, exprs[n]), <<Close>>)
      BY <1>1, PieceIsWritten, Zenon DEF m
    <3>2. l \in Nat /\ DOMAIN s = 1 .. l
      BY <3>1, LenProperties
    <3>3. chars \in [1 .. l -> Seq(Sign)] /\ \A k \in 1 .. l : chars[k] = SegmentChar(s, k)
      BY <3>1, CharOfSegment
    <3>4. EscapeTemplateSegment(s) = FlattenSeq(chars)
      BY <3>2 DEF EscapeTemplateSegment
    <3>5. ASSUME NEW k \in 1 .. l PROVE s[k] \notin Quotes \cup {Open, Close}
      BY <1>1, <3>5 DEF m
    <3> HIDE DEF s, chars, h
    <3>6. ASSUME NEW k \in 1 .. l PROVE Skipped(chars[k])
      <4> DEFINE c == s[k]
      <4>1. c \in Plain /\ (SegmentChar(s, k) = <<c>> \/ SegmentChar(s, k) = <<"\\", c>>)
        BY <3>1, CharOfSegment
      <4>2. Skipped(<<c>>)
        <5>1. c \in Sign /\ c \notin Quotes \cup {Open, Close, "eof"}
          BY <3>5, <4>1 DEF Sign, Plain
        <5> HIDE DEF c
        <5>2. QED
          BY <5>1, CharIsSkipped
      <4> HIDE DEF c
      <4>3. Cat(<<"\\">>, <<c>>) = <<"\\", c>>
        <5>1. "\\" \in Sign /\ c \in Sign
          BY <4>1 DEF Sign, Plain
        <5>2. <<"\\">> \o <<c>> = <<"\\", c>>
          BY <5>1, OneAndOne
        <5>3. QED
          BY <5>2, Zenon DEF Cat
      <4>4. Skipped(Cat(<<"\\">>, <<c>>))
        BY <2>4, <4>2, BothAreSkipped
      <4>5. QED
        BY <3>3, <4>1, <4>2, <4>3, <4>4
    <3>7. Skipped(EscapeTemplateSegment(s))
      BY <3>2, <3>3, <3>4, <3>6, PiecesAreSkipped
    <3>8. Skipped(h)
      <4>1. CASE n = Len(segments)
        BY <3>1, <4>1, NothingIsSkipped
      <4>2. CASE n # Len(segments)
        <5> DEFINE x == exprs[n]
                   o == <<Open>>
                   c == <<Close>>
                   d == <<"$">>
        <5>1. x \in Seq(Sign) /\ Skipped(x) /\ h = Cat(Cat(<<"$", Open>>, x), c)
          BY <3>1, <4>2
        <5>2. <<"$", Open>> = d \o o
          OBVIOUS
        <5>3. o \in Seq(Sign) /\ c \in Seq(Sign) /\ d \in Seq(Sign) /\ Skipped(d)
          BY <2>4 DEF Sign
        <5>4. Skipped(Cat(Cat(o, x), c))
          BY <5>1, BlockIsSkipped
        <5> HIDE DEF x, o, c, d
        <5>5. Cat(Cat(d, o), x) = Cat(d, Cat(o, x)) /\ Cat(o, x) \in Seq(Sign)
          BY <5>1, <5>3, CatJoins, Zenon
        <5>6. Cat(Cat(d, Cat(o, x)), c) = Cat(d, Cat(Cat(o, x), c))
          <6> DEFINE y == Cat(o, x)
          <6>1. y \in Seq(Sign)
            BY <5>5, Zenon
          <6> HIDE DEF y
          <6>2. Cat(Cat(d, y), c) = Cat(d, Cat(y, c))
            BY <5>3, <6>1, CatJoins, SMTT(60)
          <6>3. QED
            BY <6>2, Zenon DEF y
        <5>7. h = Cat(Cat(Cat(d, o), x), c)
          BY <5>1, <5>2, Zenon DEF Cat
        <5>8. h = Cat(d, Cat(Cat(o, x), c))
          BY <5>5, <5>6, <5>7, Zenon
        <5>9. QED
          BY <5>3, <5>4, <5>8, BothAreSkipped
      <4>3. QED
        BY <4>1, <4>2
    <3>9. seqs[n] = Cat(EscapeTemplateSegment(s), h)
      BY <2>2 DEF PieceOf, s, h
    <3>10. QED
      BY <3>7, <3>8, <3>9, BothAreSkipped
  <2>6. Skipped(e)
    BY <2>1, <2>2, <2>5, PiecesAreSkipped
  <2> HIDE DEF e
  <2>7. Skipped(Cat(q, e))
    BY <2>4, <2>6, BothAreSkipped
  <2>8. QED
    BY <2>3, <2>4, <2>7, BothAreSkipped
<1>2. QED
  BY <1>1, CharIsSkipped, StringIsSkipped, BothAreSkipped, BlockIsSkipped

\* A string or a template that the formatter has written is one token of that kind,
\* which ends where the formatter's text does (Next).
THEOREM LiteralsAreTokens ==
  ASSUME NEW t \in Seq(STRING), NEW i \in 1 .. Len(t)
  PROVE  /\ \A s \in Seq(Plain) :
               Stands(t, i, WrittenString(s)) => Scan(t, i) = Scanned("string", i, i + Len(WrittenString(s)))
         /\ \A segments, exprs :
               IsTemplate(segments, exprs) /\ Stands(t, i, WrittenTemplate(segments, exprs)) =>
                   Scan(t, i) = Scanned("template", i, i + Len(WrittenTemplate(segments, exprs)))
<1>1. ASSUME NEW s \in Seq(Plain), Stands(t, i, WrittenString(s))
      PROVE  Scan(t, i) = Scanned("string", i, i + Len(WrittenString(s)))
  <2>1. At(t, i) = Quote /\ ReadString(t, i + 1, Quote).pos = i + Len(WrittenString(s))
    <3>1. /\ At(t, i) = Quote
          /\ ReadString(t, i + 1, Quote) = [pos |-> i + Len(WrittenString(s)), value |-> s]
      BY <1>1, StringsComeBack
    <3>2. QED
      BY <3>1
  <2>2. Quote \in Quotes /\ Quote \notin IdentStart \cup Digits \cup {"eof", "tick"}
    BY Zenon DEF Quote, Quotes, IdentStart, Letters, Digits
  <2>3. Scan(t, i) = Scanned("string", i, ReadString(t, i + 1, At(t, i)).pos)
    BY <2>1, <2>2 DEF Scan
  <2>4. QED
    BY <2>1, <2>3
<1>2. ASSUME NEW segments, NEW exprs, IsTemplate(segments, exprs), Stands(t, i, WrittenTemplate(segments, exprs))
      PROVE  Scan(t, i) = Scanned("template", i, i + Len(WrittenTemplate(segments, exprs)))
  <2>1. At(t, i) = "tick" /\ ReadTemplate(t, i + 1).pos = i + Len(WrittenTemplate(segments, exprs))
    <3>1. /\ At(t, i) = "tick"
          /\ ReadTemplate(t, i + 1) =
                 [pos |-> i + Len(WrittenTemplate(segments, exprs)), segments |-> segments, exprs |-> exprs]
      BY <1>2, TemplatesComeBack
    <3>2. QED
      BY <3>1
  <2>2. "tick" \notin IdentStart \cup Digits \cup Quotes \cup {"eof"}
    BY Zenon DEF Quotes, IdentStart, Letters, Digits
  <2>3. Scan(t, i) = Scanned("template", i, ReadTemplate(t, i + 1).pos)
    BY <2>1, <2>2 DEF Scan
  <2>4. QED
    BY <2>1, <2>3
<1>3. QED
  BY <1>1, <1>2
=============================================================================
