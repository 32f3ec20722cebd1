-------------------------- MODULE RouteTable_proofs --------------------------
(***************************************************************************)
(* Proofs about RouteTable, for any patterns, paths and methods: whatever   *)
(* order the map is iterated in, a request resolves to the same route.      *)
(***************************************************************************)
EXTENDS RouteTable, FiniteSetTheorems, SequenceTheorems, WellFoundedInduction, TLAPS

\* A set of natural numbers that is not empty has a smallest member.
LEMMA SmallestExists ==
  ASSUME NEW S \in SUBSET Nat, S # {}
  PROVE  \E i \in S : \A j \in S : i <= j
<1>1. PICK i \in S : \A j \in S : ~ (<<j, i>> \in OpToRel(<, Nat))
  BY NatLessThanWellFounded, WFMin
<1>2. \A j \in S : ~ (j < i)
  BY <1>1 DEF OpToRel
<1> QED
  BY <1>2

\* A set of positions of a sequence that is not empty has a largest member.
LEMMA LargestExists ==
  ASSUME NEW n \in Nat, NEW S \in SUBSET (1 .. n), S # {}
  PROVE  \E i \in S : \A j \in S : i >= j
<1> DEFINE T == {n - i : i \in S}
<1>1. T \in SUBSET Nat /\ T # {}
  <2>1. \A i \in S : n - i \in Nat
    OBVIOUS
  <2> QED
    BY <2>1, Zenon
<1>2. PICK k \in T : \A l \in T : k <= l
  BY <1>1, SmallestExists
<1>3. PICK i \in S : k = n - i
  BY <1>2
<1>4. ASSUME NEW j \in S PROVE i >= j
  <2>1. n - i <= n - j
    BY <1>2, <1>3
  <2> QED
    BY <2>1
<1> QED
  BY <1>4

\* splitRouteSegments returns a sequence.
LEMMA SegmentsType ==
  ASSUME NEW p, IsPath(p)
  PROVE  Segments(p) \in Seq([param : BOOLEAN, text : STRING])
<1> DEFINE Solid == {i \in 1 .. Len(p) : ~ IsEmpty(p[i])}
<1> DEFINE first == CHOOSE i \in Solid : \A j \in Solid : i <= j
<1> DEFINE last == CHOOSE i \in Solid : \A j \in Solid : i >= j
<1>1. p \in Seq([param : BOOLEAN, text : STRING]) /\ Len(p) \in Nat
  BY DEF IsPath
<1>2. CASE Solid = {}
  BY <1>2 DEF Segments
<1>3. CASE Solid # {}
  <2>1. first \in Solid
    <3>1. Solid \in SUBSET Nat
      BY <1>1
    <3> QED
      BY <1>3, <3>1, SmallestExists
  <2>2. last \in Solid
    <3>1. Solid \in SUBSET (1 .. Len(p))
      OBVIOUS
    <3> QED
      BY <1>1, <1>3, <3>1, LargestExists
  <2>3. first \in 1 .. Len(p) /\ last \in 1 .. Len(p)
    BY <2>1, <2>2
  <2> HIDE DEF first, last, Solid
  <2>4. SubSeq(p, first, last) \in Seq([param : BOOLEAN, text : STRING])
    <3>1. \A i \in 1 .. Len(p) : p[i] \in [param : BOOLEAN, text : STRING]
      BY <1>1, ElementOfSeq, Zenon
    <3>2. first \in Int /\ last \in Int /\ \A i \in first .. last : i \in 1 .. Len(p)
      BY <1>1, <2>3
    <3> QED
      BY <3>1, <3>2, SubSeqProperties, Zenon
  <2>5. Segments(p) = SubSeq(p, first, last)
    BY <1>3 DEF Segments, first, last, Solid
  <2> QED
    BY <2>4, <2>5
<1> QED
  BY <1>2, <1>3

\* A pattern's score is a number.
LEMMA ScoreType ==
  ASSUME NEW p \in Patterns
  PROVE  Score(p) \in Nat
<1>1. Len(Segments(p)) \in Nat
  BY PathsAssumption, SegmentsType
<1>2. IsFiniteSet(1 .. Len(Segments(p)))
  BY <1>1, FS_Interval
<1>3. IsFiniteSet((1 .. Len(Segments(p))) \ Params(p))
  BY <1>2, FS_Subset
<1> QED
  BY <1>3, FS_CardinalityType DEF Score

\* The preference is a strict total order of the patterns: the third tie-break
\* tells any two patterns apart.
LEMMA BetterIsTotal ==
  ASSUME NEW p \in Patterns, NEW q \in Patterns
  PROVE  /\ p = q \/ Better(p, q) \/ Better(q, p)
         /\ ~ (Better(p, q) /\ Better(q, p))
  BY ScoreType, LengthAssumption, RankAssumption DEF Better

\* The preference is transitive (resolveRoute).
LEMMA BetterIsTransitive ==
  ASSUME NEW p \in Patterns, NEW q \in Patterns, NEW s \in Patterns, Better(p, q), Better(q, s)
  PROVE  Better(p, s)
<1>1. /\ Score(p) \in Nat /\ Score(q) \in Nat /\ Score(s) \in Nat
      /\ Length[p] \in Nat /\ Length[q] \in Nat /\ Length[s] \in Nat
      /\ Rank[p] \in Nat /\ Rank[q] \in Nat /\ Rank[s] \in Nat
  BY ScoreType, LengthAssumption, RankAssumption
<1> QED
  BY <1>1 DEF Better

-----------------------------------------------------------------------------
\* What the loop of resolveRoute knows when it is half way: the table it scans
\* is the one to ask, no exact entry was there, and of the candidates that were
\* visited best is the preferred one, with its own parameters.
ScanInv ==
    scanning \in Methods \cup {Any} =>
        /\ scanning = asked.method \/ (scanning = Any /\ ~ Answers(asked.method))
        /\ asked.path \notin routes[scanning]
        /\ todo \subseteq routes[scanning]
        /\ best = NoPattern => Candidates(scanning) \subseteq todo
        /\ best # NoPattern =>
               /\ best \in Candidates(scanning) \ todo
               /\ bound = Bindings(best, asked.path)
               /\ \A q \in Candidates(scanning) \ todo : q = best \/ Better(best, q)

Inv == TypeOK /\ ScanInv /\ ResolutionDetermined

\* What a pattern binds are names.
LEMMA BindingsType ==
  ASSUME NEW p \in Patterns, NEW path
  PROVE  DOMAIN Bindings(p, path) \subseteq STRING
<1>1. \A i \in 1 .. Len(Segments(p)) : Segments(p)[i] \in [param : BOOLEAN, text : STRING]
  BY PathsAssumption, SegmentsType, ElementOfSeq, Zenon
<1>2. \A i \in Params(p) : Segments(p)[i].text \in STRING
  BY <1>1 DEF Params
<1>3. DOMAIN Bindings(p, path) = {Segments(p)[i].text : i \in Params(p)}
  BY DEF Bindings
<1> QED
  BY <1>2, <1>3

\* A server without routes obeys the invariant,
LEMMA Initially == Init => Inv
<1> SUFFICES ASSUME Init PROVE Inv
  OBVIOUS
<1>1. scanning \notin Methods \cup {Any} /\ scanning # "done"
  BY NamesAssumption DEF Init
<1>2. TypeOK
  BY DEF Init, TypeOK
<1> QED
  BY <1>1, <1>2 DEF Inv, ScanInv, ResolutionDetermined

\* A lookup in the table that is to be asked ends with its exact entry or starts
\* the loop, with nothing visited.
LEMMA LookupStep ==
  ASSUME TypeOK, NEW m \in Methods \cup {Any}, Lookup(m), routes' = routes,
         asked' \in [path : RequestPaths, method : Methods],
         m = asked'.method \/ (m = Any /\ ~ Answers(asked.method)')
  PROVE  Inv'
<1>1. routes \in [Methods \cup {Any} -> SUBSET Patterns]
  BY DEF TypeOK
<1>2. CASE asked'.path \in routes[m]
  <2>1. /\ handler' = [table |-> m, pattern |-> asked'.path] /\ scanning' = "done"
        /\ todo' = todo /\ best' = best /\ bound' = <<>>
    BY <1>2 DEF Lookup, Found
  <2>2. asked'.path \in Patterns /\ asked'.path # NoPattern
    BY <1>1, <1>2, NamesAssumption
  <2>3. TypeOK'
    BY <2>1, <2>2 DEF TypeOK
  <2>4. ScanInv'
    BY <2>1, NamesAssumption DEF ScanInv
  <2>5. handler.table' = m /\ handler.pattern' = asked'.path
    BY <2>1
  <2>6. ResolutionDetermined'
    BY <1>2, <2>1, <2>2, <2>5 DEF ResolutionDetermined
  <2> QED
    BY <2>3, <2>4, <2>6 DEF Inv
<1>3. CASE asked'.path \notin routes[m]
  <2>1. scanning' = m /\ todo' = routes[m] /\ best' = NoPattern /\ bound' = <<>> /\ handler' = handler
    BY <1>3 DEF Lookup
  <2>2. TypeOK'
    BY <1>1, <2>1 DEF TypeOK
  <2>3. Candidates(scanning)' \subseteq routes[m]
    BY <2>1 DEF Candidates
  <2>4. ScanInv'
    BY <1>3, <2>1, <2>3 DEF ScanInv
  <2>5. ResolutionDetermined'
    BY <2>1, NamesAssumption DEF ResolutionDetermined
  <2> QED
    BY <2>2, <2>4, <2>5 DEF Inv
<1> QED
  BY <1>2, <1>3

\* One iteration keeps the best of the visited candidates: the one that loses
\* was preferred to all the others, and so is the one that beats it.
LEMMA VisitStep ==
  ASSUME Inv, NEW p \in Patterns, Visit(p)
  PROVE  Inv'
<1> DEFINE m == scanning
<1>1. /\ m \in Methods \cup {Any} /\ p \in todo /\ todo' = todo \ {p}
      /\ routes' = routes /\ asked' = asked /\ scanning' = m /\ handler' = handler
  BY DEF Visit
<1>2. /\ routes \in [Methods \cup {Any} -> SUBSET Patterns] /\ todo \subseteq routes[m]
      /\ TypeOK
  BY <1>1 DEF Inv, ScanInv, TypeOK
<1>3. \A n : Candidates(n)' = Candidates(n) /\ Answers(n)' = Answers(n)
  BY <1>1 DEF Candidates, Answers
<1>4. Candidates(scanning)' = Candidates(m)
  BY <1>1 DEF Candidates
<1>5. Answers(asked.method)' = Answers(asked.method)
  BY <1>1 DEF Candidates, Answers
<1>6. ResolutionDetermined'
  BY <1>1, NamesAssumption DEF ResolutionDetermined
<1>7. CASE Matches(p, asked.path) /\ (best = NoPattern \/ Better(p, best))
  <2>1. best' = p /\ bound' = Bindings(p, asked.path)
    BY <1>7 DEF Visit
  <2>2. TypeOK'
    BY <1>1, <1>2, <2>1, BindingsType DEF TypeOK
  <2>3. p \in Candidates(m) \ todo'
    BY <1>1, <1>2, <1>7 DEF Candidates
  <2>4. ASSUME NEW q \in Candidates(m) \ todo' PROVE q = p \/ Better(p, q)
    <3>1. q \in Patterns
      BY <1>1, <1>2 DEF Candidates
    <3>2. CASE q = p
      BY <3>2
    <3>3. CASE q # p
      <4>1. q \in Candidates(m) \ todo
        BY <1>1, <3>3
      <4>2. best # NoPattern /\ best \in Patterns
        BY <1>1, <1>2, <4>1 DEF Inv, ScanInv, TypeOK
      <4>3. Better(p, best) /\ (q = best \/ Better(best, q))
        BY <1>1, <1>7, <4>1, <4>2 DEF Inv, ScanInv
      <4> QED
        BY <3>1, <4>2, <4>3, BetterIsTransitive
    <3> QED
      BY <3>2, <3>3
  <2>5. p # NoPattern
    BY NamesAssumption
  <2>6. ScanInv'
    BY <1>1, <1>2, <1>4, <1>5, <2>1, <2>3, <2>4, <2>5 DEF Inv, ScanInv
  <2> QED
    BY <1>6, <2>2, <2>6 DEF Inv
<1>8. CASE ~ (Matches(p, asked.path) /\ (best = NoPattern \/ Better(p, best)))
  <2>1. best' = best /\ bound' = bound
    BY <1>8 DEF Visit
  <2>2. TypeOK'
    BY <1>1, <1>2, <2>1 DEF TypeOK
  <2>3. p \in Candidates(m) => best # NoPattern /\ best \in Patterns /\ (p = best \/ Better(best, p))
    <3> SUFFICES ASSUME p \in Candidates(m)
                 PROVE  best # NoPattern /\ best \in Patterns /\ (p = best \/ Better(best, p))
      OBVIOUS
    <3>1. best # NoPattern /\ ~ Better(p, best)
      BY <1>8 DEF Candidates
    <3>2. best \in Patterns
      BY <1>2, <3>1 DEF TypeOK
    <3> QED
      BY <3>1, <3>2, BetterIsTotal
  <2>4. ScanInv'
    <3>1. best = NoPattern => Candidates(m) \subseteq todo'
      BY <1>1, <2>3 DEF Inv, ScanInv
    <3>2. best # NoPattern => /\ best \in Candidates(m) \ todo'
                              /\ bound = Bindings(best, asked.path)
                              /\ \A q \in Candidates(m) \ todo' : q = best \/ Better(best, q)
      BY <1>1, <2>3 DEF Inv, ScanInv
    <3> QED
      BY <1>1, <1>2, <1>4, <1>5, <2>1, <3>1, <3>2 DEF Inv, ScanInv
  <2> QED
    BY <1>6, <2>2, <2>4 DEF Inv
<1> QED
  BY <1>7, <1>8

\* When the loop has ended every candidate has been visited.
LEMMA LoopEndsStep ==
  ASSUME Inv, LoopEnds
  PROVE  Inv'
<1>1. /\ scanning \in Methods \cup {Any} /\ todo = {}
      /\ asked' = asked /\ routes' = routes
  BY DEF LoopEnds
<1>2. /\ asked \in [path : RequestPaths, method : Methods] /\ TypeOK
      /\ scanning = asked.method \/ (scanning = Any /\ ~ Answers(asked.method))
      /\ asked.path \notin routes[scanning]
      /\ best = NoPattern => Candidates(scanning) = {}
      /\ best # NoPattern =>
             /\ best \in Candidates(scanning)
             /\ bound = Bindings(best, asked.path)
             /\ \A q \in Candidates(scanning) : q = best \/ Better(best, q)
  BY <1>1 DEF Inv, ScanInv, TypeOK
<1>3. \A n : Candidates(n)' = Candidates(n) /\ Answers(n)' = Answers(n)
  BY <1>1 DEF Candidates, Answers
<1>4. best = NoPattern => ~ Answers(scanning)
  BY <1>2 DEF Answers
<1>5. CASE best # NoPattern \/ scanning = Any
  <2>1. /\ handler' = [table |-> scanning, pattern |-> best] /\ scanning' = "done"
        /\ todo' = todo /\ best' = best /\ bound' = bound
    BY <1>5 DEF LoopEnds, Found
  <2>2. TypeOK'
    BY <1>1, <1>2, <2>1 DEF TypeOK
  <2>3. ScanInv'
    BY <2>1, NamesAssumption DEF ScanInv
  <2>4. ResolutionDetermined'
    <3>1. handler'.table = scanning /\ handler'.pattern = best
      BY <2>1
    <3>2. CASE best = NoPattern
      <4>1. ~ Answers(asked.method) /\ ~ Answers(Any)
        BY <1>2, <1>4, <1>5, <3>2
      <4>2. ~ Answers(asked.method)' /\ ~ Answers(Any)'
        BY <1>1, <4>1 DEF Answers, Candidates
      <4> QED
        BY <3>1, <3>2, <4>2 DEF ResolutionDetermined
    <3>3. CASE best # NoPattern
      <4>1. Candidates(handler.table)' = Candidates(scanning)
        BY <1>1, <3>1 DEF Candidates
      <4>2. Answers(asked.method)' = Answers(asked.method)
        BY <1>1 DEF Answers, Candidates
      <4>3. Candidates(scanning) \subseteq Patterns
        BY <1>1, <1>2 DEF TypeOK, Candidates
      <4>4. \A q \in Candidates(scanning) \ {best} : Better(best, q) /\ ~ Better(q, best)
        BY <1>2, <3>3, <4>3, BetterIsTotal
      <4> QED
        BY <1>1, <1>2, <2>1, <3>1, <3>3, <4>1, <4>2, <4>4 DEF ResolutionDetermined
    <3> QED
      BY <3>2, <3>3
  <2> QED
    BY <2>2, <2>3, <2>4 DEF Inv
<1>6. CASE ~ (best # NoPattern \/ scanning = Any)
  <2>1. Lookup(Any)
    BY <1>6 DEF LoopEnds
  <2>2. ~ Answers(asked.method)'
    BY <1>1, <1>2, <1>4, <1>6 DEF Answers, Candidates
  <2> QED
    BY <1>1, <1>2, <2>1, <2>2, LookupStep
<1> QED
  BY <1>5, <1>6

\* each step of registering or looking up a route keeps it,
LEMMA Step == Inv /\ [Next]_vars => Inv'
<1> SUFFICES ASSUME Inv, [Next]_vars PROVE Inv'
  OBVIOUS
<1>1. ASSUME NEW m \in Methods \cup {Any}, NEW p \in Patterns, AddRoute(m, p) PROVE Inv'
  <2>1. scanning' = "idle" /\ TypeOK
    BY <1>1 DEF AddRoute, Inv
  <2>2. TypeOK'
    BY <1>1, <2>1 DEF AddRoute, TypeOK
  <2> QED
    BY <2>1, <2>2, NamesAssumption DEF Inv, ScanInv, ResolutionDetermined
<1>2. ASSUME NEW path \in RequestPaths, NEW method \in Methods, Request(path, method) PROVE Inv'
  <2>1. /\ asked' = [path |-> path, method |-> method] /\ routes' = routes
        /\ Lookup(method) /\ TypeOK
    BY <1>2 DEF Request, Inv
  <2>2. asked' \in [path : RequestPaths, method : Methods] /\ method = asked'.method
    BY <2>1
  <2> QED
    BY <2>1, <2>2, LookupStep
<1>3. ASSUME NEW p \in Patterns, Visit(p) PROVE Inv'
  BY <1>3, VisitStep
<1>4. CASE LoopEnds
  BY <1>4, LoopEndsStep
<1>5. CASE UNCHANGED vars
  BY <1>5 DEF vars, Inv, TypeOK, ScanInv, ResolutionDetermined, Candidates, Answers
<1> QED
  BY <1>1, <1>2, <1>3, <1>4, <1>5 DEF Next

\* and so it always holds.
LEMMA Invariant == Spec => []Inv
  BY Initially, Step, PTL DEF Spec

\* A request resolves to the one route that the precedence names, in whatever
\* order resolveRoute's map was iterated, and with that route's parameters.
THEOREM ResolutionIsDetermined == Spec => []ResolutionDetermined
<1>1. Inv => ResolutionDetermined
  BY DEF Inv
<1> QED
  BY <1>1, Invariant, PTL

\* RouteTable is type-correct.
THEOREM TypeCorrect == Spec => []TypeOK
<1>1. Inv => TypeOK
  BY DEF Inv
<1> QED
  BY <1>1, Invariant, PTL
=============================================================================
