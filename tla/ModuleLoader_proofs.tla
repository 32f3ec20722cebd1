------------------------- MODULE ModuleLoader_proofs -------------------------
(***************************************************************************)
(* Proofs about ModuleLoader, for any disk, any number of modules, any way    *)
(* they import each other and any scan of their declarations.                *)
(***************************************************************************)
EXTENDS ModuleLoader, TLAPS, SequenceTheorems, FiniteSetTheorems, WellFoundedInduction

Frames == [module : Modules, at : {"enter", "read", "imports"}, next : Nat \ {0}]

LoaderTypeOK ==
    /\ disk \in Programs
    /\ places \in LibPlaces
    /\ modules \subseteq Sources \cup Lib
    /\ stack \in Seq(Frames)
    /\ phase \in {"index", "prelude", "entry", "sqlite"}
    /\ status \in {"loading", "done", "error", "panic", "overflow"}

(***************************************************************************)
(* The inductive invariant.  A module is settled when it is recorded, or is   *)
(* a name that the library has not, which is passed over; and so is the host  *)
(* bridge that it needs.                                                      *)
(***************************************************************************)
Available == Sources \cup Lib
Settled(ms, m) == m \in ms \/ m \notin Available
Bridged(ms, m) == m \in Names /\ NeedsHostBridge(m) => Settled(ms, "interop")

\* A call that is not the running one waits for the call above it: for the host
\* bridge, or for the import before its next.
Links ==
    \A i \in 1 .. Len(stack) - 1 :
        LET f == stack[i]
            g == stack[i + 1]
        IN  \/ f.at = "read" /\ f.module \in Names /\ NeedsHostBridge(f.module) /\ g.module = "interop"
            \/ f.at = "imports" /\ f.next > 1 /\ g.module = Imports(f.module)[f.next - 1]

\* A call that follows its imports has settled those behind it, but for the one it
\* waits for, and a built-in module is recorded by then.
Follows(i) ==
    LET f == stack[i]
    IN  /\ f.module \in Available /\ ~disk[f.module].bad
        /\ f.next <= Len(Imports(f.module)) + 1
        /\ f.module \in Names => f.module \in modules
        /\ Bridged(modules, f.module)
        /\ \A k \in 1 .. f.next - 1 :
               /\ Imports(f.module)[k] \in Available
               /\ Imports(f.module)[k] \in modules \/ (i < Len(stack) /\ k = f.next - 1)
FramesOK ==
    \A i \in 1 .. Len(stack) :
        /\ stack[i].at = "imports" => Follows(i)
        /\ stack[i].at = "enter" => stack[i].next = 1 /\ i = Len(stack)
        /\ stack[i].at = "read" => stack[i].next = 1 /\ (i = Len(stack) => Bridged(modules, stack[i].module))

\* What a recorded module imports is recorded, too, unless it is a built-in module
\* whose imports are still being followed.
AtWork(m) == \E i \in 1 .. Len(stack) : stack[i].module = m /\ stack[i].at = "imports"
Recorded ==
    \A m \in modules :
        /\ ~disk[m].bad
        /\ Bridged(modules, m)
        /\ ToSet(Imports(m)) \subseteq modules \/ (m \in Names /\ AtWork(m))

\* The calls of Compile: which root is being loaded, and which are settled.
Root == CASE phase = "entry" -> Entry [] phase = "sqlite" -> "sqlite" [] OTHER -> "prelude"
Roots == IF phase = "sqlite" THEN {"prelude", Entry, "sqlite"} ELSE {"prelude", Entry}
SqlFound == \E m \in Asked(Program) : HasSql(Declarations(m))
Phases ==
    /\ phase = "index" => stack = <<>> /\ modules = {} /\ status = "loading"
    /\ stack # <<>> => stack[1].module = Root
    /\ stack = <<>> /\ phase # "index" => Settled(modules, Root) /\ Bridged(modules, Root)
    /\ phase \in {"entry", "sqlite"} => Settled(modules, "prelude")
    /\ phase = "sqlite" => Settled(modules, Entry) /\ SqlFound
    /\ status = "done" => stack = <<>> /\ (phase = "sqlite" \/ (phase = "entry" /\ ~NeedsSqlite))

\* Whatever has been recorded or called belongs to the program, and what Compile
\* fails for is a fault of the program.
Sound ==
    /\ modules \subseteq Reach(Roots)
    /\ \A i \in 1 .. Len(stack) : stack[i].module \in Reach(Roots)
    /\ status \in {"error", "panic"} => \E m \in Reach(Roots) \cap Available : Faulty(m)

NoCircle == ~HasCircle(modules \cap Files)

LoaderInv == LoaderTypeOK /\ Links /\ FramesOK /\ Recorded /\ Phases /\ Sound /\ NoCircle

-----------------------------------------------------------------------------
USE LoaderAssumption

(***************************************************************************)
(* Sequences and numbers.                                                   *)
(***************************************************************************)

\* Every set of numbers that is not empty has a smallest one.
LEMMA HasMin ==
  ASSUME NEW S \in SUBSET Nat, S # {}
  PROVE  \E x \in S : \A y \in S : x <= y
<1>1. IsWellFoundedOn(OpToRel(<, Nat), Nat)
  BY NatLessThanWellFounded
<1>2. PICK x \in S : \A y \in S : ~ (<<y, x>> \in OpToRel(<, Nat))
  BY <1>1, WFMin
<1>3. \A m, n \in Nat : m < n => <<m, n>> \in OpToRel(<, Nat)
  BY Zenon DEF OpToRel
<1>4. ASSUME NEW y \in S PROVE x <= y
  <2>1. x \in Nat /\ y \in Nat
    OBVIOUS
  <2>2. ~ (y < x)
    BY <1>2, <1>3, <2>1, Zenon
  <2>3. QED
    BY <2>1, <2>2
<1>5. QED
  BY <1>4

\* The elements of the front of a sequence.
LEMMA FrontFacts ==
  ASSUME NEW S, NEW s \in Seq(S), s # <<>>
  PROVE  /\ Len(s) \in Nat \ {0}
         /\ Front(s) \in Seq(S)
         /\ Len(Front(s)) = Len(s) - 1
         /\ \A i \in 1 .. Len(s) - 1 : Front(s)[i] = s[i]
<1>1. Len(s) \in Nat \ {0}
  BY EmptySeq, LenProperties
<1>2. \A i \in 1 .. Len(s) - 1 : s[i] \in S
  BY ElementOfSeq, <1>1
<1> DEFINE n == Len(s) - 1
<1>3. 1 \in Int /\ n \in Int /\ \A i \in 1 .. n : s[i] \in S
  BY <1>1, <1>2
<1>4. /\ SubSeq(s, 1, n) \in Seq(S)
      /\ Len(SubSeq(s, 1, n)) = IF 1 <= n THEN n - 1 + 1 ELSE 0
      /\ \A i \in 1 .. n - 1 + 1 : SubSeq(s, 1, n)[i] = s[1 + i - 1]
  BY <1>3, SubSeqProperties
<1>5. Front(s) = SubSeq(s, 1, n)
  BY DEF Front
<1>6. Len(Front(s)) = Len(s) - 1
  <2>1. \A k \in Nat : (IF 1 <= k THEN k - 1 + 1 ELSE 0) = k
    OBVIOUS
  <2>2. n \in Nat
    BY <1>1
  <2>3. QED
    BY <1>4, <1>5, <2>1, <2>2, Zenon
<1>7. ASSUME NEW i \in 1 .. Len(s) - 1 PROVE Front(s)[i] = s[i]
  <2>1. i \in 1 .. n - 1 + 1 /\ 1 + i - 1 = i
    BY <1>1
  <2>2. QED
    BY <1>4, <1>5, <2>1
<1>8. QED
  BY <1>1, <1>4, <1>5, <1>6, <1>7

\* The elements of a sequence whose last one has been replaced.
LEMMA ReplaceTopFacts ==
  ASSUME NEW S, NEW s \in Seq(S), s # <<>>, NEW e \in S
  PROVE  LET r == ReplaceAt(s, Len(s), e)
         IN  /\ r \in Seq(S) /\ Len(r) = Len(s)
             /\ r[Len(s)] = e
             /\ \A i \in 1 .. Len(s) - 1 : r[i] = s[i]
<1>1. Len(s) \in 1 .. Len(s)
  BY EmptySeq, LenProperties
<1>2. QED
  BY <1>1, ExceptSeq, LenProperties DEF ReplaceAt

(***************************************************************************)
(* The set of modules that Reach names.                                      *)
(***************************************************************************)

\* The library has no modules but those of the names.
LEMMA LibNames ==
  ASSUME places \in LibPlaces
  PROVE  Lib \subseteq Names
<1>1. places \in Seq(SUBSET Names)
  BY DiskAssumption
<1> DEFINE I == {i \in 1 .. Len(places) : IsLibDir(places[i])}
<1>2. CASE I = {}
  BY <1>2 DEF Lib, SelectInSeq
<1>3. CASE I # {}
  <2>1. I \in SUBSET Nat
    BY LenProperties
  <2>2. Min(I) \in I
    <3>1. \E x \in I : \A y \in I : x <= y
      BY HasMin, <1>3, <2>1
    <3>2. QED
      BY <3>1 DEF Min
  <2>3. SelectInSeq(places, IsLibDir) = Min(I)
    BY <1>3 DEF SelectInSeq
  <2>4. Lib = places[Min(I)]
    BY <2>2, <2>3 DEF Lib
  <2>5. Min(I) \in 1 .. Len(places)
    BY <2>2
  <2>6. places[Min(I)] \in SUBSET Names
    BY <2>5, <1>1, ElementOfSeq
  <2>7. QED
    BY <2>4, <2>6
<1>4. QED
  BY <1>2, <1>3

\* Reach(start) covers start, and is contained in every set that does.
LEMMA ReachFacts ==
  ASSUME places \in LibPlaces, NEW start \in SUBSET Modules
  PROVE  /\ Reach(start) \subseteq Modules
         /\ Covers(Reach(start), start)
         /\ \A S \in SUBSET Modules : Covers(S, start) => Reach(start) \subseteq S
<1> DEFINE R == {m \in Modules : \A S \in SUBSET Modules : Covers(S, start) => m \in S}
<1>1. \A m \in Modules : Needs(m) \subseteq Modules
  BY LibNames DEF Needs, Modules, Sources
<1>2. Covers(Modules, start)
  BY <1>1 DEF Covers
<1>3. Covers(R, start)
  <2>1. start \subseteq R
    BY DEF Covers
  <2>2. ASSUME NEW m \in R, NEW i \in Needs(m) PROVE i \in R
    BY <1>1, <2>2 DEF Covers
  <2>3. QED
    BY <2>1, <2>2 DEF Covers
<1>4. \A T \in SUBSET R : Covers(T, start) => T = R
  OBVIOUS
<1>5. \E S \in SUBSET Modules : Covers(S, start) /\ \A T \in SUBSET S : Covers(T, start) => T = S
  BY <1>3, <1>4
<1>6. /\ Reach(start) \in SUBSET Modules
      /\ Covers(Reach(start), start)
      /\ \A T \in SUBSET Reach(start) : Covers(T, start) => T = Reach(start)
  BY <1>5 DEF Reach
<1>7. R \subseteq Reach(start)
  BY <1>6
<1>8. R = Reach(start)
  BY <1>6, <1>7, <1>3
<1>9. QED
  BY <1>6, <1>8

\* Starting with more, more is reached.
LEMMA ReachMonotonic ==
  ASSUME places \in LibPlaces, NEW small, NEW large \in SUBSET Modules, small \subseteq large
  PROVE  Reach(small) \subseteq Reach(large)
<1>1. Reach(large) \in SUBSET Modules /\ Covers(Reach(large), large)
  BY ReachFacts
<1>2. Covers(Reach(large), small)
  BY <1>1 DEF Covers
<1>3. QED
  BY <1>1, <1>2, ReachFacts

\* What is on the disk stays as it is while the program is compiled.
LEMMA InputStays ==
  ASSUME [Next]_vars
  PROVE  disk' = disk /\ places' = places
BY DEF Next, vars, input, AlreadyLoaded, LoadBridge, NotInLibrary, ReadFails, ReadText, ReadBuiltin,
       ReadFile, FollowImport, Return, Compile, Finished

\* So what is said of the disk alone stays true.
LEMMA ReferenceStays ==
  ASSUME disk' = disk, places' = places
  PROVE  /\ Lib' = Lib /\ Available' = Available
         /\ \A m : Imports(m)' = Imports(m)
         /\ \A m : FileImports(m)' = FileImports(m)
         /\ \A S : HasCircle(S)' = HasCircle(S)
         /\ \A m : Faulty(m)' = Faulty(m)
         /\ \A m : Declarations(m)' = Declarations(m)
         /\ \A S : Reach(S)' = Reach(S)
         /\ Program' = Program /\ SqlFound' = SqlFound
<1>1. Lib' = Lib /\ Available' = Available
  BY DEF Lib, Available
<1>2. \A m : Imports(m)' = Imports(m)
  BY DEF Imports
<1>3. \A m : FileImports(m)' = FileImports(m)
  BY <1>2 DEF FileImports
<1>4. \A m : Needs(m)' = Needs(m)
  BY <1>1, <1>2 DEF Needs
<1>5. \A S, T : Covers(S, T)' = Covers(S, T)
  BY <1>4 DEF Covers
<1>6. \A S : Reach(S)' = Reach(S)
  BY <1>5 DEF Reach
<1>7. \A m : Declarations(m)' = Declarations(m)
  BY DEF Declarations
<1>8. Program' = Program
  BY <1>1, <1>6 DEF Program
<1>9. SqlFound' = SqlFound
  BY <1>7, <1>8 DEF SqlFound
<1>10. \A m : Faulty(m)' = Faulty(m)
  BY <1>1, <1>2 DEF Faulty
<1>11. \A S : HasCircle(S)' = HasCircle(S)
  BY <1>3 DEF HasCircle
<1>12. QED
  BY <1>1, <1>2, <1>3, <1>6, <1>7, <1>8, <1>9, <1>10, <1>11

(***************************************************************************)
(* The stack.                                                               *)
(***************************************************************************)

\* The running call is the last of the stack.
LEMMA TopFacts ==
  ASSUME stack \in Seq(Frames), stack # <<>>
  PROVE  /\ Len(stack) \in Nat \ {0}
         /\ Top = stack[Len(stack)]
         /\ \A i \in 1 .. Len(stack) : stack[i] \in Frames
         /\ Top \in Frames
<1>1. Len(stack) \in Nat \ {0}
  BY EmptySeq, LenProperties
<1>2. \A i \in 1 .. Len(stack) : stack[i] \in Frames
  BY ElementOfSeq
<1>3. QED
  BY <1>1, <1>2 DEF Top, Last

\* A call puts a frame on a stack, or exhausts it.
LEMMA CallFacts ==
  ASSUME NEW frames \in Seq(Frames), NEW m \in Modules, Call(frames, m)
  PROVE  \/ /\ status' = status
            /\ stack' \in Seq(Frames)
            /\ Len(stack') = Len(frames) + 1
            /\ \A i \in 1 .. Len(frames) : stack'[i] = frames[i]
            /\ stack'[Len(frames) + 1] = Frame(m)
         \/ status' = "overflow" /\ stack' = stack /\ ~ (Len(frames) < MaxDepth)
<1>1. Frame(m) \in Frames
  BY DEF Frame, Frames
<1>2. CASE Len(frames) < MaxDepth
  BY <1>1, <1>2, AppendProperties DEF Call
<1>3. CASE ~ (Len(frames) < MaxDepth)
  BY <1>3 DEF Call
<1>4. QED
  BY <1>2, <1>3

\* What the running call becomes when it goes on.
LEMMA GotoFacts ==
  ASSUME stack \in Seq(Frames), stack # <<>>
  PROVE  /\ \A at \in {"enter", "read", "imports"} :
                /\ [Top EXCEPT !.at = at] \in Frames
                /\ [Top EXCEPT !.at = at].module = Top.module
                /\ [Top EXCEPT !.at = at].at = at
                /\ [Top EXCEPT !.at = at].next = Top.next
         /\ [Top EXCEPT !.next = @ + 1] \in Frames
         /\ [Top EXCEPT !.next = @ + 1].module = Top.module
         /\ [Top EXCEPT !.next = @ + 1].at = Top.at
         /\ [Top EXCEPT !.next = @ + 1].next = Top.next + 1
<1>1. Top \in Frames
  BY TopFacts
<1>2. QED
  BY <1>1, SMTT(60) DEF Frames

-----------------------------------------------------------------------------
(***************************************************************************)
(* The steps, by what they do to the stack.                                 *)
(***************************************************************************)

\* A call returns: what it was called for is settled.
Returned ==
    /\ status = "loading" /\ stack # <<>>
    /\ UNCHANGED <<disk, places, phase, status>>
    /\ stack' = Pop
    /\ modules \subseteq modules' /\ modules' \subseteq (modules \cup {Top.module}) \cap Available
    /\ Settled(modules', Top.module) /\ Bridged(modules', Top.module)
    /\ Top.at = "imports" => ToSet(Imports(Top.module)) \subseteq modules'
    /\ Top.module \in modules' \ modules =>
           ~disk[Top.module].bad /\ ToSet(Imports(Top.module)) \subseteq modules

\* The running call becomes e and calls for the module m.
Called(e, m) ==
    /\ status = "loading" /\ stack # <<>>
    /\ UNCHANGED <<disk, places, modules, phase>>
    /\ e \in Frames /\ m \in Modules
    /\ e.module = Top.module
    /\ Call(ReplaceAt(stack, Len(stack), e), m)
    /\ \/ /\ Top.at = "enter" /\ Top.module \notin modules /\ e.at = "read" /\ e.next = 1
          /\ m = "interop" /\ e.module \in Names /\ NeedsHostBridge(e.module)
       \/ /\ Top.at = "imports" /\ e.at = "imports" /\ e.next = Top.next + 1
          /\ Top.next <= Len(Imports(Top.module))
          /\ m = Imports(Top.module)[Top.next] /\ m \in Available

\* The running call goes on as e, before its imports.
WentOn(e) ==
    /\ status = "loading" /\ stack # <<>>
    /\ UNCHANGED <<disk, places, phase, status>>
    /\ e \in Frames /\ e.module = Top.module /\ e.next = 1 /\ Bridged(modules, e.module)
    /\ stack' = ReplaceAt(stack, Len(stack), e)
    /\ Top.at # "imports"
    /\ Top.at = "enter" => e.at = "read" /\ Top.module \notin modules
    /\ \/ e.at = "read" /\ modules' = modules
       \/ /\ e.at = "imports" /\ e.module \in Available /\ ~disk[e.module].bad
          /\ modules' = IF e.module \in Names THEN modules \cup {e.module} ELSE modules

\* Compile stops, for a fault of the running call.
Stopped ==
    /\ UNCHANGED <<disk, places, phase, modules, stack>>
    /\ \/ status' = status
       \/ /\ status = "loading" /\ stack # <<>> /\ status' \in {"error", "panic"}
          /\ Top.module \in Available /\ Faulty(Top.module)

\* Every step is one of these, or a step of Compile itself.
LEMMA Steps ==
  ASSUME LoaderInv, [Next]_vars
  PROVE  \/ Returned
         \/ \E e \in Frames, m \in Modules : Called(e, m)
         \/ \E e \in Frames : WentOn(e)
         \/ Compile
         \/ Stopped
<1> USE DEF LoaderInv, LoaderTypeOK, input
<1>a. Lib \subseteq Names
  BY LibNames
<1>b. /\ disk' = disk /\ places' = places /\ Lib' = Lib /\ Available' = Available
      /\ \A m : Imports(m)' = Imports(m)
  BY InputStays, ReferenceStays
<1>c. ASSUME stack # <<>>
      PROVE  /\ Top \in Frames /\ Top = stack[Len(stack)] /\ Len(stack) \in Nat \ {0}
             /\ Len(stack) \in 1 .. Len(stack)
  BY <1>c, TopFacts
<1>1. CASE AlreadyLoaded
  <2>1. Top.module \in modules /\ stack # <<>> /\ Top.at = "enter"
    BY <1>1 DEF AlreadyLoaded, Running
  <2>2. Bridged(modules, Top.module)
    BY <2>1 DEF Recorded
  <2>3. Settled(modules', Top.module) /\ Bridged(modules', Top.module)
    BY <1>1, <1>b, <2>1, <2>2 DEF AlreadyLoaded, Settled, Bridged
  <2>4. Returned
    BY <1>1, <2>1, <2>3 DEF Returned, AlreadyLoaded, Running, Available
  <2>5. QED
    BY <2>4
<1>2. CASE LoadBridge
  <2>1. stack # <<>> /\ Top.at = "enter" /\ Top.module \notin modules /\ status = "loading"
    BY <1>2 DEF LoadBridge, Running
  <2> DEFINE e == [Top EXCEPT !.at = "read"]
  <2>2. e \in Frames /\ e.module = Top.module /\ e.at = "read" /\ e.next = Top.next
    BY <2>1, GotoFacts
  <2>3. Top.next = 1
    BY <1>c, <2>1 DEF FramesOK
  <2>4. CASE Top.module \in Names /\ NeedsHostBridge(Top.module)
    <3>1. Call(ReplaceAt(stack, Len(stack), e), "interop") /\ modules' = modules /\ phase' = phase
      BY <1>2, <2>4 DEF LoadBridge, Goto
    <3>2. Called(e, "interop")
      BY <1>b, <2>1, <2>2, <2>3, <2>4, <3>1 DEF Called, Modules
    <3>3. QED
      BY <2>2, <3>2 DEF Modules
  <2>5. CASE ~ (Top.module \in Names /\ NeedsHostBridge(Top.module))
    <3>1. Bridged(modules, e.module)
      BY <2>2, <2>5 DEF Bridged
    <3>2. stack' = ReplaceAt(stack, Len(stack), e) /\ modules' = modules /\ phase' = phase /\ status' = status
      BY <1>2, <2>5 DEF LoadBridge, Goto
    <3>3. WentOn(e)
      BY <1>b, <2>1, <2>2, <2>3, <3>1, <3>2 DEF WentOn
    <3>4. QED
      BY <2>2, <3>3
  <2>6. QED
    BY <2>4, <2>5
<1>d. ASSUME Running("read")
      PROVE  /\ stack # <<>> /\ Top.at = "read" /\ Top.next = 1 /\ Bridged(modules, Top.module) /\ status = "loading"
  BY <1>c, <1>d DEF Running, FramesOK
<1>3. CASE NotInLibrary
  <2>1. Top.module \notin Available /\ Running("read")
    BY <1>3, LoaderAssumption DEF NotInLibrary, Available
  <2>2. Settled(modules', Top.module) /\ Bridged(modules', Top.module)
    BY <1>3, <1>b, <1>d, <2>1 DEF NotInLibrary, Settled, Bridged
  <2>3. Returned
    BY <1>3, <1>d, <2>1, <2>2 DEF Returned, NotInLibrary, Available
  <2>4. QED
    BY <2>3
<1>4. CASE ReadFails
  BY <1>4, <1>d DEF ReadFails, Stopped, Faulty, Available
<1>5. CASE ReadText
  <2>1. Top.module \in Available /\ Running("read") /\ Top.module \notin Names
    BY <1>5 DEF ReadText, Available, Sources
  <2>2. Settled(modules', Top.module) /\ Bridged(modules', Top.module)
    BY <1>5, <2>1 DEF ReadText, Settled, Bridged
  <2>3. ToSet(Imports(Top.module)) = {}
    BY <1>5 DEF ReadText, Imports, ToSet
  <2>4. Returned
    BY <1>5, <1>d, <2>1, <2>2, <2>3 DEF Returned, ReadText, Available
  <2>5. QED
    BY <2>4
<1>6. CASE ReadBuiltin \/ ReadFile
  <2> DEFINE e == [Top EXCEPT !.at = "imports"]
  <2>1. Running("read")
    BY <1>6 DEF ReadBuiltin, ReadFile
  <2>2. e \in Frames /\ e.module = Top.module /\ e.at = "imports" /\ e.next = Top.next
    BY <2>1, <1>d, GotoFacts
  <2>3. /\ Top.module \in Available /\ ~disk[Top.module].bad
        /\ modules' = IF Top.module \in Names THEN modules \cup {Top.module} ELSE modules
        /\ stack' = ReplaceAt(stack, Len(stack), e)
        /\ phase' = phase /\ status' = status
    BY <1>6 DEF ReadBuiltin, ReadFile, Available, Sources, Goto
  <2>4. WentOn(e)
    BY <1>b, <1>d, <2>1, <2>2, <2>3 DEF WentOn
  <2>5. QED
    BY <2>2, <2>4
<1>7. CASE FollowImport
  <2> DEFINE m == Imports(Top.module)[Top.next]
             e == [Top EXCEPT !.next = @ + 1]
  <2>1. stack # <<>> /\ Top.at = "imports" /\ status = "loading"
    BY <1>7 DEF FollowImport, Running
  <2>2. Top.module \in Available
    BY <1>c, <2>1 DEF FramesOK, Follows
  <2>3. CASE m \in Available
    <3>1. Call(ReplaceAt(stack, Len(stack), e), m) /\ modules' = modules /\ phase' = phase
      BY <1>7, <2>3 DEF FollowImport, AfterImport, Available
    <3>2. e \in Frames /\ e.module = Top.module /\ e.at = "imports" /\ e.next = Top.next + 1
      BY <2>1, GotoFacts
    <3>3. m \in Modules
      BY <1>a, <2>3 DEF Available, Modules
    <3>4. Called(e, m)
      BY <1>7, <1>b, <2>1, <2>3, <3>1, <3>2, <3>3 DEF FollowImport, Called
    <3>5. QED
      BY <3>2, <3>3, <3>4
  <2>4. CASE m \notin Available
    <3>1. m \in ToSet(Imports(Top.module))
      <4>1. Imports(Top.module) \in Seq(STRING)
        <5>1. Top.module \in Modules
          BY <1>c, <2>1 DEF Frames
        <5>2. QED
          BY <5>1, DiskAssumption, EmptySeq DEF Imports
      <4>2. Top.next \in 1 .. Len(Imports(Top.module))
        BY <1>7, <1>c, <2>1, <4>1, LenProperties DEF FollowImport, Frames
      <4>3. QED
        BY <4>1, <4>2, LenProperties DEF ToSet
    <3>2. Faulty(Top.module)
      BY <2>4, <3>1 DEF Faulty, Available
    <3>3. status' \in {"error", "panic"} /\ stack' = stack /\ modules' = modules /\ phase' = phase
      BY <1>7, <2>4 DEF FollowImport, Available
    <3>4. QED
      BY <1>b, <2>1, <2>2, <3>2, <3>3 DEF Stopped
  <2>5. QED
    BY <2>3, <2>4
<1>8. CASE Return
  <2>1. stack # <<>> /\ Top.at = "imports" /\ status = "loading"
    BY <1>8 DEF Return, Running
  <2>2. Follows(Len(stack))
    BY <1>c, <2>1 DEF FramesOK
  <2>3. Top.module \in Available /\ ~disk[Top.module].bad /\ Bridged(modules, Top.module)
    BY <1>c, <2>1, <2>2 DEF Follows
  <2>4. Settled(modules', Top.module) /\ Bridged(modules', Top.module)
    BY <1>8, <1>b, <2>3 DEF Return, Settled, Bridged
  <2>5. ToSet(Imports(Top.module)) \subseteq modules
    <3>1. Imports(Top.module) \in Seq(STRING)
      <4>1. Top.module \in Modules
        BY <1>c, <2>1 DEF Frames
      <4>2. QED
        BY <4>1, DiskAssumption, EmptySeq DEF Imports
    <3>2. \A k \in 1 .. Len(Imports(Top.module)) : Imports(Top.module)[k] \in modules
      BY <1>8, <1>c, <2>1, <2>2, <3>1, LenProperties DEF Return, Follows, Frames
    <3>3. QED
      BY <3>1, <3>2, LenProperties DEF ToSet
  <2>6. Returned
    BY <1>8, <2>1, <2>3, <2>4, <2>5 DEF Return, Returned, Available
  <2>7. QED
    BY <2>6
<1>9. CASE Finished \/ UNCHANGED vars
  BY <1>9 DEF Finished, Stopped, vars
<1>10. QED
  BY <1>1, <1>2, <1>3, <1>4, <1>5, <1>6, <1>7, <1>8, <1>9 DEF Next

-----------------------------------------------------------------------------
\* A file that is recorded after all it imports closes no circle.
LEMMA NoCircleStep ==
  ASSUME Recorded, NoCircle, disk' = disk, places' = places, NEW x,
         modules \subseteq modules', modules' \subseteq modules \cup {x},
         x \in (modules' \ modules) \cap Files => ToSet(Imports(x)) \subseteq modules,
         Files \cap Names = {}
  PROVE  NoCircle'
<1>1. SUFFICES ASSUME HasCircle(modules' \cap Files) PROVE FALSE
  BY ReferenceStays DEF NoCircle
<1>2. PICK C \in SUBSET (modules' \cap Files) \ {{}} : \A f \in C : FileImports(f) \cap C # {}
  BY <1>1 DEF HasCircle
<1>3. ~ (C \subseteq modules)
  BY <1>2 DEF NoCircle, HasCircle
<1>4. x \in C /\ x \in (modules' \ modules) \cap Files
  BY <1>2, <1>3
<1>5. \A f \in C : x \notin FileImports(f)
  <2>1. \A f \in modules \cap Files : ToSet(Imports(f)) \subseteq modules
    BY DEF Recorded
  <2>2. QED
    BY <1>2, <1>4, <2>1 DEF FileImports
<1> DEFINE D == C \ {x}
<1>6. \A f \in C : FileImports(f) \cap D # {}
  BY <1>2, <1>5
<1>7. D # {} /\ D \subseteq modules \cap Files
  BY <1>2, <1>4, <1>6
<1>8. QED
  BY <1>6, <1>7 DEF NoCircle, HasCircle

\* What is settled stays settled when more is recorded.
LEMMA SettledStays ==
  ASSUME NEW ms, NEW more, ms \subseteq more, NEW m
  PROVE  /\ Settled(ms, m) => Settled(more, m)
         /\ Bridged(ms, m) => Bridged(more, m)
BY DEF Settled, Bridged

\* A call that returns leaves the frame below with one import less to wait for.
LEMMA ReturnedStep ==
  ASSUME LoaderInv, Returned
  PROVE  LoaderInv'
<1> USE DEF LoaderInv, LoaderTypeOK
<1> DEFINE n == Len(stack)
<1>1. disk' = disk /\ places' = places /\ phase' = phase /\ status' = status /\ status = "loading"
  BY DEF Returned
<1>2. /\ Lib' = Lib /\ Available' = Available /\ SqlFound' = SqlFound
      /\ \A m : Imports(m)' = Imports(m)
      /\ \A m : Faulty(m)' = Faulty(m)
      /\ \A S : Reach(S)' = Reach(S)
  BY <1>1, ReferenceStays
<1>3. /\ n \in Nat \ {0} /\ Top = stack[n] /\ \A i \in 1 .. n : stack[i] \in Frames
      /\ stack' \in Seq(Frames) /\ Len(stack') = n - 1 /\ \A i \in 1 .. n - 1 : stack'[i] = stack[i]
  BY TopFacts, FrontFacts DEF Returned, Pop
<1>4. /\ modules \subseteq modules' /\ modules' \subseteq (modules \cup {Top.module}) \cap Available
      /\ Settled(modules', Top.module) /\ Bridged(modules', Top.module)
      /\ Top.at = "imports" => ToSet(Imports(Top.module)) \subseteq modules'
      /\ Top.module \in modules' \ modules =>
             ~disk[Top.module].bad /\ ToSet(Imports(Top.module)) \subseteq modules
  BY DEF Returned
<1>5. LoaderTypeOK'
  BY <1>1, <1>2, <1>3, <1>4 DEF Available
<1>6. Links'
  BY <1>2, <1>3 DEF Links
<1>7. FramesOK'
  <2> SUFFICES ASSUME NEW i \in 1 .. n - 1
               PROVE  /\ stack[i].at = "imports" => Follows(i)'
                      /\ stack[i].at # "enter"
                      /\ stack[i].at = "read" =>
                             stack[i].next = 1 /\ (i = n - 1 => Bridged(modules', stack[i].module))
    BY <1>2, <1>3 DEF FramesOK, Bridged, Settled
  <2>1. i \in 1 .. n /\ i # n /\ i + 1 \in 1 .. n /\ stack'[i] = stack[i]
    BY <1>3
  <2>2. stack[i].at # "enter"
    BY <2>1 DEF FramesOK
  <2>3. ASSUME stack[i].at = "imports" PROVE Follows(i)'
    <3>1. Follows(i)
      BY <2>1, <2>3 DEF FramesOK
    <3>2. Bridged(modules', stack[i].module)
      BY <1>4, <3>1, SettledStays DEF Follows
    <3>3. ASSUME NEW k \in 1 .. stack[i].next - 1
          PROVE  /\ Imports(stack[i].module)[k] \in Available
                 /\ Imports(stack[i].module)[k] \in modules' \/ (i < n - 1 /\ k = stack[i].next - 1)
      <4>1. /\ Imports(stack[i].module)[k] \in Available
            /\ Imports(stack[i].module)[k] \in modules \/ k = stack[i].next - 1
        BY <3>1 DEF Follows
      <4>2. CASE i = n - 1 /\ k = stack[i].next - 1
        <5>1. Top.module = Imports(stack[i].module)[k]
          BY <1>3, <2>3, <4>2 DEF Links
        <5>2. QED
          BY <1>4, <4>1, <5>1 DEF Settled
      <4>3. QED
        BY <1>3, <1>4, <4>1, <4>2
    <3>4. QED
      BY <1>1, <1>2, <1>3, <1>4, <2>1, <3>1, <3>2, <3>3 DEF Follows, Bridged, Settled
  <2>4. ASSUME stack[i].at = "read"
        PROVE  stack[i].next = 1 /\ (i = n - 1 => Bridged(modules', stack[i].module))
    <3>1. stack[i].next = 1
      BY <2>1, <2>4 DEF FramesOK
    <3>2. ASSUME i = n - 1 PROVE Bridged(modules', stack[i].module)
      <4>1. Top.module = "interop"
        BY <1>3, <2>4, <3>2 DEF Links
      <4>2. QED
        BY <1>4, <4>1 DEF Bridged
    <3>3. QED
      BY <3>1, <3>2
  <2>5. QED
    BY <2>2, <2>3, <2>4
<1>8. Recorded'
  <2> SUFFICES ASSUME NEW m \in modules'
               PROVE  /\ ~disk[m].bad
                      /\ Bridged(modules', m)
                      /\ ToSet(Imports(m)) \subseteq modules' \/ (m \in Names /\ AtWork(m)')
    BY <1>1, <1>2 DEF Recorded, Bridged, Settled
  <2>1. CASE m \in modules
    <3>1. ~disk[m].bad /\ Bridged(modules', m)
      BY <1>4, <2>1, SettledStays DEF Recorded
    <3>2. CASE ToSet(Imports(m)) \subseteq modules
      BY <1>4, <3>1, <3>2
    <3>3. CASE m \in Names /\ AtWork(m)
      <4>1. PICK i \in 1 .. n : stack[i].module = m /\ stack[i].at = "imports"
        BY <3>3 DEF AtWork
      <4>2. CASE i = n
        BY <1>3, <1>4, <3>1, <4>1, <4>2
      <4>3. CASE i # n
        BY <1>3, <3>1, <3>3, <4>1, <4>3 DEF AtWork
      <4>4. QED
        BY <4>2, <4>3
    <3>4. QED
      BY <2>1, <3>2, <3>3 DEF Recorded
  <2>2. CASE m \notin modules
    BY <1>4, <2>2
  <2>3. QED
    BY <2>1, <2>2
<1>9. Phases'
  <2>1. stack # <<>> /\ phase # "index" /\ status' # "done" /\ Root' = Root
    BY <1>1 DEF Returned, Phases, Root
  <2>2. stack' # <<>> => stack'[1].module = Root
    <3>1. ASSUME stack' # <<>> PROVE 1 \in 1 .. n - 1
      BY <1>3, <3>1, EmptySeq, LenProperties
    <3>2. QED
      BY <1>3, <2>1, <3>1 DEF Phases
  <2>3. stack' = <<>> => Settled(modules', Root) /\ Bridged(modules', Root)
    <3>1. ASSUME stack' = <<>> PROVE n = 1
      BY <1>3, <3>1
    <3>2. QED
      BY <1>3, <1>4, <2>1, <3>1 DEF Phases
  <2>4. /\ phase \in {"entry", "sqlite"} => Settled(modules', "prelude")
        /\ phase = "sqlite" => Settled(modules', Entry) /\ SqlFound
    BY <1>4, SettledStays DEF Phases
  <2>5. QED
    BY <1>1, <1>2, <2>1, <2>2, <2>3, <2>4 DEF Phases, Settled, Bridged
<1>10. Sound'
  <2>1. Top.module \in Reach(Roots) /\ Reach(Roots)' = Reach(Roots)
    <3>1. Roots' = Roots
      BY <1>1 DEF Roots
    <3>2. n \in 1 .. Len(stack)
      BY <1>3
    <3>3. QED
      BY <1>2, <1>3, <3>1, <3>2 DEF Sound
  <2>2. modules' \subseteq Reach(Roots)
    BY <1>4, <2>1 DEF Sound
  <2>3. \A i \in 1 .. Len(stack') : stack'[i].module \in Reach(Roots)
    BY <1>3 DEF Sound
  <2>4. QED
    BY <1>1, <2>1, <2>2, <2>3 DEF Sound
<1>11. NoCircle'
  BY <1>1, <1>4, NoCircleStep DEF Sources
<1>12. QED
  BY <1>5, <1>6, <1>7, <1>8, <1>9, <1>10, <1>11

\* A step that changes nothing but the status.
LEMMA UnmovedStep ==
  ASSUME LoaderInv, UNCHANGED <<disk, places, phase, modules, stack>>,
         status' \in {"loading", "done", "error", "panic", "overflow"},
         phase = "index" => status' = "loading",
         status' = "done" => stack = <<>> /\ (phase = "sqlite" \/ (phase = "entry" /\ ~NeedsSqlite)),
         status' \in {"error", "panic"} => \E m \in Reach(Roots) \cap Available : Faulty(m)
  PROVE  LoaderInv'
<1>1. /\ disk' = disk /\ places' = places /\ phase' = phase /\ modules' = modules /\ stack' = stack
  OBVIOUS
<1>2. /\ Lib' = Lib /\ Available' = Available /\ SqlFound' = SqlFound
      /\ \A m : Imports(m)' = Imports(m)
      /\ \A m : Faulty(m)' = Faulty(m)
      /\ \A m : Declarations(m)' = Declarations(m)
      /\ \A S : Reach(S)' = Reach(S)
      /\ \A S : HasCircle(S)' = HasCircle(S)
  BY ReferenceStays
<1>3. LoaderTypeOK'
  BY <1>1, <1>2 DEF LoaderInv, LoaderTypeOK
<1>4. Links' /\ FramesOK' /\ Recorded'
  BY <1>1, <1>2 DEF LoaderInv, Links, FramesOK, Follows, Recorded, AtWork, Bridged, Settled
<1>5. Phases'
  <2>1. NeedsSqlite' = NeedsSqlite /\ Root' = Root
    BY <1>1, <1>2 DEF NeedsSqlite, Root
  <2>2. QED
    BY <1>1, <1>2, <2>1 DEF LoaderInv, Phases, Bridged, Settled
<1>6. Sound'
  <2>1. Roots' = Roots
    BY <1>1 DEF Roots
  <2>2. Reach(Roots)' = Reach(Roots)
    BY <1>2, <2>1
  <2>3. QED
    BY <1>1, <1>2, <2>2 DEF LoaderInv, Sound
<1>7. NoCircle'
  BY <1>1, <1>2 DEF LoaderInv, NoCircle
<1>8. QED
  BY <1>3, <1>4, <1>5, <1>6, <1>7 DEF LoaderInv

\* What a call in the program calls for is in the program.
LEMMA NeededIsReached ==
  ASSUME places \in LibPlaces, NEW m \in Reach(Roots), NEW i \in Needs(m)
  PROVE  i \in Reach(Roots)
<1>1. Roots \in SUBSET Modules
  BY DEF Roots, Modules, Sources
<1>2. Covers(Reach(Roots), Roots)
  BY <1>1, ReachFacts
<1>3. QED
  BY <1>2 DEF Covers

\* A call waits for the one it makes, and knows what it will have settled.
LEMMA CalledStep ==
  ASSUME LoaderInv, NEW e \in Frames, NEW m \in Modules, Called(e, m)
  PROVE  LoaderInv'
<1> USE DEF LoaderInv, LoaderTypeOK
<1> DEFINE n == Len(stack)
<1>1. disk' = disk /\ places' = places /\ phase' = phase /\ modules' = modules /\ status = "loading" /\ stack # <<>>
  BY DEF Called
<1>2. /\ Lib' = Lib /\ Available' = Available /\ SqlFound' = SqlFound
      /\ \A x : Imports(x)' = Imports(x)
      /\ \A x : Faulty(x)' = Faulty(x)
      /\ \A S : Reach(S)' = Reach(S)
      /\ \A S : HasCircle(S)' = HasCircle(S)
  BY <1>1, ReferenceStays
<1>3. n \in Nat \ {0} /\ n \in 1 .. n /\ Top = stack[n] /\ \A i \in 1 .. n : stack[i] \in Frames
  BY <1>1, TopFacts
<1> DEFINE r == ReplaceAt(stack, n, e)
<1>4. /\ r \in Seq(Frames) /\ Len(r) = n /\ r[n] = e
      /\ \A i \in 1 .. n - 1 : r[i] = stack[i]
  BY <1>1, ReplaceTopFacts
<1>5. CASE status' = "overflow" /\ stack' = stack
  <2>1. phase # "index"
    BY <1>1 DEF Phases
  <2>2. QED
    BY <1>1, <1>5, <2>1, UnmovedStep
<1>6. CASE /\ status' = status
           /\ stack' \in Seq(Frames)
           /\ Len(stack') = Len(r) + 1
           /\ \A i \in 1 .. Len(r) : stack'[i] = r[i]
           /\ stack'[Len(r) + 1] = Frame(m)
  <2>1. /\ Len(stack') = n + 1 /\ stack'[n + 1] = Frame(m) /\ stack'[n] = e
        /\ \A i \in 1 .. n - 1 : stack'[i] = stack[i]
    BY <1>3, <1>4, <1>6, SMTT(60)
  <2>2. Frame(m).module = m /\ Frame(m).at = "enter" /\ Frame(m).next = 1
    BY DEF Frame
  <2>3. e.module = Top.module
    BY DEF Called
  <2>5. \/ Top.at = "enter" /\ e.at = "read" /\ e.next = 1 /\ m = "interop" /\ e.module \in Names /\ NeedsHostBridge(e.module)
        \/ /\ Top.at = "imports" /\ e.at = "imports" /\ e.next = Top.next + 1
           /\ Top.next <= Len(Imports(Top.module))
           /\ m = Imports(Top.module)[Top.next] /\ m \in Available
    BY DEF Called
  <2>6. LoaderTypeOK'
    BY <1>1, <1>2, <1>6
  <2>7. Links'
    <3> SUFFICES ASSUME NEW i \in 1 .. n
                 PROVE  LET f == stack'[i]
                            g == stack'[i + 1]
                        IN  \/ f.at = "read" /\ f.module \in Names /\ NeedsHostBridge(f.module) /\ g.module = "interop"
                            \/ f.at = "imports" /\ f.next > 1 /\ g.module = Imports(f.module)[f.next - 1]
      BY <1>2, <1>3, <2>1 DEF Links
    <3>1. CASE i < n - 1
      <4>1. i \in 1 .. n - 1 /\ i + 1 \in 1 .. n - 1
        BY <1>3, <3>1
      <4>2. stack'[i] = stack[i] /\ stack'[i + 1] = stack[i + 1]
        BY <2>1, <4>1
      <4>3. QED
        BY <4>1, <4>2 DEF Links
    <3>2. CASE i = n - 1
      <4>1. i \in 1 .. n - 1 /\ i + 1 = n
        BY <1>3, <3>2
      <4>2. stack'[i] = stack[i] /\ stack'[i + 1].module = stack[i + 1].module
        BY <1>3, <2>1, <2>3, <4>1
      <4>3. QED
        BY <4>1, <4>2 DEF Links
    <3>3. CASE i = n
      <4>1. Top.next \in Nat \ {0}
        BY <1>3 DEF Frames
      <4>2. e.at = "imports" => e.next > 1 /\ e.next - 1 = Top.next
        BY <2>5, <4>1
      <4>3. QED
        BY <2>1, <2>2, <2>3, <2>5, <3>3, <4>2
    <3>4. QED
      BY <1>3, <3>1, <3>2, <3>3
  <2>8. FramesOK'
    <3> SUFFICES ASSUME NEW i \in 1 .. n + 1
                 PROVE  /\ stack'[i].at = "imports" => Follows(i)'
                        /\ stack'[i].at = "enter" => stack'[i].next = 1 /\ i = n + 1
                        /\ stack'[i].at = "read" =>
                               stack'[i].next = 1 /\ (i = n + 1 => Bridged(modules', stack'[i].module))
      BY <1>2, <1>3, <2>1 DEF FramesOK, Bridged, Settled
    <3>1. CASE i \in 1 .. n - 1
      <4>1. i \in 1 .. n /\ i # n /\ stack'[i] = stack[i]
        BY <1>3, <2>1, <3>1
      <4>2. Follows(i) => Follows(i)'
        BY <1>1, <1>2, <1>3, <2>1, <3>1, <4>1 DEF Follows, Bridged, Settled
      <4>3. QED
        BY <1>3, <4>1, <4>2 DEF FramesOK
    <3>2. CASE i = n
      <4>1. CASE e.at = "read"
        BY <1>3, <2>1, <2>5, <3>2, <4>1
      <4>2. CASE e.at = "imports"
        <5>1. /\ Top.at = "imports" /\ e.next = Top.next + 1 /\ Top.next <= Len(Imports(Top.module))
              /\ Imports(Top.module)[Top.next] \in Available
          BY <2>5, <4>2
        <5>2. Follows(n)
          BY <1>3, <5>1 DEF FramesOK
        <5>3. Top.next \in Nat \ {0}
          BY <1>3 DEF Frames
        <5>4. \A k \in 1 .. Top.next - 1 : /\ Imports(Top.module)[k] \in Available
                                            /\ Imports(Top.module)[k] \in modules
          BY <1>3, <5>2 DEF Follows
        <5>5. \A k \in 1 .. e.next - 1 : k \in 1 .. Top.next - 1 \/ k = Top.next
          BY <5>1, <5>3
        <5>6. \A k \in 1 .. e.next - 1 :
                 /\ Imports(Top.module)[k] \in Available
                 /\ Imports(Top.module)[k] \in modules \/ (n < n + 1 /\ k = e.next - 1)
          BY <1>3, <5>1, <5>3, <5>4, <5>5
        <5>7. e.next <= Len(Imports(Top.module)) + 1
          <6>1. Imports(Top.module) \in Seq(STRING)
            BY <1>3, DiskAssumption, EmptySeq DEF Imports, Frames
          <6>2. Len(Imports(Top.module)) \in Nat
            BY <6>1, LenProperties
          <6>3. QED
            BY <5>1, <5>3, <6>2
        <5>8. /\ Top.module \in Available /\ ~disk[Top.module].bad
              /\ Top.module \in Names => Top.module \in modules
              /\ Bridged(modules, Top.module)
          BY <1>3, <5>2 DEF Follows
        <5>9. Follows(i)'
          BY <1>1, <1>2, <2>1, <2>3, <3>2, <5>6, <5>7, <5>8 DEF Follows, Bridged, Settled
        <5>10. QED
          BY <2>1, <3>2, <4>2, <5>9
      <4>3. QED
        BY <2>5, <4>1, <4>2
    <3>3. CASE i = n + 1
      BY <2>1, <2>2, <3>3
    <3>4. QED
      BY <1>3, <3>1, <3>2, <3>3
  <2>9. Recorded'
    <3> SUFFICES ASSUME NEW x \in modules PROVE AtWork(x) => AtWork(x)'
      BY <1>1, <1>2 DEF Recorded, Bridged, Settled
    <3>1. SUFFICES ASSUME NEW i \in 1 .. n, stack[i].module = x, stack[i].at = "imports"
                   PROVE  AtWork(x)'
      BY DEF AtWork
    <3>2. CASE i = n
      <4>1. e.at = "imports" /\ stack'[n] = e /\ e.module = x
        <5>1. Top.at = "imports" /\ Top.module = x
          BY <1>3, <3>1, <3>2
        <5>2. e.at = "imports"
          BY <2>5, <5>1
        <5>3. QED
          BY <2>1, <2>3, <5>1, <5>2
      <4>2. n \in 1 .. Len(stack')
        BY <1>3, <2>1
      <4>3. QED
        BY <4>1, <4>2 DEF AtWork
    <3>3. CASE i # n
      <4>1. i \in 1 .. Len(stack') /\ stack'[i] = stack[i]
        BY <1>3, <2>1, <3>3
      <4>2. QED
        BY <3>1, <4>1 DEF AtWork
    <3>4. QED
      BY <3>2, <3>3
  <2>10. Phases'
    BY <1>1, <1>2, <1>3, <1>6, <2>1, <2>2, <2>3 DEF Phases, Root, Bridged, Settled
  <2>11. Sound'
    <3>1. Roots' = Roots
      BY <1>1 DEF Roots
    <3>2. Top.module \in Reach(Roots)
      BY <1>3 DEF Sound
    <3>3. m \in Needs(Top.module)
      <4>1. CASE e.at = "read"
        BY <2>3, <2>5, <4>1 DEF Needs
      <4>2. CASE e.at = "imports"
        <5>1. Top.module \in Available
          BY <1>3, <2>5, <4>2 DEF FramesOK, Follows
        <5>2. Imports(Top.module) \in Seq(STRING)
          BY <1>3, DiskAssumption, EmptySeq DEF Imports, Frames
        <5>3. Top.next \in 1 .. Len(Imports(Top.module))
          BY <1>3, <2>5, <4>2, <5>2, LenProperties DEF Frames
        <5>4. m \in ToSet(Imports(Top.module))
          BY <2>5, <4>2, <5>2, <5>3, LenProperties DEF ToSet
        <5>5. QED
          BY <2>5, <4>2, <5>1, <5>4 DEF Needs, Available
      <4>3. QED
        BY <2>5, <4>1, <4>2
    <3>4. m \in Reach(Roots)
      BY <3>2, <3>3, NeededIsReached
    <3>5. QED
      BY <1>1, <1>2, <1>3, <1>6, <2>1, <2>2, <2>3, <3>1, <3>2, <3>4 DEF Sound
  <2>12. NoCircle'
    BY <1>1, <1>2 DEF NoCircle
  <2>13. QED
    BY <2>6, <2>7, <2>8, <2>9, <2>10, <2>11, <2>12
<1>7. QED
  BY <1>4, <1>5, <1>6, CallFacts DEF Called

\* A call that goes on to its imports has none behind it, and is recorded if it is
\* for a built-in module.
LEMMA WentOnStep ==
  ASSUME LoaderInv, NEW e \in Frames, WentOn(e)
  PROVE  LoaderInv'
<1> USE DEF LoaderInv, LoaderTypeOK
<1> DEFINE n == Len(stack)
<1>1. /\ disk' = disk /\ places' = places /\ phase' = phase /\ status' = status /\ status = "loading"
      /\ stack # <<>> /\ e.module = Top.module /\ e.next = 1 /\ Bridged(modules, e.module) /\ Top.at # "imports"
      /\ stack' = ReplaceAt(stack, n, e)
  BY DEF WentOn
<1>2. /\ Lib' = Lib /\ Available' = Available /\ SqlFound' = SqlFound
      /\ \A m : Imports(m)' = Imports(m)
      /\ \A m : Faulty(m)' = Faulty(m)
      /\ \A S : Reach(S)' = Reach(S)
  BY <1>1, ReferenceStays
<1>3. n \in Nat \ {0} /\ n \in 1 .. n /\ Top = stack[n] /\ \A i \in 1 .. n : stack[i] \in Frames
  BY <1>1, TopFacts
<1>4. /\ stack' \in Seq(Frames) /\ Len(stack') = n /\ stack'[n] = e
      /\ \A i \in 1 .. n - 1 : stack'[i] = stack[i]
  <2>1. stack \in Seq(Frames) /\ stack # <<>> /\ e \in Frames
    BY <1>1
  <2> HIDE DEF LoaderInv, LoaderTypeOK
  <2> DEFINE r == ReplaceAt(stack, n, e)
  <2>2. /\ r \in Seq(Frames) /\ Len(r) = n /\ r[n] = e
        /\ \A i \in 1 .. n - 1 : r[i] = stack[i]
    BY <2>1, ReplaceTopFacts
  <2>3. stack' = r
    BY <1>1
  <2> HIDE DEF r
  <2>4. QED
    BY <2>2, <2>3
<1>5. \/ e.at = "read" /\ modules' = modules
      \/ /\ e.at = "imports" /\ e.module \in Available /\ ~disk[e.module].bad
         /\ modules' = IF e.module \in Names THEN modules \cup {e.module} ELSE modules
  BY DEF WentOn
<1>6. /\ modules \subseteq modules' /\ modules' \subseteq modules \cup {e.module}
      /\ \A m \in modules' \ modules : /\ m = e.module /\ m \in Names /\ e.at = "imports"
                                       /\ ~disk[m].bad /\ m \in Available
  BY <1>5
<1>7. LoaderTypeOK'
  BY <1>1, <1>2, <1>4, <1>6 DEF Available
<1>8. Links'
  <2> SUFFICES ASSUME NEW i \in 1 .. n - 1
               PROVE  stack'[i] = stack[i] /\ stack'[i + 1].module = stack[i + 1].module
    BY <1>2, <1>4 DEF Links
  <2>1. CASE i = n - 1
    BY <1>1, <1>3, <1>4, <2>1
  <2>2. CASE i # n - 1
    <3>1. i + 1 \in 1 .. n - 1
      BY <1>3, <2>2
    <3>2. QED
      BY <1>4, <3>1
  <2>3. QED
    BY <2>1, <2>2
<1>9. FramesOK'
  <2> SUFFICES ASSUME NEW i \in 1 .. n
               PROVE  /\ stack'[i].at = "imports" => Follows(i)'
                      /\ stack'[i].at = "enter" => stack'[i].next = 1 /\ i = n
                      /\ stack'[i].at = "read" =>
                             stack'[i].next = 1 /\ (i = n => Bridged(modules', stack'[i].module))
    BY <1>2, <1>4 DEF FramesOK, Bridged, Settled
  <2>1. CASE i # n
    <3>1. stack'[i] = stack[i] /\ i \in 1 .. n
      BY <1>3, <1>4, <2>1
    <3>2. Bridged(modules, stack[i].module) => Bridged(modules', stack[i].module)
      BY <1>6, SettledStays
    <3>3. Follows(i) => Follows(i)'
      BY <1>1, <1>2, <1>4, <1>6, <3>1, <3>2 DEF Follows, Bridged, Settled
    <3>4. QED
      BY <2>1, <3>1, <3>3 DEF FramesOK
  <2>2. CASE i = n
    <3>1. Bridged(modules', e.module)
      BY <1>1, <1>6, SettledStays
    <3>2. CASE e.at = "read"
      BY <1>1, <1>4, <2>2, <3>1, <3>2
    <3>3. CASE e.at = "imports"
      <4>1. /\ e.module \in Available /\ ~disk[e.module].bad
            /\ e.module \in Names => e.module \in modules'
        BY <1>5, <3>3
      <4>2. e.next <= Len(Imports(e.module)) + 1
        <5>1. Imports(e.module) \in Seq(STRING)
          BY DiskAssumption, EmptySeq DEF Imports, Frames
        <5>2. QED
          BY <1>1, <5>1, LenProperties
      <4>3. 1 .. e.next - 1 = {}
        BY <1>1
      <4>4. Follows(i)'
        BY <1>1, <1>2, <1>4, <2>2, <3>1, <4>1, <4>2, <4>3 DEF Follows, Bridged, Settled
      <4>5. QED
        BY <1>4, <2>2, <3>3, <4>4
    <3>4. QED
      BY <1>5, <3>2, <3>3
  <2>3. QED
    BY <2>1, <2>2
<1>10. Recorded'
  <2> SUFFICES ASSUME NEW m \in modules'
               PROVE  /\ ~disk[m].bad
                      /\ Bridged(modules', m)
                      /\ ToSet(Imports(m)) \subseteq modules' \/ (m \in Names /\ AtWork(m)')
    BY <1>1, <1>2 DEF Recorded, Bridged, Settled
  <2>1. CASE m \in modules
    <3>1. ~disk[m].bad /\ Bridged(modules', m)
      BY <1>6, <2>1, SettledStays DEF Recorded
    <3>2. AtWork(m) => AtWork(m)'
      BY <1>1, <1>3, <1>4 DEF AtWork
    <3>3. QED
      BY <1>6, <2>1, <3>1, <3>2 DEF Recorded
  <2>2. CASE m \notin modules
    <3>1. m = e.module /\ m \in Names /\ e.at = "imports" /\ ~disk[m].bad
      BY <1>6, <2>2
    <3>2. Bridged(modules', m)
      BY <1>1, <1>6, <3>1, SettledStays
    <3>3. AtWork(m)'
      BY <1>3, <1>4, <3>1 DEF AtWork
    <3>4. QED
      BY <3>1, <3>2, <3>3
  <2>3. QED
    BY <2>1, <2>2
<1>11. Phases'
  <2>1. stack' # <<>> /\ phase # "index" /\ status' # "done" /\ Root' = Root
    BY <1>1, <1>3, <1>4, EmptySeq, LenProperties DEF Phases, Root
  <2>2. stack'[1].module = Root
    BY <1>1, <1>3, <1>4 DEF Phases
  <2>3. /\ phase \in {"entry", "sqlite"} => Settled(modules', "prelude")
        /\ phase = "sqlite" => Settled(modules', Entry) /\ SqlFound
    BY <1>6, SettledStays DEF Phases
  <2>4. QED
    BY <1>1, <1>2, <2>1, <2>2, <2>3 DEF Phases, Settled, Bridged
<1>12. Sound'
  <2>1. Roots' = Roots
    BY <1>1 DEF Roots
  <2>2. e.module \in Reach(Roots)
    BY <1>1, <1>3 DEF Sound
  <2>3. \A i \in 1 .. n : stack'[i].module \in Reach(Roots)
    BY <1>3, <1>4, <2>2 DEF Sound
  <2>4. modules' \subseteq Reach(Roots)
    BY <1>6, <2>2 DEF Sound
  <2>5. Reach(Roots)' = Reach(Roots)
    BY <1>2, <2>1
  <2>6. QED
    BY <1>1, <1>4, <2>3, <2>4, <2>5 DEF Sound
<1>13. NoCircle'
  <2>1. e.module \notin (modules' \ modules) \cap Files
    BY <1>6 DEF Sources
  <2>2. QED
    BY <1>1, <1>6, <2>1, NoCircleStep DEF Sources
<1>14. QED
  BY <1>7, <1>8, <1>9, <1>10, <1>11, <1>12, <1>13

\* With no call left, the recorded modules are those reached from what Compile has
\* called for.
LEMMA Complete ==
  ASSUME LoaderInv, stack = <<>>, phase \in {"entry", "sqlite"}
  PROVE  modules = Reach(Roots) \cap Available
<1> USE DEF LoaderInv, LoaderTypeOK
<1> DEFINE S == modules \cup ((Roots \cup {"interop"}) \ Available)
<1>a. Lib \subseteq Names /\ Roots \in SUBSET Modules
  BY LibNames DEF Roots, Modules, Sources
<1>b. S \subseteq Modules
  BY <1>a DEF Available, Modules
<1>1. Roots \subseteq S
  BY DEF Roots, Root, Phases, Settled
<1>2. "interop" \in modules \/ "interop" \notin Available => "interop" \in S
  OBVIOUS
<1>3. ASSUME NEW m \in modules PROVE Needs(m) \subseteq S
  <2>1. ToSet(Imports(m)) \subseteq modules
    BY EmptySeq DEF Recorded, AtWork
  <2>2. Bridged(modules, m)
    BY DEF Recorded
  <2>3. QED
    BY <2>1, <2>2 DEF Needs, Bridged, Settled
<1>4. ASSUME NEW m \in (Roots \cup {"interop"}) \ Available PROVE Needs(m) \subseteq S
  <2>1. m = "sqlite" => phase = "sqlite" \/ m \notin Roots
    BY DEF Roots, Available, Sources
  <2>2. m \in {"prelude", "interop", "sqlite"}
    BY DEF Roots, Available, Sources
  <2>3. m # "sqlite" => ~NeedsHostBridge(m)
    BY <2>2 DEF NeedsHostBridge
  <2>4. m = "sqlite" => Bridged(modules, m)
    BY <2>1 DEF Phases, Root, Roots
  <2>5. QED
    BY <2>2, <2>3, <2>4 DEF Needs, Bridged, Settled, Available
<1>5. Covers(S, Roots)
  BY <1>1, <1>3, <1>4 DEF Covers
<1>6. Reach(Roots) \subseteq S
  BY <1>a, <1>b, <1>5, ReachFacts
<1>7. QED
  BY <1>6 DEF Sound, Available

\* Compile loads the next root when the one before is settled.
LEMMA CompileStep ==
  ASSUME LoaderInv, Compile
  PROVE  LoaderInv'
<1> USE DEF LoaderInv, LoaderTypeOK
<1>1. disk' = disk /\ places' = places /\ modules' = modules /\ status = "loading" /\ stack = <<>> /\ Len(stack) = 0
  BY DEF Compile, Idle, input
<1>2. /\ Lib' = Lib /\ Available' = Available /\ SqlFound' = SqlFound
      /\ \A m : Imports(m)' = Imports(m)
      /\ \A m : Faulty(m)' = Faulty(m)
      /\ \A S : Reach(S)' = Reach(S)
      /\ \A S : HasCircle(S)' = HasCircle(S)
  BY <1>1, ReferenceStays
<1>3. CASE status' = "done" /\ UNCHANGED <<stack, phase>> /\ (phase = "sqlite" \/ (phase = "entry" /\ ~NeedsSqlite))
  BY <1>1, <1>3, UnmovedStep
<1>4. ASSUME NEW r \in Modules, Call(stack, r), phase' # "index", phase' \in {"prelude", "entry", "sqlite"},
             Root' = r,
             phase' \in {"entry", "sqlite"} => Settled(modules, "prelude"),
             phase' = "sqlite" => Settled(modules, Entry) /\ SqlFound,
             Roots \subseteq Roots'
      PROVE  LoaderInv'
  <2>1. /\ status' = status /\ stack' \in Seq(Frames) /\ Len(stack') = 1 /\ stack'[1] = Frame(r)
    <3>1. Len(stack) < MaxDepth
      BY <1>1
    <3>2. stack \in Seq(Frames) /\ Call(stack, r) /\ r \in Modules
      BY <1>4
    <3> HIDE DEF LoaderInv, LoaderTypeOK
    <3>3. /\ status' = status
          /\ stack' \in Seq(Frames)
          /\ Len(stack') = Len(stack) + 1
          /\ stack'[Len(stack) + 1] = Frame(r)
      BY <3>1, <3>2, CallFacts
    <3>4. Len(stack) + 1 = 1
      BY <1>1
    <3>5. QED
      BY <3>3, <3>4
  <2>2. Frame(r).module = r /\ Frame(r).at = "enter" /\ Frame(r).next = 1
    BY DEF Frame
  <2>3. LoaderTypeOK'
    BY <1>1, <1>2, <1>4, <2>1
  <2>4. Links'
    BY <2>1 DEF Links
  <2>5. FramesOK'
    BY <2>1, <2>2 DEF FramesOK
  <2>6. Recorded'
    BY <1>1, <1>2 DEF Recorded, AtWork, Bridged, Settled
  <2>7. Phases'
    <3>1. stack' # <<>>
      BY <2>1
    <3>2. QED
      BY <1>1, <1>2, <1>4, <2>1, <2>2, <3>1 DEF Phases, Settled
  <2>8. Sound'
    <3>1. Roots' \in SUBSET Modules
      BY DEF Roots, Modules, Sources
    <3>2. Reach(Roots) \subseteq Reach(Roots')
      BY <1>4, <3>1, ReachMonotonic
    <3>3. Reach(Roots)' = Reach(Roots')
      BY <1>2
    <3>4. r \in Roots'
      BY <1>4 DEF Roots, Root
    <3>5. r \in Reach(Roots')
      BY <3>1, <3>4, ReachFacts DEF Covers
    <3>6. QED
      BY <1>1, <2>1, <2>2, <3>2, <3>3, <3>5 DEF Sound
  <2>9. NoCircle'
    BY <1>1, <1>2 DEF NoCircle
  <2>10. QED
    BY <2>3, <2>4, <2>5, <2>6, <2>7, <2>8, <2>9
<1>5. CASE Idle("index") /\ Call(stack, "prelude") /\ phase' = "prelude"
  BY <1>4, <1>5 DEF Root, Roots, Modules, Idle
<1>6. CASE Idle("prelude") /\ Call(stack, Entry) /\ phase' = "entry"
  <2>1. Settled(modules, "prelude")
    BY <1>1, <1>6 DEF Phases, Root, Idle
  <2>2. QED
    BY <1>4, <1>6, <2>1 DEF Root, Roots, Modules, Sources, Idle
<1>7. CASE Idle("entry") /\ NeedsSqlite /\ Call(stack, "sqlite") /\ phase' = "sqlite"
  <2>1. phase = "entry"
    BY <1>7 DEF Idle
  <2>2. Settled(modules, "prelude") /\ Settled(modules, Entry)
    BY <1>1, <2>1 DEF Phases, Root
  <2>3. modules \subseteq Program
    BY <1>1, <2>1, Complete DEF Program, Roots, Available
  <2>4. SqlFound
    BY <1>7, <2>3 DEF SqlFound, NeedsSqlite, Asked
  <2>5. QED
    BY <1>4, <1>7, <2>1, <2>2, <2>4 DEF Root, Roots, Modules
<1>8. QED
  BY <1>3, <1>5, <1>6, <1>7 DEF Compile, Idle

\* A step that stops for a fault, or that changes nothing.
LEMMA StoppedStep ==
  ASSUME LoaderInv, Stopped
  PROVE  LoaderInv'
<1>1. UNCHANGED <<disk, places, phase, modules, stack>>
  BY DEF Stopped
<1>2. CASE status' = status
  BY <1>1, <1>2, UnmovedStep DEF LoaderInv, LoaderTypeOK, Phases, Sound
<1>3. CASE /\ status = "loading" /\ stack # <<>> /\ status' \in {"error", "panic"}
           /\ Top.module \in Available /\ Faulty(Top.module)
  <2>1. phase # "index"
    BY <1>3 DEF LoaderInv, Phases
  <2>2. Top.module \in Reach(Roots)
    <3>1. Len(stack) \in Nat \ {0} /\ Top = stack[Len(stack)]
      BY <1>3, TopFacts DEF LoaderInv, LoaderTypeOK
    <3>2. Len(stack) \in 1 .. Len(stack)
      BY <3>1
    <3>3. QED
      BY <3>1, <3>2 DEF LoaderInv, Sound
  <2>3. \E m \in Reach(Roots) \cap Available : Faulty(m)
    BY <1>3, <2>2
  <2>4. /\ status' \in {"loading", "done", "error", "panic", "overflow"}
        /\ status' # "done"
    BY <1>3
  <2>5. QED
    BY <1>1, <2>1, <2>3, <2>4, UnmovedStep
<1>4. QED
  BY <1>2, <1>3 DEF Stopped

\* Nothing is recorded and nothing is called when Compile starts.
LEMMA InitialState ==
  ASSUME Init
  PROVE  LoaderInv
<1> USE DEF Init
<1>1. LoaderTypeOK
  BY EmptySeq DEF LoaderTypeOK
<1>2. Len(stack) = 0
  BY EmptySeq
<1>3. Links /\ FramesOK
  BY <1>2 DEF Links, FramesOK
<1>4. Recorded /\ Phases /\ Sound
  BY <1>2 DEF Recorded, Phases, Sound
<1>5. NoCircle
  <2>1. ASSUME NEW C \in SUBSET (modules \cap Files) PROVE C = {}
    OBVIOUS
  <2>2. QED
    BY <2>1 DEF NoCircle, HasCircle
<1>6. QED
  BY <1>1, <1>3, <1>4, <1>5 DEF LoaderInv

\* The inductive invariant holds in every state of every run of Compile.
THEOREM LoaderInvariant == Spec => []LoaderInv
<1>1. Init => LoaderInv
  BY InitialState
<1>2. LoaderInv /\ [Next]_vars => LoaderInv'
  <2> SUFFICES ASSUME LoaderInv, [Next]_vars PROVE LoaderInv'
    OBVIOUS
  <2>1. CASE Returned
    BY <2>1, ReturnedStep
  <2>2. ASSUME NEW e \in Frames, NEW m \in Modules, Called(e, m) PROVE LoaderInv'
    BY <2>2, CalledStep
  <2>3. ASSUME NEW e \in Frames, WentOn(e) PROVE LoaderInv'
    BY <2>3, WentOnStep
  <2>4. CASE Compile
    BY <2>4, CompileStep
  <2>5. CASE Stopped
    BY <2>5, StoppedStep
  <2>6. QED
    BY <2>1, <2>2, <2>3, <2>4, <2>5, Steps
<1>3. QED
  BY <1>1, <1>2, PTL DEF Spec

\* The variables keep their types: what is recorded is a file or a module of the
\* library, and the stack holds calls.
THEOREM LoaderTypes == Spec => []LoaderTypeOK
<1>1. LoaderInv => LoaderTypeOK
  BY DEF LoaderInv
<1>2. QED
  BY <1>1, LoaderInvariant, PTL

\* A file is recorded after everything it imports (loadRecursive), for every import
\* graph, with circles and faults.
THEOREM FilesAfterTheirImports == Spec => []DependenciesFirst
<1>1. LoaderInv => DependenciesFirst
  <2> SUFFICES ASSUME LoaderInv, NEW m \in modules \cap Files PROVE ToSet(Imports(m)) \subseteq modules
    BY DEF DependenciesFirst
  <2>1. m \notin Names
    BY DEF Sources
  <2>2. QED
    BY <2>1 DEF LoaderInv, Recorded
<1>2. QED
  BY <1>1, LoaderInvariant, PTL

-----------------------------------------------------------------------------
(***************************************************************************)
(* What the result is, when the scan of the declarations finds SQL.          *)
(***************************************************************************)

\* Whether sqlite is asked for depends on the author's SQL.
LEMMA ScanIsRight ==
  ASSUME LoaderTypeOK, ScanFindsSql, NEW m \in Asked(Available)
  PROVE  HasSql(Declarations(m)) <=> disk[m].sql
<1>1. m \in Asked(Modules)
  BY LibNames DEF Asked, Available, Modules, LoaderTypeOK
<1>2. QED
  BY <1>1 DEF ScanFindsSql, Declarations, LoaderTypeOK

\* What has been called for belongs to the program.
LEMMA RootsAreNeeded ==
  ASSUME LoaderInv, ScanFindsSql
  PROVE  Reach(Roots) \cap Available \subseteq Needed
<1> USE DEF LoaderInv
<1>1. CASE phase = "sqlite"
  <2>1. PICK m \in Asked(Program) : HasSql(Declarations(m))
    BY <1>1 DEF Phases, SqlFound
  <2>2. m \in Asked(Available)
    BY DEF Asked, Program, Available
  <2>3. disk[m].sql
    BY <2>1, <2>2, ScanIsRight
  <2>4. QED
    BY <1>1, <2>3 DEF Needed, Roots, Available
<1>2. CASE phase # "sqlite"
  <2>1. Reach({"prelude", Entry}) \subseteq Reach({"prelude", Entry, "sqlite"})
    BY ReachMonotonic DEF LoaderTypeOK, Modules, Sources
  <2>2. QED
    BY <1>2, <2>1 DEF Needed, Program, Roots, Available
<1>3. QED
  BY <1>1, <1>2

\* When Compile goes on to the type checker it has the program.
LEMMA DoneHasNeeded ==
  ASSUME LoaderInv, ScanFindsSql, status = "done"
  PROVE  modules = Needed
<1> USE DEF LoaderInv
<1>1. stack = <<>> /\ phase \in {"entry", "sqlite"} /\ (phase = "entry" => ~NeedsSqlite)
  BY DEF Phases
<1>2. modules = Reach(Roots) \cap Available
  BY <1>1, Complete
<1>3. modules \subseteq Needed
  BY <1>2, RootsAreNeeded
<1>4. CASE phase = "sqlite"
  <2>1. Reach({"prelude", Entry}) \subseteq Reach({"prelude", Entry, "sqlite"})
    BY ReachMonotonic DEF LoaderTypeOK, Modules, Sources
  <2>2. QED
    BY <1>2, <1>3, <1>4, <2>1 DEF Needed, Program, Roots, Available
<1>5. CASE phase = "entry"
  <2>1. modules = Program
    BY <1>2, <1>5 DEF Program, Roots, Available
  <2>2. ASSUME NEW m \in Asked(Program) PROVE ~disk[m].sql
    <3>1. m \in Asked(Available)
      BY DEF Asked, Program, Available
    <3>2. ~HasSql(Declarations(m))
      BY <1>1, <1>5, <2>1 DEF NeedsSqlite
    <3>3. QED
      BY <3>1, <3>2, ScanIsRight
  <2>3. QED
    BY <2>1, <2>2 DEF Needed
<1>6. QED
  BY <1>1, <1>4, <1>5

\* Compile goes on with the modules of the program, all of them and no other.
THEOREM ProgramIsLoaded ==
  ASSUME ScanFindsSql
  PROVE  Spec => []LoadedExactly
<1>1. LoaderInv => LoadedExactly
  BY DoneHasNeeded DEF LoadedExactly
<1>2. QED
  BY <1>1, LoaderInvariant, PTL

\* Compile fails for a module of the program that cannot be loaded, and for no
\* other reason; nor does it go on with one.
THEOREM FaultsAreReported ==
  ASSUME ScanFindsSql
  PROVE  Spec => []FaultsReported
<1>1. LoaderInv => FaultsReported
  <2> SUFFICES ASSUME LoaderInv PROVE FaultsReported
    OBVIOUS
  <2>1. ASSUME status = "done", NEW m \in Needed PROVE ~Faulty(m)
    <3>1. m \in modules
      BY <2>1, DoneHasNeeded
    <3>2. stack = <<>>
      BY <2>1 DEF LoaderInv, Phases
    <3>3. ~AtWork(m)
      BY <3>2, EmptySeq DEF AtWork
    <3>4. ~disk[m].bad /\ ToSet(Imports(m)) \subseteq modules
      BY <3>1, <3>3 DEF LoaderInv, Recorded
    <3>5. QED
      BY <3>4 DEF Faulty, LoaderInv, LoaderTypeOK
  <2>2. ASSUME status \in {"error", "panic"} PROVE \E m \in Needed : Faulty(m)
    BY <2>2, RootsAreNeeded DEF LoaderInv, Sound
  <2>3. QED
    BY <2>1, <2>2 DEF FaultsReported
<1>2. QED
  BY <1>1, LoaderInvariant, PTL

-----------------------------------------------------------------------------
(***************************************************************************)
(* How deep the recursion gets.  What needs a second invariant: a built-in    *)
(* module is loaded once at a time, since it is recorded before its imports   *)
(* are followed, and so is the host bridge.                                  *)
(***************************************************************************)
LoadedOnce ==
    \A i \in 1 .. Len(stack), j \in 1 .. Len(stack) :
        i < j /\ stack[i].at = "imports" /\ stack[i].module \in Names /\ stack[j].module = stack[i].module
            => stack[j].at = "enter"
BridgedOnce ==
    \A i \in 1 .. Len(stack) - 1, j \in 1 .. Len(stack) - 1 :
        i < j /\ stack[i].at = "read" /\ stack[j].at = "read"
            => j = Len(stack) - 1 /\ stack[Len(stack)].at = "enter"
Exhausted == status = "overflow" => ~ (Len(stack) < MaxDepth)
DepthInv == LoadedOnce /\ BridgedOnce /\ Exhausted

\* A module that is being entered and is not recorded is not loaded already.
LEMMA NotYetLoaded ==
  ASSUME LoaderInv, stack # <<>>, Top.module \notin modules
  PROVE  \A i \in 1 .. Len(stack) : ~ (stack[i].at = "imports" /\ stack[i].module \in Names /\ stack[i].module = Top.module)
BY DEF LoaderInv, FramesOK, Follows

\* Nor is it the host bridge, if two calls wait for that.
LEMMA NotTheBridgeAgain ==
  ASSUME LoaderInv, stack # <<>>, Top.module \notin modules, Top.at = "enter",
         NEW i \in 1 .. Len(stack) - 1, NEW j \in 1 .. Len(stack) - 1,
         i < j, stack[i].at = "read", stack[j].at = "read", j = Len(stack) - 1
  PROVE  FALSE
<1> USE DEF LoaderInv
<1>1. Len(stack) \in Nat \ {0} /\ Top = stack[Len(stack)] /\ \A k \in 1 .. Len(stack) : stack[k] \in Frames
  BY TopFacts DEF LoaderTypeOK
<1>2. stack[j + 1].module = "interop" /\ NeedsHostBridge(stack[j].module)
  BY DEF Links
<1>3. Top.module = "interop"
  BY <1>1, <1>2
<1>4. stack[i + 1].module = "interop"
  BY DEF Links
<1>5. ~NeedsHostBridge("interop")
  BY DEF NeedsHostBridge
<1>6. i + 1 # j
  BY <1>2, <1>4, <1>5
<1>7. i + 1 \in 1 .. Len(stack) - 1 /\ i + 1 \in 1 .. Len(stack) /\ i + 1 # Len(stack)
  BY <1>1, <1>6
<1>8. stack[i + 1].at # "enter"
  BY <1>7 DEF FramesOK
<1>9. stack[i + 1].at # "read"
  <2>1. stack[i + 1].at = "read" => NeedsHostBridge(stack[i + 1].module)
    BY <1>7 DEF Links
  <2>2. QED
    BY <2>1, <1>4, <1>5
<1>10. stack[i + 1].at = "imports"
  BY <1>1, <1>7, <1>8, <1>9 DEF Frames
<1>11. "interop" \in modules
  BY <1>4, <1>7, <1>10 DEF FramesOK, Follows
<1>12. QED
  BY <1>3, <1>11

\* A return leaves the calls below as they are.
LEMMA ReturnedDepth ==
  ASSUME LoaderInv, DepthInv, Returned
  PROVE  DepthInv'
<1> DEFINE n == Len(stack)
<1>1. stack \in Seq(Frames) /\ stack # <<>> /\ stack' = Front(stack) /\ status' = "loading"
  BY DEF LoaderInv, LoaderTypeOK, Returned, Pop
<1>2. n \in Nat \ {0} /\ Len(stack') = n - 1 /\ \A i \in 1 .. n - 1 : stack'[i] = stack[i]
  BY <1>1, FrontFacts
<1>3. LoadedOnce'
  BY <1>2 DEF DepthInv, LoadedOnce
<1>4. BridgedOnce'
  BY <1>2 DEF DepthInv, BridgedOnce
<1>5. QED
  BY <1>1, <1>3, <1>4 DEF DepthInv, Exhausted

\* A call that goes on has no other for its module below it, once it follows imports.
LEMMA WentOnDepth ==
  ASSUME LoaderInv, DepthInv, NEW e \in Frames, WentOn(e)
  PROVE  DepthInv'
<1> DEFINE n == Len(stack)
<1>1. stack \in Seq(Frames) /\ stack # <<>> /\ e \in Frames
  BY DEF LoaderInv, LoaderTypeOK, WentOn
<1>2. n \in Nat \ {0} /\ Top = stack[n]
  BY <1>1, TopFacts
<1>3. /\ Len(stack') = n /\ stack'[n] = e
      /\ \A i \in 1 .. n - 1 : stack'[i] = stack[i]
  <2> DEFINE r == ReplaceAt(stack, n, e)
  <2>1. Len(r) = n /\ r[n] = e /\ \A i \in 1 .. n - 1 : r[i] = stack[i]
    BY <1>1, ReplaceTopFacts
  <2>2. stack' = r
    BY DEF WentOn
  <2> HIDE DEF r
  <2>3. QED
    BY <2>1, <2>2
<1>4. /\ e.module = Top.module /\ Top.at # "imports" /\ status' = "loading"
      /\ Top.at = "enter" => e.at = "read" /\ Top.module \notin modules
  BY DEF WentOn
<1>5. LoadedOnce'
  <2> SUFFICES ASSUME NEW i \in 1 .. n, NEW j \in 1 .. n, i < j,
                      stack'[i].at = "imports", stack'[i].module \in Names, stack'[j].module = stack'[i].module
               PROVE  stack'[j].at = "enter"
    BY <1>3 DEF LoadedOnce
  <2>1. i \in 1 .. n - 1 /\ stack'[i] = stack[i]
    BY <1>2, <1>3
  <2>2. CASE j # n
    <3>1. stack'[j] = stack[j]
      BY <1>2, <1>3, <2>2
    <3>2. QED
      BY <2>1, <3>1 DEF DepthInv, LoadedOnce
  <2>3. CASE j = n
    <3>1. stack[n].module = stack[i].module
      BY <1>2, <1>3, <1>4, <2>1, <2>3
    <3>2. Top.at = "enter"
      BY <1>2, <2>1, <2>3, <3>1 DEF DepthInv, LoadedOnce
    <3>3. Top.module \notin modules
      BY <1>4, <3>2
    <3>4. FALSE
      BY <1>1, <1>2, <2>1, <3>1, <3>3, NotYetLoaded
    <3>5. QED
      BY <3>4
  <2>4. QED
    BY <2>2, <2>3
<1>6. BridgedOnce'
  <2> SUFFICES ASSUME NEW i \in 1 .. n - 1, NEW j \in 1 .. n - 1, i < j,
                      stack[i].at = "read", stack[j].at = "read"
               PROVE  FALSE
    BY <1>3 DEF BridgedOnce
  <2>1. j = n - 1 /\ Top.at = "enter"
    BY <1>2 DEF DepthInv, BridgedOnce
  <2>2. Top.module \notin modules
    BY <1>4, <2>1
  <2>3. QED
    BY <1>1, <2>1, <2>2, NotTheBridgeAgain
<1>7. QED
  BY <1>4, <1>5, <1>6 DEF DepthInv, Exhausted

\* A new call is being entered, and the one that made it was the last before it.
LEMMA CalledDepth ==
  ASSUME LoaderInv, DepthInv, NEW e \in Frames, NEW m \in Modules, Called(e, m)
  PROVE  DepthInv'
<1> DEFINE n == Len(stack)
<1>1. stack \in Seq(Frames) /\ stack # <<>> /\ e \in Frames /\ m \in Modules /\ status = "loading"
  BY DEF LoaderInv, LoaderTypeOK, Called
<1>2. n \in Nat \ {0} /\ Top = stack[n]
  BY <1>1, TopFacts
<1> DEFINE r == ReplaceAt(stack, n, e)
<1>3. r \in Seq(Frames) /\ Len(r) = n /\ r[n] = e /\ \A i \in 1 .. n - 1 : r[i] = stack[i]
  BY <1>1, ReplaceTopFacts
<1>4. Call(r, m)
  BY DEF Called
<1> HIDE DEF r
<1>5. \/ /\ status' = status
         /\ Len(stack') = n + 1
         /\ \A i \in 1 .. n : stack'[i] = r[i]
         /\ stack'[n + 1] = Frame(m)
      \/ status' = "overflow" /\ stack' = stack /\ ~ (n < MaxDepth)
  BY <1>1, <1>3, <1>4, CallFacts
<1>6. CASE status' = "overflow" /\ stack' = stack /\ ~ (n < MaxDepth)
  BY <1>6 DEF DepthInv, LoadedOnce, BridgedOnce, Exhausted
<1>7. CASE /\ status' = status
           /\ Len(stack') = n + 1
           /\ \A i \in 1 .. n : stack'[i] = r[i]
           /\ stack'[n + 1] = Frame(m)
  <2>1. /\ \A i \in 1 .. n - 1 : stack'[i] = stack[i]
        /\ stack'[n] = e /\ stack'[n + 1].at = "enter"
    BY <1>2, <1>3, <1>7 DEF Frame
  <2>2. /\ e.module = Top.module
        /\ \/ Top.at = "enter" /\ Top.module \notin modules /\ e.at = "read" /\ NeedsHostBridge(e.module)
           \/ Top.at = "imports"
    BY DEF Called
  <2>3. LoadedOnce'
    <3> SUFFICES ASSUME NEW i \in 1 .. n + 1, NEW j \in 1 .. n + 1, i < j,
                        stack'[i].at = "imports", stack'[i].module \in Names, stack'[j].module = stack'[i].module
                 PROVE  stack'[j].at = "enter"
      BY <1>7 DEF LoadedOnce
    <3>1. CASE j = n + 1
      BY <2>1, <3>1
    <3>2. CASE j = n
      <4>1. i \in 1 .. n - 1 /\ stack'[i] = stack[i] /\ i \in 1 .. n /\ n \in 1 .. n
        BY <1>2, <2>1, <3>2
      <4>2. stack[n].module = stack[i].module
        BY <1>2, <2>1, <2>2, <3>2, <4>1
      <4>3. Top.at = "enter"
        BY <1>2, <3>2, <4>1, <4>2 DEF DepthInv, LoadedOnce
      <4>4. Top.module \notin modules
        BY <2>2, <4>3
      <4>5. FALSE
        BY <1>1, <1>2, <4>1, <4>2, <4>4, NotYetLoaded
      <4>6. QED
        BY <4>5
    <3>3. CASE j \notin {n, n + 1}
      <4>1. i \in 1 .. n - 1 /\ j \in 1 .. n - 1 /\ stack'[i] = stack[i] /\ stack'[j] = stack[j]
        BY <1>2, <2>1, <3>3
      <4>2. QED
        BY <1>2, <4>1 DEF DepthInv, LoadedOnce
    <3>4. QED
      BY <3>1, <3>2, <3>3
  <2>4. BridgedOnce'
    <3> SUFFICES ASSUME NEW i \in 1 .. n, NEW j \in 1 .. n, i < j, stack'[i].at = "read", stack'[j].at = "read"
                 PROVE  j = n
      BY <1>2, <1>7, <2>1 DEF BridgedOnce
    <3> SUFFICES ASSUME j # n PROVE FALSE
      OBVIOUS
    <3>1. i \in 1 .. n - 1 /\ j \in 1 .. n - 1 /\ stack[i].at = "read" /\ stack[j].at = "read"
      BY <1>2, <2>1
    <3>2. j = n - 1 /\ Top.at = "enter"
      BY <1>2, <3>1 DEF DepthInv, BridgedOnce
    <3>3. Top.module \notin modules
      BY <2>2, <3>2
    <3>4. QED
      BY <1>1, <3>1, <3>2, <3>3, NotTheBridgeAgain
  <2>5. QED
    BY <1>1, <1>7, <2>3, <2>4 DEF DepthInv, Exhausted
<1>8. QED
  BY <1>5, <1>6, <1>7

\* Compile calls with an empty stack, which has room.
LEMMA CompileDepth ==
  ASSUME LoaderInv, DepthInv, Compile
  PROVE  DepthInv'
<1>1. stack = <<>> /\ Len(stack) = 0 /\ status = "loading" /\ stack \in Seq(Frames)
  BY EmptySeq DEF Compile, Idle
<1>2. ASSUME NEW m \in Modules, Call(stack, m) PROVE Len(stack') = 1 /\ status' = "loading"
  <2>1. Len(stack) < MaxDepth
    BY <1>1
  <2>2. status' = status /\ Len(stack') = Len(stack) + 1
    BY <1>1, <1>2, <2>1, CallFacts
  <2>3. QED
    BY <1>1, <2>2
<1>3. Len(stack') \in {0, 1} /\ status' # "overflow"
  <2>1. {"prelude", "sqlite", Entry} \subseteq Modules
    BY DEF Modules, Sources
  <2>2. QED
    BY <1>1, <1>2, <2>1 DEF Compile
<1>4. QED
  BY <1>3 DEF DepthInv, LoadedOnce, BridgedOnce, Exhausted

\* The second invariant.
THEOREM DepthInvariant == Spec => []DepthInv
<1>1. Init => DepthInv
  BY EmptySeq DEF Init, DepthInv, LoadedOnce, BridgedOnce, Exhausted
<1>2. LoaderInv /\ DepthInv /\ [Next]_vars => DepthInv'
  <2> SUFFICES ASSUME LoaderInv, DepthInv, [Next]_vars PROVE DepthInv'
    OBVIOUS
  <2>1. CASE Returned
    BY <2>1, ReturnedDepth
  <2>2. ASSUME NEW e \in Frames, NEW m \in Modules, Called(e, m) PROVE DepthInv'
    BY <2>2, CalledDepth
  <2>3. ASSUME NEW e \in Frames, WentOn(e) PROVE DepthInv'
    BY <2>3, WentOnDepth
  <2>4. CASE Compile
    BY <2>4, CompileDepth
  <2>5. CASE Stopped
    BY <2>5 DEF Stopped, DepthInv, LoadedOnce, BridgedOnce, Exhausted
  <2>6. QED
    BY <2>1, <2>2, <2>3, <2>4, <2>5, Steps
<1>3. QED
  BY <1>1, <1>2, LoaderInvariant, PTL DEF Spec

\* What a deep stack is: more calls than there are ways for a module to be loaded
\* below a built-in one.
DeepStack == 2 * (Cardinality(Modules) * Cardinality(Modules)) + 2

\* The last call for a built-in module among the first i calls, and what it and the
\* call i are for.
BuiltinsUpTo(i) == {k \in 1 .. i : stack[k].module \in Names}
LastBuiltin(i) == CHOOSE k \in BuiltinsUpTo(i) : \A l \in BuiltinsUpTo(i) : l <= k
BuiltinKey(i) ==
    IF BuiltinsUpTo(i) = {} THEN <<Entry, "read">>
    ELSE <<stack[LastBuiltin(i)].module, stack[LastBuiltin(i)].at>>
CallKey == [i \in 1 .. Len(stack) - 2 |-> <<stack[i].module, BuiltinKey(i)>>]
Keys == Modules \X (Modules \X {"read", "imports"})

\* The last one is one of them, and no other comes after it.
LEMMA LastBuiltinFacts ==
  ASSUME NEW i \in Nat, BuiltinsUpTo(i) # {}
  PROVE  LastBuiltin(i) \in BuiltinsUpTo(i) /\ \A l \in BuiltinsUpTo(i) : l <= LastBuiltin(i)
<1> DEFINE M == {i - k : k \in BuiltinsUpTo(i)}
<1>1. BuiltinsUpTo(i) \subseteq 1 .. i
  BY DEF BuiltinsUpTo
<1>2. M \in SUBSET Nat /\ M # {}
  BY <1>1
<1>3. PICK d \in M : \A y \in M : d <= y
  <2> HIDE DEF M
  <2>1. QED
    BY <1>2, HasMin
<1>4. PICK k \in BuiltinsUpTo(i) : d = i - k
  OBVIOUS
<1>5. \A l \in BuiltinsUpTo(i) : l <= k
  <2> SUFFICES ASSUME NEW l \in BuiltinsUpTo(i) PROVE l <= k
    OBVIOUS
  <2>1. i - k <= i - l
    BY <1>3, <1>4
  <2>2. QED
    BY <1>1, <2>1
<1>6. QED
  BY <1>4, <1>5 DEF LastBuiltin

\* Below the two last calls every call waits for another.
LEMMA CallsWait ==
  ASSUME LoaderInv
  PROVE  /\ Len(stack) \in Nat
         /\ \A i \in 1 .. Len(stack) - 2 :
                /\ i \in 1 .. Len(stack) - 1 /\ i + 1 \in 1 .. Len(stack) - 1
                /\ stack[i].at \in {"read", "imports"}
                /\ stack[i].module \in Modules
<1>1. stack \in Seq(Frames) /\ Len(stack) \in Nat /\ \A i \in 1 .. Len(stack) : stack[i] \in Frames
  BY LenProperties, ElementOfSeq DEF LoaderInv, LoaderTypeOK
<1>2. ASSUME NEW i \in 1 .. Len(stack) - 2
      PROVE  /\ i \in 1 .. Len(stack) - 1 /\ i + 1 \in 1 .. Len(stack) - 1
             /\ stack[i].at \in {"read", "imports"} /\ stack[i].module \in Modules
  <2>1. /\ i \in 1 .. Len(stack) /\ i # Len(stack)
        /\ i \in 1 .. Len(stack) - 1 /\ i + 1 \in 1 .. Len(stack) - 1
    BY <1>1
  <2>2. stack[i].at # "enter"
    BY <2>1 DEF LoaderInv, FramesOK
  <2>3. QED
    BY <1>1, <2>1, <2>2 DEF Frames
<1>3. QED
  BY <1>1, <1>2

\* No two of those calls are for the same built-in module and at the same place.
LEMMA OneCallEach ==
  ASSUME LoaderInv, DepthInv,
         NEW i \in 1 .. Len(stack) - 2, NEW j \in 1 .. Len(stack) - 2, i < j,
         stack[i].module \in Names, stack[i].module = stack[j].module, stack[i].at = stack[j].at
  PROVE  FALSE
<1>1. /\ Len(stack) \in Nat /\ i \in 1 .. Len(stack) - 1 /\ j \in 1 .. Len(stack) - 1
      /\ stack[i].at \in {"read", "imports"}
  BY CallsWait
<1>2. CASE stack[i].at = "imports"
  <2>1. i \in 1 .. Len(stack) /\ j \in 1 .. Len(stack)
    BY <1>1
  <2>2. stack[j].at = "enter"
    BY <1>2, <2>1 DEF DepthInv, LoadedOnce
  <2>3. QED
    BY <1>2, <2>2
<1>3. CASE stack[i].at = "read"
  <2>1. j = Len(stack) - 1
    BY <1>1, <1>3 DEF DepthInv, BridgedOnce
  <2>2. QED
    BY <1>1, <2>1
<1>4. QED
  BY <1>1, <1>2, <1>3

\* So two of very many calls are for the same module, with no call for a built-in
\* module from the one to the other.
LEMMA CallTwice ==
  ASSUME LoaderInv, DepthInv, IsFiniteSet(Modules), Len(stack) > DeepStack
  PROVE  \E i \in 1 .. Len(stack) - 2, j \in 1 .. Len(stack) - 2 :
             /\ i < j
             /\ stack[i].module = stack[j].module
             /\ \A k \in i .. j : stack[k].module \notin Names
<1> DEFINE n == Len(stack)
<1>1. n \in Nat /\ \A i \in 1 .. n - 2 : stack[i].at \in {"read", "imports"} /\ stack[i].module \in Modules
  BY CallsWait
<1>2. ASSUME NEW i \in 1 .. n - 2, BuiltinsUpTo(i) # {}
      PROVE  /\ LastBuiltin(i) \in 1 .. n - 2 /\ LastBuiltin(i) <= i
             /\ stack[LastBuiltin(i)].module \in Names
             /\ \A l \in 1 .. i : stack[l].module \in Names => l <= LastBuiltin(i)
  <2>1. LastBuiltin(i) \in BuiltinsUpTo(i) /\ \A l \in BuiltinsUpTo(i) : l <= LastBuiltin(i)
    BY <1>1, <1>2, LastBuiltinFacts
  <2>2. QED
    BY <1>1, <2>1 DEF BuiltinsUpTo
<1>3. CallKey \in [1 .. n - 2 -> Keys]
  <2> SUFFICES ASSUME NEW i \in 1 .. n - 2 PROVE BuiltinKey(i) \in Modules \X {"read", "imports"}
    BY <1>1 DEF CallKey, Keys
  <2>1. CASE BuiltinsUpTo(i) = {}
    BY <2>1 DEF BuiltinKey, Modules, Sources
  <2>2. CASE BuiltinsUpTo(i) # {}
    <3>1. LastBuiltin(i) \in 1 .. n - 2
      BY <1>2, <2>2
    <3>2. QED
      BY <1>1, <2>2, <3>1 DEF BuiltinKey
  <2>3. QED
    BY <2>1, <2>2
<1>4. PICK x, y \in 1 .. n - 2 : x # y /\ CallKey[x] = CallKey[y]
  <2>1. IsFiniteSet({"read", "imports"}) /\ Cardinality({"read", "imports"}) = 2
    <3>1. IsFiniteSet({"read"}) /\ Cardinality({"read"}) = 1
      BY FS_Singleton
    <3>2. {"read"} \cup {"imports"} = {"read", "imports"} /\ "imports" \notin {"read"}
      OBVIOUS
    <3>3. /\ IsFiniteSet({"read"} \cup {"imports"})
          /\ Cardinality({"read"} \cup {"imports"}) = Cardinality({"read"}) + 1
      BY <3>1, <3>2, FS_AddElement
    <3>4. QED
      BY <3>1, <3>2, <3>3
  <2>2. /\ IsFiniteSet(Modules \X {"read", "imports"})
        /\ Cardinality(Modules \X {"read", "imports"}) = Cardinality(Modules) * 2
    BY <2>1, FS_Product
  <2>3. IsFiniteSet(Keys) /\ Cardinality(Keys) = Cardinality(Modules) * (Cardinality(Modules) * 2)
    BY <2>2, FS_Product DEF Keys
  <2>4. IsFiniteSet(1 .. n - 2) /\ Cardinality(1 .. n - 2) = IF 1 > n - 2 THEN 0 ELSE n - 2 - 1 + 1
    <3>1. 1 \in Int /\ n - 2 \in Int
      BY <1>1
    <3> HIDE DEF n
    <3>2. QED
      BY <3>1, FS_Interval
  <2>5. Cardinality(Keys) < Cardinality(1 .. n - 2)
    <3>1. \A c \in Nat : c * (c * 2) = 2 * (c * c) /\ c * c \in Nat
      OBVIOUS
    <3>2. Cardinality(Modules) \in Nat
      BY FS_CardinalityType
    <3>3. QED
      BY <1>1, <2>3, <2>4, <3>1, <3>2 DEF DeepStack
  <2>6. QED
    BY <1>3, <2>3, <2>4, <2>5, FS_PigeonHole, SMTT(60)
<1>5. PICK i \in 1 .. n - 2, j \in 1 .. n - 2 : i < j /\ CallKey[i] = CallKey[j]
  <2>1. x < y \/ y < x
    BY <1>4
  <2>2. QED
    BY <1>4, <2>1
<1>6. stack[i].module = stack[j].module /\ BuiltinKey(i) = BuiltinKey(j)
  BY <1>5 DEF CallKey
<1>7. ASSUME NEW k \in i .. j, stack[k].module \in Names PROVE FALSE
  <2>1. k \in BuiltinsUpTo(j) /\ k \in 1 .. j
    BY <1>5, <1>7 DEF BuiltinsUpTo
  <2>2. BuiltinsUpTo(i) # {}
    BY <1>2, <1>6, <2>1 DEF BuiltinKey, Sources
  <2>3. /\ stack[LastBuiltin(i)].module = stack[LastBuiltin(j)].module
        /\ stack[LastBuiltin(i)].at = stack[LastBuiltin(j)].at
    BY <1>6, <2>1, <2>2 DEF BuiltinKey
  <2>4. /\ LastBuiltin(i) \in 1 .. n - 2 /\ LastBuiltin(i) <= i
        /\ stack[LastBuiltin(i)].module \in Names
    BY <1>2, <2>2
  <2>5. LastBuiltin(j) \in 1 .. n - 2 /\ k <= LastBuiltin(j)
    BY <1>2, <1>7, <2>1
  <2>6. LastBuiltin(i) = LastBuiltin(j)
    <3>1. ~ (LastBuiltin(i) < LastBuiltin(j))
      BY <2>3, <2>4, <2>5, OneCallEach
    <3>2. ~ (LastBuiltin(j) < LastBuiltin(i))
      BY <2>3, <2>4, <2>5, OneCallEach
    <3>3. QED
      BY <2>4, <2>5, <3>1, <3>2
  <2>7. LastBuiltin(i) = i
    BY <2>4, <2>5, <2>6
  <2>8. stack[j].module \in Names
    BY <1>6, <2>4, <2>7
  <2>9. j <= LastBuiltin(j)
    BY <1>2, <1>5, <2>1, <2>8
  <2>10. QED
    BY <1>5, <2>6, <2>7, <2>9
<1>8. QED
  BY <1>5, <1>6, <1>7

\* Those calls are for files, and each file imports the next.
LEMMA CallsInCircle ==
  ASSUME LoaderInv,
         NEW i \in 1 .. Len(stack) - 2, NEW j \in 1 .. Len(stack) - 2,
         i < j, stack[i].module = stack[j].module,
         \A k \in i .. j : stack[k].module \notin Names
  PROVE  \E C \in SUBSET (Reach(Roots) \cap Files) \ {{}} : \A f \in C : FileImports(f) \cap C # {}
<1> USE DEF LoaderInv
<1> DEFINE n == Len(stack)
           C == {stack[k].module : k \in i .. j}
<1>1. n \in Nat
  BY CallsWait
<1>2. ASSUME NEW k \in i .. j
      PROVE  /\ stack[k].module \in Files
             /\ stack[k].module \in Reach(Roots)
             /\ stack[k + 1].module \in ToSet(Imports(stack[k].module))
  <2>1. k \in 1 .. n - 2 /\ k \in 1 .. n /\ k \in 1 .. n - 1
    BY <1>1
  <2>2. stack[k].module \notin Names
    OBVIOUS
  <2>3. /\ stack[k].at = "imports" /\ stack[k].next > 1
        /\ stack[k + 1].module = Imports(stack[k].module)[stack[k].next - 1]
    BY <2>1, <2>2 DEF Links
  <2>4. Follows(k)
    BY <2>1, <2>3 DEF FramesOK
  <2>5. stack[k] \in Frames
    BY <2>1, ElementOfSeq DEF LoaderTypeOK
  <2>6. Imports(stack[k].module) \in Seq(STRING)
    BY <2>5, DiskAssumption, EmptySeq DEF Imports, Frames, LoaderTypeOK
  <2>7. /\ Len(Imports(stack[k].module)) \in Nat
        /\ stack[k].next - 1 \in 1 .. Len(Imports(stack[k].module))
    BY <2>3, <2>4, <2>5, <2>6, LenProperties, SMTT(60) DEF Follows, Frames
  <2>8. stack[k].module \notin Texts
    BY <2>7, EmptySeq DEF Imports
  <2>9. stack[k].module \in Files
    BY <2>2, <2>5, <2>8 DEF Frames, Modules, Sources
  <2>10. QED
    BY <2>1, <2>3, <2>7, <2>9 DEF Sound, ToSet
<1>3. C \subseteq Reach(Roots) \cap Files
  BY <1>2
<1>4. ASSUME NEW f \in C PROVE FileImports(f) \cap C # {}
  <2>1. PICK k \in i .. j : f = stack[k].module
    OBVIOUS
  <2>2. CASE k # j
    <3>1. k + 1 \in i .. j
      BY <1>1, <2>2
    <3>2. stack[k + 1].module \in FileImports(f)
      BY <1>2, <2>1, <3>1 DEF FileImports
    <3>3. QED
      BY <3>1, <3>2
  <2>3. CASE k = j
    <3>1. i \in i .. j /\ i + 1 \in i .. j
      BY <1>1
    <3>2. f = stack[i].module
      BY <2>1, <2>3
    <3>3. stack[i + 1].module \in FileImports(f)
      BY <1>2, <3>1, <3>2 DEF FileImports
    <3>4. QED
      BY <3>1, <3>3
  <2>4. QED
    BY <2>2, <2>3
<1>5. C # {}
  <2>1. i \in i .. j
    BY <1>1
  <2>2. QED
    BY <2>1
<1>6. QED
  BY <1>3, <1>4, <1>5

\* Files that import each other in a circle are not accepted; and if the stack has
\* room for a program without a circle, nothing else exhausts it, however built-in
\* modules and the host bridge import each other.
THEOREM NoLoopButACircle ==
  ASSUME ScanFindsSql, IsFiniteSet(Modules), MaxDepth > DeepStack
  PROVE  Spec => []OnlyCirclesOverflow
<1>1. ASSUME LoaderInv, DepthInv PROVE OnlyCirclesOverflow
  <2>1. ASSUME status = "done" PROVE ~HasCircle(Needed \cap Files)
    <3>1. modules = Needed
      BY <1>1, <2>1, DoneHasNeeded
    <3>2. QED
      BY <1>1, <3>1 DEF LoaderInv, NoCircle
  <2>2. ASSUME status = "overflow" PROVE HasCircle(Needed \cap Files)
    <3>1. Len(stack) \in Nat /\ DeepStack \in Nat
      BY <1>1, CallsWait, FS_CardinalityType DEF DeepStack
    <3>2. Len(stack) > DeepStack
      BY <1>1, <2>2, <3>1 DEF DepthInv, Exhausted
    <3>3. PICK i \in 1 .. Len(stack) - 2, j \in 1 .. Len(stack) - 2 :
              /\ i < j
              /\ stack[i].module = stack[j].module
              /\ \A k \in i .. j : stack[k].module \notin Names
      BY <1>1, <3>2, CallTwice
    <3>4. PICK C \in SUBSET (Reach(Roots) \cap Files) \ {{}} : \A f \in C : FileImports(f) \cap C # {}
      BY <1>1, <3>3, CallsInCircle
    <3>5. Reach(Roots) \cap Files \subseteq Needed \cap Files
      BY <1>1, RootsAreNeeded DEF Available, Sources
    <3>6. C \in SUBSET (Needed \cap Files) \ {{}}
      BY <3>5
    <3>7. QED
      BY <3>4, <3>6 DEF HasCircle
  <2>3. QED
    BY <2>1, <2>2 DEF OnlyCirclesOverflow
<1>2. LoaderInv /\ DepthInv => OnlyCirclesOverflow
  BY <1>1
<1>3. QED
  BY <1>2, LoaderInvariant, DepthInvariant, PTL
=============================================================================
