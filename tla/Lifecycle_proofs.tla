--------------------------- MODULE Lifecycle_proofs ---------------------------
(***************************************************************************)
(* Proofs about Lifecycle, for any number of edits and of logged texts.       *)
(***************************************************************************)
EXTENDS Lifecycle, TLAPS

\* What the steps need to know of texts, so that they need not look into them.
LEMMA Concatenation ==
  /\ <<>> \in Texts
  /\ \A s, t \in Texts : s \o t \in Texts
  /\ \A s \in Texts : <<>> \o s = s /\ s \o <<>> = s
  /\ \A s, t, u \in Texts : s \o (t \o u) = (s \o t) \o u
<1> USE DEF Texts
<1>1. <<>> \in Texts
  OBVIOUS
<1>2. \A s, t \in Texts : s \o t \in Texts
  OBVIOUS
<1>3. \A s \in Texts : <<>> \o s = s /\ s \o <<>> = s
  OBVIOUS
<1>4. \A s, t, u \in Texts : s \o (t \o u) = (s \o t) \o u
  OBVIOUS
<1> QED BY <1>1, <1>2, <1>3, <1>4

\* What comes first in a text is a prefix of it.
LEMMA PrefixOfText ==
  \A s, t \in Texts : IsPrefix(s, s \o t) /\ IsPrefix(s, s) /\ IsPrefix(<<>>, s)
<1> TAKE s, t \in Texts
<1> USE DEF Texts
<1>1. IsPrefix(s, s \o t)
  <2>1. Len(s) <= Len(s \o t)
    OBVIOUS
  <2>2. SubSeq(s, 1, Len(s)) = SubSeq(s \o t, 1, Len(s))
    OBVIOUS
  <2> QED BY <2>1, <2>2 DEF IsPrefix
<1>2. IsPrefix(s, s)
  BY DEF IsPrefix
<1>3. IsPrefix(<<>>, s)
  BY DEF IsPrefix
<1> QED BY <1>1, <1>2, <1>3

\* A text that comes to what is not printed yet comes to what was said.
LEMMA LaterText ==
  \A s, t, u \in Texts : s \o (t \o u) = (s \o t) \o u /\ IsPrefix(s, (s \o t) \o u)
<1> TAKE s, t, u \in Texts
<1>1. s \o (t \o u) = (s \o t) \o u
  BY Concatenation
<1>2. t \o u \in Texts
  BY Concatenation
<1>3. IsPrefix(s, s \o (t \o u))
  BY <1>2, PrefixOfText
<1> QED BY <1>1, <1>3

\* What LogText does, whatever the text.
LEMMA LogTextEffect ==
  ASSUME TypeOK, LogText
  PROVE  \E text \in Texts :
           /\ \/ sandboxed /\ inner' = inner \o text /\ UNCHANGED <<output, said>>
              \/ ~ sandboxed /\ output' = output \o text /\ said' = said \o text /\ UNCHANGED inner
           /\ Running
           /\ UNCHANGED <<files, cmd, phase, code, pending, sandboxed, result, stdout, exit>>
<1> DEFINE text == <<<<IF sandboxed THEN "sandbox" ELSE "program", Item>>>>
<1>1. Item \in Nat
  BY DEF TypeOK, Item, Texts
<1>2. text \in Texts
  BY <1>1 DEF Texts, Items
<1>3. CASE sandboxed
  BY <1>2, <1>3 DEF LogText, LogInner
<1>4. CASE ~ sandboxed
  BY <1>2, <1>4 DEF LogText, Log
<1> QED BY <1>3, <1>4

\* The type invariant is inductive.
LEMMA TypeStep == TypeOK /\ CodeInv /\ [Next]_vars => TypeOK'
<1> SUFFICES ASSUME TypeOK, CodeInv, [Next]_vars PROVE TypeOK'
  OBVIOUS
<1> USE BoundsAssumption, Concatenation DEF TypeOK, CodeInv, Before, Executing, files, run, box
<1>1. CASE Edit
  BY <1>1 DEF Edit
<1>2. CASE Start
  <2>1. phase' \in {"idle"} \cup Before \cup Executing /\ cmd' \in {"none", "build", "run", "launch"}
    BY <1>2 DEF Start
  <2>2. /\ source' \in 1 .. MaxEdits /\ wat' \in -1 .. source' /\ wasm' \in -1 .. source' /\ code' \in -1 .. source'
    BY <1>2 DEF Start
  <2>3. output' \in Texts /\ inner' \in Texts /\ result' \in Texts /\ stdout' \in Texts /\ said' \in Texts
    BY <1>2 DEF Start
  <2>4. pending' \in BOOLEAN /\ sandboxed' \in BOOLEAN /\ exit' \in {0, 1, 9}
    BY <1>2 DEF Start
  <2>5. phase' \in Executing \cup {"instantiate", "read"} => cmd' # "build"
    BY <1>2 DEF Start
  <2> QED BY <2>1, <2>2, <2>3, <2>4, <2>5
<1>3. CASE Compile
  BY <1>3 DEF Compile, Exit
<1>4. CASE WriteWat
  BY <1>4 DEF WriteWat, Write, Exit
<1>5. CASE WriteWasm
  BY <1>5 DEF WriteWasm, Write, Exit
<1>6. CASE Read
  BY <1>6 DEF Read, Exit
<1>7. CASE Instantiate
  BY <1>7 DEF Instantiate, Exit
<1>8. CASE LogText
  <2>1. PICK text \in Texts :
           /\ \/ sandboxed /\ inner' = inner \o text /\ UNCHANGED <<output, said>>
              \/ ~ sandboxed /\ output' = output \o text /\ said' = said \o text /\ UNCHANGED inner
           /\ Running
           /\ UNCHANGED <<files, cmd, phase, code, pending, sandboxed, result, stdout, exit>>
    BY <1>8, LogTextEffect
  <2>2. inner \o text \in Texts /\ output \o text \in Texts /\ said \o text \in Texts
    BY Concatenation, Zenon
  <2> QED BY <2>1, <2>2 DEF Running
<1>9. CASE LogResult
  BY <1>9 DEF LogResult, Log, Running
<1>10. CASE Sandbox
  BY <1>10 DEF Sandbox, Running
<1>11. CASE SandboxEnds
  BY <1>11 DEF SandboxEnds, Running
<1>12. CASE Listen
  BY <1>12 DEF Listen
<1>13. CASE MainReturns
  BY <1>13 DEF MainReturns
<1>14. CASE Trap
  BY <1>14 DEF Trap, Exit
<1>15. CASE Flush
  BY <1>15 DEF Flush
<1>16. CASE ServingFails
  BY <1>16 DEF ServingFails, Exit
<1>17. CASE Return
  BY <1>17 DEF Return, Exit
<1>18. CASE Kill
  BY <1>18 DEF Kill, Write, Exit
<1>19. CASE UNCHANGED vars
  BY <1>19 DEF vars
<1> QED BY <1>1, <1>2, <1>3, <1>4, <1>5, <1>6, <1>7, <1>8, <1>9, <1>10, <1>11, <1>12, <1>13, <1>14, <1>15, <1>16, <1>17, <1>18, <1>19 DEF Next

\* What is said of the code and the files is inductive.
LEMMA CodeStep == TypeOK /\ CodeInv /\ [Next]_vars => CodeInv'
<1> SUFFICES ASSUME TypeOK, CodeInv, [Next]_vars PROVE CodeInv'
  OBVIOUS
<1> USE DEF TypeOK, CodeInv, BuildsPairs, WasmNotNewer, Before, Executing, files, run, box
<1>1. CASE Edit
  BY <1>1 DEF Edit
<1>2. CASE Start
  BY <1>2 DEF Start
<1>3. CASE Compile
  BY <1>3 DEF Compile, Exit
<1>4. CASE WriteWat
  BY <1>4 DEF WriteWat, Write, Exit
<1>5. CASE WriteWasm
  BY <1>5 DEF WriteWasm, Write, Exit
<1>6. CASE Read
  BY <1>6 DEF Read, Exit
<1>7. CASE Instantiate
  BY <1>7 DEF Instantiate, Exit
<1>8. CASE LogText
  BY <1>8 DEF LogText, Log, LogInner, Item, Running
<1>9. CASE LogResult
  BY <1>9 DEF LogResult, Log, Running
<1>10. CASE Sandbox
  BY <1>10 DEF Sandbox, Running
<1>11. CASE SandboxEnds
  BY <1>11 DEF SandboxEnds, Running
<1>12. CASE Listen
  BY <1>12 DEF Listen
<1>13. CASE MainReturns
  BY <1>13 DEF MainReturns
<1>14. CASE Trap
  BY <1>14 DEF Trap, Exit
<1>15. CASE Flush
  BY <1>15 DEF Flush
<1>16. CASE ServingFails
  BY <1>16 DEF ServingFails, Exit
<1>17. CASE Return
  BY <1>17 DEF Return, Exit
<1>18. CASE Kill
  BY <1>18 DEF Kill, Write, Exit
<1>19. CASE UNCHANGED vars
  BY <1>19 DEF vars
<1> QED BY <1>1, <1>2, <1>3, <1>4, <1>5, <1>6, <1>7, <1>8, <1>9, <1>10, <1>11, <1>12, <1>13, <1>14, <1>15, <1>16, <1>17, <1>18, <1>19 DEF Next

\* What is said of the output is inductive.
LEMMA OutputStep == TypeOK /\ OutputInv /\ [Next]_vars => OutputInv'
<1> SUFFICES ASSUME TypeOK, OutputInv, [Next]_vars PROVE OutputInv'
  OBVIOUS
<1> USE Concatenation DEF TypeOK, OutputInv, NothingHeldBack, PrintsWhatWasSaid, Before, Executing, files, run, box
<1>1. CASE Edit
  BY <1>1 DEF Edit
<1>2. CASE Start
  <2>1. stdout' = <<>> /\ output' = <<>> /\ said' = <<>> /\ phase' \in {"read", "compile"}
    BY <1>2 DEF Start
  <2>2. IsPrefix(stdout', said')
    BY <2>1, PrefixOfText
  <2> QED BY <2>1, <2>2
<1>3. CASE Compile
  BY <1>3 DEF Compile, Exit
<1>4. CASE WriteWat
  BY <1>4 DEF WriteWat, Write, Exit
<1>5. CASE WriteWasm
  BY <1>5 DEF WriteWasm, Write, Exit
<1>6. CASE Read
  BY <1>6 DEF Read, Exit
<1>7. CASE Instantiate
  BY <1>7 DEF Instantiate, Exit
<1>8. CASE LogText
  <2>1. PICK text \in Texts :
           /\ \/ sandboxed /\ inner' = inner \o text /\ UNCHANGED <<output, said>>
              \/ ~ sandboxed /\ output' = output \o text /\ said' = said \o text /\ UNCHANGED inner
           /\ Running
           /\ UNCHANGED <<files, cmd, phase, code, pending, sandboxed, result, stdout, exit>>
    BY <1>8, LogTextEffect
  <2>2. CASE phase = "start"
    <3>1. said \o text \in Texts
      BY Concatenation, Zenon
    <3>2. IsPrefix(stdout', said')
      BY <2>1, <2>2, <3>1, PrefixOfText
    <3> QED BY <2>1, <2>2, <3>2
  <2>3. CASE phase = "serving"
    <3>1. stdout \o output = said
      BY <2>3
    <3>2. stdout \in Texts /\ output \in Texts /\ said \in Texts /\ text \in Texts
      OBVIOUS
    <3> HIDE DEF TypeOK, OutputInv, NothingHeldBack, PrintsWhatWasSaid
    <3>3. stdout \o (output \o text) = said \o text /\ IsPrefix(stdout, said \o text)
      <4>1. /\ stdout \o (output \o text) = (stdout \o output) \o text
            /\ IsPrefix(stdout, (stdout \o output) \o text)
        BY <3>2, LaterText, Zenon
      <4> QED BY <3>1, <4>1, Zenon
    <3> USE DEF TypeOK, OutputInv, NothingHeldBack, PrintsWhatWasSaid
    <3> QED BY <2>1, <2>3, <3>3
  <2> QED BY <2>1, <2>2, <2>3 DEF Running
<1>9. CASE LogResult
  <2>1. /\ output' = output \o result /\ said' = said \o result
        /\ UNCHANGED <<stdout, phase, cmd, exit>> /\ phase \in {"start", "serving"}
    BY <1>9 DEF LogResult, Log, Running
  <2>2. CASE phase = "start"
    <3>1. IsPrefix(stdout', said')
      BY <2>1, <2>2, PrefixOfText
    <3> QED BY <2>1, <2>2, <3>1
  <2>3. CASE phase = "serving"
    <3>1. stdout \o output = said
      BY <2>3
    <3>2. stdout \in Texts /\ output \in Texts /\ said \in Texts /\ result \in Texts
      OBVIOUS
    <3> HIDE DEF TypeOK, OutputInv, NothingHeldBack, PrintsWhatWasSaid
    <3>3. stdout \o (output \o result) = said \o result /\ IsPrefix(stdout, said \o result)
      <4>1. /\ stdout \o (output \o result) = (stdout \o output) \o result
            /\ IsPrefix(stdout, (stdout \o output) \o result)
        BY <3>2, LaterText, Zenon
      <4> QED BY <3>1, <4>1, Zenon
    <3> USE DEF TypeOK, OutputInv, NothingHeldBack, PrintsWhatWasSaid
    <3> QED BY <2>1, <2>3, <3>3
  <2> QED BY <2>1, <2>2, <2>3
<1>10. CASE Sandbox
  BY <1>10 DEF Sandbox, Running
<1>11. CASE SandboxEnds
  BY <1>11 DEF SandboxEnds, Running
<1>12. CASE Listen
  BY <1>12 DEF Listen
<1>13. CASE MainReturns
  BY <1>13 DEF MainReturns
<1>14. CASE Trap
  BY <1>14 DEF Trap, Exit
<1>15. CASE Flush
  <2>1. stdout' = said /\ output' = <<>> /\ said' = said /\ phase' = "serving"
    BY <1>15 DEF Flush
  <2>2. IsPrefix(stdout', said')
    BY <2>1, PrefixOfText
  <2> QED BY <2>1, <2>2
<1>16. CASE ServingFails
  BY <1>16 DEF ServingFails, Exit
<1>17. CASE Return
  <2>1. stdout' = said /\ said' = said /\ phase' = "idle"
    BY <1>17 DEF Return, Exit
  <2>2. IsPrefix(stdout', said')
    BY <2>1, PrefixOfText
  <2> QED BY <2>1, <2>2
<1>18. CASE Kill
  BY <1>18 DEF Kill, Write, Exit
<1>19. CASE UNCHANGED vars
  BY <1>19 DEF vars
<1> QED BY <1>1, <1>2, <1>3, <1>4, <1>5, <1>6, <1>7, <1>8, <1>9, <1>10, <1>11, <1>12, <1>13, <1>14, <1>15, <1>16, <1>17, <1>18, <1>19 DEF Next

\* The invariant of Lifecycle.
LEMMA Invariant == Spec => []IInv
<1>1. Init => IInv
  <2> SUFFICES ASSUME Init PROVE IInv
    OBVIOUS
  <2>1. TypeOK
    <3>1. <<>> \in Texts
      BY Concatenation
    <3>2. output \in Texts /\ inner \in Texts /\ result \in Texts /\ stdout \in Texts /\ said \in Texts
      BY <3>1 DEF Init
    <3>3. source \in 1 .. MaxEdits /\ wat \in -1 .. source /\ wasm \in -1 .. source /\ code \in -1 .. source
      BY BoundsAssumption DEF Init
    <3> QED BY <3>2, <3>3 DEF Init, TypeOK, Before, Executing
  <2>2. CodeInv
    BY DEF Init, CodeInv, BuildsPairs, WasmNotNewer
  <2>3. IsPrefix(stdout, said)
    BY <2>1, PrefixOfText DEF Init, TypeOK
  <2>4. OutputInv
    BY <2>3 DEF Init, OutputInv, NothingHeldBack, PrintsWhatWasSaid, Before
  <2> QED BY <2>1, <2>2, <2>4 DEF IInv
<1>2. IInv /\ [Next]_vars => IInv'
  BY TypeStep, CodeStep, OutputStep DEF IInv
<1> QED BY <1>1, <1>2, PTL DEF Spec

\* Lifecycle is type-correct.
THEOREM TypeCorrect == Spec => []TypeOK
<1>1. IInv => TypeOK
  BY DEF IInv
<1> QED BY <1>1, Invariant, PTL

\* Nothing is printed that the program did not log, nothing twice, and nothing out
\* of order: what a sandbox logs reaches stdout only through the program.
THEOREM PrintsOnlyWhatWasSaid == Spec => []PrintsWhatWasSaid
<1>1. IInv => PrintsWhatWasSaid
  BY DEF IInv, OutputInv
<1> QED BY <1>1, Invariant, PTL

\* A program that ends well has printed all it logged.
THEOREM HoldsNothingBack == Spec => []NothingHeldBack
<1>1. IInv => NothingHeldBack
  BY DEF IInv, OutputInv
<1> QED BY <1>1, Invariant, PTL

\* Whatever builds were killed or failed before, the .wasm is not newer than the .wat.
THEOREM WasmIsNotNewer == Spec => []WasmNotNewer
<1>1. IInv => WasmNotNewer
  BY DEF IInv, CodeInv
<1> QED BY <1>1, Invariant, PTL

\* The two files of a successful build are of one source.
THEOREM BuildsArePairs == Spec => []BuildsPairs
<1>1. IInv => BuildsPairs
  BY DEF IInv, CodeInv
<1> QED BY <1>1, Invariant, PTL

\* The server starts when what main logged is printed.
THEOREM ServesAfterPrinting == Spec => PrintsBeforeServing
<1> DEFINE Prints == phase # "serving" /\ phase' = "serving" => stdout' = said
<1>1. IInv /\ [Next]_vars => [Prints]_vars
  <2> SUFFICES ASSUME IInv, [Next]_vars, phase # "serving", phase' = "serving" PROVE stdout' = said
    OBVIOUS
  <2>1. Flush
    BY DEF vars, Next, Edit, Start, Compile, WriteWat, WriteWasm, Read, Instantiate, LogText, LogResult, Sandbox,
           SandboxEnds, Listen, MainReturns, Trap, ServingFails, Return, Kill, Exit
  <2>2. stdout = <<>> /\ output = said /\ said \in Texts
    BY <2>1 DEF IInv, TypeOK, OutputInv, Flush
  <2>3. stdout' = <<>> \o said
    BY <2>1, <2>2 DEF Flush
  <2> QED BY <2>2, <2>3, Concatenation
<1> QED BY <1>1, Invariant, PTL DEF Spec, PrintsBeforeServing
=============================================================================
