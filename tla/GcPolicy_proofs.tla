--------------------------- MODULE GcPolicy_proofs ---------------------------
(* Proofs about GcPolicy, for any thresholds. *)
EXTENDS GcPolicy, TLAPS

\* What relates the counters of the code to the history: the baseline is the
\* smallest heap an evaluation has read since the last collection, and exactly
\* the handlers that answered are counted.
Baselines ==
    /\ gcLastHeap = low
    /\ gcReqCount = answered

\* Before the first collection the baseline is the heap that NewRuntime read.
LEMMA InitInv == Init => TypeOK /\ Baselines /\ GarbageBounded
  BY ThresholdsAssumption DEF Init, TypeOK, Baselines, GarbageBounded

\* Every evaluation keeps the bounds, and nothing between evaluations does away
\* with them.
LEMMA InvStep ==
  TypeOK /\ Baselines /\ GarbageBounded /\ [Next]_vars => (TypeOK /\ Baselines /\ GarbageBounded)'
<1> SUFFICES ASSUME TypeOK, Baselines, GarbageBounded, [Next]_vars
             PROVE  (TypeOK /\ Baselines /\ GarbageBounded)'
  OBVIOUS
<1> USE ThresholdsAssumption DEF TypeOK, Baselines, GarbageBounded
<1>1. CASE Environment
  BY <1>1 DEF Environment, gc, history
<1>2. ASSUME StoreGC, UNCHANGED now PROVE (TypeOK /\ Baselines /\ GarbageBounded)'
  <2>1. now \in Nat /\ now' = now /\ gcLastAt' = now /\ heap' \in Nat
    BY <1>2 DEF StoreGC
  <2>2. checked'.at = now /\ checked'.heap = heap' /\ checked' = [at |-> now, heap |-> heap']
    BY <1>2 DEF StoreGC
  <2>3. TypeOK'
    BY <1>2, <2>1, <2>2 DEF StoreGC
  <2>4. PICK h \in Nat : heap' = h
    BY <2>1
  <2>5. GcMaxInterval \in Nat \ {0} /\ GcHeapThreshold \in Nat \ {0} /\ GcRequestInterval \in Nat \ {0}
    OBVIOUS
  <2>6. now < now + GcMaxInterval /\ h < h + GcHeapThreshold /\ 0 < GcRequestInterval
    BY <2>1, <2>5
  <2>7. answered' = 0 /\ low' = h /\ checked'.heap = h
    BY <1>2, <2>2, <2>4 DEF StoreGC
  <2>8. GarbageBounded'
    BY <2>1, <2>2, <2>6, <2>7
  <2> QED
    BY <1>2, <2>3, <2>8 DEF StoreGC
<1>3. CASE ForcedGC
  BY <1>2, <1>3 DEF ForcedGC
<1>4. CASE HandlerAnswers
  <2>1. CASE Due
    BY <1>2, <1>4, <2>1 DEF HandlerAnswers
  <2>2. CASE ~ Due /\ heap >= gcLastHeap
    BY <1>4, <2>2 DEF HandlerAnswers, Due, Baseline, HeapDelta
  <2>3. CASE ~ Due /\ heap < gcLastHeap
    BY <1>4, <2>3 DEF HandlerAnswers, Due, Baseline, HeapDelta
  <2> QED
    BY <2>1, <2>2, <2>3
<1>5. CASE HandlerErrs
  BY <1>5 DEF HandlerErrs, gc
<1>6. CASE UNCHANGED vars
  BY <1>6 DEF vars
<1> HIDE DEF TypeOK, Baselines, GarbageBounded
<1> QED
  BY <1>1, <1>3, <1>4, <1>5, <1>6 DEF Next

\* As of the last evaluation, answers, heap growth and elapsed time since the
\* last collection are all below their thresholds, for any thresholds and
\* whatever Go's own collector does to the heap.
THEOREM GarbageIsBounded == Spec => []GarbageBounded
<1> QED
  BY InitInv, InvStep, PTL DEF Spec

\* The types of the policy's variables.
THEOREM TypeCorrect == Spec => []TypeOK
<1> QED
  BY InitInv, InvStep, PTL DEF Spec
=============================================================================
