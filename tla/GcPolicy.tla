------------------------------ MODULE GcPolicy ------------------------------
(***************************************************************************)
(* When the runtime runs Store.GC() (maybeStoreGC): forced at the end of    *)
(* `_start` and by server.gc(), and otherwise after a handler, by number of *)
(* handlers, heap growth or elapsed time.  The heap is read with            *)
(* ReadMemStats: Go's own collector may have shrunk it since.               *)
(***************************************************************************)
EXTENDS Naturals

CONSTANTS
    GcRequestInterval,      \* gcRequestInterval: handlers
    GcHeapThreshold,        \* gcHeapThresholdBytes
    GcMaxInterval,          \* gcMaxInterval
    MaxHeap,                \* bound on HeapAlloc
    MaxTime                 \* bound on the clock

ASSUME ThresholdsAssumption ==
    /\ GcRequestInterval \in Nat \ {0}
    /\ GcHeapThreshold \in Nat \ {0}
    /\ GcMaxInterval \in Nat \ {0}
    /\ MaxHeap \in Nat
    /\ MaxTime \in Nat

VARIABLES
    now,            \* time.Now()
    heap,           \* currentHeapAlloc()
    gcReqCount,     \* r.gcReqCount
    gcLastHeap,     \* r.gcLastHeap
    gcLastAt,       \* r.gcLastAt
    answered,       \* history: handlers that returned a response since the last GC
    handled,        \* history: handlers that completed since the last GC
    low,            \* history: smallest heap read since the last GC
    checked         \* history: clock and heap of the last evaluation

gc == <<gcReqCount, gcLastHeap, gcLastAt>>
history == <<answered, handled, low, checked>>
vars == <<now, heap, gcReqCount, gcLastHeap, gcLastAt, answered, handled, low, checked>>

Init ==
    /\ now = 0
    /\ heap \in 0 .. MaxHeap
    /\ gcReqCount = 0
    /\ gcLastHeap = heap
    /\ gcLastAt = 0
    /\ answered = 0
    /\ handled = 0
    /\ low = heap
    /\ checked = [at |-> 0, heap |-> heap]

\* Time passes and the program allocates, or Go collects.
Environment ==
    /\ now' \in now .. MaxTime
    /\ heap' \in 0 .. MaxHeap
    /\ UNCHANGED <<gc, history>>

\* Store.GC() and the reset of the policy; the heap is read once more afterwards.
StoreGC ==
    /\ heap' \in 0 .. MaxHeap
    /\ gcReqCount' = 0
    /\ gcLastAt' = now
    /\ gcLastHeap' = heap'
    /\ answered' = 0
    /\ handled' = 0
    /\ low' = heap'
    /\ checked' = [at |-> now, heap |-> heap']

\* Seeded fault: the baseline stays at the heap after the last collection.
BaselineKept == gcLastHeap

\* The baseline follows a heap that Go's collector has shrunk.
Baseline == IF heap >= gcLastHeap THEN gcLastHeap ELSE heap
HeapDelta == IF heap >= gcLastHeap THEN heap - gcLastHeap ELSE 0

Due ==
    \/ gcReqCount + 1 >= GcRequestInterval
    \/ HeapDelta >= GcHeapThreshold
    \/ now - gcLastAt >= GcMaxInterval

\* maybeStoreGC(true): _start has returned, or the program called server.gc().
ForcedGC == StoreGC /\ UNCHANGED now

\* invokeRouteHandler has committed: maybeStoreGC(false).
HandlerAnswers ==
    /\ IF Due
       THEN StoreGC
       ELSE /\ gcReqCount' = gcReqCount + 1
            /\ gcLastHeap' = Baseline
            /\ answered' = answered + 1
            /\ handled' = handled + 1
            /\ low' = IF heap < low THEN heap ELSE low
            /\ checked' = [at |-> now, heap |-> heap]
            /\ UNCHANGED <<heap, gcLastAt>>
    /\ UNCHANGED now

\* invokeRouteHandler returns early (no route, no database, trap, error value,
\* failed commit): the policy is not evaluated.
HandlerErrs ==
    /\ handled <= GcRequestInterval
    /\ handled' = handled + 1
    /\ UNCHANGED <<now, heap, gc, answered, low, checked>>

Next == Environment \/ ForcedGC \/ HandlerAnswers \/ HandlerErrs

Spec == Init /\ [][Next]_vars

-----------------------------------------------------------------------------
\* Types, and a clock that never runs behind the last collection.
TypeOK ==
    /\ now \in 0 .. MaxTime
    /\ heap \in 0 .. MaxHeap
    /\ gcReqCount \in Nat
    /\ gcLastHeap \in 0 .. MaxHeap
    /\ gcLastAt \in 0 .. now
    /\ answered \in Nat
    /\ handled \in Nat
    /\ low \in 0 .. MaxHeap
    /\ checked \in [at : gcLastAt .. now, heap : 0 .. MaxHeap]

\* What the policy buys: as of the last evaluation, fewer than gcRequestInterval
\* responses, less than gcHeapThreshold of growth over the smallest heap seen,
\* and less than gcMaxInterval have gone by without a collection, however Go's
\* own collector moved the heap in between.
GarbageBounded ==
    /\ answered < GcRequestInterval
    /\ checked.heap < low + GcHeapThreshold
    /\ checked.at < gcLastAt + GcMaxInterval

\* docs/spec.md 13.1: the conditions are evaluated after each handler
\* completes, so that no interval's worth of handlers ever completes without a
\* collection.  Only handlers that answered are counted.
EveryHandlerCounts == handled < GcRequestInterval
=============================================================================
