SPECIFICATION Spec
CONSTANTS
    GcRequestInterval = 3
    GcHeapThreshold = 2
    GcMaxInterval = 3
    MaxHeap = 4
    MaxTime = 5
INVARIANTS
    GarbageBounded
