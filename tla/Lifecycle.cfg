SPECIFICATION Spec
CONSTANTS
    MaxEdits = 2
    MaxLogs = 3
INVARIANTS PrintsWhatWasSaid NothingHeldBack WasmNotNewer BuildsPairs
PROPERTY PrintsBeforeServing
