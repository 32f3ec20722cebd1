SPECIFICATION Spec
CONSTANTS
    Procs = {p1}
    NTables = 1
    Files = {f}
    NoDB = NoDB
    Mem = Mem
INVARIANTS
    ConstsFindTables
