SPECIFICATION Spec
CONSTANTS
    Requests = {r1, r2}
    Keys = {k1, k2}
    Paths = {p}
    Files = {f, bad}
    BadFiles = {bad}
    Mem = Mem
    NoDB = NoDB
    NoReq = NoReq
    Main = Main
    Nobody = Nobody
    NotRead = NotRead
    HasTables = FALSE
    HandlersReopen = FALSE
    GcRequestInterval = 1
SYMMETRY Symmetry
PROPERTIES
    ImplementsSerialStore
