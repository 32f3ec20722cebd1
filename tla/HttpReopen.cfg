SPECIFICATION FairSpec
CONSTANTS
    Requests = {r1, r2}
    Keys = {k1}
    Paths = {p}
    Files = {f, bad}
    BadFiles = {bad}
    Mem = Mem
    NoDB = NoDB
    NoReq = NoReq
    Main = Main
    Nobody = Nobody
    NotRead = NotRead
    HasTables = TRUE
    HandlersReopen = TRUE
    GcRequestInterval = 2
INVARIANTS
    TypeOK
    TransactionOwned
    NothingLeaks
    ErrorLeavesNothing
    ReopenNeverSucceeds
PROPERTIES
    LostDatabaseIsFinal
    EveryRequestAnswered
