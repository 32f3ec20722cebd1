SPECIFICATION Spec
CONSTANTS
    Files <- MCFiles
    Texts <- MCTexts
    Names <- MCNames
    ShortNames = {"xy"}
    Backend = "gc"
    Entry = "main"
    Programs <- MCPrograms
    LibPlaces <- MCPlaces
    MaxDepth = 8
    HasSql <- ModuleNeedsSqlite
    WithCode <- Filter
INVARIANTS
    LoadedExactly
    DependenciesFirst
    OnlyCirclesOverflow
    FaultsReported
    OnlyCodelessLeftOut
PROPERTIES
    LoadEnds
