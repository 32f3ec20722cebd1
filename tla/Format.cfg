SPECIFICATION Spec
CONSTANTS
    Programs <- Sources
    Typing <- TypedTokens
    Values <- AllLiterals
    Layouts <- SmallFiles
    MaxIndent = 2
INVARIANTS
    TypeOK
    ProgramKept
    AlwaysParses
    ChainsGrouped
    LinesAreStatements
    LiteralsKept
    CommentsWoven
    Settled
