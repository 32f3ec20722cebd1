SPECIFICATION Spec
CONSTANTS
    Patterns <- MCPatterns
    RequestPaths <- MCRequestPaths
    Methods = {"GET", "POST"}
    Any = Any
    NoPattern = NoPattern
    Length <- MCLength
    Rank <- MCRank
CONSTRAINT FewRoutes
INVARIANTS
    ResolutionDetermined
