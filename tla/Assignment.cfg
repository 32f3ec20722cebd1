SPECIFICATION Spec
CONSTANTS
    TypeExprs <- Declared
    Values <- MCValues
    Assignable <- AssignableTo
    Strict <- MCStrict
    Instance <- IsInstance
    Same <- Equals
    Has <- MCHas
INVARIANTS HasItsType Direct FlatUnions
CHECK_DEADLOCK FALSE
