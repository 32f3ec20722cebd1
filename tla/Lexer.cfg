SPECIFICATION Spec
CONSTANTS
    Texts <- AllTexts
    MaxSaved = 1
INVARIANTS
    Tiled
    CommentsOnce
    InlineMeansAfterCode
