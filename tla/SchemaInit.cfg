SPECIFICATION Spec
CONSTANTS
    Procs = {p1, p2}
    NTables = 2
    Files = {f}
    NoDB = NoDB
    Mem = Mem
SYMMETRY Symmetry
INVARIANTS
    OpenMeansSchema
PROPERTIES
    SchemaNeverAltered
