SPECIFICATION Spec
CONSTANTS
    Url = {a, b}
    Stored = 1
    MaxId = 2
    MaxWrites = 2
    MaxCrashes = 1
    MaxLoaders = 1
SYMMETRY Perms
INVARIANTS
    BloomCoversLinks
    FactsComplete
    VectorsComplete
CHECK_DEADLOCK FALSE
