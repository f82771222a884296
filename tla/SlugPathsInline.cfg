SPECIFICATION Spec
CONSTANTS
    Slug = {top, a, b}
    Top = top
    Threshold = 4
    ChunkSize = 1
    DepthMax = 4
    Reader = {r}
    MaxCat = 4
    MaxWrites = 5
    MaxRestarts = 1
SYMMETRY Perms
INVARIANT
    LookupsAreCurrent
CHECK_DEADLOCK FALSE
