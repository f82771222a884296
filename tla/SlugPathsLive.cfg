SPECIFICATION FairSpec
CONSTANTS
    Slug = {top, a}
    Top = top
    Threshold = 0
    ChunkSize = 1
    DepthMax = 3
    Reader = {r}
    MaxCat = 3
    MaxWrites = 4
    MaxRestarts = 1
INVARIANTS
    RepairConverges
    RepairLosesNoCategory
    ValidatedLookupsAreCurrent
PROPERTY
    RepairQueueDrains
CHECK_DEADLOCK FALSE
