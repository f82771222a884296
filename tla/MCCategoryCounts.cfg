SPECIFICATION Spec
CONSTANTS
    DepthMax = 3
    MaxCategory = 4
    MaxLink = 2
    MaxDeep = 3
INVARIANTS
    DirectCountsExact
    SubtreeCountsExact
PROPERTY
    RecountIsExact
CHECK_DEADLOCK FALSE
