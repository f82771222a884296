SPECIFICATION Spec
CONSTANTS
    None = None
    LinkId = {1, 2, 3, 4}
    Category = {1, 2, 3}
    Parent <- MCParent
    Text = {"a", "b"}
    Name = {"n", "m"}
    Form <- MCForm
    Slot = {r, s}
    PageSize = 1
    Live <- MCLive
    MaxRequests = 3
    MaxFaults = 1
SYMMETRY Symmetry
CHECK_DEADLOCK FALSE
INVARIANTS
    FactsMatchText
    EveryTextIsEnriched
    WalksMissNothing
