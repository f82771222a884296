SPECIFICATION Spec
CONSTANTS
    Seed = {a1, a2}
    Request = {q1, q2, q3}
    FreeEmail = {e1}
    FreeName = {n1}
    NoUser = NoUser
    NoEntry = NoEntry
    NoCookie = NoCookie
    MaxOpen = 2
SYMMETRY Symmetry
INVARIANT
    IndexesAgree
PROPERTIES
    WritesAreIsolated
    LastAdminNeedsARace
CHECK_DEADLOCK FALSE
