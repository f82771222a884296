SPECIFICATION GrantsSpec
CONSTANTS
    Seed = {a1, a2}
    Request = {q1, q2}
    FreeEmail = {}
    FreeName = {}
    NoUser = NoUser
    NoEntry = NoEntry
    NoCookie = NoCookie
    MaxOpen = 2
    native = native
    hosted = hosted
    home = home
    site = site
    port1 = port1
    port2 = port2
    None = None
    star = star
    below = below
    cb = cb
    other = other
    HostsOf <- MCHostsOf
    PathsOf <- MCPathsOf
    AnyPort = star
    Client = {native, hosted}
    Redirect <- MCRedirect
    Pattern <- MCPattern
    NoPort = None
    Loopback <- MCLoopback
    Call = {t1, t2, t3}
    MaxCalls = 2
SYMMETRY Symmetry
INVARIANTS
    GrantNeverForks
    TokensAreAllowed
    TokensAreCurrent
CHECK_DEADLOCK FALSE
