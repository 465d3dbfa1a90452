SPECIFICATION FairSpec
CONSTANTS
    Requested = 3
    Procs = 4
    base = base
    sub = sub
    priv = priv
    Base = base
    Dir <- MCDir
    Entry = {"sub", "x", "priv", "bad"}
    In <- TreeIn
    Kind <- TreeKind
    Target <- TreeTarget
    Nowhere = nowhere
    Hidden = {}
    Wanted = {"sub", "x", "bad"}
    Unreadable = {priv}
    FollowLinks = TRUE
    IncludeHidden = FALSE
    HiddenOnly = FALSE
    MaxDepth = 0
    Worker = {w1, w2, w3}
    Main = main
    NoOne = noone
    MaxSpurious = 1
INVARIANTS TypeOK ActiveCount NoEarlyShutDown Complete ReadOnce SomeoneAwake
PROPERTIES ImplementsWalk Termination
