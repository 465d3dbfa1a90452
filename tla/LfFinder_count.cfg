SPECIFICATION Spec
CONSTANTS
    Requested = 2
    Procs = 2
    base = base
    sub = sub
    priv = priv
    Base = base
    Dir <- MCDir
    Entry = {"sub", "x", "file"}
    In <- TreeIn
    Kind <- TreeKind
    Target <- TreeTarget
    Nowhere = nowhere
    Hidden = {}
    Wanted = {"x", "file"}
    Unreadable = {priv}
    FollowLinks = TRUE
    IncludeHidden = FALSE
    HiddenOnly = FALSE
    MaxDepth = 0
    Worker = {w1, w2}
    Main = main
    NoOne = noone
    MaxSpurious = 1
INVARIANT CountExact
