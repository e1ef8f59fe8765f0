CONSTANTS
    dflt = dflt
    g1 = g1
    g2 = g2
    sg1 = sg1
    Sources = {s1}
    Prefixes <- CoverPrefixes
    Paths = {a1}
    Flags = {f1}
    EXCLUSIVE = EXCLUSIVE
    DROP = DROP
    NoEntry = NoEntry
    NoSrc = NoSrc
    DefaultRoute = DefaultRoute
    DefaultPrefix = dflt
    Parent <- CoverParent
    Hosts = {sg1}
    MaxLocks = 1
    MaxMarks = 1
SPECIFICATION Spec
INVARIANTS
    CoverAccurate
