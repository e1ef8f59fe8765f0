CONSTANTS
    Sources = {s1, s2}
    Prefixes = {d, p1}
    Paths = {a1}
    Flags = {f1}
    EXCLUSIVE = EXCLUSIVE
    DROP = DROP
    NoEntry = NoEntry
    NoSrc = NoSrc
    DefaultRoute = DefaultRoute
    DefaultPrefix = d
    Parent <- FlatParent
    Hosts = {}
    MaxLocks = 1
    MaxMarks = 2
SYMMETRY SrcPfxSymmetry
SPECIFICATION Spec
INVARIANTS
    TypeOK
    RouteCountAccurate
    EntryRefsSound
    ResyncExact
    TableDestroyedEmpty
PROPERTIES
    RoutesRefined
