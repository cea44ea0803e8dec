SPECIFICATION Spec
CONSTANTS
    q1 = q1
    q2 = q2
    h = h
    l1 = l1
    l2 = l2
    e = e
    v1 = v1
    v2 = v2
    Null = Null
    None = None
    Quotes <- MCQuotes
    Links <- MCLinks
    Lazies <- MCLazies
    Eagers <- MCEagers
    Inputs <- ReliableInputs
    Targets <- MCTargets
    Values <- MCValues
    Freezable = {l1}
INVARIANTS
    TypeOK
    CacheCoherent
    EagerUpToDate
    NothingPendingWhenEnabled
PROPERTIES
    FrozenResultKept
    CallsReturn
