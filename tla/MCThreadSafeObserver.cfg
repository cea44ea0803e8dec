SPECIFICATION Spec
CONSTANTS
    q = q
    l = l
    plain = plain
    twin = twin
    main = main
    other = other
    Threads <- MCThreads
    Sources = {q}
    Observers = {l, plain, twin}
    OnStack = {twin}
    Copies = {twin}
    Forwarders = {l}
    Throwing = {plain}
    Registrations <- MCRegistrations
    May <- Collecting
INVARIANTS
    NoDeadlock
    NoUpdateInDestruction
    AllTold
    NothingLeftBehind
