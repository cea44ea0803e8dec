SPECIFICATION Spec
CONSTANTS
    q = q
    l = l
    plain = plain
    twin = twin
    main = main
    other = other
    Threads <- MCThreads
    Sources = {q}
    Observers = {l, plain}
    OnStack = {}
    Copies = {}
    Forwarders = {l}
    Throwing = {}
    Registrations <- SharedRegistrations
    May <- Sharing
INVARIANTS
    NoDeadlock
