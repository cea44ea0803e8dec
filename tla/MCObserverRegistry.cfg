SPECIFICATION Spec
CONSTANTS
    Observers = {o1, o2, o3}
    Observables = {s1, s2}
    Liberties = {}
SYMMETRY Symmetry
INVARIANTS
    TypeOK
    RegistrationSymmetric
    NoDanglingDeferred
    NoLostUpdate
    AllToldWhenEnabled
    NoSpuriousUpdate
