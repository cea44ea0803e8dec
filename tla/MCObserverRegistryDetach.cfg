SPECIFICATION Spec
CONSTANTS
    Observers = {o1, o2}
    Observables = {s1, s2}
    Liberties = {"detach"}
SYMMETRY Symmetry
INVARIANTS
    NothingForgotten
