------------------------- MODULE MCObserverRegistry -------------------------
(***************************************************************************)
(* ObserverRegistry on two or three observers and two observables.         *)
(***************************************************************************)
EXTENDS ObserverRegistry, TLC

Symmetry == Permutations(Observers) \cup Permutations(Observables)
=============================================================================
