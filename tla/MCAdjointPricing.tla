--------------------------- MODULE MCAdjointPricing ---------------------------
(***************************************************************************)
(* AdjointPricing, and with it InstrumentPricing, with two instruments     *)
(* that may share two engines; i1 expires when the date moves from 0 to 1, *)
(* i2 does not.                                                            *)
(***************************************************************************)
EXTENDS AdjointPricing, TLC

CONSTANTS i1, i2

MCInstruments == {i1, i2}
MCExpiry == (i1 :> 1) @@ (i2 :> 2)

Symmetry == Permutations(Engines)
=============================================================================
