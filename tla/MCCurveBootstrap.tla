--------------------------- MODULE MCCurveBootstrap ---------------------------
(***************************************************************************)
(* CurveBootstrap with two helpers.  Rates differ by more than a factor of *)
(* two, so that the last curve can be a bad guess; the largest cannot be   *)
(* reached without a guess.  They are odd and what the bootstrap itself    *)
(* puts into nodes is even, so no node has the right value by chance.      *)
(***************************************************************************)
EXTENDS CurveBootstrap

MCPillar == <<1, 2>>
=============================================================================
