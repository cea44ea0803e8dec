---------------------------- MODULE MCLazyCascade ----------------------------
(***************************************************************************)
(* A small market for LazyCascade: q1 feeds l1, l2 reads the handle h, and *)
(* e hears of q1 twice, directly and through h when h is linked to l1.     *)
(* q2 can be invalid.                                                      *)
(***************************************************************************)
EXTENDS LazyCascade, TLC

CONSTANTS q1, q2, h, l1, l2, e, v1, v2

MCQuotes == {q1, q2}
MCLinks == {h}
MCLazies == {l1, l2}
MCEagers == {e}
MCValues == (q1 :> {v1, v2}) @@ (q2 :> {v1, Null})
MCTargets == (h :> {q2, l1})

\* what e reads directly can fail, what it reads of lazy objects cannot
ReliableInputs == (l1 :> {q1}) @@ (l2 :> {h}) @@ (e :> {q1, h})
=============================================================================
