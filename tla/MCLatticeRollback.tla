--------------------------- MODULE MCLatticeRollback ---------------------------
(***************************************************************************)
(* Four steps of a tree with uneven weights.  Two coupons are fixed in the *)
(* past and pay at an exercise time and before it, a fixed and a floating  *)
(* coupon reset at exercise times.  Exercising pays at some nodes only.    *)
(***************************************************************************)
EXTENDS LatticeRollback

MCWeight(i, j, l) == IF (i + 2 * j + l) % 3 = 0 THEN 2 ELSE 1

MCCoupons ==
    {[reset |-> -1, pay |-> 1, atReset |-> 0, atPay |-> 3, known |-> 3],
     [reset |-> -1, pay |-> 2, atReset |-> 40, atPay |-> -5, known |-> -4],
     [reset |-> 1,  pay |-> 3, atReset |-> 0, atPay |-> 3, known |-> 3],
     [reset |-> 2,  pay |-> 4, atReset |-> 40, atPay |-> -5, known |-> 0]}

MCExercises ==
    {[type |-> "Bermudan", times |-> <<-1, 1, 2>>],
     [type |-> "European", times |-> <<2>>],
     [type |-> "American", times |-> <<1, 3>>]}

=============================================================================
