---------------------------- MODULE MCSwapValuation ----------------------------
(***************************************************************************)
(* Five days: the coupon fixes on the second and pays on the fifth, the    *)
(* third is a holiday, the half month ends with the third and the month    *)
(* with the fourth.  Each of the four days of the month may be a holiday,  *)
(* its first and its last one too, so that searches for a business day     *)
(* leave the month at either end.  The index and the curve settle after    *)
(* one day.                                                                *)
(***************************************************************************)
EXTENDS SwapValuation

MCMarketHolidays == {3}
MCMonthEnds == {0, 4}
MCMonthMiddles == {3}
MCDates == {1, 2, 4}
MCHolidayDates == 1..4
MCFixingDates == {2, 4}
MCFlagValues == [includeReferenceDateEvents    |-> BOOLEAN,
                 includeTodaysCashFlows        |-> {"no"},
                 enforcesTodaysHistoricFixings |-> {TRUE}]

\* One fixing of either value, a conflict within the batch, and two dates of
\* which one or the other may be a holiday or taken.
MCBatches == LET on(d, v) == [date |-> d, value |-> v]
             IN  {<<on(2, "low")>>, <<on(2, "high")>>,
                  <<on(2, "low"), on(4, "low"), on(2, "high")>>,
                  <<on(4, "high"), on(2, "high")>>}

=============================================================================
