---------------------------- MODULE MCExchangeRates ----------------------------
(***************************************************************************)
(* Currency 1 replaced currency 5 on the second of three days.  Among 1 to *)
(* 4 rates may be added that overlap in time, are quoted either way round  *)
(* and leave dead ends; a direct rate for 5 may be added as well.          *)
(***************************************************************************)
EXTENDS ExchangeRates

MCTriangulation == [c \in Currency |-> IF c = 5 THEN 1 ELSE NoCurrency]

Quoted(source, target, factor, start, end) ==
    [rate |-> NewRate(source, target, factor), start |-> start, end |-> end]

MCKnownRates == <<Quoted(1, 5, 2, 2, 3)>>

MCNewEntries ==
    {Quoted(1, 2, 3, 1, 2), Quoted(2, 1, 10, 2, 3), Quoted(2, 3, 30, 1, 3),
     Quoted(3, 4, 100, 1, 3), Quoted(4, 1, 300, 1, 3), Quoted(3, 1, 1000, 1, 1),
     Quoted(5, 2, 3000, 1, 3)}

=============================================================================
