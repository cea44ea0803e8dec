---------------------------- MODULE HolidayCalendar ----------------------------
(***************************************************************************)
(* A calendar (ql/time/calendar.hpp, calendar.cpp).  All Calendar objects  *)
(* of one market share one implementation, and with it the two sets of     *)
(* dates that clients add to and remove from its holidays.  A date is an   *)
(* integer; the holidays of the market itself and the last days of its     *)
(* months and half months are constants.                                   *)
(***************************************************************************)
EXTENDS Integers, FiniteSets, FiniteSetsExt

CONSTANTS MarketHolidays,   \* impl_->isBusinessDay(d) is false on these
          MonthEnds,        \* the last day of each month
          MonthMiddles      \* the 15th of each month

ASSUME CalendarConstants ==
    /\ MarketHolidays \in SUBSET Int /\ IsFiniteSet(MarketHolidays)
    /\ MonthEnds \in SUBSET Int /\ MonthMiddles \in SUBSET Int

VARIABLES addedHolidays, removedHolidays

calendarVars == <<addedHolidays, removedHolidays>>

CalendarInit == addedHolidays = {} /\ removedHolidays = {}

\* The dates on which isHoliday() holds, for given sets of the two kinds.
HolidaysWith(added, removed) == added \union (MarketHolidays \ removed)

isHoliday == HolidaysWith(addedHolidays, removedHolidays)

addHoliday(d) ==
    /\ removedHolidays' = removedHolidays \ {d}
    /\ addedHolidays' = IF d \in MarketHolidays THEN addedHolidays
                                                ELSE addedHolidays \union {d}

removeHoliday(d) ==
    /\ addedHolidays' = addedHolidays \ {d}
    /\ removedHolidays' = IF d \in MarketHolidays THEN removedHolidays \union {d}
                                                  ELSE removedHolidays

-----------------------------------------------------------------------------
(***************************************************************************)
(* Dates, for a finite set hol of holidays.  The loops of the code end: no *)
(* run of holidays is longer than the set.                                 *)
(***************************************************************************)

NextBusinessDay(hol, d) == Min({e \in d .. d + Cardinality(hol) : e \notin hol})

LastBusinessDay(hol, d) == Max({e \in d - Cardinality(hol) .. d : e \notin hol})

\* d and e, with d <= e, are in one month; and in one half of it.
SameMonth(d, e) == ~\E m \in MonthEnds : d <= m /\ m < e

SameHalf(d, e) == SameMonth(d, e) /\ ~\E m \in MonthMiddles : d <= m /\ m < e

Conventions == {"Following", "ModifiedFollowing", "HalfMonthModifiedFollowing",
                "Preceding", "ModifiedPreceding", "Nearest", "Unadjusted"}

\* fault: the month is not looked at.
FollowingAcrossMonths(hol, d) == NextBusinessDay(hol, d)

ModifiedFollowing(hol, d) ==
    LET next == NextBusinessDay(hol, d)
    IN  IF SameMonth(d, next) THEN next ELSE LastBusinessDay(hol, d)

Nearest(hol, d) ==
    LET next == NextBusinessDay(hol, d)
        last == LastBusinessDay(hol, d)
    IN  IF next - d <= d - last THEN next ELSE last

adjust(hol, d, convention) ==
    LET next == NextBusinessDay(hol, d)
        last == LastBusinessDay(hol, d)
    IN  CASE convention = "Unadjusted" -> d
          [] convention = "Following" -> next
          [] convention = "ModifiedFollowing" -> ModifiedFollowing(hol, d)
          [] convention = "HalfMonthModifiedFollowing" ->
                IF SameHalf(d, next) THEN next ELSE last
          [] convention = "Preceding" -> last
          [] convention = "ModifiedPreceding" ->
                IF SameMonth(last, d) THEN last ELSE next
          [] convention = "Nearest" -> Nearest(hol, d)

\* The business day reached after n of them, for n of either sign.
BusinessDayAfter(hol, d) ==
    LET after[n \in Int] ==
            CASE n = 0 -> d
              [] n > 0 -> NextBusinessDay(hol, after[n - 1] + 1)
              [] OTHER -> LastBusinessDay(hol, after[n + 1] - 1)
    IN  after

\* Advancing by days; with n = 0 the date is only adjusted.
advance(hol, d, n) ==
    IF n = 0 THEN NextBusinessDay(hol, d) ELSE BusinessDayAfter(hol, d)[n]

One(condition) == IF condition THEN 1 ELSE 0

businessDaysBetween(hol, from, to, includeFirst, includeLast) ==
    LET low  == Min({from, to})
        high == Max({from, to})
        days == Cardinality((low .. high) \ hol)
                  - One(from \notin hol /\ ~includeFirst)
                  - One(to \notin hol /\ ~includeLast)
    IN  CASE from = to -> 0
          [] from < to -> days
          [] from > to -> -days

=============================================================================
