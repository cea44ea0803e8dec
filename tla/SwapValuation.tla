------------------------------ MODULE SwapValuation ------------------------------
(***************************************************************************)
(* A swap with one floating coupon, valued through everything that moves   *)
(* under it: the evaluation date, the flags and the saved settings, the    *)
(* clock, the calendar, the past fixings of the index, and a yield curve   *)
(* with turn-of-year jumps whose reference date follows the evaluation     *)
(* date.  The swap's value and the curve's reference date are cached; what *)
(* keeps them right is that the inputs announce their changes, and not all *)
(* of them do.                                                             *)
(*                                                                         *)
(* The observers of the evaluation date are the curve, the index and the   *)
(* coupon; of the fixings the index; of the curve the index, the engine    *)
(* and possibly a client's observer that throws; of the index the coupon;  *)
(* of the coupon and the engine the swap.  Each forwards in its update().  *)
(***************************************************************************)
EXTENDS HolidayCalendar, Settings, FixingHistory

CONSTANTS FixingDate,        \* of the coupon
          PaymentDate,
          IndexFixingDays,
          SettlementDays,    \* of the curve
          HolidayDates,      \* the dates that clients add to or remove from the holidays
          Batches,           \* the arguments of addFixings()
          MaxOperations      \* bound on the changes that clients make

ASSUME ValuationConstants ==
    /\ FixingDate \in FixingDates \cap Int /\ PaymentDate \in Int \ {NullDate}
    /\ IndexFixingDays \in Nat /\ SettlementDays \in Nat /\ MaxOperations \in Nat
    /\ HolidayDates \in SUBSET Int
    /\ Batches \subseteq Seq(Fixing)

VARIABLES curve,        \* its reference date, and the one its jumps are set for
          swap,         \* its value, while calculated
          operations    \* the number of changes so far

vars == <<calendarVars, settingsVars, fixingVars, curve, swap, operations>>

\* Cached results carry a record asOf of the inputs they were calculated from
\* and of whose changes nobody is told; no code reads it.  The clock is such an
\* input while the evaluation date is null, the history once the index has
\* lost its notifier.  cutShort tells that the last update of the curve was.
ClockIf(date) == IF date = NullDate THEN todaysDate ELSE NullDate

CurveInputs(date) == [clock |-> ClockIf(date), holidays |-> isHoliday]

SwapInputs == [clock |-> ClockIf(evaluationDate), holidays |-> isHoliday, flags |-> flags,
               history |-> history]

\* The constructor of the coupon computes the dates of its fixing, once.
FixingValueDate == advance(MarketHolidays, FixingDate, IndexFixingDays)

-----------------------------------------------------------------------------
(***************************************************************************)
(* The yield curve.                                                        *)
(***************************************************************************)

ReferenceOn(day, hol) == advance(hol, day, SettlementDays)

\* referenceDate(), with date in the DateProxy: computed when it is out of date.
referenceDate(c, date) ==
    IF c.updated THEN c
    ELSE [c EXCEPT !.updated = TRUE,
                   !.referenceDate = ReferenceOn(Resolved(date, todaysDate), isHoliday),
                   !.asOf = CurveInputs(date)]

\* setJumps(), called by update() if the reference date has moved.
setJumps(c) == [c EXCEPT !.jumpsAt = c.referenceDate]

\* fault: the date is flagged only if the update completes.
UpdatedAllOrNothing(c, date, thrown) ==
    IF thrown THEN [c EXCEPT !.cutShort = TRUE]
    ELSE setJumps(referenceDate([c EXCEPT !.updated = FALSE, !.cutShort = FALSE], date))

\* update() first tells the observers of the curve.  If one of them throws, it
\* goes no further; otherwise it has the new date, and the jumps, at once.
Updated(c, date, thrown) ==
    LET flagged == [c EXCEPT !.updated = FALSE, !.cutShort = thrown]
    IN  IF thrown THEN flagged ELSE setJumps(referenceDate(flagged, date))

-----------------------------------------------------------------------------
(***************************************************************************)
(* The valuation of the swap, from a record w of its inputs: the date, the *)
(* flags, the history of fixings and the holidays.                         *)
(***************************************************************************)

\* Event::hasOccurred() and CashFlow::hasOccurred() for a cash flow on date d.
EventHasOccurred(w, d, refDate, include) ==
    IF include = "yes" \/ (include = "unset" /\ w.flags.includeReferenceDateEvents)
    THEN d < refDate ELSE d <= refDate

hasOccurred(w, d, refDate, include) ==
    LET ref    == IF refDate = NullDate THEN w.day ELSE refDate
        today  == w.flags.includeTodaysCashFlows
    IN  EventHasOccurred(w, d, ref,
            IF ref = w.day /\ today # "unset" THEN today ELSE include)

isExpired(w) == hasOccurred(w, PaymentDate, NullDate, "unset")

Failed   == [kind |-> "failed"]
NoFlows  == [kind |-> "none"]

\* A rate forecast on curve c; the curve has no discount before its reference date.
forecastFixing(c) ==
    IF FixingValueDate < c.referenceDate THEN Failed
    ELSE [kind |-> "forecast", reference |-> c.referenceDate, jumps |-> c.jumpsAt]

\* The past fixing, paid on curve c.
Fixed(w, c) == [kind |-> "fixed", rate |-> w.history[FixingDate],
                reference |-> c.referenceDate, jumps |-> c.jumpsAt]

\* pastFixing(), which throws on a date that is not valid, returns a value.
HasPastFixing(w) ==
    FixingDate \notin w.holidays /\ w.history[FixingDate] # NullValue

\* IborCoupon::indexFixing()
indexFixing(w, c) ==
    CASE FixingDate > w.day -> forecastFixing(c)
      [] FixingDate < w.day \/ (FixingDate = w.day /\ w.flags.enforcesTodaysHistoricFixings) ->
            IF HasPastFixing(w) THEN Fixed(w, c) ELSE Failed
      [] OTHER ->
            IF HasPastFixing(w) THEN Fixed(w, c) ELSE forecastFixing(c)

\* DiscountingSwapEngine::calculate() and CashFlows::npvbps() for the one flow.
EngineValue(w, c) ==
    LET include == IF w.flags.includeReferenceDateEvents THEN "yes" ELSE "no"
    IN  IF hasOccurred(w, PaymentDate, c.referenceDate, include)
        THEN NoFlows ELSE indexFixing(w, c)

-----------------------------------------------------------------------------
\* The swap after LazyObject::update(): what it had stored is not read again.
Flagged == [calculated |-> FALSE]

Init ==
    /\ CalendarInit /\ SettingsInit /\ FixingsInit
    /\ curve = [updated |-> TRUE, asOf |-> CurveInputs(NullDate), cutShort |-> FALSE,
                referenceDate |-> ReferenceOn(CurrentDate, isHoliday),
                jumpsAt |-> ReferenceOn(CurrentDate, isHoliday)]
    /\ swap = Flagged
    /\ operations = 0

Count == operations < MaxOperations /\ operations' = operations + 1

\* The evaluation date, which now is date, is announced.
DateAnnounced(date, thrown) ==
    /\ curve' = Updated(curve, date, thrown)
    /\ swap' = Flagged

UnannouncedChange ==
    /\ Count
    /\ \/ Midnight /\ UNCHANGED <<calendarVars, fixingVars>>
       \/ /\ \E flag \in DOMAIN FlagValues : \E value \in FlagValues[flag] :
                 SetFlag(flag, value)
          /\ UNCHANGED <<calendarVars, fixingVars>>
       \/ SaveSettings /\ UNCHANGED <<calendarVars, fixingVars>>
       \/ /\ \E d \in HolidayDates : addHoliday(d) \/ removeHoliday(d)
          /\ UNCHANGED <<settingsVars, fixingVars>>
       \/ clearFixings /\ UNCHANGED <<calendarVars, settingsVars>>
    /\ UNCHANGED <<curve, swap>>

SetDate ==
    /\ Count
    /\ \/ \E d \in Dates : SetEvaluationDate(d)
       \/ anchorEvaluationDate
       \/ resetEvaluationDate
    /\ \E thrown \in BOOLEAN : DateAnnounced(evaluationDate', thrown)
    /\ UNCHANGED <<calendarVars, fixingVars>>

EndScope ==
    /\ Count
    /\ \E thrown \in BOOLEAN :
          /\ RestoreSettings(thrown)
          /\ IF KeepsDate(Last(scopes)) THEN UNCHANGED <<curve, swap>>
             ELSE DateAnnounced(evaluationDate', thrown)
    /\ UNCHANGED <<calendarVars, fixingVars>>

\* fault: stored fixings are announced only when some date was missing.
AddFixingsIfNew ==
    /\ Count
    /\ \E batch \in Batches, force \in BOOLEAN :
          addFixings(batch, FixingDates \ isHoliday, force)
    /\ swap' = IF connected /\ \E d \in FixingDates :
                      history[d] = NullValue /\ history'[d] # NullValue
               THEN Flagged ELSE swap
    /\ UNCHANGED <<calendarVars, settingsVars, curve>>

AddFixings ==
    /\ Count
    /\ \E batch \in Batches, force \in BOOLEAN :
          addFixings(batch, FixingDates \ isHoliday, force)
    /\ swap' = IF connected THEN Flagged ELSE swap
    /\ UNCHANGED <<calendarVars, settingsVars, curve>>

\* A client asks the curve for its reference date.
ReadReferenceDate ==
    /\ curve' = referenceDate(curve, evaluationDate)
    /\ UNCHANGED <<calendarVars, settingsVars, fixingVars, swap, operations>>

Input == [day |-> CurrentDate, flags |-> flags, history |-> history,
          holidays |-> isHoliday]

Result(npv) == [calculated |-> TRUE, npv |-> npv, asOf |-> SwapInputs]

\* Instrument::NPV(): an expired swap is worth nothing; another is calculated
\* if it is flagged, and stays so if the calculation throws.
Expire ==
    /\ isExpired(Input)
    /\ swap' = Result(NoFlows)
    /\ UNCHANGED curve

Calculate ==
    LET c     == referenceDate(curve, evaluationDate)
        value == EngineValue(Input, c)
    IN  /\ ~isExpired(Input) /\ ~swap.calculated
        /\ curve' = c
        /\ swap' = IF value = Failed THEN swap
                   ELSE Result(value)

NPV ==
    /\ Expire \/ Calculate
    /\ UNCHANGED <<calendarVars, settingsVars, fixingVars, operations>>

Next == \/ UnannouncedChange \/ SetDate \/ EndScope \/ AddFixings
        \/ ReadReferenceDate \/ NPV

Spec == Init /\ [][Next]_vars

-----------------------------------------------------------------------------
(***************************************************************************)
(* Properties.                                                             *)
(***************************************************************************)

\* The reference date that the curve serves is the one of the evaluation date
\* last announced, whoever set it and whichever observer threw; only a clock or
\* a calendar that moved since is not seen (termstructure.cpp:48-61).  Its jumps
\* are set for that date, unless an observer cut the update short
\* (yieldtermstructure.cpp:187-195).
CurveOnDate ==
    curve.updated =>
        /\ curve.referenceDate =
               ReferenceOn(DateAt(curve.asOf.clock), curve.asOf.holidays)
        /\ curve.jumpsAt = curve.referenceDate \/ curve.cutShort

\* The inputs of the swap: those that announce their changes as they are now,
\* the others as they were when it was calculated.
AnnouncedInput ==
    [day      |-> DateAt(swap.asOf.clock),
     flags    |-> swap.asOf.flags,
     history  |-> IF connected THEN history ELSE swap.asOf.history,
     holidays |-> swap.asOf.holidays]

Value(w, c) == IF isExpired(w) THEN NoFlows ELSE EngineValue(w, c)

\* The value a swap serves is the one of the present evaluation date, fixings
\* and curve: every change of these reaches it through the index, the coupon,
\* the curve and the engine, whatever was valued, expired, failed, thrown or
\* restored in between (instrument.hpp:148-155, interestrateindex.cpp:57-58,
\* floatingratecoupon.cpp:57-58, indexmanager.cpp:44-52).
ResultCurrent ==
    swap.calculated => swap.npv = Value(AnnouncedInput, curve)

\* When a scope ends, the date is the one it began with, also if midnight has
\* struck, the date was set or reset in it or an observer throws; the flags too,
\* unless an observer throws (settings.cpp:57-70).
ScopeRestores ==
    [][Len(scopes') < Len(scopes) =>
          /\ CurrentDate' = Last(scopes).date
          /\ flags' = Last(scopes).flags \/ curve'.cutShort]_vars

\* The next two speak of the calendar and the fixings alone: the states that
\* differ only in the settings need not be looked at.
SettingsUntouched ==
    evaluationDate = NullDate /\ flags = DefaultFlags /\ scopes = <<>> /\ swap = Flagged

\* What addFixings() leaves: of the fixings on a valid date the first is stored
\* if none was present, the last in any case if overwriting is forced; no
\* fixing that it refuses keeps another from being stored (index.hpp:93-123).
FixingsAfter(batch, valid, force) ==
    [d \in FixingDates |->
        LET offered == {i \in DOMAIN batch : batch[i].date = d}
        IN  IF d \notin valid \/ offered = {} THEN history[d]
            ELSE IF force THEN batch[Max(offered)].value
            ELSE IF history[d] = NullValue THEN batch[Min(offered)].value
            ELSE history[d]]

FixingsStored == SettingsUntouched =>
    \A batch \in Batches, force \in BOOLEAN :
        LET valid == FixingDates \ isHoliday
        IN  Stored(history, batch, valid, force) = FixingsAfter(batch, valid, force)

\* With whatever days clients make holidays or business days: advancing by n business
\* days gives a business day at a distance of n; an adjusted date is a business
\* day, the first one in the direction of the convention, from which a modified
\* convention turns back only if there is none in the month (the half month), to
\* stay in it if it can; the nearest date is no farther than any other, and is
\* the later one if there are two (calendar.cpp:48-174).
LawsHold ==
    \A d \in Dates \union HolidayDates :
        /\ \A n \in {-2, -1, 1, 2} :
              LET e == advance(isHoliday, d, n)
              IN  /\ e \notin isHoliday
                  /\ businessDaysBetween(isHoliday, d, e, FALSE, TRUE) = n
                  /\ businessDaysBetween(isHoliday, e, d, TRUE, FALSE) = -n
        /\ \A c \in Conventions \ {"Unadjusted"} :
              adjust(isHoliday, d, c) \notin isHoliday
        /\ \A e \in (d - 4 .. d + 4) \ isHoliday :
              LET near == Nearest(isHoliday, d)
                  low(x)  == Min({d, x})
                  high(x) == Max({d, x})
                  stays(x) == SameMonth(low(x), high(x))
                  staysInHalf(x) == SameHalf(low(x), high(x))
              IN  /\ d <= e =>
                        /\ adjust(isHoliday, d, "Following") \in d .. e
                        /\ stays(e) => adjust(isHoliday, d, "ModifiedFollowing") \in d .. e
                        /\ staysInHalf(e) =>
                              adjust(isHoliday, d, "HalfMonthModifiedFollowing") \in d .. e
                  /\ e <= d =>
                        /\ adjust(isHoliday, d, "Preceding") \in e .. d
                        /\ stays(e) => adjust(isHoliday, d, "ModifiedPreceding") \in e .. d
                  /\ stays(e) => /\ stays(adjust(isHoliday, d, "ModifiedFollowing"))
                                 /\ stays(adjust(isHoliday, d, "ModifiedPreceding"))
                  /\ staysInHalf(e) =>
                        staysInHalf(adjust(isHoliday, d, "HalfMonthModifiedFollowing"))
                  /\ \/ high(near) - low(near) < high(e) - low(e)
                     \/ high(near) - low(near) = high(e) - low(e) /\ near >= e

CalendarLaws == SettingsUntouched => LawsHold

=============================================================================
