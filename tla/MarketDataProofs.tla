---------------------------- MODULE MarketDataProofs ----------------------------
(***************************************************************************)
(* What the process-wide market data promises: that of a swap's valuation  *)
(* (SwapValuation), for any calendar, dates, fixings and flags, and for as *)
(* many changes and as deeply nested scopes as one likes; and that of the  *)
(* exchange rates (ExchangeRates), for any currencies, triangulation,      *)
(* dates and rates.  The two share no state, only their lemmas on numbers. *)
(*                                                                         *)
(* For the value, the reference date and the scopes, how dates advance     *)
(* and how a past fixing is found plays no part.  What matters is who is   *)
(* told of what: whenever the evaluation date is announced both caches are *)
(* out of date, and a curve that has not seen the new date has been cut    *)
(* short (CurveTold).  A swap that is calculated has seen all the fixings  *)
(* it can hear of, and its curve has a date, unless the swap expired       *)
(* without asking for the curve (SwapTold).                                *)
(*                                                                         *)
(* The loops of the code, over a batch of fixings, over days and over the  *)
(* rates to chain, are recursive in the model.  What they compute is       *)
(* proved by induction: in the form that a set of naturals has a least     *)
(* member (Least), taken of the set of those for which the claim fails.    *)
(***************************************************************************)
EXTENDS SwapValuation, ExchangeRates, FiniteSetTheorems, WellFoundedInduction, TLAPS

CurveFields == {"updated", "asOf", "cutShort", "referenceDate", "jumpsAt"}

CurveTold ==
    /\ DOMAIN curve = CurveFields
    /\ curve.updated \/ curve.cutShort
    /\ CurveOnDate

SwapTold ==
    swap.calculated =>
        /\ connected => swap.asOf.history = history
        /\ curve.updated \/ isExpired(AnnouncedInput)

\* Dates that are saved are dates.
ScopesSaved ==
    /\ scopes \in Seq([date : Nat \ {NullDate}, flags : Flags])
    /\ flags \in Flags
    /\ todaysDate \in Nat \ {NullDate} /\ evaluationDate \in Nat

-----------------------------------------------------------------------------
(***************************************************************************)
(* The curve.                                                              *)
(***************************************************************************)

LEMMA CurrentDateResolves ==
    /\ CurrentDate = Resolved(evaluationDate, todaysDate)
    /\ DateAt(ClockIf(evaluationDate)) = CurrentDate
BY DEF CurrentDate, DateAt, ClockIf, Resolved

\* A curve that is asked for its reference date has one afterwards.
LEMMA ReferenceDateComputed ==
    ASSUME CurveTold
    PROVE  LET c == referenceDate(curve, evaluationDate)
           IN  /\ DOMAIN c = CurveFields
               /\ c.updated /\ (curve.updated => c = curve)
               /\ c.referenceDate = ReferenceOn(DateAt(c.asOf.clock), c.asOf.holidays)
               /\ c.jumpsAt = c.referenceDate \/ c.cutShort
<1>1. CASE curve.updated
    BY <1>1 DEF referenceDate, CurveTold, CurveOnDate
<1>2. CASE ~curve.updated
    BY <1>2, CurrentDateResolves
       DEF referenceDate, CurveTold, CurveFields, CurveInputs, CurrentDate
<1> QED BY <1>1, <1>2

\* A date that is announced is the date of the curve, or an observer has cut the
\* update short and the curve knows that it is out of date.
LEMMA CurveAnnounced ==
    ASSUME CurveTold, NEW thrown \in BOOLEAN,
           DateAnnounced(evaluationDate', thrown), UNCHANGED <<todaysDate, calendarVars>>
    PROVE  CurveTold' /\ (thrown => curve'.cutShort)
<1>1. CASE thrown
    BY <1>1 DEF DateAnnounced, Updated, CurveTold, CurveFields, CurveOnDate
<1>2. CASE ~thrown
    <2> DEFINE flagged == [curve EXCEPT !.updated = FALSE, !.cutShort = FALSE]
               c == referenceDate(flagged, evaluationDate')
    <2>1. curve' = setJumps(c)
        BY <1>2 DEF DateAnnounced, Updated
    <2>2. /\ DOMAIN flagged = CurveFields /\ ~flagged.updated
        BY DEF CurveTold, CurveFields
    <2>3. /\ DOMAIN c = CurveFields /\ c.updated
          /\ c.asOf = CurveInputs(evaluationDate')
          /\ c.referenceDate =
                 ReferenceOn(Resolved(evaluationDate', todaysDate), isHoliday)
        BY <2>2 DEF referenceDate, CurveFields
    <2>4. /\ DOMAIN curve' = CurveFields /\ curve'.updated /\ curve'.asOf = c.asOf
          /\ curve'.referenceDate = c.referenceDate
          /\ curve'.jumpsAt = curve'.referenceDate
        BY <2>1, <2>3 DEF setJumps, CurveFields
    <2>5. Resolved(evaluationDate', curve'.asOf.clock) = Resolved(evaluationDate', todaysDate)
        BY <2>3, <2>4 DEF CurveInputs, ClockIf, Resolved
    <2>6. curve'.asOf.holidays = isHoliday
        BY <2>3, <2>4 DEF CurveInputs
    <2>7. CurveOnDate'
        BY <2>3, <2>4, <2>5, <2>6 DEF CurveOnDate, DateAt
    <2> QED BY <1>2, <2>4, <2>7 DEF CurveTold
<1> QED BY <1>1, <1>2

LEMMA CurveToldInit == Init => CurveTold
<1> SUFFICES ASSUME Init PROVE CurveTold
    OBVIOUS
<1>1. evaluationDate = NullDate
    BY DEF Init, SettingsInit
<1> QED BY <1>1, CurrentDateResolves
        DEF Init, CurveTold, CurveFields, CurveOnDate, CurveInputs, CurrentDate

LEMMA CurveToldStep == CurveTold /\ [Next]_vars => CurveTold'
<1> SUFFICES ASSUME CurveTold, [Next]_vars PROVE CurveTold'
    OBVIOUS
<1> USE DEF calendarVars, settingsVars, fixingVars
<1>1. ASSUME UNCHANGED <<curve, evaluationDate>>
      PROVE  CurveTold'
    BY <1>1 DEF CurveTold, CurveOnDate, DateAt, Resolved, ReferenceOn
<1>2. CASE UnannouncedChange
    BY <1>1, <1>2 DEF UnannouncedChange, Midnight, SetFlag, SaveSettings
<1>3. CASE SetDate
    BY <1>3, CurveAnnounced
       DEF SetDate, SetEvaluationDate, anchorEvaluationDate, resetEvaluationDate
<1>4. CASE EndScope
    <2>1. PICK thrown \in BOOLEAN :
              /\ RestoreSettings(thrown)
              /\ IF KeepsDate(Last(scopes)) THEN UNCHANGED <<curve, swap>>
                 ELSE DateAnnounced(evaluationDate', thrown)
        BY <1>4 DEF EndScope
    <2>2. UNCHANGED <<todaysDate, addedHolidays, removedHolidays>>
        BY <1>4, <2>1 DEF EndScope, RestoreSettings
    <2>3. CASE KeepsDate(Last(scopes))
        BY <1>1, <2>1, <2>3 DEF RestoreSettings, Restore
    <2>4. CASE ~KeepsDate(Last(scopes))
        BY <2>1, <2>2, <2>4, CurveAnnounced
    <2> QED BY <2>3, <2>4
<1>5. CASE AddFixings
    BY <1>1, <1>5 DEF AddFixings
<1>6. ASSUME curve' = referenceDate(curve, evaluationDate),
             UNCHANGED <<evaluationDate, todaysDate, addedHolidays, removedHolidays>>
      PROVE  CurveTold'
    BY <1>6, ReferenceDateComputed DEF CurveTold, CurveOnDate, DateAt, Resolved, ReferenceOn
<1>7. CASE ReadReferenceDate
    BY <1>6, <1>7 DEF ReadReferenceDate
<1>8. CASE NPV
    BY <1>1, <1>6, <1>8 DEF NPV, Expire, Calculate
<1>9. CASE UNCHANGED vars
    BY <1>1, <1>9 DEF vars
<1> QED BY <1>2, <1>3, <1>4, <1>5, <1>7, <1>8, <1>9 DEF Next

\* The reference date the curve serves is the one of the evaluation date last
\* announced, and its jumps are set for it unless an observer cut the update
\* short (termstructure.cpp:48-61, yieldtermstructure.cpp:187-195).
THEOREM CurveIsOnDate == Spec => []CurveOnDate
<1>1. CurveTold => CurveOnDate
    BY DEF CurveTold
<1> QED BY <1>1, CurveToldInit, CurveToldStep, PTL DEF Spec

-----------------------------------------------------------------------------
(***************************************************************************)
(* The swap.                                                               *)
(***************************************************************************)

\* Whether a swap has expired does not depend on the curve or the fixings.
LEMMA ExpiryInputs ==
    ASSUME NEW v, NEW w, v.day = w.day, v.flags = w.flags
    PROVE  isExpired(v) = isExpired(w)
BY DEF isExpired, hasOccurred, EventHasOccurred

\* The inputs of a result that was just stored are the present ones.
LEMMA InputsOfResult ==
    ASSUME NEW npv, swap' = Result(npv),
           UNCHANGED <<evaluationDate, todaysDate, flags, history, connected,
                       addedHolidays, removedHolidays>>
    PROVE  AnnouncedInput' = Input
<1>1. swap'.asOf = SwapInputs
    BY DEF Result
<1>2. Resolved(evaluationDate, swap'.asOf.clock) = CurrentDate
    BY <1>1, CurrentDateResolves DEF SwapInputs, DateAt
<1>3. /\ swap'.asOf.flags = flags /\ swap'.asOf.holidays = isHoliday
      /\ swap'.asOf.history = history
    BY <1>1 DEF SwapInputs
<1>4. AnnouncedInput' =
          [day      |-> Resolved(evaluationDate', swap'.asOf.clock),
           flags    |-> swap'.asOf.flags,
           history  |-> IF connected' THEN history' ELSE swap'.asOf.history,
           holidays |-> swap'.asOf.holidays]
    BY DEF AnnouncedInput, DateAt
<1> QED BY <1>2, <1>3, <1>4 DEF Input

LEMMA SwapToldInit == Init => SwapTold /\ ResultCurrent
BY DEF Init, Flagged, SwapTold, ResultCurrent

LEMMA SwapToldStep ==
    CurveTold /\ SwapTold /\ ResultCurrent /\ [Next]_vars => SwapTold' /\ ResultCurrent'
<1> SUFFICES ASSUME CurveTold, SwapTold, ResultCurrent, [Next]_vars
             PROVE  SwapTold' /\ ResultCurrent'
    OBVIOUS
<1> USE DEF calendarVars, settingsVars, fixingVars
<1>1. ASSUME swap' = Flagged
      PROVE  SwapTold' /\ ResultCurrent'
    BY <1>1 DEF Flagged, SwapTold, ResultCurrent
<1>2. ASSUME UNCHANGED <<swap, curve, evaluationDate>>,
             swap.calculated => AnnouncedInput' = AnnouncedInput,
             swap.calculated /\ connected' => swap.asOf.history = history'
      PROVE  SwapTold' /\ ResultCurrent'
    BY <1>2, CurveTold DEF SwapTold, ResultCurrent, Value
<1>3. ASSUME UNCHANGED <<swap, curve, evaluationDate, history, connected>>
      PROVE  SwapTold' /\ ResultCurrent'
    <2>1. AnnouncedInput' = AnnouncedInput
        BY <1>3 DEF AnnouncedInput, DateAt
    <2> QED BY <1>2, <1>3, <2>1 DEF SwapTold
<1>4. CASE UnannouncedChange
    <2>1. CASE clearFixings
        <3>1. UNCHANGED <<swap, curve, evaluationDate>> /\ ~connected'
            BY <1>4, <2>1 DEF UnannouncedChange, clearFixings, SetFlag, Midnight, SaveSettings
        <3>2. swap.calculated => AnnouncedInput' = AnnouncedInput
            BY <3>1 DEF AnnouncedInput, DateAt, SwapTold
        <3> QED BY <1>2, <3>1, <3>2
    <2>2. CASE ~clearFixings
        BY <1>3, <1>4, <2>2 DEF UnannouncedChange, Midnight, SetFlag, SaveSettings
    <2> QED BY <2>1, <2>2
<1>5. CASE SetDate
    BY <1>1, <1>5 DEF SetDate, DateAnnounced
<1>6. CASE EndScope
    BY <1>1, <1>3, <1>6 DEF EndScope, DateAnnounced, RestoreSettings, Restore
<1>7. CASE AddFixings
    <2>1. CASE connected
        BY <1>1, <1>7, <2>1 DEF AddFixings
    <2>2. CASE ~connected
        <3>1. UNCHANGED <<swap, curve, evaluationDate>> /\ ~connected'
            BY <1>7, <2>2 DEF AddFixings, addFixings
        <3>2. AnnouncedInput' = AnnouncedInput
            BY <2>2, <3>1 DEF AnnouncedInput, DateAt
        <3> QED BY <1>2, <3>1, <3>2
    <2> QED BY <2>1, <2>2
<1>8. CASE ReadReferenceDate
    <2>1. /\ UNCHANGED <<swap, evaluationDate, history, connected>>
          /\ curve'.updated /\ (curve.updated => curve' = curve)
        BY <1>8, ReferenceDateComputed DEF ReadReferenceDate
    <2>2. AnnouncedInput' = AnnouncedInput
        BY <2>1 DEF AnnouncedInput, DateAt
    <2>3. SwapTold'
        BY <2>1 DEF SwapTold
    <2>4. ASSUME swap.calculated
          PROVE  Value(AnnouncedInput, curve') = Value(AnnouncedInput, curve)
        BY <2>1, <2>4 DEF SwapTold, Value
    <2>5. ResultCurrent'
        BY <2>1, <2>2, <2>4 DEF ResultCurrent
    <2> QED BY <2>3, <2>5
<1>9. CASE NPV
    <2>1. UNCHANGED <<evaluationDate, todaysDate, flags, history, connected,
                      addedHolidays, removedHolidays>>
        BY <1>9 DEF NPV
    <2>2. CASE Expire
        <3>1. /\ swap' = Result(NoFlows) /\ isExpired(Input)
            BY <2>2 DEF Expire
        <3>2. AnnouncedInput' = Input
            BY <2>1, <3>1, InputsOfResult
        <3>3. /\ swap'.npv = NoFlows
              /\ swap'.asOf.history = history
            BY <3>1 DEF Result, SwapInputs
        <3>4. SwapTold'
            BY <2>1, <3>1, <3>2, <3>3 DEF SwapTold
        <3>5. ResultCurrent'
            BY <3>1, <3>2, <3>3 DEF ResultCurrent, Value
        <3> QED BY <3>4, <3>5
    <2>3. CASE Calculate
        <3> DEFINE c == referenceDate(curve, evaluationDate)
                   value == EngineValue(Input, c)
        <3>1. /\ ~isExpired(Input) /\ ~swap.calculated /\ curve' = c
              /\ swap' = IF value = Failed THEN swap ELSE Result(value)
            BY <2>3 DEF Calculate
        <3>2. CASE value = Failed
            BY <3>1, <3>2 DEF SwapTold, ResultCurrent
        <3>3. CASE value # Failed
            <4>1. AnnouncedInput' = Input
                BY <2>1, <3>1, <3>3, InputsOfResult
            <4>2. swap'.npv = value /\ swap'.asOf.history = history
                BY <3>1, <3>3 DEF Result, SwapInputs
            <4>3. curve'.updated
                BY <3>1, ReferenceDateComputed
            <4>4. SwapTold'
                BY <2>1, <4>2, <4>3 DEF SwapTold
            <4>5. ResultCurrent'
                BY <3>1, <4>1, <4>2 DEF ResultCurrent, Value
            <4> QED BY <4>4, <4>5
        <3> QED BY <3>2, <3>3
    <2> QED BY <1>9, <2>2, <2>3 DEF NPV
<1>10. CASE UNCHANGED vars
    BY <1>3, <1>10 DEF vars
<1> QED BY <1>4, <1>5, <1>6, <1>7, <1>8, <1>9, <1>10 DEF Next

\* The value a swap serves is the one of the present evaluation date, fixings and
\* curve, whatever was valued, expired, failed or restored in between
\* (instrument.hpp:148-155, interestrateindex.cpp:57-58, indexmanager.cpp:44-52).
THEOREM ResultIsCurrent == Spec => []ResultCurrent
BY CurveToldInit, CurveToldStep, SwapToldInit, SwapToldStep, PTL DEF Spec

-----------------------------------------------------------------------------
(***************************************************************************)
(* The saved settings.                                                     *)
(***************************************************************************)

LEMMA LastAndFront ==
    ASSUME NEW S, NEW q \in Seq(S), q # <<>>
    PROVE  Last(q) \in S /\ Front(q) \in Seq(S)
<1>1. Len(q) \in Nat \ {0} /\ q \in [1..Len(q) -> S]
    OBVIOUS
<1>2. Last(q) \in S
    BY <1>1 DEF Last
<1>3. \A i \in 1..Len(q) - 1 : q[i] \in S
    BY <1>1
<1>4. SubSeq(q, 1, Len(q) - 1) \in Seq(S)
    BY <1>1, <1>3
<1> QED BY <1>2, <1>4 DEF Front

LEMMA ScopesSavedInit == Init => ScopesSaved
<1> SUFFICES ASSUME Init PROVE ScopesSaved
    OBVIOUS
<1>1. DefaultFlags \in Flags
    BY DEF DefaultFlags, Flags
<1> QED BY <1>1, SettingsConstants DEF Init, SettingsInit, ScopesSaved, NullDate

\* A flag is set to a value of its kind.
LEMMA FlagsSet ==
    ASSUME flags \in Flags, NEW flag \in DOMAIN FlagValues, NEW value \in FlagValues[flag]
    PROVE  [flags EXCEPT ![flag] = value] \in Flags
BY SettingsConstants DEF Flags

LEMMA ScopesSavedStep == ScopesSaved /\ [Next]_vars => ScopesSaved'
<1> SUFFICES ASSUME ScopesSaved, [Next]_vars PROVE ScopesSaved'
    OBVIOUS
<1> USE SettingsConstants DEF calendarVars, settingsVars, fixingVars, NullDate
<1>1. CurrentDate \in Nat \ {NullDate}
    BY DEF ScopesSaved, CurrentDate, DateAt, Resolved
<1>2. ASSUME UNCHANGED settingsVars
      PROVE  ScopesSaved'
    BY <1>2 DEF ScopesSaved
<1>3. CASE UnannouncedChange
    <2>1. CASE Midnight
        BY <2>1 DEF Midnight, ScopesSaved
    <2>2. ASSUME NEW flag \in DOMAIN FlagValues, NEW value \in FlagValues[flag],
                 SetFlag(flag, value)
          PROVE  ScopesSaved'
        BY <2>2, FlagsSet DEF SetFlag, ScopesSaved
    <2>3. CASE SaveSettings
        BY <1>1, <2>3 DEF SaveSettings, ScopesSaved
    <2> QED BY <1>2, <1>3, <2>1, <2>2, <2>3 DEF UnannouncedChange
<1>4. CASE SetDate
    <2>1. UNCHANGED <<todaysDate, flags, scopes>> /\ evaluationDate' \in Nat
        BY <1>4 DEF SetDate, SetEvaluationDate, anchorEvaluationDate, resetEvaluationDate,
                    ScopesSaved
    <2> QED BY <2>1 DEF ScopesSaved
<1>5. CASE EndScope
    <2>1. PICK thrown \in BOOLEAN : RestoreSettings(thrown)
        BY <1>5 DEF EndScope
    <2>2. /\ Last(scopes) \in [date : Nat \ {NullDate}, flags : Flags]
          /\ Front(scopes) \in Seq([date : Nat \ {NullDate}, flags : Flags])
        BY <2>1, LastAndFront DEF RestoreSettings, ScopesSaved
    <2> QED BY <2>1, <2>2 DEF RestoreSettings, Restore, ScopesSaved
<1>6. CASE AddFixings \/ ReadReferenceDate \/ NPV \/ UNCHANGED vars
    BY <1>2, <1>6 DEF AddFixings, ReadReferenceDate, NPV, vars
<1> QED BY <1>3, <1>4, <1>5, <1>6 DEF Next

LEMMA ScopeEnds ==
    ScopesSaved /\ CurveTold /\ [Next]_vars
        => [Len(scopes') < Len(scopes) =>
              /\ CurrentDate' = Last(scopes).date
              /\ flags' = Last(scopes).flags \/ curve'.cutShort]_vars
<1> SUFFICES ASSUME ScopesSaved, CurveTold, [Next]_vars, Len(scopes') < Len(scopes)
             PROVE  /\ CurrentDate' = Last(scopes).date
                    /\ flags' = Last(scopes).flags \/ curve'.cutShort
    OBVIOUS
<1> USE DEF calendarVars, settingsVars, fixingVars
<1>1. EndScope
    <2>1. scopes' # scopes /\ ~SaveSettings
        BY DEF SaveSettings, ScopesSaved
    <2> QED BY <2>1 DEF Next, UnannouncedChange, Midnight, SetFlag, SetDate, SetEvaluationDate,
               anchorEvaluationDate, resetEvaluationDate, AddFixings, ReadReferenceDate, NPV,
               vars
<1>2. PICK thrown \in BOOLEAN :
          /\ RestoreSettings(thrown)
          /\ IF KeepsDate(Last(scopes)) THEN UNCHANGED <<curve, swap>>
             ELSE DateAnnounced(evaluationDate', thrown)
    BY <1>1 DEF EndScope
<1>3. UNCHANGED <<todaysDate, calendarVars>>
    BY <1>1, <1>2 DEF EndScope, RestoreSettings
<1>4. Last(scopes).date # NullDate
    <2>1. Last(scopes) \in [date : Nat \ {NullDate}, flags : Flags]
        BY <1>2, LastAndFront DEF RestoreSettings, ScopesSaved
    <2> QED BY <2>1
<1>5. CASE KeepsDate(Last(scopes))
    BY <1>2, <1>3, <1>5 DEF RestoreSettings, Restore, KeepsDate, CurrentDate, DateAt, Resolved
<1>6. CASE ~KeepsDate(Last(scopes))
    <2>1. CurrentDate' = Last(scopes).date
        BY <1>2, <1>4, <1>6 DEF RestoreSettings, Restore, CurrentDate, DateAt, Resolved
    <2>2. thrown => curve'.cutShort
        BY <1>2, <1>3, <1>6, CurveAnnounced
    <2> QED BY <1>2, <1>6, <2>1, <2>2 DEF RestoreSettings, Restore
<1> QED BY <1>5, <1>6

\* When a scope ends the evaluation date is the one it began with, and so are the
\* flags unless an observer has thrown (settings.cpp:57-70).
THEOREM ScopesRestore == Spec => ScopeRestores
<1>1. ScopesSaved /\ CurveTold /\ [Next]_vars
        => [Len(scopes') < Len(scopes) =>
              /\ CurrentDate' = Last(scopes).date
              /\ flags' = Last(scopes).flags \/ curve'.cutShort]_vars
    BY ScopeEnds
<1> QED BY <1>1, ScopesSavedInit, ScopesSavedStep, CurveToldInit, CurveToldStep, PTL
        DEF Spec, ScopeRestores

-----------------------------------------------------------------------------
(***************************************************************************)
(* Numbers.  A set of naturals has a least member, and that is induction:  *)
(* what is wrong for some number is wrong for a least one.                 *)
(***************************************************************************)

LEMMA Least ==
    ASSUME NEW T \in SUBSET Nat, T # {}
    PROVE  \E n \in T : \A m \in T : n <= m
<1> DEFINE R == OpToRel(<, Nat)
<1>1. IsWellFoundedOn(R, Nat)
    BY NatLessThanWellFounded, Zenon
<1>2. R = {ss \in Nat \X Nat : ss[1] < ss[2]}
    BY DEF OpToRel
<1> HIDE DEF R
<1>3. PICK x \in T : \A y \in T : ~ (<<y, x>> \in R)
    BY <1>1, WFMin
<1>4. ASSUME NEW y \in T PROVE x <= y
    <2>1. x \in Nat /\ y \in Nat
        BY <1>3
    <2>2. y < x => <<y, x>> \in R
        BY <1>2, <2>1
    <2>3. ~(y < x)
        BY <1>3, <2>2
    <2> QED BY <2>1, <2>3
<1> QED BY <1>4

\* A set of integers with a bound has a greatest, or a least, member.
LEMMA Greatest ==
    ASSUME NEW T \in SUBSET Int, NEW b \in Int, T # {}, \A m \in T : m <= b
    PROVE  \E n \in T : \A m \in T : m <= n
<1> DEFINE U == {b - m : m \in T}
<1>0. \A m \in T : m \in Int /\ b - m \in Nat
    OBVIOUS
<1>1. U \in SUBSET Nat /\ U # {}
    BY <1>0
<1> HIDE DEF U
<1>2. PICK u \in U : \A v \in U : u <= v
    BY <1>1, Least
<1>3. PICK n \in T : u = b - n
    BY <1>2 DEF U
<1>4. ASSUME NEW m \in T PROVE m <= n
    <2>1. b - m \in U
        BY DEF U
    <2>2. b - n <= b - m
        BY <1>2, <1>3, <2>1
    <2> QED BY <2>2
<1> QED BY <1>3, <1>4

LEMMA MaxOf ==
    ASSUME NEW T \in SUBSET Int, NEW b \in Int, T # {}, \A m \in T : m <= b
    PROVE  Max(T) \in T /\ \A m \in T : m <= Max(T)
<1>1. PICK n \in T : \A m \in T : n >= m
    BY Greatest
<1> QED BY <1>1 DEF Max

LEMMA MinOf ==
    ASSUME NEW T \in SUBSET Int, NEW b \in Int, T # {}, \A m \in T : b <= m
    PROVE  Min(T) \in T /\ \A m \in T : Min(T) <= m
<1> DEFINE U == {m - b : m \in T}
<1>0. \A m \in T : m \in Int /\ m - b \in Nat
    OBVIOUS
<1>1. U \in SUBSET Nat /\ U # {}
    BY <1>0
<1> HIDE DEF U
<1>2. PICK u \in U : \A v \in U : u <= v
    BY <1>1, Least
<1>3. PICK n \in T : u = n - b
    BY <1>2 DEF U
<1>4. ASSUME NEW m \in T PROVE n <= m
    <2>1. m - b \in U
        BY DEF U
    <2>2. n - b <= m - b
        BY <1>2, <1>3, <2>1
    <2> QED BY <2>2
<1> QED BY <1>3, <1>4 DEF Min

-----------------------------------------------------------------------------
(***************************************************************************)
(* The fixings.  addFixings() goes through a batch in order; what it leaves*)
(* of the fixings at some places of the batch is said here without order.  *)
(***************************************************************************)

Offered(batch, s, d) == {i \in s : batch[i].date = d}

\* What the fixings at the places in s leave of h.
After(h, batch, valid, force, s) ==
    [d \in FixingDates |->
        CASE d \notin valid \/ Offered(batch, s, d) = {} -> h[d]
          [] ~(d \notin valid \/ Offered(batch, s, d) = {}) /\ force ->
                batch[Max(Offered(batch, s, d))].value
          [] OTHER -> IF h[d] = NullValue THEN batch[Min(Offered(batch, s, d))].value
                                          ELSE h[d]]

Histories == [FixingDates -> Values \union {NullValue}]

\* The last of the places comes last.
LEMMA AfterOne ==
    ASSUME NEW h \in Histories, NEW batch \in Seq(Fixing), NEW valid, NEW force \in BOOLEAN,
           NEW s \in SUBSET DOMAIN batch, s # {}
    PROVE  After(h, batch, valid, force, s) =
           Store(After(h, batch, valid, force, s \ {Max(s)}), batch[Max(s)], valid, force)
<1> DEFINE x == Max(s)
           r == s \ {x}
           A == After(h, batch, valid, force, s)
           B == After(h, batch, valid, force, r)
           C == Store(B, batch[x], valid, force)
<1>1. /\ s \subseteq Int /\ Len(batch) \in Int /\ DOMAIN batch = 1 .. Len(batch)
      /\ \A m \in s : 1 <= m /\ m <= Len(batch)
    OBVIOUS
<1>2. x \in s /\ \A m \in s : m <= x
    BY <1>1, MaxOf
<1> HIDE DEF x
<1>3. /\ batch[x] \in Fixing /\ x \in Int
      /\ \A i \in s : batch[i].value \in Values /\ batch[i].value # NullValue
    <2>1. \A i \in s : batch[i] \in Fixing
        BY <1>1
    <2> QED BY <1>1, <1>2, <2>1, NullIsNoValue DEF Fixing
<1>4. DOMAIN B = FixingDates /\ DOMAIN C = FixingDates /\ DOMAIN A = FixingDates
    BY DEF After, Store
<1>5. ASSUME NEW d \in FixingDates PROVE A[d] = C[d]
    <2> DEFINE S == Offered(batch, s, d)
               T == Offered(batch, r, d)
    <2>1. A[d] = IF d \notin valid \/ S = {} THEN h[d]
                 ELSE IF force THEN batch[Max(S)].value
                 ELSE IF h[d] = NullValue THEN batch[Min(S)].value ELSE h[d]
        BY DEF After
    <2>2. B[d] = IF d \notin valid \/ T = {} THEN h[d]
                 ELSE IF force THEN batch[Max(T)].value
                 ELSE IF h[d] = NullValue THEN batch[Min(T)].value ELSE h[d]
        BY DEF After
    <2>3. C[d] = IF batch[x].date = d /\ d \in valid /\ (force \/ B[d] = NullValue)
                 THEN batch[x].value ELSE B[d]
        BY <1>3, <1>4 DEF Store, Missing
    <2>4. CASE batch[x].date # d
        <3>1. S = T
            BY <2>4 DEF Offered
        <3> QED BY <2>1, <2>2, <2>3, <2>4, <3>1
    <2>5. CASE batch[x].date = d
        <3>1. S = T \union {x} /\ x \notin T /\ T \subseteq s /\ S \subseteq s
            BY <1>2, <2>5 DEF Offered
        <3>2. S \in SUBSET Int /\ T \in SUBSET Int /\ S # {}
            BY <1>1, <3>1
        <3>3. Max(S) = x
            <4>1. Max(S) \in S /\ \A m \in S : m <= Max(S)
                <5>1. \A m \in S : m <= x
                    BY <1>2, <3>1
                <5> HIDE DEF S
                <5> QED BY <1>3, <3>2, <5>1, MaxOf
            <4>2. x <= Max(S) /\ Max(S) <= x
                BY <1>2, <3>1, <4>1
            <4>3. Max(S) \in Int
                BY <3>2, <4>1
            <4> QED BY <1>3, <4>2, <4>3
        <3>4. ASSUME T = {} PROVE Min(S) = x
            <4>1. S = {x}
                BY <3>1, <3>4
            <4>2. {x} \in SUBSET Int /\ {x} # {} /\ \A m \in {x} : x <= m
                BY <1>3
            <4>3. Min({x}) \in {x}
                BY <1>3, <4>2, MinOf
            <4> QED BY <4>1, <4>3
        <3>5. ASSUME T # {} PROVE Min(S) = Min(T) /\ Min(T) \in T
            <4>1. Min(S) \in S /\ \A m \in S : Min(S) <= m
                <5>1. \A m \in S : 1 <= m
                    BY <1>1, <3>1
                <5> HIDE DEF S
                <5> QED BY <3>2, <5>1, MinOf
            <4>2. Min(T) \in T /\ \A m \in T : Min(T) <= m
                <5>1. \A m \in T : 1 <= m
                    BY <1>1, <3>1
                <5> HIDE DEF T
                <5> QED BY <3>2, <3>5, <5>1, MinOf
            <4>3. Min(T) <= Min(S)
                <5>1. CASE Min(S) = x
                    BY <1>2, <3>1, <4>2, <5>1
                <5>2. CASE Min(S) # x
                    BY <3>1, <4>1, <4>2, <5>2
                <5> QED BY <5>1, <5>2
            <4>4. Min(S) <= Min(T)
                BY <3>1, <4>1, <4>2
            <4>5. Min(S) \in Int /\ Min(T) \in Int
                BY <3>2, <4>1, <4>2
            <4> QED BY <4>2, <4>3, <4>4, <4>5
        <3> HIDE DEF S, T
        <3>6. CASE d \notin valid
            BY <2>1, <2>2, <2>3, <3>6
        <3>7. CASE d \in valid /\ force
            BY <2>1, <2>3, <2>5, <3>2, <3>3, <3>7
        <3>8. CASE d \in valid /\ ~force /\ h[d] # NullValue
            BY <2>1, <2>2, <2>3, <3>8
        <3>9. CASE d \in valid /\ ~force /\ h[d] = NullValue
            <4>1. CASE T = {}
                BY <2>1, <2>2, <2>3, <2>5, <3>2, <3>4, <3>9, <4>1
            <4>2. CASE T # {}
                <5>1. batch[Min(T)].value # NullValue
                    BY <1>3, <3>1, <3>5, <4>2
                <5> QED BY <2>1, <2>2, <2>3, <3>2, <3>5, <3>9, <4>2, <5>1
            <4> QED BY <4>1, <4>2
        <3> QED BY <3>6, <3>7, <3>8, <3>9
    <2> QED BY <2>4, <2>5
<1> HIDE DEF A, C
<1>6. A = [d \in FixingDates |-> A[d]] /\ C = [d \in FixingDates |-> C[d]]
    BY <1>4 DEF A, C, After, Store
<1>7. A = C
    BY <1>5, <1>6
<1> QED BY <1>7 DEF A, C, x

\* The fold of the code, which takes the places one by one from the last down,
\* agrees with the description on every prefix of the batch.
LEMMA StoredIsAfter ==
    ASSUME NEW h \in Histories, NEW batch \in Seq(Fixing), NEW valid, NEW force \in BOOLEAN
    PROVE  Stored(h, batch, valid, force) = After(h, batch, valid, force, DOMAIN batch)
<1> DEFINE Turns(f) == [s \in SUBSET DOMAIN batch |->
                           IF s = {} THEN h
                           ELSE Store(f[s \ {Max(s)}], batch[Max(s)], valid, force)]
           iter == CHOOSE f : f = Turns(f)
           G == [s \in SUBSET DOMAIN batch |-> After(h, batch, valid, force, s)]
<1>1. Stored(h, batch, valid, force) = iter[DOMAIN batch]
    BY DEF Stored, FoldLeft, MapThenFoldSet
<1>2. After(h, batch, valid, force, {}) = h
    <2>1. \A d : Offered(batch, {}, d) = {}
        BY DEF Offered
    <2> QED BY <2>1 DEF After, Histories
<1>3. G = Turns(G)
    <2>1. ASSUME NEW s \in SUBSET DOMAIN batch
          PROVE  G[s] = Turns(G)[s]
        <3>1. CASE s = {}
            BY <1>2, <3>1
        <3>2. CASE s # {}
            <4>1. s \ {Max(s)} \in SUBSET DOMAIN batch
                OBVIOUS
            <4>2. G[s \ {Max(s)}] = After(h, batch, valid, force, s \ {Max(s)})
                BY <4>1
            <4> QED BY <3>2, <4>2, AfterOne
        <3> QED BY <3>1, <3>2
    <2> QED BY <2>1
<1>4. iter = Turns(iter)
    BY <1>3
<1> HIDE DEF iter
<1>5. DOMAIN batch = 1 .. Len(batch) /\ Len(batch) \in Nat
    OBVIOUS
<1> DEFINE Wrong == {n \in 0 .. Len(batch) : iter[1 .. n] # G[1 .. n]}
<1>6. SUFFICES ASSUME Wrong # {} PROVE FALSE
    <2>1. Len(batch) \notin Wrong => iter[DOMAIN batch] = G[DOMAIN batch]
        BY <1>5
    <2> QED BY <1>1, <1>6, <2>1
<1>7. PICK n \in Wrong : \A m \in Wrong : n <= m
    <2>1. Wrong \in SUBSET Nat
        OBVIOUS
    <2> HIDE DEF Wrong
    <2> QED BY <1>6, <2>1, Least
<1>8. /\ n \in Nat /\ n <= Len(batch) /\ iter[1 .. n] # G[1 .. n]
      /\ 1 .. n \in SUBSET DOMAIN batch
    BY <1>5, <1>7
<1> HIDE DEF Turns, G
<1>9. n # 0
    <2>1. 1 .. 0 = {} /\ {} \in SUBSET DOMAIN batch
        OBVIOUS
    <2>2. iter[{}] = h /\ G[{}] = h
        BY <1>3, <1>4, <2>1 DEF Turns
    <2> QED BY <1>8, <2>1, <2>2
<1>10. Max(1 .. n) = n
    BY <1>8, <1>9 DEF Max
<1>11. (1 .. n) \ {n} = 1 .. (n - 1)
    BY <1>8, <1>9
<1>12. iter[1 .. (n - 1)] = G[1 .. (n - 1)]
    BY <1>7, <1>8, <1>9 DEF Wrong
<1>13. 1 .. n # {}
    BY <1>8, <1>9
<1>14. iter[1 .. n] = Store(iter[1 .. (n - 1)], batch[n], valid, force)
    BY <1>4, <1>8, <1>10, <1>11, <1>13 DEF Turns
<1>15. G[1 .. n] = Store(G[1 .. (n - 1)], batch[n], valid, force)
    BY <1>3, <1>8, <1>10, <1>11, <1>13 DEF Turns
<1> QED BY <1>8, <1>12, <1>14, <1>15

LEMMA AfterTyped ==
    ASSUME NEW h \in Histories, NEW batch \in Seq(Fixing), NEW valid, NEW force \in BOOLEAN
    PROVE  After(h, batch, valid, force, DOMAIN batch) \in Histories
<1>1. ASSUME NEW d \in FixingDates
      PROVE  After(h, batch, valid, force, DOMAIN batch)[d] \in Values \union {NullValue}
    <2> DEFINE S == Offered(batch, DOMAIN batch, d)
    <2>1. S \subseteq DOMAIN batch /\ DOMAIN batch = 1 .. Len(batch) /\ Len(batch) \in Nat
        BY DEF Offered
    <2>2. \A i \in S : 1 <= i /\ i <= Len(batch) /\ batch[i] \in Fixing
        BY <2>1
    <2>3. S \in SUBSET Int /\ (\A i \in S : 1 <= i) /\ (\A i \in S : i <= Len(batch))
        BY <2>1, <2>2
    <2> HIDE DEF S
    <2>4. CASE S = {}
        BY <2>4 DEF After, Histories, S
    <2>5. CASE S # {}
        <3>1. Max(S) \in S
            <4>1. /\ Len(batch) \in Int /\ S \in SUBSET Int /\ S # {}
                  /\ \A i \in S : i <= Len(batch)
                BY <2>1, <2>3, <2>5
            <4> QED BY <4>1, MaxOf
        <3>2. Min(S) \in S
            <4>1. 1 \in Int /\ S \in SUBSET Int /\ S # {} /\ \A i \in S : 1 <= i
                BY <2>3, <2>5
            <4> QED BY <4>1, MinOf
        <3>3. batch[Max(S)].value \in Values /\ batch[Min(S)].value \in Values
            BY <2>2, <3>1, <3>2 DEF Fixing
        <3>4. h[d] \in Values \union {NullValue}
            BY DEF Histories
        <3>5. After(h, batch, valid, force, DOMAIN batch)[d] =
                  IF d \notin valid \/ S = {} THEN h[d]
                  ELSE IF force THEN batch[Max(S)].value
                  ELSE IF h[d] = NullValue THEN batch[Min(S)].value ELSE h[d]
            BY DEF After, S
        <3> QED BY <3>3, <3>4, <3>5
    <2> QED BY <2>4, <2>5
<1>2. After(h, batch, valid, force, DOMAIN batch) =
          [d \in FixingDates |-> After(h, batch, valid, force, DOMAIN batch)[d]]
    BY DEF After
<1> QED BY <1>1, <1>2 DEF Histories

\* The entry of the index holds values, or nothing, on the dates of the fixings.
HistoryKept == history \in Histories

LEMMA HistoryKeptInit == Init => HistoryKept
BY DEF Init, FixingsInit, NoHistory, HistoryKept, Histories

LEMMA HistoryKeptStep == HistoryKept /\ [Next]_vars => HistoryKept'
<1> SUFFICES ASSUME HistoryKept, [Next]_vars PROVE HistoryKept'
    OBVIOUS
<1> USE DEF calendarVars, settingsVars, fixingVars
<1>1. ASSUME UNCHANGED history PROVE HistoryKept'
    BY <1>1 DEF HistoryKept
<1>2. CASE UnannouncedChange
    BY <1>1, <1>2 DEF UnannouncedChange, clearFixings, NoHistory, HistoryKept, Histories
<1>3. CASE AddFixings
    <2>1. PICK batch \in Batches, force \in BOOLEAN :
              addFixings(batch, FixingDates \ isHoliday, force)
        BY <1>3 DEF AddFixings
    <2>2. batch \in Seq(Fixing)
        BY ValuationConstants
    <2>3. history' = After(history, batch, FixingDates \ isHoliday, force, DOMAIN batch)
        BY <2>1, <2>2, StoredIsAfter DEF addFixings, HistoryKept
    <2> QED BY <2>2, <2>3, AfterTyped DEF HistoryKept
<1>4. CASE SetDate
    BY <1>1, <1>4 DEF SetDate
<1>5. CASE EndScope
    BY <1>1, <1>5 DEF EndScope
<1>6. CASE ReadReferenceDate
    BY <1>1, <1>6 DEF ReadReferenceDate
<1>7. CASE NPV
    BY <1>1, <1>7 DEF NPV
<1>8. CASE UNCHANGED vars
    BY <1>1, <1>8 DEF vars
<1> QED BY <1>2, <1>3, <1>4, <1>5, <1>6, <1>7, <1>8 DEF Next

\* Whatever is in a batch, in whatever order: of the fixings on a valid date the
\* first is stored if none was present, the last if overwriting is forced, and
\* a fixing that is refused keeps no other from being stored (index.hpp:93-123).
THEOREM FixingsAreStored == Spec => []FixingsStored
<1>1. HistoryKept => FixingsStored
    <2> SUFFICES ASSUME HistoryKept, NEW batch \in Batches, NEW force \in BOOLEAN
                 PROVE  LET valid == FixingDates \ isHoliday
                        IN  Stored(history, batch, valid, force) =
                                FixingsAfter(batch, valid, force)
        BY DEF FixingsStored
    <2> DEFINE valid == FixingDates \ isHoliday
    <2>1. batch \in Seq(Fixing)
        BY ValuationConstants
    <2>2. Stored(history, batch, valid, force) =
              After(history, batch, valid, force, DOMAIN batch)
        BY <2>1, StoredIsAfter DEF HistoryKept
    <2>3. FixingsAfter(batch, valid, force) =
              After(history, batch, valid, force, DOMAIN batch)
        BY DEF FixingsAfter, After, Offered
    <2> QED BY <2>2, <2>3
<1> QED BY <1>1, HistoryKeptInit, HistoryKeptStep, PTL DEF Spec

-----------------------------------------------------------------------------
(***************************************************************************)
(* The calendar: with finitely many holidays the loops of the code end.    *)
(***************************************************************************)

\* The days between a date and the next business day, or the last, are holidays.
LEMMA NextIs ==
    ASSUME NEW hol \in SUBSET Int, IsFiniteSet(hol), NEW d \in Int
    PROVE  LET e == NextBusinessDay(hol, d)
           IN  /\ e \in Int /\ e \notin hol /\ d <= e
               /\ \A x \in Int : d <= x /\ x < e => x \in hol
<1> DEFINE c == Cardinality(hol)
           T == {e \in d .. d + c : e \notin hol}
           e == NextBusinessDay(hol, d)
<1>1. c \in Nat
    BY FS_CardinalityType
<1>2. T # {}
    <2>1. SUFFICES ASSUME T = {} PROVE FALSE
        OBVIOUS
    <2>2. d .. d + c \in SUBSET hol
        BY <2>1
    <2>3. Cardinality(d .. d + c) = c + 1
        BY <1>1, FS_Interval
    <2>4. Cardinality(d .. d + c) <= c
        BY <2>2, FS_Subset
    <2> QED BY <1>1, <2>3, <2>4
<1>3. T \in SUBSET Int /\ \A m \in T : d <= m
    BY <1>1
<1>4. e = Min(T)
    BY DEF NextBusinessDay
<1>5. e \in T /\ \A m \in T : e <= m
    <2> HIDE DEF T, e
    <2>1. Min(T) \in T /\ \A m \in T : Min(T) <= m
        BY <1>2, <1>3, MinOf
    <2> QED BY <1>4, <2>1
<1>6. e \in Int /\ e \notin hol /\ d <= e /\ e <= d + c
    BY <1>1, <1>5
<1> HIDE DEF e
<1>7. ASSUME NEW x \in Int, d <= x, x < e PROVE x \in hol
    BY <1>1, <1>5, <1>6, <1>7
<1> QED BY <1>6, <1>7 DEF e

LEMMA LastIs ==
    ASSUME NEW hol \in SUBSET Int, IsFiniteSet(hol), NEW d \in Int
    PROVE  LET e == LastBusinessDay(hol, d)
           IN  /\ e \in Int /\ e \notin hol /\ e <= d
               /\ \A x \in Int : e < x /\ x <= d => x \in hol
<1> DEFINE c == Cardinality(hol)
           T == {e \in d - c .. d : e \notin hol}
           e == LastBusinessDay(hol, d)
<1>1. c \in Nat
    BY FS_CardinalityType
<1>2. T # {}
    <2>1. SUFFICES ASSUME T = {} PROVE FALSE
        OBVIOUS
    <2>2. d - c .. d \in SUBSET hol
        BY <2>1
    <2>3. Cardinality(d - c .. d) = c + 1
        BY <1>1, FS_Interval
    <2>4. Cardinality(d - c .. d) <= c
        BY <2>2, FS_Subset
    <2> QED BY <1>1, <2>3, <2>4
<1>3. T \in SUBSET Int /\ \A m \in T : m <= d
    BY <1>1
<1>4. e = Max(T)
    BY DEF LastBusinessDay
<1>5. e \in T /\ \A m \in T : m <= e
    <2> HIDE DEF T, e
    <2>1. Max(T) \in T /\ \A m \in T : m <= Max(T)
        BY <1>2, <1>3, MaxOf
    <2> QED BY <1>4, <2>1
<1>6. e \in Int /\ e \notin hol /\ e <= d /\ d - c <= e
    BY <1>1, <1>5
<1> HIDE DEF e
<1>7. ASSUME NEW x \in Int, e < x, x <= d PROVE x \in hol
    BY <1>1, <1>5, <1>6, <1>7
<1> QED BY <1>6, <1>7 DEF e

\* A step that is taken over and over defines a function on the naturals.
Walks(a, F, n) ==
    {p \in [0 .. n -> Int] : p[0] = a /\ \A k \in 0 .. n - 1 : p[k + 1] = F[p[k]]}

LEMMA WalkExists ==
    ASSUME NEW a \in Int, NEW F \in [Int -> Int], NEW n \in Nat
    PROVE  Walks(a, F, n) # {}
<1> DEFINE Wrong == {k \in Nat : Walks(a, F, k) = {}}
<1>1. SUFFICES ASSUME Wrong # {} PROVE FALSE
    OBVIOUS
<1>2. PICK k \in Wrong : \A m \in Wrong : k <= m
    <2>1. Wrong \in SUBSET Nat
        OBVIOUS
    <2> HIDE DEF Wrong
    <2> QED BY <1>1, <2>1, Least
<1>3. k # 0
    <2>1. [i \in 0 .. 0 |-> a] \in Walks(a, F, 0)
        BY DEF Walks
    <2> QED BY <1>2, <2>1
<1>4. k \in Nat /\ k - 1 \in Nat /\ k - 1 \notin Wrong
    BY <1>2, <1>3
<1>5. PICK p : p \in Walks(a, F, k - 1)
    BY <1>4
<1> DEFINE q == [i \in 0 .. k |-> IF i = k THEN F[p[k - 1]] ELSE p[i]]
<1>6. p \in [0 .. k - 1 -> Int]
    BY <1>5 DEF Walks
<1>7. q \in [0 .. k -> Int]
    <2>1. ASSUME NEW i \in 0 .. k
          PROVE  (IF i = k THEN F[p[k - 1]] ELSE p[i]) \in Int
        <3>1. k - 1 \in 0 .. k - 1
            BY <1>4
        <3>2. i # k => i \in 0 .. k - 1
            BY <1>4
        <3> QED BY <1>6, <3>1, <3>2
    <2> QED BY <2>1
<1>8. q[0] = a
    BY <1>3, <1>4, <1>5 DEF Walks
<1>9. ASSUME NEW i \in 0 .. k - 1 PROVE q[i + 1] = F[q[i]]
    <2>1. CASE i = k - 1
        BY <1>4, <2>1
    <2>2. CASE i # k - 1
        <3>1. i \in 0 .. (k - 1) - 1
            BY <1>4, <2>2
        <3>2. p[i + 1] = F[p[i]]
            BY <1>5, <3>1 DEF Walks
        <3>3. i \in 0 .. k /\ i # k /\ i + 1 \in 0 .. k /\ i + 1 # k
            BY <1>4, <2>2
        <3>4. q[i + 1] = p[i + 1] /\ q[i] = p[i]
            BY <3>3
        <3> QED BY <3>2, <3>4
    <2> QED BY <2>1, <2>2
<1>10. q \in Walks(a, F, k)
    <2> HIDE DEF q
    <2> QED BY <1>7, <1>8, <1>9 DEF Walks
<1> QED BY <1>2, <1>10

LEMMA WalksAgree ==
    ASSUME NEW a, NEW F, NEW n \in Nat, NEW m \in Nat,
           NEW p \in Walks(a, F, n), NEW q \in Walks(a, F, m),
           NEW k \in Nat, k <= n, k <= m
    PROVE  p[k] = q[k]
<1> DEFINE Wrong == {i \in 0 .. k : p[i] # q[i]}
<1>1. SUFFICES ASSUME Wrong # {} PROVE FALSE
    BY k \in 0 .. k
<1>2. PICK i \in Wrong : \A j \in Wrong : i <= j
    <2>1. Wrong \in SUBSET Nat
        OBVIOUS
    <2> HIDE DEF Wrong
    <2> QED BY <1>1, <2>1, Least
<1>3. i # 0
    BY <1>2 DEF Walks
<1>4. i \in Nat /\ i <= k /\ i - 1 \in 0 .. k /\ i - 1 \in 0 .. n - 1 /\ i - 1 \in 0 .. m - 1
    BY <1>2, <1>3
<1>5. p[i - 1] = q[i - 1]
    BY <1>2, <1>4
<1>6. p[(i - 1) + 1] = F[p[i - 1]] /\ q[(i - 1) + 1] = F[q[i - 1]]
    BY <1>4 DEF Walks
<1> QED BY <1>2, <1>4, <1>5, <1>6

LEMMA StepsTaken ==
    ASSUME NEW a \in Int, NEW F \in [Int -> Int]
    PROVE  \E g \in [Nat -> Int] : g[0] = a /\ \A n \in Nat : g[n + 1] = F[g[n]]
<1> DEFINE walk(n) == CHOOSE p \in Walks(a, F, n) : TRUE
           g == [n \in Nat |-> walk(n)[n]]
<1>1. ASSUME NEW n \in Nat PROVE walk(n) \in Walks(a, F, n)
    BY WalkExists
<1> HIDE DEF walk
<1>2. g \in [Nat -> Int]
    <2>1. ASSUME NEW n \in Nat PROVE walk(n)[n] \in Int
        <3>1. n \in 0 .. n
            OBVIOUS
        <3> QED BY <1>1, <3>1 DEF Walks
    <2> QED BY <2>1
<1>3. g[0] = a
    BY <1>1 DEF Walks
<1>4. ASSUME NEW n \in Nat PROVE g[n + 1] = F[g[n]]
    <2>1. n + 1 \in Nat /\ n \in 0 .. (n + 1) - 1
        OBVIOUS
    <2>2. walk(n + 1)[n + 1] = F[walk(n + 1)[n]]
        BY <1>1, <2>1 DEF Walks
    <2>3. walk(n + 1)[n] = walk(n)[n]
        BY <1>1, <2>1, WalksAgree
    <2> QED BY <2>1, <2>2, <2>3
<1> QED BY <1>2, <1>3, <1>4

\* The function that BusinessDayAfter() defines by recursion is there.
LEMMA DaysReached ==
    ASSUME NEW hol \in SUBSET Int, IsFiniteSet(hol), NEW d \in Int
    PROVE  LET after == BusinessDayAfter(hol, d)
           IN  /\ after \in [Int -> Int] /\ after[0] = d
               /\ \A n \in Int : n >= 0 => after[n + 1] = NextBusinessDay(hol, after[n] + 1)
               /\ \A n \in Int : n <= 0 => after[n - 1] = LastBusinessDay(hol, after[n] - 1)
<1> DEFINE Turn(f) == [n \in Int |->
                          CASE n = 0 -> d
                            [] n > 0 -> NextBusinessDay(hol, f[n - 1] + 1)
                            [] OTHER -> LastBusinessDay(hol, f[n + 1] - 1)]
           after == CHOOSE f : f = Turn(f)
           Later == [e \in Int |-> NextBusinessDay(hol, e + 1)]
           Earlier == [e \in Int |-> LastBusinessDay(hol, e - 1)]
<1>1. BusinessDayAfter(hol, d) = after
    BY DEF BusinessDayAfter
<1>2. Later \in [Int -> Int]
    <2>1. ASSUME NEW e \in Int PROVE NextBusinessDay(hol, e + 1) \in Int
        <3>1. e + 1 \in Int
            OBVIOUS
        <3> QED BY <3>1, NextIs
    <2> QED BY <2>1
<1>3. Earlier \in [Int -> Int]
    <2>1. ASSUME NEW e \in Int PROVE LastBusinessDay(hol, e - 1) \in Int
        <3>1. e - 1 \in Int
            OBVIOUS
        <3> QED BY <3>1, LastIs
    <2> QED BY <2>1
<1>0. ASSUME NEW F \in [Int -> Int]
      PROVE  \E g \in [Nat -> Int] : g[0] = d /\ \A n \in Nat : g[n + 1] = F[g[n]]
    BY StepsTaken
<1>4. PICK up \in [Nat -> Int] : up[0] = d /\ \A n \in Nat : up[n + 1] = Later[up[n]]
    <2> HIDE DEF Later
    <2> QED BY <1>0, <1>2
<1>5. PICK down \in [Nat -> Int] : down[0] = d /\ \A n \in Nat : down[n + 1] = Earlier[down[n]]
    <2> HIDE DEF Earlier
    <2> QED BY <1>0, <1>3
<1> DEFINE G == [n \in Int |-> IF n >= 0 THEN up[n] ELSE down[0 - n]]
<1>6. G = Turn(G)
    <2>1. ASSUME NEW n \in Int PROVE G[n] = Turn(G)[n]
        <3>1. CASE n = 0
            BY <1>4, <3>1
        <3>2. CASE n > 0
            <4>1. n - 1 \in Nat /\ n \in Nat /\ n = (n - 1) + 1
                BY <3>2
            <4>2. up[n] = Later[up[n - 1]]
                BY <1>4, <4>1
            <4>3. up[n] = NextBusinessDay(hol, up[n - 1] + 1)
                BY <4>1, <4>2
            <4>4. G[n - 1] = up[n - 1] /\ G[n] = up[n]
                BY <3>2
            <4> QED BY <3>2, <4>3, <4>4
        <3>3. CASE n < 0
            <4>1. /\ (0 - n) - 1 \in Nat /\ 0 - n \in Nat
                  /\ 0 - n = ((0 - n) - 1) + 1 /\ 0 - (n + 1) = (0 - n) - 1
                BY <3>3
            <4>2. down[0 - n] = Earlier[down[(0 - n) - 1]]
                BY <1>5, <4>1
            <4>3. down[0 - n] = LastBusinessDay(hol, down[(0 - n) - 1] - 1)
                BY <4>1, <4>2
            <4>4. G[n] = down[0 - n]
                BY <3>3
            <4>5. G[n + 1] = down[(0 - n) - 1]
                <5>1. CASE n + 1 = 0
                    <6>1. (0 - n) - 1 = 0
                        BY <5>1
                    <6> QED BY <1>4, <1>5, <5>1, <6>1
                <5>2. CASE n + 1 # 0
                    BY <3>3, <4>1, <5>2
                <5> QED BY <5>1, <5>2
            <4> QED BY <3>3, <4>3, <4>4, <4>5
        <3> QED BY <3>1, <3>2, <3>3
    <2> QED BY <2>1
<1>7. after = Turn(after)
    BY <1>6
<1> HIDE DEF after
<1>8. after[0] = d
    BY <1>7
<1>9. ASSUME NEW n \in Int, n >= 0 PROVE after[n + 1] = NextBusinessDay(hol, after[n] + 1)
    <2>1. n + 1 > 0 /\ n + 1 \in Int /\ (n + 1) - 1 = n
        BY <1>9
    <2>2. Turn(after)[n + 1] = NextBusinessDay(hol, after[(n + 1) - 1] + 1)
        BY <2>1
    <2> HIDE DEF Turn
    <2> QED BY <1>7, <2>1, <2>2
<1>10. ASSUME NEW n \in Int, n <= 0 PROVE after[n - 1] = LastBusinessDay(hol, after[n] - 1)
    <2>1. n - 1 < 0 /\ n - 1 \in Int /\ (n - 1) + 1 = n
        BY <1>10
    <2>2. Turn(after)[n - 1] = LastBusinessDay(hol, after[(n - 1) + 1] - 1)
        BY <2>1
    <2> HIDE DEF Turn
    <2> QED BY <1>7, <2>1, <2>2
<1> HIDE DEF Turn
<1>11. ASSUME NEW n \in Nat PROVE after[n] \in Int /\ after[0 - n] \in Int
    <2> DEFINE Wrong == {k \in Nat : ~(after[k] \in Int /\ after[0 - k] \in Int)}
    <2>1. SUFFICES ASSUME Wrong # {} PROVE FALSE
        OBVIOUS
    <2>2. PICK k \in Wrong : \A m \in Wrong : k <= m
        <3>1. Wrong \in SUBSET Nat
            OBVIOUS
        <3> HIDE DEF Wrong
        <3> QED BY <2>1, <3>1, Least
    <2>3. k # 0
        BY <1>8, <2>2
    <2>4. k - 1 \in Nat /\ (k - 1) + 1 = k /\ k - 1 >= 0
        BY <2>2, <2>3
    <2>5. /\ 0 - (k - 1) \in Int /\ 0 - (k - 1) <= 0
          /\ (0 - (k - 1)) - 1 = 0 - k
        BY <2>4
    <2>6. after[k - 1] \in Int /\ after[0 - (k - 1)] \in Int
        BY <2>2, <2>4
    <2>7. after[k] = NextBusinessDay(hol, after[k - 1] + 1)
        BY <1>9, <2>4
    <2>8. after[0 - k] = LastBusinessDay(hol, after[0 - (k - 1)] - 1)
        BY <1>10, <2>5
    <2>9. after[k - 1] + 1 \in Int /\ after[0 - (k - 1)] - 1 \in Int
        BY <2>6
    <2>10. after[k] \in Int
        BY <2>7, <2>9, NextIs
    <2>11. after[0 - k] \in Int
        BY <2>8, <2>9, LastIs
    <2> QED BY <2>2, <2>10, <2>11
<1>12. after \in [Int -> Int]
    <2>1. ASSUME NEW n \in Int PROVE after[n] \in Int
        <3>1. CASE n >= 0
            BY <1>11, <3>1
        <3>2. CASE n < 0
            <4>1. 0 - n \in Nat /\ 0 - (0 - n) = n
                BY <3>2
            <4> QED BY <1>11, <4>1
        <3> QED BY <3>1, <3>2
    <2>2. DOMAIN after = Int /\ after = [n \in Int |-> after[n]]
        BY <1>7 DEF Turn
    <2> QED BY <2>1, <2>2
<1> HIDE DEF Later, Earlier, G
<1> QED BY <1>1, <1>8, <1>9, <1>10, <1>12

-----------------------------------------------------------------------------

\* The business days from one day after d to the n-th business day after d are n;
\* likewise before d.
LEMMA DaysCounted ==
    ASSUME NEW hol \in SUBSET Int, IsFiniteSet(hol), NEW d \in Int
    PROVE  LET after == BusinessDayAfter(hol, d)
           IN  \A n \in Nat :
                  /\ d <= after[n] /\ after[0 - n] <= d
                  /\ n > 0 => /\ d < after[n] /\ after[0 - n] < d
                              /\ after[n] \notin hol /\ after[0 - n] \notin hol
                  /\ Cardinality((d + 1 .. after[n]) \ hol) = n
                  /\ Cardinality((after[0 - n] .. d - 1) \ hol) = n
<1> DEFINE after == BusinessDayAfter(hol, d)
           P(k) == /\ d <= after[k] /\ after[0 - k] <= d
                   /\ k > 0 => /\ d < after[k] /\ after[0 - k] < d
                               /\ after[k] \notin hol /\ after[0 - k] \notin hol
                   /\ Cardinality((d + 1 .. after[k]) \ hol) = k
                   /\ Cardinality((after[0 - k] .. d - 1) \ hol) = k
           Wrong == {k \in Nat : ~P(k)}
<1>1. /\ after \in [Int -> Int] /\ after[0] = d
      /\ \A k \in Int : k >= 0 => after[k + 1] = NextBusinessDay(hol, after[k] + 1)
      /\ \A k \in Int : k <= 0 => after[k - 1] = LastBusinessDay(hol, after[k] - 1)
    BY DaysReached
<1> HIDE DEF after
<1>2. P(0)
    <2>1. (d + 1 .. d) \ hol = {} /\ (d .. d - 1) \ hol = {}
        OBVIOUS
    <2>2. Cardinality((d + 1 .. d) \ hol) = 0 /\ Cardinality((d .. d - 1) \ hol) = 0
        BY <2>1, FS_EmptySet
    <2>3. after[0 - 0] = d /\ ~(0 > 0)
        BY <1>1
    <2>4. /\ Cardinality((d + 1 .. after[0]) \ hol) = 0
          /\ Cardinality((after[0 - 0] .. d - 1) \ hol) = 0
        BY <1>1, <2>2, <2>3
    <2> QED BY <1>1, <2>3, <2>4
<1> HIDE DEF P
<1>3. SUFFICES ASSUME Wrong # {} PROVE FALSE
    BY DEF P, after
<1>4. PICK w \in Wrong : \A m \in Wrong : w <= m
    <2>1. Wrong \in SUBSET Nat
        OBVIOUS
    <2> HIDE DEF Wrong
    <2> QED BY <1>3, <2>1, Least
<1> DEFINE k == w - 1
<1>5. w # 0 /\ w \in Nat /\ ~P(w)
    BY <1>2, <1>4
<1>6. k \in Nat /\ P(k) /\ w = k + 1 /\ 0 - w = (0 - k) - 1 /\ 0 - k \in Int /\ 0 - k <= 0
    BY <1>4, <1>5
<1> HIDE DEF k
<1> DEFINE e == after[k]
           f == after[0 - k]
           next == NextBusinessDay(hol, e + 1)
           last == LastBusinessDay(hol, f - 1)
<1>7. /\ e \in Int /\ f \in Int /\ d <= e /\ f <= d
      /\ Cardinality((d + 1 .. e) \ hol) = k
      /\ Cardinality((f .. d - 1) \ hol) = k
      /\ after[w] = next /\ after[0 - w] = last
    BY <1>1, <1>6 DEF P
<1> HIDE DEF e, f
<1>8. /\ next \in Int /\ next \notin hol /\ e + 1 <= next
      /\ \A x \in Int : e + 1 <= x /\ x < next => x \in hol
    <2>1. e + 1 \in Int
        BY <1>7
    <2> QED BY <2>1, NextIs
<1>9. /\ last \in Int /\ last \notin hol /\ last <= f - 1
      /\ \A x \in Int : last < x /\ x <= f - 1 => x \in hol
    <2>1. f - 1 \in Int
        BY <1>7
    <2> QED BY <2>1, LastIs
<1> HIDE DEF next, last
<1>10. Cardinality((d + 1 .. next) \ hol) = w
    <2> DEFINE S == (d + 1 .. e) \ hol
    <2>1. (d + 1 .. next) \ hol = S \union {next} /\ next \notin S
        BY <1>7, <1>8
    <2>2. IsFiniteSet(S)
        <3>1. IsFiniteSet(d + 1 .. e)
            BY <1>7, FS_Interval
        <3> QED BY <3>1, FS_Subset
    <2> HIDE DEF S
    <2>3. Cardinality(S \union {next}) = Cardinality(S) + 1
        BY <2>1, <2>2, FS_AddElement
    <2> QED BY <1>6, <1>7, <2>1, <2>3 DEF S
<1>11. Cardinality((last .. d - 1) \ hol) = w
    <2> DEFINE S == (f .. d - 1) \ hol
    <2>1. (last .. d - 1) \ hol = S \union {last} /\ last \notin S
        BY <1>7, <1>9
    <2>2. IsFiniteSet(S)
        <3>1. IsFiniteSet(f .. d - 1)
            BY <1>7, FS_Interval
        <3> QED BY <3>1, FS_Subset
    <2> HIDE DEF S
    <2>3. Cardinality(S \union {last}) = Cardinality(S) + 1
        BY <2>1, <2>2, FS_AddElement
    <2> QED BY <1>6, <1>7, <2>1, <2>3 DEF S
<1>12. d < next /\ last < d
    BY <1>7, <1>8, <1>9
<1>13. P(w)
    BY <1>5, <1>7, <1>8, <1>9, <1>10, <1>11, <1>12 DEF P
<1> QED BY <1>5, <1>13

\* Of two numbers.
LEMMA MinMaxOfTwo ==
    ASSUME NEW x \in Int, NEW y \in Int, x <= y
    PROVE  /\ Min({x, y}) = x /\ Min({y, x}) = x
           /\ Max({x, y}) = y /\ Max({y, x}) = y
<1>1. {y, x} = {x, y}
    OBVIOUS
<1>2. {x, y} \in SUBSET Int /\ {x, y} # {} /\ (\A m \in {x, y} : x <= m)
      /\ (\A m \in {x, y} : m <= y)
    OBVIOUS
<1>3. Min({x, y}) \in {x, y} /\ \A m \in {x, y} : Min({x, y}) <= m
    BY <1>2, MinOf
<1>4. Max({x, y}) \in {x, y} /\ \A m \in {x, y} : m <= Max({x, y})
    BY <1>2, MaxOf
<1>5. Min({x, y}) \in Int /\ Min({x, y}) <= x /\ x <= Min({x, y})
    BY <1>2, <1>3
<1>6. Max({x, y}) \in Int /\ Max({x, y}) <= y /\ y <= Max({x, y})
    BY <1>2, <1>4
<1>7. Min({x, y}) = x
    BY <1>5
<1>8. Max({x, y}) = y
    BY <1>6
<1> QED BY <1>1, <1>7, <1>8

\* Days of which the first, or the last, is looked at by itself.
LEMMA FirstDay ==
    ASSUME NEW hol, NEW x \in Int, NEW y \in Int, x <= y, NEW n \in Nat,
           Cardinality((x + 1 .. y) \ hol) = n
    PROVE  Cardinality((x .. y) \ hol) = IF x \in hol THEN n ELSE n + 1
<1> DEFINE S == (x + 1 .. y) \ hol
           T == (x .. y) \ hol
<1>1. IsFiniteSet(S)
    <2>1. IsFiniteSet(x + 1 .. y)
        BY FS_Interval
    <2> QED BY <2>1, FS_Subset
<1>2. T = IF x \in hol THEN S ELSE S \union {x}
    OBVIOUS
<1>3. x \notin S /\ Cardinality(S) = n
    OBVIOUS
<1> HIDE DEF S, T
<1>4. Cardinality(S \union {x}) = Cardinality(S) + 1
    BY <1>1, <1>3, FS_AddElement
<1>5. Cardinality(T) = IF x \in hol THEN n ELSE n + 1
    BY <1>2, <1>3, <1>4
<1> QED BY <1>5 DEF T

LEMMA FinalDay ==
    ASSUME NEW hol, NEW x \in Int, NEW y \in Int, x <= y, NEW n \in Nat,
           Cardinality((x .. y - 1) \ hol) = n
    PROVE  Cardinality((x .. y) \ hol) = IF y \in hol THEN n ELSE n + 1
<1> DEFINE S == (x .. y - 1) \ hol
           T == (x .. y) \ hol
<1>1. IsFiniteSet(S)
    <2>1. IsFiniteSet(x .. y - 1)
        BY FS_Interval
    <2> QED BY <2>1, FS_Subset
<1>2. T = IF y \in hol THEN S ELSE S \union {y}
    OBVIOUS
<1>3. y \notin S /\ Cardinality(S) = n
    OBVIOUS
<1> HIDE DEF S, T
<1>4. Cardinality(S \union {y}) = Cardinality(S) + 1
    BY <1>1, <1>3, FS_AddElement
<1>5. Cardinality(T) = IF y \in hol THEN n ELSE n + 1
    BY <1>2, <1>3, <1>4
<1> QED BY <1>5 DEF T

\* The two counts of the days between two dates that leave one end out.
DaysTo(hol, from, to) == businessDaysBetween(hol, from, to, FALSE, TRUE)

DaysFrom(hol, from, to) == businessDaysBetween(hol, from, to, TRUE, FALSE)

LEMMA FirstLeftOut ==
    ASSUME NEW hol, NEW x \in Int, NEW y \in Int, x < y, NEW n \in Nat,
           Cardinality((x + 1 .. y) \ hol) = n
    PROVE  DaysTo(hol, x, y) = n
<1> DEFINE c == Cardinality((x .. y) \ hol)
           days == c - (IF x \in hol THEN 0 ELSE 1) - 0
<1>1. x <= y
    OBVIOUS
<1>2. c = IF x \in hol THEN n ELSE n + 1
    BY <1>1, FirstDay
<1>3. Min({x, y}) = x /\ Max({x, y}) = y
    BY <1>1, MinMaxOfTwo
<1>4. /\ One(x \notin hol /\ ~FALSE) = IF x \in hol THEN 0 ELSE 1
      /\ One(y \notin hol /\ ~TRUE) = 0
    BY DEF One
<1>5. x # y /\ ~(y < x) /\ ~(x > y) /\ y > x
    OBVIOUS
<1>6. days = n
    <2> HIDE DEF c
    <2> QED BY <1>2
<1> HIDE DEF days
<1>7. DaysTo(hol, x, y) = days
    BY <1>3, <1>4, <1>5 DEF DaysTo, businessDaysBetween, days
<1> QED BY <1>6, <1>7

LEMMA FirstLeftOutBack ==
    ASSUME NEW hol, NEW x \in Int, NEW y \in Int, x < y, NEW n \in Nat,
           NEW m \in Int, n + m = 0,
           Cardinality((x + 1 .. y) \ hol) = n
    PROVE  DaysFrom(hol, y, x) = m
<1> DEFINE c == Cardinality((x .. y) \ hol)
           days == c - 0 - (IF x \in hol THEN 0 ELSE 1)
<1>1. x <= y
    OBVIOUS
<1>2. c = IF x \in hol THEN n ELSE n + 1
    BY <1>1, FirstDay
<1>3. Min({y, x}) = x /\ Max({y, x}) = y
    BY <1>1, MinMaxOfTwo
<1>4. /\ One(y \notin hol /\ ~TRUE) = 0
      /\ One(x \notin hol /\ ~FALSE) = IF x \in hol THEN 0 ELSE 1
    BY DEF One
<1>5. x # y /\ ~(y < x) /\ ~(x > y) /\ y > x
    OBVIOUS
<1>6. -days = m
    <2> HIDE DEF c
    <2> QED BY <1>2
<1> HIDE DEF days
<1>7. DaysFrom(hol, y, x) = -days
    BY <1>3, <1>4, <1>5 DEF DaysFrom, businessDaysBetween, days
<1> QED BY <1>6, <1>7

LEMMA LastLeftOutBack ==
    ASSUME NEW hol, NEW x \in Int, NEW y \in Int, x < y, NEW n \in Nat,
           NEW m \in Int, m + n = 0,
           Cardinality((x .. y - 1) \ hol) = n
    PROVE  DaysTo(hol, y, x) = m
<1> DEFINE c == Cardinality((x .. y) \ hol)
           days == c - (IF y \in hol THEN 0 ELSE 1) - 0
<1>1. x <= y
    OBVIOUS
<1>2. c = IF y \in hol THEN n ELSE n + 1
    BY <1>1, FinalDay
<1>3. Min({y, x}) = x /\ Max({y, x}) = y
    BY <1>1, MinMaxOfTwo
<1>4. /\ One(y \notin hol /\ ~FALSE) = IF y \in hol THEN 0 ELSE 1
      /\ One(x \notin hol /\ ~TRUE) = 0
    BY DEF One
<1>5. x # y /\ ~(y < x) /\ ~(x > y) /\ y > x
    OBVIOUS
<1>6. -days = m
    <2> HIDE DEF c
    <2> QED BY <1>2
<1> HIDE DEF days
<1>7. DaysTo(hol, y, x) = -days
    BY <1>3, <1>4, <1>5 DEF DaysTo, businessDaysBetween, days
<1> QED BY <1>6, <1>7

LEMMA LastLeftOut ==
    ASSUME NEW hol, NEW x \in Int, NEW y \in Int, x < y, NEW n \in Nat,
           Cardinality((x .. y - 1) \ hol) = n
    PROVE  DaysFrom(hol, x, y) = n
<1> DEFINE c == Cardinality((x .. y) \ hol)
           days == c - 0 - (IF y \in hol THEN 0 ELSE 1)
<1>1. x <= y
    OBVIOUS
<1>2. c = IF y \in hol THEN n ELSE n + 1
    BY <1>1, FinalDay
<1>3. Min({x, y}) = x /\ Max({x, y}) = y
    BY <1>1, MinMaxOfTwo
<1>4. /\ One(x \notin hol /\ ~TRUE) = 0
      /\ One(y \notin hol /\ ~FALSE) = IF y \in hol THEN 0 ELSE 1
    BY DEF One
<1>5. x # y /\ ~(y < x) /\ ~(x > y) /\ y > x
    OBVIOUS
<1>6. days = n
    <2> HIDE DEF c
    <2> QED BY <1>2
<1> HIDE DEF days
<1>7. DaysFrom(hol, x, y) = days
    BY <1>3, <1>4, <1>5 DEF DaysFrom, businessDaysBetween, days
<1> QED BY <1>6, <1>7

\* Advancing by any number of business days, of either sign, gives a business day
\* at that distance.
LEMMA AdvanceCounts ==
    ASSUME NEW hol \in SUBSET Int, IsFiniteSet(hol), NEW d \in Int, NEW n \in Int, n # 0,
           NEW m \in Int, n + m = 0
    PROVE  /\ advance(hol, d, n) \notin hol
           /\ DaysTo(hol, d, advance(hol, d, n)) = n
           /\ DaysFrom(hol, advance(hol, d, n), d) = m
<1> DEFINE after == BusinessDayAfter(hol, d)
           e == advance(hol, d, n)
<1>1. e = after[n] /\ after \in [Int -> Int]
    BY DaysReached DEF advance
<1>2. \A k \in Nat :
          /\ d <= after[k] /\ after[0 - k] <= d
          /\ k > 0 => /\ d < after[k] /\ after[0 - k] < d
                      /\ after[k] \notin hol /\ after[0 - k] \notin hol
          /\ Cardinality((d + 1 .. after[k]) \ hol) = k
          /\ Cardinality((after[0 - k] .. d - 1) \ hol) = k
    BY DaysCounted
<1> HIDE DEF after, e
<1>4. e \in Int
    BY <1>1
<1>5. ASSUME n > 0
      PROVE  /\ e \notin hol
             /\ DaysTo(hol, d, e) = n
             /\ DaysFrom(hol, e, d) = m
    <2>1. n \in Nat
        BY <1>5
    <2>2. d < e /\ e \notin hol /\ Cardinality((d + 1 .. e) \ hol) = n
        BY <1>1, <1>2, <1>5, <2>1
    <2>3. DaysTo(hol, d, e) = n
        BY <1>4, <2>1, <2>2, FirstLeftOut
    <2>4. DaysFrom(hol, e, d) = m
        BY <1>4, <2>1, <2>2, FirstLeftOutBack
    <2> QED BY <2>2, <2>3, <2>4
<1>6. ASSUME n < 0
      PROVE  /\ e \notin hol
             /\ DaysTo(hol, d, e) = n
             /\ DaysFrom(hol, e, d) = m
    <2>1. m \in Nat /\ m > 0 /\ n = 0 - m
        BY <1>6
    <2>2. e = after[0 - m]
        BY <1>1, <2>1
    <2>3. e < d /\ e \notin hol /\ Cardinality((e .. d - 1) \ hol) = m
        BY <1>2, <2>1, <2>2
    <2>4. m \in Nat
        BY <2>1
    <2>5. DaysTo(hol, d, e) = n
        BY <1>4, <2>3, <2>4, LastLeftOutBack
    <2>6. DaysFrom(hol, e, d) = m
        BY <1>4, <2>3, <2>4, LastLeftOut
    <2> QED BY <2>3, <2>5, <2>6
<1>7. n > 0 \/ n < 0
    OBVIOUS
<1>8. /\ e \notin hol
      /\ DaysTo(hol, d, e) = n
      /\ DaysFrom(hol, e, d) = m
    BY <1>4, <1>5, <1>6, <1>7
<1> QED BY <1>8 DEF e

LEMMA AdjustedIsBusinessDay ==
    ASSUME NEW hol \in SUBSET Int, IsFiniteSet(hol), NEW d \in Int,
           NEW c \in Conventions \ {"Unadjusted"}
    PROVE  adjust(hol, d, c) \notin hol
<1>1. NextBusinessDay(hol, d) \notin hol /\ LastBusinessDay(hol, d) \notin hol
    BY NextIs, LastIs
<1> QED BY <1>1 DEF adjust, ModifiedFollowing, Nearest, Conventions

LEMMA NearestIsNearest ==
    ASSUME NEW hol \in SUBSET Int, IsFiniteSet(hol), NEW d \in Int,
           NEW e \in Int \ hol
    PROVE  LET near == Nearest(hol, d)
               low(x)  == Min({d, x})
               high(x) == Max({d, x})
           IN  \/ high(near) - low(near) < high(e) - low(e)
               \/ high(near) - low(near) = high(e) - low(e) /\ near >= e
<1> DEFINE next == NextBusinessDay(hol, d)
           last == LastBusinessDay(hol, d)
           near == Nearest(hol, d)
           gap(x) == Max({d, x}) - Min({d, x})
<1>1. /\ next \in Int /\ d <= next /\ \A x \in Int : d <= x /\ x < next => x \in hol
      /\ last \in Int /\ last <= d /\ \A x \in Int : last < x /\ x <= d => x \in hol
    BY NextIs, LastIs
<1>2. near = IF next - d <= d - last THEN next ELSE last
    BY DEF Nearest
<1> HIDE DEF next, last, near
<1>3. e >= next \/ e <= last
    BY <1>1
<1>4. ASSUME NEW x \in Int PROVE gap(x) = IF d <= x THEN x - d ELSE d - x
    BY MinMaxOfTwo
<1>5. near \in Int
    BY <1>1, <1>2
<1>6. /\ gap(e) = IF d <= e THEN e - d ELSE d - e
      /\ gap(near) = IF d <= near THEN near - d ELSE d - near
    BY <1>4, <1>5
<1> HIDE DEF gap
<1>7. gap(near) < gap(e) \/ (gap(near) = gap(e) /\ near >= e)
    BY <1>1, <1>2, <1>3, <1>6
<1> QED BY <1>7 DEF gap, near

\* If some business day is in the month of d, the modified conventions stay in it.
LEMMA AdjustedStays ==
    ASSUME NEW hol \in SUBSET Int, IsFiniteSet(hol), NEW d \in Int, NEW e \in Int \ hol
    PROVE  LET stays(x) == SameMonth(Min({d, x}), Max({d, x}))
               staysInHalf(x) == SameHalf(Min({d, x}), Max({d, x}))
           IN  /\ stays(e) => /\ stays(adjust(hol, d, "ModifiedFollowing"))
                              /\ stays(adjust(hol, d, "ModifiedPreceding"))
               /\ staysInHalf(e) => staysInHalf(adjust(hol, d, "HalfMonthModifiedFollowing"))
<1> DEFINE next == NextBusinessDay(hol, d)
           last == LastBusinessDay(hol, d)
           stays(x) == SameMonth(Min({d, x}), Max({d, x}))
           staysInHalf(x) == SameHalf(Min({d, x}), Max({d, x}))
           Within(S, x) == \A m \in S : ~(d <= m /\ m < x) /\ ~(x <= m /\ m < d)
<1>1. /\ next \in Int /\ d <= next /\ \A x \in Int : d <= x /\ x < next => x \in hol
      /\ last \in Int /\ last <= d /\ \A x \in Int : last < x /\ x <= d => x \in hol
    BY NextIs, LastIs
<1>2. MonthEnds \in SUBSET Int /\ MonthMiddles \in SUBSET Int
    BY CalendarConstants
<1>3. /\ adjust(hol, d, "ModifiedFollowing") = IF SameMonth(d, next) THEN next ELSE last
      /\ adjust(hol, d, "ModifiedPreceding") = IF SameMonth(last, d) THEN last ELSE next
      /\ adjust(hol, d, "HalfMonthModifiedFollowing") = IF SameHalf(d, next) THEN next ELSE last
    BY DEF adjust, ModifiedFollowing
<1> HIDE DEF next, last
<1>4. ASSUME NEW x \in Int
      PROVE  /\ stays(x) <=> Within(MonthEnds, x)
             /\ staysInHalf(x) <=> Within(MonthEnds, x) /\ Within(MonthMiddles, x)
    <2>1. CASE d <= x
        <3>1. Min({d, x}) = d /\ Max({d, x}) = x
            BY <2>1, MinMaxOfTwo
        <3> QED BY <1>2, <2>1, <3>1 DEF SameMonth, SameHalf
    <2>2. CASE x < d
        <3>1. Min({d, x}) = x /\ Max({d, x}) = d
            BY <2>2, MinMaxOfTwo
        <3> QED BY <1>2, <2>2, <3>1 DEF SameMonth, SameHalf
    <2> QED BY <2>1, <2>2
<1>5. /\ SameMonth(d, next) <=> Within(MonthEnds, next)
      /\ SameMonth(last, d) <=> Within(MonthEnds, last)
      /\ SameHalf(d, next) <=> Within(MonthEnds, next) /\ Within(MonthMiddles, next)
    BY <1>1, <1>2 DEF SameMonth, SameHalf
<1> HIDE DEF stays, staysInHalf
<1>6. e >= next \/ e <= last
    BY <1>1
<1>7. ASSUME NEW S \in SUBSET Int, Within(S, e) PROVE Within(S, next) \/ Within(S, last)
    <2>1. CASE e >= next
        <3>1. Within(S, next)
            BY <1>1, <1>7, <2>1
        <3> QED BY <3>1
    <2>2. CASE e <= last
        <3>1. Within(S, last)
            BY <1>1, <1>7, <2>2
        <3> QED BY <3>1
    <2> QED BY <1>6, <2>1, <2>2
<1>8. ASSUME Within(MonthEnds, e), Within(MonthMiddles, e),
             ~(Within(MonthEnds, next) /\ Within(MonthMiddles, next))
      PROVE  Within(MonthEnds, last) /\ Within(MonthMiddles, last)
    <2>1. ~(e >= next)
        <3>1. SUFFICES ASSUME e >= next PROVE FALSE
            OBVIOUS
        <3>2. ASSUME NEW S \in SUBSET Int, Within(S, e) PROVE Within(S, next)
            BY <1>1, <3>1, <3>2
        <3> HIDE DEF Within
        <3> QED BY <1>2, <1>8, <3>2
    <2>2. e <= last
        BY <1>6, <2>1
    <2>3. ASSUME NEW S \in SUBSET Int, Within(S, e) PROVE Within(S, last)
        BY <1>1, <2>2, <2>3
    <2> HIDE DEF Within
    <2> QED BY <1>2, <1>8, <2>3
<1> HIDE DEF Within
<1>9. stays(e) => stays(IF SameMonth(d, next) THEN next ELSE last)
    BY <1>1, <1>2, <1>4, <1>5, <1>7
<1>10. stays(e) => stays(IF SameMonth(last, d) THEN last ELSE next)
    BY <1>1, <1>2, <1>4, <1>5, <1>7
<1>11. staysInHalf(e) => staysInHalf(IF SameHalf(d, next) THEN next ELSE last)
    BY <1>1, <1>2, <1>4, <1>5, <1>8
<1>12. /\ stays(e) => /\ stays(adjust(hol, d, "ModifiedFollowing"))
                      /\ stays(adjust(hol, d, "ModifiedPreceding"))
       /\ staysInHalf(e) => staysInHalf(adjust(hol, d, "HalfMonthModifiedFollowing"))
    BY <1>3, <1>9, <1>10, <1>11
<1> QED BY <1>12 DEF stays, staysInHalf

\* A business day that the convention looks for is found no later than any other.
LEMMA AdjustedIsFirst ==
    ASSUME NEW hol \in SUBSET Int, IsFiniteSet(hol), NEW d \in Int, NEW e \in Int \ hol
    PROVE  LET stays(x) == SameMonth(Min({d, x}), Max({d, x}))
               staysInHalf(x) == SameHalf(Min({d, x}), Max({d, x}))
           IN  /\ d <= e =>
                     /\ adjust(hol, d, "Following") \in d .. e
                     /\ stays(e) => adjust(hol, d, "ModifiedFollowing") \in d .. e
                     /\ staysInHalf(e) =>
                           adjust(hol, d, "HalfMonthModifiedFollowing") \in d .. e
               /\ e <= d =>
                     /\ adjust(hol, d, "Preceding") \in e .. d
                     /\ stays(e) => adjust(hol, d, "ModifiedPreceding") \in e .. d
<1> DEFINE next == NextBusinessDay(hol, d)
           last == LastBusinessDay(hol, d)
           stays(x) == SameMonth(Min({d, x}), Max({d, x}))
           staysInHalf(x) == SameHalf(Min({d, x}), Max({d, x}))
<1>1. /\ next \in Int /\ d <= next /\ \A x \in Int : d <= x /\ x < next => x \in hol
      /\ last \in Int /\ last <= d /\ \A x \in Int : last < x /\ x <= d => x \in hol
    BY NextIs, LastIs
<1>2. MonthEnds \in SUBSET Int /\ MonthMiddles \in SUBSET Int
    BY CalendarConstants
<1>3. /\ adjust(hol, d, "Following") = next
      /\ adjust(hol, d, "Preceding") = last
      /\ adjust(hol, d, "ModifiedFollowing") = IF SameMonth(d, next) THEN next ELSE last
      /\ adjust(hol, d, "ModifiedPreceding") = IF SameMonth(last, d) THEN last ELSE next
      /\ adjust(hol, d, "HalfMonthModifiedFollowing") = IF SameHalf(d, next) THEN next ELSE last
    BY DEF adjust, ModifiedFollowing
<1> HIDE DEF next, last
<1>4. ASSUME d <= e
      PROVE  /\ next \in d .. e
             /\ stays(e) => SameMonth(d, next)
             /\ staysInHalf(e) => SameHalf(d, next)
    <2>1. Min({d, e}) = d /\ Max({d, e}) = e
        BY <1>4, MinMaxOfTwo
    <2>2. d <= next /\ next <= e /\ next \in Int
        BY <1>1, <1>4
    <2>3. SameMonth(d, e) => SameMonth(d, next)
        BY <1>2, <2>2 DEF SameMonth
    <2>4. SameHalf(d, e) => SameHalf(d, next)
        BY <1>2, <2>2, <2>3 DEF SameHalf
    <2> QED BY <2>1, <2>2, <2>3, <2>4
<1>5. ASSUME e <= d
      PROVE  last \in e .. d /\ (stays(e) => SameMonth(last, d))
    <2>1. Min({d, e}) = e /\ Max({d, e}) = d
        BY <1>5, MinMaxOfTwo
    <2>2. e <= last /\ last <= d /\ last \in Int
        BY <1>1, <1>5
    <2>3. SameMonth(e, d) => SameMonth(last, d)
        BY <1>2, <2>2 DEF SameMonth
    <2> QED BY <2>1, <2>2, <2>3
<1> HIDE DEF stays, staysInHalf
<1>6. /\ d <= e =>
            /\ adjust(hol, d, "Following") \in d .. e
            /\ stays(e) => adjust(hol, d, "ModifiedFollowing") \in d .. e
            /\ staysInHalf(e) => adjust(hol, d, "HalfMonthModifiedFollowing") \in d .. e
      /\ e <= d =>
            /\ adjust(hol, d, "Preceding") \in e .. d
            /\ stays(e) => adjust(hol, d, "ModifiedPreceding") \in e .. d
    BY <1>3, <1>4, <1>5, Zenon
<1> QED BY <1>6 DEF stays, staysInHalf

\* Only finitely many days have been made holidays.
HolidaysFinite == addedHolidays \in SUBSET Int /\ IsFiniteSet(addedHolidays)

LEMMA HolidaysFiniteInit == Init => HolidaysFinite
BY FS_EmptySet DEF Init, CalendarInit, HolidaysFinite

LEMMA HolidaysFiniteStep == HolidaysFinite /\ [Next]_vars => HolidaysFinite'
<1> SUFFICES ASSUME HolidaysFinite, [Next]_vars PROVE HolidaysFinite'
    OBVIOUS
<1> USE DEF calendarVars, settingsVars, fixingVars
<1>1. ASSUME UNCHANGED addedHolidays PROVE HolidaysFinite'
    BY <1>1 DEF HolidaysFinite
<1>2. ASSUME NEW d \in Int, addedHolidays' = addedHolidays \union {d} PROVE HolidaysFinite'
    BY <1>2, FS_AddElement DEF HolidaysFinite
<1>3. ASSUME NEW d, addedHolidays' = addedHolidays \ {d} PROVE HolidaysFinite'
    BY <1>3, FS_RemoveElement DEF HolidaysFinite
<1>4. CASE UnannouncedChange
    <2>1. ASSUME NEW d \in HolidayDates, addHoliday(d) PROVE HolidaysFinite'
        BY <1>1, <1>2, <2>1, ValuationConstants DEF addHoliday
    <2>2. ASSUME NEW d \in HolidayDates, removeHoliday(d) PROVE HolidaysFinite'
        BY <1>3, <2>2 DEF removeHoliday
    <2> QED BY <1>1, <1>4, <2>1, <2>2 DEF UnannouncedChange
<1>5. CASE AddFixings
    BY <1>1, <1>5 DEF AddFixings
<1>6. CASE SetDate
    BY <1>1, <1>6 DEF SetDate
<1>7. CASE EndScope
    BY <1>1, <1>7 DEF EndScope
<1>8. CASE ReadReferenceDate
    BY <1>1, <1>8 DEF ReadReferenceDate
<1>9. CASE NPV
    BY <1>1, <1>9 DEF NPV
<1>10. CASE UNCHANGED vars
    BY <1>1, <1>10 DEF vars
<1> QED BY <1>4, <1>5, <1>6, <1>7, <1>8, <1>9, <1>10 DEF Next

LEMMA HolidaysOfCalendar ==
    ASSUME HolidaysFinite
    PROVE  isHoliday \in SUBSET Int /\ IsFiniteSet(isHoliday)
<1> DEFINE M == MarketHolidays \ removedHolidays
<1>1. M \in SUBSET MarketHolidays /\ IsFiniteSet(MarketHolidays)
    BY CalendarConstants
<1>2. IsFiniteSet(M) /\ M \in SUBSET Int
    BY <1>1, FS_Subset, CalendarConstants
<1>3. isHoliday = addedHolidays \union M
    BY DEF isHoliday, HolidaysWith
<1> HIDE DEF M
<1> QED BY <1>2, <1>3, FS_Union DEF HolidaysFinite

\* Advancing by any number of business days, forwards or backwards, gives a business
\* day at that distance, as businessDaysBetween() counts it, whatever days
\* clients have made holidays or business days (calendar.cpp:110-174).
THEOREM AdvanceIsExact ==
    Spec => [](\A d \in Int, n \in Int \ {0} :
                  LET e == advance(isHoliday, d, n)
                  IN  /\ e \notin isHoliday
                      /\ businessDaysBetween(isHoliday, d, e, FALSE, TRUE) = n
                      /\ businessDaysBetween(isHoliday, e, d, TRUE, FALSE) = -n)
<1> DEFINE Exact == \A d \in Int, n \in Int \ {0} :
                       LET e == advance(isHoliday, d, n)
                       IN  /\ e \notin isHoliday
                           /\ businessDaysBetween(isHoliday, d, e, FALSE, TRUE) = n
                           /\ businessDaysBetween(isHoliday, e, d, TRUE, FALSE) = -n
<1>1. HolidaysFinite => Exact
    <2> SUFFICES ASSUME HolidaysFinite, NEW d \in Int, NEW n \in Int \ {0}
                 PROVE  LET e == advance(isHoliday, d, n)
                        IN  /\ e \notin isHoliday
                            /\ businessDaysBetween(isHoliday, d, e, FALSE, TRUE) = n
                            /\ businessDaysBetween(isHoliday, e, d, TRUE, FALSE) = -n
        OBVIOUS
    <2>1. n \in Int /\ n # 0 /\ -n \in Int /\ n + (-n) = 0
        OBVIOUS
    <2>2. isHoliday \in SUBSET Int /\ IsFiniteSet(isHoliday)
        BY HolidaysOfCalendar
    <2>3. /\ advance(isHoliday, d, n) \notin isHoliday
          /\ DaysTo(isHoliday, d, advance(isHoliday, d, n)) = n
          /\ DaysFrom(isHoliday, advance(isHoliday, d, n), d) = -n
        BY <2>1, <2>2, AdvanceCounts
    <2> QED BY <2>3, Zenon DEF DaysTo, DaysFrom
<1> HIDE DEF Exact
<1>2. Spec => []Exact
    BY <1>1, HolidaysFiniteInit, HolidaysFiniteStep, PTL DEF Spec
<1> QED BY <1>2 DEF Exact

\* The dates an adjustment gives and those an advance gives, whatever days
\* clients have made holidays or business days (calendar.cpp:48-174).
THEOREM CalendarIsLawful == Spec => []CalendarLaws
<1>1. HolidaysFinite => LawsHold
    <2> SUFFICES ASSUME HolidaysFinite PROVE LawsHold
        OBVIOUS
    <2> DEFINE hol == isHoliday
    <2>1. hol \in SUBSET Int /\ IsFiniteSet(hol)
        BY HolidaysOfCalendar
    <2>2. \A d \in Dates \union HolidayDates : d \in Int
        BY SettingsConstants, ValuationConstants
    <2> HIDE DEF hol
    <2>3. \A n \in {-2, -1, 1, 2} : n \in Int /\ n # 0 /\ -n \in Int /\ n + (-n) = 0
        OBVIOUS
    <2>4. ASSUME NEW d \in Dates \union HolidayDates, NEW n \in {-2, -1, 1, 2}
          PROVE  LET e == advance(hol, d, n)
                 IN  /\ e \notin hol
                     /\ businessDaysBetween(hol, d, e, FALSE, TRUE) = n
                     /\ businessDaysBetween(hol, e, d, TRUE, FALSE) = -n
        <3>1. n \in Int /\ n # 0 /\ -n \in Int /\ n + (-n) = 0
            BY <2>3
        <3>2. /\ advance(hol, d, n) \notin hol
              /\ DaysTo(hol, d, advance(hol, d, n)) = n
              /\ DaysFrom(hol, advance(hol, d, n), d) = -n
            BY <2>1, <2>2, <3>1, AdvanceCounts
        <3> QED BY <3>2, Zenon DEF DaysTo, DaysFrom
    <2>5. ASSUME NEW d \in Dates \union HolidayDates, NEW c \in Conventions \ {"Unadjusted"}
          PROVE  adjust(hol, d, c) \notin hol
        BY <2>1, <2>2, AdjustedIsBusinessDay
    <2>6. ASSUME NEW d \in Dates \union HolidayDates, NEW e \in (d - 4 .. d + 4) \ hol
          PROVE  e \in Int \ hol /\ d \in Int
        BY <2>2
    <2>7. ASSUME NEW d \in Dates \union HolidayDates, NEW e \in (d - 4 .. d + 4) \ hol
          PROVE  LET near == Nearest(hol, d)
                     low(x)  == Min({d, x})
                     high(x) == Max({d, x})
                     stays(x) == SameMonth(low(x), high(x))
                     staysInHalf(x) == SameHalf(low(x), high(x))
                 IN  /\ d <= e =>
                           /\ adjust(hol, d, "Following") \in d .. e
                           /\ stays(e) => adjust(hol, d, "ModifiedFollowing") \in d .. e
                           /\ staysInHalf(e) =>
                                 adjust(hol, d, "HalfMonthModifiedFollowing") \in d .. e
                     /\ e <= d =>
                           /\ adjust(hol, d, "Preceding") \in e .. d
                           /\ stays(e) => adjust(hol, d, "ModifiedPreceding") \in e .. d
                     /\ stays(e) => /\ stays(adjust(hol, d, "ModifiedFollowing"))
                                    /\ stays(adjust(hol, d, "ModifiedPreceding"))
                     /\ staysInHalf(e) =>
                           staysInHalf(adjust(hol, d, "HalfMonthModifiedFollowing"))
                     /\ \/ high(near) - low(near) < high(e) - low(e)
                        \/ high(near) - low(near) = high(e) - low(e) /\ near >= e
        BY <2>1, <2>6, <2>7, AdjustedStays, AdjustedIsFirst, NearestIsNearest, Zenon
    <2> QED BY <2>4, <2>5, <2>7, Zenon DEF LawsHold, hol
<1>2. HolidaysFinite => CalendarLaws
    BY <1>1 DEF CalendarLaws
<1> QED BY <1>2, HolidaysFiniteInit, HolidaysFiniteStep, PTL DEF Spec

LEMMA MinIs ==
    ASSUME NEW T \in SUBSET Int, NEW b \in T, \A m \in T : b <= m
    PROVE  Min(T) = b
<1>1. PICK n : n = Min(T)
    OBVIOUS
<1>2. Min(T) \in T /\ \A m \in T : Min(T) <= m
    BY MinOf
<1>3. n \in Int /\ b \in Int /\ n <= b /\ b <= n
    BY <1>1, <1>2
<1>4. n = b
    BY <1>3
<1> QED BY <1>1, <1>4

LEMMA MaxIs ==
    ASSUME NEW T \in SUBSET Int, NEW b \in T, \A m \in T : m <= b
    PROVE  Max(T) = b
<1>1. PICK n : n = Max(T)
    OBVIOUS
<1>2. Max(T) \in T /\ \A m \in T : m <= Max(T)
    BY MaxOf
<1>3. n \in Int /\ b \in Int /\ n <= b /\ b <= n
    BY <1>1, <1>2
<1>4. n = b
    BY <1>3
<1> QED BY <1>1, <1>4

-----------------------------------------------------------------------------
(***************************************************************************)
(* The repository: its lists against the log of what was added.            *)
(***************************************************************************)

LEMMA LowHigh ==
    ASSUME NEW a, NEW b
    PROVE  /\ Lower(a, b) \in {a, b} /\ Higher(a, b) \in {a, b}
           /\ {a, b} = {Lower(a, b), Higher(a, b)}
<1>1. CASE a < b
    <2>1. Lower(a, b) = a /\ Higher(a, b) = b
        BY <1>1 DEF Lower, Higher
    <2> QED BY <2>1
<1>2. CASE ~(a < b)
    <2>1. Lower(a, b) = b /\ Higher(a, b) = a
        BY <1>2 DEF Lower, Higher
    <2> QED BY <2>1
<1> QED BY <1>1, <1>2

\* Two currencies have one key, and no others have it.
LEMMA KeyOfPair ==
    ASSUME NEW a \in Currency, NEW b \in Currency, NEW c \in Currency, NEW d \in Currency
    PROVE  /\ hash(a, b) = hash(b, a)
           /\ hash(a, b) \in Keys
           /\ hash(a, b) = hash(c, d) => {a, b} = {c, d}
<1>1. a \in 0..999 /\ b \in 0..999 /\ c \in 0..999 /\ d \in 0..999
    BY RatesAssumption
<1>2. hash(a, b) = hash(b, a)
    <2>1. a \in Int /\ b \in Int
        BY <1>1
    <2>2. CASE a < b
        <3>1. ~(b < a)
            BY <2>1, <2>2
        <3>2. Lower(a, b) = a /\ Higher(a, b) = b /\ Lower(b, a) = a /\ Higher(b, a) = b
            BY <2>2, <3>1 DEF Lower, Higher
        <3> QED BY <3>2 DEF hash
    <2>3. CASE b < a
        <3>1. ~(a < b)
            BY <2>1, <2>3
        <3>2. Lower(a, b) = b /\ Higher(a, b) = a /\ Lower(b, a) = b /\ Higher(b, a) = a
            BY <2>3, <3>1 DEF Lower, Higher
        <3> QED BY <3>2 DEF hash
    <2>4. CASE a = b
        BY <2>4
    <2> QED BY <2>1, <2>2, <2>3, <2>4
<1>3. hash(a, b) \in Keys
    BY DEF Keys
<1>4. ASSUME hash(a, b) = hash(c, d)
      PROVE  {a, b} = {c, d}
    <2>1. PICK l, h : l = Lower(a, b) /\ h = Higher(a, b)
        OBVIOUS
    <2>2. PICK m, i : m = Lower(c, d) /\ i = Higher(c, d)
        OBVIOUS
    <2>3. l \in 0..999 /\ h \in 0..999 /\ {a, b} = {l, h}
        <3>1. /\ l \in {a, b} /\ h \in {a, b}
              /\ {a, b} = {l, h}
            BY <2>1, LowHigh, Zenon
        <3>2. l \in 0..999
            BY <1>1, <3>1
        <3>3. h \in 0..999
            BY <1>1, <3>1
        <3> QED BY <3>1, <3>2, <3>3, Zenon
    <2>4. m \in 0..999 /\ i \in 0..999 /\ {c, d} = {m, i}
        <3>1. /\ m \in {c, d} /\ i \in {c, d}
              /\ {c, d} = {m, i}
            BY <2>2, LowHigh, Zenon
        <3>2. m \in 0..999
            BY <1>1, <3>1
        <3>3. i \in 0..999
            BY <1>1, <3>1
        <3> QED BY <3>1, <3>2, <3>3, Zenon
    <2>5. l * 1000 + h = m * 1000 + i
        BY <1>4, <2>1, <2>2 DEF hash
    <2>6. l = m /\ h = i
        <3>1. /\ l \in Int /\ h \in Int /\ m \in Int /\ i \in Int
              /\ 0 <= h /\ h < 1000 /\ 0 <= i /\ i < 1000
            BY <2>3, <2>4
        <3> QED BY <2>5, <3>1
    <2> QED BY <2>3, <2>4, <2>6
<1> QED BY <1>2, <1>3, <1>4

LEMMA SamePair ==
    ASSUME NEW a \in Currency, NEW b \in Currency, NEW c \in Currency, NEW d \in Currency,
           hash(a, b) = hash(c, d)
    PROVE  {a, b} = {c, d}
BY KeyOfPair

\* A key hashes the currencies it is the key of.
LEMMA KeyHashes ==
    ASSUME NEW a \in Currency, NEW b \in Currency
    PROVE  hashes(hash(a, b), a)
<1>1. a \in 0..999 /\ b \in 0..999
    BY RatesAssumption
<1>2. CASE a < b
    BY <1>1, <1>2 DEF hashes, hash, Lower, Higher
<1>3. CASE ~(a < b)
    BY <1>1, <1>3 DEF hashes, hash, Lower, Higher
<1> QED BY <1>2, <1>3

\* What fetch() finds in a list, and what was added last under a key.
FirstValid(list, date) ==
    LET valid == {i \in DOMAIN list : valid_at(list[i], date)}
    IN  IF valid = {} THEN NoRate ELSE list[Min(valid)].rate

LastValid(entries, k, date) ==
    LET valid == {i \in DOMAIN entries : KeyOf(entries[i]) = k /\ valid_at(entries[i], date)}
    IN  IF valid = {} THEN NoRate ELSE entries[Max(valid)].rate

Agree(lists, entries) ==
    /\ lists \in [Keys -> Seq(Entries)]
    /\ entries \in Seq(Entries)
    /\ \A k \in Keys : \A i \in DOMAIN lists[k] : KeyOf(lists[k][i]) = k
    /\ \A k \in Keys, date \in RateDates :
          FirstValid(lists[k], date) = LastValid(entries, k, date)

LEMMA KeyOfEntry ==
    ASSUME NEW entry \in Entries
    PROVE  KeyOf(entry) \in Keys
BY DEF KeyOf, Entries, DirectRates, Keys

\* An entry in front of a list is found first.
LEMMA FirstInFront ==
    ASSUME NEW list \in Seq(Entries), NEW entry \in Entries, NEW date \in RateDates
    PROVE  FirstValid(<<entry>> \o list, date) =
               IF valid_at(entry, date) THEN entry.rate ELSE FirstValid(list, date)
<1> DEFINE long == <<entry>> \o list
           valid == {i \in DOMAIN list : valid_at(list[i], date)}
           validLong == {i \in DOMAIN long : valid_at(long[i], date)}
<1>1. /\ long[1] = entry /\ 1 \in DOMAIN long
      /\ DOMAIN list \subseteq Nat /\ DOMAIN long \subseteq Nat
      /\ \A i \in DOMAIN long : i >= 1
      /\ \A i \in DOMAIN list : i + 1 \in DOMAIN long /\ long[i + 1] = list[i]
      /\ \A i \in DOMAIN long : i # 1 => i - 1 \in DOMAIN list /\ long[i] = list[i - 1]
    OBVIOUS
<1> HIDE DEF long
<1>2. FirstValid(long, date) = (IF validLong = {} THEN NoRate ELSE long[Min(validLong)].rate)
    BY DEF FirstValid
<1>3. FirstValid(list, date) = (IF valid = {} THEN NoRate ELSE list[Min(valid)].rate)
    BY DEF FirstValid
<1>4. valid \in SUBSET Int /\ validLong \in SUBSET Int /\ \A i \in validLong : 1 <= i
    BY <1>1
<1>5. CASE valid_at(entry, date)
    <2>1. 1 \in validLong
        BY <1>1, <1>5
    <2>2. Min(validLong) = 1
        <3> HIDE DEF valid, validLong
        <3> QED BY <1>4, <2>1, MinIs
    <2> QED BY <1>1, <1>2, <1>5, <2>1, <2>2 DEF long
<1>6. CASE ~valid_at(entry, date)
    <2>1. \A i \in valid : i + 1 \in validLong
        BY <1>1
    <2>2. \A i \in validLong : i - 1 \in valid
        BY <1>1, <1>6
    <2>3. CASE valid = {}
        BY <1>2, <1>3, <1>6, <2>2, <2>3 DEF long
    <2>4. CASE valid # {}
        <3>1. validLong # {}
            BY <2>1, <2>4
        <3>2. PICK f \in valid : f = Min(valid) /\ \A m \in valid : f <= m
            <4>1. \A i \in valid : 1 <= i
                BY <1>1
            <4> HIDE DEF valid, validLong
            <4>2. Min(valid) \in valid /\ \A m \in valid : Min(valid) <= m
                BY <1>4, <2>4, <4>1, MinOf
            <4> QED BY <4>2
        <3>3. Min(validLong) = f + 1
            <4> HIDE DEF valid, validLong
            <4>1. f \in Int /\ f + 1 \in validLong
                BY <1>4, <2>1
            <4>2. ASSUME NEW m \in validLong PROVE f + 1 <= m
                <5>1. m \in Int /\ m - 1 \in valid
                    BY <1>4, <2>2
                <5>2. f <= m - 1
                    BY <3>2, <5>1
                <5> QED BY <4>1, <5>1, <5>2
            <4> QED BY <1>4, <4>1, <4>2, MinIs
        <3>4. long[Min(validLong)] = list[Min(valid)]
            BY <1>1, <3>2, <3>3
        <3> QED BY <1>2, <1>3, <1>6, <2>4, <3>1, <3>4 DEF long
    <2> QED BY <2>3, <2>4
<1> QED BY <1>5, <1>6

\* An entry appended to the log is the last.
LEMMA LastAppended ==
    ASSUME NEW entries \in Seq(Entries), NEW entry \in Entries, NEW k \in Keys,
           NEW date \in RateDates
    PROVE  LastValid(Append(entries, entry), k, date) =
               IF KeyOf(entry) = k /\ valid_at(entry, date) THEN entry.rate
                                                           ELSE LastValid(entries, k, date)
<1> DEFINE long == Append(entries, entry)
           n == Len(entries)
           valid == {i \in DOMAIN entries : KeyOf(entries[i]) = k /\ valid_at(entries[i], date)}
           validLong == {i \in DOMAIN long : KeyOf(long[i]) = k /\ valid_at(long[i], date)}
<1>1. /\ n \in Nat /\ DOMAIN entries = 1..n /\ DOMAIN long = 1..(n + 1)
      /\ long[n + 1] = entry /\ \A i \in 1..n : long[i] = entries[i]
    OBVIOUS
<1> HIDE DEF long, n
<1>2. LastValid(long, k, date) = (IF validLong = {} THEN NoRate ELSE long[Max(validLong)].rate)
    BY DEF LastValid
<1>3. LastValid(entries, k, date) = (IF valid = {} THEN NoRate ELSE entries[Max(valid)].rate)
    BY DEF LastValid
<1>4. validLong \in SUBSET Int /\ n + 1 \in Int /\ \A i \in validLong : i <= n + 1
    BY <1>1
<1>5. CASE KeyOf(entry) = k /\ valid_at(entry, date)
    <2>1. n + 1 \in validLong
        BY <1>1, <1>5
    <2>2. Max(validLong) = n + 1
        <3> HIDE DEF valid, validLong
        <3> QED BY <1>4, <2>1, MaxIs
    <2> QED BY <1>1, <1>2, <1>5, <2>1, <2>2 DEF long
<1>6. CASE ~(KeyOf(entry) = k /\ valid_at(entry, date))
    <2>1. validLong = valid
        BY <1>1, <1>6
    <2>2. CASE valid = {}
        BY <1>2, <1>3, <1>6, <2>1, <2>2 DEF long
    <2>3. CASE valid # {}
        <3>1. Max(valid) \in valid
            <4> HIDE DEF valid, validLong
            <4> QED BY <1>4, <2>1, <2>3, MaxOf
        <3>2. long[Max(valid)] = entries[Max(valid)]
            BY <1>1, <3>1
        <3> QED BY <1>2, <1>3, <1>6, <2>1, <2>3, <3>2 DEF long
    <2> QED BY <2>2, <2>3
<1> QED BY <1>5, <1>6

\* add() keeps the lists and the log in agreement.
LEMMA AddAgrees ==
    ASSUME NEW lists, NEW entries, Agree(lists, entries), NEW entry \in Entries
    PROVE  Agree(Added(lists, entry), Append(entries, entry))
<1> DEFINE more == Added(lists, entry)
           long == Append(entries, entry)
<1>1. lists \in [Keys -> Seq(Entries)] /\ entries \in Seq(Entries) /\ KeyOf(entry) \in Keys
    BY KeyOfEntry DEF Agree
<1>2. /\ more \in [Keys -> Seq(Entries)]
      /\ more[KeyOf(entry)] = <<entry>> \o lists[KeyOf(entry)]
      /\ \A k \in Keys : k # KeyOf(entry) => more[k] = lists[k]
    BY <1>1 DEF Added
<1>3. long \in Seq(Entries)
    BY <1>1
<1>4. ASSUME NEW k \in Keys, NEW i \in DOMAIN more[k]
      PROVE  KeyOf(more[k][i]) = k
    <2>1. CASE k # KeyOf(entry)
        BY <1>2, <1>4, <2>1 DEF Agree
    <2>2. CASE k = KeyOf(entry)
        <3>1. lists[k] \in Seq(Entries) /\ more[k] = <<entry>> \o lists[k]
            BY <1>1, <1>2, <2>2
        <3>2. CASE i = 1
            BY <2>2, <3>1, <3>2
        <3>3. CASE i # 1
            <4>1. i - 1 \in DOMAIN lists[k] /\ more[k][i] = lists[k][i - 1]
                BY <1>4, <3>1, <3>3
            <4> QED BY <4>1 DEF Agree
        <3> QED BY <3>2, <3>3
    <2> QED BY <2>1, <2>2
<1>5. ASSUME NEW k \in Keys, NEW date \in RateDates
      PROVE  FirstValid(more[k], date) = LastValid(long, k, date)
    <2>0. FirstValid(lists[k], date) = LastValid(entries, k, date) /\ lists[k] \in Seq(Entries)
        BY <1>1 DEF Agree
    <2> HIDE DEF more, long
    <2>1. LastValid(long, k, date) =
              IF KeyOf(entry) = k /\ valid_at(entry, date) THEN entry.rate
                                                          ELSE LastValid(entries, k, date)
        BY <1>1, LastAppended DEF long
    <2>2. CASE k # KeyOf(entry)
        BY <1>2, <2>0, <2>1, <2>2
    <2>3. CASE k = KeyOf(entry)
        <3>1. FirstValid(more[k], date) =
                  IF valid_at(entry, date) THEN entry.rate ELSE FirstValid(lists[k], date)
            BY <1>2, <2>0, <2>3, FirstInFront
        <3> QED BY <2>0, <2>1, <2>3, <3>1
    <2> QED BY <2>2, <2>3
<1> HIDE DEF more, long
<1>6. Agree(more, long)
    BY <1>2, <1>3, <1>4, <1>5 DEF Agree
<1> QED BY <1>6 DEF more, long

LEMMA EmptyAgrees == Agree([k \in Keys |-> <<>>], <<>>)
<1> DEFINE none == [k \in Keys |-> <<>>]
<1>1. /\ none \in [Keys -> Seq(Entries)] /\ <<>> \in Seq(Entries)
      /\ DOMAIN <<>> = {} /\ \A k \in Keys : none[k] = <<>>
    OBVIOUS
<1> HIDE DEF none
<1>2. \A k \in Keys, date \in RateDates : FirstValid(none[k], date) = NoRate
    BY <1>1 DEF FirstValid
<1>3. \A k \in Keys, date \in RateDates : LastValid(<<>>, k, date) = NoRate
    BY <1>1 DEF LastValid
<1>4. Agree(none, <<>>)
    BY <1>1, <1>2, <1>3 DEF Agree
<1> QED BY <1>4 DEF none

\* Induction, over the set of the numbers for which a fact holds.
LEMMA AllNaturals ==
    ASSUME NEW T \in SUBSET Nat, 0 \in T, \A n \in T : n + 1 \in T
    PROVE  \A n \in Nat : n \in T
<1> DEFINE rest == Nat \ T
<1>1. ASSUME rest # {} PROVE FALSE
    <2>1. PICK n \in rest : \A m \in rest : n <= m
        BY <1>1, Least
    <2>2. n # 0 /\ n - 1 \in Nat
        BY <2>1
    <2>3. n - 1 \in T
        BY <2>1, <2>2
    <2>4. n - 1 + 1 \in T
        BY <2>3
    <2> QED BY <2>1, <2>2, <2>4
<1> QED BY <1>1

\* The lists after each of the known rates.
IsKnown(f, n) ==
    f = [i \in 0..n |-> IF i = 0 THEN [k \in Keys |-> <<>>] ELSE Added(f[i - 1], KnownRates[i])]

LEMMA KnownExists == \A n \in Nat : \E f : IsKnown(f, n)
<1> DEFINE T == {n \in Nat : \E f : IsKnown(f, n)}
           none == [k \in Keys |-> <<>>]
<1>1. 0 \in T
    <2> DEFINE f == [i \in 0..0 |-> none]
    <2> HIDE DEF none
    <2>1. f = [i \in 0..0 |-> IF i = 0 THEN none ELSE Added(f[i - 1], KnownRates[i])]
        OBVIOUS
    <2>2. IsKnown(f, 0)
        BY <2>1, Zenon DEF IsKnown, none
    <2> QED BY <2>2
<1>2. ASSUME NEW n \in T PROVE n + 1 \in T
    <2>1. PICK f : IsKnown(f, n)
        OBVIOUS
    <2> DEFINE g == [i \in 0..(n + 1) |-> IF i = 0 THEN none ELSE Added(f[i - 1], KnownRates[i])]
    <2> HIDE DEF none
    <2>2. n \in Nat
        OBVIOUS
    <2>3. \A i \in 0..n : f[i] = IF i = 0 THEN none ELSE Added(f[i - 1], KnownRates[i])
        <3>1. f = [i \in 0..n |-> IF i = 0 THEN none ELSE Added(f[i - 1], KnownRates[i])]
            BY <2>1, Zenon DEF IsKnown, none
        <3> QED BY <3>1, Zenon
    <2>4. \A i \in 0..n : g[i] = f[i]
        <3>1. \A i \in 0..n : i \in 0..(n + 1)
            BY <2>2
        <3> QED BY <2>3, <3>1, Zenon
    <2>5. g = [i \in 0..(n + 1) |-> IF i = 0 THEN none ELSE Added(g[i - 1], KnownRates[i])]
        <3>1. \A i \in 0..(n + 1) : i # 0 => i - 1 \in 0..n
            BY <2>2
        <3>2. \A i \in 0..(n + 1) : (IF i = 0 THEN none ELSE Added(f[i - 1], KnownRates[i]))
                                        = (IF i = 0 THEN none ELSE Added(g[i - 1], KnownRates[i]))
            <4> HIDE DEF g
            <4> QED BY <2>4, <3>1, Zenon
        <3> QED BY <3>2, Zenon
    <2>6. IsKnown(g, n + 1)
        BY <2>5, Zenon DEF IsKnown, none
    <2> QED BY <2>2, <2>6
<1>3. T \in SUBSET Nat
    OBVIOUS
<1> HIDE DEF T
<1>4. \A n \in Nat : n \in T
    BY <1>1, <1>2, <1>3, AllNaturals
<1> QED BY <1>4 DEF T

\* What addKnownRates() makes of an empty repository agrees with the list of
\* those rates.
LEMMA KnownAgree == Agree(addKnownRates, KnownRates)
<1> DEFINE N == Len(KnownRates)
           f == CHOOSE f : IsKnown(f, N)
           upTo(n) == SubSeq(KnownRates, 1, n)
           T == {n \in Nat : n <= N => Agree(f[n], upTo(n))}
<1>1. KnownRates \in Seq(Entries) /\ N \in Nat
    BY RatesAssumption
<1>2. IsKnown(f, N)
    BY <1>1, KnownExists
<1>3. addKnownRates = f[N]
    BY Zenon DEF addKnownRates, IsKnown
<1>4. /\ upTo(0) = <<>> /\ upTo(N) = KnownRates
      /\ \A n \in 0..(N - 1) : /\ upTo(n + 1) = Append(upTo(n), KnownRates[n + 1])
                               /\ KnownRates[n + 1] \in Entries
    BY <1>1
<1> HIDE DEF f, N, upTo
<1>5. f[0] = [k \in Keys |-> <<>>] /\ \A i \in 1..N : f[i] = Added(f[i - 1], KnownRates[i])
    BY <1>1, <1>2 DEF IsKnown
<1>6. 0 \in T
    BY <1>4, <1>5, EmptyAgrees
<1>7. ASSUME NEW n \in T PROVE n + 1 \in T
    <2>1. CASE n + 1 <= N
        <3>1. n \in 0..(N - 1) /\ n + 1 \in 1..N /\ n + 1 - 1 = n /\ n <= N
            BY <1>1, <2>1
        <3>2. Agree(f[n], upTo(n))
            BY <3>1
        <3>3. Agree(Added(f[n], KnownRates[n + 1]), Append(upTo(n), KnownRates[n + 1]))
            BY <1>4, <3>1, <3>2, AddAgrees
        <3>4. f[n + 1] = Added(f[n], KnownRates[n + 1])
            BY <1>5, <3>1
        <3>5. Agree(f[n + 1], upTo(n + 1))
            BY <1>4, <3>1, <3>3, <3>4, Zenon
        <3> QED BY <3>5
    <2>2. CASE ~(n + 1 <= N)
        BY <2>2
    <2> QED BY <2>1, <2>2
<1>8. T \in SUBSET Nat
    OBVIOUS
<1>9. N \in T
    <2> HIDE DEF T
    <2> QED BY <1>1, <1>6, <1>7, <1>8, AllNaturals
<1>10. Agree(f[N], upTo(N))
    BY <1>1, <1>9
<1> QED BY <1>3, <1>4, <1>10, Zenon

\* The lists and the log always agree on what is found (exchangeratemanager.hpp:48-50).
Agreement == Agree(data, log)

THEOREM LatestFirst == RatesSpec => []Agreement
<1>1. RatesInit => Agreement
    BY KnownAgree, Zenon DEF RatesInit, Agreement
<1>2. Agreement /\ [RatesNext]_ratesVars => Agreement'
    <2> SUFFICES ASSUME Agreement, [RatesNext]_ratesVars PROVE Agreement'
        OBVIOUS
    <2>1. CASE add
        <3>1. PICK entry \in NewEntries : data' = Added(data, entry) /\ log' = Append(log, entry)
            BY <2>1, Zenon DEF add
        <3>2. entry \in Entries
            BY RatesAssumption
        <3>3. Agree(Added(data, entry), Append(log, entry))
            BY <3>2, AddAgrees DEF Agreement
        <3> QED BY <3>1, <3>3, Zenon DEF Agreement
    <2>2. CASE clear
        BY <2>2, KnownAgree, Zenon DEF clear, Agreement
    <2>3. CASE UNCHANGED ratesVars
        BY <2>3, Zenon DEF ratesVars, Agreement
    <2> QED BY <2>1, <2>2, <2>3, Zenon DEF RatesNext
<1> QED BY <1>1, <1>2, PTL DEF RatesSpec


-----------------------------------------------------------------------------
(***************************************************************************)
(* What fetch() finds, and the keys a search goes on with.                 *)
(***************************************************************************)

LEMMA FetchIsLatest ==
    ASSUME Agreement, NEW a \in Currency, NEW b \in Currency, NEW date \in RateDates
    PROVE  /\ fetch(a, b, date) = Latest(a, b, date)
           /\ fetch(a, b, date) = fetch(b, a, date)
<1>1. hash(a, b) \in Keys /\ hash(a, b) = hash(b, a)
    BY KeyOfPair
<1>2. fetch(a, b, date) = FirstValid(data[hash(a, b)], date)
    BY Zenon DEF fetch, FirstValid
<1>3. Latest(a, b, date) = LastValid(log, hash(a, b), date)
    BY Zenon DEF Latest, LastValid
<1>4. FirstValid(data[hash(a, b)], date) = LastValid(log, hash(a, b), date)
    BY <1>1, Zenon DEF Agreement, Agree
<1>5. fetch(b, a, date) = FirstValid(data[hash(b, a)], date)
    BY Zenon DEF fetch, FirstValid
<1> QED BY <1>1, <1>2, <1>3, <1>4, <1>5, Zenon

\* The shape of a rate, which no NoRate has.
Fields == {"source", "target", "log", "chained"}

LEMMA NotNoRate ==
    ASSUME NEW rate, DOMAIN rate = Fields
    PROVE  rate # NoRate
<1>1. DOMAIN NoRate = {"log"}
    BY DEF NoRate
<1>2. "source" \in Fields /\ "source" \notin {"log"}
    BY DEF Fields
<1> QED BY <1>1, <1>2, Zenon

LEMMA DirectShape ==
    ASSUME NEW rate \in DirectRates
    PROVE  /\ DOMAIN rate = Fields /\ rate # NoRate
           /\ rate.source \in Currency /\ rate.target \in Currency
           /\ rate.log \in Int /\ rate.chained = <<>>
           /\ rate = NewRate(rate.source, rate.target, rate.log)
<1>1. /\ rate.source \in Currency /\ rate.target \in Currency
      /\ rate.log \in Int /\ rate.chained = <<>>
    BY DEF DirectRates
<1>2. rate = NewRate(rate.source, rate.target, rate.log)
    BY DEF DirectRates, NewRate
<1>3. DOMAIN rate = Fields
    BY DEF DirectRates, Fields
<1> QED BY <1>1, <1>2, <1>3, NotNoRate, Zenon

\* The entries of a list are of its key, and its rates join the pair of the key.
LEMMA ListOfPair ==
    ASSUME Agreement, NEW a \in Currency, NEW b \in Currency,
           NEW i \in DOMAIN data[hash(a, b)]
    PROVE  /\ data[hash(a, b)][i].rate \in DirectRates
           /\ Ends(data[hash(a, b)][i].rate) = {a, b}
<1> DEFINE k == hash(a, b)
           entry == data[k][i]
<1>1. k \in Keys
    BY KeyOfPair
<1> HIDE DEF k
<1>2. data[k] \in Seq(Entries)
    BY <1>1 DEF Agreement, Agree
<1>3. i \in DOMAIN data[k]
    BY DEF k
<1>4. entry \in Entries
    BY <1>2, <1>3
<1>5. KeyOf(entry) = k
    BY <1>1, <1>3, Zenon DEF Agreement, Agree
<1>6. entry.rate \in DirectRates
    BY <1>4 DEF Entries
<1>7. entry.rate.source \in Currency /\ entry.rate.target \in Currency
    BY <1>6, DirectShape
<1>8. hash(entry.rate.source, entry.rate.target) = hash(a, b)
    BY <1>5, Zenon DEF KeyOf, k
<1>9. {entry.rate.source, entry.rate.target} = {a, b}
    <2>1. PICK x \in Currency, y \in Currency : x = entry.rate.source /\ y = entry.rate.target
        BY <1>7
    <2>2. hash(x, y) = hash(a, b)
        BY <1>8, <2>1, Zenon
    <2>3. {x, y} = {a, b}
        BY <2>2, SamePair
    <2> QED BY <2>1, <2>3, Zenon
<1> QED BY <1>6, <1>9, Zenon DEF k, Ends

\* A rate that fetch() finds joins the two currencies.
LEMMA FetchedRate ==
    ASSUME Agreement, NEW a \in Currency, NEW b \in Currency, NEW date \in RateDates,
           fetch(a, b, date) # NoRate
    PROVE  /\ fetch(a, b, date) \in DirectRates
           /\ Ends(fetch(a, b, date)) = {a, b}
           /\ data[hash(a, b)] # <<>>
<1> DEFINE list == data[hash(a, b)]
           valid == {i \in DOMAIN list : valid_at(list[i], date)}
<1>1. hash(a, b) \in Keys
    BY KeyOfPair
<1>2. list \in Seq(Entries)
    BY <1>1 DEF Agreement, Agree
<1>3. valid # {} /\ fetch(a, b, date) = list[Min(valid)].rate
    BY Zenon DEF fetch
<1>4. valid \in SUBSET Int /\ \A i \in valid : 1 <= i
    BY <1>2
<1>5. Min(valid) \in valid
    <2> HIDE DEF valid
    <2> QED BY <1>3, <1>4, MinOf
<1>6. Min(valid) \in DOMAIN list
    BY <1>5
<1>7. PICK i \in DOMAIN list : i = Min(valid)
    BY <1>6, Zenon
<1>8. list[i].rate \in DirectRates /\ Ends(list[i].rate) = {a, b}
    BY <1>7, ListOfPair
<1>9. list # <<>>
    <2> HIDE DEF list
    <2> QED BY <1>2, <1>7
<1> QED BY <1>3, <1>7, <1>8, <1>9, Zenon

\* The two ends of a rate.
LEMMA OtherOf ==
    ASSUME NEW rate, NEW a, NEW b, Ends(rate) = {a, b}
    PROVE  OtherEnd(rate, a) = b
<1>1. {rate.source, rate.target} = {a, b}
    BY DEF Ends
<1>2. CASE rate.source = a
    <2>1. rate.target = b
        <3>1. rate.target \in {a, b} /\ b \in {rate.source, rate.target}
            BY <1>1, Zenon
        <3> QED BY <1>2, <3>1
    <2> QED BY <1>2, <2>1 DEF OtherEnd
<1>3. CASE rate.source # a
    <2>1. rate.source = b
        BY <1>1, <1>3, Zenon
    <2> QED BY <1>1, <1>3, <2>1, Zenon DEF OtherEnd
<1> QED BY <1>2, <1>3

\* A key that hashes a currency is the key of a pair with it.
LEMMA PairOfKey ==
    ASSUME NEW k \in Keys, NEW a \in Currency, hashes(k, a)
    PROVE  \E b \in Currency : k = hash(a, b)
<1>1. PICK x \in Currency, y \in Currency : k = hash(x, y)
    BY DEF Keys
<1>2. x \in 0..999 /\ y \in 0..999
    BY RatesAssumption
<1>3. a \in {x, y}
    <2>1. PICK l, h : l = Lower(x, y) /\ h = Higher(x, y)
        OBVIOUS
    <2>2. l \in {x, y} /\ h \in {x, y}
        BY <2>1, LowHigh, Zenon
    <2>3. /\ l \in Int /\ h \in Int
          /\ 0 <= l /\ l < 1000 /\ 0 <= h /\ h < 1000
        <3>1. /\ x \in Int /\ 0 <= x /\ x < 1000
              /\ y \in Int /\ 0 <= y /\ y < 1000
            BY <1>2
        <3>2. CASE l = x
            BY <2>2, <3>1, <3>2
        <3>3. CASE l = y
            BY <2>2, <3>1, <3>3
        <3> QED BY <2>2, <3>2, <3>3
    <2>4. k = l * 1000 + h
        BY <1>1, <2>1 DEF hash
    <2>5. k % 1000 = h /\ k \div 1000 = l
        BY <2>3, <2>4
    <2>6. a = h \/ a = l
        BY <2>5 DEF hashes
    <2> QED BY <2>2, <2>6
<1>4. CASE a = x
    BY <1>1, <1>4
<1>5. CASE a = y
    <2>1. k = hash(y, x)
        BY <1>1, KeyOfPair
    <2> QED BY <1>5, <2>1
<1> QED BY <1>3, <1>4, <1>5

\* The keys the search goes on with are those of the pairs with a currency that
\* is not avoided and that a rate joins to this one.
LEMMA HeadsAre ==
    ASSUME Agreement, NEW a \in Currency, NEW date \in RateDates, NEW avoid
    PROVE  /\ \A k \in Heads(a, date, avoid) :
                 /\ Other(k, a) \in Currency \ avoid
                 /\ fetch(a, Other(k, a), date) # NoRate
           /\ \A b \in Currency \ avoid : fetch(a, b, date) # NoRate =>
                 hash(a, b) \in Heads(a, date, avoid) /\ Other(hash(a, b), a) = b
<1>1. ASSUME NEW b \in Currency, data[hash(a, b)] # <<>>
      PROVE  Other(hash(a, b), a) = b
    <2>1. hash(a, b) \in Keys
        BY KeyOfPair
    <2>2. data[hash(a, b)] \in Seq(Entries)
        BY <2>1 DEF Agreement, Agree
    <2>3. 1 \in DOMAIN data[hash(a, b)]
        BY <1>1, <2>2
    <2>4. Ends(data[hash(a, b)][1].rate) = {a, b}
        BY <2>3, ListOfPair
    <2>5. OtherEnd(data[hash(a, b)][1].rate, a) = b
        BY <2>4, OtherOf
    <2> QED BY <2>5, Zenon DEF Other
<1>2. ASSUME NEW k \in Heads(a, date, avoid)
      PROVE  Other(k, a) \in Currency \ avoid /\ fetch(a, Other(k, a), date) # NoRate
    <2>1. /\ k \in Keys /\ hashes(k, a) /\ data[k] # <<>>
          /\ Other(k, a) \notin avoid /\ fetch(a, Other(k, a), date) # NoRate
        BY <1>2, Zenon DEF Heads
    <2>2. PICK b \in Currency : k = hash(a, b)
        BY <2>1, PairOfKey
    <2>3. Other(k, a) = b
        BY <1>1, <2>1, <2>2, Zenon
    <2> QED BY <2>1, <2>3
<1>3. ASSUME NEW b \in Currency \ avoid, fetch(a, b, date) # NoRate
      PROVE  hash(a, b) \in Heads(a, date, avoid) /\ Other(hash(a, b), a) = b
    <2>1. data[hash(a, b)] # <<>>
        BY <1>3, FetchedRate
    <2>2. hash(a, b) \in Keys /\ hashes(hash(a, b), a)
        BY KeyOfPair, KeyHashes
    <2>3. Other(hash(a, b), a) = b
        BY <1>1, <2>1
    <2> QED BY <1>3, <2>1, <2>2, <2>3, Zenon DEF Heads
<1> QED BY <1>2, <1>3, Zenon

\* What a currency is worth in another and the other way round.
LEMMA WorthOfPair ==
    ASSUME Agreement, NEW a \in Currency, NEW b \in Currency, NEW date \in RateDates
    PROVE  /\ Linked(a, b, date) <=> fetch(a, b, date) # NoRate
           /\ Linked(a, b, date) <=> Linked(b, a, date)
           /\ Linked(a, b, date) => Worth(a, b, date) \in Int
           /\ Linked(a, b, date) /\ a # b => Worth(b, a, date) = -Worth(a, b, date)
<1>1. /\ fetch(a, b, date) = Latest(a, b, date) /\ fetch(b, a, date) = Latest(b, a, date)
      /\ fetch(a, b, date) = fetch(b, a, date)
    BY FetchIsLatest
<1>2. (Linked(a, b, date) <=> fetch(a, b, date) # NoRate) /\ (Linked(a, b, date) <=> Linked(b, a, date))
    BY <1>1, Zenon DEF Linked
<1>3. ASSUME Linked(a, b, date)
      PROVE  Worth(a, b, date) \in Int /\ (a # b => Worth(b, a, date) = -Worth(a, b, date))
    <2>1. PICK rate : rate = fetch(a, b, date)
        OBVIOUS
    <2>2. rate \in DirectRates /\ Ends(rate) = {a, b}
        BY <1>2, <1>3, <2>1, FetchedRate
    <2>3. rate.log \in Int
        BY <2>2, DirectShape
    <2>4. /\ Worth(a, b, date) = IF rate.source = a THEN rate.log ELSE -rate.log
          /\ Worth(b, a, date) = IF rate.source = b THEN rate.log ELSE -rate.log
        BY <1>1, <2>1, Zenon DEF Worth
    <2>5. rate.source \in {a, b}
        BY <2>2, Zenon DEF Ends
    <2> QED BY <2>3, <2>4, <2>5
<1> QED BY <1>2, <1>3


-----------------------------------------------------------------------------
(***************************************************************************)
(* What a chained rate makes of money.                                     *)
(***************************************************************************)

LEMMA CurrenciesFinite ==
    /\ IsFiniteSet(Currency)
    /\ Cardinality(Currency) \in Nat
    /\ Levels = 0..Cardinality(Currency)
<1>0. PICK most \in Int : most = 999
    OBVIOUS
<1>1. IsFiniteSet(0..most)
    BY FS_Interval
<1>2. Currency \in SUBSET (0..most)
    BY <1>0, RatesAssumption
<1>3. IsFiniteSet(Currency)
    BY <1>1, <1>2, FS_Subset
<1> QED BY <1>3, FS_CardinalityType DEF Levels

\* The rates of a level, and their existence as a function.
RatesOf(parts) ==
    [source : Currency, target : Currency, log : Int, chained : {<<>>} \cup parts]

IsRates(f, n) ==
    f = [i \in 0..n |-> RatesOf(IF i = 0 THEN {} ELSE f[i - 1] \X f[i - 1])]

LEMMA RatesExist == \A n \in Nat : \E f : IsRates(f, n)
<1> DEFINE T == {n \in Nat : \E f : IsRates(f, n)}
<1>1. 0 \in T
    <2> DEFINE f == [i \in 0..0 |-> RatesOf({})]
    <2>1. f = [i \in 0..0 |-> RatesOf(IF i = 0 THEN {} ELSE f[i - 1] \X f[i - 1])]
        <3>1. \A i \in 0..0 : RatesOf({}) = RatesOf(IF i = 0 THEN {} ELSE f[i - 1] \X f[i - 1])
            <4> HIDE DEF f
            <4>1. \A i \in 0..0 : i = 0
                OBVIOUS
            <4> QED BY <4>1, Zenon
        <3> QED BY <3>1, Zenon
    <2>2. IsRates(f, 0)
        BY <2>1, Zenon DEF IsRates
    <2> QED BY <2>2
<1>2. ASSUME NEW n \in T PROVE n + 1 \in T
    <2>1. PICK f : IsRates(f, n)
        OBVIOUS
    <2> DEFINE g == [i \in 0..(n + 1) |-> RatesOf(IF i = 0 THEN {} ELSE f[i - 1] \X f[i - 1])]
    <2>2. n \in Nat
        OBVIOUS
    <2>3. \A i \in 0..n : f[i] = RatesOf(IF i = 0 THEN {} ELSE f[i - 1] \X f[i - 1])
        BY <2>1, Zenon DEF IsRates
    <2>4. \A i \in 0..n : g[i] = f[i]
        <3>1. \A i \in 0..n : i \in 0..(n + 1)
            BY <2>2
        <3> QED BY <2>3, <3>1, Zenon
    <2>5. g = [i \in 0..(n + 1) |-> RatesOf(IF i = 0 THEN {} ELSE g[i - 1] \X g[i - 1])]
        <3>1. \A i \in 0..(n + 1) : i # 0 => i - 1 \in 0..n
            BY <2>2
        <3>2. \A i \in 0..(n + 1) : RatesOf(IF i = 0 THEN {} ELSE f[i - 1] \X f[i - 1])
                                        = RatesOf(IF i = 0 THEN {} ELSE g[i - 1] \X g[i - 1])
            <4> HIDE DEF g
            <4> QED BY <2>4, <3>1, Zenon
        <3> QED BY <3>2, Zenon
    <2>6. IsRates(g, n + 1)
        BY <2>5, Zenon DEF IsRates
    <2> QED BY <2>2, <2>6
<1>3. T \in SUBSET Nat
    OBVIOUS
<1> HIDE DEF T
<1>4. \A n \in Nat : n \in T
    BY <1>1, <1>2, <1>3, AllNaturals
<1> QED BY <1>4 DEF T

LEMMA RatesOfLevel ==
    ASSUME NEW n \in Levels
    PROVE  Rates[n] = RatesOf(IF n = 0 THEN {} ELSE Rates[n - 1] \X Rates[n - 1])
<1>1. PICK C \in Nat : C = Cardinality(Currency) /\ Levels = 0..C
    BY CurrenciesFinite
<1> DEFINE f == CHOOSE f : IsRates(f, C)
<1>2. IsRates(f, C)
    BY RatesExist
<1>3. Rates = f
    BY <1>1, Zenon DEF Rates, IsRates, RatesOf
<1> HIDE DEF f
<1> QED BY <1>1, <1>2, <1>3, Zenon DEF IsRates

\* The same for what the rates of every level make of every amount.
IsTable(f, n) ==
    f = [i \in 0..n |-> [r \in Rates[i] |-> [m \in Money |-> exchanged(r, m, f[i - 1])]]]

\* No rate of level 0 is chained.
LEMMA TableExists ==
    \A n \in Nat : n \in Levels => \E f : IsTable(f, n)
<1> DEFINE T == {n \in Nat : n \in Levels => \E f : IsTable(f, n)}
<1>0. PICK C \in Nat : Levels = 0..C
    BY CurrenciesFinite
<1>1. 0 \in T
    <2> DEFINE none == <<>>
               f == [i \in 0..0 |-> [r \in Rates[i] |-> [m \in Money |-> exchanged(r, m, none)]]]
    <2>0. 0 \in Levels
        BY <1>0
    <2>1. \A r \in Rates[0] : r.chained = <<>>
        <3>1. Rates[0] = RatesOf({})
            BY <2>0, RatesOfLevel
        <3> QED BY <3>1 DEF RatesOf
    <2>2. ASSUME NEW r \in Rates[0], NEW m \in Money, NEW p, NEW q
          PROVE  exchanged(r, m, p) = exchanged(r, m, q)
        BY <2>1, Zenon DEF exchanged
    <2>3. \A i \in 0..0 : i = 0
        OBVIOUS
    <2>4. f = [i \in 0..0 |-> [r \in Rates[i] |-> [m \in Money |-> exchanged(r, m, f[i - 1])]]]
        <3>1. \A i \in 0..0 : [r \in Rates[i] |-> [m \in Money |-> exchanged(r, m, none)]]
                                  = [r \in Rates[i] |-> [m \in Money |-> exchanged(r, m, f[i - 1])]]
            <4> HIDE DEF f, none
            <4>1. \A i \in 0..0 : \A r \in Rates[i] : \A m \in Money :
                      exchanged(r, m, none) = exchanged(r, m, f[i - 1])
                BY <2>2, <2>3, Zenon
            <4> QED BY <4>1, Zenon
        <3> HIDE DEF none
        <3> QED BY <3>1, Zenon
    <2>5. IsTable(f, 0)
        BY <2>4, Zenon DEF IsTable
    <2> QED BY <2>5
<1>2. ASSUME NEW n \in T PROVE n + 1 \in T
    <2> SUFFICES ASSUME n + 1 \in Levels PROVE \E f : IsTable(f, n + 1)
        OBVIOUS
    <2>2. n \in Nat /\ n \in Levels
        BY <1>0
    <2>1. PICK f : IsTable(f, n)
        BY <2>2
    <2> DEFINE g == [i \in 0..(n + 1) |-> [r \in Rates[i] |-> [m \in Money |-> exchanged(r, m, f[i - 1])]]]
    <2>3. \A i \in 0..n : f[i] = [r \in Rates[i] |-> [m \in Money |-> exchanged(r, m, f[i - 1])]]
        BY <2>1, Zenon DEF IsTable
    <2>4. \A i \in 0..n : g[i] = f[i]
        <3>1. \A i \in 0..n : i \in 0..(n + 1)
            BY <2>2
        <3> QED BY <2>3, <3>1, Zenon
    <2>5. g = [i \in 0..(n + 1) |-> [r \in Rates[i] |-> [m \in Money |-> exchanged(r, m, g[i - 1])]]]
        <3>1. \A i \in 0..(n + 1) : i # 0 => i - 1 \in 0..n
            BY <2>2
        <3>2. \A r \in Rates[0] : r.chained = <<>>
            <4>0. 0 \in Levels
                BY <1>0
            <4>1. Rates[0] = RatesOf({})
                BY <4>0, RatesOfLevel
            <4> QED BY <4>1 DEF RatesOf
        <3>3. ASSUME NEW i \in 0..(n + 1), NEW r \in Rates[i], NEW m \in Money
              PROVE  exchanged(r, m, f[i - 1]) = exchanged(r, m, g[i - 1])
            <4> HIDE DEF g
            <4>1. CASE i = 0
                <5>1. r.chained = <<>>
                    BY <3>2, <4>1, Zenon
                <5> QED BY <5>1, Zenon DEF exchanged
            <4>2. CASE i # 0
                BY <2>4, <3>1, <4>2, Zenon
            <4> QED BY <4>1, <4>2
        <3> HIDE DEF g
        <3>4. \A i \in 0..(n + 1) : [r \in Rates[i] |-> [m \in Money |-> exchanged(r, m, f[i - 1])]]
                                        = [r \in Rates[i] |-> [m \in Money |-> exchanged(r, m, g[i - 1])]]
            BY <3>3, Zenon
        <3> QED BY <3>4, Zenon DEF g
    <2>6. IsTable(g, n + 1)
        BY <2>5, Zenon DEF IsTable
    <2> QED BY <2>6
<1>3. T \in SUBSET Nat
    OBVIOUS
<1> HIDE DEF T
<1>4. \A n \in Nat : n \in T
    BY <1>1, <1>2, <1>3, AllNaturals
<1> QED BY <1>4 DEF T

\* What a rate of a level makes of money.
Makes(n, rate, money) ==
    (CHOOSE f : IsTable(f, Cardinality(Currency)))[n][rate][money]

LEMMA TableOfLevel ==
    /\ \A rate, money : exchange(rate, money) = Makes(Cardinality(Currency), rate, money)
    /\ \A n \in Levels : \A rate \in Rates[n], money \in Money :
          /\ rate.chained = <<>> =>
                Makes(n, rate, money) =
                    IF money.currency = rate.source
                    THEN [currency |-> rate.target, log |-> money.log + rate.log]
                    ELSE [currency |-> rate.source, log |-> money.log - rate.log]
          /\ rate.chained # <<>> =>
                Makes(n, rate, money) =
                    IF money.currency \in Ends(rate.chained[1])
                    THEN Makes(n - 1, rate.chained[2], Makes(n - 1, rate.chained[1], money))
                    ELSE Makes(n - 1, rate.chained[1], Makes(n - 1, rate.chained[2], money))
<1>1. PICK C \in Nat : C = Cardinality(Currency) /\ Levels = 0..C
    BY CurrenciesFinite
<1> DEFINE f == CHOOSE f : IsTable(f, C)
<1>2. IsTable(f, C)
    <2>1. C \in Levels
        BY <1>1
    <2> QED BY <2>1, TableExists
<1>3. \A n, rate, money : Makes(n, rate, money) = f[n][rate][money]
    BY <1>1, Zenon DEF Makes
<1>4. \A rate, money : exchange(rate, money) = f[C][rate][money]
    BY <1>1, Zenon DEF exchange, IsTable
<1> HIDE DEF f
<1>5. \A n \in Levels : \A rate \in Rates[n], money \in Money :
         f[n][rate][money] = exchanged(rate, money, f[n - 1])
    <2>1. \A n \in Levels :
             f[n] = [r \in Rates[n] |-> [m \in Money |-> exchanged(r, m, f[n - 1])]]
        BY <1>1, <1>2, Zenon DEF IsTable
    <2>2. ASSUME NEW n \in Levels, NEW rate \in Rates[n], NEW money \in Money
          PROVE  f[n][rate][money] = exchanged(rate, money, f[n - 1])
        <3>1. f[n] = [r \in Rates[n] |-> [m \in Money |-> exchanged(r, m, f[n - 1])]]
            BY <2>1
        <3>2. f[n][rate] = [m \in Money |-> exchanged(rate, m, f[n - 1])]
            BY <3>1
        <3> QED BY <3>2
    <2> QED BY <2>2
<1>6. \A rate, money : exchange(rate, money) = Makes(Cardinality(Currency), rate, money)
    BY <1>1, <1>3, <1>4, Zenon
<1>7. ASSUME NEW n \in Levels, NEW rate \in Rates[n], NEW money \in Money
      PROVE  /\ rate.chained = <<>> =>
                Makes(n, rate, money) =
                    IF money.currency = rate.source
                    THEN [currency |-> rate.target, log |-> money.log + rate.log]
                    ELSE [currency |-> rate.source, log |-> money.log - rate.log]
             /\ rate.chained # <<>> =>
                Makes(n, rate, money) =
                    IF money.currency \in Ends(rate.chained[1])
                    THEN Makes(n - 1, rate.chained[2], Makes(n - 1, rate.chained[1], money))
                    ELSE Makes(n - 1, rate.chained[1], Makes(n - 1, rate.chained[2], money))
    <2>1. Makes(n, rate, money) = exchanged(rate, money, f[n - 1])
        BY <1>3, <1>5, Zenon
    <2> QED BY <1>3, <2>1, Zenon DEF exchanged
<1> QED BY <1>6, <1>7, Zenon


LEMMA RatesAbove ==
    ASSUME NEW n \in Levels
    PROVE  /\ \A r : r \in Rates[n] <=>
                 r \in RatesOf(IF n = 0 THEN {} ELSE Rates[n - 1] \X Rates[n - 1])
           /\ \A s, t \in Currency, x \in Int :
                 NewRate(s, t, x) \in Rates[n]
           /\ n # 0 => \A s, t \in Currency, x \in Int : \A r1, r2 \in Rates[n - 1] :
                 [source |-> s, target |-> t, log |-> x, chained |-> <<r1, r2>>] \in Rates[n]
<1>1. Rates[n] = RatesOf(IF n = 0 THEN {} ELSE Rates[n - 1] \X Rates[n - 1])
    BY RatesOfLevel
<1>2. \A parts : \A s, t \in Currency, x \in Int : NewRate(s, t, x) \in RatesOf(parts)
    BY DEF NewRate, RatesOf
<1>3. ASSUME n # 0, NEW s \in Currency, NEW t \in Currency, NEW x \in Int,
             NEW r1 \in Rates[n - 1], NEW r2 \in Rates[n - 1]
      PROVE  [source |-> s, target |-> t, log |-> x, chained |-> <<r1, r2>>] \in Rates[n]
    <2>1. Rates[n] = RatesOf(Rates[n - 1] \X Rates[n - 1])
        BY <1>1, <1>3, Zenon
    <2>2. <<r1, r2>> \in Rates[n - 1] \X Rates[n - 1]
        BY <1>3, Zenon
    <2> DEFINE parts == Rates[n - 1] \X Rates[n - 1]
    <2>3. PICK p \in parts : p = <<r1, r2>>
        BY <2>2
    <2>4. [source |-> s, target |-> t, log |-> x, chained |-> p] \in RatesOf(parts)
        BY <2>3 DEF RatesOf
    <2> QED BY <2>1, <2>3, <2>4, Zenon
<1> QED BY <1>1, <1>2, <1>3, Zenon

\* From level n on, a rate turns any amount of a into one of b that is
\* greater by s, and back, and states that factor.
Unit(c, x) == [currency |-> c, log |-> x]

Turns(n, rate, a, b, s) ==
    \A x \in Int : /\ Makes(n, rate, Unit(a, x)) = Unit(b, x + s)
                   /\ Makes(n, rate, Unit(b, x)) = Unit(a, x - s)

Converts(rate, a, b, s, n) ==
    /\ DOMAIN rate = Fields
    /\ Ends(rate) = {a, b}
    /\ rate.log = IF rate.source = a THEN s ELSE -s
    /\ \A m \in Levels : n <= m => rate \in Rates[m] /\ Turns(m, rate, a, b, s)

LEMMA UnitIs ==
    ASSUME NEW a \in Currency, NEW x \in Int
    PROVE  Unit(a, x) \in Money /\ Unit(a, x).currency = a /\ Unit(a, x).log = x
BY DEF Unit, Money

LEMMA ConvertsLater ==
    ASSUME NEW rate, NEW a, NEW b, NEW s, NEW n \in Int, NEW m \in Int, n <= m,
           Converts(rate, a, b, s, n)
    PROVE  Converts(rate, a, b, s, m)
<1>1. ASSUME NEW l \in Levels, m <= l PROVE n <= l
    <2>1. l \in Int
        BY CurrenciesFinite
    <2> QED BY <1>1, <2>1
<1> QED BY <1>1, Zenon DEF Converts

\* A rate that was added.
LEMMA DirectConverts ==
    ASSUME NEW rate \in DirectRates, NEW a \in Currency, NEW b \in Currency, a # b,
           Ends(rate) = {a, b}, NEW s \in Int,
           s = IF rate.source = a THEN rate.log ELSE -rate.log
    PROVE  Converts(rate, a, b, s, 0)
<1>1. /\ rate.source \in Currency /\ rate.target \in Currency
      /\ rate.log \in Int /\ rate.chained = <<>> /\ DOMAIN rate = Fields
      /\ rate = NewRate(rate.source, rate.target, rate.log)
    BY DirectShape
<1>2. \/ rate.source = a /\ rate.target = b
      \/ rate.source = b /\ rate.target = a
    <2>1. {rate.source, rate.target} = {a, b}
        BY DEF Ends
    <2>2. rate.source \in {a, b} /\ rate.target \in {a, b} /\ a \in {rate.source, rate.target}
             /\ b \in {rate.source, rate.target}
        BY <2>1, Zenon
    <2> QED BY <2>2
<1>3. rate.log = IF rate.source = a THEN s ELSE -s
    BY <1>1
<1>4. ASSUME NEW m \in Levels
      PROVE  rate \in Rates[m] /\ Turns(m, rate, a, b, s)
    <2>1. rate \in Rates[m]
        BY <1>1, RatesAbove, Zenon
    <2>2. ASSUME NEW x \in Int
          PROVE  /\ Makes(m, rate, Unit(a, x)) = Unit(b, x + s)
                 /\ Makes(m, rate, Unit(b, x)) = Unit(a, x - s)
        <3>1. \A money \in Money : Makes(m, rate, money) =
                  IF money.currency = rate.source
                  THEN Unit(rate.target, money.log + rate.log)
                  ELSE Unit(rate.source, money.log - rate.log)
            BY <1>1, <2>1, TableOfLevel, Zenon DEF Unit
        <3>0. /\ Unit(a, x) \in Money /\ Unit(a, x).currency = a /\ Unit(a, x).log = x
              /\ Unit(b, x) \in Money /\ Unit(b, x).currency = b /\ Unit(b, x).log = x
            BY UnitIs
        <3>2. Makes(m, rate, Unit(a, x)) =
                  IF a = rate.source THEN Unit(rate.target, x + rate.log)
                                     ELSE Unit(rate.source, x - rate.log)
            BY <3>0, <3>1
        <3>3. Makes(m, rate, Unit(b, x)) =
                  IF b = rate.source THEN Unit(rate.target, x + rate.log)
                                     ELSE Unit(rate.source, x - rate.log)
            BY <3>0, <3>1
        <3>4. CASE rate.source = a /\ rate.target = b
            <4>1. s = rate.log
                BY <3>4
            <4> QED BY <3>2, <3>3, <3>4, <4>1
        <3>5. CASE rate.source = b /\ rate.target = a
            <4>1. x - rate.log = x + s /\ x + rate.log = x - s
                BY <1>1, <3>5
            <4> QED BY <3>2, <3>3, <3>5, <4>1
        <3> QED BY <1>2, <3>4, <3>5
    <2> QED BY <2>1, <2>2 DEF Turns
<1> QED BY <1>1, <1>3, <1>4, Zenon DEF Converts

\* A rate between a currency and itself, which is never looked up.
LEMMA SameConverts ==
    ASSUME NEW a \in Currency
    PROVE  LET n == Cardinality(Currency)
               rate == NewRate(a, a, 0)
           IN  Makes(n, rate, Unit(a, 0)) = Unit(a, 0)
<1>1. PICK C \in Nat : C = Cardinality(Currency) /\ Levels = 0..C
    BY CurrenciesFinite
<1>2. C \in Levels
    BY <1>1
<1> DEFINE rate == NewRate(a, a, 0)
<1>3. rate.chained = <<>> /\ rate.source = a /\ rate.target = a /\ rate.log = 0
    BY DEF NewRate
<1>4. rate \in Rates[C]
    <2>1. \A s, t \in Currency, x \in Int : NewRate(s, t, x) \in Rates[C]
        BY <1>2, RatesAbove
    <2> QED BY <2>1
<1> HIDE DEF rate
<1>5. Makes(C, rate, Unit(a, 0)) = Unit(a, 0 + 0)
    <2>1. Unit(a, 0) \in Money /\ Unit(a, 0).currency = a /\ Unit(a, 0).log = 0
        BY UnitIs
    <2>2. Makes(C, rate, Unit(a, 0)) =
              IF Unit(a, 0).currency = rate.source
              THEN [currency |-> rate.target, log |-> Unit(a, 0).log + rate.log]
              ELSE [currency |-> rate.source, log |-> Unit(a, 0).log - rate.log]
        BY <1>2, <1>3, <1>4, <2>1, TableOfLevel, Zenon
    <2> QED BY <1>3, <2>1, <2>2, Zenon DEF Unit
<1> QED BY <1>1, <1>5 DEF rate

LEMMA TurnsBack ==
    ASSUME NEW rate, NEW a, NEW b, a # b, NEW s \in Int, NEW n, Converts(rate, a, b, s, n)
    PROVE  Converts(rate, b, a, -s, n)
<1>1. Ends(rate) = {b, a} /\ rate.source \in {a, b}
    BY DEF Converts, Ends
<1>2. rate.log = IF rate.source = b THEN -s ELSE -(-s)
    <2>1. rate.log = IF rate.source = a THEN s ELSE -s
        BY Zenon DEF Converts
    <2> QED BY <1>1, <2>1
<1>3. ASSUME NEW m \in Levels, Turns(m, rate, a, b, s)
      PROVE  Turns(m, rate, b, a, -s)
    <2>1. ASSUME NEW x \in Int
          PROVE  /\ Makes(m, rate, Unit(b, x)) = Unit(a, x + (-s))
                 /\ Makes(m, rate, Unit(a, x)) = Unit(b, x - (-s))
        <3>1. x + (-s) = x - s /\ x - (-s) = x + s
            OBVIOUS
        <3> QED BY <1>3, <3>1, Zenon DEF Turns
    <2> QED BY <2>1, Zenon DEF Turns
<1> QED BY <1>1, <1>2, <1>3, Zenon DEF Converts


\* However two rates are quoted, their chain is quoted from the far end of the
\* first to the far end of the second.
LEMMA EitherWay ==
    ASSUME NEW rate, NEW a, NEW b, a # b, NEW s \in Int, NEW n, Converts(rate, a, b, s, n)
    PROVE  \/ rate.source = a /\ rate.target = b /\ rate.log = s
           \/ rate.source = b /\ rate.target = a /\ rate.log = -s
<1>1. {rate.source, rate.target} = {a, b} /\ rate.log = IF rate.source = a THEN s ELSE -s
    BY DEF Converts, Ends
<1>2. rate.source \in {a, b} /\ rate.target \in {a, b} /\ a \in {rate.source, rate.target}
         /\ b \in {rate.source, rate.target}
    BY <1>1, Zenon
<1> QED BY <1>1, <1>2

ChainedRate(r1, r2, source, target, s) ==
    [source |-> source, target |-> target, log |-> s, chained |-> <<r1, r2>>]

LEMMA ChainIs ==
    ASSUME NEW r1, NEW r2, NEW a, NEW b, NEW c, a # b, b # c, a # c,
           NEW s1 \in Int, NEW s2 \in Int, NEW n,
           Converts(r1, a, b, s1, n), Converts(r2, b, c, s2, n)
    PROVE  chain(r1, r2) = ChainedRate(r1, r2, a, c, s1 + s2)
<1>1. \/ r1.source = a /\ r1.target = b /\ r1.log = s1
      \/ r1.source = b /\ r1.target = a /\ r1.log = -s1
    BY EitherWay
<1>2. \/ r2.source = b /\ r2.target = c /\ r2.log = s2
      \/ r2.source = c /\ r2.target = b /\ r2.log = -s2
    BY EitherWay
<1>3. CASE r1.source = b /\ r1.target = a /\ r1.log = -s1 /\ r2.source = b /\ r2.target = c /\ r2.log = s2
    <2>1. chain(r1, r2) = ChainedRate(r1, r2, r1.target, r2.target, r2.log - r1.log)
        BY <1>3 DEF chain, ChainedRate
    <2>2. r2.log - r1.log = s1 + s2
        BY <1>3
    <2> QED BY <1>3, <2>1, <2>2, Zenon
<1>4. CASE r1.source = b /\ r1.target = a /\ r1.log = -s1 /\ r2.source = c /\ r2.target = b /\ r2.log = -s2
    <2>1. chain(r1, r2) = ChainedRate(r1, r2, r1.target, r2.source, -(r1.log + r2.log))
        BY <1>4 DEF chain, ChainedRate
    <2>2. -(r1.log + r2.log) = s1 + s2
        BY <1>4
    <2> QED BY <1>4, <2>1, <2>2, Zenon
<1>5. CASE r1.source = a /\ r1.target = b /\ r1.log = s1 /\ r2.source = b /\ r2.target = c /\ r2.log = s2
    <2>1. chain(r1, r2) = ChainedRate(r1, r2, r1.source, r2.target, r1.log + r2.log)
        BY <1>5 DEF chain, ChainedRate
    <2> QED BY <1>5, <2>1, Zenon
<1>6. CASE r1.source = a /\ r1.target = b /\ r1.log = s1 /\ r2.source = c /\ r2.target = b /\ r2.log = -s2
    <2>1. chain(r1, r2) = ChainedRate(r1, r2, r1.source, r2.source, r1.log - r2.log)
        BY <1>6 DEF chain, ChainedRate
    <2>2. r1.log - r2.log = s1 + s2
        BY <1>6
    <2> QED BY <1>6, <2>1, <2>2, Zenon
<1> QED BY <1>1, <1>2, <1>3, <1>4, <1>5, <1>6

\* Two rates that meet in b, chained: one level more.
LEMMA ChainConverts ==
    ASSUME NEW r1, NEW r2, NEW a \in Currency, NEW b \in Currency, NEW c \in Currency,
           a # b, b # c, a # c,
           NEW s1 \in Int, NEW s2 \in Int, NEW n \in Nat,
           Converts(r1, a, b, s1, n), Converts(r2, b, c, s2, n)
    PROVE  Converts(chain(r1, r2), a, c, s1 + s2, n + 1)
<1>1. PICK rate : rate = ChainedRate(r1, r2, a, c, s1 + s2)
    OBVIOUS
<1>2. chain(r1, r2) = rate
    BY <1>1, ChainIs
<1>3. /\ rate.source = a /\ rate.target = c /\ rate.log = s1 + s2
      /\ rate.chained = <<r1, r2>> /\ rate.chained # <<>>
      /\ rate.chained[1] = r1 /\ rate.chained[2] = r2
    BY <1>1 DEF ChainedRate
<1>4. DOMAIN rate = Fields
    BY <1>1 DEF ChainedRate, Fields
<1>5. Ends(rate) = {a, c}
    BY <1>3 DEF Ends
<1>6. ASSUME NEW m \in Levels, n + 1 <= m
      PROVE  rate \in Rates[m] /\ Turns(m, rate, a, c, s1 + s2)
    <2>1. m - 1 \in Levels /\ n <= m - 1 /\ m # 0 /\ m \in Int
        BY <1>6, CurrenciesFinite
    <2>2. /\ r1 \in Rates[m - 1] /\ Turns(m - 1, r1, a, b, s1)
          /\ r2 \in Rates[m - 1] /\ Turns(m - 1, r2, b, c, s2)
        BY <2>1, Zenon DEF Converts
    <2>3. rate \in Rates[m]
        <3>1. s1 + s2 \in Int
            OBVIOUS
        <3>2. \A s, t \in Currency, x \in Int : \A p1, p2 \in Rates[m - 1] :
                 [source |-> s, target |-> t, log |-> x, chained |-> <<p1, p2>>] \in Rates[m]
            BY <2>1, RatesAbove, Zenon
        <3>3. \A s, t \in Currency, x \in Int : \A p1, p2 \in Rates[m - 1] :
                 ChainedRate(p1, p2, s, t, x) \in Rates[m]
            BY <3>2, Zenon DEF ChainedRate
        <3> QED BY <1>1, <2>2, <3>1, <3>3
    <2>4. \A money \in Money : Makes(m, rate, money) =
              IF money.currency \in Ends(r1)
              THEN Makes(m - 1, r2, Makes(m - 1, r1, money))
              ELSE Makes(m - 1, r1, Makes(m - 1, r2, money))
        BY <1>3, <2>3, TableOfLevel, Zenon
    <2>5. a \in Ends(r1) /\ c \notin Ends(r1)
        BY DEF Converts
    <2>6. ASSUME NEW x \in Int
          PROVE  /\ Makes(m, rate, Unit(a, x)) = Unit(c, x + (s1 + s2))
                 /\ Makes(m, rate, Unit(c, x)) = Unit(a, x - (s1 + s2))
        <3>1. /\ Unit(a, x) \in Money /\ Unit(a, x).currency = a
              /\ Unit(c, x) \in Money /\ Unit(c, x).currency = c
            BY UnitIs
        <3>2. /\ Makes(m, rate, Unit(a, x)) = Makes(m - 1, r2, Makes(m - 1, r1, Unit(a, x)))
              /\ Makes(m, rate, Unit(c, x)) = Makes(m - 1, r1, Makes(m - 1, r2, Unit(c, x)))
            BY <2>4, <2>5, <3>1
        <3>3. /\ Makes(m - 1, r1, Unit(a, x)) = Unit(b, x + s1)
              /\ Makes(m - 1, r2, Unit(c, x)) = Unit(b, x - s2)
            BY <2>2, Zenon DEF Turns
        <3>4. x + s1 \in Int /\ x - s2 \in Int
            OBVIOUS
        <3>5. /\ Makes(m - 1, r2, Unit(b, x + s1)) = Unit(c, (x + s1) + s2)
              /\ Makes(m - 1, r1, Unit(b, x - s2)) = Unit(a, (x - s2) - s1)
            BY <2>2, <3>4, Zenon DEF Turns
        <3>6. (x + s1) + s2 = x + (s1 + s2) /\ (x - s2) - s1 = x - (s1 + s2)
            OBVIOUS
        <3> QED BY <3>2, <3>3, <3>5, <3>6, Zenon
    <2> QED BY <2>3, <2>6, Zenon DEF Turns
<1> QED BY <1>2, <1>3, <1>4, <1>5, <1>6, Zenon DEF Converts


-----------------------------------------------------------------------------
(***************************************************************************)
(* The search, by induction on the number of currencies it may still       *)
(* visit.                                                                  *)
(***************************************************************************)

Left(avoid) == Cardinality(Currency \ avoid)

LEMMA LeftNow ==
    ASSUME NEW avoid \in SUBSET Currency
    PROVE  /\ Left(avoid) \in Nat /\ Left(avoid) <= Cardinality(Currency)
           /\ \A from \in Currency \ avoid :
                 /\ avoid \cup {from} \in SUBSET Currency
                 /\ Left(avoid \cup {from}) = Left(avoid) - 1
           /\ \A from, target \in Currency \ avoid : from # target => 2 <= Left(avoid)
<1>1. IsFiniteSet(Currency) /\ Cardinality(Currency) \in Nat
    BY CurrenciesFinite
<1>2. Currency \ avoid \in SUBSET Currency
    OBVIOUS
<1>3. /\ IsFiniteSet(Currency \ avoid)
      /\ Cardinality(Currency \ avoid) \in Nat
      /\ Cardinality(Currency \ avoid) <= Cardinality(Currency)
    BY <1>1, <1>2, FS_Subset, FS_CardinalityType
<1>4. ASSUME NEW S, IsFiniteSet(S), NEW x \in S
      PROVE  Cardinality(S \ {x}) = Cardinality(S) - 1 /\ IsFiniteSet(S \ {x})
    BY <1>4, FS_RemoveElement
<1>5. ASSUME NEW from \in Currency \ avoid
      PROVE  Left(avoid \cup {from}) = Left(avoid) - 1
    <2>1. Currency \ (avoid \cup {from}) = (Currency \ avoid) \ {from}
        OBVIOUS
    <2>2. Cardinality((Currency \ avoid) \ {from}) = Cardinality(Currency \ avoid) - 1
        BY <1>3, <1>4
    <2> QED BY <2>1, <2>2 DEF Left
<1>6. ASSUME NEW from \in Currency \ avoid, NEW target \in Currency \ avoid, from # target
      PROVE  2 <= Left(avoid)
    <2>1. PICK S : S = (Currency \ avoid) \ {from}
        OBVIOUS
    <2>2. Cardinality(S) = Cardinality(Currency \ avoid) - 1 /\ IsFiniteSet(S)
        BY <1>3, <1>4, <2>1
    <2>3. target \in S
        BY <1>6, <2>1
    <2>4. Cardinality(S \ {target}) = Cardinality(S) - 1 /\ IsFiniteSet(S \ {target})
        BY <1>4, <2>2, <2>3
    <2>5. Cardinality(S \ {target}) \in Nat
        BY <2>4, FS_CardinalityType
    <2> QED BY <1>3, <2>2, <2>4, <2>5 DEF Left
<1> QED BY <1>1, <1>3, <1>5, <1>6 DEF Left

\* What the search finds from where it may still go, at most n currencies.
Few(n) == {avoid \in SUBSET Currency : Left(avoid) <= n}

IsSearch(f, target, date, avoids) ==
    f = [avoid \in avoids |->
            [from \in Currency \ avoid |->
                searchFrom(from, target, date, avoid \cup {from}, f[avoid \cup {from}])]]

LEMMA SearchExists ==
    ASSUME NEW target, NEW date
    PROVE  \A n \in Nat : \E f : IsSearch(f, target, date, Few(n))
<1> DEFINE step(f, avoid) ==
               [from \in Currency \ avoid |->
                   searchFrom(from, target, date, avoid \cup {from}, f[avoid \cup {from}])]
           T == {n \in Nat : \E f : IsSearch(f, target, date, Few(n))}
<1>0. ASSUME NEW f, NEW n
      PROVE  IsSearch(f, target, date, Few(n)) <=> f = [avoid \in Few(n) |-> step(f, avoid)]
    BY Zenon DEF IsSearch
<1>1. 0 \in T
    <2> DEFINE f == [avoid \in Few(0) |-> step(<<>>, avoid)]
    <2>1. ASSUME NEW avoid \in Few(0) PROVE step(<<>>, avoid) = step(f, avoid)
        <3>1. \A from \in Currency \ avoid : FALSE
            <4>1. ASSUME NEW from \in Currency \ avoid PROVE FALSE
                <5>1. avoid \in SUBSET Currency /\ Left(avoid) <= 0
                    BY DEF Few
                <5>2. Left(avoid \cup {from}) = Left(avoid) - 1 /\ avoid \cup {from} \in SUBSET Currency
                    BY <5>1, LeftNow
                <5>3. Left(avoid \cup {from}) \in Nat /\ Left(avoid) \in Nat
                    BY <5>1, <5>2, LeftNow
                <5> QED BY <5>1, <5>2, <5>3
            <4> QED BY <4>1
        <3> HIDE DEF f
        <3> QED BY <3>1, Zenon
    <2> HIDE DEF step
    <2>2. f = [avoid \in Few(0) |-> step(f, avoid)]
        <3>1. \A avoid \in Few(0) : step(<<>>, avoid) = step(f, avoid)
            BY <2>1
        <3> QED BY <3>1, Zenon
    <2>3. IsSearch(f, target, date, Few(0))
        BY <1>0, <2>2
    <2> QED BY <2>3
<1>2. ASSUME NEW n \in T PROVE n + 1 \in T
    <2>1. PICK f : IsSearch(f, target, date, Few(n))
        OBVIOUS
    <2> DEFINE g == [avoid \in Few(n + 1) |-> step(f, avoid)]
    <2>2. n \in Nat
        OBVIOUS
    <2>3. ASSUME NEW avoid \in Few(n + 1), NEW from \in Currency \ avoid
          PROVE  avoid \cup {from} \in Few(n)
        <3>1. avoid \in SUBSET Currency /\ Left(avoid) <= n + 1
            BY DEF Few
        <3>2. Left(avoid \cup {from}) = Left(avoid) - 1 /\ avoid \cup {from} \in SUBSET Currency
            BY <3>1, LeftNow
        <3>3. Left(avoid) \in Nat
            BY <3>1, LeftNow
        <3> QED BY <2>2, <3>1, <3>2, <3>3 DEF Few
    <2>4. \A avoid \in Few(n) : avoid \in Few(n + 1)
        <3>1. ASSUME NEW avoid \in Few(n) PROVE avoid \in Few(n + 1)
            <4>1. avoid \in SUBSET Currency /\ Left(avoid) <= n
                BY DEF Few
            <4>2. Left(avoid) \in Nat
                BY <4>1, LeftNow
            <4>3. Left(avoid) <= n + 1
                BY <2>2, <4>1, <4>2
            <4> QED BY <4>1, <4>3 DEF Few
        <3> QED BY <3>1
    <2>5. \A avoid \in Few(n) : g[avoid] = f[avoid]
        <3> HIDE DEF step
        <3>1. f = [avoid \in Few(n) |-> step(f, avoid)]
            BY <1>0, <2>1
        <3>2. \A avoid \in Few(n) : f[avoid] = step(f, avoid)
            BY <3>1, Zenon
        <3> QED BY <2>4, <3>2, Zenon
    <2>6. ASSUME NEW avoid \in Few(n + 1) PROVE step(f, avoid) = step(g, avoid)
        <3>1. \A from \in Currency \ avoid : f[avoid \cup {from}] = g[avoid \cup {from}]
            BY <2>3, <2>5, Zenon
        <3> HIDE DEF g
        <3> QED BY <3>1, Zenon
    <2> HIDE DEF step
    <2>7. g = [avoid \in Few(n + 1) |-> step(g, avoid)]
        BY <2>6, Zenon
    <2>8. IsSearch(g, target, date, Few(n + 1))
        BY <1>0, <2>7
    <2> QED BY <2>2, <2>8
<1>3. T \in SUBSET Nat
    OBVIOUS
<1> HIDE DEF T
<1>4. \A n \in Nat : n \in T
    BY <1>1, <1>2, <1>3, AllNaturals
<1> QED BY <1>4 DEF T

\* What the search finds, from a currency when some are avoided.
Finds(target, date) == CHOOSE f : IsSearch(f, target, date, SUBSET Currency)

LEMMA SearchIs ==
    ASSUME NEW target, NEW date
    PROVE  IsSearch(Finds(target, date), target, date, SUBSET Currency)
<1>1. PICK C \in Nat : C = Cardinality(Currency)
    BY CurrenciesFinite
<1>2. Few(C) = SUBSET Currency
    BY <1>1, LeftNow DEF Few
<1>3. \E g : IsSearch(g, target, date, SUBSET Currency)
    <2>1. \E g : IsSearch(g, target, date, Few(C))
        BY SearchExists
    <2> QED BY <1>2, <2>1, Zenon
<1> QED BY <1>3, Zenon DEF Finds

LEMMA SmartLookupIs ==
    ASSUME NEW source, NEW target, NEW date, NEW avoid
    PROVE  smartLookup(source, target, date, avoid) = Finds(target, date)[avoid][source]
BY Zenon DEF smartLookup, Finds, IsSearch

LEMMA SearchesFrom ==
    ASSUME NEW target, NEW date, NEW avoid \in SUBSET Currency, NEW from \in Currency \ avoid
    PROVE  Finds(target, date)[avoid][from] =
               searchFrom(from, target, date, avoid \cup {from},
                          Finds(target, date)[avoid \cup {from}])
<1>1. PICK f : f = Finds(target, date)
    OBVIOUS
<1>2. IsSearch(f, target, date, SUBSET Currency)
    BY <1>1, SearchIs
<1>3. f[avoid] = [x \in Currency \ avoid |->
                     searchFrom(x, target, date, avoid \cup {x}, f[avoid \cup {x}])]
    BY <1>2, Zenon DEF IsSearch
<1>4. f[avoid][from] = searchFrom(from, target, date, avoid \cup {from}, f[avoid \cup {from}])
    BY <1>3, Zenon
<1> QED BY <1>1, <1>4


\* A way from one currency to another by latest rates, avoiding some, and what
\* a unit is worth after each of its steps.
PathTo(p, n, avoid, from, target, date) ==
    /\ p \in [1..n -> Currency \ avoid]
    /\ \A i, j \in 1..n : p[i] = p[j] => i = j
    /\ p[1] = from /\ p[n] = target
    /\ \A i \in 1..(n - 1) : Linked(p[i], p[i + 1], date)

IsSums(w, p, n, date) ==
    w = [i \in 1..n |-> IF i = 1 THEN 0 ELSE w[i - 1] + Worth(p[i - 1], p[i], date)]

Found(rate, avoid, from, target, date) ==
    \E n \in 2..Left(avoid) : \E p, w :
        /\ PathTo(p, n, avoid, from, target, date)
        /\ IsSums(w, p, n, date)
        /\ w[n] \in Int
        /\ Converts(rate, from, target, w[n], Left(avoid) - 2)

\* A step in front of a way, and the way after its first step.
Ahead(a, p, n) == [i \in 1..(n + 1) |-> IF i = 1 THEN a ELSE p[i - 1]]
Behind(p, n) == [i \in 1..(n - 1) |-> p[i + 1]]

LEMMA PathAhead ==
    ASSUME NEW n \in Nat, n >= 1, NEW avoid, NEW a \in Currency \ avoid,
           NEW b, NEW target, NEW date, NEW p,
           PathTo(p, n, avoid \cup {a}, b, target, date), Linked(a, b, date)
    PROVE  PathTo(Ahead(a, p, n), n + 1, avoid, a, target, date)
<1> DEFINE q == [i \in 1..(n + 1) |-> IF i = 1 THEN a ELSE p[i - 1]]
<1>1. /\ p \in [1..n -> Currency \ (avoid \cup {a})]
      /\ \A i, j \in 1..n : p[i] = p[j] => i = j
      /\ p[1] = b /\ p[n] = target
      /\ \A i \in 1..(n - 1) : Linked(p[i], p[i + 1], date)
    BY Zenon DEF PathTo
<1>2. /\ q[1] = a
      /\ \A i \in 1..n : q[i + 1] = p[i] /\ p[i] \in Currency \ (avoid \cup {a})
      /\ \A i \in 1..(n + 1) : i = 1 \/ (i - 1 \in 1..n /\ q[i] = p[i - 1])
    BY <1>1
<1>3. q \in [1..(n + 1) -> Currency \ avoid]
    <2>1. \A i \in 1..(n + 1) : (IF i = 1 THEN a ELSE p[i - 1]) \in Currency \ avoid
        <3>1. ASSUME NEW i \in 1..(n + 1), i # 1 PROVE p[i - 1] \in Currency \ avoid
            BY <1>2, <3>1
        <3> QED BY <3>1, Zenon
    <2> QED BY <2>1, Zenon
<1> HIDE DEF q
<1>4. ASSUME NEW i \in 1..(n + 1), NEW j \in 1..(n + 1), q[i] = q[j] PROVE i = j
    <2>1. CASE i = 1 /\ j = 1
        BY <2>1
    <2>2. CASE i = 1 /\ j # 1
        <3>1. j - 1 \in 1..n /\ q[j] = p[j - 1] /\ p[j - 1] # a
            BY <1>2, <2>2
        <3> QED BY <1>2, <1>4, <2>2, <3>1
    <2>3. CASE i # 1 /\ j = 1
        <3>1. i - 1 \in 1..n /\ q[i] = p[i - 1] /\ p[i - 1] # a
            BY <1>2, <2>3
        <3> QED BY <1>2, <1>4, <2>3, <3>1
    <2>4. CASE i # 1 /\ j # 1
        <3>1. i - 1 \in 1..n /\ q[i] = p[i - 1] /\ j - 1 \in 1..n /\ q[j] = p[j - 1]
            BY <1>2, <2>4
        <3>2. i - 1 = j - 1
            BY <1>1, <1>4, <3>1
        <3> QED BY <3>2
    <2> QED BY <2>1, <2>2, <2>3, <2>4
<1>5. q[n + 1] = target
    BY <1>1, <1>2
<1>6. ASSUME NEW i \in 1..(n + 1 - 1) PROVE Linked(q[i], q[i + 1], date)
    <2>1. i \in 1..n /\ q[i + 1] = p[i]
        BY <1>2
    <2>2. CASE i = 1
        BY <1>1, <1>2, <2>1, <2>2
    <2>3. CASE i # 1
        <3>1. i - 1 \in 1..(n - 1) /\ q[i] = p[i - 1] /\ i - 1 + 1 = i
            BY <1>2, <2>3
        <3> QED BY <1>1, <2>1, <3>1
    <2> QED BY <2>2, <2>3
<1>7. PathTo(q, n + 1, avoid, a, target, date)
    BY <1>2, <1>3, <1>4, <1>5, <1>6 DEF PathTo
<1> QED BY <1>7, Zenon DEF q, Ahead

LEMMA PathBehind ==
    ASSUME NEW n \in Nat, n >= 2, NEW avoid, NEW a,
           NEW target, NEW date, NEW p, PathTo(p, n, avoid, a, target, date)
    PROVE  /\ p[2] \in Currency \ (avoid \cup {a}) /\ Linked(a, p[2], date)
           /\ PathTo(Behind(p, n), n - 1, avoid \cup {a}, p[2], target, date)
<1> DEFINE q == [i \in 1..(n - 1) |-> p[i + 1]]
<1>1. /\ p \in [1..n -> Currency \ avoid]
      /\ \A i, j \in 1..n : p[i] = p[j] => i = j
      /\ p[1] = a /\ p[n] = target
      /\ \A i \in 1..(n - 1) : Linked(p[i], p[i + 1], date)
    BY Zenon DEF PathTo
<1>2. ASSUME NEW i \in 1..n, i # 1 PROVE p[i] \in Currency \ (avoid \cup {a})
    <2>1. p[i] \in Currency \ avoid /\ 1 \in 1..n
        BY <1>1
    <2>2. p[i] # p[1]
        BY <1>1, <1>2, <2>1
    <2> QED BY <1>1, <2>1, <2>2
<1>3. p[2] \in Currency \ (avoid \cup {a}) /\ Linked(a, p[2], date)
    <2>1. 2 \in 1..n /\ 1 \in 1..(n - 1) /\ 1 + 1 = 2 /\ 2 # 1
        OBVIOUS
    <2> QED BY <1>1, <1>2, <2>1, Zenon
<1>4. \A i \in 1..(n - 1) : i + 1 \in 1..n /\ i + 1 # 1 /\ q[i] = p[i + 1]
    OBVIOUS
<1>5. q \in [1..(n - 1) -> Currency \ (avoid \cup {a})]
    <2>1. \A i \in 1..(n - 1) : p[i + 1] \in Currency \ (avoid \cup {a})
        BY <1>2, <1>4, Zenon
    <2> QED BY <2>1, Zenon
<1> HIDE DEF q
<1>6. ASSUME NEW i \in 1..(n - 1), NEW j \in 1..(n - 1), q[i] = q[j] PROVE i = j
    <2>1. i + 1 = j + 1
        BY <1>1, <1>4, <1>6
    <2> QED BY <2>1
<1>7. q[1] = p[2] /\ q[n - 1] = target
    <2>1. 1 \in 1..(n - 1) /\ 1 + 1 = 2 /\ n - 1 \in 1..(n - 1) /\ n - 1 + 1 = n
        OBVIOUS
    <2> QED BY <1>1, <1>4, <2>1
<1>8. ASSUME NEW i \in 1..(n - 1 - 1) PROVE Linked(q[i], q[i + 1], date)
    <2>1. i \in 1..(n - 1) /\ i + 1 \in 1..(n - 1)
        OBVIOUS
    <2> QED BY <1>1, <1>4, <2>1
<1>9. PathTo(q, n - 1, avoid \cup {a}, p[2], target, date)
    BY <1>5, <1>6, <1>7, <1>8 DEF PathTo
<1> QED BY <1>3, <1>9, Zenon DEF q, Behind

\* What a step in front of a way makes of the sums along it.
LEMMA SumsAhead ==
    ASSUME NEW n \in Nat, n >= 1, NEW a, NEW date, NEW p, NEW w, IsSums(w, p, n, date),
           w[n] \in Int, Worth(a, p[1], date) \in Int,
           \A i \in 1..(n - 1) : Worth(p[i], p[i + 1], date) \in Int
    PROVE  \E v : /\ IsSums(v, Ahead(a, p, n), n + 1, date)
                  /\ v[n + 1] = Worth(a, p[1], date) + w[n]
<1> DEFINE q == [i \in 1..(n + 1) |-> IF i = 1 THEN a ELSE p[i - 1]]
<1>1. PICK s \in Int : s = Worth(a, p[1], date)
    OBVIOUS
<1> DEFINE v == [i \in 1..(n + 1) |-> IF i = 1 THEN 0 ELSE s + w[i - 1]]
<1>2. w[1] = 0 /\ \A i \in 2..n : w[i] = w[i - 1] + Worth(p[i - 1], p[i], date)
    <2>1. w = [i \in 1..n |-> IF i = 1 THEN 0 ELSE w[i - 1] + Worth(p[i - 1], p[i], date)]
        BY Zenon DEF IsSums
    <2>2. 1 \in 1..n /\ \A i \in 2..n : i \in 1..n /\ i # 1
        OBVIOUS
    <2>3. \A i \in 1..n : w[i] = IF i = 1 THEN 0 ELSE w[i - 1] + Worth(p[i - 1], p[i], date)
        BY <2>1, Zenon
    <2> QED BY <2>2, <2>3, Zenon
<1>3. \A i \in 1..n : w[i] \in Int
    <2> DEFINE T == {i \in Nat : i + 1 <= n => w[i + 1] \in Int}
    <2>1. 0 \in T
        BY <1>2
    <2>2. ASSUME NEW i \in T PROVE i + 1 \in T
        <3>1. CASE i + 1 + 1 <= n
            <4>1. /\ i + 1 + 1 \in 2..n /\ i + 1 \in 1..(n - 1) /\ i + 1 + 1 - 1 = i + 1 /\ i + 1 <= n
                BY <3>1
            <4>2. /\ w[i + 1] \in Int /\ Worth(p[i + 1], p[i + 1 + 1], date) \in Int
                BY <4>1
            <4>3. w[i + 1 + 1] = w[i + 1] + Worth(p[i + 1], p[i + 1 + 1], date)
                BY <1>2, <4>1
            <4> QED BY <4>2, <4>3
        <3>2. CASE ~(i + 1 + 1 <= n)
            BY <3>2
        <3> QED BY <3>1, <3>2
    <2>3. T \in SUBSET Nat
        OBVIOUS
    <2>4. \A i \in Nat : i \in T
        <3> HIDE DEF T
        <3> QED BY <2>1, <2>2, <2>3, AllNaturals
    <2>5. \A i \in Nat : i + 1 <= n => w[i + 1] \in Int
        BY <2>4
    <2>6. ASSUME NEW i \in 1..n PROVE w[i] \in Int
        <3>1. i - 1 \in Nat /\ i - 1 + 1 = i /\ i <= n
            OBVIOUS
        <3> QED BY <2>5, <3>1
    <2> QED BY <2>6
<1>4. \A i \in 1..(n + 1) : v[i] = IF i = 1 THEN 0 ELSE v[i - 1] + Worth(q[i - 1], q[i], date)
    <2>1. ASSUME NEW i \in 1..(n + 1), i # 1
          PROVE  s + w[i - 1] = v[i - 1] + Worth(q[i - 1], q[i], date)
        <3>1. q[i] = p[i - 1] /\ i - 1 \in 1..n /\ i - 1 \in 1..(n + 1)
            BY <2>1
        <3>2. CASE i = 2
            <4>1. v[i - 1] = 0 /\ q[i - 1] = a /\ w[i - 1] = 0 /\ i - 1 = 1
                BY <1>2, <3>2
            <4>2. Worth(q[i - 1], q[i], date) = s
                BY <1>1, <3>1, <4>1
            <4> QED BY <4>1, <4>2
        <3>3. CASE i # 2
            <4>1. i - 1 \in 2..n /\ i - 1 # 1 /\ i - 1 - 1 \in 1..n /\ i - 1 - 1 \in 1..(n - 1)
                     /\ i - 1 - 1 + 1 = i - 1
                BY <2>1, <3>3
            <4>2. v[i - 1] = s + w[i - 1 - 1] /\ q[i - 1] = p[i - 1 - 1]
                BY <3>1, <4>1
            <4>3. w[i - 1] = w[i - 1 - 1] + Worth(p[i - 1 - 1], p[i - 1], date)
                BY <1>2, <4>1
            <4>4. w[i - 1 - 1] \in Int /\ Worth(p[i - 1 - 1], p[i - 1], date) \in Int
                BY <1>3, <4>1
            <4>5. Worth(q[i - 1], q[i], date) = Worth(p[i - 1 - 1], p[i - 1], date)
                BY <3>1, <4>2
            <4> HIDE DEF q, v
            <4> QED BY <4>2, <4>3, <4>4, <4>5
        <3> QED BY <3>2, <3>3
    <2>2. ASSUME NEW i \in 1..(n + 1)
          PROVE  v[i] = IF i = 1 THEN 0 ELSE s + w[i - 1]
        OBVIOUS
    <2> HIDE DEF v, q
    <2> QED BY <2>1, <2>2, Zenon
<1>5. v[n + 1] = s + w[n]
    BY <1>3
<1>6. v = [i \in 1..(n + 1) |-> v[i]]
    OBVIOUS
<1> HIDE DEF v, q
<1>7. IsSums(v, q, n + 1, date)
    BY <1>4, <1>6, Zenon DEF IsSums
<1> QED BY <1>1, <1>5, <1>7, Zenon DEF q, Ahead


LEMMA FirstFoundIs ==
    ASSUME NEW tails, DOMAIN tails \in SUBSET Nat
    PROVE  /\ FirstFound(tails) # NoRate => \E k \in DOMAIN tails : FirstFound(tails) = tails[k]
           /\ (\E k \in DOMAIN tails : tails[k] # NoRate) => FirstFound(tails) # NoRate
<1> DEFINE found == {k \in DOMAIN tails : tails[k] # NoRate}
<1>1. FirstFound(tails) = (IF found = {} THEN NoRate ELSE tails[Min(found)])
    BY Zenon DEF FirstFound
<1>2. ASSUME found # {} PROVE Min(found) \in found
    <2>1. found \in SUBSET Int /\ \A k \in found : 0 <= k
        OBVIOUS
    <2> HIDE DEF found
    <2> QED BY <1>2, <2>1, MinOf
<1>3. CASE found = {}
    BY <1>1, <1>3, Zenon
<1>4. CASE found # {}
    <2>1. Min(found) \in DOMAIN tails /\ tails[Min(found)] # NoRate
        BY <1>2, <1>4, Zenon
    <2>2. FirstFound(tails) = tails[Min(found)]
        BY <1>1, <1>4, Zenon
    <2> QED BY <2>1, <2>2, Zenon
<1> QED BY <1>3, <1>4, Zenon

LEMMA KeysNatural == Keys \in SUBSET Nat
<1>1. ASSUME NEW a \in Currency, NEW b \in Currency PROVE hash(a, b) \in Nat
    <2>1. a \in Nat /\ b \in Nat
        BY RatesAssumption
    <2>2. PICK l, h : l = Lower(a, b) /\ h = Higher(a, b)
        OBVIOUS
    <2>3. l \in {a, b} /\ h \in {a, b}
        BY <2>2, LowHigh, Zenon
    <2>4. hash(a, b) = l * 1000 + h
        BY <2>2 DEF hash
    <2> QED BY <2>1, <2>3, <2>4
<1> QED BY <1>1 DEF Keys

\* A head and what is found behind it.
LEMMA HeadAndTail ==
    ASSUME Agreement, NEW date \in RateDates, NEW avoid \in SUBSET Currency,
           NEW from \in Currency \ avoid, NEW target \in Currency \ avoid, from # target,
           NEW b \in Currency \ (avoid \cup {from}), b # target,
           Linked(from, b, date),
           NEW tail, Found(tail, avoid \cup {from}, b, target, date)
    PROVE  Found(chain(fetch(from, b, date), tail), avoid, from, target, date)
<1>1. PICK L \in Nat : L = Left(avoid) /\ Left(avoid \cup {from}) = L - 1
    BY LeftNow
<1>2. avoid \cup {from} \in SUBSET Currency /\ target \in Currency \ (avoid \cup {from})
    OBVIOUS
<1>3. 2 <= L - 1
    BY <1>1, <1>2, LeftNow
<1>0. PICK n \in 2..(L - 1) : \E p, w :
            /\ PathTo(p, n, avoid \cup {from}, b, target, date)
            /\ IsSums(w, p, n, date)
            /\ w[n] \in Int
            /\ Converts(tail, b, target, w[n], L - 1 - 2)
    BY <1>1, Zenon DEF Found
<1>4. PICK p, w :
            /\ PathTo(p, n, avoid \cup {from}, b, target, date)
            /\ IsSums(w, p, n, date)
            /\ w[n] \in Int
            /\ Converts(tail, b, target, w[n], L - 1 - 2)
    BY <1>0, Zenon
<1> DEFINE q == Ahead(from, p, n)
<1>5. n \in Nat /\ n >= 1 /\ n + 1 \in 2..L /\ n + 1 \in Nat
    BY <1>1
<1>6. PathTo(q, n + 1, avoid, from, target, date)
    BY <1>4, <1>5, PathAhead
<1>7. /\ p[1] = b /\ p \in [1..n -> Currency]
      /\ \A i \in 1..(n - 1) : Linked(p[i], p[i + 1], date)
    BY <1>4 DEF PathTo
<1>8. \A i \in 1..(n - 1) : Worth(p[i], p[i + 1], date) \in Int
    <2>1. ASSUME NEW i \in 1..(n - 1) PROVE Worth(p[i], p[i + 1], date) \in Int
        <3>1. i \in 1..n /\ i + 1 \in 1..n
            OBVIOUS
        <3>2. p[i] \in Currency /\ p[i + 1] \in Currency
            BY <1>7, <3>1
        <3>3. Linked(p[i], p[i + 1], date)
            BY <1>7
        <3> QED BY <3>2, <3>3, WorthOfPair
    <2> QED BY <2>1
<1>9. PICK s \in Int : s = Worth(from, b, date)
    BY WorthOfPair
<1>10. PICK v : IsSums(v, q, n + 1, date) /\ v[n + 1] = s + w[n]
    <2>1. Worth(from, p[1], date) \in Int
        BY <1>7, <1>9
    <2>2. \E v : IsSums(v, q, n + 1, date) /\ v[n + 1] = Worth(from, p[1], date) + w[n]
        BY <1>4, <1>5, <1>8, <2>1, SumsAhead
    <2> QED BY <1>7, <1>9, <2>2, Zenon
<1>11. PICK head \in DirectRates : head = fetch(from, b, date) /\ Ends(head) = {from, b}
    BY WorthOfPair, FetchedRate
<1>12. s = IF head.source = from THEN head.log ELSE -head.log
    BY <1>9, <1>11, FetchIsLatest, Zenon DEF Worth
<1>13. Converts(head, from, b, s, 0)
    BY <1>11, <1>12, DirectConverts
<1>14. PICK l \in Nat : l = L - 1 - 2
    BY <1>3
<1>15. Converts(head, from, b, s, l)
    <2>1. 0 <= l /\ l \in Int /\ 0 \in Int
        OBVIOUS
    <2> QED BY <1>13, <2>1, ConvertsLater
<1>16. PICK t \in Int : t = w[n]
    BY <1>4
<1>17. Converts(tail, b, target, t, l)
    BY <1>4, <1>14, <1>16, Zenon
<1>18. Converts(chain(head, tail), from, target, s + t, l + 1)
    <2>1. from # b
        OBVIOUS
    <2> QED BY <1>15, <1>17, <2>1, ChainConverts
<1>19. l + 1 = L - 2 /\ s + t \in Int
    BY <1>14
<1>20. v[n + 1] \in Int /\ Converts(chain(head, tail), from, target, v[n + 1], L - 2)
    BY <1>10, <1>16, <1>18, <1>19, Zenon
<1> HIDE DEF q
<1> QED BY <1>1, <1>5, <1>6, <1>10, <1>11, <1>20, Zenon DEF Found

\* The direct rate is a way of one step.
LEMMA DirectFound ==
    ASSUME Agreement, NEW date \in RateDates, NEW avoid \in SUBSET Currency,
           NEW from \in Currency \ avoid, NEW target \in Currency \ avoid, from # target,
           Linked(from, target, date)
    PROVE  Found(fetch(from, target, date), avoid, from, target, date)
<1>1. PICK L \in Nat : L = Left(avoid) /\ 2 <= L
    BY LeftNow
<1>2. PICK s \in Int : s = Worth(from, target, date)
    BY WorthOfPair
<1>3. PICK rate \in DirectRates : rate = fetch(from, target, date) /\ Ends(rate) = {from, target}
    BY WorthOfPair, FetchedRate
<1>4. s = IF rate.source = from THEN rate.log ELSE -rate.log
    BY <1>2, <1>3, FetchIsLatest, Zenon DEF Worth
<1>5. Converts(rate, from, target, s, 0)
    BY <1>3, <1>4, DirectConverts
<1>6. Converts(rate, from, target, s, L - 2)
    <2>1. 0 <= L - 2 /\ L - 2 \in Int /\ 0 \in Int
        BY <1>1
    <2> QED BY <1>5, <2>1, ConvertsLater
<1> DEFINE p == [i \in 1..2 |-> IF i = 1 THEN from ELSE target]
           w == [i \in 1..2 |-> IF i = 1 THEN 0 ELSE s]
<1>7. p[1] = from /\ p[2] = target /\ w[1] = 0 /\ w[2] = s
    OBVIOUS
<1>8. PathTo(p, 2, avoid, from, target, date)
    <2>1. p \in [1..2 -> Currency \ avoid]
        OBVIOUS
    <2>2. \A i, j \in 1..2 : p[i] = p[j] => i = j
        OBVIOUS
    <2>3. \A i \in 1..(2 - 1) : i = 1 /\ i + 1 = 2
        OBVIOUS
    <2> HIDE DEF p
    <2> QED BY <1>7, <2>1, <2>2, <2>3, Zenon DEF PathTo
<1>9. IsSums(w, p, 2, date)
    <2>1. \A i \in 1..2 : w[i] = IF i = 1 THEN 0 ELSE w[i - 1] + Worth(p[i - 1], p[i], date)
        <3>1. \A i \in 1..2 : i = 1 \/ (i = 2 /\ i - 1 = 1 /\ i # 1)
            OBVIOUS
        <3>2. 0 + Worth(from, target, date) = s
            BY <1>2
        <3> HIDE DEF w, p
        <3> QED BY <1>7, <3>1, <3>2, Zenon
    <2>2. w = [i \in 1..2 |-> w[i]]
        OBVIOUS
    <2> HIDE DEF w, p
    <2> QED BY <2>1, <2>2, Zenon DEF IsSums
<1>10. 2 \in 2..L
    BY <1>1
<1> HIDE DEF p, w
<1>11. w[2] \in Int /\ Converts(rate, from, target, w[2], L - 2)
    BY <1>6, <1>7, Zenon
<1> QED BY <1>1, <1>3, <1>8, <1>9, <1>10, <1>11, Zenon DEF Found

\* What the search is to find.
Right(avoid, from, target, date) ==
    LET rate == Finds(target, date)[avoid][from]
    IN  /\ rate # NoRate => Found(rate, avoid, from, target, date)
        /\ (\E n \in Nat \ {0} : \E p : PathTo(p, n, avoid, from, target, date)) => rate # NoRate

RightBeyond(avoid, target, date) ==
    \A from \in Currency \ avoid : target \in Currency \ avoid /\ from # target =>
        Right(avoid, from, target, date)

LEMMA FoundIsRate ==
    ASSUME NEW rate, NEW avoid, NEW from, NEW target, NEW date,
           Found(rate, avoid, from, target, date)
    PROVE  rate # NoRate
<1>1. DOMAIN rate = Fields
    BY Zenon DEF Found, Converts
<1> QED BY <1>1, NotNoRate

LEMMA SearchStep ==
    ASSUME Agreement, NEW date \in RateDates, NEW avoid \in SUBSET Currency,
           NEW from \in Currency \ avoid, NEW target \in Currency \ avoid, from # target,
           RightBeyond(avoid \cup {from}, target, date)
    PROVE  Right(avoid, from, target, date)
<1> DEFINE A == avoid \cup {from}
           tails == Finds(target, date)[A]
           H == Heads(from, date, A)
           found == [k \in H |->
                        chainedTo(fetch(from, Other(k, from), date), tails[Other(k, from)])]
           rate == Finds(target, date)[avoid][from]
<1>1. rate = IF fetch(from, target, date) # NoRate THEN fetch(from, target, date)
                                                  ELSE FirstFound(found)
    <2>1. rate = searchFrom(from, target, date, A, tails)
        BY SearchesFrom
    <2> HIDE DEF rate, tails
    <2> QED BY <2>1, Zenon DEF searchFrom
<1>2. DOMAIN found \in SUBSET Nat
    <2>1. H \in SUBSET Keys
        BY Zenon DEF Heads
    <2> HIDE DEF H
    <2> QED BY <2>1, KeysNatural
<1>3. \A b \in Currency \ A : Linked(from, b, date) <=> fetch(from, b, date) # NoRate
    BY WorthOfPair
<1>4. target \in Currency \ A
    OBVIOUS
<1>5. \A b \in Currency \ A : b # target => Right(A, b, target, date)
    BY <1>4, Zenon DEF RightBeyond
<1>6. ASSUME NEW b \in Currency \ A, b # target, Linked(from, b, date), tails[b] # NoRate
      PROVE  Found(chainedTo(fetch(from, b, date), tails[b]), avoid, from, target, date)
    <2>1. Found(tails[b], A, b, target, date)
        BY <1>5, <1>6, Zenon DEF Right
    <2>2. PICK tail : tail = tails[b]
        OBVIOUS
    <2> HIDE DEF tails
    <2>3. Found(chain(fetch(from, b, date), tail), avoid, from, target, date)
        BY <1>6, <2>1, <2>2, HeadAndTail
    <2> QED BY <1>6, <2>2, <2>3, Zenon DEF chainedTo
<1> HIDE DEF tails
<1>7. ASSUME rate # NoRate PROVE Found(rate, avoid, from, target, date)
    <2>1. CASE fetch(from, target, date) # NoRate
        <3>1. Linked(from, target, date)
            BY <1>3, <1>4, <2>1
        <3>2. Found(fetch(from, target, date), avoid, from, target, date)
            BY <3>1, DirectFound
        <3> QED BY <1>1, <2>1, <3>2, Zenon
    <2>2. CASE fetch(from, target, date) = NoRate
        <3>1. rate = FirstFound(found)
            BY <1>1, <2>2, Zenon
        <3>2. PICK k \in DOMAIN found : FirstFound(found) = found[k]
            <4> HIDE DEF found
            <4> QED BY <1>2, <1>7, <3>1, FirstFoundIs
        <3>3. k \in H
            BY <3>2
        <3>4. PICK b \in Currency \ A : b = Other(k, from) /\ fetch(from, b, date) # NoRate
            BY <3>3, HeadsAre
        <3>5. rate = chainedTo(fetch(from, b, date), tails[b])
            BY <3>1, <3>2, <3>3, <3>4, Zenon
        <3>6. tails[b] # NoRate
            BY <1>7, <3>5, Zenon DEF chainedTo
        <3>7. b # target /\ Linked(from, b, date)
            BY <1>3, <2>2, <3>4
        <3> HIDE DEF rate, A
        <3> QED BY <1>6, <3>5, <3>6, <3>7, Zenon
    <2> QED BY <2>1, <2>2
<1>8. ASSUME NEW n \in Nat \ {0}, NEW p, PathTo(p, n, avoid, from, target, date)
      PROVE  rate # NoRate
    <2>1. CASE fetch(from, target, date) # NoRate
        BY <1>1, <2>1, Zenon
    <2>2. CASE fetch(from, target, date) = NoRate
        <3>1. n \in Nat /\ n >= 2
            <4>1. n # 1
                BY <1>8, Zenon DEF PathTo
            <4> QED BY <4>1
        <3>2. /\ p[2] \in Currency \ A /\ Linked(from, p[2], date)
              /\ \E q : PathTo(q, n - 1, A, p[2], target, date)
            BY <1>8, <3>1, PathBehind
        <3>3. PICK b \in Currency \ A : b = p[2]
            BY <3>2
        <3>4. /\ Linked(from, b, date)
              /\ \E q : PathTo(q, n - 1, A, b, target, date)
            BY <3>2, <3>3, Zenon
        <3>5. b # target /\ fetch(from, b, date) # NoRate
            BY <1>3, <2>2, <3>4
        <3>6. n - 1 \in Nat \ {0}
            BY <3>1
        <3>7. tails[b] # NoRate
            BY <1>5, <3>4, <3>5, <3>6, Zenon DEF Right, tails
        <3>8. chainedTo(fetch(from, b, date), tails[b]) # NoRate
            <4>1. Found(chainedTo(fetch(from, b, date), tails[b]), avoid, from, target, date)
                BY <1>6, <3>4, <3>5, <3>7
            <4> QED BY <4>1, FoundIsRate
        <3>9. hash(from, b) \in H /\ Other(hash(from, b), from) = b
            BY <3>5, HeadsAre
        <3>10. hash(from, b) \in DOMAIN found /\ found[hash(from, b)] # NoRate
            BY <3>8, <3>9, Zenon
        <3>11. FirstFound(found) # NoRate
            <4> HIDE DEF found
            <4> QED BY <1>2, <3>10, FirstFoundIs
        <3> QED BY <1>1, <2>2, <3>11, Zenon
    <2> QED BY <2>1, <2>2
<1> QED BY <1>7, <1>8, Zenon DEF Right

LEMMA SearchRight ==
    ASSUME Agreement, NEW date \in RateDates, NEW target \in Currency
    PROVE  \A avoid \in SUBSET Currency : RightBeyond(avoid, target, date)
<1> DEFINE T == {n \in Nat : \A avoid \in SUBSET Currency :
                    Left(avoid) <= n => RightBeyond(avoid, target, date)}
<1>1. 0 \in T
    <2>1. ASSUME NEW avoid \in SUBSET Currency, Left(avoid) <= 0,
                 NEW from \in Currency \ avoid, target \in Currency \ avoid, from # target
          PROVE  FALSE
        <3>1. 2 <= Left(avoid) /\ Left(avoid) \in Nat
            BY <2>1, LeftNow
        <3> QED BY <2>1, <3>1
    <2> QED BY <2>1 DEF RightBeyond
<1>2. ASSUME NEW n \in T PROVE n + 1 \in T
    <2>1. n \in Nat /\ \A avoid \in SUBSET Currency :
             Left(avoid) <= n => RightBeyond(avoid, target, date)
        OBVIOUS
    <2>2. ASSUME NEW avoid \in SUBSET Currency, Left(avoid) <= n + 1,
                 NEW from \in Currency \ avoid, target \in Currency \ avoid, from # target
          PROVE  Right(avoid, from, target, date)
        <3>1. /\ avoid \cup {from} \in SUBSET Currency /\ Left(avoid) \in Nat
              /\ Left(avoid \cup {from}) = Left(avoid) - 1
            BY <2>2, LeftNow
        <3>2. Left(avoid \cup {from}) <= n
            BY <2>1, <2>2, <3>1
        <3>3. RightBeyond(avoid \cup {from}, target, date)
            BY <2>1, <3>1, <3>2
        <3> QED BY <2>2, <3>3, SearchStep
    <2>3. \A avoid \in SUBSET Currency :
             Left(avoid) <= n + 1 => RightBeyond(avoid, target, date)
        BY <2>2, Zenon DEF RightBeyond
    <2> QED BY <2>1, <2>3
<1>3. T \in SUBSET Nat
    OBVIOUS
<1>4. \A n \in Nat : n \in T
    <2> HIDE DEF T
    <2> QED BY <1>1, <1>2, <1>3, AllNaturals
<1>5. ASSUME NEW avoid \in SUBSET Currency PROVE RightBeyond(avoid, target, date)
    <2>1. PICK n \in Nat : n = Left(avoid)
        BY LeftNow
    <2>2. n \in T /\ Left(avoid) <= n
        BY <1>4, <2>1
    <2> QED BY <2>2
<1> QED BY <1>5


-----------------------------------------------------------------------------
(***************************************************************************)
(* The ways of the properties, and what a unit is worth along them.        *)
(***************************************************************************)

LEMMA SameSums ==
    ASSUME NEW n \in Nat, NEW p, NEW date, NEW v, NEW w, IsSums(v, p, n, date), IsSums(w, p, n, date)
    PROVE  \A i \in 1..n : v[i] = w[i]
<1> DEFINE T == {i \in Nat : i + 1 <= n => v[i + 1] = w[i + 1]}
<1>1. ASSUME NEW u, IsSums(u, p, n, date), NEW i \in 1..n
      PROVE  u[i] = IF i = 1 THEN 0 ELSE u[i - 1] + Worth(p[i - 1], p[i], date)
    BY <1>1, Zenon DEF IsSums
<1>2. 0 \in T
    <2>1. ASSUME 0 + 1 <= n PROVE v[0 + 1] = w[0 + 1]
        <3>1. 0 + 1 = 1 /\ 1 \in 1..n
            BY <2>1
        <3>2. v[1] = 0 /\ w[1] = 0
            BY <1>1, <3>1
        <3> QED BY <3>1, <3>2
    <2> QED BY <2>1
<1>3. ASSUME NEW i \in T PROVE i + 1 \in T
    <2>1. ASSUME i + 1 + 1 <= n PROVE v[i + 1 + 1] = w[i + 1 + 1]
        <3>1. /\ i + 1 + 1 \in 1..n /\ i + 1 + 1 # 1 /\ i + 1 + 1 - 1 = i + 1 /\ i + 1 <= n
            BY <2>1
        <3>2. v[i + 1] = w[i + 1]
            BY <3>1
        <3>3. /\ v[i + 1 + 1] = v[i + 1] + Worth(p[i + 1], p[i + 1 + 1], date)
              /\ w[i + 1 + 1] = w[i + 1] + Worth(p[i + 1], p[i + 1 + 1], date)
            BY <1>1, <3>1
        <3> QED BY <3>2, <3>3, Zenon
    <2> QED BY <2>1
<1>4. T \in SUBSET Nat
    OBVIOUS
<1>5. \A i \in Nat : i \in T
    <2> HIDE DEF T
    <2> QED BY <1>2, <1>3, <1>4, AllNaturals
<1>6. ASSUME NEW i \in 1..n PROVE v[i] = w[i]
    <2>1. i - 1 \in Nat /\ i - 1 + 1 = i /\ i <= n
        OBVIOUS
    <2>2. i - 1 \in T
        BY <1>5, <2>1
    <2> QED BY <2>1, <2>2
<1> QED BY <1>6

LEMMA WorthAlongIs ==
    ASSUME NEW n \in Nat \ {0}, NEW p \in [1..n -> Currency], NEW date, NEW w, IsSums(w, p, n, date)
    PROVE  WorthAlong(p, date) = w[n]
<1>1. DOMAIN p = 1..n /\ Len(p) = n
    <2>1. p \in Seq(Currency)
        OBVIOUS
    <2> QED BY <2>1
<1> DEFINE sums(u, d) ==
               u = [i \in d |-> IF i = 1 THEN 0 ELSE u[i - 1] + Worth(p[i - 1], p[i], date)]
           v == CHOOSE v : sums(v, DOMAIN p)
<1>2. WorthAlong(p, date) = v[Len(p)]
    BY Zenon DEF WorthAlong
<1>3. IsSums(v, p, n, date)
    <2>1. \A u : IsSums(u, p, n, date) <=> sums(u, 1..n)
        BY Zenon DEF IsSums
    <2> HIDE DEF sums
    <2>2. sums(w, DOMAIN p)
        BY <1>1, <2>1
    <2>3. sums(v, DOMAIN p)
        BY <2>2, Zenon
    <2> QED BY <1>1, <2>1, <2>3
<1> HIDE DEF v
<1>4. n \in 1..n /\ n \in Nat
    OBVIOUS
<1>5. v[n] = w[n]
    BY <1>3, <1>4, SameSums
<1> QED BY <1>1, <1>2, <1>5

\* The linked paths are the ways that avoid nothing.
LEMMA PathIsLinked ==
    ASSUME NEW n \in 1..Cardinality(Currency), NEW p, NEW source \in Currency,
           NEW target \in Currency, NEW date, PathTo(p, n, {}, source, target, date)
    PROVE  p \in LinkedPaths(source, target, date)
<1>1. n \in Nat /\ n \in 1..n
    BY CurrenciesFinite
<1>2. /\ p \in [1..n -> Currency] /\ \A i, j \in 1..n : p[i] = p[j] => i = j
      /\ p[1] = source /\ p[n] = target
      /\ \A i \in 1..(n - 1) : Linked(p[i], p[i + 1], date)
    BY DEF PathTo
<1>3. DOMAIN p = 1..n /\ Len(p) = n
    <2>1. p \in Seq(Currency)
        BY <1>1, <1>2
    <2> QED BY <1>1, <1>2, <2>1
<1>4. p \in UNION {[1..m -> Currency] : m \in 1..Cardinality(Currency)}
    BY <1>2, Zenon
<1>5. p \in SimplePaths[source][target]
    BY <1>2, <1>3, <1>4, Zenon DEF SimplePaths
<1> QED BY <1>2, <1>3, <1>5, Zenon DEF LinkedPaths

LEMMA LinkedIsPath ==
    ASSUME NEW source \in Currency, NEW target \in Currency, NEW date,
           NEW p \in LinkedPaths(source, target, date)
    PROVE  \E n \in Nat \ {0} : PathTo(p, n, {}, source, target, date)
<1>1. /\ p \in SimplePaths[source][target]
      /\ \A i \in 1..(Len(p) - 1) : Linked(p[i], p[i + 1], date)
    BY Zenon DEF LinkedPaths
<1>2. /\ p \in UNION {[1..m -> Currency] : m \in 1..Cardinality(Currency)}
      /\ \A i, j \in DOMAIN p : p[i] = p[j] => i = j
      /\ p[1] = source /\ p[Len(p)] = target
    BY <1>1, Zenon DEF SimplePaths
<1>3. PICK n \in 1..Cardinality(Currency) : p \in [1..n -> Currency]
    BY <1>2
<1>4. n \in Nat \ {0}
    BY CurrenciesFinite
<1>5. DOMAIN p = 1..n /\ Len(p) = n
    <2>1. p \in Seq(Currency)
        BY <1>3, <1>4
    <2> QED BY <1>3, <1>4, <2>1
<1>6. Currency \ {} = Currency
    OBVIOUS
<1>7. PathTo(p, n, {}, source, target, date)
    BY <1>1, <1>2, <1>3, <1>5, <1>6, Zenon DEF PathTo
<1> QED BY <1>4, <1>7

\* A way that returns to its start has no steps.
LEMMA StaysThere ==
    ASSUME NEW c \in Currency, NEW date
    PROVE  \E p \in LinkedPaths(c, c, date) : WorthAlong(p, date) = 0
<1> DEFINE p == [i \in 1..1 |-> c]
           w == [i \in 1..1 |-> 0]
<1>1. 1 \in 1..Cardinality(Currency)
    <2>1. IsFiniteSet(Currency) /\ Cardinality(Currency) \in Nat
        BY CurrenciesFinite
    <2>2. Cardinality(Currency) # 0
        BY <2>1, FS_EmptySet
    <2> QED BY <2>1, <2>2
<1>2. p \in [1..1 -> Currency] /\ p[1] = c /\ w[1] = 0
    OBVIOUS
<1>3. PathTo(p, 1, {}, c, c, date)
    <2>1. \A i \in 1..1 : i = 1
        OBVIOUS
    <2>2. \A i \in 1..(1 - 1) : FALSE
        OBVIOUS
    <2>3. Currency \ {} = Currency
        OBVIOUS
    <2> HIDE DEF p
    <2> QED BY <1>2, <2>1, <2>2, <2>3, Zenon DEF PathTo
<1>4. IsSums(w, p, 1, date)
    <2>1. \A i \in 1..1 : i = 1
        OBVIOUS
    <2>2. \A i \in 1..1 : w[i] = IF i = 1 THEN 0 ELSE w[i - 1] + Worth(p[i - 1], p[i], date)
        <3> HIDE DEF w, p
        <3> QED BY <1>2, <2>1, Zenon
    <2>3. w = [i \in 1..1 |-> w[i]]
        OBVIOUS
    <2> HIDE DEF w, p
    <2> QED BY <2>2, <2>3, Zenon DEF IsSums
<1> HIDE DEF p, w
<1>5. 1 \in Nat \ {0}
    OBVIOUS
<1>6. WorthAlong(p, date) = w[1]
    BY <1>2, <1>4, <1>5, WorthAlongIs
<1>7. p \in LinkedPaths(c, c, date)
    BY <1>1, <1>3, PathIsLinked
<1> QED BY <1>2, <1>6, <1>7

-----------------------------------------------------------------------------
(***************************************************************************)
(* The lookup, through the triangulation currencies.                       *)
(***************************************************************************)

LEMMA HubOf ==
    ASSUME NEW c \in Currency
    PROVE  /\ Hub(c) \in Currency
           /\ Triangulation[c] # NoCurrency =>
                 /\ Hub(c) = Triangulation[c] /\ Hub(c) # c
                 /\ Triangulation[Hub(c)] = NoCurrency /\ Hub(Hub(c)) = Hub(c)
           /\ Triangulation[c] = NoCurrency => Hub(c) = c
<1>1. NoCurrency \notin Currency /\ Triangulation[c] \in Currency \cup {NoCurrency}
    BY RatesAssumption
<1>2. Triangulation[c] # NoCurrency => Triangulation[Triangulation[c]] = NoCurrency
    BY LinksEnd
<1> QED BY <1>1, <1>2 DEF Hub

\* What a lookup of a derived rate is to return.
Outcome(rate, a, b, date, l) ==
    /\ rate # NoRate <=>
          AtHub(a, date) /\ AtHub(b, date) /\ LinkedPaths(Hub(a), Hub(b), date) # {}
    /\ rate # NoRate =>
          \E p \in LinkedPaths(Hub(a), Hub(b), date), s \in Int :
              /\ WorthAlong(p, date) \in Int
              /\ s = ToHub(a, date) + WorthAlong(p, date) - ToHub(b, date)
              /\ Converts(rate, a, b, s, l)

\* Between hubs, the search.
LEMMA HubsResult ==
    ASSUME Agreement, NEW date \in RateDates, NEW a \in Currency, NEW b \in Currency, a # b,
           Hub(a) = a, Hub(b) = b
    PROVE  Outcome(smartLookup(a, b, date, {}), a, b, date, Cardinality(Currency) - 2)
<1>1. PICK rate : rate = smartLookup(a, b, date, {})
    OBVIOUS
<1>2. rate = Finds(b, date)[{}][a]
    BY <1>1, SmartLookupIs
<1>3. {} \in SUBSET Currency /\ Currency \ {} = Currency
    OBVIOUS
<1>4. Right({}, a, b, date)
    <2>1. RightBeyond({}, b, date)
        BY <1>3, SearchRight
    <2> QED BY <1>3, <2>1, Zenon DEF RightBeyond
<1>5. Left({}) = Cardinality(Currency) /\ Cardinality(Currency) \in Nat
    BY <1>3, CurrenciesFinite DEF Left
<1>6. AtHub(a, date) /\ AtHub(b, date) /\ ToHub(a, date) = 0 /\ ToHub(b, date) = 0
    BY DEF AtHub, ToHub
<1>7. ASSUME rate # NoRate
      PROVE  \E p \in LinkedPaths(a, b, date), s \in Int :
                 /\ WorthAlong(p, date) \in Int
                 /\ s = 0 + WorthAlong(p, date) - 0
                 /\ Converts(rate, a, b, s, Cardinality(Currency) - 2)
    <2>1. Found(rate, {}, a, b, date)
        BY <1>2, <1>4, <1>7, Zenon DEF Right
    <2>0. PICK n \in 2..Cardinality(Currency) : \E p, w :
              /\ PathTo(p, n, {}, a, b, date)
              /\ IsSums(w, p, n, date)
              /\ w[n] \in Int
              /\ Converts(rate, a, b, w[n], Cardinality(Currency) - 2)
        BY <1>5, <2>1, Zenon DEF Found
    <2>2. PICK p, w :
              /\ PathTo(p, n, {}, a, b, date)
              /\ IsSums(w, p, n, date)
              /\ w[n] \in Int
              /\ Converts(rate, a, b, w[n], Cardinality(Currency) - 2)
        BY <2>0, Zenon
    <2>3. n \in 1..Cardinality(Currency) /\ n \in Nat \ {0}
        BY <1>5
    <2>4. p \in LinkedPaths(a, b, date)
        BY <2>2, <2>3, PathIsLinked
    <2>5. p \in [1..n -> Currency]
        BY <1>3, <2>2, Zenon DEF PathTo
    <2>6. WorthAlong(p, date) = w[n]
        BY <2>2, <2>3, <2>5, WorthAlongIs
    <2>7. PICK s \in Int : s = w[n]
        BY <2>2
    <2>8. s = 0 + s - 0
        OBVIOUS
    <2>9. s = 0 + WorthAlong(p, date) - 0 /\ WorthAlong(p, date) \in Int
        BY <2>6, <2>7, <2>8
    <2>10. Converts(rate, a, b, s, Cardinality(Currency) - 2)
        BY <2>2, <2>7, Zenon
    <2> QED BY <2>4, <2>9, <2>10, Zenon
<1>8. ASSUME NEW p \in LinkedPaths(a, b, date) PROVE rate # NoRate
    <2>1. \E n \in Nat \ {0} : PathTo(p, n, {}, a, b, date)
        BY LinkedIsPath
    <2> QED BY <1>2, <1>4, <2>1, Zenon DEF Right
<1>9. Outcome(rate, a, b, date, Cardinality(Currency) - 2)
    <2>1. rate # NoRate <=> LinkedPaths(a, b, date) # {}
        BY <1>7, <1>8, Zenon
    <2> QED BY <1>6, <1>7, <2>1, Zenon DEF Outcome
<1> QED BY <1>1, <1>9


\* What is found for a pair depends on what is found for one pair that is
\* nearer to the hubs.
LEMMA DerivedSame ==
    ASSUME NEW a \in Currency, NEW b \in Currency, NEW date, NEW f, NEW g,
           Triangulation[a] # NoCurrency =>
               f[<<Triangulation[a], b>>] = g[<<Triangulation[a], b>>],
           Triangulation[a] = NoCurrency /\ Triangulation[b] # NoCurrency =>
               f[<<a, Triangulation[b]>>] = g[<<a, Triangulation[b]>>]
    PROVE  derived(a, b, date, f) = derived(a, b, date, g)
<1>1. CASE a = b
    BY <1>1, Zenon DEF derived
<1>2. CASE a # b /\ Triangulation[a] # NoCurrency
    BY <1>2 DEF derived
<1>3. CASE a # b /\ Triangulation[a] = NoCurrency /\ Triangulation[b] # NoCurrency
    BY <1>3 DEF derived
<1>4. CASE a # b /\ Triangulation[a] = NoCurrency /\ Triangulation[b] = NoCurrency
    BY <1>4 DEF derived
<1> QED BY <1>1, <1>2, <1>3, <1>4, Zenon

Step(f, date) == [ends \in Currency \X Currency |-> derived(ends[1], ends[2], date, f)]

LEMMA StepAt ==
    ASSUME NEW a \in Currency, NEW b \in Currency, NEW f, NEW date
    PROVE  Step(f, date)[<<a, b>>] = derived(a, b, date, f)
BY DEF Step

LEMMA FoundExists ==
    ASSUME NEW date
    PROVE  \E f : f = Step(f, date)
<1>0. PICK f0 : f0 = <<>>
    OBVIOUS
<1>1. PICK f1 : f1 = Step(f0, date)
    OBVIOUS
<1>2. PICK f2 : f2 = Step(f1, date)
    OBVIOUS
<1>3. PICK f3 : f3 = Step(f2, date)
    OBVIOUS
<1>4. \A c \in Currency : Triangulation[c] # NoCurrency =>
          Triangulation[c] \in Currency /\ Triangulation[Triangulation[c]] = NoCurrency
    BY RatesAssumption, LinksEnd
<1>5. ASSUME NEW a \in Currency, NEW b \in Currency,
             Triangulation[a] = NoCurrency, Triangulation[b] = NoCurrency
      PROVE  f1[<<a, b>>] = f2[<<a, b>>]
    <2>1. derived(a, b, date, f0) = derived(a, b, date, f1)
        <3>1. Triangulation[a] # NoCurrency =>
                  f0[<<Triangulation[a], b>>] = f1[<<Triangulation[a], b>>]
            BY <1>5
        <3>2. Triangulation[a] = NoCurrency /\ Triangulation[b] # NoCurrency =>
                  f0[<<a, Triangulation[b]>>] = f1[<<a, Triangulation[b]>>]
            BY <1>5
        <3> QED BY <3>1, <3>2, DerivedSame
    <2> QED BY <1>1, <1>2, <2>1, StepAt
<1>6. ASSUME NEW a \in Currency, NEW b \in Currency, Triangulation[a] = NoCurrency
      PROVE  f2[<<a, b>>] = f3[<<a, b>>]
    <2>1. derived(a, b, date, f1) = derived(a, b, date, f2)
        <3>1. Triangulation[a] # NoCurrency =>
                  f1[<<Triangulation[a], b>>] = f2[<<Triangulation[a], b>>]
            BY <1>6
        <3>2. Triangulation[a] = NoCurrency /\ Triangulation[b] # NoCurrency =>
                  f1[<<a, Triangulation[b]>>] = f2[<<a, Triangulation[b]>>]
            BY <1>4, <1>5, <1>6
        <3> QED BY <3>1, <3>2, DerivedSame
    <2> QED BY <1>2, <1>3, <2>1, StepAt
<1>7. ASSUME NEW a \in Currency, NEW b \in Currency
      PROVE  derived(a, b, date, f2) = derived(a, b, date, f3)
    <2>1. Triangulation[a] # NoCurrency =>
              f2[<<Triangulation[a], b>>] = f3[<<Triangulation[a], b>>]
        BY <1>4, <1>6
    <2>2. Triangulation[a] = NoCurrency /\ Triangulation[b] # NoCurrency =>
              f2[<<a, Triangulation[b]>>] = f3[<<a, Triangulation[b]>>]
        BY <1>4, <1>6
    <2> QED BY <2>1, <2>2, DerivedSame
<1>8. \A ends \in Currency \X Currency :
          derived(ends[1], ends[2], date, f2) = derived(ends[1], ends[2], date, f3)
    BY <1>7
<1>9. Step(f2, date) = Step(f3, date)
    BY <1>8, Zenon DEF Step
<1> QED BY <1>3, <1>9

Derived(date) == CHOOSE f : f = Step(f, date)

LEMMA LookupIs ==
    ASSUME NEW a \in Currency, NEW b \in Currency, a # b, NEW date
    PROVE  /\ lookup(a, b, date, "Direct") = fetch(a, b, date)
           /\ lookup(a, b, date, "Derived") = Derived(date)[<<a, b>>]
           /\ Derived(date)[<<a, b>>] = derived(a, b, date, Derived(date))
<1>1. "Direct" # "Derived"
    OBVIOUS
<1>2. lookup(a, b, date, "Direct") = fetch(a, b, date)
    BY Zenon DEF lookup, directLookup
<1>3. lookup(a, b, date, "Derived") = Derived(date)[<<a, b>>]
    BY <1>1, Zenon DEF lookup, Derived, Step
<1>4. Derived(date) = Step(Derived(date), date)
    BY FoundExists, Zenon DEF Derived
<1>5. Derived(date)[<<a, b>>] = derived(a, b, date, Derived(date))
    <2>1. PICK f : f = Derived(date)
        OBVIOUS
    <2>2. f = Step(f, date)
        BY <1>4, <2>1
    <2>3. f[<<a, b>>] = derived(a, b, date, f)
        BY <2>2, StepAt
    <2> QED BY <2>1, <2>3
<1> QED BY <1>2, <1>3, <1>5

\* A rate added for two currencies, as a result.
LEMMA DirectResult ==
    ASSUME Agreement, NEW date \in RateDates, NEW a \in Currency, NEW b \in Currency, a # b,
           Linked(a, b, date)
    PROVE  /\ Worth(a, b, date) \in Int
           /\ \A l \in Nat : Converts(fetch(a, b, date), a, b, Worth(a, b, date), l)
<1>1. PICK s \in Int : s = Worth(a, b, date)
    BY WorthOfPair
<1>2. PICK rate \in DirectRates : rate = fetch(a, b, date) /\ Ends(rate) = {a, b}
    BY WorthOfPair, FetchedRate
<1>3. s = IF rate.source = a THEN rate.log ELSE -rate.log
    BY <1>1, <1>2, FetchIsLatest, Zenon DEF Worth
<1>4. Converts(rate, a, b, s, 0)
    BY <1>2, <1>3, DirectConverts
<1>5. ASSUME NEW l \in Nat PROVE Converts(rate, a, b, s, l)
    <2>1. 0 <= l /\ l \in Int /\ 0 \in Int
        OBVIOUS
    <2> QED BY <1>4, <2>1, ConvertsLater
<1> QED BY <1>1, <1>2, <1>5, Zenon

LEMMA TwoCurrencies ==
    ASSUME NEW a \in Currency, NEW b \in Currency, a # b
    PROVE  Cardinality(Currency) \in Nat /\ 2 <= Cardinality(Currency)
<1>1. {} \in SUBSET Currency /\ Currency \ {} = Currency
    OBVIOUS
<1>2. Left({}) = Cardinality(Currency)
    BY <1>1 DEF Left
<1>3. 2 <= Left({}) /\ Left({}) \in Nat
    BY <1>1, LeftNow
<1> QED BY <1>2, <1>3

LEMMA ResultLater ==
    ASSUME NEW rate, NEW a, NEW b, NEW date, NEW l \in Int, NEW m \in Int, l <= m,
           Outcome(rate, a, b, date, l)
    PROVE  Outcome(rate, a, b, date, m)
<1>1. \A s : Converts(rate, a, b, s, l) => Converts(rate, a, b, s, m)
    BY ConvertsLater
<1> QED BY <1>1, Zenon DEF Outcome

LEMMA ConvertsIsRate ==
    ASSUME NEW rate, NEW a, NEW b, NEW s, NEW l, Converts(rate, a, b, s, l)
    PROVE  rate # NoRate
<1>1. DOMAIN rate = Fields
    BY Zenon DEF Converts
<1> QED BY <1>1, NotNoRate


\* A currency that has a hub, towards it and away from it.
LEMMA ToItsHub ==
    ASSUME Agreement, NEW date \in RateDates, NEW c \in Currency, Hub(c) # c
    PROVE  /\ AtHub(c, date) <=> fetch(c, Hub(c), date) # NoRate
           /\ AtHub(c, date) <=> fetch(Hub(c), c, date) # NoRate
           /\ AtHub(c, date) =>
                 /\ ToHub(c, date) \in Int
                 /\ \A l \in Nat :
                       /\ Converts(fetch(c, Hub(c), date), c, Hub(c), ToHub(c, date), l)
                       /\ Converts(fetch(Hub(c), c, date), Hub(c), c, -ToHub(c, date), l)
<1>1. PICK h \in Currency : h = Hub(c)
    BY HubOf
<1>2. /\ Linked(c, h, date) <=> fetch(c, h, date) # NoRate
      /\ Linked(c, h, date) <=> Linked(h, c, date)
      /\ Linked(h, c, date) <=> fetch(h, c, date) # NoRate
    BY WorthOfPair
<1>3. AtHub(c, date) <=> Linked(c, h, date)
    BY <1>1, Zenon DEF AtHub
<1>4. ToHub(c, date) = Worth(c, h, date)
    BY <1>1, Zenon DEF ToHub
<1>5. ASSUME Linked(c, h, date)
      PROVE  /\ Worth(c, h, date) \in Int
             /\ \A l \in Nat : /\ Converts(fetch(c, h, date), c, h, Worth(c, h, date), l)
                               /\ Converts(fetch(h, c, date), h, c, -Worth(c, h, date), l)
    <2>1. /\ Worth(c, h, date) \in Int
          /\ \A l \in Nat : Converts(fetch(c, h, date), c, h, Worth(c, h, date), l)
        BY <1>1, <1>5, DirectResult
    <2>2. \A l \in Nat : Converts(fetch(h, c, date), h, c, Worth(h, c, date), l)
        BY <1>1, <1>2, <1>5, DirectResult
    <2>3. Worth(h, c, date) = -Worth(c, h, date)
        BY <1>1, <1>5, WorthOfPair
    <2> QED BY <2>1, <2>2, <2>3, Zenon
<1> QED BY <1>1, <1>2, <1>3, <1>4, <1>5, Zenon

\* From a hub to a currency it is the hub of.
LEMMA FromItsHub ==
    ASSUME Agreement, NEW date \in RateDates, NEW a \in Currency, NEW b \in Currency, a # b,
           Hub(a) = a, Hub(b) = a
    PROVE  \A l \in Nat : Outcome(fetch(a, b, date), a, b, date, l)
<1>1. /\ AtHub(b, date) <=> fetch(a, b, date) # NoRate
      /\ AtHub(b, date) =>
            /\ ToHub(b, date) \in Int
            /\ \A l \in Nat : Converts(fetch(a, b, date), a, b, -ToHub(b, date), l)
    BY ToItsHub
<1>2. PICK p \in LinkedPaths(a, a, date) : WorthAlong(p, date) = 0
    BY StaysThere
<1>3. AtHub(a, date) /\ ToHub(a, date) = 0
    BY DEF AtHub, ToHub
<1>4. ASSUME fetch(a, b, date) # NoRate, NEW l \in Nat
      PROVE  \E q \in LinkedPaths(a, a, date), s \in Int :
                 /\ WorthAlong(q, date) \in Int
                 /\ s = ToHub(a, date) + WorthAlong(q, date) - ToHub(b, date)
                 /\ Converts(fetch(a, b, date), a, b, s, l)
    <2>1. PICK t \in Int : t = ToHub(b, date)
        BY <1>1, <1>4
    <2>2. PICK s \in Int : s = -t
        OBVIOUS
    <2>3. s = 0 + 0 - t
        BY <2>1, <2>2
    <2>4. s = ToHub(a, date) + WorthAlong(p, date) - ToHub(b, date) /\ WorthAlong(p, date) \in Int
        BY <1>2, <1>3, <2>1, <2>3
    <2>5. Converts(fetch(a, b, date), a, b, s, l)
        BY <1>1, <1>4, <2>1, <2>2, Zenon
    <2> QED BY <1>2, <2>4, <2>5, Zenon
<1> QED BY <1>1, <1>2, <1>3, <1>4, Zenon DEF Outcome

\* From a currency to its hub.
LEMMA IntoItsHub ==
    ASSUME Agreement, NEW date \in RateDates, NEW a \in Currency, NEW b \in Currency, a # b,
           Hub(a) = b, Hub(b) = b
    PROVE  \A l \in Nat : Outcome(fetch(a, b, date), a, b, date, l)
<1>1. /\ AtHub(a, date) <=> fetch(a, b, date) # NoRate
      /\ AtHub(a, date) =>
            /\ ToHub(a, date) \in Int
            /\ \A l \in Nat : Converts(fetch(a, b, date), a, b, ToHub(a, date), l)
    BY ToItsHub
<1>2. PICK p \in LinkedPaths(b, b, date) : WorthAlong(p, date) = 0
    BY StaysThere
<1>3. AtHub(b, date) /\ ToHub(b, date) = 0
    BY DEF AtHub, ToHub
<1>4. ASSUME fetch(a, b, date) # NoRate, NEW l \in Nat
      PROVE  \E q \in LinkedPaths(b, b, date), s \in Int :
                 /\ WorthAlong(q, date) \in Int
                 /\ s = ToHub(a, date) + WorthAlong(q, date) - ToHub(b, date)
                 /\ Converts(fetch(a, b, date), a, b, s, l)
    <2>1. PICK s \in Int : s = ToHub(a, date)
        BY <1>1, <1>4
    <2>2. s = s + 0 - 0
        BY <2>1
    <2>3. s = ToHub(a, date) + WorthAlong(p, date) - ToHub(b, date) /\ WorthAlong(p, date) \in Int
        BY <1>2, <1>3, <2>1, <2>2
    <2>4. Converts(fetch(a, b, date), a, b, s, l)
        BY <1>1, <1>4, <2>1, Zenon
    <2> QED BY <1>2, <2>3, <2>4, Zenon
<1> QED BY <1>1, <1>2, <1>3, <1>4, Zenon DEF Outcome

\* A triangulated rate out of what is found from the source to the hub of the
\* target.
LEMMA OutOfHub ==
    ASSUME Agreement, NEW date \in RateDates, NEW a \in Currency, NEW b \in Currency, a # b,
           Hub(a) = a, Hub(b) # b, Hub(b) # a,
           NEW rate, NEW l \in Nat, Outcome(rate, a, Hub(b), date, l)
    PROVE  Outcome(Both(rate, fetch(Hub(b), b, date)), a, b, date, l + 1)
<1>1. PICK h \in Currency : h = Hub(b) /\ Hub(h) = h /\ h # a /\ h # b
    BY HubOf
<1>2. AtHub(h, date) /\ ToHub(h, date) = 0
    BY <1>1 DEF AtHub, ToHub
<1>3. PICK last : last = fetch(h, b, date)
    OBVIOUS
<1>4. /\ AtHub(b, date) <=> last # NoRate
      /\ AtHub(b, date) => /\ ToHub(b, date) \in Int
                           /\ \A m \in Nat : Converts(last, h, b, -ToHub(b, date), m)
    BY <1>1, <1>3, ToItsHub
<1>5. /\ rate # NoRate <=> AtHub(a, date) /\ LinkedPaths(Hub(a), h, date) # {}
      /\ rate # NoRate => \E p \in LinkedPaths(Hub(a), h, date), s \in Int :
            /\ WorthAlong(p, date) \in Int
            /\ s = ToHub(a, date) + WorthAlong(p, date) - 0
            /\ Converts(rate, a, h, s, l)
    BY <1>1, <1>2, Zenon DEF Outcome
<1>6. CASE rate # NoRate /\ last # NoRate
    <2>1. PICK p \in LinkedPaths(Hub(a), h, date), s \in Int :
            /\ WorthAlong(p, date) \in Int
            /\ s = ToHub(a, date) + WorthAlong(p, date) - 0
            /\ Converts(rate, a, h, s, l)
        BY <1>5, <1>6
    <2>2. PICK t \in Int : t = ToHub(b, date)
        BY <1>4, <1>6
    <2>3. PICK u \in Int : u = -t
        OBVIOUS
    <2>4. Converts(last, h, b, u, l)
        BY <1>4, <1>6, <2>2, <2>3, Zenon
    <2>5. Converts(chain(rate, last), a, b, s + u, l + 1)
        BY <1>1, <2>1, <2>4, ChainConverts
    <2>6. chain(rate, last) # NoRate
        BY <2>5, ConvertsIsRate
    <2>7. Both(rate, last) = chain(rate, last)
        BY <1>6, Zenon DEF Both, chainedTo
    <2>9. s + u \in Int /\ s + u = ToHub(a, date) + WorthAlong(p, date) - ToHub(b, date)
        <3>1. ToHub(a, date) = 0
            BY DEF ToHub
        <3>2. PICK y \in Int : y = WorthAlong(p, date)
            BY <2>1
        <3>3. s = 0 + y - 0
            BY <2>1, <3>1, <3>2
        <3>4. s + u = 0 + y - t
            BY <2>2, <2>3, <3>2, <3>3
        <3> QED BY <2>2, <3>1, <3>2, <3>4
    <2>10. AtHub(a, date) /\ AtHub(b, date) /\ LinkedPaths(Hub(a), h, date) # {}
        BY <1>4, <1>5, <1>6
    <2>11. Outcome(chain(rate, last), a, b, date, l + 1)
        BY <1>1, <2>1, <2>5, <2>6, <2>9, <2>10, Zenon DEF Outcome
    <2> QED BY <1>1, <1>3, <2>7, <2>11, Zenon
<1>7. CASE ~(rate # NoRate /\ last # NoRate)
    <2>1. Both(rate, last) = NoRate
        BY <1>7, Zenon DEF Both, chainedTo
    <2>2. ~(AtHub(a, date) /\ AtHub(b, date) /\ LinkedPaths(Hub(a), h, date) # {})
        BY <1>4, <1>5, <1>7, Zenon
    <2>3. Outcome(NoRate, a, b, date, l + 1)
        BY <1>1, <2>2, Zenon DEF Outcome
    <2> QED BY <1>1, <1>3, <2>1, <2>3, Zenon
<1> QED BY <1>6, <1>7

\* A triangulated rate out of the source's rate to its hub and what is found
\* from there.
LEMMA IntoHub ==
    ASSUME Agreement, NEW date \in RateDates, NEW a \in Currency, NEW b \in Currency, a # b,
           Hub(a) # a, Hub(a) # b,
           NEW rate, NEW l \in Nat, Outcome(rate, Hub(a), b, date, l)
    PROVE  Outcome(Both(fetch(a, Hub(a), date), rate), a, b, date, l + 1)
<1>1. PICK h \in Currency : h = Hub(a) /\ Hub(h) = h /\ h # a /\ h # b
    BY HubOf
<1>2. AtHub(h, date) /\ ToHub(h, date) = 0
    BY <1>1 DEF AtHub, ToHub
<1>3. PICK first : first = fetch(a, h, date)
    OBVIOUS
<1>4. /\ AtHub(a, date) <=> first # NoRate
      /\ AtHub(a, date) => /\ ToHub(a, date) \in Int
                           /\ \A m \in Nat : Converts(first, a, h, ToHub(a, date), m)
    BY <1>1, <1>3, ToItsHub
<1>5. /\ rate # NoRate <=> AtHub(b, date) /\ LinkedPaths(h, Hub(b), date) # {}
      /\ rate # NoRate => \E p \in LinkedPaths(h, Hub(b), date), s \in Int :
            /\ WorthAlong(p, date) \in Int
            /\ s = 0 + WorthAlong(p, date) - ToHub(b, date)
            /\ Converts(rate, h, b, s, l)
    BY <1>1, <1>2, Zenon DEF Outcome
<1>6. CASE first # NoRate /\ rate # NoRate
    <2>1. PICK p \in LinkedPaths(h, Hub(b), date), s \in Int :
            /\ WorthAlong(p, date) \in Int
            /\ s = 0 + WorthAlong(p, date) - ToHub(b, date)
            /\ Converts(rate, h, b, s, l)
        BY <1>5, <1>6
    <2>2. PICK u \in Int : u = ToHub(a, date)
        BY <1>4, <1>6
    <2>3. Converts(first, a, h, u, l)
        BY <1>4, <1>6, <2>2, Zenon
    <2>4. Converts(chain(first, rate), a, b, u + s, l + 1)
        BY <1>1, <2>1, <2>3, ChainConverts
    <2>5. chain(first, rate) # NoRate
        BY <2>4, ConvertsIsRate
    <2>6. Both(first, rate) = chain(first, rate)
        BY <1>6, Zenon DEF Both, chainedTo
    <2>7. ToHub(b, date) \in Int
        <3>1. CASE Hub(b) = b
            BY <3>1 DEF ToHub
        <3>2. CASE Hub(b) # b
            BY <1>5, <1>6, <3>2, ToItsHub
        <3> QED BY <3>1, <3>2
    <2>8. u + s \in Int /\ u + s = ToHub(a, date) + WorthAlong(p, date) - ToHub(b, date)
        <3>1. PICK y \in Int : y = WorthAlong(p, date)
            BY <2>1
        <3>2. PICK t \in Int : t = ToHub(b, date)
            BY <2>7
        <3>3. s = 0 + y - t
            BY <2>1, <3>1, <3>2
        <3>4. u + s = u + y - t
            BY <2>2, <3>1, <3>2, <3>3
        <3> QED BY <2>2, <3>1, <3>2, <3>4
    <2>9. AtHub(a, date) /\ AtHub(b, date) /\ LinkedPaths(h, Hub(b), date) # {}
        BY <1>4, <1>5, <1>6
    <2>10. Outcome(chain(first, rate), a, b, date, l + 1)
        BY <1>1, <2>1, <2>4, <2>5, <2>8, <2>9, Zenon DEF Outcome
    <2> QED BY <1>1, <1>3, <2>6, <2>10, Zenon
<1>7. CASE ~(first # NoRate /\ rate # NoRate)
    <2>1. Both(first, rate) = NoRate
        BY <1>7, Zenon DEF Both, chainedTo
    <2>2. ~(AtHub(a, date) /\ AtHub(b, date) /\ LinkedPaths(h, Hub(b), date) # {})
        BY <1>4, <1>5, <1>7, Zenon
    <2>3. Outcome(NoRate, a, b, date, l + 1)
        BY <1>1, <2>2, Zenon DEF Outcome
    <2> QED BY <1>1, <1>3, <2>1, <2>3, Zenon
<1> QED BY <1>6, <1>7


LEMMA FromAHub ==
    ASSUME Agreement, NEW date \in RateDates, NEW a \in Currency, NEW b \in Currency, a # b,
           Triangulation[a] = NoCurrency
    PROVE  Outcome(Derived(date)[<<a, b>>], a, b, date, Cardinality(Currency) - 1)
<1>1. PICK C \in Nat : C = Cardinality(Currency) /\ 2 <= C
    BY TwoCurrencies
<1>2. C - 2 \in Nat /\ C - 1 \in Nat /\ C - 2 + 1 = C - 1 /\ C - 2 <= C - 1
         /\ C - 2 \in Int /\ C - 1 \in Int
    BY <1>1
<1>3. PICK f : f = Derived(date)
    OBVIOUS
<1>4. \A x, y \in Currency : x # y => f[<<x, y>>] = derived(x, y, date, f)
    BY <1>3, LookupIs
<1>5. Hub(a) = a
    BY HubOf
<1>6. ASSUME NEW c \in Currency, a # c, Triangulation[c] = NoCurrency
      PROVE  Outcome(f[<<a, c>>], a, c, date, C - 2)
    <2>1. f[<<a, c>>] = smartLookup(a, c, date, {})
        <3>1. derived(a, c, date, f) = smartLookup(a, c, date, {})
            BY <1>6 DEF derived
        <3> QED BY <1>4, <1>6, <3>1
    <2>2. Hub(c) = c
        BY <1>6, HubOf
    <2>3. Outcome(smartLookup(a, c, date, {}), a, c, date, C - 2)
        BY <1>1, <1>5, <1>6, <2>2, HubsResult
    <2> QED BY <2>1, <2>3
<1>7. CASE Triangulation[b] = NoCurrency
    <2>1. Outcome(f[<<a, b>>], a, b, date, C - 2)
        BY <1>6, <1>7
    <2>2. Outcome(f[<<a, b>>], a, b, date, C - 1)
        BY <1>2, <2>1, ResultLater
    <2> QED BY <1>1, <1>3, <2>2
<1>8. CASE Triangulation[b] # NoCurrency
    <2>1. PICK h \in Currency :
              h = Triangulation[b] /\ Hub(b) = h /\ h # b /\ Triangulation[h] = NoCurrency
        BY <1>8, HubOf
    <2>2. CASE a = h
        <3>1. derived(a, b, date, f) = fetch(a, b, date)
            BY <1>8, <2>1, <2>2 DEF derived, directLookup
        <3>2. Outcome(fetch(a, b, date), a, b, date, C - 1)
            BY <1>2, <1>5, <2>1, <2>2, FromItsHub
        <3> QED BY <1>1, <1>3, <1>4, <3>1, <3>2
    <2>3. CASE a # h
        <3>1. derived(a, b, date, f) = Both(f[<<a, h>>], fetch(h, b, date))
            BY <1>8, <2>1, <2>3 DEF derived, directLookup
        <3>2. Outcome(f[<<a, h>>], a, h, date, C - 2)
            BY <1>6, <2>1, <2>3
        <3>3. Outcome(Both(f[<<a, h>>], fetch(h, b, date)), a, b, date, C - 2 + 1)
            BY <1>2, <1>5, <2>1, <2>3, <3>2, OutOfHub
        <3> QED BY <1>1, <1>2, <1>3, <1>4, <3>1, <3>3
    <2> QED BY <2>2, <2>3
<1> QED BY <1>7, <1>8

LEMMA DerivedResult ==
    ASSUME Agreement, NEW date \in RateDates, NEW a \in Currency, NEW b \in Currency, a # b
    PROVE  Outcome(Derived(date)[<<a, b>>], a, b, date, Cardinality(Currency))
<1>1. PICK C \in Nat : C = Cardinality(Currency) /\ 2 <= C
    BY TwoCurrencies
<1>2. C - 1 \in Nat /\ C - 1 + 1 = C /\ C - 1 <= C /\ C - 1 \in Int /\ C \in Int
    BY <1>1
<1>3. PICK f : f = Derived(date)
    OBVIOUS
<1>4. f[<<a, b>>] = derived(a, b, date, f)
    BY <1>3, LookupIs
<1>5. CASE Triangulation[a] = NoCurrency
    <2>1. Outcome(f[<<a, b>>], a, b, date, C - 1)
        BY <1>1, <1>3, <1>5, FromAHub
    <2>2. Outcome(f[<<a, b>>], a, b, date, C)
        BY <1>2, <2>1, ResultLater
    <2> QED BY <1>1, <1>3, <2>2
<1>6. CASE Triangulation[a] # NoCurrency
    <2>1. PICK h \in Currency :
              h = Triangulation[a] /\ Hub(a) = h /\ h # a /\ Triangulation[h] = NoCurrency /\ Hub(h) = h
        BY <1>6, HubOf
    <2>2. CASE h = b
        <3>1. derived(a, b, date, f) = fetch(a, b, date)
            BY <1>6, <2>1, <2>2 DEF derived, directLookup
        <3>2. Outcome(fetch(a, b, date), a, b, date, C)
            BY <2>1, <2>2, IntoItsHub
        <3> QED BY <1>1, <1>3, <1>4, <3>1, <3>2
    <2>3. CASE h # b
        <3>1. derived(a, b, date, f) = Both(fetch(a, h, date), f[<<h, b>>])
            BY <1>6, <2>1, <2>3 DEF derived, directLookup
        <3>2. Outcome(f[<<h, b>>], h, b, date, C - 1)
            BY <1>1, <1>3, <2>1, <2>3, FromAHub
        <3>3. Outcome(Both(fetch(a, h, date), f[<<h, b>>]), a, b, date, C - 1 + 1)
            BY <1>2, <2>1, <2>3, <3>2, IntoHub
        <3> QED BY <1>1, <1>2, <1>3, <1>4, <3>1, <3>3
    <2> QED BY <2>2, <2>3
<1> QED BY <1>5, <1>6

-----------------------------------------------------------------------------
(***************************************************************************)
(* The two properties.                                                     *)
(***************************************************************************)

\* What a lookup returns, of either type.
Answer(rate, source, target, date, type) ==
    /\ rate # NoRate <=> Conversions(source, target, date, type) # {}
    /\ rate # NoRate =>
          \E s \in Conversions(source, target, date, type) :
              s \in Int /\ Converts(rate, source, target, s, Cardinality(Currency))

LEMMA DirectAnswer ==
    ASSUME Agreement, NEW date \in RateDates, NEW a \in Currency, NEW b \in Currency, a # b
    PROVE  Answer(lookup(a, b, date, "Direct"), a, b, date, "Direct")
<1>1. PICK C \in Nat : C = Cardinality(Currency)
    BY CurrenciesFinite
<1>2. Conversions(a, b, date, "Direct")
          = IF Linked(a, b, date) THEN {Worth(a, b, date)} ELSE {}
    BY Zenon DEF Conversions
<1>3. lookup(a, b, date, "Direct") = fetch(a, b, date)
    BY LookupIs
<1>4. Linked(a, b, date) <=> fetch(a, b, date) # NoRate
    BY WorthOfPair
<1>5. Linked(a, b, date) =>
          Worth(a, b, date) \in Int /\ Converts(fetch(a, b, date), a, b, Worth(a, b, date), C)
    BY DirectResult
<1>6. CASE Linked(a, b, date)
    <2>1. Conversions(a, b, date, "Direct") = {Worth(a, b, date)}
        BY <1>2, <1>6, Zenon
    <2> QED BY <1>1, <1>3, <1>4, <1>5, <1>6, <2>1, Zenon DEF Answer
<1>7. CASE ~Linked(a, b, date)
    <2>1. Conversions(a, b, date, "Direct") = {}
        BY <1>2, <1>7, Zenon
    <2> QED BY <1>3, <1>4, <1>7, <2>1, Zenon DEF Answer
<1> QED BY <1>6, <1>7

LEMMA DerivedAnswer ==
    ASSUME Agreement, NEW date \in RateDates, NEW a \in Currency, NEW b \in Currency, a # b
    PROVE  Answer(lookup(a, b, date, "Derived"), a, b, date, "Derived")
<1>1. PICK rate : rate = lookup(a, b, date, "Derived")
    OBVIOUS
<1>2. Outcome(rate, a, b, date, Cardinality(Currency))
    <2>1. rate = Derived(date)[<<a, b>>]
        BY <1>1, LookupIs
    <2> QED BY <2>1, DerivedResult
<1> DEFINE paths == LinkedPaths(Hub(a), Hub(b), date)
           ready == AtHub(a, date) /\ AtHub(b, date)
           worth(p) == ToHub(a, date) + WorthAlong(p, date) - ToHub(b, date)
<1>3. Conversions(a, b, date, "Derived") = {worth(p) : p \in {q \in paths : ready}}
    <2>1. "Derived" # "Direct"
        OBVIOUS
    <2> QED BY <2>1, Zenon DEF Conversions
<1>4. /\ rate # NoRate <=> ready /\ paths # {}
      /\ rate # NoRate => \E p \in paths, s \in Int :
            s = worth(p) /\ Converts(rate, a, b, s, Cardinality(Currency))
    BY <1>2, Zenon DEF Outcome
<1> HIDE DEF paths, ready, worth
<1>5. Conversions(a, b, date, "Derived") # {} <=> ready /\ paths # {}
    BY <1>3, Zenon
<1>6. ASSUME rate # NoRate
      PROVE  \E s \in Conversions(a, b, date, "Derived") :
                 s \in Int /\ Converts(rate, a, b, s, Cardinality(Currency))
    <2>1. PICK p \in paths, s \in Int :
              s = worth(p) /\ Converts(rate, a, b, s, Cardinality(Currency))
        BY <1>4, <1>6
    <2>2. p \in {q \in paths : ready}
        BY <1>4, <1>6
    <2>3. s \in Conversions(a, b, date, "Derived")
        BY <1>3, <2>1, <2>2, Zenon
    <2> QED BY <2>1, <2>3
<1> QED BY <1>1, <1>4, <1>5, <1>6, Zenon DEF Answer

\* The lookup of a currency's own rate.
LEMMA OwnRate ==
    ASSUME NEW a \in Currency, NEW date, NEW type
    PROVE  /\ lookup(a, a, date, type) = NewRate(a, a, 0)
           /\ Conversions(a, a, date, type) = {0}
           /\ NewRate(a, a, 0) # NoRate
<1>1. lookup(a, a, date, type) = NewRate(a, a, 0)
    BY Zenon DEF lookup
<1>2. Conversions(a, a, date, type) = {0}
    BY Zenon DEF Conversions
<1>3. DOMAIN NewRate(a, a, 0) = Fields
    BY DEF NewRate, Fields
<1>4. NewRate(a, a, 0) # NoRate
    BY <1>3, NotNoRate
<1> QED BY <1>1, <1>2, <1>4

\* Whatever dead ends the search meets first, whatever expired entries precede
\* a valid one and whatever rates were added, a rate is found exactly if valid
\* rates connect the two currencies, each through its triangulation currency
\* (exchangeratemanager.cpp:52-203).
THEOREM RatesFound == RatesSpec => []FoundIfConnected
<1>1. Agreement => FoundIfConnected
    <2> SUFFICES ASSUME Agreement, NEW source \in Currency, NEW target \in Currency,
                        NEW date \in RateDates, NEW type \in Types
                 PROVE  (lookup(source, target, date, type) # NoRate)
                            <=> Conversions(source, target, date, type) # {}
        BY DEF FoundIfConnected
    <2>1. CASE source = target
        <3>1. 0 \in {0}
            OBVIOUS
        <3> QED BY <2>1, <3>1, OwnRate
    <2>2. CASE source # target
        <3>1. type = "Direct" \/ type = "Derived"
            BY DEF Types
        <3>2. Answer(lookup(source, target, date, type), source, target, date, type)
            BY <2>2, <3>1, DirectAnswer, DerivedAnswer
        <3> QED BY <3>2, Zenon DEF Answer
    <2> QED BY <2>1, <2>2
<1> QED BY <1>1, LatestFirst, PTL

\* A rate that a lookup returns, direct, triangulated or chained over any
\* number of others, however they are quoted, makes of an amount what the
\* latest rates make of it, turns it back, and states the same factor
\* (exchangerate.cpp:25-77, exchangeratemanager.hpp:48-50).
THEOREM RatesConvert == RatesSpec => []LatestRatesConvert
<1>1. Agreement => LatestRatesConvert
    <2>1. ASSUME Agreement, NEW source \in Currency, NEW target \in Currency,
                 NEW date \in RateDates, NEW type \in Types,
                 NEW rate, rate = lookup(source, target, date, type), rate # NoRate,
                 NEW got, got = exchange(rate, Unit(source, 0))
          PROVE  /\ got.currency = target
                 /\ got.log \in Conversions(source, target, date, type)
                 /\ exchange(rate, got) = Unit(source, 0)
                 /\ got.log = IF rate.source = source THEN rate.log ELSE -rate.log
        <3>1. PICK C \in Nat : C = Cardinality(Currency) /\ C \in Levels /\ C <= C
            BY CurrenciesFinite
        <3>2. \A r, money : exchange(r, money) = Makes(C, r, money)
            BY <3>1, TableOfLevel, Zenon
        <3>3. CASE source = target
            <4>1. rate = NewRate(source, source, 0) /\ Conversions(source, target, date, type) = {0}
                BY <2>1, <3>3, OwnRate
            <4>2. Makes(C, rate, Unit(source, 0)) = Unit(source, 0)
                BY <3>1, <4>1, SameConverts
            <4>3. got = Unit(source, 0) /\ exchange(rate, got) = Unit(source, 0)
                BY <2>1, <3>2, <4>2
            <4>4. got.currency = source /\ got.log = 0
                BY <4>3, UnitIs
            <4>5. rate.source = source /\ rate.log = 0
                BY <4>1 DEF NewRate
            <4> QED BY <3>3, <4>1, <4>3, <4>4, <4>5
        <3>4. CASE source # target
            <4>1. type = "Direct" \/ type = "Derived"
                BY DEF Types
            <4>2. Answer(rate, source, target, date, type)
                BY <2>1, <3>4, <4>1, DirectAnswer, DerivedAnswer
            <4>3. PICK s \in Conversions(source, target, date, type) :
                      s \in Int /\ Converts(rate, source, target, s, C)
                BY <2>1, <3>1, <4>2, Zenon DEF Answer
            <4>4. /\ Turns(C, rate, source, target, s)
                  /\ rate.log = IF rate.source = source THEN s ELSE -s
                BY <3>1, <4>3, Zenon DEF Converts
            <4>5. \A x \in Int : /\ Makes(C, rate, Unit(source, x)) = Unit(target, x + s)
                                 /\ Makes(C, rate, Unit(target, x)) = Unit(source, x - s)
                BY <4>4, Zenon DEF Turns
            <4>6. 0 + s = s /\ s - s = 0
                BY <4>3
            <4>7. got = Unit(target, s)
                BY <2>1, <3>2, <4>5, <4>6
            <4>8. exchange(rate, got) = Unit(source, 0)
                BY <3>2, <4>3, <4>5, <4>6, <4>7
            <4>9. got.currency = target /\ got.log = s
                BY <4>3, <4>7, UnitIs
            <4>10. s = IF rate.source = source THEN rate.log ELSE -rate.log
                BY <4>3, <4>4
            <4> QED BY <4>3, <4>8, <4>9, <4>10
        <3> QED BY <3>3, <3>4
    <2>2. ASSUME Agreement, NEW source \in Currency, NEW target \in Currency,
                 NEW date \in RateDates, NEW type \in Types
          PROVE  LET rate == lookup(source, target, date, type)
                     unit == [currency |-> source, log |-> 0]
                     got  == exchange(rate, unit)
                 IN  rate # NoRate =>
                       /\ got.currency = target
                       /\ got.log \in Conversions(source, target, date, type)
                       /\ exchange(rate, got) = unit
                       /\ got.log = IF rate.source = source THEN rate.log ELSE -rate.log
        <3>1. PICK rate : rate = lookup(source, target, date, type)
            OBVIOUS
        <3>2. PICK unit : unit = Unit(source, 0) /\ unit = [currency |-> source, log |-> 0]
            BY DEF Unit
        <3>3. PICK got : got = exchange(rate, unit)
            OBVIOUS
        <3>4. rate # NoRate =>
                 /\ got.currency = target
                 /\ got.log \in Conversions(source, target, date, type)
                 /\ exchange(rate, got) = unit
                 /\ got.log = IF rate.source = source THEN rate.log ELSE -rate.log
            BY <2>1, <2>2, <3>1, <3>2, <3>3
        <3> QED BY <3>1, <3>2, <3>3, <3>4, Zenon
    <2> QED BY <2>2, Zenon DEF LatestRatesConvert
<1> QED BY <1>1, LatestFirst, PTL

=============================================================================
