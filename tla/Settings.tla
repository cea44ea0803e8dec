-------------------------------- MODULE Settings --------------------------------
(***************************************************************************)
(* The global settings (ql/settings.hpp, settings.cpp): the evaluation     *)
(* date, which stands for the day of the machine's clock while it is null, *)
(* three flags that change without a notification, and the SavedSettings   *)
(* objects of the scopes that are open.  An action that sets the date      *)
(* notifies; whom it reaches is up to the module that composes this one.   *)
(***************************************************************************)
EXTENDS Integers, Sequences, SequencesExt

CONSTANTS Dates,        \* the dates that clients set
          LastDay,      \* bound on the days that the clock counts
          FlagValues,   \* the values that clients give to each flag
          MaxScopes     \* bound on the nesting of saved settings

NullDate == 0           \* Date()

ASSUME SettingsConstants ==
    /\ Dates \in SUBSET (Nat \ {NullDate}) /\ LastDay \in Nat
    /\ DOMAIN FlagValues =
           {"includeReferenceDateEvents", "includeTodaysCashFlows",
            "enforcesTodaysHistoricFixings"}
    /\ FlagValues["includeReferenceDateEvents"] \subseteq BOOLEAN
    /\ FlagValues["includeTodaysCashFlows"] \subseteq {"unset", "yes", "no"}
    /\ FlagValues["enforcesTodaysHistoricFixings"] \subseteq BOOLEAN
    /\ MaxScopes \in Nat

VARIABLES todaysDate,       \* the clock: Date::todaysDate()
          evaluationDate,   \* the value of the DateProxy
          flags,
          scopes            \* SavedSettings, innermost last

settingsVars == <<todaysDate, evaluationDate, flags, scopes>>

Flags == [includeReferenceDateEvents    : BOOLEAN,
          includeTodaysCashFlows        : {"unset", "yes", "no"},
          enforcesTodaysHistoricFixings : BOOLEAN]

DefaultFlags == [includeReferenceDateEvents    |-> FALSE,
                 includeTodaysCashFlows        |-> "unset",
                 enforcesTodaysHistoricFixings |-> FALSE]

SettingsInit ==
    /\ todaysDate \in Dates
    /\ evaluationDate = NullDate
    /\ flags = DefaultFlags
    /\ scopes = <<>>

\* The conversion of the proxy to a Date, with the clock at a given day.
Resolved(date, clock) == IF date = NullDate THEN clock ELSE date

DateAt(clock) == Resolved(evaluationDate, clock)

CurrentDate == DateAt(todaysDate)

\* The clock strikes midnight; nobody is notified.
Midnight ==
    /\ todaysDate < LastDay
    /\ todaysDate' = todaysDate + 1
    /\ UNCHANGED <<evaluationDate, flags, scopes>>

SetEvaluationDate(d) ==
    /\ evaluationDate' = d
    /\ UNCHANGED <<todaysDate, flags, scopes>>

anchorEvaluationDate ==
    /\ evaluationDate = NullDate
    /\ SetEvaluationDate(todaysDate)

resetEvaluationDate == SetEvaluationDate(NullDate)

\* The flags are references: a client assigns to them, one at a time.
SetFlag(flag, value) ==
    /\ flags' = [flags EXCEPT ![flag] = value]
    /\ UNCHANGED <<todaysDate, evaluationDate, scopes>>

SaveSettings ==
    /\ Len(scopes) < MaxScopes
    /\ scopes' = Append(scopes, [date |-> CurrentDate, flags |-> flags])
    /\ UNCHANGED <<todaysDate, evaluationDate, flags>>

\* fault: the date is restored only if it was set.
KeepsUnset(saved) == evaluationDate = NullDate \/ CurrentDate = saved.date

\* The destructor compares what the date stands for, not how it was set.
KeepsDate(saved) == CurrentDate = saved.date

\* An observer of the date that throws makes the destructor skip the flags.
Restore(saved, thrown) ==
    /\ evaluationDate' = IF KeepsDate(saved) THEN evaluationDate ELSE saved.date
    /\ flags' = IF ~KeepsDate(saved) /\ thrown THEN flags ELSE saved.flags

\* thrown: whether an observer of the date throws, should it be notified.
RestoreSettings(thrown) ==
    /\ scopes # <<>>
    /\ Restore(Last(scopes), thrown)
    /\ scopes' = Front(scopes)
    /\ UNCHANGED todaysDate

=============================================================================
