-------------------------- MODULE InstrumentPricing --------------------------
(***************************************************************************)
(* Instrument (ql/instrument.hpp), a LazyObject that prices itself through *)
(* a PricingEngine, and GenericEngine (ql/pricingengine.hpp), which        *)
(* forwards the changes of the market to the instruments it is set on.     *)
(* Instrument::calculate() puts an expiry test in front of                 *)
(* LazyObject::calculate(), and that test reads the evaluation date.       *)
(*                                                                         *)
(* The engine's arguments and results are reset and written at the start   *)
(* of every calculation and read at its end, so they live within one       *)
(* action and are no variables.                                            *)
(*                                                                         *)
(* One action is one call of a client, with all the update() calls it      *)
(* causes: an engine forwards to its instruments and an instrument lowers  *)
(* its calculated_ flag (LazyCascade has what happens beyond that).        *)
(* Updates may be deferred, so that calls mix with notifications that have *)
(* not been sent.                                                          *)
(***************************************************************************)
EXTENDS Naturals, FiniteSets

CONSTANTS
    Instruments,
    Engines,
    Quotes,         \* what an engine reads of the market
    Bad,            \* a market with which validate() or calculate() throws
    Dates,          \* evaluation dates, as numbers
    Expiry,         \* the date at which each instrument has expired
    DateObservers,  \* instruments registered with the evaluation date
    None,
    Expired         \* the zero result setupExpired() stores

ASSUME PricingAssumption ==
    /\ Dates \subseteq Nat /\ 0 \in Dates /\ Expiry \in [Instruments -> Nat]
    /\ DateObservers \subseteq Instruments
    /\ Instruments \cap Engines = {} /\ None \notin Instruments \cup Engines

VARIABLES
    today,          \* Settings::evaluationDate
    market,         \* the quotes behind each engine
    engine,         \* Instrument::engine_
    calculated,     \* LazyObject::calculated_
    frozen,         \* LazyObject::frozen_
    NPV,            \* the stored results of each instrument
    deferring,      \* disableUpdates(true) is in force
    pending,        \* ObservableSettings::deferredObservers_
    recalculated    \* history: the instrument recalculate() was last called on,
                    \* None once anything else was called

vars == <<today, market, engine, calculated, frozen, NPV, deferring, pending,
          recalculated>>

Init ==
    /\ today = 0
    /\ market \in [Engines -> Quotes]
    /\ engine = [i \in Instruments |-> None]
    /\ calculated = [i \in Instruments |-> FALSE]
    /\ frozen = [i \in Instruments |-> FALSE]
    /\ NPV = [i \in Instruments |-> None]
    /\ deferring = FALSE
    /\ pending = {}
    /\ recalculated = None

-----------------------------------------------------------------------------
\* update() reaches the instruments of S: each has to be calculated again
Lowered(S) == [i \in Instruments |-> calculated[i] /\ i \notin S]

PricedBy(e) == {i \in Instruments : engine[i] = e}

\* the instruments that observers S amount to, engines forwarding to theirs
Reached(S) == (S \cap Instruments) \cup UNION {PricedBy(e) : e \in S \cap Engines}

\* the observers of S are notified, or flagged
Announce(S) ==
    IF deferring
      THEN pending' = pending \cup S /\ UNCHANGED calculated
      ELSE calculated' = Lowered(Reached(S)) /\ UNCHANGED pending

\* the quotes behind engine e change, and e observes them
ChangeMarket(e, q) ==
    /\ q # market[e]
    /\ market' = [market EXCEPT ![e] = q]
    /\ Announce({e})
    /\ recalculated' = None
    /\ UNCHANGED <<today, engine, frozen, NPV, deferring>>

\* Settings::instance().evaluationDate() = d
MoveDate(d) ==
    /\ d # today
    /\ today' = d
    /\ Announce(DateObservers)
    /\ recalculated' = None
    /\ UNCHANGED <<market, engine, frozen, NPV, deferring>>

\* fault: no update() after the engine is set
SetPricingEngineOnly(i, e) ==
    /\ engine' = [engine EXCEPT ![i] = e]
    /\ recalculated' = None
    /\ UNCHANGED <<today, market, calculated, frozen, NPV, deferring, pending>>

\* setPricingEngine(e): unregistering takes i out of the deferred set, update()
\* is then called on i itself
SetPricingEngine(i, e) ==
    /\ engine' = [engine EXCEPT ![i] = e]
    /\ pending' = IF deferring /\ engine[i] # None THEN pending \ {i} ELSE pending
    /\ calculated' = Lowered({i})
    /\ recalculated' = None
    /\ UNCHANGED <<today, market, frozen, NPV, deferring>>

Freeze(i) ==
    /\ ~frozen[i]
    /\ frozen' = [frozen EXCEPT ![i] = TRUE]
    /\ recalculated' = None
    /\ UNCHANGED <<today, market, engine, calculated, NPV, deferring, pending>>

Unfreeze(i) ==
    /\ frozen[i]
    /\ frozen' = [frozen EXCEPT ![i] = FALSE]
    /\ recalculated' = None
    /\ UNCHANGED <<today, market, engine, calculated, NPV, deferring, pending>>

DeferUpdates ==
    /\ ~deferring /\ deferring' = TRUE
    /\ recalculated' = None
    /\ UNCHANGED <<today, market, engine, calculated, frozen, NPV, pending>>

EnableUpdates ==
    /\ deferring /\ deferring' = FALSE
    /\ calculated' = Lowered(Reached(pending))
    /\ pending' = {}
    /\ recalculated' = None
    /\ UNCHANGED <<today, market, engine, frozen, NPV>>

-----------------------------------------------------------------------------
isExpired(i) == today >= Expiry[i]

\* what engine e makes of the instrument in market q
Value(e, q) == [engine |-> e, market |-> q]

\* fault: the argument checks of validate() are missing
NeverThrows(i) == engine[i] = None

\* performCalculations() throws without an engine, or in validate() or
\* calculate() of the engine, before fetchResults() has stored anything
Throws(i) == engine[i] \notin {e \in Engines : market[e] # Bad}

\* fault: the frozen_ flag is not looked at
CalculateAnyway(i, wasCalculated, isFrozen) ==
    \/ /\ isExpired(i)
       /\ NPV' = [NPV EXCEPT ![i] = Expired]
       /\ calculated' = [calculated EXCEPT ![i] = TRUE]
    \/ /\ ~isExpired(i) /\ (wasCalculated \/ Throws(i))
       /\ calculated' = [calculated EXCEPT ![i] = wasCalculated]
       /\ UNCHANGED NPV
    \/ /\ ~isExpired(i) /\ ~wasCalculated /\ ~Throws(i)
       /\ NPV' = [NPV EXCEPT ![i] = Value(engine[i], market[engine[i]])]
       /\ calculated' = [calculated EXCEPT ![i] = TRUE]

\* Instrument::calculate() with the calculated_ and frozen_ flags as given
Calculate(i, wasCalculated, isFrozen) ==
    \/ /\ isExpired(i)
       /\ NPV' = [NPV EXCEPT ![i] = Expired]
       /\ calculated' = [calculated EXCEPT ![i] = TRUE]
    \/ /\ ~isExpired(i) /\ (wasCalculated \/ isFrozen)
       /\ calculated' = [calculated EXCEPT ![i] = wasCalculated]
       /\ UNCHANGED NPV
    \/ /\ ~isExpired(i) /\ ~wasCalculated /\ ~isFrozen /\ ~Throws(i)
       /\ NPV' = [NPV EXCEPT ![i] = Value(engine[i], market[engine[i]])]
       /\ calculated' = [calculated EXCEPT ![i] = TRUE]
    \/ /\ ~isExpired(i) /\ ~wasCalculated /\ ~isFrozen /\ Throws(i)
       /\ calculated' = [calculated EXCEPT ![i] = FALSE]
       /\ UNCHANGED NPV

\* an inspector is called
Inspect(i) ==
    /\ Calculate(i, calculated[i], frozen[i])
    /\ recalculated' = None
    /\ UNCHANGED <<today, market, engine, frozen, deferring, pending>>

\* LazyObject::recalculate(), with the calculate() of Instrument; the frozen_
\* flag it had comes back in either case
Recalculate(i) ==
    /\ Calculate(i, FALSE, FALSE)
    /\ recalculated' = i
    /\ UNCHANGED <<today, market, engine, frozen, deferring, pending>>

-----------------------------------------------------------------------------
Next ==
    \/ \E e \in Engines, q \in Quotes \cup {Bad} : ChangeMarket(e, q)
    \/ \E d \in Dates : MoveDate(d)
    \/ \E i \in Instruments, e \in Engines \cup {None} : SetPricingEngine(i, e)
    \/ \E i \in Instruments : Freeze(i)
    \/ \E i \in Instruments : Unfreeze(i)
    \/ \E i \in Instruments : Inspect(i)
    \/ \E i \in Instruments : Recalculate(i)
    \/ DeferUpdates
    \/ EnableUpdates

Spec == Init /\ [][Next]_vars

-----------------------------------------------------------------------------
Values == [engine : Engines, market : Quotes]

TypeOK ==
    /\ today \in Dates
    /\ market \in [Engines -> Quotes \cup {Bad}]
    /\ engine \in [Instruments -> Engines \cup {None}]
    /\ calculated \in [Instruments -> BOOLEAN]
    /\ frozen \in [Instruments -> BOOLEAN]
    /\ NPV \in [Instruments -> Values \cup {None, Expired}]
    /\ deferring \in BOOLEAN
    /\ pending \subseteq Instruments \cup Engines
    /\ recalculated \in Instruments \cup {None}

\* the result i holds is the one its engine gives now
UpToDate(i) ==
    /\ engine[i] # None
    /\ NPV[i] = Value(engine[i], market[engine[i]])

\* i is due for a deferred notification
Awaited(i) == i \in pending \/ engine[i] \in pending

\* An instrument whose calculated_ flag is up, frozen or not, holds the value its
\* engine gives in the present market unless it has expired, or it is due for a
\* deferred notification: "the lazy object must register itself as observer of
\* such objects for the calculations to be performed again when they change"
\* (lazyobject.hpp:74-81).
ServesCurrentValue ==
    \A i \in Instruments :
        calculated[i] /\ ~isExpired(i) => UpToDate(i) \/ Awaited(i)

\* While an instrument stays frozen its result changes only because it has
\* expired or was recalculated explicitly (instrument.hpp:148-155).
ChangesWhileFrozen(i) ==
    frozen[i] /\ frozen'[i] /\ NPV[i] # None /\ NPV'[i] # NPV[i]
FrozenKeepsResult ==
    [][\A i \in Instruments :
          ChangesWhileFrozen(i) => NPV'[i] = Expired \/ recalculated' = i]_vars
=============================================================================
