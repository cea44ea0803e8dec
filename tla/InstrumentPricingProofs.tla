----------------------- MODULE InstrumentPricingProofs -----------------------
(***************************************************************************)
(* What InstrumentPricing promises for any instruments, engines, markets   *)
(* and dates.  ServesCurrentValue needs every instrument to be registered  *)
(* with the evaluation date; it is inductive together with TypeOK and the  *)
(* fact that nothing is pending while updates are enabled.  AdjointPricing *)
(* implements InstrumentPricing, so that all of it holds there too, and    *)
(* DerivativesCurrent is inductive over the same facts.                    *)
(***************************************************************************)
EXTENDS AdjointPricing, TLAPS

LEMMA TypeInit == Init => TypeOK
<1> SUFFICES ASSUME Init PROVE TypeOK
    OBVIOUS
<1>1. /\ market \in [Engines -> Quotes \cup {Bad}]
      /\ engine \in [Instruments -> Engines \cup {None}]
      /\ NPV \in [Instruments -> Values \cup {None, Expired}]
    BY DEF Init
<1>2. calculated \in [Instruments -> BOOLEAN] /\ frozen \in [Instruments -> BOOLEAN]
    BY DEF Init
<1> QED BY <1>1, <1>2, PricingAssumption DEF Init, TypeOK

\* The flags and results after Instrument::calculate() have their types.
LEMMA CalculateType ==
    ASSUME TypeOK, NEW i \in Instruments, NEW was \in BOOLEAN, NEW ice \in BOOLEAN,
           Calculate(i, was, ice)
    PROVE  /\ calculated' \in [Instruments -> BOOLEAN]
           /\ NPV' \in [Instruments -> Values \cup {None, Expired}]
<1>1. calculated' \in [Instruments -> BOOLEAN]
    BY DEF Calculate, TypeOK
<1>2. ASSUME ~Throws(i) PROVE Value(engine[i], market[engine[i]]) \in Values
    BY <1>2 DEF Throws, TypeOK, Value, Values
<1>3. NPV' \in [Instruments -> Values \cup {None, Expired}]
    BY <1>2 DEF Calculate, TypeOK
<1> QED BY <1>1, <1>3

\* Notifying observers keeps the types.
LEMMA AnnounceType ==
    ASSUME TypeOK, NEW S \in SUBSET (Instruments \cup Engines), Announce(S)
    PROVE  /\ calculated' \in [Instruments -> BOOLEAN]
           /\ pending' \subseteq Instruments \cup Engines
BY DEF Announce, TypeOK, Lowered

\* Every operation keeps the types.
LEMMA TypeStep == TypeOK /\ [Next]_vars => TypeOK'
<1> SUFFICES ASSUME TypeOK, [Next]_vars PROVE TypeOK'
    OBVIOUS
<1>1. ASSUME NEW e \in Engines, NEW q \in Quotes \cup {Bad}, ChangeMarket(e, q)
      PROVE  TypeOK'
    BY <1>1, AnnounceType DEF ChangeMarket, TypeOK
<1>2. ASSUME NEW d \in Dates, MoveDate(d) PROVE TypeOK'
    BY <1>2, AnnounceType, PricingAssumption DEF MoveDate, TypeOK
<1>3. ASSUME NEW i \in Instruments, NEW e \in Engines \cup {None},
             SetPricingEngine(i, e)
      PROVE  TypeOK'
    BY <1>3 DEF SetPricingEngine, TypeOK, Lowered
<1>4. ASSUME NEW i \in Instruments, Freeze(i) PROVE TypeOK'
    BY <1>4 DEF Freeze, TypeOK
<1>5. ASSUME NEW i \in Instruments, Unfreeze(i) PROVE TypeOK'
    BY <1>5 DEF Unfreeze, TypeOK
<1>6. ASSUME NEW i \in Instruments, Inspect(i) PROVE TypeOK'
    <2>1. calculated[i] \in BOOLEAN /\ frozen[i] \in BOOLEAN
        BY DEF TypeOK
    <2> QED BY <1>6, <2>1, CalculateType DEF Inspect, TypeOK
<1>7. ASSUME NEW i \in Instruments, Recalculate(i) PROVE TypeOK'
    BY <1>7, CalculateType DEF Recalculate, TypeOK
<1>8. CASE DeferUpdates
    BY <1>8 DEF DeferUpdates, TypeOK
<1>9. CASE EnableUpdates
    BY <1>9 DEF EnableUpdates, TypeOK, Lowered
<1>10. CASE UNCHANGED vars
    BY <1>10 DEF vars, TypeOK
<1> QED
    BY <1>1, <1>2, <1>3, <1>4, <1>5, <1>6, <1>7, <1>8, <1>9, <1>10 DEF Next

\* The variables have their types.
THEOREM TypeInvariance == Spec => []TypeOK
BY TypeInit, TypeStep, PTL DEF Spec

-----------------------------------------------------------------------------
\* Nothing is pending while updates are enabled.
NothingPending == ~deferring => pending = {}

LEMMA NothingPendingInit == Init => NothingPending
BY DEF Init, NothingPending

LEMMA NothingPendingStep == NothingPending /\ [Next]_vars => NothingPending'
<1> SUFFICES ASSUME NothingPending, [Next]_vars PROVE NothingPending'
    OBVIOUS
<1> USE DEF NothingPending
<1>1. ASSUME NEW S, Announce(S), UNCHANGED deferring PROVE NothingPending'
    BY <1>1 DEF Announce
<1>2. ASSUME NEW e \in Engines, NEW q \in Quotes \cup {Bad}, ChangeMarket(e, q)
      PROVE  NothingPending'
    BY <1>1, <1>2 DEF ChangeMarket
<1>3. ASSUME NEW d \in Dates, MoveDate(d) PROVE NothingPending'
    BY <1>1, <1>3 DEF MoveDate
<1>4. ASSUME NEW i \in Instruments, NEW e \in Engines \cup {None},
             SetPricingEngine(i, e)
      PROVE  NothingPending'
    BY <1>4 DEF SetPricingEngine
<1>5. ASSUME NEW i \in Instruments,
             Freeze(i) \/ Unfreeze(i) \/ Inspect(i) \/ Recalculate(i)
      PROVE  NothingPending'
    BY <1>5 DEF Freeze, Unfreeze, Inspect, Recalculate
<1>6. CASE DeferUpdates \/ EnableUpdates
    BY <1>6 DEF DeferUpdates, EnableUpdates
<1>7. CASE UNCHANGED vars
    BY <1>7 DEF vars
<1> QED BY <1>2, <1>3, <1>4, <1>5, <1>6, <1>7 DEF Next

\* A notification sent or flagged reaches the instruments it is for.
LEMMA AnnounceReaches ==
    ASSUME TypeOK, NEW S \in SUBSET (Instruments \cup Engines), Announce(S),
           engine' = engine,
           NEW i \in Instruments, calculated'[i], ~Awaited(i)'
    PROVE  calculated[i] /\ i \notin S /\ engine[i] \notin S \cap Engines /\ ~Awaited(i)
<1>1. CASE deferring
    BY <1>1 DEF Announce, Awaited
<1>2. CASE ~deferring
    BY <1>2 DEF Announce, Awaited, Lowered, Reached, PricedBy, TypeOK
<1> QED BY <1>1, <1>2

LEMMA ServesInit == Init => ServesCurrentValue
BY DEF Init, ServesCurrentValue

\* A calculation raises the flag of i only with the value of now, or if i has
\* expired, and leaves the other instruments alone.
LEMMA CalculateServes ==
    ASSUME TypeOK, ServesCurrentValue, NEW i \in Instruments,
           NEW was \in BOOLEAN, was => calculated[i], NEW ice \in BOOLEAN,
           Calculate(i, was, ice), UNCHANGED <<today, market, engine, pending>>
    PROVE  ServesCurrentValue'
<1>1. ASSUME NEW j \in Instruments, calculated'[j], ~isExpired(j)'
      PROVE  UpToDate(j)' \/ Awaited(j)'
    <2>1. ~isExpired(j)
        BY <1>1 DEF isExpired
    <2>2. CASE j # i
        <3>1. calculated[j] /\ NPV'[j] = NPV[j]
            BY <1>1, <2>2 DEF Calculate, TypeOK
        <3> QED BY <3>1, <2>1 DEF ServesCurrentValue, UpToDate, Awaited, Value
    <2>3. CASE j = i /\ (was \/ ice)
        <3>1. was /\ NPV' = NPV
            BY <1>1, <2>1, <2>3 DEF Calculate, TypeOK
        <3> QED BY <3>1, <2>1, <2>3 DEF ServesCurrentValue, UpToDate, Awaited, Value
    <2>4. CASE j = i /\ ~was /\ ~ice
        <3>1. /\ ~Throws(i)
              /\ NPV' = [NPV EXCEPT ![i] = Value(engine[i], market[engine[i]])]
            BY <1>1, <2>1, <2>4 DEF Calculate, TypeOK
        <3>2. engine[i] # None
            BY <3>1, PricingAssumption DEF Throws
        <3> QED BY <3>1, <3>2, <2>4 DEF UpToDate, Value, TypeOK
    <2> QED BY <2>2, <2>3, <2>4
<1> QED BY <1>1 DEF ServesCurrentValue

LEMMA ServesStep ==
    ASSUME DateObservers = Instruments
    PROVE  TypeOK /\ NothingPending /\ ServesCurrentValue /\ [Next]_vars
               => ServesCurrentValue'
<1> SUFFICES ASSUME TypeOK, NothingPending, ServesCurrentValue, [Next]_vars
             PROVE  ServesCurrentValue'
    OBVIOUS
<1>1. ASSUME NEW e \in Engines, NEW q \in Quotes \cup {Bad}, ChangeMarket(e, q)
      PROVE  ServesCurrentValue'
    <2>1. ASSUME NEW i \in Instruments, calculated'[i], ~isExpired(i)', ~Awaited(i)'
          PROVE  UpToDate(i)'
        <3>1. calculated[i] /\ engine[i] # e /\ ~Awaited(i)
            BY <1>1, <2>1, AnnounceReaches DEF ChangeMarket
        <3>2. ~isExpired(i)
            BY <1>1, <2>1 DEF ChangeMarket, isExpired
        <3>3. UpToDate(i)
            BY <3>1, <3>2 DEF ServesCurrentValue
        <3>4. engine[i] \in Engines
            BY <3>3 DEF UpToDate, TypeOK
        <3>5. market'[engine[i]] = market[engine[i]] /\ NPV' = NPV /\ engine' = engine
            BY <1>1, <3>1, <3>4 DEF ChangeMarket, TypeOK
        <3> QED BY <3>3, <3>5 DEF UpToDate, Value
    <2> QED BY <2>1 DEF ServesCurrentValue
<1>2. ASSUME NEW d \in Dates, MoveDate(d) PROVE ServesCurrentValue'
    <2>1. ASSUME NEW i \in Instruments, calculated'[i], ~Awaited(i)' PROVE FALSE
        BY <1>2, <2>1, AnnounceReaches DEF MoveDate
    <2> QED BY <2>1 DEF ServesCurrentValue
<1>3. ASSUME NEW i \in Instruments, NEW e \in Engines \cup {None},
             SetPricingEngine(i, e)
      PROVE  ServesCurrentValue'
    <2>1. ASSUME NEW j \in Instruments, calculated'[j], ~isExpired(j)'
          PROVE  UpToDate(j)' \/ Awaited(j)'
        <3>1. j # i /\ calculated[j] /\ ~isExpired(j)
            BY <1>3, <2>1 DEF SetPricingEngine, Lowered, isExpired
        <3>2. engine'[j] = engine[j] /\ NPV' = NPV /\ market' = market
            BY <1>3, <3>1 DEF SetPricingEngine, TypeOK
        <3>3. UpToDate(j) \/ Awaited(j)
            BY <3>1 DEF ServesCurrentValue
        <3>4. CASE UpToDate(j)
            BY <3>2, <3>4 DEF UpToDate, Value
        <3>5. CASE j \in pending
            BY <1>3, <3>1, <3>5 DEF SetPricingEngine, Awaited
        <3>6. CASE engine[j] \in pending
            <4>1. engine[j] # i
                BY PricingAssumption DEF TypeOK
            <4> QED BY <1>3, <3>2, <3>6, <4>1 DEF SetPricingEngine, Awaited
        <3> QED BY <3>3, <3>4, <3>5, <3>6 DEF Awaited
    <2> QED BY <2>1 DEF ServesCurrentValue
<1>4. ASSUME NEW i \in Instruments, Freeze(i) \/ Unfreeze(i)
      PROVE  ServesCurrentValue'
    BY <1>4 DEF Freeze, Unfreeze, ServesCurrentValue, UpToDate, Awaited, isExpired,
                Value
<1>5. ASSUME NEW i \in Instruments, Inspect(i) PROVE ServesCurrentValue'
    <2>1. calculated[i] \in BOOLEAN /\ frozen[i] \in BOOLEAN
        BY DEF TypeOK
    <2> QED BY <1>5, <2>1, CalculateServes DEF Inspect
<1>6. ASSUME NEW i \in Instruments, Recalculate(i) PROVE ServesCurrentValue'
    BY <1>6, CalculateServes DEF Recalculate
<1>7. CASE DeferUpdates
    BY <1>7 DEF DeferUpdates, ServesCurrentValue, UpToDate, Awaited, isExpired, Value
<1>8. CASE EnableUpdates
    <2>1. ASSUME NEW i \in Instruments, calculated'[i], ~isExpired(i)'
          PROVE  UpToDate(i)'
        <3>1. calculated[i] /\ i \notin Reached(pending) /\ ~isExpired(i)
            BY <1>8, <2>1 DEF EnableUpdates, Lowered, isExpired
        <3>2. ~Awaited(i) \/ engine[i] = None
            BY <3>1 DEF Awaited, Reached, PricedBy, TypeOK
        <3>3. ~Awaited(i)
            BY <3>1, <3>2, PricingAssumption DEF Awaited, Reached, TypeOK
        <3> QED BY <1>8, <3>1, <3>3
                DEF ServesCurrentValue, UpToDate, Value, EnableUpdates
    <2> QED BY <2>1 DEF ServesCurrentValue
<1>9. CASE UNCHANGED vars
    BY <1>9 DEF vars, ServesCurrentValue, UpToDate, Awaited, isExpired, Value
<1> QED
    BY <1>1, <1>2, <1>3, <1>4, <1>5, <1>6, <1>7, <1>8, <1>9 DEF Next

\* Instruments that are all registered with the evaluation date never serve a
\* value the market or the date has overtaken, unless a notification is due.
THEOREM CurrentValueServed ==
    ASSUME DateObservers = Instruments
    PROVE  Spec => []ServesCurrentValue
<1>1. TypeOK /\ NothingPending /\ ServesCurrentValue /\ [Next]_vars
          => ServesCurrentValue'
    BY ServesStep
<1> QED BY <1>1, TypeInit, TypeStep, NothingPendingInit, NothingPendingStep,
           ServesInit, PTL DEF Spec

-----------------------------------------------------------------------------
\* A frozen instrument keeps its result until it expires or is recalculated.
THEOREM FrozenKept == Spec => FrozenKeepsResult
<1> DEFINE Kept == \A i \in Instruments :
                     ChangesWhileFrozen(i) => NPV'[i] = Expired \/ recalculated' = i
<1>1. ASSUME TypeOK, [Next]_vars PROVE [Kept]_vars
    <2> SUFFICES ASSUME NEW i \in Instruments, ChangesWhileFrozen(i)
                 PROVE  NPV'[i] = Expired \/ recalculated' = i
        OBVIOUS
    <2>1. NPV' # NPV
        BY DEF ChangesWhileFrozen
    <2>2. PICK j \in Instruments : Inspect(j) \/ Recalculate(j)
        BY <1>1, <2>1 DEF Next, vars, ChangeMarket, MoveDate, SetPricingEngine,
                          Freeze, Unfreeze, DeferUpdates, EnableUpdates
    <2>3. j = i
        BY <2>2, <1>1 DEF Inspect, Recalculate, Calculate, ChangesWhileFrozen, TypeOK
    <2>4. CASE Recalculate(i)
        BY <2>4 DEF Recalculate
    <2>5. CASE Inspect(i)
        BY <2>5, <1>1 DEF Inspect, Calculate, ChangesWhileFrozen, TypeOK
    <2> QED BY <2>2, <2>3, <2>4, <2>5
<1> QED BY <1>1, TypeInvariance, PTL DEF Spec, FrozenKeepsResult

-----------------------------------------------------------------------------
\* The adjoint build does to the instruments what InstrumentPricing allows.
LEMMA StepImplements == [AdjointNext]_adjointVars => [Next]_vars
<1>1. CASE Independent \/ Dependent
    BY <1>1 DEF Independent, Dependent
<1>2. ASSUME NEW e \in Engines, NEW q \in Quotes \cup {Bad}, NEW x \in BOOLEAN,
             SetValue(e, q, x)
      PROVE  Next
    BY <1>2 DEF SetValue, Next
<1>3. ASSUME NEW i \in Instruments, InspectTaped(i) \/ RecalculateTaped(i)
      PROVE  Next
    BY <1>3 DEF InspectTaped, RecalculateTaped, Next
<1>4. ASSUME Untaped PROVE Next
    BY <1>4 DEF Untaped, Next
<1>5. CASE UNCHANGED adjointVars
    BY <1>5 DEF adjointVars
<1> QED BY <1>1, <1>2, <1>3, <1>4, <1>5 DEF AdjointNext

\* AdjointPricing implements InstrumentPricing.
THEOREM AdjointImplements == AdjointSpec => Spec
<1>1. AdjointInit => Init
    BY DEF AdjointInit
<1> QED BY <1>1, StepImplements, PTL DEF AdjointSpec, Spec

\* The flags of the tape have their types.
TapeTyped ==
    /\ taped \in [Engines -> BOOLEAN]
    /\ derived \in [Instruments -> BOOLEAN]

\* A variable is made only while a tape is recording, and none survives it.
OnTape ==
    ~recording => (\A e \in Engines : ~taped[e]) /\ (\A i \in Instruments : ~derived[i])

\* A result the flag vouches for follows its quotes.
Followed ==
    \A i \in Instruments :
        calculated[i] /\ ~isExpired(i) =>
            Awaited(i) \/ (engine[i] # None /\ derived[i] = taped[engine[i]])

LEMMA Differentiates ==
    ASSUME TypeOK, TapeTyped, NEW i \in Instruments, NEW was \in BOOLEAN,
           NEW ice \in BOOLEAN
    PROVE  /\ Differentiable(i, was, ice) \in BOOLEAN
           /\ OnTape /\ ~recording => ~Differentiable(i, was, ice)
<1>1. ~Throws(i) => engine[i] \in Engines
    BY DEF Throws
<1> QED BY <1>1 DEF Differentiable, TapeTyped, OnTape

LEMMA TapeStep ==
    ASSUME TypeOK, TapeTyped, OnTape, [AdjointNext]_adjointVars
    PROVE  TapeTyped' /\ OnTape'
<1> USE DEF TapeTyped, OnTape
<1>1. CASE Independent \/ Dependent
    BY <1>1 DEF Independent, Dependent
<1>2. ASSUME NEW e \in Engines, NEW q \in Quotes \cup {Bad}, NEW x \in BOOLEAN,
             SetValue(e, q, x)
      PROVE  TapeTyped' /\ OnTape'
    BY <1>2 DEF SetValue
<1>3. ASSUME NEW i \in Instruments, InspectTaped(i) PROVE TapeTyped' /\ OnTape'
    <2>1. calculated[i] \in BOOLEAN /\ frozen[i] \in BOOLEAN
        BY DEF TypeOK
    <2>2. /\ Differentiable(i, calculated[i], frozen[i]) \in BOOLEAN
          /\ ~recording => ~Differentiable(i, calculated[i], frozen[i])
        BY <2>1, Differentiates
    <2> QED BY <1>3, <2>2 DEF InspectTaped
<1>4. ASSUME NEW i \in Instruments, RecalculateTaped(i) PROVE TapeTyped' /\ OnTape'
    <2>1. /\ Differentiable(i, FALSE, FALSE) \in BOOLEAN
          /\ ~recording => ~Differentiable(i, FALSE, FALSE)
        BY Differentiates
    <2> QED BY <1>4, <2>1 DEF RecalculateTaped
<1>5. CASE Untaped
    BY <1>5 DEF Untaped, tape
<1>6. CASE UNCHANGED adjointVars
    BY <1>6 DEF adjointVars, tape
<1> QED BY <1>1, <1>2, <1>3, <1>4, <1>5, <1>6 DEF AdjointNext

\* A calculation that raises the flag of i, or leaves it up, stores a variable
\* exactly if the quotes are one; it leaves the other instruments alone.
LEMMA CalculateFollows ==
    ASSUME TypeOK, TapeTyped, Followed, NEW i \in Instruments,
           NEW was \in BOOLEAN, was => calculated[i], NEW ice \in BOOLEAN,
           Calculate(i, was, ice), UNCHANGED <<today, market, engine, pending, taped>>,
           derived' = [derived EXCEPT ![i] = Differentiable(i, was, ice)]
    PROVE  Followed'
<1>1. ASSUME NEW j \in Instruments, calculated'[j], ~isExpired(j)', ~Awaited(j)'
      PROVE  engine[j] # None /\ derived'[j] = taped[engine[j]]
    <2>1. ~isExpired(j) /\ ~Awaited(j)
        BY <1>1 DEF isExpired, Awaited
    <2>2. CASE j # i
        <3>1. calculated[j] /\ derived'[j] = derived[j]
            BY <1>1, <2>2 DEF Calculate, TypeOK, TapeTyped
        <3> QED BY <3>1, <2>1 DEF Followed
    <2>3. CASE j = i /\ (was \/ ice)
        <3>1. was /\ derived'[i] = derived[i]
            BY <1>1, <2>1, <2>3 DEF Calculate, Differentiable, TypeOK, TapeTyped
        <3> QED BY <3>1, <2>1, <2>3 DEF Followed
    <2>4. CASE j = i /\ ~was /\ ~ice
        <3>1. ~Throws(i)
            BY <1>1, <2>1, <2>4 DEF Calculate, TypeOK
        <3>2. engine[i] # None
            BY <3>1, PricingAssumption DEF Throws
        <3>3. derived'[i] = taped[engine[i]]
            BY <2>1, <2>4, <3>1 DEF Differentiable, TapeTyped
        <3> QED BY <2>4, <3>2, <3>3
    <2> QED BY <2>2, <2>3, <2>4
<1> QED BY <1>1 DEF Followed

LEMMA FollowedStep ==
    ASSUME DateObservers = Instruments
    PROVE  TypeOK /\ TapeTyped /\ OnTape /\ NothingPending /\ Followed
               /\ [AdjointNext]_adjointVars => Followed'
<1> SUFFICES ASSUME TypeOK, TapeTyped, OnTape, NothingPending, Followed,
                    [AdjointNext]_adjointVars
             PROVE  Followed'
    OBVIOUS
<1>1. ASSUME UNCHANGED vars, UNCHANGED <<taped, derived>> PROVE Followed'
    BY <1>1 DEF vars, Followed, isExpired, Awaited
<1>2. CASE Independent
    BY <1>1, <1>2 DEF Independent
<1>3. CASE Dependent
    <2>1. ASSUME NEW i \in Instruments, calculated'[i], ~isExpired(i)', ~Awaited(i)'
          PROVE  engine[i] # None /\ derived'[i] = taped'[engine[i]]
        <3>1. calculated[i] /\ ~isExpired(i) /\ ~Awaited(i)
            BY <1>3, <2>1 DEF Dependent, vars, isExpired, Awaited
        <3>2. engine[i] \in Engines
            BY <3>1 DEF Followed, TypeOK
        <3> QED BY <1>3, <3>1, <3>2 DEF Dependent, Followed
    <2> QED BY <1>3, <2>1 DEF Followed, Dependent, vars
<1>4. ASSUME NEW e \in Engines, NEW q \in Quotes \cup {Bad}, NEW x \in BOOLEAN,
             SetValue(e, q, x)
      PROVE  Followed'
    <2> USE <1>4 DEF SetValue, ChangeMarket
    <2>1. ASSUME NEW i \in Instruments, calculated'[i], ~isExpired(i)', ~Awaited(i)'
          PROVE  engine[i] # None /\ derived'[i] = taped'[engine[i]]
        <3>1. calculated[i] /\ engine[i] # e /\ ~Awaited(i)
            BY <2>1, AnnounceReaches
        <3>2. ~isExpired(i)
            BY <2>1 DEF isExpired
        <3>3. engine[i] # None /\ derived[i] = taped[engine[i]]
            BY <3>1, <3>2 DEF Followed
        <3>4. engine[i] \in Engines
            BY <3>3 DEF TypeOK
        <3> QED BY <3>1, <3>3, <3>4 DEF TapeTyped
    <2> QED BY <2>1 DEF Followed
<1>5. ASSUME NEW i \in Instruments, InspectTaped(i) PROVE Followed'
    <2>1. calculated[i] \in BOOLEAN /\ frozen[i] \in BOOLEAN
        BY DEF TypeOK
    <2> QED BY <1>5, <2>1, CalculateFollows DEF InspectTaped, Inspect
<1>6. ASSUME NEW i \in Instruments, RecalculateTaped(i) PROVE Followed'
    BY <1>6, CalculateFollows DEF RecalculateTaped, Recalculate
<1>7. CASE Untaped
    <2>1. taped' = taped /\ derived' = derived
        BY <1>7 DEF Untaped, tape
    <2>2. ASSUME NEW d \in Dates, MoveDate(d) PROVE Followed'
        <3>1. ASSUME NEW i \in Instruments, calculated'[i], ~Awaited(i)' PROVE FALSE
            BY <2>2, <3>1, AnnounceReaches DEF MoveDate
        <3> QED BY <3>1 DEF Followed
    <2>3. ASSUME NEW i \in Instruments, NEW e \in Engines \cup {None},
                 SetPricingEngine(i, e)
          PROVE  Followed'
        <3>1. ASSUME NEW j \in Instruments, calculated'[j], ~isExpired(j)', ~Awaited(j)'
              PROVE  engine'[j] # None /\ derived[j] = taped[engine'[j]]
            <4>1. j # i /\ calculated[j] /\ ~isExpired(j)
                BY <2>3, <3>1 DEF SetPricingEngine, Lowered, isExpired
            <4>2. engine'[j] = engine[j]
                BY <2>3, <4>1 DEF SetPricingEngine, TypeOK
            <4>3. engine[j] # i
                BY PricingAssumption DEF TypeOK
            <4>4. ~Awaited(j)
                BY <2>3, <3>1, <4>1, <4>2, <4>3 DEF SetPricingEngine, Awaited
            <4> QED BY <4>1, <4>2, <4>4 DEF Followed
        <3> QED BY <2>1, <3>1 DEF Followed
    <2>4. ASSUME NEW i \in Instruments, Freeze(i) \/ Unfreeze(i) PROVE Followed'
        BY <2>1, <2>4 DEF Freeze, Unfreeze, Followed, Awaited, isExpired
    <2>5. CASE DeferUpdates
        BY <2>1, <2>5 DEF DeferUpdates, Followed, Awaited, isExpired
    <2>6. CASE EnableUpdates
        <3>1. ASSUME NEW i \in Instruments, calculated'[i], ~isExpired(i)'
              PROVE  engine[i] # None /\ derived[i] = taped[engine[i]]
            <4>1. calculated[i] /\ i \notin Reached(pending) /\ ~isExpired(i)
                BY <2>6, <3>1 DEF EnableUpdates, Lowered, isExpired
            <4>2. ~Awaited(i) \/ engine[i] = None
                BY <4>1 DEF Awaited, Reached, PricedBy, TypeOK
            <4>3. ~Awaited(i)
                BY <4>1, <4>2, PricingAssumption DEF Awaited, Reached, TypeOK
            <4> QED BY <4>1, <4>3 DEF Followed
        <3> QED BY <2>1, <2>6, <3>1 DEF Followed, EnableUpdates
    <2> QED BY <1>7, <2>2, <2>3, <2>4, <2>5, <2>6 DEF Untaped
<1>8. CASE UNCHANGED adjointVars
    BY <1>1, <1>8 DEF adjointVars, tape
<1> QED BY <1>2, <1>3, <1>4, <1>5, <1>6, <1>7, <1>8 DEF AdjointNext

\* Cached results have the derivatives of the quotes they come from, and lose
\* them with the tape.
THEOREM DerivativesKept ==
    ASSUME DateObservers = Instruments
    PROVE  AdjointSpec => []DerivativesCurrent
<1>1. AdjointInit => TypeOK /\ NothingPending /\ TapeTyped /\ OnTape /\ Followed
    BY TypeInit, NothingPendingInit
    DEF AdjointInit, Init, TapeTyped, OnTape, Followed
<1>2. TypeOK /\ NothingPending /\ TapeTyped /\ OnTape /\ Followed
          /\ [AdjointNext]_adjointVars
          => (TypeOK /\ NothingPending /\ TapeTyped /\ OnTape /\ Followed)'
    BY StepImplements, TypeStep, NothingPendingStep, TapeStep, FollowedStep
<1>3. OnTape /\ Followed => DerivativesCurrent
    BY DEF OnTape, Followed, DerivativesCurrent
<1> QED BY <1>1, <1>2, <1>3, PTL DEF AdjointSpec

\* So the adjoint build never serves a value the market has overtaken either.
THEOREM AdjointServesCurrentValue ==
    ASSUME DateObservers = Instruments
    PROVE  AdjointSpec => []ServesCurrentValue
BY AdjointImplements, CurrentValueServed, PTL
=============================================================================
