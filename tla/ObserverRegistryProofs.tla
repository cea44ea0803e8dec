----------------------- MODULE ObserverRegistryProofs -----------------------
(***************************************************************************)
(* What ObserverRegistry promises, for any numbers of observers and        *)
(* observables and any liberties the clients take.                         *)
(*                                                                         *)
(* The argument has three layers.  Registration is symmetric whatever the  *)
(* settings and the loops do.  The settings and the loops keep the shape   *)
(* Orderly whatever is registered.  On the two rest the invariants about   *)
(* the deferred set: Tracked, from which no dangling pointer and no        *)
(* spurious call follow, and NothingForgotten, from which no lost update   *)
(* follows.                                                                *)
(***************************************************************************)
EXTENDS ObserverRegistry, TLAPS

LEMMA TypeInit == Init => TypeOK
<1> SUFFICES ASSUME Init PROVE TypeOK
    OBVIOUS
<1>1. loop \in [kind : {"idle", "notify", "enable"},
               todo : SUBSET Observers, successful : BOOLEAN]
    BY DEF Init, Idle
<1>2. observers \in [Observables -> SUBSET Observers]
    BY DEF Init
<1>3. observables \in [Observers -> SUBSET Observables]
    BY DEF Init
<1>4. untold \in SUBSET (Observers \X Observables)
    BY DEF Init
<1> QED BY <1>1, <1>2, <1>3, <1>4 DEF Init, TypeOK

\* Hook and Unhook keep the type of Observable::observers_, and say who is in it.
LEMMA HookUnhook ==
    ASSUME NEW obs \in [Observables -> SUBSET Observers],
           NEW o \in Observers, NEW S \in SUBSET Observables
    PROVE  /\ Hook(obs, o, S) \in [Observables -> SUBSET Observers]
           /\ Unhook(obs, o, S) \in [Observables -> SUBSET Observers]
           /\ \A s \in Observables, p \in Observers :
                 /\ p \in Hook(obs, o, S)[s] <=> p \in obs[s] \/ (p = o /\ s \in S)
                 /\ p \in Unhook(obs, o, S)[s] <=> p \in obs[s] /\ ~(p = o /\ s \in S)
BY DEF Hook, Unhook

\* The pairs a copy inherits are its own.
LEMMA InheritedPairs ==
    ASSUME NEW o \in Observers, NEW p \in Observers
    PROVE  /\ Inherited(o, p) \in SUBSET (Observers \X Observables)
           /\ \A x \in Inherited(o, p) : <<p, x[2]>> \in untold
<1>1. SUFFICES ASSUME NEW s \in Observables, <<p, s>> \in untold
               PROVE  /\ <<o, s>> \in Observers \X Observables
                      /\ <<p, <<o, s>>[2]>> \in untold
    BY DEF Inherited
<1> QED BY <1>1

\* Every operation keeps the types.
LEMMA TypeStep == TypeOK /\ [Next]_vars => TypeOK'
<1> SUFFICES ASSUME TypeOK, [Next]_vars PROVE TypeOK'
    OBVIOUS
<1> USE DEF registration, settings
<1>1. ASSUME NEW o \in Observers, Create(o) PROVE TypeOK'
    BY <1>1 DEF Create, TypeOK
<1>2. ASSUME NEW o \in Observers, UnregisterWithAll(o) PROVE TypeOK'
    <2>1. observables[o] \in SUBSET Observables
        BY DEF TypeOK
    <2>2. observers' \in [Observables -> SUBSET Observers]
        BY <1>2, <2>1, HookUnhook DEF UnregisterWithAll, TypeOK
    <2> QED BY <1>2, <2>2 DEF UnregisterWithAll, TypeOK, Forget, PairsOf
<1>3. ASSUME NEW o \in Observers, Destroy(o) PROVE TypeOK'
    <2>1. observables[o] \in SUBSET Observables
        BY DEF TypeOK
    <2>2. observers' \in [Observables -> SUBSET Observers]
        BY <1>3, <2>1, HookUnhook DEF Destroy, TypeOK
    <2> QED BY <1>3, <2>2 DEF Destroy, TypeOK, Forget, PairsOf
<1>4. ASSUME NEW o \in Observers, NEW s \in Observables, RegisterWith(o, s)
      PROVE  TypeOK'
    <2>1. observers' \in [Observables -> SUBSET Observers]
        BY <1>4, HookUnhook DEF RegisterWith, TypeOK
    <2> QED BY <1>4, <2>1 DEF RegisterWith, TypeOK
<1>5. ASSUME NEW o \in Observers, NEW s \in Observables, UnregisterWith(o, s)
      PROVE  TypeOK'
    <2>1. observers' \in [Observables -> SUBSET Observers]
        BY <1>5, HookUnhook DEF UnregisterWith, TypeOK
    <2> QED BY <1>5, <2>1 DEF UnregisterWith, TypeOK, Forget
<1>6. ASSUME NEW o \in Observers, NEW p \in Observers,
             RegisterWithObservables(o, p)
      PROVE  TypeOK'
    <2>1. observables[p] \in SUBSET Observables
        BY DEF TypeOK
    <2>2. observers' \in [Observables -> SUBSET Observers]
        BY <1>6, <2>1, HookUnhook DEF RegisterWithObservables, TypeOK
    <2> QED BY <1>6, <2>1, <2>2 DEF RegisterWithObservables, TypeOK
<1>7. ASSUME NEW o \in Observers, NEW p \in Observers, CopyConstruct(o, p)
      PROVE  TypeOK'
    <2>1. observables[p] \in SUBSET Observables
        BY DEF TypeOK
    <2>2. observers' \in [Observables -> SUBSET Observers]
        BY <1>7, <2>1, HookUnhook DEF CopyConstruct, TypeOK
    <2>3. untold' \in SUBSET (Observers \X Observables)
        BY <1>7, InheritedPairs DEF CopyConstruct, TypeOK
    <2> QED BY <1>7, <2>1, <2>2, <2>3 DEF CopyConstruct, TypeOK
<1>8. ASSUME NEW o \in Observers, NEW p \in Observers, Assign(o, p)
      PROVE  TypeOK'
    <2>1. observables[o] \in SUBSET Observables /\ observables[p] \in SUBSET Observables
        BY DEF TypeOK
    <2>2. Unhook(observers, o, observables[o]) \in [Observables -> SUBSET Observers]
        BY <2>1, HookUnhook DEF TypeOK
    <2>3. observers' \in [Observables -> SUBSET Observers]
        BY <1>8, <2>1, <2>2, HookUnhook DEF Assign
    <2>4. untold' \in SUBSET (Observers \X Observables)
        BY <1>8, InheritedPairs DEF Assign, TypeOK
    <2> QED BY <1>8, <2>1, <2>3, <2>4 DEF Assign, TypeOK, Forget
<1>9. ASSUME NEW deferred \in BOOLEAN, DisableUpdates(deferred) PROVE TypeOK'
    BY <1>9 DEF DisableUpdates, TypeOK
<1>10. ASSUME NEW s \in Observables, Defer(s) PROVE TypeOK'
    BY <1>10 DEF Defer, TypeOK
<1>11. ASSUME NEW s \in Observables, NotifyObservers(s) PROVE TypeOK'
    BY <1>11 DEF NotifyObservers, TypeOK
<1>12. CASE EnableUpdates
    BY <1>12 DEF EnableUpdates, TypeOK
<1>13. ASSUME NEW o \in Observers, NEW throws \in BOOLEAN, CallUpdate(o, throws)
       PROVE  TypeOK'
    BY <1>13 DEF CallUpdate, TypeOK, PairsOf
<1>14. CASE EndLoop
    BY <1>14 DEF EndLoop, TypeOK, Idle
<1>15. CASE UNCHANGED vars
    BY <1>15 DEF vars, TypeOK
<1> QED
    BY <1>1, <1>2, <1>3, <1>4, <1>5, <1>6, <1>7, <1>8, <1>9, <1>10, <1>11, <1>12,
       <1>13, <1>14, <1>15 DEF Next

\* The variables have their types.
THEOREM TypeInvariance == Spec => []TypeOK
BY TypeInit, TypeStep, PTL DEF Spec
-----------------------------------------------------------------------------
LEMMA SymmetricInit == Init => RegistrationSymmetric
BY DEF Init, RegistrationSymmetric

\* Every operation keeps the two sides of a registration together.
LEMMA SymmetricStep ==
    TypeOK /\ RegistrationSymmetric /\ [Next]_vars => RegistrationSymmetric'
<1> SUFFICES ASSUME TypeOK, RegistrationSymmetric, [Next]_vars
             PROVE  RegistrationSymmetric'
    OBVIOUS
<1> USE DEF registration, settings
<1>t. /\ observers \in [Observables -> SUBSET Observers]
      /\ observables \in [Observers -> SUBSET Observables]
      /\ \A o \in Observers : observables[o] \in SUBSET Observables
    BY DEF TypeOK
<1>1. ASSUME NEW o \in Observers, Create(o) PROVE RegistrationSymmetric'
    BY <1>1, <1>t DEF Create, RegistrationSymmetric
<1>2. ASSUME NEW o \in Observers, UnregisterWithAll(o) PROVE RegistrationSymmetric'
    <2>1. \A s \in Observables, p \in Observers :
             p \in observers'[s] <=> p \in observers[s] /\ p # o
        BY <1>2, <1>t, HookUnhook DEF UnregisterWithAll, RegistrationSymmetric
    <2>2. \A s \in Observables : observers'[s] \subseteq Observers
        BY <1>2, <1>t, HookUnhook DEF UnregisterWithAll
    <2> QED BY <1>2, <1>t, <2>1, <2>2 DEF UnregisterWithAll, RegistrationSymmetric
<1>3. ASSUME NEW o \in Observers, Destroy(o) PROVE RegistrationSymmetric'
    <2>1. \A s \in Observables, p \in Observers :
             p \in observers'[s] <=> p \in observers[s] /\ p # o
        BY <1>3, <1>t, HookUnhook DEF Destroy, RegistrationSymmetric
    <2>2. \A s \in Observables : observers'[s] \subseteq Observers
        BY <1>3, <1>t, HookUnhook DEF Destroy
    <2> QED BY <1>3, <1>t, <2>1, <2>2 DEF Destroy, RegistrationSymmetric
<1>4. ASSUME NEW o \in Observers, NEW s \in Observables, RegisterWith(o, s)
      PROVE  RegistrationSymmetric'
    <2>1. \A t \in Observables, p \in Observers :
             p \in observers'[t] <=> p \in observers[t] \/ (p = o /\ t = s)
        BY <1>4, <1>t, HookUnhook DEF RegisterWith
    <2>2. \A t \in Observables : observers'[t] \subseteq Observers
        BY <1>4, <1>t, HookUnhook DEF RegisterWith
    <2> QED BY <1>4, <1>t, <2>1, <2>2 DEF RegisterWith, RegistrationSymmetric
<1>5. ASSUME NEW o \in Observers, NEW s \in Observables, UnregisterWith(o, s)
      PROVE  RegistrationSymmetric'
    <2>1. \A t \in Observables, p \in Observers :
             p \in observers'[t] <=> p \in observers[t] /\ ~(p = o /\ t = s)
        BY <1>5, <1>t, HookUnhook DEF UnregisterWith
    <2>2. \A t \in Observables : observers'[t] \subseteq Observers
        BY <1>5, <1>t, HookUnhook DEF UnregisterWith
    <2> QED BY <1>5, <1>t, <2>1, <2>2 DEF UnregisterWith, RegistrationSymmetric
<1>6. ASSUME NEW o \in Observers, NEW q \in Observers,
             RegisterWithObservables(o, q)
      PROVE  RegistrationSymmetric'
    <2>1. \A t \in Observables, p \in Observers :
             p \in observers'[t]
                 <=> p \in observers[t] \/ (p = o /\ t \in observables[q])
        BY <1>6, <1>t, HookUnhook DEF RegisterWithObservables
    <2>2. \A t \in Observables : observers'[t] \subseteq Observers
        BY <1>6, <1>t, HookUnhook DEF RegisterWithObservables
    <2> QED BY <1>6, <1>t, <2>1, <2>2
            DEF RegisterWithObservables, RegistrationSymmetric
<1>7. ASSUME NEW o \in Observers, NEW q \in Observers, CopyConstruct(o, q)
      PROVE  RegistrationSymmetric'
    <2>1. \A t \in Observables, p \in Observers :
             p \in observers'[t]
                 <=> p \in observers[t] \/ (p = o /\ t \in observables[q])
        BY <1>7, <1>t, HookUnhook DEF CopyConstruct
    <2>2. \A t \in Observables : observers'[t] \subseteq Observers
        BY <1>7, <1>t, HookUnhook DEF CopyConstruct
    <2> QED BY <1>7, <1>t, <2>1, <2>2 DEF CopyConstruct, RegistrationSymmetric
<1>8. ASSUME NEW o \in Observers, NEW q \in Observers, Assign(o, q)
      PROVE  RegistrationSymmetric'
    <2> DEFINE left == Unhook(observers, o, observables[o])
    <2>1. /\ left \in [Observables -> SUBSET Observers]
          /\ \A t \in Observables, p \in Observers :
                p \in left[t] <=> p \in observers[t] /\ p # o
        BY <1>t, HookUnhook DEF RegistrationSymmetric
    <2>2. observers' = Hook(left, o, observables[q])
        BY <1>8 DEF Assign
    <2> HIDE DEF left
    <2>3. \A t \in Observables, p \in Observers :
             p \in observers'[t]
                 <=> (p \in observers[t] /\ p # o) \/ (p = o /\ t \in observables[q])
        BY <1>t, <2>1, <2>2, HookUnhook
    <2>4. \A t \in Observables : observers'[t] \subseteq Observers
        BY <1>t, <2>1, <2>2, HookUnhook
    <2> QED BY <1>8, <1>t, <2>3, <2>4 DEF Assign, RegistrationSymmetric
<1>9. ASSUME NEW deferred \in BOOLEAN, DisableUpdates(deferred)
      PROVE  RegistrationSymmetric'
    BY <1>9 DEF DisableUpdates, RegistrationSymmetric
<1>10. ASSUME NEW s \in Observables, Defer(s) PROVE RegistrationSymmetric'
    BY <1>10 DEF Defer, RegistrationSymmetric
<1>11. ASSUME NEW s \in Observables, NotifyObservers(s) PROVE RegistrationSymmetric'
    BY <1>11 DEF NotifyObservers, RegistrationSymmetric
<1>12. CASE EnableUpdates
    BY <1>12 DEF EnableUpdates, RegistrationSymmetric
<1>13. ASSUME NEW o \in Observers, NEW throws \in BOOLEAN, CallUpdate(o, throws)
       PROVE  RegistrationSymmetric'
    BY <1>13 DEF CallUpdate, RegistrationSymmetric
<1>14. CASE EndLoop
    BY <1>14 DEF EndLoop, RegistrationSymmetric
<1>15. CASE UNCHANGED vars
    BY <1>15 DEF vars, RegistrationSymmetric
<1> QED
    BY <1>1, <1>2, <1>3, <1>4, <1>5, <1>6, <1>7, <1>8, <1>9, <1>10, <1>11, <1>12,
       <1>13, <1>14, <1>15 DEF Next

\* The observers an observable calls and the observables an observer watches
\* always agree, and no observable holds a pointer to a destroyed observer.
THEOREM RegistrationIsSymmetric == Spec => []RegistrationSymmetric
BY TypeInit, TypeStep, SymmetricInit, SymmetricStep, PTL DEF Spec

-----------------------------------------------------------------------------
\* The shape of the settings and of the running loop, whatever is registered.
Orderly ==
    /\ Quiet => loop.todo = {}
    /\ updatesEnabled => ~updatesDeferred
    /\ Quiet /\ updatesEnabled => deferredObservers = {}
    /\ loop.kind = "notify" => deferredObservers = {}
    /\ ~Quiet => updatesEnabled

LEMMA OrderlyInit == Init => Orderly
BY DEF Init, Orderly, Quiet, Idle

LEMMA OrderlyStep == TypeOK /\ Orderly /\ [Next]_vars => Orderly'
<1> SUFFICES ASSUME TypeOK, Orderly, [Next]_vars PROVE Orderly'
    OBVIOUS
<1> USE DEF registration, settings, Orderly, Quiet
<1>1. ASSUME NEW o \in Observers, Create(o) PROVE Orderly'
    BY <1>1 DEF Create
<1>2. ASSUME NEW o \in Observers, UnregisterWithAll(o) PROVE Orderly'
    BY <1>2 DEF UnregisterWithAll, Forget
<1>3. ASSUME NEW o \in Observers, Destroy(o) PROVE Orderly'
    BY <1>3 DEF Destroy, Forget
<1>4. ASSUME NEW o \in Observers, NEW s \in Observables, RegisterWith(o, s)
      PROVE  Orderly'
    BY <1>4 DEF RegisterWith
<1>5. ASSUME NEW o \in Observers, NEW s \in Observables, UnregisterWith(o, s)
      PROVE  Orderly'
    BY <1>5 DEF UnregisterWith, Forget
<1>6. ASSUME NEW o \in Observers, NEW p \in Observers,
             RegisterWithObservables(o, p)
      PROVE  Orderly'
    BY <1>6 DEF RegisterWithObservables
<1>7. ASSUME NEW o \in Observers, NEW p \in Observers, CopyConstruct(o, p)
      PROVE  Orderly'
    BY <1>7 DEF CopyConstruct
<1>8. ASSUME NEW o \in Observers, NEW p \in Observers, Assign(o, p)
      PROVE  Orderly'
    BY <1>8 DEF Assign, Forget
<1>9. ASSUME NEW deferred \in BOOLEAN, DisableUpdates(deferred) PROVE Orderly'
    BY <1>9 DEF DisableUpdates
<1>10. ASSUME NEW s \in Observables, Defer(s) PROVE Orderly'
    BY <1>10 DEF Defer
<1>11. ASSUME NEW s \in Observables, NotifyObservers(s) PROVE Orderly'
    BY <1>11 DEF NotifyObservers
<1>12. CASE EnableUpdates
    BY <1>12 DEF EnableUpdates
<1>13. ASSUME NEW o \in Observers, NEW throws \in BOOLEAN, CallUpdate(o, throws)
       PROVE  Orderly'
    BY <1>13 DEF CallUpdate, TypeOK
<1>14. CASE EndLoop
    BY <1>14 DEF EndLoop, Idle, TypeOK
<1>15. CASE UNCHANGED vars
    BY <1>15 DEF vars
<1> QED
    BY <1>1, <1>2, <1>3, <1>4, <1>5, <1>6, <1>7, <1>8, <1>9, <1>10, <1>11, <1>12,
       <1>13, <1>14, <1>15 DEF Next
-----------------------------------------------------------------------------
\* As long as deferred updates are not turned into disabled ones: whoever is in
\* the deferred set or in the loop is constructed, is registered with something,
\* and leaves the set before it is destroyed.
Tracked ==
    /\ deferredObservers \subseteq alive
    /\ loop.todo \subseteq alive
    /\ Quiet /\ deferredObservers # {} => updatesDeferred
    /\ \A o \in deferredObservers : observables[o] # {}

LEMMA TrackedInit == Init => Tracked
BY DEF Init, Tracked, Quiet, Idle

LEMMA TrackedStep ==
    ASSUME "downgrade" \notin Liberties
    PROVE  TypeOK /\ RegistrationSymmetric /\ Orderly /\ Tracked /\ [Next]_vars
               => Tracked'
<1> SUFFICES ASSUME TypeOK, RegistrationSymmetric, Orderly, Tracked, [Next]_vars
             PROVE  Tracked'
    OBVIOUS
<1> USE DEF registration, settings, Orderly, Quiet, Tracked
<1>1. ASSUME NEW o \in Observers, Create(o)
      PROVE  Tracked'
    BY <1>1 DEF Create, TypeOK
<1>2. ASSUME NEW o \in Observers, UnregisterWithAll(o)
      PROVE  Tracked'
    BY <1>2 DEF UnregisterWithAll, TypeOK, Forget
<1>3. ASSUME NEW o \in Observers, Destroy(o)
      PROVE  Tracked'
    BY <1>3 DEF Destroy, TypeOK, Forget
<1>4. ASSUME NEW o \in Observers, NEW s \in Observables, RegisterWith(o, s)
      PROVE  Tracked'
    BY <1>4 DEF RegisterWith, TypeOK
<1>5. ASSUME NEW o \in Observers, NEW s \in Observables, UnregisterWith(o, s)
      PROVE  Tracked'
    BY <1>5 DEF UnregisterWith, TypeOK, Forget
<1>6. ASSUME NEW o \in Observers, NEW p \in Observers,
             RegisterWithObservables(o, p)
      PROVE  Tracked'
    BY <1>6 DEF RegisterWithObservables, TypeOK
<1>7. ASSUME NEW o \in Observers, NEW p \in Observers, CopyConstruct(o, p)
      PROVE  Tracked'
    BY <1>7 DEF CopyConstruct, TypeOK
<1>8. ASSUME NEW o \in Observers, NEW p \in Observers, Assign(o, p)
      PROVE  Tracked'
    BY <1>8 DEF Assign, TypeOK, Forget
<1>9. ASSUME NEW deferred \in BOOLEAN, DisableUpdates(deferred)
      PROVE  Tracked'
    BY <1>9 DEF DisableUpdates
<1>10. ASSUME NEW s \in Observables, Defer(s)
      PROVE  Tracked'
    BY <1>10 DEF Defer, TypeOK, RegistrationSymmetric
<1>11. ASSUME NEW s \in Observables, NotifyObservers(s)
      PROVE  Tracked'
    BY <1>11 DEF NotifyObservers, TypeOK, RegistrationSymmetric
<1>12. CASE EnableUpdates
    BY <1>12 DEF EnableUpdates
<1>13. ASSUME NEW o \in Observers, NEW throws \in BOOLEAN, CallUpdate(o, throws)
      PROVE  Tracked'
    BY <1>13 DEF CallUpdate, TypeOK
<1>14. CASE EndLoop
    BY <1>14 DEF EndLoop, Idle, TypeOK
<1>15. CASE UNCHANGED vars
    BY <1>15 DEF vars
<1> QED
    BY <1>1, <1>2, <1>3, <1>4, <1>5, <1>6, <1>7, <1>8, <1>9, <1>10, <1>11, <1>12,
       <1>13, <1>14, <1>15 DEF Next

\* No pointer to a destroyed observer waits to be called.
THEOREM NothingDangles == Spec => []NoDanglingDeferred
<1>1. CASE "downgrade" \in Liberties
    <2>1. NoDanglingDeferred
        BY <1>1 DEF NoDanglingDeferred
    <2> QED BY <2>1, PTL
<1>2. CASE "downgrade" \notin Liberties
    <2>1. TypeOK /\ RegistrationSymmetric /\ Orderly /\ Tracked /\ [Next]_vars
              => Tracked'
        BY <1>2, TrackedStep
    <2>2. Tracked => NoDanglingDeferred
        BY DEF Tracked, NoDanglingDeferred
    <2> QED BY <2>1, <2>2, TypeInit, TypeStep, SymmetricInit, SymmetricStep,
               OrderlyInit, OrderlyStep, TrackedInit, PTL DEF Spec
<1> QED BY <1>1, <1>2

\* The invariant behind NoSpuriousUpdate, with its assumption taken out.
EachOwed ==
    \A o \in StillToBeCalled : \E s \in Observables : <<o, s>> \in untold

LEMMA EachOwedInit == Init => EachOwed
BY DEF Init, EachOwed, StillToBeCalled, Quiet, Idle

LEMMA EachOwedStep ==
    ASSUME "downgrade" \notin Liberties
    PROVE  TypeOK /\ Orderly /\ Tracked /\ EachOwed /\ [Next]_vars => EachOwed'
<1> SUFFICES ASSUME TypeOK, Orderly, Tracked, EachOwed, [Next]_vars
             PROVE  EachOwed'
    OBVIOUS
<1> USE DEF registration, settings, Orderly, Quiet, Tracked, EachOwed,
            StillToBeCalled
<1>1. ASSUME NEW o \in Observers, Create(o)
      PROVE  EachOwed'
    BY <1>1 DEF Create
<1>2. ASSUME NEW o \in Observers, UnregisterWithAll(o)
      PROVE  EachOwed'
    BY <1>2 DEF UnregisterWithAll, Forget, PairsOf, TypeOK
<1>3. ASSUME NEW o \in Observers, Destroy(o)
      PROVE  EachOwed'
    BY <1>3 DEF Destroy, Forget, PairsOf, TypeOK
<1>4. ASSUME NEW o \in Observers, NEW s \in Observables, RegisterWith(o, s)
      PROVE  EachOwed'
    BY <1>4 DEF RegisterWith
<1>5. ASSUME NEW o \in Observers, NEW s \in Observables, UnregisterWith(o, s)
      PROVE  EachOwed'
    BY <1>5 DEF UnregisterWith, Forget, TypeOK
<1>6. ASSUME NEW o \in Observers, NEW p \in Observers,
             RegisterWithObservables(o, p)
      PROVE  EachOwed'
    BY <1>6 DEF RegisterWithObservables
<1>7. ASSUME NEW o \in Observers, NEW p \in Observers, CopyConstruct(o, p)
      PROVE  EachOwed'
    BY <1>7 DEF CopyConstruct
<1>8. ASSUME NEW o \in Observers, NEW p \in Observers, Assign(o, p)
      PROVE  EachOwed'
    BY <1>8 DEF Assign, Forget, PairsOf, TypeOK
<1>9. ASSUME NEW deferred \in BOOLEAN, DisableUpdates(deferred)
      PROVE  EachOwed'
    BY <1>9 DEF DisableUpdates
<1>10. ASSUME NEW s \in Observables, Defer(s)
      PROVE  EachOwed'
    BY <1>10 DEF Defer, TypeOK
<1>11. ASSUME NEW s \in Observables, NotifyObservers(s)
      PROVE  EachOwed'
    BY <1>11 DEF NotifyObservers, TypeOK
<1>12. CASE EnableUpdates
    BY <1>12 DEF EnableUpdates, TypeOK
<1>13. ASSUME NEW o \in Observers, NEW throws \in BOOLEAN, CallUpdate(o, throws)
      PROVE  EachOwed'
    BY <1>13 DEF CallUpdate, PairsOf, TypeOK
<1>14. CASE EndLoop
    BY <1>14 DEF EndLoop, Idle, TypeOK
<1>15. CASE UNCHANGED vars
    BY <1>15 DEF vars
<1> QED
    BY <1>1, <1>2, <1>3, <1>4, <1>5, <1>6, <1>7, <1>8, <1>9, <1>10, <1>11, <1>12,
       <1>13, <1>14, <1>15 DEF Next

\* Nobody is called who has nothing to hear.
THEOREM NothingSpurious == Spec => []NoSpuriousUpdate
<1>1. CASE "downgrade" \in Liberties
    <2>1. NoSpuriousUpdate
        BY <1>1 DEF NoSpuriousUpdate
    <2> QED BY <2>1, PTL
<1>2. CASE "downgrade" \notin Liberties
    <2>1. TypeOK /\ RegistrationSymmetric /\ Orderly /\ Tracked /\ [Next]_vars
              => Tracked'
        BY <1>2, TrackedStep
    <2>2. TypeOK /\ Orderly /\ Tracked /\ EachOwed /\ [Next]_vars => EachOwed'
        BY <1>2, EachOwedStep
    <2>3. EachOwed => NoSpuriousUpdate
        BY DEF EachOwed, NoSpuriousUpdate
    <2> QED BY <2>1, <2>2, <2>3, TypeInit, TypeStep, SymmetricInit, SymmetricStep,
               OrderlyInit, OrderlyStep, TrackedInit, EachOwedInit, PTL DEF Spec
<1> QED BY <1>1, <1>2

-----------------------------------------------------------------------------
LEMMA NothingForgottenInit == Init => NothingForgotten
BY DEF Init, NothingForgotten

\* While no client detaches or copies an observer with updates outstanding,
\* every operation keeps whoever is owed a notification where it will be called.
LEMMA NothingForgottenStep ==
    ASSUME "detach" \notin Liberties, "copy" \notin Liberties
    PROVE  TypeOK /\ Orderly /\ NothingForgotten /\ [Next]_vars
               => NothingForgotten'
<1> SUFFICES ASSUME TypeOK, Orderly, NothingForgotten, [Next]_vars
             PROVE  NothingForgotten'
    OBVIOUS
<1> USE DEF registration, settings, Orderly, Quiet, NothingForgotten,
            StillToBeCalled
<1>a. Quiet /\ updatesEnabled => untold = {}
    OBVIOUS
<1>1. ASSUME NEW o \in Observers, Create(o)
      PROVE  NothingForgotten'
    BY <1>1 DEF Create
<1>2. ASSUME NEW o \in Observers, UnregisterWithAll(o)
      PROVE  NothingForgotten'
    BY <1>2 DEF UnregisterWithAll, Forget, MayDetach, TypeOK
<1>3. ASSUME NEW o \in Observers, Destroy(o)
      PROVE  NothingForgotten'
    BY <1>3 DEF Destroy, Forget, PairsOf, TypeOK
<1>4. ASSUME NEW o \in Observers, NEW s \in Observables, RegisterWith(o, s)
      PROVE  NothingForgotten'
    BY <1>4 DEF RegisterWith
<1>5. ASSUME NEW o \in Observers, NEW s \in Observables, UnregisterWith(o, s)
      PROVE  NothingForgotten'
    BY <1>5 DEF UnregisterWith, Forget, MayDetach, TypeOK
<1>6. ASSUME NEW o \in Observers, NEW p \in Observers,
             RegisterWithObservables(o, p)
      PROVE  NothingForgotten'
    BY <1>6 DEF RegisterWithObservables
<1>7. ASSUME NEW o \in Observers, NEW p \in Observers, CopyConstruct(o, p)
      PROVE  NothingForgotten'
    BY <1>7, <1>a DEF CopyConstruct, MayCopy, Inherited
<1>8. ASSUME NEW o \in Observers, NEW p \in Observers, Assign(o, p)
      PROVE  NothingForgotten'
    BY <1>8, <1>a DEF Assign, MayCopy, Inherited, PairsOf
<1>9. ASSUME NEW deferred \in BOOLEAN, DisableUpdates(deferred)
      PROVE  NothingForgotten'
    BY <1>9 DEF DisableUpdates
<1>10. ASSUME NEW s \in Observables, Defer(s)
      PROVE  NothingForgotten'
    BY <1>10 DEF Defer, TypeOK
<1>11. ASSUME NEW s \in Observables, NotifyObservers(s)
      PROVE  NothingForgotten'
    BY <1>11, <1>a DEF NotifyObservers, TypeOK
<1>12. CASE EnableUpdates
    BY <1>12 DEF EnableUpdates, TypeOK
<1>13. ASSUME NEW o \in Observers, NEW throws \in BOOLEAN, CallUpdate(o, throws)
      PROVE  NothingForgotten'
    BY <1>13 DEF CallUpdate, PairsOf, TypeOK
<1>14. CASE EndLoop
    BY <1>14 DEF EndLoop, Idle, TypeOK
<1>15. CASE UNCHANGED vars
    BY <1>15 DEF vars
<1> QED
    BY <1>1, <1>2, <1>3, <1>4, <1>5, <1>6, <1>7, <1>8, <1>9, <1>10, <1>11, <1>12,
       <1>13, <1>14, <1>15 DEF Next

\* No notification that was deferred is lost.
THEOREM NothingLost == Spec => []NoLostUpdate
<1>1. CASE "detach" \in Liberties \/ "copy" \in Liberties
    <2>1. NoLostUpdate
        BY <1>1 DEF NoLostUpdate
    <2> QED BY <2>1, PTL
<1>2. CASE "detach" \notin Liberties /\ "copy" \notin Liberties
    <2>1. TypeOK /\ Orderly /\ NothingForgotten /\ [Next]_vars => NothingForgotten'
        BY <1>2, NothingForgottenStep
    <2>2. NothingForgotten => NoLostUpdate
        BY DEF NoLostUpdate
    <2> QED BY <2>1, <2>2, TypeInit, TypeStep, OrderlyInit, OrderlyStep,
               NothingForgottenInit, PTL DEF Spec
<1> QED BY <1>1, <1>2

\* When updates are enabled and no loop runs, nobody is owed a notification and
\* nobody is left in the deferred set.
THEOREM AllTold == Spec => []AllToldWhenEnabled
<1>1. Orderly /\ NoLostUpdate => AllToldWhenEnabled
    BY DEF Orderly, NoLostUpdate, NothingForgotten, StillToBeCalled,
           AllToldWhenEnabled
<1> QED BY <1>1, NothingLost, TypeInit, TypeStep, OrderlyInit, OrderlyStep, PTL
        DEF Spec
=============================================================================
