-------------------------- MODULE ObserverRegistry --------------------------
(***************************************************************************)
(* Observers, observables and the ObservableSettings singleton of          *)
(* ql/patterns/observable.hpp (the build without                           *)
(* QL_ENABLE_THREAD_SAFE_OBSERVER_PATTERN).                                *)
(*                                                                         *)
(* Registration is kept twice: an Observable holds raw Observer pointers   *)
(* and an Observer holds shared pointers to its Observables.  The          *)
(* singleton holds raw pointers too, to the observers whose notification   *)
(* was deferred.  Every public operation is one action; the two loops that *)
(* call the virtual update() are unrolled, one call per step, and a call   *)
(* may throw.  Here update() is what the class comment asks it to be, a    *)
(* flag being raised; LazyCascade models the update() methods that forward *)
(* the notification.                                                       *)
(***************************************************************************)
EXTENDS Naturals, FiniteSets

CONSTANTS
    Observers,      \* addresses at which an Observer may live
    Observables,    \* observables, kept alive by the shared pointers to them
    Liberties       \* what clients do while updates are disabled, see below

(***************************************************************************)
(* "detach":    unregister (or assign to) an observer while its            *)
(*              notifications are deferred                                 *)
(* "copy":      copy an observer while updates are disabled                *)
(* "downgrade": call disableUpdates(false) while updates are deferred      *)
(* The code forbids none of them; the properties that need one to be       *)
(* absent say so.                                                          *)
(***************************************************************************)
ASSUME LibertiesAssumption == Liberties \subseteq {"detach", "copy", "downgrade"}

VARIABLES
    observers,          \* Observable::observers_, one set per observable
    observables,        \* Observer::observables_, one set per observer
    alive,              \* the observers that are constructed and not destroyed
    updatesEnabled,     \* ObservableSettings::updatesEnabled_
    updatesDeferred,    \* ObservableSettings::updatesDeferred_
    deferredObservers,  \* ObservableSettings::deferredObservers_
    loop,               \* the notification loop that is running, if any
    thrown,             \* whether the last loop ended in QL_ENSURE's exception
    untold              \* history: <<o, s>> when o's state predates a change
                        \* that s announced and o must still hear of

registration == <<observers, observables, alive>>
settings == <<updatesEnabled, updatesDeferred>>
vars == <<observers, observables, alive, updatesEnabled, updatesDeferred,
          deferredObservers, loop, thrown, untold>>

Idle == [kind |-> "idle", todo |-> {}, successful |-> TRUE]

TypeOK ==
    /\ observers \in [Observables -> SUBSET Observers]
    /\ observables \in [Observers -> SUBSET Observables]
    /\ alive \in SUBSET Observers
    /\ updatesEnabled \in BOOLEAN
    /\ updatesDeferred \in BOOLEAN
    /\ deferredObservers \in SUBSET Observers
    /\ loop \in [kind : {"idle", "notify", "enable"},
                 todo : SUBSET Observers, successful : BOOLEAN]
    /\ thrown \in BOOLEAN
    /\ untold \in SUBSET (Observers \X Observables)

Init ==
    /\ observers = [s \in Observables |-> {}]
    /\ observables = [o \in Observers |-> {}]
    /\ alive = {}
    /\ updatesEnabled = TRUE
    /\ updatesDeferred = FALSE
    /\ deferredObservers = {}
    /\ loop = Idle
    /\ thrown = FALSE
    /\ untold = {}

-----------------------------------------------------------------------------
\* Client code runs when no notification loop does.
Quiet == loop.kind = "idle"

MayDetach == "detach" \in Liberties \/ ~updatesDeferred
MayCopy == "copy" \in Liberties \/ updatesEnabled

\* registerObserver(o) called on every observable of S
Hook(obs, o, S) ==
    [s \in Observables |-> IF s \in S THEN obs[s] \cup {o} ELSE obs[s]]

\* fault: the observable loses its whole set of observers
UnhookEverybody(obs, o, S) == [s \in Observables \ S |-> obs[s]]

\* fault: the observer forgets the observable, the observable keeps its pointer
UnhookNobody(obs, o, S) == obs

\* unregisterObserver(o) called on every observable of S: the registration ...
Unhook(obs, o, S) ==
    [s \in Observables |-> IF s \in S THEN obs[s] \ {o} ELSE obs[s]]

\* fault: the deferred set keeps its pointer
ForgetNobody(o, S) == deferredObservers

\* ... and the entry of o in the set of deferred observers, whichever
\* observable put it there
Forget(o, S) ==
    IF updatesDeferred /\ S # {} THEN deferredObservers \ {o}
                                 ELSE deferredObservers

PairsOf(o) == {o} \X Observables

\* what a copy of p made at o has not heard of: what p has not
Inherited(o, p) == {<<o, s>> : s \in {t \in Observables : <<p, t>> \in untold}}

-----------------------------------------------------------------------------
Create(o) ==
    /\ Quiet /\ o \notin alive
    /\ alive' = alive \cup {o}
    /\ observables' = [observables EXCEPT ![o] = {}]
    /\ UNCHANGED <<observers, settings, deferredObservers, loop, thrown, untold>>

RegisterWith(o, s) ==
    /\ Quiet /\ o \in alive
    /\ observers' = Hook(observers, o, {s})
    /\ observables' = [observables EXCEPT ![o] = @ \cup {s}]
    /\ UNCHANGED <<alive, settings, deferredObservers, loop, thrown, untold>>

RegisterWithObservables(o, p) ==
    /\ Quiet /\ o \in alive /\ p \in alive
    /\ observers' = Hook(observers, o, observables[p])
    /\ observables' = [observables EXCEPT ![o] = @ \cup observables[p]]
    /\ UNCHANGED <<alive, settings, deferredObservers, loop, thrown, untold>>

UnregisterWith(o, s) ==
    /\ Quiet /\ o \in alive /\ MayDetach
    /\ observers' = Unhook(observers, o, {s})
    /\ observables' = [observables EXCEPT ![o] = @ \ {s}]
    /\ deferredObservers' = Forget(o, {s})
    /\ untold' = untold \ {<<o, s>>}
    /\ UNCHANGED <<alive, settings, loop, thrown>>

UnregisterWithAll(o) ==
    /\ Quiet /\ o \in alive /\ MayDetach
    /\ observers' = Unhook(observers, o, observables[o])
    /\ observables' = [observables EXCEPT ![o] = {}]
    /\ deferredObservers' = Forget(o, observables[o])
    /\ untold' = untold \ PairsOf(o)
    /\ UNCHANGED <<alive, settings, loop, thrown>>

Destroy(o) ==
    /\ Quiet /\ o \in alive
    /\ alive' = alive \ {o}
    /\ observers' = Unhook(observers, o, observables[o])
    /\ observables' = [observables EXCEPT ![o] = {}]
    /\ deferredObservers' = Forget(o, observables[o])
    /\ untold' = untold \ PairsOf(o)
    /\ UNCHANGED <<settings, loop, thrown>>

\* Observer(const Observer&): o is constructed as a copy of p
CopyConstruct(o, p) ==
    /\ Quiet /\ o \notin alive /\ p \in alive /\ MayCopy
    /\ alive' = alive \cup {o}
    /\ observers' = Hook(observers, o, observables[p])
    /\ observables' = [observables EXCEPT ![o] = observables[p]]
    /\ untold' = untold \cup Inherited(o, p)
    /\ UNCHANGED <<settings, deferredObservers, loop, thrown>>

\* o = p, both constructed; o and p may be the same object
Assign(o, p) ==
    /\ Quiet /\ o \in alive /\ p \in alive /\ MayDetach /\ MayCopy
    /\ observers' = Hook(Unhook(observers, o, observables[o]), o, observables[p])
    /\ observables' = [observables EXCEPT ![o] = observables[p]]
    /\ deferredObservers' = Forget(o, observables[o])
    /\ untold' = (untold \ PairsOf(o)) \cup Inherited(o, p)
    /\ UNCHANGED <<alive, settings, loop, thrown>>

-----------------------------------------------------------------------------
DisableUpdates(deferred) ==
    /\ Quiet
    /\ "downgrade" \in Liberties \/ deferred \/ ~updatesDeferred
    /\ updatesEnabled' = FALSE
    /\ updatesDeferred' = deferred
    /\ UNCHANGED <<registration, deferredObservers, loop, thrown, untold>>

\* fault: the set is assigned where it should be added to
DeferOnlyLast(s) ==
    /\ Quiet /\ ~updatesEnabled
    /\ deferredObservers' = IF updatesDeferred THEN observers[s]
                                             ELSE deferredObservers
    /\ untold' = IF updatesDeferred
                   THEN untold \cup (observers[s] \X {s})
                   ELSE untold
    /\ UNCHANGED <<registration, settings, loop, thrown>>

\* notifyObservers() while updates are disabled: flagged for later if they are
\* only deferred, dropped otherwise
Defer(s) ==
    /\ Quiet /\ ~updatesEnabled
    /\ deferredObservers' = IF updatesDeferred
                              THEN deferredObservers \cup observers[s]
                              ELSE deferredObservers
    /\ untold' = IF updatesDeferred
                   THEN untold \cup (observers[s] \X {s})
                   ELSE untold
    /\ UNCHANGED <<registration, settings, loop, thrown>>

\* notifyObservers() while updates are enabled: the loop over observers_ starts
NotifyObservers(s) ==
    /\ Quiet /\ updatesEnabled /\ observers[s] # {}
    /\ loop' = [kind |-> "notify", todo |-> observers[s], successful |-> TRUE]
    /\ untold' = untold \cup (observers[s] \X {s})
    /\ UNCHANGED <<registration, settings, deferredObservers, thrown>>

\* enableUpdates(): the loop over deferredObservers_ starts if there are any
EnableUpdates ==
    /\ Quiet
    /\ updatesEnabled' = TRUE
    /\ updatesDeferred' = FALSE
    /\ loop' = IF deferredObservers = {} THEN loop
               ELSE [kind |-> "enable", todo |-> deferredObservers,
                     successful |-> TRUE]
    /\ UNCHANGED <<registration, deferredObservers, thrown, untold>>

\* one (*i)->update() of the running loop; an exception is caught and noted
CallUpdate(o, throws) ==
    /\ o \in loop.todo
    /\ loop' = [loop EXCEPT !.todo = @ \ {o}, !.successful = @ /\ ~throws]
    /\ untold' = untold \ PairsOf(o)
    /\ UNCHANGED <<registration, settings, deferredObservers, thrown>>

\* fault: the first exception ends the loop
EndLoopAtFailure ==
    /\ ~Quiet /\ (loop.todo = {} \/ ~loop.successful)
    /\ loop' = Idle
    /\ deferredObservers' = IF loop.kind = "enable" THEN {} ELSE deferredObservers
    /\ thrown' = ~loop.successful
    /\ UNCHANGED <<registration, settings, untold>>

\* fault: the deferred set is not cleared
EndLoopOnly ==
    /\ ~Quiet /\ loop.todo = {}
    /\ loop' = Idle
    /\ thrown' = ~loop.successful
    /\ UNCHANGED <<registration, settings, deferredObservers, untold>>

\* the loop is over: enableUpdates clears the set, then either one may throw
EndLoop ==
    /\ ~Quiet /\ loop.todo = {}
    /\ loop' = Idle
    /\ deferredObservers' = IF loop.kind = "enable" THEN {} ELSE deferredObservers
    /\ thrown' = ~loop.successful
    /\ UNCHANGED <<registration, settings, untold>>

-----------------------------------------------------------------------------
Next ==
    \/ \E o \in Observers : Create(o)
    \/ \E o \in Observers : UnregisterWithAll(o)
    \/ \E o \in Observers : Destroy(o)
    \/ \E o \in Observers, s \in Observables : RegisterWith(o, s)
    \/ \E o \in Observers, s \in Observables : UnregisterWith(o, s)
    \/ \E o, p \in Observers : RegisterWithObservables(o, p)
    \/ \E o, p \in Observers : CopyConstruct(o, p)
    \/ \E o, p \in Observers : Assign(o, p)
    \/ \E deferred \in BOOLEAN : DisableUpdates(deferred)
    \/ \E s \in Observables : Defer(s)
    \/ \E s \in Observables : NotifyObservers(s)
    \/ EnableUpdates
    \/ \E o \in Observers, throws \in BOOLEAN : CallUpdate(o, throws)
    \/ EndLoop

Spec == Init /\ [][Next]_vars

-----------------------------------------------------------------------------
\* The two sides of a registration agree, and no observable holds a pointer to
\* a destroyed observer: ~Observer, operator= and the copy constructor each
\* repair both sides (observable.hpp:193-243).
RegistrationSymmetric ==
    /\ \A o \in Observers, s \in Observables :
          o \in observers[s] <=> s \in observables[o]
    /\ \A s \in Observables : observers[s] \subseteq alive

\* No raw pointer to a destroyed observer waits in deferredObservers_, nor in
\* the loop that calls through it (observable.cpp:37-40), as long as deferred
\* updates are never turned into disabled ones.
NoDanglingDeferred ==
    "downgrade" \notin Liberties =>
        deferredObservers \subseteq alive /\ loop.todo \subseteq alive

\* An observer whose observable changed while updates were deferred, and that
\* is still registered with it, is in the set enableUpdates() goes through
\* (observable.cpp:59-61), or in what is left of the running loop.
StillToBeCalled == IF Quiet THEN deferredObservers ELSE loop.todo
NothingForgotten == \A p \in untold : p[1] \in StillToBeCalled
NoLostUpdate ==
    "detach" \notin Liberties /\ "copy" \notin Liberties => NothingForgotten

\* When updates are enabled and no loop runs, nobody is owed a notification and
\* nobody waits in the deferred set, also when some update() threw
\* (observable.cpp:37-53): a failing observer costs the others nothing.
AllToldWhenEnabled ==
    "detach" \notin Liberties /\ "copy" \notin Liberties =>
        (Quiet /\ updatesEnabled => untold = {} /\ deferredObservers = {})

\* Whoever is about to be called has something to hear: enableUpdates() calls
\* nobody whose observables were all left or never changed since.
NoSpuriousUpdate ==
    "downgrade" \notin Liberties =>
        \A o \in StillToBeCalled : \E s \in Observables : <<o, s>> \in untold
=============================================================================
