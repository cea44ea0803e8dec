----------------------------- MODULE LazyCascade -----------------------------
(***************************************************************************)
(* What happens between a change of a quote and the last observer that     *)
(* hears of it: SimpleQuote, Handle::Link, LazyObject and the two loops of *)
(* ql/patterns/observable.cpp that call update(), as one machine with an   *)
(* explicit call stack.  The observers of an object are called in no       *)
(* particular order (boost::unordered_set), a calculation reads its inputs *)
(* in no particular order, and exceptions unwind the stack frame by frame. *)
(*                                                                         *)
(* Nodes: Quotes hold a value; Links forward to whoever holds a copy of    *)
(* the handle; Lazies are LazyObjects that register with what they read;   *)
(* Eagers are non-lazy observers, whose update() recomputes on the spot.   *)
(* A result is the function from the inputs to what was read from them, so *)
(* two results are equal exactly when they come from the same market.      *)
(***************************************************************************)
EXTENDS Naturals, Sequences, FiniteSets

CONSTANTS
    Quotes, Links, Lazies, Eagers,  \* the nodes, by kind
    Inputs,     \* what each lazy or eager node reads and is registered with
    Targets,    \* what each link may point to, None for an empty handle
    Values,     \* the values each quote takes, Null if it can be invalid
    Null,       \* Null<Real>(): reading an invalid quote throws
    None,       \* no result, no target
    Freezable   \* bound: the lazy objects that clients freeze

Computed == Lazies \cup Eagers

ASSUME TopologyAssumption ==
    /\ Inputs \in [Computed -> SUBSET (Quotes \cup Links \cup Lazies)]
    /\ Targets \in [Links -> SUBSET (Quotes \cup Lazies \cup {None})]
    /\ \A h \in Links : Targets[h] # {}
    /\ DOMAIN Values = Quotes
    /\ \A q \in Quotes : \E v \in Values[q] : v # Null
    /\ Freezable \subseteq Lazies
    /\ Lazies \cap Eagers = {} /\ Links \cap Computed = {}
    /\ Quotes \cap (Lazies \cup Links) = {} /\ None \notin Quotes \cup Lazies

VARIABLES
    quote,        \* SimpleQuote::value_
    target,       \* Handle::Link::h_
    calculated,   \* LazyObject::calculated_
    frozen,       \* LazyObject::frozen_
    result,       \* the results performCalculations() stored last
    deferring,    \* disableUpdates(true) is in force
    pending,      \* ObservableSettings::deferredObservers_
    stack,        \* the frames of the call in progress, innermost first
    raising       \* an exception is propagating

vars == <<quote, target, calculated, frozen, result, deferring, pending,
          stack, raising>>
market == <<quote, target>>
updates == <<deferring, pending>>

AtRest == stack = <<>> /\ ~raising

Init ==
    /\ quote = [q \in Quotes |-> CHOOSE v \in Values[q] : v # Null]
    /\ target = [h \in Links |-> CHOOSE t \in Targets[h] : TRUE]
    /\ calculated = [l \in Lazies |-> FALSE]
    /\ frozen = [l \in Lazies |-> FALSE]
    /\ result = [n \in Computed |-> None]
    /\ deferring = FALSE
    /\ pending = {}
    /\ stack = <<>>
    /\ raising = FALSE

-----------------------------------------------------------------------------
\* fault: a link notifies what it points to as well
ObserversOfBothEnds(s) ==
    {n \in Computed : s \in Inputs[n]} \cup {h \in Links : target[h] = s}
    \cup (IF s \in Links THEN {target[s]} ELSE {})

\* observers_ of node s
ObserversOf(s) ==
    {n \in Computed : s \in Inputs[n]} \cup {h \in Links : target[h] = s}

NotifyFrame(s) ==
    [op |-> "notify", todo |-> ObserversOf(s), successful |-> TRUE]
EnableFrame(S) ==
    [op |-> "enable", todo |-> S, successful |-> TRUE]
CalculateFrame(n) ==
    [op |-> "calculate", of |-> n, todo |-> Inputs[n],
     got |-> [i \in Inputs[n] |-> None]]
RecalculateFrame(l) ==
    [op |-> "recalculate", of |-> l, wasFrozen |-> frozen[l],
     notified |-> FALSE, failed |-> FALSE]

Top == Head(stack)
Running(op) == stack # <<>> /\ Top.op = op

\* notifyObservers() of s called with the frames of under below it
Notify(s, under) ==
    IF deferring
      THEN /\ pending' = pending \cup ObserversOf(s)
           /\ stack' = under
      ELSE /\ pending' = pending
           /\ stack' = IF ObserversOf(s) = {} THEN under
                       ELSE <<NotifyFrame(s)>> \o under

-----------------------------------------------------------------------------
\* SimpleQuote::setValue and reset
SetValue(q, v) ==
    /\ AtRest /\ v # quote[q]
    /\ quote' = [quote EXCEPT ![q] = v]
    /\ Notify(q, <<>>)
    /\ UNCHANGED <<target, calculated, frozen, result, deferring, raising>>

\* RelinkableHandle::linkTo. Unregistering from the old target takes the link
\* out of the deferred set; its own observers are notified instead.
LinkTo(h, t) ==
    /\ AtRest /\ t # target[h]
    /\ target' = [target EXCEPT ![h] = t]
    /\ IF deferring
         THEN /\ pending' = (IF target[h] = None THEN pending ELSE pending \ {h})
                             \cup ObserversOf(h)
              /\ stack' = <<>>
         ELSE Notify(h, <<>>)
    /\ UNCHANGED <<quote, calculated, frozen, result, deferring, raising>>

\* fault: only the calculated_ flag is looked at
CachedUnlessLowered(j) == calculated[j]

\* calculate() returns at once and the results stored last are read
Cached(j) == calculated[j] \/ frozen[j]

\* an inspector of lazy object l, such as NPV(): calculate() and no more
Calculate(l) ==
    /\ AtRest /\ ~Cached(l)
    /\ calculated' = [calculated EXCEPT ![l] = TRUE]
    /\ stack' = <<CalculateFrame(l)>>
    /\ UNCHANGED <<market, frozen, result, updates, raising>>

\* the owner of eager observer e has it compute for the first time
Start(e) ==
    /\ AtRest /\ result[e] = None
    /\ stack' = <<CalculateFrame(e)>>
    /\ UNCHANGED <<market, calculated, frozen, result, updates, raising>>

Recalculate(l) ==
    /\ AtRest
    /\ calculated' = [calculated EXCEPT ![l] = TRUE]
    /\ frozen' = [frozen EXCEPT ![l] = FALSE]
    /\ stack' = <<CalculateFrame(l), RecalculateFrame(l)>>
    /\ UNCHANGED <<market, result, updates, raising>>

Freeze(l) ==
    /\ AtRest /\ ~frozen[l] /\ l \in Freezable
    /\ frozen' = [frozen EXCEPT ![l] = TRUE]
    /\ UNCHANGED <<market, calculated, result, updates, stack, raising>>

\* fault: nobody hears that the object is no longer frozen
UnfreezeSilently(l) ==
    /\ AtRest /\ frozen[l]
    /\ frozen' = [frozen EXCEPT ![l] = FALSE]
    /\ UNCHANGED <<market, calculated, result, updates, stack, raising>>

Unfreeze(l) ==
    /\ AtRest /\ frozen[l]
    /\ frozen' = [frozen EXCEPT ![l] = FALSE]
    /\ Notify(l, <<>>)
    /\ UNCHANGED <<market, calculated, result, deferring, raising>>

DeferUpdates ==
    /\ AtRest /\ ~deferring
    /\ deferring' = TRUE
    /\ UNCHANGED <<market, calculated, frozen, result, pending, stack, raising>>

EnableUpdates ==
    /\ AtRest /\ deferring
    /\ deferring' = FALSE
    /\ stack' = IF pending = {} THEN <<>> ELSE <<EnableFrame(pending)>>
    /\ UNCHANGED <<market, calculated, frozen, result, pending, raising>>

\* an exception has left the outermost call, and the client handles it
Catch ==
    /\ stack = <<>> /\ raising
    /\ raising' = FALSE
    /\ UNCHANGED <<market, calculated, frozen, result, updates, stack>>

-----------------------------------------------------------------------------
\* what input i leads to: through a link, its target
Deref(i) == IF i \in Links THEN target[i] ELSE i

\* reading throws: an invalid quote, an empty handle
Unreadable(j) == j = None \/ (j \in Quotes /\ quote[j] = Null)

Got(i, v) == <<[Top EXCEPT !.todo = @ \ {i}, !.got[i] = v]>> \o Tail(stack)

\* performCalculations() reads an input that holds its value ready
ReadInput(i) ==
    LET j == Deref(i) IN
    /\ ~Unreadable(j)
    /\ \/ j \in Quotes /\ stack' = Got(i, quote[j])
       \/ /\ j \in Lazies
          /\ Cached(j)
          /\ stack' = Got(i, result[j])
    /\ UNCHANGED <<market, calculated, frozen, result, updates, raising>>

\* ... one that has to be calculated first
DescendInto(i) ==
    LET j == Deref(i) IN
    /\ j \in Lazies /\ ~Cached(j)
    /\ calculated' = [calculated EXCEPT ![j] = TRUE]
    /\ stack' = <<CalculateFrame(j)>> \o stack
    /\ UNCHANGED <<market, frozen, result, updates, raising>>

\* ... or one that cannot be read
FailOn(i) ==
    /\ Unreadable(Deref(i))
    /\ raising' = TRUE
    /\ UNCHANGED <<market, calculated, frozen, result, updates, stack>>

PerformCalculations ==
    /\ Running("calculate") /\ ~raising
    /\ \E i \in Top.todo : ReadInput(i) \/ DescendInto(i) \/ FailOn(i)

StoreResult ==
    /\ Running("calculate") /\ ~raising /\ Top.todo = {}
    /\ result' = [result EXCEPT ![Top.of] = Top.got]
    /\ stack' = Tail(stack)
    /\ UNCHANGED <<market, calculated, frozen, updates, raising>>

\* fault: the catch block is missing
AbandonCalculationOnly ==
    /\ Running("calculate") /\ raising
    /\ stack' = Tail(stack)
    /\ UNCHANGED <<market, calculated, frozen, result, updates, raising>>

\* the catch block of calculate(); an eager update() has none
AbandonCalculation ==
    /\ Running("calculate") /\ raising
    /\ calculated' = IF Top.of \in Lazies
                       THEN [calculated EXCEPT ![Top.of] = FALSE]
                       ELSE calculated
    /\ stack' = Tail(stack)
    /\ UNCHANGED <<market, frozen, result, updates, raising>>

-----------------------------------------------------------------------------
Looping == Running("notify") \/ Running("enable")
\* fault: the iterator is not advanced
CalledAgain(m) == stack

\* the rest of the loop once m was called
Called(m) == <<[Top EXCEPT !.todo = @ \ {m}]>> \o Tail(stack)

\* LazyObject::update(): forwards only the first time, and not when frozen
UpdateLazy(m) ==
    /\ m \in Lazies
    /\ calculated' = [calculated EXCEPT ![m] = FALSE]
    /\ IF calculated[m] /\ ~frozen[m]
         THEN Notify(m, Called(m))
         ELSE stack' = Called(m) /\ UNCHANGED pending
    /\ UNCHANGED <<market, frozen, result, deferring, raising>>

\* Handle::Link::update()
UpdateLink(m) ==
    /\ m \in Links
    /\ Notify(m, Called(m))
    /\ UNCHANGED <<market, calculated, frozen, result, deferring, raising>>

\* a non-lazy observer recomputes what it shows
UpdateEager(m) ==
    /\ m \in Eagers
    /\ stack' = <<CalculateFrame(m)>> \o Called(m)
    /\ UNCHANGED <<market, calculated, frozen, result, updates, raising>>

CallUpdate ==
    /\ Looping /\ ~raising
    /\ \E m \in Top.todo : UpdateLazy(m) \/ UpdateLink(m) \/ UpdateEager(m)

\* an exception that left update() is noted and the loop goes on
NoteFailure ==
    /\ Looping /\ raising
    /\ stack' = <<[Top EXCEPT !.successful = FALSE]>> \o Tail(stack)
    /\ raising' = FALSE
    /\ UNCHANGED <<market, calculated, frozen, result, updates>>

\* fault: the exception is thrown before the set is cleared
EndLoopUnlessFailed ==
    /\ Looping /\ ~raising /\ Top.todo = {}
    /\ pending' = IF Top.op = "enable" /\ Top.successful THEN {} ELSE pending
    /\ raising' = ~Top.successful
    /\ stack' = Tail(stack)
    /\ UNCHANGED <<market, calculated, frozen, result, deferring>>

EndLoop ==
    /\ Looping /\ ~raising /\ Top.todo = {}
    /\ pending' = IF Top.op = "enable" THEN {} ELSE pending
    /\ raising' = ~Top.successful
    /\ stack' = Tail(stack)
    /\ UNCHANGED <<market, calculated, frozen, result, deferring>>

-----------------------------------------------------------------------------
\* recalculate() after its call of calculate(), with or without an exception
Refreeze ==
    /\ Running("recalculate") /\ ~Top.notified
    /\ frozen' = [frozen EXCEPT ![Top.of] = Top.wasFrozen]
    /\ Notify(Top.of, <<[Top EXCEPT !.notified = TRUE, !.failed = raising]>>
                        \o Tail(stack))
    /\ raising' = FALSE
    /\ UNCHANGED <<market, calculated, result, deferring>>

EndRecalculate ==
    /\ Running("recalculate") /\ Top.notified
    /\ raising' = (raising \/ Top.failed)
    /\ stack' = Tail(stack)
    /\ UNCHANGED <<market, calculated, frozen, result, updates>>

-----------------------------------------------------------------------------
\* one step of the call in progress
Step ==
    \/ PerformCalculations \/ StoreResult \/ AbandonCalculation
    \/ CallUpdate \/ NoteFailure \/ EndLoop
    \/ Refreeze \/ EndRecalculate \/ Catch

\* what a client of the library calls
Client ==
    \/ \E q \in Quotes : \E v \in Values[q] : SetValue(q, v)
    \/ \E h \in Links : \E t \in Targets[h] : LinkTo(h, t)
    \/ \E l \in Lazies : Calculate(l) \/ Recalculate(l) \/ Freeze(l) \/ Unfreeze(l)
    \/ \E e \in Eagers : Start(e)
    \/ DeferUpdates
    \/ EnableUpdates

Next == Step \/ Client

\* A call in progress runs to its end; clients need never call.
Spec == Init /\ [][Next]_vars /\ WF_vars(Step)

-----------------------------------------------------------------------------
Frames ==
    [op : {"notify", "enable"}, todo : SUBSET (Computed \cup Links),
     successful : BOOLEAN]
    \cup [op : {"recalculate"}, of : Lazies, wasFrozen : BOOLEAN,
          notified : BOOLEAN, failed : BOOLEAN]

TypeOK ==
    /\ \A q \in Quotes : quote[q] \in Values[q]
    /\ \A h \in Links : target[h] \in Targets[h]
    /\ calculated \in [Lazies -> BOOLEAN]
    /\ frozen \in [Lazies -> BOOLEAN]
    /\ DOMAIN result = Computed
    /\ \A n \in Computed : result[n] = None \/ DOMAIN result[n] = Inputs[n]
    /\ deferring \in BOOLEAN /\ raising \in BOOLEAN
    /\ pending \subseteq Computed \cup Links
    /\ \A k \in DOMAIN stack :
          \/ stack[k] \in Frames
          \/ /\ stack[k].op = "calculate" /\ stack[k].of \in Computed
             /\ stack[k].todo \subseteq Inputs[stack[k].of]
             /\ DOMAIN stack[k].got = Inputs[stack[k].of]

\* what reading input i would give now
Reading(i) ==
    LET j == Deref(i) IN
    IF Unreadable(j) THEN None
    ELSE IF j \in Quotes THEN quote[j] ELSE result[j]

\* the stored result of n is the one its inputs would give now
UpToDate(n) ==
    /\ result[n] = [i \in Inputs[n] |-> Reading(i)]
    /\ \A i \in Inputs[n] :
          LET j == Deref(i) IN j \in Lazies => Cached(j)

\* a deferred notification will reach n
Awaited(n) == n \in pending \/ Inputs[n] \cap Links \cap pending # {}

\* Between two calls of a client, a lazy object that would serve its cached
\* result serves what a fresh calculation would give, whatever failed, was
\* relinked, frozen or recalculated before (lazyobject.hpp:102-156); while
\* updates are deferred, it does or it is due for a notification.
CacheCoherent ==
    AtRest => \A l \in Lazies :
        calculated[l] /\ ~frozen[l] => UpToDate(l) \/ Awaited(l)

\* Between two calls, a non-lazy observer whose inputs can be read shows what
\* they hold: no order of notification leaves it with obsolete data
\* (lazyobject.hpp:105-108), nor does a failure it recovered from.
EagerUpToDate ==
    AtRest => \A n \in Eagers :
        result[n] # None /\ (\A i \in Inputs[n] : ~Unreadable(Deref(i)))
            => UpToDate(n) \/ Awaited(n)

\* No deferred notification outlives enableUpdates(), not even when observers
\* throw (observable.cpp:37-53).
NothingPendingWhenEnabled == AtRest /\ ~deferring => pending = {}

\* A frozen object keeps its result through every call but recalculate(), which
\* lifts the freeze meanwhile (lazyobject.hpp:61-65).
FrozenResultKept ==
    [][\A l \in Lazies : frozen[l] /\ frozen'[l] => result'[l] = result[l]]_vars

\* Every call returns: notifications forwarded by links and lazy objects, and
\* the calculations non-lazy observers start meanwhile, come to an end
\* (lazyobject.hpp:105-109).
CallsReturn == (stack # <<>>) ~> (stack = <<>>)
=============================================================================
