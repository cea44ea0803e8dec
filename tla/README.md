# Verification of QuantLibAdjoint's core

QuantLibAdjoint is QuantLib with `Real` replaced by a taped number. Most of it is
numerical code; what holds it together is a small set of stateful parts: objects
that observe each other, compute lazily, cache, are frozen, fail and recover, follow
a date and a clock, and that several threads or processes may drive. This directory
models those parts in TLA+, checks them with TLC on small instances and proves the
central facts with TLAPS. Paths are relative to `ql/` or to the repository;
`observable.hpp:186` is `ql/patterns/observable.hpp`, line 186.

## 1. The system

| Part | State it keeps | Operations | Talks to |
|---|---|---|---|
| Observer registry (`patterns/observable.*`) | each `Observable` a set of raw `Observer*`; each `Observer` a set of `shared_ptr<Observable>`; the singleton `ObservableSettings` two flags and the deferred `Observer*` | register, unregister, copy, assign, destroy, notify, disable/defer/enable updates | calls the virtual `update()` of observers |
| The same, thread-safe build (`QL_ENABLE_THREAD_SAFE_OBSERVER_PATTERN`) | a proxy per observer with `active_` and a mutex, a signal per observable, an atomic `updatesType_` and a mutex in the settings | the same, from several threads, and `registerWithObservables` | signal, weak and shared pointers |
| Lazy objects, handles, quotes (`lazyobject.hpp`, `handle.hpp`, `quotes/`) | `calculated_`, `frozen_`, the results; what a handle's link points to; the quote's value | `calculate`, `recalculate`, `freeze`, `unfreeze`, `update`; `linkTo`; `setValue` | forward notifications, pull results |
| Instruments and engines (`instrument.hpp`, `pricingengine.hpp`) | the engine, the stored `NPV_`; arguments and results inside the engine, shared | `setPricingEngine`, `calculate` with its expiry test, inspectors | engine `update()`, evaluation date |
| Adjoint tape (`cl::tape_double`, CppAD under `dependencies/`) | the tape being recorded; which stored numbers are variables on it | `Independent`, `tape_function`; every assignment of a `Real` | quotes and cached results carry variables |
| Settings (`settings.*`) | evaluation date (null: it floats with the clock), three flags, the stack of `SavedSettings` | set, anchor, reset; save and restore | the date notifies, the flags do not |
| Term structures (`termstructure.*`, `yieldtermstructure.*`) | the cached reference date and `updated_`; the jump dates set for it | `referenceDate`, `update` | observe the date, are observed by index and engine |
| Indexes and fixings (`index.*`, `indexmanager.*`) | the history of fixings and its notifier, by name | `addFixings`, `clearFixings`, `fixing` | notify the index, which tells its coupons |
| Cash flows (`cashflow.cpp`, `event.cpp`, `iborcoupon.cpp`) | nothing but dates | `hasOccurred`, `indexFixing` | settings, index, curve |
| Calendars (`time/calendar.*`) | added and removed holidays, shared by all objects of a market | add, remove; `adjust`, `advance`, `businessDaysBetween` | nobody is told of a change |
| Curve bootstrap (`iterativebootstrap.hpp`, `piecewiseyieldcurve.hpp`) | nodes, interpolation, `validCurve_`, `initialized_`, `loopRequired_`, alive helpers | `initialize`, `calculate` | helpers read the curve while it is being solved |
| Lattices (`discretizedasset.*`, `methods/lattices/`) | values, time and latest adjustments of an asset; the state prices computed so far | `initialize`, `rollback`, `partialRollback`, adjustments, `presentValue` | an option drives its underlying |
| Exchange rates (`currencies/exchangeratemanager.*`, `exchangerate.*`) | a list of dated rates per pair of currencies | `add`, `clear`, `lookup`, `exchange` | – |
| Parallel test runner (`test-suite/paralleltestrunner.hpp`) | three bounded interprocess queues, a result store, worker processes | distribute, run, collect, report | message queues |

Hard behaviours: notifications that are deferred, fail or arrive in any order;
observers destroyed while flagged; calculations that throw half way and leave state
behind; caches whose validity depends on the date, the clock or a calendar, not all of
which announce a change; recordings that begin while results are cached; adjustments
that several parties ask for; locks taken in different orders; bounded queues; loops
that must end. `PROJECT.json` lists them as hazards, each at its line.

What makes each part correct:

- registry: both sides of a registration agree; nobody is called through a dangling
  pointer; a deferred notification is neither lost nor invented;
- thread-safe registry: no deadlock, no `update()` during destruction, no leftovers;
- lazy objects: what is served from the cache is what a calculation would give now,
  observers that do not cache show the present state, cascades end;
- instruments: no value is served that market or date has overtaken; freezing holds;
  a served result has a derivative exactly if its quotes are being differentiated;
- dates and fixings: the curve stands on the date last announced and its jumps with it;
  a swap's value is that of the present date, fixings and curve; a scope of saved
  settings restores them; a refused fixing does not stop the others;
- calendars: advancing and counting agree in both directions, conventions stay in
  their month;
- bootstrap: the served curve reprices its instruments, failures leave nothing harmful
  behind, the loop ends;
- lattices: every payment is counted once, an exercise sees the right underlying, state
  prices agree with the rollback;
- exchange rates: a rate is found exactly if valid rates connect two currencies, and
  converts as they do;
- test runner: every test runs once, the report comes when all results are in, the
  campaign ends.

## 2. Plan

The order is by importance: everything in the library rests on the registry, then on
lazy objects, then on instruments, dates and curves.

1. `ObserverRegistry`, `ObserverRegistryProofs` – the core, checked and proved.
2. `LazyCascade`, `LazyCascadeProofs` – what the `update()` of links and lazy objects
   does with the registry's loops.
3. `ThreadSafeObserver`, `ThreadSafeObserverProofs` – the other build, with every public
   operation of it.
4. `TestCampaign`, `ParallelTestRunner`, `ParallelTestRunnerProofs` – an abstract
   specification and its implementation, checked and proved.
5. `InstrumentPricing`, `AdjointPricing`, `InstrumentPricingProofs` – instruments,
   engines and expiry, and the same while tapes are recorded.
6. `CurveBootstrap`, `CurveBootstrapProofs` – the iterative bootstrap.
7. `HolidayCalendar`, `Settings`, `FixingHistory`, composed by `SwapValuation`;
   `MarketDataProofs`.
8. `LatticeRollback`, `LatticeRollbackProofs` – rollbacks against a reference definition
   of the values.
9. `ExchangeRates` – the lookup against paths in the graph of rates; its proofs are in
   `MarketDataProofs`, with the other process-wide market data.

What would add most next: several indexes that share a history by name; volatility
structures that cache by reference date; two-asset discretized products; helpers that
rebuild their dates with the evaluation date, composed with the bootstrap.

## 3. The modules

Definitions whose comment begins with "fault:" are not part of a model. Each is a
plausible slip in the definition that follows it; substituting it makes the property
named in the manifest's `mutants` fail, which shows that the property depends on that
piece of code.

### ObserverRegistry

`observers`, `observables`, `deferredObservers`, `updatesEnabled`, `updatesDeferred`
are the members of the same names; `alive` says at which addresses an observer lives.
Every public operation is one action. The loops of `notifyObservers` and
`enableUpdates` are unrolled: `NotifyObservers`/`EnableUpdates` start one,
`CallUpdate(o, throws)` is one iteration in any order (a hash set), `EndLoop` ends it,
clears the deferred set and throws if a call did. `untold` is a history variable: the
pairs of an observer and an observable whose change it has not heard of.

`Liberties` names what clients may do while updates are disabled: detach or assign an
observer (`"detach"`), copy one (`"copy"`), or call `disableUpdates(false)` on top of
`disableUpdates(true)` (`"downgrade"`). The code forbids none of them and keeps its
promises with none of them; the properties that need one absent say so. `update()`
here raises a flag and calls nobody, which the class comment recommends.

### LazyCascade

A machine with an explicit stack. Nodes are quotes, links of handles, lazy objects
and *eager* observers, which recompute in `update()`. Frames are a notification loop,
the loop of `enableUpdates`, a `recalculate` and a calculation; `raising` says that an
exception unwinds the stack. Loops and calculations take their next element in any
order. A result is the function from the inputs to what was read of them, so two
results are equal exactly if they were computed from the same market.
`SetValue`, `LinkTo`, `Calculate`, `Recalculate`, `Freeze`, `Unfreeze`,
`DeferUpdates`, `EnableUpdates` are the clients' calls, `Start` the first computation
of an eager observer. It is the client's code that makes an observer eager, so
`UpdateEager` and `Start` are the environment.

### ThreadSafeObserver

Each thread has a stack of frames with a program counter per lock or atomic access:
`CheckEnabled` reads the atomic outside the lock and `LockAndCheck` inside, a slot of
the signal is called through the proxy (`EnterProxy`, `RunUpdate`, `LeaveUpdate`,
`UnlockProxy`), and a destructor deactivates the proxy and then leaves the set, the
deferred set and the signal in three steps. Locks are not variables: `HoldsSettings`,
`HoldsProxy` and `HoldsObserver` read them off the frames. The mutex of an observable
covers single statements that call nothing and is folded into their steps; the mutex of
an observer is the guard `Unlocked`. An update pins its observer, so the thread that
drops the last reference may be the one that updates; `Drop` finds the observers that
lose their last reference in a step and lets the thread destroy them.

`registerWithObservables`, `operator=` and the copy constructor are the three `Joins`:
they lock or copy the other observer's list and then register with one observable at a
time, as the code's loops do; `operator=` first leaves the old ones. Observers in
`OnStack` have no `shared_ptr`; the proxy then uses the raw pointer, as it does while an
observer is under construction (`Unmanaged`). `Copies` are observers that a copy
constructor is yet to create. `May` says what each thread does; `"detach"` is the same
liberty as above. `owed` is a history variable.

### InstrumentPricing and AdjointPricing

One action is one call of a client with all the `update()` calls it causes. An engine
forwards a change of its quotes to the instruments it is set on; an instrument lowers
`calculated`. Engines' arguments and results live within a calculation and are no
variables. `Inspect` has the expiry test in front of the frozen and calculated flags,
as `Instrument::calculate` has. `Bad` is a market with which `validate()` or
`calculate()` throws. `DateObservers` are the instruments registered with the
evaluation date.

`AdjointPricing` superposes the tape on it: `recording`, and for quotes and results
whether the stored number is a variable. Every action of `InstrumentPricing` is
conjoined with what it does to these, and `Independent` and `Dependent` are new. Tape
ids are not needed: `Dependent` advances the id and so turns every variable into a
parameter at once. A recording that an exception interrupts goes on, because only
`tape_function` ends one.
A new value equal to the present one is not stored, so that a recording with such a
value has no derivative with respect to it: `SetValue` has that guard.

### HolidayCalendar, Settings, FixingHistory, SwapValuation

Dates are integers. `HolidayCalendar` has the two sets that clients change and the
pure functions on them; the library's tables of holidays are the constant
`MarketHolidays`, months are given by their last days. `Settings` has the clock
(`Midnight`), the date, the flags and the scopes; `RestoreSettings` is the destructor
of `SavedSettings`, which compares what the dates stand for, sets the date only if they
differ, and skips the flags if an observer of the date throws. `FixingHistory` is one
entry of the `IndexManager`: `addFixings` folds over its input, `clearFixings` erases
the entry with its notifier (`connected`).

`SwapValuation` composes them. It has one action per kind of change: what nobody is
told of (`UnannouncedChange`), the date (`SetDate`, `EndScope`), fixings (`AddFixings`),
and the readers (`ReadReferenceDate`, `NPV`). The curve observes the date; the index
observes the date, the history and the curve; the coupon the date and the index; the
engine the curve; the swap the coupon and the engine. `update()` of the curve first
tells its observers, one of which may throw (`thrown`), and only then looks at the date
and sets its jumps. `asOf` and `cutShort` are history: the unannounced inputs a cached
result was computed from, and whether the last update of the curve was cut short.

### CurveBootstrap

`Calculate` enters, `Initialize`, `StartPillars`, `SolvePillar`, `GiveUpGuess`,
`NextIteration` and `Complete` follow the function, and `AllExpired`, `InvalidQuote`,
`PillarFailed` and `NotConverged` are its exceptions, each with what they leave
behind. Rates are whole numbers and the equations linear: a helper implies the rate at
its pillar, or the mean with the next one if it looks beyond the pillar. A solver finds
the root in its bracket or throws, having tried both ends; ends of brackets that are
halves are rounded inwards. `interpolation` records the last node covered and whether
it still refers to the present vectors; reading through one that does not is undefined,
so there the solver may return any quoted rate or fail. `unsolved` is a history
variable. The node data survive failures, as they do in the code; nodes that
fail repeatedly may double each time, which `MaxNode` bounds at the start of a
calculation. No evaluation date changes and no quote moves during a calculation: it
runs in one thread and calls no client code.

### LatticeRollback

A discretized swap of a client and a discretized swaption with an underlying of its
own, on one recombining tree. Times are indices of the grid, and discount times
probability of a branch is an integer weight, so that values are exact. A coupon whose
reset is ahead enters at its reset (`SwapPreImpl`), one whose reset is past enters at
its payment (`SwapPostImpl`); the option rolls its underlying to its own time and
adjusts it inside its own adjustment. The operations are those of `DiscretizedAsset`:
initialise, the two adjustments, `partialRollback` and `rollback`. Clients keep the
protocol of the class: after a partial rollback they adjust before they roll on, an
option starts before its underlying's last payment, and an asset is started again only
at a time at which it was not adjusted last (`Startable`), because `initialize` does not
forget these times. `start` is history.

### ExchangeRates

A rate is the logarithm of its factor, so that chaining adds and subtracts exactly.
`data` maps the key of a pair to its list, newest first; `lookup` is the function of the
same name with triangulation, `smartLookup` walks the keys in order. The three
recursions of the code are recursive functions, over what they recur on: the search over
the set of currencies it must avoid, `lookup` over pairs of currencies, and `exchange`
over how deep a rate is chained (`Levels`; `Rates[n]` are the rates chained over `n`
levels at most). An exception is `NoRate`. The triangulation currencies end after one
link (`LinksEnd`), as all of the library's do. `log` is history: the entries in the order
they were added.

The properties do not follow the lookup. `Latest` reads the history, and `Conversions` is
what a unit of one currency can be worth in another along simple paths of rates that are
valid then, from the `Hub` of the one (its triangulation currency, if it has one) to the
`Hub` of the other. Both properties are about every pair of currencies and both types of
lookup.

### TestCampaign and ParallelTestRunner

`TestCampaign` is the promise: tests are started, collected, and reported when all are
collected. `ParallelTestRunner` has the master, workers and three FIFO queues (all
messages have priority 0) with their capacities, workers that fail to start, and the
order of sending, collecting and joining. `Campaign == INSTANCE TestCampaign WITH ...`
maps a test to "started" when its result is on its way, in a worker's hands or in the
queue. The order of the tests is left open (the code derives it from a profile file).

## 4. The runs

| Run | Question | Bounds |
|---|---|---|
| `registry` | Do registration and deferral keep their promises? | 3 observers, 2 observables: copies of copies, an observer flagged twice, one destroyed while another is flagged, and two that throw in one loop |
| `registry_detach` | Does a deferred notification survive unregistering from another observable? **No** | 2 observers, 2 observables |
| `cascade` | Are caches and eager observers right between calls, and does every call return? | a diamond: a quote feeds an eager observer directly and through a lazy object and a link; a second lazy object reads the link; a quote that can be invalid; the first lazy object may be frozen |
| `threads` | Is the thread-safe build safe in its documented use, a thread that works and one that collects garbage? | a source, a forwarder, an observer of both that may throw, and a twin copied onto the stack of the working thread |
| `threads_sharing` | May two threads both notify? **No, they can deadlock** | the same objects without the twin |
| `pricing` | Do instruments serve current values, and current derivatives? | two instruments, two engines, a good market and a bad one, two dates, one expiry, any recordings |
| `swap_valuation` | Do curve, swap, scopes, fixings and calendar keep up with the date? | a month of four days, each of which may be a holiday, and the day after it; fixing, payment and settlement a day apart; five changes, one scope, two fixing values |
| `bootstrap` | Do solved pillars reprice, can only unsolvable quotes fail, does it end? | two helpers, one that may look beyond its pillar, three dates including the expiry of one and of all, three iterations |
| `bootstrap_restart` | Does a bad guess cost repricing? **Yes** | two helpers, no loop |
| `rollback` | Is every payment counted once, and every exercise seen? | four steps, four coupons of which two are fixed in the past, an exercise of each type |
| `exchange_rates` | Does a lookup find what it should, and convert right? | five currencies of which one is obsolete, all pairs of them, both types of lookup, three dates, three rates added among seven |
| `test_runner` | Does the campaign end with every test run once, and implement `TestCampaign`? | 2 workers of which one may fail, 2 root and 3 other tests: more tests than a queue of results holds |

The runs that answer "no" (or show a fault) check one property each, the statement of
a comment or a document of the repository; `PROJECT.json` quotes it under `findings`.

Why the bounds suffice.

- The registry's properties speak of an observer and an observable at a time, and a
  third observer is the bystander; the theorems below hold for any number.
- A cascade needs two paths of different length to one observer, which the diamond has;
  longer chains repeat the step, and the theorem about it holds for any acyclic graph.
- Deadlock needs two threads, since there are two kinds of locks that are held while
  another is taken. The twin brings the copies, the raw pointer and a second
  destruction.
- In `pricing` a stale value shows against the bad market as it would against a second
  good one, which only enlarges the space. Two instruments and two engines can share,
  cross and swap.
- In `swap_valuation` five changes reach: a date set inside a scope, midnight, a
  restoration cut short, a holiday added and a history cleared, in any mixture with
  valuations in between, which do not count as changes. `Dates` lie before, on and
  after the fixing date. Every day of the month of four days may become a holiday, the
  first and the last too, so that every convention has searches that leave the month,
  or the half month, with and without a business day left in it. `CalendarLaws` looks at
  all of these days and as far around them as such a search can go.
- In the bootstrap, rates 1, 3 and 5 differ by more than the factor of two of the
  bracket, 5 lies beyond `MaxRate`, and `MaxRate` and `AvgRate` are even while quotes
  are odd: a node never has the right value by accident, as it would not with real
  numbers. The convergence loop is bounded by 2 repetitions instead of 99: two nodes
  settle within them unless the interpolation is stale, and then both the bound and its
  exception are reached.
- In `rollback` the weights differ from node to node and the amounts of the coupons
  are such that exercising pays at some nodes only, so that a missed, doubled or
  misplaced payment changes a value.
- The powers in the rates of `exchange_rates` make different paths convert differently,
  and ranges of dates overlap so that the newest entry is not always valid.

Symmetry sets are used only in runs without liveness properties. Deadlock is checked in
every run; `ParallelTestRunner` stutters explicitly when the campaign is over.

### Fairness

- `LazyCascade` and `CurveBootstrap`: `WF_vars(Step)`, a call in progress runs to its
  end; the thread that made it executes it. Clients are not fair: nobody has to call.
- `ParallelTestRunner`: weak fairness of the master and of each worker; the operating
  system schedules every process that is not blocked. A worker that dies within a test
  is not modelled: the code has no answer to it.
- `TestCampaign`: weak fairness of its next-state relation, implied by the above.

## 5. The proofs

`ObserverRegistryProofs`, for any sets of observers and observables:

- `TypeInvariance`, `RegistrationIsSymmetric`: inductive as they stand, from a lemma
  about the two set updates (`HookUnhook`).
- `NothingDangles`: through `Orderly` (updates are never both enabled and deferred;
  loops run only while updates are enabled; outside an `enableUpdates` loop the deferred
  set is empty while they are; nobody is left to call when no loop runs) and `Tracked`
  (whoever is in the deferred set is alive and registered with something, and the set is
  not empty only while updates are deferred). `Tracked` is needed because a destructor
  erases an observer from the set only if it is registered somewhere and updates are
  *deferred*.
- `NothingSpurious`: through `EachOwed`, whoever waits to be called has an entry in
  `untold`.
- `NothingLost`: through `NothingForgotten`, inductive with `Orderly`.
- `AllTold`: from `Orderly` and `NothingLost`.

The theorems assume of `Liberties` what the properties assume and nothing else.

`LazyCascadeProofs`, for any graph of quotes, links, lazy objects and eager observers
(`TopologyAssumption`: the kinds of nodes are disjoint):

- `TypeInvariance`, `NothingPending`, `FrozenKept`: through `IInv`, the types together
  with four facts about the stack: loops of `enableUpdates` and calls of `recalculate`
  are only at its bottom (`Stacked`), no frozen object is being calculated (`Thawed`),
  a deferred notification is still deferred or in the hands of the loop at the bottom
  (`Flushing`), and nobody defers updates while that loop runs (`Enabled`).

- `CachesCohere`, for any acyclic graph (`Acyclic(rank)`: a rank falls from a node to its
  inputs). The property holds between calls; while a cascade runs, a calculated object
  may be stale provided the notification is on its way. `CInv` adds to `IInv`:
  `Coherent` (a calculated object is fresh, or one of its inputs is still going to tell
  it), `Ranked` (calculations on the stack lie in the order of the ranks) and `Fetched`
  (what a running calculation has read is what it would read now).
- `EagersKeepUp` (`EagerUpToDate`), from the same invariant, for graphs where what eager
  observers read of lazy objects cannot fail (`Reliable`: from there only quotes that are
  never invalid and links that are never empty are reached; what an eager observer reads
  itself may fail). An eager observer has no catch block and no flag: after a failure it
  shows what it showed before, and lazy objects below it, lowered by the failure, do not
  forward the next notification (`lazyobject.hpp:104`). `Coherent` therefore lets off the
  observers with an input that cannot be read or may fail, and to show that only those
  are left stale `CInv` follows exceptions: each calculation on the stack but the
  innermost waits for the one above it (`Chained`), and one that an exception passes
  through is not `Reliable` (`Blamed`).

`InstrumentPricingProofs`:

- `TypeInvariance`;
- `CurrentValueServed`: assuming that every instrument is registered with the
  evaluation date, with `NothingPending` (nothing is flagged while updates are enabled)
  as the strengthening; lemmas say what a calculation and a notification do to the
  flags. Without the assumption the property fails, since `OneAssetOption` does not
  register (`oneassetoption.cpp:28`): an expired option would keep its zero if the date
  moved back;
- `FrozenKept`: an action property, from the type invariant;
- `AdjointImplements`: each step of `AdjointPricing` is a step or a stutter of
  `InstrumentPricing`, so that the facts above hold while tapes are recorded;
- `DerivativesKept`: under the same assumption, through `TapeTyped`, `OnTape` (a number
  is a variable only while a recording runs) and `Followed` (a result has the derivative
  of its quotes unless its instrument is flagged or waits).

`MarketDataProofs`, of `SwapValuation`, for any dates, calendars, flags, batches and nesting:

- `CurveIsOnDate` through `CurveTold`: the curve has its reference date unless an
  observer cut its update short;
- `ResultIsCurrent` through `SwapTold`: a calculated swap has seen all the fixings it
  can hear of, and its curve has a date unless the swap expired without asking for it;
- `ScopesRestore` through `ScopesSaved`: what a scope saved is a date and never null, so
  that restoring it cannot make the date float;
- `FixingsAreStored` (`FixingsStored`) through `HistoryKept`: after each prefix of a batch
  the fold that `addFixings()` is agrees with the closed form of the property
  (`StoredIsAfter`);
- `CalendarIsLawful` (`CalendarLaws`) and `AdvanceIsExact` through `HolidaysFinite`: a
  calendar has finitely many holidays, which is why the loops that step over them end.
  `advance` and `businessDaysBetween` are then inverse to each other, for every date and
  every number of days, not only for those of the run. `AdjustedIsFirst` says that a
  convention finds the first business day in its direction, `AdjustedStays` that the
  modified ones stay in the month if they can, `NearestIsNearest` what its name says.

`MarketDataProofs`, of `ExchangeRates`, for any finite set of currencies with numeric
codes of at most three digits, any triangulation that ends after one link, any known rates and
any rates added, with any ranges of dates:

- `LatestFirst`, an invariant (`Agreement`) that is inductive as it stands: each entry
  is in the list of its key, and on every date the first valid entry of a list is the
  last valid one of that key in the history. By induction over `addKnownRates()` and for
  each `add` (`AddAgrees`): an entry in front of a list is found first
  (`FirstInFront`), one at the end of the history is the last (`LastAppended`).
- `RatesFound` (`FoundIfConnected`), from `Agreement`: `SearchRight` is an induction on
  the number of currencies that the search may still enter (`Left`). It says that the
  search from a currency finds a rate if and only if some path of linked rates through
  the currencies that are left leads to the target (`PathTo`), because such a path can be
  shortened at its head (`PathBehind`) and lengthened there (`PathAhead`). The code
  learns the other currency of a list from its front entry, which may be expired; that
  does no harm (`HeadsAre`), since all entries of a list have the same two
  (`ListOfPair`).
- `RatesConvert` (`LatestRatesConvert`), by the same induction: `Converts` says of a rate
  that it turns every amount of one currency into the other's and back, at every
  level from some level on, and that its own factor is the same. `ChainConverts` shows
  for the four ways in which two quotations can meet that chaining keeps this
  and adds a level. A search takes fewer levels than there are currencies, and
  triangulation adds one link at each end (`ToItsHub`, `FromItsHub`), which is where
  `LinksEnd` is needed.

The functions that the code's recursions are in the model are shown to exist
(`SearchExists`, `TableExists`, `FoundExists`) before anything is said of their
values. As elsewhere in the module, induction is taken in the form that the naturals at which a
claim fails have a least member.

The library's induction theorems take an operator, which the provers cannot instantiate.
The inductions over days and over a batch use `Least` instead: a set of naturals that is
not empty has a least member, which the well-foundedness of `<` gives.

`CurveBootstrapProofs`:

- `TypeInvariance` through `Shaped` (once the curve is initialised its nodes are those
  of the alive helpers);
- `FailsOnlyIfUnsolvable` through `GuessJustified`: the last curve is used as a guess
  only while it is valid or the loop is required. It rests on lemmas about the least
  and the largest rate of a curve, which come first in the module;
- `SolvedReprice` through `PassedReprice`. During a pass the pillars behind it match their
  quotes with the next node taken as it was before the pass, and the pillars ahead still
  are what they were; when helpers look ahead, `initialize()` has asked for the loop, so
  the pass that ends the calculation has moved no node and the two readings agree. The
  theorem has a premise, `WholePass`: a calculation of helpers that look ahead is not
  declared complete by a pass that did not start from a whole curve. The code does not
  enforce it. A first pass without a guess solves each node as if the next were not there
  yet, and if the nodes an earlier failure left behind happen to equal the quotes, it
  counts as converged although the first helper is not repriced: with `Rates = {1, 3, 4}`
  TLC finds such a state. Over real numbers that takes a coincidence to the last bits, so
  the run excludes it by its constants: quotes are odd, and what the bootstrap itself
  writes into nodes is even; there `WholePass` holds in every state.
- `SolvedRepriceAtPillars`: if `Beyond = {}` nothing has to be provided.

`LatticeRollbackProofs`, for any grid, integer weights, finite set of coupons with a reset
before the payment (`CouponsOnGrid`) and exercises:

- `PaymentsEnterOnce` (`PaymentsOnce`). The reference definition adds up the weights of
  all paths of the tree. Grouping the paths by their first branch gives the recurrence a
  step back computes (`PathWorthStep`), hence what a bond is worth and what a swap is
  worth one step earlier (`BondIsPathWorth`, `WorthStep`). `SwapSound` says what the
  values of a started swap are, by which of the two adjustments were made at its time;
  each adjustment adds exactly the coupons of its time, a step back from an adjusted time
  keeps it, and a rollback of any length does by induction down the grid.
- `SwaptionIsExact` (`OptionExact`) through `OptionSound`: besides the value of the
  exercises so far, the underlying is settled at a time the option has not passed, and
  strictly ahead of it before the option's own adjustment. Without that the option could
  see payments that are not part of the exercise.
- `PricesAgree` (`StatePricesAgree`) through `PricesSound`: each element of the state
  prices is the one before it brought forward. Bringing prices forward is adjoint to
  stepping values back (`StepIsAdjoint`), so the scalar product is the same at every time
  down to the first.

Sums here are over sets (`SumFunctionOnSet`); the module first proves, from the definition
of the fold, that they do not depend on the order of the members, are linear, and may be
grouped and renamed. Inductions along the grid are `Downwards` and `Upwards`, again from
`Least`.

`ParallelTestRunnerProofs`, for any tests, workers and number of failures, assuming that
the terminate message is not a test:

- `TypeInvariance`, `EachOnce`, `NeverBlocks`, `NothingAbandoned` through an invariant
  of six parts: where a test is, in one place at a time (`InPlace`), how often it has run
  in each place (`Count`), that terminate messages come last in the queue (`InOrder`),
  that the queue has room for what is still to be sent (`Room`), that the counter agrees
  with the results (`Counted`), and that the master's root tests come before the fork
  (`NotForked`);
- `Refinement`: every initial state and step is one of `TestCampaign`, or a stutter.

`ThreadSafeObserverProofs`, for any threads, observers, observables, registrations and
permitted operations, assuming that a source is not an observer and that there are
finitely many observers:

- `ManagedUpdateSafety`: an update of an observer that `shared_ptr`s own runs on an active
  proxy, and its destructor has not begun. `UpdateSafety` concludes
  `NoUpdateInDestruction` for `OnStack = {}`. An observer on the stack is not protected:
  while its destructor waits for the proxy, another thread may run `update()` on what is
  left of it. In the run `threads` only the thread that owns such an observer notifies.

  Both come from `Core`. That an update is running is a reason for the observer to be
  alive, since its frame holds a `shared_ptr`; so a destructor begins only when no frame
  refers to the observer. That an observer which is not alive stays so needs that nobody
  takes a new reference to it, in particular that a copy does not register with an
  observable that only the copied list kept: the list does not change under the copy,
  because one thread at a time changes the registrations of an observer (the locks
  of observers, and that no client destroys what another uses).
- `NothingRemains` (`NothingLeftBehind`) through `AllLinked`, which says of each observer
  what is true while a registration is half done: what knows it is in its list or has a
  frame that is about to put it there (`Told`), and what its frames have already removed
  is removed (`Detached`). A copy of a list begins only when the old links are gone, so
  that replacing the list forgets none.

- `WorkerNeverBlocked` (`NoDeadlock`) and `EverybodyTold` (`AllTold`), under
  `OneWorker(m)`: one thread does the work and the others only release what they hold or
  leave, as the collector thread does in `test-suite/observable.cpp:169-249` and in the
  run `threads`. `EverybodyTold` also assumes that the worker does not unregister from one
  observable of several (`detach`). They rest on `Core`, `AllLinked` and `Sole` (the
  others only release and leave; a frame of the worker holds the lock of the settings only
  while updates are enabled, and waits for it only while they are not) and `Ledger`: every
  observer that was flagged is still vouched for by the deferred set, by the loop that enables updates, by a
  running update or by a call that removes all its registrations. Without the premises
  both are false: two threads that notify can deadlock (run `threads_sharing`), and a
  thread that unregisters from one of several observables while updates are deferred
  forgets what was deferred for the others, as in `registry_detach`.

Model-checked only: liveness (`CallsReturn`, `BootstrapEnds`, `CampaignEnds`, and the
fairness of `ImplementsCampaign`), which needs fairness and enabledness. Every invariant
that a passing run checks is also stated by a theorem.

## 6. What is not modelled

Nearly all lines of the repository are outside these models: the vendored boost and
CppAD headers, tables (direction integers of Sobol sequences, primitive polynomials,
lattice rules, tabulated probabilities, holidays of markets), and formulas over real
numbers (interpolation, optimisers and solvers, Monte Carlo, finite differences, closed
prices of instruments, models and their calibration). They have no states, or loops
whose only question is numerical, and TLC has no real numbers. What is modelled is the
code that formulas are plugged into. Besides:

- Links that do not register with what they point to (`handle.hpp:134-139`), and
  `disableUpdates(false)` in the models other than the two registries.
- In the thread-safe build, a second registration with the same observable, which
  connects a second slot (`observable.cpp:130-132`), and unregistering an observer that
  has never registered (`observable.hpp:532`), which throws.
- The bootstrap's checks of its helpers: too few alive, two with one pillar, or unsorted
  (`iterativebootstrap.hpp:94-128`). `BootstrapAssumption` has helpers that pass them.
  An interpolation that throws, and the linear one that replaces it (`:207-219`).
- The exceptions that carry a result to nobody: that of `addFixings()` after it has
  stored what was valid (`index.hpp:124-132`), and that of `ExchangeRate::exchange` for an
  amount in a third currency, which no rate that is looked up meets. The evaluation
  date as the default of `ExchangeRateManager::lookup` (`exchangeratemanager.cpp:60-61`).
- Observers that register or unregister others from inside `update()`, which would
  change a set that is being iterated. An observer on the stack that another thread than
  the notifying one destroys.
- Helpers that rebuild their dates with the evaluation date, the other traits, and
  `LocalBootstrap`.
- Several indexes that share a history by name, volatility and default structures,
  coupon pricers, advancing a date by months, schedules.
- The fitting of trees to models, two-dimensional lattices, other discretized assets.
- `Money` with its conversion policy, and rounding.
- The operations on the tape and the sweeps over it.
- The parallel runner's log, whose mutex is created and removed under different names
  (`paralleltestrunner.hpp:143, 148, 283`), and a worker that crashes.

### Seen on the way

Places where code and comment differ, or where the code does something a reader may not
expect, and that no run is about:

- A frozen instrument loses its result when it expires (`instrument.hpp:149`), although
  `freeze()` promises cached results (`lazyobject.hpp:62-65`). `FrozenKeepsResult` is
  stated up to expiry.
- Notifications are forwarded only while `calculated_` is set (`lazyobject.hpp:104`): an
  eager observer of an object whose calculation failed is not told of its recovery. In
  `cascade` eager observers read lazy objects that cannot fail.
- When a helper expires, nodes are filled anew while `validCurve_` still speaks of the
  last curve (`iterativebootstrap.hpp:142`), and the fill is taken as a guess.
- A date that floated when settings were saved is set afterwards (`settings.cpp:59`),
  if midnight has struck or the date was set in the scope.
- The dates of turn-of-year jumps are computed once and do not roll
  (`yieldtermstructure.cpp:74-78`).
- A direct rate of a currency with a triangulation currency is ignored by a derived
  lookup (`exchangeratemanager.cpp:65-79`).
- Asking for a history or its notifier creates an entry, so that `hasHistory()` is true
  afterwards (`indexmanager.hpp:41`).
- Flags of the settings and holidays of a calendar notify nobody.
- Two threads that call `registerWithObservables` on each other's observers can
  deadlock (`observable.hpp:519`). In `threads` one thread registers.
- `setValue` refuses a value equal to the present one, also if it is a variable
  (`simplequote.hpp:67`): its derivative is then zero without a word.
- A copy of an observer flagged while updates are deferred is not flagged
  (`observable.hpp:194`).
- The signal stops at a slot that throws (`observable.cpp:155`), so that the remaining
  observers are not told; the other build tells all.
