----------------------------- MODULE LatticeRollback -----------------------------
(***************************************************************************)
(* A discretized swap and a discretized swaption rolled back on one tree   *)
(* (ql/discretizedasset.hpp, ql/methods/lattices/lattice.hpp,              *)
(* ql/pricingengines/swap/discretizedswap.cpp and                          *)
(* ql/pricingengines/swaption/discretizedswaption.cpp).                    *)
(*                                                                         *)
(* Payments enter the values when an asset is adjusted at their time.  A   *)
(* rollback adjusts at every time it passes, a partial rollback leaves the *)
(* last one to its caller, and an option adjusts its underlying while it   *)
(* is itself being adjusted; that each payment enters once rests on the    *)
(* times of the latest adjustments that the asset remembers.               *)
(*                                                                         *)
(* Times are the indices of the grid; -1 stands for any time in the past.  *)
(* Discount factor times probability of a branch is an integer weight.     *)
(***************************************************************************)
EXTENDS Integers, Sequences, FiniteSets, FiniteSetsExt, Functions

CONSTANTS
    Steps,              \* the last index of the time grid
    Weight(_, _, _),    \* discount(i,j) * probability(i,j,l)
    Coupons,            \* the coupons of the swap
    LastPayment,        \* DiscretizedSwaption::lastPayment_
    Exercises           \* the exercises a swaption may have

ASSUME GridIsTimes == Steps \in Nat /\ LastPayment \in 1..Steps
ASSUME WeightsAreNumbers ==
    \A i \in 0..Steps : \A j \in 0..i, l \in {0, 1} : Weight(i, j, l) \in Int
ASSUME CouponsOnGrid ==
    /\ IsFiniteSet(Coupons)
    /\ \A c \in Coupons :
          /\ c.pay \in 0..LastPayment /\ c.reset \in -1..(c.pay - 1)
          /\ c.atReset \in Int /\ c.atPay \in Int /\ c.known \in Int

VARIABLES
    swap,               \* a DiscretizedSwap of a client
    swaption,           \* a DiscretizedSwaption of a client, with its underlying
    statePrices         \* the state prices the lattice has computed so far

vars == <<swap, swaption, statePrices>>

Grid  == 0..Steps
Never == Steps + 1      \* QL_MAX_REAL, the time of no adjustment

(* ---- the lattice ---- *)

Nodes(i) == 0..i
Descendant(j, l) == j + l

Stepback(i, values) ==
    [j \in Nodes(i) |->
        Weight(i, j, 0) * values[Descendant(j, 0)]
      + Weight(i, j, 1) * values[Descendant(j, 1)]]

NextPrices(i, prices) ==
    [k \in Nodes(i + 1) |->
        LET branches == {jl \in Nodes(i) \X {0, 1} : Descendant(jl[1], jl[2]) = k}
        IN  SumFunction([jl \in branches |-> prices[jl[1]] * Weight(i, jl[1], jl[2])])]

\* statePrices_[i] is the element i + 1 of the sequence, and the limit is the
\* index of the last one.
computeStatePrices(until) ==
    LET limit == Len(statePrices) - 1
        grown[i \in limit..until] ==
          IF i = limit THEN statePrices
          ELSE Append(grown[i - 1], NextPrices(i - 1, grown[i - 1][i]))
    IN  grown[until]

Extended(i) ==
    IF i > Len(statePrices) - 1 THEN computeStatePrices(i) ELSE statePrices

\* fault: the prices computed last are taken, which may be those of a later time.
LatestPrices(i) == Extended(i)[Len(Extended(i))]

StatePricesAt(i) == Extended(i)[i + 1]

DotProduct(v, w) == SumFunction([j \in DOMAIN v |-> v[j] * w[j]])

presentValue(asset) ==
    DotProduct(asset.values, StatePricesAt(asset.time))

(* ---- any discretized asset ---- *)

NewAsset == [time |-> Never, values |-> <<>>, latestPre |-> Never, latestPost |-> Never,
             start |-> Never]   \* start: where it was initialised, for the properties

NewOption(exercise) ==
    [time |-> Never, values |-> <<>>, latestPre |-> Never, latestPost |-> Never,
     start |-> Never, exercise |-> exercise, underlying |-> NewAsset]

\* The test of preAdjustValues() and of postAdjustValues(): was the adjustment
\* made at this time already?
PreAdjusted(asset) == asset.time = asset.latestPre

\* fault: nothing is remembered of an adjustment made before.
NeverAdjusted(asset) == FALSE

PostAdjusted(asset) == asset.time = asset.latestPost

SteppedBack(asset) ==
    [asset EXCEPT !.time = @ - 1, !.values = Stepback(asset.time - 1, @)]

\* fault: the very last adjustment is not skipped.
AdjustedEverywhere(i, to) == TRUE

\* Whether partialRollback() adjusts the asset when it has come to time i.
AdjustedOnTheWay(i, to) == i # to

Zeros(asset, t) ==
    [asset EXCEPT !.time = t, !.start = t, !.values = [j \in Nodes(t) |-> 0]]

(* ---- the swap ---- *)

\* A DiscretizedDiscountBond, which nothing adjusts, from its payment to t.
Bond(pay, t) ==
    LET rolled[i \in t..pay] == IF i = pay THEN [j \in Nodes(pay) |-> 1]
                                ELSE Stepback(i, rolled[i + 1])
    IN  rolled[t]

\* A coupon that resets now is worth something at once (the nominal, if it
\* floats) and something when it is paid.
SwapPreImpl(asset) ==
    LET resetting == {c \in Coupons : c.reset = asset.time}
        worth(j)  == SumFunction([c \in resetting |->
                         c.atReset + c.atPay * Bond(c.pay, asset.time)[j]])
    IN  [asset EXCEPT !.values = [j \in DOMAIN @ |-> @[j] + worth(j)]]

\* A coupon whose reset is in the past has a known amount.
SwapPostImpl(asset) ==
    LET paying == {c \in Coupons : c.pay = asset.time /\ c.reset < 0}
        known  == SumFunction([c \in paying |-> c.known])
    IN  [asset EXCEPT !.values = [j \in DOMAIN @ |-> @[j] + known]]

PreAdjustSwap(asset) ==
    IF PreAdjusted(asset) THEN asset
    ELSE [SwapPreImpl(asset) EXCEPT !.latestPre = asset.time]

PostAdjustSwap(asset) ==
    IF PostAdjusted(asset) THEN asset
    ELSE [SwapPostImpl(asset) EXCEPT !.latestPost = asset.time]

AdjustSwap(asset)        == PostAdjustSwap(PreAdjustSwap(asset))
InitializeSwap(asset, t) == AdjustSwap(Zeros(asset, t))

PartialRollbackSwap(asset, to) ==
    LET rolled[i \in to..asset.time] ==
          IF i = asset.time THEN asset
          ELSE LET stepped == SteppedBack(rolled[i + 1])
               IN  IF AdjustedOnTheWay(i, to) THEN AdjustSwap(stepped) ELSE stepped
    IN  rolled[to]

(* ---- the swaption; its operations also roll the underlying ---- *)

Exercised(exercise, t) ==
    LET times == exercise.times
    IN  IF exercise.type = "American"
        THEN t >= times[1] /\ t <= times[2]
        ELSE \E k \in DOMAIN times : times[k] >= 0 /\ times[k] = t

\* applyExerciseCondition, between the two adjustments of the underlying
OptionPostImpl(option) ==
    LET seen == PreAdjustSwap(PartialRollbackSwap(option.underlying, option.time))
        better == [j \in DOMAIN option.values |->
                      Max({seen.values[j], option.values[j]})]
    IN  [option EXCEPT !.values     = IF Exercised(option.exercise, option.time)
                                    THEN better ELSE @,
                       !.underlying = PostAdjustSwap(seen)]

\* preAdjustValuesImpl() of an option does nothing.
PreAdjustOption(option) == [option EXCEPT !.latestPre = option.time]

PostAdjustOption(option) ==
    IF PostAdjusted(option) THEN option
    ELSE [OptionPostImpl(option) EXCEPT !.latestPost = option.time]

AdjustOption(option) == PostAdjustOption(PreAdjustOption(option))

InitializeOption(option, t) ==
    AdjustOption([Zeros(option, t) EXCEPT
                    !.underlying = InitializeSwap(@, LastPayment)])

PartialRollbackOption(option, to) ==
    LET rolled[i \in to..option.time] ==
          IF i = option.time THEN option
          ELSE LET stepped == SteppedBack(rolled[i + 1])
               IN  IF AdjustedOnTheWay(i, to) THEN AdjustOption(stepped) ELSE stepped
    IN  rolled[to]

(* ---- clients ---- *)

Settled(asset) == PreAdjusted(asset) /\ PostAdjusted(asset)

\* initialize() forgets neither adjustment: a client starts an asset again
\* only at a time other than theirs.
Startable(asset, t) == t \notin {asset.latestPre, asset.latestPost}

Started(asset) == asset.time \in Grid

SwapBecomes(asset) == swap' = asset /\ UNCHANGED <<swaption, statePrices>>

OptionBecomes(option) == swaption' = option /\ UNCHANGED <<swap, statePrices>>

\* The methods are the same for either asset.  Rolling forward throws and
\* changes nothing; a client that stopped half way with partialRollback()
\* adjusts before it goes on.
SwapOperation ==
    \/ \E t \in 0..LastPayment :
          Startable(swap, t) /\ SwapBecomes(InitializeSwap(swap, t))
    \/ /\ Started(swap)
       /\ \/ SwapBecomes(PreAdjustSwap(swap))
          \/ SwapBecomes(PostAdjustSwap(swap))
          \/ \E to \in 0..swap.time :
                /\ to < swap.time => Settled(swap)
                /\ \/ SwapBecomes(PartialRollbackSwap(swap, to))
                   \/ SwapBecomes(AdjustSwap(PartialRollbackSwap(swap, to)))

\* The option starts before its underlying does.
OptionOperation ==
    \/ \E t \in 0..(LastPayment - 1) :
          /\ Startable(swaption, t) /\ Startable(swaption.underlying, LastPayment)
          /\ OptionBecomes(InitializeOption(swaption, t))
    \/ /\ Started(swaption)
       /\ \/ OptionBecomes(PreAdjustOption(swaption))
          \/ OptionBecomes(PostAdjustOption(swaption))
          \/ \E to \in 0..swaption.time :
                /\ to < swaption.time => Settled(swaption)
                /\ \/ OptionBecomes(PartialRollbackOption(swaption, to))
                   \/ OptionBecomes(AdjustOption(PartialRollbackOption(swaption, to)))

PresentValue ==
    \E asset \in {swap, swaption} :
        /\ Started(asset)
        /\ statePrices' = Extended(asset.time)
        /\ UNCHANGED <<swap, swaption>>

Init ==
    /\ swap = NewAsset
    /\ \E e \in Exercises : swaption = NewOption(e)
    /\ statePrices = <<[j \in Nodes(0) |-> 1]>>

Next == SwapOperation \/ OptionOperation \/ PresentValue

Spec == Init /\ [][Next]_vars

(* ---- properties ---- *)

\* Where a path of branches from node j of time t has come at time i, and the
\* product of the weights of its branches up to time T.
At(t, j, path, i) == j + SumFunctionOnSet(path, t..(i - 1))

PathWeight(T, t, j, path) ==
    LET onward[i \in t..T] ==
          IF i = T THEN 1
          ELSE Weight(i, At(t, j, path, i), path[i]) * onward[i + 1]
    IN  onward[t]

\* What one unit paid at every node of time T is worth at node j of time t:
\* the weights of all paths of branches from there, added up.
PathWorth ==
    [T \in Grid |-> [t \in 0..T |-> [j \in Nodes(t) |->
        SumFunction([path \in [t..(T - 1) -> {0, 1}] |-> PathWeight(T, t, j, path)])]]]

\* The coupons of a swap that was started at "start", as seen from node j of
\* time t: those that reset at firstReset or later, and those of known amount
\* that are paid at firstPay or later.
Worth(start, t, j, firstReset, firstPay) ==
    LET resets == {c \in Coupons : c.reset \in firstReset..start}
        pays   == {c \in Coupons : c.reset < 0 /\ c.pay \in firstPay..start}
    IN  SumFunction([c \in resets |-> c.atReset * PathWorth[c.reset][t][j]
                                    + c.atPay * PathWorth[c.pay][t][j]])
      + SumFunction([c \in pays |-> c.known * PathWorth[c.pay][t][j]])

\* The first time whose resets, or whose payments, are in the values.
FirstReset(asset) == IF PreAdjusted(asset) THEN asset.time ELSE asset.time + 1
FirstPay(asset)   == IF PostAdjusted(asset) THEN asset.time ELSE asset.time + 1

\* Every payment is in the values of a swap once and discounted along the
\* tree, whether its coupon was added at the reset or at the payment, and
\* however rollbacks, partial rollbacks, explicit adjustments and an option
\* have asked for the adjustments (discretizedasset.hpp:201-213,
\* discretizedswap.cpp:85-156).
PaymentsOnce ==
    \A asset \in {swap, swaption.underlying} : Started(asset) =>
        \A j \in DOMAIN asset.values :
            asset.values[j] = Worth(asset.start, asset.time, j,
                                    FirstReset(asset), FirstPay(asset))

\* The value of the exercises from "first" to "start", at t, by dynamic
\* programming: an exercise gives the swap without the known payments due at
\* that very time.
OptionWorth(exercise, start, t, first) ==
    LET held[i \in t..start] ==
          LET kept == IF i = start THEN [j \in Nodes(i) |-> 0]
                      ELSE Stepback(i, held[i + 1])
          IN  IF Exercised(exercise, i) /\ i >= first
              THEN [j \in Nodes(i) |->
                      Max({kept[j], Worth(LastPayment, i, j, i, i + 1)})]
              ELSE kept
    IN  held[t]

\* A swaption holds the value of its exercises and of nothing else: at each
\* exercise it sees the underlying at its own time, after the coupons that
\* reset then and before the payments that are not part of the exercise
\* (discretizedasset.cpp:25-51).
OptionExact ==
    Started(swaption) =>
        swaption.values = OptionWorth(swaption.exercise, swaption.start,
                                      swaption.time, FirstPay(swaption))

\* The present value by state prices is what the values discount to along the
\* tree, from whatever time and however often the lattice has extended its
\* state prices before (lattice.hpp:97-124).
StatePricesAgree ==
    \A asset \in {swap, swaption} : Started(asset) =>
        presentValue(asset) =
            LET discounted[i \in 0..asset.time] ==
                  IF i = asset.time THEN asset.values ELSE Stepback(i, discounted[i + 1])
            IN  discounted[0][0]

=============================================================================
