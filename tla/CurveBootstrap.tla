---------------------------- MODULE CurveBootstrap ----------------------------
(***************************************************************************)
(* IterativeBootstrap (ql/termstructures/iterativebootstrap.hpp) inside a  *)
(* PiecewiseYieldCurve, which is a LazyObject: the nodes of a curve are    *)
(* solved one after the other so that the curve reprices the instruments   *)
(* (helpers) it is made of, starting from the curve of the last time when  *)
(* there is one, and over again until nothing changes when helpers look    *)
(* beyond their own node.                                                  *)
(*                                                                         *)
(* The traits are ZeroYield's.  Rates are whole numbers.  A helper implies *)
(* the rate at its pillar, or, if its latest relevant date lies beyond the *)
(* pillar, the mean of that rate and the next one.  A solver finds the     *)
(* root if it lies in the bracket it is given and throws if it does not.   *)
(***************************************************************************)
EXTENDS Integers, FiniteSets, FiniteSetsExt

CONSTANTS
    N,              \* number of helpers, in the order of their pillars
    Pillar,         \* the pillar date of each helper
    Beyond,         \* helpers whose pillar may be chosen before their latest
                    \* relevant date
    Dates,          \* evaluation dates
    Rates,          \* the rates that are quoted
    Invalid,        \* a quote without a value
    AvgRate,        \* detail::avgRate, the value new nodes are filled with
    MaxRate,        \* detail::maxRate, the bound when there is no guess
    MaxIterations,  \* bound: Traits::maxIterations() - 1
    MaxNode         \* bound: no calculation starts from larger nodes (each one
                    \* that fails may leave a node twice as large as the last)

Helpers == 1..N

ASSUME BootstrapAssumption ==
    /\ N \in Nat \ {0} /\ Pillar \in [Helpers -> Nat] /\ Beyond \subseteq Helpers
    /\ \A j, k \in Helpers : j < k => Pillar[j] < Pillar[k]
    /\ Dates \subseteq Nat /\ 0 \in Dates
    /\ Rates \subseteq Int /\ Invalid \notin Rates
    /\ AvgRate \in Int /\ MaxRate \in Nat \ {0}
    /\ MaxIterations \in Nat /\ MaxNode \in Nat

VARIABLES
    today,          \* Settings::evaluationDate
    quote,          \* the quote of each helper
    moving,         \* TermStructure::moving_: the curve starts today
    beyond,         \* helpers whose latest relevant date is past the pillar
    calculated,     \* LazyObject::calculated_
    initialized, validCurve, loopRequired, firstAlive,  \* of the bootstrap
    data,           \* the nodes, data[0] at the reference date
    previousData,   \* the nodes before this iteration
    interpolation,  \* the last node it covers; whether it refers to these nodes
    pc, iteration, pillar, validData,   \* where calculate() is
    unsolved        \* history: pillars given up, or solved on an interpolation
                    \* of nodes that are gone, and not solved since

market == <<today, quote, moving, beyond>>
state == <<initialized, validCurve, loopRequired, firstAlive>>
curve == <<data, previousData, interpolation>>
control == <<pc, iteration, pillar, validData>>
vars == <<market, calculated, state, curve, control, unsolved>>

Init ==
    /\ today = 0
    /\ quote \in [Helpers -> Rates]
    /\ moving \in BOOLEAN
    /\ beyond \in SUBSET Beyond
    /\ calculated = FALSE
    /\ initialized = FALSE /\ validCurve = FALSE
    /\ loopRequired \in BOOLEAN     \* Interpolator::global
    /\ firstAlive = 1
    /\ data = <<>> /\ previousData = <<>>
    /\ interpolation = [upto |-> 0, live |-> FALSE]
    /\ pc = "idle" /\ iteration = 0 /\ pillar = 1 /\ validData = FALSE
    /\ unsolved = {}

-----------------------------------------------------------------------------
\* a quote changes and the helper forwards the notification to the curve
SetQuote(j, q) ==
    /\ pc = "idle" /\ q # quote[j]
    /\ quote' = [quote EXCEPT ![j] = q]
    /\ calculated' = FALSE
    /\ UNCHANGED <<today, moving, beyond, state, curve, control, unsolved>>

\* only a moving curve is registered with the evaluation date
MoveDate(d) ==
    /\ pc = "idle" /\ d # today
    /\ today' = d
    /\ calculated' = (calculated /\ ~moving)
    /\ UNCHANGED <<quote, moving, beyond, state, curve, control, unsolved>>

\* an inspector is called
Calculate ==
    /\ pc = "idle" /\ ~calculated
    /\ \A k \in DOMAIN data : data[k] \in -MaxNode..MaxNode
    /\ calculated' = TRUE
    /\ pc' = IF ~initialized \/ moving THEN "initialize" ELSE "helpers"
    /\ UNCHANGED <<market, state, curve, iteration, pillar, validData, unsolved>>

\* calculate() of the bootstrap returns: its locals are gone, and previousData is
\* written before it is read again
Return ==
    /\ pc' = "idle"
    /\ iteration' = 0 /\ pillar' = 1 /\ validData' = FALSE
    /\ previousData' = <<>>

\* an exception leaves performCalculations(), and calculate() takes note
Throw == Return /\ calculated' = FALSE

-----------------------------------------------------------------------------
ReferenceDate == IF moving THEN today ELSE 0
AliveFrom(d) == {j \in Helpers : Pillar[j] > d}
Nodes(first) == 0..(N + 1 - first)
alive == N + 1 - firstAlive
HelperAt(i) == firstAlive + i - 1

AllExpired ==
    /\ pc = "initialize" /\ AliveFrom(ReferenceDate) = {}
    /\ Throw
    /\ UNCHANGED <<market, state, data, interpolation, unsolved>>

\* initialize(): the nodes are filled anew unless there is a curve of this size
Initialize ==
    /\ pc = "initialize" /\ AliveFrom(ReferenceDate) # {}
    /\ firstAlive' = Min(AliveFrom(ReferenceDate))
    /\ initialized' = TRUE
    /\ loopRequired' = (loopRequired \/ AliveFrom(ReferenceDate) \cap beyond # {})
    /\ IF validCurve /\ DOMAIN data = Nodes(firstAlive')
         THEN UNCHANGED <<data, interpolation>>
         ELSE /\ data' = [i \in Nodes(firstAlive') |-> AvgRate]
              /\ interpolation' = [interpolation EXCEPT !.live = FALSE]
    /\ pc' = "helpers"
    /\ UNCHANGED <<market, calculated, validCurve, previousData, iteration, pillar,
                   validData, unsolved>>

\* every helper that is alive must have a valid quote
InvalidQuote ==
    /\ pc = "helpers" /\ \E j \in firstAlive..N : quote[j] = Invalid
    /\ Throw
    /\ UNCHANGED <<market, state, data, interpolation, unsolved>>

StartPillars ==
    /\ pc = "helpers" /\ \A j \in firstAlive..N : quote[j] # Invalid
    /\ pc' = "pillars" /\ iteration' = 0 /\ pillar' = 1
    /\ validData' = validCurve
    /\ previousData' = data
    /\ unsolved' = {}
    /\ UNCHANGED <<market, calculated, state, data, interpolation>>

-----------------------------------------------------------------------------
Solving == pc = "pillars" /\ pillar <= alive

\* the values between which the solver searches
Smallest == Min({data[k] : k \in DOMAIN data})
Largest == Max({data[k] : k \in DOMAIN data})
MinValue == IF ~validData THEN -MaxRate
            ELSE IF Smallest < 0 THEN 2 * Smallest ELSE (Smallest + 1) \div 2
MaxValue == IF ~validData THEN MaxRate
            ELSE IF Largest < 0 THEN Largest \div 2 ELSE 2 * Largest

\* the interpolation is extended by one node, unless the whole curve is there
Extended ==
    IF validData THEN interpolation ELSE [upto |-> pillar, live |-> TRUE]

\* updateGuess(): the nodes with r at this pillar
WithGuess(r) ==
    [k \in DOMAIN data |-> IF k = pillar \/ (k = 0 /\ pillar = 1) THEN r ELSE data[k]]

\* helper i on nodes d is worth its quote
Matches(i, d, covered) ==
    IF HelperAt(i) \in beyond /\ i < covered.upto
      THEN d[i] + d[i + 1] = 2 * quote[HelperAt(i)]
      ELSE d[i] = quote[HelperAt(i)]

\* The values a solver can return.  What it reads through an interpolation of
\* nodes that are gone is undefined, and so is the root it finds; bound: one of
\* the rates.
Roots ==
    IF Extended.live
      THEN {r \in MinValue..MaxValue : Matches(pillar, WithGuess(r), Extended)}
      ELSE Rates \cap (MinValue..MaxValue)
Bracketed == Roots # {} /\ MinValue < MaxValue

SolvePillar ==
    /\ Solving /\ Bracketed
    /\ \E r \in Roots : data' = WithGuess(r)
    /\ interpolation' = Extended
    /\ pillar' = pillar + 1
    /\ unsolved' = IF Extended.live THEN unsolved \ {pillar}
                                    ELSE unsolved \cup {pillar}
    /\ UNCHANGED <<market, calculated, state, previousData, pc, iteration, validData>>

\* the nodes when the solver throws: it has tried both ends of the bracket
Tried == IF MinValue < MaxValue THEN WithGuess(MaxValue) ELSE data
MayFail == ~Bracketed \/ ~Extended.live

\* fault: the guess is given up for the next time only
GiveUpGuessLater ==
    /\ Solving /\ MayFail /\ validCurve
    /\ validCurve' = FALSE
    /\ data' = Tried
    /\ interpolation' = Extended
    /\ pillar' = pillar + 1
    /\ unsolved' = unsolved \cup {pillar}
    /\ UNCHANGED <<market, calculated, initialized, loopRequired, firstAlive,
                   previousData, pc, iteration, validData>>

\* the curve of the last time was a bad guess and is not used any more; the loop
\* goes on with the next pillar
GiveUpGuess ==
    /\ Solving /\ MayFail /\ validCurve
    /\ validCurve' = FALSE /\ validData' = FALSE
    /\ data' = Tried
    /\ interpolation' = Extended
    /\ pillar' = pillar + 1
    /\ unsolved' = unsolved \cup {pillar}
    /\ UNCHANGED <<market, calculated, initialized, loopRequired, firstAlive,
                   previousData, pc, iteration>>

\* a pillar cannot be solved
PillarFailed ==
    /\ Solving /\ MayFail /\ ~validCurve
    /\ data' = Tried
    /\ interpolation' = Extended
    /\ Throw
    /\ unsolved' = {}
    /\ UNCHANGED <<market, state>>

-----------------------------------------------------------------------------
PassEnded == pc = "pillars" /\ pillar > alive
\* fault: the last node is not looked at
ConvergedButLast == \A i \in 1..(alive - 1) : data[i] = previousData[i]

Converged == \A i \in 1..alive : data[i] = previousData[i]

Complete ==
    /\ PassEnded /\ (~loopRequired \/ Converged)
    /\ validCurve' = TRUE
    /\ Return
    /\ UNCHANGED <<market, calculated, initialized, loopRequired, firstAlive, data,
                   interpolation, unsolved>>

\* fault: one iteration too many
NextIterationOnceMore ==
    /\ PassEnded /\ loopRequired /\ ~Converged /\ iteration <= MaxIterations
    /\ iteration' = iteration + 1 /\ pillar' = 1
    /\ validData' = TRUE
    /\ previousData' = data
    /\ UNCHANGED <<market, calculated, state, data, interpolation, pc, unsolved>>

\* fault: iterations are not counted
NextIterationUncounted ==
    /\ PassEnded /\ loopRequired /\ ~Converged
    /\ pillar' = 1 /\ validData' = TRUE /\ previousData' = data
    /\ UNCHANGED <<market, calculated, state, data, interpolation, pc, iteration,
                   unsolved>>

NextIteration ==
    /\ PassEnded /\ loopRequired /\ ~Converged /\ iteration < MaxIterations
    /\ iteration' = iteration + 1 /\ pillar' = 1
    /\ validData' = TRUE
    /\ previousData' = data
    /\ UNCHANGED <<market, calculated, state, data, interpolation, pc, unsolved>>

NotConverged ==
    /\ PassEnded /\ loopRequired /\ ~Converged /\ iteration >= MaxIterations
    /\ Throw
    /\ unsolved' = {}
    /\ UNCHANGED <<market, state, data, interpolation>>

-----------------------------------------------------------------------------
\* one step of the calculation in progress
Step ==
    \/ AllExpired \/ Initialize
    \/ InvalidQuote \/ StartPillars
    \/ SolvePillar \/ GiveUpGuess \/ PillarFailed
    \/ Complete \/ NextIteration \/ NotConverged

Client ==
    \/ \E j \in Helpers, q \in Rates \cup {Invalid} : SetQuote(j, q)
    \/ \E d \in Dates : MoveDate(d)
    \/ Calculate

Next == Step \/ Client

\* A calculation in progress runs to its end; clients need never call.
Spec == Init /\ [][Next]_vars /\ WF_vars(Step)

-----------------------------------------------------------------------------
TypeOK ==
    /\ today \in Dates
    /\ quote \in [Helpers -> Rates \cup {Invalid}]
    /\ {moving, calculated, initialized, validCurve, loopRequired, validData}
          \subseteq BOOLEAN
    /\ firstAlive \in Helpers /\ beyond \subseteq Beyond
    /\ data = <<>> \/ DOMAIN data = Nodes(firstAlive)
    /\ \A k \in DOMAIN data : data[k] \in Int
    /\ interpolation.upto \in 0..N /\ interpolation.live \in BOOLEAN
    /\ pc \in {"idle", "initialize", "helpers", "pillars"}
    /\ iteration \in 0..MaxIterations /\ pillar \in 1..(N + 1)
    /\ unsolved \subseteq 1..N

\* the curve is served to whoever asks
Served == calculated /\ pc = "idle"

\* A curve that is served reprices every instrument but those whose
\* pillar was given up, or solved on an interpolation of nodes that are gone, and
\* not solved again: whatever failed, was quoted or expired before
\* (iterativebootstrap.hpp:187-262).
SolvedPillarsReprice ==
    Served /\ interpolation.live =>
        \A i \in (1..alive) \ unsolved : Matches(i, data, interpolation)

\* Without a convergence loop, a bootstrap fails at a pillar only if no admissible
\* rate reprices the helper: a bad guess costs nobody the curve, and neither does
\* a curve that an earlier failure left half built (iterativebootstrap.hpp:223-241).
Admissible(q) == q \in -MaxRate..MaxRate
OnlyUnsolvableFails ==
    [][PillarFailed /\ Extended.live /\ ~loopRequired
         => ~Admissible(quote[HelperAt(pillar)])]_vars

\* A bootstrap ends: it completes or throws, also if its iterations never settle
\* (iterativebootstrap.hpp:244-259).
BootstrapEnds == (pc # "idle") ~> (pc = "idle")

\* What the documentation of the curve says: the instrument at the end of each
\* segment is correctly repriced (piecewiseyieldcurve.hpp:43-47).
InstrumentsRepriced ==
    Served /\ interpolation.live => \A i \in 1..alive : Matches(i, data, interpolation)
=============================================================================
