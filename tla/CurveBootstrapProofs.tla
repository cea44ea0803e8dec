------------------------- MODULE CurveBootstrapProofs -------------------------
(***************************************************************************)
(* What CurveBootstrap promises, for any number of helpers, any rates and  *)
(* any interpolation.                                                      *)
(*                                                                         *)
(* Shaped says that once the bootstrap is initialized its nodes are those  *)
(* of the helpers alive.  A calculation takes the nodes for a guess only   *)
(* if it still believes the last curve, or iterates (GuessJustified).  The *)
(* pillars a pass is done with reprice their helpers with the next node as *)
(* it was before the pass (PassedReprice), and what the pass has converged *)
(* to has not moved: so the curve that is served reprices its helpers.     *)
(***************************************************************************)
EXTENDS CurveBootstrap, FiniteSetTheorems, TLAPS

InterpolationFields == {"upto", "live"}

Shaped ==
    /\ initialized => data \in [Nodes(firstAlive) -> Int]
    /\ pc \in {"helpers", "pillars"} \/ validCurve => initialized
    /\ pc = "pillars" => pillar <= alive + 1
    /\ DOMAIN interpolation = InterpolationFields

GuessJustified == pc = "pillars" /\ validData => validCurve \/ loopRequired

\* a helper that is alive looks beyond its pillar, and so at the next node
LooksAhead == \E i \in 1..alive : HelperAt(i) \in beyond

\* helper i is worth its quote, if the next node stays what it was before the pass
PassedMatches(i) ==
    IF HelperAt(i) \in beyond /\ i < interpolation.upto
      THEN data[i] + previousData[i + 1] = 2 * quote[HelperAt(i)]
      ELSE data[i] = quote[HelperAt(i)]

PassedReprice ==
    /\ initialized => loopRequired \/ ~LooksAhead
    /\ interpolation.live => interpolation.upto <= alive
    /\ pc = "pillars" => \A k \in 1..alive : k >= pillar => data[k] = previousData[k]
    /\ pc = "pillars" /\ (LooksAhead => validData)
         => \A i \in (1..pillar - 1) \ unsolved : PassedMatches(i)
    /\ SolvedPillarsReprice

\* Premise: a calculation is declared complete by a pass that started from a whole
\* curve, if helpers look ahead.
WholePass == [][Complete /\ LooksAhead => validData]_vars

-----------------------------------------------------------------------------
(***************************************************************************)
(* The least and the greatest number of a set, as Min and Max of           *)
(* FiniteSetsExt choose them: when they exist and what they are.           *)
(***************************************************************************)

\* A set of natural numbers has a least one.
LEMMA LeastNatural ==
    ASSUME NEW T \in SUBSET Nat, T # {}
    PROVE  \E x \in T : \A y \in T : x <= y
<1> DEFINE less == {ss \in Nat \X Nat : ss[1] < ss[2]}
<1>1. OpToRel(<, Nat) = less
    BY DEF OpToRel
<1>2. IsWellFoundedOn(less, Nat)
    BY <1>1, NatLessThanWellFounded
<1>3. PICK x \in T : \A y \in T : ~ (<<y, x>> \in less)
    <2> HIDE DEF less
    <2> QED BY <1>2, WFMin
<1>4. ASSUME NEW y \in T, ~ (x <= y)
      PROVE  FALSE
    <2>1. <<y, x>> \in Nat \X Nat /\ y < x
        BY <1>4
    <2>2. <<y, x>> \in less
        BY <2>1
    <2> QED BY <1>3, <2>2
<1> QED BY <1>4

\* What Min and Max return, if there is anything to return.
LEMMA MinIsLeast ==
    ASSUME NEW S \in SUBSET Int, NEW x \in S, \A y \in S : x <= y
    PROVE  Min(S) \in S /\ \A y \in S : Min(S) <= y
BY DEF Min

LEMMA MaxIsGreatest ==
    ASSUME NEW S \in SUBSET Int, NEW x \in S, \A y \in S : x >= y
    PROVE  Max(S) \in S /\ \A y \in S : Max(S) >= y
BY DEF Max

\* A set of integers that is bounded below has a minimum, one that is bounded
\* above a maximum.
LEMMA MinBounded ==
    ASSUME NEW S \in SUBSET Int, S # {}, NEW low \in Int, \A y \in S : low <= y
    PROVE  Min(S) \in S /\ \A y \in S : Min(S) <= y
<1> DEFINE T == {t \in Nat : low + t \in S}
<1>1. T \in SUBSET Nat /\ T # {}
    <2>1. PICK y \in S : TRUE
        OBVIOUS
    <2>2. y - low \in T
        BY <2>1
    <2> QED BY <2>2
<1>2. PICK t \in T : \A u \in T : t <= u
    BY <1>1, LeastNatural
<1> DEFINE x == low + t
<1>3. x \in S /\ t \in Nat
    BY <1>2
<1>4. \A y \in S : x <= y
    <2> TAKE y \in S
    <2>1. y - low \in T
        OBVIOUS
    <2>2. t <= y - low
        BY <1>2, <2>1
    <2> QED BY <1>3, <2>2
<1> QED BY <1>3, <1>4, MinIsLeast

LEMMA MaxBounded ==
    ASSUME NEW S \in SUBSET Int, S # {}, NEW high \in Int, \A y \in S : y <= high
    PROVE  Max(S) \in S /\ \A y \in S : Max(S) >= y
<1> DEFINE T == {t \in Nat : high - t \in S}
<1>1. T \in SUBSET Nat /\ T # {}
    <2>1. PICK y \in S : TRUE
        OBVIOUS
    <2>2. high - y \in T
        BY <2>1
    <2> QED BY <2>2
<1>2. PICK t \in T : \A u \in T : t <= u
    BY <1>1, LeastNatural
<1> DEFINE x == high - t
<1>3. x \in S /\ t \in Nat
    BY <1>2
<1>4. \A y \in S : x >= y
    <2> TAKE y \in S
    <2>1. high - y \in T
        OBVIOUS
    <2>2. t <= high - y
        BY <1>2, <2>1
    <2> QED BY <1>3, <2>2
<1> QED BY <1>3, <1>4, MaxIsGreatest

\* The values of a sequence that starts at 0 have a minimum and a maximum.
LEMMA RangeBounded ==
    ASSUME NEW n \in Nat, NEW f \in [0..n -> Int]
    PROVE  \E low, high \in Int : \A k \in 0..n : low <= f[k] /\ f[k] <= high
<1> DEFINE bounded(m) == \E low, high \in Int : \A k \in 0..m : low <= f[k] /\ f[k] <= high
           U == {m \in 0..n : ~bounded(m)}
<1>1. SUFFICES ASSUME U # {} PROVE FALSE
    <2>1. n \in 0..n
        OBVIOUS
    <2> QED BY <2>1
<1>2. PICK m \in U : \A u \in U : m <= u
    <2>1. U \in SUBSET Nat
        OBVIOUS
    <2> QED BY <1>1, <2>1, LeastNatural
<1>3. m # 0
    <2>1. bounded(0)
        <3>1. f[0] \in Int /\ \A k \in 0..0 : f[0] <= f[k] /\ f[k] <= f[0]
            OBVIOUS
        <3> QED BY <3>1
    <2> QED BY <1>2, <2>1
<1>4. m - 1 \in 0..n /\ bounded(m - 1)
    <2>1. m \in 0..n /\ m - 1 \in 0..n
        BY <1>2, <1>3
    <2>2. m - 1 \notin U
        <3> HIDE DEF U
        <3> QED BY <1>2, <2>1
    <2> QED BY <2>1, <2>2
<1>5. PICK low \in Int, high \in Int : \A k \in 0..(m - 1) : low <= f[k] /\ f[k] <= high
    BY <1>4
<1> DEFINE l == IF f[m] < low THEN f[m] ELSE low
           h == IF f[m] > high THEN f[m] ELSE high
<1>6. /\ m \in 0..n /\ f[m] \in Int
      /\ l \in Int /\ h \in Int /\ l <= low /\ l <= f[m] /\ high <= h /\ f[m] <= h
    BY <1>2
<1> HIDE DEF l, h
<1>7. \A k \in 0..m : l <= f[k] /\ f[k] <= h
    <2> TAKE k \in 0..m
    <2>1. CASE k = m
        BY <1>6, <2>1
    <2>2. CASE k # m
        <3>1. k \in 0..(m - 1) /\ f[k] \in Int
            BY <1>6, <2>2
        <3> QED BY <1>5, <1>6, <3>1
    <2> QED BY <2>1, <2>2
<1>8. bounded(m)
    BY <1>6, <1>7
<1> QED BY <1>2, <1>8

-----------------------------------------------------------------------------
LEMMA AliveBounds ==
    ASSUME TypeOK
    PROVE  /\ N \in Nat /\ firstAlive \in 1..N /\ alive \in 1..N
           /\ Nodes(firstAlive) = 0..alive
BY BootstrapAssumption DEF TypeOK, Helpers, alive, Nodes

\* The first helper that is alive is one of the helpers.
LEMMA FirstAlive ==
    ASSUME NEW d, AliveFrom(d) # {}
    PROVE  Min(AliveFrom(d)) \in Helpers
<1>1. AliveFrom(d) \in SUBSET Int /\ \A j \in AliveFrom(d) : 1 <= j
    BY BootstrapAssumption DEF AliveFrom, Helpers
<1>2. Min(AliveFrom(d)) \in AliveFrom(d)
    BY <1>1, MinBounded
<1> QED BY <1>2 DEF AliveFrom

\* The bracket of the solver is made of numbers.
LEMMA Bracket ==
    ASSUME TypeOK, Shaped, Solving
    PROVE  MaxValue \in Int
<1>1. CASE ~validData
    BY <1>1, BootstrapAssumption DEF MaxValue
<1>2. CASE validData
    <2>1. alive \in Nat /\ data \in [0..alive -> Int]
        BY AliveBounds DEF Solving, Shaped
    <2>2. PICK low \in Int, high \in Int :
              \A k \in 0..alive : low <= data[k] /\ data[k] <= high
        BY <2>1, RangeBounded
    <2> DEFINE values == {data[k] : k \in DOMAIN data}
    <2>3. /\ values \in SUBSET Int /\ data[0] \in values
          /\ \A y \in values : y <= high
        BY <2>1, <2>2
    <2>4. Max(values) \in Int
        <3> HIDE DEF values
        <3> QED BY <2>3, MaxBounded
    <2> QED BY <1>2, <2>4 DEF MaxValue, Largest
<1> QED BY <1>1, <1>2

\* A guess replaces the node of the pillar, and the first node with the second.
LEMMA Guessed ==
    ASSUME TypeOK, Shaped, Solving, NEW r \in Int
    PROVE  /\ WithGuess(r) \in [Nodes(firstAlive) -> Int]
           /\ pillar \in 1..alive
           /\ WithGuess(r)[pillar] = r
           /\ \A i \in 1..alive : i # pillar => WithGuess(r)[i] = data[i]
<1>1. data \in [0..alive -> Int] /\ alive \in 1..N /\ pillar \in 1..alive /\ N \in Nat
    BY AliveBounds DEF Solving, Shaped, TypeOK
<1> QED BY <1>1, AliveBounds DEF WithGuess

LEMMA TriedIsGuess ==
    ASSUME TypeOK, Shaped, Solving
    PROVE  /\ Tried \in [Nodes(firstAlive) -> Int]
           /\ \A i \in 1..alive : i # pillar => Tried[i] = data[i]
<1>1. data \in [Nodes(firstAlive) -> Int]
    BY DEF Solving, Shaped
<1> QED BY <1>1, Bracket, Guessed DEF Tried

LEMMA ExtendedShape ==
    ASSUME TypeOK, Shaped, Solving
    PROVE  /\ DOMAIN Extended = InterpolationFields
           /\ Extended.upto \in 0..N /\ Extended.live \in BOOLEAN
<1>1. pillar \in 1..N /\ N \in Nat
    BY AliveBounds DEF Solving, Shaped, TypeOK
<1>2. CASE validData
    BY <1>2 DEF Extended, TypeOK, Shaped
<1>3. CASE ~validData
    BY <1>1, <1>3 DEF Extended, InterpolationFields
<1> QED BY <1>2, <1>3

-----------------------------------------------------------------------------
LEMMA TypeInit == Init => TypeOK /\ Shaped
<1> SUFFICES ASSUME Init PROVE TypeOK /\ Shaped
    OBVIOUS
<1>1. N \in Nat \ {0} /\ 0 \in Dates /\ MaxIterations \in Nat
    BY BootstrapAssumption
<1>2. data = <<>> /\ DOMAIN data = {}
    BY DEF Init
<1>3. quote \in [Helpers -> Rates \cup {Invalid}]
    BY DEF Init
<1>4. DOMAIN interpolation = InterpolationFields /\ interpolation.upto = 0
      /\ interpolation.live = FALSE
    BY DEF Init, InterpolationFields
<1>5. firstAlive \in Helpers /\ pillar \in 1..(N + 1) /\ iteration \in 0..MaxIterations
    BY <1>1 DEF Init, Helpers
<1>6. TypeOK
    <2>1. {moving, calculated, initialized, validCurve, loopRequired, validData}
              \subseteq BOOLEAN
        BY DEF Init
    <2>2. today \in Dates /\ beyond \subseteq Beyond /\ unsolved \subseteq 1..N
          /\ pc = "idle"
        BY <1>1 DEF Init
    <2>3. /\ data = <<>> \/ DOMAIN data = Nodes(firstAlive)
          /\ \A k \in DOMAIN data : data[k] \in Int
        BY <1>2
    <2>4. interpolation.upto \in 0..N
        BY <1>1, <1>4
    <2>5. interpolation.live \in BOOLEAN
        BY <1>4, Zenon
    <2> QED BY <1>3, <1>5, <2>1, <2>2, <2>3, <2>4, <2>5 DEF TypeOK
<1> QED BY <1>4, <1>6 DEF Init, Shaped

LEMMA TypeStep == TypeOK /\ Shaped /\ [Next]_vars => TypeOK' /\ Shaped'
<1> SUFFICES ASSUME TypeOK, Shaped, [Next]_vars PROVE TypeOK' /\ Shaped'
    OBVIOUS
<1> USE DEF market, state, curve, control
<1>n. /\ N \in Nat /\ firstAlive \in 1..N /\ alive \in 1..N /\ MaxIterations \in Nat
      /\ Nodes(firstAlive) = 0..alive
    BY AliveBounds, BootstrapAssumption
<1>1. ASSUME NEW j \in Helpers, NEW q \in Rates \cup {Invalid}, SetQuote(j, q)
      PROVE  TypeOK' /\ Shaped'
    BY <1>1 DEF SetQuote, TypeOK, Shaped, alive, Nodes
<1>2. ASSUME NEW d \in Dates, MoveDate(d)
      PROVE  TypeOK' /\ Shaped'
    BY <1>2 DEF MoveDate, TypeOK, Shaped, alive, Nodes
<1>3. CASE Calculate
    BY <1>3 DEF Calculate, TypeOK, Shaped, alive, Nodes
<1>4. ASSUME Throw, UNCHANGED <<market, state, interpolation>>,
             data' = data \/ (initialized /\ data' \in [Nodes(firstAlive) -> Int]),
             unsolved' \subseteq 1..N
      PROVE  TypeOK' /\ Shaped'
    <2>1. /\ data' = <<>> \/ DOMAIN data' = Nodes(firstAlive')
          /\ \A k \in DOMAIN data' : data'[k] \in Int
        BY <1>4 DEF TypeOK
    <2>2. iteration' \in 0..MaxIterations /\ pillar' \in 1..(N + 1)
        BY <1>4, <1>n DEF Throw, Return
    <2>3. TypeOK'
        BY <1>4, <2>1, <2>2 DEF Throw, Return, TypeOK, Nodes
    <2>4. initialized' => data' \in [Nodes(firstAlive') -> Int]
        BY <1>4 DEF Shaped
    <2> QED BY <1>4, <2>3, <2>4 DEF Throw, Return, Shaped, Nodes
<1>5. CASE AllExpired
    BY <1>4, <1>5 DEF AllExpired, TypeOK
<1>6. CASE InvalidQuote
    BY <1>4, <1>6 DEF InvalidQuote, TypeOK
<1>7. CASE Initialize
    <2>1. firstAlive' \in Helpers
        BY <1>7, FirstAlive DEF Initialize
    <2>2. /\ data' \in [Nodes(firstAlive') -> Int]
        <3>1. CASE validCurve /\ DOMAIN data = Nodes(firstAlive')
            BY <1>7, <3>1 DEF Initialize, Shaped
        <3>2. CASE ~(validCurve /\ DOMAIN data = Nodes(firstAlive'))
            BY <1>7, <3>2, BootstrapAssumption DEF Initialize
        <3> QED BY <3>1, <3>2
    <2>3. /\ DOMAIN interpolation' = InterpolationFields
          /\ interpolation'.upto \in 0..N /\ interpolation'.live \in BOOLEAN
        BY <1>7 DEF Initialize, TypeOK, Shaped, InterpolationFields
    <2>4. TypeOK'
        BY <1>7, <2>1, <2>2, <2>3 DEF Initialize, TypeOK
    <2> QED BY <1>7, <2>2, <2>3, <2>4 DEF Initialize, Shaped, Nodes
<1>8. CASE StartPillars
    <2>1. alive' = alive
        BY <1>8 DEF StartPillars, alive
    <2> QED BY <1>8, <1>n, <2>1 DEF StartPillars, TypeOK, Shaped, Nodes
<1>9. ASSUME Solving, NEW d \in [Nodes(firstAlive) -> Int], data' = d,
             interpolation' = Extended, pillar' = pillar + 1,
             unsolved' \subseteq unsolved \cup {pillar},
             UNCHANGED <<market, calculated, initialized, loopRequired, firstAlive,
                         pc, iteration>>,
             {validCurve', validData'} \subseteq BOOLEAN
      PROVE  TypeOK' /\ Shaped'
    <2>1. pillar \in 1..N /\ pillar + 1 \in 1..(N + 1) /\ pillar + 1 <= alive + 1
        BY <1>9, <1>n DEF Solving, TypeOK
    <2>2. alive' = alive /\ initialized
        BY <1>9 DEF alive, Solving, Shaped
    <2>3. TypeOK'
        BY <1>9, <1>n, <2>1, <2>2, ExtendedShape DEF TypeOK, Nodes
    <2> QED BY <1>9, <2>1, <2>2, <2>3, ExtendedShape DEF Shaped, Nodes
<1>10. CASE SolvePillar
    <2>1. PICK r \in Roots : data' = WithGuess(r)
        BY <1>10 DEF SolvePillar
    <2>2. r \in Int
        BY <2>1 DEF Roots
    <2>3. data' \in [Nodes(firstAlive) -> Int]
        BY <1>10, <2>1, <2>2, Guessed DEF SolvePillar
    <2> QED BY <1>9, <1>10, <2>3 DEF SolvePillar, TypeOK
<1>11. CASE GiveUpGuess
    BY <1>9, <1>11, TriedIsGuess DEF GiveUpGuess, TypeOK
<1>12. CASE PillarFailed
    <2>1. data' \in [Nodes(firstAlive) -> Int] /\ initialized
        BY <1>12, TriedIsGuess DEF PillarFailed, Solving, Shaped
    <2>2. /\ DOMAIN interpolation' = InterpolationFields
          /\ interpolation'.upto \in 0..N /\ interpolation'.live \in BOOLEAN
        BY <1>12, ExtendedShape DEF PillarFailed
    <2>3. /\ pc' = "idle" /\ iteration' = 0 /\ pillar' = 1 /\ validData' = FALSE
          /\ calculated' = FALSE /\ unsolved' = {}
          /\ UNCHANGED <<market, initialized, validCurve, loopRequired, firstAlive>>
        BY <1>12 DEF PillarFailed, Throw, Return
    <2>4. DOMAIN data' = Nodes(firstAlive') /\ \A k \in DOMAIN data' : data'[k] \in Int
        BY <2>1, <2>3
    <2>5. TypeOK'
        <3>1. iteration' \in 0..MaxIterations /\ pillar' \in 1..(N + 1)
              /\ unsolved' \subseteq 1..N /\ firstAlive' \in Helpers
            BY <1>n, <2>3 DEF TypeOK
        <3>2. {moving', calculated', initialized', validCurve', loopRequired', validData'}
                  \subseteq BOOLEAN
            BY <2>3 DEF TypeOK
        <3>3. /\ today' \in Dates /\ quote' \in [Helpers -> Rates \cup {Invalid}]
              /\ beyond' \subseteq Beyond
            BY <2>3 DEF TypeOK
        <3> QED BY <2>2, <2>3, <2>4, <3>1, <3>2, <3>3 DEF TypeOK
    <2> QED BY <2>1, <2>2, <2>3, <2>5 DEF Shaped, Nodes
<1>13. CASE Complete
    <2>1. iteration' \in 0..MaxIterations /\ pillar' \in 1..(N + 1) /\ initialized
        BY <1>13, <1>n DEF Complete, PassEnded, Return, Shaped
    <2>2. TypeOK'
        BY <1>13, <2>1 DEF Complete, Return, TypeOK, Nodes
    <2> QED BY <1>13, <2>1, <2>2 DEF Complete, Return, Shaped, Nodes
<1>14. CASE NextIteration
    <2>1. iteration' \in 0..MaxIterations /\ pillar' \in 1..(N + 1)
          /\ alive' = alive /\ pillar' <= alive' + 1
        BY <1>14, <1>n DEF NextIteration, TypeOK, alive
    <2>2. TypeOK'
        BY <1>14, <2>1 DEF NextIteration, TypeOK, Nodes
    <2> QED BY <1>14, <2>1, <2>2 DEF NextIteration, Shaped, Nodes
<1>15. CASE NotConverged
    BY <1>4, <1>15 DEF NotConverged
<1>16. CASE UNCHANGED vars
    BY <1>16 DEF vars, TypeOK, Shaped, alive, Nodes
<1> QED
    BY <1>1, <1>2, <1>3, <1>5, <1>6, <1>7, <1>8, <1>10, <1>11, <1>12, <1>13, <1>14,
       <1>15, <1>16 DEF Next, Step, Client

\* Whatever fails, every state of the bootstrap is well formed: its nodes are those
\* of the helpers alive, or there are none yet (iterativebootstrap.hpp:119-150).
THEOREM TypeInvariance == Spec => []TypeOK
BY TypeInit, TypeStep, PTL DEF Spec

-----------------------------------------------------------------------------
LEMMA GuessInit == Init => GuessJustified
BY DEF Init, GuessJustified

\* When the guess is given up, for the last curve and for this calculation, both
\* flags are cleared; an iteration sets validData only if iterations are needed.
LEMMA GuessStep == GuessJustified /\ [Next]_vars => GuessJustified'
BY DEF GuessJustified, Next, Step, Client, vars, market, state, curve, control, SetQuote,
       MoveDate, Calculate, AllExpired, Initialize, InvalidQuote, StartPillars,
       SolvePillar, GiveUpGuess, PillarFailed, Complete, NextIteration, NotConverged,
       Throw, Return, Solving, PassEnded

\* Any admissible rate is a root of a bootstrap without a guess.
LEMMA AdmissibleIsRoot ==
    ASSUME TypeOK, Shaped, Solving, ~validData, Admissible(quote[HelperAt(pillar)])
    PROVE  Bracketed
<1> DEFINE q == quote[HelperAt(pillar)]
<1>1. MinValue = -MaxRate /\ MaxValue = MaxRate /\ MaxRate \in Nat \ {0}
    BY BootstrapAssumption DEF MinValue, MaxValue
<1>2. Extended = [upto |-> pillar, live |-> TRUE] /\ pillar \in 1..N
    BY AliveBounds DEF Extended, Solving, TypeOK
<1>3. q \in MinValue..MaxValue /\ q \in Int
    BY <1>1 DEF Admissible
<1>4. Matches(pillar, WithGuess(q), Extended)
    BY <1>2, <1>3, Guessed DEF Matches
<1>5. q \in Roots
    BY <1>2, <1>3, <1>4 DEF Roots
<1> QED BY <1>1, <1>5 DEF Bracketed

\* Without a convergence loop a bootstrap fails at a pillar only if no admissible
\* rate reprices the helper: neither a bad guess nor a curve that an earlier failure
\* left half built costs anybody the curve (iterativebootstrap.hpp:223-241).
THEOREM FailsOnlyIfUnsolvable == Spec => OnlyUnsolvableFails
<1>1. ASSUME TypeOK, Shaped, GuessJustified, PillarFailed, Extended.live, ~loopRequired
      PROVE  ~Admissible(quote[HelperAt(pillar)])
    <2>1. Solving /\ ~validCurve /\ ~Bracketed
        BY <1>1 DEF PillarFailed, MayFail
    <2>2. ~validData
        BY <1>1, <2>1 DEF GuessJustified, Solving
    <2> QED BY <1>1, <2>1, <2>2, AdmissibleIsRoot
<1>2. TypeOK /\ Shaped /\ GuessJustified /\ [Next]_vars
        => [PillarFailed /\ Extended.live /\ ~loopRequired
              => ~Admissible(quote[HelperAt(pillar)])]_vars
    BY <1>1
<1> QED BY <1>2, TypeInit, TypeStep, GuessInit, GuessStep, PTL
        DEF Spec, OnlyUnsolvableFails

-----------------------------------------------------------------------------
LEMMA PassedInit == Init => PassedReprice
<1> SUFFICES ASSUME Init PROVE PassedReprice
    OBVIOUS
<1>1. ~initialized /\ ~interpolation.live /\ pc = "idle" /\ ~calculated
    BY DEF Init
<1> QED BY <1>1 DEF PassedReprice, SolvedPillarsReprice, Served

\* The helpers from the first that is alive on are those that are alive.
LEMMA AliveAreLast ==
    ASSUME NEW d \in Int, AliveFrom(d) # {}
    PROVE  AliveFrom(d) = Min(AliveFrom(d))..N
<1>1. AliveFrom(d) \in SUBSET Int /\ \A j \in AliveFrom(d) : 1 <= j
    BY BootstrapAssumption DEF AliveFrom, Helpers
<1> DEFINE first == Min(AliveFrom(d))
<1>2. first \in AliveFrom(d) /\ \A j \in AliveFrom(d) : first <= j
    BY <1>1, MinBounded
<1> HIDE DEF first
<1>3. first \in Helpers /\ Pillar[first] > d
    BY <1>2 DEF AliveFrom
<1>4. ASSUME NEW j \in first..N
      PROVE  j \in AliveFrom(d)
    <2>1. j \in Helpers /\ N \in Nat
        BY <1>3, BootstrapAssumption DEF Helpers
    <2>2. CASE j = first
        BY <1>2, <2>2
    <2>3. CASE j # first
        <3>1. first < j
            BY <1>3, <2>1, <2>3 DEF Helpers
        <3>2. Pillar[first] < Pillar[j] /\ Pillar[first] \in Nat /\ Pillar[j] \in Nat
            BY <1>3, <2>1, <3>1, BootstrapAssumption
        <3> QED BY <1>3, <2>1, <3>2 DEF AliveFrom
    <2> QED BY <2>2, <2>3
<1>5. ASSUME NEW j \in AliveFrom(d)
      PROVE  j \in first..N
    BY <1>2, <1>3, BootstrapAssumption DEF AliveFrom, Helpers
<1> QED BY <1>4, <1>5 DEF first

LEMMA HelperRange ==
    ASSUME NEW n \in Nat, NEW first \in 1..n, NEW i \in 1..(n + 1 - first)
    PROVE  first + i - 1 \in first..n
OBVIOUS

\* initialize() asks for the loop if a helper that is alive looks ahead.
LEMMA LoopIsAskedFor ==
    ASSUME TypeOK, Shaped, Initialize
    PROVE  loopRequired' \/ ~LooksAhead'
<1> SUFFICES ASSUME NEW i \in 1..alive', (HelperAt(i) \in beyond)'
             PROVE  loopRequired'
    BY DEF LooksAhead
<1>1. PICK first \in 1..N : first = firstAlive'
    BY FirstAlive DEF Initialize, Helpers
<1>2. AliveFrom(ReferenceDate) = first..N
    <2>1. ReferenceDate \in Int
        BY BootstrapAssumption DEF ReferenceDate, TypeOK
    <2> QED BY <1>1, <2>1, AliveAreLast DEF Initialize
<1>3. first + i - 1 \in first..N
    <2>1. i \in 1..(N + 1 - first) /\ N \in Nat
        BY <1>1, BootstrapAssumption DEF alive
    <2> QED BY <2>1, HelperRange
<1>4. first + i - 1 \in beyond
    BY <1>1 DEF Initialize, market, HelperAt
<1> QED BY <1>2, <1>3, <1>4 DEF Initialize

\* An interpolation of the nodes there are covers no more than there are.
LEMMA InitializeCovers ==
    ASSUME TypeOK, Shaped, PassedReprice, Initialize, interpolation'.live
    PROVE  interpolation'.upto <= alive'
<1>1. validCurve /\ DOMAIN data = Nodes(firstAlive') /\ interpolation' = interpolation
    BY DEF Initialize, Shaped, InterpolationFields
<1>2. DOMAIN data = Nodes(firstAlive)
    BY <1>1 DEF Shaped
<1>3. PICK first \in 1..N : first = firstAlive'
    BY FirstAlive DEF Initialize, Helpers
<1>4. PICK n \in Nat, m \in Nat : n = N + 1 - firstAlive /\ m = N + 1 - first
    BY <1>3, AliveBounds
<1>5. 0..n = 0..m
    BY <1>1, <1>2, <1>3, <1>4 DEF Nodes
<1>6. alive' = alive
    <2>1. n \in 0..m /\ m \in 0..n
        <3>1. n \in 0..n /\ m \in 0..m
            BY <1>4
        <3> QED BY <1>5, <3>1
    <2>2. n = m
        BY <2>1
    <2> QED BY <1>3, <1>4, <2>2 DEF alive
<1> QED BY <1>1, <1>6 DEF PassedReprice

LEMMA ExtendedCovers ==
    ASSUME TypeOK, Shaped, PassedReprice, Solving, Extended.live
    PROVE  Extended.upto <= alive
BY AliveBounds DEF Extended, PassedReprice, Solving, TypeOK

\* The step from one pillar to the next, whether it was solved or given up: the nodes
\* behind it are left alone, and those ahead are what they were before the pass.
LEMMA NextPillar ==
    ASSUME TypeOK, Shaped, PassedReprice, Solving,
           pc' = pc, pillar' = pillar + 1, interpolation' = Extended,
           validData' => validData,
           UNCHANGED <<market, calculated, initialized, loopRequired, firstAlive, previousData>>,
           \A i \in 1..alive : i # pillar => data'[i] = data[i],
           unsolved \ {pillar} \subseteq unsolved',
           pillar \in unsolved' \/ (Extended.live /\ data' = WithGuess(data'[pillar])
                                    /\ data'[pillar] \in Int
                                    /\ Matches(pillar, data', Extended))
    PROVE  PassedReprice'
<1> USE DEF market
<1>1. /\ N \in Nat /\ alive \in 1..N /\ alive' = alive /\ pillar \in 1..alive
      /\ pc = "pillars" /\ LooksAhead' = LooksAhead
      /\ \A i : HelperAt(i)' = HelperAt(i)
    BY AliveBounds DEF Solving, TypeOK, alive, HelperAt, LooksAhead
<1>2. (initialized => loopRequired \/ ~LooksAhead)'
    BY <1>1 DEF PassedReprice
<1>3. (interpolation.live => interpolation.upto <= alive)'
    BY <1>1, ExtendedCovers
<1>4. \A k \in 1..alive : k >= pillar' => data'[k] = previousData'[k]
    BY <1>1 DEF PassedReprice
<1>5. ASSUME LooksAhead => validData', NEW i \in (1..pillar' - 1) \ unsolved'
      PROVE  PassedMatches(i)'
    <2>1. validData => interpolation' = interpolation
        BY DEF Extended
    <2>2. CASE i = pillar
        <3>1. Matches(i, data', Extended) /\ Extended.live
            BY <1>5, <2>2
        <3>2. CASE HelperAt(i) \in beyond /\ i < Extended.upto
            <4>1. i + 1 \in 1..alive /\ i + 1 >= pillar /\ i + 1 # pillar
                BY <1>1, <2>2, <3>1, <3>2, ExtendedShape, ExtendedCovers
            <4>2. data'[i + 1] = previousData[i + 1]
                BY <1>1, <4>1 DEF PassedReprice
            <4> QED BY <1>1, <3>1, <3>2, <4>2 DEF Matches, PassedMatches
        <3>3. CASE ~(HelperAt(i) \in beyond /\ i < Extended.upto)
            BY <1>1, <3>1, <3>3 DEF Matches, PassedMatches
        <3> QED BY <3>2, <3>3
    <2>3. CASE i # pillar
        <3>1. i \in (1..pillar - 1) \ unsolved /\ i \in 1..alive
            BY <1>1, <1>5, <2>3
        <3>2. PassedMatches(i)
            BY <1>1, <1>5, <3>1 DEF PassedReprice
        <3>3. data'[i] = data[i]
            BY <2>3, <3>1
        <3>4. CASE LooksAhead
            BY <1>1, <1>5, <2>1, <3>2, <3>3, <3>4 DEF PassedMatches
        <3>5. CASE ~LooksAhead
            BY <1>1, <3>1, <3>2, <3>3, <3>5 DEF PassedMatches, LooksAhead
        <3> QED BY <3>4, <3>5
    <2> QED BY <2>2, <2>3
<1>6. SolvedPillarsReprice'
    BY <1>1 DEF SolvedPillarsReprice, Served
<1> QED BY <1>1, <1>2, <1>3, <1>4, <1>5, <1>6 DEF PassedReprice

\* What a pass that started from a whole curve has converged to reprices.
LEMMA ConvergedReprices ==
    ASSUME TypeOK, Shaped, PassedReprice, Complete, LooksAhead => validData
    PROVE  SolvedPillarsReprice'
<1> USE DEF market
<1> SUFFICES ASSUME interpolation.live, NEW i \in (1..alive) \ unsolved
             PROVE  Matches(i, data, interpolation)
    BY DEF SolvedPillarsReprice, Complete, Return, alive, Matches, HelperAt
<1>1. /\ N \in Nat /\ alive \in 1..N /\ pillar = alive + 1 /\ pc = "pillars" /\ initialized
      /\ interpolation.upto \in 0..N
    BY AliveBounds DEF Complete, PassEnded, Shaped, TypeOK
<1>2. PassedMatches(i)
    BY <1>1 DEF PassedReprice
<1>3. CASE HelperAt(i) \in beyond /\ i < interpolation.upto
    <2>1. i + 1 \in 1..alive
        BY <1>1, <1>3 DEF PassedReprice
    <2>2. Converged
        BY <1>1, <1>3 DEF Complete, PassedReprice, LooksAhead
    <2>3. data[i + 1] = previousData[i + 1]
        BY <2>1, <2>2 DEF Converged
    <2> QED BY <1>2, <1>3, <2>3 DEF PassedMatches, Matches
<1>4. CASE ~(HelperAt(i) \in beyond /\ i < interpolation.upto)
    BY <1>2, <1>4 DEF PassedMatches, Matches
<1> QED BY <1>3, <1>4

LEMMA PassedStep ==
    TypeOK /\ Shaped /\ PassedReprice /\ [Next]_vars
        /\ [Complete /\ LooksAhead => validData]_vars => PassedReprice'
<1> SUFFICES ASSUME TypeOK, Shaped, PassedReprice, [Next]_vars,
                    [Complete /\ LooksAhead => validData]_vars
             PROVE  PassedReprice'
    OBVIOUS
<1> USE DEF market, state, curve, control
<1>n. N \in Nat /\ alive \in 1..N /\ pillar \in 1..(N + 1)
    BY AliveBounds DEF TypeOK
<1>1. ASSUME pc' # "pillars", ~calculated' \/ pc' # "idle",
             UNCHANGED <<initialized, loopRequired, firstAlive, beyond>>,
             interpolation'.live => interpolation'.upto <= alive
      PROVE  PassedReprice'
    BY <1>1 DEF PassedReprice, SolvedPillarsReprice, Served, LooksAhead, HelperAt, alive
<1>2. ASSUME UNCHANGED <<pc, state, curve, pillar, validData, unsolved, quote, beyond>>,
             calculated' => calculated
      PROVE  PassedReprice'
    BY <1>2 DEF PassedReprice, SolvedPillarsReprice, Served, LooksAhead, PassedMatches,
                Matches, HelperAt, alive
<1>3. ASSUME NEW j \in Helpers, NEW q \in Rates \cup {Invalid}, SetQuote(j, q)
      PROVE  PassedReprice'
    BY <1>1, <1>3 DEF SetQuote, PassedReprice
<1>4. ASSUME NEW d \in Dates, MoveDate(d)
      PROVE  PassedReprice'
    BY <1>2, <1>4 DEF MoveDate
<1>5. CASE Calculate
    BY <1>1, <1>5 DEF Calculate, PassedReprice
<1>6. CASE Initialize
    <2>1. pc' = "helpers"
        BY <1>6 DEF Initialize
    <2> QED BY <1>6, <2>1, LoopIsAskedFor, InitializeCovers
            DEF PassedReprice, SolvedPillarsReprice, Served
<1>7. CASE AllExpired \/ InvalidQuote \/ NotConverged
    BY <1>1, <1>7 DEF AllExpired, InvalidQuote, NotConverged, Throw, Return, PassedReprice
<1>8. CASE PillarFailed
    <2>1. Solving /\ interpolation' = Extended
        BY <1>8 DEF PillarFailed
    <2>2. interpolation'.live => interpolation'.upto <= alive
        BY <2>1, ExtendedCovers
    <2> QED BY <1>1, <1>8, <2>2 DEF PillarFailed, Throw, Return
<1>9. CASE StartPillars \/ NextIteration
    <2>1. pc' = "pillars" /\ pillar' = 1 /\ previousData' = data /\ data' = data
          /\ UNCHANGED <<initialized, loopRequired, firstAlive, beyond, interpolation>>
        BY <1>9 DEF StartPillars, NextIteration, PassEnded
    <2>2. 1..(pillar' - 1) = {}
        BY <2>1
    <2> QED BY <2>1, <2>2 DEF PassedReprice, SolvedPillarsReprice, Served, LooksAhead,
                              HelperAt, alive
<1>10. CASE SolvePillar
    <2>1. PICK r \in Roots : data' = WithGuess(r)
        BY <1>10 DEF SolvePillar
    <2>2. r \in Int /\ Solving
        BY <1>10, <2>1 DEF Roots, SolvePillar
    <2>3. /\ data'[pillar] = r
          /\ \A i \in 1..alive : i # pillar => data'[i] = data[i]
        BY <2>1, <2>2, Guessed
    <2>4. Extended.live => Matches(pillar, data', Extended)
        BY <2>1 DEF Roots
    <2>5. unsolved \ {pillar} \subseteq unsolved' /\ (~Extended.live => pillar \in unsolved')
        BY <1>10 DEF SolvePillar
    <2>6. /\ pc' = pc /\ pillar' = pillar + 1 /\ interpolation' = Extended
          /\ validData' = validData
          /\ UNCHANGED <<market, calculated, initialized, loopRequired, firstAlive,
                         previousData>>
        BY <1>10 DEF SolvePillar
    <2> QED BY <2>1, <2>2, <2>3, <2>4, <2>5, <2>6, NextPillar
<1>11. CASE GiveUpGuess
    <2>1. Solving /\ data' = Tried
        BY <1>11 DEF GiveUpGuess
    <2>2. \A i \in 1..alive : i # pillar => data'[i] = data[i]
        BY <2>1, TriedIsGuess
    <2>3. /\ pc' = pc /\ pillar' = pillar + 1 /\ interpolation' = Extended
          /\ ~validData' /\ unsolved' = unsolved \cup {pillar}
          /\ UNCHANGED <<market, calculated, initialized, loopRequired, firstAlive,
                         previousData>>
        BY <1>11 DEF GiveUpGuess
    <2> QED BY <2>1, <2>2, <2>3, NextPillar
<1>12. CASE Complete
    <2>1. LooksAhead => validData
        <3>1. pc' # pc
            BY <1>12 DEF Complete, PassEnded, Return
        <3> QED BY <1>12, <3>1 DEF vars
    <2>2. SolvedPillarsReprice'
        BY <1>12, <2>1, ConvergedReprices
    <2> QED BY <1>12, <2>2 DEF Complete, Return, PassedReprice, LooksAhead, HelperAt, alive
<1>13. CASE UNCHANGED vars
    BY <1>2, <1>13 DEF vars
<1> QED
    BY <1>3, <1>4, <1>5, <1>6, <1>7, <1>8, <1>9, <1>10, <1>11, <1>12, <1>13
       DEF Next, Step, Client

\* A curve that is served reprices every instrument but those whose pillar was given
\* up, or solved on an interpolation of nodes that are gone, provided that a
\* calculation of helpers that look ahead is never declared complete by a pass that
\* had no whole curve to start from (iterativebootstrap.hpp:187-262).
THEOREM SolvedReprice == Spec /\ WholePass => []SolvedPillarsReprice
<1>1. PassedReprice => SolvedPillarsReprice
    BY DEF PassedReprice
<1> QED BY <1>1, TypeInit, TypeStep, PassedInit, PassedStep, PTL DEF Spec, WholePass

\* When no helper looks beyond its own pillar nothing has to be provided.
THEOREM SolvedRepriceAtPillars ==
    ASSUME Beyond = {}
    PROVE  Spec => []SolvedPillarsReprice
<1>1. TypeOK => ~LooksAhead
    BY DEF TypeOK, LooksAhead
<1>2. TypeOK => [Complete /\ LooksAhead => validData]_vars
    BY <1>1
<1> QED BY <1>2, TypeInit, TypeStep, SolvedReprice, PTL DEF Spec, WholePass
=============================================================================
