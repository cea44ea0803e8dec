------------------------ MODULE LatticeRollbackProofs ------------------------
(***************************************************************************)
(* PaymentsOnce, OptionExact and StatePricesAgree for every grid, integer  *)
(* weights, coupons and exercises.                                         *)
(*                                                                         *)
(* The worth of a payment is a sum over the paths of the tree.  Grouped by *)
(* their first branches, the paths give the recurrence that a step back    *)
(* computes, so that bonds, resets and known payments come to what the     *)
(* reference definitions say (PathWorthStep, WorthStep).  An asset that    *)
(* has been adjusted may step back, one that has not is due for just the   *)
(* coupons of its time: that is SwapSound, and OptionSound says the same   *)
(* of an option whose underlying waits, settled, at a later time.  A       *)
(* rollback keeps both by induction from its start down the grid.          *)
(*                                                                         *)
(* The state prices are sound if each is the one before it brought         *)
(* forward; that is adjoint to stepping the values back (StepIsAdjoint),   *)
(* so that a scalar product may be moved from any time to the first.       *)
(***************************************************************************)
EXTENDS LatticeRollback, FiniteSetTheorems, WellFoundedInduction, TLAPS

(* ---- sums over finite sets ---- *)

\* What is wrong for some natural number is wrong for a least one.
LEMMA Least ==
    ASSUME NEW T \in SUBSET Nat, T # {}
    PROVE  \E n \in T : \A m \in T : n <= m
<1> DEFINE R == OpToRel(<, Nat)
<1>1. IsWellFoundedOn(R, Nat)
    BY NatLessThanWellFounded, Zenon
<1>2. R = {ss \in Nat \X Nat : ss[1] < ss[2]}
    BY DEF OpToRel
<1> HIDE DEF R
<1>3. PICK x \in T : \A y \in T : ~ (<<y, x>> \in R)
    BY <1>1, WFMin
<1>4. ASSUME NEW y \in T PROVE x <= y
    <2>1. x \in Nat /\ y \in Nat
        BY <1>3
    <2>2. y < x => <<y, x>> \in R
        BY <1>2, <2>1
    <2> QED BY <1>3, <2>1, <2>2
<1> QED BY <1>4

\* Induction on the subsets of a finite set, with a set of subsets for the
\* formula.
LEMMA Growth ==
    ASSUME NEW S, IsFiniteSet(S), NEW P \in SUBSET (SUBSET S),
           \A T \in SUBSET S : (\A U \in SUBSET T : U # T => U \in P) => T \in P
    PROVE  P = SUBSET S
<1> SUFFICES ASSUME P # SUBSET S PROVE FALSE
    OBVIOUS
<1> DEFINE sizes == {Cardinality(T) : T \in (SUBSET S) \ P}
<1>1. \A T \in SUBSET S : IsFiniteSet(T) /\ Cardinality(T) \in Nat
    BY FS_Subset, FS_CardinalityType
<1>2. sizes \in SUBSET Nat /\ sizes # {}
    <2>1. PICK T \in SUBSET S : T \notin P
        OBVIOUS
    <2>2. Cardinality(T) \in sizes
        BY <2>1
    <2> QED BY <1>1, <2>2
<1>3. PICK n \in sizes : \A m \in sizes : n <= m
    <2> HIDE DEF sizes
    <2> QED BY <1>2, Least
<1>4. PICK T \in (SUBSET S) \ P : n = Cardinality(T)
    BY <1>3
<1>5. ASSUME NEW U \in SUBSET T, U # T PROVE U \in P
    <2>1. IsFiniteSet(T) /\ Cardinality(U) # Cardinality(T) /\ Cardinality(U) <= Cardinality(T)
        BY <1>1, <1>4, <1>5, FS_Subset
    <2>2. U \in SUBSET S
        BY <1>4
    <2>3. U \notin P => Cardinality(U) \in sizes
        BY <2>2
    <2>4. Cardinality(U) \in Nat /\ Cardinality(T) \in Nat
        BY <1>1, <2>2, <1>4
    <2> HIDE DEF sizes
    <2> QED BY <1>3, <1>4, <2>1, <2>3, <2>4
<1>6. T \in P
    BY <1>4, <1>5
<1> QED BY <1>4, <1>6

\* One member after the other.
LEMMA OneByOne ==
    ASSUME NEW S, IsFiniteSet(S), NEW P, {} \in P,
           \A T \in SUBSET S : \A x \in S \ T : T \in P => T \cup {x} \in P
    PROVE  S \in P
<1> DEFINE Q == P \cap SUBSET S
<1>1. ASSUME NEW T \in SUBSET S, \A U \in SUBSET T : U # T => U \in Q PROVE T \in Q
    <2>1. CASE T = {}
        BY <2>1
    <2>2. CASE T # {}
        <3>1. PICK x \in T : TRUE
            BY <2>2
        <3>2. T \ {x} \in Q
            BY <1>1, <3>1
        <3>3. x \in S \ (T \ {x}) /\ T = (T \ {x}) \cup {x}
            BY <3>1
        <3> QED BY <3>2, <3>3
    <2> QED BY <2>1, <2>2
<1>2. Q = SUBSET S
    <2> HIDE DEF Q
    <2>1. Q \in SUBSET (SUBSET S)
        BY DEF Q
    <2> QED BY <1>1, <2>1, Growth
<1> QED BY <1>2

(***************************************************************************)
(* Sums over finite sets.                                                  *)
(***************************************************************************)

Some(S) == CHOOSE x \in S : TRUE

Folded(f, S, h) ==
    h = [s \in SUBSET S |-> IF s = {} THEN 0 ELSE f[Some(s)] + h[s \ {Some(s)}]]

\* A sum is the fold of the community modules, as a function on subsets.
LEMMA SumIsFold ==
    ASSUME NEW f, NEW S
    PROVE  SumFunctionOnSet(f, S) = (CHOOSE h : Folded(f, S, h))[S]
BY DEF SumFunctionOnSet, FoldFunctionOnSet, MapThenFoldSet, Folded, Some

LEMMA SomeIn == ASSUME NEW S, S # {} PROVE Some(S) \in S
BY DEF Some

\* Two such functions agree.
LEMMA FoldIsUnique ==
    ASSUME NEW S, IsFiniteSet(S), NEW f, NEW h, Folded(f, S, h),
           NEW U \in SUBSET S, NEW g, Folded(f, U, g)
    PROVE  g[U] = h[U]
<1> DEFINE P == {s \in SUBSET U : g[s] = h[s]}
<1>1. ASSUME NEW s \in SUBSET U, \A r \in SUBSET s : r # s => r \in P PROVE s \in P
    <2>1. s \in SUBSET S
        OBVIOUS
    <2>2. g[s] = IF s = {} THEN 0 ELSE f[Some(s)] + g[s \ {Some(s)}]
        BY Zenon DEF Folded
    <2>3. h[s] = IF s = {} THEN 0 ELSE f[Some(s)] + h[s \ {Some(s)}]
        BY <2>1, Zenon DEF Folded
    <2>4. s # {} => s \ {Some(s)} \in P
        BY <1>1, SomeIn
    <2> QED BY <2>2, <2>3, <2>4
<1>2. IsFiniteSet(U) /\ P \in SUBSET (SUBSET U)
    BY FS_Subset
<1>3. P = SUBSET U
    <2> HIDE DEF P
    <2> QED BY <1>1, <1>2, Growth
<1> QED BY <1>3

\* Any such function gives the sum.
LEMMA SumOfFold ==
    ASSUME NEW S, IsFiniteSet(S), NEW f, NEW h, Folded(f, S, h), NEW U \in SUBSET S
    PROVE  SumFunctionOnSet(f, U) = h[U]
<1> DEFINE g == [s \in SUBSET U |-> h[s]]
<1>1. g = [s \in SUBSET U |-> IF s = {} THEN 0 ELSE f[Some(s)] + g[s \ {Some(s)}]]
    <2>1. ASSUME NEW s \in SUBSET U
          PROVE  g[s] = IF s = {} THEN 0 ELSE f[Some(s)] + g[s \ {Some(s)}]
        <3>1. s \in SUBSET S /\ s \ {Some(s)} \in SUBSET U
            OBVIOUS
        <3>2. h[s] = IF s = {} THEN 0 ELSE f[Some(s)] + h[s \ {Some(s)}]
            BY <3>1, Zenon DEF Folded
        <3> QED BY <3>1, <3>2
    <2> QED BY <2>1
<1>2. Folded(f, U, g)
    <2> HIDE DEF g
    <2> QED BY <1>1 DEF Folded
<1>3. Folded(f, U, CHOOSE k : Folded(f, U, k))
    BY <1>2, Zenon
<1> HIDE DEF g
<1>4. (CHOOSE k : Folded(f, U, k))[U] = h[U]
    BY <1>3, FoldIsUnique
<1> QED BY <1>4, SumIsFold

\* A sum takes some member after another.
LEMMA SumUnfolds ==
    ASSUME NEW S, IsFiniteSet(S), NEW f
    PROVE  SumFunctionOnSet(f, S) =
              IF S = {} THEN 0 ELSE f[Some(S)] + SumFunctionOnSet(f, S \ {Some(S)})
<1> DEFINE sum(s) == SumFunctionOnSet(f, s)
           P == {T \in SUBSET S : \E h : Folded(f, T, h)}
<1>1. ASSUME NEW T \in SUBSET S, NEW h, Folded(f, T, h)
      PROVE  sum(T) = IF T = {} THEN 0 ELSE f[Some(T)] + sum(T \ {Some(T)})
    <2>1. IsFiniteSet(T) /\ T \in SUBSET T /\ T \ {Some(T)} \in SUBSET T
        BY FS_Subset
    <2>2. sum(T) = h[T] /\ sum(T \ {Some(T)}) = h[T \ {Some(T)}]
        BY <1>1, <2>1, SumOfFold
    <2>3. h[T] = IF T = {} THEN 0 ELSE f[Some(T)] + h[T \ {Some(T)}]
        BY <1>1, <2>1, Zenon DEF Folded
    <2> HIDE DEF sum
    <2> QED BY <2>2, <2>3
<1>2. ASSUME NEW T \in SUBSET S, \A U \in SUBSET T : U # T => U \in P PROVE T \in P
    <2> DEFINE g == [s \in SUBSET T |-> IF s = T /\ T # {} THEN f[Some(T)] + sum(T \ {Some(T)})
                                        ELSE sum(s)]
    <2> HIDE DEF sum
    <2>1. ASSUME NEW s \in SUBSET T
          PROVE  g[s] = IF s = {} THEN 0 ELSE f[Some(s)] + g[s \ {Some(s)}]
        <3>1. CASE s # {} /\ s = T
            <4>1. T \ {Some(T)} # T /\ T \ {Some(T)} \in SUBSET T
                BY <3>1, SomeIn
            <4> QED BY <3>1, <4>1
        <3>2. CASE s # {} /\ s # T
            <4>1. PICK h : Folded(f, s, h)
                BY <1>2, <3>2
            <4>2. sum(s) = f[Some(s)] + sum(s \ {Some(s)})
                BY <1>1, <4>1, <3>2
            <4>3. s \ {Some(s)} # T /\ s \ {Some(s)} \in SUBSET T
                BY <3>2
            <4> QED BY <3>2, <4>2, <4>3
        <3>3. CASE s = {}
            <4> DEFINE z == [r \in SUBSET {} |-> 0]
            <4>1. \A r \in SUBSET {} : r = {}
                OBVIOUS
            <4>2. Folded(f, {}, z)
                BY <4>1 DEF Folded
            <4>3. sum({}) = 0
                BY <1>1, <4>2
            <4> QED BY <3>3, <4>3
        <3> QED BY <3>1, <3>2, <3>3
    <2>2. Folded(f, T, g)
        <3>1. g = [s \in SUBSET T |-> g[s]]
            OBVIOUS
        <3> HIDE DEF g
        <3>2. [s \in SUBSET T |-> g[s]]
              = [s \in SUBSET T |-> IF s = {} THEN 0 ELSE f[Some(s)] + g[s \ {Some(s)}]]
            BY <2>1
        <3> QED BY <3>1, <3>2, Zenon DEF Folded
    <2> HIDE DEF g
    <2> QED BY <2>2
<1>3. P = SUBSET S
    <2>1. P \in SUBSET (SUBSET S)
        OBVIOUS
    <2> HIDE DEF P
    <2> QED BY <1>2, <2>1, Growth
<1>4. PICK h : Folded(f, S, h)
    BY <1>3
<1> QED BY <1>1, <1>4

\* Nothing adds up to nothing.
LEMMA SumEmpty == ASSUME NEW f PROVE SumFunctionOnSet(f, {}) = 0
BY SumUnfolds, FS_EmptySet

\* The order does not matter.
LEMMA SumWithout ==
    ASSUME NEW S, IsFiniteSet(S), NEW f, \A x \in S : f[x] \in Int
    PROVE  /\ SumFunctionOnSet(f, S) \in Int
           /\ \A x \in S : SumFunctionOnSet(f, S) = f[x] + SumFunctionOnSet(f, S \ {x})
<1> DEFINE sum(s) == SumFunctionOnSet(f, s)
           P == {T \in SUBSET S : sum(T) \in Int /\ \A x \in T : sum(T) = f[x] + sum(T \ {x})}
<1>0. \A T \in SUBSET S : IsFiniteSet(T)
    BY FS_Subset
<1>1. ASSUME NEW T \in SUBSET S
      PROVE  sum(T) = IF T = {} THEN 0 ELSE f[Some(T)] + sum(T \ {Some(T)})
    BY <1>0, SumUnfolds
<1> HIDE DEF sum
<1>2. ASSUME NEW T \in SUBSET S, \A U \in SUBSET T : U # T => U \in P PROVE T \in P
    <2>1. CASE T = {}
        <3>1. sum({}) = 0
            BY SumEmpty DEF sum
        <3> QED BY <2>1, <3>1
    <2>2. CASE T # {}
        <3> DEFINE y == Some(T)
        <3>1. y \in T /\ f[y] \in Int
            BY <2>2, SomeIn
        <3> HIDE DEF y
        <3>2. sum(T \ {y}) \in Int
            BY <1>2, <3>1
        <3>3. sum(T) = f[y] + sum(T \ {y})
            BY <1>1, <2>2 DEF y
        <3>4. ASSUME NEW x \in T, x # y PROVE sum(T) = f[x] + sum(T \ {x})
            <4> DEFINE V == (T \ {y}) \ {x}
            <4>1. V = (T \ {x}) \ {y} /\ V \in SUBSET T /\ V # T
                BY <3>1
            <4>2. sum(T \ {y}) = f[x] + sum(V)
                BY <1>2, <3>1, <3>4
            <4>3. sum(T \ {x}) = f[y] + sum(V)
                <5>1. T \ {x} \in P /\ y \in T \ {x}
                    BY <1>2, <3>1, <3>4
                <5> QED BY <5>1, <4>1
            <4>4. sum(V) \in Int /\ f[x] \in Int
                BY <1>2, <4>1
            <4> HIDE DEF V
            <4> QED BY <3>1, <3>3, <4>2, <4>3, <4>4
        <3>5. sum(T) \in Int
            BY <3>1, <3>2, <3>3
        <3>6. \A x \in T : sum(T) = f[x] + sum(T \ {x})
            BY <3>3, <3>4
        <3> QED BY <3>5, <3>6
    <2> QED BY <1>1, <2>1, <2>2
<1>3. P = SUBSET S
    <2>1. P \in SUBSET (SUBSET S)
        OBVIOUS
    <2> HIDE DEF P
    <2> QED BY <1>2, <2>1, Growth
<1>4. S \in P
    BY <1>3
<1> QED BY <1>4 DEF sum

\* One more member.
LEMMA SumWith ==
    ASSUME NEW S, IsFiniteSet(S), NEW f, \A x \in S : f[x] \in Int,
           NEW T \in SUBSET S, NEW x \in S \ T
    PROVE  SumFunctionOnSet(f, T \cup {x}) = f[x] + SumFunctionOnSet(f, T)
<1>1. IsFiniteSet(T \cup {x}) /\ (T \cup {x}) \ {x} = T
    BY FS_Subset
<1>2. \A y \in T \cup {x} : f[y] \in Int
    OBVIOUS
<1> QED BY <1>1, <1>2, SumWithout

\* A sum of integers is an integer.
LEMMA SumTyped ==
    ASSUME NEW S, IsFiniteSet(S), NEW f, \A x \in S : f[x] \in Int, NEW T \in SUBSET S
    PROVE  SumFunctionOnSet(f, T) \in Int
BY SumWithout, FS_Subset

\* Equal terms, equal sums.
LEMMA SumSame ==
    ASSUME NEW S, IsFiniteSet(S), NEW f, NEW g, \A x \in S : f[x] \in Int /\ f[x] = g[x]
    PROVE  SumFunctionOnSet(f, S) = SumFunctionOnSet(g, S)
<1> DEFINE P == {T \in SUBSET S : SumFunctionOnSet(f, T) = SumFunctionOnSet(g, T)}
<1>1. {} \in P
    BY SumEmpty
<1>2. ASSUME NEW T \in SUBSET S, NEW x \in S \ T, T \in P PROVE T \cup {x} \in P
    <2>1. /\ SumFunctionOnSet(f, T \cup {x}) = f[x] + SumFunctionOnSet(f, T)
          /\ SumFunctionOnSet(g, T \cup {x}) = g[x] + SumFunctionOnSet(g, T)
        BY SumWith
    <2> QED BY <1>2, <2>1
<1> HIDE DEF P
<1>3. S \in P
    BY <1>1, <1>2, OneByOne
<1> QED BY <1>3 DEF P

\* Sums over disjoint sets add up.
LEMMA SumUnion ==
    ASSUME NEW S, IsFiniteSet(S), NEW f, \A x \in S : f[x] \in Int,
           NEW A \in SUBSET S, NEW B \in SUBSET S, A \cap B = {}
    PROVE  SumFunctionOnSet(f, A \cup B) = SumFunctionOnSet(f, A) + SumFunctionOnSet(f, B)
<1> DEFINE P == {T \in SUBSET B : SumFunctionOnSet(f, A \cup T)
                                  = SumFunctionOnSet(f, A) + SumFunctionOnSet(f, T)}
<1>1. {} \in P
    <2>1. A \cup {} = A /\ SumFunctionOnSet(f, A) \in Int
        BY SumTyped
    <2> QED BY <2>1, SumEmpty
<1>2. ASSUME NEW T \in SUBSET B, NEW x \in B \ T, T \in P PROVE T \cup {x} \in P
    <2>1. /\ SumFunctionOnSet(f, T \cup {x}) = f[x] + SumFunctionOnSet(f, T)
          /\ SumFunctionOnSet(f, (A \cup T) \cup {x}) = f[x] + SumFunctionOnSet(f, A \cup T)
        <3>1. T \in SUBSET S /\ A \cup T \in SUBSET S /\ x \in S \ T /\ x \in S \ (A \cup T)
            OBVIOUS
        <3> QED BY <3>1, SumWith
    <2>2. (A \cup T) \cup {x} = A \cup (T \cup {x})
        OBVIOUS
    <2>3. /\ f[x] \in Int /\ SumFunctionOnSet(f, A) \in Int
          /\ SumFunctionOnSet(f, T) \in Int
        <3>1. x \in S /\ T \in SUBSET S
            OBVIOUS
        <3> QED BY <3>1, SumTyped
    <2>4. SumFunctionOnSet(f, A \cup T)
          = SumFunctionOnSet(f, A) + SumFunctionOnSet(f, T)
        BY <1>2
    <2>5. SumFunctionOnSet(f, A \cup (T \cup {x})) = f[x] + SumFunctionOnSet(f, A \cup T)
        BY <2>1, <2>2, Zenon
    <2>6. SumFunctionOnSet(f, A \cup (T \cup {x}))
          = SumFunctionOnSet(f, A) + SumFunctionOnSet(f, T \cup {x})
        BY <2>1, <2>3, <2>4, <2>5
    <2> QED BY <2>6
<1>3. IsFiniteSet(B)
    BY FS_Subset
<1> HIDE DEF P
<1>4. B \in P
    BY <1>1, <1>2, <1>3, OneByOne
<1> QED BY <1>4 DEF P

\* What the solvers have to be told of products.
LEMMA Distributes ==
    ASSUME NEW a \in Int, NEW b \in Int, NEW x \in Int, NEW y \in Int, NEW u \in Int, NEW v \in Int
    PROVE  (a * x + b * y) + (a * u + b * v) = a * (x + u) + b * (y + v)
OBVIOUS

\* A sum of linear combinations.
LEMMA SumLinear ==
    ASSUME NEW S, IsFiniteSet(S), NEW f, NEW g, NEW h, NEW a \in Int, NEW b \in Int,
           \A x \in S : f[x] \in Int /\ g[x] \in Int /\ h[x] = a * f[x] + b * g[x]
    PROVE  SumFunctionOnSet(h, S) = a * SumFunctionOnSet(f, S) + b * SumFunctionOnSet(g, S)
<1> DEFINE P == {T \in SUBSET S : SumFunctionOnSet(h, T)
                      = a * SumFunctionOnSet(f, T) + b * SumFunctionOnSet(g, T)}
<1>1. {} \in P
    <2>1. a * 0 + b * 0 = 0
        OBVIOUS
    <2> QED BY <2>1, SumEmpty
<1>2. ASSUME NEW T \in SUBSET S, NEW x \in S \ T, T \in P PROVE T \cup {x} \in P
    <2>0. \A y \in S : f[y] \in Int /\ g[y] \in Int /\ h[y] \in Int
        OBVIOUS
    <2>1. /\ SumFunctionOnSet(f, T \cup {x}) = f[x] + SumFunctionOnSet(f, T)
          /\ SumFunctionOnSet(g, T \cup {x}) = g[x] + SumFunctionOnSet(g, T)
          /\ SumFunctionOnSet(h, T \cup {x}) = h[x] + SumFunctionOnSet(h, T)
        BY <2>0, SumWith
    <2>2. SumFunctionOnSet(f, T) \in Int /\ SumFunctionOnSet(g, T) \in Int
        BY <2>0, SumTyped
    <2>3. /\ h[x] = a * f[x] + b * g[x] /\ f[x] \in Int /\ g[x] \in Int
          /\ SumFunctionOnSet(h, T) = a * SumFunctionOnSet(f, T) + b * SumFunctionOnSet(g, T)
        BY <1>2
    <2>4. SumFunctionOnSet(h, T \cup {x})
          = a * (f[x] + SumFunctionOnSet(f, T)) + b * (g[x] + SumFunctionOnSet(g, T))
        BY <2>1, <2>2, <2>3, Distributes
    <2>5. SumFunctionOnSet(h, T \cup {x})
          = a * SumFunctionOnSet(f, T \cup {x}) + b * SumFunctionOnSet(g, T \cup {x})
        BY <2>1, <2>4, Zenon
    <2> QED BY <2>5
<1> HIDE DEF P
<1>3. S \in P
    BY <1>1, <1>2, OneByOne
<1> QED BY <1>3 DEF P

\* A factor comes out of a sum.
LEMMA SumScaled ==
    ASSUME NEW S, IsFiniteSet(S), NEW f, NEW h, NEW a \in Int,
           \A x \in S : f[x] \in Int /\ h[x] = a * f[x]
    PROVE  SumFunctionOnSet(h, S) = a * SumFunctionOnSet(f, S)
<1> DEFINE zero == 0
<1>1. ASSUME NEW x \in Int, NEW y \in Int PROVE x * y \in Int /\ x * y + zero * y = x * y
    OBVIOUS
<1>2. zero \in Int
    OBVIOUS
<1> HIDE DEF zero
<1>3. \A x \in S : f[x] \in Int /\ f[x] \in Int /\ h[x] = a * f[x] + zero * f[x]
    BY <1>1
<1>4. SumFunctionOnSet(f, S) \in Int
    BY SumWithout
<1>5. SumFunctionOnSet(h, S) = a * SumFunctionOnSet(f, S) + zero * SumFunctionOnSet(f, S)
    BY <1>2, <1>3, SumLinear
<1> QED BY <1>1, <1>4, <1>5

\* A sum over two members.
LEMMA SumPair ==
    ASSUME NEW f, NEW x, NEW y, x # y, f[x] \in Int, f[y] \in Int
    PROVE  SumFunctionOnSet(f, {x, y}) = f[x] + f[y]
<1>1. IsFiniteSet({x}) /\ IsFiniteSet({y}) /\ {x, y} = {x} \cup {y}
    BY FS_Singleton
<1>2. IsFiniteSet({x, y})
    BY <1>1, FS_Union
<1>3. {x, y} \ {x} = {y} /\ {y} \ {y} = {}
    OBVIOUS
<1>4. \A z \in {x, y} : f[z] \in Int
    OBVIOUS
<1>5. SumFunctionOnSet(f, {x, y}) = f[x] + SumFunctionOnSet(f, {y})
    BY <1>2, <1>3, <1>4, SumWithout
<1>6. SumFunctionOnSet(f, {y}) = f[y] + SumFunctionOnSet(f, {})
    BY <1>1, <1>3, <1>4, SumWithout
<1>7. SumFunctionOnSet(f, {}) = 0
    BY SumEmpty
<1> QED BY <1>5, <1>6, <1>7

Group(S, p, k) == {x \in S : p[x] = k}

\* The terms grouped by what p makes of them.
LEMMA SumGrouped ==
    ASSUME NEW S, IsFiniteSet(S), NEW K, IsFiniteSet(K), NEW p \in [S -> K], NEW f,
           \A x \in S : f[x] \in Int,
           NEW h, \A k \in K : h[k] = SumFunctionOnSet(f, Group(S, p, k))
    PROVE  SumFunctionOnSet(f, S) = SumFunctionOnSet(h, K)
<1> DEFINE In(T) == {x \in S : p[x] \in T}
           P == {T \in SUBSET K : SumFunctionOnSet(f, In(T)) = SumFunctionOnSet(h, T)}
<1>0. ASSUME NEW k \in K PROVE h[k] \in Int
    <2>1. Group(S, p, k) \in SUBSET S
        BY DEF Group
    <2> HIDE DEF P, In
    <2>2. SumFunctionOnSet(f, Group(S, p, k)) \in Int
        BY <2>1, SumTyped
    <2> QED BY <2>2
<1>1. {} \in P
    <2>1. In({}) = {}
        OBVIOUS
    <2> QED BY <2>1, SumEmpty
<1>2. ASSUME NEW T \in SUBSET K, NEW k \in K \ T, T \in P PROVE T \cup {k} \in P
    <2> DEFINE A == In(T)
               B == Group(S, p, k)
    <2>1. In(T \cup {k}) = A \cup B /\ A \cap B = {} /\ A \in SUBSET S /\ B \in SUBSET S
        BY DEF Group
    <2>2. SumFunctionOnSet(f, A \cup B) = SumFunctionOnSet(f, A) + SumFunctionOnSet(f, B)
        <3> HIDE DEF A, B
        <3> QED BY <2>1, SumUnion
    <2>3. SumFunctionOnSet(h, T \cup {k}) = h[k] + SumFunctionOnSet(h, T)
        <3>1. \A j \in K : h[j] \in Int
            BY <1>0
        <3> QED BY <3>1, SumWith
    <2>4. SumFunctionOnSet(f, A) = SumFunctionOnSet(h, T) /\ SumFunctionOnSet(f, B) = h[k]
        BY <1>2
    <2>5. h[k] \in Int /\ SumFunctionOnSet(h, T) \in Int
        <3>1. \A j \in K : h[j] \in Int
            BY <1>0
        <3> QED BY <3>1, SumTyped
    <2>6. SumFunctionOnSet(f, In(T \cup {k})) = SumFunctionOnSet(h, T \cup {k})
        <3>1. SumFunctionOnSet(f, In(T \cup {k}))
              = SumFunctionOnSet(f, A) + SumFunctionOnSet(f, B)
            <4> HIDE DEF A, B, In
            <4> QED BY <2>1, <2>2, Zenon
        <3> HIDE DEF A, B, In
        <3> QED BY <2>3, <2>4, <2>5, <3>1
    <2> QED BY <2>6
<1>3. K \in P
    <2> HIDE DEF P
    <2> QED BY <1>1, <1>2, OneByOne
<1>4. In(K) = S
    OBVIOUS
<1> QED BY <1>3, <1>4

\* The terms under other names.
LEMMA SumRenamed ==
    ASSUME NEW A, IsFiniteSet(A), NEW B, NEW e \in [A -> B], NEW f, NEW g,
           \A x, y \in A : e[x] = e[y] => x = y,
           \A z \in B : \E x \in A : e[x] = z,
           \A x \in A : f[x] \in Int /\ f[x] = g[e[x]]
    PROVE  SumFunctionOnSet(f, A) = SumFunctionOnSet(g, B)
<1> DEFINE Of(T) == {e[x] : x \in T}
           P == {T \in SUBSET A : SumFunctionOnSet(f, T) = SumFunctionOnSet(g, Of(T))}
<1>0. IsFiniteSet(B) /\ \A z \in B : g[z] \in Int
    <2>1. e \in Surjection(A, B)
        BY DEF Surjection
    <2>2. IsFiniteSet(B)
        BY <2>1, FS_Surjection
    <2> QED BY <2>2
<1>1. {} \in P
    <2>1. Of({}) = {}
        OBVIOUS
    <2> QED BY <2>1, SumEmpty
<1>2. ASSUME NEW T \in SUBSET A, NEW x \in A \ T, T \in P PROVE T \cup {x} \in P
    <2>1. Of(T \cup {x}) = Of(T) \cup {e[x]} /\ e[x] \in B \ Of(T) /\ Of(T) \in SUBSET B
        OBVIOUS
    <2>2. SumFunctionOnSet(f, T \cup {x}) = f[x] + SumFunctionOnSet(f, T)
        BY SumWith
    <2>3. SumFunctionOnSet(g, Of(T) \cup {e[x]}) = g[e[x]] + SumFunctionOnSet(g, Of(T))
        <3> HIDE DEF Of
        <3> QED BY <1>0, <2>1, SumWith
    <2>4. SumFunctionOnSet(f, T \cup {x}) = SumFunctionOnSet(g, Of(T \cup {x}))
        <3>1. f[x] = g[e[x]] /\ SumFunctionOnSet(f, T) = SumFunctionOnSet(g, Of(T))
            BY <1>2
        <3> HIDE DEF Of
        <3> QED BY <2>1, <2>2, <2>3, <3>1
    <2> QED BY <2>4
<1>3. A \in P
    <2> HIDE DEF P
    <2> QED BY <1>1, <1>2, OneByOne
<1>4. Of(A) = B
    OBVIOUS
<1> QED BY <1>3, <1>4

(* ---- functions defined along a range ---- *)

\* Induction from b downwards, with sets for the formulas.
LEMMA Downwards ==
    ASSUME NEW a \in Int, NEW b \in Int, a <= b, NEW X, NEW r, r[b] \in X[b],
           \A i \in a..(b - 1) : r[i + 1] \in X[i + 1] => r[i] \in X[i]
    PROVE  \A i \in a..b : r[i] \in X[i]
<1> SUFFICES ASSUME NEW m \in a..b, r[m] \notin X[m] PROVE FALSE
    OBVIOUS
<1> DEFINE bad == {k \in Nat : b - k \in a..b /\ r[b - k] \notin X[b - k]}
<1>1. b - m \in bad
    <2>1. b - m \in Nat /\ b - (b - m) = m
        OBVIOUS
    <2> QED BY <2>1
<1>2. PICK n \in bad : \A k \in bad : n <= k
    <2>1. bad \in SUBSET Nat /\ bad # {}
        BY <1>1
    <2> HIDE DEF bad
    <2> QED BY <2>1, Least
<1>3. n \in Nat /\ b - n \in a..b /\ r[b - n] \notin X[b - n]
    BY <1>2
<1>4. n # 0
    <2>1. n = 0 => b - n = b
        OBVIOUS
    <2> QED BY <1>3, <2>1
<1>5. n - 1 \in Nat /\ b - (n - 1) \in a..b /\ b - n \in a..(b - 1) /\ (b - n) + 1 = b - (n - 1)
    BY <1>3, <1>4
<1>6. n - 1 \notin bad
    BY <1>2, <1>3
<1>7. r[b - (n - 1)] \in X[b - (n - 1)]
    BY <1>5, <1>6
<1> QED BY <1>3, <1>5, <1>7

\* The same from a upwards.
LEMMA Upwards ==
    ASSUME NEW a \in Int, NEW b \in Int, a <= b, NEW X, NEW r, r[a] \in X[a],
           \A i \in (a + 1)..b : r[i - 1] \in X[i - 1] => r[i] \in X[i]
    PROVE  \A i \in a..b : r[i] \in X[i]
<1> SUFFICES ASSUME NEW m \in a..b, r[m] \notin X[m] PROVE FALSE
    OBVIOUS
<1> DEFINE bad == {k \in Nat : a + k \in a..b /\ r[a + k] \notin X[a + k]}
<1>1. m - a \in bad
    <2>1. m - a \in Nat /\ a + (m - a) = m
        OBVIOUS
    <2> QED BY <2>1
<1>2. PICK n \in bad : \A k \in bad : n <= k
    <2>1. bad \in SUBSET Nat /\ bad # {}
        BY <1>1
    <2> HIDE DEF bad
    <2> QED BY <2>1, Least
<1>3. n \in Nat /\ a + n \in a..b /\ r[a + n] \notin X[a + n]
    BY <1>2
<1>4. n # 0
    <2>1. n = 0 => a + n = a
        OBVIOUS
    <2> QED BY <1>3, <2>1
<1>5. n - 1 \in Nat /\ a + (n - 1) \in a..b /\ a + n \in (a + 1)..b /\ (a + n) - 1 = a + (n - 1)
    BY <1>3, <1>4
<1>6. n - 1 \notin bad
    BY <1>2, <1>3
<1>7. r[a + (n - 1)] \in X[a + (n - 1)]
    BY <1>5, <1>6
<1> QED BY <1>3, <1>5, <1>7

Descends(a, b, X, F, base, r) ==
    /\ r = [i \in a..b |-> r[i]]
    /\ \A i \in a..b : r[i] = (IF i = b THEN base ELSE F[i][r[i + 1]]) /\ r[i] \in X[i]

Ascends(a, b, X, F, base, r) ==
    /\ r = [i \in a..b |-> r[i]]
    /\ \A i \in a..b : r[i] = (IF i = a THEN base ELSE F[i][r[i - 1]]) /\ r[i] \in X[i]

\* A function that is defined from b downwards exists.
LEMMA Descent ==
    ASSUME NEW a \in Int, NEW b \in Int, a <= b, NEW X, NEW F, NEW base \in X[b],
           \A i \in a..(b - 1) : \A x \in X[i + 1] : F[i][x] \in X[i]
    PROVE  \E r : Descends(a, b, X, F, base, r)
<1> DEFINE Is(c, r) == /\ r = [i \in c..b |-> r[i]]
                       /\ \A i \in c..b : r[i] = (IF i = b THEN base ELSE F[i][r[i + 1]]) /\ r[i] \in X[i]
           have == [c \in a..b |-> \E r : Is(c, r)]
           Y == [c \in a..b |-> {TRUE}]
<1>1. have[b] \in Y[b]
    <2> DEFINE r == [i \in b..b |-> base]
    <2>1. \A i \in b..b : i = b
        OBVIOUS
    <2>2. Is(b, r)
        BY <2>1
    <2>3. b \in a..b
        OBVIOUS
    <2> HIDE DEF Is
    <2> QED BY <2>2, <2>3
<1>2. ASSUME NEW c \in a..(b - 1), \E q : Is(c + 1, q) PROVE \E r : Is(c, r)
    <2>1. PICK q : Is(c + 1, q)
        BY <1>2
    <2> DEFINE r == [i \in c..b |-> IF i = c THEN F[c][q[c + 1]] ELSE q[i]]
    <2>2. c + 1 \in (c + 1)..b /\ c + 1 \in a..b /\ c # b /\ c \in c..b
        OBVIOUS
    <2>3. ASSUME NEW i \in c..b
          PROVE  r[i] = (IF i = b THEN base ELSE F[i][r[i + 1]]) /\ r[i] \in X[i]
        <3>1. CASE i = c
            <4>1. r[c + 1] = q[c + 1] /\ q[c + 1] \in X[c + 1]
                <5>1. c + 1 \in c..b /\ c + 1 # c
                    BY <2>2
                <5>2. q[c + 1] \in X[c + 1]
                    BY <2>1, <2>2
                <5> HIDE DEF Is
                <5> QED BY <5>1, <5>2
            <4> QED BY <3>1, <4>1, <2>2
        <3>2. CASE i # c
            <4>1. i \in (c + 1)..b /\ (i # b => i + 1 \in (c + 1)..b /\ i + 1 # c)
                BY <3>2
            <4>2. q[i] = (IF i = b THEN base ELSE F[i][q[i + 1]]) /\ q[i] \in X[i]
                BY <2>1, <4>1
            <4>3. i # b => r[i + 1] = q[i + 1]
                BY <4>1
            <4> QED BY <3>2, <4>1, <4>2, <4>3
        <3> QED BY <3>1, <3>2
    <2>4. r = [i \in c..b |-> r[i]]
        OBVIOUS
    <2> HIDE DEF r
    <2>5. Is(c, r)
        BY <2>3, <2>4
    <2> QED BY <2>5
<1>3. \A i \in a..(b - 1) : have[i + 1] \in Y[i + 1] => have[i] \in Y[i]
    <2> SUFFICES ASSUME NEW i \in a..(b - 1), have[i + 1] \in Y[i + 1] PROVE have[i] \in Y[i]
        OBVIOUS
    <2>1. i \in a..b /\ i + 1 \in a..b
        OBVIOUS
    <2> HIDE DEF Is
    <2> QED BY <1>2, <2>1
<1>4. have[a] \in Y[a]
    <2> HIDE DEF have, Y
    <2>1. \A i \in a..b : have[i] \in Y[i]
        BY <1>1, <1>3, Downwards
    <2> QED BY <2>1
<1>5. a \in a..b
    OBVIOUS
<1>6. \E r : Is(a, r)
    <2> HIDE DEF Is
    <2> QED BY <1>4, <1>5
<1>7. PICK r : Is(a, r)
    BY <1>6, Zenon
<1>8. Descends(a, b, X, F, base, r)
    BY <1>7, Zenon DEF Descends
<1> QED BY <1>8

\* A function that is defined from a upwards exists.
LEMMA Ascent ==
    ASSUME NEW a \in Int, NEW b \in Int, a <= b, NEW X, NEW F, NEW base \in X[a],
           \A i \in (a + 1)..b : \A x \in X[i - 1] : F[i][x] \in X[i]
    PROVE  \E r : Ascends(a, b, X, F, base, r)
<1> DEFINE Is(c, r) == /\ r = [i \in a..c |-> r[i]]
                       /\ \A i \in a..c : r[i] = (IF i = a THEN base ELSE F[i][r[i - 1]]) /\ r[i] \in X[i]
           have == [c \in a..b |-> \E r : Is(c, r)]
           Y == [c \in a..b |-> {TRUE}]
<1>1. have[a] \in Y[a]
    <2> DEFINE r == [i \in a..a |-> base]
    <2>1. \A i \in a..a : i = a
        OBVIOUS
    <2>2. Is(a, r)
        BY <2>1
    <2>3. a \in a..b
        OBVIOUS
    <2> HIDE DEF Is
    <2> QED BY <2>2, <2>3
<1>2. ASSUME NEW c \in (a + 1)..b, \E q : Is(c - 1, q) PROVE \E r : Is(c, r)
    <2>1. PICK q : Is(c - 1, q)
        BY <1>2
    <2> DEFINE r == [i \in a..c |-> IF i = c THEN F[c][q[c - 1]] ELSE q[i]]
    <2>2. c - 1 \in a..(c - 1) /\ c - 1 \in a..b /\ c # a /\ c \in a..c /\ c - 1 \in a..c
          /\ c - 1 # c
        OBVIOUS
    <2>3. ASSUME NEW i \in a..c
          PROVE  r[i] = (IF i = a THEN base ELSE F[i][r[i - 1]]) /\ r[i] \in X[i]
        <3>1. CASE i = c
            <4>1. r[c - 1] = q[c - 1] /\ q[c - 1] \in X[c - 1]
                BY <2>1, <2>2
            <4> QED BY <3>1, <4>1, <2>2
        <3>2. CASE i # c
            <4>1. i \in a..(c - 1) /\ (i # a => i - 1 \in a..(c - 1) /\ i - 1 \in a..c /\ i - 1 # c)
                BY <3>2
            <4>2. q[i] = (IF i = a THEN base ELSE F[i][q[i - 1]]) /\ q[i] \in X[i]
                BY <2>1, <4>1
            <4>3. i # a => r[i - 1] = q[i - 1]
                BY <4>1
            <4> QED BY <3>2, <4>1, <4>2, <4>3
        <3> QED BY <3>1, <3>2
    <2>4. r = [i \in a..c |-> r[i]]
        OBVIOUS
    <2> HIDE DEF r
    <2>5. Is(c, r)
        BY <2>3, <2>4
    <2> QED BY <2>5
<1>3. \A i \in (a + 1)..b : have[i - 1] \in Y[i - 1] => have[i] \in Y[i]
    <2> SUFFICES ASSUME NEW i \in (a + 1)..b, have[i - 1] \in Y[i - 1] PROVE have[i] \in Y[i]
        OBVIOUS
    <2>1. i \in a..b /\ i - 1 \in a..b
        OBVIOUS
    <2> HIDE DEF Is
    <2> QED BY <1>2, <2>1
<1>4. have[b] \in Y[b]
    <2> HIDE DEF have, Y
    <2>1. \A i \in a..b : have[i] \in Y[i]
        BY <1>1, <1>3, Upwards
    <2> QED BY <2>1
<1>5. b \in a..b
    OBVIOUS
<1>6. \E r : Is(b, r)
    <2> HIDE DEF Is
    <2> QED BY <1>4, <1>5
<1>7. PICK r : Is(b, r)
    BY <1>6, Zenon
<1>8. Ascends(a, b, X, F, base, r)
    BY <1>7, Zenon DEF Ascends
<1> QED BY <1>8

(* ---- the paths of a tree ---- *)

LEMMA ProductIsInt == ASSUME NEW x \in Int, NEW y \in Int PROVE x * y \in Int
OBVIOUS

Paths(t, T) == [t..(T - 1) -> {0, 1}]

\* There are finitely many paths.
LEMMA PathsFinite == ASSUME NEW t \in Int, NEW T \in Int PROVE IsFiniteSet(Paths(t, T))
<1> DEFINE S == t..(T - 1)
           e == [U \in SUBSET S |-> [i \in S |-> IF i \in U THEN 1 ELSE 0]]
<1>1. IsFiniteSet(SUBSET S)
    <2>1. IsFiniteSet(S)
        BY FS_Interval
    <2> HIDE DEF S
    <2> QED BY <2>1, FS_SUBSET
<1>2. ASSUME NEW path \in Paths(t, T) PROVE \E U \in SUBSET S : e[U] = path
    <2> DEFINE U == {i \in S : path[i] = 1}
    <2>1. \A i \in S : path[i] \in {0, 1}
        BY DEF Paths
    <2>2. e[U] = path
        BY <2>1 DEF Paths
    <2> QED BY <2>2
<1>3. e \in Surjection(SUBSET S, Paths(t, T))
    <2>1. e \in [SUBSET S -> Paths(t, T)]
        BY DEF Paths
    <2> HIDE DEF e
    <2> QED BY <1>2, <2>1 DEF Surjection
<1> HIDE DEF e, S
<1> QED BY <1>1, <1>3, FS_Surjection

\* A path starts where it starts.
LEMMA AtStart == ASSUME NEW t \in Int, NEW j \in Int, NEW path PROVE At(t, j, path, t) = j
<1>1. t..(t - 1) = {}
    OBVIOUS
<1> QED BY <1>1, SumEmpty DEF At

\* A path goes up or stays.
LEMMA AtNext ==
    ASSUME NEW T \in Nat, NEW t \in 0..T, NEW j \in Int, NEW path \in Paths(t, T),
           NEW i \in (t + 1)..T
    PROVE  /\ At(t, j, path, i - 1) \in Int
           /\ At(t, j, path, i) = At(t, j, path, i - 1) + path[i - 1]
<1> DEFINE S == t..(i - 1)
<1>1. IsFiniteSet(S) /\ IsFiniteSet(t..((i - 1) - 1))
    BY FS_Interval
<1>2. \A k \in t..(T - 1) : path[k] \in Int
    BY DEF Paths
<1>3. \A k \in S : path[k] \in Int
    BY <1>2
<1>4. i - 1 \in S /\ S \ {i - 1} = t..((i - 1) - 1)
    OBVIOUS
<1>5. \A k \in t..((i - 1) - 1) : path[k] \in Int
    BY <1>3, <1>4
<1> HIDE DEF S
<1>6. SumFunctionOnSet(path, S) = path[i - 1] + SumFunctionOnSet(path, S \ {i - 1})
    BY <1>1, <1>3, <1>4, SumWithout
<1>7. SumFunctionOnSet(path, t..((i - 1) - 1)) \in Int
    BY <1>1, <1>5, SumWithout
<1>8. SumFunctionOnSet(path, S) = path[i - 1] + SumFunctionOnSet(path, t..((i - 1) - 1))
    BY <1>4, <1>6, Zenon
<1>9. path[i - 1] \in Int
    BY <1>3, <1>4
<1>10. /\ At(t, j, path, i) = j + SumFunctionOnSet(path, S)
       /\ At(t, j, path, i - 1) = j + SumFunctionOnSet(path, t..((i - 1) - 1))
    BY Zenon DEF At, S
<1> QED BY <1>7, <1>8, <1>9, <1>10

\* A path stays on the tree.
LEMMA AtNode ==
    ASSUME NEW T \in Nat, NEW t \in 0..T, NEW j \in Nodes(t), NEW path \in Paths(t, T),
           NEW i \in t..T
    PROVE  At(t, j, path, i) \in Nodes(i)
<1> DEFINE r == [k \in t..T |-> At(t, j, path, k)]
           X == [k \in t..T |-> Nodes(k)]
<1>1. t \in Int /\ T \in Int /\ t <= T /\ j \in Int
    BY DEF Nodes
<1>2. r[t] \in X[t]
    BY <1>1, AtStart
<1>3. ASSUME NEW k \in (t + 1)..T, r[k - 1] \in X[k - 1] PROVE r[k] \in X[k]
    <2>1. k - 1 \in t..T /\ k \in t..T /\ k - 1 \in t..(T - 1)
        OBVIOUS
    <2>2. At(t, j, path, k) = At(t, j, path, k - 1) + path[k - 1]
        BY <1>1, AtNext
    <2>3. path[k - 1] \in {0, 1} /\ At(t, j, path, k - 1) \in Nodes(k - 1)
        BY <1>3, <2>1 DEF Paths
    <2>4. At(t, j, path, k) \in Nodes(k)
        BY <2>2, <2>3 DEF Nodes
    <2> QED BY <2>1, <2>4
<1>4. \A k \in t..T : r[k] \in X[k]
    <2> HIDE DEF r, X
    <2> QED BY <1>1, <1>2, <1>3, Upwards
<1> QED BY <1>4

\* q is the function that defines the weight of a path.
Weighs(T, t, j, path, q) ==
    q = [i \in t..T |-> IF i = T THEN 1
                        ELSE Weight(i, At(t, j, path, i), path[i]) * q[i + 1]]

\* The weight of a path, by recursion from its end.
LEMMA WeightOfPath ==
    ASSUME NEW T \in Grid, NEW t \in 0..T, NEW j \in Nodes(t), NEW path \in Paths(t, T)
    PROVE  \E q \in [t..T -> Int] : /\ Weighs(T, t, j, path, q)
                                    /\ PathWeight(T, t, j, path) = q[t]
<1>1. t \in Int /\ T \in Int /\ t <= T /\ T \in Nat /\ Steps \in Nat
    BY GridIsTimes DEF Grid
<1>2. ASSUME NEW i \in t..(T - 1)
      PROVE  Weight(i, At(t, j, path, i), path[i]) \in Int
    <2>1. At(t, j, path, i) \in Nodes(i) /\ path[i] \in {0, 1}
        BY <1>1, AtNode DEF Paths
    <2>2. i \in 0..Steps
        BY <1>1 DEF Grid
    <2> QED BY <2>1, <2>2, WeightsAreNumbers DEF Nodes
<1> DEFINE X == [i \in t..T |-> Int]
           F == [i \in t..(T - 1) |-> [x \in Int |-> Weight(i, At(t, j, path, i), path[i]) * x]]
<1>3. 1 \in X[T]
    BY <1>1
<1>4. ASSUME NEW i \in t..(T - 1), NEW x \in X[i + 1] PROVE F[i][x] \in X[i]
    <2>1. i \in t..T /\ i + 1 \in t..T
        BY <1>1
    <2>2. x \in Int /\ Weight(i, At(t, j, path, i), path[i]) \in Int
        BY <1>2, <1>4, <2>1
    <2>3. F[i][x] = Weight(i, At(t, j, path, i), path[i]) * x
        BY <2>2
    <2> QED BY <2>1, <2>2, <2>3, ProductIsInt
<1>5. PICK r : /\ r = [i \in t..T |-> r[i]]
               /\ \A i \in t..T : r[i] = (IF i = T THEN 1 ELSE F[i][r[i + 1]]) /\ r[i] \in X[i]
    <2> DEFINE one == 1
    <2>1. one \in X[T]
        BY <1>3
    <2>2. \A i \in t..(T - 1) : \A x \in X[i + 1] : F[i][x] \in X[i]
        BY <1>4
    <2> HIDE DEF F, X, one
    <2>3. \E r : Descends(t, T, X, F, one, r)
        BY <1>1, <2>1, <2>2, Descent
    <2> QED BY <2>3, Zenon DEF Descends, one
<1>6. r \in [t..T -> Int]
    BY <1>5
<1>7. Weighs(T, t, j, path, r)
    <2>1. ASSUME NEW i \in t..T
          PROVE  r[i] = IF i = T THEN 1
                        ELSE Weight(i, At(t, j, path, i), path[i]) * r[i + 1]
        <3>1. i # T => r[i + 1] \in Int /\ i \in t..(T - 1)
            BY <1>1, <1>6
        <3> QED BY <1>5, <3>1
    <2> HIDE DEF F, X
    <2>2. [i \in t..T |-> r[i]]
          = [i \in t..T |-> IF i = T THEN 1
                            ELSE Weight(i, At(t, j, path, i), path[i]) * r[i + 1]]
        BY <2>1
    <2> QED BY <1>5, <2>2, Zenon DEF Weighs
<1> DEFINE q == CHOOSE q : Weighs(T, t, j, path, q)
<1>8. Weighs(T, t, j, path, q)
    BY <1>7, Zenon
<1>9. PathWeight(T, t, j, path) = q[t]
    BY Zenon DEF PathWeight, Weighs
<1> HIDE DEF q, F, X
<1>10. q \in [t..T -> Int]
    <2> DEFINE Y == [i \in t..T |-> Int]
    <2>1. \A i \in t..T : q[i] = IF i = T THEN 1
                                 ELSE Weight(i, At(t, j, path, i), path[i]) * q[i + 1]
        BY <1>8, Zenon DEF Weighs
    <2>2. q[T] \in Y[T]
        BY <1>1, <2>1
    <2>3. ASSUME NEW i \in t..(T - 1), q[i + 1] \in Y[i + 1] PROVE q[i] \in Y[i]
        <3>1. i \in t..T /\ i # T /\ i + 1 \in t..T
            BY <1>1
        <3>2. Weight(i, At(t, j, path, i), path[i]) \in Int /\ q[i + 1] \in Int
            BY <1>2, <2>3, <3>1
        <3>3. q[i] = Weight(i, At(t, j, path, i), path[i]) * q[i + 1]
            BY <2>1, <3>1
        <3> QED BY <3>1, <3>2, <3>3, ProductIsInt
    <2>4. \A i \in t..T : q[i] \in Y[i]
        <3> HIDE DEF Y
        <3> QED BY <1>1, <2>2, <2>3, Downwards
    <2>5. q = [i \in t..T |-> q[i]]
        BY <1>8 DEF Weighs
    <2>6. \A i \in t..T : q[i] \in Int
        BY <2>4
    <2> QED BY <2>5, <2>6, Zenon
<1> QED BY <1>8, <1>9, <1>10

Rest(t, T, path) == [i \in (t + 1)..(T - 1) |-> path[i]]

\* What is left of a path after its first branch.
LEMMA RestIsPath ==
    ASSUME NEW T \in Nat, NEW t \in 0..T, t < T, NEW path \in Paths(t, T)
    PROVE  /\ Rest(t, T, path) \in Paths(t + 1, T)
           /\ path[t] \in {0, 1}
           /\ \A i \in (t + 1)..(T - 1) : Rest(t, T, path)[i] = path[i]
BY DEF Rest, Paths

\* The rest of a path passes the same nodes.
LEMMA AtRest ==
    ASSUME NEW T \in Nat, NEW t \in 0..T, t < T, NEW j \in Nodes(t), NEW path \in Paths(t, T),
           NEW i \in (t + 1)..T
    PROVE  At(t, j, path, i) = At(t + 1, j + path[t], Rest(t, T, path), i)
<1> DEFINE rest == Rest(t, T, path)
           k == j + path[t]
           r == [m \in (t + 1)..T |-> At(t, j, path, m)]
           X == [m \in (t + 1)..T |-> {At(t + 1, k, rest, m)}]
<1>1. /\ t \in Int /\ t + 1 \in Int /\ T \in Int /\ t + 1 <= T /\ t + 1 \in 0..T /\ j \in Int
      /\ k \in Int /\ rest \in Paths(t + 1, T)
    BY RestIsPath DEF Nodes
<1>2. r[t + 1] \in X[t + 1]
    <2>1. t + 1 \in (t + 1)..T /\ (t + 1) - 1 = t
        BY <1>1
    <2>2. At(t, j, path, t + 1) = At(t, j, path, (t + 1) - 1) + path[(t + 1) - 1]
        BY <1>1, <2>1, AtNext
    <2>3. At(t, j, path, t) = j /\ At(t + 1, k, rest, t + 1) = k
        BY <1>1, AtStart
    <2> QED BY <2>1, <2>2, <2>3
<1>3. ASSUME NEW m \in ((t + 1) + 1)..T, r[m - 1] \in X[m - 1] PROVE r[m] \in X[m]
    <2>1. /\ m \in (t + 1)..T /\ m - 1 \in (t + 1)..T /\ m - 1 \in (t + 1)..(T - 1)
          /\ m \in ((t + 1) + 1)..T
        BY <1>1
    <2>2. At(t, j, path, m) = At(t, j, path, m - 1) + path[m - 1]
        BY <1>1, <2>1, AtNext
    <2>3. At(t + 1, k, rest, m) = At(t + 1, k, rest, m - 1) + rest[m - 1]
        <3> HIDE DEF k, rest
        <3> QED BY <1>1, <2>1, AtNext
    <2>4. At(t, j, path, m - 1) = At(t + 1, k, rest, m - 1)
        BY <1>3, <2>1
    <2>5. rest[m - 1] = path[m - 1]
        BY <2>1, RestIsPath
    <2> HIDE DEF k, rest
    <2> QED BY <2>1, <2>2, <2>3, <2>4, <2>5
<1>4. \A m \in (t + 1)..T : r[m] \in X[m]
    <2> HIDE DEF r, X
    <2> QED BY <1>1, <1>2, <1>3, Upwards
<1> QED BY <1>4

\* A path weighs its first branch times its rest.
LEMMA FirstBranch ==
    ASSUME NEW T \in Grid, NEW t \in 0..T, t < T, NEW j \in Nodes(t), NEW path \in Paths(t, T)
    PROVE  /\ j + path[t] \in Nodes(t + 1)
           /\ PathWeight(T, t + 1, j + path[t], Rest(t, T, path)) \in Int
           /\ PathWeight(T, t, j, path)
              = Weight(t, j, path[t]) * PathWeight(T, t + 1, j + path[t], Rest(t, T, path))
<1> DEFINE rest == Rest(t, T, path)
           k == j + path[t]
<1>1. /\ T \in Nat /\ t \in Nat /\ T \in Int /\ t \in Int /\ t + 1 \in Int /\ t + 1 \in 0..T
      /\ t + 1 <= T /\ t \in t..T /\ t # T
    BY GridIsTimes DEF Grid
<1>2. k \in Nodes(t + 1) /\ rest \in Paths(t + 1, T)
    BY <1>1, RestIsPath DEF Nodes
<1>3. PICK q \in [t..T -> Int] : Weighs(T, t, j, path, q) /\ PathWeight(T, t, j, path) = q[t]
    BY WeightOfPath
<1>4. PICK p \in [(t + 1)..T -> Int] : /\ Weighs(T, t + 1, k, rest, p)
                                       /\ PathWeight(T, t + 1, k, rest) = p[t + 1]
    <2> HIDE DEF k, rest
    <2> QED BY <1>1, <1>2, WeightOfPath
<1>5. \A i \in t..T : q[i] = IF i = T THEN 1
                             ELSE Weight(i, At(t, j, path, i), path[i]) * q[i + 1]
    BY <1>3, Zenon DEF Weighs
<1>6. \A i \in (t + 1)..T : p[i] = IF i = T THEN 1
                                   ELSE Weight(i, At(t + 1, k, rest, i), rest[i]) * p[i + 1]
    BY <1>4, Zenon DEF Weighs
<1> DEFINE X == [i \in (t + 1)..T |-> {p[i]}]
<1>7. q[T] \in X[T]
    <2>1. T \in t..T /\ T \in (t + 1)..T
        BY <1>1
    <2> HIDE DEF k, rest
    <2> QED BY <1>5, <1>6, <2>1
<1>8. ASSUME NEW i \in (t + 1)..(T - 1), q[i + 1] \in X[i + 1] PROVE q[i] \in X[i]
    <2>1. i \in t..T /\ i \in (t + 1)..T /\ i # T /\ i + 1 \in (t + 1)..T
        BY <1>1
    <2>2. At(t, j, path, i) = At(t + 1, k, rest, i)
        BY <1>1, <2>1, AtRest
    <2>3. rest[i] = path[i]
        BY <1>1, RestIsPath
    <2>4. q[i + 1] = p[i + 1]
        BY <1>8, <2>1
    <2>5. q[i] = Weight(i, At(t, j, path, i), path[i]) * q[i + 1]
        BY <1>5, <2>1
    <2>6. p[i] = Weight(i, At(t + 1, k, rest, i), rest[i]) * p[i + 1]
        <3> HIDE DEF k, rest
        <3> QED BY <1>6, <2>1
    <2>7. q[i] = p[i]
        <3> HIDE DEF k, rest
        <3> QED BY <2>2, <2>3, <2>4, <2>5, <2>6, Zenon
    <2> QED BY <2>1, <2>7
<1>9. q[t + 1] = p[t + 1]
    <2>1. \A i \in (t + 1)..T : q[i] \in X[i]
        <3> HIDE DEF X
        <3> QED BY <1>1, <1>7, <1>8, Downwards
    <2>2. t + 1 \in (t + 1)..T
        BY <1>1
    <2> QED BY <2>1, <2>2
<1>10. q[t] = Weight(t, j, path[t]) * q[t + 1]
    <2>1. q[t] = Weight(t, At(t, j, path, t), path[t]) * q[t + 1]
        BY <1>1, <1>5
    <2>2. At(t, j, path, t) = j
        BY <1>1, AtStart DEF Nodes
    <2> QED BY <2>1, <2>2
<1>11. p[t + 1] \in Int
    BY <1>1, <1>4
<1> HIDE DEF k, rest
<1>12. /\ k \in Nodes(t + 1)
       /\ PathWeight(T, t + 1, k, rest) \in Int
       /\ PathWeight(T, t, j, path) = Weight(t, j, path[t]) * PathWeight(T, t + 1, k, rest)
    BY <1>2, <1>3, <1>4, <1>9, <1>10, <1>11, Zenon
<1> QED BY <1>12 DEF k, rest

Weights(T, t, j) == [path \in Paths(t, T) |-> PathWeight(T, t, j, path)]

\* The worth of a unit is an integer, the sum over its paths.
LEMMA PathWorthIsSum ==
    ASSUME NEW T \in Grid, NEW t \in 0..T, NEW j \in Nodes(t)
    PROVE  /\ PathWorth[T][t][j] = SumFunctionOnSet(Weights(T, t, j), Paths(t, T))
           /\ PathWorth[T][t][j] \in Int
           /\ \A path \in Paths(t, T) : /\ Weights(T, t, j)[path] = PathWeight(T, t, j, path)
                                        /\ Weights(T, t, j)[path] \in Int
<1>1. PathWorth[T][t][j] = SumFunction([path \in Paths(t, T) |-> PathWeight(T, t, j, path)])
    BY Zenon DEF PathWorth, Paths
<1>2. DOMAIN [path \in Paths(t, T) |-> PathWeight(T, t, j, path)] = Paths(t, T)
    OBVIOUS
<1>3. PathWorth[T][t][j] = SumFunctionOnSet(Weights(T, t, j), Paths(t, T))
    BY <1>1, <1>2, Zenon DEF SumFunction, Weights
<1>4. \A path \in Paths(t, T) : PathWeight(T, t, j, path) \in Int
    <2> SUFFICES ASSUME NEW path \in Paths(t, T) PROVE PathWeight(T, t, j, path) \in Int
        OBVIOUS
    <2>1. PICK q \in [t..T -> Int] : PathWeight(T, t, j, path) = q[t]
        BY WeightOfPath
    <2>2. t \in t..T
        BY GridIsTimes DEF Grid
    <2> QED BY <2>1, <2>2
<1>5. \A path \in Paths(t, T) : /\ Weights(T, t, j)[path] = PathWeight(T, t, j, path)
                                /\ Weights(T, t, j)[path] \in Int
    BY <1>4, Zenon DEF Weights
<1>6. IsFiniteSet(Paths(t, T))
    BY PathsFinite, GridIsTimes DEF Grid
<1>7. SumFunctionOnSet(Weights(T, t, j), Paths(t, T)) \in Int
    BY <1>5, <1>6, SumWithout
<1> QED BY <1>3, <1>5, <1>7

\* At its own time a unit is worth one.
LEMMA PathWorthAtEnd ==
    ASSUME NEW T \in Grid, NEW j \in Nodes(T)
    PROVE  PathWorth[T][T][j] = 1
<1>1. T \in Nat /\ T \in 0..T /\ T \in Int
    BY GridIsTimes DEF Grid
<1>2. T..(T - 1) = {}
    BY <1>1
<1> DEFINE none == [i \in {} |-> 0]
<1>3. Paths(T, T) = {none}
    BY <1>2 DEF Paths
<1>4. PICK q \in [T..T -> Int] : Weighs(T, T, j, none, q) /\ PathWeight(T, T, j, none) = q[T]
    <2>1. none \in Paths(T, T)
        BY <1>3
    <2> HIDE DEF none
    <2> QED BY <1>1, <2>1, WeightOfPath
<1>5. T \in T..T
    BY <1>1
<1> HIDE DEF none
<1>6. PathWeight(T, T, j, none) = 1
    <2>1. q[T] = IF T = T THEN 1 ELSE Weight(T, At(T, j, none, T), none[T]) * q[T + 1]
        BY <1>4, <1>5, Zenon DEF Weighs
    <2> QED BY <1>4, <2>1
<1>7. Weights(T, T, j)[none] = 1
    BY <1>3, <1>6, Zenon DEF Weights
<1>8. SumFunctionOnSet(Weights(T, T, j), {none}) = 1
    <2>1. IsFiniteSet({none}) /\ {none} \ {none} = {}
        BY FS_Singleton
    <2>2. \A x \in {none} : Weights(T, T, j)[x] \in Int
        BY <1>7
    <2>3. SumFunctionOnSet(Weights(T, T, j), {none})
          = Weights(T, T, j)[none] + SumFunctionOnSet(Weights(T, T, j), {none} \ {none})
        BY <2>1, <2>2, SumWithout
    <2>4. SumFunctionOnSet(Weights(T, T, j), {none} \ {none}) = 0
        BY <2>1, SumEmpty
    <2> QED BY <1>7, <2>3, <2>4
<1> QED BY <1>1, <1>3, <1>8, PathWorthIsSum

\* The paths that share their first branch.
LEMMA BranchWorth ==
    ASSUME NEW T \in Grid, NEW t \in 0..T, t < T, NEW j \in Nodes(t), NEW l \in {0, 1}
    PROVE  /\ Weight(t, j, l) \in Int
           /\ SumFunctionOnSet(Weights(T, t, j), {path \in Paths(t, T) : path[t] = l})
              = Weight(t, j, l) * PathWorth[T][t + 1][j + l]
<1> DEFINE A == {path \in Paths(t, T) : path[t] = l}
           B == Paths(t + 1, T)
           e == [path \in A |-> Rest(t, T, path)]
           k == j + l
           w == Weight(t, j, l)
           f == Weights(T, t, j)
           u == Weights(T, t + 1, k)
           g == [path \in B |-> w * u[path]]
<1>1. /\ T \in Nat /\ t \in Nat /\ t + 1 \in 0..T /\ t \in t..(T - 1) /\ t \in 0..Steps
      /\ k \in Nodes(t + 1) /\ l \in Int
    BY GridIsTimes DEF Grid, Nodes
<1>2. w \in Int
    BY <1>1, WeightsAreNumbers DEF Nodes
<1>3. IsFiniteSet(A) /\ IsFiniteSet(B) /\ A \in SUBSET Paths(t, T)
    <2>1. IsFiniteSet(Paths(t, T)) /\ IsFiniteSet(Paths(t + 1, T))
        BY <1>1, PathsFinite
    <2> QED BY <2>1, FS_Subset
<1>4. e \in [A -> B]
    BY <1>1, RestIsPath
<1>5. \A x, y \in A : e[x] = e[y] => x = y
    <2> SUFFICES ASSUME NEW x \in A, NEW y \in A, e[x] = e[y] PROVE x = y
        OBVIOUS
    <2>1. x \in [t..(T - 1) -> {0, 1}] /\ y \in [t..(T - 1) -> {0, 1}] /\ x[t] = y[t]
        BY DEF Paths
    <2>2. Rest(t, T, x) = Rest(t, T, y)
        OBVIOUS
    <2>3. ASSUME NEW i \in t..(T - 1) PROVE x[i] = y[i]
        <3>1. i # t => i \in (t + 1)..(T - 1)
            BY <1>1
        <3>2. i # t => x[i] = Rest(t, T, x)[i] /\ y[i] = Rest(t, T, y)[i]
            BY <3>1, <1>1, RestIsPath
        <3> QED BY <2>1, <2>2, <3>2
    <2>4. x = [i \in t..(T - 1) |-> x[i]] /\ y = [i \in t..(T - 1) |-> y[i]]
        BY <2>1
    <2>5. [i \in t..(T - 1) |-> x[i]] = [i \in t..(T - 1) |-> y[i]]
        BY <2>3
    <2> HIDE DEF A, e
    <2> QED BY <2>4, <2>5, Zenon
<1>6. \A z \in B : \E x \in A : e[x] = z
    <2> SUFFICES ASSUME NEW z \in B PROVE \E x \in A : e[x] = z
        OBVIOUS
    <2> DEFINE x == [i \in t..(T - 1) |-> IF i = t THEN l ELSE z[i]]
    <2>1. x \in A
        <3>1. \A i \in t..(T - 1) : i # t => i \in (t + 1)..(T - 1)
            BY <1>1
        <3> QED BY <1>1, <3>1 DEF Paths
    <2>2. Rest(t, T, x) = z
        <3>1. \A i \in (t + 1)..(T - 1) : i \in t..(T - 1) /\ i # t
            BY <1>1
        <3>2. \A i \in (t + 1)..(T - 1) : x[i] = z[i]
            BY <3>1
        <3> QED BY <3>2 DEF Rest, Paths
    <2> QED BY <2>1, <2>2
<1>7. \A path \in B : u[path] \in Int /\ u[path] = PathWeight(T, t + 1, k, path)
    <2> HIDE DEF k
    <2> QED BY <1>1, PathWorthIsSum
<1>8. ASSUME NEW x \in A PROVE f[x] \in Int /\ f[x] = g[e[x]]
    <2>1. x \in Paths(t, T) /\ x[t] = l
        OBVIOUS
    <2>2. f[x] = PathWeight(T, t, j, x) /\ f[x] \in Int
        BY <1>1, <2>1, PathWorthIsSum
    <2>3. PathWeight(T, t, j, x) = w * PathWeight(T, t + 1, k, Rest(t, T, x))
        BY <1>1, <2>1, FirstBranch
    <2>4. e[x] = Rest(t, T, x) /\ e[x] \in B
        BY <1>4
    <2>5. g[e[x]] = w * u[e[x]] /\ u[e[x]] = PathWeight(T, t + 1, k, e[x])
        BY <1>7, <2>4
    <2> HIDE DEF w, k, u, f, g, e
    <2> QED BY <2>2, <2>3, <2>4, <2>5
<1>9. SumFunctionOnSet(f, A) = SumFunctionOnSet(g, B)
    <2> HIDE DEF A, B, e, f, g
    <2> QED BY <1>3, <1>4, <1>5, <1>6, <1>8, SumRenamed
<1>10. \A x \in B : u[x] \in Int /\ g[x] = w * u[x]
    BY <1>7
<1>11. SumFunctionOnSet(u, B) = PathWorth[T][t + 1][k] /\ SumFunctionOnSet(u, B) \in Int
    <2> HIDE DEF k
    <2> QED BY <1>1, PathWorthIsSum
<1> HIDE DEF A, B, e, f, g, w, u, k
<1>12. SumFunctionOnSet(g, B) = w * SumFunctionOnSet(u, B)
    BY <1>2, <1>3, <1>10, SumScaled
<1>13. SumFunctionOnSet(f, A) = w * SumFunctionOnSet(u, B)
    BY <1>9, <1>12
<1> QED BY <1>2, <1>11, <1>13 DEF A, f, w, k

\* A unit is worth what it is worth one step later, stepped back.
LEMMA PathWorthStep ==
    ASSUME NEW T \in Grid, NEW t \in 0..T, t < T
    PROVE  /\ PathWorth[T][t] = Stepback(t, PathWorth[T][t + 1])
           /\ PathWorth[T][t + 1] \in [Nodes(t + 1) -> Int]
           /\ PathWorth[T][t] \in [Nodes(t) -> Int]
<1>1. /\ T \in Nat /\ t \in Nat /\ t + 1 \in 0..T /\ t \in t..(T - 1)
    BY GridIsTimes DEF Grid
<1>2. ASSUME NEW j \in Nodes(t)
      PROVE  PathWorth[T][t][j] = Weight(t, j, 0) * PathWorth[T][t + 1][j]
                                + Weight(t, j, 1) * PathWorth[T][t + 1][j + 1]
    <2> DEFINE S == Paths(t, T)
               A(l) == {path \in S : path[t] = l}
               f == Weights(T, t, j)
    <2>1. S = A(0) \cup A(1) /\ A(0) \cap A(1) = {} /\ A(0) \in SUBSET S /\ A(1) \in SUBSET S
        BY <1>1 DEF Paths
    <2>2. IsFiniteSet(S) /\ \A x \in S : f[x] \in Int
        BY <1>1, PathsFinite, PathWorthIsSum
    <2>3. SumFunctionOnSet(f, A(0) \cup A(1)) = SumFunctionOnSet(f, A(0)) + SumFunctionOnSet(f, A(1))
        <3> DEFINE A0 == A(0)
                   A1 == A(1)
        <3>1. A0 \in SUBSET S /\ A1 \in SUBSET S /\ A0 \cap A1 = {}
            BY <2>1
        <3> HIDE DEF S, A0, A1, f
        <3>2. SumFunctionOnSet(f, A0 \cup A1) = SumFunctionOnSet(f, A0) + SumFunctionOnSet(f, A1)
            BY <2>2, <3>1, SumUnion
        <3> QED BY <3>2 DEF A0, A1
    <2>4. PathWorth[T][t][j] = SumFunctionOnSet(f, S)
        BY PathWorthIsSum
    <2>5. SumFunctionOnSet(f, A(0)) = Weight(t, j, 0) * PathWorth[T][t + 1][j + 0]
        BY BranchWorth
    <2>6. SumFunctionOnSet(f, A(1)) = Weight(t, j, 1) * PathWorth[T][t + 1][j + 1]
        BY BranchWorth
    <2>7. j + 0 = j
        BY DEF Nodes
    <2>8. PathWorth[T][t][j] = SumFunctionOnSet(f, A(0)) + SumFunctionOnSet(f, A(1))
        <3> HIDE DEF A, S, f
        <3> QED BY <2>1, <2>3, <2>4, Zenon
    <2> HIDE DEF A, S, f
    <2> QED BY <2>5, <2>6, <2>7, <2>8, Zenon
<1>3. ASSUME NEW s \in 0..T PROVE PathWorth[T][s] \in [Nodes(s) -> Int]
    <2>1. \A j \in Nodes(s) : PathWorth[T][s][j] \in Int
        BY PathWorthIsSum
    <2>2. PathWorth[T][s] = [j \in Nodes(s) |-> PathWorth[T][s][j]]
        BY DEF PathWorth
    <2> QED BY <2>1, <2>2, Zenon
<1>4. PathWorth[T][t] = Stepback(t, PathWorth[T][t + 1])
    <2>1. PathWorth[T][t] = [j \in Nodes(t) |-> PathWorth[T][t][j]]
        BY <1>3
    <2>2. \A j \in Nodes(t) : j + 0 = j
        BY DEF Nodes
    <2>3. [j \in Nodes(t) |-> PathWorth[T][t][j]]
          = [j \in Nodes(t) |-> Weight(t, j, 0) * PathWorth[T][t + 1][j + 0]
                              + Weight(t, j, 1) * PathWorth[T][t + 1][j + 1]]
        BY <1>2, <2>2
    <2> QED BY <2>1, <2>3, Zenon DEF Stepback, Descendant
<1> QED BY <1>1, <1>3, <1>4

(* ---- one step of a tree ---- *)

Values(t) == [Nodes(t) -> Int]

LEMMA NodesFinite == ASSUME NEW t \in Nat PROVE IsFiniteSet(Nodes(t))
BY FS_Interval DEF Nodes

\* What a step back gives at each node.
LEMMA StepbackTyped ==
    ASSUME NEW i \in Nat, i < Steps, NEW v \in Values(i + 1)
    PROVE  /\ Stepback(i, v) \in Values(i)
           /\ \A j \in Nodes(i) :
                 /\ Weight(i, j, 0) \in Int /\ Weight(i, j, 1) \in Int
                 /\ j \in Nodes(i + 1) /\ j + 1 \in Nodes(i + 1)
                 /\ Stepback(i, v)[j] = Weight(i, j, 0) * v[j] + Weight(i, j, 1) * v[j + 1]
<1>1. ASSUME NEW j \in Nodes(i)
      PROVE  /\ Weight(i, j, 0) \in Int /\ Weight(i, j, 1) \in Int
             /\ j \in Nodes(i + 1) /\ j + 1 \in Nodes(i + 1) /\ j + 0 = j
    <2>1. i \in 0..Steps
        BY GridIsTimes
    <2> QED BY <2>1, WeightsAreNumbers DEF Nodes
<1>2. ASSUME NEW j \in Nodes(i)
      PROVE  Stepback(i, v)[j] = Weight(i, j, 0) * v[j] + Weight(i, j, 1) * v[j + 1]
    <2>1. Stepback(i, v)[j] = Weight(i, j, 0) * v[j + 0] + Weight(i, j, 1) * v[j + 1]
        BY DEF Stepback, Descendant
    <2> QED BY <1>1, <2>1
<1>3. ASSUME NEW j \in Nodes(i) PROVE Stepback(i, v)[j] \in Int
    <2>1. v[j] \in Int /\ v[j + 1] \in Int
        BY <1>1 DEF Values
    <2>2. Weight(i, j, 0) * v[j] \in Int /\ Weight(i, j, 1) * v[j + 1] \in Int
        BY <1>1, <2>1, ProductIsInt
    <2> QED BY <1>2, <2>2
<1>4. Stepback(i, v) = [j \in Nodes(i) |-> Stepback(i, v)[j]]
    BY DEF Stepback
<1>5. Stepback(i, v) \in Values(i)
    BY <1>3, <1>4, Zenon DEF Values
<1> QED BY <1>1, <1>2, <1>5

\* The scalar product as a sum.
LEMMA DotIsSum ==
    ASSUME NEW t \in Nat, NEW v \in Values(t), NEW w \in Values(t)
    PROVE  DotProduct(v, w) = SumFunctionOnSet([j \in Nodes(t) |-> v[j] * w[j]], Nodes(t))
<1>1. DOMAIN v = Nodes(t) /\ DOMAIN [j \in Nodes(t) |-> v[j] * w[j]] = Nodes(t)
    BY DEF Values
<1> QED BY <1>1, Zenon DEF DotProduct, SumFunction

Branches(i) == Nodes(i) \X {0, 1}

Target(i) == [jl \in Branches(i) |-> jl[1] + jl[2]]

\* A branch leads to a node of the next time.
LEMMA BranchTyped ==
    ASSUME NEW i \in Nat, i < Steps, NEW p \in Values(i)
    PROVE  /\ IsFiniteSet(Branches(i))
           /\ Target(i) \in [Branches(i) -> Nodes(i + 1)]
           /\ \A jl \in Branches(i) :
                 /\ jl[1] \in Nodes(i) /\ Weight(i, jl[1], jl[2]) \in Int
                 /\ p[jl[1]] * Weight(i, jl[1], jl[2]) \in Int
<1>1. IsFiniteSet(Branches(i))
    <2>1. IsFiniteSet({0, 1})
        <3>1. IsFiniteSet({0}) /\ IsFiniteSet({1}) /\ {0, 1} = {0} \cup {1}
            BY FS_Singleton
        <3> QED BY <3>1, FS_Union
    <2>2. IsFiniteSet(Nodes(i))
        BY NodesFinite
    <2> QED BY <2>1, <2>2, FS_Product DEF Branches
<1>2. Target(i) \in [Branches(i) -> Nodes(i + 1)]
    BY DEF Target, Branches, Nodes
<1>3. ASSUME NEW jl \in Branches(i)
      PROVE  /\ jl[1] \in Nodes(i) /\ Weight(i, jl[1], jl[2]) \in Int
             /\ p[jl[1]] * Weight(i, jl[1], jl[2]) \in Int
    <2>1. jl[1] \in Nodes(i) /\ jl[2] \in {0, 1} /\ i \in 0..Steps
        BY GridIsTimes DEF Branches
    <2>2. Weight(i, jl[1], jl[2]) \in Int
        BY <2>1, WeightsAreNumbers DEF Nodes
    <2>3. p[jl[1]] \in Int
        BY <2>1 DEF Values
    <2> QED BY <2>1, <2>2, <2>3, ProductIsInt
<1> QED BY <1>1, <1>2, <1>3

Into(i, k) == Group(Branches(i), Target(i), k)

Spread(i, p) == [jl \in Branches(i) |-> p[jl[1]] * Weight(i, jl[1], jl[2])]

\* The state prices of the next time, as sums over branches.
LEMMA NextPricesTyped ==
    ASSUME NEW i \in Nat, i < Steps, NEW p \in Values(i)
    PROVE  /\ NextPrices(i, p) \in Values(i + 1)
           /\ \A k \in Nodes(i + 1) :
                 NextPrices(i, p)[k] = SumFunctionOnSet(Spread(i, p), Into(i, k))
<1>1. ASSUME NEW k \in Nodes(i + 1)
      PROVE  /\ NextPrices(i, p)[k] = SumFunctionOnSet(Spread(i, p), Into(i, k))
             /\ NextPrices(i, p)[k] \in Int
    <2> DEFINE B == Into(i, k)
               g == [jl \in B |-> p[jl[1]] * Weight(i, jl[1], jl[2])]
    <2>1. {jl \in Nodes(i) \X {0, 1} : Descendant(jl[1], jl[2]) = k} = B
        <3>1. \A jl \in Nodes(i) \X {0, 1} : Descendant(jl[1], jl[2]) = Target(i)[jl]
            BY DEF Branches, Target, Descendant
        <3>2. Into(i, k) = {jl \in Branches(i) : Target(i)[jl] = k}
            BY DEF Into, Group
        <3>3. {jl \in Nodes(i) \X {0, 1} : Descendant(jl[1], jl[2]) = k}
              = {jl \in Nodes(i) \X {0, 1} : Target(i)[jl] = k}
            BY <3>1
        <3> QED BY <3>2, <3>3, Zenon DEF Branches
    <2>2. NextPrices(i, p)[k]
          = SumFunction([jl \in {jl \in Nodes(i) \X {0, 1} : Descendant(jl[1], jl[2]) = k} |->
                            p[jl[1]] * Weight(i, jl[1], jl[2])])
        BY Zenon DEF NextPrices
    <2>3. NextPrices(i, p)[k] = SumFunction(g)
        <3> HIDE DEF B
        <3> QED BY <2>1, <2>2
    <2>4. DOMAIN g = B
        OBVIOUS
    <2>5. NextPrices(i, p)[k] = SumFunctionOnSet(g, B)
        BY <2>3, <2>4, Zenon DEF SumFunction
    <2>6. IsFiniteSet(B) /\ B \in SUBSET Branches(i)
        <3>1. B \in SUBSET Branches(i)
            BY DEF Into, Group
        <3> QED BY <3>1, BranchTyped, FS_Subset
    <2>7. \A jl \in B : g[jl] \in Int /\ g[jl] = Spread(i, p)[jl]
        BY <2>6, BranchTyped DEF Spread
    <2> HIDE DEF B, g
    <2>8. SumFunctionOnSet(g, B) = SumFunctionOnSet(Spread(i, p), B)
        BY <2>6, <2>7, SumSame
    <2>9. SumFunctionOnSet(g, B) \in Int
        BY <2>6, <2>7, SumWithout
    <2> QED BY <2>5, <2>8, <2>9 DEF B
<1>2. NextPrices(i, p) = [k \in Nodes(i + 1) |-> NextPrices(i, p)[k]]
    BY DEF NextPrices
<1>3. NextPrices(i, p) \in Values(i + 1)
    BY <1>1, <1>2, Zenon DEF Values
<1> QED BY <1>1, <1>3

LEMMA Reorder == ASSUME NEW x \in Int, NEW y \in Int, NEW z \in Int
                 PROVE  x * (y * z) = (z * x) * y
OBVIOUS

LEMMA Factor == ASSUME NEW x \in Int, NEW y \in Int, NEW z \in Int
                PROVE  (x + y) * z = x * z + y * z
OBVIOUS

\* Discounting the values by one step, or bringing the prices forward by one,
\* is the same.
LEMMA StepIsAdjoint ==
    ASSUME NEW i \in Nat, i < Steps, NEW p \in Values(i), NEW v \in Values(i + 1)
    PROVE  DotProduct(Stepback(i, v), p) = DotProduct(v, NextPrices(i, p))
<1> DEFINE S == Branches(i)
           N == Nodes(i)
           K == Nodes(i + 1)
           term == [jl \in S |-> v[Target(i)[jl]] * Spread(i, p)[jl]]
           up == [k \in K |-> v[k] * NextPrices(i, p)[k]]
           down == [j \in N |-> Stepback(i, v)[j] * p[j]]
           first == [jl \in S |-> jl[1]]
<1>1. /\ IsFiniteSet(S) /\ IsFiniteSet(N) /\ IsFiniteSet(K)
      /\ Target(i) \in [S -> K] /\ first \in [S -> N]
    <2>1. IsFiniteSet(N) /\ IsFiniteSet(K)
        BY NodesFinite
    <2>2. first \in [S -> N]
        BY DEF Branches
    <2> HIDE DEF S, N, K, first
    <2>3. IsFiniteSet(S) /\ Target(i) \in [S -> K]
        BY BranchTyped DEF S, K
    <2> QED BY <2>1, <2>2, <2>3
<1>2. ASSUME NEW jl \in S
      PROVE  /\ Spread(i, p)[jl] \in Int /\ v[Target(i)[jl]] \in Int /\ term[jl] \in Int
             /\ term[jl] = v[Target(i)[jl]] * Spread(i, p)[jl]
    <2>1. Spread(i, p)[jl] \in Int
        BY BranchTyped DEF Spread
    <2>2. v[Target(i)[jl]] \in Int
        BY <1>1 DEF Values
    <2>3. v[Target(i)[jl]] * Spread(i, p)[jl] \in Int
        BY <2>1, <2>2, ProductIsInt
    <2> QED BY <2>1, <2>2, <2>3
<1>3. ASSUME NEW k \in K PROVE up[k] = SumFunctionOnSet(term, Group(S, Target(i), k))
    <2> DEFINE B == Into(i, k)
               c == v[k]
    <2>1. IsFiniteSet(B) /\ B \in SUBSET S /\ B = Group(S, Target(i), k)
        <3>1. B \in SUBSET S /\ B = Group(S, Target(i), k)
            BY DEF Into, Group
        <3>2. IsFiniteSet(B)
            BY <1>1, <3>1, FS_Subset
        <3> QED BY <3>1, <3>2
    <2>2. c \in Int
        BY DEF Values
    <2>3. \A x \in B : Spread(i, p)[x] \in Int /\ term[x] = c * Spread(i, p)[x]
        BY <1>2, <2>1 DEF Group
    <2>4. SumFunctionOnSet(term, B) = c * SumFunctionOnSet(Spread(i, p), B)
        <3> HIDE DEF B, c, term
        <3> QED BY <2>1, <2>2, <2>3, SumScaled
    <2>5. NextPrices(i, p)[k] = SumFunctionOnSet(Spread(i, p), B)
        BY NextPricesTyped
    <2>6. up[k] = SumFunctionOnSet(term, B)
        <3>1. up[k] = c * NextPrices(i, p)[k]
            OBVIOUS
        <3> HIDE DEF B, c, term, up
        <3> QED BY <2>4, <2>5, <3>1
    <2> HIDE DEF B, term, up
    <2> QED BY <2>1, <2>6
<1>4. ASSUME NEW j \in N PROVE down[j] = SumFunctionOnSet(term, Group(S, first, j))
    <2> DEFINE x == <<j, 0>>
               y == <<j, 1>>
    <2>1. Group(S, first, j) = {x, y} /\ x # y /\ x \in S /\ y \in S
        BY DEF Branches, Group
    <2>2. SumFunctionOnSet(term, {x, y}) = term[x] + term[y]
        <3>1. term[x] \in Int /\ term[y] \in Int
            BY <1>2, <2>1
        <3> HIDE DEF term, x, y
        <3> QED BY <2>1, <3>1, SumPair
    <2>3. Target(i)[x] = j /\ Target(i)[y] = j + 1
        BY <2>1 DEF Target, Nodes
    <2>4. Spread(i, p)[x] = p[j] * Weight(i, j, 0) /\ Spread(i, p)[y] = p[j] * Weight(i, j, 1)
        BY <2>1 DEF Spread
    <2>5. term[x] = v[j] * (p[j] * Weight(i, j, 0)) /\ term[y] = v[j + 1] * (p[j] * Weight(i, j, 1))
        <3>1. term[x] = v[Target(i)[x]] * Spread(i, p)[x] /\ term[y] = v[Target(i)[y]] * Spread(i, p)[y]
            BY <1>2, <2>1
        <3> HIDE DEF term, x, y
        <3> QED BY <2>3, <2>4, <3>1
    <2>6. /\ Stepback(i, v)[j] = Weight(i, j, 0) * v[j] + Weight(i, j, 1) * v[j + 1]
          /\ Weight(i, j, 0) \in Int /\ Weight(i, j, 1) \in Int
          /\ v[j] \in Int /\ v[j + 1] \in Int /\ p[j] \in Int
        BY StepbackTyped DEF Values
    <2>7. down[j] = (Weight(i, j, 0) * v[j] + Weight(i, j, 1) * v[j + 1]) * p[j]
        BY <2>6
    <2>8. down[j] = term[x] + term[y]
        <3>1. Weight(i, j, 0) * v[j] \in Int /\ Weight(i, j, 1) * v[j + 1] \in Int
            BY <2>6, ProductIsInt
        <3>2. down[j] = (Weight(i, j, 0) * v[j]) * p[j] + (Weight(i, j, 1) * v[j + 1]) * p[j]
            <4> HIDE DEF down
            <4> QED BY <2>6, <2>7, <3>1, Factor
        <3>3. term[x] = (Weight(i, j, 0) * v[j]) * p[j] /\ term[y] = (Weight(i, j, 1) * v[j + 1]) * p[j]
            <4> HIDE DEF term, x, y
            <4> QED BY <2>5, <2>6, Reorder
        <3> HIDE DEF term, x, y, down
        <3> QED BY <3>2, <3>3
    <2> HIDE DEF down, term, first, x, y, S
    <2> QED BY <2>1, <2>2, <2>8
<1>5. SumFunctionOnSet(term, S) = SumFunctionOnSet(up, K)
    <2> HIDE DEF S, N, K, term, up, down, first
    <2> QED BY <1>1, <1>2, <1>3, SumGrouped
<1>6. SumFunctionOnSet(term, S) = SumFunctionOnSet(down, N)
    <2> HIDE DEF S, N, K, term, up, down, first
    <2> QED BY <1>1, <1>2, <1>4, SumGrouped
<1>7. DotProduct(Stepback(i, v), p) = SumFunctionOnSet(down, N)
    BY StepbackTyped, DotIsSum
<1>8. DotProduct(v, NextPrices(i, p)) = SumFunctionOnSet(up, K)
    BY NextPricesTyped, DotIsSum
<1> HIDE DEF S, N, K, term, up, down, first
<1> QED BY <1>5, <1>6, <1>7, <1>8

(* ---- rolling back, and state prices ---- *)

RolledBack(a, b, base, r) ==
    r = [i \in a..b |-> IF i = b THEN base ELSE Stepback(i, r[i + 1])]

TheRoll(a, b, base) == CHOOSE r : RolledBack(a, b, base, r)

\* Values can be rolled back from any time to any earlier one.
LEMMA RollExists ==
    ASSUME NEW b \in Grid, NEW a \in 0..b, NEW base \in Values(b)
    PROVE  /\ \A i \in a..b : TheRoll(a, b, base)[i] \in Values(i)
           /\ TheRoll(a, b, base)[b] = base
           /\ \A i \in a..(b - 1) :
                 TheRoll(a, b, base)[i] = Stepback(i, TheRoll(a, b, base)[i + 1])
<1>1. a \in Int /\ b \in Int /\ a \in Nat /\ b \in Nat /\ a <= b /\ b <= Steps
    BY GridIsTimes DEF Grid
<1>2. \A i \in a..(b - 1) : i \in Nat /\ i < Steps /\ i \in a..b /\ i + 1 \in a..b
    BY <1>1, GridIsTimes
<1> DEFINE X == [i \in a..b |-> Values(i)]
           F == [i \in a..(b - 1) |-> [x \in Values(i + 1) |-> Stepback(i, x)]]
<1>3. base \in X[b]
    BY <1>1
<1>4. ASSUME NEW i \in a..(b - 1), NEW x \in X[i + 1] PROVE F[i][x] \in X[i] /\ F[i][x] = Stepback(i, x)
    <2>1. x \in Values(i + 1)
        BY <1>2, <1>4
    <2>2. F[i][x] = Stepback(i, x)
        BY <2>1
    <2>3. Stepback(i, x) \in Values(i)
        BY <1>2, <2>1, StepbackTyped
    <2> QED BY <1>2, <2>2, <2>3
<1>5. PICK r : Descends(a, b, X, F, base, r)
    <2>1. \A i \in a..(b - 1) : \A x \in X[i + 1] : F[i][x] \in X[i]
        BY <1>4
    <2> HIDE DEF X, F
    <2> QED BY <1>1, <1>3, <2>1, Descent
<1>6. RolledBack(a, b, base, r)
    <2>1. ASSUME NEW i \in a..b
          PROVE  r[i] = IF i = b THEN base ELSE Stepback(i, r[i + 1])
        <3>1. /\ r[i] = IF i = b THEN base ELSE F[i][r[i + 1]]
              /\ i # b => r[i + 1] \in X[i + 1] /\ i \in a..(b - 1)
            <4>1. i # b => i + 1 \in a..b /\ i \in a..(b - 1)
                BY <1>1
            <4> HIDE DEF X, F
            <4> QED BY <1>5, <4>1 DEF Descends
        <3>2. i # b => F[i][r[i + 1]] = Stepback(i, r[i + 1])
            <4> HIDE DEF X, F
            <4> QED BY <1>4, <3>1
        <3> HIDE DEF X, F
        <3> QED BY <3>1, <3>2
    <2>2. r = [i \in a..b |-> r[i]]
        BY <1>5, Zenon DEF Descends
    <2>3. [i \in a..b |-> r[i]] = [i \in a..b |-> IF i = b THEN base ELSE Stepback(i, r[i + 1])]
        BY <2>1
    <2> QED BY <2>2, <2>3, Zenon DEF RolledBack
<1> DEFINE q == TheRoll(a, b, base)
<1>7. RolledBack(a, b, base, q)
    BY <1>6, Zenon DEF TheRoll
<1> HIDE DEF q, F
<1>8. \A i \in a..b : q[i] = IF i = b THEN base ELSE Stepback(i, q[i + 1])
    BY <1>7, Zenon DEF RolledBack
<1>9. q[b] = base
    BY <1>1, <1>8
<1>10. \A i \in a..(b - 1) : q[i] = Stepback(i, q[i + 1])
    BY <1>1, <1>8
<1>11. \A i \in a..b : q[i] \in X[i]
    <2>1. q[b] \in X[b]
        BY <1>3, <1>9
    <2>2. ASSUME NEW i \in a..(b - 1), q[i + 1] \in X[i + 1] PROVE q[i] \in X[i]
        <3>1. q[i + 1] \in Values(i + 1)
            BY <1>2, <2>2
        <3>2. Stepback(i, q[i + 1]) \in Values(i)
            BY <1>2, <3>1, StepbackTyped
        <3> QED BY <1>2, <1>10, <3>2
    <2> HIDE DEF X
    <2> QED BY <1>1, <2>1, <2>2, Downwards
<1>12. \A i \in a..b : q[i] \in Values(i)
    BY <1>11
<1> QED BY <1>9, <1>10, <1>12 DEF q

LEMMA PathWorthTyped ==
    ASSUME NEW T \in Grid, NEW t \in 0..T
    PROVE  PathWorth[T][t] \in Values(t)
<1>1. \A j \in Nodes(t) : PathWorth[T][t][j] \in Int
    BY PathWorthIsSum
<1>2. PathWorth[T][t] = [j \in Nodes(t) |-> PathWorth[T][t][j]]
    BY DEF PathWorth
<1> QED BY <1>1, <1>2, Zenon DEF Values

\* Values are equal if they are at every node.
LEMMA SameValues ==
    ASSUME NEW t, NEW v \in Values(t), NEW w \in Values(t), \A j \in Nodes(t) : v[j] = w[j]
    PROVE  v = w
<1>1. v = [j \in Nodes(t) |-> v[j]] /\ w = [j \in Nodes(t) |-> w[j]]
    BY DEF Values
<1>2. [j \in Nodes(t) |-> v[j]] = [j \in Nodes(t) |-> w[j]]
    OBVIOUS
<1> QED BY <1>1, <1>2, Zenon

\* A bond is worth the unit it pays.
LEMMA BondIsPathWorth ==
    ASSUME NEW T \in Grid, NEW t \in 0..T
    PROVE  Bond(T, t) = PathWorth[T][t]
<1> DEFINE one == [j \in Nodes(T) |-> 1]
           q == TheRoll(t, T, one)
           X == [i \in t..T |-> {PathWorth[T][i]}]
<1>1. t \in Int /\ T \in Int /\ t <= T /\ T \in 0..T /\ t \in t..T /\ T \in t..T /\ t \in Nat
    BY GridIsTimes DEF Grid
<1>2. one \in Values(T)
    BY DEF Values
<1>3. /\ q[T] = one
      /\ \A i \in t..(T - 1) : q[i] = Stepback(i, q[i + 1])
    <2> HIDE DEF one
    <2> QED BY <1>2, RollExists
<1>4. Bond(T, t) = q[t]
    BY Zenon DEF Bond, TheRoll, RolledBack
<1>5. PathWorth[T][T] = one
    <2>1. \A j \in Nodes(T) : PathWorth[T][T][j] = one[j]
        BY PathWorthAtEnd
    <2> HIDE DEF one
    <2> QED BY <1>1, <1>2, <2>1, PathWorthTyped, SameValues
<1> HIDE DEF q, one
<1>6. q[T] \in X[T]
    BY <1>1, <1>3, <1>5
<1>7. ASSUME NEW i \in t..(T - 1), q[i + 1] \in X[i + 1] PROVE q[i] \in X[i]
    <2>1. i \in t..T /\ i + 1 \in t..T /\ i \in 0..T /\ i < T
        BY <1>1
    <2>2. q[i + 1] = PathWorth[T][i + 1]
        BY <1>7, <2>1
    <2>3. PathWorth[T][i] = Stepback(i, PathWorth[T][i + 1])
        BY <2>1, PathWorthStep
    <2>4. q[i] = PathWorth[T][i]
        BY <1>3, <2>2, <2>3
    <2> QED BY <2>1, <2>4
<1>8. \A i \in t..T : q[i] \in X[i]
    <2> HIDE DEF X
    <2> QED BY <1>1, <1>6, <1>7, Downwards
<1>9. q[t] = PathWorth[T][t]
    BY <1>1, <1>8
<1> QED BY <1>4, <1>9

AllValues == UNION {Values(i) : i \in Grid}

\* Each element of the state prices is the one before it brought forward.
PricesSound(P) ==
    /\ P \in Seq(AllValues)
    /\ Len(P) \in 1..(Steps + 1)
    /\ P[1] = [j \in Nodes(0) |-> 1]
    /\ \A i \in 1..Len(P) : P[i] \in Values(i - 1)
    /\ \A i \in 1..(Len(P) - 1) : P[i + 1] = NextPrices(i - 1, P[i])

\* The state prices at a time give values there what they discount to.
LEMMA PricesDiscount ==
    ASSUME NEW P, PricesSound(P), NEW t \in Grid, t + 1 <= Len(P), NEW v \in Values(t)
    PROVE  DotProduct(v, P[t + 1]) = TheRoll(0, t, v)[0][0]
<1> DEFINE q == TheRoll(0, t, v)
           X == [i \in 0..t |-> {x \in Values(i) : DotProduct(x, P[i + 1]) = DotProduct(v, P[t + 1])}]
<1>1. /\ t \in Nat /\ t \in Int /\ 0 \in Int /\ 0 <= t /\ 0 \in 0..t /\ t \in 0..t /\ t <= Steps
      /\ Len(P) \in Nat
    BY GridIsTimes DEF Grid, PricesSound
<1>2. /\ \A i \in 0..t : q[i] \in Values(i)
      /\ q[t] = v
      /\ \A i \in 0..(t - 1) : q[i] = Stepback(i, q[i + 1])
    BY <1>1, RollExists
<1> HIDE DEF q
<1>3. q[t] \in X[t]
    BY <1>1, <1>2
<1>4. ASSUME NEW i \in 0..(t - 1), q[i + 1] \in X[i + 1] PROVE q[i] \in X[i]
    <2>1. /\ i \in 0..t /\ i + 1 \in 0..t /\ i \in Nat /\ i < Steps
          /\ i + 1 \in 1..(Len(P) - 1) /\ i + 1 \in 1..Len(P) /\ (i + 1) - 1 = i
        BY <1>1, GridIsTimes
    <2>2. q[i + 1] \in Values(i + 1) /\ DotProduct(q[i + 1], P[(i + 1) + 1]) = DotProduct(v, P[t + 1])
        BY <1>4, <2>1
    <2>3. P[i + 1] \in Values(i) /\ P[(i + 1) + 1] = NextPrices(i, P[i + 1])
        <3>1. P[i + 1] \in Values((i + 1) - 1) /\ P[(i + 1) + 1] = NextPrices((i + 1) - 1, P[i + 1])
            BY <2>1 DEF PricesSound
        <3> QED BY <2>1, <3>1
    <2>4. DotProduct(Stepback(i, q[i + 1]), P[i + 1]) = DotProduct(q[i + 1], NextPrices(i, P[i + 1]))
        BY <2>1, <2>2, <2>3, StepIsAdjoint
    <2>5. DotProduct(q[i], P[i + 1]) = DotProduct(v, P[t + 1])
        BY <1>2, <2>2, <2>3, <2>4
    <2> QED BY <1>2, <2>1, <2>5
<1>5. \A i \in 0..t : q[i] \in X[i]
    <2> HIDE DEF X
    <2> QED BY <1>1, <1>3, <1>4, Downwards
<1>6. DotProduct(q[0], P[1]) = DotProduct(v, P[t + 1]) /\ q[0] \in Values(0)
    BY <1>1, <1>5
<1> DEFINE f == [j \in Nodes(0) |-> q[0][j] * P[1][j]]
<1>7. P[1] \in Values(0) /\ 0 \in Nodes(0) /\ Nodes(0) = {0}
    BY DEF PricesSound, Nodes, Values
<1>8. DotProduct(q[0], P[1]) = SumFunctionOnSet(f, {0})
    <2>1. DotProduct(q[0], P[1]) = SumFunctionOnSet(f, Nodes(0))
        BY <1>6, <1>7, DotIsSum
    <2> HIDE DEF f
    <2> QED BY <1>7, <2>1
<1>9. f[0] = q[0][0] /\ q[0][0] \in Int
    <2>1. P[1][0] = 1 /\ q[0][0] \in Int
        BY <1>6, <1>7 DEF PricesSound, Values
    <2>2. f[0] = q[0][0] * P[1][0]
        BY <1>7
    <2> QED BY <2>1, <2>2
<1> HIDE DEF f
<1>10. SumFunctionOnSet(f, {0}) = f[0] + SumFunctionOnSet(f, {0} \ {0})
    <2>1. \A x \in {0} : f[x] \in Int
        BY <1>9
    <2> QED BY <2>1, FS_Singleton, SumWithout
<1>11. {0} \ {0} = {}
    OBVIOUS
<1>12. SumFunctionOnSet(f, {0} \ {0}) = 0
    BY <1>11, SumEmpty
<1> QED BY <1>6, <1>8, <1>9, <1>10, <1>12 DEF q

\* One more time of state prices.
LEMMA PricesGrow ==
    ASSUME NEW n \in 1..Steps, NEW P, PricesSound(P), Len(P) = n
    PROVE  /\ PricesSound(Append(P, NextPrices(n - 1, P[n])))
           /\ Len(Append(P, NextPrices(n - 1, P[n]))) = n + 1
<1> DEFINE p == NextPrices(n - 1, P[n])
           R == Append(P, p)
<1>1. n - 1 \in Nat /\ n - 1 < Steps /\ (n - 1) + 1 = n /\ n \in Grid /\ n \in 1..Len(P) /\ n \in Nat
    BY GridIsTimes DEF Grid
<1>2. P \in Seq(AllValues) /\ P[n] \in Values(n - 1)
    BY <1>1 DEF PricesSound
<1>3. p \in Values(n)
    <2>1. p \in Values((n - 1) + 1)
        BY <1>1, <1>2, NextPricesTyped
    <2> HIDE DEF p
    <2> QED BY <1>1, <2>1
<1>4. p \in AllValues
    <2> HIDE DEF p
    <2> QED BY <1>1, <1>3 DEF AllValues
<1>5. /\ R \in Seq(AllValues) /\ Len(R) = n + 1 /\ R[n + 1] = p
      /\ \A i \in 1..n : R[i] = P[i]
    <2> HIDE DEF p
    <2> QED BY <1>1, <1>2, <1>4
<1> HIDE DEF R, p
<1>6. R[1] = [j \in Nodes(0) |-> 1]
    <2>1. 1 \in 1..n
        BY <1>1
    <2> QED BY <1>5, <2>1 DEF PricesSound
<1>7. ASSUME NEW i \in 1..(n + 1) PROVE R[i] \in Values(i - 1)
    <2>1. CASE i = n + 1
        <3>1. i - 1 = n
            BY <2>1, <1>1
        <3> QED BY <1>3, <1>5, <2>1, <3>1
    <2>2. CASE i # n + 1
        <3>1. i \in 1..n
            BY <2>2, <1>1
        <3> QED BY <1>5, <3>1 DEF PricesSound
    <2> QED BY <2>1, <2>2
<1>8. ASSUME NEW i \in 1..n PROVE R[i + 1] = NextPrices(i - 1, R[i])
    <2>1. CASE i = n
        BY <1>5, <2>1 DEF p
    <2>2. CASE i # n
        <3>1. i \in 1..(Len(P) - 1) /\ i + 1 \in 1..n
            BY <2>2, <1>1
        <3>2. P[i + 1] = NextPrices(i - 1, P[i])
            BY <3>1 DEF PricesSound
        <3> QED BY <1>5, <3>1, <3>2
    <2> QED BY <2>1, <2>2
<1>9. PricesSound(R)
    <2>1. Len(R) \in 1..(Steps + 1) /\ Len(R) - 1 = n
        BY <1>1, <1>5, GridIsTimes
    <2> QED BY <1>5, <1>6, <1>7, <1>8, <2>1 DEF PricesSound
<1> QED BY <1>5, <1>9 DEF R, p

Grown(limit, until, g) ==
    g = [i \in limit..until |->
            IF i = limit THEN statePrices
            ELSE Append(g[i - 1], NextPrices(i - 1, g[i - 1][i]))]

\* The lattice extends its state prices soundly, as far as it is asked to.
LEMMA ExtendedSound ==
    ASSUME PricesSound(statePrices), NEW t \in Grid
    PROVE  PricesSound(Extended(t)) /\ t + 1 <= Len(Extended(t))
<1> DEFINE limit == Len(statePrices) - 1
<1>1. t \in Nat /\ t \in Int /\ limit \in Nat /\ limit \in Int /\ t <= Steps /\ limit <= Steps
    BY GridIsTimes DEF PricesSound, Grid
<1>2. CASE t <= limit
    <2>1. Extended(t) = statePrices
        BY <1>1, <1>2 DEF Extended
    <2> QED BY <1>1, <1>2, <2>1
<1>3. CASE t > limit
    <2> DEFINE X == [i \in limit..t |-> {P \in Seq(AllValues) : PricesSound(P) /\ Len(P) = i + 1}]
               Y == {P \in Seq(AllValues) : PricesSound(P)}
               G(i, P) == Append(P, NextPrices(i - 1, P[i]))
               F == [i \in (limit + 1)..t |-> [P \in Y |-> G(i, P)]]
    <2>1. statePrices \in X[limit]
        <3>1. limit \in limit..t /\ Len(statePrices) = limit + 1 /\ statePrices \in Seq(AllValues)
            BY <1>1, <1>3 DEF PricesSound
        <3> HIDE DEF limit
        <3> QED BY <3>1
    <2>2. ASSUME NEW i \in (limit + 1)..t, NEW P \in X[i - 1]
          PROVE  /\ F[i][P] = G(i, P)
                 /\ G(i, P) \in X[i]
        <3> HIDE DEF limit, X, F, G
        <3>1. i \in limit..t /\ i - 1 \in limit..t /\ i \in 1..Steps
            BY <1>1, GridIsTimes
        <3> USE DEF X, F, G
        <3>2. P \in Seq(AllValues) /\ PricesSound(P) /\ Len(P) = i
            BY <2>2, <3>1
        <3>3. PricesSound(G(i, P)) /\ Len(G(i, P)) = i + 1
            BY <3>1, <3>2, PricesGrow
        <3>4. G(i, P) \in Seq(AllValues)
            BY <3>3 DEF PricesSound
        <3>5. P \in Y
            BY <3>2
        <3> HIDE DEF G
        <3> QED BY <3>1, <3>3, <3>4, <3>5
    <2>3. PICK r : Ascends(limit, t, X, F, statePrices, r)
        <3>1. \A i \in (limit + 1)..t : \A P \in X[i - 1] : F[i][P] \in X[i]
            <4> HIDE DEF X, F, G, limit
            <4> QED BY <2>2
        <3>2. limit <= t
            BY <1>1, <1>3
        <3> HIDE DEF X, F, limit
        <3> QED BY <1>1, <2>1, <3>1, <3>2, Ascent
    <2>4. Grown(limit, t, r)
        <3>1. ASSUME NEW i \in limit..t
              PROVE  r[i] = IF i = limit THEN statePrices ELSE G(i, r[i - 1])
            <4>1. i # limit => i \in (limit + 1)..t /\ i - 1 \in limit..t
                BY <1>1
            <4> HIDE DEF X, F, G, limit
            <4>2. /\ r[i] = IF i = limit THEN statePrices ELSE F[i][r[i - 1]]
                  /\ i # limit => r[i - 1] \in X[i - 1]
                BY <2>3, <4>1 DEF Ascends
            <4>3. i # limit => F[i][r[i - 1]] = G(i, r[i - 1])
                BY <2>2, <4>1, <4>2
            <4> QED BY <4>2, <4>3
        <3>2. r = [i \in limit..t |-> r[i]]
            BY <2>3, Zenon DEF Ascends
        <3> HIDE DEF X, F, limit
        <3>3. [i \in limit..t |-> r[i]]
              = [i \in limit..t |-> IF i = limit THEN statePrices ELSE G(i, r[i - 1])]
            <4> HIDE DEF G
            <4> QED BY <3>1
        <3> QED BY <3>2, <3>3, Zenon DEF Grown
    <2> DEFINE g == CHOOSE g : Grown(limit, t, g)
    <2>5. Grown(limit, t, g)
        BY <2>4, Zenon
    <2>6. Extended(t) = g[t]
        <3>1. t > Len(statePrices) - 1
            BY <1>3
        <3>2. Extended(t) = computeStatePrices(t)
            BY <3>1 DEF Extended
        <3>3. computeStatePrices(t) = g[t]
            BY Zenon DEF computeStatePrices, Grown
        <3> QED BY <3>2, <3>3
    <2> HIDE DEF g
    <2>7. \A i \in limit..t : g[i] = IF i = limit THEN statePrices ELSE G(i, g[i - 1])
        BY <2>5, Zenon DEF Grown
    <2>8. \A i \in limit..t : g[i] \in X[i]
        <3>1. g[limit] \in X[limit]
            <4>1. limit \in limit..t
                BY <1>1, <1>3
            <4> HIDE DEF X, G, limit
            <4> QED BY <2>1, <2>7, <4>1
        <3>2. ASSUME NEW i \in (limit + 1)..t, g[i - 1] \in X[i - 1] PROVE g[i] \in X[i]
            <4>1. i \in limit..t /\ i # limit
                BY <1>1
            <4> HIDE DEF X, F, G, limit
            <4>2. G(i, g[i - 1]) \in X[i]
                BY <2>2, <3>2
            <4> QED BY <2>7, <4>1, <4>2
        <3>3. limit <= t
            BY <1>1, <1>3
        <3> HIDE DEF X, limit
        <3> QED BY <1>1, <3>1, <3>2, <3>3, Upwards
    <2>9. t \in limit..t
        BY <1>1, <1>3
    <2>10. PricesSound(g[t]) /\ Len(g[t]) = t + 1
        <3> HIDE DEF limit
        <3> QED BY <2>8, <2>9
    <2> HIDE DEF limit
    <2> QED BY <1>1, <2>6, <2>10
<1> QED BY <1>1, <1>2, <1>3

\* The present value by state prices is what the values discount to.
LEMMA PresentValueIsDiscounted ==
    ASSUME PricesSound(statePrices), NEW asset, asset.time \in Grid,
           asset.values \in Values(asset.time)
    PROVE  presentValue(asset) = TheRoll(0, asset.time, asset.values)[0][0]
<1> DEFINE t == asset.time
           v == asset.values
           P == Extended(t)
<1>1. PricesSound(P) /\ t + 1 <= Len(P)
    BY ExtendedSound
<1>2. presentValue(asset) = DotProduct(v, P[t + 1])
    BY DEF presentValue, StatePricesAt
<1> HIDE DEF t, v, P
<1>3. t \in Grid /\ v \in Values(t)
    BY DEF t, v
<1>4. DotProduct(v, P[t + 1]) = TheRoll(0, t, v)[0][0]
    BY <1>1, <1>3, PricesDiscount
<1> QED BY <1>2, <1>4 DEF t, v

LEMMA PricesSoundInit == Init => PricesSound(statePrices)
<1> SUFFICES ASSUME Init PROVE PricesSound(statePrices)
    OBVIOUS
<1> DEFINE one == [j \in Nodes(0) |-> 1]
<1>1. statePrices = <<one>>
    BY DEF Init
<1>2. one \in Values(0) /\ 0 \in Grid
    BY GridIsTimes DEF Values, Grid
<1>3. one \in AllValues
    <2> HIDE DEF one
    <2> QED BY <1>2 DEF AllValues
<1> HIDE DEF one
<1>4. /\ statePrices \in Seq(AllValues) /\ Len(statePrices) = 1 /\ statePrices[1] = one
      /\ \A i \in 1..1 : i - 1 = 0 /\ i = 1
      /\ 1..(1 - 1) = {}
    BY <1>1, <1>3
<1>5. 1 \in 1..(Steps + 1)
    BY GridIsTimes
<1> QED BY <1>2, <1>4, <1>5 DEF PricesSound, one

(* ---- the coupons of a swap ---- *)

Resets(s, r) == {c \in Coupons : c.reset \in r..s}
Pays(s, p)   == {c \in Coupons : c.reset < 0 /\ c.pay \in p..s}

AtReset(t, j) == [c \in Resets(Steps, t) |-> c.atReset * PathWorth[c.reset][t][j]
                                           + c.atPay * PathWorth[c.pay][t][j]]
AtPay(t, j)   == [c \in Pays(Steps, t) |-> c.known * PathWorth[c.pay][t][j]]

LEMMA CouponTyped ==
    ASSUME NEW c \in Coupons
    PROVE  /\ c.pay \in Grid /\ c.pay \in Nat /\ c.reset \in Int /\ c.reset < c.pay
           /\ c.reset >= 0 => c.reset \in Grid
           /\ c.atReset \in Int /\ c.atPay \in Int /\ c.known \in Int
BY CouponsOnGrid, GridIsTimes DEF Grid

\* What each coupon contributes at a node.
LEMMA TermsTyped ==
    ASSUME NEW t \in Grid, NEW j \in Nodes(t)
    PROVE  /\ \A c \in Resets(Steps, t) :
                 /\ c.reset \in Grid /\ t \in 0..c.reset /\ t \in 0..c.pay /\ t < c.pay
                 /\ PathWorth[c.reset][t][j] \in Int /\ PathWorth[c.pay][t][j] \in Int
                 /\ c.atReset * PathWorth[c.reset][t][j] \in Int
                 /\ c.atPay * PathWorth[c.pay][t][j] \in Int
                 /\ AtReset(t, j)[c] = c.atReset * PathWorth[c.reset][t][j]
                                     + c.atPay * PathWorth[c.pay][t][j]
                 /\ AtReset(t, j)[c] \in Int
           /\ \A c \in Pays(Steps, t) :
                 /\ t \in 0..c.pay /\ PathWorth[c.pay][t][j] \in Int
                 /\ AtPay(t, j)[c] = c.known * PathWorth[c.pay][t][j]
                 /\ AtPay(t, j)[c] \in Int
<1>1. t \in Nat
    BY GridIsTimes DEF Grid
<1>2. ASSUME NEW c \in Resets(Steps, t)
      PROVE  /\ c.reset \in Grid /\ t \in 0..c.reset /\ t \in 0..c.pay /\ t < c.pay
             /\ PathWorth[c.reset][t][j] \in Int /\ PathWorth[c.pay][t][j] \in Int
             /\ c.atReset * PathWorth[c.reset][t][j] \in Int
             /\ c.atPay * PathWorth[c.pay][t][j] \in Int
             /\ AtReset(t, j)[c] = c.atReset * PathWorth[c.reset][t][j]
                                 + c.atPay * PathWorth[c.pay][t][j]
             /\ AtReset(t, j)[c] \in Int
    <2>1. c \in Coupons /\ c.reset >= t
        BY <1>1, GridIsTimes DEF Resets
    <2>2. /\ c.pay \in Grid /\ c.reset \in Grid /\ c.atReset \in Int /\ c.atPay \in Int
          /\ t \in 0..c.reset /\ t \in 0..c.pay /\ t < c.pay
        BY <1>1, <2>1, CouponTyped
    <2>3. PathWorth[c.reset][t][j] \in Int /\ PathWorth[c.pay][t][j] \in Int
        BY <2>2, PathWorthIsSum
    <2>4. c.atReset * PathWorth[c.reset][t][j] \in Int /\ c.atPay * PathWorth[c.pay][t][j] \in Int
        BY <2>2, <2>3, ProductIsInt
    <2>5. AtReset(t, j)[c] = c.atReset * PathWorth[c.reset][t][j]
                           + c.atPay * PathWorth[c.pay][t][j]
        BY Zenon DEF AtReset
    <2> QED BY <2>2, <2>3, <2>4, <2>5
<1>3. ASSUME NEW c \in Pays(Steps, t)
      PROVE  /\ t \in 0..c.pay /\ PathWorth[c.pay][t][j] \in Int
             /\ AtPay(t, j)[c] = c.known * PathWorth[c.pay][t][j]
             /\ AtPay(t, j)[c] \in Int
    <2>1. c \in Coupons /\ c.pay >= t
        BY <1>1, GridIsTimes DEF Pays
    <2>2. c.pay \in Grid /\ c.known \in Int /\ t \in 0..c.pay
        BY <1>1, <2>1, CouponTyped
    <2>3. PathWorth[c.pay][t][j] \in Int
        BY <2>2, PathWorthIsSum
    <2>4. c.known * PathWorth[c.pay][t][j] \in Int
        BY <2>2, <2>3, ProductIsInt
    <2>5. AtPay(t, j)[c] = c.known * PathWorth[c.pay][t][j]
        BY Zenon DEF AtPay
    <2> QED BY <2>2, <2>3, <2>4, <2>5
<1> QED BY <1>2, <1>3

LEMMA CouponsSelected ==
    ASSUME NEW t \in Grid, NEW s \in Grid, NEW r \in Nat, NEW p \in Nat, t <= r, t <= p
    PROVE  /\ Resets(s, r) \in SUBSET Resets(Steps, t) /\ Pays(s, p) \in SUBSET Pays(Steps, t)
           /\ IsFiniteSet(Resets(s, r)) /\ IsFiniteSet(Pays(s, p))
           /\ IsFiniteSet(Resets(Steps, t)) /\ IsFiniteSet(Pays(Steps, t))
<1>1. t \in Nat /\ s \in Nat /\ s <= Steps /\ Steps \in Nat
    BY GridIsTimes DEF Grid
<1>2. Resets(s, r) \in SUBSET Resets(Steps, t)
    BY <1>1 DEF Resets
<1>3. Pays(s, p) \in SUBSET Pays(Steps, t)
    BY <1>1 DEF Pays
<1>4. \A a, b : Resets(a, b) \in SUBSET Coupons /\ Pays(a, b) \in SUBSET Coupons
    BY DEF Resets, Pays
<1>5. IsFiniteSet(Coupons)
    BY CouponsOnGrid
<1> QED BY <1>2, <1>3, <1>4, <1>5, FS_Subset

\* The worth of a swap as two sums over its coupons.
LEMMA WorthIsSum ==
    ASSUME NEW s \in Grid, NEW t \in Grid, NEW j \in Nodes(t),
           NEW r \in Nat, NEW p \in Nat, t <= r, t <= p
    PROVE  /\ Worth(s, t, j, r, p) = SumFunctionOnSet(AtReset(t, j), Resets(s, r))
                                   + SumFunctionOnSet(AtPay(t, j), Pays(s, p))
           /\ SumFunctionOnSet(AtReset(t, j), Resets(s, r)) \in Int
           /\ SumFunctionOnSet(AtPay(t, j), Pays(s, p)) \in Int
           /\ Worth(s, t, j, r, p) \in Int
<1> DEFINE R == Resets(s, r)
           Q == Pays(s, p)
           f == [c \in R |-> c.atReset * PathWorth[c.reset][t][j]
                           + c.atPay * PathWorth[c.pay][t][j]]
           g == [c \in Q |-> c.known * PathWorth[c.pay][t][j]]
<1>1. /\ R \in SUBSET Resets(Steps, t) /\ Q \in SUBSET Pays(Steps, t)
      /\ IsFiniteSet(R) /\ IsFiniteSet(Q)
    BY CouponsSelected
<1>2. DOMAIN f = R /\ DOMAIN g = Q
    OBVIOUS
<1>3. Worth(s, t, j, r, p) = SumFunctionOnSet(f, R) + SumFunctionOnSet(g, Q)
    <2>1. Worth(s, t, j, r, p) = SumFunction(f) + SumFunction(g)
        BY Zenon DEF Worth, Resets, Pays
    <2>2. SumFunction(f) = SumFunctionOnSet(f, R) /\ SumFunction(g) = SumFunctionOnSet(g, Q)
        BY <1>2, Zenon DEF SumFunction
    <2> QED BY <2>1, <2>2, Zenon
<1>4. ASSUME NEW c \in R PROVE f[c] = AtReset(t, j)[c] /\ AtReset(t, j)[c] \in Int
    <2>1. f[c] = c.atReset * PathWorth[c.reset][t][j] + c.atPay * PathWorth[c.pay][t][j]
        BY Zenon
    <2> QED BY <1>1, <2>1, TermsTyped
<1>5. ASSUME NEW c \in Q PROVE g[c] = AtPay(t, j)[c] /\ AtPay(t, j)[c] \in Int
    <2>1. g[c] = c.known * PathWorth[c.pay][t][j]
        BY Zenon
    <2> QED BY <1>1, <2>1, TermsTyped
<1> HIDE DEF R, Q, f, g
<1>6. SumFunctionOnSet(AtReset(t, j), R) = SumFunctionOnSet(f, R)
    BY <1>1, <1>4, SumSame
<1>7. SumFunctionOnSet(AtPay(t, j), Q) = SumFunctionOnSet(g, Q)
    BY <1>1, <1>5, SumSame
<1>8. SumFunctionOnSet(AtReset(t, j), R) \in Int /\ SumFunctionOnSet(AtPay(t, j), Q) \in Int
    BY <1>1, <1>4, <1>5, SumWithout
<1> QED BY <1>3, <1>6, <1>7, <1>8 DEF R, Q

\* Nothing is left of the coupons after the start.
LEMMA WorthAtStart ==
    ASSUME NEW s \in Grid, NEW j \in Nodes(s)
    PROVE  Worth(s, s, j, s + 1, s + 1) = 0
<1>1. s \in Nat /\ s + 1 \in Nat /\ s <= s + 1
    BY GridIsTimes DEF Grid
<1>2. (s + 1)..s = {}
    BY <1>1
<1>3. Resets(s, s + 1) = {} /\ Pays(s, s + 1) = {}
    BY <1>2 DEF Resets, Pays
<1> DEFINE after == s + 1
<1>4. Worth(s, s, j, after, after) = SumFunctionOnSet(AtReset(s, j), Resets(s, after))
                                   + SumFunctionOnSet(AtPay(s, j), Pays(s, after))
    <2>1. after \in Nat /\ s <= after
        BY <1>1
    <2> HIDE DEF after
    <2> QED BY <2>1, WorthIsSum
<1> QED BY <1>3, <1>4, SumEmpty

\* What the resets, and the payments, of the very time add.
LEMMA WorthWithResets ==
    ASSUME NEW s \in Grid, NEW t \in 0..s, NEW j \in Nodes(t), NEW p \in Nat, t <= p
    PROVE  /\ Worth(s, t, j, t, p) = Worth(s, t, j, t + 1, p)
                                   + SumFunctionOnSet(AtReset(t, j), Resets(t, t))
           /\ SumFunctionOnSet(AtReset(t, j), Resets(t, t)) \in Int
<1>1. t \in Nat /\ t + 1 \in Nat /\ t \in Grid /\ t <= t + 1 /\ t <= t
    BY GridIsTimes DEF Grid
<1> DEFINE f == AtReset(t, j)
           A == Resets(s, t + 1)
           B == Resets(t, t)
           S == Resets(Steps, t)
<1>2. /\ A \in SUBSET S /\ B \in SUBSET S /\ IsFiniteSet(S) /\ IsFiniteSet(B)
    BY <1>1, CouponsSelected
<1>3. A \cup B = Resets(s, t) /\ A \cap B = {}
    <2>1. \A n \in Int : n \in t..s <=> n \in (t + 1)..s \/ n \in t..t
        BY <1>1, GridIsTimes DEF Grid
    <2>2. \A n \in Int : ~(n \in (t + 1)..s /\ n \in t..t)
        BY <1>1
    <2>3. \A c \in Coupons : c.reset \in Int
        BY CouponTyped
    <2> QED BY <2>1, <2>2, <2>3 DEF Resets
<1>4. \A c \in S : f[c] \in Int
    BY <1>1, TermsTyped
<1> HIDE DEF f, A, B, S
<1>5. SumFunctionOnSet(f, A \cup B) = SumFunctionOnSet(f, A) + SumFunctionOnSet(f, B)
    BY <1>2, <1>3, <1>4, SumUnion
<1>6. SumFunctionOnSet(f, B) \in Int
    BY <1>2, <1>4, SumTyped
<1>7. /\ Worth(s, t, j, t, p) = SumFunctionOnSet(f, Resets(s, t)) + SumFunctionOnSet(AtPay(t, j), Pays(s, p))
      /\ Worth(s, t, j, t + 1, p) = SumFunctionOnSet(f, A) + SumFunctionOnSet(AtPay(t, j), Pays(s, p))
      /\ SumFunctionOnSet(f, A) \in Int /\ SumFunctionOnSet(AtPay(t, j), Pays(s, p)) \in Int
    BY <1>1, WorthIsSum DEF f, A
<1>8. SumFunctionOnSet(f, Resets(s, t)) = SumFunctionOnSet(f, A) + SumFunctionOnSet(f, B)
    BY <1>3, <1>5, Zenon
<1> QED BY <1>6, <1>7, <1>8 DEF f, B

\* The same of the payments of the very time.
LEMMA WorthWithPays ==
    ASSUME NEW s \in Grid, NEW t \in 0..s, NEW j \in Nodes(t), NEW r \in Nat, t <= r
    PROVE  /\ Worth(s, t, j, r, t) = Worth(s, t, j, r, t + 1)
                                   + SumFunctionOnSet(AtPay(t, j), Pays(t, t))
           /\ SumFunctionOnSet(AtPay(t, j), Pays(t, t)) \in Int
<1>1. t \in Nat /\ t + 1 \in Nat /\ t \in Grid /\ t <= t + 1 /\ t <= t
    BY GridIsTimes DEF Grid
<1> DEFINE f == AtPay(t, j)
           A == Pays(s, t + 1)
           B == Pays(t, t)
           S == Pays(Steps, t)
<1>2. /\ A \in SUBSET S /\ B \in SUBSET S /\ IsFiniteSet(S) /\ IsFiniteSet(B)
    BY <1>1, CouponsSelected
<1>3. A \cup B = Pays(s, t) /\ A \cap B = {}
    <2>1. \A n \in Int : n \in t..s <=> n \in (t + 1)..s \/ n \in t..t
        BY <1>1, GridIsTimes DEF Grid
    <2>2. \A n \in Int : ~(n \in (t + 1)..s /\ n \in t..t)
        BY <1>1
    <2>3. \A c \in Coupons : c.pay \in Int
        BY CouponTyped
    <2> QED BY <2>1, <2>2, <2>3 DEF Pays
<1>4. \A c \in S : f[c] \in Int
    BY <1>1, TermsTyped
<1> HIDE DEF f, A, B, S
<1>5. SumFunctionOnSet(f, A \cup B) = SumFunctionOnSet(f, A) + SumFunctionOnSet(f, B)
    BY <1>2, <1>3, <1>4, SumUnion
<1>6. SumFunctionOnSet(f, B) \in Int
    BY <1>2, <1>4, SumTyped
<1>7. /\ Worth(s, t, j, r, t) = SumFunctionOnSet(AtReset(t, j), Resets(s, r)) + SumFunctionOnSet(f, Pays(s, t))
      /\ Worth(s, t, j, r, t + 1) = SumFunctionOnSet(AtReset(t, j), Resets(s, r)) + SumFunctionOnSet(f, A)
      /\ SumFunctionOnSet(f, A) \in Int /\ SumFunctionOnSet(AtReset(t, j), Resets(s, r)) \in Int
    BY <1>1, WorthIsSum DEF f, A
<1>8. SumFunctionOnSet(f, Pays(s, t)) = SumFunctionOnSet(f, A) + SumFunctionOnSet(f, B)
    BY <1>3, <1>5, Zenon
<1> QED BY <1>6, <1>7, <1>8 DEF f, B

LEMMA Combined ==
    ASSUME NEW x \in Int, NEW y \in Int, NEW u \in Int, NEW v \in Int,
           NEW a \in Int, NEW b \in Int, NEW c \in Int, NEW d \in Int
    PROVE  x * (u * a + v * b) + y * (u * c + v * d) = u * (x * a + y * c) + v * (x * b + y * d)
<1>1. \A m, n, k \in Int : m * (n + k) = m * n + m * k /\ m * n \in Int
    OBVIOUS
<1>2. \A m, n, k \in Int : m * (n * k) = n * (m * k)
    OBVIOUS
<1>3. /\ x * (u * a + v * b) = x * (u * a) + x * (v * b)
      /\ y * (u * c + v * d) = y * (u * c) + y * (v * d)
      /\ u * (x * a + y * c) = u * (x * a) + u * (y * c)
      /\ v * (x * b + y * d) = v * (x * b) + v * (y * d)
    BY <1>1
<1>4. /\ x * (u * a) = u * (x * a) /\ x * (v * b) = v * (x * b)
      /\ y * (u * c) = u * (y * c) /\ y * (v * d) = v * (y * d)
    BY <1>2
<1>5. u * (x * a) \in Int /\ u * (y * c) \in Int /\ v * (x * b) \in Int /\ v * (y * d) \in Int
    BY <1>1
<1> QED BY <1>3, <1>4, <1>5

LEMMA Scaled ==
    ASSUME NEW x \in Int, NEW u \in Int, NEW v \in Int, NEW a \in Int, NEW b \in Int
    PROVE  x * (u * a + v * b) = u * (x * a) + v * (x * b)
<1>1. \A m, n, k \in Int : m * (n + k) = m * n + m * k /\ m * n \in Int
    OBVIOUS
<1>2. \A m, n, k \in Int : m * (n * k) = n * (m * k)
    OBVIOUS
<1> QED BY <1>1, <1>2

\* Earlier coupons apart, a swap is worth what it is worth one step later,
\* stepped back.
LEMMA WorthStep ==
    ASSUME NEW s \in Grid, NEW t \in Nat, t + 1 \in Grid, NEW j \in Nodes(t),
           NEW r \in Nat, NEW p \in Nat, t + 1 <= r, t + 1 <= p
    PROVE  Worth(s, t, j, r, p) = Weight(t, j, 0) * Worth(s, t + 1, j, r, p)
                                + Weight(t, j, 1) * Worth(s, t + 1, j + 1, r, p)
<1> DEFINE n == t + 1
           k == j + 1
           R == Resets(s, r)
           Q == Pays(s, p)
           u == Weight(t, j, 0)
           v == Weight(t, j, 1)
<1>1. /\ t \in Grid /\ n \in Grid /\ n \in Nat /\ j \in Nodes(n) /\ k \in Nodes(n) /\ t < Steps
      /\ t <= r /\ t <= p /\ n <= r /\ n <= p /\ t <= n /\ n <= n /\ t < n
    BY GridIsTimes DEF Grid, Nodes
<1>2. u \in Int /\ v \in Int
    BY <1>1, GridIsTimes, WeightsAreNumbers DEF Grid, Nodes
<1>3. /\ R \in SUBSET Resets(Steps, n) /\ Q \in SUBSET Pays(Steps, n)
      /\ R \in SUBSET Resets(Steps, t) /\ Q \in SUBSET Pays(Steps, t)
      /\ IsFiniteSet(R) /\ IsFiniteSet(Q)
    <2> HIDE DEF n
    <2> QED BY <1>1, CouponsSelected
<1>4. ASSUME NEW T \in Grid, n \in 0..T
      PROVE  PathWorth[T][t][j] = u * PathWorth[T][n][j] + v * PathWorth[T][n][k]
    <2>1. t \in 0..T /\ t < T
        BY <1>1, <1>4, GridIsTimes DEF Grid
    <2>2. PathWorth[T][t] = Stepback(t, PathWorth[T][t + 1]) /\ PathWorth[T][t + 1] \in Values(t + 1)
        BY <2>1, PathWorthStep DEF Values
    <2>3. Stepback(t, PathWorth[T][t + 1])[j] = Weight(t, j, 0) * PathWorth[T][t + 1][j]
                                              + Weight(t, j, 1) * PathWorth[T][t + 1][j + 1]
        BY <1>1, <2>2, StepbackTyped
    <2> QED BY <2>2, <2>3
<1> HIDE DEF n, k, u, v, R, Q
<1>5. ASSUME NEW c \in R
      PROVE  /\ AtReset(t, j)[c] = u * AtReset(n, j)[c] + v * AtReset(n, k)[c]
             /\ AtReset(n, j)[c] \in Int /\ AtReset(n, k)[c] \in Int
    <2>1. /\ c.reset \in Grid /\ c.pay \in Grid /\ c.atReset \in Int /\ c.atPay \in Int
          /\ n \in 0..c.reset /\ n \in 0..c.pay
        <3>1. c \in Coupons /\ c \in Resets(Steps, n)
            BY <1>3 DEF R, Resets
        <3> QED BY <1>1, <3>1, CouponTyped, TermsTyped
    <2>2. /\ PathWorth[c.reset][t][j] = u * PathWorth[c.reset][n][j] + v * PathWorth[c.reset][n][k]
          /\ PathWorth[c.pay][t][j] = u * PathWorth[c.pay][n][j] + v * PathWorth[c.pay][n][k]
        BY <1>4, <2>1
    <2>3. /\ AtReset(n, j)[c] = c.atReset * PathWorth[c.reset][n][j] + c.atPay * PathWorth[c.pay][n][j]
          /\ AtReset(n, k)[c] = c.atReset * PathWorth[c.reset][n][k] + c.atPay * PathWorth[c.pay][n][k]
          /\ AtReset(n, j)[c] \in Int /\ AtReset(n, k)[c] \in Int
          /\ PathWorth[c.reset][n][j] \in Int /\ PathWorth[c.pay][n][j] \in Int
          /\ PathWorth[c.reset][n][k] \in Int /\ PathWorth[c.pay][n][k] \in Int
        BY <1>1, <1>3, TermsTyped
    <2>4. AtReset(t, j)[c] = c.atReset * PathWorth[c.reset][t][j] + c.atPay * PathWorth[c.pay][t][j]
        BY <1>1, <1>3, TermsTyped
    <2>5. AtReset(t, j)[c]
          = c.atReset * (u * PathWorth[c.reset][n][j] + v * PathWorth[c.reset][n][k])
          + c.atPay * (u * PathWorth[c.pay][n][j] + v * PathWorth[c.pay][n][k])
        BY <2>2, <2>4, Zenon
    <2>6. AtReset(t, j)[c]
          = u * (c.atReset * PathWorth[c.reset][n][j] + c.atPay * PathWorth[c.pay][n][j])
          + v * (c.atReset * PathWorth[c.reset][n][k] + c.atPay * PathWorth[c.pay][n][k])
        BY <1>2, <2>1, <2>3, <2>5, Combined
    <2> QED BY <2>3, <2>6
<1>6. ASSUME NEW c \in Q
      PROVE  /\ AtPay(t, j)[c] = u * AtPay(n, j)[c] + v * AtPay(n, k)[c]
             /\ AtPay(n, j)[c] \in Int /\ AtPay(n, k)[c] \in Int
    <2>1. c.pay \in Grid /\ c.known \in Int /\ n \in 0..c.pay
        <3>1. c \in Coupons /\ c \in Pays(Steps, n)
            BY <1>3 DEF Q, Pays
        <3> QED BY <1>1, <3>1, CouponTyped, TermsTyped
    <2>2. PathWorth[c.pay][t][j] = u * PathWorth[c.pay][n][j] + v * PathWorth[c.pay][n][k]
        BY <1>4, <2>1
    <2>3. /\ AtPay(n, j)[c] = c.known * PathWorth[c.pay][n][j]
          /\ AtPay(n, k)[c] = c.known * PathWorth[c.pay][n][k]
          /\ AtPay(n, j)[c] \in Int /\ AtPay(n, k)[c] \in Int
          /\ PathWorth[c.pay][n][j] \in Int /\ PathWorth[c.pay][n][k] \in Int
        BY <1>1, <1>3, TermsTyped
    <2>4. AtPay(t, j)[c] = c.known * PathWorth[c.pay][t][j]
        BY <1>1, <1>3, TermsTyped
    <2>5. AtPay(t, j)[c] = c.known * (u * PathWorth[c.pay][n][j] + v * PathWorth[c.pay][n][k])
        BY <2>2, <2>4, Zenon
    <2>6. AtPay(t, j)[c] = u * (c.known * PathWorth[c.pay][n][j]) + v * (c.known * PathWorth[c.pay][n][k])
        BY <1>2, <2>1, <2>3, <2>5, Scaled
    <2> QED BY <2>3, <2>6
<1>7. SumFunctionOnSet(AtReset(t, j), R)
      = u * SumFunctionOnSet(AtReset(n, j), R) + v * SumFunctionOnSet(AtReset(n, k), R)
    BY <1>2, <1>3, <1>5, SumLinear
<1>8. SumFunctionOnSet(AtPay(t, j), Q)
      = u * SumFunctionOnSet(AtPay(n, j), Q) + v * SumFunctionOnSet(AtPay(n, k), Q)
    BY <1>2, <1>3, <1>6, SumLinear
<1>9. /\ Worth(s, t, j, r, p) = SumFunctionOnSet(AtReset(t, j), R) + SumFunctionOnSet(AtPay(t, j), Q)
      /\ Worth(s, n, j, r, p) = SumFunctionOnSet(AtReset(n, j), R) + SumFunctionOnSet(AtPay(n, j), Q)
      /\ Worth(s, n, k, r, p) = SumFunctionOnSet(AtReset(n, k), R) + SumFunctionOnSet(AtPay(n, k), Q)
      /\ SumFunctionOnSet(AtReset(n, j), R) \in Int /\ SumFunctionOnSet(AtPay(n, j), Q) \in Int
      /\ SumFunctionOnSet(AtReset(n, k), R) \in Int /\ SumFunctionOnSet(AtPay(n, k), Q) \in Int
    BY <1>1, WorthIsSum DEF R, Q
<1>10. Worth(s, t, j, r, p) = u * Worth(s, n, j, r, p) + v * Worth(s, n, k, r, p)
    BY <1>2, <1>7, <1>8, <1>9, Distributes
<1> QED BY <1>10 DEF n, k, u, v

(* ---- the operations of a swap ---- *)

AnyAsset == [time : Int, values : AllValues \cup {<<>>}, latestPre : Int, latestPost : Int,
             start : Int]

\* The values of a started swap are those of PaymentsOnce.
SwapSound(a) ==
    /\ a \in AnyAsset
    /\ a.start \in Grid /\ a.time \in 0..a.start
    /\ a.values \in Values(a.time)
    /\ \A j \in Nodes(a.time) :
          a.values[j] = Worth(a.start, a.time, j, FirstReset(a), FirstPay(a))

LEMMA SwapTimes ==
    ASSUME NEW a, SwapSound(a)
    PROVE  /\ a.time \in Grid /\ a.time \in Nat /\ a.time + 1 \in Nat /\ a.time + 1 > a.time
           /\ FirstReset(a) \in Nat /\ a.time <= FirstReset(a)
           /\ FirstPay(a) \in Nat /\ a.time <= FirstPay(a)
           /\ a.values \in AllValues
<1>1. a.time \in Grid /\ a.time \in Nat
    BY GridIsTimes DEF SwapSound, Grid
<1>2. a.values \in AllValues
    BY <1>1 DEF SwapSound, AllValues
<1>3. /\ FirstReset(a) \in Nat /\ a.time <= FirstReset(a)
      /\ FirstPay(a) \in Nat /\ a.time <= FirstPay(a)
    BY <1>1 DEF FirstReset, FirstPay
<1> QED BY <1>1, <1>2, <1>3

\* What preAdjustValuesImpl() adds to the value at a node.
LEMMA ResetsAdd ==
    ASSUME NEW t \in Grid, NEW j \in Nodes(t)
    PROVE  SumFunction([c \in {c \in Coupons : c.reset = t} |->
                            c.atReset + c.atPay * Bond(c.pay, t)[j]])
           = SumFunctionOnSet(AtReset(t, j), Resets(t, t))
<1> DEFINE R == {c \in Coupons : c.reset = t}
           f == [c \in R |-> c.atReset + c.atPay * Bond(c.pay, t)[j]]
<1>1. R = Resets(t, t) /\ t \in Nat /\ t <= t
    <2>1. t \in Nat
        BY GridIsTimes DEF Grid
    <2>2. \A n \in Int : n = t <=> n \in t..t
        BY <2>1
    <2>3. \A c \in Coupons : c.reset \in Int
        BY CouponTyped
    <2> QED BY <2>1, <2>2, <2>3 DEF Resets
<1>2. IsFiniteSet(R) /\ R \in SUBSET Resets(Steps, t)
    <2> HIDE DEF R
    <2> QED BY <1>1, CouponsSelected
<1>3. ASSUME NEW c \in R PROVE f[c] = AtReset(t, j)[c] /\ AtReset(t, j)[c] \in Int
    <2>1. c \in Coupons /\ c.reset = t /\ c \in Resets(Steps, t)
        BY <1>2
    <2>2. /\ AtReset(t, j)[c] = c.atReset * PathWorth[c.reset][t][j] + c.atPay * PathWorth[c.pay][t][j]
          /\ AtReset(t, j)[c] \in Int /\ t \in 0..c.pay
          /\ c.atPay * PathWorth[c.pay][t][j] \in Int
        BY <2>1, TermsTyped
    <2>3. c.pay \in Grid /\ c.atReset \in Int
        BY <2>1, CouponTyped
    <2>4. Bond(c.pay, t) = PathWorth[c.pay][t]
        BY <2>2, <2>3, BondIsPathWorth
    <2>5. PathWorth[c.reset][t][j] = 1
        BY <2>1, PathWorthAtEnd
    <2>6. f[c] = c.atReset + c.atPay * Bond(c.pay, t)[j]
        BY Zenon
    <2>7. AtReset(t, j)[c] = c.atReset * 1 + c.atPay * PathWorth[c.pay][t][j]
        BY <2>2, <2>5
    <2>8. c.atReset * 1 = c.atReset
        BY <2>3
    <2> HIDE DEF f
    <2> QED BY <2>2, <2>4, <2>6, <2>7, <2>8
<1>4. DOMAIN f = R
    OBVIOUS
<1>5. SumFunction(f) = SumFunctionOnSet(f, R)
    BY <1>4, Zenon DEF SumFunction
<1>6. SumFunctionOnSet(AtReset(t, j), R) = SumFunctionOnSet(f, R)
    <2> HIDE DEF R, f
    <2> QED BY <1>2, <1>3, SumSame
<1>7. SumFunction(f) = SumFunctionOnSet(AtReset(t, j), Resets(t, t))
    <2> HIDE DEF R, f
    <2> QED BY <1>1, <1>5, <1>6
<1> QED BY <1>7, Zenon

\* What postAdjustValuesImpl() adds to every value.
LEMMA PaysAdd ==
    ASSUME NEW t \in Grid, NEW j \in Nodes(t)
    PROVE  SumFunction([c \in {c \in Coupons : c.pay = t /\ c.reset < 0} |-> c.known])
           = SumFunctionOnSet(AtPay(t, j), Pays(t, t))
<1> DEFINE R == {c \in Coupons : c.pay = t /\ c.reset < 0}
           f == [c \in R |-> c.known]
<1>1. R = Pays(t, t) /\ t \in Nat /\ t <= t
    <2>1. t \in Nat
        BY GridIsTimes DEF Grid
    <2>2. \A n \in Int : n = t <=> n \in t..t
        BY <2>1
    <2>3. \A c \in Coupons : c.pay \in Int
        BY CouponTyped
    <2> QED BY <2>1, <2>2, <2>3 DEF Pays
<1>2. IsFiniteSet(R) /\ R \in SUBSET Pays(Steps, t)
    <2> HIDE DEF R
    <2> QED BY <1>1, CouponsSelected
<1>3. ASSUME NEW c \in R PROVE f[c] = AtPay(t, j)[c] /\ AtPay(t, j)[c] \in Int
    <2>1. c \in Coupons /\ c.pay = t /\ c \in Pays(Steps, t)
        BY <1>2
    <2>2. AtPay(t, j)[c] = c.known * PathWorth[c.pay][t][j] /\ AtPay(t, j)[c] \in Int
        BY <2>1, TermsTyped
    <2>3. c.known \in Int
        BY <2>1, CouponTyped
    <2>4. PathWorth[c.pay][t][j] = 1
        BY <2>1, PathWorthAtEnd
    <2>5. f[c] = c.known
        BY Zenon
    <2>6. AtPay(t, j)[c] = c.known * 1
        BY <2>2, <2>4
    <2>7. c.known * 1 = c.known
        BY <2>3
    <2> HIDE DEF f
    <2> QED BY <2>2, <2>5, <2>6, <2>7
<1>4. DOMAIN f = R
    OBVIOUS
<1>5. SumFunction(f) = SumFunctionOnSet(f, R)
    BY <1>4, Zenon DEF SumFunction
<1>6. SumFunctionOnSet(AtPay(t, j), R) = SumFunctionOnSet(f, R)
    <2> HIDE DEF R, f
    <2> QED BY <1>2, <1>3, SumSame
<1>7. SumFunction(f) = SumFunctionOnSet(AtPay(t, j), Pays(t, t))
    <2> HIDE DEF R, f
    <2> QED BY <1>1, <1>5, <1>6
<1> QED BY <1>7, Zenon

\* b is a with another adjustment made.
SameTimes(a, b) == b.time = a.time /\ b.start = a.start

\* preAdjustValues() adds the resets of the time, once.
LEMMA PreAdjustSound ==
    ASSUME NEW a, SwapSound(a)
    PROVE  /\ SwapSound(PreAdjustSwap(a)) /\ SameTimes(a, PreAdjustSwap(a))
           /\ PreAdjusted(PreAdjustSwap(a))
           /\ PreAdjustSwap(a).latestPost = a.latestPost
<1>1. CASE PreAdjusted(a)
    BY <1>1 DEF PreAdjustSwap, SameTimes
<1>2. CASE ~PreAdjusted(a)
    <2> DEFINE t == a.time
               add(j) == SumFunction([c \in {c \in Coupons : c.reset = t} |->
                                        c.atReset + c.atPay * Bond(c.pay, t)[j]])
               v == [j \in DOMAIN a.values |-> a.values[j] + add(j)]
               b == PreAdjustSwap(a)
    <2>1. b = [[a EXCEPT !.values = v] EXCEPT !.latestPre = t]
        BY <1>2, Zenon DEF PreAdjustSwap, SwapPreImpl
    <2>2. /\ a \in AnyAsset /\ DOMAIN a.values = Nodes(t)
          /\ a.start \in Grid /\ t \in 0..a.start /\ t \in Grid /\ t \in Nat
        BY SwapTimes DEF SwapSound, Values
    <2>3. ASSUME NEW j \in Nodes(t)
          PROVE  v[j] = Worth(a.start, t, j, t, FirstPay(a)) /\ v[j] \in Int
        <3>1. a.values[j] = Worth(a.start, t, j, t + 1, FirstPay(a)) /\ a.values[j] \in Int
            BY <1>2 DEF SwapSound, FirstReset, Values
        <3>2. add(j) = SumFunctionOnSet(AtReset(t, j), Resets(t, t))
            <4> HIDE DEF t
            <4> QED BY <2>2, ResetsAdd, Zenon
        <3>3. /\ Worth(a.start, t, j, t, FirstPay(a))
                 = Worth(a.start, t, j, t + 1, FirstPay(a))
                   + SumFunctionOnSet(AtReset(t, j), Resets(t, t))
              /\ SumFunctionOnSet(AtReset(t, j), Resets(t, t)) \in Int
            <4>1. FirstPay(a) \in Nat /\ t <= FirstPay(a)
                BY SwapTimes
            <4> HIDE DEF t
            <4> QED BY <2>2, <4>1, WorthWithResets
        <3>4. v[j] = a.values[j] + add(j)
            BY <2>2
        <3> HIDE DEF t, add, v
        <3> QED BY <3>1, <3>2, <3>3, <3>4
    <2>4. v \in Values(t)
        <3>1. v = [j \in Nodes(t) |-> v[j]]
            BY <2>2
        <3> HIDE DEF v, t
        <3> QED BY <2>3, <3>1, Zenon DEF Values
    <2>5. v \in AllValues
        <3> HIDE DEF v, t
        <3> QED BY <2>2, <2>4 DEF AllValues
    <2> HIDE DEF v, b
    <2>6. /\ b \in AnyAsset /\ b.time = t /\ b.start = a.start /\ b.values = v
          /\ b.latestPre = t /\ b.latestPost = a.latestPost
        BY <2>1, <2>2, <2>5 DEF AnyAsset
    <2>7. PreAdjusted(b) /\ FirstReset(b) = t /\ FirstPay(b) = FirstPay(a)
        BY <2>6 DEF PreAdjusted, PostAdjusted, FirstReset, FirstPay
    <2>8. SwapSound(b)
        BY <2>2, <2>3, <2>4, <2>6, <2>7 DEF SwapSound
    <2> QED BY <2>6, <2>7, <2>8 DEF SameTimes, b
<1> QED BY <1>1, <1>2

\* postAdjustValues() adds the payments of the time, once.
LEMMA PostAdjustSound ==
    ASSUME NEW a, SwapSound(a)
    PROVE  /\ SwapSound(PostAdjustSwap(a)) /\ SameTimes(a, PostAdjustSwap(a))
           /\ PostAdjusted(PostAdjustSwap(a))
           /\ PostAdjustSwap(a).latestPre = a.latestPre
<1>1. CASE PostAdjusted(a)
    BY <1>1 DEF PostAdjustSwap, SameTimes
<1>2. CASE ~PostAdjusted(a)
    <2> DEFINE t == a.time
               add == SumFunction([c \in {c \in Coupons : c.pay = t /\ c.reset < 0} |-> c.known])
               v == [j \in DOMAIN a.values |-> a.values[j] + add]
               b == PostAdjustSwap(a)
    <2>1. b = [[a EXCEPT !.values = v] EXCEPT !.latestPost = t]
        BY <1>2, Zenon DEF PostAdjustSwap, SwapPostImpl
    <2>2. /\ a \in AnyAsset /\ DOMAIN a.values = Nodes(t)
          /\ a.start \in Grid /\ t \in 0..a.start /\ t \in Grid /\ t \in Nat
        BY SwapTimes DEF SwapSound, Values
    <2>3. ASSUME NEW j \in Nodes(t)
          PROVE  v[j] = Worth(a.start, t, j, FirstReset(a), t) /\ v[j] \in Int
        <3>1. a.values[j] = Worth(a.start, t, j, FirstReset(a), t + 1) /\ a.values[j] \in Int
            BY <1>2 DEF SwapSound, FirstPay, Values
        <3>2. add = SumFunctionOnSet(AtPay(t, j), Pays(t, t))
            <4> HIDE DEF t
            <4> QED BY <2>2, PaysAdd, Zenon
        <3>3. /\ Worth(a.start, t, j, FirstReset(a), t)
                 = Worth(a.start, t, j, FirstReset(a), t + 1)
                   + SumFunctionOnSet(AtPay(t, j), Pays(t, t))
              /\ SumFunctionOnSet(AtPay(t, j), Pays(t, t)) \in Int
            <4>1. FirstReset(a) \in Nat /\ t <= FirstReset(a)
                BY SwapTimes
            <4> HIDE DEF t
            <4> QED BY <2>2, <4>1, WorthWithPays
        <3>4. v[j] = a.values[j] + add
            BY <2>2
        <3> HIDE DEF t, add, v
        <3> QED BY <3>1, <3>2, <3>3, <3>4
    <2>4. v \in Values(t)
        <3>1. v = [j \in Nodes(t) |-> v[j]]
            BY <2>2
        <3> HIDE DEF v, t
        <3> QED BY <2>3, <3>1, Zenon DEF Values
    <2>5. v \in AllValues
        <3> HIDE DEF v, t
        <3> QED BY <2>2, <2>4 DEF AllValues
    <2> HIDE DEF v, b
    <2>6. /\ b \in AnyAsset /\ b.time = t /\ b.start = a.start /\ b.values = v
          /\ b.latestPost = t /\ b.latestPre = a.latestPre
        BY <2>1, <2>2, <2>5 DEF AnyAsset
    <2>7. PostAdjusted(b) /\ FirstPay(b) = t /\ FirstReset(b) = FirstReset(a)
        BY <2>6 DEF PreAdjusted, PostAdjusted, FirstReset, FirstPay
    <2>8. SwapSound(b)
        BY <2>2, <2>3, <2>4, <2>6, <2>7 DEF SwapSound
    <2> QED BY <2>6, <2>7, <2>8 DEF SameTimes, b
<1> QED BY <1>1, <1>2

\* adjustValues() does both.
LEMMA AdjustSound ==
    ASSUME NEW a, SwapSound(a)
    PROVE  /\ SwapSound(AdjustSwap(a)) /\ SameTimes(a, AdjustSwap(a)) /\ Settled(AdjustSwap(a))
<1> DEFINE b == PreAdjustSwap(a)
           c == PostAdjustSwap(b)
<1>1. SwapSound(b) /\ SameTimes(a, b) /\ PreAdjusted(b)
    BY PreAdjustSound
<1> HIDE DEF b
<1>2. SwapSound(c) /\ SameTimes(b, c) /\ PostAdjusted(c) /\ c.latestPre = b.latestPre
    BY <1>1, PostAdjustSound
<1>3. AdjustSwap(a) = c
    BY Zenon DEF AdjustSwap, b
<1> HIDE DEF c
<1> QED BY <1>1, <1>2, <1>3 DEF SameTimes, Settled, PreAdjusted

\* A step back from a time that was adjusted.
LEMMA StepSound ==
    ASSUME NEW a, SwapSound(a), Settled(a), a.time > 0
    PROVE  /\ SwapSound(SteppedBack(a)) /\ SteppedBack(a).time = a.time - 1
           /\ SteppedBack(a).start = a.start
           /\ ~PreAdjusted(SteppedBack(a)) /\ ~PostAdjusted(SteppedBack(a))
<1> DEFINE t == a.time
           i == t - 1
           v == Stepback(i, a.values)
           b == SteppedBack(a)
<1>1. /\ a \in AnyAsset /\ a.start \in Grid /\ t \in 0..a.start /\ t \in Grid /\ t \in Nat
      /\ a.values \in Values(t) /\ i \in Nat /\ i < Steps /\ i + 1 = t /\ i \in Grid
      /\ i \in 0..a.start /\ a.latestPre = t /\ a.latestPost = t
    BY SwapTimes, GridIsTimes DEF SwapSound, Grid, Settled, PreAdjusted, PostAdjusted
<1>2. b = [a EXCEPT !.time = i, !.values = v]
    BY Zenon DEF SteppedBack
<1>3. /\ v \in Values(i)
      /\ \A j \in Nodes(i) : /\ j \in Nodes(t) /\ j + 1 \in Nodes(t)
                             /\ v[j] = Weight(i, j, 0) * a.values[j] + Weight(i, j, 1) * a.values[j + 1]
    <2> HIDE DEF i, t
    <2> QED BY <1>1, StepbackTyped
<1>4. v \in AllValues
    <2> HIDE DEF i, t, v
    <2> QED BY <1>1, <1>3 DEF AllValues
<1> HIDE DEF v, b, i
<1>5. /\ b \in AnyAsset /\ b.time = i /\ b.start = a.start /\ b.values = v
      /\ b.latestPre = t /\ b.latestPost = t
    <2>1. i \in Int /\ a.latestPre = t /\ a.latestPost = t /\ a \in AnyAsset
        BY <1>1
    <2>2. /\ b \in AnyAsset /\ b.time = i /\ b.start = a.start /\ b.values = v
          /\ b.latestPre = a.latestPre /\ b.latestPost = a.latestPost
        <3> HIDE DEF t
        <3> QED BY <1>2, <1>4, <2>1 DEF AnyAsset
    <2> QED BY <2>1, <2>2
<1>6. ~PreAdjusted(b) /\ ~PostAdjusted(b) /\ FirstReset(b) = t /\ FirstPay(b) = t
      /\ FirstReset(a) = t /\ FirstPay(a) = t
    BY <1>1, <1>5 DEF PreAdjusted, PostAdjusted, FirstReset, FirstPay
<1>7. ASSUME NEW j \in Nodes(i) PROVE v[j] = Worth(a.start, i, j, t, t)
    <2>1. /\ a.values[j] = Worth(a.start, t, j, t, t)
          /\ a.values[j + 1] = Worth(a.start, t, j + 1, t, t)
        BY <1>3, <1>6 DEF SwapSound
    <2>2. Worth(a.start, i, j, t, t) = Weight(i, j, 0) * Worth(a.start, i + 1, j, t, t)
                                     + Weight(i, j, 1) * Worth(a.start, i + 1, j + 1, t, t)
        <3>1. i + 1 \in Grid /\ i + 1 <= t
            BY <1>1
        <3> HIDE DEF t
        <3> QED BY <1>1, <3>1, WorthStep
    <2> HIDE DEF t
    <2> QED BY <1>1, <1>3, <2>1, <2>2
<1>8. SwapSound(b)
    BY <1>1, <1>3, <1>5, <1>6, <1>7 DEF SwapSound
<1> QED BY <1>5, <1>6, <1>8 DEF b, i

RollStep(i, to, x) ==
    LET stepped == SteppedBack(x)
    IN  IF AdjustedOnTheWay(i, to) THEN AdjustSwap(stepped) ELSE stepped

SwapRolled(a, to, r) ==
    r = [i \in to..a.time |-> IF i = a.time THEN a ELSE RollStep(i, to, r[i + 1])]

\* What holds of a swap on its way back to "to" when it has come to i.
SwapOnTheWay(a, to, i, x) ==
    /\ SwapSound(x) /\ x.time = i /\ x.start = a.start
    /\ i # to => Settled(x)
    /\ i = to /\ i # a.time => ~PreAdjusted(x) /\ ~PostAdjusted(x)
    /\ i = a.time => x = a

\* One step of a rollback.
LEMMA RollStepSound ==
    ASSUME NEW a, NEW to \in Nat, NEW i \in Nat, to <= i, i < a.time, NEW x,
           SwapOnTheWay(a, to, i + 1, x)
    PROVE  SwapOnTheWay(a, to, i, RollStep(i, to, x))
<1> DEFINE y == SteppedBack(x)
           z == AdjustSwap(y)
<1>0. a.time = i + 1 => x = a
    BY DEF SwapOnTheWay
<1>1. SwapSound(x) /\ x.time = i + 1 /\ x.start = a.start /\ Settled(x) /\ x.time > 0
    BY DEF SwapOnTheWay
<1>2. SwapSound(y) /\ y.time = x.time - 1 /\ y.start = x.start /\ ~PreAdjusted(y) /\ ~PostAdjusted(y)
    BY <1>1, StepSound
<1> HIDE DEF y
<1>3. y.time = i /\ y.start = a.start
    BY <1>1, <1>2
<1>4. SwapSound(z) /\ SameTimes(y, z) /\ Settled(z)
    BY <1>2, AdjustSound
<1> HIDE DEF z
<1>5. i # a.time
    OBVIOUS
<1>6. CASE i = to
    <2>1. RollStep(i, to, x) = y
        BY <1>6, Zenon DEF RollStep, AdjustedOnTheWay, y
    <2> QED BY <1>2, <1>3, <1>5, <1>6, <2>1 DEF SwapOnTheWay
<1>7. CASE i # to
    <2>1. RollStep(i, to, x) = z
        BY <1>7, Zenon DEF RollStep, AdjustedOnTheWay, y, z
    <2> QED BY <1>3, <1>4, <1>5, <1>7, <2>1 DEF SwapOnTheWay, SameTimes
<1> QED BY <1>6, <1>7

\* A partial rollback leaves a sound swap, not adjusted at its new time.
LEMMA RollbackSound ==
    ASSUME NEW a, SwapSound(a), NEW to \in 0..a.time, to < a.time => Settled(a)
    PROVE  SwapOnTheWay(a, to, to, PartialRollbackSwap(a, to))
<1> DEFINE n == a.time
           X == [i \in to..n |-> {x \in AnyAsset : SwapOnTheWay(a, to, i, x)}]
           F == [i \in to..(n - 1) |-> [x \in X[i + 1] |-> RollStep(i, to, x)]]
<1>1. n \in Nat /\ n \in Int /\ to \in Nat /\ to \in Int /\ to <= n
    BY SwapTimes
<1>2. a \in X[n]
    <2>1. n \in to..n /\ a \in AnyAsset
        BY <1>1 DEF SwapSound
    <2>2. SwapOnTheWay(a, to, n, a)
        BY <1>1 DEF SwapOnTheWay
    <2> QED BY <2>1, <2>2
<1> HIDE DEF n
<1>3. ASSUME NEW i \in to..(n - 1), NEW x \in X[i + 1]
      PROVE  F[i][x] = RollStep(i, to, x) /\ RollStep(i, to, x) \in X[i]
    <2>1. i \in Nat /\ to <= i /\ i < n /\ i \in to..n /\ i + 1 \in to..n
        BY <1>1
    <2>2. SwapOnTheWay(a, to, i + 1, x)
        BY <1>3, <2>1
    <2>3. SwapOnTheWay(a, to, i, RollStep(i, to, x))
        BY <2>1, <2>2, RollStepSound DEF n
    <2>4. RollStep(i, to, x) \in AnyAsset
        BY <2>3 DEF SwapOnTheWay, SwapSound
    <2> QED BY <2>1, <2>3, <2>4
<1> HIDE DEF X, F
<1>4. PICK r : Descends(to, n, X, F, a, r)
    <2>1. \A i \in to..(n - 1) : \A x \in X[i + 1] : F[i][x] \in X[i]
        BY <1>3
    <2> QED BY <1>1, <1>2, <2>1, Descent
<1>5. SwapRolled(a, to, r)
    <2>1. ASSUME NEW i \in to..n
          PROVE  r[i] = IF i = n THEN a ELSE RollStep(i, to, r[i + 1])
        <3>1. i # n => i + 1 \in to..n /\ i \in to..(n - 1)
            BY <1>1
        <3>2. /\ r[i] = IF i = n THEN a ELSE F[i][r[i + 1]]
              /\ i # n => r[i + 1] \in X[i + 1]
            BY <1>4, <3>1 DEF Descends
        <3>3. i # n => F[i][r[i + 1]] = RollStep(i, to, r[i + 1])
            BY <1>3, <3>1, <3>2
        <3> QED BY <3>2, <3>3
    <2>2. r = [i \in to..n |-> r[i]]
        BY <1>4, Zenon DEF Descends
    <2>3. [i \in to..n |-> r[i]] = [i \in to..n |-> IF i = n THEN a ELSE RollStep(i, to, r[i + 1])]
        BY <2>1
    <2> QED BY <2>2, <2>3, Zenon DEF SwapRolled, n
<1> DEFINE q == CHOOSE q : SwapRolled(a, to, q)
<1>6. SwapRolled(a, to, q)
    BY <1>5, Zenon
<1>7. PartialRollbackSwap(a, to) = q[to]
    BY Zenon DEF PartialRollbackSwap, SwapRolled, RollStep
<1> HIDE DEF q
<1>8. \A i \in to..n : q[i] = IF i = n THEN a ELSE RollStep(i, to, q[i + 1])
    BY <1>6, Zenon DEF SwapRolled, n
<1>9. \A i \in to..n : q[i] \in X[i]
    <2>1. q[n] \in X[n]
        BY <1>1, <1>2, <1>8
    <2>2. ASSUME NEW i \in to..(n - 1), q[i + 1] \in X[i + 1] PROVE q[i] \in X[i]
        <3>1. i \in to..n /\ i # n
            BY <1>1
        <3>2. RollStep(i, to, q[i + 1]) \in X[i]
            BY <1>3, <2>2
        <3> QED BY <1>8, <3>1, <3>2
    <2> QED BY <1>1, <2>1, <2>2, Downwards
<1>10. SwapOnTheWay(a, to, to, q[to])
    <2>1. to \in to..n
        BY <1>1
    <2> QED BY <1>9, <2>1 DEF X
<1> QED BY <1>7, <1>10

\* An asset initialised at a time it was not adjusted at is sound and settled.
LEMMA InitializeSound ==
    ASSUME NEW a \in AnyAsset, NEW t \in Grid, Startable(a, t)
    PROVE  /\ SwapSound(InitializeSwap(a, t)) /\ Settled(InitializeSwap(a, t))
           /\ InitializeSwap(a, t).time = t /\ InitializeSwap(a, t).start = t
<1> DEFINE b == Zeros(a, t)
           v == [j \in Nodes(t) |-> 0]
<1>1. t \in Nat /\ t \in Int /\ t \in 0..t
    BY GridIsTimes DEF Grid
<1>2. v \in Values(t)
    BY DEF Values
<1>3. v \in AllValues
    BY <1>2 DEF AllValues
<1>4. b = [a EXCEPT !.time = t, !.start = t, !.values = v]
    BY Zenon DEF Zeros
<1> HIDE DEF b
<1>5. /\ b \in AnyAsset /\ b.time = t /\ b.start = t /\ b.values = v
      /\ b.latestPre = a.latestPre /\ b.latestPost = a.latestPost
    <2> HIDE DEF v
    <2> QED BY <1>1, <1>3, <1>4 DEF AnyAsset
<1>6. ~PreAdjusted(b) /\ ~PostAdjusted(b) /\ FirstReset(b) = t + 1 /\ FirstPay(b) = t + 1
    BY <1>5 DEF Startable, PreAdjusted, PostAdjusted, FirstReset, FirstPay
<1>7. ASSUME NEW j \in Nodes(t) PROVE v[j] = Worth(t, t, j, t + 1, t + 1)
    BY WorthAtStart
<1>8. SwapSound(b)
    <2> HIDE DEF v
    <2> QED BY <1>1, <1>2, <1>5, <1>6, <1>7 DEF SwapSound
<1>9. SwapSound(AdjustSwap(b)) /\ SameTimes(b, AdjustSwap(b)) /\ Settled(AdjustSwap(b))
    BY <1>8, AdjustSound
<1>10. InitializeSwap(a, t) = AdjustSwap(b)
    BY Zenon DEF InitializeSwap, b
<1> QED BY <1>5, <1>9, <1>10 DEF SameTimes

(* ---- the worth of an option ---- *)

Nothing(i) == [j \in Nodes(i) |-> 0]

\* What an option is worth at i when it can be kept for "kept".
AtExercise(exercise, first, i, kept) ==
    IF Exercised(exercise, i) /\ i >= first
    THEN [j \in Nodes(i) |-> Max({kept[j], Worth(LastPayment, i, j, i, i + 1)})]
    ELSE kept

Held(exercise, s, t, first, h) ==
    h = [i \in t..s |-> AtExercise(exercise, first, i,
                            IF i = s THEN Nothing(i) ELSE Stepback(i, h[i + 1]))]

TheHeld(exercise, s, t, first) == CHOOSE h : Held(exercise, s, t, first, h)

LEMMA MaxOfTwo ==
    ASSUME NEW x \in Int, NEW y \in Int
    PROVE  Max({x, y}) \in Int
<1>1. \E m \in {x, y} : \A n \in {x, y} : m >= n
    OBVIOUS
<1>2. Max({x, y}) \in {x, y}
    BY <1>1 DEF Max
<1> QED BY <1>2

LEMMA NothingTyped == ASSUME NEW i PROVE Nothing(i) \in Values(i)
BY DEF Nothing, Values

LEMMA AtExerciseTyped ==
    ASSUME NEW exercise, NEW first, NEW i \in 0..LastPayment, NEW kept \in Values(i)
    PROVE  AtExercise(exercise, first, i, kept) \in Values(i)
<1> DEFINE v == [j \in Nodes(i) |-> Max({kept[j], Worth(LastPayment, i, j, i, i + 1)})]
<1>1. i \in Grid /\ i \in Nat /\ i + 1 \in Nat /\ i <= i + 1 /\ i <= i /\ LastPayment \in Grid
    BY GridIsTimes DEF Grid
<1> DEFINE next == i + 1
<1>2. \A j \in Nodes(i) : Worth(LastPayment, i, j, i, next) \in Int
    <2> HIDE DEF next
    <2>1. next \in Nat /\ i <= next
        BY <1>1 DEF next
    <2> QED BY <1>1, <2>1, WorthIsSum
<1>3. \A j \in Nodes(i) : kept[j] \in Int
    BY DEF Values
<1>4. \A j \in Nodes(i) : v[j] \in Int
    BY <1>2, <1>3, MaxOfTwo
<1>5. v \in Values(i)
    <2>1. v = [j \in Nodes(i) |-> v[j]]
        OBVIOUS
    <2> HIDE DEF v
    <2> QED BY <1>4, <2>1, Zenon DEF Values
<1>6. AtExercise(exercise, first, i, kept) \in {v, kept}
    BY Zenon DEF AtExercise
<1> HIDE DEF v
<1> QED BY <1>5, <1>6

\* The values of the dynamic programming exist at every time up to the start.
LEMMA HeldExists ==
    ASSUME NEW exercise, NEW s \in 0..LastPayment, NEW t \in 0..s, NEW first
    PROVE  LET h == TheHeld(exercise, s, t, first)
           IN  /\ \A i \in t..s : h[i] \in Values(i)
               /\ h[s] = AtExercise(exercise, first, s, Nothing(s))
               /\ \A i \in t..(s - 1) :
                     h[i] = AtExercise(exercise, first, i, Stepback(i, h[i + 1]))
               /\ OptionWorth(exercise, s, t, first) = h[t]
<1>1. t \in Int /\ s \in Int /\ t \in Nat /\ s \in Nat /\ t <= s /\ s <= Steps /\ s <= LastPayment
      /\ s \in 0..LastPayment
    BY GridIsTimes
<1>2. \A i \in t..(s - 1) : /\ i \in Nat /\ i < Steps /\ i \in t..s /\ i + 1 \in t..s
                            /\ i \in 0..LastPayment
    BY <1>1, GridIsTimes
<1> DEFINE base == AtExercise(exercise, first, s, Nothing(s))
           G(i, x) == AtExercise(exercise, first, i, Stepback(i, x))
           X == [i \in t..s |-> Values(i)]
           F == [i \in t..(s - 1) |-> [x \in Values(i + 1) |-> G(i, x)]]
<1>3. base \in X[s]
    <2>1. base \in Values(s)
        BY <1>1, NothingTyped, AtExerciseTyped
    <2>2. s \in t..s
        BY <1>1
    <2> HIDE DEF base
    <2> QED BY <2>1, <2>2
<1>4. ASSUME NEW i \in t..(s - 1), NEW x \in X[i + 1] PROVE F[i][x] \in X[i] /\ F[i][x] = G(i, x)
    <2>1. x \in Values(i + 1)
        BY <1>2, <1>4
    <2>2. F[i][x] = G(i, x)
        <3> HIDE DEF G
        <3> QED BY <2>1
    <2>3. Stepback(i, x) \in Values(i)
        BY <1>2, <2>1, StepbackTyped
    <2>4. G(i, x) \in Values(i)
        BY <1>2, <2>3, AtExerciseTyped
    <2> HIDE DEF G, F
    <2> QED BY <1>2, <2>2, <2>4
<1>5. PICK r : Descends(t, s, X, F, base, r)
    <2>1. \A i \in t..(s - 1) : \A x \in X[i + 1] : F[i][x] \in X[i]
        <3> HIDE DEF X, F
        <3> QED BY <1>4
    <2> HIDE DEF X, F, base
    <2> QED BY <1>1, <1>3, <2>1, Descent
<1>6. Held(exercise, s, t, first, r)
    <2>1. ASSUME NEW i \in t..s
          PROVE  r[i] = AtExercise(exercise, first, i,
                            IF i = s THEN Nothing(i) ELSE Stepback(i, r[i + 1]))
        <3>1. i # s => i + 1 \in t..s /\ i \in t..(s - 1)
            BY <1>1
        <3> HIDE DEF X, F, base, G
        <3>2. /\ r[i] = IF i = s THEN base ELSE F[i][r[i + 1]]
              /\ i # s => r[i + 1] \in X[i + 1]
            BY <1>5, <3>1 DEF Descends
        <3>3. i # s => r[i] = G(i, r[i + 1])
            BY <1>4, <3>1, <3>2
        <3>4. CASE i = s
            <4>1. r[i] = base
                BY <3>2, <3>4
            <4> QED BY <3>4, <4>1 DEF base
        <3>5. CASE i # s
            <4>1. r[i] = G(i, r[i + 1])
                BY <3>3, <3>5
            <4> QED BY <3>5, <4>1 DEF G
        <3> QED BY <3>4, <3>5
    <2>2. r = [i \in t..s |-> r[i]]
        BY <1>5, Zenon DEF Descends
    <2>3. [i \in t..s |-> r[i]]
          = [i \in t..s |-> AtExercise(exercise, first, i,
                                IF i = s THEN Nothing(i) ELSE Stepback(i, r[i + 1]))]
        BY <2>1
    <2> QED BY <2>2, <2>3, Zenon DEF Held
<1> DEFINE h == TheHeld(exercise, s, t, first)
<1>7. Held(exercise, s, t, first, h)
    BY <1>6, Zenon DEF TheHeld
<1>8. OptionWorth(exercise, s, t, first) = h[t]
    BY Zenon DEF OptionWorth, TheHeld, Held, AtExercise, Nothing
<1> HIDE DEF h, F
<1>9. \A i \in t..s : h[i] = AtExercise(exercise, first, i,
                                IF i = s THEN Nothing(i) ELSE Stepback(i, h[i + 1]))
    BY <1>7, Zenon DEF Held
<1>10. h[s] = base
    <2>1. s \in t..s
        BY <1>1
    <2> QED BY <1>9, <2>1
<1>11. \A i \in t..(s - 1) : h[i] = G(i, h[i + 1])
    <2>1. \A i \in t..(s - 1) : i \in t..s /\ i # s
        BY <1>1
    <2> QED BY <1>9, <2>1
<1>12. \A i \in t..s : h[i] \in X[i]
    <2>1. h[s] \in X[s]
        BY <1>3, <1>10
    <2>2. ASSUME NEW i \in t..(s - 1), h[i + 1] \in X[i + 1] PROVE h[i] \in X[i]
        <3> HIDE DEF G, X
        <3>1. F[i][h[i + 1]] \in X[i] /\ F[i][h[i + 1]] = G(i, h[i + 1])
            BY <1>4, <2>2
        <3> QED BY <1>11, <3>1
    <2> HIDE DEF X
    <2> QED BY <1>1, <2>1, <2>2, Downwards
<1>13. \A i \in t..s : h[i] \in Values(i)
    BY <1>12
<1> QED BY <1>8, <1>10, <1>11, <1>13 DEF h

\* Later exercises are seen alike from any earlier time.
LEMMA HeldAlike ==
    ASSUME NEW exercise, NEW s \in 0..LastPayment, NEW t \in 0..s, NEW u \in 0..s,
           NEW first \in Int, NEW f \in Int, NEW m \in 0..s,
           t <= m, u <= m, first <= m, f <= m
    PROVE  TheHeld(exercise, s, t, first)[m] = TheHeld(exercise, s, u, f)[m]
<1> DEFINE g == TheHeld(exercise, s, t, first)
           h == TheHeld(exercise, s, u, f)
           X == [i \in m..s |-> {h[i]}]
<1>1. m \in Int /\ s \in Int /\ m <= s /\ t \in Int /\ u \in Int
    OBVIOUS
<1>2. /\ g[s] = AtExercise(exercise, first, s, Nothing(s))
      /\ \A i \in t..(s - 1) : g[i] = AtExercise(exercise, first, i, Stepback(i, g[i + 1]))
    BY HeldExists
<1>3. /\ h[s] = AtExercise(exercise, f, s, Nothing(s))
      /\ \A i \in u..(s - 1) : h[i] = AtExercise(exercise, f, i, Stepback(i, h[i + 1]))
    BY HeldExists
<1> HIDE DEF g, h
<1>4. ASSUME NEW i \in m..s, NEW x
      PROVE  AtExercise(exercise, first, i, x) = AtExercise(exercise, f, i, x)
    <2>1. i >= first /\ i >= f
        BY <1>1
    <2> QED BY <2>1 DEF AtExercise
<1>5. g[s] \in X[s]
    <2>1. s \in m..s
        BY <1>1
    <2> QED BY <1>2, <1>3, <1>4, <2>1
<1>6. ASSUME NEW i \in m..(s - 1), g[i + 1] \in X[i + 1] PROVE g[i] \in X[i]
    <2>1. i \in m..s /\ i + 1 \in m..s /\ i \in t..(s - 1) /\ i \in u..(s - 1)
        BY <1>1
    <2>2. g[i + 1] = h[i + 1]
        BY <1>6, <2>1
    <2>3. g[i] = h[i]
        BY <1>2, <1>3, <1>4, <2>1, <2>2
    <2> QED BY <2>1, <2>3
<1>7. \A i \in m..s : g[i] \in X[i]
    <2> HIDE DEF X
    <2> QED BY <1>1, <1>5, <1>6, Downwards
<1>8. g[m] = h[m]
    BY <1>1, <1>7
<1> QED BY <1>8 DEF g, h

LEMMA OptionWorthTyped ==
    ASSUME NEW exercise, NEW s \in 0..LastPayment, NEW t \in 0..s, NEW first
    PROVE  OptionWorth(exercise, s, t, first) \in Values(t)
<1> DEFINE h == TheHeld(exercise, s, t, first)
<1>1. /\ \A i \in t..s : h[i] \in Values(i)
      /\ OptionWorth(exercise, s, t, first) = h[t]
    BY HeldExists
<1>2. t \in t..s
    OBVIOUS
<1> HIDE DEF h
<1> QED BY <1>1, <1>2

\* An option is worth what it holds in the end.
LEMMA HeldWorth ==
    ASSUME NEW exercise, NEW s \in 0..LastPayment, NEW t \in 0..s, NEW first
    PROVE  OptionWorth(exercise, s, t, first) = TheHeld(exercise, s, t, first)[t]
BY HeldExists

\* No exercise, no worth.
LEMMA OptionWorthAtStart ==
    ASSUME NEW exercise, NEW s \in 0..LastPayment
    PROVE  OptionWorth(exercise, s, s, s + 1) = Nothing(s)
<1> DEFINE h == TheHeld(exercise, s, s, s + 1)
<1>1. s \in 0..s /\ ~(s >= s + 1)
    OBVIOUS
<1>2. h[s] = AtExercise(exercise, s + 1, s, Nothing(s)) /\ OptionWorth(exercise, s, s, s + 1) = h[s]
    BY <1>1, HeldExists
<1>3. AtExercise(exercise, s + 1, s, Nothing(s)) = Nothing(s)
    BY <1>1 DEF AtExercise
<1> QED BY <1>2, <1>3

\* Before its exercise an option is worth what it is worth a step later.
LEMMA OptionWorthStep ==
    ASSUME NEW exercise, NEW s \in 0..LastPayment, NEW t \in 0..(s - 1)
    PROVE  OptionWorth(exercise, s, t, t + 1)
           = Stepback(t, OptionWorth(exercise, s, t + 1, t + 1))
<1> DEFINE n == t + 1
           g == TheHeld(exercise, s, t, n)
           h == TheHeld(exercise, s, n, n)
<1>1. t \in 0..s /\ n \in 0..s /\ t <= n /\ n \in Int /\ ~(t >= n) /\ t \in t..(s - 1) /\ n <= n
    OBVIOUS
<1>2. /\ g[t] = AtExercise(exercise, n, t, Stepback(t, g[t + 1]))
      /\ OptionWorth(exercise, s, t, n) = g[t]
    <2> HIDE DEF n
    <2> QED BY <1>1, HeldExists
<1>3. OptionWorth(exercise, s, n, n) = h[n]
    BY <1>1, HeldWorth
<1>4. g[n] = h[n]
    <2> HIDE DEF n
    <2> QED BY <1>1, HeldAlike
<1>5. AtExercise(exercise, n, t, Stepback(t, g[t + 1])) = Stepback(t, g[t + 1])
    BY <1>1 DEF AtExercise
<1>6. g[t + 1] = OptionWorth(exercise, s, n, n)
    BY <1>3, <1>4
<1> HIDE DEF g, h
<1> QED BY <1>2, <1>5, <1>6

\* What the exercise of a time changes.
LEMMA OptionWorthExercised ==
    ASSUME NEW exercise, NEW s \in 0..LastPayment, NEW t \in 0..s
    PROVE  OptionWorth(exercise, s, t, t)
           = AtExercise(exercise, t, t, OptionWorth(exercise, s, t, t + 1))
<1> DEFINE n == t + 1
           g == TheHeld(exercise, s, t, t)
           h == TheHeld(exercise, s, t, n)
<1>1. t \in 0..s /\ n \in Int /\ ~(t >= n) /\ t \in Int /\ t <= n /\ n <= n
    OBVIOUS
<1>2. /\ OptionWorth(exercise, s, t, t) = g[t]
      /\ g[s] = AtExercise(exercise, t, s, Nothing(s))
      /\ \A i \in t..(s - 1) : g[i] = AtExercise(exercise, t, i, Stepback(i, g[i + 1]))
    BY <1>1, HeldExists
<1>3. /\ OptionWorth(exercise, s, t, n) = h[t]
      /\ h[s] = AtExercise(exercise, n, s, Nothing(s))
      /\ \A i \in t..(s - 1) : h[i] = AtExercise(exercise, n, i, Stepback(i, h[i + 1]))
    <2> HIDE DEF n
    <2> QED BY <1>1, HeldExists
<1>4. \A x : AtExercise(exercise, n, t, x) = x
    BY <1>1 DEF AtExercise
<1>5. CASE t = s
    <2> HIDE DEF g, h
    <2> QED BY <1>2, <1>3, <1>4, <1>5
<1>6. CASE t # s
    <2>1. t \in t..(s - 1) /\ n \in 0..s
        BY <1>6
    <2>2. g[n] = h[n]
        <3> HIDE DEF n
        <3> QED BY <1>1, <2>1, HeldAlike
    <2>3. h[t] = Stepback(t, h[t + 1])
        BY <1>3, <1>4, <2>1
    <2>4. g[t] = AtExercise(exercise, t, t, Stepback(t, g[t + 1]))
        BY <1>2, <2>1
    <2>5. g[t + 1] = h[t + 1]
        BY <2>2
    <2> HIDE DEF g, h
    <2> QED BY <1>2, <1>3, <2>3, <2>4, <2>5
<1> QED BY <1>5, <1>6

(* ---- the operations of an option ---- *)

AnyOption == [time : Int, values : AllValues \cup {<<>>}, latestPre : Int, latestPost : Int,
              start : Int, exercise : Exercises, underlying : AnyAsset]

\* The values of a started swaption are those of OptionExact, and its
\* underlying waits, settled, at a time it has not passed.
OptionSound(o) ==
    /\ o \in AnyOption
    /\ o.start \in 0..(LastPayment - 1) /\ o.time \in 0..o.start
    /\ o.values = OptionWorth(o.exercise, o.start, o.time, FirstPay(o))
    /\ SwapSound(o.underlying) /\ Settled(o.underlying)
    /\ o.underlying.start = LastPayment
    /\ o.underlying.time >= o.time
    /\ ~PostAdjusted(o) => o.underlying.time > o.time

SameOption(o, p) == p.time = o.time /\ p.start = o.start

LEMMA OptionTimes ==
    ASSUME NEW o, OptionSound(o)
    PROVE  /\ o.time \in Nat /\ o.start \in Nat /\ o.time <= o.start
           /\ o.start < LastPayment /\ o.start \in 0..LastPayment /\ o.time \in Grid
           /\ o.values \in Values(o.time) /\ o.values \in AllValues
           /\ o.underlying \in AnyAsset
<1>1. /\ o.time \in Nat /\ o.start \in Nat /\ o.time <= o.start
      /\ o.start < LastPayment /\ o.start \in 0..LastPayment /\ o.time \in Grid
    BY GridIsTimes DEF OptionSound, Grid
<1>2. o.values \in Values(o.time)
    BY <1>1, OptionWorthTyped DEF OptionSound
<1>3. o.values \in AllValues
    BY <1>1, <1>2 DEF AllValues
<1> QED BY <1>1, <1>2, <1>3 DEF OptionSound, SwapSound

\* preAdjustValues() of an option changes nothing but the time it remembers.
LEMMA PreAdjustOptionSound ==
    ASSUME NEW o, OptionSound(o)
    PROVE  /\ OptionSound(PreAdjustOption(o)) /\ SameOption(o, PreAdjustOption(o))
           /\ PreAdjusted(PreAdjustOption(o))
<1> DEFINE p == PreAdjustOption(o)
<1>1. o \in AnyOption
    BY DEF OptionSound
<1>2. /\ p \in AnyOption /\ p.time = o.time /\ p.start = o.start /\ p.values = o.values
      /\ p.latestPre = o.time /\ p.latestPost = o.latestPost /\ p.exercise = o.exercise
      /\ p.underlying = o.underlying
    BY <1>1 DEF AnyOption, PreAdjustOption
<1> HIDE DEF p
<1>3. (PostAdjusted(p) <=> PostAdjusted(o)) /\ PreAdjusted(p) /\ FirstPay(p) = FirstPay(o)
    BY <1>2 DEF PostAdjusted, PreAdjusted, FirstPay
<1>4. OptionSound(p)
    BY <1>2, <1>3 DEF OptionSound
<1> QED BY <1>2, <1>3, <1>4 DEF SameOption, p

\* postAdjustValues() rolls the underlying to the option's time, sees it between
\* its two adjustments, and takes the better value where the option is exercised.
LEMMA PostAdjustOptionSound ==
    ASSUME NEW o, OptionSound(o)
    PROVE  /\ OptionSound(PostAdjustOption(o)) /\ SameOption(o, PostAdjustOption(o))
           /\ PostAdjusted(PostAdjustOption(o))
           /\ PostAdjustOption(o).latestPre = o.latestPre
<1>1. CASE PostAdjusted(o)
    BY <1>1 DEF PostAdjustOption, SameOption
<1>2. CASE ~PostAdjusted(o)
    <2> DEFINE t == o.time
               u == o.underlying
               back == PartialRollbackSwap(u, t)
               seen == PreAdjustSwap(back)
               done == PostAdjustSwap(seen)
               better == [j \in DOMAIN o.values |-> Max({seen.values[j], o.values[j]})]
               v == IF Exercised(o.exercise, t) THEN better ELSE o.values
               p == PostAdjustOption(o)
    <2>1. /\ o \in AnyOption /\ SwapSound(u) /\ Settled(u) /\ u.start = LastPayment
          /\ u.time > t /\ t \in Nat /\ t \in Grid /\ t \in 0..u.time /\ t # u.time
          /\ t \in 0..o.start /\ o.start \in 0..LastPayment /\ o.values \in Values(t)
        <3>1. u.time \in Nat
            BY SwapTimes DEF OptionSound
        <3> QED BY <1>2, <3>1, OptionTimes DEF OptionSound
    <2> HIDE DEF u
    <2>2. /\ SwapSound(back) /\ back.time = t /\ back.start = LastPayment
          /\ ~PreAdjusted(back) /\ ~PostAdjusted(back)
        <3>1. SwapOnTheWay(u, t, t, PartialRollbackSwap(u, t))
            BY <2>1, RollbackSound
        <3> QED BY <2>1, <3>1 DEF SwapOnTheWay
    <2> HIDE DEF back
    <2>3. /\ SwapSound(seen) /\ seen.time = t /\ seen.start = LastPayment
          /\ PreAdjusted(seen) /\ ~PostAdjusted(seen)
        <3>1. /\ SwapSound(seen) /\ SameTimes(back, seen) /\ PreAdjusted(seen)
              /\ seen.latestPost = back.latestPost
            BY <2>2, PreAdjustSound
        <3> HIDE DEF seen
        <3> QED BY <2>2, <3>1 DEF SameTimes, PostAdjusted
    <2> HIDE DEF seen
    <2>4. /\ SwapSound(done) /\ done.time = t /\ done.start = LastPayment /\ Settled(done)
        <3>1. /\ SwapSound(done) /\ SameTimes(seen, done) /\ PostAdjusted(done)
              /\ done.latestPre = seen.latestPre
            BY <2>3, PostAdjustSound
        <3> HIDE DEF done
        <3> QED BY <2>3, <3>1 DEF SameTimes, PreAdjusted, Settled
    <2> HIDE DEF done
    <2>5. \A j \in Nodes(t) : seen.values[j] = Worth(LastPayment, t, j, t, t + 1)
        <3>1. FirstReset(seen) = t /\ FirstPay(seen) = t + 1
            BY <2>3 DEF FirstReset, FirstPay
        <3> QED BY <2>3, <3>1 DEF SwapSound
    <2>6. better = [j \in Nodes(t) |-> Max({o.values[j], Worth(LastPayment, t, j, t, t + 1)})]
        <3>1. DOMAIN o.values = Nodes(t)
            BY <2>1 DEF Values
        <3>2. \A x, y : {x, y} = {y, x}
            OBVIOUS
        <3>3. \A j \in Nodes(t) : Max({seen.values[j], o.values[j]})
                                  = Max({o.values[j], Worth(LastPayment, t, j, t, t + 1)})
            BY <2>5, <3>2
        <3> HIDE DEF t
        <3> QED BY <3>1, <3>3
    <2>7. v = AtExercise(o.exercise, t, t, o.values)
        <3>1. t >= t
            BY <2>1
        <3> HIDE DEF t, better
        <3> QED BY <2>6, <3>1, Zenon DEF AtExercise
    <2>8. v = OptionWorth(o.exercise, o.start, t, t)
        <3>1. o.values = OptionWorth(o.exercise, o.start, t, t + 1)
            BY <1>2 DEF OptionSound, FirstPay
        <3> HIDE DEF t, v
        <3> QED BY <2>1, <2>7, <3>1, OptionWorthExercised
    <2>9. p = [[o EXCEPT !.values = v, !.underlying = done] EXCEPT !.latestPost = t]
        BY <1>2, Zenon DEF PostAdjustOption, OptionPostImpl, done, seen, back, u
    <2>10. v \in AllValues
        <3>1. v \in Values(t)
            <4> HIDE DEF v, t
            <4> QED BY <2>1, <2>8, OptionWorthTyped
        <3> HIDE DEF v, t
        <3> QED BY <2>1, <3>1 DEF AllValues
    <2> HIDE DEF v, p
    <2>11. /\ p \in AnyOption /\ p.time = t /\ p.start = o.start /\ p.values = v
           /\ p.latestPre = o.latestPre /\ p.latestPost = t /\ p.exercise = o.exercise
           /\ p.underlying = done
        <3>1. done \in AnyAsset /\ t \in Int
            BY <2>1, <2>4 DEF SwapSound
        <3> QED BY <2>1, <2>9, <2>10, <3>1 DEF AnyOption
    <2>12. PostAdjusted(p) /\ FirstPay(p) = t
        BY <2>11 DEF PostAdjusted, FirstPay
    <2>13. OptionSound(p)
        <3>1. done.time >= t
            BY <2>1, <2>4
        <3>2. o.start \in 0..(LastPayment - 1)
            BY DEF OptionSound
        <3> HIDE DEF t
        <3> QED BY <2>1, <2>4, <2>8, <2>11, <2>12, <3>1, <3>2 DEF OptionSound
    <2> QED BY <2>11, <2>12, <2>13 DEF SameOption, p
<1> QED BY <1>1, <1>2

\* adjustValues() does both.
LEMMA AdjustOptionSound ==
    ASSUME NEW o, OptionSound(o)
    PROVE  /\ OptionSound(AdjustOption(o)) /\ SameOption(o, AdjustOption(o))
           /\ Settled(AdjustOption(o))
<1> DEFINE b == PreAdjustOption(o)
           c == PostAdjustOption(b)
<1>1. OptionSound(b) /\ SameOption(o, b) /\ PreAdjusted(b)
    BY PreAdjustOptionSound
<1> HIDE DEF b
<1>2. OptionSound(c) /\ SameOption(b, c) /\ PostAdjusted(c) /\ c.latestPre = b.latestPre
    BY <1>1, PostAdjustOptionSound
<1>3. AdjustOption(o) = c
    BY Zenon DEF AdjustOption, b
<1> HIDE DEF c
<1> QED BY <1>1, <1>2, <1>3 DEF SameOption, Settled, PreAdjusted

\* A step back from a time that was adjusted.
LEMMA OptionStepSound ==
    ASSUME NEW o, OptionSound(o), Settled(o), o.time > 0
    PROVE  /\ OptionSound(SteppedBack(o)) /\ SteppedBack(o).time = o.time - 1
           /\ SteppedBack(o).start = o.start
<1> DEFINE t == o.time
           i == t - 1
           v == Stepback(i, o.values)
           b == SteppedBack(o)
<1>1. /\ o \in AnyOption /\ o.start \in 0..(LastPayment - 1) /\ o.start \in 0..LastPayment
      /\ t \in Nat /\ i \in Nat /\ i < Steps /\ i + 1 = t /\ i \in Grid /\ t \in Grid
      /\ i \in 0..(o.start - 1) /\ i \in 0..o.start /\ o.values \in Values(t)
      /\ o.latestPre = t /\ o.latestPost = t /\ t <= o.start
    <2>1. o \in AnyOption /\ o.start \in 0..(LastPayment - 1)
        BY DEF OptionSound
    <2>2. o.latestPre = t /\ o.latestPost = t
        BY DEF Settled, PreAdjusted, PostAdjusted
    <2>3. /\ t \in Nat /\ o.start \in Nat /\ t <= o.start /\ t > 0 /\ t \in Grid
          /\ o.start < LastPayment /\ o.start \in 0..LastPayment /\ o.values \in Values(t)
        BY OptionTimes
    <2> HIDE DEF t
    <2> QED BY <2>1, <2>2, <2>3, GridIsTimes DEF Grid
<1>2. b = [o EXCEPT !.time = i, !.values = v]
    BY Zenon DEF SteppedBack
<1>3. v \in AllValues
    <2>1. v \in Values(i)
        <3>1. o.values \in Values(i + 1)
            BY <1>1
        <3> HIDE DEF i, t
        <3> QED BY <1>1, <3>1, StepbackTyped
    <2> HIDE DEF i, v
    <2> QED BY <1>1, <2>1 DEF AllValues
<1> HIDE DEF v, b, i
<1>4. /\ b \in AnyOption /\ b.time = i /\ b.start = o.start /\ b.values = v
      /\ b.latestPost = t /\ b.exercise = o.exercise /\ b.underlying = o.underlying
    <2>1. i \in Int /\ o.latestPost = t /\ o \in AnyOption
        BY <1>1
    <2>2. /\ b \in AnyOption /\ b.time = i /\ b.start = o.start /\ b.values = v
          /\ b.latestPost = o.latestPost /\ b.exercise = o.exercise /\ b.underlying = o.underlying
        <3> HIDE DEF t
        <3> QED BY <1>2, <1>3, <2>1 DEF AnyOption
    <2> QED BY <2>1, <2>2
<1>5. ~PostAdjusted(b) /\ FirstPay(b) = t /\ FirstPay(o) = t
    BY <1>1, <1>4 DEF PostAdjusted, FirstPay
<1>6. v = OptionWorth(o.exercise, o.start, i, t)
    <2>1. o.values = OptionWorth(o.exercise, o.start, t, t)
        BY <1>5 DEF OptionSound
    <2>2. OptionWorth(o.exercise, o.start, i, i + 1)
          = Stepback(i, OptionWorth(o.exercise, o.start, i + 1, i + 1))
        <3> HIDE DEF t
        <3> QED BY <1>1, OptionWorthStep
    <2> HIDE DEF t
    <2> QED BY <1>1, <2>1, <2>2 DEF v
<1>7. o.underlying.time \in Nat /\ o.underlying.time >= t
    BY SwapTimes DEF OptionSound
<1>8. o.underlying.time > i
    BY <1>1, <1>7
<1>9. OptionSound(b)
    BY <1>1, <1>4, <1>5, <1>6, <1>7, <1>8 DEF OptionSound
<1> QED BY <1>4, <1>9 DEF b, i

\* An option starts with its underlying at the last payment, later than itself.
LEMMA InitializeOptionSound ==
    ASSUME NEW o \in AnyOption, NEW t \in 0..(LastPayment - 1), Startable(o, t),
           Startable(o.underlying, LastPayment)
    PROVE  OptionSound(InitializeOption(o, t)) /\ InitializeOption(o, t).time = t
<1> DEFINE u == InitializeSwap(o.underlying, LastPayment)
           z == Zeros(o, t)
           b == [z EXCEPT !.underlying = u]
           v == Nothing(t)
<1>1. t \in Nat /\ t \in Int /\ t \in 0..t /\ t \in Grid /\ LastPayment \in Grid
      /\ t \in 0..LastPayment /\ t < LastPayment
    BY GridIsTimes DEF Grid
<1>2. /\ SwapSound(u) /\ Settled(u) /\ u.time = LastPayment /\ u.start = LastPayment
      /\ u \in AnyAsset
    <2>1. o.underlying \in AnyAsset
        BY DEF AnyOption
    <2>2. /\ SwapSound(u) /\ Settled(u) /\ u.time = LastPayment /\ u.start = LastPayment
        BY <1>1, <2>1, InitializeSound
    <2> QED BY <2>2 DEF SwapSound
<1>3. v \in AllValues
    BY <1>1, NothingTyped DEF AllValues
<1>4. z = [o EXCEPT !.time = t, !.start = t, !.values = v]
    BY Zenon DEF Zeros, Nothing
<1> HIDE DEF u, z, v
<1>5. /\ z \in AnyOption /\ z.time = t /\ z.start = t /\ z.values = v
      /\ z.latestPre = o.latestPre /\ z.latestPost = o.latestPost
      /\ z.underlying = o.underlying
    BY <1>1, <1>3, <1>4 DEF AnyOption
<1>6. /\ b \in AnyOption /\ b.time = t /\ b.start = t /\ b.values = v
      /\ b.latestPost = o.latestPost /\ b.underlying = u /\ b.exercise = z.exercise
    BY <1>2, <1>5 DEF AnyOption
<1>7. InitializeOption(o, t) = AdjustOption(b)
    BY <1>5, Zenon DEF InitializeOption, u, z
<1> HIDE DEF b
<1>8. ~PostAdjusted(b) /\ FirstPay(b) = t + 1
    BY <1>6 DEF Startable, PostAdjusted, FirstPay
<1>9. v = OptionWorth(b.exercise, t, t, t + 1)
    BY <1>1, OptionWorthAtStart DEF v
<1>10. OptionSound(b)
    BY <1>1, <1>2, <1>6, <1>8, <1>9 DEF OptionSound
<1> QED BY <1>6, <1>7, <1>10, AdjustOptionSound DEF SameOption

OptionRollStep(i, to, x) ==
    LET stepped == SteppedBack(x)
    IN  IF AdjustedOnTheWay(i, to) THEN AdjustOption(stepped) ELSE stepped

OptionRolled(o, to, r) ==
    r = [i \in to..o.time |-> IF i = o.time THEN o ELSE OptionRollStep(i, to, r[i + 1])]

OptionOnTheWay(to, i, x) ==
    /\ OptionSound(x) /\ x.time = i
    /\ i # to => Settled(x)

\* One step of an option's rollback.
LEMMA OptionRollStepSound ==
    ASSUME NEW to \in Nat, NEW i \in Nat, to <= i, NEW x, OptionOnTheWay(to, i + 1, x)
    PROVE  OptionOnTheWay(to, i, OptionRollStep(i, to, x))
<1> DEFINE y == SteppedBack(x)
           z == AdjustOption(y)
<1>1. OptionSound(x) /\ x.time = i + 1 /\ Settled(x) /\ x.time > 0
    BY DEF OptionOnTheWay
<1>2. OptionSound(y) /\ y.time = x.time - 1
    BY <1>1, OptionStepSound
<1> HIDE DEF y
<1>3. y.time = i
    BY <1>1, <1>2
<1>4. OptionSound(z) /\ SameOption(y, z) /\ Settled(z)
    BY <1>2, AdjustOptionSound
<1> HIDE DEF z
<1>5. CASE i = to
    <2>1. OptionRollStep(i, to, x) = y
        BY <1>5, Zenon DEF OptionRollStep, AdjustedOnTheWay, y
    <2> QED BY <1>2, <1>3, <1>5, <2>1 DEF OptionOnTheWay
<1>6. CASE i # to
    <2>1. OptionRollStep(i, to, x) = z
        BY <1>6, Zenon DEF OptionRollStep, AdjustedOnTheWay, y, z
    <2> QED BY <1>3, <1>4, <1>6, <2>1 DEF OptionOnTheWay, SameOption
<1> QED BY <1>5, <1>6

\* A partial rollback of an option leaves it sound.
LEMMA OptionRollbackSound ==
    ASSUME NEW o, OptionSound(o), NEW to \in 0..o.time, to < o.time => Settled(o)
    PROVE  OptionSound(PartialRollbackOption(o, to))
<1> DEFINE n == o.time
           X == [i \in to..n |-> {x \in AnyOption : OptionOnTheWay(to, i, x)}]
           F == [i \in to..(n - 1) |-> [x \in X[i + 1] |-> OptionRollStep(i, to, x)]]
<1>1. n \in Nat /\ n \in Int /\ to \in Nat /\ to \in Int /\ to <= n
    BY OptionTimes
<1>2. o \in X[n]
    <2>1. n \in to..n /\ o \in AnyOption
        BY <1>1 DEF OptionSound
    <2>2. OptionOnTheWay(to, n, o)
        BY <1>1 DEF OptionOnTheWay
    <2> QED BY <2>1, <2>2
<1> HIDE DEF n
<1>3. ASSUME NEW i \in to..(n - 1), NEW x \in X[i + 1]
      PROVE  F[i][x] = OptionRollStep(i, to, x) /\ OptionRollStep(i, to, x) \in X[i]
    <2>1. i \in Nat /\ to <= i /\ i < n /\ i \in to..n /\ i + 1 \in to..n
        BY <1>1
    <2>2. OptionOnTheWay(to, i + 1, x)
        BY <1>3, <2>1
    <2>3. OptionOnTheWay(to, i, OptionRollStep(i, to, x))
        BY <2>1, <2>2, OptionRollStepSound
    <2>4. OptionRollStep(i, to, x) \in AnyOption
        BY <2>3 DEF OptionOnTheWay, OptionSound
    <2> QED BY <2>1, <2>3, <2>4
<1> HIDE DEF X, F
<1>4. PICK r : Descends(to, n, X, F, o, r)
    <2>1. \A i \in to..(n - 1) : \A x \in X[i + 1] : F[i][x] \in X[i]
        BY <1>3
    <2> QED BY <1>1, <1>2, <2>1, Descent
<1>5. OptionRolled(o, to, r)
    <2>1. ASSUME NEW i \in to..n
          PROVE  r[i] = IF i = n THEN o ELSE OptionRollStep(i, to, r[i + 1])
        <3>1. i # n => i + 1 \in to..n /\ i \in to..(n - 1)
            BY <1>1
        <3>2. /\ r[i] = IF i = n THEN o ELSE F[i][r[i + 1]]
              /\ i # n => r[i + 1] \in X[i + 1]
            BY <1>4, <3>1 DEF Descends
        <3>3. i # n => F[i][r[i + 1]] = OptionRollStep(i, to, r[i + 1])
            BY <1>3, <3>1, <3>2
        <3> QED BY <3>2, <3>3
    <2>2. r = [i \in to..n |-> r[i]]
        BY <1>4, Zenon DEF Descends
    <2>3. [i \in to..n |-> r[i]] = [i \in to..n |-> IF i = n THEN o ELSE OptionRollStep(i, to, r[i + 1])]
        BY <2>1
    <2> QED BY <2>2, <2>3, Zenon DEF OptionRolled, n
<1> DEFINE q == CHOOSE q : OptionRolled(o, to, q)
<1>6. OptionRolled(o, to, q)
    BY <1>5, Zenon
<1>7. PartialRollbackOption(o, to) = q[to]
    BY Zenon DEF PartialRollbackOption, OptionRolled, OptionRollStep
<1> HIDE DEF q
<1>8. \A i \in to..n : q[i] = IF i = n THEN o ELSE OptionRollStep(i, to, q[i + 1])
    BY <1>6, Zenon DEF OptionRolled, n
<1>9. \A i \in to..n : q[i] \in X[i]
    <2>1. q[n] \in X[n]
        BY <1>1, <1>2, <1>8
    <2>2. ASSUME NEW i \in to..(n - 1), q[i + 1] \in X[i + 1] PROVE q[i] \in X[i]
        <3>1. i \in to..n /\ i # n
            BY <1>1
        <3>2. OptionRollStep(i, to, q[i + 1]) \in X[i]
            BY <1>3, <2>2
        <3> QED BY <1>8, <3>1, <3>2
    <2> QED BY <1>1, <2>1, <2>2, Downwards
<1>10. OptionSound(q[to])
    <2>1. to \in to..n
        BY <1>1
    <2> QED BY <1>9, <2>1 DEF X, OptionOnTheWay
<1> QED BY <1>7, <1>10

(* ---- the invariant ---- *)

IInv ==
    /\ swap \in AnyAsset /\ swaption \in AnyOption
    /\ Started(swap) => SwapSound(swap)
    /\ Started(swaption) => OptionSound(swaption)
    /\ Started(swaption.underlying) => Started(swaption)
    /\ PricesSound(statePrices)

\* The invariant holds at first.
LEMMA InvariantInit == Init => IInv
<1> SUFFICES ASSUME Init PROVE IInv
    OBVIOUS
<1>1. Never \in Int /\ Never \notin Grid
    BY GridIsTimes DEF Never, Grid
<1>2. NewAsset \in AnyAsset /\ NewAsset.time = Never
    BY <1>1 DEF NewAsset, AnyAsset
<1>3. PICK e \in Exercises : swaption = NewOption(e)
    BY DEF Init
<1>4. NewOption(e) \in AnyOption /\ NewOption(e).time = Never /\ NewOption(e).underlying = NewAsset
    BY <1>1, <1>2 DEF NewOption, AnyOption
<1>5. swap = NewAsset
    BY DEF Init
<1> QED BY <1>1, <1>2, <1>3, <1>4, <1>5, PricesSoundInit DEF IInv, Started

\* Every operation of a client's swap leaves a sound swap.
LEMMA SwapOperationSound ==
    ASSUME IInv, SwapOperation
    PROVE  swap' \in AnyAsset /\ SwapSound(swap') /\ UNCHANGED <<swaption, statePrices>>
<1>1. ASSUME NEW b, SwapSound(b), SwapBecomes(b)
      PROVE  swap' \in AnyAsset /\ SwapSound(swap') /\ UNCHANGED <<swaption, statePrices>>
    BY <1>1 DEF SwapBecomes, SwapSound
<1>2. ASSUME NEW t \in 0..LastPayment, Startable(swap, t), SwapBecomes(InitializeSwap(swap, t))
      PROVE  swap' \in AnyAsset /\ SwapSound(swap') /\ UNCHANGED <<swaption, statePrices>>
    <2>1. t \in Grid
        BY GridIsTimes DEF Grid
    <2>2. SwapSound(InitializeSwap(swap, t))
        BY <1>2, <2>1, InitializeSound DEF IInv
    <2> QED BY <1>1, <1>2, <2>2
<1>3. CASE Started(swap) /\ SwapBecomes(PreAdjustSwap(swap))
    BY <1>1, <1>3, PreAdjustSound DEF IInv
<1>4. CASE Started(swap) /\ SwapBecomes(PostAdjustSwap(swap))
    BY <1>1, <1>4, PostAdjustSound DEF IInv
<1>5. ASSUME NEW to \in 0..swap.time, Started(swap), to < swap.time => Settled(swap),
             \/ SwapBecomes(PartialRollbackSwap(swap, to))
             \/ SwapBecomes(AdjustSwap(PartialRollbackSwap(swap, to)))
      PROVE  swap' \in AnyAsset /\ SwapSound(swap') /\ UNCHANGED <<swaption, statePrices>>
    <2> DEFINE b == PartialRollbackSwap(swap, to)
    <2>1. SwapSound(b)
        BY <1>5, RollbackSound DEF IInv, SwapOnTheWay
    <2> HIDE DEF b
    <2>2. SwapSound(AdjustSwap(b))
        BY <2>1, AdjustSound
    <2>3. SwapBecomes(b) \/ SwapBecomes(AdjustSwap(b))
        BY <1>5 DEF b
    <2> QED BY <1>1, <2>1, <2>2, <2>3
<1> QED BY <1>2, <1>3, <1>4, <1>5 DEF SwapOperation

\* Every operation of a client's swaption leaves a sound swaption.
LEMMA OptionOperationSound ==
    ASSUME IInv, OptionOperation
    PROVE  swaption' \in AnyOption /\ OptionSound(swaption') /\ UNCHANGED <<swap, statePrices>>
<1>1. ASSUME NEW b, OptionSound(b), OptionBecomes(b)
      PROVE  swaption' \in AnyOption /\ OptionSound(swaption') /\ UNCHANGED <<swap, statePrices>>
    BY <1>1 DEF OptionBecomes, OptionSound
<1>2. ASSUME NEW t \in 0..(LastPayment - 1), Startable(swaption, t),
             Startable(swaption.underlying, LastPayment),
             OptionBecomes(InitializeOption(swaption, t))
      PROVE  swaption' \in AnyOption /\ OptionSound(swaption') /\ UNCHANGED <<swap, statePrices>>
    <2>1. OptionSound(InitializeOption(swaption, t))
        BY <1>2, InitializeOptionSound DEF IInv
    <2> QED BY <1>1, <1>2, <2>1
<1>3. CASE Started(swaption) /\ OptionBecomes(PreAdjustOption(swaption))
    BY <1>1, <1>3, PreAdjustOptionSound DEF IInv
<1>4. CASE Started(swaption) /\ OptionBecomes(PostAdjustOption(swaption))
    BY <1>1, <1>4, PostAdjustOptionSound DEF IInv
<1>5. ASSUME NEW to \in 0..swaption.time, Started(swaption),
             to < swaption.time => Settled(swaption),
             \/ OptionBecomes(PartialRollbackOption(swaption, to))
             \/ OptionBecomes(AdjustOption(PartialRollbackOption(swaption, to)))
      PROVE  swaption' \in AnyOption /\ OptionSound(swaption') /\ UNCHANGED <<swap, statePrices>>
    <2> DEFINE b == PartialRollbackOption(swaption, to)
    <2>1. OptionSound(b)
        BY <1>5, OptionRollbackSound DEF IInv
    <2> HIDE DEF b
    <2>2. OptionSound(AdjustOption(b))
        BY <2>1, AdjustOptionSound
    <2>3. OptionBecomes(b) \/ OptionBecomes(AdjustOption(b))
        BY <1>5 DEF b
    <2> QED BY <1>1, <2>1, <2>2, <2>3
<1> QED BY <1>2, <1>3, <1>4, <1>5 DEF OptionOperation

\* No step breaks the invariant.
LEMMA InvariantNext == IInv /\ [Next]_vars => IInv'
<1> SUFFICES ASSUME IInv, [Next]_vars PROVE IInv'
    OBVIOUS
<1>1. CASE SwapOperation
    <2>1. swap' \in AnyAsset /\ SwapSound(swap') /\ UNCHANGED <<swaption, statePrices>>
        BY <1>1, SwapOperationSound
    <2> QED BY <2>1 DEF IInv, Started, PricesSound
<1>2. CASE OptionOperation
    <2>1. swaption' \in AnyOption /\ OptionSound(swaption') /\ UNCHANGED <<swap, statePrices>>
        BY <1>2, OptionOperationSound
    <2>2. swaption'.time \in Grid
        BY <2>1, OptionTimes
    <2> QED BY <2>1, <2>2 DEF IInv, Started, PricesSound
<1>3. CASE PresentValue
    <2>1. PICK asset \in {swap, swaption} :
             /\ Started(asset)
             /\ statePrices' = Extended(asset.time)
             /\ UNCHANGED <<swap, swaption>>
        BY <1>3 DEF PresentValue
    <2>2. PricesSound(statePrices')
        BY <2>1, ExtendedSound DEF IInv, Started
    <2>3. UNCHANGED <<swap, swaption>>
        BY <2>1
    <2> QED BY <2>2, <2>3 DEF IInv, Started
<1>4. CASE UNCHANGED vars
    BY <1>4 DEF IInv, vars, Started, PricesSound
<1> QED BY <1>1, <1>2, <1>3, <1>4 DEF Next

\* The values of every started asset are those the reference definitions give, at
\* whatever point a rollback has stopped, the underlying of a started swaption is
\* settled ahead of it, and the state prices are those of the tree
\* (discretizedasset.hpp:201-213, lattice.hpp:97-118, 148-164).
THEOREM InvariantHolds == Spec => []IInv
<1>1. Init => IInv
    BY InvariantInit
<1>2. IInv /\ [Next]_vars => IInv'
    BY InvariantNext
<1> QED BY <1>1, <1>2, PTL DEF Spec

\* Every payment is in the values of a swap, or of a swaption's underlying, once and
\* discounted along the tree, for any tree, weights and coupons, whatever rollbacks,
\* partial rollbacks, adjustments and exercises have asked for it
\* (discretizedasset.hpp:201-213, discretizedswap.cpp:85-156).
THEOREM PaymentsEnterOnce == Spec => []PaymentsOnce
<1>1. ASSUME IInv PROVE PaymentsOnce
    <2>1. ASSUME NEW a, SwapSound(a)
          PROVE  \A j \in DOMAIN a.values :
                    a.values[j] = Worth(a.start, a.time, j, FirstReset(a), FirstPay(a))
        <3>1. DOMAIN a.values = Nodes(a.time)
            BY <2>1 DEF SwapSound, Values
        <3> QED BY <2>1, <3>1 DEF SwapSound
    <2>2. Started(swap) => SwapSound(swap)
        BY <1>1 DEF IInv
    <2>3. Started(swaption.underlying) => SwapSound(swaption.underlying)
        BY <1>1 DEF IInv, OptionSound
    <2> QED BY <2>1, <2>2, <2>3 DEF PaymentsOnce
<1>2. Spec => []IInv
    BY InvariantHolds
<1> QED BY <1>1, <1>2, PTL

\* A swaption holds the value of its exercises and of nothing else, for any exercise
\* on the grid: each sees the underlying after the resets of its time and before its
\* payments (discretizedasset.cpp:25-51, discretizedswaption.cpp).
THEOREM SwaptionIsExact == Spec => []OptionExact
<1>1. ASSUME IInv PROVE OptionExact
    BY <1>1 DEF IInv, OptionExact, OptionSound
<1>2. Spec => []IInv
    BY InvariantHolds
<1> QED BY <1>1, <1>2, PTL

\* The present value by state prices is what the values discount to along the tree,
\* whatever times the lattice was asked for before (lattice.hpp:97-124).
THEOREM PricesAgree == Spec => []StatePricesAgree
<1>1. ASSUME IInv PROVE StatePricesAgree
    <2>1. ASSUME NEW asset \in {swap, swaption}, Started(asset)
          PROVE  presentValue(asset) = TheRoll(0, asset.time, asset.values)[0][0]
        <3>1. asset.time \in Grid /\ asset.values \in Values(asset.time)
            BY <1>1, <2>1, OptionTimes DEF IInv, SwapSound, Started
        <3> QED BY <1>1, <3>1, PresentValueIsDiscounted DEF IInv
    <2> QED BY <2>1, Zenon DEF StatePricesAgree, TheRoll, RolledBack
<1>2. Spec => []IInv
    BY InvariantHolds
<1> QED BY <1>1, <1>2, PTL

==============================================================================
