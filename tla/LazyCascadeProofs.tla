-------------------------- MODULE LazyCascadeProofs --------------------------
(***************************************************************************)
(* What LazyCascade promises for any graph of quotes, links, lazy objects  *)
(* and eager observers.  The first three theorems hold with or without     *)
(* cycles and rest on the shape of the call stack: loops of                *)
(* enableUpdates() and calls of recalculate() are only at its bottom, a    *)
(* frozen object is never being calculated, and a deferred notification is *)
(* either still deferred or in the hands of the loop at the bottom.        *)
(*                                                                         *)
(* CacheCoherent and EagerUpToDate, for graphs without cycles, are proved  *)
(* last, from one invariant.                                               *)
(***************************************************************************)
EXTENDS LazyCascade, SequenceTheorems, TLAPS

IsStack(s) == s \in Seq({s[k] : k \in DOMAIN s})

IsCalculation(f) ==
    /\ DOMAIN f = {"op", "of", "todo", "got"}
    /\ f.op = "calculate"
    /\ f.of \in Computed
    /\ f.todo \subseteq Inputs[f.of]
    /\ f.got = [i \in Inputs[f.of] |-> f.got[i]]

Shaped(f) == f \in Frames \/ IsCalculation(f)

OnlyAtBottom == {"enable", "recalculate"}

\* every frame has its fields, and the outer calls are at the bottom
Stacked(s) ==
    /\ IsStack(s)
    /\ \A k \in 1..Len(s) : Shaped(s[k]) /\ (s[k].op \in OnlyAtBottom => k = Len(s))

\* no frozen object is being calculated
Thawed(s, fz) ==
    \A k \in 1..Len(s) : s[k].op = "calculate" /\ s[k].of \in Lazies => ~fz[s[k].of]

\* what was deferred waits for enableUpdates() or is being told
Flushing(s, d, p) == p # {} /\ ~d => s # <<>> /\ s[Len(s)].op = "enable"

\* nobody defers updates while enableUpdates() runs
Enabled(s, d) == d => \A k \in 1..Len(s) : s[k].op # "enable"

Sound(s, d, p, fz) ==
    Stacked(s) /\ Thawed(s, fz) /\ Flushing(s, d, p) /\ Enabled(s, d)

\* TypeOK but for the stack
Typed ==
    /\ \A q \in Quotes : quote[q] \in Values[q]
    /\ \A h \in Links : target[h] \in Targets[h]
    /\ calculated \in [Lazies -> BOOLEAN]
    /\ frozen \in [Lazies -> BOOLEAN]
    /\ DOMAIN quote = Quotes /\ DOMAIN target = Links
    /\ result \in [Computed -> {result[n] : n \in Computed}]
    /\ \A n \in Computed : result[n] = None \/ DOMAIN result[n] = Inputs[n]
    /\ deferring \in BOOLEAN /\ raising \in BOOLEAN
    /\ pending \subseteq Computed \cup Links

\* The strengthened invariant.
IInv == Typed /\ Sound(stack, deferring, pending, frozen)

-----------------------------------------------------------------------------
\* Pushing, dropping and reading the frames of a stack.
Pushed(t, f, s) ==
    /\ IsStack(t)
    /\ Len(t) = Len(s) + 1 /\ Len(s) \in Nat
    /\ t # <<>>
    /\ t[1] = f
    /\ \A k \in 1..Len(s) : t[k + 1] = s[k]
    /\ Head(t) = f

LEMMA PushedFrame ==
    ASSUME NEW s, IsStack(s), NEW f
    PROVE  Pushed(<<f>> \o s, f, s)
<1> DEFINE S == {s[k] : k \in DOMAIN s} \cup {f}
           t == <<f>> \o s
<1>1. s \in Seq(S) /\ <<f>> \in Seq(S)
    BY DEF IsStack
<1>2. t \in Seq(S)
    BY <1>1
<1>3. t \in Seq({t[k] : k \in DOMAIN t})
    <2> HIDE DEF t
    <2>1. t \in [1..Len(t) -> S] /\ Len(t) \in Nat /\ DOMAIN t = 1..Len(t)
        BY <1>2
    <2>2. t \in [1..Len(t) -> {t[k] : k \in DOMAIN t}]
        BY <2>1
    <2> QED BY <2>1, <2>2
<1> QED BY <1>1, <1>2, <1>3 DEF IsStack, Pushed

LEMMA PushFrame ==
    ASSUME NEW s, IsStack(s), NEW f
    PROVE  /\ IsStack(<<f>> \o s)
           /\ Len(<<f>> \o s) = Len(s) + 1 /\ Len(s) \in Nat
           /\ <<f>> \o s # <<>>
           /\ (<<f>> \o s)[1] = f
           /\ \A k \in 1..Len(s) : (<<f>> \o s)[k + 1] = s[k]
           /\ Head(<<f>> \o s) = f
<1>1. Pushed(<<f>> \o s, f, s)
    BY PushedFrame
<1> QED BY <1>1 DEF Pushed

LEMMA PopFrame ==
    ASSUME NEW s, IsStack(s), s # <<>>
    PROVE  /\ IsStack(Tail(s))
           /\ Len(Tail(s)) = Len(s) - 1 /\ Len(s) \in Nat \ {0}
           /\ \A k \in 1..Len(Tail(s)) : Tail(s)[k] = s[k + 1]
           /\ Head(s) = s[1]
<1> DEFINE S == {s[k] : k \in DOMAIN s}
           t == Tail(s)
<1>1. s \in Seq(S)
    BY DEF IsStack
<1>2. t \in Seq(S)
    BY <1>1
<1>3. t \in Seq({t[k] : k \in DOMAIN t})
    <2> HIDE DEF t
    <2>1. t \in [1..Len(t) -> S] /\ Len(t) \in Nat /\ DOMAIN t = 1..Len(t)
        BY <1>2
    <2>2. t \in [1..Len(t) -> {t[k] : k \in DOMAIN t}]
        BY <2>1
    <2> QED BY <2>1, <2>2
<1>4. /\ Len(t) = Len(s) - 1 /\ Len(s) \in Nat \ {0}
      /\ \A k \in 1..Len(t) : t[k] = s[k + 1]
      /\ Head(s) = s[1]
    <2> HIDE DEF S
    <2> QED BY <1>1
<1> QED BY <1>3, <1>4 DEF IsStack

LEMMA ShortStacks ==
    ASSUME NEW f, NEW g
    PROVE  <<f>> \o <<>> = <<f>> /\ <<f>> \o <<g>> = <<f, g>>
<1> DEFINE S == {f, g}
           s == <<f>> \o <<g>>
<1>1. <<f>> \in Seq(S) /\ <<g>> \in Seq(S) /\ <<f, g>> \in Seq(S)
    OBVIOUS
<1>2. Len(<<f>>) = 1 /\ Len(<<g>>) = 1 /\ Len(<<f, g>>) = 2
    OBVIOUS
<1>3. s \in Seq(S) /\ Len(s) = 2 /\ s[1] = f /\ s[2] = g
    BY <1>1, <1>2, ConcatProperties
<1> HIDE DEF s
<1>4. \A k \in 1..Len(s) : s[k] = <<f, g>>[k]
    BY <1>3
<1>5. s = <<f, g>>
    BY <1>1, <1>2, <1>3, <1>4, SeqEqual
<1> QED BY <1>5 DEF s

LEMMA LastFrame ==
    ASSUME NEW s, IsStack(s), Len(s) = 1
    PROVE  Tail(s) = <<>>
<1> DEFINE S == {s[k] : k \in DOMAIN s}
<1>1. s \in Seq(S)
    BY DEF IsStack
<1> HIDE DEF S
<1>2. Tail(s) \in Seq(S) /\ Len(Tail(s)) = 0
    BY <1>1
<1> QED BY <1>2, EmptySeq

LEMMA EmptyStack ==
    ASSUME NEW d, NEW p, NEW fz, p = {} \/ d
    PROVE  Sound(<<>>, d, p, fz)
BY DEF Sound, Stacked, IsStack, Thawed, Flushing, Enabled

\* A call that is not an outer one goes on top of a sound stack.
LEMMA SoundPush ==
    ASSUME NEW s, NEW f, NEW d, NEW p, NEW fz,
           Sound(s, d, p, fz), Shaped(f), f.op \notin OnlyAtBottom,
           f.op = "calculate" /\ f.of \in Lazies => ~fz[f.of]
    PROVE  Sound(<<f>> \o s, d, p, fz)
<1> DEFINE t == <<f>> \o s
<1>1. /\ IsStack(t) /\ Len(t) = Len(s) + 1 /\ Len(s) \in Nat /\ t # <<>> /\ t[1] = f
      /\ \A k \in 1..Len(s) : t[k + 1] = s[k]
    <2>1. IsStack(s)
        BY DEF Sound, Stacked
    <2>2. Pushed(t, f, s)
        BY <2>1, PushedFrame
    <2> HIDE DEF t
    <2> QED BY <2>2 DEF Pushed
<1> HIDE DEF t
<1>2. \A k \in 1..Len(t) : k = 1 \/ (k - 1 \in 1..Len(s) /\ t[k] = s[k - 1])
    BY <1>1
<1>3. Stacked(t)
    <2> SUFFICES ASSUME NEW k \in 1..Len(t)
                 PROVE  Shaped(t[k]) /\ (t[k].op \in OnlyAtBottom => k = Len(t))
        BY <1>1 DEF Stacked
    <2>1. CASE k = 1
        BY <1>1, <2>1
    <2>2. CASE k # 1
        <3>1. k - 1 \in 1..Len(s) /\ t[k] = s[k - 1]
            BY <1>2, <2>2
        <3>2. Shaped(s[k - 1]) /\ (s[k - 1].op \in OnlyAtBottom => k - 1 = Len(s))
            BY <3>1 DEF Sound, Stacked
        <3> QED BY <1>1, <3>1, <3>2
    <2> QED BY <2>1, <2>2
<1>4. Thawed(t, fz)
    <2> SUFFICES ASSUME NEW k \in 1..Len(t), t[k].op = "calculate", t[k].of \in Lazies
                 PROVE  ~fz[t[k].of]
        BY DEF Thawed
    <2>1. CASE k = 1
        BY <1>1, <2>1
    <2>2. CASE k # 1
        BY <1>2, <2>2 DEF Sound, Thawed
    <2> QED BY <2>1, <2>2
<1>5. Flushing(t, d, p)
    <2> SUFFICES ASSUME p # {}, ~d PROVE t # <<>> /\ t[Len(t)].op = "enable"
        BY DEF Flushing
    <2>1. s # <<>> /\ s[Len(s)].op = "enable" /\ Len(s) # 0
        BY <1>1 DEF Sound, Flushing, Stacked, IsStack
    <2> QED BY <2>1, <1>1
<1>6. Enabled(t, d)
    BY <1>1, <1>2 DEF Sound, Enabled, OnlyAtBottom
<1> QED BY <1>3, <1>4, <1>5, <1>6 DEF Sound, t

\* An outer call starts on an empty stack.
LEMMA SoundStart ==
    ASSUME NEW f, NEW d, NEW p, NEW fz, Shaped(f), f.op # "calculate",
           p = {} \/ d \/ f.op = "enable", f.op = "enable" => ~d
    PROVE  Sound(<<f>>, d, p, fz)
<1>1. IsStack(<<f>>) /\ Len(<<f>>) = 1 /\ <<f>>[1] = f /\ <<f>> # <<>>
    BY DEF IsStack
<1> QED BY <1>1 DEF Sound, Stacked, Thawed, Flushing, Enabled

\* The innermost call returns, unless it is the loop of enableUpdates().
LEMMA SoundPop ==
    ASSUME NEW s, NEW d, NEW p, NEW fz,
           Sound(s, d, p, fz), s # <<>>, Head(s).op # "enable"
    PROVE  Sound(Tail(s), d, p, fz)
<1> DEFINE t == Tail(s)
<1>1. /\ IsStack(t) /\ Len(t) = Len(s) - 1 /\ Len(s) \in Nat \ {0} /\ Head(s) = s[1]
      /\ \A k \in 1..Len(t) : t[k] = s[k + 1]
    BY PopFrame DEF Sound, Stacked
<1> HIDE DEF t
<1>2. \A k \in 1..Len(t) : k + 1 \in 1..Len(s)
    BY <1>1
<1>3. Stacked(t)
    <2> SUFFICES ASSUME NEW k \in 1..Len(t)
                 PROVE  Shaped(t[k]) /\ (t[k].op \in OnlyAtBottom => k = Len(t))
        BY <1>1 DEF Stacked
    <2>1. Shaped(s[k + 1]) /\ (s[k + 1].op \in OnlyAtBottom => k + 1 = Len(s))
        BY <1>2 DEF Sound, Stacked
    <2> QED BY <2>1, <1>1
<1>4. Thawed(t, fz)
    BY <1>1, <1>2 DEF Sound, Thawed
<1>5. Flushing(t, d, p)
    <2> SUFFICES ASSUME p # {}, ~d PROVE t # <<>> /\ t[Len(t)].op = "enable"
        BY DEF Flushing
    <2>1. s[Len(s)].op = "enable" /\ Len(s) # 1
        BY <1>1 DEF Sound, Flushing
    <2>2. Len(t) \in 1..Len(t) /\ Len(t) + 1 = Len(s)
        BY <2>1, <1>1
    <2>3. t # <<>>
        BY <2>2
    <2> QED BY <2>1, <2>2, <2>3, <1>1
<1>6. Enabled(t, d)
    BY <1>1, <1>2 DEF Sound, Enabled
<1> QED BY <1>3, <1>4, <1>5, <1>6 DEF Sound, t

\* The innermost call goes on: its frame keeps what it is about.
LEMMA SoundReplace ==
    ASSUME NEW s, NEW f, NEW d, NEW p, NEW fz,
           Sound(s, d, p, fz), s # <<>>, Shaped(f), f.op = Head(s).op,
           f.op = "calculate" => f.of = Head(s).of
    PROVE  Sound(<<f>> \o Tail(s), d, p, fz)
<1> DEFINE u == Tail(s)
           t == <<f>> \o u
<1>1. /\ IsStack(u) /\ Len(u) = Len(s) - 1
      /\ Len(s) \in Nat \ {0} /\ Head(s) = s[1]
      /\ \A k \in 1..Len(u) : u[k] = s[k + 1]
    BY PopFrame DEF Sound, Stacked
<1> HIDE DEF u
<1>p. IsStack(u)
    BY <1>1
<1>q. Pushed(t, f, u)
    BY <1>p, PushedFrame
<1> HIDE DEF t
<1>2. /\ IsStack(t) /\ Len(t) = Len(u) + 1 /\ t # <<>> /\ t[1] = f
      /\ \A k \in 1..Len(u) : t[k + 1] = u[k]
    BY <1>q DEF Pushed
<1>3. Len(t) = Len(s) /\ \A k \in 2..Len(s) : t[k] = s[k]
    <2> SUFFICES ASSUME NEW k \in 2..Len(s) PROVE t[k] = s[k]
        BY <1>1, <1>2
    <2>1. k - 1 \in 1..Len(u) /\ (k - 1) + 1 = k
        BY <1>1
    <2> QED BY <2>1, <1>1, <1>2
<1>4. \A k \in 1..Len(s) : k = 1 \/ k \in 2..Len(s)
    BY <1>1
<1>5. 1 \in 1..Len(s) /\ Len(s) \in 1..Len(s)
    BY <1>1
<1>6. Stacked(t)
    <2> SUFFICES ASSUME NEW k \in 1..Len(s)
                 PROVE  Shaped(t[k]) /\ (t[k].op \in OnlyAtBottom => k = Len(s))
        BY <1>2, <1>3 DEF Stacked
    <2>1. Shaped(s[k]) /\ (s[k].op \in OnlyAtBottom => k = Len(s))
        BY DEF Sound, Stacked
    <2> QED BY <2>1, <1>1, <1>2, <1>3, <1>4
<1>7. Thawed(t, fz)
    <2> SUFFICES ASSUME NEW k \in 1..Len(s), t[k].op = "calculate", t[k].of \in Lazies
                 PROVE  ~fz[t[k].of]
        BY <1>3 DEF Thawed
    <2>1. s[k].op = t[k].op /\ s[k].of = t[k].of
        BY <1>1, <1>2, <1>3, <1>4
    <2> QED BY <2>1 DEF Sound, Thawed
<1>8. Flushing(t, d, p)
    BY <1>1, <1>2, <1>3, <1>4, <1>5 DEF Sound, Flushing
<1>9. Enabled(t, d)
    BY <1>1, <1>2, <1>3, <1>4, <1>5 DEF Sound, Enabled
<1> QED BY <1>6, <1>7, <1>8, <1>9 DEF Sound, t, u

-----------------------------------------------------------------------------
\* Notifying observers keeps a stack sound.
LEMMA NotifySound ==
    ASSUME Typed, NEW n, NEW under, NEW fz,
           Sound(under, deferring, pending, fz), Notify(n, under)
    PROVE  /\ Sound(stack', deferring, pending', fz)
           /\ pending' \subseteq Computed \cup Links
<1>1. ObserversOf(n) \subseteq Computed \cup Links
    BY DEF ObserversOf
<1>2. Shaped(NotifyFrame(n)) /\ NotifyFrame(n).op = "notify"
    BY <1>1 DEF Shaped, Frames, NotifyFrame
<1>3. CASE deferring
    BY <1>1, <1>3 DEF Notify, Sound, Flushing, Typed
<1>4. CASE ~deferring
    <2>1. Sound(<<NotifyFrame(n)>> \o under, deferring, pending, fz)
        BY <1>2, SoundPush DEF OnlyAtBottom
    <2> QED BY <1>4, <2>1 DEF Notify, Typed
<1> QED BY <1>3, <1>4

\* The frame of a loop.
LEMMA LoopFrame ==
    ASSUME Stacked(stack), Looping
    PROVE  /\ stack # <<>> /\ Top \in Frames
           /\ Top.todo \subseteq Computed \cup Links /\ Top.successful \in BOOLEAN
           /\ Top.op \in {"notify", "enable"}
<1>1. stack # <<>> /\ Top.op \in {"notify", "enable"}
    BY DEF Looping, Running
<1>2. Shaped(Top)
    BY <1>1, PopFrame DEF Top, Stacked
<1> QED BY <1>1, <1>2 DEF Shaped, Frames, IsCalculation

\* The frame of a calculation.
LEMMA CalculationFrame ==
    ASSUME Stacked(stack), Running("calculate")
    PROVE  stack # <<>> /\ IsCalculation(Top) /\ Top.op = "calculate"
<1>1. stack # <<>> /\ Top.op = "calculate"
    BY DEF Running
<1>2. Shaped(Top)
    BY <1>1, PopFrame DEF Top, Stacked
<1> QED BY <1>1, <1>2 DEF Shaped, Frames

\* The frame of recalculate() is alone on the stack.
LEMMA RecalculationFrame ==
    ASSUME Stacked(stack), Running("recalculate")
    PROVE  /\ stack # <<>> /\ Top \in Frames /\ Top.op = "recalculate"
           /\ Top.of \in Lazies /\ Top.wasFrozen \in BOOLEAN
           /\ Top.notified \in BOOLEAN /\ Top.failed \in BOOLEAN
           /\ Len(stack) = 1 /\ Tail(stack) = <<>>
<1>1. stack # <<>> /\ Top.op = "recalculate"
    BY DEF Running
<1>2. Shaped(Top) /\ Len(stack) = 1
    <2>1. Top = stack[1] /\ 1 \in 1..Len(stack)
        BY <1>1, PopFrame DEF Top, Stacked
    <2>2. Shaped(stack[1]) /\ (stack[1].op \in OnlyAtBottom => 1 = Len(stack))
        BY <2>1 DEF Stacked
    <2> QED BY <1>1, <2>1, <2>2 DEF OnlyAtBottom
<1>3. Tail(stack) = <<>>
    BY <1>1, <1>2 DEF Stacked, IsStack
<1> QED BY <1>1, <1>2, <1>3 DEF Shaped, Frames, IsCalculation

\* Starting to calculate an object that is not frozen.
LEMMA DescendSound ==
    ASSUME NEW n \in Computed, NEW s, NEW d, NEW p, NEW fz,
           Sound(s, d, p, fz), n \in Lazies => ~fz[n]
    PROVE  Sound(<<CalculateFrame(n)>> \o s, d, p, fz)
<1>1. IsCalculation(CalculateFrame(n))
    BY DEF IsCalculation, CalculateFrame
<1>2. CalculateFrame(n).op = "calculate" /\ CalculateFrame(n).of = n
    BY DEF CalculateFrame
<1> QED BY <1>1, <1>2, SoundPush DEF Shaped, OnlyAtBottom

\* The rest of a loop is a sound stack.
LEMMA CalledSound ==
    ASSUME Sound(stack, deferring, pending, frozen), Looping, NEW m
    PROVE  Sound(Called(m), deferring, pending, frozen)
<1> DEFINE f == [Top EXCEPT !.todo = @ \ {m}]
<1>1. /\ stack # <<>> /\ Top \in Frames /\ Top.op \in {"notify", "enable"}
      /\ Top.todo \subseteq Computed \cup Links
    BY LoopFrame DEF Sound
<1>2. f \in Frames /\ f.op = Top.op
    BY <1>1 DEF Frames
<1> HIDE DEF f
<1>3. Sound(<<f>> \o Tail(stack), deferring, pending, frozen)
    BY <1>1, <1>2, SoundReplace DEF Top, Shaped
<1> QED BY <1>3 DEF Called, f

-----------------------------------------------------------------------------
LEMMA IInvType == IInv => TypeOK
<1> SUFFICES ASSUME IInv PROVE TypeOK
    OBVIOUS
<1>1. DOMAIN stack = 1..Len(stack)
    BY DEF IInv, Sound, Stacked, IsStack
<1>2. ASSUME NEW k \in DOMAIN stack
      PROVE  \/ stack[k] \in Frames
             \/ /\ stack[k].op = "calculate" /\ stack[k].of \in Computed
                /\ stack[k].todo \subseteq Inputs[stack[k].of]
                /\ DOMAIN stack[k].got = Inputs[stack[k].of]
    <2>1. Shaped(stack[k])
        BY <1>1 DEF IInv, Sound, Stacked
    <2>2. CASE IsCalculation(stack[k])
        BY <2>2 DEF IsCalculation
    <2> QED BY <2>1, <2>2 DEF Shaped
<1> QED BY <1>2 DEF IInv, Typed, TypeOK

LEMMA IInvInit == Init => IInv
<1> SUFFICES ASSUME Init PROVE IInv
    OBVIOUS
<1>1. Sound(stack, deferring, pending, frozen)
    BY EmptyStack DEF Init
<1>2. \A q \in Quotes : quote[q] \in Values[q]
    BY TopologyAssumption DEF Init
<1>3. \A h \in Links : target[h] \in Targets[h]
    BY TopologyAssumption DEF Init
<1>4. result \in [Computed -> {result[n] : n \in Computed}]
    BY DEF Init
<1>5. \A n \in Computed : result[n] = None
    BY DEF Init
<1> QED BY <1>1, <1>2, <1>3, <1>4, <1>5 DEF Init, IInv, Typed

\* Every call of a client keeps the invariant.
LEMMA ClientStep == IInv /\ Client => IInv'
<1> SUFFICES ASSUME IInv, Client PROVE IInv'
    OBVIOUS
<1> USE DEF IInv
<1>1. ASSUME NEW q \in Quotes, NEW v \in Values[q], SetValue(q, v) PROVE IInv'
    <2>1. Sound(<<>>, deferring, pending, frozen)
        BY <1>1 DEF SetValue, AtRest
    <2>2. Sound(stack', deferring, pending', frozen) /\ pending' \subseteq Computed \cup Links
        BY <1>1, <2>1, NotifySound DEF SetValue
    <2>3. Typed'
        BY <1>1, <2>2 DEF SetValue, Typed
    <2> QED BY <1>1, <2>2, <2>3 DEF SetValue
<1>2. ASSUME NEW h \in Links, NEW t \in Targets[h], LinkTo(h, t) PROVE IInv'
    <2>1. Sound(<<>>, deferring, pending, frozen)
        BY <1>2 DEF LinkTo, AtRest
    <2>2. Sound(stack', deferring, pending', frozen) /\ pending' \subseteq Computed \cup Links
        <3>1. CASE deferring
            <4>1. stack' = <<>> /\ pending' \subseteq Computed \cup Links
                BY <1>2, <3>1 DEF LinkTo, ObserversOf, Typed
            <4> QED BY <3>1, <4>1, EmptyStack
        <3>2. CASE ~deferring
            BY <1>2, <3>2, <2>1, NotifySound DEF LinkTo
        <3> QED BY <3>1, <3>2
    <2>3. Typed'
        BY <1>2, <2>2 DEF LinkTo, Typed
    <2> QED BY <1>2, <2>2, <2>3 DEF LinkTo
<1>3. ASSUME NEW l \in Lazies, Calculate(l) PROVE IInv'
    <2>1. Sound(<<CalculateFrame(l)>> \o <<>>, deferring, pending, frozen)
        BY <1>3, DescendSound DEF Calculate, AtRest, Cached, Computed
    <2>2. <<CalculateFrame(l)>> \o <<>> = <<CalculateFrame(l)>>
        OBVIOUS
    <2>3. Typed'
        BY <1>3 DEF Calculate, Typed, market, updates
    <2> QED BY <1>3, <2>1, <2>2, <2>3 DEF Calculate, updates
<1>4. ASSUME NEW e \in Eagers, Start(e) PROVE IInv'
    <2>1. Sound(<<CalculateFrame(e)>> \o <<>>, deferring, pending, frozen)
        BY <1>4, DescendSound, TopologyAssumption DEF Start, AtRest, Computed
    <2>2. <<CalculateFrame(e)>> \o <<>> = <<CalculateFrame(e)>>
        OBVIOUS
    <2>3. Typed'
        BY <1>4 DEF Start, Typed, market, updates
    <2> QED BY <1>4, <2>1, <2>2, <2>3 DEF Start, updates
<1>5. ASSUME NEW l \in Lazies, Recalculate(l) PROVE IInv'
    <2> DEFINE r == RecalculateFrame(l)
    <2>1. Shaped(r) /\ r.op = "recalculate"
        BY DEF RecalculateFrame, Shaped, Frames, Typed
    <2>2. pending = {} \/ deferring
        BY <1>5 DEF Recalculate, AtRest, Sound, Flushing
    <2>3. frozen' = [frozen EXCEPT ![l] = FALSE] /\ ~frozen'[l]
        BY <1>5 DEF Recalculate, Typed
    <2>4. Sound(<<r>>, deferring, pending, frozen')
        <3> HIDE DEF r
        <3> QED BY <2>1, <2>2, SoundStart
    <2>5. Sound(<<CalculateFrame(l)>> \o <<r>>, deferring, pending, frozen')
        <3> HIDE DEF r
        <3> QED BY <2>3, <2>4, DescendSound DEF Computed
    <2>6. <<CalculateFrame(l)>> \o <<r>> = <<CalculateFrame(l), r>>
        BY ShortStacks
    <2>7. Typed'
        BY <1>5 DEF Recalculate, Typed, market, updates
    <2> QED BY <1>5, <2>5, <2>6, <2>7 DEF Recalculate, updates
<1>6. ASSUME NEW l \in Lazies, Freeze(l) PROVE IInv'
    <2>1. stack = <<>> /\ (pending = {} \/ deferring)
        BY <1>6 DEF Freeze, AtRest, Sound, Flushing
    <2>2. Sound(<<>>, deferring, pending, frozen')
        BY <2>1, EmptyStack
    <2>3. Typed'
        BY <1>6 DEF Freeze, Typed, market, updates
    <2> QED BY <1>6, <2>1, <2>2, <2>3 DEF Freeze, updates
<1>7. ASSUME NEW l \in Lazies, Unfreeze(l) PROVE IInv'
    <2>1. stack = <<>> /\ (pending = {} \/ deferring)
        BY <1>7 DEF Unfreeze, AtRest, Sound, Flushing
    <2>2. Sound(<<>>, deferring, pending, frozen')
        BY <2>1, EmptyStack
    <2>3. Sound(stack', deferring, pending', frozen') /\ pending' \subseteq Computed \cup Links
        BY <1>7, <2>2, NotifySound DEF Unfreeze
    <2>4. Typed'
        BY <1>7, <2>3 DEF Unfreeze, Typed, market
    <2> QED BY <1>7, <2>3, <2>4 DEF Unfreeze
<1>8. ASSUME DeferUpdates PROVE IInv'
    <2>1. Sound(<<>>, TRUE, pending, frozen)
        BY EmptyStack
    <2>2. Typed'
        BY <1>8 DEF DeferUpdates, Typed, market
    <2> QED BY <1>8, <2>1, <2>2 DEF DeferUpdates, AtRest
<1>9. ASSUME EnableUpdates PROVE IInv'
    <2> DEFINE f == EnableFrame(pending)
    <2>1. Shaped(f) /\ f.op = "enable"
        BY DEF EnableFrame, Shaped, Frames, Typed
    <2>2. Sound(<<f>>, FALSE, pending, frozen)
        <3> HIDE DEF f
        <3> QED BY <2>1, SoundStart
    <2>3. pending = {} => Sound(<<>>, FALSE, pending, frozen)
        BY EmptyStack
    <2>4. Typed'
        BY <1>9 DEF EnableUpdates, Typed, market
    <2> QED BY <1>9, <2>2, <2>3, <2>4 DEF EnableUpdates
<1> QED BY <1>1, <1>2, <1>3, <1>4, <1>5, <1>6, <1>7, <1>8, <1>9 DEF Client

\* So does every step of the call in progress.
LEMMA CallStep == IInv /\ Step => IInv'
<1> SUFFICES ASSUME IInv, Step PROVE IInv'
    OBVIOUS
<1> USE DEF IInv
<1>0. Stacked(stack)
    BY DEF Sound
<1>1. ASSUME PerformCalculations PROVE IInv'
    <2>1. stack # <<>> /\ IsCalculation(Top) /\ Top.op = "calculate"
        BY <1>0, <1>1, CalculationFrame DEF PerformCalculations
    <2>2. PICK i \in Top.todo : ReadInput(i) \/ DescendInto(i) \/ FailOn(i)
        BY <1>1 DEF PerformCalculations
    <2>3. CASE ReadInput(i)
        <3>1. PICK v : stack' = Got(i, v)
            BY <2>3 DEF ReadInput
        <3> DEFINE f == [Top EXCEPT !.todo = @ \ {i}, !.got[i] = v]
        <3>2. f.op = "calculate" /\ f.of = Top.of
            BY <2>1 DEF IsCalculation
        <3>3. IsCalculation(f)
            <4>1. /\ DOMAIN f = {"op", "of", "todo", "got"}
                  /\ f.todo = Top.todo \ {i} /\ f.got = [Top.got EXCEPT ![i] = v]
                BY <2>1 DEF IsCalculation
            <4> HIDE DEF f
            <4> QED BY <2>1, <3>2, <4>1 DEF IsCalculation
        <3>4. Sound(<<f>> \o Tail(stack), deferring, pending, frozen)
            <4> HIDE DEF f
            <4> QED BY <2>1, <3>2, <3>3, SoundReplace DEF Shaped, Top
        <3>5. Typed'
            BY <2>3 DEF ReadInput, Typed, market, updates
        <3> QED BY <2>3, <3>1, <3>4, <3>5 DEF ReadInput, Got, updates
    <2>4. CASE DescendInto(i)
        <3> DEFINE j == Deref(i)
        <3>1. j \in Lazies /\ ~frozen[j] /\ stack' = <<CalculateFrame(j)>> \o stack
            BY <2>4 DEF DescendInto, Cached
        <3>2. Sound(stack', deferring, pending, frozen)
            <4> HIDE DEF j
            <4> QED BY <3>1, DescendSound DEF Computed
        <3>3. Typed'
            BY <2>4 DEF DescendInto, Typed, market, updates
        <3> QED BY <2>4, <3>2, <3>3 DEF DescendInto, updates
    <2>5. CASE FailOn(i)
        BY <2>5 DEF FailOn, Typed, market, updates
    <2> QED BY <2>2, <2>3, <2>4, <2>5
<1>2. ASSUME StoreResult PROVE IInv'
    <2>1. stack # <<>> /\ IsCalculation(Top) /\ Top.op = "calculate"
        BY <1>0, <1>2, CalculationFrame DEF StoreResult
    <2>2. Sound(Tail(stack), deferring, pending, frozen)
        BY <2>1, SoundPop DEF Top
    <2>3. Top.of \in Computed /\ DOMAIN Top.got = Inputs[Top.of]
        BY <2>1 DEF IsCalculation
    <2>4. result' \in [Computed -> {result'[n] : n \in Computed}]
        BY <1>2 DEF StoreResult, Typed
    <2>5. \A n \in Computed : result'[n] = None \/ DOMAIN result'[n] = Inputs[n]
        BY <1>2, <2>3 DEF StoreResult, Typed
    <2>6. Typed'
        BY <1>2, <2>4, <2>5 DEF StoreResult, Typed, market, updates
    <2> QED BY <1>2, <2>2, <2>6 DEF StoreResult, updates
<1>3. ASSUME AbandonCalculation PROVE IInv'
    <2>1. stack # <<>> /\ Top.op = "calculate"
        BY <1>0, <1>3, CalculationFrame DEF AbandonCalculation
    <2>2. Sound(Tail(stack), deferring, pending, frozen)
        BY <2>1, SoundPop DEF Top
    <2>3. Typed'
        BY <1>3 DEF AbandonCalculation, Typed, market, updates
    <2> QED BY <1>3, <2>2, <2>3 DEF AbandonCalculation, updates
<1>4. ASSUME CallUpdate PROVE IInv'
    <2>1. PICK m \in Top.todo : UpdateLazy(m) \/ UpdateLink(m) \/ UpdateEager(m)
        BY <1>4 DEF CallUpdate
    <2>2. Sound(Called(m), deferring, pending, frozen)
        BY <1>4, CalledSound DEF CallUpdate
    <2>3. CASE UpdateLazy(m)
        <3>1. Sound(stack', deferring, pending', frozen) /\ pending' \subseteq Computed \cup Links
            BY <2>2, <2>3, NotifySound DEF UpdateLazy, Typed
        <3>2. Typed'
            BY <2>3, <3>1 DEF UpdateLazy, Typed, market
        <3> QED BY <2>3, <3>1, <3>2 DEF UpdateLazy
    <2>4. CASE UpdateLink(m)
        <3>1. Sound(stack', deferring, pending', frozen) /\ pending' \subseteq Computed \cup Links
            BY <2>2, <2>4, NotifySound DEF UpdateLink
        <3>2. Typed'
            BY <2>4, <3>1 DEF UpdateLink, Typed, market
        <3> QED BY <2>4, <3>1, <3>2 DEF UpdateLink
    <2>5. CASE UpdateEager(m)
        <3>1. m \in Computed /\ m \notin Lazies
            BY <2>5, TopologyAssumption DEF UpdateEager, Computed
        <3>2. Sound(stack', deferring, pending, frozen)
            BY <2>2, <2>5, <3>1, DescendSound DEF UpdateEager
        <3>3. Typed'
            BY <2>5 DEF UpdateEager, Typed, market, updates
        <3> QED BY <2>5, <3>2, <3>3 DEF UpdateEager, updates
    <2> QED BY <2>1, <2>3, <2>4, <2>5
<1>5. ASSUME NoteFailure PROVE IInv'
    <2> DEFINE f == [Top EXCEPT !.successful = FALSE]
    <2>1. stack # <<>> /\ Top \in Frames /\ Top.op \in {"notify", "enable"}
        BY <1>0, <1>5, LoopFrame DEF NoteFailure
    <2>2. f \in Frames /\ f.op = Top.op
        BY <2>1 DEF Frames
    <2>3. Sound(<<f>> \o Tail(stack), deferring, pending, frozen)
        <3> HIDE DEF f
        <3> QED BY <2>1, <2>2, SoundReplace DEF Shaped, Top
    <2>4. Typed'
        BY <1>5 DEF NoteFailure, Typed, market, updates
    <2> QED BY <1>5, <2>3, <2>4 DEF NoteFailure, updates
<1>6. ASSUME EndLoop PROVE IInv'
    <2>1. /\ stack # <<>> /\ Top.op \in {"notify", "enable"}
          /\ Top.successful \in BOOLEAN
        BY <1>0, <1>6, LoopFrame DEF EndLoop
    <2>2. Typed'
        BY <1>6, <2>1 DEF EndLoop, Typed, market
    <2>3. CASE Top.op = "enable"
        <3>1. Top = stack[1] /\ 1 \in 1..Len(stack)
            BY <1>0, <2>1, PopFrame DEF Top, Stacked
        <3>2. Len(stack) = 1
            BY <1>0, <2>3, <3>1 DEF Stacked, OnlyAtBottom
        <3>3. Tail(stack) = <<>>
            BY <1>0, <3>2, LastFrame DEF Stacked
        <3>4. stack' = <<>> /\ pending' = {}
            BY <1>6, <2>3, <3>3 DEF EndLoop
        <3> QED BY <1>6, <2>2, <3>4, EmptyStack DEF EndLoop
    <2>4. CASE Top.op = "notify"
        <3>1. Sound(Tail(stack), deferring, pending, frozen)
            BY <2>1, <2>4, SoundPop DEF Top
        <3> QED BY <1>6, <2>2, <2>4, <3>1 DEF EndLoop
    <2> QED BY <2>1, <2>3, <2>4
<1>7. ASSUME Refreeze PROVE IInv'
    <2>1. /\ stack # <<>> /\ Top \in Frames /\ Top.op = "recalculate"
          /\ Top.of \in Lazies /\ Top.wasFrozen \in BOOLEAN
          /\ Len(stack) = 1 /\ Tail(stack) = <<>>
        BY <1>0, <1>7, RecalculationFrame DEF Refreeze
    <2> DEFINE f == [Top EXCEPT !.notified = TRUE, !.failed = raising]
    <2>2. f \in Frames /\ f.op = "recalculate"
        BY <2>1 DEF Frames, Typed
    <2>3. pending = {} \/ deferring
        BY <2>1, PopFrame DEF Sound, Flushing, Top, Stacked
    <2>4. Sound(<<f>>, deferring, pending, frozen')
        <3> HIDE DEF f
        <3> QED BY <2>2, <2>3, SoundStart DEF Shaped
    <2>5. Notify(Top.of, <<f>>)
        <3>1. <<f>> \o Tail(stack) = <<f>>
            <4> HIDE DEF f
            <4> QED BY <2>1, ShortStacks
        <3> QED BY <1>7, <3>1 DEF Refreeze
    <2>6. Sound(stack', deferring, pending', frozen') /\ pending' \subseteq Computed \cup Links
        <3> HIDE DEF f
        <3> QED BY <2>4, <2>5, NotifySound
    <2>7. Typed'
        BY <1>7, <2>1, <2>6 DEF Refreeze, Typed, market
    <2> QED BY <1>7, <2>6, <2>7 DEF Refreeze
<1>8. ASSUME EndRecalculate PROVE IInv'
    <2>1. /\ stack # <<>> /\ Top.op = "recalculate" /\ Top.failed \in BOOLEAN
        BY <1>0, <1>8, RecalculationFrame DEF EndRecalculate
    <2>2. Sound(Tail(stack), deferring, pending, frozen)
        BY <2>1, SoundPop DEF Top
    <2>3. Typed'
        BY <1>8, <2>1 DEF EndRecalculate, Typed, market, updates
    <2> QED BY <1>8, <2>2, <2>3 DEF EndRecalculate, updates
<1>9. ASSUME Catch PROVE IInv'
    BY <1>9 DEF Catch, Typed, market, updates
<1> QED BY <1>1, <1>2, <1>3, <1>4, <1>5, <1>6, <1>7, <1>8, <1>9 DEF Step

LEMMA IInvStep == IInv /\ [Next]_vars => IInv'
<1>1. IInv /\ UNCHANGED vars => IInv'
    BY DEF vars, IInv, Typed
<1> QED BY <1>1, ClientStep, CallStep DEF Next

LEMMA IInvHolds == Spec => []IInv
BY IInvInit, IInvStep, PTL DEF Spec

-----------------------------------------------------------------------------
\* Every state is well formed: each frame of the stack has what its kind needs,
\* and results are functions of the inputs they were read from.
THEOREM TypeInvariance == Spec => []TypeOK
BY IInvHolds, IInvType, PTL

\* No deferred notification outlives enableUpdates(), whichever observers throw
\* (observable.cpp:37-53), in any graph.
THEOREM NothingPending == Spec => []NothingPendingWhenEnabled
<1>1. IInv => NothingPendingWhenEnabled
    BY DEF IInv, Sound, Flushing, NothingPendingWhenEnabled, AtRest
<1> QED BY <1>1, IInvHolds, PTL

\* A frozen object keeps its result through every call but recalculate()
\* (lazyobject.hpp:61-65): it is neither calculated nor reached by a calculation
\* of another object, also when calls nest and fail.
THEOREM FrozenKept == Spec => FrozenResultKept
<1> DEFINE Kept == \A l \in Lazies : frozen[l] /\ frozen'[l] => result'[l] = result[l]
<1>1. ASSUME IInv, [Next]_vars PROVE [Kept]_vars
    <2> SUFFICES ASSUME NEW l \in Lazies, frozen[l], result'[l] # result[l]
                 PROVE  FALSE
        OBVIOUS
    <2>1. StoreResult
        BY <1>1 DEF Next, Client, Step, vars, market, SetValue, LinkTo, Calculate, Start,
                    Recalculate, Freeze, Unfreeze, DeferUpdates, EnableUpdates,
                    PerformCalculations, ReadInput, DescendInto, FailOn,
                    AbandonCalculation, CallUpdate, UpdateLazy, UpdateLink, UpdateEager,
                    NoteFailure, EndLoop, Refreeze, EndRecalculate, Catch
    <2>2. /\ stack # <<>> /\ Top.op = "calculate"
          /\ Top = stack[1] /\ 1 \in 1..Len(stack)
        BY <1>1, <2>1, PopFrame DEF IInv, Sound, Stacked, StoreResult, Running, Top
    <2>3. Top.of = l
        BY <1>1, <2>1 DEF StoreResult, IInv, Typed, Computed
    <2>4. ~frozen[l]
        BY <1>1, <2>2, <2>3 DEF IInv, Sound, Thawed
    <2> QED BY <2>4
<1> QED BY <1>1, IInvHolds, PTL DEF Spec, FrozenResultKept

(* ---- coherence of the caches ---- *)

(***************************************************************************)
(* CacheCoherent and EagerUpToDate for any graph of quotes, links, lazy    *)
(* and eager objects without cycles: whatever the order of notifications,  *)
(* wherever calculations fail, and whoever pulls what in the middle of a   *)
(* cascade.                                                                *)
(*                                                                         *)
(* During a call a cached result may be obsolete.  What is invariant is    *)
(* that an object with an obsolete result, or with an input that is being  *)
(* calculated, is still due for an update: it, or a link it reads, is left *)
(* in one of the loops on the stack, waits for recalculate() to notify, or *)
(* is deferred.  And what a calculation in progress has read stays what it *)
(* would read again, because calculations only ever descend, in an acyclic *)
(* graph, into what is not cached.                                         *)
(*                                                                         *)
(* The catch block lowers a lazy object whose calculation fails; an eager  *)
(* observer has none and keeps what it showed.  Such an observer is        *)
(* excused: an input of it cannot be read, or may fail.  An exception      *)
(* passes only through calculations that can fail, since each but the      *)
(* innermost waits for the one above it.                                   *)
(***************************************************************************)

\* inputs come before what reads them, targets before the links to them
Acyclic(rank) ==
    /\ rank \in [Quotes \cup Links \cup Computed -> Nat]
    /\ \A n \in Computed : \A i \in Inputs[n] : rank[i] < rank[n]
    /\ \A h \in Links : \A t \in Targets[h] \ {None} : rank[t] < rank[h]

\* the objects being calculated on stack s
CalcOf(f) == IF f.op = "calculate" THEN {f.of} ELSE {}
Calcs(s) == UNION {CalcOf(s[k]) : k \in 1..Len(s)}

\* the observers a frame has yet to call, or will put into a loop
Expects(f, tgt) ==
    IF f.op \in {"notify", "enable"} THEN f.todo
    ELSE IF f.op = "recalculate" /\ ~f.notified
      THEN {n \in Computed : f.of \in Inputs[n]} \cup {h \in Links : tgt[h] = f.of}
    ELSE {}
Waiting(s, tgt) == UNION {Expects(s[k], tgt) : k \in 1..Len(s)}

Deferred == IF deferring THEN pending ELSE {}
Due == Waiting(stack, target) \cup Deferred
Told(l) == l \in Due \/ \E h \in Inputs[l] \cap Links : h \in Due

\* input i holds its value ready and is not being calculated
Ready(i) == Deref(i) \in Lazies => Cached(Deref(i)) /\ Deref(i) \notin Calcs(stack)

Fresh(n) ==
    /\ result[n] = [i \in Inputs[n] |-> Reading(i)]
    /\ \A i \in Inputs[n] : Ready(i)

\* whatever the quotes and the links, reading one of R cannot fail
Unfailing(R) ==
    \A l \in R : \A i \in Inputs[l] :
        /\ i \in Quotes => Null \notin Values[i]
        /\ i \in Lazies => i \in R
        /\ i \in Links => Targets[i] \subseteq R \cup {q \in Quotes : Null \notin Values[q]}
Reliable == UNION {R \in SUBSET Lazies : Unfailing(R)}

\* x has a result that it would serve, or show
Holding(x) ==
    \/ x \in Lazies /\ calculated[x]
    \/ x \in Eagers /\ result[x] # None

\* the last calculation of an eager observer may have failed
Excused(x) ==
    x \in Eagers /\ \E i \in Inputs[x] :
        Unreadable(Deref(i)) \/ Deref(i) \in Lazies \ Reliable

Coherent ==
    \A x \in Computed : Holding(x) /\ x \notin Calcs(stack) =>
        Fresh(x) \/ Told(x) \/ Excused(x)

\* who was due still is, or is calculating
ToldKept ==
    \A x \in Computed : Holding(x)' /\ x \notin Calcs(stack)' /\ Told(x) => Told(x)'

\* calculations are innermost, and descend
Ranked(s, rank) ==
    \A k, m \in 1..Len(s) : k < m /\ s[m].op = "calculate" =>
        s[k].op = "calculate" /\ rank[s[k].of] < rank[s[m].of]

\* what calculations in progress have read is what they would read again
Gathered(f) ==
    f.op = "calculate" =>
        \A i \in Inputs[f.of] \ f.todo : f.got[i] = Reading(i) /\ Ready(i)
Fetched == \A k \in 1..Len(stack) : Gathered(stack[k])

\* a calculation below another one started it
Reads(n, j) == j \in Lazies /\ \E i \in Inputs[n] : Deref(i) = j
Chained ==
    \A k \in 1..(Len(stack) - 1) :
        stack[k + 1].op = "calculate" => Reads(stack[k + 1].of, stack[k].of)

\* a calculation that an exception passes through was bound to be able to fail
Blamed ==
    raising /\ Running("calculate") =>
        Top.of \notin Reliable /\ (Top.of \in Eagers => Excused(Top.of))

CInv(rank) ==
    /\ IInv /\ Coherent /\ Ranked(stack, rank)
    /\ ~raising => Fetched
    /\ Chained /\ Blamed

-----------------------------------------------------------------------------
\* Pushing and dropping a frame.
LEMMA PushSets ==
    ASSUME NEW s, IsStack(s), NEW f, NEW tgt
    PROVE  /\ Calcs(<<f>> \o s) = CalcOf(f) \cup Calcs(s)
           /\ Waiting(<<f>> \o s, tgt) = Expects(f, tgt) \cup Waiting(s, tgt)
<1> DEFINE t == <<f>> \o s
<1>1. /\ Len(t) = Len(s) + 1 /\ Len(s) \in Nat /\ t[1] = f
      /\ \A k \in 1..Len(s) : t[k + 1] = s[k]
    BY PushFrame
<1> HIDE DEF t
<1>2. \A k \in 1..Len(t) : k = 1 \/ (k - 1 \in 1..Len(s) /\ t[k] = s[k - 1])
    BY <1>1
<1>3. 1 \in 1..Len(t) /\ \A k \in 1..Len(s) : k + 1 \in 1..Len(t)
    BY <1>1
<1>4. Calcs(t) = CalcOf(f) \cup Calcs(s)
    BY <1>1, <1>2, <1>3 DEF Calcs
<1>5. Waiting(t, tgt) = Expects(f, tgt) \cup Waiting(s, tgt)
    BY <1>1, <1>2, <1>3 DEF Waiting
<1> QED BY <1>4, <1>5 DEF t

LEMMA PopSets ==
    ASSUME NEW s, IsStack(s), s # <<>>, NEW tgt
    PROVE  /\ Calcs(s) = CalcOf(Head(s)) \cup Calcs(Tail(s))
           /\ Waiting(s, tgt) = Expects(Head(s), tgt) \cup Waiting(Tail(s), tgt)
           /\ IsStack(Tail(s))
<1> DEFINE t == Tail(s)
<1>1. /\ IsStack(t) /\ Len(t) = Len(s) - 1 /\ Len(s) \in Nat \ {0}
      /\ \A k \in 1..Len(t) : t[k] = s[k + 1]
      /\ Head(s) = s[1]
    BY PopFrame
<1> HIDE DEF t
<1>2. \A k \in 1..Len(s) : k = 1 \/ (k - 1 \in 1..Len(t) /\ t[k - 1] = s[k])
    BY <1>1
<1>3. 1 \in 1..Len(s) /\ \A k \in 1..Len(t) : k + 1 \in 1..Len(s)
    BY <1>1
<1>4. Calcs(s) = CalcOf(s[1]) \cup Calcs(t)
    BY <1>1, <1>2, <1>3 DEF Calcs
<1>5. Waiting(s, tgt) = Expects(s[1], tgt) \cup Waiting(t, tgt)
    BY <1>1, <1>2, <1>3 DEF Waiting
<1> QED BY <1>1, <1>4, <1>5 DEF t

LEMMA EmptySets ==
    ASSUME NEW tgt
    PROVE  IsStack(<<>>) /\ Calcs(<<>>) = {} /\ Waiting(<<>>, tgt) = {}
BY DEF IsStack, Calcs, Waiting

LEMMA ShortSets ==
    ASSUME NEW f, NEW tgt
    PROVE  /\ IsStack(<<f>>)
           /\ Calcs(<<f>>) = CalcOf(f)
           /\ Waiting(<<f>>, tgt) = Expects(f, tgt)
<1>1. <<f>> \o <<>> = <<f>>
    BY ShortStacks
<1>2. IsStack(<<>>) /\ Calcs(<<>>) = {} /\ Waiting(<<>>, tgt) = {}
    BY EmptySets
<1>3. IsStack(<<f>> \o <<>>)
    BY <1>2, PushFrame
<1>4. /\ Calcs(<<f>> \o <<>>) = CalcOf(f) \cup Calcs(<<>>)
      /\ Waiting(<<f>> \o <<>>, tgt) = Expects(f, tgt) \cup Waiting(<<>>, tgt)
    BY <1>2, PushSets
<1> QED BY <1>1, <1>2, <1>3, <1>4

\* When no calculation is in progress.
LEMMA NoCalculation ==
    ASSUME NEW s, NEW rank, Calcs(s) = {}
    PROVE  Ranked(s, rank) /\ \A k \in 1..Len(s) : s[k].op # "calculate"
<1>1. \A k \in 1..Len(s) : s[k].op # "calculate"
    BY DEF Calcs, CalcOf
<1> QED BY <1>1 DEF Ranked

LEMMA CalculationsInnermost ==
    ASSUME NEW s, NEW rank, IsStack(s), Ranked(s, rank),
           s # <<>>, Head(s).op # "calculate"
    PROVE  Calcs(s) = {}
<1>1. Len(s) \in Nat \ {0} /\ Head(s) = s[1]
    BY PopFrame
<1>2. ASSUME NEW k \in 1..Len(s) PROVE s[k].op # "calculate"
    <2>1. CASE k = 1
        BY <1>1, <2>1
    <2>2. CASE 1 < k
        BY <1>1, <2>2 DEF Ranked
    <2> QED BY <1>1, <2>1, <2>2
<1> QED BY <1>2 DEF Calcs, CalcOf

\* A calculation starts below the rank of the one in progress.
LEMMA RankedPush ==
    ASSUME NEW s, NEW rank, NEW f, IsStack(s), Ranked(s, rank),
           f.op = "calculate",
           \A k \in 1..Len(s) : s[k].op = "calculate" => rank[f.of] < rank[s[k].of]
    PROVE  Ranked(<<f>> \o s, rank)
<1> DEFINE t == <<f>> \o s
<1>1. /\ Len(t) = Len(s) + 1 /\ Len(s) \in Nat /\ t[1] = f
      /\ \A k \in 1..Len(s) : t[k + 1] = s[k]
    BY PushFrame
<1> HIDE DEF t
<1>2. \A k \in 1..Len(t) : k = 1 \/ (k - 1 \in 1..Len(s) /\ t[k] = s[k - 1])
    BY <1>1
<1>3. ASSUME NEW k \in 1..Len(t), NEW m \in 1..Len(t), k < m, t[m].op = "calculate"
      PROVE  t[k].op = "calculate" /\ rank[t[k].of] < rank[t[m].of]
    <2>1. m - 1 \in 1..Len(s) /\ t[m] = s[m - 1]
        BY <1>1, <1>2, <1>3
    <2>2. CASE k = 1
        BY <1>1, <1>3, <2>1, <2>2
    <2>3. CASE k # 1
        <3>1. k - 1 \in 1..Len(s) /\ t[k] = s[k - 1] /\ k - 1 < m - 1
            BY <1>1, <1>2, <1>3, <2>3
        <3> QED BY <1>3, <2>1, <3>1 DEF Ranked
    <2> QED BY <2>2, <2>3
<1> QED BY <1>3 DEF Ranked, t

LEMMA RankedPop ==
    ASSUME NEW s, NEW rank, IsStack(s), s # <<>>, Ranked(s, rank)
    PROVE  Ranked(Tail(s), rank)
<1> DEFINE t == Tail(s)
<1>1. /\ Len(t) = Len(s) - 1 /\ Len(s) \in Nat \ {0}
      /\ \A k \in 1..Len(t) : t[k] = s[k + 1]
    BY PopFrame
<1> HIDE DEF t
<1>2. ASSUME NEW k \in 1..Len(t), NEW m \in 1..Len(t), k < m, t[m].op = "calculate"
      PROVE  t[k].op = "calculate" /\ rank[t[k].of] < rank[t[m].of]
    <2>1. k + 1 \in 1..Len(s) /\ m + 1 \in 1..Len(s) /\ k + 1 < m + 1
        BY <1>1, <1>2
    <2> QED BY <1>1, <1>2, <2>1 DEF Ranked
<1> QED BY <1>2 DEF Ranked, t

-----------------------------------------------------------------------------
\* What an input leads to.
LEMMA Leads ==
    ASSUME Typed, NEW n \in Computed, NEW i \in Inputs[n]
    PROVE  /\ Deref(i) \in Quotes \cup Lazies \cup {None}
           /\ i \in Quotes \cup Links \cup Lazies
BY TopologyAssumption DEF Deref, Typed

\* Below a reader are its inputs.
LEMMA Below ==
    ASSUME Typed, NEW rank, Acyclic(rank), NEW n \in Computed, NEW i \in Inputs[n],
           Deref(i) \in Lazies
    PROVE  /\ rank[Deref(i)] \in Nat /\ rank[n] \in Nat
           /\ rank[Deref(i)] < rank[n]
<1>1. i \in Quotes \cup Links \cup Lazies
    BY Leads
<1>2. rank[i] \in Nat /\ rank[n] \in Nat /\ rank[Deref(i)] \in Nat /\ rank[i] < rank[n]
    BY <1>1 DEF Acyclic, Computed
<1>3. CASE i \in Links
    <2>1. target[i] \in Targets[i] \ {None} /\ Deref(i) = target[i]
        BY <1>3, TopologyAssumption DEF Typed, Deref
    <2>2. rank[Deref(i)] < rank[i]
        BY <1>3, <2>1 DEF Acyclic
    <2> QED BY <1>2, <2>2
<1>4. CASE i \notin Links
    BY <1>2, <1>4 DEF Deref
<1> QED BY <1>2, <1>3, <1>4

\* An object that reads n, directly or through a link, is told by n's observers.
LEMMA ReadersTold ==
    ASSUME NEW x \in Computed, NEW i \in Inputs[x], NEW n, n = Deref(i),
           ObserversOf(n) \subseteq Due', Typed
    PROVE  Told(x)'
<1>1. i \in Quotes \cup Links \cup Lazies /\ x \in Computed
    BY Leads DEF Computed
<1>2. CASE i \in Links
    BY <1>2 DEF Deref, ObserversOf, Told
<1>3. CASE i \notin Links
    BY <1>1, <1>3 DEF Deref, ObserversOf, Told
<1> QED BY <1>2, <1>3

\* Nobody who was due is forgotten: an observer leaves the loops by being
\* lowered or by calculating, and a link by passing the call on.
LEMMA PassedOn ==
    ASSUME \A m \in Due : \/ m \in Due' \/ m \in Eagers \cap Calcs(stack')
                          \/ m \in Lazies /\ ~calculated'[m]
                          \/ m \in Links /\ {n \in Computed : m \in Inputs[n]} \subseteq Due'
    PROVE  ToldKept
<1> SUFFICES ASSUME NEW x \in Computed, Holding(x)', x \notin Calcs(stack'), Told(x)
             PROVE  Told(x)'
    BY DEF ToldKept
<1>1. x \in Computed /\ x \notin Links /\ (x \in Lazies => calculated'[x])
    BY TopologyAssumption DEF Computed, Holding
<1>2. CASE x \in Due
    BY <1>1, <1>2 DEF Told
<1>3. CASE x \notin Due
    <2>1. PICK h \in Inputs[x] \cap Links : h \in Due
        BY <1>3 DEF Told
    <2>2. h \notin Eagers /\ h \notin Lazies
        BY TopologyAssumption DEF Computed
    <2> QED BY <1>1, <2>1, <2>2 DEF Told
<1> QED BY <1>2, <1>3

\* A step that changes the caches of J and no quote or link leaves caches
\* coherent if those who read one of J afresh are due afterwards.
LEMMA CoherentKept ==
    ASSUME Typed, Coherent, UNCHANGED market, NEW J,
           \A j \in Lazies \ J : 
               /\ result'[j] = result[j]
               /\ Cached(j) /\ j \notin Calcs(stack) => Cached(j)' /\ j \notin Calcs(stack)',
           \A x \in Computed : Holding(x)' /\ x \notin Calcs(stack)' =>
               \/ Fresh(x)' \/ Told(x)' \/ Excused(x)'
               \/ Holding(x) /\ x \notin Calcs(stack) /\ result'[x] = result[x],
           ToldKept,
           \A x \in Computed : \A i \in Inputs[x] :
               Deref(i) \in J /\ Fresh(x) /\ Holding(x)' => Told(x)'
    PROVE  Coherent'
<1> SUFFICES ASSUME NEW x \in Computed, Holding(x)', x \notin Calcs(stack)',
                    Holding(x) /\ x \notin Calcs(stack) /\ result'[x] = result[x],
                    ~Told(x)', ~Excused(x)'
             PROVE  Fresh(x)'
    BY DEF Coherent
<1>1. Fresh(x)
    <2>1. Excused(x) = Excused(x)'
        BY DEF Excused, Unreadable, Deref, market
    <2> QED BY <2>1 DEF Coherent, ToldKept
<1>2. x \in Computed
    OBVIOUS
<1>3. ASSUME NEW i \in Inputs[x] PROVE Reading(i)' = Reading(i) /\ Ready(i)'
    <2>1. Deref(i)' = Deref(i) /\ Deref(i) \notin J /\ Deref(i) \in Quotes \cup Lazies \cup {None}
        BY <1>1, <1>2, Leads DEF market, Deref
    <2>2. Ready(i)
        BY <1>1 DEF Fresh
    <2>3. Ready(i)'
        BY <2>1, <2>2 DEF Ready, Cached
    <2>4. Reading(i)' = Reading(i)
        BY <2>1 DEF Reading, Unreadable, market
    <2> QED BY <2>3, <2>4
<1>4. result[x] = [i \in Inputs[x] |-> Reading(i)']
    BY <1>1, <1>3 DEF Fresh
<1> QED BY <1>3, <1>4 DEF Fresh

\* A step that changes no quote, link or cache, and forgets nobody.
LEMMA CoherentQuiet ==
    ASSUME Typed, Coherent, UNCHANGED <<quote, target, calculated, frozen, result>>,
           \A l \in Lazies : l \in Calcs(stack') => l \in Calcs(stack),
           Calcs(stack) \subseteq Calcs(stack'),
           ToldKept
    PROVE  Coherent'
<1> DEFINE J == {}
<1>1. UNCHANGED market
    BY DEF market
<1>2. \A j \in Lazies \ J :
         /\ result'[j] = result[j]
         /\ Cached(j) /\ j \notin Calcs(stack) => Cached(j)' /\ j \notin Calcs(stack)'
    BY DEF Cached
<1>3. \A x \in Computed : Holding(x)' /\ x \notin Calcs(stack)' =>
         \/ Fresh(x)' \/ Told(x)' \/ Excused(x)'
         \/ Holding(x) /\ x \notin Calcs(stack) /\ result'[x] = result[x]
    BY DEF Holding
<1>4. \A x \in Computed : \A i \in Inputs[x] :
         Deref(i) \in J /\ Fresh(x) /\ Holding(x)' => Told(x)'
    OBVIOUS
<1> HIDE DEF J
<1> QED BY <1>1, <1>2, <1>3, <1>4, CoherentKept

\* What a notification makes due.
LEMMA NotifyDue ==
    ASSUME NEW n, NEW under, IsStack(under), Notify(n, under), UNCHANGED deferring
    PROVE  /\ Due' = Waiting(under, target') \cup Deferred \cup ObserversOf(n)
           /\ Calcs(stack') = Calcs(under)
<1>1. CASE deferring
    BY <1>1 DEF Notify, Due, Deferred
<1>2. CASE ~deferring /\ ObserversOf(n) = {}
    BY <1>2 DEF Notify, Due, Deferred
<1>3. CASE ~deferring /\ ObserversOf(n) # {}
    <2> DEFINE f == NotifyFrame(n)
    <2>1. Expects(f, target') = ObserversOf(n) /\ CalcOf(f) = {}
        BY DEF NotifyFrame, Expects, CalcOf
    <2>2. stack' = <<f>> \o under /\ pending' = pending
        BY <1>3 DEF Notify
    <2> HIDE DEF f
    <2>3. /\ Calcs(<<f>> \o under) = Calcs(under)
          /\ Waiting(<<f>> \o under, target') = ObserversOf(n) \cup Waiting(under, target')
        BY <2>1, PushSets
    <2> QED BY <1>3, <2>2, <2>3 DEF Due, Deferred
<1> QED BY <1>1, <1>2, <1>3

\* Nothing is being calculated after the step.
LEMMA Quiescent ==
    ASSUME NEW rank, Calcs(stack') = {}
    PROVE  Ranked(stack', rank) /\ Fetched'
BY NoCalculation DEF Fetched, Gathered

-----------------------------------------------------------------------------
\* The calls of clients.
LEMMA ClientCoherent ==
    ASSUME NEW rank, CInv(rank), Client, stack = <<>>
    PROVE  Coherent' /\ Ranked(stack', rank) /\ Fetched'
<1>0. /\ Typed /\ Coherent /\ IsStack(stack) /\ Calcs(stack) = {}
      /\ \A tgt : Waiting(stack, tgt) = {}
      /\ Due = Deferred
    BY EmptySets DEF CInv, IInv, Due
<1>1. ASSUME NEW q \in Quotes, NEW v \in Values[q], SetValue(q, v)
      PROVE  Coherent' /\ Calcs(stack') = {}
    <2>1. Due' = Due \cup ObserversOf(q) /\ Calcs(stack') = {}
        BY <1>0, <1>1, NotifyDue, EmptySets DEF SetValue
    <2>2. ToldKept
        BY <2>1, PassedOn
    <2>3. ASSUME NEW x \in Computed, Holding(x), Fresh(x) \/ Excused(x), ~Told(x)'
          PROVE  Fresh(x)' \/ Excused(x)'
        <3>1. ASSUME NEW i \in Inputs[x]
              PROVE  /\ Deref(i)' = Deref(i) /\ Reading(i)' = Reading(i)
                     /\ Unreadable(Deref(i))' = Unreadable(Deref(i))
                     /\ Ready(i) => Ready(i)'
            <4>1. Deref(i) # q
                BY <1>0, <2>1, <2>3, ReadersTold
            <4>2. Deref(i)' = Deref(i) /\ \A p \in Quotes \ {q} : quote'[p] = quote[p]
                BY <1>1, <1>0 DEF SetValue, Deref, Typed
            <4>3. Ready(i) => Ready(i)'
                BY <1>1, <2>1, <4>2 DEF Ready, SetValue, Cached
            <4>4. Reading(i)' = Reading(i) /\ Unreadable(Deref(i))' = Unreadable(Deref(i))
                BY <1>1, <4>1, <4>2 DEF Reading, Unreadable, SetValue
            <4> QED BY <4>2, <4>3, <4>4
        <3>2. CASE Excused(x)
            BY <3>1, <3>2 DEF Excused
        <3>3. CASE Fresh(x)
            <4>1. result[x] = [i \in Inputs[x] |-> Reading(i)']
                BY <3>1, <3>3 DEF Fresh
            <4> QED BY <1>1, <3>1, <3>3, <4>1 DEF Fresh, SetValue
        <3> QED BY <2>3, <3>2, <3>3
    <2>4. Coherent'
        <3>1. ASSUME NEW x \in Computed, Holding(x)', ~Told(x)', x \notin Calcs(stack')
              PROVE  Fresh(x)' \/ Excused(x)'
            <4>1. Holding(x)
                BY <1>1, <3>1 DEF Holding, SetValue
            <4>2. Fresh(x) \/ Excused(x)
                BY <1>0, <2>2, <3>1, <4>1 DEF Coherent, ToldKept
            <4> QED BY <2>3, <3>1, <4>1, <4>2
        <3> QED BY <3>1 DEF Coherent
    <2> QED BY <2>1, <2>4
<1>2. ASSUME NEW h \in Links, NEW t \in Targets[h], LinkTo(h, t)
      PROVE  Coherent' /\ Calcs(stack') = {}
    <2>1. /\ Due \ {h} \subseteq Due' /\ ObserversOf(h) \subseteq Due'
          /\ Calcs(stack') = {}
        <3>1. CASE deferring
            <4>1. /\ stack' = <<>> /\ deferring'
                  /\ pending \ {h} \subseteq pending' /\ ObserversOf(h) \subseteq pending'
                BY <1>2, <3>1 DEF LinkTo
            <4> QED BY <1>0, <3>1, <4>1, EmptySets DEF Due, Deferred
        <3>2. CASE ~deferring
            <4>1. Notify(h, <<>>) /\ UNCHANGED deferring
                BY <1>2, <3>2 DEF LinkTo
            <4> QED BY <1>0, <4>1, NotifyDue, EmptySets
        <3> QED BY <3>1, <3>2
    <2>2. {n \in Computed : h \in Inputs[n]} \subseteq Due'
        BY <2>1 DEF ObserversOf
    <2>3. ToldKept
        <3>1. \A m \in Due : m \in Due' \/ m = h
            BY <2>1
        <3> QED BY <2>2, <3>1, PassedOn
    <2>4. ASSUME NEW x \in Computed, Holding(x), Fresh(x) \/ Excused(x), ~Told(x)'
          PROVE  Fresh(x)' \/ Excused(x)'
        <3>1. ASSUME NEW i \in Inputs[x]
              PROVE  /\ Deref(i)' = Deref(i) /\ Reading(i)' = Reading(i)
                     /\ Unreadable(Deref(i))' = Unreadable(Deref(i))
                     /\ Ready(i) => Ready(i)'
            <4>1. i # h
                BY <2>2, <2>4 DEF Told, Computed
            <4>2. Deref(i)' = Deref(i)
                BY <1>2, <1>0, <4>1 DEF LinkTo, Deref, Typed
            <4>3. Ready(i) => Ready(i)'
                BY <1>2, <2>1, <4>2 DEF Ready, LinkTo, Cached
            <4>4. Reading(i)' = Reading(i) /\ Unreadable(Deref(i))' = Unreadable(Deref(i))
                BY <1>2, <4>2 DEF Reading, Unreadable, LinkTo
            <4> QED BY <4>2, <4>3, <4>4
        <3>2. CASE Excused(x)
            BY <3>1, <3>2 DEF Excused
        <3>3. CASE Fresh(x)
            <4>1. result[x] = [i \in Inputs[x] |-> Reading(i)']
                BY <3>1, <3>3 DEF Fresh
            <4> QED BY <1>2, <3>1, <3>3, <4>1 DEF Fresh, LinkTo
        <3> QED BY <2>4, <3>2, <3>3
    <2>5. Coherent'
        <3>1. ASSUME NEW x \in Computed, Holding(x)', ~Told(x)', x \notin Calcs(stack')
              PROVE  Fresh(x)' \/ Excused(x)'
            <4>1. Holding(x)
                BY <1>2, <3>1 DEF Holding, LinkTo
            <4>2. Fresh(x) \/ Excused(x)
                BY <1>0, <2>3, <3>1, <4>1 DEF Coherent, ToldKept
            <4> QED BY <2>4, <3>1, <4>1, <4>2
        <3> QED BY <3>1 DEF Coherent
    <2> QED BY <2>1, <2>5
<1>3. ASSUME NEW l \in Lazies, Calculate(l)
      PROVE  Coherent' /\ Ranked(stack', rank) /\ Fetched'
    <2> DEFINE f == CalculateFrame(l)
    <2>1. stack' = <<f>> /\ ~Cached(l) /\ calculated' = [calculated EXCEPT ![l] = TRUE]
        BY <1>3 DEF Calculate
    <2>2. Due' = Due /\ Calcs(stack') = {l}
        <3>1. CalcOf(f) = {l} /\ Expects(f, target') = {}
            BY DEF CalcOf, CalculateFrame, Expects
        <3>2. Calcs(<<f>>) = {l} /\ Waiting(<<f>>, target') = {}
            <4> HIDE DEF f
            <4> QED BY <3>1, ShortSets
        <3> QED BY <1>0, <1>3, <2>1, <3>2 DEF Due, Deferred, Calculate, updates
    <2>3. Coherent'
        <3>1. ToldKept
            BY <2>2, PassedOn
        <3>2. \A j \in Lazies \ {l} :
                 /\ result'[j] = result[j] /\ calculated'[j] = calculated[j]
                 /\ Cached(j) /\ j \notin Calcs(stack) => Cached(j)' /\ j \notin Calcs(stack)'
            BY <1>0, <1>3, <2>1, <2>2 DEF Calculate, Cached, Typed
        <3>3. \A x \in Computed : \A i \in Inputs[x] : Deref(i) = l => ~Fresh(x)
            BY <2>1 DEF Fresh, Ready
        <3>4. \A x \in Computed : Holding(x)' /\ x \notin Calcs(stack)' =>
                 Holding(x) /\ x \notin Calcs(stack) /\ result'[x] = result[x]
            BY <1>0, <1>3, <2>2, <3>2 DEF Calculate, Holding
        <3>5. UNCHANGED market
            BY <1>3 DEF Calculate
        <3>6. \A x \in Computed : \A i \in Inputs[x] :
                 Deref(i) \in {l} /\ Fresh(x) /\ Holding(x)' => Told(x)'
            BY <3>3
        <3> QED BY <1>0, <3>1, <3>2, <3>4, <3>5, <3>6, CoherentKept
    <2>4. Ranked(stack', rank)
        BY <2>1, <1>0, EmptySets, RankedPush, ShortStacks, NoCalculation DEF CalculateFrame
    <2>5. Fetched'
        BY <2>1 DEF Fetched, Gathered, CalculateFrame
    <2> QED BY <2>3, <2>4, <2>5
<1>4. ASSUME NEW e \in Eagers, Start(e)
      PROVE  Coherent' /\ Ranked(stack', rank) /\ Fetched'
    <2> DEFINE f == CalculateFrame(e)
    <2>1. stack' = <<f>> /\ e \notin Lazies
        BY <1>4, TopologyAssumption DEF Start
    <2>2. Due' = Due /\ Calcs(stack') = {e}
        <3>1. CalcOf(f) = {e} /\ Expects(f, target') = {}
            BY DEF CalcOf, CalculateFrame, Expects
        <3>2. Calcs(<<f>>) = {e} /\ Waiting(<<f>>, target') = {}
            <4> HIDE DEF f
            <4> QED BY <3>1, ShortSets
        <3> QED BY <1>0, <1>4, <2>1, <3>2 DEF Due, Deferred, Start, updates
    <2>3. Coherent'
        <3>1. ToldKept
            BY <2>2, PassedOn
        <3>2. \A j \in Lazies \ {} :
                 /\ result'[j] = result[j] /\ calculated'[j] = calculated[j]
                 /\ Cached(j) /\ j \notin Calcs(stack) => Cached(j)' /\ j \notin Calcs(stack)'
            BY <1>0, <1>4, <2>1, <2>2 DEF Start, Cached
        <3>3. \A x \in Computed : Holding(x)' /\ x \notin Calcs(stack)' =>
                 Holding(x) /\ x \notin Calcs(stack) /\ result'[x] = result[x]
            BY <1>0, <1>4, <2>2 DEF Start, Holding
        <3>4. UNCHANGED market
            BY <1>4 DEF Start
        <3> QED BY <1>0, <3>1, <3>2, <3>3, <3>4, CoherentKept
    <2>4. Ranked(stack', rank)
        BY <2>1, <1>0, EmptySets, RankedPush, ShortStacks, NoCalculation DEF CalculateFrame
    <2>5. Fetched'
        BY <2>1 DEF Fetched, Gathered, CalculateFrame
    <2> QED BY <2>3, <2>4, <2>5
<1>5. ASSUME NEW l \in Lazies, Recalculate(l)
      PROVE  Coherent' /\ Ranked(stack', rank) /\ Fetched'
    <2> DEFINE f == CalculateFrame(l)
               r == RecalculateFrame(l)
    <2>1. /\ stack' = <<f, r>> /\ calculated' = [calculated EXCEPT ![l] = TRUE]
          /\ frozen' = [frozen EXCEPT ![l] = FALSE]
        BY <1>5 DEF Recalculate
    <2>2. /\ Due' = Due \cup ObserversOf(l) /\ Calcs(stack') = {l}
          /\ Ranked(stack', rank)
        <3>1. /\ CalcOf(f) = {l} /\ Expects(f, target') = {}
              /\ CalcOf(r) = {} /\ f.op = "calculate"
            BY DEF CalcOf, CalculateFrame, RecalculateFrame, Expects
        <3>2. Expects(r, target') = ObserversOf(l)
            BY <1>5 DEF RecalculateFrame, Expects, ObserversOf, Recalculate, market
        <3> HIDE DEF f, r
        <3>3. Calcs(<<r>>) = {} /\ IsStack(<<r>>)
            BY <3>1, ShortSets
        <3>4. /\ Calcs(<<f>> \o <<r>>) = {l}
              /\ Waiting(<<f>> \o <<r>>, target') = ObserversOf(l)
            <4>1. Waiting(<<r>>, target') = ObserversOf(l)
                BY <3>2, ShortSets
            <4>2. \A tgt : Waiting(<<f>> \o <<r>>, tgt) = Expects(f, tgt) \cup Waiting(<<r>>, tgt)
                BY <3>3, PushSets
            <4>3. Calcs(<<f>> \o <<r>>) = CalcOf(f) \cup Calcs(<<r>>)
                BY <3>3, PushSets
            <4>4. Calcs(<<f>> \o <<r>>) = {l}
                BY <3>1, <3>3, <4>3
            <4>5. Waiting(<<f>> \o <<r>>, target') = ObserversOf(l)
                BY <3>1, <4>1, <4>2
            <4> QED BY <4>4, <4>5
        <3>5. Ranked(<<f>> \o <<r>>, rank)
            BY <3>1, <3>3, NoCalculation, RankedPush
        <3>6. <<f>> \o <<r>> = <<f, r>>
            BY ShortStacks
        <3> QED BY <1>0, <1>5, <2>1, <3>4, <3>5, <3>6 DEF Due, Deferred, Recalculate, updates
    <2>3. Coherent'
        <3>1. ToldKept
            BY <2>2, PassedOn
        <3>2. \A j \in Lazies \ {l} :
                 /\ result'[j] = result[j] /\ calculated'[j] = calculated[j]
                 /\ Cached(j) /\ j \notin Calcs(stack) => Cached(j)' /\ j \notin Calcs(stack)'
            BY <1>0, <1>5, <2>1, <2>2 DEF Recalculate, Cached, Typed
        <3>3. \A x \in Computed : \A i \in Inputs[x] : Deref(i) = l => Told(x)'
            BY <1>0, <2>2, ReadersTold
        <3>4. \A x \in Computed : Holding(x)' /\ x \notin Calcs(stack)' =>
                 Holding(x) /\ x \notin Calcs(stack) /\ result'[x] = result[x]
            BY <1>0, <1>5, <2>2, <3>2 DEF Recalculate, Holding
        <3>5. UNCHANGED market
            BY <1>5 DEF Recalculate
        <3>6. \A x \in Computed : \A i \in Inputs[x] :
                 Deref(i) \in {l} /\ Fresh(x) /\ Holding(x)' => Told(x)'
            BY <3>3
        <3> QED BY <1>0, <3>1, <3>2, <3>4, <3>5, <3>6, CoherentKept
    <2>4. Fetched'
        BY <2>1 DEF Fetched, Gathered, CalculateFrame, RecalculateFrame
    <2> QED BY <2>2, <2>3, <2>4
<1>6. ASSUME NEW l \in Lazies, Freeze(l) PROVE Coherent' /\ Calcs(stack') = {}
    <2>1. Due' = Due /\ stack' = stack
        BY <1>6 DEF Freeze, Due, Deferred, market, updates
    <2>2. ToldKept
        BY <2>1, PassedOn
    <2>3. \A j \in Lazies \ {} :
             /\ result'[j] = result[j] /\ calculated'[j] = calculated[j]
             /\ Cached(j) /\ j \notin Calcs(stack) => Cached(j)' /\ j \notin Calcs(stack)'
        BY <1>0, <1>6, <2>1 DEF Freeze, Cached, Typed
    <2>4. Coherent'
        <3>1. \A x \in Computed : Holding(x)' /\ x \notin Calcs(stack)' =>
                 Holding(x) /\ x \notin Calcs(stack) /\ result'[x] = result[x]
            BY <1>0, <1>6, <2>1 DEF Freeze, Holding
        <3>2. UNCHANGED market
            BY <1>6 DEF Freeze
        <3> QED BY <1>0, <2>2, <2>3, <3>1, <3>2, CoherentKept
    <2> QED BY <1>0, <2>1, <2>4
<1>7. ASSUME NEW l \in Lazies, Unfreeze(l) PROVE Coherent' /\ Calcs(stack') = {}
    <2>1. Due' = Due \cup ObserversOf(l) /\ Calcs(stack') = {}
        BY <1>0, <1>7, NotifyDue, EmptySets DEF Unfreeze
    <2>2. ToldKept
        BY <2>1, PassedOn
    <2>3. \A j \in Lazies \ {l} :
             /\ result'[j] = result[j] /\ calculated'[j] = calculated[j]
             /\ Cached(j) /\ j \notin Calcs(stack) => Cached(j)' /\ j \notin Calcs(stack)'
        BY <1>0, <1>7, <2>1 DEF Unfreeze, Cached, Typed
    <2>4. \A x \in Computed : \A i \in Inputs[x] : Deref(i) = l => Told(x)'
        BY <1>0, <2>1, ReadersTold
    <2>5. UNCHANGED <<market, result, calculated>>
        BY <1>7 DEF Unfreeze
    <2>6. Coherent'
        <3>1. \A x \in Computed : Holding(x)' /\ x \notin Calcs(stack)' =>
                 Holding(x) /\ x \notin Calcs(stack) /\ result'[x] = result[x]
            BY <1>0, <2>5 DEF Holding
        <3>2. \A x \in Computed : \A i \in Inputs[x] :
                 Deref(i) \in {l} /\ Fresh(x) /\ Holding(x)' => Told(x)'
            BY <2>4
        <3> QED BY <1>0, <2>2, <2>3, <2>5, <3>1, <3>2, CoherentKept
    <2> QED BY <2>1, <2>6
<1>8. ASSUME DeferUpdates \/ EnableUpdates PROVE Coherent' /\ Calcs(stack') = {}
    <2>1. Due \subseteq Due' /\ Calcs(stack') = {}
        <3>1. CASE DeferUpdates
            BY <1>0, <3>1 DEF DeferUpdates, Due, Deferred, market
        <3>2. CASE EnableUpdates /\ pending = {}
            BY <1>0, <3>2, EmptySets DEF EnableUpdates, Due, Deferred
        <3>3. CASE EnableUpdates /\ pending # {}
            <4> DEFINE f == EnableFrame(pending)
            <4>1. CalcOf(f) = {} /\ Expects(f, target') = pending
                BY DEF CalcOf, EnableFrame, Expects
            <4>2. Calcs(<<f>>) = {} /\ Waiting(<<f>>, target') = pending
                <5> HIDE DEF f
                <5> QED BY <4>1, ShortSets
            <4> QED BY <1>0, <3>3, <4>2 DEF EnableUpdates, Due, Deferred
        <3> QED BY <1>8, <3>1, <3>2, <3>3
    <2>2. ToldKept
        BY <2>1, PassedOn
    <2>3. UNCHANGED <<market, calculated, frozen, result>>
        BY <1>8 DEF DeferUpdates, EnableUpdates
    <2>4. Coherent'
        BY <1>0, <2>1, <2>2, <2>3, CoherentQuiet DEF market
    <2> QED BY <2>1, <2>4
<1> QED BY <1>1, <1>2, <1>3, <1>4, <1>5, <1>6, <1>7, <1>8, Quiescent DEF Client

-----------------------------------------------------------------------------
\* The calculation at the top is below all others, and reads what is below it.
LEMMA TopOfCalculations ==
    ASSUME NEW rank, Acyclic(rank), CInv(rank), Running("calculate")
    PROVE  /\ stack # <<>> /\ IsStack(stack) /\ IsCalculation(Top) /\ Top = stack[1]
           /\ Len(stack) \in Nat \ {0} /\ 1 \in 1..Len(stack)
           /\ \A i \in Inputs[Top.of] : Deref(i) \in Lazies =>
                 /\ Deref(i) \notin Calcs(stack)
                 /\ \A k \in 1..Len(stack) : stack[k].op = "calculate" =>
                        rank[Deref(i)] < rank[stack[k].of]
<1>1. /\ stack # <<>> /\ IsStack(stack) /\ IsCalculation(Top) /\ Top = stack[1]
      /\ Len(stack) \in Nat \ {0} /\ 1 \in 1..Len(stack)
    <2>1. Stacked(stack) /\ IsStack(stack)
        BY DEF CInv, IInv, Sound, Stacked
    <2> QED BY <2>1, CalculationFrame, PopFrame DEF Top
<1>2. ASSUME NEW i \in Inputs[Top.of], Deref(i) \in Lazies
      PROVE  \A k \in 1..Len(stack) : stack[k].op = "calculate" =>
                 /\ rank[Deref(i)] < rank[stack[k].of] /\ Deref(i) # stack[k].of
    <2>1. /\ rank[Deref(i)] \in Nat /\ rank[Top.of] \in Nat
          /\ rank[Deref(i)] < rank[Top.of]
        BY <1>1, <1>2, Below DEF CInv, IInv, IsCalculation
    <2>2. SUFFICES ASSUME NEW k \in 1..Len(stack), stack[k].op = "calculate"
                   PROVE  rank[Deref(i)] < rank[stack[k].of] /\ Deref(i) # stack[k].of
        OBVIOUS
    <2>3. CASE k = 1
        BY <1>1, <2>1, <2>3
    <2>4. CASE k # 1
        <3>1. rank[Top.of] < rank[stack[k].of]
            BY <1>1, <2>2, <2>4 DEF CInv, Ranked
        <3>2. rank[stack[k].of] \in Nat
            <4>1. Shaped(stack[k])
                BY DEF CInv, IInv, Sound, Stacked
            <4>2. stack[k].of \in Computed
                BY <2>2, <4>1 DEF Shaped, Frames, IsCalculation
            <4> QED BY <4>2 DEF Acyclic
        <3> QED BY <2>1, <3>1, <3>2
    <2> QED BY <2>3, <2>4
<1>3. ASSUME NEW i \in Inputs[Top.of], Deref(i) \in Lazies PROVE Deref(i) \notin Calcs(stack)
    BY <1>2, <1>3 DEF Calcs, CalcOf
<1> QED BY <1>1, <1>2, <1>3

\* A calculation reads an input, starts another calculation, or fails.
LEMMA PerformCoherent ==
    ASSUME NEW rank, Acyclic(rank), CInv(rank), PerformCalculations
    PROVE  Coherent' /\ Ranked(stack', rank) /\ (~raising' => Fetched')
<1>0. /\ Typed /\ Coherent /\ Ranked(stack, rank) /\ Fetched
      /\ Running("calculate") /\ ~raising
    BY DEF CInv, IInv, PerformCalculations
<1>1. PICK i \in Top.todo : ReadInput(i) \/ DescendInto(i) \/ FailOn(i)
    BY DEF PerformCalculations
<1>2. /\ stack # <<>> /\ IsStack(stack) /\ IsCalculation(Top) /\ Top = stack[1]
      /\ Len(stack) \in Nat \ {0} /\ 1 \in 1..Len(stack)
      /\ i \in Inputs[Top.of] /\ Top.of \in Computed
    BY <1>0, TopOfCalculations DEF IsCalculation
<1> DEFINE j == Deref(i)
<1>3. CASE ReadInput(i)
    <2>1. PICK v : stack' = Got(i, v) /\ v = Reading(i) /\ Ready(i)
        <3>1. CASE j \in Quotes
            <4>1. j \notin Lazies
                BY <3>1, TopologyAssumption
            <4> QED BY <1>3, <3>1, <4>1 DEF ReadInput, Reading, Ready
        <3>2. CASE j \in Lazies
            <4>1. j \notin Quotes
                BY <3>2, TopologyAssumption
            <4>2. j \notin Calcs(stack)
                BY <1>0, <1>2, <3>2, TopOfCalculations
            <4> QED BY <1>3, <3>2, <4>1, <4>2 DEF ReadInput, Reading, Ready
        <3> QED BY <1>3, <3>1, <3>2 DEF ReadInput
    <2> DEFINE f == [Top EXCEPT !.todo = @ \ {i}, !.got[i] = v]
    <2>2. /\ f.op = "calculate" /\ f.of = Top.of /\ f.todo = Top.todo \ {i}
          /\ f.got = [Top.got EXCEPT ![i] = v]
        BY <1>2 DEF IsCalculation
    <2>3. stack' = <<f>> \o Tail(stack)
        BY <2>1 DEF Got
    <2>4. f.got[i] = v /\ \A n \in Inputs[Top.of] \ {i} : f.got[n] = Top.got[n]
        BY <1>2, <2>2 DEF IsCalculation
    <2> HIDE DEF f
    <2>5. /\ IsStack(Tail(stack))
          /\ \A k \in 1..Len(Tail(stack)) : Tail(stack)[k] = stack[k + 1]
          /\ Len(Tail(stack)) = Len(stack) - 1
        BY <1>2, PopFrame
    <2>6. /\ Len(stack') = Len(stack) /\ stack'[1] = f
          /\ \A k \in 2..Len(stack) : stack'[k] = stack[k]
        <3> DEFINE u == Tail(stack)
        <3>1. IsStack(u) /\ Len(u) = Len(stack) - 1 /\ \A k \in 1..Len(u) : u[k] = stack[k + 1]
            BY <2>5
        <3>2. stack' = <<f>> \o u
            BY <2>3
        <3> HIDE DEF u
        <3>3. /\ Len(stack') = Len(u) + 1 /\ stack'[1] = f
              /\ \A k \in 1..Len(u) : stack'[k + 1] = u[k]
            <4>1. /\ Len(<<f>> \o u) = Len(u) + 1 /\ (<<f>> \o u)[1] = f
                  /\ \A k \in 1..Len(u) : (<<f>> \o u)[k + 1] = u[k]
                BY <3>1, PushFrame
            <4> QED BY <3>2, <4>1
        <3>4. ASSUME NEW k \in 2..Len(stack) PROVE stack'[k] = stack[k]
            <4>1. k - 1 \in 1..Len(u) /\ (k - 1) + 1 = k
                BY <1>2, <3>1
            <4> QED BY <3>1, <3>3, <4>1
        <3> QED BY <1>2, <3>1, <3>3, <3>4
    <2>7. \A k \in 1..Len(stack) : k = 1 \/ k \in 2..Len(stack)
        BY <1>2
    <2>8. Ranked(stack', rank)
        BY <1>0, <1>2, <2>2, <2>6, <2>7 DEF Ranked, IsCalculation
    <2>9. Calcs(stack') = Calcs(stack) /\ Due' = Due
        <3>1. CalcOf(f) = CalcOf(Top) /\ \A tgt : Expects(f, tgt) = Expects(Top, tgt)
            BY <1>2, <2>2 DEF CalcOf, Expects, IsCalculation
        <3>2. /\ Calcs(stack) = CalcOf(Top) \cup Calcs(Tail(stack))
              /\ \A tgt : Waiting(stack, tgt) = Expects(Top, tgt) \cup Waiting(Tail(stack), tgt)
            BY <1>2, PopSets DEF Top
        <3>3. /\ Calcs(stack') = CalcOf(f) \cup Calcs(Tail(stack))
              /\ \A tgt : Waiting(stack', tgt) = Expects(f, tgt) \cup Waiting(Tail(stack), tgt)
            BY <2>3, <2>5, PushSets
        <3>4. target' = target /\ Deferred' = Deferred
            BY <1>3 DEF ReadInput, market, updates, Deferred
        <3> QED BY <3>1, <3>2, <3>3, <3>4 DEF Due
    <2>10. UNCHANGED <<market, calculated, frozen, result>>
        BY <1>3 DEF ReadInput
    <2>11. Coherent'
        <3>1. ToldKept
            BY <2>9, PassedOn
        <3> QED BY <1>0, <2>9, <2>10, <3>1, CoherentQuiet DEF market
    <2>12. ASSUME NEW n PROVE Reading(n)' = Reading(n) /\ (Ready(n) => Ready(n)')
        <3>1. Deref(n)' = Deref(n)
            BY <2>10 DEF Deref, market
        <3> QED BY <2>9, <2>10, <3>1 DEF Reading, Unreadable, Ready, Cached, market
    <2>13. Fetched'
        <3> SUFFICES ASSUME NEW k \in 1..Len(stack), stack'[k].op = "calculate",
                            NEW n \in Inputs[stack'[k].of] \ stack'[k].todo
                     PROVE  stack'[k].got[n] = Reading(n) /\ Ready(n)
            BY <2>6, <2>12 DEF Fetched, Gathered
        <3>1. CASE k = 1
            <4>1. n = i \/ n \in Inputs[Top.of] \ Top.todo
                BY <2>2, <2>6, <3>1
            <4>2. CASE n = i
                BY <2>1, <2>4, <2>6, <3>1, <4>2
            <4>3. CASE n # i
                BY <1>0, <1>2, <2>4, <2>6, <3>1, <4>1, <4>3 DEF Fetched, Gathered, IsCalculation
            <4> QED BY <4>2, <4>3
        <3>2. CASE k \in 2..Len(stack)
            BY <1>0, <2>6, <3>2 DEF Fetched, Gathered
        <3> QED BY <2>7, <3>1, <3>2
    <2> QED BY <2>8, <2>11, <2>13

<1>4. CASE DescendInto(i)
    <2> DEFINE f == CalculateFrame(j)
    <2>1. /\ j \in Lazies /\ ~Cached(j) /\ stack' = <<f>> \o stack
          /\ calculated' = [calculated EXCEPT ![j] = TRUE]
          /\ UNCHANGED <<market, frozen, result, deferring, pending, raising>>
        BY <1>4 DEF DescendInto, updates
    <2>2. /\ f.op = "calculate" /\ f.of = j /\ CalcOf(f) = {j}
          /\ \A tgt : Expects(f, tgt) = {}
          /\ f.todo = Inputs[j]
        BY DEF CalculateFrame, CalcOf, Expects
    <2> HIDE DEF f, j
    <2>3. Calcs(stack') = Calcs(stack) \cup {j} /\ Due' = Due
        <3>1. Calcs(stack') = CalcOf(f) \cup Calcs(stack)
            BY <1>2, <2>1, PushSets
        <3>2. \A tgt : Waiting(stack', tgt) = Expects(f, tgt) \cup Waiting(stack, tgt)
            BY <1>2, <2>1, PushSets
        <3>3. target' = target
            BY <2>1 DEF market
        <3> QED BY <2>1, <2>2, <3>1, <3>2, <3>3 DEF Due, Deferred
    <2>4. Coherent'
        <3>1. ToldKept
            BY <2>3, PassedOn
        <3>2. \A m \in Lazies \ {j} :
                 /\ result'[m] = result[m] /\ calculated'[m] = calculated[m]
                 /\ Cached(m) /\ m \notin Calcs(stack) => Cached(m)' /\ m \notin Calcs(stack)'
            BY <1>0, <2>1, <2>3 DEF Cached, Typed
        <3>3. \A x \in Computed : \A n \in Inputs[x] : Deref(n) = j => ~Fresh(x)
            BY <2>1 DEF Fresh, Ready
        <3>4. \A x \in Computed : Holding(x)' /\ x \notin Calcs(stack)' =>
                 Holding(x) /\ x \notin Calcs(stack) /\ result'[x] = result[x]
            BY <2>1, <2>3, <3>2 DEF Holding
        <3>5. \A x \in Computed : \A n \in Inputs[x] :
                 Deref(n) \in {j} /\ Fresh(x) /\ Holding(x)' => Told(x)'
            BY <3>3
        <3> QED BY <1>0, <2>1, <3>1, <3>2, <3>4, <3>5, CoherentKept
    <2>5. Ranked(stack', rank)
        <3>1. \A k \in 1..Len(stack) : stack[k].op = "calculate" => rank[f.of] < rank[stack[k].of]
            BY <1>0, <1>2, <2>1, <2>2, TopOfCalculations DEF j
        <3> QED BY <1>0, <1>2, <2>1, <2>2, <3>1, RankedPush
    <2>6. ASSUME NEW n, Ready(n) PROVE Reading(n)' = Reading(n) /\ Ready(n)'
        <3>1. Deref(n)' = Deref(n) /\ Deref(n) # j
            BY <2>1, <2>6 DEF Deref, market, Ready
        <3>2. Ready(n)'
            BY <1>0, <2>1, <2>3, <2>6, <3>1 DEF Ready, Cached, Typed
        <3>3. Reading(n)' = Reading(n)
            BY <2>1, <3>1 DEF Reading, Unreadable, market
        <3> QED BY <3>2, <3>3
    <2>7. Fetched'
        <3>1. /\ Len(stack') = Len(stack) + 1 /\ stack'[1] = f
              /\ \A k \in 1..Len(stack) : stack'[k + 1] = stack[k]
            BY <1>2, <2>1, PushFrame
        <3> SUFFICES ASSUME NEW k \in 1..Len(stack'), stack'[k].op = "calculate",
                            NEW n \in Inputs[stack'[k].of] \ stack'[k].todo
                     PROVE  stack'[k].got[n] = Reading(n) /\ Ready(n)
            BY <2>6 DEF Fetched, Gathered
        <3>2. k # 1
            BY <2>2, <3>1
        <3>3. k - 1 \in 1..Len(stack) /\ stack'[k] = stack[k - 1]
            BY <1>2, <3>1, <3>2
        <3> QED BY <1>0, <3>3 DEF Fetched, Gathered
    <2> QED BY <2>4, <2>5, <2>7
<1>5. CASE FailOn(i)
    <2>1. UNCHANGED <<market, calculated, frozen, result, deferring, pending, stack>> /\ raising'
        BY <1>5 DEF FailOn, updates
    <2>2. Due' = Due
        BY <2>1 DEF Due, Deferred, market
    <2>3. ToldKept
        BY <2>2, PassedOn
    <2>4. Coherent'
        BY <1>0, <2>1, <2>3, CoherentQuiet DEF market
    <2> QED BY <1>0, <2>1, <2>4
<1> QED BY <1>1, <1>3, <1>4, <1>5

\* A calculation ends, with a result or without.
LEMMA ReturnCoherent ==
    ASSUME NEW rank, Acyclic(rank), CInv(rank), NEW n, n = Top.of,
           StoreResult \/ AbandonCalculation
    PROVE  Coherent' /\ Ranked(stack', rank) /\ (~raising' => Fetched')
<1>0. /\ Typed /\ Coherent /\ Ranked(stack, rank) /\ (~raising => Fetched)
      /\ Running("calculate")
    BY DEF CInv, IInv, StoreResult, AbandonCalculation
<1>1. /\ stack # <<>> /\ IsStack(stack) /\ IsCalculation(Top) /\ Top = stack[1]
      /\ Len(stack) \in Nat \ {0} /\ 1 \in 1..Len(stack)
      /\ Top.op = "calculate"
    BY <1>0, TopOfCalculations DEF Running
<1>2. /\ stack' = Tail(stack)
      /\ UNCHANGED <<quote, target, frozen, deferring, pending, raising>>
    BY DEF StoreResult, AbandonCalculation, market, updates
<1>3. /\ Calcs(stack) = {n} \cup Calcs(stack') /\ Due' = Due
    <2>1. /\ Calcs(stack) = CalcOf(Top) \cup Calcs(stack')
          /\ \A tgt : Waiting(stack, tgt) = Expects(Top, tgt) \cup Waiting(stack', tgt)
        BY <1>1, <1>2, PopSets DEF Top
    <2>2. CalcOf(Top) = {n} /\ \A tgt : Expects(Top, tgt) = {}
        BY <1>1 DEF CalcOf, Expects
    <2> QED BY <1>2, <2>1, <2>2 DEF Due, Deferred
<1>4. Ranked(stack', rank)
    BY <1>0, <1>1, <1>2, RankedPop
<1>5. ToldKept
    BY <1>3, PassedOn
<1>6. /\ Len(stack') = Len(stack) - 1
      /\ \A k \in 1..Len(stack') : stack'[k] = stack[k + 1] /\ k + 1 \in 1..Len(stack)
    <2>1. /\ Len(Tail(stack)) = Len(stack) - 1
          /\ \A k \in 1..Len(Tail(stack)) : Tail(stack)[k] = stack[k + 1]
        BY <1>1, PopFrame
    <2> QED BY <1>1, <1>2, <2>1
<1> DEFINE J == {n} \cap Lazies
<1>7. \A x \in Computed : \A i \in Inputs[x] : Deref(i) \in J => ~Fresh(x)
    BY <1>3 DEF Fresh, Ready
<1>8. ASSUME NEW x \in Computed,
             Holding(x)' /\ x \notin Calcs(stack') => Fresh(x)' \/ Excused(x)' \/ x # n,
             \A j \in Lazies \ J : calculated'[j] = calculated[j],
             \A j \in Computed \ {n} : result'[j] = result[j]
      PROVE  Holding(x)' /\ x \notin Calcs(stack') =>
               \/ Fresh(x)' \/ Told(x)' \/ Excused(x)'
               \/ Holding(x) /\ x \notin Calcs(stack) /\ result'[x] = result[x]
    <2>1. ASSUME Holding(x)', x # n PROVE Holding(x) /\ result'[x] = result[x]
        BY <1>8, <2>1 DEF Holding
    <2> QED BY <1>3, <1>8, <2>1
<1>9. ASSUME \A x \in Computed : Holding(x)' /\ x \notin Calcs(stack') =>
                 Fresh(x)' \/ Excused(x)' \/ x # n,
             \A j \in Lazies \ J : calculated'[j] = calculated[j],
             \A j \in Computed \ {n} : result'[j] = result[j]
      PROVE  Coherent'
    <2>1. \A j \in Lazies \ J :
             /\ result'[j] = result[j]
             /\ Cached(j) /\ j \notin Calcs(stack) => Cached(j)' /\ j \notin Calcs(stack)'
        BY <1>2, <1>3, <1>9 DEF Cached, Computed
    <2>2. \A x \in Computed : Holding(x)' /\ x \notin Calcs(stack)' =>
             \/ Fresh(x)' \/ Told(x)' \/ Excused(x)'
             \/ Holding(x) /\ x \notin Calcs(stack) /\ result'[x] = result[x]
        BY <1>8, <1>9
    <2>3. \A x \in Computed : \A i \in Inputs[x] :
             Deref(i) \in J /\ Fresh(x) /\ Holding(x)' => Told(x)'
        BY <1>7
    <2>4. UNCHANGED market
        BY <1>2 DEF market
    <2> HIDE DEF J
    <2> QED BY <1>0, <1>5, <2>1, <2>2, <2>3, <2>4, CoherentKept
<1>10. CASE AbandonCalculation
    <2>1. /\ calculated' = IF n \in Lazies THEN [calculated EXCEPT ![n] = FALSE] ELSE calculated
          /\ result' = result /\ raising
        BY <1>10 DEF AbandonCalculation
    <2>2. \A x \in Computed : Holding(x)' /\ x \notin Calcs(stack') =>
             Fresh(x)' \/ Excused(x)' \/ x # n
        <3>1. n \in Lazies => ~Holding(n)'
            BY <1>0, <2>1, TopologyAssumption DEF Typed, Holding
        <3>2. n \in Eagers => Excused(n)
            BY <1>0, <2>1 DEF CInv, Blamed
        <3>3. Excused(n) => Excused(n)'
            BY <1>2 DEF Excused, Unreadable, Deref
        <3> QED BY <3>1, <3>2, <3>3 DEF Computed
    <2>3. /\ \A j \in Lazies \ J : calculated'[j] = calculated[j]
          /\ \A j \in Computed \ {n} : result'[j] = result[j]
        BY <1>0, <2>1 DEF Typed
    <2> QED BY <1>2, <1>4, <1>9, <2>1, <2>2, <2>3
<1>11. CASE StoreResult
    <2>1. /\ result' = [result EXCEPT ![n] = Top.got] /\ calculated' = calculated
          /\ Top.todo = {} /\ ~raising
        BY <1>11 DEF StoreResult, AbandonCalculation
    <2>2. Gathered(Top)
        BY <1>0, <1>1, <2>1 DEF Fetched
    <2>3. ASSUME NEW x \in Computed, NEW i \in Inputs[x], Ready(i)
          PROVE  Reading(i)' = Reading(i) /\ Ready(i)'
        <3>1. Deref(i)' = Deref(i) /\ (Deref(i) \in Lazies => Deref(i) # n)
            BY <1>2, <1>3, <2>3 DEF Deref, Ready
        <3>2. Ready(i)'
            BY <1>2, <1>3, <2>1, <2>3, <3>1 DEF Ready, Cached
        <3>3. Deref(i) \in Quotes \cup Lazies \cup {None}
            BY <1>0, <2>3, Leads
        <3>4. Deref(i) \in Lazies => result'[Deref(i)] = result[Deref(i)]
            BY <1>0, <2>1, <3>1 DEF Typed, Computed
        <3>5. Reading(i)' = Reading(i)
            BY <1>2, <3>1, <3>3, <3>4 DEF Reading, Unreadable
        <3> QED BY <3>2, <3>5
    <2>4. n \in Computed
        BY <1>1 DEF IsCalculation
    <2>5. Fresh(n)'
        <3>1. \A i \in Inputs[n] : Top.got[i] = Reading(i)' /\ Ready(i)'
            BY <1>1, <2>1, <2>2, <2>3, <2>4 DEF Gathered
        <3>2. Top.got = [i \in Inputs[n] |-> Top.got[i]]
            BY <1>1 DEF IsCalculation
        <3>3. result'[n] = Top.got
            BY <1>0, <2>1, <2>4 DEF Typed
        <3>4. result'[n] = [i \in Inputs[n] |-> Reading(i)']
            BY <3>1, <3>2, <3>3
        <3> QED BY <3>1, <3>4 DEF Fresh
    <2>6. /\ \A j \in Lazies \ J : calculated'[j] = calculated[j]
          /\ \A j \in Computed \ {n} : result'[j] = result[j]
        BY <1>0, <2>1 DEF Typed
    <2>7. Fetched'
        <3> SUFFICES ASSUME NEW k \in 1..Len(stack'), stack'[k].op = "calculate",
                            NEW i \in Inputs[stack'[k].of] \ stack'[k].todo
                     PROVE  stack'[k].got[i] = Reading(i)' /\ Ready(i)'
            BY DEF Fetched, Gathered
        <3>1. k + 1 \in 1..Len(stack) /\ stack'[k] = stack[k + 1]
            BY <1>6
        <3>2. stack[k + 1].of \in Computed
            <4>1. Shaped(stack[k + 1])
                BY <3>1 DEF CInv, IInv, Sound, Stacked
            <4> QED BY <3>1, <4>1 DEF Shaped, Frames, IsCalculation
        <3>3. stack[k + 1].got[i] = Reading(i) /\ Ready(i)
            BY <1>0, <2>1, <3>1 DEF Fetched, Gathered
        <3> QED BY <2>3, <3>1, <3>2, <3>3
    <2> QED BY <1>4, <1>9, <2>5, <2>6, <2>7
<1> QED BY <1>10, <1>11

\* The loop at the top of the stack, and the rest of it once m was called.
LEMMA LoopSets ==
    ASSUME NEW rank, CInv(rank), Looping, NEW m \in Top.todo
    PROVE  /\ IsStack(stack) /\ stack # <<>> /\ Calcs(stack) = {}
           /\ IsStack(Called(m)) /\ Calcs(Called(m)) = {}
           /\ Waiting(stack, target) \subseteq Waiting(Called(m), target) \cup {m}
<1>1. Stacked(stack) /\ IsStack(stack) /\ Ranked(stack, rank)
    BY DEF CInv, IInv, Sound, Stacked
<1>2. stack # <<>> /\ Top \in Frames /\ Top.op \in {"notify", "enable"}
    BY <1>1, LoopFrame
<1>3. Calcs(stack) = {}
    BY <1>1, <1>2, CalculationsInnermost DEF Top
<1> DEFINE f == [Top EXCEPT !.todo = @ \ {m}]
           u == Tail(stack)
<1>4. f.op = Top.op /\ f.todo = Top.todo \ {m}
    BY <1>2 DEF Frames
<1>5. CalcOf(f) = {} /\ Expects(f, target) = Top.todo \ {m} /\ Expects(Top, target) = Top.todo
    BY <1>2, <1>4 DEF CalcOf, Expects
<1>6. /\ IsStack(u) /\ Calcs(u) \subseteq Calcs(stack)
      /\ Waiting(stack, target) = Top.todo \cup Waiting(u, target)
    BY <1>1, <1>2, <1>5, PopSets DEF Top
<1> HIDE DEF f, u
<1>7. /\ IsStack(<<f>> \o u) /\ Calcs(<<f>> \o u) = {}
      /\ Waiting(<<f>> \o u, target) = (Top.todo \ {m}) \cup Waiting(u, target)
    <2>1. IsStack(<<f>> \o u)
        BY <1>6, PushFrame
    <2>2. /\ Calcs(<<f>> \o u) = CalcOf(f) \cup Calcs(u)
          /\ Waiting(<<f>> \o u, target) = Expects(f, target) \cup Waiting(u, target)
        BY <1>6, PushSets
    <2> QED BY <1>3, <1>5, <1>6, <2>1, <2>2
<1>8. Called(m) = <<f>> \o u
    BY DEF Called, f, u
<1> QED BY <1>1, <1>2, <1>3, <1>6, <1>7, <1>8

\* An observer is called.
LEMMA CallCoherent ==
    ASSUME NEW rank, CInv(rank), CallUpdate
    PROVE  Coherent' /\ Ranked(stack', rank) /\ (~raising' => Fetched')
<1>1. PICK m \in Top.todo : UpdateLazy(m) \/ UpdateLink(m) \/ UpdateEager(m)
    BY DEF CallUpdate
<1>2. /\ IsStack(stack) /\ stack # <<>> /\ Calcs(stack) = {}
      /\ IsStack(Called(m)) /\ Calcs(Called(m)) = {}
      /\ Waiting(stack, target) \subseteq Waiting(Called(m), target) \cup {m}
    BY LoopSets DEF CallUpdate
<1>3. Typed /\ Coherent
    BY DEF CInv, IInv
<1>4. UNCHANGED <<quote, target, frozen, result, deferring, raising>>
    BY <1>1 DEF UpdateLazy, UpdateLink, UpdateEager, market, updates
<1>5. CASE UpdateLazy(m)
    <2>1. m \in Lazies /\ ~calculated'[m] /\ \A j \in Lazies \ {m} : calculated'[j] = calculated[j]
        BY <1>3, <1>5 DEF UpdateLazy, Typed
    <2>2. /\ Calcs(stack') = {} /\ Due \ {m} \subseteq Due'
          /\ calculated[m] /\ ~frozen[m] => ObserversOf(m) \subseteq Due'
        <3>1. CASE calculated[m] /\ ~frozen[m]
            <4>1. Notify(m, Called(m))
                BY <1>5, <3>1 DEF UpdateLazy
            <4>2. /\ Due' = Waiting(Called(m), target') \cup Deferred \cup ObserversOf(m)
                  /\ Calcs(stack') = Calcs(Called(m))
                BY <1>2, <1>4, <4>1, NotifyDue
            <4> QED BY <1>2, <1>4, <4>2 DEF Due
        <3>2. CASE ~(calculated[m] /\ ~frozen[m])
            <4>1. stack' = Called(m) /\ pending' = pending
                BY <1>5, <3>2 DEF UpdateLazy
            <4> QED BY <1>2, <1>4, <3>2, <4>1 DEF Due, Deferred
        <3> QED BY <3>1, <3>2
    <2>3. ToldKept
        BY <2>1, <2>2, PassedOn
    <2> DEFINE J == IF frozen[m] THEN {} ELSE {m}
    <2>4. \A j \in Lazies \ J :
             /\ result'[j] = result[j]
             /\ Cached(j) /\ j \notin Calcs(stack) => Cached(j)' /\ j \notin Calcs(stack)'
        BY <1>4, <2>1, <2>2 DEF Cached
    <2>5. \A x \in Computed : \A i \in Inputs[x] :
             Deref(i) \in J /\ Fresh(x) /\ Holding(x)' => Told(x)'
        <3> SUFFICES ASSUME NEW x \in Computed, NEW i \in Inputs[x],
                            Deref(i) = m, ~frozen[m], Fresh(x)
                     PROVE  Told(x)'
            OBVIOUS
        <3>1. calculated[m]
            BY <2>1 DEF Fresh, Ready, Cached
        <3> QED BY <1>3, <2>2, <3>1, ReadersTold
    <2>6. \A x \in Computed : Holding(x)' /\ x \notin Calcs(stack)' =>
             Holding(x) /\ x \notin Calcs(stack) /\ result'[x] = result[x]
        <3>1. \A x \in Lazies : calculated'[x] => calculated[x]
            BY <2>1
        <3> QED BY <1>2, <1>4, <3>1 DEF Holding
    <2>7. Coherent'
        <3>1. UNCHANGED market
            BY <1>4 DEF market
        <3> HIDE DEF J
        <3> QED BY <1>3, <2>3, <2>4, <2>5, <2>6, <3>1, CoherentKept
    <2> QED BY <2>2, <2>7, Quiescent
<1>6. CASE UpdateLink(m)
    <2>1. m \in Links /\ Notify(m, Called(m)) /\ calculated' = calculated
        BY <1>6 DEF UpdateLink
    <2>2. /\ Due' = Waiting(Called(m), target') \cup Deferred \cup ObserversOf(m)
          /\ Calcs(stack') = {}
        BY <1>2, <1>4, <2>1, NotifyDue
    <2>3. \A d \in Due : \/ d \in Due' \/ d = m
        BY <1>2, <1>4, <2>2 DEF Due
    <2>4. {n \in Computed : m \in Inputs[n]} \subseteq Due'
        BY <2>2 DEF ObserversOf
    <2>5. ToldKept
        BY <2>1, <2>3, <2>4, PassedOn
    <2>6. Coherent'
        BY <1>2, <1>3, <1>4, <2>1, <2>2, <2>5, CoherentQuiet
    <2> QED BY <2>2, <2>6, Quiescent
<1>7. CASE UpdateEager(m)
    <2> DEFINE f == CalculateFrame(m)
               c == Called(m)
    <2>1. /\ m \in Eagers /\ m \notin Lazies /\ stack' = <<f>> \o c
          /\ calculated' = calculated /\ pending' = pending
        BY <1>7, TopologyAssumption DEF UpdateEager, updates
    <2>2. /\ f.op = "calculate" /\ f.of = m /\ CalcOf(f) = {m}
          /\ \A tgt : Expects(f, tgt) = {}
          /\ f.todo = Inputs[m]
        BY DEF CalculateFrame, CalcOf, Expects
    <2>3. IsStack(c) /\ Calcs(c) = {}
        BY <1>2
    <2> HIDE DEF f
    <2>4. Calcs(stack') = {m} /\ Due \ {m} \subseteq Due'
        <3> HIDE DEF c
        <3>1. Calcs(stack') = CalcOf(f) \cup Calcs(c)
            BY <2>1, <2>3, PushSets
        <3>2. \A tgt : Waiting(stack', tgt) = Expects(f, tgt) \cup Waiting(c, tgt)
            BY <2>1, <2>3, PushSets
        <3>3. Waiting(stack, target) \subseteq Waiting(c, target) \cup {m}
            BY <1>2 DEF c
        <3> QED BY <1>4, <2>1, <2>2, <2>3, <3>1, <3>2, <3>3 DEF Due, Deferred
    <2>5. ToldKept
        BY <2>1, <2>4, PassedOn
    <2>6. Coherent'
        BY <1>2, <1>3, <1>4, <2>1, <2>4, <2>5, CoherentQuiet
    <2> HIDE DEF c
    <2>7. Ranked(c, rank) /\ \A k \in 1..Len(c) : c[k].op # "calculate"
        BY <2>3, NoCalculation
    <2>8. Ranked(stack', rank)
        BY <2>1, <2>2, <2>3, <2>7, RankedPush
    <2>9. Fetched'
        <3>1. /\ Len(<<f>> \o c) = Len(c) + 1 /\ (<<f>> \o c)[1] = f /\ Len(c) \in Nat
              /\ \A k \in 1..Len(c) : (<<f>> \o c)[k + 1] = c[k]
            BY <2>3, PushFrame
        <3>2. ASSUME NEW k \in 1..Len(stack'), stack'[k].op = "calculate"
              PROVE  Inputs[stack'[k].of] \ stack'[k].todo = {}
            <4>1. CASE k = 1
                BY <2>1, <2>2, <3>1, <4>1
            <4>2. CASE k # 1
                <5>1. k - 1 \in 1..Len(c) /\ stack'[k] = c[k - 1]
                    BY <2>1, <3>1, <4>2
                <5> QED BY <2>7, <3>2, <5>1
            <4> QED BY <4>1, <4>2
        <3> QED BY <3>2 DEF Fetched, Gathered
    <2> QED BY <2>6, <2>8, <2>9
<1> QED BY <1>1, <1>5, <1>6, <1>7

\* A loop notes a failure or ends.
LEMMA LoopCoherent ==
    ASSUME NEW rank, CInv(rank), NoteFailure \/ EndLoop
    PROVE  Coherent' /\ Ranked(stack', rank) /\ (~raising' => Fetched')
<1>1. Stacked(stack) /\ IsStack(stack) /\ Ranked(stack, rank) /\ Typed /\ Coherent
    BY DEF CInv, IInv, Sound, Stacked
<1>2. stack # <<>> /\ Top \in Frames /\ Top.op \in {"notify", "enable"}
    BY <1>1, LoopFrame DEF NoteFailure, EndLoop
<1>3. Calcs(stack) = {}
    BY <1>1, <1>2, CalculationsInnermost DEF Top
<1>4. /\ IsStack(Tail(stack)) /\ Calcs(Tail(stack)) = {}
      /\ Waiting(stack, target) = Top.todo \cup Waiting(Tail(stack), target)
    <2>1. /\ IsStack(Tail(stack)) /\ Calcs(stack) = CalcOf(Top) \cup Calcs(Tail(stack))
          /\ Waiting(stack, target) = Expects(Top, target) \cup Waiting(Tail(stack), target)
        BY <1>1, <1>2, PopSets DEF Top
    <2>2. Expects(Top, target) = Top.todo
        BY <1>2 DEF Expects
    <2> QED BY <1>3, <2>1, <2>2
<1>5. UNCHANGED <<quote, target, calculated, frozen, result, deferring>>
    BY DEF NoteFailure, EndLoop, market, updates
<1>6. Calcs(stack') = {} /\ Due \subseteq Due'
    <2>1. CASE NoteFailure
        <3> DEFINE f == [Top EXCEPT !.successful = FALSE]
                   u == Tail(stack)
        <3>1. f.op = Top.op /\ f.todo = Top.todo
            BY <1>2 DEF Frames
        <3>2. CalcOf(f) = {} /\ Expects(f, target) = Top.todo
            BY <1>2, <3>1 DEF CalcOf, Expects
        <3>3. stack' = <<f>> \o u /\ pending' = pending
            BY <2>1 DEF NoteFailure, updates
        <3>4. IsStack(u) /\ Calcs(u) = {} /\ Waiting(stack, target) = Top.todo \cup Waiting(u, target)
            BY <1>4
        <3> HIDE DEF f, u
        <3>5. /\ Calcs(stack') = CalcOf(f) \cup Calcs(u)
              /\ Waiting(stack', target) = Expects(f, target) \cup Waiting(u, target)
            BY <3>3, <3>4, PushSets
        <3> QED BY <1>5, <3>2, <3>3, <3>4, <3>5 DEF Due, Deferred
    <2>2. CASE EndLoop
        <3>1. stack' = Tail(stack) /\ Top.todo = {} /\ (Top.op # "enable" => pending' = pending)
            BY <2>2 DEF EndLoop
        <3>2. CASE Top.op = "enable" /\ deferring
            <4>1. ~deferring
                <5>1. Top = stack[1] /\ 1 \in 1..Len(stack)
                    BY <1>1, <1>2, PopFrame DEF Top
                <5> QED BY <3>2, <5>1 DEF CInv, IInv, Sound, Enabled
            <4> QED BY <3>2, <4>1
        <3>3. CASE Top.op = "notify" \/ ~deferring
            BY <1>2, <1>4, <1>5, <3>1, <3>3 DEF Due, Deferred
        <3> QED BY <1>2, <3>2, <3>3
    <2> QED BY <2>1, <2>2
<1>7. ToldKept
    BY <1>6, PassedOn
<1>8. Coherent'
    BY <1>1, <1>3, <1>5, <1>6, <1>7, CoherentQuiet
<1> QED BY <1>6, <1>8, Quiescent

\* recalculate() restores the freeze and notifies, and returns.
LEMMA RecalculateCoherent ==
    ASSUME NEW rank, CInv(rank), Refreeze \/ EndRecalculate
    PROVE  Coherent' /\ Ranked(stack', rank) /\ (~raising' => Fetched')
<1>1. Stacked(stack) /\ IsStack(stack) /\ Ranked(stack, rank) /\ Typed /\ Coherent
    BY DEF CInv, IInv, Sound, Stacked
<1>2. /\ stack # <<>> /\ Top \in Frames /\ Top.op = "recalculate" /\ Top.of \in Lazies
      /\ Tail(stack) = <<>>
    BY <1>1, RecalculationFrame DEF Refreeze, EndRecalculate
<1>3. Calcs(stack) = {}
    BY <1>1, <1>2, CalculationsInnermost DEF Top
<1>4. Waiting(stack, target) = Expects(Top, target)
    <2>1. Waiting(stack, target) = Expects(Top, target) \cup Waiting(Tail(stack), target)
        BY <1>1, <1>2, PopSets DEF Top
    <2> QED BY <1>2, <2>1, EmptySets
<1>5. UNCHANGED <<quote, target, calculated, result, deferring>>
    BY DEF Refreeze, EndRecalculate, market, updates
<1>6. CASE Refreeze
    <2> DEFINE f == [Top EXCEPT !.notified = TRUE, !.failed = raising]
    <2>0. PICK l : l = Top.of
        OBVIOUS
    <2>1. f.op = "recalculate" /\ f.notified /\ f.of = l
        BY <1>2, <2>0 DEF Frames
    <2>2. CalcOf(f) = {} /\ \A tgt : Expects(f, tgt) = {}
        BY <2>1 DEF CalcOf, Expects
    <2>3. Notify(l, <<f>>)
        <3>1. <<f>> \o Tail(stack) = <<f>>
            <4> HIDE DEF f
            <4> QED BY <1>2, ShortStacks
        <3> QED BY <1>6, <2>0, <3>1 DEF Refreeze
    <2> HIDE DEF f
    <2>4. IsStack(<<f>>) /\ Calcs(<<f>>) = {} /\ Waiting(<<f>>, target') = {}
        BY <2>2, ShortSets
    <2>5. Due' = Deferred \cup ObserversOf(l) /\ Calcs(stack') = {}
        BY <1>5, <2>3, <2>4, NotifyDue
    <2>6. Expects(Top, target) \subseteq ObserversOf(l)
        BY <1>2, <2>0 DEF Expects, ObserversOf
    <2>7. ToldKept
        BY <1>4, <2>5, <2>6, PassedOn DEF Due
    <2>8. \A j \in Lazies \ {l} :
             /\ result'[j] = result[j]
             /\ Cached(j) /\ j \notin Calcs(stack) => Cached(j)' /\ j \notin Calcs(stack)'
        <3>1. \A j \in Lazies \ {l} : frozen'[j] = frozen[j]
            BY <1>1, <1>6, <2>0 DEF Refreeze, Typed
        <3> QED BY <1>5, <2>5, <3>1 DEF Cached
    <2>9. \A x \in Computed : \A i \in Inputs[x] :
             Deref(i) \in {l} /\ Fresh(x) /\ Holding(x)' => Told(x)'
        BY <1>1, <2>5, ReadersTold
    <2>10. \A x \in Computed : Holding(x)' /\ x \notin Calcs(stack)' =>
             Holding(x) /\ x \notin Calcs(stack) /\ result'[x] = result[x]
        BY <1>3, <1>5 DEF Holding
    <2>11. Coherent'
        <3>1. UNCHANGED market
            BY <1>5 DEF market
        <3> QED BY <1>1, <2>7, <2>8, <2>9, <2>10, <3>1, CoherentKept
    <2> QED BY <2>5, <2>11, Quiescent
<1>7. CASE EndRecalculate
    <2>1. stack' = <<>> /\ Expects(Top, target) = {} /\ UNCHANGED <<frozen, pending>>
        BY <1>2, <1>7 DEF EndRecalculate, Expects, updates
    <2>2. Calcs(stack') = {} /\ Due' = Due
        BY <1>4, <1>5, <2>1, EmptySets DEF Due, Deferred
    <2>3. ToldKept
        BY <2>2, PassedOn
    <2>4. Coherent'
        BY <1>1, <1>3, <1>5, <2>1, <2>2, <2>3, CoherentQuiet
    <2> QED BY <2>2, <2>4, Quiescent
<1> QED BY <1>6, <1>7

-----------------------------------------------------------------------------
\* What cannot fail, and whom an exception passes through.
LEMMA ReliableReads ==
    ASSUME Typed, NEW n \in Reliable, NEW i \in Inputs[n]
    PROVE  /\ n \in Lazies
           /\ ~Unreadable(Deref(i))
           /\ Deref(i) \in Lazies => Deref(i) \in Reliable
<1>1. PICK R \in SUBSET Lazies : Unfailing(R) /\ n \in R
    BY DEF Reliable
<1>2. R \subseteq Reliable
    BY <1>1 DEF Reliable
<1>3. n \in Lazies /\ n \in Computed /\ i \in Quotes \cup Links \cup Lazies
    BY <1>1, Leads DEF Computed
<1>4. CASE i \in Quotes
    <2>1. Null \notin Values[i] /\ Deref(i) = i /\ i \notin Lazies /\ i # None
        BY <1>1, <1>4, TopologyAssumption DEF Unfailing, Deref
    <2> QED BY <1>3, <1>4, <2>1 DEF Typed, Unreadable
<1>5. CASE i \in Lazies
    <2>1. i \in R /\ Deref(i) = i /\ i \notin Quotes /\ i # None
        BY <1>1, <1>5, TopologyAssumption DEF Unfailing, Deref, Computed
    <2> QED BY <1>2, <1>3, <2>1 DEF Unreadable
<1>6. CASE i \in Links
    <2>1. Deref(i) \in R \cup {q \in Quotes : Null \notin Values[q]}
        BY <1>1, <1>6 DEF Unfailing, Deref, Typed
    <2>2. Deref(i) # None /\ (Deref(i) \in Lazies => Deref(i) \notin Quotes)
        BY <1>1, <2>1, TopologyAssumption
    <2>3. Deref(i) \in Quotes => Null \notin Values[Deref(i)]
        BY <1>1, <2>1, <2>2
    <2>4. ~Unreadable(Deref(i))
        BY <2>2, <2>3 DEF Typed, Unreadable
    <2> QED BY <1>2, <1>3, <2>1, <2>2, <2>4
<1> QED BY <1>3, <1>4, <1>5, <1>6

\* A frame on top of frames that calculate nothing.
LEMMA ChainedAbove ==
    ASSUME NEW u, IsStack(u), Calcs(u) = {},
           stack' = u \/ \E f : stack' = <<f>> \o u
    PROVE  Chained'
<1>1. Len(u) \in Nat /\ \A k \in 1..Len(u) : u[k].op # "calculate"
    <2>1. Len(u) \in Nat
        BY DEF IsStack
    <2> QED BY <2>1 DEF Calcs, CalcOf
<1>2. CASE stack' = u
    <2>1. \A k \in 1..(Len(u) - 1) : k + 1 \in 1..Len(u)
        BY <1>1
    <2> QED BY <1>1, <1>2, <2>1 DEF Chained
<1>3. CASE \E f : stack' = <<f>> \o u
    <2>1. PICK f : stack' = <<f>> \o u
        BY <1>3
    <2>2. Len(stack') = Len(u) + 1 /\ \A k \in 1..Len(u) : stack'[k + 1] = u[k]
        BY <2>1, PushFrame
    <2>3. \A k \in 1..(Len(stack') - 1) : k \in 1..Len(u)
        BY <1>1, <2>2
    <2> QED BY <1>1, <2>2, <2>3 DEF Chained
<1> QED BY <1>2, <1>3

LEMMA NotifyAbove ==
    ASSUME NEW n, NEW under, Notify(n, under)
    PROVE  stack' = under \/ \E f : stack' = <<f>> \o under
BY DEF Notify

\* Nobody is to blame while nothing is calculated.
LEMMA NobodyBlamed ==
    ASSUME IsStack(stack'), Calcs(stack') = {} \/ ~raising'
    PROVE  Blamed'
<1> SUFFICES ASSUME raising', Running("calculate")', Calcs(stack') = {} PROVE FALSE
    BY DEF Blamed
<1>1. stack' # <<>> /\ Head(stack').op = "calculate"
    BY DEF Running, Top
<1>2. Calcs(stack') = CalcOf(Head(stack')) \cup Calcs(Tail(stack'))
    BY <1>1, PopSets
<1> QED BY <1>1, <1>2 DEF CalcOf

LEMMA ClientChained ==
    ASSUME Client, stack = <<>>, ~raising, IsStack(stack')
    PROVE  Chained' /\ Blamed'
<1>1. IsStack(<<>>) /\ Calcs(<<>>) = {} /\ \A f : <<f>> \o <<>> = <<f>>
    BY EmptySets, ShortStacks
<1>2. ~raising'
    BY DEF Client, SetValue, LinkTo, Calculate, Recalculate, Freeze, Unfreeze, Start,
           DeferUpdates, EnableUpdates
<1>3. ASSUME stack' = <<>> \/ \E f : stack' = <<f>> PROVE Chained'
    <2>1. stack' = <<>> \/ \E f : stack' = <<f>> \o <<>>
        BY <1>1, <1>3
    <2> QED BY <1>1, <2>1, ChainedAbove
<1>4. ASSUME NEW n, Notify(n, <<>>) PROVE Chained'
    <2>1. stack' = <<>> \/ \E f : stack' = <<f>> \o <<>>
        BY <1>4, NotifyAbove
    <2> QED BY <1>1, <2>1, ChainedAbove
<1>5. ASSUME NEW q \in Quotes, NEW v \in Values[q], SetValue(q, v) PROVE Chained'
    BY <1>4, <1>5 DEF SetValue
<1>6. ASSUME NEW h \in Links, NEW t \in Targets[h], LinkTo(h, t) PROVE Chained'
    BY <1>3, <1>4, <1>6 DEF LinkTo
<1>7. ASSUME NEW l \in Lazies, Recalculate(l) PROVE Chained'
    <2> DEFINE r == RecalculateFrame(l)
               c == CalculateFrame(l)
    <2>1. CalcOf(r) = {}
        BY DEF CalcOf, RecalculateFrame
    <2>2. stack' = <<c, r>>
        BY <1>7 DEF Recalculate
    <2> HIDE DEF c, r
    <2>3. IsStack(<<r>>) /\ Calcs(<<r>>) = {} /\ <<c, r>> = <<c>> \o <<r>>
        BY <2>1, ShortSets, ShortStacks
    <2>4. \E f : stack' = <<f>> \o <<r>>
        BY <2>2, <2>3
    <2> QED BY <2>3, <2>4, ChainedAbove
<1>8. ASSUME NEW l \in Lazies, Calculate(l) \/ Freeze(l) \/ Unfreeze(l) PROVE Chained'
    BY <1>3, <1>4, <1>8 DEF Calculate, Freeze, Unfreeze
<1>9. ASSUME NEW e \in Eagers, Start(e) PROVE Chained'
    BY <1>3, <1>9 DEF Start
<1>10. ASSUME DeferUpdates \/ EnableUpdates PROVE Chained'
    BY <1>3, <1>10 DEF DeferUpdates, EnableUpdates
<1>11. Chained'
    BY <1>5, <1>6, <1>7, <1>8, <1>9, <1>10 DEF Client
<1> QED BY <1>2, <1>11, NobodyBlamed

\* A calculation reads, starts another one or fails.
LEMMA PerformChained ==
    ASSUME NEW rank, Acyclic(rank), CInv(rank), PerformCalculations, IsStack(stack')
    PROVE  Chained' /\ Blamed'
<1>0. Typed /\ Chained /\ Running("calculate") /\ ~raising
    BY DEF CInv, IInv, PerformCalculations
<1>1. PICK i \in Top.todo : ReadInput(i) \/ DescendInto(i) \/ FailOn(i)
    BY DEF PerformCalculations
<1>2. /\ stack # <<>> /\ IsStack(stack) /\ IsCalculation(Top) /\ Top = stack[1]
      /\ Len(stack) \in Nat \ {0} /\ 1 \in 1..Len(stack)
      /\ i \in Inputs[Top.of] /\ Top.of \in Computed
    BY <1>0, TopOfCalculations DEF IsCalculation
<1>3. UNCHANGED target
    BY <1>1 DEF ReadInput, DescendInto, FailOn, market
<1>4. \A n, j : Reads(n, j)' = Reads(n, j)
    BY <1>3 DEF Reads, Deref
<1>5. CASE ReadInput(i)
    <2>1. PICK v : stack' = Got(i, v)
        BY <1>5 DEF ReadInput
    <2> DEFINE f == [Top EXCEPT !.todo = @ \ {i}, !.got[i] = v]
               u == Tail(stack)
    <2>2. f.op = stack[1].op /\ f.of = stack[1].of
        BY <1>2 DEF IsCalculation
    <2>3. stack' = <<f>> \o u
        BY <2>1 DEF Got
    <2>4. IsStack(u) /\ Len(u) = Len(stack) - 1 /\ \A k \in 1..Len(u) : u[k] = stack[k + 1]
        BY <1>2, PopFrame
    <2> HIDE DEF f, u
    <2>5. /\ Len(stack') = Len(u) + 1 /\ stack'[1] = f
          /\ \A k \in 1..Len(u) : stack'[k + 1] = u[k]
        BY <2>3, <2>4, PushFrame
    <2>6. ASSUME NEW k \in 1..Len(stack)
          PROVE  stack'[k].op = stack[k].op /\ stack'[k].of = stack[k].of
        <3>1. CASE k = 1
            BY <2>2, <2>5, <3>1
        <3>2. CASE k # 1
            <4>1. k - 1 \in 1..Len(u) /\ (k - 1) + 1 = k
                BY <1>2, <2>4, <3>2
            <4> QED BY <2>4, <2>5, <4>1
        <3> QED BY <3>1, <3>2
    <2>7. Len(stack') = Len(stack)
        BY <1>2, <2>4, <2>5
    <2>8. \A k \in 1..(Len(stack) - 1) : k \in 1..Len(stack) /\ k + 1 \in 1..Len(stack)
        BY <1>2
    <2>9. Chained'
        BY <1>0, <1>4, <2>6, <2>7, <2>8 DEF Chained
    <2>10. ~raising'
        BY <1>0, <1>5 DEF ReadInput
    <2> QED BY <2>9, <2>10, NobodyBlamed
<1>6. CASE DescendInto(i)
    <2> DEFINE j == Deref(i)
               f == CalculateFrame(j)
    <2>1. j \in Lazies /\ stack' = <<f>> \o stack /\ ~raising'
        BY <1>0, <1>6 DEF DescendInto
    <2>2. f.op = "calculate" /\ f.of = j
        BY DEF CalculateFrame
    <2>3. Reads(Top.of, j)
        BY <1>2, <2>1 DEF Reads
    <2> HIDE DEF f, j
    <2>4. /\ Len(stack') = Len(stack) + 1 /\ stack'[1] = f
          /\ \A k \in 1..Len(stack) : stack'[k + 1] = stack[k]
        BY <1>2, <2>1, PushFrame
    <2>5. ASSUME NEW k \in 1..(Len(stack') - 1), stack'[k + 1].op = "calculate"
          PROVE  Reads(stack'[k + 1].of, stack'[k].of)
        <3>1. k \in 1..Len(stack) /\ stack'[k + 1] = stack[k]
            BY <1>2, <2>4
        <3>2. CASE k = 1
            BY <1>2, <2>2, <2>3, <2>4, <3>1, <3>2
        <3>3. CASE k # 1
            <4>1. /\ k - 1 \in 1..(Len(stack) - 1) /\ (k - 1) + 1 = k
                  /\ k - 1 \in 1..Len(stack)
                BY <1>2, <3>1, <3>3
            <4>2. stack'[k] = stack[k - 1]
                BY <2>4, <4>1
            <4>3. stack[(k - 1) + 1].op = "calculate"
                BY <2>5, <3>1, <4>1
            <4> QED BY <1>0, <3>1, <4>1, <4>2, <4>3 DEF Chained
        <3> QED BY <3>2, <3>3
    <2>6. Chained'
        BY <1>4, <2>5 DEF Chained
    <2> QED BY <2>1, <2>6, NobodyBlamed
<1>7. CASE FailOn(i)
    <2>1. Unreadable(Deref(i)) /\ UNCHANGED <<quote, target, stack>>
        BY <1>7 DEF FailOn, market
    <2>2. Chained'
        BY <1>0, <1>4, <2>1 DEF Chained
    <2>3. Top.of \notin Reliable /\ (Top.of \in Eagers => Excused(Top.of))
        BY <1>0, <1>2, <2>1, ReliableReads DEF Excused
    <2>4. Blamed'
        BY <2>1, <2>3 DEF Blamed, Excused, Top, Unreadable, Deref
    <2> QED BY <2>2, <2>4
<1> QED BY <1>1, <1>5, <1>6, <1>7

\* A calculation ends: an exception goes on to the one that needed it.
LEMMA ReturnChained ==
    ASSUME NEW rank, Acyclic(rank), CInv(rank), StoreResult \/ AbandonCalculation,
           IsStack(stack')
    PROVE  Chained' /\ Blamed'
<1>0. Typed /\ Chained /\ Running("calculate") /\ (raising => AbandonCalculation)
    BY DEF CInv, IInv, StoreResult, AbandonCalculation
<1>1. /\ stack # <<>> /\ IsStack(stack) /\ Top = stack[1]
      /\ Len(stack) \in Nat \ {0} /\ 1 \in 1..Len(stack)
    BY <1>0, TopOfCalculations
<1>2. stack' = Tail(stack) /\ UNCHANGED <<quote, target, raising>>
    BY DEF StoreResult, AbandonCalculation, market, updates
<1>3. Len(stack') = Len(stack) - 1 /\ \A k \in 1..Len(stack') : stack'[k] = stack[k + 1]
    BY <1>1, <1>2, PopFrame
<1>4. \A n, j : Reads(n, j)' = Reads(n, j)
    BY <1>2 DEF Reads, Deref
<1>5. Chained'
    <2> SUFFICES ASSUME NEW k \in 1..(Len(stack') - 1), stack'[k + 1].op = "calculate"
                 PROVE  Reads(stack'[k + 1].of, stack'[k].of)
        BY <1>4 DEF Chained
    <2>1. /\ k \in 1..Len(stack') /\ k + 1 \in 1..Len(stack')
          /\ k + 1 \in 1..(Len(stack) - 1)
        BY <1>1, <1>3
    <2> QED BY <1>0, <1>3, <2>1 DEF Chained
<1>6. CASE raising /\ stack' # <<>> /\ Head(stack').op = "calculate"
    <2>1. /\ Head(stack') = stack'[1] /\ 1 \in 1..Len(stack')
          /\ Len(stack') \in Nat
        BY <1>6, PopFrame
    <2>2. Head(stack') = stack[1 + 1] /\ 1 \in 1..(Len(stack) - 1)
        BY <1>1, <1>3, <2>1
    <2> PICK n : n = Head(stack').of
        OBVIOUS
    <2>3. Reads(n, Top.of)
        BY <1>0, <1>1, <1>6, <2>2 DEF Chained
    <2>4. PICK i \in Inputs[n] : Deref(i) = Top.of /\ Top.of \in Lazies
        BY <2>3 DEF Reads
    <2>5. Top.of \notin Reliable
        BY <1>0, <1>6 DEF CInv, Blamed
    <2>6. n \notin Reliable
        BY <1>0, <2>4, <2>5, ReliableReads
    <2>7. n \in Eagers => Excused(n)
        BY <2>4, <2>5 DEF Excused
    <2>8. Excused(n) => Excused(n)'
        BY <1>2 DEF Excused, Unreadable, Deref
    <2>9. Top'.of = n
        BY DEF Top
    <2>10. Blamed'
        BY <2>6, <2>7, <2>8, <2>9 DEF Blamed
    <2> QED BY <1>5, <2>10
<1>7. CASE ~(raising /\ stack' # <<>> /\ Head(stack').op = "calculate")
    BY <1>2, <1>5, <1>7 DEF Blamed, Running, Top
<1> QED BY <1>6, <1>7

\* The loops and recalculate() have no calculation below them.
LEMMA LoopChained ==
    ASSUME NEW rank, CInv(rank), IsStack(stack'),
           CallUpdate \/ NoteFailure \/ EndLoop \/ Refreeze \/ EndRecalculate
    PROVE  Chained' /\ Blamed'
<1>1. Stacked(stack) /\ IsStack(stack) /\ Ranked(stack, rank)
    BY DEF CInv, IInv, Sound, Stacked
<1>2. CASE CallUpdate
    <2>1. PICK m \in Top.todo : UpdateLazy(m) \/ UpdateLink(m) \/ UpdateEager(m)
        BY <1>2 DEF CallUpdate
    <2>2. IsStack(Called(m)) /\ Calcs(Called(m)) = {} /\ ~raising'
        BY <1>2, <2>1, LoopSets DEF CallUpdate, UpdateLazy, UpdateLink, UpdateEager
    <2>3. stack' = Called(m) \/ \E f : stack' = <<f>> \o Called(m)
        BY <2>1, NotifyAbove DEF UpdateLazy, UpdateLink, UpdateEager
    <2> QED BY <2>2, <2>3, ChainedAbove, NobodyBlamed
<1>3. CASE NoteFailure \/ EndLoop \/ Refreeze \/ EndRecalculate
    <2>1. stack # <<>> /\ Top.op # "calculate"
        BY <1>3 DEF NoteFailure, EndLoop, Refreeze, EndRecalculate, Looping, Running
    <2>2. Calcs(stack) = {}
        BY <1>1, <2>1, CalculationsInnermost DEF Top
    <2> DEFINE u == Tail(stack)
    <2>3. IsStack(u) /\ Calcs(u) = {}
        BY <1>1, <2>1, <2>2, PopSets
    <2>4. CASE NoteFailure
        <3>1. ~raising' /\ \E f : stack' = <<f>> \o u
            BY <2>4 DEF NoteFailure
        <3> HIDE DEF u
        <3> QED BY <2>3, <3>1, ChainedAbove, NobodyBlamed
    <2>5. CASE EndLoop \/ EndRecalculate
        <3>1. stack' = u
            BY <2>5 DEF EndLoop, EndRecalculate
        <3> HIDE DEF u
        <3> QED BY <2>3, <3>1, ChainedAbove, NobodyBlamed
    <2>6. CASE Refreeze
        <3> DEFINE f == [Top EXCEPT !.notified = TRUE, !.failed = raising]
                   w == <<f>> \o u
        <3>1. ~raising' /\ Notify(Top.of, w)
            BY <2>6 DEF Refreeze
        <3>2. CalcOf(f) = {}
            <4>1. Top \in Frames /\ Top.op = "recalculate"
                BY <1>1, <2>6, RecalculationFrame DEF Refreeze
            <4>2. f.op = "recalculate"
                BY <4>1 DEF Frames
            <4> QED BY <4>2 DEF CalcOf
        <3> HIDE DEF f, u
        <3>3. IsStack(w) /\ Calcs(w) = {}
            BY <2>3, <3>2, PushFrame, PushSets
        <3> HIDE DEF w
        <3>4. stack' = w \/ \E g : stack' = <<g>> \o w
            BY <3>1, NotifyAbove
        <3> QED BY <3>1, <3>3, <3>4, ChainedAbove, NobodyBlamed
    <2> QED BY <1>3, <2>4, <2>5, <2>6
<1> QED BY <1>2, <1>3

-----------------------------------------------------------------------------
LEMMA CInvInit == ASSUME NEW rank PROVE Init => CInv(rank)
<1> SUFFICES ASSUME Init PROVE CInv(rank)
    OBVIOUS
<1>1. IInv
    BY IInvInit
<1>2. Coherent
    BY DEF Init, Coherent, Holding, Computed
<1>3. Ranked(stack, rank) /\ Fetched /\ Chained /\ Blamed
    BY DEF Init, Ranked, Fetched, Chained, Blamed
<1> QED BY <1>1, <1>2, <1>3 DEF CInv

LEMMA CInvStep ==
    ASSUME NEW rank, Acyclic(rank) PROVE CInv(rank) /\ [Next]_vars => CInv(rank)'
<1> SUFFICES ASSUME CInv(rank), [Next]_vars PROVE CInv(rank)'
    OBVIOUS
<1>0. IInv' /\ IsStack(stack')
    BY IInvStep DEF CInv, IInv, Sound, Stacked
<1>1. CASE Client
    <2>1. stack = <<>> /\ ~raising
        BY <1>1 DEF Client, SetValue, LinkTo, Calculate, Recalculate, Freeze, Unfreeze,
                    Start, DeferUpdates, EnableUpdates, AtRest
    <2> QED BY <1>0, <1>1, <2>1, ClientCoherent, ClientChained DEF CInv
<1>2. CASE PerformCalculations
    BY <1>0, <1>2, PerformCoherent, PerformChained DEF CInv
<1>3. CASE StoreResult \/ AbandonCalculation
    BY <1>0, <1>3, ReturnCoherent, ReturnChained DEF CInv
<1>4. CASE CallUpdate
    BY <1>0, <1>4, CallCoherent, LoopChained DEF CInv
<1>5. CASE NoteFailure \/ EndLoop
    BY <1>0, <1>5, LoopCoherent, LoopChained DEF CInv
<1>6. CASE Refreeze \/ EndRecalculate
    BY <1>0, <1>6, RecalculateCoherent, LoopChained DEF CInv
<1>7. CASE Catch \/ UNCHANGED vars
    <2>1. UNCHANGED <<quote, target, calculated, frozen, result, deferring, pending, stack>>
        BY <1>7 DEF Catch, vars, market, updates
    <2>2. Due' = Due /\ Calcs(stack') = Calcs(stack)
        BY <2>1 DEF Due, Deferred
    <2>3. ToldKept
        BY <2>2, PassedOn
    <2>4. Typed /\ Coherent /\ Ranked(stack, rank)
        BY DEF CInv, IInv
    <2>5. Coherent'
        BY <2>1, <2>2, <2>3, <2>4, CoherentQuiet
    <2>6. ~raising' => Fetched'
        <3>1. CASE Catch
            BY <3>1 DEF Catch, Fetched
        <3>2. CASE UNCHANGED vars
            BY <3>2 DEF vars, CInv, Fetched, Gathered, Reading, Ready, Deref, Unreadable, Cached
        <3> QED BY <1>7, <3>1, <3>2
    <2>7. Chained'
        BY <2>1 DEF CInv, Chained, Reads, Deref
    <2>8. Blamed'
        <3>1. CASE Catch
            BY <3>1 DEF Catch, Blamed
        <3>2. CASE UNCHANGED vars
            BY <3>2 DEF vars, CInv, Blamed, Running, Top, Excused, Unreadable, Deref
        <3> QED BY <1>7, <3>1, <3>2
    <2> QED BY <1>0, <2>1, <2>4, <2>5, <2>6, <2>7, <2>8 DEF CInv
<1> QED BY <1>1, <1>2, <1>3, <1>4, <1>5, <1>6, <1>7 DEF Next, Step

\* Between two calls of a client a lazy object that would serve its cached
\* result serves what a fresh calculation would give, or is due for a deferred
\* notification (lazyobject.hpp:102-156), in every graph without cycles.
THEOREM CachesCohere ==
    ASSUME NEW rank, Acyclic(rank) PROVE Spec => []CacheCoherent
<1>1. Init => CInv(rank)
    BY CInvInit
<1>2. CInv(rank) /\ [Next]_vars => CInv(rank)'
    BY CInvStep
<1>3. CInv(rank) => CacheCoherent
    <2> SUFFICES ASSUME CInv(rank), AtRest, NEW l \in Lazies, calculated[l]
                 PROVE  UpToDate(l) \/ Awaited(l)
        BY DEF CacheCoherent
    <2>1. Calcs(stack) = {} /\ Waiting(stack, target) = {}
        BY EmptySets DEF AtRest
    <2>2. CASE Fresh(l)
        BY <2>2 DEF Fresh, Ready, UpToDate
    <2>3. CASE Told(l)
        BY <2>1, <2>3 DEF Told, Due, Deferred, Awaited
    <2>4. Holding(l) /\ ~Excused(l) /\ l \in Computed
        BY TopologyAssumption DEF Holding, Excused, Computed
    <2> QED BY <2>1, <2>2, <2>3, <2>4 DEF CInv, Coherent
<1> QED BY <1>1, <1>2, <1>3, PTL DEF Spec

\* Between two calls an eager observer whose inputs can be read shows what they
\* hold, or is due for a deferred notification (lazyobject.hpp:105-108), in
\* every graph without cycles where what eager observers read of lazy objects
\* cannot fail.  Without that it may keep what it showed before the failure.
THEOREM EagersKeepUp ==
    ASSUME NEW rank, Acyclic(rank),
           \A e \in Eagers : \A i \in Inputs[e] :
               /\ i \in Lazies => i \in Reliable
               /\ i \in Links => Targets[i] \cap Lazies \subseteq Reliable
    PROVE  Spec => []EagerUpToDate
<1>1. Init => CInv(rank)
    BY CInvInit
<1>2. CInv(rank) /\ [Next]_vars => CInv(rank)'
    BY CInvStep
<1>3. CInv(rank) => EagerUpToDate
    <2> SUFFICES ASSUME CInv(rank), AtRest, NEW e \in Eagers, result[e] # None,
                        \A i \in Inputs[e] : ~Unreadable(Deref(i))
                 PROVE  UpToDate(e) \/ Awaited(e)
        BY DEF EagerUpToDate
    <2>1. Calcs(stack) = {} /\ Waiting(stack, target) = {}
        BY EmptySets DEF AtRest
    <2>2. CASE Fresh(e)
        BY <2>2 DEF Fresh, Ready, UpToDate
    <2>3. CASE Told(e)
        BY <2>1, <2>3 DEF Told, Due, Deferred, Awaited
    <2>4. ASSUME NEW i \in Inputs[e], Deref(i) \in Lazies PROVE Deref(i) \in Reliable
        <3>1. Typed /\ e \in Computed
            BY DEF CInv, IInv, Computed
        <3>2. CASE i \in Links
            BY <2>4, <3>1, <3>2 DEF Deref, Typed
        <3>3. CASE i \notin Links
            BY <2>4, <3>3 DEF Deref
        <3> QED BY <3>2, <3>3
    <2>5. Holding(e) /\ ~Excused(e) /\ e \in Computed
        BY <2>4 DEF Holding, Excused, Computed
    <2> QED BY <2>1, <2>2, <2>3, <2>5 DEF CInv, Coherent
<1> QED BY <1>1, <1>2, <1>3, PTL DEF Spec
=============================================================================
