------------------------ MODULE ThreadSafeObserverProofs ------------------------
(***************************************************************************)
(* What ThreadSafeObserver promises, for any threads, observers and        *)
(* observables and whatever the threads call.                              *)
(*                                                                         *)
(* The mutex of a proxy keeps update() and the destructor apart, but only  *)
(* because an update holds a shared_ptr and so keeps the destructor from   *)
(* beginning at all.  Core says so for all frames at once: what an update  *)
(* runs on is active, and what is destroyed nobody refers to any more.     *)
(* That this stays so needs the rest of it: only one thread at a time      *)
(* changes the registrations of an observer, and an observable that a      *)
(* frame is yet to register with is kept by the list the frame copies.     *)
(*                                                                         *)
(* AllLinked relates the two sides of a registration while threads are     *)
(* half way through changing them: an observable or a signal knows an      *)
(* observer only if the observer observes it, or a frame is about to say   *)
(* so, and a frame that unregisters has removed what it says it has.       *)
(*                                                                         *)
(* The last two theorems are about a program in which one thread works and *)
(* the others, as garbage collectors do, only let go of observers          *)
(* (OneWorker).  Sole says who may then hold and wait for the settings,    *)
(* Ledger who still vouches for an observer with a deferred notification.  *)
(***************************************************************************)
EXTENDS ThreadSafeObserver, FiniteSetTheorems, SequenceTheorems, TLAPS

NotifyFrames == [at : {"notify"}, s : Observables, pc : {"check", "wait", "emit"},
                 todo : SUBSET Observers, locked : BOOLEAN]
UpdateFrames == [at : {"update"}, o : Observers, pc : {"enter", "body", "leave", "exit"}]
EnableFrames == [at : {"enable"}, todo : SUBSET Observers, successful : BOOLEAN]
RegisterFrames == [at : {"register"}, o : Observers, s : Observables]
JoinFrames == {f \in [at : Joins, o : Observers, p : Observers, pc : {"copy", "join"},
                     todo : SUBSET Observables] : f.at = "borrow" => f.pc = "join"}
DetachFrames == [at : {"destroy", "unregister", "reset"}, o : Observers,
                 pc : {"deactivate", "unhook", "forget", "disconnect"},
                 todo : SUBSET Observables, now : SUBSET Observables,
                 all : SUBSET Observables]
Frame == NotifyFrames \cup UpdateFrames \cup EnableFrames \cup RegisterFrames
             \cup JoinFrames \cup DetachFrames

\* calls of clients that nothing calls
BottomKinds == {"unregister"} \cup Joins

StackOK(s) ==
    /\ s \in Seq(Frame)
    /\ \A k \in 1..Len(s) : s[k].at \in BottomKinds => k = Len(s)

-----------------------------------------------------------------------------
LEMMA FrameKinds ==
    ASSUME NEW f \in Frame
    PROVE  /\ f.at = "notify" => f \in NotifyFrames
           /\ f.at = "update" => f \in UpdateFrames
           /\ f.at = "enable" => f \in EnableFrames
           /\ f.at = "register" => f \in RegisterFrames
           /\ f.at \in Joins => f \in JoinFrames
           /\ f.at \in {"destroy", "unregister", "reset"} => f \in DetachFrames
BY DEF Frame, NotifyFrames, UpdateFrames, EnableFrames, RegisterFrames, JoinFrames,
       DetachFrames, Joins

LEMMA ConcatFrames ==
    ASSUME NEW S, NEW q \in Seq(S), NEW s \in Seq(S)
    PROVE  q \o s \in Seq(S) /\ ToSet(q \o s) = ToSet(q) \cup ToSet(s)
<1>1. /\ q \o s \in Seq(S) /\ Len(q \o s) = Len(q) + Len(s)
      /\ Len(q) \in Nat /\ Len(s) \in Nat
      /\ DOMAIN q = 1..Len(q) /\ DOMAIN s = 1..Len(s)
      /\ DOMAIN (q \o s) = 1..Len(q \o s)
      /\ \A i \in 1..Len(q) + Len(s) :
            (q \o s)[i] = IF i <= Len(q) THEN q[i] ELSE s[i - Len(q)]
    BY ConcatProperties, LenProperties
<1>2. ASSUME NEW f \in ToSet(q \o s) PROVE f \in ToSet(q) \cup ToSet(s)
    <2>1. PICK i \in 1..Len(q) + Len(s) : f = (q \o s)[i]
        BY <1>1, <1>2 DEF ToSet
    <2>2. CASE i <= Len(q)
        <3>1. i \in DOMAIN q /\ f = q[i]
            BY <1>1, <2>1, <2>2
        <3> QED BY <3>1 DEF ToSet
    <2>3. CASE ~ (i <= Len(q))
        <3>1. i - Len(q) \in DOMAIN s /\ f = s[i - Len(q)]
            BY <1>1, <2>1, <2>3
        <3> QED BY <3>1 DEF ToSet
    <2> QED BY <2>2, <2>3
<1>3. ASSUME NEW f \in ToSet(q) PROVE f \in ToSet(q \o s)
    <2>1. PICK i \in 1..Len(q) : f = q[i]
        BY <1>1, <1>3 DEF ToSet
    <2>2. i \in DOMAIN (q \o s) /\ f = (q \o s)[i]
        BY <1>1, <2>1
    <2> QED BY <2>2 DEF ToSet
<1>4. ASSUME NEW f \in ToSet(s) PROVE f \in ToSet(q \o s)
    <2>1. PICK i \in 1..Len(s) : f = s[i]
        BY <1>1, <1>4 DEF ToSet
    <2>2. i + Len(q) \in 1..Len(q) + Len(s) /\ ~ (i + Len(q) <= Len(q)) /\ i + Len(q) - Len(q) = i
        BY <1>1, <2>1
    <2>3. i + Len(q) \in DOMAIN (q \o s) /\ f = (q \o s)[i + Len(q)]
        BY <1>1, <2>1, <2>2
    <2> QED BY <2>3 DEF ToSet
<1> QED BY <1>1, <1>2, <1>3, <1>4

\* frames that nothing lies beneath stay there
LEMMA OnTop ==
    ASSUME NEW q \in Seq(Frame), NEW s, StackOK(s),
           \A k \in 1..Len(q) : q[k].at \in BottomKinds => k = Len(q) /\ s = <<>>
    PROVE  StackOK(q \o s) /\ ToSet(q \o s) = ToSet(q) \cup ToSet(s)
<1>1. s \in Seq(Frame)
    BY DEF StackOK
<1>2. /\ q \o s \in Seq(Frame) /\ Len(q \o s) = Len(q) + Len(s)
      /\ Len(q) \in Nat /\ Len(s) \in Nat
      /\ \A i \in 1..Len(q) + Len(s) :
            (q \o s)[i] = IF i <= Len(q) THEN q[i] ELSE s[i - Len(q)]
    BY <1>1, ConcatProperties, LenProperties
<1>3. ASSUME NEW k \in 1..Len(q) + Len(s), (q \o s)[k].at \in BottomKinds
      PROVE  k = Len(q) + Len(s)
    <2>1. CASE k <= Len(q)
        <3>1. k \in 1..Len(q) /\ q[k].at \in BottomKinds
            BY <1>2, <1>3, <2>1
        <3>2. k = Len(q) /\ s = <<>>
            BY <3>1
        <3>3. Len(s) = 0
            BY <3>2
        <3>4. Len(q) \in Nat
            BY <1>2
        <3> QED BY <3>2, <3>3, <3>4
    <2>2. CASE ~ (k <= Len(q))
        <3>1. k - Len(q) \in 1..Len(s) /\ s[k - Len(q)].at \in BottomKinds
            BY <1>2, <1>3, <2>2
        <3>2. k - Len(q) = Len(s)
            BY <3>1 DEF StackOK
        <3> QED BY <1>2, <3>2
    <2> QED BY <2>1, <2>2
<1>4. StackOK(q \o s)
    BY <1>2, <1>3 DEF StackOK
<1> QED BY <1>1, <1>4, ConcatFrames

LEMMA PushStack ==
    ASSUME NEW s, StackOK(s), NEW f \in Frame, f.at \in BottomKinds => s = <<>>
    PROVE  StackOK(<<f>> \o s) /\ ToSet(<<f>> \o s) = {f} \cup ToSet(s)
<1>1. <<f>> \in Seq(Frame) /\ Len(<<f>>) = 1 /\ <<f>>[1] = f /\ ToSet(<<f>>) = {f}
    BY DEF ToSet
<1> DEFINE q == <<f>>
<1>2. \A k \in 1..Len(q) : q[k].at \in BottomKinds => k = Len(q) /\ s = <<>>
    BY <1>1
<1> HIDE DEF q
<1>3. StackOK(q \o s) /\ ToSet(q \o s) = ToSet(q) \cup ToSet(s)
    BY <1>1, <1>2, OnTop DEF q
<1> QED BY <1>1, <1>3 DEF q

LEMMA CallStack ==
    ASSUME NEW s, StackOK(s), NEW f \in Frame, f.at \in BottomKinds => s = <<>>,
           NEW g \in Frame, g.at \notin BottomKinds
    PROVE  StackOK(<<g, f>> \o s) /\ ToSet(<<g, f>> \o s) = {f, g} \cup ToSet(s)
<1>1. /\ <<g, f>> \in Seq(Frame) /\ Len(<<g, f>>) = 2
      /\ <<g, f>>[1] = g /\ <<g, f>>[2] = f /\ ToSet(<<g, f>>) = {f, g}
    BY DEF ToSet
<1> DEFINE q == <<g, f>>
<1>2. \A k \in 1..Len(q) : q[k].at \in BottomKinds => k = Len(q) /\ s = <<>>
    BY <1>1
<1> HIDE DEF q
<1>3. StackOK(q \o s) /\ ToSet(q \o s) = ToSet(q) \cup ToSet(s)
    BY <1>1, <1>2, OnTop DEF q
<1> QED BY <1>1, <1>3 DEF q

LEMMA EmptyStack == StackOK(<<>>) /\ ToSet(<<>>) = {}
BY DEF StackOK, ToSet

LEMMA TwoStack ==
    ASSUME NEW f \in Frame, NEW g \in Frame, g.at \notin BottomKinds
    PROVE  StackOK(<<g, f>>) /\ ToSet(<<g, f>>) = {f, g}
<1>1. /\ <<g, f>> \in Seq(Frame) /\ Len(<<g, f>>) = 2
      /\ <<g, f>>[1] = g /\ <<g, f>>[2] = f /\ ToSet(<<g, f>>) = {f, g}
    BY DEF ToSet
<1> QED BY <1>1 DEF StackOK

LEMMA PopStack ==
    ASSUME NEW s, StackOK(s), s # <<>>
    PROVE  /\ StackOK(Tail(s)) /\ Head(s) \in Frame /\ Head(s) \in ToSet(s)
           /\ ToSet(Tail(s)) \subseteq ToSet(s)
           /\ Head(s).at \in BottomKinds => Tail(s) = <<>> /\ ToSet(s) = {Head(s)}
<1>1. s \in Seq(Frame) /\ Len(s) \in Nat \ {0} /\ DOMAIN s = 1..Len(s)
    BY EmptySeq, LenProperties DEF StackOK
<1>2. /\ Tail(s) \in Seq(Frame) /\ Len(Tail(s)) = Len(s) - 1
      /\ \A i \in 1..Len(Tail(s)) : Tail(s)[i] = s[i + 1]
      /\ Head(s) = s[1] /\ DOMAIN Tail(s) = 1..Len(Tail(s))
    BY <1>1, HeadTailProperties, LenProperties
<1>3. \A k \in 1..Len(Tail(s)) : Tail(s)[k].at \in BottomKinds => k = Len(Tail(s))
    <2> SUFFICES ASSUME NEW k \in 1..Len(Tail(s)), Tail(s)[k].at \in BottomKinds
                 PROVE  k = Len(Tail(s))
        OBVIOUS
    <2>1. k + 1 \in 1..Len(s) /\ s[k + 1].at \in BottomKinds
        BY <1>1, <1>2
    <2>2. k + 1 = Len(s)
        BY <2>1 DEF StackOK
    <2>3. Len(s) \in Nat /\ Len(Tail(s)) = Len(s) - 1 /\ k \in 1..Len(Tail(s))
        BY <1>1, <1>2
    <2>4. k \in Int
        BY <2>3
    <2> QED BY <2>2, <2>3, <2>4
<1>4. StackOK(Tail(s))
    BY <1>2, <1>3 DEF StackOK
<1>5. Head(s) \in Frame /\ Head(s) \in ToSet(s)
    BY <1>1, <1>2 DEF ToSet
<1>6. ToSet(Tail(s)) \subseteq ToSet(s)
    <2> SUFFICES ASSUME NEW i \in 1..Len(Tail(s)) PROVE Tail(s)[i] \in ToSet(s)
        BY <1>2 DEF ToSet
    <2>1. i + 1 \in DOMAIN s /\ Tail(s)[i] = s[i + 1]
        BY <1>1, <1>2
    <2> QED BY <2>1 DEF ToSet
<1>7. ASSUME Head(s).at \in BottomKinds PROVE Tail(s) = <<>> /\ ToSet(s) = {Head(s)}
    <2>1. 1 \in 1..Len(s) /\ s[1].at \in BottomKinds
        BY <1>1, <1>2, <1>7
    <2>2. 1 = Len(s)
        BY <2>1 DEF StackOK
    <2>3. DOMAIN s = {1}
        <3>1. DOMAIN s = 1..1
            BY <1>1, <2>2
        <3> QED BY <3>1
    <2>4. ToSet(s) = {Head(s)}
        BY <1>2, <2>3 DEF ToSet
    <2>5. Tail(s) = <<>>
        <3>1. Len(Tail(s)) = 0
            <4>1. Len(Tail(s)) = Len(s) - 1
                BY <1>2
            <4>2. Len(s) = 1
                BY <2>2
            <4>3. 1 - 1 = 0
                OBVIOUS
            <4> QED BY <4>1, <4>2, <4>3
        <3> HIDE DEF ToSet
        <3>2. Tail(s) \in Seq(Frame)
            BY <1>2
        <3> QED BY <3>1, <3>2, EmptySeq
    <2> QED BY <2>4, <2>5
<1> QED BY <1>4, <1>5, <1>6, <1>7

\* what SetToSeq makes of a finite set
LEMMA SetToSeqElements ==
    ASSUME NEW S, IsFiniteSet(S)
    PROVE  SetToSeq(S) \in Seq(S)
<1> DEFINE D == 1..Cardinality(S)
<1>1. Cardinality(S) \in Nat /\ \E f \in [D -> S] : IsInjective(f)
    BY FS_CardinalityType DEF ExistsBijection, Bijection, Injection
<1>2. SetToSeq(S) \in [D -> S]
    BY <1>1 DEF SetToSeq
<1> QED BY <1>1, <1>2

-----------------------------------------------------------------------------
(***************************************************************************)
(* The inductive invariant.                                                *)
(***************************************************************************)
Running(f) == f.at = "update" /\ f.pc \in {"body", "leave"} /\ f.o \notin OnStack
Joined(f) == f.at \in Joins /\ f.pc = "join"

\* the observer whose observables f copies
Lender(f) == IF f.at = "borrow" THEN f.p ELSE f.o

\* the observer whose registrations f changes or relies on
Uses(f) ==
    CASE f.at = "borrow" -> {f.p}
      [] f.at \in {"register", "unregister", "assign", "construct", "destroy"} -> {f.o}
      [] OTHER -> {}

Clash(f, g) ==
    \/ Uses(f) \cap Uses(g) # {}
    \/ f.at = "construct" /\ g.at = "borrow" /\ f.o = g.o
    \/ g.at = "construct" /\ f.at = "borrow" /\ f.o = g.o

ObjectTypes ==
    /\ owned \in [Observers -> BOOLEAN] /\ active \in [Observers -> BOOLEAN]
    /\ observables \in [Observers -> SUBSET Observables]
    /\ unborn \subseteq Observers

StackTypes == stack \in [Threads -> Seq(Frame)] /\ \A t \in Threads : StackOK(stack[t])

LinkTypes ==
    /\ deferredObservers \subseteq Observers
    /\ observers \in [Observables -> SUBSET Observers]
    /\ slots \in [Observables -> SUBSET Observers]

Core ==
    /\ ObjectTypes /\ StackTypes
    \* update() runs on active proxies only
    /\ \A t \in Threads : \A f \in Frames(t) : Running(f) => active[f.o]
    \* nobody refers to what is being destroyed, or is not there yet
    /\ \A t \in Threads : \A f \in Frames(t) :
          f.at = "destroy" => ~Alive(f.o) /\ f.o \notin unborn
    /\ \A o \in unborn : ~Alive(o)
    \* one thread at a time changes the registrations of an observer
    /\ \A t, u \in Threads : t # u =>
          \A f \in Frames(t), g \in Frames(u) : ~Clash(f, g)
    /\ \A t \in Threads : \A f \in Frames(t) : f.at = "construct" => ~owned[f.o]
    \* an observable that is still to be registered with is kept by its lender
    /\ \A t \in Threads : \A f \in Frames(t) :
          Joined(f) => f.todo \subseteq observables[Lender(f)]

\* What a frame must satisfy to be put on the stack of t.
Admitted(t, f) ==
    /\ \A o \in Observers : Pins(f, o) => Alive(o) \/ o \in unborn \ unborn'
    /\ Running(f) => active'[f.o]
    /\ f.at = "destroy" => f.o \notin unborn /\ (~Alive(f.o) \/ ~Alive(f.o)')
    /\ f.at = "construct" => ~owned'[f.o]
    /\ Joined(f) => f.todo \subseteq observables'[Lender(f)]
    /\ \A u \in Threads \ {t} : \A g \in Frames(u) : ~Clash(f, g)

LEMMA FramePins ==
    ASSUME NEW f \in Frame
    PROVE  /\ Running(f) => f.o \in Observers /\ Pins(f, f.o)
           /\ f.at = "construct" => f.o \in Observers /\ Pins(f, f.o)
           /\ f.at \in Joins => /\ Lender(f) \in Observers /\ Pins(f, Lender(f))
                                /\ Uses(f) = {Lender(f)}
           /\ f.at = "destroy" => f.o \in Observers /\ Uses(f) = {f.o}
           /\ \A o \in Uses(f) : o \in Observers /\ (Pins(f, o) \/ f.at = "destroy")
BY FrameKinds DEF Running, Joins, Lender, Uses, Pins, UpdateFrames, RegisterFrames,
                  JoinFrames, DetachFrames

LEMMA TypedFrames ==
    ASSUME StackTypes, NEW t \in Threads
    PROVE  /\ \A f \in Frames(t) : f \in Frame
           /\ StackOK(stack[t]) /\ stack[t] \in Seq(Frame)
BY DEF StackTypes, Frames, ToSet

\* The invariant is kept, and an observer that nobody refers to is gone for good.
Kept ==
    /\ Core'
    /\ \A o \in Observers : Alive(o)' => Alive(o) \/ o \in unborn \ unborn'

\* A step of t that changes its stack, and maybe what there is, keeps the invariant
\* if it refers only to what was referred to before, and keeps what the frames that
\* stay rely on.
LEMMA Change ==
    ASSUME Core, NEW t \in Threads, NEW s,
           StackOK(s), stack' = [stack EXCEPT ![t] = s],
           ObjectTypes', unborn' \subseteq unborn,
           \A o \in Observers : owned'[o] => Alive(o),
           \A p, o \in Observers : o \in observables'[p] => Alive(o),
           \A o \in Observers : active[o] /\ Alive(o) => active'[o],
           \A u \in Threads : \A f \in Frames(u) :
              f \in ToSet(stack'[u]) /\ Joined(f) =>
                  observables[Lender(f)] \subseteq observables'[Lender(f)],
           \A u \in Threads : \A f \in Frames(u) :
              f \in ToSet(stack'[u]) /\ f.at = "construct" => ~owned'[f.o],
           \A o \in unborn' : ~Alive(o),
           \A f \in ToSet(s) : f \in Frames(t) \/ Admitted(t, f)
    PROVE  Kept
<1> DEFINE new(u) == ToSet(stack'[u])
           known(f, u) == f \in Frames(u) \/ (u = t /\ Admitted(t, f))
<1>1. StackTypes'
    BY DEF Core, StackTypes, StackOK
<1>2. \A u \in Threads : \A f \in new(u) : f \in Frame /\ known(f, u)
    <2>1. \A u \in Threads \ {t} : stack'[u] = stack[u]
        BY DEF Core, StackTypes
    <2>2. stack'[t] = s
        BY DEF Core, StackTypes
    <2>3. \A u \in Threads : \A f \in new(u) : f \in Frame
        BY <1>1 DEF StackTypes, ToSet
    <2> QED BY <2>1, <2>2, <2>3 DEF Frames
<1>3. \A o \in Observers : Alive(o)' => Alive(o) \/ o \in unborn \ unborn'
    <2> SUFFICES ASSUME NEW o \in Observers, Alive(o)'
                 PROVE  Alive(o) \/ o \in unborn \ unborn'
        OBVIOUS
    <2>1. CASE owned'[o] \/ \E p \in Observers : o \in observables'[p]
        BY <2>1
    <2>2. CASE \E u \in Threads : \E f \in new(u) : Pins(f, o)
        <3>1. PICK u \in Threads : \E f \in new(u) : Pins(f, o)
            BY <2>2
        <3>2. PICK f \in new(u) : Pins(f, o)
            BY <3>1
        <3>3. CASE f \in Frames(u)
            BY <3>2, <3>3 DEF Alive, Referenced, Frames
        <3>4. CASE u = t /\ Admitted(t, f)
            BY <3>2, <3>4 DEF Admitted
        <3> QED BY <1>2, <3>3, <3>4
    <2> QED BY <2>1, <2>2 DEF Alive, Referenced
<1>4. ASSUME NEW u \in Threads, NEW f \in new(u)
      PROVE  /\ Running(f) => active'[f.o]
             /\ f.at = "destroy" => ~Alive(f.o)' /\ f.o \notin unborn'
             /\ f.at = "construct" => ~owned'[f.o]
             /\ Joined(f) => f.todo \subseteq observables'[Lender(f)]
    <2>1. f \in Frame /\ known(f, u)
        BY <1>2
    <2>2. ASSUME f \in Frames(u), Running(f)
          PROVE  active'[f.o]
        <3>1. f.o \in Observers /\ Alive(f.o)
            BY <2>1, <2>2, FramePins DEF Alive, Referenced, Frames
        <3>2. active[f.o]
            BY <2>2 DEF Core
        <3> QED BY <3>1, <3>2
    <2>3. ASSUME f.at = "destroy"
          PROVE  ~Alive(f.o)' /\ f.o \notin unborn'
        <3>1. f.o \in Observers /\ f.o \notin unborn /\ (~Alive(f.o) \/ ~Alive(f.o)')
            BY <2>1, <2>3, FramePins DEF Core, Admitted
        <3> QED BY <1>3, <3>1
    <2>4. ASSUME f \in Frames(u), Joined(f)
          PROVE  f.todo \subseteq observables'[Lender(f)]
        BY <2>4 DEF Core
    <2> QED BY <2>1, <2>2, <2>3, <2>4 DEF Admitted
<1>5. ASSUME NEW u \in Threads, NEW v \in Threads, u # v, NEW f \in new(u), NEW g \in new(v)
      PROVE  ~Clash(f, g)
    <2>1. CASE f \in Frames(u) /\ g \in Frames(v)
        BY <1>5, <2>1 DEF Core
    <2>2. CASE u = t /\ Admitted(t, f)
        <3>1. g \in Frames(v)
            BY <1>2, <1>5, <2>2
        <3> QED BY <1>5, <2>2, <3>1 DEF Admitted
    <2>3. CASE v = t /\ Admitted(t, g)
        <3>1. f \in Frames(u)
            BY <1>2, <1>5, <2>3
        <3>2. ~Clash(g, f)
            BY <1>5, <2>3, <3>1 DEF Admitted
        <3> QED BY <3>2 DEF Clash
    <2> QED BY <1>2, <1>5, <2>1, <2>2, <2>3
<1>6. \A o \in unborn' : ~Alive(o)'
    <2>1. unborn' \subseteq Observers
        BY DEF ObjectTypes
    <2> QED BY <1>3, <2>1
<1>7. \A u \in Threads : Frames(u)' = new(u)
    BY DEF Frames
<1> QED BY <1>1, <1>3, <1>4, <1>5, <1>6, <1>7 DEF Core, Kept

-----------------------------------------------------------------------------
(***************************************************************************)
(* Steps that change one stack and nothing else.                           *)
(***************************************************************************)
LEMMA TopFrame ==
    ASSUME StackTypes, NEW t \in Threads, ~Idle(t)
    PROVE  /\ Top(t) \in Frame /\ Top(t) \in Frames(t)
           /\ StackOK(Tail(stack[t])) /\ ToSet(Tail(stack[t])) \subseteq Frames(t)
           /\ Top(t).at \in BottomKinds => Tail(stack[t]) = <<>>
BY TypedFrames, PopStack DEF Idle, Top, Frames

\* frames that refer to nothing
Plain(f) ==
    \/ f.at \in {"notify", "enable", "reset"}
    \/ f.at = "update" /\ (f.pc \in {"enter", "exit"} \/ f.o \in OnStack)

\* frames that refer to what a frame before them did
Follows(f, g) ==
    \/ Running(f) /\ Running(g) /\ f.o = g.o
    \/ f.at \in {"unregister", "destroy"} /\ f.at = g.at /\ f.o = g.o
    \/ /\ f.at \in Joins /\ f.at = g.at /\ f.o = g.o /\ f.p = g.p /\ f.pc = g.pc
       /\ f.todo \subseteq g.todo

LEMMA PlainAdmitted ==
    ASSUME NEW f \in Frame, Plain(f), NEW t \in Threads
    PROVE  Admitted(t, f)
<1>1. Uses(f) = {} /\ ~Running(f) /\ ~Joined(f) /\ f.at \notin {"destroy", "construct", "borrow"}
    BY DEF Plain, Uses, Running, Joined, Joins
<1>2. \A o \in Observers : ~Pins(f, o)
    BY DEF Plain, Pins, Joins
<1>3. \A g : ~Clash(f, g)
    BY <1>1 DEF Clash
<1> QED BY <1>1, <1>2, <1>3 DEF Admitted

LEMMA FollowsAdmitted ==
    ASSUME Core, NEW t \in Threads, NEW f \in Frame, NEW g \in Frames(t),
           Follows(f, g), UNCHANGED <<owned, observables>>,
           \A o \in Observers : active[o] /\ Alive(o) => active'[o]
    PROVE  Admitted(t, f)
<1>1. g \in Frame
    BY TypedFrames DEF Core
<1>2. \A o \in Observers : Pins(f, o) => Pins(g, o)
    BY DEF Follows, Pins, Running, Joins
<1>3. \A o \in Observers : Pins(f, o) => Alive(o)
    BY <1>2 DEF Alive, Referenced, Frames
<1>4. Running(f) => active'[f.o]
    <2> SUFFICES ASSUME Running(f) PROVE active'[f.o]
        OBVIOUS
    <2>1. Running(g) /\ f.o = g.o
        BY DEF Follows, Running, Joins
    <2>2. f.o \in Observers /\ Alive(f.o)
        BY <1>3, FramePins
    <2> QED BY <2>1, <2>2 DEF Core
<1>5. f.at = "destroy" => f.o \notin unborn /\ ~Alive(f.o)
    BY DEF Follows, Running, Joins, Core
<1>6. f.at = "construct" => ~owned'[f.o]
    BY DEF Follows, Running, Joins, Core
<1>7. Joined(f) => f.todo \subseteq observables'[Lender(f)]
    <2> SUFFICES ASSUME Joined(f) PROVE f.todo \subseteq observables[Lender(f)]
        OBVIOUS
    <2>1. Joined(g) /\ Lender(g) = Lender(f) /\ f.todo \subseteq g.todo
        BY DEF Follows, Running, Joined, Lender, Joins
    <2> QED BY <2>1 DEF Core
<1>8. \A h : Clash(f, h) => Clash(g, h)
    <2>1. Uses(f) \subseteq Uses(g)
        BY DEF Follows, Uses, Running, Joins
    <2>2. f.at \in {"construct", "borrow"} => g.at = f.at /\ g.o = f.o
        BY DEF Follows, Running, Joins
    <2> QED BY <2>1, <2>2 DEF Clash
<1>9. \A u \in Threads \ {t} : \A h \in Frames(u) : ~Clash(f, h)
    BY <1>8 DEF Core
<1> QED BY <1>3, <1>4, <1>5, <1>6, <1>7, <1>9 DEF Admitted

LEMMA StackStep ==
    ASSUME Core, NEW t \in Threads, NEW s,
           StackOK(s), stack' = [stack EXCEPT ![t] = s],
           UNCHANGED <<owned, observables, unborn>>,
           active' \in [Observers -> BOOLEAN],
           \A o \in Observers : active[o] /\ Alive(o) => active'[o],
           \A f \in ToSet(s) : f \in Frames(t) \/ Admitted(t, f)
    PROVE  Kept
<1>1. ObjectTypes'
    BY DEF Core, ObjectTypes
<1>2. \A o \in Observers : owned'[o] => Alive(o)
    BY DEF Alive, Referenced
<1>3. \A p, o \in Observers : o \in observables'[p] => Alive(o)
    BY DEF Alive, Referenced
<1>4. \A u \in Threads : \A f \in Frames(u) : f.at = "construct" => ~owned'[f.o]
    BY DEF Core
<1>5. \A o \in unborn' : ~Alive(o)
    BY DEF Core
<1> QED BY <1>1, <1>2, <1>3, <1>4, <1>5, Change

LEMMA PushStep ==
    ASSUME Core, NEW t \in Threads, NEW f \in Frame, Admitted(t, f),
           f.at \in BottomKinds => Idle(t), stack' = Push(t, f),
           UNCHANGED <<owned, observables, active, unborn>>
    PROVE  Kept
<1>1. StackOK(stack[t])
    BY TypedFrames DEF Core
<1> DEFINE s == <<f>> \o stack[t]
<1>2. StackOK(s) /\ ToSet(s) = {f} \cup Frames(t)
    BY <1>1, PushStack DEF Idle, Frames
<1>3. stack' = [stack EXCEPT ![t] = s]
    BY DEF Push
<1> HIDE DEF s
<1>m. active' \in [Observers -> BOOLEAN] /\ \A o \in Observers : active[o] => active'[o]
    BY DEF Core, ObjectTypes
<1> QED BY <1>2, <1>3, <1>m, StackStep

LEMMA PopStep ==
    ASSUME Core, NEW t \in Threads, ~Idle(t), stack' = Pop(t),
           UNCHANGED <<owned, observables, active, unborn>>
    PROVE  Kept
<1> DEFINE s == Tail(stack[t])
<1>1. StackOK(s) /\ ToSet(s) \subseteq Frames(t)
    BY TopFrame DEF Core
<1>2. stack' = [stack EXCEPT ![t] = s]
    BY DEF Pop
<1> HIDE DEF s
<1>m. active' \in [Observers -> BOOLEAN] /\ \A o \in Observers : active[o] => active'[o]
    BY DEF Core, ObjectTypes
<1> QED BY <1>1, <1>2, <1>m, StackStep

LEMMA ReplaceStep ==
    ASSUME Core, NEW t \in Threads, ~Idle(t), NEW f \in Frame, Admitted(t, f),
           f.at \in BottomKinds => Top(t).at \in BottomKinds, stack' = Replace(t, f),
           UNCHANGED <<owned, observables, active, unborn>>
    PROVE  Kept
<1> DEFINE s == <<f>> \o Tail(stack[t])
<1>1. /\ StackOK(Tail(stack[t])) /\ ToSet(Tail(stack[t])) \subseteq Frames(t)
      /\ f.at \in BottomKinds => Tail(stack[t]) = <<>>
    BY TopFrame DEF Core
<1>2. StackOK(s) /\ ToSet(s) \subseteq {f} \cup Frames(t)
    BY <1>1, PushStack
<1>3. stack' = [stack EXCEPT ![t] = s]
    BY DEF Replace
<1> HIDE DEF s
<1>m. active' \in [Observers -> BOOLEAN] /\ \A o \in Observers : active[o] => active'[o]
    BY DEF Core, ObjectTypes
<1> QED BY <1>2, <1>3, <1>m, StackStep

LEMMA CallStep ==
    ASSUME Core, NEW t \in Threads, ~Idle(t),
           NEW f \in Frame, Admitted(t, f), NEW g \in Frame, Admitted(t, g),
           f.at \in BottomKinds => Top(t).at \in BottomKinds, g.at \notin BottomKinds,
           stack' = [stack EXCEPT ![t] = <<g, f>> \o Tail(@)],
           UNCHANGED <<owned, observables, active, unborn>>
    PROVE  Kept
<1> DEFINE s == <<g, f>> \o Tail(stack[t])
<1>1. /\ StackOK(Tail(stack[t])) /\ ToSet(Tail(stack[t])) \subseteq Frames(t)
      /\ f.at \in BottomKinds => Tail(stack[t]) = <<>>
    BY TopFrame DEF Core
<1>2. StackOK(s) /\ ToSet(s) \subseteq {f, g} \cup Frames(t)
    <2> DEFINE r == Tail(stack[t])
    <2>1. StackOK(r) /\ (f.at \in BottomKinds => r = <<>>)
        BY <1>1
    <2> HIDE DEF r
    <2>2. StackOK(<<g, f>> \o r) /\ ToSet(<<g, f>> \o r) = {f, g} \cup ToSet(r)
        BY <2>1, CallStack
    <2> QED BY <1>1, <2>2 DEF r
<1>3. stack' = [stack EXCEPT ![t] = s]
    OBVIOUS
<1> HIDE DEF s
<1>m. active' \in [Observers -> BOOLEAN] /\ \A o \in Observers : active[o] => active'[o]
    BY DEF Core, ObjectTypes
<1> QED BY <1>2, <1>3, <1>m, StackStep

\* the steps of the notification and of the switch, which take no reference
LEMMA NotifyKeeps ==
    ASSUME Core, LinkTypes, NEW t \in Threads,
           \/ \E s \in Sources : Notify(t, s)
           \/ CheckEnabled(t) \/ LockAndCheck(t) \/ CallSlot(t) \/ EndNotify(t)
           \/ Enable(t) \/ CallDeferred(t) \/ NoteFailure(t) \/ EndEnable(t)
    PROVE  Kept
<1> USE DEF objects, proxies
<1>t. ASSUME ~Idle(t)
      PROVE  /\ Top(t) \in Frame
             /\ Top(t).at = "notify" => Top(t) \in NotifyFrames
             /\ Top(t).at = "enable" => Top(t) \in EnableFrames
    BY <1>t, TopFrame, FrameKinds DEF Core
<1>1. ASSUME NEW s \in Sources, Notify(t, s)
      PROVE  Kept
    <2>1. NotifyFrame(s) \in Frame
        BY DEF Observables, NotifyFrame, Frame, NotifyFrames
    <2>2. Plain(NotifyFrame(s)) /\ NotifyFrame(s).at \notin BottomKinds
        BY DEF Plain, NotifyFrame, BottomKinds, Joins
    <2>3. Admitted(t, NotifyFrame(s))
        BY <2>1, <2>2, PlainAdmitted
    <2> QED BY <1>1, <2>1, <2>2, <2>3, PushStep DEF Notify
<1>2. ASSUME CheckEnabled(t)
      PROVE  Kept
    <2> DEFINE f == IF updatesType = "enabled"
                      THEN [Top(t) EXCEPT !.pc = "emit", !.todo = slots[Top(t).s]]
                      ELSE [Top(t) EXCEPT !.pc = "wait"]
    <2>1. ~Idle(t) /\ stack' = Replace(t, f) /\ UNCHANGED <<owned, observables, active, unborn>>
          /\ Top(t) \in NotifyFrames
        BY <1>2, <1>t DEF CheckEnabled, At
    <2>2. f \in NotifyFrames
        BY <2>1 DEF NotifyFrames, LinkTypes
    <2> HIDE DEF f
    <2>3. f \in Frame /\ Plain(f) /\ f.at \notin BottomKinds
        BY <2>2 DEF Frame, NotifyFrames, Plain, BottomKinds, Joins
    <2> QED BY <2>1, <2>3, PlainAdmitted, ReplaceStep
<1>3. ASSUME LockAndCheck(t)
      PROVE  Kept
    <2> DEFINE f == [Top(t) EXCEPT !.pc = "emit", !.locked = TRUE, !.todo = slots[Top(t).s]]
    <2>1. ~Idle(t) /\ (stack' = Replace(t, f) \/ stack' = Pop(t))
          /\ UNCHANGED <<owned, observables, active, unborn>> /\ Top(t) \in NotifyFrames
        BY <1>3, <1>t DEF LockAndCheck, At
    <2>2. f \in NotifyFrames
        BY <2>1 DEF NotifyFrames, LinkTypes
    <2> HIDE DEF f
    <2>3. f \in Frame /\ Plain(f) /\ f.at \notin BottomKinds
        BY <2>2 DEF Frame, NotifyFrames, Plain, BottomKinds, Joins
    <2> QED BY <2>1, <2>3, PlainAdmitted, ReplaceStep, PopStep
<1>4. ASSUME CallSlot(t)
      PROVE  Kept
    <2>1. ~Idle(t) /\ UNCHANGED <<owned, observables, active, unborn>> /\ Top(t) \in NotifyFrames
        BY <1>4, <1>t DEF CallSlot, At
    <2>2. PICK o \in Top(t).todo :
             LET f == [Top(t) EXCEPT !.todo = @ \ {o}] IN
             stack' = [stack EXCEPT ![t] =
                 (IF o \in slots[f.s] THEN <<UpdateFrame(o), f>> ELSE <<f>>) \o Tail(@)]
        BY <1>4 DEF CallSlot
    <2> DEFINE f == [Top(t) EXCEPT !.todo = @ \ {o}]
    <2>3. f \in NotifyFrames /\ o \in Observers
        BY <2>1 DEF NotifyFrames
    <2>4. \/ stack' = [stack EXCEPT ![t] = <<UpdateFrame(o), f>> \o Tail(@)]
          \/ stack' = Replace(t, f)
        BY <2>2 DEF Replace
    <2> HIDE DEF f
    <2>5. f \in Frame /\ Plain(f) /\ f.at \notin BottomKinds
        BY <2>3 DEF Frame, NotifyFrames, Plain, BottomKinds, Joins
    <2>6. UpdateFrame(o) \in Frame /\ Plain(UpdateFrame(o)) /\ UpdateFrame(o).at \notin BottomKinds
        BY <2>3 DEF UpdateFrame, Frame, UpdateFrames, Plain, BottomKinds, Joins
    <2>7. Admitted(t, f) /\ Admitted(t, UpdateFrame(o))
        BY <2>5, <2>6, PlainAdmitted
    <2>8. CASE stack' = Replace(t, f)
        BY <2>1, <2>5, <2>7, <2>8, ReplaceStep
    <2>9. CASE stack' = [stack EXCEPT ![t] = <<UpdateFrame(o), f>> \o Tail(@)]
        BY <2>1, <2>5, <2>6, <2>7, <2>9, CallStep
    <2> QED BY <2>4, <2>8, <2>9
<1>5. ASSUME EndNotify(t)
      PROVE  Kept
    BY <1>5, PopStep DEF EndNotify, At
<1>6. ASSUME Enable(t)
      PROVE  Kept
    <2> DEFINE f == EnableFrame(deferredObservers)
    <2>1. f \in Frame /\ Plain(f) /\ f.at \notin BottomKinds
        BY DEF LinkTypes, EnableFrame, Frame, EnableFrames, Plain, BottomKinds, Joins
    <2>2. stack' = Push(t, f) /\ UNCHANGED <<owned, observables, active, unborn>>
        BY <1>6 DEF Enable
    <2> HIDE DEF f
    <2> QED BY <2>1, <2>2, PlainAdmitted, PushStep
<1>7. ASSUME CallDeferred(t)
      PROVE  Kept
    <2>1. ~Idle(t) /\ UNCHANGED <<owned, observables, active, unborn>> /\ Top(t) \in EnableFrames
        BY <1>7, <1>t DEF CallDeferred, Enabling
    <2>2. PICK o \in Top(t).todo : stack' = [stack EXCEPT ![t] =
              <<UpdateFrame(o), [Top(t) EXCEPT !.todo = @ \ {o}]>> \o Tail(@)]
        BY <1>7 DEF CallDeferred
    <2> DEFINE f == [Top(t) EXCEPT !.todo = @ \ {o}]
    <2>3. f \in EnableFrames /\ o \in Observers
        BY <2>1 DEF EnableFrames
    <2>4. stack' = [stack EXCEPT ![t] = <<UpdateFrame(o), f>> \o Tail(@)]
        BY <2>2
    <2> HIDE DEF f
    <2>5. f \in Frame /\ Plain(f) /\ f.at \notin BottomKinds
        BY <2>3 DEF Frame, EnableFrames, Plain, BottomKinds, Joins
    <2>6. UpdateFrame(o) \in Frame /\ Plain(UpdateFrame(o)) /\ UpdateFrame(o).at \notin BottomKinds
        BY <2>3 DEF UpdateFrame, Frame, UpdateFrames, Plain, BottomKinds, Joins
    <2>7. Admitted(t, f) /\ Admitted(t, UpdateFrame(o))
        BY <2>5, <2>6, PlainAdmitted
    <2> QED BY <2>1, <2>4, <2>5, <2>6, <2>7, CallStep
<1>8. ASSUME NoteFailure(t)
      PROVE  Kept
    <2> DEFINE f == [Top(t) EXCEPT !.successful = FALSE]
    <2>1. ~Idle(t) /\ stack' = Replace(t, f) /\ UNCHANGED <<owned, observables, active, unborn>>
          /\ Top(t) \in EnableFrames
        BY <1>8, <1>t DEF NoteFailure, Enabling
    <2>2. f \in EnableFrames
        BY <2>1 DEF EnableFrames
    <2> HIDE DEF f
    <2>3. f \in Frame /\ Plain(f) /\ f.at \notin BottomKinds
        BY <2>2 DEF Frame, EnableFrames, Plain, BottomKinds, Joins
    <2> QED BY <2>1, <2>3, PlainAdmitted, ReplaceStep
<1>9. ASSUME EndEnable(t)
      PROVE  Kept
    BY <1>9, PopStep DEF EndEnable, Enabling
<1> QED BY <1>1, <1>2, <1>3, <1>4, <1>5, <1>6, <1>7, <1>8, <1>9

-----------------------------------------------------------------------------
(***************************************************************************)
(* Updating, and calls that lock an observer.                              *)
(***************************************************************************)
LEMMA UpdateKeeps ==
    ASSUME Core, NEW t \in Threads,
           EnterProxy(t) \/ RunUpdate(t) \/ UnlockProxy(t)
    PROVE  Kept
<1> USE DEF objects, proxies
<1>1. ~Idle(t) /\ Top(t) \in UpdateFrames /\ Top(t) \in Frame /\ Top(t) \in Frames(t)
      /\ UNCHANGED <<owned, observables, active, unborn>>
    BY TopFrame, FrameKinds DEF Core, EnterProxy, RunUpdate, UnlockProxy, At
<1> DEFINE o == Top(t).o
<1>2. CASE EnterProxy(t)
    <2> DEFINE f == [Top(t) EXCEPT !.pc = "body"]
    <2>1. CASE stack' = Pop(t)
        BY <1>1, <2>1, PopStep
    <2>2. CASE stack' # Pop(t)
        <3>1. active[o] /\ (Unmanaged(o) \/ Alive(o)) /\ stack' = Replace(t, f)
            BY <1>2, <2>2 DEF EnterProxy
        <3>2. Alive(o) \/ o \in OnStack
            <4>1. CASE \E u \in Threads : \E g \in Frames(u) : g.at = "construct" /\ g.o = o
                <5>1. PICK u \in Threads : \E g \in Frames(u) : g.at = "construct" /\ g.o = o
                    BY <4>1
                <5>2. PICK g \in Frames(u) : g.at = "construct" /\ g.o = o
                    BY <5>1
                <5>3. Pins(g, o)
                    BY <5>2, TypedFrames, FramePins DEF Core
                <5> QED BY <5>3 DEF Alive, Referenced, Frames
            <4> QED BY <3>1, <4>1 DEF Unmanaged
        <3>3. f \in UpdateFrames /\ f.at = "update" /\ f.pc = "body" /\ f.o = o
            BY <1>1 DEF UpdateFrames
        <3> HIDE DEF f
        <3>4. f \in Frame /\ f.at \notin BottomKinds
            BY <3>3 DEF Frame, BottomKinds, Joins
        <3>5. ASSUME o \in OnStack PROVE Admitted(t, f)
            BY <3>3, <3>4, <3>5, PlainAdmitted DEF Plain
        <3>6. ASSUME o \notin OnStack PROVE Admitted(t, f)
            <4>1. Uses(f) = {} /\ ~Joined(f) /\ f.at \notin {"destroy", "construct", "borrow"}
                BY <3>3 DEF Uses, Joined, Joins
            <4>2. \A x \in Observers : Pins(f, x) => x = o
                BY <3>3 DEF Pins, Joins
            <4>3. \A g : ~Clash(f, g)
                BY <4>1 DEF Clash
            <4>4. active'[f.o]
                BY <1>1, <3>1, <3>3
            <4> QED BY <3>2, <3>6, <4>1, <4>2, <4>3, <4>4 DEF Admitted
        <3> QED BY <1>1, <3>1, <3>4, <3>5, <3>6, ReplaceStep
    <2> QED BY <2>1, <2>2
<1>3. CASE RunUpdate(t)
    <2> DEFINE f == [Top(t) EXCEPT !.pc = "leave"]
    <2>1. f \in UpdateFrames /\ f.at = "update" /\ f.pc = "leave" /\ f.o = o /\ o \in Observers
        BY <1>1 DEF UpdateFrames
    <2>2. \/ o \in Forwarders /\ stack' = [stack EXCEPT ![t] = <<NotifyFrame(o), f>> \o Tail(@)]
          \/ stack' = Replace(t, f)
        BY <1>3 DEF RunUpdate, Replace
    <2>3. Top(t).pc = "body"
        BY <1>3 DEF RunUpdate, At
    <2> HIDE DEF f
    <2>4. f \in Frame /\ f.at \notin BottomKinds
        BY <2>1 DEF Frame, BottomKinds, Joins
    <2>5. Plain(f) \/ Follows(f, Top(t))
        BY <1>1, <2>1, <2>3 DEF Plain, Follows, Running, UpdateFrames
    <2>6. Admitted(t, f)
        BY <1>1, <2>4, <2>5, PlainAdmitted, FollowsAdmitted
    <2>7. CASE stack' = Replace(t, f)
        BY <1>1, <2>4, <2>6, <2>7, ReplaceStep
    <2>8. CASE o \in Forwarders /\ stack' = [stack EXCEPT ![t] = <<NotifyFrame(o), f>> \o Tail(@)]
        <3> DEFINE g == NotifyFrame(o)
        <3>1. g \in Frame
            BY <2>8 DEF Observables, NotifyFrame, Frame, NotifyFrames
        <3>2. Plain(g) /\ g.at \notin BottomKinds
            BY DEF Plain, NotifyFrame, BottomKinds, Joins
        <3>3. Admitted(t, g)
            BY <3>1, <3>2, PlainAdmitted
        <3> HIDE DEF g
        <3>4. stack' = [stack EXCEPT ![t] = <<g, f>> \o Tail(@)]
            BY <2>8 DEF g
        <3> QED BY <1>1, <2>4, <2>6, <3>1, <3>2, <3>3, <3>4, CallStep
    <2> QED BY <2>2, <2>7, <2>8
<1>4. CASE UnlockProxy(t)
    BY <1>1, <1>4, PopStep DEF UnlockProxy
<1> QED BY <1>2, <1>3, <1>4

\* Nobody else changes the registrations of an observer that is there and unlocked.
LEMMA Free ==
    ASSUME Core, NEW t \in Threads, NEW o \in Observers, owned[o], Unlocked(t, o),
           NEW u \in Threads \ {t}, NEW g \in Frames(u)
    PROVE  o \notin Uses(g) /\ ~ (g.at = "construct" /\ g.o = o)
<1>1. ~HoldsObserver(u, o)
    BY DEF Unlocked
<1>2. ~ (g.at = "construct" /\ g.o = o)
    BY DEF Core
<1> QED BY <1>1, <1>2 DEF HoldsObserver, Uses

\* calls of clients that lock an observer
LEMMA CallKeeps ==
    ASSUME Core, NEW t \in Threads,
           NEW o \in Observers,
           \/ \E s \in Observables : Register(t, o, s) \/ UnregisterWith(t, o, s)
           \/ Unregister(t, o)
           \/ \E p \in Observers : RegisterWithObservables(t, o, p) \/ Assign(t, o, p)
    PROVE  Kept
<1> USE DEF objects, proxies
<1>1. Idle(t) /\ owned[o] /\ UNCHANGED <<owned, observables, active, unborn>>
    BY DEF Register, Unregister, UnregisterWith, RegisterWithObservables, Assign
<1>2. Alive(o)
    BY <1>1 DEF Alive, Referenced
<1>3. ASSUME NEW s \in Observables, Register(t, o, s)
      PROVE  Kept
    <2> DEFINE f == RegisterFrame(o, s)
    <2>1. f \in Frame /\ f.at = "register" /\ f.o = o /\ f.s = s
        BY DEF RegisterFrame, Frame, RegisterFrames
    <2>2. stack' = Push(t, f) /\ Unlocked(t, o) /\ (s \in Forwarders => owned[s])
        BY <1>3 DEF Register
    <2> HIDE DEF f
    <2>3. f.at \notin BottomKinds
        BY <2>1 DEF BottomKinds, Joins
    <2>4. s \in Observers => Alive(s)
        BY <2>2, ThreadAssumption DEF Observables, Alive, Referenced
    <2>5. Uses(f) = {o} /\ ~Running(f) /\ ~Joined(f)
        BY <2>1 DEF Uses, Running, Joined, Joins
    <2>6. \A x \in Observers : Pins(f, x) => x \in {o, s}
        BY <2>1 DEF Pins, Joins
    <2>7. \A u \in Threads \ {t} : \A g \in Frames(u) : ~Clash(f, g)
        BY <1>1, <2>1, <2>2, <2>5, Free DEF Clash
    <2>8. Admitted(t, f)
        BY <1>2, <2>1, <2>4, <2>5, <2>6, <2>7 DEF Admitted
    <2> QED BY <1>1, <2>1, <2>2, <2>3, <2>8, PushStep
<1>4. ASSUME Unregister(t, o) \/ \E s \in Observables : UnregisterWith(t, o, s)
      PROVE  Kept
    <2>1. PICK S \in SUBSET Observables :
             stack' = Push(t, DetachFrame("unregister", o, "unhook", S))
        BY <1>4 DEF Unregister, UnregisterWith, Core, ObjectTypes
    <2> DEFINE f == DetachFrame("unregister", o, "unhook", S)
    <2>2. f \in Frame /\ f.at = "unregister" /\ f.o = o
        BY DEF DetachFrame, Frame, DetachFrames
    <2>3. stack' = Push(t, f) /\ Unlocked(t, o)
        BY <1>4, <2>1 DEF Unregister, UnregisterWith
    <2> HIDE DEF f
    <2>4. Uses(f) = {o} /\ ~Running(f) /\ ~Joined(f)
        BY <2>2 DEF Uses, Running, Joined, Joins
    <2>5. \A x \in Observers : Pins(f, x) => x = o
        BY <2>2 DEF Pins, Joins
    <2>6. \A u \in Threads \ {t} : \A g \in Frames(u) : ~Clash(f, g)
        BY <1>1, <2>2, <2>3, <2>4, Free DEF Clash
    <2>7. Admitted(t, f)
        BY <1>2, <2>2, <2>4, <2>5, <2>6 DEF Admitted
    <2> QED BY <1>1, <2>2, <2>3, <2>7, PushStep
<1>5. ASSUME NEW p \in Observers, RegisterWithObservables(t, o, p)
      PROVE  Kept
    <2> DEFINE f == JoinFrame("borrow", o, p, "join", observables[p])
    <2>1. observables[p] \in SUBSET Observables
        BY DEF Core, ObjectTypes
    <2>2. /\ f \in Frame /\ f.at = "borrow" /\ f.o = o /\ f.p = p
          /\ f.todo = observables[p] /\ f.pc = "join"
        BY <2>1 DEF JoinFrame, Frame, JoinFrames, Joins
    <2>3. stack' = Push(t, f) /\ Unlocked(t, p) /\ owned[p]
        BY <1>5 DEF RegisterWithObservables, Joinable
    <2> HIDE DEF f
    <2>4. Uses(f) = {p} /\ ~Running(f) /\ Lender(f) = p
        BY <2>2 DEF Uses, Running, Lender
    <2>5. \A x \in Observers : Pins(f, x) => x \in {o, p}
        BY <2>2 DEF Pins, Joins
    <2>6. Alive(p)
        BY <2>3 DEF Alive, Referenced
    <2>7. \A u \in Threads \ {t} : \A g \in Frames(u) : ~Clash(f, g)
        <3> SUFFICES ASSUME NEW u \in Threads \ {t}, NEW g \in Frames(u)
                     PROVE  ~Clash(f, g)
            OBVIOUS
        <3>1. p \notin Uses(g)
            BY <2>3, Free
        <3>2. ~ (g.at = "construct" /\ g.o = o)
            BY <1>1 DEF Core
        <3> QED BY <2>2, <2>4, <3>1, <3>2 DEF Clash
    <2>8. Admitted(t, f)
        BY <1>1, <1>2, <2>2, <2>4, <2>5, <2>6, <2>7 DEF Admitted
    <2> QED BY <1>1, <2>2, <2>3, <2>8, PushStep
<1>6. ASSUME NEW p \in Observers, Assign(t, o, p)
      PROVE  Kept
    <2> DEFINE f == JoinFrame("assign", o, p, "copy", {})
               g == DetachFrame("reset", o, "unhook", observables[o])
    <2>1. observables[o] \in SUBSET Observables
        BY DEF Core, ObjectTypes
    <2>2. f \in Frame /\ f.at = "assign" /\ f.o = o /\ f.p = p /\ f.pc = "copy"
        BY DEF JoinFrame, Frame, JoinFrames, Joins
    <2>3. g \in Frame /\ g.at = "reset"
        BY <2>1 DEF DetachFrame, Frame, DetachFrames
    <2>4. stack' = [stack EXCEPT ![t] = <<g, f>>] /\ Unlocked(t, o) /\ owned[p]
        BY <1>6 DEF Assign, Joinable
    <2> HIDE DEF f, g
    <2>5. Uses(f) = {o} /\ ~Running(f) /\ ~Joined(f)
        BY <2>2 DEF Uses, Running, Joined
    <2>6. \A x \in Observers : Pins(f, x) => x \in {o, p}
        BY <2>2 DEF Pins, Joins
    <2>7. Alive(p)
        BY <2>4 DEF Alive, Referenced
    <2>8. \A u \in Threads \ {t} : \A h \in Frames(u) : ~Clash(f, h)
        BY <1>1, <2>2, <2>4, <2>5, Free DEF Clash
    <2>9. Admitted(t, f)
        BY <1>2, <2>2, <2>5, <2>6, <2>7, <2>8 DEF Admitted
    <2>10. Admitted(t, g)
        BY <2>3, PlainAdmitted DEF Plain
    <2> DEFINE q == <<g, f>>
    <2>11. StackOK(q) /\ ToSet(q) = {f, g}
        BY <2>2, <2>3, TwoStack DEF BottomKinds, Joins
    <2>12. stack' = [stack EXCEPT ![t] = q]
        BY <2>4
    <2> HIDE DEF q
    <2>13. active' \in [Observers -> BOOLEAN] /\ \A x \in Observers : active[x] => active'[x]
        BY <1>1 DEF Core, ObjectTypes
    <2> QED BY <1>1, <2>9, <2>10, <2>11, <2>12, <2>13, StackStep
<1> QED BY <1>3, <1>4, <1>5, <1>6

\* the next registration of a call that copies another observer's
LEMMA JoinNextKeeps ==
    ASSUME Core, NEW t \in Threads, NEW s \in Observables, JoinNext(t, s)
    PROVE  Kept
<1> USE DEF objects, proxies
<1>1. /\ ~Idle(t) /\ Top(t) \in JoinFrames /\ Top(t) \in Frame /\ Top(t) \in Frames(t)
      /\ Joined(Top(t)) /\ s \in Top(t).todo /\ Unlocked(t, Top(t).o)
      /\ UNCHANGED <<owned, observables, active, unborn>>
    BY TopFrame, FrameKinds DEF Core, JoinNext, Joining, Joined
<1> DEFINE o == Top(t).o
           f == [Top(t) EXCEPT !.todo = @ \ {s}]
           g == RegisterFrame(o, s)
<1>2. /\ f \in JoinFrames /\ f.at = Top(t).at /\ f.o = o /\ f.p = Top(t).p
      /\ f.pc = Top(t).pc /\ f.todo \subseteq Top(t).todo /\ o \in Observers
      /\ f.at \in Joins
    BY <1>1 DEF JoinFrames
<1>3. g \in Frame /\ g.at = "register" /\ g.o = o /\ g.s = s
    BY <1>2 DEF RegisterFrame, Frame, RegisterFrames
<1>4. stack' = [stack EXCEPT ![t] = <<g, f>> \o Tail(@)]
    BY DEF JoinNext
<1> HIDE DEF f, g
<1>5. f \in Frame /\ Follows(f, Top(t))
    BY <1>2 DEF Frame, Follows
<1>6. Admitted(t, f)
    BY <1>1, <1>5, FollowsAdmitted
<1>7. Uses(g) = {o} /\ ~Running(g) /\ ~Joined(g)
    BY <1>3 DEF Uses, Running, Joined, Joins
<1>8. \A x \in Observers : Pins(g, x) => x \in {o, s}
    BY <1>3 DEF Pins, Joins
<1>9. Alive(o) /\ (s \in Observers => Alive(s))
    <2>1. Pins(Top(t), o)
        BY <1>2 DEF Pins
    <2>2. Lender(Top(t)) \in Observers /\ s \in observables[Lender(Top(t))]
        BY <1>1, <1>2, FramePins DEF Core
    <2> QED BY <1>1, <2>1, <2>2 DEF Alive, Referenced, Frames
<1>10. \A u \in Threads \ {t} : \A h \in Frames(u) : ~Clash(g, h)
    <2> SUFFICES ASSUME NEW u \in Threads \ {t}, NEW h \in Frames(u), Clash(g, h)
                 PROVE  FALSE
        OBVIOUS
    <2>1. o \in Uses(h)
        BY <1>3, <1>7 DEF Clash
    <2>2. ~HoldsObserver(u, o)
        BY <1>1 DEF Unlocked
    <2>3. h.at = "construct" /\ h.o = o
        BY <2>1, <2>2 DEF HoldsObserver, Uses
    <2>4. ~Clash(Top(t), h)
        BY <1>1 DEF Core
    <2>5. Top(t).at = "borrow" \/ o \in Uses(Top(t))
        BY <1>2 DEF Uses, Joins
    <2> QED BY <2>1, <2>3, <2>4, <2>5 DEF Clash
<1>11. Admitted(t, g)
    BY <1>3, <1>7, <1>8, <1>9, <1>10 DEF Admitted
<1>12. (f.at \in BottomKinds => Top(t).at \in BottomKinds) /\ g.at \notin BottomKinds
    BY <1>2, <1>3 DEF BottomKinds, Joins
<1> QED BY <1>1, <1>3, <1>4, <1>5, <1>6, <1>11, <1>12, CallStep

\* leaving one observable after the other
LEMMA DetachKeeps ==
    ASSUME Core, NEW t \in Threads,
           \/ \E s \in Observables : Unhook(t, s)
           \/ ForgetDeferred(t) \/ Disconnect(t) \/ Deactivate(t)
    PROVE  Kept
<1> USE DEF objects, proxies
<1>1. /\ ~Idle(t) /\ Top(t) \in DetachFrames /\ Top(t) \in Frame /\ Top(t) \in Frames(t)
      /\ UNCHANGED <<owned, observables, unborn>>
    BY TopFrame, FrameKinds DEF Core, Unhook, ForgetDeferred, Disconnect, Deactivate,
                                Detaching, At
<1>2. PICK f \in DetachFrames : /\ f.at = Top(t).at /\ f.o = Top(t).o
                                /\ stack' = Replace(t, f)
    <2>1. ASSUME NEW s \in Observables, Unhook(t, s)
          PROVE  \E f \in DetachFrames : /\ f.at = Top(t).at /\ f.o = Top(t).o
                                         /\ stack' = Replace(t, f)
        <3> DEFINE f == [Top(t) EXCEPT
                            !.pc = IF updatesType = "deferred" THEN "forget" ELSE "disconnect",
                            !.todo = @ \ {s}, !.now = {s}]
        <3>1. f \in DetachFrames /\ f.at = Top(t).at /\ f.o = Top(t).o
            BY <1>1 DEF DetachFrames
        <3>2. stack' = Replace(t, f)
            BY <2>1 DEF Unhook
        <3> HIDE DEF f
        <3> QED BY <3>1, <3>2
    <2>2. ASSUME ForgetDeferred(t)
          PROVE  \E f \in DetachFrames : /\ f.at = Top(t).at /\ f.o = Top(t).o
                                         /\ stack' = Replace(t, f)
        <3> DEFINE f == [Top(t) EXCEPT !.pc = "disconnect"]
        <3>1. f \in DetachFrames /\ f.at = Top(t).at /\ f.o = Top(t).o
            BY <1>1 DEF DetachFrames
        <3>2. stack' = Replace(t, f)
            BY <2>2 DEF ForgetDeferred
        <3> HIDE DEF f
        <3> QED BY <3>1, <3>2
    <2>3. ASSUME Disconnect(t)
          PROVE  \E f \in DetachFrames : /\ f.at = Top(t).at /\ f.o = Top(t).o
                                         /\ stack' = Replace(t, f)
        <3> DEFINE f == [Top(t) EXCEPT !.pc = "unhook", !.now = {}]
        <3>1. f \in DetachFrames /\ f.at = Top(t).at /\ f.o = Top(t).o
            BY <1>1 DEF DetachFrames
        <3>2. stack' = Replace(t, f)
            BY <2>3 DEF Disconnect
        <3> HIDE DEF f
        <3> QED BY <3>1, <3>2
    <2>4. ASSUME Deactivate(t)
          PROVE  \E f \in DetachFrames : /\ f.at = Top(t).at /\ f.o = Top(t).o
                                         /\ stack' = Replace(t, f)
        <3> DEFINE f == [Top(t) EXCEPT !.pc = "unhook"]
        <3>1. f \in DetachFrames /\ f.at = Top(t).at /\ f.o = Top(t).o
            BY <1>1 DEF DetachFrames
        <3>2. stack' = Replace(t, f)
            BY <2>4 DEF Deactivate
        <3> HIDE DEF f
        <3> QED BY <3>1, <3>2
    <2> QED BY <2>1, <2>2, <2>3, <2>4
\* the proxy is deactivated once nobody refers to the observer
<1>3. /\ active' \in [Observers -> BOOLEAN]
      /\ \A o \in Observers : active[o] /\ Alive(o) => active'[o]
    <2>1. CASE Deactivate(t)
        <3>1. /\ Top(t).at = "destroy" /\ active' = [active EXCEPT ![Top(t).o] = FALSE]
              /\ Top(t).o \in Observers
            BY <1>1, <2>1 DEF Deactivate, At, DetachFrames
        <3>2. ~Alive(Top(t).o)
            BY <1>1, <3>1 DEF Core
        <3> QED BY <3>1, <3>2 DEF Core, ObjectTypes
    <2>2. CASE ~Deactivate(t)
        BY <2>2 DEF Unhook, ForgetDeferred, Disconnect, Core, ObjectTypes
    <2> QED BY <2>1, <2>2
<1>4. f \in Frame /\ f.at \in {"destroy", "unregister", "reset"}
    BY <1>2 DEF Frame, DetachFrames
<1>5. Admitted(t, f)
    <2>1. CASE f.at = "reset"
        BY <1>4, <2>1, PlainAdmitted DEF Plain
    <2>2. CASE f.at # "reset"
        <3>1. Follows(f, Top(t))
            BY <1>2, <1>4, <2>2 DEF Follows
        <3> QED BY <1>1, <1>3, <1>4, <3>1, FollowsAdmitted
    <2> QED BY <2>1, <2>2
<1> DEFINE r == Tail(stack[t])
           q == <<f>> \o r
<1>6. StackOK(r) /\ ToSet(r) \subseteq Frames(t) /\ (f.at \in BottomKinds => r = <<>>)
    BY <1>1, <1>2, TopFrame DEF Core
<1>7. stack' = [stack EXCEPT ![t] = q]
    BY <1>2 DEF Replace
<1> HIDE DEF r
<1>8. StackOK(q) /\ ToSet(q) \subseteq {f} \cup Frames(t)
    BY <1>4, <1>6, PushStack
<1> HIDE DEF q
<1> QED BY <1>1, <1>3, <1>5, <1>7, <1>8, StackStep

-----------------------------------------------------------------------------
(***************************************************************************)
(* Letting go of references.                                               *)
(***************************************************************************)
LEMMA DropStep ==
    ASSUME Core, NEW t \in Threads, NEW s, StackOK(s),
           NEW own \in [Observers -> BOOLEAN], NEW obs \in [Observers -> SUBSET Observables],
           Drop(t, own, obs, [stack EXCEPT ![t] = s]), UNCHANGED <<active, unborn>>,
           \A o \in Observers : own[o] => Alive(o),
           \A p, o \in Observers : o \in obs[p] => Alive(o),
           \A u \in Threads : \A f \in Frames(u) :
              (u = t => f \in ToSet(s)) /\ Joined(f) =>
                  observables[Lender(f)] \subseteq obs[Lender(f)],
           \A u \in Threads : \A f \in Frames(u) :
              (u = t => f \in ToSet(s)) /\ f.at = "construct" => ~own[f.o],
           \A f \in ToSet(s) : f \in Frames(t) \/ Admitted(t, f)
    PROVE  Kept
<1> DEFINE stk  == [stack EXCEPT ![t] = s]
           lost == {o \in Observers : /\ Referenced(o, owned, observables, stack)
                                      /\ ~Referenced(o, own, obs, stk)}
           D    == {DetachFrame("destroy", o, "deactivate", obs[o]) : o \in lost}
           q    == SetToSeq(D)
<1>1. /\ owned' = own /\ observables' = obs /\ stack' = [stk EXCEPT ![t] = q \o @]
    BY DEF Drop
<1>2. stack' = [stack EXCEPT ![t] = q \o s] /\ \A u \in Threads \ {t} : stk[u] = stack[u]
    BY <1>1 DEF Core, StackTypes
<1>3. IsFiniteSet(D)
    <2>1. lost \subseteq Observers
        OBVIOUS
    <2>2. IsFiniteSet(lost)
        BY <2>1, ThreadAssumption, FS_Subset
    <2> DEFINE g == [o \in lost |-> DetachFrame("destroy", o, "deactivate", obs[o])]
    <2> HIDE DEF lost
    <2>3. D = {g[o] : o \in lost}
        OBVIOUS
    <2>4. IsFiniteSet({g[o] : o \in lost})
        <3>1. g \in [lost -> D]
            OBVIOUS
        <3>2. g \in Surjection(lost, D)
            BY <3>1, <2>3 DEF Surjection
        <3> HIDE DEF D, g
        <3> QED BY <2>2, <2>3, <3>2, FS_Surjection
    <2> QED BY <2>3, <2>4
<1>4. q \in Seq(D)
    <2> HIDE DEF D
    <2> QED BY <1>3, SetToSeqElements
<1>5. ASSUME NEW f \in D
      PROVE  /\ f \in Frame /\ f.at = "destroy"
             /\ f.o \in Observers /\ Alive(f.o) /\ ~Referenced(f.o, own, obs, stk)
    <2> HIDE DEF stk
    <2>1. PICK o \in lost : f = DetachFrame("destroy", o, "deactivate", obs[o])
        BY <1>5
    <2>2. f.at = "destroy" /\ f.o = o
        BY <2>1 DEF DetachFrame
    <2>3. f \in Frame
        BY <2>1 DEF DetachFrame, Frame, DetachFrames
    <2> QED BY <2>1, <2>2, <2>3 DEF Alive
<1> HIDE DEF D, lost, stk, q
<1>6. ToSet(q) \subseteq D /\ q \in Seq(Frame)
    BY <1>4, <1>5 DEF ToSet
<1>7. StackOK(q \o s) /\ ToSet(q \o s) = ToSet(q) \cup ToSet(s)
    <2>1. \A k \in 1..Len(q) : q[k].at \notin BottomKinds
        BY <1>4, <1>5 DEF BottomKinds, Joins
    <2> QED BY <1>6, <2>1, OnTop
<1>8. ASSUME NEW f \in D
      PROVE  Admitted(t, f)
    <2>1. f.at = "destroy" /\ f \in Frame /\ f.o \in Observers
        BY <1>5
    <2>2. ~Running(f) /\ ~Joined(f) /\ Uses(f) = {f.o}
        BY <2>1 DEF Running, Joined, Joins, Uses
    <2>3. \A o \in Observers : ~Pins(f, o)
        BY <2>1 DEF Pins, Joins
    <2>4. f.o \notin unborn
        BY <1>5 DEF Core
    <2>5. ~Alive(f.o)'
        <3> SUFFICES ASSUME Alive(f.o)' PROVE Referenced(f.o, own, obs, stk)
            BY <1>5
        <3>1. CASE owned'[f.o] \/ \E p \in Observers : f.o \in observables'[p]
            BY <1>1, <3>1 DEF Referenced
        <3>2. ASSUME NEW u \in Threads, NEW g \in ToSet(stack'[u]), Pins(g, f.o)
              PROVE  \E v \in Threads : \E h \in ToSet(stk[v]) : Pins(h, f.o)
            <4>1. CASE u # t
                <5>1. stack'[u] = stk[u]
                    BY <1>2, <4>1 DEF Core, StackTypes
                <5> QED BY <3>2, <5>1
            <4>2. CASE u = t
                <5>1. stack'[t] = q \o s /\ stk[t] = s
                    BY <1>2 DEF Core, StackTypes, stk
                <5>2. \A h \in D : ~Pins(h, f.o)
                    BY <1>5, <2>1 DEF Pins, Joins
                <5> QED BY <1>6, <1>7, <3>2, <4>2, <5>1, <5>2
            <4> QED BY <4>1, <4>2
        <3> QED BY <3>1, <3>2 DEF Alive, Referenced
    <2>6. ASSUME NEW u \in Threads \ {t}, NEW g \in Frames(u)
          PROVE  ~Clash(f, g)
        <3>1. g \in Frame
            BY TypedFrames DEF Core
        <3>2. ASSUME f.o \in Uses(g)
              PROVE  FALSE
            <4>1. Pins(g, f.o) \/ (g.at = "destroy" /\ g.o = f.o)
                BY <3>1, <3>2, FramePins
            <4>2. CASE Pins(g, f.o)
                <5>1. g \in ToSet(stk[u])
                    BY <1>2 DEF Frames
                <5> QED BY <1>5, <4>2, <5>1 DEF Referenced
            <4>3. CASE g.at = "destroy" /\ g.o = f.o
                BY <1>5, <4>3 DEF Core
            <4> QED BY <4>1, <4>2, <4>3
        <3> QED BY <2>1, <2>2, <3>2 DEF Clash
    <2> QED BY <2>1, <2>2, <2>3, <2>4, <2>5, <2>6 DEF Admitted
<1>9. \A f \in ToSet(q \o s) : f \in Frames(t) \/ Admitted(t, f)
    BY <1>6, <1>7, <1>8
<1>10. ASSUME NEW u \in Threads, NEW f \in Frames(u), f \in ToSet(stack'[u])
       PROVE  /\ Joined(f) => observables[Lender(f)] \subseteq observables'[Lender(f)]
              /\ f.at = "construct" => ~owned'[f.o]
    <2>1. CASE u = t
        <3>1. stack'[t] = q \o s
            BY <1>2 DEF Core, StackTypes
        <3>2. f \in D \/ f \in ToSet(s)
            BY <1>6, <1>7, <1>10, <2>1, <3>1
        <3>3. f \in D => ~Joined(f) /\ f.at # "construct"
            BY <1>5 DEF Joined, Joins
        <3> QED BY <1>1, <2>1, <3>2, <3>3
    <2>2. CASE u # t
        BY <1>1, <2>2
    <2> QED BY <2>1, <2>2
<1>11. ObjectTypes' /\ unborn' \subseteq unborn
    BY <1>1 DEF Core, ObjectTypes
<1>12. /\ \A o \in Observers : owned'[o] => Alive(o)
       /\ \A p, o \in Observers : o \in observables'[p] => Alive(o)
       /\ \A o \in Observers : active[o] /\ Alive(o) => active'[o]
       /\ \A o \in unborn' : ~Alive(o)
    BY <1>1 DEF Core
<1> DEFINE z == q \o s
<1>13. StackOK(z) /\ stack' = [stack EXCEPT ![t] = z]
       /\ \A f \in ToSet(z) : f \in Frames(t) \/ Admitted(t, f)
    BY <1>2, <1>7, <1>9
<1> HIDE DEF z
<1> QED BY <1>10, <1>11, <1>12, <1>13, Change

\* What the steps that let go of references have in common.
LEMMA Unchanged ==
    ASSUME Core
    PROVE  /\ owned \in [Observers -> BOOLEAN] /\ observables \in [Observers -> SUBSET Observables]
           /\ \A o \in Observers : owned[o] => Alive(o)
           /\ \A p, o \in Observers : o \in observables[p] => Alive(o)
           /\ \A u \in Threads : \A f \in Frames(u) : f.at = "construct" => ~owned[f.o]
           /\ \A u \in Threads : \A f \in Frames(u) : \A o \in Observers : Pins(f, o) => Alive(o)
BY DEF Core, ObjectTypes, Alive, Referenced, Frames

LEMMA LeaveUpdateKeeps ==
    ASSUME Core, NEW t \in Threads, LeaveUpdate(t)
    PROVE  Kept
<1> DEFINE f == [Top(t) EXCEPT !.pc = "exit"]
           r == Tail(stack[t])
           s == <<f>> \o r
<1>1. ~Idle(t) /\ Top(t) \in UpdateFrames
    BY TopFrame, FrameKinds DEF Core, LeaveUpdate, At
<1>2. f \in UpdateFrames /\ f.at = "update" /\ f.pc = "exit"
    BY <1>1 DEF UpdateFrames
<1>3. /\ StackOK(r) /\ ToSet(r) \subseteq Frames(t)
      /\ Drop(t, owned, observables, [stack EXCEPT ![t] = s])
      /\ UNCHANGED <<active, unborn>>
    BY <1>1, TopFrame DEF Core, LeaveUpdate, Replace, proxies
<1> HIDE DEF f, r
<1>4. f \in Frame /\ f.at \notin BottomKinds /\ Plain(f)
    BY <1>2 DEF Frame, BottomKinds, Joins, Plain
<1>5. StackOK(s) /\ ToSet(s) \subseteq {f} \cup Frames(t)
    BY <1>3, <1>4, PushStack
<1>6. Admitted(t, f)
    BY <1>4, PlainAdmitted
<1> HIDE DEF s
<1> QED BY <1>3, <1>5, <1>6, Unchanged, DropStep

LEMMA ReleaseKeeps ==
    ASSUME Core, NEW t \in Threads, NEW o \in Observers, Release(t, o)
    PROVE  Kept
<1> DEFINE own == [owned EXCEPT ![o] = FALSE]
           s == stack[t]
<1>1. stack = [stack EXCEPT ![t] = s]
    BY DEF Core, StackTypes
<1>2. Drop(t, own, observables, [stack EXCEPT ![t] = s]) /\ UNCHANGED <<active, unborn>>
    <2>1. Drop(t, own, observables, stack) /\ UNCHANGED <<active, unborn>>
        BY DEF Release, proxies
    <2> QED BY <1>1, <2>1
<1>3. own \in [Observers -> BOOLEAN] /\ \A x \in Observers : own[x] => owned[x]
    BY DEF Core, ObjectTypes
<1>4. StackOK(s) /\ ToSet(s) = Frames(t)
    BY TypedFrames DEF Core, Frames
<1> HIDE DEF own, s
<1>5. \A u \in Threads : \A f \in Frames(u) : f.at = "construct" => ~own[f.o]
    <2>1. \A u \in Threads : \A f \in Frames(u) : f.at = "construct" => f.o \in Observers
        BY TypedFrames, FramePins DEF Core
    <2> QED BY <1>3, <2>1, Unchanged
<1> QED BY <1>2, <1>3, <1>4, <1>5, Unchanged, DropStep

LEMMA ConnectKeeps ==
    ASSUME Core, NEW t \in Threads, Connect(t)
    PROVE  Kept
<1> DEFINE obs == [observables EXCEPT ![Top(t).o] = @ \cup {Top(t).s}]
           s == Tail(stack[t])
<1>1. ~Idle(t) /\ Top(t) \in RegisterFrames /\ Top(t) \in Frames(t) /\ Top(t).at = "register"
    BY TopFrame, FrameKinds DEF Core, Connect
<1>2. /\ StackOK(s) /\ ToSet(s) \subseteq Frames(t)
      /\ Drop(t, owned, obs, [stack EXCEPT ![t] = s]) /\ UNCHANGED <<active, unborn>>
    BY <1>1, TopFrame DEF Core, Connect, Pop, proxies
<1>3. /\ obs \in [Observers -> SUBSET Observables]
      /\ \A p \in Observers : observables[p] \subseteq obs[p]
      /\ \A p \in Observers : obs[p] \subseteq observables[p] \cup {Top(t).s}
    BY <1>1 DEF Core, ObjectTypes, RegisterFrames
<1>4. Top(t).s \in Observers => Alive(Top(t).s)
    <2>1. Pins(Top(t), Top(t).s)
        BY <1>1 DEF Pins
    <2> QED BY <1>1, <2>1, Unchanged
<1> HIDE DEF obs, s
<1>5. \A p, o \in Observers : o \in obs[p] => Alive(o)
    BY <1>3, <1>4, Unchanged
<1>6. \A u \in Threads : \A f \in Frames(u) :
          Joined(f) => observables[Lender(f)] \subseteq obs[Lender(f)]
    BY <1>3, TypedFrames, FramePins DEF Core, Joined
<1> QED BY <1>2, <1>3, <1>5, <1>6, Unchanged, DropStep

LEMMA CopyObservablesKeeps ==
    ASSUME Core, NEW t \in Threads, CopyObservables(t)
    PROVE  Kept
<1> DEFINE o == Top(t).o
           S == observables[Top(t).p]
           obs == [observables EXCEPT ![o] = S]
           f == [Top(t) EXCEPT !.pc = "join", !.todo = S]
           s == <<f>> \o Tail(stack[t])
<1>1. /\ ~Idle(t) /\ Top(t) \in JoinFrames /\ Top(t) \in Frames(t) /\ Top(t) \in Frame
      /\ Top(t).pc = "copy" /\ Top(t).at \in {"assign", "construct"}
    BY TopFrame, FrameKinds DEF Core, CopyObservables, Joining, JoinFrames, Joins
<1>2. o \in Observers /\ Top(t).p \in Observers /\ S \in SUBSET Observables
    BY <1>1 DEF JoinFrames, Core, ObjectTypes
<1>3. /\ f \in JoinFrames /\ f.at = Top(t).at /\ f.o = o /\ f.p = Top(t).p
      /\ f.pc = "join" /\ f.todo = S
    BY <1>1, <1>2 DEF JoinFrames
<1>4. /\ Drop(t, owned, obs, [stack EXCEPT ![t] = s]) /\ UNCHANGED <<active, unborn>>
      /\ owned' = owned /\ observables' = obs
    BY DEF CopyObservables, Replace, proxies, Drop
<1>5. /\ obs \in [Observers -> SUBSET Observables] /\ obs[o] = S
      /\ \A p \in Observers : p # o => obs[p] = observables[p]
    BY <1>2 DEF Core, ObjectTypes
<1>6. Tail(stack[t]) = <<>>
    BY <1>1, TopFrame DEF Core, BottomKinds, Joins
<1>7. Frames(t) = {Top(t)}
    BY <1>1, TypedFrames, PopStack DEF Core, BottomKinds, Joins, Frames, Top, Idle
<1> DEFINE r == Tail(stack[t])
<1>8. StackOK(s) /\ ToSet(s) = {f}
    <2>1. StackOK(r) /\ r = <<>>
        BY <1>6, EmptyStack
    <2>2. f \in Frame
        BY <1>3 DEF Frame
    <2> HIDE DEF r, f
    <2>3. StackOK(<<f>> \o r) /\ ToSet(<<f>> \o r) = {f} \cup ToSet(r)
        BY <2>1, <2>2, PushStack
    <2> QED BY <2>1, <2>3, EmptyStack DEF r
<1> HIDE DEF f, obs, s, r
<1>9. \A p, x \in Observers : x \in obs[p] => Alive(x)
    BY <1>2, <1>5, Unchanged
<1>10. Uses(f) = {o} /\ Uses(Top(t)) = {o} /\ Lender(f) = o
    BY <1>1, <1>3 DEF Uses, Lender
<1>11. ASSUME NEW u \in Threads, NEW g \in Frames(u), u = t => g \in ToSet(s), Joined(g)
       PROVE  observables[Lender(g)] \subseteq obs[Lender(g)]
    <2>1. u # t
        BY <1>1, <1>3, <1>7, <1>8, <1>11
    <2>2. Uses(g) = {Lender(g)} /\ Lender(g) \in Observers
        BY <1>11, TypedFrames, FramePins DEF Core, Joined
    <2>3. ~Clash(Top(t), g)
        BY <1>1, <2>1 DEF Core
    <2>4. Lender(g) # o
        BY <1>10, <2>2, <2>3 DEF Clash
    <2> QED BY <1>5, <2>2, <2>4
<1>12. Admitted(t, f)
    <2>1. \A x \in Observers : Pins(f, x) => Pins(Top(t), x)
        BY <1>1, <1>3 DEF Pins, Joins
    <2>2. \A x \in Observers : Pins(f, x) => Alive(x)
        BY <1>1, <2>1, Unchanged
    <2>3. ~Running(f) /\ f.at # "destroy"
        BY <1>1, <1>3 DEF Running
    <2>4. f.at = "construct" => ~owned'[f.o]
        BY <1>1, <1>3, <1>4, Unchanged
    <2>5. \A u \in Threads \ {t} : \A g \in Frames(u) : ~Clash(f, g)
        <3> SUFFICES ASSUME NEW u \in Threads \ {t}, NEW g \in Frames(u) PROVE ~Clash(f, g)
            OBVIOUS
        <3>1. ~Clash(Top(t), g)
            BY <1>1 DEF Core
        <3> QED BY <1>3, <1>10, <3>1 DEF Clash
    <2> QED BY <1>3, <1>4, <1>5, <1>10, <2>2, <2>3, <2>4, <2>5 DEF Admitted
<1> QED BY <1>4, <1>5, <1>8, <1>9, <1>11, <1>12, Unchanged, DropStep

LEMMA EndJoinKeeps ==
    ASSUME Core, NEW t \in Threads, EndJoin(t)
    PROVE  Kept
<1> DEFINE o == Top(t).o
           own == [owned EXCEPT ![o] = @ \/ Top(t).at = "construct"]
           s == Tail(stack[t])
<1>1. /\ ~Idle(t) /\ Top(t) \in JoinFrames /\ Top(t) \in Frames(t) /\ Top(t) \in Frame
      /\ Top(t).at \in Joins /\ o \in Observers
    BY TopFrame, FrameKinds DEF Core, EndJoin, Joining, JoinFrames
<1>2. Drop(t, own, observables, [stack EXCEPT ![t] = s]) /\ UNCHANGED <<active, unborn>>
    BY DEF EndJoin, Pop, proxies
<1>3. s = <<>> /\ StackOK(s) /\ ToSet(s) = {}
    BY <1>1, TopFrame, EmptyStack DEF Core, BottomKinds
<1>4. /\ own \in [Observers -> BOOLEAN]
      /\ \A x \in Observers : x # o => own[x] = owned[x]
      /\ Top(t).at # "construct" => own[o] = owned[o]
    BY <1>1 DEF Core, ObjectTypes
<1> HIDE DEF own, s
<1>5. \A x \in Observers : own[x] => Alive(x)
    <2>1. Pins(Top(t), o)
        BY <1>1 DEF Pins
    <2> QED BY <1>1, <1>4, <2>1, Unchanged
<1>6. ASSUME NEW u \in Threads, NEW f \in Frames(u), u # t, f.at = "construct"
      PROVE  ~own[f.o]
    <2>1. f.o \in Observers /\ Uses(f) = {f.o} /\ ~owned[f.o]
        BY <1>6, TypedFrames, FramePins, Unchanged DEF Core, Uses
    <2>2. CASE Top(t).at # "construct" \/ f.o # o
        BY <1>4, <2>1, <2>2
    <2>3. CASE Top(t).at = "construct" /\ f.o = o
        <3>1. ~Clash(Top(t), f)
            BY <1>1, <1>6 DEF Core
        <3>2. Uses(Top(t)) = {o}
            BY <2>3 DEF Uses
        <3> QED BY <2>1, <2>3, <3>1, <3>2 DEF Clash
    <2> QED BY <2>2, <2>3
<1>7. \A u \in Threads : \A f \in Frames(u) :
          (u = t => f \in ToSet(s)) /\ f.at = "construct" => ~own[f.o]
    BY <1>3, <1>6
<1> QED BY <1>2, <1>3, <1>4, <1>5, <1>7, Unchanged, DropStep

LEMMA EndDetachKeeps ==
    ASSUME Core, NEW t \in Threads, EndDetach(t)
    PROVE  Kept
<1> DEFINE o == Top(t).o
           gone == IF Top(t).at = "reset" THEN {} ELSE Top(t).all
           obs == [observables EXCEPT ![o] = @ \ gone]
           s == Tail(stack[t])
<1>1. /\ ~Idle(t) /\ Top(t) \in DetachFrames /\ Top(t) \in Frames(t) /\ Top(t) \in Frame
      /\ o \in Observers
    BY TopFrame, FrameKinds DEF Core, EndDetach, Detaching, At, DetachFrames
<1>2. Drop(t, owned, obs, [stack EXCEPT ![t] = s]) /\ UNCHANGED <<active, unborn>>
    BY DEF EndDetach, Pop, proxies
<1>3. /\ StackOK(s) /\ ToSet(s) \subseteq Frames(t)
      /\ Top(t).at = "unregister" => ToSet(s) = {}
    BY <1>1, TopFrame, EmptyStack DEF Core, BottomKinds
<1>4. /\ obs \in [Observers -> SUBSET Observables]
      /\ \A p \in Observers : obs[p] \subseteq observables[p]
      /\ \A p \in Observers : p # o \/ Top(t).at = "reset" => obs[p] = observables[p]
    BY <1>1 DEF Core, ObjectTypes
<1> HIDE DEF obs, s
<1>5. ASSUME NEW u \in Threads, NEW f \in Frames(u), u = t => f \in ToSet(s), Joined(f)
      PROVE  observables[Lender(f)] \subseteq obs[Lender(f)]
    <2>1. Lender(f) \in Observers /\ Pins(f, Lender(f)) /\ Uses(f) = {Lender(f)}
        BY <1>5, TypedFrames, FramePins DEF Core, Joined
    <2>2. CASE Lender(f) # o \/ Top(t).at = "reset"
        BY <1>4, <2>1, <2>2
    <2>3. CASE Lender(f) = o /\ Top(t).at = "destroy"
        <3>1. Alive(o)
            BY <2>1, <2>3, Unchanged
        <3> QED BY <1>1, <2>3, <3>1 DEF Core
    <2>4. CASE Lender(f) = o /\ Top(t).at = "unregister"
        <3>1. u # t
            BY <1>3, <1>5, <2>4
        <3>2. ~Clash(Top(t), f)
            BY <1>1, <3>1 DEF Core
        <3>3. Uses(Top(t)) = {o}
            BY <2>4 DEF Uses
        <3> QED BY <2>1, <2>4, <3>2, <3>3 DEF Clash
    <2>5. Top(t).at \in {"destroy", "unregister", "reset"}
        BY <1>1 DEF DetachFrames
    <2> QED BY <2>2, <2>3, <2>4, <2>5
<1>6. \A p, x \in Observers : x \in obs[p] => Alive(x)
    BY <1>4, Unchanged
<1> QED BY <1>2, <1>3, <1>4, <1>5, <1>6, Unchanged, DropStep

\* The observer that a copy constructor begins to create was not there before.
LEMMA CopyConstructKeeps ==
    ASSUME Core, NEW t \in Threads, NEW o \in Observers, NEW p \in Observers,
           CopyConstruct(t, o, p)
    PROVE  Kept
<1> DEFINE f == JoinFrame("construct", o, p, "copy", {})
           s == <<f>> \o stack[t]
<1>1. /\ Idle(t) /\ o \in unborn /\ owned[p] /\ unborn' = unborn \ {o}
      /\ active' = [active EXCEPT ![o] = TRUE] /\ stack' = [stack EXCEPT ![t] = s]
      /\ UNCHANGED <<owned, observables>>
    BY DEF CopyConstruct, Joinable, Push, objects
<1>2. f \in Frame /\ f.at = "construct" /\ f.o = o /\ f.p = p /\ f.pc = "copy"
    BY DEF JoinFrame, Frame, JoinFrames, Joins
<1> DEFINE r == stack[t]
<1>3. StackOK(s) /\ ToSet(s) = {f} \cup Frames(t)
    <2>1. StackOK(r) /\ r = <<>> /\ Frames(t) = ToSet(r)
        BY <1>1, TypedFrames DEF Core, Idle, Frames
    <2> HIDE DEF r, f
    <2>2. StackOK(<<f>> \o r) /\ ToSet(<<f>> \o r) = {f} \cup ToSet(r)
        BY <1>2, <2>1, PushStack
    <2> QED BY <2>1, <2>2 DEF r
<1> HIDE DEF f, s, r
<1>4. ~Alive(o) /\ ~owned[o]
    BY <1>1, Unchanged DEF Core
<1>5. Alive(p)
    BY <1>1, Unchanged
<1>6. Uses(f) = {o} /\ ~Running(f) /\ ~Joined(f)
    BY <1>2 DEF Uses, Running, Joined
<1>7. \A x \in Observers : Pins(f, x) => x \in {o, p}
    BY <1>2 DEF Pins, Joins
<1>8. ASSUME NEW u \in Threads, NEW g \in Frames(u)
      PROVE  ~Clash(f, g)
    <2>1. g \in Frame /\ ~Pins(g, o)
        BY <1>4, TypedFrames, Unchanged DEF Core
    <2>2. o \notin Uses(g)
        <3>1. g.at = "destroy" => g.o # o
            BY <1>1 DEF Core
        <3>2. g.at = "destroy" => Uses(g) = {g.o}
            BY <2>1, FramePins
        <3> QED BY <2>1, <3>1, <3>2, FramePins
    <2>3. ~ (g.at = "borrow" /\ g.o = o)
        BY <2>1 DEF Pins, Joins
    <2> QED BY <1>2, <1>6, <2>2, <2>3 DEF Clash
<1>9. Admitted(t, f)
    BY <1>1, <1>2, <1>4, <1>5, <1>6, <1>7, <1>8 DEF Admitted
<1>10. /\ ObjectTypes' /\ unborn' \subseteq unborn
       /\ \A x \in Observers : active[x] /\ Alive(x) => active'[x]
       /\ \A x \in unborn' : ~Alive(x)
    BY <1>1 DEF Core, ObjectTypes
<1>11. /\ \A x \in Observers : owned'[x] => Alive(x)
       /\ \A y, x \in Observers : x \in observables'[y] => Alive(x)
       /\ \A u \in Threads : \A g \in Frames(u) :
             /\ Joined(g) => observables[Lender(g)] \subseteq observables'[Lender(g)]
             /\ g.at = "construct" => ~owned'[g.o]
    BY <1>1, Unchanged
<1> QED BY <1>1, <1>3, <1>9, <1>10, <1>11, Change

-----------------------------------------------------------------------------
LEMMA CoreInit == Init => Core /\ LinkTypes
<1> SUFFICES ASSUME Init PROVE Core /\ LinkTypes
    OBVIOUS
<1>1. \A t \in Threads : stack[t] = <<>> /\ Frames(t) = {}
    BY EmptyStack DEF Init, Frames
<1>2. StackTypes
    BY EmptyStack DEF Init, StackTypes
<1>3. ObjectTypes /\ LinkTypes
    BY ThreadAssumption DEF Init, ObjectTypes, LinkTypes
<1>4. \A o \in unborn : ~Alive(o)
    <2> SUFFICES ASSUME NEW o \in unborn, Alive(o) PROVE FALSE
        OBVIOUS
    <2>1. o \in Copies /\ o \in Observers /\ ~owned[o]
        BY ThreadAssumption DEF Init
    <2>2. \A p \in Observers : o \notin observables[p]
        BY <2>1 DEF Init, AtFirst
    <2>3. \A t \in Threads : ToSet(stack[t]) = {}
        BY <1>1, EmptyStack
    <2> QED BY <2>1, <2>2, <2>3 DEF Alive, Referenced
<1> QED BY <1>1, <1>2, <1>3, <1>4 DEF Core

\* What the notifications go through are observers, whatever the steps.
LEMMA LinksStep ==
    ASSUME Core, LinkTypes, [Next]_vars
    PROVE  LinkTypes'
<1> USE DEF LinkTypes, settings, links
<1>1. ASSUME NEW t \in Threads, ~Idle(t)
      PROVE  /\ Top(t) \in Frame
             /\ Top(t).at = "notify" => Top(t).s \in Observables
             /\ Top(t).at = "register" => Top(t).s \in Observables /\ Top(t).o \in Observers
             /\ Top(t).at \in Joins => Top(t).o \in Observers
    BY <1>1, TopFrame, FrameKinds
       DEF Core, NotifyFrames, RegisterFrames, JoinFrames
<1>2. ASSUME NEW t \in Threads, LockAndCheck(t) PROVE LinkTypes'
    BY <1>1, <1>2 DEF LockAndCheck, At
<1>3. ASSUME NEW t \in Threads, Connect(t) PROVE LinkTypes'
    BY <1>1, <1>3 DEF Connect
<1>4. ASSUME NEW t \in Threads, NEW s \in Observables, JoinNext(t, s) PROVE LinkTypes'
    BY <1>1, <1>4 DEF JoinNext, Joining, Hook
<1>5. ASSUME NEW t \in Threads, NEW s \in Observables, Unhook(t, s) PROVE LinkTypes'
    BY <1>5 DEF Unhook
<1>6. ASSUME NEW t \in Threads, ForgetDeferred(t) \/ Disconnect(t) \/ EndEnable(t)
      PROVE  LinkTypes'
    BY <1>6 DEF ForgetDeferred, Disconnect, EndEnable
<1>7. ASSUME NEW t \in Threads, NEW o \in Observers, NEW s \in Observables, Register(t, o, s)
      PROVE  LinkTypes'
    BY <1>7 DEF Register, Hook
<1>8. ASSUME NEW t \in Threads,
             \/ CheckEnabled(t) \/ CallSlot(t) \/ EndNotify(t)
             \/ EnterProxy(t) \/ RunUpdate(t) \/ LeaveUpdate(t) \/ UnlockProxy(t)
             \/ CallDeferred(t) \/ NoteFailure(t) \/ Catch(t)
             \/ CopyObservables(t) \/ EndJoin(t) \/ Deactivate(t) \/ EndDetach(t)
             \/ \E s \in Sources : Notify(t, s)
             \/ \E deferred \in BOOLEAN : Disable(t, deferred)
             \/ Enable(t)
      PROVE  LinkTypes'
    BY <1>8 DEF CheckEnabled, CallSlot, EndNotify, EnterProxy, RunUpdate, LeaveUpdate,
       UnlockProxy, CallDeferred, NoteFailure, Catch, CopyObservables, EndJoin, Deactivate,
       EndDetach, Notify, Disable, Enable
<1>9. ASSUME NEW t \in Threads, NEW o \in Observers,
             \/ \E s \in Observables : UnregisterWith(t, o, s)
             \/ \E p \in Observers : \/ RegisterWithObservables(t, o, p)
                                     \/ Assign(t, o, p) \/ CopyConstruct(t, o, p)
             \/ Unregister(t, o) \/ Release(t, o)
      PROVE  LinkTypes'
    BY <1>9 DEF UnregisterWith, RegisterWithObservables, Assign, CopyConstruct, Unregister,
       Release
<1>10. CASE UNCHANGED vars
    BY <1>10 DEF vars
<1> QED
    BY <1>2, <1>3, <1>4, <1>5, <1>6, <1>7, <1>8, <1>9, <1>10 DEF Next, Step, Begin

LEMMA KeptStep ==
    ASSUME Core, LinkTypes, [Next]_vars
    PROVE  Kept
<1>1. ASSUME NEW t \in Threads, Disable(t, TRUE) \/ Disable(t, FALSE) \/ Catch(t)
      PROVE  Kept
    <2>1. UNCHANGED <<owned, observables, active, unborn, stack>>
        BY <1>1 DEF Disable, Catch, objects, proxies
    <2> QED BY <2>1 DEF Kept, Core, ObjectTypes, StackTypes, Alive, Referenced, Frames
<1>2. CASE UNCHANGED vars
    BY <1>2 DEF vars, Kept, Core, ObjectTypes, StackTypes, Alive, Referenced, Frames
<1>3. ASSUME NEW t \in Threads, Step(t)
      PROVE  Kept
    BY <1>1, <1>3, NotifyKeeps, UpdateKeeps, LeaveUpdateKeeps, ConnectKeeps,
       CopyObservablesKeeps, EndJoinKeeps, JoinNextKeeps, DetachKeeps, EndDetachKeeps
       DEF Step
<1>4. ASSUME NEW t \in Threads, Begin(t)
      PROVE  Kept
    BY <1>1, <1>4, NotifyKeeps, CallKeeps, CopyConstructKeeps, ReleaseKeeps DEF Begin
<1> QED BY <1>2, <1>3, <1>4 DEF Next

LEMMA CoreStep ==
    ASSUME Core, LinkTypes, [Next]_vars
    PROVE  Core'
BY KeptStep DEF Kept

\* Owned observers, whichever others there are.
ManagedUpdates ==
    \A t \in Threads : \A f \in Frames(t) :
        Running(f) => active[f.o] /\ ~Destroying(f.o)

\* No thread runs update() on an observer that shared_ptrs own once its destructor has
\* begun, whatever the threads call (observable.hpp:300-319, 493-500).
THEOREM ManagedUpdateSafety == Spec => []ManagedUpdates
<1>1. Init => Core /\ LinkTypes
    BY CoreInit
<1>2. Core /\ LinkTypes /\ [Next]_vars => (Core /\ LinkTypes)'
    BY CoreStep, LinksStep
<1>3. Core => ManagedUpdates
    <2> SUFFICES ASSUME Core, NEW t \in Threads, NEW f \in Frames(t), Running(f)
                 PROVE  active[f.o] /\ ~Destroying(f.o)
        BY DEF ManagedUpdates
    <2>1. f.o \in Observers /\ Alive(f.o)
        BY TypedFrames, FramePins, Unchanged DEF Core
    <2>2. ~Destroying(f.o)
        BY <2>1 DEF Core, Destroying
    <2> QED BY <2>2 DEF Core
<1> QED BY <1>1, <1>2, <1>3, PTL DEF Spec

\* If all observers are owned that way, no update() runs on one in destruction.
THEOREM UpdateSafety == OnStack = {} => (Spec => []NoUpdateInDestruction)
<1> SUFFICES ASSUME OnStack = {} PROVE Spec => []NoUpdateInDestruction
    OBVIOUS
<1>1. ManagedUpdates => NoUpdateInDestruction
    BY DEF ManagedUpdates, NoUpdateInDestruction, Running
<1> QED BY <1>1, ManagedUpdateSafety, PTL

-----------------------------------------------------------------------------
(***************************************************************************)
(* What observables know of their observers, for each observer o.  Ours    *)
(* are the frames that are about to change it.                             *)
(***************************************************************************)
LinkKinds == {"register", "assign", "construct", "unregister", "reset", "destroy"}
Ours(t, o) == {f \in Frames(t) : f.at \in LinkKinds /\ f.o = o}

\* o observes what knows it or is about to; and nothing, once it is gone
Told(o) ==
    /\ \A s \in Observables : o \in observers[s] =>
          \/ s \in observables[o]
          \/ \E t \in Threads : \E f \in Ours(t, o) : f.at = "register" /\ f.s = s
    /\ \A s \in Observables : o \in slots[s] => s \in observables[o]
    /\ ~Alive(o) /\ ~Destroying(o) => observables[o] = {}

\* what a frame that detaches o has done
Detached(f, o) ==
    /\ f.pc \in {"deactivate", "unhook"} => f.now = {}
    /\ \A s \in f.now : o \notin observers[s]
    /\ \A s \in f.all \ (f.todo \cup f.now) : o \notin observers[s] /\ o \notin slots[s]
    /\ f.at = "destroy" => observables[o] \subseteq f.all

Placed(t, o) ==
    /\ \A f \in Ours(t, o) : f.at \in {"destroy", "unregister", "reset"} => Detached(f, o)
    \* a copy begins when the old registrations are gone
    /\ \A f \in Ours(t, o) : f.at \in {"assign", "construct"} /\ f.pc = "copy" =>
          \A s \in Observables : o \in observers[s] \/ o \in slots[s] =>
             \E g \in Ours(t, o) : g.at = "reset" /\ s \in g.todo \cup g.now
    /\ \A f, g \in Ours(t, o) : f.at = "register" =>
          /\ g.at \notin {"unregister", "reset"}
          /\ g.at \in {"assign", "construct"} => g.pc # "copy"
    /\ \A f \in Ours(t, o) : f.at = "reset" =>
          \E g \in Ours(t, o) : g.at = "assign" /\ g.pc = "copy"

Linked(o) == Told(o) /\ \A t \in Threads : Placed(t, o)
AllLinked == \A o \in Observers : Linked(o)

\* a destructor that has not begun to unregister
Fresh(f) ==
    /\ f.at = "destroy" /\ f.pc = "deactivate"
    /\ f.now = {} /\ f.todo = f.all /\ f.all = observables[f.o]

\* Nothing else about o than that it is being destroyed.
LEMMA LinkedSame ==
    ASSUME NEW o \in Observers, Linked(o), observables'[o] = observables[o],
           \A s \in Observables : o \in observers'[s] <=> o \in observers[s],
           \A s \in Observables : o \in slots'[s] <=> o \in slots[s],
           \A u \in Threads : Ours(u, o) \subseteq Ours(u, o)',
           \A u \in Threads : \A f \in Ours(u, o)' : f \in Ours(u, o) \/ Fresh(f)',
           \A u \in Threads : \A f \in Ours(u, o) :
              f.at \in {"destroy", "unregister", "reset"} => f.now \cup f.all \subseteq Observables,
           Alive(o) => Alive(o)' \/ Destroying(o)', Destroying(o) => Destroying(o)'
    PROVE  Linked(o)'
<1>1. Told(o)'
    BY DEF Linked, Told
<1>2. ASSUME NEW t \in Threads
      PROVE  Placed(t, o)'
    <2>1. ASSUME NEW f \in Ours(t, o)', f.at \in {"destroy", "unregister", "reset"}
          PROVE  Detached(f, o)'
        <3>1. CASE f \in Ours(t, o)
            BY <2>1, <3>1 DEF Linked, Placed, Detached
        <3>2. CASE Fresh(f)' /\ f \notin Ours(t, o)
            BY <3>2 DEF Fresh, Detached, Ours
        <3> QED BY <3>1, <3>2
    <2>2. \A f \in Ours(t, o)' : f.at # "destroy" => f \in Ours(t, o)
        BY DEF Fresh
    <2> QED BY <2>1, <2>2 DEF Linked, Placed
<1> QED BY <1>1, <1>2 DEF Linked

-----------------------------------------------------------------------------
(***************************************************************************)
(* The frames after a step.                                                *)
(***************************************************************************)
Rest(t) == ToSet(Tail(stack[t]))

LEMMA TopAndRest ==
    ASSUME StackTypes, NEW t \in Threads, ~Idle(t)
    PROVE  /\ Frames(t) = {Top(t)} \cup Rest(t)
           /\ Top(t).at \in BottomKinds => Rest(t) = {}
           /\ Tail(stack[t]) \in Seq(Frame)
<1> DEFINE s == stack[t]
<1>1. s \in Seq(Frame) /\ s # <<>>
    BY TypedFrames DEF Idle
<1>2. ToSet(s) = {Head(s)} \cup ToSet(Tail(s))
    <2> HIDE DEF s
    <2>1. <<Head(s)>> \in Seq(Frame) /\ Tail(s) \in Seq(Frame) /\ ToSet(<<Head(s)>>) = {Head(s)}
        BY <1>1 DEF ToSet
    <2>2. s = <<Head(s)>> \o Tail(s)
        BY <1>1
    <2>3. ToSet(<<Head(s)>> \o Tail(s)) = ToSet(<<Head(s)>>) \cup ToSet(Tail(s))
        <3> DEFINE q == <<Head(s)>>
                   r == Tail(s)
        <3>1. q \in Seq(Frame) /\ r \in Seq(Frame)
            BY <2>1
        <3> HIDE DEF q, r
        <3>2. ToSet(q \o r) = ToSet(q) \cup ToSet(r)
            BY <3>1, ConcatFrames
        <3> QED BY <3>2 DEF q, r
    <2> QED BY <2>1, <2>2, <2>3
<1>3. Top(t).at \in BottomKinds => Rest(t) = {}
    BY TopFrame, EmptyStack DEF Rest
<1> QED BY <1>1, <1>2, <1>3 DEF Frames, Top, Rest

LEMMA FramesAfter ==
    ASSUME StackTypes, NEW t \in Threads
    PROVE  /\ \A s : stack' = [stack EXCEPT ![t] = s] =>
                 Frames(t)' = ToSet(s) /\ \A u \in Threads \ {t} : Frames(u)' = Frames(u)
           /\ \A f \in Frame :
                 stack' = Push(t, f) =>
                    /\ Frames(t)' = {f} \cup Frames(t)
                    /\ \A u \in Threads \ {t} : Frames(u)' = Frames(u)
           /\ ~Idle(t) /\ stack' = Pop(t) =>
                 /\ Frames(t)' = Rest(t)
                 /\ \A u \in Threads \ {t} : Frames(u)' = Frames(u)
           /\ \A f \in Frame :
                 ~Idle(t) /\ stack' = Replace(t, f) =>
                    /\ Frames(t)' = {f} \cup Rest(t)
                    /\ \A u \in Threads \ {t} : Frames(u)' = Frames(u)
           /\ \A f, g \in Frame :
                 ~Idle(t) /\ stack' = [stack EXCEPT ![t] = <<g, f>> \o Tail(@)] =>
                    /\ Frames(t)' = {f, g} \cup Rest(t)
                    /\ \A u \in Threads \ {t} : Frames(u)' = Frames(u)
<1>1. ASSUME NEW s, stack' = [stack EXCEPT ![t] = s]
      PROVE  Frames(t)' = ToSet(s) /\ \A u \in Threads \ {t} : Frames(u)' = Frames(u)
    <2>1. stack'[t] = s /\ \A u \in Threads \ {t} : stack'[u] = stack[u]
        BY <1>1 DEF StackTypes
    <2> QED BY <2>1 DEF Frames
<1>2. ASSUME NEW f \in Frame, NEW r \in Seq(Frame)
      PROVE  ToSet(<<f>> \o r) = {f} \cup ToSet(r)
    <2> DEFINE q == <<f>>
    <2>1. q \in Seq(Frame) /\ ToSet(q) = {f}
        BY DEF ToSet
    <2> HIDE DEF q
    <2>2. ToSet(q \o r) = ToSet(q) \cup ToSet(r)
        BY <2>1, ConcatFrames
    <2> QED BY <2>1, <2>2 DEF q
<1>3. ASSUME NEW f \in Frame, NEW g \in Frame, NEW r \in Seq(Frame)
      PROVE  ToSet(<<g, f>> \o r) = {f, g} \cup ToSet(r)
    <2> DEFINE q == <<g, f>>
    <2>1. q \in Seq(Frame) /\ ToSet(q) = {f, g}
        BY DEF ToSet
    <2> HIDE DEF q
    <2>2. ToSet(q \o r) = ToSet(q) \cup ToSet(r)
        BY <2>1, ConcatFrames
    <2> QED BY <2>1, <2>2 DEF q
<1>4. stack[t] \in Seq(Frame) /\ Frames(t) = ToSet(stack[t])
    BY TypedFrames DEF Frames
<1>5. ~Idle(t) => Tail(stack[t]) \in Seq(Frame)
    BY TopAndRest
<1>6. ASSUME NEW f \in Frame, stack' = Push(t, f)
      PROVE  /\ Frames(t)' = {f} \cup Frames(t)
             /\ \A u \in Threads \ {t} : Frames(u)' = Frames(u)
    <2> DEFINE z == <<f>> \o stack[t]
    <2>1. stack' = [stack EXCEPT ![t] = z] /\ ToSet(z) = {f} \cup Frames(t)
        BY <1>2, <1>4, <1>6 DEF Push
    <2> HIDE DEF z
    <2> QED BY <1>1, <2>1
<1>7. ASSUME ~Idle(t), stack' = Pop(t)
      PROVE  /\ Frames(t)' = Rest(t)
             /\ \A u \in Threads \ {t} : Frames(u)' = Frames(u)
    BY <1>1, <1>7 DEF Pop, Rest
<1>8. ASSUME NEW f \in Frame, ~Idle(t), stack' = Replace(t, f)
      PROVE  /\ Frames(t)' = {f} \cup Rest(t)
             /\ \A u \in Threads \ {t} : Frames(u)' = Frames(u)
    <2> DEFINE z == <<f>> \o Tail(stack[t])
    <2>1. stack' = [stack EXCEPT ![t] = z] /\ ToSet(z) = {f} \cup Rest(t)
        BY <1>2, <1>5, <1>8 DEF Replace, Rest
    <2> HIDE DEF z
    <2> QED BY <1>1, <2>1
<1>9. ASSUME NEW f \in Frame, NEW g \in Frame, ~Idle(t),
             stack' = [stack EXCEPT ![t] = <<g, f>> \o Tail(@)]
      PROVE  /\ Frames(t)' = {f, g} \cup Rest(t)
             /\ \A u \in Threads \ {t} : Frames(u)' = Frames(u)
    <2> DEFINE z == <<g, f>> \o Tail(stack[t])
    <2>1. stack' = [stack EXCEPT ![t] = z]
        BY <1>9
    <2>2. Tail(stack[t]) \in Seq(Frame)
        BY <1>5, <1>9
    <2>3. ToSet(z) = {f, g} \cup Rest(t)
        <3> DEFINE r == Tail(stack[t])
        <3>1. r \in Seq(Frame)
            BY <2>2
        <3> HIDE DEF r
        <3>2. ToSet(<<g, f>> \o r) = {f, g} \cup ToSet(r)
            BY <1>3, <3>1
        <3> QED BY <3>2 DEF r, Rest
    <2> HIDE DEF z
    <2> QED BY <1>1, <2>1, <2>3
<1> QED BY <1>1, <1>6, <1>7, <1>8, <1>9

LEMMA SetToSeqComplete ==
    ASSUME NEW S, IsFiniteSet(S)
    PROVE  ToSet(SetToSeq(S)) = S
<1> DEFINE D == 1..Cardinality(S)
           q == SetToSeq(S)
<1>1. Cardinality(S) \in Nat /\ \E f \in [D -> S] : IsInjective(f)
    BY FS_CardinalityType DEF ExistsBijection, Bijection, Injection
<1>2. q \in [D -> S] /\ IsInjective(q)
    BY <1>1 DEF SetToSeq
<1>3. Cardinality(D) = Cardinality(S)
    BY <1>1, FS_Interval
<1> HIDE DEF q, D
<1>4. q \in Injection(D, S)
    BY <1>2 DEF Injection, IsInjective
<1>5. q \in Surjection(D, S)
    BY <1>3, <1>4, FS_Injection
<1>6. S \subseteq {q[i] : i \in DOMAIN q}
    BY <1>2, <1>5 DEF Surjection
<1> QED BY <1>2, <1>6 DEF ToSet, q

\* The frames after t has let go of references: destructors of what was lost.
LEMMA FramesAfterDrop ==
    ASSUME StackTypes, NEW t \in Threads, NEW s \in Seq(Frame),
           NEW own, NEW obs \in [Observers -> SUBSET Observables],
           Drop(t, own, obs, [stack EXCEPT ![t] = s])
    PROVE  /\ owned' = own /\ observables' = obs
           /\ \A u \in Threads \ {t} : Frames(u)' = Frames(u)
           /\ ToSet(s) \subseteq Frames(t)'
           /\ \A f \in Frames(t)' : f \in ToSet(s) \/ (Fresh(f)' /\ f.all \subseteq Observables)
           /\ \A o \in Observers : Alive(o) => Alive(o)' \/ Destroying(o)'
<1> DEFINE stk  == [stack EXCEPT ![t] = s]
           lost == {o \in Observers : /\ Referenced(o, owned, observables, stack)
                                      /\ ~Referenced(o, own, obs, stk)}
           g    == [o \in lost |-> DetachFrame("destroy", o, "deactivate", obs[o])]
           D    == {DetachFrame("destroy", o, "deactivate", obs[o]) : o \in lost}
           q    == SetToSeq(D)
<1>1. /\ owned' = own /\ observables' = obs /\ stack' = [stk EXCEPT ![t] = q \o @]
    BY DEF Drop
<1>2. /\ stack'[t] = q \o s
      /\ \A u \in Threads \ {t} : stack'[u] = stack[u] /\ stk[u] = stack[u]
      /\ stk[t] = s
    BY <1>1 DEF StackTypes
<1>3. D = {g[o] : o \in lost}
    OBVIOUS
<1>4. IsFiniteSet(D)
    <2>1. lost \subseteq Observers
        OBVIOUS
    <2>2. IsFiniteSet(lost)
        BY <2>1, ThreadAssumption, FS_Subset
    <2>3. g \in Surjection(lost, D)
        <3>1. g \in [lost -> D]
            BY <1>3
        <3> QED BY <1>3, <3>1 DEF Surjection
    <2> HIDE DEF lost, g, D
    <2> QED BY <2>2, <2>3, FS_Surjection
<1>5. ASSUME NEW f \in D
      PROVE  /\ f \in Frame /\ f.at = "destroy" /\ f.pc = "deactivate" /\ f.o \in Observers
             /\ f.now = {} /\ f.todo = obs[f.o] /\ f.all = obs[f.o]
    <2>1. PICK o \in lost : f = DetachFrame("destroy", o, "deactivate", obs[o])
        BY <1>5
    <2>2. o \in Observers
        OBVIOUS
    <2> HIDE DEF lost, stk
    <2> QED BY <2>1, <2>2 DEF DetachFrame, Frame, DetachFrames
<1>6. \A o \in lost : \E f \in D : f.at = "destroy" /\ f.o = o
    <2> TAKE o \in lost
    <2> DEFINE f == DetachFrame("destroy", o, "deactivate", obs[o])
    <2>1. f \in D /\ f.at = "destroy" /\ f.o = o
        BY DEF DetachFrame
    <2> HIDE DEF f, D, lost
    <2> QED BY <2>1
<1>7. \A o \in Observers : Alive(o) => Referenced(o, own, obs, stk) \/ o \in lost
    BY DEF Alive
<1> HIDE DEF D, lost, stk, g
<1>8. ToSet(q) = D /\ q \in Seq(Frame)
    <2>1. ToSet(q) = D
        BY <1>4, SetToSeqComplete
    <2>2. q \in Seq(D)
        BY <1>4, SetToSeqElements
    <2>3. D \subseteq Frame
        BY <1>5
    <2> HIDE DEF q
    <2> QED BY <2>1, <2>2, <2>3
<1> HIDE DEF q
<1>9. Frames(t)' = D \cup ToSet(s)
    <2>1. ToSet(q \o s) = ToSet(q) \cup ToSet(s)
        BY <1>8, ConcatFrames
    <2> QED BY <1>2, <1>8, <2>1 DEF Frames
<1>10. \A u \in Threads \ {t} : Frames(u)' = Frames(u)
    BY <1>2 DEF Frames
<1>11. \A f \in D : Fresh(f)' /\ f.all \subseteq Observables
    BY <1>1, <1>5 DEF Fresh
<1>12. ASSUME NEW o \in Observers, Alive(o)
       PROVE  Alive(o)' \/ Destroying(o)'
    <2>1. CASE o \in lost
        BY <1>6, <1>9, <2>1 DEF Destroying
    <2>2. CASE Referenced(o, own, obs, stk)
        <3>1. \A u \in Threads : ToSet(stk[u]) \subseteq Frames(u)'
            BY <1>2, <1>9, <1>10 DEF Frames
        <3>2. CASE own[o] \/ \E p \in Observers : o \in obs[p]
            BY <1>1, <3>2 DEF Alive, Referenced
        <3>3. CASE \E u \in Threads : \E f \in ToSet(stk[u]) : Pins(f, o)
            BY <3>1, <3>3 DEF Alive, Referenced, Frames
        <3> QED BY <2>2, <3>2, <3>3 DEF Referenced
    <2> QED BY <1>7, <1>12, <2>1, <2>2
<1> QED BY <1>1, <1>9, <1>10, <1>11, <1>12

\* Without letting go, what was referred to is, if the frames that refer to it stay
\* or are replaced by frames that do.
LEMMA StillAlive ==
    ASSUME UNCHANGED <<owned, observables>>, NEW t \in Threads,
           \A u \in Threads \ {t} : Frames(u)' = Frames(u),
           \A f \in Frames(t) : \A o \in Observers : Pins(f, o) =>
              f \in Frames(t)' \/ \E g \in Frames(t)' : Pins(g, o)
    PROVE  \A o \in Observers : Alive(o) => Alive(o)'
<1> SUFFICES ASSUME NEW o \in Observers, Alive(o) PROVE Alive(o)'
    OBVIOUS
<1>1. CASE owned[o] \/ \E p \in Observers : o \in observables[p]
    BY <1>1 DEF Alive, Referenced
<1>2. ASSUME NEW u \in Threads, NEW f \in Frames(u), Pins(f, o)
      PROVE  \E v \in Threads : \E g \in Frames(v)' : Pins(g, o)
    BY <1>2
<1> QED BY <1>1, <1>2 DEF Alive, Referenced, Frames

\* The observers whose links, observables and frames a step of t leaves alone.
LEMMA Others ==
    ASSUME Core, AllLinked, NEW t \in Threads, NEW X,
           \A o \in Observers \ X : observables'[o] = observables[o],
           \A o \in Observers \ X : \A s \in Observables :
              /\ o \in observers'[s] <=> o \in observers[s]
              /\ o \in slots'[s] <=> o \in slots[s],
           \A u \in Threads \ {t} : Frames(u)' = Frames(u),
           \A f \in Frames(t) : f \in Frames(t)' \/ f.at \notin LinkKinds \/ f.o \in X,
           \A f \in Frames(t)' : f \in Frames(t) \/ f.at \notin LinkKinds \/ f.o \in X
                                    \/ Fresh(f)',
           \A o \in Observers \ X : Alive(o) => Alive(o)' \/ Destroying(o)'
    PROVE  \A o \in Observers \ X : Linked(o)'
<1> SUFFICES ASSUME NEW o \in Observers \ X PROVE Linked(o)'
    OBVIOUS
<1>1. \A u \in Threads : Ours(u, o) \subseteq Ours(u, o)'
    BY DEF Ours
<1>2. \A u \in Threads : \A f \in Ours(u, o)' : f \in Ours(u, o) \/ Fresh(f)'
    BY DEF Ours
<1>3. \A u \in Threads : \A f \in Ours(u, o) :
          f.at \in {"destroy", "unregister", "reset"} => f.now \cup f.all \subseteq Observables
    BY TypedFrames, FrameKinds DEF Core, Ours, DetachFrames
<1>4. Destroying(o) => Destroying(o)'
    <2> SUFFICES ASSUME NEW u \in Threads, NEW f \in Frames(u), f.at = "destroy", f.o = o
                 PROVE  \E g \in Frames(u)' : g.at = "destroy" /\ g.o = o
        BY DEF Destroying
    <2>1. f \in Ours(u, o)
        BY DEF Ours, LinkKinds
    <2> QED BY <1>1, <2>1 DEF Ours
<1> QED BY <1>1, <1>2, <1>3, <1>4, LinkedSame DEF AllLinked

\* A step of t leaves the frames that are about to change links, and goes on to hold
\* what it referred to.
QuietFrames(t) ==
    /\ \A u \in Threads \ {t} : Frames(u)' = Frames(u)
    /\ \A f \in Frames(t) :
          \/ f \in Frames(t)'
          \/ /\ f.at \notin LinkKinds
             /\ \A o \in Observers : Pins(f, o) => \E g \in Frames(t)' : Pins(g, o)
    /\ \A f \in Frames(t)' : f \in Frames(t) \/ f.at \notin LinkKinds

LEMMA QuietStep ==
    ASSUME Core, AllLinked, NEW t \in Threads, UNCHANGED <<links, objects>>, QuietFrames(t)
    PROVE  AllLinked'
<1> USE DEF objects, links
<1>1. \A o \in Observers : Alive(o) => Alive(o)'
    BY StillAlive DEF QuietFrames
<1> DEFINE X == {}
<1>2. /\ \A o \in Observers \ X : observables'[o] = observables[o]
      /\ \A o \in Observers \ X : \A s \in Observables :
              /\ o \in observers'[s] <=> o \in observers[s]
              /\ o \in slots'[s] <=> o \in slots[s]
      /\ \A u \in Threads \ {t} : Frames(u)' = Frames(u)
      /\ \A f \in Frames(t) : f \in Frames(t)' \/ f.at \notin LinkKinds \/ f.o \in X
      /\ \A f \in Frames(t)' : f \in Frames(t) \/ f.at \notin LinkKinds \/ f.o \in X
                                    \/ Fresh(f)'
      /\ \A o \in Observers \ X : Alive(o) => Alive(o)' \/ Destroying(o)'
    BY <1>1 DEF QuietFrames
<1> HIDE DEF X
<1>3. \A o \in Observers \ X : Linked(o)'
    BY <1>2, Others
<1> QED BY <1>3 DEF X, AllLinked

LEMMA QuietPush ==
    ASSUME StackTypes, NEW t \in Threads, NEW f \in Frame, f.at \notin LinkKinds,
           stack' = Push(t, f)
    PROVE  QuietFrames(t)
BY FramesAfter DEF QuietFrames

LEMMA QuietPop ==
    ASSUME StackTypes, NEW t \in Threads, ~Idle(t), Top(t).at \notin LinkKinds,
           stack' = Pop(t), \A o \in Observers : ~Pins(Top(t), o)
    PROVE  QuietFrames(t)
BY FramesAfter, TopAndRest DEF QuietFrames

LEMMA QuietReplace ==
    ASSUME StackTypes, NEW t \in Threads, ~Idle(t), Top(t).at \notin LinkKinds,
           NEW f \in Frame, f.at \notin LinkKinds,
           \A o \in Observers : Pins(Top(t), o) => Pins(f, o),
           \/ stack' = Replace(t, f)
           \/ \E g \in Frame : /\ g.at \notin LinkKinds
                               /\ stack' = [stack EXCEPT ![t] = <<g, f>> \o Tail(@)]
    PROVE  QuietFrames(t)
<1>1. Frames(t) = {Top(t)} \cup Rest(t)
    BY TopAndRest
<1>2. CASE stack' = Replace(t, f)
    <2>1. Frames(t)' = {f} \cup Rest(t) /\ \A u \in Threads \ {t} : Frames(u)' = Frames(u)
        BY <1>2, FramesAfter
    <2> QED BY <1>1, <2>1 DEF QuietFrames
<1>3. ASSUME NEW g \in Frame, g.at \notin LinkKinds,
             stack' = [stack EXCEPT ![t] = <<g, f>> \o Tail(@)]
      PROVE  QuietFrames(t)
    <2>1. Frames(t)' = {f, g} \cup Rest(t) /\ \A u \in Threads \ {t} : Frames(u)' = Frames(u)
        BY <1>3, FramesAfter
    <2> QED BY <1>1, <1>3, <2>1 DEF QuietFrames
<1> QED BY <1>2, <1>3

LEMMA NotifyQuiet ==
    ASSUME Core, LinkTypes, NEW t \in Threads,
           \/ \E s \in Sources : Notify(t, s)
           \/ CheckEnabled(t) \/ LockAndCheck(t) \/ CallSlot(t) \/ EndNotify(t)
           \/ Enable(t) \/ CallDeferred(t) \/ NoteFailure(t) \/ EndEnable(t)
    PROVE  UNCHANGED <<links, objects>> /\ QuietFrames(t)
<1>s. StackTypes
    BY DEF Core
<1>t. ASSUME ~Idle(t)
      PROVE  /\ Top(t) \in Frame
             /\ Top(t).at = "notify" => Top(t) \in NotifyFrames
             /\ Top(t).at = "enable" => Top(t) \in EnableFrames
    BY <1>s, <1>t, TopFrame, FrameKinds
<1>k. ASSUME NEW f, f.at \in {"notify", "enable"}
      PROVE  f.at \notin LinkKinds /\ \A o : ~Pins(f, o)
    BY <1>k DEF LinkKinds, Pins, Joins
<1>u. ASSUME NEW o \in Observers
      PROVE  UpdateFrame(o) \in Frame /\ UpdateFrame(o).at \notin LinkKinds
    BY DEF UpdateFrame, Frame, UpdateFrames, LinkKinds
<1>1. ASSUME NEW s \in Sources, Notify(t, s)
      PROVE  UNCHANGED <<links, objects>> /\ QuietFrames(t)
    <2> DEFINE f == NotifyFrame(s)
    <2>1. f \in Frame /\ f.at = "notify"
        BY DEF Observables, NotifyFrame, Frame, NotifyFrames
    <2>2. stack' = Push(t, f) /\ UNCHANGED <<links, objects>>
        BY <1>1 DEF Notify
    <2> HIDE DEF f
    <2> QED BY <1>s, <1>k, <2>1, <2>2, QuietPush
<1>2. ASSUME CheckEnabled(t)
      PROVE  UNCHANGED <<links, objects>> /\ QuietFrames(t)
    <2> DEFINE f == IF updatesType = "enabled"
                      THEN [Top(t) EXCEPT !.pc = "emit", !.todo = slots[Top(t).s]]
                      ELSE [Top(t) EXCEPT !.pc = "wait"]
    <2>1. ~Idle(t) /\ stack' = Replace(t, f) /\ UNCHANGED <<links, objects>>
          /\ Top(t) \in NotifyFrames
        BY <1>2, <1>t DEF CheckEnabled, At
    <2>2. f \in NotifyFrames /\ Top(t).at = "notify"
        BY <2>1 DEF NotifyFrames, LinkTypes
    <2> HIDE DEF f
    <2>3. f \in Frame /\ f.at = "notify"
        BY <2>2 DEF Frame, NotifyFrames
    <2> QED BY <1>s, <1>k, <2>1, <2>2, <2>3, QuietReplace
<1>3. ASSUME LockAndCheck(t)
      PROVE  UNCHANGED <<links, objects>> /\ QuietFrames(t)
    <2> DEFINE f == [Top(t) EXCEPT !.pc = "emit", !.locked = TRUE, !.todo = slots[Top(t).s]]
    <2>1. ~Idle(t) /\ (stack' = Replace(t, f) \/ stack' = Pop(t))
          /\ UNCHANGED <<links, objects>> /\ Top(t) \in NotifyFrames
        BY <1>3, <1>t DEF LockAndCheck, At
    <2>2. f \in NotifyFrames /\ Top(t).at = "notify"
        BY <2>1 DEF NotifyFrames, LinkTypes
    <2> HIDE DEF f
    <2>3. f \in Frame /\ f.at = "notify"
        BY <2>2 DEF Frame, NotifyFrames
    <2> QED BY <1>s, <1>k, <2>1, <2>2, <2>3, QuietReplace, QuietPop
<1>4. ASSUME CallSlot(t)
      PROVE  UNCHANGED <<links, objects>> /\ QuietFrames(t)
    <2>1. ~Idle(t) /\ UNCHANGED <<links, objects>> /\ Top(t) \in NotifyFrames
        BY <1>4, <1>t DEF CallSlot, At
    <2>2. PICK o \in Top(t).todo :
             LET f == [Top(t) EXCEPT !.todo = @ \ {o}] IN
             stack' = [stack EXCEPT ![t] =
                 (IF o \in slots[f.s] THEN <<UpdateFrame(o), f>> ELSE <<f>>) \o Tail(@)]
        BY <1>4 DEF CallSlot
    <2> DEFINE f == [Top(t) EXCEPT !.todo = @ \ {o}]
               g == UpdateFrame(o)
    <2>3. f \in NotifyFrames /\ o \in Observers /\ Top(t).at = "notify"
        BY <2>1 DEF NotifyFrames
    <2>4. \/ stack' = [stack EXCEPT ![t] = <<g, f>> \o Tail(@)]
          \/ stack' = Replace(t, f)
        BY <2>2 DEF Replace
    <2>5. g \in Frame /\ g.at \notin LinkKinds
        BY <1>u, <2>3
    <2> HIDE DEF f, g
    <2>6. f \in Frame /\ f.at = "notify"
        BY <2>3 DEF Frame, NotifyFrames
    <2>7. \A x \in Observers : Pins(Top(t), x) => Pins(f, x)
        BY <1>k, <2>3
    <2>8. Top(t).at \notin LinkKinds /\ f.at \notin LinkKinds
        BY <1>k, <2>3, <2>6
    <2>9. QuietFrames(t)
        BY <1>s, <2>1, <2>4, <2>5, <2>6, <2>7, <2>8, QuietReplace
    <2> QED BY <2>1, <2>9
<1>5. ASSUME EndNotify(t)
      PROVE  UNCHANGED <<links, objects>> /\ QuietFrames(t)
    BY <1>s, <1>k, <1>5, QuietPop DEF EndNotify, At
<1>6. ASSUME Enable(t)
      PROVE  UNCHANGED <<links, objects>> /\ QuietFrames(t)
    <2> DEFINE f == EnableFrame(deferredObservers)
    <2>1. f \in Frame /\ f.at = "enable"
        BY DEF LinkTypes, EnableFrame, Frame, EnableFrames
    <2>2. stack' = Push(t, f) /\ UNCHANGED <<links, objects>>
        BY <1>6 DEF Enable
    <2> HIDE DEF f
    <2> QED BY <1>s, <1>k, <2>1, <2>2, QuietPush
<1>7. ASSUME CallDeferred(t)
      PROVE  UNCHANGED <<links, objects>> /\ QuietFrames(t)
    <2>1. ~Idle(t) /\ UNCHANGED <<links, objects>> /\ Top(t) \in EnableFrames
        BY <1>7, <1>t DEF CallDeferred, Enabling
    <2>2. PICK o \in Top(t).todo : stack' = [stack EXCEPT ![t] =
              <<UpdateFrame(o), [Top(t) EXCEPT !.todo = @ \ {o}]>> \o Tail(@)]
        BY <1>7 DEF CallDeferred
    <2> DEFINE f == [Top(t) EXCEPT !.todo = @ \ {o}]
               g == UpdateFrame(o)
    <2>3. f \in EnableFrames /\ o \in Observers /\ Top(t).at = "enable"
        BY <2>1 DEF EnableFrames
    <2>4. stack' = [stack EXCEPT ![t] = <<g, f>> \o Tail(@)]
        BY <2>2
    <2>5. g \in Frame /\ g.at \notin LinkKinds
        BY <1>u, <2>3
    <2> HIDE DEF f, g
    <2>6. f \in Frame /\ f.at = "enable"
        BY <2>3 DEF Frame, EnableFrames
    <2>7. \A x \in Observers : Pins(Top(t), x) => Pins(f, x)
        BY <1>k, <2>3
    <2>8. Top(t).at \notin LinkKinds /\ f.at \notin LinkKinds
        BY <1>k, <2>3, <2>6
    <2>9. QuietFrames(t)
        BY <1>s, <2>1, <2>4, <2>5, <2>6, <2>7, <2>8, QuietReplace
    <2> QED BY <2>1, <2>9
<1>8. ASSUME NoteFailure(t)
      PROVE  UNCHANGED <<links, objects>> /\ QuietFrames(t)
    <2> DEFINE f == [Top(t) EXCEPT !.successful = FALSE]
    <2>1. ~Idle(t) /\ stack' = Replace(t, f) /\ UNCHANGED <<links, objects>>
          /\ Top(t) \in EnableFrames
        BY <1>8, <1>t DEF NoteFailure, Enabling
    <2>2. f \in EnableFrames /\ Top(t).at = "enable"
        BY <2>1 DEF EnableFrames
    <2> HIDE DEF f
    <2>3. f \in Frame /\ f.at = "enable"
        BY <2>2 DEF Frame, EnableFrames
    <2> QED BY <1>s, <1>k, <2>1, <2>2, <2>3, QuietReplace
<1>9. ASSUME EndEnable(t)
      PROVE  UNCHANGED <<links, objects>> /\ QuietFrames(t)
    BY <1>s, <1>k, <1>9, QuietPop DEF EndEnable, Enabling
<1> QED BY <1>1, <1>2, <1>3, <1>4, <1>5, <1>6, <1>7, <1>8, <1>9

LEMMA UpdateQuiet ==
    ASSUME Core, NEW t \in Threads,
           EnterProxy(t) \/ RunUpdate(t) \/ UnlockProxy(t)
    PROVE  UNCHANGED <<links, objects>> /\ QuietFrames(t)
<1>s. StackTypes
    BY DEF Core
<1>1. ~Idle(t) /\ Top(t) \in UpdateFrames /\ Top(t).at \notin LinkKinds
      /\ UNCHANGED <<links, objects>>
    <2>1. ~Idle(t) /\ Top(t).at = "update" /\ UNCHANGED <<links, objects>>
        BY DEF EnterProxy, RunUpdate, UnlockProxy, At
    <2> QED BY <1>s, <2>1, TopFrame, FrameKinds DEF LinkKinds
<1> SUFFICES QuietFrames(t)
    BY <1>1
<1> DEFINE o == Top(t).o
<1>2. ASSUME Top(t).pc \in {"enter", "exit"}
      PROVE  \A x \in Observers : ~Pins(Top(t), x)
    BY <1>1, <1>2 DEF Pins, Joins, UpdateFrames
<1>3. CASE EnterProxy(t)
    <2> DEFINE f == [Top(t) EXCEPT !.pc = "body"]
    <2>1. Top(t).pc = "enter" /\ (stack' = Pop(t) \/ stack' = Replace(t, f))
        BY <1>3 DEF EnterProxy, At
    <2>2. f \in UpdateFrames
        BY <1>1 DEF UpdateFrames
    <2> HIDE DEF f
    <2>3. f \in Frame /\ f.at \notin LinkKinds
        BY <2>2 DEF Frame, UpdateFrames, LinkKinds
    <2> QED BY <1>s, <1>1, <1>2, <2>1, <2>3, QuietPop, QuietReplace
<1>4. CASE RunUpdate(t)
    <2> DEFINE f == [Top(t) EXCEPT !.pc = "leave"]
               g == NotifyFrame(o)
    <2>1. f \in UpdateFrames /\ f.pc = "leave" /\ f.o = o
        BY <1>1 DEF UpdateFrames
    <2>2. \/ o \in Forwarders /\ stack' = [stack EXCEPT ![t] = <<g, f>> \o Tail(@)]
          \/ stack' = Replace(t, f)
        BY <1>4 DEF RunUpdate, Replace
    <2>3. o \in Forwarders => g \in Frame
        BY DEF Observables, NotifyFrame, Frame, NotifyFrames
    <2>4. g.at \notin LinkKinds
        BY DEF NotifyFrame, LinkKinds
    <2> HIDE DEF f, g
    <2>5. f \in Frame /\ f.at \notin LinkKinds
        BY <2>1 DEF Frame, UpdateFrames, LinkKinds
    <2>6. \A x \in Observers : Pins(Top(t), x) => Pins(f, x)
        BY <1>1, <2>1 DEF Pins, Joins, UpdateFrames
    <2> QED BY <1>s, <1>1, <2>2, <2>3, <2>4, <2>5, <2>6, QuietReplace
<1>5. CASE UnlockProxy(t)
    <2>1. Top(t).pc = "exit" /\ stack' = Pop(t)
        BY <1>5 DEF UnlockProxy, At
    <2> QED BY <1>s, <1>1, <1>2, <2>1, QuietPop
<1> QED BY <1>3, <1>4, <1>5

\* what touches no frame, and the call that borrows the observables of another observer
LEMMA OtherQuiet ==
    ASSUME Core, NEW t \in Threads,
           \/ Disable(t, TRUE) \/ Disable(t, FALSE) \/ Catch(t)
           \/ \E o, p \in Observers : RegisterWithObservables(t, o, p)
    PROVE  UNCHANGED <<links, objects>> /\ QuietFrames(t)
<1>s. StackTypes
    BY DEF Core
<1>1. CASE Disable(t, TRUE) \/ Disable(t, FALSE) \/ Catch(t)
    <2>1. UNCHANGED <<links, objects, stack>>
        BY <1>1 DEF Disable, Catch
    <2>2. QuietFrames(t)
        BY <2>1 DEF QuietFrames, Frames
    <2> QED BY <2>1, <2>2
<1>2. ASSUME NEW o \in Observers, NEW p \in Observers, RegisterWithObservables(t, o, p)
      PROVE  UNCHANGED <<links, objects>> /\ QuietFrames(t)
    <2> DEFINE f == JoinFrame("borrow", o, p, "join", observables[p])
    <2>1. stack' = Push(t, f) /\ UNCHANGED <<links, objects>>
        BY <1>2 DEF RegisterWithObservables
    <2>2. f \in Frame /\ f.at \notin LinkKinds
        BY DEF Core, ObjectTypes, JoinFrame, Frame, JoinFrames, Joins, LinkKinds
    <2> HIDE DEF f
    <2> QED BY <1>s, <2>1, <2>2, QuietPush
<1> QED BY <1>1, <1>2

LEMMA QuietLinks ==
    ASSUME Core, LinkTypes, AllLinked, NEW t \in Threads,
           \/ \E s \in Sources : Notify(t, s)
           \/ CheckEnabled(t) \/ LockAndCheck(t) \/ CallSlot(t) \/ EndNotify(t)
           \/ Enable(t) \/ CallDeferred(t) \/ NoteFailure(t) \/ EndEnable(t)
           \/ EnterProxy(t) \/ RunUpdate(t) \/ UnlockProxy(t)
           \/ Disable(t, TRUE) \/ Disable(t, FALSE) \/ Catch(t)
           \/ \E o, p \in Observers : RegisterWithObservables(t, o, p)
    PROVE  AllLinked'
<1>1. UNCHANGED <<links, objects>> /\ QuietFrames(t)
    BY NotifyQuiet, UpdateQuiet, OtherQuiet
<1> QED BY <1>1, QuietStep

-----------------------------------------------------------------------------
(***************************************************************************)
(* Steps that let go of references.                                        *)
(***************************************************************************)
LEMMA OthersDrop ==
    ASSUME Core, AllLinked, NEW t \in Threads, NEW s \in Seq(Frame), NEW own,
           NEW obs \in [Observers -> SUBSET Observables],
           Drop(t, own, obs, [stack EXCEPT ![t] = s]), NEW X,
           \A o \in Observers \ X : obs[o] = observables[o],
           \A o \in Observers \ X : \A x \in Observables :
              /\ o \in observers'[x] <=> o \in observers[x]
              /\ o \in slots'[x] <=> o \in slots[x],
           \A f \in Frames(t) : f \in ToSet(s) \/ f.at \notin LinkKinds \/ f.o \in X,
           \A f \in ToSet(s) : f \in Frames(t) \/ f.at \notin LinkKinds \/ f.o \in X
    PROVE  \A o \in Observers \ X : Linked(o)'
<1>1. /\ observables' = obs
      /\ \A u \in Threads \ {t} : Frames(u)' = Frames(u)
      /\ ToSet(s) \subseteq Frames(t)'
      /\ \A f \in Frames(t)' : f \in ToSet(s) \/ Fresh(f)'
      /\ \A o \in Observers : Alive(o) => Alive(o)' \/ Destroying(o)'
    BY FramesAfterDrop DEF Core
<1>2. \A f \in Frames(t)' : f \in Frames(t) \/ f.at \notin LinkKinds \/ f.o \in X
                                    \/ Fresh(f)'
    BY <1>1
<1> QED BY <1>1, <1>2, Others

LEMMA LeaveUpdateLinks ==
    ASSUME Core, AllLinked, NEW t \in Threads, LeaveUpdate(t)
    PROVE  AllLinked'
<1> DEFINE f == [Top(t) EXCEPT !.pc = "exit"]
           s == <<f>> \o Tail(stack[t])
           X == {}
<1>s. StackTypes
    BY DEF Core
<1>1. ~Idle(t) /\ Top(t) \in UpdateFrames /\ Top(t).at \notin LinkKinds
      /\ UNCHANGED links /\ Drop(t, owned, observables, [stack EXCEPT ![t] = s])
    <2>1. ~Idle(t) /\ Top(t).at = "update"
        BY DEF LeaveUpdate, At
    <2>2. UNCHANGED links /\ Drop(t, owned, observables, [stack EXCEPT ![t] = s])
        BY DEF LeaveUpdate, Replace
    <2> QED BY <1>s, <2>1, <2>2, TopFrame, FrameKinds DEF LinkKinds
<1>2. f \in UpdateFrames
    BY <1>1 DEF UpdateFrames
<1>3. f \in Frame /\ f.at \notin LinkKinds
    <2> HIDE DEF f
    <2> QED BY <1>2 DEF Frame, UpdateFrames, LinkKinds
<1>4. s \in Seq(Frame) /\ ToSet(s) = {f} \cup Rest(t)
    <2> DEFINE q == <<f>>
               r == Tail(stack[t])
    <2> HIDE DEF f
    <2>1. q \in Seq(Frame) /\ ToSet(q) = {f} /\ r \in Seq(Frame)
        BY <1>s, <1>1, <1>3, TopAndRest DEF ToSet
    <2> HIDE DEF q, r
    <2>2. q \o r \in Seq(Frame) /\ ToSet(q \o r) = ToSet(q) \cup ToSet(r)
        BY <2>1, ConcatFrames
    <2> QED BY <2>1, <2>2 DEF q, r, Rest
<1>5. Frames(t) = {Top(t)} \cup Rest(t)
    BY <1>s, <1>1, TopAndRest
<1>6. observables \in [Observers -> SUBSET Observables]
    BY DEF Core, ObjectTypes
<1> HIDE DEF f, s
<1>7. /\ \A o \in Observers \ X : observables[o] = observables[o]
      /\ \A o \in Observers \ X : \A x \in Observables :
              /\ o \in observers'[x] <=> o \in observers[x]
              /\ o \in slots'[x] <=> o \in slots[x]
      /\ \A g \in Frames(t) : g \in ToSet(s) \/ g.at \notin LinkKinds \/ g.o \in X
      /\ \A g \in ToSet(s) : g \in Frames(t) \/ g.at \notin LinkKinds \/ g.o \in X
    BY <1>1, <1>3, <1>4, <1>5 DEF links
<1> HIDE DEF X
<1>8. \A o \in Observers \ X : Linked(o)'
    BY <1>1, <1>4, <1>6, <1>7, OthersDrop
<1> QED BY <1>8 DEF X, AllLinked

LEMMA ReleaseLinks ==
    ASSUME Core, AllLinked, NEW t \in Threads, NEW p \in Observers, Release(t, p)
    PROVE  AllLinked'
<1> DEFINE s == stack[t]
           own == [owned EXCEPT ![p] = FALSE]
           X == {}
<1>1. s \in Seq(Frame) /\ ToSet(s) = Frames(t) /\ observables \in [Observers -> SUBSET Observables]
    BY TypedFrames DEF Core, ObjectTypes, Frames
<1>2. UNCHANGED links /\ Drop(t, own, observables, [stack EXCEPT ![t] = s])
    <2>1. [stack EXCEPT ![t] = s] = stack
        BY DEF Core, StackTypes
    <2> QED BY <2>1 DEF Release
<1> HIDE DEF s, own
<1>3. /\ \A o \in Observers \ X : observables[o] = observables[o]
      /\ \A o \in Observers \ X : \A x \in Observables :
              /\ o \in observers'[x] <=> o \in observers[x]
              /\ o \in slots'[x] <=> o \in slots[x]
      /\ \A g \in Frames(t) : g \in ToSet(s) \/ g.at \notin LinkKinds \/ g.o \in X
      /\ \A g \in ToSet(s) : g \in Frames(t) \/ g.at \notin LinkKinds \/ g.o \in X
    BY <1>1, <1>2 DEF links
<1> HIDE DEF X
<1>4. \A o \in Observers \ X : Linked(o)'
    BY <1>1, <1>2, <1>3, OthersDrop
<1> QED BY <1>4 DEF X, AllLinked

-----------------------------------------------------------------------------
(***************************************************************************)
(* Who else is about to change the links of o.                             *)
(***************************************************************************)
\* Nobody, if one that uses it is there.
LEMMA Alone ==
    ASSUME Core, AllLinked, NEW t \in Threads, NEW f \in Frames(t),
           NEW o \in Observers, o \in Uses(f), NEW u \in Threads \ {t}
    PROVE  Ours(u, o) = {}
<1>1. ASSUME NEW g \in Ours(u, o), g.at # "reset"
      PROVE  FALSE
    <2>1. o \in Uses(g) /\ g \in Frames(u)
        BY <1>1 DEF Ours, LinkKinds, Uses
    <2>2. Clash(f, g)
        BY <2>1 DEF Clash
    <2> QED BY <2>1, <2>2 DEF Core
<1>2. ASSUME NEW g \in Ours(u, o), g.at = "reset"
      PROVE  FALSE
    <2>1. \E h \in Ours(u, o) : h.at = "assign"
        BY <1>2 DEF AllLinked, Linked, Placed
    <2> QED BY <1>1, <2>1
<1> QED BY <1>1, <1>2

\* Nor if o is there and not locked.
LEMMA AloneUnlocked ==
    ASSUME Core, AllLinked, NEW t \in Threads, NEW o \in Observers, Unlocked(t, o),
           NEW u \in Threads \ {t}, \A g \in Frames(u) : ~ (g.at = "construct" /\ g.o = o)
    PROVE  Ours(u, o) = {}
<1>1. ~HoldsObserver(u, o)
    BY DEF Unlocked
<1>2. ASSUME NEW g \in Ours(u, o), g.at # "reset"
      PROVE  FALSE
    BY <1>1, <1>2 DEF Ours, LinkKinds, HoldsObserver
<1>3. ASSUME NEW g \in Ours(u, o), g.at = "reset"
      PROVE  FALSE
    <2>1. \E h \in Ours(u, o) : h.at = "assign"
        BY <1>3 DEF AllLinked, Linked, Placed
    <2> QED BY <1>2, <2>1
<1> QED BY <1>2, <1>3

\* What is not referred to has no frame that is about to change it, except destructors.
LEMMA OursPin ==
    ASSUME Core, AllLinked, NEW o \in Observers, ~Alive(o), NEW u \in Threads,
           NEW f \in Ours(u, o)
    PROVE  f.at = "destroy"
<1>1. ASSUME NEW g \in Ours(u, o), g.at \notin {"destroy", "reset"}
      PROVE  FALSE
    <2>1. g \in Frames(u) /\ Pins(g, o)
        BY <1>1 DEF Ours, LinkKinds, Pins, Joins
    <2> QED BY <2>1, Unchanged
<1>2. ASSUME f.at = "reset" PROVE FALSE
    <2>1. \E h \in Ours(u, o) : h.at = "assign"
        BY <1>2 DEF AllLinked, Linked, Placed
    <2> QED BY <1>1, <2>1
<1> QED BY <1>1, <1>2

\* Links that are only removed do not disturb what other threads do with o.
LEMMA PlacedFewer ==
    ASSUME Core, NEW o \in Observers, NEW u \in Threads, Placed(u, o),
           Ours(u, o)' = Ours(u, o), observables'[o] \subseteq observables[o],
           \A s \in Observables : o \in observers'[s] => o \in observers[s],
           \A s \in Observables : o \in slots'[s] => o \in slots[s]
    PROVE  Placed(u, o)'
<1>1. \A f \in Ours(u, o) :
          f.at \in {"destroy", "unregister", "reset"} => f.now \cup f.all \subseteq Observables
    BY TypedFrames, FrameKinds DEF Core, Ours, DetachFrames
<1>2. \A f \in Ours(u, o) :
          f.at \in {"destroy", "unregister", "reset"} /\ Detached(f, o) => Detached(f, o)'
    BY <1>1 DEF Detached
<1> QED BY <1>2 DEF Placed

-----------------------------------------------------------------------------
(***************************************************************************)
(* Steps that change links.                                                *)
(***************************************************************************)
DetachKinds == {"destroy", "unregister", "reset"}

LEMMA DetachMove ==
    ASSUME Core, AllLinked, NEW t \in Threads, ~Idle(t), Top(t) \in DetachFrames,
           NEW h \in DetachFrames, h.at = Top(t).at, h.o = Top(t).o,
           stack' = Replace(t, h), UNCHANGED objects,
           \A x \in Observers \ {h.o} : \A s \in Observables :
              /\ x \in observers'[s] <=> x \in observers[s]
              /\ x \in slots'[s] <=> x \in slots[s],
           \A s \in Observables : h.o \in observers'[s] => h.o \in observers[s],
           \A s \in Observables : h.o \in slots'[s] => h.o \in slots[s],
           Detached(h, h.o)',
           \A s \in Observables : h.o \in observers'[s] \/ h.o \in slots'[s] =>
              (s \in Top(t).todo \cup Top(t).now => s \in h.todo \cup h.now)
    PROVE  AllLinked'
<1> DEFINE o == h.o
           R == {f \in Rest(t) : f.at \in LinkKinds /\ f.o = o}
<1> USE DEF objects
<1>s. StackTypes
    BY DEF Core
<1>h. h \in Frame /\ o \in Observers /\ h.at \in DetachKinds /\ h.at \in LinkKinds
    BY DEF Frame, DetachFrames, DetachKinds, LinkKinds
<1>1. /\ Frames(t) = {Top(t)} \cup Rest(t)
      /\ Frames(t)' = {h} \cup Rest(t)
      /\ \A u \in Threads \ {t} : Frames(u)' = Frames(u)
    BY <1>s, <1>h, TopAndRest, FramesAfter
<1>2. \A x \in Observers : Pins(Top(t), x) => Pins(h, x)
    BY <1>h DEF Pins, DetachKinds, Joins
<1>3. \A x \in Observers : Alive(x) => Alive(x)'
    BY <1>1, <1>2, StillAlive
<1>4. \A x \in Observers : Destroying(x) => Destroying(x)'
    BY <1>1 DEF Destroying
<1>5. Ours(t, o) = {Top(t)} \cup R /\ Ours(t, o)' = {h} \cup R
      /\ \A u \in Threads \ {t} : Ours(u, o)' = Ours(u, o)
    BY <1>1, <1>h DEF Ours
<1>6. \A x \in Observers \ {o} : Linked(x)'
    <2> DEFINE X == {o}
    <2>1. /\ \A x \in Observers \ X : observables'[x] = observables[x]
          /\ \A x \in Observers \ X : \A s \in Observables :
                  /\ x \in observers'[s] <=> x \in observers[s]
                  /\ x \in slots'[s] <=> x \in slots[s]
          /\ \A u \in Threads \ {t} : Frames(u)' = Frames(u)
          /\ \A f \in Frames(t) : f \in Frames(t)' \/ f.at \notin LinkKinds \/ f.o \in X
          /\ \A f \in Frames(t)' : f \in Frames(t) \/ f.at \notin LinkKinds \/ f.o \in X
                                        \/ Fresh(f)'
          /\ \A x \in Observers \ X : Alive(x) => Alive(x)' \/ Destroying(x)'
        BY <1>1, <1>3
    <2> HIDE DEF X, o
    <2>2. \A x \in Observers \ X : Linked(x)'
        BY <2>1, Others
    <2> QED BY <2>2 DEF X
<1>7. Told(o) /\ \A u \in Threads : Placed(u, o)
    BY <1>h DEF AllLinked, Linked
<1> HIDE DEF R, o
<1>8. Told(o)'
    <2>1. \A u \in Threads : \A f \in Ours(u, o) : f.at = "register" => f \in Ours(u, o)'
        BY <1>5, <1>h DEF DetachKinds, o
    <2> QED BY <1>3, <1>4, <1>7, <1>h, <2>1 DEF Told, o
<1>9. ASSUME NEW u \in Threads \ {t}
      PROVE  Placed(u, o)'
    BY <1>5, <1>7, <1>h, PlacedFewer DEF o
<1>10. Placed(t, o)'
    <2>1. \A f \in R : f \in Frames(t) /\ f \in Ours(t, o)
        BY <1>1, <1>5 DEF R
    <2>2. \A f \in Ours(t, o) :
              f.at \in DetachKinds => f.now \cup f.all \subseteq Observables
        BY <1>s, TypedFrames, FrameKinds DEF Ours, DetachFrames, DetachKinds
    <2>3. \A f \in Ours(t, o)' : f.at \in DetachKinds => Detached(f, o)'
        <3>1. ASSUME NEW f \in R, f.at \in DetachKinds
              PROVE  Detached(f, o)'
            <4>1. Detached(f, o)
                BY <1>7, <2>1, <3>1 DEF Placed, DetachKinds
            <4>2. f.now \cup f.all \subseteq Observables
                BY <2>1, <2>2, <3>1
            <4> QED BY <4>1, <4>2 DEF Detached, o
        <3> QED BY <1>5, <3>1 DEF o
    <2>4. \A f \in Ours(t, o)' : f.at \notin DetachKinds => f \in R
        BY <1>5, <1>h
    <2>5. ASSUME NEW f \in Ours(t, o)', f.at \in {"assign", "construct"}, f.pc = "copy",
                 NEW s \in Observables, o \in observers'[s] \/ o \in slots'[s]
          PROVE  \E g \in Ours(t, o)' : g.at = "reset" /\ s \in g.todo \cup g.now
        <3>1. f \in Ours(t, o)
            BY <2>1, <2>4, <2>5 DEF DetachKinds
        <3>2. o \in observers[s] \/ o \in slots[s]
            BY <2>5 DEF o
        <3>3. PICK g \in Ours(t, o) : g.at = "reset" /\ s \in g.todo \cup g.now
            BY <1>7, <2>5, <3>1, <3>2 DEF Placed
        <3>4. CASE g = Top(t)
            BY <1>5, <2>5, <3>3, <3>4 DEF o
        <3>5. CASE g # Top(t)
            BY <1>5, <3>3, <3>5
        <3> QED BY <3>4, <3>5
    <2>6. ASSUME NEW f \in Ours(t, o)', NEW g \in Ours(t, o)', f.at = "register"
          PROVE  /\ g.at \notin {"unregister", "reset"}
                 /\ g.at \in {"assign", "construct"} => g.pc # "copy"
        <3>1. f \in Ours(t, o)
            BY <2>1, <2>4, <2>6 DEF DetachKinds
        <3>2. CASE g \in R
            BY <1>7, <2>1, <2>6, <3>1, <3>2 DEF Placed
        <3>3. CASE g = h
            <4>1. Top(t) \in Ours(t, o)
                BY <1>5
            <4> QED BY <1>7, <1>h, <2>6, <3>1, <3>3, <4>1 DEF Placed, DetachKinds
        <3> QED BY <1>5, <3>2, <3>3
    <2>7. ASSUME NEW f \in Ours(t, o)', f.at = "reset"
          PROVE  \E g \in Ours(t, o)' : g.at = "assign" /\ g.pc = "copy"
        <3>1. \E f2 \in Ours(t, o) : f2.at = "reset"
            BY <1>5, <2>7
        <3>2. PICK g \in Ours(t, o) : g.at = "assign" /\ g.pc = "copy"
            BY <1>7, <3>1 DEF Placed
        <3>3. g # Top(t)
            BY <1>h, <3>2 DEF DetachKinds
        <3> QED BY <1>5, <3>2, <3>3
    <2> QED BY <2>3, <2>5, <2>6, <2>7 DEF Placed, DetachKinds
<1>11. Linked(o)'
    BY <1>8, <1>9, <1>10 DEF Linked
<1> QED BY <1>6, <1>11 DEF AllLinked

LEMMA DetachTop ==
    ASSUME Core, AllLinked, NEW t \in Threads, ~Idle(t), Top(t).at \in DetachKinds
    PROVE  /\ Top(t) \in DetachFrames /\ Top(t).o \in Observers
           /\ Top(t) \in Ours(t, Top(t).o) /\ Detached(Top(t), Top(t).o)
<1>1. Top(t) \in DetachFrames /\ Top(t) \in Frames(t) /\ Top(t).o \in Observers
    BY TopFrame, FrameKinds DEF Core, DetachKinds, DetachFrames
<1>2. Top(t) \in Ours(t, Top(t).o)
    BY <1>1 DEF Ours, LinkKinds, DetachKinds
<1> QED BY <1>1, <1>2 DEF AllLinked, Linked, Placed, DetachKinds

LEMMA DetachLinks ==
    ASSUME Core, LinkTypes, AllLinked, NEW t \in Threads,
           \/ Deactivate(t) \/ \E s \in Observables : Unhook(t, s)
           \/ ForgetDeferred(t) \/ Disconnect(t)
    PROVE  AllLinked'
<1> USE DEF objects
<1>1. ~Idle(t) /\ Top(t).at \in DetachKinds
    BY DEF Deactivate, Unhook, ForgetDeferred, Disconnect, Detaching, At, DetachKinds
<1>2. /\ Top(t) \in DetachFrames /\ Top(t).o \in Observers
      /\ Top(t) \in Ours(t, Top(t).o) /\ Detached(Top(t), Top(t).o)
    BY <1>1, DetachTop
<1>o. PICK o \in Observers : o = Top(t).o
    BY <1>2
<1>3. CASE Deactivate(t)
    <2> DEFINE e == [Top(t) EXCEPT !.pc = "unhook"]
    <2>1. /\ e \in DetachFrames /\ e.at = Top(t).at /\ e.o = o /\ e.now = Top(t).now
          /\ e.todo = Top(t).todo /\ e.all = Top(t).all
        BY <1>2, <1>o DEF DetachFrames
    <2>2. stack' = Replace(t, e) /\ UNCHANGED <<links, objects>> /\ Top(t).pc = "deactivate"
        BY <1>o, <1>3 DEF Deactivate, At
    <2> HIDE DEF e
    <2>3. PICK h \in DetachFrames : h = e
        BY <2>1
    <2>4. Detached(h, h.o)'
        BY <1>2, <1>o, <2>1, <2>3, <2>2 DEF Detached, links
    <2> QED BY <1>1, <1>2, <1>o, <2>1, <2>3, <2>2, <2>4, DetachMove DEF links
<1>4. CASE ForgetDeferred(t)
    <2> DEFINE e == [Top(t) EXCEPT !.pc = "disconnect"]
    <2>1. /\ e \in DetachFrames /\ e.at = Top(t).at /\ e.o = o /\ e.now = Top(t).now
          /\ e.todo = Top(t).todo /\ e.all = Top(t).all /\ e.pc = "disconnect"
        BY <1>2, <1>o DEF DetachFrames
    <2>2. stack' = Replace(t, e) /\ UNCHANGED <<links, objects>>
        BY <1>o, <1>4 DEF ForgetDeferred
    <2> HIDE DEF e
    <2>3. PICK h \in DetachFrames : h = e
        BY <2>1
    <2>4. Detached(h, h.o)'
        BY <1>2, <1>o, <2>1, <2>3, <2>2 DEF Detached, links
    <2> QED BY <1>1, <1>2, <1>o, <2>1, <2>3, <2>2, <2>4, DetachMove DEF links
<1>5. ASSUME NEW s \in Observables, Unhook(t, s)
      PROVE  AllLinked'
    <2> DEFINE e == [Top(t) EXCEPT
                        !.pc = IF updatesType = "deferred" THEN "forget" ELSE "disconnect",
                        !.todo = @ \ {s}, !.now = {s}]
    <2>1. /\ e \in DetachFrames /\ e.at = Top(t).at /\ e.o = o /\ e.now = {s}
          /\ e.todo = Top(t).todo \ {s} /\ e.all = Top(t).all
          /\ e.pc \in {"forget", "disconnect"}
        BY <1>2, <1>o DEF DetachFrames
    <2>2. /\ stack' = Replace(t, e) /\ UNCHANGED <<slots, objects>> /\ Top(t).pc = "unhook"
          /\ observers' = [observers EXCEPT ![s] = @ \ {o}] /\ s \in Top(t).todo
        BY <1>o, <1>5 DEF Unhook, Detaching, At
    <2> HIDE DEF e
    <2>3. PICK h \in DetachFrames : h = e
        BY <2>1
    <2>4. /\ \A x \in Observers \ {o} : \A y \in Observables :
                x \in observers'[y] <=> x \in observers[y]
          /\ \A y \in Observables : o \in observers'[y] => o \in observers[y]
          /\ o \notin observers'[s]
        BY <2>2 DEF LinkTypes
    <2>5. Top(t).now = {}
        BY <1>2, <1>o, <2>2 DEF Detached
    <2>6. Detached(h, h.o)'
        <3>1. \A y \in h.all \ (h.todo \cup h.now) : y \in Observables
                 /\ y \in Top(t).all \ (Top(t).todo \cup Top(t).now)
            BY <1>2, <1>o, <2>1, <2>3, <2>5 DEF DetachFrames
        <3>2. \A y \in h.all \ (h.todo \cup h.now) : o \notin observers'[y] /\ o \notin slots'[y]
            BY <1>2, <1>o, <2>2, <2>4, <3>1 DEF Detached
        <3> QED BY <1>2, <1>o, <2>1, <2>3, <2>2, <2>4, <3>2 DEF Detached
    <2>7. /\ h.at = Top(t).at /\ h.o = Top(t).o /\ h.o = o
          /\ stack' = Replace(t, h) /\ UNCHANGED objects
        BY <1>o, <2>1, <2>2, <2>3
    <2>8. /\ \A x \in Observers \ {h.o} : \A y \in Observables :
                /\ x \in observers'[y] <=> x \in observers[y]
                /\ x \in slots'[y] <=> x \in slots[y]
          /\ \A y \in Observables : h.o \in observers'[y] => h.o \in observers[y]
          /\ \A y \in Observables : h.o \in slots'[y] => h.o \in slots[y]
        BY <2>2, <2>4, <2>7
    <2>9. ASSUME NEW y \in Observables, h.o \in observers'[y] \/ h.o \in slots'[y],
                 y \in Top(t).todo \cup Top(t).now
          PROVE  y \in h.todo \cup h.now
        BY <2>1, <2>3, <2>5, <2>9
    <2> QED BY <1>1, <1>2, <2>6, <2>7, <2>8, <2>9, DetachMove
<1>6. CASE Disconnect(t)
    <2> DEFINE e == [Top(t) EXCEPT !.pc = "unhook", !.now = {}]
    <2>1. /\ e \in DetachFrames /\ e.at = Top(t).at /\ e.o = o /\ e.now = {}
          /\ e.todo = Top(t).todo /\ e.all = Top(t).all
        BY <1>2, <1>o DEF DetachFrames
    <2>2. /\ stack' = Replace(t, e) /\ UNCHANGED <<observers, objects>>
          /\ slots' = [s \in Observables |->
                         IF s \in Top(t).now THEN slots[s] \ {o} ELSE slots[s]]
        BY <1>o, <1>6 DEF Disconnect
    <2> HIDE DEF e
    <2>3. PICK h \in DetachFrames : h = e
        BY <2>1
    <2>4. /\ \A x \in Observers \ {o} : \A y \in Observables :
                x \in slots'[y] <=> x \in slots[y]
          /\ \A y \in Observables : o \in slots'[y] => o \in slots[y] /\ y \notin Top(t).now
        BY <2>2
    <2>5. \A y \in Top(t).now : y \in Observables /\ o \notin observers[y] /\ o \notin slots'[y]
        BY <1>2, <1>o, <2>4 DEF Detached, DetachFrames
    <2>6. Detached(h, h.o)'
        <3>1. \A y \in h.all \ (h.todo \cup h.now) : y \in Observables
                 /\ (y \in Top(t).now \/ y \in Top(t).all \ (Top(t).todo \cup Top(t).now))
            BY <1>2, <1>o, <2>1, <2>3 DEF DetachFrames
        <3>2. \A y \in h.all \ (h.todo \cup h.now) : o \notin observers'[y] /\ o \notin slots'[y]
            BY <1>2, <1>o, <2>2, <2>4, <2>5, <3>1 DEF Detached
        <3> QED BY <1>2, <1>o, <2>1, <2>3, <2>2, <3>2 DEF Detached
    <2>7. /\ h.at = Top(t).at /\ h.o = Top(t).o /\ h.o = o
          /\ stack' = Replace(t, h) /\ UNCHANGED objects
        BY <1>o, <2>1, <2>2, <2>3
    <2>8. /\ \A x \in Observers \ {h.o} : \A y \in Observables :
                /\ x \in observers'[y] <=> x \in observers[y]
                /\ x \in slots'[y] <=> x \in slots[y]
          /\ \A y \in Observables : h.o \in observers'[y] => h.o \in observers[y]
          /\ \A y \in Observables : h.o \in slots'[y] => h.o \in slots[y]
        BY <2>2, <2>4, <2>7
    <2>9. ASSUME NEW y \in Observables, h.o \in observers'[y] \/ h.o \in slots'[y],
                 y \in Top(t).todo \cup Top(t).now
          PROVE  y \in h.todo \cup h.now
        BY <2>1, <2>2, <2>3, <2>5, <2>7, <2>9
    <2> QED BY <1>1, <1>2, <2>6, <2>7, <2>8, <2>9, DetachMove
<1> QED BY <1>3, <1>4, <1>5, <1>6

LEMMA EndDetachLinks ==
    ASSUME Core, AllLinked, NEW t \in Threads, EndDetach(t)
    PROVE  AllLinked'
<1>s. StackTypes
    BY DEF Core
<1>1. ~Idle(t) /\ Top(t).at \in DetachKinds /\ Top(t).pc = "unhook" /\ Top(t).todo = {}
      /\ UNCHANGED links
    BY DEF EndDetach, Detaching, At, DetachKinds
<1>2. /\ Top(t) \in DetachFrames /\ Top(t).o \in Observers
      /\ Top(t) \in Ours(t, Top(t).o) /\ Detached(Top(t), Top(t).o)
    BY <1>1, DetachTop
<1>f. PICK f \in DetachFrames : f = Top(t)
    BY <1>2
<1>o. PICK o \in Observers : o = f.o
    BY <1>2, <1>f
<1>3. f.now = {} /\ f.todo = {}
    BY <1>1, <1>2, <1>f DEF Detached
<1>4. \A y \in f.all : o \notin observers[y] /\ o \notin slots[y]
    BY <1>2, <1>3, <1>f, <1>o DEF Detached
<1> DEFINE gone == IF f.at = "reset" THEN {} ELSE f.all
           obs == [observables EXCEPT ![o] = @ \ gone]
           s == Tail(stack[t])
           X == {o}
           R == {g \in Rest(t) : g.at \in LinkKinds /\ g.o = o}
<1>5. Drop(t, owned, obs, [stack EXCEPT ![t] = s])
    BY <1>f, <1>o DEF EndDetach, Pop
<1>6. /\ obs \in [Observers -> SUBSET Observables]
      /\ \A x \in Observers \ X : obs[x] = observables[x]
      /\ obs[o] = observables[o] \ gone
    BY <1>f DEF Core, ObjectTypes
<1>7. s \in Seq(Frame) /\ ToSet(s) = Rest(t) /\ Frames(t) = {f} \cup Rest(t)
    BY <1>s, <1>1, <1>f, TopAndRest DEF Rest
<1> HIDE DEF obs, s
<1>8. /\ observables' = obs
      /\ \A u \in Threads \ {t} : Frames(u)' = Frames(u)
      /\ Rest(t) \subseteq Frames(t)'
      /\ \A g \in Frames(t)' : g \in Rest(t) \/ Fresh(g)'
      /\ \A x \in Observers : Alive(x) => Alive(x)' \/ Destroying(x)'
    BY <1>s, <1>5, <1>6, <1>7, FramesAfterDrop
<1>9. \A x \in Observers \ X : Linked(x)'
    <2>1. /\ \A x \in Observers \ X : \A y \in Observables :
              /\ x \in observers'[y] <=> x \in observers[y]
              /\ x \in slots'[y] <=> x \in slots[y]
          /\ \A g \in Frames(t) : g \in ToSet(s) \/ g.at \notin LinkKinds \/ g.o \in X
          /\ \A g \in ToSet(s) : g \in Frames(t) \/ g.at \notin LinkKinds \/ g.o \in X
        BY <1>1, <1>7, <1>o DEF links
    <2> HIDE DEF X
    <2> QED BY <1>5, <1>6, <1>7, <2>1, OthersDrop
<1>10. /\ Ours(t, o) = {f} \cup R /\ R \subseteq Ours(t, o)'
       /\ \A g \in Ours(t, o)' : g \in R \/ (g.at = "destroy" /\ Detached(g, o)')
       /\ \A u \in Threads \ {t} : Ours(u, o)' = Ours(u, o)
    <2>1. f.at \in LinkKinds
        BY <1>1, <1>f DEF LinkKinds, DetachKinds
    <2>2. ASSUME NEW g \in Ours(t, o)', g \notin R
          PROVE  g.at = "destroy" /\ Detached(g, o)'
        <3>1. Fresh(g)' /\ g.o = o
            BY <1>8, <2>2 DEF Ours
        <3> QED BY <3>1 DEF Fresh, Detached
    <2> QED BY <1>7, <1>8, <1>o, <2>1, <2>2 DEF Ours
<1>11. Told(o) /\ \A u \in Threads : Placed(u, o)
    BY DEF AllLinked, Linked
<1>12. \A y \in Observables : (o \in observers[y] \/ o \in slots[y]) /\ y \in observables[o]
                                  => y \in obs[o]
    BY <1>4, <1>6
<1> HIDE DEF R, X, gone
<1>13. Told(o)'
    <2>1. \A u \in Threads : \A g \in Ours(u, o) : g.at = "register" => g \in Ours(u, o)'
        BY <1>1, <1>10, <1>f DEF DetachKinds
    <2>2. ASSUME ~Alive(o)', ~Destroying(o)' PROVE obs[o] = {}
        <3>1. ~Alive(o)
            BY <1>8, <2>2
        <3>2. CASE ~Destroying(o)
            BY <1>6, <1>11, <3>1, <3>2 DEF Told
        <3>3. CASE f.at = "destroy"
            BY <1>2, <1>6, <1>f, <1>o, <3>3 DEF Detached, gone
        <3>4. CASE Destroying(o) /\ f.at # "destroy"
            <4>1. PICK u \in Threads : \E g \in Frames(u) : g.at = "destroy" /\ g.o = o
                BY <3>4 DEF Destroying
            <4>2. PICK g \in Frames(u) : g.at = "destroy" /\ g.o = o
                BY <4>1
            <4>3. g \in Frames(u)'
                BY <1>7, <1>8, <3>4, <4>2
            <4> QED BY <2>2, <4>2, <4>3 DEF Destroying
        <3> QED BY <3>2, <3>3, <3>4
    <2> QED BY <1>1, <1>8, <1>11, <1>12, <2>1, <2>2 DEF Told, links
<1>14. ASSUME NEW u \in Threads \ {t}
       PROVE  Placed(u, o)'
    BY <1>1, <1>6, <1>8, <1>10, <1>11, PlacedFewer DEF links
<1>15. Placed(t, o)'
    <2>1. \A g \in R : g \in Ours(t, o)
        BY <1>10
    <2>2. \A g \in Ours(t, o)' : g.at \in DetachKinds => Detached(g, o)'
        <3>1. ASSUME NEW g \in R, g.at \in DetachKinds
              PROVE  Detached(g, o)'
            <4>1. Detached(g, o)
                BY <1>11, <2>1, <3>1 DEF Placed, DetachKinds
            <4> QED BY <1>1, <1>6, <1>8, <4>1 DEF Detached, links
        <3> QED BY <1>10, <3>1
    <2>3. \A g \in Ours(t, o)' : g.at # "destroy" => g \in R
        BY <1>10
    <2>4. ASSUME NEW g \in Ours(t, o)', g.at \in {"assign", "construct"}, g.pc = "copy",
                 NEW y \in Observables, o \in observers'[y] \/ o \in slots'[y]
          PROVE  \E h \in Ours(t, o)' : h.at = "reset" /\ y \in h.todo \cup h.now
        <3>1. g \in Ours(t, o)
            BY <2>1, <2>3, <2>4
        <3>2. PICK h \in Ours(t, o) : h.at = "reset" /\ y \in h.todo \cup h.now
            BY <1>1, <1>11, <2>4, <3>1 DEF Placed, links
        <3>3. h # f
            BY <1>3, <3>2
        <3> QED BY <1>10, <3>2, <3>3
    <2>5. ASSUME NEW g \in Ours(t, o)', NEW h \in Ours(t, o)', g.at = "register"
          PROVE  /\ h.at \notin {"unregister", "reset"}
                 /\ h.at \in {"assign", "construct"} => h.pc # "copy"
        <3>1. g \in Ours(t, o)
            BY <2>1, <2>3, <2>5
        <3>2. CASE h \in R
            BY <1>11, <2>1, <2>5, <3>1, <3>2 DEF Placed
        <3> QED BY <2>3, <3>2
    <2>6. ASSUME NEW g \in Ours(t, o)', g.at = "reset"
          PROVE  \E h \in Ours(t, o)' : h.at = "assign" /\ h.pc = "copy"
        <3>1. g \in Ours(t, o)
            BY <2>1, <2>3, <2>6
        <3>2. PICK h \in Ours(t, o) : h.at = "assign" /\ h.pc = "copy"
            BY <1>11, <2>6, <3>1 DEF Placed
        <3>3. h # f
            BY <1>1, <1>f, <3>2 DEF DetachKinds
        <3> QED BY <1>10, <3>2, <3>3
    <2> QED BY <2>2, <2>4, <2>5, <2>6 DEF Placed, DetachKinds
<1>16. Linked(o)'
    BY <1>13, <1>14, <1>15 DEF Linked
<1> QED BY <1>9, <1>16 DEF AllLinked, X

LEMMA EndJoinLinks ==
    ASSUME Core, AllLinked, NEW t \in Threads, EndJoin(t)
    PROVE  AllLinked'
<1> DEFINE own == [owned EXCEPT ![Top(t).o] = @ \/ Top(t).at = "construct"]
           s == Tail(stack[t])
<1>s. StackTypes
    BY DEF Core
<1>1. ~Idle(t) /\ Top(t).at \in Joins /\ Top(t).pc = "join" /\ UNCHANGED links
      /\ Drop(t, own, observables, [stack EXCEPT ![t] = s])
    BY DEF EndJoin, Joining, Pop
<1>2. Top(t) \in JoinFrames /\ Top(t) \in Frames(t)
    BY <1>s, <1>1, TopFrame, FrameKinds
<1>o. PICK o \in Observers : o = Top(t).o
    BY <1>2 DEF JoinFrames
<1>3. s \in Seq(Frame) /\ ToSet(s) = {} /\ Frames(t) = {Top(t)}
    BY <1>s, <1>1, TopAndRest DEF Rest, BottomKinds
<1>4. observables \in [Observers -> SUBSET Observables]
    BY DEF Core, ObjectTypes
<1> HIDE DEF own, s
<1>5. /\ observables' = observables
      /\ \A u \in Threads \ {t} : Frames(u)' = Frames(u)
      /\ \A g \in Frames(t)' : Fresh(g)'
      /\ \A x \in Observers : Alive(x) => Alive(x)' \/ Destroying(x)'
    BY <1>s, <1>1, <1>3, <1>4, FramesAfterDrop
<1> DEFINE X == {o}
<1>6. \A x \in Observers \ X : Linked(x)'
    <2>1. /\ \A x \in Observers \ X : observables[x] = observables[x]
          /\ \A x \in Observers \ X : \A y \in Observables :
              /\ x \in observers'[y] <=> x \in observers[y]
              /\ x \in slots'[y] <=> x \in slots[y]
          /\ \A g \in Frames(t) : g \in ToSet(s) \/ g.at \notin LinkKinds \/ g.o \in X
          /\ \A g \in ToSet(s) : g \in Frames(t) \/ g.at \notin LinkKinds \/ g.o \in X
        BY <1>1, <1>3, <1>o DEF links
    <2> HIDE DEF X
    <2> QED BY <1>1, <1>3, <1>4, <2>1, OthersDrop
<1>7. Told(o) /\ \A u \in Threads : Placed(u, o)
    BY DEF AllLinked, Linked
<1>8. Alive(o)
    <2>1. Pins(Top(t), o)
        BY <1>1, <1>o DEF Pins
    <2> QED BY <1>2, <2>1, Unchanged
<1>9. \A u \in Threads \ {t} : Ours(u, o)' = Ours(u, o)
    BY <1>5 DEF Ours
<1>10. Told(o)'
    <2>1. \A u \in Threads : \A g \in Ours(u, o) : g.at = "register" => g \in Ours(u, o)'
        BY <1>1, <1>3, <1>9 DEF Ours, Joins
    <2> QED BY <1>1, <1>5, <1>7, <1>8, <2>1 DEF Told, links
<1>11. ASSUME NEW u \in Threads \ {t}
       PROVE  Placed(u, o)'
    BY <1>1, <1>5, <1>7, <1>9, PlacedFewer DEF links
<1>12. Placed(t, o)'
    <2>1. \A g \in Ours(t, o)' : g.at = "destroy" /\ Detached(g, o)'
        BY <1>5 DEF Ours, Fresh, Detached
    <2> QED BY <2>1 DEF Placed
<1>13. Linked(o)'
    BY <1>10, <1>11, <1>12 DEF Linked
<1> QED BY <1>6, <1>13 DEF AllLinked

LEMMA ConnectLinks ==
    ASSUME Core, LinkTypes, AllLinked, NEW t \in Threads, Connect(t)
    PROVE  AllLinked'
<1>s. StackTypes
    BY DEF Core
<1>1. ~Idle(t) /\ Top(t).at = "register" /\ UNCHANGED observers
      /\ slots' = [slots EXCEPT ![Top(t).s] = @ \cup {Top(t).o}]
    BY DEF Connect
<1>2. Top(t) \in RegisterFrames /\ Top(t) \in Frames(t)
    BY <1>s, <1>1, TopFrame, FrameKinds
<1>f. PICK f \in RegisterFrames : f = Top(t)
    BY <1>2
<1>o. PICK o \in Observers : o = f.o
    BY DEF RegisterFrames
<1>c. PICK c \in Observables : c = f.s
    BY DEF RegisterFrames
<1> DEFINE obs == [observables EXCEPT ![o] = @ \cup {c}]
           s == Tail(stack[t])
           X == {o}
           R == {g \in Rest(t) : g.at \in LinkKinds /\ g.o = o}
<1>3. Drop(t, owned, obs, [stack EXCEPT ![t] = s])
    BY <1>f, <1>o, <1>c DEF Connect, Pop
<1>4. /\ obs \in [Observers -> SUBSET Observables]
      /\ \A x \in Observers \ X : obs[x] = observables[x]
      /\ obs[o] = observables[o] \cup {c}
    BY DEF Core, ObjectTypes
<1>5. s \in Seq(Frame) /\ ToSet(s) = Rest(t) /\ Frames(t) = {f} \cup Rest(t)
    BY <1>s, <1>1, <1>f, TopAndRest DEF Rest
<1> HIDE DEF obs, s
<1>6. /\ observables' = obs
      /\ \A u \in Threads \ {t} : Frames(u)' = Frames(u)
      /\ Rest(t) \subseteq Frames(t)'
      /\ \A g \in Frames(t)' : g \in Rest(t) \/ Fresh(g)'
      /\ \A x \in Observers : Alive(x) => Alive(x)' \/ Destroying(x)'
    BY <1>s, <1>3, <1>4, <1>5, FramesAfterDrop
<1>7. /\ \A y \in Observables : o \in slots'[y] => o \in slots[y] \/ y = c
      /\ \A x \in Observers \ X : \A y \in Observables : x \in slots'[y] <=> x \in slots[y]
    BY <1>1, <1>f, <1>o, <1>c DEF LinkTypes
<1>8. \A x \in Observers \ X : Linked(x)'
    <2>1. /\ \A x \in Observers \ X : \A y \in Observables :
              /\ x \in observers'[y] <=> x \in observers[y]
              /\ x \in slots'[y] <=> x \in slots[y]
          /\ \A g \in Frames(t) : g \in ToSet(s) \/ g.at \notin LinkKinds \/ g.o \in X
          /\ \A g \in ToSet(s) : g \in Frames(t) \/ g.at \notin LinkKinds \/ g.o \in X
        BY <1>1, <1>5, <1>7, <1>o
    <2> HIDE DEF X
    <2> QED BY <1>3, <1>4, <1>5, <2>1, OthersDrop
<1>9. f.at = "register" /\ f \in Ours(t, o)
    BY <1>1, <1>2, <1>f, <1>o DEF Ours, LinkKinds
<1>10. /\ Ours(t, o) = {f} \cup R /\ R \subseteq Ours(t, o)'
       /\ \A g \in Ours(t, o)' : g \in R \/ (g.at = "destroy" /\ Detached(g, o)')
       /\ \A u \in Threads \ {t} : Ours(u, o)' = Ours(u, o)
    <2>1. ASSUME NEW g \in Ours(t, o)', g \notin R
          PROVE  g.at = "destroy" /\ Detached(g, o)'
        <3>1. Fresh(g)' /\ g.o = o
            BY <1>6, <2>1 DEF Ours
        <3> QED BY <3>1 DEF Fresh, Detached
    <2>2. Ours(t, o) = {f} \cup R
        BY <1>5, <1>9 DEF Ours
    <2> QED BY <1>6, <2>1, <2>2 DEF Ours
<1>11. \A u \in Threads \ {t} : Ours(u, o) = {}
    <2>1. o \in Uses(f)
        BY <1>9, <1>o DEF Uses
    <2> QED BY <1>2, <1>f, <2>1, Alone
<1>12. Told(o) /\ Placed(t, o)
    BY DEF AllLinked, Linked
<1>13. Alive(o)
    <2>1. Pins(f, o)
        BY <1>9, <1>o DEF Pins
    <2> QED BY <1>2, <1>f, <2>1, Unchanged
<1>14. \A g \in R : /\ g \in Ours(t, o) /\ g.at \notin DetachKinds
                    /\ g.at \in {"assign", "construct"} => g.pc # "copy"
    <2> TAKE g \in R
    <2>1. g \in Ours(t, o) /\ g \in Frames(t) /\ g.o = o
        BY <1>5, <1>10
    <2>2. g.at # "destroy"
        BY <1>13, <2>1 DEF Core
    <2> QED BY <1>9, <1>12, <2>1, <2>2 DEF Placed, DetachKinds
<1> HIDE DEF R, X
<1>15. Told(o)'
    <2>1. ASSUME NEW y \in Observables, o \in observers[y]
          PROVE  y \in obs[o] \/ \E g \in Ours(t, o)' : g.at = "register" /\ g.s = y
        <3>1. CASE y \in observables[o]
            BY <1>4, <3>1
        <3>2. CASE \E u \in Threads : \E g \in Ours(u, o) : g.at = "register" /\ g.s = y
            <4>1. PICK g \in Ours(t, o) : g.at = "register" /\ g.s = y
                BY <1>11, <3>2
            <4>2. CASE g = f
                BY <1>4, <1>c, <4>1, <4>2
            <4>3. CASE g \in R
                BY <1>10, <4>1, <4>3
            <4> QED BY <1>10, <4>1, <4>2, <4>3
        <3> QED BY <1>12, <2>1, <3>1, <3>2 DEF Told
    <2>2. ASSUME NEW y \in Observables, o \in slots'[y]
          PROVE  y \in obs[o]
        BY <1>4, <1>7, <1>12, <2>2 DEF Told
    <2> QED BY <1>1, <1>6, <1>13, <2>1, <2>2 DEF Told
<1>16. ASSUME NEW u \in Threads \ {t}
       PROVE  Placed(u, o)'
    BY <1>10, <1>11 DEF Placed
<1>17. Placed(t, o)'
    <2>1. \A g \in Ours(t, o)' :
              /\ g.at \in DetachKinds => g.at = "destroy" /\ Detached(g, o)'
              /\ g.at \in {"assign", "construct"} => g.pc # "copy"
        BY <1>10, <1>14
    <2> QED BY <2>1 DEF Placed, DetachKinds
<1>18. Linked(o)'
    BY <1>15, <1>16, <1>17 DEF Linked
<1> QED BY <1>8, <1>18 DEF AllLinked, X

LEMMA CopyObservablesLinks ==
    ASSUME Core, AllLinked, NEW t \in Threads, CopyObservables(t)
    PROVE  AllLinked'
<1> DEFINE S == observables[Top(t).p]
           e == [Top(t) EXCEPT !.pc = "join", !.todo = S]
           s == <<e>> \o Tail(stack[t])
<1>s. StackTypes
    BY DEF Core
<1>1. ~Idle(t) /\ Top(t).at \in Joins /\ Top(t).pc = "copy" /\ UNCHANGED links
      /\ Drop(t, owned, [observables EXCEPT ![Top(t).o] = S], [stack EXCEPT ![t] = s])
    BY DEF CopyObservables, Joining, Replace
<1>2. Top(t) \in JoinFrames /\ Top(t) \in Frames(t) /\ Top(t).at \in {"assign", "construct"}
    <2>1. Top(t) \in JoinFrames /\ Top(t) \in Frames(t)
        BY <1>s, <1>1, TopFrame, FrameKinds
    <2> QED BY <1>1, <2>1 DEF JoinFrames, Joins
<1>o. PICK o \in Observers : o = Top(t).o
    BY <1>2 DEF JoinFrames
<1> DEFINE obs == [observables EXCEPT ![o] = S]
           X == {o}
<1>3. /\ obs \in [Observers -> SUBSET Observables]
      /\ \A x \in Observers \ X : obs[x] = observables[x]
    BY <1>2 DEF Core, ObjectTypes, JoinFrames
<1>4. e \in JoinFrames /\ e.at = Top(t).at /\ e.o = o /\ e.pc = "join"
    <2>1. S \in SUBSET Observables
        BY <1>2 DEF Core, ObjectTypes, JoinFrames
    <2> HIDE DEF S
    <2> QED BY <1>2, <1>o, <2>1 DEF JoinFrames
<1>5. Drop(t, owned, obs, [stack EXCEPT ![t] = s])
    BY <1>1, <1>o
<1> HIDE DEF S, e, obs
<1>6. s \in Seq(Frame) /\ ToSet(s) = {e} /\ Frames(t) = {Top(t)}
    <2> DEFINE q == <<e>>
               r == Tail(stack[t])
    <2>1. e \in Frame
        BY <1>4 DEF Frame
    <2>2. q \in Seq(Frame) /\ ToSet(q) = {e} /\ r \in Seq(Frame)
        BY <1>s, <1>1, <2>1, TopAndRest DEF ToSet
    <2>3. ToSet(r) = {} /\ Frames(t) = {Top(t)}
        BY <1>s, <1>1, TopAndRest DEF Rest, BottomKinds
    <2> HIDE DEF q, r
    <2>4. q \o r \in Seq(Frame) /\ ToSet(q \o r) = ToSet(q) \cup ToSet(r)
        BY <2>2, ConcatFrames
    <2> QED BY <2>2, <2>3, <2>4 DEF q, r
<1> HIDE DEF s
<1>7. /\ observables' = obs
      /\ \A u \in Threads \ {t} : Frames(u)' = Frames(u)
      /\ \A g \in Frames(t)' : g = e \/ Fresh(g)'
      /\ \A x \in Observers : Alive(x) => Alive(x)' \/ Destroying(x)'
    BY <1>s, <1>3, <1>5, <1>6, FramesAfterDrop
<1>8. \A x \in Observers \ X : Linked(x)'
    <2>1. /\ \A x \in Observers \ X : \A y \in Observables :
              /\ x \in observers'[y] <=> x \in observers[y]
              /\ x \in slots'[y] <=> x \in slots[y]
          /\ \A g \in Frames(t) : g \in ToSet(s) \/ g.at \notin LinkKinds \/ g.o \in X
          /\ \A g \in ToSet(s) : g \in Frames(t) \/ g.at \notin LinkKinds \/ g.o \in X
        BY <1>1, <1>4, <1>6, <1>o DEF links
    <2> HIDE DEF X
    <2>2. s \in Seq(Frame) /\ \A x \in Observers \ X : obs[x] = observables[x]
        BY <1>3, <1>6
    <2> QED BY <1>3, <1>5, <2>1, <2>2, OthersDrop
<1>9. Ours(t, o) = {Top(t)}
    BY <1>2, <1>6, <1>o DEF Ours, LinkKinds
<1>10. \A u \in Threads \ {t} : Ours(u, o) = {} /\ Ours(u, o)' = {}
    <2>1. o \in Uses(Top(t))
        BY <1>2, <1>o DEF Uses
    <2>2. \A u \in Threads \ {t} : Ours(u, o) = {}
        BY <1>2, <2>1, Alone
    <2> QED BY <1>7, <2>2 DEF Ours
<1>11. \A y \in Observables : o \notin observers[y] /\ o \notin slots[y]
    <2>1. Placed(t, o)
        BY DEF AllLinked, Linked
    <2>2. \A y \in Observables : o \in observers[y] \/ o \in slots[y] =>
             \E g \in Ours(t, o) : g.at = "reset"
        BY <1>1, <1>2, <1>9, <2>1 DEF Placed
    <2> QED BY <1>2, <1>9, <2>2
<1>12. Alive(o)
    <2>1. Pins(Top(t), o)
        BY <1>1, <1>o DEF Pins
    <2> QED BY <1>2, <2>1, Unchanged
<1>13. Told(o)'
    BY <1>1, <1>7, <1>11, <1>12 DEF Told, links
<1>14. \A u \in Threads \ {t} : Placed(u, o)'
    BY <1>10 DEF Placed
<1>15. Placed(t, o)'
    <2>1. ASSUME NEW g \in Ours(t, o)'
          PROVE  \/ g.at = "destroy" /\ Detached(g, o)'
                 \/ g.at \in {"assign", "construct"} /\ g.pc = "join"
        <3>1. CASE g = e
            BY <1>2, <1>4, <3>1
        <3>2. CASE Fresh(g)'
            BY <2>1, <3>2 DEF Fresh, Detached, Ours
        <3> QED BY <1>7, <2>1, <3>1, <3>2 DEF Ours
    <2> QED BY <2>1 DEF Placed
<1>16. Linked(o)'
    BY <1>13, <1>14, <1>15 DEF Linked
<1> QED BY <1>8, <1>16 DEF AllLinked

\* An observable is told of o, which goes on to connect to its signal.
LEMMA HookStep ==
    ASSUME Core, LinkTypes, AllLinked, NEW t \in Threads, NEW o \in Observers,
           NEW s \in Observables, Hook(o, s), UNCHANGED <<slots, objects>>, Alive(o),
           \A u \in Threads \ {t} : Ours(u, o) = {} /\ Frames(u)' = Frames(u),
           \A f \in Frames(t) : f \in Frames(t)' \/ f.at \notin LinkKinds \/ f.o = o,
           \A f \in Frames(t)' : f \in Frames(t) \/ f.at \notin LinkKinds \/ f.o = o,
           \A f \in Frames(t) : \A x \in Observers : Pins(f, x) =>
              f \in Frames(t)' \/ \E g \in Frames(t)' : Pins(g, x),
           \A f \in Ours(t, o) : f.at # "register",
           \E f \in Ours(t, o)' : f.at = "register" /\ f.s = s,
           \A f \in Ours(t, o)' : \/ f.at = "register"
                                  \/ f.at \in {"assign", "construct"} /\ f.pc = "join"
    PROVE  AllLinked'
<1> USE DEF objects
<1> DEFINE X == {o}
<1>1. /\ \A x \in Observers \ X : \A y \in Observables :
            x \in observers'[y] <=> x \in observers[y]
      /\ \A y \in Observables : o \in observers'[y] => o \in observers[y] \/ y = s
    BY DEF Hook, LinkTypes
<1>2. \A x \in Observers : Alive(x) => Alive(x)'
    BY StillAlive
<1>3. \A x \in Observers \ X : Linked(x)'
    <2>1. /\ \A x \in Observers \ X : observables'[x] = observables[x]
          /\ \A x \in Observers \ X : \A y \in Observables :
                  /\ x \in observers'[y] <=> x \in observers[y]
                  /\ x \in slots'[y] <=> x \in slots[y]
          /\ \A u \in Threads \ {t} : Frames(u)' = Frames(u)
          /\ \A f \in Frames(t) : f \in Frames(t)' \/ f.at \notin LinkKinds \/ f.o \in X
          /\ \A f \in Frames(t)' : f \in Frames(t) \/ f.at \notin LinkKinds \/ f.o \in X
                                        \/ Fresh(f)'
          /\ \A x \in Observers \ X : Alive(x) => Alive(x)' \/ Destroying(x)'
        BY <1>1, <1>2
    <2> HIDE DEF X
    <2> QED BY <2>1, Others
<1>4. Told(o)
    BY DEF AllLinked, Linked
<1>5. Told(o)'
    BY <1>1, <1>2, <1>4 DEF Told
<1>6. \A u \in Threads \ {t} : Placed(u, o)'
    <2>1. \A u \in Threads \ {t} : Ours(u, o)' = {}
        BY DEF Ours
    <2> QED BY <2>1 DEF Placed
<1>7. Placed(t, o)'
    BY DEF Placed
<1>8. Linked(o)'
    BY <1>5, <1>6, <1>7 DEF Linked
<1> QED BY <1>3, <1>8 DEF AllLinked

LEMMA RegisterLinks ==
    ASSUME Core, LinkTypes, AllLinked, NEW t \in Threads, NEW o \in Observers,
           NEW s \in Observables, Register(t, o, s)
    PROVE  AllLinked'
<1> DEFINE f == RegisterFrame(o, s)
<1>s. StackTypes
    BY DEF Core
<1>1. /\ Hook(o, s) /\ UNCHANGED <<slots, objects>> /\ owned[o] /\ Unlocked(t, o)
      /\ stack' = Push(t, f) /\ Frames(t) = {}
    BY EmptyStack DEF Register, Idle, Frames
<1>2. f \in Frame /\ f.at = "register" /\ f.o = o /\ f.s = s
    BY DEF RegisterFrame, Frame, RegisterFrames
<1> HIDE DEF f
<1>3. Frames(t)' = {f} /\ \A u \in Threads \ {t} : Frames(u)' = Frames(u)
    BY <1>s, <1>1, <1>2, FramesAfter
<1>4. Ours(t, o) = {} /\ Ours(t, o)' = {f}
    BY <1>1, <1>2, <1>3 DEF Ours, LinkKinds
<1>5. \A u \in Threads \ {t} : Ours(u, o) = {}
    <2>1. \A u \in Threads : \A g \in Frames(u) : ~ (g.at = "construct" /\ g.o = o)
        BY <1>1 DEF Core
    <2> QED BY <1>1, <2>1, AloneUnlocked
<1>6. Alive(o)
    BY <1>1, Unchanged
<1> QED BY <1>1, <1>2, <1>3, <1>4, <1>5, <1>6, HookStep

LEMMA JoinNextLinks ==
    ASSUME Core, LinkTypes, AllLinked, NEW t \in Threads, NEW s \in Observables,
           JoinNext(t, s)
    PROVE  AllLinked'
<1>s. StackTypes
    BY DEF Core
<1>1. ~Idle(t) /\ Top(t).at \in Joins /\ Top(t).pc = "join" /\ Top(t).at \in BottomKinds
      /\ UNCHANGED <<slots, objects>>
    BY DEF JoinNext, Joining, BottomKinds
<1>2. Top(t) \in JoinFrames /\ Top(t) \in Frames(t)
    BY <1>s, <1>1, TopFrame, FrameKinds
<1>o. PICK o \in Observers : o = Top(t).o
    BY <1>2 DEF JoinFrames
<1> DEFINE f == RegisterFrame(o, s)
           h == [Top(t) EXCEPT !.todo = @ \ {s}]
<1>3. /\ Hook(o, s) /\ Unlocked(t, o)
      /\ stack' = [stack EXCEPT ![t] = <<f, h>> \o Tail(@)]
    BY <1>o DEF JoinNext
<1>4. f \in Frame /\ f.at = "register" /\ f.o = o /\ f.s = s
    BY DEF RegisterFrame, Frame, RegisterFrames
<1>5. h \in JoinFrames /\ h.at = Top(t).at /\ h.o = o /\ h.p = Top(t).p /\ h.pc = "join"
    BY <1>1, <1>2, <1>o DEF JoinFrames
<1> HIDE DEF f, h
<1>6. h \in Frame
    BY <1>5 DEF Frame
<1>7. /\ Frames(t) = {Top(t)} /\ Frames(t)' = {h, f}
      /\ \A u \in Threads \ {t} : Frames(u)' = Frames(u)
    <2>1. Frames(t) = {Top(t)} \cup Rest(t) /\ Rest(t) = {}
        BY <1>s, <1>1, TopAndRest
    <2>2. Frames(t)' = {h, f} \cup Rest(t) /\ \A u \in Threads \ {t} : Frames(u)' = Frames(u)
        BY <1>s, <1>1, <1>3, <1>4, <1>6, FramesAfter
    <2> QED BY <2>1, <2>2
<1>8. \A x : Pins(Top(t), x) => Pins(h, x)
    BY <1>1, <1>5, <1>o DEF Pins, Joins
<1>9. /\ \A g \in Ours(t, o) : g.at # "register"
      /\ f \in Ours(t, o)'
      /\ \A g \in Ours(t, o)' : \/ g.at = "register"
                                \/ g.at \in {"assign", "construct"} /\ g.pc = "join"
    BY <1>1, <1>4, <1>5, <1>7 DEF Ours, LinkKinds, Joins
<1>10. \A u \in Threads \ {t} : Ours(u, o) = {}
    <2>1. CASE Top(t).at = "borrow"
        <3>1. \A u \in Threads \ {t} : \A g \in Frames(u) : ~ (g.at = "construct" /\ g.o = o)
            BY <1>2, <1>o, <2>1 DEF Core, Clash
        <3> QED BY <1>3, <3>1, AloneUnlocked
    <2>2. CASE Top(t).at # "borrow"
        <3>1. o \in Uses(Top(t))
            BY <1>1, <1>o, <2>2 DEF Uses, Joins
        <3> QED BY <1>2, <3>1, Alone
    <2> QED BY <2>1, <2>2
<1>11. Alive(o)
    <2>1. Pins(Top(t), o)
        BY <1>1, <1>o DEF Pins
    <2> QED BY <1>2, <2>1, Unchanged
<1>12. \A g \in Frames(t) : g \in Frames(t)' \/ g.at \notin LinkKinds \/ g.o = o
    BY <1>7, <1>o
<1>13. \A g \in Frames(t)' : g \in Frames(t) \/ g.at \notin LinkKinds \/ g.o = o
    BY <1>4, <1>5, <1>7
<1>14. \A g \in Frames(t) : \A x \in Observers : Pins(g, x) =>
          g \in Frames(t)' \/ \E k \in Frames(t)' : Pins(k, x)
    BY <1>7, <1>8
<1> QED BY <1>1, <1>3, <1>4, <1>7, <1>9, <1>10, <1>11, <1>12, <1>13, <1>14, HookStep

-----------------------------------------------------------------------------
(***************************************************************************)
(* Calls that begin.                                                       *)
(***************************************************************************)
LEMMA BeginCall ==
    ASSUME Core, AllLinked, NEW t \in Threads, Idle(t), UNCHANGED <<links, objects>>,
           NEW o \in Observers, NEW s \in Seq(Frame), stack' = [stack EXCEPT ![t] = s],
           \A f \in ToSet(s) : f.at \in LinkKinds /\ f.o = o,
           Placed(t, o)'
    PROVE  AllLinked'
<1> USE DEF objects, links
<1> DEFINE X == {o}
<1>1. /\ Frames(t) = {} /\ Frames(t)' = ToSet(s)
      /\ \A u \in Threads \ {t} : Frames(u)' = Frames(u)
    BY FramesAfter, EmptyStack DEF Core, Idle, Frames
<1>2. \A x \in Observers : Alive(x) => Alive(x)'
    BY <1>1, StillAlive
<1>3. \A x \in Observers \ X : Linked(x)'
    <2>1. /\ \A x \in Observers \ X : observables'[x] = observables[x]
          /\ \A x \in Observers \ X : \A y \in Observables :
                  /\ x \in observers'[y] <=> x \in observers[y]
                  /\ x \in slots'[y] <=> x \in slots[y]
          /\ \A u \in Threads \ {t} : Frames(u)' = Frames(u)
          /\ \A f \in Frames(t) : f \in Frames(t)' \/ f.at \notin LinkKinds \/ f.o \in X
          /\ \A f \in Frames(t)' : f \in Frames(t) \/ f.at \notin LinkKinds \/ f.o \in X
                                        \/ Fresh(f)'
          /\ \A x \in Observers \ X : Alive(x) => Alive(x)' \/ Destroying(x)'
        BY <1>1, <1>2
    <2> HIDE DEF X
    <2> QED BY <2>1, Others
<1>4. Told(o) /\ \A u \in Threads : Placed(u, o)
    BY DEF AllLinked, Linked
<1>5. \A u \in Threads : Frames(u) \subseteq Frames(u)'
    BY <1>1
<1>6. Told(o)'
    <2>1. \A u \in Threads : Ours(u, o) \subseteq Ours(u, o)'
        BY <1>5 DEF Ours
    <2>2. Destroying(o) => Destroying(o)'
        BY <1>5 DEF Destroying
    <2> QED BY <1>2, <1>4, <2>1, <2>2 DEF Told
<1>7. \A u \in Threads \ {t} : Placed(u, o)'
    <2>1. \A u \in Threads \ {t} : Ours(u, o)' = Ours(u, o)
        BY <1>1 DEF Ours
    <2> QED BY <1>4, <2>1, PlacedFewer
<1>8. Linked(o)'
    BY <1>6, <1>7 DEF Linked
<1> QED BY <1>3, <1>8 DEF AllLinked

LEMMA CallFrames ==
    ASSUME NEW o \in Observers, NEW p \in Observers, NEW S \in SUBSET Observables
    PROVE  /\ \A kind \in {"unregister", "reset"} :
                 LET f == DetachFrame(kind, o, "unhook", S) IN
                 /\ f \in DetachFrames /\ f.at = kind /\ f.o = o
                 /\ f.now = {} /\ f.todo = S /\ f.all = S
           /\ \A kind \in {"assign", "construct"} :
                 LET f == JoinFrame(kind, o, p, "copy", {}) IN
                 /\ f \in JoinFrames /\ f.at = kind /\ f.o = o /\ f.pc = "copy"
BY DEF DetachFrame, DetachFrames, JoinFrame, JoinFrames, Joins

\* the stack of a thread that has called one function
LEMMA OneFrame ==
    ASSUME NEW t \in Threads, Idle(t), NEW f \in Frame, stack' = Push(t, f)
    PROVE  <<f>> \in Seq(Frame) /\ ToSet(<<f>>) = {f} /\ stack' = [stack EXCEPT ![t] = <<f>>]
<1>1. <<f>> \in Seq(Frame) /\ ToSet(<<f>>) = {f}
    BY DEF ToSet
<1>2. <<f>> \o stack[t] = <<f>>
    BY <1>1 DEF Idle
<1>3. stack' = [stack EXCEPT ![t] = <<f>> \o stack[t]]
    BY DEF Push
<1> DEFINE q == <<f>>
<1> HIDE DEF q
<1>4. stack' = [stack EXCEPT ![t] = q]
    BY <1>2, <1>3 DEF q
<1> QED BY <1>1, <1>4 DEF q

LEMMA UnregisterLinks ==
    ASSUME Core, AllLinked, NEW t \in Threads, NEW o \in Observers,
           Unregister(t, o) \/ \E s \in Observables : UnregisterWith(t, o, s)
    PROVE  AllLinked'
<1>1. /\ Idle(t) /\ UNCHANGED <<links, objects>>
      /\ \E S \in SUBSET Observables : stack' = Push(t, DetachFrame("unregister", o, "unhook", S))
    <2>1. observables[o] \in SUBSET Observables
        BY DEF Core, ObjectTypes
    <2> QED BY <2>1 DEF Unregister, UnregisterWith
<1>2. PICK S \in SUBSET Observables : stack' = Push(t, DetachFrame("unregister", o, "unhook", S))
    BY <1>1
<1>3. PICK f \in DetachFrames :
          /\ f = DetachFrame("unregister", o, "unhook", S)
          /\ f.at = "unregister" /\ f.o = o /\ f.now = {} /\ f.todo = S /\ f.all = S
    BY CallFrames
<1> DEFINE s == <<f>>
<1>4. s \in Seq(Frame) /\ ToSet(s) = {f} /\ stack' = [stack EXCEPT ![t] = s]
    <2>1. f \in Frame /\ stack' = Push(t, f)
        BY <1>2, <1>3 DEF Frame
    <2> QED BY <1>1, <2>1, OneFrame
<1> HIDE DEF s
<1>5. Ours(t, o)' = {f}
    <2>1. Frames(t)' = {f}
        BY <1>4, FramesAfter DEF Core
    <2> QED BY <1>3, <2>1 DEF Ours, LinkKinds
<1>6. Placed(t, o)'
    BY <1>3, <1>5 DEF Placed, Detached
<1>7. \A g \in ToSet(s) : g.at \in LinkKinds /\ g.o = o
    BY <1>3, <1>4 DEF LinkKinds
<1> QED BY <1>1, <1>4, <1>6, <1>7, BeginCall

LEMMA AssignLinks ==
    ASSUME Core, AllLinked, NEW t \in Threads, NEW o \in Observers, NEW p \in Observers,
           Assign(t, o, p)
    PROVE  AllLinked'
<1>1. Idle(t) /\ UNCHANGED <<links, objects>> /\ owned[o] /\ Unlocked(t, o)
      /\ Ours(t, o) = {}
    BY EmptyStack DEF Assign, Idle, Frames, Ours
<1>2. PICK S \in SUBSET Observables : S = observables[o]
    BY DEF Core, ObjectTypes
<1>3. PICK f \in DetachFrames :
          /\ f = DetachFrame("reset", o, "unhook", observables[o])
          /\ f.at = "reset" /\ f.o = o /\ f.now = {} /\ f.todo = S /\ f.all = S
    BY <1>2, CallFrames
<1>4. PICK h \in JoinFrames :
          /\ h = JoinFrame("assign", o, p, "copy", {})
          /\ h.at = "assign" /\ h.o = o /\ h.pc = "copy"
    BY CallFrames
<1> DEFINE s == <<f, h>>
<1>5. s \in Seq(Frame) /\ ToSet(s) = {f, h} /\ stack' = [stack EXCEPT ![t] = s]
    <2>1. f \in Frame /\ h \in Frame
        BY DEF Frame
    <2>2. stack' = [stack EXCEPT ![t] = <<f, h>>]
        BY <1>3, <1>4 DEF Assign
    <2> QED BY <2>1, <2>2 DEF ToSet
<1> HIDE DEF s
<1>6. Ours(t, o)' = {f, h}
    <2>1. Frames(t)' = {f, h}
        BY <1>5, FramesAfter DEF Core
    <2> QED BY <1>3, <1>4, <2>1 DEF Ours, LinkKinds
<1>7. \A u \in Threads \ {t} : Ours(u, o) = {}
    <2>1. \A u \in Threads : \A g \in Frames(u) : ~ (g.at = "construct" /\ g.o = o)
        BY <1>1 DEF Core
    <2> QED BY <1>1, <2>1, AloneUnlocked
<1>8. ASSUME NEW y \in Observables, o \in observers[y] \/ o \in slots[y]
      PROVE  y \in S
    BY <1>1, <1>2, <1>7, <1>8 DEF AllLinked, Linked, Told
<1>9. Placed(t, o)'
    <2>1. Detached(f, o)'
        BY <1>3 DEF Detached
    <2>2. \A y \in Observables : o \in observers'[y] \/ o \in slots'[y] => y \in f.todo
        BY <1>1, <1>3, <1>8 DEF links
    <2> QED BY <1>3, <1>4, <1>6, <2>1, <2>2 DEF Placed
<1>10. \A g \in ToSet(s) : g.at \in LinkKinds /\ g.o = o
    BY <1>3, <1>4, <1>5 DEF LinkKinds
<1> QED BY <1>1, <1>5, <1>9, <1>10, BeginCall

LEMMA CopyConstructLinks ==
    ASSUME Core, AllLinked, NEW t \in Threads, NEW o \in Observers, NEW p \in Observers,
           CopyConstruct(t, o, p)
    PROVE  AllLinked'
<1>1. Idle(t) /\ UNCHANGED <<links, objects>> /\ o \in unborn
    BY DEF CopyConstruct
<1>2. PICK f \in JoinFrames :
          /\ f = JoinFrame("construct", o, p, "copy", {})
          /\ f.at = "construct" /\ f.o = o /\ f.pc = "copy"
    BY CallFrames
<1> DEFINE s == <<f>>
<1>3. s \in Seq(Frame) /\ ToSet(s) = {f} /\ stack' = [stack EXCEPT ![t] = s]
    <2>1. f \in Frame /\ stack' = Push(t, f)
        BY <1>2 DEF Frame, CopyConstruct
    <2> QED BY <1>1, <2>1, OneFrame
<1> HIDE DEF s
<1>4. Ours(t, o)' = {f}
    <2>1. Frames(t)' = {f}
        BY <1>3, FramesAfter DEF Core
    <2> QED BY <1>2, <2>1 DEF Ours, LinkKinds
<1>5. ~Alive(o) /\ ~Destroying(o)
    BY <1>1 DEF Core, Destroying
<1>6. \A y \in Observables : o \notin observers[y] /\ o \notin slots[y]
    <2>1. Told(o) /\ observables[o] = {}
        BY <1>5 DEF AllLinked, Linked, Told
    <2>2. \A u \in Threads : \A g \in Ours(u, o) : g.at # "register"
        BY <1>5, OursPin
    <2> QED BY <2>1, <2>2 DEF Told
<1>7. Placed(t, o)'
    BY <1>1, <1>2, <1>4, <1>6 DEF Placed, links
<1>8. \A g \in ToSet(s) : g.at \in LinkKinds /\ g.o = o
    BY <1>2, <1>3 DEF LinkKinds
<1> QED BY <1>1, <1>3, <1>7, <1>8, BeginCall

LEMMA LinkedInit == Init => AllLinked
<1> SUFFICES ASSUME Init PROVE AllLinked
    OBVIOUS
<1>1. \A t \in Threads : Frames(t) = {}
    BY EmptyStack DEF Init, Frames
<1>2. ASSUME NEW o \in Observers
      PROVE  Told(o)
    <2>1. \A s \in Observables : (o \in observers[s] \/ o \in slots[s]) => s \in observables[o]
        BY DEF Init
    <2>2. CASE o \in Copies
        BY <2>1, <2>2 DEF Init, AtFirst, Told
    <2>3. CASE o \notin Copies
        <3>1. Alive(o)
            BY <2>3 DEF Init, Alive, Referenced
        <3> QED BY <2>1, <3>1 DEF Told
    <2> QED BY <2>2, <2>3
<1>3. \A o \in Observers : \A t \in Threads : Placed(t, o)
    BY <1>1 DEF Placed, Ours
<1> QED BY <1>2, <1>3 DEF AllLinked, Linked

LEMMA LinkedStep ==
    ASSUME Core, LinkTypes, AllLinked, [Next]_vars
    PROVE  AllLinked'
<1>1. CASE UNCHANGED vars
    BY <1>1 DEF vars, AllLinked, Linked, Told, Placed, Detached, Ours, Frames, Alive,
       Referenced, Destroying
<1>2. ASSUME NEW t \in Threads, Step(t)
      PROVE  AllLinked'
    BY <1>2, QuietLinks, LeaveUpdateLinks, ConnectLinks,
       CopyObservablesLinks, EndJoinLinks, JoinNextLinks, DetachLinks, EndDetachLinks
       DEF Step
<1>3. ASSUME NEW t \in Threads, Begin(t)
      PROVE  AllLinked'
    BY <1>3, QuietLinks, RegisterLinks, UnregisterLinks, AssignLinks,
       CopyConstructLinks, ReleaseLinks DEF Begin
<1> QED BY <1>1, <1>2, <1>3 DEF Next

\* A destroyed observer leaves nothing behind in observables and signals, whatever
\* other threads did meanwhile (observable.cpp:135-151).
THEOREM NothingRemains == Spec => []NothingLeftBehind
<1>1. Init => Core /\ LinkTypes /\ AllLinked
    BY CoreInit, LinkedInit
<1>2. Core /\ LinkTypes /\ AllLinked /\ [Next]_vars => (Core /\ LinkTypes /\ AllLinked)'
    BY CoreStep, LinksStep, LinkedStep
<1>3. Core /\ AllLinked => NothingLeftBehind
    <2> SUFFICES ASSUME Core, AllLinked, NEW o \in Observers, ~Alive(o), ~Destroying(o)
                 PROVE  \A s \in Observables : o \notin observers[s] /\ o \notin slots[s]
        BY DEF NothingLeftBehind
    <2>1. Told(o) /\ observables[o] = {}
        BY DEF AllLinked, Linked, Told
    <2>2. \A u \in Threads : \A g \in Ours(u, o) : g.at # "register"
        BY OursPin
    <2> QED BY <2>1, <2>2 DEF Told
<1> QED BY <1>1, <1>2, <1>3, PTL DEF Spec

-----------------------------------------------------------------------------
(***************************************************************************)
(* One thread works, the others only let go of observers, as the tests do  *)
(* and as a garbage collector does (test-suite/observable.cpp:169-249).    *)
(* Without this premise NoDeadlock is false.                               *)
(***************************************************************************)
OneWorker(m) ==
    m \in Threads /\ \A u \in Threads \ {m} : May[u] \subseteq {"release", "leave"}

Holding(f) == f.at = "enable" \/ (f.at = "notify" /\ f.locked)
Waiting(f) ==
    \/ f.at = "notify" /\ f.pc = "wait"
    \/ f.at \in DetachKinds /\ f.pc = "forget"

Collectors(m) == \A u \in Threads \ {m} : \A f \in Frames(u) : f.at = "destroy"

\* While the worker holds the settings updates are enabled, and where it waits for
\* them they are not.
Sole(m) ==
    /\ Collectors(m)
    /\ \A f \in Frames(m) : Holding(f) => updatesType = "enabled"
    /\ \A f \in Frames(m) : Waiting(f) => updatesType # "enabled"

\* t takes no lock of the settings, and waits for it only when it must.
Calm(t) ==
    /\ UNCHANGED updatesType
    /\ \A u \in Threads \ {t} : Frames(u)' = Frames(u)
    /\ \A f \in Frames(t)' :
          /\ Holding(f) => \E g \in Frames(t) : Holding(g)
          /\ Waiting(f) => f \in Frames(t) \/ updatesType # "enabled"

\* The frames of t after a step: S, and destructors of what it let go of.
After(t, S) ==
    /\ \A u \in Threads \ {t} : Frames(u)' = Frames(u)
    /\ S \subseteq Frames(t)'
    /\ \A f \in Frames(t)' : f \in S \/ Fresh(f)'

LEMMA CalmAfter ==
    ASSUME NEW t \in Threads, NEW S, After(t, S), UNCHANGED updatesType,
           \A f \in S : \/ f \in Frames(t)
                        \/ /\ Holding(f) => \E g \in Frames(t) : Holding(g)
                           /\ Waiting(f) => updatesType # "enabled"
    PROVE  Calm(t)
BY DEF Calm, After, Fresh, Holding, Waiting

LEMMA AfterStack ==
    ASSUME StackTypes, NEW t \in Threads
    PROVE  /\ \A f \in Frame : Idle(t) /\ stack' = Push(t, f) => After(t, {f})
           /\ ~Idle(t) /\ stack' = Pop(t) => After(t, Rest(t))
           /\ \A f \in Frame :
                 ~Idle(t) /\ stack' = Replace(t, f) => After(t, {f} \cup Rest(t))
           /\ \A f, g \in Frame :
                 ~Idle(t) /\ stack' = [stack EXCEPT ![t] = <<g, f>> \o Tail(@)] =>
                    After(t, {f, g} \cup Rest(t))
           /\ UNCHANGED stack => After(t, Frames(t))
<1>1. Idle(t) => Frames(t) = {}
    BY EmptyStack DEF Idle, Frames
<1> QED BY <1>1, FramesAfter DEF After, Frames

\* Where references are let go of, s is the stack below the destructors.
LEMMA AfterDrop ==
    ASSUME StackTypes, NEW t \in Threads, NEW s \in Seq(Frame),
           NEW own, NEW obs \in [Observers -> SUBSET Observables],
           Drop(t, own, obs, [stack EXCEPT ![t] = s])
    PROVE  /\ owned' = own /\ observables' = obs /\ After(t, ToSet(s))
           /\ \A o \in Observers : Alive(o) => Alive(o)' \/ Destroying(o)'
BY FramesAfterDrop DEF After

LEMMA ReplacedStack ==
    ASSUME StackTypes, NEW t \in Threads, ~Idle(t), NEW f \in Frame
    PROVE  <<f>> \o Tail(stack[t]) \in Seq(Frame)
           /\ ToSet(<<f>> \o Tail(stack[t])) = {f} \cup Rest(t)
<1> DEFINE q == <<f>>
           r == Tail(stack[t])
<1>1. q \in Seq(Frame) /\ ToSet(q) = {f} /\ r \in Seq(Frame)
    BY TopAndRest DEF ToSet
<1> HIDE DEF q, r
<1>2. q \o r \in Seq(Frame) /\ ToSet(q \o r) = ToSet(q) \cup ToSet(r)
    BY <1>1, ConcatFrames
<1> QED BY <1>1, <1>2 DEF q, r, Rest

\* the steps of Drop
LEMMA DropFrames ==
    ASSUME Core, NEW t \in Threads
    PROVE  /\ LeaveUpdate(t) =>
                 /\ UNCHANGED observables
                 /\ \E f \in Frame : /\ f.at = "update" /\ f.pc = "exit"
                                     /\ After(t, {f} \cup Rest(t))
           /\ Connect(t) =>
                 /\ observables' = [observables EXCEPT ![Top(t).o] = @ \cup {Top(t).s}]
                 /\ After(t, Rest(t))
           /\ CopyObservables(t) =>
                 \E f \in JoinFrames :
                    /\ f.pc = "join" /\ After(t, {f})
                    /\ observables' = [observables EXCEPT ![Top(t).o] = observables[Top(t).p]]
           /\ EndJoin(t) => UNCHANGED observables /\ After(t, {})
           /\ \A o \in Observers : Release(t, o) => UNCHANGED observables /\ After(t, Frames(t))
           /\ EndDetach(t) =>
                 /\ observables' = [observables EXCEPT ![Top(t).o] =
                                      @ \ IF Top(t).at = "reset" THEN {} ELSE Top(t).all]
                 /\ After(t, Rest(t))
           /\ \/ LeaveUpdate(t) \/ Connect(t) \/ CopyObservables(t) \/ EndJoin(t)
              \/ EndDetach(t) \/ \E o \in Observers : Release(t, o)
              => \A o \in Observers : Alive(o) => Alive(o)' \/ Destroying(o)'
<1>s. StackTypes /\ observables \in [Observers -> SUBSET Observables]
    BY DEF Core, ObjectTypes
<1> DEFINE Cared == \A o \in Observers : Alive(o) => Alive(o)' \/ Destroying(o)'
<1>1. ASSUME LeaveUpdate(t)
      PROVE  /\ UNCHANGED observables /\ Cared
             /\ \E f \in Frame : /\ f.at = "update" /\ f.pc = "exit"
                                 /\ After(t, {f} \cup Rest(t))
    <2> DEFINE f == [Top(t) EXCEPT !.pc = "exit"]
               s == <<f>> \o Tail(stack[t])
    <2>1. ~Idle(t) /\ Top(t) \in UpdateFrames /\ Drop(t, owned, observables, [stack EXCEPT ![t] = s])
        BY <1>s, <1>1, TopFrame, FrameKinds DEF LeaveUpdate, At, Replace
    <2>2. f \in Frame /\ f.at = "update" /\ f.pc = "exit"
        BY <2>1 DEF Frame, UpdateFrames
    <2> HIDE DEF f
    <2>3. s \in Seq(Frame) /\ ToSet(s) = {f} \cup Rest(t)
        BY <1>s, <2>1, <2>2, ReplacedStack
    <2> HIDE DEF s
    <2> QED BY <1>s, <2>1, <2>2, <2>3, AfterDrop
<1>2. ASSUME Connect(t)
      PROVE  /\ observables' = [observables EXCEPT ![Top(t).o] = @ \cup {Top(t).s}]
             /\ After(t, Rest(t)) /\ Cared
    <2> DEFINE obs == [observables EXCEPT ![Top(t).o] = @ \cup {Top(t).s}]
               s == Tail(stack[t])
    <2>1. ~Idle(t) /\ Top(t) \in RegisterFrames /\ Drop(t, owned, obs, [stack EXCEPT ![t] = s])
        BY <1>s, <1>2, TopFrame, FrameKinds DEF Connect, Pop
    <2>2. s \in Seq(Frame) /\ ToSet(s) = Rest(t)
        BY <1>s, <2>1, TopAndRest DEF Rest
    <2>3. obs \in [Observers -> SUBSET Observables]
        BY <1>s, <2>1 DEF RegisterFrames
    <2> HIDE DEF obs, s
    <2>4. observables' = obs /\ After(t, Rest(t)) /\ Cared
        BY <1>s, <2>1, <2>2, <2>3, AfterDrop
    <2> QED BY <2>4 DEF obs
<1>3. ASSUME CopyObservables(t)
      PROVE  /\ \E f \in JoinFrames :
                    /\ f.pc = "join" /\ After(t, {f})
                    /\ observables' = [observables EXCEPT ![Top(t).o] = observables[Top(t).p]]
             /\ Cared
    <2> DEFINE S == observables[Top(t).p]
               obs == [observables EXCEPT ![Top(t).o] = S]
               f == [Top(t) EXCEPT !.pc = "join", !.todo = S]
               s == <<f>> \o Tail(stack[t])
    <2>1. ~Idle(t) /\ Top(t).at \in Joins /\ Drop(t, owned, obs, [stack EXCEPT ![t] = s])
        BY <1>3 DEF CopyObservables, Joining, Replace
    <2>2. Top(t) \in JoinFrames /\ Rest(t) = {}
        BY <1>s, <2>1, TopFrame, FrameKinds, TopAndRest DEF BottomKinds
    <2>3. S \in SUBSET Observables
        BY <1>s, <2>2 DEF JoinFrames
    <2>4. obs \in [Observers -> SUBSET Observables]
        BY <1>s, <2>3
    <2>5. f \in JoinFrames /\ f.pc = "join"
        <3> HIDE DEF S
        <3> QED BY <2>2, <2>3 DEF JoinFrames
    <2> HIDE DEF f, obs
    <2>6. f \in Frame
        BY <2>5 DEF Frame
    <2>7. s \in Seq(Frame) /\ ToSet(s) = {f}
        BY <1>s, <2>1, <2>2, <2>6, ReplacedStack
    <2> HIDE DEF s
    <2>8. observables' = obs /\ After(t, {f}) /\ Cared
        BY <1>s, <2>1, <2>4, <2>7, AfterDrop
    <2> QED BY <2>5, <2>8 DEF obs
<1>4. ASSUME EndJoin(t)
      PROVE  UNCHANGED observables /\ After(t, {}) /\ Cared
    <2> DEFINE own == [owned EXCEPT ![Top(t).o] = @ \/ Top(t).at = "construct"]
               s == Tail(stack[t])
    <2>1. ~Idle(t) /\ Top(t).at \in Joins /\ Drop(t, own, observables, [stack EXCEPT ![t] = s])
        BY <1>4 DEF EndJoin, Joining, Pop
    <2>2. s \in Seq(Frame) /\ ToSet(s) = {}
        BY <1>s, <2>1, TopAndRest DEF Rest, BottomKinds
    <2> HIDE DEF own, s
    <2> QED BY <1>s, <2>1, <2>2, AfterDrop
<1>5. ASSUME NEW o \in Observers, Release(t, o)
      PROVE  UNCHANGED observables /\ After(t, Frames(t)) /\ Cared
    <2> DEFINE own == [owned EXCEPT ![o] = FALSE]
               s == stack[t]
    <2>1. stack = [stack EXCEPT ![t] = s]
        BY <1>s DEF StackTypes
    <2>2. Drop(t, own, observables, [stack EXCEPT ![t] = s])
        <3>1. Drop(t, own, observables, stack)
            BY <1>5 DEF Release
        <3> QED BY <2>1, <3>1
    <2>3. s \in Seq(Frame) /\ ToSet(s) = Frames(t)
        BY <1>s, TypedFrames DEF Frames
    <2> HIDE DEF own, s
    <2> QED BY <1>s, <2>2, <2>3, AfterDrop
<1>6. ASSUME EndDetach(t)
      PROVE  /\ observables' = [observables EXCEPT ![Top(t).o] =
                                  @ \ IF Top(t).at = "reset" THEN {} ELSE Top(t).all]
             /\ After(t, Rest(t)) /\ Cared
    <2> DEFINE obs == [observables EXCEPT ![Top(t).o] =
                                  @ \ IF Top(t).at = "reset" THEN {} ELSE Top(t).all]
               s == Tail(stack[t])
    <2>1. ~Idle(t) /\ Drop(t, owned, obs, [stack EXCEPT ![t] = s])
        BY <1>6 DEF EndDetach, Detaching, At, Pop
    <2>2. s \in Seq(Frame) /\ ToSet(s) = Rest(t)
        BY <1>s, <2>1, TopAndRest DEF Rest
    <2>3. obs \in [Observers -> SUBSET Observables]
        BY <1>s
    <2> HIDE DEF obs, s
    <2>4. observables' = obs /\ After(t, Rest(t)) /\ Cared
        BY <1>s, <2>1, <2>2, <2>3, AfterDrop
    <2> QED BY <2>4 DEF obs
<1> HIDE DEF Cared
<1>7. \/ LeaveUpdate(t) \/ Connect(t) \/ CopyObservables(t) \/ EndJoin(t)
      \/ EndDetach(t) \/ \E o \in Observers : Release(t, o)
      => Cared
    BY <1>1, <1>2, <1>3, <1>4, <1>5, <1>6
<1> QED BY <1>1, <1>2, <1>3, <1>4, <1>5, <1>6, <1>7 DEF Cared

\* the other steps of a thread
LEMMA NotifyFramesAfter ==
    ASSUME Core, LinkTypes, NEW t \in Threads
    PROVE  /\ \A s \in Sources : Notify(t, s) => After(t, {NotifyFrame(s)})
           /\ CheckEnabled(t) => \E f \in NotifyFrames :
                 /\ f.pc = (IF updatesType = "enabled" THEN "emit" ELSE "wait")
                 /\ f.locked = Top(t).locked /\ After(t, {f} \cup Rest(t))
           /\ LockAndCheck(t) =>
                 \/ After(t, Rest(t))
                 \/ \E f \in NotifyFrames : /\ f.pc = "emit" /\ updatesType = "enabled"
                                            /\ After(t, {f} \cup Rest(t))
           /\ CallSlot(t) => \E f \in NotifyFrames :
                 /\ f.pc = "emit" /\ f.locked = Top(t).locked
                 /\ \/ After(t, {f} \cup Rest(t))
                    \/ \E o \in Observers : After(t, {f, UpdateFrame(o)} \cup Rest(t))
           /\ EndNotify(t) => After(t, Rest(t))
           /\ Enable(t) => After(t, {EnableFrame(deferredObservers)})
           /\ CallDeferred(t) => \E f \in EnableFrames : \E o \in Top(t).todo :
                 /\ f.todo = Top(t).todo \ {o}
                 /\ After(t, {f, UpdateFrame(o)} \cup Rest(t))
           /\ NoteFailure(t) => \E f \in EnableFrames :
                 f.todo = Top(t).todo /\ After(t, {f} \cup Rest(t))
           /\ EndEnable(t) => After(t, Rest(t))
<1>s. StackTypes
    BY DEF Core
<1>t. ASSUME ~Idle(t)
      PROVE  /\ Top(t).at = "notify" => Top(t) \in NotifyFrames
             /\ Top(t).at = "enable" => Top(t) \in EnableFrames
    BY <1>s, <1>t, TopFrame, FrameKinds
<1>u. \A o \in Observers : UpdateFrame(o) \in Frame
    BY DEF UpdateFrame, Frame, UpdateFrames
<1>n. \A f \in NotifyFrames \cup EnableFrames : f \in Frame
    BY DEF Frame
<1>1. ASSUME NEW s \in Sources, Notify(t, s)
      PROVE  After(t, {NotifyFrame(s)})
    <2>1. NotifyFrame(s) \in Frame
        BY <1>n DEF NotifyFrame, NotifyFrames, Observables
    <2> QED BY <1>s, <1>1, <2>1, AfterStack DEF Notify
<1>2. ASSUME CheckEnabled(t)
      PROVE  \E f \in NotifyFrames :
                 /\ f.pc = (IF updatesType = "enabled" THEN "emit" ELSE "wait")
                 /\ f.locked = Top(t).locked /\ After(t, {f} \cup Rest(t))
    <2> DEFINE f == IF updatesType = "enabled"
                      THEN [Top(t) EXCEPT !.pc = "emit", !.todo = slots[Top(t).s]]
                      ELSE [Top(t) EXCEPT !.pc = "wait"]
    <2>1. ~Idle(t) /\ stack' = Replace(t, f) /\ Top(t) \in NotifyFrames
        BY <1>2, <1>t DEF CheckEnabled, At
    <2>2. /\ f \in NotifyFrames /\ f.locked = Top(t).locked
          /\ f.pc = (IF updatesType = "enabled" THEN "emit" ELSE "wait")
        BY <2>1 DEF NotifyFrames, LinkTypes
    <2> HIDE DEF f
    <2> QED BY <1>s, <1>n, <2>1, <2>2, AfterStack
<1>3. ASSUME LockAndCheck(t)
      PROVE  \/ After(t, Rest(t))
             \/ \E f \in NotifyFrames : /\ f.pc = "emit" /\ updatesType = "enabled"
                                        /\ After(t, {f} \cup Rest(t))
    <2> DEFINE f == [Top(t) EXCEPT !.pc = "emit", !.locked = TRUE, !.todo = slots[Top(t).s]]
    <2>1. ~Idle(t) /\ Top(t) \in NotifyFrames
          /\ (stack' = Pop(t) \/ (updatesType = "enabled" /\ stack' = Replace(t, f)))
        BY <1>3, <1>t DEF LockAndCheck, At
    <2>2. f \in NotifyFrames /\ f.pc = "emit"
        BY <2>1 DEF NotifyFrames, LinkTypes
    <2> HIDE DEF f
    <2> QED BY <1>s, <1>n, <2>1, <2>2, AfterStack
<1>4. ASSUME CallSlot(t)
      PROVE  \E f \in NotifyFrames :
                 /\ f.pc = "emit" /\ f.locked = Top(t).locked
                 /\ \/ After(t, {f} \cup Rest(t))
                    \/ \E o \in Observers : After(t, {f, UpdateFrame(o)} \cup Rest(t))
    <2>1. ~Idle(t) /\ Top(t) \in NotifyFrames /\ Top(t).pc = "emit"
        BY <1>4, <1>t DEF CallSlot, At
    <2>2. PICK o \in Top(t).todo :
             LET f == [Top(t) EXCEPT !.todo = @ \ {o}] IN
             stack' = [stack EXCEPT ![t] =
                 (IF o \in slots[f.s] THEN <<UpdateFrame(o), f>> ELSE <<f>>) \o Tail(@)]
        BY <1>4 DEF CallSlot
    <2> DEFINE f == [Top(t) EXCEPT !.todo = @ \ {o}]
    <2>3. f \in NotifyFrames /\ o \in Observers /\ f.pc = "emit" /\ f.locked = Top(t).locked
        BY <2>1 DEF NotifyFrames
    <2>4. \/ stack' = [stack EXCEPT ![t] = <<UpdateFrame(o), f>> \o Tail(@)]
          \/ stack' = Replace(t, f)
        BY <2>2 DEF Replace
    <2> HIDE DEF f
    <2>5. After(t, {f, UpdateFrame(o)} \cup Rest(t)) \/ After(t, {f} \cup Rest(t))
        BY <1>s, <1>n, <1>u, <2>1, <2>3, <2>4, AfterStack
    <2> QED BY <2>3, <2>5
<1>5. ASSUME EndNotify(t) \/ EndEnable(t)
      PROVE  After(t, Rest(t))
    BY <1>s, <1>5, AfterStack DEF EndNotify, EndEnable, Enabling, At
<1>6. ASSUME Enable(t)
      PROVE  After(t, {EnableFrame(deferredObservers)})
    <2>1. EnableFrame(deferredObservers) \in Frame
        BY <1>n DEF EnableFrame, EnableFrames, LinkTypes
    <2> QED BY <1>s, <1>6, <2>1, AfterStack DEF Enable
<1>7. ASSUME CallDeferred(t)
      PROVE  \E f \in EnableFrames : \E o \in Top(t).todo :
                 /\ f.todo = Top(t).todo \ {o}
                 /\ After(t, {f, UpdateFrame(o)} \cup Rest(t))
    <2>1. ~Idle(t) /\ Top(t) \in EnableFrames
        BY <1>7, <1>t DEF CallDeferred, Enabling
    <2>2. PICK o \in Top(t).todo : stack' = [stack EXCEPT ![t] =
              <<UpdateFrame(o), [Top(t) EXCEPT !.todo = @ \ {o}]>> \o Tail(@)]
        BY <1>7 DEF CallDeferred
    <2> DEFINE f == [Top(t) EXCEPT !.todo = @ \ {o}]
    <2>3. f \in EnableFrames /\ o \in Observers /\ f.todo = Top(t).todo \ {o}
        BY <2>1 DEF EnableFrames
    <2>4. stack' = [stack EXCEPT ![t] = <<UpdateFrame(o), f>> \o Tail(@)]
        BY <2>2
    <2> HIDE DEF f
    <2>5. After(t, {f, UpdateFrame(o)} \cup Rest(t))
        BY <1>s, <1>n, <1>u, <2>1, <2>3, <2>4, AfterStack
    <2> QED BY <2>3, <2>5
<1>8. ASSUME NoteFailure(t)
      PROVE  \E f \in EnableFrames : f.todo = Top(t).todo /\ After(t, {f} \cup Rest(t))
    <2> DEFINE f == [Top(t) EXCEPT !.successful = FALSE]
    <2>1. ~Idle(t) /\ stack' = Replace(t, f) /\ Top(t) \in EnableFrames
        BY <1>8, <1>t DEF NoteFailure, Enabling
    <2>2. f \in EnableFrames /\ f.todo = Top(t).todo
        BY <2>1 DEF EnableFrames
    <2> HIDE DEF f
    <2> QED BY <1>s, <1>n, <2>1, <2>2, AfterStack
<1> QED BY <1>1, <1>2, <1>3, <1>4, <1>5, <1>6, <1>7, <1>8

LEMMA UpdateFramesAfter ==
    ASSUME Core, NEW t \in Threads
    PROVE  /\ EnterProxy(t) =>
                 \/ /\ After(t, Rest(t))
                    /\ ~ (active[Top(t).o] /\ (Unmanaged(Top(t).o) \/ Alive(Top(t).o)))
                 \/ \E f \in UpdateFrames :
                       f.o = Top(t).o /\ f.pc = "body" /\ After(t, {f} \cup Rest(t))
           /\ RunUpdate(t) => \E f \in UpdateFrames :
                 /\ f.o = Top(t).o /\ f.pc = "leave"
                 /\ \/ After(t, {f} \cup Rest(t))
                    \/ \E s \in Observables : After(t, {f, NotifyFrame(s)} \cup Rest(t))
           /\ UnlockProxy(t) => After(t, Rest(t))
<1>s. StackTypes
    BY DEF Core
<1>1. ASSUME EnterProxy(t) \/ RunUpdate(t) \/ UnlockProxy(t)
      PROVE  ~Idle(t) /\ Top(t) \in UpdateFrames
    BY <1>s, <1>1, TopFrame, FrameKinds DEF EnterProxy, RunUpdate, UnlockProxy, At
<1>n. \A f \in UpdateFrames : f \in Frame
    BY DEF Frame
<1>2. ASSUME EnterProxy(t)
      PROVE  \/ /\ After(t, Rest(t))
                /\ ~ (active[Top(t).o] /\ (Unmanaged(Top(t).o) \/ Alive(Top(t).o)))
             \/ \E f \in UpdateFrames :
                   f.o = Top(t).o /\ f.pc = "body" /\ After(t, {f} \cup Rest(t))
    <2> DEFINE f == [Top(t) EXCEPT !.pc = "body"]
               enters == active[Top(t).o] /\ (Unmanaged(Top(t).o) \/ Alive(Top(t).o))
    <2>1. f \in UpdateFrames /\ f.o = Top(t).o /\ f.pc = "body"
        BY <1>1, <1>2 DEF UpdateFrames
    <2>2. stack' = IF enters THEN Replace(t, f) ELSE Pop(t)
        BY <1>2 DEF EnterProxy
    <2> HIDE DEF f, enters
    <2>3. IF enters THEN After(t, {f} \cup Rest(t)) ELSE After(t, Rest(t))
        BY <1>s, <1>n, <1>1, <1>2, <2>1, <2>2, AfterStack
    <2> QED BY <2>1, <2>3 DEF enters
<1>3. ASSUME RunUpdate(t)
      PROVE  \E f \in UpdateFrames :
                 /\ f.o = Top(t).o /\ f.pc = "leave"
                 /\ \/ After(t, {f} \cup Rest(t))
                    \/ \E s \in Observables : After(t, {f, NotifyFrame(s)} \cup Rest(t))
    <2> DEFINE o == Top(t).o
               f == [Top(t) EXCEPT !.pc = "leave"]
               g == NotifyFrame(o)
    <2>1. f \in UpdateFrames /\ f.pc = "leave" /\ f.o = o
        BY <1>1, <1>3 DEF UpdateFrames
    <2>2. \/ o \in Forwarders /\ stack' = [stack EXCEPT ![t] = <<g, f>> \o Tail(@)]
          \/ stack' = Replace(t, f)
        BY <1>3 DEF RunUpdate, Replace
    <2>3. ASSUME o \in Forwarders PROVE g \in Frame /\ o \in Observables
        BY <2>3 DEF Observables, NotifyFrame, Frame, NotifyFrames
    <2> HIDE DEF f, g, o
    <2>4. After(t, {f} \cup Rest(t)) \/ (o \in Observables /\ After(t, {f, g} \cup Rest(t)))
        BY <1>s, <1>n, <1>1, <1>3, <2>1, <2>2, <2>3, AfterStack
    <2> QED BY <2>1, <2>4 DEF g, o
<1>4. ASSUME UnlockProxy(t)
      PROVE  After(t, Rest(t))
    BY <1>s, <1>1, <1>4, AfterStack DEF UnlockProxy
<1> QED BY <1>2, <1>3, <1>4

LEMMA DetachFramesAfter ==
    ASSUME Core, NEW t \in Threads,
           \/ Deactivate(t) \/ ForgetDeferred(t) \/ Disconnect(t)
           \/ \E s \in Observables : Unhook(t, s)
    PROVE  /\ ~Idle(t) /\ Top(t) \in DetachFrames
           /\ \E f \in DetachFrames :
                 /\ f.at = Top(t).at /\ f.o = Top(t).o /\ f.all = Top(t).all
                 /\ f.pc = "forget" => updatesType = "deferred"
                 /\ After(t, {f} \cup Rest(t))
<1>s. StackTypes
    BY DEF Core
<1>1. ~Idle(t) /\ Top(t) \in DetachFrames
    BY <1>s, TopFrame, FrameKinds
       DEF Deactivate, Unhook, ForgetDeferred, Disconnect, Detaching, At
<1> DEFINE Shifted(f) ==
             /\ f \in DetachFrames /\ stack' = Replace(t, f)
             /\ f.at = Top(t).at /\ f.o = Top(t).o /\ f.all = Top(t).all
             /\ f.pc = "forget" => updatesType = "deferred"
<1>5. ASSUME NEW s \in Observables, Unhook(t, s)
      PROVE  \E f : Shifted(f)
    <2>1. Shifted([Top(t) EXCEPT
                      !.pc = IF updatesType = "deferred" THEN "forget" ELSE "disconnect",
                      !.todo = @ \ {s}, !.now = {s}])
        BY <1>1, <1>5 DEF Unhook, DetachFrames
    <2> QED BY <2>1
<1>6. \E f : Shifted(f)
    <2>1. CASE Deactivate(t)
        <3>1. Shifted([Top(t) EXCEPT !.pc = "unhook"])
            BY <1>1, <2>1 DEF Deactivate, DetachFrames
        <3> QED BY <3>1
    <2>2. CASE ForgetDeferred(t)
        <3>1. Shifted([Top(t) EXCEPT !.pc = "disconnect"])
            BY <1>1, <2>2 DEF ForgetDeferred, DetachFrames
        <3> QED BY <3>1
    <2>3. CASE Disconnect(t)
        <3>1. Shifted([Top(t) EXCEPT !.pc = "unhook", !.now = {}])
            BY <1>1, <2>3 DEF Disconnect, DetachFrames
        <3> QED BY <3>1
    <2> QED BY <1>5, <2>1, <2>2, <2>3
<1>7. PICK f : Shifted(f)
    BY <1>6
<1>8. f \in Frame
    BY <1>7 DEF Frame
<1> QED BY <1>s, <1>1, <1>7, <1>8, AfterStack

LEMMA CallFramesAfter ==
    ASSUME Core, NEW t \in Threads
    PROVE  /\ \A o \in Observers, s \in Observables :
                 /\ Register(t, o, s) => After(t, {RegisterFrame(o, s)})
                 /\ UnregisterWith(t, o, s) =>
                       After(t, {DetachFrame("unregister", o, "unhook", {s})})
           /\ \A s \in Observables : JoinNext(t, s) =>
                 \E f \in JoinFrames : \E o \in Observers : After(t, {f, RegisterFrame(o, s)})
           /\ \A o \in Observers : Unregister(t, o) =>
                 After(t, {DetachFrame("unregister", o, "unhook", observables[o])})
           /\ \A o, p \in Observers :
                 /\ RegisterWithObservables(t, o, p) \/ CopyConstruct(t, o, p) =>
                       \E f \in JoinFrames : After(t, {f})
                 /\ Assign(t, o, p) => \E f \in JoinFrames :
                       After(t, {f, DetachFrame("reset", o, "unhook", observables[o])})
           /\ Catch(t) \/ (\E deferred \in BOOLEAN : Disable(t, deferred)) =>
                 Idle(t) /\ After(t, {})
<1>s. StackTypes /\ observables \in [Observers -> SUBSET Observables]
    BY DEF Core, ObjectTypes
<1>d. \A kind \in DetachKinds, o \in Observers, S \in SUBSET Observables :
          DetachFrame(kind, o, "unhook", S) \in Frame
    BY DEF DetachFrame, Frame, DetachFrames, DetachKinds
<1>r. \A o \in Observers, s \in Observables : RegisterFrame(o, s) \in Frame
    BY DEF RegisterFrame, Frame, RegisterFrames
<1>j. \A f \in JoinFrames : f \in Frame
    BY DEF Frame
<1>1. ASSUME NEW o \in Observers, NEW s \in Observables, Register(t, o, s)
      PROVE  After(t, {RegisterFrame(o, s)})
    BY <1>s, <1>r, <1>1, AfterStack DEF Register
<1>2. ASSUME NEW o \in Observers, NEW s \in Observables, UnregisterWith(t, o, s)
      PROVE  After(t, {DetachFrame("unregister", o, "unhook", {s})})
    BY <1>s, <1>d, <1>2, AfterStack DEF UnregisterWith, DetachKinds
<1>3. ASSUME NEW o \in Observers, Unregister(t, o)
      PROVE  After(t, {DetachFrame("unregister", o, "unhook", observables[o])})
    BY <1>s, <1>d, <1>3, AfterStack DEF Unregister, DetachKinds
<1>4. ASSUME NEW s \in Observables, JoinNext(t, s)
      PROVE  \E f \in JoinFrames : \E o \in Observers : After(t, {f, RegisterFrame(o, s)})
    <2> DEFINE o == Top(t).o
               f == [Top(t) EXCEPT !.todo = @ \ {s}]
               g == RegisterFrame(o, s)
    <2>1. ~Idle(t) /\ Top(t).at \in Joins /\ stack' = [stack EXCEPT ![t] = <<g, f>> \o Tail(@)]
        BY <1>4 DEF JoinNext, Joining
    <2>2. Top(t) \in JoinFrames /\ Rest(t) = {}
        BY <1>s, <2>1, TopFrame, FrameKinds, TopAndRest DEF BottomKinds
    <2>3. f \in JoinFrames /\ o \in Observers /\ g \in Frame
        BY <2>2, <1>r DEF JoinFrames
    <2> HIDE DEF f, g
    <2>4. After(t, {f, g} \cup Rest(t))
        BY <1>s, <1>j, <2>1, <2>3, AfterStack
    <2>5. After(t, {f, g})
        BY <2>2, <2>4
    <2> QED BY <2>3, <2>5 DEF g
<1>5. ASSUME NEW o \in Observers, NEW p \in Observers,
             RegisterWithObservables(t, o, p) \/ CopyConstruct(t, o, p)
      PROVE  \E f \in JoinFrames : After(t, {f})
    <2>1. PICK f \in JoinFrames : stack' = Push(t, f)
        <3>1. JoinFrame("borrow", o, p, "join", observables[p]) \in JoinFrames
            BY <1>s DEF JoinFrame, JoinFrames, Joins
        <3>2. JoinFrame("construct", o, p, "copy", {}) \in JoinFrames
            BY DEF JoinFrame, JoinFrames, Joins
        <3> QED BY <1>5, <3>1, <3>2 DEF RegisterWithObservables, CopyConstruct
    <2>2. Idle(t)
        BY <1>5 DEF RegisterWithObservables, CopyConstruct
    <2> QED BY <1>s, <1>j, <2>1, <2>2, AfterStack
<1>6. ASSUME NEW o \in Observers, NEW p \in Observers, Assign(t, o, p)
      PROVE  \E f \in JoinFrames :
                 After(t, {f, DetachFrame("reset", o, "unhook", observables[o])})
    <2> DEFINE g == DetachFrame("reset", o, "unhook", observables[o])
               f == JoinFrame("assign", o, p, "copy", {})
               s == <<g, f>>
    <2>1. f \in JoinFrames /\ g \in Frame
        BY <1>s, <1>d DEF JoinFrame, JoinFrames, Joins, DetachKinds
    <2>2. stack' = [stack EXCEPT ![t] = s]
        BY <1>6 DEF Assign
    <2>3. ToSet(s) = {f, g}
        BY DEF ToSet
    <2> HIDE DEF f, g, s
    <2>4. After(t, {f, g})
        BY <1>s, <2>2, <2>3, FramesAfter DEF After
    <2> QED BY <2>1, <2>4 DEF g
<1>7. ASSUME Catch(t) \/ \E deferred \in BOOLEAN : Disable(t, deferred)
      PROVE  Idle(t) /\ After(t, {})
    <2>1. Idle(t) /\ UNCHANGED stack
        BY <1>7 DEF Catch, Disable
    <2> QED BY <1>s, <2>1, AfterStack, EmptyStack DEF Idle, Frames
<1> QED BY <1>1, <1>2, <1>3, <1>4, <1>5, <1>6, <1>7

LEMMA CalmTwo ==
    ASSUME NEW t \in Threads, NEW f, NEW g, NEW R, R \subseteq Frames(t),
           After(t, {f, g} \cup R) \/ After(t, {f, g}), UNCHANGED updatesType,
           \A h \in {f, g} : /\ Holding(h) => \E k \in Frames(t) : Holding(k)
                             /\ Waiting(h) => updatesType # "enabled"
    PROVE  Calm(t)
<1>1. PICK S : /\ After(t, S)
               /\ \A h \in S : h \in {f, g} \/ h \in Frames(t)
    OBVIOUS
<1>2. \A h \in S : \/ h \in Frames(t)
                   \/ /\ Holding(h) => \E k \in Frames(t) : Holding(k)
                      /\ Waiting(h) => updatesType # "enabled"
    BY <1>1
<1> QED BY <1>1, <1>2, CalmAfter

\* The steps of which one thread only is the cause of what the settings become.
Switches(t) ==
    LockAndCheck(t) \/ Enable(t) \/ \E deferred \in BOOLEAN : Disable(t, deferred)

LEMMA CalmSteps ==
    ASSUME Core, LinkTypes, NEW t \in Threads, Step(t) \/ Begin(t), ~Switches(t)
    PROVE  Calm(t)
<1> USE DEF settings
<1>s. StackTypes
    BY DEF Core
<1>t. ~Idle(t) => Top(t) \in Frames(t) /\ Rest(t) \subseteq Frames(t)
    BY <1>s, TopFrame DEF Rest
<1>q. ASSUME NEW f \in UpdateFrames \cup JoinFrames \cup RegisterFrames
      PROVE  ~Holding(f) /\ ~Waiting(f)
    BY DEF Holding, Waiting, UpdateFrames, JoinFrames, RegisterFrames, DetachKinds, Joins
<1>u. \A o \in Observers, s \in Observables :
          RegisterFrame(o, s) \in RegisterFrames
    BY DEF RegisterFrame, RegisterFrames
<1>d. \A kind \in DetachKinds : \A o, S :
          /\ ~Holding(DetachFrame(kind, o, "unhook", S))
          /\ ~Waiting(DetachFrame(kind, o, "unhook", S))
    BY DEF DetachFrame, Holding, Waiting, DetachKinds
<1>1. ASSUME NEW s \in Sources, Notify(t, s)
      PROVE  Calm(t)
    <2>1. After(t, {NotifyFrame(s)}) /\ UNCHANGED updatesType /\ s \in Observables
        BY <1>1, NotifyFramesAfter DEF Notify, Observables
    <2>2. ~Holding(NotifyFrame(s)) /\ ~Waiting(NotifyFrame(s))
        BY DEF NotifyFrame, Holding, Waiting, DetachKinds
    <2> QED BY <2>1, <2>2, CalmAfter
<1>2. ASSUME CheckEnabled(t)
      PROVE  Calm(t)
    <2>1. ~Idle(t) /\ UNCHANGED updatesType /\ Top(t).at = "notify"
        BY <1>2 DEF CheckEnabled, At
    <2>2. PICK f \in NotifyFrames :
              /\ f.pc = (IF updatesType = "enabled" THEN "emit" ELSE "wait")
              /\ f.locked = Top(t).locked /\ After(t, {f} \cup Rest(t))
        BY <1>2, NotifyFramesAfter
    <2>3. /\ Holding(f) => Holding(Top(t))
          /\ Waiting(f) => updatesType # "enabled"
        BY <2>1, <2>2 DEF Holding, Waiting, NotifyFrames, DetachKinds
    <2> QED BY <1>t, <2>1, <2>2, <2>3, CalmAfter
<1>3. ASSUME CallSlot(t)
      PROVE  Calm(t)
    <2>1. ~Idle(t) /\ UNCHANGED updatesType /\ Top(t).at = "notify"
        BY <1>3 DEF CallSlot, At
    <2>2. PICK f \in NotifyFrames :
              /\ f.pc = "emit" /\ f.locked = Top(t).locked
              /\ \/ After(t, {f} \cup Rest(t))
                 \/ \E o \in Observers : After(t, {f, UpdateFrame(o)} \cup Rest(t))
        BY <1>3, NotifyFramesAfter
    <2>3. (Holding(f) => Holding(Top(t))) /\ ~Waiting(f)
        BY <2>1, <2>2 DEF Holding, Waiting, NotifyFrames, DetachKinds
    <2>4. CASE After(t, {f} \cup Rest(t))
        BY <1>t, <2>1, <2>3, <2>4, CalmAfter
    <2>5. ASSUME NEW o \in Observers, After(t, {f, UpdateFrame(o)} \cup Rest(t))
          PROVE  Calm(t)
        <3>1. ~Holding(UpdateFrame(o)) /\ ~Waiting(UpdateFrame(o))
            BY DEF UpdateFrame, Holding, Waiting, DetachKinds
        <3>2. \A h \in {f, UpdateFrame(o)} : /\ Holding(h) => \E k \in Frames(t) : Holding(k)
                                             /\ Waiting(h) => updatesType # "enabled"
            BY <1>t, <2>1, <2>3, <3>1
        <3> QED BY <1>t, <2>1, <2>5, <3>2, CalmTwo
    <2> QED BY <2>2, <2>4, <2>5
<1>4. ASSUME CallDeferred(t) \/ NoteFailure(t)
      PROVE  Calm(t)
    <2>1. ~Idle(t) /\ UNCHANGED updatesType /\ Holding(Top(t))
        BY <1>4 DEF CallDeferred, NoteFailure, Enabling, Holding
    <2>2. PICK f \in EnableFrames :
              \/ After(t, {f} \cup Rest(t))
              \/ \E o \in Top(t).todo : After(t, {f, UpdateFrame(o)} \cup Rest(t))
        BY <1>4, NotifyFramesAfter
    <2>3. ~Waiting(f)
        BY DEF Waiting, EnableFrames, DetachKinds
    <2>4. \A o \in Top(t).todo : ~Holding(UpdateFrame(o)) /\ ~Waiting(UpdateFrame(o))
        BY DEF UpdateFrame, Holding, Waiting, DetachKinds
    <2>5. CASE After(t, {f} \cup Rest(t))
        BY <1>t, <2>1, <2>3, <2>5, CalmAfter
    <2>6. ASSUME NEW o \in Top(t).todo, After(t, {f, UpdateFrame(o)} \cup Rest(t))
          PROVE  Calm(t)
        <3>1. \A h \in {f, UpdateFrame(o)} : /\ Holding(h) => \E k \in Frames(t) : Holding(k)
                                             /\ Waiting(h) => updatesType # "enabled"
            BY <1>t, <2>1, <2>3, <2>4
        <3> QED BY <1>t, <2>1, <2>6, <3>1, CalmTwo
    <2> QED BY <2>2, <2>5, <2>6
<1>5. ASSUME EndNotify(t) \/ EndEnable(t) \/ UnlockProxy(t) \/ Connect(t) \/ EndDetach(t)
      PROVE  Calm(t)
    <2>1. ~Idle(t) /\ UNCHANGED updatesType
        BY <1>5 DEF EndNotify, EndEnable, UnlockProxy, Connect, EndDetach, Enabling, Detaching, At
    <2>2. After(t, Rest(t))
        BY <1>5, NotifyFramesAfter, UpdateFramesAfter, DropFrames
    <2> QED BY <1>t, <2>1, <2>2, CalmAfter
<1>6. ASSUME EnterProxy(t) \/ LeaveUpdate(t)
      PROVE  Calm(t)
    <2>1. ~Idle(t) /\ UNCHANGED updatesType
        BY <1>6 DEF EnterProxy, LeaveUpdate, At
    <2>2. CASE After(t, Rest(t))
        BY <1>t, <2>1, <2>2, CalmAfter
    <2>3. ASSUME NEW f, f.at = "update", After(t, {f} \cup Rest(t))
          PROVE  Calm(t)
        <3>1. ~Holding(f) /\ ~Waiting(f)
            BY <2>3 DEF Holding, Waiting, DetachKinds
        <3> QED BY <1>t, <2>1, <2>3, <3>1, CalmAfter
    <2>4. \/ After(t, Rest(t))
          \/ \E f \in UpdateFrames : After(t, {f} \cup Rest(t))
          \/ \E f \in Frame : f.at = "update" /\ After(t, {f} \cup Rest(t))
        BY <1>6, UpdateFramesAfter, DropFrames
    <2>5. \A f \in UpdateFrames : f.at = "update"
        BY DEF UpdateFrames
    <2> QED BY <2>2, <2>3, <2>4, <2>5
<1>7. ASSUME RunUpdate(t)
      PROVE  Calm(t)
    <2>1. ~Idle(t) /\ UNCHANGED updatesType
        BY <1>7 DEF RunUpdate, At
    <2>2. PICK f \in UpdateFrames :
              \/ After(t, {f} \cup Rest(t))
              \/ \E s \in Observables : After(t, {f, NotifyFrame(s)} \cup Rest(t))
        BY <1>7, UpdateFramesAfter
    <2>3. CASE After(t, {f} \cup Rest(t))
        BY <1>t, <1>q, <2>1, <2>3, CalmAfter
    <2>4. ASSUME NEW s \in Observables, After(t, {f, NotifyFrame(s)} \cup Rest(t))
          PROVE  Calm(t)
        <3>1. ~Holding(NotifyFrame(s)) /\ ~Waiting(NotifyFrame(s))
            BY DEF NotifyFrame, Holding, Waiting, DetachKinds
        <3> QED BY <1>t, <1>q, <2>1, <2>4, <3>1, CalmAfter
    <2> QED BY <2>2, <2>3, <2>4
<1>8. ASSUME \/ Deactivate(t) \/ ForgetDeferred(t) \/ Disconnect(t)
             \/ \E s \in Observables : Unhook(t, s)
      PROVE  Calm(t)
    <2>1. ~Idle(t) /\ UNCHANGED updatesType
        BY <1>8, DetachFramesAfter DEF Deactivate, ForgetDeferred, Disconnect, Unhook
    <2>2. PICK f \in DetachFrames : /\ f.pc = "forget" => updatesType = "deferred"
                                    /\ After(t, {f} \cup Rest(t))
        BY <1>8, DetachFramesAfter
    <2>3. ~Holding(f) /\ (Waiting(f) => updatesType # "enabled")
        BY <2>2 DEF Holding, Waiting, DetachFrames, DetachKinds
    <2> QED BY <1>t, <2>1, <2>2, <2>3, CalmAfter
<1>9. ASSUME NEW o \in Observers, NEW s \in Observables,
             Register(t, o, s) \/ UnregisterWith(t, o, s)
      PROVE  Calm(t)
    <2>1. UNCHANGED updatesType
        BY <1>9 DEF Register, UnregisterWith
    <2>2. ASSUME NEW f, ~Holding(f), ~Waiting(f), After(t, {f}) PROVE Calm(t)
        BY <2>1, <2>2, CalmAfter
    <2>3. ~Holding(RegisterFrame(o, s)) /\ ~Waiting(RegisterFrame(o, s))
        BY <1>u, <1>q
    <2>4. CASE Register(t, o, s)
        <3>1. After(t, {RegisterFrame(o, s)})
            BY <2>4, CallFramesAfter
        <3> QED BY <2>2, <2>3, <3>1
    <2>5. CASE UnregisterWith(t, o, s)
        <3>1. After(t, {DetachFrame("unregister", o, "unhook", {s})})
            BY <2>5, CallFramesAfter
        <3> QED BY <1>d, <2>2, <3>1 DEF DetachKinds
    <2> QED BY <1>9, <2>4, <2>5
<1>10. ASSUME NEW o \in Observers, NEW p \in Observers,
              RegisterWithObservables(t, o, p) \/ Assign(t, o, p) \/ CopyConstruct(t, o, p)
       PROVE  Calm(t)
    <2>1. UNCHANGED updatesType
        BY <1>10 DEF RegisterWithObservables, Assign, CopyConstruct
    <2>2. PICK f \in JoinFrames :
              \/ After(t, {f})
              \/ After(t, {f, DetachFrame("reset", o, "unhook", observables[o])})
        BY <1>10, CallFramesAfter
    <2> DEFINE g == DetachFrame("reset", o, "unhook", observables[o])
    <2>3. \A h \in {f, g} : ~Holding(h) /\ ~Waiting(h)
        BY <1>q, <1>d DEF DetachKinds
    <2> HIDE DEF g
    <2>4. CASE After(t, {f})
        BY <2>1, <2>3, <2>4, CalmAfter
    <2>5. CASE After(t, {f, g})
        BY <2>1, <2>3, <2>5, CalmTwo
    <2> QED BY <2>2, <2>4, <2>5 DEF g
<1>11. ASSUME CopyObservables(t) \/ EndJoin(t) \/ Catch(t) \/ \E o \in Observers : Release(t, o)
       PROVE  Calm(t)
    <2>1. UNCHANGED updatesType
        BY <1>11 DEF CopyObservables, EndJoin, Catch, Release
    <2>2. \/ After(t, {}) \/ After(t, Frames(t))
          \/ \E f \in JoinFrames : After(t, {f})
        BY <1>11, DropFrames, CallFramesAfter
    <2>3. ASSUME NEW S, After(t, S), \A f \in S : f \in Frames(t) \/ f \in JoinFrames
          PROVE  Calm(t)
        BY <1>q, <2>1, <2>3, CalmAfter
    <2>4. CASE After(t, {}) \/ After(t, Frames(t))
        BY <2>3, <2>4
    <2>5. ASSUME NEW f \in JoinFrames, After(t, {f})
          PROVE  Calm(t)
        BY <2>3, <2>5
    <2> QED BY <2>2, <2>4, <2>5
<1>12. ASSUME NEW s \in Observables, JoinNext(t, s)
       PROVE  Calm(t)
    <2>1. UNCHANGED updatesType
        BY <1>12 DEF JoinNext
    <2>2. PICK f \in JoinFrames : \E p \in Observers : After(t, {f, RegisterFrame(p, s)})
        BY <1>12, CallFramesAfter
    <2>3. PICK p \in Observers : After(t, {f, RegisterFrame(p, s)})
        BY <2>2
    <2>4. \A h \in {f, RegisterFrame(p, s)} : ~Holding(h) /\ ~Waiting(h)
        BY <1>u, <1>q
    <2> QED BY <2>1, <2>3, <2>4, CalmTwo
<1>13. ASSUME NEW o \in Observers, Unregister(t, o)
       PROVE  Calm(t)
    <2>1. After(t, {DetachFrame("unregister", o, "unhook", observables[o])})
          /\ UNCHANGED updatesType
        BY <1>13, CallFramesAfter DEF Unregister
    <2> QED BY <1>d, <2>1, CalmAfter DEF DetachKinds
<1> QED BY <1>1, <1>2, <1>3, <1>4, <1>5, <1>6, <1>7, <1>8, <1>9, <1>10, <1>11, <1>12, <1>13
           DEF Step, Begin, Switches

\* A thread that only lets go of observers only destroys them.
LEMMA CollectorStep ==
    ASSUME Core, LinkTypes, NEW m, OneWorker(m), Collectors(m), NEW t \in Threads, t # m,
           Step(t) \/ Begin(t)
    PROVE  ~Switches(t) /\ \A f \in Frames(t)' : f.at = "destroy"
<1>s. StackTypes
    BY DEF Core
<1>1. ~Idle(t) => Top(t).at = "destroy" /\ \A f \in Rest(t) : f.at = "destroy"
    BY <1>s, TopAndRest DEF Collectors
<1>2. \A op \in May[t] : op = "release" \/ op = "leave"
    BY DEF OneWorker
<1>3. ~Switches(t)
    BY <1>1, <1>2 DEF Switches, LockAndCheck, Enable, Disable, At
<1>4. \/ Catch(t) \/ EndDetach(t) \/ \E o \in Observers : Release(t, o)
      \/ Deactivate(t) \/ ForgetDeferred(t) \/ Disconnect(t)
      \/ \E s \in Observables : Unhook(t, s)
    <2>1. CASE Step(t)
        BY <1>1, <2>1
           DEF Step, CheckEnabled, LockAndCheck, CallSlot, EndNotify, EnterProxy, RunUpdate,
               LeaveUpdate, UnlockProxy, CallDeferred, NoteFailure, EndEnable, Connect,
               CopyObservables, EndJoin, JoinNext, At, Enabling, Joining, Joins
    <2>2. CASE Begin(t)
        BY <1>2, <2>2
           DEF Begin, Notify, Disable, Enable, Register, UnregisterWith,
               RegisterWithObservables, Assign, CopyConstruct, Unregister
    <2> QED BY <2>1, <2>2
<1>5. ASSUME NEW S, After(t, S), \A f \in S : f.at = "destroy"
      PROVE  \A f \in Frames(t)' : f.at = "destroy"
    BY <1>5 DEF After, Fresh
<1>6. ASSUME Catch(t)
      PROVE  \A f \in Frames(t)' : f.at = "destroy"
    BY <1>5, <1>6, CallFramesAfter
<1>7. ASSUME EndDetach(t)
      PROVE  \A f \in Frames(t)' : f.at = "destroy"
    <2>1. ~Idle(t)
        BY <1>7 DEF EndDetach, Detaching, At
    <2>2. After(t, Rest(t))
        BY <1>7, DropFrames
    <2> QED BY <1>1, <1>5, <2>1, <2>2
<1>8. ASSUME NEW o \in Observers, Release(t, o)
      PROVE  \A f \in Frames(t)' : f.at = "destroy"
    <2>1. After(t, Frames(t))
        BY <1>8, DropFrames
    <2> QED BY <1>5, <2>1 DEF Collectors
<1>9. ASSUME \/ Deactivate(t) \/ ForgetDeferred(t) \/ Disconnect(t)
             \/ \E s \in Observables : Unhook(t, s)
      PROVE  \A f \in Frames(t)' : f.at = "destroy"
    <2>1. ~Idle(t)
        BY <1>9, DetachFramesAfter
    <2>2. PICK f \in DetachFrames : f.at = Top(t).at /\ After(t, {f} \cup Rest(t))
        BY <1>9, DetachFramesAfter
    <2>3. \A g \in {f} \cup Rest(t) : g.at = "destroy"
        BY <1>1, <2>1, <2>2
    <2> QED BY <1>5, <2>2, <2>3
<1> QED BY <1>3, <1>4, <1>6, <1>7, <1>8, <1>9

LEMMA SoleStep ==
    ASSUME Core, LinkTypes, NEW m, OneWorker(m), Sole(m), [Next]_vars
    PROVE  Sole(m)'
<1>1. CASE UNCHANGED vars
    BY <1>1 DEF vars, Sole, Collectors, Frames
<1>2. ASSUME NEW t \in Threads, Step(t) \/ Begin(t), t # m
      PROVE  Sole(m)'
    <2>1. ~Switches(t) /\ \A f \in Frames(t)' : f.at = "destroy"
        BY <1>2, CollectorStep DEF Sole
    <2>2. Calm(t)
        BY <1>2, <2>1, CalmSteps
    <2>3. m \in Threads
        BY DEF OneWorker
    <2> QED BY <1>2, <2>1, <2>2, <2>3 DEF Sole, Collectors, Calm
<1>3. ASSUME Step(m) \/ Begin(m)
      PROVE  Sole(m)'
    <2>1. m \in Threads
        BY DEF OneWorker
    <2>2. CASE Calm(m)
        <3>1. \A f \in Frames(m)' : Holding(f) => updatesType = "enabled"
            BY <2>2 DEF Sole, Calm
        <3>2. \A f \in Frames(m)' : Waiting(f) => updatesType # "enabled"
            BY <2>2 DEF Sole, Calm
        <3> QED BY <2>2, <3>1, <3>2 DEF Sole, Collectors, Calm
    <2>3. ASSUME NEW S, After(m, S),
                 \A f \in S : /\ Holding(f) => updatesType' = "enabled"
                              /\ Waiting(f) => updatesType' # "enabled"
          PROVE  Sole(m)'
        <3>1. \A f \in Frames(m)' : f \in S \/ (~Holding(f) /\ ~Waiting(f))
            BY <2>3 DEF After, Fresh, Holding, Waiting
        <3>2. \A u \in Threads \ {m} : Frames(u)' = Frames(u)
            BY <2>3 DEF After
        <3> QED BY <2>3, <3>1, <3>2 DEF Sole, Collectors
    <2>4. CASE LockAndCheck(m)
        <3>1. UNCHANGED updatesType /\ ~Idle(m)
            BY <2>4 DEF LockAndCheck, At
        <3>2. \A f \in Rest(m) : /\ Holding(f) => updatesType = "enabled"
                                 /\ Waiting(f) => updatesType # "enabled"
            BY <2>1, <3>1, TopAndRest DEF Core, Sole
        <3>3. CASE After(m, Rest(m))
            BY <2>3, <3>1, <3>2, <3>3
        <3>4. ASSUME NEW f \in NotifyFrames, f.pc = "emit", updatesType = "enabled",
                     After(m, {f} \cup Rest(m))
              PROVE  Sole(m)'
            <4>1. ~Waiting(f)
                BY <3>4 DEF Waiting, NotifyFrames, DetachKinds
            <4> QED BY <2>3, <3>1, <3>2, <3>4, <4>1
        <3> QED BY <2>1, <2>4, <3>3, <3>4, NotifyFramesAfter
    <2>5. CASE Enable(m)
        <3>1. After(m, {EnableFrame(deferredObservers)}) /\ updatesType' = "enabled"
            BY <2>1, <2>5, NotifyFramesAfter DEF Enable
        <3>2. ~Waiting(EnableFrame(deferredObservers))
            BY DEF EnableFrame, Waiting, DetachKinds
        <3> QED BY <2>3, <3>1, <3>2
    <2>6. CASE \E deferred \in BOOLEAN : Disable(m, deferred)
        <3>1. After(m, {})
            BY <2>1, <2>6, CallFramesAfter
        <3> QED BY <2>3, <3>1
    <2> QED BY <1>3, <2>1, <2>2, <2>4, <2>5, <2>6, CalmSteps DEF Switches
<1> QED BY <1>1, <1>2, <1>3 DEF Next

LEMMA SoleNoDeadlock ==
    ASSUME Core, NEW m, OneWorker(m), Sole(m)
    PROVE  NoDeadlock
<1>s. StackTypes /\ m \in Threads
    BY DEF Core, OneWorker
<1>1. ASSUME NEW t \in Threads
      PROVE  HoldsSettings(t) <=> \E f \in Frames(t) : Holding(f)
    BY DEF HoldsSettings, Holding
<1>2. ASSUME NEW u \in Threads \ {m}
      PROVE  /\ ~HoldsSettings(u) /\ \A o \in Observers : ~HoldsProxy(u, o)
             /\ \A o \in Observers : Alive(o) => ~HoldsObserver(u, o)
    <2>1. \A f \in Frames(u) : f.at = "destroy" /\ ~Alive(f.o)
        BY DEF Sole, Collectors, Core
    <2> QED BY <2>1 DEF HoldsSettings, HoldsProxy, HoldsObserver
\* the worker waits for nobody
<1>3. ASSUME NEW u \in Threads, WaitsFor(m, u)
      PROVE  FALSE
    <2>1. CASE (At(m, "notify", "wait") \/ Detaching(m, "forget")) /\ HoldsSettings(u)
        <3>1. u = m /\ updatesType = "enabled"
            BY <1>1, <1>2, <2>1 DEF Sole
        <3>2. ~Idle(m) /\ Waiting(Top(m))
            BY <2>1 DEF Waiting, Detaching, At, DetachKinds
        <3> QED BY <1>s, <3>1, <3>2, TopFrame DEF Sole
    <2>2. CASE (At(m, "update", "enter") \/ At(m, "destroy", "deactivate"))
                  /\ u # m /\ HoldsProxy(u, Top(m).o)
        <3>1. Top(m).o \in Observers
            BY <1>s, <2>2, TopFrame, FrameKinds DEF At, UpdateFrames, DetachFrames
        <3> QED BY <1>2, <2>2, <3>1
    <2>3. CASE /\ u # m
               /\ \/ Joining(m, "copy") /\ HoldsObserver(u, Top(m).p)
                  \/ Joining(m, "join") /\ HoldsObserver(u, Top(m).o)
        <3>1. Top(m) \in JoinFrames /\ Top(m) \in Frames(m)
            BY <1>s, <2>3, TopFrame, FrameKinds DEF Joining
        <3>2. /\ Top(m).o \in Observers /\ Top(m).p \in Observers
              /\ Pins(Top(m), Top(m).o) /\ Pins(Top(m), Top(m).p)
            BY <3>1 DEF JoinFrames, Pins
        <3>3. Alive(Top(m).o) /\ Alive(Top(m).p)
            BY <1>s, <3>1, <3>2, Unchanged
        <3> QED BY <1>2, <2>3, <3>2, <3>3
    <2> QED BY <1>3, <2>1, <2>2, <2>3 DEF WaitsFor
\* and the others wait for nobody else
<1>4. ASSUME NEW t \in Threads \ {m}, NEW u \in Threads, WaitsFor(t, u)
      PROVE  u = m
    <2>1. ~Idle(t) => Top(t).at = "destroy" /\ Top(t) \in DetachFrames
        BY <1>s, TopFrame, FrameKinds DEF Sole, Collectors
    <2>2. \/ HoldsSettings(u)
          \/ ~Idle(t) /\ HoldsProxy(u, Top(t).o)
        BY <1>4, <2>1 DEF WaitsFor, At, Joining, Joins
    <2>3. ~Idle(t) => Top(t).o \in Observers
        BY <2>1 DEF DetachFrames
    <2> QED BY <1>2, <2>2, <2>3
<1>5. ASSUME NEW D \in (SUBSET Threads) \ {{}}, \A t \in D : \E u \in D : WaitsFor(t, u)
      PROVE  FALSE
    <2>1. PICK t : t \in D
        BY <1>5
    <2>2. PICK u \in D : WaitsFor(t, u)
        BY <1>5, <2>1
    <2>3. m \in D
        BY <1>4, <2>1, <2>2, <1>5
    <2>4. PICK v \in D : WaitsFor(m, v)
        BY <1>5, <2>3
    <2> QED BY <1>3, <1>5, <2>4
<1> QED BY <1>5 DEF NoDeadlock

\* If one thread works and the others only let go of observers, threads never wait for
\* each other's locks in a circle, nor one for itself (userconfig.hpp:75-78): the others
\* never hold the settings, nor the proxy or the mutex of an observer that is alive, and
\* the worker does not hold the settings when it waits for them (observable.cpp:135-169).
THEOREM WorkerNeverBlocked ==
    ASSUME NEW m, OneWorker(m)
    PROVE  Spec => []NoDeadlock
<1>1. Init => Core /\ LinkTypes /\ Sole(m)
    <2>1. Init => \A t \in Threads : Frames(t) = {}
        BY EmptyStack DEF Init, Frames
    <2> QED BY <2>1, CoreInit DEF Sole, Collectors, OneWorker
<1>2. Core /\ LinkTypes /\ Sole(m) /\ [Next]_vars => (Core /\ LinkTypes /\ Sole(m))'
    BY CoreStep, LinksStep, SoleStep
<1>3. Core /\ Sole(m) => NoDeadlock
    BY SoleNoDeadlock
<1> QED BY <1>1, <1>2, <1>3, PTL DEF Spec

-----------------------------------------------------------------------------
(***************************************************************************)
(* Nobody is forgotten.  Each observer with a deferred notification is     *)
(* still vouched for by something: the deferred set, the loop of           *)
(* enableUpdates(), the update() under way, or a call that takes all its   *)
(* registrations away.                                                     *)
(***************************************************************************)
Same(f, g) == f.at = g.at /\ f.o = g.o /\ f.all = g.all

\* A step of t leaves the observables alone, and no call that takes registrations away
\* begins or ends, but for destructors that begin.
Steady(t) ==
    /\ UNCHANGED observables
    /\ \A u \in Threads \ {t} : Frames(u)' = Frames(u)
    /\ \A f \in Frames(t)' : f.at \in DetachKinds =>
          Fresh(f)' \/ \E g \in Frames(t) : Same(f, g)
    /\ \A g \in Frames(t) : g.at \in DetachKinds => \E f \in Frames(t)' : Same(f, g)

\* What was referred to is so after the step, or is being destroyed.
Remains == \A o \in Observers : Alive(o) => Alive(o)' \/ Destroying(o)'

LEMMA QuietSteady ==
    ASSUME NEW t \in Threads, UNCHANGED objects, QuietFrames(t)
    PROVE  Steady(t) /\ Remains
<1>1. UNCHANGED observables /\ UNCHANGED owned
    BY DEF objects
<1>2. Remains
    BY <1>1, StillAlive DEF QuietFrames, Remains
<1>3. \A k \in DetachKinds : k \in LinkKinds
    BY DEF DetachKinds, LinkKinds
<1>4. /\ \A f \in Frames(t)' : f.at \in DetachKinds => \E g \in Frames(t) : Same(f, g)
      /\ \A g \in Frames(t) : g.at \in DetachKinds => \E f \in Frames(t)' : Same(f, g)
    BY <1>3 DEF QuietFrames, Same
<1> QED BY <1>1, <1>2, <1>4 DEF Steady, QuietFrames

LEMMA AfterSteady ==
    ASSUME NEW t \in Threads, NEW S, After(t, S), UNCHANGED observables,
           \A f \in S : f.at \in DetachKinds => \E g \in Frames(t) : Same(f, g),
           \A g \in Frames(t) : g.at \in DetachKinds => \E f \in S : Same(f, g)
    PROVE  Steady(t)
BY DEF After, Steady

LEMMA DetachSteady ==
    ASSUME Core, NEW t \in Threads,
           \/ Deactivate(t) \/ ForgetDeferred(t) \/ Disconnect(t)
           \/ \E s \in Observables : Unhook(t, s)
    PROVE  Steady(t) /\ Remains
<1>1. ~Idle(t) /\ Top(t) \in DetachFrames /\ UNCHANGED <<owned, observables>>
    BY DetachFramesAfter DEF Deactivate, ForgetDeferred, Disconnect, Unhook, objects
<1>2. PICK f \in DetachFrames : /\ f.at = Top(t).at /\ f.o = Top(t).o /\ f.all = Top(t).all
                                /\ After(t, {f} \cup Rest(t))
    BY DetachFramesAfter
<1>3. Frames(t) = {Top(t)} \cup Rest(t)
    BY <1>1, TopAndRest DEF Core
<1>4. Steady(t)
    <2> DEFINE S == {f} \cup Rest(t)
    <2>1. After(t, S)
        BY <1>2
    <2>2. /\ \A h \in S : h.at \in DetachKinds => \E g \in Frames(t) : Same(h, g)
          /\ \A g \in Frames(t) : g.at \in DetachKinds => \E h \in S : Same(h, g)
        BY <1>2, <1>3 DEF Same
    <2> HIDE DEF S
    <2> QED BY <1>1, <2>1, <2>2, AfterSteady
<1>5. \A g \in Frames(t) : \A o \in Observers : Pins(g, o) =>
          g \in Frames(t)' \/ \E h \in Frames(t)' : Pins(h, o)
    <2>1. {f} \cup Rest(t) \subseteq Frames(t)'
        BY <1>2 DEF After
    <2>2. \A o \in Observers : Pins(Top(t), o) => Pins(f, o)
        BY <1>1, <1>2 DEF Pins, DetachFrames, Joins
    <2> QED BY <1>3, <2>1, <2>2
<1>6. \A u \in Threads \ {t} : Frames(u)' = Frames(u)
    BY <1>2 DEF After
<1>7. Remains
    BY <1>1, <1>5, <1>6, StillAlive DEF Remains
<1> QED BY <1>4, <1>7

\* Calls that begin without taking registrations away.
LEMMA CallSteady ==
    ASSUME Core, NEW t \in Threads,
           \/ \E o \in Observers, s \in Observables : Register(t, o, s)
           \/ \E o, p \in Observers : CopyConstruct(t, o, p)
           \/ \E s \in Observables : JoinNext(t, s)
    PROVE  Steady(t) /\ Remains
<1>s. StackTypes
    BY DEF Core
<1>u. UNCHANGED <<owned, observables>>
    BY DEF Register, CopyConstruct, JoinNext, objects
<1>k. /\ \A f \in JoinFrames : f.at \notin DetachKinds
      /\ \A o, s : RegisterFrame(o, s).at \notin DetachKinds
    BY DEF JoinFrames, Joins, RegisterFrame, DetachKinds
<1>1. CASE \/ \E o \in Observers, s \in Observables : Register(t, o, s)
           \/ \E o, p \in Observers : CopyConstruct(t, o, p)
    <2>1. Frames(t) = {}
        BY <1>1, EmptyStack DEF Register, CopyConstruct, Idle, Frames
    <2>2. PICK f : f.at \notin DetachKinds /\ After(t, {f})
        BY <1>1, <1>k, CallFramesAfter
    <2>3. Steady(t)
        <3> DEFINE S == {f}
        <3>1. After(t, S) /\ \A h \in S : h.at \notin DetachKinds
            BY <2>2
        <3> HIDE DEF S
        <3> QED BY <1>u, <2>1, <3>1, AfterSteady
    <2>4. \A u \in Threads \ {t} : Frames(u)' = Frames(u)
        BY <2>2 DEF After
    <2>5. Remains
        BY <1>u, <2>1, <2>4, StillAlive DEF Remains
    <2> QED BY <2>3, <2>5
<1>2. ASSUME NEW s \in Observables, JoinNext(t, s)
      PROVE  Steady(t) /\ Remains
    <2>1. ~Idle(t) /\ Top(t) \in JoinFrames
        BY <1>s, <1>2, TopFrame, FrameKinds DEF JoinNext, Joining
    <2>2. Frames(t) = {Top(t)} /\ Rest(t) = {}
        BY <1>s, <2>1, TopAndRest DEF JoinFrames, BottomKinds
    <2> DEFINE f == [Top(t) EXCEPT !.todo = @ \ {s}]
               g == RegisterFrame(Top(t).o, s)
    <2>3. f \in JoinFrames /\ \A o \in Observers : Pins(Top(t), o) => Pins(f, o)
        BY <2>1 DEF JoinFrames, Pins
    <2>4. g \in Frame /\ f \in Frame
        BY <2>1, <2>3 DEF RegisterFrame, RegisterFrames, JoinFrames, Frame
    <2>5. stack' = [stack EXCEPT ![t] = <<g, f>> \o Tail(@)]
        BY <1>2 DEF JoinNext
    <2>6. f.at \notin DetachKinds /\ g.at \notin DetachKinds /\ Top(t).at \notin DetachKinds
        BY <1>k, <2>1, <2>3
    <2> HIDE DEF f, g
    <2>a. /\ Frames(t)' = {f, g} \cup Rest(t)
          /\ \A u \in Threads \ {t} : Frames(u)' = Frames(u)
        BY <1>s, <2>1, <2>4, <2>5, FramesAfter
    <2>7. Frames(t)' = {f, g} /\ \A u \in Threads \ {t} : Frames(u)' = Frames(u)
        BY <2>2, <2>a
    <2>8. Steady(t)
        BY <1>u, <2>2, <2>6, <2>7 DEF Steady
    <2>9. Remains
        BY <1>u, <2>2, <2>3, <2>7, StillAlive DEF Remains
    <2> QED BY <2>8, <2>9
<1> QED BY <1>1, <1>2

LEMMA DropSteady ==
    ASSUME Core, NEW t \in Threads,
           LeaveUpdate(t) \/ EndJoin(t) \/ \E o \in Observers : Release(t, o)
    PROVE  Steady(t) /\ Remains
<1>s. StackTypes
    BY DEF Core
<1>1. Remains
    BY DropFrames DEF Remains
<1>2. CASE LeaveUpdate(t)
    <2>1. UNCHANGED observables /\ ~Idle(t) /\ Top(t).at = "update"
        BY <1>2, DropFrames DEF LeaveUpdate, At
    <2>2. PICK f \in Frame : f.at = "update" /\ After(t, {f} \cup Rest(t))
        BY <1>2, DropFrames
    <2>3. Frames(t) = {Top(t)} \cup Rest(t)
        BY <1>s, <2>1, TopAndRest
    <2> DEFINE S == {f} \cup Rest(t)
    <2>4. After(t, S)
        BY <2>2
    <2>5. /\ \A h \in S : h.at \in DetachKinds => \E g \in Frames(t) : Same(h, g)
          /\ \A g \in Frames(t) : g.at \in DetachKinds => \E h \in S : Same(h, g)
        BY <2>1, <2>2, <2>3 DEF Same, DetachKinds
    <2> HIDE DEF S
    <2> QED BY <1>1, <2>1, <2>4, <2>5, AfterSteady
<1>3. CASE EndJoin(t)
    <2>1. UNCHANGED observables /\ After(t, {}) /\ ~Idle(t) /\ Top(t).at \in Joins
        BY <1>3, DropFrames DEF EndJoin, Joining
    <2>2. Frames(t) = {Top(t)} /\ Top(t).at \notin DetachKinds
        BY <1>s, <2>1, TopAndRest DEF BottomKinds, Joins, DetachKinds
    <2> QED BY <1>1, <2>1, <2>2, AfterSteady
<1>4. ASSUME NEW o \in Observers, Release(t, o)
      PROVE  Steady(t)
    <2>1. UNCHANGED observables /\ After(t, Frames(t))
        BY <1>4, DropFrames
    <2> QED BY <2>1, AfterSteady DEF Same
<1> QED BY <1>1, <1>2, <1>3, <1>4

\* The steps that begin or end a call that takes registrations away, or change
\* what an observer observes.
Alters(t) ==
    \/ Connect(t) \/ CopyObservables(t) \/ EndDetach(t)
    \/ \E o \in Observers : \/ Unregister(t, o)
                            \/ \E s \in Observables : UnregisterWith(t, o, s)
                            \/ \E p \in Observers : Assign(t, o, p)

LEMMA SteadySteps ==
    ASSUME Core, LinkTypes, NEW t \in Threads, Step(t) \/ Begin(t)
    PROVE  Remains /\ (Alters(t) \/ Steady(t))
<1>1. ASSUME \/ \E s \in Sources : Notify(t, s)
             \/ CheckEnabled(t) \/ LockAndCheck(t) \/ CallSlot(t) \/ EndNotify(t)
             \/ Enable(t) \/ CallDeferred(t) \/ NoteFailure(t) \/ EndEnable(t)
             \/ EnterProxy(t) \/ RunUpdate(t) \/ UnlockProxy(t)
             \/ Disable(t, TRUE) \/ Disable(t, FALSE) \/ Catch(t)
             \/ \E o, p \in Observers : RegisterWithObservables(t, o, p)
      PROVE  Remains /\ Steady(t)
    <2>1. UNCHANGED <<links, objects>> /\ QuietFrames(t)
        BY <1>1, NotifyQuiet, UpdateQuiet, OtherQuiet
    <2> QED BY <2>1, QuietSteady
<1>2. ASSUME \E o \in Observers : \/ Unregister(t, o)
                                  \/ \E s \in Observables : UnregisterWith(t, o, s)
                                  \/ \E p \in Observers : Assign(t, o, p)
      PROVE  Remains
    <2>1. UNCHANGED <<owned, observables>> /\ Frames(t) = {}
        BY <1>2, EmptyStack DEF Unregister, UnregisterWith, Assign, objects, Idle, Frames
    <2>2. \A u \in Threads \ {t} : Frames(u)' = Frames(u)
        BY <1>2, CallFramesAfter DEF After
    <2> QED BY <2>1, <2>2, StillAlive DEF Remains
<1>3. Connect(t) \/ CopyObservables(t) \/ EndDetach(t) => Remains
    BY DropFrames DEF Remains
<1> QED BY <1>1, <1>2, <1>3, DetachSteady, CallSteady, DropSteady DEF Step, Begin, Alters

\* No frame below the one that runs is lost.
LEMMA RestStays ==
    ASSUME Core, LinkTypes, NEW t \in Threads, Step(t) \/ Begin(t), ~Idle(t)
    PROVE  Rest(t) \subseteq Frames(t)'
<1>s. StackTypes
    BY DEF Core
<1>1. ASSUME NEW S, After(t, S), Rest(t) \subseteq S
      PROVE  Rest(t) \subseteq Frames(t)'
    BY <1>1 DEF After
<1>2. CASE Top(t).at \in BottomKinds
    BY <1>s, <1>2, TopAndRest
<1>3. CASE CheckEnabled(t) \/ LockAndCheck(t) \/ CallSlot(t) \/ EndNotify(t)
           \/ CallDeferred(t) \/ NoteFailure(t) \/ EndEnable(t)
    BY <1>1, <1>3, NotifyFramesAfter
<1>4. CASE EnterProxy(t) \/ RunUpdate(t) \/ UnlockProxy(t)
    BY <1>1, <1>4, UpdateFramesAfter
<1>5. CASE LeaveUpdate(t) \/ Connect(t) \/ EndDetach(t)
    BY <1>1, <1>5, DropFrames
<1>6. CASE \/ Deactivate(t) \/ ForgetDeferred(t) \/ Disconnect(t)
           \/ \E s \in Observables : Unhook(t, s)
    BY <1>1, <1>6, DetachFramesAfter
<1>7. CASE CopyObservables(t) \/ EndJoin(t) \/ \E s \in Observables : JoinNext(t, s)
    BY <1>2, <1>7 DEF CopyObservables, EndJoin, JoinNext, Joining, BottomKinds
<1>8. ~Catch(t) /\ ~Begin(t)
    BY DEF Catch, Begin, Notify, Disable, Enable, Register, UnregisterWith,
           RegisterWithObservables, Assign, CopyConstruct, Unregister, Release
<1> QED BY <1>3, <1>4, <1>5, <1>6, <1>7, <1>8 DEF Step

Whole(f) == observables[f.o] = f.all

\* The frame calls update() of o, or will.
Tells(f, o) ==
    \/ f.at = "enable" /\ o \in f.todo
    \/ f.at = "update" /\ f.o = o /\ f.pc \in {"enter", "body"}

Owing(m, o) ==
    \/ Destroying(o)
    \/ \E f \in Frames(m) : f.at \in {"unregister", "reset"} /\ f.o = o /\ Whole(f)
    \/ o \in deferredObservers /\ updatesType # "enabled"
    \/ \E f \in Frames(m) : Tells(f, o)

Attached == \A o \in Observers : Alive(o) => active[o]
\* A call that takes registrations away takes all, if it is a destructor or updates
\* are deferred.
Exact(m) ==
    /\ \A t \in Threads : \A f \in Frames(t) : f.at = "destroy" =>
          Whole(f) \/ (observables[f.o] = {} /\ f.o \notin owed)
    /\ updatesType = "deferred" =>
          \A f \in Frames(m) : f.at \in {"unregister", "reset"} => Whole(f)
Vouched(m) ==
    \A o \in owed : o \in Observers /\ (Alive(o) \/ Destroying(o)) /\ Owing(m, o)

LEMMA TalesKept ==
    ASSUME Core, LinkTypes, Attached, NEW m \in Threads, Vouched(m),
           Step(m) \/ Begin(m), NEW f \in Frames(m), NEW o \in owed', Tells(f, o)
    PROVE  Destroying(o)' \/ \E g \in Frames(m)' : Tells(g, o)
<1>s. StackTypes
    BY DEF Core
<1>i. ~Idle(m)
    BY EmptyStack DEF Idle, Frames
<1>1. CASE f \in Rest(m)
    BY <1>i, <1>1, RestStays
<1>2. CASE f = Top(m) /\ f.at = "enable"
    <2>1. f \in EnableFrames /\ o \in f.todo
        BY <1>s, <1>i, <1>2, TopFrame, FrameKinds DEF Tells, EnableFrames
    <2>2. CallDeferred(m) \/ NoteFailure(m) \/ EndEnable(m)
        BY <1>i, <1>2
           DEF Step, Begin, CheckEnabled, LockAndCheck, CallSlot, EndNotify, EnterProxy,
               RunUpdate, LeaveUpdate, UnlockProxy, Catch, Connect, CopyObservables, EndJoin,
               JoinNext, Deactivate, Unhook, ForgetDeferred, Disconnect, EndDetach, At,
               Joining, Joins, Detaching, Notify, Disable, Enable, Register, UnregisterWith,
               RegisterWithObservables, Assign, CopyConstruct, Unregister, Release
    <2>3. CASE CallDeferred(m)
        <3>1. PICK g \in EnableFrames : \E p \in Top(m).todo :
                 /\ g.todo = Top(m).todo \ {p}
                 /\ After(m, {g, UpdateFrame(p)} \cup Rest(m))
            BY <2>3, NotifyFramesAfter
        <3>2. PICK p \in Top(m).todo :
                 /\ g.todo = Top(m).todo \ {p}
                 /\ After(m, {g, UpdateFrame(p)} \cup Rest(m))
            BY <3>1
        <3>3. g \in Frames(m)' /\ UpdateFrame(p) \in Frames(m)'
            BY <3>2 DEF After
        <3>4. Tells(g, o) \/ Tells(UpdateFrame(p), o)
            BY <1>2, <2>1, <3>2 DEF Tells, UpdateFrame, EnableFrames
        <3> QED BY <3>3, <3>4
    <2>4. CASE NoteFailure(m)
        <3>1. PICK g \in EnableFrames :
                 g.todo = Top(m).todo /\ After(m, {g} \cup Rest(m))
            BY <2>4, NotifyFramesAfter
        <3> QED BY <1>2, <2>1, <3>1 DEF After, Tells, EnableFrames
    <2>5. ~EndEnable(m)
        BY <1>2, <2>1 DEF EndEnable
    <2> QED BY <2>2, <2>3, <2>4, <2>5
<1>3. CASE f = Top(m) /\ f.at = "update"
    <2>1. f \in UpdateFrames /\ f.o = o /\ o \in Observers /\ f.pc \in {"enter", "body"}
        BY <1>s, <1>i, <1>3, TopFrame, FrameKinds DEF Tells, UpdateFrames
    <2>2. EnterProxy(m) \/ RunUpdate(m)
        BY <1>i, <1>3, <2>1
           DEF Step, Begin, CheckEnabled, LockAndCheck, CallSlot, EndNotify, LeaveUpdate,
               UnlockProxy, CallDeferred, NoteFailure, EndEnable, Enabling, Catch, Connect,
               CopyObservables, EndJoin, JoinNext, Deactivate, Unhook, ForgetDeferred,
               Disconnect, EndDetach, At, Joining, Joins, Detaching, Notify, Disable, Enable,
               Register, UnregisterWith, RegisterWithObservables, Assign, CopyConstruct,
               Unregister, Release
    <2>3. ~RunUpdate(m)
        BY <1>3, <2>1 DEF RunUpdate
    <2>4. EnterProxy(m) /\ owed' = owed
        BY <2>2, <2>3 DEF EnterProxy
    <2>5. CASE ~ (active[o] /\ (Unmanaged(o) \/ Alive(o)))
        <3>1. ~Alive(o)
            BY <2>1, <2>5 DEF Attached
        <3>2. Destroying(o)
            BY <2>4, <3>1 DEF Vouched
        <3>a. PICK u \in Threads : \E g \in Frames(u) : g.at = "destroy" /\ g.o = o
            BY <3>2 DEF Destroying
        <3>3. PICK g \in Frames(u) : g.at = "destroy" /\ g.o = o
            BY <3>a
        <3>4. g \in Frames(u)'
            <4>1. u # m => Frames(u)' = Frames(u)
                BY <2>4, UpdateFramesAfter DEF After
            <4>2. u = m => g \in Rest(m)
                BY <1>s, <1>i, <1>3, <3>3, TopAndRest
            <4> QED BY <1>i, <4>1, <4>2, RestStays
        <3> QED BY <3>3, <3>4 DEF Destroying
    <2>6. CASE \E g \in UpdateFrames :
                   g.o = o /\ g.pc = "body" /\ After(m, {g} \cup Rest(m))
        BY <2>6 DEF After, Tells, UpdateFrames
    <2>7. \/ ~ (active[o] /\ (Unmanaged(o) \/ Alive(o)))
          \/ \E g \in UpdateFrames :
                g.o = o /\ g.pc = "body" /\ After(m, {g} \cup Rest(m))
        BY <1>3, <2>1, <2>4, UpdateFramesAfter
    <2> QED BY <2>5, <2>6, <2>7
<1> QED BY <1>s, <1>i, <1>1, <1>2, <1>3, TopAndRest DEF Tells

\* An observer that is alive has an active proxy.
LEMMA AttachedStep ==
    ASSUME Core, Kept, Attached, NEW t \in Threads, Step(t) \/ Begin(t)
    PROVE  Attached'
<1> SUFFICES ASSUME NEW o \in Observers, Alive(o)' PROVE active'[o]
    BY DEF Attached
<1>1. Alive(o) \/ o \in unborn \ unborn'
    BY DEF Kept
<1>2. active \in [Observers -> BOOLEAN]
    BY DEF Core, ObjectTypes
<1>3. ASSUME NEW p \in Observers, NEW q \in Observers, CopyConstruct(t, p, q)
      PROVE  active'[o]
    BY <1>1, <1>2, <1>3 DEF CopyConstruct, Attached
<1>4. CASE Deactivate(t)
    <2>1. /\ Top(t).at = "destroy" /\ UNCHANGED unborn
          /\ active' = [active EXCEPT ![Top(t).o] = FALSE] /\ ~Idle(t)
        BY <1>4 DEF Deactivate, At
    <2>2. ~Alive(Top(t).o)
        BY <2>1, TopFrame DEF Core
    <2> QED BY <1>1, <1>2, <2>1, <2>2 DEF Attached
<1>5. \/ Deactivate(t) \/ UNCHANGED <<active, unborn>>
      \/ \E p, q \in Observers : CopyConstruct(t, p, q)
    BY DEF Step, Begin, Notify, CheckEnabled, LockAndCheck, CallSlot, EndNotify, EnterProxy,
           RunUpdate, LeaveUpdate, UnlockProxy, Disable, Enable, CallDeferred, NoteFailure,
           EndEnable, Catch, Register, Connect, Unregister, UnregisterWith,
           RegisterWithObservables, Assign, CopyObservables, JoinNext, EndJoin, Release,
           Unhook, ForgetDeferred, Disconnect, EndDetach, proxies
<1> QED BY <1>1, <1>3, <1>4, <1>5 DEF Attached

\* Only a deferred notification flags observers, those of its observable.
LEMMA OwedGrows ==
    ASSUME NEW t \in Threads, Step(t) \/ Begin(t)
    PROVE  \/ owed' \subseteq owed
           \/ /\ LockAndCheck(t) /\ owed' = owed \cup observers[Top(t).s]
              /\ updatesType = "deferred"
              /\ deferredObservers' = deferredObservers \cup observers[Top(t).s]
BY DEF Step, Begin, Notify, CheckEnabled, LockAndCheck, CallSlot, EndNotify, EnterProxy,
       RunUpdate, LeaveUpdate, UnlockProxy, Disable, Enable, CallDeferred, NoteFailure,
       EndEnable, Catch, Register, Connect, Unregister, UnregisterWith,
       RegisterWithObservables, Assign, CopyConstruct, CopyObservables, JoinNext, EndJoin,
       Release, Deactivate, Unhook, ForgetDeferred, Disconnect, EndDetach

\* An observable knows observers that are alive, or that their destructor is still to
\* take from it.
LEMMA Flagged ==
    ASSUME Core, AllLinked, NEW s \in Observables, NEW o \in Observers, o \in observers[s]
    PROVE  /\ Alive(o) \/ Destroying(o)
           /\ observables[o] = {} => ~Destroying(o)
<1>1. Told(o)
    BY DEF AllLinked, Linked
<1>2. \/ s \in observables[o]
      \/ \E t \in Threads : \E f \in Ours(t, o) : f.at = "register" /\ f.s = s
    BY <1>1 DEF Told
<1>3. ASSUME ~Alive(o)
      PROVE  s \in observables[o]
    BY <1>2, <1>3, OursPin
<1>4. Destroying(o) => ~Alive(o)
    BY DEF Destroying, Core
<1> QED BY <1>1, <1>3, <1>4 DEF Told

\* Steps that change what an observer observes leave the calls that are taking
\* registrations away from others alone.
Ends(t, f) == EndDetach(t) /\ ~Idle(t) /\ f = Top(t)
Reduces(t) == Connect(t) \/ CopyObservables(t) \/ EndDetach(t)

LEMMA ReducedFrames ==
    ASSUME Core, AllLinked, NEW t \in Threads, Reduces(t)
    PROVE  /\ ~Idle(t) /\ Rest(t) \subseteq Frames(t)'
           /\ \A u \in Threads \ {t} : Frames(u)' = Frames(u)
           /\ \A u \in Threads : \A f \in Frames(u)' : f.at \in DetachKinds =>
                 \/ Fresh(f)'
                 \/ f \in Frames(u) /\ observables'[f.o] = observables[f.o]
                 \/ f \in Frames(u) /\ f.at = "destroy" /\ EndDetach(t)
                    /\ Top(t).at = "destroy" /\ f.o = Top(t).o
           /\ \A u \in Threads : \A f \in Frames(u) : f.at \in DetachKinds =>
                 f \in Frames(u)' \/ Ends(t, f)
<1>s. StackTypes /\ observables \in [Observers -> SUBSET Observables]
    BY DEF Core, ObjectTypes
<1>d. ASSUME NEW u \in Threads, NEW f \in Frames(u), f.at \in DetachKinds
      PROVE  f \in DetachFrames /\ f.o \in Observers /\ f \in Ours(u, f.o)
    BY <1>s, <1>d, TypedFrames, FrameKinds DEF DetachKinds, DetachFrames, Ours, LinkKinds
<1>1. CASE Connect(t)
    <2>1. /\ ~Idle(t) /\ Top(t).at = "register" /\ After(t, Rest(t))
          /\ observables' = [observables EXCEPT ![Top(t).o] = @ \cup {Top(t).s}]
        BY <1>1, DropFrames DEF Connect
    <2> DEFINE o == Top(t).o
    <2>2. /\ Top(t) \in RegisterFrames /\ Top(t) \in Frames(t) /\ o \in Observers
          /\ Top(t) \in Ours(t, o) /\ o \in Uses(Top(t)) /\ Pins(Top(t), o)
        BY <1>s, <2>1, TopFrame, FrameKinds DEF RegisterFrames, Ours, LinkKinds, Uses, Pins
    <2>3. Alive(o)
        BY <2>2, Unchanged
    <2>4. ASSUME NEW u \in Threads, NEW f \in Frames(u), f.at \in DetachKinds
          PROVE  f.o # o
        <3> SUFFICES ASSUME f.o = o PROVE FALSE
            OBVIOUS
        <3>1. f \in Ours(u, o)
            BY <1>d, <2>4
        <3>2. u = t
            BY <2>2, <3>1, Alone
        <3>3. f.at = "destroy"
            BY <2>1, <2>2, <2>4, <3>1, <3>2 DEF AllLinked, Linked, Placed, DetachKinds
        <3> QED BY <2>3, <3>3 DEF Core
    <2>5. Frames(t) = {Top(t)} \cup Rest(t) /\ Top(t).at \notin DetachKinds
        BY <1>s, <2>1, TopAndRest DEF DetachKinds
    <2>6. ASSUME NEW u \in Threads, NEW f \in Frames(u), f.at \in DetachKinds
          PROVE  observables'[f.o] = observables[f.o]
        BY <1>s, <2>1, <2>4, <2>6
    <2> QED BY <2>1, <2>5, <2>6 DEF After
<1>2. CASE CopyObservables(t)
    <2>1. ~Idle(t) /\ Top(t).at \in Joins /\ Top(t).pc = "copy"
        BY <1>2 DEF CopyObservables, Joining
    <2>2. PICK g \in JoinFrames :
             /\ After(t, {g})
             /\ observables' = [observables EXCEPT ![Top(t).o] = observables[Top(t).p]]
        BY <1>2, DropFrames
    <2> DEFINE o == Top(t).o
    <2>3. /\ Top(t) \in JoinFrames /\ Top(t) \in Frames(t) /\ o \in Observers
          /\ Top(t).at # "borrow"
        BY <1>s, <2>1, TopFrame, FrameKinds DEF JoinFrames
    <2>4. o \in Uses(Top(t)) /\ Frames(t) = {Top(t)} /\ Rest(t) = {}
        BY <1>s, <2>1, <2>3, TopAndRest DEF Uses, JoinFrames, Joins, BottomKinds
    <2>5. g.at \notin DetachKinds /\ Top(t).at \notin DetachKinds
        BY <2>3 DEF JoinFrames, Joins, DetachKinds
    <2>6. ASSUME NEW u \in Threads, NEW f \in Frames(u), f.at \in DetachKinds
          PROVE  observables'[f.o] = observables[f.o]
        <3>1. u # t
            BY <2>4, <2>5, <2>6
        <3>2. f.o # o
            BY <1>d, <2>3, <2>4, <2>6, <3>1, Alone
        <3> QED BY <1>d, <1>s, <2>2, <2>6, <3>2
    <2> QED BY <2>1, <2>2, <2>4, <2>5, <2>6 DEF After
<1>3. CASE EndDetach(t)
    <2>1. /\ ~Idle(t) /\ Top(t).at \in DetachKinds /\ After(t, Rest(t))
          /\ observables' = [observables EXCEPT ![Top(t).o] =
                               @ \ IF Top(t).at = "reset" THEN {} ELSE Top(t).all]
        BY <1>3, DropFrames DEF EndDetach, Detaching, At, DetachKinds
    <2> DEFINE o == Top(t).o
    <2>2. Frames(t) = {Top(t)} \cup Rest(t) /\ (Top(t).at \in BottomKinds => Rest(t) = {})
        BY <1>s, <2>1, TopAndRest
    <2>3. o \in Observers /\ Top(t) \in Frames(t)
        BY <1>d, <2>1, <2>2
    <2>4. ASSUME NEW u \in Threads, NEW f \in Frames(u), f.at \in DetachKinds,
                 u = t => f \in Rest(t)
          PROVE  \/ observables'[f.o] = observables[f.o]
                 \/ f.at = "destroy" /\ Top(t).at = "destroy" /\ f.o = o
        <3>f. f.o \in Observers /\ f \in Ours(u, f.o)
            BY <1>d, <2>4
        <3>1. CASE f.o # o \/ Top(t).at = "reset"
            BY <1>s, <2>1, <2>3, <3>1, <3>f
        <3>2. CASE f.o = o /\ Top(t).at = "unregister"
            <4>1. u # t
                BY <2>2, <2>4, <3>2 DEF BottomKinds
            <4>2. o \in Uses(Top(t))
                BY <3>2 DEF Uses
            <4> QED BY <2>3, <3>2, <3>f, <4>1, <4>2, Alone
        <3>3. CASE f.o = o /\ Top(t).at = "destroy"
            <4>1. ~Alive(o)
                BY <2>3, <3>3 DEF Core
            <4> QED BY <2>3, <3>3, <3>f, <4>1, OursPin
        <3> QED BY <2>1, <3>1, <3>2, <3>3 DEF DetachKinds
    <2>5. \A u \in Threads \ {t} : Frames(u)' = Frames(u)
        BY <2>1 DEF After
    <2>6. /\ Rest(t) \subseteq Frames(t)'
          /\ \A f \in Frames(t)' : f \in Rest(t) \/ Fresh(f)'
        BY <2>1 DEF After
    <2>7. ASSUME NEW u \in Threads, NEW f \in Frames(u)', f.at \in DetachKinds, ~Fresh(f)'
          PROVE  f \in Frames(u) /\ (u = t => f \in Rest(t))
        BY <2>2, <2>5, <2>6, <2>7
    <2>8. ASSUME NEW u \in Threads, NEW f \in Frames(u), f.at \in DetachKinds
          PROVE  f \in Frames(u)' \/ Ends(t, f)
        BY <1>3, <2>1, <2>2, <2>5, <2>6 DEF Ends
    <2> QED BY <1>3, <2>1, <2>4, <2>5, <2>6, <2>7, <2>8
<1> QED BY <1>1, <1>2, <1>3 DEF Reduces

\* Calls that take registrations away begin with nothing else under way.
Leaves(t) == \E o \in Observers : \/ Unregister(t, o)
                                  \/ \E s \in Observables : UnregisterWith(t, o, s)
                                  \/ \E p \in Observers : Assign(t, o, p)

LEMMA LeavesFrames ==
    ASSUME Core, NEW t \in Threads, Leaves(t), "detach" \notin May[t]
    PROVE  /\ Frames(t) = {} /\ UNCHANGED <<settings, objects, owed>>
           /\ \A u \in Threads \ {t} : Frames(u)' = Frames(u)
           /\ \A f \in Frames(t)' : f.at \in DetachKinds =>
                 \/ Fresh(f)'
                 \/ f.at # "destroy" /\ (Whole(f) \/ updatesType # "deferred")
<1>1. /\ Frames(t) = {} /\ UNCHANGED <<settings, objects, owed>>
    BY EmptyStack DEF Leaves, Unregister, UnregisterWith, Assign, Idle, Frames
<1>2. ASSUME NEW S, After(t, S),
             \A f \in S : f.at \in DetachKinds =>
                f.at # "destroy" /\ (Whole(f) \/ updatesType # "deferred")
      PROVE  /\ \A u \in Threads \ {t} : Frames(u)' = Frames(u)
             /\ \A f \in Frames(t)' : f.at \in DetachKinds =>
                   \/ Fresh(f)'
                   \/ f.at # "destroy" /\ (Whole(f) \/ updatesType # "deferred")
    BY <1>2 DEF After
<1>3. ASSUME NEW o \in Observers, Unregister(t, o)
      PROVE  \E S : /\ After(t, S)
                    /\ \A f \in S : f.at # "destroy" /\ (Whole(f) \/ updatesType # "deferred")
    <2> DEFINE f == DetachFrame("unregister", o, "unhook", observables[o])
    <2>1. After(t, {f})
        BY <1>3, CallFramesAfter
    <2>2. f.at # "destroy" /\ Whole(f)
        BY DEF DetachFrame, Whole
    <2> HIDE DEF f
    <2> QED BY <2>1, <2>2
<1>4. ASSUME NEW o \in Observers, NEW s \in Observables, UnregisterWith(t, o, s)
      PROVE  \E S : /\ After(t, S)
                    /\ \A f \in S : f.at # "destroy" /\ (Whole(f) \/ updatesType # "deferred")
    <2> DEFINE f == DetachFrame("unregister", o, "unhook", {s})
    <2>1. After(t, {f})
        BY <1>4, CallFramesAfter
    <2>2. f.at # "destroy" /\ updatesType # "deferred"
        BY <1>4 DEF DetachFrame, UnregisterWith
    <2> HIDE DEF f
    <2> QED BY <2>1, <2>2
<1>5. ASSUME NEW o \in Observers, NEW p \in Observers, Assign(t, o, p)
      PROVE  \E S : /\ After(t, S)
                    /\ \A f \in S : f.at \notin DetachKinds \/ (f.at # "destroy" /\ Whole(f))
    <2> DEFINE g == DetachFrame("reset", o, "unhook", observables[o])
    <2>1. PICK f \in JoinFrames : After(t, {f, g})
        BY <1>5, CallFramesAfter
    <2>2. g.at # "destroy" /\ Whole(g) /\ f.at \notin DetachKinds
        BY DEF DetachFrame, Whole, JoinFrames, Joins, DetachKinds
    <2> HIDE DEF g
    <2> QED BY <2>1, <2>2
<1>6. \E S : /\ After(t, S)
             /\ \A f \in S : f.at \in DetachKinds =>
                   f.at # "destroy" /\ (Whole(f) \/ updatesType # "deferred")
    BY <1>3, <1>4, <1>5 DEF Leaves
<1> QED BY <1>1, <1>2, <1>6

LEMMA ThreeWays ==
    ASSUME Core, LinkTypes, NEW t \in Threads, Step(t) \/ Begin(t)
    PROVE  Steady(t) \/ Reduces(t) \/ Leaves(t)
BY SteadySteps DEF Alters, Reduces, Leaves

\* Who takes away the last registrations no longer owes anything.
LEMMA EndSettles ==
    ASSUME Core, NEW t \in Threads, EndDetach(t)
    PROVE  /\ owed' \subseteq owed /\ (Whole(Top(t)) => Top(t).o \notin owed')
           /\ UNCHANGED settings
           /\ Top(t).at = "destroy" /\ Top(t).o \in Observers =>
                 observables'[Top(t).o] = observables[Top(t).o] \ Top(t).all
BY DropFrames DEF EndDetach, Whole, Core, ObjectTypes

LEMMA ExactStep ==
    ASSUME Core, LinkTypes, AllLinked, NEW m, OneWorker(m), "detach" \notin May[m],
           Exact(m), NEW t \in Threads, Step(t) \/ Begin(t)
    PROVE  Exact(m)'
<1>s. StackTypes /\ m \in Threads
    BY DEF Core, OneWorker
<1>d. ASSUME NEW u \in Threads, NEW f \in Frames(u), f.at = "destroy"
      PROVE  f.o \in Observers /\ Destroying(f.o)
    BY <1>s, <1>d, TypedFrames, FrameKinds DEF DetachFrames, Destroying
<1>1. ASSUME NEW u \in Threads, NEW f \in Frames(u), f.at = "destroy",
             observables[f.o] = {}, f.o \notin owed
      PROVE  f.o \notin owed'
    <2>1. CASE LockAndCheck(t) /\ owed' = owed \cup observers[Top(t).s]
        <3>1. Top(t).s \in Observables
            BY <1>s, <2>1, TopFrame, FrameKinds DEF LockAndCheck, At, NotifyFrames
        <3> QED BY <1>1, <1>d, <2>1, <3>1, Flagged
    <2> QED BY <1>1, <2>1, OwedGrows
<1>2. ASSUME updatesType' = "deferred"
      PROVE  updatesType = "deferred" \/ Frames(m) = {}
    <2>1. CASE ~Switches(t)
        BY <1>2, <2>1, CalmSteps DEF Calm
    <2>2. CASE LockAndCheck(t) \/ Enable(t)
        BY <1>2, <2>2 DEF LockAndCheck, Enable
    <2>3. ASSUME NEW deferred \in BOOLEAN, Disable(t, deferred)
          PROVE  Frames(m) = {}
        <3>1. t = m
            BY <2>3 DEF Disable, OneWorker
        <3> QED BY <2>3, <3>1, EmptyStack DEF Disable, Idle, Frames
    <2> QED BY <2>1, <2>2, <2>3 DEF Switches
<1>3. CASE Steady(t)
    <2>1. ASSUME NEW u \in Threads, NEW f \in Frames(u)', f.at = "destroy"
          PROVE  Whole(f)' \/ (observables'[f.o] = {} /\ f.o \notin owed')
        <3>1. CASE Fresh(f)'
            BY <3>1 DEF Fresh, Whole
        <3>2. ASSUME NEW g \in Frames(u), Same(f, g)
              PROVE  Whole(f)' \/ (observables'[f.o] = {} /\ f.o \notin owed')
            BY <1>1, <1>3, <2>1, <3>2 DEF Exact, Whole, Same, Steady
        <3>3. Fresh(f)' \/ \E g \in Frames(u) : Same(f, g)
            BY <1>3, <2>1 DEF Steady, Same, DetachKinds
        <3> QED BY <3>1, <3>2, <3>3
    <2>2. ASSUME updatesType' = "deferred",
                 NEW f \in Frames(m)', f.at \in {"unregister", "reset"}
          PROVE  Whole(f)'
        <3>1. ~Fresh(f)'
            BY <2>2 DEF Fresh
        <3>2. PICK g \in Frames(m) : Same(f, g)
            BY <1>s, <1>3, <2>2, <3>1 DEF Steady, Same, DetachKinds
        <3> QED BY <1>2, <1>3, <2>2, <3>2 DEF Exact, Whole, Same, Steady
    <2> QED BY <2>1, <2>2 DEF Exact
<1>4. CASE Reduces(t)
    <2>1. ASSUME NEW u \in Threads, NEW f \in Frames(u)', f.at = "destroy"
          PROVE  Whole(f)' \/ (observables'[f.o] = {} /\ f.o \notin owed')
        <3>1. CASE Fresh(f)'
            BY <3>1 DEF Fresh, Whole
        <3>2. CASE f \in Frames(u) /\ observables'[f.o] = observables[f.o]
            BY <1>1, <2>1, <3>2 DEF Exact, Whole
        <3>3. CASE EndDetach(t) /\ Top(t).at = "destroy" /\ f.o = Top(t).o
            <4>1. Top(t) \in Frames(t)
                BY <1>s, <1>4, ReducedFrames, TopFrame
            <4>2. f.o \in Observers
                BY <1>d, <3>3, <4>1
            <4>3. observables'[f.o] = observables[f.o] \ Top(t).all /\ owed' \subseteq owed
                BY <3>3, <4>2, EndSettles
            <4>4. CASE Whole(Top(t))
                BY <3>3, <4>3, <4>4, EndSettles DEF Whole
            <4>5. CASE observables[f.o] = {} /\ f.o \notin owed
                BY <4>3, <4>5
            <4> QED BY <3>3, <4>1, <4>4, <4>5 DEF Exact
        <3> QED BY <1>4, <2>1, <3>1, <3>2, <3>3, ReducedFrames DEF DetachKinds
    <2>2. ASSUME updatesType' = "deferred",
                 NEW f \in Frames(m)', f.at \in {"unregister", "reset"}
          PROVE  Whole(f)'
        <3>1. ~Fresh(f)'
            BY <2>2 DEF Fresh
        <3>2. f \in Frames(m) /\ observables'[f.o] = observables[f.o]
            BY <1>s, <1>4, <2>2, <3>1, ReducedFrames DEF DetachKinds
        <3> QED BY <1>2, <2>2, <3>2 DEF Exact, Whole
    <2> QED BY <2>1, <2>2 DEF Exact
<1>5. CASE Leaves(t)
    <2>1. t = m
        <3>1. "unregister" \in May[t] \/ "copy" \in May[t]
            BY <1>5 DEF Leaves, Unregister, UnregisterWith, Assign
        <3> QED BY <3>1 DEF OneWorker
    <2>2. /\ UNCHANGED <<settings, objects, owed>>
          /\ \A u \in Threads \ {m} : Frames(u)' = Frames(u)
          /\ \A f \in Frames(m)' : f.at \in DetachKinds =>
                 \/ Fresh(f)'
                 \/ f.at # "destroy" /\ (Whole(f) \/ updatesType # "deferred")
        BY <1>5, <2>1, LeavesFrames
    <2>3. UNCHANGED <<updatesType, observables, owed>>
        BY <2>2 DEF settings, objects
    <2>4. ASSUME NEW u \in Threads, NEW f \in Frames(u)', f.at = "destroy"
          PROVE  Whole(f)' \/ (observables'[f.o] = {} /\ f.o \notin owed')
        <3>1. CASE u # m
            BY <2>2, <2>3, <2>4, <3>1 DEF Exact, Whole
        <3>2. CASE u = m
            BY <2>2, <2>4, <3>2 DEF Fresh, Whole, DetachKinds
        <3> QED BY <3>1, <3>2
    <2>5. ASSUME updatesType' = "deferred",
                 NEW f \in Frames(m)', f.at \in {"unregister", "reset"}
          PROVE  Whole(f)'
        <3>1. ~Fresh(f)'
            BY <2>5 DEF Fresh
        <3> QED BY <2>2, <2>3, <2>5, <3>1 DEF Whole, DetachKinds
    <2> QED BY <2>4, <2>5 DEF Exact
<1> QED BY <1>3, <1>4, <1>5, ThreeWays

LEMMA OthersFrames ==
    ASSUME Core, LinkTypes, AllLinked, NEW t \in Threads, Step(t) \/ Begin(t),
           "detach" \notin May[t]
    PROVE  \A u \in Threads \ {t} : Frames(u)' = Frames(u)
BY ThreeWays, ReducedFrames, LeavesFrames DEF Steady

\* A destructor under way stays so, or its observer has nothing coming.
LEMMA StillDestroying ==
    ASSUME Core, LinkTypes, AllLinked, NEW m, Exact(m), NEW t \in Threads,
           Step(t) \/ Begin(t), "detach" \notin May[t],
           NEW o \in owed \cap owed', Destroying(o)
    PROVE  Destroying(o)'
<1>1. PICK u \in Threads : \E g \in Frames(u) : g.at = "destroy" /\ g.o = o
    BY DEF Destroying
<1>2. PICK g \in Frames(u) : g.at = "destroy" /\ g.o = o
    BY <1>1
<1> SUFFICES \E f \in Frames(u)' : f.at = "destroy" /\ f.o = o
    BY DEF Destroying
<1>3. CASE u # t
    BY <1>2, <1>3, OthersFrames
<1>4. CASE u = t /\ Steady(t)
    BY <1>2, <1>4 DEF Steady, Same, DetachKinds
<1>5. CASE u = t /\ Reduces(t)
    <2>1. g \in Frames(t)' \/ Ends(t, g)
        BY <1>2, <1>5, ReducedFrames DEF DetachKinds
    <2>2. ~Ends(t, g)
        <3> SUFFICES ASSUME Ends(t, g) PROVE FALSE
            OBVIOUS
        <3>1. Whole(g)
            BY <1>2 DEF Exact
        <3> QED BY <1>2, <3>1, EndSettles DEF Ends
    <2> QED BY <1>2, <1>5, <2>1, <2>2
<1>6. CASE u = t /\ Leaves(t)
    BY <1>2, <1>6, LeavesFrames
<1> QED BY <1>3, <1>4, <1>5, <1>6, ThreeWays

\* A call of the worker that takes all registrations of o away goes on to do so.
LEMMA StillWhole ==
    ASSUME Core, LinkTypes, AllLinked, NEW m \in Threads, NEW t \in Threads,
           Step(t) \/ Begin(t), "detach" \notin May[t],
           NEW o \in owed', NEW g \in Frames(m),
           g.at \in {"unregister", "reset"}, g.o = o, Whole(g)
    PROVE  \E f \in Frames(m)' : f.at \in {"unregister", "reset"} /\ f.o = o /\ Whole(f)'
<1>d. g.at \in DetachKinds
    BY DEF DetachKinds
<1>1. CASE Steady(t)
    <2>1. PICK f \in Frames(m)' : Same(f, g)
        BY <1>1, <1>d DEF Steady, Same
    <2> QED BY <1>1, <2>1 DEF Same, Whole, Steady
<1>2. CASE Reduces(t)
    <2>1. g \in Frames(m)'
        <3>1. ~Ends(t, g)
            BY EndSettles DEF Ends
        <3> QED BY <1>2, <1>d, <3>1, ReducedFrames
    <2>2. ~Fresh(g)'
        BY DEF Fresh
    <2>3. observables'[g.o] = observables[g.o]
        BY <1>2, <1>d, <2>1, <2>2, ReducedFrames
    <2> QED BY <2>1, <2>3 DEF Whole
<1>3. CASE Leaves(t)
    <2>1. m # t /\ Frames(m)' = Frames(m) /\ UNCHANGED observables
        BY <1>3, LeavesFrames DEF objects
    <2> QED BY <2>1 DEF Whole
<1> QED BY <1>1, <1>2, <1>3, ThreeWays

\* The deferred set loses an observer only to the loop of enableUpdates(), or to a call
\* that takes all its registrations away.
LEMMA StillDeferred ==
    ASSUME Core, LinkTypes, AllLinked, NEW m, OneWorker(m), Sole(m), Exact(m),
           "detach" \notin May[m], NEW t \in Threads, Step(t) \/ Begin(t),
           NEW o \in owed \cap owed', o \in deferredObservers, updatesType # "enabled"
    PROVE  Owing(m, o)'
<1>s. StackTypes /\ m \in Threads /\ "detach" \notin May[t]
    BY DEF Core, OneWorker
<1>1. CASE Enable(t)
    <2>1. t = m
        BY <1>1 DEF Enable, OneWorker
    <2>2. EnableFrame(deferredObservers) \in Frames(m)'
        BY <1>1, <2>1, NotifyFramesAfter DEF After
    <2>3. Tells(EnableFrame(deferredObservers), o)
        BY DEF Tells, EnableFrame
    <2> QED BY <2>2, <2>3 DEF Owing
<1>2. ~EndEnable(t)
    <2> SUFFICES ASSUME EndEnable(t) PROVE FALSE
        OBVIOUS
    <2>1. Top(t) \in Frames(t) /\ Top(t).at = "enable"
        BY <1>s, TopFrame DEF EndEnable, Enabling
    <2>2. t = m
        BY <2>1 DEF Sole, Collectors
    <2> QED BY <2>1, <2>2 DEF Sole, Holding
<1>3. CASE ForgetDeferred(t)
    <2>1. Top(t) \in Frames(t) /\ Top(t).at \in DetachKinds
        BY <1>s, <1>3, TopFrame DEF ForgetDeferred, Detaching, At, DetachKinds
    <2>2. UNCHANGED updatesType
          /\ (o \notin deferredObservers' => o = Top(t).o /\ updatesType = "deferred")
        BY <1>3 DEF ForgetDeferred
    <2>3. CASE o \in deferredObservers'
        BY <2>2, <2>3 DEF Owing
    <2>4. CASE o = Top(t).o /\ Top(t).at = "destroy"
        BY <1>s, <2>1, <2>4, StillDestroying DEF Destroying, Owing
    <2>5. CASE o = Top(t).o /\ updatesType = "deferred" /\ Top(t).at # "destroy"
        <3>1. t = m
            BY <2>1, <2>5 DEF Sole, Collectors
        <3>2. Top(t).at \in {"unregister", "reset"} /\ Whole(Top(t))
            BY <2>1, <2>5, <3>1 DEF Exact, DetachKinds
        <3>3. \E f \in Frames(m)' : f.at \in {"unregister", "reset"} /\ f.o = o /\ Whole(f)'
            BY <1>s, <2>1, <2>5, <3>1, <3>2, StillWhole
        <3> QED BY <3>3 DEF Owing
    <2> QED BY <2>2, <2>3, <2>4, <2>5
<1>4. ASSUME NEW deferred \in BOOLEAN, Disable(t, deferred)
      PROVE  Owing(m, o)'
    BY <1>4 DEF Disable, Owing
<1>5. CASE LockAndCheck(t)
    BY <1>5 DEF LockAndCheck, Owing
<1>6. ASSUME ~Enable(t), ~ForgetDeferred(t), \A deferred \in BOOLEAN : ~Disable(t, deferred),
             ~LockAndCheck(t)
      PROVE  UNCHANGED settings
    BY <1>2, <1>6
       DEF Step, Begin, Notify, CheckEnabled, CallSlot, EndNotify, EnterProxy, RunUpdate,
           LeaveUpdate, UnlockProxy, CallDeferred, NoteFailure, Catch, Register, Connect,
           Unregister, UnregisterWith, RegisterWithObservables, Assign, CopyConstruct,
           CopyObservables, JoinNext, EndJoin, Release, Deactivate, Unhook, Disconnect,
           EndDetach
<1>7. CASE UNCHANGED settings
    BY <1>7 DEF settings, Owing
<1> QED BY <1>1, <1>3, <1>4, <1>5, <1>6, <1>7

LEMMA VouchedStep ==
    ASSUME Core, LinkTypes, AllLinked, Attached, NEW m, OneWorker(m), Sole(m),
           "detach" \notin May[m], Exact(m), Vouched(m), NEW t \in Threads,
           Step(t) \/ Begin(t)
    PROVE  Vouched(m)'
<1>s. StackTypes /\ m \in Threads /\ "detach" \notin May[t]
    BY DEF Core, OneWorker
<1>1. Remains
    BY SteadySteps
<1>2. ASSUME NEW o \in owed', o \notin owed
      PROVE  o \in Observers /\ (Alive(o) \/ Destroying(o))' /\ Owing(m, o)'
    <2>1. /\ LockAndCheck(t) /\ o \in observers[Top(t).s] /\ updatesType = "deferred"
          /\ deferredObservers' = deferredObservers \cup observers[Top(t).s]
        BY <1>2, OwedGrows
    <2>2. Top(t).s \in Observables
        BY <1>s, <2>1, TopFrame, FrameKinds DEF LockAndCheck, At, NotifyFrames
    <2>3. o \in Observers
        BY <2>1, <2>2 DEF LinkTypes
    <2>4. Alive(o) \/ Destroying(o)
        BY <2>1, <2>2, <2>3, Flagged
    <2>5. ASSUME Alive(o)
          PROVE  (Alive(o) \/ Destroying(o))'
        BY <1>1, <2>3, <2>5 DEF Remains
    <2>6. ASSUME Destroying(o)
          PROVE  (Alive(o) \/ Destroying(o))'
        <3>1. UNCHANGED objects /\ QuietFrames(t)
            BY <2>1, NotifyQuiet
        <3>2. Steady(t)
            BY <3>1, QuietSteady
        <3>3. PICK u \in Threads : \E g \in Frames(u) : g.at = "destroy" /\ g.o = o
            BY <2>6 DEF Destroying
        <3>4. \E f \in Frames(u)' : f.at = "destroy" /\ f.o = o
            BY <3>2, <3>3 DEF Steady, Same, DetachKinds
        <3> QED BY <3>4 DEF Destroying
    <2>7. Owing(m, o)'
        BY <2>1 DEF LockAndCheck, Owing
    <2> QED BY <2>3, <2>4, <2>5, <2>6, <2>7
<1>3. ASSUME NEW o \in owed \cap owed'
      PROVE  o \in Observers /\ (Alive(o) \/ Destroying(o))' /\ Owing(m, o)'
    <2>1. o \in Observers /\ (Alive(o) \/ Destroying(o)) /\ Owing(m, o)
        BY DEF Vouched
    <2>2. Destroying(o) => Destroying(o)'
        BY <1>s, StillDestroying
    <2>3. (Alive(o) \/ Destroying(o))'
        BY <1>1, <2>1, <2>2 DEF Remains
    <2>4. ASSUME Destroying(o)
          PROVE  Owing(m, o)'
        BY <2>2, <2>4 DEF Owing
    <2>5. ASSUME NEW f \in Frames(m), f.at \in {"unregister", "reset"}, f.o = o, Whole(f)
          PROVE  Owing(m, o)'
        <3>1. \E g \in Frames(m)' : g.at \in {"unregister", "reset"} /\ g.o = o /\ Whole(g)'
            BY <1>s, <2>5, StillWhole
        <3> QED BY <3>1 DEF Owing
    <2>6. ASSUME o \in deferredObservers, updatesType # "enabled"
          PROVE  Owing(m, o)'
        BY <2>6, StillDeferred
    <2>7. ASSUME NEW f \in Frames(m), Tells(f, o)
          PROVE  Owing(m, o)'
        <3>1. CASE t = m
            BY <1>s, <2>7, <3>1, TalesKept DEF Owing
        <3>2. CASE t # m
            BY <1>s, <2>7, <3>2, OthersFrames DEF Owing
        <3> QED BY <3>1, <3>2
    <2> QED BY <2>1, <2>3, <2>4, <2>5, <2>6, <2>7 DEF Owing
<1> QED BY <1>2, <1>3 DEF Vouched

Ledger(m) == Attached /\ Exact(m) /\ Vouched(m)

LEMMA LedgerStep ==
    ASSUME Core, LinkTypes, AllLinked, NEW m, OneWorker(m), "detach" \notin May[m],
           Sole(m), Ledger(m), [Next]_vars
    PROVE  Ledger(m)'
<1>1. CASE UNCHANGED vars
    BY <1>1 DEF vars, Ledger, Attached, Exact, Vouched, Alive, Referenced, Destroying, Owing,
                Whole, Frames
<1>2. ASSUME NEW t \in Threads, Step(t) \/ Begin(t)
      PROVE  Ledger(m)'
    <2>1. Kept
        BY KeptStep
    <2> QED BY <1>2, <2>1, AttachedStep, ExactStep, VouchedStep DEF Ledger
<1> QED BY <1>1, <1>2 DEF Next

\* If one thread works and the others only let go of observers, and no observer gives up
\* one of several observables while updates are deferred, every observer that was flagged
\* while they were has been updated when the library is at rest and they are enabled
\* again, whatever threw meanwhile (observable.hpp:413-442, observable.cpp:135-151).
THEOREM EverybodyTold ==
    ASSUME NEW m, OneWorker(m), "detach" \notin May[m]
    PROVE  Spec => []AllTold
<1>1. Init => Core /\ LinkTypes /\ AllLinked /\ Sole(m) /\ Ledger(m)
    <2>1. Init => \A t \in Threads : Frames(t) = {}
        BY EmptyStack DEF Init, Frames
    <2>2. Init => Sole(m)
        BY <2>1 DEF Sole, Collectors, OneWorker
    <2>3. ASSUME Init
          PROVE  Attached
        <3>1. ASSUME NEW o \in Observers, Alive(o)
              PROVE  owned[o]
            BY <2>1, <2>3, <3>1 DEF Init, Alive, Referenced, AtFirst, Frames
        <3> QED BY <2>3, <3>1 DEF Init, Attached
    <2>4. Init => Exact(m) /\ Vouched(m)
        BY <2>1 DEF Init, Exact, Vouched, OneWorker
    <2> QED BY <2>2, <2>3, <2>4, CoreInit, LinkedInit DEF Ledger
<1>2. Core /\ LinkTypes /\ AllLinked /\ Sole(m) /\ Ledger(m) /\ [Next]_vars
      => (Core /\ LinkTypes /\ AllLinked /\ Sole(m) /\ Ledger(m))'
    BY CoreStep, LinksStep, LinkedStep, SoleStep, LedgerStep
<1>3. Ledger(m) => AllTold
    <2> SUFFICES ASSUME Ledger(m), \A t \in Threads : Idle(t), updatesType = "enabled"
                 PROVE  owed = {}
        BY DEF AllTold
    <2>1. \A t \in Threads : Frames(t) = {}
        BY EmptyStack DEF Idle, Frames
    <2> QED BY <2>1 DEF Ledger, Vouched, Owing, Destroying, OneWorker
<1> QED BY <1>1, <1>2, <1>3, PTL DEF Spec
=============================================================================
