------------------------- MODULE ThreadSafeObserver -------------------------
(***************************************************************************)
(* The observer pattern of ql/patterns/observable.hpp and .cpp as built    *)
(* with QL_ENABLE_THREAD_SAFE_OBSERVER_PATTERN: threads that notify,       *)
(* switch updates on and off, register, unregister and drop references to  *)
(* observers.  Each thread has a call stack; a step is what one thread     *)
(* does between two points where another can interfere.                    *)
(*                                                                         *)
(* Locks are not variables.  ObservableSettings::mutex_, which is not      *)
(* recursive, is held by the thread with an "enable" frame or a "notify"   *)
(* frame whose locked field is set; Proxy::mutex_, which is recursive, by  *)
(* the thread with an "update" frame past its entry.  Observable::mutex_   *)
(* protects single statements and never waits for another lock.            *)
(* Observer::mutex_, which is recursive, keeps two threads from changing   *)
(* the registrations of one observer at once; see Unlocked.                *)
(***************************************************************************)
EXTENDS Naturals, Sequences, FiniteSets, SequencesExt

CONSTANTS
    Threads,
    Sources,        \* plain observables, never destroyed here
    Observers,
    OnStack,        \* the observers that no shared_ptr owns; all others have one
    Copies,         \* the observers a copy constructor is yet to create
    Forwarders,     \* the observers that are observables too: update() notifies
    Throwing,       \* the other observers whose update() may throw
    Registrations,  \* the pairs <<o, s>> clients may register; at first all
                    \* observers that exist are
    May             \* what each thread calls, see Operations

Observables == Sources \cup Forwarders
Operations == {"notify", "defer", "disable", "enable", "register", "unregister",
               "detach",     \* unregister from one of several while deferred
               "copy",       \* copy and assign
               "release",    \* drop the shared_ptr to an observer
               "leave"}      \* leave the scope of an observer on the stack

ASSUME ThreadAssumption ==
    /\ Sources \cap Observers = {} /\ IsFiniteSet(Observers)
    /\ Forwarders \subseteq Observers /\ Throwing \subseteq Observers \ Forwarders
    /\ OnStack \subseteq Observers \ Forwarders
    /\ Copies \subseteq Observers
    /\ Registrations \subseteq Observers \X Observables
    /\ May \in [Threads -> SUBSET Operations]

VARIABLES
    updatesType,        \* ObservableSettings::updatesType_, an atomic
    deferredObservers,  \* weak pointers to proxies
    observers,          \* Observable::observers_
    slots,              \* the slots connected to Observable::sig_
    observables,        \* Observer::observables_, shared pointers
    owned,              \* a client holds a shared_ptr, or the scope goes on
    unborn,             \* the observers yet to be created
    active,             \* Proxy::active_
    stack,              \* the frames of each thread, innermost first
    raising,            \* the threads in which an exception propagates
    owed                \* history: observers with a deferred notification

vars == <<updatesType, deferredObservers, observers, slots, observables, owned,
          unborn, active, stack, raising, owed>>
settings == <<updatesType, deferredObservers>>
links == <<observers, slots>>
objects == <<observables, owned>>
proxies == <<active, unborn>>

AtFirst == {r \in Registrations : r[1] \notin Copies /\ r[2] \notin Copies}

Init ==
    /\ updatesType = "enabled"
    /\ deferredObservers = {}
    /\ observers = [s \in Observables |->
                      {o \in Observers : <<o, s>> \in AtFirst}]
    /\ slots = observers
    /\ observables = [o \in Observers |->
                        {s \in Observables : <<o, s>> \in AtFirst}]
    /\ unborn = Copies
    /\ owned = [o \in Observers |-> o \notin Copies]
    /\ active = owned
    /\ stack = [t \in Threads |-> <<>>]
    /\ raising = {}
    /\ owed = {}

-----------------------------------------------------------------------------
NotifyFrame(s) == [at |-> "notify", s |-> s, pc |-> "check", todo |-> {},
                   locked |-> FALSE]
UpdateFrame(o) == [at |-> "update", o |-> o, pc |-> "enter"]
EnableFrame(S) == [at |-> "enable", todo |-> S, successful |-> TRUE]
RegisterFrame(o, s) == [at |-> "register", o |-> o, s |-> s]
\* o is being registered with the observables of p, of which todo are left:
\* "borrow" is registerWithObservables, "assign" and "construct" copy p
JoinFrame(kind, o, p, pc, S) ==
    [at |-> kind, o |-> o, p |-> p, pc |-> pc, todo |-> S]
Joins == {"borrow", "assign", "construct"}
DetachFrame(kind, o, pc, S) ==
    [at |-> kind, o |-> o, pc |-> pc, todo |-> S, now |-> {}, all |-> S]

Idle(t) == stack[t] = <<>>
Top(t) == Head(stack[t])
At(t, kind, pc) == ~Idle(t) /\ Top(t).at = kind /\ Top(t).pc = pc
Frames(t) == ToSet(stack[t])

HoldsSettings(t) ==
    \E f \in Frames(t) : f.at = "enable" \/ (f.at = "notify" /\ f.locked)
SettingsFree == \A t \in Threads : ~HoldsSettings(t)

\* fault: the proxy stays locked while a destructor unregisters
HoldsProxyWhileDestroying(t, o) ==
    \E f \in Frames(t) : /\ f.at \in {"update", "destroy"} /\ f.o = o
                         /\ f.pc \notin {"enter", "deactivate"}

HoldsProxy(t, o) ==
    \E f \in Frames(t) : f.at = "update" /\ f.o = o /\ f.pc # "enter"
ProxyFree(t, o) == \A u \in Threads \ {t} : ~HoldsProxy(u, o)

\* Observer::mutex_ of o is held by the thread
HoldsObserver(t, o) ==
    \E f \in Frames(t) :
        \/ f.at \in {"register", "unregister", "assign", "destroy"} /\ f.o = o
        \/ f.at = "borrow" /\ f.p = o
Unlocked(t, o) == \A u \in Threads \ {t} : ~HoldsObserver(u, o)

\* the thread is inside a member function of o that it reached by a shared_ptr,
\* or is constructing o
Pins(f, o) ==
    \/ f.at = "update" /\ f.o = o /\ f.pc \in {"body", "leave"} /\ o \notin OnStack
    \/ f.at \in {"register", "unregister"} \cup Joins /\ f.o = o
    \/ f.at = "register" /\ f.s = o
    \/ f.at \in Joins /\ f.p = o

\* somebody holds a shared_ptr to o, given these owners, registrations, stacks
Referenced(o, own, obs, stk) ==
    \/ own[o]
    \/ \E p \in Observers : o \in obs[p]
    \/ \E t \in Threads : \E f \in ToSet(stk[t]) : Pins(f, o)

Replace(t, f) == [stack EXCEPT ![t] = <<f>> \o Tail(@)]
Push(t, f) == [stack EXCEPT ![t] = <<f>> \o @]
Pop(t) == [stack EXCEPT ![t] = Tail(@)]

\* t lets go of references: the observers that lose their last one are
\* destroyed by t, before it goes on
Drop(t, own, obs, stk) ==
    LET lost == {o \in Observers : /\ Referenced(o, owned, observables, stack)
                                   /\ ~Referenced(o, own, obs, stk)}
    IN  /\ owned' = own
        /\ observables' = obs
        /\ stack' = [stk EXCEPT ![t] =
               SetToSeq({DetachFrame("destroy", o, "deactivate", obs[o]) : o \in lost})
               \o @]

-----------------------------------------------------------------------------
\* Observable::notifyObservers(): the first test, without a lock ...
Notify(t, s) ==
    /\ Idle(t) /\ t \notin raising /\ "notify" \in May[t]
    /\ stack' = Push(t, NotifyFrame(s))
    /\ UNCHANGED <<settings, links, objects, proxies, raising, owed>>

CheckEnabled(t) ==
    /\ At(t, "notify", "check")
    /\ stack' = Replace(t,
           IF updatesType = "enabled"
             THEN [Top(t) EXCEPT !.pc = "emit", !.todo = slots[Top(t).s]]
             ELSE [Top(t) EXCEPT !.pc = "wait"])
    /\ UNCHANGED <<settings, links, objects, proxies, raising, owed>>

\* ... and the second one, under the lock of the settings
LockAndCheck(t) ==
    /\ At(t, "notify", "wait") /\ SettingsFree
    /\ IF updatesType = "enabled"
         THEN stack' = Replace(t, [Top(t) EXCEPT !.pc = "emit", !.locked = TRUE,
                                                 !.todo = slots[Top(t).s]])
         ELSE stack' = Pop(t)
    /\ IF updatesType = "deferred"
         THEN /\ deferredObservers' = deferredObservers \cup observers[Top(t).s]
              /\ owed' = owed \cup observers[Top(t).s]
         ELSE UNCHANGED <<deferredObservers, owed>>
    /\ UNCHANGED <<updatesType, links, objects, proxies, raising>>

\* sig_() calls the next slot, unless it was disconnected meanwhile
CallSlot(t) ==
    /\ At(t, "notify", "emit") /\ t \notin raising
    /\ \E o \in Top(t).todo :
          LET f == [Top(t) EXCEPT !.todo = @ \ {o}] IN
          stack' = [stack EXCEPT ![t] =
              (IF o \in slots[f.s] THEN <<UpdateFrame(o), f>> ELSE <<f>>) \o Tail(@)]
    /\ UNCHANGED <<settings, links, objects, proxies, raising, owed>>

\* all slots were called, or one threw: the signal does not catch
EndNotify(t) ==
    /\ At(t, "notify", "emit") /\ (Top(t).todo = {} \/ t \in raising)
    /\ stack' = Pop(t)
    /\ UNCHANGED <<settings, links, objects, proxies, raising, owed>>

-----------------------------------------------------------------------------
\* Proxy::update(): under the proxy's lock, take a shared_ptr if there still
\* can be one, or go ahead where there never was one: on the stack and while
\* the observer is being constructed
Alive(o) == Referenced(o, owned, observables, stack)
Unmanaged(o) ==
    \/ o \in OnStack
    \/ \E t \in Threads : \E f \in Frames(t) : f.at = "construct" /\ f.o = o

\* fault: the raw pointer is used while the proxy is active
EnterActiveProxy(t) ==
    /\ At(t, "update", "enter") /\ ProxyFree(t, Top(t).o)
    /\ stack' = IF active[Top(t).o] THEN Replace(t, [Top(t) EXCEPT !.pc = "body"])
                                   ELSE Pop(t)
    /\ UNCHANGED <<settings, links, objects, proxies, raising, owed>>

EnterProxy(t) ==
    /\ At(t, "update", "enter") /\ ProxyFree(t, Top(t).o)
    /\ stack' = IF active[Top(t).o] /\ (Unmanaged(Top(t).o) \/ Alive(Top(t).o))
                  THEN Replace(t, [Top(t) EXCEPT !.pc = "body"])
                  ELSE Pop(t)
    /\ UNCHANGED <<settings, links, objects, proxies, raising, owed>>

\* obs->update(): a forwarder notifies, the others note the change or throw
RunUpdate(t) ==
    /\ At(t, "update", "body")
    /\ LET o == Top(t).o
           f == [Top(t) EXCEPT !.pc = "leave"] IN
       /\ owed' = owed \ {o}
       /\ stack' = [stack EXCEPT ![t] =
              (IF o \in Forwarders THEN <<NotifyFrame(o), f>> ELSE <<f>>) \o Tail(@)]
       /\ \/ UNCHANGED raising
          \/ o \in Throwing /\ raising' = raising \cup {t}
    /\ UNCHANGED <<settings, links, objects, proxies>>

\* the local shared_ptr goes out of scope, under the proxy's lock
LeaveUpdate(t) ==
    /\ At(t, "update", "leave")
    /\ Drop(t, owned, observables, Replace(t, [Top(t) EXCEPT !.pc = "exit"]))
    /\ UNCHANGED <<settings, links, proxies, raising, owed>>

UnlockProxy(t) ==
    /\ At(t, "update", "exit")
    /\ stack' = Pop(t)
    /\ UNCHANGED <<settings, links, objects, proxies, raising, owed>>

-----------------------------------------------------------------------------
\* disableUpdates(deferred)
Disable(t, deferred) ==
    /\ Idle(t) /\ t \notin raising
    /\ (IF deferred THEN "defer" ELSE "disable") \in May[t]
    /\ SettingsFree
    /\ updatesType' = IF deferred THEN "deferred" ELSE "disabled"
    /\ UNCHANGED <<deferredObservers, links, objects, proxies, stack, raising, owed>>

\* enableUpdates() goes through the deferred set with the settings locked
Enable(t) ==
    /\ Idle(t) /\ t \notin raising /\ "enable" \in May[t] /\ SettingsFree
    /\ updatesType' = "enabled"
    /\ stack' = Push(t, EnableFrame(deferredObservers))
    /\ UNCHANGED <<deferredObservers, links, objects, proxies, raising, owed>>

Enabling(t) == ~Idle(t) /\ Top(t).at = "enable"

CallDeferred(t) ==
    /\ Enabling(t) /\ t \notin raising
    /\ \E o \in Top(t).todo :
          stack' = [stack EXCEPT ![t] =
              <<UpdateFrame(o), [Top(t) EXCEPT !.todo = @ \ {o}]>> \o Tail(@)]
    /\ UNCHANGED <<settings, links, objects, proxies, raising, owed>>

\* fault: the first exception ends the loop
NoteFailureAndStop(t) ==
    /\ Enabling(t) /\ t \in raising
    /\ stack' = Replace(t, [Top(t) EXCEPT !.successful = FALSE, !.todo = {}])
    /\ raising' = raising \ {t}
    /\ UNCHANGED <<settings, links, objects, proxies, owed>>

NoteFailure(t) ==
    /\ Enabling(t) /\ t \in raising
    /\ stack' = Replace(t, [Top(t) EXCEPT !.successful = FALSE])
    /\ raising' = raising \ {t}
    /\ UNCHANGED <<settings, links, objects, proxies, owed>>

EndEnable(t) ==
    /\ Enabling(t) /\ t \notin raising /\ Top(t).todo = {}
    /\ deferredObservers' = {}
    /\ raising' = IF Top(t).successful THEN raising ELSE raising \cup {t}
    /\ stack' = Pop(t)
    /\ UNCHANGED <<updatesType, links, objects, proxies, owed>>

\* the exception has left the outermost call
Catch(t) ==
    /\ Idle(t) /\ t \in raising
    /\ raising' = raising \ {t}
    /\ UNCHANGED <<settings, links, objects, proxies, stack, owed>>

-----------------------------------------------------------------------------
\* registerWith(): into observers_, then connected to the signal
Hook(o, s) == observers' = [observers EXCEPT ![s] = @ \cup {o}]

Register(t, o, s) ==
    /\ Idle(t) /\ t \notin raising /\ "register" \in May[t]
    /\ owned[o] /\ <<o, s>> \in Registrations /\ Unlocked(t, o)
    /\ s \in Forwarders => owned[s]
    /\ s \notin observables[o]
    /\ Hook(o, s)
    /\ stack' = Push(t, RegisterFrame(o, s))
    /\ UNCHANGED <<settings, slots, objects, proxies, raising, owed>>

Connect(t) ==
    /\ ~Idle(t) /\ Top(t).at = "register"
    /\ slots' = [slots EXCEPT ![Top(t).s] = @ \cup {Top(t).o}]
    /\ Drop(t, owned, [observables EXCEPT ![Top(t).o] = @ \cup {Top(t).s}], Pop(t))
    /\ UNCHANGED <<settings, observers, proxies, raising, owed>>

\* unregisterWithAll()
Unregister(t, o) ==
    /\ Idle(t) /\ t \notin raising /\ "unregister" \in May[t]
    /\ owned[o] /\ Unlocked(t, o) /\ observables[o] # {}
    /\ stack' = Push(t, DetachFrame("unregister", o, "unhook", observables[o]))
    /\ UNCHANGED <<settings, links, objects, proxies, raising, owed>>

\* unregisterWith()
UnregisterWith(t, o, s) ==
    /\ Idle(t) /\ t \notin raising /\ "unregister" \in May[t]
    /\ updatesType = "deferred" => "detach" \in May[t]
    /\ owned[o] /\ Unlocked(t, o) /\ s \in observables[o]
    /\ stack' = Push(t, DetachFrame("unregister", o, "unhook", {s}))
    /\ UNCHANGED <<settings, links, objects, proxies, raising, owed>>

\* o and p are two observers of clients, and o may have what p observes
Joinable(o, p) ==
    /\ o # p /\ owned[p]
    /\ \A s \in observables[p] : <<o, s>> \in Registrations

\* registerWithObservables() locks the other observer, and o for each of its
\* observables
RegisterWithObservables(t, o, p) ==
    /\ Idle(t) /\ t \notin raising /\ "register" \in May[t]
    /\ owned[o] /\ Joinable(o, p) /\ Unlocked(t, p)
    /\ stack' = Push(t, JoinFrame("borrow", o, p, "join", observables[p]))
    /\ UNCHANGED <<settings, links, objects, proxies, raising, owed>>

\* operator= leaves the old observables before it takes those of p
Assign(t, o, p) ==
    /\ Idle(t) /\ t \notin raising /\ "copy" \in May[t]
    /\ owned[o] /\ Joinable(o, p) /\ Unlocked(t, o)
    /\ stack' = [stack EXCEPT ![t] = <<DetachFrame("reset", o, "unhook", observables[o]),
                                      JoinFrame("assign", o, p, "copy", {})>>]
    /\ UNCHANGED <<settings, links, objects, proxies, raising, owed>>

\* the copy constructor: a new proxy
CopyConstruct(t, o, p) ==
    /\ Idle(t) /\ t \notin raising /\ "copy" \in May[t]
    /\ o \in unborn /\ Joinable(o, p)
    /\ unborn' = unborn \ {o}
    /\ active' = [active EXCEPT ![o] = TRUE]
    /\ stack' = Push(t, JoinFrame("construct", o, p, "copy", {}))
    /\ UNCHANGED <<settings, links, objects, raising, owed>>

Joining(t, pc) == ~Idle(t) /\ Top(t).at \in Joins /\ Top(t).pc = pc

CopyObservables(t) ==
    /\ Joining(t, "copy") /\ Unlocked(t, Top(t).p)
    /\ LET S == observables[Top(t).p] IN
       Drop(t, owned, [observables EXCEPT ![Top(t).o] = S],
            Replace(t, [Top(t) EXCEPT !.pc = "join", !.todo = S]))
    /\ UNCHANGED <<settings, links, proxies, raising, owed>>

JoinNext(t, s) ==
    /\ Joining(t, "join") /\ s \in Top(t).todo /\ Unlocked(t, Top(t).o)
    /\ Hook(Top(t).o, s)
    /\ stack' = [stack EXCEPT ![t] =
           <<RegisterFrame(Top(t).o, s), [Top(t) EXCEPT !.todo = @ \ {s}]>> \o Tail(@)]
    /\ UNCHANGED <<settings, slots, objects, proxies, raising, owed>>

EndJoin(t) ==
    /\ Joining(t, "join") /\ Top(t).todo = {}
    /\ Drop(t, [owned EXCEPT ![Top(t).o] = @ \/ Top(t).at = "construct"],
            observables, Pop(t))
    /\ UNCHANGED <<settings, links, proxies, raising, owed>>

\* a client drops its shared_ptr, as a garbage collector does, or leaves the
\* scope of an observer on the stack
Release(t, o) ==
    /\ Idle(t) /\ t \notin raising /\ owned[o]
    /\ (IF o \in OnStack THEN "leave" ELSE "release") \in May[t]
    /\ Drop(t, [owned EXCEPT ![o] = FALSE], observables, stack)
    /\ UNCHANGED <<settings, links, proxies, raising, owed>>

\* ~Observer()
Deactivate(t) ==
    /\ At(t, "destroy", "deactivate") /\ ProxyFree(t, Top(t).o)
    /\ active' = [active EXCEPT ![Top(t).o] = FALSE]
    /\ stack' = Replace(t, [Top(t) EXCEPT !.pc = "unhook"])
    /\ UNCHANGED <<settings, links, objects, unborn, raising, owed>>

\* Observable::unregisterObserver() for the next observable: out of observers_,
\* out of the deferred set if updates are deferred, then disconnected
Detaching(t, pc) == \E kind \in {"destroy", "unregister", "reset"} : At(t, kind, pc)

Unhook(t, s) ==
    /\ Detaching(t, "unhook") /\ s \in Top(t).todo
    /\ observers' = [observers EXCEPT ![s] = @ \ {Top(t).o}]
    /\ stack' = Replace(t, [Top(t) EXCEPT
           !.pc = IF updatesType = "deferred" THEN "forget" ELSE "disconnect",
           !.todo = @ \ {s}, !.now = {s}])
    /\ UNCHANGED <<settings, slots, objects, proxies, raising, owed>>

ForgetDeferred(t) ==
    /\ Detaching(t, "forget") /\ SettingsFree
    /\ deferredObservers' = IF updatesType = "deferred"
                              THEN deferredObservers \ {Top(t).o}
                              ELSE deferredObservers
    /\ stack' = Replace(t, [Top(t) EXCEPT !.pc = "disconnect"])
    /\ UNCHANGED <<updatesType, links, objects, proxies, raising, owed>>

\* fault: the slot stays connected to the signal
DisconnectNobody(t) ==
    /\ Detaching(t, "disconnect")
    /\ stack' = Replace(t, [Top(t) EXCEPT !.pc = "unhook", !.now = {}])
    /\ UNCHANGED <<settings, links, objects, proxies, raising, owed>>

Disconnect(t) ==
    /\ Detaching(t, "disconnect")
    /\ slots' = [s \in Observables |->
                   IF s \in Top(t).now THEN slots[s] \ {Top(t).o} ELSE slots[s]]
    /\ stack' = Replace(t, [Top(t) EXCEPT !.pc = "unhook", !.now = {}])
    /\ UNCHANGED <<settings, observers, objects, proxies, raising, owed>>

\* observables_ loses them, unless operator= replaces it; that may destroy a
\* forwarder in turn
EndDetach(t) ==
    /\ Detaching(t, "unhook") /\ Top(t).todo = {}
    /\ owed' = IF observables[Top(t).o] = Top(t).all THEN owed \ {Top(t).o} ELSE owed
    /\ LET gone == IF Top(t).at = "reset" THEN {} ELSE Top(t).all IN
       Drop(t, owned, [observables EXCEPT ![Top(t).o] = @ \ gone], Pop(t))
    /\ UNCHANGED <<settings, links, proxies, raising>>

-----------------------------------------------------------------------------
Step(t) ==
    \/ CheckEnabled(t) \/ LockAndCheck(t) \/ CallSlot(t) \/ EndNotify(t)
    \/ EnterProxy(t) \/ RunUpdate(t) \/ LeaveUpdate(t) \/ UnlockProxy(t)
    \/ CallDeferred(t) \/ NoteFailure(t) \/ EndEnable(t) \/ Catch(t)
    \/ Connect(t) \/ CopyObservables(t) \/ EndJoin(t)
    \/ \E s \in Observables : JoinNext(t, s)
    \/ Deactivate(t) \/ \E s \in Observables : Unhook(t, s)
    \/ ForgetDeferred(t) \/ Disconnect(t) \/ EndDetach(t)

Begin(t) ==
    \/ \E s \in Sources : Notify(t, s)
    \/ \E deferred \in BOOLEAN : Disable(t, deferred)
    \/ Enable(t)
    \/ \E o \in Observers, s \in Observables : Register(t, o, s) \/ UnregisterWith(t, o, s)
    \/ \E o, p \in Observers :
          RegisterWithObservables(t, o, p) \/ Assign(t, o, p) \/ CopyConstruct(t, o, p)
    \/ \E o \in Observers : Unregister(t, o) \/ Release(t, o)

Next == \E t \in Threads : Step(t) \/ Begin(t)

Spec == Init /\ [][Next]_vars

-----------------------------------------------------------------------------
\* t waits for a lock that u holds
WaitsFor(t, u) ==
    \/ /\ \/ At(t, "notify", "wait")
          \/ Detaching(t, "forget")
       /\ HoldsSettings(u)
    \/ /\ At(t, "update", "enter") \/ At(t, "destroy", "deactivate")
       /\ u # t /\ HoldsProxy(u, Top(t).o)
    \/ Joining(t, "copy") /\ u # t /\ HoldsObserver(u, Top(t).p)
    \/ /\ Joining(t, "join") /\ Top(t).todo # {}
       /\ u # t /\ HoldsObserver(u, Top(t).o)

\* Threads never wait for each other in a circle, nor one for itself
\* ("thread-safe observer pattern", userconfig.hpp:75-78).
NoDeadlock ==
    ~ \E D \in (SUBSET Threads) \ {{}} :
         \A t \in D : \E u \in D : WaitsFor(t, u)

\* No thread runs update() on an observer whose destructor has begun, whichever
\* thread drops the last reference (observable.hpp:300-319, 493-500).
Destroying(o) == \E t \in Threads : \E f \in Frames(t) : f.at = "destroy" /\ f.o = o
NoUpdateInDestruction ==
    \A t \in Threads : \A f \in Frames(t) :
        f.at = "update" /\ f.pc \in {"body", "leave"} =>
            active[f.o] /\ ~Destroying(f.o)

\* When every thread is out of the library and updates are enabled, each
\* observer that was flagged while they were deferred has been updated
\* (observable.hpp:413-442), also if another one threw.
AllTold ==
    (\A t \in Threads : Idle(t)) /\ updatesType = "enabled" => owed = {}

\* A destroyed observer leaves nothing behind: no observable knows its proxy
\* and no signal is connected to it (observable.cpp:135-151).
NothingLeftBehind ==
    \A o \in Observers : ~Alive(o) /\ ~Destroying(o) =>
        \A s \in Observables : o \notin observers[s] /\ o \notin slots[s]
=============================================================================
