------------------------ MODULE MCThreadSafeObserver ------------------------
(***************************************************************************)
(* A source q, a forwarder l that observes it, a plain observer that       *)
(* observes both, and a twin that is copied on the stack.                  *)
(***************************************************************************)
EXTENDS ThreadSafeObserver, TLC

CONSTANTS q, l, plain, twin, main, other

MCThreads == {main, other}
SharedRegistrations == {<<l, q>>, <<plain, q>>, <<plain, l>>}
MCRegistrations == SharedRegistrations \cup {<<twin, q>>}

\* The use of test-suite/observable.cpp:169-249: one thread works, another one
\* collects garbage.
Collecting ==
    (main :> {"notify", "defer", "disable", "enable", "register", "unregister",
              "copy", "leave"})
    @@ (other :> {"release"})

\* Two threads that both change quotes; the first one batches its changes.
Sharing == (main :> {"notify", "defer", "enable"}) @@ (other :> {"notify"})
=============================================================================
