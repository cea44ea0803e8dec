---------------------------- MODULE TestCampaign ----------------------------
(***************************************************************************)
(* What the parallel test runner promises, without its processes and       *)
(* queues: every test case runs once, its result is collected once, and    *)
(* the report is made when all results are in.                             *)
(***************************************************************************)
EXTENDS FiniteSets

CONSTANT Tests

VARIABLES
    waiting,    \* test cases not started
    started,    \* test cases started whose result is not collected
    collected,  \* test cases whose result is collected
    reported    \* the report has been made

cvars == <<waiting, started, collected, reported>>

CInit ==
    /\ waiting = Tests
    /\ started = {}
    /\ collected = {}
    /\ reported = FALSE

Start(t) ==
    /\ t \in waiting
    /\ waiting' = waiting \ {t}
    /\ started' = started \cup {t}
    /\ UNCHANGED <<collected, reported>>

Collect(t) ==
    /\ t \in started
    /\ started' = started \ {t}
    /\ collected' = collected \cup {t}
    /\ UNCHANGED <<waiting, reported>>

\* the process that collects runs a test case itself
StartAndCollect(t) ==
    /\ t \in waiting
    /\ waiting' = waiting \ {t}
    /\ collected' = collected \cup {t}
    /\ UNCHANGED <<started, reported>>

Report ==
    /\ ~reported /\ collected = Tests
    /\ reported' = TRUE
    /\ UNCHANGED <<waiting, started, collected>>

CNext == Report \/ \E t \in Tests : Start(t) \/ Collect(t) \/ StartAndCollect(t)

CSpec == CInit /\ [][CNext]_cvars /\ WF_cvars(CNext)
=============================================================================
