------------------------- MODULE ParallelTestRunner -------------------------
(***************************************************************************)
(* test-suite/paralleltestrunner.hpp: a master process distributes test    *)
(* cases over worker processes through three interprocess message queues.  *)
(* The test cases of the root suite run in the master, all but the last    *)
(* before the workers are forked and the last one when all results are in. *)
(*                                                                         *)
(* The queues are bounded and blocking, and first in first out because     *)
(* every message is sent with priority 0.  The order of the test cases,    *)
(* which the code derives from the run times of an earlier session, is     *)
(* left open.                                                              *)
(***************************************************************************)
EXTENDS Naturals, Sequences, FiniteSets

CONSTANTS
    Workers,        \* the nProc worker processes
    RootTests,      \* test cases of the root suite
    SuiteTests,     \* the other test cases, to be distributed
    MaxFailures     \* bound: how many workers may fail to start

Terminate == "terminate"

Tests == RootTests \cup SuiteTests
NProc == Cardinality(Workers)
NIds == Cardinality(SuiteTests)

ASSUME RunnerAssumption ==
    /\ RootTests \cap SuiteTests = {} /\ Terminate \notin Tests
    /\ IsFiniteSet(Tests) /\ IsFiniteSet(Workers)
    /\ MaxFailures \in Nat /\ MaxFailures < NProc

VARIABLES
    master,         \* where the master is
    ids,            \* test cases the master has still to send
    terminates,     \* terminate messages the master has still to send
    mq, rq, lq,     \* the queues of test ids, of results and of run times
    worker,         \* where each worker is
    id,             \* the message each worker received last
    runTimeLogs,    \* the run times each worker has still to send
    results,        \* m_results_store of the master
    received,       \* how many results the master has received
    logged,         \* how many run times the master has received
    runs            \* history: how often each test case was executed

vars == <<master, ids, terminates, mq, rq, lq, worker, id, runTimeLogs,
          results, received, logged, runs>>
masterState == <<master, ids, terminates, results, received, logged>>
workerState == <<worker, id, runTimeLogs>>

\* fault: no room for the terminate messages
MqCapacityForTests == Cardinality(SuiteTests)

MqCapacity == Cardinality(Tests) + NProc
RqCapacity == NProc
LqCapacity == NProc

Init ==
    /\ master = "root"
    /\ ids = SuiteTests
    /\ terminates = NProc
    /\ mq = <<>> /\ rq = <<>> /\ lq = <<>>
    /\ worker = [w \in Workers |-> "unforked"]
    /\ id = [w \in Workers |-> Terminate]
    /\ runTimeLogs = [w \in Workers |-> {}]
    /\ results = {}
    /\ received = 0
    /\ logged = 0
    /\ runs = [t \in Tests |-> 0]

Executed(t) == runs' = [runs EXCEPT ![t] = @ + 1]

-----------------------------------------------------------------------------
\* all root test cases but the last, one after the other
RunRootTest(t) ==
    /\ master = "root" /\ t \in RootTests \ results
    /\ Cardinality(RootTests \ results) > 1
    /\ Executed(t)
    /\ results' = results \cup {t}
    /\ UNCHANGED <<master, ids, terminates, received, logged, mq, rq, lq,
                   workerState>>

Fork ==
    /\ master = "root" /\ Cardinality(RootTests \ results) <= 1
    /\ master' = "distribute"
    /\ worker' = [w \in Workers |-> "starting"]
    /\ UNCHANGED <<ids, terminates, results, received, logged, mq, rq, lq, id,
                   runTimeLogs, runs>>

SendId(t) ==
    /\ master = "distribute" /\ t \in ids /\ Len(mq) < MqCapacity
    /\ mq' = Append(mq, t)
    /\ ids' = ids \ {t}
    /\ UNCHANGED <<master, terminates, results, received, logged, rq, lq, workerState, runs>>

\* fault: the terminate messages are sent ahead of the test cases
SendTerminateEarly ==
    /\ master = "distribute" /\ terminates > 0 /\ Len(mq) < MqCapacity
    /\ mq' = Append(mq, Terminate)
    /\ terminates' = terminates - 1
    /\ master' = IF ids = {} /\ terminates' = 0 THEN "collect" ELSE master
    /\ UNCHANGED <<ids, results, received, logged, rq, lq, workerState, runs>>

SendTerminate ==
    /\ master = "distribute" /\ ids = {} /\ terminates > 0
    /\ Len(mq) < MqCapacity
    /\ mq' = Append(mq, Terminate)
    /\ terminates' = terminates - 1
    /\ master' = IF terminates' = 0 THEN "collect" ELSE master
    /\ UNCHANGED <<ids, results, received, logged, rq, lq, workerState, runs>>

\* one result per distributed test case is awaited
ReceiveResult ==
    /\ master = "collect" /\ received < NIds /\ rq # <<>>
    /\ results' = results \cup {Head(rq)}
    /\ received' = received + 1
    /\ rq' = Tail(rq)
    /\ UNCHANGED <<master, ids, terminates, logged, mq, lq, workerState, runs>>

RunLastRootTest(t) ==
    /\ master = "collect" /\ received = NIds
    /\ t \in RootTests \ results
    /\ Executed(t)
    /\ results' = results \cup {t}
    /\ UNCHANGED <<master, ids, terminates, received, logged, mq, rq, lq,
                   workerState>>

\* fault: the report is made before the last results are in
MakeReportEarly ==
    /\ master = "collect" /\ mq = <<>>
    /\ master' = "logs"
    /\ UNCHANGED <<ids, terminates, results, received, logged, mq, rq, lq,
                   workerState, runs>>

MakeReport ==
    /\ master = "collect" /\ received = NIds
    /\ RootTests \subseteq results
    /\ master' = "logs"
    /\ UNCHANGED <<ids, terminates, results, received, logged, mq, rq, lq,
                   workerState, runs>>

ReceiveLog ==
    /\ master = "logs" /\ logged < NIds /\ lq # <<>>
    /\ logged' = logged + 1
    /\ lq' = Tail(lq)
    /\ UNCHANGED <<master, ids, terminates, results, received, mq, rq, workerState, runs>>

\* fault: the threads of workers that did not start are waited for as well
JoinExited ==
    /\ master = "logs" /\ logged = NIds
    /\ \A w \in Workers : worker[w] = "exited"
    /\ master' = "done"
    /\ UNCHANGED <<ids, terminates, results, received, logged, mq, rq, lq,
                   workerState, runs>>

\* threadGroup.join_all(): the threads wait for system() to return
JoinAll ==
    /\ master = "logs" /\ logged = NIds
    /\ \A w \in Workers : worker[w] \in {"exited", "failed"}
    /\ master' = "done"
    /\ UNCHANGED <<ids, terminates, results, received, logged, mq, rq, lq,
                   workerState, runs>>

-----------------------------------------------------------------------------
\* a worker process comes up, or system() cannot start it
Come(w) ==
    /\ worker[w] = "starting"
    /\ worker' = [worker EXCEPT ![w] = "receive"]
    /\ UNCHANGED <<masterState, mq, rq, lq, id, runTimeLogs, runs>>

FailToStart(w) ==
    /\ worker[w] = "starting"
    /\ Cardinality({v \in Workers : worker[v] = "failed"}) < MaxFailures
    /\ worker' = [worker EXCEPT ![w] = "failed"]
    /\ UNCHANGED <<masterState, mq, rq, lq, id, runTimeLogs, runs>>

\* fault: the message stays in the queue
PeekId(w) ==
    /\ worker[w] = "receive" /\ mq # <<>>
    /\ id' = [id EXCEPT ![w] = Head(mq)]
    /\ worker' = [worker EXCEPT ![w] = IF Head(mq) = Terminate THEN "logs" ELSE "run"]
    /\ UNCHANGED <<masterState, mq, rq, lq, runTimeLogs, runs>>

ReceiveId(w) ==
    /\ worker[w] = "receive" /\ mq # <<>>
    /\ id' = [id EXCEPT ![w] = Head(mq)]
    /\ mq' = Tail(mq)
    /\ worker' = [worker EXCEPT ![w] = IF Head(mq) = Terminate THEN "logs" ELSE "run"]
    /\ UNCHANGED <<masterState, rq, lq, runTimeLogs, runs>>

ExecuteTest(w) ==
    /\ worker[w] = "run"
    /\ Executed(id[w])
    /\ runTimeLogs' = [runTimeLogs EXCEPT ![w] = @ \cup {id[w]}]
    /\ worker' = [worker EXCEPT ![w] = "send"]
    /\ UNCHANGED <<masterState, mq, rq, lq, id>>

\* fault: the queue is not bounded
SendResultAtOnce(w) ==
    /\ worker[w] = "send"
    /\ rq' = Append(rq, id[w])
    /\ worker' = [worker EXCEPT ![w] = "receive"]
    /\ UNCHANGED <<masterState, mq, lq, id, runTimeLogs, runs>>

SendResult(w) ==
    /\ worker[w] = "send" /\ Len(rq) < RqCapacity
    /\ rq' = Append(rq, id[w])
    /\ worker' = [worker EXCEPT ![w] = "receive"]
    /\ UNCHANGED <<masterState, mq, lq, id, runTimeLogs, runs>>

SendLog(w, t) ==
    /\ worker[w] = "logs" /\ t \in runTimeLogs[w] /\ Len(lq) < LqCapacity
    /\ lq' = Append(lq, t)
    /\ runTimeLogs' = [runTimeLogs EXCEPT ![w] = @ \ {t}]
    /\ UNCHANGED <<masterState, mq, rq, worker, id, runs>>

Exit(w) ==
    /\ worker[w] = "logs" /\ runTimeLogs[w] = {}
    /\ worker' = [worker EXCEPT ![w] = "exited"]
    /\ UNCHANGED <<masterState, mq, rq, lq, id, runTimeLogs, runs>>

-----------------------------------------------------------------------------
MasterStep ==
    \/ \E t \in Tests : RunRootTest(t) \/ SendId(t) \/ RunLastRootTest(t)
    \/ Fork \/ SendTerminate \/ ReceiveResult \/ MakeReport \/ ReceiveLog \/ JoinAll

WorkerStep(w) ==
    \/ Come(w) \/ FailToStart(w) \/ ReceiveId(w) \/ ExecuteTest(w)
    \/ SendResult(w) \/ Exit(w) \/ \E t \in SuiteTests : SendLog(w, t)

\* the campaign is over
Terminated == master = "done" /\ UNCHANGED vars

Next == MasterStep \/ (\E w \in Workers : WorkerStep(w)) \/ Terminated

\* The operating system schedules every process that is not blocked.
Spec ==
    /\ Init /\ [][Next]_vars
    /\ WF_vars(MasterStep) /\ \A w \in Workers : WF_vars(WorkerStep(w))

-----------------------------------------------------------------------------
TypeOK ==
    /\ master \in {"root", "distribute", "collect", "logs", "done"}
    /\ ids \subseteq SuiteTests
    /\ terminates \in 0..NProc
    /\ mq \in Seq(SuiteTests \cup {Terminate}) /\ Len(mq) <= MqCapacity
    /\ rq \in Seq(SuiteTests) /\ Len(rq) <= RqCapacity
    /\ lq \in Seq(SuiteTests) /\ Len(lq) <= LqCapacity
    /\ worker \in [Workers -> {"unforked", "starting", "failed", "receive", "run",
                               "send", "logs", "exited"}]
    /\ id \in [Workers -> SuiteTests \cup {Terminate}]
    /\ runTimeLogs \in [Workers -> SUBSET SuiteTests]
    /\ results \subseteq Tests
    /\ received \in 0..NIds /\ logged \in 0..NIds
    /\ runs \in [Tests -> Nat]

\* A test case is executed at most once whichever process takes it, and has been
\* executed when its result is in the store (paralleltestrunner.hpp:267-365).
EachTestOnce ==
    \A t \in Tests : runs[t] <= 1 /\ (t \in results => runs[t] = 1)

\* The master never blocks while it distributes: the queue has room for every
\* message it will send (paralleltestrunner.hpp:246-247, 335-344).
DistributionNeverBlocks ==
    master = "distribute" => Len(mq) + Cardinality(ids) + terminates <= MqCapacity

\* A worker that leaves its loop leaves no test case behind: terminate messages
\* overtake nothing (paralleltestrunner.hpp:341-344, 413-438).
InQueue(q) == {q[k] : k \in DOMAIN q}
NoTestAbandoned ==
    (\E w \in Workers : worker[w] \in {"logs", "exited"})
        => ids = {} /\ InQueue(mq) \subseteq {Terminate}

\* The campaign ends, with some of the workers missing as well as with all of
\* them (paralleltestrunner.hpp:346-387).
CampaignEnds == <>(master = "done")

\* The runner implements the abstract campaign.
UnderWay ==
    {id[w] : w \in {v \in Workers : worker[v] = "send"}} \cup InQueue(rq)
Campaign == INSTANCE TestCampaign WITH
    waiting <- Tests \ (results \cup UnderWay),
    started <- UnderWay,
    collected <- results,
    reported <- master \in {"logs", "done"}
ImplementsCampaign == Campaign!CSpec
=============================================================================
