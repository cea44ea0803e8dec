---------------------- MODULE ParallelTestRunnerProofs ----------------------
(***************************************************************************)
(* What ParallelTestRunner promises, for any number of workers and of test *)
(* cases, whichever workers fail to start.                                 *)
(*                                                                         *)
(* Each test case is in one place only on its way from the master through  *)
(* the queue of ids, a worker and the queue of results into the store      *)
(* (InPlace), and how often it has been executed can be told from that     *)
(* place.  The messages in the queue of ids are in order, the test cases   *)
(* first (InOrder), and never too many (Room).  Counted is what makes the  *)
(* number of results received as good as the results themselves.           *)
(***************************************************************************)
EXTENDS ParallelTestRunner, FiniteSetTheorems, TLAPS

\* The elements of q that are test cases are different from each other.
TestsOnce(q) ==
    \A j, k \in DOMAIN q : j # k /\ q[j] \in SuiteTests => q[j] # q[k]

Holding(w) == worker[w] \in {"run", "send"}

InPlace ==
    /\ \A w \in Workers : Holding(w) => id[w] \in SuiteTests
    /\ \A v, w \in Workers : Holding(v) /\ Holding(w) /\ id[v] = id[w] => v = w
    /\ TestsOnce(mq) /\ TestsOnce(rq)
    /\ ids \cap InQueue(mq) = {} /\ InQueue(rq) \cap results = {}
    /\ \A w \in Workers : worker[w] = "run" => id[w] \notin ids \cup InQueue(mq)
    /\ \A w \in Workers : worker[w] = "send" => id[w] \notin InQueue(rq) \cup results

\* The number of executions of each test case, by its place.
Count ==
    /\ \A t \in Tests : runs[t] \in {0, 1}
    /\ \A t \in ids \cup (InQueue(mq) \cap SuiteTests) : runs[t] = 0
    /\ \A t \in RootTests \ results : runs[t] = 0
    /\ \A t \in InQueue(rq) \cup results : runs[t] = 1
    /\ \A w \in Workers : worker[w] = "run" => runs[id[w]] = 0
    /\ \A w \in Workers : worker[w] = "send" => runs[id[w]] = 1

\* No test case comes after a terminate message.
InOrder ==
    /\ \A j, k \in DOMAIN mq : j < k /\ mq[j] = Terminate => mq[k] = Terminate
    /\ Terminate \in InQueue(mq) => ids = {}
    /\ NoTestAbandoned

\* Whatever is still to be sent fits into the queue.
Room == Len(mq) + Cardinality(ids) + terminates <= MqCapacity

Counted == received = Cardinality(results \cap SuiteTests)

NotForked == master = "root" => \A w \in Workers : worker[w] = "unforked"

-----------------------------------------------------------------------------
(***************************************************************************)
(* The constants and the queues.                                           *)
(***************************************************************************)

LEMMA Numbers ==
    /\ NProc \in Nat /\ NIds \in Nat /\ Cardinality(Tests) \in Nat
    /\ NIds <= Cardinality(Tests) /\ IsFiniteSet(SuiteTests)
<1>1. SuiteTests \in SUBSET Tests
    BY DEF Tests
<1> QED BY <1>1, RunnerAssumption, FS_Subset, FS_CardinalityType DEF NProc, NIds

\* Sending puts a message into the queue and takes none out.
LEMMA Appended ==
    ASSUME NEW S, NEW q \in Seq(S), NEW x \in S
    PROVE  /\ Append(q, x) \in Seq(S)
           /\ InQueue(Append(q, x)) = InQueue(q) \cup {x}
           /\ Len(Append(q, x)) = Len(q) + 1
           /\ TestsOnce(q) /\ (x \in InQueue(q) => x \notin SuiteTests)
                => TestsOnce(Append(q, x))
<1> DEFINE p == Append(q, x)
<1>1. /\ p \in Seq(S) /\ Len(p) = Len(q) + 1
      /\ DOMAIN p = 1..Len(q) + 1 /\ DOMAIN q = 1..Len(q)
      /\ \A k \in DOMAIN q : p[k] = q[k]
      /\ p[Len(q) + 1] = x /\ Len(q) \in Nat
    OBVIOUS
<1> HIDE DEF p
<1>2. InQueue(p) = InQueue(q) \cup {x}
    BY <1>1 DEF InQueue
<1>3. ASSUME TestsOnce(q), x \in InQueue(q) => x \notin SuiteTests
      PROVE  TestsOnce(p)
    BY <1>1, <1>3 DEF TestsOnce, InQueue
<1> QED BY <1>1, <1>2, <1>3 DEF p

\* Receiving takes the first message out, and with it the only one of a test case.
LEMMA Received ==
    ASSUME NEW S, NEW q \in Seq(S), q # <<>>
    PROVE  /\ Head(q) \in S /\ Head(q) \in InQueue(q)
           /\ Tail(q) \in Seq(S) /\ Len(Tail(q)) = Len(q) - 1
           /\ InQueue(q) = InQueue(Tail(q)) \cup {Head(q)}
           /\ TestsOnce(q) => /\ TestsOnce(Tail(q))
                              /\ Head(q) \in SuiteTests => Head(q) \notin InQueue(Tail(q))
<1> DEFINE p == Tail(q)
<1>1. /\ p \in Seq(S) /\ Len(p) = Len(q) - 1 /\ Len(q) \in Nat /\ Len(q) >= 1
      /\ DOMAIN p = 1..Len(q) - 1 /\ DOMAIN q = 1..Len(q)
      /\ \A k \in DOMAIN p : p[k] = q[k + 1]
      /\ Head(q) = q[1] /\ Head(q) \in S
    OBVIOUS
<1> HIDE DEF p
<1>2. Head(q) \in InQueue(q)
    BY <1>1 DEF InQueue
<1>3. InQueue(p) \subseteq InQueue(q)
    BY <1>1 DEF InQueue
<1>4. ASSUME NEW k \in DOMAIN q
      PROVE  q[k] \in InQueue(p) \cup {Head(q)}
    <2>1. CASE k = 1
        BY <1>1, <2>1
    <2>2. CASE k # 1
        <3>1. k - 1 \in DOMAIN p /\ p[k - 1] = q[k]
            BY <1>1, <2>2
        <3> QED BY <3>1 DEF InQueue
    <2> QED BY <2>1, <2>2
<1>5. InQueue(q) = InQueue(p) \cup {Head(q)}
    BY <1>2, <1>3, <1>4 DEF InQueue
<1>6. ASSUME TestsOnce(q)
      PROVE  TestsOnce(p) /\ (Head(q) \in SuiteTests => Head(q) \notin InQueue(p))
    <2>1. \A k \in DOMAIN p : k \in Int /\ k + 1 \in DOMAIN q /\ k + 1 # 1 /\ p[k] = q[k + 1]
        BY <1>1
    <2>2. ASSUME NEW j \in DOMAIN p, NEW k \in DOMAIN p, j # k, p[j] \in SuiteTests
          PROVE  p[j] # p[k]
        <3>1. j + 1 # k + 1
            BY <2>1, <2>2
        <3> QED BY <1>6, <2>1, <2>2, <3>1 DEF TestsOnce
    <2>3. ASSUME Head(q) \in SuiteTests, NEW k \in DOMAIN p
          PROVE  p[k] # Head(q)
        <3>1. 1 \in DOMAIN q
            BY <1>1
        <3> QED BY <1>1, <1>6, <2>1, <2>3, <3>1 DEF TestsOnce
    <2> QED BY <2>2, <2>3 DEF TestsOnce, InQueue
<1> QED BY <1>1, <1>2, <1>5, <1>6 DEF p

LEMMA EmptyQueue == InQueue(<<>>) = {} /\ TestsOnce(<<>>)
BY DEF InQueue, TestsOnce

-----------------------------------------------------------------------------
LEMMA TypeInit == Init => TypeOK /\ InPlace
<1> SUFFICES ASSUME Init PROVE TypeOK /\ InPlace
    OBVIOUS
<1>1. Cardinality(Tests) + NProc \in Nat /\ NProc \in Nat /\ NIds \in Nat
    BY Numbers
<1>2. TypeOK
    BY <1>1 DEF Init, TypeOK, MqCapacity, RqCapacity, LqCapacity
<1>3. InPlace
    BY EmptyQueue DEF Init, InPlace, Holding
<1> QED BY <1>2, <1>3

\* The place of every test case, and the types, are kept by every step.
LEMMA PlaceStep == TypeOK /\ InPlace /\ Count /\ [Next]_vars => TypeOK' /\ InPlace'
<1> SUFFICES ASSUME TypeOK, InPlace, Count, [Next]_vars
             PROVE  TypeOK' /\ InPlace'
    OBVIOUS
<1> USE Numbers DEF masterState, workerState
<1>m. SuiteTests \subseteq Tests /\ Terminate \notin SuiteTests
    BY RunnerAssumption DEF Tests
<1>q. /\ mq \in Seq(SuiteTests \cup {Terminate})
      /\ rq \in Seq(SuiteTests) /\ lq \in Seq(SuiteTests)
    BY DEF TypeOK
<1>1. ASSUME NEW t \in Tests, RunRootTest(t)
      PROVE  TypeOK' /\ InPlace'
    <2>1. TypeOK'
        BY <1>1 DEF RunRootTest, Executed, TypeOK
    <2>2. t \notin InQueue(rq) /\ \A w \in Workers : worker[w] = "send" => id[w] # t
        BY <1>1, RunnerAssumption DEF RunRootTest, InPlace, Count, Tests, Holding
    <2>3. InPlace'
        BY <1>1, <2>2 DEF RunRootTest, InPlace, Holding, InQueue, TestsOnce
    <2> QED BY <2>1, <2>3
<1>2. CASE Fork
    <2>1. TypeOK'
        BY <1>2 DEF Fork, TypeOK
    <2>2. InPlace'
        BY <1>2 DEF Fork, InPlace, Holding, InQueue, TestsOnce
    <2> QED BY <2>1, <2>2
<1>3. ASSUME NEW t \in Tests, SendId(t)
      PROVE  TypeOK' /\ InPlace'
    <2>1. /\ mq' \in Seq(SuiteTests \cup {Terminate})
          /\ InQueue(mq') = InQueue(mq) \cup {t} /\ Len(mq') = Len(mq) + 1
          /\ TestsOnce(mq')
        BY <1>3, <1>q, Appended DEF SendId, TypeOK, InPlace
    <2>2. TypeOK'
        BY <1>3, <2>1 DEF SendId, TypeOK, MqCapacity
    <2>3. InPlace'
        BY <1>3, <2>1 DEF SendId, InPlace, Holding, InQueue, TestsOnce
    <2> QED BY <2>2, <2>3
<1>4. CASE SendTerminate
    <2>1. /\ mq' \in Seq(SuiteTests \cup {Terminate})
          /\ InQueue(mq') = InQueue(mq) \cup {Terminate} /\ Len(mq') = Len(mq) + 1
          /\ TestsOnce(mq')
        BY <1>4, <1>m, <1>q, Appended DEF SendTerminate, TypeOK, InPlace
    <2>2. TypeOK'
        BY <1>4, <2>1 DEF SendTerminate, TypeOK, MqCapacity
    <2>3. InPlace'
        BY <1>4, <1>m, <2>1 DEF SendTerminate, InPlace, Holding, InQueue, TestsOnce
    <2> QED BY <2>2, <2>3
<1>5. CASE ReceiveResult
    <2>1. /\ Head(rq) \in SuiteTests /\ rq' \in Seq(SuiteTests)
          /\ Len(rq') = Len(rq) - 1
          /\ InQueue(rq) = InQueue(rq') \cup {Head(rq)}
          /\ TestsOnce(rq') /\ Head(rq) \notin InQueue(rq')
        BY <1>5, <1>q, Received DEF ReceiveResult, InPlace
    <2>2. TypeOK'
        BY <1>5, <1>m, <2>1 DEF ReceiveResult, TypeOK, RqCapacity
    <2>3. InPlace'
        <3>1. /\ results' = results \cup {Head(rq)}
              /\ UNCHANGED <<ids, mq, worker, id>>
              /\ UNCHANGED <<InQueue(mq), TestsOnce(mq)>>
            BY <1>5 DEF ReceiveResult, InQueue, TestsOnce
        <3> QED BY <2>1, <3>1 DEF InPlace, Holding
    <2> QED BY <2>2, <2>3
<1>6. ASSUME NEW t \in Tests, RunLastRootTest(t)
      PROVE  TypeOK' /\ InPlace'
    <2>1. TypeOK'
        BY <1>6 DEF RunLastRootTest, Executed, TypeOK
    <2>2. t \notin InQueue(rq) /\ \A w \in Workers : worker[w] = "send" => id[w] # t
        BY <1>6, RunnerAssumption DEF RunLastRootTest, InPlace, Count, Tests, Holding
    <2>3. InPlace'
        BY <1>6, <2>2 DEF RunLastRootTest, InPlace, Holding, InQueue, TestsOnce
    <2> QED BY <2>1, <2>3
<1>7. CASE MakeReport
    <2>1. TypeOK'
        BY <1>7 DEF MakeReport, TypeOK
    <2>2. InPlace'
        BY <1>7 DEF MakeReport, InPlace, Holding, InQueue, TestsOnce
    <2> QED BY <2>1, <2>2
<1>8. CASE ReceiveLog
    <2>1. lq' \in Seq(SuiteTests) /\ Len(lq') = Len(lq) - 1
        BY <1>8, <1>q, Received DEF ReceiveLog
    <2>2. TypeOK'
        BY <1>8, <2>1 DEF ReceiveLog, TypeOK, LqCapacity
    <2>3. InPlace'
        BY <1>8 DEF ReceiveLog, InPlace, Holding, InQueue, TestsOnce
    <2> QED BY <2>2, <2>3
<1>9. CASE JoinAll
    <2>1. TypeOK'
        BY <1>9 DEF JoinAll, TypeOK
    <2>2. InPlace'
        BY <1>9 DEF JoinAll, InPlace, Holding, InQueue, TestsOnce
    <2> QED BY <2>1, <2>2
<1>10. ASSUME NEW w \in Workers, Come(w) \/ FailToStart(w) \/ Exit(w)
       PROVE  TypeOK' /\ InPlace'
    <2>1. TypeOK'
        BY <1>10 DEF Come, FailToStart, Exit, TypeOK
    <2>2. /\ \A v \in Workers : worker'[v] = worker[v] \/ worker'[v] \notin {"run", "send"}
          /\ UNCHANGED <<ids, id, mq, rq, results>>
        BY <1>10 DEF Come, FailToStart, Exit, TypeOK
    <2>3. InPlace'
        BY <2>2 DEF InPlace, Holding, InQueue, TestsOnce
    <2> QED BY <2>1, <2>3
<1>11. ASSUME NEW w \in Workers, ReceiveId(w)
       PROVE  TypeOK' /\ InPlace'
    <2>1. /\ Head(mq) \in SuiteTests \cup {Terminate}
          /\ mq' \in Seq(SuiteTests \cup {Terminate})
          /\ Len(mq') = Len(mq) - 1
          /\ InQueue(mq) = InQueue(mq') \cup {Head(mq)}
          /\ TestsOnce(mq')
          /\ Head(mq) \in SuiteTests => Head(mq) \notin InQueue(mq')
        BY <1>11, <1>q, Received DEF ReceiveId, InPlace
    <2>2. TypeOK'
        BY <1>11, <2>1 DEF ReceiveId, TypeOK, MqCapacity
    <2>3. /\ id'[w] = Head(mq) /\ \A v \in Workers : v # w => id'[v] = id[v]
          /\ worker'[w] = IF Head(mq) = Terminate THEN "logs" ELSE "run"
          /\ \A v \in Workers : v # w => worker'[v] = worker[v]
        BY <1>11 DEF ReceiveId, TypeOK
    <2>4. \A v \in Workers : Holding(v) => id[v] # Head(mq)
        BY <2>1, <1>11 DEF InPlace, Count, Holding
    <2>5. InPlace'
        BY <1>11, <2>1, <2>3, <2>4 DEF ReceiveId, InPlace, Holding
    <2> QED BY <2>2, <2>5
<1>12. ASSUME NEW w \in Workers, ExecuteTest(w)
       PROVE  TypeOK' /\ InPlace'
    <2>1. id[w] \in SuiteTests
        BY <1>12 DEF ExecuteTest, InPlace, Holding
    <2>2. TypeOK'
        BY <1>12, <2>1, <1>m DEF ExecuteTest, Executed, TypeOK
    <2>3. id[w] \notin InQueue(rq) \cup results
        BY <1>12, <2>1 DEF ExecuteTest, Count
    <2>4. InPlace'
        BY <1>12, <2>3 DEF ExecuteTest, InPlace, Holding, InQueue, TestsOnce, TypeOK
    <2> QED BY <2>2, <2>4
<1>13. ASSUME NEW w \in Workers, SendResult(w)
       PROVE  TypeOK' /\ InPlace'
    <2>1. id[w] \in SuiteTests /\ id[w] \notin InQueue(rq)
        BY <1>13 DEF SendResult, InPlace, Holding
    <2>2. /\ rq' \in Seq(SuiteTests)
          /\ InQueue(rq') = InQueue(rq) \cup {id[w]} /\ Len(rq') = Len(rq) + 1
          /\ TestsOnce(rq')
        BY <1>13, <1>q, <2>1, Appended DEF SendResult, InPlace
    <2>3. TypeOK'
        BY <1>13, <2>2 DEF SendResult, TypeOK, RqCapacity
    <2>4. /\ UNCHANGED <<ids, id, results>>
          /\ UNCHANGED <<InQueue(mq), TestsOnce(mq)>>
          /\ worker'[w] = "receive" /\ \A v \in Workers : v # w => worker'[v] = worker[v]
        BY <1>13 DEF SendResult, InQueue, TestsOnce, TypeOK
    <2>5. id[w] \notin results /\ worker[w] = "send"
        BY <1>13 DEF SendResult, InPlace
    <2>6. InPlace'
        BY <2>2, <2>4, <2>5 DEF InPlace, Holding
    <2> QED BY <2>3, <2>6
<1>14. ASSUME NEW w \in Workers, NEW t \in SuiteTests, SendLog(w, t)
       PROVE  TypeOK' /\ InPlace'
    <2>1. lq' \in Seq(SuiteTests) /\ Len(lq') = Len(lq) + 1
        BY <1>14, <1>q, Appended DEF SendLog
    <2>2. TypeOK'
        BY <1>14, <2>1 DEF SendLog, TypeOK, LqCapacity
    <2>3. InPlace'
        BY <1>14 DEF SendLog, InPlace, Holding, InQueue, TestsOnce
    <2> QED BY <2>2, <2>3
<1>15. CASE UNCHANGED vars
    BY <1>15 DEF vars, TypeOK, InPlace, Holding, InQueue, TestsOnce
<1> QED
    BY <1>1, <1>2, <1>3, <1>4, <1>5, <1>6, <1>7, <1>8, <1>9, <1>10, <1>11, <1>12,
       <1>13, <1>14, <1>15 DEF Next, MasterStep, WorkerStep, Terminated

-----------------------------------------------------------------------------
LEMMA CountInit == Init => Count
<1> SUFFICES ASSUME Init PROVE Count
    OBVIOUS
<1>1. SuiteTests \subseteq Tests /\ RootTests \subseteq Tests
    BY DEF Tests
<1> QED BY <1>1, EmptyQueue DEF Init, Count

\* A test case is executed when its place changes from a worker that runs it to one
\* that sends its result, or straight to the store, and at no other time.
LEMMA CountStep == TypeOK /\ InPlace /\ Count /\ [Next]_vars => Count'
<1> SUFFICES ASSUME TypeOK, InPlace, Count, [Next]_vars
             PROVE  Count'
    OBVIOUS
<1> USE DEF masterState, workerState
<1>m. /\ SuiteTests \subseteq Tests /\ RootTests \subseteq Tests
      /\ Terminate \notin SuiteTests /\ RootTests \cap SuiteTests = {}
    BY RunnerAssumption DEF Tests
<1>q. mq \in Seq(SuiteTests \cup {Terminate}) /\ rq \in Seq(SuiteTests)
    BY DEF TypeOK
<1>s. InQueue(rq) \subseteq SuiteTests
    BY <1>q DEF InQueue
<1>1. ASSUME NEW t \in RootTests \ results, Executed(t), results' = results \cup {t},
             UNCHANGED <<ids, mq, rq, worker, id>>
      PROVE  Count'
    <2>1. /\ runs'[t] = 1 /\ \A u \in Tests : u # t => runs'[u] = runs[u]
        BY <1>1, <1>m DEF Executed, TypeOK, Count
    <2>2. t \notin SuiteTests
        BY <1>1, <1>m
    <2>3. UNCHANGED <<InQueue(mq), InQueue(rq)>>
        BY <1>1 DEF InQueue
    <2>4. ids \subseteq SuiteTests /\ \A w \in Workers : Holding(w) => id[w] \in SuiteTests
        BY DEF TypeOK, InPlace
    <2>5. \A u \in SuiteTests : u \in Tests /\ runs'[u] = runs[u]
        BY <1>m, <2>1, <2>2
    <2>6. /\ \A u \in Tests : runs'[u] \in {0, 1}
          /\ \A u \in RootTests \ results' : runs'[u] = 0
        BY <1>1, <1>m, <2>1 DEF Count
    <2>7. \A u \in ids' \cup (InQueue(mq') \cap SuiteTests) : runs'[u] = 0
        BY <1>1, <2>4, <2>5 DEF Count
    <2>8. \A u \in InQueue(rq') \cup results' : runs'[u] = 1
        <3>1. results \subseteq Tests
            BY DEF TypeOK
        <3> QED BY <1>1, <1>s, <2>1, <2>5, <3>1 DEF Count
    <2>9. /\ \A w \in Workers : worker'[w] = "run" => runs'[id'[w]] = 0
          /\ \A w \in Workers : worker'[w] = "send" => runs'[id'[w]] = 1
        BY <1>1, <2>4, <2>5 DEF Count, Holding
    <2> QED BY <2>6, <2>7, <2>8, <2>9 DEF Count
<1>2. ASSUME NEW t \in Tests, SendId(t)
      PROVE  Count'
    <2>1. InQueue(mq') = InQueue(mq) \cup {t}
        <3>1. t \in SuiteTests /\ mq' = Append(mq, t)
            BY <1>2 DEF SendId, TypeOK
        <3> QED BY <1>q, <3>1, Appended
    <2> QED BY <1>2, <2>1 DEF SendId, Count, InQueue
<1>3. CASE SendTerminate
    <2>1. InQueue(mq') = InQueue(mq) \cup {Terminate}
        BY <1>3, <1>q, Appended DEF SendTerminate
    <2> QED BY <1>3, <1>m, <2>1 DEF SendTerminate, Count, InQueue
<1>4. CASE ReceiveResult
    <2>1. InQueue(rq) = InQueue(rq') \cup {Head(rq)}
        BY <1>4, <1>q, Received DEF ReceiveResult
    <2> QED BY <1>4, <2>1 DEF ReceiveResult, Count, InQueue
<1>5. ASSUME NEW w \in Workers, ReceiveId(w)
      PROVE  Count'
    <2>1. /\ InQueue(mq) = InQueue(mq') \cup {Head(mq)}
          /\ Head(mq) \in SuiteTests \cup {Terminate}
        BY <1>5, <1>q, Received DEF ReceiveId
    <2>2. /\ id'[w] = Head(mq) /\ \A v \in Workers : v # w => id'[v] = id[v]
          /\ worker'[w] = IF Head(mq) = Terminate THEN "logs" ELSE "run"
          /\ \A v \in Workers : v # w => worker'[v] = worker[v]
        BY <1>5 DEF ReceiveId, TypeOK
    <2>3. UNCHANGED <<ids, results, runs, InQueue(rq)>>
        BY <1>5 DEF ReceiveId, InQueue
    <2> QED BY <2>1, <2>2, <2>3 DEF Count
<1>6. ASSUME NEW w \in Workers, ExecuteTest(w)
      PROVE  Count'
    <2>1. /\ id[w] \in SuiteTests /\ runs[id[w]] = 0
          /\ \A v \in Workers : v # w /\ Holding(v) => id[v] # id[w]
          /\ id[w] \notin ids \cup InQueue(mq) \cup InQueue(rq) \cup results
        BY <1>6 DEF ExecuteTest, InPlace, Holding, Count
    <2>2. /\ runs'[id[w]] = 1
          /\ \A u \in Tests : u # id[w] => runs'[u] = runs[u]
          /\ worker'[w] = "send" /\ \A v \in Workers : v # w => worker'[v] = worker[v]
        BY <1>6, <1>m, <2>1 DEF ExecuteTest, Executed, TypeOK
    <2>3. ids \subseteq Tests /\ results \subseteq Tests /\ InQueue(rq) \subseteq Tests
        BY <1>m, <1>s DEF TypeOK
    <2>4. UNCHANGED <<ids, results, id, InQueue(mq), InQueue(rq)>>
        BY <1>6 DEF ExecuteTest, InQueue
    <2>5. \A v \in Workers : Holding(v) => id[v] \in Tests
        BY <1>m DEF InPlace
    <2> QED BY <1>m, <2>1, <2>2, <2>3, <2>4, <2>5 DEF Count, Holding
<1>7. ASSUME NEW w \in Workers, SendResult(w)
      PROVE  Count'
    <2>1. id[w] \in SuiteTests /\ runs[id[w]] = 1
        BY <1>7 DEF SendResult, InPlace, Holding, Count
    <2>2. InQueue(rq') = InQueue(rq) \cup {id[w]}
        BY <1>7, <1>q, <2>1, Appended DEF SendResult
    <2>3. /\ worker'[w] = "receive" /\ \A v \in Workers : v # w => worker'[v] = worker[v]
          /\ UNCHANGED <<ids, results, id, runs, InQueue(mq)>>
        BY <1>7 DEF SendResult, InQueue, TypeOK
    <2> QED BY <2>1, <2>2, <2>3 DEF Count
<1>8. ASSUME UNCHANGED <<ids, mq, rq, results, id, runs>>,
             \A v \in Workers : worker'[v] = worker[v] \/ worker'[v] \notin {"run", "send"}
      PROVE  Count'
    BY <1>8 DEF Count, InQueue
<1>9. CASE \E t \in Tests : RunRootTest(t) \/ RunLastRootTest(t)
    BY <1>9, <1>1 DEF RunRootTest, RunLastRootTest
<1>10. CASE Fork \/ MakeReport \/ ReceiveLog \/ JoinAll \/ UNCHANGED vars
    BY <1>10, <1>8 DEF Fork, MakeReport, ReceiveLog, JoinAll, vars
<1>11. ASSUME NEW w \in Workers, NEW t \in SuiteTests, SendLog(w, t)
       PROVE  Count'
    BY <1>8, <1>11 DEF SendLog
<1>12. ASSUME NEW w \in Workers, Come(w) \/ FailToStart(w) \/ Exit(w)
       PROVE  Count'
    <2>1. \A v \in Workers : worker'[v] = worker[v] \/ worker'[v] \notin {"run", "send"}
        BY <1>12 DEF Come, FailToStart, Exit, TypeOK
    <2>2. UNCHANGED <<ids, mq, rq, results, id, runs>>
        BY <1>12 DEF Come, FailToStart, Exit
    <2> QED BY <1>8, <2>1, <2>2
<1> QED
    BY <1>2, <1>3, <1>4, <1>5, <1>6, <1>7, <1>9, <1>10, <1>11, <1>12
       DEF Next, MasterStep, WorkerStep, Terminated

\* The processes of the runner never leave their states, and every message is of
\* the kind its queue is for.
THEOREM TypeInvariance == Spec => []TypeOK
BY TypeInit, PlaceStep, CountInit, CountStep, PTL DEF Spec

\* Each test case is executed at most once, whichever process takes it, and
\* was executed if its result is in the store (paralleltestrunner.hpp:267-365).
THEOREM EachOnce == Spec => []EachTestOnce
<1>1. Count => EachTestOnce
    BY DEF Count, EachTestOnce
<1> QED BY <1>1, TypeInit, PlaceStep, CountInit, CountStep, PTL DEF Spec

-----------------------------------------------------------------------------
\* The queue of ids has room for all test cases and all terminate messages.
LEMMA RoomInit == Init => Room
<1>1. NProc \in Nat /\ NIds \in Nat /\ Cardinality(Tests) \in Nat
      /\ NIds <= Cardinality(Tests)
    BY Numbers
<1> QED BY <1>1 DEF Init, Room, MqCapacity, NIds

LEMMA RoomStep == TypeOK /\ Room /\ [Next]_vars => Room'
<1> SUFFICES ASSUME TypeOK, Room, [Next]_vars PROVE Room'
    OBVIOUS
<1> USE DEF masterState, workerState
<1>n. /\ MqCapacity \in Nat /\ Len(mq) \in Nat /\ terminates \in Nat
      /\ IsFiniteSet(ids) /\ Cardinality(ids) \in Nat
    <2>1. IsFiniteSet(ids) /\ Cardinality(ids) \in Nat
        BY Numbers, FS_Subset, FS_CardinalityType DEF TypeOK
    <2> QED BY <2>1, Numbers DEF TypeOK, MqCapacity
<1>1. ASSUME NEW t \in Tests, SendId(t)
      PROVE  Room'
    <2>1. Cardinality(ids \ {t}) = Cardinality(ids) - 1
        BY <1>1, <1>n, FS_RemoveElement DEF SendId
    <2>2. Len(mq') = Len(mq) + 1
        BY <1>1, Appended DEF SendId, TypeOK
    <2> QED BY <1>1, <1>n, <2>1, <2>2 DEF SendId, Room
<1>2. CASE SendTerminate
    <2>1. Len(mq') = Len(mq) + 1
        BY <1>2, Appended DEF SendTerminate, TypeOK
    <2> QED BY <1>2, <1>n, <2>1 DEF SendTerminate, Room
<1>3. ASSUME NEW w \in Workers, ReceiveId(w)
      PROVE  Room'
    <2>1. Len(mq') = Len(mq) - 1
        BY <1>3, Received DEF ReceiveId, TypeOK
    <2> QED BY <1>3, <1>n, <2>1 DEF ReceiveId, Room
<1>4. CASE UNCHANGED <<mq, ids, terminates>>
    BY <1>4 DEF Room
<1> QED
    BY <1>1, <1>2, <1>3, <1>4
       DEF Next, MasterStep, WorkerStep, Terminated, vars, RunRootTest, Fork,
           ReceiveResult, RunLastRootTest, MakeReport, ReceiveLog, JoinAll, Come,
           FailToStart, ExecuteTest, SendResult, SendLog, Exit

\* The master is never blocked by a full queue while it distributes test cases
\* and terminate messages (paralleltestrunner.hpp:246-247, 335-344).
THEOREM NeverBlocks == Spec => []DistributionNeverBlocks
<1>1. Room => DistributionNeverBlocks
    BY DEF Room, DistributionNeverBlocks
<1> QED BY <1>1, TypeInit, PlaceStep, CountInit, CountStep, RoomInit, RoomStep, PTL
        DEF Spec

-----------------------------------------------------------------------------
LEMMA InOrderInit == Init => InOrder
BY EmptyQueue DEF Init, InOrder, NoTestAbandoned

\* Terminate messages are sent last and received last.
LEMMA InOrderStep == TypeOK /\ InOrder /\ [Next]_vars => InOrder'
<1> SUFFICES ASSUME TypeOK, InOrder, [Next]_vars PROVE InOrder'
    OBVIOUS
<1> USE DEF masterState, workerState
<1>m. Terminate \notin SuiteTests
    BY RunnerAssumption DEF Tests
<1>q. /\ mq \in Seq(SuiteTests \cup {Terminate})
      /\ DOMAIN mq = 1..Len(mq) /\ Len(mq) \in Nat
    BY DEF TypeOK
<1>1. ASSUME NEW t \in Tests, SendId(t)
      PROVE  InOrder'
    <2>1. t \in SuiteTests /\ Terminate \notin InQueue(mq)
        BY <1>1 DEF SendId, TypeOK, InOrder
    <2>2. InQueue(mq') = InQueue(mq) \cup {t}
        BY <1>1, <1>q, <2>1, Appended DEF SendId
    <2>3. Terminate \notin InQueue(mq')
        BY <1>m, <2>1, <2>2
    <2>4. \A v \in Workers : worker[v] \notin {"logs", "exited"}
        BY <1>1 DEF SendId, InOrder, NoTestAbandoned
    <2> QED BY <1>1, <2>3, <2>4 DEF SendId, InOrder, NoTestAbandoned, InQueue
<1>2. CASE SendTerminate
    <2>1. InQueue(mq') = InQueue(mq) \cup {Terminate}
        BY <1>2, <1>q, Appended DEF SendTerminate
    <2>2. \A j, k \in DOMAIN mq' : j < k /\ mq'[j] = Terminate => mq'[k] = Terminate
        <3>1. /\ DOMAIN mq' = 1..Len(mq) + 1 /\ mq'[Len(mq) + 1] = Terminate
              /\ \A k \in DOMAIN mq : mq'[k] = mq[k]
            BY <1>2, <1>q DEF SendTerminate
        <3> QED BY <1>q, <3>1 DEF InOrder
    <2> QED BY <1>2, <2>1, <2>2 DEF SendTerminate, InOrder, NoTestAbandoned
<1>3. ASSUME NEW w \in Workers, ReceiveId(w)
      PROVE  InOrder'
    <2>1. /\ InQueue(mq) = InQueue(mq') \cup {Head(mq)}
          /\ Head(mq) \in SuiteTests \cup {Terminate}
        BY <1>3, <1>q, Received DEF ReceiveId
    <2>2. /\ DOMAIN mq' = 1..Len(mq) - 1 /\ Head(mq) = mq[1] /\ Len(mq) >= 1
          /\ \A k \in DOMAIN mq' : mq'[k] = mq[k + 1]
        BY <1>3, <1>q DEF ReceiveId
    <2>3. \A j, k \in DOMAIN mq' : j < k /\ mq'[j] = Terminate => mq'[k] = Terminate
        BY <1>q, <2>2 DEF InOrder
    <2>4. Head(mq) = Terminate => InQueue(mq') \subseteq {Terminate}
        BY <1>q, <2>2 DEF InOrder, InQueue
    <2>5. /\ worker'[w] = IF Head(mq) = Terminate THEN "logs" ELSE "run"
          /\ \A v \in Workers : v # w => worker'[v] = worker[v]
        BY <1>3 DEF ReceiveId, TypeOK
    <2>6. ids' = ids
        BY <1>3 DEF ReceiveId
    <2> QED BY <2>1, <2>3, <2>4, <2>5, <2>6 DEF InOrder, NoTestAbandoned
<1>4. ASSUME UNCHANGED <<mq, ids>>,
             \A v \in Workers :
                 worker'[v] \in {"logs", "exited"} => worker[v] \in {"logs", "exited"}
      PROVE  InOrder'
    BY <1>4 DEF InOrder, NoTestAbandoned, InQueue
<1>5. ASSUME NEW w \in Workers,
             Come(w) \/ FailToStart(w) \/ ExecuteTest(w) \/ SendResult(w) \/ Exit(w)
      PROVE  InOrder'
    <2>1. UNCHANGED <<mq, ids>>
        BY <1>5 DEF Come, FailToStart, ExecuteTest, SendResult, Exit
    <2>2. \A v \in Workers :
              worker'[v] \in {"logs", "exited"} => worker[v] \in {"logs", "exited"}
        BY <1>5 DEF Come, FailToStart, ExecuteTest, SendResult, Exit, TypeOK
    <2> QED BY <1>4, <2>1, <2>2
<1>6. CASE Fork
    BY <1>4, <1>6 DEF Fork
<1>7. CASE UNCHANGED <<mq, ids, worker>>
    BY <1>4, <1>7
<1> QED
    BY <1>1, <1>2, <1>3, <1>5, <1>6, <1>7
       DEF Next, MasterStep, WorkerStep, Terminated, vars, RunRootTest,
           ReceiveResult, RunLastRootTest, MakeReport, ReceiveLog, JoinAll, SendLog

\* No worker leaves its loop while a test case waits to be distributed or received
\* (paralleltestrunner.hpp:341-344, 413-438).
THEOREM NothingAbandoned == Spec => []NoTestAbandoned
<1>1. InOrder => NoTestAbandoned
    BY DEF InOrder
<1> QED BY <1>1, TypeInit, PlaceStep, CountInit, CountStep, InOrderInit, InOrderStep,
           PTL DEF Spec

-----------------------------------------------------------------------------
(***************************************************************************)
(* The runner implements the campaign, but for its liveness.               *)
(***************************************************************************)

LEMMA CountedInit == Init => Counted
BY FS_EmptySet DEF Init, Counted

LEMMA CountedStep == TypeOK /\ InPlace /\ Counted /\ [Next]_vars => Counted'
<1> SUFFICES ASSUME TypeOK, InPlace, Counted, [Next]_vars PROVE Counted'
    OBVIOUS
<1> USE DEF masterState, workerState
<1>1. CASE ReceiveResult
    <2>1. Head(rq) \in SuiteTests /\ Head(rq) \in InQueue(rq)
        BY <1>1, Received DEF ReceiveResult, TypeOK
    <2>2. Head(rq) \notin results
        BY <2>1 DEF InPlace
    <2>3. results' \cap SuiteTests = (results \cap SuiteTests) \cup {Head(rq)}
        BY <1>1, <2>1 DEF ReceiveResult
    <2>4. IsFiniteSet(results \cap SuiteTests)
        BY Numbers, FS_Subset
    <2>5. Cardinality(results' \cap SuiteTests)
              = Cardinality(results \cap SuiteTests) + 1
        BY <2>2, <2>3, <2>4, FS_AddElement
    <2> QED BY <1>1, <2>5 DEF ReceiveResult, Counted
<1>2. ASSUME NEW t \in RootTests, results' = results \cup {t}, received' = received
      PROVE  Counted'
    <2>1. t \notin SuiteTests
        BY RunnerAssumption
    <2>2. results' \cap SuiteTests = results \cap SuiteTests
        BY <1>2, <2>1
    <2> QED BY <1>2, <2>2 DEF Counted
<1>3. CASE UNCHANGED <<results, received>>
    BY <1>3 DEF Counted
<1> QED
    BY <1>1, <1>2, <1>3
       DEF Next, MasterStep, WorkerStep, Terminated, vars, RunRootTest, Fork, SendId,
           SendTerminate, RunLastRootTest, MakeReport, ReceiveLog, JoinAll, Come,
           FailToStart, ReceiveId, ExecuteTest, SendResult, SendLog, Exit

LEMMA NotForkedInit == Init => NotForked
BY DEF Init, NotForked

LEMMA NotForkedStep == TypeOK /\ NotForked /\ [Next]_vars => NotForked'
BY DEF TypeOK, NotForked, Next, MasterStep, WorkerStep, Terminated, vars, masterState,
       workerState, RunRootTest, Fork, SendId, SendTerminate, ReceiveResult,
       RunLastRootTest, MakeReport, ReceiveLog, JoinAll, Come, FailToStart, ReceiveId,
       ExecuteTest, SendResult, SendLog, Exit

\* The test cases whose results are on their way are those of the workers that
\* send, and those in the queue.
LEMMA UnderWayMembers ==
    \A t : t \in UnderWay <=>
              \/ \E w \in Workers : worker[w] = "send" /\ id[w] = t
              \/ t \in InQueue(rq)
BY DEF UnderWay

LEMMA CampaignInit == Init => Campaign!CInit
<1> SUFFICES ASSUME Init PROVE Campaign!CInit
    OBVIOUS
<1>1. UnderWay = {} /\ results = {}
    BY EmptyQueue, UnderWayMembers DEF Init
<1> QED BY <1>1 DEF Init, Campaign!CInit

\* Every step of the runner is a step of the campaign, or none.
LEMMA CampaignStep ==
    TypeOK /\ InPlace /\ Count /\ Counted /\ NotForked /\ [Next]_vars
        => [Campaign!CNext]_(Campaign!cvars)
<1> SUFFICES ASSUME TypeOK, InPlace, Count, Counted, NotForked, [Next]_vars
             PROVE  [Campaign!CNext]_(Campaign!cvars)
    OBVIOUS
<1> USE DEF masterState, workerState
<1> DEFINE reported == master \in {"logs", "done"}
           waiting == Tests \ (results \cup UnderWay)
<1>m. SuiteTests \subseteq Tests /\ RootTests \subseteq Tests
    BY DEF Tests
<1>1. ASSUME UNCHANGED <<results, UnderWay, reported>>
      PROVE  UNCHANGED Campaign!cvars
    BY <1>1 DEF Campaign!cvars
<1>2. ASSUME UNCHANGED <<results, rq, id>>, UNCHANGED reported,
             \A v \in Workers : worker'[v] = "send" <=> worker[v] = "send"
      PROVE  UNCHANGED Campaign!cvars
    <2>1. UnderWay' = UnderWay
        BY <1>2 DEF UnderWay, InQueue
    <2> QED BY <1>1, <1>2, <2>1
<1>3. ASSUME NEW t \in RootTests \ results, results' = results \cup {t},
             runs[t] = 0, UNCHANGED <<master, rq, worker, id>>
      PROVE  Campaign!CNext
    <2>1. t \notin UnderWay
        BY <1>3, UnderWayMembers DEF Count
    <2>2. UnderWay' = UnderWay
        BY <1>3 DEF UnderWay, InQueue
    <2>3. Campaign!StartAndCollect(t)
        BY <1>3, <1>m, <2>1, <2>2 DEF Campaign!StartAndCollect
    <2> QED BY <1>3, <1>m, <2>3 DEF Campaign!CNext
<1>4. CASE ReceiveResult
    <2>1. /\ Head(rq) \in SuiteTests /\ Head(rq) \notin InQueue(rq')
          /\ InQueue(rq) = InQueue(rq') \cup {Head(rq)}
        BY <1>4, Received DEF ReceiveResult, TypeOK, InPlace
    <2>2. \A w \in Workers : worker[w] = "send" => id[w] # Head(rq)
        BY <2>1 DEF InPlace
    <2>3. UnderWay' = UnderWay \ {Head(rq)} /\ Head(rq) \in UnderWay
        BY <1>4, <2>1, <2>2 DEF ReceiveResult, UnderWay
    <2>4. Campaign!Collect(Head(rq))
        BY <1>4, <2>3 DEF ReceiveResult, Campaign!Collect
    <2> QED BY <1>m, <2>1, <2>4 DEF Campaign!CNext
<1>5. ASSUME NEW w \in Workers, ExecuteTest(w)
      PROVE  Campaign!CNext
    <2>1. id[w] \in SuiteTests /\ runs[id[w]] = 0
        BY <1>5 DEF ExecuteTest, InPlace, Holding, Count
    <2>2. id[w] \in waiting
        BY <1>m, <2>1, UnderWayMembers DEF Count
    <2>3. /\ worker'[w] = "send" /\ \A v \in Workers : v # w => worker'[v] = worker[v]
          /\ worker[w] = "run" /\ UNCHANGED <<rq, id, results, master>>
        BY <1>5 DEF ExecuteTest, TypeOK
    <2>4. UnderWay' = UnderWay \cup {id[w]}
        BY <2>3 DEF UnderWay, InQueue
    <2>5. Campaign!Start(id[w])
        BY <2>2, <2>3, <2>4 DEF Campaign!Start
    <2> QED BY <1>m, <2>1, <2>5 DEF Campaign!CNext
<1>6. ASSUME NEW w \in Workers, SendResult(w)
      PROVE  UNCHANGED Campaign!cvars
    <2>1. id[w] \in SuiteTests
        BY <1>6 DEF SendResult, InPlace, Holding
    <2>2. InQueue(rq') = InQueue(rq) \cup {id[w]}
        BY <1>6, <2>1, Appended DEF SendResult, TypeOK
    <2>3. /\ worker[w] = "send" /\ worker'[w] = "receive"
          /\ \A v \in Workers : v # w => worker'[v] = worker[v]
          /\ UNCHANGED <<id, results, master>>
        BY <1>6 DEF SendResult, TypeOK
    <2>4. UnderWay' = UnderWay
        BY <2>2, <2>3 DEF UnderWay
    <2> QED BY <1>1, <2>3, <2>4
<1>7. CASE MakeReport
    <2>1. Cardinality(results \cap SuiteTests) = Cardinality(SuiteTests)
        BY <1>7 DEF MakeReport, Counted, NIds
    <2>2. SuiteTests \subseteq results
        BY <2>1, Numbers, FS_Subset
    <2>3. results = Tests
        BY <1>7, <2>2 DEF MakeReport, TypeOK, Tests
    <2>4. UnderWay' = UnderWay
        BY <1>7 DEF MakeReport, UnderWay, InQueue
    <2>5. Campaign!Report
        BY <1>7, <2>3, <2>4 DEF MakeReport, Campaign!Report
    <2> QED BY <2>5 DEF Campaign!CNext
<1>8. CASE \E t \in Tests : RunRootTest(t) \/ RunLastRootTest(t)
    BY <1>3, <1>8 DEF RunRootTest, RunLastRootTest, Count
<1>9. CASE Fork \/ SendTerminate \/ ReceiveLog \/ JoinAll \/ UNCHANGED vars
            \/ \E t \in Tests : SendId(t)
    <2>1. UNCHANGED <<results, rq, id>> /\ UNCHANGED reported
        BY <1>9 DEF Fork, SendTerminate, ReceiveLog, JoinAll, vars, SendId
    <2>2. \A v \in Workers : worker'[v] = "send" <=> worker[v] = "send"
        BY <1>9 DEF Fork, SendTerminate, ReceiveLog, JoinAll, vars, SendId, NotForked
    <2> QED BY <1>2, <2>1, <2>2
<1>10. ASSUME NEW w \in Workers,
              \/ Come(w) \/ FailToStart(w) \/ Exit(w)
              \/ \E t \in SuiteTests : SendLog(w, t)
       PROVE  UNCHANGED Campaign!cvars
    <2>1. UNCHANGED <<results, rq, id>> /\ UNCHANGED reported
        BY <1>10 DEF Come, FailToStart, Exit, SendLog
    <2>2. \A v \in Workers : worker'[v] = "send" <=> worker[v] = "send"
        BY <1>10 DEF Come, FailToStart, Exit, SendLog, TypeOK
    <2> QED BY <1>2, <2>1, <2>2
<1>11. ASSUME NEW w \in Workers, ReceiveId(w)
       PROVE  UNCHANGED Campaign!cvars
    <2>1. /\ worker[w] # "send" /\ worker'[w] # "send"
          /\ \A v \in Workers : v # w => worker'[v] = worker[v] /\ id'[v] = id[v]
          /\ UNCHANGED <<rq, results, master>>
        BY <1>11 DEF ReceiveId, TypeOK
    <2>2. UnderWay' = UnderWay
        BY <2>1 DEF UnderWay, InQueue
    <2> QED BY <1>1, <2>1, <2>2
<1> QED
    BY <1>4, <1>5, <1>6, <1>7, <1>8, <1>9, <1>10, <1>11
       DEF Next, MasterStep, WorkerStep, Terminated

\* Whatever the processes do looks like the abstract campaign: each test case is
\* started once, its result collected once, and the report made when all results
\* are in.
THEOREM Refinement == Spec => Campaign!CInit /\ [][Campaign!CNext]_(Campaign!cvars)
BY CampaignInit, CampaignStep, TypeInit, PlaceStep, CountInit, CountStep, CountedInit,
   CountedStep, NotForkedInit, NotForkedStep, PTL DEF Spec
=============================================================================
