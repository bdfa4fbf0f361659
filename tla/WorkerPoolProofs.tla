-------------------------- MODULE WorkerPoolProofs --------------------------
(***************************************************************************)
(* Proofs about WorkerPool, for any number of tests and workers.           *)
(***************************************************************************)
EXTENDS WorkerPool, FiniteSetTheorems, SequenceTheorems, TLAPS

-----------------------------------------------------------------------------
(* The inductive invariant                                                  *)

Live == {w \in Workers : worker[w] \notin {"none", "exited"}}
Busy == {w \in Workers : worker[w] \in {"check", "running", "sending"}}

\* How far the calling goroutine has come.
MainOK ==
    /\ main = "begin" => spawned = 0
    /\ main = "spawn" => spawned < maxWorkers
    /\ main \notin {"collect", "returned"} => waiter = "none"
    /\ resultsClosed => waiter = "exited"

\* What a worker is doing.
WorkersOK ==
    \A w \in Workers :
        /\ w > spawned => worker[w] = "none"
        /\ w \in Busy => job[w] >= 1
        /\ worker[w] = "sending" => run[w] \in Outcomes

\* The wait group counts the workers that may still send.
WaitGroupOK ==
    /\ wg = Cardinality(Live)
    /\ resultsClosed => Live = {}

\* Every result in the channel, and every worker that will put one there, has had
\* a job of its own.
ResultsOK == Len(results) + Cardinality(Busy) <= taken

\* The inductive invariant.
PInv == TypeOK /\ MainOK /\ WorkersOK /\ WaitGroupOK /\ ResultsOK

-----------------------------------------------------------------------------
(* Counting                                                                 *)

LEMMA Finite == /\ IsFiniteSet(Live) /\ Cardinality(Live) \in Nat
                /\ IsFiniteSet(Busy) /\ Cardinality(Busy) \in Nat
                /\ (Cardinality(Live) = 0 <=> Live = {})
                /\ (Cardinality(Busy) = 0 <=> Busy = {})
<1>1. IsFiniteSet(Workers)
  BY WorkerPoolAssumption, FS_Interval DEF WorkerPoolAssumption, Workers
<1>2. IsFiniteSet(Live) /\ IsFiniteSet(Busy)
  BY <1>1, FS_Subset DEF Live, Busy
<1> QED
  BY <1>2, FS_CardinalityType, FS_EmptySet

\* One worker starts to live, or to be busy, or ceases to.
LEMMA OneMore ==
    ASSUME NEW S, NEW T, NEW x, IsFiniteSet(S), x \notin S, T = S \cup {x}
    PROVE  Cardinality(T) = Cardinality(S) + 1
  BY FS_AddElement

LEMMA OneLess ==
    ASSUME NEW S, NEW T, NEW x, IsFiniteSet(S), x \in S, T = S \ {x}
    PROVE  Cardinality(T) = Cardinality(S) - 1
  BY FS_RemoveElement

\* The sets depend on nothing but the workers.
LEMMA SameWorkers == UNCHANGED worker => Live' = Live /\ Busy' = Busy
  BY DEF Live, Busy, Workers

-----------------------------------------------------------------------------
(* Types                                                                    *)

LEMMA TypeInit == Init => TypeOK
<1> SUFFICES ASSUME Init PROVE TypeOK
  OBVIOUS
<1>1. MaxTests \in Nat /\ MaxWorkers \in Nat \ {0}
  BY WorkerPoolAssumption DEF WorkerPoolAssumption
<1>2. numTests \in 0..MaxTests /\ maxWorkers \in Workers
  BY <1>1 DEF Init, NewWorkerPool, Workers
<1>3. spawned \in 0..maxWorkers /\ sent \in 0..numTests /\ taken \in 0..sent
  BY <1>1, <1>2 DEF Init, Workers
<1>4. /\ worker \in [Workers -> WorkerStates]
      /\ job \in [Workers -> 0..numTests]
      /\ run \in [Workers -> Outcomes \cup {"none"}]
  BY <1>1, <1>2 DEF Init, WorkerStates
<1>5. results \in Seq((1..numTests) \X Outcomes)
  BY DEF Init
<1>6. /\ testRuns \in [1..numTests -> Outcomes \cup {"none"}]
      /\ executions \in [1..numTests -> Nat]
  BY DEF Init
<1> QED
  BY <1>2, <1>3, <1>4, <1>5, <1>6 DEF Init, TypeOK, MainStates

\* Counting at any position keeps a counter a counter.
LEMMA Counted ==
    ASSUME NEW n, NEW f \in [1..n -> Nat], NEW i
    PROVE  [f EXCEPT ![i] = @ + 1] \in [1..n -> Nat]
<1>1. CASE i \in 1..n
  <2>1. f[i] + 1 \in Nat
    BY <1>1
  <2> QED
    BY <1>1, <2>1
<1>2. CASE i \notin 1..n
  BY <1>2
<1> QED
  BY <1>1, <1>2

LEMMA TypeNext == PInv /\ [Next]_vars => TypeOK' /\ MainOK' /\ WorkersOK'
<1> SUFFICES ASSUME PInv, [Next]_vars PROVE TypeOK' /\ MainOK' /\ WorkersOK'
  OBVIOUS
<1>0. /\ TypeOK /\ MainOK /\ WorkersOK
      /\ MaxTests \in Nat /\ MaxWorkers \in Nat \ {0}
  BY WorkerPoolAssumption DEF WorkerPoolAssumption, PInv
<1> USE <1>0 DEF TypeOK, MainOK, WorkersOK, MainStates, WorkerStates, jobVars, workerVars, resultVars,
                 Workers, Busy
<1>1. CASE Begin
  BY <1>1, SMTT(30) DEF Begin
<1>2. CASE SendJob
  BY <1>2 DEF SendJob
<1>3. CASE CloseJobs
  BY <1>3 DEF CloseJobs
<1>4. CASE StartWaiter
  BY <1>4 DEF StartWaiter
<1>5. CASE ResultsEnd
  BY <1>5 DEF ResultsEnd
<1>6. CASE CloseResults
  BY <1>6 DEF CloseResults
<1>7. CASE ContextCancelled
  BY <1>7 DEF ContextCancelled
<1>8. CASE BatchExecute
  <2>1. executions' \in [1..numTests -> Nat]
    BY <1>8, Counted DEF BatchExecute
  <2> QED
    BY <1>8, <2>1 DEF BatchExecute
<1>9. CASE SpawnWorker
  BY <1>9 DEF SpawnWorker
<1>10. CASE ReceiveResult
  BY <1>10, SMTT(30) DEF ReceiveResult
<1>11. CASE BatchTestEnds
  BY <1>11 DEF BatchTestEnds, PossibleOutcomes, Outcomes
<1>12. ASSUME NEW w \in Workers, TakeJob(w) PROVE TypeOK' /\ MainOK' /\ WorkersOK'
  BY <1>12 DEF TakeJob, NextJob
<1>13. ASSUME NEW w \in Workers, JobsEnd(w) PROVE TypeOK' /\ MainOK' /\ WorkersOK'
  <2>1. wg \in Nat \ {0}
    <3>1. w \in Live
      BY <1>13 DEF JobsEnd, Live
    <3> QED
      BY <3>1, Finite DEF PInv, WaitGroupOK
  <2> QED
    BY <1>13, <2>1 DEF JobsEnd
<1>14. ASSUME NEW w \in Workers, CheckContext(w) PROVE TypeOK' /\ MainOK' /\ WorkersOK'
  <2>1. executions' \in [1..numTests -> Nat]
    <3>1. executions' \in {executions, [executions EXCEPT ![job[w]] = @ + 1]}
      BY <1>14 DEF CheckContext
    <3>2. executions \in [1..numTests -> Nat] /\ numTests' = numTests
      BY <1>14 DEF CheckContext
    <3>3. [executions EXCEPT ![job[w]] = @ + 1] \in [1..numTests -> Nat]
      BY <3>2, Counted
    <3> QED
      BY <3>1, <3>2, <3>3
  <2>2. /\ run' \in [Workers -> Outcomes \cup {"none"}]
        /\ worker' \in [Workers -> WorkerStates]
    BY <1>14, ZenonT(30) DEF CheckContext, Outcomes
  <2>3. WorkersOK'
    BY <1>14 DEF CheckContext, Outcomes
  <2> QED
    BY <1>14, <2>1, <2>2, <2>3 DEF CheckContext
<1>15. ASSUME NEW w \in Workers, TestEnds(w) PROVE TypeOK' /\ MainOK' /\ WorkersOK'
  BY <1>15 DEF TestEnds, PossibleOutcomes, Outcomes
<1>16. ASSUME NEW w \in Workers, SendResult(w) PROVE TypeOK' /\ MainOK' /\ WorkersOK'
  BY <1>16 DEF SendResult
<1>17. CASE UNCHANGED vars
  BY <1>17 DEF vars
<1> QED
  BY <1>1, <1>2, <1>3, <1>4, <1>5, <1>6, <1>7, <1>8, <1>9, <1>10, <1>11, <1>12, <1>13, <1>14, <1>15, <1>16, <1>17 DEF Next, MainStep, WorkerStep, Finished

-----------------------------------------------------------------------------
(* The wait group and the results channel                                   *)

\* Steps that leave the workers alone.
LEMMA QuietNext ==
    ASSUME PInv, UNCHANGED <<worker, wg, taken>>, Len(results') \in Nat,
           Len(results') <= Len(results), resultsClosed' => resultsClosed \/ wg = 0
    PROVE  WaitGroupOK' /\ ResultsOK'
<1>1. Live' = Live /\ Busy' = Busy
  BY SameWorkers
<1>2. Len(results) \in Nat /\ taken \in Nat
  BY DEF PInv, TypeOK
<1> QED
  BY <1>1, <1>2, Finite DEF PInv, WaitGroupOK, ResultsOK

LEMMA CountsNext == PInv /\ [Next]_vars => WaitGroupOK' /\ ResultsOK'
<1> SUFFICES ASSUME PInv, [Next]_vars PROVE WaitGroupOK' /\ ResultsOK'
  OBVIOUS
<1>0. /\ TypeOK /\ MainOK /\ WorkersOK /\ WaitGroupOK /\ ResultsOK
      /\ MaxWorkers \in Nat \ {0}
      /\ Len(results) \in Nat /\ taken \in Nat /\ worker \in [Workers -> WorkerStates]
  BY WorkerPoolAssumption DEF WorkerPoolAssumption, PInv, TypeOK
<1> USE DEF jobVars, workerVars, resultVars
<1>1. CASE UNCHANGED <<worker, wg, taken, results, resultsClosed>>
  BY <1>0, <1>1, QuietNext
<1>2. CASE Begin \/ SendJob \/ CloseJobs \/ StartWaiter \/ ResultsEnd \/ BatchExecute \/ BatchTestEnds
  BY <1>1, <1>2 DEF Begin, SendJob, CloseJobs, StartWaiter, ResultsEnd, BatchExecute, BatchTestEnds
<1>3. CASE ContextCancelled \/ UNCHANGED vars
  BY <1>1, <1>3 DEF ContextCancelled, vars
<1>4. CASE CloseResults
  BY <1>0, <1>4, QuietNext DEF CloseResults, WorkersDone
<1>5. CASE ReceiveResult
  <2>1. Len(results') = Len(results) - 1 /\ Len(results') \in Nat
    BY <1>0, <1>5, HeadTailProperties DEF ReceiveResult, TypeOK
  <2> QED
    BY <1>0, <1>5, <2>1, QuietNext DEF ReceiveResult
<1>6. CASE SpawnWorker
  <2>1. spawned + 1 \in Workers /\ worker[spawned + 1] = "none"
    BY <1>0, <1>6 DEF SpawnWorker, TypeOK, MainOK, WorkersOK, Workers
  <2>2. Live' = Live \cup {spawned + 1} /\ spawned + 1 \notin Live
    BY <1>0, <1>6, <2>1 DEF SpawnWorker, Live, Workers
  <2>3. Busy' = Busy
    BY <1>0, <1>6, <2>1 DEF SpawnWorker, Busy, Workers
  <2>4. ~resultsClosed'
    BY <1>0, <1>6 DEF SpawnWorker, MainOK
  <2>5. Cardinality(Live') = Cardinality(Live) + 1
    BY <2>2, Finite, OneMore
  <2> QED
    BY <1>0, <1>6, <2>3, <2>4, <2>5 DEF SpawnWorker, WaitGroupOK, ResultsOK
<1>7. ASSUME NEW w \in Workers, TakeJob(w) PROVE WaitGroupOK' /\ ResultsOK'
  <2>1. Live' = Live
    BY <1>0, <1>7 DEF TakeJob, Live, Workers
  <2>2. Busy' = Busy \cup {w} /\ w \notin Busy
    BY <1>0, <1>7 DEF TakeJob, Busy, Workers
  <2>3. Cardinality(Busy') = Cardinality(Busy) + 1
    BY <2>2, Finite, OneMore
  <2> QED
    BY <1>0, <1>7, <2>1, <2>3, Finite DEF TakeJob, NextJob, WaitGroupOK, ResultsOK
<1>8. ASSUME NEW w \in Workers, JobsEnd(w) PROVE WaitGroupOK' /\ ResultsOK'
  <2>1. Live' = Live \ {w} /\ w \in Live
    BY <1>0, <1>8 DEF JobsEnd, Live, Workers
  <2>2. Busy' = Busy
    BY <1>0, <1>8 DEF JobsEnd, Busy, Workers
  <2>3. Cardinality(Live') = Cardinality(Live) - 1
    BY <2>1, Finite, OneLess
  <2> QED
    BY <1>0, <1>8, <2>1, <2>2, <2>3 DEF JobsEnd, WaitGroupOK, ResultsOK
<1>9. ASSUME NEW w \in Workers, CheckContext(w) \/ TestEnds(w) PROVE WaitGroupOK' /\ ResultsOK'
  <2>1. UNCHANGED <<wg, taken, results, resultsClosed>>
    BY <1>9 DEF CheckContext, TestEnds
  <2>2. /\ worker[w] \in {"check", "running"}
        /\ \/ worker' = [worker EXCEPT ![w] = "running"]
           \/ worker' = [worker EXCEPT ![w] = "sending"]
    BY <1>9 DEF CheckContext, TestEnds
  <2>3. Live' = Live /\ Busy' = Busy
    BY <1>0, <2>2 DEF Live, Busy, Workers
  <2> QED
    BY <1>0, <2>1, <2>3 DEF WaitGroupOK, ResultsOK
<1>10. ASSUME NEW w \in Workers, SendResult(w) PROVE WaitGroupOK' /\ ResultsOK'
  <2>1. Live' = Live
    BY <1>0, <1>10 DEF SendResult, Live, Workers
  <2>2. Busy' = Busy \ {w} /\ w \in Busy
    BY <1>0, <1>10 DEF SendResult, Busy, Workers
  <2>3. Cardinality(Busy') = Cardinality(Busy) - 1
    BY <2>2, Finite, OneLess
  <2>4. Len(results') = Len(results) + 1
    <3>1. <<job[w], run[w]>> \in (1..numTests) \X Outcomes
      BY <1>0, <1>10 DEF SendResult, TypeOK, WorkersOK, Busy, Workers
    <3> QED
      BY <1>0, <1>10, <3>1, AppendProperties DEF SendResult, TypeOK
  <2> QED
    BY <1>0, <1>10, <2>1, <2>3, <2>4, Finite DEF SendResult, WaitGroupOK, ResultsOK
<1> QED
  BY <1>2, <1>3, <1>4, <1>5, <1>6, <1>7, <1>8, <1>9, <1>10 DEF Next, MainStep, WorkerStep, Finished

LEMMA PInvInit == Init => PInv
<1> SUFFICES ASSUME Init PROVE PInv
  OBVIOUS
<1>1. MainOK
  BY DEF Init, MainOK
<1>2. Live = {} /\ Busy = {}
  BY DEF Init, Live, Busy
<1>3. WorkersOK
  BY <1>2 DEF Init, WorkersOK
<1>4. WaitGroupOK /\ ResultsOK
  BY <1>2, FS_EmptySet, EmptySeq DEF Init, WaitGroupOK, ResultsOK
<1> QED
  BY <1>1, <1>3, <1>4, TypeInit DEF PInv

LEMMA Invariance == Spec => []PInv
<1>1. PInv /\ [Next]_vars => PInv'
  BY TypeNext, CountsNext DEF PInv
<1> QED
  BY PInvInit, <1>1, PTL DEF Spec

-----------------------------------------------------------------------------
(* Theorems                                                                 *)

\* Every reachable state is well typed; in particular the wait group's counter never
\* goes below zero, which would panic.
THEOREM TypeCorrect == Spec => []TypeOK
  BY Invariance, PTL DEF PInv

\* Nobody sends on the results channel once it is closed.
THEOREM NoSendAfterClose == Spec => []ClosedAfterLastSend
<1>1. PInv => ClosedAfterLastSend
  BY DEF PInv, WaitGroupOK, ClosedAfterLastSend, Live
<1> QED
  BY Invariance, <1>1, PTL

\* Channels with room for one job and one result per test make neither the sender of the
\* jobs nor a worker wait, however slowly the jobs are taken and the results collected.
THEOREM NoSendBlocks == Spec => []SendNeverBlocks
<1>1. ASSUME PInv, main = "send", sent < numTests PROVE sent - taken < JobsCapacity
  <2>1. sent \in Nat /\ taken \in Nat /\ numTests \in Nat
    BY <1>1, WorkerPoolAssumption DEF WorkerPoolAssumption, PInv, TypeOK
  <2> QED
    BY <1>1, <2>1 DEF JobsCapacity
<1>2. ASSUME PInv, NEW w \in Workers, worker[w] = "sending" PROVE Len(results) < ResultsCapacity
  <2>1. Cardinality(Busy) \in Nat \ {0}
    BY <1>2, Finite DEF Busy
  <2>2. Len(results) \in Nat /\ taken \in Nat /\ taken <= numTests /\ numTests \in Nat
    BY <1>2, WorkerPoolAssumption DEF WorkerPoolAssumption, PInv, TypeOK
  <2> QED
    BY <1>2, <2>1, <2>2 DEF PInv, ResultsOK, ResultsCapacity
<1>3. PInv => SendNeverBlocks
  BY <1>1, <1>2 DEF SendNeverBlocks
<1> QED
  BY Invariance, <1>3, PTL

-----------------------------------------------------------------------------
(***************************************************************************)
(* A worker pool gives each test one verdict: what becomes of a job, from  *)
(* the jobs channel through a worker and the results channel to the array  *)
(* of runs; and WorkerPool therefore implements TestSuite.                 *)
(***************************************************************************)

-----------------------------------------------------------------------------
(* The inductive invariant                                                  *)

\* What has been spawned, sent and closed at each point of ExecuteParallel.
PathOK ==
    /\ main \in {"begin", "batch", "batchTest"} => spawned = 0
    /\ main \in {"send", "startWaiter", "collect"} \/ waiter # "none" => spawned = maxWorkers
    /\ main \in {"begin", "spawn", "batch", "batchTest"} => sent = 0
    /\ main \in {"spawn", "send"} => ~jobsClosed
    /\ main \in {"startWaiter", "collect"} \/ waiter # "none" => jobsClosed
    /\ jobsClosed => sent = numTests
    /\ spawned = 0 => sent = 0
    /\ \A w \in Workers : /\ worker[w] = "none" => w > spawned
                          /\ worker[w] = "exited" => jobsClosed /\ taken = sent

\* A job that has been taken is with one worker, or has one result in the channel, or
\* its verdict is recorded.
JobsOK ==
    /\ \A w \in Busy : /\ job[w] \in 1..taken
                       /\ testRuns[job[w]] = "none"
                       /\ \A v \in Busy : v # w => job[v] # job[w]
    /\ \A k \in 1..Len(results) :
          /\ results[k][1] \in 1..taken
          /\ testRuns[results[k][1]] = "none"
          /\ \A w \in Busy : job[w] # results[k][1]
          /\ \A l \in 1..Len(results) : l # k => results[l][1] # results[k][1]

\* No job that has been taken is forgotten, and none that has not been is recorded.
NoneForgotten ==
    spawned > 0 => \A i \in 1..numTests :
        IF i > taken THEN testRuns[i] = "none"
        ELSE \/ testRuns[i] # "none"
             \/ \E w \in Busy : job[w] = i
             \/ \E k \in 1..Len(results) : results[k][1] = i

\* Which tests have been executed.
ExecutionsOK ==
    /\ \A i \in 1..numTests :
          /\ executions[i] \in {0, 1}
          /\ testRuns[i] \in {"passed", "timeout"} => executions[i] = 1
          /\ spawned > 0 /\ i > taken => executions[i] = 0
    /\ \A w \in Workers :
          /\ worker[w] = "check" => executions[job[w]] = 0
          /\ worker[w] = "running" => executions[job[w]] = 1
          /\ worker[w] = "sending" /\ run[w] \in {"passed", "timeout"} => executions[job[w]] = 1
    /\ \A k \in 1..Len(results) :
          results[k][2] \in {"passed", "timeout"} => executions[results[k][1]] = 1

\* In sequence, the tests before the current one have a verdict and no others.
Before(n) ==
    \A i \in 1..numTests :
        /\ testRuns[i] # "none" <=> i < n
        /\ i > n => executions[i] = 0
        /\ i = n => executions[i] = IF main = "batchTest" THEN 1 ELSE 0

BatchOK ==
    /\ main \in {"begin", "spawn"} => \A i \in 1..numTests : testRuns[i] = "none" /\ executions[i] = 0
    /\ main \in {"spawn", "send", "startWaiter", "collect"} => numTests > 0
    /\ main \in {"batch", "batchTest"} => \E n \in 1..numTests : Before(n)
    /\ main = "returned" =>
          \/ \A i \in 1..numTests : testRuns[i] # "none"
          \/ cancelled /\ spawned = 0

\* The inductive invariant.
SInv == PInv /\ PathOK /\ JobsOK /\ NoneForgotten /\ ExecutionsOK /\ BatchOK

-----------------------------------------------------------------------------
(* Facts the steps share                                                    *)

LEMMA Typed ==
    ASSUME PInv
    PROVE  /\ MaxTests \in Nat /\ MaxWorkers \in Nat \ {0}
           /\ numTests \in Nat /\ maxWorkers \in Workers /\ maxWorkers \in Nat \ {0}
           /\ spawned \in 0..maxWorkers /\ sent \in 0..numTests /\ taken \in 0..sent
           /\ jobsClosed \in BOOLEAN /\ cancelled \in BOOLEAN /\ resultsClosed \in BOOLEAN
           /\ main \in MainStates /\ waiter \in {"none", "waiting", "exited"}
           /\ worker \in [Workers -> WorkerStates]
           /\ job \in [Workers -> 0..numTests]
           /\ run \in [Workers -> Outcomes \cup {"none"}]
           /\ results \in Seq((1..numTests) \X Outcomes) /\ Len(results) \in Nat
           /\ testRuns \in [1..numTests -> Outcomes \cup {"none"}]
           /\ executions \in [1..numTests -> Nat]
  BY WorkerPoolAssumption DEF WorkerPoolAssumption, PInv, TypeOK, Workers

\* No worker exists before one is spawned, and none is busy.
LEMMA NobodyYet ==
    ASSUME PInv, spawned = 0
    PROVE  /\ \A w \in Workers : worker[w] = "none"
           /\ Busy = {}
  BY DEF PInv, WorkersOK, Busy, Workers

\* A worker that is busy was spawned.
LEMMA BusyMeansSpawned ==
    ASSUME PInv, NEW w \in Workers, worker[w] # "none"
    PROVE  spawned > 0
  BY NobodyYet, Typed

\* A worker that looks at the context, or whose test ends, stays busy with its job.
LEMMA WorkerBetween ==
    ASSUME PInv, NEW w \in Workers, CheckContext(w) \/ TestEnds(w)
    PROVE  /\ w \in Busy /\ worker'[w] \in {"running", "sending"}
           /\ \A v \in Workers \ {w} : worker'[v] = worker[v]
           /\ Busy' = Busy
<1>1. worker[w] \in {"check", "running"} /\ worker \in [Workers -> WorkerStates]
  BY Typed DEF CheckContext, TestEnds
<1>2. \/ worker' = [worker EXCEPT ![w] = "running"]
      \/ worker' = [worker EXCEPT ![w] = "sending"]
  BY DEF CheckContext, TestEnds
<1> QED
  BY <1>1, <1>2 DEF Busy, Workers

LEMMA PathNext == PInv /\ PathOK /\ [Next]_vars => PathOK'
<1> SUFFICES ASSUME PInv, PathOK, [Next]_vars PROVE PathOK'
  OBVIOUS
<1>0. MainOK /\ WorkersOK
  BY DEF PInv
<1> USE <1>0, Typed DEF PathOK, MainOK, WorkersOK, MainStates, jobVars, workerVars, resultVars, Workers
<1>1. CASE Begin
  BY <1>1 DEF Begin
<1>2. CASE SpawnWorker
  BY <1>2 DEF SpawnWorker, WorkerStates
<1>3. CASE SendJob
  BY <1>3 DEF SendJob
<1>4. CASE CloseJobs
  BY <1>4 DEF CloseJobs
<1>5. CASE StartWaiter
  BY <1>5 DEF StartWaiter
<1>6. CASE ReceiveResult
  BY <1>6 DEF ReceiveResult
<1>7. CASE ResultsEnd
  BY <1>7 DEF ResultsEnd
<1>8. CASE BatchExecute
  BY <1>8 DEF BatchExecute
<1>9. CASE BatchTestEnds
  BY <1>9 DEF BatchTestEnds
<1>10. CASE CloseResults
  BY <1>10 DEF CloseResults
<1>11. CASE ContextCancelled \/ UNCHANGED vars
  BY <1>11 DEF ContextCancelled, vars
<1>12. ASSUME NEW w \in Workers, TakeJob(w) PROVE PathOK'
  BY <1>12 DEF TakeJob, NextJob, WorkerStates
<1>13. ASSUME NEW w \in Workers, JobsEnd(w) PROVE PathOK'
  BY <1>13 DEF JobsEnd, WorkerStates
<1>14. ASSUME NEW w \in Workers, CheckContext(w) \/ TestEnds(w) PROVE PathOK'
  <2>1. UNCHANGED <<main, spawned, sent, jobsClosed, waiter, taken, maxWorkers, numTests>>
    BY <1>14 DEF CheckContext, TestEnds
  <2>2. \A v \in Workers : worker'[v] \in {"none", "exited"} => worker'[v] = worker[v]
    BY <1>14, WorkerBetween
  <2> QED
    BY <2>1, <2>2
<1>15. ASSUME NEW w \in Workers, SendResult(w) PROVE PathOK'
  BY <1>15 DEF SendResult, WorkerStates
<1> QED
  BY <1>1, <1>2, <1>3, <1>4, <1>5, <1>6, <1>7, <1>8, <1>9, <1>10, <1>11, <1>12, <1>13, <1>14, <1>15
     DEF Next, MainStep, WorkerStep, Finished

-----------------------------------------------------------------------------
(* What becomes of a job                                                    *)

\* Before a worker is spawned no job is anywhere but in the jobs channel.
LEMMA NothingYet ==
    ASSUME PInv, PathOK, spawned = 0
    PROVE  Busy = {} /\ results = <<>> /\ taken = 0
<1>1. sent = 0 /\ taken = 0 /\ Busy = {}
  BY NobodyYet, Typed DEF PathOK
<1>2. Len(results) = 0
  BY <1>1, FS_EmptySet, Typed DEF PInv, ResultsOK
<1> QED
  BY <1>1, <1>2, EmptySeq, Typed

\* The results channel as the two steps that touch it leave it.
LEMMA ResultReceived ==
    ASSUME PInv, ReceiveResult
    PROVE  /\ results[1] \in (1..numTests) \X Outcomes /\ 1 \in 1..Len(results)
           /\ testRuns' = [testRuns EXCEPT ![results[1][1]] = results[1][2]]
           /\ Len(results') = Len(results) - 1
           /\ \A k \in 1..Len(results') : results'[k] = results[k + 1] /\ k + 1 \in 1..Len(results)
           /\ \A k \in 2..Len(results) : results'[k - 1] = results[k] /\ k - 1 \in 1..Len(results')
<1>1. results # <<>> /\ results \in Seq((1..numTests) \X Outcomes)
  BY Typed DEF ReceiveResult
<1>2. Len(results) \in Nat \ {0} /\ Head(results) = results[1]
  BY <1>1, EmptySeq
<1>3. /\ Head(results) \in (1..numTests) \X Outcomes
      /\ Len(results') = Len(results) - 1
      /\ \A k \in 1..Len(results') : results'[k] = results[k + 1]
  BY <1>1, HeadTailProperties DEF ReceiveResult
<1>4. testRuns' = [testRuns EXCEPT ![results[1][1]] = results[1][2]]
  BY <1>2 DEF ReceiveResult
<1>5. \A k \in 1..Len(results') : k + 1 \in 1..Len(results)
  BY <1>2, <1>3
<1>6. \A k \in 2..Len(results) : k - 1 \in 1..Len(results') /\ (k - 1) + 1 = k
  BY <1>2, <1>3
<1>7. \A k \in 2..Len(results) : results'[k - 1] = results[k]
  <2> TAKE k \in 2..Len(results)
  <2>1. results'[k - 1] = results[(k - 1) + 1]
    BY <1>3, <1>6
  <2> QED
    BY <2>1, <1>6
<1>8. results[1] \in (1..numTests) \X Outcomes
  BY <1>2, <1>3, Zenon
<1>9. 1 \in 1..Len(results)
  BY <1>2
<1> QED
  BY <1>8, <1>9, <1>3, <1>4, <1>5, <1>6, <1>7

LEMMA ResultSent ==
    ASSUME PInv, NEW w \in Workers, SendResult(w)
    PROVE  /\ w \in Busy /\ Busy' = Busy \ {w}
           /\ job[w] \in 1..numTests /\ run[w] \in Outcomes
           /\ Len(results') = Len(results) + 1
           /\ \A k \in 1..Len(results) : results'[k] = results[k]
           /\ results'[Len(results) + 1] = <<job[w], run[w]>>
<1>1. w \in Busy /\ Busy' = Busy \ {w}
  BY Typed DEF SendResult, Busy, Workers
<1>2. job[w] \in 1..numTests /\ run[w] \in Outcomes
  BY <1>1, Typed DEF SendResult, PInv, WorkersOK
<1>3. results' = Append(results, <<job[w], run[w]>>)
  BY DEF SendResult
<1> QED
  BY <1>1, <1>2, <1>3, AppendProperties, Typed, SMTT(30)

\* A worker takes the next job.
LEMMA JobTaken ==
    ASSUME PInv, NEW w \in Workers, TakeJob(w)
    PROVE  /\ w \notin Busy /\ Busy' = Busy \cup {w}
           /\ job'[w] = taken + 1 /\ taken + 1 \in 1..numTests /\ taken' = taken + 1
           /\ \A v \in Workers \ {w} : job'[v] = job[v]
           /\ spawned > 0
  BY BusyMeansSpawned, Typed DEF TakeJob, NextJob, Busy, Workers

\* A worker that is spawned, or finds no more jobs, is not busy.
LEMMA WorkerComesOrGoes ==
    ASSUME PInv, SpawnWorker \/ \E w \in Workers : JobsEnd(w)
    PROVE  Busy' = Busy
<1>1. CASE SpawnWorker
  <2>1. spawned + 1 \in Workers /\ worker[spawned + 1] = "none"
    BY <1>1, Typed DEF SpawnWorker, PInv, MainOK, WorkersOK, Workers
  <2> QED
    BY <1>1, <2>1, Typed DEF SpawnWorker, Busy, Workers
<1>2. ASSUME NEW w \in Workers, JobsEnd(w) PROVE Busy' = Busy
  BY <1>2, Typed DEF JobsEnd, Busy, Workers
<1> QED
  BY <1>1, <1>2

LEMMA JobsNext == PInv /\ PathOK /\ JobsOK /\ NoneForgotten /\ [Next]_vars => JobsOK'
<1> SUFFICES ASSUME PInv, PathOK, JobsOK, NoneForgotten, [Next]_vars PROVE JobsOK'
  OBVIOUS
<1> USE DEF jobVars, workerVars, resultVars
<1>1. CASE Busy' = Busy /\ UNCHANGED <<job, taken, testRuns, results>>
  BY <1>1 DEF JobsOK
<1>2. CASE \/ Begin \/ SendJob \/ CloseJobs \/ StartWaiter \/ ResultsEnd \/ BatchExecute
           \/ CloseResults \/ ContextCancelled \/ UNCHANGED vars
  <2>1. UNCHANGED <<worker, job, taken, testRuns, results>>
    BY <1>2 DEF Begin, SendJob, CloseJobs, StartWaiter, ResultsEnd, BatchExecute, CloseResults,
                ContextCancelled, vars
  <2> QED
    BY <1>1, <2>1, SameWorkers
<1>3. CASE SpawnWorker \/ \E w \in Workers : JobsEnd(w)
  BY <1>1, <1>3, WorkerComesOrGoes DEF SpawnWorker, JobsEnd
<1>4. ASSUME NEW w \in Workers, CheckContext(w) \/ TestEnds(w) PROVE JobsOK'
  BY <1>1, <1>4, WorkerBetween DEF CheckContext, TestEnds
<1>5. ASSUME NEW w \in Workers, TakeJob(w) PROVE JobsOK'
  <2>1. UNCHANGED <<testRuns, results>>
    BY <1>5 DEF TakeJob
  <2>2. testRuns[taken + 1] = "none" /\ taken \in Nat
    BY <1>5, JobTaken, Typed DEF NoneForgotten
  <2>3. Busy \subseteq Workers
    BY DEF Busy
  <2> QED
    BY <1>5, <2>1, <2>2, <2>3, JobTaken DEF JobsOK
<1>6. ASSUME NEW w \in Workers, SendResult(w) PROVE JobsOK'
  <2>1. UNCHANGED <<testRuns, taken, job>>
    BY <1>6 DEF SendResult
  <2>2. /\ \A k \in 1..Len(results') : k \in 1..Len(results) \/ k = Len(results) + 1
        /\ Len(results) + 1 \notin 1..Len(results)
    <3>1. Len(results') = Len(results) + 1 /\ Len(results) \in Nat
      BY <1>6, ResultSent, Typed
    <3> QED
      BY <3>1
  <2>3. results'[Len(results) + 1][1] = job[w]
    BY <1>6, ResultSent
  <2>4. w \in Busy /\ Busy' = Busy \ {w} /\ \A k \in 1..Len(results) : results'[k] = results[k]
    BY <1>6, ResultSent
  <2>5. \A v \in Busy' : /\ job'[v] \in 1..taken' /\ testRuns'[job'[v]] = "none" /\ job'[v] # job[w]
                         /\ \A u \in Busy' : u # v => job'[u] # job'[v]
    BY <2>1, <2>4 DEF JobsOK
  <2>6. job[w] \in 1..taken /\ testRuns[job[w]] = "none"
    BY <2>4 DEF JobsOK
  <2>7. \A k \in 1..Len(results) : results[k][1] # job[w]
    BY <2>4 DEF JobsOK
  <2>8. ASSUME NEW k \in 1..Len(results')
        PROVE  /\ results'[k][1] \in 1..taken'
               /\ testRuns'[results'[k][1]] = "none"
               /\ \A v \in Busy' : job'[v] # results'[k][1]
               /\ \A l \in 1..Len(results') : l # k => results'[l][1] # results'[k][1]
    <3>1. CASE k = Len(results) + 1
      <4>1. \A l \in 1..Len(results') : l # k => results'[l][1] # results'[k][1]
        BY <3>1, <2>2, <2>3, <2>4, <2>7
      <4> QED
        BY <4>1, <3>1, <2>1, <2>3, <2>5, <2>6
    <3>2. CASE k \in 1..Len(results)
      <4>1. \A l \in 1..Len(results') : l # k => results'[l][1] # results'[k][1]
        BY <3>2, <2>2, <2>3, <2>4, <2>7 DEF JobsOK
      <4>2. results'[k] = results[k]
        BY <3>2, <2>4
      <4> QED
        BY <4>1, <4>2, <3>2, <2>1, <2>4 DEF JobsOK
    <3> QED
      BY <3>1, <3>2, <2>2
  <2> QED
    BY <2>5, <2>8 DEF JobsOK
<1>7. CASE ReceiveResult
  <2>1. UNCHANGED <<taken, job, worker>> /\ Busy' = Busy
    BY <1>7, SameWorkers DEF ReceiveResult
  <2>2. \A i \in 1..numTests : i # results[1][1] => testRuns'[i] = testRuns[i]
    BY <1>7, ResultReceived, Typed
  <2>3. \A w \in Busy' : job'[w] # results[1][1] /\ job'[w] \in 1..numTests
    BY <1>7, <2>1, ResultReceived, Typed, SMTT(30) DEF JobsOK
  <2>4. ASSUME NEW k \in 1..Len(results')
        PROVE  /\ k + 1 \in 1..Len(results) /\ results'[k] = results[k + 1]
               /\ results'[k][1] # results[1][1] /\ results'[k][1] \in 1..numTests
    <3>1. k + 1 \in 1..Len(results) /\ results'[k] = results[k + 1] /\ 1 \in 1..Len(results)
      BY <1>7, ResultReceived
    <3>2. k + 1 # 1
      OBVIOUS
    <3>3. results[k + 1][1] # results[1][1]
      BY <3>1, <3>2 DEF JobsOK
    <3>4. results[k + 1][1] \in 1..numTests
      <4>1. results[k + 1][1] \in 1..taken
        BY <3>1 DEF JobsOK
      <4>2. 1..taken \subseteq 1..numTests
        BY Typed
      <4> QED
        BY <4>1, <4>2
    <3> QED
      BY <3>1, <3>3, <3>4
  <2>5. \A w \in Busy' : /\ job'[w] \in 1..taken' /\ testRuns'[job'[w]] = "none"
                         /\ \A v \in Busy' : v # w => job'[v] # job'[w]
    BY <2>1, <2>2, <2>3 DEF JobsOK
  <2>6. \A k \in 1..Len(results') : /\ results'[k][1] \in 1..taken'
                                    /\ testRuns'[results'[k][1]] = "none"
                                    /\ \A w \in Busy' : job'[w] # results'[k][1]
    BY <2>1, <2>2, <2>4, SMTT(30) DEF JobsOK
  <2>7. \A k \in 1..Len(results') :
            \A l \in 1..Len(results') : l # k => results'[l][1] # results'[k][1]
    <3> TAKE k \in 1..Len(results')
    <3> TAKE l \in 1..Len(results')
    <3> HAVE l # k
    <3>1. l + 1 # k + 1
      OBVIOUS
    <3> QED
      BY <3>1, <2>4 DEF JobsOK
  <2> QED
    BY <2>5, <2>6, <2>7 DEF JobsOK
<1>8. CASE BatchTestEnds
  <2>1. UNCHANGED <<taken, job, worker, results>> /\ Busy' = Busy
    BY <1>8, SameWorkers DEF BatchTestEnds
  <2>2. Busy = {} /\ results = <<>>
    BY <1>8, NothingYet DEF BatchTestEnds, PathOK
  <2> QED
    BY <2>1, <2>2 DEF JobsOK
<1> QED
  BY <1>2, <1>3, <1>4, <1>5, <1>6, <1>7, <1>8 DEF Next, MainStep, WorkerStep, Finished

LEMMA NoneForgottenNext ==
    PInv /\ PathOK /\ JobsOK /\ NoneForgotten /\ BatchOK /\ [Next]_vars => NoneForgotten'
<1> SUFFICES ASSUME PInv, PathOK, JobsOK, NoneForgotten, BatchOK, [Next]_vars PROVE NoneForgotten'
  OBVIOUS
<1> DEFINE Somewhere(i) == \/ testRuns[i] # "none"
                           \/ \E w \in Busy : job[w] = i
                           \/ \E k \in 1..Len(results) : results[k][1] = i
<1> USE DEF jobVars, workerVars, resultVars
<1>1. CASE spawned' = spawned /\ Busy' = Busy /\ UNCHANGED <<numTests, job, taken, testRuns, results>>
  BY <1>1 DEF NoneForgotten
<1>2. CASE \/ Begin \/ SendJob \/ CloseJobs \/ StartWaiter \/ ResultsEnd \/ BatchExecute
           \/ CloseResults \/ ContextCancelled \/ UNCHANGED vars
  <2>1. UNCHANGED <<spawned, numTests, worker, job, taken, testRuns, results>>
    BY <1>2 DEF Begin, SendJob, CloseJobs, StartWaiter, ResultsEnd, BatchExecute, CloseResults,
                ContextCancelled, vars
  <2> QED
    BY <1>1, <2>1, SameWorkers
<1>3. CASE SpawnWorker
  <2>1. UNCHANGED <<numTests, job, taken, testRuns, results>> /\ main = "spawn"
    BY <1>3 DEF SpawnWorker
  <2>2. Busy' = Busy
    BY <1>3, WorkerComesOrGoes
  <2>3. \A i \in 1..numTests : i > taken
    BY <2>1, Typed DEF PathOK
  <2> QED
    BY <2>1, <2>2, <2>3 DEF NoneForgotten, BatchOK
<1>4. CASE \E w \in Workers : JobsEnd(w)
  BY <1>1, <1>4, WorkerComesOrGoes DEF JobsEnd
<1>5. ASSUME NEW w \in Workers, CheckContext(w) \/ TestEnds(w) PROVE NoneForgotten'
  BY <1>1, <1>5, WorkerBetween DEF CheckContext, TestEnds
<1>6. ASSUME NEW w \in Workers, TakeJob(w) PROVE NoneForgotten'
  <2>1. UNCHANGED <<spawned, numTests, testRuns, results>> /\ taken' = taken + 1 /\ spawned > 0
    BY <1>6, JobTaken DEF TakeJob
  <2>2. /\ w \notin Busy /\ Busy' = Busy \cup {w} /\ job'[w] = taken + 1
        /\ \A v \in Busy : job'[v] = job[v]
    BY <1>6, JobTaken DEF Busy
  <2>3. \A i \in 1..numTests : IF i > taken' THEN i > taken ELSE i <= taken \/ i = taken + 1
    BY <2>1, Typed
  <2>4. \A i \in 1..numTests : i <= taken => ~(i > taken)
    BY Typed
  <2> QED
    BY <2>1, <2>2, <2>3, <2>4 DEF NoneForgotten
<1>7. ASSUME NEW w \in Workers, SendResult(w) PROVE NoneForgotten'
  <2>1. UNCHANGED <<spawned, numTests, testRuns, taken, job>>
    BY <1>7 DEF SendResult
  <2>2. Len(results) + 1 \in 1..Len(results') /\ 1..Len(results) \subseteq 1..Len(results')
    <3>1. Len(results') = Len(results) + 1 /\ Len(results) \in Nat
      BY <1>7, ResultSent, Typed
    <3> QED
      BY <3>1
  <2>3. /\ results'[Len(results) + 1][1] = job[w] /\ Busy' = Busy \ {w}
        /\ \A k \in 1..Len(results) : results'[k] = results[k]
    BY <1>7, ResultSent
  <2>4. \A i \in 1..numTests : Somewhere(i) => Somewhere(i)'
    BY <2>1, <2>2, <2>3
  <2> QED
    BY <2>1, <2>4 DEF NoneForgotten
<1>8. CASE ReceiveResult
  <2>1. UNCHANGED <<spawned, numTests, taken, job, worker>> /\ Busy' = Busy
    BY <1>8, SameWorkers DEF ReceiveResult
  <2>2. /\ results[1][1] \in 1..numTests /\ results[1][2] # "none"
        /\ testRuns' = [testRuns EXCEPT ![results[1][1]] = results[1][2]]
    BY <1>8, ResultReceived DEF Outcomes
  <2>3. \A k \in 1..Len(results) : k # 1 => k \in 2..Len(results)
    BY Typed
  <2>4. \A k \in 2..Len(results) : results'[k - 1] = results[k] /\ k - 1 \in 1..Len(results')
    BY <1>8, ResultReceived
  <2>5. testRuns'[results[1][1]] # "none" /\ \A i \in 1..numTests : testRuns[i] # "none" => testRuns'[i] # "none"
    BY <2>2, Typed
  <2>6. \A i \in 1..numTests : Somewhere(i) => Somewhere(i)'
    BY <2>1, <2>3, <2>4, <2>5
  <2>7. \A i \in 1..numTests : i > taken => i # results[1][1]
    <3>1. results[1][1] \in 1..taken
      BY <1>8, ResultReceived DEF JobsOK
    <3> QED
      BY <3>1, Typed
  <2>8. \A i \in 1..numTests : i # results[1][1] => testRuns'[i] = testRuns[i]
    BY <2>2, Typed
  <2> QED
    BY <2>1, <2>6, <2>7, <2>8 DEF NoneForgotten
<1>9. CASE BatchTestEnds
  BY <1>9 DEF BatchTestEnds, PathOK, NoneForgotten
<1> QED
  BY <1>2, <1>3, <1>4, <1>5, <1>6, <1>7, <1>8, <1>9 DEF Next, MainStep, WorkerStep, Finished

-----------------------------------------------------------------------------
(* Executions                                                               *)

\* In sequence, the position is that of the current test.
LEMMA CurrentTest ==
    ASSUME PInv, NEW n \in 1..numTests, Before(n)
    PROVE  BatchIndex = n
<1>1. {i \in 1..numTests : testRuns[i] # "none"} = 1..(n - 1)
  BY Typed DEF Before
<1>2. Cardinality(1..(n - 1)) = n - 1
  <2>1. n - 1 \in Int /\ 1 \in Int /\ n - 1 >= 0
    BY Typed
  <2> QED
    BY <2>1, FS_Interval
<1>3. BatchIndex = (n - 1) + 1
  BY <1>1, <1>2 DEF BatchIndex
<1> QED
  BY <1>3, Typed

\* In sequence there is a current test, and nobody else is at work.
LEMMA InSequence ==
    ASSUME PInv, PathOK, BatchOK, main \in {"batch", "batchTest"}
    PROVE  /\ BatchIndex \in 1..numTests /\ Before(BatchIndex)
           /\ spawned = 0 /\ results = <<>> /\ \A w \in Workers : worker[w] = "none"
<1>1. PICK n \in 1..numTests : Before(n)
  BY DEF BatchOK
<1>2. spawned = 0
  BY DEF PathOK
<1> QED
  BY <1>1, <1>2, CurrentTest, NobodyYet, NothingYet

LEMMA ExecutionsNext == SInv /\ [Next]_vars => ExecutionsOK'
<1> SUFFICES ASSUME SInv, [Next]_vars PROVE ExecutionsOK'
  OBVIOUS
<1>0. PInv /\ PathOK /\ JobsOK /\ NoneForgotten /\ ExecutionsOK /\ BatchOK
  BY DEF SInv
<1> USE <1>0 DEF jobVars, workerVars, resultVars
<1>1. CASE UNCHANGED <<spawned, numTests, worker, job, run, taken, testRuns, results, executions>>
  BY <1>1 DEF ExecutionsOK
<1>2. CASE \/ Begin \/ SendJob \/ CloseJobs \/ StartWaiter \/ ResultsEnd
           \/ CloseResults \/ ContextCancelled \/ UNCHANGED vars
  <2>1. UNCHANGED <<spawned, numTests, worker, job, run, taken, testRuns, results, executions>>
    BY <1>2 DEF Begin, SendJob, CloseJobs, StartWaiter, ResultsEnd, CloseResults, ContextCancelled, vars
  <2> QED
    BY <1>1, <2>1
<1>3. CASE SpawnWorker
  <2>1. UNCHANGED <<numTests, job, run, taken, testRuns, results, executions>> /\ main = "spawn"
    BY <1>3 DEF SpawnWorker
  <2>2. \A w \in Workers : worker'[w] \in {"check", "running", "sending"} => worker'[w] = worker[w]
    BY <1>3, Typed DEF SpawnWorker
  <2>3. \A i \in 1..numTests : executions[i] = 0
    BY <2>1 DEF BatchOK
  <2> QED
    BY <2>1, <2>2, <2>3 DEF ExecutionsOK
<1>4. ASSUME NEW w \in Workers, JobsEnd(w) PROVE ExecutionsOK'
  <2>1. UNCHANGED <<spawned, numTests, job, run, taken, testRuns, results, executions>>
    BY <1>4 DEF JobsEnd
  <2>2. \A v \in Workers : worker'[v] \in {"check", "running", "sending"} => worker'[v] = worker[v]
    BY <1>4, Typed DEF JobsEnd
  <2> QED
    BY <2>1, <2>2 DEF ExecutionsOK
<1>5. ASSUME NEW w \in Workers, TakeJob(w) PROVE ExecutionsOK'
  <2>1. UNCHANGED <<spawned, numTests, run, testRuns, results, executions>> /\ taken' = taken + 1
    BY <1>5, JobTaken DEF TakeJob
  <2>2. /\ worker'[w] = "check" /\ job'[w] = taken + 1 /\ taken + 1 \in 1..numTests /\ spawned > 0
        /\ \A v \in Workers \ {w} : worker'[v] = worker[v] /\ job'[v] = job[v]
    BY <1>5, JobTaken, Typed DEF TakeJob
  <2>3. \A i \in 1..numTests : i > taken' => i > taken
    BY <2>1, Typed
  <2>4. taken + 1 > taken
    BY Typed
  <2>5. executions[taken + 1] = 0
    BY <2>2, <2>4 DEF ExecutionsOK
  <2> QED
    BY <2>1, <2>2, <2>3, <2>5 DEF ExecutionsOK
<1>6. ASSUME NEW w \in Workers, TestEnds(w) PROVE ExecutionsOK'
  <2>1. UNCHANGED <<spawned, numTests, job, taken, testRuns, results, executions>> /\ worker[w] = "running"
    BY <1>6 DEF TestEnds
  <2>2. worker'[w] = "sending" /\ \A v \in Workers \ {w} : worker'[v] = worker[v] /\ run'[v] = run[v]
    BY <1>6, Typed DEF TestEnds
  <2>3. executions[job[w]] = 1
    BY <2>1 DEF ExecutionsOK
  <2> QED
    BY <2>1, <2>2, <2>3 DEF ExecutionsOK
<1>7. ASSUME NEW w \in Workers, CheckContext(w) PROVE ExecutionsOK'
  <2>1. UNCHANGED <<spawned, numTests, job, taken, testRuns, results>> /\ worker[w] = "check"
    BY <1>7 DEF CheckContext
  <2>2. executions[job[w]] = 0
    BY <2>1 DEF ExecutionsOK
  <2>3. CASE cancelled
    <3>1. /\ worker'[w] = "sending" /\ run'[w] = "failed" /\ executions' = executions
          /\ \A v \in Workers \ {w} : worker'[v] = worker[v] /\ run'[v] = run[v]
      BY <1>7, <2>3, Typed DEF CheckContext
    <3> QED
      BY <2>1, <3>1 DEF ExecutionsOK
  <2>4. CASE ~cancelled
    <3>1. /\ worker'[w] = "running" /\ run' = run
          /\ executions' = [executions EXCEPT ![job[w]] = @ + 1]
          /\ \A v \in Workers \ {w} : worker'[v] = worker[v]
      BY <1>7, <2>4, Typed DEF CheckContext
    <3>2. w \in Busy /\ job[w] \in 1..taken /\ job[w] \in 1..numTests /\ testRuns[job[w]] = "none"
      <4>1. w \in Busy /\ job[w] \in 1..taken
        BY <2>1 DEF Busy, JobsOK
      <4> QED
        BY <4>1, Typed DEF JobsOK
    <3>3. executions'[job[w]] = 1 /\ \A i \in 1..numTests : i # job[w] => executions'[i] = executions[i]
      BY <3>1, <3>2, <2>2, Typed
    <3>4. \A v \in Busy : v # w => job[v] # job[w] /\ job[v] \in 1..numTests
      BY <3>2, Typed DEF JobsOK
    <3>5. \A k \in 1..Len(results) : results[k][1] # job[w] /\ results[k][1] \in 1..numTests
      BY <3>2, Typed, SMTT(30) DEF JobsOK
    <3>6. ~(job[w] > taken)
      BY <3>2, Typed
    <3>7. \A i \in 1..numTests : /\ executions'[i] \in {0, 1}
                                 /\ testRuns'[i] \in {"passed", "timeout"} => executions'[i] = 1
                                 /\ spawned' > 0 /\ i > taken' => executions'[i] = 0
      BY <2>1, <3>2, <3>3, <3>6 DEF ExecutionsOK
    <3>8. \A v \in Workers :
              /\ worker'[v] = "check" => executions'[job'[v]] = 0
              /\ worker'[v] = "running" => executions'[job'[v]] = 1
              /\ worker'[v] = "sending" /\ run'[v] \in {"passed", "timeout"} => executions'[job'[v]] = 1
      <4> TAKE v \in Workers
      <4>1. CASE v = w
        BY <4>1, <2>1, <3>1, <3>3
      <4>2. CASE v # w /\ v \in Busy
        BY <4>2, <2>1, <3>1, <3>3, <3>4 DEF ExecutionsOK
      <4>3. CASE v # w /\ v \notin Busy
        BY <4>3, <3>1 DEF Busy
      <4> QED
        BY <4>1, <4>2, <4>3
    <3>9. \A k \in 1..Len(results') :
              results'[k][2] \in {"passed", "timeout"} => executions'[results'[k][1]] = 1
      BY <2>1, <3>3, <3>5 DEF ExecutionsOK
    <3> QED
      BY <2>1, <3>7, <3>8, <3>9 DEF ExecutionsOK
  <2> QED
    BY <2>3, <2>4
<1>8. ASSUME NEW w \in Workers, SendResult(w) PROVE ExecutionsOK'
  <2>1. UNCHANGED <<spawned, numTests, job, run, taken, testRuns, executions>> /\ worker[w] = "sending"
    BY <1>8 DEF SendResult
  <2>2. worker'[w] = "idle" /\ \A v \in Workers \ {w} : worker'[v] = worker[v]
    BY <1>8, Typed DEF SendResult
  <2>3. \A k \in 1..Len(results') : k \in 1..Len(results) \/ k = Len(results) + 1
    <3>1. Len(results') = Len(results) + 1 /\ Len(results) \in Nat
      BY <1>8, ResultSent, Typed
    <3> QED
      BY <3>1
  <2>4. /\ results'[Len(results) + 1] = <<job[w], run[w]>>
        /\ \A k \in 1..Len(results) : results'[k] = results[k]
    BY <1>8, ResultSent
  <2>5. \A k \in 1..Len(results') :
            results'[k][2] \in {"passed", "timeout"} => executions'[results'[k][1]] = 1
    BY <2>1, <2>3, <2>4 DEF ExecutionsOK
  <2> QED
    BY <2>1, <2>2, <2>5 DEF ExecutionsOK
<1>9. CASE ReceiveResult
  <2>1. UNCHANGED <<spawned, numTests, worker, job, run, taken, executions>>
    BY <1>9 DEF ReceiveResult
  <2>2. /\ results[1][1] \in 1..numTests /\ 1 \in 1..Len(results)
        /\ testRuns' = [testRuns EXCEPT ![results[1][1]] = results[1][2]]
        /\ \A k \in 1..Len(results') : results'[k] = results[k + 1] /\ k + 1 \in 1..Len(results)
    BY <1>9, ResultReceived
  <2>3. \A i \in 1..numTests : testRuns'[i] = IF i = results[1][1] THEN results[1][2] ELSE testRuns[i]
    BY <2>2, Typed
  <2>4. \A i \in 1..numTests : testRuns'[i] \in {"passed", "timeout"} => executions[i] = 1
    BY <2>2, <2>3 DEF ExecutionsOK
  <2>5. \A k \in 1..Len(results') :
            results'[k][2] \in {"passed", "timeout"} => executions[results'[k][1]] = 1
    BY <2>2 DEF ExecutionsOK
  <2> QED
    BY <2>1, <2>4, <2>5 DEF ExecutionsOK
<1>10. CASE BatchExecute
  <2>1. UNCHANGED <<spawned, numTests, worker, results, testRuns>> /\ main = "batch"
    BY <1>10 DEF BatchExecute
  <2>2. /\ BatchIndex \in 1..numTests /\ Before(BatchIndex)
        /\ spawned = 0 /\ results = <<>> /\ \A w \in Workers : worker[w] = "none"
    BY <2>1, InSequence
  <2>3. executions' = [executions EXCEPT ![BatchIndex] = @ + 1]
    BY <1>10 DEF BatchExecute
  <2>4. executions[BatchIndex] = 0 /\ testRuns[BatchIndex] = "none"
    BY <2>1, <2>2 DEF Before
  <2>5. \A i \in 1..numTests : /\ executions'[i] \in {0, 1}
                               /\ testRuns'[i] \in {"passed", "timeout"} => executions'[i] = 1
    BY <2>1, <2>2, <2>3, <2>4, Typed DEF ExecutionsOK
  <2> QED
    BY <2>1, <2>2, <2>5 DEF ExecutionsOK
<1>11. CASE BatchTestEnds
  <2>1. UNCHANGED <<spawned, numTests, worker, results, executions>> /\ main = "batchTest"
    BY <1>11 DEF BatchTestEnds
  <2>2. /\ BatchIndex \in 1..numTests /\ Before(BatchIndex)
        /\ spawned = 0 /\ results = <<>> /\ \A w \in Workers : worker[w] = "none"
    BY <2>1, InSequence
  <2>3. \A i \in 1..numTests : i # BatchIndex => testRuns'[i] = testRuns[i]
    BY <1>11, Typed DEF BatchTestEnds
  <2>4. executions[BatchIndex] = 1
    BY <2>1, <2>2 DEF Before
  <2> QED
    BY <2>1, <2>2, <2>3, <2>4 DEF ExecutionsOK
<1> QED
  BY <1>2, <1>3, <1>4, <1>5, <1>6, <1>7, <1>8, <1>9, <1>10, <1>11 DEF Next, MainStep, WorkerStep, Finished

-----------------------------------------------------------------------------
(* The call as a whole                                                      *)

\* When the results channel is closed and empty, every test has its verdict.
LEMMA AllCollected ==
    ASSUME PInv, PathOK, NoneForgotten, ResultsEnd
    PROVE  \A i \in 1..numTests : testRuns[i] # "none"
<1>1. /\ main = "collect" /\ results = <<>> /\ resultsClosed
      /\ spawned = maxWorkers /\ maxWorkers \in Workers /\ spawned > 0 /\ Len(results) = 0
  BY EmptySeq, Typed DEF ResultsEnd, PathOK
<1>2. \A w \in Workers : worker[w] \in {"none", "exited"}
  BY <1>1 DEF PInv, WaitGroupOK, Live
<1>3. worker[maxWorkers] = "exited"
  BY <1>1, <1>2, Typed DEF PathOK
<1>4. taken = numTests
  BY <1>1, <1>3 DEF PathOK
<1>5. Busy = {}
  BY <1>2 DEF Busy
<1>6. \A i \in 1..numTests : ~(i > taken)
  BY <1>4, Typed
<1>7. 1..Len(results) = {}
  BY <1>1
<1> QED
  BY <1>1, <1>5, <1>6, <1>7 DEF NoneForgotten

\* A test that ends in sequence passes the turn to the next, or is the last.
LEMMA BatchMovesOn ==
    ASSUME SInv, BatchTestEnds
    PROVE  /\ testRuns[BatchIndex] = "none" /\ BatchIndex \in 1..numTests
           /\ BatchOK'
<1>0. PInv /\ PathOK /\ BatchOK
  BY DEF SInv
<1>1. main = "batchTest" /\ UNCHANGED <<numTests, cancelled, spawned, executions>>
  BY DEF BatchTestEnds, jobVars
<1>2. PICK n \in 1..numTests : n = BatchIndex /\ Before(n) /\ spawned = 0
  BY <1>0, <1>1, InSequence
<1>3. testRuns[n] = "none" /\ executions[n] = 1
  BY <1>1, <1>2 DEF Before
<1>4. \A i \in 1..numTests :
          testRuns'[i] # "none" <=> testRuns[i] # "none" \/ i = n
  BY <1>0, <1>2, Typed DEF BatchTestEnds, PossibleOutcomes, Outcomes
<1>5. \A i \in 1..numTests : testRuns'[i] # "none" <=> i <= n
  BY <1>0, <1>2, <1>4, Typed DEF Before
<1>6. CASE cancelled \/ n = numTests
  <2>1. main' = "returned"
    BY <1>2, <1>6 DEF BatchTestEnds
  <2>2. CASE cancelled
    BY <1>1, <1>2, <1>3, <2>1, <2>2 DEF BatchOK
  <2>3. CASE n = numTests
    <3>1. \A i \in 1..numTests' : testRuns'[i] # "none"
      BY <1>0, <1>1, <1>5, <2>3, Typed
    <3> QED
      BY <1>2, <1>3, <2>1, <3>1 DEF BatchOK
  <2> QED
    BY <1>3, <1>2, <1>6, <2>2, <2>3
<1>7. CASE ~cancelled /\ n # numTests
  <2>1. main' = "batch"
    BY <1>2, <1>7 DEF BatchTestEnds
  <2>2. n + 1 \in 1..numTests
    BY <1>0, <1>2, <1>7, Typed
  <2>3. ASSUME NEW i \in 1..numTests
        PROVE  /\ testRuns'[i] # "none" <=> i < n + 1
               /\ i > n + 1 => executions[i] = 0
               /\ i = n + 1 => executions[i] = 0
    <3>1. i \in Int /\ n \in Int
      BY <1>0, <1>2, Typed
    <3>2. i > n => executions[i] = 0
      BY <1>2 DEF Before
    <3> QED
      BY <1>5, <3>1, <3>2
  <2>4. Before(n + 1)'
    BY <1>1, <2>1, <2>3 DEF Before
  <2> QED
    BY <1>1, <1>2, <1>3, <2>1, <2>2, <2>4 DEF BatchOK
<1> QED
  BY <1>2, <1>3, <1>6, <1>7

LEMMA BatchNext == SInv /\ [Next]_vars => BatchOK'
<1> SUFFICES ASSUME SInv, [Next]_vars PROVE BatchOK'
  OBVIOUS
<1>0. PInv /\ PathOK /\ JobsOK /\ NoneForgotten /\ BatchOK
  BY DEF SInv
<1> USE <1>0 DEF jobVars, workerVars, resultVars
<1>1. CASE Begin
  <2>1. /\ main = "begin" /\ UNCHANGED <<numTests, cancelled, spawned, testRuns, executions>>
        /\ \A i \in 1..numTests : testRuns[i] = "none" /\ executions[i] = 0
    BY <1>1 DEF Begin, BatchOK
  <2>2. CASE numTests = 0
    BY <1>1, <2>1, <2>2 DEF Begin, BatchOK
  <2>3. CASE numTests > 0 /\ (maxWorkers = 1 \/ numTests = 1)
    <3>1. main' = "batch"
      BY <1>1, <2>3 DEF Begin
    <3>2. 1 \in 1..numTests /\ \A i \in 1..numTests : ~(i < 1)
      BY <2>3, Typed
    <3>3. Before(1)'
      BY <2>1, <3>1, <3>2 DEF Before
    <3> QED
      BY <2>1, <3>1, <3>2, <3>3 DEF BatchOK
  <2>4. CASE numTests > 0 /\ ~(maxWorkers = 1 \/ numTests = 1)
    BY <1>1, <2>1, <2>4 DEF Begin, BatchOK
  <2> QED
    BY <2>2, <2>3, <2>4, Typed
<1>2. CASE SpawnWorker
  BY <1>2 DEF SpawnWorker, BatchOK
<1>3. CASE SendJob \/ CloseJobs \/ StartWaiter
  BY <1>3 DEF SendJob, CloseJobs, StartWaiter, BatchOK
<1>4. CASE ReceiveResult
  BY <1>4 DEF ReceiveResult, BatchOK
<1>5. CASE ResultsEnd
  BY <1>5, AllCollected DEF ResultsEnd, BatchOK
<1>6. CASE BatchExecute
  <2>1. main = "batch" /\ main' = "batchTest" /\ UNCHANGED <<numTests, cancelled, spawned, testRuns>>
    BY <1>6 DEF BatchExecute
  <2>2. PICK n \in 1..numTests : n = BatchIndex /\ Before(n)
    BY <2>1, InSequence
  <2>3. executions' = [executions EXCEPT ![n] = @ + 1]
    BY <1>6, <2>2 DEF BatchExecute
  <2>4. executions[n] = 0
    BY <2>1, <2>2 DEF Before
  <2>5. executions'[n] = 1 /\ \A i \in 1..numTests : i # n => executions'[i] = executions[i]
    BY <2>2, <2>3, <2>4, Typed
  <2>6. \A i \in 1..numTests : i > n => i # n
    BY <2>2, Typed
  <2>7. Before(n)'
    BY <2>1, <2>2, <2>5, <2>6 DEF Before
  <2> QED
    BY <2>1, <2>2, <2>7 DEF BatchOK
<1>7. CASE BatchTestEnds
  BY <1>7, BatchMovesOn
<1>8. CASE CloseResults \/ UNCHANGED vars
  <2>1. UNCHANGED <<numTests, cancelled, main, spawned, testRuns, executions>>
    BY <1>8 DEF CloseResults, vars
  <2> QED
    BY <2>1 DEF BatchOK, Before
<1>9. CASE ContextCancelled
  <2>1. UNCHANGED <<numTests, main, spawned, testRuns, executions>> /\ main # "returned"
    BY <1>9 DEF ContextCancelled
  <2> QED
    BY <2>1 DEF BatchOK, Before
<1>10. ASSUME NEW w \in Workers, WorkerStep(w) PROVE BatchOK'
  <2>1. UNCHANGED <<numTests, cancelled, main, spawned, testRuns>>
    BY <1>10 DEF WorkerStep, TakeJob, JobsEnd, CheckContext, TestEnds, SendResult
  <2>2. main \notin {"begin", "spawn", "batch", "batchTest"} \/ UNCHANGED executions
    <3>1. worker[w] # "none"
      BY <1>10 DEF WorkerStep, TakeJob, JobsEnd, CheckContext, TestEnds, SendResult
    <3>2. spawned > 0
      BY <3>1, BusyMeansSpawned
    <3>3. CASE main = "spawn"
      <4>1. worker[w] # "check"
        <5>1. taken = 0
          BY <3>3, Typed DEF PathOK
        <5>2. ~(w \in Busy)
          BY <5>1 DEF JobsOK
        <5> QED
          BY <5>2 DEF Busy
      <4> QED
        BY <1>10, <4>1 DEF WorkerStep, TakeJob, JobsEnd, CheckContext, TestEnds, SendResult
    <3> QED
      BY <3>2, <3>3, Typed DEF PathOK
  <2> QED
    BY <2>1, <2>2 DEF BatchOK, Before
<1> QED
  BY <1>1, <1>2, <1>3, <1>4, <1>5, <1>6, <1>7, <1>8, <1>9, <1>10 DEF Next, MainStep, Finished

LEMMA SInvInit == Init => SInv
<1> SUFFICES ASSUME Init PROVE SInv
  OBVIOUS
<1>1. PInv
  BY PInvInit
<1>2. /\ Busy = {} /\ results = <<>> /\ spawned = 0 /\ taken = 0 /\ sent = 0 /\ jobsClosed = FALSE
      /\ main = "begin" /\ waiter = "none" /\ \A w \in Workers : worker[w] = "none"
      /\ \A i \in 1..numTests : testRuns[i] = "none" /\ executions[i] = 0
  BY DEF Init, Busy
<1>3. \A w \in Workers : w > spawned
  BY <1>1, <1>2, Typed DEF Workers
<1>4. PathOK
  BY <1>2, <1>3 DEF PathOK
<1>5. JobsOK /\ NoneForgotten
  BY <1>2 DEF JobsOK, NoneForgotten
<1>6. ExecutionsOK /\ BatchOK
  BY <1>2 DEF ExecutionsOK, BatchOK
<1> QED
  BY <1>1, <1>4, <1>5, <1>6 DEF SInv

LEMMA SInvariance == Spec => []SInv
<1>1. SInv /\ [Next]_vars => SInv'
  <2>1. PInv /\ [Next]_vars => PInv'
    BY TypeNext, CountsNext DEF PInv
  <2> QED
    BY <2>1, PathNext, JobsNext, NoneForgottenNext, ExecutionsNext, BatchNext DEF SInv
<1> QED
  BY SInvInit, <1>1, PTL DEF Spec

-----------------------------------------------------------------------------
(* Theorems                                                                 *)

\* No test is executed twice or by two workers at once, whatever the number of tests
\* and workers, and none passes or times out without having been executed.
THEOREM ExecutedExactlyOnce == Spec => []ExecutedOnce
<1>1. SInv => ExecutedOnce
  <2> SUFFICES ASSUME SInv PROVE ExecutedOnce
    OBVIOUS
  <2>1. \A i \in 1..numTests : /\ executions[i] <= 1
                               /\ testRuns[i] \in {"passed", "timeout"} => executions[i] = 1
    BY DEF SInv, ExecutionsOK
  <2>2. \A v, w \in Workers :
            v # w /\ worker[v] = "running" /\ worker[w] = "running" => job[v] # job[w]
    BY DEF SInv, JobsOK, Busy
  <2> QED
    BY <2>1, <2>2 DEF ExecutedOnce
<1> QED
  BY SInvariance, <1>1, PTL

\* A parallel call returns with a verdict for every test, cancelled or not: no entry of
\* the array it returns is nil.
THEOREM NothingOmitted == Spec => []ParallelOmitsNothing
<1>1. SInv => ParallelOmitsNothing
  BY Typed DEF SInv, BatchOK, ParallelOmitsNothing
<1> QED
  BY SInvariance, <1>1, PTL

\* ExecuteParallel and ExecuteBatch run a suite as TestSuite promises.
THEOREM Refines == Spec => ImplementsTestSuite
<1>1. Init => Suite!Init
  <2> SUFFICES ASSUME Init PROVE Suite!Init
    OBVIOUS
  <2>1. numTests \in Nat
    BY PInvInit, Typed
  <2> QED
    BY <2>1 DEF Init, Suite!Init
<1>2. SInv /\ SInv' /\ [Next]_vars => [Suite!Next]_(Suite!vars)
  <2> SUFFICES ASSUME SInv, SInv', [Next]_vars PROVE [Suite!Next]_(Suite!vars)
    OBVIOUS
  <2>0. PInv /\ PathOK /\ JobsOK /\ NoneForgotten /\ BatchOK /\ BatchOK'
    BY DEF SInv
  <2> USE <2>0 DEF jobVars, workerVars, resultVars
  <2>1. CASE UNCHANGED <<numTests, testRuns, cancelled>> /\ (main' = "returned" <=> main = "returned")
    BY <2>1 DEF Suite!vars
  <2>2. CASE /\ UNCHANGED <<numTests, testRuns, cancelled>>
             /\ main # "returned" /\ main' = "returned"
             /\ (\A i \in 1..numTests : testRuns[i] # "none") \/ cancelled
    BY <2>2 DEF Suite!Next, Suite!Return
  <2>3. CASE Begin
    <3>1. UNCHANGED <<numTests, testRuns, cancelled, spawned>> /\ main = "begin"
      BY <2>3 DEF Begin
    <3>2. main' = "returned" => (\A i \in 1..numTests : testRuns[i] # "none") \/ cancelled
      BY <3>1 DEF BatchOK
    <3> QED
      BY <2>1, <2>2, <3>1, <3>2
  <2>4. CASE ResultsEnd
    BY <2>2, <2>4, AllCollected DEF ResultsEnd
  <2>5. CASE SpawnWorker \/ SendJob \/ CloseJobs \/ StartWaiter \/ BatchExecute \/ CloseResults \/ UNCHANGED vars
    BY <2>1, <2>5 DEF SpawnWorker, SendJob, CloseJobs, StartWaiter, BatchExecute, CloseResults, vars
  <2>6. CASE \E w \in Workers : WorkerStep(w)
    BY <2>1, <2>6 DEF WorkerStep, TakeJob, JobsEnd, CheckContext, TestEnds, SendResult
  <2>7. CASE ContextCancelled
    <3>1. cancelled' = TRUE /\ UNCHANGED <<numTests, testRuns, main>>
      BY <2>7 DEF ContextCancelled
    <3> QED
      BY <3>1 DEF Suite!Next, Suite!Cancel
  <2>8. CASE ReceiveResult
    <3>1. /\ results[1][1] \in 1..numTests /\ results[1][2] \in Outcomes /\ 1 \in 1..Len(results)
          /\ testRuns' = [testRuns EXCEPT ![results[1][1]] = results[1][2]]
      BY <2>8, ResultReceived
    <3>2. testRuns[results[1][1]] = "none"
      BY <3>1 DEF JobsOK
    <3>3. UNCHANGED <<numTests, cancelled, main>> /\ main # "returned"
      BY <2>8 DEF ReceiveResult
    <3>4. Suite!Conclude(results[1][1])
      BY <3>1, <3>2, <3>3 DEF Suite!Conclude
    <3> QED
      BY <3>1, <3>4 DEF Suite!Next
  <2>9. CASE BatchTestEnds
    <3>1. PICK n \in 1..numTests : n = BatchIndex /\ testRuns[n] = "none"
      BY <2>9, BatchMovesOn
    <3>2. PICK o \in Outcomes : testRuns' = [testRuns EXCEPT ![n] = o]
      BY <2>9, <3>1 DEF BatchTestEnds, PossibleOutcomes, Outcomes
    <3>3. UNCHANGED <<numTests, cancelled, spawned>> /\ main # "returned"
      BY <2>9 DEF BatchTestEnds
    <3>4. CASE main' = "returned"
      <4>1. (\A j \in 1..numTests : testRuns'[j] # "none") \/ cancelled
        BY <3>3, <3>4 DEF BatchOK
      <4>2. Suite!ConcludeAndReturn(n)
        BY <3>1, <3>2, <3>3, <3>4, <4>1 DEF Suite!ConcludeAndReturn
      <4> QED
        BY <3>1, <4>2 DEF Suite!Next
    <3>5. CASE main' # "returned"
      <4>1. Suite!Conclude(n)
        BY <3>1, <3>2, <3>3, <3>5 DEF Suite!Conclude
      <4> QED
        BY <3>1, <4>1 DEF Suite!Next
    <3> QED
      BY <3>4, <3>5
  <2> QED
    BY <2>3, <2>4, <2>5, <2>6, <2>7, <2>8, <2>9 DEF Next, MainStep, Finished
<1> QED
  BY <1>1, <1>2, SInvariance, PTL DEF Spec, ImplementsTestSuite, Suite!Spec
=============================================================================
