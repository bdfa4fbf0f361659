----------------------------- MODULE WorkerPool -----------------------------
(***************************************************************************)
(* How a suite is run: WorkerPool.ExecuteParallel and its worker           *)
(* (internal/runner/parallel.go), and Executor.ExecuteBatch, to which it   *)
(* falls back.                                                             *)
(*                                                                         *)
(* The calling goroutine spawns the workers, fills the jobs channel, starts*)
(* a goroutine that waits for the workers and closes the results channel,  *)
(* and collects results until that happens. What happens inside one test   *)
(* is modelled in Executor; here a test starts, and ends with an outcome.  *)
(***************************************************************************)
EXTENDS Integers, Sequences, FiniteSets

CONSTANTS
    MaxTests,     \* bound: tests in the suite
    MaxWorkers,   \* bound: workers asked for
    Cancellable   \* may the caller's context be cancelled?

ASSUME WorkerPoolAssumption ==
    /\ MaxTests \in Nat
    /\ MaxWorkers \in Nat \ {0}
    /\ Cancellable \in BOOLEAN

VARIABLES
    numTests,
    maxWorkers,
    cancelled,      \* the caller's context is done
    main,           \* where the calling goroutine is
    spawned,        \* how many workers it has started
    sent,           \* how many jobs it has sent: jobs 1..sent, in this order
    jobsClosed,
    worker,         \* where each worker is
    taken,          \* how many jobs the workers have received
    job,            \* the job each worker is on
    run,            \* the outcome it has for it
    wg,             \* the wait group's counter
    waiter,         \* where the goroutine that waits for the workers is
    results,        \* contents of the results channel
    resultsClosed,
    testRuns,       \* testRuns[i]: the outcome recorded for test i, or "none"
    executions      \* how often Execute was called for each test

jobVars    == <<spawned, sent, jobsClosed>>
workerVars == <<worker, taken, job, run, wg>>
resultVars == <<waiter, results, resultsClosed>>
vars == <<numTests, maxWorkers, cancelled, main, jobVars, workerVars, resultVars,
          testRuns, executions>>

Workers  == 1..MaxWorkers
Outcomes == {"passed", "failed", "timeout"}

\* Mutant of JobsCapacity: room for as many jobs as there are workers.
RoomForWorkers == maxWorkers

\* Both channels have room for the whole suite.
JobsCapacity    == numTests
ResultsCapacity == numTests

MainStates   == {"begin", "spawn", "send", "startWaiter", "collect", "batch", "batchTest",
                 "returned"}
WorkerStates == {"none", "idle", "check", "running", "sending", "exited"}

TypeOK ==
    /\ numTests \in 0..MaxTests
    /\ maxWorkers \in Workers
    /\ cancelled \in BOOLEAN
    /\ main \in MainStates
    /\ spawned \in 0..maxWorkers
    /\ sent \in 0..numTests
    /\ jobsClosed \in BOOLEAN
    /\ worker \in [Workers -> WorkerStates]
    /\ taken \in 0..sent
    /\ job \in [Workers -> 0..numTests]
    /\ run \in [Workers -> Outcomes \cup {"none"}]
    /\ wg \in Nat
    /\ waiter \in {"none", "waiting", "exited"}
    /\ results \in Seq((1..numTests) \X Outcomes)
    /\ resultsClosed \in BOOLEAN
    /\ testRuns \in [1..numTests -> Outcomes \cup {"none"}]
    /\ executions \in [1..numTests -> Nat]

\* NewWorkerPool: at least one worker, whatever was asked for.
NewWorkerPool(asked) == IF asked < 1 THEN 1 ELSE asked

Init ==
    /\ numTests \in 0..MaxTests
    /\ maxWorkers \in {NewWorkerPool(n) : n \in 0..MaxWorkers}
    /\ cancelled = FALSE
    /\ main = "begin"
    /\ spawned = 0
    /\ sent = 0
    /\ jobsClosed = FALSE
    /\ worker = [w \in Workers |-> "none"]
    /\ taken = 0
    /\ job = [w \in Workers |-> 0]
    /\ run = [w \in Workers |-> "none"]
    /\ wg = 0
    /\ waiter = "none"
    /\ results = <<>>
    /\ resultsClosed = FALSE
    /\ testRuns = [i \in 1..numTests |-> "none"]
    /\ executions = [i \in 1..numTests |-> 0]

ContextCancelled ==
    /\ Cancellable
    /\ ~cancelled
    /\ main # "returned"
    /\ cancelled' = TRUE
    /\ UNCHANGED <<numTests, maxWorkers, main, jobVars, workerVars, resultVars,
                   testRuns, executions>>

-----------------------------------------------------------------------------
(* ExecuteParallel, on the calling goroutine                                *)

Begin ==
    /\ main = "begin"
    /\ main' = CASE numTests = 0 -> "returned"
                 [] numTests > 0 /\ (maxWorkers = 1 \/ numTests = 1) -> "batch"
                 [] OTHER -> "spawn"
    /\ UNCHANGED <<numTests, maxWorkers, cancelled, jobVars, workerVars, resultVars,
                   testRuns, executions>>

\* Mutant of SpawnWorker: the worker is not added to the wait group.
SpawnUnregistered ==
    /\ main = "spawn"
    /\ spawned' = spawned + 1
    /\ worker' = [worker EXCEPT ![spawned + 1] = "idle"]
    /\ main' = IF spawned + 1 = maxWorkers THEN "send" ELSE "spawn"
    /\ UNCHANGED <<numTests, maxWorkers, cancelled, sent, jobsClosed, taken, job, run, wg,
                   resultVars, testRuns, executions>>

SpawnWorker ==
    /\ main = "spawn"
    /\ spawned' = spawned + 1
    /\ wg' = wg + 1
    /\ worker' = [worker EXCEPT ![spawned + 1] = "idle"]
    /\ main' = IF spawned + 1 = maxWorkers THEN "send" ELSE "spawn"
    /\ UNCHANGED <<numTests, maxWorkers, cancelled, sent, jobsClosed, taken, job, run,
                   resultVars, testRuns, executions>>

\* The send blocks while the jobs channel is full.
SendJob ==
    /\ main = "send"
    /\ sent < numTests
    /\ sent - taken < JobsCapacity
    /\ sent' = sent + 1
    /\ UNCHANGED <<numTests, maxWorkers, cancelled, main, spawned, jobsClosed, workerVars,
                   resultVars, testRuns, executions>>

\* Mutant of CloseJobs: the channel is left open.
LeaveJobsOpen ==
    /\ main = "send"
    /\ sent = numTests
    /\ main' = "startWaiter"
    /\ UNCHANGED <<numTests, maxWorkers, cancelled, jobVars, workerVars, resultVars,
                   testRuns, executions>>

CloseJobs ==
    /\ main = "send"
    /\ sent = numTests
    /\ jobsClosed' = TRUE
    /\ main' = "startWaiter"
    /\ UNCHANGED <<numTests, maxWorkers, cancelled, spawned, sent, workerVars, resultVars,
                   testRuns, executions>>

StartWaiter ==
    /\ main = "startWaiter"
    /\ waiter' = "waiting"
    /\ main' = "collect"
    /\ UNCHANGED <<numTests, maxWorkers, cancelled, jobVars, workerVars, results, resultsClosed,
                   testRuns, executions>>

ReceiveResult ==
    /\ main = "collect"
    /\ results # <<>>
    /\ testRuns' = [testRuns EXCEPT ![Head(results)[1]] = Head(results)[2]]
    /\ results' = Tail(results)
    /\ UNCHANGED <<numTests, maxWorkers, cancelled, main, jobVars, workerVars, waiter,
                   resultsClosed, executions>>

\* The results channel is closed and empty.
ResultsEnd ==
    /\ main = "collect"
    /\ results = <<>>
    /\ resultsClosed
    /\ main' = "returned"
    /\ UNCHANGED <<numTests, maxWorkers, cancelled, jobVars, workerVars, resultVars,
                   testRuns, executions>>

\* Mutant of WorkersDone: waiting for the jobs instead of the workers.
AllJobsTaken == jobsClosed /\ taken = sent

\* wg.Wait returns.
WorkersDone == wg = 0

CloseResults ==
    /\ waiter = "waiting"
    /\ WorkersDone
    /\ resultsClosed' = TRUE
    /\ waiter' = "exited"
    /\ UNCHANGED <<numTests, maxWorkers, cancelled, main, jobVars, workerVars, results,
                   testRuns, executions>>

-----------------------------------------------------------------------------
(* worker                                                                   *)

\* Mutant of NextJob: a job is looked at and not removed.
PeekJob == UNCHANGED taken

\* A receive removes the oldest job.
NextJob == taken' = taken + 1

TakeJob(w) ==
    /\ worker[w] = "idle"
    /\ taken < sent
    /\ job' = [job EXCEPT ![w] = taken + 1]
    /\ NextJob
    /\ worker' = [worker EXCEPT ![w] = "check"]
    /\ UNCHANGED <<numTests, maxWorkers, cancelled, main, jobVars, run, wg, resultVars,
                   testRuns, executions>>

\* The jobs channel is closed and empty: the worker leaves the wait group.
JobsEnd(w) ==
    /\ worker[w] = "idle"
    /\ jobsClosed
    /\ taken = sent
    /\ wg' = wg - 1
    /\ worker' = [worker EXCEPT ![w] = "exited"]
    /\ UNCHANGED <<numTests, maxWorkers, cancelled, main, jobVars, taken, job, run, resultVars,
                   testRuns, executions>>

\* Mutant of CheckContext: a job found after cancellation is skipped.
SkipIfCancelled(w) ==
    /\ worker[w] = "check"
    /\ IF cancelled
       THEN worker' = [worker EXCEPT ![w] = "idle"] /\ UNCHANGED executions
       ELSE /\ executions' = [executions EXCEPT ![job[w]] = @ + 1]
            /\ worker' = [worker EXCEPT ![w] = "running"]
    /\ UNCHANGED <<numTests, maxWorkers, cancelled, main, jobVars, taken, job, run, wg, resultVars,
                   testRuns>>

\* A job found after cancellation fails without being executed.
CheckContext(w) ==
    /\ worker[w] = "check"
    /\ IF cancelled
       THEN /\ run' = [run EXCEPT ![w] = "failed"]
            /\ worker' = [worker EXCEPT ![w] = "sending"]
            /\ UNCHANGED executions
       ELSE /\ executions' = [executions EXCEPT ![job[w]] = @ + 1]
            /\ worker' = [worker EXCEPT ![w] = "running"]
            /\ UNCHANGED run
    /\ UNCHANGED <<numTests, maxWorkers, cancelled, main, jobVars, taken, job, wg, resultVars,
                   testRuns>>

\* Execute attributes nothing to the test's own deadline once the caller's context
\* is done.
PossibleOutcomes == IF cancelled THEN {"passed", "failed"} ELSE Outcomes

TestEnds(w) ==
    /\ worker[w] = "running"
    /\ \E o \in PossibleOutcomes : run' = [run EXCEPT ![w] = o]
    /\ worker' = [worker EXCEPT ![w] = "sending"]
    /\ UNCHANGED <<numTests, maxWorkers, cancelled, main, jobVars, taken, job, wg, resultVars,
                   testRuns, executions>>

\* The send blocks while the results channel is full.
SendResult(w) ==
    /\ worker[w] = "sending"
    /\ Len(results) < ResultsCapacity
    /\ results' = Append(results, <<job[w], run[w]>>)
    /\ worker' = [worker EXCEPT ![w] = "idle"]
    /\ UNCHANGED <<numTests, maxWorkers, cancelled, main, jobVars, taken, job, run, wg, waiter,
                   resultsClosed, testRuns, executions>>

WorkerStep(w) ==
    TakeJob(w) \/ JobsEnd(w) \/ CheckContext(w) \/ TestEnds(w) \/ SendResult(w)

-----------------------------------------------------------------------------
(* ExecuteBatch. A test's position is the number of runs so far, plus one.  *)

BatchIndex == Cardinality({i \in 1..numTests : testRuns[i] # "none"}) + 1

\* The context is not looked at before a test, only after.
BatchExecute ==
    /\ main = "batch"
    /\ executions' = [executions EXCEPT ![BatchIndex] = @ + 1]
    /\ main' = "batchTest"
    /\ UNCHANGED <<numTests, maxWorkers, cancelled, jobVars, workerVars, resultVars, testRuns>>

BatchTestEnds ==
    /\ main = "batchTest"
    /\ \E o \in PossibleOutcomes : testRuns' = [testRuns EXCEPT ![BatchIndex] = o]
    /\ main' = IF cancelled \/ BatchIndex = numTests THEN "returned" ELSE "batch"
    /\ UNCHANGED <<numTests, maxWorkers, cancelled, jobVars, workerVars, resultVars, executions>>

MainStep ==
    \/ Begin \/ SpawnWorker \/ SendJob \/ CloseJobs \/ StartWaiter \/ ReceiveResult \/ ResultsEnd
    \/ BatchExecute \/ BatchTestEnds

Finished ==
    /\ main = "returned"
    /\ UNCHANGED vars

Next ==
    \/ MainStep
    \/ CloseResults
    \/ \E w \in Workers : WorkerStep(w)
    \/ ContextCancelled
    \/ Finished

\* Every goroutine is scheduled, and every test ends: its deadline sees to that.
Fairness ==
    /\ WF_vars(MainStep)
    /\ WF_vars(CloseResults)
    /\ \A w \in Workers : WF_vars(WorkerStep(w))

Spec == Init /\ [][Next]_vars /\ Fairness

-----------------------------------------------------------------------------
(* Properties                                                               *)

\* Parallel or not, the suite is run as TestSuite promises: one lasting verdict per
\* test, and no return without all of them unless the caller cancelled.
Suite == INSTANCE TestSuite WITH verdict <- testRuns, returned <- main = "returned"
ImplementsTestSuite == Suite!Spec

\* The results channel is closed only once no worker can send on it any more, which
\* would panic.
ClosedAfterLastSend ==
    resultsClosed => \A w \in Workers : worker[w] \in {"none", "exited"}

\* Neither channel ever fills up. All jobs are sent before the first result is received,
\* so a sender that waited for the workers, and workers that waited for the collector,
\* would wait for each other.
SendNeverBlocks ==
    /\ main = "send" /\ sent < numTests => sent - taken < JobsCapacity
    /\ \A w \in Workers : worker[w] = "sending" => Len(results) < ResultsCapacity

\* No test is executed twice, two workers are never on the same test, and a test is
\* recorded as passed or timed out only if it was executed.
ExecutedOnce ==
    /\ \A i \in 1..numTests :
          /\ executions[i] <= 1
          /\ testRuns[i] \in {"passed", "timeout"} => executions[i] = 1
    /\ \A v, w \in Workers :
          v # w /\ worker[v] = "running" /\ worker[w] = "running" => job[v] # job[w]

\* Unlike ExecuteBatch, the parallel path reports on every test even if the caller
\* cancels half way: a nil entry would crash the summary that reads it.
ParallelOmitsNothing ==
    main = "returned" /\ spawned > 0 => \A i \in 1..numTests : testRuns[i] # "none"

\* The call returns, whatever the number of tests and workers.
AlwaysReturns == <>(main = "returned")

=============================================================================
