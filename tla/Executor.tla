------------------------------ MODULE Executor ------------------------------
(***************************************************************************)
(* The per-test workflow of internal/runner/executor.go, with the          *)
(* temporary databases of internal/database/tempdb.go.                     *)
(*                                                                         *)
(* Any number of tests run at once on one PostgreSQL server, each on its   *)
(* own goroutine. What they share is the server's database names and the   *)
(* caller's context; what each has is a deadline, a stack of deferred      *)
(* calls, and the connections it holds in the pool of its own database.    *)
(* The listener is modelled in Listener; here starting it succeeds or      *)
(* fails, collecting takes place, and closing it is a deferred call.       *)
(***************************************************************************)
EXTENDS Naturals, Sequences

CONSTANTS
    Tests,            \* the test files
    Names,            \* database names CreateTempDatabase may come up with
    NoTest,           \* not a test: the owner of a name that is free
    Sources,          \* the instrumented sources, in the order they were given
    Dir,              \* the directory of each test and source
    ExplicitSources,  \* UseExplicitSources has been called
    SetupScripts,     \* how many setup scripts there are
    Cancellable       \* may the caller's context be cancelled?

ASSUME ExecutorAssumption ==
    /\ NoTest \notin Tests
    /\ Sources \in Seq(DOMAIN Dir)
    /\ Tests \subseteq DOMAIN Dir
    /\ ExplicitSources \in BOOLEAN
    /\ SetupScripts \in Nat
    /\ Cancellable \in BOOLEAN

VARIABLES
    owner,      \* server: which test created the database of that name, if it exists
    cancelled,  \* the context given to Execute is done
    pc,         \* where each test's goroutine is
    expired,    \* the test's own deadline has passed
    name,       \* the name it chose for its database
    defers,     \* its pending deferred calls, the next to run last
    held,       \* how many connections of its pool it has acquired
    scripts,    \* how many setup scripts have run
    loaded,     \* how many of its sources it has loaded and recorded as covered
    cause,      \* why its workflow returned: "none" if without an error
    status,     \* TestRun.Status
    fault       \* the server did something the client was not told, or a DROP failed

testVars == <<expired, name, defers, held, scripts, loaded, cause, status, fault>>
vars == <<owner, cancelled, pc, testVars>>

Steps == {"idle", "create", "creating", "connect", "listen", "setup", "setupExec",
          "acquireForLoad", "load", "readTest", "acquireForTest", "execTest", "collect",
          "unwind", "closePool", "drop", "classify", "done"}
Deferred == {"destroy", "closeListener", "release"}
Causes   == {"none", "error", "deadline", "cancelled"}
Statuses == {"pending", "running", "passed", "failed", "timeout"}

TypeOK ==
    /\ owner \in [Names -> Tests \cup {NoTest}]
    /\ cancelled \in BOOLEAN
    /\ pc \in [Tests -> Steps]
    /\ expired \in [Tests -> BOOLEAN]
    /\ name \in [Tests -> Names]
    /\ defers \in [Tests -> Seq(Deferred)]
    /\ held \in [Tests -> Nat]
    /\ scripts \in [Tests -> 0..SetupScripts]
    /\ loaded \in [Tests -> Nat]
    /\ cause \in [Tests -> Causes]
    /\ status \in [Tests -> Statuses]
    /\ fault \in [Tests -> BOOLEAN]

Init ==
    /\ owner = [n \in Names |-> NoTest]
    /\ cancelled = FALSE
    /\ pc = [t \in Tests |-> "idle"]
    /\ expired = [t \in Tests |-> FALSE]
    /\ name \in [Tests -> Names]
    /\ defers = [t \in Tests |-> <<>>]
    /\ held = [t \in Tests |-> 0]
    /\ scripts = [t \in Tests |-> 0]
    /\ loaded = [t \in Tests |-> 0]
    /\ cause = [t \in Tests |-> "none"]
    /\ status = [t \in Tests |-> "pending"]
    /\ fault = [t \in Tests |-> FALSE]

-----------------------------------------------------------------------------
(* Contexts                                                                 *)

\* The test's context is derived from the caller's.
CtxDone(t) == expired[t] \/ cancelled

ContextCancelled ==
    /\ Cancellable
    /\ ~cancelled
    /\ cancelled' = TRUE
    /\ UNCHANGED <<owner, pc, testVars>>

DeadlinePasses(t) ==
    /\ pc[t] \notin {"idle", "done"}
    /\ ~expired[t]
    /\ expired' = [expired EXCEPT ![t] = TRUE]
    /\ UNCHANGED <<owner, cancelled, pc, name, defers, held, scripts, loaded, cause, status, fault>>

-----------------------------------------------------------------------------
(* Helpers                                                                  *)

Goto(t, step) == pc' = [pc EXCEPT ![t] = step]
Defer(t, call) == defers' = [defers EXCEPT ![t] = Append(@, call)]
Acquire(t) == held' = [held EXCEPT ![t] = @ + 1]
Release(t) == held' = [held EXCEPT ![t] = @ - 1]

\* Why an operation that uses the test's context fails now.
Reason(t) ==
    IF ~CtxDone(t) THEN "error" ELSE IF cancelled THEN "cancelled" ELSE "deadline"

\* The workflow returns an error; what it has deferred runs next.
ReturnError(t, why) ==
    /\ cause' = [cause EXCEPT ![t] = why]
    /\ Goto(t, "unwind")

\* filterSourcesByDirectory, unless the caller listed the sources.
SourcesFor(t) ==
    IF ExplicitSources THEN Sources
    ELSE SelectSeq(Sources, LAMBDA s : Dir[s] = Dir[t])

-----------------------------------------------------------------------------
(* CreateTempDatabase                                                       *)

Execute(t) ==
    /\ pc[t] = "idle"
    /\ Goto(t, "create")
    /\ UNCHANGED <<owner, cancelled, testVars>>

\* CREATE DATABASE is sent, unless the context is already done.
SendCreate(t) ==
    /\ pc[t] = "create"
    /\ \/ ~CtxDone(t) /\ Goto(t, "creating") /\ UNCHANGED cause
       \/ CtxDone(t) /\ ReturnError(t, Reason(t))
    /\ UNCHANGED <<owner, cancelled, expired, name, defers, held, scripts, loaded, status, fault>>

DatabaseCreated(t) ==
    /\ pc[t] = "creating"
    /\ ~CtxDone(t)
    /\ owner[name[t]] = NoTest
    /\ owner' = [owner EXCEPT ![name[t]] = t]
    /\ Goto(t, "connect")
    /\ UNCHANGED <<cancelled, testVars>>

\* Mutant of CreateFails: cleaning up is arranged before the error is looked at.
CreateFailsAfterDefer(t) ==
    /\ pc[t] = "creating"
    /\ ReturnError(t, Reason(t))
    /\ Defer(t, "destroy")
    /\ UNCHANGED <<owner, cancelled, expired, name, held, scripts, loaded, status, fault>>

\* CREATE DATABASE returns an error and nothing has been deferred yet. The name may
\* have been taken; or the answer to a CREATE that did succeed was not waited for.
CreateFails(t) ==
    /\ pc[t] = "creating"
    /\ ReturnError(t, Reason(t))
    /\ \/ UNCHANGED <<owner, fault>>
       \/ /\ owner[name[t]] = NoTest
          /\ owner' = [owner EXCEPT ![name[t]] = t]
          /\ fault' = [fault EXCEPT ![t] = TRUE]
    /\ UNCHANGED <<cancelled, expired, name, defers, held, scripts, loaded, status>>

\* The pool for the new database exists; destroying both is deferred.
PoolCreated(t) ==
    /\ pc[t] = "connect"
    /\ Defer(t, "destroy")
    /\ Goto(t, "listen")
    /\ UNCHANGED <<owner, cancelled, expired, name, held, scripts, loaded, cause, status, fault>>

\* It does not: the database is dropped with the test's own context, and whether
\* that worked is not looked at.
PoolFails(t) ==
    /\ pc[t] = "connect"
    /\ ReturnError(t, Reason(t))
    /\ \/ /\ ~CtxDone(t)
          /\ owner' = [owner EXCEPT ![name[t]] = NoTest]
          /\ UNCHANGED fault
       \/ /\ fault' = [fault EXCEPT ![t] = TRUE]
          /\ UNCHANGED owner
    /\ UNCHANGED <<cancelled, expired, name, defers, held, scripts, loaded, status>>

-----------------------------------------------------------------------------
(* The workflow                                                             *)

StartListener(t) ==
    /\ pc[t] = "listen"
    /\ \/ /\ ~CtxDone(t)
          /\ Defer(t, "closeListener")
          /\ Goto(t, IF SetupScripts > 0 THEN "setup" ELSE "acquireForLoad")
          /\ UNCHANGED cause
       \/ ReturnError(t, Reason(t)) /\ UNCHANGED defers
    /\ UNCHANGED <<owner, cancelled, expired, name, held, scripts, loaded, status, fault>>

AcquireForSetup(t) ==
    /\ pc[t] = "setup"
    /\ \/ ~CtxDone(t) /\ Acquire(t) /\ Goto(t, "setupExec") /\ UNCHANGED cause
       \/ ReturnError(t, Reason(t)) /\ UNCHANGED held
    /\ UNCHANGED <<owner, cancelled, expired, name, defers, scripts, loaded, status, fault>>

\* One setup script; the connection is released after the last one or the first error.
RunSetupScript(t) ==
    /\ pc[t] = "setupExec"
    /\ \/ /\ ~CtxDone(t)
          /\ scripts[t] < SetupScripts
          /\ scripts' = [scripts EXCEPT ![t] = @ + 1]
          /\ UNCHANGED <<pc, held, cause>>
       \/ /\ scripts[t] < SetupScripts
          /\ Release(t)
          /\ ReturnError(t, Reason(t))
          /\ UNCHANGED scripts
       \/ /\ scripts[t] = SetupScripts
          /\ Release(t)
          /\ Goto(t, "acquireForLoad")
          /\ UNCHANGED <<scripts, cause>>
    /\ UNCHANGED <<owner, cancelled, expired, name, defers, loaded, status, fault>>

\* Mutant of AcquireForLoad: the release is deferred as well as made explicitly.
AcquireForLoadDeferring(t) ==
    /\ pc[t] = "acquireForLoad"
    /\ ~CtxDone(t) /\ Acquire(t) /\ Goto(t, "load") /\ Defer(t, "release")
    /\ UNCHANGED <<owner, cancelled, expired, name, scripts, loaded, cause, status, fault>>

AcquireForLoad(t) ==
    /\ pc[t] = "acquireForLoad"
    /\ \/ ~CtxDone(t) /\ Acquire(t) /\ Goto(t, "load") /\ UNCHANGED cause
       \/ ReturnError(t, Reason(t)) /\ UNCHANGED held
    /\ UNCHANGED <<owner, cancelled, expired, name, defers, scripts, loaded, status, fault>>

\* Mutants of LoadFails: the connection is not released; the error is not returned.
LoadFailsHolding(t) ==
    /\ ReturnError(t, Reason(t))
    /\ UNCHANGED held

LoadFailsQuietly(t) ==
    /\ Goto(t, "readTest")
    /\ Release(t)
    /\ UNCHANGED cause

LoadFails(t) ==
    /\ ReturnError(t, Reason(t))
    /\ Release(t)

\* The next of its sources is executed and its DDL and DML recorded as covered. A
\* failure ends the workflow, keeping what the sources before it recorded.
LoadSource(t) ==
    /\ pc[t] = "load"
    /\ loaded[t] < Len(SourcesFor(t))
    /\ \/ /\ ~CtxDone(t)
          /\ loaded' = [loaded EXCEPT ![t] = @ + 1]
          /\ UNCHANGED <<pc, held, cause>>
       \/ LoadFails(t) /\ UNCHANGED loaded
    /\ UNCHANGED <<owner, cancelled, expired, name, defers, scripts, status, fault>>

AllLoaded(t) ==
    /\ pc[t] = "load"
    /\ loaded[t] = Len(SourcesFor(t))
    /\ Release(t)
    /\ Goto(t, "readTest")
    /\ UNCHANGED <<owner, cancelled, expired, name, defers, scripts, loaded, cause, status, fault>>

\* Reading the file does not look at the context.
ReadTest(t) ==
    /\ pc[t] = "readTest"
    /\ \/ /\ status' = [status EXCEPT ![t] = "running"]
          /\ Goto(t, "acquireForTest")
          /\ UNCHANGED cause
       \/ ReturnError(t, "error") /\ UNCHANGED status
    /\ UNCHANGED <<owner, cancelled, expired, name, defers, held, scripts, loaded, fault>>

\* Mutant of AcquireForTest: the release is not deferred.
AcquireForTestOnly(t) ==
    /\ pc[t] = "acquireForTest"
    /\ ~CtxDone(t) /\ Acquire(t) /\ Goto(t, "execTest") /\ UNCHANGED <<cause, defers>>
    /\ UNCHANGED <<owner, cancelled, expired, name, scripts, loaded, status, fault>>

AcquireForTest(t) ==
    /\ pc[t] = "acquireForTest"
    /\ \/ /\ ~CtxDone(t)
          /\ Acquire(t)
          /\ Defer(t, "release")
          /\ Goto(t, "execTest")
          /\ UNCHANGED cause
       \/ ReturnError(t, Reason(t)) /\ UNCHANGED <<held, defers>>
    /\ UNCHANGED <<owner, cancelled, expired, name, scripts, loaded, status, fault>>

ExecTest(t) ==
    /\ pc[t] = "execTest"
    /\ \/ ~CtxDone(t) /\ Goto(t, "collect") /\ UNCHANGED cause
       \/ ReturnError(t, Reason(t))
    /\ UNCHANGED <<owner, cancelled, expired, name, defers, held, scripts, loaded, status, fault>>

\* CollectSignals returns; that the context ended it is not an error.
CollectSignals(t) ==
    /\ pc[t] = "collect"
    /\ Goto(t, "unwind")
    /\ UNCHANGED <<owner, cancelled, testVars>>

-----------------------------------------------------------------------------
(* The deferred calls, last in first out, and DestroyTempDatabase           *)

Popped(calls) == SubSeq(calls, 1, Len(calls) - 1)

RunDeferred(t) ==
    /\ pc[t] = "unwind"
    /\ defers[t] # <<>>
    /\ defers' = [defers EXCEPT ![t] = Popped(@)]
    /\ LET call == defers[t][Len(defers[t])] IN
          /\ IF call = "release" THEN Release(t) ELSE UNCHANGED held
          /\ IF call = "destroy" THEN Goto(t, "closePool") ELSE UNCHANGED pc
    /\ UNCHANGED <<owner, cancelled, expired, name, scripts, loaded, cause, status, fault>>

\* Closing the pool waits until every connection has been released.
ClosePool(t) ==
    /\ pc[t] = "closePool"
    /\ held[t] = 0
    /\ Goto(t, "drop")
    /\ UNCHANGED <<owner, cancelled, testVars>>

\* Mutant of DropReachesServer: cleaning up under the test's own context.
DropNeedsLiveContext(t) == ~CtxDone(t)

\* The DROP runs under a fresh five-second context, whatever became of the test's.
DropReachesServer(t) == TRUE

DropDatabase(t) ==
    /\ pc[t] = "drop"
    /\ owner' = [owner EXCEPT ![name[t]] = IF DropReachesServer(t) THEN NoTest ELSE @]
    /\ Goto(t, "unwind")
    /\ UNCHANGED <<cancelled, testVars>>

\* The DROP fails, and its error is ignored.
DropFails(t) ==
    /\ pc[t] = "drop"
    /\ fault' = [fault EXCEPT ![t] = TRUE]
    /\ Goto(t, "unwind")
    /\ UNCHANGED <<owner, cancelled, expired, name, defers, held, scripts, loaded, cause, status>>

WorkflowReturns(t) ==
    /\ pc[t] = "unwind"
    /\ defers[t] = <<>>
    /\ Goto(t, "classify")
    /\ UNCHANGED <<owner, cancelled, testVars>>

-----------------------------------------------------------------------------
(* Execute, once the workflow has returned                                  *)

\* Mutant of Verdict: every error is a failure.
VerdictWithoutTimeout(t) == IF cause[t] = "none" THEN "passed" ELSE "failed"

\* The contexts are looked at now, after the deferred calls have run.
Verdict(t) ==
    IF cause[t] = "none" THEN "passed"
    ELSE IF ~cancelled /\ expired[t] THEN "timeout"
    ELSE "failed"

Classify(t) ==
    /\ pc[t] = "classify"
    /\ status' = [status EXCEPT ![t] = Verdict(t)]
    /\ Goto(t, "done")
    /\ UNCHANGED <<owner, cancelled, expired, name, defers, held, scripts, loaded, cause, fault>>

Step(t) ==
    \/ Execute(t) \/ SendCreate(t) \/ DatabaseCreated(t) \/ CreateFails(t)
    \/ PoolCreated(t) \/ PoolFails(t) \/ StartListener(t)
    \/ AcquireForSetup(t) \/ RunSetupScript(t)
    \/ AcquireForLoad(t) \/ LoadSource(t) \/ AllLoaded(t)
    \/ ReadTest(t) \/ AcquireForTest(t) \/ ExecTest(t) \/ CollectSignals(t)
    \/ RunDeferred(t) \/ ClosePool(t) \/ DropDatabase(t) \/ DropFails(t)
    \/ WorkflowReturns(t) \/ Classify(t)

\* Every test has its verdict.
Finished ==
    /\ \A t \in Tests : pc[t] = "done"
    /\ UNCHANGED vars

Next ==
    \/ \E t \in Tests : Step(t) \/ DeadlinePasses(t)
    \/ ContextCancelled
    \/ Finished

\* Every call a test makes returns: the deadline bounds those on the test's
\* context, five seconds the DROP. Nothing bounds the wait for the pool to close.
Fairness == \A t \in Tests : WF_vars(Step(t))

Spec == Init /\ [][Next]_vars /\ Fairness

-----------------------------------------------------------------------------
(* Properties                                                               *)

\* The test relies on its database: it has been created and will be destroyed.
UsesDatabase(t) ==
    \/ pc[t] \in {"connect", "closePool", "drop"}
    \/ \E i \in 1..Len(defers[t]) : defers[t][i] = "destroy"

\* Isolation. While a test relies on its database, the database exists and is the
\* one that test created: no other test - not even one that came up with the same
\* name, failed to create it and cleaned up after itself - uses or drops it.
OwnsItsDatabase == \A t \in Tests : UsesDatabase(t) => owner[name[t]] = t

\* By the time the pool is closed every connection taken from it is back, on every
\* path through the workflow, so the close cannot wait for the test that calls it.
PoolIdleWhenClosed == \A t \in Tests : pc[t] = "closePool" => held[t] = 0

\* A finished test has left no database behind unless the server did something it
\* was not told of or a DROP failed. In particular its deadline, the caller's
\* cancellation and a failure of any step do not prevent the clean-up.
CleansUpUnlessFault ==
    \A t \in Tests : pc[t] = "done" /\ ~fault[t] => \A n \in Names : owner[n] # t

\* The verdict. A test passes exactly when its workflow returned no error, however
\* late; one that its own deadline cut short is reported as a timeout, not as a
\* failure, unless the whole run was cancelled.
VerdictSound ==
    \A t \in Tests : pc[t] = "done" =>
        /\ status[t] = "passed" <=> cause[t] = "none"
        /\ cause[t] = "deadline" => status[t] = "timeout" \/ cancelled

\* A passed test ran against its whole environment: every setup script and every
\* source co-located with it had been executed in its database.
PassedRanEverything ==
    \A t \in Tests : status[t] = "passed" =>
        /\ scripts[t] = SetupScripts
        /\ loaded[t] = Len(SourcesFor(t))

\* Every test that is started gets a verdict.
EveryTestConcludes == \A t \in Tests : pc[t] = "create" ~> pc[t] = "done"

\* The documented meaning of a timeout: the deadline, not an ordinary failure, is what
\* ended the test. Asked of tests that got as far as loading a source, so that between
\* the failure and the verdict lie the deferred calls that take database and listener down.
TimeoutMeansDeadline ==
    \A t \in Tests : status[t] = "timeout" /\ loaded[t] > 0 => cause[t] = "deadline"

=============================================================================
