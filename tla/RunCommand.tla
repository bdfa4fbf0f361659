----------------------------- MODULE RunCommand -----------------------------
(***************************************************************************)
(* What happens to coverage data between the tests and the files: cli.Run  *)
(* from its first step to its exit code (internal/cli/run.go), the store   *)
(* (internal/coverage/store.go) and cli.Merge (internal/cli/merge.go).     *)
(*                                                                         *)
(* A suite is split into shards. Each shard is a `pgcov run` of its own,   *)
(* with its own coverage file; a `pgcov merge` combines the files. All are *)
(* separate processes: they interleave, a file may hold an earlier run's   *)
(* data, and any process may be killed. How the tests themselves are run   *)
(* is modelled in WorkerPool; here every test run has some outcome and     *)
(* some signals.                                                           *)
(***************************************************************************)
EXTENDS Coverage

CONSTANTS
    Shards,       \* the `pgcov run` processes; each names its coverage file, too
    Merger,       \* the `pgcov merge` process, and its output file
    Points,       \* Points[s]: the Locations of the sources shard s instruments
    MaxTests,     \* MaxTests[s]: bound: how many tests shard s may discover
    SignalSeqs,   \* SignalSeqs[s]: what one of its test runs may have collected
    FailUnder,    \* --fail-under; 0 when it is not given
    Absent,       \* the content of a file that does not exist
    Torn,         \* the content of a file whose writing was cut short
    OldPositions  \* what an earlier run may have covered, when the sources were others

ASSUME RunCommandAssumption ==
    /\ Merger \notin Shards
    /\ IsFiniteSet(Shards) /\ Cardinality(Shards) >= 2
    /\ MaxTests \in [Shards -> Nat \ {0}]
    /\ FailUnder \in Nat
    /\ Absent # Torn

\* A position of a source is executable or implicit, and shards that share the source agree.
\* A signal is of one of the shard's points (see SourceFile), or cannot be read.
ASSUME PointsAssumption ==
    /\ \A s \in Shards : /\ IsFiniteSet(Points[s])
                         /\ \A q \in Points[s] : q.implicit \in BOOLEAN /\ q.pos # BadSignal
    /\ \A s, t \in Shards : \A q \in Points[s], r \in Points[t] : q.pos = r.pos => q.implicit = r.implicit
    /\ \A s \in Shards : SignalSeqs[s] \subseteq Seq({q.pos : q \in Points[s]} \cup {BadSignal})

VARIABLES
    files,     \* the content of each coverage file
    pc,        \* where each process is
    testRuns,  \* the runs of each shard's tests
    next,      \* the next run a shard collects, or input the merge loads
    nextSig,   \* the next of that run's signals
    cov,       \* the coverage a process is building
    exit,      \* how it ended: "running", "zero", "one", "error", "killed"
    fresh,     \* every file the merge has loaded was saved by its shard just now
    earlier    \* the coverage file there was before (a history variable)

vars == <<files, pc, testRuns, next, nextSig, cov, exit, fresh, earlier>>

Processes == Shards \cup {Merger}
ShardSeq == SetToSeq(Shards)

Statuses == {"passed", "failed", "timeout"}

\* Coverage files an earlier build, or an earlier run, may have left.
OldFiles == {Absent,
             [NewCoverage EXCEPT !.version = "1.0"],
             [NewCoverage EXCEPT !.positions = [c \in OldPositions |-> 1]]}

Init ==
    /\ earlier \in OldFiles
    /\ files = [p \in Processes |-> earlier]
    /\ pc = [p \in Processes |-> IF p = Merger THEN "load" ELSE "discover"]
    /\ testRuns = [s \in Shards |-> <<>>]
    /\ next = [p \in Processes |-> 1]
    /\ nextSig = [s \in Shards |-> 1]
    /\ cov = [p \in Processes |-> NewCoverage]
    /\ exit = [p \in Processes |-> "running"]
    /\ fresh = TRUE

Goto(p, step) == pc' = [pc EXCEPT ![p] = step]

End(p, how) ==
    /\ Goto(p, "ended")
    /\ exit' = [exit EXCEPT ![p] = how]

\* The process is killed: whatever it was writing stays as it is.
Killed(p) ==
    /\ pc[p] # "ended"
    /\ End(p, "killed")
    /\ UNCHANGED <<files, testRuns, next, nextSig, cov, fresh>>

-----------------------------------------------------------------------------
(* Store                                                                    *)

\* Load accepts a complete file of the right version.
Loads(f) ==
    /\ files[f] \notin {Absent, Torn}
    /\ ValidVersion(files[f])

\* Save: the file is truncated when it is opened ...
OpenFile(p) ==
    /\ pc[p] = "save"
    /\ \/ /\ files' = [files EXCEPT ![p] = Torn]
          /\ Goto(p, "writing")
          /\ UNCHANGED exit
       \/ End(p, "error") /\ UNCHANGED files
    /\ UNCHANGED <<testRuns, next, nextSig, cov, fresh>>

\* ... and holds the data once the write is done.
WriteFile(p) ==
    /\ pc[p] = "writing"
    /\ \/ /\ files' = [files EXCEPT ![p] = Clone(cov[p])]
          /\ IF p = Merger THEN End(p, "zero") ELSE Goto(p, "summarize") /\ UNCHANGED exit
       \/ End(p, "error") /\ UNCHANGED files
    /\ UNCHANGED <<testRuns, next, nextSig, cov, fresh>>

-----------------------------------------------------------------------------
(* pgcov run                                                                *)

\* No tests are found, and the run is over, successfully; or there are some; or
\* discovery fails.
Discover(s) ==
    /\ pc[s] = "discover"
    /\ \/ End(s, "zero")
       \/ Goto(s, "prepare") /\ UNCHANGED exit
       \/ End(s, "error")
    /\ UNCHANGED <<files, testRuns, next, nextSig, cov, fresh>>

\* Sources are found, parsed and instrumented, the server is reached, the setup
\* scripts are read; the first failure ends the run.
Prepare(s) ==
    /\ pc[s] = "prepare"
    /\ \/ Goto(s, "execute") /\ UNCHANGED exit
       \/ End(s, "error")
    /\ UNCHANGED <<files, testRuns, next, nextSig, cov, fresh>>

\* Every test gets a run: see WorkerPool.
ExecuteTests(s) ==
    /\ pc[s] = "execute"
    /\ \E n \in 1..MaxTests[s] :
          \E r \in [1..n -> [status : Statuses, sigs : SignalSeqs[s]]] :
             testRuns' = [testRuns EXCEPT ![s] = r]
    /\ Goto(s, "seed")
    /\ UNCHANGED <<files, next, nextSig, cov, exit, fresh>>

SeedCoverage(s) ==
    /\ pc[s] = "seed"
    /\ cov' = [cov EXCEPT ![s] = InitializeFromInstrumented(@, Points[s])]
    /\ Goto(s, "collect")
    /\ UNCHANGED <<files, testRuns, next, nextSig, exit, fresh>>

\* A signal is counted. One that cannot be read ends the whole command.
CollectSignal(s) ==
    /\ pc[s] = "collect"
    /\ next[s] <= Len(testRuns[s])
    /\ LET sigs == testRuns[s][next[s]].sigs IN
          /\ nextSig[s] <= Len(sigs)
          /\ IF sigs[nextSig[s]] = BadSignal
             THEN End(s, "error") /\ UNCHANGED <<cov, nextSig>>
             ELSE /\ cov' = [cov EXCEPT ![s] = AddSignal(@, sigs[nextSig[s]])]
                  /\ nextSig' = [nextSig EXCEPT ![s] = @ + 1]
                  /\ UNCHANGED <<pc, exit>>
    /\ UNCHANGED <<files, testRuns, next, fresh>>

CollectNextRun(s) ==
    /\ pc[s] = "collect"
    /\ next[s] <= Len(testRuns[s])
    /\ nextSig[s] > Len(testRuns[s][next[s]].sigs)
    /\ next' = [next EXCEPT ![s] = @ + 1]
    /\ nextSig' = [nextSig EXCEPT ![s] = 1]
    /\ UNCHANGED <<files, pc, testRuns, cov, exit, fresh>>

AllCollected(s) ==
    /\ pc[s] = "collect"
    /\ next[s] > Len(testRuns[s])
    /\ Goto(s, "save")
    /\ UNCHANGED <<files, testRuns, next, nextSig, cov, exit, fresh>>

AllPassed(s) == \A i \in DOMAIN testRuns[s] : testRuns[s][i].status = "passed"

ThresholdMet(c) == HasExecutablePositions(c) /\ ~BelowThreshold(c, FailUnder)

Summarize(s) ==
    /\ pc[s] = "summarize"
    /\ End(s, IF AllPassed(s) /\ (FailUnder > 0 => ThresholdMet(cov[s])) THEN "zero" ELSE "one")
    /\ UNCHANGED <<files, testRuns, next, nextSig, cov, fresh>>

-----------------------------------------------------------------------------
(* pgcov merge                                                              *)

\* The shard's coverage file holds what its run of this time has saved.
Saved(s) ==
    \/ pc[s] = "summarize"
    \/ exit[s] \in {"zero", "one"} /\ testRuns[s] # <<>>

\* The inputs are loaded in order; one that cannot be loaded ends the merge.
LoadInput ==
    /\ pc[Merger] = "load"
    /\ next[Merger] <= Len(ShardSeq)
    /\ LET s == ShardSeq[next[Merger]] IN
          /\ IF Loads(s)
             THEN /\ cov' = [cov EXCEPT ![Merger] = MergeTwo(@, files[s])]
                  /\ next' = [next EXCEPT ![Merger] = @ + 1]
                  /\ UNCHANGED <<pc, exit>>
             ELSE End(Merger, "error") /\ UNCHANGED <<cov, next>>
          /\ fresh' = (fresh /\ Saved(s))
    /\ UNCHANGED <<files, testRuns, nextSig>>

AllLoaded ==
    /\ pc[Merger] = "load"
    /\ next[Merger] > Len(ShardSeq)
    /\ Goto(Merger, "save")
    /\ UNCHANGED <<files, testRuns, next, nextSig, cov, exit, fresh>>

Run(s) ==
    \/ Discover(s) \/ Prepare(s) \/ ExecuteTests(s) \/ SeedCoverage(s)
    \/ CollectSignal(s) \/ CollectNextRun(s) \/ AllCollected(s)
    \/ OpenFile(s) \/ WriteFile(s) \/ Summarize(s) \/ Killed(s)

MergeFiles == LoadInput \/ AllLoaded \/ OpenFile(Merger) \/ WriteFile(Merger) \/ Killed(Merger)

Finished ==
    /\ \A p \in Processes : pc[p] = "ended"
    /\ UNCHANGED vars

Next == ((\E s \in Shards : Run(s)) \/ MergeFiles \/ Finished) /\ UNCHANGED earlier

Spec == Init /\ [][Next]_vars

-----------------------------------------------------------------------------
(* Properties                                                               *)

\* The signals of these shards' tests that are of position x, by shard, test and number.
Signals(shards, x) ==
    UNION {UNION {{<<s, i, j>> : j \in {k \in DOMAIN testRuns[s][i].sigs : testRuns[s][i].sigs[k] = x}} :
                  i \in DOMAIN testRuns[s]} : s \in shards}

\* How often the tests of these shards signalled position x.
Occurrences(shards, x) == Cardinality(Signals(shards, x))

\* c is the coverage of one run of all the tests of these shards over all their sources.
Records(c, shards) ==
    LET points == UNION {Points[s] : s \in shards}
        Exactly(hits, implicit) ==
            hits = [x \in {q.pos : q \in {r \in points : r.implicit = implicit}}
                        |-> Occurrences(shards, x)]
    IN Exactly(c.positions, FALSE) /\ Exactly(c.implicit, TRUE)

\* A run that ends with a verdict on its tests - good or bad - has saved exactly what
\* they signalled: every instrumented position, with the number of its signals. One that
\* finds no test, which is no error either, leaves the file of an earlier run for a merge
\* or a report to read. At no time is a part of a run's coverage taken for all of it.
RunRecordsEveryHit ==
    \A s \in Shards :
        /\ exit[s] \in {"zero", "one"} =>
               IF testRuns[s] = <<>> THEN files[s] = earlier ELSE Records(files[s], {s})
        /\ files[s] \in {earlier, Torn} \/ Records(files[s], {s})

\* Merging the files of finished shards gives the coverage a single run of the whole
\* suite would have given, whatever the shards share.
MergedIsWhole ==
    exit[Merger] = "zero" /\ fresh => Records(files[Merger], Shards)

\* Exit code 0 after running tests: all of them passed, and the coverage on disk
\* meets the threshold, counting executable positions only.
ExitZeroIsEarned ==
    \A s \in Shards : exit[s] = "zero" /\ testRuns[s] # <<>> =>
        /\ \A i \in DOMAIN testRuns[s] : testRuns[s][i].status = "passed"
        /\ LET exec == {q.pos : q \in {r \in Points[s] : ~r.implicit}}
               hit  == {x \in exec : Occurrences({s}, x) > 0}
           IN FailUnder > 0 => exec # {} /\ 100 * Cardinality(hit) >= FailUnder * Cardinality(exec)

\* No position is both executable and implicit, in memory or on disk, unless a merge has
\* read a file of an earlier time, when the same position may have been the other.
PositionsPartitioned ==
    \A p \in IF fresh THEN Processes ELSE Shards :
        /\ DOMAIN cov[p].positions \cap DOMAIN cov[p].implicit = {}
        /\ files[p] \in {earlier, Torn} \/ DOMAIN files[p].positions \cap DOMAIN files[p].implicit = {}

=============================================================================
