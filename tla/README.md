# pgcov in TLA+

`pgcov` runs SQL tests against temporary PostgreSQL databases and measures which
statements of the sources they cover. It rewrites every function body so that each
statement sends a NOTIFY, listens for those notifications while a test runs, and counts
them. This directory holds TLA+ modules of that program, TLC configurations that check
them on small instances, and TLAPS proofs of what matters most for every instance.

## 1. The system

A run goes through these parts, in this order:

```
 run command ── discovery ── parser ── instrumenter        what to load, what to count
      │
      ├── worker pool ──< executor, one per test at a time
      │                     ├── temporary database, pool   (one database per test)
      │                     └── listener ~~ NOTIFY ~~ the server
      │
      └── collector ── coverage model ── store ── threshold, exit code
                                           │
 merge command ── several coverage files ──┘
                                           └──── report command ── reporters
```

| part (source) | state | operations | interacts with | what is hard |
|---|---|---|---|---|
| **Listener** (`internal/database/listener.go`) | `signals` (buffer of 1000), `errors` (10), `droppedSignals`, a connection, a context | `NewListener`, `receiveLoop`, the callback `handleNotification`, `CollectSignals`, `Close` | the server by notifications; the executor by calls; its two goroutines by channels and by sharing one connection | the callback runs on whoever reads the connection; an idle window races late notifications; a full buffer; close against receive; broken connection |
| **Executor** (`internal/runner/executor.go`) | a `TestRun`, a stack of deferred calls, two contexts | `Execute`, `executeTestWorkflow`, `ExecuteBatch`, `filterSourcesByDirectory` | pool, temporary database, listener, worker pool | failure, deadline or cancellation at every step; order of the deferred calls; classification after the clean-up |
| **Temporary databases, pool** (`tempdb.go`, `pool.go`) | the server's databases; connections in use | `CreateTempDatabase`, `DestroyTempDatabase`, `NewPool` | executor; the server, shared with every other test and process | names that collide; an answer that is lost; an ignored error of DROP; a pool that waits for its connections |
| **Worker pool** (`internal/runner/parallel.go`) | jobs and results channels, a wait group, the array of runs | `ExecuteParallel`, `worker` | executor; the caller's context | who closes what when; channels at capacity; cancellation half way |
| **Run command** (`internal/cli/run.go`) | the coverage being collected, the coverage file | `Run`, `explicitSources`, `loadSetupScripts` | all of the above | partial failure; exit code against what was saved |
| **Merge command** (`internal/cli/merge.go`) | the merged coverage | `Merge` | coverage files other processes write | stale and torn inputs; sources that shards share |
| **Coverage model, collector** (`internal/coverage/model.go`, `collector.go`) | executable and implicit positions with hit counts | seeding, `AddSignal`, `CollectFromRun`, `Merge`, percentages | run and merge | a signal counted in the wrong map; double counting; zero positions |
| **Store** (`internal/coverage/store.go`) | one JSON file | `Save`, `Load` | run, merge, report | truncate-then-write; version check |
| **Discovery** (`internal/discovery/`) | none beyond a call | the walk, `DiscoverTests`, `DiscoverCoLocatedSources` | run; its result is filtered again by the executor | map order; nested test directories; keys |
| **Parser** (`internal/parser/`) | none | splitting a file into statements with a third-party lexer; type, language, body and offset of each | instrumenter | which string constant is the body; offsets over dropped statements and delimiters |
| **Instrumenter** (`internal/instrument/`) | offsets into the body while it scans | `GenerateCoverageInstrument`, `instrumentBody`, `ParseSignalID` | parser before, executor and collector after; PostgreSQL runs what it writes | text copied by offsets; where a signal is reachable; what it disturbs; what a rollback takes with it |
| **Report command** (`report.go`), **reporters** (`internal/report/`) | the output being written | `Report`; JSON, LCOV, HTML from a coverage file | store; the sources on disk, wherever they are now | overlapping ranges, positions folded into lines, a source of the same name that is another file |
| **Command line, configuration** (`cmd/pgcov/main.go`, `internal/cli/config.go`), **init** (`init.go`) | none | flags; scaffolding | | precedence of flags and environment |

What makes each part correct, in a sentence each:

* *Listener*: an ordered stream; every signal accounted for; complete unless cut short;
  nobody waits for ever.
* *Executor, databases*: a test uses only its own database; it cleans up after itself;
  its verdict is the one it deserves; a passed test had its whole environment.
* *Worker pool*: one lasting verdict per test; no send on a closed channel; it returns.
* *Run, merge, collector, store*: what is on disk is what was signalled; merging shards
  equals one run of the whole suite; exit code 0 is earned.
* *Discovery*: a test is loaded with its directory's sources in their order; a key is one
  file.
* *Parser, instrumenter*: the text is preserved; the points are what stands between two
  semicolons, at its place in the file; the function still loads and does what the original
  does; a point is reported if it ran and was kept, and only then. Where the code falls
  short of this - statements without a point, files that no longer load, an EXIT that is
  never reported - a property says exactly how far.
* *Reporters*: every byte and every hit is shown once, on the source it belongs to.

`PROJECT.json` lists every component with its status, and every hazard at its line.

## 2. Modules

| module | models | composes / used by |
|---|---|---|
| `SignalStream` | what a listener promises: an ordered stream with losses | implemented by `Listener` |
| `Listener` | both goroutines, both channels, the connection, the wire, the clock | |
| `Executor` | any number of tests at once on one server, with their databases, deadlines and deferred calls | `MCExecutor` |
| `TestSuite` | what running a suite promises | implemented by `WorkerPool` |
| `WorkerPool` | `ExecuteParallel`, its workers, the waiter, and `ExecuteBatch` | |
| `Coverage` | the coverage data and the collector as operators on values (no state) | extended by `RunCommand` |
| `RunCommand` | several `pgcov run` processes and a `pgcov merge`, with their files | `MCRunCommand` |
| `Discovery` | what is found, and what a test is loaded with | `MCDiscovery` |
| `Parser` | how a file is split into statements, as operators (no state) | extended by `SourceFile` |
| `Instrumenter` | one statement, token by token | extended by `SourceFile` |
| `Execution` | what PostgreSQL does with a function body: accepts it, runs it in a transaction, delivers its signals | instantiated twice by `SourceFile` |
| `SourceFile` | a file from its text to a call of the function it defines | `MCSourceFile` |
| `Reports` | `pgcov report` and the three formatters | extends `Coverage`; `MCReports` |
| `ListenerProofs` | theorems about `Listener`, and that it implements `SignalStream` | |
| `ExecutorProofs` | theorems about `Executor` | |
| `WorkerPoolProofs` | theorems about `WorkerPool`, and that it implements `TestSuite` | |
| `InstrumenterProofs` | that the scan of `Instrumenter` finds the segments between semicolons, and writes each signal in its place | extended by `SourceFileProofs` |
| `ReportsProofs` | theorems about `Reports`: the right source, every byte once, every hit | |
| `RunCommandProofs` | theorems about `RunCommand`: what is saved and merged, exit code 0 | |
| `DiscoveryProofs` | theorems about `Discovery`: keys, co-located and listed files | |
| `SourceFileProofs` | theorems about `SourceFile`: the instrumented file, its calls, and that they are calls of the original | |

The modules cut the program where its parts call each other, and each leaves of its
neighbour what the properties need. `Executor` leaves of the listener that starting it may
fail, that collecting ends, and that closing it is a deferred call. `WorkerPool` leaves of
a test that it starts and ends with an outcome. `RunCommand` leaves of a test run that it
has a status and a list of signals. `Discovery`'s `LoadedWith` is the filter that
`Executor`'s `SourcesFor` applies to the list of sources. `SourceFile` composes the most:
parser, instrumenter and execution work on one file in sequence, and the properties relate
the last to the first.

### State and actions against the code

**Listener.** A signal is its number in commit order. `wire` is what the server has sent
and nobody has read. `signals`, `signalsClosed`, `errors`, `errorsClosed`, `dropped` and
`cancelled` are the fields of `Listener`. `loop` is where `receiveLoop` is, `caller` where
the goroutine is that runs the test, collects and closes. `Wait*` are the ways
`WaitForNotification` returns, `CloseErrors` and `CloseSignals` the two deferred closes in
their order (last in, first out). `ReceiveSignal`, `SignalsEnd`, `ReceiveError` and
`StopWaiting` are the cases of the select in `CollectSignals`, and `Drain` is the loop after
it. `CloseChoosesPath` and the actions after it are `Close`: its UNLISTEN is refused by pgx
while `receiveLoop` is inside a read, and otherwise reads the connection itself, which runs
the same callback (`UnlistenReads`). pgx and PostgreSQL are external and modelled from this
use: in-order delivery at commit, a connection that can be broken at any time, one reader
at a time, and a context error that leaves it open.

**Executor.** `pc` follows `executeTestWorkflow` from the CREATE to the verdict. `defers` is
the stack of deferred calls, run in reverse by `RunDeferred`. `held` counts the connections
acquired from the test's pool. `owner` is the server: which test created the database of a
name. `name` is chosen arbitrarily, so two tests may collide, as two processes that start
in the same second can. Every step that uses the test's context may fail, and does fail
once that context is done; `cause` records which it was. Reading the test file does not
look at the context. `fault` is a history variable: the server committed something its
client was not told, or a DROP failed.

**WorkerPool.** One action per channel operation. Jobs are sent in order, so `sent` and
`taken` represent the jobs channel; `results` is the contents of the other. `wg` is the wait
group. `Begin` chooses between returning, `ExecuteBatch` and workers as the code does.

**RunCommand, Coverage.** Each shard is a process that goes through the steps of `Run`;
`Discover` and `Prepare` stand for everything before the tests, by whether it succeeds.
`OpenFile` and `WriteFile` are the two halves of `os.WriteFile`, with `Torn` in between, and
`Killed` may strike between any two steps. `End` sets the exit code. The collector holds its
mutex for a whole method, but nothing else looks at the coverage meanwhile: it is
collected signal by signal (`CollectSignal`, with `next` and `nextSig` the two loops' positions),
so that a payload that does not parse ends the command in the middle. `fresh`
and `Saved` are history: did each input the merge read come from this time's run of its
shard? `earlier` is what was in the files before. `PointsAssumption` is what the
instrumenter guarantees: a position of a source is executable or implicit, the same in every
shard that has the source, and a signal is of a point. A file left from an edited source knows
nothing of it (`OldPositions`), so a merge that reads one can produce a position that is both;
`PositionsPartitioned` speaks of merges that do not.

**Discovery.** A path is a sequence of names, and a file is its path. `Walked` is what
`discoverRelativeTo` sees, `Sorted` the order it sees it in, `ScanTestDir` one round of the loop
over the map of test directories (so in any order), `ExpandPattern` one round of the loop of
`expandPatterns`, for sources (`MatchSources`) and for setup scripts (`MatchSetup`); `matched` is
its `files` and `seen`. No name is the beginning of another, so that the order of a walk and
the order of whole path strings agree, as the code takes for granted. The tree does not
change while a run looks at it.

**Parser, Instrumenter, SourceFile.** A file is what the lexer makes of it: statements of
tokens, where a string constant quotes tokens of its own. Text is measured in atoms - a
word, or one character of a delimiter - so `$$`, `'` and `E'` have different lengths, which
the offsets must account for; white space and indentation are
left out. `SplitAndClassify` and the operators it uses are the functions of `parse.go`. The
actions of `Instrumenter` are the branches of the token loop of `instrumentBody`,
`EmitSegment` is its closure `emitSegment`, and `lastWritten` is `lastWrittenPos`. A
statement that is not instrumented becomes one implicit point (`MarkStatement`).
`FinishStatement` is the loop of `GenerateCoverageInstrument`: it adds the statement's text
to the file's and turns offsets into the body into offsets into the file (`Absolute`). Whether
PostgreSQL takes the new statement is `StatementLoads`, and `loads` whether it takes the file: a test
calls a function only if every statement of the source has loaded, as `executor.go:269-281` has it.

**Execution.** External: PL/pgSQL and PostgreSQL as the comments in `instrumenter.go` and the
use in `executor.go` take them. `Accepted` is the grammar that CREATE FUNCTION checks. A call
goes from token to token; FOUND is set by statements, left alone by EXECUTE, and decides
branches and loops. An error goes to the innermost handler and takes back what the block
did, its signals included; COMMIT in a procedure keeps what came before. Signals are
delivered when the transaction commits, identical ones once. One token stands for what opens
a construct: `IF` for `IF FOUND THEN`, `EXIT` for `EXIT WHEN FOUND`, and so on.
`SourceFile` instantiates it as `Run`, on the text the instrumenter wrote, and as `Original`,
on the user's body with the signals left out of position and state: a call of the former
must be one of the latter.

**Reports.** A position is a record of its file, start and length, negative where
`ParsePositionKey` rejects the key; a file's name is a number, for the order of names. `Load`,
`CreateOutput` and `WriteFails` are the command: an error in reading the coverage file comes
before the output is truncated, one in writing it after. `left` are the files still to come,
`todo` the positions of the file at hand that a loop has not reached. `ConvertPosition` is one
round of `convertPositionsToLines`, which ranges over a map in any order; `ResolveRange` is one of
`resolveOverlappingRanges`, which takes them sorted by start alone, so that `NextInOrder` lets
any of those that start together be next. `WriteLine` is one DA line; `WriteUncovered`, `WriteRange`
and `WriteRest` are the branches of the rendering loop.

## 3. Runs

| run | states | shows |
|---|---|---|
| `listener` | 32 thousand | The listener is an ordered stream (`ImplementsStream`), accounts for every signal (`EverySignalAccountedFor`), is complete if notifications keep arriving within the idle window and nothing cuts the collection short (`CompleteWhenPrompt`), never returns with something buffered (`ReturnsDrained`), and both collecting and closing end (`CollectReturns`, `CloseReturns`). |
| `listener_close` | violation | **Finding.** `Close` can panic (`CloseNeverPanics`). |
| `executor` | 280 thousand | Isolation although names collide (`OwnsItsDatabase`), a pool that is idle when it is closed (`PoolIdleWhenClosed`), clean-up unless the server misbehaves (`CleansUpUnlessFault`), the verdict (`VerdictSound`), the full environment of a passed test (`PassedRanEverything`), and that each test concludes (`EveryTestConcludes`). |
| `executor_timeout` | violation | **Finding.** An ordinary failure is reported as a timeout, since the deadline passes before the clean-up is over (`TimeoutMeansDeadline`). |
| `worker_pool` | 509 thousand | The pool implements `TestSuite`; no send on a closed channel (`ClosedAfterLastSend`); no send on either channel that waits (`SendNeverBlocks`); no test twice (`ExecutedOnce`); none omitted in parallel (`ParallelOmitsNothing`); it returns (`AlwaysReturns`). |
| `run_command` | 3.7 million | What a finished run saved is what its tests signalled (`RunRecordsEveryHit`); a run without tests leaves the earlier file, and no file is ever partly one run's (same property); a merge of this time's files is a run of the whole suite (`MergedIsWhole`); exit code 0 is earned (`ExitZeroIsEarned`); no position is both executable and implicit (`PositionsPartitioned`). |
| `discovery` | 76 thousand | Keys name one file each (`KeysIdentifyFiles`); a test is loaded with its directory, in order, whatever the order of the scan (`LoadsItsDirectoryInOrder`); patterns keep their order (`PatternsKeepTheirOrder`). |
| `instrumenter` | 131 thousand | The statements without a point are those and only those behind a LOOP, BEGIN, DECLARE or EXCEPTION that begins a segment (`OnlyMarkersHideStatements`); the points lie where their offsets say (`PointsLocateTheirText`) and are named by one signal each, in order (`SignalsNamePoints`); the body that is rewritten is the body PostgreSQL takes (`BodyIsFound`) and no text of the file is lost or moved (`FileTextPreserved`). What PostgreSQL accepted it accepts still, with two exceptions (`LoadsUnlessNestedOrQuoted`), and calls of the instrumented function are calls of the original (`ImplementsOriginal`). A delivered point ran in a transaction that committed (`NoFalsePositives`), and one that ran and was not rolled back is delivered, but for EXIT (`KeptIsCoveredUnlessExit`). |
| `every_statement` | violation | **Finding.** The statement behind LOOP has no point (`EveryStatementHasPoint`). |
| `transparent` | violation | **Finding.** A row count or a declaration section is disturbed (`Transparent`). |
| `false_negatives` | violation | **Finding.** An executed point is rolled back and not reported (`NoFalseNegatives`). |
| `reports` | 1.3 million | HTML has a section for each file and colours every byte once, with the count of the range that starts first (`HTMLColoursEveryByteOnce`); LCOV's records list each line once, with all the hits on it (`LCOVAccountsForEveryHit`); positions are shown on the source of the run while it is there (`ShowsTheRunsSource`). |

### Bounds, and why they are enough

* **Listener**: a buffer of 2, three signals, one receive error. Three signals overflow the
  buffer and refill it while it is drained. A window of 2 ticks against a latency of 1 is
  the smallest at which the window restarts in time; the theorem `WindowSuffices` covers
  every other choice. `MaxSent` and `MaxErrors` are the bounds; the latter bounds only
  errors that do not end the loop. `Prompt = TRUE` restricts the clock, not the faults: the
  deadline and the broken connection remain possible at every step. `listener_close` sets
  it FALSE.
* **Executor**: two tests and two names, so they collide or not; three sources of which one
  test has two and the other has one; one setup script; cancellation allowed. Tests
  meet only in names and in the caller's context, and a third adds no new pair.
* **WorkerPool**: suites of 0 to 3 tests and 1 to 3 workers (and 0 asked for), so that there
  are fewer, as many and more workers than tests. Both channels have the capacity the code
  gives them (`JobsCapacity`, `ResultsCapacity`), and both sends wait when it is used up.
* **RunCommand**: two shards that share an executable point and an implicit one, and have
  one point each of their own; one shard with up to two tests and one with one; signals
  that hit a point twice or not at all, and one payload that does not parse; old files that
  are absent, of another version, or of an earlier run (with a position that still
  exists and one that does not).
* **Discovery**: eight optional files in the root, in a directory and in one below it, names
  that sort before and after the directory, an unreadable directory, a file outside the
  root, and patterns that overlap or match a test.
* **SourceFile**: every body of up to four tokens over seven kinds of token, and every such
  body after a BEGIN, in PL/pgSQL and SQL: long enough for a statement, a comment and a
  RAISE with its level between two semicolons. About a thousand accepted PL/pgSQL bodies with
  one construct (IF, ELSE, LOOP, WHILE, a block with a handler, a nested DECLARE) around
  one or two statements, or two constructs in one another, and statements before and after;
  among them branches and blocks that are empty, and a DECLARE that follows an IF, a LOOP or a
  WHILE at once.
  Every file of one to three of eleven statements, one for each path through the parser. The
  violation runs use bodies of one token beside the same programs (`MaxTokens`), and
  `every_statement` asks of PL/pgSQL bodies only. Loops
  need no bound: what a call remembers is sets of tokens.
* **Reports**: up to four of seven positions in one file - touching, nested, overlapping,
  with the same start, empty, beyond the text, malformed - hit or not, with implicit ones
  among them; texts of one or five bytes, or none at all, in each of three directories. Five bytes
  hold a range on each side of every boundary.

No symmetry is used. Deadlock is checked in every run; each module has a `Finished` action
that only stutters where the program has ended.

### Fairness

* *Listener*: weak fairness of each goroutine (`LoopStep`, `CollectStep`, `CloseStep`) and of
  the clock. Go schedules every runnable goroutine, and a network read returns when a
  message arrives, the context is done or the connection breaks. The test, the server and
  the network have no obligation. In particular `UnlistenReads` is outside the fairness,
  and `UnlistenEnds` inside: the answer to UNLISTEN comes, or its read fails.
* *Executor*: weak fairness of each test's `Step`. Each call is bounded by the test's
  deadline, or by the five seconds of the DROP. Closing the pool is bounded by nothing,
  and it needs no fairness of its own: that it is enabled is `PoolIdleWhenClosed`.
* *WorkerPool*: weak fairness of each goroutine; a test ends because of its deadline.
* The other modules state no liveness, and have no fairness: a run, a merge, a report and a
  parse are single passes, and a call of a user's function need not end.

`cmd/pgcov/main.go` passes `context.Background()`, so a cancelled caller arises only for
other callers of `Execute` and `ExecuteParallel`, such as the integration tests. The
modules allow it because the code handles it.

## 4. Findings

1. `Close` can deliver a notification to a closed channel (`listener.go:127`, run
   `listener_close`). It cancels `receiveLoop` and then reads the connection for UNLISTEN, which
   invokes the callback; if `receiveLoop` has closed `signals` by then, the send panics.
2. Instrumenting changes what a function means (`instrumenter.go:412`, run `transparent`),
   against `.github/AGENT_INSTRUCTIONS.md:45`: the EXECUTE that sends a signal leaves FOUND
   alone but sets ROW_COUNT, so GET DIAGNOSTICS after an instrumented statement reads the
   signal's; and from the second declaration of a nested DECLARE on - from the first, where the
   DECLARE follows a THEN, an ELSE or a LOOP at once - signals are put into the declaration
   section, and the file does not load.
3. A failure can be reported as a timeout (`executor.go:110`, run `executor_timeout`): the
   deadline is looked at after the deferred clean-up. In the run's trace a source does not
   load, the deferred calls close the listener and the pool and drop the database, and the
   deadline passes during or right after them, before `Execute` reads it. (The property asks
   it of tests that were loading sources; one that fails earlier has less to clean up.)
4. An executed statement need not be covered (`instrumenter.go:217`, run `false_negatives`),
   against "No false negatives (executed position must be marked covered)"
   (`docs/cli-contract.md:366`): the signal before a fatal RAISE, and every signal of a block
   whose handler catches an error, is rolled back.
5. The first statement in a loop, a nested block or a handler has no point
   (`instrumenter.go:309`, run `every_statement`), against `testdata/plpgsql/README.md:67-72`:
   it is in one segment with the LOOP, BEGIN, DECLARE or EXCEPTION before it. What a
   statement is, `IsStatement` takes from the grammar, not from the scan, and `OnlyMarkersHideStatements`
   says which ones have no point. (`PointsAreSegments`, which is proved, is about the scan alone.)

Shortcomings that no run is spent on, because a passing property already says how far they go:

* An EXIT that leaves its loop runs, is kept and is not reported (`instrumenter.go:324`): its signal
  stands behind it, as `findTerminalPos` knows only RETURN and RAISE. `KeptIsCoveredUnlessExit`
  says that this is the only kept statement so missed. It too is against `docs/cli-contract.md:366`.
* A function whose body stands in '...' or E'...' no longer loads once it has a signal
  (`instrumenter.go:416`, and `:202` for SQL), although `parse.go:216` handles such bodies: the quotes
  of the signal are not doubled for the constant around it. `LoadsUnlessNestedOrQuoted` says
  that such bodies and nested declarations are the only ones that no longer load.
* A committed signal can be lost without a count: a deadline or a broken connection ends the
  collection with signals on the wire, and without an error (`executor.go:337`). `CompleteWhenPrompt` and
  `EverySignalAccountedFor` say that this needs one of the two, and that what is lost was on the wire.
* A CREATE DATABASE whose answer is lost, to a deadline for instance, or a DROP that fails, leaves a
  database (`tempdb.go:25`, `executor.go:215`), against `docs/cli-contract.md:356`; by
  `CleansUpUnlessFault` nothing else does.
* Sources below a test directory without a test of their own are instrumented and counted
  although no test loads them (`discover.go:155`), against `docs/quickstart.md:187`, which wants sources
  and tests in the same directory.

Smaller observations, which the models take as the code has them: the END of a branch or
block that is empty, as in ELSE END, is a point without a statement of its own; in `DO LANGUAGE 'plpgsql' $$...$$` the name of the language is taken
for the body (`parse.go:203`), so the block has no points; identical signals of one
transaction arrive once, so a count of hits is one of transactions; two HTML ranges that
start together are rendered in random order; LCOV leaves out positions beyond the end of an
edited source; `README.md:301` describes an older form of the signals of SQL functions.

## 5. Proofs

The theorems hold for every value of the constants that satisfies the module's named
assumption, and nothing else is assumed.

**`ListenerProofs`** from `ListenerAssumption`. The invariant is
`LInv == TypeOK /\ LoopOK /\ WindowOK /\ EverySignalAccountedFor`.

* `LoopOK` says why `receiveLoop` may have left its loop and that the channels are closed only
  then; without it a collection could find the channel closed for no reason.
* `WindowOK` relates the clock of the idle window to the age of the oldest unread
  notification; it is what makes the window long enough, and `CompleteWhenPrompt` is not
  inductive without it.
* Theorems: `TypeCorrect`, `NothingUncounted` (`EverySignalAccountedFor`) and `WindowSuffices`
  (`CompleteWhenPrompt`): with a latency below the window, for every buffer size and every
  number of signals.
* And from type correctness alone: `Refines` (`ImplementsStream`) - `pending` of the abstract
  stream is `signals \o wire`, so that receiving a notification is a stutter unless the buffer
  is full, and closing is one always; a broken connection loses what is on the wire - and
  `NoSignalLeft` (`ReturnsDrained`).

**`ExecutorProofs`** from `ExecutorAssumption`. The invariant is
`IInv == TypeOK /\ FrameOK /\ Owns /\ OwnerOK`.

* `FrameOK` gives, for each point of the workflow, the possible stacks of deferred calls and
  the number of connections held. The stack is a fixed prefix of one sequence, which is
  why the proof needs no induction over it.
* `Owns` is isolation in terms of the step a test is at; `OwnerOK` its converse: a database
  exists only if its creator still relies on it or a fault is recorded.
* A second invariant, `Story`, follows cause, scripts and loaded sources, for `Verdicts` and
  `FullEnvironment`.
* Theorems: `TypeCorrect`, `Isolation`, `PoolIdle`, `CleanUp`, `Verdicts`, `FullEnvironment`, one for
  each safety property of the run, for any number of tests, names and sources.

**`WorkerPoolProofs`** from `WorkerPoolAssumption`. The invariant is
`PInv == TypeOK /\ MainOK /\ WorkersOK /\ WaitGroupOK /\ ResultsOK`.

* `WaitGroupOK`: the counter is the number of live workers - the reason why a closed results
  channel has no sender left.
* `ResultsOK`: the results in the channel and the workers that owe one are at most the jobs
  taken - the reason why a send never waits.
* Theorems: `TypeCorrect`, `NoSendAfterClose`, `NoSendBlocks`: neither the jobs nor the results fill
  their channel.

What the suite is promised needs more, the invariant
`SInv == PInv /\ PathOK /\ JobsOK /\ NoneForgotten /\ ExecutionsOK /\ BatchOK`.

* `JobsOK`: a job is with one worker, or has one result in the channel, or its verdict is
  recorded - no two of them, which is why no verdict is overwritten.
* `NoneForgotten`: and it is at least one of them; with the closed, empty channels this
  gives every test a verdict when the collector's loop ends.
* `ExecutionsOK` relates the executions to the stage of each job, `BatchOK` does the same for
  the sequential path, `PathOK` keeps the two paths apart.
* Theorems: `ExecutedExactlyOnce`, `NothingOmitted`, `Refines` (`ImplementsTestSuite`).

**`InstrumenterProofs`**: `SegmentsFound` (`PointsAreSegments`), for every body in `Seq(STRING)`.
It is about `StatementSpec`, which begins with any PL/pgSQL or SQL body and takes the
actions of `Instrumenter`: what `SourceFile` does between two `FinishStatement`s. The invariant is
`IInv == BodyOK /\ ScanOK /\ LocationsOK`: where the scanner is in terms of the separators it
has passed, and that the points so far are exactly the segments that have ended. Two
lemmas carry it: the text at hand is a segment, and no other segment ends with the
next token (`SegmentAtHand`, `OnlySegmentAtHand`). That a segment is a statement is not claimed.

Its second invariant, `WInv`, is about what is written (`TextsOK`, `SignalsOK`, `Behind`): the tokens of the
body up to `lastWritten`, each once and in order, with the signals of the points among them, each
at its place (`Placed`): before a statement that does not come back, before the statement of an SQL
function, and otherwise right behind the semicolon. `StatementInvariance` is what `SourceFile` needs of both. The module
ends with facts about sequences, among them where each of many begins when they are joined (`StartsIn`),
and with two about the first token of a segment: it begins one (`HeadOpens`), and no other token
begins the same one (`HeadAlone`).

**`SourceFileProofs`** from `FilesAssumption`: no token is called like a signal, no statement of a file
is empty, and a string constant is not also a word. It puts `InstrumenterProofs` to use for the
statement at hand of any file, and goes on to the call and to the file as a whole. Functions
that are defined by recursion over a sequence - the scan of the grammar, `Pick`, `FlattenSeq` - are
unfolded one step at a time, and what holds all along them is proved by looking at the least place
where it would not (`LeastNumber`).

* `SInv == FileOK /\ StatementOK /\ CallOK` is about a call. The grammar first: in a body that is
  accepted, each construct closes, no statement is followed by another before a semicolon, an EXIT
  is inside a loop (`AcceptCases`, `StackMoves`, `Nested`). Then `Matched`: a point's signal is either
  right before its statement, or after it with nothing but comments, NOTICE and semicolons between.
  So whatever control does - a branch, a loop, a handler (`Moves`, `OneStep`) - it does to both alike, and
  `RanIfSent` and `SentIfRan` hold from step to step: a signal that was sent and kept has its statement
  kept, and the other way round once control is past it. Blocks need the same of what they saved
  (`SentBefore`), for a handler restores it.
* Theorems of it: `NothingReportedInVain` (`NoFalsePositives`), `OnlyExitsAreMissed`
  (`KeptIsCoveredUnlessExit`).
* `MissedStatements` (`OnlyMarkersHideStatements`) puts the grammar beside the scan. In a body that is
  accepted, each statement is behind the first BEGIN, and its segment begins with a token that
  `HeadFound` finds and `HeadIs` identifies; that token is no END, for the grammar wants a
  semicolon behind an END (`SemicolonBehindEnd`) and the statement has none before it. So the
  segment is a point unless its head is one of the other four markers, and if it is one of
  these, no other segment has the statement (`HeadAlone`).
* `InstrumentingChangesNothing` (`ImplementsOriginal`) is the refinement. `RInv` adds to `SInv` that control is
  at a level of the code that both bodies share (`Levelled`) and that the saved states are records
  (`SavedOK`). The heart of it is that piece p of the instrumented text and token `TextPieces(p)` of the
  original have the same depth, ends and branches around them, since a signal opens and closes
  nothing; each step of a call is then a step of the original, or a signal and a stutter.
* `OInv == SInv /\ MarkedOK /\ TextWritten /\ PointsRise` is about the output: the text written so far is that of the
  statements so far, the points rise within the stretch of the file they belong to, and the
  signals of the text are those of the points. Where in the file an offset into a body is (`BodyInPlace`,
  `StartIn`) is the sum of three lengths, and this is where the delimiters and the dropped statements come in.
* Theorems of it: `NoTextLost` (`FileTextPreserved`), `OneSignalEach` (`SignalsNamePoints`), `PointsAreInPlace`
  (`PointsLocateTheirText`), `BodiesAreFound` (`BodyIsFound`).
* `AcceptedStaysAccepted` (`LoadsUnlessNestedOrQuoted`) follows from `SInv` once the grammar's scans of
  the two bodies are compared. In the original, a point begins where the grammar is in a statement
  or in a declaration; no statement inside the body closes the body's own block before its
  semicolon (`Begins0`, `StatementGoesOn`), so behind the semicolon there is a statement again, or, exactly
  if a DECLARE has had no BEGIN since (`DeclaringSince`), a declaration (`PointEnds`). A signal is accepted in
  the first case only, and leaves the grammar where it was, so both scans agree from there on
  (`PlpgsqlScans`). In an SQL function a signal has a semicolon or nothing before it and a word behind
  it, which is all the grammar asks (`SqlStays`). What is left are the quotes: the text has a signal
  exactly if the body has a segment (`SignalsOfSegments`), so within single quotes the statement
  loads exactly if it has none.

**`ReportsProofs`** from `SituationsAssumption`. The invariant is `RInv /\ HInv /\ LcovInv`.

* `RInv` is about sections: they are of wanted files, in order, before every file that is still
  `Pending`, and have the text that `ReadSource` finds in the directory that was chosen.
* `HInv` is about HTML. `Resolving`: the positions taken so far are those that start first, and none
  of them is over a byte behind `currentEnd`, which is the end of one of them. This is why
  cutting a range at `currentEnd` takes nothing from a position that starts first (`FirstInOrder`),
  and leaves no byte out (`NoGap`). `RangesOK`: the ranges to be written are in order, have the
  right counts, and are over each byte behind `pos` that a taken position is over. `SpansOK`: every
  byte before `pos` has been written once, and rightly.
* `LcovInv` is about LCOV. `LinesOK`: each line's count is `Hits` of the positions on it that have
  been converted, in whatever order - `Hits` is the size of a set, so that one position more is
  one disjoint set more (`HitsOfOneMore`) - and the DA lines so far come before all that are left.
* Theorems: `RightSource` (`ShowsTheRunsSource`), `BytesColouredOnce` (`HTMLColoursEveryByteOnce`),
  `HitsAccountedFor` (`LCOVAccountsForEveryHit`): for any number of files, positions, lines and bytes.

**`RunCommandProofs`** from `RunCommandAssumption` and `PointsAssumption`. The invariant is
`RInv`: `TypesOK`, `ShardOK(s)` for every shard, and `MergeOK`.

* `MemoryOK`, of a shard: from seeding on, its coverage has exactly its points, executable ones
  and implicit ones apart, and each count is the number of the signals collected so far - those
  of the runs before `next`, and of run `next` those before `nextSig`. Counting by
  `Cardinality` of a set of signals, not by a fold, is what makes this a statement of one step:
  the next signal is one element more.
* `DiskOK`: what is on disk is the earlier file, a torn one, or the whole of what was in memory
  - memory no longer changes once it is written. `ExitOK` remembers why a run ended as it did.
* `MergeOK`: while everything loaded is fresh, the merge's coverage is that of the shards loaded
  so far: their points, and the sum of their counts, because signals of different shards
  are disjoint sets. A shard's file no longer changes once it is saved, and this is why the
  order in which runs and merge interleave does not matter.
* Theorems: `EveryHitRecorded` (`RunRecordsEveryHit`), `MergeIsWholeRun` (`MergedIsWhole`), `ZeroIsEarned`
  (`ExitZeroIsEarned`), `PartitionKept` (`PositionsPartitioned`): for any number of shards, tests and
  signals, each of which may fail or be killed at any moment.

**`DiscoveryProofs`** from `DiscoveryAssumption`. The invariant is
`DInv == TypesOK /\ SourcesDistinct /\ PatternsOK /\ ScansOK`.

* First, `Before` is a strict total order on paths, and so `Sorted` lists a finite set, each
  member once, in order (`SortedLists`); and a relative path determines the file, as no file
  is named `..` (`RelInjective`). Both need a least number with a property, which
  `LeastNumber` takes from the well-foundedness of `<`.
* `ScansOK`: the sources so far are those below the test directories scanned so far, and those of
  one directory are in order, since a walk sees all sources of a directory or none
  (`SeenTogether`), so that one scan found them all.
* `PatternsOK`: what the patterns before `nextPattern` list, each file at the first pattern that
  matches it (`ExtendListing`), and that such a list holds no file twice (`ListedDistinct`).
* Theorems: `KeysNameOneFile` (`KeysIdentifyFiles`), `TestsGetTheirDirectory`
  (`LoadsItsDirectoryInOrder`), `ListedFilesInOrder` (`PatternsKeepTheirOrder`).

**Only model-checked**: liveness under fairness and anything about ENABLED, which the prover
cannot do. Every safety property and every refinement of the passing runs is a theorem. The other way
round, `PointsAreSegments` is a theorem that no run checks: TLC agrees with it, and
`OnlyMarkersHideStatements` is the question worth a run.

The proof of `LoadsUnlessNestedOrQuoted` did not go through at first because it was false as it stood:
not only the second declaration of a nested block is taken for a statement, but the first as well
where DECLARE follows THEN, ELSE or LOOP at once. The bodies of the run now have such blocks, and
`NestedDeclarations` says so.

The induction theorems of the library take an operator as a parameter, which no installed prover
can instantiate, and modules with RECURSIVE operators are closed to the SMT backend; this is why the
modules have recursive functions and sizes of sets where the code has loops, and why the models do
step by step what a fold would do at once.

## 6. Not modelled

* `init`, the command line, and shared types and test utilities: text to text, or data read
  once before anything runs, or declarations.
* In the instrumented text: indentation, and how a signal's name is quoted within the signal
  (that its quotes end a body in single quotes is modelled, by `StatementLoads`); a user's own
  doubled quotes in such a body; line numbers, which nothing reads; bodies after BEGIN ATOMIC,
  which have no points.
* In the reports: keys that are absolute paths, which `html.go:339-341` and `lcov.go:219-221` take
  as they are (discovery makes relative ones only, `Discovery!RelativePath`); the LCOV test name, the HTML page's header, style and escaping, and the
  percentages in it; the String and Summary variants, which the program does not call.
* In the others: logging and wording; durations and timestamps; rounding of float64
  percentages; parsing of connection strings; `Delete` and `DiscoverSources`, which the program
  does not call.

## 7. Plan

Done, in the order of importance: `Listener`, `Executor`, `WorkerPool`, `RunCommand` with
`Coverage`, `Discovery`, `Instrumenter`, then `Parser`, `Execution` and `SourceFile`, which compose them,
and `Reports`; the proofs of all safety properties, and of the refinements of an abstract
specification and of the original body.

Left to model: the threshold in floating point.
