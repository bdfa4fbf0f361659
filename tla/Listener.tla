------------------------------ MODULE Listener ------------------------------
(***************************************************************************)
(* The LISTEN side of one test: internal/database/listener.go.             *)
(*                                                                         *)
(* Two goroutines share a Listener. receiveLoop reads notifications off    *)
(* the connection and puts them into the buffered channel `signals`; the   *)
(* goroutine that runs the test (`caller`) lets the test commit            *)
(* notifications, then calls CollectSignals, then Close. Close runs        *)
(* UNLISTEN on the connection receiveLoop may still be using, and whatever *)
(* reads the connection delivers the notifications it meets.               *)
(*                                                                         *)
(* A signal is represented by its position in commit order, which is all   *)
(* the properties tell apart. Time is counted in ticks and only measures   *)
(* the idle window of CollectSignals and how long a notification travels.  *)
(***************************************************************************)
EXTENDS Naturals, Sequences

CONSTANTS
    BufferSize,       \* capacity of l.signals (1000 in the code)
    ErrorBufferSize,  \* capacity of l.errors (10 in the code)
    Window,           \* the idle window of CollectSignals, in ticks
    Latency,          \* longest time until the next notification is handled
    Prompt,           \* is Latency respected, and scheduling faster than a tick?
    MaxSent,          \* bound: signals the test commits
    MaxErrors         \* bound: non-fatal receive errors

ASSUME ListenerAssumption ==
    /\ BufferSize \in Nat \ {0}
    /\ ErrorBufferSize \in Nat
    /\ Window \in Nat
    /\ Latency \in Nat
    /\ Prompt \in BOOLEAN
    /\ MaxSent \in Nat
    /\ MaxErrors \in Nat

VARIABLES
    \* the server and the connection
    sent,         \* how many signals the test has committed
    wire,         \* notifications nobody has read yet, oldest first
    age,          \* ticks since the oldest of them could have been handled
    severed,      \* the server or the network has ended the connection
    conn,         \* "open" or "closed": what conn.IsClosed reports
    faults,       \* how many non-fatal receive errors there have been
    \* the Listener
    signals,      \* contents of l.signals
    signalsClosed,
    errors,       \* how many errors l.errors holds
    errorsClosed,
    cancelled,    \* l.cancel() has been called
    dropped,      \* l.droppedSignals
    loop,         \* where receiveLoop is
    \* the goroutine that runs the test
    ctxDone,      \* the test's context has expired
    caller,       \* where it is
    collected,    \* the result CollectSignals is building
    idle,         \* ticks since its timer was last reset
    errCh         \* its local copy of l.errors: "live" or "nil"

serverVars    == <<sent, wire, age, severed, faults>>
listenerVars  == <<signals, signalsClosed, errors, errorsClosed, cancelled, dropped>>
collectVars   == <<collected, idle, errCh>>
vars == <<serverVars, conn, listenerVars, loop, ctxDone, caller, collectVars>>

LoopStates   == {"top", "waiting", "leaving", "closingSignals", "exited"}
CallerStates == {"test", "failed", "select", "drain", "collected",
                 "cancelled", "unlisten", "terminate", "closed", "panicked"}

TypeOK ==
    /\ sent \in 0..MaxSent
    /\ wire \in Seq(1..sent)
    /\ age \in 0..Latency
    /\ severed \in BOOLEAN
    /\ conn \in {"open", "closed"}
    /\ faults \in 0..MaxErrors
    /\ signals \in Seq(1..sent)
    /\ Len(signals) <= BufferSize
    /\ signalsClosed \in BOOLEAN
    /\ errors \in 0..ErrorBufferSize
    /\ errorsClosed \in BOOLEAN
    /\ cancelled \in BOOLEAN
    /\ dropped \in Nat
    /\ loop \in LoopStates
    /\ ctxDone \in BOOLEAN
    /\ caller \in CallerStates
    /\ collected \in Seq(1..sent)
    /\ idle \in 0..Window
    /\ errCh \in {"live", "nil"}

\* NewListener has returned: LISTEN is in force and receiveLoop has been started.
Init ==
    /\ sent = 0
    /\ wire = <<>>
    /\ age = 0
    /\ severed = FALSE
    /\ conn = "open"
    /\ faults = 0
    /\ signals = <<>>
    /\ signalsClosed = FALSE
    /\ errors = 0
    /\ errorsClosed = FALSE
    /\ cancelled = FALSE
    /\ dropped = 0
    /\ loop = "top"
    /\ ctxDone = FALSE
    /\ caller = "test"
    /\ collected = <<>>
    /\ idle = 0
    /\ errCh = "live"

\* The numbers m+1 .. n as a sequence.
Numbers(m, n) == [i \in 1..(n - m) |-> m + i]

-----------------------------------------------------------------------------
(* The environment: PostgreSQL, the network, the clock, the test's deadline *)

\* The test commits a transaction that raised at least one signal. The server
\* queues one notification per signal on the listening connection, in order; if
\* that connection is gone they reach nobody.
TestCommits ==
    /\ caller = "test"
    /\ sent' \in (sent + 1)..MaxSent
    /\ wire' = IF severed THEN wire ELSE wire \o Numbers(sent, sent')
    /\ age' = IF wire = <<>> THEN 0 ELSE age
    /\ UNCHANGED <<severed, faults, conn, listenerVars, loop, ctxDone, caller, collectVars>>

\* The listening connection breaks; an unread suffix is lost with it.
Sever ==
    /\ ~severed
    /\ conn = "open"
    /\ caller # "panicked"
    /\ severed' = TRUE
    /\ \E n \in 0..Len(wire) : wire' = SubSeq(wire, 1, n)
    /\ UNCHANGED <<sent, age, faults, conn, listenerVars, loop, ctxDone, caller, collectVars>>

ContextExpires ==
    /\ ~ctxDone
    /\ caller \notin {"closed", "panicked"}
    /\ ctxDone' = TRUE
    /\ UNCHANGED <<serverVars, conn, listenerVars, loop, caller, collectVars>>

\* In a prompt environment the clock does not advance past the moment the next
\* notification must have been handled, nor while CollectSignals has a signal
\* to receive.
Tick ==
    /\ caller = "test" \/ (caller = "select" /\ idle < Window)
    /\ Prompt => /\ wire # <<>> => age < Latency
                 /\ caller = "select" => signals = <<>>
    /\ age' = IF wire # <<>> /\ age < Latency THEN age + 1 ELSE age
    /\ idle' = IF caller = "select" THEN idle + 1 ELSE idle
    /\ UNCHANGED <<sent, wire, severed, faults, conn, listenerVars, loop, ctxDone, caller,
                   collected, errCh>>

-----------------------------------------------------------------------------
(* handleNotification, on whichever goroutine is reading the connection     *)

\* Mutants of Handle: an overflow that is not counted; an unbounded buffer.
HandleUncounted(signal) ==
    /\ signals' = IF Len(signals) < BufferSize THEN Append(signals, signal) ELSE signals
    /\ UNCHANGED dropped

HandleUnbounded(signal) == signals' = Append(signals, signal) /\ UNCHANGED dropped

\* The send never blocks: when the buffer is full the signal is dropped and counted.
Handle(signal) ==
    IF Len(signals) < BufferSize
    THEN signals' = Append(signals, signal) /\ UNCHANGED dropped
    ELSE dropped' = dropped + 1 /\ UNCHANGED signals

ReadNotification ==
    /\ wire # <<>>
    /\ wire' = Tail(wire)
    /\ age' = 0
    /\ Handle(Head(wire))

-----------------------------------------------------------------------------
(* receiveLoop                                                              *)

LoopCtxDone == cancelled \/ ctxDone

\* Mutant of LoopEnds: a loop that survives every error.
LoopNeverEnds == FALSE

\* The condition under which an error of WaitForNotification ends the loop.
LoopEnds == LoopCtxDone \/ conn' = "closed"

\* WaitForNotification starts: it fails at once if the connection is closed, is
\* being used by Close, or if the context is done; otherwise it now owns the
\* connection.
WaitBegins ==
    /\ loop = "top"
    /\ UNCHANGED conn
    /\ loop' = IF conn = "closed" \/ caller = "unlisten" \/ LoopCtxDone
               THEN (IF LoopEnds THEN "leaving" ELSE "top")
               ELSE "waiting"
    /\ UNCHANGED <<serverVars, listenerVars, ctxDone, caller, collectVars>>

WaitReceives ==
    /\ loop = "waiting"
    /\ ReadNotification
    /\ loop' = "top"
    /\ UNCHANGED <<sent, severed, faults, conn, signalsClosed, errors, errorsClosed, cancelled,
                   ctxDone, caller, collectVars>>

\* The context is done: the read is interrupted, the connection survives.
WaitInterrupted ==
    /\ loop = "waiting"
    /\ LoopCtxDone
    /\ UNCHANGED conn
    /\ loop' = IF LoopEnds THEN "leaving" ELSE "top"
    /\ UNCHANGED <<serverVars, listenerVars, ctxDone, caller, collectVars>>

\* The read fails because the connection is gone, which closes it.
WaitBroken ==
    /\ loop = "waiting"
    /\ conn = "closed" \/ (severed /\ wire = <<>>)
    /\ conn' = "closed"
    /\ loop' = IF LoopEnds THEN "leaving" ELSE "top"
    /\ UNCHANGED <<serverVars, listenerVars, ctxDone, caller, collectVars>>

\* Any other error is reported without blocking, and the loop goes on.
WaitFails ==
    /\ loop = "waiting"
    /\ faults < MaxErrors
    /\ ~LoopCtxDone
    /\ conn = "open"
    /\ faults' = faults + 1
    /\ errors' = IF errors < ErrorBufferSize THEN errors + 1 ELSE errors
    /\ loop' = "top"
    /\ UNCHANGED <<sent, wire, age, severed, conn, signals, signalsClosed, errorsClosed, cancelled,
                   dropped, ctxDone, caller, collectVars>>

\* The deferred calls run in reverse order: errors is closed before signals.
CloseErrors ==
    /\ loop = "leaving"
    /\ errorsClosed' = TRUE
    /\ loop' = "closingSignals"
    /\ UNCHANGED <<serverVars, conn, signals, signalsClosed, errors, cancelled, dropped,
                   ctxDone, caller, collectVars>>

CloseSignals ==
    /\ loop = "closingSignals"
    /\ signalsClosed' = TRUE
    /\ loop' = "exited"
    /\ UNCHANGED <<serverVars, conn, signals, errors, errorsClosed, cancelled, dropped,
                   ctxDone, caller, collectVars>>

LoopStep ==
    \/ WaitBegins \/ WaitReceives \/ WaitInterrupted \/ WaitBroken
    \/ CloseErrors \/ CloseSignals

-----------------------------------------------------------------------------
(* The test's goroutine: the test itself, then CollectSignals               *)

TestFails ==
    /\ caller = "test"
    /\ caller' = "failed"
    /\ UNCHANGED <<serverVars, conn, listenerVars, loop, ctxDone, collectVars>>

CollectBegins ==
    /\ caller = "test"
    /\ caller' = "select"
    /\ idle' = 0
    /\ UNCHANGED <<serverVars, conn, listenerVars, loop, ctxDone, collected, errCh>>

\* Mutant of TakeSignal: the newest signal first.
TakeNewest ==
    /\ collected' = Append(collected, signals[Len(signals)])
    /\ signals' = SubSeq(signals, 1, Len(signals) - 1)

\* Append the oldest buffered signal to the result.
TakeSignal ==
    /\ collected' = Append(collected, Head(signals))
    /\ signals' = Tail(signals)

\* Mutant of RestartWindow: one window for the whole collection.
KeepWindow == UNCHANGED idle

RestartWindow == idle' = 0

ReceiveSignal ==
    /\ caller = "select"
    /\ signals # <<>>
    /\ TakeSignal
    /\ RestartWindow
    /\ UNCHANGED <<serverVars, conn, signalsClosed, errors, errorsClosed, cancelled, dropped,
                   loop, ctxDone, caller, errCh>>

\* A closed channel still yields what it holds; only then does it report closed.
SignalsEnd ==
    /\ caller = "select"
    /\ signals = <<>>
    /\ signalsClosed
    /\ caller' = "collected"
    /\ UNCHANGED <<serverVars, conn, listenerVars, loop, ctxDone, collectVars>>

ReceiveError ==
    /\ caller = "select"
    /\ errCh = "live"
    /\ \/ errors > 0 /\ errors' = errors - 1 /\ UNCHANGED errCh
       \/ errors = 0 /\ errorsClosed /\ errCh' = "nil" /\ UNCHANGED errors
    /\ UNCHANGED <<serverVars, conn, signals, signalsClosed, errorsClosed, cancelled, dropped,
                   loop, ctxDone, caller, collected, idle>>

\* Mutants of StopWaiting: the buffer is abandoned; only the deadline ends the wait.
StopAtOnce ==
    /\ caller = "select"
    /\ idle = Window \/ ctxDone
    /\ caller' = "collected"
    /\ UNCHANGED <<serverVars, conn, listenerVars, loop, ctxDone, collectVars>>

StopAtDeadline ==
    /\ caller = "select"
    /\ ctxDone
    /\ caller' = "drain"
    /\ UNCHANGED <<serverVars, conn, listenerVars, loop, ctxDone, collectVars>>

\* The idle window has passed, or the context is done.
StopWaiting ==
    /\ caller = "select"
    /\ idle = Window \/ ctxDone
    /\ caller' = "drain"
    /\ UNCHANGED <<serverVars, conn, listenerVars, loop, ctxDone, collectVars>>

Drain ==
    /\ caller = "drain"
    /\ \/ /\ signals # <<>>
          /\ TakeSignal
          /\ UNCHANGED caller
       \/ /\ signals = <<>>
          /\ caller' = "collected"
          /\ UNCHANGED <<signals, collected>>
    /\ UNCHANGED <<serverVars, conn, signalsClosed, errors, errorsClosed, cancelled, dropped,
                   loop, ctxDone, idle, errCh>>

CollectStep == ReceiveSignal \/ SignalsEnd \/ ReceiveError \/ StopWaiting \/ Drain

-----------------------------------------------------------------------------
(* Close                                                                    *)

CloseBegins ==
    /\ caller \in {"failed", "collected"}
    /\ cancelled' = TRUE
    /\ caller' = "cancelled"
    /\ UNCHANGED <<serverVars, conn, signals, signalsClosed, errors, errorsClosed, dropped,
                   loop, ctxDone, collectVars>>

\* Close finds the connection closed and returns. Otherwise UNLISTEN is sent if
\* the context is live and receiveLoop is not inside WaitForNotification; its
\* failure is ignored either way.
CloseChoosesPath ==
    /\ caller = "cancelled"
    /\ caller' = IF conn = "closed" THEN "closed"
                 ELSE IF ctxDone \/ loop = "waiting" THEN "terminate" ELSE "unlisten"
    /\ UNCHANGED <<serverVars, conn, listenerVars, loop, ctxDone, collectVars>>

\* Waiting for the answer to UNLISTEN reads the notifications sent before it and
\* runs the callback on them. After receiveLoop has closed the channel, the
\* callback's send panics.
UnlistenReads ==
    /\ caller = "unlisten"
    /\ \/ /\ ~signalsClosed
          /\ ReadNotification
          /\ UNCHANGED caller
       \/ /\ signalsClosed
          /\ wire # <<>>
          /\ caller' = "panicked"
          /\ UNCHANGED <<wire, age, signals, dropped>>
    /\ UNCHANGED <<sent, severed, faults, conn, signalsClosed, errors, errorsClosed, cancelled,
                   loop, ctxDone, collectVars>>

\* UNLISTEN has been answered, or has failed: whatever the server had not yet
\* sent by then is never delivered.
UnlistenEnds ==
    /\ caller = "unlisten"
    /\ caller' = "terminate"
    /\ UNCHANGED <<serverVars, conn, listenerVars, loop, ctxDone, collectVars>>

CloseConnection ==
    /\ caller = "terminate"
    /\ conn' = "closed"
    /\ caller' = "closed"
    /\ UNCHANGED <<serverVars, listenerVars, loop, ctxDone, collectVars>>

CloseStep == CloseBegins \/ CloseChoosesPath \/ UnlistenEnds \/ CloseConnection

\* Nothing is left to do: both goroutines have ended, or a panic has ended the process.
Finished ==
    /\ caller \in {"closed", "panicked"}
    /\ loop = "exited"
    /\ UNCHANGED vars

Next ==
    \/ TestCommits \/ Sever \/ ContextExpires \/ Tick
    \/ LoopStep \/ WaitFails
    \/ TestFails \/ CollectBegins \/ CollectStep
    \/ CloseStep \/ UnlistenReads
    \/ Finished

\* Both goroutines are scheduled and the clock runs; the test, the server and
\* the network owe nothing.
Fairness ==
    /\ WF_vars(LoopStep)
    /\ WF_vars(CollectStep)
    /\ WF_vars(CloseStep)
    /\ WF_vars(Tick)

Spec == Init /\ [][Next]_vars /\ Fairness

-----------------------------------------------------------------------------
(* Properties                                                               *)

\* The listener delivers a stream of signals: in commit order, none twice, none
\* invented, whatever the interleaving of receiveLoop, CollectSignals and Close.
Stream == INSTANCE SignalStream WITH pending <- signals \o wire, taken <- collected
ImplementsStream == Stream!Spec

\* DroppedSignals is the whole truth about overflow: as long as the connection
\* lives, a committed signal is collected, buffered, still on the wire or counted
\* as dropped.
EverySignalAccountedFor ==
    ~severed => Len(collected) + Len(signals) + Len(wire) + dropped = sent

\* If notifications keep arriving within the idle window of each other, a
\* collection that neither the deadline nor a broken connection cut short has
\* every signal the test committed, but for those it counts as dropped - however
\* long the whole stream takes.
CompleteWhenPrompt ==
    (Prompt /\ Latency < Window /\ caller = "collected" /\ ~severed /\ ~ctxDone)
        => Len(collected) + dropped = sent

\* CollectSignals never returns while the buffer holds a signal, even if
\* receiveLoop refills it while it is being drained.
ReturnsDrained ==
    [][caller # "collected" /\ caller' = "collected" => signals = <<>>]_vars

\* CollectSignals returns even if the context has no deadline left to hit.
CollectReturns == caller = "select" ~> caller = "collected"

\* Once Close is under way, it returns and receiveLoop exits - neither waits for
\* the other - or it panics: there is no third end.
CloseReturns == caller = "cancelled" ~> caller \in {"closed", "panicked"} /\ loop = "exited"

\* "Close stops the listener and closes the connection": it never dies on the way,
\* as it would if a notification were delivered to the channel receiveLoop closed.
CloseNeverPanics == caller # "panicked"

=============================================================================
