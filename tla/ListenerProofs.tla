--------------------------- MODULE ListenerProofs ---------------------------
(***************************************************************************)
(* Proofs about Listener, for any buffer sizes, idle window, latency and   *)
(* number of signals: no signal is lost uncounted, the collection is       *)
(* complete in a prompt environment, and Listener implements SignalStream. *)
(***************************************************************************)
EXTENDS Listener, SequenceTheorems, TLAPS

-----------------------------------------------------------------------------
(* The inductive invariant                                                  *)

\* Where the test's goroutine is until it calls Close.
Early == {"test", "failed", "select", "drain", "collected"}

\* receiveLoop ends only when it has a reason to, and closes the channel last.
LoopOK ==
    /\ cancelled <=> caller \notin Early
    /\ caller \in Early /\ ~severed => conn = "open"
    /\ loop \in {"leaving", "closingSignals", "exited"} => LoopCtxDone \/ conn = "closed"
    /\ signalsClosed <=> loop = "exited"

\* Why the idle window does not close too early in a prompt environment: while a
\* notification is under way, the window has not been open for longer than it.
WindowOK ==
    Prompt /\ Latency < Window /\ ~severed /\ ~ctxDone =>
        /\ caller = "select" /\ wire # <<>> =>
              /\ idle <= Latency
              /\ signals = <<>> => idle <= age
        /\ caller \in {"drain", "collected"} => wire = <<>>
        /\ caller = "collected" => signals = <<>>

\* The inductive invariant.
LInv == TypeOK /\ LoopOK /\ WindowOK /\ EverySignalAccountedFor

-----------------------------------------------------------------------------
(* Sequences of signals                                                     *)

LEMMA NumbersTyped ==
    ASSUME NEW m \in Nat, NEW n \in Nat, m <= n
    PROVE  Numbers(m, n) \in Seq(1..n) /\ Len(Numbers(m, n)) = n - m
<1>1. Numbers(m, n) \in [1..(n - m) -> 1..n] /\ n - m \in Nat
  BY DEF Numbers
<1>2. Numbers(m, n) \in Seq(1..n)
  BY <1>1, SeqDef
<1> QED
  BY <1>1, <1>2, LenProperties

\* Reading a notification moves it into the buffer, or counts it.
LEMMA Reading ==
    ASSUME TypeOK, ReadNotification
    PROVE  /\ wire' \in Seq(1..sent) /\ Len(wire') = Len(wire) - 1
           /\ signals' \in Seq(1..sent) /\ Len(signals') <= BufferSize /\ signals' # <<>>
           /\ dropped' \in Nat
           /\ Len(signals') + dropped' = Len(signals) + dropped + 1
           /\ age' = 0
<1> USE DEF TypeOK, ReadNotification
<1>0. BufferSize \in Nat \ {0} /\ dropped \in Nat /\ Len(signals) \in Nat
  BY ListenerAssumption DEF ListenerAssumption
<1>1. wire' \in Seq(1..sent) /\ Len(wire') = Len(wire) - 1 /\ Head(wire) \in 1..sent
  BY HeadTailProperties
<1>2. CASE Len(signals) < BufferSize
  <2>1. signals' = Append(signals, Head(wire)) /\ dropped' = dropped
    BY <1>2 DEF Handle
  <2>2. /\ signals' \in Seq(1..sent) /\ Len(signals') = Len(signals) + 1 /\ signals' # <<>>
    <3>1. signals \in Seq(1..sent) /\ Head(wire) \in 1..sent
      BY <1>1
    <3> HIDE DEF TypeOK, ReadNotification
    <3>2. /\ Append(signals, Head(wire)) \in Seq(1..sent)
          /\ Append(signals, Head(wire)) # <<>>
          /\ Len(Append(signals, Head(wire))) = Len(signals) + 1
      BY <3>1, AppendProperties
    <3> QED
      BY <2>1, <3>2
  <2> QED
    BY <1>0, <1>1, <1>2, <2>1, <2>2
<1>3. CASE ~(Len(signals) < BufferSize)
  <2>1. signals' = signals /\ dropped' = dropped + 1
    BY <1>3 DEF Handle
  <2>2. signals # <<>>
    BY <1>0, <1>3, EmptySeq
  <2> QED
    BY <1>0, <1>1, <2>1, <2>2
<1> QED
  BY <1>2, <1>3

\* Taking a signal moves it from the buffer to the result.
LEMMA Taking ==
    ASSUME TypeOK, signals # <<>>, TakeSignal
    PROVE  /\ signals' \in Seq(1..sent) /\ Len(signals') = Len(signals) - 1
           /\ Len(signals') <= BufferSize
           /\ collected' \in Seq(1..sent) /\ Len(collected') = Len(collected) + 1
<1> USE DEF TypeOK, TakeSignal
<1>1. signals' \in Seq(1..sent) /\ Len(signals') = Len(signals) - 1 /\ Head(signals) \in 1..sent
  BY HeadTailProperties
<1>2. collected' \in Seq(1..sent) /\ Len(collected') = Len(collected) + 1
  BY <1>1, AppendProperties
<1> QED
  BY <1>1, <1>2, ListenerAssumption DEF ListenerAssumption

\* A commit puts its signals on the wire, or nowhere.
LEMMA Committing ==
    ASSUME TypeOK, TestCommits
    PROVE  /\ sent' \in 0..MaxSent /\ sent < sent'
           /\ wire' \in Seq(1..sent') /\ signals \in Seq(1..sent') /\ collected \in Seq(1..sent')
           /\ ~severed => Len(wire') = Len(wire) + (sent' - sent)
<1>1. sent \in Nat /\ sent' \in Nat /\ sent < sent' /\ sent' \in 0..MaxSent
  BY ListenerAssumption DEF ListenerAssumption, TypeOK, TestCommits
<1>2. wire \in Seq(1..sent') /\ signals \in Seq(1..sent') /\ collected \in Seq(1..sent')
  <2>1. 1..sent \subseteq 1..sent'
    BY <1>1
  <2> QED
    BY <2>1, SeqMonotonic DEF TypeOK
<1>3. Numbers(sent, sent') \in Seq(1..sent') /\ Len(Numbers(sent, sent')) = sent' - sent
  <2>1. sent <= sent'
    BY <1>1
  <2> QED
    BY <1>1, <2>1, NumbersTyped
<1>4. /\ wire \o Numbers(sent, sent') \in Seq(1..sent')
      /\ Len(wire \o Numbers(sent, sent')) = Len(wire) + (sent' - sent)
  BY <1>2, <1>3, ConcatProperties
<1> QED
  BY <1>1, <1>2, <1>4 DEF TestCommits

-----------------------------------------------------------------------------
(* Steps                                                                    *)

LEMMA TypeNext == TypeOK /\ [Next]_vars => TypeOK'
<1> SUFFICES ASSUME TypeOK, [Next]_vars PROVE TypeOK'
  OBVIOUS
<1>0. /\ BufferSize \in Nat \ {0} /\ ErrorBufferSize \in Nat /\ Window \in Nat
      /\ Latency \in Nat /\ MaxSent \in Nat /\ MaxErrors \in Nat
  BY ListenerAssumption DEF ListenerAssumption
<1> USE <1>0 DEF TypeOK, LoopStates, CallerStates, serverVars, listenerVars, collectVars
<1>1. CASE TestCommits
  BY <1>1, Committing DEF TestCommits
<1>2. CASE Sever
  BY <1>2 DEF Sever
<1>3. CASE ContextExpires
  BY <1>3 DEF ContextExpires
<1>4. CASE Tick
  BY <1>4 DEF Tick
<1>5. CASE WaitBegins
  BY <1>5 DEF WaitBegins
<1>6. CASE WaitReceives
  BY <1>6, Reading DEF WaitReceives
<1>7. CASE WaitInterrupted
  BY <1>7 DEF WaitInterrupted
<1>8. CASE WaitBroken
  BY <1>8 DEF WaitBroken
<1>9. CASE WaitFails
  BY <1>9 DEF WaitFails
<1>10. CASE CloseErrors
  BY <1>10 DEF CloseErrors
<1>11. CASE CloseSignals
  BY <1>11 DEF CloseSignals
<1>12. CASE TestFails
  BY <1>12 DEF TestFails
<1>13. CASE CollectBegins
  BY <1>13 DEF CollectBegins
<1>14. CASE ReceiveSignal
  BY <1>14, Taking DEF ReceiveSignal, RestartWindow
<1>15. CASE SignalsEnd
  BY <1>15 DEF SignalsEnd
<1>16. CASE ReceiveError
  BY <1>16 DEF ReceiveError
<1>17. CASE StopWaiting
  BY <1>17 DEF StopWaiting
<1>18. CASE Drain
  BY <1>18, Taking DEF Drain
<1>19. CASE CloseBegins
  BY <1>19 DEF CloseBegins
<1>20. CASE CloseChoosesPath
  BY <1>20 DEF CloseChoosesPath
<1>21. CASE UnlistenReads
  BY <1>21, Reading DEF UnlistenReads
<1>22. CASE UnlistenEnds
  BY <1>22 DEF UnlistenEnds
<1>23. CASE CloseConnection
  BY <1>23 DEF CloseConnection
<1>24. CASE UNCHANGED vars
  BY <1>24 DEF vars
<1> QED
  BY <1>1, <1>2, <1>3, <1>4, <1>5, <1>6, <1>7, <1>8, <1>9, <1>10, <1>11, <1>12, <1>13, <1>14, <1>15, <1>16, <1>17, <1>18, <1>19, <1>20, <1>21, <1>22, <1>23, <1>24
     DEF Next, LoopStep, CollectStep, CloseStep, Finished

LEMMA LoopNext == TypeOK /\ LoopOK /\ [Next]_vars => LoopOK'
<1> SUFFICES ASSUME TypeOK, LoopOK, [Next]_vars PROVE LoopOK'
  OBVIOUS
<1>0. /\ caller \in CallerStates /\ loop \in LoopStates /\ conn \in {"open", "closed"}
      /\ cancelled \in BOOLEAN /\ ctxDone \in BOOLEAN /\ signalsClosed \in BOOLEAN
      /\ severed \in BOOLEAN
  BY DEF TypeOK
<1> USE <1>0 DEF LoopOK, Early, LoopCtxDone, LoopStates, CallerStates, serverVars, listenerVars, collectVars
<1>1. CASE TestCommits
  BY <1>1 DEF TestCommits
<1>2. CASE Sever
  BY <1>2 DEF Sever
<1>3. CASE ContextExpires
  BY <1>3 DEF ContextExpires
<1>4. CASE Tick
  BY <1>4 DEF Tick
<1>5. CASE WaitBegins
  BY <1>5 DEF WaitBegins, LoopEnds
<1>6. CASE WaitReceives
  BY <1>6 DEF WaitReceives
<1>7. CASE WaitInterrupted
  BY <1>7 DEF WaitInterrupted, LoopEnds
<1>8. CASE WaitBroken
  BY <1>8 DEF WaitBroken, LoopEnds
<1>9. CASE WaitFails
  BY <1>9 DEF WaitFails
<1>10. CASE CloseErrors
  BY <1>10 DEF CloseErrors
<1>11. CASE CloseSignals
  BY <1>11 DEF CloseSignals
<1>12. CASE TestFails
  BY <1>12 DEF TestFails
<1>13. CASE CollectBegins
  BY <1>13 DEF CollectBegins
<1>14. CASE ReceiveSignal
  BY <1>14 DEF ReceiveSignal
<1>15. CASE SignalsEnd
  BY <1>15 DEF SignalsEnd
<1>16. CASE ReceiveError
  BY <1>16 DEF ReceiveError
<1>17. CASE StopWaiting
  BY <1>17 DEF StopWaiting
<1>18. CASE Drain
  BY <1>18 DEF Drain
<1>19. CASE CloseBegins
  BY <1>19 DEF CloseBegins
<1>20. CASE CloseChoosesPath
  BY <1>20 DEF CloseChoosesPath
<1>21. CASE UnlistenReads
  BY <1>21 DEF UnlistenReads
<1>22. CASE UnlistenEnds
  BY <1>22 DEF UnlistenEnds
<1>23. CASE CloseConnection
  BY <1>23 DEF CloseConnection
<1>24. CASE UNCHANGED vars
  BY <1>24 DEF vars
<1> QED
  BY <1>1, <1>2, <1>3, <1>4, <1>5, <1>6, <1>7, <1>8, <1>9, <1>10, <1>11, <1>12, <1>13, <1>14, <1>15, <1>16, <1>17, <1>18, <1>19, <1>20, <1>21, <1>22, <1>23, <1>24
     DEF Next, LoopStep, CollectStep, CloseStep, Finished

LEMMA WindowNext == TypeOK /\ LoopOK /\ WindowOK /\ [Next]_vars => WindowOK'
<1> SUFFICES ASSUME TypeOK, LoopOK, WindowOK, [Next]_vars,
                    Prompt, Latency < Window, ~severed', ~ctxDone'
             PROVE  /\ caller' = "select" /\ wire' # <<>> =>
                          /\ idle' <= Latency
                          /\ signals' = <<>> => idle' <= age'
                    /\ caller' \in {"drain", "collected"} => wire' = <<>>
                    /\ caller' = "collected" => signals' = <<>>
  BY DEF WindowOK
<1>0. /\ Latency \in Nat /\ Window \in Nat /\ idle \in 0..Window /\ age \in 0..Latency
      /\ severed \in BOOLEAN /\ ctxDone \in BOOLEAN
      /\ LoopOK /\ Prompt /\ Latency < Window /\ ~severed' /\ ~ctxDone'
  BY ListenerAssumption DEF ListenerAssumption, TypeOK
<1> USE <1>0 DEF WindowOK, serverVars, listenerVars, collectVars
<1>1. CASE TestCommits
  BY <1>1 DEF TestCommits
<1>2. CASE Sever
  BY <1>2 DEF Sever
<1>3. CASE ContextExpires
  BY <1>3 DEF ContextExpires
<1>4. CASE Tick
  BY <1>4 DEF Tick
<1>5. CASE WaitBegins
  BY <1>5 DEF WaitBegins
<1>6. CASE WaitReceives
  BY <1>6, Reading DEF WaitReceives, ReadNotification
<1>7. CASE WaitInterrupted
  BY <1>7 DEF WaitInterrupted
<1>8. CASE WaitBroken
  BY <1>8 DEF WaitBroken
<1>9. CASE WaitFails
  BY <1>9 DEF WaitFails
<1>10. CASE CloseErrors
  BY <1>10 DEF CloseErrors
<1>11. CASE CloseSignals
  BY <1>11 DEF CloseSignals
<1>12. CASE TestFails
  BY <1>12 DEF TestFails
<1>13. CASE CollectBegins
  BY <1>13 DEF CollectBegins
<1>14. CASE ReceiveSignal
  BY <1>14 DEF ReceiveSignal, RestartWindow
<1>15. CASE SignalsEnd
  BY <1>15 DEF SignalsEnd, LoopOK, LoopCtxDone, Early
<1>16. CASE ReceiveError
  BY <1>16 DEF ReceiveError
<1>17. CASE StopWaiting
  BY <1>17 DEF StopWaiting
<1>18. CASE Drain
  BY <1>18 DEF Drain
<1>19. CASE CloseBegins
  BY <1>19 DEF CloseBegins
<1>20. CASE CloseChoosesPath
  BY <1>20 DEF CloseChoosesPath
<1>21. CASE UnlistenReads
  BY <1>21, Reading DEF UnlistenReads, ReadNotification
<1>22. CASE UnlistenEnds
  BY <1>22 DEF UnlistenEnds
<1>23. CASE CloseConnection
  BY <1>23 DEF CloseConnection
<1>24. CASE UNCHANGED vars
  BY <1>24 DEF vars
<1> QED
  BY <1>1, <1>2, <1>3, <1>4, <1>5, <1>6, <1>7, <1>8, <1>9, <1>10, <1>11, <1>12, <1>13, <1>14, <1>15, <1>16, <1>17, <1>18, <1>19, <1>20, <1>21, <1>22, <1>23, <1>24
     DEF Next, LoopStep, CollectStep, CloseStep, Finished

LEMMA AccountNext == TypeOK /\ EverySignalAccountedFor /\ [Next]_vars => EverySignalAccountedFor'
<1> SUFFICES ASSUME TypeOK, EverySignalAccountedFor, [Next]_vars, ~severed'
             PROVE  Len(collected') + Len(signals') + Len(wire') + dropped' = sent'
  BY DEF EverySignalAccountedFor
<1>0. /\ Len(collected) \in Nat /\ Len(signals) \in Nat /\ Len(wire) \in Nat
      /\ sent \in Nat /\ dropped \in Nat /\ ~severed'
      /\ Len(collected') \in Nat /\ Len(signals') \in Nat /\ Len(wire') \in Nat
      /\ sent' \in Nat /\ dropped' \in Nat
  <2>1. TypeOK'
    BY TypeNext
  <2> QED
    BY <2>1, ListenerAssumption DEF ListenerAssumption, TypeOK
<1> USE <1>0 DEF EverySignalAccountedFor, serverVars, listenerVars, collectVars
<1>1. CASE TestCommits
  <2>1. UNCHANGED <<signals, collected, dropped, severed>>
    BY <1>1 DEF TestCommits
  <2>2. Len(wire') = Len(wire) + (sent' - sent)
    BY <1>1, <2>1, Committing
  <2> QED
    BY <2>1, <2>2, SMTT(30)
<1>2. CASE Sever
  BY <1>2 DEF Sever
<1>3. CASE ContextExpires
  BY <1>3 DEF ContextExpires
<1>4. CASE Tick
  BY <1>4 DEF Tick
<1>5. CASE WaitBegins
  BY <1>5 DEF WaitBegins
<1>6. CASE WaitReceives
  <2>1. Len(wire') = Len(wire) - 1 /\ Len(signals') + dropped' = Len(signals) + dropped + 1
    BY <1>6, Reading DEF WaitReceives
  <2>2. UNCHANGED <<collected, sent, severed>>
    BY <1>6 DEF WaitReceives
  <2> QED
    BY <2>1, <2>2
<1>7. CASE WaitInterrupted
  BY <1>7 DEF WaitInterrupted
<1>8. CASE WaitBroken
  BY <1>8 DEF WaitBroken
<1>9. CASE WaitFails
  BY <1>9 DEF WaitFails
<1>10. CASE CloseErrors
  BY <1>10 DEF CloseErrors
<1>11. CASE CloseSignals
  BY <1>11 DEF CloseSignals
<1>12. CASE TestFails
  BY <1>12 DEF TestFails
<1>13. CASE CollectBegins
  BY <1>13 DEF CollectBegins
<1>14. CASE ReceiveSignal
  <2>1. signals # <<>> /\ TakeSignal /\ UNCHANGED <<wire, sent, dropped, severed>>
    BY <1>14 DEF ReceiveSignal
  <2>2. Len(signals') = Len(signals) - 1 /\ Len(collected') = Len(collected) + 1
    BY <2>1, Taking
  <2> QED
    BY <2>1, <2>2
<1>15. CASE SignalsEnd
  BY <1>15 DEF SignalsEnd
<1>16. CASE ReceiveError
  BY <1>16 DEF ReceiveError
<1>17. CASE StopWaiting
  BY <1>17 DEF StopWaiting
<1>18. CASE Drain
  <2>1. UNCHANGED <<wire, sent, dropped, severed>>
    BY <1>18 DEF Drain
  <2>2. Len(collected') + Len(signals') = Len(collected) + Len(signals)
    <3>1. CASE signals # <<>> /\ TakeSignal
      <4>1. /\ Len(signals') = Len(signals) - 1 /\ Len(collected') = Len(collected) + 1
        BY <3>1, Taking
      <4> QED
        BY <4>1
    <3>2. CASE UNCHANGED <<signals, collected>>
      BY <3>2
    <3> QED
      BY <1>18, <3>1, <3>2 DEF Drain
  <2> QED
    BY <2>1, <2>2
<1>19. CASE CloseBegins
  BY <1>19 DEF CloseBegins
<1>20. CASE CloseChoosesPath
  BY <1>20 DEF CloseChoosesPath
<1>21. CASE UnlistenReads
  <2>1. UNCHANGED <<collected, sent, severed>>
    BY <1>21 DEF UnlistenReads
  <2>2. CASE ReadNotification
    <3>1. Len(wire') = Len(wire) - 1 /\ Len(signals') + dropped' = Len(signals) + dropped + 1
      BY <2>2, Reading
    <3> QED
      BY <2>1, <3>1
  <2>3. CASE UNCHANGED <<wire, signals, dropped>>
    BY <2>1, <2>3
  <2> QED
    BY <1>21, <2>2, <2>3 DEF UnlistenReads
<1>22. CASE UnlistenEnds
  BY <1>22 DEF UnlistenEnds
<1>23. CASE CloseConnection
  BY <1>23 DEF CloseConnection
<1>24. CASE UNCHANGED vars
  BY <1>24 DEF vars
<1> QED
  BY <1>1, <1>2, <1>3, <1>4, <1>5, <1>6, <1>7, <1>8, <1>9, <1>10, <1>11, <1>12, <1>13, <1>14, <1>15, <1>16, <1>17, <1>18, <1>19, <1>20, <1>21, <1>22, <1>23, <1>24
     DEF Next, LoopStep, CollectStep, CloseStep, Finished

LEMMA Invariance == Spec => []LInv
<1>1. Init => LInv
  <2> SUFFICES ASSUME Init PROVE LInv
    OBVIOUS
  <2>1. TypeOK
    <3>1. /\ MaxSent \in Nat /\ MaxErrors \in Nat /\ Latency \in Nat /\ Window \in Nat
          /\ BufferSize \in Nat /\ ErrorBufferSize \in Nat
      BY ListenerAssumption DEF ListenerAssumption
    <3>2. /\ wire \in Seq(1..sent) /\ signals \in Seq(1..sent) /\ collected \in Seq(1..sent)
          /\ Len(signals) = 0
      BY EmptySeq DEF Init
    <3>3. /\ sent \in 0..MaxSent /\ age \in 0..Latency /\ faults \in 0..MaxErrors
          /\ errors \in 0..ErrorBufferSize /\ idle \in 0..Window /\ dropped \in Nat
      BY <3>1 DEF Init
    <3>4. /\ severed \in BOOLEAN /\ conn \in {"open", "closed"} /\ signalsClosed \in BOOLEAN
          /\ errorsClosed \in BOOLEAN /\ cancelled \in BOOLEAN /\ ctxDone \in BOOLEAN
          /\ loop \in LoopStates /\ caller \in CallerStates /\ errCh \in {"live", "nil"}
      BY DEF Init, LoopStates, CallerStates
    <3>5. Len(signals) <= BufferSize
      BY <3>1, <3>2
    <3> QED
      BY <3>2, <3>3, <3>4, <3>5 DEF TypeOK
  <2>2. LoopOK /\ WindowOK
    BY DEF Init, LoopOK, WindowOK, Early, LoopCtxDone
  <2>3. EverySignalAccountedFor
    BY EmptySeq DEF Init, EverySignalAccountedFor
  <2> QED
    BY <2>1, <2>2, <2>3 DEF LInv
<1>2. LInv /\ [Next]_vars => LInv'
  BY TypeNext, LoopNext, WindowNext, AccountNext DEF LInv
<1> QED
  BY <1>1, <1>2, PTL DEF Spec

-----------------------------------------------------------------------------
(* Theorems                                                                 *)

\* Every reachable state is well typed; in particular neither channel ever holds more
\* than its capacity.
THEOREM TypeCorrect == Spec => []TypeOK
  BY Invariance, PTL DEF LInv

\* While the connection lives, no signal disappears without being counted, whichever
\* goroutine reads it and whenever.
THEOREM NothingUncounted == Spec => []EverySignalAccountedFor
  BY Invariance, PTL DEF LInv

\* An idle window longer than the latency of the notifications is long enough, for
\* any number of signals, any buffer and any interleaving with receiveLoop.
THEOREM WindowSuffices == Spec => []CompleteWhenPrompt
<1>1. LInv => CompleteWhenPrompt
  <2> SUFFICES ASSUME LInv, Prompt, Latency < Window, caller = "collected", ~severed, ~ctxDone
               PROVE  Len(collected) + dropped = sent
    BY DEF CompleteWhenPrompt
  <2>1. wire = <<>> /\ signals = <<>>
    BY DEF LInv, WindowOK
  <2>2. Len(wire) = 0 /\ Len(signals) = 0
    BY <2>1, EmptySeq
  <2>3. Len(collected) + Len(signals) + Len(wire) + dropped = sent
    BY DEF LInv, EverySignalAccountedFor
  <2>4. Len(collected) \in Nat /\ dropped \in Nat /\ sent \in Nat
    BY ListenerAssumption DEF ListenerAssumption, LInv, TypeOK
  <2> QED
    BY <2>2, <2>3, <2>4
<1> QED
  BY Invariance, <1>1, PTL

-----------------------------------------------------------------------------
(* The refinement of SignalStream: the signals between the test and the     *)
(* collection, those in the buffer followed by those on the wire, are one   *)
(* queue from which signals may disappear and which nothing reorders.       *)

\* A prefix that contains the whole of the first.
LEMMA PrefixOfConcat ==
    ASSUME NEW S, NEW s \in Seq(S), NEW t \in Seq(S), NEW n \in 0..Len(t)
    PROVE  SubSeq(s \o t, 1, Len(s) + n) = s \o SubSeq(t, 1, n)
<1> DEFINE p == s \o t
           a == SubSeq(p, 1, Len(s) + n)
           b == s \o SubSeq(t, 1, n)
<1>1. Len(s) \in Nat /\ Len(t) \in Nat /\ n \in Nat /\ n <= Len(t)
  BY LenProperties
<1>2. /\ p \in Seq(S) /\ Len(p) = Len(s) + Len(t)
      /\ \A i \in 1..Len(s) + Len(t) : p[i] = IF i <= Len(s) THEN s[i] ELSE t[i - Len(s)]
  BY ConcatProperties
<1> HIDE DEF p
<1>3. /\ a \in Seq(S) /\ Len(a) = Len(s) + n
      /\ \A i \in 1..Len(s) + n : a[i] = p[i]
  <2>1. \A i \in 1..Len(s) + n : p[i] \in S
    BY <1>1, <1>2, ElementOfSeq
  <2>2. Len(s) + n \in Int /\ 1 \in Int
    BY <1>1
  <2>3. /\ a \in Seq(S)
        /\ Len(a) = IF 1 <= Len(s) + n THEN (Len(s) + n) - 1 + 1 ELSE 0
        /\ \A i \in 1..((Len(s) + n) - 1 + 1) : a[i] = p[1 + i - 1]
    BY <2>1, <2>2, SubSeqProperties
  <2>4. (Len(s) + n) - 1 + 1 = Len(s) + n /\ \A i \in 1..Len(s) + n : 1 + i - 1 = i
    BY <1>1
  <2>5. Len(a) = Len(s) + n
    BY <1>1, <2>3
  <2> QED
    BY <2>3, <2>4, <2>5
<1>4. /\ SubSeq(t, 1, n) \in Seq(S) /\ Len(SubSeq(t, 1, n)) = n
      /\ \A i \in 1..n : SubSeq(t, 1, n)[i] = t[i]
  <2>1. \A i \in 1..n : t[i] \in S
    BY <1>1, ElementOfSeq
  <2>2. /\ SubSeq(t, 1, n) \in Seq(S)
        /\ Len(SubSeq(t, 1, n)) = IF 1 <= n THEN n - 1 + 1 ELSE 0
        /\ \A i \in 1..(n - 1 + 1) : SubSeq(t, 1, n)[i] = t[1 + i - 1]
    BY <1>1, <2>1, SubSeqProperties
  <2>3. n - 1 + 1 = n /\ \A i \in 1..n : 1 + i - 1 = i
    BY <1>1
  <2> QED
    BY <1>1, <2>2, <2>3
<1>5. /\ b \in Seq(S) /\ Len(b) = Len(s) + n
      /\ \A i \in 1..Len(s) + n : b[i] = IF i <= Len(s) THEN s[i] ELSE SubSeq(t, 1, n)[i - Len(s)]
  BY <1>4, ConcatProperties
<1>6. \A i \in 1..Len(s) + n : a[i] = b[i]
  <2> SUFFICES ASSUME NEW i \in 1..Len(s) + n PROVE a[i] = b[i]
    OBVIOUS
  <2>1. i \in 1..Len(s) + Len(t) /\ (i <= Len(s) \/ i - Len(s) \in 1..n)
    BY <1>1
  <2> QED
    BY <1>2, <1>3, <1>4, <1>5, <2>1
<1> HIDE DEF a, b
<1>7. a = b
  BY <1>3, <1>5, <1>6, SeqEqual
<1> QED
  BY <1>7 DEF a, b, p

\* A suffix that lies within the second.
LEMMA SuffixOfConcat ==
    ASSUME NEW S, NEW s \in Seq(S), NEW t \in Seq(S), NEW n \in 1..Len(t) + 1
    PROVE  SubSeq(s \o t, Len(s) + n, Len(s \o t)) = SubSeq(t, n, Len(t))
<1>1. Len(s) \in Nat /\ Len(t) \in Nat /\ n \in Nat /\ Len(s \o t) = Len(s) + Len(t)
  BY LenProperties, ConcatProperties
<1>2. CASE n = Len(t) + 1
  <2>1. Len(s \o t) < Len(s) + n /\ Len(t) < n
    BY <1>1, <1>2
  <2> QED
    BY <1>1, <2>1, SubSeqEmpty
<1>3. CASE n \in 1..Len(t)
  <2>1. /\ Len(s) + n \in Len(s) + 1..Len(s) + Len(t)
        /\ Len(s) + Len(t) \in Len(s) + 1..Len(s) + Len(t)
        /\ (Len(s) + n) - Len(s) = n /\ (Len(s) + Len(t)) - Len(s) = Len(t)
    BY <1>1, <1>3
  <2>2. SubSeq(s \o t, Len(s) + n, Len(s) + Len(t))
            = SubSeq(t, (Len(s) + n) - Len(s), (Len(s) + Len(t)) - Len(s))
    BY <2>1, SubSeqOfConcat2
  <2> QED
    BY <1>1, <2>1, <2>2
<1> QED
  BY <1>1, <1>2, <1>3

\* The head and the tail of the first.
LEMMA HeadTailOfConcat ==
    ASSUME NEW S, NEW s \in Seq(S), NEW t \in Seq(S), s # <<>>
    PROVE  s \o t # <<>> /\ Head(s \o t) = Head(s) /\ Tail(s \o t) = Tail(s) \o t
<1>1. s = <<Head(s)>> \o Tail(s) /\ Head(s) \in S /\ Tail(s) \in Seq(S) /\ <<Head(s)>> \in Seq(S)
  <2>1. Head(s) \in S /\ Tail(s) \in Seq(S) /\ Len(s) \in Nat \ {0}
    BY HeadTailProperties, EmptySeq
  <2>2. 1 \in 1..Len(s) /\ Len(s) \in 1..Len(s) /\ 1..Len(s) \subseteq Int
    BY <2>1
  <2>3. SubSeq(s, 1, Len(s)) = <<s[1]>> \o SubSeq(s, 1 + 1, Len(s))
    BY <2>2, SubSeqRecursiveFirst
  <2>4. SubSeq(s, 1, Len(s)) = s /\ SubSeq(s, 2, Len(s)) = Tail(s) /\ Head(s) = s[1]
    BY SubSeqFull, TailIsSubSeq
  <2> QED
    BY <2>1, <2>3, <2>4
<1>2. s \o t = <<Head(s)>> \o (Tail(s) \o t)
  BY <1>1, ConcatAssociative
<1>3. Tail(s) \o t \in Seq(S)
  BY <1>1, ConcatProperties
<1> HIDE <1>1
<1> QED
  BY <1>1, <1>2, <1>3

-----------------------------------------------------------------------------
(* What the steps do to the queue                                           *)

Queue == signals \o wire

LEMMA QueueTyped ==
    ASSUME TypeOK
    PROVE  /\ signals \in Seq(1..sent) /\ wire \in Seq(1..sent) /\ Queue \in Seq(1..sent)
           /\ Len(signals) \in Nat /\ Len(wire) \in Nat /\ Len(Queue) = Len(signals) + Len(wire)
           /\ sent \in Nat
  BY ConcatProperties, LenProperties, ListenerAssumption DEF ListenerAssumption, TypeOK, Queue

\* Reading a notification moves it up in the queue, or takes it out.
LEMMA ReadMoves ==
    ASSUME TypeOK, ReadNotification, UNCHANGED <<sent, collected>>
    PROVE  UNCHANGED Stream!vars \/ Stream!Lose
<1>0. wire # <<>> /\ wire' = Tail(wire)
  BY DEF ReadNotification
<1>1. /\ Head(wire) \in 1..sent /\ Tail(wire) \in Seq(1..sent) /\ Len(wire) \in Nat \ {0}
      /\ Tail(wire) = SubSeq(wire, 2, Len(wire))
  BY <1>0, QueueTyped, HeadTailProperties, EmptySeq, TailIsSubSeq
<1>2. CASE Len(signals) < BufferSize
  <2>1. signals' = Append(signals, Head(wire))
    BY <1>2 DEF ReadNotification, Handle
  <2>2. signals' = signals \o <<Head(wire)>> /\ <<Head(wire)>> \in Seq(1..sent)
    BY <1>1, <2>1, QueueTyped, AppendIsConcat
  <2>3. <<Head(wire)>> \o Tail(wire) = wire
    <3>1. 1 \in 1..Len(wire) /\ Len(wire) \in 1..Len(wire)
      BY <1>1
    <3>2. SubSeq(wire, 1, Len(wire)) = <<wire[1]>> \o SubSeq(wire, 1 + 1, Len(wire))
      BY <3>1, QueueTyped, SubSeqRecursiveFirst
    <3> QED
      BY <1>1, <3>2, QueueTyped, SubSeqFull
  <2>4. Queue' = Queue
    BY <1>0, <1>1, <2>2, <2>3, QueueTyped, ConcatAssociative, SMTT(30) DEF Queue
  <2> QED
    BY <2>4 DEF Stream!vars, Queue
<1>3. CASE ~(Len(signals) < BufferSize)
  <2>1. signals' = signals
    BY <1>3 DEF ReadNotification, Handle
  <2>2. Queue' = signals \o SubSeq(wire, 2, Len(wire))
    BY <1>0, <1>1, <2>1 DEF Queue
  <2>3. SubSeq(Queue, 1, Len(signals) + 0) = signals
    <3>1. 0 \in 0..Len(wire) /\ SubSeq(wire, 1, 0) = <<>>
      BY <1>1, SubSeqEmpty
    <3>2. SubSeq(Queue, 1, Len(signals) + 0) = signals \o SubSeq(wire, 1, 0)
      BY <3>1, QueueTyped, PrefixOfConcat DEF Queue
    <3> QED
      BY <3>1, <3>2, QueueTyped, ConcatEmptySeq
  <2>4. SubSeq(Queue, Len(signals) + 2, Len(Queue)) = SubSeq(wire, 2, Len(wire))
    <3>1. 2 \in 1..Len(wire) + 1
      BY <1>1
    <3> QED
      BY <3>1, QueueTyped, SuffixOfConcat DEF Queue
  <2> DEFINE k == Len(signals) + 1
  <2>5. k \in 1..Len(Queue) /\ k - 1 = Len(signals) + 0 /\ k + 1 = Len(signals) + 2
    BY <1>1, QueueTyped
  <2>6. Queue' = SubSeq(Queue, 1, k - 1) \o SubSeq(Queue, k + 1, Len(Queue))
    BY <2>2, <2>3, <2>4, <2>5
  <2>7. k <= k
    BY <2>5
  <2> HIDE DEF k
  <2>8. Stream!Lose
    BY <2>5, <2>6, <2>7 DEF Stream!Lose, Queue
  <2> QED
    BY <2>8
<1> QED
  BY <1>2, <1>3

\* Taking a signal takes the head of the queue.
LEMMA TakeMoves ==
    ASSUME TypeOK, signals # <<>>, TakeSignal, UNCHANGED <<sent, wire>>
    PROVE  Stream!Take
<1>1. signals \o wire # <<>> /\ Head(signals \o wire) = Head(signals)
      /\ Tail(signals \o wire) = Tail(signals) \o wire
  BY QueueTyped, HeadTailOfConcat
<1> QED
  BY <1>1 DEF TakeSignal, Stream!Take

\* A commit adds its signals at the end, or nowhere.
LEMMA CommitMoves ==
    ASSUME TypeOK, TestCommits
    PROVE  Stream!Emit
<1>1. sent \in Nat /\ sent' \in Nat /\ sent < sent' /\ UNCHANGED <<signals, collected>>
  BY Committing, ListenerAssumption DEF ListenerAssumption, TestCommits, listenerVars, collectVars, TypeOK
<1>2. Numbers(sent, sent') = Stream!Numbers(sent, sent')
  BY DEF Numbers, Stream!Numbers
<1>3. CASE severed
  BY <1>1, <1>3 DEF TestCommits, Stream!Emit
<1>4. CASE ~severed
  <2>1. wire' = wire \o Numbers(sent, sent')
    BY <1>4 DEF TestCommits
  <2>2. /\ Numbers(sent, sent') \in Seq(1..sent')
        /\ signals \in Seq(1..sent') /\ wire \in Seq(1..sent')
    <3>1. sent <= sent' /\ 1..sent \subseteq 1..sent'
      BY <1>1
    <3> QED
      BY <1>1, <3>1, NumbersTyped, SeqMonotonic DEF TypeOK
  <2>3. (signals \o wire) \o Numbers(sent, sent') = signals \o (wire \o Numbers(sent, sent'))
    BY <2>2, ConcatAssociative
  <2> QED
    BY <1>1, <1>2, <2>1, <2>3 DEF Stream!Emit
<1> QED
  BY <1>3, <1>4

\* A broken connection cuts the end of the queue off.
LEMMA SeverMoves ==
    ASSUME TypeOK, Sever
    PROVE  UNCHANGED Stream!vars \/ Stream!Lose
<1>1. UNCHANGED <<sent, signals, collected>>
  BY DEF Sever, listenerVars, collectVars
<1>2. PICK n \in 0..Len(wire) : wire' = SubSeq(wire, 1, n)
  BY DEF Sever
<1>3. CASE n = Len(wire)
  <2>1. wire' = wire
    BY <1>2, <1>3, QueueTyped, SubSeqFull
  <2> QED
    BY <1>1, <2>1 DEF Stream!vars
<1>4. CASE n # Len(wire)
  <2> DEFINE i == Len(signals) + n + 1
             j == Len(Queue)
  <2>1. i \in 1..Len(Queue) /\ j \in 1..Len(Queue) /\ i <= j /\ i - 1 = Len(signals) + n
    BY <1>2, <1>4, QueueTyped
  <2>2. SubSeq(Queue, 1, i - 1) = signals' \o wire'
    BY <1>1, <1>2, <2>1, QueueTyped, PrefixOfConcat DEF Queue
  <2>3. SubSeq(Queue, j + 1, Len(Queue)) = <<>>
    <3>1. Len(Queue) < Len(Queue) + 1 /\ Len(Queue) \in Int
      BY QueueTyped
    <3> QED
      BY <3>1, SubSeqEmpty
  <2>4. signals' \o wire' \in Seq(1..sent)
    <3>1. \A k \in 1..n : wire[k] \in 1..sent
      BY QueueTyped, ElementOfSeq, SMTT(30)
    <3>2. n \in Int
      BY QueueTyped
    <3>3. wire' \in Seq(1..sent)
      BY <1>2, <3>1, <3>2, SubSeqProperties
    <3> QED
      BY <1>1, <3>3, QueueTyped, ConcatProperties
  <2>5. Queue' = SubSeq(Queue, 1, i - 1) \o SubSeq(Queue, j + 1, Len(Queue))
    BY <2>2, <2>3, <2>4, ConcatEmptySeq DEF Queue
  <2> HIDE DEF i, j
  <2>6. Stream!Lose
    BY <1>1, <2>1, <2>5 DEF Stream!Lose, Queue
  <2> QED
    BY <2>6
<1> QED
  BY <1>3, <1>4

-----------------------------------------------------------------------------
(* Theorems                                                                 *)

\* Whatever receiveLoop, CollectSignals and Close do to each other, the listener hands
\* on a stream: in commit order, nothing twice, nothing invented.
THEOREM Refines == Spec => ImplementsStream
<1>1. Init => Stream!Init
  <2>1. <<>> \o <<>> = <<>>
    BY EmptySeq, ConcatEmptySeq
  <2> QED
    BY <2>1 DEF Init, Stream!Init
<1>2. TypeOK /\ [Next]_vars => [Stream!Next]_(Stream!vars)
  <2> SUFFICES ASSUME TypeOK, [Next]_vars PROVE [Stream!Next]_(Stream!vars)
    OBVIOUS
  <2> USE DEF serverVars, listenerVars, collectVars
  <2>1. CASE UNCHANGED <<sent, wire, signals, collected>>
    BY <2>1 DEF Stream!vars
  <2>2. CASE \/ ContextExpires \/ Tick \/ WaitBegins \/ WaitInterrupted \/ WaitBroken \/ WaitFails
             \/ CloseErrors \/ CloseSignals \/ TestFails \/ CollectBegins
             \/ SignalsEnd \/ ReceiveError \/ StopWaiting
             \/ CloseBegins \/ CloseChoosesPath \/ UnlistenEnds \/ CloseConnection \/ UNCHANGED vars
    BY <2>1, <2>2 DEF ContextExpires, Tick, WaitBegins, WaitInterrupted, WaitBroken, WaitFails,
            CloseErrors, CloseSignals, TestFails, CollectBegins, SignalsEnd, ReceiveError, StopWaiting,
            CloseBegins, CloseChoosesPath, UnlistenEnds, CloseConnection, vars
  <2>3. CASE TestCommits
    BY <2>3, CommitMoves DEF Stream!Next
  <2>4. CASE Sever
    BY <2>4, SeverMoves DEF Stream!Next
  <2>5. CASE WaitReceives
    BY <2>5, ReadMoves DEF WaitReceives, Stream!Next
  <2>6. CASE UnlistenReads
    <3>1. CASE ReadNotification
      BY <2>6, <3>1, ReadMoves DEF UnlistenReads, Stream!Next
    <3>2. CASE UNCHANGED <<wire, signals>>
      BY <2>1, <2>6, <3>2 DEF UnlistenReads
    <3> QED
      BY <2>6, <3>1, <3>2 DEF UnlistenReads
  <2>7. CASE ReceiveSignal
    BY <2>7, TakeMoves DEF ReceiveSignal, Stream!Next
  <2>8. CASE Drain
    <3>1. CASE signals # <<>> /\ TakeSignal
      BY <2>8, <3>1, TakeMoves DEF Drain, Stream!Next
    <3>2. CASE UNCHANGED <<signals, collected>>
      BY <2>1, <2>8, <3>2 DEF Drain
    <3> QED
      BY <2>8, <3>1, <3>2 DEF Drain
  <2> QED
    BY <2>2, <2>3, <2>4, <2>5, <2>6, <2>7, <2>8
       DEF Next, LoopStep, CollectStep, CloseStep, Finished
<1>3. LInv => TypeOK
  BY DEF LInv
<1> QED
  BY <1>1, <1>2, <1>3, Invariance, PTL DEF Spec, ImplementsStream, Stream!Spec

\* A collection never ends on a buffer that holds a signal.
THEOREM NoSignalLeft == Spec => ReturnsDrained
<1>1. [Next]_vars => [caller # "collected" /\ caller' = "collected" => signals = <<>>]_vars
  <2> SUFFICES ASSUME [Next]_vars, caller # "collected", caller' = "collected" PROVE signals = <<>>
    OBVIOUS
  <2> USE DEF serverVars, listenerVars, collectVars
  <2>1. \/ SignalsEnd \/ Drain
        \/ UNCHANGED caller
        \/ caller' # "collected"
    BY DEF Next, LoopStep, CollectStep, CloseStep, Finished, TestCommits, Sever, ContextExpires, Tick,
           WaitBegins, WaitReceives, WaitInterrupted, WaitBroken, WaitFails, CloseErrors, CloseSignals,
           TestFails, CollectBegins, ReceiveSignal, ReceiveError, StopWaiting, CloseBegins,
           CloseChoosesPath, UnlistenReads, UnlistenEnds, CloseConnection, vars
  <2> QED
    BY <2>1 DEF SignalsEnd, Drain
<1> QED
  BY <1>1, PTL DEF Spec, ReturnsDrained
=============================================================================
