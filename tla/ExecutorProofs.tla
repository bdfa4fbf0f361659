--------------------------- MODULE ExecutorProofs ---------------------------
(***************************************************************************)
(* Proofs about Executor, for any number of tests, names, sources and      *)
(* setup scripts.                                                          *)
(***************************************************************************)
EXTENDS Executor, SequenceTheorems, TLAPS

-----------------------------------------------------------------------------
(* The inductive invariant                                                  *)

None  == <<>>
One   == <<"destroy">>
Two   == <<"destroy", "closeListener">>
Three == <<"destroy", "closeListener", "release">>

Before   == {"idle", "create", "creating", "connect", "closePool", "drop", "classify", "done"}
Between  == {"setup", "acquireForLoad", "readTest", "acquireForTest"}
Borrowed == {"setupExec", "load"}
InTest   == {"execTest", "collect"}

\* What a test has deferred and how many connections it holds, at each step.
FrameAt(step, calls, conns) ==
    \/ step \in Before   /\ calls = None  /\ conns = 0
    \/ step = "listen"   /\ calls = One   /\ conns = 0
    \/ step \in Between  /\ calls = Two   /\ conns = 0
    \/ step \in Borrowed /\ calls = Two   /\ conns = 1
    \/ step \in InTest   /\ calls = Three /\ conns = 1
    \/ step = "unwind" /\ \/ calls \in {None, One, Two} /\ conns = 0
                          \/ calls = Three /\ conns = 1

FrameOK == \A t \in Tests : FrameAt(pc[t], defers[t], held[t])

\* UsesDatabase, without looking for "destroy" among the deferred calls.
Relies(t) ==
    \/ pc[t] \in {"connect", "closePool", "drop", "listen"} \cup Between \cup Borrowed \cup InTest
    \/ pc[t] = "unwind" /\ defers[t] # None

Owns == \A t \in Tests : Relies(t) => owner[name[t]] = t

\* A database exists because its creator relies on it, or by a fault.
OwnerOK ==
    \A t \in Tests, n \in Names :
        owner[n] = t => n = name[t] /\ (fault[t] \/ Relies(t))

\* The inductive invariant.
IInv == TypeOK /\ FrameOK /\ Owns /\ OwnerOK

-----------------------------------------------------------------------------
(* Facts about the frames                                                   *)

\* The stacks that occur are stacks of deferred calls.
LEMMA StacksTyped == /\ None \in Seq(Deferred) /\ One \in Seq(Deferred)
                     /\ Two \in Seq(Deferred) /\ Three \in Seq(Deferred)
<1> USE DEF None, One, Two, Three, Deferred
<1>1. None \in Seq(Deferred)
  OBVIOUS
<1>2. One \in Seq(Deferred)
  OBVIOUS
<1>3. Two \in Seq(Deferred)
  OBVIOUS
<1>4. Three \in Seq(Deferred)
  OBVIOUS
<1> QED
  BY <1>1, <1>2, <1>3, <1>4

\* Deferring and running the last deferred call move between these stacks.
LEMMA StackSteps ==
    /\ Append(None, "destroy") = One
    /\ Append(One, "closeListener") = Two
    /\ Append(Two, "release") = Three
    /\ Popped(One) = None /\ One[Len(One)] = "destroy"
    /\ Popped(Two) = One /\ Two[Len(Two)] = "closeListener"
    /\ Popped(Three) = Two /\ Three[Len(Three)] = "release"
    /\ None # One /\ None # Two /\ None # Three /\ One # Two /\ One # Three /\ Two # Three
<1>1. Append(None, "destroy") = One
  <2>1. /\ Append(None, "destroy") \in Seq(Deferred)
        /\ Len(Append(None, "destroy")) = 1
        /\ Append(None, "destroy")[1] = "destroy"
    BY StacksTyped, AppendProperties, EmptySeq DEF Deferred, None
  <2>2. \A i \in 1..1 : Append(None, "destroy")[i] = One[i]
    BY <2>1 DEF One
  <2> QED
    BY <2>1, <2>2, StacksTyped, SeqEqual DEF One
<1>2. Append(One, "closeListener") = Two
  <2> DEFINE appended == Append(One, "closeListener")
  <2>1. /\ appended \in Seq(Deferred)
        /\ Len(appended) = 2
        /\ appended[1] = "destroy"
        /\ appended[2] = "closeListener"
    BY StacksTyped, AppendProperties DEF Deferred, One
  <2> HIDE DEF appended
  <2>2. \A i \in 1..Len(appended) : appended[i] = Two[i]
    BY <2>1 DEF Two
  <2> QED
    BY <2>1, <2>2, StacksTyped, SeqEqual DEF Two, appended
<1>3. Append(Two, "release") = Three
  <2> DEFINE appended == Append(Two, "release")
  <2>1. /\ appended \in Seq(Deferred)
        /\ Len(appended) = 3
        /\ appended[1] = "destroy"
        /\ appended[2] = "closeListener"
        /\ appended[3] = "release"
    BY StacksTyped, AppendProperties DEF Deferred, Two
  <2> HIDE DEF appended
  <2>2. \A i \in 1..Len(appended) : appended[i] = Three[i]
    BY <2>1 DEF Three
  <2> QED
    BY <2>1, <2>2, StacksTyped, SeqEqual DEF Three, appended
<1>4. Popped(One) = None /\ One[Len(One)] = "destroy"
  BY SubSeqEmpty DEF Popped, One, None
<1>5. Popped(Two) = One /\ Two[Len(Two)] = "closeListener"
  <2>1. /\ Popped(Two) \in Seq(Deferred)
        /\ Len(Popped(Two)) = 1
        /\ Popped(Two)[1] = "destroy"
    BY SubSeqProperties DEF Popped, Two, Deferred
  <2>2. \A i \in 1..Len(Popped(Two)) : Popped(Two)[i] = One[i]
    BY <2>1 DEF One
  <2> QED
    BY <2>1, <2>2, StacksTyped, SeqEqual DEF One, Two
<1>6. Popped(Three) = Two /\ Three[Len(Three)] = "release"
  <2>1. /\ Popped(Three) \in Seq(Deferred)
        /\ Len(Popped(Three)) = 2
        /\ Popped(Three)[1] = "destroy"
        /\ Popped(Three)[2] = "closeListener"
    BY SubSeqProperties DEF Popped, Three, Deferred
  <2>2. \A i \in 1..Len(Popped(Three)) : Popped(Three)[i] = Two[i]
    BY <2>1 DEF Two
  <2> QED
    BY <2>1, <2>2, StacksTyped, SeqEqual DEF Two, Three
<1>7. None # One /\ None # Two /\ None # Three /\ One # Two /\ One # Three /\ Two # Three
  BY DEF None, One, Two, Three
<1> QED
  BY <1>1, <1>2, <1>3, <1>4, <1>5, <1>6, <1>7

\* Where the frame is as it should be, a test uses its database when Relies says so.
LEMMA UsesIsRelies == FrameOK => \A t \in Tests : UsesDatabase(t) <=> Relies(t)
<1> SUFFICES ASSUME FrameOK, NEW t \in Tests PROVE UsesDatabase(t) <=> Relies(t)
  OBVIOUS
<1> USE DEF UsesDatabase, Relies, Before, Between, Borrowed, InTest
<1>1. CASE defers[t] = None
  <2>1. pc[t] \in Before \cup {"unwind"}
    BY <1>1, StackSteps DEF FrameOK, FrameAt
  <2>2. ~ \E i \in 1..Len(defers[t]) : defers[t][i] = "destroy"
    BY <1>1, EmptySeq DEF None
  <2> QED
    BY <2>1, <2>2, <1>1
<1>2. CASE defers[t] \in {One, Two, Three}
  <2>1. 1 \in 1..Len(defers[t]) /\ defers[t][1] = "destroy"
    BY <1>2 DEF One, Two, Three
  <2>2. defers[t] # None
    BY <1>2, StackSteps
  <2> QED
    BY <2>1, <2>2, <1>2 DEF FrameOK, FrameAt
<1> QED
  BY <1>1, <1>2 DEF FrameOK, FrameAt

-----------------------------------------------------------------------------
(* Steps                                                                    *)

\* A step of a test touches no other test, and leaves its own frame in order.
Moves(t) ==
    /\ name' = name
    /\ pc' = [pc EXCEPT ![t] = pc'[t]]
    /\ defers' = [defers EXCEPT ![t] = defers'[t]]
    /\ held' = [held EXCEPT ![t] = held'[t]]
    /\ fault' = [fault EXCEPT ![t] = fault'[t]]
    /\ pc'[t] \in Steps
    /\ FrameAt(pc'[t], defers'[t], held'[t])

LEMMA StepMoves == ASSUME TypeOK, FrameOK, NEW t \in Tests, Step(t) PROVE Moves(t)
<1> USE DEF Moves, Goto, ReturnError, Defer, Acquire, Release, testVars, Steps,
            Before, Between, Borrowed, InTest
<1>0. /\ FrameAt(pc[t], defers[t], held[t])
      /\ pc \in [Tests -> Steps] /\ fault \in [Tests -> BOOLEAN]
      /\ DOMAIN defers = Tests /\ DOMAIN held = Tests
      /\ defers = [defers EXCEPT ![t] = defers[t]] /\ held = [held EXCEPT ![t] = held[t]]
  BY DEF TypeOK, FrameOK
<1>1. CASE Execute(t)
  BY <1>0, <1>1, StackSteps DEF Execute, FrameAt
<1>2. CASE SendCreate(t)
  BY <1>0, <1>2, StackSteps DEF SendCreate, FrameAt
<1>3. CASE DatabaseCreated(t)
  BY <1>0, <1>3, StackSteps DEF DatabaseCreated, FrameAt
<1>4. CASE CreateFails(t)
  BY <1>0, <1>4, StackSteps DEF CreateFails, FrameAt
<1>5. CASE PoolCreated(t)
  BY <1>0, <1>5, StackSteps DEF PoolCreated, FrameAt
<1>6. CASE PoolFails(t)
  BY <1>0, <1>6, StackSteps DEF PoolFails, FrameAt
<1>7. CASE StartListener(t)
  <2>1. defers[t] = One /\ held[t] = 0
    BY <1>0, <1>7 DEF StartListener, FrameAt
  <2>2. CASE defers' = [defers EXCEPT ![t] = Append(@, "closeListener")]
    <3>1. defers'[t] = Two /\ held'[t] = 0 /\ pc'[t] \in {"setup", "acquireForLoad", "unwind"}
      BY <1>0, <1>7, <2>1, <2>2, StackSteps DEF StartListener
    <3> QED
      BY <1>0, <1>7, <2>2, <3>1 DEF StartListener, FrameAt
  <2>3. CASE UNCHANGED defers
    BY <1>0, <1>7, <2>1, <2>3, StackSteps DEF StartListener, FrameAt
  <2> QED
    BY <1>7, <2>2, <2>3 DEF StartListener
<1>8. CASE AcquireForSetup(t)
  BY <1>0, <1>8, StackSteps DEF AcquireForSetup, FrameAt
<1>9. CASE RunSetupScript(t)
  BY <1>0, <1>9, StackSteps DEF RunSetupScript, FrameAt
<1>10. CASE AcquireForLoad(t)
  BY <1>0, <1>10, StackSteps DEF AcquireForLoad, FrameAt
<1>11. CASE LoadSource(t)
  BY <1>0, <1>11, StackSteps DEF LoadSource, LoadFails, FrameAt
<1>12. CASE AllLoaded(t)
  BY <1>0, <1>12, StackSteps DEF AllLoaded, FrameAt
<1>13. CASE ReadTest(t)
  BY <1>0, <1>13, StackSteps DEF ReadTest, FrameAt
<1>14. CASE AcquireForTest(t)
  <2>1. defers[t] = Two /\ held[t] = 0
    BY <1>0, <1>14 DEF AcquireForTest, FrameAt
  <2>2. CASE defers' = [defers EXCEPT ![t] = Append(@, "release")]
    <3>1. defers'[t] = Three
      BY <1>0, <2>1, <2>2, StackSteps
    <3>2. \/ held' = [held EXCEPT ![t] = @ + 1] /\ pc' = [pc EXCEPT ![t] = "execTest"]
          \/ UNCHANGED defers
      BY <1>14 DEF AcquireForTest
    <3>3. ~ UNCHANGED defers
      BY <2>1, <3>1, StackSteps
    <3>4. /\ held' = [held EXCEPT ![t] = 1] /\ pc' = [pc EXCEPT ![t] = "execTest"]
          /\ held'[t] = 1 /\ pc'[t] = "execTest"
      BY <1>0, <2>1, <3>2, <3>3
    <3> QED
      BY <1>0, <1>14, <2>2, <3>1, <3>4 DEF AcquireForTest, FrameAt
  <2>3. CASE UNCHANGED defers
    BY <1>0, <1>14, <2>1, <2>3, StackSteps DEF AcquireForTest, FrameAt
  <2> QED
    BY <1>14, <2>2, <2>3 DEF AcquireForTest
<1>15. CASE ExecTest(t)
  BY <1>0, <1>15, StackSteps DEF ExecTest, FrameAt
<1>16. CASE CollectSignals(t)
  BY <1>0, <1>16, StackSteps DEF CollectSignals, FrameAt
<1>17. CASE RunDeferred(t)
  <2>1. /\ \/ defers[t] \in {One, Two} /\ held[t] = 0
           \/ defers[t] = Three /\ held[t] = 1
        /\ defers' = [defers EXCEPT ![t] = Popped(@)]
    BY <1>0, <1>17 DEF RunDeferred, FrameAt, None
  <2>2. CASE defers[t] = One
    BY <1>0, <1>17, <2>1, <2>2, StackSteps DEF RunDeferred, FrameAt
  <2>3. CASE defers[t] = Two
    BY <1>0, <1>17, <2>1, <2>3, StackSteps DEF RunDeferred, FrameAt
  <2>4. CASE defers[t] = Three
    BY <1>0, <1>17, <2>1, <2>4, StackSteps DEF RunDeferred, FrameAt
  <2> QED
    BY <2>1, <2>2, <2>3, <2>4
<1>18. CASE ClosePool(t)
  BY <1>0, <1>18, StackSteps DEF ClosePool, FrameAt
<1>19. CASE DropDatabase(t)
  BY <1>0, <1>19, StackSteps DEF DropDatabase, FrameAt
<1>20. CASE DropFails(t)
  BY <1>0, <1>20, StackSteps DEF DropFails, FrameAt
<1>21. CASE WorkflowReturns(t)
  BY <1>0, <1>21, StackSteps DEF WorkflowReturns, FrameAt
<1>22. CASE Classify(t)
  BY <1>0, <1>22, StackSteps DEF Classify, FrameAt
<1> QED
  BY <1>1, <1>2, <1>3, <1>4, <1>5, <1>6, <1>7, <1>8, <1>9, <1>10, <1>11, <1>12, <1>13, <1>14, <1>15, <1>16, <1>17, <1>18, <1>19, <1>20, <1>21, <1>22 DEF Step

\* A step of a test keeps every variable in its type.
LEMMA StepTyped == ASSUME TypeOK, FrameOK, NEW t \in Tests, Step(t) PROVE TypeOK' /\ FrameOK'
<1>0. Moves(t)
  BY StepMoves
<1>1. FrameOK'
  <2> SUFFICES ASSUME NEW u \in Tests PROVE FrameAt(pc'[u], defers'[u], held'[u])
    BY DEF FrameOK
  <2>1. CASE u = t
    BY <1>0, <2>1 DEF Moves
  <2>2. CASE u # t
    BY <1>0, <2>2 DEF Moves, FrameOK, TypeOK
  <2> QED
    BY <2>1, <2>2
<1>2. defers' \in [Tests -> Seq(Deferred)] /\ held' \in [Tests -> Nat]
  <2>1. ASSUME NEW u \in Tests PROVE defers'[u] \in Seq(Deferred) /\ held'[u] \in Nat
    <3>1. defers'[u] \in {None, One, Two, Three} /\ held'[u] \in {0, 1}
      BY <1>1 DEF FrameOK, FrameAt
    <3> QED
      BY <3>1, StacksTyped
  <2>2. /\ defers' = [u \in Tests |-> defers'[u]]
        /\ held' = [u \in Tests |-> held'[u]]
    BY <1>0 DEF Moves, TypeOK
  <2> QED
    BY <2>1, <2>2
<1>3. pc' \in [Tests -> Steps]
  BY <1>0 DEF Moves, TypeOK
<1>4. name' \in [Tests -> Names]
  BY <1>0 DEF Moves, TypeOK
<1>5. /\ owner' \in [Names -> Tests \cup {NoTest}]
      /\ cancelled' \in BOOLEAN
      /\ expired' \in [Tests -> BOOLEAN]
      /\ scripts' \in [Tests -> 0..SetupScripts]
      /\ loaded' \in [Tests -> Nat]
      /\ cause' \in [Tests -> Causes]
      /\ status' \in [Tests -> Statuses]
      /\ fault' \in [Tests -> BOOLEAN]
  <2>0. SetupScripts \in Nat
    BY ExecutorAssumption DEF ExecutorAssumption
  <2>00. Reason(t) \in Causes /\ "error" \in Causes
    BY DEF Reason, Causes
  <2> USE <2>00 DEF TypeOK, Statuses, Goto, ReturnError, testVars
  <2>1. CASE Execute(t)
    BY <2>1 DEF Execute
  <2>2. CASE SendCreate(t)
    BY <2>2 DEF SendCreate
  <2>3. CASE DatabaseCreated(t)
    BY <2>3 DEF DatabaseCreated
  <2>4. CASE CreateFails(t)
    <3>1. owner' \in [Names -> Tests \cup {NoTest}] /\ fault' \in [Tests -> BOOLEAN]
      <4>1. \/ owner' = owner /\ fault' = fault
            \/ owner' = [owner EXCEPT ![name[t]] = t] /\ fault' = [fault EXCEPT ![t] = TRUE]
        BY <2>4 DEF CreateFails
      <4>2. CASE owner' = owner /\ fault' = fault
        BY <4>2
      <4>3. CASE owner' = [owner EXCEPT ![name[t]] = t] /\ fault' = [fault EXCEPT ![t] = TRUE]
        <5>1. owner' \in [Names -> Tests \cup {NoTest}]
          BY <4>3
        <5>2. fault' \in [Tests -> BOOLEAN]
          BY <4>3
        <5> QED
          BY <5>1, <5>2
      <4> QED
        BY <4>1, <4>2, <4>3
    <3>2. cause' \in [Tests -> Causes]
      BY <2>4 DEF CreateFails
    <3> QED
      BY <2>4, <3>1, <3>2 DEF CreateFails
  <2>5. CASE PoolCreated(t)
    BY <2>5 DEF PoolCreated
  <2>6. CASE PoolFails(t)
    BY <2>6 DEF PoolFails
  <2>7. CASE StartListener(t)
    BY <2>7 DEF StartListener
  <2>8. CASE AcquireForSetup(t)
    BY <2>8 DEF AcquireForSetup
  <2>9. CASE RunSetupScript(t)
    <3>1. scripts' \in [Tests -> 0..SetupScripts]
      BY <2>0, <2>9 DEF RunSetupScript
    <3>2. cause' \in [Tests -> Causes]
      BY <2>9 DEF RunSetupScript
    <3> QED
      BY <2>9, <3>1, <3>2 DEF RunSetupScript
  <2>10. CASE AcquireForLoad(t)
    BY <2>10 DEF AcquireForLoad
  <2>11. CASE LoadSource(t)
    <3>1. loaded' \in [Tests -> Nat]
      BY <2>11 DEF LoadSource
    <3>2. cause' \in [Tests -> Causes]
      BY <2>11 DEF LoadSource, LoadFails
    <3> QED
      BY <2>11, <3>1, <3>2 DEF LoadSource
  <2>12. CASE AllLoaded(t)
    BY <2>12 DEF AllLoaded
  <2>13. CASE ReadTest(t)
    BY <2>13, ZenonT(30) DEF ReadTest
  <2>14. CASE AcquireForTest(t)
    BY <2>14 DEF AcquireForTest
  <2>15. CASE ExecTest(t)
    BY <2>15 DEF ExecTest
  <2>16. CASE CollectSignals(t)
    BY <2>16 DEF CollectSignals
  <2>17. CASE RunDeferred(t)
    BY <2>17 DEF RunDeferred
  <2>18. CASE ClosePool(t)
    BY <2>18 DEF ClosePool
  <2>19. CASE DropDatabase(t)
    BY <2>19 DEF DropDatabase, DropReachesServer
  <2>20. CASE DropFails(t)
    BY <2>20 DEF DropFails
  <2>21. CASE WorkflowReturns(t)
    BY <2>21 DEF WorkflowReturns
  <2>22. CASE Classify(t)
    BY <2>22 DEF Classify, Verdict
  <2> QED
    BY <2>1, <2>2, <2>3, <2>4, <2>5, <2>6, <2>7, <2>8, <2>9, <2>10, <2>11, <2>12, <2>13, <2>14, <2>15, <2>16, <2>17, <2>18, <2>19, <2>20, <2>21, <2>22 DEF Step
<1> QED
  BY <1>1, <1>2, <1>3, <1>4, <1>5 DEF TypeOK

-----------------------------------------------------------------------------
(* Databases                                                                *)

\* Who changes the server, and which steps make a test rely on its database or
\* stop relying on it.
LEMMA StepOwnership ==
    ASSUME IInv, NEW t \in Tests, Step(t)
    PROVE  \/ owner' = owner /\ fault'[t] = fault[t] /\ Relies(t)' = Relies(t)
           \/ /\ owner[name[t]] = NoTest
              /\ owner' = [owner EXCEPT ![name[t]] = t]
              /\ ~Relies(t)
              /\ Relies(t)' \/ fault'[t]
           \/ /\ Relies(t) /\ ~Relies(t)'
              /\ owner' = [owner EXCEPT ![name[t]] = NoTest]
           \/ Relies(t) /\ ~Relies(t)' /\ owner' = owner /\ fault'[t]
<1>0. /\ FrameAt(pc[t], defers[t], held[t])
      /\ FrameAt(pc'[t], defers'[t], held'[t])
      /\ pc \in [Tests -> Steps] /\ fault \in [Tests -> BOOLEAN]
  BY StepMoves DEF IInv, FrameOK, Moves, TypeOK
<1> USE <1>0, StackSteps DEF Relies, FrameAt, Goto, ReturnError, testVars, Before, Between, Borrowed, InTest
<1>1. CASE Execute(t)
  BY <1>1 DEF Execute
<1>2. CASE SendCreate(t)
  BY <1>2 DEF SendCreate
<1>3. CASE DatabaseCreated(t)
  BY <1>3 DEF DatabaseCreated
<1>4. CASE CreateFails(t)
  BY <1>4 DEF CreateFails
<1>5. CASE PoolCreated(t)
  BY <1>5 DEF PoolCreated
<1>6. CASE PoolFails(t)
  BY <1>6 DEF PoolFails
<1>7. CASE StartListener(t)
  BY <1>7 DEF StartListener
<1>8. CASE AcquireForSetup(t)
  BY <1>8 DEF AcquireForSetup
<1>9. CASE RunSetupScript(t)
  BY <1>9 DEF RunSetupScript
<1>10. CASE AcquireForLoad(t)
  BY <1>10 DEF AcquireForLoad
<1>11. CASE LoadSource(t)
  BY <1>11 DEF LoadSource, LoadFails
<1>12. CASE AllLoaded(t)
  BY <1>12 DEF AllLoaded
<1>13. CASE ReadTest(t)
  BY <1>13 DEF ReadTest
<1>14. CASE AcquireForTest(t)
  BY <1>14 DEF AcquireForTest
<1>15. CASE ExecTest(t)
  BY <1>15 DEF ExecTest
<1>16. CASE CollectSignals(t)
  BY <1>16 DEF CollectSignals
<1>17. CASE RunDeferred(t)
  <2>1. /\ pc[t] = "unwind" /\ defers[t] # None
        /\ owner' = owner /\ fault' = fault
    BY <1>17 DEF RunDeferred, None
  <2>2. /\ Relies(t)
        /\ defers' = [defers EXCEPT ![t] = Popped(@)] /\ DOMAIN defers = Tests
    BY <1>17, <2>1 DEF RunDeferred, IInv, TypeOK
  <2>3. CASE defers[t] = One
    BY <1>17, <2>1, <2>2, <2>3 DEF RunDeferred
  <2>4. CASE defers[t] = Two
    BY <1>17, <2>1, <2>2, <2>4 DEF RunDeferred
  <2>5. CASE defers[t] = Three
    BY <1>17, <2>1, <2>2, <2>5 DEF RunDeferred
  <2> QED
    BY <2>1, <2>3, <2>4, <2>5
<1>18. CASE ClosePool(t)
  BY <1>18 DEF ClosePool
<1>19. CASE DropDatabase(t)
  BY <1>19 DEF DropDatabase, DropReachesServer
<1>20. CASE DropFails(t)
  BY <1>20 DEF DropFails
<1>21. CASE WorkflowReturns(t)
  BY <1>21 DEF WorkflowReturns
<1>22. CASE Classify(t)
  BY <1>22 DEF Classify
<1> QED
  BY <1>1, <1>2, <1>3, <1>4, <1>5, <1>6, <1>7, <1>8, <1>9, <1>10, <1>11, <1>12, <1>13, <1>14, <1>15, <1>16, <1>17, <1>18, <1>19, <1>20, <1>21, <1>22 DEF Step

\* A step of one test does not take the database away from another, whatever names
\* the two came up with.
LEMMA StepOwns == ASSUME IInv, NEW t \in Tests, Step(t) PROVE Owns'
<1> SUFFICES ASSUME NEW u \in Tests, Relies(u)' PROVE owner'[name'[u]] = u
  BY DEF Owns
<1>0. /\ NoTest \notin Tests /\ Moves(t)
      /\ owner \in [Names -> Tests \cup {NoTest}] /\ name[u] \in Names /\ name[t] \in Names
      /\ name' = name
  BY ExecutorAssumption, StepMoves DEF ExecutorAssumption, IInv, TypeOK, Moves
<1>1. CASE u = t
  BY <1>0, <1>1, StepOwnership, StepTyped DEF IInv, Owns, OwnerOK, TypeOK, Step, Relies
<1>2. CASE u # t
  <2>1. Relies(u)
    BY <1>0, <1>2 DEF Moves, Relies, IInv, TypeOK
  <2>2. owner[name[u]] = u
    BY <2>1 DEF IInv, Owns
  <2> QED
    BY <1>0, <1>2, <2>2, StepOwnership DEF IInv, Owns
<1> QED
  BY <1>1, <1>2

\* A step of a test leaves a database only where one is relied on, or by a fault.
LEMMA StepOwnerOK == ASSUME IInv, NEW t \in Tests, Step(t) PROVE OwnerOK'
<1> SUFFICES ASSUME NEW u \in Tests, NEW n \in Names, owner'[n] = u
             PROVE  n = name'[u] /\ (fault'[u] \/ Relies(u)')
  BY DEF OwnerOK
<1>0. /\ NoTest \notin Tests /\ Moves(t)
      /\ owner \in [Names -> Tests \cup {NoTest}] /\ name[u] \in Names /\ name[t] \in Names
      /\ name' = name
  BY ExecutorAssumption, StepMoves DEF ExecutorAssumption, IInv, TypeOK, Moves
<1>1. CASE u = t
  BY <1>0, <1>1, StepOwnership DEF IInv, OwnerOK
<1>2. CASE u # t
  <2>1. owner[n] = u
    BY <1>0, <1>2, StepOwnership
  <2>2. Relies(u)' = Relies(u) /\ fault'[u] = fault[u]
    BY <1>0, <1>2 DEF Moves, Relies, IInv, TypeOK
  <2> QED
    BY <1>0, <2>1, <2>2 DEF IInv, OwnerOK
<1> QED
  BY <1>1, <1>2

\* The invariant holds initially.
LEMMA InitIInv == Init => IInv
<1> SUFFICES ASSUME Init PROVE IInv
  OBVIOUS
<1>1. TypeOK
  <2>1. SetupScripts \in Nat
    BY ExecutorAssumption DEF ExecutorAssumption
  <2>2. defers \in [Tests -> Seq(Deferred)]
    BY StacksTyped DEF Init, None
  <2>3. owner \in [Names -> Tests \cup {NoTest}]
    BY DEF Init
  <2>4. pc \in [Tests -> Steps]
    BY DEF Init, Steps
  <2>5. scripts \in [Tests -> 0..SetupScripts] /\ loaded \in [Tests -> Nat] /\ held \in [Tests -> Nat]
    BY <2>1 DEF Init
  <2>6. cause \in [Tests -> Causes] /\ status \in [Tests -> Statuses]
    BY DEF Init, Causes, Statuses
  <2> QED
    BY <2>2, <2>3, <2>4, <2>5, <2>6 DEF Init, TypeOK
<1>2. FrameOK
  BY DEF Init, FrameOK, FrameAt, Before, None
<1>3. \A t \in Tests : ~Relies(t)
  BY DEF Init, Relies, Between, Borrowed, InTest
<1>4. Owns /\ OwnerOK
  BY <1>3, ExecutorAssumption DEF ExecutorAssumption, Init, Owns, OwnerOK
<1> QED
  BY <1>1, <1>2, <1>4 DEF IInv

\* Every step keeps it.
LEMMA NextIInv == IInv /\ [Next]_vars => IInv'
<1> SUFFICES ASSUME IInv, [Next]_vars PROVE IInv'
  OBVIOUS
<1>1. ASSUME NEW t \in Tests, Step(t) PROVE IInv'
  BY <1>1, StepTyped, StepOwns, StepOwnerOK DEF IInv
<1>2. CASE /\ UNCHANGED <<owner, pc, name, defers, held, fault>>
           /\ TypeOK'
  BY <1>2 DEF IInv, FrameOK, Owns, OwnerOK, Relies
<1>3. ASSUME NEW t \in Tests, DeadlinePasses(t) PROVE IInv'
  BY <1>2, <1>3 DEF DeadlinePasses, IInv, TypeOK
<1>4. CASE ContextCancelled
  BY <1>2, <1>4 DEF ContextCancelled, IInv, TypeOK, testVars
<1>5. CASE UNCHANGED vars
  BY <1>2, <1>5 DEF IInv, TypeOK, vars, testVars
<1> QED
  BY <1>1, <1>3, <1>4, <1>5 DEF Next, Finished

LEMMA Invariance == Spec => []IInv
  BY InitIInv, NextIInv, PTL DEF Spec

-----------------------------------------------------------------------------
(* Verdicts                                                                 *)

AfterSetup == {"acquireForLoad", "load", "readTest", "acquireForTest", "execTest", "collect",
               "unwind", "closePool", "drop", "classify", "done"}
AfterLoad  == AfterSetup \ {"acquireForLoad", "load"}
Ending     == {"unwind", "closePool", "drop", "classify", "done"}

\* What lies behind a test that has met no error, and what its errors and its
\* verdict stand for.
StoryOf(t) ==
    /\ pc[t] \notin Ending => cause[t] = "none"
    /\ cause[t] = "none" /\ pc[t] \in AfterSetup => scripts[t] = SetupScripts
    /\ cause[t] = "none" /\ pc[t] \in AfterLoad => loaded[t] = Len(SourcesFor(t))
    /\ cause[t] = "deadline" => expired[t]
    /\ pc[t] # "done" => status[t] \in {"pending", "running"}
    /\ pc[t] = "done" => /\ status[t] = "passed" <=> cause[t] = "none"
                         /\ cause[t] = "deadline" => status[t] = "timeout" \/ cancelled

Story == \A t \in Tests : StoryOf(t)

\* A step of a test continues its own story.
LEMMA StepStoryOf == ASSUME TypeOK, NEW t \in Tests, Step(t), StoryOf(t) PROVE StoryOf(t)'
<1>0. /\ SetupScripts \in Nat
      /\ pc \in [Tests -> Steps] /\ cause \in [Tests -> Causes] /\ status \in [Tests -> Statuses]
      /\ expired \in [Tests -> BOOLEAN] /\ cancelled \in BOOLEAN
      /\ scripts \in [Tests -> 0..SetupScripts] /\ loaded \in [Tests -> Nat]
      /\ Reason(t) # "none" /\ (Reason(t) = "deadline" => expired[t])
  BY ExecutorAssumption DEF ExecutorAssumption, TypeOK, Reason, CtxDone
<1>00. SourcesFor(t)' = SourcesFor(t)
  OBVIOUS
<1> USE <1>0, <1>00 DEF StoryOf, Goto, ReturnError, testVars, AfterSetup, AfterLoad, Ending
<1>1. CASE Execute(t)
  BY <1>1 DEF Execute
<1>2. CASE SendCreate(t)
  BY <1>2 DEF SendCreate
<1>3. CASE DatabaseCreated(t)
  BY <1>3 DEF DatabaseCreated
<1>4. CASE CreateFails(t)
  BY <1>4 DEF CreateFails
<1>5. CASE PoolCreated(t)
  BY <1>5 DEF PoolCreated
<1>6. CASE PoolFails(t)
  BY <1>6 DEF PoolFails
<1>7. CASE StartListener(t)
  BY <1>7 DEF StartListener
<1>8. CASE AcquireForSetup(t)
  BY <1>8 DEF AcquireForSetup
<1>9. CASE RunSetupScript(t)
  BY <1>9 DEF RunSetupScript
<1>10. CASE AcquireForLoad(t)
  BY <1>10 DEF AcquireForLoad
<1>11. CASE LoadSource(t)
  BY <1>11 DEF LoadSource, LoadFails
<1>12. CASE AllLoaded(t)
  BY <1>12 DEF AllLoaded
<1>13. CASE ReadTest(t)
  BY <1>13 DEF ReadTest
<1>14. CASE AcquireForTest(t)
  BY <1>14 DEF AcquireForTest
<1>15. CASE ExecTest(t)
  BY <1>15 DEF ExecTest
<1>16. CASE CollectSignals(t)
  BY <1>16 DEF CollectSignals
<1>17. CASE RunDeferred(t)
  BY <1>17 DEF RunDeferred
<1>18. CASE ClosePool(t)
  BY <1>18 DEF ClosePool
<1>19. CASE DropDatabase(t)
  BY <1>19 DEF DropDatabase
<1>20. CASE DropFails(t)
  BY <1>20 DEF DropFails
<1>21. CASE WorkflowReturns(t)
  BY <1>21 DEF WorkflowReturns
<1>22. CASE Classify(t)
  BY <1>22 DEF Classify, Verdict
<1> QED
  BY <1>1, <1>2, <1>3, <1>4, <1>5, <1>6, <1>7, <1>8, <1>9, <1>10, <1>11, <1>12, <1>13, <1>14, <1>15, <1>16, <1>17, <1>18, <1>19, <1>20, <1>21, <1>22 DEF Step

\* And it leaves the story of the others as it was.
LEMMA StepOthers ==
    ASSUME TypeOK, NEW t \in Tests, NEW u \in Tests, u # t, Step(t)
    PROVE  /\ pc'[u] = pc[u] /\ cause'[u] = cause[u] /\ scripts'[u] = scripts[u]
           /\ loaded'[u] = loaded[u] /\ status'[u] = status[u] /\ expired' = expired
           /\ cancelled' = cancelled
<1> USE DEF TypeOK, Goto, ReturnError, testVars
<1>1. CASE Execute(t)
  BY <1>1 DEF Execute
<1>2. CASE SendCreate(t)
  BY <1>2 DEF SendCreate
<1>3. CASE DatabaseCreated(t)
  BY <1>3 DEF DatabaseCreated
<1>4. CASE CreateFails(t)
  BY <1>4 DEF CreateFails
<1>5. CASE PoolCreated(t)
  BY <1>5 DEF PoolCreated
<1>6. CASE PoolFails(t)
  BY <1>6 DEF PoolFails
<1>7. CASE StartListener(t)
  BY <1>7 DEF StartListener
<1>8. CASE AcquireForSetup(t)
  BY <1>8 DEF AcquireForSetup
<1>9. CASE RunSetupScript(t)
  BY <1>9 DEF RunSetupScript
<1>10. CASE AcquireForLoad(t)
  BY <1>10 DEF AcquireForLoad
<1>11. CASE LoadSource(t)
  BY <1>11 DEF LoadSource, LoadFails
<1>12. CASE AllLoaded(t)
  BY <1>12 DEF AllLoaded
<1>13. CASE ReadTest(t)
  BY <1>13 DEF ReadTest
<1>14. CASE AcquireForTest(t)
  BY <1>14 DEF AcquireForTest
<1>15. CASE ExecTest(t)
  BY <1>15 DEF ExecTest
<1>16. CASE CollectSignals(t)
  BY <1>16 DEF CollectSignals
<1>17. CASE RunDeferred(t)
  BY <1>17 DEF RunDeferred
<1>18. CASE ClosePool(t)
  BY <1>18 DEF ClosePool
<1>19. CASE DropDatabase(t)
  BY <1>19 DEF DropDatabase
<1>20. CASE DropFails(t)
  BY <1>20 DEF DropFails
<1>21. CASE WorkflowReturns(t)
  BY <1>21 DEF WorkflowReturns
<1>22. CASE Classify(t)
  BY <1>22 DEF Classify
<1> QED
  BY <1>1, <1>2, <1>3, <1>4, <1>5, <1>6, <1>7, <1>8, <1>9, <1>10, <1>11, <1>12, <1>13, <1>14, <1>15, <1>16, <1>17, <1>18, <1>19, <1>20, <1>21, <1>22 DEF Step

LEMMA NextStory == TypeOK /\ Story /\ [Next]_vars => Story'
<1> SUFFICES ASSUME TypeOK, Story, [Next]_vars, NEW u \in Tests PROVE StoryOf(u)'
  BY DEF Story
<1>0. StoryOf(u) /\ SourcesFor(u)' = SourcesFor(u)
  BY DEF Story
<1>1. ASSUME NEW t \in Tests, Step(t) PROVE StoryOf(u)'
  <2>1. CASE u = t
    BY <1>0, <1>1, <2>1, StepStoryOf
  <2>2. CASE u # t
    BY <1>0, <1>1, <2>2, StepOthers DEF StoryOf
  <2> QED
    BY <2>1, <2>2
<1>2. ASSUME NEW t \in Tests, DeadlinePasses(t) PROVE StoryOf(u)'
  BY <1>0, <1>2 DEF DeadlinePasses, StoryOf
<1>3. CASE ContextCancelled
  BY <1>0, <1>3 DEF ContextCancelled, StoryOf, testVars
<1>4. CASE UNCHANGED vars
  BY <1>0, <1>4 DEF vars, testVars, StoryOf
<1> QED
  BY <1>1, <1>2, <1>3, <1>4 DEF Next, Finished

LEMMA StoryInvariance == Spec => []Story
<1>1. Init => Story
  BY DEF Init, Story, StoryOf, AfterSetup, AfterLoad, Ending
<1>2. IInv => TypeOK
  BY DEF IInv
<1> QED
  BY <1>1, <1>2, NextStory, Invariance, PTL DEF Spec

-----------------------------------------------------------------------------
(* Theorems                                                                 *)

\* Every reachable state is well typed; in particular no test releases a connection
\* it does not hold.
THEOREM TypeCorrect == Spec => []TypeOK
  BY Invariance, PTL DEF IInv

\* Isolation: whatever names the tests come up with, and however the steps of any
\* number of them interleave, the database a test relies on exists and is its own.
THEOREM Isolation == Spec => []OwnsItsDatabase
<1>1. IInv => OwnsItsDatabase
  BY UsesIsRelies DEF IInv, Owns, OwnsItsDatabase
<1> QED
  BY Invariance, <1>1, PTL

\* Closing the pool never waits for a connection the test itself still holds.
THEOREM PoolIdle == Spec => []PoolIdleWhenClosed
<1>1. IInv => PoolIdleWhenClosed
  BY DEF IInv, FrameOK, FrameAt, PoolIdleWhenClosed, Between, Borrowed, InTest
<1> QED
  BY Invariance, <1>1, PTL

\* A finished test leaves no database behind, but for the faults.
THEOREM CleanUp == Spec => []CleansUpUnlessFault
<1>1. IInv => CleansUpUnlessFault
  BY DEF IInv, OwnerOK, Relies, CleansUpUnlessFault, Between, Borrowed, InTest
<1> QED
  BY Invariance, <1>1, PTL

\* A test passes exactly when its workflow met no error, and one its own deadline
\* cut short is a timeout unless the run was cancelled.
THEOREM Verdicts == Spec => []VerdictSound
<1>1. Story => VerdictSound
  BY DEF Story, StoryOf, VerdictSound
<1> QED
  BY StoryInvariance, <1>1, PTL

\* A passed test ran against every setup script and every source it should have.
THEOREM FullEnvironment == Spec => []PassedRanEverything
<1>1. Story => PassedRanEverything
  BY DEF Story, StoryOf, PassedRanEverything, AfterSetup, AfterLoad
<1> QED
  BY StoryInvariance, <1>1, PTL
=============================================================================
