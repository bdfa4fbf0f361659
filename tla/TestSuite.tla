----------------------------- MODULE TestSuite ------------------------------
(***************************************************************************)
(* What running a suite of tests promises, however many workers do it:     *)
(* each test gets one verdict, which stands; and the run returns only when *)
(* every test has one - or the caller has cancelled it.                    *)
(* WorkerPool implements this specification.                               *)
(***************************************************************************)
EXTENDS Naturals

CONSTANT Outcomes     \* the verdicts a test can get

VARIABLES
    numTests,
    verdict,          \* verdict[i]: that of test i, or "none"
    cancelled,
    returned

vars == <<numTests, verdict, cancelled, returned>>

Init ==
    /\ numTests \in Nat
    /\ verdict = [i \in 1..numTests |-> "none"]
    /\ cancelled \in BOOLEAN
    /\ returned = FALSE

Cancel ==
    /\ cancelled' = TRUE
    /\ UNCHANGED <<numTests, verdict, returned>>

Conclude(i) ==
    /\ ~returned
    /\ verdict[i] = "none"
    /\ \E o \in Outcomes : verdict' = [verdict EXCEPT ![i] = o]
    /\ UNCHANGED <<numTests, cancelled, returned>>

Return ==
    /\ ~returned
    /\ (\A i \in 1..numTests : verdict[i] # "none") \/ cancelled
    /\ returned' = TRUE
    /\ UNCHANGED <<numTests, verdict, cancelled>>

\* The last verdict and the return in one step, as a loop that stops on it makes them.
ConcludeAndReturn(i) ==
    /\ ~returned
    /\ verdict[i] = "none"
    /\ \E o \in Outcomes : verdict' = [verdict EXCEPT ![i] = o]
    /\ (\A j \in 1..numTests : verdict'[j] # "none") \/ cancelled
    /\ returned' = TRUE
    /\ UNCHANGED <<numTests, cancelled>>

Next ==
    \/ Cancel \/ Return
    \/ \E i \in 1..numTests : Conclude(i) \/ ConcludeAndReturn(i)

Spec == Init /\ [][Next]_vars

=============================================================================
