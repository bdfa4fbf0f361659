---------------------------- MODULE SignalStream ----------------------------
(***************************************************************************)
(* What a listener promises about coverage signals, and nothing about how  *)
(* it does so: the signals a test commits are numbered 1, 2, ... in commit *)
(* order; each is taken at most once and in that order; any of them may be *)
(* lost on the way, none may be invented, repeated or overtaken.           *)
(* Listener implements this specification.                                 *)
(***************************************************************************)
EXTENDS Naturals, Sequences

VARIABLES
    sent,      \* how many signals have been committed
    pending,   \* signals on their way, oldest first
    taken      \* signals handed to the coverage collector, oldest first

vars == <<sent, pending, taken>>

\* The numbers m+1 .. n as a sequence.
Numbers(m, n) == [i \in 1..(n - m) |-> m + i]

Init ==
    /\ sent = 0
    /\ pending = <<>>
    /\ taken = <<>>

\* A transaction that raised at least one signal commits. If nobody can hear it
\* any more, its signals are never pending.
Emit ==
    /\ sent' \in Nat
    /\ sent' > sent
    /\ pending' \in {pending, pending \o Numbers(sent, sent')}
    /\ UNCHANGED taken

Take ==
    /\ pending # <<>>
    /\ taken' = Append(taken, Head(pending))
    /\ pending' = Tail(pending)
    /\ UNCHANGED sent

\* A run of consecutive pending signals disappears.
Lose ==
    /\ \E i, j \in 1..Len(pending) :
          /\ i <= j
          /\ pending' = SubSeq(pending, 1, i - 1) \o SubSeq(pending, j + 1, Len(pending))
    /\ UNCHANGED <<sent, taken>>

Next == Emit \/ Take \/ Lose

Spec == Init /\ [][Next]_vars

=============================================================================
