----------------------------- MODULE MCExecutor -----------------------------
(* Two tests in two directories, three sources, for TLC. *)
EXTENDS Executor, TLC

CONSTANTS t1, t2, a, b, c

MCTests   == {t1, t2}
MCSources == <<a, c, b>>
MCDir     == (t1 :> "d1") @@ (t2 :> "d2") @@ (a :> "d1") @@ (b :> "d1") @@ (c :> "d2")

=============================================================================
