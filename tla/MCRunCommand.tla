---------------------------- MODULE MCRunCommand ----------------------------
(* Two shards that share a source, for TLC: e1 is executed by tests of both. *)
EXTENDS RunCommand

CONSTANTS s1, s2, e1, e2, i1, i2, old

Exec(p) == [pos |-> p, implicit |-> FALSE]
Impl(p) == [pos |-> p, implicit |-> TRUE]

MCPoints == [s \in Shards |->
    IF s = s1 THEN {Exec(e1), Exec(e2), Impl(i1)} ELSE {Exec(e1), Impl(i1), Impl(i2)}]

MCMaxTests == [s \in Shards |-> IF s = s1 THEN 2 ELSE 1]

MCSignalSeqs == [s \in Shards |->
    IF s = s1 THEN {<<i1>>, <<i1, e1, e1>>, <<i1, BadSignal, e2>>}
    ELSE {<<i1, i2>>, <<i1, i2, e1>>}]

=============================================================================
