------------------------------ MODULE Coverage ------------------------------
(***************************************************************************)
(* Coverage data and the operations on it: internal/coverage/model.go and  *)
(* the Collector of internal/coverage/collector.go.                        *)
(*                                                                         *)
(* A position stands for a file with a "start:length" key. A map from      *)
(* files to position hits is a function from the positions it holds to     *)
(* their hit counts. One goroutine of a run collects, a signal at a time,  *)
(* so an operator takes the coverage before to the coverage after; see     *)
(* RunCommand. Percentages are compared exactly, not as float64.           *)
(***************************************************************************)
EXTENDS Integers, Sequences, FiniteSets, SequencesExt

CONSTANTS
    SchemaVersion,   \* the schema this build reads and writes
    BadSignal        \* a payload ParseSignalID rejects

NoHits == [p \in {} |-> 0]

NewCoverage == [version |-> SchemaVersion, positions |-> NoHits, implicit |-> NoHits]

HitsAt(hits, p) == IF p \in DOMAIN hits THEN hits[p] ELSE 0

SetHits(hits, p, n) == [q \in DOMAIN hits \cup {p} |-> IF q = p THEN n ELSE hits[q]]

AddPosition(cov, p, n) == [cov EXCEPT !.positions = SetHits(@, p, n)]

AddImplicitPosition(cov, p, n) == [cov EXCEPT !.implicit = SetHits(@, p, n)]

-----------------------------------------------------------------------------
(* The collector                                                            *)

\* hits with an entry for each position of ps, keeping the counts there are.
Seeded(hits, ps) == [q \in DOMAIN hits \cup ps |-> HitsAt(hits, q)]

\* points: a set of [pos, implicit] records, the Locations of the instrumented sources.
InitializeFromInstrumented(cov, points) ==
    [cov EXCEPT !.implicit  = Seeded(@, {c.pos : c \in {d \in points : d.implicit}}),
                !.positions = Seeded(@, {c.pos : c \in {d \in points : ~d.implicit}})]

\* Mutants of AddSignal: every signal is executable; a hit is recorded, not counted.
AddSignalExecutable(cov, p) == AddPosition(cov, p, HitsAt(cov.positions, p) + 1)

AddSignalOnce(cov, p) ==
    IF p \in DOMAIN cov.implicit THEN AddImplicitPosition(cov, p, 1) ELSE AddPosition(cov, p, 1)

\* A signal counts where its position was seeded; an unseeded one is executable.
AddSignal(cov, p) ==
    IF p \in DOMAIN cov.implicit
    THEN AddImplicitPosition(cov, p, cov.implicit[p] + 1)
    ELSE AddPosition(cov, p, HitsAt(cov.positions, p) + 1)

\* Hits are only counted, so cloning a coverage is copying its value.
Clone(cov) == cov

-----------------------------------------------------------------------------
(* Counting                                                                 *)

Total(hits) == Cardinality(DOMAIN hits)
Covered(hits) == Cardinality({p \in DOMAIN hits : hits[p] > 0})

HasExecutablePositions(cov) == Total(cov.positions) > 0

\* Mutant of BelowThreshold: DDL and DML count.
BelowThresholdWithDDL(cov, percent) ==
    100 * (Covered(cov.positions) + Covered(cov.implicit))
        < percent * (Total(cov.positions) + Total(cov.implicit))

\* TotalPositionCoveragePercent(cov) < percent: executable positions only.
BelowThreshold(cov, percent) ==
    100 * Covered(cov.positions) < percent * Total(cov.positions)

-----------------------------------------------------------------------------
(* Merging                                                                  *)

ValidVersion(cov) == cov.version = SchemaVersion

\* Mutant of MergeInto: the later file wins.
MergeOver(dst, src) ==
    [p \in DOMAIN dst \cup DOMAIN src |-> IF p \in DOMAIN src THEN src[p] ELSE dst[p]]

MergeInto(dst, src) ==
    [p \in DOMAIN dst \cup DOMAIN src |-> HitsAt(dst, p) + HitsAt(src, p)]

MergeTwo(a, b) ==
    [a EXCEPT !.positions = MergeInto(@, b.positions),
              !.implicit  = MergeInto(@, b.implicit)]

=============================================================================
