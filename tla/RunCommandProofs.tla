-------------------------- MODULE RunCommandProofs --------------------------
(***************************************************************************)
(* Proofs about RunCommand, for any number of shards, tests, points and    *)
(* signals: what a run saves is what its tests signalled, a merge is a run *)
(* of the whole suite, and exit code 0 is earned.                          *)
(***************************************************************************)
EXTENDS RunCommand, FiniteSetTheorems, SequenceTheorems, TLAPS

-----------------------------------------------------------------------------
(* Records, with the test runs as a parameter                               *)

TestRun(s) == [status : Statuses, sigs : SignalSeqs[s]]

IsCoverage(c) == c = [version |-> c.version, positions |-> c.positions, implicit |-> c.implicit]

PosOf(shards, implicit) ==
    {q.pos : q \in {r \in UNION {Points[s] : s \in shards} : r.implicit = implicit}}

SignalsIn(runs, shards, x) ==
    UNION {UNION {{<<s, i, j>> : j \in {k \in DOMAIN runs[s][i].sigs : runs[s][i].sigs[k] = x}} :
                  i \in DOMAIN runs[s]} : s \in shards}

Exact(runs, c, shards) ==
    /\ c.positions = [x \in PosOf(shards, FALSE) |-> Cardinality(SignalsIn(runs, shards, x))]
    /\ c.implicit  = [x \in PosOf(shards, TRUE) |-> Cardinality(SignalsIn(runs, shards, x))]

\* Before signal j of test n.
SoFar(runs, s, n, j, x) ==
    {o \in SignalsIn(runs, {s}, x) : o[2] < n \/ (o[2] = n /\ o[3] < j)}

CountedTo(runs, c, s, n, j) ==
    c = [version |-> SchemaVersion,
         positions |-> [x \in PosOf({s}, FALSE) |-> Cardinality(SoFar(runs, s, n, j, x))],
         implicit  |-> [x \in PosOf({s}, TRUE) |-> Cardinality(SoFar(runs, s, n, j, x))]]

\* The domains of a coverage of these shards.
Within(c, shards) ==
    DOMAIN c.positions \subseteq PosOf(shards, FALSE) /\ DOMAIN c.implicit \subseteq PosOf(shards, TRUE)

HitBy(runs, s) == {x \in PosOf({s}, FALSE) : Cardinality(SignalsIn(runs, {s}, x)) > 0}

Earned(runs, s) ==
    /\ \A i \in DOMAIN runs[s] : runs[s][i].status = "passed"
    /\ FailUnder > 0 =>
          /\ PosOf({s}, FALSE) # {}
          /\ 100 * Cardinality(HitBy(runs, s)) >= FailUnder * Cardinality(PosOf({s}, FALSE))

LEMMA InSignals ==
    ASSUME NEW runs, NEW L, NEW x, NEW o
    PROVE  o \in SignalsIn(runs, L, x) <=>
              \E s \in L : \E i \in DOMAIN runs[s] : \E j \in DOMAIN runs[s][i].sigs :
                 o = <<s, i, j>> /\ runs[s][i].sigs[j] = x
BY DEF SignalsIn

LEMMA ImageFinite ==
    ASSUME NEW S, IsFiniteSet(S), NEW f
    PROVE  IsFiniteSet({f[a] : a \in S})
<1> DEFINE T == {f[a] : a \in S}
           g == [a \in S |-> f[a]]
<1>1. g \in Surjection(S, T)  BY DEF Surjection
<1> QED  BY <1>1, FS_Surjection

LEMMA SignalsFinite ==
    ASSUME NEW L \in SUBSET Shards, IsFiniteSet(L), NEW runs, NEW x,
           \A s \in L : runs[s] \in Seq(TestRun(s))
    PROVE  IsFiniteSet(SignalsIn(runs, L, x))
<1> DEFINE At(s, i) == {k \in DOMAIN runs[s][i].sigs : runs[s][i].sigs[k] = x}
           Triples(s, i) == {<<s, i, j>> : j \in At(s, i)}
           OfShard(s) == UNION {Triples(s, i) : i \in DOMAIN runs[s]}
<1>1. ASSUME NEW s \in L, NEW i \in DOMAIN runs[s]
      PROVE  IsFiniteSet(Triples(s, i))
  <2>1. runs[s] \in Seq(TestRun(s)) /\ runs[s][i] \in TestRun(s)  OBVIOUS
  <2>2. runs[s][i].sigs \in Seq({q.pos : q \in Points[s]} \cup {BadSignal})
        BY <2>1, PointsAssumption DEF TestRun
  <2>3. DOMAIN runs[s][i].sigs = 1..Len(runs[s][i].sigs) /\ Len(runs[s][i].sigs) \in Nat  BY <2>2
  <2>a. IsFiniteSet(1..Len(runs[s][i].sigs))  BY <2>3, FS_Interval
  <2>4. IsFiniteSet(At(s, i))
    <3>1. At(s, i) \subseteq 1..Len(runs[s][i].sigs)  BY <2>3
    <3> QED  BY <2>a, <3>1, FS_Subset
  <2> DEFINE f == [j \in At(s, i) |-> <<s, i, j>>]
  <2>5. IsFiniteSet({f[j] : j \in At(s, i)})  BY <2>4, ImageFinite
  <2>6. {f[j] : j \in At(s, i)} = Triples(s, i)  OBVIOUS
  <2> QED  BY <2>5, <2>6
<1>2. ASSUME NEW s \in L
      PROVE  IsFiniteSet(OfShard(s))
  <2>1. DOMAIN runs[s] = 1..Len(runs[s]) /\ Len(runs[s]) \in Nat  OBVIOUS
  <2>2. IsFiniteSet(DOMAIN runs[s])  BY <2>1, FS_Interval
  <2> DEFINE f == [i \in DOMAIN runs[s] |-> Triples(s, i)]
  <2>3. IsFiniteSet({f[i] : i \in DOMAIN runs[s]})  BY <2>2, ImageFinite
  <2>4. {f[i] : i \in DOMAIN runs[s]} = {Triples(s, i) : i \in DOMAIN runs[s]}  OBVIOUS
  <2>5. IsFiniteSet({Triples(s, i) : i \in DOMAIN runs[s]})  BY <2>3, <2>4
  <2>6. \A T \in {Triples(s, i) : i \in DOMAIN runs[s]} : IsFiniteSet(T)  BY <1>1
  <2> QED  BY <2>5, <2>6, FS_UNION
<1> DEFINE f == [s \in L |-> OfShard(s)]
<1>3. IsFiniteSet({f[s] : s \in L})  BY ImageFinite
<1>4. {f[s] : s \in L} = {OfShard(s) : s \in L}  OBVIOUS
<1>5. IsFiniteSet({OfShard(s) : s \in L})  BY <1>3, <1>4
<1>6. \A T \in {OfShard(s) : s \in L} : IsFiniteSet(T)  BY <1>2
<1>7. IsFiniteSet(UNION {OfShard(s) : s \in L})  BY <1>5, <1>6, FS_UNION
<1> QED  BY <1>7 DEF SignalsIn

\* A signal that can be read is of one of the positions.
LEMMA SignalsAtPositions ==
    ASSUME NEW L \in SUBSET Shards, NEW runs, NEW x,
           \A s \in L : runs[s] \in Seq(TestRun(s)),
           x # BadSignal, SignalsIn(runs, L, x) # {}
    PROVE  x \in PosOf(L, FALSE) \cup PosOf(L, TRUE)
<1>1. PICK s \in L : \E i \in DOMAIN runs[s] : \E j \in DOMAIN runs[s][i].sigs : runs[s][i].sigs[j] = x
      BY InSignals
<1> PICK i \in DOMAIN runs[s] : \E j \in DOMAIN runs[s][i].sigs : runs[s][i].sigs[j] = x
      BY <1>1
<1> PICK j \in DOMAIN runs[s][i].sigs : runs[s][i].sigs[j] = x
      OBVIOUS
<1>2. runs[s][i] \in TestRun(s)  BY <1>1
<1>3. runs[s][i].sigs \in Seq({q.pos : q \in Points[s]} \cup {BadSignal})
      BY <1>2, PointsAssumption DEF TestRun
<1>4. x \in {q.pos : q \in Points[s]}  BY <1>1, <1>3
<1>5. PICK q \in Points[s] : x = q.pos  BY <1>4
<1>6. q.implicit \in BOOLEAN  BY PointsAssumption
<1> QED  BY <1>5, <1>6 DEF PosOf

LEMMA PositionsDisjoint ==
    ASSUME NEW L \in SUBSET Shards
    PROVE  PosOf(L, FALSE) \cap PosOf(L, TRUE) = {}
BY PointsAssumption DEF PosOf

LEMMA PositionsUnion ==
    ASSUME NEW K, NEW L, NEW b
    PROVE  PosOf(K \cup L, b) = PosOf(K, b) \cup PosOf(L, b)
BY DEF PosOf

LEMMA PositionsOfOne ==
    ASSUME NEW s \in Shards, NEW b
    PROVE  /\ PosOf({s}, b) = {q.pos : q \in {r \in Points[s] : r.implicit = b}}
           /\ IsFiniteSet(PosOf({s}, b))
<1> DEFINE D == {r \in Points[s] : r.implicit = b}
           f == [q \in D |-> q.pos]
<1>1. PosOf({s}, b) = {q.pos : q \in D}  BY DEF PosOf
<1>2. IsFiniteSet(D)  BY PointsAssumption, FS_Subset
<1>3. IsFiniteSet({f[q] : q \in D})  BY <1>2, ImageFinite
<1>4. {f[q] : q \in D} = {q.pos : q \in D}  OBVIOUS
<1> QED  BY <1>1, <1>3, <1>4

\* Only the runs of the shards matter.
LEMMA SameSignals ==
    ASSUME NEW L, NEW runs, NEW later, \A s \in L : later[s] = runs[s]
    PROVE  /\ \A x : SignalsIn(later, L, x) = SignalsIn(runs, L, x)
           /\ \A c : Exact(later, c, L) <=> Exact(runs, c, L)
<1>1. ASSUME NEW x
      PROVE  SignalsIn(later, L, x) = SignalsIn(runs, L, x)
  <2>1. \A o : o \in SignalsIn(later, L, x) <=> o \in SignalsIn(runs, L, x)  BY InSignals
  <2> QED  BY <2>1
<1>2. ASSUME NEW c
      PROVE  Exact(later, c, L) <=> Exact(runs, c, L)
  <2>1. ASSUME NEW b
        PROVE  [x \in PosOf(L, b) |-> Cardinality(SignalsIn(later, L, x))]
                  = [x \in PosOf(L, b) |-> Cardinality(SignalsIn(runs, L, x))]
        BY <1>1
  <2> QED  BY <2>1 DEF Exact
<1> QED  BY <1>1, <1>2

LEMMA SameCounts ==
    ASSUME NEW s, NEW runs, NEW later, later[s] = runs[s]
    PROVE  /\ \A c, n, j : CountedTo(later, c, s, n, j) <=> CountedTo(runs, c, s, n, j)
           /\ Earned(later, s) <=> Earned(runs, s)
<1>1. \A x : SignalsIn(later, {s}, x) = SignalsIn(runs, {s}, x)  BY SameSignals
<1>2. ASSUME NEW c, NEW n, NEW j
      PROVE  CountedTo(later, c, s, n, j) <=> CountedTo(runs, c, s, n, j)
  <2>1. \A x : SoFar(later, s, n, j, x) = SoFar(runs, s, n, j, x)  BY <1>1 DEF SoFar
  <2>2. \A b : [x \in PosOf({s}, b) |-> Cardinality(SoFar(later, s, n, j, x))]
                  = [x \in PosOf({s}, b) |-> Cardinality(SoFar(runs, s, n, j, x))]
        BY <2>1
  <2> QED  BY <2>2 DEF CountedTo
<1>3. HitBy(later, s) = HitBy(runs, s)
  <2>1. \A x : Cardinality(SignalsIn(later, {s}, x)) = Cardinality(SignalsIn(runs, {s}, x))  BY <1>1
  <2>2. \A x : x \in HitBy(later, s) <=> x \in HitBy(runs, s)  BY <2>1 DEF HitBy
  <2> QED  BY <2>2 DEF HitBy
<1>4. Earned(later, s) <=> Earned(runs, s)  BY <1>3 DEF Earned
<1> QED  BY <1>2, <1>4

LEMMA RecordsIsExact ==
    ASSUME NEW c, NEW L
    PROVE  Records(c, L) <=> Exact(testRuns, c, L)
BY DEF Records, Exact, PosOf, SignalsIn, Occurrences, Signals

-----------------------------------------------------------------------------
(* Collecting                                                               *)

LEMMA InSoFar ==
    ASSUME NEW runs, NEW s, NEW n, NEW j, NEW x, NEW o
    PROVE  o \in SoFar(runs, s, n, j, x) <=>
              \E i \in DOMAIN runs[s] : \E k \in DOMAIN runs[s][i].sigs :
                 /\ o = <<s, i, k>> /\ runs[s][i].sigs[k] = x
                 /\ i < n \/ (i = n /\ k < j)
<1>1. o \in SignalsIn(runs, {s}, x) <=>
         \E i \in DOMAIN runs[s] : \E k \in DOMAIN runs[s][i].sigs :
            o = <<s, i, k>> /\ runs[s][i].sigs[k] = x
      BY InSignals
<1> QED  BY <1>1 DEF SoFar

LEMMA SoFarNone ==
    ASSUME NEW runs, NEW s \in Shards, NEW x, runs[s] \in Seq(TestRun(s))
    PROVE  SoFar(runs, s, 1, 1, x) = {}
<1>1. \A i \in DOMAIN runs[s] : i \in Nat /\ i >= 1  OBVIOUS
<1>2. \A i \in DOMAIN runs[s] : \A k \in DOMAIN runs[s][i].sigs : k \in Nat /\ k >= 1
  <2> TAKE i \in DOMAIN runs[s]
  <2>1. runs[s][i] \in TestRun(s)  OBVIOUS
  <2>2. runs[s][i].sigs \in Seq({q.pos : q \in Points[s]} \cup {BadSignal})
        BY <2>1, PointsAssumption DEF TestRun
  <2> QED  BY <2>2
<1>3. \A o : ~(o \in SoFar(runs, s, 1, 1, x))
  <2>1. \A i \in DOMAIN runs[s] : ~(i < 1)  BY <1>1
  <2>2. \A i \in DOMAIN runs[s] : \A k \in DOMAIN runs[s][i].sigs : ~(k < 1)  BY <1>2
  <2> QED  BY InSoFar, <2>1, <2>2
<1> QED  BY <1>3

LEMMA CountsAreNat ==
    ASSUME NEW runs, NEW s \in Shards, runs[s] \in Seq(TestRun(s)), NEW n, NEW j, NEW x
    PROVE  IsFiniteSet(SoFar(runs, s, n, j, x)) /\ Cardinality(SoFar(runs, s, n, j, x)) \in Nat
<1>1. IsFiniteSet({s})  BY FS_Singleton
<1>2. IsFiniteSet(SignalsIn(runs, {s}, x))  BY <1>1, SignalsFinite
<1>3. SoFar(runs, s, n, j, x) \subseteq SignalsIn(runs, {s}, x)  BY DEF SoFar
<1>4. IsFiniteSet(SoFar(runs, s, n, j, x))  BY <1>2, <1>3, FS_Subset
<1> QED  BY <1>4, FS_CardinalityType

LEMMA SoFarNext ==
    ASSUME NEW runs, NEW s \in Shards, runs[s] \in Seq(TestRun(s)),
           NEW n \in DOMAIN runs[s], NEW j \in DOMAIN runs[s][n].sigs, NEW x
    PROVE  Cardinality(SoFar(runs, s, n, j + 1, x)) =
              IF runs[s][n].sigs[j] = x THEN Cardinality(SoFar(runs, s, n, j, x)) + 1
                                        ELSE Cardinality(SoFar(runs, s, n, j, x))
<1>1. n \in Nat  OBVIOUS
<1>2. runs[s][n].sigs \in Seq({q.pos : q \in Points[s]} \cup {BadSignal})
  <2>1. runs[s][n] \in TestRun(s)  OBVIOUS
  <2> QED  BY <2>1, PointsAssumption DEF TestRun
<1>3. \A k \in DOMAIN runs[s][n].sigs : k \in Nat  BY <1>2
<1>4. j \in Nat /\ ~(n < n) /\ ~(j < j)  BY <1>1, <1>3
<1>5. \A k \in DOMAIN runs[s][n].sigs : k < j + 1 <=> k < j \/ k = j  BY <1>3, <1>4
<1>6. <<s, n, j>> \notin SoFar(runs, s, n, j, x)  BY InSoFar, <1>4
<1> DEFINE Upto == SoFar(runs, s, n, j, x)
<1>7. ASSUME NEW o
      PROVE  o \in SoFar(runs, s, n, j + 1, x) <=>
                o \in Upto \/ (o = <<s, n, j>> /\ runs[s][n].sigs[j] = x)
  <2>1. o \in SoFar(runs, s, n, j + 1, x) <=>
           \E i \in DOMAIN runs[s] : \E k \in DOMAIN runs[s][i].sigs :
              o = <<s, i, k>> /\ runs[s][i].sigs[k] = x /\ (i < n \/ (i = n /\ k < j + 1))
        BY InSoFar
  <2>2. o \in Upto <=>
           \E i \in DOMAIN runs[s] : \E k \in DOMAIN runs[s][i].sigs :
              o = <<s, i, k>> /\ runs[s][i].sigs[k] = x /\ (i < n \/ (i = n /\ k < j))
        BY InSoFar
  <2> HIDE DEF Upto
  <2>3. \A i \in DOMAIN runs[s] : \A k \in DOMAIN runs[s][i].sigs :
           (i < n \/ (i = n /\ k < j + 1)) <=> (i < n \/ (i = n /\ k < j)) \/ (i = n /\ k = j)
        BY <1>5
  <2> QED  BY <2>1, <2>2, <2>3, Zenon
<1> HIDE DEF Upto
<1>8. CASE runs[s][n].sigs[j] = x
  <2>1. SoFar(runs, s, n, j + 1, x) = Upto \cup {<<s, n, j>>}  BY <1>7, <1>8
  <2>2. IsFiniteSet(Upto)  BY CountsAreNat DEF Upto
  <2>3. <<s, n, j>> \notin Upto  BY <1>6 DEF Upto
  <2>4. Cardinality(Upto \cup {<<s, n, j>>}) = Cardinality(Upto) + 1  BY <2>2, <2>3, FS_AddElement
  <2> QED  BY <2>1, <2>4, <1>8 DEF Upto
<1>9. CASE runs[s][n].sigs[j] # x
  <2>1. SoFar(runs, s, n, j + 1, x) = Upto  BY <1>7, <1>9
  <2> QED  BY <2>1, <1>9 DEF Upto
<1> QED  BY <1>8, <1>9

LEMMA SoFarRun ==
    ASSUME NEW runs, NEW s \in Shards, NEW x, runs[s] \in Seq(TestRun(s)),
           NEW n \in DOMAIN runs[s], NEW j \in Nat, j > Len(runs[s][n].sigs)
    PROVE  SoFar(runs, s, n + 1, 1, x) = SoFar(runs, s, n, j, x)
<1>1. n \in Nat /\ \A i \in DOMAIN runs[s] : i \in Nat  OBVIOUS
<1>2. \A i \in DOMAIN runs[s] : i < n + 1 <=> i < n \/ i = n  BY <1>1
<1>3. \A i \in DOMAIN runs[s] : runs[s][i].sigs \in Seq({q.pos : q \in Points[s]} \cup {BadSignal})
  <2> TAKE i \in DOMAIN runs[s]
  <2>1. runs[s][i] \in TestRun(s)  OBVIOUS
  <2> QED  BY <2>1, PointsAssumption DEF TestRun
<1>4. \A i \in DOMAIN runs[s] : \A k \in DOMAIN runs[s][i].sigs : ~(k < 1)
  <2> TAKE i \in DOMAIN runs[s]
  <2>1. runs[s][i].sigs \in Seq({q.pos : q \in Points[s]} \cup {BadSignal})  BY <1>3
  <2> QED  BY <2>1
<1>5. \A k \in DOMAIN runs[s][n].sigs : k < j
  <2>1. runs[s][n].sigs \in Seq({q.pos : q \in Points[s]} \cup {BadSignal})  BY <1>3
  <2> QED  BY <2>1
<1>6. \A i \in DOMAIN runs[s] : \A k \in DOMAIN runs[s][i].sigs :
         (i < n + 1 \/ (i = n + 1 /\ k < 1)) <=> (i < n \/ (i = n /\ k < j))
      BY <1>2, <1>4, <1>5, Zenon
<1>7. ASSUME NEW o
      PROVE  o \in SoFar(runs, s, n + 1, 1, x) <=> o \in SoFar(runs, s, n, j, x)
  <2>1. o \in SoFar(runs, s, n + 1, 1, x) <=>
           \E i \in DOMAIN runs[s] : \E k \in DOMAIN runs[s][i].sigs :
              o = <<s, i, k>> /\ runs[s][i].sigs[k] = x /\ (i < n + 1 \/ (i = n + 1 /\ k < 1))
        BY InSoFar
  <2>2. o \in SoFar(runs, s, n, j, x) <=>
           \E i \in DOMAIN runs[s] : \E k \in DOMAIN runs[s][i].sigs :
              o = <<s, i, k>> /\ runs[s][i].sigs[k] = x /\ (i < n \/ (i = n /\ k < j))
        BY InSoFar
  <2> QED  BY <2>1, <2>2, <1>6, Zenon
<1> QED  BY <1>7

LEMMA SoFarAll ==
    ASSUME NEW runs, NEW s \in Shards, NEW x, runs[s] \in Seq(TestRun(s)),
           NEW n \in Nat, NEW j, n > Len(runs[s])
    PROVE  SoFar(runs, s, n, j, x) = SignalsIn(runs, {s}, x)
<1>1. \A i \in DOMAIN runs[s] : i < n  OBVIOUS
<1>2. \A o \in SignalsIn(runs, {s}, x) : o[2] \in DOMAIN runs[s]
      BY InSignals
<1> QED  BY <1>1, <1>2 DEF SoFar

LEMMA CountedWithin ==
    ASSUME NEW runs, NEW c, NEW s, NEW n, NEW j, CountedTo(runs, c, s, n, j)
    PROVE  Within(c, {s})
<1>1. DOMAIN c.positions = PosOf({s}, FALSE) /\ DOMAIN c.implicit = PosOf({s}, TRUE)  BY DEF CountedTo
<1> QED  BY <1>1 DEF Within

LEMMA SeedCounts ==
    ASSUME NEW runs, NEW s \in Shards, runs[s] \in Seq(TestRun(s))
    PROVE  CountedTo(runs, InitializeFromInstrumented(NewCoverage, Points[s]), s, 1, 1)
<1> DEFINE c == InitializeFromInstrumented(NewCoverage, Points[s])
<1>1. ASSUME NEW D
      PROVE  Seeded(NoHits, D) = [x \in D |-> 0]
      BY DEF Seeded, NoHits, HitsAt
<1>2. {q.pos : q \in {d \in Points[s] : d.implicit}} = PosOf({s}, TRUE)
      BY PointsAssumption DEF PosOf
<1>3. {q.pos : q \in {d \in Points[s] : ~d.implicit}} = PosOf({s}, FALSE)
      BY PointsAssumption DEF PosOf
<1>4. c = [version |-> SchemaVersion, positions |-> [x \in PosOf({s}, FALSE) |-> 0],
           implicit |-> [x \in PosOf({s}, TRUE) |-> 0]]
  <2>1. NewCoverage.positions = NoHits /\ NewCoverage.implicit = NoHits  BY DEF NewCoverage
  <2>a. c = [NewCoverage EXCEPT !.implicit = Seeded(NoHits, PosOf({s}, TRUE)),
                                !.positions = Seeded(NoHits, PosOf({s}, FALSE))]
        BY <1>2, <1>3, <2>1 DEF InitializeFromInstrumented
  <2>2. c = [version |-> SchemaVersion, positions |-> Seeded(NoHits, PosOf({s}, FALSE)),
             implicit |-> Seeded(NoHits, PosOf({s}, TRUE))]
    <3> HIDE DEF c
    <3> QED  BY <2>a DEF NewCoverage
  <2>3. /\ Seeded(NoHits, PosOf({s}, FALSE)) = [x \in PosOf({s}, FALSE) |-> 0]
        /\ Seeded(NoHits, PosOf({s}, TRUE)) = [x \in PosOf({s}, TRUE) |-> 0]
        BY <1>1
  <2> HIDE DEF c
  <2> QED  BY <2>2, <2>3
<1>5. \A x : Cardinality(SoFar(runs, s, 1, 1, x)) = 0  BY SoFarNone, FS_EmptySet
<1>6. \A b : [x \in PosOf({s}, b) |-> 0]
                = [x \in PosOf({s}, b) |-> Cardinality(SoFar(runs, s, 1, 1, x))]
      BY <1>5
<1> HIDE DEF c
<1>7. CountedTo(runs, c, s, 1, 1)  BY <1>4, <1>6 DEF CountedTo
<1> QED  BY <1>7 DEF c

LEMMA AddCounts ==
    ASSUME NEW runs, NEW s \in Shards, runs[s] \in Seq(TestRun(s)), NEW c,
           NEW n \in DOMAIN runs[s], NEW j \in DOMAIN runs[s][n].sigs,
           CountedTo(runs, c, s, n, j), runs[s][n].sigs[j] # BadSignal
    PROVE  CountedTo(runs, AddSignal(c, runs[s][n].sigs[j]), s, n, j + 1)
<1> DEFINE p == runs[s][n].sigs[j]
           Old(x) == Cardinality(SoFar(runs, s, n, j, x))
           New(x) == Cardinality(SoFar(runs, s, n, j + 1, x))
           Hits(b) == [x \in PosOf({s}, b) |-> Old(x)]
           NewHits(b) == [x \in PosOf({s}, b) |-> New(x)]
<1>1. \A x : x # p => New(x) = Old(x)  BY SoFarNext
<1>2. New(p) = Old(p) + 1               BY SoFarNext
<1>3. c = [version |-> SchemaVersion, positions |-> Hits(FALSE), implicit |-> Hits(TRUE)]
      BY DEF CountedTo
<1>4. p \in PosOf({s}, FALSE) \cup PosOf({s}, TRUE)
  <2>1. <<s, n, j>> \in SignalsIn(runs, {s}, p)  BY InSignals
  <2> QED  BY <2>1, SignalsAtPositions
<1>5. ~(p \in PosOf({s}, FALSE) /\ p \in PosOf({s}, TRUE))  BY PositionsDisjoint
<1>6. ASSUME NEW b, p \in PosOf({s}, b)
      PROVE  /\ Hits(b)[p] = Old(p)
             /\ SetHits(Hits(b), p, Old(p) + 1) = NewHits(b)
  <2>1. SetHits(Hits(b), p, Old(p) + 1)
           = [x \in PosOf({s}, b) \cup {p} |-> IF x = p THEN Old(p) + 1 ELSE Hits(b)[x]]
        BY DEF SetHits
  <2>2. PosOf({s}, b) \cup {p} = PosOf({s}, b)  BY <1>6
  <2>3. \A x \in PosOf({s}, b) : (IF x = p THEN Old(p) + 1 ELSE Hits(b)[x]) = New(x)
        BY <1>1, <1>2
  <2> QED  BY <1>6, <2>1, <2>2, <2>3
<1>7. ASSUME NEW b, p \notin PosOf({s}, b)
      PROVE  NewHits(b) = Hits(b)
  <2>1. \A x \in PosOf({s}, b) : New(x) = Old(x)  BY <1>1, <1>7
  <2> QED  BY <2>1
<1> DEFINE d == AddSignal(c, p)
<1>8. d = [version |-> SchemaVersion, positions |-> NewHits(FALSE), implicit |-> NewHits(TRUE)]
  <2>1. /\ c.positions = Hits(FALSE) /\ c.implicit = Hits(TRUE)
        /\ DOMAIN c.implicit = PosOf({s}, TRUE) /\ DOMAIN c.positions = PosOf({s}, FALSE)
        BY <1>3
  <2>2. CASE p \in PosOf({s}, TRUE)
    <3>1. d = AddImplicitPosition(c, p, Old(p) + 1)  BY <2>1, <2>2, <1>6 DEF AddSignal
    <3>2. NewHits(FALSE) = Hits(FALSE)  BY <1>5, <1>7, <2>2
    <3>3. SetHits(c.implicit, p, Old(p) + 1) = NewHits(TRUE)  BY <2>1, <2>2, <1>6
    <3> HIDE DEF d, Hits, NewHits, Old, p
    <3> QED  BY <1>3, <2>1, <3>1, <3>2, <3>3 DEF AddImplicitPosition
  <2>3. CASE p \notin PosOf({s}, TRUE)
    <3>1. p \in PosOf({s}, FALSE)  BY <1>4, <2>3
    <3>2. d = AddPosition(c, p, Old(p) + 1)  BY <2>1, <2>3, <3>1, <1>6 DEF AddSignal, HitsAt
    <3>3. NewHits(TRUE) = Hits(TRUE)  BY <1>7, <2>3
    <3>4. SetHits(c.positions, p, Old(p) + 1) = NewHits(FALSE)  BY <2>1, <3>1, <1>6
    <3> HIDE DEF d, Hits, NewHits, Old, p
    <3> QED  BY <1>3, <2>1, <3>2, <3>3, <3>4 DEF AddPosition
  <2> QED  BY <2>2, <2>3
<1> QED  BY <1>8 DEF CountedTo

LEMMA NextRunCounts ==
    ASSUME NEW runs, NEW s \in Shards, runs[s] \in Seq(TestRun(s)), NEW c,
           NEW n \in DOMAIN runs[s], NEW j \in Nat, j > Len(runs[s][n].sigs),
           CountedTo(runs, c, s, n, j)
    PROVE  CountedTo(runs, c, s, n + 1, 1)
<1>1. \A x : SoFar(runs, s, n + 1, 1, x) = SoFar(runs, s, n, j, x)  BY SoFarRun
<1>2. \A b : [x \in PosOf({s}, b) |-> Cardinality(SoFar(runs, s, n + 1, 1, x))]
                = [x \in PosOf({s}, b) |-> Cardinality(SoFar(runs, s, n, j, x))]
      BY <1>1
<1> QED  BY <1>2 DEF CountedTo

LEMMA AllCounted ==
    ASSUME NEW runs, NEW s \in Shards, runs[s] \in Seq(TestRun(s)), NEW c,
           NEW n \in Nat, NEW j, n > Len(runs[s]), CountedTo(runs, c, s, n, j)
    PROVE  Exact(runs, c, {s})
<1>1. \A x : SoFar(runs, s, n, j, x) = SignalsIn(runs, {s}, x)  BY SoFarAll
<1>2. \A b : [x \in PosOf({s}, b) |-> Cardinality(SoFar(runs, s, n, j, x))]
                = [x \in PosOf({s}, b) |-> Cardinality(SignalsIn(runs, {s}, x))]
      BY <1>1
<1> QED  BY <1>2 DEF CountedTo, Exact

-----------------------------------------------------------------------------
(* Merging                                                                  *)

\* An exact coverage of some shards, with the exact coverage of one more, is that of all.
LEMMA MergeExact ==
    ASSUME NEW L \in SUBSET Shards, NEW s \in Shards, s \notin L, NEW runs,
           \A t \in L \cup {s} : runs[t] \in Seq(TestRun(t)),
           NEW a, IsCoverage(a), NEW b, Exact(runs, a, L), Exact(runs, b, {s})
    PROVE  Exact(runs, MergeTwo(a, b), L \cup {s})
<1> DEFINE A(x) == SignalsIn(runs, L, x)
           B(x) == SignalsIn(runs, {s}, x)
           C(x) == SignalsIn(runs, L \cup {s}, x)
<1>1. IsFiniteSet(Shards) /\ IsFiniteSet(L) /\ IsFiniteSet({s})
      BY RunCommandAssumption, FS_Subset, FS_Singleton
<1>2. ASSUME NEW x
      PROVE  Cardinality(C(x)) = Cardinality(A(x)) + Cardinality(B(x))
  <2>1. IsFiniteSet(A(x)) /\ IsFiniteSet(B(x))  BY <1>1, SignalsFinite
  <2>2. \A o : o \in C(x) <=> o \in A(x) \/ o \in B(x)  BY InSignals
  <2>3. \A o : ~(o \in A(x) /\ o \in B(x))  BY InSignals
  <2> HIDE DEF A, B, C
  <2>4. C(x) = A(x) \cup B(x) /\ A(x) \cap B(x) = {}  BY <2>2, <2>3
  <2>5. Cardinality(A(x) \cup B(x))
           = Cardinality(A(x)) + Cardinality(B(x)) - Cardinality(A(x) \cap B(x))
        BY <2>1, FS_Union
  <2>6. Cardinality(A(x)) \in Nat /\ Cardinality(B(x)) \in Nat  BY <2>1, FS_CardinalityType
  <2>7. Cardinality(A(x) \cap B(x)) = 0  BY <2>4, FS_EmptySet
  <2>8. Cardinality(C(x)) = Cardinality(A(x)) + Cardinality(B(x)) - 0  BY <2>4, <2>5, <2>7
  <2> QED  BY <2>6, <2>8
<1>3. ASSUME NEW x, NEW K \in SUBSET Shards, \A t \in K : runs[t] \in Seq(TestRun(t)),
             x # BadSignal, x \notin PosOf(K, FALSE) \cup PosOf(K, TRUE)
      PROVE  Cardinality(SignalsIn(runs, K, x)) = 0
      BY <1>3, SignalsAtPositions, FS_EmptySet
<1>4. ASSUME NEW v \in BOOLEAN, NEW x, x \in PosOf(L \cup {s}, v)
      PROVE  /\ x # BadSignal
             /\ x \in PosOf(L, v) \/ Cardinality(A(x)) = 0
             /\ x \in PosOf({s}, v) \/ Cardinality(B(x)) = 0
  <2>1. x # BadSignal  BY <1>4, PointsAssumption DEF PosOf
  <2>a. L \cup {s} \in SUBSET Shards  OBVIOUS
  <2>b. PosOf(L \cup {s}, FALSE) \cap PosOf(L \cup {s}, TRUE) = {}  BY <2>a, PositionsDisjoint
  <2>c. ~(x \in PosOf(L \cup {s}, FALSE) /\ x \in PosOf(L \cup {s}, TRUE))  BY <2>b
  <2>2. \A w \in BOOLEAN : w # v => x \notin PosOf(L \cup {s}, w)
    <3>1. CASE v = TRUE   BY <1>4, <2>c, <3>1
    <3>2. CASE v = FALSE  BY <1>4, <2>c, <3>2
    <3> QED  BY <3>1, <3>2
  <2>3. \A w \in BOOLEAN : w # v => x \notin PosOf(L, w) /\ x \notin PosOf({s}, w)
        BY <2>2, PositionsUnion
  <2> QED  BY <2>1, <2>3, <1>3
<1>5. ASSUME NEW v \in BOOLEAN, NEW f, NEW g,
             f = [x \in PosOf(L, v) |-> Cardinality(A(x))],
             g = [x \in PosOf({s}, v) |-> Cardinality(B(x))]
      PROVE  MergeInto(f, g) = [x \in PosOf(L \cup {s}, v) |-> Cardinality(C(x))]
  <2>1. MergeInto(f, g) = [x \in PosOf(L \cup {s}, v) |-> HitsAt(f, x) + HitsAt(g, x)]
        BY <1>5, PositionsUnion DEF MergeInto
  <2>2. ASSUME NEW x \in PosOf(L \cup {s}, v)
        PROVE  HitsAt(f, x) + HitsAt(g, x) = Cardinality(C(x))
    <3>1. HitsAt(f, x) = Cardinality(A(x))  BY <1>4, <1>5, <2>2 DEF HitsAt
    <3>2. HitsAt(g, x) = Cardinality(B(x))  BY <1>4, <1>5, <2>2 DEF HitsAt
    <3> QED  BY <1>2, <3>1, <3>2
  <2> QED  BY <2>1, <2>2
<1> DEFINE m == MergeTwo(a, b)
<1>6. m.positions = MergeInto(a.positions, b.positions) /\ m.implicit = MergeInto(a.implicit, b.implicit)
      BY DEF MergeTwo, IsCoverage
<1>7. /\ a.positions = [x \in PosOf(L, FALSE) |-> Cardinality(A(x))]
      /\ a.implicit = [x \in PosOf(L, TRUE) |-> Cardinality(A(x))]
      /\ b.positions = [x \in PosOf({s}, FALSE) |-> Cardinality(B(x))]
      /\ b.implicit = [x \in PosOf({s}, TRUE) |-> Cardinality(B(x))]
      BY DEF Exact
<1> HIDE DEF m
<1>8. /\ m.positions = [x \in PosOf(L \cup {s}, FALSE) |-> Cardinality(C(x))]
      /\ m.implicit = [x \in PosOf(L \cup {s}, TRUE) |-> Cardinality(C(x))]
      BY <1>5, <1>6, <1>7
<1> QED  BY <1>8 DEF m, Exact

\* The merge's inputs are the shards, each once.
LEMMA ShardSeqLists ==
    /\ Len(ShardSeq) = Cardinality(Shards) /\ Len(ShardSeq) \in Nat
    /\ ShardSeq \in [1..Len(ShardSeq) -> Shards]
    /\ \A i, j \in 1..Len(ShardSeq) : ShardSeq[i] = ShardSeq[j] => i = j
    /\ {ShardSeq[i] : i \in 1..Len(ShardSeq)} = Shards
<1> DEFINE n == Cardinality(Shards)
<1>1. IsFiniteSet(Shards) /\ n \in Nat /\ ExistsBijection(1..n, Shards)
      BY RunCommandAssumption, FS_CardinalityType
<1>2. \E f \in [1..n -> Shards] : IsInjective(f)
      BY <1>1 DEF ExistsBijection, Bijection, Injection
<1>3. ShardSeq \in [1..n -> Shards] /\ IsInjective(ShardSeq)
      BY <1>2 DEF ShardSeq, SetToSeq
<1>4. Len(ShardSeq) = n
  <2>1. ShardSeq \in Seq(Shards) /\ DOMAIN ShardSeq = 1..n  BY <1>1, <1>3
  <2> QED  BY <1>1, <2>1
<1>5. IsFiniteSet(1..n) /\ Cardinality(1..n) = n  BY <1>1, FS_Interval
<1>6. ShardSeq \in Surjection(1..n, Shards)
  <2>1. ShardSeq \in Injection(1..n, Shards)  BY <1>3 DEF Injection
  <2> QED  BY <2>1, <1>1, <1>5, FS_Injection
<1>7. {ShardSeq[i] : i \in 1..n} = Shards  BY <1>3, <1>6 DEF Surjection
<1>8. \A i, j \in 1..n : ShardSeq[i] = ShardSeq[j] => i = j  BY <1>3 DEF IsInjective
<1> HIDE DEF n
<1> QED  BY <1>1, <1>3, <1>4, <1>7, <1>8 DEF n

-----------------------------------------------------------------------------
(* The verdict                                                              *)

LEMMA VerdictEarned ==
    ASSUME NEW runs, NEW s \in Shards, runs[s] \in Seq(TestRun(s)), NEW c, Exact(runs, c, {s}),
           \A i \in DOMAIN runs[s] : runs[s][i].status = "passed",
           FailUnder > 0 => ThresholdMet(c)
    PROVE  Earned(runs, s)
<1> DEFINE exec == PosOf({s}, FALSE)
           hit  == HitBy(runs, s)
<1> SUFFICES ASSUME FailUnder > 0
             PROVE  exec # {} /\ 100 * Cardinality(hit) >= FailUnder * Cardinality(exec)
    BY DEF Earned
<1>1. DOMAIN c.positions = exec /\ \A x \in exec : c.positions[x] = Cardinality(SignalsIn(runs, {s}, x))
      BY DEF Exact
<1>2. Covered(c.positions) = Cardinality(hit)
  <2>1. {x \in DOMAIN c.positions : c.positions[x] > 0} = hit  BY <1>1 DEF HitBy
  <2> QED  BY <2>1 DEF Covered
<1>3. Total(c.positions) = Cardinality(exec)  BY <1>1 DEF Total
<1>4. Cardinality(exec) > 0 /\ ~(100 * Cardinality(hit) < FailUnder * Cardinality(exec))
      BY <1>2, <1>3 DEF ThresholdMet, HasExecutablePositions, BelowThreshold
<1>5. IsFiniteSet(exec) /\ IsFiniteSet(hit)
  <2>1. IsFiniteSet(exec)  BY PositionsOfOne
  <2>2. hit \subseteq exec   BY DEF HitBy
  <2> QED  BY <2>1, <2>2, FS_Subset
<1>6. Cardinality(exec) \in Nat /\ Cardinality(hit) \in Nat  BY <1>5, FS_CardinalityType
<1>7. exec # {}
  <2>1. ~(0 > 0)  OBVIOUS
  <2> QED  BY <1>4, <2>1, FS_EmptySet
<1>8. ASSUME NEW h \in Nat, NEW e \in Nat, ~(100 * h < FailUnder * e)
      PROVE  100 * h >= FailUnder * e
  <2>1. 100 * h \in Nat /\ FailUnder * e \in Nat  BY RunCommandAssumption
  <2> QED  BY <1>8, <2>1
<1> HIDE DEF exec, hit
<1> QED  BY <1>4, <1>6, <1>7, <1>8

-----------------------------------------------------------------------------
(* The inductive invariant                                                  *)

Whole(f, D) == f = [p \in D |-> f[p]]

TypesOK ==
    /\ \A p \in Processes : IsCoverage(cov[p])
    /\ Whole(files, Processes) /\ Whole(cov, Processes) /\ Whole(next, Processes)
    /\ pc \in [Processes -> {"discover", "prepare", "execute", "seed", "collect", "save", "writing",
                             "summarize", "load", "ended"}]
    /\ exit \in [Processes -> {"running", "zero", "one", "error", "killed"}]
    /\ Whole(testRuns, Shards) /\ Whole(nextSig, Shards)
    /\ \A s \in Shards : testRuns[s] \in Seq(TestRun(s))
    /\ fresh \in BOOLEAN

Starting   == {"discover", "prepare", "execute"}
Collecting == {"seed", "collect", "save"}

\* What a shard has in memory ...
MemoryOK(s) ==
    /\ Within(cov[s], {s})
    /\ pc[s] \in Starting => testRuns[s] = <<>>
    /\ pc[s] \in Collecting \cup {"writing", "summarize"} => testRuns[s] # <<>>
    /\ pc[s] \in Starting \cup {"seed"} => cov[s] = NewCoverage /\ next[s] = 1 /\ nextSig[s] = 1
    /\ pc[s] = "collect" => /\ next[s] \in Nat \ {0} /\ nextSig[s] \in Nat \ {0}
                            /\ CountedTo(testRuns, cov[s], s, next[s], nextSig[s])
    /\ pc[s] \in {"save", "writing", "summarize"} => Exact(testRuns, cov[s], {s})

\* ... and on disk, and how it ended.
DiskOK(s) ==
    /\ pc[s] \in Starting \cup Collecting => files[s] = earlier
    /\ pc[s] = "writing" => files[s] = Torn
    /\ pc[s] = "summarize" => Exact(testRuns, files[s], {s})
    /\ files[s] \in {earlier, Torn} \/ Exact(testRuns, files[s], {s})

ExitOK(s) ==
    /\ pc[s] # "ended" => exit[s] = "running"
    /\ exit[s] \in {"zero", "one"} =>
          IF testRuns[s] = <<>> THEN files[s] = earlier ELSE Exact(testRuns, files[s], {s})
    /\ exit[s] = "zero" /\ testRuns[s] # <<>> => Earned(testRuns, s)

\* The shards whose files the merge has loaded.
Loaded == {ShardSeq[i] : i \in 1..(next[Merger] - 1)}

ShardOK(s) == MemoryOK(s) /\ DiskOK(s) /\ ExitOK(s)

MergeOK ==
    /\ pc[Merger] \in {"load", "save", "writing", "ended"}
    /\ next[Merger] \in 1..(Len(ShardSeq) + 1)
    /\ pc[Merger] \in {"save", "writing"} => next[Merger] = Len(ShardSeq) + 1
    /\ pc[Merger] # "ended" => exit[Merger] = "running"
    /\ fresh => /\ \A s \in Loaded : pc[s] \in {"summarize", "ended"}
                /\ Exact(testRuns, cov[Merger], Loaded)
                /\ files[Merger] \in {earlier, Torn} \/ Exact(testRuns, files[Merger], Shards)
                /\ exit[Merger] = "zero" => Loaded = Shards /\ Exact(testRuns, files[Merger], Shards)
    /\ \/ next[Merger] = Len(ShardSeq) + 1
       \/ files[Merger] = earlier /\ exit[Merger] # "zero"

\* The inductive invariant.
RInv ==
    /\ TypesOK
    /\ \A s \in Shards : ShardOK(s)
    /\ MergeOK

LEMMA InitOK == Init => RInv
<1> SUFFICES ASSUME Init
             PROVE  RInv
    OBVIOUS
<1> USE DEF Init, Processes
<1>1. Merger \notin Shards  BY RunCommandAssumption
<1>2. TypesOK  BY <1>1 DEF TypesOK, Whole, IsCoverage, NewCoverage
<1>3. ASSUME NEW s \in Shards
      PROVE  ShardOK(s)
  <2>1. pc[s] = "discover" /\ exit[s] = "running" /\ files[s] = earlier /\ testRuns[s] = <<>>
        BY <1>1
  <2>2. cov[s] = NewCoverage /\ next[s] = 1 /\ nextSig[s] = 1  OBVIOUS
  <2>3. Within(cov[s], {s})  BY <2>2 DEF Within, NewCoverage, NoHits
  <2> QED  BY <2>1, <2>2, <2>3 DEF ShardOK, MemoryOK, DiskOK, ExitOK, Starting, Collecting
<1>4. MergeOK
  <2>1. /\ pc[Merger] = "load" /\ exit[Merger] = "running" /\ files[Merger] = earlier
        /\ next[Merger] = 1 /\ cov[Merger] = NewCoverage
        OBVIOUS
  <2>2. Loaded = {}
    <3>1. 1..(next[Merger] - 1) = {}  BY <2>1
    <3> QED  BY <3>1 DEF Loaded
  <2>3. Exact(testRuns, cov[Merger], {})  BY <2>1 DEF Exact, PosOf, NewCoverage, NoHits
  <2>4. 1 \in 1..(Len(ShardSeq) + 1)  BY ShardSeqLists
  <2> QED  BY <2>1, <2>2, <2>3, <2>4 DEF MergeOK
<1> QED  BY <1>2, <1>3, <1>4 DEF RInv

\* A shard nothing happens to.
LEMMA ShardFrame ==
    ASSUME NEW s \in Shards, ShardOK(s), earlier' = earlier,
           pc'[s] = pc[s], files'[s] = files[s], cov'[s] = cov[s], next'[s] = next[s],
           exit'[s] = exit[s], testRuns'[s] = testRuns[s], nextSig'[s] = nextSig[s]
    PROVE  ShardOK(s)'
<1>1. \A c : Exact(testRuns', c, {s}) <=> Exact(testRuns, c, {s})  BY SameSignals
<1>2. \A c, n, j : CountedTo(testRuns', c, s, n, j) <=> CountedTo(testRuns, c, s, n, j)
      BY SameCounts
<1>3. MemoryOK(s)'  BY <1>1, <1>2 DEF ShardOK, MemoryOK
<1>4. DiskOK(s)'    BY <1>1 DEF ShardOK, DiskOK
<1>5. Earned(testRuns', s) <=> Earned(testRuns, s)  BY SameCounts
<1>6. ExitOK(s)'    BY <1>1, <1>5 DEF ShardOK, ExitOK
<1> QED  BY <1>3, <1>4, <1>6 DEF ShardOK

\* Only one process moves.
OnlyAt(p) ==
    /\ \A q \in Processes \ {p} : /\ pc'[q] = pc[q] /\ files'[q] = files[q] /\ cov'[q] = cov[q]
                                  /\ next'[q] = next[q] /\ exit'[q] = exit[q]
    /\ \A t \in Shards \ {p} : testRuns'[t] = testRuns[t] /\ nextSig'[t] = nextSig[t]

LEMMA RunOnlyAt ==
    ASSUME TypesOK, NEW s \in Shards, Run(s)
    PROVE  /\ OnlyAt(s)
           /\ fresh' = fresh
           /\ pc[s] \in {"summarize", "ended"} => testRuns' = testRuns /\ pc'[s] = "ended"
<1> USE DEF TypesOK, Whole, OnlyAt, Goto, End, Processes
<1>1. ASSUME Discover(s)       PROVE OnlyAt(s) /\ fresh' = fresh /\ pc[s] = "discover"
      BY <1>1 DEF Discover
<1>2. ASSUME Prepare(s)        PROVE OnlyAt(s) /\ fresh' = fresh /\ pc[s] = "prepare"
      BY <1>2 DEF Prepare
<1>3. ASSUME ExecuteTests(s)   PROVE OnlyAt(s) /\ fresh' = fresh /\ pc[s] = "execute"
      BY <1>3 DEF ExecuteTests
<1>4. ASSUME SeedCoverage(s)   PROVE OnlyAt(s) /\ fresh' = fresh /\ pc[s] = "seed"
      BY <1>4 DEF SeedCoverage
<1>5. ASSUME CollectSignal(s)  PROVE OnlyAt(s) /\ fresh' = fresh /\ pc[s] = "collect"
      BY <1>5 DEF CollectSignal
<1>6. ASSUME CollectNextRun(s) PROVE OnlyAt(s) /\ fresh' = fresh /\ pc[s] = "collect"
      BY <1>6 DEF CollectNextRun
<1>7. ASSUME AllCollected(s)   PROVE OnlyAt(s) /\ fresh' = fresh /\ pc[s] = "collect"
      BY <1>7 DEF AllCollected
<1>8. ASSUME OpenFile(s)       PROVE OnlyAt(s) /\ fresh' = fresh /\ pc[s] = "save"
      BY <1>8 DEF OpenFile
<1>9. ASSUME WriteFile(s)      PROVE OnlyAt(s) /\ fresh' = fresh /\ pc[s] = "writing"
      BY <1>9, RunCommandAssumption DEF WriteFile
<1>10. ASSUME Summarize(s)     PROVE OnlyAt(s) /\ fresh' = fresh /\ testRuns' = testRuns /\ pc'[s] = "ended"
       BY <1>10 DEF Summarize
<1>11. ASSUME Killed(s)        PROVE OnlyAt(s) /\ fresh' = fresh /\ testRuns' = testRuns /\ pc'[s] = "ended"
       BY <1>11 DEF Killed
<1> QED
  <2> HIDE DEF OnlyAt, Goto, End, Whole, TypesOK
  <2> QED  BY <1>1, <1>2, <1>3, <1>4, <1>5, <1>6, <1>7, <1>8, <1>9, <1>10, <1>11 DEF Run

LEMMA CoverageOps ==
    ASSUME NEW c, IsCoverage(c)
    PROVE  /\ \A p : IsCoverage(AddSignal(c, p))
           /\ \A points : IsCoverage(InitializeFromInstrumented(c, points))
           /\ \A b : IsCoverage(MergeTwo(c, b))
<1>a. \A d, v, h, i : d = [version |-> v, positions |-> h, implicit |-> i] => IsCoverage(d)
      BY DEF IsCoverage
<1>b. PICK v, p, i : c = [version |-> v, positions |-> p, implicit |-> i]
      BY DEF IsCoverage
<1>1. \A hits : IsCoverage([c EXCEPT !.positions = hits]) /\ IsCoverage([c EXCEPT !.implicit = hits])
  <2> TAKE hits
  <2>1. [c EXCEPT !.positions = hits] = [version |-> v, positions |-> hits, implicit |-> i]  BY <1>b
  <2>2. [c EXCEPT !.implicit = hits] = [version |-> v, positions |-> p, implicit |-> hits]   BY <1>b
  <2> QED  BY <1>a, <2>1, <2>2
<1>2. ASSUME NEW hits, NEW others, NEW d,
             \/ d = [c EXCEPT !.positions = hits, !.implicit = others]
             \/ d = [c EXCEPT !.implicit = others, !.positions = hits]
      PROVE  IsCoverage(d)
  <2>1. d = [version |-> v, positions |-> hits, implicit |-> others]  BY <1>b, <1>2
  <2> QED  BY <1>a, <2>1
<1>3. \A x : IsCoverage(AddSignal(c, x))
      BY <1>1 DEF AddSignal, AddPosition, AddImplicitPosition
<1>4. \A points : IsCoverage(InitializeFromInstrumented(c, points))
      BY <1>2 DEF InitializeFromInstrumented
<1>5. \A b : IsCoverage(MergeTwo(c, b))  BY <1>2 DEF MergeTwo
<1> QED  BY <1>3, <1>4, <1>5

LEMMA ExecutedRuns ==
    ASSUME NEW s \in Shards, NEW n \in 1..MaxTests[s],
           NEW r \in [1..n -> [status : Statuses, sigs : SignalSeqs[s]]]
    PROVE  r \in Seq(TestRun(s)) /\ r # <<>>
<1>1. n \in Nat /\ n >= 1  BY RunCommandAssumption
<1>a. r \in [1..n -> TestRun(s)]  BY DEF TestRun
<1>b. DOMAIN r = 1..n  OBVIOUS
<1>2. r \in Seq(TestRun(s)) /\ DOMAIN r = 1..n  BY <1>1, <1>a, <1>b
<1>3. 1 \in DOMAIN r  BY <1>1, <1>2
<1>4. <<>> \in Seq({}) /\ DOMAIN <<>> = {}  OBVIOUS
<1>5. r # <<>>  BY <1>3, <1>4
<1> QED  BY <1>2, <1>5

LEMMA RunTypes ==
    ASSUME TypesOK, NEW s \in Shards, Run(s)
    PROVE  TypesOK'
<1> USE DEF TypesOK, Whole, Goto, End, Processes
<1>1. ASSUME Discover(s)       PROVE TypesOK'  BY <1>1, ZenonT(30) DEF Discover
<1>2. ASSUME Prepare(s)        PROVE TypesOK'  BY <1>2 DEF Prepare
<1>3. ASSUME ExecuteTests(s)   PROVE TypesOK'
  <2>a. PICK n \in 1..MaxTests[s] :
           \E r \in [1..n -> [status : Statuses, sigs : SignalSeqs[s]]] :
              testRuns' = [testRuns EXCEPT ![s] = r]
        BY <1>3 DEF ExecuteTests
  <2>1. PICK r \in [1..n -> [status : Statuses, sigs : SignalSeqs[s]]] :
           testRuns' = [testRuns EXCEPT ![s] = r]
        BY <2>a
  <2>2. r \in Seq(TestRun(s))  BY ExecutedRuns
  <2>3. testRuns'[s] = r /\ \A t \in Shards : t # s => testRuns'[t] = testRuns[t]  BY <2>1
  <2>4. \A t \in Shards : testRuns'[t] \in Seq(TestRun(t))  BY <2>2, <2>3
  <2>5. Whole(testRuns', Shards)  BY <2>1
  <2>6. /\ UNCHANGED <<files, next, nextSig, cov, exit, fresh>>
        /\ pc' = [pc EXCEPT ![s] = "seed"]
        BY <1>3 DEF ExecuteTests
  <2> QED  BY <2>4, <2>5, <2>6
<1>4. ASSUME SeedCoverage(s)   PROVE TypesOK'  
  <2>1. \A p \in Processes : IsCoverage(cov'[p])  BY <1>4, CoverageOps DEF SeedCoverage
  <2>2. Whole(cov', Processes)  BY <1>4 DEF SeedCoverage
  <2> QED  BY <1>4, <2>1, <2>2 DEF SeedCoverage
<1>5. ASSUME CollectSignal(s)  PROVE TypesOK'
  <2> DEFINE sig == testRuns[s][next[s]].sigs[nextSig[s]]
  <2>1. CASE End(s, "error") /\ UNCHANGED <<cov, nextSig>>
        BY <1>5, <2>1 DEF CollectSignal
  <2>2. CASE /\ cov' = [cov EXCEPT ![s] = AddSignal(@, sig)]
             /\ nextSig' = [nextSig EXCEPT ![s] = @ + 1]
             /\ UNCHANGED <<pc, exit>>
    <3>1. \A p \in Processes : IsCoverage(cov'[p])  BY <2>2, CoverageOps
    <3>2. Whole(cov', Processes) /\ Whole(nextSig', Shards)  BY <2>2
    <3> HIDE DEF sig
    <3> QED  BY <1>5, <2>2, <3>1, <3>2 DEF CollectSignal
  <2> QED  BY <1>5, <2>1, <2>2 DEF CollectSignal
<1>6. ASSUME CollectNextRun(s) PROVE TypesOK'  BY <1>6 DEF CollectNextRun
<1>7. ASSUME AllCollected(s)   PROVE TypesOK'  BY <1>7 DEF AllCollected
<1>8. ASSUME OpenFile(s)       PROVE TypesOK'  BY <1>8 DEF OpenFile
<1>9. ASSUME WriteFile(s)      PROVE TypesOK'  BY <1>9, ZenonT(30) DEF WriteFile
<1>10. ASSUME Summarize(s)     PROVE TypesOK'  BY <1>10 DEF Summarize
<1>11. ASSUME Killed(s)        PROVE TypesOK'  BY <1>11 DEF Killed
<1> QED
  <2> HIDE DEF Goto, End, Whole, TypesOK
  <2> QED  BY <1>1, <1>2, <1>3, <1>4, <1>5, <1>6, <1>7, <1>8, <1>9, <1>10, <1>11 DEF Run

LEMMA RunStep ==
    ASSUME TypesOK, NEW s \in Shards, ShardOK(s), Run(s), earlier' = earlier
    PROVE  ShardOK(s)'
<1> USE DEF Processes
<1>a. s # Merger /\ s \in Processes  BY RunCommandAssumption
<1>b. /\ Whole(files, Processes) /\ Whole(cov, Processes) /\ Whole(next, Processes)
      /\ Whole(testRuns, Shards) /\ Whole(nextSig, Shards)
      /\ DOMAIN pc = Processes /\ DOMAIN exit = Processes
      /\ testRuns[s] \in Seq(TestRun(s)) /\ IsCoverage(cov[s])
      BY <1>a DEF TypesOK
<1>c. MemoryOK(s) /\ DiskOK(s) /\ ExitOK(s)  BY DEF ShardOK
\* Ending without a verdict changes nothing else.
<1>d. ASSUME NEW how \in {"error", "killed"}, End(s, how), pc[s] # "ended",
             files'[s] = files[s] \/ files'[s] = Torn,
             UNCHANGED <<testRuns, cov>>
      PROVE  ShardOK(s)'
  <2>1. pc'[s] = "ended" /\ exit'[s] = how  BY <1>a, <1>b, <1>d DEF End, Goto
  <2>2. MemoryOK(s)'  BY <2>1, <1>c, <1>d DEF MemoryOK, Starting, Collecting
  <2>3. DiskOK(s)'    BY <2>1, <1>c, <1>d DEF DiskOK, Starting, Collecting
  <2>4. ExitOK(s)'    BY <2>1, <1>d DEF ExitOK
  <2> QED  BY <2>2, <2>3, <2>4 DEF ShardOK
<1>1. ASSUME Discover(s)
      PROVE  ShardOK(s)'
  <2>1. CASE End(s, "zero")
    <3>1. pc'[s] = "ended" /\ exit'[s] = "zero"  BY <1>a, <1>b, <2>1 DEF End, Goto
    <3>2. testRuns[s] = <<>> /\ files[s] = earlier
          BY <1>1, <1>c DEF Discover, MemoryOK, DiskOK, Starting
    <3>3. UNCHANGED <<files, testRuns, next, nextSig, cov>>  BY <1>1 DEF Discover
    <3> QED  BY <3>1, <3>2, <3>3, <1>c DEF ShardOK, MemoryOK, DiskOK, ExitOK, Starting, Collecting
  <2>2. CASE Goto(s, "prepare") /\ UNCHANGED exit
    <3>1. pc'[s] = "prepare"  BY <1>a, <1>b, <2>2 DEF Goto
    <3>2. UNCHANGED <<files, testRuns, next, nextSig, cov, exit>>  BY <1>1, <2>2 DEF Discover
    <3> QED  BY <1>1, <3>1, <3>2, <1>c
             DEF Discover, ShardOK, MemoryOK, DiskOK, ExitOK, Starting, Collecting
  <2>3. CASE End(s, "error")
    <3>1. UNCHANGED <<files, testRuns, cov>> /\ pc[s] # "ended"  BY <1>1 DEF Discover
    <3> QED  BY <2>3, <3>1, <1>d
  <2> QED  BY <1>1, <2>1, <2>2, <2>3 DEF Discover
<1>2. ASSUME Prepare(s)
      PROVE  ShardOK(s)'
  <2>1. CASE Goto(s, "execute") /\ UNCHANGED exit
    <3>1. pc'[s] = "execute"  BY <1>a, <1>b, <2>1 DEF Goto
    <3>2. UNCHANGED <<files, testRuns, next, nextSig, cov, exit>>  BY <1>2, <2>1 DEF Prepare
    <3> QED  BY <1>2, <3>1, <3>2, <1>c
             DEF Prepare, ShardOK, MemoryOK, DiskOK, ExitOK, Starting, Collecting
  <2>2. CASE End(s, "error")
    <3>1. UNCHANGED <<files, testRuns, cov>> /\ pc[s] # "ended"  BY <1>2 DEF Prepare
    <3> QED  BY <2>2, <3>1, <1>d
  <2> QED  BY <1>2, <2>1, <2>2 DEF Prepare
<1>3. ASSUME ExecuteTests(s)
      PROVE  ShardOK(s)'
  <2>1. PICK n \in 1..MaxTests[s] :
           \E r \in [1..n -> [status : Statuses, sigs : SignalSeqs[s]]] :
              testRuns' = [testRuns EXCEPT ![s] = r]
        BY <1>3 DEF ExecuteTests
  <2>2. PICK r \in [1..n -> [status : Statuses, sigs : SignalSeqs[s]]] :
           testRuns' = [testRuns EXCEPT ![s] = r]
        BY <2>1
  <2>3. testRuns'[s] # <<>>
    <3>1. testRuns'[s] = r  BY <1>b, <2>2 DEF Whole
    <3> QED  BY <3>1, ExecutedRuns
  <2>4. pc[s] = "execute" /\ pc'[s] = "seed" /\ UNCHANGED <<files, next, nextSig, cov, exit>>
        BY <1>3, <1>a, <1>b DEF ExecuteTests, Goto
  <2>5. exit[s] = "running" /\ files[s] = earlier  BY <2>4, <1>c DEF ExitOK, DiskOK, Starting
  <2>6. MemoryOK(s)'  BY <2>3, <2>4, <1>c DEF MemoryOK, Starting, Collecting
  <2> QED  BY <2>4, <2>5, <2>6 DEF ShardOK, DiskOK, ExitOK
<1>4. ASSUME SeedCoverage(s)
      PROVE  ShardOK(s)'
  <2>1. /\ pc[s] = "seed" /\ pc'[s] = "collect"
        /\ cov'[s] = InitializeFromInstrumented(cov[s], Points[s])
        /\ UNCHANGED <<files, testRuns, next, nextSig, exit>>
        BY <1>4, <1>a, <1>b DEF SeedCoverage, Goto, Whole
  <2>2. cov[s] = NewCoverage /\ next[s] = 1 /\ nextSig[s] = 1 /\ testRuns[s] # <<>>
        BY <2>1, <1>c DEF MemoryOK, Collecting
  <2>3. CountedTo(testRuns, cov'[s], s, 1, 1)  BY <2>1, <2>2, <1>b, SeedCounts
  <2>4. Within(cov'[s], {s})  BY <2>3, CountedWithin
  <2>5. MemoryOK(s)'  BY <2>1, <2>2, <2>3, <2>4 DEF MemoryOK, Starting
  <2>6. DiskOK(s)' /\ ExitOK(s)'  BY <2>1, <1>c DEF DiskOK, ExitOK, Collecting
  <2> QED  BY <2>5, <2>6 DEF ShardOK
<1>5. ASSUME CollectSignal(s)
      PROVE  ShardOK(s)'
  <2> DEFINE n == next[s]
             j == nextSig[s]
             sig == testRuns[s][n].sigs[j]
  <2>1. /\ pc[s] = "collect" /\ n <= Len(testRuns[s]) /\ j <= Len(testRuns[s][n].sigs)
        /\ UNCHANGED <<files, testRuns, next>>
        BY <1>5 DEF CollectSignal
  <2>2. CASE End(s, "error") /\ UNCHANGED <<cov, nextSig>>
    <3>1. UNCHANGED <<files, testRuns, cov>> /\ pc[s] # "ended"  BY <2>1, <2>2
    <3> QED  BY <2>2, <3>1, <1>d
  <2>3. CASE /\ sig # BadSignal
             /\ cov' = [cov EXCEPT ![s] = AddSignal(@, sig)]
             /\ nextSig' = [nextSig EXCEPT ![s] = @ + 1]
             /\ UNCHANGED <<pc, exit>>
    <3>1. n \in Nat \ {0} /\ j \in Nat \ {0} /\ CountedTo(testRuns, cov[s], s, n, j)
          BY <2>1, <1>c DEF MemoryOK
    <3>2. n \in DOMAIN testRuns[s]  BY <1>b, <2>1, <3>1
    <3>3. j \in DOMAIN testRuns[s][n].sigs
      <4>1. testRuns[s][n] \in TestRun(s)  BY <1>b, <3>2
      <4>2. testRuns[s][n].sigs \in Seq({q.pos : q \in Points[s]} \cup {BadSignal})
            BY <4>1, PointsAssumption DEF TestRun
      <4> QED  BY <2>1, <3>1, <4>2
    <3>4. cov'[s] = AddSignal(cov[s], sig) /\ nextSig'[s] = j + 1
          BY <1>a, <1>b, <2>3 DEF Whole
    <3>5. CountedTo(testRuns, cov'[s], s, n, j + 1)  BY <1>b, <2>3, <3>1, <3>2, <3>3, <3>4, AddCounts
    <3>6. Within(cov'[s], {s})  BY <3>5, CountedWithin
    <3>7. j + 1 \in Nat \ {0}  BY <3>1
    <3> HIDE DEF sig
    <3>8. MemoryOK(s)'
          BY <1>c, <2>1, <2>3, <3>1, <3>4, <3>5, <3>6, <3>7 DEF MemoryOK, Starting, Collecting
    <3>9. DiskOK(s)' /\ ExitOK(s)'  BY <1>c, <2>1, <2>3 DEF DiskOK, ExitOK
    <3> QED  BY <3>8, <3>9 DEF ShardOK
  <2> QED  BY <1>5, <2>2, <2>3 DEF CollectSignal
<1>6. ASSUME CollectNextRun(s)
      PROVE  ShardOK(s)'
  <2> DEFINE n == next[s]
             j == nextSig[s]
  <2>1. /\ pc[s] = "collect" /\ n <= Len(testRuns[s]) /\ j > Len(testRuns[s][n].sigs)
        /\ next'[s] = n + 1 /\ nextSig'[s] = 1
        /\ UNCHANGED <<files, pc, testRuns, cov, exit>>
        BY <1>6, <1>a, <1>b DEF CollectNextRun, Whole
  <2>2. n \in Nat \ {0} /\ j \in Nat \ {0} /\ CountedTo(testRuns, cov[s], s, n, j)
        BY <2>1, <1>c DEF MemoryOK
  <2>3. n \in DOMAIN testRuns[s]  BY <1>b, <2>1, <2>2
  <2>4. CountedTo(testRuns, cov[s], s, n + 1, 1)  BY <1>b, <2>1, <2>2, <2>3, NextRunCounts
  <2>5. n + 1 \in Nat \ {0}  BY <2>2
  <2>6. MemoryOK(s)'  BY <1>c, <2>1, <2>4, <2>5 DEF MemoryOK, Starting, Collecting
  <2>7. DiskOK(s)' /\ ExitOK(s)'  BY <1>c, <2>1 DEF DiskOK, ExitOK
  <2> QED  BY <2>6, <2>7 DEF ShardOK
<1>7. ASSUME AllCollected(s)
      PROVE  ShardOK(s)'
  <2>1. /\ pc[s] = "collect" /\ pc'[s] = "save" /\ next[s] > Len(testRuns[s])
        /\ UNCHANGED <<files, testRuns, next, nextSig, cov, exit>>
        BY <1>7, <1>a, <1>b DEF AllCollected, Goto
  <2>2. next[s] \in Nat /\ CountedTo(testRuns, cov[s], s, next[s], nextSig[s])
        BY <2>1, <1>c DEF MemoryOK
  <2>3. Exact(testRuns, cov[s], {s})  BY <1>b, <2>1, <2>2, AllCounted
  <2>4. MemoryOK(s)'  BY <1>c, <2>1, <2>3 DEF MemoryOK, Starting, Collecting
  <2>5. DiskOK(s)' /\ ExitOK(s)'  BY <1>c, <2>1 DEF DiskOK, ExitOK, Starting, Collecting
  <2> QED  BY <2>4, <2>5 DEF ShardOK
<1>8. ASSUME OpenFile(s)
      PROVE  ShardOK(s)'
  <2>1. pc[s] = "save" /\ UNCHANGED <<testRuns, next, nextSig, cov>>  BY <1>8 DEF OpenFile
  <2>2. CASE End(s, "error") /\ UNCHANGED files
        BY <2>1, <2>2, <1>d
  <2>3. CASE files' = [files EXCEPT ![s] = Torn] /\ Goto(s, "writing") /\ UNCHANGED exit
    <3>1. files'[s] = Torn /\ pc'[s] = "writing" /\ exit' = exit
          BY <1>a, <1>b, <2>3 DEF Goto, Whole
    <3>2. MemoryOK(s)'  BY <1>c, <2>1, <3>1 DEF MemoryOK, Starting, Collecting
    <3>3. DiskOK(s)'    BY <3>1 DEF DiskOK, Starting, Collecting
    <3>4. ExitOK(s)'    BY <1>c, <2>1, <3>1 DEF ExitOK
    <3> QED  BY <3>2, <3>3, <3>4 DEF ShardOK
  <2> QED  BY <1>8, <2>2, <2>3 DEF OpenFile
<1>9. ASSUME WriteFile(s)
      PROVE  ShardOK(s)'
  <2>1. pc[s] = "writing" /\ UNCHANGED <<testRuns, next, nextSig, cov>>  BY <1>9 DEF WriteFile
  <2>2. CASE End(s, "error") /\ UNCHANGED files
        BY <2>1, <2>2, <1>d
  <2>3. CASE files' = [files EXCEPT ![s] = Clone(cov[s])] /\ Goto(s, "summarize") /\ UNCHANGED exit
    <3>1. files'[s] = cov[s] /\ pc'[s] = "summarize" /\ exit' = exit
          BY <1>a, <1>b, <2>3 DEF Goto, Whole, Clone
    <3>2. Exact(testRuns, cov[s], {s})  BY <1>c, <2>1 DEF MemoryOK
    <3>3. MemoryOK(s)'  BY <1>c, <2>1, <3>1 DEF MemoryOK, Starting, Collecting
    <3>4. DiskOK(s)'    BY <2>1, <3>1, <3>2 DEF DiskOK, Starting, Collecting
    <3>5. ExitOK(s)'    BY <1>c, <2>1, <3>1 DEF ExitOK
    <3> QED  BY <3>3, <3>4, <3>5 DEF ShardOK
  <2> QED  BY <1>9, <1>a, <2>2, <2>3 DEF WriteFile
<1>10. ASSUME Summarize(s)
       PROVE  ShardOK(s)'
  <2> DEFINE verdict == IF AllPassed(s) /\ (FailUnder > 0 => ThresholdMet(cov[s])) THEN "zero" ELSE "one"
  <2>1. /\ pc[s] = "summarize" /\ pc'[s] = "ended" /\ exit'[s] = verdict
        /\ UNCHANGED <<files, testRuns, next, nextSig, cov>>
        BY <1>10, <1>a, <1>b DEF Summarize, End, Goto
  <2>2. testRuns[s] # <<>> /\ Exact(testRuns, cov[s], {s}) /\ Exact(testRuns, files[s], {s})
        BY <1>c, <2>1 DEF MemoryOK, DiskOK
  <2>3. verdict = "zero" => Earned(testRuns, s)
        BY <1>b, <2>2, VerdictEarned DEF AllPassed
  <2> HIDE DEF verdict
  <2>4. MemoryOK(s)'  BY <1>c, <2>1 DEF MemoryOK, Starting, Collecting
  <2>5. DiskOK(s)'    BY <2>1, <2>2 DEF DiskOK, Starting, Collecting
  <2>6. ExitOK(s)'    BY <2>1, <2>2, <2>3 DEF ExitOK
  <2> QED  BY <2>4, <2>5, <2>6 DEF ShardOK
<1>11. ASSUME Killed(s)
       PROVE  ShardOK(s)'
       BY <1>11, <1>d DEF Killed
<1> QED  BY <1>1, <1>2, <1>3, <1>4, <1>5, <1>6, <1>7, <1>8, <1>9, <1>10, <1>11 DEF Run

\* The merge, when it is a shard that moves.
LEMMA MergeFrame ==
    ASSUME MergeOK, NEW s \in Shards, OnlyAt(s), fresh' = fresh, earlier' = earlier,
           pc[s] \in {"summarize", "ended"} => testRuns' = testRuns /\ pc'[s] = "ended"
    PROVE  MergeOK'
<1>1. Merger \in Processes \ {s}  BY RunCommandAssumption DEF Processes
<1>2. /\ pc'[Merger] = pc[Merger] /\ files'[Merger] = files[Merger] /\ cov'[Merger] = cov[Merger]
      /\ next'[Merger] = next[Merger] /\ exit'[Merger] = exit[Merger]
      BY <1>1 DEF OnlyAt
<1>3. Loaded' = Loaded  BY <1>2 DEF Loaded
<1>4. Loaded \subseteq Shards
  <2>1. \A i \in 1..(next[Merger] - 1) : i \in 1..Len(ShardSeq)
        BY ShardSeqLists DEF MergeOK
  <2> QED  BY <2>1, ShardSeqLists DEF Loaded
<1>5. next[Merger] = Len(ShardSeq) + 1 => Loaded = Shards
  <2>1. ASSUME next[Merger] = Len(ShardSeq) + 1
        PROVE  1..(next[Merger] - 1) = 1..Len(ShardSeq)
        BY <2>1, ShardSeqLists
  <2> QED  BY <2>1, ShardSeqLists DEF Loaded
<1>6. CASE ~fresh
  <2>1. ~fresh'  BY <1>6
  <2> QED  BY <1>2, <2>1 DEF MergeOK
<1>7. CASE fresh
  <2>1. \A t \in Loaded : pc[t] \in {"summarize", "ended"}  BY <1>7 DEF MergeOK
  <2>2. \A t \in Loaded : testRuns'[t] = testRuns[t] /\ pc'[t] \in {"summarize", "ended"}
        BY <1>4, <2>1 DEF OnlyAt, Processes
  <2>3. \A c : Exact(testRuns', c, Loaded) <=> Exact(testRuns, c, Loaded)  BY <2>2, SameSignals
  <2>4. files[Merger] \in {earlier, Torn} \/ Loaded = Shards
        BY <1>5 DEF MergeOK
  <2>5. files'[Merger] \in {earlier', Torn} \/ Exact(testRuns', files'[Merger], Shards)
    <3>1. files[Merger] \in {earlier, Torn} \/ Exact(testRuns, files[Merger], Shards)
          BY <1>7 DEF MergeOK
    <3> QED  BY <1>2, <2>3, <2>4, <3>1
  <2>6. exit'[Merger] = "zero" => Loaded' = Shards /\ Exact(testRuns', files'[Merger], Shards)
    <3>1. exit[Merger] = "zero" => Loaded = Shards /\ Exact(testRuns, files[Merger], Shards)
          BY <1>7 DEF MergeOK
    <3> QED  BY <1>2, <1>3, <2>3, <3>1
  <2>7. Exact(testRuns', cov'[Merger], Loaded')
    <3>1. Exact(testRuns, cov[Merger], Loaded)  BY <1>7 DEF MergeOK
    <3> QED  BY <1>2, <1>3, <2>3, <3>1
  <2> QED  BY <1>2, <1>3, <2>2, <2>5, <2>6, <2>7 DEF MergeOK
<1> QED  BY <1>6, <1>7

LEMMA MergeStep ==
    ASSUME RInv, MergeFiles, earlier' = earlier
    PROVE  RInv'
<1> USE DEF Processes
<1>a. Merger \in Processes /\ \A s \in Shards : s # Merger /\ s \in Processes
      BY RunCommandAssumption
<1>b. /\ TypesOK /\ MergeOK
      /\ Whole(files, Processes) /\ Whole(cov, Processes) /\ Whole(next, Processes)
      /\ DOMAIN pc = Processes /\ DOMAIN exit = Processes
      /\ \A p \in Processes : IsCoverage(cov[p])
      BY DEF RInv, TypesOK
<1>c. next[Merger] \in 1..(Len(ShardSeq) + 1) /\ Len(ShardSeq) \in Nat
      BY <1>b, ShardSeqLists DEF MergeOK
\* The shards are not touched.
<1>d. ASSUME UNCHANGED <<testRuns, nextSig>>,
             \A s \in Shards : /\ pc'[s] = pc[s] /\ files'[s] = files[s] /\ cov'[s] = cov[s]
                               /\ next'[s] = next[s] /\ exit'[s] = exit[s],
             TypesOK', MergeOK'
      PROVE  RInv'
  <2>1. \A s \in Shards : ShardOK(s)'  BY <1>d, ShardFrame DEF RInv
  <2> QED  BY <1>d, <2>1 DEF RInv
\* Ending early changes no file.
<1>e. ASSUME NEW how \in {"error", "killed"}, End(Merger, how), pc[Merger] # "ended",
             UNCHANGED <<files, testRuns, next, nextSig, cov>>,
             fresh' \in BOOLEAN, fresh' => fresh
      PROVE  RInv'
  <2>1. pc'[Merger] = "ended" /\ exit'[Merger] = how  BY <1>a, <1>b, <1>e DEF End, Goto
  <2>2. \A s \in Shards : pc'[s] = pc[s] /\ exit'[s] = exit[s]  BY <1>a, <1>b, <1>e DEF End, Goto
  <2>3. TypesOK'  BY <1>b, <1>e DEF TypesOK, Whole, End, Goto
  <2>4. Loaded' = Loaded  BY <1>e DEF Loaded
  <2>5. \A s \in Loaded : s \in Shards
    <3>1. \A i \in 1..(next[Merger] - 1) : i \in 1..Len(ShardSeq)  BY <1>c
    <3> QED  BY <3>1, ShardSeqLists DEF Loaded
  <2>6. MergeOK'
    <3>1. fresh' => \A s \in Loaded : pc'[s] \in {"summarize", "ended"}
          BY <1>b, <1>e, <2>2, <2>5 DEF MergeOK
    <3> QED  BY <1>b, <1>e, <2>1, <2>4, <3>1 DEF MergeOK
  <2> QED  BY <1>d, <1>e, <2>2, <2>3, <2>6
<1>1. CASE LoadInput
  <2> DEFINE n == next[Merger]
             s == ShardSeq[n]
  <2>1. /\ pc[Merger] = "load" /\ n <= Len(ShardSeq)
        /\ fresh' = (fresh /\ Saved(s))
        /\ UNCHANGED <<files, testRuns, nextSig>>
        BY <1>1 DEF LoadInput
  <2>2. CASE End(Merger, "error") /\ UNCHANGED <<cov, next>>
    <3>1. fresh' \in BOOLEAN  BY <2>1
    <3> QED  BY <1>e, <2>1, <2>2, <3>1
  <2>3. CASE /\ cov' = [cov EXCEPT ![Merger] = MergeTwo(@, files[s])]
             /\ next' = [next EXCEPT ![Merger] = @ + 1]
             /\ UNCHANGED <<pc, exit>>
    <3>1. cov'[Merger] = MergeTwo(cov[Merger], files[s]) /\ next'[Merger] = n + 1
          BY <1>a, <1>b, <2>3 DEF Whole
    <3>2. \A t \in Shards : cov'[t] = cov[t] /\ next'[t] = next[t]  BY <1>a, <1>b, <2>3 DEF Whole
    <3>3. TypesOK'
      <4>1. \A p \in Processes : IsCoverage(cov'[p])  BY <1>a, <1>b, <3>1, <3>2, CoverageOps
      <4>2. Whole(cov', Processes) /\ Whole(next', Processes)  BY <1>b, <2>3 DEF Whole
      <4>3. fresh' \in BOOLEAN  BY <2>1
      <4> QED  BY <1>b, <2>1, <2>3, <4>1, <4>2, <4>3 DEF TypesOK
    <3>4. n \in 1..Len(ShardSeq) /\ n # Len(ShardSeq) + 1  BY <1>c, <2>1
    <3>5. s \in Shards  BY <3>4, ShardSeqLists
    <3>6. 1..(n - 1) \subseteq 1..Len(ShardSeq) /\ n \notin 1..(n - 1)
          /\ 1..(n + 1 - 1) = 1..(n - 1) \cup {n}
          BY <3>4, ShardSeqLists
    <3>7. Loaded \subseteq Shards /\ s \notin Loaded  BY <3>4, <3>6, ShardSeqLists DEF Loaded
    <3>8. Loaded' = Loaded \cup {s}
      <4>1. Loaded' = {ShardSeq[i] : i \in 1..(n - 1) \cup {n}}  BY <3>1, <3>6 DEF Loaded
      <4> QED  BY <4>1 DEF Loaded
    <3>9. files[Merger] = earlier /\ exit[Merger] # "zero" /\ exit[Merger] = "running"
          BY <1>b, <2>1, <3>4 DEF MergeOK
    <3>10. n + 1 \in 1..(Len(ShardSeq) + 1)  BY <3>4
    <3> HIDE DEF s, n
    <3>11. ASSUME fresh'
           PROVE  /\ \A t \in Loaded' : pc'[t] \in {"summarize", "ended"}
                  /\ Exact(testRuns', cov'[Merger], Loaded')
      <4>1. fresh /\ Saved(s)  BY <2>1, <3>11
      <4>2. ShardOK(s) /\ pc[s] \in {"discover", "prepare", "execute", "seed", "collect", "save",
                                     "writing", "summarize", "load", "ended"}
            BY <3>5, <1>a DEF RInv, TypesOK
      <4>3. Exact(testRuns, files[s], {s}) /\ pc[s] \in {"summarize", "ended"}
            BY <4>1, <4>2 DEF Saved, ShardOK, DiskOK, ExitOK
      <4>4. /\ \A t \in Loaded : pc[t] \in {"summarize", "ended"}
            /\ Exact(testRuns, cov[Merger], Loaded)
            BY <1>b, <4>1 DEF MergeOK
      <4>5. \A t \in Loaded \cup {s} : testRuns[t] \in Seq(TestRun(t))
            BY <1>b, <3>5, <3>7 DEF TypesOK
      <4>6. Exact(testRuns, MergeTwo(cov[Merger], files[s]), Loaded \cup {s})
            BY <1>a, <1>b, <3>5, <3>7, <4>3, <4>4, <4>5, MergeExact
      <4> QED  BY <2>1, <2>3, <3>1, <3>8, <4>3, <4>4, <4>6
    <3>12. MergeOK'
      <4>1. pc'[Merger] = "load" /\ exit'[Merger] = "running" /\ files'[Merger] = earlier'
            BY <2>1, <2>3, <3>9
      <4> QED  BY <3>1, <3>10, <3>11, <4>1 DEF MergeOK
    <3> QED  BY <1>d, <2>1, <2>3, <3>2, <3>3, <3>12
  <2> QED  BY <1>1, <2>2, <2>3 DEF LoadInput
<1>2. CASE AllLoaded
  <2>1. /\ pc[Merger] = "load" /\ next[Merger] > Len(ShardSeq) /\ pc'[Merger] = "save"
        /\ \A s \in Shards : pc'[s] = pc[s]
        /\ UNCHANGED <<files, testRuns, next, nextSig, cov, exit, fresh>>
        BY <1>2, <1>a, <1>b DEF AllLoaded, Goto
  <2>2. TypesOK'  BY <1>2, <1>b, <2>1 DEF TypesOK, Whole, AllLoaded, Goto
  <2>3. next[Merger] = Len(ShardSeq) + 1  BY <1>c, <2>1
  <2>4. Loaded' = Loaded /\ Loaded \subseteq Shards
    <3>1. 1..(next[Merger] - 1) = 1..Len(ShardSeq)  BY <1>c, <2>3
    <3> QED  BY <2>1, <3>1, ShardSeqLists DEF Loaded
  <2>5. fresh => \A s \in Loaded : pc'[s] \in {"summarize", "ended"}
        BY <1>b, <2>1, <2>4 DEF MergeOK
  <2>6. MergeOK'  BY <1>b, <2>1, <2>3, <2>4, <2>5 DEF MergeOK
  <2> QED  BY <1>d, <2>1, <2>2, <2>6
<1>3. CASE OpenFile(Merger)
  <2>1. pc[Merger] = "save" /\ UNCHANGED <<testRuns, next, nextSig, cov, fresh>>
        BY <1>3 DEF OpenFile
  <2>2. CASE End(Merger, "error") /\ UNCHANGED files
    <3>1. fresh' \in BOOLEAN  BY <1>b, <2>1 DEF TypesOK
    <3> QED  BY <1>e, <2>1, <2>2, <3>1
  <2>3. CASE files' = [files EXCEPT ![Merger] = Torn] /\ Goto(Merger, "writing") /\ UNCHANGED exit
    <3>1. /\ files'[Merger] = Torn /\ pc'[Merger] = "writing" /\ exit' = exit
          /\ \A s \in Shards : pc'[s] = pc[s] /\ files'[s] = files[s]
          BY <1>a, <1>b, <2>3 DEF Goto, Whole
    <3>2. TypesOK'  BY <1>b, <2>1, <2>3 DEF TypesOK, Whole, Goto
    <3>3. next[Merger] = Len(ShardSeq) + 1 /\ exit[Merger] = "running"  BY <1>b, <2>1 DEF MergeOK
    <3>4. Loaded' = Loaded /\ Loaded \subseteq Shards
      <4>1. 1..(next[Merger] - 1) = 1..Len(ShardSeq)  BY <1>c, <3>3
      <4> QED  BY <2>1, <4>1, ShardSeqLists DEF Loaded
    <3>5. fresh => \A s \in Loaded : pc'[s] \in {"summarize", "ended"}
          BY <1>b, <3>1, <3>4 DEF MergeOK
    <3>6. MergeOK'  BY <1>b, <2>1, <3>1, <3>3, <3>4, <3>5 DEF MergeOK
    <3> QED  BY <1>d, <2>1, <3>1, <3>2, <3>6
  <2> QED  BY <1>3, <2>2, <2>3 DEF OpenFile
<1>4. CASE WriteFile(Merger)
  <2>1. pc[Merger] = "writing" /\ UNCHANGED <<testRuns, next, nextSig, cov, fresh>>
        BY <1>4 DEF WriteFile
  <2>2. CASE End(Merger, "error") /\ UNCHANGED files
    <3>1. fresh' \in BOOLEAN  BY <1>b, <2>1 DEF TypesOK
    <3> QED  BY <1>e, <2>1, <2>2, <3>1
  <2>3. CASE files' = [files EXCEPT ![Merger] = Clone(cov[Merger])] /\ End(Merger, "zero")
    <3>1. /\ files'[Merger] = cov[Merger] /\ pc'[Merger] = "ended" /\ exit'[Merger] = "zero"
          /\ \A s \in Shards : pc'[s] = pc[s] /\ files'[s] = files[s] /\ exit'[s] = exit[s]
          BY <1>a, <1>b, <2>3 DEF End, Goto, Whole, Clone
    <3>2. TypesOK'  BY <1>b, <2>1, <2>3 DEF TypesOK, Whole, End, Goto
    <3>3. next[Merger] = Len(ShardSeq) + 1  BY <1>b, <2>1 DEF MergeOK
    <3>4. Loaded' = Loaded /\ Loaded = Shards
      <4>1. 1..(next[Merger] - 1) = 1..Len(ShardSeq)  BY <1>c, <3>3
      <4> QED  BY <2>1, <4>1, ShardSeqLists DEF Loaded
    <3>5. fresh => /\ \A s \in Loaded : pc'[s] \in {"summarize", "ended"}
                   /\ Exact(testRuns, cov[Merger], Shards)
          BY <1>b, <3>1, <3>4 DEF MergeOK
    <3>6. MergeOK'  BY <1>c, <2>1, <3>1, <3>3, <3>4, <3>5 DEF MergeOK
    <3> QED  BY <1>d, <2>1, <3>1, <3>2, <3>6
  <2> QED  BY <1>4, <2>2, <2>3 DEF WriteFile
<1>5. CASE Killed(Merger)
  <2>1. fresh' \in BOOLEAN /\ fresh' = fresh  BY <1>5, <1>b DEF Killed, TypesOK
  <2> QED  BY <1>5, <1>e, <2>1 DEF Killed
<1> QED  BY <1>1, <1>2, <1>3, <1>4, <1>5 DEF MergeFiles

LEMMA StepOK == RInv /\ [Next]_vars => RInv'
<1> SUFFICES ASSUME RInv, [Next]_vars
             PROVE  RInv'
    OBVIOUS
<1>1. CASE UNCHANGED vars
  <2> USE <1>1 DEF vars
  <2>1. TypesOK'  BY DEF RInv, TypesOK, Whole
  <2>2. \A s \in Shards : ShardOK(s)'  BY ShardFrame DEF RInv
  <2>3. MergeOK'  BY DEF RInv, MergeOK, Loaded
  <2> QED  BY <2>1, <2>2, <2>3 DEF RInv
<1>2. ASSUME NEW s \in Shards, Run(s), earlier' = earlier
      PROVE  RInv'
  <2>1. TypesOK /\ ShardOK(s) /\ MergeOK  BY DEF RInv
  <2>2. TypesOK' /\ ShardOK(s)'  BY <1>2, <2>1, RunTypes, RunStep
  <2>3. /\ OnlyAt(s) /\ fresh' = fresh
        /\ pc[s] \in {"summarize", "ended"} => testRuns' = testRuns /\ pc'[s] = "ended"
        BY <1>2, <2>1, RunOnlyAt
  <2>4. \A t \in Shards : ShardOK(t)'
    <3>1. ASSUME NEW t \in Shards, t # s
          PROVE  ShardOK(t)'
      <4>1. /\ pc'[t] = pc[t] /\ files'[t] = files[t] /\ cov'[t] = cov[t] /\ next'[t] = next[t]
            /\ exit'[t] = exit[t] /\ testRuns'[t] = testRuns[t] /\ nextSig'[t] = nextSig[t]
            BY <2>3, <3>1 DEF OnlyAt, Processes
      <4> QED  BY <1>2, <4>1, ShardFrame DEF RInv
    <3> QED  BY <2>2, <3>1
  <2>5. MergeOK'  BY <1>2, <2>1, <2>3, MergeFrame
  <2> QED  BY <2>2, <2>4, <2>5 DEF RInv
<1>3. CASE MergeFiles /\ earlier' = earlier  BY <1>3, MergeStep
<1>4. CASE Finished  BY <1>1, <1>4 DEF Finished
<1> QED  BY <1>1, <1>2, <1>3, <1>4 DEF Next

LEMMA InvariantOK == Spec => []RInv
BY InitOK, StepOK, PTL DEF Spec

-----------------------------------------------------------------------------
(* What follows                                                             *)

\* What a run with a verdict has saved is exactly what its tests signalled, and no part
\* of a run's coverage is ever taken for all of it (cli.Run, Collector, Store).
THEOREM EveryHitRecorded == Spec => []RunRecordsEveryHit
<1>1. RInv => RunRecordsEveryHit
      BY RecordsIsExact DEF RInv, ShardOK, DiskOK, ExitOK, RunRecordsEveryHit
<1> QED  BY <1>1, InvariantOK, PTL

\* Merging the files of finished shards gives the coverage of one run of the whole
\* suite, for any number of shards and whatever sources they share (cli.Merge).
THEOREM MergeIsWholeRun == Spec => []MergedIsWhole
<1>1. RInv => MergedIsWhole
      BY RecordsIsExact DEF RInv, MergeOK, MergedIsWhole
<1> QED  BY <1>1, InvariantOK, PTL

\* Exit code 0 after running tests means that all of them passed and that what they
\* covered meets the threshold (cli.Run).
THEOREM ZeroIsEarned == Spec => []ExitZeroIsEarned
<1>1. ASSUME RInv, NEW s \in Shards, exit[s] = "zero", testRuns[s] # <<>>
      PROVE  /\ \A i \in DOMAIN testRuns[s] : testRuns[s][i].status = "passed"
             /\ LET exec == {q.pos : q \in {r \in Points[s] : ~r.implicit}}
                    hit  == {x \in exec : Occurrences({s}, x) > 0}
                IN FailUnder > 0 => exec # {} /\ 100 * Cardinality(hit) >= FailUnder * Cardinality(exec)
  <2> DEFINE exec == {q.pos : q \in {r \in Points[s] : ~r.implicit}}
             hit  == {x \in exec : Occurrences({s}, x) > 0}
  <2>1. Earned(testRuns, s)  BY <1>1 DEF RInv, ShardOK, ExitOK
  <2>2. exec = PosOf({s}, FALSE)
    <3>1. \A r \in Points[s] : r.implicit = FALSE <=> ~r.implicit  BY PointsAssumption
    <3> QED  BY <3>1, PositionsOfOne, ZenonT(30)
  <2>3. hit = HitBy(testRuns, s)  BY <2>2 DEF HitBy, Occurrences, Signals, SignalsIn
  <2> HIDE DEF exec, hit
  <2>4. /\ \A i \in DOMAIN testRuns[s] : testRuns[s][i].status = "passed"
        /\ FailUnder > 0 => exec # {} /\ 100 * Cardinality(hit) >= FailUnder * Cardinality(exec)
        BY <2>1, <2>2, <2>3 DEF Earned
  <2> QED  BY <2>4 DEF exec, hit
<1>2. RInv => ExitZeroIsEarned  BY <1>1 DEF ExitZeroIsEarned
<1> QED  BY <1>2, InvariantOK, PTL

\* No position is both executable and implicit, in memory or on disk, as long as no merge
\* has read a file of an earlier time (InitializeFromInstrumented, AddSignal, MergeInto).
THEOREM PartitionKept == Spec => []PositionsPartitioned
<1> DEFINE Apart(c) == DOMAIN c.positions \cap DOMAIN c.implicit = {}
<1>1. ASSUME NEW L \in SUBSET Shards, NEW c, Within(c, L)
      PROVE  Apart(c)
      BY <1>1, PositionsDisjoint DEF Within
<1>2. ASSUME NEW L \in SUBSET Shards, NEW c, NEW runs, Exact(runs, c, L)
      PROVE  Apart(c)
  <2>1. Within(c, L)  BY <1>2 DEF Exact, Within
  <2> QED  BY <1>1, <2>1
<1>3. ASSUME RInv, NEW s \in Shards
      PROVE  Apart(cov[s]) /\ (files[s] \in {earlier, Torn} \/ Apart(files[s]))
  <2>1. Within(cov[s], {s}) /\ (files[s] \in {earlier, Torn} \/ Exact(testRuns, files[s], {s}))
        BY <1>3 DEF RInv, ShardOK, MemoryOK, DiskOK
  <2>2. {s} \in SUBSET Shards  OBVIOUS
  <2> HIDE DEF Apart
  <2> QED  BY <1>1, <1>2, <2>1, <2>2
<1>4. ASSUME RInv, fresh
      PROVE  Apart(cov[Merger]) /\ (files[Merger] \in {earlier, Torn} \/ Apart(files[Merger]))
  <2>1. Loaded \in SUBSET Shards
    <3>1. \A i \in 1..(next[Merger] - 1) : i \in 1..Len(ShardSeq)
          BY <1>4, ShardSeqLists DEF RInv, MergeOK
    <3> QED  BY <3>1, ShardSeqLists DEF Loaded
  <2>2. /\ Exact(testRuns, cov[Merger], Loaded)
        /\ files[Merger] \in {earlier, Torn} \/ Exact(testRuns, files[Merger], Shards)
        BY <1>4 DEF RInv, MergeOK
  <2> HIDE DEF Apart
  <2> QED  BY <1>2, <2>1, <2>2
<1>5. RInv => PositionsPartitioned
      BY <1>3, <1>4 DEF PositionsPartitioned, Processes
<1> QED  BY <1>5, InvariantOK, PTL

=============================================================================
