------------------------- MODULE InstrumenterProofs -------------------------
(***************************************************************************)
(* Proof that the scan of a function body finds its segments, all of them  *)
(* and nothing else, for a body of any length and any tokens, with facts   *)
(* about sequences that SourceFileProofs needs as well.                    *)
(***************************************************************************)
EXTENDS Instrumenter, Integers, SequencesExt, SequenceTheorems, WellFoundedInduction, NaturalsInduction, TLAPS

\* One statement of a source file is instrumented.
StatementSpec ==
    (\E k \in {"plpgsql", "sql"}, b \in Seq(STRING) : Begin(k, b)) /\ [][InstrumentStep]_vars

-----------------------------------------------------------------------------
(* The segments, as PointsAreSegments has them                              *)

Begins == {i \in DOMAIN body : body[i] = "BEGIN" /\ \A j \in 1..(i - 1) : body[j] # "BEGIN"}
First  == IF kind = "sql" THEN {0} ELSE Begins
Ends   == {i \in DOMAIN body : body[i] = ";" /\ \E b \in First : b < i} \cup {Len(body) + 1}

Opens(i, from) ==
    /\ from < i
    /\ body[i] \notin {"COMMENT", ";"}
    /\ \A j \in (from + 1)..(i - 1) : body[j] = "COMMENT"

\* The text from i up to n is a segment.
Segment(i, n) ==
    /\ i < n /\ \A m \in Ends : i < m => n <= m
    /\ \E from \in First \cup Ends : Opens(i, from)

PointAt(x) == [start |-> x[1], length |-> x[2] - x[1], implicit |-> FALSE]

\* The points of the segments that end at position m or before.
SegmentsUpTo(m) ==
    {PointAt(x) : x \in {y \in (DOMAIN body) \X Ends :
                            Segment(y[1], y[2]) /\ body[y[1]] \notin Structural /\ y[2] <= m}}

-----------------------------------------------------------------------------
(* The inductive invariant                                                  *)

BodyOK ==
    /\ kind \in {"plpgsql", "sql"}
    /\ body \in Seq(STRING)
    /\ pc \in {"scan", "flush", "done"}
    /\ read \in 0..Len(body)
    /\ pastBegin \in BOOLEAN
    /\ segStart \in 0..read
    /\ locations \in Seq([start : Nat, length : Int, implicit : BOOLEAN])

\* Where the scanner is.
ScanOK ==
    /\ pc = "scan" =>
          /\ pastBegin => \E b \in First : b <= read
          /\ ~pastBegin => kind = "plpgsql" /\ \A j \in 1..read : body[j] # "BEGIN"
          /\ pastBegin /\ segStart = 0 =>
                \E from \in First \cup Ends :
                    from <= read /\ \A j \in (from + 1)..read : body[j] = "COMMENT"
          /\ segStart > 0 =>
                /\ pastBegin
                /\ \E from \in First \cup Ends : Opens(segStart, from)
                /\ \A j \in segStart..read : body[j] # ";"
    /\ pc # "scan" => read = Len(body)

LocationsOK ==
    {locations[i] : i \in DOMAIN locations}
        = SegmentsUpTo(IF pc = "scan" THEN read ELSE Len(body) + 1)

\* The inductive invariant.
IInv == BodyOK /\ ScanOK /\ LocationsOK

-----------------------------------------------------------------------------
(* Positions                                                                *)

LEMMA Positions ==
    ASSUME BodyOK
    PROVE  /\ Len(body) \in Nat /\ read \in Nat /\ segStart \in Nat /\ DOMAIN body = 1..Len(body)
           /\ First \subseteq 0..Len(body) /\ Ends \subseteq 1..Len(body) + 1
           /\ \A b, c \in First : b = c
           /\ \A m \in Ends : m = Len(body) + 1 \/ (body[m] = ";" /\ \E b \in First : b < m)
           /\ \A b \in First : b = 0 \/ body[b] = "BEGIN"
<1>1. Len(body) \in Nat /\ DOMAIN body = 1..Len(body)
  BY LenProperties DEF BodyOK
<1>2. First \subseteq 0..Len(body) /\ \A b \in First : b = 0 \/ body[b] = "BEGIN"
  BY <1>1 DEF First, Begins
<1>3. \A b, c \in First : b = c
  <2> SUFFICES ASSUME NEW b \in First, NEW c \in First, b # c PROVE FALSE
    OBVIOUS
  <2>1. b \in Begins /\ c \in Begins /\ b \in Int /\ c \in Int
    BY <1>1 DEF First, Begins
  <2>2. b \in 1..(c - 1) \/ c \in 1..(b - 1)
    BY <1>1, <2>1 DEF Begins
  <2> QED
    BY <2>1, <2>2 DEF Begins
<1>4. /\ Ends \subseteq 1..Len(body) + 1
      /\ \A m \in Ends : m = Len(body) + 1 \/ (body[m] = ";" /\ \E b \in First : b < m)
  <2> SUFFICES ASSUME NEW m \in Ends
               PROVE  m \in 1..Len(body) + 1 /\ (m = Len(body) + 1 \/ (body[m] = ";" /\ \E b \in First : b < m))
    OBVIOUS
  <2>1. m = Len(body) + 1 \/ (m \in 1..Len(body) /\ body[m] = ";" /\ \E b \in First : b < m)
    BY <1>1 DEF Ends
  <2>2. Len(body) + 1 \in 1..Len(body) + 1 /\ \A j \in 1..Len(body) : j \in 1..Len(body) + 1
    BY <1>1
  <2>3. m \in 1..Len(body) + 1
    BY <2>1, <2>2
  <2> QED
    BY <2>1, <2>3
<1>5. read \in Nat /\ segStart \in Nat
  BY <1>1 DEF BodyOK
<1> QED
  BY <1>1, <1>2, <1>3, <1>4, <1>5

LEMMA Bounds ==
    ASSUME BodyOK
    PROVE  /\ Len(body) \in Nat /\ read \in 0..Len(body) /\ segStart \in 0..read
           /\ DOMAIN body = 1..Len(body)
           /\ \A m \in First \cup Ends : m \in Int /\ 0 <= m /\ m <= Len(body) + 1
<1>1. /\ Len(body) \in Nat /\ First \subseteq 0..Len(body) /\ Ends \subseteq 1..Len(body) + 1
      /\ DOMAIN body = 1..Len(body)
  BY Positions
<1>2. \A m \in First : m \in Int /\ 0 <= m /\ m <= Len(body) + 1
  BY <1>1
<1>3. \A m \in Ends : m \in Int /\ 0 <= m /\ m <= Len(body) + 1
  BY <1>1
<1>4. read \in 0..Len(body) /\ segStart \in 0..read
  BY DEF BodyOK
<1> QED
  BY <1>1, <1>2, <1>3, <1>4

\* What a segment opens after lies between the start of the body and the segment.
LEMMA OpensAfter ==
    ASSUME BodyOK, NEW i \in DOMAIN body, NEW from \in First \cup Ends, Opens(i, from),
           NEW b \in First
    PROVE  b <= from /\ b < i /\ from < i /\ i \in Int /\ from \in Int /\ b \in Int
<1>1. from < i /\ i \in Int /\ i < Len(body) + 1 /\ from \in Int /\ b \in Int
  <2>1. /\ First \subseteq 0..Len(body) /\ Ends \subseteq 1..Len(body) + 1
        /\ i \in 1..Len(body) /\ Len(body) \in Nat
    BY Positions
  <2>2. from \in 0..Len(body) \/ from \in 1..Len(body) + 1
    BY <2>1
  <2>3. b \in 0..Len(body)
    BY <2>1
  <2>4. from < i
    BY DEF Opens
  <2> QED
    BY <2>1, <2>2, <2>3, <2>4
<1>2. b <= from
  <2>1. CASE from \in First
    <3>1. b = from
      BY <2>1, Positions
    <3> QED
      BY <1>1, <3>1
  <2>2. CASE from \in Ends
    <3>1. from # Len(body) + 1
      BY <1>1
    <3>2. PICK c \in First : c < from
      BY <2>2, <3>1, Positions
    <3>3. b = c
      BY Positions
    <3> QED
      BY <1>1, <3>2, <3>3
  <2> QED
    BY <2>1, <2>2
<1> QED
  BY <1>1, <1>2

\* Until the first BEGIN has been read, nothing has begun.
LEMMA BeforeBegin ==
    ASSUME BodyOK, ScanOK, pc = "scan", ~pastBegin, NEW b \in First
    PROVE  read < b /\ b \in Begins
<1>1. b \in Begins /\ b \in 1..Len(body) /\ body[b] = "BEGIN"
  <2>1. b \in Begins
    BY DEF ScanOK, First
  <2> QED
    BY <2>1, Bounds DEF Begins
<1>2. b \notin 1..read
  BY <1>1 DEF ScanOK
<1> QED
  BY <1>1, <1>2, Bounds

-----------------------------------------------------------------------------
(* The segment that ends with the next token                                *)

\* It begins where the scanner has it begin ...
LEMMA SegmentAtHand ==
    ASSUME BodyOK, ScanOK, pc = "scan", segStart > 0, NEW n \in Ends, n = read + 1
    PROVE  segStart \in DOMAIN body /\ Segment(segStart, n)
<1>1. /\ read \in 0..Len(body) /\ Len(body) \in Nat /\ segStart \in 1..read
      /\ segStart \in DOMAIN body /\ \A m \in Ends : m \in Int
  <2>1. segStart \in 1..Len(body) /\ segStart \in 1..read
    BY Bounds
  <2> QED
    BY <2>1, Bounds
<1>2. \A m \in Ends : segStart < m => n <= m
  <2> SUFFICES ASSUME NEW m \in Ends, segStart < m, ~(n <= m) PROVE FALSE
    OBVIOUS
  <2>1. m \in segStart..read /\ m # Len(body) + 1
    BY <1>1
  <2>2. body[m] = ";"
    BY <2>1, Positions
  <2> QED
    BY <2>1, <2>2, <1>1 DEF ScanOK
<1>3. segStart < n
  BY <1>1
<1> QED
  BY <1>1, <1>2, <1>3 DEF ScanOK, Segment

\* ... and nowhere else ...
LEMMA OnlySegmentAtHand ==
    ASSUME BodyOK, ScanOK, pc = "scan", segStart > 0, NEW n \in Ends, n = read + 1,
           NEW i \in DOMAIN body, Segment(i, n)
    PROVE  i = segStart
<1>1. /\ read \in 0..Len(body) /\ Len(body) \in Nat /\ segStart \in 1..read
      /\ segStart \in DOMAIN body /\ i \in 1..Len(body) /\ i < n
  <2>1. segStart \in 1..Len(body) /\ segStart \in 1..read
    BY Bounds
  <2>2. i < n
    BY DEF Segment
  <2> QED
    BY <2>1, <2>2, Bounds
<1>2. PICK from \in First \cup Ends : Opens(segStart, from)
  BY <1>1 DEF ScanOK
<1>3. PICK start \in First \cup Ends : Opens(i, start)
  BY DEF Segment
<1>4. PICK b \in First : b <= read
  BY <1>1 DEF ScanOK
<1>5. b <= from /\ b < segStart /\ from < segStart /\ from \in Int /\ b \in Int
  BY <1>1, <1>2, OpensAfter
<1>6. b <= start /\ b < i /\ start < i /\ start \in Int
  BY <1>3, OpensAfter
<1>7. ASSUME NEW m \in First \cup Ends, b < m, m <= read PROVE m \in Ends /\ body[m] = ";"
  <2>1. m \notin First
    <3> SUFFICES ASSUME m \in First PROVE FALSE
      OBVIOUS
    <3>1. m = b
      BY Positions
    <3> QED
      BY <1>5, <1>7, <3>1
  <2>2. m # Len(body) + 1
    BY <1>1, <1>7
  <2> QED
    BY <2>1, <2>2, Positions
<1>8. body[i] \notin {"COMMENT", ";"} /\ body[segStart] \notin {"COMMENT", ";"}
  BY <1>2, <1>3 DEF Opens
<1>9. CASE i < segStart
  <2>1. CASE from < i
    <3>1. i \in (from + 1)..(segStart - 1)
      BY <1>1, <1>5, <1>9, <2>1
    <3> QED
      BY <1>2, <1>8, <3>1 DEF Opens
  <2>2. CASE i <= from
    <3>1. from \in Ends /\ body[from] = ";"
      <4>1. b < from /\ from <= read
        BY <1>1, <1>5, <1>6, <2>2
      <4> QED
        BY <1>7, <4>1
    <3>2. i < from
      <4>1. i # from
        BY <1>8, <3>1
      <4> QED
        BY <1>1, <1>5, <2>2, <4>1
    <3>3. n <= from
      BY <3>1, <3>2 DEF Segment
    <3> QED
      BY <1>1, <1>5, <3>3
  <2> QED
    BY <1>1, <1>5, <2>1, <2>2
<1>10. CASE segStart < i
  <2>1. CASE start < segStart
    <3>1. segStart \in (start + 1)..(i - 1)
      BY <1>1, <1>6, <1>10, <2>1
    <3> QED
      BY <1>3, <1>8, <3>1 DEF Opens
  <2>2. CASE segStart <= start
    <3>1. start \in segStart..read /\ b < start
      BY <1>1, <1>5, <1>6, <2>2
    <3>2. body[start] = ";"
      <4>1. start <= read
        BY <1>1, <3>1
      <4> QED
        BY <1>7, <3>1, <4>1
    <3> QED
      BY <1>1, <3>1, <3>2 DEF ScanOK
  <2> QED
    BY <1>1, <1>6, <2>1, <2>2
<1> QED
  BY <1>1, <1>9, <1>10

\* ... and there is none if only comments have been read since the last one.
LEMMA NoSegmentAtHand ==
    ASSUME BodyOK, ScanOK, pc = "scan", segStart = 0, NEW n \in Ends, n = read + 1,
           NEW i \in DOMAIN body, Segment(i, n)
    PROVE  FALSE
<1>1. /\ read \in 0..Len(body) /\ Len(body) \in Nat /\ i \in 1..Len(body) /\ i < n
  BY Positions DEF BodyOK, Segment
<1>2. PICK start \in First \cup Ends : Opens(i, start)
  BY DEF Segment
<1>3. start < i /\ body[i] \notin {"COMMENT", ";"} /\ start <= read /\ start \in Int
  <2>1. start \in Int
    BY Bounds
  <2>2. start < i
    BY <1>2 DEF Opens
  <2>3. body[i] \notin {"COMMENT", ";"}
    BY <1>2 DEF Opens
  <2>4. start <= read
    BY <1>1, <2>1, <2>2
  <2> QED
    BY <2>1, <2>2, <2>3, <2>4
<1>4. PICK b \in First : b <= start /\ b < i
  <2>1. \E b \in First : TRUE
    <3>1. CASE start \in First
      BY <3>1
    <3>2. CASE start \in Ends
      <4>1. start <= read /\ start \in Int
        BY <1>3
      <4>2. start # Len(body) + 1
        BY <1>1, <4>1
      <4> QED
        BY <3>2, <4>2, Positions
    <3> QED
      BY <3>1, <3>2
  <2> QED
    BY <1>2, <2>1, OpensAfter
<1>5. b \in Int /\ b <= read
  <2>1. b \in Int
    BY Bounds
  <2>2. b <= start
    BY <1>4
  <2>3. start <= read /\ start \in Int
    BY <1>3
  <2>4. read \in Int
    BY <1>1
  <2> QED
    BY <2>1, <2>2, <2>3, <2>4
<1>6. PICK from \in First \cup Ends :
          from <= read /\ \A j \in (from + 1)..read : body[j] = "COMMENT"
  <2>1. pastBegin
    <3> SUFFICES ASSUME ~pastBegin PROVE FALSE
      OBVIOUS
    <3>1. read < b
      BY BeforeBegin
    <3> QED
      BY <1>1, <1>5, <3>1
  <2> QED
    BY <2>1 DEF ScanOK
<1>7. from \in Int
  BY Bounds
<1>8. i <= from
  <2> SUFFICES ASSUME from < i PROVE FALSE
    BY <1>1, <1>7
  <2>1. i \in (from + 1)..read
    BY <1>1, <1>7
  <2> QED
    BY <1>3, <1>6, <2>1
<1>9. from \in Ends /\ body[from] = ";"
  <2>1. from \notin First
    <3> SUFFICES ASSUME from \in First PROVE FALSE
      OBVIOUS
    <3>1. from = b
      BY Positions
    <3> QED
      BY <1>1, <1>4, <1>5, <1>8, <3>1
  <2>2. from # Len(body) + 1
    BY <1>1, <1>6
  <2> QED
    BY <2>1, <2>2, Positions
<1>10. i < from
  <2>1. i # from
    BY <1>3, <1>9
  <2> QED
    BY <1>1, <1>7, <1>8, <2>1
<1>11. n <= from
  BY <1>9, <1>10 DEF Segment
<1> QED
  BY <1>1, <1>6, <1>7, <1>11

\* One more token completes at most the segment at hand.
LEMMA OneMoreToken ==
    ASSUME BodyOK, ScanOK, pc = "scan"
    PROVE  SegmentsUpTo(read + 1) =
               SegmentsUpTo(read)
                   \cup (IF read + 1 \in Ends /\ segStart > 0 /\ body[segStart] \notin Structural
                         THEN {PointAt(<<segStart, read + 1>>)} ELSE {})
<1> DEFINE r == read + 1
           S(m) == {y \in (DOMAIN body) \X Ends :
                        Segment(y[1], y[2]) /\ body[y[1]] \notin Structural /\ y[2] <= m}
           N == IF r \in Ends /\ segStart > 0 /\ body[segStart] \notin Structural
                THEN {<<segStart, r>>} ELSE {}
<1>1. \A m \in Ends : m <= r <=> m <= read \/ m = r
  BY Bounds
<1>2. N \subseteq S(r)
  <2> SUFFICES ASSUME r \in Ends, segStart > 0, body[segStart] \notin Structural
               PROVE  <<segStart, r>> \in S(r)
    OBVIOUS
  <2>1. segStart \in DOMAIN body /\ Segment(segStart, r)
    BY SegmentAtHand
  <2>2. r <= r
    BY Bounds
  <2> QED
    BY <2>1, <2>2
<1>3. S(r) \subseteq S(read) \cup N
  <2> SUFFICES ASSUME NEW i \in DOMAIN body, NEW n \in Ends, Segment(i, n),
                      body[i] \notin Structural, n <= r, ~(n <= read)
               PROVE  <<i, n>> \in N
    OBVIOUS
  <2>1. n = r
    BY <1>1
  <2>2. segStart # 0
    BY <2>1, NoSegmentAtHand
  <2>3. segStart > 0
    BY <2>2, Bounds
  <2>4. i = segStart
    BY <2>1, <2>3, OnlySegmentAtHand
  <2> QED
    BY <2>1, <2>3, <2>4
<1>4. S(read) \subseteq S(r)
  BY <1>1
<1>5. S(r) = S(read) \cup N
  BY <1>2, <1>3, <1>4
<1>6. SegmentsUpTo(r) = {PointAt(x) : x \in S(r)} /\ SegmentsUpTo(read) = {PointAt(x) : x \in S(read)}
  BY DEF SegmentsUpTo
<1>7. {PointAt(x) : x \in S(read) \cup N} = {PointAt(x) : x \in S(read)} \cup {PointAt(x) : x \in N}
  OBVIOUS
<1>8. {PointAt(x) : x \in N} =
          IF r \in Ends /\ segStart > 0 /\ body[segStart] \notin Structural
          THEN {PointAt(<<segStart, r>>)} ELSE {}
  OBVIOUS
<1> QED
  BY <1>5, <1>6, <1>7, <1>8

-----------------------------------------------------------------------------
(* Steps                                                                    *)

\* The points after one more.
LEMMA OneMorePoint ==
    ASSUME NEW S, NEW l \in Seq(S), NEW e \in S
    PROVE  /\ Append(l, e) \in Seq(S)
           /\ {Append(l, e)[i] : i \in DOMAIN Append(l, e)} = {l[i] : i \in DOMAIN l} \cup {e}
<1>1. /\ Append(l, e) \in Seq(S) /\ Len(Append(l, e)) = Len(l) + 1 /\ Len(l) \in Nat
      /\ \A i \in 1..Len(l) : Append(l, e)[i] = l[i]
      /\ Append(l, e)[Len(l) + 1] = e
  BY AppendProperties, LenProperties
<1>2. DOMAIN Append(l, e) = 1..(Len(l) + 1) /\ DOMAIN l = 1..Len(l)
  BY <1>1, LenProperties
<1>3. 1..(Len(l) + 1) = (1..Len(l)) \cup {Len(l) + 1}
  BY <1>1
<1> QED
  BY <1>1, <1>2, <1>3

\* What is emitted for the segment at hand.
LEMMA Emitting ==
    ASSUME BodyOK, segStart > 0, EmitSegment(read + 1)
    PROVE  /\ locations' \in Seq([start : Nat, length : Int, implicit : BOOLEAN])
           /\ {locations'[i] : i \in DOMAIN locations'} =
                  {locations[i] : i \in DOMAIN locations}
                      \cup (IF body[segStart] \notin Structural THEN {PointAt(<<segStart, read + 1>>)} ELSE {})
<1> DEFINE p == PointAt(<<segStart, read + 1>>)
           R == [start : Nat, length : Int, implicit : BOOLEAN]
<1>1. p = Point(read + 1) /\ p \in R
  BY Bounds DEF Point, PointAt
<1>2. locations \in Seq(R)
  BY DEF BodyOK
<1> HIDE DEF p, R
<1>3. CASE IsExecutableSegment
  <2>1. locations' = Append(locations, p)
    BY <1>1, <1>3 DEF EmitSegment
  <2>2. Append(locations, p) \in Seq(R)
    BY <1>1, <1>2, OneMorePoint
  <2>3. {Append(locations, p)[i] : i \in DOMAIN Append(locations, p)}
            = {locations[i] : i \in DOMAIN locations} \cup {p}
    BY <1>1, <1>2, OneMorePoint
  <2> QED
    BY <1>3, <2>1, <2>2, <2>3 DEF IsExecutableSegment, p, R
<1>4. CASE ~IsExecutableSegment
  <2>1. locations' = locations
    BY <1>4 DEF EmitSegment, result
  <2> QED
    BY <1>2, <1>4, <2>1 DEF IsExecutableSegment, R
<1> QED
  BY <1>3, <1>4

\* The statements of a body depend on nothing else.
LEMMA SameBody ==
    ASSUME UNCHANGED <<kind, body>>, NEW m
    PROVE  First' = First /\ Ends' = Ends /\ SegmentsUpTo(m)' = SegmentsUpTo(m)
<1>1. Begins' = Begins
  BY DEF Begins
<1>2. First' = First
  BY <1>1 DEF First
<1>3. Ends' = Ends
  BY <1>2 DEF Ends
<1> QED
  BY <1>2, <1>3 DEF SegmentsUpTo, Segment, Opens

LEMMA IInvInit ==
    ASSUME NEW k \in {"plpgsql", "sql"}, NEW b \in Seq(STRING), Begin(k, b)
    PROVE  IInv
<1>1. BodyOK
  <2>1. Len(b) \in Nat
    BY LenProperties
  <2> QED
    BY <2>1, EmptySeq DEF Begin, BodyOK
<1>2. ScanOK
  <2>1. kind = "sql" => 0 \in First
    BY DEF First
  <2>2. pc = "scan" /\ read = 0 /\ segStart = 0 /\ (pastBegin <=> kind # "plpgsql") /\ kind = k
    BY DEF Begin
  <2>3. pastBegin => 0 \in First
    BY <2>1, <2>2
  <2> QED
    BY <2>2, <2>3 DEF ScanOK
<1>3. LocationsOK
  <2>1. locations = <<>> /\ DOMAIN locations = {} /\ read = 0 /\ pc = "scan"
    BY DEF Begin
  <2>2. SegmentsUpTo(0) = {}
    <3>1. \A m \in Ends : ~(m <= 0)
      <4>1. Ends \subseteq 1..Len(body) + 1 /\ Len(body) \in Nat
        BY <1>1, Positions
      <4> QED
        BY <4>1
    <3> QED
      BY <3>1 DEF SegmentsUpTo
  <2> QED
    BY <2>1, <2>2 DEF LocationsOK
<1> QED
  BY <1>1, <1>2, <1>3 DEF IInv

\* The token the scanner returns next.
LEMMA TokenRead ==
    ASSUME IInv, Scan
    PROVE  /\ BodyOK /\ ScanOK /\ LocationsOK /\ pc = "scan" /\ pc' = "scan"
           /\ kind' = kind /\ body' = body /\ read' = read + 1
           /\ read \in Nat /\ read + 1 \in Nat /\ read + 1 \in 1..Len(body)
<1>1. /\ BodyOK /\ ScanOK /\ LocationsOK /\ pc = "scan" /\ pc' = "scan"
      /\ kind' = kind /\ body' = body /\ read' = read + 1 /\ read < Len(body)
  BY DEF IInv, Scan
<1>2. read \in Nat /\ Len(body) \in Nat /\ DOMAIN body = 1..Len(body)
  BY <1>1, Bounds
<1>3. read + 1 \in Nat /\ read + 1 \in 1..Len(body)
  BY <1>1, <1>2
<1> QED
  BY <1>1, <1>2, <1>3

LEMMA TokenEnds ==
    ASSUME IInv, Scan
    PROVE  read + 1 \in Ends <=> NextToken = ";" /\ pastBegin
<1>1. BodyOK /\ ScanOK /\ pc = "scan"
  BY TokenRead
<1>2. read \in Nat /\ Len(body) \in Nat /\ DOMAIN body = 1..Len(body)
  BY <1>1, TokenRead, Bounds
<1>3. read + 1 \in 1..Len(body) /\ read + 1 # Len(body) + 1
  BY <1>2, TokenRead
<1>5. read + 1 \in Ends <=> body[read + 1] = ";" /\ \E b \in First : b < read + 1
  BY <1>2, <1>3 DEF Ends
<1>6. (\E b \in First : b < read + 1) <=> pastBegin
  <2>1. ASSUME pastBegin PROVE \E b \in First : b < read + 1
    <3>1. PICK b \in First : b <= read
      BY <1>1, <2>1 DEF ScanOK
    <3>2. b \in Int
      BY <1>1, Bounds
    <3> QED
      BY <1>2, <3>1, <3>2
  <2>2. ASSUME ~pastBegin, NEW b \in First PROVE ~(b < read + 1)
    <3>1. read < b /\ b \in Int
      BY <1>1, <2>2, BeforeBegin, Bounds
    <3> QED
      BY <1>2, <3>1
  <2> QED
    BY <2>1, <2>2
<1> QED
  BY <1>5, <1>6 DEF NextToken

\* The points keep up with the scanner if the segment that ends is recorded.
LEMMA PointsKeepUp ==
    ASSUME IInv, Scan,
           {locations'[i] : i \in DOMAIN locations'} =
               {locations[i] : i \in DOMAIN locations}
                   \cup (IF read + 1 \in Ends /\ segStart > 0 /\ body[segStart] \notin Structural
                         THEN {PointAt(<<segStart, read + 1>>)} ELSE {})
    PROVE  LocationsOK'
<1>1. PICK r \in Nat : r = read + 1
  BY TokenRead
<1>2. SegmentsUpTo(r) = {locations'[i] : i \in DOMAIN locations'}
  BY <1>1, TokenRead, OneMoreToken DEF LocationsOK
<1>3. SegmentsUpTo(r)' = SegmentsUpTo(r)
  BY TokenRead, SameBody
<1>4. read' = r /\ pc' = "scan"
  BY <1>1, TokenRead
<1> QED
  BY <1>2, <1>3, <1>4 DEF LocationsOK

LEMMA SkipToBeginNext == IInv /\ SkipToBegin => IInv'
<1> SUFFICES ASSUME IInv, SkipToBegin PROVE IInv'
  OBVIOUS
<1>1. /\ Scan /\ ~pastBegin /\ (pastBegin' <=> NextToken = "BEGIN") /\ pastBegin' \in BOOLEAN
      /\ segStart' = segStart /\ locations' = locations
  BY DEF SkipToBegin, result
<1>2. segStart = 0 /\ kind = "plpgsql" /\ \A j \in 1..read : body[j] # "BEGIN"
  <2>1. segStart \in Nat /\ ScanOK /\ pc = "scan"
    BY <1>1, TokenRead, Positions
  <2>2. ~(segStart > 0)
    BY <1>1, <2>1 DEF ScanOK
  <2>3. segStart = 0
    BY <2>1, <2>2
  <2> QED
    BY <1>1, <2>1, <2>3 DEF ScanOK
<1>3. BodyOK'
  <2>1. read + 1 \in 0..Len(body) /\ 0 \in 0..(read + 1)
    BY <1>1, TokenRead
  <2> QED
    BY <1>1, <1>2, <2>1, TokenRead DEF BodyOK
<1>4. LocationsOK'
  BY <1>1, <1>2, PointsKeepUp
<1>5. PICK r \in Nat : r = read + 1
  BY <1>1, TokenRead
<1>6. /\ First' = First /\ Ends' = Ends /\ pc' = "scan" /\ kind' = kind /\ body' = body /\ read' = r
      /\ r \in 1..Len(body) /\ (pastBegin' <=> body[r] = "BEGIN")
      /\ \A j \in 1..r : j \in 1..read \/ j = r
  <2>1. \A j \in 1..r : j \in 1..read \/ j = r
    BY <1>1, <1>5, TokenRead
  <2>2. r \in 1..Len(body) /\ body' = body /\ kind' = kind /\ pc' = "scan" /\ read' = r
    BY <1>1, <1>5, TokenRead
  <2>3. First' = First /\ Ends' = Ends
    BY <2>2, SameBody
  <2>4. pastBegin' <=> body[r] = "BEGIN"
    BY <1>1, <1>5 DEF NextToken
  <2> QED
    BY <2>1, <2>2, <2>3, <2>4
<1>7. ~pastBegin' => kind' = "plpgsql" /\ \A j \in 1..r : body'[j] # "BEGIN"
  BY <1>2, <1>6
<1>8. pastBegin' => r \in First
  <2> SUFFICES ASSUME pastBegin' PROVE r \in Begins
    BY <1>2 DEF First
  <2>1. r - 1 = read /\ DOMAIN body = 1..Len(body)
    <3>1. read \in Nat /\ BodyOK
      BY <1>1, TokenRead
    <3> QED
      BY <1>5, <3>1, Bounds
  <2> QED
    BY <1>2, <1>6, <2>1 DEF Begins
<1>9. r <= r /\ (r + 1)..r = {}
  OBVIOUS
<1>10. ScanOK'
  BY <1>1, <1>2, <1>6, <1>7, <1>8, <1>9 DEF ScanOK
<1> QED
  BY <1>3, <1>4, <1>10 DEF IInv

\* The scanner has moved on by one token, and the statements are the same.
LEMMA Moved ==
    ASSUME IInv, Scan, NEW r \in Nat, r = read + 1
    PROVE  /\ First' = First /\ Ends' = Ends /\ pc' = "scan" /\ kind' = kind /\ body' = body /\ read' = r
           /\ r \in 0..Len(body) /\ segStart \in 0..r /\ segStart \in Int
           /\ \A from \in First \cup Ends :
                  from \in Int /\ from + 1 \in Int /\ (from <= read => from <= r /\ from < r)
           /\ \A m \in Int : \A j \in m..r : j \in m..read \/ j = r
<1>1. /\ BodyOK /\ read \in Nat /\ read + 1 \in 1..Len(body) /\ read' = read + 1
      /\ body' = body /\ kind' = kind /\ pc' = "scan"
  BY TokenRead
<1>2. First' = First /\ Ends' = Ends
  BY <1>1, SameBody
<1>3. /\ Len(body) \in Nat /\ segStart \in 0..read
      /\ \A m \in First \cup Ends : m \in Int
  BY <1>1, Bounds
<1>4. r \in 0..Len(body) /\ segStart \in 0..r /\ segStart \in Int
  BY <1>1, <1>3
<1>5. ASSUME NEW from \in First \cup Ends
      PROVE  from \in Int /\ from + 1 \in Int /\ (from <= read => from <= r /\ from < r)
  <2>1. from \in Int
    BY <1>3
  <2> QED
    BY <1>1, <2>1
<1>6. \A m \in Int : \A j \in m..r : j \in m..read \/ j = r
  BY <1>1
<1> QED
  BY <1>1, <1>2, <1>4, <1>5, <1>6

\* The scanner is past token r of the body, in a statement that opens at s unless s is 0.
ScanAt(r, s) ==
    /\ \E b \in First : b <= r
    /\ s = 0 => \E from \in First \cup Ends : from <= r /\ \A j \in (from + 1)..r : body[j] = "COMMENT"
    /\ s > 0 => /\ \E from \in First \cup Ends : Opens(s, from)
                /\ \A j \in s..r : body[j] # ";"

LEMMA ScanAtNext ==
    ASSUME NEW r, NEW s, ScanAt(r, s), read' = r, segStart' = s, pastBegin' = TRUE, pc' = "scan",
           First' = First, Ends' = Ends, body' = body
    PROVE  ScanOK'
<1>1. \E b \in First : b <= r
  BY DEF ScanAt
<1>2. s = 0 => \E from \in First \cup Ends : from <= r /\ \A j \in (from + 1)..r : body[j] = "COMMENT"
  BY DEF ScanAt
<1>3. s > 0 => /\ \E from \in First \cup Ends : Opens(s, from)
               /\ \A j \in s..r : body[j] # ";"
  BY DEF ScanAt
<1> QED
  BY <1>1, <1>2, <1>3 DEF ScanOK, Opens

LEMMA SkipCommentNext == IInv /\ SkipComment => IInv'
<1> SUFFICES ASSUME IInv, SkipComment PROVE IInv'
  OBVIOUS
<1>1. /\ Scan /\ pastBegin /\ NextToken = "COMMENT"
      /\ pastBegin' = pastBegin /\ segStart' = segStart /\ locations' = locations
  BY DEF SkipComment, result, segment
<1>2. BodyOK /\ ScanOK /\ pc = "scan" /\ \E r \in Nat : r = read + 1
  BY <1>1, TokenRead
<1>3. PICK r \in Nat : r = read + 1
  BY <1>2
<1>4. body[r] = "COMMENT" /\ read + 1 \notin Ends
  BY <1>1, <1>3, TokenEnds DEF NextToken
<1>5. BodyOK'
  BY <1>1, <1>2, <1>3, Moved DEF BodyOK
<1>6. LocationsOK'
  BY <1>1, <1>4, PointsKeepUp
<1>7. /\ First' = First /\ Ends' = Ends /\ pc' = "scan" /\ kind' = kind /\ body' = body /\ read' = r
      /\ segStart \in Int
      /\ \A from \in First \cup Ends : from + 1 \in Int /\ (from <= read => from <= r)
      /\ \A m \in Int : \A j \in m..r : j \in m..read \/ j = r
  BY <1>1, <1>3, Moved
<1>8. ScanOK'
  <2>1. \E b \in First : b <= r
    BY <1>1, <1>2, <1>7 DEF ScanOK
  <2>2. segStart = 0 => \E from \in First \cup Ends : from <= r /\ \A j \in (from + 1)..r : body[j] = "COMMENT"
    BY <1>1, <1>2, <1>4, <1>7 DEF ScanOK
  <2>3. segStart > 0 => /\ \E from \in First \cup Ends : Opens(segStart, from)
                        /\ \A j \in segStart..r : body[j] # ";"
    BY <1>1, <1>2, <1>4, <1>7 DEF ScanOK
  <2> QED
    BY <1>1, <1>7, <2>1, <2>2, <2>3 DEF ScanOK, Opens
<1> QED
  BY <1>5, <1>6, <1>8 DEF IInv

LEMMA TakeTokenNext == IInv /\ TakeToken => IInv'
<1> SUFFICES ASSUME IInv, TakeToken PROVE IInv'
  OBVIOUS
<1>1. /\ Scan /\ pastBegin = TRUE /\ NextToken \notin {"COMMENT", ";"}
      /\ segStart' = (IF segStart = 0 THEN read + 1 ELSE segStart)
      /\ pastBegin' = TRUE /\ locations' = locations
  <2>1. pastBegin \in BOOLEAN
    BY DEF IInv, BodyOK
  <2> QED
    BY <2>1 DEF TakeToken, result
<1>2. BodyOK /\ ScanOK /\ pc = "scan" /\ read \in Nat
  BY <1>1, TokenRead
<1>3. PICK r \in Nat : r = read + 1
  BY <1>2
<1>4. body[r] \notin {"COMMENT", ";"} /\ read + 1 \notin Ends
  BY <1>1, <1>3, TokenEnds DEF NextToken
<1>5. /\ First' = First /\ Ends' = Ends /\ pc' = "scan" /\ kind' = kind /\ body' = body /\ read' = r
      /\ segStart \in Int /\ segStart \in 0..r /\ r \in 0..Len(body)
      /\ \A from \in First \cup Ends : from + 1 \in Int /\ (from <= read => from <= r /\ from < r)
      /\ \A m \in Int : \A j \in m..r : j \in m..read \/ j = r
  BY <1>1, <1>3, Moved
<1>6. segStart' = (IF segStart = 0 THEN r ELSE segStart)
  BY <1>1, <1>3
<1>7. segStart' \in 0..r
  <2>1. r \in 0..r
    BY <1>3
  <2> QED
    BY <1>5, <1>6, <2>1
<1>8. BodyOK'
  <2>1. /\ kind \in {"plpgsql", "sql"} /\ body \in Seq(STRING)
        /\ locations \in Seq([start : Nat, length : Int, implicit : BOOLEAN])
    BY <1>2 DEF BodyOK
  <2> QED
    BY <1>1, <1>5, <1>7, <2>1 DEF BodyOK
<1>9. LocationsOK'
  BY <1>1, <1>4, PointsKeepUp
<1>10. \E b \in First : b <= r
  <2>1. \E b \in First : b <= read
    BY <1>1, <1>2 DEF ScanOK
  <2> QED
    BY <1>5, <2>1
<1>11. ScanAt(r, segStart')
  <2>1. CASE segStart = 0
    <3>1. PICK from \in First \cup Ends :
              from <= read /\ \A j \in (from + 1)..read : body[j] = "COMMENT"
      BY <1>1, <1>2, <2>1 DEF ScanOK
    <3>2. r - 1 = read /\ r # 0 /\ \A j \in r..r : j = r
      BY <1>2, <1>3
    <3>3. from < r
      BY <1>5, <3>1
    <3>4. Opens(r, from)
      BY <1>4, <3>1, <3>2, <3>3 DEF Opens
    <3>5. \A j \in r..r : body[j] # ";"
      BY <1>4, <3>2
    <3>6. segStart' = r
      BY <1>6, <2>1
    <3> QED
      BY <1>10, <3>2, <3>4, <3>5, <3>6 DEF ScanAt
  <2>2. CASE segStart # 0
    <3>1. segStart > 0
      BY <1>5, <2>2
    <3>2. segStart' = segStart
      BY <1>6, <2>2
    <3>3. \E from \in First \cup Ends : Opens(segStart, from)
      BY <1>2, <3>1 DEF ScanOK
    <3>4. \A j \in segStart..read : body[j] # ";"
      BY <1>2, <3>1 DEF ScanOK
    <3>5. \A j \in segStart..r : body[j] # ";"
      BY <1>4, <1>5, <3>4
    <3> QED
      BY <1>10, <2>2, <3>2, <3>3, <3>5 DEF ScanAt
  <2> QED
    BY <2>1, <2>2
<1>12. ScanOK'
  BY <1>1, <1>5, <1>11, ScanAtNext
<1> QED
  BY <1>8, <1>9, <1>12 DEF IInv

LEMMA EndSegmentNext == IInv /\ EndSegment => IInv'
<1> SUFFICES ASSUME IInv, EndSegment PROVE IInv'
  OBVIOUS
<1>1. /\ Scan /\ pastBegin = TRUE /\ NextToken = ";" /\ segStart' = 0 /\ pastBegin' = TRUE
      /\ IF segStart > 0 THEN EmitSegment(read + 1) ELSE locations' = locations
  <2>1. pastBegin \in BOOLEAN
    BY DEF IInv, BodyOK
  <2> QED
    BY <2>1 DEF EndSegment, result
<1>2. BodyOK /\ ScanOK /\ pc = "scan" /\ read \in Nat
  BY <1>1, TokenRead
<1>3. PICK r \in Nat : r = read + 1
  BY <1>2
<1>4. read + 1 \in Ends
  BY <1>1, TokenEnds
<1>5. /\ locations' \in Seq([start : Nat, length : Int, implicit : BOOLEAN])
      /\ {locations'[i] : i \in DOMAIN locations'} =
             {locations[i] : i \in DOMAIN locations}
                 \cup (IF segStart > 0 /\ body[segStart] \notin Structural
                       THEN {PointAt(<<segStart, read + 1>>)} ELSE {})
  <2>1. CASE segStart > 0
    BY <1>1, <1>2, <2>1, Emitting
  <2>2. CASE ~(segStart > 0)
    BY <1>1, <1>2, <2>2 DEF BodyOK
  <2> QED
    BY <2>1, <2>2
<1>6. LocationsOK'
  BY <1>1, <1>4, <1>5, PointsKeepUp
<1>7. /\ First' = First /\ Ends' = Ends /\ pc' = "scan" /\ kind' = kind /\ body' = body /\ read' = r
      /\ r \in 0..Len(body) /\ \A from \in First \cup Ends : from <= read => from <= r
  BY <1>1, <1>3, Moved
<1>8. BodyOK'
  <2>1. /\ kind \in {"plpgsql", "sql"} /\ body \in Seq(STRING)
    BY <1>2 DEF BodyOK
  <2>2. 0 \in 0..r
    BY <1>3
  <2> QED
    BY <1>1, <1>5, <1>7, <2>1, <2>2 DEF BodyOK
<1>9. ScanAt(r, 0)
  <2>1. \E b \in First : b <= read
    BY <1>1, <1>2 DEF ScanOK
  <2>2. \E b \in First : b <= r
    BY <1>7, <2>1
  <2>3. r \in Ends
    BY <1>3, <1>4
  <2>4. r <= r /\ (r + 1)..r = {} /\ ~(0 > 0)
    BY <1>3
  <2> QED
    BY <2>2, <2>3, <2>4 DEF ScanAt
<1>10. ScanOK'
  BY <1>1, <1>7, <1>9, ScanAtNext
<1> QED
  BY <1>6, <1>8, <1>10 DEF IInv

LEMMA EndOfBodyNext == IInv /\ EndOfBody => IInv'
<1> SUFFICES ASSUME IInv, EndOfBody PROVE IInv'
  OBVIOUS
<1>1. /\ pc = "scan" /\ pc' = "flush" /\ read = Len(body) /\ segStart' = 0
      /\ UNCHANGED <<kind, body, read, pastBegin>>
      /\ IF segStart > 0 THEN EmitSegment(Len(body) + 1) ELSE locations' = locations
  BY DEF EndOfBody, result
<1>2. BodyOK /\ ScanOK /\ LocationsOK
  BY DEF IInv
<1>3. PICK r \in Nat : r = read + 1 /\ r = Len(body) + 1
  BY <1>1, <1>2, Bounds
<1>4. r \in Ends
  BY <1>3 DEF Ends
<1>5. /\ locations' \in Seq([start : Nat, length : Int, implicit : BOOLEAN])
      /\ {locations'[i] : i \in DOMAIN locations'} =
             {locations[i] : i \in DOMAIN locations}
                 \cup (IF segStart > 0 /\ body[segStart] \notin Structural
                       THEN {PointAt(<<segStart, read + 1>>)} ELSE {})
  <2>1. CASE segStart > 0
    BY <1>1, <1>2, <2>1, Emitting
  <2>2. CASE ~(segStart > 0)
    BY <1>1, <1>2, <2>2 DEF BodyOK
  <2> QED
    BY <2>1, <2>2
<1>6. SegmentsUpTo(r) = {locations'[i] : i \in DOMAIN locations'}
  BY <1>1, <1>2, <1>3, <1>4, <1>5, OneMoreToken DEF LocationsOK
<1>7. SegmentsUpTo(r)' = SegmentsUpTo(r)
  BY <1>1, SameBody
<1>8. LocationsOK'
  BY <1>1, <1>3, <1>6, <1>7 DEF LocationsOK
<1>9. BodyOK'
  <2>1. 0 \in 0..read
    BY <1>2, Bounds
  <2> QED
    BY <1>1, <1>2, <1>5, <2>1 DEF BodyOK
<1>10. ScanOK'
  BY <1>1 DEF ScanOK
<1> QED
  BY <1>8, <1>9, <1>10 DEF IInv

\* What comes after the scan adds no points.
LEMMA FlushNext == IInv /\ (Flush \/ MarkStatement \/ UNCHANGED vars) => IInv'
<1> SUFFICES ASSUME IInv, Flush \/ MarkStatement \/ UNCHANGED vars PROVE IInv'
  OBVIOUS
<1>0. BodyOK /\ ScanOK /\ LocationsOK
  BY DEF IInv
<1>1. /\ UNCHANGED <<kind, body, read, segStart, pastBegin, locations>>
      /\ pc' = pc \/ (pc = "flush" /\ pc' = "done")
  BY <1>0 DEF Flush, MarkStatement, Instrumented, BodyOK, vars, segment, result
<1>2. BodyOK'
  BY <1>0, <1>1 DEF BodyOK
<1>3. First' = First /\ Ends' = Ends /\ \A m \in Int : SegmentsUpTo(m)' = SegmentsUpTo(m)
  BY <1>1, SameBody
<1>4. ScanOK'
  BY <1>0, <1>1, <1>3 DEF ScanOK, Opens
<1>5. PICK m \in Int : m = IF pc = "scan" THEN read ELSE Len(body) + 1
  BY <1>0, Bounds
<1>6. m = IF pc' = "scan" THEN read' ELSE Len(body') + 1
  BY <1>1, <1>5
<1>7. LocationsOK'
  BY <1>0, <1>1, <1>3, <1>5, <1>6 DEF LocationsOK
<1> QED
  BY <1>2, <1>4, <1>7 DEF IInv

LEMMA Invariance == StatementSpec => []IInv
<1>1. (\E k \in {"plpgsql", "sql"}, b \in Seq(STRING) : Begin(k, b)) => IInv
  BY IInvInit
<1>2. IInv /\ [InstrumentStep]_vars => IInv'
  BY SkipToBeginNext, SkipCommentNext, TakeTokenNext, EndSegmentNext, EndOfBodyNext, FlushNext
     DEF InstrumentStep
<1> QED
  BY <1>1, <1>2, PTL DEF StatementSpec

-----------------------------------------------------------------------------
(* Theorem                                                                  *)

\* The points of a body are its segments, from one semicolon to the next, but for those
\* that begin with a marker of structure: whatever tokens the body has and however many,
\* the scan, which keeps one position and one flag, drops no segment and cuts none short.
THEOREM SegmentsFound == StatementSpec => []PointsAreSegments
<1>1. IInv => PointsAreSegments
  <2> SUFFICES ASSUME IInv, pc = "done" PROVE {locations[i] : i \in DOMAIN locations} = Segments
    BY DEF PointsAreSegments
  <2>1. {locations[i] : i \in DOMAIN locations} = SegmentsUpTo(Len(body) + 1)
    BY DEF IInv, LocationsOK
  <2>2. \A m \in Ends : m <= Len(body) + 1
    BY Bounds DEF IInv
  <2>3. SegmentsUpTo(Len(body) + 1) = Segments
    BY <2>2 DEF SegmentsUpTo, Segments, Segment, Opens, PointAt, First, Begins, Ends
  <2> QED
    BY <2>1, <2>3
<1> QED
  BY Invariance, <1>1, PTL
-----------------------------------------------------------------------------
(* What has been written                                                    *)

EndOfPoint(l) == l.start + l.length
IsText(p) == written[p][1] = "text"

\* The tokens of the body are written in order, each of them once.
TextsOK ==
    /\ written \in Seq({"text", "signal"} \X (1..Len(body)))
    /\ lastWritten \in 0..Len(body)
    /\ \A p, q \in DOMAIN written : IsText(p) /\ IsText(q) /\ p < q => written[p][2] < written[q][2]
    /\ \A p \in DOMAIN written : IsText(p) => written[p][2] <= lastWritten
    /\ \A i \in 1..lastWritten : \E p \in DOMAIN written : written[p] = <<"text", i>>

\* Points are stretches of the body that hold no semicolon, in order, none over another.
PointsOK ==
    /\ \A i \in DOMAIN locations :
          /\ locations[i].start >= 1 /\ locations[i].length >= 1 /\ ~locations[i].implicit
          /\ EndOfPoint(locations[i]) <= lastWritten + 1
          /\ EndOfPoint(locations[i]) <= Len(body) => body[EndOfPoint(locations[i])] = ";"
          /\ \A t \in TokensOf(locations[i]) : body[t] # ";"
          /\ body[locations[i].start] # "COMMENT" /\ body[locations[i].start] \notin Structural
    /\ \A i, j \in DOMAIN locations : i < j => EndOfPoint(locations[i]) <= locations[j].start

\* The signal of point l is piece p: in SQL before the point, in PL/pgSQL before a token
\* of it that leaves the block, or after all of it if there is none.
Placed(p, l) ==
    /\ written[p] = <<"signal", l.start>>
    /\ \/ /\ kind = "sql"
          /\ p + 1 \in DOMAIN written /\ written[p + 1] = <<"text", l.start>>
       \/ /\ kind # "sql"
          /\ p + 1 \in DOMAIN written
          /\ \E t \in TokensOf(l) : written[p + 1] = <<"text", t>> /\ IsTerminal(t, EndOfPoint(l))
       \/ /\ kind # "sql"
          /\ \A t \in TokensOf(l) : ~IsTerminal(t, EndOfPoint(l))
          /\ p - 1 \in DOMAIN written
          /\ \E last \in {EndOfPoint(l), EndOfPoint(l) - 1} :
                /\ written[p - 1] = <<"text", last>>
                /\ last = EndOfPoint(l) \/ EndOfPoint(l) = Len(body) + 1

\* Each point has one signal, and there are no others.
SignalsOK ==
    /\ \A p \in DOMAIN written : ~IsText(p) => \E i \in DOMAIN locations : Placed(p, locations[i])
    /\ \A i \in DOMAIN locations : \E p \in DOMAIN written : written[p] = <<"signal", locations[i].start>>
    /\ \A p, q \in DOMAIN written : ~IsText(p) /\ ~IsText(q) /\ p < q => written[p][2] < written[q][2]

\* The writing is behind the scan until the scan is done.
Behind ==
    /\ pc = "scan" => lastWritten <= read /\ (segStart > 0 => lastWritten < segStart)
    /\ pc = "done" => lastWritten = Len(body)

WInv == TextsOK /\ PointsOK /\ SignalsOK /\ Behind

-----------------------------------------------------------------------------
(* Pieces                                                                   *)

LEMMA LeastNumber ==
    ASSUME NEW A \in SUBSET Nat, A # {}
    PROVE  \E m \in A : \A k \in A : m <= k
<1>1. IsWellFoundedOn(OpToRel(<, Nat), Nat)
  BY NatLessThanWellFounded
<1>2. PICK m \in A : \A k \in A : ~(<<k, m>> \in OpToRel(<, Nat))
  BY <1>1, WFMin
<1>3. \A k \in A : ~(k < m)
  BY <1>2 DEF OpToRel
<1> QED
  BY <1>3

LEMMA GreatestNumber ==
    ASSUME NEW z \in Nat, NEW A \in SUBSET (1..z), A # {}
    PROVE  \E m \in A : \A k \in A : k <= m
<1>1. PICK B : B = {z - k : k \in A}
  OBVIOUS
<1>2. B \subseteq Nat /\ B # {}
  <2>1. \A k \in A : k \in 1..z /\ z - k \in Nat
    OBVIOUS
  <2> QED
    BY <1>1, <2>1
<1>3. PICK b \in B : \A k \in B : b <= k
  BY <1>2, LeastNumber
<1>4. PICK m \in A : b = z - m
  BY <1>1, <1>3
<1>5. \A k \in A : k <= m
  <2> SUFFICES ASSUME NEW k \in A PROVE k <= m
    OBVIOUS
  <2>1. b <= z - k
    BY <1>1, <1>3
  <2> QED
    BY <1>4, <2>1
<1> QED
  BY <1>5

LEMMA TextTyped ==
    ASSUME NEW m \in Nat, NEW k \in Nat, NEW b \in Nat, m >= 1, k <= b, m <= k + 1
    PROVE  /\ Text(m, k) \in Seq({"text", "signal"} \X (1..b))
           /\ Len(Text(m, k)) = k - m + 1
           /\ \A i \in 1..(k - m + 1) : Text(m, k)[i] = <<"text", m + i - 1>>
<1>1. PICK len \in Nat : len = (IF m <= k THEN k - m + 1 ELSE 0) /\ len = k - m + 1
  OBVIOUS
<1>2. Text(m, k) = [i \in 1..len |-> <<"text", m + i - 1>>]
  BY <1>1 DEF Text
<1>3. \A i \in 1..len : m + i - 1 \in 1..b
  BY <1>1
<1>4. PICK S : S = {"text", "signal"} \X (1..b)
  OBVIOUS
<1>5. PICK s : s = Text(m, k)
  OBVIOUS
<1>6. s \in [1..len -> S]
  <2>1. \A i \in 1..len : <<"text", m + i - 1>> \in S
    BY <1>3, <1>4
  <2> QED
    BY <1>2, <1>5, <2>1
<1>7. s \in Seq(S)
  BY <1>1, <1>6, IsASeq
<1>8. Len(s) = len
  <2>1. DOMAIN s = 1..len /\ DOMAIN s = 1..Len(s) /\ Len(s) \in Nat
    BY <1>6, <1>7, LenProperties
  <2> QED
    BY <1>1, <2>1
<1>9. \A i \in 1..(k - m + 1) : s[i] = <<"text", m + i - 1>>
  BY <1>1, <1>2, <1>5
<1> QED
  BY <1>1, <1>4, <1>5, <1>7, <1>8, <1>9

\* Two sequences, one after the other.
LEMMA JoinedTwo ==
    ASSUME NEW S, NEW a \in Seq(S), NEW b \in Seq(S)
    PROVE  /\ a \o b \in Seq(S)
           /\ Len(a) \in Nat /\ Len(b) \in Nat
           /\ Len(a \o b) = Len(a) + Len(b) /\ DOMAIN (a \o b) = 1..(Len(a) + Len(b))
           /\ \A i \in 1..Len(a) : (a \o b)[i] = a[i]
           /\ \A i \in 1..Len(b) : (a \o b)[Len(a) + i] = b[i]
<1>1. PICK s : s = a \o b
  OBVIOUS
<1>2. Len(a) \in Nat /\ Len(b) \in Nat
  BY LenProperties
<1>3. /\ s \in Seq(S) /\ Len(s) = Len(a) + Len(b)
      /\ \A i \in 1..(Len(a) + Len(b)) : s[i] = IF i <= Len(a) THEN a[i] ELSE b[i - Len(a)]
  BY <1>1, ConcatProperties
<1>4. DOMAIN s = 1..(Len(a) + Len(b))
  BY <1>3, LenProperties
<1>5. \A i \in 1..Len(a) : s[i] = a[i]
  BY <1>2, <1>3
<1>6. \A i \in 1..Len(b) : s[Len(a) + i] = b[i]
  <2> SUFFICES ASSUME NEW i \in 1..Len(b) PROVE s[Len(a) + i] = b[i]
    OBVIOUS
  <2>1. /\ Len(a) + i \in 1..(Len(a) + Len(b)) /\ ~(Len(a) + i <= Len(a))
        /\ (Len(a) + i) - Len(a) = i
    BY <1>2
  <2> QED
    BY <1>3, <2>1
<1> QED
  BY <1>1, <1>2, <1>3, <1>4, <1>5, <1>6

\* s is the sequences a, b, c and d over S, one after the other.
MadeOf(s, S, a, b, c, d) ==
    /\ s \in Seq(S)
    /\ Len(a) \in Nat /\ Len(b) \in Nat /\ Len(c) \in Nat /\ Len(d) \in Nat
    /\ DOMAIN s = 1..(Len(a) + Len(b) + Len(c) + Len(d))
    /\ \A i \in 1..Len(a) : s[i] = a[i]
    /\ \A i \in 1..Len(b) : s[Len(a) + i] = b[i]
    /\ \A i \in 1..Len(c) : s[Len(a) + Len(b) + i] = c[i]
    /\ \A i \in 1..Len(d) : s[Len(a) + Len(b) + Len(c) + i] = d[i]

\* Four sequences, one after the other.
LEMMA Joined ==
    ASSUME NEW S, NEW a \in Seq(S), NEW b \in Seq(S), NEW c \in Seq(S), NEW d \in Seq(S),
           NEW s, s = a \o b \o c \o d
    PROVE  MadeOf(s, S, a, b, c, d)
<1>1. PICK ab : ab = a \o b
  OBVIOUS
<1>2. PICK abc : abc = ab \o c
  OBVIOUS
<1>3. s = abc \o d
  BY <1>1, <1>2
<1>4. /\ ab \in Seq(S) /\ Len(a) \in Nat /\ Len(b) \in Nat /\ Len(ab) = Len(a) + Len(b)
      /\ \A i \in 1..Len(a) : ab[i] = a[i]
      /\ \A i \in 1..Len(b) : ab[Len(a) + i] = b[i]
  BY <1>1, JoinedTwo
<1>a. ab \in Seq(S)
  BY <1>4
<1>5. /\ abc \in Seq(S) /\ Len(c) \in Nat /\ Len(abc) = Len(ab) + Len(c)
      /\ \A i \in 1..Len(ab) : abc[i] = ab[i]
      /\ \A i \in 1..Len(c) : abc[Len(ab) + i] = c[i]
  BY <1>2, <1>a, JoinedTwo
<1>b. abc \in Seq(S)
  BY <1>5
<1>6. /\ s \in Seq(S) /\ Len(d) \in Nat /\ DOMAIN s = 1..(Len(abc) + Len(d))
      /\ \A i \in 1..Len(abc) : s[i] = abc[i]
      /\ \A i \in 1..Len(d) : s[Len(abc) + i] = d[i]
  BY <1>3, <1>b, JoinedTwo
<1>7. Len(abc) = Len(a) + Len(b) + Len(c)
  BY <1>4, <1>5
<1>8. ASSUME NEW i \in 1..Len(a) PROVE s[i] = a[i]
  <2>1. i \in 1..Len(ab) /\ i \in 1..Len(abc)
    BY <1>4, <1>5, <1>7
  <2> QED
    BY <1>4, <1>5, <1>6, <2>1
<1>9. ASSUME NEW i \in 1..Len(b) PROVE s[Len(a) + i] = b[i]
  <2>1. Len(a) + i \in 1..Len(ab) /\ Len(a) + i \in 1..Len(abc)
    BY <1>4, <1>5, <1>7
  <2> QED
    BY <1>4, <1>5, <1>6, <2>1
<1>10. ASSUME NEW i \in 1..Len(c) PROVE s[Len(a) + Len(b) + i] = c[i]
  <2>1. Len(ab) + i \in 1..Len(abc)
    BY <1>4, <1>5
  <2>2. s[Len(ab) + i] = c[i]
    BY <1>5, <1>6, <2>1
  <2> QED
    BY <1>4, <2>2
<1>11. ASSUME NEW i \in 1..Len(d) PROVE s[Len(a) + Len(b) + Len(c) + i] = d[i]
  <2>1. s[Len(abc) + i] = d[i]
    BY <1>6
  <2> QED
    BY <1>7, <2>1
<1> QED
  BY <1>4, <1>5, <1>6, <1>7, <1>8, <1>9, <1>10, <1>11, SMTT(30) DEF MadeOf

\* Text that is continued where it ends.
LEMMA TextContinued ==
    ASSUME NEW m \in Nat, NEW k \in Nat, NEW j \in Nat, m >= 1, m <= k + 1, k <= j
    PROVE  Text(m, k) \o Text(k + 1, j) = Text(m, j)
<1>0. PICK S : S = {"text", "signal"} \X (1..j)
  OBVIOUS
<1>00. PICK a, b, c : a = Text(m, k) /\ b = Text(k + 1, j) /\ c = Text(m, j)
  OBVIOUS
<1>1. /\ a \in Seq(S) /\ Len(a) = k - m + 1
      /\ \A i \in 1..(k - m + 1) : a[i] = <<"text", m + i - 1>>
  BY <1>0, <1>00, TextTyped
<1>2. /\ b \in Seq(S) /\ Len(b) = j - k
      /\ \A i \in 1..(j - k) : b[i] = <<"text", k + i>>
  <2>1. PICK k1 \in Nat : k1 = k + 1
    OBVIOUS
  <2>2. k1 >= 1 /\ j <= j /\ k1 <= j + 1
    BY <2>1
  <2>3. /\ b \in Seq(S) /\ Len(b) = j - k1 + 1
        /\ \A i \in 1..(j - k1 + 1) : b[i] = <<"text", k1 + i - 1>>
    BY <1>0, <1>00, <2>1, <2>2, TextTyped
  <2> QED
    BY <2>1, <2>3
<1>3. /\ c \in Seq(S) /\ Len(c) = j - m + 1
      /\ \A i \in 1..(j - m + 1) : c[i] = <<"text", m + i - 1>>
  <2>1. j <= j /\ m <= j + 1
    OBVIOUS
  <2> QED
    BY <1>0, <1>00, <2>1, TextTyped
<1>4. PICK s : s = a \o b
  OBVIOUS
<1>5. /\ s \in Seq(S) /\ Len(s) = Len(a) + Len(b)
      /\ \A i \in 1..Len(a) : s[i] = a[i]
      /\ \A i \in 1..Len(b) : s[Len(a) + i] = b[i]
  <2>1. a \in Seq(S) /\ b \in Seq(S)
    BY <1>1, <1>2
  <2> QED
    BY <1>4, <2>1, JoinedTwo
<1>6. Len(s) = Len(c)
  BY <1>1, <1>2, <1>3, <1>5
<1>7. ASSUME NEW i \in 1..Len(s) PROVE s[i] = c[i]
  <2>1. i \in Int /\ i \in 1..(j - m + 1)
    BY <1>1, <1>2, <1>5
  <2>2. c[i] = <<"text", m + i - 1>>
    BY <1>3, <2>1
  <2>3. CASE i <= k - m + 1
    <3>1. i \in 1..(k - m + 1) /\ i \in 1..Len(a)
      BY <1>1, <2>1, <2>3
    <3> QED
      BY <1>1, <1>5, <2>2, <3>1
  <2>4. CASE ~(i <= k - m + 1)
    <3>1. PICK h \in 1..(j - k) : h = i - (k - m + 1)
      BY <2>1, <2>4
    <3>2. s[Len(a) + h] = <<"text", k + h>>
      BY <1>2, <1>5
    <3>3. Len(a) + h = i /\ k + h = m + i - 1
      BY <1>1, <2>1, <3>1
    <3> QED
      BY <2>2, <3>2, <3>3
  <2> QED
    BY <2>1, <2>3, <2>4
<1>8. s = c
  BY <1>3, <1>5, <1>6, <1>7, SeqEqual
<1> QED
  BY <1>00, <1>4, <1>8

\* The pieces that are new in written' are text up to token n, and perhaps a signal.
Grown(n) ==
    /\ written' \in Seq({"text", "signal"} \X (1..Len(body)))
    /\ \A p \in DOMAIN written : p \in DOMAIN written' /\ written'[p] = written[p]
    /\ \A p \in DOMAIN written' \ DOMAIN written : \A q \in DOMAIN written : q < p
    /\ \A p \in DOMAIN written' \ DOMAIN written :
          written'[p][1] = "text" => lastWritten < written'[p][2] /\ written'[p][2] <= n
    /\ \A p, q \in DOMAIN written' \ DOMAIN written :
          written'[p][1] = "text" /\ written'[q][1] = "text" /\ p < q => written'[p][2] < written'[q][2]
    /\ \A i \in (lastWritten + 1)..n : \E p \in DOMAIN written' : written'[p] = <<"text", i>>

LEMMA PiecesTyped ==
    ASSUME NEW b \in Nat, NEW w \in Seq({"text", "signal"} \X (1..b)), NEW p \in DOMAIN w
    PROVE  /\ p \in Nat /\ p >= 1 /\ Len(w) \in Nat /\ DOMAIN w = 1..Len(w)
           /\ w[p][1] \in {"text", "signal"} /\ w[p][2] \in 1..b /\ w[p] = <<w[p][1], w[p][2]>>
<1>1. Len(w) \in Nat /\ DOMAIN w = 1..Len(w)
  BY LenProperties
<1>2. w[p] \in {"text", "signal"} \X (1..b)
  BY ElementOfSeq, <1>1
<1> QED
  BY <1>1, <1>2

LEMMA TextsGrow ==
    ASSUME TextsOK, NEW n \in Nat, lastWritten <= n, n <= Len(body), Len(body) \in Nat, Grown(n),
           lastWritten' = n, body' = body
    PROVE  TextsOK'
<1>1. written' \in Seq({"text", "signal"} \X (1..Len(body'))) /\ lastWritten' \in 0..Len(body')
  BY DEF Grown
<1>2. /\ written \in Seq({"text", "signal"} \X (1..Len(body)))
      /\ lastWritten \in 0..Len(body)
  BY DEF TextsOK
<1>3. ASSUME NEW p \in DOMAIN written'
      PROVE  /\ p \in Nat /\ written'[p][2] \in 1..Len(body)
             /\ p \in DOMAIN written => written[p] = written'[p] /\ written[p][2] \in 1..Len(body)
  BY <1>1, <1>2, PiecesTyped DEF Grown
<1>4. ASSUME NEW p \in DOMAIN written', written'[p][1] = "text"
      PROVE  /\ p \in DOMAIN written => written'[p][2] <= lastWritten
             /\ p \notin DOMAIN written => lastWritten < written'[p][2] /\ written'[p][2] <= n
  BY <1>3, <1>4 DEF Grown, TextsOK, IsText
<1>5. ASSUME NEW p \in DOMAIN written', NEW q \in DOMAIN written',
             written'[p][1] = "text", written'[q][1] = "text", p < q
      PROVE  written'[p][2] < written'[q][2]
  <2>1. CASE q \in DOMAIN written
    <3>1. p \in DOMAIN written
      BY <1>3, <1>5, <2>1 DEF Grown
    <3> QED
      BY <1>3, <1>5, <2>1, <3>1 DEF TextsOK, IsText
  <2>2. CASE q \notin DOMAIN written /\ p \in DOMAIN written
    BY <1>2, <1>3, <1>4, <1>5, <2>2
  <2>3. CASE q \notin DOMAIN written /\ p \notin DOMAIN written
    BY <1>5, <2>3 DEF Grown
  <2> QED
    BY <2>1, <2>2, <2>3
<1>6. ASSUME NEW p \in DOMAIN written', written'[p][1] = "text" PROVE written'[p][2] <= n
  BY <1>2, <1>3, <1>4, <1>6
<1>7. ASSUME NEW i \in 1..n PROVE \E p \in DOMAIN written' : written'[p] = <<"text", i>>
  <2>1. CASE i <= lastWritten
    <3>1. i \in 1..lastWritten
      BY <1>2, <2>1
    <3>2. PICK p \in DOMAIN written : written[p] = <<"text", i>>
      BY <3>1 DEF TextsOK
    <3> QED
      BY <3>2 DEF Grown
  <2>2. CASE ~(i <= lastWritten)
    <3>1. i \in (lastWritten + 1)..n
      BY <1>2, <2>2
    <3> QED
      BY <3>1 DEF Grown
  <2> QED
    BY <2>1, <2>2
<1> QED
  BY <1>1, <1>5, <1>6, <1>7 DEF IsText, TextsOK

\* What is written for a segment: text up to token m, the signal, and text up to n.
LEMMA EmitWrites ==
    ASSUME BodyOK, segStart > 0, lastWritten \in Nat, lastWritten < segStart, Emit(read + 1),
           written \in Seq({"text", "signal"} \X (1..Len(body)))
    PROVE  \E m, n \in Nat :
              /\ written' = written \o Text(lastWritten + 1, m) \o Signal \o Text(m + 1, n)
              /\ lastWritten' = n
              /\ lastWritten <= m /\ m <= n /\ n <= Len(body) /\ read <= n
              /\ \/ kind = "sql" /\ m = segStart - 1 /\ n = read
                 \/ kind # "sql" /\ m + 1 \in segStart..read /\ IsTerminal(m + 1, read + 1) /\ n = read
                 \/ /\ kind # "sql" /\ \A t \in segStart..read : ~IsTerminal(t, read + 1)
                    /\ m = n /\ n = IF read + 1 <= Len(body) THEN read + 1 ELSE read
<1>1. Len(body) \in Nat /\ read \in 0..Len(body) /\ segStart \in 1..read
  BY Bounds
<1>2. (read + 1) - 1 = read
  BY <1>1
<1>3. PICK S : S = {"text", "signal"} \X (1..Len(body))
  OBVIOUS
<1>4. PICK f \in Nat : f = lastWritten + 1
  OBVIOUS
<1>5. written \in Seq(S) /\ Signal \in Seq(S)
  <2>1. <<"signal", segStart>> \in S
    BY <1>1, <1>3
  <2> QED
    BY <1>3, <2>1 DEF Signal
<1>6. \A j, k \in Nat : j >= 1 /\ k <= Len(body) /\ j <= k + 1 => Text(j, k) \in Seq(S)
  BY <1>1, <1>3, TextTyped
<1>7. CASE kind = "sql"
  <2>1. PICK m \in Nat : m = segStart - 1
    BY <1>1
  <2>2. written' = written \o Gap \o Signal \o Text(segStart, read) /\ lastWritten' = read
    BY <1>2, <1>7 DEF Emit, EmitBefore
  <2>3. segStart = m + 1 /\ lastWritten <= m /\ m <= read /\ read \in Nat /\ read <= Len(body) /\ read <= read
    BY <1>1, <2>1
  <2>4. Gap = Text(lastWritten + 1, m)
    BY <2>1 DEF Gap
  <2> QED
    BY <1>7, <2>1, <2>2, <2>3, <2>4
<1>8. CASE kind # "sql" /\ Terminals(read + 1) # {}
  <2>1. PICK t : t = FindTerminalPos(read + 1)
    OBVIOUS
  <2>2. t \in segStart..read /\ IsTerminal(t, read + 1)
    <3>1. Terminals(read + 1) = {i \in segStart..read : IsTerminal(i, read + 1)}
      BY <1>2 DEF Terminals
    <3>2. Terminals(read + 1) \in SUBSET Nat
      BY <1>1, <3>1
    <3>3. \E i \in Terminals(read + 1) : \A j \in Terminals(read + 1) : i <= j
      BY <1>8, <3>2, LeastNumber
    <3>4. t \in Terminals(read + 1)
      BY <2>1, <3>3 DEF FindTerminalPos
    <3> QED
      BY <3>1, <3>4
  <2>3. PICK m \in Nat : m = t - 1
    BY <1>1, <2>2
  <2>4. t = m + 1 /\ m + 1 \in segStart..read /\ segStart - 1 <= m /\ lastWritten <= m /\ m <= read
        /\ read \in Nat /\ read <= read /\ read <= Len(body)
    BY <1>1, <2>2, <2>3
  <2>5. written' = written \o Gap \o Text(segStart, m) \o Signal \o Text(m + 1, read) /\ lastWritten' = read
    <3>1. EmitBeforeTerminal(read + 1)
      BY <1>8 DEF Emit
    <3> QED
      BY <1>2, <2>1, <2>3, <2>4, <3>1 DEF EmitBeforeTerminal
  <2>6. Gap \o Text(segStart, m) = Text(lastWritten + 1, m)
    <3>1. PICK k \in Nat : k = segStart - 1
      BY <1>1
    <3>2. segStart = k + 1 /\ f >= 1 /\ f <= k + 1 /\ k <= m
      BY <1>1, <1>4, <2>4, <3>1
    <3>3. Text(f, k) \o Text(k + 1, m) = Text(f, m)
      BY <3>2, TextContinued
    <3> QED
      BY <1>4, <3>1, <3>2, <3>3 DEF Gap
  <2>7. written \o Gap \o Text(segStart, m) = written \o (Gap \o Text(segStart, m))
    <3>1. Gap \in Seq(S)
      <4>1. PICK k \in Nat : k = segStart - 1
        BY <1>1
      <4>2. f >= 1 /\ k <= Len(body) /\ f <= k + 1
        BY <1>1, <1>4, <4>1
      <4> QED
        BY <1>4, <1>6, <4>1, <4>2 DEF Gap
    <3>2. Text(segStart, m) \in Seq(S)
      <4>1. segStart \in Nat /\ segStart >= 1 /\ m <= Len(body) /\ segStart <= m + 1
        BY <1>1, <2>4
      <4> QED
        BY <1>6, <4>1
    <3>3. PICK x \in Seq(S), y \in Seq(S), z \in Seq(S) : x = written /\ y = Gap /\ z = Text(segStart, m)
      BY <1>5, <3>1, <3>2
    <3>4. (x \o y) \o z = x \o (y \o z)
      BY ConcatAssociative
    <3> QED
      BY <3>3, <3>4
  <2> QED
    BY <1>8, <2>2, <2>4, <2>5, <2>6, <2>7
<1>9. CASE kind # "sql" /\ Terminals(read + 1) = {}
  <2>1. PICK n \in Nat : n = IF read + 1 <= Len(body) THEN read + 1 ELSE read
    BY <1>1
  <2>2. written' = written \o Gap \o Text(segStart, n) \o Signal /\ lastWritten' = n
    BY <1>2, <1>9, <2>1 DEF Emit, EmitAfter
  <2>3. lastWritten <= n /\ n <= n /\ n <= Len(body) /\ read <= n /\ segStart <= n + 1
        /\ segStart - 1 <= n /\ lastWritten + 1 <= segStart
    BY <1>1, <2>1
  <2>4. Text(n + 1, n) = <<>>
    BY <2>1 DEF Text
  <2>5. \A t \in segStart..read : ~IsTerminal(t, read + 1)
    BY <1>2, <1>9 DEF Terminals
  <2>6. Gap \o Text(segStart, n) = Text(lastWritten + 1, n)
    <3>1. PICK k \in Nat : k = segStart - 1
      BY <1>1
    <3>2. segStart = k + 1 /\ f >= 1 /\ f <= k + 1 /\ k <= n
      BY <1>1, <1>4, <2>3, <3>1
    <3>3. Text(f, k) \o Text(k + 1, n) = Text(f, n)
      BY <3>2, TextContinued
    <3> QED
      BY <1>4, <3>1, <3>2, <3>3 DEF Gap
  <2>7. written \o Gap \o Text(segStart, n) = written \o (Gap \o Text(segStart, n))
    <3>1. Gap \in Seq(S)
      <4>1. PICK k \in Nat : k = segStart - 1
        BY <1>1
      <4>2. f >= 1 /\ k <= Len(body) /\ f <= k + 1
        BY <1>1, <1>4, <4>1
      <4> QED
        BY <1>4, <1>6, <4>1, <4>2 DEF Gap
    <3>2. Text(segStart, n) \in Seq(S)
      <4>1. segStart \in Nat /\ segStart >= 1 /\ n <= Len(body) /\ segStart <= n + 1
        BY <1>1, <2>3
      <4> QED
        BY <1>6, <4>1
    <3>3. PICK x \in Seq(S), y \in Seq(S), z \in Seq(S) : x = written /\ y = Gap /\ z = Text(segStart, n)
      BY <1>5, <3>1, <3>2
    <3>4. (x \o y) \o z = x \o (y \o z)
      BY ConcatAssociative
    <3> QED
      BY <3>3, <3>4
  <2>8. written \o Text(lastWritten + 1, n) \o Signal \o <<>> = written \o Text(lastWritten + 1, n) \o Signal
    <3>1. Text(f, n) \in Seq(S)
      <4>1. f >= 1 /\ n <= Len(body) /\ f <= n + 1
        BY <1>4, <2>3
      <4> QED
        BY <1>6, <4>1
    <3>2. written \o Text(f, n) \in Seq(S)
      BY <1>5, <3>1, ConcatProperties
    <3>3. written \o Text(f, n) \o Signal \in Seq(S)
      BY <1>5, <3>2, ConcatProperties
    <3> QED
      BY <1>4, <3>3, ConcatEmptySeq
  <2> QED
    BY <1>9, <2>1, <2>2, <2>3, <2>4, <2>5, <2>6, <2>7, <2>8
<1> QED
  BY <1>7, <1>8, <1>9

\* Where the signal is among the new pieces, and what is next to it.
SignalAt(s, m, n) ==
    /\ s \in DOMAIN written' /\ s \notin DOMAIN written /\ written'[s] = <<"signal", segStart>>
    /\ \A p \in DOMAIN written' \ DOMAIN written : p # s => written'[p][1] = "text"
    /\ m < n => s + 1 \in DOMAIN written' /\ written'[s + 1] = <<"text", m + 1>>
    /\ lastWritten < m => s - 1 \in DOMAIN written' /\ written'[s - 1] = <<"text", m>>

LEMMA SignalWritten ==
    ASSUME written \in Seq({"text", "signal"} \X (1..Len(body))), Len(body) \in Nat,
           segStart \in 1..Len(body), lastWritten \in Nat, NEW m \in Nat, NEW n \in Nat,
           lastWritten <= m, m <= n, n <= Len(body),
           written' = written \o Text(lastWritten + 1, m) \o Signal \o Text(m + 1, n)
    PROVE  Grown(n) /\ \E s \in Nat : SignalAt(s, m, n)
<1>1. PICK S : S = {"text", "signal"} \X (1..Len(body))
  OBVIOUS
<1>2. PICK b, c, d, w : /\ b = Text(lastWritten + 1, m) /\ c = Signal /\ d = Text(m + 1, n)
                        /\ w = written'
  OBVIOUS
<1>3. b \in Seq(S) /\ Len(b) = m - lastWritten /\ \A i \in 1..(m - lastWritten) : b[i] = <<"text", lastWritten + i>>
  <2>1. PICK f \in Nat : f = lastWritten + 1
    OBVIOUS
  <2>2. f >= 1 /\ m <= Len(body) /\ f <= m + 1
    BY <2>1
  <2>3. b \in Seq(S) /\ Len(b) = m - f + 1 /\ \A i \in 1..(m - f + 1) : b[i] = <<"text", f + i - 1>>
    BY <1>1, <1>2, <2>1, <2>2, TextTyped
  <2> QED
    BY <2>1, <2>3
<1>4. d \in Seq(S) /\ Len(d) = n - m /\ \A i \in 1..(n - m) : d[i] = <<"text", m + i>>
  <2>1. PICK f \in Nat : f = m + 1
    OBVIOUS
  <2>2. f >= 1 /\ n <= Len(body) /\ f <= n + 1
    BY <2>1
  <2>3. d \in Seq(S) /\ Len(d) = n - f + 1 /\ \A i \in 1..(n - f + 1) : d[i] = <<"text", f + i - 1>>
    BY <1>1, <1>2, <2>1, <2>2, TextTyped
  <2> QED
    BY <2>1, <2>3
<1>5. c \in Seq(S) /\ Len(c) = 1 /\ c[1] = <<"signal", segStart>>
  <2>1. <<"signal", segStart>> \in S
    BY <1>1
  <2> QED
    BY <1>2, <2>1 DEF Signal
<1>6. written \in Seq(S) /\ w = written \o b \o c \o d
  BY <1>1, <1>2
<1>7. PICK L \in Nat : L = Len(written) /\ DOMAIN written = 1..L
  BY <1>6, LenProperties
<1>a. PICK g \in Nat, h \in Nat : g = m - lastWritten /\ h = n - m
  OBVIOUS
<1>8. PICK s \in Nat : s = L + g + 1
  OBVIOUS
<1>9. /\ w \in Seq(S)
      /\ DOMAIN w = 1..(s + h)
      /\ \A i \in 1..L : w[i] = written[i]
      /\ \A i \in 1..g : w[L + i] = <<"text", lastWritten + i>>
      /\ w[s] = <<"signal", segStart>>
      /\ \A i \in 1..h : w[s + i] = <<"text", m + i>>
  <2>1. b \in Seq(S) /\ c \in Seq(S) /\ d \in Seq(S)
    BY <1>3, <1>4, <1>5
  <2>2. /\ w \in Seq(S)
        /\ DOMAIN w = 1..(Len(written) + Len(b) + Len(c) + Len(d))
        /\ \A i \in 1..Len(written) : w[i] = written[i]
        /\ \A i \in 1..Len(b) : w[Len(written) + i] = b[i]
        /\ \A i \in 1..Len(c) : w[Len(written) + Len(b) + i] = c[i]
        /\ \A i \in 1..Len(d) : w[Len(written) + Len(b) + Len(c) + i] = d[i]
    <3>1. written \in Seq(S)
      BY <1>6
    <3>2. w = written \o b \o c \o d
      BY <1>6
    <3>3. b \in Seq(S)
      BY <2>1
    <3>4. c \in Seq(S)
      BY <2>1
    <3>5. d \in Seq(S)
      BY <2>1
    <3>6. MadeOf(w, S, written, b, c, d)
      BY <3>1, <3>2, <3>3, <3>4, <3>5, Joined
    <3> QED
      BY <3>6 DEF MadeOf
  <2>3. Len(b) = g /\ Len(c) = 1 /\ Len(d) = h /\ Len(written) = L
    BY <1>3, <1>4, <1>5, <1>7, <1>a
  <2>4. L + g + 1 + h = s + h /\ L + g + 1 = s
    BY <1>8
  <2>5. DOMAIN w = 1..(s + h)
    BY <2>2, <2>3, <2>4
  <2>6. \A i \in 1..L : w[i] = written[i]
    BY <2>2, <2>3
  <2>7. \A i \in 1..g : w[L + i] = <<"text", lastWritten + i>>
    <3>1. \A i \in 1..g : w[L + i] = b[i]
      BY <2>2, <2>3
    <3>2. \A i \in 1..g : b[i] = <<"text", lastWritten + i>>
      BY <1>3, <1>a
    <3> QED
      BY <3>1, <3>2
  <2>8. w[s] = <<"signal", segStart>>
    <3>1. 1 \in 1..Len(c)
      BY <2>3
    <3>2. w[L + g + 1] = c[1]
      BY <2>2, <2>3, <3>1
    <3> QED
      BY <1>5, <2>4, <3>2
  <2>9. \A i \in 1..h : w[s + i] = <<"text", m + i>>
    <3>1. \A i \in 1..h : w[L + g + 1 + i] = d[i]
      BY <2>2, <2>3
    <3>2. \A i \in 1..h : d[i] = <<"text", m + i>>
      BY <1>4, <1>a
    <3> QED
      BY <1>8, <3>1, <3>2
  <2> QED
    BY <2>2, <2>5, <2>6, <2>7, <2>8, <2>9
\* A new piece is before the signal, the signal, or after it.
<1>10. ASSUME NEW p \in DOMAIN w \ DOMAIN written
       PROVE  \/ \E i \in 1..g : p = L + i /\ w[p][1] = "text" /\ w[p][2] = lastWritten + i
              \/ p = s
              \/ \E i \in 1..h : p = s + i /\ w[p][1] = "text" /\ w[p][2] = m + i
  <2>1. p \in Int /\ p > L /\ p <= s + h
    BY <1>7, <1>9
  <2>2. CASE p < s
    <3>1. PICK i \in Int : i = p - L
      BY <2>1
    <3>2. i \in 1..g /\ p = L + i
      BY <1>8, <2>1, <2>2, <3>1
    <3>3. w[L + i] = <<"text", lastWritten + i>>
      BY <1>9, <3>2
    <3>4. w[p] = <<"text", lastWritten + i>>
      BY <3>2, <3>3
    <3>5. w[p][1] = "text" /\ w[p][2] = lastWritten + i
      BY <3>4
    <3> QED
      BY <3>2, <3>5
  <2>3. CASE p > s
    <3>1. PICK i \in Int : i = p - s
      BY <2>1
    <3>2. i \in 1..h /\ p = s + i
      BY <1>8, <2>1, <2>3, <3>1
    <3>3. w[s + i] = <<"text", m + i>>
      BY <1>9, <3>2
    <3>4. w[p] = <<"text", m + i>>
      BY <3>2, <3>3
    <3>5. w[p][1] = "text" /\ w[p][2] = m + i
      BY <3>4
    <3> QED
      BY <3>2, <3>5
  <2> QED
    BY <1>8, <2>1, <2>2, <2>3
<1>11. Grown(n)
  <2>1. w \in Seq({"text", "signal"} \X (1..Len(body)))
    BY <1>1, <1>9
  <2>2. \A p \in DOMAIN written : p \in DOMAIN w /\ w[p] = written[p]
    BY <1>7, <1>8, <1>9
  <2>3. \A p \in DOMAIN w \ DOMAIN written : \A q \in DOMAIN written : q < p
    BY <1>7, <1>8, <1>9
  <2>4. ASSUME NEW p \in DOMAIN w \ DOMAIN written, w[p][1] = "text"
        PROVE  lastWritten < w[p][2] /\ w[p][2] <= n
    <3>1. p # s
      BY <1>9, <2>4
    <3>2. \/ \E i \in 1..g : w[p][2] = lastWritten + i
          \/ \E i \in 1..h : w[p][2] = m + i
      BY <1>10, <3>1
    <3> QED
      BY <1>a, <3>2
  <2>5. ASSUME NEW p \in DOMAIN w \ DOMAIN written, NEW q \in DOMAIN w \ DOMAIN written,
               w[p][1] = "text", w[q][1] = "text", p < q
        PROVE  w[p][2] < w[q][2]
    <3>0. w[s][1] = "signal"
      BY <1>9
    <3>1. p # s /\ q # s
      BY <2>5, <3>0
    <3>2. \/ \E i \in 1..g : p = L + i /\ w[p][2] = lastWritten + i
          \/ \E i \in 1..h : p = s + i /\ w[p][2] = m + i
      BY <1>10, <3>1
    <3>3. \/ \E i \in 1..g : q = L + i /\ w[q][2] = lastWritten + i
          \/ \E i \in 1..h : q = s + i /\ w[q][2] = m + i
      BY <1>10, <3>1
    <3>4. CASE \E i \in 1..g : p = L + i /\ w[p][2] = lastWritten + i
      <4>1. PICK i \in 1..g : p = L + i /\ w[p][2] = lastWritten + i
        BY <3>4
      <4>2. CASE \E j \in 1..g : q = L + j /\ w[q][2] = lastWritten + j
        <5>1. PICK j \in 1..g : q = L + j /\ w[q][2] = lastWritten + j
          BY <4>2
        <5>2. i < j
          BY <2>5, <4>1, <5>1
        <5> QED
          BY <1>a, <4>1, <5>1, <5>2
      <4>3. CASE \E j \in 1..h : q = s + j /\ w[q][2] = m + j
        <5>1. PICK j \in 1..h : q = s + j /\ w[q][2] = m + j
          BY <4>3
        <5>2. lastWritten + i <= m
          BY <1>a, <1>8
        <5>3. m < m + j
          BY <1>a
        <5> QED
          BY <1>a, <4>1, <5>1, <5>2, <5>3
      <4> QED
        BY <3>3, <4>2, <4>3
    <3>5. CASE \E i \in 1..h : p = s + i /\ w[p][2] = m + i
      <4>1. PICK i \in 1..h : p = s + i /\ w[p][2] = m + i
        BY <3>5
      <4>2. CASE \E j \in 1..g : q = L + j /\ w[q][2] = lastWritten + j
        <5>1. PICK j \in 1..g : q = L + j /\ w[q][2] = lastWritten + j
          BY <4>2
        <5>2. q < s /\ s < p /\ q \in Int /\ s \in Int /\ p \in Int
          BY <1>8, <4>1, <5>1
        <5>3. ~(p < q)
          BY ONLY <5>2
        <5> QED
          BY <2>5, <5>3
      <4>3. CASE \E j \in 1..h : q = s + j /\ w[q][2] = m + j
        <5>1. PICK j \in 1..h : q = s + j /\ w[q][2] = m + j
          BY <4>3
        <5>2. i < j
          BY <1>8, <2>5, <4>1, <5>1
        <5> QED
          BY <1>a, <4>1, <5>1, <5>2
      <4> QED
        BY <3>3, <4>2, <4>3
    <3> QED
      BY <3>2, <3>4, <3>5
  <2>6. ASSUME NEW i \in (lastWritten + 1)..n PROVE \E p \in DOMAIN w : w[p] = <<"text", i>>
    <3>1. CASE i <= m
      <4>1. PICK j \in Int : j = i - lastWritten
        OBVIOUS
      <4>2. j \in 1..g /\ i = lastWritten + j
        BY <1>a, <3>1, <4>1
      <4>3. L + j \in DOMAIN w
        BY <1>8, <1>9, <4>2
      <4> QED
        BY <1>9, <4>2, <4>3
    <3>2. CASE ~(i <= m)
      <4>1. PICK j \in Int : j = i - m
        OBVIOUS
      <4>2. j \in 1..h /\ i = m + j
        BY <1>a, <3>2, <4>1
      <4>3. s + j \in DOMAIN w
        BY <1>8, <1>9, <4>2
      <4> QED
        BY <1>9, <4>2, <4>3
    <3> QED
      BY <3>1, <3>2
  <2> QED
    BY <1>2, <2>1, <2>2, <2>3, <2>4, <2>5, <2>6 DEF Grown
<1>12. SignalAt(s, m, n)
  <2>1. s \in DOMAIN w /\ s \notin DOMAIN written
    BY <1>7, <1>8, <1>9
  <2>2. ASSUME NEW p \in DOMAIN w \ DOMAIN written, p # s PROVE w[p][1] = "text"
    BY <1>10, <2>2
  <2>3. ASSUME m < n PROVE s + 1 \in DOMAIN w /\ w[s + 1] = <<"text", m + 1>>
    <3>1. 1 \in 1..h /\ s + 1 \in 1..(s + h)
      BY <1>a, <2>3
    <3> QED
      BY <1>9, <3>1
  <2>4. ASSUME lastWritten < m PROVE s - 1 \in DOMAIN w /\ w[s - 1] = <<"text", m>>
    <3>1. g \in 1..g /\ L + g = s - 1 /\ lastWritten + g = m /\ s - 1 \in 1..(s + h)
      BY <1>8, <1>a, <2>4
    <3>2. w[L + g] = <<"text", lastWritten + g>>
      BY <1>9, <3>1
    <3> QED
      BY <1>9, <3>1, <3>2
  <2> QED
    BY <1>2, <1>9, <2>1, <2>2, <2>3, <2>4 DEF SignalAt
<1> QED
  BY <1>11, <1>12

-----------------------------------------------------------------------------
(* A segment ends                                                           *)

\* A signal stays where it is.
LEMMA PlacedStays ==
    ASSUME NEW p \in DOMAIN written, NEW l, Placed(p, l), kind' = kind, body' = body,
           \A r \in DOMAIN written : r \in DOMAIN written' /\ written'[r] = written[r]
    PROVE  Placed(p, l)'
<1>1. \A t, e : IsTerminal(t, e)' <=> IsTerminal(t, e)
  BY DEF IsTerminal, IsFatal
<1>2. written'[p] = <<"signal", l.start>>
  BY DEF Placed
<1>3. CASE kind = "sql" /\ p + 1 \in DOMAIN written /\ written[p + 1] = <<"text", l.start>>
  BY <1>2, <1>3 DEF Placed
<1>4. CASE /\ kind # "sql"
           /\ p + 1 \in DOMAIN written
           /\ \E t \in TokensOf(l) : written[p + 1] = <<"text", t>> /\ IsTerminal(t, EndOfPoint(l))
  BY <1>1, <1>2, <1>4 DEF Placed, TokensOf, EndOfPoint
<1>5. CASE /\ kind # "sql"
           /\ \A t \in TokensOf(l) : ~IsTerminal(t, EndOfPoint(l))
           /\ p - 1 \in DOMAIN written
           /\ \E last \in {EndOfPoint(l), EndOfPoint(l) - 1} :
                 /\ written[p - 1] = <<"text", last>>
                 /\ last = EndOfPoint(l) \/ EndOfPoint(l) = Len(body) + 1
  BY <1>1, <1>2, <1>5 DEF Placed, TokensOf, EndOfPoint
<1> QED
  BY <1>3, <1>4, <1>5 DEF Placed

\* What a point of a statement is.
LEMMA PointFields ==
    ASSUME BodyOK, NEW i \in DOMAIN locations
    PROVE  /\ i \in Nat /\ i >= 1 /\ i <= Len(locations) /\ Len(locations) \in Nat
           /\ locations[i].start \in Nat /\ locations[i].length \in Int
           /\ EndOfPoint(locations[i]) \in Int
           /\ EndOfPoint(locations[i]) = locations[i].start + locations[i].length
<1>1. i \in 1..Len(locations) /\ Len(locations) \in Nat
  BY LenProperties DEF BodyOK
<1>2. locations[i] \in [start : Nat, length : Int, implicit : BOOLEAN]
  BY <1>1, ElementOfSeq DEF BodyOK
<1> QED
  BY <1>1, <1>2 DEF EndOfPoint

EndsHere == read + 1 <= Len(body) => body[read + 1] = ";"
Recorded(n) == body' = body /\ lastWritten' = n /\ locations' = Append(locations, Point(read + 1))

\* The new point begins after the others have ended.
LEMMA NewPoint ==
    ASSUME BodyOK, ScanOK, PointsOK, pc = "scan", segStart > 0, lastWritten \in Nat,
           lastWritten < segStart, IsExecutableSegment, NEW n \in Nat, read <= n, lastWritten <= n,
           EndsHere, Recorded(n)
    PROVE  /\ PointsOK'
           /\ Len(locations) \in Nat /\ DOMAIN locations' = 1..(Len(locations) + 1)
           /\ DOMAIN locations = 1..Len(locations)
           /\ \A i \in DOMAIN locations : locations'[i] = locations[i] /\ locations[i].start < segStart
           /\ locations'[Len(locations) + 1] = Point(read + 1)
<1>1. Len(body) \in Nat /\ read \in 0..Len(body) /\ segStart \in 1..read
  BY Bounds
<1>2. PICK l : l = Point(read + 1)
  OBVIOUS
<1>3. /\ l.start = segStart /\ l.length = read + 1 - segStart /\ l.implicit = FALSE
      /\ l \in [start : Nat, length : Int, implicit : BOOLEAN]
  BY <1>1, <1>2 DEF Point
<1>4. EndOfPoint(l) = read + 1 /\ TokensOf(l) = segStart..read
  BY <1>1, <1>3 DEF EndOfPoint, TokensOf
<1>5. PICK L \in Nat : L = Len(locations) /\ DOMAIN locations = 1..L
  BY LenProperties DEF BodyOK
<1>6. PICK ls : ls = locations'
  OBVIOUS
<1>7. DOMAIN ls = 1..(L + 1) /\ (\A i \in 1..L : ls[i] = locations[i]) /\ ls[L + 1] = l
  <2>1. locations \in Seq([start : Nat, length : Int, implicit : BOOLEAN])
    BY DEF BodyOK
  <2>2. ls = Append(locations, l)
    BY <1>2, <1>6 DEF Recorded
  <2> QED
    BY <1>3, <1>5, <2>1, <2>2, AppendProperties, LenProperties
<1>8. ASSUME NEW i \in 1..L
      PROVE  /\ locations[i].start \in Nat /\ EndOfPoint(locations[i]) \in Int
             /\ EndOfPoint(locations[i]) <= lastWritten + 1
             /\ EndOfPoint(locations[i]) <= segStart /\ locations[i].start < segStart
  <2>1. /\ locations[i].start \in Nat /\ locations[i].length \in Int
        /\ EndOfPoint(locations[i]) = locations[i].start + locations[i].length
    BY <1>5, PointFields
  <2>2. EndOfPoint(locations[i]) <= lastWritten + 1 /\ locations[i].length >= 1
    BY <1>5 DEF PointsOK
  <2> QED
    BY <1>1, <2>1, <2>2
<1>9. ASSUME NEW i \in DOMAIN ls
      PROVE  /\ ls[i].start >= 1 /\ ls[i].length >= 1 /\ ~ls[i].implicit
             /\ EndOfPoint(ls[i]) <= n + 1
             /\ EndOfPoint(ls[i]) <= Len(body) => body[EndOfPoint(ls[i])] = ";"
             /\ \A t \in TokensOf(ls[i]) : body[t] # ";"
             /\ body[ls[i].start] # "COMMENT" /\ body[ls[i].start] \notin Structural
  <2>1. CASE i \in 1..L
    <3>1. ls[i] = locations[i] /\ i \in DOMAIN locations
      BY <1>5, <1>7, <2>1
    <3>2. EndOfPoint(locations[i]) <= n + 1
      BY <1>8, <2>1
    <3> QED
      BY <3>1, <3>2 DEF PointsOK
  <2>2. CASE i \notin 1..L
    <3>1. ls[i] = l
      <4>1. i = L + 1
        BY <1>7, <2>2
      <4> QED
        BY <1>7, <4>1
    <3>2. body[segStart] # "COMMENT" /\ \A t \in segStart..read : body[t] # ";"
      BY <1>1 DEF ScanOK, Opens
    <3>3. body[segStart] \notin Structural
      BY DEF IsExecutableSegment
    <3>4. l.start >= 1 /\ l.length >= 1 /\ ~l.implicit
      BY <1>1, <1>3
    <3>5. EndOfPoint(l) <= n + 1
      BY <1>1, <1>4
    <3>6. EndOfPoint(l) <= Len(body) => body[EndOfPoint(l)] = ";"
      BY <1>4 DEF EndsHere
    <3>7. /\ \A t \in TokensOf(l) : body[t] # ";"
          /\ body[l.start] # "COMMENT" /\ body[l.start] \notin Structural
      BY <1>3, <1>4, <3>2, <3>3
    <3> QED
      BY <3>1, <3>4, <3>5, <3>6, <3>7
  <2> QED
    BY <2>1, <2>2
<1>10. ASSUME NEW i \in DOMAIN ls, NEW j \in DOMAIN ls, i < j PROVE EndOfPoint(ls[i]) <= ls[j].start
  <2>1. i \in 1..L /\ ls[i] = locations[i]
    BY <1>7, <1>10
  <2>2. CASE j \in 1..L
    BY <1>5, <1>7, <1>10, <2>1, <2>2 DEF PointsOK
  <2>3. CASE j \notin 1..L
    <3>1. j = L + 1
      BY <1>7, <2>3
    <3>2. ls[j].start = segStart
      BY <1>3, <1>7, <3>1
    <3> QED
      BY <1>8, <2>1, <3>2
  <2> QED
    BY <2>2, <2>3
<1>11. PointsOK'
  BY <1>6, <1>9, <1>10 DEF PointsOK, EndOfPoint, TokensOf, Recorded
<1> QED
  BY <1>2, <1>5, <1>6, <1>7, <1>8, <1>11

\* The signal of the segment at hand comes after token m, and what is written ends with n.
Parted(m, n) ==
    \/ kind = "sql" /\ m = segStart - 1 /\ n = read
    \/ kind # "sql" /\ m + 1 \in segStart..read /\ IsTerminal(m + 1, read + 1) /\ n = read
    \/ /\ kind # "sql" /\ \A t \in segStart..read : ~IsTerminal(t, read + 1)
       /\ m = n /\ n = IF read + 1 <= Len(body) THEN read + 1 ELSE read

\* It is next to the new point.
LEMMA NewSignal ==
    ASSUME BodyOK, ScanOK, pc = "scan", segStart > 0, lastWritten \in Nat, lastWritten < segStart,
           NEW m \in Nat, NEW n \in Nat, lastWritten <= m, m <= n, n <= Len(body),
           Parted(m, n),
           NEW s \in Nat, SignalAt(s, m, n), NEW l, l = Point(read + 1), kind' = kind, body' = body
    PROVE  Placed(s, l)'
<1>1. Len(body) \in Nat /\ read \in 0..Len(body) /\ segStart \in 1..read
  BY Bounds
<1>2. l.start = segStart /\ EndOfPoint(l) = read + 1 /\ TokensOf(l) = segStart..read
  <2>1. l.start = segStart /\ l.length = read + 1 - segStart
    BY <1>1 DEF Point
  <2>2. segStart + (read + 1 - segStart) = read + 1 /\ (read + 1) - 1 = read
    BY <1>1
  <2>3. EndOfPoint(l) = read + 1
    BY <2>1, <2>2 DEF EndOfPoint
  <2>4. TokensOf(l) = segStart..read
    <3>1. l.start + l.length - 1 = read
      BY <1>1, <2>1
    <3> QED
      BY <2>1, <3>1 DEF TokensOf
  <2> QED
    BY <2>1, <2>3, <2>4
<1>3. \A t, e : IsTerminal(t, e)' <=> IsTerminal(t, e)
  BY DEF IsTerminal, IsFatal
<1>4. written'[s] = <<"signal", l.start>>
  BY <1>2 DEF SignalAt
<1>5. CASE kind = "sql" /\ m = segStart - 1 /\ n = read
  <2>1. m < n /\ m + 1 = segStart
    BY <1>1, <1>5
  <2>2. s + 1 \in DOMAIN written' /\ written'[s + 1] = <<"text", l.start>>
    BY <1>2, <2>1 DEF SignalAt
  <2> QED
    BY <1>4, <1>5, <2>2 DEF Placed
<1>6. CASE kind # "sql" /\ m + 1 \in segStart..read /\ IsTerminal(m + 1, read + 1) /\ n = read
  <2>1. m < n
    BY <1>1, <1>6
  <2>2. s + 1 \in DOMAIN written' /\ written'[s + 1] = <<"text", m + 1>>
    BY <2>1 DEF SignalAt
  <2>3. m + 1 \in TokensOf(l) /\ IsTerminal(m + 1, EndOfPoint(l))'
    <3>1. PICK t, e : t = m + 1 /\ e = read + 1
      OBVIOUS
    <3>2. IsTerminal(t, e)'
      BY <1>3, <1>6, <3>1
    <3>3. l.start + l.length = e
      BY <1>2, <3>1 DEF EndOfPoint
    <3> QED
      BY <1>2, <1>6, <3>1, <3>2, <3>3 DEF EndOfPoint
  <2> QED
    BY <1>4, <1>6, <2>2, <2>3 DEF Placed, TokensOf, EndOfPoint
<1>7. CASE /\ kind # "sql" /\ \A t \in segStart..read : ~IsTerminal(t, read + 1)
           /\ m = n /\ n = IF read + 1 <= Len(body) THEN read + 1 ELSE read
  <2>1. lastWritten < m /\ (n = EndOfPoint(l) \/ (n = EndOfPoint(l) - 1 /\ EndOfPoint(l) = Len(body) + 1))
    BY <1>1, <1>2, <1>7
  <2>2. s - 1 \in DOMAIN written' /\ written'[s - 1] = <<"text", n>>
    BY <1>7, <2>1 DEF SignalAt
  <2>3. \A t \in TokensOf(l) : ~IsTerminal(t, EndOfPoint(l))'
    <3> SUFFICES ASSUME NEW t \in TokensOf(l) PROVE ~IsTerminal(t, EndOfPoint(l))'
      OBVIOUS
    <3>1. ~IsTerminal(t, read + 1)
      BY <1>2, <1>7
    <3>2. ~IsTerminal(t, EndOfPoint(l))
      BY <1>2, <3>1
    <3> QED
      BY <1>3, <3>2 DEF EndOfPoint
  <2>4. n \in {EndOfPoint(l), EndOfPoint(l) - 1} /\ (n = EndOfPoint(l) \/ EndOfPoint(l) = Len(body) + 1)
    BY <2>1
  <2> QED
    BY <1>4, <1>7, <2>2, <2>3, <2>4 DEF Placed, TokensOf, EndOfPoint
<1> QED
  BY <1>5, <1>6, <1>7 DEF Parted

LEMMA EmitKeeps ==
    ASSUME BodyOK, ScanOK, TextsOK, PointsOK, SignalsOK, Behind, pc = "scan", segStart > 0,
           EndsHere, EmitSegment(read + 1), kind' = kind, body' = body
    PROVE  TextsOK' /\ PointsOK' /\ SignalsOK' /\ lastWritten' <= read + 1
<1>1. /\ Len(body) \in Nat /\ read \in 0..Len(body) /\ segStart \in 1..read
      /\ lastWritten \in 0..Len(body) /\ lastWritten < segStart
      /\ written \in Seq({"text", "signal"} \X (1..Len(body)))
  <2>1. lastWritten \in 0..Len(body) /\ written \in Seq({"text", "signal"} \X (1..Len(body)))
    BY DEF TextsOK
  <2>2. lastWritten < segStart
    BY DEF Behind
  <2> QED
    BY <2>1, <2>2, Bounds
<1>2. CASE ~IsExecutableSegment
  <2>1. UNCHANGED <<kind, body, lastWritten, written, locations>>
    BY <1>2 DEF EmitSegment, result
  <2>2. TextsOK'
    BY <2>1 DEF TextsOK, IsText
  <2>3. PointsOK'
    BY <2>1 DEF PointsOK, EndOfPoint, TokensOf
  <2>4. SignalsOK'
    BY <2>1 DEF SignalsOK, IsText, Placed, EndOfPoint, TokensOf, IsTerminal, IsFatal
  <2>5. lastWritten' <= read + 1
    BY <1>1, <2>1
  <2> QED
    BY <2>2, <2>3, <2>4, <2>5
<1>3. CASE IsExecutableSegment
  <2>1. Emit(read + 1) /\ locations' = Append(locations, Point(read + 1))
    BY <1>3 DEF EmitSegment
  <2>2. PICK m \in Nat, n \in Nat :
              /\ written' = written \o Text(lastWritten + 1, m) \o Signal \o Text(m + 1, n)
              /\ lastWritten' = n
              /\ lastWritten <= m /\ m <= n /\ n <= Len(body) /\ read <= n
              /\ \/ kind = "sql" /\ m = segStart - 1 /\ n = read
                 \/ kind # "sql" /\ m + 1 \in segStart..read /\ IsTerminal(m + 1, read + 1) /\ n = read
                 \/ /\ kind # "sql" /\ \A t \in segStart..read : ~IsTerminal(t, read + 1)
                    /\ m = n /\ n = IF read + 1 <= Len(body) THEN read + 1 ELSE read
    <3>1. lastWritten \in Nat
      BY <1>1
    <3> QED
      BY <1>1, <2>1, <3>1, EmitWrites
  <2>3. Grown(n) /\ \E s \in Nat : SignalAt(s, m, n)
    <3>1. lastWritten \in Nat /\ segStart \in 1..Len(body)
      BY <1>1
    <3> QED
      BY <1>1, <2>2, <3>1, SignalWritten
  <2>4. PICK s \in Nat : SignalAt(s, m, n)
    BY <2>3
  <2>5. TextsOK'
    <3>1. lastWritten <= n
      BY <1>1, <2>2
    <3> QED
      BY <1>1, <2>2, <2>3, <3>1, TextsGrow
  <2>6. PICK l : l = Point(read + 1)
    OBVIOUS
  <2>7. Placed(s, l)'
    <3>1. lastWritten \in Nat
      BY <1>1
    <3>2. Parted(m, n)
      BY <2>2 DEF Parted
    <3> QED
      BY <1>1, <2>2, <2>4, <2>6, <3>1, <3>2, NewSignal
  <2>8. /\ PointsOK'
        /\ Len(locations) \in Nat /\ DOMAIN locations' = 1..(Len(locations) + 1)
        /\ DOMAIN locations = 1..Len(locations)
        /\ \A i \in DOMAIN locations : locations'[i] = locations[i] /\ locations[i].start < segStart
        /\ locations'[Len(locations) + 1] = Point(read + 1)
    <3>1. lastWritten \in Nat
      BY <1>1
    <3>2. Recorded(n)
      BY <2>1, <2>2 DEF Recorded
    <3>3. lastWritten <= n
      BY <1>1, <2>2
    <3> QED
      BY <1>1, <1>3, <2>2, <3>1, <3>2, <3>3, NewPoint
  <2>9. \A r \in DOMAIN written : r \in DOMAIN written' /\ written'[r] = written[r]
    BY <2>3 DEF Grown
  <2>10. SignalsOK'
    <3>1. l.start = segStart
      BY <2>6 DEF Point
    <3>2. PICK L \in Nat : L = Len(locations)
      BY <2>8
    <3>3. L + 1 \in DOMAIN locations' /\ locations'[L + 1] = l
      BY <2>6, <2>8, <3>2
    <3>4. written'[s] = <<"signal", l.start>> /\ s \in DOMAIN written' /\ s \notin DOMAIN written
      BY <2>4, <3>1 DEF SignalAt
    <3>5. ASSUME NEW p \in DOMAIN written', p # s, written'[p][1] # "text"
          PROVE  p \in DOMAIN written /\ written[p] = written'[p] /\ written[p][1] # "text"
      BY <2>4, <2>9, <3>5 DEF SignalAt
    <3>6. ASSUME NEW p \in DOMAIN written', written'[p][1] # "text"
          PROVE  \E i \in DOMAIN locations' : Placed(p, locations[i])'
      <4>1. CASE p = s
        BY <2>7, <3>3, <4>1
      <4>2. CASE p # s
        <5>1. p \in DOMAIN written /\ written[p] = written'[p] /\ written[p][1] # "text"
          BY <3>5, <3>6, <4>2
        <5>2. PICK i \in DOMAIN locations : Placed(p, locations[i])
          BY <5>1 DEF SignalsOK, IsText
        <5>3. PICK k : k = locations[i]
          OBVIOUS
        <5>4. Placed(p, k)'
          BY <2>9, <5>1, <5>2, <5>3, PlacedStays
        <5>5. locations'[i] = k /\ i \in DOMAIN locations'
          BY <2>8, <5>3
        <5> QED
          BY <5>4, <5>5
      <4> QED
        BY <4>1, <4>2
    <3>7. ASSUME NEW i \in DOMAIN locations'
          PROVE  \E p \in DOMAIN written' : written'[p] = <<"signal", locations'[i].start>>
      <4>1. CASE i \in DOMAIN locations
        <5>1. PICK p \in DOMAIN written : written[p] = <<"signal", locations[i].start>>
          BY <4>1 DEF SignalsOK
        <5> QED
          BY <2>8, <2>9, <4>1, <5>1
      <4>2. CASE i \notin DOMAIN locations
        <5>1. i = L + 1
          BY <2>8, <3>2, <4>2
        <5> QED
          BY <3>3, <3>4, <5>1
      <4> QED
        BY <4>1, <4>2
    <3>8. ASSUME NEW p \in DOMAIN written', NEW q \in DOMAIN written',
                 written'[p][1] # "text", written'[q][1] # "text", p < q
          PROVE  written'[p][2] < written'[q][2]
      <4>1. p = s => q \in Nat /\ s \in Nat /\ q \notin DOMAIN written
        <5>1. q \in DOMAIN written => q < s
          BY <2>3, <3>4 DEF Grown
        <5>2. q \in Nat
          BY <2>5, LenProperties DEF TextsOK
        <5> QED
          BY <3>8, <5>1, <5>2
      <4>2. p # s
        BY <3>5, <3>8, <4>1
      <4>3. p \in DOMAIN written /\ written[p] = written'[p] /\ written[p][1] # "text"
        BY <3>5, <3>8, <4>2
      <4>4. CASE q = s
        <5>1. PICK i \in DOMAIN locations : Placed(p, locations[i])
          BY <4>3 DEF SignalsOK, IsText
        <5>2. written[p][2] = locations[i].start
          BY <5>1 DEF Placed
        <5> QED
          BY <2>8, <3>1, <3>4, <4>3, <4>4, <5>2
      <4>5. CASE q # s
        <5>1. q \in DOMAIN written /\ written[q] = written'[q] /\ written[q][1] # "text"
          BY <3>5, <3>8, <4>5
        <5> QED
          BY <3>8, <4>3, <5>1 DEF SignalsOK, IsText
      <4> QED
        BY <4>4, <4>5
    <3> QED
      BY <3>6, <3>7, <3>8 DEF SignalsOK, IsText
  <2>11. lastWritten' <= read + 1
    BY <1>1, <2>2
  <2> QED
    BY <2>5, <2>8, <2>10, <2>11
<1> QED
  BY <1>2, <1>3

-----------------------------------------------------------------------------
(* What has been written stays in order                                     *)

LEMMA WrittenInit ==
    ASSUME NEW k \in {"plpgsql", "sql"}, NEW b \in Seq(STRING), Begin(k, b)
    PROVE  WInv
<1>1. /\ body = b /\ written = <<>> /\ DOMAIN written = {} /\ lastWritten = 0 /\ read = 0
      /\ segStart = 0 /\ pc = "scan" /\ locations = <<>> /\ DOMAIN locations = {}
  BY DEF Begin
<1>2. Len(body) \in Nat
  BY <1>1, LenProperties
<1>3. TextsOK
  <2>1. written \in Seq({"text", "signal"} \X (1..Len(body)))
    BY <1>1, EmptySeq
  <2>2. 0 \in 0..Len(body) /\ 1..0 = {}
    BY <1>2
  <2> QED
    BY <1>1, <2>1, <2>2 DEF TextsOK
<1>4. PointsOK /\ SignalsOK
  BY <1>1 DEF PointsOK, SignalsOK
<1>5. Behind
  BY <1>1 DEF Behind
<1> QED
  BY <1>3, <1>4, <1>5 DEF WInv

LEMMA SameResult ==
    ASSUME TextsOK, PointsOK, SignalsOK, UNCHANGED <<kind, body, result>>
    PROVE  TextsOK' /\ PointsOK' /\ SignalsOK'
<1>1. UNCHANGED <<kind, body, lastWritten, written, locations>>
  BY DEF result
<1>2. TextsOK'
  BY <1>1 DEF TextsOK, IsText
<1>3. PointsOK'
  BY <1>1 DEF PointsOK, EndOfPoint, TokensOf
<1>4. SignalsOK'
  BY <1>1 DEF SignalsOK, IsText, Placed, EndOfPoint, TokensOf, IsTerminal, IsFatal
<1> QED
  BY <1>2, <1>3, <1>4

LEMMA EndSegmentWrites == IInv /\ WInv /\ EndSegment => WInv'
<1> SUFFICES ASSUME IInv, WInv, EndSegment PROVE WInv'
  OBVIOUS
<1>1. BodyOK /\ ScanOK /\ TextsOK /\ PointsOK /\ SignalsOK /\ Behind
  BY DEF IInv, WInv
<1>2. /\ Scan /\ pc = "scan" /\ pc' = "scan" /\ read' = read + 1 /\ kind' = kind /\ body' = body
      /\ segStart' = 0 /\ NextToken = ";"
      /\ IF segStart > 0 THEN EmitSegment(read + 1) ELSE UNCHANGED result
  BY DEF EndSegment, Scan
<1>3. read \in Nat /\ lastWritten \in Nat
  BY <1>1, Bounds DEF TextsOK
<1>4. TextsOK' /\ PointsOK' /\ SignalsOK' /\ lastWritten' <= read + 1
  <2>1. CASE segStart > 0
    <3>1. EndsHere
      BY <1>2 DEF EndsHere, NextToken
    <3> QED
      BY <1>1, <1>2, <2>1, <3>1, EmitKeeps
  <2>2. CASE ~(segStart > 0)
    <3>1. UNCHANGED <<kind, body, result>>
      BY <1>2, <2>2
    <3>2. lastWritten' <= read + 1
      <4>1. lastWritten' = lastWritten
        BY <3>1 DEF result
      <4>2. lastWritten <= read
        BY <1>1, <1>2 DEF Behind
      <4> QED
        BY <1>3, <4>1, <4>2
    <3> QED
      BY <1>1, <3>1, <3>2, SameResult
  <2> QED
    BY <2>1, <2>2
<1>5. Behind'
  <2>1. pc' = "scan" /\ segStart' = 0 /\ read' = read + 1
    BY <1>2
  <2>2. lastWritten' <= read'
    BY <1>4, <2>1
  <2> QED
    BY <2>1, <2>2 DEF Behind
<1> QED
  BY <1>4, <1>5 DEF WInv

LEMMA EndOfBodyWrites == IInv /\ WInv /\ EndOfBody => WInv'
<1> SUFFICES ASSUME IInv, WInv, EndOfBody PROVE WInv'
  OBVIOUS
<1>1. BodyOK /\ ScanOK /\ TextsOK /\ PointsOK /\ SignalsOK /\ Behind
  BY DEF IInv, WInv
<1>2. /\ pc = "scan" /\ pc' = "flush" /\ read = Len(body) /\ kind' = kind /\ body' = body
      /\ IF segStart > 0 THEN EmitSegment(Len(body) + 1) ELSE UNCHANGED result
  BY DEF EndOfBody
<1>3. TextsOK' /\ PointsOK' /\ SignalsOK'
  <2>1. CASE segStart > 0
    <3>1. EndsHere
      <4>1. read = Len(body) /\ Len(body) \in Nat
        BY <1>1, <1>2, Bounds
      <4>2. ~(read + 1 <= Len(body))
        BY <4>1
      <4> QED
        BY <4>2, Zenon DEF EndsHere
    <3>2. EmitSegment(read + 1)
      BY <1>2, <2>1
    <3> QED
      BY <1>1, <1>2, <2>1, <3>1, <3>2, EmitKeeps
  <2>2. CASE ~(segStart > 0)
    <3>1. UNCHANGED <<kind, body, result>>
      BY <1>2, <2>2
    <3> QED
      BY <1>1, <3>1, SameResult
  <2> QED
    BY <2>1, <2>2
<1>4. Behind'
  BY <1>2 DEF Behind
<1> QED
  BY <1>3, <1>4 DEF WInv

\* The rest of the body.
LEMMA RestWritten ==
    ASSUME written \in Seq({"text", "signal"} \X (1..Len(body))), Len(body) \in Nat,
           lastWritten \in Nat, lastWritten <= Len(body),
           written' = written \o Text(lastWritten + 1, Len(body))
    PROVE  Grown(Len(body)) /\ \A p \in DOMAIN written' \ DOMAIN written : written'[p][1] = "text"
<1>1. PICK S : S = {"text", "signal"} \X (1..Len(body))
  OBVIOUS
<1>2. PICK n \in Nat : n = Len(body)
  OBVIOUS
<1>a. PICK b, w : b = Text(lastWritten + 1, n) /\ w = written'
  OBVIOUS
<1>0. lastWritten <= n
  BY <1>2
<1>3. PICK g \in Nat : g = n - lastWritten
  BY <1>0
<1>4. b \in Seq(S) /\ Len(b) = g /\ \A i \in 1..g : b[i] = <<"text", lastWritten + i>>
  <2>1. PICK f \in Nat : f = lastWritten + 1
    OBVIOUS
  <2>2. f >= 1 /\ n <= n /\ f <= n + 1 /\ n \in Nat
    BY <1>2, <2>1
  <2>3. b \in Seq(S) /\ Len(b) = n - f + 1 /\ \A i \in 1..(n - f + 1) : b[i] = <<"text", f + i - 1>>
    BY <1>1, <1>2, <1>a, <2>1, <2>2, TextTyped
  <2>4. n - f + 1 = g
    BY <1>3, <2>1
  <2>5. \A i \in 1..g : f + i - 1 = lastWritten + i
    BY <2>1
  <2> QED
    BY <2>3, <2>4, <2>5
<1>5. written \in Seq(S) /\ w = written \o b
  BY <1>1, <1>2, <1>a
<1>6. PICK L \in Nat : L = Len(written) /\ DOMAIN written = 1..L
  BY <1>5, LenProperties
<1>7. /\ w \in Seq(S) /\ DOMAIN w = 1..(L + g)
      /\ \A i \in 1..L : w[i] = written[i]
      /\ \A i \in 1..g : w[L + i] = <<"text", lastWritten + i>>
  <2>1. b \in Seq(S)
    BY <1>4
  <2>2. /\ w \in Seq(S) /\ DOMAIN w = 1..(Len(written) + Len(b))
        /\ \A i \in 1..Len(written) : w[i] = written[i]
        /\ \A i \in 1..Len(b) : w[Len(written) + i] = b[i]
    BY <1>5, <2>1, JoinedTwo
  <2> QED
    BY <1>4, <1>6, <2>2
<1>8. ASSUME NEW p \in DOMAIN w \ DOMAIN written
      PROVE  \E i \in 1..g : p = L + i /\ w[p][1] = "text" /\ w[p][2] = lastWritten + i
  <2>1. p \in Int /\ p > L /\ p <= L + g
    BY <1>6, <1>7
  <2>2. PICK i \in Int : i = p - L
    BY <2>1
  <2>3. i \in 1..g /\ p = L + i
    BY <2>1, <2>2
  <2>4. w[p] = <<"text", lastWritten + i>>
    BY <1>7, <2>3
  <2> QED
    BY <2>3, <2>4
<1>9. Grown(n)
  <2>1. w \in Seq({"text", "signal"} \X (1..Len(body)))
    BY <1>1, <1>7
  <2>2. \A p \in DOMAIN written : p \in DOMAIN w /\ w[p] = written[p]
    BY <1>6, <1>7
  <2>3. \A p \in DOMAIN w \ DOMAIN written : \A q \in DOMAIN written : q < p
    BY <1>6, <1>7
  <2>4. ASSUME NEW p \in DOMAIN w \ DOMAIN written, w[p][1] = "text"
        PROVE  lastWritten < w[p][2] /\ w[p][2] <= n
    BY <1>2, <1>3, <1>8
  <2>5. ASSUME NEW p \in DOMAIN w \ DOMAIN written, NEW q \in DOMAIN w \ DOMAIN written,
               w[p][1] = "text", w[q][1] = "text", p < q
        PROVE  w[p][2] < w[q][2]
    BY <1>8, <2>5
  <2>6. ASSUME NEW i \in (lastWritten + 1)..n PROVE \E p \in DOMAIN w : w[p] = <<"text", i>>
    <3>1. PICK j \in Int : j = i - lastWritten
      OBVIOUS
    <3>2. j \in 1..g /\ i = lastWritten + j
      BY <1>2, <1>3, <3>1
    <3>3. L + j \in DOMAIN w
      BY <1>7, <3>2
    <3> QED
      BY <1>7, <3>2, <3>3
  <2> QED
    BY <1>a, <2>1, <2>2, <2>3, <2>4, <2>5, <2>6 DEF Grown
<1> QED
  BY <1>2, <1>8, <1>9, <1>a

LEMMA FlushWrites == IInv /\ WInv /\ Flush => WInv'
<1> SUFFICES ASSUME IInv, WInv, Flush PROVE WInv'
  OBVIOUS
<1>1. BodyOK /\ TextsOK /\ PointsOK /\ SignalsOK
  BY DEF IInv, WInv
<1>2. /\ pc = "flush" /\ pc' = "done" /\ kind' = kind /\ body' = body /\ locations' = locations
      /\ written' = written \o Text(lastWritten + 1, Len(body)) /\ lastWritten' = Len(body)
  BY DEF Flush
<1>3. /\ written \in Seq({"text", "signal"} \X (1..Len(body))) /\ Len(body) \in Nat
      /\ lastWritten \in Nat /\ lastWritten <= Len(body)
  BY <1>1, Bounds DEF TextsOK
<1>4. Grown(Len(body)) /\ \A p \in DOMAIN written' \ DOMAIN written : written'[p][1] = "text"
  BY <1>2, <1>3, RestWritten
<1>5. TextsOK'
  <2>1. PICK n \in Nat : n = Len(body)
    BY <1>3
  <2>2. lastWritten <= n /\ n <= Len(body) /\ Grown(n) /\ lastWritten' = n
    BY <1>2, <1>3, <1>4, <2>1
  <2> QED
    BY <1>1, <1>2, <1>3, <2>2, TextsGrow
<1>6. PointsOK'
  <2>1. ASSUME NEW i \in DOMAIN locations PROVE EndOfPoint(locations[i]) <= Len(body) + 1
    <3>1. EndOfPoint(locations[i]) \in Int /\ EndOfPoint(locations[i]) <= lastWritten + 1
      BY <1>1, PointFields DEF PointsOK
    <3> QED
      BY <1>3, <3>1
  <2> QED
    BY <1>1, <1>2, <2>1 DEF PointsOK, EndOfPoint, TokensOf
<1>7. SignalsOK'
  <2>1. \A p \in DOMAIN written : p \in DOMAIN written' /\ written'[p] = written[p]
    BY <1>4 DEF Grown
  <2>2. ASSUME NEW p \in DOMAIN written', written'[p][1] # "text"
        PROVE  p \in DOMAIN written /\ written'[p] = written[p] /\ written[p][1] # "text"
    BY <1>4, <2>1, <2>2
  <2>3. ASSUME NEW p \in DOMAIN written', written'[p][1] # "text"
        PROVE  \E i \in DOMAIN locations' : Placed(p, locations[i])'
    <3>1. PICK i \in DOMAIN locations : Placed(p, locations[i])
      BY <1>1, <2>2, <2>3 DEF SignalsOK, IsText
    <3>2. PICK l : l = locations[i]
      OBVIOUS
    <3>3. Placed(p, l)'
      BY <1>2, <2>1, <2>2, <2>3, <3>1, <3>2, PlacedStays
    <3> QED
      BY <1>2, <3>2, <3>3
  <2>4. ASSUME NEW i \in DOMAIN locations'
        PROVE  \E p \in DOMAIN written' : written'[p] = <<"signal", locations'[i].start>>
    <3>1. PICK p \in DOMAIN written : written[p] = <<"signal", locations[i].start>>
      BY <1>1, <1>2 DEF SignalsOK
    <3> QED
      BY <1>2, <2>1, <3>1
  <2>5. ASSUME NEW p \in DOMAIN written', NEW q \in DOMAIN written',
               written'[p][1] # "text", written'[q][1] # "text", p < q
        PROVE  written'[p][2] < written'[q][2]
    BY <1>1, <2>2, <2>5 DEF SignalsOK, IsText
  <2> QED
    BY <2>3, <2>4, <2>5 DEF SignalsOK, IsText
<1>8. Behind'
  BY <1>2 DEF Behind
<1> QED
  BY <1>5, <1>6, <1>7, <1>8 DEF WInv

LEMMA WrittenNext == IInv /\ WInv /\ [InstrumentStep]_vars => WInv'
<1> SUFFICES ASSUME IInv, WInv, [InstrumentStep]_vars PROVE WInv'
  OBVIOUS
<1>1. BodyOK /\ TextsOK /\ PointsOK /\ SignalsOK /\ Behind /\ kind \in {"plpgsql", "sql"}
  BY DEF IInv, WInv, BodyOK
<1>2. read \in Nat /\ lastWritten \in Nat
  BY <1>1, Bounds DEF TextsOK
<1>3. CASE SkipToBegin \/ SkipComment \/ TakeToken
  <2>1. /\ pc = "scan" /\ pc' = "scan" /\ read' = read + 1 /\ UNCHANGED <<kind, body, result>>
        /\ segStart' = segStart \/ (segStart = 0 /\ segStart' = read + 1)
    BY <1>3 DEF SkipToBegin, SkipComment, TakeToken, Scan, segment
  <2>2. Behind'
    BY <1>1, <1>2, <2>1 DEF Behind, result
  <2> QED
    BY <1>1, <2>1, <2>2, SameResult DEF WInv
<1>4. CASE UNCHANGED vars
  <2>1. UNCHANGED <<kind, body, result>> /\ UNCHANGED <<pc, read, segStart>>
    BY <1>4 DEF vars, segment, result
  <2>2. Behind'
    BY <1>1, <2>1 DEF Behind, result
  <2> QED
    BY <1>1, <2>1, <2>2, SameResult DEF WInv
<1>5. ~MarkStatement
  BY <1>1 DEF MarkStatement, Instrumented
<1> QED
  BY <1>3, <1>4, <1>5, EndSegmentWrites, EndOfBodyWrites, FlushWrites DEF InstrumentStep

\* The invariant of one statement.
LEMMA StatementInvariance == StatementSpec => [](IInv /\ WInv)
<1>1. (\E k \in {"plpgsql", "sql"}, b \in Seq(STRING) : Begin(k, b)) => WInv
  BY WrittenInit
<1> QED
  BY <1>1, Invariance, WrittenNext, PTL DEF StatementSpec

\* What holds at u, and is handed on from each number to the next.
LEMMA AllAlong ==
    ASSUME NEW u \in Nat, NEW v \in Nat, NEW G, u \in G, \A x \in (u + 1)..v : x - 1 \in G => x \in G
    PROVE  \A x \in u..v : x \in G
<1> SUFFICES ASSUME NEW q \in u..v, q \notin G PROVE FALSE
  OBVIOUS
<1>1. PICK B : \A x : x \in B <=> x \in u..v /\ x \notin G
  <2>1. \A x : x \in {y \in u..v : y \notin G} <=> x \in u..v /\ x \notin G
    BY Zenon
  <2> QED
    BY <2>1
<1>2. B \subseteq Nat /\ B # {}
  <2>1. \A x \in u..v : x \in Nat
    OBVIOUS
  <2> QED
    BY <1>1, <2>1
<1>3. PICK x \in B : \A k \in B : x <= k
  BY <1>2, LeastNumber
<1>4. x \in u..v /\ x # u
  BY <1>1, <1>3
<1>5. x \in (u + 1)..v /\ x - 1 \in u..v /\ ~(x <= x - 1)
  BY <1>4
<1>6. x - 1 \notin B
  BY <1>3, <1>5
<1>7. x - 1 \in G
  BY <1>1, <1>5, <1>6
<1>8. x \in G
  BY <1>5, <1>7
<1> QED
  BY <1>1, <1>3, <1>8

-----------------------------------------------------------------------------
(* Sequences joined, and where each begins in what they are joined to       *)

FlatOn(f, s, k) == f = [i \in 1..k |-> IF i = 1 THEN s[i] ELSE f[i - 1] \o s[i]]

LEMMA FlatExists ==
    ASSUME NEW s
    PROVE  \A k \in Nat : \E f : FlatOn(f, s, k)
<1> SUFFICES ASSUME NEW B, B = {k \in Nat : ~\E f : FlatOn(f, s, k)}, B # {} PROVE FALSE
  OBVIOUS
<1>1. PICK m \in B : \A k \in B : m <= k
  BY LeastNumber
<1>2. m # 0
  <2>1. FlatOn([i \in 1..0 |-> <<>>], s, 0)
    BY DEF FlatOn
  <2> QED
    BY <2>1
<1>3. PICK f : FlatOn(f, s, m - 1)
  BY <1>1, <1>2
<1>4. m \in Nat /\ m > 0
  BY <1>1, <1>2
<1>5. PICK last : last = IF m = 1 THEN s[m] ELSE f[m - 1] \o s[m]
  OBVIOUS
<1> DEFINE g == [i \in 1..m |-> IF i = m THEN last ELSE f[i]]
<1>6. \A i \in 1..(m - 1) : f[i] = IF i = 1 THEN s[i] ELSE f[i - 1] \o s[i]
  BY <1>3, <1>4 DEF FlatOn
<1>7. \A i \in 1..(m - 1) : g[i] = f[i]
  BY <1>4
<1>8. ASSUME NEW i \in 1..m
      PROVE  g[i] = IF i = 1 THEN s[i] ELSE g[i - 1] \o s[i]
  <2>1. CASE i = m
    <3>1. g[i] = last /\ (i # 1 => g[i - 1] = f[m - 1])
      BY <1>4, <1>7, <2>1
    <3> QED
      BY <1>5, <2>1, <3>1
  <2>2. CASE i # m
    <3>1. i \in 1..(m - 1) /\ (i # 1 => i - 1 \in 1..(m - 1))
      BY <1>4, <2>2
    <3>2. g[i] = f[i] /\ (i # 1 => g[i - 1] = f[i - 1])
      BY <1>7, <3>1
    <3> QED
      BY <1>6, <3>1, <3>2
  <2> QED
    BY <2>1, <2>2
<1>9. FlatOn(g, s, m)
  BY <1>8 DEF FlatOn
<1> QED
  BY <1>1, <1>9

LEMMA FlatUnique ==
    ASSUME NEW s, NEW t, NEW f, NEW h, NEW k \in Nat, NEW m \in Nat, m <= k, FlatOn(f, s, k), FlatOn(h, t, m),
           \A i \in 1..m : t[i] = s[i]
    PROVE  \A i \in 1..m : h[i] = f[i]
<1> SUFFICES ASSUME NEW B, B = {i \in 1..m : h[i] # f[i]}, B # {} PROVE FALSE
  OBVIOUS
<1>0. B \in SUBSET Nat
  OBVIOUS
<1>1. PICK i \in B : \A j \in B : i <= j
  BY <1>0, LeastNumber
<1>2. i \in 1..m /\ i \in 1..k
  BY <1>1
<1>3. f[i] = IF i = 1 THEN s[i] ELSE f[i - 1] \o s[i]
  BY <1>2 DEF FlatOn
<1>4. h[i] = IF i = 1 THEN t[i] ELSE h[i - 1] \o t[i]
  BY <1>2 DEF FlatOn
<1>5. i # 1 => h[i - 1] = f[i - 1]
  <2>1. i # 1 => i - 1 \in Nat /\ i - 1 \in 1..m /\ i - 1 < i /\ i \in Nat
    BY <1>2
  <2> QED
    BY <1>1, <2>1
<1>6. t[i] = s[i]
  BY <1>2
<1> QED
  BY <1>1, <1>3, <1>4, <1>5, <1>6

\* A prefix of a sequence.
LEMMA Prefix ==
    ASSUME NEW S, NEW s \in Seq(S), NEW m \in 0..Len(s)
    PROVE  /\ SubSeq(s, 1, m) \in Seq(S) /\ Len(SubSeq(s, 1, m)) = m /\ DOMAIN SubSeq(s, 1, m) = 1..m
           /\ \A i \in 1..m : SubSeq(s, 1, m)[i] = s[i]
           /\ SubSeq(s, 1, Len(s)) = s
<1>1. PICK L \in Nat : L = Len(s) /\ m \in 0..L /\ DOMAIN s = 1..L /\ s = [i \in 1..L |-> s[i]]
  BY LenProperties
<1>2. ASSUME NEW k \in 0..L
      PROVE  /\ SubSeq(s, 1, k) \in Seq(S) /\ Len(SubSeq(s, 1, k)) = k /\ DOMAIN SubSeq(s, 1, k) = 1..k
             /\ \A i \in 1..k : SubSeq(s, 1, k)[i] = s[i]
  <2>1. \A i \in 1..k : i \in 1..Len(s)
    BY <1>1
  <2>2. PICK t : t = SubSeq(s, 1, k)
    OBVIOUS
  <2>3. t \in Seq(S)
    BY <1>1, <2>1, <2>2, SubSeqProperties
  <2>4. Len(t) = k
    BY <1>1, <2>1, <2>2, SubSeqProperties
  <2>5. DOMAIN t = 1..k
    BY <2>3, <2>4, LenProperties
  <2>6. \A i \in 1..k : t[i] = s[i]
    BY <1>1, <2>1, <2>2, SubSeqProperties
  <2> QED
    BY <2>2, <2>3, <2>4, <2>5, <2>6
<1>3. SubSeq(s, 1, L) = s
  <2>1. PICK t : t = SubSeq(s, 1, L)
    OBVIOUS
  <2>2. t \in Seq(S) /\ DOMAIN t = 1..L /\ \A i \in 1..L : t[i] = s[i]
    BY <1>1, <1>2, <2>1
  <2>3. t = [i \in 1..L |-> t[i]]
    BY <2>2, LenProperties
  <2>4. t = [i \in 1..L |-> s[i]]
    BY <2>2, <2>3
  <2> QED
    BY <1>1, <2>1, <2>4
<1> QED
  BY <1>1, <1>2, <1>3

\* The first m of the sequences, joined.
JoinedTo(s, m) == FlattenSeq(SubSeq(s, 1, m))

LEMMA FlatPrefix ==
    ASSUME NEW S, NEW s \in Seq(Seq(S)), NEW f, FlatOn(f, s, Len(s)), NEW m \in 1..Len(s)
    PROVE  JoinedTo(s, m) = f[m]
<1>1. PICK t : t = SubSeq(s, 1, m)
  OBVIOUS
<1>2. Len(s) \in Nat /\ m \in Nat /\ m <= Len(s) /\ m # 0 /\ m \in 0..Len(s) /\ m \in 1..m
  BY LenProperties
<1>3. Len(t) = m /\ \A i \in 1..m : t[i] = s[i]
  BY <1>1, <1>2, Prefix
<1>4. PICK h : h = CHOOSE g : FlatOn(g, t, m)
  OBVIOUS
<1>5. FlatOn(h, t, m)
  BY <1>2, <1>4, FlatExists
<1>6. FlattenSeq(t) = h[m]
  BY <1>2, <1>3, <1>4 DEF FlattenSeq, FlatOn
<1>7. h[m] = f[m]
  <2>1. \A i \in 1..m : h[i] = f[i]
    <3>1. PICK k \in Nat : k = Len(s)
      BY <1>2
    <3>2. FlatOn(f, s, k) /\ m <= k
      BY <1>2, <3>1
    <3> QED
      BY <1>2, <1>3, <1>5, <3>2, FlatUnique, SMTT(20)
  <2> QED
    BY <1>2, <2>1
<1> QED
  BY <1>1, <1>6, <1>7 DEF JoinedTo

LEMMA JoinedOneMore ==
    ASSUME NEW S, NEW s \in Seq(Seq(S))
    PROVE  /\ JoinedTo(s, 0) = <<>>
           /\ \A m \in 1..Len(s) : JoinedTo(s, m) = JoinedTo(s, m - 1) \o s[m]
           /\ \A m \in 0..Len(s) : JoinedTo(s, m) \in Seq(S)
           /\ JoinedTo(s, Len(s)) = FlattenSeq(s)
<1>1. PICK L \in Nat : L = Len(s) /\ DOMAIN s = 1..L
  BY LenProperties
<1>2. JoinedTo(s, 0) = <<>>
  <2>1. SubSeq(s, 1, 0) = <<>>
    BY SubSeqEmpty
  <2>2. Len(<<>>) = 0
    BY EmptySeq
  <2>3. FlattenSeq(<<>>) = <<>>
    BY <2>2 DEF FlattenSeq
  <2> QED
    BY <2>1, <2>3 DEF JoinedTo
<1>3. PICK f : FlatOn(f, s, L)
  BY <1>1, FlatExists
<1>4. \A m \in 1..L : JoinedTo(s, m) = f[m]
  BY <1>1, <1>3, FlatPrefix
<1>5. \A m \in 1..L : s[m] \in Seq(S)
  BY <1>1, ElementOfSeq
<1>6. ASSUME NEW m \in 1..L
      PROVE  JoinedTo(s, m) = JoinedTo(s, m - 1) \o s[m]
  <2>1. f[m] = IF m = 1 THEN s[m] ELSE f[m - 1] \o s[m]
    BY <1>3 DEF FlatOn
  <2>2. CASE m = 1
    <3>1. <<>> \o s[m] = s[m]
      BY <1>5, ConcatEmptySeq
    <3>2. JoinedTo(s, m) = s[m]
      BY <1>4, <2>1, <2>2
    <3>3. JoinedTo(s, m - 1) = <<>>
      BY <1>2, <2>2
    <3> QED
      BY <3>1, <3>2, <3>3
  <2>3. CASE m # 1
    <3>1. m - 1 \in 1..L
      BY <2>3
    <3>2. JoinedTo(s, m - 1) = f[m - 1] /\ JoinedTo(s, m) = f[m]
      BY <1>4, <3>1
    <3> QED
      BY <2>1, <2>3, <3>2
  <2> QED
    BY <2>2, <2>3
<1>7. ASSUME NEW B, B = {m \in Nat : m \in 0..L /\ JoinedTo(s, m) \notin Seq(S)}, B # {}
      PROVE  FALSE
  <2>1. PICK m \in B : \A k \in B : m <= k
    BY <1>7, LeastNumber
  <2>2. m # 0
    BY <1>2, <1>7, <2>1, EmptySeq
  <2>3. m \in 1..L /\ m - 1 \in Nat /\ m - 1 \in 0..L /\ m - 1 < m
    BY <1>7, <2>1, <2>2
  <2>4. JoinedTo(s, m - 1) \in Seq(S)
    BY <1>7, <2>1, <2>3
  <2>5. JoinedTo(s, m) \in Seq(S)
    BY <1>5, <1>6, <2>3, <2>4, ConcatProperties
  <2> QED
    BY <1>7, <2>1, <2>5
<1>8. \A m \in 0..L : JoinedTo(s, m) \in Seq(S)
  <2>1. PICK B : B = {m \in Nat : m \in 0..L /\ JoinedTo(s, m) \notin Seq(S)}
    OBVIOUS
  <2>2. B = {}
    BY <1>7, <2>1
  <2> QED
    BY <2>1, <2>2
<1>9. JoinedTo(s, L) = FlattenSeq(s)
  <2>1. SubSeq(s, 1, L) = s
    BY <1>1, Prefix
  <2> QED
    BY <2>1 DEF JoinedTo
<1> QED
  BY <1>1, <1>2, <1>6, <1>8, <1>9

\* A number that no step lowers.
LEMMA Monotone ==
    ASSUME NEW L \in Nat, NEW F, \A m \in 0..L : F[m] \in Nat, \A m \in 1..L : F[m - 1] <= F[m]
    PROVE  \A i, j \in 0..L : i <= j => F[i] <= F[j]
<1> SUFFICES ASSUME NEW i \in 0..L PROVE \A j \in 0..L : i <= j => F[i] <= F[j]
  OBVIOUS
<1> SUFFICES ASSUME NEW B, B = {j \in 0..L : i <= j /\ ~(F[i] <= F[j])}, B # {} PROVE FALSE
  OBVIOUS
<1>0. B \in SUBSET Nat
  OBVIOUS
<1>1. PICK j \in B : \A k \in B : j <= k
  BY <1>0, LeastNumber
<1>2. j \in 0..L /\ i <= j /\ ~(F[i] <= F[j])
  BY <1>1
<1>3. j # i
  BY <1>2
<1>4. j - 1 \in Nat /\ j - 1 \in 0..L /\ i <= j - 1 /\ j \in 1..L /\ j - 1 < j
  BY <1>2, <1>3
<1>5. F[i] <= F[j - 1]
  BY <1>1, <1>4
<1>6. F[j - 1] <= F[j] /\ F[i] \in Nat /\ F[j - 1] \in Nat /\ F[j] \in Nat
  BY <1>2, <1>4
<1> QED
  BY <1>2, <1>5, <1>6

\* Where the m-th sequence begins.
StartIn(s, m) == Len(JoinedTo(s, m - 1))

LEMMA StartsIn ==
    ASSUME NEW S, NEW s \in Seq(Seq(S))
    PROVE  /\ Len(s) \in Nat /\ DOMAIN s = 1..Len(s) /\ \A m \in 1..Len(s) : Len(s[m]) \in Nat
           /\ \A m \in 1..(Len(s) + 1) : StartIn(s, m) \in Nat
           /\ StartIn(s, 1) = 0 /\ StartIn(s, Len(s) + 1) = Len(FlattenSeq(s))
           /\ \A m \in 1..Len(s) : StartIn(s, m + 1) = StartIn(s, m) + Len(s[m])
           /\ \A i, j \in 1..(Len(s) + 1) : i <= j => StartIn(s, i) <= StartIn(s, j)
<1>1. PICK L \in Nat : L = Len(s) /\ DOMAIN s = 1..L
  BY LenProperties
<1>2. \A m \in 0..L : JoinedTo(s, m) \in Seq(S)
  BY <1>1, JoinedOneMore
<1>3. \A m \in 1..L : s[m] \in Seq(S) /\ Len(s[m]) \in Nat
  BY <1>1, ElementOfSeq, LenProperties
<1>4. PICK F : F = [m \in 0..L |-> Len(JoinedTo(s, m))]
  OBVIOUS
<1>5. \A m \in 0..L : F[m] \in Nat /\ F[m] = Len(JoinedTo(s, m))
  BY <1>2, <1>4, LenProperties
<1>6. ASSUME NEW m \in 1..L
      PROVE  F[m] = F[m - 1] + Len(s[m])
  <2>1. PICK a \in Seq(S) : a = JoinedTo(s, m - 1) /\ F[m - 1] = Len(a)
    <3>1. m - 1 \in 0..L
      OBVIOUS
    <3> QED
      BY <1>2, <1>5, <3>1
  <2>2. JoinedTo(s, m) = a \o s[m]
    BY <1>1, <2>1, JoinedOneMore
  <2>3. Len(a \o s[m]) = Len(a) + Len(s[m])
    BY <1>3, <2>1, JoinedTwo
  <2>4. F[m] = Len(JoinedTo(s, m))
    BY <1>5
  <2> QED
    BY <2>1, <2>2, <2>3, <2>4
<1>7. \A i, j \in 0..L : i <= j => F[i] <= F[j]
  <2>1. \A m \in 1..L : F[m - 1] <= F[m]
    <3>1. \A m \in 1..L : F[m - 1] \in Nat /\ Len(s[m]) \in Nat /\ F[m] = F[m - 1] + Len(s[m])
      <4>1. \A m \in 1..L : m - 1 \in 0..L
        OBVIOUS
      <4> QED
        BY <1>3, <1>5, <1>6, <4>1
    <3> SUFFICES ASSUME NEW m \in 1..L PROVE F[m - 1] <= F[m]
      OBVIOUS
    <3>2. PICK x \in Nat, y \in Nat : x = F[m - 1] /\ y = Len(s[m]) /\ F[m] = x + y
      BY <3>1
    <3>3. x <= x + y
      BY ONLY x \in Nat, y \in Nat
    <3> QED
      BY <3>2, <3>3
  <2> QED
    BY <1>5, <2>1, Monotone
<1>8. \A m \in 1..(L + 1) : m - 1 \in 0..L /\ StartIn(s, m) = F[m - 1]
  <2>1. \A m \in 1..(L + 1) : m - 1 \in 0..L
    OBVIOUS
  <2> QED
    BY <1>5, <2>1 DEF StartIn
<1>9. \A m \in 1..(L + 1) : StartIn(s, m) \in Nat
  BY <1>5, <1>8
<1>10. StartIn(s, 1) = 0
  <2>1. JoinedTo(s, 0) = <<>> /\ Len(<<>>) = 0
    BY JoinedOneMore, EmptySeq
  <2>2. 1 - 1 = 0
    OBVIOUS
  <2> QED
    BY <2>1, <2>2 DEF StartIn
<1>11. StartIn(s, L + 1) = Len(FlattenSeq(s))
  <2>1. L + 1 - 1 = L
    OBVIOUS
  <2>2. JoinedTo(s, L) = FlattenSeq(s)
    BY <1>1, JoinedOneMore
  <2> QED
    BY <2>1, <2>2 DEF StartIn
<1>12. ASSUME NEW m \in 1..L
       PROVE  StartIn(s, m + 1) = StartIn(s, m) + Len(s[m])
  <2>1. m \in 1..(L + 1) /\ m + 1 \in 1..(L + 1) /\ m + 1 - 1 = m
    OBVIOUS
  <2>2. StartIn(s, m + 1) = F[m] /\ StartIn(s, m) = F[m - 1]
    BY <1>8, <2>1
  <2> QED
    BY <1>6, <2>2
<1>13. ASSUME NEW i \in 1..(L + 1), NEW j \in 1..(L + 1), i <= j
       PROVE  StartIn(s, i) <= StartIn(s, j)
  <2>1. i - 1 \in 0..L /\ j - 1 \in 0..L /\ i - 1 <= j - 1
    BY <1>13
  <2> QED
    BY <1>7, <1>8, <2>1
<1> QED
  BY <1>1, <1>3, <1>9, <1>10, <1>11, <1>12, <1>13

\* Each of the sequences is where it begins, and up to where the next one does.
LEMMA Flattened ==
    ASSUME NEW S, NEW s \in Seq(Seq(S))
    PROVE  /\ FlattenSeq(s) \in Seq(S)
           /\ \A i \in 1..Len(s) : \A j \in 1..Len(s[i]) : FlattenSeq(s)[StartIn(s, i) + j] = s[i][j]
<1>1. PICK L \in Nat : L = Len(s) /\ DOMAIN s = 1..L
  BY LenProperties
<1>2. JoinedTo(s, L) = FlattenSeq(s) /\ \A m \in 0..L : JoinedTo(s, m) \in Seq(S)
  BY <1>1, JoinedOneMore
<1>3. FlattenSeq(s) \in Seq(S)
  <2>1. L \in 0..L
    OBVIOUS
  <2> QED
    BY <1>2, <2>1
<1>4. ASSUME NEW i \in 1..L, NEW j \in 1..Len(s[i])
      PROVE  FlattenSeq(s)[StartIn(s, i) + j] = s[i][j]
  <2>0. \A m \in 1..L : s[m] \in Seq(S) /\ Len(s[m]) \in Nat
    BY <1>1, ElementOfSeq, LenProperties
  <2>1. PICK x \in Nat : x = StartIn(s, i) + j
    <3>1. i \in 1..(L + 1)
      OBVIOUS
    <3>2. StartIn(s, i) \in Nat
      BY <1>1, <3>1, StartsIn
    <3> QED
      BY <2>0, <3>2
  <2>2. ASSUME NEW B, B = {m \in Nat : m \in i..L /\ JoinedTo(s, m)[x] # s[i][j]}, B # {}
        PROVE  FALSE
    <3>1. PICK m \in B : \A k \in B : m <= k
      BY <2>2, LeastNumber
    <3>2. m \in i..L /\ m \in 1..L /\ m - 1 \in 0..L /\ m - 1 \in Nat
      BY <2>2, <3>1
    <3>3. PICK a \in Seq(S) : a = JoinedTo(s, m - 1)
      BY <1>2, <3>2
    <3>4. JoinedTo(s, m) = a \o s[m]
      BY <1>1, <3>2, <3>3, JoinedOneMore
    <3>5. StartIn(s, m) = Len(a)
      BY <3>3 DEF StartIn
    <3>6. CASE m = i
      <4>0. PICK b \in Seq(S) : b = s[i]
        BY <2>0
      <4>1. (a \o b)[Len(a) + j] = b[j]
        <5>1. j \in 1..Len(b)
          BY <4>0
        <5> QED
          BY <5>1, JoinedTwo
      <4> QED
        BY <2>1, <2>2, <3>1, <3>4, <3>5, <3>6, <4>0, <4>1
    <3>7. CASE m # i
      <4>1. m - 1 \in i..L /\ m - 1 < m
        BY <3>2, <3>7
      <4>2. a[x] = s[i][j]
        BY <2>2, <3>1, <3>2, <3>3, <4>1
      <4>3. x \in 1..Len(a)
        <5>1. i \in 1..(L + 1) /\ i + 1 \in 1..(L + 1) /\ m \in 1..(L + 1) /\ i + 1 <= m
          BY <3>2, <3>7
        <5>2. StartIn(s, i) \in Nat /\ StartIn(s, i + 1) = StartIn(s, i) + Len(s[i])
          BY <1>1, <5>1, StartsIn
        <5>3. StartIn(s, i + 1) <= StartIn(s, m)
          BY <1>1, <5>1, StartsIn
        <5>4. j \in 1..Len(s[i]) /\ Len(s[i]) \in Nat /\ Len(a) \in Nat
          BY <2>0, <3>3, LenProperties
        <5> QED
          BY <2>1, <3>5, <5>2, <5>3, <5>4
      <4>4. (a \o s[m])[x] = a[x]
        BY <2>0, <3>2, <3>3, <4>3, JoinedTwo
      <4> QED
        BY <2>2, <3>1, <3>4, <4>2, <4>4
    <3> QED
      BY <3>6, <3>7
  <2>3. L \in i..L /\ L \in Nat
    OBVIOUS
  <2>4. JoinedTo(s, L)[x] = s[i][j]
    <3>1. PICK B : B = {m \in Nat : m \in i..L /\ JoinedTo(s, m)[x] # s[i][j]}
      OBVIOUS
    <3>2. B = {}
      BY <2>2, <3>1
    <3> QED
      BY <2>3, <3>1, <3>2
  <2> QED
    BY <1>2, <2>1, <2>4
<1> QED
  BY <1>1, <1>3, <1>4

-----------------------------------------------------------------------------
(* The segment a token is in                                                *)

Semicolon(j) == body[j] = ";"

\* Token h begins the text between two semicolons that token t is in; f is the first BEGIN.
HeadOf(f, h, t) ==
    /\ Len(body) \in Nat /\ DOMAIN body = 1..Len(body) /\ t \in 1..Len(body) /\ h \in 1..t /\ f \in 1..(h - 1)
    /\ body[f] = "BEGIN" /\ \A j \in 1..(f - 1) : body[j] # "BEGIN"
    /\ body[h] # "COMMENT" /\ \A j \in h..t : ~Semicolon(j)
    /\ \A k \in (f + 1)..t : body[k] # "COMMENT" /\ (\A j \in k..(t - 1) : ~Semicolon(j)) => h <= k

\* The segment that a statement is in begins at its head ...
LEMMA HeadOpens ==
    ASSUME NEW f, NEW h, NEW t, HeadOf(f, h, t), kind # "sql"
    PROVE  \E e \in Ends : Segment(h, e) /\ t < e
<1>bounds. Len(body) \in Nat /\ DOMAIN body = 1..Len(body) /\ t \in 1..Len(body) /\ h \in 1..t /\ f \in 1..(h - 1)
  BY DEF HeadOf
<1>begin. body[f] = "BEGIN"
  BY DEF HeadOf
<1>first. \A j \in 1..(f - 1) : body[j] # "BEGIN"
  BY DEF HeadOf
<1>head. body[h] # "COMMENT"
  BY DEF HeadOf
<1>open. \A j \in h..t : ~Semicolon(j)
  BY DEF HeadOf
<1>least. \A k \in (f + 1)..t : body[k] # "COMMENT" /\ (\A j \in k..(t - 1) : ~Semicolon(j)) => h <= k
  BY DEF HeadOf
<1>1. f \in First
  BY <1>bounds, <1>begin, <1>first DEF First, Begins
<1>2. Len(body) + 1 \in Ends /\ Ends \subseteq Nat /\ \A m \in Ends : m = Len(body) + 1 \/ (m \in 1..Len(body) /\ Semicolon(m))
  <2>1. Len(body) + 1 \in Ends /\ \A m \in Ends : m = Len(body) + 1 \/ (m \in 1..Len(body) /\ Semicolon(m))
    BY <1>bounds DEF Ends, Semicolon
  <2>2. Len(body) + 1 \in Nat /\ \A m \in 1..Len(body) : m \in Nat
    BY <1>bounds
  <2> QED
    BY <2>1, <2>2
<1>3. PICK A : A = {m \in Ends : h < m}
  OBVIOUS
<1>4. Len(body) + 1 \in A /\ A \subseteq Nat
  <2>1. h < Len(body) + 1
    BY <1>bounds
  <2> QED
    BY <1>2, <1>3, <2>1
<1>5. PICK e \in A : \A m \in A : e <= m
  BY <1>4, LeastNumber
<1>6. e \in Ends /\ h < e /\ \A m \in Ends : h < m => e <= m
  BY <1>3, <1>5
<1>7. t < e
  <2>0. h \in Nat /\ t \in Nat /\ Len(body) \in Nat /\ t <= Len(body) /\ h <= t
    BY <1>bounds
  <2>1. CASE e = Len(body) + 1
    BY <2>0, <2>1
  <2>2. CASE e \in 1..Len(body) /\ Semicolon(e)
    BY <2>0, <1>open, <1>6, <2>2
  <2> QED
    BY <1>2, <1>6, <2>1, <2>2
<1>8. \E from \in First \cup Ends : Opens(h, from)
  <2>1. PICK C : C = {x \in 1..(h - 1) : f <= x /\ body[x] # "COMMENT"}
    OBVIOUS
  <2>2. f \in C /\ C \in SUBSET (1..(h - 1)) /\ h - 1 \in Nat
    <3>1. f \in 1..(h - 1) /\ f <= f /\ h - 1 \in Nat
      BY <1>bounds
    <3>2. body[f] # "COMMENT"
      BY <1>begin
    <3> QED
      BY <2>1, <3>1, <3>2
  <2>3. PICK x \in C : \A k \in C : k <= x
    BY <2>2, GreatestNumber
  <2>4. x \in 1..(h - 1) /\ f <= x /\ body[x] # "COMMENT" /\ x < h
    BY <1>bounds, <2>1
  <2>5. \A j \in (x + 1)..(h - 1) : body[j] = "COMMENT"
    <3> SUFFICES ASSUME NEW j \in (x + 1)..(h - 1), body[j] # "COMMENT" PROVE FALSE
      OBVIOUS
    <3>1. j \in 1..(h - 1) /\ f <= j /\ ~(j <= x)
      BY <1>bounds, <2>4
    <3> QED
      BY <2>1, <2>3, <3>1
  <2>6. Opens(h, x)
    <3>1. h \in h..t
      BY <1>bounds
    <3>2. body[h] # ";"
      BY <1>open, <3>1 DEF Semicolon
    <3> QED
      BY <1>head, <2>4, <2>5, <3>2 DEF Opens
  <2>7. x # f => Semicolon(x)
    <3> SUFFICES ASSUME x # f, ~Semicolon(x) PROVE FALSE
      OBVIOUS
    <3>1. x \in (f + 1)..t /\ ~(h <= x)
      BY <1>bounds, <2>4
    <3>2. ASSUME NEW j \in x..(t - 1) PROVE ~Semicolon(j)
      <4>1. j = x \/ j \in (x + 1)..(h - 1) \/ j \in h..t
        BY <1>bounds, <2>4
      <4> QED
        BY <1>open, <2>5, <4>1 DEF Semicolon
    <3> QED
      BY <1>least, <2>4, <3>1, <3>2
  <2>8. x \in First \cup Ends
    <3>1. CASE x = f
      BY <1>1, <3>1
    <3>2. CASE x # f
      <4>1. x \in DOMAIN body /\ Semicolon(x) /\ f < x
        BY <1>bounds, <2>4, <2>7, <3>2
      <4> QED
        BY <1>1, <4>1 DEF Ends, Semicolon
    <3> QED
      BY <3>1, <3>2
  <2> QED
    BY <2>6, <2>8
<1> QED
  BY <1>6, <1>7, <1>8 DEF Segment

\* ... and it is in no other.
LEMMA HeadAlone ==
    ASSUME NEW f, NEW h, NEW t, HeadOf(f, h, t), kind # "sql",
           NEW a \in 1..t, NEW e \in Ends, Segment(a, e), t < e, \A j \in a..t : ~Semicolon(j)
    PROVE  a = h
<1>bounds. Len(body) \in Nat /\ DOMAIN body = 1..Len(body) /\ t \in 1..Len(body) /\ h \in 1..t /\ f \in 1..(h - 1)
  BY DEF HeadOf
<1>begin. body[f] = "BEGIN"
  BY DEF HeadOf
<1>first. \A j \in 1..(f - 1) : body[j] # "BEGIN"
  BY DEF HeadOf
<1>head. body[h] # "COMMENT"
  BY DEF HeadOf
<1>open. \A j \in h..t : ~Semicolon(j)
  BY DEF HeadOf
<1>least. \A k \in (f + 1)..t : body[k] # "COMMENT" /\ (\A j \in k..(t - 1) : ~Semicolon(j)) => h <= k
  BY DEF HeadOf
<1>1. PICK from \in First \cup Ends : Opens(a, from)
  BY DEF Segment
<1>2. from < a /\ body[a] # "COMMENT" /\ \A j \in (from + 1)..(a - 1) : body[j] = "COMMENT"
  BY <1>1 DEF Opens
<1>3. \A b \in First : b \in 1..Len(body) /\ body[b] = "BEGIN" /\ \A j \in 1..(b - 1) : body[j] # "BEGIN"
  BY <1>bounds DEF First, Begins
<1>4. \A b \in First : b = f
  <2> SUFFICES ASSUME NEW b \in First, b # f PROVE FALSE
    OBVIOUS
  <2>1. b \in 1..Len(body) /\ body[b] = "BEGIN" /\ \A j \in 1..(b - 1) : body[j] # "BEGIN"
    BY <1>3
  <2>2. b \in 1..(f - 1) \/ f \in 1..(b - 1)
    BY <1>bounds, <2>1
  <2> QED
    BY <1>begin, <1>first, <2>1, <2>2
<1>5. from \in 1..Len(body) /\ (from = f \/ (Semicolon(from) /\ f < from))
  <2>1. CASE from \in First
    BY <1>3, <1>4, <2>1
  <2>2. CASE from \in Ends
    <3>1. from = Len(body) + 1 \/ (from \in 1..Len(body) /\ Semicolon(from) /\ \E b \in First : b < from)
      BY <1>bounds, <2>2 DEF Ends, Semicolon
    <3>2. from # Len(body) + 1
      BY <1>bounds, <1>2
    <3> QED
      BY <1>4, <3>1, <3>2
  <2> QED
    BY <2>1, <2>2
<1>6. h <= a
  <2>1. a \in (f + 1)..t
    BY <1>bounds, <1>2, <1>5
  <2>2. \A j \in a..(t - 1) : ~Semicolon(j)
    BY <1>bounds
  <2> QED
    BY <1>2, <1>least, <2>1, <2>2
<1>7. ~(h < a)
  <2> SUFFICES ASSUME h < a PROVE FALSE
    OBVIOUS
  <2>1. h <= from
    <3> SUFFICES ASSUME ~(h <= from) PROVE FALSE
      OBVIOUS
    <3>1. h \in (from + 1)..(a - 1)
      BY <1>bounds, <1>5
    <3> QED
      BY <1>begin, <1>head, <1>2, <3>1
  <2>2. from \in h..t
    BY <1>bounds, <1>2, <1>5, <2>1
  <2>3. from # f
    BY <1>bounds, <2>1
  <2> QED
    BY <1>open, <1>5, <2>2, <2>3
<1> QED
  BY <1>bounds, <1>6, <1>7

-----------------------------------------------------------------------------
(* Sequences in order                                                       *)

\* Where an element of two sequences joined comes from.
Parts(r, u, v, A) ==
    /\ \A p \in DOMAIN r : \/ p \in DOMAIN u /\ r[p] = u[p]
                           \/ p - A \in DOMAIN v /\ r[p] = v[p - A]
    /\ \A p \in DOMAIN r : p \in Nat
    /\ \A p \in DOMAIN u : p <= A /\ p \in Nat
    /\ \A p \in DOMAIN v : p >= 1 /\ p \in Nat
    /\ \A p \in DOMAIN u : p \in DOMAIN r /\ r[p] = u[p]
    /\ \A p \in DOMAIN v : A + p \in DOMAIN r /\ r[A + p] = v[p]

LEMMA JoinedParts ==
    ASSUME NEW S, NEW u \in Seq(S), NEW v \in Seq(S), NEW r, r = u \o v
    PROVE  r \in Seq(S) /\ Parts(r, u, v, Len(u))
<1>1. /\ r \in Seq(S) /\ Len(u) \in Nat /\ Len(v) \in Nat /\ DOMAIN r = 1..(Len(u) + Len(v))
      /\ \A i \in 1..Len(u) : r[i] = u[i]
      /\ \A i \in 1..Len(v) : r[Len(u) + i] = v[i]
  BY JoinedTwo
<1>2. DOMAIN u = 1..Len(u) /\ DOMAIN v = 1..Len(v)
  BY LenProperties
<1>3. ASSUME NEW p \in DOMAIN r
      PROVE  \/ p \in DOMAIN u /\ r[p] = u[p]
             \/ p - Len(u) \in DOMAIN v /\ r[p] = v[p - Len(u)]
  <2>1. CASE p <= Len(u)
    <3>1. p \in 1..Len(u)
      BY <1>1, <2>1
    <3> QED
      BY <1>1, <1>2, <3>1
  <2>2. CASE ~(p <= Len(u))
    <3>1. p - Len(u) \in 1..Len(v) /\ Len(u) + (p - Len(u)) = p
      BY <1>1, <2>2
    <3>2. r[Len(u) + (p - Len(u))] = v[p - Len(u)]
      BY <1>1, <3>1
    <3> QED
      BY <1>2, <3>1, <3>2
  <2> QED
    BY <2>1, <2>2
<1>4. ASSUME NEW p \in DOMAIN u PROVE p \in DOMAIN r /\ r[p] = u[p] /\ p <= Len(u) /\ p \in Nat
  BY <1>1, <1>2
<1>5. ASSUME NEW p \in DOMAIN v PROVE Len(u) + p \in DOMAIN r /\ r[Len(u) + p] = v[p] /\ p >= 1 /\ p \in Nat
  BY <1>1, <1>2
<1>6. \A p \in DOMAIN r : p \in Nat
  BY <1>1
<1> QED
  BY <1>1, <1>3, <1>4, <1>5, <1>6 DEF Parts

Sorts == {"text", "signal"}
PiecesOf(u) == {u[p] : p \in DOMAIN u}

\* Pieces with offsets from lo up to hi, those of one sort in order.
InOrder(u, lo, hi) ==
    /\ u \in Seq(Sorts \X Nat)
    /\ \A p \in DOMAIN u : lo <= u[p][2] /\ u[p][2] < hi
    /\ \A p, q \in DOMAIN u : p < q /\ u[p][1] = u[q][1] => u[p][2] < u[q][2]

LEMMA InOrderTyped ==
    ASSUME NEW u \in Seq(Sorts \X Nat)
    PROVE  \A p \in DOMAIN u : p \in Nat /\ u[p] \in Sorts \X Nat /\ u[p][2] \in Nat /\ u[p][1] \in Sorts /\ u[p] = <<u[p][1], u[p][2]>>
<1>1. DOMAIN u = 1..Len(u) /\ Len(u) \in Nat
  BY LenProperties
<1>2. \A p \in DOMAIN u : u[p] \in Sorts \X Nat
  BY <1>1, ElementOfSeq
<1> QED
  BY <1>1, <1>2

LEMMA InOrderJoined ==
    ASSUME NEW lo \in Nat, NEW mid \in Nat, NEW hi \in Nat, lo <= mid, mid <= hi,
           NEW u, NEW v, InOrder(u, lo, mid), InOrder(v, mid, hi)
    PROVE  InOrder(u \o v, lo, hi) /\ PiecesOf(u \o v) = PiecesOf(u) \cup PiecesOf(v)
<1>1. u \in Seq(Sorts \X Nat) /\ v \in Seq(Sorts \X Nat)
  BY DEF InOrder
<1>2. PICK r : r = u \o v
  OBVIOUS
<1>3. PICK A \in Nat : A = Len(u)
  BY <1>1, LenProperties
<1>4. /\ r \in Seq(Sorts \X Nat)
      /\ \A p \in DOMAIN r : \/ p \in DOMAIN u /\ r[p] = u[p]
                             \/ p - A \in DOMAIN v /\ r[p] = v[p - A]
      /\ \A p \in DOMAIN r : p \in Nat
      /\ \A p \in DOMAIN u : p <= A /\ p \in Nat
      /\ \A p \in DOMAIN v : p >= 1 /\ p \in Nat
      /\ \A p \in DOMAIN u : p \in DOMAIN r /\ r[p] = u[p]
      /\ \A p \in DOMAIN v : A + p \in DOMAIN r /\ r[A + p] = v[p]
  <2>1. PICK S : S = Sorts \X Nat
    OBVIOUS
  <2>2. u \in Seq(S) /\ v \in Seq(S)
    BY <1>1, <2>1
  <2>3. r \in Seq(S) /\ Parts(r, u, v, A)
    BY <1>2, <1>3, <2>2, JoinedParts
  <2> QED
    BY <2>1, <2>3 DEF Parts
<1>5. /\ \A p \in DOMAIN u : lo <= u[p][2] /\ u[p][2] < mid /\ u[p][2] \in Nat
      /\ \A p \in DOMAIN v : mid <= v[p][2] /\ v[p][2] < hi /\ v[p][2] \in Nat
  BY <1>1, InOrderTyped DEF InOrder
<1>6. \A p \in DOMAIN u : lo <= u[p][2] /\ u[p][2] < hi
  BY <1>5
<1>7. \A p \in DOMAIN v : lo <= v[p][2] /\ v[p][2] < hi
  BY <1>5
<1>8. \A p \in DOMAIN r : lo <= r[p][2] /\ r[p][2] < hi
  BY <1>4, <1>6, <1>7
<1>9. ASSUME NEW p \in DOMAIN r, NEW q \in DOMAIN r, p < q, r[p][1] = r[q][1]
      PROVE  r[p][2] < r[q][2]
  <2>1. CASE p \in DOMAIN u /\ r[p] = u[p] /\ q \in DOMAIN u /\ r[q] = u[q]
    <3>1. u[p][1] = u[q][1]
      BY <1>9, <2>1
    <3>2. u[p][2] < u[q][2]
      BY <1>9, <2>1, <3>1 DEF InOrder
    <3> QED
      BY <2>1, <3>2
  <2>2. CASE p \in DOMAIN u /\ r[p] = u[p] /\ q - A \in DOMAIN v /\ r[q] = v[q - A]
    <3>1. PICK o \in DOMAIN v : o = q - A
      BY <2>2
    <3>2. u[p][2] < mid /\ mid <= v[o][2] /\ u[p][2] \in Nat /\ v[o][2] \in Nat
      BY <1>5, <2>2
    <3>3. u[p][2] < v[o][2]
      BY <3>2
    <3> QED
      BY <2>2, <3>1, <3>3
  <2>3. CASE p - A \in DOMAIN v /\ r[p] = v[p - A] /\ q \in DOMAIN u /\ r[q] = u[q]
    <3>1. p - A >= 1 /\ q <= A /\ p \in Nat /\ q \in Nat
      BY <1>4, <2>3
    <3> QED
      BY <1>9, <3>1
  <2>4. CASE p - A \in DOMAIN v /\ r[p] = v[p - A] /\ q - A \in DOMAIN v /\ r[q] = v[q - A]
    <3>1. PICK m \in DOMAIN v : m = p - A
      BY <2>4
    <3>2. PICK o \in DOMAIN v : o = q - A
      BY <2>4
    <3>3. m < o
      <4>1. p \in Nat /\ q \in Nat
        BY <1>4
      <4> QED
        BY <1>9, <3>1, <3>2, <4>1
    <3>4. v[m][1] = v[o][1]
      BY <1>9, <2>4, <3>1, <3>2
    <3>5. v[m][2] < v[o][2]
      BY <3>3, <3>4 DEF InOrder
    <3> QED
      BY <2>4, <3>1, <3>2, <3>5
  <2> QED
    BY <1>4, <2>1, <2>2, <2>3, <2>4
<1>10. InOrder(r, lo, hi)
  BY <1>4, <1>8, <1>9 DEF InOrder
<1>11. PiecesOf(r) = PiecesOf(u) \cup PiecesOf(v)
  <2>1. ASSUME NEW x \in PiecesOf(r) PROVE x \in PiecesOf(u) \cup PiecesOf(v)
    BY <1>4 DEF PiecesOf
  <2>2. ASSUME NEW x \in PiecesOf(u) PROVE x \in PiecesOf(r)
    BY <1>4 DEF PiecesOf
  <2>3. ASSUME NEW x \in PiecesOf(v) PROVE x \in PiecesOf(r)
    <3>1. PICK p \in DOMAIN v : x = v[p]
      BY DEF PiecesOf
    <3>2. A + p \in DOMAIN r /\ r[A + p] = v[p]
      BY <1>4
    <3> QED
      BY <3>1, <3>2 DEF PiecesOf
  <2> QED
    BY <2>1, <2>2, <2>3
<1> QED
  BY <1>2, <1>10, <1>11

Located == [start : Nat, length : Int, implicit : BOOLEAN]

\* Points from lo up to hi, in order.
Rising(s, lo, hi) ==
    /\ s \in Seq(Located)
    /\ \A i \in DOMAIN s : lo <= s[i].start /\ s[i].start < hi
    /\ \A i, j \in DOMAIN s : i < j => s[i].start < s[j].start

LEMMA RisingTyped ==
    ASSUME NEW s \in Seq(Located)
    PROVE  \A i \in DOMAIN s : /\ i \in Nat /\ s[i] \in Located /\ s[i].start \in Nat /\ s[i].length \in Int
                               /\ s[i].implicit \in BOOLEAN
<1>1. DOMAIN s = 1..Len(s) /\ Len(s) \in Nat
  BY LenProperties
<1>2. \A i \in DOMAIN s : s[i] \in Located
  BY <1>1, ElementOfSeq
<1> QED
  BY <1>1, <1>2 DEF Located

\* An executable point of s begins at x.
BeginsAt(s, x) == \E i \in DOMAIN s : ~s[i].implicit /\ s[i].start = x

LEMMA RisingJoined ==
    ASSUME NEW lo \in Nat, NEW mid \in Nat, NEW hi \in Nat, lo <= mid, mid <= hi,
           NEW s, NEW t, Rising(s, lo, mid), Rising(t, mid, hi)
    PROVE  /\ Rising(s \o t, lo, hi)
           /\ \A x : BeginsAt(s \o t, x) <=> BeginsAt(s, x) \/ BeginsAt(t, x)
<1>1. s \in Seq(Located) /\ t \in Seq(Located)
  BY DEF Rising
<1>2. PICK r : r = s \o t
  OBVIOUS
<1>3. PICK A \in Nat : A = Len(s)
  BY <1>1, LenProperties
<1>4. /\ r \in Seq(Located)
      /\ \A p \in DOMAIN r : \/ p \in DOMAIN s /\ r[p] = s[p]
                             \/ p - A \in DOMAIN t /\ r[p] = t[p - A]
      /\ \A p \in DOMAIN r : p \in Nat
      /\ \A p \in DOMAIN s : p <= A /\ p \in Nat
      /\ \A p \in DOMAIN t : p >= 1 /\ p \in Nat
      /\ \A p \in DOMAIN s : p \in DOMAIN r /\ r[p] = s[p]
      /\ \A p \in DOMAIN t : A + p \in DOMAIN r /\ r[A + p] = t[p]
  <2>1. r \in Seq(Located) /\ Parts(r, s, t, A)
    BY <1>1, <1>2, <1>3, JoinedParts
  <2> QED
    BY <2>1 DEF Parts
<1>5. /\ \A p \in DOMAIN s : lo <= s[p].start /\ s[p].start < mid /\ s[p].start \in Nat
      /\ \A p \in DOMAIN t : mid <= t[p].start /\ t[p].start < hi /\ t[p].start \in Nat
  BY <1>1, RisingTyped DEF Rising
<1>6. \A p \in DOMAIN s : lo <= s[p].start /\ s[p].start < hi
  BY <1>5
<1>7. \A p \in DOMAIN t : lo <= t[p].start /\ t[p].start < hi
  BY <1>5
<1>8. \A p \in DOMAIN r : lo <= r[p].start /\ r[p].start < hi
  BY <1>4, <1>6, <1>7
<1>9. ASSUME NEW p \in DOMAIN r, NEW q \in DOMAIN r, p < q
      PROVE  r[p].start < r[q].start
  <2>1. CASE p \in DOMAIN s /\ r[p] = s[p] /\ q \in DOMAIN s /\ r[q] = s[q]
    <3>1. s[p].start < s[q].start
      BY <1>9, <2>1 DEF Rising
    <3> QED
      BY <2>1, <3>1
  <2>2. CASE p \in DOMAIN s /\ r[p] = s[p] /\ q - A \in DOMAIN t /\ r[q] = t[q - A]
    <3>1. PICK o \in DOMAIN t : o = q - A
      BY <2>2
    <3>2. s[p].start < mid /\ mid <= t[o].start /\ s[p].start \in Nat /\ t[o].start \in Nat
      BY <1>5, <2>2
    <3>3. s[p].start < t[o].start
      BY <3>2
    <3> QED
      BY <2>2, <3>1, <3>3
  <2>3. CASE p - A \in DOMAIN t /\ r[p] = t[p - A] /\ q \in DOMAIN s /\ r[q] = s[q]
    <3>1. p - A >= 1 /\ q <= A /\ p \in Nat /\ q \in Nat
      BY <1>4, <2>3
    <3> QED
      BY <1>9, <3>1
  <2>4. CASE p - A \in DOMAIN t /\ r[p] = t[p - A] /\ q - A \in DOMAIN t /\ r[q] = t[q - A]
    <3>1. PICK m \in DOMAIN t : m = p - A
      BY <2>4
    <3>2. PICK o \in DOMAIN t : o = q - A
      BY <2>4
    <3>3. m < o
      <4>1. p \in Nat /\ q \in Nat
        BY <1>4
      <4> QED
        BY <1>9, <3>1, <3>2, <4>1
    <3>4. t[m].start < t[o].start
      BY <3>3 DEF Rising
    <3> QED
      BY <2>4, <3>1, <3>2, <3>4
  <2> QED
    BY <1>4, <2>1, <2>2, <2>3, <2>4
<1>10. Rising(r, lo, hi)
  BY <1>4, <1>8, <1>9 DEF Rising
<1>11. ASSUME NEW x
       PROVE  BeginsAt(r, x) <=> BeginsAt(s, x) \/ BeginsAt(t, x)
  <2>1. ASSUME BeginsAt(r, x) PROVE BeginsAt(s, x) \/ BeginsAt(t, x)
    <3>1. PICK p \in DOMAIN r : ~r[p].implicit /\ r[p].start = x
      BY <2>1 DEF BeginsAt
    <3> QED
      BY <1>4, <3>1 DEF BeginsAt
  <2>2. ASSUME BeginsAt(s, x) PROVE BeginsAt(r, x)
    <3>1. PICK p \in DOMAIN s : ~s[p].implicit /\ s[p].start = x
      BY <2>2 DEF BeginsAt
    <3>2. p \in DOMAIN r /\ r[p] = s[p]
      BY <1>4
    <3> QED
      BY <3>1, <3>2 DEF BeginsAt
  <2>3. ASSUME BeginsAt(t, x) PROVE BeginsAt(r, x)
    <3>1. PICK p \in DOMAIN t : ~t[p].implicit /\ t[p].start = x
      BY <2>3 DEF BeginsAt
    <3>2. A + p \in DOMAIN r /\ r[A + p] = t[p]
      BY <1>4
    <3> QED
      BY <3>1, <3>2 DEF BeginsAt
  <2> QED
    BY <2>1, <2>2, <2>3
<1> QED
  BY <1>2, <1>10, <1>11

\* Two sequences of numbers that both grow and have the same members: they cannot part.
LEMMA NoEarlier ==
    ASSUME NEW A \in Nat, NEW B \in Nat, NEW a \in [1..A -> Nat], NEW b \in [1..B -> Nat],
           \A i, j \in 1..A : i < j => a[i] < a[j], \A i, j \in 1..B : i < j => b[i] < b[j],
           \A i \in 1..A : \E j \in 1..B : a[i] = b[j],
           NEW m \in Nat, m \in 1..A, \A k \in 1..(m - 1) : k \in 1..B /\ a[k] = b[k]
    PROVE  m \in 1..B /\ b[m] <= a[m]
<1>1. PICK j \in 1..B : a[m] = b[j]
  OBVIOUS
<1>2. ASSUME j < m PROVE FALSE
  <2>1. j \in 1..(m - 1)
    BY <1>2
  <2>2. j \in 1..A /\ a[j] = b[j]
    BY <2>1
  <2>3. a[j] < a[m]
    BY <1>2, <2>2
  <2>4. a[m] \in Nat
    OBVIOUS
  <2> QED
    BY <1>1, <2>2, <2>3, <2>4
<1>4. m <= j /\ a[m] = b[j]
  BY <1>1, <1>2
<1>5. m \in 1..B
  BY <1>4
<1>6. CASE m = j
  <2>1. b[m] \in Nat /\ a[m] = b[m]
    BY <1>4, <1>5, <1>6
  <2> QED
    BY <1>5, <2>1
<1>7. CASE m # j
  <2>1. m < j
    BY <1>4, <1>7
  <2>2. b[m] < b[j]
    BY <1>5, <2>1
  <2>3. b[m] \in Nat /\ b[j] \in Nat
    BY <1>5
  <2> QED
    BY <1>4, <1>5, <2>2, <2>3
<1> QED
  BY <1>6, <1>7

\* Two sequences of numbers that rise, and have the same numbers, are the same.
Increasing(a, A) == A \in Nat /\ a \in [1..A -> Nat] /\ \A i, j \in 1..A : i < j => a[i] < a[j]
Among(a, A, b, B) == \A i \in 1..A : \E j \in 1..B : a[i] = b[j]

LEMMA SameRising ==
    ASSUME NEW A, NEW B, NEW a, NEW b, Increasing(a, A), Increasing(b, B), Among(a, A, b, B), Among(b, B, a, A)
    PROVE  a = b
<1>0. /\ A \in Nat /\ B \in Nat /\ a \in [1..A -> Nat] /\ b \in [1..B -> Nat]
      /\ \A i, j \in 1..A : i < j => a[i] < a[j]
      /\ \A i, j \in 1..B : i < j => b[i] < b[j]
      /\ \A i \in 1..A : \E j \in 1..B : a[i] = b[j]
      /\ \A i \in 1..B : \E j \in 1..A : b[i] = a[j]
  BY DEF Increasing, Among
<1> USE <1>0
<1>1. ASSUME NEW E, E = {m \in Nat : m >= 1 /\ (m \in 1..A \/ m \in 1..B) /\ ~(m \in 1..A /\ m \in 1..B /\ a[m] = b[m])},
             E # {}
      PROVE  FALSE
  <2>0. E \in SUBSET Nat
    BY <1>1
  <2>1. PICK m \in E : \A k \in E : m <= k
    BY <1>1, <2>0, LeastNumber
  <2>2. m \in Nat /\ m >= 1 /\ (m \in 1..A \/ m \in 1..B) /\ ~(m \in 1..A /\ m \in 1..B /\ a[m] = b[m])
    BY <1>1, <2>1
  <2>3. ASSUME NEW k \in 1..(m - 1)
        PROVE  k \in 1..A /\ k \in 1..B /\ a[k] = b[k]
    <3>1. k \in Nat /\ k >= 1 /\ k < m
      BY <2>2
    <3>2. k \notin E
      BY <2>1, <2>2, <3>1
    <3>3. k \in 1..A \/ k \in 1..B
      BY <2>2, <3>1
    <3> QED
      BY <1>1, <3>1, <3>2, <3>3
  <2>4. m \in 1..A => m \in 1..B /\ b[m] <= a[m]
    BY <2>2, <2>3, NoEarlier
  <2>5. m \in 1..B => m \in 1..A /\ a[m] <= b[m]
    <3>1. \A k \in 1..(m - 1) : k \in 1..A /\ b[k] = a[k]
      BY <2>3
    <3> QED
      BY <2>2, <3>1, NoEarlier
  <2>6. m \in 1..A /\ m \in 1..B /\ b[m] <= a[m] /\ a[m] <= b[m]
    BY <2>2, <2>4, <2>5
  <2>7. a[m] \in Nat /\ b[m] \in Nat
    BY <2>6
  <2> QED
    BY <2>2, <2>6, <2>7
<1>2. PICK E : E = {m \in Nat : m >= 1 /\ (m \in 1..A \/ m \in 1..B) /\ ~(m \in 1..A /\ m \in 1..B /\ a[m] = b[m])}
  OBVIOUS
<1>3. E = {}
  BY <1>1, <1>2
<1>4. \A m \in Nat : m >= 1 /\ (m \in 1..A \/ m \in 1..B) => m \in 1..A /\ m \in 1..B /\ a[m] = b[m]
  BY <1>2, <1>3
<1>5. \A m \in 1..A : m \in 1..B /\ a[m] = b[m]
  BY <1>4
<1>6. \A m \in 1..B : m \in 1..A
  BY <1>4
<1>7. 1..A = 1..B
  BY <1>5, <1>6
<1>8. a = [i \in 1..A |-> a[i]] /\ b = [i \in 1..A |-> b[i]]
  BY <1>7
<1> QED
  BY <1>5, <1>8
=============================================================================
