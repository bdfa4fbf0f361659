---------------------------- MODULE Instrumenter ----------------------------
(***************************************************************************)
(* How one statement of a source file is instrumented: instrumentStatement *)
(* and instrumentBody of internal/instrument/instrumenter.go.              *)
(*                                                                         *)
(* A function body is the sequence of its tokens, and a token is what the  *)
(* scanner tells apart; byte offsets are token numbers, and white space is *)
(* left out. The scanner sees one token at a time; what has been written   *)
(* is a sequence of <<"text", i>>, for token i of the body, and of         *)
(* <<"signal", i>>, for a statement that sends the signal of the coverage  *)
(* point that starts at token i.                                           *)
(***************************************************************************)
EXTENDS Naturals, Sequences

Structural == {"BEGIN", "END", "LOOP", "DECLARE", "EXCEPTION"}
NonFatal   == {"NOTICE"}    \* also WARNING, INFO, LOG and DEBUG

VARIABLES
    kind,           \* "plpgsql" or "sql"; "otherLanguage"; "other" for DDL and DML
    body,           \* the function body; the whole statement if it is not instrumented
    pc,             \* "scan", "flush" or "done"
    read,           \* how many tokens the scanner has returned
    pastBegin,
    segStart,       \* the first token of the current segment; 0 when it has no content
    lastWritten,    \* how many tokens of the body have been written
    written,        \* instrumentedBody
    locations       \* the coverage points, as [start, length, implicit]

segment == <<pastBegin, segStart>>
result  == <<lastWritten, written, locations>>
vars == <<kind, body, pc, read, segment, result>>

\* A statement of kind k is taken up, with its body, or with its whole text.
Begin(k, b) ==
    /\ kind = k
    /\ body = b
    /\ pc = "scan"
    /\ read = 0
    /\ pastBegin = (k # "plpgsql")
    /\ segStart = 0
    /\ lastWritten = 0
    /\ written = <<>>
    /\ locations = <<>>

BeginNext(k, b) ==
    /\ kind' = k
    /\ body' = b
    /\ pc' = "scan"
    /\ read' = 0
    /\ pastBegin' = (k # "plpgsql")
    /\ segStart' = 0
    /\ lastWritten' = 0
    /\ written' = <<>>
    /\ locations' = <<>>

Instrumented == kind \in {"plpgsql", "sql"}

-----------------------------------------------------------------------------
(* One segment: the tokens from segStart up to, but not including, segEnd   *)

\* Tokens m .. n of the body, written as they are.
Text(m, n) == [i \in 1..(IF m <= n THEN n - m + 1 ELSE 0) |-> <<"text", m + i - 1>>]
Gap == Text(lastWritten + 1, segStart - 1)
Signal == <<<<"signal", segStart>>>>

\* Mutant of IsExecutableSegment: a marker anywhere in the segment counts.
HasNoMarker == \A i \in segStart..read : body[i] \notin Structural

IsExecutableSegment == body[segStart] \notin Structural

\* RAISE is fatal unless the next token that is no comment is a harmless level.
IsFatal(i, segEnd) ==
    LET rest == {j \in (i + 1)..(segEnd - 1) : body[j] # "COMMENT"}
    IN \A j \in rest : (\A k \in rest : j <= k) => body[j] \notin NonFatal

\* Mutant of IsTerminal: RETURN is not looked at.
IsRaise(i, segEnd) == body[i] = "RAISE" /\ IsFatal(i, segEnd)

\* Nothing runs after it.
IsTerminal(i, segEnd) == body[i] = "RETURN" \/ (body[i] = "RAISE" /\ IsFatal(i, segEnd))

Terminals(segEnd) == {i \in segStart..(segEnd - 1) : IsTerminal(i, segEnd)}
FindTerminalPos(segEnd) == CHOOSE i \in Terminals(segEnd) : \A j \in Terminals(segEnd) : i <= j

\* In an SQL function the signal is a statement of its own, before the segment.
EmitBefore(segEnd) ==
    /\ written' = written \o Gap \o Signal \o Text(segStart, segEnd - 1)
    /\ lastWritten' = segEnd - 1

\* In PL/pgSQL it comes before the statement that leaves the block, if there is one ...
EmitBeforeTerminal(segEnd) ==
    LET t == FindTerminalPos(segEnd) IN
    /\ written' = written \o Gap \o Text(segStart, t - 1) \o Signal \o Text(t, segEnd - 1)
    /\ lastWritten' = segEnd - 1

\* Mutant of EmitAfter: the signal comes first.
EmitAhead(segEnd) ==
    /\ written' = written \o Gap \o Signal \o Text(segStart, segEnd - 1)
    /\ lastWritten' = segEnd - 1

\* ... and otherwise after the segment and the semicolon that ends it.
EmitAfter(segEnd) ==
    LET last == IF segEnd <= Len(body) THEN segEnd ELSE segEnd - 1 IN
    /\ written' = written \o Gap \o Text(segStart, last) \o Signal
    /\ lastWritten' = last

Point(segEnd) == [start |-> segStart, length |-> segEnd - segStart, implicit |-> FALSE]
TokensOf(l) == l.start..(l.start + l.length - 1)

\* Mutant of Emit: an SQL function is treated like any other.
EmitAlike(segEnd) ==
    IF Terminals(segEnd) # {} THEN EmitBeforeTerminal(segEnd) ELSE EmitAfter(segEnd)

Emit(segEnd) ==
    IF kind = "sql" THEN EmitBefore(segEnd)
    ELSE IF Terminals(segEnd) # {} THEN EmitBeforeTerminal(segEnd)
    ELSE EmitAfter(segEnd)

\* Mutant of EmitSegment: the point is recorded before the segment is examined.
EmitRecordingFirst(segEnd) ==
    /\ locations' = Append(locations, Point(segEnd))
    /\ IF IsExecutableSegment THEN Emit(segEnd) ELSE UNCHANGED <<lastWritten, written>>

EmitSegment(segEnd) ==
    IF IsExecutableSegment
    THEN Emit(segEnd) /\ locations' = Append(locations, Point(segEnd))
    ELSE UNCHANGED result

-----------------------------------------------------------------------------
(* The scan                                                                 *)

NextToken == body[read + 1]

Scan ==
    /\ Instrumented
    /\ pc = "scan"
    /\ read < Len(body)
    /\ read' = read + 1
    /\ UNCHANGED <<kind, body, pc>>

\* In PL/pgSQL nothing counts before the first BEGIN.
SkipToBegin ==
    /\ Scan
    /\ ~pastBegin
    /\ pastBegin' = (NextToken = "BEGIN")
    /\ UNCHANGED <<segStart, result>>

SkipComment ==
    /\ Scan
    /\ pastBegin
    /\ NextToken = "COMMENT"
    /\ UNCHANGED <<segment, result>>

EndSegment ==
    /\ Scan
    /\ pastBegin
    /\ NextToken = ";"
    /\ IF segStart > 0 THEN EmitSegment(read + 1) ELSE UNCHANGED result
    /\ segStart' = 0
    /\ UNCHANGED pastBegin

TakeToken ==
    /\ Scan
    /\ pastBegin
    /\ NextToken \notin {"COMMENT", ";"}
    /\ segStart' = IF segStart = 0 THEN read + 1 ELSE segStart
    /\ UNCHANGED <<pastBegin, result>>

\* A trailing segment needs no semicolon.
EndOfBody ==
    /\ Instrumented
    /\ pc = "scan"
    /\ read = Len(body)
    /\ IF segStart > 0 THEN EmitSegment(Len(body) + 1) ELSE UNCHANGED result
    /\ segStart' = 0
    /\ pc' = "flush"
    /\ UNCHANGED <<kind, body, read, pastBegin>>

\* What has not been written yet; without any location that is the whole body.
Flush ==
    /\ pc = "flush"
    /\ written' = written \o Text(lastWritten + 1, Len(body))
    /\ lastWritten' = Len(body)
    /\ pc' = "done"
    /\ UNCHANGED <<kind, body, read, segment, locations>>

\* markStatementLinesAsCovered: the whole statement is one implicit point, unchanged.
MarkStatement ==
    /\ ~Instrumented
    /\ pc = "scan"
    /\ written' = Text(1, Len(body))
    /\ lastWritten' = Len(body)
    /\ locations' = <<[start |-> 1, length |-> Len(body), implicit |-> TRUE]>>
    /\ pc' = "done"
    /\ UNCHANGED <<kind, body, read, segment>>

InstrumentStep ==
    \/ SkipToBegin \/ SkipComment \/ EndSegment \/ TakeToken \/ EndOfBody \/ Flush
    \/ MarkStatement

-----------------------------------------------------------------------------
(* Properties                                                               *)

\* What stands between two semicolons after the first BEGIN, from the first token that is
\* no comment, unless that is a marker of structure. This is what the scan is after; how
\* far it is what PL/pgSQL calls a statement, SourceFile says (OnlyMarkersHideStatements).
Segments ==
    LET begins == {i \in DOMAIN body : body[i] = "BEGIN" /\ \A j \in 1..(i - 1) : body[j] # "BEGIN"}
        first  == IF kind = "sql" THEN {0} ELSE begins
        ends   == {i \in DOMAIN body : body[i] = ";" /\ \E b \in first : b < i} \cup {Len(body) + 1}
        IsFirst(i, from) == /\ from < i
                            /\ body[i] \notin {"COMMENT", ";"}
                            /\ \A j \in (from + 1)..(i - 1) : body[j] = "COMMENT"
        IsNext(n, i) == i < n /\ \A m \in ends : i < m => n <= m
        segments == {x \in (DOMAIN body) \X ends :
                        /\ IsNext(x[2], x[1])
                        /\ body[x[1]] \notin Structural
                        /\ \E from \in first \cup ends : IsFirst(x[1], from)}
    IN {[start |-> x[1], length |-> x[2] - x[1], implicit |-> FALSE] : x \in segments}

\* The points are the segments: the scan, which sees one token at a time, drops none at a
\* comment, an empty segment or a missing last semicolon, and cuts none short.
PointsAreSegments ==
    pc = "done" /\ Instrumented => {locations[i] : i \in DOMAIN locations} = Segments

=============================================================================
