------------------------------ MODULE Reports ------------------------------
(***************************************************************************)
(* pgcov report: Report of internal/cli/report.go and the formatters of    *)
(* internal/report. A coverage file is loaded, the directory of its        *)
(* sources is chosen, and the report is written file by file, position by  *)
(* position and line by line.                                              *)
(*                                                                         *)
(* A file's name is a number, so that names have an order. A position is a *)
(* record of its file and its two numbers, a negative one standing for a   *)
(* key that ParsePositionKey rejects. A source is the sequence of its      *)
(* characters, of which only line feeds matter; offsets count from 0. It   *)
(* does not change while a report is made of it. A report is the sequence  *)
(* of its sections, one for each file. Headers, footers and escaping are   *)
(* left out.                                                               *)
(***************************************************************************)
EXTENDS Coverage

CONSTANTS
    Situations,  \* the coverage there may be, and what each directory has on disk
    NoFile       \* instead of a text, where a directory has no such file

VARIABLES
    readable,    \* is there a coverage file, and not a torn one?
    stored,      \* the coverage in it
    format,      \* --format, valid or not
    flag,        \* is --base-dir given?
    root,        \* Root, the directory of the run: "missing" if it is none here, "" if not recorded
    disk,        \* the text each of three directories has under each file's name
    pc,          \* "load", "create", "file", the section being written, "done" or "failed"
    baseDir,     \* "flag", "root" or ""
    left,        \* the files that have no section yet
    file,        \* the file at hand
    todo,        \* its positions that have not been looked at
    currentEnd,  \* HTML: where the last range ends
    ranges,      \* HTML: its ranges that are to be written
    pos,         \* HTML: how much of its text has been written
    lineHits,    \* LCOV: the hits of each line
    written,     \* the spans, or the DA lines, of its section
    out          \* the sections that are complete; "earlier" is a report of an earlier time

inputs == <<readable, stored, format, flag, root, disk>>
html == <<currentEnd, ranges, pos>>
section == <<file, todo, html, lineHits, written>>
vars == <<inputs, pc, baseDir, left, section, out>>

Dirs == {"flag", "root", "cwd"}

\* Hits are counts, and what a directory has under a file's name is a text.
ASSUME SituationsAssumption ==
    \A s \in Situations : \A hits \in {s.stored.positions, s.stored.implicit} :
        /\ IsFiniteSet(DOMAIN hits)
        /\ \A p \in DOMAIN hits :
              /\ hits[p] \in Nat /\ p.file \in Nat /\ p.start \in Int /\ p.length \in Int
              /\ \A d \in Dirs : s.disk[d][p.file] \in Seq(STRING) \cup {NoFile}

Init ==
    /\ readable \in BOOLEAN
    /\ \E s \in Situations : stored = s.stored /\ disk = s.disk
    /\ format \in {"json", "lcov", "html", "invalid"}
    /\ flag \in BOOLEAN
    /\ root \in {"root", "missing", ""}
    /\ pc = "load"
    /\ baseDir = ""
    /\ left = {}
    /\ file = 0
    /\ todo = {}
    /\ currentEnd = 0
    /\ ranges = <<>>
    /\ pos = 0
    /\ lineHits = NoHits
    /\ written = <<>>
    /\ out = "earlier"

-----------------------------------------------------------------------------
(* The coverage data                                                        *)

\* GetFiles: those with a position of either kind. They are taken in order.
Files == {p.file : p \in DOMAIN stored.positions \cup DOMAIN stored.implicit}

Of(hits, f) == [p \in {q \in DOMAIN hits : q.file = f} |-> hits[p]]

\* Executable wins over implicit.
AllPositions(f) ==
    LET executable == Of(stored.positions, f)
        implicit   == Of(stored.implicit, f)
    IN [p \in DOMAIN executable \cup DOMAIN implicit |->
           IF p \in DOMAIN executable THEN executable[p] ELSE implicit[p]]

\* The positions whose keys ParsePositionKey accepts.
Parsed(hits) == {p \in DOMAIN hits : p.start >= 0 /\ p.length >= 0}

-----------------------------------------------------------------------------
(* Where the sources are                                                    *)

\* Mutant of ResolveBaseDir: the directory the run has recorded is not used.
ResolveFlagOnly == IF flag THEN "flag" ELSE ""

ResolveBaseDir == IF flag THEN "flag" ELSE IF root = "root" THEN "root" ELSE ""

\* Keys are relative, as discovery makes them; an absolute one would be its only candidate.
SourcePathCandidates == IF baseDir = "" THEN <<"cwd">> ELSE <<baseDir, "cwd">>

\* The text of the first candidate that can be read.
ReadSource(f) ==
    LET readables == {i \in DOMAIN SourcePathCandidates : disk[SourcePathCandidates[i]][f] # NoFile}
    IN IF readables = {} THEN NoFile ELSE disk[SourcePathCandidates[Min(readables)]][f]

Text == ReadSource(file)

-----------------------------------------------------------------------------
(* The report command                                                       *)

Loads == readable /\ ValidVersion(stored)

Load ==
    /\ pc = "load"
    /\ IF Loads /\ format # "invalid"
       THEN pc' = "create" /\ baseDir' = ResolveBaseDir
       ELSE pc' = "failed" /\ UNCHANGED baseDir
    /\ UNCHANGED <<inputs, left, section, out>>

CreateOutput ==
    /\ pc = "create"
    /\ out' = <<>>
    /\ left' = Files
    /\ pc' = "file"
    /\ UNCHANGED <<inputs, baseDir, section>>

CreateFails ==
    /\ pc = "create"
    /\ pc' = "failed"
    /\ UNCHANGED <<inputs, baseDir, left, section, out>>

FormatJSON ==
    /\ pc = "file"
    /\ format = "json"
    /\ out' = <<stored>>
    /\ pc' = "done"
    /\ UNCHANGED <<inputs, baseDir, left, section>>

\* The next file's section is begun, to be written at pc = step.
Begin(step, positions) ==
    /\ file' = Min(left)
    /\ left' = left \ {file'}
    /\ todo' = positions
    /\ currentEnd' = 0 /\ ranges' = <<>> /\ pos' = 0
    /\ lineHits' = NoHits
    /\ written' = <<>>
    /\ pc' = step

End(s) ==
    /\ out' = Append(out, s)
    /\ pc' = "file"

EndReport ==
    /\ pc = "file"
    /\ format \in {"lcov", "html"}
    /\ left = {}
    /\ pc' = "done"
    /\ UNCHANGED <<inputs, baseDir, left, section, out>>

\* What was being written is incomplete.
WriteFails ==
    /\ pc \in {"file", "lines", "positions", "render"}
    /\ pc' = "failed"
    /\ UNCHANGED <<inputs, baseDir, left, section, out>>

-----------------------------------------------------------------------------
(* LCOV                                                                     *)

FormatsNext(f) == pc = "file" /\ format = f /\ left # {}

\* A file with nothing executable has no record.
SkipFile ==
    /\ FormatsNext("lcov")
    /\ DOMAIN Of(stored.positions, Min(left)) = {}
    /\ left' = left \ {Min(left)}
    /\ UNCHANGED <<inputs, pc, baseDir, section, out>>

FormatFileLCOV ==
    /\ FormatsNext("lcov")
    /\ DOMAIN Of(stored.positions, Min(left)) # {}
    /\ Begin(IF ReadSource(Min(left)) = NoFile THEN "positions" ELSE "lines",
             Parsed(Of(stored.positions, Min(left))))
    /\ UNCHANGED <<inputs, baseDir, out>>

LineOf(text, p) == 1 + Cardinality({i \in 1..p : text[i] = "\n"})

\* Mutant of AddHits: a line has the count of the last position that is looked at.
LastHits(line, n) == SetHits(lineHits, line, n)

\* Hits on the same line are added up.
AddHits(line, n) == SetHits(lineHits, line, HitsAt(lineHits, line) + n)

\* The map is ranged over in any order. After the end of the text there is no line.
ConvertPosition(p) ==
    /\ pc = "lines"
    /\ p \in todo
    /\ todo' = todo \ {p}
    /\ lineHits' = IF p.start <= Len(Text) THEN AddHits(LineOf(Text, p.start), stored.positions[p])
                   ELSE lineHits
    /\ UNCHANGED <<inputs, pc, baseDir, left, file, html, written, out>>

\* The lines that have no DA yet. They get one in order.
LinesLeft == DOMAIN lineHits \ {l[1] : l \in ToSet(written)}

WriteLine ==
    /\ pc = "lines"
    /\ todo = {}
    /\ LinesLeft # {}
    /\ written' = Append(written, <<Min(LinesLeft), lineHits[Min(LinesLeft)]>>)
    /\ UNCHANGED <<inputs, pc, baseDir, left, file, todo, html, lineHits, out>>

\* LF and LH.
EndLines ==
    /\ pc = "lines"
    /\ todo = {}
    /\ LinesLeft = {}
    /\ End([file |-> file, text |-> Text, lines |-> written,
            found |-> Cardinality(DOMAIN lineHits), hit |-> Covered(lineHits)])
    /\ UNCHANGED <<inputs, baseDir, left, section>>

\* The sort looks at the start alone, and the map was ranged over in any order.
NextInOrder(p) == p \in todo /\ \A q \in todo : p.start <= q.start

\* Without a source, offsets are given as lines.
WritePosition(p) ==
    /\ pc = "positions"
    /\ NextInOrder(p)
    /\ todo' = todo \ {p}
    /\ written' = Append(written, <<p.start, stored.positions[p]>>)
    /\ UNCHANGED <<inputs, pc, baseDir, left, file, html, lineHits, out>>

EndPositions ==
    /\ pc = "positions"
    /\ todo = {}
    /\ End([file |-> file, text |-> NoFile, lines |-> written,
            found |-> Len(written), hit |-> Cardinality({i \in DOMAIN written : written[i][2] > 0})])
    /\ UNCHANGED <<inputs, baseDir, left, section>>

-----------------------------------------------------------------------------
(* HTML                                                                     *)

\* A file that cannot be read has a section that says so.
MissingFileHTML ==
    /\ FormatsNext("html")
    /\ ReadSource(Min(left)) = NoFile
    /\ left' = left \ {Min(left)}
    /\ out' = Append(out, [file |-> Min(left), text |-> NoFile, spans |-> <<>>])
    /\ UNCHANGED <<inputs, pc, baseDir, section>>

FormatFileHTML ==
    /\ FormatsNext("html")
    /\ ReadSource(Min(left)) # NoFile
    /\ Begin("render", Parsed(AllPositions(Min(left))))
    /\ UNCHANGED <<inputs, baseDir, out>>

\* Mutant of AdjustedStart: ranges are taken as they are.
OwnStart(p) == p.start

\* Each byte is left to the range that starts first.
AdjustedStart(p) == IF p.start < currentEnd THEN currentEnd ELSE p.start

EndOf(r) == r.start + r.length

\* resolveOverlappingRanges, one range. One behind the end of the text is left out.
ResolveRange(p) ==
    /\ pc = "render"
    /\ NextInOrder(p)
    /\ todo' = todo \ {p}
    /\ LET r == [start |-> AdjustedStart(p), length |-> EndOf(p) - AdjustedStart(p),
                 hits |-> AllPositions(file)[p]]
       IN IF r.length <= 0 THEN UNCHANGED <<currentEnd, ranges>>
          ELSE /\ currentEnd' = EndOf(r)
               /\ ranges' = IF r.start < Len(Text) THEN Append(ranges, r) ELSE ranges
    /\ UNCHANGED <<inputs, pc, baseDir, left, file, pos, lineHits, written, out>>

Rendering == pc = "render" /\ todo = {} /\ pos < Len(Text)

\* Bytes from pos up to end; a count of hits below 0 means no span.
WriteUpTo(end, hits) ==
    /\ written' = Append(written, [from |-> pos, to |-> end, hits |-> hits])
    /\ pos' = end
    /\ UNCHANGED <<inputs, pc, baseDir, left, file, todo, currentEnd, lineHits, out>>

WriteUncovered ==
    /\ Rendering
    /\ ranges # <<>>
    /\ pos < ranges[1].start
    /\ WriteUpTo(ranges[1].start, -1)
    /\ UNCHANGED ranges

WriteRange ==
    /\ Rendering
    /\ ranges # <<>>
    /\ pos >= ranges[1].start
    /\ WriteUpTo(IF EndOf(ranges[1]) < Len(Text) THEN EndOf(ranges[1]) ELSE Len(Text), ranges[1].hits)
    /\ ranges' = Tail(ranges)

WriteRest ==
    /\ Rendering
    /\ ranges = <<>>
    /\ WriteUpTo(Len(Text), -1)
    /\ UNCHANGED ranges

EndFile ==
    /\ pc = "render"
    /\ todo = {}
    /\ pos >= Len(Text)
    /\ End([file |-> file, text |-> Text, spans |-> written])
    /\ UNCHANGED <<inputs, baseDir, left, section>>

-----------------------------------------------------------------------------

Finished == pc \in {"done", "failed"} /\ UNCHANGED vars

FormatLCOV ==
    \/ SkipFile \/ FormatFileLCOV \/ WriteLine \/ EndLines \/ EndPositions
    \/ \E p \in todo : ConvertPosition(p) \/ WritePosition(p)

FormatHTML ==
    \/ MissingFileHTML \/ FormatFileHTML
    \/ WriteUncovered \/ WriteRange \/ WriteRest \/ EndFile
    \/ \E p \in todo : ResolveRange(p)

Next ==
    \/ Load \/ CreateOutput \/ CreateFails \/ WriteFails \/ EndReport
    \/ FormatJSON \/ FormatLCOV \/ FormatHTML
    \/ Finished

Spec == Init /\ [][Next]_vars

-----------------------------------------------------------------------------
(* Properties                                                               *)

Is(f) == format = f /\ pc = "done"

\* The sections are of these files, one of each, in order.
SectionsOf(S) ==
    /\ {s.file : s \in ToSet(out)} = S
    /\ \A i, j \in DOMAIN out : i < j => out[i].file < out[j].file

\* The positions of a file over byte b, and those of them that start first.
Over(f, b)  == {p \in Parsed(AllPositions(f)) : p.start <= b /\ b < EndOf(p)}
First(f, b) == {p \in Over(f, b) : \A q \in Over(f, b) : p.start <= q.start}

\* One section has every byte of its text once, in order, with the right count.
ColouredOnce(s) ==
    /\ \A i, j \in DOMAIN s.spans : i < j => s.spans[i].to <= s.spans[j].from
    /\ \A i \in DOMAIN s.spans : s.spans[i].to <= Len(s.text)
    /\ \A b \in 0..(Len(s.text) - 1) : \E i \in DOMAIN s.spans :
          /\ s.spans[i].from <= b /\ b < s.spans[i].to
          /\ IF Over(s.file, b) = {} THEN s.spans[i].hits = -1
             ELSE \E p \in First(s.file, b) : s.spans[i].hits = AllPositions(s.file)[p]

\* However positions nest, overlap or lie behind the end of the text, HTML shows every
\* byte of a source once and in order, with the count of the range over it that starts
\* first (either, if two do), and without one where nothing is tracked.
HTMLColoursEveryByteOnce ==
    Is("html") => SectionsOf(Files) /\ \A s \in ToSet(out) : s.text # NoFile => ColouredOnce(s)

\* The executable positions of a file that start in a text, and those on its line l.
InText(f, text) == {p \in Parsed(Of(stored.positions, f)) : p.start <= Len(text)}
OnLine(f, text, l) == {p \in InText(f, text) : LineOf(text, p.start) = l}

\* All their hits together, each counted once.
Hits(S) == Cardinality(UNION {{p} \X (1..stored.positions[p]) : p \in S})

\* One record lists the lines of its positions once, in order, each with all its hits.
AccountsForHits(s) ==
    LET listed == {l[1] : l \in ToSet(s.lines)}
    IN /\ \A i, j \in DOMAIN s.lines : i < j => s.lines[i][1] < s.lines[j][1]
       /\ listed = {LineOf(s.text, p.start) : p \in InText(s.file, s.text)}
       /\ \A l \in ToSet(s.lines) : l[2] = Hits(OnLine(s.file, s.text, l[1]))
       /\ s.found = Cardinality(listed)
       /\ s.hit = Cardinality({l \in listed : Hits(OnLine(s.file, s.text, l)) > 0})

\* LCOV has a record for each file with something executable, and no others; in a record
\* each line is listed once, in order, every hit of a statement that is in the text is
\* accounted for on the line it starts on, and LF and LH count the lines.
LCOVAccountsForEveryHit ==
    Is("lcov") =>
        /\ SectionsOf({p.file : p \in DOMAIN stored.positions})
        /\ \A s \in ToSet(out) : s.text # NoFile => AccountsForHits(s)

\* Positions are shown on the source they were measured on: without --base-dir that is the
\* one in the run's directory as long as it is there, whatever the working directory
\* has under the same name; --base-dir overrides both.
ShowsTheRunsSource ==
    pc = "done" /\ format # "json" => \A s \in ToSet(out) :
        /\ flag /\ disk["flag"][s.file] # NoFile => s.text = disk["flag"][s.file]
        /\ ~flag /\ root = "root" /\ disk["root"][s.file] # NoFile => s.text = disk["root"][s.file]

=============================================================================
