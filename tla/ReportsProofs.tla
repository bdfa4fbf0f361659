---------------------------- MODULE ReportsProofs ----------------------------
(***************************************************************************)
(* Proofs about Reports, for any files, coverage and directories: the      *)
(* sections of a report are of the right files, in order and on the right  *)
(* sources; HTML colours every byte once; LCOV accounts for every hit.     *)
(***************************************************************************)
EXTENDS Reports, FiniteSetTheorems, SequenceTheorems, NaturalsInduction, TLAPS

Open    == pc \in {"lines", "positions", "render"}
Writing == (Open \/ pc \in {"file", "done"}) /\ format # "json"

\* What SituationsAssumption says of the situation at hand.
DataOK ==
    \A hits \in {stored.positions, stored.implicit} :
        /\ IsFiniteSet(DOMAIN hits)
        /\ \A p \in DOMAIN hits :
              /\ hits[p] \in Nat /\ p.file \in Nat /\ p.start \in Int /\ p.length \in Int
              /\ \A d \in Dirs : disk[d][p.file] \in Seq(STRING) \cup {NoFile}

\* The files that get a section, and those that have none yet.
Wanted  == IF format = "html" THEN Files ELSE {p.file : p \in DOMAIN stored.positions}
Pending == left \cup (IF Open THEN {file} ELSE {})

IsSequence(s) == \E S : s \in Seq(S)

\* Sections are of wanted files, in order, before those that are pending, and were read
\* from the directory that was chosen.
SectionsOK ==
    /\ left \subseteq Files
    /\ Open => /\ file \in Wanted /\ \A f \in left : file < f
               /\ pc = "positions" <=> Text = NoFile
    /\ IsSequence(out)
    /\ \A i \in DOMAIN out : /\ out[i].text = ReadSource(out[i].file)
                             /\ out[i].file \in Wanted
                             /\ \A f \in Pending : out[i].file < f
    /\ \A i, j \in DOMAIN out : i < j => out[i].file < out[j].file
    /\ \A f \in Wanted : f \in Pending \/ \E i \in DOMAIN out : out[i].file = f
    /\ pc = "done" => left = {}

\* The inductive invariant of the report command.
RInv ==
    /\ DataOK
    /\ format \in {"json", "lcov", "html", "invalid"}
    /\ pc \notin {"load", "failed"} => baseDir = ResolveBaseDir /\ format # "invalid"
    /\ pc \in {"lines", "positions"} => format = "lcov"
    /\ pc = "render" => format = "html"
    /\ Writing => SectionsOK

-----------------------------------------------------------------------------
(* Sequences, and the least of a set                                        *)

LEMMA LeastNumber ==
    ASSUME NEW A \in SUBSET Nat, A # {}
    PROVE  Min(A) \in A /\ \A k \in A : Min(A) <= k
<1>1. IsWellFoundedOn(OpToRel(<, Nat), Nat)  BY NatLessThanWellFounded
<1>2. PICK m \in A : \A k \in A : ~(<<k, m>> \in OpToRel(<, Nat))  BY <1>1, WFMin
<1>3. \A k \in A : ~(k < m)  BY <1>2 DEF OpToRel
<1>4. \E x \in A : \A k \in A : x <= k  BY <1>3
<1> QED  BY <1>4 DEF Min

LEMMA AppendAt ==
    ASSUME NEW S, NEW s \in Seq(S), NEW e \in S
    PROVE  /\ Append(s, e) \in Seq(S)
           /\ Len(s) \in Nat /\ Len(s) + 1 \notin DOMAIN s
           /\ \A i \in DOMAIN s : i \in Nat /\ i < Len(s) + 1
           /\ DOMAIN Append(s, e) = DOMAIN s \cup {Len(s) + 1}
           /\ \A i \in DOMAIN s : Append(s, e)[i] = s[i]
           /\ Append(s, e)[Len(s) + 1] = e
<1>1. /\ Append(s, e) \in Seq(S) /\ Len(Append(s, e)) = Len(s) + 1
      /\ \A i \in 1..Len(s) : Append(s, e)[i] = s[i]
      /\ Append(s, e)[Len(s) + 1] = e
  BY AppendProperties
<1>2. DOMAIN s = 1..Len(s) /\ Len(s) \in Nat /\ DOMAIN Append(s, e) = 1..(Len(s) + 1)
  BY <1>1, LenProperties
<1> QED  BY <1>1, <1>2

LEMMA AppendAny ==
    ASSUME NEW s, IsSequence(s), NEW e
    PROVE  /\ IsSequence(Append(s, e))
           /\ Len(s) \in Nat /\ Len(s) + 1 \notin DOMAIN s
           /\ \A i \in DOMAIN s : i \in Nat /\ i < Len(s) + 1
           /\ DOMAIN Append(s, e) = DOMAIN s \cup {Len(s) + 1}
           /\ \A i \in DOMAIN s : Append(s, e)[i] = s[i]
           /\ Append(s, e)[Len(s) + 1] = e
<1>1. PICK S : s \in Seq(S)  BY DEF IsSequence
<1>2. s \in Seq(S \cup {e})  BY <1>1, SeqMonotonic
<1>3. e \in S \cup {e}  OBVIOUS
<1> QED  BY <1>2, <1>3, AppendAt DEF IsSequence

-----------------------------------------------------------------------------
(* What no step after Load changes                                          *)

LEMMA SameInputs ==
    ASSUME UNCHANGED inputs
    PROVE  /\ DataOK' <=> DataOK
           /\ Files' = Files /\ Wanted' = Wanted
           /\ ResolveBaseDir' = ResolveBaseDir
           /\ format' = format /\ stored' = stored /\ disk' = disk
BY DEF inputs, DataOK, Files, Wanted, ResolveBaseDir

LEMMA SameSource ==
    ASSUME UNCHANGED inputs, baseDir' = baseDir, NEW f
    PROVE  ReadSource(f)' = ReadSource(f)
BY DEF inputs, ReadSource, SourcePathCandidates

LEMMA FilesAreNumbers ==
    ASSUME DataOK
    PROVE  Files \subseteq Nat /\ Wanted \subseteq Nat /\ Wanted \subseteq Files
BY DEF DataOK, Files, Wanted

LEMMA OfFile ==
    ASSUME NEW hits, NEW f
    PROVE  /\ DOMAIN Of(hits, f) = {p \in DOMAIN hits : p.file = f}
           /\ \A p \in DOMAIN Of(hits, f) : Of(hits, f)[p] = hits[p]
BY DEF Of

\* The file that is next, and what is left then.
LEMMA NextFile ==
    ASSUME DataOK, left \subseteq Files, left # {}
    PROVE  /\ Min(left) \in left /\ Min(left) \in Nat
           /\ \A f \in left \ {Min(left)} : Min(left) < f
<1>1. left \in SUBSET Nat  BY FilesAreNumbers
<1>2. Min(left) \in left /\ \A f \in left : Min(left) <= f  BY <1>1, LeastNumber
<1>3. ASSUME NEW f \in left, f # Min(left) PROVE Min(left) < f
  <2>1. Min(left) \in Nat /\ f \in Nat /\ Min(left) <= f  BY <1>1, <1>2
  <2> QED  BY <1>3, <2>1
<1> QED  BY <1>1, <1>2, <1>3

-----------------------------------------------------------------------------
(* Sections                                                                 *)

\* A step that begins the next file's section.
LEMMA BeginKeeps ==
    ASSUME RInv, pc = "file", format # "json", left # {}, Min(left) \in Wanted,
           UNCHANGED <<inputs, baseDir, out>>, Open',
           file' = Min(left), left' = left \ {Min(left)},
           pc' = "positions" <=> ReadSource(Min(left)) = NoFile
    PROVE  SectionsOK'
<1>1. SectionsOK /\ ~Open /\ DataOK  BY DEF RInv, Writing, Open
<1>2. /\ Min(left) \in left /\ Min(left) \in Nat
      /\ \A f \in left \ {Min(left)} : Min(left) < f
  BY <1>1, NextFile DEF SectionsOK
<1>3. Pending' = left /\ Pending = left  BY <1>1, <1>2 DEF Pending
<1>4. Wanted' = Wanted /\ Files' = Files  BY SameInputs
<1>5. \A f : ReadSource(f)' = ReadSource(f)  BY SameSource
<1>6. pc' # "done"  BY DEF Open
<1>7. Text' = ReadSource(Min(left))  BY <1>5 DEF Text
<1> QED  BY <1>1, <1>2, <1>3, <1>4, <1>5, <1>6, <1>7 DEF SectionsOK

\* A step that adds the section of f, the least of the pending files.
LEMMA AppendKeeps ==
    ASSUME RInv, Writing, UNCHANGED <<inputs, baseDir>>, ~Open', pc' # "done",
           NEW f \in Wanted, f \in Pending, left' = Pending \ {f}, \A g \in left' : f < g,
           NEW s, s.file = f, s.text = ReadSource(f), out' = Append(out, s)
    PROVE  SectionsOK'
<1>1. SectionsOK /\ DataOK  BY DEF RInv
<1>2. Pending' = left'  BY DEF Pending
<1>3. Wanted' = Wanted /\ Files' = Files  BY SameInputs
<1>4. \A g : ReadSource(g)' = ReadSource(g)  BY SameSource
<1>5. left' \subseteq Files'
  BY <1>1, <1>3, FilesAreNumbers DEF Pending, SectionsOK
<1>6. /\ IsSequence(out')
      /\ Len(out) \in Nat /\ \A i \in DOMAIN out : i \in Nat /\ i < Len(out) + 1
      /\ DOMAIN out' = DOMAIN out \cup {Len(out) + 1}
      /\ \A i \in DOMAIN out : out'[i] = out[i]
      /\ out'[Len(out) + 1] = s
  BY <1>1, AppendAny DEF SectionsOK
<1>7. \A i \in DOMAIN out' : /\ out'[i].text = ReadSource(out'[i].file)
                             /\ out'[i].file \in Wanted
                             /\ \A g \in Pending' : out'[i].file < g
  <2> SUFFICES ASSUME NEW i \in DOMAIN out'
               PROVE  /\ out'[i].text = ReadSource(out'[i].file)
                      /\ out'[i].file \in Wanted
                      /\ \A g \in Pending' : out'[i].file < g
    OBVIOUS
  <2>1. CASE i \in DOMAIN out  BY <1>1, <1>2, <1>6, <2>1 DEF SectionsOK
  <2>2. CASE i = Len(out) + 1  BY <1>2, <1>6, <2>2
  <2> QED  BY <1>6, <2>1, <2>2
<1>8. ASSUME NEW i \in DOMAIN out', NEW j \in DOMAIN out', i < j
      PROVE  out'[i].file < out'[j].file
  <2>1. i \in DOMAIN out  BY <1>6, <1>8
  <2>2. CASE j \in DOMAIN out  BY <1>1, <1>6, <1>8, <2>1, <2>2 DEF SectionsOK
  <2>3. CASE j = Len(out) + 1  BY <1>1, <1>6, <2>1, <2>3 DEF SectionsOK
  <2> QED  BY <1>6, <2>2, <2>3
<1>9. \A g \in Wanted : g \in Pending' \/ \E i \in DOMAIN out' : out'[i].file = g
  <2> SUFFICES ASSUME NEW g \in Wanted, g \notin Pending' PROVE \E i \in DOMAIN out' : out'[i].file = g
    OBVIOUS
  <2>1. CASE g = f  BY <1>6, <2>1
  <2>2. CASE g # f
    <3>1. g \notin Pending  BY <1>2, <2>2
    <3> QED  BY <1>1, <1>6, <3>1 DEF SectionsOK
  <2> QED  BY <2>1, <2>2
<1> QED  BY <1>2, <1>3, <1>4, <1>5, <1>6, <1>7, <1>8, <1>9 DEF SectionsOK

\* A step that does not end or begin a section.
LEMMA SameSections ==
    ASSUME RInv, Writing, UNCHANGED <<inputs, baseDir, out, left, file>>, Open \/ Open' => pc' = pc,
           pc' = "done" => left = {}
    PROVE  SectionsOK'
<1>1. SectionsOK  BY DEF RInv
<1>o. Open' <=> Open  BY DEF Open
<1>2. Pending' = Pending  BY <1>o DEF Pending
<1>3. Wanted' = Wanted /\ Files' = Files  BY SameInputs
<1>4. \A g : ReadSource(g)' = ReadSource(g)  BY SameSource
<1>5. Text' = Text  BY <1>4 DEF Text
<1> QED  BY <1>o, <1>1, <1>2, <1>3, <1>4, <1>5 DEF SectionsOK, Open

\* The file of a section that is written is the least that is pending.
LEMMA EndKeeps ==
    ASSUME RInv, Open, NEW s, s.file = file, s.text = Text, out' = Append(out, s), pc' = "file",
           UNCHANGED <<inputs, baseDir, left, section>>
    PROVE  SectionsOK'
<1>1. SectionsOK /\ Writing /\ DataOK  BY DEF RInv, Writing, Open
<1>2. Pending = left \cup {file} /\ file \in Wanted /\ \A f \in left : file < f /\ file \in Nat
  BY <1>1, FilesAreNumbers DEF Pending, SectionsOK
<1>3. left' = Pending \ {file} /\ \A g \in left' : file < g  BY <1>2
<1>4. ~Open' /\ pc' # "done"  BY DEF Open
<1> QED  BY <1>1, <1>2, <1>3, <1>4, AppendKeeps DEF Text

LEMMA StepSections ==
    ASSUME RInv, [Next]_vars, Writing'
    PROVE  SectionsOK'
<1>d. DataOK  BY DEF RInv
<1>1. CASE Load \/ CreateFails \/ WriteFails \/ FormatJSON
  BY <1>1 DEF Load, CreateFails, WriteFails, FormatJSON, Writing, Open, inputs
<1>2. CASE CreateOutput
  <2>1. out' = <<>> /\ left' = Files /\ pc' = "file" /\ UNCHANGED inputs
    BY <1>2 DEF CreateOutput
  <2>2. IsSequence(<<>>) /\ DOMAIN <<>> = {}  BY EmptySeq DEF IsSequence
  <2>3. Wanted' = Wanted /\ Files' = Files /\ Wanted \subseteq Files
    BY <1>d, <2>1, SameInputs, FilesAreNumbers
  <2>4. ~Open' /\ Pending' = Files  BY <2>1 DEF Open, Pending
  <2> QED  BY <2>1, <2>2, <2>3, <2>4 DEF SectionsOK, Open
<1>3. CASE EndReport
  BY <1>3, SameSections DEF EndReport, Writing, Open, section
<1>4. CASE SkipFile
  <2>1. /\ pc = "file" /\ pc' = pc /\ format = "lcov" /\ left # {}
        /\ DOMAIN Of(stored.positions, Min(left)) = {}
        /\ left' = left \ {Min(left)} /\ UNCHANGED <<inputs, baseDir, out, file>>
    BY <1>4 DEF SkipFile, FormatsNext, section
  <2>2. SectionsOK /\ ~Open /\ ~Open'  BY <2>1 DEF RInv, Writing, Open
  <2>3. Pending = left /\ Pending' = left \ {Min(left)}  BY <2>1, <2>2 DEF Pending
  <2>4. {p \in DOMAIN stored.positions : p.file = Min(left)} = {}  BY <2>1, OfFile
  <2>w. Min(left) \notin Wanted  BY <2>1, <2>4 DEF Wanted
  <2>5. Wanted' = Wanted /\ Files' = Files  BY <2>1, SameInputs
  <2>6. \A g : ReadSource(g)' = ReadSource(g)  BY <2>1, SameSource
  <2> QED  BY <2>1, <2>2, <2>3, <2>w, <2>5, <2>6 DEF SectionsOK, Open
<1>5. CASE FormatFileLCOV
  <2>1. /\ pc = "file" /\ format = "lcov" /\ left # {}
        /\ DOMAIN Of(stored.positions, Min(left)) # {}
        /\ file' = Min(left) /\ left' = left \ {file'} /\ UNCHANGED <<inputs, baseDir, out>>
        /\ pc' = IF ReadSource(Min(left)) = NoFile THEN "positions" ELSE "lines"
    BY <1>5 DEF FormatFileLCOV, FormatsNext, Begin
  <2>2. \E p \in DOMAIN stored.positions : p.file = Min(left)
    <3>1. DOMAIN Of(stored.positions, Min(left)) = {p \in DOMAIN stored.positions : p.file = Min(left)}
      BY OfFile
    <3> QED  BY <2>1, <3>1
  <2>3. Min(left) \in Wanted  BY <2>1, <2>2 DEF Wanted
  <2>4. Open' /\ (pc' = "positions" <=> ReadSource(Min(left)) = NoFile)  BY <2>1 DEF Open
  <2> QED  BY <2>1, <2>3, <2>4, BeginKeeps
<1>6. CASE FormatFileHTML
  <2>1. /\ pc = "file" /\ format = "html" /\ left # {}
        /\ file' = Min(left) /\ left' = left \ {file'} /\ UNCHANGED <<inputs, baseDir, out>>
        /\ pc' = "render" /\ ReadSource(Min(left)) # NoFile
    BY <1>6 DEF FormatFileHTML, FormatsNext, Begin
  <2>2. SectionsOK  BY <2>1 DEF RInv, Writing
  <2>3. Min(left) \in Wanted  BY <1>d, <2>1, <2>2, NextFile DEF Wanted, SectionsOK
  <2> QED  BY <2>1, <2>3, BeginKeeps DEF Open
<1>7. CASE MissingFileHTML
  <2>1. /\ pc = "file" /\ pc' = pc /\ format = "html" /\ left # {}
        /\ ReadSource(Min(left)) = NoFile /\ left' = left \ {Min(left)}
        /\ out' = Append(out, [file |-> Min(left), text |-> NoFile, spans |-> <<>>])
        /\ UNCHANGED <<inputs, baseDir>>
    BY <1>7 DEF MissingFileHTML, FormatsNext
  <2>2. SectionsOK /\ Writing /\ ~Open /\ ~Open' /\ pc' # "done"  BY <2>1 DEF RInv, Writing, Open
  <2>3. Pending = left /\ Min(left) \in Wanted /\ \A g \in left \ {Min(left)} : Min(left) < g
    BY <1>d, <2>1, <2>2, NextFile DEF Pending, Wanted, SectionsOK
  <2>4. Min(left) \in Pending  BY <1>d, <2>1, <2>2, <2>3, NextFile DEF SectionsOK
  <2> DEFINE s == [file |-> Min(left), text |-> NoFile, spans |-> <<>>]
  <2>5. s.file = Min(left) /\ s.text = ReadSource(Min(left)) /\ out' = Append(out, s)  BY <2>1
  <2> HIDE DEF s
  <2> QED  BY <2>1, <2>2, <2>3, <2>4, <2>5, AppendKeeps
<1>8. CASE \E p \in todo : ConvertPosition(p) \/ WritePosition(p) \/ ResolveRange(p)
  <2>1. pc' = pc /\ UNCHANGED <<inputs, baseDir, out, left, file>> /\ Open
    BY <1>8 DEF ConvertPosition, WritePosition, ResolveRange, Open
  <2> QED  BY <2>1, SameSections DEF Writing, Open, inputs
<1>9. CASE WriteLine \/ WriteUncovered \/ WriteRange \/ WriteRest
  <2>1. pc' = pc /\ UNCHANGED <<inputs, baseDir, out, left, file>> /\ Open
    BY <1>9 DEF WriteLine, WriteUncovered, WriteRange, WriteRest, Rendering, WriteUpTo, Open
  <2> QED  BY <2>1, SameSections DEF Writing, Open, inputs
<1>10. CASE EndLines
  BY <1>10, EndKeeps DEF EndLines, End, Open
<1>11. CASE EndFile
  BY <1>11, EndKeeps DEF EndFile, End, Open
<1>12. CASE EndPositions
  <2>1. pc = "positions" /\ Open /\ Writing'  BY <1>12 DEF EndPositions, Open
  <2>2. Text = NoFile  BY <1>12, <2>1 DEF RInv, SectionsOK, Writing, EndPositions, inputs
  <2> QED  BY <1>12, <2>1, <2>2, EndKeeps DEF EndPositions, End
<1>13. CASE Finished \/ UNCHANGED vars
  <2>1. pc' = pc /\ UNCHANGED <<inputs, baseDir, out, left, file>>
    BY <1>13 DEF Finished, vars, section
  <2>2. Writing /\ SectionsOK  BY <2>1 DEF Writing, Open, inputs, RInv
  <2> QED  BY <2>1, <2>2, SameSections DEF Open, SectionsOK
<1> QED
  BY <1>1, <1>2, <1>3, <1>4, <1>5, <1>6, <1>7, <1>8, <1>9, <1>10, <1>11, <1>12, <1>13
  DEF Next, FormatLCOV, FormatHTML

LEMMA StepInvariant == RInv /\ [Next]_vars => RInv'
<1> SUFFICES ASSUME RInv, [Next]_vars PROVE RInv'
  OBVIOUS
<1>1. UNCHANGED inputs
  BY Zenon DEF Next, FormatLCOV, FormatHTML, Load, CreateOutput, CreateFails, WriteFails, EndReport,
     FormatJSON, SkipFile, FormatFileLCOV, ConvertPosition, WriteLine, EndLines, WritePosition,
     EndPositions, MissingFileHTML, FormatFileHTML, ResolveRange, WriteUncovered, WriteRange,
     WriteRest, WriteUpTo, EndFile, Finished, vars
<1>2. DataOK' /\ format' = format /\ ResolveBaseDir' = ResolveBaseDir  BY <1>1, SameInputs DEF RInv
<1>3. CASE Load
  BY <1>2, <1>3, StepSections DEF Load, RInv
<1>4. CASE ~Load
  <2>1. pc' = "failed" \/ (pc # "load" /\ baseDir' = baseDir) \/ UNCHANGED <<pc, baseDir>>
    BY <1>4, Zenon DEF Next, FormatLCOV, FormatHTML, CreateOutput, CreateFails, WriteFails, EndReport,
       FormatJSON, SkipFile, FormatFileLCOV, ConvertPosition, WriteLine, EndLines, WritePosition,
       EndPositions, MissingFileHTML, FormatFileHTML, ResolveRange, WriteUncovered, WriteRange,
       WriteRest, WriteUpTo, Rendering, FormatsNext, EndFile, Finished, vars
  <2>2. pc = "failed" => pc' = "failed"
    BY <1>4, Zenon DEF Next, FormatLCOV, FormatHTML, CreateOutput, CreateFails, WriteFails, EndReport,
       FormatJSON, SkipFile, FormatFileLCOV, ConvertPosition, WriteLine, EndLines, WritePosition,
       EndPositions, MissingFileHTML, FormatFileHTML, ResolveRange, WriteUncovered, WriteRange,
       WriteRest, WriteUpTo, Rendering, FormatsNext, EndFile, Finished, vars
  <2>3. /\ pc' \in {"lines", "positions"} => format = "lcov"
        /\ pc' = "render" => format = "html"
    BY <1>4 DEF RInv, Next, FormatLCOV, FormatHTML, CreateOutput, CreateFails, WriteFails, EndReport,
       FormatJSON, SkipFile, FormatFileLCOV, ConvertPosition, WriteLine, EndLines, WritePosition,
       EndPositions, MissingFileHTML, FormatFileHTML, ResolveRange, WriteUncovered, WriteRange,
       WriteRest, WriteUpTo, FormatsNext, Begin, End, EndFile, Finished, vars
  <2> QED  BY <1>2, <2>1, <2>2, <2>3, StepSections DEF RInv
<1> QED  BY <1>3, <1>4

LEMMA InitInvariant == Init => RInv
<1> SUFFICES ASSUME Init PROVE RInv
  OBVIOUS
<1>1. DataOK  BY SituationsAssumption DEF Init, DataOK
<1> QED  BY <1>1 DEF Init, RInv, Writing, Open

-----------------------------------------------------------------------------
(* The right source                                                         *)

LEMMA MinOne ==
    ASSUME NEW S, 1 \in S, S \subseteq 1..2
    PROVE  Min(S) = 1
<1>1. \A y \in S : 1 <= y
  OBVIOUS
<1>2. \A x \in S : (\A y \in S : x <= y) => x = 1
  OBVIOUS
<1> QED
  BY <1>1, <1>2 DEF Min

LEMMA PairDomain ==
    ASSUME NEW a, NEW b
    PROVE  DOMAIN <<a, b>> = 1..2 /\ <<a, b>>[1] = a /\ <<a, b>>[2] = b /\ 1 \in 1..2
OBVIOUS

\* The first directory that has the file is the one its text comes from.
LEMMA FirstCandidate ==
    ASSUME NEW f, baseDir # "", disk[baseDir][f] # NoFile
    PROVE  ReadSource(f) = disk[baseDir][f]
<1> DEFINE found == {i \in DOMAIN SourcePathCandidates : disk[SourcePathCandidates[i]][f] # NoFile}
<1>1. SourcePathCandidates = <<baseDir, "cwd">>
  BY Zenon DEF SourcePathCandidates
<1>2. DOMAIN SourcePathCandidates = 1..2 /\ SourcePathCandidates[1] = baseDir /\ 1 \in 1..2
  BY <1>1, PairDomain, Zenon
<1>3. 1 \in found /\ found \subseteq 1..2
  BY <1>2, Zenon
<1>4. found # {} /\ ReadSource(f) = disk[SourcePathCandidates[Min(found)]][f]
  BY <1>3, Zenon DEF ReadSource
<1>5. Min(found) = 1
  BY <1>3, MinOne, Zenon
<1> QED
  BY <1>2, <1>4, <1>5, Zenon

\* Whatever files, coverage and directories there are, and however many: a finished report
\* shows positions on the source they were measured on.
THEOREM RightSource == Spec => []ShowsTheRunsSource
<1>1. RInv => ShowsTheRunsSource
  <2> SUFFICES ASSUME RInv, pc = "done", format # "json", NEW i \in DOMAIN out
               PROVE  /\ flag /\ disk["flag"][out[i].file] # NoFile => out[i].text = disk["flag"][out[i].file]
                      /\ ~flag /\ root = "root" /\ disk["root"][out[i].file] # NoFile
                             => out[i].text = disk["root"][out[i].file]
    BY DEF ShowsTheRunsSource, ToSet
  <2>1. out[i].text = ReadSource(out[i].file)
    BY DEF RInv, SectionsOK, Writing
  <2>2. (flag => baseDir = "flag") /\ (~flag /\ root = "root" => baseDir = "root")
    BY DEF RInv, ResolveBaseDir
  <2> QED
    BY <2>1, <2>2, FirstCandidate
<1> QED
  BY <1>1, InitInvariant, StepInvariant, PTL DEF Spec

\* A finished report has a section for each wanted file, and no others, in order.
LEMMA RightSections ==
    ASSUME RInv, pc = "done", format # "json"
    PROVE  SectionsOf(Wanted)
<1>1. SectionsOK /\ Pending = {}  BY DEF RInv, Writing, Open, Pending, SectionsOK
<1>2. {s.file : s \in ToSet(out)} = Wanted  BY <1>1 DEF SectionsOK, ToSet
<1> QED  BY <1>1, <1>2 DEF SectionsOf, SectionsOK

-----------------------------------------------------------------------------
(* HTML: the inductive invariant                                            *)

\* The positions that have been resolved.
Taken == Parsed(AllPositions(file)) \ todo

\* They are those that start first, and none of them is over a byte behind currentEnd.
Resolving ==
    /\ todo \subseteq Parsed(AllPositions(file))
    /\ \A p \in Taken : \A q \in todo : p.start <= q.start
    /\ currentEnd \in Nat
    /\ \A p \in Taken : EndOf(p) <= p.start \/ EndOf(p) <= currentEnd
    /\ currentEnd = 0 \/ \E p \in Taken : EndOf(p) = currentEnd

RangeRecords == [start : Nat, length : Nat, hits : Nat]
SpanRecords  == [from : Nat, to : Nat, hits : Int]

IsOver(r, b) == r.start <= b /\ b < EndOf(r)

FirstHits(f, b, hits) == \E p \in First(f, b) : hits = AllPositions(f)[p]

\* The ranges that are to be written are not empty, in order, have the count of the
\* position that starts first, and leave no byte out that a resolved position is over.
RangesOK ==
    /\ ranges \in Seq(RangeRecords)
    /\ \A i \in DOMAIN ranges :
          /\ ranges[i].start < EndOf(ranges[i]) /\ EndOf(ranges[i]) <= currentEnd
          /\ pos <= ranges[i].start /\ ranges[i].start < Len(Text)
          /\ \A b \in Nat : IsOver(ranges[i], b) => FirstHits(file, b, ranges[i].hits)
    /\ \A i, j \in DOMAIN ranges : i < j => EndOf(ranges[i]) <= ranges[j].start
    /\ \A b \in Nat : pos <= b /\ b < Len(Text) /\ (\E p \in Taken : IsOver(p, b))
                         => \E i \in DOMAIN ranges : IsOver(ranges[i], b)

\* A span from..to colours byte b of file f as it should be.
Colours(s, f, b) ==
    /\ s.from <= b /\ b < s.to
    /\ IF Over(f, b) = {} THEN s.hits = -1 ELSE FirstHits(f, b, s.hits)

\* What has been written is in order, ends at pos, and colours every byte before it.
SpansOK ==
    /\ pos \in Nat /\ pos <= Len(Text)
    /\ todo # {} => pos = 0
    /\ written \in Seq(SpanRecords)
    /\ \A i \in DOMAIN written : written[i].to <= pos
    /\ \A i, j \in DOMAIN written : i < j => written[i].to <= written[j].from
    /\ \A b \in Nat : b < pos => \E i \in DOMAIN written : Colours(written[i], file, b)

RenderOK == Resolving /\ RangesOK /\ SpansOK

HInv ==
    /\ pc = "render" => RenderOK
    /\ Writing /\ format = "html" =>
           \A i \in DOMAIN out : out[i].text # NoFile => ColouredOnce(out[i])

-----------------------------------------------------------------------------
(* Texts and positions                                                      *)

LEMMA TextIsText ==
    ASSUME RInv, pc \notin {"load", "failed"}, NEW f \in Files
    PROVE  ReadSource(f) \in Seq(STRING) \cup {NoFile}
<1>1. baseDir \in {"", "flag", "root"}  BY DEF RInv, ResolveBaseDir
<1>2. \A i \in DOMAIN SourcePathCandidates : SourcePathCandidates[i] \in Dirs
  <2>1. CASE baseDir = ""
    <3>1. SourcePathCandidates = <<"cwd">>  BY <2>1 DEF SourcePathCandidates
    <3> QED  BY <3>1 DEF Dirs
  <2>2. CASE baseDir # ""
    <3>1. SourcePathCandidates = <<baseDir, "cwd">>  BY <2>2 DEF SourcePathCandidates
    <3>2. /\ DOMAIN SourcePathCandidates = 1..2
          /\ SourcePathCandidates[1] = baseDir /\ SourcePathCandidates[2] = "cwd"
      BY <3>1, PairDomain, Zenon
    <3>3. baseDir \in Dirs /\ "cwd" \in Dirs  BY <1>1, <2>2 DEF Dirs
    <3>4. \A i \in 1..2 : i = 1 \/ i = 2  OBVIOUS
    <3> QED  BY <3>2, <3>3, <3>4, Zenon
  <2> QED  BY <2>1, <2>2
<1>3. \A d \in Dirs : disk[d][f] \in Seq(STRING) \cup {NoFile}  BY DEF RInv, DataOK, Files
<1> DEFINE found == {i \in DOMAIN SourcePathCandidates : disk[SourcePathCandidates[i]][f] # NoFile}
<1>4. CASE found = {}  BY <1>4, Zenon DEF ReadSource
<1>5. CASE found # {}
  <2>1. DOMAIN SourcePathCandidates \in SUBSET Nat  BY DEF SourcePathCandidates
  <2>2. Min(found) \in found  BY <1>5, <2>1, LeastNumber
  <2>3. SourcePathCandidates[Min(found)] \in Dirs  BY <1>2, <2>2
  <2>4. ReadSource(f) = disk[SourcePathCandidates[Min(found)]][f]  BY <1>5, Zenon DEF ReadSource
  <2> QED  BY <1>3, <2>3, <2>4
<1> QED  BY <1>4, <1>5

\* The text of the file at hand.
LEMMA TextAtHand ==
    ASSUME RInv, pc \in {"lines", "render"}
    PROVE  Text \in Seq(STRING) /\ Len(Text) \in Nat /\ file \in Nat
<1>1. Writing /\ SectionsOK /\ DataOK  BY DEF RInv, Writing, Open
<1>2. file \in Wanted /\ Text # NoFile  BY <1>1 DEF SectionsOK, Open
<1>3. file \in Files /\ file \in Nat  BY <1>1, <1>2, FilesAreNumbers
<1>4. Text \in Seq(STRING)  BY <1>2, <1>3, TextIsText DEF Text
<1> QED  BY <1>3, <1>4, LenProperties

LEMMA PositionsTyped ==
    ASSUME DataOK, NEW f, NEW p \in Parsed(AllPositions(f))
    PROVE  /\ p.start \in Nat /\ p.length \in Nat
           /\ EndOf(p) \in Nat /\ EndOf(p) = p.start + p.length
           /\ AllPositions(f)[p] \in Nat
<1>1. \A hits \in {stored.positions, stored.implicit} : \A q \in DOMAIN Of(hits, f) :
          q.start \in Int /\ q.length \in Int /\ Of(hits, f)[q] \in Nat
  <2> SUFFICES ASSUME NEW hits \in {stored.positions, stored.implicit}, NEW q \in DOMAIN Of(hits, f)
               PROVE  q.start \in Int /\ q.length \in Int /\ Of(hits, f)[q] \in Nat
    OBVIOUS
  <2>1. q \in DOMAIN hits /\ Of(hits, f)[q] = hits[q]
    <3>1. /\ DOMAIN Of(hits, f) = {r \in DOMAIN hits : r.file = f}
          /\ \A r \in DOMAIN Of(hits, f) : Of(hits, f)[r] = hits[r]
      BY OfFile
    <3> QED  BY <3>1
  <2> QED  BY <2>1 DEF DataOK
<1> DEFINE executable == Of(stored.positions, f)
           implicit   == Of(stored.implicit, f)
<1>2. /\ DOMAIN AllPositions(f) = DOMAIN executable \cup DOMAIN implicit
      /\ \A q \in DOMAIN AllPositions(f) :
            AllPositions(f)[q] = IF q \in DOMAIN executable THEN executable[q] ELSE implicit[q]
  BY DEF AllPositions
<1>3. p \in DOMAIN AllPositions(f) /\ p.start >= 0 /\ p.length >= 0  BY DEF Parsed
<1>4. /\ \A q \in DOMAIN executable : q.start \in Int /\ q.length \in Int /\ executable[q] \in Nat
      /\ \A q \in DOMAIN implicit : q.start \in Int /\ q.length \in Int /\ implicit[q] \in Nat
  BY <1>1
<1> HIDE DEF executable, implicit
<1>5. p.start \in Int /\ p.length \in Int /\ AllPositions(f)[p] \in Nat  BY <1>2, <1>3, <1>4
<1> QED  BY <1>3, <1>5 DEF EndOf

LEMMA SameCoverage ==
    ASSUME UNCHANGED inputs
    PROVE  /\ \A f : AllPositions(f)' = AllPositions(f)
           /\ \A f, b : Over(f, b)' = Over(f, b) /\ First(f, b)' = First(f, b)
           /\ \A f, b, hits : FirstHits(f, b, hits)' <=> FirstHits(f, b, hits)
           /\ \A s, f, b : Colours(s, f, b)' <=> Colours(s, f, b)
           /\ \A s : ColouredOnce(s)' <=> ColouredOnce(s)
<1>1. \A f : AllPositions(f)' = AllPositions(f)  BY DEF inputs, AllPositions, Of
<1>2. \A f, b : Over(f, b)' = Over(f, b)  BY <1>1, Zenon DEF Over, Parsed, EndOf
<1>3. \A f, b : First(f, b)' = First(f, b)  BY <1>2 DEF First
<1>4. \A f, b, hits : FirstHits(f, b, hits)' <=> FirstHits(f, b, hits)  BY <1>1, <1>3 DEF FirstHits
<1>5. \A s, f, b : Colours(s, f, b)' <=> Colours(s, f, b)  BY <1>2, <1>4 DEF Colours
<1>6. \A s : ColouredOnce(s)' <=> ColouredOnce(s)  BY <1>1, <1>2, <1>3, ZenonT(30) DEF ColouredOnce
<1> QED  BY <1>1, <1>2, <1>3, <1>4, <1>5, <1>6

\* The bytes that a position is over are the bytes where it is in Over.
LEMMA OverFile ==
    ASSUME NEW f, NEW b
    PROVE  \A p : p \in Over(f, b) <=> p \in Parsed(AllPositions(f)) /\ IsOver(p, b)
BY DEF Over, IsOver

LEMMA SameFile ==
    ASSUME UNCHANGED <<inputs, baseDir, file>>
    PROVE  Text' = Text
BY SameSource DEF Text

-----------------------------------------------------------------------------
(* HTML: the steps                                                          *)

\* The next position in order is over no byte that an earlier one starts before it on
\* and that currentEnd has not passed.
LEMMA FirstInOrder ==
    ASSUME RInv, Resolving, NEW p, NextInOrder(p), NEW b \in Nat, IsOver(p, b), currentEnd <= b
    PROVE  p \in First(file, b)
<1>1. p \in Over(file, b)  BY OverFile DEF Resolving, NextInOrder
<1>2. ASSUME NEW q \in Over(file, b) PROVE p.start <= q.start
  <2>1. q \in Parsed(AllPositions(file)) /\ IsOver(q, b)  BY OverFile
  <2>2. q.start \in Nat /\ EndOf(q) \in Nat  BY <2>1, PositionsTyped DEF RInv
  <2>3. ~(EndOf(q) <= q.start) /\ ~(EndOf(q) <= currentEnd)
    BY <1>2, <2>1, <2>2 DEF IsOver, Resolving
  <2>4. q \notin Taken  BY <2>3 DEF Resolving
  <2>5. q \in todo  BY <2>1, <2>4 DEF Taken
  <2> QED  BY <2>5 DEF NextInOrder
<1> QED  BY <1>1, <1>2 DEF First

\* Before currentEnd, no byte behind the start of the next position is left out.
LEMMA NoGap ==
    ASSUME RInv, RenderOK, NEW p, NextInOrder(p), NEW b \in Nat,
           p.start <= b, b < currentEnd, b < Len(Text)
    PROVE  \E i \in DOMAIN ranges : IsOver(ranges[i], b)
<1>1. p \in todo /\ todo \subseteq Parsed(AllPositions(file)) /\ pos = 0 /\ currentEnd \in Nat
  BY DEF NextInOrder, RenderOK, Resolving, SpansOK
<1>2. PICK q \in Taken : EndOf(q) = currentEnd  BY <1>1 DEF RenderOK, Resolving
<1>3. q.start <= p.start  BY <1>1, <1>2 DEF RenderOK, Resolving
<1>4. q.start \in Nat /\ p.start \in Nat  BY <1>1, <1>2, PositionsTyped DEF RInv, Taken
<1>5. IsOver(q, b)  BY <1>2, <1>3, <1>4 DEF IsOver
<1> QED  BY <1>1, <1>2, <1>5 DEF RenderOK, RangesOK

LEMMA ResolveKeeps ==
    ASSUME RInv, RenderOK, NEW p \in todo, ResolveRange(p)
    PROVE  RenderOK'
<1> DEFINE r == [start |-> AdjustedStart(p), length |-> EndOf(p) - AdjustedStart(p),
                 hits |-> AllPositions(file)[p]]
<1>1. /\ pc = "render" /\ NextInOrder(p) /\ todo' = todo \ {p}
      /\ UNCHANGED <<inputs, baseDir, file, pos, written>>
      /\ \/ r.length <= 0 /\ UNCHANGED <<currentEnd, ranges>>
         \/ /\ r.length > 0
            /\ currentEnd' = EndOf(r)
            /\ ranges' = IF r.start < Len(Text) THEN Append(ranges, r) ELSE ranges
  <2>1. p.start \in Nat /\ EndOf(p) \in Nat  BY PositionsTyped DEF RInv, RenderOK, Resolving
  <2>2. AdjustedStart(p) \in Nat  BY <2>1 DEF AdjustedStart, RenderOK, Resolving
  <2>3. r.length \in Int  BY <2>1, <2>2
  <2> QED  BY <2>3 DEF ResolveRange
<1>2. /\ p.start \in Nat /\ EndOf(p) \in Nat /\ AllPositions(file)[p] \in Nat
      /\ \A q \in todo \cup Taken : q.start \in Nat /\ EndOf(q) \in Nat
  BY PositionsTyped DEF RInv, RenderOK, Resolving, Taken
<1>3. currentEnd \in Nat /\ pos = 0 /\ Len(Text) \in Nat
  BY <1>1, TextAtHand DEF RenderOK, Resolving, SpansOK
<1>4. /\ r.start \in Nat /\ p.start <= r.start /\ currentEnd <= r.start
      /\ r.start = p.start \/ r.start = currentEnd
      /\ r.length = EndOf(p) - r.start
  BY <1>2, <1>3 DEF AdjustedStart
<1>5. EndOf(r) = EndOf(p)  BY <1>2, <1>4 DEF EndOf
<1>6. r.hits = AllPositions(file)[p]  OBVIOUS
<1>7. r.length > 0 => r \in RangeRecords  BY <1>2, <1>4, <1>6 DEF RangeRecords
<1> HIDE DEF r
<1>8. /\ AllPositions(file)' = AllPositions(file) /\ Text' = Text
      /\ \A f, b, hits : FirstHits(f, b, hits)' <=> FirstHits(f, b, hits)
      /\ \A s, f, b : Colours(s, f, b)' <=> Colours(s, f, b)
  BY <1>1, SameCoverage, SameFile
<1>9. Taken' = Taken \cup {p}  BY <1>1, <1>8 DEF RenderOK, Resolving, Taken, Parsed
<1>10. Resolving'
  <2>1. \A q \in Taken' : \A s \in todo' : q.start <= s.start
    BY <1>1, <1>9 DEF RenderOK, Resolving, NextInOrder
  <2>2. currentEnd' \in Nat /\ currentEnd <= currentEnd'  BY <1>1, <1>2, <1>3, <1>4, <1>5
  <2>3. \A q \in Taken' : EndOf(q) <= q.start \/ EndOf(q) <= currentEnd'
    <3>1. \A q \in Taken : EndOf(q) <= q.start \/ EndOf(q) <= currentEnd'
      BY <1>2, <1>3, <2>2 DEF RenderOK, Resolving
    <3>2. EndOf(p) <= p.start \/ EndOf(p) <= currentEnd'
      BY <1>1, <1>2, <1>3, <1>4, <1>5
    <3> QED  BY <1>9, <3>1, <3>2
  <2>4. currentEnd' = 0 \/ \E q \in Taken' : EndOf(q) = currentEnd'
    BY <1>1, <1>5, <1>9 DEF RenderOK, Resolving
  <2>5. todo' \subseteq Parsed(AllPositions(file))'  BY <1>1, <1>8 DEF RenderOK, Resolving, Parsed
  <2> QED  BY <1>1, <2>1, <2>2, <2>3, <2>4, <2>5 DEF Resolving
<1>11. SpansOK'  BY <1>1, <1>8 DEF RenderOK, SpansOK
<1>12. ASSUME NEW b \in Nat, r.length > 0, IsOver(r, b) PROVE FirstHits(file, b, r.hits)
  <2>1. IsOver(p, b) /\ currentEnd <= b  BY <1>2, <1>3, <1>4, <1>5, <1>12 DEF IsOver
  <2>2. p \in First(file, b)  BY <1>1, <2>1, FirstInOrder DEF RenderOK
  <2> QED  BY <1>6, <2>2 DEF FirstHits
<1>13. ASSUME NEW b \in Nat, b < Len(Text), IsOver(p, b)
       PROVE  (\E i \in DOMAIN ranges : IsOver(ranges[i], b)) \/ (r.length > 0 /\ r.start < Len(Text) /\ IsOver(r, b))
  <2>1. CASE b < currentEnd  BY <1>1, <1>13, <2>1, NoGap DEF IsOver
  <2>2. CASE currentEnd <= b
    <3>1. r.start <= b  BY <1>4, <1>13, <2>2 DEF IsOver
    <3> QED  BY <1>2, <1>3, <1>4, <1>5, <1>13, <3>1 DEF IsOver
  <2> QED  BY <1>3, <2>1, <2>2
<1>14. RangesOK'
  <2>1. CASE UNCHANGED ranges /\ (r.length <= 0 \/ ~(r.start < Len(Text)))
    <3>1. \A i \in DOMAIN ranges : EndOf(ranges[i]) <= currentEnd'
      <4>1. \A i \in DOMAIN ranges : EndOf(ranges[i]) <= currentEnd /\ ranges[i] \in RangeRecords
        BY ElementOfSeq, LenProperties DEF RenderOK, RangesOK
      <4>2. \A i \in DOMAIN ranges : EndOf(ranges[i]) \in Nat  BY <4>1 DEF EndOf, RangeRecords
      <4>3. currentEnd' \in Nat /\ currentEnd <= currentEnd'  BY <1>1, <1>2, <1>3, <1>4, <1>5
      <4> QED  BY <1>3, <4>1, <4>2, <4>3
    <3>2. \A b \in Nat : pos <= b /\ b < Len(Text) /\ (\E q \in Taken' : IsOver(q, b))
                            => \E i \in DOMAIN ranges : IsOver(ranges[i], b)
      <4> SUFFICES ASSUME NEW b \in Nat, pos <= b, b < Len(Text), NEW q \in Taken', IsOver(q, b)
                   PROVE  \E i \in DOMAIN ranges : IsOver(ranges[i], b)
        OBVIOUS
      <4>1. CASE q \in Taken  BY <4>1 DEF RenderOK, RangesOK
      <4>2. CASE q = p
        <5>1. ~(r.length > 0 /\ r.start < Len(Text))  BY <1>2, <1>4, <2>1
        <5> QED  BY <1>13, <4>2, <5>1
      <4> QED  BY <1>9, <4>1, <4>2
    <3> QED  BY <1>1, <1>8, <2>1, <3>1, <3>2 DEF RenderOK, RangesOK
  <2>2. CASE r.length > 0 /\ r.start < Len(Text) /\ ranges' = Append(ranges, r) /\ currentEnd' = EndOf(r)
    <3>1. /\ ranges' \in Seq(RangeRecords)
          /\ Len(ranges) \in Nat /\ \A i \in DOMAIN ranges : i \in Nat /\ i < Len(ranges) + 1
          /\ DOMAIN ranges' = DOMAIN ranges \cup {Len(ranges) + 1}
          /\ \A i \in DOMAIN ranges : ranges'[i] = ranges[i]
          /\ ranges'[Len(ranges) + 1] = r
      BY <1>7, <2>2, AppendAt DEF RenderOK, RangesOK
    <3>2. \A i \in DOMAIN ranges : /\ EndOf(ranges[i]) \in Nat /\ EndOf(ranges[i]) <= currentEnd
                                   /\ EndOf(ranges[i]) <= currentEnd' /\ EndOf(ranges[i]) <= r.start
      <4>1. \A i \in DOMAIN ranges : EndOf(ranges[i]) <= currentEnd /\ ranges[i] \in RangeRecords
        BY ElementOfSeq, LenProperties DEF RenderOK, RangesOK
      <4>2. \A i \in DOMAIN ranges : EndOf(ranges[i]) \in Nat  BY <4>1 DEF EndOf, RangeRecords
      <4>3. currentEnd' \in Nat /\ currentEnd <= currentEnd'  BY <1>2, <1>3, <1>4, <1>5, <2>2
      <4> QED  BY <1>3, <1>4, <4>1, <4>2, <4>3
    <3>3. \A i \in DOMAIN ranges' :
            /\ ranges'[i].start < EndOf(ranges'[i]) /\ EndOf(ranges'[i]) <= currentEnd'
            /\ pos <= ranges'[i].start /\ ranges'[i].start < Len(Text)
            /\ \A b \in Nat : IsOver(ranges'[i], b) => FirstHits(file, b, ranges'[i].hits)
      <4>1. /\ r.start < EndOf(r) /\ EndOf(r) <= currentEnd'
            /\ pos <= r.start /\ r.start < Len(Text)
            /\ \A b \in Nat : IsOver(r, b) => FirstHits(file, b, r.hits)
        BY <1>2, <1>3, <1>4, <1>5, <1>12, <2>2
      <4> QED  BY <3>1, <3>2, <4>1 DEF RenderOK, RangesOK
    <3>4. ASSUME NEW i \in DOMAIN ranges', NEW j \in DOMAIN ranges', i < j
          PROVE  EndOf(ranges'[i]) <= ranges'[j].start
      <4>1. i \in DOMAIN ranges  BY <3>1, <3>4
      <4>2. CASE j \in DOMAIN ranges  BY <3>1, <3>4, <4>1, <4>2 DEF RenderOK, RangesOK
      <4>3. CASE j = Len(ranges) + 1  BY <3>1, <3>2, <4>1, <4>3
      <4> QED  BY <3>1, <4>2, <4>3
    <3>5. \A b \in Nat : pos <= b /\ b < Len(Text) /\ (\E q \in Taken' : IsOver(q, b))
                            => \E i \in DOMAIN ranges' : IsOver(ranges'[i], b)
      <4> SUFFICES ASSUME NEW b \in Nat, pos <= b, b < Len(Text), NEW q \in Taken', IsOver(q, b)
                   PROVE  \E i \in DOMAIN ranges' : IsOver(ranges'[i], b)
        OBVIOUS
      <4>1. (\E i \in DOMAIN ranges : IsOver(ranges[i], b)) \/ IsOver(r, b)
        BY <1>9, <1>13 DEF RenderOK, RangesOK
      <4> QED  BY <3>1, <4>1
    <3> QED  BY <1>1, <1>8, <3>1, <3>3, <3>4, <3>5 DEF RangesOK
  <2> QED  BY <1>1, <1>2, <1>3, <1>4, <2>1, <2>2
<1> QED  BY <1>10, <1>11, <1>14 DEF RenderOK

LEMMA SpanAdded ==
    ASSUME RInv, RenderOK, Rendering,
           NEW end \in Nat, pos <= end, end <= Len(Text), NEW hits \in Int, WriteUpTo(end, hits),
           \A b \in Nat : pos <= b /\ b < end => Colours([from |-> pos, to |-> end, hits |-> hits], file, b)
    PROVE  SpansOK'
<1> DEFINE s == [from |-> pos, to |-> end, hits |-> hits]
<1>1. /\ written' = Append(written, s) /\ pos' = end /\ todo' = todo /\ todo = {}
      /\ UNCHANGED <<inputs, baseDir, file>>
  BY DEF WriteUpTo, Rendering
<1>2. pos \in Nat /\ s \in SpanRecords /\ s.from = pos /\ s.to = end
  BY DEF RenderOK, SpansOK, SpanRecords
<1>3. \A b \in Nat : pos <= b /\ b < end => Colours(s, file, b)  OBVIOUS
<1> HIDE DEF s
<1>4. /\ written' \in Seq(SpanRecords)
      /\ Len(written) \in Nat /\ \A i \in DOMAIN written : i \in Nat /\ i < Len(written) + 1
      /\ DOMAIN written' = DOMAIN written \cup {Len(written) + 1}
      /\ \A i \in DOMAIN written : written'[i] = written[i]
      /\ written'[Len(written) + 1] = s
  BY <1>1, <1>2, AppendAt DEF RenderOK, SpansOK
<1>5. Text' = Text /\ \A t, f, b : Colours(t, f, b)' <=> Colours(t, f, b)
  BY <1>1, SameCoverage, SameFile
<1>6. \A i \in DOMAIN written : written[i].to \in Nat /\ written[i].to <= pos
  <2>1. \A i \in DOMAIN written : written[i] \in SpanRecords
    BY ElementOfSeq, LenProperties DEF RenderOK, SpansOK
  <2> QED  BY <2>1 DEF SpanRecords, RenderOK, SpansOK
<1>7. \A i \in DOMAIN written' : written'[i].to <= pos'  BY <1>1, <1>2, <1>4, <1>6
<1>8. ASSUME NEW i \in DOMAIN written', NEW j \in DOMAIN written', i < j
      PROVE  written'[i].to <= written'[j].from
  <2>1. i \in DOMAIN written  BY <1>4, <1>8
  <2>2. CASE j \in DOMAIN written  BY <1>4, <1>8, <2>1, <2>2 DEF RenderOK, SpansOK
  <2>3. CASE j = Len(written) + 1  BY <1>2, <1>4, <1>6, <2>1, <2>3
  <2> QED  BY <1>4, <2>2, <2>3
<1>9. ASSUME NEW b \in Nat, b < pos' PROVE \E i \in DOMAIN written' : Colours(written'[i], file, b)
  <2>1. CASE b < pos
    <3>1. PICK i \in DOMAIN written : Colours(written[i], file, b)  BY <2>1 DEF RenderOK, SpansOK
    <3> QED  BY <1>4, <3>1
  <2>2. CASE pos <= b
    <3>1. Colours(s, file, b)  BY <1>1, <1>3, <1>9, <2>2
    <3> QED  BY <1>4, <3>1
  <2> QED  BY <1>2, <2>1, <2>2
<1> QED  BY <1>1, <1>4, <1>5, <1>7, <1>8, <1>9 DEF SpansOK

\* Once all positions are resolved, a byte that nothing left is over has no position over it.
LEMMA NothingOver ==
    ASSUME RInv, RenderOK, Rendering, NEW b \in Nat, pos <= b, b < Len(Text),
           \A i \in DOMAIN ranges : ~IsOver(ranges[i], b)
    PROVE  Over(file, b) = {}
<1>1. Taken = Parsed(AllPositions(file))  BY DEF Taken, Rendering
<1>2. \A p \in Taken : ~IsOver(p, b)  BY DEF RenderOK, RangesOK
<1> QED  BY <1>1, <1>2, OverFile

\* Nothing is resolved any more while the text is written.
LEMMA WriteKeepsResolving ==
    ASSUME RenderOK, UNCHANGED <<inputs, baseDir, file, todo, currentEnd>>
    PROVE  Resolving' /\ Taken' = Taken
<1>1. AllPositions(file)' = AllPositions(file)  BY SameCoverage
<1>2. Taken' = Taken /\ Parsed(AllPositions(file))' = Parsed(AllPositions(file))
  BY <1>1 DEF Taken, Parsed
<1> QED  BY <1>2 DEF RenderOK, Resolving

LEMMA RangesTyped ==
    ASSUME RenderOK
    PROVE  /\ DOMAIN ranges = 1..Len(ranges) /\ Len(ranges) \in Nat
           /\ ranges # <<>> => 1 \in DOMAIN ranges
           /\ \A i \in DOMAIN ranges : /\ ranges[i].start \in Nat /\ ranges[i].hits \in Nat
                                       /\ EndOf(ranges[i]) \in Nat
<1>1. DOMAIN ranges = 1..Len(ranges) /\ Len(ranges) \in Nat /\ ranges \in Seq(RangeRecords)
  BY LenProperties DEF RenderOK, RangesOK
<1>2. ranges # <<>> => 1 \in DOMAIN ranges  BY <1>1, EmptySeq
<1>3. \A i \in DOMAIN ranges : ranges[i] \in RangeRecords  BY <1>1, ElementOfSeq
<1> QED  BY <1>1, <1>2, <1>3 DEF RangeRecords, EndOf

\* Ranges that are left stay as they should be when text before them is written.
LEMMA WriteKeepsRanges ==
    ASSUME RInv, RenderOK, UNCHANGED <<inputs, baseDir, file, todo, currentEnd, ranges>>,
           pos' \in Nat, pos <= pos', \A i \in DOMAIN ranges : pos' <= ranges[i].start
    PROVE  RangesOK'
<1>1. /\ Text' = Text /\ Taken' = Taken
      /\ \A f, b, hits : FirstHits(f, b, hits)' <=> FirstHits(f, b, hits)
  BY SameCoverage, SameFile, WriteKeepsResolving
<1>2. pos \in Nat  BY DEF RenderOK, SpansOK
<1>3. \A b \in Nat : pos' <= b => pos <= b  BY <1>2
<1> QED  BY <1>1, <1>3 DEF RenderOK, RangesOK

LEMMA WriteUncoveredKeeps ==
    ASSUME RInv, RenderOK, WriteUncovered
    PROVE  RenderOK'
<1>1. Rendering /\ ranges # <<>> /\ pos < ranges[1].start /\ WriteUpTo(ranges[1].start, -1) /\ ranges' = ranges
  BY DEF WriteUncovered
<1>2. UNCHANGED <<inputs, baseDir, file, todo, currentEnd, ranges>> /\ pos' = ranges[1].start
  BY <1>1 DEF WriteUpTo
<1>3. 1 \in DOMAIN ranges /\ ranges[1].start \in Nat /\ ranges[1].start < Len(Text) /\ pos \in Nat
      /\ Len(Text) \in Nat
  BY <1>1, RangesTyped, TextAtHand DEF RenderOK, RangesOK, SpansOK, Rendering
<1>4. \A i \in DOMAIN ranges : ranges[1].start <= ranges[i].start
  <2> SUFFICES ASSUME NEW i \in DOMAIN ranges PROVE ranges[1].start <= ranges[i].start
    OBVIOUS
  <2>1. i = 1 \/ 1 < i  BY RangesTyped
  <2>2. ranges[i].start \in Nat /\ EndOf(ranges[1]) \in Nat  BY <1>3, RangesTyped
  <2>3. CASE 1 < i
    <3>1. EndOf(ranges[1]) <= ranges[i].start  BY <1>3, <2>3 DEF RenderOK, RangesOK
    <3>2. ranges[1].start < EndOf(ranges[1])  BY <1>3 DEF RenderOK, RangesOK
    <3> QED  BY <1>3, <2>2, <3>1, <3>2
  <2> QED  BY <1>3, <2>1, <2>3
<1>5. ASSUME NEW b \in Nat, pos <= b, b < ranges[1].start
      PROVE  Colours([from |-> pos, to |-> ranges[1].start, hits |-> -1], file, b)
  <2>1. \A i \in DOMAIN ranges : ~IsOver(ranges[i], b)
    BY <1>3, <1>4, <1>5, RangesTyped DEF IsOver
  <2>2. Over(file, b) = {}  BY <1>1, <1>3, <1>5, <2>1, NothingOver
  <2> QED  BY <1>5, <2>2 DEF Colours
<1>6. SpansOK'  BY <1>1, <1>3, <1>5, SpanAdded
<1>7. Resolving'  BY <1>2, WriteKeepsResolving
<1>8. RangesOK'  BY <1>1, <1>2, <1>3, <1>4, WriteKeepsRanges
<1> QED  BY <1>6, <1>7, <1>8 DEF RenderOK

LEMMA WriteRestKeeps ==
    ASSUME RInv, RenderOK, WriteRest
    PROVE  RenderOK'
<1>1. Rendering /\ ranges = <<>> /\ WriteUpTo(Len(Text), -1) /\ ranges' = ranges
  BY DEF WriteRest
<1>2. UNCHANGED <<inputs, baseDir, file, todo, currentEnd, ranges>> /\ pos' = Len(Text)
  BY <1>1 DEF WriteUpTo
<1>3. pos \in Nat /\ Len(Text) \in Nat /\ pos <= Len(Text) /\ DOMAIN ranges = {}
  BY <1>1, TextAtHand DEF RenderOK, SpansOK, Rendering
<1>4. ASSUME NEW b \in Nat, pos <= b, b < Len(Text)
      PROVE  Colours([from |-> pos, to |-> Len(Text), hits |-> -1], file, b)
  <2>1. Over(file, b) = {}  BY <1>1, <1>3, <1>4, NothingOver
  <2> QED  BY <1>4, <2>1 DEF Colours
<1>5. SpansOK'  BY <1>1, <1>3, <1>4, SpanAdded
<1>6. Resolving'  BY <1>2, WriteKeepsResolving
<1>7. RangesOK'  BY <1>2, <1>3, WriteKeepsRanges
<1> QED  BY <1>5, <1>6, <1>7 DEF RenderOK

LEMMA WriteRangeKeeps ==
    ASSUME RInv, RenderOK, WriteRange
    PROVE  RenderOK'
<1> DEFINE end == IF EndOf(ranges[1]) < Len(Text) THEN EndOf(ranges[1]) ELSE Len(Text)
<1>1. Rendering /\ ranges # <<>> /\ ranges[1].start <= pos /\ ranges' = Tail(ranges)
      /\ WriteUpTo(end, ranges[1].hits)
  <2>1. ranges # <<>> /\ pos >= ranges[1].start  BY DEF WriteRange
  <2>2. ranges[1].start \in Nat /\ pos \in Nat  BY <2>1, RangesTyped DEF RenderOK, SpansOK
  <2> QED  BY <2>1, <2>2 DEF WriteRange
<1>2. /\ 1 \in DOMAIN ranges /\ ranges[1].start \in Nat /\ EndOf(ranges[1]) \in Nat /\ ranges[1].hits \in Nat
      /\ ranges[1].start = pos /\ pos < EndOf(ranges[1]) /\ pos < Len(Text)
      /\ pos \in Nat /\ Len(Text) \in Nat
  <2>1. 1 \in DOMAIN ranges  BY <1>1, RangesTyped
  <2>2. ranges[1].start \in Nat /\ EndOf(ranges[1]) \in Nat /\ ranges[1].hits \in Nat
    BY <2>1, RangesTyped
  <2>3. pos \in Nat /\ Len(Text) \in Nat /\ pos < Len(Text)
    BY <1>1, TextAtHand DEF RenderOK, SpansOK, Rendering
  <2>4. pos <= ranges[1].start /\ ranges[1].start < EndOf(ranges[1])
    BY <2>1 DEF RenderOK, RangesOK
  <2> QED  BY <1>1, <2>1, <2>2, <2>3, <2>4
<1>3. end \in Nat /\ pos < end /\ end <= Len(Text) /\ end <= EndOf(ranges[1])
      /\ (end = EndOf(ranges[1]) \/ end = Len(Text))
  BY <1>2
<1> HIDE DEF end
<1>4. UNCHANGED <<inputs, baseDir, file, todo, currentEnd>> /\ pos' = end
  BY <1>1 DEF WriteUpTo
<1>5. ASSUME NEW b \in Nat, pos <= b, b < end
      PROVE  Colours([from |-> pos, to |-> end, hits |-> ranges[1].hits], file, b)
  <2>1. IsOver(ranges[1], b)  BY <1>2, <1>3, <1>5 DEF IsOver
  <2>2. FirstHits(file, b, ranges[1].hits)  BY <1>2, <2>1 DEF RenderOK, RangesOK
  <2>3. Over(file, b) # {}  BY <2>2 DEF FirstHits, First
  <2> QED  BY <1>5, <2>2, <2>3 DEF Colours
<1>6. SpansOK'  BY <1>1, <1>2, <1>3, <1>5, SpanAdded
<1>7. Resolving' /\ Taken' = Taken  BY <1>4, WriteKeepsResolving
<1>8. RangesOK'
  <2>1. /\ ranges' \in Seq(RangeRecords) /\ Len(ranges') = Len(ranges) - 1
        /\ \A i \in 1..Len(ranges') : ranges'[i] = ranges[i + 1]
    BY <1>1, HeadTailProperties DEF RenderOK, RangesOK
  <2>2. DOMAIN ranges = 1..Len(ranges) /\ DOMAIN ranges' = 1..Len(ranges') /\ Len(ranges) \in Nat
    BY <2>1, RangesTyped, LenProperties
  <2>3. \A i \in DOMAIN ranges' : i \in Nat /\ i + 1 \in DOMAIN ranges /\ 1 < i + 1 /\ ranges'[i] = ranges[i + 1]
    BY <2>1, <2>2
  <2>4. /\ Text' = Text
        /\ \A f, b, hits : FirstHits(f, b, hits)' <=> FirstHits(f, b, hits)
    BY <1>4, SameCoverage, SameFile
  <2>5. \A i \in DOMAIN ranges' : pos' <= ranges'[i].start
    <3> SUFFICES ASSUME NEW i \in DOMAIN ranges' PROVE end <= ranges[i + 1].start
      BY <1>4, <2>3
    <3>1. EndOf(ranges[1]) <= ranges[i + 1].start  BY <1>2, <2>3 DEF RenderOK, RangesOK
    <3>2. ranges[i + 1].start \in Nat  BY <2>3, RangesTyped
    <3> QED  BY <1>2, <1>3, <3>1, <3>2
  <2>6. \A i, j \in DOMAIN ranges' : i < j => EndOf(ranges'[i]) <= ranges'[j].start
    <3> SUFFICES ASSUME NEW i \in DOMAIN ranges', NEW j \in DOMAIN ranges', i < j
                 PROVE  EndOf(ranges[i + 1]) <= ranges[j + 1].start
      BY <2>3
    <3>1. i + 1 < j + 1  BY <2>3
    <3> QED  BY <2>3, <3>1 DEF RenderOK, RangesOK
  <2>7. ASSUME NEW b \in Nat, pos' <= b, b < Len(Text), NEW p \in Taken, IsOver(p, b)
        PROVE  \E i \in DOMAIN ranges' : IsOver(ranges'[i], b)
    <3>1. pos <= b  BY <1>2, <1>3, <1>4, <2>7
    <3>2. PICK k \in DOMAIN ranges : IsOver(ranges[k], b)  BY <2>7, <3>1 DEF RenderOK, RangesOK
    <3>3. k # 1  BY <1>2, <1>3, <1>4, <2>7, <3>2 DEF IsOver
    <3>4. k - 1 \in DOMAIN ranges' /\ ranges'[k - 1] = ranges[k]  BY <2>1, <2>2, <3>3
    <3> QED  BY <3>2, <3>4
  <2> QED  BY <1>4, <1>7, <2>1, <2>3, <2>4, <2>5, <2>6, <2>7 DEF RenderOK, RangesOK
<1> QED  BY <1>6, <1>7, <1>8 DEF RenderOK

\* The section of a text that has been written to its end.
LEMMA WrittenToTheEnd ==
    ASSUME RInv, RenderOK, EndFile, NEW s, s.file = file, s.text = Text, s.spans = written
    PROVE  ColouredOnce(s)
<1>1. pc = "render" /\ pos >= Len(Text)  BY DEF EndFile
<1>2. Len(Text) \in Nat  BY <1>1, TextAtHand
<1>3. pos = Len(Text)  BY <1>1, <1>2 DEF RenderOK, SpansOK
<1>4. \A b \in 0..(Len(s.text) - 1) : \E i \in DOMAIN s.spans :
          /\ s.spans[i].from <= b /\ b < s.spans[i].to
          /\ IF Over(s.file, b) = {} THEN s.spans[i].hits = -1
             ELSE \E p \in First(s.file, b) : s.spans[i].hits = AllPositions(s.file)[p]
  <2> SUFFICES ASSUME NEW b \in 0..(Len(Text) - 1)
               PROVE  \E i \in DOMAIN written : Colours(written[i], file, b)
    BY Zenon DEF Colours, FirstHits
  <2>1. b \in Nat /\ b < pos  BY <1>2, <1>3
  <2> QED  BY <2>1 DEF RenderOK, SpansOK
<1> QED  BY <1>3, <1>4 DEF ColouredOnce, RenderOK, SpansOK

LEMMA BeginHTML ==
    ASSUME RInv', DataOK, FormatFileHTML
    PROVE  RenderOK'
<1>1. /\ pc' = "render" /\ UNCHANGED <<inputs, baseDir>>
      /\ file' = Min(left) /\ todo' = Parsed(AllPositions(Min(left)))
      /\ currentEnd' = 0 /\ ranges' = <<>> /\ pos' = 0 /\ written' = <<>>
  BY DEF FormatFileHTML, Begin
<1>2. AllPositions(file)' = AllPositions(Min(left))
  <2>1. AllPositions(file') = AllPositions(Min(left))  BY <1>1
  <2>2. AllPositions(file)' = AllPositions(file')  BY <1>1 DEF inputs, AllPositions, Of
  <2> QED  BY <2>1, <2>2
<1>3. todo' = Parsed(AllPositions(file))' /\ Taken' = {}  BY <1>1, <1>2 DEF Taken, Parsed
<1>4. Len(Text)' \in Nat
  <2>1. (RInv /\ pc \in {"lines", "render"} => Len(Text) \in Nat)'  BY TextAtHand, PTL
  <2> QED  BY <1>1, <2>1
<1>5. /\ <<>> \in Seq(RangeRecords) /\ <<>> \in Seq(SpanRecords) /\ DOMAIN <<>> = {}
  BY EmptySeq
<1>6. Resolving'  BY <1>1, <1>3 DEF Resolving
<1>7. RangesOK'  BY <1>1, <1>3, <1>5 DEF RangesOK
<1>8. SpansOK'  BY <1>1, <1>4, <1>5 DEF SpansOK
<1> QED  BY <1>6, <1>7, <1>8 DEF RenderOK

LEMMA SameRender ==
    ASSUME RenderOK, UNCHANGED <<inputs, baseDir, file, todo, currentEnd, ranges, pos, written>>
    PROVE  RenderOK'
<1>1. /\ Text' = Text /\ Taken' = Taken /\ Resolving'
      /\ \A f, b, hits : FirstHits(f, b, hits)' <=> FirstHits(f, b, hits)
      /\ \A s, f, b : Colours(s, f, b)' <=> Colours(s, f, b)
  BY SameCoverage, SameFile, WriteKeepsResolving
<1>2. RangesOK'  BY <1>1 DEF RenderOK, RangesOK
<1>3. SpansOK'  BY <1>1 DEF RenderOK, SpansOK
<1> QED  BY <1>1, <1>2, <1>3 DEF RenderOK

\* A section is added that is coloured once if it has a text, or none is.
LEMMA AppendColoured ==
    ASSUME RInv, HInv, Writing, format = "html", UNCHANGED inputs,
           NEW s, out' = Append(out, s), s.text # NoFile => ColouredOnce(s)
    PROVE  (\A i \in DOMAIN out : out[i].text # NoFile => ColouredOnce(out[i]))'
<1>1. /\ DOMAIN out' = DOMAIN out \cup {Len(out) + 1}
      /\ \A i \in DOMAIN out : out'[i] = out[i]
      /\ out'[Len(out) + 1] = s
  BY AppendAny DEF RInv, SectionsOK
<1>2. \A i \in DOMAIN out' : out'[i].text # NoFile => ColouredOnce(out'[i])
  BY <1>1 DEF HInv
<1>3. \A t : ColouredOnce(t)' <=> ColouredOnce(t)  BY SameCoverage
<1> QED  BY <1>2, <1>3

LEMMA HTMLSteps == RInv /\ RInv' /\ HInv /\ [Next]_vars => HInv'
<1> SUFFICES ASSUME RInv, RInv', HInv, [Next]_vars PROVE HInv'
  OBVIOUS
<1>0. \A t : UNCHANGED inputs => (ColouredOnce(t)' <=> ColouredOnce(t))  BY SameCoverage
<1>1. CASE Load \/ CreateFails \/ WriteFails \/ FormatJSON
  BY <1>1 DEF Load, CreateFails, WriteFails, FormatJSON, HInv, Writing, Open, inputs
<1>2. CASE CreateOutput
  <2>1. out' = <<>> /\ pc' = "file"  BY <1>2 DEF CreateOutput
  <2>2. DOMAIN out' = {}  BY <2>1
  <2> QED  BY <2>1, <2>2 DEF HInv
<1>3. CASE EndReport \/ SkipFile
  <2>1. pc = "file" /\ pc' \in {"file", "done"} /\ out' = out /\ UNCHANGED inputs
    BY <1>3 DEF EndReport, SkipFile, FormatsNext
  <2> QED  BY <1>0, <2>1 DEF HInv, Writing, Open, inputs
<1>4. CASE FormatFileLCOV
  <2>1. format = "lcov" /\ format' = format /\ pc' # "render"
    BY <1>4 DEF FormatFileLCOV, FormatsNext, Begin, inputs
  <2> QED  BY <2>1 DEF HInv
<1>5. CASE FormatFileHTML
  <2>1. pc = "file" /\ out' = out /\ UNCHANGED inputs
    BY <1>5 DEF FormatFileHTML, FormatsNext
  <2>2. RenderOK'  BY <1>5, BeginHTML DEF RInv
  <2> QED  BY <1>0, <2>1, <2>2 DEF HInv, Writing, Open, inputs
<1>6. CASE MissingFileHTML
  <2>1. /\ pc = "file" /\ pc' = pc /\ format = "html" /\ UNCHANGED inputs
        /\ out' = Append(out, [file |-> Min(left), text |-> NoFile, spans |-> <<>>])
    BY <1>6 DEF MissingFileHTML, FormatsNext
  <2> DEFINE s == [file |-> Min(left), text |-> NoFile, spans |-> <<>>]
  <2>2. s.text = NoFile /\ out' = Append(out, s)  BY <2>1
  <2> HIDE DEF s
  <2>3. (\A i \in DOMAIN out : out[i].text # NoFile => ColouredOnce(out[i]))'
    BY <2>1, <2>2, AppendColoured DEF Writing
  <2> QED  BY <2>1, <2>3 DEF HInv
<1>7. CASE EndFile
  <2>1. /\ pc = "render" /\ pc' = "file" /\ UNCHANGED inputs
        /\ out' = Append(out, [file |-> file, text |-> Text, spans |-> written])
    BY <1>7 DEF EndFile, End
  <2>2. format = "html" /\ Writing /\ RenderOK  BY <2>1 DEF RInv, HInv, Writing, Open
  <2> DEFINE s == [file |-> file, text |-> Text, spans |-> written]
  <2>3. s.file = file /\ s.text = Text /\ s.spans = written /\ out' = Append(out, s)  BY <2>1
  <2> HIDE DEF s
  <2>4. ColouredOnce(s)  BY <1>7, <2>2, <2>3, WrittenToTheEnd
  <2>5. (\A i \in DOMAIN out : out[i].text # NoFile => ColouredOnce(out[i]))'
    BY <2>1, <2>2, <2>3, <2>4, AppendColoured
  <2> QED  BY <2>1, <2>5 DEF HInv
<1>8. CASE (\E p \in todo : ResolveRange(p)) \/ WriteUncovered \/ WriteRange \/ WriteRest
  <2>1. pc = "render" /\ pc' = pc /\ out' = out /\ UNCHANGED inputs
    BY <1>8 DEF ResolveRange, WriteUncovered, WriteRange, WriteRest, WriteUpTo, Rendering
  <2>2. RenderOK'
    BY <1>8, <2>1, ResolveKeeps, WriteUncoveredKeeps, WriteRangeKeeps, WriteRestKeeps DEF HInv
  <2> QED  BY <1>0, <2>1, <2>2 DEF HInv, Writing, Open, inputs
<1>9. CASE \/ \E p \in todo : ConvertPosition(p) \/ WritePosition(p)
           \/ WriteLine \/ EndLines \/ EndPositions
  <2>1. pc \in {"lines", "positions"} /\ pc' # "render" /\ format' = format
    BY <1>9 DEF ConvertPosition, WritePosition, WriteLine, EndLines, EndPositions, End, inputs
  <2> QED  BY <2>1 DEF HInv, RInv
<1>10. CASE Finished \/ UNCHANGED vars
  <2>1. UNCHANGED vars  BY <1>10 DEF Finished
  <2>2. /\ UNCHANGED <<pc, out, inputs>>
        /\ UNCHANGED <<inputs, baseDir, file, todo, currentEnd, ranges, pos, written>>
    BY <2>1 DEF vars, section, html
  <2>3. pc = "render" => RenderOK'  BY <2>2, SameRender DEF HInv
  <2> QED  BY <1>0, <2>2, <2>3 DEF HInv, Writing, Open, inputs
<1> QED
  BY <1>1, <1>2, <1>3, <1>4, <1>5, <1>6, <1>7, <1>8, <1>9, <1>10 DEF Next, FormatLCOV, FormatHTML

\* For any coverage and any texts, however many files and positions there are and however
\* they nest and overlap: a finished HTML report has a section for each file, in order, that
\* shows each byte once, in order, with the count of the position over it that starts first.
THEOREM BytesColouredOnce == Spec => []HTMLColoursEveryByteOnce
<1>1. Init => HInv  BY DEF Init, HInv, Writing, Open
<1>2. RInv /\ HInv => HTMLColoursEveryByteOnce
  <2> SUFFICES ASSUME RInv, HInv, Is("html") PROVE SectionsOf(Files) /\ \A s \in ToSet(out) : s.text # NoFile => ColouredOnce(s)
    BY DEF HTMLColoursEveryByteOnce
  <2>1. pc = "done" /\ format = "html" /\ Writing  BY DEF Is, Writing
  <2>2. SectionsOf(Files)  BY <2>1, RightSections DEF Wanted
  <2>3. \A s \in ToSet(out) : s.text # NoFile => ColouredOnce(s)  BY <2>1 DEF HInv, ToSet
  <2> QED  BY <2>2, <2>3
<1> QED
  BY <1>1, <1>2, InitInvariant, StepInvariant, HTMLSteps, PTL DEF Spec

-----------------------------------------------------------------------------
(* LCOV: counting                                                           *)

LEMMA ImageFinite ==
    ASSUME NEW S, IsFiniteSet(S), NEW f
    PROVE  IsFiniteSet({f[a] : a \in S})
<1> DEFINE T == {f[a] : a \in S}
           g == [a \in S |-> f[a]]
<1>1. g \in Surjection(S, T)  BY DEF Surjection
<1> QED  BY <1>1, FS_Surjection

LEMMA LineIsNumber ==
    ASSUME NEW text, NEW n \in Nat
    PROVE  LineOf(text, n) \in Nat
<1>1. IsFiniteSet(1..n)  BY FS_Interval
<1>2. {i \in 1..n : text[i] = "\n"} \in SUBSET (1..n)  OBVIOUS
<1>3. IsFiniteSet({i \in 1..n : text[i] = "\n"})  BY <1>1, <1>2, FS_Subset
<1>4. Cardinality({i \in 1..n : text[i] = "\n"}) \in Nat  BY <1>3, FS_CardinalityType
<1> QED  BY <1>4 DEF LineOf

\* The hits of one position, as the set that Hits counts them with.
HitsOf(p) == {p} \X (1..stored.positions[p])

LEMMA HitsOfOne ==
    ASSUME DataOK, NEW p \in DOMAIN stored.positions
    PROVE  IsFiniteSet(HitsOf(p)) /\ Cardinality(HitsOf(p)) = stored.positions[p]
<1>1. stored.positions[p] \in Nat  BY DEF DataOK
<1>2. IsFiniteSet(1..stored.positions[p]) /\ Cardinality(1..stored.positions[p]) = stored.positions[p]
  BY <1>1, FS_Interval, SMTT(30)
<1>3. IsFiniteSet({p}) /\ Cardinality({p}) = 1  BY FS_Singleton
<1> QED  BY <1>1, <1>2, <1>3, FS_Product DEF HitsOf

LEMMA HitsFinite ==
    ASSUME DataOK, NEW S \in SUBSET DOMAIN stored.positions
    PROVE  /\ IsFiniteSet(UNION {HitsOf(p) : p \in S})
           /\ Hits(S) = Cardinality(UNION {HitsOf(p) : p \in S})
           /\ Hits(S) \in Nat
<1>1. IsFiniteSet(S)  BY FS_Subset DEF DataOK
<1> DEFINE f == [p \in S |-> HitsOf(p)]
<1>2. {f[p] : p \in S} = {HitsOf(p) : p \in S}  OBVIOUS
<1>3. IsFiniteSet({f[p] : p \in S})  BY <1>1, ImageFinite
<1> HIDE DEF f
<1>4. IsFiniteSet({HitsOf(p) : p \in S})  BY <1>2, <1>3
<1>5. \A T \in {HitsOf(p) : p \in S} : IsFiniteSet(T)  BY HitsOfOne
<1>6. IsFiniteSet(UNION {HitsOf(p) : p \in S})  BY <1>4, <1>5, FS_UNION
<1>7. Hits(S) = Cardinality(UNION {HitsOf(p) : p \in S})  BY DEF Hits, HitsOf
<1> QED  BY <1>6, <1>7, FS_CardinalityType

LEMMA NoHitsAtAll == Hits({}) = 0
<1>1. UNION {{p} \X (1..stored.positions[p]) : p \in {}} = {}  OBVIOUS
<1> QED  BY <1>1, FS_EmptySet DEF Hits

LEMMA HitsOfOneMore ==
    ASSUME DataOK, NEW S \in SUBSET DOMAIN stored.positions,
           NEW p \in DOMAIN stored.positions, p \notin S
    PROVE  Hits(S \cup {p}) = Hits(S) + stored.positions[p]
<1> DEFINE U == UNION {HitsOf(q) : q \in S}
<1>1. UNION {HitsOf(q) : q \in S \cup {p}} = U \cup HitsOf(p)  OBVIOUS
<1>2. U \cap HitsOf(p) = {}  BY DEF HitsOf
<1>3. IsFiniteSet(U) /\ Hits(S) = Cardinality(U) /\ Hits(S) \in Nat  BY HitsFinite
<1>4. IsFiniteSet(HitsOf(p)) /\ Cardinality(HitsOf(p)) = stored.positions[p] /\ stored.positions[p] \in Nat
  BY HitsOfOne DEF DataOK
<1>5. Hits(S \cup {p}) = Cardinality(U \cup HitsOf(p))
  <2>1. S \cup {p} \in SUBSET DOMAIN stored.positions  OBVIOUS
  <2>2. Hits(S \cup {p}) = Cardinality(UNION {HitsOf(q) : q \in S \cup {p}})  BY <2>1, HitsFinite
  <2> QED  BY <1>1, <2>2
<1> HIDE DEF U
<1>6. Cardinality(U \cup HitsOf(p)) = Cardinality(U) + Cardinality(HitsOf(p)) - Cardinality(U \cap HitsOf(p))
  BY <1>3, <1>4, FS_Union
<1>7. Cardinality(U \cap HitsOf(p)) = 0  BY <1>2, FS_EmptySet
<1> QED  BY <1>3, <1>4, <1>5, <1>6, <1>7

-----------------------------------------------------------------------------
(* LCOV: the inductive invariant                                            *)

\* Each line has the hits of the positions on it that have been converted; the lines that
\* are written are in order, before those that are left, and with their hits.
LinesOK ==
    /\ todo \subseteq Parsed(Of(stored.positions, file))
    /\ DOMAIN lineHits = {LineOf(Text, p.start) : p \in InText(file, Text) \ todo}
    /\ \A l \in DOMAIN lineHits : lineHits[l] = Hits(OnLine(file, Text, l) \ todo)
    /\ written \in Seq(Nat \X Nat)
    /\ todo # {} => written = <<>>
    /\ \A i \in DOMAIN written : /\ written[i][1] \in DOMAIN lineHits
                                 /\ written[i][2] = lineHits[written[i][1]]
                                 /\ \A l \in LinesLeft : written[i][1] < l
    /\ \A i, j \in DOMAIN written : i < j => written[i][1] < written[j][1]

LcovInv ==
    /\ pc = "lines" => LinesOK
    /\ Writing /\ format = "lcov" =>
           \A i \in DOMAIN out : out[i].text # NoFile => AccountsForHits(out[i])

LEMMA ExecutableTyped ==
    ASSUME DataOK, NEW f
    PROVE  /\ Parsed(Of(stored.positions, f)) \subseteq DOMAIN stored.positions
           /\ \A p \in Parsed(Of(stored.positions, f)) : p.start \in Nat
           /\ \A text : InText(f, text) \subseteq Parsed(Of(stored.positions, f))
           /\ \A text, l : OnLine(f, text, l) \subseteq InText(f, text)
<1>1. DOMAIN Of(stored.positions, f) = {p \in DOMAIN stored.positions : p.file = f}  BY OfFile
<1>2. \A p \in Parsed(Of(stored.positions, f)) :
          p \in DOMAIN stored.positions /\ p.start >= 0
  BY <1>1 DEF Parsed
<1>3. \A p \in DOMAIN stored.positions : p.start \in Int  BY DEF DataOK
<1>4. \A p \in Parsed(Of(stored.positions, f)) : p.start \in Nat  BY <1>2, <1>3
<1> QED  BY <1>2, <1>4 DEF InText, OnLine

LEMMA SameLines ==
    ASSUME UNCHANGED inputs
    PROVE  /\ \A f : Parsed(Of(stored.positions, f))' = Parsed(Of(stored.positions, f))
           /\ \A f, text : InText(f, text)' = InText(f, text)
           /\ \A f, text, l : OnLine(f, text, l)' = OnLine(f, text, l)
           /\ \A S : Hits(S)' = Hits(S)
           /\ \A s : AccountsForHits(s)' <=> AccountsForHits(s)
<1>1. \A f : Parsed(Of(stored.positions, f))' = Parsed(Of(stored.positions, f))
  BY DEF inputs, Parsed, Of
<1>2. \A f, text : InText(f, text)' = InText(f, text)  BY <1>1 DEF InText
<1>3. \A f, text, l : OnLine(f, text, l)' = OnLine(f, text, l)  BY <1>2 DEF OnLine, LineOf
<1>4. \A S : Hits(S)' = Hits(S)  BY DEF inputs, Hits
<1>5. \A s : AccountsForHits(s)' <=> AccountsForHits(s)
  BY <1>2, <1>3, <1>4, Zenon DEF AccountsForHits, LineOf
<1> QED  BY <1>1, <1>2, <1>3, <1>4, <1>5

\* Lines are numbers.
LEMMA LinesTyped ==
    ASSUME RInv, pc = "lines", LinesOK
    PROVE  DOMAIN lineHits \subseteq Nat /\ \A l \in DOMAIN lineHits : lineHits[l] \in Nat
<1>1. \A p \in InText(file, Text) : p.start \in Nat /\ LineOf(Text, p.start) \in Nat
  BY ExecutableTyped, LineIsNumber DEF RInv
<1>2. \A l : OnLine(file, Text, l) \ todo \in SUBSET DOMAIN stored.positions
  BY ExecutableTyped DEF RInv
<1>3. \A l : Hits(OnLine(file, Text, l) \ todo) \in Nat  BY <1>2, HitsFinite DEF RInv
<1> QED  BY <1>1, <1>3 DEF LinesOK

-----------------------------------------------------------------------------
(* LCOV: the steps                                                          *)

LEMMA SameRecord ==
    ASSUME UNCHANGED <<inputs, baseDir, file>>
    PROVE  /\ Text' = Text
           /\ Parsed(Of(stored.positions, file))' = Parsed(Of(stored.positions, file))
           /\ InText(file, Text)' = InText(file, Text)
           /\ \A l : OnLine(file, Text, l)' = OnLine(file, Text, l)
           /\ \A S : Hits(S)' = Hits(S)
<1>1. Text' = Text  BY SameFile
<1>2. /\ \A f : Parsed(Of(stored.positions, f))' = Parsed(Of(stored.positions, f))
      /\ \A f, text : InText(f, text)' = InText(f, text)
      /\ \A f, text, l : OnLine(f, text, l)' = OnLine(f, text, l)
      /\ \A S : Hits(S)' = Hits(S)
  BY SameLines
<1>3. file' = file  OBVIOUS
<1> QED  BY <1>1, <1>2, <1>3

LEMMA ConvertKeeps ==
    ASSUME RInv, LinesOK, NEW p \in todo, ConvertPosition(p)
    PROVE  LinesOK'
<1> DEFINE line == LineOf(Text, p.start)
           On(l) == OnLine(file, Text, l)
<1>1. /\ pc = "lines" /\ todo' = todo \ {p} /\ written' = written
      /\ UNCHANGED <<inputs, baseDir, file>>
      /\ lineHits' = IF p.start <= Len(Text)
                     THEN SetHits(lineHits, line, HitsAt(lineHits, line) + stored.positions[p])
                     ELSE lineHits
  BY DEF ConvertPosition, AddHits
<1>2. DataOK /\ p \in Parsed(Of(stored.positions, file)) /\ p \in DOMAIN stored.positions
  BY ExecutableTyped DEF RInv, LinesOK
<1>3. /\ Text' = Text
      /\ Parsed(Of(stored.positions, file))' = Parsed(Of(stored.positions, file))
      /\ InText(file, Text)' = InText(file, Text)
      /\ \A l : OnLine(file, Text, l)' = On(l)
      /\ \A S : Hits(S)' = Hits(S)
  BY <1>1, SameRecord
<1>4. written = <<>> /\ DOMAIN written = {}
  <2>1. written = <<>>  BY DEF LinesOK
  <2> QED  BY <2>1
<1>5. \A l : /\ On(l) \ todo \in SUBSET DOMAIN stored.positions
             /\ Hits(On(l) \ todo) \in Nat
             /\ l \notin DOMAIN lineHits => On(l) \ todo = {}
  <2>1. \A l : On(l) \ todo \in SUBSET DOMAIN stored.positions  BY <1>2, ExecutableTyped
  <2>2. \A l : Hits(On(l) \ todo) \in Nat  BY <1>2, <2>1, HitsFinite
  <2>3. ASSUME NEW l, NEW q \in On(l) \ todo PROVE l \in DOMAIN lineHits
    <3>1. q \in InText(file, Text) \ todo /\ LineOf(Text, q.start) = l  BY <2>3 DEF OnLine
    <3> QED  BY <3>1 DEF LinesOK
  <2> QED  BY <2>1, <2>2, <2>3
<1>6. /\ DOMAIN lineHits' = {LineOf(Text, q.start) : q \in InText(file, Text) \ todo'}
      /\ \A l \in DOMAIN lineHits' : lineHits'[l] = Hits(On(l) \ todo')
  <2>1. CASE ~(p.start <= Len(Text))
    <3>1. p \notin InText(file, Text)  BY <2>1 DEF InText
    <3>2. \A l : p \notin On(l)  BY <3>1 DEF OnLine
    <3>3. InText(file, Text) \ todo' = InText(file, Text) \ todo  BY <1>1, <3>1
    <3>4. \A l : On(l) \ todo' = On(l) \ todo  BY <1>1, <3>2
    <3> QED  BY <1>1, <2>1, <3>3, <3>4 DEF LinesOK
  <2>2. CASE p.start <= Len(Text)
    <3>1. p \in InText(file, Text) /\ p \in On(line)  BY <1>2, <2>2 DEF InText, OnLine
    <3>2. \A l : l # line => p \notin On(l)  BY DEF OnLine
    <3>3. InText(file, Text) \ todo' = (InText(file, Text) \ todo) \cup {p}  BY <1>1, <3>1
    <3>4. \A l : l # line => On(l) \ todo' = On(l) \ todo  BY <1>1, <3>2
    <3>5. On(line) \ todo' = (On(line) \ todo) \cup {p} /\ p \notin On(line) \ todo  BY <1>1, <3>1
    <3>6. Hits(On(line) \ todo') = Hits(On(line) \ todo) + stored.positions[p]
      BY <1>2, <1>5, <3>5, HitsOfOneMore
    <3>7. HitsAt(lineHits, line) = Hits(On(line) \ todo)
      <4>1. CASE line \in DOMAIN lineHits  BY <4>1 DEF HitsAt, LinesOK
      <4>2. CASE line \notin DOMAIN lineHits
        <5>1. On(line) \ todo = {}  BY <1>5, <4>2
        <5> QED  BY <4>2, <5>1, NoHitsAtAll DEF HitsAt
      <4> QED  BY <4>1, <4>2
    <3> HIDE DEF line, On
    <3>8. /\ DOMAIN lineHits' = DOMAIN lineHits \cup {line}
          /\ \A l \in DOMAIN lineHits' :
                lineHits'[l] = IF l = line THEN HitsAt(lineHits, line) + stored.positions[p] ELSE lineHits[l]
      BY <1>1, <2>2 DEF SetHits
    <3>9. \A l \in DOMAIN lineHits : lineHits[l] = Hits(On(l) \ todo)  BY DEF LinesOK, On
    <3>10. \A l \in DOMAIN lineHits' : lineHits'[l] = Hits(On(l) \ todo')
      BY <3>4, <3>6, <3>7, <3>8, <3>9
    <3>11. DOMAIN lineHits' = {LineOf(Text, q.start) : q \in InText(file, Text) \ todo'}
      BY <3>3, <3>8 DEF LinesOK, line
    <3> QED  BY <3>10, <3>11
  <2> QED  BY <2>1, <2>2
<1>7. todo' \subseteq Parsed(Of(stored.positions, file))'  BY <1>1, <1>3 DEF LinesOK
<1>8. DOMAIN lineHits' = {LineOf(Text, q.start) : q \in InText(file, Text) \ todo}'
  BY <1>3, <1>6 DEF LineOf
<1>9. (\A l \in DOMAIN lineHits : lineHits[l] = Hits(OnLine(file, Text, l) \ todo))'
  BY <1>3, <1>6
<1> QED  BY <1>1, <1>4, <1>7, <1>8, <1>9 DEF LinesOK

LEMMA WriteLineKeeps ==
    ASSUME RInv, LinesOK, WriteLine
    PROVE  LinesOK'
<1> DEFINE m == Min(LinesLeft)
           da == <<m, lineHits[m]>>
<1>1. /\ pc = "lines" /\ todo = {} /\ LinesLeft # {} /\ written' = Append(written, da)
      /\ UNCHANGED <<inputs, baseDir, file, todo, lineHits>>
  BY DEF WriteLine
<1>2. /\ Text' = Text
      /\ Parsed(Of(stored.positions, file))' = Parsed(Of(stored.positions, file))
      /\ InText(file, Text)' = InText(file, Text)
      /\ \A l : OnLine(file, Text, l)' = OnLine(file, Text, l)
      /\ \A S : Hits(S)' = Hits(S)
  BY <1>1, SameRecord
<1>3. LinesLeft \in SUBSET Nat /\ LinesLeft \subseteq DOMAIN lineHits  BY <1>1, LinesTyped DEF LinesLeft
<1>4. m \in LinesLeft /\ \A l \in LinesLeft : m <= l  BY <1>1, <1>3, LeastNumber
<1>5. m \in Nat /\ m \in DOMAIN lineHits /\ lineHits[m] \in Nat  BY <1>1, <1>3, <1>4, LinesTyped
<1>6. da \in Nat \X Nat /\ da[1] = m /\ da[2] = lineHits[m]  BY <1>5
<1> HIDE DEF m, da
<1>7. /\ written' \in Seq(Nat \X Nat)
      /\ Len(written) \in Nat /\ \A i \in DOMAIN written : i \in Nat /\ i < Len(written) + 1
      /\ DOMAIN written' = DOMAIN written \cup {Len(written) + 1}
      /\ \A i \in DOMAIN written : written'[i] = written[i]
      /\ written'[Len(written) + 1] = da
  BY <1>1, <1>6, AppendAt DEF LinesOK
<1>8. LinesLeft' = LinesLeft \ {m}
  <2>1. ToSet(written') = ToSet(written) \cup {da}  BY <1>7 DEF ToSet
  <2> QED  BY <1>1, <1>6, <2>1 DEF LinesLeft
<1>9. \A i \in DOMAIN written' : /\ written'[i][1] \in DOMAIN lineHits
                                 /\ written'[i][2] = lineHits[written'[i][1]]
                                 /\ \A l \in LinesLeft' : written'[i][1] < l
  <2> SUFFICES ASSUME NEW i \in DOMAIN written'
               PROVE  /\ written'[i][1] \in DOMAIN lineHits
                      /\ written'[i][2] = lineHits[written'[i][1]]
                      /\ \A l \in LinesLeft' : written'[i][1] < l
    OBVIOUS
  <2>1. CASE i \in DOMAIN written  BY <1>7, <1>8, <2>1 DEF LinesOK
  <2>2. CASE i = Len(written) + 1
    <3>1. written'[i] = da  BY <1>7, <2>2
    <3>2. \A l \in LinesLeft' : m < l
      <4> SUFFICES ASSUME NEW l \in LinesLeft' PROVE m < l
        OBVIOUS
      <4>1. l \in Nat /\ m <= l /\ l # m  BY <1>3, <1>4, <1>8
      <4> QED  BY <1>5, <4>1
    <3> QED  BY <1>5, <1>6, <3>1, <3>2
  <2> QED  BY <1>7, <2>1, <2>2
<1>10. ASSUME NEW i \in DOMAIN written', NEW j \in DOMAIN written', i < j
       PROVE  written'[i][1] < written'[j][1]
  <2>1. i \in DOMAIN written  BY <1>7, <1>10
  <2>2. CASE j \in DOMAIN written  BY <1>7, <1>10, <2>1, <2>2 DEF LinesOK
  <2>3. CASE j = Len(written) + 1
    <3>1. written'[i] = written[i] /\ written'[j] = da  BY <1>7, <2>1, <2>3
    <3>2. written[i][1] < m  BY <1>4, <2>1 DEF LinesOK
    <3> QED  BY <1>6, <3>1, <3>2
  <2> QED  BY <1>7, <2>2, <2>3
<1>11. (DOMAIN lineHits = {LineOf(Text, q.start) : q \in InText(file, Text) \ todo})'
  BY <1>1, <1>2 DEF LinesOK, LineOf
<1>12. (\A l \in DOMAIN lineHits : lineHits[l] = Hits(OnLine(file, Text, l) \ todo))'
  BY <1>1, <1>2 DEF LinesOK
<1>13. (todo \subseteq Parsed(Of(stored.positions, file)))' /\ todo' = {}
  BY <1>1, <1>2 DEF LinesOK
<1> QED  BY <1>1, <1>7, <1>9, <1>10, <1>11, <1>12, <1>13 DEF LinesOK

\* A record that has all its lines.
LEMMA AllLinesWritten ==
    ASSUME RInv, LinesOK, todo = {}, LinesLeft = {},
           NEW s, s.file = file, s.text = Text, s.lines = written,
           s.found = Cardinality(DOMAIN lineHits), s.hit = Covered(lineHits)
    PROVE  AccountsForHits(s)
<1> DEFINE listed == {l[1] : l \in ToSet(s.lines)}
<1>1. listed = DOMAIN lineHits
  <2>1. DOMAIN lineHits \subseteq listed  BY DEF LinesLeft
  <2>2. \A l \in ToSet(written) : l[1] \in DOMAIN lineHits  BY DEF ToSet, LinesOK
  <2> QED  BY <2>1, <2>2
<1>2. DOMAIN lineHits = {LineOf(s.text, p.start) : p \in InText(s.file, s.text)}
  <2>1. InText(file, Text) \ todo = InText(file, Text)  OBVIOUS
  <2> QED  BY <2>1 DEF LinesOK
<1>3. \A l \in DOMAIN lineHits : lineHits[l] = Hits(OnLine(s.file, s.text, l))
  <2>1. \A l : OnLine(file, Text, l) \ todo = OnLine(file, Text, l)  OBVIOUS
  <2> QED  BY <2>1 DEF LinesOK
<1>4. \A l \in ToSet(s.lines) : l[2] = Hits(OnLine(s.file, s.text, l[1]))
  <2>1. \A l \in ToSet(written) : l[1] \in DOMAIN lineHits /\ l[2] = lineHits[l[1]]
    BY DEF ToSet, LinesOK
  <2> QED  BY <1>3, <2>1
<1>5. s.hit = Cardinality({l \in listed : Hits(OnLine(s.file, s.text, l)) > 0})
  <2>1. {l \in DOMAIN lineHits : lineHits[l] > 0}
           = {l \in listed : Hits(OnLine(s.file, s.text, l)) > 0}
    BY <1>1, <1>3
  <2> QED  BY <2>1 DEF Covered
<1>6. \A i, j \in DOMAIN s.lines : i < j => s.lines[i][1] < s.lines[j][1]  BY DEF LinesOK
<1> QED  BY <1>1, <1>2, <1>4, <1>5, <1>6 DEF AccountsForHits

LEMMA BeginLCOV ==
    ASSUME FormatFileLCOV, pc' = "lines"
    PROVE  LinesOK'
<1>1. /\ UNCHANGED <<inputs, baseDir>>
      /\ file' = Min(left) /\ todo' = Parsed(Of(stored.positions, Min(left)))
      /\ lineHits' = NoHits /\ written' = <<>>
  BY DEF FormatFileLCOV, Begin
<1>2. Parsed(Of(stored.positions, file))' = todo'
  <2>1. \A f : Parsed(Of(stored.positions, f))' = Parsed(Of(stored.positions, f))  BY <1>1, SameLines
  <2>2. Parsed(Of(stored.positions, file))' = Parsed(Of(stored.positions, file'))
    BY <1>1 DEF inputs, Parsed, Of
  <2> QED  BY <1>1, <2>2
<1>3. (InText(file, Text) \ todo)' = {}  BY <1>2 DEF InText
<1>4. DOMAIN lineHits' = {}  BY <1>1 DEF NoHits
<1>5. <<>> \in Seq(Nat \X Nat) /\ DOMAIN <<>> = {}  BY EmptySeq
<1>6. (DOMAIN lineHits = {LineOf(Text, q.start) : q \in InText(file, Text) \ todo})'
  BY <1>3, <1>4
<1> QED  BY <1>1, <1>2, <1>4, <1>5, <1>6 DEF LinesOK

LEMMA SameLinesOK ==
    ASSUME LinesOK, UNCHANGED <<inputs, baseDir, file, todo, lineHits, written>>
    PROVE  LinesOK'
<1>1. /\ Text' = Text
      /\ Parsed(Of(stored.positions, file))' = Parsed(Of(stored.positions, file))
      /\ InText(file, Text)' = InText(file, Text)
      /\ \A l : OnLine(file, Text, l)' = OnLine(file, Text, l)
      /\ \A S : Hits(S)' = Hits(S)
  BY SameRecord
<1>2. LinesLeft' = LinesLeft  BY DEF LinesLeft
<1>3. (DOMAIN lineHits = {LineOf(Text, q.start) : q \in InText(file, Text) \ todo})'
  BY <1>1 DEF LinesOK, LineOf
<1>4. (\A l \in DOMAIN lineHits : lineHits[l] = Hits(OnLine(file, Text, l) \ todo))'
  BY <1>1 DEF LinesOK
<1>5. (todo \subseteq Parsed(Of(stored.positions, file)))'  BY <1>1 DEF LinesOK
<1> QED  BY <1>1, <1>2, <1>3, <1>4, <1>5 DEF LinesOK

\* A record is added that accounts for all hits if it has a text.
LEMMA AppendAccounted ==
    ASSUME RInv, LcovInv, Writing, format = "lcov", UNCHANGED inputs,
           NEW s, out' = Append(out, s), s.text # NoFile => AccountsForHits(s)
    PROVE  (\A i \in DOMAIN out : out[i].text # NoFile => AccountsForHits(out[i]))'
<1>1. /\ DOMAIN out' = DOMAIN out \cup {Len(out) + 1}
      /\ \A i \in DOMAIN out : out'[i] = out[i]
      /\ out'[Len(out) + 1] = s
  BY AppendAny DEF RInv, SectionsOK
<1>2. \A i \in DOMAIN out' : out'[i].text # NoFile => AccountsForHits(out'[i])
  BY <1>1 DEF LcovInv
<1>3. \A t : AccountsForHits(t)' <=> AccountsForHits(t)  BY SameLines
<1> QED  BY <1>2, <1>3

LEMMA LCOVSteps == RInv /\ RInv' /\ LcovInv /\ [Next]_vars => LcovInv'
<1> SUFFICES ASSUME RInv, RInv', LcovInv, [Next]_vars PROVE LcovInv'
  OBVIOUS
<1>0. \A t : UNCHANGED inputs => (AccountsForHits(t)' <=> AccountsForHits(t))  BY SameLines
<1>1. CASE Load \/ CreateFails \/ WriteFails \/ FormatJSON
  BY <1>1 DEF Load, CreateFails, WriteFails, FormatJSON, LcovInv, Writing, Open, inputs
<1>2. CASE CreateOutput
  <2>1. out' = <<>> /\ pc' = "file"  BY <1>2 DEF CreateOutput
  <2>2. DOMAIN out' = {}  BY <2>1
  <2> QED  BY <2>1, <2>2 DEF LcovInv
<1>3. CASE EndReport \/ SkipFile
  <2>1. pc = "file" /\ pc' \in {"file", "done"} /\ out' = out /\ UNCHANGED inputs
    BY <1>3 DEF EndReport, SkipFile, FormatsNext
  <2> QED  BY <1>0, <2>1 DEF LcovInv, Writing, Open, inputs
<1>4. CASE FormatFileLCOV
  <2>1. pc = "file" /\ out' = out /\ UNCHANGED inputs
    BY <1>4 DEF FormatFileLCOV, FormatsNext
  <2>2. pc' = "lines" => LinesOK'  BY <1>4, BeginLCOV
  <2> QED  BY <1>0, <2>1, <2>2 DEF LcovInv, Writing, Open, inputs
<1>5. CASE FormatFileHTML \/ MissingFileHTML
  <2>1. format = "html" /\ format' = format
    BY <1>5 DEF FormatFileHTML, MissingFileHTML, FormatsNext, inputs
  <2> QED  BY <2>1 DEF LcovInv, RInv
<1>6. CASE EndLines
  <2>1. /\ pc = "lines" /\ pc' = "file" /\ todo = {} /\ LinesLeft = {} /\ UNCHANGED inputs
        /\ out' = Append(out, [file |-> file, text |-> Text, lines |-> written,
                               found |-> Cardinality(DOMAIN lineHits), hit |-> Covered(lineHits)])
    BY <1>6 DEF EndLines, End
  <2>2. format = "lcov" /\ Writing /\ LinesOK  BY <2>1 DEF RInv, LcovInv, Writing, Open
  <2> DEFINE s == [file |-> file, text |-> Text, lines |-> written,
                   found |-> Cardinality(DOMAIN lineHits), hit |-> Covered(lineHits)]
  <2>3. /\ s.file = file /\ s.text = Text /\ s.lines = written /\ out' = Append(out, s)
        /\ s.found = Cardinality(DOMAIN lineHits) /\ s.hit = Covered(lineHits)
    BY <2>1
  <2> HIDE DEF s
  <2>4. AccountsForHits(s)  BY <2>1, <2>2, <2>3, AllLinesWritten
  <2>5. (\A i \in DOMAIN out : out[i].text # NoFile => AccountsForHits(out[i]))'
    BY <2>1, <2>2, <2>3, <2>4, AppendAccounted
  <2> QED  BY <2>1, <2>5 DEF LcovInv
<1>7. CASE EndPositions
  <2>1. /\ pc = "positions" /\ pc' = "file" /\ UNCHANGED inputs
        /\ \E n, m : out' = Append(out, [file |-> file, text |-> NoFile, lines |-> written,
                                         found |-> n, hit |-> m])
    BY <1>7 DEF EndPositions, End
  <2>2. PICK n, m : out' = Append(out, [file |-> file, text |-> NoFile, lines |-> written,
                                        found |-> n, hit |-> m])
    BY <2>1
  <2>3. format = "lcov" /\ Writing  BY <2>1 DEF RInv, Writing, Open
  <2> DEFINE s == [file |-> file, text |-> NoFile, lines |-> written, found |-> n, hit |-> m]
  <2>4. s.text = NoFile /\ out' = Append(out, s)  BY <2>2
  <2> HIDE DEF s
  <2>5. (\A i \in DOMAIN out : out[i].text # NoFile => AccountsForHits(out[i]))'
    BY <2>1, <2>3, <2>4, AppendAccounted
  <2> QED  BY <2>1, <2>5 DEF LcovInv
<1>8. CASE (\E p \in todo : ConvertPosition(p) \/ WritePosition(p)) \/ WriteLine
  <2>1. pc \in {"lines", "positions"} /\ pc' = pc /\ out' = out /\ UNCHANGED inputs
    BY <1>8 DEF ConvertPosition, WritePosition, WriteLine
  <2>2. pc = "lines" => LinesOK'
    <3> SUFFICES ASSUME pc = "lines" PROVE LinesOK'
      OBVIOUS
    <3>1. \A p \in todo : ~WritePosition(p)  BY DEF WritePosition
    <3> QED  BY <1>8, <3>1, ConvertKeeps, WriteLineKeeps DEF LcovInv
  <2> QED  BY <1>0, <2>1, <2>2 DEF LcovInv, Writing, Open, inputs
<1>9. CASE \/ \E p \in todo : ResolveRange(p)
           \/ WriteUncovered \/ WriteRange \/ WriteRest \/ EndFile
  <2>1. pc = "render" /\ format' = format
    BY <1>9 DEF ResolveRange, WriteUncovered, WriteRange, WriteRest, WriteUpTo, Rendering, EndFile, inputs
  <2> QED  BY <2>1 DEF LcovInv, RInv
<1>10. CASE Finished \/ UNCHANGED vars
  <2>1. UNCHANGED vars  BY <1>10 DEF Finished
  <2>2. UNCHANGED <<pc, out, inputs>> /\ UNCHANGED <<inputs, baseDir, file, todo, lineHits, written>>
    BY <2>1 DEF vars, section
  <2>3. pc = "lines" => LinesOK'  BY <2>2, SameLinesOK DEF LcovInv
  <2> QED  BY <1>0, <2>2, <2>3 DEF LcovInv, Writing, Open, inputs
<1> QED
  BY <1>1, <1>2, <1>3, <1>4, <1>5, <1>6, <1>7, <1>8, <1>9, <1>10 DEF Next, FormatLCOV, FormatHTML

\* For any coverage and any texts, however many files, lines and positions there are: a
\* finished LCOV report has a record for each file with something executable, in order, that
\* lists each line once with the hits of all the positions on it, and counts them rightly.
THEOREM HitsAccountedFor == Spec => []LCOVAccountsForEveryHit
<1>1. Init => LcovInv  BY DEF Init, LcovInv, Writing, Open
<1>2. RInv /\ LcovInv => LCOVAccountsForEveryHit
  <2> SUFFICES ASSUME RInv, LcovInv, Is("lcov")
               PROVE  /\ SectionsOf({p.file : p \in DOMAIN stored.positions})
                      /\ \A s \in ToSet(out) : s.text # NoFile => AccountsForHits(s)
    BY DEF LCOVAccountsForEveryHit
  <2>1. pc = "done" /\ format = "lcov" /\ Writing  BY DEF Is, Writing
  <2>2. SectionsOf({p.file : p \in DOMAIN stored.positions})  BY <2>1, RightSections DEF Wanted
  <2>3. \A s \in ToSet(out) : s.text # NoFile => AccountsForHits(s)  BY <2>1 DEF LcovInv, ToSet
  <2> QED  BY <2>2, <2>3
<1> QED
  BY <1>1, <1>2, InitInvariant, StepInvariant, LCOVSteps, PTL DEF Spec
=============================================================================
