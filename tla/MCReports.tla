------------------------------ MODULE MCReports ------------------------------
(***************************************************************************)
(* Reports for TLC: a first file with up to four executable positions      *)
(* that touch, nest, overlap, share their start, are empty, reach beyond   *)
(* the text or have a bad key, and an implicit one; a second file that is  *)
(* absent, only implicit, or executable.                                   *)
(***************************************************************************)
EXTENDS Reports

At(f, s, l) == [file |-> f, start |-> s, length |-> l]

Executable == {At(1, 0, 2), At(1, 1, 1), At(1, 1, 3), At(1, 2, 0), At(1, 3, 9),
               At(1, 7, 1), At(1, 1, -1)}
Few == {S \in SUBSET Executable : Cardinality(S) <= 4}
Implicit == {{}, {At(1, 0, 1)}, {At(1, 2, 2)}}

Counts(S) == [S -> {0, 2}]
Ones(S) == [p \in S |-> 1]

FirstFile ==
    {[version |-> SchemaVersion, positions |-> h, implicit |-> Ones(i)] :
        h \in UNION {Counts(S) : S \in Few}, i \in Implicit}

SecondFile ==
    {[version |-> SchemaVersion, positions |-> Ones(s), implicit |-> Ones(i)] :
        s \in {{}, {At(2, 0, 1)}, {At(1, 0, 2), At(2, 0, 1)}}, i \in {{}, {At(2, 1, 1)}}}

OtherVersion == [NewCoverage EXCEPT !.version = "other"]

Long == <<"x", "\n", "x", "\n", "x">>
Short == <<"x">>

\* Each directory has both files or none.
Directory(t) == [f \in {1, 2} |-> t]
Disks == [Dirs -> {Directory(NoFile), Directory(Short), Directory(Long)}]
OneDisk == [d \in Dirs |-> Directory(Long)]

MCSituations ==
         {[stored |-> c, disk |-> OneDisk] : c \in FirstFile}
    \cup {[stored |-> c, disk |-> d] : c \in SecondFile \cup {OtherVersion}, d \in Disks}

=============================================================================
