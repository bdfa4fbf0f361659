------------------------------ MODULE Discovery ------------------------------
(***************************************************************************)
(* Which files a run works on: internal/discovery/discover.go, and the     *)
(* --source and --setup patterns of internal/cli/run.go.                   *)
(*                                                                         *)
(* A name is a number, so that names have an order; a path is the sequence *)
(* of names from the top of the file system; and a file is its path. No    *)
(* name is the beginning of another, so that the order of a walk and that  *)
(* of whole path strings are the same. ClassifyFile is given by Kind.      *)
(* The tree does not change while a run looks at it. Test directories are  *)
(* kept in a Go map, so they are scanned in any order. Patterns are taken  *)
(* one by one: `matched` is the loop's `files`, whose entries are `seen`.  *)
(***************************************************************************)
EXTENDS Naturals, Sequences, FiniteSets, SequencesExt

CONSTANTS
    Root,      \* the directory `pgcov run` is given, as a path
    Trees,     \* the sets of files there may be
    Locked,    \* the sets of directories that may be unreadable
    Kind,      \* Kind[n]: "test", "source" or "unknown", what a file named n is
    Globs,     \* Globs[p]: the files pattern p matches, if they exist
    Listings   \* the sequences of patterns --source and --setup may be given

\* In a relative path, the step to the directory above, which no file is named.
Up == 0

Paths == Seq(Nat \ {Up})

ASSUME DiscoveryAssumption ==
    /\ Root \in Paths
    /\ \A tree \in Trees : /\ IsFiniteSet(tree) /\ tree \subseteq Paths
                           /\ \A f \in tree : f # <<>> /\ Last(f) \in DOMAIN Kind
    /\ \A dirs \in Locked : dirs \subseteq Paths
    /\ Listings \subseteq Seq(DOMAIN Globs)

VARIABLES
    files,         \* the files there are
    unreadable,    \* the directories pgcov may not read
    sourceArgs,    \* config.SourceFiles
    setupArgs,     \* config.SetupFiles
    pc,            \* where the run is
    nextPattern,   \* the next pattern to match
    matched,       \* the files that patterns have matched, in order
    testFiles,     \* the test files it found, in order
    testDirs,      \* the test directories it has not scanned yet
    sourceFiles,   \* the sources it found, in order, as [path, key]
    setupSQL       \* the setup scripts, in the order they will run

args  == <<files, unreadable, sourceArgs, setupArgs>>
found == <<testFiles, testDirs, sourceFiles, setupSQL>>
loop  == <<nextPattern, matched>>
vars  == <<args, pc, loop, found>>

Dir(f) == Front(f)
IsTest(f) == Kind[Last(f)] = "test"
IsSource(f) == Kind[Last(f)] = "source"

Init ==
    /\ files \in Trees
    /\ unreadable \in Locked
    /\ sourceArgs \in Listings
    /\ setupArgs \in Listings
    /\ pc = "tests"
    /\ nextPattern = 1
    /\ matched = <<>>
    /\ testFiles = <<>>
    /\ testDirs = {}
    /\ sourceFiles = <<>>
    /\ setupSQL = <<>>

-----------------------------------------------------------------------------
(* Paths                                                                    *)

\* p comes before q in a walk of the tree: entry by entry, in the order of names.
Before(p, q) ==
    \E i \in 1..Len(q) :
        /\ \A j \in 1..(i - 1) : j <= Len(p) /\ p[j] = q[j]
        /\ i > Len(p) \/ p[i] < q[i]

\* The files of a set in that order.
Sorted(S) == [i \in 1..Cardinality(S) |->
                 CHOOSE f \in S : Cardinality({g \in S : Before(g, f)}) = i - 1]

\* The relative path from one absolute path to another.
Rel(base, f) ==
    LET n == Len(LongestCommonPrefix({base, f}))
    IN [i \in 1..(Len(base) - n) |-> Up] \o SubSeq(f, n + 1, Len(f))

\* Mutant of RelativePath: relative to the directory being scanned.
RelativeToScan(scanRoot, relRoot, f) == Rel(scanRoot, f)

\* The key a file found under scanRoot gets: relative to the run's one root.
RelativePath(scanRoot, relRoot, f) == Rel(relRoot, f)

-----------------------------------------------------------------------------
(* Walking                                                                  *)

\* The SQL files below dir that are seen; a directory that may not be read hides what it
\* holds, and nothing is said about it.
Walked(dir) ==
    {f \in files :
        /\ IsPrefix(dir, Dir(f))
        /\ Kind[Last(f)] # "unknown"
        /\ \A d \in unreadable : ~(IsPrefix(dir, d) /\ IsPrefix(d, Dir(f)))}

\* The walk is in lexical order, and so is what is kept of it.
DiscoverTests == Sorted({f \in Walked(Root) : IsTest(f)})

SourcePaths == [i \in DOMAIN sourceFiles |-> sourceFiles[i].path]

\* Mutant of NewSources: a file below two test directories is taken twice.
AllSources(dir) == Sorted({f \in Walked(dir) : IsSource(f)})

NewSources(dir) == Sorted({f \in Walked(dir) : IsSource(f) /\ f \notin ToSet(SourcePaths)})

-----------------------------------------------------------------------------
(* Patterns                                                                 *)

\* filepath.Glob.
Glob(p) == Globs[p] \cap files

\* Mutant of NewMatches: what a pattern matches again is listed again.
AllMatches(p) == Sorted(Glob(p))

\* What one pattern matches, sorted, without what is listed already.
NewMatches(p) == Sorted(Glob(p) \ ToSet(matched))

\* expandPatterns, one pattern. The first that matches nothing, or is none, ends the run.
ExpandPattern(listing) ==
    /\ nextPattern <= Len(listing)
    /\ \/ /\ Glob(listing[nextPattern]) # {}
          /\ matched' = matched \o NewMatches(listing[nextPattern])
          /\ nextPattern' = nextPattern + 1
          /\ UNCHANGED pc
       \/ pc' = "failed" /\ UNCHANGED loop
    /\ UNCHANGED <<args, found>>

AllExpanded(listing) == nextPattern > Len(listing)

-----------------------------------------------------------------------------
(* The steps of Run                                                         *)

\* The tests are discovered. Without any the run is over. Discovery may also fail:
\* the root does not exist, or the walk meets an error that is not about permissions.
FindTests ==
    /\ pc = "tests"
    /\ \/ /\ testFiles' = DiscoverTests
          /\ testDirs' = {Dir(t) : t \in ToSet(DiscoverTests)}
          /\ pc' = IF testFiles' = <<>> THEN "noTests"
                   ELSE IF sourceArgs # <<>> THEN "explicit" ELSE "colocated"
       \/ pc' = "failed" /\ UNCHANGED <<testFiles, testDirs>>
    /\ UNCHANGED <<args, loop, sourceFiles, setupSQL>>

\* DiscoverCoLocatedSources, one test directory.
ScanTestDir(d) ==
    /\ pc = "colocated"
    /\ d \in testDirs
    /\ testDirs' = testDirs \ {d}
    /\ \/ /\ LET new == NewSources(d)
             IN sourceFiles' = sourceFiles \o
                    [i \in DOMAIN new |-> [path |-> new[i], key |-> RelativePath(d, Root, new[i])]]
          /\ UNCHANGED pc
       \/ pc' = "failed" /\ UNCHANGED sourceFiles
    /\ UNCHANGED <<args, loop, testFiles, setupSQL>>

AllScanned ==
    /\ pc = "colocated"
    /\ testDirs = {}
    /\ pc' = "setup"
    /\ UNCHANGED <<args, loop, found>>

MatchSources == pc = "explicit" /\ ExpandPattern(sourceArgs)

\* explicitSources: a test among them, or a file that is gone, ends the run.
ListSources ==
    /\ pc = "explicit"
    /\ AllExpanded(sourceArgs)
    /\ \/ /\ \A i \in DOMAIN matched : IsSource(matched[i])
          /\ sourceFiles' = [i \in DOMAIN matched |->
                 [path |-> matched[i], key |-> RelativePath(Root, Root, matched[i])]]
          /\ pc' = "setup"
          /\ nextPattern' = 1
          /\ matched' = <<>>
       \/ pc' = "failed" /\ UNCHANGED <<sourceFiles, loop>>
    /\ UNCHANGED <<args, testFiles, testDirs, setupSQL>>

MatchSetup == pc = "setup" /\ ExpandPattern(setupArgs)

\* loadSetupScripts: any file will do, if it can be read.
LoadSetupScripts ==
    /\ pc = "setup"
    /\ AllExpanded(setupArgs)
    /\ \/ setupSQL' = matched /\ pc' = "ready"
       \/ pc' = "failed" /\ UNCHANGED setupSQL
    /\ UNCHANGED <<args, loop, testFiles, testDirs, sourceFiles>>

Finished ==
    /\ pc \in {"ready", "noTests", "failed"}
    /\ UNCHANGED vars

Next ==
    \/ FindTests \/ AllScanned
    \/ MatchSources \/ ListSources \/ MatchSetup \/ LoadSetupScripts
    \/ \E d \in testDirs : ScanTestDir(d)
    \/ Finished

Spec == Init /\ [][Next]_vars

\* Which of the sources the executor loads with test t, in the order of the list:
\* filterSourcesByDirectory, or the list as it is.
LoadedWith(t) ==
    {i \in DOMAIN sourceFiles : sourceArgs # <<>> \/ Dir(sourceFiles[i].path) = Dir(t)}

-----------------------------------------------------------------------------
(* Properties                                                               *)

\* Coverage is recorded under the key alone, so a key names one file: two sources of
\* the same name in different directories stay apart, and a source that is reached
\* from two test directories is instrumented once.
KeysIdentifyFiles ==
    \A i, j \in DOMAIN sourceFiles : i # j => sourceFiles[i].key # sourceFiles[j].key

\* A test is loaded with every readable source of its own directory and no other, each
\* once and in the order of their names - although the directories are scanned in random
\* order and one may lie inside another.
LoadsItsDirectoryInOrder ==
    pc = "ready" /\ sourceArgs = <<>> => \A t \in ToSet(testFiles) :
        /\ {sourceFiles[i].path : i \in LoadedWith(t)} = {f \in files : IsSource(f) /\ Dir(f) = Dir(t)}
        /\ \A i, j \in LoadedWith(t) : i < j => Before(sourceFiles[i].path, sourceFiles[j].path)

\* Pattern k is the first to match f.
FirstMatch(listing, f, k) ==
    f \in Globs[listing[k]] /\ \A j \in 1..(k - 1) : f \notin Globs[listing[j]]

\* The first n patterns are matched: their files come in the order of the patterns, each
\* at the first pattern that matches it, and no other file comes with them.
ListedAsGiven(result, listing, n) ==
    /\ ToSet(result) = {f \in files : \E k \in 1..n : f \in Globs[listing[k]]}
    /\ \A i, j \in DOMAIN result : i < j =>
           \E k, l \in 1..n : /\ FirstMatch(listing, result[i], k)
                              /\ FirstMatch(listing, result[j], l)
                              /\ k < l \/ (k = l /\ Before(result[i], result[j]))

\* Listed files - sources and setup scripts - are those the patterns match, in that order.
PatternsKeepTheirOrder ==
    pc = "ready" =>
        /\ ListedAsGiven(setupSQL, setupArgs, Len(setupArgs))
        /\ sourceArgs # <<>> =>
               ListedAsGiven(SourcePaths, sourceArgs, Len(sourceArgs))

=============================================================================
