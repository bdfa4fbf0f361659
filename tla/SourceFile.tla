----------------------------- MODULE SourceFile -----------------------------
(***************************************************************************)
(* A source file on its way into a test database: parsed into statements   *)
(* (Parser), each of which is instrumented (Instrumenter), and joined      *)
(* again: Parse and GenerateCoverageInstrument. Once the file is loaded a  *)
(* test calls the function that its last statement defines (Execution).    *)
(*                                                                         *)
(* The output is a sequence of <<"text", o>>, for the atom at offset o of  *)
(* the file, and of <<"signal", o>>, for the signal of the point at o.     *)
(***************************************************************************)
EXTENDS Parser, Instrumenter

CONSTANT Files    \* the files there may be, each a sequence of sequences of tokens

VARIABLES
    file,
    statements,    \* what the parser makes of it
    n,             \* the statement at hand
    text,          \* instrumentedStatements, joined
    points,        \* the locations of the file, with offsets into the file
    loads          \* PostgreSQL accepts what has been written so far

VARIABLES at, found, kept, pending, saved, done, delivered, ran, outcome

fileVars == <<file, statements, n, text, points, loads>>
callVars == <<at, found, kept, pending, saved, done, delivered, ran, outcome>>

\* No token of the user's is taken for a signal, no statement is empty, and a string
\* constant is no word.
ASSUME FilesAssumption ==
    \A f \in Files :
        /\ f \in Seq(Seq([text : STRING, quote : {"", "$$", "'", "E'"}, inner : Seq(STRING \ {"signal"})]))
        /\ \A g \in DOMAIN f : /\ f[g] # <<>>
                              /\ \A i \in DOMAIN f[g] : IsConstant(f[g][i]) => f[g][i].text = "constant"

KindOf(s) ==
    CASE s.type = "other"                  -> "other"
      [] s.language \in {"plpgsql", "sql"} -> s.language
      [] OTHER                             -> "otherLanguage"

\* What the instrumenter looks at: the body, or else the whole statement.
ToInstrument(s) == IF KindOf(s) \in {"plpgsql", "sql"} THEN s.body ELSE s.raw

Init ==
    /\ file \in Files
    /\ statements = SplitAndClassify(file)
    /\ n = 1
    /\ IF statements = <<>> THEN Begin("other", <<>>)
       ELSE Begin(KindOf(statements[1]), ToInstrument(statements[1]))
    /\ text = <<>>
    /\ points = <<>>
    /\ loads = TRUE
    /\ at = 0 /\ found = FALSE /\ kept = {} /\ pending = {} /\ saved = <<>>
    /\ done = {} /\ delivered = {} /\ ran = {} /\ outcome = "idle"

-----------------------------------------------------------------------------
(* Instrumenting                                                            *)

Loaded == n > Len(statements)

InstrumentStatement ==
    /\ ~Loaded
    /\ InstrumentStep
    /\ UNCHANGED <<fileVars, callVars>>

\* Where in the file the instrumenter's token 1 is.
Base ==
    LET s == statements[n] IN s.startPos + (IF Instrumented THEN s.bodyStart ELSE 0)

Absolute(l) == [l EXCEPT !.start = Base + l.start - 1]

Copied(from, to) == [i \in 1..(to - from) |-> <<"text", from + i - 1>>]
Rewritten == [i \in DOMAIN written |-> <<written[i][1], Base + written[i][2] - 1>>]

\* Mutant of StatementText: what follows the body is forgotten.
WithoutTail(s) == Copied(s.startPos, Base) \o Rewritten

\* The statement, with its body replaced. What is written goes between the delimiters of
\* the user's constant as it is.
StatementText(s) ==
    Copied(s.startPos, Base) \o Rewritten \o Copied(Base + Len(body), s.startPos + Len(s.raw))

Run == INSTANCE Execution WITH code <- written

HasSignals == \E p \in DOMAIN written : written[p][1] = "signal"

\* The body stands in single quotes, '...' or E'...'; it has no dollar quotes.
InSingleQuotes(s) == s.raw[s.bodyStart] = "'"

\* PostgreSQL takes the statement. A signal is written with single quotes, which nobody
\* doubles: within '...' or E'...' the first of them ends the constant, and what follows
\* is a syntax error. A statement without a body in quotes is written as it was.
StatementLoads ==
    body = <<>> \/ (Run!Accepted /\ (InSingleQuotes(statements[n]) => ~HasSignals))

FinishStatement ==
    /\ ~Loaded
    /\ pc = "done"
    /\ text' = text \o StatementText(statements[n])
    /\ points' = points \o [i \in DOMAIN locations |-> Absolute(locations[i])]
    /\ loads' = (loads /\ (Instrumented => StatementLoads))
    /\ n' = n + 1
    /\ IF n < Len(statements)
       THEN BeginNext(KindOf(statements[n + 1]), ToInstrument(statements[n + 1]))
       ELSE UNCHANGED vars
    /\ UNCHANGED <<file, statements, callVars>>

-----------------------------------------------------------------------------
(* The file is loaded as a whole; then a test calls the function that its   *)
(* last statement has defined                                               *)

CallLast ==
    /\ Loaded
    /\ loads
    /\ statements # <<>>
    /\ Instrumented
    /\ Run!CallStep
    /\ UNCHANGED <<fileVars, vars>>

Finished ==
    /\ Loaded
    /\ \/ outcome \in {"committed", "undone"}
       \/ statements = <<>> \/ ~Instrumented \/ (outcome = "idle" /\ ~(loads /\ Run!Accepted))
    /\ UNCHANGED <<fileVars, vars, callVars>>

Next == InstrumentStatement \/ FinishStatement \/ CallLast \/ Finished

Spec == Init /\ [][Next]_<<fileVars, vars, callVars>>

-----------------------------------------------------------------------------
(* Properties of the instrumented file                                      *)

\* The output is the file without the statements that are only comments: every atom of
\* it once and in its place, whatever quoting the bodies have.
FileTextPreserved ==
    Loaded =>
        LET groups == {g \in DOMAIN file : \E i \in DOMAIN file[g] : file[g][i] # Comment}
            StartOf(g) == Len(FileText(SubSeq(file, 1, g - 1)))
            copied == Pick(text, {p \in DOMAIN text : text[p][1] = "text"})
        IN /\ \A i, j \in DOMAIN copied : i < j => copied[i][2] < copied[j][2]
           /\ {copied[i][2] : i \in DOMAIN copied}
                = UNION {StartOf(g)..(StartOf(g) + Len(RawText(file[g])) - 1) : g \in groups}

\* Offsets into a body become offsets into the file: at the place of each point, the
\* file has the text that was instrumented, and no two points of a file begin at the
\* same place, so that a hit is never counted for the wrong statement.
PointsLocateTheirText ==
    /\ pc = "done" /\ ~Loaded => \A i \in DOMAIN locations :
           LET l == locations[i] IN
           SubSeq(FileText(file), Absolute(l).start + 1, Absolute(l).start + l.length)
               = SubSeq(body, l.start, l.start + l.length - 1)
    /\ \A i, j \in DOMAIN points : i # j => points[i].start # points[j].start

\* The signals of a file are those of its executable points, one for each, in order.
SignalsNamePoints ==
    LET signals    == Pick(text, {p \in DOMAIN text : text[p][1] = "signal"})
        executable == Pick(points, {i \in DOMAIN points : ~points[i].implicit})
    IN [i \in DOMAIN signals |-> signals[i][2]] = [i \in DOMAIN executable |-> executable[i].start]

\* What is scanned for statements is what PostgreSQL takes for the definition: in CREATE
\* FUNCTION the constant after AS, in DO the one that does not name the language - unless
\* the language of a DO block is quoted and comes first, where the code takes its name
\* for the body.
BodyIsFound ==
    \A k \in DOMAIN statements : KindOf(statements[k]) \in {"plpgsql", "sql"} =>
        LET s == statements[k]
            g == CHOOSE h \in DOMAIN file : Len(FileText(SubSeq(file, 1, h - 1))) = s.startPos
            sig == Significant(file[g])
            constants == {i \in DOMAIN sig : IsConstant(sig[i].token)}
            definitions ==
                {i \in constants : IF s.type = "do" THEN ~IsIdent(sig, i - 1, "LANGUAGE")
                                                   ELSE IsIdent(sig, i - 1, "AS")}
        IN \/ s.type = "do" /\ Min(constants) \notin definitions
           \/ s.body = IF definitions = {} THEN <<>> ELSE sig[Min(definitions)].token.inner

-----------------------------------------------------------------------------
(* Properties of a call                                                     *)

\* The body as the user wrote it, run along with the instrumented one: signals left out.
TextPieces(p) == Cardinality({q \in 1..p : written[q][1] = "text"})

Original == INSTANCE Execution WITH
    code      <- Text(1, Len(body)),
    at        <- IF at = 0 THEN 0 ELSE TextPieces(at - 1) + 1,
    pending   <- {},
    saved     <- [i \in DOMAIN saved |-> [saved[i] EXCEPT !.pending = {}]],
    delivered <- {}

\* Instrumenting does not change what a function does: a call of the instrumented body
\* goes through the same statements, branches, errors and roll-backs as one of the
\* original, and its signals are steps that the original does not notice. FOUND, which
\* the branches depend on, is among what is preserved.
ImplementsOriginal == Original!CallSpec

\* A declaration of a nested block is taken for a statement: the second of a DECLARE, and
\* the first if something else begins what its semicolon ends, as in IF FOUND THEN DECLARE.
NestedDeclarations ==
    \E l \in Segments :
        LET end == l.start + l.length IN
        \E i \in 1..(end - 1) : body[i] = "DECLARE" /\ \A x \in i..(end - 1) : body[x] # "BEGIN"

\* PostgreSQL takes the instrumented statement if it takes the original - an SQL function
\* still ends with the statement it returns - but for the two cases the code gets wrong: a
\* declaration of a nested block that is taken for a statement, and a body in single
\* quotes that gets a signal.
LoadsUnlessNestedOrQuoted ==
    pc = "done" /\ ~Loaded /\ Instrumented /\ Original!Accepted =>
        (StatementLoads <=> /\ ~NestedDeclarations
                            /\ Segments # {} => ~InSingleQuotes(statements[n]))

\* Instrumentation must not change what the SQL means: an accepted body stays accepted,
\* and GET DIAGNOSTICS does not read the row count of a signal.
Transparent ==
    /\ pc = "done" /\ Instrumented /\ Original!Accepted => Run!Accepted
    /\ Run!At({"DIAGNOSTICS"}) => Run!TokenAt(at - 1) # "signal"

\* The statements that go on to the next one or fail. EXIT is apart: it may go elsewhere.
Simple == {"word", "RETURN", "RAISE", "DIAGNOSTICS", "COMMIT"}

\* Token t begins a statement, as PL/pgSQL has it: control comes there and does something.
IsStatement(t) ==
    /\ body[t] \in Simple \cup {"EXIT", "IF", "WHILE"}
    /\ Original!Scanned[t - 1].mode = "statement"

FirstBegin == Min({i \in DOMAIN body : body[i] = "BEGIN"})

\* The first token, comments apart, after the semicolon or the first BEGIN before token t.
SegmentHead(t) ==
    Min({i \in (FirstBegin + 1)..t : body[i] # "COMMENT" /\ \A j \in i..(t - 1) : body[j] # ";"})

\* Of the statements of a PL/pgSQL body, wherever they stand - in a loop, a branch, a nested
\* block, a handler - those and only those are within no point that follow a LOOP, BEGIN,
\* DECLARE or EXCEPTION with which the text between two semicolons begins.
OnlyMarkersHideStatements ==
    pc = "done" /\ kind = "plpgsql" /\ Original!Accepted =>
        \A t \in DOMAIN body : IsStatement(t) =>
            ((\E i \in DOMAIN locations : t \in TokensOf(locations[i]))
                <=> body[SegmentHead(t)] \notin {"LOOP", "BEGIN", "DECLARE", "EXCEPTION"})

\* Each statement in a BEGIN ... END block, in a loop or in an exception handler is
\* instrumented.
EveryStatementHasPoint ==
    pc = "done" /\ kind = "plpgsql" /\ Original!Accepted =>
        \A t \in DOMAIN body : IsStatement(t) =>
            \E i \in DOMAIN locations : t \in TokensOf(locations[i])

\* A point is reported only if its statement ran in a transaction that committed: every
\* statement there is between its first token and its last, where an empty branch or
\* block, such as ELSE END, has none.
NoFalsePositives ==
    \A i \in DOMAIN locations : locations[i].start \in delivered =>
        \A t \in TokensOf(locations[i]) : body[t] \in Simple \cup {"EXIT"} => t \in done

\* When the transaction of a call has committed, each point with a statement that ran and
\* was not rolled back is reported; unless that statement is an EXIT, whose signal stands
\* behind it, where control does not come when it leaves its loop. (A condition, of IF or
\* WHILE, does not count: its point is that of the first statement it leads to.)
KeptIsCoveredUnlessExit ==
    outcome = "committed" => \A i \in DOMAIN locations :
        (\E t \in TokensOf(locations[i]) : t \in done /\ body[t] \in Simple)
            => locations[i].start \in delivered

\* Every point with a statement, EXIT apart, that ran in a call that ended well is reported,
\* rolled back or not.
NoFalseNegatives ==
    outcome = "committed" => \A i \in DOMAIN locations :
        (\E t \in TokensOf(locations[i]) : t \in ran /\ body[t] \in Simple)
            => locations[i].start \in delivered

=============================================================================
