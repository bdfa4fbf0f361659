----------------------------- MODULE Execution -----------------------------
(***************************************************************************)
(* What PostgreSQL does with the body of a function: whether it accepts    *)
(* it, how it runs it in a transaction of the test, and when it delivers   *)
(* the signals. All of this is external to pgcov, and modelled from what   *)
(* the code in internal/instrument and internal/runner relies on.          *)
(*                                                                         *)
(* The code is a sequence of pieces, as the instrumenter writes them:      *)
(* <<"text", i>> is token i of the body, and <<"signal", i>> the statement *)
(* that sends the signal of the point that starts at token i. Without      *)
(* signals it is the body as the user wrote it.                            *)
(*                                                                         *)
(* One token stands for what opens a construct: IF for IF FOUND THEN,      *)
(* WHILE for WHILE FOUND LOOP, EXCEPTION for EXCEPTION WHEN OTHERS THEN,   *)
(* EXIT for EXIT WHEN FOUND, and END for the end of any of them.           *)
(***************************************************************************)
EXTENDS Naturals, Sequences, FiniteSets, FiniteSetsExt

VARIABLES
    kind,       \* "plpgsql" or "sql"; other statements are not run
    body,       \* the tokens of the body
    code,       \* what runs: the pieces of the body, and of its signals
    at,         \* the piece to be run next
    found,      \* the value of FOUND
    kept,       \* the tokens run in the current transaction and not rolled back
    pending,    \* the signals sent in the current transaction and not rolled back
    saved,      \* for each BEGIN, kept and pending when its block was entered
    done,       \* the tokens run in committed transactions
    delivered,  \* the signals of committed transactions
    ran,        \* every token run, whatever became of it (a history variable)
    outcome     \* "idle", "running", "returned", "failed", "committed" or "undone"

callVars == <<at, found, kept, pending, saved, done, delivered, ran, outcome>>

TokenAt(p) == IF code[p][1] = "signal" THEN "signal" ELSE body[code[p][2]]

-----------------------------------------------------------------------------
(* The grammar, as a scan that keeps the constructs that are open           *)

Enter(s, construct) == [stack |-> Append(s.stack, construct), mode |-> "statement"]
Swap(s, construct) == [s EXCEPT !.stack[Len(s.stack)] = construct]
Leave(s) == [stack |-> SubSeq(s.stack, 1, Len(s.stack) - 1), mode |-> "semicolon"]
Inside(s, construct) == s.stack # <<>> /\ s.stack[Len(s.stack)] = construct
InLoop(s) == \E i \in DOMAIN s.stack : s.stack[i] = "LOOP"

Then(s, mode) == [s EXCEPT !.mode = mode]
AfterSemicolon(s) == IF s.stack = <<>> THEN "end" ELSE "statement"

Accept(s, t) ==
    CASE t = "COMMENT"                                                 -> s
      [] s.mode \in {"start", "statement"} /\ t = "DECLARE"            -> Then(s, "declaration")
      [] s.mode \in {"start", "statement", "declaration"} /\ t = "BEGIN" -> Enter(s, "BEGIN")
      [] s.mode = "declaration" /\ t = "word"                          -> Then(s, "declared")
      [] s.mode = "declared" /\ t = ";"                                -> Then(s, "declaration")
      [] s.mode = "statement" /\ t \in {"word", "RETURN", "DIAGNOSTICS", "COMMIT"}
                                                                       -> Then(s, "semicolon")
      [] s.mode = "statement" /\ t = "EXIT" /\ InLoop(s)               -> Then(s, "semicolon")
      [] s.mode = "statement" /\ t = "RAISE"                           -> Then(s, "level")
      [] s.mode = "level" /\ t = "NOTICE"                              -> Then(s, "semicolon")
      [] s.mode \in {"semicolon", "level"} /\ t = ";"                  -> Then(s, AfterSemicolon(s))
      [] s.mode = "statement" /\ t = "signal"                          -> s
      [] s.mode = "statement" /\ t = "IF"                              -> Enter(s, "IF")
      [] s.mode = "statement" /\ t \in {"LOOP", "WHILE"}               -> Enter(s, "LOOP")
      [] s.mode = "statement" /\ t = "ELSE" /\ Inside(s, "IF")         -> Swap(s, "ELSE")
      [] s.mode = "statement" /\ t = "EXCEPTION" /\ Inside(s, "BEGIN") -> Swap(s, "EXCEPTION")
      [] s.mode = "statement" /\ t = "END" /\ s.stack # <<>>           -> Leave(s)
      [] OTHER                                                         -> Then(s, "error")

\* What is open, and what may come next, after the first p pieces.
Scanned[p \in 0..Len(code)] ==
    IF p = 0 THEN [stack |-> <<>>, mode |-> "start"] ELSE Accept(Scanned[p - 1], TokenAt(p))

AcceptedPlpgsql ==
    LET last == Scanned[Len(code)] IN last.stack = <<>> /\ last.mode \in {"semicolon", "end"}

\* An SQL function is a list of statements, and returns what the last one does: that
\* has to be one of the user's.
AcceptedSQL ==
    LET pieces == {p \in DOMAIN code : TokenAt(p) # "COMMENT"}
        Before(p) == {q \in pieces : q < p}
    IN /\ pieces # {}
       /\ \A p \in pieces :
            /\ TokenAt(p) \in {"word", ";", "signal"}
            /\ LET previous == IF Before(p) = {} THEN "signal" ELSE TokenAt(Max(Before(p)))
               IN IF TokenAt(p) = ";" THEN previous = "word" ELSE previous \in {";", "signal"}
       /\ TokenAt(Max(pieces)) # "signal"

\* CREATE FUNCTION succeeds.
Accepted == IF kind = "sql" THEN AcceptedSQL ELSE AcceptedPlpgsql

-----------------------------------------------------------------------------
(* Where control goes                                                       *)

Opens == {"BEGIN", "IF", "LOOP", "WHILE"}

\* How many constructs are open after piece p.
Depth(p) == Cardinality({q \in 1..p : TokenAt(q) \in Opens})
            - Cardinality({q \in 1..p : TokenAt(q) = "END"})

\* The END of the innermost construct that is open after piece p.
EndOf(p) == Min({q \in p..Len(code) : TokenAt(q) = "END" /\ Depth(q) < Depth(p)})

\* The ELSE or EXCEPTION of the construct that piece p opens.
Branches(p, t) == {q \in p..EndOf(p) : TokenAt(q) = t /\ Depth(q) = Depth(p)}

\* The constructs around piece p, a branch of it not counted.
Around(p, ts) == {q \in 1..(p - 1) : TokenAt(q) \in ts /\ p <= EndOf(q)}
Handling(p) == {b \in Around(p, {"BEGIN"}) : \E e \in Branches(b, "EXCEPTION") : p < e}

-----------------------------------------------------------------------------
(* A call                                                                   *)

CallInit ==
    /\ at = 0
    /\ found = FALSE
    /\ kept = {}
    /\ pending = {}
    /\ saved = <<>>
    /\ done = {}
    /\ delivered = {}
    /\ ran = {}
    /\ outcome = "idle"

\* A test calls the function.
Call ==
    /\ outcome = "idle"
    /\ Accepted
    /\ at' = 1
    /\ saved' = [i \in DOMAIN body |-> [kept |-> {}, pending |-> {}]]
    /\ outcome' = "running"
    /\ UNCHANGED <<found, kept, pending, done, delivered, ran>>

At(ts) == outcome = "running" /\ at <= Len(code) /\ TokenAt(at) \in ts
Token == code[at][2]

\* The token at hand has run.
Runs == kept' = kept \cup {Token} /\ ran' = ran \cup {Token}

\* Mutant of SendSignal: the signal is sent with PERFORM, which sets FOUND.
SendSignalPerforming ==
    /\ At({"signal"})
    /\ pending' = pending \cup {Token}
    /\ found' = TRUE
    /\ at' = at + 1
    /\ UNCHANGED <<kept, saved, done, delivered, ran, outcome>>

\* EXECUTE, which leaves FOUND alone.
SendSignal ==
    /\ At({"signal"})
    /\ pending' = pending \cup {Token}
    /\ at' = at + 1
    /\ UNCHANGED <<found, kept, saved, done, delivered, ran, outcome>>

Pass ==
    /\ At({";", "COMMENT", "NOTICE", "DECLARE", "LOOP"})
    /\ at' = at + 1
    /\ UNCHANGED <<found, kept, pending, saved, done, delivered, ran, outcome>>

EnterBlock ==
    /\ At({"BEGIN"})
    /\ saved' = [saved EXCEPT ![Token] = [kept |-> kept, pending |-> pending]]
    /\ at' = at + 1
    /\ UNCHANGED <<found, kept, pending, done, delivered, ran, outcome>>

\* A statement of the user's, which sets FOUND to whatever it likes.
RunStatement ==
    /\ At({"word"})
    /\ Runs
    /\ found' \in BOOLEAN
    /\ at' = at + 1
    /\ UNCHANGED <<pending, saved, done, delivered, outcome>>

RunDiagnostics ==
    /\ At({"DIAGNOSTICS"})
    /\ Runs
    /\ at' = at + 1
    /\ UNCHANGED <<found, pending, saved, done, delivered, outcome>>

Level == Min({p \in (at + 1)..Len(code) : TokenAt(p) # "COMMENT"})

RaiseNotice ==
    /\ At({"RAISE"})
    /\ TokenAt(Level) = "NOTICE"
    /\ Runs
    /\ at' = at + 1
    /\ UNCHANGED <<found, pending, saved, done, delivered, outcome>>

\* An error rolls back to the beginning of the block that handles it, the signals as
\* well; an error that no block handles leaves the function.
Fails ==
    /\ IF Handling(at) = {}
       THEN /\ outcome' = "failed"
            /\ UNCHANGED <<at, kept, pending>>
       ELSE LET b == Max(Handling(at)) IN
            /\ at' = Min(Branches(b, "EXCEPTION")) + 1
            /\ kept' = saved[code[b][2]].kept
            /\ pending' = saved[code[b][2]].pending
            /\ UNCHANGED outcome
    /\ UNCHANGED <<found, saved, done, delivered>>

RaiseException ==
    /\ At({"RAISE"})
    /\ TokenAt(Level) # "NOTICE"
    /\ ran' = ran \cup {Token}
    /\ Fails

StatementFails ==
    /\ At({"word", "RETURN", "COMMIT"})
    /\ Fails
    /\ UNCHANGED ran

Branch ==
    /\ At({"IF", "WHILE"})
    /\ Runs
    /\ at' = IF found THEN at + 1
             ELSE IF Branches(at, "ELSE") # {} THEN Min(Branches(at, "ELSE")) + 1
             ELSE EndOf(at) + 1
    /\ UNCHANGED <<found, pending, saved, done, delivered, outcome>>

\* The end of the first part of an IF or of a block with a handler.
SkipOtherPart ==
    /\ At({"ELSE", "EXCEPTION"})
    /\ at' = EndOf(at)
    /\ UNCHANGED <<found, kept, pending, saved, done, delivered, ran, outcome>>

ExitLoop ==
    /\ At({"EXIT"})
    /\ Runs
    /\ at' = IF found THEN EndOf(Max(Around(at, {"LOOP", "WHILE"}))) + 1 ELSE at + 1
    /\ UNCHANGED <<found, pending, saved, done, delivered, outcome>>

ReachEnd ==
    /\ At({"END"})
    /\ LET opener == Max({q \in 1..(at - 1) : TokenAt(q) \in Opens /\ EndOf(q) = at}) IN
       IF TokenAt(opener) \in {"LOOP", "WHILE"} THEN at' = opener /\ UNCHANGED outcome
       ELSE IF Depth(at) > 0 THEN at' = at + 1 /\ UNCHANGED outcome
       ELSE outcome' = "returned" /\ UNCHANGED at
    /\ UNCHANGED <<found, kept, pending, saved, done, delivered, ran>>

ReachEndOfSQL ==
    /\ outcome = "running"
    /\ at > Len(code)
    /\ outcome' = "returned"
    /\ UNCHANGED <<at, found, kept, pending, saved, done, delivered, ran>>

Return ==
    /\ At({"RETURN"})
    /\ Runs
    /\ outcome' = "returned"
    /\ UNCHANGED <<at, found, pending, saved, done, delivered>>

\* A procedure may commit, outside of a block with a handler.
CommitInside ==
    /\ At({"COMMIT"})
    /\ Handling(at) = {}
    /\ ran' = ran \cup {Token}
    /\ done' = done \cup kept \cup {Token}
    /\ delivered' = delivered \cup pending
    /\ kept' = {}
    /\ pending' = {}
    /\ at' = at + 1
    /\ UNCHANGED <<found, saved, outcome>>

\* The transaction of the test commits. A signal that was sent twice is delivered once.
TestCommits ==
    /\ outcome = "returned"
    /\ done' = done \cup kept
    /\ delivered' = delivered \cup pending
    /\ kept' = {}
    /\ pending' = {}
    /\ outcome' = "committed"
    /\ UNCHANGED <<at, found, saved, ran>>

\* Or it is rolled back, or up to before the call, where the test expects an error.
TestRollsBack ==
    /\ outcome \in {"returned", "failed"}
    /\ kept' = {}
    /\ pending' = {}
    /\ outcome' = "undone"
    /\ UNCHANGED <<at, found, saved, done, delivered, ran>>

CallStep ==
    \/ Call
    \/ SendSignal \/ Pass \/ EnterBlock \/ RunStatement \/ RunDiagnostics
    \/ RaiseNotice \/ RaiseException \/ StatementFails
    \/ Branch \/ SkipOtherPart \/ ExitLoop \/ ReachEnd \/ ReachEndOfSQL
    \/ Return \/ CommitInside
    \/ TestCommits \/ TestRollsBack

CallSpec == CallInit /\ [][CallStep]_callVars

=============================================================================
