-------------------------- MODULE SourceFileProofs --------------------------
(***************************************************************************)
(* Proofs about source files, for any files whatever: that a call of an    *)
(* instrumented function reports the points whose statements have run,     *)
(* and no others, and does what the function did before; that the file is  *)
(* written with its text complete and its points in place.                 *)
(***************************************************************************)
EXTENDS SourceFile, InstrumenterProofs, FiniteSetTheorems

-----------------------------------------------------------------------------
(* The grammar, one token at a time                                         *)

N == Len(written)
Tok(p) == Run!TokenAt(p)

\* The pieces of the body at hand; no token of the user's is called "signal".
PiecesOK ==
    /\ body \in Seq(STRING)
    /\ \A i \in DOMAIN body : body[i] # "signal"
    /\ written \in Seq({"text", "signal"} \X (1..Len(body)))

LEMMA Pieces ==
    ASSUME PiecesOK
    PROVE  /\ N \in Nat /\ Len(body) \in Nat /\ DOMAIN written = 1..N /\ DOMAIN body = 1..Len(body)
           /\ \A p \in 1..N : /\ written[p][2] \in 1..Len(body)
                              /\ written[p] = <<written[p][1], written[p][2]>>
                              /\ written[p][1] \in {"text", "signal"}
                              /\ Tok(p) = "signal" <=> written[p][1] = "signal"
                              /\ Tok(p) # "signal" => Tok(p) = body[written[p][2]]
<1>1. /\ Len(body) \in Nat /\ DOMAIN body = 1..Len(body) /\ N \in Nat /\ DOMAIN written = 1..N
      /\ written \in Seq({"text", "signal"} \X (1..Len(body)))
  BY LenProperties DEF PiecesOK, N
<1>2. ASSUME NEW p \in 1..N
      PROVE  /\ written[p][2] \in 1..Len(body)
             /\ written[p] = <<written[p][1], written[p][2]>>
             /\ written[p][1] \in {"text", "signal"}
             /\ Tok(p) = "signal" <=> written[p][1] = "signal"
             /\ Tok(p) # "signal" => Tok(p) = body[written[p][2]]
  <2>1. /\ written[p][1] \in {"text", "signal"} /\ written[p][2] \in 1..Len(body)
        /\ written[p] = <<written[p][1], written[p][2]>>
    BY <1>1, PiecesTyped
  <2>2. body[written[p][2]] # "signal"
    BY <1>1, <2>1, ElementOfSeq DEF PiecesOK
  <2>3. CASE written[p][1] = "signal"
    <3>1. Tok(p) = "signal"
      BY <2>3 DEF Tok, Run!TokenAt
    <3> QED
      BY <2>1, <2>3, <3>1
  <2>4. CASE written[p][1] # "signal"
    <3>1. Tok(p) = body[written[p][2]]
      BY <2>4 DEF Tok, Run!TokenAt
    <3> QED
      BY <2>1, <2>2, <2>4, <3>1
  <2> QED
    BY <2>3, <2>4
<1> QED
  BY <1>1, <1>2

Open  == {"BEGIN", "IF", "LOOP", "ELSE", "EXCEPTION"}
Modes == {"start", "declaration", "declared", "semicolon", "level", "end", "statement", "error"}
State == [stack : Seq(Open), mode : Modes]

LEMMA EnterState ==
    ASSUME NEW s \in State, NEW c \in Open
    PROVE  /\ Run!Enter(s, c) \in State /\ Run!Enter(s, c).mode = "statement"
           /\ Len(s.stack) \in Nat /\ Len(Run!Enter(s, c).stack) = Len(s.stack) + 1
           /\ \A i \in 1..Len(s.stack) : Run!Enter(s, c).stack[i] = s.stack[i]
           /\ Run!Enter(s, c).stack[Len(s.stack) + 1] = c
<1>1. s.stack \in Seq(Open)
  BY DEF State
<1>2. PICK st : st = Append(s.stack, c)
  OBVIOUS
<1>3. /\ st \in Seq(Open) /\ Len(st) = Len(s.stack) + 1 /\ Len(s.stack) \in Nat
      /\ \A i \in 1..Len(s.stack) : st[i] = s.stack[i]
      /\ st[Len(s.stack) + 1] = c
  BY <1>1, <1>2, AppendProperties, LenProperties
<1>4. Run!Enter(s, c) = [stack |-> st, mode |-> "statement"]
  BY <1>2 DEF Run!Enter
<1>5. Run!Enter(s, c).stack = st /\ Run!Enter(s, c).mode = "statement"
  BY <1>4
<1>6. Run!Enter(s, c) \in State
  BY <1>3, <1>4 DEF State, Modes
<1> QED
  BY <1>3, <1>5, <1>6

LEMMA LeaveState ==
    ASSUME NEW s \in State, s.stack # <<>>
    PROVE  /\ Run!Leave(s) \in State /\ Run!Leave(s).mode = "semicolon"
           /\ Len(s.stack) \in Nat /\ Len(s.stack) >= 1 /\ Len(Run!Leave(s).stack) = Len(s.stack) - 1
           /\ \A i \in 1..(Len(s.stack) - 1) : Run!Leave(s).stack[i] = s.stack[i]
<1>1. s.stack \in Seq(Open)
  BY DEF State
<1>2. PICK L \in Nat : L = Len(s.stack) /\ L >= 1
  BY <1>1, EmptySeq, LenProperties
<1>3. PICK st : st = SubSeq(s.stack, 1, L - 1)
  OBVIOUS
<1>4. st \in Seq(Open) /\ Len(st) = L - 1 /\ \A i \in 1..(L - 1) : st[i] = s.stack[i]
  <2>1. 1 \in 1..Len(s.stack) + 1 /\ L - 1 \in 0..Len(s.stack)
    BY <1>2
  <2>2. st \in Seq(Open)
    <3>1. \A i \in 1..(L - 1) : i \in 1..L
      BY <1>2
    <3> QED
      BY <1>1, <1>2, <1>3, <2>1, <3>1
  <2>3. Len(st) = L - 1
    BY <1>1, <1>2, <1>3, <2>1
  <2>4. \A i \in 1..(L - 1) : st[i] = s.stack[i]
    BY <1>1, <1>2, <1>3, <2>1
  <2> QED
    BY <2>2, <2>3, <2>4
<1>5. Run!Leave(s) = [stack |-> st, mode |-> "semicolon"]
  BY <1>2, <1>3 DEF Run!Leave
<1>6. Run!Leave(s).stack = st /\ Run!Leave(s).mode = "semicolon"
  BY <1>5
<1>7. Run!Leave(s) \in State
  BY <1>4, <1>5 DEF State, Modes
<1> QED
  BY <1>2, <1>4, <1>6, <1>7

LEMMA SwapState ==
    ASSUME NEW s \in State, NEW c \in Open, s.stack # <<>>
    PROVE  /\ Run!Swap(s, c) \in State /\ Run!Swap(s, c).mode = s.mode
           /\ Len(s.stack) \in Nat /\ Len(s.stack) >= 1 /\ Len(Run!Swap(s, c).stack) = Len(s.stack)
           /\ \A i \in 1..(Len(s.stack) - 1) : Run!Swap(s, c).stack[i] = s.stack[i]
           /\ Run!Swap(s, c).stack[Len(s.stack)] = c
<1>1. s.stack \in Seq(Open)
  BY DEF State
<1>2. PICK L \in Nat : L = Len(s.stack) /\ L >= 1
  BY <1>1, EmptySeq, LenProperties
<1>3. PICK st : st = [s.stack EXCEPT ![L] = c]
  OBVIOUS
<1>4. L \in DOMAIN s.stack /\ DOMAIN s.stack = 1..L
  BY <1>1, <1>2, LenProperties
<1>5. st \in Seq(Open) /\ Len(st) = L /\ st[L] = c /\ \A i \in 1..(L - 1) : st[i] = s.stack[i]
  <2>1. s.stack \in [1..L -> Open]
    BY <1>1, <1>2, LenProperties
  <2>2. st \in [1..L -> Open] /\ st[L] = c /\ \A i \in 1..(L - 1) : st[i] = s.stack[i]
    BY <1>3, <1>4, <2>1
  <2>3. st \in Seq(Open)
    BY <1>2, <2>2, IsASeq
  <2>4. Len(st) = L
    BY <1>2, <2>2, <2>3, LenProperties
  <2> QED
    BY <2>2, <2>3, <2>4
<1>6. Run!Swap(s, c) = [stack |-> st, mode |-> s.mode]
  <2>1. s = [stack |-> s.stack, mode |-> s.mode]
    BY DEF State
  <2>2. Run!Swap(s, c) = [s EXCEPT !.stack = st]
    BY <1>2, <1>3 DEF Run!Swap
  <2> QED
    BY <2>1, <2>2
<1> QED
  BY <1>2, <1>5, <1>6 DEF State

LEMMA ThenState ==
    ASSUME NEW s \in State, NEW m \in Modes
    PROVE  Run!Then(s, m) \in State /\ Run!Then(s, m).mode = m /\ Run!Then(s, m).stack = s.stack
BY DEF State, Run!Then

\* What a token does to what is open: nothing, open, replace or close the innermost
\* construct, or else it is an error.
AcceptCases(s, t, a) ==
    \/ a = s /\ t \in {"COMMENT", "signal"}
    \/ /\ a \in {Run!Then(s, "declaration"), Run!Then(s, "declared"), Run!Then(s, "semicolon"),
                 Run!Then(s, "level"), Run!Then(s, Run!AfterSemicolon(s))}
       /\ t \in {"DECLARE", "word", ";", "RETURN", "DIAGNOSTICS", "COMMIT", "EXIT", "RAISE", "NOTICE"}
       /\ t = "EXIT" => Run!InLoop(s)
    \/ a = Run!Enter(s, "BEGIN") /\ t = "BEGIN"
    \/ a = Run!Enter(s, "IF") /\ t = "IF"
    \/ a = Run!Enter(s, "LOOP") /\ t \in {"LOOP", "WHILE"}
    \/ a = Run!Swap(s, "ELSE") /\ t = "ELSE" /\ Run!Inside(s, "IF")
    \/ a = Run!Swap(s, "EXCEPTION") /\ t = "EXCEPTION" /\ Run!Inside(s, "BEGIN")
    \/ a = Run!Leave(s) /\ t = "END" /\ s.stack # <<>>
    \/ a = Run!Then(s, "error")

LEMMA AcceptShape ==
    ASSUME NEW s, NEW t, NEW a, a = Run!Accept(s, t)
    PROVE  AcceptCases(s, t, a)
<1>1. CASE t = "COMMENT"
  BY <1>1 DEF Run!Accept, AcceptCases
<1>2. CASE t = "DECLARE"
  BY <1>2 DEF Run!Accept, AcceptCases
<1>3. CASE t = "BEGIN"
  BY <1>3 DEF Run!Accept, AcceptCases
<1>4. CASE t = "word"
  BY <1>4 DEF Run!Accept, AcceptCases
<1>5. CASE t = ";"
  BY <1>5 DEF Run!Accept, AcceptCases
<1>6. CASE t = "RETURN"
  BY <1>6 DEF Run!Accept, AcceptCases
<1>7. CASE t = "DIAGNOSTICS"
  BY <1>7 DEF Run!Accept, AcceptCases
<1>8. CASE t = "COMMIT"
  BY <1>8 DEF Run!Accept, AcceptCases
<1>9. CASE t = "EXIT"
  BY <1>9 DEF Run!Accept, AcceptCases
<1>10. CASE t = "RAISE"
  BY <1>10 DEF Run!Accept, AcceptCases
<1>11. CASE t = "NOTICE"
  BY <1>11 DEF Run!Accept, AcceptCases
<1>12. CASE t = "signal"
  BY <1>12 DEF Run!Accept, AcceptCases
<1>13. CASE t = "IF"
  BY <1>13 DEF Run!Accept, AcceptCases
<1>14. CASE t = "LOOP"
  BY <1>14 DEF Run!Accept, AcceptCases
<1>15. CASE t = "WHILE"
  BY <1>15 DEF Run!Accept, AcceptCases
<1>16. CASE t = "ELSE"
  BY <1>16 DEF Run!Accept, AcceptCases
<1>17. CASE t = "EXCEPTION"
  BY <1>17 DEF Run!Accept, AcceptCases
<1>18. CASE t = "END"
  BY <1>18 DEF Run!Accept, AcceptCases
<1>20. CASE t \notin {"COMMENT", "DECLARE", "BEGIN", "word", ";", "RETURN", "DIAGNOSTICS", "COMMIT", "EXIT", "RAISE", "NOTICE", "signal", "IF", "LOOP", "WHILE", "ELSE", "EXCEPTION", "END"}
  BY <1>20 DEF Run!Accept, AcceptCases
<1> QED
  BY <1>1, <1>2, <1>3, <1>4, <1>5, <1>6, <1>7, <1>8, <1>9, <1>10, <1>11, <1>12, <1>13, <1>14, <1>15, <1>16, <1>17, <1>18, <1>20

\* What holds of the modes.
Tails == {"semicolon", "level", "declared"}
Statements0 == Simple \cup {"EXIT"}

LEMMA AcceptModes ==
    ASSUME NEW s \in State, NEW t, Run!Accept(s, t).mode # "error"
    PROVE  /\ s.mode # "error"
           /\ t \in Statements0 => Run!Accept(s, t).mode \in Tails
           /\ s.mode \in Tails /\ t # ";" =>
                 t \in {"COMMENT", "NOTICE"} /\ Run!Accept(s, t).mode \in Tails
<1>1. /\ Run!Then(s, "declaration").mode = "declaration" /\ Run!Then(s, "declared").mode = "declared"
      /\ Run!Then(s, "semicolon").mode = "semicolon" /\ Run!Then(s, "level").mode = "level"
      /\ Run!Then(s, "end").mode = "end" /\ Run!Then(s, "statement").mode = "statement"
      /\ Run!Then(s, "error").mode = "error"
  BY ThenState DEF Modes
<1>2. s.mode # "error"
  BY <1>1 DEF Run!Accept
<1>3. t \in Statements0 => Run!Accept(s, t).mode \in Tails
  BY <1>1 DEF Run!Accept, Statements0, Simple, Tails
<1>4. s.mode \in Tails /\ t # ";" => t \in {"COMMENT", "NOTICE"} /\ Run!Accept(s, t).mode \in Tails
  BY <1>1 DEF Run!Accept, Tails
<1> QED
  BY <1>2, <1>3, <1>4

\* What a token does to the constructs that are open.
StackMoves(s, t, a) ==
    /\ a \in State
    /\ Len(s.stack) \in Nat /\ Len(a.stack) \in Nat
    /\ t \in Run!Opens => Len(a.stack) = Len(s.stack) + 1
    /\ t = "END" => Len(a.stack) = Len(s.stack) - 1 /\ Len(s.stack) >= 1
    /\ t \notin Run!Opens \cup {"END"} => Len(a.stack) = Len(s.stack)
    /\ t \in {"ELSE", "EXCEPTION"} => Len(s.stack) >= 1
    /\ t = "EXIT" => \E i \in 1..Len(s.stack) : s.stack[i] = "LOOP"
    /\ \A i \in 1..Len(a.stack) : a.stack[i] = "LOOP" =>
          \/ i <= Len(s.stack) /\ s.stack[i] = "LOOP"
          \/ i = Len(s.stack) + 1 /\ t \in {"LOOP", "WHILE"}

LEMMA AcceptStack ==
    ASSUME NEW s \in State, NEW t, NEW a, a = Run!Accept(s, t), a.mode # "error"
    PROVE  StackMoves(s, t, a)
<1>0. /\ s.stack \in Seq(Open) /\ Len(s.stack) \in Nat /\ DOMAIN s.stack = 1..Len(s.stack)
  BY LenProperties DEF State
<1>1. CASE a = s /\ t \in {"COMMENT", "signal"}
  BY <1>0, <1>1 DEF Run!Opens, StackMoves
<1>2. CASE /\ a \in {Run!Then(s, "declaration"), Run!Then(s, "declared"), Run!Then(s, "semicolon"),
                     Run!Then(s, "level"), Run!Then(s, Run!AfterSemicolon(s))}
           /\ t \in {"DECLARE", "word", ";", "RETURN", "DIAGNOSTICS", "COMMIT", "EXIT", "RAISE", "NOTICE"}
           /\ t = "EXIT" => Run!InLoop(s)
  <2>1. a \in State /\ a.stack = s.stack
    <3>1. PICK m : m = Run!AfterSemicolon(s) /\ m \in Modes
      BY DEF Run!AfterSemicolon, Modes
    <3>2. PICK k \in Modes : a = Run!Then(s, k)
      BY <1>2, <3>1 DEF Modes
    <3> QED
      BY <3>2, ThenState
  <2>2. t = "EXIT" => \E i \in 1..Len(s.stack) : s.stack[i] = "LOOP"
    BY <1>0, <1>2 DEF Run!InLoop
  <2>3. t \notin Run!Opens \cup {"END", "ELSE", "EXCEPTION"}
    BY <1>2 DEF Run!Opens
  <2> QED
    BY <1>0, <2>1, <2>2, <2>3 DEF StackMoves
<1>3. ASSUME NEW c \in {"BEGIN", "IF", "LOOP"}, a = Run!Enter(s, c), t \in Run!Opens,
             c = "LOOP" => t \in {"LOOP", "WHILE"}
      PROVE  /\ a \in State /\ Len(a.stack) = Len(s.stack) + 1
             /\ \A i \in 1..Len(a.stack) : a.stack[i] = "LOOP" =>
                 \/ i <= Len(s.stack) /\ s.stack[i] = "LOOP"
                 \/ i = Len(s.stack) + 1 /\ t \in {"LOOP", "WHILE"}
  <2>1. /\ a \in State /\ Len(a.stack) = Len(s.stack) + 1
        /\ \A i \in 1..Len(s.stack) : a.stack[i] = s.stack[i]
        /\ a.stack[Len(s.stack) + 1] = c
    BY <1>3, EnterState DEF Open
  <2>2. ASSUME NEW i \in 1..Len(a.stack), a.stack[i] = "LOOP"
        PROVE  \/ i <= Len(s.stack) /\ s.stack[i] = "LOOP"
               \/ i = Len(s.stack) + 1 /\ t \in {"LOOP", "WHILE"}
    <3>1. i \in 1..Len(s.stack) \/ i = Len(s.stack) + 1
      BY <1>0, <2>1
    <3> QED
      BY <1>0, <1>3, <2>1, <2>2, <3>1
  <2> QED
    BY <2>1, <2>2
<1>4. CASE \/ a = Run!Enter(s, "BEGIN") /\ t = "BEGIN"
           \/ a = Run!Enter(s, "IF") /\ t = "IF"
           \/ a = Run!Enter(s, "LOOP") /\ t \in {"LOOP", "WHILE"}
  <2>1. t \in Run!Opens /\ t \notin {"END", "ELSE", "EXCEPTION", "EXIT"}
    BY <1>4 DEF Run!Opens
  <2>2. /\ a \in State /\ Len(a.stack) = Len(s.stack) + 1
        /\ \A i \in 1..Len(a.stack) : a.stack[i] = "LOOP" =>
              \/ i <= Len(s.stack) /\ s.stack[i] = "LOOP"
              \/ i = Len(s.stack) + 1 /\ t \in {"LOOP", "WHILE"}
    BY <1>3, <1>4, <2>1
  <2> QED
    BY <1>0, <2>1, <2>2 DEF StackMoves
<1>5. ASSUME NEW c \in {"ELSE", "EXCEPTION"}, a = Run!Swap(s, c), t = c, s.stack # <<>>
      PROVE  /\ a \in State /\ Len(a.stack) = Len(s.stack) /\ Len(s.stack) >= 1
             /\ \A i \in 1..Len(a.stack) : a.stack[i] = "LOOP" => s.stack[i] = "LOOP"
  <2>1. /\ a \in State /\ Len(a.stack) = Len(s.stack) /\ Len(s.stack) >= 1
        /\ \A i \in 1..(Len(s.stack) - 1) : a.stack[i] = s.stack[i]
        /\ a.stack[Len(s.stack)] = c
    BY <1>5, SwapState DEF Open
  <2>2. \A i \in 1..Len(a.stack) : i \in 1..(Len(s.stack) - 1) \/ i = Len(s.stack)
    BY <1>0, <2>1
  <2> QED
    BY <2>1, <2>2
<1>6. CASE \/ a = Run!Swap(s, "ELSE") /\ t = "ELSE" /\ Run!Inside(s, "IF")
           \/ a = Run!Swap(s, "EXCEPTION") /\ t = "EXCEPTION" /\ Run!Inside(s, "BEGIN")
  <2>1. s.stack # <<>> /\ t \notin Run!Opens \cup {"END", "EXIT"}
    BY <1>6 DEF Run!Inside, Run!Opens
  <2>2. /\ a \in State /\ Len(a.stack) = Len(s.stack) /\ Len(s.stack) >= 1
        /\ \A i \in 1..Len(a.stack) : a.stack[i] = "LOOP" => s.stack[i] = "LOOP"
    BY <1>5, <1>6, <2>1
  <2>3. \A i \in 1..Len(a.stack) : i <= Len(s.stack)
    BY <1>0, <2>2
  <2> QED
    BY <1>0, <2>1, <2>2, <2>3 DEF StackMoves
<1>7. CASE a = Run!Leave(s) /\ t = "END" /\ s.stack # <<>>
  <2>1. /\ a \in State /\ Len(s.stack) >= 1 /\ Len(a.stack) = Len(s.stack) - 1
        /\ \A i \in 1..(Len(s.stack) - 1) : a.stack[i] = s.stack[i]
    BY <1>7, LeaveState
  <2>2. \A i \in 1..Len(a.stack) : i <= Len(s.stack) /\ a.stack[i] = s.stack[i]
    BY <1>0, <2>1
  <2>3. t \notin Run!Opens \cup {"ELSE", "EXCEPTION", "EXIT"}
    BY <1>7 DEF Run!Opens
  <2> QED
    BY <1>0, <1>7, <2>1, <2>2, <2>3 DEF StackMoves
<1>8. a # Run!Then(s, "error")
  BY ThenState DEF Modes
<1>9. AcceptCases(s, t, a)
  BY AcceptShape
<1> QED
  BY <1>1, <1>2, <1>4, <1>6, <1>7, <1>8, <1>9 DEF AcceptCases

LEMMA AcceptTyped ==
    ASSUME NEW s \in State, NEW t
    PROVE  Run!Accept(s, t) \in State
<1>1. PICK a : a = Run!Accept(s, t)
  OBVIOUS
<1>2. CASE a.mode # "error"
  BY <1>1, <1>2, AcceptStack DEF StackMoves
<1>3. CASE a.mode = "error"
  <2>1. AcceptCases(s, t, a)
    BY <1>1, AcceptShape
  <2>2. PICK m \in Modes : m = Run!AfterSemicolon(s)
    BY DEF Run!AfterSemicolon, Modes
  <2>3. /\ Run!Then(s, "declaration") \in State /\ Run!Then(s, "declared") \in State
        /\ Run!Then(s, "semicolon") \in State /\ Run!Then(s, "level") \in State
        /\ Run!Then(s, m) \in State /\ Run!Then(s, "error") \in State
    BY ThenState DEF Modes
  <2>4. /\ Run!Enter(s, "BEGIN") \in State /\ Run!Enter(s, "IF") \in State
        /\ Run!Enter(s, "LOOP") \in State
    BY EnterState DEF Open
  <2>5. s.stack # <<>> =>
            Run!Swap(s, "ELSE") \in State /\ Run!Swap(s, "EXCEPTION") \in State /\ Run!Leave(s) \in State
    BY SwapState, LeaveState DEF Open
  <2>6. \A c : Run!Inside(s, c) => s.stack # <<>>
    BY DEF Run!Inside
  <2> QED
    BY <1>1, <2>1, <2>2, <2>3, <2>4, <2>5, <2>6 DEF AcceptCases
<1> QED
  BY <1>1, <1>2, <1>3

-----------------------------------------------------------------------------
(* The grammar, along the pieces                                            *)

St(p) == Run!Scanned[p]
StartState == [stack |-> <<>>, mode |-> "start"]

ScanOn(f, m) == f = [p \in 0..m |-> IF p = 0 THEN StartState ELSE Run!Accept(f[p - 1], Tok(p))]

LEMMA ScanExists == \A m \in Nat : \E f : ScanOn(f, m)
<1> SUFFICES ASSUME NEW B, B = {m \in Nat : ~\E f : ScanOn(f, m)}, B # {} PROVE FALSE
  OBVIOUS
<1>1. PICK m \in B : \A k \in B : m <= k
  BY LeastNumber
<1>2. m # 0
  <2>1. ScanOn([p \in 0..0 |-> StartState], 0)
    BY DEF ScanOn
  <2> QED
    BY <2>1
<1>3. PICK f : ScanOn(f, m - 1)
  BY <1>1, <1>2
<1> DEFINE g == [p \in 0..m |-> IF p = m THEN Run!Accept(f[m - 1], Tok(m)) ELSE f[p]]
<1>4. ScanOn(g, m)
  <2>1. m \in Nat /\ m > 0
    BY <1>1, <1>2
  <2>2. \A p \in 0..(m - 1) : f[p] = IF p = 0 THEN StartState ELSE Run!Accept(f[p - 1], Tok(p))
    BY <1>3, <2>1 DEF ScanOn
  <2>3. \A p \in 0..(m - 1) : g[p] = f[p]
    BY <2>1
  <2>4. ASSUME NEW p \in 0..m
        PROVE  g[p] = IF p = 0 THEN StartState ELSE Run!Accept(g[p - 1], Tok(p))
    <3>1. CASE p = m
      BY <2>1, <2>3, <3>1
    <3>2. CASE p # m
      <4>1. p \in 0..(m - 1) /\ (p # 0 => p - 1 \in 0..(m - 1))
        BY <2>1, <3>2
      <4> QED
        BY <2>2, <2>3, <4>1
    <3> QED
      BY <3>1, <3>2
  <2> QED
    BY <2>4 DEF ScanOn
<1> QED
  BY <1>1, <1>4

LEMMA ScanStep ==
    ASSUME N \in Nat
    PROVE  St(0) = StartState /\ \A p \in 1..N : St(p) = Run!Accept(St(p - 1), Tok(p))
<1>1. PICK f : ScanOn(f, N)
  BY ScanExists
<1>2. ScanOn(Run!Scanned, N)
  BY <1>1 DEF Run!Scanned, ScanOn, StartState, Tok, N
<1>3. \A p \in 0..N : Run!Scanned[p] = IF p = 0 THEN StartState ELSE Run!Accept(Run!Scanned[p - 1], Tok(p))
  BY <1>2 DEF ScanOn
<1>4. \A p \in 1..N : p \in 0..N /\ p # 0
  OBVIOUS
<1> QED
  BY <1>3, <1>4 DEF St

\* Nothing about a body that is accepted is an error.
LEMMA NoErrors ==
    ASSUME PiecesOK, Run!AcceptedPlpgsql
    PROVE  /\ \A p \in 0..N : St(p) \in State /\ St(p).mode # "error"
           /\ St(0).stack = <<>> /\ St(N).stack = <<>>
<1>1. N \in Nat /\ St(0) = StartState /\ \A p \in 1..N : St(p) = Run!Accept(St(p - 1), Tok(p))
  BY Pieces, ScanStep
<1>2. StartState \in State /\ StartState.stack = <<>>
  <2>1. <<>> \in Seq(Open)
    BY EmptySeq
  <2> QED
    BY <2>1 DEF StartState, State, Modes
<1>3. \A p \in 0..N : St(p) \in State
  <2> SUFFICES ASSUME NEW B, B = {p \in 0..N : St(p) \notin State}, B # {} PROVE FALSE
    OBVIOUS
  <2>0. N \in Nat
    BY <1>1
  <2>a. B \subseteq Nat
    BY <2>0
  <2>1. PICK p \in B : \A k \in B : p <= k
    BY <2>a, LeastNumber
  <2>2. p \in 1..N /\ p - 1 \in 0..N /\ p - 1 \notin B
    BY <1>1, <1>2, <2>1
  <2>3. St(p - 1) \in State
    BY <2>2
  <2>4. St(p) \in State
    BY <1>1, <2>2, <2>3, AcceptTyped
  <2> QED
    BY <2>1, <2>4
<1>4. St(N).stack = <<>> /\ St(N).mode # "error"
  BY DEF Run!AcceptedPlpgsql, St, N
<1>5. \A p \in 0..N : St(p).mode # "error"
  <2> SUFFICES ASSUME NEW q \in 0..N, St(q).mode = "error" PROVE FALSE
    OBVIOUS
  <2>1. PICK B : B = {p \in q..N : St(p).mode # "error"}
    OBVIOUS
  <2>2. B \subseteq Nat /\ B # {}
    BY <1>1, <1>4, <2>1
  <2>3. PICK p \in B : \A k \in B : p <= k
    BY <2>2, LeastNumber
  <2>4. p \in 1..N /\ p - 1 \in q..N /\ p - 1 \in 0..N /\ p - 1 \notin B /\ St(p).mode # "error"
    BY <1>1, <2>1, <2>3
  <2>5. St(p - 1).mode = "error"
    BY <2>1, <2>4
  <2>6. St(p - 1) \in State /\ St(p) = Run!Accept(St(p - 1), Tok(p))
    BY <1>1, <1>3, <2>4
  <2>7. PICK s, t : s \in State /\ s = St(p - 1) /\ t = Tok(p)
    BY <2>6
  <2>8. Run!Accept(s, t).mode # "error"
    BY <2>4, <2>6, <2>7
  <2>9. s.mode # "error"
    BY <2>7, <2>8, AcceptModes
  <2> QED
    BY <2>5, <2>7, <2>9
<1> QED
  BY <1>1, <1>2, <1>3, <1>4, <1>5

NoSemicolon(q, r) == \A x \in (q + 1)..r : Tok(x) # ";"

\* After a statement come comments, up to the semicolon; the level of a RAISE may be one.
LEMMA AfterStatement ==
    ASSUME PiecesOK, Run!AcceptedPlpgsql, NEW q \in 1..N, Tok(q) \in Statements0, NEW r \in 1..N, q < r,
           NoSemicolon(q, r)
    PROVE  Tok(r) \in {"COMMENT", "NOTICE"}
<1>0. N \in Nat /\ q \in Int /\ r \in Int /\ 1 <= q /\ q < r /\ r <= N
  BY Pieces
<1>1. /\ N \in Nat /\ \A p \in 1..N : St(p) = Run!Accept(St(p - 1), Tok(p))
      /\ \A p \in 0..N : St(p) \in State /\ St(p).mode # "error"
  BY Pieces, ScanStep, NoErrors
<1>2. ASSUME NEW p \in 1..N
      PROVE  /\ Tok(p) \in Statements0 => St(p).mode \in Tails
             /\ St(p - 1).mode \in Tails /\ Tok(p) # ";" =>
                   Tok(p) \in {"COMMENT", "NOTICE"} /\ St(p).mode \in Tails
  <2>1. p \in 0..N /\ p - 1 \in 0..N
    BY <1>0
  <2>2. St(p - 1) \in State /\ St(p) = Run!Accept(St(p - 1), Tok(p)) /\ St(p).mode # "error"
    BY <1>1, <2>1
  <2> QED
    BY <2>2, AcceptModes
<1>3. PICK B : B = {x \in q..r : St(x).mode \notin Tails}
  OBVIOUS
<1>4. B = {}
  <2> SUFFICES ASSUME B # {} PROVE FALSE
    OBVIOUS
  <2>1. B \subseteq Nat
    BY <1>0, <1>3
  <2>2. PICK x \in B : \A k \in B : x <= k
    BY <2>1, LeastNumber
  <2>3. x # q
    BY <1>2, <1>3, <2>2
  <2>a. x \in q..r
    BY <1>3
  <2>4. x \in (q + 1)..r /\ x \in 1..N /\ x - 1 \in q..r /\ x - 1 < x
    BY <1>0, <2>3, <2>a
  <2>b. x - 1 \notin B
    BY <2>2, <2>4
  <2>5. St(x - 1).mode \in Tails
    BY <1>3, <2>4, <2>b
  <2>6. St(x).mode \in Tails
    <3>1. Tok(x) # ";"
      BY <2>4 DEF NoSemicolon
    <3> QED
      BY <1>2, <2>4, <2>5, <3>1
  <2> QED
    BY <1>3, <2>2, <2>6
<1>5. r - 1 \in q..r /\ r \in 1..N /\ r \in (q + 1)..r
  BY <1>0
<1>6. St(r - 1).mode \in Tails
  BY <1>3, <1>4, <1>5
<1>7. Tok(r) # ";"
  BY <1>5 DEF NoSemicolon
<1> QED
  BY <1>2, <1>5, <1>6, <1>7

-----------------------------------------------------------------------------
(* What is open                                                             *)

LEMMA LeastOf ==
    ASSUME NEW A \in SUBSET Nat, A # {}
    PROVE  Run!Min(A) \in A /\ \A k \in A : Run!Min(A) <= k
<1>1. \E m \in A : \A k \in A : m <= k
  BY LeastNumber
<1> QED
  BY <1>1 DEF Run!Min

LEMMA GreatestOf ==
    ASSUME NEW z \in Nat, NEW A \in SUBSET (1..z), A # {}
    PROVE  Run!Max(A) \in A /\ \A k \in A : k <= Run!Max(A)
<1>1. \E m \in A : \A k \in A : k <= m
  BY GreatestNumber
<1> QED
  BY <1>1 DEF Run!Max

LEMMA SameCardinality == \A S : Run!Cardinality(S) = Cardinality(S)
BY DEF Run!Cardinality, Cardinality

D(p) == Run!Depth(p)

\* One piece more in a set of pieces.
LEMMA OneMorePiece ==
    ASSUME NEW p \in Nat, p >= 1, NEW A, NEW B,
           \A q \in Nat : q \in A <=> (q \in B \/ (q = p /\ p \in A)),
           A \subseteq 1..p, B \subseteq 1..(p - 1)
    PROVE  /\ Cardinality(B) \in Nat
           /\ Cardinality(A) = IF p \in A THEN Cardinality(B) + 1 ELSE Cardinality(B)
<1>1. IsFiniteSet(B) /\ Cardinality(B) \in Nat
  <2>1. IsFiniteSet(1..(p - 1))
    BY FS_Interval
  <2>2. IsFiniteSet(B)
    BY <2>1, FS_Subset
  <2> QED
    BY <2>2, FS_CardinalityType
<1>a. (\A x \in A : x \in Nat) /\ (\A x \in B : x \in Nat /\ x # p)
  <2>1. (\A x \in 1..p : x \in Nat) /\ (\A x \in 1..(p - 1) : x \in Nat /\ x # p)
    OBVIOUS
  <2> QED
    BY <2>1
<1>b. \A x : x \in A <=> (x \in B \/ (x = p /\ p \in A))
  BY <1>a
<1>2. CASE p \in A
  <2>1. A = B \cup {p} /\ p \notin B
    BY <1>2, <1>a, <1>b
  <2> QED
    BY <1>1, <1>2, <2>1, FS_AddElement
<1>3. CASE p \notin A
  <2>1. A = B
    BY <1>3, <1>b
  <2> QED
    BY <1>1, <1>3, <2>1
<1> QED
  BY <1>2, <1>3

LEMMA DepthSteps ==
    ASSUME N \in Nat
    PROVE  /\ D(0) = 0
           /\ \A p \in 1..N : /\ D(p - 1) \in Int
                              /\ Tok(p) \in Run!Opens => D(p) = D(p - 1) + 1
                              /\ Tok(p) = "END" => D(p) = D(p - 1) - 1
                              /\ Tok(p) \notin Run!Opens \cup {"END"} => D(p) = D(p - 1)
<1> DEFINE A(p) == {q \in 1..p : Tok(q) \in Run!Opens}
<1> DEFINE B(p) == {q \in 1..p : Tok(q) = "END"}
<1>1. \A p : D(p) = Cardinality(A(p)) - Cardinality(B(p))
  BY SameCardinality DEF D, Run!Depth, Tok
<1>2. D(0) = 0
  <2>1. 1..0 = {}
    OBVIOUS
  <2>2. A(0) = {} /\ B(0) = {}
    BY <2>1
  <2>3. Cardinality({}) = 0
    BY FS_EmptySet
  <2> QED
    BY <1>1, <2>2, <2>3
<1>3. ASSUME NEW p \in 1..N
      PROVE  /\ Cardinality(A(p - 1)) \in Nat /\ Cardinality(B(p - 1)) \in Nat
             /\ Cardinality(A(p)) = IF Tok(p) \in Run!Opens THEN Cardinality(A(p - 1)) + 1
                                                            ELSE Cardinality(A(p - 1))
             /\ Cardinality(B(p)) = IF Tok(p) = "END" THEN Cardinality(B(p - 1)) + 1
                                                      ELSE Cardinality(B(p - 1))
  <2>1. p \in Nat /\ p >= 1
    OBVIOUS
  <2>2. \A q \in Nat : q \in 1..p <=> q \in 1..(p - 1) \/ q = p
    BY <2>1
  <2>3. p \in A(p) <=> Tok(p) \in Run!Opens
    BY <2>1
  <2>4. p \in B(p) <=> Tok(p) = "END"
    BY <2>1
  <2>5. /\ \A q \in Nat : q \in A(p) <=> (q \in A(p - 1) \/ (q = p /\ p \in A(p)))
        /\ A(p) \subseteq 1..p /\ A(p - 1) \subseteq 1..(p - 1)
    BY <2>2, <2>3
  <2>6. /\ \A q \in Nat : q \in B(p) <=> (q \in B(p - 1) \/ (q = p /\ p \in B(p)))
        /\ B(p) \subseteq 1..p /\ B(p - 1) \subseteq 1..(p - 1)
    BY <2>2, <2>4
  <2>7. PICK a, c, b, d : a = A(p) /\ c = A(p - 1) /\ b = B(p) /\ d = B(p - 1)
    OBVIOUS
  <2> HIDE DEF A, B
  <2>8. Cardinality(c) \in Nat /\ Cardinality(a) = IF p \in a THEN Cardinality(c) + 1 ELSE Cardinality(c)
    BY <2>1, <2>5, <2>7, OneMorePiece
  <2>9. Cardinality(d) \in Nat /\ Cardinality(b) = IF p \in b THEN Cardinality(d) + 1 ELSE Cardinality(d)
    BY <2>1, <2>6, <2>7, OneMorePiece
  <2> QED
    BY <2>3, <2>4, <2>7, <2>8, <2>9
<1>4. "END" \notin Run!Opens
  BY DEF Run!Opens
<1> HIDE DEF A, B
<1>5. ASSUME NEW p \in 1..N
      PROVE  /\ D(p - 1) \in Int
             /\ Tok(p) \in Run!Opens => D(p) = D(p - 1) + 1
             /\ Tok(p) = "END" => D(p) = D(p - 1) - 1
             /\ Tok(p) \notin Run!Opens \cup {"END"} => D(p) = D(p - 1)
  <2>1. /\ D(p) = Cardinality(A(p)) - Cardinality(B(p))
        /\ D(p - 1) = Cardinality(A(p - 1)) - Cardinality(B(p - 1))
    BY <1>1
  <2> QED
    BY <1>3, <1>4, <2>1
<1> QED
  BY <1>2, <1>5

\* The depth is the height of the stack.
LEMMA DepthIsHeight ==
    ASSUME PiecesOK, Run!AcceptedPlpgsql
    PROVE  \A p \in 0..N : Len(St(p).stack) \in Nat /\ D(p) = Len(St(p).stack)
<1>0. N \in Nat
  BY Pieces
<1>1. D(0) = Len(St(0).stack) /\ Len(St(0).stack) \in Nat
  BY <1>0, NoErrors, DepthSteps
<1>2. ASSUME NEW p \in 1..N, D(p - 1) = Len(St(p - 1).stack), Len(St(p - 1).stack) \in Nat
      PROVE  D(p) = Len(St(p).stack) /\ Len(St(p).stack) \in Nat
  <2>1. p \in 0..N /\ p - 1 \in 0..N
    BY <1>0
  <2>2. PICK s, a, t : s \in State /\ s = St(p - 1) /\ a = St(p) /\ t = Tok(p) /\ a.mode # "error"
    BY <2>1, NoErrors
  <2>3. a = Run!Accept(s, t)
    BY <1>0, <2>2, ScanStep
  <2>4. StackMoves(s, t, a)
    BY <2>2, <2>3, AcceptStack
  <2>5. D(p - 1) = Len(s.stack)
    BY <1>2, <2>2
  <2>6. D(p) = Len(a.stack) /\ Len(a.stack) \in Nat
    BY <1>0, <2>2, <2>4, <2>5, DepthSteps DEF StackMoves
  <2> QED
    BY <2>2, <2>6
<1>3. PICK B : B = {p \in 0..N : ~(D(p) = Len(St(p).stack) /\ Len(St(p).stack) \in Nat)}
  OBVIOUS
<1>4. B = {}
  <2> SUFFICES ASSUME B # {} PROVE FALSE
    OBVIOUS
  <2>1. B \subseteq Nat
    BY <1>0, <1>3
  <2>2. PICK p \in B : \A k \in B : p <= k
    BY <2>1, LeastNumber
  <2>3. p \in 0..N /\ p # 0
    BY <1>1, <1>3
  <2>4. p \in 1..N /\ p - 1 \in 0..N /\ p - 1 < p
    BY <1>0, <2>3
  <2>5. p - 1 \notin B
    BY <2>2, <2>4
  <2>6. D(p - 1) = Len(St(p - 1).stack) /\ Len(St(p - 1).stack) \in Nat
    BY <1>3, <2>4, <2>5
  <2>7. D(p) = Len(St(p).stack) /\ Len(St(p).stack) \in Nat
    BY <1>2, <2>4, <2>6
  <2> QED
    BY <1>3, <2>7
<1> QED
  BY <1>3, <1>4

Loops == {"LOOP", "WHILE"}

\* Piece q opens the i-th construct that is open after piece p.
OpenAt(q, p, i) ==
    /\ q \in 1..N /\ q <= p /\ D(q) = i
    /\ \A r \in 1..N : q <= r /\ r <= p => D(r) >= i

LoopsOpen(p) ==
    \A i \in 1..Len(St(p).stack) :
        St(p).stack[i] = "LOOP" => \E q \in 1..N : Tok(q) \in Loops /\ OpenAt(q, p, i)

LEMMA LoopsAreOpen ==
    ASSUME PiecesOK, Run!AcceptedPlpgsql
    PROVE  \A p \in 0..N : LoopsOpen(p)
<1>0. N \in Nat
  BY Pieces
<1>1. LoopsOpen(0)
  <2>1. St(0).stack = <<>> /\ Len(<<>>) = 0
    BY NoErrors
  <2> QED
    BY <2>1 DEF LoopsOpen
<1>2. ASSUME NEW p \in 1..N, LoopsOpen(p - 1) PROVE LoopsOpen(p)
  <2>0. p \in 0..N /\ p - 1 \in 0..N /\ p \in Nat /\ p - 1 < p /\ p >= 1 /\ p - 1 \in Nat
    BY <1>0
  <2>1. PICK s, a, t : s \in State /\ s = St(p - 1) /\ a = St(p) /\ t = Tok(p) /\ a.mode # "error"
    BY <2>0, NoErrors
  <2>2. StackMoves(s, t, a)
    <3>1. a = Run!Accept(s, t)
      BY <1>0, <2>1, ScanStep
    <3> QED
      BY <2>1, <3>1, AcceptStack
  <2>3. D(p) = Len(a.stack) /\ D(p - 1) = Len(s.stack) /\ Len(a.stack) \in Nat /\ Len(s.stack) \in Nat
    <3>1. Len(St(p).stack) \in Nat /\ D(p) = Len(St(p).stack)
      BY <2>0, DepthIsHeight
    <3>2. Len(St(p - 1).stack) \in Nat /\ D(p - 1) = Len(St(p - 1).stack)
      BY <2>0, DepthIsHeight
    <3> QED
      BY <2>1, <3>1, <3>2
  <2>4. ASSUME NEW i \in 1..Len(a.stack), a.stack[i] = "LOOP"
        PROVE  \E q \in 1..N : Tok(q) \in Loops /\ OpenAt(q, p, i)
    <3>1. i \in Int /\ i <= Len(a.stack) /\ i >= 1
      BY <2>3
    <3>2. CASE i <= Len(s.stack) /\ s.stack[i] = "LOOP"
      <4>1. i \in 1..Len(St(p - 1).stack) /\ St(p - 1).stack[i] = "LOOP"
        BY <2>1, <2>3, <3>1, <3>2
      <4>2. PICK q \in 1..N : Tok(q) \in Loops /\ OpenAt(q, p - 1, i)
        BY <1>2, <4>1 DEF LoopsOpen
      <4>3. ASSUME NEW r \in 1..N, q <= r, r <= p PROVE D(r) >= i
        <5>1. CASE r = p
          BY <2>3, <3>1, <5>1
        <5>2. CASE r # p
          <6>1. r <= p - 1
            BY <2>0, <4>3, <5>2
          <6> QED
            BY <4>2, <4>3, <6>1 DEF OpenAt
        <5> QED
          BY <5>1, <5>2
      <4>4. q <= p
        <5>1. q <= p - 1
          BY <4>2 DEF OpenAt
        <5> QED
          BY <2>0, <5>1
      <4>5. D(q) = i
        BY <4>2 DEF OpenAt
      <4> QED
        BY <4>2, <4>3, <4>4, <4>5 DEF OpenAt
    <3>3. CASE i = Len(s.stack) + 1 /\ t \in {"LOOP", "WHILE"}
      <4>1. t \in Run!Opens
        BY <3>3 DEF Run!Opens
      <4>2. D(p) = i
        BY <2>2, <2>3, <3>3, <4>1 DEF StackMoves
      <4>3. \A r \in 1..N : p <= r /\ r <= p => D(r) >= i
        <5> SUFFICES ASSUME NEW r \in 1..N, p <= r, r <= p PROVE D(r) >= i
          OBVIOUS
        <5>1. r = p
          BY <2>0
        <5> QED
          BY <3>1, <4>2, <5>1
      <4>4. p <= p /\ Tok(p) \in Loops
        BY <2>0, <2>1, <3>3 DEF Loops
      <4> QED
        BY <4>2, <4>3, <4>4 DEF OpenAt
    <3> QED
      BY <2>2, <2>4, <3>2, <3>3 DEF StackMoves
  <2> QED
    BY <2>1, <2>4 DEF LoopsOpen
<1>3. PICK B : B = {p \in 0..N : ~LoopsOpen(p)}
  OBVIOUS
<1>4. B = {}
  <2> SUFFICES ASSUME B # {} PROVE FALSE
    OBVIOUS
  <2>1. B \subseteq Nat
    BY <1>0, <1>3
  <2>2. PICK p \in B : \A k \in B : p <= k
    BY <2>1, LeastNumber
  <2>3. p \in 0..N /\ p # 0
    BY <1>1, <1>3
  <2>4. p \in 1..N /\ p - 1 \in 0..N /\ p - 1 < p
    BY <1>0, <2>3
  <2>5. p - 1 \notin B
    BY <2>2, <2>4
  <2>6. LoopsOpen(p - 1)
    BY <1>3, <2>4, <2>5
  <2>7. LoopsOpen(p)
    BY <1>2, <2>4, <2>6
  <2> QED
    BY <1>3, <2>7
<1> QED
  BY <1>3, <1>4

\* How the constructs of a body nest.
Nested ==
    /\ N \in Nat
    /\ \A p \in 0..N : D(p) \in Nat
    /\ D(0) = 0 /\ D(N) = 0
    /\ \A p \in 1..N : /\ Tok(p) \in Run!Opens => D(p) = D(p - 1) + 1
                       /\ Tok(p) = "END" => D(p) = D(p - 1) - 1
                       /\ Tok(p) \notin Run!Opens \cup {"END"} => D(p) = D(p - 1)
                       /\ Tok(p) \in {"ELSE", "EXCEPTION"} => D(p) >= 1
                       /\ Tok(p) = "EXIT" =>
                            \E q \in 1..N : q < p /\ Tok(q) \in Loops /\ OpenAt(q, p, D(q))

LEMMA AcceptedNested ==
    ASSUME PiecesOK, Run!AcceptedPlpgsql
    PROVE  Nested
<1>0. N \in Nat
  BY Pieces
<1>1. \A p \in 0..N : Len(St(p).stack) \in Nat /\ D(p) = Len(St(p).stack)
  BY DepthIsHeight
<1>2. D(0) = 0 /\ D(N) = 0
  <2>1. St(N).stack = <<>> /\ Len(<<>>) = 0 /\ N \in 0..N
    BY <1>0, NoErrors
  <2> QED
    BY <1>0, <1>1, <2>1, DepthSteps
<1>3. ASSUME NEW p \in 1..N
      PROVE  /\ Tok(p) \in {"ELSE", "EXCEPTION"} => D(p) >= 1
             /\ Tok(p) = "EXIT" =>
                  \E q \in 1..N : q < p /\ Tok(q) \in Loops /\ OpenAt(q, p, D(q))
  <2>0. p \in 0..N /\ p - 1 \in 0..N /\ p \in Nat /\ p - 1 < p /\ p >= 1 /\ p - 1 \in Nat
    BY <1>0
  <2>1. PICK s, a, t : s \in State /\ s = St(p - 1) /\ a = St(p) /\ t = Tok(p) /\ a.mode # "error"
    BY <2>0, NoErrors
  <2>2. StackMoves(s, t, a)
    <3>1. a = Run!Accept(s, t)
      BY <1>0, <2>1, ScanStep
    <3> QED
      BY <2>1, <3>1, AcceptStack
  <2>3. D(p) = Len(a.stack) /\ D(p - 1) = Len(s.stack) /\ Len(s.stack) \in Nat
    <3>1. D(p) = Len(St(p).stack)
      BY <1>1, <2>0
    <3>2. D(p - 1) = Len(St(p - 1).stack) /\ Len(St(p - 1).stack) \in Nat
      BY <1>1, <2>0
    <3> QED
      BY <2>1, <3>1, <3>2
  <2>4. ASSUME t \in {"ELSE", "EXCEPTION"} PROVE D(p) >= 1
    <3>1. t \notin Run!Opens \cup {"END"}
      BY <2>4 DEF Run!Opens
    <3> QED
      BY <2>2, <2>3, <2>4, <3>1 DEF StackMoves
  <2>5. ASSUME t = "EXIT" PROVE \E q \in 1..N : q < p /\ Tok(q) \in Loops /\ OpenAt(q, p, D(q))
    <3>1. PICK i \in 1..Len(s.stack) : s.stack[i] = "LOOP"
      BY <2>2, <2>5 DEF StackMoves
    <3>2. LoopsOpen(p - 1)
      BY <2>0, LoopsAreOpen
    <3>3. PICK q \in 1..N : Tok(q) \in Loops /\ OpenAt(q, p - 1, i)
      BY <2>1, <3>1, <3>2 DEF LoopsOpen
    <3>4. q <= p - 1 /\ D(q) = i
      BY <3>3 DEF OpenAt
    <3>5. q < p /\ q <= p
      BY <2>0, <3>4
    <3>6. D(p) = D(p - 1) /\ i <= D(p - 1) /\ i \in Nat /\ i >= 1
      <4>1. t \notin Run!Opens \cup {"END"}
        BY <2>5 DEF Run!Opens
      <4>2. Len(a.stack) = Len(s.stack)
        BY <2>2, <4>1 DEF StackMoves
      <4> QED
        BY <2>3, <3>1, <4>2
    <3>7. ASSUME NEW r \in 1..N, q <= r, r <= p PROVE D(r) >= i
      <4>1. CASE r = p
        BY <2>3, <3>6, <4>1
      <4>2. CASE r # p
        <5>1. r <= p - 1
          BY <2>0, <3>7, <4>2
        <5> QED
          BY <3>3, <3>7, <5>1 DEF OpenAt
      <4> QED
        BY <4>1, <4>2
    <3>8. OpenAt(q, p, D(q))
      BY <3>4, <3>5, <3>7 DEF OpenAt
    <3> QED
      BY <3>3, <3>5, <3>8
  <2> QED
    BY <2>1, <2>4, <2>5
<1> QED
  BY <1>0, <1>1, <1>2, <1>3, DepthSteps DEF Nested

\* Piece e is the END of the innermost construct that is open after piece p.
Closes(p, e) ==
    /\ e \in 1..N /\ p < e /\ Tok(e) = "END" /\ D(e) = D(p) - 1
    /\ \A r \in 1..N : p <= r /\ r < e => D(r) >= D(p)

LEMMA EndExists ==
    ASSUME Nested, NEW p \in 1..N, D(p) >= 1
    PROVE  Closes(p, Run!EndOf(p))
<1>0. N \in Nat /\ p \in Nat /\ D(p) \in Nat /\ D(N) = 0 /\ p <= N /\ p >= 1
  BY DEF Nested
<1>1. PICK C : C = {q \in p..N : D(q) < D(p)}
  OBVIOUS
<1>2. N \in C /\ C \subseteq Nat
  BY <1>0, <1>1
<1>3. PICK m \in C : \A k \in C : m <= k
  BY <1>2, LeastNumber
<1>4. m \in p..N /\ m # p /\ D(m) < D(p)
  BY <1>0, <1>1, <1>3
<1>5. m \in 1..N /\ m - 1 \in p..N /\ m \in Nat /\ m - 1 < m /\ m - 1 \in 0..N /\ p < m
  BY <1>0, <1>4
<1>6. m - 1 \notin C
  BY <1>3, <1>5
<1>7. D(m - 1) >= D(p) /\ D(m - 1) \in Nat /\ D(m) \in Nat
  <2>1. D(m - 1) \in Nat
    BY <1>5 DEF Nested
  <2>2. D(m) \in Nat
    BY <1>5 DEF Nested
  <2>3. ~(D(m - 1) < D(p))
    BY <1>1, <1>5, <1>6
  <2> QED
    BY <1>0, <2>1, <2>2, <2>3
<1>8. Tok(m) = "END" /\ D(m) = D(p) - 1
  <2>1. /\ Tok(m) \in Run!Opens => D(m) = D(m - 1) + 1
        /\ Tok(m) = "END" => D(m) = D(m - 1) - 1
        /\ Tok(m) \notin Run!Opens \cup {"END"} => D(m) = D(m - 1)
    BY <1>5 DEF Nested
  <2> QED
    BY <1>0, <1>4, <1>7, <2>1
<1>9. PICK A : A = {q \in p..N : Tok(q) = "END" /\ D(q) < D(p)}
  OBVIOUS
<1>10. Run!EndOf(p) = Run!Min(A)
  BY <1>9 DEF Run!EndOf, Tok, D, N
<1>11. m \in A /\ A \subseteq C /\ A \subseteq Nat
  BY <1>0, <1>1, <1>4, <1>8, <1>9
<1>12. PICK e \in A : e = Run!Min(A) /\ \A k \in A : e <= k
  BY <1>11, LeastOf
<1>13. e <= m /\ m <= e /\ e \in Nat /\ m \in Nat
  BY <1>3, <1>5, <1>11, <1>12
<1>14. Run!EndOf(p) = m
  BY <1>10, <1>12, <1>13
<1>15. ASSUME NEW r \in 1..N, p <= r, r < m PROVE D(r) >= D(p)
  <2>1. r \in p..N /\ r \notin C /\ r \in 0..N
    BY <1>0, <1>3, <1>5, <1>15
  <2>2. D(r) \in Nat
    BY <2>1 DEF Nested
  <2> QED
    BY <1>0, <1>1, <2>1, <2>2
<1> QED
  BY <1>5, <1>8, <1>14, <1>15 DEF Closes

LEMMA OpenerExists ==
    ASSUME Nested, NEW e \in 1..N, Tok(e) = "END"
    PROVE  \E q \in 1..N : q < e /\ Tok(q) \in Run!Opens /\ Run!EndOf(q) = e
<1>0. N \in Nat /\ e \in Nat /\ e >= 1 /\ e <= N /\ e - 1 \in 0..N /\ e \in 0..N /\ 0 \in 0..N
  BY DEF Nested
<1>1. D(e) = D(e - 1) - 1 /\ D(0) = 0
  BY DEF Nested
<1>2. D(e) \in Nat /\ D(e - 1) \in Nat
  BY <1>0 DEF Nested
<1>3. PICK C : C = {q \in 1..(e - 1) : D(q - 1) < D(e - 1)}
  OBVIOUS
<1>4. e - 1 \in Nat /\ e - 1 >= 1
  <2>1. e - 1 # 0
    BY <1>1, <1>2
  <2> QED
    BY <1>0, <2>1
<1>5. 1 \in C
  <2>1. 1 \in 1..(e - 1) /\ 1 - 1 = 0
    BY <1>4
  <2> QED
    BY <1>1, <1>2, <1>3, <2>1
<1>6. C \subseteq 1..(e - 1)
  BY <1>3
<1>7. PICK q \in C : \A k \in C : k <= q
  BY <1>4, <1>5, <1>6, GreatestOf
<1>8. q \in Nat /\ q >= 1 /\ q <= e - 1 /\ q \in 1..N /\ q - 1 \in 0..N /\ q \in 0..N /\ q < e
  BY <1>0, <1>4, <1>6, <1>7
<1>9. ASSUME NEW r \in 1..N, q <= r, r < e PROVE D(r) >= D(e - 1) /\ D(r) \in Nat
  <2>0. D(r) \in Nat
    <3>1. r \in 0..N
      BY <1>0
    <3> QED
      BY <3>1 DEF Nested
  <2>1. CASE r = e - 1
    BY <1>2, <2>0, <2>1
  <2>2. CASE r # e - 1
    <3>1. r + 1 \in 1..(e - 1) /\ r + 1 > q /\ (r + 1) - 1 = r
      BY <1>0, <1>8, <1>9, <2>2
    <3>2. r + 1 \notin C
      BY <1>0, <1>7, <1>8, <3>1
    <3>3. ~(D(r) < D(e - 1))
      BY <1>3, <3>1, <3>2
    <3> QED
      BY <1>2, <2>0, <3>3
  <2> QED
    BY <2>1, <2>2
<1>10. D(q - 1) < D(e - 1) /\ D(q - 1) \in Nat /\ D(q) \in Nat /\ D(q) >= D(e - 1)
  <2>1. D(q - 1) < D(e - 1)
    BY <1>3, <1>7
  <2>2. D(q - 1) \in Nat
    BY <1>8 DEF Nested
  <2>3. q <= q
    BY <1>8
  <2> QED
    BY <1>8, <1>9, <2>1, <2>2, <2>3
<1>11. Tok(q) \in Run!Opens /\ D(q) = D(e - 1)
  <2>1. /\ Tok(q) \in Run!Opens => D(q) = D(q - 1) + 1
        /\ Tok(q) = "END" => D(q) = D(q - 1) - 1
        /\ Tok(q) \notin Run!Opens \cup {"END"} => D(q) = D(q - 1)
    BY <1>8 DEF Nested
  <2> QED
    BY <1>2, <1>10, <2>1
<1>12. D(q) >= 1 /\ D(e) = D(q) - 1
  BY <1>1, <1>2, <1>11
<1>13. PICK f : f = Run!EndOf(q) /\ Closes(q, f)
  BY <1>8, <1>12, EndExists
<1>14. f \in 1..N /\ q < f /\ D(f) = D(q) - 1 /\ \A r \in 1..N : q <= r /\ r < f => D(r) >= D(q)
  BY <1>13 DEF Closes
<1>15. ~(f < e)
  <2> SUFFICES ASSUME f < e PROVE FALSE
    OBVIOUS
  <2>1. D(f) >= D(e - 1)
    BY <1>0, <1>8, <1>9, <1>14
  <2> QED
    BY <1>2, <1>11, <1>14, <2>1
<1>16. ~(e < f)
  <2> SUFFICES ASSUME e < f PROVE FALSE
    OBVIOUS
  <2>1. D(e) >= D(q)
    BY <1>8, <1>14
  <2> QED
    BY <1>2, <1>12, <1>10, <2>1
<1>17. f = e
  BY <1>0, <1>14, <1>15, <1>16
<1> QED
  BY <1>8, <1>11, <1>13, <1>17

\* Piece x is a branch, or the end, of what is open after piece c.
Part(c, x) ==
    /\ c < x /\ D(x) <= D(c)
    /\ Tok(x) = "END" => D(x) < D(c)
    /\ \A r \in 1..N : c <= r /\ r < x => D(r) >= D(c)

LEMMA EndIsPart ==
    ASSUME Nested, NEW c \in 1..N, NEW e \in 1..N, Closes(c, e)
    PROVE  Part(c, e)
<1>1. D(c) \in Nat
  <2>1. c \in 0..N
    BY DEF Nested
  <2> QED
    BY <2>1 DEF Nested
<1> QED
  BY <1>1 DEF Closes, Part

\* What a construct opens ends before its next branch does.
LEMMA InnerEnds ==
    ASSUME Nested, NEW c \in 1..N, NEW q \in 1..N, NEW x \in 1..N, Part(c, x), c < q, q < x,
           Tok(q) \in Run!Opens
    PROVE  Run!EndOf(q) \in 1..N /\ q < Run!EndOf(q) /\ Run!EndOf(q) < x
<1>0. N \in Nat /\ q - 1 \in 0..N /\ q - 1 \in 1..N /\ c <= q - 1 /\ q - 1 < x /\ q \in Nat /\ x \in Nat
      /\ x \in 0..N /\ c \in 0..N /\ q \in 0..N
  BY DEF Nested
<1>1. D(q) = D(q - 1) + 1
  BY DEF Nested
<1>2. D(q - 1) \in Nat /\ D(x) \in Nat /\ D(c) \in Nat
  BY <1>0 DEF Nested
<1>3. D(q - 1) >= D(c) /\ D(x) <= D(c) /\ (Tok(x) = "END" => D(x) < D(c))
  BY <1>0 DEF Part
<1>4. PICK e : e = Run!EndOf(q) /\ Closes(q, e)
  <2>1. D(q) >= 1
    BY <1>1, <1>2
  <2> QED
    BY <2>1, EndExists
<1>5. /\ e \in 1..N /\ q < e /\ Tok(e) = "END" /\ D(e) = D(q) - 1
      /\ \A r \in 1..N : q <= r /\ r < e => D(r) >= D(q)
  BY <1>4 DEF Closes
<1>6. ~(x < e)
  <2> SUFFICES ASSUME x < e PROVE FALSE
    OBVIOUS
  <2>1. D(x) >= D(q)
    BY <1>0, <1>5
  <2> QED
    BY <1>1, <1>2, <1>3, <2>1
<1>7. e # x
  <2> SUFFICES ASSUME e = x PROVE FALSE
    OBVIOUS
  <2>1. D(x) < D(c) /\ D(x) = D(q) - 1
    BY <1>3, <1>5
  <2> QED
    BY <1>1, <1>2, <1>3, <2>1
<1> QED
  BY <1>0, <1>4, <1>5, <1>6, <1>7

\* A failure at piece x is handled by the block that piece b begins.
HandledBy(b, x) ==
    /\ b \in 1..N /\ Tok(b) = "BEGIN" /\ b < x
    /\ \E e \in 1..N : Tok(e) = "EXCEPTION" /\ Part(b, e) /\ x < e

LEMMA OpenDepth ==
    ASSUME Nested, NEW c \in 1..N, Tok(c) \in Run!Opens \cup {"ELSE", "EXCEPTION"}
    PROVE  D(c) \in Nat /\ D(c) >= 1
<1>1. c - 1 \in 0..N /\ c \in 0..N
  BY DEF Nested
<1>2. D(c - 1) \in Nat /\ D(c) \in Nat
  BY <1>1 DEF Nested
<1>3. Tok(c) \in Run!Opens => D(c) = D(c - 1) + 1
  BY DEF Nested
<1>4. Tok(c) \in {"ELSE", "EXCEPTION"} => D(c) >= 1
  BY DEF Nested
<1> QED
  BY <1>2, <1>3, <1>4

\* The branches of a construct.
LEMMA BranchIsPart ==
    ASSUME Nested, NEW c \in 1..N, Tok(c) \in Run!Opens, NEW t \in {"ELSE", "EXCEPTION"}, NEW x
    PROVE  x \in Run!Branches(c, t) <=> x \in 1..N /\ Tok(x) = t /\ Part(c, x)
<1>0. N \in Nat /\ c \in Nat /\ c >= 1
  BY DEF Nested
<1>1. D(c) \in Nat /\ D(c) >= 1
  BY OpenDepth
<1>2. PICK e : e = Run!EndOf(c) /\ Closes(c, e)
  BY <1>1, EndExists
<1>3. /\ e \in 1..N /\ c < e /\ Tok(e) = "END" /\ D(e) = D(c) - 1
      /\ \A r \in 1..N : c <= r /\ r < e => D(r) >= D(c)
  BY <1>2 DEF Closes
<1>4. x \in Run!Branches(c, t) <=> x \in c..e /\ Tok(x) = t /\ D(x) = D(c)
  BY <1>2 DEF Run!Branches, Tok, D
<1>5. ASSUME x \in c..e, Tok(x) = t, D(x) = D(c) PROVE x \in 1..N /\ Part(c, x)
  <2>1. x # c /\ x # e
    BY <1>3, <1>5 DEF Run!Opens
  <2>2. x \in 1..N /\ c < x /\ x < e
    BY <1>0, <1>3, <1>5, <2>1
  <2>3. \A r \in 1..N : c <= r /\ r < x => D(r) >= D(c)
    BY <1>0, <1>3, <2>2
  <2>4. D(x) <= D(c) /\ Tok(x) # "END"
    BY <1>1, <1>5
  <2> QED
    BY <2>2, <2>3, <2>4 DEF Part
<1>6. ASSUME x \in 1..N, Tok(x) = t, Part(c, x) PROVE x \in c..e /\ D(x) = D(c)
  <2>1. c < x /\ D(x) <= D(c) /\ \A r \in 1..N : c <= r /\ r < x => D(r) >= D(c)
    BY <1>6 DEF Part
  <2>2. x - 1 \in 1..N /\ c <= x - 1 /\ x - 1 < x /\ x - 1 \in 0..N /\ x \in 0..N
    BY <1>0, <1>6, <2>1
  <2>3. D(x) = D(x - 1)
    <3>1. t \notin Run!Opens \cup {"END"}
      BY DEF Run!Opens
    <3> QED
      BY <1>6, <3>1 DEF Nested
  <2>4. D(x) \in Nat
    BY <2>2 DEF Nested
  <2>5. D(x - 1) >= D(c)
    BY <2>1, <2>2
  <2>6. D(x) = D(c)
    BY <1>1, <2>1, <2>3, <2>4, <2>5
  <2>7. ~(e < x)
    <3> SUFFICES ASSUME e < x PROVE FALSE
      OBVIOUS
    <3>1. D(e) >= D(c)
      BY <1>0, <1>3, <2>1
    <3> QED
      BY <1>1, <1>3, <3>1
  <2> QED
    BY <1>0, <1>3, <1>6, <2>1, <2>6, <2>7
<1> QED
  BY <1>4, <1>5, <1>6

LEMMA HandlingIs ==
    ASSUME Nested, NEW p \in 1..(N + 1), NEW b
    PROVE  b \in Run!Handling(p) <=> HandledBy(b, p)
<1>0. N \in Nat /\ p \in Nat /\ p <= N + 1 /\ p >= 1
  BY DEF Nested
<1>1. b \in Run!Handling(p) <=>
        b \in 1..(p - 1) /\ Tok(b) = "BEGIN" /\ p <= Run!EndOf(b)
          /\ \E e \in Run!Branches(b, "EXCEPTION") : p < e
  BY DEF Run!Handling, Run!Around, Tok
<1>2. ASSUME b \in 1..N, Tok(b) = "BEGIN"
      PROVE  \A e : e \in Run!Branches(b, "EXCEPTION") <=>
                        e \in 1..N /\ Tok(e) = "EXCEPTION" /\ Part(b, e)
  BY <1>2, BranchIsPart DEF Run!Opens
<1>3. ASSUME b \in Run!Handling(p) PROVE HandledBy(b, p)
  <2>1. b \in 1..(p - 1) /\ Tok(b) = "BEGIN"
    BY <1>1, <1>3
  <2>2. b \in 1..N /\ b < p
    BY <1>0, <2>1
  <2>3. PICK e \in Run!Branches(b, "EXCEPTION") : p < e
    BY <1>1, <1>3
  <2> QED
    BY <1>2, <2>1, <2>2, <2>3 DEF HandledBy
<1>4. ASSUME HandledBy(b, p) PROVE b \in Run!Handling(p)
  <2>1. b \in 1..N /\ Tok(b) = "BEGIN" /\ b < p
    BY <1>4 DEF HandledBy
  <2>2. PICK e \in 1..N : Tok(e) = "EXCEPTION" /\ Part(b, e) /\ p < e
    BY <1>4 DEF HandledBy
  <2>3. e \in Run!Branches(b, "EXCEPTION")
    BY <1>2, <2>1, <2>2
  <2>4. Tok(b) \in Run!Opens
    BY <2>1 DEF Run!Opens
  <2>5. Closes(b, Run!EndOf(b)) /\ D(b) \in Nat
    BY <2>1, <2>4, OpenDepth, EndExists
  <2>6. PICK f \in 1..N : f = Run!EndOf(b) /\ b < f /\ D(f) = D(b) - 1
    BY <2>5 DEF Closes
  <2>7. ~(f < e)
    <3> SUFFICES ASSUME f < e PROVE FALSE
      OBVIOUS
    <3>1. D(f) >= D(b)
      <4>1. b <= f
        BY <1>0, <2>1, <2>6
      <4> QED
        BY <2>2, <2>6, <4>1 DEF Part
    <3> QED
      BY <2>5, <2>6, <3>1
  <2>8. p <= f /\ b \in 1..(p - 1)
    BY <1>0, <2>1, <2>2, <2>6, <2>7
  <2> QED
    BY <1>1, <2>1, <2>2, <2>3, <2>6, <2>8
<1> QED
  BY <1>3, <1>4

\* A jump to a branch or the end of what is open, or beyond it, enters no block.
LEMMA NoBlockEntered ==
    ASSUME Nested, NEW c \in 1..N, NEW x \in 1..N, NEW a \in 1..N, Part(c, x), c <= a, a <= x,
           Tok(a) # "BEGIN", Tok(x) # "BEGIN", NEW y \in {x, x + 1}, NEW b, HandledBy(b, y)
    PROVE  HandledBy(b, a)
<1>0. N \in Nat /\ c \in Nat /\ x \in Nat /\ a \in Nat
  BY DEF Nested
<1>1. b \in 1..N /\ Tok(b) = "BEGIN" /\ b < y
  BY DEF HandledBy
<1>2. PICK e \in 1..N : Tok(e) = "EXCEPTION" /\ Part(b, e) /\ y < e
  BY DEF HandledBy
<1>3. b < x /\ x < e
  BY <1>0, <1>1, <1>2
<1>4. ~(a <= b)
  <2> SUFFICES ASSUME a <= b PROVE FALSE
    OBVIOUS
  <2>1. c < b
    BY <1>0, <1>1
  <2>2. Tok(b) \in Run!Opens
    BY <1>1 DEF Run!Opens
  <2>3. Run!EndOf(b) \in 1..N /\ Run!EndOf(b) < x
    BY <1>1, <1>3, <2>1, <2>2, InnerEnds
  <2>4. Closes(b, Run!EndOf(b)) /\ D(b) \in Nat
    BY <1>1, <2>2, OpenDepth, EndExists
  <2>5. PICK f \in 1..N : f = Run!EndOf(b) /\ b < f /\ D(f) = D(b) - 1
    BY <2>4 DEF Closes
  <2>6. b <= f /\ f < e
    BY <1>0, <1>1, <1>2, <1>3, <2>3, <2>5
  <2>7. D(f) >= D(b)
    BY <1>2, <2>6 DEF Part
  <2> QED
    BY <2>4, <2>5, <2>7
<1>5. b < a /\ a < e
  BY <1>0, <1>1, <1>2, <1>3, <1>4
<1> QED
  BY <1>1, <1>2, <1>5 DEF HandledBy

\* Nor does going back to the beginning of a loop,
LEMMA NoBlockEnteredByLoop ==
    ASSUME Nested, NEW c \in 1..N, NEW a \in 1..N, Tok(c) \in Run!Opens, Tok(a) = "END", a = Run!EndOf(c),
           NEW b, HandledBy(b, c)
    PROVE  HandledBy(b, a)
<1>0. N \in Nat /\ c \in Nat /\ a \in Nat
  BY DEF Nested
<1>1. b \in 1..N /\ Tok(b) = "BEGIN" /\ b < c
  BY DEF HandledBy
<1>2. PICK e \in 1..N : Tok(e) = "EXCEPTION" /\ Part(b, e) /\ c < e
  BY DEF HandledBy
<1>3. c < a /\ a < e
  BY <1>1, <1>2, InnerEnds
<1>4. b < a
  BY <1>0, <1>1, <1>3
<1> QED
  BY <1>1, <1>2, <1>3, <1>4 DEF HandledBy

\* or failing to where the innermost handler is.
LEMMA NoBlockEnteredByHandler ==
    ASSUME Nested, NEW c \in 1..N, NEW x \in 1..N, NEW a \in 1..N, HandledBy(c, a), Part(c, x),
           Tok(x) = "EXCEPTION", NEW b, HandledBy(b, x + 1)
    PROVE  HandledBy(b, a)
<1>0. N \in Nat /\ c \in Nat /\ x \in Nat /\ a \in Nat
  BY DEF Nested
<1>1. b \in 1..N /\ Tok(b) = "BEGIN" /\ b < x + 1
  BY DEF HandledBy
<1>2. PICK e \in 1..N : Tok(e) = "EXCEPTION" /\ Part(b, e) /\ x + 1 < e
  BY DEF HandledBy
<1>3. Tok(c) = "BEGIN" /\ c < a
  BY DEF HandledBy
<1>4. PICK g \in 1..N : Tok(g) = "EXCEPTION" /\ Part(c, g) /\ a < g
  BY DEF HandledBy
<1>5. b # x /\ b < x /\ x < e /\ b \in Nat
  BY <1>0, <1>1, <1>2
<1>6. CASE b = c
  BY <1>6
<1>7. CASE b < c
  <2>1. Tok(c) \in Run!Opens /\ c < x
    BY <1>3 DEF Run!Opens, Part
  <2>2. c < e
    BY <1>0, <1>2, <1>5, <2>1
  <2>3. PICK f \in 1..N : f = Run!EndOf(c) /\ c < f /\ f < e
    BY <1>1, <1>2, <1>7, <2>1, <2>2, InnerEnds
  <2>4. Closes(c, f) /\ D(c) \in Nat
    BY <2>1, <2>3, OpenDepth, EndExists
  <2>5. ~(f < g)
    <3> SUFFICES ASSUME f < g PROVE FALSE
      OBVIOUS
    <3>1. D(f) >= D(c)
      <4>1. c <= f
        BY <1>0, <2>3
      <4> QED
        BY <1>4, <2>3, <4>1 DEF Part
    <3> QED
      BY <2>4, <3>1 DEF Closes
  <2>6. a < e /\ b < a
    BY <1>0, <1>1, <1>2, <1>3, <1>4, <1>7, <2>3, <2>5
  <2> QED
    BY <1>1, <1>2, <2>6 DEF HandledBy
<1>8. CASE c < b
  <2>1. Tok(b) \in Run!Opens
    BY <1>1 DEF Run!Opens
  <2>2. PICK f \in 1..N : f = Run!EndOf(b) /\ b < f /\ f < x
    BY <1>1, <1>5, <1>8, <2>1, InnerEnds
  <2>3. Closes(b, f) /\ D(b) \in Nat
    BY <1>1, <2>1, <2>2, OpenDepth, EndExists
  <2>4. b <= f /\ f < e
    BY <1>0, <1>1, <1>2, <1>5, <2>2
  <2>5. D(f) >= D(b)
    BY <1>2, <2>2, <2>4 DEF Part
  <2> QED
    BY <2>3, <2>5 DEF Closes
<1> QED
  BY <1>0, <1>5, <1>6, <1>7, <1>8

-----------------------------------------------------------------------------
(* Statements and their signals                                             *)

\* Piece p is the signal of a point, and piece q a statement of that point.
Pair(p, q) ==
    /\ p \in 1..N /\ q \in 1..N
    /\ Tok(q) \in Statements0
    /\ \E i \in DOMAIN locations : /\ written[p] = <<"signal", locations[i].start>>
                                   /\ written[q][1] = "text"
                                   /\ written[q][2] \in TokensOf(locations[i])

\* The signal is right before its statement, or after it with nothing between that runs.
Beside(p, q) ==
    \/ q = p + 1
    \/ /\ q < p /\ Tok(q) # "RETURN"
       /\ \A x \in (q + 1)..(p - 1) : Tok(x) \in {"COMMENT", "NOTICE", ";"}

Matched == \A p, q \in 1..N : Pair(p, q) => Beside(p, q)

\* Control is after statement q, and has not come past the signal p of its point.
Between(p, q) == outcome = "running" /\ q < at /\ at <= p

Lasting(t) == t \in kept \cup done
Sent(o) == o \in pending \cup delivered

\* A signal that is on its way, or has arrived, is that of a statement that has run.
RanIfSent(p, q, t, o) ==
    /\ o \in delivered => t \in done
    /\ outcome \in {"running", "returned"} /\ o \in pending =>
           Lasting(t) \/ (outcome = "running" /\ at = q)
    /\ \A i \in DOMAIN saved : o \in saved[i].pending => t \in saved[i].kept \cup done
    /\ Between(p, q) => Lasting(t)

\* Where a failure goes back to, the signal has been sent.
SentBefore(o) == \A b \in Run!Handling(at) : o \in saved[written[b][2]].pending

\* And the signal of a statement that has run is on its way, or control is just before it.
\* A COMMIT commits itself before its signal is sent.
SentIfRan(p, q, t, o) ==
    /\ t \in kept => Sent(o) \/ Between(p, q)
    /\ \A i \in DOMAIN saved : t \in saved[i].kept => o \in saved[i].pending \cup delivered
    /\ t \in done => \/ o \in delivered
                     \/ /\ Tok(q) = "COMMIT"
                        /\ \/ outcome \in {"failed", "undone"}
                           \/ Between(p, q) /\ Run!Handling(at) = {}
                           \/ outcome = "returned" /\ o \in pending
                           \/ outcome = "running" /\ o \in pending /\ SentBefore(o)
    /\ outcome = "running" /\ at = q /\ q = p + 1 => Sent(o)

Reported ==
    \A p, q \in 1..N : Pair(p, q) =>
        /\ RanIfSent(p, q, written[q][2], written[p][2])
        /\ Tok(q) \in Simple => SentIfRan(p, q, written[q][2], written[p][2])

\* Where control may go, other than to the next piece.
Target(x) ==
    \E y \in 1..N : \/ x = y + 1 /\ Tok(y) \in {"ELSE", "EXCEPTION", "END"}
                    \/ x = y /\ Tok(y) \in {"LOOP", "WHILE", "END"}

-----------------------------------------------------------------------------
(* A signal is beside the statements of its point                           *)

\* The instrumenter is done with the body at hand.
Written ==
    /\ kind \in {"plpgsql", "sql"}
    /\ locations \in Seq([start : Nat, length : Int, implicit : BOOLEAN])
    /\ TextsOK /\ PointsOK /\ SignalsOK

LEMMA SamePiece ==
    ASSUME PiecesOK, TextsOK, SignalsOK, NEW p \in 1..N, NEW q \in 1..N,
           written[p][1] = written[q][1], written[p][2] = written[q][2]
    PROVE  p = q
<1>1. /\ DOMAIN written = 1..N /\ written[p][2] \in Nat
      /\ written[p][1] \in {"text", "signal"}
  BY Pieces
<1>2. ASSUME NEW x \in 1..N, NEW y \in 1..N, x < y, written[x][1] = written[y][1]
      PROVE  written[x][2] < written[y][2]
  BY <1>1, <1>2 DEF TextsOK, SignalsOK, IsText
<1>3. p \in Nat /\ q \in Nat
  OBVIOUS
<1>4. CASE p < q
  <2>1. written[p][2] < written[q][2]
    BY <1>2, <1>4
  <2> QED
    BY <1>1, <2>1
<1>5. CASE q < p
  <2>1. written[q][2] < written[p][2]
    BY <1>2, <1>5
  <2> QED
    BY <1>1, <2>1
<1> QED
  BY <1>3, <1>4, <1>5

LEMMA SamePoint ==
    ASSUME Written, NEW i \in DOMAIN locations, NEW j \in DOMAIN locations,
           locations[i].start = locations[j].start
    PROVE  i = j
<1>1. PICK L : L = Len(locations)
  OBVIOUS
<1>2. L \in Nat /\ DOMAIN locations = 1..L
  BY <1>1, LenProperties DEF Written
<1>3. ASSUME NEW x \in 1..L PROVE locations[x].start \in Nat /\ locations[x].length \in Int
  <2>1. locations[x] \in [start : Nat, length : Int, implicit : BOOLEAN]
    BY <1>1, <1>2, ElementOfSeq DEF Written
  <2> QED
    BY <2>1
<1>4. ASSUME NEW x \in 1..L, NEW y \in 1..L, x < y PROVE locations[x].start < locations[y].start
  <2>1. EndOfPoint(locations[x]) <= locations[y].start /\ locations[x].length >= 1
    BY <1>2, <1>4 DEF Written, PointsOK
  <2> QED
    BY <1>3, <2>1 DEF EndOfPoint
<1>5. i \in Nat /\ j \in Nat /\ i \in 1..L /\ j \in 1..L
  BY <1>2
<1>6. locations[i].start \in Nat
  BY <1>3, <1>5
<1>7. CASE i < j
  <2>1. locations[i].start < locations[j].start
    BY <1>4, <1>5, <1>7
  <2> QED
    BY <1>6, <2>1
<1>8. CASE j < i
  <2>1. locations[j].start < locations[i].start
    BY <1>4, <1>5, <1>8
  <2> QED
    BY <1>6, <2>1
<1> QED
  BY <1>5, <1>7, <1>8

\* Statement q of the point l, whose signal is p.
Member(p, q, l) ==
    /\ l.start \in Nat /\ l.length \in Int
    /\ written[p] = <<"signal", l.start>> /\ Placed(p, l)
    /\ written[q][1] = "text" /\ written[q][2] \in TokensOf(l)
    /\ \A t \in TokensOf(l) : body[t] # ";"
    /\ EndOfPoint(l) <= Len(body) => body[EndOfPoint(l)] = ";"
    /\ body[l.start] # "COMMENT"

LEMMA PairIsMember ==
    ASSUME PiecesOK, Written, NEW p \in 1..N, NEW q \in 1..N, Pair(p, q)
    PROVE  \E i \in DOMAIN locations : Member(p, q, locations[i])
<1>1. PICK i \in DOMAIN locations : /\ written[p] = <<"signal", locations[i].start>>
                                    /\ written[q][1] = "text" /\ written[q][2] \in TokensOf(locations[i])
  BY DEF Pair
<1>2. DOMAIN written = 1..N
  BY Pieces
<1>3. PICK j \in DOMAIN locations : Placed(p, locations[j])
  <2>1. written[p][1] = "signal"
    BY <1>1
  <2>2. p \in DOMAIN written /\ ~IsText(p)
    BY <1>2, <2>1 DEF IsText
  <2> QED
    BY <2>2 DEF Written, SignalsOK
<1>4. locations[i].start = locations[j].start
  BY <1>1, <1>3 DEF Placed
<1>5. i = j
  BY <1>4, SamePoint
<1>6. locations[i].start \in Nat /\ locations[i].length \in Int
  <2>1. i \in 1..Len(locations)
    BY LenProperties DEF Written
  <2>2. locations[i] \in [start : Nat, length : Int, implicit : BOOLEAN]
    BY <2>1, ElementOfSeq DEF Written
  <2> QED
    BY <2>2
<1>7. /\ \A t \in TokensOf(locations[i]) : body[t] # ";"
      /\ EndOfPoint(locations[i]) <= Len(body) => body[EndOfPoint(locations[i])] = ";"
      /\ body[locations[i].start] # "COMMENT"
  BY DEF Written, PointsOK
<1> QED
  BY <1>1, <1>3, <1>5, <1>6, <1>7 DEF Member

LEMMA TokensIn ==
    ASSUME NEW l, l.start \in Nat, l.length \in Int, NEW t
    PROVE  /\ EndOfPoint(l) \in Int
           /\ t \in TokensOf(l) <=> t \in Int /\ l.start <= t /\ t < EndOfPoint(l)
<1>1. PICK a \in Nat, b \in Int : a = l.start /\ b = l.length
  OBVIOUS
<1>2. EndOfPoint(l) = a + b /\ TokensOf(l) = a..(a + b - 1)
  BY <1>1 DEF EndOfPoint, TokensOf
<1> QED
  BY <1>1, <1>2

\* Tokens a .. e - 1 hold no semicolon.
Clear(a, e) == \A t \in a..(e - 1) : body[t] # ";"
TextFrom(x, a) == written[x][1] = "text" /\ a <= written[x][2]
Below(x, r, e) == \A y \in 1..N : x < y /\ y <= r /\ written[y][1] = "text" => written[y][2] < e

LEMMA NoSemicolonInside ==
    ASSUME PiecesOK, TextsOK, NEW a \in Nat, NEW e \in Int, Clear(a, e), NEW x \in 1..N, NEW r \in 1..N,
           TextFrom(x, a), Below(x, r, e)
    PROVE  NoSemicolon(x, r)
<1> SUFFICES ASSUME NEW y \in (x + 1)..r PROVE Tok(y) # ";"
  BY DEF NoSemicolon
<1>0. N \in Nat /\ DOMAIN written = 1..N
  BY Pieces
<1>1. y \in 1..N /\ x < y /\ y <= r
  BY <1>0
<1>2. written[y][1] \in {"text", "signal"} /\ written[y][2] \in 1..Len(body) /\ written[x][2] \in 1..Len(body)
  BY <1>1, Pieces
<1>3. CASE written[y][1] = "signal"
  <2>1. Tok(y) = "signal"
    BY <1>1, <1>3, Pieces
  <2> QED
    BY <2>1
<1>4. CASE written[y][1] = "text"
  <2>1. Tok(y) = body[written[y][2]]
    <3>1. Tok(y) # "signal"
      BY <1>1, <1>4, Pieces
    <3> QED
      BY <1>1, <3>1, Pieces
  <2>2. written[x][2] < written[y][2]
    BY <1>0, <1>1, <1>4 DEF TextsOK, IsText, TextFrom
  <2>3. written[y][2] < e
    BY <1>1, <1>4 DEF Below
  <2>4. PICK b \in Int, d \in Int : b = written[x][2] /\ d = written[y][2]
    BY <1>2
  <2>5. a <= b /\ b < d /\ d < e
    BY <2>2, <2>3, <2>4 DEF TextFrom
  <2>6. d \in a..(e - 1)
    BY <2>4, <2>5
  <2> QED
    BY <2>1, <2>4, <2>6 DEF Clear
<1> QED
  BY <1>2, <1>3, <1>4

LEMMA Terminal ==
    ASSUME NEW t, NEW e, IsTerminal(t, e)
    PROVE  body[t] \in {"RETURN", "RAISE"} /\ body[t] \in Statements0
BY DEF IsTerminal, Statements0, Simple

\* The signal is before a statement that leaves the block.
LEMMA BesideTerminal ==
    ASSUME PiecesOK, Written, Run!AcceptedPlpgsql, NEW p \in 1..N, NEW q \in 1..N, NEW l,
           Member(p, q, l), Tok(q) \in Statements0, p + 1 \in DOMAIN written,
           NEW u \in TokensOf(l), written[p + 1] = <<"text", u>>, IsTerminal(u, EndOfPoint(l))
    PROVE  q = p + 1
<1>0. /\ TextsOK /\ SignalsOK /\ p + 1 \in 1..N /\ p \in Nat /\ q \in Nat /\ N \in Nat
      /\ DOMAIN written = 1..N
  BY Pieces DEF Written
<1>1. PICK t : t = written[q][2]
  OBVIOUS
<1>2. /\ l.start \in Nat /\ l.length \in Int /\ written[p] = <<"signal", l.start>>
      /\ written[q][1] = "text" /\ t \in TokensOf(l) /\ \A v \in TokensOf(l) : body[v] # ";"
  BY <1>1 DEF Member
<1>3. t \in Int /\ u \in Int /\ t < EndOfPoint(l) /\ u < EndOfPoint(l) /\ EndOfPoint(l) \in Int
  BY <1>2, TokensIn
<1>4. Tok(p) = "signal" /\ Tok(p + 1) = body[u] /\ written[p][1] = "signal"
  <2>0. written[p][1] = "signal" /\ written[p + 1][1] = "text" /\ written[p + 1][2] = u
    <3>1. written[p][1] = "signal"
      <4>1. PICK v : v = l.start
        OBVIOUS
      <4>2. written[p] = <<"signal", v>>
        BY <1>2, <4>1
      <4> QED
        BY <4>2
    <3> QED
      BY <3>1
  <2>1. Tok(p) = "signal"
    BY <2>0, Pieces
  <2>2. Tok(p + 1) # "signal"
    BY <1>0, <2>0, Pieces
  <2>3. Tok(p + 1) = body[written[p + 1][2]]
    BY <1>0, <2>2, Pieces
  <2> QED
    BY <2>0, <2>1, <2>3
<1>5. Tok(p + 1) \in Statements0 /\ written[p + 1][1] = "text" /\ written[p + 1][2] = u
  BY <1>4, Terminal
<1>6. \A x, y \in 1..N : written[x][1] = "text" /\ written[y][1] = "text" /\ x < y => written[x][2] < written[y][2]
  BY <1>0 DEF TextsOK, IsText
<1>10. PICK a \in Nat, e \in Int : a = l.start /\ e = EndOfPoint(l)
  BY <1>2, TokensIn
<1>11. Clear(a, e) /\ a <= t /\ t < e /\ a <= u /\ u < e
  <2>1. \A v : v \in TokensOf(l) <=> v \in Int /\ a <= v /\ v < e
    BY <1>2, <1>10, TokensIn
  <2>2. Clear(a, e)
    <3> SUFFICES ASSUME NEW v \in a..(e - 1) PROVE body[v] # ";"
      BY DEF Clear
    <3>1. v \in TokensOf(l)
      BY <1>10, <2>1
    <3> QED
      BY <1>2, <3>1
  <2>3. t \in TokensOf(l) /\ u \in TokensOf(l)
    BY <1>2
  <2> QED
    BY <2>1, <2>2, <2>3
<1>12. TextFrom(q, a) /\ TextFrom(p + 1, a)
  BY <1>1, <1>2, <1>5, <1>11 DEF TextFrom
<1>7. CASE q < p
  <2>1. ASSUME NEW y \in 1..N, q < y, y <= p, written[y][1] = "text" PROVE written[y][2] < e
    <3>1. y < p + 1 /\ written[y][2] \in 1..Len(body)
      BY <1>0, <2>1, Pieces
    <3>2. written[y][2] < u
      BY <1>0, <1>5, <1>6, <2>1, <3>1
    <3>3. PICK d \in Int : d = written[y][2]
      BY <3>1
    <3> QED
      BY <1>3, <1>11, <3>2, <3>3
  <2>2. NoSemicolon(q, p)
    BY <1>0, <1>11, <1>12, <2>1, NoSemicolonInside DEF Below
  <2>3. Tok(p) \in {"COMMENT", "NOTICE"}
    BY <1>7, <2>2, AfterStatement
  <2> QED
    BY <1>4, <2>3
<1>8. CASE p + 1 < q
  <2>1. ASSUME NEW y \in 1..N, p + 1 < y, y <= q, written[y][1] = "text" PROVE written[y][2] < e
    <3>1. written[y][2] \in 1..Len(body)
      BY Pieces
    <3>2. CASE y = q
      BY <1>1, <1>11, <3>2
    <3>3. CASE y # q
      <4>1. y < q
        BY <1>0, <2>1, <3>3
      <4>2. written[y][2] < t
        BY <1>1, <1>2, <1>6, <2>1, <4>1
      <4>3. PICK d \in Int : d = written[y][2]
        BY <3>1
      <4> QED
        BY <1>3, <1>11, <4>2, <4>3
    <3> QED
      BY <3>2, <3>3
  <2>2. NoSemicolon(p + 1, q)
    BY <1>0, <1>11, <1>12, <2>1, NoSemicolonInside DEF Below
  <2>3. Tok(q) \in {"COMMENT", "NOTICE"}
    BY <1>0, <1>5, <1>8, <2>2, AfterStatement
  <2> QED
    BY <2>3 DEF Statements0, Simple
<1>9. q # p
  BY <1>2, <1>4
<1> QED
  BY <1>0, <1>7, <1>8, <1>9

\* The signal is after the point.
LEMMA BesideEnd ==
    ASSUME PiecesOK, Written, Run!AcceptedPlpgsql, NEW p \in 1..N, NEW q \in 1..N, NEW l,
           Member(p, q, l), Tok(q) \in Statements0, p - 1 \in DOMAIN written,
           \A v \in TokensOf(l) : ~IsTerminal(v, EndOfPoint(l)),
           NEW last \in {EndOfPoint(l), EndOfPoint(l) - 1}, written[p - 1] = <<"text", last>>,
           last = EndOfPoint(l) \/ EndOfPoint(l) = Len(body) + 1
    PROVE  Beside(p, q)
<1>0. /\ TextsOK /\ SignalsOK /\ p - 1 \in 1..N /\ p \in Nat /\ q \in Nat /\ N \in Nat
      /\ DOMAIN written = 1..N
  BY Pieces DEF Written
<1>1. PICK t : t = written[q][2]
  OBVIOUS
<1>2. /\ l.start \in Nat /\ l.length \in Int
      /\ written[q][1] = "text" /\ t \in TokensOf(l) /\ \A v \in TokensOf(l) : body[v] # ";"
  BY <1>1 DEF Member
<1>3. PICK a \in Nat, e \in Int : a = l.start /\ e = EndOfPoint(l)
  BY <1>2, TokensIn
<1>4. \A v : v \in TokensOf(l) <=> v \in Int /\ a <= v /\ v < e
  BY <1>2, <1>3, TokensIn
<1>5. t \in Int /\ a <= t /\ t < e
  BY <1>2, <1>4
<1>6. Clear(a, e)
  <2> SUFFICES ASSUME NEW v \in a..(e - 1) PROVE body[v] # ";"
    BY DEF Clear
  <2>1. v \in TokensOf(l)
    BY <1>3, <1>4
  <2> QED
    BY <1>2, <2>1
<1>7. last \in {e, e - 1} /\ (last = e \/ e = Len(body) + 1) /\ last \in Int
  BY <1>3
<1>8. written[p - 1][1] = "text" /\ written[p - 1][2] = last
  OBVIOUS
<1>9. \A x, y \in 1..N : written[x][1] = "text" /\ written[y][1] = "text" /\ x < y => written[x][2] < written[y][2]
  BY <1>0 DEF TextsOK, IsText
<1>10. q <= p - 1 /\ (last = e => q # p - 1)
  <2>1. ASSUME p - 1 < q PROVE FALSE
    <3>1. last < t
      BY <1>0, <1>1, <1>2, <1>8, <1>9, <2>1
    <3> QED
      BY <1>5, <1>7, <3>1
  <2>2. ASSUME q = p - 1 PROVE t = last
    BY <1>1, <1>8, <2>2
  <2> QED
    BY <1>0, <1>5, <2>1, <2>2
<1>11. Tok(q) # "RETURN"
  <2>1. Tok(q) = body[t]
    <3>1. Tok(q) # "signal"
      BY <1>2, Pieces
    <3> QED
      BY <1>1, <3>1, Pieces
  <2>2. ~IsTerminal(t, EndOfPoint(l))
    BY <1>2
  <2> QED
    BY <2>1, <2>2 DEF IsTerminal
<1>12. ASSUME NEW x \in (q + 1)..(p - 1) PROVE Tok(x) \in {"COMMENT", "NOTICE", ";"}
  <2>1. x \in 1..N /\ q < x /\ x <= p - 1
    BY <1>0
  <2>2. CASE x = p - 1 /\ last = e
    <3>1. last \in 1..Len(body)
      BY <1>0, <1>8, Pieces
    <3>2. body[last] = ";"
      <4>1. EndOfPoint(l) <= Len(body)
        BY <1>3, <2>2, <3>1
      <4>2. body[EndOfPoint(l)] = ";"
        BY <4>1 DEF Member
      <4> QED
        BY <1>3, <2>2, <4>2
    <3>3. Tok(x) = body[last]
      <4>1. Tok(x) # "signal"
        BY <1>8, <2>1, <2>2, Pieces
      <4> QED
        BY <1>8, <2>1, <2>2, <4>1, Pieces
    <3> QED
      BY <3>2, <3>3
  <2>3. CASE ~(x = p - 1 /\ last = e)
    <3>1. ASSUME NEW y \in 1..N, q < y, y <= x, written[y][1] = "text" PROVE written[y][2] < e
      <4>1. CASE y = p - 1
        <5>1. last # e
          BY <1>0, <2>1, <2>3, <3>1, <4>1
        <5> QED
          BY <1>7, <1>8, <4>1, <5>1
      <4>2. CASE y # p - 1
        <5>1. y < p - 1
          BY <1>0, <2>1, <3>1, <4>2
        <5>2. written[y][2] < last
          BY <1>0, <1>8, <1>9, <3>1, <5>1
        <5>3. written[y][2] \in 1..Len(body)
          BY Pieces
        <5>4. PICK d \in Int : d = written[y][2]
          BY <5>3
        <5> QED
          BY <1>7, <5>2, <5>4
      <4> QED
        BY <4>1, <4>2
    <3>2. TextFrom(q, a)
      BY <1>1, <1>2, <1>5 DEF TextFrom
    <3>3. NoSemicolon(q, x)
      BY <1>0, <1>6, <2>1, <3>1, <3>2, NoSemicolonInside DEF Below
    <3>4. Tok(x) \in {"COMMENT", "NOTICE"}
      BY <2>1, <3>3, AfterStatement
    <3> QED
      BY <3>4
  <2> QED
    BY <2>2, <2>3
<1>13. q < p
  BY <1>0, <1>10
<1> QED
  BY <1>11, <1>12, <1>13 DEF Beside

\* An SQL body is statements, signals and semicolons.
SqlTokens == \A p \in 1..N : Tok(p) \in {"COMMENT", "word", ";", "signal"}

LEMMA AcceptedSqlTokens ==
    ASSUME PiecesOK, Run!AcceptedSQL
    PROVE  SqlTokens
<1>1. DOMAIN written = 1..N
  BY Pieces
<1> QED
  BY <1>1 DEF Run!AcceptedSQL, SqlTokens, Tok

\* Two statements have something between them.
LEMMA SqlStatements ==
    ASSUME PiecesOK, Run!AcceptedSQL, NEW x \in 1..N, NEW q \in 1..N, x < q, Tok(x) = "word", Tok(q) = "word"
    PROVE  \E z \in 1..N : x < z /\ z < q /\ Tok(z) \in {";", "signal"}
<1>0. DOMAIN written = 1..N /\ N \in Nat /\ q \in Nat /\ x \in Nat
  BY Pieces
<1>1. PICK A : A = {y \in {z \in DOMAIN written : Tok(z) # "COMMENT"} : y < q}
  OBVIOUS
<1>2. x \in A /\ A \subseteq 1..N
  BY <1>0, <1>1
<1>3. PICK z \in A : z = Run!Max(A) /\ \A y \in A : y <= z
  BY <1>0, <1>2, GreatestOf
<1>4. Tok(z) \in {";", "signal"}
  <2>1. A # {} /\ q \in {y \in DOMAIN written : Tok(y) # "COMMENT"}
    BY <1>0, <1>2
  <2>2. Tok(Run!Max(A)) \in {";", "signal"}
    BY <1>1, <2>1 DEF Run!AcceptedSQL, Tok
  <2> QED
    BY <1>3, <2>2
<1>5. z \in 1..N /\ z < q /\ x <= z /\ z # x
  BY <1>0, <1>1, <1>2, <1>3, <1>4
<1>6. x < z
  BY <1>0, <1>5
<1> QED
  BY <1>4, <1>5, <1>6

LEMMA BesideSql ==
    ASSUME PiecesOK, Written, Run!AcceptedSQL, kind = "sql", NEW p \in 1..N, NEW q \in 1..N,
           NEW i \in DOMAIN locations, Member(p, q, locations[i]), Tok(q) \in Statements0
    PROVE  q = p + 1
<1>1. PICK l : l = locations[i]
  OBVIOUS
<1>2. PICK t : t = written[q][2]
  OBVIOUS
<1>3. /\ l.start \in Nat /\ l.length \in Int /\ written[p] = <<"signal", l.start>>
      /\ written[q][1] = "text" /\ t \in TokensOf(l) /\ \A v \in TokensOf(l) : body[v] # ";"
      /\ body[l.start] # "COMMENT"
  BY <1>1, <1>2 DEF Member
<1>4. PICK a \in Nat, e \in Int : a = l.start /\ e = EndOfPoint(l)
  BY <1>3, TokensIn
<1>5. \A v : v \in TokensOf(l) <=> v \in Int /\ a <= v /\ v < e
  BY <1>3, <1>4, TokensIn
<1>6. t \in Int /\ a <= t /\ t < e
  BY <1>3, <1>5
<1>7. Clear(a, e)
  <2> SUFFICES ASSUME NEW v \in a..(e - 1) PROVE body[v] # ";"
    BY DEF Clear
  <2>1. v \in TokensOf(l)
    BY <1>4, <1>5
  <2> QED
    BY <1>3, <2>1
<1>8. /\ TextsOK /\ SignalsOK /\ PointsOK /\ DOMAIN written = 1..N /\ N \in Nat
  BY Pieces DEF Written
<1>9. p + 1 \in 1..N /\ written[p + 1][1] = "text" /\ written[p + 1][2] = a
  <2>1. Placed(p, l)
    BY <1>1 DEF Member
  <2>2. p + 1 \in DOMAIN written /\ written[p + 1] = <<"text", l.start>>
    BY <2>1 DEF Placed
  <2> QED
    BY <1>4, <1>8, <2>2
<1>10. Tok(p + 1) = "word"
  <2>1. Tok(p + 1) # "signal"
    BY <1>9, Pieces
  <2>2. Tok(p + 1) = body[a]
    BY <1>9, <2>1, Pieces
  <2>3. a \in TokensOf(l)
    BY <1>5, <1>6
  <2>4. body[a] # "COMMENT" /\ body[a] # ";"
    BY <1>3, <1>4, <2>3
  <2>5. Tok(p + 1) \in {"COMMENT", "word", ";", "signal"}
    BY <1>9, AcceptedSqlTokens DEF SqlTokens
  <2> QED
    BY <2>1, <2>2, <2>4, <2>5
<1>11. Tok(q) = "word"
  <2>1. Tok(q) \in {"COMMENT", "word", ";", "signal"}
    BY AcceptedSqlTokens DEF SqlTokens
  <2> QED
    BY <2>1 DEF Statements0, Simple
<1>15. p \in Nat /\ q \in Nat /\ N \in Nat
  BY <1>8
<1>12. \A x, y \in 1..N : written[x][1] = "text" /\ written[y][1] = "text" /\ x < y => written[x][2] < written[y][2]
  BY <1>8 DEF TextsOK, IsText
<1>13. ~(q < p + 1)
  <2> SUFFICES ASSUME q < p + 1 PROVE FALSE
    OBVIOUS
  <2>1. t < a
    BY <1>2, <1>3, <1>9, <1>12
  <2> QED
    BY <1>6, <2>1
<1>14. ~(p + 1 < q)
  <2> SUFFICES ASSUME p + 1 < q PROVE FALSE
    OBVIOUS
  <2>1. PICK z \in 1..N : p + 1 < z /\ z < q /\ Tok(z) \in {";", "signal"}
    BY <1>9, <1>10, <1>11, SqlStatements
  <2>17. z \in Nat /\ p + 1 < z /\ z < q /\ q <= N
    <3>1. p + 1 < z /\ z < q
      BY <2>1
    <3>2. z \in Nat /\ q \in Nat /\ q <= N
      BY <1>8
    <3> QED
      BY <3>1, <3>2
  <2>2. ASSUME NEW y \in 1..N, p + 1 < y, y <= q, written[y][1] = "text" PROVE written[y][2] < e
    <3>1. CASE y = q
      BY <1>2, <1>6, <3>1
    <3>2. CASE y # q
      <4>0. y < q
        BY <1>15, <2>2, <3>2
      <4>1. written[y][2] < t
        BY <1>2, <1>3, <1>12, <2>2, <4>0
      <4>2. written[y][2] \in 1..Len(body)
        BY Pieces
      <4>3. PICK d \in Int : d = written[y][2]
        BY <4>2
      <4> QED
        BY <1>6, <4>1, <4>3
    <3> QED
      BY <3>1, <3>2
  <2>3. NoSemicolon(p + 1, q)
    BY <1>7, <1>8, <1>9, <2>2, NoSemicolonInside DEF Below, TextFrom
  <2>4. Tok(z) = "signal"
    <3>1. z \in ((p + 1) + 1)..q
      BY <1>15, <2>17
    <3>2. Tok(z) # ";"
      BY <2>3, <3>1 DEF NoSemicolon
    <3> QED
      BY <2>1, <3>2
  <2>5. written[z][1] = "signal"
    BY <2>4, Pieces
  <2>6. PICK j \in DOMAIN locations : Placed(z, locations[j])
    BY <1>8, <2>5 DEF SignalsOK, IsText
  <2>7. PICK m : m = locations[j].start
    OBVIOUS
  <2>8. written[z] = <<"signal", m>> /\ z + 1 \in DOMAIN written /\ written[z + 1] = <<"text", m>>
    BY <2>6, <2>7 DEF Placed
  <2>9. z + 1 \in 1..N /\ z + 1 <= q /\ written[z + 1][1] = "text" /\ written[z + 1][2] = m /\ written[z][2] = m
    <3>1. z + 1 \in 1..N /\ z + 1 <= q
      BY <1>15, <2>17
    <3> QED
      BY <2>8, <3>1
  <2>10. m < e
    <3>1. p + 1 < z + 1
      BY <1>15, <2>17
    <3>2. written[z + 1][2] < e
      BY <2>2, <2>9, <3>1
    <3> QED
      BY <2>9, <3>2
  <2>11. a < m
    <3>1. written[p][1] = "signal" /\ written[p][2] = a
      <4>1. written[p] = <<"signal", a>>
        BY <1>3, <1>4
      <4> QED
        BY <4>1
    <3>2. p \in DOMAIN written /\ z \in DOMAIN written /\ p < z
      <4>1. p < z
        BY <1>15, <2>17
      <4> QED
        BY <1>8, <4>1
    <3>3. written[p][2] < written[z][2]
      BY <1>8, <2>5, <3>1, <3>2 DEF SignalsOK, IsText
    <3> QED
      BY <2>9, <3>1, <3>3
  <2>12. locations[j].length >= 1 /\ m \in Nat /\ locations[j].length \in Int
    <3>1. j \in 1..Len(locations)
      BY LenProperties DEF Written
    <3>2. locations[j] \in [start : Nat, length : Int, implicit : BOOLEAN]
      BY <3>1, ElementOfSeq DEF Written
    <3>3. locations[j].length >= 1
      BY <1>8 DEF PointsOK
    <3> QED
      BY <2>7, <3>2, <3>3
  <2>13. i \in Int /\ j \in Int
    BY LenProperties DEF Written
  <2>14. CASE i < j
    <3>1. e <= m
      BY <1>1, <1>4, <1>8, <2>7, <2>14 DEF PointsOK
    <3> QED
      BY <1>4, <2>10, <2>12, <3>1
  <2>15. CASE j < i
    <3>1. EndOfPoint(locations[j]) <= a
      BY <1>1, <1>4, <1>8, <2>15 DEF PointsOK
    <3>2. PICK k \in Int : k = locations[j].length /\ k >= 1
      BY <2>12
    <3>3. EndOfPoint(locations[j]) = m + k
      BY <2>7, <3>2 DEF EndOfPoint
    <3> QED
      BY <1>4, <2>11, <2>12, <3>1, <3>2, <3>3
  <2>16. i # j
    BY <1>1, <1>4, <2>7, <2>11, <2>12
  <2> QED
    BY <2>13, <2>14, <2>15, <2>16
<1> QED
  BY <1>8, <1>13, <1>14

LEMMA AllMatched ==
    ASSUME PiecesOK, Written, Run!Accepted
    PROVE  Matched
<1> SUFFICES ASSUME NEW p \in 1..N, NEW q \in 1..N, Pair(p, q) PROVE Beside(p, q)
  BY DEF Matched
<1>1. PICK i \in DOMAIN locations : Member(p, q, locations[i])
  BY PairIsMember
<1>2. Tok(q) \in Statements0
  BY DEF Pair
<1>3. CASE kind = "sql"
  <2>1. Run!AcceptedSQL
    BY <1>3 DEF Run!Accepted
  <2> QED
    BY <1>1, <1>2, <1>3, <2>1, BesideSql DEF Beside
<1>4. CASE kind # "sql"
  <2>1. Run!AcceptedPlpgsql
    BY <1>4 DEF Run!Accepted
  <2>2. PICK l : l = locations[i]
    OBVIOUS
  <2>3. Member(p, q, l)
    BY <1>1, <2>2
  <2>4. Placed(p, l)
    BY <2>3 DEF Member
  <2>5. CASE /\ p + 1 \in DOMAIN written
             /\ \E t \in TokensOf(l) : written[p + 1] = <<"text", t>> /\ IsTerminal(t, EndOfPoint(l))
    BY <1>2, <2>1, <2>3, <2>5, BesideTerminal DEF Beside
  <2>6. CASE /\ \A t \in TokensOf(l) : ~IsTerminal(t, EndOfPoint(l))
             /\ p - 1 \in DOMAIN written
             /\ \E last \in {EndOfPoint(l), EndOfPoint(l) - 1} :
                   /\ written[p - 1] = <<"text", last>>
                   /\ last = EndOfPoint(l) \/ EndOfPoint(l) = Len(body) + 1
    BY <1>2, <2>1, <2>3, <2>6, BesideEnd
  <2> QED
    BY <1>4, <2>4, <2>5, <2>6 DEF Placed
<1> QED
  BY <1>3, <1>4

-----------------------------------------------------------------------------
(* Where control may go                                                     *)

\* What is known of a body that is accepted.
Fit == (kind = "sql" /\ SqlTokens) \/ (kind # "sql" /\ Nested)

\* Control may go to piece a; no block is entered but through its BEGIN.
MoveTo(a) ==
    /\ a \in 1..(N + 1)
    /\ a = at + 1 \/ Target(a)
    /\ \A b \in Run!Handling(a) : b \in Run!Handling(at) \/ (b = at /\ Tok(at) = "BEGIN")

LEMMA SqlHandlesNothing ==
    ASSUME N \in Nat, SqlTokens, NEW p \in 1..(N + 1)
    PROVE  Run!Handling(p) = {}
<1> SUFFICES ASSUME NEW b \in Run!Handling(p) PROVE FALSE
  OBVIOUS
<1>1. b \in 1..(p - 1) /\ Tok(b) = "BEGIN"
  BY DEF Run!Handling, Run!Around, Tok
<1>2. b \in 1..N
  <2>1. b \in 1..(p - 1)
    BY <1>1
  <2> QED
    BY <2>1
<1> QED
  BY <1>1, <1>2 DEF SqlTokens

LEMMA MoveOn ==
    ASSUME N \in Nat, Fit, at \in 1..N
    PROVE  MoveTo(at + 1)
<1>1. at + 1 \in 1..(N + 1) /\ at \in 1..(N + 1) /\ at \in Nat
  OBVIOUS
<1>2. ASSUME NEW b \in Run!Handling(at + 1)
      PROVE  b \in Run!Handling(at) \/ (b = at /\ Tok(at) = "BEGIN")
  <2>1. CASE kind = "sql" /\ SqlTokens
    BY <1>1, <1>2, <2>1, SqlHandlesNothing
  <2>2. CASE kind # "sql" /\ Nested
    <3>1. HandledBy(b, at + 1)
      BY <1>1, <1>2, <2>2, HandlingIs
    <3>2. b \in 1..N /\ Tok(b) = "BEGIN" /\ b < at + 1
      BY <3>1 DEF HandledBy
    <3>3. PICK e \in 1..N : Tok(e) = "EXCEPTION" /\ Part(b, e) /\ at + 1 < e
      BY <3>1 DEF HandledBy
    <3>4. CASE b = at
      BY <3>2, <3>4
    <3>5. CASE b # at
      <4>1. b < at /\ at < e
        <5>1. b < at + 1 /\ at + 1 < e
          BY <3>2, <3>3
        <5>2. b \in Nat /\ e \in Nat
          BY <3>2
        <5> QED
          BY <1>1, <3>5, <5>1, <5>2
      <4>2. HandledBy(b, at)
        BY <3>2, <3>3, <4>1 DEF HandledBy
      <4> QED
        BY <1>1, <2>2, <4>2, HandlingIs
    <3> QED
      BY <3>4, <3>5
  <2> QED
    BY <2>1, <2>2 DEF Fit
<1> QED
  BY <1>1, <1>2 DEF MoveTo

\* To a branch or the end of what is open around the piece at hand, or beyond it.
LEMMA MoveToPart ==
    ASSUME Nested, at \in 1..N, NEW c \in 1..N, NEW x \in 1..N, Part(c, x), c <= at, at <= x,
           Tok(at) # "BEGIN", Tok(x) \in {"ELSE", "EXCEPTION", "END"}
    PROVE  MoveTo(x + 1) /\ (Tok(x) = "END" => MoveTo(x))
<1>0. N \in Nat
  BY DEF Nested
<1>1. x + 1 \in 1..(N + 1) /\ x \in 1..(N + 1) /\ at \in 1..(N + 1) /\ Tok(x) # "BEGIN"
  BY <1>0
<1>2. Target(x + 1) /\ (Tok(x) = "END" => Target(x))
  BY DEF Target
<1>3. ASSUME NEW y \in {x, x + 1}, NEW b \in Run!Handling(y) PROVE b \in Run!Handling(at)
  <2>1. y \in 1..(N + 1)
    BY <1>1
  <2>2. HandledBy(b, y)
    BY <1>3, <2>1, HandlingIs
  <2>3. HandledBy(b, at)
    BY <1>1, <2>2, NoBlockEntered
  <2> QED
    BY <1>1, <2>3, HandlingIs
<1> QED
  BY <1>1, <1>2, <1>3 DEF MoveTo

LEMMA BranchesMove ==
    ASSUME Nested, at \in 1..N, Tok(at) \in {"IF", "WHILE"}
    PROVE  /\ Run!Branches(at, "ELSE") # {} => MoveTo(Run!Min(Run!Branches(at, "ELSE")) + 1)
           /\ MoveTo(Run!EndOf(at) + 1)
<1>0. N \in Nat /\ at \in Nat /\ at <= at
  BY DEF Nested
<1>1. Tok(at) \in Run!Opens /\ Tok(at) # "BEGIN"
  BY DEF Run!Opens
<1>2. D(at) \in Nat /\ D(at) >= 1
  BY <1>1, OpenDepth
<1>3. Closes(at, Run!EndOf(at))
  BY <1>2, EndExists
<1>4. PICK e \in 1..N : e = Run!EndOf(at) /\ Tok(e) = "END" /\ at < e /\ Closes(at, e)
  BY <1>3 DEF Closes
<1>5. MoveTo(e + 1)
  <2>1. Part(at, e) /\ at <= e
    BY <1>0, <1>4, EndIsPart
  <2> QED
    BY <1>0, <1>1, <1>4, <2>1, MoveToPart
<1>6. ASSUME Run!Branches(at, "ELSE") # {} PROVE MoveTo(Run!Min(Run!Branches(at, "ELSE")) + 1)
  <2>1. \A x : x \in Run!Branches(at, "ELSE") <=> x \in 1..N /\ Tok(x) = "ELSE" /\ Part(at, x)
    BY <1>1, BranchIsPart
  <2>2. PICK A : A = Run!Branches(at, "ELSE")
    OBVIOUS
  <2>3. A \subseteq Nat /\ A # {}
    BY <1>6, <2>1, <2>2
  <2>4. PICK x \in A : x = Run!Min(A)
    BY <2>3, LeastOf
  <2>5. x \in 1..N /\ Tok(x) = "ELSE" /\ Part(at, x)
    BY <2>1, <2>2, <2>4
  <2>6. at <= x
    BY <1>0, <2>5 DEF Part
  <2> QED
    BY <1>0, <1>1, <2>2, <2>4, <2>5, <2>6, MoveToPart
<1> QED
  BY <1>4, <1>5, <1>6

LEMMA SkipMoves ==
    ASSUME Nested, at \in 1..N, Tok(at) \in {"ELSE", "EXCEPTION"}
    PROVE  MoveTo(Run!EndOf(at))
<1>0. N \in Nat /\ at \in Nat /\ at <= at
  BY DEF Nested
<1>1. D(at) \in Nat /\ D(at) >= 1
  BY OpenDepth
<1>2. Closes(at, Run!EndOf(at))
  BY <1>1, EndExists
<1>3. PICK e \in 1..N : e = Run!EndOf(at) /\ Tok(e) = "END" /\ at < e /\ Closes(at, e)
  BY <1>2 DEF Closes
<1>4. Part(at, e) /\ at <= e
  BY <1>0, <1>3, EndIsPart
<1> QED
  BY <1>0, <1>3, <1>4, MoveToPart

\* An EXIT is in a loop.
LEMMA LoopAround ==
    ASSUME Nested, at \in 1..N, Tok(at) = "EXIT"
    PROVE  Run!Around(at, Loops) \subseteq 1..N /\ Run!Around(at, Loops) # {}
<1>0. N \in Nat /\ at \in Nat /\ at <= at
  BY DEF Nested
<1>1. PICK A : A = Run!Around(at, Loops)
  OBVIOUS
<1>2. \A c : c \in A <=> c \in 1..(at - 1) /\ Tok(c) \in Loops /\ at <= Run!EndOf(c)
  BY <1>1 DEF Run!Around, Tok
<1>3. PICK q \in 1..N : q < at /\ Tok(q) \in Loops /\ OpenAt(q, at, D(q))
  BY DEF Nested
<1>4. q \in A
  <2>1. Tok(q) \in Run!Opens /\ Tok(q) \in Loops
    BY <1>3 DEF Loops, Run!Opens
  <2>2. D(q) \in Nat /\ D(q) >= 1
    BY <2>1, OpenDepth
  <2>3. Closes(q, Run!EndOf(q))
    BY <2>2, EndExists
  <2>4. PICK e \in 1..N : e = Run!EndOf(q) /\ q < e /\ D(e) = D(q) - 1
    BY <2>3 DEF Closes
  <2>5. ~(e <= at)
    <3> SUFFICES ASSUME e <= at PROVE FALSE
      OBVIOUS
    <3>1. q <= e
      BY <1>0, <2>4
    <3>2. D(e) >= D(q)
      BY <1>3, <2>4, <3>1 DEF OpenAt
    <3> QED
      BY <2>2, <2>4, <3>2
  <2>6. q \in 1..(at - 1) /\ at <= e
    BY <1>0, <1>3, <2>4, <2>5
  <2> QED
    BY <1>2, <2>1, <2>4, <2>6
<1>5. A \subseteq 1..N /\ A # {}
  BY <1>0, <1>2, <1>4
<1> QED
  BY <1>1, <1>5

LEMMA ExitMoves ==
    ASSUME Nested, at \in 1..N, Tok(at) = "EXIT"
    PROVE  MoveTo(Run!EndOf(Run!Max(Run!Around(at, {"LOOP", "WHILE"}))) + 1)
<1>0. N \in Nat /\ at \in Nat /\ at <= at
  BY DEF Nested
<1>1. PICK A : A = Run!Around(at, {"LOOP", "WHILE"})
  OBVIOUS
<1>2. \A c : c \in A <=> c \in 1..(at - 1) /\ Tok(c) \in {"LOOP", "WHILE"} /\ at <= Run!EndOf(c)
  BY <1>1 DEF Run!Around, Tok
<1>5. A \subseteq 1..N /\ A # {}
  BY <1>1, LoopAround DEF Loops
<1>6. PICK c \in A : c = Run!Max(A)
  BY <1>0, <1>5, GreatestOf
<1>7. c \in 1..N /\ c <= at /\ Tok(c) \in Run!Opens /\ at <= Run!EndOf(c)
  <2>1. c \in 1..(at - 1) /\ Tok(c) \in {"LOOP", "WHILE"} /\ at <= Run!EndOf(c)
    BY <1>2
  <2>2. c \in 1..N /\ c <= at
    BY <1>0, <1>5, <2>1
  <2> QED
    BY <2>1, <2>2 DEF Run!Opens
<1>8. D(c) \in Nat /\ D(c) >= 1
  BY <1>7, OpenDepth
<1>9. Closes(c, Run!EndOf(c))
  BY <1>7, <1>8, EndExists
<1>10. PICK e \in 1..N : e = Run!EndOf(c) /\ Tok(e) = "END" /\ Closes(c, e)
  BY <1>9 DEF Closes
<1>11. Part(c, e) /\ at <= e
  BY <1>7, <1>10, EndIsPart
<1> QED
  BY <1>1, <1>6, <1>7, <1>10, <1>11, MoveToPart

Opener(e) == Run!Max({q \in 1..(e - 1) : Tok(q) \in Run!Opens /\ Run!EndOf(q) = e})

LEMMA LoopMoves ==
    ASSUME Nested, at \in 1..N, Tok(at) = "END", Tok(Opener(at)) \in {"LOOP", "WHILE"}
    PROVE  MoveTo(Opener(at))
<1>0. N \in Nat /\ at \in Nat /\ at <= at
  BY DEF Nested
<1>1. PICK A : A = {q \in 1..(at - 1) : Tok(q) \in Run!Opens /\ Run!EndOf(q) = at}
  OBVIOUS
<1>2. A # {} /\ A \subseteq 1..N
  <2>1. PICK q \in 1..N : q < at /\ Tok(q) \in Run!Opens /\ Run!EndOf(q) = at
    BY OpenerExists
  <2>2. q \in 1..(at - 1)
    BY <1>0, <2>1
  <2>3. \A r \in 1..(at - 1) : r \in 1..N
    BY <1>0
  <2> QED
    BY <1>1, <2>1, <2>2, <2>3
<1>3. PICK c \in A : c = Opener(at)
  BY <1>0, <1>1, <1>2, GreatestOf DEF Opener
<1>4. c \in 1..N /\ Tok(c) \in Run!Opens /\ Run!EndOf(c) = at /\ Tok(c) \in {"LOOP", "WHILE"}
  BY <1>1, <1>2, <1>3
<1>5. c \in 1..(N + 1) /\ at \in 1..(N + 1)
  BY <1>0, <1>4
<1>6. Target(c)
  BY <1>4 DEF Target
<1>7. ASSUME NEW b \in Run!Handling(c) PROVE b \in Run!Handling(at)
  <2>1. HandledBy(b, c)
    BY <1>5, <1>7, HandlingIs
  <2>2. HandledBy(b, at)
    BY <1>4, <2>1, NoBlockEnteredByLoop
  <2> QED
    BY <1>5, <2>2, HandlingIs
<1> QED
  BY <1>3, <1>5, <1>6, <1>7 DEF MoveTo

\* Where a failure is handled.
Handler == Run!Max(Run!Handling(at))

LEMMA FailureMoves ==
    ASSUME Nested, at \in 1..N, Run!Handling(at) # {}
    PROVE  /\ Handler \in Run!Handling(at) /\ Handler \in 1..N
           /\ MoveTo(Run!Min(Run!Branches(Handler, "EXCEPTION")) + 1)
           /\ Target(Run!Min(Run!Branches(Handler, "EXCEPTION")) + 1)
<1>0. N \in Nat /\ at \in Nat /\ at \in 1..(N + 1)
  BY DEF Nested
<1>1. \A b : b \in Run!Handling(at) <=> HandledBy(b, at)
  BY <1>0, HandlingIs
<1>2. Run!Handling(at) \subseteq 1..N
  BY <1>1 DEF HandledBy
<1>3. PICK c \in 1..N : c = Handler /\ c \in Run!Handling(at)
  BY <1>0, <1>2, GreatestOf DEF Handler
<1>4. HandledBy(c, at)
  BY <1>1, <1>3
<1>5. Tok(c) = "BEGIN" /\ \E e \in 1..N : Tok(e) = "EXCEPTION" /\ Part(c, e)
  BY <1>4 DEF HandledBy
<1>6. Tok(c) \in Run!Opens
  BY <1>5 DEF Run!Opens
<1>7. PICK A : A = Run!Branches(c, "EXCEPTION")
  OBVIOUS
<1>8. \A x : x \in A <=> x \in 1..N /\ Tok(x) = "EXCEPTION" /\ Part(c, x)
  BY <1>6, <1>7, BranchIsPart
<1>9. A \subseteq Nat /\ A # {}
  BY <1>5, <1>8
<1>10. PICK x \in A : x = Run!Min(A)
  BY <1>9, LeastOf
<1>11. x \in 1..N /\ Tok(x) = "EXCEPTION" /\ Part(c, x)
  BY <1>8, <1>10
<1>12. x + 1 \in 1..(N + 1) /\ Target(x + 1)
  BY <1>0, <1>11 DEF Target
<1>13. ASSUME NEW b \in Run!Handling(x + 1) PROVE b \in Run!Handling(at)
  <2>1. HandledBy(b, x + 1)
    BY <1>12, <1>13, HandlingIs
  <2>2. HandledBy(b, at)
    BY <1>4, <1>11, <2>1, NoBlockEnteredByHandler
  <2> QED
    BY <1>1, <2>2
<1>14. MoveTo(x + 1)
  BY <1>12, <1>13 DEF MoveTo
<1> QED
  BY <1>3, <1>7, <1>10, <1>12, <1>14

-----------------------------------------------------------------------------
(* The steps of a call                                                      *)

Running == outcome = "running" /\ outcome' = "running" /\ at \in 1..N
Committed == UNCHANGED <<done, delivered>>

Sends ==
    /\ Running /\ Tok(at) = "signal" /\ at' = at + 1
    /\ pending' = pending \cup {written[at][2]} /\ kept' = kept /\ saved' = saved /\ Committed

Ran ==
    /\ Running /\ Tok(at) \in {"word", "DIAGNOSTICS", "RAISE", "IF", "WHILE", "EXIT"}
    /\ MoveTo(at') /\ (Tok(at) \in Simple => at' = at + 1)
    /\ kept' = kept \cup {written[at][2]} /\ pending' = pending /\ saved' = saved /\ Committed

Moves ==
    /\ Running /\ Tok(at) \notin Statements0 \cup {"signal", "BEGIN"} /\ MoveTo(at')
    /\ Tok(at) \in {"COMMENT", "NOTICE", ";"} => at' = at + 1
    /\ kept' = kept /\ pending' = pending /\ saved' = saved /\ Committed

Enters ==
    /\ Running /\ Tok(at) = "BEGIN" /\ at' = at + 1
    /\ saved' = [saved EXCEPT ![written[at][2]] = [kept |-> kept, pending |-> pending]]
    /\ kept' = kept /\ pending' = pending /\ Committed

RollsBack ==
    /\ Running /\ MoveTo(at') /\ Target(at') /\ Tok(at) # "BEGIN"
    /\ \E b \in 1..N : /\ b \in Run!Handling(at)
                       /\ kept' = saved[written[b][2]].kept
                       /\ pending' = saved[written[b][2]].pending
    /\ saved' = saved /\ Committed

Aborts ==
    /\ outcome = "running" /\ outcome' = "failed" /\ at \in 1..N /\ Tok(at) \in Statements0
    /\ at' = at /\ kept' = kept /\ pending' = pending /\ saved' = saved /\ Committed

Ends0 ==
    /\ outcome = "running" /\ outcome' = "returned" /\ (at \in 1..N => Tok(at) = "END") /\ at \in 1..(N + 1)
    /\ at' = at /\ kept' = kept /\ pending' = pending /\ saved' = saved /\ Committed

Returns ==
    /\ outcome = "running" /\ outcome' = "returned" /\ at \in 1..N /\ Tok(at) = "RETURN"
    /\ at' = at /\ kept' = kept \cup {written[at][2]} /\ pending' = pending /\ saved' = saved /\ Committed

Commits ==
    /\ Running /\ Tok(at) = "COMMIT" /\ Run!Handling(at) = {} /\ at' = at + 1
    /\ done' = (done \cup kept) \cup {written[at][2]} /\ delivered' = delivered \cup pending
    /\ kept' = {} /\ pending' = {} /\ saved' = saved

OneStep ==
    \/ Sends \/ Ran \/ Moves \/ Enters \/ RollsBack \/ Aborts \/ Ends0 \/ Returns \/ Commits

\* Control is at a token of ts.
LEMMA AtToken ==
    ASSUME N \in Nat, outcome = "running" => at \in 1..(N + 1), NEW ts, Run!At(ts)
    PROVE  at \in 1..N /\ Tok(at) \in ts /\ outcome = "running" /\ Run!Token = written[at][2]
BY DEF Run!At, Run!Token, Tok, N

LEMMA FailsSteps ==
    ASSUME N \in Nat, Fit, outcome = "running", at \in 1..N, Tok(at) \in Statements0, Run!Fails
    PROVE  RollsBack \/ Aborts
<1>1. CASE Run!Handling(at) = {}
  <2>1. outcome' = "failed" /\ UNCHANGED <<at, kept, pending>> /\ UNCHANGED <<found, saved, done, delivered>>
    BY <1>1 DEF Run!Fails
  <2> QED
    BY <2>1 DEF Aborts, Committed
<1>2. CASE Run!Handling(at) # {}
  <2>1. /\ at' = Run!Min(Run!Branches(Handler, "EXCEPTION")) + 1
        /\ kept' = saved[written[Handler][2]].kept
        /\ pending' = saved[written[Handler][2]].pending
        /\ outcome' = outcome /\ saved' = saved /\ Committed
    BY <1>2 DEF Run!Fails, Handler, Committed
  <2>2. Nested
    <3>1. ~(kind = "sql" /\ SqlTokens)
      <4>1. at \in 1..(N + 1)
        OBVIOUS
      <4> QED
        BY <1>2, <4>1, SqlHandlesNothing
    <3> QED
      BY <3>1 DEF Fit
  <2>3. /\ Handler \in Run!Handling(at) /\ Handler \in 1..N
        /\ MoveTo(Run!Min(Run!Branches(Handler, "EXCEPTION")) + 1)
        /\ Target(Run!Min(Run!Branches(Handler, "EXCEPTION")) + 1)
    BY <1>2, <2>2, FailureMoves
  <2>4. Tok(at) # "BEGIN"
    BY DEF Statements0, Simple
  <2>5. MoveTo(at') /\ Target(at')
    BY <2>1, <2>3
  <2> QED
    BY <2>1, <2>3, <2>4, <2>5 DEF RollsBack, Running
<1> QED
  BY <1>1, <1>2

LEMMA RunSteps ==
    ASSUME N \in Nat, Fit, outcome = "running" => at \in 1..(N + 1),
           \/ Run!SendSignal \/ Run!Pass \/ Run!EnterBlock \/ Run!RunStatement \/ Run!RunDiagnostics
           \/ Run!RaiseNotice \/ Run!RaiseException \/ Run!StatementFails
           \/ Run!Return \/ Run!CommitInside \/ Run!ReachEndOfSQL
    PROVE  OneStep
<1>1. CASE Run!SendSignal
  <2>1. Run!At({"signal"}) /\ pending' = pending \cup {Run!Token} /\ at' = at + 1
        /\ UNCHANGED <<found, kept, saved, done, delivered, ran, outcome>>
    BY <1>1 DEF Run!SendSignal
  <2>2. at \in 1..N /\ Tok(at) \in {"signal"} /\ outcome = "running" /\ Run!Token = written[at][2]
    BY <2>1, AtToken
  <2> QED
    BY <2>1, <2>2 DEF OneStep, Sends, Running, Committed
<1>2. CASE Run!Pass
  <2>1. Run!At({";", "COMMENT", "NOTICE", "DECLARE", "LOOP"}) /\ at' = at + 1
        /\ UNCHANGED <<found, kept, pending, saved, done, delivered, ran, outcome>>
    BY <1>2 DEF Run!Pass
  <2>2. at \in 1..N /\ Tok(at) \in {";", "COMMENT", "NOTICE", "DECLARE", "LOOP"} /\ outcome = "running"
    BY <2>1, AtToken
  <2>3. MoveTo(at')
    BY <2>1, <2>2, MoveOn
  <2>4. Tok(at) \notin Statements0 \cup {"signal", "BEGIN"}
    BY <2>2 DEF Statements0, Simple
  <2> QED
    BY <2>1, <2>2, <2>3, <2>4 DEF OneStep, Moves, Running, Committed
<1>3. CASE Run!EnterBlock
  <2>1. Run!At({"BEGIN"}) /\ saved' = [saved EXCEPT ![Run!Token] = [kept |-> kept, pending |-> pending]]
        /\ at' = at + 1 /\ UNCHANGED <<found, kept, pending, done, delivered, ran, outcome>>
    BY <1>3 DEF Run!EnterBlock
  <2>2. at \in 1..N /\ Tok(at) \in {"BEGIN"} /\ outcome = "running" /\ Run!Token = written[at][2]
    BY <2>1, AtToken
  <2> QED
    BY <2>1, <2>2 DEF OneStep, Enters, Running, Committed
<1>4. CASE Run!RunStatement \/ Run!RunDiagnostics \/ Run!RaiseNotice
  <2>1. Run!At({"word", "DIAGNOSTICS", "RAISE"}) /\ kept' = kept \cup {Run!Token} /\ at' = at + 1
        /\ UNCHANGED <<pending, saved, done, delivered, outcome>>
    BY <1>4 DEF Run!RunStatement, Run!RunDiagnostics, Run!RaiseNotice, Run!Runs, Run!At
  <2>2. at \in 1..N /\ Tok(at) \in {"word", "DIAGNOSTICS", "RAISE"} /\ outcome = "running"
        /\ Run!Token = written[at][2]
    BY <2>1, AtToken
  <2>3. MoveTo(at')
    BY <2>1, <2>2, MoveOn
  <2> QED
    BY <2>1, <2>2, <2>3 DEF OneStep, Ran, Running, Committed
<1>5. CASE Run!RaiseException \/ Run!StatementFails
  <2>1. Run!At({"word", "RETURN", "COMMIT", "RAISE"}) /\ Run!Fails
    BY <1>5 DEF Run!RaiseException, Run!StatementFails, Run!At
  <2>2. at \in 1..N /\ Tok(at) \in {"word", "RETURN", "COMMIT", "RAISE"} /\ outcome = "running"
    BY <2>1, AtToken
  <2>3. Tok(at) \in Statements0
    BY <2>2 DEF Statements0, Simple
  <2> QED
    BY <2>1, <2>2, <2>3, FailsSteps DEF OneStep
<1>6. CASE Run!Return
  <2>1. Run!At({"RETURN"}) /\ kept' = kept \cup {Run!Token} /\ outcome' = "returned"
        /\ UNCHANGED <<at, found, pending, saved, done, delivered>>
    BY <1>6 DEF Run!Return, Run!Runs
  <2>2. at \in 1..N /\ Tok(at) \in {"RETURN"} /\ outcome = "running" /\ Run!Token = written[at][2]
    BY <2>1, AtToken
  <2> QED
    BY <2>1, <2>2 DEF OneStep, Returns, Committed
<1>7. CASE Run!CommitInside
  <2>1. Run!At({"COMMIT"}) /\ Run!Handling(at) = {} /\ done' = (done \cup kept) \cup {Run!Token}
        /\ delivered' = delivered \cup pending /\ kept' = {} /\ pending' = {} /\ at' = at + 1
        /\ UNCHANGED <<found, saved, outcome>>
    BY <1>7 DEF Run!CommitInside
  <2>2. at \in 1..N /\ Tok(at) \in {"COMMIT"} /\ outcome = "running" /\ Run!Token = written[at][2]
    BY <2>1, AtToken
  <2> QED
    BY <2>1, <2>2 DEF OneStep, Commits, Running
<1>8. CASE Run!ReachEndOfSQL
  <2>1. outcome = "running" /\ at > N /\ outcome' = "returned"
        /\ UNCHANGED <<at, found, kept, pending, saved, done, delivered, ran>>
    BY <1>8 DEF Run!ReachEndOfSQL, N
  <2>2. at \in 1..(N + 1) /\ (at \in 1..N => Tok(at) = "END")
    BY <2>1
  <2> QED
    BY <2>1, <2>2 DEF OneStep, Ends0, Committed
<1> QED
  BY <1>1, <1>2, <1>3, <1>4, <1>5, <1>6, <1>7, <1>8

LEMMA JumpSteps ==
    ASSUME N \in Nat, Fit, outcome = "running" => at \in 1..(N + 1),
           Run!Branch \/ Run!SkipOtherPart \/ Run!ExitLoop \/ Run!ReachEnd
    PROVE  OneStep
<1>1. Run!At({"IF", "WHILE", "ELSE", "EXCEPTION", "EXIT", "END"})
  BY DEF Run!Branch, Run!SkipOtherPart, Run!ExitLoop, Run!ReachEnd, Run!At
<1>2. at \in 1..N /\ Tok(at) \in {"IF", "WHILE", "ELSE", "EXCEPTION", "EXIT", "END"}
      /\ outcome = "running" /\ Run!Token = written[at][2]
  BY <1>1, AtToken
<1>3. Nested
  <2>1. ~(kind = "sql" /\ SqlTokens)
    BY <1>2 DEF SqlTokens
  <2> QED
    BY <2>1 DEF Fit
<1>4. MoveTo(at + 1)
  BY <1>2, MoveOn
<1>5. CASE Run!Branch
  <2>1. Run!At({"IF", "WHILE"}) /\ kept' = kept \cup {Run!Token}
        /\ UNCHANGED <<found, pending, saved, done, delivered, outcome>>
    BY <1>5 DEF Run!Branch, Run!Runs
  <2>2. \/ at' = at + 1
        \/ Run!Branches(at, "ELSE") # {} /\ at' = Run!Min(Run!Branches(at, "ELSE")) + 1
        \/ at' = Run!EndOf(at) + 1
    BY <1>5 DEF Run!Branch
  <2>3. Tok(at) \in {"IF", "WHILE"}
    BY <2>1, AtToken
  <2>4. MoveTo(at')
    BY <1>2, <1>3, <1>4, <2>2, <2>3, BranchesMove
  <2>5. Tok(at) \in {"word", "DIAGNOSTICS", "RAISE", "IF", "WHILE", "EXIT"} /\ Tok(at) \notin Simple
    BY <2>3 DEF Simple
  <2> QED
    BY <1>2, <2>1, <2>4, <2>5 DEF OneStep, Ran, Running, Committed
<1>6. CASE Run!SkipOtherPart
  <2>1. Run!At({"ELSE", "EXCEPTION"}) /\ at' = Run!EndOf(at)
        /\ UNCHANGED <<found, kept, pending, saved, done, delivered, ran, outcome>>
    BY <1>6 DEF Run!SkipOtherPart
  <2>2. Tok(at) \in {"ELSE", "EXCEPTION"}
    BY <2>1, AtToken
  <2>3. MoveTo(at')
    BY <1>2, <1>3, <2>1, <2>2, SkipMoves
  <2>4. Tok(at) \notin Statements0 \cup {"signal", "BEGIN"} /\ Tok(at) \notin {"COMMENT", "NOTICE", ";"}
    BY <2>2 DEF Statements0, Simple
  <2> QED
    BY <1>2, <2>1, <2>3, <2>4 DEF OneStep, Moves, Running, Committed
<1>7. CASE Run!ExitLoop
  <2>1. Run!At({"EXIT"}) /\ kept' = kept \cup {Run!Token}
        /\ UNCHANGED <<found, pending, saved, done, delivered, outcome>>
    BY <1>7 DEF Run!ExitLoop, Run!Runs
  <2>2. at' = at + 1 \/ at' = Run!EndOf(Run!Max(Run!Around(at, {"LOOP", "WHILE"}))) + 1
    BY <1>7 DEF Run!ExitLoop
  <2>3. Tok(at) = "EXIT"
    BY <2>1, AtToken
  <2>4. MoveTo(at')
    BY <1>2, <1>3, <1>4, <2>2, <2>3, ExitMoves
  <2>5. Tok(at) \in {"word", "DIAGNOSTICS", "RAISE", "IF", "WHILE", "EXIT"} /\ Tok(at) \notin Simple
    BY <2>3 DEF Simple
  <2> QED
    BY <1>2, <2>1, <2>4, <2>5 DEF OneStep, Ran, Running, Committed
<1>8. CASE Run!ReachEnd
  <2>1. Run!At({"END"}) /\ UNCHANGED <<found, kept, pending, saved, done, delivered, ran>>
    BY <1>8 DEF Run!ReachEnd
  <2>2. \/ Tok(Opener(at)) \in {"LOOP", "WHILE"} /\ at' = Opener(at) /\ outcome' = outcome
        \/ at' = at + 1 /\ outcome' = outcome
        \/ at' = at /\ outcome' = "returned"
    BY <1>8 DEF Run!ReachEnd, Opener, Tok
  <2>3. Tok(at) = "END"
    BY <2>1, AtToken
  <2>4. CASE at' = at /\ outcome' = "returned"
    <3>1. at \in 1..(N + 1)
      BY <1>2
    <3> QED
      BY <1>2, <2>1, <2>3, <2>4, <3>1 DEF OneStep, Ends0, Committed
  <2>5. CASE MoveTo(at') /\ outcome' = outcome
    <3>1. Tok(at) \notin Statements0 \cup {"signal", "BEGIN"} /\ Tok(at) \notin {"COMMENT", "NOTICE", ";"}
      BY <2>3 DEF Statements0, Simple
    <3> QED
      BY <1>2, <2>1, <2>5, <3>1 DEF OneStep, Moves, Running, Committed
  <2>6. ASSUME Tok(Opener(at)) \in {"LOOP", "WHILE"} PROVE MoveTo(Opener(at))
    BY <1>2, <1>3, <2>3, <2>6, LoopMoves
  <2> QED
    BY <1>4, <2>2, <2>4, <2>5, <2>6
<1> QED
  BY <1>5, <1>6, <1>7, <1>8

-----------------------------------------------------------------------------
(* A step keeps the signal of a point with its statements                   *)

\* What there is to know of the signal p of a statement q.
Apart(p, q) ==
    /\ p \in 1..N /\ q \in 1..N /\ Tok(p) = "signal" /\ Tok(q) \in Statements0 /\ Beside(p, q)
    /\ \A x \in 1..N : Tok(x) = "signal" /\ written[x][2] = written[p][2] => x = p
    /\ \A x \in 1..N : Tok(x) # "signal" /\ written[x][2] = written[q][2] => x = q

LEMMA PairsApart ==
    ASSUME PiecesOK, TextsOK, SignalsOK, Matched, NEW p \in 1..N, NEW q \in 1..N, Pair(p, q)
    PROVE  Apart(p, q)
<1>1. Beside(p, q)
  BY DEF Matched
<1>2. written[p][1] = "signal" /\ written[q][1] = "text" /\ Tok(q) \in Statements0
  BY DEF Pair
<1>3. Tok(p) = "signal" /\ Tok(q) # "signal"
  BY <1>2, Pieces
<1>4. ASSUME NEW x \in 1..N, Tok(x) = "signal", written[x][2] = written[p][2] PROVE x = p
  <2>1. written[x][1] = "signal"
    BY <1>4, Pieces
  <2> QED
    BY <1>2, <1>4, <2>1, SamePiece
<1>5. ASSUME NEW x \in 1..N, Tok(x) # "signal", written[x][2] = written[q][2] PROVE x = q
  <2>1. written[x][1] = "text"
    BY <1>5, Pieces
  <2> QED
    BY <1>2, <1>5, <2>1, SamePiece
<1> QED
  BY <1>1, <1>2, <1>3, <1>4, <1>5 DEF Apart

\* No jump goes between a statement and the signal after it, or to a statement before which
\* its signal is.
LEMMA NotInto ==
    ASSUME N \in Nat, NEW p, NEW q, Apart(p, q), NEW a \in 1..(N + 1), Target(a)
    PROVE  /\ p \in Nat /\ q \in Nat
           /\ ~(q < a /\ a <= p)
           /\ ~(a = q /\ q = p + 1)
<1>1. p \in 1..N /\ q \in 1..N /\ Tok(p) = "signal" /\ Tok(q) \in Statements0 /\ Beside(p, q)
  BY DEF Apart
<1>2. p \in Nat /\ q \in Nat /\ a \in Nat
  BY <1>1
<1>3. ASSUME Target(a), q < a, a <= p PROVE FALSE
  <2>1. PICK y \in 1..N : \/ a = y + 1 /\ Tok(y) \in {"ELSE", "EXCEPTION", "END"}
                          \/ a = y /\ Tok(y) \in {"LOOP", "WHILE", "END"}
    BY <1>3 DEF Target
  <2>2. q < p /\ \A x \in (q + 1)..(p - 1) : Tok(x) \in {"COMMENT", "NOTICE", ";"}
    <3>1. q # p + 1
      BY <1>2, <1>3
    <3> QED
      BY <1>1, <3>1 DEF Beside
  <2>3. y \in Nat /\ (y = q \/ y = p \/ y \in (q + 1)..(p - 1))
    <3>1. y \in Nat /\ (a = y + 1 \/ a = y)
      BY <2>1
    <3> QED
      BY <1>2, <1>3, <3>1
  <2>4. Tok(y) \in {"ELSE", "EXCEPTION", "END", "LOOP", "WHILE"}
    BY <2>1
  <2>5. CASE y = q
    BY <1>1, <2>4, <2>5 DEF Statements0, Simple
  <2>6. CASE y = p
    BY <1>1, <2>4, <2>6
  <2>7. CASE y \in (q + 1)..(p - 1)
    <3>1. Tok(y) \in {"COMMENT", "NOTICE", ";"}
      BY <2>2, <2>7
    <3> QED
      BY <2>4, <3>1
  <2> QED
    BY <2>3, <2>5, <2>6, <2>7
<1>4. ASSUME Target(a), a = q, q = p + 1 PROVE FALSE
  <2>1. PICK y \in 1..N : \/ a = y + 1 /\ Tok(y) \in {"ELSE", "EXCEPTION", "END"}
                          \/ a = y /\ Tok(y) \in {"LOOP", "WHILE", "END"}
    BY <1>4 DEF Target
  <2>2. y = p \/ y = q
    <3>1. y \in Nat /\ (a = y + 1 \/ a = y)
      BY <2>1
    <3> QED
      BY <1>2, <1>4, <3>1
  <2>3. Tok(y) \in {"ELSE", "EXCEPTION", "END", "LOOP", "WHILE"}
    BY <2>1
  <2> QED
    BY <1>1, <2>2, <2>3 DEF Statements0, Simple
<1> QED
  BY <1>2, <1>3, <1>4

\* Control comes between a statement and the signal after it only through the statement.
LEMMA Reached ==
    ASSUME N \in Nat, NEW p, NEW q, Apart(p, q), at \in 1..N, NEW a \in 1..(N + 1),
           a = at + 1 \/ Target(a)
    PROVE  /\ p \in Nat /\ q \in Nat
           /\ q < a /\ a <= p => a = at + 1 /\ q <= at /\ at < p
           /\ a = q /\ q = p + 1 => a = at + 1 /\ at = p
<1>1. p \in Nat /\ q \in Nat /\ at \in Nat
  BY DEF Apart
<1>2. CASE Target(a)
  BY <1>1, <1>2, NotInto
<1>3. CASE a = at + 1
  BY <1>1, <1>3
<1> QED
  BY <1>2, <1>3

\* What runs between a statement and its signal changes nothing.
LEMMA Within ==
    ASSUME N \in Nat, NEW p, NEW q, Apart(p, q), at \in 1..N, q < at, at <= p
    PROVE  (Tok(at) = "signal" /\ at = p) \/ Tok(at) \in {"COMMENT", "NOTICE", ";"}
<1>1. p \in 1..N /\ q \in 1..N /\ Tok(p) = "signal" /\ Beside(p, q)
  BY DEF Apart
<1>2. p \in Nat /\ q \in Nat /\ at \in Nat
  BY <1>1
<1>3. CASE at = p
  BY <1>1, <1>3
<1>4. CASE at # p
  <2>1. at \in (q + 1)..(p - 1) /\ q # p + 1
    BY <1>2, <1>4
  <2> QED
    BY <1>1, <2>1 DEF Beside
<1> QED
  BY <1>3, <1>4

\* The invariant of a pair, on its tokens.

\* A call does not change the body.
LEMMA SameConstructs ==
    ASSUME written' = written, body' = body
    PROVE  /\ N' = N
           /\ \A x : Tok(x)' = Tok(x)
           /\ \A x : D(x)' = D(x)
           /\ \A x : Run!EndOf(x)' = Run!EndOf(x)
           /\ \A x, t : Run!Branches(x, t)' = Run!Branches(x, t)
           /\ \A a : a = at' => Run!Handling(at)' = Run!Handling(a)
<1>1. N' = N
  BY DEF N
<1>2. ASSUME NEW x PROVE Run!TokenAt(x)' = Run!TokenAt(x)
  BY DEF Run!TokenAt
<1>3. ASSUME NEW x PROVE Run!Depth(x)' = Run!Depth(x)
  <2>1. PICK A : A = {q \in 1..x : Run!TokenAt(q) \in Run!Opens}
    OBVIOUS
  <2>2. PICK B : B = {q \in 1..x : Run!TokenAt(q) = "END"}
    OBVIOUS
  <2>3. {q \in 1..x : Run!TokenAt(q)' \in Run!Opens} = A
    BY <1>2, <2>1
  <2>4. {q \in 1..x : Run!TokenAt(q)' = "END"} = B
    BY <1>2, <2>2
  <2>5. Run!Depth(x)' = Cardinality(A) - Cardinality(B)
    BY <2>3, <2>4, SameCardinality DEF Run!Depth
  <2>6. Run!Depth(x) = Cardinality(A) - Cardinality(B)
    BY <2>1, <2>2, SameCardinality DEF Run!Depth
  <2> QED
    BY <2>5, <2>6
<1>4. ASSUME NEW x PROVE Run!EndOf(x)' = Run!EndOf(x)
  <2>1. PICK A : A = {q \in x..Len(written) : Run!TokenAt(q) = "END" /\ Run!Depth(q) < Run!Depth(x)}
    OBVIOUS
  <2>2. {q \in x..Len(written)' : Run!TokenAt(q)' = "END" /\ Run!Depth(q)' < Run!Depth(x)'} = A
    BY <1>2, <1>3, <2>1
  <2>3. Run!EndOf(x)' = Run!Min(A)
    BY <2>2 DEF Run!EndOf
  <2>4. Run!EndOf(x) = Run!Min(A)
    BY <2>1 DEF Run!EndOf
  <2> QED
    BY <2>3, <2>4
<1>5. ASSUME NEW x, NEW t PROVE Run!Branches(x, t)' = Run!Branches(x, t)
  BY <1>2, <1>3, <1>4 DEF Run!Branches
<1>6. ASSUME NEW a, a = at' PROVE Run!Handling(at)' = Run!Handling(a)
  BY <1>2, <1>4, <1>5, <1>6 DEF Run!Handling, Run!Around
<1> QED
  BY <1>1, <1>2, <1>3, <1>4, <1>5, <1>6 DEF Tok, D

\* The code stays, and control is at a piece of it.
Steady == /\ written' = written /\ body' = body /\ N \in Nat
          /\ DOMAIN saved = DOMAIN body
          /\ \A b \in 1..N : written[b][2] \in DOMAIN body

LEMMA RanIfSentStep ==
    ASSUME Steady, NEW p, NEW q, Apart(p, q), NEW t, NEW o, t = written[q][2], o = written[p][2],
           RanIfSent(p, q, t, o), OneStep
    PROVE  RanIfSent(p, q, t, o)'
<1>1. /\ N \in Nat /\ p \in 1..N /\ q \in 1..N /\ p \in Nat /\ q \in Nat
      /\ Tok(p) = "signal" /\ Tok(q) \in Statements0 /\ Tok(q) # "signal"
  BY DEF Apart, Steady, Statements0, Simple
<1>2. /\ o \in delivered => t \in done
      /\ outcome \in {"running", "returned"} /\ o \in pending =>
             t \in kept \cup done \/ (outcome = "running" /\ at = q)
      /\ \A i \in DOMAIN saved : o \in saved[i].pending => t \in saved[i].kept \cup done
      /\ outcome = "running" /\ q < at /\ at <= p => t \in kept \cup done
  BY DEF RanIfSent, Between, Lasting
<1>3. ASSUME /\ o \in delivered' => t \in done'
             /\ outcome' \in {"running", "returned"} /\ o \in pending' =>
                    t \in kept' \cup done' \/ (outcome' = "running" /\ at' = q)
             /\ \A i \in DOMAIN saved' : o \in saved'[i].pending => t \in saved'[i].kept \cup done'
             /\ outcome' = "running" /\ q < at' /\ at' <= p => t \in kept' \cup done'
      PROVE  RanIfSent(p, q, t, o)'
  BY <1>3 DEF RanIfSent, Between, Lasting
<1>4. ASSUME at \in 1..N, Tok(at) = "signal", written[at][2] = o PROVE at = p
  BY <1>4 DEF Apart
<1>5. ASSUME at \in 1..N, NEW a, a = at', MoveTo(a) PROVE q < a /\ a <= p => a = at + 1 /\ q <= at /\ at < p
  <2>1. a \in 1..(N + 1) /\ (a = at + 1 \/ Target(a))
    BY <1>5 DEF MoveTo
  <2> QED
    BY <1>1, <1>5, <2>1, Reached
<1>6. CASE Sends
  <2>1. /\ outcome = "running" /\ outcome' = "running" /\ at \in 1..N /\ Tok(at) = "signal" /\ at' = at + 1
        /\ pending' = pending \cup {written[at][2]} /\ kept' = kept /\ saved' = saved /\ done' = done
        /\ delivered' = delivered
    BY <1>6 DEF Sends, Running, Committed
  <2>2. at # q
    BY <1>1, <2>1
  <2>3. o \in pending' => o \in pending \/ at = p
    BY <1>4, <2>1
  <2>4. q = p + 1 \/ q < p
    BY DEF Apart, Beside
  <2>5. at = p => at' = q \/ t \in kept \cup done
    BY <1>1, <1>2, <2>1, <2>4
  <2>6. outcome' = "running" /\ q < at' /\ at' <= p => t \in kept' \cup done'
    BY <1>1, <1>2, <2>1, <2>2
  <2> QED
    BY <1>2, <1>3, <2>1, <2>2, <2>3, <2>5, <2>6
<1>7. CASE Ran
  <2>1. /\ outcome = "running" /\ outcome' = "running" /\ at \in 1..N /\ MoveTo(at')
        /\ kept' = kept \cup {written[at][2]} /\ pending' = pending /\ saved' = saved /\ done' = done
        /\ delivered' = delivered
    BY <1>7 DEF Ran, Running, Committed
  <2>2. at = q => t \in kept'
    BY <2>1
  <2>3. q < at' /\ at' <= p => at = q \/ (q < at /\ at <= p)
    BY <1>1, <1>5, <2>1
  <2> QED
    BY <1>2, <1>3, <2>1, <2>2, <2>3
<1>8. CASE Moves
  <2>1. /\ outcome = "running" /\ outcome' = "running" /\ at \in 1..N /\ MoveTo(at')
        /\ kept' = kept /\ pending' = pending /\ saved' = saved /\ done' = done
        /\ delivered' = delivered /\ Tok(at) \notin Statements0
    BY <1>8 DEF Moves, Running, Committed
  <2>2. at # q
    BY <1>1, <2>1
  <2>3. q < at' /\ at' <= p => q < at /\ at <= p
    BY <1>1, <1>5, <2>1, <2>2
  <2> QED
    BY <1>2, <1>3, <2>1, <2>2, <2>3
<1>9. CASE Enters
  <2>1. /\ outcome = "running" /\ outcome' = "running" /\ at \in 1..N /\ at' = at + 1 /\ Tok(at) = "BEGIN"
        /\ kept' = kept /\ pending' = pending /\ done' = done /\ delivered' = delivered
        /\ saved' = [saved EXCEPT ![written[at][2]] = [kept |-> kept, pending |-> pending]]
    BY <1>9 DEF Enters, Running, Committed
  <2>2. at # q
    BY <1>1, <2>1 DEF Statements0, Simple
  <2>3. q < at' /\ at' <= p => q < at /\ at <= p
    BY <1>1, <2>1, <2>2
  <2>4. ASSUME NEW i \in DOMAIN saved', o \in saved'[i].pending PROVE t \in saved'[i].kept \cup done'
    <3>1. i \in DOMAIN saved
      BY <2>1, <2>4
    <3>2. CASE i = written[at][2]
      <4>1. saved'[i].kept = kept /\ saved'[i].pending = pending
        BY <2>1, <3>1, <3>2
      <4> QED
        BY <1>2, <2>1, <2>2, <2>4, <4>1
    <3>3. CASE i # written[at][2]
      <4>1. saved'[i] = saved[i]
        BY <2>1, <3>1, <3>3
      <4> QED
        BY <1>2, <2>1, <2>4, <3>1, <4>1
    <3> QED
      BY <3>2, <3>3
  <2> QED
    BY <1>2, <1>3, <2>1, <2>2, <2>3, <2>4
<1>10. CASE RollsBack
  <2>1. /\ outcome = "running" /\ outcome' = "running" /\ at \in 1..N /\ MoveTo(at') /\ Target(at')
        /\ saved' = saved /\ done' = done /\ delivered' = delivered
    BY <1>10 DEF RollsBack, Running, Committed
  <2>2. PICK b \in 1..N : kept' = saved[written[b][2]].kept /\ pending' = saved[written[b][2]].pending
    BY <1>10 DEF RollsBack
  <2>3. written[b][2] \in DOMAIN saved
    BY DEF Steady
  <2>4. o \in pending' => t \in kept' \cup done'
    BY <1>2, <2>1, <2>2, <2>3
  <2>5. ~(q < at' /\ at' <= p) \/ t \in kept' \cup done'
    <3>1. ASSUME NEW a, a = at', q < a, a <= p PROVE FALSE
      <4>1. a \in 1..(N + 1) /\ Target(a)
        BY <2>1, <3>1 DEF MoveTo
      <4> QED
        BY <1>1, <2>1, <3>1, <4>1, NotInto
    <3> QED
      BY <3>1
  <2> QED
    BY <1>2, <1>3, <2>1, <2>4, <2>5
<1>11. CASE Aborts
  <2>1. outcome' = "failed" /\ kept' = kept /\ pending' = pending /\ saved' = saved /\ done' = done
        /\ delivered' = delivered
    BY <1>11 DEF Aborts, Committed
  <2> QED
    BY <1>2, <1>3, <2>1
<1>12. CASE Ends0
  <2>1. outcome = "running" /\ outcome' = "returned" /\ kept' = kept /\ pending' = pending /\ saved' = saved
        /\ done' = done /\ delivered' = delivered /\ (at \in 1..N => Tok(at) = "END")
    BY <1>12 DEF Ends0, Committed
  <2>2. at # q
    BY <1>1, <2>1 DEF Statements0, Simple
  <2> QED
    BY <1>2, <1>3, <2>1, <2>2
<1>13. CASE Returns
  <2>1. outcome = "running" /\ outcome' = "returned" /\ kept' = kept \cup {written[at][2]} /\ pending' = pending
        /\ saved' = saved /\ done' = done /\ delivered' = delivered
    BY <1>13 DEF Returns, Committed
  <2>2. at = q => t \in kept'
    BY <2>1
  <2> QED
    BY <1>2, <1>3, <2>1, <2>2
<1>14. CASE Commits
  <2>1. /\ outcome = "running" /\ outcome' = "running" /\ at \in 1..N /\ at' = at + 1
        /\ done' = (done \cup kept) \cup {written[at][2]} /\ delivered' = delivered \cup pending
        /\ pending' = {} /\ saved' = saved
    BY <1>14 DEF Commits, Running
  <2>2. at = q => t \in done'
    BY <2>1
  <2>3. q < at' /\ at' <= p => at = q \/ (q < at /\ at <= p)
    BY <1>1, <2>1
  <2> QED
    BY <1>2, <1>3, <2>1, <2>2, <2>3
<1> QED
  BY <1>6, <1>7, <1>8, <1>9, <1>10, <1>11, <1>12, <1>13, <1>14 DEF OneStep

LEMMA SentIfRanStep ==
    ASSUME Steady, Fit, NEW p, NEW q, Apart(p, q), NEW t, NEW o, t = written[q][2], o = written[p][2],
           Tok(q) \in Simple, SentIfRan(p, q, t, o), OneStep
    PROVE  SentIfRan(p, q, t, o)'
<1>1. /\ N \in Nat /\ p \in 1..N /\ q \in 1..N /\ p \in Nat /\ q \in Nat /\ (q = p + 1 \/ q < p)
      /\ Tok(p) = "signal" /\ Tok(q) # "signal" /\ (Tok(q) = "RETURN" => q = p + 1)
  <2>1. p \in 1..N /\ q \in 1..N /\ Beside(p, q) /\ Tok(p) = "signal"
    BY DEF Apart
  <2>2. N \in Nat
    BY DEF Steady
  <2>3. p \in Nat /\ q \in Nat
    BY <2>1, <2>2
  <2>4. (q = p + 1 \/ q < p) /\ (Tok(q) = "RETURN" => q = p + 1)
    BY <2>1, <2>2 DEF Beside
  <2>5. Tok(q) # "signal"
    BY DEF Simple
  <2> QED
    BY <2>1, <2>2, <2>3, <2>4, <2>5
<1>2. /\ t \in kept => o \in pending \cup delivered \/ (outcome = "running" /\ q < at /\ at <= p)
      /\ \A i \in DOMAIN saved : t \in saved[i].kept => o \in saved[i].pending \cup delivered
      /\ outcome = "running" /\ at = q /\ q = p + 1 => o \in pending \cup delivered
  BY DEF SentIfRan, Between, Sent
<1>3. t \in done => \/ o \in delivered
                    \/ /\ Tok(q) = "COMMIT"
                       /\ \/ outcome \in {"failed", "undone"}
                          \/ outcome = "running" /\ q < at /\ at <= p /\ Run!Handling(at) = {}
                          \/ outcome = "returned" /\ o \in pending
                          \/ outcome = "running" /\ o \in pending /\ SentBefore(o)
  BY DEF SentIfRan, Between
<1>4. ASSUME /\ t \in kept' => o \in pending' \cup delivered' \/ (outcome' = "running" /\ q < at' /\ at' <= p)
             /\ \A i \in DOMAIN saved' : t \in saved'[i].kept => o \in saved'[i].pending \cup delivered'
             /\ outcome' = "running" /\ at' = q /\ q = p + 1 => o \in pending' \cup delivered',
             t \in done' => \/ o \in delivered'
                            \/ /\ Tok(q) = "COMMIT"
                               /\ \/ outcome' \in {"failed", "undone"}
                                  \/ outcome' = "running" /\ q < at' /\ at' <= p /\ Run!Handling(at') = {}
                                  \/ outcome' = "returned" /\ o \in pending'
                                  \/ /\ outcome' = "running" /\ o \in pending'
                                     /\ \A b \in Run!Handling(at') : o \in saved'[written[b][2]].pending
      PROVE  SentIfRan(p, q, t, o)'
  <2>1. Tok(q)' = Tok(q) /\ Run!Handling(at)' = Run!Handling(at')
    BY SameConstructs DEF Steady
  <2>2. \A b : written'[b][2] = written[b][2]
    BY DEF Steady
  <2>3. (\A b \in Run!Handling(at') : o \in saved'[written[b][2]].pending) => SentBefore(o)'
    BY <2>1, <2>2 DEF SentBefore
  <2> QED
    BY <1>4, <2>1, <2>3 DEF SentIfRan, Between, Sent
<1>5. ASSUME at \in 1..N, Tok(at) # "signal", written[at][2] = t PROVE at = q
  BY <1>5 DEF Apart
<1>6. ASSUME at \in 1..N, NEW a, a = at', MoveTo(a)
      PROVE  /\ a = q /\ q = p + 1 => a = at + 1 /\ at = p
             /\ \A b \in Run!Handling(a) : b \in Run!Handling(at) \/ (b = at /\ Tok(at) = "BEGIN")
  <2>1. a \in 1..(N + 1) /\ (a = at + 1 \/ Target(a))
    BY <1>6 DEF MoveTo
  <2>2. a = q /\ q = p + 1 => a = at + 1 /\ at = p
    BY <1>1, <1>6, <2>1, Reached
  <2> QED
    BY <1>6, <2>2 DEF MoveTo
<1>7. ASSUME at \in 1..N, q < at, at <= p
      PROVE  (Tok(at) = "signal" /\ at = p) \/ Tok(at) \in {"COMMENT", "NOTICE", ";"}
  BY <1>1, <1>7, Within
<1>8. CASE Sends
  <2>1. /\ outcome = "running" /\ outcome' = "running" /\ at \in 1..N /\ Tok(at) = "signal" /\ at' = at + 1
        /\ pending' = pending \cup {written[at][2]} /\ kept' = kept /\ saved' = saved /\ done' = done
        /\ delivered' = delivered
    BY <1>8 DEF Sends, Running, Committed
  <2>2. MoveTo(at') /\ Tok(at) # "BEGIN"
    BY <1>1, <2>1, MoveOn
  <2>3. \A b \in Run!Handling(at') : b \in Run!Handling(at)
    BY <1>6, <2>1, <2>2
  <2>4. at = p => o \in pending'
    BY <2>1
  <2>5. at <= p => at = p \/ at' <= p
    BY <1>1, <2>1
  <2>6. q < at => q < at'
    BY <1>1, <2>1
  <2>7. at' = q /\ q = p + 1 => at = p
    BY <1>1, <2>1
  <2>8. \A b \in Run!Handling(at) : o \in saved[written[b][2]].pending
            => o \in saved'[written[b][2]].pending
    BY <2>1
  <2>9. t \in done' => \/ o \in delivered'
                       \/ /\ Tok(q) = "COMMIT"
                          /\ \/ outcome' = "running" /\ q < at' /\ at' <= p /\ Run!Handling(at') = {}
                             \/ /\ outcome' = "running" /\ o \in pending'
                                /\ \A b \in Run!Handling(at') : o \in saved'[written[b][2]].pending
    BY <1>3, <2>1, <2>3, <2>4, <2>5, <2>6 DEF SentBefore
  <2> QED
    BY <1>2, <1>4, <2>1, <2>4, <2>5, <2>6, <2>7, <2>9
<1>9. CASE Ran
  <2>1. /\ outcome = "running" /\ outcome' = "running" /\ at \in 1..N /\ MoveTo(at')
        /\ Tok(at) \in {"word", "DIAGNOSTICS", "RAISE", "IF", "WHILE", "EXIT"}
        /\ (Tok(at) \in Simple => at' = at + 1)
        /\ kept' = kept \cup {written[at][2]} /\ pending' = pending /\ saved' = saved /\ done' = done
        /\ delivered' = delivered
    BY <1>9 DEF Ran, Running, Committed
  <2>2. \A b \in Run!Handling(at') : b \in Run!Handling(at)
    BY <1>6, <2>1
  <2>3. ~(q < at /\ at <= p)
    BY <1>7, <2>1
  <2>4. t \in kept' => t \in kept \/ at = q
    BY <1>5, <2>1
  <2>5. at = q => o \in pending' \cup delivered' \/ (q < at' /\ at' <= p)
    BY <1>1, <1>2, <2>1
  <2>6. at' = q /\ q = p + 1 => FALSE
    BY <1>1, <1>6, <2>1
  <2>7. t \in done' => \/ o \in delivered'
                       \/ /\ Tok(q) = "COMMIT"
                          /\ outcome' = "running" /\ o \in pending'
                          /\ \A b \in Run!Handling(at') : o \in saved'[written[b][2]].pending
    BY <1>3, <2>1, <2>2, <2>3 DEF SentBefore
  <2> QED
    BY <1>2, <1>4, <2>1, <2>3, <2>4, <2>5, <2>6, <2>7
<1>10. CASE Moves
  <2>1. /\ outcome = "running" /\ outcome' = "running" /\ at \in 1..N /\ MoveTo(at')
        /\ Tok(at) # "signal" /\ Tok(at) # "BEGIN"
        /\ Tok(at) \in {"COMMENT", "NOTICE", ";"} => at' = at + 1
        /\ kept' = kept /\ pending' = pending /\ saved' = saved /\ done' = done
        /\ delivered' = delivered
    BY <1>10 DEF Moves, Running, Committed
  <2>2. \A b \in Run!Handling(at') : b \in Run!Handling(at)
    BY <1>6, <2>1
  <2>3. q < at /\ at <= p => q < at' /\ at' <= p
    <3> SUFFICES ASSUME q < at, at <= p PROVE q < at' /\ at' <= p
      OBVIOUS
    <3>1. at' = at + 1 /\ at # p
      BY <1>1, <1>7, <2>1
    <3> QED
      BY <1>1, <2>1, <3>1
  <2>6. at' = q /\ q = p + 1 => FALSE
    BY <1>1, <1>6, <2>1
  <2>7. t \in done' => \/ o \in delivered'
                       \/ /\ Tok(q) = "COMMIT"
                          /\ \/ outcome' = "running" /\ q < at' /\ at' <= p /\ Run!Handling(at') = {}
                             \/ /\ outcome' = "running" /\ o \in pending'
                                /\ \A b \in Run!Handling(at') : o \in saved'[written[b][2]].pending
    BY <1>3, <2>1, <2>2, <2>3 DEF SentBefore
  <2> QED
    BY <1>2, <1>4, <2>1, <2>3, <2>6, <2>7
<1>11. CASE Enters
  <2>1. /\ outcome = "running" /\ outcome' = "running" /\ at \in 1..N /\ at' = at + 1 /\ Tok(at) = "BEGIN"
        /\ kept' = kept /\ pending' = pending /\ done' = done /\ delivered' = delivered
        /\ saved' = [saved EXCEPT ![written[at][2]] = [kept |-> kept, pending |-> pending]]
    BY <1>11 DEF Enters, Running, Committed
  <2>2. MoveTo(at')
    BY <1>1, <2>1, MoveOn
  <2>3. \A b \in Run!Handling(at') : b \in Run!Handling(at) \/ b = at
    BY <1>6, <2>1, <2>2
  <2>4. ~(q < at /\ at <= p) /\ at # p
    BY <1>1, <1>7, <2>1
  <2>5. DOMAIN saved' = DOMAIN saved /\ written[at][2] \in DOMAIN saved
    BY <2>1 DEF Steady
  <2>6. saved'[written[at][2]].kept = kept /\ saved'[written[at][2]].pending = pending
    BY <2>1, <2>5
  <2>7. \A i \in DOMAIN saved : i # written[at][2] => saved'[i] = saved[i]
    BY <2>1
  <2>8. at' = q /\ q = p + 1 => FALSE
    BY <1>1, <2>1, <2>4
  <2>9. \A i \in DOMAIN saved' : t \in saved'[i].kept => o \in saved'[i].pending \cup delivered'
    <3> SUFFICES ASSUME NEW i \in DOMAIN saved', t \in saved'[i].kept
                 PROVE  o \in saved'[i].pending \cup delivered'
      OBVIOUS
    <3>1. CASE i = written[at][2]
      BY <1>2, <2>1, <2>4, <2>6, <3>1
    <3>2. CASE i # written[at][2]
      BY <1>2, <2>1, <2>5, <2>7, <3>2
    <3> QED
      BY <3>1, <3>2
  <2>10. ASSUME o \in pending, SentBefore(o), NEW b \in Run!Handling(at')
         PROVE  o \in saved'[written[b][2]].pending
    <3>1. CASE written[b][2] = written[at][2]
      BY <2>6, <2>10, <3>1
    <3>2. CASE written[b][2] # written[at][2]
      <4>1. b \in Run!Handling(at)
        BY <2>3, <2>10, <3>2
      <4>2. o \in saved[written[b][2]].pending
        BY <2>10, <4>1 DEF SentBefore
      <4>3. b \in 1..N
        <5>1. b \in 1..(at - 1)
          BY <4>1 DEF Run!Handling, Run!Around
        <5> QED
          BY <1>1, <2>1, <5>1
      <4>4. written[b][2] \in DOMAIN saved
        BY <4>3 DEF Steady
      <4> QED
        BY <2>7, <3>2, <4>2, <4>4
    <3> QED
      BY <3>1, <3>2
  <2>11. t \in done' => \/ o \in delivered'
                        \/ /\ Tok(q) = "COMMIT"
                           /\ outcome' = "running" /\ o \in pending'
                           /\ \A b \in Run!Handling(at') : o \in saved'[written[b][2]].pending
    BY <1>3, <2>1, <2>4, <2>10
  <2> QED
    BY <1>2, <1>4, <2>1, <2>4, <2>8, <2>9, <2>11
<1>12. CASE RollsBack
  <2>1. /\ outcome = "running" /\ outcome' = "running" /\ at \in 1..N /\ MoveTo(at') /\ Target(at')
        /\ saved' = saved /\ done' = done /\ delivered' = delivered /\ Tok(at) # "BEGIN"
    BY <1>12 DEF RollsBack, Running, Committed
  <2>2. PICK b \in 1..N : /\ b \in Run!Handling(at)
                          /\ kept' = saved[written[b][2]].kept /\ pending' = saved[written[b][2]].pending
    BY <1>12 DEF RollsBack
  <2>3. written[b][2] \in DOMAIN saved
    BY DEF Steady
  <2>4. \A c \in Run!Handling(at') : c \in Run!Handling(at)
    BY <1>6, <2>1
  <2>5. ~(at' = q /\ q = p + 1)
    <3>1. ASSUME NEW a, a = at', a = q, q = p + 1 PROVE FALSE
      <4>1. a \in 1..(N + 1) /\ Target(a)
        BY <2>1, <3>1 DEF MoveTo
      <4> QED
        BY <1>1, <3>1, <4>1, NotInto
    <3> QED
      BY <3>1
  <2>6. t \in done' => \/ o \in delivered'
                       \/ /\ Tok(q) = "COMMIT"
                          /\ outcome' = "running" /\ o \in pending'
                          /\ \A c \in Run!Handling(at') : o \in saved'[written[c][2]].pending
    BY <1>3, <2>1, <2>2, <2>4 DEF SentBefore
  <2> QED
    BY <1>2, <1>4, <2>1, <2>2, <2>3, <2>5, <2>6
<1>13. CASE Aborts
  <2>1. outcome = "running" /\ outcome' = "failed" /\ kept' = kept /\ pending' = pending /\ saved' = saved
        /\ done' = done /\ delivered' = delivered /\ at \in 1..N /\ Tok(at) \in Statements0
    BY <1>13 DEF Aborts, Committed
  <2>2. ~(q < at /\ at <= p)
    <3>1. Tok(at) \notin {"signal", "COMMENT", "NOTICE", ";"}
      BY <2>1 DEF Statements0, Simple
    <3> QED
      BY <1>7, <2>1, <3>1
  <2> QED
    BY <1>2, <1>3, <1>4, <2>1, <2>2
<1>14. CASE Ends0
  <2>1. outcome = "running" /\ outcome' = "returned" /\ kept' = kept /\ pending' = pending /\ saved' = saved
        /\ done' = done /\ delivered' = delivered /\ (at \in 1..N => Tok(at) = "END") /\ at \in 1..(N + 1)
    BY <1>14 DEF Ends0, Committed
  <2>2. ~(q < at /\ at <= p)
    <3> SUFFICES ASSUME q < at, at <= p PROVE FALSE
      OBVIOUS
    <3>1. at \in 1..N
      BY <1>1, <2>1
    <3> QED
      BY <1>7, <2>1, <3>1
  <2> QED
    BY <1>2, <1>3, <1>4, <2>1, <2>2
<1>15. CASE Returns
  <2>1. outcome = "running" /\ outcome' = "returned" /\ kept' = kept \cup {written[at][2]} /\ pending' = pending
        /\ saved' = saved /\ done' = done /\ delivered' = delivered /\ at \in 1..N /\ Tok(at) = "RETURN"
    BY <1>15 DEF Returns, Committed
  <2>2. ~(q < at /\ at <= p)
    BY <1>7, <2>1
  <2>3. t \in kept' => o \in pending' \cup delivered'
    BY <1>1, <1>2, <1>5, <2>1, <2>2
  <2> QED
    BY <1>2, <1>3, <1>4, <2>1, <2>2, <2>3
<1>16. CASE Commits
  <2>1. /\ outcome = "running" /\ outcome' = "running" /\ at \in 1..N /\ at' = at + 1 /\ Tok(at) = "COMMIT"
        /\ Run!Handling(at) = {}
        /\ done' = (done \cup kept) \cup {written[at][2]} /\ delivered' = delivered \cup pending
        /\ kept' = {} /\ pending' = {} /\ saved' = saved
    BY <1>16 DEF Commits, Running
  <2>2. MoveTo(at')
    BY <1>1, <2>1, MoveOn
  <2>3. Run!Handling(at') = {}
    BY <1>6, <2>1, <2>2
  <2>4. ~(q < at /\ at <= p) /\ at # p
    BY <1>1, <1>7, <2>1
  <2>5. at' = q /\ q = p + 1 => FALSE
    BY <1>1, <2>1, <2>4
  <2>6. at = q => o \in delivered' \/ (q < at' /\ at' <= p)
    BY <1>1, <1>2, <2>1
  <2>7. t \in done \/ t \in kept => o \in delivered'
    BY <1>2, <1>3, <2>1, <2>4
  <2>8. t \in done' => t \in done \/ t \in kept \/ at = q
    BY <1>5, <2>1
  <2> QED
    BY <1>2, <1>4, <2>1, <2>3, <2>5, <2>6, <2>7, <2>8
<1> QED
  BY <1>8, <1>9, <1>10, <1>11, <1>12, <1>13, <1>14, <1>15, <1>16 DEF OneStep

-----------------------------------------------------------------------------
(* The start of a call, and the end of the test's transaction               *)

LEMMA SameMatching ==
    ASSUME UNCHANGED <<kind, body, written, locations>>
    PROVE  /\ Fit' <=> Fit
           /\ Matched' <=> Matched
           /\ \A p, q : Pair(p, q)' <=> Pair(p, q)
           /\ \A x : Tok(x)' = Tok(x)
           /\ N' = N
<1>0. written' = written /\ body' = body
  OBVIOUS
<1>1. /\ N' = N
      /\ \A x : Tok(x)' = Tok(x)
      /\ \A x : D(x)' = D(x)
  BY <1>0, SameConstructs
<1>2. \A p, q : Pair(p, q)' <=> Pair(p, q)
  BY <1>1 DEF Pair, TokensOf
<1>3. \A p, q : Beside(p, q)' <=> Beside(p, q)
  BY <1>1 DEF Beside
<1>4. Matched' <=> Matched
  BY <1>1, <1>2, <1>3 DEF Matched
<1>5. SqlTokens' <=> SqlTokens
  BY <1>1 DEF SqlTokens
<1>6. \A q, p, d : OpenAt(q, p, d)' <=> OpenAt(q, p, d)
  BY <1>1 DEF OpenAt
<1>7. Nested' <=> Nested
  BY <1>1, <1>6 DEF Nested, Run!Opens, Loops
<1> QED
  BY <1>1, <1>2, <1>4, <1>5, <1>7 DEF Fit

LEMMA CallStarts ==
    ASSUME PiecesOK, Written, Run!Call, UNCHANGED vars,
           kept = {}, pending = {}, done = {}, delivered = {}
    PROVE  Fit' /\ Matched' /\ Reported' /\ DOMAIN saved' = DOMAIN body' /\ at' \in 1..(N' + 1)
<1>1. UNCHANGED <<kind, body, written, locations>>
  BY DEF vars, result
<1>2. /\ Run!Accepted /\ at' = 1 /\ outcome' = "running"
      /\ saved' = [i \in DOMAIN body |-> [kept |-> {}, pending |-> {}]]
      /\ kept' = {} /\ pending' = {} /\ done' = {} /\ delivered' = {}
  BY DEF Run!Call
<1>3. N \in Nat
  BY Pieces
<1>4. Fit
  <2>1. CASE kind = "sql"
    <3>1. Run!AcceptedSQL
      BY <1>2, <2>1 DEF Run!Accepted
    <3> QED
      BY <2>1, <3>1, AcceptedSqlTokens DEF Fit
  <2>2. CASE kind # "sql"
    <3>1. Run!AcceptedPlpgsql
      BY <1>2, <2>2 DEF Run!Accepted
    <3> QED
      BY <2>2, <3>1, AcceptedNested DEF Fit
  <2> QED
    BY <2>1, <2>2
<1>5. Matched
  BY <1>2, AllMatched
<1>6. Fit' /\ Matched' /\ N' = N /\ \A p, q : Pair(p, q)' <=> Pair(p, q)
  BY <1>1, <1>4, <1>5, SameMatching
<1>7. ASSUME NEW p \in 1..N, NEW q \in 1..N, NEW t, NEW o
      PROVE  RanIfSent(p, q, t, o)' /\ SentIfRan(p, q, t, o)'
  <2>1. \A i \in DOMAIN saved' : saved'[i].kept = {} /\ saved'[i].pending = {}
    BY <1>2
  <2>2. ~Between(p, q)'
    BY <1>2, <1>3, <1>7 DEF Between
  <2>3. ~(at' = q /\ q = p + 1)
    BY <1>2, <1>3, <1>7
  <2>4. RanIfSent(p, q, t, o)'
    BY <1>2, <2>1, <2>2 DEF RanIfSent
  <2>5. SentIfRan(p, q, t, o)'
    BY <1>2, <2>1, <2>3 DEF SentIfRan
  <2> QED
    BY <2>4, <2>5
<1>8. Reported'
  <2>1. ASSUME NEW p \in 1..N, NEW q \in 1..N
        PROVE  /\ RanIfSent(p, q, written[q][2], written[p][2])'
               /\ SentIfRan(p, q, written[q][2], written[p][2])'
    <3>1. PICK t, o : t = written[q][2] /\ o = written[p][2]
      OBVIOUS
    <3>2. t = written'[q][2] /\ o = written'[p][2]
      BY <1>1, <3>1
    <3>3. RanIfSent(p, q, t, o)' /\ SentIfRan(p, q, t, o)'
      BY <1>7
    <3> QED
      BY <3>2, <3>3 DEF RanIfSent, SentIfRan
  <2> QED
    BY <1>6, <2>1 DEF Reported
<1>9. DOMAIN saved' = DOMAIN body' /\ at' \in 1..(N' + 1)
  BY <1>1, <1>2, <1>3, <1>6
<1> QED
  BY <1>6, <1>8, <1>9

LEMMA TestEnds ==
    ASSUME NEW p, NEW q, NEW t, NEW o, RanIfSent(p, q, t, o), Run!TestCommits \/ Run!TestRollsBack,
           UNCHANGED vars
    PROVE  /\ RanIfSent(p, q, t, o)'
           /\ SentIfRan(p, q, t, o) => SentIfRan(p, q, t, o)'
<1>1. /\ saved' = saved /\ kept' = {} /\ pending' = {} /\ outcome \in {"returned", "failed"}
      /\ \/ /\ outcome = "returned" /\ outcome' = "committed"
            /\ done' = done \cup kept /\ delivered' = delivered \cup pending
         \/ outcome' = "undone" /\ done' = done /\ delivered' = delivered
  BY DEF Run!TestCommits, Run!TestRollsBack
<1>2. ~Between(p, q)' /\ ~Between(p, q)
  BY <1>1 DEF Between
<1>3. RanIfSent(p, q, t, o)'
  BY <1>1, <1>2 DEF RanIfSent, Lasting
<1>4. Tok(q)' = Tok(q)
  <2>1. written' = written /\ body' = body
    BY DEF vars, result
  <2> QED
    BY <2>1, SameConstructs
<1>5. SentIfRan(p, q, t, o) => SentIfRan(p, q, t, o)'
  BY <1>1, <1>2, <1>4 DEF SentIfRan, Sent
<1> QED
  BY <1>3, <1>5

-----------------------------------------------------------------------------
(* What Pick picks                                                          *)

PickOn(f, s, I, k) ==
    f = [m \in 0..k |-> IF m = 0 THEN <<>> ELSE IF m \in I THEN Append(f[m - 1], s[m]) ELSE f[m - 1]]

\* The elements at the places in I up to m, in order.
Picked(S, r, s, I, m) ==
    /\ r \in Seq(S)
    /\ \A i \in DOMAIN r : \E x \in 1..m : x \in I /\ r[i] = s[x]
    /\ \A x \in 1..m : x \in I => \E i \in DOMAIN r : r[i] = s[x]
    /\ \A i, j \in DOMAIN r : i < j =>
           \E x, y \in 1..m : x < y /\ x \in I /\ y \in I /\ r[i] = s[x] /\ r[j] = s[y]

LEMMA PickExists ==
    ASSUME NEW s, NEW I
    PROVE  \A k \in Nat : \E f : PickOn(f, s, I, k)
<1> SUFFICES ASSUME NEW B, B = {k \in Nat : ~\E f : PickOn(f, s, I, k)}, B # {} PROVE FALSE
  OBVIOUS
<1>1. PICK m \in B : \A k \in B : m <= k
  BY LeastNumber
<1>2. m # 0
  <2>1. PickOn([p \in 0..0 |-> <<>>], s, I, 0)
    BY DEF PickOn
  <2> QED
    BY <2>1
<1>3. PICK f : PickOn(f, s, I, m - 1)
  BY <1>1, <1>2
<1>4. m \in Nat /\ m > 0
  BY <1>1, <1>2
<1>5. PICK last : last = IF m \in I THEN Append(f[m - 1], s[m]) ELSE f[m - 1]
  OBVIOUS
<1> DEFINE g == [p \in 0..m |-> IF p = m THEN last ELSE f[p]]
<1>6. \A p \in 0..(m - 1) :
         f[p] = IF p = 0 THEN <<>> ELSE IF p \in I THEN Append(f[p - 1], s[p]) ELSE f[p - 1]
  BY <1>3, <1>4 DEF PickOn
<1>7. \A p \in 0..(m - 1) : g[p] = f[p]
  BY <1>4
<1>8. ASSUME NEW p \in 0..m
      PROVE  g[p] = IF p = 0 THEN <<>> ELSE IF p \in I THEN Append(g[p - 1], s[p]) ELSE g[p - 1]
  <2>1. CASE p = m
    <3>1. g[p] = last /\ g[p - 1] = f[m - 1] /\ p # 0
      BY <1>4, <1>7, <2>1
    <3> QED
      BY <1>5, <2>1, <3>1
  <2>2. CASE p # m
    <3>1. p \in 0..(m - 1) /\ (p # 0 => p - 1 \in 0..(m - 1))
      BY <1>4, <2>2
    <3>2. g[p] = f[p] /\ (p # 0 => g[p - 1] = f[p - 1])
      BY <1>7, <3>1
    <3> QED
      BY <1>6, <3>1, <3>2
  <2> QED
    BY <2>1, <2>2
<1>9. PickOn(g, s, I, m)
  BY <1>8 DEF PickOn
<1> QED
  BY <1>1, <1>9

LEMMA PickedMore ==
    ASSUME NEW S, NEW s \in Seq(S), NEW I, NEW m \in Nat, m + 1 \in 1..Len(s), NEW r, Picked(S, r, s, I, m),
           NEW u, u = IF m + 1 \in I THEN Append(r, s[m + 1]) ELSE r
    PROVE  Picked(S, u, s, I, m + 1)
<1>0. \A x \in 1..(m + 1) : x \in 1..m \/ x = m + 1
  OBVIOUS
<1>3. \A i \in DOMAIN r : \E x \in 1..m : x \in I /\ r[i] = s[x]
  BY DEF Picked
<1>4. \A x \in 1..m : x \in I => \E i \in DOMAIN r : r[i] = s[x]
  BY DEF Picked
<1>5. \A i, j \in DOMAIN r : i < j =>
          \E x, y \in 1..m : x < y /\ x \in I /\ y \in I /\ r[i] = s[x] /\ r[j] = s[y]
  BY DEF Picked
<1>1. CASE m + 1 \notin I
  <2>1. u = r
    BY <1>1
  <2>2. \A x \in 1..(m + 1) : x \in I => x \in 1..m
    BY <1>0, <1>1
  <2>3. \A x \in 1..m : x \in 1..(m + 1)
    OBVIOUS
  <2>4. \A i \in DOMAIN r : \E x \in 1..(m + 1) : x \in I /\ r[i] = s[x]
    BY <1>3, <2>3
  <2>5. \A x \in 1..(m + 1) : x \in I => \E i \in DOMAIN r : r[i] = s[x]
    BY <1>4, <2>2
  <2>6. \A i, j \in DOMAIN r : i < j =>
            \E x, y \in 1..(m + 1) : x < y /\ x \in I /\ y \in I /\ r[i] = s[x] /\ r[j] = s[y]
    BY <1>5, <2>3
  <2>7. r \in Seq(S)
    BY DEF Picked
  <2>8. Picked(S, r, s, I, m + 1)
    BY <2>4, <2>5, <2>6, <2>7 DEF Picked
  <2> QED
    BY <2>1, <2>8
<1>2. CASE m + 1 \in I
  <2>1. r \in Seq(S) /\ s[m + 1] \in S
    BY ElementOfSeq DEF Picked
  <2>2. PICK L \in Nat : L = Len(r) /\ DOMAIN r = 1..L
    BY <2>1, LenProperties
  <2>3. PICK e : e = s[m + 1]
    OBVIOUS
  <2>4. u = Append(r, e) /\ e \in S
    BY <1>2, <2>1, <2>3
  <2>5. u \in Seq(S) /\ Len(u) = L + 1 /\ (\A i \in 1..L : u[i] = r[i]) /\ u[L + 1] = e
    BY <2>1, <2>2, <2>4, AppendProperties
  <2>6. DOMAIN u = 1..(L + 1)
    BY <2>5, LenProperties
  <2>7. \A x \in 1..m : x \in 1..(m + 1) /\ x < m + 1
    OBVIOUS
  <2>8. m + 1 \in 1..(m + 1)
    OBVIOUS
  <2>9. \A i \in DOMAIN u : (i \in DOMAIN r /\ u[i] = r[i]) \/ (i = L + 1 /\ u[i] = s[m + 1])
    BY <2>2, <2>3, <2>5, <2>6
  <2>10. \A i \in DOMAIN u : \E x \in 1..(m + 1) : x \in I /\ u[i] = s[x]
    <3> SUFFICES ASSUME NEW i \in DOMAIN u PROVE \E x \in 1..(m + 1) : x \in I /\ u[i] = s[x]
      OBVIOUS
    <3>1. CASE i \in DOMAIN r /\ u[i] = r[i]
      BY <1>3, <2>7, <3>1
    <3>2. CASE u[i] = s[m + 1]
      BY <1>2, <2>8, <3>2
    <3> QED
      BY <2>9, <3>1, <3>2
  <2>11. \A i \in DOMAIN r : i \in DOMAIN u /\ u[i] = r[i]
    BY <2>2, <2>5, <2>6
  <2>12. L + 1 \in DOMAIN u /\ u[L + 1] = s[m + 1]
    BY <2>2, <2>3, <2>5, <2>6
  <2>13. \A x \in 1..(m + 1) : x \in I => \E i \in DOMAIN u : u[i] = s[x]
    <3> SUFFICES ASSUME NEW x \in 1..(m + 1), x \in I PROVE \E i \in DOMAIN u : u[i] = s[x]
      OBVIOUS
    <3>1. CASE x \in 1..m
      BY <1>4, <2>11, <3>1
    <3>2. CASE x = m + 1
      BY <2>12, <3>2
    <3> QED
      BY <1>0, <3>1, <3>2
  <2>14. ASSUME NEW i \in DOMAIN u, NEW j \in DOMAIN u, i < j
         PROVE  \E x, y \in 1..(m + 1) : x < y /\ x \in I /\ y \in I /\ u[i] = s[x] /\ u[j] = s[y]
    <3>1. i \in DOMAIN r /\ u[i] = r[i]
      <4>1. i \in 1..(L + 1) /\ j \in 1..(L + 1) /\ L \in Nat
        BY <2>2, <2>6
      <4>2. i # L + 1
        BY <2>14, <4>1
      <4> QED
        BY <2>9, <4>2
    <3>2. CASE j \in DOMAIN r /\ u[j] = r[j]
      <4>1. i \in DOMAIN r /\ j \in DOMAIN r /\ i < j
        BY <2>14, <3>1, <3>2
      <4>2. \E x, y \in 1..m : x < y /\ x \in I /\ y \in I /\ r[i] = s[x] /\ r[j] = s[y]
        BY <1>5, <4>1
      <4>3. PICK x \in 1..m : \E y \in 1..m : x < y /\ x \in I /\ y \in I /\ r[i] = s[x] /\ r[j] = s[y]
        BY <4>2
      <4>4. PICK y \in 1..m : x < y /\ x \in I /\ y \in I /\ r[i] = s[x] /\ r[j] = s[y]
        BY <4>3
      <4> QED
        BY <2>7, <3>1, <3>2, <4>4
    <3>3. CASE j = L + 1 /\ u[j] = s[m + 1]
      <4>1. PICK x \in 1..m : x \in I /\ r[i] = s[x]
        BY <3>1 DEF Picked
      <4> QED
        BY <1>2, <2>7, <2>8, <3>1, <3>3, <4>1
    <3> QED
      BY <2>9, <3>2, <3>3
  <2> QED
    BY <2>5, <2>10, <2>13, <2>14 DEF Picked
<1> QED
  BY <1>1, <1>2

LEMMA PickIs ==
    ASSUME NEW S, NEW s \in Seq(S), NEW I
    PROVE  Picked(S, Pick(s, I), s, I, Len(s))
<1>1. PICK L \in Nat : L = Len(s)
  BY LenProperties
<1>2. PICK h : h = CHOOSE g : PickOn(g, s, I, L)
  OBVIOUS
<1>3. PickOn(h, s, I, L)
  BY <1>2, PickExists
<1>4. Pick(s, I) = h[L]
  BY <1>1, <1>2 DEF PickOn, Pick
<1> SUFFICES Picked(S, h[L], s, I, L)
  BY <1>1, <1>4
<1> SUFFICES ASSUME NEW B, B = {m \in Nat : m <= L /\ ~Picked(S, h[m], s, I, m)}, B # {} PROVE FALSE
  <2>1. L <= L
    OBVIOUS
  <2> QED
    BY <2>1
<1>5. PICK m \in B : \A k \in B : m <= k
  BY LeastNumber
<1>6. \A k \in 0..L : h[k] = IF k = 0 THEN <<>> ELSE IF k \in I THEN Append(h[k - 1], s[k]) ELSE h[k - 1]
  BY <1>3 DEF PickOn
<1>7. CASE m = 0
  <2>1. h[0] = <<>>
    BY <1>6
  <2>2. Picked(S, <<>>, s, I, 0)
    BY EmptySeq DEF Picked
  <2> QED
    BY <1>5, <1>7, <2>1, <2>2
<1>8. CASE m # 0
  <2>1. PICK k \in Nat : k = m - 1 /\ k + 1 = m /\ k + 1 \in 1..L /\ k \notin B /\ k <= L
    BY <1>5, <1>8
  <2>2. Picked(S, h[k], s, I, k)
    BY <2>1
  <2>3. PICK u : u = h[m]
    OBVIOUS
  <2>4. u = IF k + 1 \in I THEN Append(h[k], s[k + 1]) ELSE h[k]
    BY <1>6, <1>8, <2>1, <2>3
  <2>5. Picked(S, u, s, I, k + 1)
    BY <1>1, <2>1, <2>2, <2>4, PickedMore
  <2> QED
    BY <1>5, <2>1, <2>3, <2>5
<1> QED
  BY <1>7, <1>8

-----------------------------------------------------------------------------
(* What the parser takes for a body                                         *)

Tokens == [text : STRING, quote : {"", "$$", "'", "E'"}, inner : Seq(STRING \ {"signal"})]
BodyTyped(b) == b \in Seq(STRING) /\ \A i \in DOMAIN b : b[i] # "signal"

LEMMA InnerTyped ==
    ASSUME NEW b \in Seq(STRING \ {"signal"})
    PROVE  BodyTyped(b)
<1>1. PICK L \in Nat : L = Len(b) /\ DOMAIN b = 1..L
  BY LenProperties
<1>2. b \in [1..L -> STRING \ {"signal"}]
  BY <1>1, LenProperties
<1>3. b \in [1..L -> STRING] /\ \A i \in DOMAIN b : b[i] # "signal"
  BY <1>1, <1>2
<1> QED
  BY <1>1, <1>3, IsASeq DEF BodyTyped

LEMMA LeastMember ==
    ASSUME NEW A \in SUBSET Nat, A # {}
    PROVE  Min(A) \in A /\ \A x \in A : Min(A) <= x
<1>1. PICK m \in A : \A k \in A : m <= k
  BY LeastNumber
<1> QED
  BY <1>1 DEF Min

LEMMA SignificantTokens ==
    ASSUME NEW T, NEW tokens \in Seq(T)
    PROVE  /\ Significant(tokens) \in Seq({Positioned(tokens)[i] : i \in DOMAIN tokens})
           /\ \A i \in DOMAIN Significant(tokens) : Significant(tokens)[i].token \in T
<1>1. PICK L \in Nat : L = Len(tokens) /\ DOMAIN tokens = 1..L
  BY LenProperties
<1>2. PICK pt : pt = Positioned(tokens)
  OBVIOUS
<1>3. pt = [i \in 1..L |-> [token |-> tokens[i], pos |-> Len(RawText(SubSeq(tokens, 1, i - 1)))]]
  BY <1>1, <1>2 DEF Positioned
<1>4. PICK U : U = {pt[i] : i \in 1..L}
  OBVIOUS
<1>5. pt \in Seq(U)
  <2>1. pt \in [1..L -> U]
    BY <1>3, <1>4
  <2> QED
    BY <2>1, IsASeq
<1>6. PICK I : I = {i \in DOMAIN tokens : tokens[i] # Comment}
  OBVIOUS
<1>7. PICK sig : sig = Pick(pt, I)
  OBVIOUS
<1>8. Significant(tokens) = sig
  BY <1>2, <1>6, <1>7 DEF Significant
<1>9. sig \in Seq(U)
  BY <1>5, <1>7, PickIs DEF Picked
<1>10. \A u \in U : u.token \in T
  <2>1. \A i \in 1..L : pt[i].token = tokens[i] /\ tokens[i] \in T
    BY <1>1, <1>3, ElementOfSeq
  <2> QED
    BY <1>4, <2>1
<1>11. \A i \in DOMAIN sig : sig[i] \in U
  BY <1>9, LenProperties, ElementOfSeq
<1> QED
  BY <1>1, <1>2, <1>4, <1>8, <1>9, <1>10, <1>11

LEMMA NoBodyTyped == BodyTyped(NoBody.body)
<1>1. <<>> \in Seq(STRING) /\ DOMAIN <<>> = {}
  BY EmptySeq
<1> QED
  BY <1>1 DEF NoBody, BodyTyped

LEMMA BodyOfTyped ==
    ASSUME NEW U, NEW sig \in Seq(U), \A i \in DOMAIN sig : sig[i].token \in Tokens, NEW type
    PROVE  BodyTyped(BodyOf(type, sig).body)
<1>1. PICK L \in Nat : L = Len(sig) /\ DOMAIN sig = 1..L
  BY LenProperties
<1>2. ASSUME NEW i \in DOMAIN sig PROVE BodyTyped(UnquoteString(sig[i]).body)
  <2>1. sig[i].token.inner \in Seq(STRING \ {"signal"})
    BY <1>2 DEF Tokens
  <2>2. UnquoteString(sig[i]).body = sig[i].token.inner
    BY DEF UnquoteString
  <2> QED
    BY <2>1, <2>2, InnerTyped
<1>3. CASE type = "do"
  <2>1. PICK places : places = {i \in 2..Len(sig) : IsConstant(sig[i].token)}
    OBVIOUS
  <2>2. BodyOf(type, sig) = IF places = {} THEN NoBody ELSE UnquoteString(sig[Min(places)])
    BY <1>3, <2>1 DEF BodyOf, ExtractDOBody
  <2>3. places # {} => Min(places) \in DOMAIN sig
    <3>1. places \in SUBSET Nat /\ places \subseteq 1..L
      BY <1>1, <2>1
    <3> QED
      BY <1>1, <3>1, LeastMember
  <2> QED
    BY <1>2, <2>2, <2>3, NoBodyTyped
<1>4. CASE type \in {"function", "procedure"}
  <2>1. PICK places : places = {i \in 1..(Len(sig) - 1) : IsIdent(sig, i, "AS") /\ IsConstant(sig[i + 1].token)}
    OBVIOUS
  <2>2. BodyOf(type, sig) = IF places = {} THEN NoBody ELSE UnquoteString(sig[Min(places) + 1])
    BY <1>4, <2>1 DEF BodyOf, ExtractBody
  <2>3. places # {} => Min(places) + 1 \in DOMAIN sig
    <3>1. places \in SUBSET Nat /\ places \subseteq 1..(L - 1)
      BY <1>1, <2>1
    <3>2. places # {} => Min(places) \in 1..(L - 1)
      BY <3>1, LeastMember
    <3> QED
      BY <1>1, <3>2
  <2> QED
    BY <1>2, <2>2, <2>3, NoBodyTyped
<1>5. CASE type \notin {"do", "function", "procedure"}
  BY <1>5, NoBodyTyped DEF BodyOf
<1> QED
  BY <1>3, <1>4, <1>5

\* The groups of tokens that are a statement, each with its place.
Groups(f) == [g \in DOMAIN f |-> [tokens |-> f[g], start |-> Len(FileText(SubSeq(f, 1, g - 1)))]]
Meant(f) == {g \in DOMAIN f : Significant(f[g]) # <<>>}

LEMMA StatementsAre ==
    ASSUME NEW f \in Files
    PROVE  /\ f \in Seq(Seq(Tokens))
           /\ Pick(Groups(f), Meant(f)) \in Seq({Groups(f)[g] : g \in DOMAIN f})
           /\ Picked({Groups(f)[g] : g \in DOMAIN f}, Pick(Groups(f), Meant(f)), Groups(f), Meant(f), Len(f))
           /\ SplitAndClassify(f) = [k \in DOMAIN Pick(Groups(f), Meant(f)) |->
                  Statement(Pick(Groups(f), Meant(f))[k].tokens, Pick(Groups(f), Meant(f))[k].start)]
<1>1. f \in Seq(Seq(Tokens))
  BY FilesAssumption DEF Tokens
<1>2. PICK L \in Nat : L = Len(f) /\ DOMAIN f = 1..L
  BY <1>1, LenProperties
<1>3. PICK all : all = Groups(f)
  OBVIOUS
<1>4. PICK U : U = {all[g] : g \in DOMAIN f}
  OBVIOUS
<1>5. all \in Seq(U) /\ Len(all) = L
  <2>1. all \in [1..L -> U] /\ DOMAIN all = 1..L
    BY <1>2, <1>3, <1>4 DEF Groups
  <2>2. all \in Seq(U)
    BY <1>2, <2>1, IsASeq
  <2>3. DOMAIN all = 1..Len(all) /\ Len(all) \in Nat
    BY <2>2, LenProperties
  <2> QED
    BY <1>2, <2>1, <2>2, <2>3
<1>6. Picked(U, Pick(all, Meant(f)), all, Meant(f), L)
  BY <1>5, PickIs
<1>7. SplitAndClassify(f) = [k \in DOMAIN Pick(all, Meant(f)) |->
                  Statement(Pick(all, Meant(f))[k].tokens, Pick(all, Meant(f))[k].start)]
  BY <1>3 DEF SplitAndClassify, Groups, Meant
<1>8. Pick(all, Meant(f)) \in Seq(U)
  BY <1>6 DEF Picked
<1> QED
  BY <1>1, <1>2, <1>3, <1>4, <1>6, <1>7, <1>8

LEMMA StatementsTyped ==
    ASSUME NEW f \in Files
    PROVE  /\ Len(SplitAndClassify(f)) \in Nat
           /\ DOMAIN SplitAndClassify(f) = 1..Len(SplitAndClassify(f))
           /\ Len(SplitAndClassify(f)) = 0 <=> SplitAndClassify(f) = <<>>
           /\ \A k \in DOMAIN SplitAndClassify(f) : BodyTyped(SplitAndClassify(f)[k].body)
<1>1. PICK groups : groups = Pick(Groups(f), Meant(f))
  OBVIOUS
<1>2. PICK U : U = {Groups(f)[g] : g \in DOMAIN f}
  OBVIOUS
<1>3. f \in Seq(Seq(Tokens)) /\ groups \in Seq(U)
  BY <1>1, <1>2, StatementsAre
<1>4. PICK L \in Nat : L = Len(groups) /\ DOMAIN groups = 1..L
  BY <1>3, LenProperties
<1>5. PICK ss : ss = SplitAndClassify(f)
  OBVIOUS
<1>6. ss = [k \in 1..L |-> Statement(groups[k].tokens, groups[k].start)]
  BY <1>1, <1>4, <1>5, StatementsAre
<1>7. ss \in Seq({ss[k] : k \in 1..L})
  <2>1. ss \in [1..L -> {ss[k] : k \in 1..L}]
    BY <1>6
  <2> QED
    BY <1>4, <2>1, IsASeq
<1>8. Len(ss) = L
  <2>1. DOMAIN ss = 1..L /\ DOMAIN ss = 1..Len(ss) /\ Len(ss) \in Nat
    BY <1>6, <1>7, LenProperties
  <2> QED
    BY <1>4, <2>1
<1>9. Len(ss) = 0 <=> ss = <<>>
  BY <1>7, EmptySeq
<1>10. ASSUME NEW k \in 1..L PROVE BodyTyped(ss[k].body)
  <2>1. PICK tokens : tokens = groups[k].tokens
    OBVIOUS
  <2>2. tokens \in Seq(Tokens)
    <3>1. groups[k] \in U
      BY <1>3, <1>4, ElementOfSeq
    <3>2. PICK g \in DOMAIN f : groups[k] = Groups(f)[g]
      BY <1>2, <3>1
    <3>3. groups[k].tokens = f[g]
      BY <3>2 DEF Groups
    <3> QED
      BY <1>3, <2>1, <3>3, LenProperties, ElementOfSeq
  <2>3. PICK sig : sig = Significant(tokens)
    OBVIOUS
  <2>4. PICK V : sig \in Seq(V)
    BY <2>2, <2>3, SignificantTokens
  <2>5. \A i \in DOMAIN sig : sig[i].token \in Tokens
    BY <2>2, <2>3, SignificantTokens
  <2>6. ss[k].body = BodyOf(ClassifyTokens(sig), sig).body
    <3>1. ss[k] = Statement(tokens, groups[k].start)
      BY <1>6, <1>10, <2>1
    <3>2. Statement(tokens, groups[k].start).body = BodyOf(ClassifyTokens(sig), sig).body
      BY <2>3 DEF Statement
    <3> QED
      BY <3>1, <3>2
  <2> QED
    BY <2>4, <2>5, <2>6, BodyOfTyped
<1> QED
  BY <1>4, <1>5, <1>6, <1>8, <1>9, <1>10

-----------------------------------------------------------------------------
(* The inductive invariant of the specification                             *)

\* The statement at hand is in good order, if it is one that is instrumented.
StatementOK == Instrumented => IInv /\ WInv /\ \A i \in DOMAIN body : body[i] # "signal"

FileOK ==
    /\ file \in Files /\ statements = SplitAndClassify(file)
    /\ n \in 1..(Len(statements) + 1)
    /\ ~Loaded => kind = KindOf(statements[n]) /\ body = ToInstrument(statements[n])
    /\ Loaded /\ statements # <<>> => pc = "done"

\* A call is made once the file is loaded, and reports what it runs.
CallOK ==
    /\ outcome = "idle" => kept = {} /\ pending = {} /\ done = {} /\ delivered = {}
    /\ outcome # "idle" => /\ Loaded /\ Instrumented /\ pc = "done"
                           /\ Fit /\ Matched /\ Reported /\ DOMAIN saved = DOMAIN body
    /\ outcome = "running" => at \in 1..(N + 1)

SInv == FileOK /\ StatementOK /\ CallOK

LEMMA GoodOrder ==
    ASSUME StatementOK, Instrumented
    PROVE  PiecesOK /\ Written
<1>1. BodyOK /\ TextsOK /\ PointsOK /\ SignalsOK /\ \A i \in DOMAIN body : body[i] # "signal"
  BY DEF StatementOK, IInv, WInv
<1>2. PiecesOK
  BY <1>1 DEF PiecesOK, BodyOK, TextsOK
<1>3. Written
  BY <1>1 DEF Written, BodyOK
<1> QED
  BY <1>2, <1>3

LEMMA Begun == (\E k, b : Begin(k, b) /\ (k \in {"plpgsql", "sql"} => BodyTyped(b))) => StatementOK
<1> SUFFICES ASSUME NEW k, NEW b, Begin(k, b), k \in {"plpgsql", "sql"} => BodyTyped(b), Instrumented
             PROVE  StatementOK
  BY DEF StatementOK
<1>1. kind = k /\ body = b
  BY DEF Begin
<1>2. k \in {"plpgsql", "sql"} /\ b \in Seq(STRING) /\ \A i \in DOMAIN b : b[i] # "signal"
  BY <1>1 DEF Instrumented, BodyTyped
<1>3. IInv
  BY <1>2, IInvInit
<1>4. WInv
  BY <1>2, WrittenInit
<1> QED
  BY <1>1, <1>2, <1>3, <1>4 DEF StatementOK

LEMMA BegunNext ==
    (\E k, b : BeginNext(k, b) /\ (k \in {"plpgsql", "sql"} => BodyTyped(b))) => StatementOK'
<1>1. (\E k, b : Begin(k, b) /\ (k \in {"plpgsql", "sql"} => BodyTyped(b)))' => StatementOK'
  BY Begun, PTL
<1>2. \A k, b : BeginNext(k, b) => Begin(k, b)'
  BY DEF BeginNext, Begin
<1> QED
  BY <1>1, <1>2

\* Whatever is instrumented is a body.
LEMMA BodiesTyped ==
    ASSUME FileOK, NEW k \in DOMAIN statements, KindOf(statements[k]) \in {"plpgsql", "sql"}
    PROVE  BodyTyped(ToInstrument(statements[k]))
<1>1. BodyTyped(statements[k].body)
  BY StatementsTyped DEF FileOK
<1>2. ToInstrument(statements[k]) = statements[k].body
  BY DEF ToInstrument
<1> QED
  BY <1>1, <1>2

LEMMA SInvInit == Init => SInv
<1> SUFFICES ASSUME Init PROVE SInv
  OBVIOUS
<1>1. /\ file \in Files /\ statements = SplitAndClassify(file) /\ n = 1
      /\ kept = {} /\ pending = {} /\ done = {} /\ delivered = {} /\ outcome = "idle"
      /\ IF statements = <<>> THEN Begin("other", <<>>)
         ELSE Begin(KindOf(statements[1]), ToInstrument(statements[1]))
  BY DEF Init
<1>2. /\ Len(statements) \in Nat /\ DOMAIN statements = 1..Len(statements)
      /\ Len(statements) = 0 <=> statements = <<>>
  BY <1>1, StatementsTyped
<1>3. statements # <<>> => 1 \in DOMAIN statements
  BY <1>2
<1>4. Loaded <=> 1 > Len(statements)
  BY <1>1 DEF Loaded
<1>5. FileOK
  <2>1. ~Loaded => statements # <<>>
    BY <1>2, <1>4
  <2>2. Loaded => statements = <<>>
    BY <1>2, <1>3, <1>4
  <2> QED
    BY <1>1, <1>2, <2>1, <2>2 DEF FileOK, Begin
<1>6. StatementOK
  <2>1. CASE statements = <<>>
    <3>1. Begin("other", <<>>)
      BY <1>1, <2>1
    <3> QED
      BY <3>1, Begun
  <2>2. CASE statements # <<>>
    <3>1. Begin(KindOf(statements[1]), ToInstrument(statements[1]))
      BY <1>1, <2>2
    <3>2. KindOf(statements[1]) \in {"plpgsql", "sql"} => BodyTyped(ToInstrument(statements[1]))
      BY <1>3, <1>5, <2>2, BodiesTyped
    <3> QED
      BY <3>1, <3>2, Begun
  <2> QED
    BY <2>1, <2>2
<1>7. CallOK
  BY <1>1 DEF CallOK
<1> QED
  BY <1>5, <1>6, <1>7 DEF SInv

LEMMA OneStatement == IInv /\ WInv /\ InstrumentStep => IInv' /\ WInv'
<1>1. IInv /\ InstrumentStep => IInv'
  BY SkipToBeginNext, SkipCommentNext, TakeTokenNext, EndSegmentNext, EndOfBodyNext, FlushNext
     DEF InstrumentStep
<1> QED
  BY <1>1, WrittenNext

LEMMA InstrumentNext == SInv /\ InstrumentStatement => SInv'
<1> SUFFICES ASSUME SInv, InstrumentStatement PROVE SInv'
  OBVIOUS
<1>1. /\ ~Loaded /\ InstrumentStep
      /\ UNCHANGED <<file, statements, n>> /\ UNCHANGED callVars
  BY DEF InstrumentStatement, fileVars
<1>2. kind' = kind /\ body' = body
  BY <1>1 DEF InstrumentStep, SkipToBegin, SkipComment, EndSegment, TakeToken, EndOfBody, Flush,
              MarkStatement, Scan
<1>3. FileOK'
  BY <1>1, <1>2 DEF SInv, FileOK, Loaded
<1>4. StatementOK'
  <2> SUFFICES ASSUME Instrumented' PROVE IInv' /\ WInv' /\ \A i \in DOMAIN body' : body'[i] # "signal"
    BY DEF StatementOK
  <2>1. Instrumented
    BY <1>2 DEF Instrumented
  <2>2. IInv /\ WInv /\ \A i \in DOMAIN body : body[i] # "signal"
    BY <2>1 DEF SInv, StatementOK
  <2> QED
    BY <1>1, <1>2, <2>2, OneStatement
<1>5. CallOK'
  <2>1. outcome = "idle"
    BY <1>1 DEF SInv, CallOK
  <2> QED
    BY <1>1, <2>1 DEF SInv, CallOK, callVars
<1> QED
  BY <1>3, <1>4, <1>5 DEF SInv

LEMMA FinishNext == SInv /\ FinishStatement => SInv'
<1> SUFFICES ASSUME SInv, FinishStatement PROVE SInv'
  OBVIOUS
<1>1. /\ ~Loaded /\ pc = "done" /\ n' = n + 1
      /\ IF n < Len(statements)
         THEN BeginNext(KindOf(statements[n + 1]), ToInstrument(statements[n + 1]))
         ELSE UNCHANGED vars
      /\ UNCHANGED <<file, statements>> /\ UNCHANGED callVars
  BY DEF FinishStatement
<1>2. Len(statements) \in Nat /\ DOMAIN statements = 1..Len(statements)
  BY StatementsTyped DEF SInv, FileOK
<1>3. n \in Nat /\ n <= Len(statements)
  BY <1>1, <1>2 DEF SInv, FileOK, Loaded
<1>4. CallOK'
  <2>1. outcome = "idle"
    BY <1>1 DEF SInv, CallOK
  <2> QED
    BY <1>1, <2>1 DEF SInv, CallOK, callVars
<1>5. CASE n < Len(statements)
  <2>1. BeginNext(KindOf(statements[n + 1]), ToInstrument(statements[n + 1]))
    BY <1>1, <1>5
  <2>2. n + 1 \in DOMAIN statements
    BY <1>2, <1>3, <1>5
  <2>3. KindOf(statements[n + 1]) \in {"plpgsql", "sql"} => BodyTyped(ToInstrument(statements[n + 1]))
    BY <2>2, BodiesTyped DEF SInv
  <2>4. StatementOK'
    BY <2>1, <2>3, BegunNext
  <2>5. ~Loaded'
    BY <1>1, <1>2, <1>3, <1>5 DEF Loaded
  <2>6. kind' = KindOf(statements'[n']) /\ body' = ToInstrument(statements'[n'])
    BY <1>1, <2>1 DEF BeginNext
  <2>7. n' \in 1..(Len(statements') + 1)
    BY <1>1, <1>2, <1>3
  <2>8. FileOK'
    BY <1>1, <2>5, <2>6, <2>7 DEF SInv, FileOK
  <2> QED
    BY <1>4, <2>4, <2>8 DEF SInv
<1>6. CASE ~(n < Len(statements))
  <2>1. UNCHANGED <<kind, body, pc, read, pastBegin, segStart, lastWritten, written, locations>>
    BY <1>1, <1>6 DEF vars, segment, result
  <2>2. n' = Len(statements) + 1 /\ Loaded'
    BY <1>1, <1>2, <1>3, <1>6 DEF Loaded
  <2>3. FileOK'
    BY <1>1, <1>2, <2>1, <2>2 DEF SInv, FileOK
  <2>4. StatementOK'
    <3> SUFFICES ASSUME Instrumented' PROVE IInv' /\ WInv' /\ \A i \in DOMAIN body' : body'[i] # "signal"
      BY DEF StatementOK
    <3>1. IInv /\ WInv /\ \A i \in DOMAIN body : body[i] # "signal"
      BY <2>1 DEF SInv, StatementOK, Instrumented
    <3>2. UNCHANGED vars
      BY <1>1, <1>6
    <3> QED
      BY <2>1, <3>1, <3>2, FlushNext, WrittenNext
  <2> QED
    BY <1>4, <2>3, <2>4 DEF SInv
<1> QED
  BY <1>5, <1>6

LEMMA StandingStill == SInv /\ UNCHANGED <<fileVars, vars>> /\ CallOK' => SInv'
<1> SUFFICES ASSUME SInv, UNCHANGED <<fileVars, vars>>, CallOK' PROVE SInv'
  OBVIOUS
<1>1. /\ UNCHANGED <<kind, body, pc, read, pastBegin, segStart, lastWritten, written, locations>>
      /\ UNCHANGED <<file, statements, n, text, points>>
  BY DEF vars, segment, result, fileVars
<1>2. FileOK'
  BY <1>1 DEF SInv, FileOK, Loaded
<1>3. StatementOK'
  <2> SUFFICES ASSUME Instrumented' PROVE IInv' /\ WInv' /\ \A i \in DOMAIN body' : body'[i] # "signal"
    BY DEF StatementOK
  <2>1. IInv /\ WInv /\ \A i \in DOMAIN body : body[i] # "signal"
    BY <1>1 DEF SInv, StatementOK, Instrumented
  <2>2. UNCHANGED vars
    OBVIOUS
  <2> QED
    BY <1>1, <2>1, <2>2, FlushNext, WrittenNext
<1> QED
  BY <1>2, <1>3 DEF SInv

\* A step of a call keeps every point and its statements in agreement.
LEMMA StepReports ==
    ASSUME StatementOK, Instrumented, Fit, Matched, Reported, DOMAIN saved = DOMAIN body,
           UNCHANGED vars, OneStep \/ Run!TestCommits \/ Run!TestRollsBack
    PROVE  Reported'
<1>1. PiecesOK /\ Written
  BY GoodOrder
<1>2. TextsOK /\ SignalsOK
  BY <1>1 DEF Written
<1>3. UNCHANGED <<kind, body, written, locations>>
  BY DEF vars, result
<1>4. Steady
  BY <1>1, <1>3, Pieces DEF Steady
<1>5. /\ N' = N
      /\ \A p, q : Pair(p, q)' <=> Pair(p, q)
      /\ \A x : Tok(x)' = Tok(x)
  BY <1>3, SameMatching
<1>6. ASSUME NEW p \in 1..N, NEW q \in 1..N, Pair(p, q), NEW t, NEW o, t = written[q][2], o = written[p][2]
      PROVE  RanIfSent(p, q, t, o)' /\ (Tok(q) \in Simple => SentIfRan(p, q, t, o)')
  <2>1. RanIfSent(p, q, t, o) /\ (Tok(q) \in Simple => SentIfRan(p, q, t, o))
    BY <1>6 DEF Reported
  <2>2. Apart(p, q)
    BY <1>1, <1>2, <1>6, PairsApart
  <2>3. CASE OneStep
    <3>1. RanIfSent(p, q, t, o)'
      BY <1>4, <1>6, <2>1, <2>2, <2>3, RanIfSentStep
    <3>2. Tok(q) \in Simple => SentIfRan(p, q, t, o)'
      BY <1>4, <1>6, <2>1, <2>2, <2>3, SentIfRanStep
    <3> QED
      BY <3>1, <3>2
  <2>4. CASE Run!TestCommits \/ Run!TestRollsBack
    BY <2>1, <2>4, TestEnds
  <2> QED
    BY <2>3, <2>4
<1>7. ASSUME NEW p \in 1..N, NEW q \in 1..N, Pair(p, q)
      PROVE  /\ RanIfSent(p, q, written[q][2], written[p][2])'
             /\ Tok(q) \in Simple => SentIfRan(p, q, written[q][2], written[p][2])'
  <2>1. PICK t, o : t = written[q][2] /\ o = written[p][2]
    OBVIOUS
  <2>2. t = written'[q][2] /\ o = written'[p][2]
    BY <1>3, <2>1
  <2>3. RanIfSent(p, q, t, o)' /\ (Tok(q) \in Simple => SentIfRan(p, q, t, o)')
    BY <1>6, <1>7, <2>1
  <2> QED
    BY <2>2, <2>3 DEF RanIfSent, SentIfRan
<1> QED
  BY <1>5, <1>7 DEF Reported

LEMMA StepMoves ==
    ASSUME N \in Nat, OneStep
    PROVE  /\ outcome = "running" /\ outcome' \in {"running", "returned", "failed"}
           /\ outcome' = "running" => at' \in 1..(N + 1)
<1>1. outcome = "running" /\ outcome' \in {"running", "returned", "failed"}
  BY DEF OneStep, Sends, Ran, Moves, Enters, RollsBack, Aborts, Ends0, Returns, Commits, Running
<1>2. outcome' = "running" => MoveTo(at') \/ (at \in 1..N /\ at' = at + 1)
  BY DEF OneStep, Sends, Ran, Moves, Enters, RollsBack, Aborts, Ends0, Returns, Commits, Running
<1>3. MoveTo(at') => at' \in 1..(N + 1)
  BY DEF MoveTo
<1> QED
  BY <1>1, <1>2, <1>3

LEMMA StepSaves ==
    ASSUME OneStep
    PROVE  DOMAIN saved' = DOMAIN saved
BY DEF OneStep, Sends, Ran, Moves, Enters, RollsBack, Aborts, Ends0, Returns, Commits

LEMMA CallNext == SInv /\ CallLast => SInv'
<1> SUFFICES ASSUME SInv, CallLast PROVE SInv'
  OBVIOUS
<1>1. Loaded /\ statements # <<>> /\ Instrumented /\ Run!CallStep /\ UNCHANGED fileVars /\ UNCHANGED vars
  BY DEF CallLast
<1>2. StatementOK /\ FileOK /\ CallOK /\ pc = "done"
  BY <1>1 DEF SInv, FileOK
<1>3. PiecesOK /\ Written /\ N \in Nat
  BY <1>1, <1>2, GoodOrder, Pieces
<1>4. /\ UNCHANGED <<kind, body, written, locations, pc>> /\ Loaded' /\ Instrumented'
      /\ N' = N
  <2>1. UNCHANGED <<kind, body, written, locations, pc>>
    BY <1>1 DEF vars, result
  <2> QED
    BY <1>1, <2>1, SameMatching DEF Loaded, fileVars, Instrumented
<1>5. CASE Run!Call
  <2>1. outcome = "idle" /\ outcome' = "running"
    BY <1>5 DEF Run!Call
  <2>2. kept = {} /\ pending = {} /\ done = {} /\ delivered = {}
    BY <1>2, <2>1 DEF CallOK
  <2>3. Fit' /\ Matched' /\ Reported' /\ DOMAIN saved' = DOMAIN body' /\ at' \in 1..(N' + 1)
    BY <1>1, <1>3, <1>5, <2>2, CallStarts
  <2>4. CallOK'
    BY <1>2, <1>4, <2>1, <2>3 DEF CallOK
  <2> QED
    BY <1>1, <2>4, StandingStill
<1>6. CASE ~Run!Call
  <2>1. outcome # "idle"
    <3>1. CASE Run!TestCommits \/ Run!TestRollsBack
      BY <3>1 DEF Run!TestCommits, Run!TestRollsBack
    <3>2. CASE ~(Run!TestCommits \/ Run!TestRollsBack)
      BY <1>1, <1>6, <3>2
         DEF Run!CallStep, Run!SendSignal, Run!Pass, Run!EnterBlock, Run!RunStatement, Run!RunDiagnostics,
             Run!RaiseNotice, Run!RaiseException, Run!StatementFails, Run!Branch, Run!SkipOtherPart,
             Run!ExitLoop, Run!ReachEnd, Run!ReachEndOfSQL, Run!Return, Run!CommitInside, Run!At
    <3> QED
      BY <3>1, <3>2
  <2>2. /\ Fit /\ Matched /\ Reported /\ DOMAIN saved = DOMAIN body
        /\ outcome = "running" => at \in 1..(N + 1)
    BY <1>2, <2>1 DEF CallOK
  <2>3. OneStep \/ Run!TestCommits \/ Run!TestRollsBack
    BY <1>1, <1>3, <1>6, <2>2, RunSteps, JumpSteps DEF Run!CallStep
  <2>4. Reported'
    BY <1>1, <1>2, <2>2, <2>3, StepReports
  <2>5. Fit' /\ Matched'
    BY <1>4, <2>2, SameMatching
  <2>6. CASE OneStep
    <3>1. DOMAIN saved' = DOMAIN body'
      BY <1>4, <2>2, <2>6, StepSaves
    <3>2. outcome' \in {"running", "returned", "failed"} /\ (outcome' = "running" => at' \in 1..(N + 1))
      BY <1>3, <2>6, StepMoves
    <3>3. CallOK'
      BY <1>2, <1>4, <2>4, <2>5, <3>1, <3>2 DEF CallOK
    <3> QED
      BY <1>1, <3>3, StandingStill
  <2>7. CASE Run!TestCommits \/ Run!TestRollsBack
    <3>1. saved' = saved /\ outcome' \in {"committed", "undone"}
      BY <2>7 DEF Run!TestCommits, Run!TestRollsBack
    <3>2. CallOK'
      BY <1>2, <1>4, <2>2, <2>4, <2>5, <3>1 DEF CallOK
    <3> QED
      BY <1>1, <3>2, StandingStill
  <2> QED
    BY <2>3, <2>6, <2>7
<1> QED
  BY <1>5, <1>6

LEMMA SInvNext == SInv /\ [Next]_<<fileVars, vars, callVars>> => SInv'
<1> SUFFICES ASSUME SInv, [Next]_<<fileVars, vars, callVars>> PROVE SInv'
  OBVIOUS
<1>1. CASE InstrumentStatement
  BY <1>1, InstrumentNext
<1>2. CASE FinishStatement
  BY <1>2, FinishNext
<1>3. CASE CallLast
  BY <1>3, CallNext
<1>4. CASE Finished \/ UNCHANGED <<fileVars, vars, callVars>>
  <2>1. UNCHANGED <<fileVars, vars>> /\ UNCHANGED callVars
    BY <1>4 DEF Finished
  <2>2. UNCHANGED <<kind, body, pc, written, locations, n, statements>>
    BY <2>1 DEF vars, result, fileVars
  <2>3. /\ UNCHANGED <<at, found, kept, pending, saved, done, delivered, ran, outcome>>
    BY <2>1 DEF callVars
  <2>4. Reported' <=> Reported
    <3>1. written' = written /\ body' = body
      BY <2>2
    <3>2. Run!Handling(at)' = Run!Handling(at)
      BY <2>3, <3>1, SameConstructs
    <3>3. /\ \A p, q : Pair(p, q)' <=> Pair(p, q)
          /\ \A x : Tok(x)' = Tok(x)
          /\ N' = N
      BY <2>2, SameMatching
    <3>4. \A p, q, t, o : RanIfSent(p, q, t, o)' <=> RanIfSent(p, q, t, o)
      BY <2>3 DEF RanIfSent, Between, Lasting
    <3>5. \A o : SentBefore(o)' <=> SentBefore(o)
      BY <2>2, <2>3, <3>2 DEF SentBefore
    <3>6. \A p, q, t, o : SentIfRan(p, q, t, o)' <=> SentIfRan(p, q, t, o)
      BY <2>3, <3>2, <3>3, <3>5 DEF SentIfRan, Between, Sent
    <3> QED
      BY <2>2, <3>3, <3>4, <3>6 DEF Reported
  <2>5. CallOK'
    BY <2>2, <2>3, <2>4, SameMatching DEF SInv, CallOK, Loaded, Instrumented
  <2> QED
    BY <2>1, <2>5, StandingStill
<1> QED
  BY <1>1, <1>2, <1>3, <1>4 DEF Next

LEMMA SpecInvariance == Spec => []SInv
BY SInvInit, SInvNext, PTL DEF Spec

-----------------------------------------------------------------------------
(* Theorems about calls                                                     *)

\* When a statement is instrumented, its points are the segments of its body.
LEMMA PointsFound ==
    ASSUME IInv, pc = "done"
    PROVE  {locations[i] : i \in DOMAIN locations} = Segments
<1>1. {locations[i] : i \in DOMAIN locations} = SegmentsUpTo(Len(body) + 1)
  BY DEF IInv, LocationsOK
<1>2. \A m \in Ends : m <= Len(body) + 1
  BY Bounds DEF IInv
<1>3. SegmentsUpTo(Len(body) + 1) = Segments
  BY <1>2 DEF SegmentsUpTo, Segments, Segment, Opens, PointAt, First, Begins, Ends
<1> QED
  BY <1>1, <1>3

\* Every statement of a point, and the point's signal, are pieces of what runs.
LEMMA PointsPaired ==
    ASSUME SInv, Instrumented, pc = "done", NEW i \in DOMAIN locations, NEW t \in TokensOf(locations[i]),
           body[t] \in Statements0
    PROVE  \E p, q \in 1..N : /\ Pair(p, q) /\ written[q][2] = t /\ written[p][2] = locations[i].start
                              /\ Tok(q) = body[t]
<1>1. IInv /\ WInv /\ PiecesOK /\ Written
  BY GoodOrder DEF SInv, StatementOK
<1>2. DOMAIN written = 1..N /\ N \in Nat /\ Len(body) \in Nat
  BY <1>1, Pieces
<1>3. PICK o : o = locations[i].start
  OBVIOUS
<1>4. PICK p \in 1..N : written[p] = <<"signal", o>>
  BY <1>1, <1>2, <1>3 DEF WInv, SignalsOK
<1>5. lastWritten = Len(body)
  BY <1>1 DEF WInv, Behind
<1>6. locations[i].start \in Nat /\ locations[i].length \in Int /\ locations[i].start >= 1
      /\ EndOfPoint(locations[i]) <= Len(body) + 1
  <2>1. locations[i] \in [start : Nat, length : Int, implicit : BOOLEAN]
    BY <1>1, LenProperties, ElementOfSeq DEF Written
  <2>2. locations[i].start \in Nat /\ locations[i].length \in Int
    BY <2>1
  <2> QED
    BY <1>1, <1>5, <2>2 DEF WInv, PointsOK
<1>7. t \in 1..Len(body)
  <2>1. t \in Int /\ locations[i].start <= t /\ t < EndOfPoint(locations[i]) /\ EndOfPoint(locations[i]) \in Int
    BY <1>6, TokensIn
  <2> QED
    BY <1>2, <1>6, <2>1
<1>8. PICK q \in 1..N : written[q] = <<"text", t>>
  BY <1>1, <1>2, <1>5, <1>7 DEF WInv, TextsOK
<1>9. written[q][1] = "text" /\ written[q][2] = t /\ written[p][2] = o /\ written[p][1] = "signal"
  BY <1>4, <1>8
<1>10. Tok(q) = body[t]
  BY <1>1, <1>9, Pieces
<1>11. Pair(p, q)
  BY <1>3, <1>4, <1>9, <1>10 DEF Pair
<1> QED
  BY <1>3, <1>9, <1>10, <1>11

\* A point is reported only if its statements ran in a transaction that committed, however
\* often control came back to them, and whatever was rolled back in between.
THEOREM NothingReportedInVain == Spec => []NoFalsePositives
<1>1. SInv => NoFalsePositives
  <2> SUFFICES ASSUME SInv, NEW i \in DOMAIN locations, locations[i].start \in delivered,
                      NEW t \in TokensOf(locations[i]), body[t] \in Simple \cup {"EXIT"}
               PROVE  t \in done
    BY DEF NoFalsePositives
  <2>1. outcome # "idle"
    BY DEF SInv, CallOK
  <2>2. Instrumented /\ pc = "done" /\ Reported
    BY <2>1 DEF SInv, CallOK
  <2>3. PICK p, q : /\ p \in 1..N /\ q \in 1..N /\ Pair(p, q)
                    /\ written[q][2] = t /\ written[p][2] = locations[i].start
    BY <2>2, PointsPaired DEF Statements0
  <2>4. RanIfSent(p, q, t, locations[i].start)
    BY <2>2, <2>3 DEF Reported
  <2> QED
    BY <2>4 DEF RanIfSent
<1> QED
  BY SpecInvariance, <1>1, PTL

\* And each point is reported of which a statement, other than an EXIT, ran in the transaction
\* that committed at the end, and was not rolled back before. (The signal of an EXIT that
\* leaves its loop is jumped over.)
THEOREM OnlyExitsAreMissed == Spec => []KeptIsCoveredUnlessExit
<1>1. SInv => KeptIsCoveredUnlessExit
  <2> SUFFICES ASSUME SInv, outcome = "committed", NEW i \in DOMAIN locations,
                      NEW t \in TokensOf(locations[i]), t \in done, body[t] \in Simple
               PROVE  locations[i].start \in delivered
    BY DEF KeptIsCoveredUnlessExit
  <2>1. Instrumented /\ pc = "done" /\ Reported
    BY DEF SInv, CallOK
  <2>2. PICK p, q : /\ p \in 1..N /\ q \in 1..N /\ Pair(p, q)
                    /\ written[q][2] = t /\ written[p][2] = locations[i].start /\ Tok(q) = body[t]
    BY <2>1, PointsPaired DEF Statements0
  <2>3. SentIfRan(p, q, t, locations[i].start)
    BY <2>1, <2>2 DEF Reported
  <2> QED
    BY <2>3 DEF SentIfRan, Between
<1> QED
  BY SpecInvariance, <1>1, PTL

-----------------------------------------------------------------------------
(* The original, beside what is instrumented: its tokens are the pieces     *)
(* that are text                                                            *)

M == Len(body)
OTok(x) == Original!TokenAt(x)
TextAt(p) == p \in 1..N /\ written[p][1] = "text"

\* All of the body has been written.
Whole ==
    /\ PiecesOK
    /\ TextsOK /\ lastWritten = M

PlaceOf(p) ==
    /\ \A q \in 1..N : TextAt(q) => (q <= p <=> written[q][2] <= TextPieces(p))
    /\ TextPieces(p) \in 0..M

LEMMA PlaceSteps ==
    ASSUME N \in Nat
    PROVE  /\ TextPieces(0) = 0
           /\ \A p \in 1..N : /\ TextPieces(p - 1) \in Nat
                              /\ TextPieces(p) = IF TextAt(p) THEN TextPieces(p - 1) + 1 ELSE TextPieces(p - 1)
<1> DEFINE A(p) == {q \in 1..p : written[q][1] = "text"}
<1>1. TextPieces(0) = 0
  <2>1. 1..0 = {}
    OBVIOUS
  <2>2. A(0) = {}
    BY <2>1
  <2> QED
    BY <2>2, FS_EmptySet DEF TextPieces
<1>2. ASSUME NEW p \in 1..N
      PROVE  /\ TextPieces(p - 1) \in Nat
             /\ TextPieces(p) = IF TextAt(p) THEN TextPieces(p - 1) + 1 ELSE TextPieces(p - 1)
  <2>1. p \in Nat /\ p >= 1
    OBVIOUS
  <2>2. \A q \in Nat : q \in 1..p <=> q \in 1..(p - 1) \/ q = p
    BY <2>1
  <2>3. p \in A(p) <=> TextAt(p)
    BY <2>1 DEF TextAt
  <2>4. /\ \A q \in Nat : q \in A(p) <=> (q \in A(p - 1) \/ (q = p /\ p \in A(p)))
        /\ A(p) \subseteq 1..p /\ A(p - 1) \subseteq 1..(p - 1)
    BY <2>2, <2>3
  <2>5. PICK a, c : a = A(p) /\ c = A(p - 1)
    OBVIOUS
  <2>6. TextPieces(p) = Cardinality(a) /\ TextPieces(p - 1) = Cardinality(c)
    BY <2>5 DEF TextPieces
  <2> HIDE DEF A
  <2>7. Cardinality(c) \in Nat /\ Cardinality(a) = IF p \in a THEN Cardinality(c) + 1 ELSE Cardinality(c)
    BY <2>1, <2>4, <2>5, OneMorePiece
  <2> QED
    BY <2>3, <2>5, <2>6, <2>7
<1> QED
  BY <1>1, <1>2

\* Of the pieces up to p, those that are text are the tokens up to TextPieces(p).
LEMMA Places ==
    ASSUME Whole
    PROVE  /\ N \in Nat /\ M \in Nat
           /\ \A p \in 0..N : PlaceOf(p)
           /\ TextPieces(0) = 0
           /\ \A p \in 1..N : TextAt(p) => /\ TextPieces(p) = written[p][2]
                                           /\ TextPieces(p - 1) = written[p][2] - 1
           /\ \A p \in 1..N : ~TextAt(p) => TextPieces(p) = TextPieces(p - 1)
           /\ TextPieces(N) = M
<1>1. /\ N \in Nat /\ M \in Nat /\ DOMAIN written = 1..N
      /\ \A p \in 1..N : written[p][2] \in 1..M
  BY Pieces DEF Whole, M
<1>2. TextPieces(0) = 0
  BY <1>1, PlaceSteps
<1>3. \A p, q \in 1..N : TextAt(p) /\ TextAt(q) /\ p < q => written[p][2] < written[q][2]
  BY <1>1 DEF Whole, TextsOK, TextAt, IsText
<1>4. \A i \in 1..M : \E p \in 1..N : TextAt(p) /\ written[p][2] = i
  <2> SUFFICES ASSUME NEW i \in 1..M PROVE \E p \in 1..N : TextAt(p) /\ written[p][2] = i
    OBVIOUS
  <2>1. PICK p \in DOMAIN written : written[p] = <<"text", i>>
    BY DEF Whole, TextsOK
  <2>2. written[p][1] = "text" /\ written[p][2] = i
    BY <2>1
  <2> QED
    BY <1>1, <2>2 DEF TextAt
<1>5. ASSUME NEW p \in 1..N, PlaceOf(p - 1)
      PROVE  PlaceOf(p) /\ (TextAt(p) => TextPieces(p) = written[p][2] /\ TextPieces(p - 1) = written[p][2] - 1)
  <2>1. /\ TextPieces(p - 1) \in Nat
        /\ TextPieces(p) = IF TextAt(p) THEN TextPieces(p - 1) + 1 ELSE TextPieces(p - 1)
    BY <1>1, PlaceSteps
  <2>2. PICK k \in Nat : k = TextPieces(p - 1) /\ k <= M
    BY <1>1, <1>5, <2>1 DEF PlaceOf
  <2>3. \A q \in 1..N : TextAt(q) => (q <= p - 1 <=> written[q][2] <= k)
    BY <1>5, <2>2 DEF PlaceOf
  <2>4. CASE TextAt(p)
    <3>1. written[p][2] \in 1..M /\ written[p][2] > k
      BY <1>1, <2>2, <2>3, <2>4
    <3>2. PICK i : i = written[p][2]
      OBVIOUS
    <3>3. i \in 1..M /\ i > k
      BY <3>1, <3>2
    <3>4. k + 1 \in 1..M
      BY <1>1, <2>2, <3>3
    <3>5. PICK r \in 1..N : TextAt(r) /\ written[r][2] = k + 1
      BY <1>4, <3>4
    <3>6. ~(r <= p - 1)
      BY <2>2, <2>3, <3>5
    <3>7. ~(p < r)
      <4>1. p < r => i < k + 1
        BY <1>3, <2>4, <3>2, <3>5
      <4> QED
        BY <2>2, <3>3, <4>1
    <3>8. r = p
      BY <3>6, <3>7
    <3>9. written[p][2] = k + 1 /\ TextPieces(p) = k + 1
      BY <2>1, <2>2, <2>4, <3>5, <3>8
    <3>10. ASSUME NEW q \in 1..N, TextAt(q) PROVE q <= p <=> written[q][2] <= k + 1
      <4>1. PICK j \in 1..M : j = written[q][2]
        BY <1>1
      <4>2. q <= p - 1 <=> j <= k
        BY <2>3, <3>10, <4>1
      <4>3. p < q => k + 1 < j
        BY <1>3, <2>4, <3>9, <3>10, <4>1
      <4>4. q = p => j = k + 1
        BY <3>9, <4>1
      <4>5. q \in Nat /\ p \in Nat /\ j \in Nat /\ k \in Nat
        BY <1>1
      <4>6. q <= p <=> j <= k + 1
        BY <4>2, <4>3, <4>4, <4>5
      <4> QED
        BY <4>1, <4>6
    <3> QED
      BY <2>2, <3>4, <3>9, <3>10 DEF PlaceOf
  <2>5. CASE ~TextAt(p)
    <3>1. TextPieces(p) = k
      BY <2>1, <2>2, <2>5
    <3>2. ASSUME NEW q \in 1..N, TextAt(q) PROVE q <= p <=> written[q][2] <= k
      <4>1. q # p
        BY <2>5, <3>2
      <4>2. q <= p <=> q <= p - 1
        BY <4>1
      <4> QED
        BY <2>3, <3>2, <4>2
    <3>3. k \in 0..M
      BY <1>1, <2>2
    <3> QED
      BY <2>5, <3>1, <3>2, <3>3 DEF PlaceOf
  <2> QED
    BY <2>4, <2>5
<1>6. \A p \in 0..N : PlaceOf(p)
  <2> SUFFICES \A m \in Nat : m <= N => PlaceOf(m)
    BY <1>1
  <2> SUFFICES ASSUME NEW B, B = {m \in Nat : m <= N /\ ~PlaceOf(m)}, B # {} PROVE FALSE
    OBVIOUS
  <2>1. PICK m \in B : \A k \in B : m <= k
    BY LeastNumber
  <2>2. CASE m = 0
    <3>1. PlaceOf(0)
      <4>1. \A q \in 1..N : ~(q <= 0) /\ ~(written[q][2] <= 0)
        BY <1>1
      <4> QED
        BY <1>1, <1>2, <4>1 DEF PlaceOf
    <3> QED
      BY <2>1, <2>2, <3>1
  <2>3. CASE m # 0
    <3>1. m \in 1..N /\ m - 1 \in Nat /\ m - 1 <= N /\ ~(m <= m - 1)
      BY <1>1, <2>1, <2>3
    <3>2. PlaceOf(m - 1)
      BY <2>1, <3>1
    <3>3. PlaceOf(m)
      BY <1>5, <3>1, <3>2
    <3> QED
      BY <2>1, <3>3
  <2> QED
    BY <2>2, <2>3
<1>7. \A p \in 1..N : p - 1 \in 0..N
  BY <1>1
<1>8. \A p \in 1..N : TextAt(p) => TextPieces(p) = written[p][2] /\ TextPieces(p - 1) = written[p][2] - 1
  BY <1>5, <1>6, <1>7
<1>9. \A p \in 1..N : ~TextAt(p) => TextPieces(p) = TextPieces(p - 1)
  BY <1>1, PlaceSteps
<1>10. TextPieces(N) = M
  <2>1. N \in 0..N
    BY <1>1
  <2>2. TextPieces(N) \in 0..M /\ \A q \in 1..N : TextAt(q) => (q <= N <=> written[q][2] <= TextPieces(N))
    BY <1>6, <2>1 DEF PlaceOf
  <2>3. M # 0 => M <= TextPieces(N)
    <3> SUFFICES ASSUME M # 0 PROVE M <= TextPieces(N)
      OBVIOUS
    <3>1. PICK q \in 1..N : TextAt(q) /\ written[q][2] = M
      BY <1>1, <1>4
    <3> QED
      BY <1>1, <2>2, <3>1
  <2> QED
    BY <1>1, <2>2, <2>3
<1> QED
  BY <1>1, <1>2, <1>6, <1>8, <1>9, <1>10

LEMMA TokenPlaced ==
    ASSUME Whole
    PROVE  /\ Len(Text(1, Len(body))) = M
           /\ \A x \in 1..M : OTok(x) = body[x] /\ Text(1, Len(body))[x] = <<"text", x>> /\ OTok(x) # "signal"
           /\ \A p \in 1..N : TextAt(p) <=> Tok(p) # "signal"
           /\ \A p \in 1..N : TextAt(p) => /\ TextPieces(p) \in 1..M
                                           /\ OTok(TextPieces(p)) = Tok(p)
           /\ \A x \in 1..M : \E p \in 1..N : TextAt(p) /\ TextPieces(p) = x
<1>1. /\ N \in Nat /\ M \in Nat /\ DOMAIN written = 1..N /\ DOMAIN body = 1..M
      /\ \A p \in 1..N : /\ written[p][2] \in 1..M
                         /\ written[p][1] \in {"text", "signal"}
                         /\ Tok(p) = "signal" <=> written[p][1] = "signal"
                         /\ Tok(p) # "signal" => Tok(p) = body[written[p][2]]
  BY Pieces DEF Whole, M
<1>2. /\ Len(Text(1, M)) = M - 1 + 1
      /\ \A i \in 1..(M - 1 + 1) : Text(1, M)[i] = <<"text", 1 + i - 1>>
  <2>1. 1 \in Nat /\ 1 >= 1 /\ M <= M /\ 1 <= M + 1
    BY <1>1
  <2> QED
    BY <1>1, <2>1, TextTyped
<1>3. Len(Text(1, M)) = M /\ \A x \in 1..M : Text(1, M)[x] = <<"text", x>>
  <2>1. M - 1 + 1 = M /\ \A x \in 1..M : 1 + x - 1 = x
    BY <1>1
  <2> QED
    BY <1>2, <2>1
<1>4. ASSUME NEW x \in 1..M PROVE OTok(x) = body[x] /\ OTok(x) # "signal"
  <2>1. Text(1, Len(body))[x][1] = "text" /\ Text(1, Len(body))[x][2] = x
    BY <1>3 DEF M
  <2>2. OTok(x) = body[x]
    BY <2>1 DEF OTok, Original!TokenAt
  <2> QED
    BY <1>1, <2>2 DEF Whole, PiecesOK
<1>5. \A p \in 1..N : TextAt(p) <=> Tok(p) # "signal"
  BY <1>1 DEF TextAt
<1>6. ASSUME NEW p \in 1..N, TextAt(p) PROVE TextPieces(p) \in 1..M /\ OTok(TextPieces(p)) = Tok(p)
  <2>1. TextPieces(p) = written[p][2]
    BY <1>6, Places
  <2>2. Tok(p) = body[written[p][2]]
    BY <1>1, <1>5, <1>6
  <2> QED
    BY <1>1, <1>4, <2>1, <2>2
<1>7. ASSUME NEW x \in 1..M PROVE \E p \in 1..N : TextAt(p) /\ TextPieces(p) = x
  <2>1. PICK p \in DOMAIN written : written[p] = <<"text", x>>
    BY DEF Whole, TextsOK, M
  <2>2. p \in 1..N /\ TextAt(p) /\ written[p][2] = x
    BY <1>1, <2>1 DEF TextAt
  <2> QED
    BY <2>2, Places
<1> QED
  BY <1>3, <1>4, <1>5, <1>6, <1>7 DEF M

LEMMA OrderedPlaces ==
    ASSUME Whole, NEW p \in 1..N, NEW q \in 1..N, TextAt(p), TextAt(q)
    PROVE  /\ p < q <=> TextPieces(p) < TextPieces(q)
           /\ p <= q <=> TextPieces(p) <= TextPieces(q)
           /\ p = q <=> TextPieces(p) = TextPieces(q)
<1>1. N \in Nat /\ M \in Nat /\ TextPieces(p) \in 1..M /\ TextPieces(q) \in 1..M
  BY Places, TokenPlaced
<1>2. TextPieces(p) = written[p][2] /\ TextPieces(q) = written[q][2]
  BY Places
<1>3. (p <= q <=> written[p][2] <= TextPieces(q)) /\ (q <= p <=> written[q][2] <= TextPieces(p))
  <2>1. PlaceOf(q) /\ PlaceOf(p)
    <3>1. p \in 0..N /\ q \in 0..N
      OBVIOUS
    <3> QED
      BY <3>1, Places
  <2> QED
    BY <2>1 DEF PlaceOf
<1>4. PICK a, b : a = TextPieces(p) /\ b = TextPieces(q)
  OBVIOUS
<1>5. a \in Nat /\ b \in Nat /\ (p <= q <=> a <= b) /\ (q <= p <=> b <= a)
  BY <1>1, <1>2, <1>3, <1>4
<1>6. p \in Nat /\ q \in Nat
  BY <1>1
<1>7. (p < q <=> a < b) /\ (p = q <=> a = b)
  BY <1>5, <1>6
<1> QED
  BY <1>4, <1>5, <1>7

CountOf(S, p) == Cardinality({q \in 1..p : q \in S})

\* Counting up to the next number.
LEMMA CountStep ==
    ASSUME NEW S, NEW p \in Nat, p >= 1
    PROVE  /\ CountOf(S, p - 1) \in Nat
           /\ CountOf(S, p) = CountOf(S, p - 1) + (IF p \in S THEN 1 ELSE 0)
<1>1. PICK a, c : a = {q \in 1..p : q \in S} /\ c = {q \in 1..(p - 1) : q \in S}
  OBVIOUS
<1>2. \A q \in Nat : q \in 1..p <=> q \in 1..(p - 1) \/ q = p
  OBVIOUS
<1>3. p \in a <=> p \in S
  BY <1>1
<1>4. /\ \A q \in Nat : q \in a <=> (q \in c \/ (q = p /\ p \in a))
      /\ a \subseteq 1..p /\ c \subseteq 1..(p - 1)
  BY <1>1, <1>2, <1>3
<1>5. Cardinality(c) \in Nat /\ Cardinality(a) = IF p \in a THEN Cardinality(c) + 1 ELSE Cardinality(c)
  BY <1>4, OneMorePiece
<1>6. CountOf(S, p) = Cardinality(a) /\ CountOf(S, p - 1) = Cardinality(c)
  BY <1>1 DEF CountOf
<1> QED
  BY <1>3, <1>5, <1>6

OD(x) == Original!Depth(x)

LEMMA OriginalDepthSteps ==
    /\ OD(0) = 0
    /\ \A x \in Nat : x >= 1 =>
           /\ OD(x - 1) \in Int
           /\ OD(x) = OD(x - 1) + (IF OTok(x) \in Run!Opens THEN 1 ELSE 0) - (IF OTok(x) = "END" THEN 1 ELSE 0)
<1>1. PICK A, B : A = {q \in Nat : OTok(q) \in Run!Opens} /\ B = {q \in Nat : OTok(q) = "END"}
  OBVIOUS
<1>2. \A S : Original!Cardinality(S) = Cardinality(S)
  BY DEF Original!Cardinality, Cardinality
<1>3. ASSUME NEW x \in Nat
      PROVE  OD(x) = CountOf(A, x) - CountOf(B, x)
  <2>1. {q \in 1..x : OTok(q) \in Run!Opens} = {q \in 1..x : q \in A}
    BY <1>1
  <2>2. {q \in 1..x : OTok(q) = "END"} = {q \in 1..x : q \in B}
    BY <1>1
  <2>3. OD(x) = Cardinality({q \in 1..x : OTok(q) \in Run!Opens}) - Cardinality({q \in 1..x : OTok(q) = "END"})
    BY <1>2 DEF OD, Original!Depth, OTok, Original!Opens, Run!Opens
  <2>4. CountOf(A, x) = Cardinality({q \in 1..x : q \in A}) /\ CountOf(B, x) = Cardinality({q \in 1..x : q \in B})
    BY DEF CountOf
  <2> QED
    BY <2>1, <2>2, <2>3, <2>4
<1>4. OD(0) = 0
  <2>1. {q \in 1..0 : q \in A} = {} /\ {q \in 1..0 : q \in B} = {} /\ 0 \in Nat
    OBVIOUS
  <2>2. Cardinality({}) = 0
    BY FS_EmptySet
  <2>3. CountOf(A, 0) = 0 /\ CountOf(B, 0) = 0
    BY <2>1, <2>2 DEF CountOf
  <2> QED
    BY <1>3, <2>1, <2>3
<1>5. ASSUME NEW x \in Nat, x >= 1
      PROVE  /\ OD(x - 1) \in Int
             /\ OD(x) = OD(x - 1) + (IF OTok(x) \in Run!Opens THEN 1 ELSE 0) - (IF OTok(x) = "END" THEN 1 ELSE 0)
  <2>1. x - 1 \in Nat
    BY <1>5
  <2>2. PICK a, b, c, d : /\ a = CountOf(A, x - 1) /\ c = CountOf(A, x)
                          /\ b = CountOf(B, x - 1) /\ d = CountOf(B, x)
    OBVIOUS
  <2>3. a \in Nat /\ c = a + (IF x \in A THEN 1 ELSE 0)
    BY <1>5, <2>2, CountStep
  <2>4. b \in Nat /\ d = b + (IF x \in B THEN 1 ELSE 0)
    BY <1>5, <2>2, CountStep
  <2>5. OD(x) = c - d /\ OD(x - 1) = a - b
    BY <1>3, <2>1, <2>2
  <2>6. (x \in A <=> OTok(x) \in Run!Opens) /\ (x \in B <=> OTok(x) = "END")
    BY <1>1
  <2>7. PICK i, j : i = (IF x \in A THEN 1 ELSE 0) /\ j = (IF x \in B THEN 1 ELSE 0) /\ i \in Nat /\ j \in Nat
    OBVIOUS
  <2>8. c - d = (a - b) + i - j /\ a - b \in Int
    BY <2>3, <2>4, <2>7
  <2> QED
    BY <2>5, <2>6, <2>7, <2>8
<1> QED
  BY <1>4, <1>5

\* As many constructs are open in the original.
LEMMA DepthPlaced ==
    ASSUME Whole, Nested
    PROVE  \A p \in 0..N : OD(TextPieces(p)) = D(p)
<1> SUFFICES \A m \in Nat : m <= N => OD(TextPieces(m)) = D(m)
  BY DEF Nested
<1> SUFFICES ASSUME NEW B, B = {m \in Nat : m <= N /\ OD(TextPieces(m)) # D(m)}, B # {} PROVE FALSE
  OBVIOUS
<1>1. PICK m \in B : \A k \in B : m <= k
  BY LeastNumber
<1>2. CASE m = 0
  BY <1>1, <1>2, Places, OriginalDepthSteps DEF Nested
<1>3. CASE m # 0
  <2>1. m \in 1..N /\ m - 1 \in Nat /\ m - 1 <= N /\ ~(m <= m - 1) /\ m - 1 \in 0..N /\ m \in 0..N
    BY <1>1, <1>3 DEF Nested
  <2>2. OD(TextPieces(m - 1)) = D(m - 1)
    BY <1>1, <2>1
  <2>3. /\ Tok(m) \in Run!Opens => D(m) = D(m - 1) + 1
        /\ Tok(m) = "END" => D(m) = D(m - 1) - 1
        /\ Tok(m) \notin Run!Opens \cup {"END"} => D(m) = D(m - 1)
        /\ D(m - 1) \in Nat /\ D(m) \in Nat
    BY <2>1 DEF Nested
  <2>4. CASE TextAt(m)
    <3>1. PICK x : x = TextPieces(m)
      OBVIOUS
    <3>2. x \in 1..M /\ OTok(x) = Tok(m) /\ M \in Nat
      BY <2>1, <2>4, <3>1, TokenPlaced, Places
    <3>3. TextPieces(m - 1) = x - 1
      BY <2>1, <2>4, <3>1, Places
    <3>4. x \in Nat /\ x >= 1
      BY <3>2
    <3>5. OD(x) = OD(x - 1) + (IF OTok(x) \in Run!Opens THEN 1 ELSE 0) - (IF OTok(x) = "END" THEN 1 ELSE 0)
      BY <3>4, OriginalDepthSteps
    <3>6. "END" \notin Run!Opens
      BY DEF Run!Opens
    <3>7. OD(x) = D(m)
      <4>1. PICK d, tok : d = D(m - 1) /\ tok = Tok(m) /\ d \in Nat
        BY <2>3
      <4>2. OD(x) = d + (IF tok \in Run!Opens THEN 1 ELSE 0) - (IF tok = "END" THEN 1 ELSE 0)
        BY <2>2, <3>2, <3>3, <3>5, <4>1
      <4>3. D(m) = d + (IF tok \in Run!Opens THEN 1 ELSE 0) - (IF tok = "END" THEN 1 ELSE 0)
        BY <2>3, <3>6, <4>1
      <4> QED
        BY <4>2, <4>3
    <3> QED
      BY <1>1, <3>1, <3>7
  <2>5. CASE ~TextAt(m)
    <3>1. TextPieces(m) = TextPieces(m - 1) /\ Tok(m) = "signal"
      BY <2>1, <2>5, TokenPlaced, Places
    <3>2. "signal" \notin Run!Opens \cup {"END"}
      BY DEF Run!Opens
    <3> QED
      BY <1>1, <2>2, <2>3, <3>1, <3>2
  <2> QED
    BY <2>4, <2>5
<1> QED
  BY <1>2, <1>3

\* Pieces that are text, and the places they have in the original.
Images(A) == {TextPieces(p) : p \in A}
Texts == {p \in 1..N : TextAt(p)}

LEMMA ImageEnds ==
    ASSUME Whole, NEW A \in SUBSET Texts, A # {}
    PROVE  /\ Run!Min(A) \in A /\ Original!Min(Images(A)) = TextPieces(Run!Min(A))
           /\ Run!Max(A) \in A /\ Original!Max(Images(A)) = TextPieces(Run!Max(A))
<1>1. N \in Nat /\ M \in Nat /\ A \subseteq 1..N /\ A \subseteq Nat
  BY Places DEF Texts
<1>2. Run!Min(A) \in A /\ \A k \in A : Run!Min(A) <= k
  BY <1>1, LeastOf
<1>3. Run!Max(A) \in A /\ \A k \in A : k <= Run!Max(A)
  BY <1>1, GreatestOf
<1>4. ASSUME NEW p \in A, NEW q \in A PROVE p <= q <=> TextPieces(p) <= TextPieces(q)
  <2>1. p \in 1..N /\ q \in 1..N /\ TextAt(p) /\ TextAt(q)
    BY DEF Texts
  <2> QED
    BY <2>1, OrderedPlaces
<1>5. \A p \in A : TextPieces(p) \in Nat
  <2> SUFFICES ASSUME NEW p \in A PROVE TextPieces(p) \in Nat
    OBVIOUS
  <2>1. p \in 1..N /\ TextAt(p)
    BY DEF Texts
  <2>2. TextPieces(p) \in 1..M
    BY <2>1, TokenPlaced
  <2> QED
    BY <1>1, <2>2
<1>6. PICK B : B = Images(A)
  OBVIOUS
<1>7. B \subseteq Nat
  BY <1>5, <1>6 DEF Images
<1>8. PICK l : l = TextPieces(Run!Min(A))
  OBVIOUS
<1>9. l \in B /\ \A x \in B : l <= x
  <2>1. l \in B
    BY <1>2, <1>6, <1>8 DEF Images
  <2>2. \A k \in A : l <= TextPieces(k)
    BY <1>2, <1>4, <1>8
  <2> QED
    BY <1>6, <2>1, <2>2 DEF Images
<1>10. PICK g : g = TextPieces(Run!Max(A))
  OBVIOUS
<1>11. g \in B /\ \A x \in B : x <= g
  <2>1. g \in B
    BY <1>3, <1>6, <1>10 DEF Images
  <2>2. \A k \in A : TextPieces(k) <= g
    BY <1>3, <1>4, <1>10
  <2> QED
    BY <1>6, <2>1, <2>2 DEF Images
<1>12. Original!Min(B) = l
  <2>1. Original!Min(B) \in B /\ \A x \in B : Original!Min(B) <= x
    BY <1>9 DEF Original!Min
  <2>2. PICK m : m = Original!Min(B)
    OBVIOUS
  <2>3. m \in Nat /\ l \in Nat /\ m <= l /\ l <= m
    BY <1>7, <1>9, <2>1, <2>2
  <2> QED
    BY <2>2, <2>3
<1>13. Original!Max(B) = g
  <2>1. Original!Max(B) \in B /\ \A x \in B : x <= Original!Max(B)
    BY <1>11 DEF Original!Max
  <2>2. PICK m : m = Original!Max(B)
    OBVIOUS
  <2>3. m \in Nat /\ g \in Nat /\ m <= g /\ g <= m
    BY <1>7, <1>11, <2>1, <2>2
  <2> QED
    BY <2>2, <2>3
<1> QED
  BY <1>2, <1>3, <1>6, <1>8, <1>10, <1>12, <1>13

LEMMA Closing0 ==
    ASSUME Whole, Nested, NEW p \in 1..N, TextAt(p), D(p) >= 1
    PROVE  /\ Run!EndOf(p) \in 1..N /\ TextAt(Run!EndOf(p)) /\ p < Run!EndOf(p)
           /\ Original!EndOf(TextPieces(p)) = TextPieces(Run!EndOf(p))
<1>1. N \in Nat /\ M \in Nat /\ Len(Text(1, Len(body))) = M
  BY Places, TokenPlaced
<1>2. /\ Run!EndOf(p) \in 1..N /\ p < Run!EndOf(p) /\ Tok(Run!EndOf(p)) = "END"
      /\ D(Run!EndOf(p)) = D(p) - 1
  BY EndExists DEF Closes
<1>3. TextAt(Run!EndOf(p))
  BY <1>2, TokenPlaced
<1>4. PICK A : A = {q \in p..N : Tok(q) = "END" /\ D(q) < D(p)}
  OBVIOUS
<1>5. Run!EndOf(p) = Run!Min(A)
  BY <1>4 DEF Run!EndOf, Tok, D, N
<1>6. A \subseteq Texts
  <2> SUFFICES ASSUME NEW q \in A PROVE q \in Texts
    OBVIOUS
  <2>1. q \in 1..N /\ Tok(q) = "END"
    BY <1>1, <1>4
  <2> QED
    BY <2>1, TokenPlaced DEF Texts
<1>7. A # {}
  <2>1. D(p) \in Nat
    BY <1>1 DEF Nested
  <2>2. D(Run!EndOf(p)) < D(p)
    BY <1>2, <2>1
  <2>3. Run!EndOf(p) \in p..N
    BY <1>1, <1>2
  <2> QED
    BY <1>2, <1>4, <2>2, <2>3
<1>8. PICK B : B = {x \in TextPieces(p)..M : OTok(x) = "END" /\ OD(x) < OD(TextPieces(p))}
  OBVIOUS
<1>9. Original!EndOf(TextPieces(p)) = Original!Min(B)
  BY <1>1, <1>8 DEF Original!EndOf, OTok, OD
<1>10. OD(TextPieces(p)) = D(p)
  <2>1. p \in 0..N
    BY <1>1
  <2> QED
    BY <2>1, DepthPlaced
<1>11. TextPieces(p) \in 1..M
  BY TokenPlaced
<1>12. ASSUME NEW q \in 1..N, TextAt(q)
       PROVE  q \in A <=> TextPieces(q) \in B
  <2>1. TextPieces(q) \in 1..M /\ OTok(TextPieces(q)) = Tok(q)
    BY <1>12, TokenPlaced
  <2>2. q \in 0..N
    BY <1>1
  <2>3. OD(TextPieces(q)) = D(q)
    BY <2>2, DepthPlaced
  <2>4. p <= q <=> TextPieces(p) <= TextPieces(q)
    BY <1>12, OrderedPlaces
  <2>5. q \in p..N <=> p <= q
    BY <1>1
  <2>6. PICK x, y : x = TextPieces(q) /\ y = TextPieces(p) /\ x \in 1..M /\ y \in 1..M
    BY <1>11, <2>1
  <2>7. x \in y..M <=> y <= x
    BY <1>1, <2>6
  <2> QED
    BY <1>4, <1>8, <1>10, <2>1, <2>3, <2>4, <2>5, <2>6, <2>7
<1>13. B = Images(A)
  <2>1. ASSUME NEW x \in B PROVE x \in Images(A)
    <3>1. x \in 1..M
      BY <1>1, <1>8, <1>11
    <3>2. PICK q \in 1..N : TextAt(q) /\ TextPieces(q) = x
      BY <3>1, TokenPlaced
    <3> QED
      BY <1>12, <2>1, <3>2 DEF Images
  <2>2. ASSUME NEW q \in A PROVE TextPieces(q) \in B
    <3>1. q \in 1..N /\ TextAt(q)
      BY <1>6 DEF Texts
    <3> QED
      BY <1>12, <3>1
  <2> QED
    BY <2>1, <2>2 DEF Images
<1> QED
  BY <1>2, <1>3, <1>5, <1>6, <1>7, <1>9, <1>13, ImageEnds

LEMMA BranchesPlaced ==
    ASSUME Whole, Nested, NEW p \in 1..N, TextAt(p), D(p) >= 1, NEW t, t # "signal"
    PROVE  /\ Run!Branches(p, t) \subseteq Texts
           /\ Original!Branches(TextPieces(p), t) = Images(Run!Branches(p, t))
<1>1. N \in Nat /\ M \in Nat /\ TextPieces(p) \in 1..M /\ p \in 0..N
  BY Places, TokenPlaced
<1>2. PICK e \in 1..N : /\ e = Run!EndOf(p) /\ TextAt(e) /\ TextPieces(e) \in 1..M
                        /\ Original!EndOf(TextPieces(p)) = TextPieces(e)
  BY Closing0, TokenPlaced
<1>3. PICK A : A = Run!Branches(p, t)
  OBVIOUS
<1>4. A = {q \in p..e : Tok(q) = t /\ D(q) = D(p)}
  BY <1>2, <1>3 DEF Run!Branches, Tok, D
<1>5. PICK B : B = Original!Branches(TextPieces(p), t)
  OBVIOUS
<1>6. B = {x \in TextPieces(p)..TextPieces(e) : OTok(x) = t /\ OD(x) = OD(TextPieces(p))}
  BY <1>2, <1>5 DEF Original!Branches, OTok, OD
<1>7. A \subseteq Texts
  <2> SUFFICES ASSUME NEW q \in A PROVE q \in Texts
    OBVIOUS
  <2>1. q \in 1..N /\ Tok(q) # "signal"
    BY <1>1, <1>2, <1>4
  <2> QED
    BY <2>1, TokenPlaced DEF Texts
<1>8. OD(TextPieces(p)) = D(p)
  BY <1>1, DepthPlaced
<1>9. ASSUME NEW q \in 1..N, TextAt(q)
      PROVE  q \in A <=> TextPieces(q) \in B
  <2>1. TextPieces(q) \in 1..M /\ OTok(TextPieces(q)) = Tok(q)
    BY <1>9, TokenPlaced
  <2>2. q \in 0..N
    BY <1>1
  <2>3. OD(TextPieces(q)) = D(q)
    BY <2>2, DepthPlaced
  <2>4. (p <= q <=> TextPieces(p) <= TextPieces(q)) /\ (q <= e <=> TextPieces(q) <= TextPieces(e))
    BY <1>2, <1>9, OrderedPlaces
  <2>5. q \in p..e <=> p <= q /\ q <= e
    BY <1>1, <1>2
  <2>6. PICK x, y, z : /\ x = TextPieces(q) /\ y = TextPieces(p) /\ z = TextPieces(e)
                       /\ x \in 1..M /\ y \in 1..M /\ z \in 1..M
    BY <1>1, <1>2, <2>1
  <2>7. x \in y..z <=> y <= x /\ x <= z
    BY <1>1, <2>6
  <2> QED
    BY <1>4, <1>6, <1>8, <2>1, <2>3, <2>4, <2>5, <2>6, <2>7
<1>10. B = Images(A)
  <2>1. ASSUME NEW x \in B PROVE x \in Images(A)
    <3>1. x \in 1..M
      BY <1>1, <1>2, <1>6
    <3>2. PICK q \in 1..N : TextAt(q) /\ TextPieces(q) = x
      BY <3>1, TokenPlaced
    <3> QED
      BY <1>9, <2>1, <3>2 DEF Images
  <2>2. ASSUME NEW q \in A PROVE TextPieces(q) \in B
    <3>1. q \in 1..N /\ TextAt(q)
      BY <1>7 DEF Texts
    <3> QED
      BY <1>9, <3>1
  <2> QED
    BY <2>1, <2>2 DEF Images
<1> QED
  BY <1>3, <1>5, <1>7, <1>10

LEMMA AroundPlaced ==
    ASSUME Whole, Nested, NEW p \in 1..N, TextAt(p), NEW ts \in SUBSET Run!Opens
    PROVE  /\ Run!Around(p, ts) \subseteq Texts
           /\ Original!Around(TextPieces(p), ts) = Images(Run!Around(p, ts))
<1>1. N \in Nat /\ M \in Nat /\ TextPieces(p) \in 1..M
  BY Places, TokenPlaced
<1>2. PICK A : A = Run!Around(p, ts)
  OBVIOUS
<1>3. A = {q \in 1..(p - 1) : Tok(q) \in ts /\ p <= Run!EndOf(q)}
  BY <1>2 DEF Run!Around, Tok
<1>4. PICK B : B = Original!Around(TextPieces(p), ts)
  OBVIOUS
<1>5. B = {x \in 1..(TextPieces(p) - 1) : OTok(x) \in ts /\ TextPieces(p) <= Original!EndOf(x)}
  BY <1>4 DEF Original!Around, OTok
<1>6. "signal" \notin ts
  BY DEF Run!Opens
<1>7. A \subseteq Texts
  <2> SUFFICES ASSUME NEW q \in A PROVE q \in Texts
    OBVIOUS
  <2>1. q \in 1..N /\ Tok(q) # "signal"
    BY <1>1, <1>3, <1>6
  <2> QED
    BY <2>1, TokenPlaced DEF Texts
<1>8. ASSUME NEW q \in 1..N, TextAt(q)
      PROVE  q \in A <=> TextPieces(q) \in B
  <2>1. TextPieces(q) \in 1..M /\ OTok(TextPieces(q)) = Tok(q)
    BY <1>8, TokenPlaced
  <2>2. q < p <=> TextPieces(q) < TextPieces(p)
    BY <1>8, OrderedPlaces
  <2>3. q \in 1..(p - 1) <=> q < p
    BY <1>1
  <2>4. PICK x, y : x = TextPieces(q) /\ y = TextPieces(p) /\ x \in 1..M /\ y \in 1..M
    BY <1>1, <2>1
  <2>5. x \in 1..(y - 1) <=> x < y
    BY <1>1, <2>4
  <2>6. Tok(q) \in ts => (p <= Run!EndOf(q) <=> TextPieces(p) <= Original!EndOf(TextPieces(q)))
    <3> SUFFICES ASSUME Tok(q) \in ts
                 PROVE  p <= Run!EndOf(q) <=> TextPieces(p) <= Original!EndOf(TextPieces(q))
      OBVIOUS
    <3>1. D(q) >= 1
      BY OpenDepth
    <3>2. /\ Run!EndOf(q) \in 1..N /\ TextAt(Run!EndOf(q))
          /\ Original!EndOf(TextPieces(q)) = TextPieces(Run!EndOf(q))
      BY <1>8, <3>1, Closing0
    <3> QED
      BY <3>2, OrderedPlaces
  <2> QED
    BY <1>3, <1>5, <2>1, <2>2, <2>3, <2>4, <2>5, <2>6
<1>9. B = Images(A)
  <2>1. ASSUME NEW x \in B PROVE x \in Images(A)
    <3>1. x \in 1..M
      BY <1>1, <1>5
    <3>2. PICK q \in 1..N : TextAt(q) /\ TextPieces(q) = x
      BY <3>1, TokenPlaced
    <3> QED
      BY <1>8, <2>1, <3>2 DEF Images
  <2>2. ASSUME NEW q \in A PROVE TextPieces(q) \in B
    <3>1. q \in 1..N /\ TextAt(q)
      BY <1>7 DEF Texts
    <3> QED
      BY <1>8, <3>1
  <2> QED
    BY <2>1, <2>2 DEF Images
<1> QED
  BY <1>2, <1>4, <1>7, <1>9

LEMMA HandlingPlaced ==
    ASSUME Whole, Nested, NEW p \in 1..N, TextAt(p)
    PROVE  /\ Run!Handling(p) \subseteq Texts
           /\ Original!Handling(TextPieces(p)) = Images(Run!Handling(p))
<1>1. {"BEGIN"} \in SUBSET Run!Opens
  BY DEF Run!Opens
<1>2. PICK A : A = Run!Around(p, {"BEGIN"})
  OBVIOUS
<1>3. A \subseteq Texts /\ Original!Around(TextPieces(p), {"BEGIN"}) = Images(A)
  BY <1>1, <1>2, AroundPlaced
<1>4. Run!Handling(p) = {b \in A : \E e \in Run!Branches(b, "EXCEPTION") : p < e}
  BY <1>2 DEF Run!Handling
<1>5. Original!Handling(TextPieces(p))
          = {x \in Images(A) : \E y \in Original!Branches(x, "EXCEPTION") : TextPieces(p) < y}
  BY <1>3 DEF Original!Handling
<1>6. ASSUME NEW b \in A
      PROVE  (\E e \in Run!Branches(b, "EXCEPTION") : p < e)
                 <=> (\E y \in Original!Branches(TextPieces(b), "EXCEPTION") : TextPieces(p) < y)
  <2>1. b \in 1..N /\ TextAt(b)
    BY <1>3 DEF Texts
  <2>2. Tok(b) = "BEGIN"
    BY <1>2 DEF Run!Around, Tok
  <2>3. D(b) >= 1
    BY <1>1, <2>1, <2>2, OpenDepth
  <2>4. PICK E : E = Run!Branches(b, "EXCEPTION")
    OBVIOUS
  <2>5. E \subseteq Texts /\ Original!Branches(TextPieces(b), "EXCEPTION") = Images(E)
    BY <2>1, <2>3, <2>4, BranchesPlaced
  <2>6. \A e \in E : p < e <=> TextPieces(p) < TextPieces(e)
    BY <2>5, OrderedPlaces DEF Texts
  <2>7. (\E e \in E : p < e) <=> (\E y \in Images(E) : TextPieces(p) < y)
    BY <2>6 DEF Images
  <2> QED
    BY <2>4, <2>5, <2>7
<1>7. Original!Handling(TextPieces(p)) = Images(Run!Handling(p))
  BY <1>4, <1>5, <1>6 DEF Images
<1> QED
  BY <1>3, <1>4, <1>7

-----------------------------------------------------------------------------
(* What is accepted with its signals is accepted without                    *)

OSt(x) == Original!Scanned[x]

LEMMA SameAccept == \A s, t : Original!Accept(s, t) = Run!Accept(s, t)
<1>1. \A s, c : Original!Enter(s, c) = Run!Enter(s, c)
  BY DEF Original!Enter, Run!Enter
<1>2. \A s, c : Original!Swap(s, c) = Run!Swap(s, c)
  BY DEF Original!Swap, Run!Swap
<1>3. \A s : Original!Leave(s) = Run!Leave(s)
  BY DEF Original!Leave, Run!Leave
<1>4. \A s, c : Original!Inside(s, c) <=> Run!Inside(s, c)
  BY DEF Original!Inside, Run!Inside
<1>5. \A s : Original!InLoop(s) <=> Run!InLoop(s)
  BY DEF Original!InLoop, Run!InLoop
<1>6. \A s, m : Original!Then(s, m) = Run!Then(s, m)
  BY DEF Original!Then, Run!Then
<1>7. \A s : Original!AfterSemicolon(s) = Run!AfterSemicolon(s)
  BY DEF Original!AfterSemicolon, Run!AfterSemicolon
<1> SUFFICES ASSUME NEW s, NEW t PROVE Original!Accept(s, t) = Run!Accept(s, t)
  OBVIOUS
<1>8. /\ Original!Enter(s, "BEGIN") = Run!Enter(s, "BEGIN")
      /\ Original!Enter(s, "IF") = Run!Enter(s, "IF")
      /\ Original!Enter(s, "LOOP") = Run!Enter(s, "LOOP")
      /\ Original!Swap(s, "ELSE") = Run!Swap(s, "ELSE")
      /\ Original!Swap(s, "EXCEPTION") = Run!Swap(s, "EXCEPTION")
      /\ Original!Leave(s) = Run!Leave(s)
      /\ Original!Inside(s, "IF") <=> Run!Inside(s, "IF")
      /\ Original!Inside(s, "BEGIN") <=> Run!Inside(s, "BEGIN")
      /\ Original!InLoop(s) <=> Run!InLoop(s)
      /\ Original!Then(s, "declaration") = Run!Then(s, "declaration")
      /\ Original!Then(s, "declared") = Run!Then(s, "declared")
      /\ Original!Then(s, "semicolon") = Run!Then(s, "semicolon")
      /\ Original!Then(s, "level") = Run!Then(s, "level")
      /\ Original!Then(s, "error") = Run!Then(s, "error")
      /\ Original!Then(s, Original!AfterSemicolon(s)) = Run!Then(s, Run!AfterSemicolon(s))
  BY <1>1, <1>2, <1>3, <1>4, <1>5, <1>6, <1>7
<1> QED
  BY ONLY <1>8 DEF Original!Accept, Run!Accept

OScanOn(f, m) == f = [x \in 0..m |-> IF x = 0 THEN StartState ELSE Run!Accept(f[x - 1], OTok(x))]

LEMMA OScanExists == \A m \in Nat : \E f : OScanOn(f, m)
<1> SUFFICES ASSUME NEW B, B = {m \in Nat : ~\E f : OScanOn(f, m)}, B # {} PROVE FALSE
  OBVIOUS
<1>1. PICK m \in B : \A k \in B : m <= k
  BY LeastNumber
<1>2. m # 0
  <2>1. OScanOn([x \in 0..0 |-> StartState], 0)
    BY DEF OScanOn
  <2> QED
    BY <2>1
<1>3. PICK f : OScanOn(f, m - 1)
  BY <1>1, <1>2
<1> DEFINE g == [x \in 0..m |-> IF x = m THEN Run!Accept(f[m - 1], OTok(m)) ELSE f[x]]
<1>4. OScanOn(g, m)
  <2>1. m \in Nat /\ m > 0
    BY <1>1, <1>2
  <2>2. \A x \in 0..(m - 1) : f[x] = IF x = 0 THEN StartState ELSE Run!Accept(f[x - 1], OTok(x))
    BY <1>3, <2>1 DEF OScanOn
  <2>3. \A x \in 0..(m - 1) : g[x] = f[x]
    BY <2>1
  <2>4. ASSUME NEW x \in 0..m
        PROVE  g[x] = IF x = 0 THEN StartState ELSE Run!Accept(g[x - 1], OTok(x))
    <3>1. CASE x = m
      BY <2>1, <2>3, <3>1
    <3>2. CASE x # m
      <4>1. x \in 0..(m - 1) /\ (x # 0 => x - 1 \in 0..(m - 1))
        BY <2>1, <3>2
      <4> QED
        BY <2>2, <2>3, <4>1
    <3> QED
      BY <3>1, <3>2
  <2> QED
    BY <2>4 DEF OScanOn
<1> QED
  BY <1>1, <1>4

LEMMA OScanStep ==
    ASSUME Whole
    PROVE  OSt(0) = StartState /\ \A x \in 1..M : OSt(x) = Run!Accept(OSt(x - 1), OTok(x))
<1>0. M \in Nat /\ Len(Text(1, Len(body))) = M
  BY Places, TokenPlaced
<1>1. PICK f : OScanOn(f, M)
  BY <1>0, OScanExists
<1>2. OScanOn(Original!Scanned, M)
  BY <1>0, <1>1, SameAccept DEF Original!Scanned, OScanOn, StartState, OTok
<1>3. \A x \in 0..M : Original!Scanned[x] = IF x = 0 THEN StartState ELSE Run!Accept(Original!Scanned[x - 1], OTok(x))
  BY <1>2 DEF OScanOn
<1>4. \A x \in 1..M : x \in 0..M /\ x # 0
  BY <1>0
<1> QED
  BY <1>0, <1>3, <1>4 DEF OSt

\* After as much of the text, the constructs that are open are the same.
LEMMA ScanPlaced ==
    ASSUME Whole, Run!AcceptedPlpgsql
    PROVE  \A p \in 0..N : OSt(TextPieces(p)) = St(p)
<1>0. PiecesOK
  BY DEF Whole
<1>1. /\ N \in Nat /\ M \in Nat
      /\ St(0) = StartState /\ \A p \in 1..N : St(p) = Run!Accept(St(p - 1), Tok(p))
      /\ \A p \in 0..N : St(p) \in State /\ St(p).mode # "error"
  BY <1>0, Places, ScanStep, NoErrors
<1>2. OSt(0) = StartState /\ \A x \in 1..M : OSt(x) = Run!Accept(OSt(x - 1), OTok(x))
  BY OScanStep
<1> SUFFICES \A m \in Nat : m <= N => OSt(TextPieces(m)) = St(m)
  BY <1>1
<1> SUFFICES ASSUME NEW B, B = {m \in Nat : m <= N /\ OSt(TextPieces(m)) # St(m)}, B # {} PROVE FALSE
  OBVIOUS
<1>3. PICK m \in B : \A k \in B : m <= k
  BY LeastNumber
<1>4. m # 0
  <2>1. OSt(TextPieces(0)) = St(0)
    BY <1>1, <1>2, Places
  <2> QED
    BY <1>3, <2>1
<1>5. m \in 1..N /\ m - 1 \in Nat /\ m - 1 <= N /\ ~(m <= m - 1) /\ m - 1 \in 0..N /\ m \in 0..N
  BY <1>1, <1>3, <1>4
<1>6. OSt(TextPieces(m - 1)) = St(m - 1)
  BY <1>3, <1>5
<1>7. CASE TextAt(m)
  <2>1. PICK x : x = TextPieces(m)
    OBVIOUS
  <2>2. x \in 1..M /\ OTok(x) = Tok(m)
    BY <1>5, <1>7, <2>1, TokenPlaced
  <2>3. TextPieces(m - 1) = x - 1
    BY <1>5, <1>7, <2>1, Places
  <2>4. OSt(x) = Run!Accept(OSt(x - 1), Tok(m))
    BY <1>2, <2>2
  <2>5. OSt(x) = St(m)
    BY <1>1, <1>5, <1>6, <2>3, <2>4
  <2> QED
    BY <1>3, <2>1, <2>5
<1>8. CASE ~TextAt(m)
  <2>1. TextPieces(m) = TextPieces(m - 1) /\ Tok(m) = "signal"
    BY <1>5, <1>8, Places, TokenPlaced
  <2>2. PICK s, a : s = St(m - 1) /\ a = Run!Accept(s, "signal") /\ a = St(m)
    BY <1>1, <1>5, <2>1
  <2>3. AcceptCases(s, "signal", a)
    BY <2>2, AcceptShape
  <2>4. a = s \/ a = Run!Then(s, "error")
    BY <2>3 DEF AcceptCases
  <2>5. s \in State /\ a.mode # "error"
    BY <1>1, <1>5, <2>2
  <2>6. Run!Then(s, "error").mode = "error"
    BY <2>5, ThenState DEF Modes
  <2>7. a = s
    BY <2>4, <2>5, <2>6
  <2> QED
    BY <1>3, <1>6, <2>1, <2>2, <2>7
<1> QED
  BY <1>7, <1>8

LEMMA OriginalPlpgsql ==
    ASSUME Whole, Run!AcceptedPlpgsql
    PROVE  Original!AcceptedPlpgsql
<1>1. N \in Nat /\ N \in 0..N /\ TextPieces(N) = M /\ Len(Text(1, Len(body))) = M
  BY Places, TokenPlaced
<1>2. Original!Scanned[M] = Run!Scanned[N]
  BY <1>1, ScanPlaced DEF OSt, St
<1> QED
  BY <1>1, <1>2 DEF Run!AcceptedPlpgsql, Original!AcceptedPlpgsql, N

\* What is between two pieces of an SQL function, comments aside.
LEMMA SqlPrevious ==
    ASSUME PiecesOK, Run!AcceptedSQL, NEW r \in 1..N, NEW q \in 1..N, r < q, Tok(r) # "COMMENT",
           Tok(q) # "COMMENT", \A y \in 1..N : r < y /\ y < q => Tok(y) = "COMMENT"
    PROVE  IF Tok(q) = ";" THEN Tok(r) = "word" ELSE Tok(r) \in {";", "signal"}
<1>0. DOMAIN written = 1..N /\ N \in Nat /\ q \in Nat /\ r \in Nat
  BY Pieces
<1>1. PICK A : A = {y \in {z \in DOMAIN written : Tok(z) # "COMMENT"} : y < q}
  OBVIOUS
<1>2. r \in A /\ A \subseteq 1..N
  BY <1>0, <1>1
<1>3. PICK z \in A : z = Run!Max(A) /\ \A y \in A : y <= z
  BY <1>0, <1>2, GreatestOf
<1>4. z = r
  <2>1. z \in 1..N /\ z < q /\ r <= z /\ Tok(z) # "COMMENT"
    BY <1>0, <1>1, <1>2, <1>3
  <2>2. ~(r < z)
    BY <2>1
  <2> QED
    BY <1>0, <2>1, <2>2
<1>5. A # {} /\ q \in {y \in DOMAIN written : Tok(y) # "COMMENT"}
  BY <1>0, <1>2
<1>6. IF Tok(q) = ";" THEN Tok(Run!Max(A)) = "word" ELSE Tok(Run!Max(A)) \in {";", "signal"}
  BY <1>1, <1>5 DEF Run!AcceptedSQL, Tok
<1> QED
  BY <1>3, <1>4, <1>6

LEMMA SqlStatement ==
    ASSUME PiecesOK, Run!AcceptedSQL, NEW q \in 1..N, Tok(q) = ";"
    PROVE  \E r \in 1..N : /\ r < q /\ Tok(r) = "word"
                           /\ \A y \in 1..N : r < y /\ y < q => Tok(y) = "COMMENT"
<1>0. DOMAIN written = 1..N /\ N \in Nat /\ q \in Nat
  <2>1. DOMAIN written = 1..N /\ N \in Nat
    BY Pieces
  <2>2. q \in 1..N
    OBVIOUS
  <2> QED
    BY ONLY <2>1, <2>2
<1>1. PICK A : A = {y \in {z \in DOMAIN written : Tok(z) # "COMMENT"} : y < q}
  OBVIOUS
<1>2. A \subseteq 1..N
  BY <1>0, <1>1
<1>3. A # {}
  <2> SUFFICES ASSUME A = {} PROVE FALSE
    OBVIOUS
  <2>1. q \in {y \in DOMAIN written : Tok(y) # "COMMENT"}
    BY <1>0
  <2> QED
    BY <1>1, <2>1 DEF Run!AcceptedSQL, Tok
<1>4. PICK z \in A : z = Run!Max(A) /\ \A y \in A : y <= z
  BY <1>0, <1>2, <1>3, GreatestOf
<1>5. z \in 1..N /\ z < q
  BY <1>1, <1>2
<1>6. \A y \in 1..N : z < y /\ y < q => Tok(y) = "COMMENT"
  <2> SUFFICES ASSUME NEW y \in 1..N, z < y, y < q, Tok(y) # "COMMENT" PROVE FALSE
    OBVIOUS
  <2>1. y \in A
    BY <1>0, <1>1
  <2>2. y <= z
    BY <1>4, <2>1
  <2>3. y \in 1..N /\ z \in 1..N /\ z < y
    BY <1>5
  <2> QED
    BY ONLY <1>0, <2>2, <2>3
<1>7. Tok(z) # "COMMENT"
  BY <1>1
<1>8. Tok(z) = "word"
  BY <1>5, <1>6, <1>7, SqlPrevious
<1> QED
  BY <1>5, <1>6, <1>8

LEMMA SqlSeparated ==
    ASSUME PiecesOK, Run!AcceptedSQL, NEW r \in 1..N, NEW q \in 1..N, r < q, Tok(r) = "word", Tok(q) = "word"
    PROVE  \E z \in 1..N : r < z /\ z < q /\ Tok(z) = ";"
<1>0. N \in Nat /\ q \in Nat /\ r \in Nat
  BY Pieces
<1>1. PICK C : C = {y \in 1..N : r < y /\ Tok(y) # "COMMENT"}
  OBVIOUS
<1>2. q \in C /\ C \subseteq Nat
  BY <1>1
<1>3. PICK z \in C : \A k \in C : z <= k
  BY <1>2, LeastNumber
<1>4. z \in 1..N /\ r < z /\ Tok(z) # "COMMENT" /\ z <= q
  BY <1>1, <1>2, <1>3
<1>5. \A y \in 1..N : r < y /\ y < z => Tok(y) = "COMMENT"
  <2> SUFFICES ASSUME NEW y \in 1..N, r < y, y < z, Tok(y) # "COMMENT" PROVE FALSE
    OBVIOUS
  <2>1. y \in C
    BY <1>1
  <2>2. z <= y
    BY <1>3, <2>1
  <2> QED
    BY <1>4, <2>2
<1>6. Tok(z) = ";"
  <2>1. IF Tok(z) = ";" THEN Tok(r) = "word" ELSE Tok(r) \in {";", "signal"}
    BY <1>4, <1>5, SqlPrevious
  <2> QED
    BY <2>1
<1>7. z # q
  BY <1>6
<1>8. z < q
  BY <1>0, <1>4, <1>7
<1> QED
  BY <1>4, <1>6, <1>8

\* For the original, as GreatestOf.
LEMMA OriginalGreatest ==
    ASSUME NEW z \in Nat, NEW A \in SUBSET (1..z), A # {}
    PROVE  Original!Max(A) \in A /\ \A k \in A : k <= Original!Max(A)
<1>1. PICK g \in A : \A k \in A : k <= g
  BY GreatestOf
<1> QED
  BY <1>1 DEF Original!Max

LEMMA OriginalSql ==
    ASSUME Whole, Run!AcceptedSQL
    PROVE  Original!AcceptedSQL
<1>0. PiecesOK /\ SqlTokens
  BY AcceptedSqlTokens DEF Whole
<1>1. /\ N \in Nat /\ M \in Nat /\ DOMAIN written = 1..N /\ DOMAIN Text(1, Len(body)) = 1..M
  <2>1. N \in Nat /\ DOMAIN written = 1..N
    BY <1>0, Pieces
  <2>2. M \in Nat /\ Len(Text(1, Len(body))) = M
    BY Places, TokenPlaced
  <2>3. 1 \in Nat /\ 1 >= 1 /\ M <= M /\ 1 <= M + 1
    BY <2>2
  <2>4. Text(1, M) \in Seq({"text", "signal"} \X (1..M))
    BY <2>2, <2>3, TextTyped
  <2>5. DOMAIN Text(1, M) = 1..Len(Text(1, M))
    BY <2>4, LenProperties
  <2> QED
    BY <2>1, <2>2, <2>5 DEF M
<1>2. PICK A : A = {x \in 1..M : OTok(x) # "COMMENT"}
  OBVIOUS
<1>3. ASSUME NEW x \in A
      PROVE  \E p \in 1..N : TextAt(p) /\ TextPieces(p) = x /\ Tok(p) = OTok(x) /\ Tok(p) \in {"word", ";"}
  <2>1. x \in 1..M /\ OTok(x) # "COMMENT"
    BY <1>2
  <2>2. PICK p \in 1..N : TextAt(p) /\ TextPieces(p) = x
    BY <2>1, TokenPlaced
  <2>3. Tok(p) = OTok(x) /\ Tok(p) # "signal"
    BY <2>2, TokenPlaced
  <2> QED
    BY <1>0, <2>1, <2>2, <2>3 DEF SqlTokens
<1>4. ASSUME NEW p \in 1..N, Tok(p) \notin {"COMMENT", "signal"}
      PROVE  TextAt(p) /\ TextPieces(p) \in A /\ OTok(TextPieces(p)) = Tok(p)
  <2>1. TextAt(p)
    BY <1>4, TokenPlaced
  <2>2. TextPieces(p) \in 1..M /\ OTok(TextPieces(p)) = Tok(p)
    BY <2>1, TokenPlaced
  <2> QED
    BY <1>2, <1>4, <2>1, <2>2
<1>5. A # {}
  <2>1. PICK P : P = {z \in DOMAIN written : Tok(z) # "COMMENT"}
    OBVIOUS
  <2>2. P # {} /\ Tok(Run!Max(P)) # "signal"
    BY <2>1 DEF Run!AcceptedSQL, Tok
  <2>3. P \subseteq 1..N
    BY <1>1, <2>1
  <2>4. Run!Max(P) \in P
    BY <1>1, <2>2, <2>3, GreatestOf
  <2> QED
    BY <1>4, <2>1, <2>2, <2>3, <2>4
<1>6. A \subseteq 1..M
  BY <1>2
<1>7. OTok(Original!Max(A)) # "signal"
  <2>1. Original!Max(A) \in A
    BY <1>1, <1>5, <1>6, OriginalGreatest
  <2> QED
    BY <1>6, <2>1, TokenPlaced
<1>8. ASSUME NEW x \in A, NEW B, B = {y \in A : y < x}
      PROVE  /\ OTok(x) \in {"word", ";", "signal"}
             /\ IF OTok(x) = ";" THEN B # {} /\ OTok(Original!Max(B)) = "word"
                ELSE B = {} \/ OTok(Original!Max(B)) \in {";", "signal"}
  <2>1. PICK p \in 1..N : TextAt(p) /\ TextPieces(p) = x /\ Tok(p) = OTok(x) /\ Tok(p) \in {"word", ";"}
    BY <1>3
  <2>2. B \subseteq 1..M /\ x \in Nat
    <3>1. x \in 1..M
      BY <1>6
    <3>2. B \subseteq A
      BY <1>8
    <3> QED
      BY <1>6, <3>1, <3>2
  <2>3. ASSUME NEW u \in 1..N, TextAt(u), TextPieces(u) \in A PROVE TextPieces(u) \in B <=> u < p
    BY <1>8, <2>1, <2>3, OrderedPlaces
  <2>4. CASE Tok(p) = ";"
    <3>1. PICK r \in 1..N : /\ r < p /\ Tok(r) = "word"
                            /\ \A y \in 1..N : r < y /\ y < p => Tok(y) = "COMMENT"
      BY <1>0, <2>4, SqlStatement
    <3>2. TextAt(r) /\ TextPieces(r) \in A /\ OTok(TextPieces(r)) = "word"
      BY <1>4, <3>1
    <3>3. TextPieces(r) \in B
      BY <2>3, <3>1, <3>2
    <3>4. PICK g : g = Original!Max(B) /\ g \in B /\ \A k \in B : k <= g
      BY <1>1, <2>2, <3>3, OriginalGreatest
    <3>5. g \in A
      BY <1>8, <3>4
    <3>6. PICK u \in 1..N : TextAt(u) /\ TextPieces(u) = g /\ Tok(u) \in {"word", ";"}
      BY <1>3, <3>5
    <3>7. u < p /\ TextPieces(r) <= TextPieces(u)
      BY <2>3, <3>3, <3>4, <3>5, <3>6
    <3>8. r <= u
      BY <3>2, <3>6, <3>7, OrderedPlaces
    <3>9. ~(r < u)
      BY <3>1, <3>6, <3>7
    <3>10. r = u
      <4>1. r \in Nat /\ u \in Nat
        OBVIOUS
      <4> QED
        BY <3>8, <3>9, <4>1
    <3> QED
      BY <2>1, <2>4, <3>2, <3>3, <3>4, <3>6, <3>10
  <2>5. CASE Tok(p) = "word"
    <3> SUFFICES ASSUME B # {} PROVE OTok(Original!Max(B)) \in {";", "signal"}
      BY <2>1, <2>5
    <3>1. PICK g : g = Original!Max(B) /\ g \in B /\ \A k \in B : k <= g
      BY <1>1, <2>2, OriginalGreatest
    <3>2. g \in A
      BY <1>8, <3>1
    <3>3. PICK u \in 1..N : TextAt(u) /\ TextPieces(u) = g /\ Tok(u) = OTok(g) /\ Tok(u) \in {"word", ";"}
      BY <1>3, <3>2
    <3>4. u < p
      BY <2>3, <3>1, <3>2, <3>3
    <3>5. Tok(u) # "word"
      <4> SUFFICES ASSUME Tok(u) = "word" PROVE FALSE
        OBVIOUS
      <4>1. PICK z \in 1..N : u < z /\ z < p /\ Tok(z) = ";"
        BY <1>0, <2>5, <3>4, SqlSeparated
      <4>2. TextAt(z) /\ TextPieces(z) \in A
        BY <1>4, <4>1
      <4>3. TextPieces(z) \in B
        BY <2>3, <4>1, <4>2
      <4>4. TextPieces(z) <= TextPieces(u)
        BY <3>1, <3>3, <4>3
      <4>5. z <= u
        BY <3>3, <4>2, <4>4, OrderedPlaces
      <4>6. z \in 1..N /\ u \in 1..N /\ u < z
        BY <4>1
      <4> QED
        BY ONLY <1>1, <4>5, <4>6
    <3> QED
      BY <3>1, <3>3, <3>5
  <2> QED
    BY <2>1, <2>4, <2>5
<1>9. \A x \in A : OTok(x) \in {"word", ";", "signal"}
  BY <1>8
<1>10. \A x \in A :
          IF OTok(x) = ";" THEN (IF {y \in A : y < x} = {} THEN "signal" ELSE OTok(Original!Max({y \in A : y < x}))) = "word"
          ELSE (IF {y \in A : y < x} = {} THEN "signal" ELSE OTok(Original!Max({y \in A : y < x}))) \in {";", "signal"}
  <2> SUFFICES ASSUME NEW x \in A, NEW B, B = {y \in A : y < x}
               PROVE  IF OTok(x) = ";" THEN (IF B = {} THEN "signal" ELSE OTok(Original!Max(B))) = "word"
                      ELSE (IF B = {} THEN "signal" ELSE OTok(Original!Max(B))) \in {";", "signal"}
    OBVIOUS
  <2>1. IF OTok(x) = ";" THEN B # {} /\ OTok(Original!Max(B)) = "word"
        ELSE B = {} \/ OTok(Original!Max(B)) \in {";", "signal"}
    BY <1>8
  <2> QED
    BY <2>1
<1> QED
  BY <1>1, <1>2, <1>5, <1>7, <1>9, <1>10 DEF Original!AcceptedSQL, OTok

LEMMA OriginalAccepts ==
    ASSUME Whole, Run!Accepted
    PROVE  Original!Accepted
BY OriginalPlpgsql, OriginalSql DEF Run!Accepted, Original!Accepted

-----------------------------------------------------------------------------
(* A step of the instrumented body is a step of the original, or none       *)

Image(a) == IF a = 0 THEN 0 ELSE TextPieces(a - 1) + 1
WithoutPending(s) == [i \in DOMAIN s |-> [s[i] EXCEPT !.pending = {}]]
OriginalAt == IF at = 0 THEN 0 ELSE TextPieces(at - 1) + 1

Settled == Whole /\ written' = written /\ body' = body

LEMMA ImageStays ==
    ASSUME written' = written
    PROVE  OriginalAt = Image(at) /\ \A a : a = at' => OriginalAt' = Image(a)
<1>1. \A x : TextPieces(x)' = TextPieces(x)
  BY DEF TextPieces
<1> QED
  BY <1>1 DEF OriginalAt, Image

LEMMA ImageMoves ==
    ASSUME Settled
    PROVE  OriginalAt = Image(at) /\ \A a : a = at' => OriginalAt' = Image(a)
BY ImageStays DEF Settled

LEMMA ImageIs ==
    ASSUME Whole, N \in Nat, NEW p \in 1..N
    PROVE  /\ TextAt(p) => /\ Image(p) = TextPieces(p) /\ Image(p) \in 1..M
                           /\ OTok(Image(p)) = Tok(p)
                           /\ Image(p + 1) = Image(p) + 1 /\ Image(p + 1) = TextPieces(p) + 1
                           /\ Text(1, Len(body))[Image(p)][2] = written[p][2]
           /\ ~TextAt(p) => Image(p + 1) = Image(p)
<1>1. p # 0 /\ p + 1 # 0 /\ (p + 1) - 1 = p /\ M \in Nat
  BY Places
<1>2. Image(p) = TextPieces(p - 1) + 1 /\ Image(p + 1) = TextPieces(p) + 1
  BY <1>1 DEF Image
<1>3. CASE TextAt(p)
  <2>1. TextPieces(p) \in 1..M /\ OTok(TextPieces(p)) = Tok(p)
    BY <1>3, TokenPlaced
  <2>2. TextPieces(p) = written[p][2] /\ TextPieces(p - 1) = written[p][2] - 1
    BY <1>3, Places
  <2>3. PICK x : x = TextPieces(p)
    OBVIOUS
  <2>4. TextPieces(p - 1) = x - 1 /\ x \in 1..M /\ x = written[p][2]
    BY <2>1, <2>2, <2>3
  <2>5. Image(p) = x /\ Image(p + 1) = x + 1
    BY <1>1, <1>2, <2>3, <2>4
  <2>6. Text(1, Len(body))[x] = <<"text", x>>
    BY <2>4, TokenPlaced
  <2>7. Text(1, Len(body))[x][2] = x
    BY <2>6
  <2> QED
    BY <1>3, <2>1, <2>3, <2>4, <2>5, <2>7
<1>4. CASE ~TextAt(p)
  <2>1. TextPieces(p) = TextPieces(p - 1)
    BY <1>4, Places
  <2> QED
    BY <1>2, <1>4, <2>1
<1> QED
  BY <1>3, <1>4

\* At a token of the original.
Here(x, t) ==
    /\ \A ts : Original!At(ts) <=> t \in ts
    /\ OriginalAt = x /\ x \in 1..M /\ x = TextPieces(at) /\ x = Image(at)
    /\ OTok(x) = t /\ t = Tok(at)
    /\ Original!Token = Run!Token /\ Run!Token = written[at][2]
    /\ Image(at + 1) = x + 1

LEMMA HereIs ==
    ASSUME Whole, outcome = "running", at \in 1..N, TextAt(at)
    PROVE  \E x, t : Here(x, t)
<1>1. N \in Nat /\ M \in Nat /\ Len(Text(1, Len(body))) = M
  BY Places, TokenPlaced
<1>2. /\ Image(at) = TextPieces(at) /\ Image(at) \in 1..M /\ OTok(Image(at)) = Tok(at)
      /\ Image(at + 1) = Image(at) + 1
      /\ Text(1, Len(body))[Image(at)][2] = written[at][2]
  BY <1>1, ImageIs
<1>3. PICK x, t : x = Image(at) /\ t = Tok(at)
  OBVIOUS
<1>4. OriginalAt = x
  BY <1>3 DEF OriginalAt, Image
<1>5. x <= M
  BY <1>1, <1>2, <1>3
<1>6. \A ts : Original!At(ts) <=> (x <= Len(Text(1, Len(body))) /\ OTok(x) \in ts)
  BY <1>4 DEF Original!At, OriginalAt, OTok
<1>7. Original!Token = Run!Token /\ Run!Token = written[at][2]
  <2>1. Original!Token = Text(1, Len(body))[x][2]
    BY <1>4 DEF Original!Token, OriginalAt
  <2>2. Run!Token = written[at][2]
    BY DEF Run!Token
  <2> QED
    BY <1>2, <1>3, <2>1, <2>2
<1> QED
  BY <1>1, <1>2, <1>3, <1>4, <1>5, <1>6, <1>7 DEF Here

\* The tokens that go with whatever comes next.
LEMMA StepsPlaced ==
    ASSUME Settled, outcome = "running", at \in 1..N, TextAt(at)
    PROVE  /\ Run!Pass => Original!Pass
           /\ Run!RunStatement => Original!RunStatement
           /\ Run!RunDiagnostics => Original!RunDiagnostics
           /\ Run!Return => Original!Return
<1>1. PICK x, t : Here(x, t)
  BY HereIs DEF Settled
<1>2. OriginalAt = x /\ (at' = at + 1 => OriginalAt' = x + 1) /\ (at' = at => OriginalAt' = x)
  BY <1>1, ImageMoves DEF Here
<1>3. saved' = saved => WithoutPending(saved)' = WithoutPending(saved)
  BY DEF WithoutPending
<1>4. \A ts : Run!At(ts) => Original!At(ts)
  BY <1>1 DEF Here, Run!At, Tok
<1>5. ASSUME Run!Pass PROVE Original!Pass
  BY <1>2, <1>3, <1>4, <1>5 DEF Run!Pass, Original!Pass, OriginalAt, WithoutPending
<1>6. Run!Runs => Original!Runs
  BY <1>1 DEF Run!Runs, Original!Runs, Here
<1>7. ASSUME Run!RunStatement PROVE Original!RunStatement
  BY <1>2, <1>3, <1>4, <1>6, <1>7 DEF Run!RunStatement, Original!RunStatement, OriginalAt, WithoutPending
<1>8. ASSUME Run!RunDiagnostics PROVE Original!RunDiagnostics
  BY <1>2, <1>3, <1>4, <1>6, <1>8 DEF Run!RunDiagnostics, Original!RunDiagnostics, OriginalAt, WithoutPending
<1>9. ASSUME Run!Return PROVE Original!Return
  BY <1>2, <1>3, <1>4, <1>6, <1>9 DEF Run!Return, Original!Return, OriginalAt, WithoutPending
<1> QED
  BY <1>5, <1>7, <1>8, <1>9

LEMMA HandlingBoth ==
    ASSUME Whole, Fit, at \in 1..N, TextAt(at)
    PROVE  /\ Run!Handling(at) \subseteq Texts
           /\ Original!Handling(TextPieces(at)) = Images(Run!Handling(at))
<1>1. CASE kind # "sql"
  BY <1>1, HandlingPlaced DEF Fit
<1>2. CASE kind = "sql"
  <2>1. N \in Nat /\ M \in Nat /\ TextPieces(at) \in 1..M /\ SqlTokens /\ at \in 1..(N + 1)
    BY <1>2, Places, TokenPlaced DEF Fit
  <2>2. Run!Handling(at) = {}
    BY <2>1, SqlHandlesNothing
  <2>3. ASSUME NEW y \in 1..(TextPieces(at) - 1) PROVE OTok(y) # "BEGIN"
    <3>1. y \in 1..M
      BY <2>1
    <3>2. PICK p \in 1..N : TextAt(p) /\ TextPieces(p) = y
      BY <3>1, TokenPlaced
    <3>3. OTok(y) = Tok(p)
      BY <3>2, TokenPlaced
    <3> QED
      BY <2>1, <3>3 DEF SqlTokens
  <2>4. Original!Handling(TextPieces(at)) = {}
    BY <2>3 DEF Original!Handling, Original!Around, OTok
  <2> QED
    BY <2>2, <2>4 DEF Images
<1> QED
  BY <1>1, <1>2

\* What was saved has what was kept, and what was pending.
SavedOK == \A i \in DOMAIN saved : saved[i] = [kept |-> saved[i].kept, pending |-> saved[i].pending]

LEMMA SavedPlaced ==
    ASSUME SavedOK, NEW i \in DOMAIN saved
    PROVE  WithoutPending(saved)[i].kept = saved[i].kept /\ WithoutPending(saved)[i].pending = {}
<1>1. saved[i] = [kept |-> saved[i].kept, pending |-> saved[i].pending]
  BY DEF SavedOK
<1>2. PICK k, p : saved[i] = [kept |-> k, pending |-> p]
  BY <1>1
<1>3. WithoutPending(saved)[i] = [saved[i] EXCEPT !.pending = {}]
  BY DEF WithoutPending
<1> QED
  BY <1>2, <1>3

LEMMA FailsPlaced ==
    ASSUME Settled, Fit, SavedOK, \A b \in 1..N : written[b][2] \in DOMAIN saved,
           outcome = "running", at \in 1..N, TextAt(at), Run!Fails
    PROVE  Original!Fails
<1>1. PICK x, t : Here(x, t)
  BY HereIs DEF Settled
<1>2. OriginalAt = x /\ x = TextPieces(at) /\ (at' = at => OriginalAt' = x) /\ \A a : a = at' => OriginalAt' = Image(a)
  BY <1>1, ImageMoves DEF Here
<1>3. WithoutPending(saved)' = WithoutPending(saved) /\ UNCHANGED <<found, done>>
  BY DEF WithoutPending, Run!Fails
<1>4. PICK H : /\ H = Run!Handling(at) /\ H \subseteq Texts
               /\ Original!Handling(OriginalAt) = Images(H)
  BY <1>2, HandlingBoth DEF Settled
<1>5. CASE H = {}
  <2>1. outcome' = "failed" /\ UNCHANGED <<at, kept>>
    BY <1>4, <1>5 DEF Run!Fails
  <2>2. Original!Handling(OriginalAt) = {}
    BY <1>4, <1>5 DEF Images
  <2> QED
    BY <1>2, <1>3, <2>1, <2>2 DEF Original!Fails, OriginalAt, WithoutPending
<1>6. CASE H # {}
  <2>1. N \in Nat /\ Whole
    BY Places DEF Settled
  <2>2. Nested
    <3>1. kind # "sql"
      <4>1. at \in 1..(N + 1)
        BY <2>1
      <4> QED
        BY <1>4, <1>6, <2>1, <4>1, SqlHandlesNothing DEF Fit
    <3> QED
      BY <3>1 DEF Fit
  <2>3. PICK b : /\ b = Run!Max(H) /\ b \in H
                 /\ Original!Max(Original!Handling(OriginalAt)) = TextPieces(b)
    <3>1. H \in SUBSET Texts
      BY <1>4
    <3> QED
      BY <1>4, <1>6, <2>1, <3>1, ImageEnds
  <2>4. b \in 1..N /\ TextAt(b)
    BY <1>4, <2>3 DEF Texts
  <2>5. Tok(b) = "BEGIN" /\ Run!Branches(b, "EXCEPTION") # {}
    BY <1>4, <2>3 DEF Run!Handling, Run!Around, Tok
  <2>6. D(b) >= 1
    BY <2>2, <2>4, <2>5, OpenDepth DEF Run!Opens
  <2>7. PICK E : /\ E = Run!Branches(b, "EXCEPTION") /\ E \in SUBSET Texts
                 /\ Original!Branches(TextPieces(b), "EXCEPTION") = Images(E)
    BY <2>1, <2>2, <2>4, <2>6, BranchesPlaced
  <2>8. PICK e : /\ e = Run!Min(E) /\ e \in E /\ Original!Min(Images(E)) = TextPieces(e)
    BY <2>1, <2>5, <2>7, ImageEnds
  <2>9. at' = e + 1 /\ kept' = saved[written[b][2]].kept /\ UNCHANGED outcome
    BY <1>4, <1>6, <2>3, <2>7, <2>8 DEF Run!Fails
  <2>10. OriginalAt' = TextPieces(e) + 1
    <3>1. e \in 1..N /\ TextAt(e)
      BY <2>7, <2>8 DEF Texts
    <3>2. Image(e + 1) = TextPieces(e) + 1
      BY <2>1, <3>1, ImageIs
    <3> QED
      BY <1>2, <2>9, <3>2
  <2>11. Text(1, Len(body))[TextPieces(b)][2] = written[b][2]
    <3>1. Image(b) = TextPieces(b) /\ Text(1, Len(body))[Image(b)][2] = written[b][2]
      BY <2>1, <2>4, ImageIs
    <3> QED
      BY <3>1
  <2>12. written[b][2] \in DOMAIN saved
    BY <2>4
  <2>13. kept' = WithoutPending(saved)[Text(1, Len(body))[TextPieces(b)][2]].kept
    BY <2>9, <2>11, <2>12, SavedPlaced
  <2>14. WithoutPending(saved)[Text(1, Len(body))[TextPieces(b)][2]].pending = {}
    BY <2>11, <2>12, SavedPlaced
  <2>15. Original!Handling(OriginalAt) # {}
    BY <1>4, <1>6 DEF Images
  <2>16. /\ OriginalAt' = Original!Min(Original!Branches(Original!Max(Original!Handling(OriginalAt)), "EXCEPTION")) + 1
         /\ kept' = WithoutPending(saved)[Text(1, Len(body))[Original!Max(Original!Handling(OriginalAt))][2]].kept
         /\ WithoutPending(saved)[Text(1, Len(body))[Original!Max(Original!Handling(OriginalAt))][2]].pending = {}
    BY <2>3, <2>7, <2>8, <2>10, <2>13, <2>14
  <2> QED
    BY <1>3, <2>9, <2>15, <2>16 DEF Original!Fails, OriginalAt, WithoutPending
<1> QED
  BY <1>5, <1>6

\* After RAISE, and comments, there is its level or its semicolon.
Levelled ==
    \A p \in 1..N : Tok(p) = "RAISE" =>
        \E z \in 1..N : /\ p < z /\ Tok(z) \notin {"COMMENT", "signal"}
                        /\ \A y \in 1..N : p < y /\ y < z => Tok(y) = "COMMENT"

LEMMA LevelPlaced ==
    ASSUME Whole, Levelled, at \in 1..N, Tok(at) = "RAISE", OriginalAt = TextPieces(at)
    PROVE  Original!TokenAt(Original!Level) = Run!TokenAt(Run!Level)
<1>1. N \in Nat /\ M \in Nat /\ Len(Text(1, Len(body))) = M /\ TextAt(at) /\ TextPieces(at) \in 1..M
  BY Places, TokenPlaced
<1>2. PICK z \in 1..N : /\ at < z /\ Tok(z) \notin {"COMMENT", "signal"}
                        /\ \A y \in 1..N : at < y /\ y < z => Tok(y) = "COMMENT"
  BY DEF Levelled
<1>3. PICK A : A = {p \in (at + 1)..N : Tok(p) # "COMMENT"}
  OBVIOUS
<1>4. Run!Level = Run!Min(A)
  BY <1>3 DEF Run!Level, Tok, N
<1>5. z \in A /\ A \subseteq 1..N /\ A \subseteq Nat
  BY <1>1, <1>2, <1>3
<1>6. ASSUME NEW y \in A PROVE z <= y
  <2>1. y \in 1..N /\ at < y /\ Tok(y) # "COMMENT"
    BY <1>1, <1>3
  <2>2. ~(y < z)
    BY <1>2, <2>1
  <2>3. y \in Nat /\ z \in Nat
    BY <1>5
  <2> QED
    BY <2>2, <2>3
<1>7. Run!Level = z
  <2>1. Run!Min(A) \in A /\ \A k \in A : Run!Min(A) <= k
    BY <1>5, LeastOf
  <2>2. PICK m : m = Run!Min(A)
    OBVIOUS
  <2>3. m \in Nat /\ z \in Nat /\ m <= z /\ z <= m
    BY <1>5, <1>6, <2>1, <2>2
  <2> QED
    BY <1>4, <2>2, <2>3
<1>8. TextAt(z) /\ TextPieces(z) \in 1..M /\ OTok(TextPieces(z)) = Tok(z)
  BY <1>2, TokenPlaced
<1>9. PICK B : B = {x \in (TextPieces(at) + 1)..M : OTok(x) # "COMMENT"}
  OBVIOUS
<1>10. Original!Level = Original!Min(B)
  BY <1>1, <1>9 DEF Original!Level, OTok, OriginalAt
<1>11. TextPieces(z) \in B /\ B \subseteq Nat
  <2>1. TextPieces(at) < TextPieces(z)
    BY <1>1, <1>2, <1>8, OrderedPlaces
  <2> QED
    BY <1>1, <1>2, <1>8, <1>9, <2>1
<1>12. ASSUME NEW x \in B PROVE TextPieces(z) <= x
  <2>1. x \in 1..M /\ TextPieces(at) < x /\ OTok(x) # "COMMENT"
    BY <1>1, <1>9
  <2>2. PICK p \in 1..N : TextAt(p) /\ TextPieces(p) = x
    BY <2>1, TokenPlaced
  <2>3. Tok(p) # "COMMENT"
    BY <2>1, <2>2, TokenPlaced
  <2>4. at < p
    BY <1>1, <2>1, <2>2, OrderedPlaces
  <2>5. ~(p < z)
    BY <1>2, <2>3, <2>4
  <2>6. z <= p
    <3>1. p \in 1..N /\ z \in 1..N
      OBVIOUS
    <3> QED
      BY ONLY <1>1, <2>5, <3>1
  <2> QED
    BY <1>8, <2>2, <2>6, OrderedPlaces
<1>13. Original!Min(B) = TextPieces(z)
  <2>1. PICK l : l = TextPieces(z)
    OBVIOUS
  <2>2. l \in B /\ \A x \in B : l <= x
    BY <1>11, <1>12, <2>1
  <2>3. Original!Min(B) \in B /\ \A x \in B : Original!Min(B) <= x
    BY <2>2 DEF Original!Min
  <2>4. PICK m : m = Original!Min(B)
    OBVIOUS
  <2>5. m \in Nat /\ l \in Nat /\ m <= l /\ l <= m
    BY <1>11, <2>2, <2>3, <2>4
  <2> QED
    BY <2>1, <2>4, <2>5
<1> QED
  BY <1>7, <1>8, <1>10, <1>13 DEF OTok, Tok

\* Comments do not count.
LEMMA CommentsKeep ==
    ASSUME N \in Nat, NEW p \in 1..N, NEW q \in 1..N, p <= q, \A y \in 1..N : p < y /\ y <= q => Tok(y) = "COMMENT"
    PROVE  St(q) = St(p)
<1>1. PICK B : B = {m \in Nat : p <= m /\ m <= q /\ St(m) # St(p)}
  OBVIOUS
<1>2. CASE B = {}
  <2>1. q \in Nat /\ q <= q
    BY <1>2
  <2> QED
    BY <1>1, <1>2, <2>1
<1>3. CASE B # {}
  <2>1. PICK m \in B : \A k \in B : m <= k
    BY <1>1, <1>3, LeastNumber
  <2>2. m \in Nat /\ p <= m /\ m <= q /\ m # p
    BY <1>1, <2>1
  <2>3. p < m /\ m \in 1..N /\ m - 1 \in Nat /\ p <= m - 1 /\ m - 1 <= q /\ ~(m <= m - 1)
    BY <2>2
  <2>4. St(m - 1) = St(p)
    BY <1>1, <2>1, <2>3
  <2>5. Tok(m) = "COMMENT"
    BY <2>2, <2>3
  <2>6. St(m) = Run!Accept(St(m - 1), "COMMENT")
    BY <2>3, <2>5, ScanStep
  <2>7. \A s : Run!Accept(s, "COMMENT") = s
    BY DEF Run!Accept
  <2> QED
    BY <1>1, <2>1, <2>4, <2>6, <2>7
<1> QED
  BY <1>2, <1>3

LEMMA AcceptLevel ==
    ASSUME NEW s \in State
    PROVE  /\ Run!Accept(s, "RAISE").mode # "error" => Run!Accept(s, "RAISE").mode = "level"
           /\ Run!Accept(s, "signal").mode # "error" => s.mode = "statement"
<1>1. Run!Then(s, "error").mode = "error" /\ Run!Then(s, "level").mode = "level"
  BY ThenState DEF Modes
<1>2. Run!Accept(s, "RAISE") = IF s.mode = "statement" THEN Run!Then(s, "level") ELSE Run!Then(s, "error")
  BY DEF Run!Accept
<1>3. Run!Accept(s, "signal") = IF s.mode = "statement" THEN s ELSE Run!Then(s, "error")
  BY DEF Run!Accept
<1> QED
  BY <1>1, <1>2, <1>3

LEMMA AcceptedLevelled ==
    ASSUME PiecesOK, Run!AcceptedPlpgsql
    PROVE  Levelled
<1> SUFFICES ASSUME NEW p \in 1..N, Tok(p) = "RAISE"
             PROVE  \E z \in 1..N : /\ p < z /\ Tok(z) \notin {"COMMENT", "signal"}
                                    /\ \A y \in 1..N : p < y /\ y < z => Tok(y) = "COMMENT"
  BY DEF Levelled
<1>1. /\ N \in Nat /\ \A y \in 1..N : St(y) = Run!Accept(St(y - 1), Tok(y)) /\ y - 1 \in 0..N /\ y \in 0..N
      /\ \A y \in 0..N : St(y) \in State /\ St(y).mode # "error"
  BY Pieces, ScanStep, NoErrors
<1>2. St(p).mode = "level"
  <2>1. PICK s : s = St(p - 1) /\ s \in State /\ St(p) = Run!Accept(s, "RAISE")
    BY <1>1
  <2>2. St(p).mode # "error"
    BY <1>1
  <2> QED
    BY <2>1, <2>2, AcceptLevel
<1>3. PICK A : A = {y \in 1..N : p < y /\ Tok(y) # "COMMENT"}
  OBVIOUS
<1>4. A # {}
  <2> SUFFICES ASSUME A = {} PROVE FALSE
    OBVIOUS
  <2>1. N \in 1..N /\ p <= N
    BY <1>1
  <2>2. \A y \in 1..N : p < y /\ y <= N => Tok(y) = "COMMENT"
    BY <1>3
  <2>3. St(N) = St(p)
    BY <1>1, <2>1, <2>2, CommentsKeep
  <2>4. St(N).mode \in {"semicolon", "end"}
    BY DEF Run!AcceptedPlpgsql, St, N
  <2> QED
    BY <1>2, <2>3, <2>4
<1>5. PICK z \in A : \A k \in A : z <= k
  <2>1. A \in SUBSET Nat
    BY <1>1, <1>3
  <2> QED
    BY <1>4, <2>1, LeastNumber
<1>6. z \in 1..N /\ p < z /\ Tok(z) # "COMMENT"
  BY <1>3, <1>5
<1>7. \A y \in 1..N : p < y /\ y < z => Tok(y) = "COMMENT"
  <2> SUFFICES ASSUME NEW y \in 1..N, p < y, y < z, Tok(y) # "COMMENT" PROVE FALSE
    OBVIOUS
  <2>1. y \in A
    BY <1>3
  <2>2. z <= y
    BY <1>5, <2>1
  <2>3. y \in 1..N /\ z \in 1..N /\ y < z
    BY <1>6
  <2> QED
    BY ONLY <1>1, <2>2, <2>3
<1>8. Tok(z) # "signal"
  <2> SUFFICES ASSUME Tok(z) = "signal" PROVE FALSE
    OBVIOUS
  <2>1. z - 1 \in 1..N /\ p <= z - 1
    BY <1>1, <1>6
  <2>2. \A y \in 1..N : p < y /\ y <= z - 1 => Tok(y) = "COMMENT"
    <3>1. \A y \in 1..N : y <= z - 1 => y < z
      BY <1>1, <1>6
    <3> QED
      BY <1>7, <3>1
  <2>3. St(z - 1) = St(p)
    BY <1>1, <2>1, <2>2, CommentsKeep
  <2>4. PICK s : s = St(z - 1) /\ s \in State /\ St(z) = Run!Accept(s, "signal")
    BY <1>1, <1>6
  <2>5. St(z).mode # "error"
    BY <1>1, <1>6
  <2>6. s.mode = "statement"
    BY <2>4, <2>5, AcceptLevel
  <2> QED
    BY <1>2, <2>3, <2>4, <2>6
<1> QED
  BY <1>6, <1>7, <1>8

LEMMA SqlLevelled ==
    ASSUME SqlTokens
    PROVE  Levelled
BY DEF SqlTokens, Levelled

\* A statement that fails, or is about to.
LEMMA ErrorsPlaced ==
    ASSUME Settled, Fit, SavedOK, Levelled, \A b \in 1..N : written[b][2] \in DOMAIN saved,
           outcome = "running", at \in 1..N, TextAt(at)
    PROVE  /\ Run!RaiseNotice => Original!RaiseNotice
           /\ Run!RaiseException => Original!RaiseException
           /\ Run!StatementFails => Original!StatementFails
           /\ Run!CommitInside => Original!CommitInside
           /\ Run!EnterBlock => Original!EnterBlock
<1>1. PICK x, t : Here(x, t)
  BY HereIs DEF Settled
<1>2. OriginalAt = x /\ x = TextPieces(at) /\ (at' = at + 1 => OriginalAt' = x + 1)
  BY <1>1, ImageMoves DEF Here
<1>3. saved' = saved => WithoutPending(saved)' = WithoutPending(saved)
  BY DEF WithoutPending
<1>4. \A ts : Run!At(ts) => Original!At(ts)
  BY <1>1 DEF Here, Run!At, Tok
<1>5. Original!Token = Run!Token
  BY <1>1 DEF Here
<1>6. Run!Runs => Original!Runs
  BY <1>5 DEF Run!Runs, Original!Runs
<1>7. Run!Fails => Original!Fails
  BY FailsPlaced
<1>8. ASSUME Run!At({"RAISE"}) PROVE Original!TokenAt(Original!Level) = Run!TokenAt(Run!Level)
  <2>1. Tok(at) = "RAISE"
    BY <1>8 DEF Run!At, Tok
  <2> QED
    BY <1>2, <2>1, LevelPlaced DEF Settled
<1>9. ASSUME Run!RaiseNotice PROVE Original!RaiseNotice
  <2>1. Original!TokenAt(Original!Level) = "NOTICE"
    BY <1>8, <1>9 DEF Run!RaiseNotice
  <2> QED
    BY <1>2, <1>3, <1>4, <1>6, <1>9, <2>1 DEF Run!RaiseNotice, Original!RaiseNotice, OriginalAt, WithoutPending
<1>10. ASSUME Run!RaiseException PROVE Original!RaiseException
  <2>1. Original!TokenAt(Original!Level) # "NOTICE"
    BY <1>8, <1>10 DEF Run!RaiseException
  <2> QED
    BY <1>4, <1>5, <1>7, <1>10, <2>1 DEF Run!RaiseException, Original!RaiseException
<1>11. ASSUME Run!StatementFails PROVE Original!StatementFails
  BY <1>4, <1>7, <1>11 DEF Run!StatementFails, Original!StatementFails
<1>12. ASSUME Run!CommitInside PROVE Original!CommitInside
  <2>1. Original!Handling(OriginalAt) = {}
    <3>1. Run!Handling(at) = {}
      BY <1>12 DEF Run!CommitInside
    <3> QED
      BY <1>2, <3>1, HandlingBoth DEF Settled, Images
  <2> QED
    BY <1>2, <1>3, <1>4, <1>5, <1>12, <2>1 DEF Run!CommitInside, Original!CommitInside, OriginalAt, WithoutPending
<1>13. ASSUME Run!EnterBlock PROVE Original!EnterBlock
  <2>1. PICK k : k = Run!Token
    OBVIOUS
  <2>2. saved' = [saved EXCEPT ![k] = [kept |-> kept, pending |-> pending]]
    BY <1>13, <2>1 DEF Run!EnterBlock
  <2>3. WithoutPending(saved)' = [i \in DOMAIN saved' |-> [saved'[i] EXCEPT !.pending = {}]]
    BY DEF WithoutPending
  <2>4. WithoutPending(saved') = [WithoutPending(saved) EXCEPT ![k] = [kept |-> kept, pending |-> {}]]
    <3>1. DOMAIN saved' = DOMAIN saved
      BY <2>2
    <3>2. \A i \in DOMAIN saved : saved'[i] = IF i = k THEN [kept |-> kept, pending |-> pending] ELSE saved[i]
      BY <2>2
    <3>3. [[kept |-> kept, pending |-> pending] EXCEPT !.pending = {}] = [kept |-> kept, pending |-> {}]
      OBVIOUS
    <3> QED
      BY <3>1, <3>2, <3>3 DEF WithoutPending
  <2>5. WithoutPending(saved)' = [WithoutPending(saved) EXCEPT ![Original!Token] = [kept |-> kept, pending |-> {}]]
    BY <1>5, <2>1, <2>3, <2>4 DEF WithoutPending
  <2> QED
    BY <1>2, <1>4, <1>13, <2>5 DEF Run!EnterBlock, Original!EnterBlock, OriginalAt, WithoutPending
<1> QED
  BY <1>9, <1>10, <1>11, <1>12, <1>13

\* Where control goes, it goes in the original.
LEMMA BranchPlaced ==
    ASSUME Settled, Nested, outcome = "running", at \in 1..N, TextAt(at)
    PROVE  Run!Branch => Original!Branch
<1> SUFFICES ASSUME Run!Branch PROVE Original!Branch
  OBVIOUS
<1>1. PICK x, t : Here(x, t)
  BY HereIs DEF Settled
<1>2. /\ OriginalAt = x /\ x = TextPieces(at) /\ (at' = at + 1 => OriginalAt' = x + 1)
      /\ \A a : a = at' => OriginalAt' = Image(a)
  BY <1>1, ImageMoves DEF Here
<1>3. saved' = saved /\ WithoutPending(saved)' = WithoutPending(saved)
  BY DEF WithoutPending, Run!Branch
<1>4. Original!At({"IF", "WHILE"}) /\ Original!Runs
  <2>1. Run!At({"IF", "WHILE"}) /\ Run!Runs
    BY DEF Run!Branch
  <2> QED
    BY <1>1, <2>1 DEF Here, Run!At, Tok, Run!Runs, Original!Runs
<1>5. Whole /\ N \in Nat /\ Tok(at) \in Run!Opens /\ D(at) >= 1
  <2>1. Tok(at) \in Run!Opens
    BY DEF Run!Branch, Run!At, Run!Opens, Tok
  <2> QED
    BY <2>1, OpenDepth DEF Settled, Nested
<1>6. PICK E : /\ E = Run!Branches(at, "ELSE") /\ E \in SUBSET Texts
               /\ Original!Branches(OriginalAt, "ELSE") = Images(E)
  BY <1>2, <1>5, BranchesPlaced
<1>7. PICK e \in 1..N : /\ e = Run!EndOf(at) /\ TextAt(e) /\ Original!EndOf(OriginalAt) = TextPieces(e)
  BY <1>2, <1>5, Closing0
<1>8. at' = IF found THEN at + 1 ELSE IF E # {} THEN Run!Min(E) + 1 ELSE e + 1
  BY <1>6, <1>7 DEF Run!Branch
<1>9. Images(E) # {} <=> E # {}
  BY DEF Images
<1>10. OriginalAt' = IF found THEN OriginalAt + 1
                     ELSE IF Original!Branches(OriginalAt, "ELSE") # {}
                          THEN Original!Min(Original!Branches(OriginalAt, "ELSE")) + 1
                     ELSE Original!EndOf(OriginalAt) + 1
  <2>1. CASE found
    BY <1>2, <1>8, <2>1
  <2>2. CASE ~found /\ E # {}
    <3>1. PICK m : m = Run!Min(E) /\ m \in E /\ Original!Min(Images(E)) = TextPieces(m)
      BY <1>5, <1>6, <2>2, ImageEnds
    <3>2. m \in 1..N /\ TextAt(m)
      BY <1>6, <3>1 DEF Texts
    <3>3. Image(m + 1) = TextPieces(m) + 1
      BY <1>5, <3>2, ImageIs
    <3>4. OriginalAt' = TextPieces(m) + 1
      BY <1>2, <1>8, <2>2, <3>1, <3>3
    <3> QED
      BY <1>6, <1>9, <2>2, <3>1, <3>4
  <2>3. CASE ~found /\ E = {}
    <3>1. Image(e + 1) = TextPieces(e) + 1
      BY <1>5, <1>7, ImageIs
    <3>2. OriginalAt' = TextPieces(e) + 1
      BY <1>2, <1>8, <2>3, <3>1
    <3> QED
      BY <1>6, <1>7, <1>9, <2>3, <3>2
  <2> QED
    BY <2>1, <2>2, <2>3
<1>11. UNCHANGED <<found, pending, saved, done, delivered, outcome>>
  BY DEF Run!Branch
<1> QED
  BY <1>3, <1>4, <1>10, <1>11 DEF Original!Branch, OriginalAt, WithoutPending

LEMMA SkipPlaced ==
    ASSUME Settled, Nested, outcome = "running", at \in 1..N, TextAt(at)
    PROVE  Run!SkipOtherPart => Original!SkipOtherPart
<1> SUFFICES ASSUME Run!SkipOtherPart PROVE Original!SkipOtherPart
  OBVIOUS
<1>1. PICK x, t : Here(x, t)
  BY HereIs DEF Settled
<1>2. OriginalAt = x /\ x = TextPieces(at) /\ \A a : a = at' => OriginalAt' = Image(a)
  BY <1>1, ImageMoves DEF Here
<1>3. saved' = saved /\ WithoutPending(saved)' = WithoutPending(saved)
  BY DEF WithoutPending, Run!SkipOtherPart
<1>4. Original!At({"ELSE", "EXCEPTION"})
  BY <1>1 DEF Here, Run!SkipOtherPart, Run!At, Tok
<1>5. Whole /\ N \in Nat /\ D(at) >= 1
  <2>1. Tok(at) \in {"ELSE", "EXCEPTION"}
    BY DEF Run!SkipOtherPart, Run!At, Tok
  <2> QED
    BY <2>1, OpenDepth DEF Settled, Nested
<1>6. PICK e \in 1..N : /\ e = Run!EndOf(at) /\ TextAt(e) /\ Original!EndOf(OriginalAt) = TextPieces(e)
  BY <1>2, <1>5, Closing0
<1>7. Image(e) = TextPieces(e)
  BY <1>5, <1>6, ImageIs
<1>8. at' = e /\ UNCHANGED <<found, kept, pending, saved, done, delivered, ran, outcome>>
  BY <1>6 DEF Run!SkipOtherPart
<1>9. OriginalAt' = Original!EndOf(OriginalAt)
  BY <1>2, <1>6, <1>7, <1>8
<1> QED
  BY <1>3, <1>4, <1>8, <1>9 DEF Original!SkipOtherPart, OriginalAt, WithoutPending

LEMMA ExitPlaced ==
    ASSUME Settled, Nested, outcome = "running", at \in 1..N, TextAt(at)
    PROVE  Run!ExitLoop => Original!ExitLoop
<1> SUFFICES ASSUME Run!ExitLoop PROVE Original!ExitLoop
  OBVIOUS
<1>1. PICK x, t : Here(x, t)
  BY HereIs DEF Settled
<1>2. /\ OriginalAt = x /\ x = TextPieces(at) /\ (at' = at + 1 => OriginalAt' = x + 1)
      /\ \A a : a = at' => OriginalAt' = Image(a)
  BY <1>1, ImageMoves DEF Here
<1>3. saved' = saved /\ WithoutPending(saved)' = WithoutPending(saved)
  BY DEF WithoutPending, Run!ExitLoop
<1>4. Original!At({"EXIT"}) /\ Original!Runs
  <2>1. Run!At({"EXIT"}) /\ Run!Runs
    BY DEF Run!ExitLoop
  <2> QED
    BY <1>1, <2>1 DEF Here, Run!At, Tok, Run!Runs, Original!Runs
<1>5. Whole /\ N \in Nat /\ Tok(at) = "EXIT"
  BY DEF Settled, Nested, Run!ExitLoop, Run!At, Tok
<1>6. Loops \in SUBSET Run!Opens
  BY DEF Loops, Run!Opens
<1>7. PICK A : A = Run!Around(at, Loops) /\ A \in SUBSET Texts /\ Original!Around(OriginalAt, Loops) = Images(A)
  BY <1>2, <1>5, <1>6, AroundPlaced
<1>8. A # {}
  BY <1>5, <1>7, LoopAround
<1>9. PICK c : c = Run!Max(A) /\ c \in A /\ Original!Max(Images(A)) = TextPieces(c)
  BY <1>5, <1>7, <1>8, ImageEnds
<1>10. c \in 1..N /\ TextAt(c) /\ Tok(c) \in Run!Opens
  BY <1>6, <1>7, <1>9 DEF Texts, Run!Around, Tok
<1>11. D(c) >= 1
  BY <1>10, OpenDepth
<1>12. PICK e \in 1..N : /\ e = Run!EndOf(c) /\ TextAt(e) /\ Original!EndOf(TextPieces(c)) = TextPieces(e)
  BY <1>5, <1>10, <1>11, Closing0
<1>13. Image(e + 1) = TextPieces(e) + 1
  BY <1>5, <1>12, ImageIs
<1>14. at' = IF found THEN e + 1 ELSE at + 1
  BY <1>7, <1>9, <1>12 DEF Run!ExitLoop, Loops
<1>15. OriginalAt' = IF found THEN Original!EndOf(Original!Max(Original!Around(OriginalAt, Loops))) + 1
                     ELSE OriginalAt + 1
  <2>1. CASE found
    BY <1>2, <1>7, <1>9, <1>12, <1>13, <1>14, <2>1
  <2>2. CASE ~found
    BY <1>2, <1>14, <2>2
  <2> QED
    BY <2>1, <2>2
<1>16. UNCHANGED <<found, pending, saved, done, delivered, outcome>>
  BY DEF Run!ExitLoop
<1> QED
  BY <1>3, <1>4, <1>15, <1>16 DEF Original!ExitLoop, OriginalAt, WithoutPending, Loops

LEMMA EndPlaced ==
    ASSUME Settled, Nested, outcome = "running", at \in 1..N, TextAt(at)
    PROVE  Run!ReachEnd => Original!ReachEnd
<1> SUFFICES ASSUME Run!ReachEnd PROVE Original!ReachEnd
  OBVIOUS
<1>1. PICK x, t : Here(x, t)
  BY HereIs DEF Settled
<1>2. /\ OriginalAt = x /\ x = TextPieces(at) /\ x \in 1..M
      /\ (at' = at + 1 => OriginalAt' = x + 1) /\ (at' = at => OriginalAt' = x)
      /\ \A a : a = at' => OriginalAt' = Image(a)
  BY <1>1, ImageMoves DEF Here
<1>3. saved' = saved /\ WithoutPending(saved)' = WithoutPending(saved)
  BY DEF WithoutPending, Run!ReachEnd
<1>4. Original!At({"END"})
  BY <1>1 DEF Here, Run!ReachEnd, Run!At, Tok
<1>5. Whole /\ N \in Nat /\ M \in Nat /\ Tok(at) = "END"
  BY Places DEF Settled, Run!ReachEnd, Run!At, Tok
<1>6. PICK A : A = {q \in 1..(at - 1) : Tok(q) \in Run!Opens /\ Run!EndOf(q) = at}
  OBVIOUS
<1>7. PICK B : B = {y \in 1..(OriginalAt - 1) : OTok(y) \in Run!Opens /\ Original!EndOf(y) = OriginalAt}
  OBVIOUS
<1>8. A \in SUBSET Texts
  <2> SUFFICES ASSUME NEW q \in A PROVE q \in Texts
    OBVIOUS
  <2>1. q \in 1..N /\ Tok(q) \in Run!Opens
    BY <1>5, <1>6
  <2>2. Tok(q) # "signal"
    BY <2>1 DEF Run!Opens
  <2> QED
    BY <1>5, <2>1, <2>2, TokenPlaced DEF Texts
<1>9. A # {}
  <2>1. PICK q \in 1..N : q < at /\ Tok(q) \in Run!Opens /\ Run!EndOf(q) = at
    BY <1>5, OpenerExists
  <2>2. q \in 1..(at - 1)
    BY <1>5, <2>1
  <2> QED
    BY <1>6, <2>1, <2>2
<1>10. ASSUME NEW q \in 1..N, TextAt(q) PROVE q \in A <=> TextPieces(q) \in B
  <2>1. TextPieces(q) \in 1..M /\ OTok(TextPieces(q)) = Tok(q)
    BY <1>5, <1>10, TokenPlaced
  <2>2. q < at <=> TextPieces(q) < x
    BY <1>2, <1>5, <1>10, OrderedPlaces
  <2>3. q \in 1..(at - 1) <=> q < at
    BY <1>5
  <2>4. TextPieces(q) \in 1..(x - 1) <=> TextPieces(q) < x
    <3>1. PICK z : z = TextPieces(q) /\ z \in 1..M
      BY <2>1
    <3>2. z \in 1..(x - 1) <=> z < x
      BY <1>2, <1>5, <3>1
    <3> QED
      BY <3>1, <3>2
  <2>5. Tok(q) \in Run!Opens => (Run!EndOf(q) = at <=> Original!EndOf(TextPieces(q)) = x)
    <3> SUFFICES ASSUME Tok(q) \in Run!Opens
                 PROVE  Run!EndOf(q) = at <=> Original!EndOf(TextPieces(q)) = x
      OBVIOUS
    <3>1. D(q) >= 1
      BY OpenDepth
    <3>2. PICK e \in 1..N : /\ e = Run!EndOf(q) /\ TextAt(e) /\ Original!EndOf(TextPieces(q)) = TextPieces(e)
      BY <1>5, <1>10, <3>1, Closing0
    <3>3. e = at <=> TextPieces(e) = TextPieces(at)
      BY <1>5, <3>2, OrderedPlaces
    <3> QED
      BY <1>2, <3>2, <3>3
  <2> QED
    BY <1>2, <1>6, <1>7, <2>1, <2>2, <2>3, <2>4, <2>5
<1>11. B = Images(A)
  <2>1. ASSUME NEW y \in B PROVE y \in Images(A)
    <3>1. y \in 1..M
      BY <1>2, <1>5, <1>7
    <3>2. PICK q \in 1..N : TextAt(q) /\ TextPieces(q) = y
      BY <1>5, <3>1, TokenPlaced
    <3> QED
      BY <1>10, <2>1, <3>2 DEF Images
  <2>2. ASSUME NEW q \in A PROVE TextPieces(q) \in B
    <3>1. q \in 1..N /\ TextAt(q)
      BY <1>8 DEF Texts
    <3> QED
      BY <1>10, <3>1
  <2> QED
    BY <2>1, <2>2 DEF Images
<1>12. PICK c : c = Run!Max(A) /\ c \in A /\ Original!Max(B) = TextPieces(c)
  BY <1>5, <1>8, <1>9, <1>11, ImageEnds
<1>13. c \in 1..N /\ TextAt(c)
  BY <1>8, <1>12 DEF Texts
<1>14. Image(c) = TextPieces(c) /\ OTok(TextPieces(c)) = Tok(c)
  BY <1>5, <1>13, ImageIs, TokenPlaced
<1>15. OD(x) = D(at)
  <2>1. at \in 0..N
    BY <1>5
  <2> QED
    BY <1>2, <1>5, <2>1, DepthPlaced
<1>16. /\ IF Tok(c) \in {"LOOP", "WHILE"} THEN at' = c /\ UNCHANGED outcome
          ELSE IF D(at) > 0 THEN at' = at + 1 /\ UNCHANGED outcome
          ELSE outcome' = "returned" /\ UNCHANGED at
       /\ UNCHANGED <<found, kept, pending, saved, done, delivered, ran>>
  BY <1>6, <1>12 DEF Run!ReachEnd, Tok, D
<1>17. IF OTok(Original!Max(B)) \in {"LOOP", "WHILE"} THEN OriginalAt' = Original!Max(B) /\ UNCHANGED outcome
       ELSE IF OD(OriginalAt) > 0 THEN OriginalAt' = OriginalAt + 1 /\ UNCHANGED outcome
       ELSE outcome' = "returned" /\ OriginalAt' = OriginalAt
  <2>1. CASE Tok(c) \in {"LOOP", "WHILE"}
    BY <1>2, <1>12, <1>14, <1>16, <2>1
  <2>2. CASE Tok(c) \notin {"LOOP", "WHILE"} /\ D(at) > 0
    BY <1>2, <1>12, <1>14, <1>15, <1>16, <2>2
  <2>3. CASE Tok(c) \notin {"LOOP", "WHILE"} /\ ~(D(at) > 0)
    BY <1>2, <1>12, <1>14, <1>15, <1>16, <2>3
  <2> QED
    BY <2>1, <2>2, <2>3
<1>18. Original!Opens = Run!Opens
  BY DEF Original!Opens, Run!Opens
<1> QED
  BY <1>3, <1>4, <1>7, <1>16, <1>17, <1>18
     DEF Original!ReachEnd, OriginalAt, WithoutPending, OTok, OD

-----------------------------------------------------------------------------
(* The refinement                                                           *)

\* What the refinement needs beyond SInv.
RInv ==
    /\ SInv /\ SavedOK
    /\ outcome = "idle" => at = 0
    /\ outcome # "idle" => Levelled

LEMMA SavedStays ==
    ASSUME SavedOK, OneStep
    PROVE  SavedOK'
<1>1. CASE saved' = saved
  BY <1>1 DEF SavedOK
<1>2. CASE Enters
  <2>1. PICK k : saved' = [saved EXCEPT ![k] = [kept |-> kept, pending |-> pending]]
    BY <1>2 DEF Enters
  <2>2. DOMAIN saved' = DOMAIN saved
    BY <2>1
  <2>3. ASSUME NEW i \in DOMAIN saved
        PROVE  saved'[i] = [kept |-> saved'[i].kept, pending |-> saved'[i].pending]
    <3>1. saved'[i] = IF i = k THEN [kept |-> kept, pending |-> pending] ELSE saved[i]
      BY <2>1
    <3>2. PICK a, b : saved[i] = [kept |-> a, pending |-> b]
      BY DEF SavedOK
    <3>3. PICK a1, b1 : saved'[i] = [kept |-> a1, pending |-> b1]
      BY <3>1, <3>2
    <3> QED
      BY <3>3
  <2> QED
    BY <2>2, <2>3 DEF SavedOK
<1> QED
  BY <1>1, <1>2 DEF OneStep, Sends, Ran, Moves, RollsBack, Aborts, Ends0, Returns, Commits

LEMMA SameLevels ==
    ASSUME UNCHANGED <<kind, body, written, locations>>
    PROVE  Levelled' <=> Levelled
<1>1. N' = N /\ \A x : Tok(x)' = Tok(x)
  BY SameMatching
<1> QED
  BY <1>1 DEF Levelled

LEMMA RInvInit == Init => RInv
<1> SUFFICES ASSUME Init PROVE RInv
  OBVIOUS
<1>1. saved = <<>> /\ at = 0 /\ outcome = "idle"
  BY DEF Init
<1>2. SavedOK
  BY <1>1 DEF SavedOK
<1> QED
  BY <1>1, <1>2, SInvInit DEF RInv

\* What a step of the call is about.
LEMMA Calling ==
    ASSUME RInv, CallLast
    PROVE  /\ Whole /\ Settled /\ PiecesOK /\ N \in Nat /\ Run!CallStep /\ UNCHANGED vars
           /\ UNCHANGED <<kind, body, written, locations>>
           /\ outcome # "idle" => /\ Fit /\ Levelled
                                  /\ DOMAIN saved = DOMAIN body
                                  /\ \A b \in 1..N : written[b][2] \in DOMAIN saved
           /\ outcome = "running" => at \in 1..(N + 1)
<1>1. Loaded /\ statements # <<>> /\ Instrumented /\ Run!CallStep /\ UNCHANGED vars
  BY DEF CallLast
<1>2. StatementOK /\ FileOK /\ CallOK /\ pc = "done"
  BY <1>1 DEF RInv, SInv, FileOK
<1>3. PiecesOK /\ Written
  BY <1>1, <1>2, GoodOrder
<1>4. N \in Nat /\ DOMAIN body = 1..Len(body) /\ \A p \in 1..N : written[p][2] \in 1..Len(body)
  BY <1>3, Pieces
<1>5. UNCHANGED <<kind, body, written, locations>>
  BY <1>1 DEF vars, result
<1>6. Whole
  BY <1>1, <1>2, <1>3 DEF Whole, Written, StatementOK, WInv, Behind, M
<1>7. outcome # "idle" => Fit /\ Levelled /\ DOMAIN saved = DOMAIN body
  BY <1>2 DEF RInv, CallOK
<1>8. outcome = "running" => at \in 1..(N + 1)
  BY <1>2 DEF CallOK
<1> QED
  BY <1>1, <1>3, <1>4, <1>5, <1>6, <1>7, <1>8 DEF Settled

LEMMA CallLevels ==
    ASSUME PiecesOK, Run!Accepted
    PROVE  Levelled
<1>1. CASE kind = "sql"
  BY <1>1, AcceptedSqlTokens, SqlLevelled DEF Run!Accepted
<1>2. CASE kind # "sql"
  BY <1>2, AcceptedLevelled DEF Run!Accepted
<1> QED
  BY <1>1, <1>2

LEMMA NotCalling ==
    ASSUME Run!CallStep, ~Run!Call
    PROVE  outcome # "idle"
<1>1. CASE Run!TestCommits \/ Run!TestRollsBack
  BY <1>1 DEF Run!TestCommits, Run!TestRollsBack
<1>2. CASE ~(Run!TestCommits \/ Run!TestRollsBack)
  BY <1>2 DEF Run!CallStep, Run!SendSignal, Run!Pass, Run!EnterBlock, Run!RunStatement, Run!RunDiagnostics,
              Run!RaiseNotice, Run!RaiseException, Run!StatementFails, Run!Branch, Run!SkipOtherPart,
              Run!ExitLoop, Run!ReachEnd, Run!ReachEndOfSQL, Run!Return, Run!CommitInside, Run!At
<1> QED
  BY <1>1, <1>2

LEMMA RInvNext == RInv /\ [Next]_<<fileVars, vars, callVars>> => RInv'
<1> SUFFICES ASSUME RInv, [Next]_<<fileVars, vars, callVars>> PROVE RInv'
  OBVIOUS
<1>1. SInv'
  BY SInvNext DEF RInv
<1>2. CASE CallLast
  <2>1. /\ PiecesOK /\ N \in Nat /\ Run!CallStep
        /\ UNCHANGED <<kind, body, written, locations>>
        /\ outcome # "idle" => Fit /\ Levelled
        /\ outcome = "running" => at \in 1..(N + 1)
    BY <1>2, Calling
  <2>2. CASE Run!Call
    <3>1. Run!Accepted /\ outcome' = "running" /\ saved' = [i \in DOMAIN body |-> [kept |-> {}, pending |-> {}]]
      BY <2>2 DEF Run!Call
    <3>2. SavedOK'
      BY <3>1 DEF SavedOK
    <3>3. Levelled'
      BY <2>1, <3>1, CallLevels, SameLevels
    <3> QED
      BY <1>1, <3>1, <3>2, <3>3 DEF RInv
  <2>3. CASE ~Run!Call
    <3>1. outcome # "idle"
      BY <2>1, <2>3, NotCalling
    <3>2. OneStep \/ Run!TestCommits \/ Run!TestRollsBack
      BY <2>1, <2>3, <3>1, RunSteps, JumpSteps DEF Run!CallStep
    <3>3. SavedOK' /\ outcome' # "idle"
      <4>1. CASE OneStep
        BY <2>1, <4>1, SavedStays, StepMoves DEF RInv
      <4>2. CASE Run!TestCommits \/ Run!TestRollsBack
        BY <4>2 DEF Run!TestCommits, Run!TestRollsBack, RInv, SavedOK
      <4> QED
        BY <3>2, <4>1, <4>2
    <3>4. Levelled'
      BY <2>1, <3>1, SameLevels
    <3> QED
      BY <1>1, <3>3, <3>4 DEF RInv
  <2> QED
    BY <2>2, <2>3
<1>3. CASE ~CallLast
  <2>1. UNCHANGED <<at, saved, outcome>>
    BY <1>3 DEF Next, InstrumentStatement, FinishStatement, Finished, callVars
  <2>2. SavedOK'
    BY <2>1 DEF RInv, SavedOK
  <2>3. outcome # "idle" => Levelled'
    <3> SUFFICES ASSUME outcome # "idle" PROVE Levelled'
      OBVIOUS
    <3>1. Loaded
      BY DEF RInv, SInv, CallOK
    <3>2. UNCHANGED vars
      BY <1>3, <3>1 DEF Next, InstrumentStatement, FinishStatement, Finished
    <3>3. UNCHANGED <<kind, body, written, locations>>
      BY <3>2 DEF vars, result
    <3> QED
      BY <3>3, SameLevels DEF RInv
  <2> QED
    BY <1>1, <2>1, <2>2, <2>3 DEF RInv
<1> QED
  BY <1>2, <1>3

LEMMA RefinesInit == Init => Original!CallInit
<1> SUFFICES ASSUME Init PROVE Original!CallInit
  OBVIOUS
<1>1. /\ at = 0 /\ found = FALSE /\ kept = {} /\ saved = <<>>
      /\ done = {} /\ ran = {} /\ outcome = "idle"
  BY DEF Init
<1>2. [i \in DOMAIN saved |-> [saved[i] EXCEPT !.pending = {}]] = <<>>
  BY <1>1
<1> QED
  BY <1>1, <1>2 DEF Original!CallInit

LEMMA CallPlaced ==
    ASSUME RInv, CallLast, Run!Call
    PROVE  Original!Call
<1>1. Whole /\ Settled
  BY Calling
<1>2. /\ outcome = "idle" /\ outcome' = "running" /\ Run!Accepted /\ at' = 1
      /\ saved' = [i \in DOMAIN body |-> [kept |-> {}, pending |-> {}]]
      /\ UNCHANGED <<found, kept, pending, done, delivered, ran>>
  BY DEF Run!Call
<1>3. Original!Accepted
  BY <1>1, <1>2, OriginalAccepts
<1>4. OriginalAt' = 1
  <2>1. Image(1) = TextPieces(1 - 1) + 1 /\ TextPieces(0) = 0
    BY <1>1, Places DEF Image
  <2>2. Image(1) = 1
    BY <2>1
  <2> QED
    BY <1>1, <1>2, <2>2, ImageMoves
<1>5. WithoutPending(saved)' = [i \in DOMAIN body |-> [kept |-> {}, pending |-> {}]]
  <2>1. WithoutPending(saved)' = [i \in DOMAIN saved' |-> [saved'[i] EXCEPT !.pending = {}]]
    BY DEF WithoutPending
  <2>2. DOMAIN saved' = DOMAIN body /\ \A i \in DOMAIN body : saved'[i] = [kept |-> {}, pending |-> {}]
    BY <1>2
  <2>3. [[kept |-> {}, pending |-> {}] EXCEPT !.pending = {}] = [kept |-> {}, pending |-> {}]
    OBVIOUS
  <2> QED
    BY <2>1, <2>2, <2>3
<1> QED
  BY <1>2, <1>3, <1>4, <1>5 DEF Original!Call, OriginalAt, WithoutPending

\* A signal is not noticed.
LEMMA SignalPlaced ==
    ASSUME Settled, outcome = "running", at \in 1..N, Tok(at) = "signal", Run!SendSignal
    PROVE  UNCHANGED Original!callVars
<1>1. Whole /\ N \in Nat /\ ~TextAt(at)
  BY Places, TokenPlaced DEF Settled
<1>2. Image(at + 1) = Image(at)
  BY <1>1, ImageIs
<1>3. at' = at + 1 /\ UNCHANGED <<found, kept, saved, done, delivered, ran, outcome>>
  BY DEF Run!SendSignal
<1>4. OriginalAt' = OriginalAt
  BY <1>2, <1>3, ImageMoves
<1>5. WithoutPending(saved)' = WithoutPending(saved)
  BY <1>3 DEF WithoutPending
<1> QED
  BY <1>3, <1>4, <1>5 DEF Original!callVars, OriginalAt, WithoutPending

LEMMA EndOfSqlPlaced ==
    ASSUME Settled, at \in 1..(N + 1), Run!ReachEndOfSQL
    PROVE  Original!ReachEndOfSQL
<1>1. Whole /\ N \in Nat /\ M \in Nat /\ TextPieces(N) = M /\ Len(Text(1, Len(body))) = M
  BY Places, TokenPlaced DEF Settled
<1>2. /\ outcome = "running" /\ at > N /\ outcome' = "returned"
      /\ UNCHANGED <<at, found, kept, pending, saved, done, delivered, ran>>
  BY DEF Run!ReachEndOfSQL, N
<1>3. at = N + 1 /\ at # 0 /\ at - 1 = N
  BY <1>1, <1>2
<1>4. OriginalAt = M + 1
  BY <1>1, <1>3 DEF OriginalAt
<1>5. OriginalAt' = OriginalAt
  BY <1>2, ImageMoves
<1>6. WithoutPending(saved)' = WithoutPending(saved)
  BY <1>2 DEF WithoutPending
<1>7. OriginalAt > Len(Text(1, Len(body)))
  BY <1>1, <1>4
<1> QED
  BY <1>2, <1>5, <1>6, <1>7 DEF Original!ReachEndOfSQL, OriginalAt, WithoutPending

LEMMA TestPlaced ==
    ASSUME Settled
    PROVE  /\ Run!TestCommits => Original!TestCommits
           /\ Run!TestRollsBack => Original!TestRollsBack
<1>1. at' = at => OriginalAt' = OriginalAt
  BY ImageMoves
<1>2. saved' = saved => WithoutPending(saved)' = WithoutPending(saved)
  BY DEF WithoutPending
<1>3. ASSUME Run!TestCommits PROVE Original!TestCommits
  BY <1>1, <1>2, <1>3 DEF Run!TestCommits, Original!TestCommits, OriginalAt, WithoutPending
<1>4. ASSUME Run!TestRollsBack PROVE Original!TestRollsBack
  BY <1>1, <1>2, <1>4 DEF Run!TestRollsBack, Original!TestRollsBack, OriginalAt, WithoutPending
<1> QED
  BY <1>3, <1>4

LEMMA StepPlaced ==
    ASSUME RInv, CallLast
    PROVE  Original!CallStep \/ UNCHANGED Original!callVars
<1>1. /\ Whole /\ Settled /\ N \in Nat /\ Run!CallStep
      /\ outcome # "idle" => /\ Fit /\ Levelled
                             /\ \A b \in 1..N : written[b][2] \in DOMAIN saved
      /\ outcome = "running" => at \in 1..(N + 1)
  BY Calling
<1>2. CASE Run!Call
  BY <1>2, CallPlaced DEF Original!CallStep
<1>3. CASE Run!TestCommits \/ Run!TestRollsBack
  BY <1>1, <1>3, TestPlaced DEF Original!CallStep
<1>4. CASE Run!ReachEndOfSQL
  <2>1. at \in 1..(N + 1)
    BY <1>1, <1>4 DEF Run!ReachEndOfSQL
  <2> QED
    BY <1>1, <1>4, <2>1, EndOfSqlPlaced DEF Original!CallStep
<1>5. CASE Run!SendSignal
  <2>1. Run!At({"signal"})
    BY <1>5 DEF Run!SendSignal
  <2>2. at \in 1..N /\ Tok(at) \in {"signal"} /\ outcome = "running"
    BY <1>1, <2>1, AtToken
  <2> QED
    BY <1>1, <1>5, <2>2, SignalPlaced
<1>6. CASE \/ Run!Pass \/ Run!RunStatement \/ Run!RunDiagnostics \/ Run!Return
           \/ Run!RaiseNotice \/ Run!RaiseException \/ Run!StatementFails \/ Run!CommitInside
           \/ Run!EnterBlock
  <2>1. Run!At({";", "COMMENT", "NOTICE", "DECLARE", "LOOP", "word", "DIAGNOSTICS", "RETURN", "RAISE",
                "COMMIT", "BEGIN"})
    BY <1>6 DEF Run!Pass, Run!RunStatement, Run!RunDiagnostics, Run!Return, Run!RaiseNotice,
                Run!RaiseException, Run!StatementFails, Run!CommitInside, Run!EnterBlock, Run!At
  <2>2. at \in 1..N /\ Tok(at) # "signal" /\ outcome = "running"
    <3>1. /\ at \in 1..N /\ outcome = "running"
          /\ Tok(at) \in {";", "COMMENT", "NOTICE", "DECLARE", "LOOP", "word", "DIAGNOSTICS", "RETURN", "RAISE",
                         "COMMIT", "BEGIN"}
      BY <1>1, <2>1, AtToken
    <3> QED
      BY <3>1
  <2>3. TextAt(at)
    BY <1>1, <2>2, TokenPlaced
  <2>4. SavedOK
    BY DEF RInv
  <2> QED
    BY <1>1, <1>6, <2>2, <2>3, <2>4, StepsPlaced, ErrorsPlaced DEF Original!CallStep
<1>7. CASE Run!Branch \/ Run!SkipOtherPart \/ Run!ExitLoop \/ Run!ReachEnd
  <2>1. Run!At({"IF", "WHILE", "ELSE", "EXCEPTION", "EXIT", "END"})
    BY <1>7 DEF Run!Branch, Run!SkipOtherPart, Run!ExitLoop, Run!ReachEnd, Run!At
  <2>2. at \in 1..N /\ Tok(at) \in {"IF", "WHILE", "ELSE", "EXCEPTION", "EXIT", "END"} /\ outcome = "running"
    BY <1>1, <2>1, AtToken
  <2>3. TextAt(at)
    BY <1>1, <2>2, TokenPlaced
  <2>4. Nested
    <3>1. ~SqlTokens
      BY <2>2 DEF SqlTokens
    <3> QED
      BY <1>1, <2>2, <3>1 DEF Fit
  <2> QED
    BY <1>1, <1>7, <2>2, <2>3, <2>4, BranchPlaced, SkipPlaced, ExitPlaced, EndPlaced DEF Original!CallStep
<1> QED
  BY <1>1, <1>2, <1>3, <1>4, <1>5, <1>6, <1>7 DEF Run!CallStep

LEMMA RefinesNext ==
    RInv /\ [Next]_<<fileVars, vars, callVars>> => [Original!CallStep]_(Original!callVars)
<1> SUFFICES ASSUME RInv, [Next]_<<fileVars, vars, callVars>>
             PROVE  Original!CallStep \/ UNCHANGED Original!callVars
  OBVIOUS
<1>1. CASE CallLast
  BY <1>1, StepPlaced
<1>2. CASE ~CallLast
  <2>1. UNCHANGED <<at, found, kept, pending, saved, done, delivered, ran, outcome>>
    BY <1>2 DEF Next, InstrumentStatement, FinishStatement, Finished, callVars
  <2>2. OriginalAt' = OriginalAt
    <3>1. CASE outcome = "idle"
      <4>1. at = 0 /\ at' = 0
        BY <2>1, <3>1 DEF RInv
      <4> QED
        BY <4>1 DEF OriginalAt
    <3>2. CASE outcome # "idle"
      <4>1. Loaded
        BY <3>2 DEF RInv, SInv, CallOK
      <4>2. UNCHANGED vars
        BY <1>2, <4>1 DEF Next, InstrumentStatement, FinishStatement, Finished
      <4>3. written' = written
        BY <4>2 DEF vars, result
      <4> QED
        BY <2>1, <4>3, ImageStays
    <3> QED
      BY <3>1, <3>2
  <2>3. WithoutPending(saved)' = WithoutPending(saved)
    BY <2>1 DEF WithoutPending
  <2> QED
    BY <2>1, <2>2, <2>3 DEF Original!callVars, OriginalAt, WithoutPending
<1> QED
  BY <1>1, <1>2

\* Instrumenting does not change what a function does, whatever its body is: what is done
\* by the instrumented one, its signals aside, is done by the original, step by step.
THEOREM InstrumentingChangesNothing == Spec => ImplementsOriginal
<1>1. Spec => []RInv
  BY RInvInit, RInvNext, PTL DEF Spec
<1> QED
  BY <1>1, RefinesInit, RefinesNext, PTL DEF Spec, ImplementsOriginal, Original!CallSpec

-----------------------------------------------------------------------------
(* Where the tokens of a statement are in its text, and statements in a file *)

\* What atoms are: the characters of delimiters are listed, as the provers do not know
\* that a literal is a string.
Letters == STRING \cup {"$", "'", "E"}

LEMMA DelimitersTyped ==
    ASSUME NEW q \in {"$$", "'", "E'"}
    PROVE  /\ Opening(q) \in Seq(Letters) /\ Closing(q) \in Seq(Letters)
           /\ Len(Opening(q)) >= 1
<1>1. PICK A : A = Letters
  OBVIOUS
<1>2. "$" \in A /\ "'" \in A /\ "E" \in A
  BY <1>1 DEF Letters
<1>3. \A x, y \in A : <<x, y>> \in Seq(A) /\ <<x>> \in Seq(A) /\ Len(<<x, y>>) = 2 /\ Len(<<x>>) = 1
  OBVIOUS
<1>4. Opening("$$") = <<"$", "$">> /\ Closing("$$") = <<"$", "$">>
  BY DEF Opening, Closing
<1>5. Opening("'") = <<"'">> /\ Closing("'") = <<"'">>
  BY DEF Opening, Closing
<1>6. Opening("E'") = <<"E", "'">> /\ Closing("E'") = <<"'">>
  BY DEF Opening, Closing
<1>7. \A r \in {"$$", "'", "E'"} : Opening(r) \in Seq(A) /\ Closing(r) \in Seq(A) /\ Len(Opening(r)) >= 1
  <2>1. \A x, y \in A : Len(<<x, y>>) >= 1 /\ Len(<<x>>) >= 1
    BY <1>3
  <2>2. Opening("$$") \in Seq(A) /\ Closing("$$") \in Seq(A) /\ Len(Opening("$$")) >= 1
    BY <1>2, <1>3, <1>4, <2>1
  <2>3. Opening("'") \in Seq(A) /\ Closing("'") \in Seq(A) /\ Len(Opening("'")) >= 1
    BY <1>2, <1>3, <1>5, <2>1
  <2>4. Opening("E'") \in Seq(A) /\ Closing("E'") \in Seq(A) /\ Len(Opening("E'")) >= 1
    BY <1>2, <1>3, <1>6, <2>1
  <2> QED
    BY <2>2, <2>3, <2>4
<1> QED
  BY <1>1, <1>7

LEMMA InLetters ==
    ASSUME NEW b \in Seq(STRING)
    PROVE  b \in Seq(Letters)
<1>1. PICK L \in Nat : L = Len(b) /\ b \in [1..L -> STRING]
  BY LenProperties
<1>2. b \in [1..L -> Letters]
  BY <1>1 DEF Letters
<1> QED
  BY <1>2, IsASeq

\* A token is at least one atom, and a constant has what it quotes behind its delimiter.
LEMMA AtomsTyped ==
    ASSUME NEW t \in Tokens
    PROVE  /\ Atoms(t) \in Seq(Letters) /\ Len(Atoms(t)) \in Nat /\ Len(Atoms(t)) >= 1
           /\ Len(t.inner) \in Nat
           /\ IsConstant(t) =>
                 /\ Len(Opening(t.quote)) \in Nat
                 /\ Len(Opening(t.quote)) + Len(t.inner) <= Len(Atoms(t))
                 /\ \A j \in 1..Len(t.inner) : Atoms(t)[Len(Opening(t.quote)) + j] = t.inner[j]
<1>1. t.text \in STRING /\ t.inner \in Seq(STRING \ {"signal"}) /\ t.quote \in {"", "$$", "'", "E'"}
  BY DEF Tokens
<1>2. t.inner \in Seq(Letters) /\ Len(t.inner) \in Nat
  <2>1. t.inner \in Seq(STRING)
    BY <1>1, InnerTyped DEF BodyTyped
  <2> QED
    BY <2>1, InLetters, LenProperties
<1>3. CASE IsConstant(t)
  <2>1. PICK a, b, c : a = Opening(t.quote) /\ b = t.inner /\ c = Closing(t.quote)
    OBVIOUS
  <2>2. t.quote \in {"$$", "'", "E'"}
    BY <1>1, <1>3 DEF IsConstant
  <2>3. a \in Seq(Letters) /\ b \in Seq(Letters) /\ c \in Seq(Letters) /\ Len(a) >= 1
    BY <1>2, <2>1, <2>2, DelimitersTyped
  <2>4. Atoms(t) = (a \o b) \o c
    BY <1>3, <2>1 DEF Atoms
  <2>5. PICK ab : ab = a \o b
    OBVIOUS
  <2>6. /\ ab \in Seq(Letters) /\ Len(a) \in Nat /\ Len(b) \in Nat /\ Len(ab) = Len(a) + Len(b)
        /\ \A i \in 1..Len(b) : ab[Len(a) + i] = b[i]
    BY <2>3, <2>5, JoinedTwo
  <2>7. /\ Atoms(t) \in Seq(Letters) /\ Len(c) \in Nat /\ Len(Atoms(t)) = Len(ab) + Len(c)
        /\ \A i \in 1..Len(ab) : Atoms(t)[i] = ab[i]
    BY <2>3, <2>4, <2>5, <2>6, JoinedTwo
  <2>8. Len(Atoms(t)) \in Nat /\ Len(Atoms(t)) >= 1 /\ Len(a) + Len(b) <= Len(Atoms(t))
    BY <2>3, <2>6, <2>7
  <2>9. ASSUME NEW j \in 1..Len(b) PROVE Atoms(t)[Len(a) + j] = b[j]
    <3>1. Len(a) + j \in 1..Len(ab)
      BY <2>6
    <3>2. Atoms(t)[Len(a) + j] = ab[Len(a) + j]
      BY <2>7, <3>1
    <3> QED
      BY <2>6, <3>2
  <2> QED
    BY <1>2, <2>1, <2>6, <2>7, <2>8, <2>9
<1>4. CASE ~IsConstant(t)
  <2>1. Atoms(t) = <<t.text>>
    BY <1>4 DEF Atoms
  <2>2. <<t.text>> \in Seq(Letters) /\ Len(<<t.text>>) = 1
    <3>1. \A A, x : x \in A => <<x>> \in Seq(A) /\ Len(<<x>>) = 1
      OBVIOUS
    <3>2. t.text \in Letters
      BY <1>1 DEF Letters
    <3> QED
      BY <3>1, <3>2
  <2>3. Len(Atoms(t)) = 1 /\ Atoms(t) \in Seq(Letters)
    BY <2>1, <2>2
  <2>4. Len(Atoms(t)) \in Nat /\ Len(Atoms(t)) >= 1
    BY <2>3
  <2> QED
    BY <1>2, <1>4, <2>3, <2>4
<1> QED
  BY <1>3, <1>4

\* The tokens of a statement, and the statements of a file, as sequences of atoms.
AtomsOf(tokens) == [i \in DOMAIN tokens |-> Atoms(tokens[i])]
RawsOf(f) == [g \in DOMAIN f |-> RawText(f[g])]

LEMMA RawTextIs ==
    ASSUME NEW tokens \in Seq(Tokens)
    PROVE  /\ AtomsOf(tokens) \in Seq(Seq(Letters)) /\ Len(AtomsOf(tokens)) = Len(tokens)
           /\ RawText(tokens) = FlattenSeq(AtomsOf(tokens))
           /\ \A m \in 0..Len(tokens) : RawText(SubSeq(tokens, 1, m)) = JoinedTo(AtomsOf(tokens), m)
<1>1. PICK L \in Nat : L = Len(tokens) /\ DOMAIN tokens = 1..L
  BY LenProperties
<1>2. PICK a : a = AtomsOf(tokens)
  OBVIOUS
<1>3. a = [i \in 1..L |-> Atoms(tokens[i])]
  BY <1>1, <1>2 DEF AtomsOf
<1>4. \A i \in 1..L : Atoms(tokens[i]) \in Seq(Letters)
  <2>1. \A i \in 1..L : tokens[i] \in Tokens
    BY <1>1, ElementOfSeq
  <2> QED
    BY <2>1, AtomsTyped
<1>5. a \in Seq(Seq(Letters)) /\ Len(a) = L
  <2>1. a \in [1..L -> Seq(Letters)]
    BY <1>3, <1>4
  <2>2. a \in Seq(Seq(Letters))
    BY <2>1, IsASeq
  <2>3. DOMAIN a = 1..L /\ DOMAIN a = 1..Len(a) /\ Len(a) \in Nat
    BY <1>3, <2>2, LenProperties
  <2> QED
    BY <1>1, <2>2, <2>3
<1>6. RawText(tokens) = FlattenSeq(a)
  BY <1>2 DEF RawText, AtomsOf
<1>7. ASSUME NEW m \in 0..L
      PROVE  RawText(SubSeq(tokens, 1, m)) = JoinedTo(a, m)
  <2>1. PICK t : t = SubSeq(tokens, 1, m)
    OBVIOUS
  <2>2. DOMAIN t = 1..m /\ \A i \in 1..m : t[i] = tokens[i]
    BY <1>1, <2>1, Prefix
  <2>3. PICK u : u = SubSeq(a, 1, m)
    OBVIOUS
  <2>4. u \in Seq(Seq(Letters)) /\ DOMAIN u = 1..m /\ \A i \in 1..m : u[i] = a[i]
    BY <1>5, <2>3, Prefix
  <2>5. u = [i \in 1..m |-> u[i]]
    BY <2>4, LenProperties
  <2>6. \A i \in 1..m : u[i] = Atoms(t[i])
    <3>1. \A i \in 1..m : i \in 1..L
      BY <1>1
    <3> QED
      BY <1>3, <2>2, <2>4, <3>1
  <2>7. u = [i \in DOMAIN t |-> Atoms(t[i])]
    BY <2>2, <2>5, <2>6
  <2> QED
    BY <2>1, <2>3, <2>7 DEF RawText, JoinedTo
<1> QED
  BY <1>1, <1>2, <1>5, <1>6, <1>7

LEMMA RawTextTyped ==
    ASSUME NEW tokens \in Seq(Tokens)
    PROVE  /\ RawText(tokens) \in Seq(Letters) /\ Len(RawText(tokens)) \in Nat
           /\ tokens # <<>> => Len(RawText(tokens)) >= 1
<1>1. PICK a \in Seq(Seq(Letters)) : a = AtomsOf(tokens) /\ Len(a) = Len(tokens) /\ RawText(tokens) = FlattenSeq(a)
  BY RawTextIs
<1>2. RawText(tokens) \in Seq(Letters) /\ Len(RawText(tokens)) \in Nat
  BY <1>1, Flattened, LenProperties
<1>3. ASSUME tokens # <<>> PROVE Len(RawText(tokens)) >= 1
  <2>1. Len(tokens) \in Nat /\ Len(tokens) >= 1
    BY <1>3, LenProperties, EmptySeq
  <2>2. 1 \in 1..Len(a) /\ 1 + 1 \in 1..(Len(a) + 1) /\ Len(a) + 1 \in 1..(Len(a) + 1) /\ 1 + 1 <= Len(a) + 1
    BY <1>1, <2>1
  <2>3. StartIn(a, 1 + 1) = StartIn(a, 1) + Len(a[1]) /\ StartIn(a, 1) = 0
    BY <1>1, <2>2, StartsIn
  <2>4. StartIn(a, 1 + 1) <= StartIn(a, Len(a) + 1) /\ StartIn(a, Len(a) + 1) = Len(FlattenSeq(a))
    BY <1>1, <2>2, StartsIn
  <2>5. Len(a[1]) \in Nat /\ Len(a[1]) >= 1
    <3>1. 1 \in DOMAIN tokens /\ tokens[1] \in Tokens
      BY <2>1, LenProperties, ElementOfSeq
    <3>2. a[1] = Atoms(tokens[1])
      BY <1>1, <3>1 DEF AtomsOf
    <3> QED
      BY <3>1, <3>2, AtomsTyped
  <2> QED
    BY <1>1, <1>2, <2>3, <2>4, <2>5
<1> QED
  BY <1>2, <1>3

LEMMA FileTextIs ==
    ASSUME NEW f \in Seq(Seq(Tokens))
    PROVE  /\ RawsOf(f) \in Seq(Seq(Letters)) /\ Len(RawsOf(f)) = Len(f)
           /\ FileText(f) = FlattenSeq(RawsOf(f))
           /\ \A m \in 0..Len(f) : FileText(SubSeq(f, 1, m)) = JoinedTo(RawsOf(f), m)
<1>1. PICK L \in Nat : L = Len(f) /\ DOMAIN f = 1..L
  BY LenProperties
<1>2. PICK a : a = RawsOf(f)
  OBVIOUS
<1>3. a = [i \in 1..L |-> RawText(f[i])]
  BY <1>1, <1>2 DEF RawsOf
<1>4. \A i \in 1..L : RawText(f[i]) \in Seq(Letters)
  <2>1. \A i \in 1..L : f[i] \in Seq(Tokens)
    BY <1>1, ElementOfSeq
  <2> QED
    BY <2>1, RawTextTyped
<1>5. a \in Seq(Seq(Letters)) /\ Len(a) = L
  <2>1. a \in [1..L -> Seq(Letters)]
    BY <1>3, <1>4
  <2>2. a \in Seq(Seq(Letters))
    BY <2>1, IsASeq
  <2>3. DOMAIN a = 1..L /\ DOMAIN a = 1..Len(a) /\ Len(a) \in Nat
    BY <1>3, <2>2, LenProperties
  <2> QED
    BY <1>1, <2>2, <2>3
<1>6. FileText(f) = FlattenSeq(a)
  BY <1>2 DEF FileText, RawsOf
<1>7. ASSUME NEW m \in 0..L
      PROVE  FileText(SubSeq(f, 1, m)) = JoinedTo(a, m)
  <2>1. PICK t : t = SubSeq(f, 1, m)
    OBVIOUS
  <2>2. DOMAIN t = 1..m /\ \A i \in 1..m : t[i] = f[i]
    BY <1>1, <2>1, Prefix
  <2>3. PICK u : u = SubSeq(a, 1, m)
    OBVIOUS
  <2>4. u \in Seq(Seq(Letters)) /\ DOMAIN u = 1..m /\ \A i \in 1..m : u[i] = a[i]
    BY <1>5, <2>3, Prefix
  <2>5. u = [i \in 1..m |-> u[i]]
    BY <2>4, LenProperties
  <2>6. \A i \in 1..m : u[i] = RawText(t[i])
    <3>1. \A i \in 1..m : i \in 1..L
      BY <1>1
    <3> QED
      BY <1>3, <2>2, <2>4, <3>1
  <2>7. u = [i \in DOMAIN t |-> RawText(t[i])]
    BY <2>2, <2>5, <2>6
  <2> QED
    BY <2>1, <2>3, <2>7 DEF FileText, JoinedTo
<1> QED
  BY <1>1, <1>2, <1>5, <1>6, <1>7

\* Statement k of a file is group g of its tokens.
Made(f, k, g) ==
    /\ g \in DOMAIN f /\ g \in Meant(f)
    /\ SplitAndClassify(f)[k] = Statement(f[g], StartIn(RawsOf(f), g))

LEMMA MadeOfGroups ==
    ASSUME NEW f \in Files
    PROVE  /\ \A k \in DOMAIN SplitAndClassify(f) : \E g : Made(f, k, g)
           /\ \A g \in Meant(f) : \E k \in DOMAIN SplitAndClassify(f) : Made(f, k, g)
           /\ \A k, l \in DOMAIN SplitAndClassify(f) : k < l => \E g, h : g < h /\ Made(f, k, g) /\ Made(f, l, h)
<1>1. PICK groups : groups = Pick(Groups(f), Meant(f))
  OBVIOUS
<1>2. f \in Seq(Seq(Tokens)) /\ Picked({Groups(f)[g] : g \in DOMAIN f}, groups, Groups(f), Meant(f), Len(f))
  BY <1>1, StatementsAre
<1>3. PICK L \in Nat : L = Len(f) /\ DOMAIN f = 1..L
  BY <1>2, LenProperties
<1>4. PICK ss : ss = SplitAndClassify(f)
  OBVIOUS
<1>5. ss = [k \in DOMAIN groups |-> Statement(groups[k].tokens, groups[k].start)]
  BY <1>1, <1>4, StatementsAre
<1>6. ASSUME NEW g \in 1..L
      PROVE  Groups(f)[g].tokens = f[g] /\ Groups(f)[g].start = StartIn(RawsOf(f), g)
  <2>1. Groups(f)[g] = [tokens |-> f[g], start |-> Len(FileText(SubSeq(f, 1, g - 1)))]
    BY <1>3 DEF Groups
  <2>2. g - 1 \in 0..L
    OBVIOUS
  <2>3. FileText(SubSeq(f, 1, g - 1)) = JoinedTo(RawsOf(f), g - 1)
    BY <1>2, <1>3, <2>2, FileTextIs
  <2> QED
    BY <2>1, <2>3 DEF StartIn
<1>7. ASSUME NEW k \in DOMAIN groups, NEW g \in 1..L, g \in Meant(f), groups[k] = Groups(f)[g]
      PROVE  Made(f, k, g)
  <2>1. ss[k] = Statement(f[g], StartIn(RawsOf(f), g))
    BY <1>5, <1>6, <1>7
  <2> QED
    BY <1>3, <1>4, <1>7, <2>1 DEF Made
<1>8. /\ \A k \in DOMAIN groups : \E g \in 1..L : g \in Meant(f) /\ groups[k] = Groups(f)[g]
      /\ \A g \in 1..L : g \in Meant(f) => \E k \in DOMAIN groups : groups[k] = Groups(f)[g]
      /\ \A k, l \in DOMAIN groups : k < l =>
             \E g, h \in 1..L : g < h /\ g \in Meant(f) /\ h \in Meant(f)
                                /\ groups[k] = Groups(f)[g] /\ groups[l] = Groups(f)[h]
  BY <1>2, <1>3 DEF Picked
<1>9. DOMAIN ss = DOMAIN groups /\ Meant(f) \subseteq 1..L
  BY <1>3, <1>5 DEF Meant
<1>10. \A k \in DOMAIN ss : \E g : Made(f, k, g)
  BY <1>7, <1>8, <1>9
<1>11. \A g \in Meant(f) : \E k \in DOMAIN ss : Made(f, k, g)
  BY <1>7, <1>8, <1>9
<1>12. \A k, l \in DOMAIN ss : k < l => \E g, h : g < h /\ Made(f, k, g) /\ Made(f, l, h)
  <2> SUFFICES ASSUME NEW k \in DOMAIN groups, NEW l \in DOMAIN groups, k < l
               PROVE  \E g, h : g < h /\ Made(f, k, g) /\ Made(f, l, h)
    BY <1>9
  <2>1. PICK g \in 1..L, h \in 1..L : /\ g < h /\ g \in Meant(f) /\ h \in Meant(f)
                                    /\ groups[k] = Groups(f)[g] /\ groups[l] = Groups(f)[h]
    BY <1>8
  <2> QED
    BY <1>7, <2>1
<1> QED
  BY <1>4, <1>10, <1>11, <1>12

\* Where a body is in the text of its statement.
BodyInPlace(b, raw) ==
    /\ b.bodyStart \in Nat /\ Len(b.body) \in Nat /\ b.bodyStart + Len(b.body) <= Len(raw)
    /\ \A j \in 1..Len(b.body) : raw[b.bodyStart + j] = b.body[j]

LEMMA UnquotedInPlace ==
    ASSUME NEW tokens \in Seq(Tokens), NEW x \in DOMAIN tokens, IsConstant(tokens[x])
    PROVE  BodyInPlace(UnquoteString(Positioned(tokens)[x]), RawText(tokens))
<1>1. PICK L \in Nat : L = Len(tokens) /\ DOMAIN tokens = 1..L /\ x \in 1..L
  BY LenProperties
<1>2. PICK a \in Seq(Seq(Letters)) :
          a = AtomsOf(tokens) /\ Len(a) = L /\ RawText(tokens) = FlattenSeq(a)
          /\ \A m \in 0..L : RawText(SubSeq(tokens, 1, m)) = JoinedTo(a, m)
  BY <1>1, RawTextIs
<1>3. PICK t \in Tokens : t = tokens[x] /\ IsConstant(t)
  BY <1>1, ElementOfSeq
<1>4. a[x] = Atoms(t)
  BY <1>2, <1>3 DEF AtomsOf
<1>5. PICK s : s = StartIn(a, x)
  OBVIOUS
<1>6. PICK o : o = Len(Opening(t.quote))
  OBVIOUS
<1>7. UnquoteString(Positioned(tokens)[x]).body = t.inner /\ UnquoteString(Positioned(tokens)[x]).bodyStart = s + o
  <2>1. x - 1 \in 0..L
    BY <1>1
  <2>2. Positioned(tokens)[x] = [token |-> t, pos |-> s]
    BY <1>2, <1>3, <1>5, <2>1 DEF Positioned, StartIn
  <2>3. Positioned(tokens)[x].token = t /\ Positioned(tokens)[x].pos = s
    BY <2>2
  <2> QED
    BY <1>6, <2>3 DEF UnquoteString
<1>8. /\ Len(t.inner) \in Nat /\ o \in Nat /\ o + Len(t.inner) <= Len(Atoms(t)) /\ Len(Atoms(t)) \in Nat
      /\ \A j \in 1..Len(t.inner) : Atoms(t)[o + j] = t.inner[j]
  BY <1>3, <1>6, AtomsTyped
<1>9. s \in Nat /\ s + Len(Atoms(t)) <= Len(RawText(tokens)) /\ Len(RawText(tokens)) \in Nat
  <2>1. x \in 1..(L + 1) /\ x + 1 \in 1..(L + 1) /\ L + 1 \in 1..(L + 1) /\ x + 1 <= L + 1
    BY <1>1
  <2>2. s \in Nat /\ StartIn(a, x + 1) = s + Len(Atoms(t))
    BY <1>1, <1>2, <1>4, <1>5, <2>1, StartsIn
  <2>3. StartIn(a, x + 1) <= StartIn(a, L + 1) /\ StartIn(a, L + 1) = Len(RawText(tokens))
    BY <1>2, <2>1, StartsIn
  <2>4. Len(RawText(tokens)) \in Nat
    BY RawTextTyped
  <2> QED
    BY <1>8, <2>2, <2>3, <2>4
<1>10. ASSUME NEW j \in 1..Len(t.inner)
       PROVE  RawText(tokens)[(s + o) + j] = t.inner[j]
  <2>1. PICK i : i = o + j
    OBVIOUS
  <2>2. i \in 1..Len(Atoms(t)) /\ (s + o) + j = s + i
    BY <1>8, <1>9, <2>1
  <2>3. FlattenSeq(a)[s + i] = a[x][i]
    BY <1>1, <1>2, <1>4, <1>5, <2>2, Flattened
  <2>4. Atoms(t)[i] = t.inner[j]
    BY <1>8, <2>1
  <2> QED
    BY <1>2, <1>4, <2>2, <2>3, <2>4
<1>11. s + o \in Nat /\ (s + o) + Len(t.inner) <= Len(RawText(tokens))
  <2>1. PICK c \in Nat, d \in Nat, e \in Nat : c = Len(t.inner) /\ d = Len(Atoms(t)) /\ e = Len(RawText(tokens))
    BY <1>8, <1>9
  <2>2. s \in Nat /\ o \in Nat /\ o + c <= d /\ s + d <= e
    BY <1>8, <1>9, <2>1
  <2>3. s + o \in Nat /\ (s + o) + c <= e
    BY ONLY <2>2, c \in Nat, d \in Nat, e \in Nat
  <2> QED
    BY <2>1, <2>3
<1> QED
  BY <1>7, <1>8, <1>10, <1>11 DEF BodyInPlace

\* The significant tokens, each of them one of the statement's.
LEMMA SignificantAre ==
    ASSUME NEW tokens \in Seq(Tokens)
    PROVE  /\ Len(Significant(tokens)) \in Nat /\ DOMAIN Significant(tokens) = 1..Len(Significant(tokens))
           /\ \A i \in DOMAIN Significant(tokens) :
                  \E x \in DOMAIN tokens : Significant(tokens)[i] = Positioned(tokens)[x]
           /\ \A i \in DOMAIN Significant(tokens) : Significant(tokens)[i].token \in Tokens
<1>1. PICK sig : sig = Significant(tokens)
  OBVIOUS
<1>2. sig \in Seq({Positioned(tokens)[i] : i \in DOMAIN tokens})
  BY <1>1, SignificantTokens
<1>3. Len(sig) \in Nat /\ DOMAIN sig = 1..Len(sig)
  BY <1>2, LenProperties
<1>4. \A i \in DOMAIN sig : sig[i] \in {Positioned(tokens)[x] : x \in DOMAIN tokens}
  BY <1>2, <1>3, ElementOfSeq
<1>5. \A i \in DOMAIN sig : sig[i].token \in Tokens
  BY <1>1, SignificantTokens
<1> QED
  BY <1>1, <1>3, <1>4, <1>5

LEMMA BodyOfInPlace ==
    ASSUME NEW tokens \in Seq(Tokens), NEW type
    PROVE  BodyInPlace(BodyOf(type, Significant(tokens)), RawText(tokens))
<1>1. PICK sig : sig = Significant(tokens)
  OBVIOUS
<1>2. PICK L \in Nat : L = Len(sig) /\ DOMAIN sig = 1..L
  BY <1>1, SignificantAre
<1>3. BodyInPlace(NoBody, RawText(tokens))
  <2>1. Len(RawText(tokens)) \in Nat
    BY RawTextTyped
  <2>2. NoBody.body = <<>> /\ NoBody.bodyStart = 0 /\ Len(<<>>) = 0
    BY EmptySeq DEF NoBody
  <2> QED
    BY <2>1, <2>2 DEF BodyInPlace
<1>4. ASSUME NEW i \in DOMAIN sig, IsConstant(sig[i].token)
      PROVE  BodyInPlace(UnquoteString(sig[i]), RawText(tokens))
  <2>1. PICK x \in DOMAIN tokens : sig[i] = Positioned(tokens)[x]
    BY <1>1, <1>4, SignificantAre
  <2>2. sig[i].token = tokens[x]
    BY <2>1 DEF Positioned
  <2> QED
    BY <1>4, <2>1, <2>2, UnquotedInPlace
<1>5. CASE type = "do"
  <2>1. PICK places : places = {i \in 2..Len(sig) : IsConstant(sig[i].token)}
    OBVIOUS
  <2>2. BodyOf(type, sig) = IF places = {} THEN NoBody ELSE UnquoteString(sig[Min(places)])
    BY <1>5, <2>1 DEF BodyOf, ExtractDOBody
  <2>3. places # {} => Min(places) \in DOMAIN sig /\ IsConstant(sig[Min(places)].token)
    <3>1. places \in SUBSET Nat /\ \A i \in places : i \in 1..L /\ IsConstant(sig[i].token)
      BY <1>2, <2>1
    <3> QED
      BY <1>2, <3>1, LeastMember
  <2> QED
    BY <1>1, <1>3, <1>4, <2>2, <2>3
<1>6. CASE type \in {"function", "procedure"}
  <2>1. PICK places : places = {i \in 1..(Len(sig) - 1) : IsIdent(sig, i, "AS") /\ IsConstant(sig[i + 1].token)}
    OBVIOUS
  <2>2. BodyOf(type, sig) = IF places = {} THEN NoBody ELSE UnquoteString(sig[Min(places) + 1])
    BY <1>6, <2>1 DEF BodyOf, ExtractBody
  <2>3. places # {} => Min(places) + 1 \in DOMAIN sig /\ IsConstant(sig[Min(places) + 1].token)
    <3>1. places \in SUBSET Nat /\ \A i \in places : i + 1 \in 1..L /\ IsConstant(sig[i + 1].token)
      BY <1>2, <2>1
    <3> QED
      BY <1>2, <3>1, LeastMember
  <2> QED
    BY <1>1, <1>3, <1>4, <2>2, <2>3
<1>7. CASE type \notin {"do", "function", "procedure"}
  BY <1>1, <1>3, <1>7 DEF BodyOf
<1> QED
  BY <1>5, <1>6, <1>7

\* The atoms of statement k of a file.
EndPos(s) == s.startPos + Len(s.raw)
Span(s) == s.startPos..(EndPos(s) - 1)

LEMMA StatementInPlace ==
    ASSUME NEW f \in Files, NEW k, NEW g, Made(f, k, g),
           NEW s, s = SplitAndClassify(f)[k]
    PROVE  /\ s.startPos \in Nat /\ s.raw \in Seq(Letters) /\ Len(s.raw) \in Nat /\ Len(s.raw) >= 1
           /\ s.startPos = StartIn(RawsOf(f), g) /\ EndPos(s) = StartIn(RawsOf(f), g + 1)
           /\ EndPos(s) <= Len(FileText(f)) /\ Len(FileText(f)) \in Nat /\ FileText(f) \in Seq(Letters)
           /\ \A j \in 1..Len(s.raw) : FileText(f)[s.startPos + j] = s.raw[j]
           /\ BodyInPlace(s, s.raw)
           /\ g \in Nat /\ f[g] \in Seq(Tokens) /\ s.raw = RawText(f[g])
           /\ s.body = BodyOf(s.type, Significant(f[g])).body /\ s.type = ClassifyTokens(Significant(f[g]))
<1>1. f \in Seq(Seq(Tokens))
  BY StatementsAre
<1>2. PICK L \in Nat : L = Len(f) /\ DOMAIN f = 1..L
  BY <1>1, LenProperties
<1>3. g \in 1..L /\ s = Statement(f[g], StartIn(RawsOf(f), g))
  BY <1>2 DEF Made
<1>4. PICK tokens \in Seq(Tokens) : tokens = f[g]
  BY <1>1, <1>2, <1>3, ElementOfSeq
<1>5. PICK sig, type, body0 :
          sig = Significant(tokens) /\ type = ClassifyTokens(sig) /\ body0 = BodyOf(type, sig)
  OBVIOUS
<1>6. /\ s.startPos = StartIn(RawsOf(f), g) /\ s.raw = RawText(tokens) /\ s.type = type
      /\ s.body = body0.body /\ s.bodyStart = body0.bodyStart
  <2>1. PICK start : start = StartIn(RawsOf(f), g)
    OBVIOUS
  <2>2. PICK language : language = IF type = "other" THEN "" ELSE LanguageOf(type, sig)
    OBVIOUS
  <2>3. Statement(tokens, start) =
            [raw |-> RawText(tokens), startPos |-> start, type |-> type, language |-> language,
             body |-> body0.body, bodyStart |-> body0.bodyStart]
    BY <1>5, <2>2 DEF Statement
  <2>4. s = Statement(tokens, start)
    BY <1>3, <1>4, <2>1
  <2> QED
    BY <2>1, <2>3, <2>4
<1>7. tokens # <<>>
  BY <1>3, <1>2, <1>4, FilesAssumption
<1>8. s.raw \in Seq(Letters) /\ Len(s.raw) \in Nat /\ Len(s.raw) >= 1
  BY <1>4, <1>6, <1>7, RawTextTyped
<1>9. PICK a \in Seq(Seq(Letters)) : a = RawsOf(f) /\ Len(a) = L /\ FileText(f) = FlattenSeq(a)
  BY <1>1, <1>2, FileTextIs
<1>10. a[g] = s.raw
  BY <1>2, <1>3, <1>4, <1>6, <1>9 DEF RawsOf
<1>11. g \in 1..(L + 1) /\ g + 1 \in 1..(L + 1) /\ L + 1 \in 1..(L + 1) /\ g + 1 <= L + 1
  BY <1>3
<1>12. StartIn(a, g) \in Nat /\ StartIn(a, g + 1) = StartIn(a, g) + Len(s.raw)
  BY <1>3, <1>9, <1>10, <1>11, StartsIn
<1>13. StartIn(a, g + 1) <= StartIn(a, L + 1) /\ StartIn(a, L + 1) = Len(FileText(f))
  BY <1>9, <1>11, StartsIn
<1>14. FileText(f) \in Seq(Letters) /\ Len(FileText(f)) \in Nat
  BY <1>9, Flattened, LenProperties
<1>15. \A j \in 1..Len(s.raw) : FileText(f)[StartIn(a, g) + j] = s.raw[j]
  <2>1. \A i \in 1..Len(a) : \A j \in 1..Len(a[i]) : FlattenSeq(a)[StartIn(a, i) + j] = a[i][j]
    BY Flattened
  <2>2. g \in 1..Len(a)
    BY <1>3, <1>9
  <2> QED
    BY <1>9, <1>10, <2>1, <2>2
<1>16. BodyInPlace(s, s.raw)
  <2>1. BodyInPlace(body0, RawText(tokens))
    BY <1>4, <1>5, BodyOfInPlace
  <2> QED
    BY <1>6, <2>1 DEF BodyInPlace
<1>17. EndPos(s) = StartIn(RawsOf(f), g + 1) /\ EndPos(s) <= Len(FileText(f))
  BY <1>6, <1>9, <1>12, <1>13 DEF EndPos
<1> QED
  BY <1>3, <1>4, <1>5, <1>6, <1>8, <1>9, <1>12, <1>14, <1>15, <1>16, <1>17

\* The statements of a file do not overlap.
LEMMA StatementsApart ==
    ASSUME NEW f \in Files, NEW k \in DOMAIN SplitAndClassify(f), NEW l \in DOMAIN SplitAndClassify(f), k < l
    PROVE  EndPos(SplitAndClassify(f)[k]) <= SplitAndClassify(f)[l].startPos
<1>1. PICK g, h : g < h /\ Made(f, k, g) /\ Made(f, l, h)
  BY MadeOfGroups
<1>2. EndPos(SplitAndClassify(f)[k]) = StartIn(RawsOf(f), g + 1) /\ g \in Nat
  BY <1>1, StatementInPlace
<1>3. SplitAndClassify(f)[l].startPos = StartIn(RawsOf(f), h) /\ h \in Nat
  BY <1>1, StatementInPlace
<1>4. f \in Seq(Seq(Tokens)) /\ Len(RawsOf(f)) = Len(f) /\ RawsOf(f) \in Seq(Seq(Letters))
  BY StatementsAre, FileTextIs
<1>5. g \in 1..Len(f) /\ h \in 1..Len(f) /\ Len(f) \in Nat
  BY <1>1, <1>4, LenProperties DEF Made
<1>6. g + 1 \in 1..(Len(f) + 1) /\ h \in 1..(Len(f) + 1) /\ g + 1 <= h
  BY <1>1, <1>5
<1>7. StartIn(RawsOf(f), g + 1) <= StartIn(RawsOf(f), h)
  BY <1>4, <1>6, StartsIn
<1> QED
  BY <1>2, <1>3, <1>7

-----------------------------------------------------------------------------
(* What is written, in order                                                *)

LEMMA CopiedInOrder ==
    ASSUME NEW from \in Nat, NEW to \in Nat, from <= to
    PROVE  /\ InOrder(Copied(from, to), from, to)
           /\ \A x : <<"text", x>> \in PiecesOf(Copied(from, to)) <=> x \in from..(to - 1)
           /\ \A x : <<"signal", x>> \notin PiecesOf(Copied(from, to))
<1>1. PICK u : u = Copied(from, to)
  OBVIOUS
<1>2. PICK L \in Nat : L = to - from
  OBVIOUS
<1>3. u = [i \in 1..L |-> <<"text", from + i - 1>>]
  BY <1>1, <1>2 DEF Copied
<1>4. \A i \in 1..L : from + i - 1 \in Nat /\ from <= from + i - 1 /\ from + i - 1 < to
  BY <1>2
<1>5. DOMAIN u = 1..L /\ \A i \in 1..L : u[i] = <<"text", from + i - 1>>
  BY <1>3
<1>6. \A i \in 1..L : u[i][1] = "text" /\ u[i][2] = from + i - 1
  BY <1>5
<1>7. u \in Seq(Sorts \X Nat)
  <2>1. \A i \in 1..L : u[i] \in Sorts \X Nat
    <3>1. \A o \in Nat : <<"text", o>> \in Sorts \X Nat
      BY DEF Sorts
    <3> QED
      BY <1>4, <1>5, <3>1
  <2>2. u \in [1..L -> Sorts \X Nat]
    BY <1>3, <1>5, <2>1
  <2> QED
    BY <1>2, <2>2, IsASeq
<1>8. \A p \in DOMAIN u : from <= u[p][2] /\ u[p][2] < to
  BY <1>4, <1>5, <1>6
<1>9. \A p, q \in DOMAIN u : p < q => u[p][2] < u[q][2]
  <2>1. \A p, q \in 1..L : p < q => from + p - 1 < from + q - 1
    OBVIOUS
  <2> QED
    BY <1>5, <1>6, <2>1
<1>10. InOrder(u, from, to)
  BY <1>7, <1>8, <1>9 DEF InOrder
<1>11. ASSUME NEW x \in from..(to - 1) PROVE <<"text", x>> \in PiecesOf(u)
  <2>1. PICK i \in 1..L : i = x - from + 1 /\ from + i - 1 = x
    BY <1>2
  <2> QED
    BY <1>5, <2>1 DEF PiecesOf
<1>12. ASSUME NEW x, <<"text", x>> \in PiecesOf(u) PROVE x \in from..(to - 1)
  <2>1. PICK i \in 1..L : <<"text", x>> = u[i]
    BY <1>5, <1>12 DEF PiecesOf
  <2>2. x = from + i - 1
    BY <1>5, <2>1
  <2> QED
    BY <1>4, <2>2
<1>13. ASSUME NEW x, <<"signal", x>> \in PiecesOf(u) PROVE FALSE
  <2>1. PICK i \in 1..L : <<"signal", x>> = u[i]
    BY <1>5, <1>13 DEF PiecesOf
  <2> QED
    BY <1>5, <2>1
<1> QED
  BY <1>1, <1>10, <1>11, <1>12, <1>13

\* The signals among the pieces are those of the executable points.
Signalled(u, s) ==
    \A x : <<"signal", x>> \in PiecesOf(u) <=> \E i \in DOMAIN s : ~s[i].implicit /\ s[i].start = x

\* What the instrumenter has made of a statement.
Output ==
    /\ InOrder(written, 1, Len(body) + 1)
    /\ \A x : <<"text", x>> \in PiecesOf(written) <=> x \in 1..Len(body)
    /\ Rising(locations, 1, Len(body) + 1)
    /\ \A i \in DOMAIN locations : EndOfPoint(locations[i]) <= Len(body) + 1
    /\ Signalled(written, locations)

LEMMA InstrumentedOutput ==
    ASSUME IInv, WInv, pc = "done"
    PROVE  Output
<1>1. BodyOK /\ TextsOK /\ PointsOK /\ SignalsOK /\ lastWritten = Len(body)
  BY DEF IInv, WInv, Behind
<1>2. PICK L \in Nat : L = Len(body)
  BY <1>1, LenProperties DEF BodyOK
<1>3. written \in Seq({"text", "signal"} \X (1..L))
  BY <1>1, <1>2 DEF TextsOK
<1>4. PICK W \in Nat : W = Len(written) /\ DOMAIN written = 1..W
  BY <1>3, LenProperties
<1>5. \A p \in DOMAIN written : /\ written[p][1] \in {"text", "signal"} /\ written[p][2] \in 1..L
                                /\ written[p] = <<written[p][1], written[p][2]>>
  BY <1>2, <1>3, PiecesTyped
<1>6. written \in Seq(Sorts \X Nat)
  <2>1. \A p \in 1..W : written[p] \in Sorts \X Nat
    <3>1. \A p \in 1..W : written[p][1] \in Sorts /\ written[p][2] \in Nat /\ written[p] = <<written[p][1], written[p][2]>>
      BY <1>2, <1>4, <1>5 DEF Sorts
    <3>2. \A a \in Sorts, b \in Nat : <<a, b>> \in Sorts \X Nat
      OBVIOUS
    <3> QED
      BY <3>1, <3>2
  <2>2. written = [p \in 1..W |-> written[p]]
    BY <1>3, <1>4, LenProperties
  <2>3. written \in [1..W -> Sorts \X Nat]
    BY <2>1, <2>2
  <2> QED
    BY <1>4, <2>3, IsASeq
<1>7. \A p \in DOMAIN written : 1 <= written[p][2] /\ written[p][2] < L + 1
  BY <1>2, <1>5
<1>8. ASSUME NEW p \in DOMAIN written, NEW q \in DOMAIN written, p < q, written[p][1] = written[q][1]
      PROVE  written[p][2] < written[q][2]
  <2>1. CASE written[p][1] = "text"
    BY <1>1, <1>8, <2>1 DEF TextsOK, IsText
  <2>2. CASE written[p][1] # "text"
    <3>1. ~IsText(p) /\ ~IsText(q)
      BY <1>8, <2>2 DEF IsText
    <3> QED
      BY <1>1, <1>8, <3>1 DEF SignalsOK
  <2> QED
    BY <2>1, <2>2
<1>9. InOrder(written, 1, L + 1)
  BY <1>6, <1>7, <1>8 DEF InOrder
<1>10. ASSUME NEW x
       PROVE  <<"text", x>> \in PiecesOf(written) <=> x \in 1..L
  <2>1. ASSUME <<"text", x>> \in PiecesOf(written) PROVE x \in 1..L
    <3>1. PICK p \in DOMAIN written : <<"text", x>> = written[p]
      BY <2>1 DEF PiecesOf
    <3>2. written[p][2] = x
      BY <3>1
    <3> QED
      BY <1>5, <3>2
  <2>2. ASSUME x \in 1..L PROVE <<"text", x>> \in PiecesOf(written)
    <3>1. PICK p \in DOMAIN written : written[p] = <<"text", x>>
      BY <1>1, <1>2, <2>2 DEF TextsOK
    <3> QED
      BY <3>1 DEF PiecesOf
  <2> QED
    BY <2>1, <2>2
<1>11. ASSUME NEW i \in DOMAIN locations
       PROVE  /\ locations[i].start \in Nat /\ locations[i].length \in Int
              /\ locations[i].start >= 1 /\ locations[i].length >= 1 /\ ~locations[i].implicit
              /\ EndOfPoint(locations[i]) = locations[i].start + locations[i].length
              /\ EndOfPoint(locations[i]) <= L + 1
              /\ 1 <= locations[i].start /\ locations[i].start < L + 1
  <2>1. /\ locations[i].start \in Nat /\ locations[i].length \in Int
        /\ EndOfPoint(locations[i]) = locations[i].start + locations[i].length
    BY <1>1, PointFields
  <2>2. /\ locations[i].start >= 1 /\ locations[i].length >= 1 /\ ~locations[i].implicit
        /\ EndOfPoint(locations[i]) <= L + 1
    BY <1>1, <1>2 DEF PointsOK
  <2> QED
    BY <1>2, <2>1, <2>2
<1>12. ASSUME NEW i \in DOMAIN locations, NEW j \in DOMAIN locations, i < j
       PROVE  locations[i].start < locations[j].start
  <2>1. EndOfPoint(locations[i]) <= locations[j].start
    BY <1>1, <1>12 DEF PointsOK
  <2> QED
    BY <1>11, <2>1
<1>13. Rising(locations, 1, L + 1)
  <2>1. locations \in Seq(Located)
    BY <1>1 DEF BodyOK, Located
  <2> QED
    BY <1>11, <1>12, <2>1 DEF Rising
<1>14. ASSUME NEW x
       PROVE  <<"signal", x>> \in PiecesOf(written)
                  <=> \E i \in DOMAIN locations : ~locations[i].implicit /\ locations[i].start = x
  <2>1. ASSUME <<"signal", x>> \in PiecesOf(written)
        PROVE  \E i \in DOMAIN locations : ~locations[i].implicit /\ locations[i].start = x
    <3>1. PICK p \in DOMAIN written : <<"signal", x>> = written[p]
      BY <2>1 DEF PiecesOf
    <3>2. ~IsText(p)
      BY <3>1 DEF IsText
    <3>3. PICK i \in DOMAIN locations : written[p] = <<"signal", locations[i].start>>
      BY <1>1, <3>2 DEF SignalsOK, Placed
    <3>4. locations[i].start = x
      BY <3>1, <3>3
    <3> QED
      BY <1>11, <3>4
  <2>2. ASSUME NEW i \in DOMAIN locations, locations[i].start = x
        PROVE  <<"signal", x>> \in PiecesOf(written)
    <3>1. PICK p \in DOMAIN written : written[p] = <<"signal", locations[i].start>>
      BY <1>1 DEF SignalsOK
    <3> QED
      BY <2>2, <3>1 DEF PiecesOf
  <2> QED
    BY <2>1, <2>2
<1>15. Signalled(written, locations)
  BY <1>14 DEF Signalled
<1> QED
  BY <1>2, <1>9, <1>10, <1>11, <1>13, <1>15 DEF Output

\* A statement that is not instrumented is one point, and its text.
MarkedOK ==
    ~Instrumented =>
        \/ pc = "scan"
        \/ /\ pc = "done"
           /\ written = Text(1, Len(body))
           /\ locations = <<[start |-> 1, length |-> Len(body), implicit |-> TRUE]>>

LEMMA MarkedOutput ==
    ASSUME MarkedOK, ~Instrumented, pc = "done", NEW L \in Nat, L = Len(body), L >= 1
    PROVE  Output
<1>1. PICK l : l = [start |-> 1, length |-> L, implicit |-> TRUE]
  OBVIOUS
<1>2. written = Text(1, L) /\ locations = <<l>>
  BY <1>1 DEF MarkedOK
<1>3. /\ written \in Seq({"text", "signal"} \X (1..L))
      /\ Len(written) = L - 1 + 1
      /\ \A i \in 1..(L - 1 + 1) : written[i] = <<"text", 1 + i - 1>>
  <2>1. 1 \in Nat /\ 1 >= 1 /\ L <= L /\ 1 <= L + 1
    OBVIOUS
  <2> QED
    BY <1>2, <2>1, TextTyped
<1>4. L - 1 + 1 = L /\ \A i \in 1..L : 1 + i - 1 = i
  OBVIOUS
<1>5. DOMAIN written = 1..L /\ \A i \in 1..L : written[i] = <<"text", i>>
  BY <1>3, <1>4, LenProperties
<1>6. \A i \in 1..L : written[i][1] = "text" /\ written[i][2] = i
  BY <1>5
<1>7. InOrder(written, 1, L + 1)
  <2>1. written \in Seq(Sorts \X Nat)
    <3>1. \A i \in 1..L : <<"text", i>> \in Sorts \X Nat
      BY DEF Sorts
    <3>2. written = [i \in 1..L |-> written[i]]
      BY <1>3, <1>5, LenProperties
    <3>3. written \in [1..L -> Sorts \X Nat]
      BY <1>5, <3>1, <3>2
    <3> QED
      BY <3>3, IsASeq
  <2>2. \A p \in DOMAIN written : 1 <= written[p][2] /\ written[p][2] < L + 1
    BY <1>5, <1>6
  <2>3. \A p, q \in DOMAIN written : p < q => written[p][2] < written[q][2]
    BY <1>5, <1>6
  <2> QED
    BY <2>1, <2>2, <2>3 DEF InOrder
<1>8. \A x : <<"text", x>> \in PiecesOf(written) <=> x \in 1..L
  <2>1. ASSUME NEW x, <<"text", x>> \in PiecesOf(written) PROVE x \in 1..L
    <3>1. PICK i \in 1..L : <<"text", x>> = written[i]
      BY <1>5, <2>1 DEF PiecesOf
    <3> QED
      BY <1>5, <3>1
  <2>2. ASSUME NEW x \in 1..L PROVE <<"text", x>> \in PiecesOf(written)
    BY <1>5 DEF PiecesOf
  <2> QED
    BY <2>1, <2>2
<1>9. \A x : <<"signal", x>> \notin PiecesOf(written)
  <2> SUFFICES ASSUME NEW x, <<"signal", x>> \in PiecesOf(written) PROVE FALSE
    OBVIOUS
  <2>1. PICK i \in 1..L : <<"signal", x>> = written[i]
    BY <1>5 DEF PiecesOf
  <2> QED
    BY <1>5, <2>1
<1>10. DOMAIN locations = {1} /\ locations[1] = l /\ l.start = 1 /\ l.length = L /\ l.implicit = TRUE
  <2>1. DOMAIN <<l>> = {1} /\ <<l>>[1] = l
    OBVIOUS
  <2> QED
    BY <1>1, <1>2, <2>1
<1>11. Rising(locations, 1, L + 1)
  <2>1. l \in Located
    BY <1>1 DEF Located
  <2>2. locations \in Seq(Located)
    BY <1>2, <2>1
  <2>3. \A i \in DOMAIN locations : 1 <= locations[i].start /\ locations[i].start < L + 1
    BY <1>10
  <2>4. \A i, j \in DOMAIN locations : i < j => locations[i].start < locations[j].start
    BY <1>10
  <2> QED
    BY <2>2, <2>3, <2>4 DEF Rising
<1>12. \A i \in DOMAIN locations : EndOfPoint(locations[i]) <= L + 1
  BY <1>10 DEF EndOfPoint
<1>13. Signalled(written, locations)
  BY <1>9, <1>10 DEF Signalled
<1> QED
  BY <1>7, <1>8, <1>11, <1>12, <1>13 DEF Output

\* The offsets of the body become offsets into the file.
LEMMA RewrittenInOrder ==
    ASSUME Output, NEW L \in Nat, L = Len(body), NEW b \in Nat, b = Base
    PROVE  /\ InOrder(Rewritten, b, b + L)
           /\ \A x : <<"text", x>> \in PiecesOf(Rewritten) <=> x \in b..(b + L - 1)
           /\ \A x : <<"signal", x>> \in PiecesOf(Rewritten)
                        <=> \E i \in DOMAIN locations : ~locations[i].implicit /\ b + locations[i].start - 1 = x
<1>1. InOrder(written, 1, L + 1)
  BY DEF Output
<1>2. written \in Seq(Sorts \X Nat)
  BY <1>1 DEF InOrder
<1>3. PICK W \in Nat : W = Len(written) /\ DOMAIN written = 1..W
  BY <1>2, LenProperties
<1>4. PICK r : r = Rewritten
  OBVIOUS
<1>5. r = [i \in 1..W |-> <<written[i][1], b + written[i][2] - 1>>]
  BY <1>3, <1>4 DEF Rewritten
<1>6. \A p \in 1..W : /\ written[p][1] \in Sorts /\ written[p][2] \in Nat /\ written[p] = <<written[p][1], written[p][2]>>
                      /\ 1 <= written[p][2] /\ written[p][2] < L + 1
  BY <1>1, <1>2, <1>3, InOrderTyped DEF InOrder
<1>7. DOMAIN r = 1..W /\ \A p \in 1..W : r[p] = <<written[p][1], b + written[p][2] - 1>>
  BY <1>5
<1>8. \A p \in 1..W : r[p][1] = written[p][1] /\ r[p][2] = b + written[p][2] - 1
  BY <1>7
<1>9. \A p \in 1..W : b + written[p][2] - 1 \in Nat /\ b <= b + written[p][2] - 1 /\ b + written[p][2] - 1 < b + L
  <2> SUFFICES ASSUME NEW p \in 1..W
               PROVE  /\ b + written[p][2] - 1 \in Nat /\ b <= b + written[p][2] - 1
                      /\ b + written[p][2] - 1 < b + L
    OBVIOUS
  <2>1. PICK o \in Nat : o = written[p][2] /\ 1 <= o /\ o < L + 1
    BY <1>6
  <2> QED
    BY <2>1
<1>10. r \in Seq(Sorts \X Nat)
  <2>1. \A p \in 1..W : r[p] \in Sorts \X Nat
    <3> SUFFICES ASSUME NEW p \in 1..W PROVE r[p] \in Sorts \X Nat
      OBVIOUS
    <3>1. PICK a, o : a = written[p][1] /\ o = b + written[p][2] - 1
      OBVIOUS
    <3>2. a \in Sorts /\ o \in Nat /\ r[p] = <<a, o>>
      BY <1>6, <1>7, <1>9, <3>1
    <3> QED
      BY <3>2
  <2>2. r = [i \in 1..W |-> r[i]]
    BY <1>5, <1>7
  <2>3. r \in [1..W -> Sorts \X Nat]
    BY <2>1, <2>2
  <2> QED
    BY <1>3, <2>3, IsASeq
<1>11. ASSUME NEW p \in 1..W, NEW q \in 1..W, p < q, r[p][1] = r[q][1]
       PROVE  r[p][2] < r[q][2]
  <2>1. written[p][2] < written[q][2]
    BY <1>1, <1>3, <1>8, <1>11 DEF InOrder
  <2>2. PICK o \in Nat, e \in Nat : o = written[p][2] /\ e = written[q][2]
    BY <1>6
  <2>3. o < e
    BY <2>1, <2>2
  <2>4. b + o - 1 < b + e - 1
    BY ONLY <2>3, b \in Nat, o \in Nat, e \in Nat
  <2>5. r[p][2] = b + o - 1 /\ r[q][2] = b + e - 1
    BY <1>8, <2>2
  <2> QED
    BY <2>4, <2>5
<1>12. InOrder(r, b, b + L)
  <2>1. \A p \in DOMAIN r : b <= r[p][2] /\ r[p][2] < b + L
    BY <1>7, <1>8, <1>9
  <2> QED
    BY <1>7, <1>10, <1>11, <2>1 DEF InOrder
<1>13. \A x : <<"text", x>> \in PiecesOf(r) <=> x \in b..(b + L - 1)
  <2>1. ASSUME NEW x, <<"text", x>> \in PiecesOf(r) PROVE x \in b..(b + L - 1)
    <3>1. PICK p \in 1..W : <<"text", x>> = r[p]
      BY <1>7, <2>1 DEF PiecesOf
    <3>2. x = b + written[p][2] - 1
      BY <1>7, <3>1
    <3> QED
      BY <1>9, <3>2
  <2>2. ASSUME NEW x \in b..(b + L - 1) PROVE <<"text", x>> \in PiecesOf(r)
    <3>1. PICK o \in 1..L : o = x - b + 1 /\ b + o - 1 = x
      OBVIOUS
    <3>2. <<"text", o>> \in PiecesOf(written)
      BY <3>1 DEF Output
    <3>3. PICK p \in 1..W : <<"text", o>> = written[p]
      BY <1>3, <3>2 DEF PiecesOf
    <3>4. written[p][1] = "text" /\ written[p][2] = o
      BY <3>3
    <3>5. r[p] = <<"text", x>>
      BY <1>7, <3>1, <3>4
    <3> QED
      BY <1>7, <3>5 DEF PiecesOf
  <2> QED
    BY <2>1, <2>2
<1>14. \A i \in DOMAIN locations : locations[i].start \in Nat
  <2>1. locations \in Seq(Located)
    BY DEF Output, Rising
  <2> QED
    BY <2>1, RisingTyped
<1>15. ASSUME NEW x, <<"signal", x>> \in PiecesOf(r)
       PROVE  \E i \in DOMAIN locations : ~locations[i].implicit /\ b + locations[i].start - 1 = x
  <2>1. PICK p \in 1..W : <<"signal", x>> = r[p]
    BY <1>7, <1>15 DEF PiecesOf
  <2>2. written[p][1] = "signal" /\ x = b + written[p][2] - 1
    BY <1>7, <2>1
  <2>3. PICK o : o = written[p][2]
    OBVIOUS
  <2>4. written[p] = <<"signal", o>>
    BY <1>6, <2>2, <2>3
  <2>5. <<"signal", o>> \in PiecesOf(written)
    BY <1>3, <2>4 DEF PiecesOf
  <2>6. PICK i \in DOMAIN locations : ~locations[i].implicit /\ locations[i].start = o
    BY <2>5 DEF Output, Signalled
  <2> QED
    BY <2>2, <2>3, <2>6
<1>16. ASSUME NEW i \in DOMAIN locations, ~locations[i].implicit
       PROVE  <<"signal", b + locations[i].start - 1>> \in PiecesOf(r)
  <2>1. PICK o : o = locations[i].start
    OBVIOUS
  <2>2. <<"signal", o>> \in PiecesOf(written)
    BY <1>16, <2>1 DEF Output, Signalled
  <2>3. PICK p \in 1..W : <<"signal", o>> = written[p]
    BY <1>3, <2>2 DEF PiecesOf
  <2>4. written[p][1] = "signal" /\ written[p][2] = o
    BY <2>3
  <2>5. r[p] = <<"signal", b + o - 1>>
    BY <1>7, <2>4
  <2> QED
    BY <1>7, <2>1, <2>5 DEF PiecesOf
<1>17. \A x : <<"signal", x>> \in PiecesOf(r)
                  <=> \E i \in DOMAIN locations : ~locations[i].implicit /\ b + locations[i].start - 1 = x
  BY <1>15, <1>16
<1> QED
  BY <1>4, <1>12, <1>13, <1>17

\* The body at hand is in the file where Base says.
LEMMA BodyAtBase ==
    ASSUME FileOK, ~Loaded, NEW s, s = statements[n]
    PROVE  /\ n \in DOMAIN statements
           /\ s.startPos \in Nat /\ EndPos(s) \in Nat /\ Base \in Nat /\ Len(body) \in Nat
           /\ s.startPos <= Base /\ Base + Len(body) <= EndPos(s) /\ s.startPos < EndPos(s)
           /\ EndPos(s) <= Len(FileText(file)) /\ Len(FileText(file)) \in Nat /\ FileText(file) \in Seq(Letters)
           /\ \A j \in 1..Len(body) : FileText(file)[Base + j] = body[j]
           /\ ~Instrumented => Len(body) >= 1 /\ body \in Seq(Letters)
<1>1. file \in Files /\ statements = SplitAndClassify(file) /\ n \in 1..(Len(statements) + 1)
  BY DEF FileOK
<1>2. n \in DOMAIN statements
  <2>1. Len(statements) \in Nat /\ DOMAIN statements = 1..Len(statements)
    BY <1>1, StatementsTyped
  <2>2. ~(n > Len(statements))
    BY DEF Loaded
  <2> QED
    BY <1>1, <2>1, <2>2
<1>3. PICK g : Made(file, n, g)
  BY <1>1, <1>2, MadeOfGroups
<1>4. /\ s.startPos \in Nat /\ s.raw \in Seq(Letters) /\ Len(s.raw) \in Nat /\ Len(s.raw) >= 1
      /\ EndPos(s) <= Len(FileText(file)) /\ Len(FileText(file)) \in Nat /\ FileText(file) \in Seq(Letters)
      /\ \A j \in 1..Len(s.raw) : FileText(file)[s.startPos + j] = s.raw[j]
      /\ BodyInPlace(s, s.raw)
  <2>1. file \in Files /\ s = SplitAndClassify(file)[n]
    BY <1>1
  <2> QED
    BY <1>3, <2>1, StatementInPlace
<1>5. EndPos(s) = s.startPos + Len(s.raw) /\ EndPos(s) \in Nat /\ s.startPos < EndPos(s)
  BY <1>4 DEF EndPos
<1>6. kind = KindOf(s) /\ body = ToInstrument(s)
  BY DEF FileOK
<1>7. CASE Instrumented
  <2>1. body = s.body /\ Base = s.startPos + s.bodyStart
    BY <1>6, <1>7 DEF ToInstrument, Base, Instrumented
  <2>2. s.bodyStart \in Nat /\ Len(body) \in Nat /\ s.bodyStart + Len(body) <= Len(s.raw)
    BY <1>4, <2>1 DEF BodyInPlace
  <2>a. PICK c \in Nat, d \in Nat, e \in Nat, o \in Nat :
            c = Len(body) /\ d = Len(s.raw) /\ e = s.startPos /\ o = s.bodyStart
    BY <1>4, <2>2
  <2>b. o + c <= d /\ Base = e + o
    BY <2>1, <2>2, <2>a
  <2>3. ASSUME NEW j \in 1..Len(body) PROVE FileText(file)[Base + j] = body[j]
    <3>1. PICK i : i = s.bodyStart + j
      OBVIOUS
    <3>2. i \in 1..Len(s.raw) /\ s.startPos + i = Base + j
      <4>1. j \in 1..c /\ i = o + j
        BY <2>a, <3>1
      <4>0. o + c <= d
        BY <2>b
      <4>2. i \in 1..d /\ e + i = (e + o) + j
        BY ONLY <4>1, <4>0, c \in Nat, d \in Nat, e \in Nat, o \in Nat
      <4> QED
        BY <2>a, <2>b, <4>2
    <3>3. FileText(file)[s.startPos + i] = s.raw[i]
      BY <1>4, <3>2
    <3>4. s.raw[i] = body[j]
      BY <1>4, <2>1, <3>1 DEF BodyInPlace
    <3> QED
      BY <3>2, <3>3, <3>4
  <2>4. Base \in Nat /\ s.startPos <= Base /\ Base + Len(body) <= EndPos(s)
    <3>1. o + c <= d
      BY <2>b
    <3>2. e + o \in Nat /\ e <= e + o /\ (e + o) + c <= e + d
      BY ONLY <3>1, c \in Nat, d \in Nat, e \in Nat, o \in Nat
    <3>3. EndPos(s) = e + d
      BY <1>5, <2>a
    <3> QED
      BY <2>a, <2>b, <3>2, <3>3
  <2> QED
    BY <1>2, <1>4, <1>5, <1>7, <2>2, <2>3, <2>4
<1>8. CASE ~Instrumented
  <2>1. body = s.raw /\ Base = s.startPos + 0
    BY <1>6, <1>8 DEF ToInstrument, Base, Instrumented
  <2>2. Base = s.startPos
    BY <1>4, <2>1
  <2>3. \A j \in 1..Len(body) : FileText(file)[Base + j] = body[j]
    BY <1>4, <2>1, <2>2
  <2>4. Base \in Nat /\ s.startPos <= Base /\ Base + Len(body) <= EndPos(s)
    BY <1>4, <1>5, <2>1, <2>2
  <2> QED
    BY <1>2, <1>4, <1>5, <2>1, <2>3, <2>4
<1> QED
  BY <1>7, <1>8

LEMMA StatementTextInOrder ==
    ASSUME FileOK, ~Loaded, Output, NEW s, s = statements[n]
    PROVE  /\ InOrder(StatementText(s), s.startPos, EndPos(s))
           /\ \A x : <<"text", x>> \in PiecesOf(StatementText(s)) <=> x \in Span(s)
           /\ \A x : <<"signal", x>> \in PiecesOf(StatementText(s))
                        <=> \E i \in DOMAIN locations : ~locations[i].implicit /\ Base + locations[i].start - 1 = x
<1>1. PICK lo \in Nat, hi \in Nat, b \in Nat, L \in Nat :
          lo = s.startPos /\ hi = EndPos(s) /\ b = Base /\ L = Len(body)
  BY BodyAtBase
<1>2. lo <= b /\ b + L <= hi
  BY <1>1, BodyAtBase
<1>3. PICK m \in Nat : m = b + L /\ b <= m /\ m <= hi
  BY <1>1, <1>2
<1>4. PICK u, v, w : u = Copied(lo, b) /\ v = Rewritten /\ w = Copied(m, hi)
  OBVIOUS
<1>5. StatementText(s) = (u \o v) \o w
  BY <1>1, <1>3, <1>4 DEF StatementText, EndPos
<1>6. /\ InOrder(u, lo, b) /\ \A x : <<"text", x>> \in PiecesOf(u) <=> x \in lo..(b - 1)
      /\ \A x : <<"signal", x>> \notin PiecesOf(u)
  BY <1>2, <1>4, CopiedInOrder
<1>7. /\ InOrder(v, b, m) /\ \A x : <<"text", x>> \in PiecesOf(v) <=> x \in b..(m - 1)
      /\ \A x : <<"signal", x>> \in PiecesOf(v)
                   <=> \E i \in DOMAIN locations : ~locations[i].implicit /\ b + locations[i].start - 1 = x
  <2>1. /\ InOrder(Rewritten, b, b + L)
        /\ \A x : <<"text", x>> \in PiecesOf(Rewritten) <=> x \in b..(b + L - 1)
        /\ \A x : <<"signal", x>> \in PiecesOf(Rewritten)
                     <=> \E i \in DOMAIN locations : ~locations[i].implicit /\ b + locations[i].start - 1 = x
    BY <1>1, RewrittenInOrder
  <2>2. v = Rewritten /\ m = b + L /\ m - 1 = b + L - 1
    BY <1>3, <1>4
  <2> QED
    BY <2>1, <2>2
<1>8. /\ InOrder(w, m, hi) /\ \A x : <<"text", x>> \in PiecesOf(w) <=> x \in m..(hi - 1)
      /\ \A x : <<"signal", x>> \notin PiecesOf(w)
  BY <1>3, <1>4, CopiedInOrder
<1>9. InOrder(u \o v, lo, m) /\ PiecesOf(u \o v) = PiecesOf(u) \cup PiecesOf(v)
  BY <1>2, <1>3, <1>6, <1>7, InOrderJoined
<1>10. lo <= m
  BY <1>2, <1>3
<1>11. InOrder((u \o v) \o w, lo, hi) /\ PiecesOf((u \o v) \o w) = PiecesOf(u \o v) \cup PiecesOf(w)
  BY <1>3, <1>8, <1>9, <1>10, InOrderJoined
<1>12. PiecesOf(StatementText(s)) = PiecesOf(u) \cup PiecesOf(v) \cup PiecesOf(w)
  BY <1>5, <1>9, <1>11
<1>13. ASSUME NEW x
       PROVE  <<"text", x>> \in PiecesOf(StatementText(s)) <=> x \in Span(s)
  <2>1. Span(s) = lo..(hi - 1)
    BY <1>1 DEF Span
  <2>2. x \in lo..(hi - 1) <=> x \in lo..(b - 1) \/ x \in b..(m - 1) \/ x \in m..(hi - 1)
    BY <1>2, <1>3
  <2> QED
    BY <1>6, <1>7, <1>8, <1>12, <2>1, <2>2
<1>14. \A x : <<"signal", x>> \in PiecesOf(StatementText(s))
                  <=> \E i \in DOMAIN locations : ~locations[i].implicit /\ Base + locations[i].start - 1 = x
  BY <1>1, <1>6, <1>7, <1>8, <1>12
<1> QED
  BY <1>1, <1>5, <1>11, <1>13, <1>14

LEMMA Wider ==
    ASSUME NEW lo \in Nat, NEW hi \in Nat, NEW l \in Nat, NEW h \in Nat, l <= lo, hi <= h
    PROVE  /\ \A u : InOrder(u, lo, hi) => InOrder(u, l, h)
           /\ \A s : Rising(s, lo, hi) => Rising(s, l, h)
<1>1. ASSUME NEW u, InOrder(u, lo, hi) PROVE InOrder(u, l, h)
  <2>1. u \in Seq(Sorts \X Nat)
    BY <1>1 DEF InOrder
  <2>2. ASSUME NEW p \in DOMAIN u PROVE l <= u[p][2] /\ u[p][2] < h
    <3>1. u[p][2] \in Nat /\ lo <= u[p][2] /\ u[p][2] < hi
      BY <1>1, <2>1, <2>2, InOrderTyped DEF InOrder
    <3> QED
      BY <3>1
  <2> QED
    BY <1>1, <2>1, <2>2 DEF InOrder
<1>2. ASSUME NEW s, Rising(s, lo, hi) PROVE Rising(s, l, h)
  <2>1. s \in Seq(Located)
    BY <1>2 DEF Rising
  <2>2. ASSUME NEW i \in DOMAIN s PROVE l <= s[i].start /\ s[i].start < h
    <3>1. s[i].start \in Nat /\ lo <= s[i].start /\ s[i].start < hi
      BY <1>2, <2>1, <2>2, RisingTyped DEF Rising
    <3> QED
      BY <3>1
  <2> QED
    BY <1>2, <2>1, <2>2 DEF Rising
<1> QED
  BY <1>1, <1>2

\* The points of the statement at hand, with offsets into the file.
Absolutes == [i \in DOMAIN locations |-> Absolute(locations[i])]

LEMMA AbsolutesRise ==
    ASSUME Output, NEW L \in Nat, L = Len(body), NEW b \in Nat, b = Base
    PROVE  /\ Rising(Absolutes, b, b + L)
           /\ \A x : BeginsAt(Absolutes, x)
                        <=> \E i \in DOMAIN locations : ~locations[i].implicit /\ b + locations[i].start - 1 = x
<1>1. Rising(locations, 1, L + 1) /\ locations \in Seq(Located)
  BY DEF Output, Rising
<1>2. PICK W \in Nat : W = Len(locations) /\ DOMAIN locations = 1..W
  BY <1>1, LenProperties
<1>3. PICK t : t = Absolutes
  OBVIOUS
<1>4. t = [i \in 1..W |-> Absolute(locations[i])]
  BY <1>2, <1>3 DEF Absolutes
<1>5. ASSUME NEW i \in 1..W
      PROVE  /\ t[i] \in Located /\ t[i].start = b + locations[i].start - 1
             /\ t[i].implicit = locations[i].implicit
             /\ b <= t[i].start /\ t[i].start < b + L
  <2>1. PICK l \in Located : l = locations[i]
    BY <1>1, <1>2, RisingTyped
  <2>2. l.start \in Nat /\ 1 <= l.start /\ l.start < L + 1
    BY <1>1, <1>2, <2>1, RisingTyped DEF Rising
  <2>3. PICK x : x = b + l.start - 1
    OBVIOUS
  <2>4. x \in Nat /\ b <= x /\ x < b + L
    BY <2>2, <2>3
  <2>5. t[i] = [l EXCEPT !.start = x]
    BY <1>4, <2>1, <2>3 DEF Absolute
  <2>6. t[i] \in Located /\ t[i].start = x /\ t[i].implicit = l.implicit
    BY <2>4, <2>5 DEF Located
  <2> QED
    BY <2>1, <2>3, <2>4, <2>6
<1>6. DOMAIN t = 1..W
  BY <1>4
<1>7. t \in Seq(Located)
  <2>1. t = [i \in 1..W |-> t[i]]
    BY <1>4, <1>6
  <2>2. t \in [1..W -> Located]
    BY <1>5, <2>1
  <2> QED
    BY <1>2, <2>2, IsASeq
<1>8. ASSUME NEW i \in 1..W, NEW j \in 1..W, i < j
      PROVE  t[i].start < t[j].start
  <2>1. locations[i].start < locations[j].start
    BY <1>1, <1>2, <1>8 DEF Rising
  <2>2. PICK x \in Nat, y \in Nat : x = locations[i].start /\ y = locations[j].start
    BY <1>1, <1>2, RisingTyped
  <2>3. t[i].start = b + x - 1 /\ t[j].start = b + y - 1
    BY <1>5, <2>2
  <2>4. x < y
    BY <2>1, <2>2
  <2>5. b + x - 1 < b + y - 1
    BY ONLY <2>4, b \in Nat, x \in Nat, y \in Nat
  <2> QED
    BY <2>3, <2>5
<1>9. Rising(t, b, b + L)
  BY <1>5, <1>6, <1>7, <1>8 DEF Rising
<1>10. \A x : BeginsAt(t, x)
                  <=> \E i \in DOMAIN locations : ~locations[i].implicit /\ b + locations[i].start - 1 = x
  BY <1>2, <1>5, <1>6 DEF BeginsAt
<1> QED
  BY <1>3, <1>9, <1>10

-----------------------------------------------------------------------------
(* The invariant of the output                                              *)

\* Where the file has been written to.
WrittenTo == IF n = 1 THEN 0 ELSE EndPos(statements[n - 1])

\* The statements before n are in the output, each of their atoms once and in order.
TextWritten ==
    /\ InOrder(text, 0, WrittenTo)
    /\ \A x : <<"text", x>> \in PiecesOf(text) <=> \E k \in 1..(n - 1) : x \in Span(statements[k])

PointsRise == Rising(points, 0, WrittenTo) /\ Signalled(text, points)

\* The inductive invariant.
OInv == SInv /\ MarkedOK /\ TextWritten /\ PointsRise

LEMMA OInvInit == Init => OInv
<1> SUFFICES ASSUME Init PROVE OInv
  OBVIOUS
<1>1. SInv
  BY SInvInit
<1>2. MarkedOK
  <2>1. pc = "scan"
    BY DEF Init, Begin
  <2> QED
    BY <2>1 DEF MarkedOK
<1>3. n = 1 /\ text = <<>> /\ points = <<>> /\ WrittenTo = 0
  BY DEF Init, WrittenTo
<1>4. DOMAIN <<>> = {} /\ <<>> \in Seq(Sorts \X Nat) /\ <<>> \in Seq(Located)
  BY EmptySeq
<1>5. \A x : x \notin PiecesOf(<<>>)
  BY <1>4 DEF PiecesOf
<1>6. TextWritten
  <2>1. InOrder(<<>>, 0, 0)
    BY <1>4 DEF InOrder
  <2>2. \A k : k \notin 1..(n - 1)
    BY <1>3
  <2> QED
    BY <1>3, <1>5, <2>1, <2>2 DEF TextWritten
<1>7. PointsRise
  <2>1. Rising(<<>>, 0, 0)
    BY <1>4 DEF Rising
  <2>2. Signalled(<<>>, <<>>)
    BY <1>4, <1>5 DEF Signalled
  <2> QED
    BY <1>3, <2>1, <2>2 DEF PointsRise
<1> QED
  BY <1>1, <1>2, <1>6, <1>7 DEF OInv

LEMMA WrittenToIs ==
    ASSUME FileOK
    PROVE  WrittenTo \in Nat /\ (~Loaded => WrittenTo <= statements[n].startPos)
<1>1. file \in Files /\ statements = SplitAndClassify(file) /\ n \in 1..(Len(statements) + 1)
  BY DEF FileOK
<1>2. Len(statements) \in Nat /\ DOMAIN statements = 1..Len(statements)
  BY <1>1, StatementsTyped
<1>3. CASE n = 1
  <2>1. WrittenTo = 0
    BY <1>3 DEF WrittenTo
  <2>2. ~Loaded => statements[n].startPos \in Nat
    BY BodyAtBase
  <2> QED
    BY <2>1, <2>2
<1>4. CASE n # 1
  <2>1. n - 1 \in DOMAIN statements /\ n - 1 < n
    BY <1>1, <1>2, <1>4
  <2>2. PICK m : m = n - 1
    OBVIOUS
  <2>3. PICK g : Made(file, m, g)
    BY <1>1, <2>1, <2>2, MadeOfGroups
  <2>4. statements[m].startPos \in Nat /\ Len(statements[m].raw) \in Nat
    BY <1>1, <2>3, StatementInPlace
  <2>5. WrittenTo = EndPos(statements[m]) /\ WrittenTo \in Nat
    BY <1>4, <2>2, <2>4 DEF WrittenTo, EndPos
  <2>6. ASSUME ~Loaded PROVE EndPos(statements[m]) <= statements[n].startPos
    <3>1. n \in DOMAIN statements
      BY <2>6, BodyAtBase
    <3> QED
      BY <1>1, <2>1, <2>2, <3>1, StatementsApart
  <2> QED
    BY <2>5, <2>6
<1> QED
  BY <1>3, <1>4

LEMMA OutputOfStatement ==
    ASSUME FileOK, StatementOK, MarkedOK, ~Loaded, pc = "done"
    PROVE  Output
<1>1. CASE Instrumented
  BY <1>1, InstrumentedOutput DEF StatementOK
<1>2. CASE ~Instrumented
  BY <1>2, BodyAtBase, MarkedOutput
<1> QED
  BY <1>1, <1>2

LEMMA FinishWrites == OInv /\ FinishStatement => TextWritten' /\ PointsRise'
<1> SUFFICES ASSUME OInv, FinishStatement PROVE TextWritten' /\ PointsRise'
  OBVIOUS
<1>1. /\ ~Loaded /\ pc = "done" /\ n' = n + 1 /\ statements' = statements
      /\ text' = text \o StatementText(statements[n]) /\ points' = points \o Absolutes
  BY DEF FinishStatement, Absolutes
<1>2. FileOK /\ StatementOK /\ MarkedOK
  BY DEF OInv, SInv
<1>3. Output
  BY <1>1, <1>2, OutputOfStatement
<1>4. PICK s : s = statements[n]
  OBVIOUS
<1>5. PICK lo \in Nat, hi \in Nat, b \in Nat, L \in Nat :
          lo = s.startPos /\ hi = EndPos(s) /\ b = Base /\ L = Len(body)
  BY <1>1, <1>2, <1>4, BodyAtBase
<1>6. lo <= b /\ b + L <= hi /\ lo < hi
  BY <1>1, <1>2, <1>4, <1>5, BodyAtBase
<1>7. PICK r \in Nat : r = WrittenTo /\ r <= lo
  BY <1>1, <1>2, <1>4, <1>5, WrittenToIs
<1>8. n \in Nat /\ n >= 1
  <2>1. Len(statements) \in Nat
    BY <1>2, StatementsTyped DEF FileOK
  <2>2. n \in 1..(Len(statements) + 1)
    BY <1>2 DEF FileOK
  <2> QED
    BY <2>1, <2>2
<1>9. WrittenTo' = hi
  <2>1. n' # 1 /\ n' - 1 = n
    BY <1>1, <1>8
  <2>2. WrittenTo' = EndPos(statements[n])
    BY <1>1, <2>1 DEF WrittenTo, EndPos
  <2> QED
    BY <1>4, <1>5, <2>2
<1>10. PICK u, v : u = text /\ v = StatementText(s)
  OBVIOUS
<1>11. /\ InOrder(v, lo, hi)
       /\ \A x : <<"text", x>> \in PiecesOf(v) <=> x \in Span(s)
       /\ \A x : <<"signal", x>> \in PiecesOf(v)
                    <=> \E i \in DOMAIN locations : ~locations[i].implicit /\ b + locations[i].start - 1 = x
  BY <1>1, <1>2, <1>3, <1>4, <1>5, <1>10, StatementTextInOrder
<1>12. InOrder(v, r, hi)
  BY <1>5, <1>7, <1>11, Wider
<1>13. InOrder(u, 0, r)
  BY <1>7, <1>10 DEF OInv, TextWritten
<1>14. InOrder(u \o v, 0, hi) /\ PiecesOf(u \o v) = PiecesOf(u) \cup PiecesOf(v)
  <2>1. 0 <= r /\ r <= hi /\ 0 \in Nat
    BY <1>6, <1>7
  <2> QED
    BY <1>12, <1>13, <2>1, InOrderJoined
<1>15. text' = u \o v
  BY <1>1, <1>4, <1>10
<1>16. ASSUME NEW x
       PROVE  <<"text", x>> \in PiecesOf(u \o v) <=> \E k \in 1..n : x \in Span(statements[k])
  <2>1. <<"text", x>> \in PiecesOf(u) <=> \E k \in 1..(n - 1) : x \in Span(statements[k])
    BY <1>10 DEF OInv, TextWritten
  <2>2. \A k : k \in 1..n <=> k \in 1..(n - 1) \/ k = n
    BY <1>8
  <2> QED
    BY <1>4, <1>11, <1>14, <2>1, <2>2
<1>17. TextWritten'
  <2>1. n' - 1 = n
    BY <1>1, <1>8
  <2>2. InOrder(text, 0, WrittenTo)'
    BY <1>9, <1>14, <1>15 DEF InOrder
  <2>3. (\A x : <<"text", x>> \in PiecesOf(text) <=> \E k \in 1..(n - 1) : x \in Span(statements[k]))'
    BY <1>1, <1>15, <1>16, <2>1 DEF PiecesOf, Span, EndPos
  <2> QED
    BY <2>2, <2>3 DEF TextWritten
<1>18. PICK o, t : o = points /\ t = Absolutes
  OBVIOUS
<1>19. /\ Rising(t, b, b + L)
       /\ \A x : BeginsAt(t, x)
                    <=> \E i \in DOMAIN locations : ~locations[i].implicit /\ b + locations[i].start - 1 = x
  BY <1>3, <1>5, <1>18, AbsolutesRise
<1>20. Rising(t, r, hi)
  <2>1. r <= b /\ b + L \in Nat
    BY <1>6, <1>7
  <2> QED
    BY <1>6, <1>19, <2>1, Wider
<1>21. Rising(o, 0, r)
  BY <1>7, <1>18 DEF OInv, PointsRise
<1>22. Rising(o \o t, 0, hi) /\ \A x : BeginsAt(o \o t, x) <=> BeginsAt(o, x) \/ BeginsAt(t, x)
  <2>1. 0 <= r /\ r <= hi /\ 0 \in Nat
    BY <1>6, <1>7
  <2> QED
    BY <1>20, <1>21, <2>1, RisingJoined
<1>23. \A x : <<"signal", x>> \in PiecesOf(u) <=> BeginsAt(o, x)
  BY <1>10, <1>18 DEF OInv, PointsRise, Signalled, BeginsAt
<1>24. \A x : <<"signal", x>> \in PiecesOf(u \o v) <=> BeginsAt(o \o t, x)
  BY <1>11, <1>14, <1>19, <1>22, <1>23
<1>25. Signalled(u \o v, o \o t)
  BY <1>24 DEF Signalled, BeginsAt
<1>26. PointsRise'
  <2>1. points' = o \o t
    BY <1>1, <1>18
  <2>2. Rising(points, 0, WrittenTo)'
    BY <1>9, <1>22, <2>1 DEF Rising
  <2>3. Signalled(text, points)'
    <3>1. Signalled(text', points')
      BY <1>15, <1>25, <2>1
    <3> QED
      BY <3>1 DEF Signalled, PiecesOf
  <2> QED
    BY <2>2, <2>3 DEF PointsRise
<1> QED
  BY <1>17, <1>26

LEMMA MarkedNext == OInv /\ [Next]_<<fileVars, vars, callVars>> => MarkedOK'
<1> SUFFICES ASSUME OInv, [Next]_<<fileVars, vars, callVars>> PROVE MarkedOK'
  OBVIOUS
<1>1. MarkedOK
  BY DEF OInv
<1>2. CASE UNCHANGED vars
  <2>1. kind' = kind /\ pc' = pc /\ body' = body /\ written' = written /\ locations' = locations
    BY <1>2 DEF vars, segment, result
  <2> QED
    BY <1>1, <2>1 DEF MarkedOK, Instrumented, Text
<1>3. CASE InstrumentStatement
  <2>1. CASE Instrumented
    <3>1. kind' = kind
      BY <1>3 DEF InstrumentStatement, InstrumentStep, SkipToBegin, SkipComment, EndSegment, TakeToken, Scan,
                  EndOfBody, Flush, MarkStatement, EmitSegment, segment, result
    <3> QED
      BY <2>1, <3>1 DEF MarkedOK, Instrumented
  <2>2. CASE ~Instrumented
    <3>1. pc # "flush"
      BY <1>1, <2>2 DEF MarkedOK
    <3>2. MarkStatement
      BY <1>3, <2>2, <3>1 DEF InstrumentStatement, InstrumentStep, SkipToBegin, SkipComment, EndSegment, TakeToken,
                              Scan, EndOfBody, Flush
    <3>3. /\ pc' = "done" /\ body' = body /\ written' = Text(1, Len(body))
          /\ locations' = <<[start |-> 1, length |-> Len(body), implicit |-> TRUE]>>
      BY <3>2 DEF MarkStatement
    <3> QED
      BY <3>3 DEF MarkedOK, Text
  <2> QED
    BY <2>1, <2>2
<1>4. CASE FinishStatement /\ ~UNCHANGED vars
  <2>1. pc' = "scan"
    BY <1>4 DEF FinishStatement, BeginNext
  <2> QED
    BY <2>1 DEF MarkedOK
<1>5. CASE CallLast \/ Finished
  BY <1>2, <1>5 DEF CallLast, Finished
<1>6. CASE UNCHANGED <<fileVars, vars, callVars>>
  BY <1>2, <1>6
<1> QED
  BY <1>2, <1>3, <1>4, <1>5, <1>6 DEF Next

LEMMA OInvNext == OInv /\ [Next]_<<fileVars, vars, callVars>> => OInv'
<1> SUFFICES ASSUME OInv, [Next]_<<fileVars, vars, callVars>> PROVE OInv'
  OBVIOUS
<1>1. SInv'
  BY SInvNext DEF OInv
<1>2. MarkedOK'
  BY MarkedNext
<1>3. CASE FinishStatement
  BY <1>1, <1>2, <1>3, FinishWrites DEF OInv
<1>4. CASE ~FinishStatement
  <2>1. UNCHANGED fileVars
    BY <1>4 DEF Next, InstrumentStatement, CallLast, Finished
  <2>2. n' = n /\ statements' = statements /\ text' = text /\ points' = points
    BY <2>1 DEF fileVars
  <2>3. TextWritten /\ PointsRise
    BY DEF OInv
  <2>4. WrittenTo' = WrittenTo
    BY <2>2 DEF WrittenTo, EndPos
  <2>5. TextWritten'
    BY <2>2, <2>3, <2>4 DEF TextWritten, InOrder, PiecesOf, Span, EndPos
  <2>6. PointsRise'
    BY <2>2, <2>3, <2>4 DEF PointsRise, Rising, Signalled, PiecesOf
  <2> QED
    BY <1>1, <1>2, <2>5, <2>6 DEF OInv
<1> QED
  BY <1>3, <1>4

LEMMA OutputInvariance == Spec => []OInv
BY OInvInit, OInvNext, PTL DEF Spec

-----------------------------------------------------------------------------
(* The output of a loaded file                                              *)

LEMMA MeantIs ==
    ASSUME NEW tokens \in Seq(Tokens)
    PROVE  Significant(tokens) # <<>> <=> \E i \in DOMAIN tokens : tokens[i] # Comment
<1>1. PICK L \in Nat : L = Len(tokens) /\ DOMAIN tokens = 1..L
  BY LenProperties
<1>2. PICK pt : pt = Positioned(tokens)
  OBVIOUS
<1>3. PICK U : U = {pt[i] : i \in 1..L}
  OBVIOUS
<1>4. pt = [i \in 1..L |-> [token |-> tokens[i], pos |-> Len(RawText(SubSeq(tokens, 1, i - 1)))]]
  BY <1>1, <1>2 DEF Positioned
<1>5. pt \in Seq(U) /\ Len(pt) = L
  <2>1. pt \in [1..L -> U] /\ DOMAIN pt = 1..L
    BY <1>3, <1>4
  <2>2. pt \in Seq(U)
    BY <2>1, IsASeq
  <2>3. DOMAIN pt = 1..Len(pt) /\ Len(pt) \in Nat
    BY <2>2, LenProperties
  <2> QED
    BY <1>1, <2>1, <2>2, <2>3
<1>6. PICK I : I = {i \in DOMAIN tokens : tokens[i] # Comment}
  OBVIOUS
<1>7. PICK sig : sig = Pick(pt, I)
  OBVIOUS
<1>8. Significant(tokens) = sig
  BY <1>2, <1>6, <1>7 DEF Significant
<1>9. Picked(U, sig, pt, I, L)
  BY <1>5, <1>7, PickIs
<1>10. sig \in Seq(U)
  BY <1>9 DEF Picked
<1>11. sig # <<>> <=> DOMAIN sig # {}
  <2>1. DOMAIN sig = 1..Len(sig) /\ Len(sig) \in Nat
    BY <1>10, LenProperties
  <2>2. sig # <<>> <=> Len(sig) # 0
    BY <1>10, EmptySeq
  <2>3. 1..Len(sig) # {} <=> Len(sig) # 0
    <3>1. Len(sig) # 0 => 1 \in 1..Len(sig)
      BY <2>1
    <3>2. Len(sig) = 0 => 1..Len(sig) = {}
      OBVIOUS
    <3> QED
      BY <3>1, <3>2
  <2> QED
    BY <2>1, <2>2, <2>3
<1>12. DOMAIN sig # {} <=> \E x \in 1..L : x \in I
  BY <1>9 DEF Picked
<1> QED
  BY <1>1, <1>6, <1>8, <1>11, <1>12

\* A loaded file's output has the atoms of its statements, in the order of the file; this
\* is what the loop of GenerateCoverageInstrument and the copying of instrumentStatement
\* around a body of any length and quoting come to.
THEOREM NoTextLost == Spec => []FileTextPreserved
<1>1. OInv => FileTextPreserved
  <2> SUFFICES ASSUME OInv, Loaded PROVE FileTextPreserved
    BY DEF FileTextPreserved
  <2>1. file \in Files /\ statements = SplitAndClassify(file) /\ n \in 1..(Len(statements) + 1)
    BY DEF OInv, SInv, FileOK
  <2>2. Len(statements) \in Nat /\ DOMAIN statements = 1..Len(statements)
    BY <2>1, StatementsTyped
  <2>3. 1..(n - 1) = DOMAIN statements
    BY <2>1, <2>2 DEF Loaded
  <2>4. InOrder(text, 0, WrittenTo) /\ text \in Seq(Sorts \X Nat)
    BY DEF OInv, TextWritten, InOrder
  <2>5. PICK T \in Nat : T = Len(text) /\ DOMAIN text = 1..T
    BY <2>4, LenProperties
  <2>6. PICK c, I : I = {p \in DOMAIN text : text[p][1] = "text"} /\ c = Pick(text, I)
    OBVIOUS
  <2>7. Picked(Sorts \X Nat, c, text, I, T)
    BY <2>4, <2>5, <2>6, PickIs
  <2>8. ASSUME NEW i \in DOMAIN c, NEW j \in DOMAIN c, i < j
        PROVE  c[i][2] < c[j][2]
    <3>1. PICK x \in 1..T, y \in 1..T : x < y /\ x \in I /\ y \in I /\ c[i] = text[x] /\ c[j] = text[y]
      BY <2>7, <2>8 DEF Picked
    <3>2. text[x][1] = text[y][1]
      BY <2>6, <3>1
    <3> QED
      BY <2>4, <2>5, <3>1, <3>2 DEF InOrder
  <2>9. ASSUME NEW z
        PROVE  (\E i \in DOMAIN c : c[i][2] = z) <=> <<"text", z>> \in PiecesOf(text)
    <3>1. ASSUME NEW i \in DOMAIN c, c[i][2] = z PROVE <<"text", z>> \in PiecesOf(text)
      <4>1. PICK x \in 1..T : x \in I /\ c[i] = text[x]
        BY <2>7 DEF Picked
      <4>2. text[x] = <<text[x][1], text[x][2]>> /\ text[x][1] = "text"
        BY <2>4, <2>5, <2>6, <4>1, InOrderTyped
      <4>3. text[x] = <<"text", z>>
        BY <3>1, <4>1, <4>2
      <4> QED
        BY <2>5, <4>3 DEF PiecesOf
    <3>2. ASSUME <<"text", z>> \in PiecesOf(text) PROVE \E i \in DOMAIN c : c[i][2] = z
      <4>1. PICK x \in 1..T : text[x] = <<"text", z>>
        BY <2>5, <3>2 DEF PiecesOf
      <4>2. x \in I
        BY <2>5, <2>6, <4>1
      <4>3. PICK i \in DOMAIN c : c[i] = text[x]
        BY <2>7, <4>2 DEF Picked
      <4> QED
        BY <4>1, <4>3
    <3> QED
      BY <3>1, <3>2
  <2>10. PICK groups : groups = {g \in DOMAIN file : \E i \in DOMAIN file[g] : file[g][i] # Comment}
    OBVIOUS
  <2>11. file \in Seq(Seq(Tokens))
    BY <2>1, StatementsAre
  <2>12. groups = Meant(file)
    <3>1. \A g \in DOMAIN file : file[g] \in Seq(Tokens)
      BY <2>11, LenProperties, ElementOfSeq
    <3> QED
      BY <2>10, <3>1, MeantIs DEF Meant
  <2>13. ASSUME NEW g \in DOMAIN file
         PROVE  Len(FileText(SubSeq(file, 1, g - 1))) = StartIn(RawsOf(file), g)
    <3>1. g - 1 \in 0..Len(file)
      BY <2>11, LenProperties
    <3> QED
      BY <2>11, <3>1, FileTextIs DEF StartIn
  <2>14. ASSUME NEW k, NEW g, Made(file, k, g)
         PROVE  /\ Span(statements[k]) = Len(FileText(SubSeq(file, 1, g - 1)))..
                                   (Len(FileText(SubSeq(file, 1, g - 1))) + Len(RawText(file[g])) - 1)
                /\ g \in groups
    <3>1. statements[k].startPos = StartIn(RawsOf(file), g) /\ statements[k].raw = RawText(file[g])
      BY <2>1, <2>14, StatementInPlace
    <3>2. g \in DOMAIN file /\ g \in Meant(file)
      BY <2>14 DEF Made
    <3> QED
      BY <2>12, <2>13, <3>1, <3>2 DEF Span, EndPos
  <2>15. ASSUME NEW z
         PROVE  (\E k \in DOMAIN statements : z \in Span(statements[k]))
                    <=> \E g \in groups : z \in Len(FileText(SubSeq(file, 1, g - 1)))..
                                   (Len(FileText(SubSeq(file, 1, g - 1))) + Len(RawText(file[g])) - 1)
    <3>1. \A k \in DOMAIN statements : \E g : Made(file, k, g)
      BY <2>1, MadeOfGroups
    <3>2. \A g \in groups : \E k \in DOMAIN statements : Made(file, k, g)
      BY <2>1, <2>12, MadeOfGroups
    <3> QED
      BY <2>14, <3>1, <3>2
  <2>16. {c[i][2] : i \in DOMAIN c}
             = UNION {Len(FileText(SubSeq(file, 1, g - 1)))..
                          (Len(FileText(SubSeq(file, 1, g - 1))) + Len(RawText(file[g])) - 1) : g \in groups}
    <3>1. \A z : <<"text", z>> \in PiecesOf(text) <=> \E k \in DOMAIN statements : z \in Span(statements[k])
      BY <2>3 DEF OInv, TextWritten
    <3> QED
      BY <2>9, <2>15, <3>1
  <2> QED
    BY <2>6, <2>8, <2>10, <2>16 DEF FileTextPreserved
<1> QED
  BY OutputInvariance, <1>1, PTL

\* For any files: the signals in the output are those of the executable points the file's
\* coverage is seeded with, one for each, in the same order.
THEOREM OneSignalEach == Spec => []SignalsNamePoints
<1>1. OInv => SignalsNamePoints
  <2> SUFFICES ASSUME OInv PROVE SignalsNamePoints
    OBVIOUS
  <2>1. InOrder(text, 0, WrittenTo) /\ text \in Seq(Sorts \X Nat)
    BY DEF OInv, TextWritten, InOrder
  <2>2. Rising(points, 0, WrittenTo) /\ points \in Seq(Located)
    BY DEF OInv, PointsRise, Rising
  <2>3. PICK T \in Nat, P \in Nat : T = Len(text) /\ DOMAIN text = 1..T /\ P = Len(points) /\ DOMAIN points = 1..P
    BY <2>1, <2>2, LenProperties
  <2>4. PICK I, J : /\ I = {p \in DOMAIN text : text[p][1] = "signal"}
                    /\ J = {i \in DOMAIN points : ~points[i].implicit}
    OBVIOUS
  <2>5. PICK c, d : c = Pick(text, I) /\ d = Pick(points, J)
    OBVIOUS
  <2>6. Picked(Sorts \X Nat, c, text, I, T)
    BY <2>1, <2>3, <2>5, PickIs
  <2>7. Picked(Located, d, points, J, P)
    BY <2>2, <2>3, <2>5, PickIs
  <2>8. c \in Seq(Sorts \X Nat) /\ d \in Seq(Located)
    BY <2>6, <2>7 DEF Picked
  <2>9. PICK A \in Nat, B \in Nat : DOMAIN c = 1..A /\ DOMAIN d = 1..B
    BY <2>8, LenProperties
  <2>10. PICK a, b : a = [i \in DOMAIN c |-> c[i][2]] /\ b = [i \in DOMAIN d |-> d[i].start]
    OBVIOUS
  <2>11. a \in [1..A -> Nat] /\ \A i \in 1..A : a[i] = c[i][2]
    <3>1. \A i \in 1..A : c[i][2] \in Nat
      BY <2>8, <2>9, InOrderTyped
    <3> QED
      BY <2>9, <2>10, <3>1
  <2>12. b \in [1..B -> Nat] /\ \A i \in 1..B : b[i] = d[i].start
    <3>1. \A i \in 1..B : d[i].start \in Nat
      BY <2>8, <2>9, RisingTyped
    <3> QED
      BY <2>9, <2>10, <3>1
  <2>13. ASSUME NEW i \in 1..A, NEW j \in 1..A, i < j
         PROVE  a[i] < a[j]
    <3>9. \A k, l \in DOMAIN c : k < l => \E x, y \in 1..T : x < y /\ x \in I /\ y \in I /\ c[k] = text[x] /\ c[l] = text[y]
      BY ONLY <2>6, Zenon DEF Picked
    <3>0. i \in DOMAIN c /\ j \in DOMAIN c /\ i < j
      BY <2>9, <2>13
    <3>1. PICK x \in 1..T, y \in 1..T : x < y /\ x \in I /\ y \in I /\ c[i] = text[x] /\ c[j] = text[y]
      BY <3>0, <3>9, Zenon
    <3>2. text[x][1] = text[y][1]
      BY <2>4, <3>1
    <3>3. text[x][2] < text[y][2]
      BY <2>1, <2>3, <3>1, <3>2 DEF InOrder
    <3> QED
      BY <2>11, <3>1, <3>3
  <2>14. ASSUME NEW i \in 1..B, NEW j \in 1..B, i < j
         PROVE  b[i] < b[j]
    <3>9. \A k, l \in DOMAIN d : k < l => \E x, y \in 1..P : x < y /\ x \in J /\ y \in J /\ d[k] = points[x] /\ d[l] = points[y]
      BY ONLY <2>7, Zenon DEF Picked
    <3>0. i \in DOMAIN d /\ j \in DOMAIN d /\ i < j
      BY <2>9, <2>14
    <3>1. PICK x \in 1..P, y \in 1..P : x < y /\ d[i] = points[x] /\ d[j] = points[y]
      BY <3>0, <3>9, Zenon
    <3>2. points[x].start < points[y].start
      BY <2>2, <2>3, <3>1 DEF Rising
    <3> QED
      BY <2>12, <3>1, <3>2
  <2>15. \A x : <<"signal", x>> \in PiecesOf(text) <=> \E i \in DOMAIN points : ~points[i].implicit /\ points[i].start = x
    BY DEF OInv, PointsRise, Signalled
  <2>16. ASSUME NEW i \in 1..A
         PROVE  \E j \in 1..B : a[i] = b[j]
    <3>1. PICK x \in 1..T : x \in I /\ c[i] = text[x]
      BY <2>6, <2>9 DEF Picked
    <3>2. text[x] = <<text[x][1], text[x][2]>> /\ text[x][1] = "signal"
      BY <2>1, <2>3, <2>4, <3>1, InOrderTyped
    <3>3. text[x] = <<"signal", a[i]>>
      BY <2>11, <3>1, <3>2
    <3>4. <<"signal", a[i]>> \in PiecesOf(text)
      BY <2>3, <3>3 DEF PiecesOf
    <3>5. PICK y \in DOMAIN points : ~points[y].implicit /\ points[y].start = a[i]
      BY <2>15, <3>4
    <3>6. PICK j \in DOMAIN d : d[j] = points[y]
      BY <2>3, <2>4, <2>7, <3>5 DEF Picked
    <3> QED
      BY <2>9, <2>12, <3>5, <3>6
  <2>17. ASSUME NEW j \in 1..B
         PROVE  \E i \in 1..A : b[j] = a[i]
    <3>1. PICK y \in 1..P : y \in J /\ d[j] = points[y]
      BY <2>7, <2>9 DEF Picked
    <3>2. <<"signal", b[j]>> \in PiecesOf(text)
      BY <2>4, <2>12, <2>15, <3>1
    <3>3. PICK x \in 1..T : text[x] = <<"signal", b[j]>>
      BY <2>3, <3>2 DEF PiecesOf
    <3>4. x \in I
      BY <2>3, <2>4, <3>3
    <3>5. PICK i \in DOMAIN c : c[i] = text[x]
      BY <2>6, <3>4 DEF Picked
    <3> QED
      BY <2>9, <2>11, <3>3, <3>5
  <2>18. a = b
    <3>1. \A i, j \in 1..A : i < j => a[i] < a[j]
      BY <2>13
    <3>2. \A i, j \in 1..B : i < j => b[i] < b[j]
      BY <2>14
    <3>3. Increasing(a, A)
      BY <2>11, <3>1 DEF Increasing
    <3>4. Increasing(b, B)
      BY <2>12, <3>2 DEF Increasing
    <3>5. Among(a, A, b, B)
      BY <2>16 DEF Among
    <3>6. Among(b, B, a, A)
      BY <2>17 DEF Among
    <3> QED
      BY ONLY <3>3, <3>4, <3>5, <3>6, SameRising
  <2> QED
    BY <2>4, <2>5, <2>10, <2>18 DEF SignalsNamePoints
<1> QED
  BY OutputInvariance, <1>1, PTL

-----------------------------------------------------------------------------
(* Points in the file                                                       *)

LEMMA SameStretch ==
    ASSUME NEW F, NEW s, NEW L \in Nat, NEW b \in Nat, \A j \in 1..L : F[b + j] = s[j],
           NEW c \in Nat, NEW m \in Int, c >= 1, c + m <= L + 1,
           NEW o, o = b + c - 1
    PROVE  SubSeq(F, o + 1, o + m) = SubSeq(s, c, c + m - 1)
<1>1. PICK lo \in Int, hi \in Int, to \in Int : lo = o + 1 /\ hi = o + m /\ to = c + m - 1
  OBVIOUS
<1>2. CASE m <= 0
  <2>1. hi < lo /\ to < c /\ o \in Int
    BY <1>1, <1>2
  <2>2. SubSeq(F, lo, hi) = <<>>
    BY <2>1, SubSeqEmpty
  <2>3. SubSeq(s, c, to) = <<>>
    BY <2>1, SubSeqEmpty
  <2> QED
    BY <1>1, <2>2, <2>3
<1>3. CASE ~(m <= 0)
  <2>1. m \in Nat /\ hi - lo + 1 = m /\ to - c + 1 = m /\ lo <= hi /\ c <= to /\ lo = b + c /\ to <= L
    BY <1>1, <1>3
  <2>2. PICK S : S = {s[j] : j \in 1..L}
    OBVIOUS
  <2>3. \A i \in c..to : s[i] \in S
    BY <2>1, <2>2
  <2>4. ASSUME NEW i \in lo..hi PROVE F[i] \in S
    <3>1. i - b \in 1..L /\ b + (i - b) = i
      BY <1>1, <2>1
    <3> QED
      BY <2>2, <3>1
  <2>5. PICK u, v : u = SubSeq(F, lo, hi) /\ v = SubSeq(s, c, to)
    OBVIOUS
  <2>6. u \in Seq(S) /\ Len(u) = m /\ \A i \in 1..m : u[i] = F[lo + i - 1]
    <3>1. /\ SubSeq(F, lo, hi) \in Seq(S)
          /\ Len(SubSeq(F, lo, hi)) = IF lo <= hi THEN hi - lo + 1 ELSE 0
          /\ \A i \in 1..(hi - lo + 1) : SubSeq(F, lo, hi)[i] = F[lo + i - 1]
      BY <2>4, SubSeqProperties
    <3> QED
      BY <2>1, <2>5, <3>1
  <2>7. v \in Seq(S) /\ Len(v) = m /\ \A i \in 1..m : v[i] = s[c + i - 1]
    <3>0. c \in Int
      OBVIOUS
    <3>1. /\ SubSeq(s, c, to) \in Seq(S)
          /\ Len(SubSeq(s, c, to)) = IF c <= to THEN to - c + 1 ELSE 0
          /\ \A i \in 1..(to - c + 1) : SubSeq(s, c, to)[i] = s[c + i - 1]
      BY <2>3, <3>0, SubSeqProperties
    <3> QED
      BY <2>1, <2>5, <3>1
  <2>8. ASSUME NEW i \in 1..m PROVE u[i] = v[i]
    <3>1. PICK j \in 1..L : j = c + i - 1 /\ b + j = lo + i - 1
      BY <1>1, <2>1
    <3>2. F[b + j] = s[j]
      OBVIOUS
    <3> QED
      BY <2>6, <2>7, <3>1, <3>2
  <2>9. u = v
    BY <2>6, <2>7, <2>8, SeqEqual
  <2> QED
    BY <1>1, <2>5, <2>9
<1> QED
  BY <1>2, <1>3

\* For any files, and any quoting of their bodies: the place in the file that a point
\* names has the text that was instrumented, and no two points of a file begin at the
\* same place.
THEOREM PointsAreInPlace == Spec => []PointsLocateTheirText
<1>1. OInv => PointsLocateTheirText
  <2> SUFFICES ASSUME OInv PROVE PointsLocateTheirText
    OBVIOUS
  <2>1. FileOK /\ StatementOK /\ MarkedOK
    BY DEF OInv, SInv
  <2>2. ASSUME pc = "done", ~Loaded, NEW i \in DOMAIN locations, NEW l, l = locations[i]
        PROVE  SubSeq(FileText(file), Absolute(l).start + 1, Absolute(l).start + l.length)
                   = SubSeq(body, l.start, l.start + l.length - 1)
    <3>1. Output
      BY <2>1, <2>2, OutputOfStatement
    <3>2. PICK L \in Nat, b \in Nat : L = Len(body) /\ b = Base /\ \A j \in 1..L : FileText(file)[b + j] = body[j]
      BY <2>1, <2>2, BodyAtBase
    <3>3. Rising(locations, 1, L + 1) /\ EndOfPoint(l) <= L + 1
      BY <2>2, <3>1, <3>2 DEF Output
    <3>4. l \in Located
      BY <2>2, <3>3, RisingTyped DEF Rising
    <3>5. PICK c \in Nat, m \in Int : c = l.start /\ m = l.length
      BY <3>4 DEF Located
    <3>6. c >= 1 /\ c + m <= L + 1
      BY <2>2, <3>3, <3>5 DEF Rising, EndOfPoint
    <3>7. Absolute(l).start = b + c - 1
      <4>1. Absolute(l) = [l EXCEPT !.start = b + c - 1]
        BY <3>2, <3>5 DEF Absolute
      <4> QED
        BY <3>4, <4>1 DEF Located
    <3>8. PICK F, s, o : F = FileText(file) /\ s = body /\ o = Absolute(l).start
      OBVIOUS
    <3>9. SubSeq(F, o + 1, o + m) = SubSeq(s, c, c + m - 1)
      <4>1. \A j \in 1..L : F[b + j] = s[j]
        BY <3>2, <3>8
      <4> QED
        BY <3>6, <3>7, <3>8, <4>1, SameStretch
    <3> QED
      BY <3>5, <3>8, <3>9
  <2>3. ASSUME NEW i \in DOMAIN points, NEW j \in DOMAIN points, i # j
        PROVE  points[i].start # points[j].start
    <3>1. Rising(points, 0, WrittenTo) /\ points \in Seq(Located)
      BY DEF OInv, PointsRise, Rising
    <3>2. /\ i \in Nat /\ points[i].start \in Nat /\ j \in Nat /\ points[j].start \in Nat
      BY <2>3, <3>1, RisingTyped
    <3>3. i < j \/ j < i
      BY <2>3, <3>2
    <3>4. points[i].start < points[j].start \/ points[j].start < points[i].start
      BY <2>3, <3>1, <3>3 DEF Rising
    <3> QED
      BY <3>2, <3>4
  <2> QED
    BY <2>2, <2>3 DEF PointsLocateTheirText
<1> QED
  BY OutputInvariance, <1>1, PTL

-----------------------------------------------------------------------------
(* What is taken for the body                                               *)

\* Groups are told apart by where they begin.
LEMMA GroupAt ==
    ASSUME NEW f \in Files, NEW g \in DOMAIN f, NEW h \in DOMAIN f,
           Len(FileText(SubSeq(f, 1, g - 1))) = Len(FileText(SubSeq(f, 1, h - 1)))
    PROVE  g = h
<1>1. f \in Seq(Seq(Tokens))
  BY StatementsAre
<1>2. PICK L \in Nat : L = Len(f) /\ DOMAIN f = 1..L
  BY <1>1, LenProperties
<1>3. PICK a \in Seq(Seq(Letters)) : a = RawsOf(f) /\ Len(a) = L /\ \A m \in 0..L : FileText(SubSeq(f, 1, m)) = JoinedTo(a, m)
  BY <1>1, <1>2, FileTextIs
<1>4. \A x \in 1..L : Len(FileText(SubSeq(f, 1, x - 1))) = StartIn(a, x)
  <2>1. \A x \in 1..L : x - 1 \in 0..L
    OBVIOUS
  <2> QED
    BY <1>3, <2>1 DEF StartIn
<1>5. ASSUME NEW x \in 1..L PROVE Len(a[x]) \in Nat /\ Len(a[x]) >= 1
  <2>1. PICK tokens \in Seq(Tokens) : tokens = f[x]
    BY <1>1, <1>2, ElementOfSeq
  <2>2. tokens # <<>>
    BY <1>2, <2>1, FilesAssumption
  <2>3. a[x] = RawText(tokens)
    BY <1>2, <1>3, <2>1 DEF RawsOf
  <2> QED
    BY <2>1, <2>2, <2>3, RawTextTyped
<1>6. ASSUME NEW x \in 1..L, NEW y \in 1..L, x < y PROVE StartIn(a, x) < StartIn(a, y)
  <2>1. x \in 1..(L + 1) /\ x + 1 \in 1..(L + 1) /\ y \in 1..(L + 1) /\ x + 1 <= y
    BY <1>6
  <2>2. StartIn(a, x) \in Nat /\ StartIn(a, y) \in Nat /\ StartIn(a, x + 1) = StartIn(a, x) + Len(a[x])
    BY <1>3, <2>1, StartsIn
  <2>3. StartIn(a, x + 1) <= StartIn(a, y)
    BY <1>3, <2>1, StartsIn
  <2>4. Len(a[x]) \in Nat /\ Len(a[x]) >= 1
    BY <1>5
  <2> QED
    BY <2>2, <2>3, <2>4
<1>7. g \in 1..L /\ h \in 1..L /\ StartIn(a, g) = StartIn(a, h)
  BY <1>2, <1>4
<1>8. StartIn(a, g) \in Nat
  <2>1. g \in 1..(L + 1)
    BY <1>7
  <2> QED
    BY <1>3, <2>1, StartsIn
<1>9. ~(g < h) /\ ~(h < g)
  BY <1>6, <1>7, <1>8
<1> QED
  BY <1>7, <1>9

LEMMA TypeOfInstrumented ==
    ASSUME NEW f \in Files, NEW k, NEW g, Made(f, k, g), NEW s, s = SplitAndClassify(f)[k],
           KindOf(s) \in {"plpgsql", "sql"}
    PROVE  s.type \in {"do", "function", "procedure"}
<1>1. PICK sig, type : sig = Significant(f[g]) /\ type = ClassifyTokens(sig)
  OBVIOUS
<1>2. type \in {"do", "function", "procedure", "other"}
  BY <1>1 DEF ClassifyTokens
<1>3. PICK b : b = BodyOf(type, sig)
  OBVIOUS
<1>4. PICK language : language = IF type = "other" THEN "" ELSE LanguageOf(type, sig)
  OBVIOUS
<1>6. s.type = type /\ s.language = language
  <2>1. PICK raw, start, x, y : raw = RawText(f[g]) /\ start = StartIn(RawsOf(f), g) /\ x = b.body /\ y = b.bodyStart
    OBVIOUS
  <2>2. Statement(f[g], start) =
            [raw |-> raw, startPos |-> start, type |-> type, language |-> language, body |-> x, bodyStart |-> y]
    BY <1>1, <1>3, <1>4, <2>1 DEF Statement
  <2>3. s = Statement(f[g], start)
    BY <2>1 DEF Made
  <2> QED
    BY <2>2, <2>3
<1>5. ASSUME type = "other" PROVE FALSE
  <2>1. s.type = "other" /\ s.language = ""
    BY <1>4, <1>5, <1>6
  <2>2. KindOf(s) = "other"
    BY <2>1 DEF KindOf
  <2> QED
    BY <2>2
<1> QED
  BY <1>2, <1>5, <1>6

\* For any files: in a function the constant after the first AS before a constant is
\* taken for the body, in a DO block the first constant, which is the body unless it is
\* the name of the language.
THEOREM BodiesAreFound == Spec => []BodyIsFound
<1>1. FileOK => BodyIsFound
  <2> SUFFICES ASSUME FileOK, NEW k \in DOMAIN statements, KindOf(statements[k]) \in {"plpgsql", "sql"}
               PROVE  LET s == statements[k]
                          g == CHOOSE h \in DOMAIN file : Len(FileText(SubSeq(file, 1, h - 1))) = s.startPos
                          sig == Significant(file[g])
                          constants == {i \in DOMAIN sig : IsConstant(sig[i].token)}
                          definitions ==
                              {i \in constants : IF s.type = "do" THEN ~IsIdent(sig, i - 1, "LANGUAGE")
                                                                 ELSE IsIdent(sig, i - 1, "AS")}
                      IN \/ s.type = "do" /\ Min(constants) \notin definitions
                         \/ s.body = IF definitions = {} THEN <<>> ELSE sig[Min(definitions)].token.inner
    BY DEF BodyIsFound
  <2>1. file \in Files /\ statements = SplitAndClassify(file)
    BY DEF FileOK
  <2>2. PICK s : s = statements[k]
    OBVIOUS
  <2>3. PICK x : Made(file, k, x)
    BY <2>1, MadeOfGroups
  <2>4. /\ s.startPos = StartIn(RawsOf(file), x) /\ file[x] \in Seq(Tokens)
        /\ s.body = BodyOf(s.type, Significant(file[x])).body /\ s.type = ClassifyTokens(Significant(file[x]))
    BY <2>1, <2>2, <2>3, StatementInPlace
  <2>5. PICK g : g = CHOOSE h \in DOMAIN file : Len(FileText(SubSeq(file, 1, h - 1))) = s.startPos
    OBVIOUS
  <2>6. g = x
    <3>1. x \in DOMAIN file
      BY <2>3 DEF Made
    <3>2. Len(FileText(SubSeq(file, 1, x - 1))) = s.startPos
      <4>1. file \in Seq(Seq(Tokens))
        BY <2>1, StatementsAre
      <4>2. x - 1 \in 0..Len(file)
        BY <3>1, <4>1, LenProperties
      <4> QED
        BY <2>4, <4>1, <4>2, FileTextIs DEF StartIn
    <3>3. g \in DOMAIN file /\ Len(FileText(SubSeq(file, 1, g - 1))) = s.startPos
      BY <2>5, <3>1, <3>2
    <3> QED
      BY <2>1, <3>1, <3>2, <3>3, GroupAt
  <2>7. PICK sig : sig = Significant(file[g])
    OBVIOUS
  <2>8. PICK L \in Nat : L = Len(sig) /\ DOMAIN sig = 1..L
    BY <2>4, <2>6, <2>7, SignificantAre
  <2>9. PICK constants : constants = {i \in DOMAIN sig : IsConstant(sig[i].token)}
    OBVIOUS
  <2>10. PICK definitions : definitions = {i \in constants : IF s.type = "do" THEN ~IsIdent(sig, i - 1, "LANGUAGE")
                                                                              ELSE IsIdent(sig, i - 1, "AS")}
    OBVIOUS
  <2>11. constants \in SUBSET Nat /\ definitions \in SUBSET Nat /\ definitions \in SUBSET constants
    BY <2>8, <2>9, <2>10
  <2>12. s.body = BodyOf(s.type, sig).body /\ s.type = ClassifyTokens(sig)
    BY <2>4, <2>6, <2>7
  <2>13. NoBody.body = <<>> /\ \A i : UnquoteString(sig[i]).body = sig[i].token.inner
    BY DEF NoBody, UnquoteString
  <2>14. CASE s.type = "do" /\ Min(constants) \in definitions
    <3>1. IsIdent(sig, 1, "DO")
      BY <2>12, <2>14 DEF ClassifyTokens
    <3>2. 1 \in DOMAIN sig /\ sig[1].token.text = "DO"
      BY <3>1 DEF IsIdent
    <3>3. 1 \notin constants
      <4>1. PICK y \in DOMAIN file[x] : sig[1] = Positioned(file[x])[y]
        BY <2>4, <2>6, <2>7, <3>2, SignificantAre
      <4>2. sig[1].token = file[x][y]
        BY <4>1 DEF Positioned
      <4>3. IsConstant(file[x][y]) => file[x][y].text = "constant"
        BY <2>1, <2>3, <4>1, FilesAssumption DEF Made
      <4>4. "DO" # "constant"
        OBVIOUS
      <4> QED
        BY <2>9, <3>2, <4>2, <4>3, <4>4
    <3>4. PICK places : places = {i \in 2..Len(sig) : IsConstant(sig[i].token)}
      OBVIOUS
    <3>5. places = constants
      <4>1. \A i : i \in places <=> i \in constants
        BY <2>8, <2>9, <3>3, <3>4
      <4> QED
        BY <4>1
    <3>6. BodyOf(s.type, sig) = IF places = {} THEN NoBody ELSE UnquoteString(sig[Min(places)])
      BY <2>14, <3>4 DEF BodyOf, ExtractDOBody
    <3>7. definitions # {} /\ constants # {}
      BY <2>11, <2>14
    <3>8. s.body = sig[Min(constants)].token.inner
      BY <2>12, <2>13, <3>5, <3>6, <3>7
    <3>9. Min(definitions) = Min(constants)
      <4>1. Min(definitions) \in definitions /\ \A i \in definitions : Min(definitions) <= i
        BY <2>11, <3>7, LeastMember
      <4>2. Min(constants) \in constants /\ \A i \in constants : Min(constants) <= i
        BY <2>11, <3>7, LeastMember
      <4>3. Min(definitions) <= Min(constants) /\ Min(constants) <= Min(definitions)
        BY <2>11, <2>14, <4>1, <4>2
      <4>4. Min(definitions) \in Nat /\ Min(constants) \in Nat
        BY <2>11, <4>1, <4>2
      <4> QED
        BY <4>3, <4>4
    <3>10. s.body = IF definitions = {} THEN <<>> ELSE sig[Min(definitions)].token.inner
      BY <3>7, <3>8, <3>9
    <3> QED
      BY <2>2, <2>5, <2>7, <2>9, <2>10, <3>10
  <2>15. CASE s.type \in {"function", "procedure"}
    <3>1. PICK places : places = {i \in 1..(Len(sig) - 1) : IsIdent(sig, i, "AS") /\ IsConstant(sig[i + 1].token)}
      OBVIOUS
    <3>2. BodyOf(s.type, sig) = IF places = {} THEN NoBody ELSE UnquoteString(sig[Min(places) + 1])
      BY <2>15, <3>1 DEF BodyOf, ExtractBody
    <3>3. \A i \in places : i + 1 \in definitions
      <4>1. \A i \in places : i + 1 \in DOMAIN sig /\ (i + 1) - 1 = i /\ IsConstant(sig[i + 1].token) /\ IsIdent(sig, i, "AS")
        BY <2>8, <3>1
      <4> QED
        BY <2>9, <2>10, <2>15, <4>1
    <3>4. \A i \in definitions : i - 1 \in places /\ i \in Nat
      <4>1. ASSUME NEW i \in definitions PROVE i - 1 \in places
        <5>1. i \in 1..L /\ IsConstant(sig[i].token) /\ IsIdent(sig, i - 1, "AS")
          BY <2>8, <2>9, <2>10, <2>15, <4>1
        <5>2. i - 1 \in 1..L
          BY <2>8, <5>1 DEF IsIdent
        <5>3. PICK j : j = i - 1
          OBVIOUS
        <5>4. j \in 1..(L - 1) /\ j + 1 = i
          BY <5>1, <5>2, <5>3
        <5>5. j \in places
          BY <2>8, <3>1, <5>1, <5>3, <5>4
        <5> QED
          BY <5>3, <5>5
      <4> QED
        BY <2>11, <4>1
    <3>5. CASE places = {}
      <4>1. definitions = {}
        BY <3>4, <3>5
      <4>2. s.body = <<>>
        BY <2>12, <2>13, <3>2, <3>5
      <4> QED
        BY <2>2, <2>5, <2>7, <2>9, <2>10, <4>1, <4>2
    <3>6. CASE places # {}
      <4>1. places \in SUBSET Nat
        BY <2>8, <3>1
      <4>2. PICK p \in places : p = Min(places) /\ \A i \in places : p <= i
        BY <3>6, <4>1, LeastMember
      <4>3. definitions # {}
        BY <3>3, <4>2
      <4>4. PICK q \in definitions : q = Min(definitions) /\ \A i \in definitions : q <= i
        BY <2>11, <4>3, LeastMember
      <4>5. p \in Nat /\ q \in Nat /\ q <= p + 1 /\ p <= q - 1
        BY <2>11, <3>3, <3>4, <4>1, <4>2, <4>4
      <4>6. q = p + 1
        BY <4>5
      <4>7. s.body = sig[Min(definitions)].token.inner
        BY <2>12, <2>13, <3>2, <3>6, <4>2, <4>4, <4>6
      <4> QED
        BY <2>2, <2>5, <2>7, <2>9, <2>10, <4>3, <4>7
    <3> QED
      BY <3>5, <3>6
  <2>16. s.type \in {"do", "function", "procedure"}
    BY <2>1, <2>2, <2>3, TypeOfInstrumented
  <2>17. CASE s.type = "do" /\ Min(constants) \notin definitions
    BY <2>2, <2>5, <2>7, <2>9, <2>10, <2>17
  <2> QED
    BY <2>14, <2>15, <2>16, <2>17
<1>2. OInv => FileOK
  BY DEF OInv, SInv
<1> QED
  BY OutputInvariance, <1>1, <1>2, PTL

-----------------------------------------------------------------------------
(* The modes of the grammar                                                 *)

\* What a token that is no error makes of the mode.
Step(s, t, a) ==
    \/ a = s /\ t = "COMMENT"
    \/ a = s /\ t = "signal" /\ s.mode = "statement"
    \/ a = Run!Then(s, "declaration") /\ t = "DECLARE" /\ s.mode \in {"start", "statement"}
    \/ a = Run!Then(s, "declared") /\ t = "word" /\ s.mode = "declaration"
    \/ a = Run!Then(s, "declaration") /\ t = ";" /\ s.mode = "declared"
    \/ a = Run!Then(s, "semicolon") /\ t \in {"word", "RETURN", "DIAGNOSTICS", "COMMIT", "EXIT"} /\ s.mode = "statement"
    \/ a = Run!Then(s, "level") /\ t = "RAISE" /\ s.mode = "statement"
    \/ a = Run!Then(s, "semicolon") /\ t = "NOTICE" /\ s.mode = "level"
    \/ a = Run!Then(s, Run!AfterSemicolon(s)) /\ t = ";" /\ s.mode \in {"semicolon", "level"}
    \/ a = Run!Enter(s, "BEGIN") /\ t = "BEGIN" /\ s.mode \in {"start", "statement", "declaration"}
    \/ a = Run!Enter(s, "IF") /\ t = "IF" /\ s.mode = "statement"
    \/ a = Run!Enter(s, "LOOP") /\ t \in {"LOOP", "WHILE"} /\ s.mode = "statement"
    \/ a = Run!Swap(s, "ELSE") /\ t = "ELSE" /\ s.mode = "statement" /\ Run!Inside(s, "IF")
    \/ a = Run!Swap(s, "EXCEPTION") /\ t = "EXCEPTION" /\ s.mode = "statement" /\ Run!Inside(s, "BEGIN")
    \/ a = Run!Leave(s) /\ t = "END" /\ s.mode = "statement" /\ s.stack # <<>>

\* The grammar takes a token without an error only in these ways.
LEMMA AcceptStep ==
    ASSUME NEW s \in State, NEW t, NEW a, a = Run!Accept(s, t), a.mode # "error"
    PROVE  Step(s, t, a)
<1>0. a # Run!Then(s, "error")
  BY ThenState DEF Modes
<1>1. CASE t = "COMMENT"
  BY <1>1 DEF Run!Accept, Step
<1>2. CASE t = "DECLARE"
  BY <1>0, <1>2 DEF Run!Accept, Step
<1>3. CASE t = "BEGIN"
  BY <1>0, <1>3 DEF Run!Accept, Step
<1>4. CASE t = "word"
  BY <1>0, <1>4 DEF Run!Accept, Step
<1>5. CASE t = ";"
  BY <1>0, <1>5 DEF Run!Accept, Step
<1>6. CASE t \in {"RETURN", "DIAGNOSTICS", "COMMIT"}
  BY <1>0, <1>6 DEF Run!Accept, Step
<1>9. CASE t = "EXIT"
  BY <1>0, <1>9 DEF Run!Accept, Step
<1>10. CASE t = "RAISE"
  BY <1>0, <1>10 DEF Run!Accept, Step
<1>11. CASE t = "NOTICE"
  BY <1>0, <1>11 DEF Run!Accept, Step
<1>12. CASE t = "signal"
  BY <1>0, <1>12 DEF Run!Accept, Step
<1>13. CASE t = "IF"
  BY <1>0, <1>13 DEF Run!Accept, Step
<1>14. CASE t \in {"LOOP", "WHILE"}
  BY <1>0, <1>14 DEF Run!Accept, Step
<1>16. CASE t = "ELSE"
  BY <1>0, <1>16 DEF Run!Accept, Step
<1>17. CASE t = "EXCEPTION"
  BY <1>0, <1>17 DEF Run!Accept, Step
<1>18. CASE t = "END"
  BY <1>0, <1>18 DEF Run!Accept, Step
<1>20. CASE t \notin {"COMMENT", "DECLARE", "BEGIN", "word", ";", "RETURN", "DIAGNOSTICS", "COMMIT", "EXIT", "RAISE", "NOTICE", "signal", "IF", "LOOP", "WHILE", "ELSE", "EXCEPTION", "END"}
  BY <1>0, <1>20 DEF Run!Accept
<1> QED
  BY <1>1, <1>2, <1>3, <1>4, <1>5, <1>6, <1>9, <1>10, <1>11, <1>12, <1>13, <1>14, <1>16, <1>17, <1>18, <1>20

Declaring(s) == s.mode \in {"declaration", "declared"}

\* Where each token may be, and what it leaves.
ModeMoves(s, t, a) ==
    /\ Declaring(a) /\ t # "DECLARE" => Declaring(s) /\ t # "BEGIN"
    /\ t = "DECLARE" => Declaring(a)
    /\ Declaring(s) /\ t # "BEGIN" => Declaring(a)
    /\ s.mode = "declaration" /\ t \notin {"COMMENT", "BEGIN"} => t = "word" /\ a.mode = "declared"
    /\ s.mode = "declared" /\ t # ";" => t = "COMMENT" /\ a.mode = "declared"
    /\ t = ";" => \/ s.mode = "declared" /\ a.mode = "declaration"
                  \/ s.mode \in {"semicolon", "level"} /\ a.mode = Run!AfterSemicolon(s)
    /\ s.mode = "end" => t = "COMMENT"
    /\ t = "BEGIN" => a.mode = "statement"
    /\ t \in {"RETURN", "RAISE"} => s.mode = "statement" /\ a.mode \in {"semicolon", "level"}
    /\ t = "COMMENT" => a = s
    /\ s.mode \in {"semicolon", "level"} /\ t # ";" => a.mode \in {"semicolon", "level"}
    /\ t = "signal" => s.mode = "statement" /\ a = s
    /\ t = "END" => s.mode = "statement"
    /\ t \in {"IF", "WHILE", "ELSE"} => a.mode = "statement"
    /\ s.mode = "statement" /\ t \in {"word", "RETURN", "DIAGNOSTICS", "COMMIT", "EXIT", "RAISE"} =>
          a.mode \in {"semicolon", "level"}
    /\ s.mode = "statement" => \/ t \in {"COMMENT", "signal", "IF", "WHILE", "ELSE"} \cup Structural
                               \/ t \in {"word", "RETURN", "DIAGNOSTICS", "COMMIT", "EXIT", "RAISE"}
    /\ a.mode \in {"start", "end"} => t \in {"COMMENT", ";"}

\* So it does with the modes.
LEMMA AcceptMoves ==
    ASSUME NEW s \in State, NEW t, NEW a, a = Run!Accept(s, t), a.mode # "error"
    PROVE  ModeMoves(s, t, a)
<1>1. /\ Run!Then(s, "declaration").mode = "declaration" /\ Run!Then(s, "declared").mode = "declared"
      /\ Run!Then(s, "semicolon").mode = "semicolon" /\ Run!Then(s, "level").mode = "level"
  BY ThenState DEF Modes
<1>2. /\ Run!Then(s, Run!AfterSemicolon(s)).mode = Run!AfterSemicolon(s) /\ Run!AfterSemicolon(s) \in {"end", "statement"}
  BY ThenState DEF Modes, Run!AfterSemicolon
<1>3. /\ Run!Enter(s, "BEGIN").mode = "statement" /\ Run!Enter(s, "IF").mode = "statement"
      /\ Run!Enter(s, "LOOP").mode = "statement"
  BY DEF Run!Enter
<1>4. Run!Leave(s).mode = "semicolon"
  BY DEF Run!Leave
<1>5. /\ Run!Inside(s, "IF") => Run!Swap(s, "ELSE").mode = s.mode
      /\ Run!Inside(s, "BEGIN") => Run!Swap(s, "EXCEPTION").mode = s.mode
  BY SwapState DEF Run!Inside, Open
<1>6. Step(s, t, a)
  BY AcceptStep
<1> QED
  BY <1>1, <1>2, <1>3, <1>4, <1>5, <1>6 DEF Step, ModeMoves, Declaring, Structural

\* What is open is a block, and whatever is inside of it.
Sound(s) ==
    /\ s \in State
    /\ s.stack # <<>> => s.stack[1] \in {"BEGIN", "EXCEPTION"}
    /\ s.mode \in {"statement", "level"} => s.stack # <<>>

\* Inside a statement that has begun, and does not end the body.
Begins0(s) ==
    \/ s.mode \in {"semicolon", "level"} /\ Len(s.stack) >= 1
    \/ s.mode \in {"statement", "declaration", "declared"} /\ Len(s.stack) >= 2

\* How high the stack is, and what is at its bottom.
Floor(s, t, a) ==
    /\ Len(s.stack) \in Nat /\ Len(a.stack) \in Nat
    /\ s.stack = <<>> <=> Len(s.stack) = 0
    /\ a.stack = <<>> <=> Len(a.stack) = 0
    /\ \/ a.stack = s.stack
       \/ /\ Len(a.stack) = Len(s.stack) + 1 /\ a.mode = "statement"
          /\ Len(s.stack) >= 1 => a.stack[1] = s.stack[1]
          /\ Len(s.stack) = 0 => t = "BEGIN" /\ a.stack[1] = "BEGIN"
       \/ /\ Len(a.stack) = Len(s.stack) /\ a.mode = "statement"
          /\ Len(s.stack) >= 2 /\ a.stack[1] = s.stack[1]
       \/ /\ Len(a.stack) = Len(s.stack) /\ a.mode = "statement" /\ t = "EXCEPTION"
          /\ Len(s.stack) = 1 /\ a.stack[1] = "EXCEPTION"
       \/ /\ Len(a.stack) = Len(s.stack) - 1 /\ a.mode = "semicolon" /\ t = "END"
          /\ Len(a.stack) >= 1 => a.stack[1] = s.stack[1]
    /\ t \in {"IF", "WHILE"} => Len(a.stack) = Len(s.stack) + 1
    /\ t = "ELSE" => Len(s.stack) >= 2

\* And so with the stack: the block at its bottom stays until it ends.
LEMMA AcceptFloor ==
    ASSUME NEW s, Sound(s), NEW t, NEW a, a = Run!Accept(s, t), a.mode # "error"
    PROVE  Floor(s, t, a)
<1>0. s \in State /\ s.stack \in Seq(Open) /\ Len(s.stack) \in Nat /\ (s.stack = <<>> <=> Len(s.stack) = 0)
  BY LenProperties, EmptySeq DEF Sound, State
<1>1. a \in State /\ a.stack \in Seq(Open) /\ Len(a.stack) \in Nat /\ (a.stack = <<>> <=> Len(a.stack) = 0)
  <2>1. a \in State
    BY <1>0, AcceptTyped
  <2> QED
    BY <2>1, LenProperties, EmptySeq DEF State
<1>2. Step(s, t, a)
  BY <1>0, AcceptStep
<1> DEFINE Plain == {"COMMENT", "signal", "DECLARE", "word", ";", "RETURN", "DIAGNOSTICS", "COMMIT", "EXIT", "RAISE", "NOTICE"}
<1>3. CASE a.stack = s.stack /\ t \in Plain
  BY <1>0, <1>1, <1>3 DEF Floor
<1>4. ASSUME NEW m \in Modes, a = Run!Then(s, m) PROVE a.stack = s.stack
  BY <1>0, <1>4, ThenState
<1>5. ASSUME NEW c \in {"BEGIN", "IF", "LOOP"}, a = Run!Enter(s, c), c # "BEGIN" => s.stack # <<>>,
             t \in {"BEGIN", "IF", "LOOP", "WHILE"}, t = "BEGIN" <=> c = "BEGIN"
      PROVE  Floor(s, t, a)
  <2>0. c \in Open
    BY DEF Open
  <2>1. PICK L \in Nat : L = Len(s.stack)
    BY <1>0
  <2>2. /\ Len(a.stack) = L + 1 /\ a.mode = "statement" /\ a.stack[L + 1] = c
        /\ \A i \in 1..L : a.stack[i] = s.stack[i]
    BY <1>0, <1>5, <2>0, <2>1, EnterState
  <2>3. L >= 1 => a.stack[1] = s.stack[1]
    BY <2>2
  <2>4. L = 0 => t = "BEGIN" /\ a.stack[1] = "BEGIN"
    BY <1>0, <1>5, <2>1, <2>2
  <2> QED
    BY <1>0, <1>1, <1>5, <2>1, <2>2, <2>3, <2>4 DEF Floor
<1>6. ASSUME a = Run!Swap(s, "ELSE"), t = "ELSE", Run!Inside(s, "IF"), s.mode = "statement"
      PROVE  Floor(s, t, a)
  <2>1. s.stack # <<>> /\ s.stack[Len(s.stack)] = "IF" /\ "ELSE" \in Open
    BY <1>6 DEF Run!Inside, Open
  <2>2. PICK L \in Nat : L = Len(s.stack)
    BY <1>0
  <2>3. L # 1
    BY <2>1, <2>2 DEF Sound
  <2>3a. s.stack # <<>>
    BY <2>1
  <2>3b. L # 0
    BY <1>0, <2>2, <2>3a
  <2>4. L >= 2
    BY ONLY <2>3, <2>3b, L \in Nat
  <2>5. Len(a.stack) = L /\ a.mode = "statement" /\ \A i \in 1..(L - 1) : a.stack[i] = s.stack[i]
    BY <1>0, <1>6, <2>1, <2>2, SwapState
  <2>6. a.stack[1] = s.stack[1]
    BY <2>4, <2>5
  <2> QED
    BY <1>0, <1>1, <1>6, <2>2, <2>4, <2>5, <2>6 DEF Floor
<1>7. ASSUME a = Run!Swap(s, "EXCEPTION"), t = "EXCEPTION", Run!Inside(s, "BEGIN"), s.mode = "statement"
      PROVE  Floor(s, t, a)
  <2>1. s.stack # <<>> /\ "EXCEPTION" \in Open
    BY <1>7 DEF Run!Inside, Open
  <2>2. PICK L \in Nat : L = Len(s.stack)
    BY <1>0
  <2>4. L >= 1
    BY <1>0, <2>1, <2>2
  <2>5. /\ Len(a.stack) = L /\ a.mode = "statement" /\ \A i \in 1..(L - 1) : a.stack[i] = s.stack[i]
        /\ a.stack[L] = "EXCEPTION"
    BY <1>0, <1>7, <2>1, <2>2, SwapState
  <2>6. CASE L = 1
    BY <1>0, <1>1, <1>7, <2>2, <2>5, <2>6 DEF Floor
  <2>7. CASE L >= 2
    <3>1. a.stack[1] = s.stack[1]
      BY <2>5, <2>7
    <3> QED
      BY <1>0, <1>1, <1>7, <2>2, <2>5, <2>7, <3>1 DEF Floor
  <2> QED
    BY <2>4, <2>6, <2>7
<1>8. ASSUME a = Run!Leave(s), t = "END", s.stack # <<>>
      PROVE  Floor(s, t, a)
  <2>2. PICK L \in Nat : L = Len(s.stack)
    BY <1>0
  <2>4. L >= 1
    BY <1>0, <1>8, <2>2
  <2>5. Len(a.stack) = L - 1 /\ a.mode = "semicolon" /\ \A i \in 1..(L - 1) : a.stack[i] = s.stack[i]
    BY <1>0, <1>8, <2>2, LeaveState
  <2>6. L - 1 >= 1 => a.stack[1] = s.stack[1]
    BY <2>4, <2>5
  <2> QED
    BY <1>0, <1>1, <1>8, <2>2, <2>4, <2>5, <2>6 DEF Floor
<1>9. /\ s.mode = "statement" => s.stack # <<>>
      /\ {"declaration", "declared", "semicolon", "level", "statement", "end"} \subseteq Modes
      /\ Run!AfterSemicolon(s) \in {"end", "statement"}
  BY DEF Sound, Modes, Run!AfterSemicolon
<1>10. a = s \/ (\E m \in Modes : a = Run!Then(s, m)) => a.stack = s.stack
  BY <1>4
<1>11. \/ a = s /\ t \in Plain
       \/ (\E m \in Modes : a = Run!Then(s, m)) /\ t \in Plain
       \/ a = Run!Enter(s, "BEGIN") /\ t = "BEGIN"
       \/ a = Run!Enter(s, "IF") /\ t = "IF" /\ s.mode = "statement"
       \/ a = Run!Enter(s, "LOOP") /\ t \in {"LOOP", "WHILE"} /\ s.mode = "statement"
       \/ a = Run!Swap(s, "ELSE") /\ t = "ELSE" /\ s.mode = "statement" /\ Run!Inside(s, "IF")
       \/ a = Run!Swap(s, "EXCEPTION") /\ t = "EXCEPTION" /\ s.mode = "statement" /\ Run!Inside(s, "BEGIN")
       \/ a = Run!Leave(s) /\ t = "END" /\ s.stack # <<>>
  BY <1>2, <1>9 DEF Step
<1> QED
  BY <1>3, <1>5, <1>6, <1>7, <1>8, <1>9, <1>10, <1>11

\* Taking a token keeps the state sound.
LEMMA SoundStep ==
    ASSUME NEW s, Sound(s), NEW t, NEW a, a = Run!Accept(s, t), a.mode # "error"
    PROVE  Sound(a)
<1>1. Floor(s, t, a)
  BY AcceptFloor
<1>2. s \in State /\ a \in State /\ Step(s, t, a)
  BY AcceptTyped, AcceptStep DEF Sound
<1>3. a.stack # <<>> => a.stack[1] \in {"BEGIN", "EXCEPTION"}
  <2> SUFFICES ASSUME a.stack # <<>> PROVE a.stack[1] \in {"BEGIN", "EXCEPTION"}
    OBVIOUS
  <2>1. Len(a.stack) # 0 /\ Len(s.stack) \in Nat /\ Len(a.stack) \in Nat
    BY <1>1 DEF Floor
  <2>2. Len(s.stack) # 0 => s.stack[1] \in {"BEGIN", "EXCEPTION"}
    BY <1>1 DEF Floor, Sound
  <2>3. \/ a.stack[1] = s.stack[1] /\ Len(s.stack) # 0
        \/ a.stack[1] \in {"BEGIN", "EXCEPTION"}
    BY <1>1, <2>1 DEF Floor
  <2> QED
    BY <2>2, <2>3
<1>4. a.mode \in {"statement", "level"} => a.stack # <<>>
  <2> SUFFICES ASSUME a.mode \in {"statement", "level"}, a.stack = <<>> PROVE FALSE
    OBVIOUS
  <2>1. Len(a.stack) = 0 /\ Len(s.stack) \in Nat
    BY <1>1 DEF Floor
  <2>2. a.stack = s.stack
    BY <1>1, <2>1 DEF Floor
  <2>3. s.stack = <<>> /\ s.mode \notin {"statement", "level"} /\ Len(s.stack) = 0
    BY <1>1, <2>2 DEF Sound, Floor
  <2>4. Run!AfterSemicolon(s) = "end"
    BY <2>3 DEF Run!AfterSemicolon
  <2>5. /\ Run!Then(s, "declaration").mode = "declaration" /\ Run!Then(s, "declared").mode = "declared"
        /\ Run!Then(s, "end").mode = "end"
    BY <1>2, ThenState DEF Modes
  <2>6. a # Run!Enter(s, "BEGIN")
    <3>1. PICK b : b = Run!Enter(s, "BEGIN")
      OBVIOUS
    <3>2. "BEGIN" \in Open
      BY DEF Open
    <3>3. Len(b.stack) = Len(s.stack) + 1
      BY <1>2, <3>1, <3>2, EnterState
    <3>4. Len(b.stack) = 1
      BY <2>3, <3>3
    <3>5. a # b
      BY <2>1, <3>4
    <3> QED
      BY <3>1, <3>5
  <2>7. \/ a = s \/ a = Run!Then(s, "declaration") \/ a = Run!Then(s, "declared") \/ a = Run!Then(s, "end")
    BY <1>2, <2>3, <2>4, <2>6 DEF Step
  <2>8. a # s
    BY <2>3
  <2> QED
    BY <2>5, <2>7, <2>8
<1> QED
  BY <1>2, <1>3, <1>4 DEF Sound

\* A statement other than the one that is the body ...
LEMMA StatementBegins ==
    ASSUME NEW s, Sound(s), s.mode = "statement", NEW t, NEW a, a = Run!Accept(s, t), a.mode # "error",
           t \notin {"COMMENT", "signal"} \cup Structural
    PROVE  Begins0(a)
<1>1. Floor(s, t, a)
  BY AcceptFloor
<1>2. ModeMoves(s, t, a)
  BY AcceptMoves DEF Sound
<1>3. /\ Len(s.stack) \in Nat /\ Len(a.stack) \in Nat /\ Len(s.stack) # 0
  BY <1>1 DEF Floor, Sound
<1>4. t \notin Structural /\ t # "END" /\ t # "EXCEPTION"
  BY DEF Structural
<1>5. CASE t \in {"IF", "WHILE", "ELSE"}
  <2>1. a.mode = "statement"
    BY <1>2, <1>5 DEF ModeMoves
  <2>2. Len(a.stack) >= 2
    BY <1>1, <1>3, <1>4, <1>5, <2>1 DEF Floor
  <2> QED
    BY <2>1, <2>2 DEF Begins0
<1>6. CASE t \in {"word", "RETURN", "DIAGNOSTICS", "COMMIT", "EXIT", "RAISE"}
  <2>1. a.mode \in {"semicolon", "level"}
    BY <1>2, <1>6 DEF ModeMoves
  <2>2. a.stack = s.stack
    BY <1>1, <1>4, <2>1 DEF Floor
  <2> QED
    BY <1>3, <2>1, <2>2 DEF Begins0
<1> QED
  BY <1>2, <1>4, <1>5, <1>6 DEF ModeMoves

\* ... does not end the body before its semicolon.
LEMMA StatementGoesOn ==
    ASSUME NEW s, Sound(s), Begins0(s), NEW t, NEW a, a = Run!Accept(s, t), a.mode # "error", t # ";"
    PROVE  Begins0(a)
<1>1. Floor(s, t, a)
  BY AcceptFloor
<1>2. ModeMoves(s, t, a) /\ a \in State
  BY AcceptMoves, AcceptTyped DEF Sound
<1>3. Len(s.stack) \in Nat /\ Len(a.stack) \in Nat
  BY <1>1 DEF Floor
<1>4. CASE s.mode \in {"semicolon", "level"} /\ Len(s.stack) >= 1
  <2>1. a.mode \in {"semicolon", "level"} /\ t # "END"
    BY <1>2, <1>4 DEF ModeMoves
  <2>2. a.stack = s.stack
    BY <1>1, <2>1 DEF Floor
  <2> QED
    BY <1>4, <2>1, <2>2 DEF Begins0
<1>5. CASE s.mode \in {"statement", "declaration", "declared"} /\ Len(s.stack) >= 2
  <2>1. t = "COMMENT" => a = s
    BY <1>2 DEF ModeMoves
  <2>2. CASE t = "COMMENT"
    BY <1>5, <2>1, <2>2 DEF Begins0
  <2>3. CASE t # "COMMENT"
    <3>1. a.mode \in {"declaration", "declared", "semicolon", "level", "statement"}
      BY <1>2, <2>3 DEF ModeMoves, State, Modes
    <3>2. PICK L \in Nat, K \in Nat : L = Len(s.stack) /\ K = Len(a.stack)
      BY <1>3
    <3>3. L >= 2
      BY <1>5, <3>2
    <3>4. a.stack = s.stack => K = L
      BY <3>2
    <3>5. K = L \/ K = L + 1 \/ (K = L - 1 /\ a.mode = "semicolon")
      BY <1>1, <3>2, <3>4 DEF Floor
    <3>6. K >= 2 \/ (K >= 1 /\ a.mode = "semicolon")
      BY ONLY <3>3, <3>5, K \in Nat, L \in Nat
    <3>7. K >= 2 => K >= 1
      BY ONLY K \in Nat
    <3> QED
      BY <3>1, <3>2, <3>6, <3>7 DEF Begins0
  <2> QED
    BY <2>2, <2>3
<1> QED
  BY <1>4, <1>5 DEF Begins0

-----------------------------------------------------------------------------
(* A body that is accepted as the user wrote it                             *)

\* Then the grammar has no error anywhere in it, and is sound throughout.
LEMMA OriginalSound ==
    ASSUME Whole, Original!AcceptedPlpgsql
    PROVE  /\ M \in Nat
           /\ \A x \in 0..M : Sound(OSt(x)) /\ OSt(x).mode # "error"
           /\ \A x \in 1..M : OSt(x) = Run!Accept(OSt(x - 1), OTok(x)) /\ x - 1 \in 0..M /\ x \in 0..M
           /\ OSt(M).stack = <<>> /\ OSt(M).mode \in {"semicolon", "end"}
<1>1. M \in Nat /\ OSt(0) = StartState /\ \A x \in 1..M : OSt(x) = Run!Accept(OSt(x - 1), OTok(x))
  BY Places, OScanStep
<1>2. StartState \in State /\ Sound(StartState) /\ StartState.mode # "error"
  <2>1. <<>> \in Seq(Open)
    BY EmptySeq
  <2>2. StartState \in State /\ StartState.stack = <<>> /\ StartState.mode = "start"
    BY <2>1 DEF StartState, State, Modes
  <2> QED
    BY <2>2 DEF Sound
<1>3. \A x \in 1..M : x - 1 \in 0..M /\ x \in 0..M
  BY <1>1
<1>4. OSt(M).stack = <<>> /\ OSt(M).mode \in {"semicolon", "end"}
  <2>1. Len(Text(1, Len(body))) = M
    BY TokenPlaced
  <2> QED
    BY <2>1 DEF Original!AcceptedPlpgsql, OSt
<1>5. \A x \in 0..M : OSt(x) \in State
  <2> SUFFICES ASSUME NEW B, B = {x \in 0..M : OSt(x) \notin State}, B # {} PROVE FALSE
    OBVIOUS
  <2>1. B \subseteq Nat
    BY <1>1
  <2>2. PICK x \in B : \A k \in B : x <= k
    BY <2>1, LeastNumber
  <2>3. x \in 1..M /\ x - 1 \in 0..M /\ x - 1 \notin B
    BY <1>1, <1>2, <2>2
  <2>4. OSt(x - 1) \in State
    BY <2>3
  <2>5. OSt(x) \in State
    BY <1>1, <2>3, <2>4, AcceptTyped
  <2> QED
    BY <2>2, <2>5
<1>6. \A x \in 0..M : OSt(x).mode # "error"
  <2> SUFFICES ASSUME NEW q \in 0..M, OSt(q).mode = "error" PROVE FALSE
    OBVIOUS
  <2>1. PICK B : B = {x \in q..M : OSt(x).mode # "error"}
    OBVIOUS
  <2>2. B \subseteq Nat /\ B # {}
    BY <1>1, <1>4, <2>1
  <2>3. PICK x \in B : \A k \in B : x <= k
    BY <2>2, LeastNumber
  <2>4. x \in 1..M /\ x - 1 \in q..M /\ x - 1 \in 0..M /\ x - 1 \notin B /\ OSt(x).mode # "error"
    BY <1>1, <2>1, <2>3
  <2>5. OSt(x - 1).mode = "error"
    BY <2>1, <2>4
  <2>6. OSt(x - 1) \in State /\ OSt(x) = Run!Accept(OSt(x - 1), OTok(x))
    BY <1>1, <1>5, <2>4
  <2>7. PICK s, t : s \in State /\ s = OSt(x - 1) /\ t = OTok(x)
    BY <2>6
  <2>8. Run!Accept(s, t).mode # "error"
    BY <2>4, <2>6, <2>7
  <2>9. s.mode # "error"
    BY <2>7, <2>8, AcceptModes
  <2> QED
    BY <2>5, <2>7, <2>9
<1>7. \A x \in 0..M : Sound(OSt(x))
  <2> SUFFICES ASSUME NEW B, B = {x \in 0..M : ~Sound(OSt(x))}, B # {} PROVE FALSE
    OBVIOUS
  <2>1. B \subseteq Nat
    BY <1>1
  <2>2. PICK x \in B : \A k \in B : x <= k
    BY <2>1, LeastNumber
  <2>3. x \in 1..M /\ x - 1 \in 0..M /\ x \in 0..M /\ x - 1 \notin B
    BY <1>1, <1>2, <2>2
  <2>4. PICK s, t, a : s = OSt(x - 1) /\ t = OTok(x) /\ a = OSt(x)
    OBVIOUS
  <2>5. Sound(s) /\ a = Run!Accept(s, t) /\ a.mode # "error"
    BY <1>1, <1>6, <2>3, <2>4
  <2>6. Sound(a)
    BY <2>5, SoundStep
  <2> QED
    BY <2>2, <2>4, <2>6
<1> QED
  BY <1>1, <1>3, <1>4, <1>6, <1>7

\* Point i of a PL/pgSQL body is the stretch from a to before e.
Stretch(i, a, e) ==
    /\ i \in DOMAIN locations /\ a = locations[i].start /\ e = EndOfPoint(locations[i])

Scanning == Whole /\ Written /\ kind # "sql" /\ {locations[i] : i \in DOMAIN locations} = Segments

\* Where such a stretch is: right behind a BEGIN or a semicolon, comments aside, and no
\* semicolon is in it.
InPlace(i, a, e) ==
    /\ M \in Nat /\ a \in 1..M /\ e \in 2..(M + 1) /\ a < e
    /\ TokensOf(locations[i]) = a..(e - 1)
    /\ \A x \in a..(e - 1) : body[x] # ";"
    /\ e <= M => body[e] = ";"
    /\ body[a] # "COMMENT" /\ body[a] \notin Structural
    /\ \E from \in 1..M : /\ from < a /\ body[from] \in {"BEGIN", ";"}
                          /\ \A x \in (from + 1)..(a - 1) : body[x] = "COMMENT"

\* Each point of a PL/pgSQL body is such a stretch.
LEMMA StretchOfPoint ==
    ASSUME Scanning, NEW i, NEW a, NEW e, Stretch(i, a, e)
    PROVE  InPlace(i, a, e)
<1>0. M \in Nat /\ lastWritten = M /\ DOMAIN body = 1..M /\ Len(body) = M
  <2>1. PiecesOK
    BY DEF Scanning, Whole
  <2> QED
    BY <2>1, Pieces DEF Scanning, Whole, M
<1>1. PICK l : l = locations[i] /\ l.start = a /\ EndOfPoint(l) = e /\ i \in DOMAIN locations
  BY DEF Stretch
<1>2. l \in [start : Nat, length : Int, implicit : BOOLEAN]
  BY <1>1, LenProperties, ElementOfSeq DEF Scanning, Written
<1>3. a \in Nat /\ l.length \in Int /\ e = a + l.length
  BY <1>1, <1>2 DEF EndOfPoint
<1>4. /\ l.start >= 1 /\ l.length >= 1
      /\ EndOfPoint(l) <= lastWritten + 1
      /\ EndOfPoint(l) <= Len(body) => body[EndOfPoint(l)] = ";"
      /\ \A x \in TokensOf(l) : body[x] # ";"
      /\ body[l.start] # "COMMENT" /\ body[l.start] \notin Structural
  BY <1>1 DEF Scanning, Written, PointsOK
<1>5. e \in Nat /\ a < e /\ a >= 1 /\ e <= M + 1
  <2>1. PICK k \in Int : k = l.length
    BY <1>3
  <2>2. a \in Nat /\ e = a + k /\ k >= 1 /\ a >= 1
    BY <1>1, <1>3, <1>4, <2>1
  <2>3. e <= M + 1
    BY <1>0, <1>1, <1>4
  <2> QED
    BY ONLY <2>2, <2>3, k \in Int
<1>10. ~(M + 1 < a)
  <2>1. PICK k \in Nat : k = M
    BY <1>0
  <2>2. a < e /\ e <= k + 1 /\ a \in Nat /\ e \in Nat
    BY <1>3, <1>5, <2>1
  <2>3. ~(k + 1 < a)
    BY ONLY <2>2, k \in Nat
  <2> QED
    BY <2>1, <2>3
<1>6. TokensOf(l) = a..(e - 1)
  <2>1. l.start + l.length - 1 = e - 1
    BY <1>1, <1>3
  <2> QED
    BY <1>1, <2>1 DEF TokensOf
<1>7. \E from \in 1..M : /\ from < a /\ body[from] \in {"BEGIN", ";"}
                         /\ \A x \in (from + 1)..(a - 1) : body[x] = "COMMENT"
  <2>1. l \in Segments
    BY <1>1 DEF Scanning
  <2> DEFINE begins == {j \in DOMAIN body : body[j] = "BEGIN" /\ \A k \in 1..(j - 1) : body[k] # "BEGIN"}
             ends   == {j \in DOMAIN body : body[j] = ";" /\ \E b \in begins : b < j} \cup {Len(body) + 1}
  <2>2. PICK y \in DOMAIN body, z \in ends : /\ l.start = y
             /\ \E from \in begins \cup ends : from < y /\ \A j \in (from + 1)..(y - 1) : body[j] = "COMMENT"
    <3>0. kind # "sql"
      BY DEF Scanning
    <3>1. PICK x \in (DOMAIN body) \X ends :
             /\ l = [start |-> x[1], length |-> x[2] - x[1], implicit |-> FALSE]
             /\ \E from \in begins \cup ends :
                    x[1] > from /\ \A j \in (from + 1)..(x[1] - 1) : body[j] = "COMMENT"
      BY <2>1, <3>0 DEF Segments
    <3> HIDE DEF begins, ends
    <3>2. l.start = x[1] /\ x[1] \in DOMAIN body /\ x[2] \in ends
      BY <3>1
    <3>3. PICK from \in begins \cup ends : x[1] > from /\ \A j \in (from + 1)..(x[1] - 1) : body[j] = "COMMENT"
      BY <3>1
    <3> QED
      BY <3>2, <3>3
  <2>3. PICK from \in begins \cup ends : from < y /\ \A j \in (from + 1)..(y - 1) : body[j] = "COMMENT"
    BY <2>2
  <2>4. y = a
    BY <1>1, <2>2
  <2>5. from # M + 1
    BY <1>10, <2>3, <2>4
  <2>6. from \in 1..M /\ body[from] \in {"BEGIN", ";"}
    BY <1>0, <2>3, <2>5
  <2> QED
    BY <2>3, <2>4, <2>6
<1>8. a \in 1..M /\ e \in 2..(M + 1)
  BY <1>0, <1>3, <1>5
<1>9. /\ \A x \in a..(e - 1) : body[x] # ";"
      /\ e <= M => body[e] = ";"
      /\ body[a] # "COMMENT" /\ body[a] \notin Structural
  BY <1>0, <1>1, <1>4, <1>6
<1> QED
  BY <1>0, <1>1, <1>9, <1>5, <1>6, <1>7, <1>8 DEF InPlace

\* What the scan of the original is between two tokens.
LEMMA OriginalMoves ==
    ASSUME Whole, Original!AcceptedPlpgsql, NEW x \in 1..M
    PROVE  ModeMoves(OSt(x - 1), body[x], OSt(x))
<1>1. PICK s, t, a : s = OSt(x - 1) /\ t = OTok(x) /\ a = OSt(x)
  OBVIOUS
<1>2. s \in State /\ a = Run!Accept(s, t) /\ a.mode # "error"
  BY <1>1, OriginalSound DEF Sound
<1>3. ModeMoves(s, t, a)
  BY <1>2, AcceptMoves
<1>4. t = body[x]
  BY <1>1, TokenPlaced
<1> QED
  BY <1>1, <1>3, <1>4

\* A declaration section goes from its DECLARE to the BEGIN.
LEMMA DeclaringSince ==
    ASSUME Whole, Original!AcceptedPlpgsql, NEW z \in 0..M
    PROVE  Declaring(OSt(z)) <=> \E i \in 1..z : body[i] = "DECLARE" /\ \A x \in i..z : body[x] # "BEGIN"
<1>0. M \in Nat /\ z \in Nat
  BY OriginalSound
<1>1. ASSUME NEW i \in 1..z, body[i] = "DECLARE", \A x \in i..z : body[x] # "BEGIN"
      PROVE  Declaring(OSt(z))
  <2>1. PICK G : G = {x \in 0..M : Declaring(OSt(x))}
    OBVIOUS
  <2>2. i \in 1..M /\ i \in 0..M /\ i \in Nat
    BY <1>0
  <2>3. i \in G
    <3>1. ModeMoves(OSt(i - 1), body[i], OSt(i))
      BY <2>2, OriginalMoves
    <3> QED
      BY <1>1, <2>1, <2>2, <3>1 DEF ModeMoves
  <2>4. ASSUME NEW x \in (i + 1)..z, x - 1 \in G PROVE x \in G
    <3>1. x \in 1..M /\ x \in 0..M /\ x \in i..z
      BY <1>0, <2>2
    <3>2. ModeMoves(OSt(x - 1), body[x], OSt(x))
      BY <3>1, OriginalMoves
    <3>3. Declaring(OSt(x - 1)) /\ body[x] # "BEGIN"
      BY <1>1, <2>1, <2>4, <3>1
    <3> QED
      BY <2>1, <3>1, <3>2, <3>3 DEF ModeMoves
  <2>5. \A x \in i..z : x \in G
    BY <1>0, <2>2, <2>3, <2>4, AllAlong
  <2>6. z \in i..z
    BY <1>0
  <2> QED
    BY <2>1, <2>5, <2>6
<1>2. ASSUME Declaring(OSt(z)), ~\E i \in 1..z : body[i] = "DECLARE" /\ \A x \in i..z : body[x] # "BEGIN"
      PROVE  FALSE
  <2>1. PICK B : B = {k \in Nat : k <= z /\ \A y \in k..z : Declaring(OSt(y)) /\ (k < y => body[y] # "BEGIN")}
    OBVIOUS
  <2>2. z \in B
    BY <1>0, <1>2, <2>1
  <2>3. PICK k \in B : \A j \in B : k <= j
    BY <2>1, <2>2, LeastNumber
  <2>4. k \in Nat /\ k <= z /\ \A y \in k..z : Declaring(OSt(y)) /\ (k < y => body[y] # "BEGIN")
    BY <2>1
  <2>5. k # 0
    <3>1. OSt(0).mode = "start"
      BY OScanStep DEF StartState
    <3>2. k = 0 => Declaring(OSt(0))
      BY <1>0, <2>4
    <3> QED
      BY <3>1, <3>2 DEF Declaring
  <2>6. k \in 1..M /\ k \in 1..z /\ k \in k..z
    BY <1>0, <2>4, <2>5
  <2>7. ModeMoves(OSt(k - 1), body[k], OSt(k)) /\ Declaring(OSt(k))
    BY <2>4, <2>6, OriginalMoves
  <2>8. body[k] # "DECLARE"
    <3> SUFFICES ASSUME body[k] = "DECLARE" PROVE FALSE
      OBVIOUS
    <3>1. ASSUME NEW x \in k..z PROVE body[x] # "BEGIN"
      BY <1>0, <2>4
    <3> QED
      BY <1>2, <2>6, <3>1
  <2>9. Declaring(OSt(k - 1)) /\ body[k] # "BEGIN"
    BY <2>7, <2>8 DEF ModeMoves
  <2>10. k - 1 \in B
    <3>1. k - 1 \in Nat /\ k - 1 <= z
      BY <2>4, <2>5
    <3>2. ASSUME NEW y \in (k - 1)..z PROVE Declaring(OSt(y)) /\ (k - 1 < y => body[y] # "BEGIN")
      <4>1. CASE y = k - 1
        BY <2>9, <4>1
      <4>2. CASE y = k
        BY <2>7, <2>9, <4>2
      <4>3. CASE y # k - 1 /\ y # k
        <5>1. y \in k..z /\ k < y
          BY <2>4, <4>3
        <5> QED
          BY <2>4, <5>1
      <4> QED
        BY <4>1, <4>2, <4>3
    <3> QED
      BY <2>1, <3>1, <3>2
  <2>11. ~(k <= k - 1)
    BY <2>4
  <2> QED
    BY <2>3, <2>10, <2>11
<1> QED
  BY <1>1, <1>2

\* A point ends with a semicolon, behind which there is a statement again, or a declaration.
LEMMA PointEnds ==
    ASSUME Scanning, Original!AcceptedPlpgsql, NEW i, NEW a, NEW e, Stretch(i, a, e)
    PROVE  /\ e \in 1..M /\ e - 1 \in 0..M
           /\ OSt(e).mode = IF Declaring(OSt(e - 1)) THEN "declaration" ELSE "statement"
           /\ \A t \in a..(e - 1) : body[t] \in {"RETURN", "RAISE"} =>
                  t \in 1..M /\ OSt(t - 1).mode = "statement" /\ ~Declaring(OSt(e - 1))
<1>1. /\ M \in Nat /\ a \in 1..M /\ e \in 2..(M + 1) /\ a < e
      /\ \A x \in a..(e - 1) : body[x] # ";"
      /\ e <= M => body[e] = ";"
      /\ body[a] # "COMMENT" /\ body[a] \notin Structural
      /\ \E from \in 1..M : /\ from < a /\ body[from] \in {"BEGIN", ";"}
                            /\ \A x \in (from + 1)..(a - 1) : body[x] = "COMMENT"
  <2>1. InPlace(i, a, e)
    BY StretchOfPoint
  <2> QED
    BY <2>1 DEF InPlace
<1>2. Whole
  BY DEF Scanning
<1>3. /\ \A x \in 0..M : Sound(OSt(x)) /\ OSt(x).mode # "error"
      /\ \A x \in 1..M : OSt(x) = Run!Accept(OSt(x - 1), OTok(x)) /\ x - 1 \in 0..M /\ x \in 0..M
      /\ OSt(M).stack = <<>> /\ OSt(M).mode \in {"semicolon", "end"}
  BY <1>2, OriginalSound
<1>4. \A x \in 1..M : ModeMoves(OSt(x - 1), body[x], OSt(x))
  BY <1>2, OriginalMoves
<1>5. \A x \in 1..M : OTok(x) = body[x] /\ body[x] # "signal"
  BY <1>2, TokenPlaced
<1>0. M \in Nat /\ a \in 1..M /\ e \in 2..(M + 1) /\ a < e
  BY <1>1
<1>6. a \in Nat /\ e \in Nat /\ a - 1 \in 0..M /\ a \in 0..M /\ e - 1 \in 0..M /\ e - 1 \in a..(e - 1)
  BY ONLY <1>0
<1>7. ASSUME NEW x \in (a + 1)..(e - 1) PROVE x \in 1..M /\ x \in 0..M /\ body[x] # ";"
  <2>1. x \in a..(e - 1) /\ x \in 1..M /\ x \in 0..M
    BY ONLY <1>0, x \in (a + 1)..(e - 1)
  <2> QED
    BY <1>1, <2>1
<1>8. OSt(a - 1).mode \in {"declaration", "statement"}
  <2>1. PICK from \in 1..M : /\ from < a /\ body[from] \in {"BEGIN", ";"}
                             /\ \A x \in (from + 1)..(a - 1) : body[x] = "COMMENT"
    BY <1>1
  <2>2. PICK m : m = OSt(from).mode
    OBVIOUS
  <2>3. m \in {"statement", "declaration", "end"}
    <3>1. ModeMoves(OSt(from - 1), body[from], OSt(from))
      BY <1>4
    <3> QED
      BY <2>1, <2>2, <3>1 DEF ModeMoves, Run!AfterSemicolon
  <2>4. PICK G : G = {x \in 0..M : OSt(x).mode = m}
    OBVIOUS
  <2>5. from \in G /\ from \in Nat /\ from \in 1..M /\ from < a
    <3>1. from \in 0..M /\ from \in Nat
      BY ONLY <1>0, from \in 1..M
    <3> QED
      BY <2>1, <2>2, <2>4, <3>1
  <2>6. ASSUME NEW x \in (from + 1)..(a - 1), x - 1 \in G PROVE x \in G
    <3>1. x \in 1..M /\ x \in 0..M
      BY ONLY <1>0, from \in 1..M, x \in (from + 1)..(a - 1)
    <3>2. ModeMoves(OSt(x - 1), body[x], OSt(x)) /\ body[x] = "COMMENT"
      BY <1>4, <2>1, <3>1
    <3>3. OSt(x) = OSt(x - 1) /\ OSt(x - 1).mode = m
      BY <2>4, <2>6, <3>2 DEF ModeMoves
    <3> QED
      BY <2>4, <3>1, <3>3
  <2>7. \A x \in from..(a - 1) : x \in G
    <3>1. a - 1 \in Nat
      BY ONLY <1>0
    <3> QED
      BY <2>5, <2>6, <3>1, AllAlong
  <2>8. a - 1 \in from..(a - 1)
    BY ONLY <1>0, <2>5
  <2>9. OSt(a - 1).mode = m
    BY <2>4, <2>7, <2>8
  <2>10. m # "end"
    <3>1. ModeMoves(OSt(a - 1), body[a], OSt(a))
      BY <1>1, <1>4
    <3> QED
      BY <1>1, <2>9, <3>1 DEF ModeMoves
  <2> QED
    BY <2>3, <2>9, <2>10
<1>9. ASSUME e \in 1..M, Declaring(OSt(e - 1))
      PROVE  OSt(e).mode = "declaration"
  <2>0. e <= M
    BY <1>9
  <2>1. ModeMoves(OSt(e - 1), body[e], OSt(e)) /\ body[e] = ";"
    BY <1>1, <1>4, <1>9, <2>0
  <2> QED
    BY <1>9, <2>1 DEF ModeMoves, Declaring
<1>10. CASE OSt(a - 1).mode = "declaration"
  <2>1. PICK G : G = {x \in 0..M : OSt(x).mode = "declared"}
    OBVIOUS
  <2>2. a \in G /\ body[a] = "word"
    <3>1. ModeMoves(OSt(a - 1), body[a], OSt(a)) /\ body[a] # "BEGIN"
      BY <1>1, <1>4 DEF Structural
    <3> QED
      BY <1>1, <1>6, <1>10, <2>1, <3>1 DEF ModeMoves
  <2>3. ASSUME NEW x \in (a + 1)..(e - 1), x - 1 \in G PROVE x \in G /\ body[x] = "COMMENT"
    <3>1. ModeMoves(OSt(x - 1), body[x], OSt(x)) /\ OSt(x - 1).mode = "declared"
      BY <1>4, <1>7, <2>1, <2>3
    <3> QED
      BY <1>7, <2>1, <3>1 DEF ModeMoves
  <2>4. \A x \in a..(e - 1) : x \in G
    BY <1>6, <2>2, <2>3, AllAlong
  <2>5. OSt(e - 1).mode = "declared" /\ Declaring(OSt(e - 1))
    BY <1>6, <2>1, <2>4 DEF Declaring
  <2>6. e - 1 # M
    BY <1>3, <2>5
  <2>7. e \in 1..M
    BY ONLY <1>0, <2>6
  <2>8. ASSUME NEW t \in a..(e - 1) PROVE body[t] \notin {"RETURN", "RAISE"}
    <3>1. CASE t = a
      BY <2>2, <3>1
    <3>2. CASE t # a
      <4>1. t \in (a + 1)..(e - 1) /\ t - 1 \in a..(e - 1)
        BY ONLY <1>0, <3>2, t \in a..(e - 1)
      <4> QED
        BY <2>3, <2>4, <4>1
    <3> QED
      BY <3>1, <3>2
  <2> QED
    BY <1>6, <1>9, <2>5, <2>7, <2>8
<1>11. CASE OSt(a - 1).mode = "statement"
  <2>1. PICK G : G = {x \in 0..M : Begins0(OSt(x))}
    OBVIOUS
  <2>2. a \in G
    <3>1. PICK s, t, b : s = OSt(a - 1) /\ t = body[a] /\ b = OSt(a)
      OBVIOUS
    <3>2. /\ Sound(s) /\ s.mode = "statement" /\ b = Run!Accept(s, t) /\ b.mode # "error"
          /\ t \notin {"COMMENT", "signal"} \cup Structural
      BY <1>1, <1>3, <1>5, <1>6, <1>11, <3>1
    <3>3. Begins0(b)
      BY <3>2, StatementBegins
    <3> QED
      BY <1>6, <2>1, <3>1, <3>3
  <2>3. ASSUME NEW x \in (a + 1)..(e - 1), x - 1 \in G PROVE x \in G
    <3>1. PICK s, t, b : s = OSt(x - 1) /\ t = body[x] /\ b = OSt(x)
      OBVIOUS
    <3>2. Sound(s) /\ Begins0(s) /\ b = Run!Accept(s, t) /\ b.mode # "error" /\ t # ";"
      BY <1>3, <1>5, <1>7, <2>1, <2>3, <3>1
    <3>3. Begins0(b)
      BY <3>2, StatementGoesOn
    <3> QED
      BY <1>7, <2>1, <3>1, <3>3
  <2>4. \A x \in a..(e - 1) : x \in G
    BY <1>6, <2>2, <2>3, AllAlong
  <2>5. Begins0(OSt(e - 1))
    BY <1>6, <2>1, <2>4
  <2>6. Len(OSt(e - 1).stack) >= 1 /\ OSt(e - 1).stack # <<>>
    <3>1. PICK s : s = OSt(e - 1)
      OBVIOUS
    <3>2. s.stack \in Seq(Open)
      BY <1>3, <1>6, <3>1 DEF Sound, State
    <3>3. Len(s.stack) \in Nat /\ (s.stack = <<>> <=> Len(s.stack) = 0)
      BY <3>2, LenProperties, EmptySeq
    <3>4. Len(s.stack) >= 1
      BY <2>5, <3>1, <3>3 DEF Begins0
    <3> QED
      BY <3>1, <3>3, <3>4
  <2>7. e - 1 # M
    BY <1>3, <2>6
  <2>8. e \in 1..M /\ e <= M
    BY ONLY <1>0, <2>7
  <2>9. ~Declaring(OSt(e - 1)) => OSt(e).mode = "statement"
    <3>1. ModeMoves(OSt(e - 1), body[e], OSt(e)) /\ body[e] = ";"
      BY <1>1, <1>4, <2>8
    <3>2. Run!AfterSemicolon(OSt(e - 1)) = "statement"
      BY <2>6 DEF Run!AfterSemicolon
    <3> QED
      BY <3>1, <3>2 DEF ModeMoves, Declaring
  <2>10. ASSUME NEW t \in a..(e - 1), body[t] \in {"RETURN", "RAISE"}
         PROVE  t \in 1..M /\ OSt(t - 1).mode = "statement" /\ ~Declaring(OSt(e - 1))
    <3>1. t \in 1..M /\ t \in 0..M /\ t \in Nat
      BY ONLY <1>0, t \in a..(e - 1)
    <3>2. ModeMoves(OSt(t - 1), body[t], OSt(t))
      BY <1>4, <3>1
    <3>3. PICK F : F = {x \in 0..M : OSt(x).mode \in {"semicolon", "level"}}
      OBVIOUS
    <3>4. t \in F /\ OSt(t - 1).mode = "statement"
      BY <2>10, <3>1, <3>2, <3>3 DEF ModeMoves
    <3>5. ASSUME NEW x \in (t + 1)..(e - 1), x - 1 \in F PROVE x \in F
      <4>1. x \in (a + 1)..(e - 1)
        BY ONLY <1>0, t \in a..(e - 1), x \in (t + 1)..(e - 1)
      <4>2. ModeMoves(OSt(x - 1), body[x], OSt(x)) /\ body[x] # ";" /\ OSt(x - 1).mode \in {"semicolon", "level"}
        BY <1>4, <1>7, <3>3, <3>5, <4>1
      <4> QED
        BY <1>7, <3>3, <4>1, <4>2 DEF ModeMoves
    <3>6. \A x \in t..(e - 1) : x \in F
      BY <1>6, <3>1, <3>4, <3>5, AllAlong
    <3>7. e - 1 \in t..(e - 1)
      BY ONLY <1>0, t \in a..(e - 1)
    <3>8. OSt(e - 1).mode \in {"semicolon", "level"}
      BY <3>3, <3>6, <3>7
    <3> QED
      BY <3>1, <3>4, <3>8 DEF Declaring
  <2> QED
    BY <1>6, <1>9, <2>8, <2>9, <2>10
<1> QED
  BY <1>8, <1>10, <1>11

\* The signal of a point comes after as much of the text as leaves the grammar in a statement,
\* unless the point ends in a declaration section.
LEMMA SignalAccepted ==
    ASSUME Scanning, Original!AcceptedPlpgsql, NEW i, NEW a, NEW e, Stretch(i, a, e),
           NEW p \in 1..N, Placed(p, locations[i])
    PROVE  OSt(TextPieces(p)).mode = "statement" <=> ~Declaring(OSt(e - 1))
<1>1. /\ e \in 1..M /\ e - 1 \in 0..M
      /\ OSt(e).mode = IF Declaring(OSt(e - 1)) THEN "declaration" ELSE "statement"
      /\ \A t \in a..(e - 1) : body[t] \in {"RETURN", "RAISE"} =>
             t \in 1..M /\ OSt(t - 1).mode = "statement" /\ ~Declaring(OSt(e - 1))
  BY PointEnds
<1>2. TokensOf(locations[i]) = a..(e - 1) /\ EndOfPoint(locations[i]) = e
  <2>0. InPlace(i, a, e)
    BY StretchOfPoint
  <2>1. TokensOf(locations[i]) = a..(e - 1)
    BY <2>0 DEF InPlace
  <2>2. EndOfPoint(locations[i]) = e
    BY DEF Stretch
  <2> QED
    BY <2>1, <2>2
<1>3. Whole /\ kind # "sql" /\ N \in Nat /\ DOMAIN written = 1..N /\ M \in Nat /\ M = Len(body)
  <2>1. PiecesOK
    BY DEF Scanning, Whole
  <2> QED
    BY <2>1, Pieces, Places DEF Scanning, M
<1>4. ~TextAt(p) /\ TextPieces(p) = TextPieces(p - 1)
  <2>1. written[p][1] = "signal"
    BY DEF Placed
  <2>2. ~TextAt(p)
    BY <2>1 DEF TextAt
  <2> QED
    BY <1>3, <2>2, Places
<1>5. CASE /\ p + 1 \in DOMAIN written
           /\ \E t \in TokensOf(locations[i]) : written[p + 1] = <<"text", t>> /\ IsTerminal(t, EndOfPoint(locations[i]))
  <2>1. PICK t \in a..(e - 1) : written[p + 1] = <<"text", t>> /\ IsTerminal(t, e)
    BY <1>2, <1>5
  <2>2. p + 1 \in 1..N /\ TextAt(p + 1) /\ written[p + 1][2] = t
    BY <1>3, <1>5, <2>1 DEF TextAt
  <2>3. TextPieces(p + 1 - 1) = t - 1
    BY <1>3, <2>2, Places
  <2>4. p + 1 - 1 = p
    BY <1>3
  <2>5. body[t] \in {"RETURN", "RAISE"}
    BY <2>1 DEF IsTerminal
  <2> QED
    BY <1>1, <2>3, <2>4, <2>5
<1>6. CASE /\ p - 1 \in DOMAIN written
           /\ \E last \in {e, e - 1} : /\ written[p - 1] = <<"text", last>>
                                       /\ last = e \/ e = Len(body) + 1
  <2>1. PICK last \in {e, e - 1} : written[p - 1] = <<"text", last>> /\ (last = e \/ e = Len(body) + 1)
    BY <1>6
  <2>2. last = e
    BY <1>1, <1>3, <2>1
  <2>3. p - 1 \in 1..N /\ TextAt(p - 1) /\ written[p - 1][2] = e
    BY <1>3, <1>6, <2>1, <2>2 DEF TextAt
  <2>4. TextPieces(p) = e
    BY <1>3, <1>4, <2>3, Places
  <2> QED
    BY <1>1, <2>4
<1> QED
  BY <1>2, <1>3, <1>5, <1>6 DEF Placed

\* The signals are accepted if each is where the original is in a statement.
LEMMA PlpgsqlScans ==
    ASSUME Scanning, Original!AcceptedPlpgsql
    PROVE  Run!AcceptedPlpgsql <=> \A p \in 1..N : ~TextAt(p) => OSt(TextPieces(p)).mode = "statement"
<1>0. /\ Whole /\ PiecesOK /\ N \in Nat /\ M \in Nat
      /\ St(0) = StartState /\ \A p \in 1..N : St(p) = Run!Accept(St(p - 1), Tok(p))
  <2>1. Whole /\ PiecesOK
    BY DEF Scanning, Whole
  <2> QED
    BY <2>1, Places, ScanStep
<1>1. \A p \in 1..N : ~TextAt(p) => Tok(p) = "signal" /\ TextPieces(p) = TextPieces(p - 1) /\ p - 1 \in 0..N
  BY <1>0, TokenPlaced, Places
<1>2. ASSUME Run!AcceptedPlpgsql, NEW p \in 1..N, ~TextAt(p)
      PROVE  OSt(TextPieces(p)).mode = "statement"
  <2>1. PICK s, a : s = St(p - 1) /\ a = St(p)
    OBVIOUS
  <2>2. p - 1 \in 0..N /\ p \in 0..N
    BY <1>0
  <2>3. s \in State /\ a = Run!Accept(s, "signal") /\ a.mode # "error"
    BY <1>0, <1>1, <1>2, <2>1, <2>2, NoErrors
  <2>4. s.mode = "statement"
    <3>1. ModeMoves(s, "signal", a)
      BY <2>3, AcceptMoves
    <3> QED
      BY <3>1 DEF ModeMoves
  <2>5. OSt(TextPieces(p)) = s
    BY <1>0, <1>1, <1>2, <2>1, <2>2, ScanPlaced
  <2> QED
    BY <2>4, <2>5
<1>3. ASSUME \A p \in 1..N : ~TextAt(p) => OSt(TextPieces(p)).mode = "statement"
      PROVE  Run!AcceptedPlpgsql
  <2>1. PICK G : G = {p \in 0..N : St(p) = OSt(TextPieces(p))}
    OBVIOUS
  <2>2. 0 \in G
    <3>1. OSt(0) = StartState /\ TextPieces(0) = 0
      BY <1>0, OScanStep, Places
    <3> QED
      BY <1>0, <2>1, <3>1
  <2>3. ASSUME NEW p \in (0 + 1)..N, p - 1 \in G PROVE p \in G
    <3>1. p \in 1..N /\ p \in 0..N /\ St(p - 1) = OSt(TextPieces(p - 1)) /\ St(p) = Run!Accept(St(p - 1), Tok(p))
      BY <1>0, <2>1, <2>3
    <3>2. CASE TextAt(p)
      <4>1. PICK x : x = TextPieces(p)
        OBVIOUS
      <4>2. x \in 1..M /\ OTok(x) = Tok(p)
        BY <1>0, <3>1, <3>2, <4>1, TokenPlaced
      <4>3. TextPieces(p - 1) = x - 1
        BY <1>0, <3>1, <3>2, <4>1, Places
      <4>4. OSt(x) = Run!Accept(OSt(x - 1), Tok(p))
        BY <1>0, <4>2, OScanStep
      <4> QED
        BY <2>1, <3>1, <4>1, <4>3, <4>4
    <3>3. CASE ~TextAt(p)
      <4>1. PICK s : s = St(p - 1)
        OBVIOUS
      <4>2. s = OSt(TextPieces(p)) /\ s.mode = "statement" /\ St(p) = Run!Accept(s, "signal")
        BY <1>1, <1>3, <3>1, <3>3, <4>1
      <4>3. Run!Accept(s, "signal") = s
        BY <4>2 DEF Run!Accept
      <4> QED
        BY <2>1, <3>1, <4>2, <4>3
    <3> QED
      BY <3>2, <3>3
  <2>4. \A p \in 0..N : p \in G
    BY <1>0, <2>2, <2>3, AllAlong
  <2>5. N \in G
    BY <1>0, <2>4
  <2>6. St(N) = OSt(M)
    BY <1>0, <2>1, <2>5, Places
  <2>7. OSt(M).stack = <<>> /\ OSt(M).mode \in {"semicolon", "end"}
    BY <1>0, OriginalSound
  <2> QED
    BY <2>6, <2>7 DEF Run!AcceptedPlpgsql, St, N
<1> QED
  BY <1>2, <1>3

\* NestedDeclarations, in terms of the scan of the original.
LEMMA NestedEnds ==
    ASSUME Scanning, Original!AcceptedPlpgsql
    PROVE  NestedDeclarations <=> \E i \in DOMAIN locations : Declaring(OSt(EndOfPoint(locations[i]) - 1))
<1>1. ASSUME NEW i \in DOMAIN locations
      PROVE  Declaring(OSt(EndOfPoint(locations[i]) - 1)) <=>
                 \E j \in 1..(EndOfPoint(locations[i]) - 1) :
                     body[j] = "DECLARE" /\ \A x \in j..(EndOfPoint(locations[i]) - 1) : body[x] # "BEGIN"
  <2>1. PICK a, e : Stretch(i, a, e) /\ e = EndOfPoint(locations[i])
    BY DEF Stretch
  <2>2. e - 1 \in 0..M
    BY <2>1, PointEnds
  <2>3. PICK z : z = e - 1
    OBVIOUS
  <2>4. Declaring(OSt(z)) <=> \E j \in 1..z : body[j] = "DECLARE" /\ \A x \in j..z : body[x] # "BEGIN"
    BY <2>2, <2>3, DeclaringSince DEF Scanning
  <2> QED
    BY <2>1, <2>3, <2>4
<1>2. NestedDeclarations <=> \E l \in Segments :
          \E j \in 1..(EndOfPoint(l) - 1) : body[j] = "DECLARE" /\ \A x \in j..(EndOfPoint(l) - 1) : body[x] # "BEGIN"
  BY DEF NestedDeclarations, EndOfPoint
<1>3. Segments = {locations[i] : i \in DOMAIN locations}
  BY DEF Scanning
<1> HIDE DEF NestedDeclarations
<1> QED
  BY <1>1, <1>2, <1>3

\* An accepted PL/pgSQL body stays accepted unless there are such declarations.
LEMMA PlpgsqlStays ==
    ASSUME Scanning, Original!AcceptedPlpgsql
    PROVE  Run!AcceptedPlpgsql <=> ~NestedDeclarations
<1>0. Whole /\ PiecesOK /\ Written /\ DOMAIN written = 1..N
  <2>1. Whole /\ PiecesOK /\ Written
    BY DEF Scanning, Whole
  <2> QED
    BY <2>1, Pieces
<1>1. ASSUME NestedDeclarations, Run!AcceptedPlpgsql PROVE FALSE
  <2>1. PICK i \in DOMAIN locations : Declaring(OSt(EndOfPoint(locations[i]) - 1))
    BY <1>1, NestedEnds
  <2>2. PICK a, e : Stretch(i, a, e) /\ e = EndOfPoint(locations[i])
    BY DEF Stretch
  <2>3. PICK p \in 1..N : written[p] = <<"signal", locations[i].start>>
    BY <1>0 DEF Written, SignalsOK
  <2>4. written[p][1] = "signal" /\ written[p][2] = locations[i].start
    BY <2>3
  <2>5. PICK j \in DOMAIN locations : Placed(p, locations[j])
    BY <1>0, <2>4 DEF Written, SignalsOK, IsText
  <2>6. written[p] = <<"signal", locations[j].start>>
    BY <2>5 DEF Placed
  <2>7. locations[j].start = locations[i].start
    BY <2>4, <2>6
  <2>8. i = j
    BY <1>0, <2>7, SamePoint
  <2>9. OSt(TextPieces(p)).mode # "statement"
    BY <2>1, <2>2, <2>5, <2>8, SignalAccepted
  <2>10. ~TextAt(p)
    BY <2>4 DEF TextAt
  <2> QED
    BY <1>1, <2>9, <2>10, PlpgsqlScans
<1>2. ASSUME ~NestedDeclarations, NEW p \in 1..N, ~TextAt(p) PROVE OSt(TextPieces(p)).mode = "statement"
  <2>1. PICK i \in DOMAIN locations : Placed(p, locations[i])
    BY <1>0, <1>2 DEF Written, SignalsOK, IsText, TextAt
  <2>2. PICK a, e : Stretch(i, a, e) /\ e = EndOfPoint(locations[i])
    BY DEF Stretch
  <2>3. ~Declaring(OSt(e - 1))
    BY <1>2, <2>2, NestedEnds
  <2> QED
    BY <2>1, <2>2, <2>3, SignalAccepted
<1>3. ~NestedDeclarations => Run!AcceptedPlpgsql
  BY <1>2, PlpgsqlScans
<1> QED
  BY <1>1, <1>3

-----------------------------------------------------------------------------
(* The statements that have no point                                        *)

\* The state of the scan before a statement: a BEGIN has been read ...
LEMMA BeginBefore ==
    ASSUME Whole, Original!AcceptedPlpgsql, NEW z \in 0..M, OSt(z).mode = "statement"
    PROVE  \E i \in 1..z : body[i] = "BEGIN"
<1>1. PICK B : B = {x \in 0..M : x <= z /\ OSt(x).stack # <<>>}
  OBVIOUS
<1>2. M \in Nat /\ z \in B /\ B \subseteq Nat
  BY <1>1, OriginalSound DEF Sound
<1>3. PICK x \in B : \A k \in B : x <= k
  BY <1>2, LeastNumber
<1>4. OSt(0).stack = <<>>
  BY OScanStep DEF StartState
<1>5. x \in 1..M /\ x \in 1..z /\ x - 1 \in 0..M /\ x - 1 <= z /\ ~(x <= x - 1)
  BY <1>1, <1>2, <1>4
<1>6. OSt(x - 1).stack = <<>> /\ OSt(x).stack # <<>>
  BY <1>1, <1>3, <1>5
<1>7. PICK s, t, a : s = OSt(x - 1) /\ t = OTok(x) /\ a = OSt(x)
  OBVIOUS
<1>8. Sound(s) /\ a = Run!Accept(s, t) /\ a.mode # "error"
  BY <1>5, <1>7, OriginalSound
<1>9. Floor(s, t, a)
  BY <1>8, AcceptFloor
<1>10. t = "BEGIN"
  <2>1. Len(s.stack) = 0 /\ Len(a.stack) \in Nat /\ Len(a.stack) # 0 /\ a.stack # s.stack
    BY <1>6, <1>7, <1>9 DEF Floor
  <2> QED
    BY <1>9, <2>1 DEF Floor
<1> QED
  BY <1>5, <1>7, <1>10, TokenPlaced

\* ... and behind an END there is a semicolon first.
LEMMA SemicolonBehindEnd ==
    ASSUME Whole, Original!AcceptedPlpgsql, NEW h \in 1..M, NEW z \in h..M, body[h] = "END",
           \A x \in (h + 1)..z : ~Semicolon(x)
    PROVE  OSt(z).mode # "statement"
<1>0. M \in Nat /\ h \in Nat /\ z \in Nat /\ h \in 0..M /\ z \in h..z
  <2>1. M \in Nat
    BY OriginalSound
  <2> QED
    BY <2>1
<1>1. PICK G : G = {x \in 0..M : OSt(x).mode \in {"semicolon", "level"}}
  OBVIOUS
<1>2. h \in G
  <2>1. PICK s, t, a : s = OSt(h - 1) /\ t = OTok(h) /\ a = OSt(h)
    OBVIOUS
  <2>2. Sound(s) /\ a = Run!Accept(s, t) /\ a.mode # "error" /\ t = "END"
    BY <2>1, OriginalSound, TokenPlaced
  <2>3. Step(s, t, a)
    BY <2>2, AcceptStep DEF Sound
  <2>4. a = Run!Leave(s)
    BY <2>2, <2>3 DEF Step
  <2>5. a.mode = "semicolon"
    BY <2>4 DEF Run!Leave
  <2> QED
    BY <1>0, <1>1, <2>1, <2>5
<1>3. ASSUME NEW x \in (h + 1)..z, x - 1 \in G PROVE x \in G
  <2>1. x \in 1..M /\ x \in 0..M
    BY <1>0
  <2>3. body[x] # ";"
    BY <1>3 DEF Semicolon
  <2>2. ModeMoves(OSt(x - 1), body[x], OSt(x))
    BY <2>1, OriginalMoves
  <2> QED
    BY <1>1, <1>3, <2>1, <2>2, <2>3 DEF ModeMoves
<1>4. \A x \in h..z : x \in G
  BY <1>0, <1>2, <1>3, AllAlong
<1>5. z \in G
  BY <1>0, <1>4
<1> QED
  BY <1>1, <1>5

\* From token h on, which is no comment and behind the first BEGIN, no semicolon comes before t.
Leads(h, t) ==
    /\ FirstBegin < h /\ h <= t
    /\ body[h] # "COMMENT" /\ \A j \in h..(t - 1) : ~Semicolon(j)

\* SegmentHead is the first such token.
LEMMA HeadIs ==
    ASSUME M \in Nat, DOMAIN body = 1..M, NEW t \in 1..M, body[t] # "COMMENT",
           \E i \in 1..(t - 1) : body[i] = "BEGIN"
    PROVE  /\ FirstBegin \in 1..(t - 1) /\ body[FirstBegin] = "BEGIN"
           /\ \A j \in 1..(FirstBegin - 1) : body[j] # "BEGIN"
           /\ SegmentHead(t) \in 1..t /\ Leads(SegmentHead(t), t)
           /\ \A k \in 1..t : Leads(k, t) => SegmentHead(t) <= k
<1>1. PICK B : B = {i \in DOMAIN body : body[i] = "BEGIN"}
  OBVIOUS
<1>2. B \subseteq Nat /\ B # {} /\ FirstBegin = Min(B)
  BY <1>1 DEF FirstBegin
<1>3. FirstBegin \in B /\ \A k \in B : FirstBegin <= k
  BY <1>2, LeastOf DEF Min, Run!Min
<1>4. PICK f \in 1..M : f = FirstBegin
  BY <1>1, <1>3
<1>5. f \in 1..(t - 1) /\ body[f] = "BEGIN" /\ \A j \in 1..(f - 1) : body[j] # "BEGIN"
  <2>1. body[f] = "BEGIN" /\ \A k \in B : f <= k
    BY <1>1, <1>3, <1>4
  <2>2. PICK i \in 1..(t - 1) : body[i] = "BEGIN"
    OBVIOUS
  <2>3. i \in B
    BY <1>1, <2>2
  <2>4. f <= i
    BY <2>1, <2>3
  <2>5. \A j \in 1..(f - 1) : j \in B => FALSE
    BY <2>1
  <2>6. \A j \in 1..(f - 1) : j \in 1..M
    OBVIOUS
  <2> QED
    BY <1>1, <2>1, <2>4, <2>5, <2>6
<1>6. PICK H : H = {i \in (f + 1)..t : body[i] # "COMMENT" /\ \A j \in i..(t - 1) : ~Semicolon(j)}
  OBVIOUS
<1>7. SegmentHead(t) = Min(H)
  BY <1>4, <1>6 DEF SegmentHead, Semicolon
<1>8. t \in H /\ H \subseteq Nat
  <2>1. t \in (f + 1)..t /\ \A j \in t..(t - 1) : FALSE
    BY <1>5
  <2>2. \A i \in (f + 1)..t : i \in Nat
    BY <1>5
  <2> QED
    BY <1>6, <2>1, <2>2
<1>9. SegmentHead(t) \in H /\ \A k \in H : SegmentHead(t) <= k
  BY <1>7, <1>8, LeastOf DEF Min, Run!Min
<1>10. ASSUME NEW k \in 1..t, Leads(k, t) PROVE k \in H
  <2>1. f < k /\ body[k] # "COMMENT" /\ \A j \in k..(t - 1) : ~Semicolon(j)
    BY <1>4, <1>10 DEF Leads
  <2>2. k \in (f + 1)..t
    BY <1>4, <2>1
  <2> QED
    BY <1>6, <2>1, <2>2
<1>11. SegmentHead(t) \in 1..t /\ Leads(SegmentHead(t), t)
  <2>1. PICK h : h = SegmentHead(t)
    OBVIOUS
  <2>2. h \in (f + 1)..t /\ body[h] # "COMMENT" /\ \A j \in h..(t - 1) : ~Semicolon(j)
    BY <1>6, <1>9, <2>1
  <2>3. h \in 1..t /\ f < h /\ h <= t
    BY <1>5, <2>2
  <2> QED
    BY <1>4, <2>1, <2>2, <2>3 DEF Leads
<1> QED
  BY <1>4, <1>5, <1>9, <1>10, <1>11

LEMMA HeadFound ==
    ASSUME Whole, Original!AcceptedPlpgsql, NEW t \in 1..M, IsStatement(t)
    PROVE  HeadOf(FirstBegin, SegmentHead(t), t) /\ body[SegmentHead(t)] # "END"
<1>1. M \in Nat /\ DOMAIN body = 1..M /\ t - 1 \in 0..M
  BY OriginalSound, LenProperties DEF Whole, PiecesOK, M
<1>2. body[t] \notin {"COMMENT", "END"} /\ ~Semicolon(t) /\ OSt(t - 1).mode = "statement"
  BY DEF IsStatement, Simple, OSt, Semicolon
<1>3. \E i \in 1..(t - 1) : body[i] = "BEGIN"
  BY <1>1, <1>2, BeginBefore
<1>4. PICK f, h : f = FirstBegin /\ h = SegmentHead(t)
  OBVIOUS
<1>5. f \in 1..(t - 1) /\ body[f] = "BEGIN" /\ \A j \in 1..(f - 1) : body[j] # "BEGIN"
  BY <1>1, <1>2, <1>3, <1>4, HeadIs
<1>6. h \in 1..t /\ Leads(h, t) /\ \A k \in 1..t : Leads(k, t) => h <= k
  BY <1>1, <1>2, <1>3, <1>4, HeadIs
<1>7. f < h /\ body[h] # "COMMENT" /\ \A j \in h..(t - 1) : ~Semicolon(j)
  BY <1>4, <1>6 DEF Leads
<1>8. \A j \in h..t : ~Semicolon(j)
  <2>1. \A j \in h..t : j \in h..(t - 1) \/ j = t
    BY <1>1, <1>6
  <2> QED
    BY <1>2, <1>7, <2>1
<1>9. f \in 1..(h - 1) /\ h \in 1..M
  BY <1>1, <1>5, <1>6, <1>7
<1>10. body[h] # "END"
  <2> SUFFICES ASSUME body[h] = "END" PROVE FALSE
    OBVIOUS
  <2>1. t - 1 \in h..M
    <3>1. h # t
      BY <1>2
    <3> QED
      BY <1>1, <1>6, <3>1
  <2>2. \A x \in (h + 1)..(t - 1) : x \in h..(t - 1)
    BY <1>6
  <2>3. \A x \in (h + 1)..(t - 1) : ~Semicolon(x)
    BY <1>7, <2>2
  <2> QED
    BY <1>2, <1>9, <2>1, <2>3, SemicolonBehindEnd
<1>11. \A k \in (f + 1)..t : body[k] # "COMMENT" /\ (\A j \in k..(t - 1) : ~Semicolon(j)) => h <= k
  <2> SUFFICES ASSUME NEW k \in (f + 1)..t, body[k] # "COMMENT", \A j \in k..(t - 1) : ~Semicolon(j)
               PROVE  h <= k
    OBVIOUS
  <2>1. k \in 1..t /\ f < k /\ k <= t
    BY <1>1, <1>5
  <2>2. Leads(k, t)
    BY <1>4, <2>1 DEF Leads
  <2> QED
    BY <1>6, <2>1, <2>2
<1>12. Len(body) \in Nat /\ DOMAIN body = 1..Len(body) /\ t \in 1..Len(body)
  BY <1>1 DEF M
<1>13. HeadOf(f, h, t)
  BY <1>5, <1>6, <1>7, <1>8, <1>9, <1>11, <1>12 DEF HeadOf
<1> QED
  BY <1>4, <1>10, <1>13

\* In every accepted PL/pgSQL body of every file, the statements that have no point are those
\* behind a LOOP, nested BEGIN, DECLARE or EXCEPTION that itself stands behind a semicolon or
\* behind the first BEGIN. Every other statement has one, however deep it is.
THEOREM MissedStatements == Spec => []OnlyMarkersHideStatements
<1>1. SInv => OnlyMarkersHideStatements
  <2> SUFFICES ASSUME SInv, pc = "done", kind = "plpgsql", Original!Accepted,
                      NEW t \in DOMAIN body, IsStatement(t)
               PROVE  (\E i \in DOMAIN locations : t \in TokensOf(locations[i]))
                          <=> body[SegmentHead(t)] \notin {"LOOP", "BEGIN", "DECLARE", "EXCEPTION"}
    BY DEF OnlyMarkersHideStatements
  <2>1. IInv /\ WInv /\ PiecesOK /\ Written /\ Instrumented
    BY GoodOrder DEF SInv, StatementOK, Instrumented
  <2>2. Whole /\ Original!AcceptedPlpgsql
    BY <2>1 DEF Whole, WInv, Behind, M, Original!Accepted
  <2>3. {locations[i] : i \in DOMAIN locations} = SegmentsUpTo(Len(body) + 1)
    BY <2>1 DEF IInv, LocationsOK
  <2>4. M \in Nat /\ t \in 1..M
    BY <2>2, OriginalSound, LenProperties DEF Whole, PiecesOK, M
  <2>5. PICK h : h = SegmentHead(t)
    OBVIOUS
  <2>6. HeadOf(FirstBegin, h, t) /\ body[h] # "END" /\ h \in 1..t
    BY <2>2, <2>4, <2>5, HeadFound DEF HeadOf
  <2>7. \A m \in Ends : m \in Nat /\ m <= Len(body) + 1
    BY <2>1, Bounds DEF IInv
  <2>8. ASSUME NEW i \in DOMAIN locations, t \in TokensOf(locations[i])
        PROVE  body[h] \notin Structural
    <3>1. PICK a \in DOMAIN body, e \in Ends :
             Segment(a, e) /\ body[a] \notin Structural /\ locations[i] = PointAt(<<a, e>>)
      <4>1. locations[i] \in SegmentsUpTo(Len(body) + 1)
        BY <2>3
      <4>2. PICK y \in (DOMAIN body) \X Ends : Segment(y[1], y[2]) /\ body[y[1]] \notin Structural /\ locations[i] = PointAt(y)
        BY <4>1 DEF SegmentsUpTo
      <4>3. y = <<y[1], y[2]>> /\ y[1] \in DOMAIN body /\ y[2] \in Ends
        BY <4>2
      <4> QED
        BY <4>2, <4>3
    <3>2. a \in 1..M /\ e \in Nat
      BY <2>2, <2>7, LenProperties DEF Whole, PiecesOK, M
    <3>3. locations[i].start = a /\ locations[i].length = e - a
      BY <3>1 DEF PointAt
    <3>4. TokensOf(locations[i]) = a..(e - 1)
      <4>1. a + (e - a) - 1 = e - 1
        BY <2>4, <3>2
      <4> QED
        BY <3>3, <4>1 DEF TokensOf
    <3>5. a \in 1..t /\ t < e
      BY <2>4, <2>8, <3>2, <3>4
    <3>6. \A j \in a..t : ~Semicolon(j)
      <4>1. \A j \in a..t : j \in TokensOf(locations[i])
        BY <2>4, <3>2, <3>4, <3>5
      <4> QED
        BY <2>1, <4>1 DEF WInv, PointsOK, Semicolon
    <3>7. a = h
      BY <2>6, <3>1, <3>5, <3>6, HeadAlone
    <3> QED
      BY <3>1, <3>7
  <2>9. ASSUME body[h] \notin Structural
        PROVE  \E i \in DOMAIN locations : t \in TokensOf(locations[i])
    <3>1. PICK e \in Ends : Segment(h, e) /\ t < e
      BY <2>6, HeadOpens
    <3>2. h \in DOMAIN body /\ h \in Nat /\ e \in Nat /\ e <= Len(body) + 1
      BY <2>2, <2>4, <2>6, <2>7, LenProperties DEF Whole, PiecesOK, M
    <3>3. PointAt(<<h, e>>) \in SegmentsUpTo(Len(body) + 1)
      <4>1. PICK y : y = <<h, e>>
        OBVIOUS
      <4>2. y \in (DOMAIN body) \X Ends /\ y[1] = h /\ y[2] = e
        BY <3>2, <4>1
      <4> QED
        BY <2>9, <3>1, <3>2, <4>1, <4>2 DEF SegmentsUpTo
    <3>4. PICK i \in DOMAIN locations : locations[i] = PointAt(<<h, e>>)
      BY <2>3, <3>3
    <3>5. locations[i].start = h /\ locations[i].length = e - h
      BY <3>4 DEF PointAt
    <3>6. t \in h..(h + (e - h) - 1)
      BY <2>4, <2>6, <3>1, <3>2
    <3> QED
      BY <3>5, <3>6 DEF TokensOf
  <2>10. body[h] \notin Structural <=> body[h] \notin {"LOOP", "BEGIN", "DECLARE", "EXCEPTION"}
    BY <2>6 DEF Structural
  <2> QED
    BY <2>5, <2>8, <2>9, <2>10
<1> QED
  BY SpecInvariance, <1>1, PTL

-----------------------------------------------------------------------------
(* SQL functions                                                            *)

\* What is before a token of the original, comments aside.
OBefore(x) == {y \in 1..M : OTok(y) # "COMMENT" /\ y < x}

\* An accepted SQL body alternates words and semicolons, and begins with a word.
LEMMA OriginalSqlTokens ==
    ASSUME Whole, Original!AcceptedSQL
    PROVE  /\ M \in Nat
           /\ \E x \in 1..M : OTok(x) # "COMMENT"
           /\ \A x \in 1..M : OTok(x) \in {"COMMENT", "word", ";"}
           /\ \A x \in 1..M : OTok(x) # "COMMENT" =>
                  /\ OBefore(x) = {} => OTok(x) # ";"
                  /\ OBefore(x) # {} => IF OTok(x) = ";" THEN OTok(Original!Max(OBefore(x))) = "word"
                                        ELSE OTok(Original!Max(OBefore(x))) \in {";", "signal"}
<1>1. M \in Nat /\ DOMAIN Text(1, Len(body)) = 1..M /\ \A x \in 1..M : OTok(x) # "signal"
  <2>1. M \in Nat /\ Len(Text(1, Len(body))) = M /\ \A x \in 1..M : OTok(x) # "signal"
    BY Places, TokenPlaced
  <2>2. 1 \in Nat /\ 1 >= 1 /\ M <= M /\ 1 <= M + 1
    BY <2>1
  <2>3. Text(1, M) \in Seq({"text", "signal"} \X (1..M))
    BY <2>1, <2>2, TextTyped
  <2>4. DOMAIN Text(1, M) = 1..Len(Text(1, M))
    BY <2>3, LenProperties
  <2> QED
    BY <2>1, <2>4 DEF M
<1>2. PICK A : A = {x \in 1..M : OTok(x) # "COMMENT"}
  OBVIOUS
<1>3. /\ A # {}
      /\ \A x \in A :
            /\ OTok(x) \in {"word", ";", "signal"}
            /\ IF OTok(x) = ";" THEN (IF {y \in A : y < x} = {} THEN "signal" ELSE OTok(Original!Max({y \in A : y < x}))) = "word"
               ELSE (IF {y \in A : y < x} = {} THEN "signal" ELSE OTok(Original!Max({y \in A : y < x}))) \in {";", "signal"}
  BY <1>1, <1>2 DEF Original!AcceptedSQL, OTok
<1>4. ASSUME NEW x \in 1..M, OTok(x) # "COMMENT"
      PROVE  /\ OTok(x) \in {"word", ";"}
             /\ OBefore(x) = {} => OTok(x) # ";"
             /\ OBefore(x) # {} => IF OTok(x) = ";" THEN OTok(Original!Max(OBefore(x))) = "word"
                                   ELSE OTok(Original!Max(OBefore(x))) \in {";", "signal"}
  <2>1. x \in A
    BY <1>2, <1>4
  <2>2. PICK B : B = OBefore(x) /\ B = {y \in A : y < x}
    BY <1>2 DEF OBefore
  <2>3. IF OTok(x) = ";" THEN (IF B = {} THEN "signal" ELSE OTok(Original!Max(B))) = "word"
        ELSE (IF B = {} THEN "signal" ELSE OTok(Original!Max(B))) \in {";", "signal"}
    BY <1>3, <2>1, <2>2
  <2>4. OTok(x) \in {"word", ";"}
    BY <1>1, <1>3, <2>1
  <2>5. B = {} => OTok(x) # ";"
    BY <2>3
  <2>6. B # {} => IF OTok(x) = ";" THEN OTok(Original!Max(B)) = "word" ELSE OTok(Original!Max(B)) \in {";", "signal"}
    BY <2>3
  <2>7. B = OBefore(x)
    BY <2>2
  <2>8. OBefore(x) = {} => OTok(x) # ";"
    BY <2>5, <2>7
  <2>9. OBefore(x) # {} => IF OTok(x) = ";" THEN OTok(Original!Max(OBefore(x))) = "word"
                           ELSE OTok(Original!Max(OBefore(x))) \in {";", "signal"}
    BY ONLY <2>6, <2>7
  <2> QED
    BY <2>4, <2>8, <2>9
<1>5. \E x \in 1..M : OTok(x) # "COMMENT"
  BY <1>2, <1>3
<1> QED
  BY <1>1, <1>4, <1>5

\* The same, along the pieces.
LEMMA TextPrevious ==
    ASSUME Whole, Original!AcceptedSQL, NEW w \in 1..N, TextAt(w), Tok(w) # "COMMENT",
           NEW g \in 1..N, TextAt(g), Tok(g) # "COMMENT", g < w,
           \A u \in 1..N : g < u /\ u < w /\ TextAt(u) => Tok(u) = "COMMENT"
    PROVE  IF Tok(w) = ";" THEN Tok(g) = "word" ELSE Tok(g) = ";"
<1>1. PICK x, y : x = TextPieces(w) /\ y = TextPieces(g)
  OBVIOUS
<1>2. x \in 1..M /\ y \in 1..M /\ OTok(x) = Tok(w) /\ OTok(y) = Tok(g) /\ y < x /\ M \in Nat
  BY <1>1, TokenPlaced, OrderedPlaces, Places
<1>3. y \in OBefore(x) /\ OBefore(x) \subseteq 1..M
  BY <1>2 DEF OBefore
<1>4. PICK z : z = Original!Max(OBefore(x)) /\ z \in OBefore(x) /\ \A k \in OBefore(x) : k <= z
  BY <1>2, <1>3, OriginalGreatest
<1>5. z = y
  <2> SUFFICES ASSUME z # y PROVE FALSE
    OBVIOUS
  <2>1. z \in 1..M /\ OTok(z) # "COMMENT" /\ z < x
    BY <1>4 DEF OBefore
  <2>2. y < z
    <3>1. y <= z /\ y \in Nat /\ z \in Nat
      BY <1>2, <1>3, <1>4, <2>1
    <3> QED
      BY <3>1
  <2>3. PICK u \in 1..N : TextAt(u) /\ TextPieces(u) = z
    BY <2>1, TokenPlaced
  <2>4. g < u /\ u < w
    BY <1>1, <2>1, <2>2, <2>3, OrderedPlaces
  <2>5. Tok(u) = OTok(z)
    BY <2>3, TokenPlaced
  <2> QED
    BY <2>1, <2>3, <2>4, <2>5
<1>6. OBefore(x) # {} /\ OTok(x) # "COMMENT" /\ OTok(z) # "signal"
  BY <1>2, <1>3, <1>5, TokenPlaced
<1>7. IF OTok(x) = ";" THEN OTok(z) = "word" ELSE OTok(z) \in {";", "signal"}
  BY <1>2, <1>4, <1>6, OriginalSqlTokens
<1> QED
  BY <1>2, <1>5, <1>6, <1>7

\* A signal of an SQL function is right before a word.
LEMMA SqlSignalNext ==
    ASSUME Whole, Written, kind = "sql", Original!AcceptedSQL, NEW p \in 1..N, ~TextAt(p)
    PROVE  p + 1 \in 1..N /\ TextAt(p + 1) /\ Tok(p + 1) = "word"
<1>0. PiecesOK /\ DOMAIN written = 1..N
  <2>1. PiecesOK
    BY DEF Whole
  <2> QED
    BY <2>1, Pieces
<1>1. PICK i \in DOMAIN locations : Placed(p, locations[i])
  BY <1>0 DEF Written, SignalsOK, IsText, TextAt
<1>2. p + 1 \in DOMAIN written /\ written[p + 1] = <<"text", locations[i].start>>
  BY <1>1 DEF Placed
<1>3. written[p + 1][1] = "text" /\ written[p + 1][2] = locations[i].start
  BY <1>2
<1>4. p + 1 \in 1..N /\ TextAt(p + 1)
  BY <1>0, <1>2, <1>3 DEF TextAt
<1>5. Tok(p + 1) = body[locations[i].start]
  BY <1>0, <1>3, <1>4, Pieces, TokenPlaced
<1>6. body[locations[i].start] # "COMMENT" /\ body[locations[i].start] # ";"
  <2>1. locations[i] \in [start : Nat, length : Int, implicit : BOOLEAN]
    BY LenProperties, ElementOfSeq DEF Written
  <2>2. locations[i].length >= 1 /\ \A t \in TokensOf(locations[i]) : body[t] # ";"
    BY DEF Written, PointsOK
  <2>3. locations[i].start \in TokensOf(locations[i])
    <3>1. PICK b \in Nat, k \in Int : b = locations[i].start /\ k = locations[i].length
      BY <2>1
    <3>2. k >= 1
      BY <2>2, <3>1
    <3>3. b \in b..(b + k - 1)
      BY ONLY <3>2, b \in Nat, k \in Int
    <3> QED
      BY <3>1, <3>3 DEF TokensOf
  <2> QED
    BY <2>2, <2>3 DEF Written, PointsOK
<1>7. TextPieces(p + 1) \in 1..M /\ OTok(TextPieces(p + 1)) = Tok(p + 1)
  BY <1>4, TokenPlaced
<1> QED
  BY <1>4, <1>5, <1>6, <1>7, OriginalSqlTokens

\* An accepted SQL body stays accepted.
LEMMA SqlStays ==
    ASSUME Whole, Written, kind = "sql", Original!AcceptedSQL
    PROVE  Run!AcceptedSQL
<1>0. /\ PiecesOK /\ DOMAIN written = 1..N /\ N \in Nat /\ M \in Nat
      /\ \A p \in 1..N : TextAt(p) <=> Tok(p) # "signal"
  <2>1. PiecesOK
    BY DEF Whole
  <2> QED
    BY <2>1, Pieces, Places, TokenPlaced
<1>1. PICK P : P = {p \in DOMAIN written : Tok(p) # "COMMENT"}
  OBVIOUS
<1>2. P \subseteq 1..N /\ \A p \in 1..N : p \in P <=> Tok(p) # "COMMENT"
  BY <1>0, <1>1
<1>3. P # {}
  <2>1. PICK x \in 1..M : OTok(x) # "COMMENT"
    BY OriginalSqlTokens
  <2>2. PICK p \in 1..N : TextAt(p) /\ TextPieces(p) = x
    BY <2>1, TokenPlaced
  <2>3. Tok(p) # "COMMENT"
    BY <2>1, <2>2, TokenPlaced
  <2> QED
    BY <1>2, <2>3
<1>4. ASSUME NEW p \in P PROVE Tok(p) \in {"word", ";", "signal"}
  <2>1. p \in 1..N /\ Tok(p) # "COMMENT"
    BY <1>2
  <2>2. CASE TextAt(p)
    <3>1. TextPieces(p) \in 1..M /\ OTok(TextPieces(p)) = Tok(p)
      BY <2>1, <2>2, TokenPlaced
    <3> QED
      BY <2>1, <3>1, OriginalSqlTokens
  <2>3. CASE ~TextAt(p)
    BY <1>0, <2>1, <2>3
  <2> QED
    BY <2>2, <2>3
<1>5. Tok(Run!Max(P)) # "signal"
  <2>1. PICK g : g = Run!Max(P) /\ g \in P /\ \A k \in P : k <= g
    BY <1>0, <1>2, <1>3, GreatestOf
  <2> SUFFICES ASSUME Tok(g) = "signal" PROVE FALSE
    BY <2>1
  <2>2. g \in 1..N /\ ~TextAt(g)
    BY <1>0, <1>2, <2>1
  <2>3. g + 1 \in 1..N /\ Tok(g + 1) = "word"
    BY <2>2, SqlSignalNext
  <2>4. g + 1 \in P
    BY <1>2, <2>3
  <2>5. g + 1 <= g
    BY <2>1, <2>4
  <2> QED
    BY <1>0, <2>2, <2>5
<1>6. ASSUME NEW p \in P, NEW B, B = {q \in P : q < p}
      PROVE  IF Tok(p) = ";" THEN B # {} /\ Tok(Run!Max(B)) = "word"
             ELSE B = {} \/ Tok(Run!Max(B)) \in {";", "signal"}
  <2>1. p \in 1..N /\ p \in Nat /\ Tok(p) # "COMMENT" /\ B \subseteq 1..N
    <3>1. p \in 1..N /\ Tok(p) # "COMMENT" /\ B \subseteq 1..N
      BY <1>2, <1>6
    <3>2. p \in Nat
      BY ONLY <1>0, <3>1
    <3> QED
      BY <3>1, <3>2
  <2>2. ASSUME B # {}
        PROVE  \E g \in 1..N : /\ g = Run!Max(B) /\ g < p /\ Tok(g) # "COMMENT"
                               /\ \A u \in 1..N : g < u /\ u < p => Tok(u) = "COMMENT"
    <3>1. PICK g : g = Run!Max(B) /\ g \in B /\ \A k \in B : k <= g
      BY <1>0, <2>1, <2>2, GreatestOf
    <3>2. g \in 1..N /\ g < p /\ Tok(g) # "COMMENT"
      BY <1>2, <1>6, <3>1
    <3>3. ASSUME NEW u \in 1..N, g < u, u < p PROVE Tok(u) = "COMMENT"
      <4> SUFFICES ASSUME Tok(u) # "COMMENT" PROVE FALSE
        OBVIOUS
      <4>1. u \in B
        BY <1>2, <1>6, <3>3
      <4>2. u <= g
        BY <3>1, <4>1
      <4> QED
        BY <1>0, <3>2, <3>3, <4>2
    <3> QED
      BY <3>1, <3>2, <3>3
  <2>3. CASE Tok(p) = ";"
    <3>1. TextAt(p)
      BY <1>0, <2>1, <2>3
    <3>2. B # {}
      <4>1. PICK x : x = TextPieces(p)
        OBVIOUS
      <4>2. x \in 1..M /\ OTok(x) = ";"
        BY <2>1, <2>3, <3>1, <4>1, TokenPlaced
      <4>3. PICK y : y \in OBefore(x)
        BY <4>2, OriginalSqlTokens
      <4>4. y \in 1..M /\ OTok(y) # "COMMENT" /\ y < x
        BY <4>3 DEF OBefore
      <4>5. PICK q \in 1..N : TextAt(q) /\ TextPieces(q) = y
        BY <4>4, TokenPlaced
      <4>6. q < p
        BY <2>1, <3>1, <4>1, <4>4, <4>5, OrderedPlaces
      <4>7. Tok(q) # "COMMENT"
        BY <4>4, <4>5, TokenPlaced
      <4> QED
        BY <1>2, <1>6, <4>5, <4>6, <4>7
    <3>3. PICK g \in 1..N : /\ g = Run!Max(B) /\ g < p /\ Tok(g) # "COMMENT"
                            /\ \A u \in 1..N : g < u /\ u < p => Tok(u) = "COMMENT"
      BY <2>2, <3>2
    <3>4. TextAt(g)
      <4> SUFFICES ASSUME ~TextAt(g) PROVE FALSE
        OBVIOUS
      <4>1. g + 1 \in 1..N /\ Tok(g + 1) = "word"
        BY SqlSignalNext
      <4>2. g + 1 # p
        BY <2>3, <4>1
      <4>3. g < g + 1 /\ g + 1 < p
        BY <2>1, <3>3, <4>2
      <4> QED
        BY <3>3, <4>1, <4>3
    <3>5. Tok(g) = "word"
      BY <2>1, <2>3, <3>1, <3>3, <3>4, TextPrevious
    <3> QED
      BY <2>3, <3>2, <3>3, <3>5
  <2>4. CASE Tok(p) # ";"
    <3> SUFFICES ASSUME B # {} PROVE Tok(Run!Max(B)) \in {";", "signal"}
      BY <2>4
    <3>3. PICK g \in 1..N : /\ g = Run!Max(B) /\ g < p /\ Tok(g) # "COMMENT"
                            /\ \A u \in 1..N : g < u /\ u < p => Tok(u) = "COMMENT"
      BY <2>2
    <3>4. CASE ~TextAt(g)
      BY <1>0, <3>3, <3>4
    <3>5. CASE TextAt(g) /\ TextAt(p)
      <4>1. Tok(g) = ";"
        BY <2>1, <2>4, <3>3, <3>5, TextPrevious
      <4> QED
        BY <3>3, <4>1
    <3>6. CASE TextAt(g) /\ ~TextAt(p)
      <4>1. PICK w \in 1..N : w = p + 1 /\ TextAt(w) /\ Tok(w) = "word"
        BY <2>1, <3>6, SqlSignalNext
      <4>2. g < w
        BY <2>1, <3>3, <4>1
      <4>3. ASSUME NEW u \in 1..N, g < u, u < w, TextAt(u) PROVE Tok(u) = "COMMENT"
        <5>1. u # p
          BY <3>6, <4>3
        <5>2. u < p
          BY <2>1, <4>1, <4>3, <5>1
        <5> QED
          BY <3>3, <4>3, <5>2
      <4>4. Tok(w) # "COMMENT" /\ Tok(w) # ";"
        BY <4>1
      <4>5. Tok(g) = ";"
        BY <3>3, <3>6, <4>1, <4>2, <4>3, <4>4, TextPrevious
      <4> QED
        BY <3>3, <4>5
    <3> QED
      BY <3>4, <3>5, <3>6
  <2> QED
    BY <2>3, <2>4
<1>7. \A p \in P :
         IF Tok(p) = ";" THEN (IF {q \in P : q < p} = {} THEN "signal" ELSE Tok(Run!Max({q \in P : q < p}))) = "word"
         ELSE (IF {q \in P : q < p} = {} THEN "signal" ELSE Tok(Run!Max({q \in P : q < p}))) \in {";", "signal"}
  <2> SUFFICES ASSUME NEW p \in P, NEW B, B = {q \in P : q < p}
               PROVE  IF Tok(p) = ";" THEN (IF B = {} THEN "signal" ELSE Tok(Run!Max(B))) = "word"
                      ELSE (IF B = {} THEN "signal" ELSE Tok(Run!Max(B))) \in {";", "signal"}
    OBVIOUS
  <2>1. IF Tok(p) = ";" THEN B # {} /\ Tok(Run!Max(B)) = "word"
        ELSE B = {} \/ Tok(Run!Max(B)) \in {";", "signal"}
    BY <1>6
  <2> QED
    BY <2>1
<1> QED
  BY <1>1, <1>3, <1>4, <1>5, <1>7 DEF Run!AcceptedSQL, Tok

-----------------------------------------------------------------------------
(* Acceptance                                                               *)

\* No SQL body that is accepted has declarations.
LEMMA SqlNotNested ==
    ASSUME Whole, Written, Original!AcceptedSQL, {locations[i] : i \in DOMAIN locations} = Segments
    PROVE  ~NestedDeclarations
<1> SUFFICES ASSUME NestedDeclarations PROVE FALSE
  OBVIOUS
<1>1. PICK i \in DOMAIN locations : \E j \in 1..(EndOfPoint(locations[i]) - 1) : body[j] = "DECLARE"
  BY DEF NestedDeclarations, EndOfPoint
<1>2. PICK j \in 1..(EndOfPoint(locations[i]) - 1) : body[j] = "DECLARE"
  BY <1>1
<1>3. locations[i] \in [start : Nat, length : Int, implicit : BOOLEAN]
  BY LenProperties, ElementOfSeq DEF Written
<1>4. EndOfPoint(locations[i]) \in Int /\ EndOfPoint(locations[i]) <= M + 1 /\ M \in Nat
  <2>1. M \in Nat /\ lastWritten = M
    BY Places DEF Whole
  <2>2. EndOfPoint(locations[i]) <= lastWritten + 1
    BY DEF Written, PointsOK
  <2>3. EndOfPoint(locations[i]) \in Int
    BY <1>3 DEF EndOfPoint
  <2> QED
    BY <2>1, <2>2, <2>3
<1>5. j \in 1..M
  BY <1>2, <1>4
<1>6. OTok(j) = "DECLARE"
  BY <1>2, <1>5, TokenPlaced
<1> QED
  BY <1>5, <1>6, OriginalSqlTokens

\* There is a signal if there is a segment, and no body that is accepted is empty.
LEMMA SignalsOfSegments ==
    ASSUME Written, Original!Accepted, {locations[i] : i \in DOMAIN locations} = Segments
    PROVE  HasSignals <=> Segments # {}
<1>1. DOMAIN locations # {} <=> Segments # {}
  OBVIOUS
<1>2. ASSUME NEW p \in DOMAIN written, written[p][1] = "signal" PROVE DOMAIN locations # {}
  <2>1. ~IsText(p)
    BY <1>2 DEF IsText
  <2> QED
    BY <2>1 DEF Written, SignalsOK
<1>3. ASSUME NEW i \in DOMAIN locations PROVE HasSignals
  <2>1. PICK p \in DOMAIN written : written[p] = <<"signal", locations[i].start>>
    BY DEF Written, SignalsOK
  <2> QED
    BY <2>1 DEF HasSignals
<1> QED
  BY <1>1, <1>2, <1>3 DEF HasSignals

LEMMA AcceptedNotEmpty ==
    ASSUME Whole, Original!Accepted
    PROVE  body # <<>>
<1> SUFFICES ASSUME body = <<>> PROVE FALSE
  OBVIOUS
<1>1. M = 0 /\ Len(Text(1, Len(body))) = M
  BY TokenPlaced DEF M
<1>2. CASE kind = "sql"
  <2>1. DOMAIN Text(1, Len(body)) = {}
    BY <1>1 DEF Text
  <2> QED
    BY <1>2, <2>1 DEF Original!Accepted, Original!AcceptedSQL
<1>3. CASE kind # "sql"
  <2>1. Original!AcceptedPlpgsql
    BY <1>3 DEF Original!Accepted
  <2>2. OSt(M).mode \in {"semicolon", "end"} /\ OSt(0) = StartState
    BY <2>1, OriginalSound, OScanStep
  <2> QED
    BY <1>1, <2>2 DEF StartState
<1> QED
  BY <1>2, <1>3

\* A statement that PostgreSQL accepts as the user wrote it is accepted with its signals,
\* exactly if no declaration of a nested block is taken for a statement and no signal gets
\* into single quotes: a signal behind a semicolon is between two statements, or, in the
\* first case, between two declarations.
THEOREM AcceptedStaysAccepted == Spec => []LoadsUnlessNestedOrQuoted
<1>1. SInv => LoadsUnlessNestedOrQuoted
  <2> SUFFICES ASSUME SInv, pc = "done", Instrumented, Original!Accepted
               PROVE  StatementLoads <=> /\ ~NestedDeclarations
                                         /\ Segments # {} => ~InSingleQuotes(statements[n])
    BY DEF LoadsUnlessNestedOrQuoted
  <2>1. IInv /\ WInv /\ PiecesOK /\ Written
    BY GoodOrder DEF SInv, StatementOK
  <2>2. Whole
    BY <2>1 DEF Whole, WInv, Behind, M
  <2>3. {locations[i] : i \in DOMAIN locations} = Segments
    BY <2>1, PointsFound
  <2>4. Run!Accepted <=> ~NestedDeclarations
    <3>1. CASE kind = "sql"
      BY <2>1, <2>2, <2>3, <3>1, SqlStays, SqlNotNested DEF Original!Accepted, Run!Accepted
    <3>2. CASE kind # "sql"
      <4>1. Scanning
        BY <2>1, <2>2, <2>3, <3>2 DEF Scanning
      <4> QED
        BY <3>2, <4>1, PlpgsqlStays DEF Original!Accepted, Run!Accepted
    <3> QED
      BY <3>1, <3>2
  <2>5. body # <<>> /\ (HasSignals <=> Segments # {})
    BY <2>1, <2>2, <2>3, AcceptedNotEmpty, SignalsOfSegments
  <2> QED
    BY <2>4, <2>5 DEF StatementLoads
<1> QED
  BY SpecInvariance, <1>1, PTL
=============================================================================
