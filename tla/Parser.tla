------------------------------- MODULE Parser -------------------------------
(***************************************************************************)
(* How a source file is taken apart: Parse of internal/parser/parse.go.    *)
(*                                                                         *)
(* A file is what the lexer makes of it: a sequence of statements, each a  *)
(* sequence of tokens. The lexer (pglex) is a library: it ends a statement *)
(* at a semicolon outside of string constants, and tells comments and      *)
(* string constants from other tokens. What a string constant quotes is a  *)
(* sequence of tokens of its own, as far as it is a function body.         *)
(*                                                                         *)
(* Text is measured in atoms: a word is one, and so is each character of a *)
(* quote. Offsets count from 0, as in the code. White space is left out.   *)
(***************************************************************************)
EXTENDS Naturals, Sequences, FiniteSetsExt, SequencesExt

Word(t) == [text |-> t, quote |-> "", inner |-> <<>>]
Constant(q, s) == [text |-> "constant", quote |-> q, inner |-> s]
Comment == Word("COMMENT")

IsConstant(t) == t.quote # ""

\* The opening and the closing delimiter of a string constant.
Opening(q) == CASE q = "$$" -> <<"$", "$">> [] q = "'" -> <<"'">> [] q = "E'" -> <<"E", "'">>
Closing(q) == IF q = "$$" THEN <<"$", "$">> ELSE <<"'">>

Atoms(t) == IF IsConstant(t) THEN Opening(t.quote) \o t.inner \o Closing(t.quote) ELSE <<t.text>>
RawText(tokens) == FlattenSeq([i \in DOMAIN tokens |-> Atoms(tokens[i])])
FileText(file) == FlattenSeq([g \in DOMAIN file |-> RawText(file[g])])

\* Where each token of a statement begins, counted from the statement's first.
Positioned(tokens) ==
    [i \in DOMAIN tokens |->
        [token |-> tokens[i], pos |-> Len(RawText(SubSeq(tokens, 1, i - 1)))]]

\* The elements of s at the places in I, in order.
Pick(s, I) ==
    LET picked[m \in 0..Len(s)] ==
            IF m = 0 THEN <<>>
            ELSE IF m \in I THEN Append(picked[m - 1], s[m])
            ELSE picked[m - 1]
    IN picked[Len(s)]

Significant(tokens) == Pick(Positioned(tokens), {i \in DOMAIN tokens : tokens[i] # Comment})

-----------------------------------------------------------------------------
(* One statement; sig is the sequence of its significant tokens             *)

IsIdent(sig, i, word) == i \in DOMAIN sig /\ sig[i].token.text = word

\* Triggers and views are told apart as well, and treated as any other statement.
ClassifyTokens(sig) ==
    LET i == CASE ~IsIdent(sig, 2, "OR")    -> 2
               [] IsIdent(sig, 3, "REPLACE") -> 4
               [] OTHER                      -> 3
    IN CASE IsIdent(sig, 1, "DO")                                     -> "do"
         [] IsIdent(sig, 1, "CREATE") /\ IsIdent(sig, i, "FUNCTION")  -> "function"
         [] IsIdent(sig, 1, "CREATE") /\ IsIdent(sig, i, "PROCEDURE") -> "procedure"
         [] OTHER                                                     -> "other"

\* The name of a language may be quoted.
LanguageName(t) == IF t.quote = "'" THEN t.inner[1] ELSE t.text

\* The token after the first LANGUAGE.
ExtractLanguage(sig) ==
    LET found == {i \in 1..(Len(sig) - 1) : IsIdent(sig, i, "LANGUAGE")}
    IN IF found = {} THEN "" ELSE LanguageName(sig[Min(found) + 1].token)

\* DO is PL/pgSQL unless it says otherwise.
LanguageOf(type, sig) ==
    IF type = "do" /\ ExtractLanguage(sig) = "" THEN "plpgsql" ELSE ExtractLanguage(sig)

NoBody == [body |-> <<>>, bodyStart |-> 0]

\* What a constant quotes, and where that begins.
UnquoteString(t) ==
    [body |-> t.token.inner, bodyStart |-> t.pos + Len(Opening(t.token.quote))]

\* Mutant of ExtractBody: the first constant there is.
FirstConstant(sig) ==
    LET found == {i \in DOMAIN sig : IsConstant(sig[i].token)}
    IN IF found = {} THEN NoBody ELSE UnquoteString(sig[Min(found)])

\* The constant that follows an AS.
ExtractBody(sig) ==
    LET found == {i \in 1..(Len(sig) - 1) : IsIdent(sig, i, "AS") /\ IsConstant(sig[i + 1].token)}
    IN IF found = {} THEN NoBody ELSE UnquoteString(sig[Min(found) + 1])

\* The first constant after DO.
ExtractDOBody(sig) ==
    LET found == {i \in 2..Len(sig) : IsConstant(sig[i].token)}
    IN IF found = {} THEN NoBody ELSE UnquoteString(sig[Min(found)])

BodyOf(type, sig) ==
    CASE type = "do"                      -> ExtractDOBody(sig)
      [] type \in {"function", "procedure"} -> ExtractBody(sig)
      [] OTHER                            -> NoBody

Statement(tokens, start) ==
    LET sig  == Significant(tokens)
        type == ClassifyTokens(sig)
        body == BodyOf(type, sig)
    IN [raw |-> RawText(tokens), startPos |-> start, type |-> type,
        language |-> IF type = "other" THEN "" ELSE LanguageOf(type, sig),
        body |-> body.body, bodyStart |-> body.bodyStart]

\* Mutant of SplitAndClassify: positions count from the end of the last statement kept.
PackedStatements(file) ==
    LET kept == Pick(file, {g \in DOMAIN file : Significant(file[g]) # <<>>})
    IN [k \in DOMAIN kept |-> Statement(kept[k], Len(FileText(SubSeq(kept, 1, k - 1))))]

\* The statements of a file; those of comments only are dropped.
SplitAndClassify(file) ==
    LET all == [g \in DOMAIN file |-> [tokens |-> file[g], start |-> Len(FileText(SubSeq(file, 1, g - 1)))]]
        kept == Pick(all, {g \in DOMAIN file : Significant(file[g]) # <<>>})
    IN [k \in DOMAIN kept |-> Statement(kept[k].tokens, kept[k].start)]

=============================================================================
