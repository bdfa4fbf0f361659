---------------------------- MODULE MCSourceFile ----------------------------
(***************************************************************************)
(* Source files for TLC: a function with any body of up to MaxTokens       *)
(* tokens, or of a BEGIN and up to MaxTokens more; a PL/pgSQL function     *)
(* with control structure, for its calls; and files of one to three        *)
(* statements of every shape the parser knows.                             *)
(***************************************************************************)
EXTENDS SourceFile

CONSTANT MaxTokens

Words(s) == [i \in DOMAIN s |-> Word(s[i])]
Name(l) == Constant("'", <<l>>)

Function(language, b) ==
    Words(<<"CREATE", "FUNCTION", "name", "AS">>) \o <<Constant("$$", b)>>
        \o Words(<<"LANGUAGE", language, ";">>)

BodyTokens == {"BEGIN", "RETURN", "RAISE", "NOTICE", "COMMENT", ";", "word"}
AnyBody == UNION {[1..m -> BodyTokens] : m \in 0..MaxTokens}

-----------------------------------------------------------------------------
(* Bodies with control structure                                            *)

Leaves == {<<"word", ";">>, <<"RETURN", ";">>, <<"RAISE", ";">>, <<"RAISE", "NOTICE", ";">>}
Lists(S) == S \cup {s \o t : s \in S, t \in S}
InLoops == Leaves \cup {<<"EXIT", ";">>}

Constructs ==
         {<<"IF">> \o s \o <<"END", ";">> : s \in Lists(Leaves)}
    \cup {<<"IF">> \o s \o <<"ELSE">> \o t \o <<"END", ";">> : s \in Leaves, t \in Leaves}
    \cup {<<l>> \o s \o <<"END", ";">> : l \in {"LOOP", "WHILE"}, s \in Lists(InLoops)}
    \cup {<<"BEGIN">> \o s \o <<"EXCEPTION">> \o t \o <<"END", ";">> :
              s \in Lists(Leaves), t \in Leaves}
    \cup {<<"DECLARE">> \o d \o <<"BEGIN">> \o s \o <<"END", ";">> :
              d \in {<<"word", ";">>, <<"word", ";", "word", ";">>}, s \in Leaves}
    \cup {<<"COMMIT", ";">>, <<"DIAGNOSTICS", ";">>}
    \cup {<<"IF", "END", ";">>, <<"IF", "word", ";", "ELSE", "END", ";">>, <<"IF", "ELSE", "RETURN", ";", "END", ";">>,
          <<"WHILE", "END", ";">>, <<"BEGIN", "EXCEPTION", "END", ";">>}

Nested ==
         {<<"LOOP", "IF">> \o s \o <<"END", ";", "word", ";", "END", ";">> : s \in InLoops}
    \cup {<<"BEGIN", "LOOP">> \o s \o t \o <<"END", ";", "EXCEPTION", "word", ";", "END", ";">> :
              s \in InLoops, t \in InLoops}
    \cup {<<o, "DECLARE", "word", ";", "BEGIN", "word", ";", "END", ";", "END", ";">> : o \in {"IF", "LOOP", "WHILE"}}

Surrounded(S) ==
    {<<"BEGIN">> \o a \o s \o b \o <<"END", ";">> :
         a \in {<<>>, <<"word", ";">>}, s \in S, b \in {<<>>, <<"word", ";">>}}

Programs == Surrounded(Constructs \cup Nested) \cup {<<"DECLARE", "word", ";">> \o p : p \in Surrounded(Leaves)}

-----------------------------------------------------------------------------
(* Statements                                                               *)

Small == <<"BEGIN", "word", ";", "END">>
Shapes == {
    <<Comment>>,
    <<Comment>> \o Words(<<"CREATE", "TABLE", "name", ";">>),
    Words(<<"CREATE", "VIEW", "name", "AS", "word", ";">>),
    Words(<<"CREATE", "OR", "REPLACE", "FUNCTION", "name", "LANGUAGE", "sql">>) \o <<Comment>>
        \o Words(<<"AS">>) \o <<Constant("'", <<"word", ";", "word">>)>> \o Words(<<";">>),
    Words(<<"CREATE", "FUNCTION", "name", "DEFAULT">>) \o <<Constant("'", <<"word">>)>>
        \o Words(<<"AS">>) \o <<Constant("E'", Small)>> \o Words(<<"LANGUAGE">>) \o <<Name("plpgsql")>>,
    Words(<<"CREATE", "PROCEDURE", "name", "LANGUAGE", "c", "AS">>) \o <<Name("word")>> \o Words(<<";">>),
    Words(<<"CREATE", "FUNCTION", "name", "LANGUAGE", "sql", "BEGIN", "word", ";">>),
    Words(<<"DO">>) \o <<Constant("$$", Small)>> \o Words(<<";">>),
    Words(<<"DO", "LANGUAGE", "plpgsql">>) \o <<Constant("$$", Small)>> \o Words(<<";">>),
    Words(<<"DO">>) \o <<Constant("'", Small)>> \o Words(<<"LANGUAGE">>) \o <<Name("plpgsql")>>,
    Words(<<"DO", "LANGUAGE">>) \o <<Name("plpgsql")>> \o <<Constant("$$", Small)>> \o Words(<<";">>)}

MCFiles ==
         {<<Function(l, b)>> : l \in {"plpgsql", "sql"}, b \in AnyBody}
    \cup {<<Function("plpgsql", <<"BEGIN">> \o b)>> : b \in AnyBody}
    \cup {<<Function("plpgsql", b)>> : b \in Programs}
    \cup UNION {[1..m -> Shapes] : m \in 1..3}

=============================================================================
