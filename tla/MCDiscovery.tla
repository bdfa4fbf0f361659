---------------------------- MODULE MCDiscovery ----------------------------
(***************************************************************************)
(* A small tree for TLC. Directories: 1 (the root), 1/3, 1/3/5, and 8      *)
(* outside the root. Files are named 2 and 4 (sources, sorting before and  *)
(* after directory 3), 6 (a test) and 7 (no SQL file).                     *)
(***************************************************************************)
EXTENDS Discovery

MCRoot == <<1>>
MCKind == [n \in {2, 4, 6, 7} |-> IF n = 6 THEN "test" ELSE IF n = 7 THEN "unknown" ELSE "source"]

Outside == {<<8, 4>>}
MCTrees ==
    {tree \cup Outside \cup {<<1, 7>>} : tree \in SUBSET
        ({<<1, 3>> \o <<n>> : n \in {2, 4, 6}} \cup {<<1, 3, 5>> \o <<n>> : n \in {2, 6}}
            \cup {<<1, 2>>, <<1, 4>>, <<1, 6>>})}

MCLocked == {{}, {<<1, 3, 5>>}}

\* Three patterns: two that overlap, one that also matches a test.
MCGlobs == [p \in {"a", "b", "t"} |->
    CASE p = "a" -> {<<1, 4>>, <<1, 3, 2>>}
      [] p = "b" -> {<<1, 2>>, <<1, 4>>, <<8, 4>>}
      [] p = "t" -> {<<1, 2>>, <<1, 6>>}]

MCListings == {<<>>, <<"a", "b">>, <<"b", "a">>, <<"t">>}

=============================================================================
