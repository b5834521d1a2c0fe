----------------------------- MODULE MCWordFilter -----------------------------
(* Instances of WordFilter for TLC: two letters, one of them in both cases. *)
EXTENDS WordFilter

MCChars == {"a", "A", "b", " ", "#"}
MCLower == [ch \in MCChars |-> IF ch = "A" THEN "a" ELSE ch]

Strings(S, from, to) == UNION {[1 .. n -> S] : n \in from .. to}

MCFile     == {<<" ", "A", "b">>, <<"#", "b">>, <<" ">>}
MCInputs   == {<<"a">>, <<"b">>, <<"a", "b">>, <<"b", "a">>, <<"a", "a", "b">>,
               <<"b", "A", "b", " ">>, <<" ">>}
MCTexts    == Strings({"a", "b"}, 1, 5) \cup {<<"A", "b", " ", "A">>}
MCContents == {<<"b", "A", "b">>, <<"a", "a">>}
===============================================================================
