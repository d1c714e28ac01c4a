--------------------------- MODULE MCApplications ---------------------------
(* Small instances of the applications for TLC.                            *)
EXTENDS Applications, FiniteSets

TheApples == {<<0, 0>>, <<2, 1>>, <<3, 1>>, <<4, 0>>}

TheCommands == << <<"a", "a", "b">>, <<"b", "a">> >>

Rel(p) == [abs |-> FALSE, names |-> p]
Abs(p) == [abs |-> TRUE, names |-> p]
TheArgs == {Rel(<<"a">>), Rel(<<"d">>), Abs(<<>>), Abs(<<"a">>)}
TheTexts == {<<>>, <<"x">>, <<"y", "x">>, <<"x", "y", "y", "x">>}

TheOldTexts == SeqOf({"a", "nl"}, 3)

(* All programs of up to seven characters, and some with deep loops.       *)
Count(p, ch) == Cardinality({k \in DOMAIN p : p[k] = ch})
Balanced(p) ==
    /\ Count(p, "[") = Count(p, "]")
    /\ \A i \in DOMAIN p : Count(SubSeq(p, 1, i), "[") >= Count(SubSeq(p, 1, i), "]")
ThePrograms ==
    {p \in SeqOf({"+", "<", ">", "[", "]"}, 7) : Balanced(p)}
    \cup {<<"+", "+", "[", ">", "+", "+", "[", ">", "+", "<", "-", "]", "<", "-", "]">>,
          <<"+", "[", ">", "+", "[", ">", "+", "[", "-", "]", "<", "-", "]", "<", "-", "]">>,
          <<"+", "+", "[", ">", "[", "-", ">", "+", "<", "]", "+", "<", "-", "]", ">", ".">>}
=============================================================================
