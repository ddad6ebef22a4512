-------------------------- MODULE MCPolicySnapshot --------------------------
(***************************************************************************)
(* Three lower-case labels, one of them also in capitals, and the empty    *)
(* label of a trailing dot.  The rules include one suffix of another, two  *)
(* spellings of one domain, and a rule that is nothing but a dot.  In      *)
(* characters they begin and end alike, so that the automaton has links to *)
(* follow, two in a row on the name y, which no rule has.                  *)
(***************************************************************************)
EXTENDS MatcherComparison

MCLabels == {"", "com", "COM", "ads", "x", "y"}
MCLower == [l \in MCLabels |-> IF l = "COM" THEN "com" ELSE l]
MCRules == {<<"com">>, <<"ads", "com">>, <<"ads", "COM">>, <<"ads", "com", "">>,
            <<"x", "ads", "com">>, <<"x">>, <<"", "">>}
MCQNames == {<<>>, <<"com">>, <<"ads", "com">>, <<"x", "ads", "com">>,
             <<"x", "com">>, <<"x", "x", "ads", "com">>, <<"com", "ads">>, <<"x">>, <<"y">>}
MCChars == {"a", "b", "c", "C", "."}
MCLowerChar == [c \in MCChars |-> IF c = "C" THEN "c" ELSE c]
MCSpelling == [l \in MCLabels |->
    CASE l = "" -> <<>> [] l = "com" -> <<"b", "c">> [] l = "COM" -> <<"b", "C">>
      [] l = "ads" -> <<"a", "a", "b">> [] l = "x" -> <<"a", "b">>
      [] l = "y" -> <<"a", "a", "b", "c">>]
=============================================================================
