-------------------------- MODULE MatcherComparison -------------------------
(***************************************************************************)
(* The suffix trie of a policy and the automaton filled with the same list *)
(* of rules, as benchmark_matcher_comparison.cpp fills them, except that   *)
(* rules may still come after a build().                                   *)
(***************************************************************************)
EXTENDS PolicySnapshot, AhoCorasick

CONSTANTS
    Spelling,     \* Spelling[l]: the characters of a label
    DotChar

ASSUME SpellingAssumption ==
    /\ Spelling \in [Labels -> Seq(Chars)] /\ DotChar \in Chars
    /\ Spelling[EmptyLabel] = <<>>

\* A domain in characters, with a dot before each label but the first.
Text(domain) ==
    FlattenSeq([i \in DOMAIN domain |->
                    (IF i = 1 THEN <<>> ELSE <<DotChar>>) \o Spelling[domain[i]]])

ComparisonInit == Init /\ AhoInit

\* Both get the rule under the same id.
AddRule(rule) ==
    /\ AddSuffix(rule)
    /\ InsertPattern(Text(rule), Len(suffixes) + 1)

AddName(rule) ==
    ~built_ /\ (AddExact(rule) \/ AddAllow(rule)) /\ UNCHANGED aho_vars

\* Bound: the name sets have no part in the comparison and stay empty in it.
BuildMatcher ==
    /\ ~built_ /\ exact_blocks = {} /\ allowlist = {}
    /\ Build
    /\ UNCHANGED vars

ComparisonNext ==
    \/ \E rule \in Rules : AddRule(rule) \/ AddName(rule)
    \/ BuildMatcher

ComparisonSpec ==
    ComparisonInit /\ [][ComparisonNext]_<<vars, aho_vars>>

-----------------------------------------------------------------------------
Pattern(k) == Lowered(Text(suffixes[k]))

\* The rules whose pattern ends with the i-th character of a text.
Ending(text, i) ==
    {k \in 1..Len(suffixes) :
        /\ Len(Pattern(k)) \in 1..i
        /\ SubSeq(Lowered(text), i - Len(Pattern(k)) + 1, i) = Pattern(k)}

\* Of those, the last with the shortest pattern.
Named(text, i) ==
    {k \in Ending(text, i) : \A l \in Ending(text, i) :
        \/ Len(Pattern(k)) < Len(Pattern(l))
        \/ Len(Pattern(k)) = Len(Pattern(l)) /\ k >= l}

\* The reference definition of the automaton: after build() it reports the
\* first place where a pattern ends in the text, wherever the pattern begins
\* and across the dots, with the last rule id given to the shortest pattern
\* that ends there (aho_corasick.h, "Matches if text contains any pattern as
\* a substring").
AutomatonFindsSubstrings ==
    built_ => \A text \in {Text(qname) : qname \in QNames} :
        LET first(i) == /\ Ending(text, i) # {}
                        /\ \A j \in 1..(i - 1) : Ending(text, j) = {}
        IN  Search(text) = UNION {{<<i, k>> : k \in Named(text, i)} :
                                    i \in {j \in 1..Len(text) : first(j)}}

=============================================================================
