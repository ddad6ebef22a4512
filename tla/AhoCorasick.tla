----------------------------- MODULE AhoCorasick ----------------------------
(***************************************************************************)
(* dataplane::engine::AhoCorasick (aho_corasick.h/.cpp): the automaton the *)
(* matcher benchmark compares with the suffix trie.  A node is the string  *)
(* that leads to it from the root, so a transition appends a character.    *)
(* build() and search() change nothing until they return.                  *)
(***************************************************************************)
EXTENDS Integers, FiniteSets, Sequences, SequencesExt

CONSTANTS
    Chars,
    LowerChar     \* LowerChar[c]: std::tolower

ASSUME CharAssumption == LowerChar \in [Chars -> Chars]

VARIABLES
    ac_nodes,     \* nodes_; <<>> is the root
    fail_link,
    matched,      \* rule_id of the nodes with is_match
    built_

aho_vars == <<ac_nodes, fail_link, matched, built_>>

Lowered(text) == [i \in DOMAIN text |-> LowerChar[text[i]]]

AhoInit ==
    /\ ac_nodes = {<<>>}
    /\ fail_link = [v \in {<<>>} |-> <<>>]
    /\ matched = [v \in {} |-> 0]
    /\ built_ = FALSE

\* A repeated pattern takes the last rule id; old links stay until build().
InsertPattern(pattern, id) ==
    IF pattern = <<>> THEN UNCHANGED aho_vars ELSE
    LET path == Lowered(pattern)
        all  == ac_nodes \cup {SubSeq(path, 1, i) : i \in 1..Len(path)}
    IN  /\ ac_nodes' = all
        /\ fail_link' = [v \in all |-> IF v \in ac_nodes THEN fail_link[v] ELSE <<>>]
        /\ matched' = [v \in DOMAIN matched \cup {path} |->
                            IF v = path THEN id ELSE matched[v]]
        /\ built_' = FALSE

\* Fault: one link is followed, and no more.
GotoOnce(links, node, c) ==
    LET start == IF Append(node, c) \in ac_nodes THEN node ELSE links[node]
    IN  IF Append(start, c) \in ac_nodes THEN Append(start, c) ELSE <<>>

\* From a node along the links until one has a transition for c; the root
\* without one stays where it is.
Goto(links, node, c) ==
    LET falls[v \in ac_nodes] ==
            IF v = <<>> \/ Append(v, c) \in ac_nodes THEN v ELSE falls[links[v]]
        start == falls[node]
    IN  IF Append(start, c) \in ac_nodes THEN Append(start, c) ELSE <<>>

\* The links in breadth-first order: a node's link is one transition from
\* where its parent's link leads.
FailLinks ==
    LET link[v \in ac_nodes] ==
            IF Len(v) <= 1 THEN <<>> ELSE Goto(link, link[Front(v)], Last(v))
    IN  link

\* A node whose link is a match becomes one, with the rule id of the link.
Inherited(links) ==
    LET is_match[v \in ac_nodes] ==
            v \in DOMAIN matched \/ (v # <<>> /\ is_match[links[v]])
        rule[v \in ac_nodes] ==
            IF v # <<>> /\ is_match[links[v]] THEN rule[links[v]] ELSE matched[v]
    IN  [v \in {w \in ac_nodes : is_match[w]} |-> rule[v]]

Build ==
    /\ fail_link' = FailLinks
    /\ matched' = Inherited(fail_link')
    /\ built_' = TRUE
    /\ UNCHANGED ac_nodes

\* Where search() stops on a match, as a set of at most one position.
MatchEnds(text) ==
    LET node[i \in 0..Len(text)] ==
            IF i = 0 THEN <<>> ELSE Goto(fail_link, node[i - 1], LowerChar[text[i]])
        ends == {i \in 1..Len(text) : node[i] \in DOMAIN matched}
    IN  {<<i, matched[node[i]]>> : i \in {j \in ends : \A k \in ends : j <= k}}

\* The end and the rule id of the match, if there is one.
Search(text) == IF built_ THEN MatchEnds(text) ELSE {}

=============================================================================
