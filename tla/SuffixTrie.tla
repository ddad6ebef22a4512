----------------------------- MODULE SuffixTrie -----------------------------
(***************************************************************************)
(* dataplane::engine::DomainSuffixTrie (suffix_trie.h/.cpp): block rules   *)
(* in a trie over the labels of a domain, last label first.  A node is the *)
(* path of labels that leads to it from the root; the terminal nodes are   *)
(* those that carry a rule id.                                             *)
(*                                                                         *)
(* A domain as written is the sequence of the labels between its dots;     *)
(* leading, trailing and doubled dots show as empty labels.                *)
(***************************************************************************)
EXTENDS Integers, FiniteSets, Sequences, SequencesExt

CONSTANTS
    Labels,      \* labels as written, in any case
    Lower,       \* Lower[l]: l in lower case (std::tolower on each char)
    EmptyLabel   \* nothing between two dots

ASSUME LabelAssumption ==
    /\ Lower \in [Labels -> Labels]
    /\ \A l \in Labels : Lower[Lower[l]] = Lower[l]
    /\ EmptyLabel \in Labels /\ Lower[EmptyLabel] = EmptyLabel

VARIABLES
    nodes,     \* the paths of all nodes; <<>> is the root
    rule_id,   \* rule id of each terminal node
    size       \* size_

trie_vars == <<nodes, rule_id, size>>

Terminal(path) == path \in DOMAIN rule_id

\* split_labels_reversed: "Sub.Example.com." gives com, example, sub.
SplitLabelsReversed(domain) ==
    LET kept == {i \in DOMAIN domain : domain[i] # EmptyLabel}
        from_last(k) ==
            CHOOSE i \in kept : Cardinality({j \in kept : j >= i}) = k
    IN  [k \in 1..Cardinality(kept) |-> Lower[domain[from_last(k)]]]

\* The nodes on the way from the root to path.
PathTo(path) == {SubSeq(path, 1, i) : i \in 0..Len(path)}

TrieInit ==
    /\ nodes = {<<>>}
    /\ rule_id = [path \in {} |-> 0]
    /\ size = 0

\* Fault: a repeated domain takes the last rule id.
InsertOverwriting(domain, id) ==
    LET path == SplitLabelsReversed(domain) IN
    IF path = <<>> THEN UNCHANGED trie_vars ELSE
    /\ nodes' = nodes \cup PathTo(path)
    /\ rule_id' = [p \in DOMAIN rule_id \cup {path} |->
                        IF p = path THEN id ELSE rule_id[p]]
    /\ size' = IF Terminal(path) THEN size ELSE size + 1

\* Fault: a repeated domain is counted again.
InsertCountingAgain(domain, id) ==
    LET path == SplitLabelsReversed(domain) IN
    IF path = <<>> THEN UNCHANGED trie_vars ELSE
    /\ nodes' = nodes \cup PathTo(path)
    /\ rule_id' = [p \in DOMAIN rule_id \cup {path} |->
                        IF Terminal(p) THEN rule_id[p] ELSE id]
    /\ size' = size + 1

\* Missing nodes are made on the way down.  A node that is terminal already
\* keeps its first rule id and is not counted again.
Insert(domain, id) ==
    LET path == SplitLabelsReversed(domain) IN
    IF path = <<>> THEN UNCHANGED trie_vars ELSE
    /\ nodes' = nodes \cup PathTo(path)
    /\ rule_id' = [p \in DOMAIN rule_id \cup {path} |->
                        IF Terminal(p) THEN rule_id[p] ELSE id]
    /\ size' = IF Terminal(path) THEN size ELSE size + 1

\* How far the walk of matches() gets along a path: up to the first terminal
\* node or the last node that exists.
Reached(path, i) ==
    /\ \A j \in 1..i : SubSeq(path, 1, j) \in nodes
    /\ \A j \in 1..(i - 1) : ~Terminal(SubSeq(path, 1, j))

\* The depth at which matches() stops on a terminal node, as a set of at
\* most one element.
Hits(path) ==
    {i \in 1..Len(path) : Reached(path, i) /\ Terminal(SubSeq(path, 1, i))}

Matches(domain) == Hits(SplitLabelsReversed(domain)) # {}

\* out_rule_id of a successful match.
MatchedRule(domain) ==
    LET path == SplitLabelsReversed(domain) IN
    rule_id[SubSeq(path, 1, CHOOSE i \in Hits(path) : TRUE)]

=============================================================================
