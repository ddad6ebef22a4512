--------------------------- MODULE PolicySnapshot ---------------------------
(***************************************************************************)
(* A policy candidate while IpcServer::handle_command fills it from the    *)
(* lists of an APPLY_POLICY request (ipc_server.cpp:119-140), and what     *)
(* PolicySnapshot::evaluate (atomic_snapshot.h) answers from it.           *)
(*                                                                         *)
(* The lists fill three separate containers, so any number of rules from   *)
(* each list, in any interleaving, is a candidate: evaluating in every     *)
(* state covers every policy within the two bounds.                        *)
(***************************************************************************)
EXTENDS SuffixTrie

CONSTANTS
    Rules,     \* domains an operator may write into a list
    QNames,    \* names a query can carry: lower case, no empty label
    MaxSuffixes,   \* bound: length of suffix_blocks
    MaxNames       \* bound: names in exact_blocks, and in allowlist

ASSUME RuleAssumption ==
    /\ Rules \subseteq Seq(Labels)
    /\ QNames \subseteq Seq({Lower[l] : l \in Labels} \ {EmptyLabel})
    /\ MaxSuffixes \in Nat /\ MaxNames \in Nat

VARIABLES
    exact_blocks, allowlist,   \* the two string sets
    suffixes                   \* history: the suffix_blocks list so far

vars == <<trie_vars, exact_blocks, allowlist, suffixes>>

\* The control plane passes each list on as the operator wrote it.
FromControlPlane(rule) == rule

Init ==
    /\ TrieInit
    /\ exact_blocks = {}
    /\ allowlist = {}
    /\ suffixes = <<>>

\* Fault: rule ids count from 0.
AddSuffixFromZero(rule) ==
    /\ Len(suffixes) < MaxSuffixes
    /\ Insert(FromControlPlane(rule), Len(suffixes))
    /\ suffixes' = Append(suffixes, rule)
    /\ UNCHANGED <<exact_blocks, allowlist>>

\* The i-th suffix gets rule id i (from 1).
AddSuffix(rule) ==
    /\ Len(suffixes) < MaxSuffixes
    /\ Insert(FromControlPlane(rule), Len(suffixes) + 1)
    /\ suffixes' = Append(suffixes, rule)
    /\ UNCHANGED <<exact_blocks, allowlist>>

AddExact(rule) ==
    /\ Cardinality(exact_blocks) < MaxNames
    /\ exact_blocks' = exact_blocks \cup {FromControlPlane(rule)}
    /\ UNCHANGED <<trie_vars, allowlist, suffixes>>

AddAllow(rule) ==
    /\ Cardinality(allowlist) < MaxNames
    /\ allowlist' = allowlist \cup {FromControlPlane(rule)}
    /\ UNCHANGED <<trie_vars, exact_blocks, suffixes>>

Next == \E rule \in Rules : AddSuffix(rule) \/ AddExact(rule) \/ AddAllow(rule)

Spec == Init /\ [][Next]_vars

\* Fault: an allow rule covers the subdomains of its name too.
EvaluateAllowingSubdomains(qname) ==
    IF \E rule \in allowlist : IsSuffix(rule, qname)
    THEN [action |-> "ALLOW", rule |-> 0]
    ELSE IF qname \in exact_blocks THEN [action |-> "BLOCK_NXDOMAIN", rule |-> 0]
    ELSE IF Matches(qname)
         THEN [action |-> "BLOCK_NXDOMAIN", rule |-> MatchedRule(qname)]
    ELSE [action |-> "ALLOW", rule |-> 0]

\* The sets are searched for the string itself, the trie for its labels.
Evaluate(qname) ==
    IF qname \in allowlist THEN [action |-> "ALLOW", rule |-> 0]
    ELSE IF qname \in exact_blocks THEN [action |-> "BLOCK_NXDOMAIN", rule |-> 0]
    ELSE IF Matches(qname)
         THEN [action |-> "BLOCK_NXDOMAIN", rule |-> MatchedRule(qname)]
    ELSE [action |-> "ALLOW", rule |-> 0]

Blocked(qname) == Evaluate(qname).action = "BLOCK_NXDOMAIN"

-----------------------------------------------------------------------------
Paths == {SplitLabelsReversed(rule) : rule \in Rules}

\* Types of all variables.
TypeOK ==
    /\ nodes \subseteq UNION {PathTo(p) : p \in Paths \cup {<<>>}}
    /\ DOMAIN rule_id \subseteq Paths
    /\ \A p \in DOMAIN rule_id : rule_id[p] \in 1..MaxSuffixes
    /\ size \in Nat
    /\ exact_blocks \subseteq Rules /\ allowlist \subseteq Rules
    /\ suffixes \in Seq(Rules)

Covers(rule, qname) ==
    LET path == SplitLabelsReversed(rule) IN
    path # <<>> /\ IsPrefix(path, SplitLabelsReversed(qname))

\* The reference definition of the trie: a name is matched exactly when some
\* listed suffix covers it, and the rule reported is the first listed among
\* the most general suffixes that do (suffix_trie.h, "exact match or a
\* subdomain of an inserted rule").
MatchesReference ==
    \A qname \in QNames :
        LET covering == {i \in 1..Len(suffixes) : Covers(suffixes[i], qname)}
            depth(i) == Len(SplitLabelsReversed(suffixes[i]))
        IN  /\ Matches(qname) <=> covering # {}
            /\ Matches(qname) =>
                LET i == MatchedRule(qname) IN
                /\ i \in covering
                /\ \A j \in covering :
                    \/ depth(j) > depth(i)
                    \/ depth(j) = depth(i) /\ j >= i

\* The trie has no dead branch and no gap: each node lies on the way to a
\* terminal node, and each terminal node is reachable from the root; size_
\* (the rule_count of GET_STATUS) counts the distinct suffixes.
TrieWellFormed ==
    /\ nodes = {<<>>} \cup UNION {PathTo(p) : p \in DOMAIN rule_id}
    /\ size = Cardinality({SplitLabelsReversed(suffixes[i]) :
                                i \in 1..Len(suffixes)} \ {<<>>})

\* One more rule changes no other name's fate: a block rule never unblocks,
\* an allow rule never blocks, and only names the rule covers are touched.
RulesActLocally ==
    [][\A qname \in QNames :
        /\ Blocked(qname) /\ ~Blocked(qname)' =>
                qname \in allowlist' \ allowlist
        /\ ~Blocked(qname) /\ Blocked(qname)' =>
                \/ qname \in exact_blocks' \ exact_blocks
                \/ Covers(Last(suffixes'), qname)]_vars

=============================================================================
