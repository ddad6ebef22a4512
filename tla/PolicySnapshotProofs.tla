------------------------ MODULE PolicySnapshotProofs ------------------------
(***************************************************************************)
(* A policy filled from any lists of any length decides every name as the  *)
(* reference definition says, and one more rule touches no other name.     *)
(*                                                                         *)
(* The walk of matches() stops at the first terminal node, so the proof    *)
(* rests on two facts: a terminal node is reachable (the nodes are exactly *)
(* the ways to the terminal ones), and a path is terminal exactly when     *)
(* some listed suffix has it, under the number of the first that does.     *)
(* That a name with a terminal prefix has a shortest one is the            *)
(* least-number principle, from the well-foundedness of < on Nat.          *)
(*                                                                         *)
(* The second half is about the automaton of the matcher benchmark: it     *)
(* finds every pattern wherever it stands in a name.  There the proof      *)
(* rests on what a string ends with: a link leads to the longest other     *)
(* node a node ends with, and the search stands at the longest node the    *)
(* text so far ends with.  The functions goto(), build() and search()      *)
(* compute by recursion are shown to exist by writing down a solution of   *)
(* their equations, and to have the values they should by induction over   *)
(* the length, again from the least-number principle.                      *)
(***************************************************************************)
EXTENDS MatcherComparison, FiniteSetTheorems, SequenceTheorems,
        WellFoundedInduction, TLAPS

Split(domain) == SplitLabelsReversed(domain)

\* The labels that occur in a path.
PathLabels == UNION {{Split(d)[i] : i \in DOMAIN Split(d)} : d \in Rules \cup QNames}

Pre(path, i) == SubSeq(path, 1, i)

\* The suffixes listed so far that have a path at all.
ListedPaths == {Split(suffixes[i]) : i \in 1..Len(suffixes)} \ {<<>>}

Covering(qname) == {i \in 1..Len(suffixes) : Covers(suffixes[i], qname)}

-----------------------------------------------------------------------------
(* The inductive invariant.                                                *)

Lists ==
    /\ exact_blocks \subseteq Rules /\ allowlist \subseteq Rules
    /\ suffixes \in Seq(Rules) /\ Len(suffixes) <= MaxSuffixes

\* The terminal nodes are the listed paths; each has the number of the first
\* suffix with that path (suffix_trie.cpp:56-60).
FirstListed ==
    /\ DOMAIN rule_id = ListedPaths /\ IsFiniteSet(ListedPaths)
    /\ \A p \in DOMAIN rule_id :
        /\ rule_id[p] \in 1..Len(suffixes)
        /\ Split(suffixes[rule_id[p]]) = p
        /\ \A j \in 1..Len(suffixes) : Split(suffixes[j]) = p => rule_id[p] <= j

\* The nodes on the ways to a set of paths.
NodesOf(S) == UNION {PathTo(p) : p \in S}

NoDeadBranch == nodes = NodesOf(DOMAIN rule_id) \cup {<<>>}

CountsTerminals == size = Cardinality(DOMAIN rule_id)

IInv == Lists /\ FirstListed /\ NoDeadBranch /\ CountsTerminals

-----------------------------------------------------------------------------
(* Numbers and paths.                                                      *)

\* A set of numbers that is not empty has a least one.
LEMMA LeastNumber ==
    ASSUME NEW T \in SUBSET Nat, T # {}
    PROVE  \E x \in T : \A y \in T : x <= y
<1> DEFINE R == OpToRel(<, Nat)
<1>1. IsWellFoundedOn(R, Nat)
    BY NatLessThanWellFounded
<1>2. \A x, y \in Nat : x < y => <<x, y>> \in R
    BY DEF OpToRel
<1> HIDE DEF R
<1>3. PICK x \in T : \A y \in T : ~(<<y, x>> \in R)
    BY <1>1, WFMin
<1>4. \A y \in T : ~(y < x)
    BY <1>2, <1>3
<1>5. \A y \in T : x <= y
    BY <1>4
<1> QED
    BY <1>5

\* split_labels_reversed returns a sequence, of labels of PathLabels.
LEMMA SplitIsSeq ==
    ASSUME NEW d \in Rules \cup QNames
    PROVE  Split(d) \in Seq(PathLabels)
<1>1. d \in Seq(Labels)
  <2>1. {Lower[l] : l \in Labels} \ {EmptyLabel} \subseteq Labels
    BY LabelAssumption
  <2> QED
    BY <2>1, RuleAssumption, SeqMonotonic
<1> DEFINE kept == {i \in DOMAIN d : d[i] # EmptyLabel}
           n == Cardinality(kept)
<1>2. n \in Nat
  <2>1. DOMAIN d = 1..Len(d) /\ Len(d) \in Nat
    BY <1>1, LenProperties
  <2>2. IsFiniteSet(DOMAIN d)
    BY <2>1, FS_Interval
  <2>3. IsFiniteSet(kept)
    BY <2>2, FS_Subset
  <2> QED
    BY <2>3, FS_CardinalityType
<1> DEFINE e(k) == Lower[d[CHOOSE i \in kept :
                                Cardinality({j \in kept : j >= i}) = k]]
<1>3. Split(d) = [k \in 1..n |-> e(k)]
    BY DEF Split, SplitLabelsReversed
<1> HIDE DEF n, e
<1>4. DOMAIN Split(d) = 1..n
    BY <1>3
<1>5. \A k \in 1..n : Split(d)[k] \in PathLabels
  <2> SUFFICES ASSUME NEW k \in 1..n PROVE Split(d)[k] \in PathLabels
    OBVIOUS
  <2> DEFINE L == {Split(d)[i] : i \in DOMAIN Split(d)}
  <2>1. Split(d)[k] \in L
    BY <1>4
  <2>2. L \in {{Split(c)[i] : i \in DOMAIN Split(c)} : c \in Rules \cup QNames}
    OBVIOUS
  <2> HIDE DEF L
  <2> QED
    BY <2>1, <2>2 DEF PathLabels
<1>6. Split(d) = [k \in 1..n |-> Split(d)[k]]
    BY <1>3
<1>7. Split(d) \in [1..n -> PathLabels]
    BY <1>5, <1>6
<1> QED
    BY <1>2, <1>7, SeqDef

\* The node after i steps of a path.
LEMMA PreFacts ==
    ASSUME NEW p \in Seq(PathLabels), NEW i \in 0..Len(p)
    PROVE  /\ Pre(p, i) \in Seq(PathLabels)
           /\ Len(Pre(p, i)) = i
           /\ \A k \in 1..i : Pre(p, i)[k] = p[k]
           /\ i = 0 <=> Pre(p, i) = <<>>
<1>1. Len(p) \in Nat /\ \A k \in 1..Len(p) : p[k] \in PathLabels
    BY LenProperties
<1>2. i \in Int /\ \A k \in 1..i : p[k] \in PathLabels
    BY <1>1
<1>3. /\ Pre(p, i) \in Seq(PathLabels)
      /\ Len(Pre(p, i)) = IF 1 <= i THEN i - 1 + 1 ELSE 0
      /\ \A k \in 1..(i - 1 + 1) : Pre(p, i)[k] = p[1 + k - 1]
    BY <1>2, SubSeqProperties DEF Pre
<1>4. Len(Pre(p, i)) = i
    BY <1>2, <1>3, <1>1
<1>5. \A k \in 1..i : Pre(p, i)[k] = p[k]
    BY <1>2, <1>3, <1>1
<1>6. i = 0 <=> Pre(p, i) = <<>>
    BY <1>3, <1>4, EmptySeq
<1> QED
    BY <1>3, <1>4, <1>5, <1>6

\* A prefix of a prefix.
LEMMA PreOfPre ==
    ASSUME NEW p \in Seq(PathLabels), NEW i \in 0..Len(p), NEW j \in 0..i
    PROVE  Pre(Pre(p, i), j) = Pre(p, j)
<1>1. Len(p) \in Nat
    BY LenProperties
<1>2. j \in 0..Len(p) /\ i \in Nat /\ j \in Nat
    BY <1>1
<1>3. /\ Pre(p, i) \in Seq(PathLabels) /\ Len(Pre(p, i)) = i
      /\ \A k \in 1..i : Pre(p, i)[k] = p[k]
    BY PreFacts
<1>4. /\ Pre(p, j) \in Seq(PathLabels) /\ Len(Pre(p, j)) = j
      /\ \A k \in 1..j : Pre(p, j)[k] = p[k]
    BY <1>2, PreFacts
<1>5. /\ Pre(Pre(p, i), j) \in Seq(PathLabels) /\ Len(Pre(Pre(p, i), j)) = j
      /\ \A k \in 1..j : Pre(Pre(p, i), j)[k] = Pre(p, i)[k]
    BY <1>3, PreFacts
<1>6. \A k \in 1..j : Pre(Pre(p, i), j)[k] = Pre(p, j)[k]
    BY <1>2, <1>3, <1>4, <1>5
<1> QED
    BY <1>4, <1>5, <1>6, SeqEqual

\* IsPrefix, for one path against another.
LEMMA PrefixIsPre ==
    ASSUME NEW p \in Seq(PathLabels), NEW q \in Seq(PathLabels)
    PROVE  IsPrefix(p, q) <=> Len(p) \in 0..Len(q) /\ Pre(q, Len(p)) = p
<1>1. Len(p) \in Nat /\ Len(q) \in Nat
    BY LenProperties
<1>2. SubSeq(p, 1, Len(p)) = p
    BY SubSeqFull
<1>3. Len(p) <= Len(q) <=> Len(p) \in 0..Len(q)
    BY <1>1
<1> QED
    BY <1>2, <1>3 DEF IsPrefix, Pre

\* A node of NodesOf(S) lies on the way to some path of S.
LEMMA NodesOfPaths ==
    \A S, x : x \in NodesOf(S) <=> \E p \in S : x \in PathTo(p)
<1> SUFFICES ASSUME NEW S, NEW x
             PROVE  x \in NodesOf(S) <=> \E p \in S : x \in PathTo(p)
    OBVIOUS
<1>1. \A p \in S : PathTo(p) \in {PathTo(r) : r \in S}
    OBVIOUS
<1>2. \A U \in {PathTo(r) : r \in S} : \E p \in S : U = PathTo(p)
    OBVIOUS
<1> QED
    BY <1>1, <1>2 DEF NodesOf

-----------------------------------------------------------------------------
(* What the trie answers in a state of the invariant.                      *)

\* A terminal node is a listed path.
LEMMA TerminalFacts ==
    ASSUME IInv, NEW p
    PROVE  /\ Terminal(p) <=> p # <<>> /\ \E i \in 1..Len(suffixes) : Split(suffixes[i]) = p
           /\ Terminal(p) => p \in Seq(PathLabels)
<1>1. \A i \in 1..Len(suffixes) : suffixes[i] \in Rules
    BY LenProperties DEF IInv, Lists
<1>2. \A i \in 1..Len(suffixes) : Split(suffixes[i]) \in Seq(PathLabels)
    BY <1>1, SplitIsSeq
<1> QED
    BY <1>2 DEF IInv, FirstListed, ListedPaths, Terminal

\* Every node on the way to a terminal node exists, so the walk stops at
\* the first terminal node of a path and nowhere else (suffix_trie.cpp:67-84).
LEMMA HitsAreFirstTerminals ==
    ASSUME IInv, NEW p \in Seq(PathLabels)
    PROVE  Hits(p) = {i \in 1..Len(p) : /\ Terminal(Pre(p, i))
                                        /\ \A j \in 1..(i - 1) : ~Terminal(Pre(p, j))}
<1>1. Len(p) \in Nat
    BY LenProperties
<1>2. ASSUME NEW i \in 1..Len(p), Terminal(Pre(p, i)), NEW j \in 1..i
      PROVE  Pre(p, j) \in nodes
  <2>1. i \in 0..Len(p) /\ j \in 0..i
    BY <1>1
  <2>2. Pre(Pre(p, i), j) = Pre(p, j) /\ Len(Pre(p, i)) = i
    BY <2>1, PreOfPre, PreFacts
  <2>3. Pre(p, j) \in PathTo(Pre(p, i))
    BY <2>1, <2>2 DEF PathTo, Pre
  <2> QED
    BY <1>2, <2>3, NodesOfPaths DEF IInv, NoDeadBranch, Terminal
<1> QED
    BY <1>2 DEF Hits, Reached, Pre

\* A suffix covers a name when its path is a proper node of the name's path.
LEMMA CoversIsPre ==
    ASSUME IInv, NEW qname \in QNames, NEW i \in 1..Len(suffixes)
    PROVE  Covers(suffixes[i], qname) <=>
             /\ Len(Split(suffixes[i])) \in 1..Len(Split(qname))
             /\ Pre(Split(qname), Len(Split(suffixes[i]))) = Split(suffixes[i])
<1> DEFINE p == Split(suffixes[i])
           q == Split(qname)
<1>1. suffixes[i] \in Rules
    BY LenProperties DEF IInv, Lists
<1>2. p \in Seq(PathLabels) /\ q \in Seq(PathLabels)
    BY <1>1, SplitIsSeq
<1>3. Len(p) \in Nat /\ Len(q) \in Nat /\ (p # <<>> <=> Len(p) # 0)
    BY <1>2, LenProperties, EmptySeq
<1>4. Covers(suffixes[i], qname) <=> p # <<>> /\ IsPrefix(p, q)
    BY DEF Covers, Split
<1> HIDE DEF p, q
<1>5. IsPrefix(p, q) <=> Len(p) \in 0..Len(q) /\ Pre(q, Len(p)) = p
    BY <1>2, PrefixIsPre
<1>6. p # <<>> /\ Len(p) \in 0..Len(q) <=> Len(p) \in 1..Len(q)
    BY <1>3
<1>7. Covers(suffixes[i], qname) <=> Len(p) \in 1..Len(q) /\ Pre(q, Len(p)) = p
    BY <1>4, <1>5, <1>6
<1> QED
    BY <1>7 DEF p, q

\* The trie matches a name exactly when a listed suffix covers it.
LEMMA MatchesIffCovered ==
    ASSUME IInv, NEW qname \in QNames
    PROVE  Matches(qname) <=> Covering(qname) # {}
<1> DEFINE q == Split(qname)
           T == {i \in 1..Len(q) : Terminal(Pre(q, i))}
<1>1. q \in Seq(PathLabels) /\ Len(q) \in Nat
    BY SplitIsSeq, LenProperties
<1>2. Matches(qname) <=> Hits(q) # {}
    BY DEF Matches, Split
<1>3. \A i \in 1..Len(q) : Pre(q, i) # <<>> /\ Len(Pre(q, i)) = i
    BY <1>1, PreFacts
<1> HIDE DEF q
<1>4. Hits(q) = {i \in 1..Len(q) : /\ Terminal(Pre(q, i))
                                   /\ \A j \in 1..(i - 1) : ~Terminal(Pre(q, j))}
    BY <1>1, HitsAreFirstTerminals
<1>5. Hits(q) # {} <=> T # {}
  <2>1. Hits(q) # {} => T # {}
    BY <1>4
  <2>2. ASSUME T # {} PROVE Hits(q) # {}
    <3>1. T \in SUBSET Nat
        BY <1>1
    <3>2. PICK i \in T : \A j \in T : i <= j
        BY <2>2, <3>1, LeastNumber
    <3>3. \A j \in 1..(i - 1) : j \in 1..Len(q) /\ ~(i <= j)
        BY <1>1, <3>1
    <3>4. \A j \in 1..(i - 1) : ~Terminal(Pre(q, j))
        BY <3>2, <3>3
    <3>5. i \in Hits(q)
        BY <1>4, <3>2, <3>4
    <3> QED
        BY <3>5
  <2> QED
    BY <2>1, <2>2
<1>6. T # {} => Covering(qname) # {}
  <2> SUFFICES ASSUME NEW i \in T PROVE Covering(qname) # {}
    OBVIOUS
  <2>1. PICK k \in 1..Len(suffixes) : Split(suffixes[k]) = Pre(q, i)
    BY TerminalFacts
  <2>2. Covers(suffixes[k], qname)
    BY <1>3, <2>1, CoversIsPre DEF q
  <2> QED
    BY <2>2 DEF Covering
<1>7. Covering(qname) # {} => T # {}
  <2> SUFFICES ASSUME NEW k \in Covering(qname) PROVE T # {}
    OBVIOUS
  <2>1. k \in 1..Len(suffixes) /\ Covers(suffixes[k], qname)
    BY DEF Covering
  <2> DEFINE i == Len(Split(suffixes[k]))
  <2>2. i \in 1..Len(q) /\ Pre(q, i) = Split(suffixes[k])
    BY <2>1, CoversIsPre DEF q
  <2>3. Terminal(Pre(q, i))
    BY <1>3, <2>1, <2>2, TerminalFacts
  <2> QED
    BY <2>2, <2>3
<1> QED
    BY <1>2, <1>5, <1>6, <1>7

\* The rule reported is the first listed of the most general that cover.
LEMMA MatchedRuleIsFirst ==
    ASSUME IInv, NEW qname \in QNames, Matches(qname)
    PROVE  /\ MatchedRule(qname) \in Covering(qname)
           /\ \A j \in Covering(qname) :
                \/ Len(Split(suffixes[j])) > Len(Split(suffixes[MatchedRule(qname)]))
                \/ /\ Len(Split(suffixes[j])) = Len(Split(suffixes[MatchedRule(qname)]))
                   /\ j >= MatchedRule(qname)
<1> DEFINE q == Split(qname)
           h == CHOOSE i \in Hits(q) : TRUE
           r == MatchedRule(qname)
<1>1. q \in Seq(PathLabels) /\ Len(q) \in Nat
    BY SplitIsSeq, LenProperties
<1>2. Hits(q) # {}
    BY DEF Matches, Split
<1>3. r = rule_id[Pre(q, h)]
    BY DEF MatchedRule, Split, Pre
<1>4. \A i \in 1..Len(q) : Len(Pre(q, i)) = i
    BY <1>1, PreFacts
<1> HIDE DEF q, r
<1>5. h \in Hits(q)
    BY <1>2
<1> HIDE DEF h
<1>6. /\ h \in 1..Len(q) /\ Terminal(Pre(q, h))
      /\ \A j \in 1..(h - 1) : ~Terminal(Pre(q, j))
    BY <1>1, <1>5, HitsAreFirstTerminals
<1>7. /\ r \in 1..Len(suffixes)
      /\ Split(suffixes[r]) = Pre(q, h)
      /\ \A j \in 1..Len(suffixes) : Split(suffixes[j]) = Pre(q, h) => r <= j
    BY <1>3, <1>6 DEF IInv, FirstListed, Terminal
<1>8. Len(Split(suffixes[r])) = h
    BY <1>4, <1>6, <1>7
<1>9. r \in Covering(qname)
    BY <1>6, <1>7, <1>8, CoversIsPre DEF Covering, q
<1>10. ASSUME NEW j \in Covering(qname)
       PROVE  \/ Len(Split(suffixes[j])) > h
              \/ Len(Split(suffixes[j])) = h /\ j >= r
  <2> DEFINE i == Len(Split(suffixes[j]))
  <2>1. j \in 1..Len(suffixes) /\ Covers(suffixes[j], qname)
    BY DEF Covering
  <2>2. i \in 1..Len(q) /\ Pre(q, i) = Split(suffixes[j])
    BY <2>1, CoversIsPre DEF q
  <2>3. suffixes[j] \in Rules
    BY <2>1, LenProperties DEF IInv, Lists
  <2>4. Pre(q, i) # <<>>
    BY <1>1, <2>2, PreFacts
  <2>5. Terminal(Pre(q, i))
    BY <2>1, <2>2, <2>4, TerminalFacts
  <2> HIDE DEF i
  <2>6. i >= h
    BY <1>1, <1>6, <2>2, <2>5
  <2>7. i = h => j >= r
    BY <1>7, <2>1, <2>2
  <2>8. i > h \/ (i = h /\ j >= r)
    BY <1>1, <1>6, <2>2, <2>6, <2>7
  <2> QED
    BY <2>8 DEF i
<1> QED
    BY <1>8, <1>9, <1>10 DEF r

-----------------------------------------------------------------------------
(* The invariant.                                                          *)

\* An empty candidate has the invariant.
LEMMA InitEstablishes == Init => IInv
<1> SUFFICES ASSUME Init PROVE IInv
    OBVIOUS
<1> USE DEF Init, TrieInit
<1>1. Lists
  <2>1. suffixes \in Seq(Rules) /\ Len(suffixes) = 0
    BY EmptySeq
  <2> QED
    BY <2>1, RuleAssumption DEF Lists
<1>2. ListedPaths = {} /\ DOMAIN rule_id = {}
  <2>1. 1..Len(suffixes) = {}
    BY EmptySeq
  <2> QED
    BY <2>1 DEF ListedPaths
<1>3. FirstListed /\ CountsTerminals
    BY <1>2, FS_EmptySet DEF FirstListed, CountsTerminals
<1>4. NoDeadBranch
  <2>1. NodesOf({}) = {}
    BY NodesOfPaths
  <2> QED
    BY <1>2, <2>1 DEF NoDeadBranch
<1> QED
    BY <1>1, <1>3, <1>4 DEF IInv

\* Insert of the next suffix (suffix_trie.cpp:39-61): a new path is given
\* this suffix's number; a repeated or an empty one changes nothing.
LEMMA AddSuffixKeeps ==
    ASSUME IInv, NEW rule \in Rules, AddSuffix(rule)
    PROVE  IInv'
<1> DEFINE n == Len(suffixes)
           path == Split(rule)
<1>1. /\ n \in Nat /\ n < MaxSuffixes /\ MaxSuffixes \in Nat
      /\ suffixes' = Append(suffixes, rule)
      /\ suffixes \in Seq(Rules)
      /\ UNCHANGED <<exact_blocks, allowlist>>
    BY LenProperties, RuleAssumption DEF IInv, Lists, AddSuffix
<1>2. /\ suffixes' \in Seq(Rules) /\ Len(suffixes') = n + 1
      /\ \A i \in 1..n : suffixes'[i] = suffixes[i]
      /\ suffixes'[n + 1] = rule
    BY <1>1, AppendProperties
<1>3. Insert(rule, n + 1)
    BY DEF AddSuffix, FromControlPlane
<1>4. Lists'
    BY <1>1, <1>2 DEF IInv, Lists
<1>5. ListedPaths' = ListedPaths \cup ({path} \ {<<>>})
  <2>1. 1..(n + 1) = 1..n \cup {n + 1}
    BY <1>1
  <2>2. {Split(suffixes'[i]) : i \in 1..(n + 1)} =
            {Split(suffixes[i]) : i \in 1..n} \cup {path}
    BY <1>2, <2>1
  <2>3. ListedPaths' = {Split(suffixes'[i]) : i \in 1..(n + 1)} \ {<<>>}
    BY <1>2 DEF ListedPaths, Split
  <2> QED
    BY <2>2, <2>3 DEF ListedPaths
<1>6. /\ DOMAIN rule_id = ListedPaths /\ IsFiniteSet(ListedPaths)
      /\ \A p \in DOMAIN rule_id :
          /\ rule_id[p] \in 1..n
          /\ Split(suffixes[rule_id[p]]) = p
          /\ \A j \in 1..n : Split(suffixes[j]) = p => rule_id[p] <= j
    BY DEF IInv, FirstListed
<1>7. IsFiniteSet(ListedPaths')
  <2>1. ListedPaths' = ListedPaths \/ ListedPaths' = ListedPaths \cup {path}
    BY <1>5
  <2> QED
    BY <1>6, <2>1, FS_AddElement
<1>8. CASE path = <<>>
  <2>1. UNCHANGED trie_vars
    BY <1>3, <1>8 DEF Insert, Split
  <2>2. ListedPaths' = ListedPaths
    BY <1>5, <1>8
  <2>3. \A p \in DOMAIN rule_id : p # <<>>
    BY <1>6 DEF ListedPaths
  <2>4. FirstListed'
    <3>1. ASSUME NEW p \in DOMAIN rule_id
          PROVE  /\ rule_id[p] \in 1..(n + 1)
                 /\ Split(suffixes'[rule_id[p]]) = p
                 /\ \A j \in 1..(n + 1) : Split(suffixes'[j]) = p => rule_id[p] <= j
        <4>1. rule_id[p] \in 1..n /\ p # path
            BY <1>6, <1>8, <2>3
        <4>2. \A j \in 1..(n + 1) : j \in 1..n \/ j = n + 1
            BY <1>1
        <4> QED
            BY <1>1, <1>2, <1>6, <4>1, <4>2
    <3> QED
        BY <1>2, <1>6, <1>7, <2>1, <2>2, <3>1 DEF FirstListed, trie_vars, Split
  <2>5. NoDeadBranch' /\ CountsTerminals'
    BY <2>1 DEF IInv, NoDeadBranch, CountsTerminals, trie_vars
  <2> QED
    BY <1>4, <2>4, <2>5 DEF IInv
<1>9. CASE path # <<>>
  <2>1. /\ nodes' = nodes \cup PathTo(path)
        /\ rule_id' = [p \in DOMAIN rule_id \cup {path} |->
                            IF p \in DOMAIN rule_id THEN rule_id[p] ELSE n + 1]
        /\ size' = IF path \in DOMAIN rule_id THEN size ELSE size + 1
    BY <1>3, <1>9 DEF Insert, Terminal, Split
  <2>2. DOMAIN rule_id' = DOMAIN rule_id \cup {path}
    BY <2>1
  <2>3. DOMAIN rule_id' = ListedPaths'
    BY <1>5, <1>6, <1>9, <2>2
  <2>4. ASSUME NEW p \in DOMAIN rule_id'
        PROVE  /\ rule_id'[p] \in 1..(n + 1)
               /\ Split(suffixes'[rule_id'[p]]) = p
               /\ \A j \in 1..(n + 1) : Split(suffixes'[j]) = p => rule_id'[p] <= j
    <3>1. CASE p \in DOMAIN rule_id
        <4>1. rule_id'[p] = rule_id[p] /\ rule_id[p] \in 1..n
            BY <1>6, <2>1, <3>1
        <4>2. \A j \in 1..(n + 1) : j \in 1..n \/ j = n + 1
            BY <1>1
        <4> QED
            BY <1>1, <1>2, <1>6, <3>1, <4>1, <4>2
    <3>2. CASE p \notin DOMAIN rule_id
        <4>1. p = path /\ rule_id'[p] = n + 1
            BY <2>1, <3>2
        <4>2. \A j \in 1..n : Split(suffixes[j]) # p
            BY <1>6, <1>9, <3>2, <4>1 DEF ListedPaths
        <4>3. \A j \in 1..(n + 1) : j \in 1..n \/ j = n + 1
            BY <1>1
        <4> QED
            BY <1>1, <1>2, <4>1, <4>2, <4>3
    <3> QED
        BY <3>1, <3>2
  <2>5. FirstListed'
    BY <1>2, <1>7, <2>3, <2>4 DEF FirstListed, Split
  <2>6. NoDeadBranch'
    <3>1. nodes = NodesOf(DOMAIN rule_id) \cup {<<>>}
        BY DEF IInv, NoDeadBranch
    <3>2. NodesOf(DOMAIN rule_id \cup {path}) = NodesOf(DOMAIN rule_id) \cup PathTo(path)
        BY NodesOfPaths
    <3>3. nodes' = NodesOf(DOMAIN rule_id') \cup {<<>>}
        BY <2>1, <2>2, <3>1, <3>2
    <3> QED
        BY <3>3 DEF NoDeadBranch
  <2>7. CountsTerminals'
    <3>1. Cardinality(DOMAIN rule_id \cup {path}) =
            IF path \in DOMAIN rule_id THEN Cardinality(DOMAIN rule_id)
                                       ELSE Cardinality(DOMAIN rule_id) + 1
        BY <1>6, FS_AddElement
    <3> QED
        BY <2>1, <2>2, <3>1 DEF IInv, CountsTerminals
  <2> QED
    BY <1>4, <2>5, <2>6, <2>7 DEF IInv
<1> QED
    BY <1>8, <1>9

\* Every rule that is added preserves it.
LEMMA NextKeeps == IInv /\ [Next]_vars => IInv'
<1> SUFFICES ASSUME IInv, [Next]_vars PROVE IInv'
    OBVIOUS
<1>1. ASSUME NEW rule \in Rules, AddSuffix(rule) PROVE IInv'
    BY <1>1, AddSuffixKeeps
<1>2. ASSUME UNCHANGED <<trie_vars, suffixes>>,
             exact_blocks' \subseteq Rules, allowlist' \subseteq Rules
      PROVE  IInv'
    BY <1>2 DEF IInv, Lists, FirstListed, ListedPaths, NoDeadBranch,
                CountsTerminals, trie_vars, Split
<1>3. ASSUME NEW rule \in Rules, AddExact(rule) PROVE IInv'
    BY <1>2, <1>3 DEF AddExact, FromControlPlane, IInv, Lists
<1>4. ASSUME NEW rule \in Rules, AddAllow(rule) PROVE IInv'
    BY <1>2, <1>4 DEF AddAllow, FromControlPlane, IInv, Lists
<1>5. CASE UNCHANGED vars
    BY <1>2, <1>5 DEF vars, IInv, Lists
<1> QED
    BY <1>1, <1>3, <1>4, <1>5 DEF Next

\* IInv holds in every state of the specification.
THEOREM InvariantHolds == Spec => []IInv
BY InitEstablishes, NextKeeps, PTL DEF Spec

\* Every variable keeps its type: nodes are on the way to a rule's path, ids
\* are numbers of listed suffixes (suffix_trie.cpp, atomic_snapshot.h).
THEOREM TypeCorrect == Spec => []TypeOK
<1>1. IInv => TypeOK
  <2> SUFFICES ASSUME IInv PROVE TypeOK
    OBVIOUS
  <2>1. DOMAIN rule_id \subseteq Paths
    <3>1. \A i \in 1..Len(suffixes) : suffixes[i] \in Rules
        BY LenProperties DEF IInv, Lists
    <3> QED
        BY <3>1 DEF IInv, FirstListed, ListedPaths, Paths, Split
  <2>2. <<>> \in PathTo(<<>>)
    <3>1. SubSeq(<<>>, 1, 0) = <<>> /\ Len(<<>>) = 0
        BY SubSeqEmpty, EmptySeq
    <3> QED
        BY <3>1 DEF PathTo
  <2>3. nodes \subseteq UNION {PathTo(p) : p \in Paths \cup {<<>>}}
    <3>1. nodes \subseteq NodesOf(Paths \cup {<<>>})
        BY <2>1, <2>2, NodesOfPaths DEF IInv, NoDeadBranch
    <3> QED
        BY <3>1 DEF NodesOf
  <2>4. \A p \in DOMAIN rule_id : rule_id[p] \in 1..MaxSuffixes
    BY LenProperties, RuleAssumption DEF IInv, Lists, FirstListed
  <2>5. size \in Nat
    BY FS_CardinalityType DEF IInv, FirstListed, CountsTerminals
  <2> QED
    BY <2>1, <2>3, <2>4, <2>5 DEF IInv, Lists, TypeOK
<1> QED
    BY <1>1, InvariantHolds, PTL

\* The trie has no dead branch and no gap, and the rule count of GET_STATUS
\* is the number of distinct suffixes (suffix_trie.cpp:39-61).
THEOREM TrieStaysWellFormed == Spec => []TrieWellFormed
<1>1. IInv => TrieWellFormed
  <2>1. IInv => nodes = {<<>>} \cup UNION {PathTo(p) : p \in DOMAIN rule_id}
    BY DEF IInv, NoDeadBranch, NodesOf
  <2>2. IInv => size = Cardinality({SplitLabelsReversed(suffixes[i]) :
                                        i \in 1..Len(suffixes)} \ {<<>>})
    BY DEF IInv, FirstListed, ListedPaths, CountsTerminals, Split
  <2> QED
    BY <2>1, <2>2 DEF TrieWellFormed
<1> QED
    BY <1>1, InvariantHolds, PTL

\* The trie answers as the list of suffixes does: a name is matched exactly
\* when a suffix covers it, by the first of the most general ones
\* (suffix_trie.cpp:63-85).
THEOREM TrieMeetsReference == Spec => []MatchesReference
<1>1. IInv => MatchesReference
    BY MatchesIffCovered, MatchedRuleIsFirst DEF MatchesReference, Covering, Split
<1> QED
    BY <1>1, InvariantHolds, PTL

-----------------------------------------------------------------------------
(* One more rule.                                                          *)

\* evaluate() blocks a name that no allow rule has and that an exact rule
\* has or a suffix covers (atomic_snapshot.h).
LEMMA BlockedWhen ==
    ASSUME IInv, NEW qname \in QNames
    PROVE  Blocked(qname) <=> /\ qname \notin allowlist
                              /\ qname \in exact_blocks \/ Covering(qname) # {}
BY MatchesIffCovered DEF Blocked, Evaluate

\* One more rule changes no other name's fate (ipc_server.cpp:119-140).
THEOREM OneRuleActsLocally == Spec => RulesActLocally
<1> DEFINE Local(qname) ==
        /\ Blocked(qname) /\ ~Blocked(qname)' => qname \in allowlist' \ allowlist
        /\ ~Blocked(qname) /\ Blocked(qname)' =>
                \/ qname \in exact_blocks' \ exact_blocks
                \/ Covers(Last(suffixes'), qname)
<1>1. ASSUME IInv, IInv', [Next]_vars, NEW qname \in QNames
      PROVE  Local(qname)
  <2>1. Blocked(qname) <=> /\ qname \notin allowlist
                           /\ qname \in exact_blocks \/ Covering(qname) # {}
    BY <1>1, BlockedWhen
  <2>2. Blocked(qname)' <=> /\ qname \notin allowlist'
                            /\ qname \in exact_blocks' \/ Covering(qname)' # {}
    <3>1. (IInv => (Blocked(qname) <=>
                /\ qname \notin allowlist
                /\ qname \in exact_blocks \/ Covering(qname) # {}))'
        BY BlockedWhen, PTL
    <3> QED
        BY <1>1, <3>1
  <2>3. CASE UNCHANGED <<suffixes>> /\ allowlist \subseteq allowlist'
             /\ exact_blocks \subseteq exact_blocks'
    <3>1. Covering(qname)' = Covering(qname)
        BY <2>3 DEF Covering, Covers
    <3> QED
        BY <2>1, <2>2, <2>3, <3>1
  <2>4. ASSUME NEW rule \in Rules, AddSuffix(rule) PROVE Local(qname)
    <3>1. /\ suffixes \in Seq(Rules) /\ Len(suffixes) \in Nat
          /\ suffixes' = Append(suffixes, rule)
          /\ UNCHANGED <<exact_blocks, allowlist>>
        BY <1>1, <2>4, LenProperties DEF IInv, Lists, AddSuffix
    <3>2. /\ Len(suffixes') = Len(suffixes) + 1
          /\ \A i \in 1..Len(suffixes) : suffixes'[i] = suffixes[i]
          /\ suffixes'[Len(suffixes')] = rule
        BY <3>1, AppendProperties
    <3>3. Last(suffixes') = rule
        BY <3>2 DEF Last
    <3>4. Covering(qname)' =
            {i \in 1..(Len(suffixes) + 1) : Covers(suffixes'[i], qname)}
        BY <3>2 DEF Covering, Covers
    <3>5. Covering(qname) \subseteq Covering(qname)'
        BY <3>1, <3>2, <3>4 DEF Covering
    <3>6. \A i \in Covering(qname)' : i \in Covering(qname) \/ Covers(rule, qname)
        <4>1. \A i \in 1..(Len(suffixes) + 1) :
                i \in 1..Len(suffixes) \/ i = Len(suffixes')
            BY <3>1, <3>2
        <4> QED
            BY <3>2, <3>4, <4>1 DEF Covering
    <3> QED
        BY <2>1, <2>2, <3>1, <3>3, <3>5, <3>6
  <2> QED
    BY <1>1, <2>3, <2>4 DEF Next, AddExact, AddAllow, vars
<1>2. IInv /\ IInv' /\ [Next]_vars => \A qname \in QNames : Local(qname)
    BY <1>1
<1> QED
    BY <1>2, InvariantHolds, PTL DEF Spec, RulesActLocally

-----------------------------------------------------------------------------
(* The automaton: strings and what they end with.                          *)

Strings == Seq(Chars)

Ends(w, v) ==
    /\ Len(w) <= Len(v)
    /\ \A i \in 1..Len(w) : w[i] = v[Len(v) - Len(w) + i]

\* Induction over the natural numbers, from the least-number principle.
LEMMA NatSet ==
    ASSUME NEW S \in SUBSET Nat, 0 \in S, \A n \in S : n + 1 \in S
    PROVE  S = Nat
<1> SUFFICES ASSUME S # Nat PROVE FALSE
    OBVIOUS
<1>1. PICK x \in Nat \ S : \A y \in Nat \ S : x <= y
    BY LeastNumber
<1>2. x # 0 /\ x - 1 \in Nat
    BY <1>1
<1>3. x - 1 \in S
    BY <1>1, <1>2
<1> QED
    BY <1>1, <1>2, <1>3

\* Each string ends with itself and with nothing.
LEMMA EndsTrivially ==
    ASSUME NEW v \in Strings
    PROVE  Ends(v, v) /\ Ends(<<>>, v) /\ <<>> \in Strings
<1>1. Len(v) \in Nat /\ <<>> \in Strings /\ Len(<<>>) = 0
    BY LenProperties, EmptySeq DEF Strings
<1>2. \A i \in 1..Len(v) : v[i] = v[Len(v) - Len(v) + i]
    BY <1>1
<1> QED
    BY <1>1, <1>2 DEF Ends

\* An end of an end is an end.
LEMMA EndsOfEnds ==
    ASSUME NEW u \in Strings, NEW w \in Strings, NEW v \in Strings, Ends(u, w), Ends(w, v)
    PROVE  Ends(u, v)
<1>1. Len(u) \in Nat /\ Len(v) \in Nat /\ Len(w) \in Nat
    BY LenProperties DEF Strings
<1>2. ASSUME NEW i \in 1..Len(u) PROVE u[i] = v[Len(v) - Len(u) + i]
  <2>1. PICK k \in 1..Len(w) : k = Len(w) - Len(u) + i
    BY <1>1 DEF Ends
  <2>2. u[i] = w[k] /\ w[k] = v[Len(v) - Len(w) + k]
    BY <2>1 DEF Ends
  <2>3. Len(v) - Len(w) + k = Len(v) - Len(u) + i
    BY <1>1, <2>1
  <2> QED
    BY <2>2, <2>3
<1> QED
    BY <1>1, <1>2 DEF Ends

\* A proper end is shorter.
LEMMA ProperEnds ==
    ASSUME NEW u \in Strings, NEW v \in Strings, Ends(u, v)
    PROVE  /\ Len(u) \in Nat /\ Len(v) \in Nat /\ Len(u) <= Len(v)
           /\ u # v => Len(u) < Len(v)
           /\ Ends(v, u) => u = v
<1>1. Len(u) \in Nat /\ Len(v) \in Nat /\ Len(u) <= Len(v)
    BY LenProperties DEF Strings, Ends
<1>2. CASE Len(u) < Len(v)
    BY <1>1, <1>2 DEF Ends
<1>3. CASE Len(u) = Len(v)
  <2>1. \A i \in 1..Len(u) : u[i] = v[i]
    BY <1>1, <1>3 DEF Ends
  <2>2. u = v
    BY <1>3, <2>1, SeqEqual DEF Strings
  <2> QED
    BY <1>1, <2>2
<1> QED
    BY <1>1, <1>2, <1>3

\* Of two ends of a string, the longer one ends with the shorter.
LEMMA EndsChain ==
    ASSUME NEW u \in Strings, NEW w \in Strings, NEW v \in Strings,
           Ends(u, v), Ends(w, v), Len(u) <= Len(w)
    PROVE  Ends(u, w)
<1>1. Len(u) \in Nat /\ Len(v) \in Nat /\ Len(w) \in Nat /\ Len(w) <= Len(v)
    BY LenProperties DEF Strings, Ends
<1>2. ASSUME NEW i \in 1..Len(u) PROVE u[i] = w[Len(w) - Len(u) + i]
  <2>1. PICK k \in 1..Len(w) : k = Len(w) - Len(u) + i
    BY <1>1
  <2>2. u[i] = v[Len(v) - Len(u) + i] /\ w[k] = v[Len(v) - Len(w) + k]
    BY DEF Ends
  <2>3. Len(v) - Len(w) + k = Len(v) - Len(u) + i
    BY <1>1, <2>1
  <2> QED
    BY <2>1, <2>2, <2>3
<1> QED
    BY <1>2 DEF Ends

\* Append on strings.
LEMMA StringAppend ==
    ASSUME NEW v \in Strings, NEW c \in Chars
    PROVE  /\ Append(v, c) \in Strings /\ Append(v, c) # <<>>
           /\ Len(v) \in Nat /\ Len(Append(v, c)) = Len(v) + 1
           /\ \A i \in 1..Len(v) : Append(v, c)[i] = v[i]
           /\ Append(v, c)[Len(v) + 1] = c
           /\ Front(Append(v, c)) = v /\ Last(Append(v, c)) = c
<1>1. Len(v) \in Nat
    BY LenProperties DEF Strings
<1>2. /\ Append(v, c) \in Seq(Chars) /\ Append(v, c) # <<>>
      /\ Len(Append(v, c)) = Len(v) + 1
      /\ \A i \in 1..Len(v) : Append(v, c)[i] = v[i]
      /\ Append(v, c)[Len(v) + 1] = c
    BY <1>1, AppendProperties, EmptySeq DEF Strings
<1>3. SubSeq(Append(v, c), 1, Len(v)) = v
  <2>1. PICK n \in Nat : n = Len(v)
    BY <1>1
  <2>2. PICK a \in Seq(Chars) : a = Append(v, c)
    BY <1>2
  <2>3. \A i \in 1..n : a[i] \in Chars
    BY <1>2, <2>1, <2>2, LenProperties
  <2>4. n \in Int /\ 1 \in Int
    OBVIOUS
  <2> DEFINE s == SubSeq(a, 1, n)
  <2>5. /\ s \in Seq(Chars) /\ Len(s) = IF 1 <= n THEN n - 1 + 1 ELSE 0
        /\ \A i \in 1..(n - 1 + 1) : s[i] = a[1 + i - 1]
    BY <2>3, <2>4, SubSeqProperties
  <2> HIDE DEF s
  <2>6. Len(s) = Len(v) /\ \A i \in 1..Len(s) : s[i] = v[i]
    BY <1>2, <2>1, <2>2, <2>5
  <2>7. s = v
    BY <2>5, <2>6, SeqEqual DEF Strings
  <2> QED
    BY <2>1, <2>2, <2>7 DEF s
<1> QED
    BY <1>1, <1>2, <1>3 DEF Strings, Front, Last

\* A string that is not empty is its front and its last character.
LEMMA FrontAndLast ==
    ASSUME NEW v \in Strings, v # <<>>
    PROVE  /\ Front(v) \in Strings /\ Last(v) \in Chars
           /\ v = Append(Front(v), Last(v)) /\ Len(Front(v)) = Len(v) - 1
           /\ Len(v) \in Nat \ {0}
<1>1. PICK n \in Nat : n = Len(v) - 1 /\ Len(v) = n + 1
    BY EmptySeq DEF Strings
<1>2. \A i \in 1..Len(v) : v[i] \in Chars
    BY LenProperties DEF Strings
<1> DEFINE f == SubSeq(v, 1, n)
<1>3. \A i \in 1..n : v[i] \in Chars
    BY <1>1, <1>2
<1>4. n \in Int /\ 1 \in Int
    OBVIOUS
<1>5. /\ f \in Seq(Chars) /\ Len(f) = IF 1 <= n THEN n - 1 + 1 ELSE 0
      /\ \A i \in 1..(n - 1 + 1) : f[i] = v[1 + i - 1]
    BY <1>3, <1>4, SubSeqProperties
<1>6. v[n + 1] \in Chars
    BY <1>1, <1>2
<1>7. f = Front(v) /\ v[n + 1] = Last(v)
    BY <1>1 DEF Front, Last
<1> HIDE DEF f
<1>8. f \in Strings /\ Len(f) = n /\ \A i \in 1..n : f[i] = v[i]
    BY <1>5 DEF Strings
<1>9. PICK c \in Chars : c = v[n + 1]
    BY <1>6
<1>10. /\ Append(f, c) \in Strings /\ Len(Append(f, c)) = n + 1
       /\ \A i \in 1..n : Append(f, c)[i] = f[i]
       /\ Append(f, c)[n + 1] = c
    BY <1>8, StringAppend
<1>11. \A i \in 1..Len(v) : Append(f, c)[i] = v[i]
    BY <1>1, <1>8, <1>9, <1>10
<1>12. Append(f, c) = v
    BY <1>1, <1>10, <1>11, SeqEqual DEF Strings
<1> QED
    BY <1>1, <1>7, <1>8, <1>9, <1>12

\* What a string that is one character longer ends with.
LEMMA EndsOfAppend ==
    ASSUME NEW v \in Strings, NEW c \in Chars
    PROVE  /\ \A w \in Strings : Ends(w, v) => Ends(Append(w, c), Append(v, c))
           /\ \A u \in Strings : Ends(u, Append(v, c)) =>
                u = <<>> \/ \E w \in Strings : u = Append(w, c) /\ Ends(w, v)
<1>1. /\ Append(v, c) \in Strings /\ Len(v) \in Nat /\ Len(Append(v, c)) = Len(v) + 1
      /\ \A i \in 1..Len(v) : Append(v, c)[i] = v[i]
      /\ Append(v, c)[Len(v) + 1] = c
    BY StringAppend
<1>2. ASSUME NEW w \in Strings
      PROVE  /\ Len(w) \in Nat /\ Len(Append(w, c)) = Len(w) + 1
             /\ \A i \in 1..Len(w) : Append(w, c)[i] = w[i]
             /\ Append(w, c)[Len(w) + 1] = c
    BY StringAppend
<1>3. ASSUME NEW w \in Strings, Ends(w, v)
      PROVE  Ends(Append(w, c), Append(v, c))
  <2>1. Len(w) \in Nat /\ Len(w) <= Len(v)
    BY <1>2, <1>3 DEF Ends
  <2>2. ASSUME NEW i \in 1..(Len(w) + 1)
        PROVE  Append(w, c)[i] = Append(v, c)[(Len(v) + 1) - (Len(w) + 1) + i]
    <3>1. CASE i = Len(w) + 1
      <4>1. (Len(v) + 1) - (Len(w) + 1) + i = Len(v) + 1
        BY <1>1, <2>1, <3>1
      <4> QED
        BY <1>1, <1>2, <3>1, <4>1
    <3>2. CASE i # Len(w) + 1
      <4>1. i \in 1..Len(w)
        BY <2>1, <3>2
      <4>2. PICK k \in 1..Len(v) : k = Len(v) - Len(w) + i
        BY <1>1, <2>1, <4>1
      <4>3. (Len(v) + 1) - (Len(w) + 1) + i = k
        BY <1>1, <2>1, <4>2
      <4>4. w[i] = v[k]
        BY <1>3, <4>1, <4>2 DEF Ends
      <4> QED
        BY <1>1, <1>2, <4>1, <4>3, <4>4
    <3> QED
      BY <3>1, <3>2
  <2> QED
    BY <1>1, <1>2, <2>1, <2>2 DEF Ends
<1>4. ASSUME NEW u \in Strings, Ends(u, Append(v, c)), u # <<>>
      PROVE  \E w \in Strings : u = Append(w, c) /\ Ends(w, v)
  <2>1. PICK w \in Strings, d \in Chars : u = Append(w, d)
    BY <1>4, FrontAndLast
  <2>2. /\ Len(w) \in Nat /\ Len(u) = Len(w) + 1
        /\ \A i \in 1..Len(w) : u[i] = w[i]
        /\ u[Len(w) + 1] = d
    BY <2>1, StringAppend
  <2>3. Len(w) <= Len(v)
    BY <1>1, <1>4, <2>2 DEF Ends
  <2>4. \A i \in 1..(Len(w) + 1) : u[i] = Append(v, c)[(Len(v) + 1) - (Len(w) + 1) + i]
    BY <1>1, <1>4, <2>2 DEF Ends
  <2>5. d = c
    <3>1. (Len(v) + 1) - (Len(w) + 1) + (Len(w) + 1) = Len(v) + 1
      BY <1>1, <2>2
    <3>2. Len(w) + 1 \in 1..(Len(w) + 1)
      BY <2>2
    <3> QED
      BY <1>1, <2>2, <2>4, <3>1, <3>2
  <2>6. ASSUME NEW i \in 1..Len(w) PROVE w[i] = v[Len(v) - Len(w) + i]
    <3>1. PICK k \in Int : k = Len(v) - Len(w) + i
      BY <1>1, <2>2
    <3>2. k \in 1..Len(v)
      BY <1>1, <2>2, <2>3, <3>1
    <3>3. (Len(v) + 1) - (Len(w) + 1) + i = k /\ i \in 1..(Len(w) + 1)
      BY <1>1, <2>2, <3>1
    <3> QED
      BY <1>1, <2>2, <2>4, <3>1, <3>2, <3>3
  <2> QED
    BY <2>1, <2>3, <2>5, <2>6 DEF Ends
<1> QED
    BY <1>3, <1>4

\* The first i characters of a string.
LEMMA StringPre ==
    ASSUME NEW t \in Strings, NEW i \in 0..Len(t)
    PROVE  /\ Pre(t, i) \in Strings /\ Len(Pre(t, i)) = i
           /\ \A k \in 1..i : Pre(t, i)[k] = t[k]
           /\ i = 0 => Pre(t, i) = <<>>
           /\ i > 0 => t[i] \in Chars /\ Pre(t, i) = Append(Pre(t, i - 1), t[i])
<1> DEFINE P(j) == /\ Pre(t, j) \in Strings /\ Len(Pre(t, j)) = j
                   /\ \A k \in 1..j : Pre(t, j)[k] = t[k]
<1>1. Len(t) \in Nat /\ \A k \in 1..Len(t) : t[k] \in Chars
    BY LenProperties DEF Strings
<1>2. ASSUME NEW j \in 0..Len(t) PROVE P(j)
  <2>1. j \in Int /\ \A k \in 1..j : t[k] \in Chars
    BY <1>1
  <2>2. /\ SubSeq(t, 1, j) \in Seq(Chars)
        /\ Len(SubSeq(t, 1, j)) = IF 1 <= j THEN j - 1 + 1 ELSE 0
        /\ \A k \in 1..(j - 1 + 1) : SubSeq(t, 1, j)[k] = t[1 + k - 1]
    BY <2>1, SubSeqProperties
  <2> QED
    BY <1>1, <2>2 DEF Pre, Strings
<1>3. i = 0 => Pre(t, i) = <<>>
    BY <1>2, EmptySeq DEF Strings
<1>4. ASSUME i > 0 PROVE t[i] \in Chars /\ Pre(t, i) = Append(Pre(t, i - 1), t[i])
  <2>1. PICK h \in 0..Len(t) : h = i - 1 /\ i = h + 1
    BY <1>1, <1>4
  <2>2. t[i] \in Chars
    BY <1>1, <1>4
  <2>3. P(h) /\ P(i)
    BY <1>2
  <2>4. /\ Append(Pre(t, h), t[i]) \in Strings /\ Len(Append(Pre(t, h), t[i])) = h + 1
        /\ \A k \in 1..h : Append(Pre(t, h), t[i])[k] = Pre(t, h)[k]
        /\ Append(Pre(t, h), t[i])[h + 1] = t[i]
    BY <2>2, <2>3, StringAppend
  <2>5. \A k \in 1..i : Append(Pre(t, h), t[i])[k] = Pre(t, i)[k]
    BY <1>1, <2>1, <2>3, <2>4
  <2>6. Append(Pre(t, h), t[i]) = Pre(t, i)
    BY <2>1, <2>3, <2>4, <2>5, SeqEqual DEF Strings
  <2> QED
    BY <2>1, <2>2, <2>6
<1> QED
    BY <1>2, <1>3, <1>4

\* The comparison of search(): the characters up to the i-th end with p.
LEMMA EndsAsSubSeq ==
    ASSUME NEW t \in Strings, NEW i \in 1..Len(t), NEW p \in Strings
    PROVE  Len(p) \in 1..i /\ SubSeq(t, i - Len(p) + 1, i) = p
                <=> p # <<>> /\ Ends(p, Pre(t, i))
<1>1. Len(p) \in Nat /\ Len(t) \in Nat /\ i \in Nat /\ i \in 0..Len(t)
    BY LenProperties DEF Strings
<1>2. p # <<>> <=> Len(p) > 0
    BY <1>1, EmptySeq DEF Strings
<1>3. /\ Pre(t, i) \in Strings /\ Len(Pre(t, i)) = i
      /\ \A k \in 1..i : Pre(t, i)[k] = t[k]
    BY <1>1, StringPre
<1>4. Len(p) > i => ~Ends(p, Pre(t, i))
    BY <1>1, <1>3 DEF Ends
<1>5. ASSUME Len(p) \in 1..i
      PROVE  SubSeq(t, i - Len(p) + 1, i) = p <=> Ends(p, Pre(t, i))
  <2>1. PICK m \in Int : m = i - Len(p) + 1
    BY <1>1
  <2>2. \A k \in m..i : t[k] \in Chars
    <3>1. \A k \in m..i : k \in 1..Len(t)
      BY <1>1, <1>5, <2>1
    <3> QED
      BY <3>1, LenProperties DEF Strings
  <2> DEFINE s == SubSeq(t, m, i)
  <2>3. /\ s \in Seq(Chars) /\ Len(s) = IF m <= i THEN i - m + 1 ELSE 0
        /\ \A k \in 1..(i - m + 1) : s[k] = t[m + k - 1]
    BY <1>1, <2>2, SubSeqProperties
  <2> HIDE DEF s
  <2>4. Len(s) = Len(p) /\ i - m + 1 = Len(p)
    BY <1>1, <1>5, <2>1, <2>3
  <2>5. ASSUME NEW k \in 1..Len(p)
        PROVE  s[k] = Pre(t, i)[i - Len(p) + k]
    <3>1. PICK j \in 1..i : j = i - Len(p) + k
      BY <1>1, <1>5
    <3>2. m + k - 1 = j
      BY <1>1, <2>1, <3>1
    <3> QED
      BY <1>3, <2>3, <2>4, <3>1, <3>2
  <2>6. s = p <=> \A k \in 1..Len(p) : s[k] = p[k]
    BY <2>3, <2>4, SeqEqual DEF Strings
  <2>7. Ends(p, Pre(t, i)) <=> \A k \in 1..Len(p) : p[k] = Pre(t, i)[i - Len(p) + k]
    BY <1>1, <1>3, <1>5 DEF Ends
  <2>8. s = p <=> Ends(p, Pre(t, i))
    BY <2>5, <2>6, <2>7
  <2> QED
    BY <2>1, <2>8 DEF s
<1> QED
    BY <1>1, <1>2, <1>4, <1>5

-----------------------------------------------------------------------------
(* The links: where a node's link leads, and where goto() ends.            *)

\* The nodes are strings, and a node's parent is a node.
IsTree ==
    /\ ac_nodes \subseteq Strings /\ <<>> \in ac_nodes
    /\ \A v \in ac_nodes \ {<<>>} : Front(v) \in ac_nodes

\* The longest node the text t ends with.
Deepest(w, t) ==
    /\ w \in ac_nodes /\ Ends(w, t)
    /\ \A u \in ac_nodes : Ends(u, t) => Ends(u, w)

\* The longest node the node v ends with, v itself apart.
IsLink(w, v) ==
    /\ w \in ac_nodes /\ Ends(w, v) /\ w # v
    /\ \A u \in ac_nodes : Ends(u, v) /\ u # v => Ends(u, w)

\* The links of the nodes of up to n characters are right.
LinksTo(links, n) ==
    /\ links \in [ac_nodes -> ac_nodes]
    /\ \A v \in ac_nodes : v # <<>> /\ Len(v) <= n => IsLink(links[v], v)

GoodLinks(links) ==
    /\ links \in [ac_nodes -> ac_nodes]
    /\ \A v \in ac_nodes : v # <<>> => IsLink(links[v], v)

\* The nodes from u on, link by link, up to the first one in T.
Chain(N, f, T, u) ==
    {x \in N : \A C \in SUBSET N :
        u \in C /\ (\A y \in C : y \notin T => f[y] \in C) => x \in C}

\* Following links to the first node in T is a function: it need not end for
\* links that form a cycle, and then any value will do.
LEMMA FallsExist ==
    ASSUME NEW N, NEW f \in [N -> N], NEW T
    PROVE  \E g : g = [v \in N |-> IF v \in T THEN v ELSE g[f[v]]]
<1> DEFINE R(u) == Chain(N, f, T, u)
           h(S) == CHOOSE x : x \in S
           g == [v \in N |-> h(R(v) \cap T)]
<1>1. ASSUME NEW u \in N
      PROVE  /\ u \in R(u) /\ R(u) \subseteq N
             /\ \A y \in R(u) : y \notin T => f[y] \in R(u)
             /\ \A C \in SUBSET N : u \in C /\ (\A y \in C : y \notin T => f[y] \in C)
                    => R(u) \subseteq C
    BY DEF Chain
<1> HIDE DEF R
<1>2. ASSUME NEW u \in N, u \in T PROVE R(u) \cap T = {u}
  <2>1. PICK C \in SUBSET N : C = {u}
    OBVIOUS
  <2>2. u \in C /\ \A y \in C : y \notin T => f[y] \in C
    BY <1>2, <2>1
  <2>3. R(u) \subseteq C
    BY <1>1, <2>2
  <2> QED
    BY <1>1, <1>2, <2>1, <2>3
<1>3. ASSUME NEW u \in N, u \notin T PROVE R(u) \cap T = R(f[u]) \cap T
  <2>1. f[u] \in N /\ f[u] \in R(u)
    BY <1>1, <1>3
  <2>2. R(f[u]) \subseteq R(u)
    BY <1>1, <2>1
  <2>3. PICK C \in SUBSET N : C = {u} \cup R(f[u])
    BY <1>1, <2>1
  <2>4. u \in C /\ \A y \in C : y \notin T => f[y] \in C
    BY <1>1, <2>1, <2>3
  <2>5. R(u) \subseteq C
    BY <1>1, <2>3, <2>4
  <2> QED
    BY <1>3, <2>2, <2>3, <2>5
<1>4. \A x : h({x}) = x
    OBVIOUS
<1>5. ASSUME NEW v \in N PROVE h(R(v) \cap T) = IF v \in T THEN v ELSE g[f[v]]
  <2>1. CASE v \in T
    BY <1>2, <1>4, <2>1
  <2>2. CASE v \notin T
    <3>1. f[v] \in N
      OBVIOUS
    <3>2. g[f[v]] = h(R(f[v]) \cap T)
      BY <3>1
    <3>3. R(v) \cap T = R(f[v]) \cap T
      BY <1>3, <2>2
    <3> QED
      BY <2>2, <3>2, <3>3
  <2> QED
    BY <2>1, <2>2
<1>6. g = [v \in N |-> IF v \in T THEN v ELSE g[f[v]]]
    BY <1>5
<1> QED
    BY <1>6

\* goto() goes on from where a function that solves its equation falls to,
\* and ends at a node.
LEMMA GotoFalls ==
    ASSUME NEW links \in [ac_nodes -> ac_nodes], NEW c
    PROVE  \E g :
        /\ \A v \in ac_nodes :
            g[v] = IF v = <<>> \/ Append(v, c) \in ac_nodes THEN v ELSE g[links[v]]
        /\ \A v : Goto(links, v, c) =
                IF Append(g[v], c) \in ac_nodes THEN Append(g[v], c) ELSE <<>>
<1> DEFINE T == {v \in ac_nodes : v = <<>> \/ Append(v, c) \in ac_nodes}
           Solves(g) == g = [v \in ac_nodes |-> IF v = <<>> \/ Append(v, c) \in ac_nodes
                                                THEN v ELSE g[links[v]]]
           falls == CHOOSE g : Solves(g)
<1>1. PICK g : g = [v \in ac_nodes |-> IF v \in T THEN v ELSE g[links[v]]]
  <2> HIDE DEF T
  <2> QED
    BY FallsExist
<1>2. \A v \in ac_nodes : v \in T <=> v = <<>> \/ Append(v, c) \in ac_nodes
    OBVIOUS
<1>3. Solves(g)
    BY <1>1, <1>2
<1>4. Solves(falls)
  <2> HIDE DEF Solves
  <2> QED
    BY <1>3
<1>5. \A v : Goto(links, v, c) =
            IF Append(falls[v], c) \in ac_nodes THEN Append(falls[v], c) ELSE <<>>
    BY Zenon DEF Goto
<1> HIDE DEF falls
<1>6. \A v \in ac_nodes :
        falls[v] = IF v = <<>> \/ Append(v, c) \in ac_nodes THEN v ELSE falls[links[v]]
    BY <1>4
<1> QED
    BY <1>5, <1>6

\* goto() of any links ends at a node.
LEMMA GotoIsNode ==
    ASSUME IsTree, NEW links, NEW v, NEW c
    PROVE  Goto(links, v, c) \in ac_nodes
BY DEF Goto, IsTree

\* Of several ends of a text, the longest one ends with all of them.
LEMMA LongestEnd ==
    ASSUME NEW t \in Strings, NEW U \in SUBSET Strings, U # {}, \A u \in U : Ends(u, t)
    PROVE  \E w \in U : \A u \in U : Ends(u, w)
<1>1. Len(t) \in Nat /\ \A u \in U : Len(u) \in Nat /\ Len(u) <= Len(t)
    BY ProperEnds
<1> DEFINE L == {Len(t) - Len(u) : u \in U}
<1>2. L \in SUBSET Nat /\ L # {}
    BY <1>1
<1>3. PICK x \in L : \A y \in L : x <= y
  <2> HIDE DEF L
  <2> QED
    BY <1>2, LeastNumber
<1>4. PICK w \in U : x = Len(t) - Len(w)
    OBVIOUS
<1>5. \A u \in U : Len(t) - Len(w) <= Len(t) - Len(u)
    BY <1>3, <1>4
<1>6. \A u \in U : Len(u) <= Len(w)
    BY <1>1, <1>5
<1>7. \A u \in U : Ends(u, w)
    BY <1>6, EndsChain
<1> QED
    BY <1>7

\* Likewise all of them end with the shortest one.
LEMMA ShortestEnd ==
    ASSUME NEW t \in Strings, NEW U \in SUBSET Strings, U # {}, \A u \in U : Ends(u, t)
    PROVE  \E w \in U : \A u \in U : Ends(w, u)
<1>1. \A u \in U : Len(u) \in Nat
    BY ProperEnds
<1> DEFINE L == {Len(u) : u \in U}
<1>2. L \in SUBSET Nat /\ L # {}
    BY <1>1
<1>3. PICK x \in L : \A y \in L : x <= y
  <2> HIDE DEF L
  <2> QED
    BY <1>2, LeastNumber
<1>4. PICK w \in U : x = Len(w)
    OBVIOUS
<1>5. \A u \in U : Len(w) <= Len(u)
    BY <1>3, <1>4
<1>6. \A u \in U : Ends(w, u)
    BY <1>5, EndsChain
<1> QED
    BY <1>6

\* There is one deepest node of a text, and one link of a node.
LEMMA DeepestIsOne ==
    ASSUME IsTree, NEW t \in Strings
    PROVE  /\ \E w \in ac_nodes : Deepest(w, t)
           /\ \A w, x : Deepest(w, t) /\ Deepest(x, t) => w = x
<1>1. \E w \in ac_nodes : Deepest(w, t)
  <2> DEFINE U == {u \in ac_nodes : Ends(u, t)}
  <2>1. U \in SUBSET Strings /\ <<>> \in U /\ \A u \in U : Ends(u, t)
    BY EndsTrivially DEF IsTree
  <2>2. PICK w \in U : \A u \in U : Ends(u, w)
    <3> HIDE DEF U
    <3> QED
      BY <2>1, LongestEnd
  <2> QED
    BY <2>2 DEF Deepest
<1>2. ASSUME NEW w, NEW x, Deepest(w, t), Deepest(x, t) PROVE w = x
  <2>1. w \in Strings /\ x \in Strings /\ Ends(w, x) /\ Ends(x, w)
    BY <1>2 DEF Deepest, IsTree
  <2> QED
    BY <2>1, ProperEnds
<1> QED
    BY <1>1, <1>2

\* Likewise the link of a node other than the root.
LEMMA LinkIsOne ==
    ASSUME IsTree, NEW v \in ac_nodes, v # <<>>
    PROVE  /\ \E w \in ac_nodes : IsLink(w, v)
           /\ \A w, x : IsLink(w, v) /\ IsLink(x, v) => w = x
           /\ \A w : IsLink(w, v) =>
                w \in Strings /\ Len(w) \in Nat /\ Len(v) \in Nat /\ Len(w) < Len(v)
<1>1. \E w \in ac_nodes : IsLink(w, v)
  <2> DEFINE U == {u \in ac_nodes : Ends(u, v) /\ u # v}
  <2>1. v \in Strings /\ U \in SUBSET Strings /\ <<>> \in U /\ \A u \in U : Ends(u, v)
    BY EndsTrivially DEF IsTree
  <2>2. PICK w \in U : \A u \in U : Ends(u, w)
    <3> HIDE DEF U
    <3> QED
      BY <2>1, LongestEnd
  <2> QED
    BY <2>2 DEF IsLink
<1>2. ASSUME NEW w, NEW x, IsLink(w, v), IsLink(x, v) PROVE w = x
  <2>1. w \in Strings /\ x \in Strings /\ Ends(w, x) /\ Ends(x, w)
    BY <1>2 DEF IsLink, IsTree
  <2> QED
    BY <2>1, ProperEnds
<1>3. ASSUME NEW w, IsLink(w, v)
      PROVE  w \in Strings /\ Len(w) \in Nat /\ Len(v) \in Nat /\ Len(w) < Len(v)
    BY <1>3, ProperEnds DEF IsLink, IsTree
<1> QED
    BY <1>1, <1>2, <1>3

\* A node without its last character is a node.
LEMMA ParentIsNode ==
    ASSUME IsTree, NEW v \in Strings, NEW c \in Chars, Append(v, c) \in ac_nodes
    PROVE  v \in ac_nodes
<1>1. Append(v, c) # <<>> /\ Front(Append(v, c)) = v
    BY StringAppend
<1> QED
    BY <1>1 DEF IsTree

\* From a node whose link and the links below are right, goto() ends at the
\* deepest node of the node and one more character.
LEMMA GotoIsDeepest ==
    ASSUME IsTree, NEW n \in Nat, NEW links, LinksTo(links, n),
           NEW v \in ac_nodes, Len(v) <= n, NEW c \in Chars
    PROVE  Deepest(Goto(links, v, c), Append(v, c))
<1>1. ac_nodes \subseteq Strings /\ <<>> \in ac_nodes /\ \A u \in ac_nodes : Len(u) \in Nat
    BY LenProperties DEF IsTree, Strings
<1>2. links \in [ac_nodes -> ac_nodes]
    BY DEF LinksTo
<1>3. PICK g :
        /\ \A u \in ac_nodes :
            g[u] = IF u = <<>> \/ Append(u, c) \in ac_nodes THEN u ELSE g[links[u]]
        /\ \A u : Goto(links, u, c) =
                IF Append(g[u], c) \in ac_nodes THEN Append(g[u], c) ELSE <<>>
    BY <1>2, GotoFalls
<1> DEFINE Falls(u) ==
            /\ g[u] \in ac_nodes /\ Ends(g[u], u)
            /\ g[u] = <<>> \/ Append(g[u], c) \in ac_nodes
            /\ \A x \in ac_nodes : Ends(x, u) /\ Append(x, c) \in ac_nodes => Ends(x, g[u])
           S == {m \in Nat : \A u \in ac_nodes : Len(u) <= m /\ m <= n => Falls(u)}
<1>4. ASSUME NEW u \in ac_nodes, u = <<>> \/ Append(u, c) \in ac_nodes PROVE Falls(u)
  <2>1. g[u] = u
    BY <1>3, <1>4
  <2> QED
    BY <1>1, <1>4, <2>1, EndsTrivially
<1>5. ASSUME NEW u \in ac_nodes, u # <<>>, Append(u, c) \notin ac_nodes,
             IsLink(links[u], u), Falls(links[u])
      PROVE  Falls(u)
  <2>1. g[u] = g[links[u]]
    BY <1>3, <1>5
  <2>2. PICK l \in ac_nodes : l = links[u]
    BY <1>5 DEF IsLink
  <2>3. Ends(l, u) /\ \A x \in ac_nodes : Ends(x, u) /\ x # u => Ends(x, l)
    BY <1>5, <2>2 DEF IsLink
  <2>4. /\ g[u] \in ac_nodes /\ Ends(g[u], l)
        /\ g[u] = <<>> \/ Append(g[u], c) \in ac_nodes
        /\ \A x \in ac_nodes : Ends(x, l) /\ Append(x, c) \in ac_nodes => Ends(x, g[u])
    BY <1>5, <2>1, <2>2
  <2>5. Ends(g[u], u)
    BY <1>1, <2>3, <2>4, EndsOfEnds
  <2> QED
    BY <1>5, <2>3, <2>4, <2>5
<1> HIDE DEF Falls
<1>6. S = Nat
  <2>1. 0 \in S
    <3> SUFFICES ASSUME NEW u \in ac_nodes, Len(u) <= 0 PROVE Falls(u)
      OBVIOUS
    <3>1. u = <<>>
      BY <1>1, EmptySeq DEF Strings
    <3> QED
      BY <1>4, <3>1
  <2>2. ASSUME NEW m \in S PROVE m + 1 \in S
    <3> SUFFICES ASSUME NEW u \in ac_nodes, Len(u) <= m + 1, m + 1 <= n
                 PROVE  Falls(u)
      OBVIOUS
    <3>1. CASE u = <<>> \/ Append(u, c) \in ac_nodes
      BY <1>4, <3>1
    <3>2. CASE u # <<>> /\ Append(u, c) \notin ac_nodes
      <4>1. IsLink(links[u], u)
        BY <1>1, <3>2 DEF LinksTo
      <4>2. links[u] \in ac_nodes
        BY <4>1 DEF IsLink
      <4>3. Len(links[u]) \in Nat /\ Len(links[u]) < Len(u)
        BY <3>2, <4>1, LinkIsOne
      <4>4. Len(links[u]) <= m /\ m <= n
        BY <1>1, <4>3
      <4>5. Falls(links[u])
        BY <4>2, <4>4
      <4> QED
        BY <1>5, <3>2, <4>1, <4>5
    <3> QED
      BY <3>1, <3>2
  <2>3. S \in SUBSET Nat
    OBVIOUS
  <2> HIDE DEF S
  <2> QED
    BY <2>1, <2>2, <2>3, NatSet
<1>7. Falls(v)
  <2>1. n \in S
    BY <1>6
  <2> QED
    BY <2>1
<1>8. PICK w \in ac_nodes : w = g[v]
    BY <1>7 DEF Falls
<1>9. /\ Ends(w, v)
      /\ w = <<>> \/ Append(w, c) \in ac_nodes
      /\ \A x \in ac_nodes : Ends(x, v) /\ Append(x, c) \in ac_nodes => Ends(x, w)
    BY <1>7, <1>8 DEF Falls
<1>10. Goto(links, v, c) = IF Append(w, c) \in ac_nodes THEN Append(w, c) ELSE <<>>
    BY <1>3, <1>8
<1>11. /\ v \in Strings /\ w \in Strings
       /\ Append(v, c) \in Strings /\ Append(w, c) \in Strings
    BY <1>1, StringAppend
<1>12. ASSUME NEW u \in ac_nodes, Ends(u, Append(v, c)), u # <<>>
       PROVE  Append(w, c) \in ac_nodes /\ Ends(u, Append(w, c))
  <2>1. PICK x \in Strings : u = Append(x, c) /\ Ends(x, v)
    BY <1>1, <1>11, <1>12, EndsOfAppend
  <2>2. x \in ac_nodes
    BY <1>12, <2>1, ParentIsNode
  <2>3. Ends(x, w)
    BY <1>9, <1>12, <2>1, <2>2
  <2>4. Ends(u, Append(w, c))
    BY <1>11, <2>1, <2>3, EndsOfAppend
  <2>5. w = <<>> => x = w
    <3>1. Ends(w, x) \/ w # <<>>
      BY EndsTrivially
    <3> QED
      BY <1>11, <2>3, <3>1, ProperEnds
  <2> QED
    BY <1>9, <1>12, <2>1, <2>4, <2>5
<1>13. Ends(Append(w, c), Append(v, c))
    BY <1>9, <1>11, EndsOfAppend
<1>14. CASE Append(w, c) \in ac_nodes
  <2>1. \A u \in ac_nodes : Ends(u, Append(v, c)) => Ends(u, Append(w, c))
    BY <1>11, <1>12, EndsTrivially
  <2> QED
    BY <1>10, <1>13, <1>14, <2>1 DEF Deepest
<1>15. CASE Append(w, c) \notin ac_nodes
  <2>1. PICK e \in ac_nodes : e = <<>>
    BY <1>1
  <2>2. \A u \in ac_nodes : Ends(u, Append(v, c)) => u = e
    BY <1>12, <1>15, <2>1
  <2>3. Ends(e, Append(v, c)) /\ Ends(e, e)
    BY <1>1, <1>11, <2>1, EndsTrivially
  <2>4. Goto(links, v, c) = e
    BY <1>10, <1>15, <2>1
  <2> QED
    BY <2>2, <2>3, <2>4 DEF Deepest
<1> QED
    BY <1>14, <1>15

\* The link of a node from its parent's.
LEMMA LinkStep ==
    ASSUME IsTree, NEW n \in Nat, NEW links, LinksTo(links, n),
           NEW v \in ac_nodes, Len(v) > 1, Len(v) <= n + 1
    PROVE  IsLink(Goto(links, links[Front(v)], Last(v)), v)
<1>1. v \in Strings /\ v # <<>>
    BY EmptySeq DEF IsTree
<1>2. PICK p \in Strings, c \in Chars : p = Front(v) /\ c = Last(v)
    BY <1>1, FrontAndLast
<1>3. v = Append(p, c) /\ Len(p) = Len(v) - 1 /\ Len(v) \in Nat
    BY <1>1, <1>2, FrontAndLast
<1>4. p \in ac_nodes
    BY <1>2, <1>3, ParentIsNode
<1>5. Len(p) \in Nat /\ Len(p) >= 1 /\ Len(p) <= n
    BY <1>3
<1>6. p # <<>>
    BY <1>5, EmptySeq
<1>7. PICK l : l = links[p] /\ IsLink(l, p)
    BY <1>4, <1>5, <1>6 DEF LinksTo
<1>8. /\ l \in ac_nodes /\ l \in Strings /\ Len(l) \in Nat /\ Len(l) < Len(p)
      /\ Ends(l, p) /\ \A x \in ac_nodes : Ends(x, p) /\ x # p => Ends(x, l)
    BY <1>4, <1>6, <1>7, LinkIsOne DEF IsLink
<1>9. PICK w : w = Goto(links, l, c) /\ Deepest(w, Append(l, c))
  <2>1. Len(l) <= n
    BY <1>5, <1>8
  <2> QED
    BY <1>8, <2>1, GotoIsDeepest
<1>10. /\ w \in ac_nodes /\ w \in Strings /\ Ends(w, Append(l, c))
       /\ \A u \in ac_nodes : Ends(u, Append(l, c)) => Ends(u, w)
    BY <1>9 DEF Deepest, IsTree
<1>11. /\ Append(l, c) \in Strings /\ Ends(Append(l, c), v)
       /\ Len(Append(l, c)) = Len(l) + 1
  <2>1. \A x \in Strings : Ends(x, p) => Ends(Append(x, c), v)
    BY <1>3, EndsOfAppend
  <2>2. Ends(Append(l, c), v)
    BY <1>8, <2>1, Zenon
  <2> QED
    BY <1>8, <2>2, StringAppend
<1>12. Ends(w, v)
    BY <1>1, <1>10, <1>11, EndsOfEnds
<1>13. w # v
  <2>1. Len(w) \in Nat /\ Len(w) <= Len(Append(l, c))
    BY <1>10, <1>11, ProperEnds
  <2> QED
    BY <1>3, <1>8, <1>11, <2>1
<1>14. ASSUME NEW u \in ac_nodes, Ends(u, v), u # v PROVE Ends(u, w)
  <2>1. u \in Strings
    BY DEF IsTree
  <2>2. CASE u = <<>>
    BY <1>10, <2>2, EndsTrivially
  <2>3. CASE u # <<>>
    <3>1. PICK x \in Strings : u = Append(x, c) /\ Ends(x, p)
      BY <1>3, <1>14, <2>1, <2>3, EndsOfAppend
    <3>2. x \in ac_nodes
      BY <3>1, ParentIsNode
    <3>3. Ends(x, l)
      BY <1>3, <1>8, <1>14, <3>1, <3>2
    <3>4. Ends(u, Append(l, c))
      BY <1>8, <3>1, <3>3, EndsOfAppend
    <3> QED
      BY <1>10, <3>4
  <2> QED
    BY <2>2, <2>3
<1> QED
    BY <1>2, <1>7, <1>9, <1>10, <1>12, <1>13, <1>14 DEF IsLink

\* The links of the longest proper ends are right at every length.
LEMMA GoodLinksTo ==
    ASSUME NEW links
    PROVE  /\ GoodLinks(links) => \A n \in Nat : LinksTo(links, n)
           /\ IsTree /\ (\A n \in Nat : LinksTo(links, n)) => GoodLinks(links)
<1>1. GoodLinks(links) => \A n \in Nat : LinksTo(links, n)
    BY DEF GoodLinks, LinksTo
<1>2. ASSUME IsTree, \A n \in Nat : LinksTo(links, n) PROVE GoodLinks(links)
  <2>1. \A v \in ac_nodes : Len(v) \in Nat
    BY LenProperties DEF IsTree, Strings
  <2>2. links \in [ac_nodes -> ac_nodes]
    BY <1>2 DEF LinksTo
  <2>3. ASSUME NEW v \in ac_nodes, v # <<>> PROVE IsLink(links[v], v)
    <3>1. PICK n \in Nat : n = Len(v)
      BY <2>1
    <3>2. LinksTo(links, n) /\ Len(v) <= n
      BY <1>2, <3>1
    <3> QED
      BY <2>3, <3>2 DEF LinksTo
  <2> QED
    BY <2>2, <2>3 DEF GoodLinks
<1> QED
    BY <1>1, <1>2

\* build() gives each node but the root its link.
LEMMA FailLinksAreGood ==
    ASSUME IsTree PROVE GoodLinks(FailLinks)
<1> DEFINE Body(f, v) == IF Len(v) <= 1 THEN <<>> ELSE Goto(f, f[Front(v)], Last(v))
           Solves(f) == f = [v \in ac_nodes |-> Body(f, v)]
           L == [v \in ac_nodes |-> IF v = <<>> THEN <<>> ELSE CHOOSE w : IsLink(w, v)]
<1>1. /\ ac_nodes \subseteq Strings /\ <<>> \in ac_nodes
      /\ \A v \in ac_nodes : Len(v) \in Nat
    BY LenProperties DEF IsTree, Strings
<1>2. GoodLinks(L)
  <2>1. \A v \in ac_nodes : v # <<>> => IsLink(L[v], v)
    BY LinkIsOne
  <2>2. \A v \in ac_nodes : L[v] \in ac_nodes
    <3> SUFFICES ASSUME NEW v \in ac_nodes PROVE L[v] \in ac_nodes
      OBVIOUS
    <3>1. CASE v = <<>>
      BY <1>1, <3>1
    <3>2. CASE v # <<>>
      BY <2>1, <3>2 DEF IsLink
    <3> QED
      BY <3>1, <3>2
  <2>3. L \in [ac_nodes -> ac_nodes]
    BY <2>2
  <2> HIDE DEF L
  <2> QED
    BY <2>1, <2>3 DEF GoodLinks
<1>3. \A v \in ac_nodes : Len(v) <= 1 /\ v # <<>> => IsLink(<<>>, v)
  <2> SUFFICES ASSUME NEW v \in ac_nodes, Len(v) <= 1, v # <<>> PROVE IsLink(<<>>, v)
    OBVIOUS
  <2>1. PICK e \in ac_nodes : e = <<>>
    BY <1>1
  <2>2. ASSUME NEW u \in ac_nodes, Ends(u, v), u # v PROVE u = e
    <3>1. Len(u) \in Nat /\ Len(u) < Len(v)
      BY <1>1, <2>2, ProperEnds
    <3>2. Len(u) = 0
      BY <1>1, <3>1
    <3> QED
      BY <1>1, <2>1, <3>2, EmptySeq DEF Strings
  <2>3. Ends(e, v) /\ Ends(e, e) /\ e # v
    BY <1>1, <2>1, EndsTrivially
  <2> QED
    BY <2>1, <2>2, <2>3 DEF IsLink
<1>4. ASSUME NEW f, NEW n \in Nat, LinksTo(f, n),
             NEW v \in ac_nodes, v # <<>>, Len(v) <= n + 1
      PROVE  IsLink(Body(f, v), v)
  <2>1. CASE Len(v) <= 1
    BY <1>3, <1>4, <2>1
  <2>2. CASE ~(Len(v) <= 1)
    <3>1. Len(v) > 1
      BY <1>1, <2>2
    <3>2. IsLink(Goto(f, f[Front(v)], Last(v)), v)
      BY <1>4, <3>1, LinkStep
    <3> QED
      BY <2>2, <3>2
  <2> QED
    BY <2>1, <2>2
<1>5. ASSUME NEW f PROVE Body(f, <<>>) = <<>>
    BY EmptySeq
<1>6. FailLinks = CHOOSE f : Solves(f)
    BY Zenon DEF FailLinks
<1>7. Solves(L)
  <2> SUFFICES ASSUME NEW v \in ac_nodes PROVE L[v] = Body(L, v)
    <3> HIDE DEF Body
    <3> QED
      OBVIOUS
  <2>1. CASE v = <<>>
    <3>1. L[v] = <<>>
      BY <2>1
    <3> HIDE DEF L, Body
    <3> QED
      BY <1>5, <2>1, <3>1
  <2>2. CASE v # <<>>
    <3> HIDE DEF L, Body
    <3>1. PICK n \in Nat : n = Len(v)
      BY <1>1
    <3>2. LinksTo(L, n) /\ Len(v) <= n + 1
      BY <1>2, <3>1, GoodLinksTo
    <3>3. IsLink(Body(L, v), v) /\ IsLink(L[v], v)
      BY <1>2, <1>4, <2>2, <3>2 DEF GoodLinks
    <3> QED
      BY <2>2, <3>3, LinkIsOne
  <2> QED
    BY <2>1, <2>2
<1>8. Solves(FailLinks)
  <2> HIDE DEF Solves, L
  <2> QED
    BY <1>6, <1>7
<1>9. PICK f : f = FailLinks
    OBVIOUS
<1>10. f = [v \in ac_nodes |-> Body(f, v)]
    BY <1>8, <1>9
<1>11. f \in [ac_nodes -> ac_nodes]
  <2>1. \A v \in ac_nodes : Body(f, v) \in ac_nodes
    BY <1>1, GotoIsNode
  <2> HIDE DEF Body
  <2> QED
    BY <1>10, <2>1
<1> HIDE DEF Body
<1> DEFINE S == {n \in Nat : LinksTo(f, n)}
<1>12. 0 \in S
  <2>1. \A v \in ac_nodes : Len(v) <= 0 => v = <<>>
    BY <1>1, EmptySeq DEF Strings
  <2> QED
    BY <1>11, <2>1 DEF LinksTo
<1>13. ASSUME NEW n \in S PROVE n + 1 \in S
  <2>1. ASSUME NEW v \in ac_nodes, v # <<>>, Len(v) <= n + 1 PROVE IsLink(f[v], v)
    <3>1. f[v] = Body(f, v)
      BY <1>10
    <3> QED
      BY <1>4, <2>1, <3>1
  <2> QED
    BY <1>11, <2>1 DEF LinksTo
<1>14. S = Nat
  <2>1. S \in SUBSET Nat
    OBVIOUS
  <2> HIDE DEF S
  <2> QED
    BY <1>12, <1>13, <2>1, NatSet
<1>15. \A n \in Nat : LinksTo(f, n)
    BY <1>14
<1> QED
    BY <1>9, <1>15, GoodLinksTo

\* What holds at the root, and of a node if of its link, holds of every node.
LEMMA LinkInduction ==
    ASSUME IsTree, NEW links, GoodLinks(links), NEW S \in SUBSET ac_nodes, <<>> \in S,
           \A v \in ac_nodes : v # <<>> /\ links[v] \in S => v \in S
    PROVE  S = ac_nodes
<1> DEFINE T == {n \in Nat : \A v \in ac_nodes : Len(v) <= n => v \in S}
<1>1. \A v \in ac_nodes : v \in Strings /\ Len(v) \in Nat
    BY LenProperties DEF IsTree, Strings
<1>2. 0 \in T
    BY <1>1, EmptySeq DEF Strings
<1>3. ASSUME NEW n \in T PROVE n + 1 \in T
  <2> SUFFICES ASSUME NEW v \in ac_nodes, Len(v) <= n + 1, v # <<>> PROVE v \in S
    OBVIOUS
  <2>1. IsLink(links[v], v)
    BY DEF GoodLinks
  <2>2. links[v] \in ac_nodes
    BY <2>1 DEF IsLink
  <2>3. Len(links[v]) \in Nat /\ Len(links[v]) < Len(v)
    BY <2>1, LinkIsOne
  <2>4. Len(links[v]) <= n
    BY <1>1, <2>3
  <2> QED
    BY <2>2, <2>4
<1>4. T = Nat
  <2>1. T \in SUBSET Nat
    OBVIOUS
  <2> HIDE DEF T
  <2> QED
    BY <1>2, <1>3, <2>1, NatSet
<1>5. ASSUME NEW v \in ac_nodes PROVE v \in S
  <2>1. Len(v) \in T
    BY <1>1, <1>4
  <2> QED
    BY <1>1, <2>1
<1> QED
    BY <1>5

\* Some match before build() ends the node v.
HasMatch(v) == \E p \in DOMAIN matched : Ends(p, v)

\* The shortest of those matches.
ShortestMatch(p, v) ==
    /\ p \in DOMAIN matched /\ Ends(p, v)
    /\ \A q \in DOMAIN matched : Ends(q, v) => Ends(p, q)

\* A node that a match ends has one shortest match.
LEMMA ShortestMatchIsOne ==
    ASSUME IsTree, DOMAIN matched \subseteq ac_nodes, NEW v \in Strings
    PROVE  /\ HasMatch(v) => \E p \in DOMAIN matched : ShortestMatch(p, v)
           /\ \A p, q : ShortestMatch(p, v) /\ ShortestMatch(q, v) => p = q
           /\ \A p : ShortestMatch(p, v) => p \in Strings
<1>1. ASSUME HasMatch(v) PROVE \E p \in DOMAIN matched : ShortestMatch(p, v)
  <2> DEFINE M == {p \in DOMAIN matched : Ends(p, v)}
  <2>1. M \in SUBSET Strings /\ M # {} /\ \A p \in M : Ends(p, v)
    BY <1>1 DEF HasMatch, IsTree
  <2>2. PICK p \in M : \A q \in M : Ends(p, q)
    <3> HIDE DEF M
    <3> QED
      BY <2>1, ShortestEnd
  <2> QED
    BY <2>2 DEF ShortestMatch
<1>2. \A p : ShortestMatch(p, v) => p \in Strings
    BY DEF ShortestMatch, IsTree
<1>3. ASSUME NEW p, NEW q, ShortestMatch(p, v), ShortestMatch(q, v) PROVE p = q
  <2>1. Ends(p, q) /\ Ends(q, p)
    BY <1>3 DEF ShortestMatch
  <2> QED
    BY <1>2, <1>3, <2>1, ProperEnds
<1> QED
    BY <1>1, <1>2, <1>3

\* The matches that end a node are the node itself, and those of its link.
LEMMA MatchStep ==
    ASSUME IsTree, DOMAIN matched \subseteq ac_nodes, NEW links, GoodLinks(links),
           NEW v \in ac_nodes
    PROVE  /\ HasMatch(v) <=> v \in DOMAIN matched \/ (v # <<>> /\ HasMatch(links[v]))
           /\ v # <<>> => links[v] \in ac_nodes
           /\ \A p : v # <<>> /\ ShortestMatch(p, links[v]) => ShortestMatch(p, v)
           /\ v \in DOMAIN matched /\ ~(v # <<>> /\ HasMatch(links[v])) => ShortestMatch(v, v)
<1>1. v \in Strings /\ ac_nodes \subseteq Strings
    BY DEF IsTree
<1>2. CASE v = <<>>
  <2>1. \A p \in ac_nodes : Ends(p, v) => p = v
    BY <1>1, <1>2, EndsTrivially, ProperEnds
  <2>2. Ends(v, v)
    BY <1>1, EndsTrivially
  <2> QED
    BY <1>2, <2>1, <2>2 DEF HasMatch, ShortestMatch
<1>3. CASE v # <<>>
  <2>1. PICK l \in ac_nodes : l = links[v]
    BY <1>3 DEF GoodLinks
  <2>2. /\ l \in Strings /\ Ends(l, v) /\ l # v
        /\ \A u \in ac_nodes : Ends(u, v) /\ u # v => Ends(u, l)
    BY <1>1, <1>3, <2>1 DEF GoodLinks, IsLink
  <2>3. ASSUME NEW p \in ac_nodes
        PROVE  Ends(p, v) <=> p = v \/ Ends(p, l)
    <3>1. Ends(p, l) => Ends(p, v)
      BY <1>1, <2>2, EndsOfEnds
    <3>2. Ends(v, v)
      BY <1>1, EndsTrivially
    <3> QED
      BY <2>2, <3>1, <3>2
  <2>4. HasMatch(v) <=> v \in DOMAIN matched \/ HasMatch(l)
    BY <2>3 DEF HasMatch
  <2>5. ASSUME NEW p, ShortestMatch(p, l) PROVE ShortestMatch(p, v)
    <3>1. /\ p \in DOMAIN matched /\ p \in ac_nodes /\ Ends(p, l)
          /\ \A q \in DOMAIN matched : Ends(q, l) => Ends(p, q)
      BY <2>5 DEF ShortestMatch
    <3>2. Ends(p, v)
      BY <2>3, <3>1
    <3>3. \A q \in DOMAIN matched : Ends(q, v) => Ends(p, q)
      BY <2>3, <3>1, <3>2
    <3> QED
      BY <3>1, <3>2, <3>3 DEF ShortestMatch
  <2>6. ASSUME v \in DOMAIN matched, ~HasMatch(l) PROVE ShortestMatch(v, v)
    <3>1. \A q \in DOMAIN matched : Ends(q, v) => q = v
      BY <2>3, <2>6 DEF HasMatch
    <3>2. Ends(v, v)
      BY <1>1, EndsTrivially
    <3> QED
      BY <2>6, <3>1, <3>2 DEF ShortestMatch
  <2> QED
    BY <1>3, <2>1, <2>4, <2>5, <2>6
<1> QED
    BY <1>2, <1>3

\* build() makes a match of every node that a match ends, with the rule id of
\* the shortest.
LEMMA InheritedFacts ==
    ASSUME IsTree, DOMAIN matched \subseteq ac_nodes, NEW links, GoodLinks(links)
    PROVE  /\ DOMAIN Inherited(links) = {v \in ac_nodes : HasMatch(v)}
           /\ \A v \in ac_nodes, p \in DOMAIN matched :
                ShortestMatch(p, v) => Inherited(links)[v] = matched[p]
<1> DEFINE Is(f, v) == v \in DOMAIN matched \/ (v # <<>> /\ f[links[v]])
           SolvesIs(f) == f = [v \in ac_nodes |-> Is(f, v)]
           is_match == CHOOSE f : SolvesIs(f)
           M == [v \in ac_nodes |-> HasMatch(v)]
           RuleBody(m, f, v) == IF v # <<>> /\ m[links[v]] THEN f[links[v]] ELSE matched[v]
           SolvesRule(m, f) == f = [v \in ac_nodes |-> RuleBody(m, f, v)]
           rule == CHOOSE f : SolvesRule(is_match, f)
           Best(v) == IF HasMatch(v) THEN matched[CHOOSE p : ShortestMatch(p, v)]
                      ELSE matched[v]
           B == [v \in ac_nodes |-> Best(v)]
<1>1. /\ <<>> \in ac_nodes /\ ac_nodes \subseteq Strings
      /\ \A v \in ac_nodes : v # <<>> => links[v] \in ac_nodes
    BY MatchStep DEF IsTree
<1>2. \A v \in ac_nodes :
        HasMatch(v) <=> v \in DOMAIN matched \/ (v # <<>> /\ HasMatch(links[v]))
    BY MatchStep
<1>3. Inherited(links) = [v \in {w \in ac_nodes : is_match[w]} |-> rule[v]]
    BY Zenon DEF Inherited
<1>4. SolvesIs(M)
  <2> SUFFICES ASSUME NEW v \in ac_nodes PROVE HasMatch(v) = Is(M, v)
    <3> HIDE DEF Is
    <3> QED
      BY Zenon
  <2>1. v # <<>> => M[links[v]] = HasMatch(links[v])
    BY <1>1
  <2> HIDE DEF M
  <2>2. HasMatch(v) <=> Is(M, v)
    BY <1>2, <2>1, Zenon
  <2>3. HasMatch(v) \in BOOLEAN
    BY DEF HasMatch
  <2>4. Is(M, v) \in BOOLEAN
    OBVIOUS
  <2> HIDE DEF Is
  <2> QED
    BY <2>2, <2>3, <2>4
<1>5. SolvesIs(is_match)
  <2> HIDE DEF SolvesIs, M
  <2> QED
    BY <1>4
<1> HIDE DEF is_match
<1>6. \A v \in ac_nodes : is_match[v] <=> Is(is_match, v)
  <2> HIDE DEF Is
  <2> QED
    BY <1>5, Zenon
<1> DEFINE S == {v \in ac_nodes : is_match[v] <=> HasMatch(v)}
<1>7. S = ac_nodes
  <2>1. S \in SUBSET ac_nodes
    OBVIOUS
  <2>2. <<>> \in S
    BY <1>1, <1>2, <1>6, Zenon
  <2>3. \A v \in ac_nodes : v # <<>> /\ links[v] \in S => v \in S
    <3> SUFFICES ASSUME NEW v \in ac_nodes, v # <<>>, links[v] \in S PROVE v \in S
      OBVIOUS
    <3>1. is_match[links[v]] <=> HasMatch(links[v])
      OBVIOUS
    <3>2. is_match[v] <=> Is(is_match, v)
      BY <1>6
    <3>3. is_match[v] <=> HasMatch(v)
      BY <1>2, <3>1, <3>2, Zenon
    <3> QED
      BY <3>3
  <2> HIDE DEF S
  <2> QED
    BY <2>1, <2>2, <2>3, LinkInduction
<1>8. \A v \in ac_nodes : is_match[v] <=> HasMatch(v)
    BY <1>7
<1>9. ASSUME NEW v \in ac_nodes, NEW p, ShortestMatch(p, v) PROVE Best(v) = matched[p]
  <2>1. HasMatch(v)
    BY <1>9 DEF HasMatch, ShortestMatch
  <2>2. (CHOOSE q : ShortestMatch(q, v)) = p
    BY <1>1, <1>9, ShortestMatchIsOne
  <2> QED
    BY <2>1, <2>2
<1> HIDE DEF Best
<1>10. ASSUME NEW v \in ac_nodes
       PROVE  Best(v) = IF v # <<>> /\ HasMatch(links[v]) THEN Best(links[v]) ELSE matched[v]
  <2>1. CASE v # <<>> /\ HasMatch(links[v])
    <3>1. links[v] \in ac_nodes /\ links[v] \in Strings
      BY <1>1, <2>1
    <3>2. PICK p : ShortestMatch(p, links[v])
      BY <2>1, <3>1, ShortestMatchIsOne
    <3>3. ShortestMatch(p, v)
      BY <2>1, <3>2, MatchStep
    <3>4. Best(v) = matched[p] /\ Best(links[v]) = matched[p]
      BY <1>9, <3>1, <3>2, <3>3
    <3> QED
      BY <2>1, <3>4
  <2>2. CASE ~(v # <<>> /\ HasMatch(links[v])) /\ v \in DOMAIN matched
    <3>1. ShortestMatch(v, v)
      BY <2>2, MatchStep
    <3>2. Best(v) = matched[v]
      BY <1>9, <3>1
    <3> QED
      BY <2>2, <3>2
  <2>3. CASE ~(v # <<>> /\ HasMatch(links[v])) /\ v \notin DOMAIN matched
    <3>1. ~HasMatch(v)
      BY <1>2, <2>3
    <3> QED
      BY <2>3, <3>1 DEF Best
  <2> QED
    BY <2>1, <2>2, <2>3
<1>11. SolvesRule(is_match, B)
  <2> SUFFICES ASSUME NEW v \in ac_nodes PROVE Best(v) = RuleBody(is_match, B, v)
    <3> HIDE DEF RuleBody
    <3> QED
      OBVIOUS
  <2>1. CASE v # <<>> /\ HasMatch(links[v])
    <3>1. links[v] \in ac_nodes
      BY <1>1, <2>1
    <3>2. (is_match[links[v]] <=> HasMatch(links[v])) /\ B[links[v]] = Best(links[v])
      BY <1>8, <3>1
    <3>3. RuleBody(is_match, B, v) = B[links[v]]
      BY <2>1, <3>2
    <3> QED
      BY <1>10, <2>1, <3>2, <3>3
  <2>2. CASE ~(v # <<>> /\ HasMatch(links[v]))
    <3>1. ~(v # <<>> /\ is_match[links[v]])
      BY <1>1, <1>8, <2>2
    <3> QED
      BY <1>10, <2>2, <3>1
  <2> QED
    BY <2>1, <2>2
<1>12. SolvesRule(is_match, rule)
  <2> HIDE DEF SolvesRule, B
  <2> QED
    BY <1>11
<1> HIDE DEF rule
<1>13. \A v \in ac_nodes : rule[v] = RuleBody(is_match, rule, v)
  <2> HIDE DEF RuleBody
  <2> QED
    BY <1>12
<1> DEFINE R == {v \in ac_nodes : rule[v] = Best(v)}
<1>14. R = ac_nodes
  <2>1. R \in SUBSET ac_nodes
    OBVIOUS
  <2>2. <<>> \in R
    BY <1>1, <1>10, <1>13
  <2>3. \A v \in ac_nodes : v # <<>> /\ links[v] \in R => v \in R
    <3> SUFFICES ASSUME NEW v \in ac_nodes, v # <<>>, links[v] \in R PROVE v \in R
      OBVIOUS
    <3>1. (is_match[links[v]] <=> HasMatch(links[v])) /\ rule[links[v]] = Best(links[v])
      BY <1>8
    <3>2. rule[v] = RuleBody(is_match, rule, v)
      BY <1>13
    <3>3. rule[v] = Best(v)
      BY <1>10, <3>1, <3>2
    <3> QED
      BY <3>3
  <2> HIDE DEF R
  <2> QED
    BY <2>1, <2>2, <2>3, LinkInduction
<1>15. {w \in ac_nodes : is_match[w]} = {v \in ac_nodes : HasMatch(v)}
    BY <1>8
<1>16. \A v \in ac_nodes : HasMatch(v) => Inherited(links)[v] = Best(v)
    BY <1>3, <1>14, <1>15
<1>17. \A v \in ac_nodes, p \in DOMAIN matched : ShortestMatch(p, v) => HasMatch(v)
    BY DEF HasMatch, ShortestMatch
<1> QED
    BY <1>3, <1>9, <1>15, <1>16, <1>17

-----------------------------------------------------------------------------
(* The search: where it is after each character.                           *)

\* The characters in lower case, one for one.
LEMMA LoweredIsString ==
    ASSUME NEW s \in Strings
    PROVE  /\ Lowered(s) \in Strings /\ Len(Lowered(s)) = Len(s) /\ Len(s) \in Nat
           /\ \A i \in 1..Len(s) : Lowered(s)[i] = LowerChar[s[i]]
           /\ s # <<>> <=> Lowered(s) # <<>>
<1>1. Len(s) \in Nat /\ DOMAIN s = 1..Len(s) /\ \A i \in 1..Len(s) : s[i] \in Chars
    BY LenProperties DEF Strings
<1>2. \A i \in 1..Len(s) : LowerChar[s[i]] \in Chars
    BY <1>1, CharAssumption
<1> DEFINE t == [i \in 1..Len(s) |-> LowerChar[s[i]]]
<1>3. Lowered(s) = t
    BY <1>1 DEF Lowered
<1>4. t \in [1..Len(s) -> Chars]
    BY <1>2
<1>5. t \in Seq(Chars)
  <2> HIDE DEF t
  <2> QED
    BY <1>1, <1>4, SeqDef
<1>6. Len(t) = Len(s)
  <2>1. DOMAIN t = 1..Len(s)
    OBVIOUS
  <2> HIDE DEF t
  <2>2. Len(t) \in Nat /\ 1..Len(t) = 1..Len(s)
    BY <1>5, <2>1, LenProperties
  <2> QED
    BY <1>1, <2>2
<1>7. s # <<>> <=> t # <<>>
  <2> HIDE DEF t
  <2> QED
    BY <1>1, <1>5, <1>6, EmptySeq DEF Strings
<1> QED
    BY <1>1, <1>3, <1>5, <1>6, <1>7 DEF Strings

\* From the deepest node of a text, goto() leads to that of one more character.
LEMMA DeepestStep ==
    ASSUME IsTree, NEW links, GoodLinks(links), NEW t \in Strings, NEW v, Deepest(v, t),
           NEW c \in Chars
    PROVE  Deepest(Goto(links, v, c), Append(t, c))
<1>1. v \in ac_nodes /\ v \in Strings /\ Ends(v, t) /\ ac_nodes \subseteq Strings
    BY DEF Deepest, IsTree
<1>2. PICK w : w = Goto(links, v, c) /\ Deepest(w, Append(v, c))
  <2>1. PICK n \in Nat : n = Len(v) /\ Len(v) <= n
    BY <1>1, LenProperties DEF Strings
  <2>2. LinksTo(links, n)
    BY GoodLinksTo
  <2> QED
    BY <1>1, <2>1, <2>2, GotoIsDeepest
<1>3. /\ w \in ac_nodes /\ w \in Strings /\ Ends(w, Append(v, c))
      /\ \A u \in ac_nodes : Ends(u, Append(v, c)) => Ends(u, w)
    BY <1>2 DEF Deepest, IsTree
<1>4. Append(v, c) \in Strings /\ Append(t, c) \in Strings
    BY <1>1, StringAppend
<1>5. Ends(Append(v, c), Append(t, c))
    BY <1>1, EndsOfAppend
<1>6. Ends(w, Append(t, c))
    BY <1>3, <1>4, <1>5, EndsOfEnds
<1>7. ASSUME NEW u \in ac_nodes, Ends(u, Append(t, c)) PROVE Ends(u, w)
  <2>1. CASE u = <<>>
    BY <1>3, <2>1, EndsTrivially
  <2>2. CASE u # <<>>
    <3>1. PICK x \in Strings : u = Append(x, c) /\ Ends(x, t)
      BY <1>1, <1>7, <2>2, EndsOfAppend
    <3>2. x \in ac_nodes
      BY <3>1, ParentIsNode
    <3>3. Ends(x, v)
      BY <3>1, <3>2 DEF Deepest
    <3>4. Ends(u, Append(v, c))
      BY <1>1, <3>1, <3>3, EndsOfAppend
    <3> QED
      BY <1>3, <3>4
  <2> QED
    BY <2>1, <2>2
<1> QED
    BY <1>2, <1>3, <1>6, <1>7 DEF Deepest

\* After i characters the search is at the deepest node of the text so far.
LEMMA SearchIsDeepest ==
    ASSUME IsTree, GoodLinks(fail_link), NEW text \in Strings
    PROVE  \E node :
        /\ \A i \in 0..Len(text) : Deepest(node[i], Pre(Lowered(text), i))
        /\ MatchEnds(text) =
             LET ends == {i \in 1..Len(text) : node[i] \in DOMAIN matched}
             IN  {<<i, matched[node[i]]>> : i \in {j \in ends : \A k \in ends : j <= k}}
<1> DEFINE Body(f, i) ==
                IF i = 0 THEN <<>> ELSE Goto(fail_link, f[i - 1], LowerChar[text[i]])
           Solves(f) == f = [i \in 0..Len(text) |-> Body(f, i)]
           node == CHOOSE f : Solves(f)
           D == [i \in 0..Len(text) |-> CHOOSE w : Deepest(w, Pre(Lowered(text), i))]
<1>1. PICK n \in Nat, t \in Strings :
        /\ n = Len(text) /\ t = Lowered(text) /\ Len(t) = n
        /\ \A i \in 1..n : t[i] = LowerChar[text[i]]
    BY LoweredIsString
<1>2. \A i \in 0..n : Pre(t, i) \in Strings
    BY <1>1, StringPre
<1>3. \A i \in 1..n : t[i] \in Chars /\ Pre(t, i) = Append(Pre(t, i - 1), t[i])
  <2> SUFFICES ASSUME NEW i \in 1..n
               PROVE  t[i] \in Chars /\ Pre(t, i) = Append(Pre(t, i - 1), t[i])
    OBVIOUS
  <2>1. i \in 0..Len(t) /\ i > 0
    BY <1>1
  <2> QED
    BY <2>1, StringPre
<1>4. Pre(t, 0) = <<>>
    BY <1>1, StringPre
<1>5. Deepest(<<>>, Pre(t, 0))
    BY <1>4, EndsTrivially DEF Deepest, IsTree
<1>6. ASSUME NEW f, NEW i \in 1..n, Deepest(f[i - 1], Pre(t, i - 1))
      PROVE  Deepest(Body(f, i), Pre(t, i))
  <2>1. i - 1 \in 0..n /\ i # 0
    BY <1>1
  <2>2. Deepest(Goto(fail_link, f[i - 1], t[i]), Append(Pre(t, i - 1), t[i]))
    BY <1>2, <1>3, <1>6, <2>1, DeepestStep
  <2>3. Body(f, i) = Goto(fail_link, f[i - 1], t[i])
    BY <1>1, <2>1
  <2> HIDE DEF Body
  <2> QED
    BY <1>3, <2>2, <2>3
<1>7. \A i \in 0..n : D[i] = CHOOSE w : Deepest(w, Pre(t, i))
    BY <1>1
<1>8. \A i \in 0..n : Deepest(D[i], Pre(t, i))
    BY <1>2, <1>7, DeepestIsOne
<1>9. \A f : Body(f, 0) = <<>>
    OBVIOUS
<1> HIDE DEF Body
<1>10. MatchEnds(text) =
        LET ends == {i \in 1..Len(text) : node[i] \in DOMAIN matched}
        IN  {<<i, matched[node[i]]>> : i \in {j \in ends : \A k \in ends : j <= k}}
    BY Zenon DEF MatchEnds, Body
<1>11. Solves(D)
  <2> SUFFICES ASSUME NEW i \in 0..n PROVE D[i] = Body(D, i)
    BY <1>1
  <2> HIDE DEF D
  <2>1. CASE i = 0
    BY <1>2, <1>5, <1>8, <1>9, <2>1, DeepestIsOne
  <2>2. CASE i # 0
    <3>1. i \in 1..n /\ i - 1 \in 0..n
      BY <2>2
    <3>2. Deepest(Body(D, i), Pre(t, i))
      BY <1>6, <1>8, <3>1
    <3> QED
      BY <1>2, <1>8, <3>2, DeepestIsOne
  <2> QED
    BY <2>1, <2>2
<1>12. Solves(node)
  <2> HIDE DEF Solves, D
  <2> QED
    BY <1>11
<1> HIDE DEF node
<1>13. \A i \in 0..n : node[i] = Body(node, i)
    BY <1>1, <1>12
<1> DEFINE S == {m \in Nat : m <= n => Deepest(node[m], Pre(t, m))}
<1>14. 0 \in S
    BY <1>5, <1>9, <1>13
<1>15. ASSUME NEW m \in S PROVE m + 1 \in S
  <2> SUFFICES ASSUME m + 1 <= n PROVE Deepest(node[m + 1], Pre(t, m + 1))
    OBVIOUS
  <2>1. PICK i \in 1..n : i = m + 1 /\ i - 1 = m /\ m <= n
    OBVIOUS
  <2>2. Deepest(node[i - 1], Pre(t, i - 1))
    BY <2>1
  <2>3. Deepest(Body(node, i), Pre(t, i))
    BY <1>6, <2>2
  <2> QED
    BY <1>13, <2>1, <2>3
<1>16. S = Nat
  <2>1. S \in SUBSET Nat
    OBVIOUS
  <2> HIDE DEF S
  <2> QED
    BY <1>14, <1>15, <2>1, NatSet
<1>17. \A i \in 0..Len(text) : Deepest(node[i], Pre(Lowered(text), i))
    BY <1>1, <1>16
<1> QED
    BY <1>10, <1>17

-----------------------------------------------------------------------------
(* The patterns.                                                           *)

\* Strings put together one after another are a string.
LEMMA FlattenedIsString ==
    ASSUME NEW s \in Seq(Strings)
    PROVE  FlattenSeq(s) \in Strings
<1> DEFINE Body(f, i) == IF i = 1 THEN s[i] ELSE f[i - 1] \o s[i]
           Solves(f, m) == f = [i \in 1..m |-> Body(f, i)]
           flatten == CHOOSE f : Solves(f, Len(s))
           S == {m \in Nat : \E f : Solves(f, m)}
<1>1. Len(s) \in Nat /\ \A i \in 1..Len(s) : s[i] \in Strings
    BY LenProperties
<1>2. CASE Len(s) = 0
  <2>1. s = <<>>
    BY <1>2, EmptySeq
  <2> QED
    BY <1>2, <2>1, EndsTrivially, EmptySeq DEF FlattenSeq, Strings
<1>3. CASE Len(s) # 0
  <2>1. FlattenSeq(s) = flatten[Len(s)]
    BY <1>3, Zenon DEF FlattenSeq
  <2>2. 0 \in S
    <3>1. Solves([i \in {} |-> 0], 0)
      OBVIOUS
    <3> HIDE DEF Solves
    <3> QED
      BY <3>1
  <2>3. ASSUME NEW m \in S PROVE m + 1 \in S
    <3>1. PICK f : Solves(f, m)
      OBVIOUS
    <3> DEFINE g == [i \in 1..(m + 1) |-> IF i <= m THEN f[i] ELSE Body(f, i)]
    <3>2. \A i \in 1..m : f[i] = Body(f, i)
      BY <3>1
    <3>3. ASSUME NEW i \in 1..(m + 1) PROVE g[i] = Body(g, i)
      <4>1. g[i] = Body(f, i)
        <5> HIDE DEF Body
        <5> QED
          BY <3>2
      <4>2. i # 1 => g[i - 1] = f[i - 1]
        OBVIOUS
      <4> HIDE DEF g
      <4> QED
        BY <4>1, <4>2
    <3>4. Solves(g, m + 1)
      <4>1. g = [i \in 1..(m + 1) |-> g[i]]
        OBVIOUS
      <4> HIDE DEF g, Body
      <4> QED
        BY <3>3, <4>1
    <3> HIDE DEF Solves, g
    <3> QED
      BY <3>4
  <2>4. S = Nat
    <3>1. S \in SUBSET Nat
      OBVIOUS
    <3> HIDE DEF S
    <3> QED
      BY <2>2, <2>3, <3>1, NatSet
  <2>5. Solves(flatten, Len(s))
    <3>1. \E f : Solves(f, Len(s))
      BY <1>1, <2>4
    <3> HIDE DEF Solves
    <3> QED
      BY <3>1
  <2> HIDE DEF flatten
  <2>6. \A i \in 1..Len(s) : flatten[i] = Body(flatten, i)
    <3> HIDE DEF Body
    <3> QED
      BY <2>5
  <2> DEFINE T == {m \in Nat : m + 1 <= Len(s) => flatten[m + 1] \in Strings}
  <2>7. 0 \in T
    BY <1>1, <2>6
  <2>8. ASSUME NEW m \in T PROVE m + 1 \in T
    <3> SUFFICES ASSUME m + 1 + 1 <= Len(s) PROVE flatten[m + 1 + 1] \in Strings
      OBVIOUS
    <3>1. PICK i \in 1..Len(s) : i = m + 1 + 1 /\ i - 1 = m + 1 /\ i # 1
      BY <1>1
    <3>2. flatten[i - 1] \in Strings
      BY <1>1, <3>1
    <3>3. flatten[i] = flatten[i - 1] \o s[i]
      BY <2>6, <3>1
    <3>4. flatten[i - 1] \o s[i] \in Strings
      BY <1>1, <3>2, ConcatProperties DEF Strings
    <3> QED
      BY <3>1, <3>3, <3>4
  <2>9. T = Nat
    <3>1. T \in SUBSET Nat
      OBVIOUS
    <3> HIDE DEF T
    <3> QED
      BY <2>7, <2>8, <3>1, NatSet
  <2>10. PICK m \in Nat : m + 1 = Len(s)
    BY <1>1, <1>3
  <2>11. m \in T
    BY <2>9
  <2> QED
    BY <1>1, <2>1, <2>10, <2>11
<1> QED
    BY <1>2, <1>3

\* The text of a domain is a string.
LEMMA TextIsString ==
    ASSUME NEW d \in Seq(Labels)
    PROVE  Text(d) \in Strings
<1>1. Len(d) \in Nat /\ DOMAIN d = 1..Len(d) /\ \A i \in 1..Len(d) : d[i] \in Labels
    BY LenProperties
<1> DEFINE part(i) == (IF i = 1 THEN <<>> ELSE <<DotChar>>) \o Spelling[d[i]]
           parts == [i \in 1..Len(d) |-> part(i)]
<1>2. ASSUME NEW i \in 1..Len(d) PROVE part(i) \in Strings
  <2>1. PICK a \in Seq(Chars) : a = Spelling[d[i]]
    BY <1>1, SpellingAssumption
  <2>2. PICK b \in Seq(Chars) : b = IF i = 1 THEN <<>> ELSE <<DotChar>>
    <3>1. <<DotChar>> \in Seq(Chars)
      BY SpellingAssumption
    <3>2. <<>> \in Seq(Chars)
      BY EmptySeq
    <3> QED
      BY <3>1, <3>2
  <2>3. b \o a \in Seq(Chars)
    BY ConcatProperties
  <2> QED
    BY <2>1, <2>2, <2>3 DEF Strings
<1>3. Text(d) = FlattenSeq(parts)
    BY <1>1 DEF Text
<1>4. parts \in Seq(Strings)
  <2> HIDE DEF part
  <2>1. parts \in [1..Len(d) -> Strings]
    BY <1>2
  <2> HIDE DEF parts
  <2> QED
    BY <1>1, <2>1, SeqDef
<1> HIDE DEF parts
<1> QED
    BY <1>3, <1>4, FlattenedIsString

\* So are those of the rules and of the names.
LEMMA TextsAreStrings ==
    /\ \A rule \in Rules : Text(rule) \in Strings
    /\ \A qname \in QNames : Text(qname) \in Strings
<1>1. \A rule \in Rules : rule \in Seq(Labels)
    BY RuleAssumption
<1>2. \A qname \in QNames : qname \in Seq(Labels)
  <2>1. {Lower[l] : l \in Labels} \ {EmptyLabel} \subseteq Labels
    BY LabelAssumption
  <2> QED
    BY <2>1, RuleAssumption, SeqMonotonic
<1> QED
    BY <1>1, <1>2, TextIsString

-----------------------------------------------------------------------------
(* The inductive invariant of the automaton.                               *)

\* A rule without a character has no pattern.
Patterns == {Pattern(k) : k \in 1..Len(suffixes)} \ {<<>>}

\* The last rule with the pattern p is the k-th.
IsLastId(p, k) ==
    /\ k \in 1..Len(suffixes) /\ Pattern(k) = p
    /\ \A j \in 1..Len(suffixes) : Pattern(j) = p => j <= k

\* The shortest pattern that ends v.
Shortest(p, v) ==
    /\ p \in Patterns /\ Ends(p, v)
    /\ \A q \in Patterns : Ends(q, v) => Ends(p, q)

\* Every pattern leads to a match, and there is a pattern at the end of the
\* way to every match.
MatchesArePatterns ==
    /\ Patterns \subseteq DOMAIN matched /\ DOMAIN matched \subseteq ac_nodes
    /\ \A v \in DOMAIN matched : \E p \in Patterns : Ends(p, v)

\* A pattern that ends with no other has its last rule id.  Of the others
\* nothing is said: build() gives them the id of a shorter one.
LastIds == \A p \in Patterns : Shortest(p, p) => IsLastId(p, matched[p])

\* What build() leaves.
BuiltRight ==
    built_ =>
        /\ GoodLinks(fail_link)
        /\ \A v \in ac_nodes, p \in Patterns :
            Shortest(p, v) => v \in DOMAIN matched /\ IsLastId(p, matched[v])

AutomatonInv ==
    /\ suffixes \in Seq(Rules)
    /\ IsTree /\ MatchesArePatterns /\ LastIds /\ BuiltRight

\* The patterns are strings.
LEMMA PatternsAreStrings ==
    ASSUME suffixes \in Seq(Rules)
    PROVE  /\ Len(suffixes) \in Nat
           /\ \A k \in 1..Len(suffixes) : Pattern(k) \in Strings
           /\ Patterns \subseteq Strings
           /\ \A k \in 1..Len(suffixes) : Pattern(k) # <<>> => Pattern(k) \in Patterns
           /\ \A p \in Patterns : p # <<>> /\ \E k \in 1..Len(suffixes) : p = Pattern(k)
<1>1. Len(suffixes) \in Nat /\ \A k \in 1..Len(suffixes) : suffixes[k] \in Rules
    BY LenProperties
<1>2. \A k \in 1..Len(suffixes) : Pattern(k) \in Strings
    BY <1>1, TextsAreStrings, LoweredIsString DEF Pattern
<1> QED
    BY <1>1, <1>2 DEF Patterns

\* One more rule adds its pattern and no other, under the highest number.
LEMMA PatternAdded ==
    ASSUME suffixes \in Seq(Rules), NEW rule \in Rules,
           suffixes' = Append(suffixes, rule), NEW path, path = Lowered(Text(rule))
    PROVE  /\ suffixes' \in Seq(Rules)
           /\ Patterns' = (Patterns \cup {path}) \ {<<>>}
           /\ \A k : k = Len(suffixes) + 1 => IsLastId(path, k)'
           /\ \A p, k : p # path /\ IsLastId(p, k) => IsLastId(p, k)'
<1>1. PICK n \in Nat : n = Len(suffixes)
    BY LenProperties
<1>2. /\ suffixes' \in Seq(Rules) /\ Len(suffixes') = n + 1
      /\ \A k \in 1..n : suffixes'[k] = suffixes[k]
      /\ suffixes'[n + 1] = rule
    BY <1>1, AppendProperties
<1>3. \A k \in 1..n : Pattern(k)' = Pattern(k)
    BY <1>2 DEF Pattern
<1>4. Pattern(n + 1)' = path
    BY <1>2 DEF Pattern
<1>5. Patterns' = {Pattern(k)' : k \in 1..(n + 1)} \ {<<>>}
    BY <1>2 DEF Patterns
<1>6. Patterns = {Pattern(k) : k \in 1..n} \ {<<>>}
    BY <1>1 DEF Patterns
<1>7. Patterns' = (Patterns \cup {path}) \ {<<>>}
    BY <1>3, <1>4, <1>5, <1>6
<1>8. ASSUME NEW p, NEW k
      PROVE  IsLastId(p, k)' <=>
                /\ k \in 1..(n + 1) /\ Pattern(k)' = p
                /\ \A j \in 1..(n + 1) : Pattern(j)' = p => j <= k
    BY <1>2 DEF IsLastId
<1>9. IsLastId(path, n + 1)'
    BY <1>4, <1>8
<1>10. ASSUME NEW p, NEW k, p # path, IsLastId(p, k) PROVE IsLastId(p, k)'
  <2>1. /\ k \in 1..n /\ Pattern(k) = p
        /\ \A j \in 1..n : Pattern(j) = p => j <= k
    BY <1>1, <1>10 DEF IsLastId
  <2> QED
    BY <1>3, <1>4, <1>8, <1>10, <2>1
<1> QED
    BY <1>1, <1>2, <1>7, <1>9, <1>10

\* insert() keeps the invariant, and build() has to come again.
LEMMA AddRuleKeeps ==
    ASSUME AutomatonInv, NEW rule \in Rules, AddRule(rule)
    PROVE  AutomatonInv'
<1>1. PICK path : path = Lowered(Text(rule))
    OBVIOUS
<1>2. /\ suffixes \in Seq(Rules) /\ IsTree /\ MatchesArePatterns /\ LastIds
      /\ BuiltRight
    BY DEF AutomatonInv
<1>3. suffixes' = Append(suffixes, rule) /\ InsertPattern(Text(rule), Len(suffixes) + 1)
    BY DEF AddRule, AddSuffix
<1>4. /\ suffixes' \in Seq(Rules)
      /\ Patterns' = (Patterns \cup {path}) \ {<<>>}
      /\ \A k : k = Len(suffixes) + 1 => IsLastId(path, k)'
      /\ \A p, k : p # path /\ IsLastId(p, k) => IsLastId(p, k)'
    BY <1>1, <1>2, <1>3, PatternAdded
<1>5. Text(rule) \in Strings /\ path \in Strings /\ (Text(rule) = <<>> <=> path = <<>>)
    BY <1>1, TextsAreStrings, LoweredIsString
<1>6. Patterns \subseteq Strings /\ \A p \in Patterns : p # <<>>
    BY <1>2, PatternsAreStrings
<1>7. CASE Text(rule) = <<>>
  <2>1. UNCHANGED aho_vars
    BY <1>3, <1>7 DEF InsertPattern
  <2>2. /\ ac_nodes' = ac_nodes /\ fail_link' = fail_link
        /\ matched' = matched /\ built_' = built_
    BY <2>1 DEF aho_vars
  <2>3. Patterns' = Patterns /\ \A p \in Patterns : p # path
    BY <1>4, <1>5, <1>6, <1>7
  <2>4. \A p, v : Shortest(p, v)' <=> Shortest(p, v)
    BY <2>3 DEF Shortest
  <2>5. IsTree' /\ MatchesArePatterns'
    BY <1>2, <2>2, <2>3 DEF IsTree, MatchesArePatterns
  <2>6. LastIds'
    BY <1>2, <1>4, <2>2, <2>3, <2>4 DEF LastIds
  <2>7. GoodLinks(fail_link) => GoodLinks(fail_link)'
    BY <2>2 DEF GoodLinks, IsLink
  <2>8. BuiltRight'
    BY <1>2, <1>4, <2>2, <2>3, <2>4, <2>7 DEF BuiltRight
  <2> QED
    BY <1>4, <2>5, <2>6, <2>8 DEF AutomatonInv
<1>8. CASE Text(rule) # <<>>
  <2>1. PICK all : all = ac_nodes \cup {Pre(path, i) : i \in 1..Len(path)}
    OBVIOUS
  <2>2. /\ ac_nodes' = all /\ built_' = FALSE
        /\ matched' = [v \in DOMAIN matched \cup {path} |->
                            IF v = path THEN Len(suffixes) + 1 ELSE matched[v]]
    BY <1>1, <1>3, <1>8, <2>1 DEF InsertPattern, Pre
  <2>3. path # <<>> /\ Len(path) \in Nat \ {0} /\ path \in Patterns'
    BY <1>4, <1>5, <1>8, EmptySeq DEF Strings
  <2>4. \A i \in 1..Len(path) : /\ Pre(path, i) \in Strings
                                /\ Front(Pre(path, i)) = Pre(path, i - 1)
                                /\ i - 1 = 0 => Pre(path, i - 1) = <<>>
    <3> SUFFICES ASSUME NEW i \in 1..Len(path)
                 PROVE  /\ Pre(path, i) \in Strings
                        /\ Front(Pre(path, i)) = Pre(path, i - 1)
                        /\ i - 1 = 0 => Pre(path, i - 1) = <<>>
      OBVIOUS
    <3>1. PICK h \in 0..Len(path) : h = i - 1
      BY <2>3
    <3>2. Pre(path, h) \in Strings /\ (h = 0 => Pre(path, h) = <<>>)
      BY <1>5, StringPre
    <3>3. i \in 0..Len(path) /\ i > 0
      BY <2>3
    <3>4. /\ Pre(path, i) \in Strings /\ path[i] \in Chars
          /\ Pre(path, i) = Append(Pre(path, h), path[i])
      BY <1>5, <3>1, <3>3, StringPre
    <3>5. Front(Pre(path, i)) = Pre(path, h)
      BY <3>2, <3>4, StringAppend
    <3> QED
      BY <3>1, <3>2, <3>4, <3>5
  <2>5. IsTree'
    <3>1. all \subseteq Strings /\ <<>> \in all
      BY <1>2, <2>1, <2>4 DEF IsTree
    <3>2. ASSUME NEW v \in all \ {<<>>} PROVE Front(v) \in all
      <4>1. CASE v \in ac_nodes
        BY <1>2, <2>1, <3>2, <4>1 DEF IsTree
      <4>2. CASE v \notin ac_nodes
        <5>1. PICK i \in 1..Len(path) : v = Pre(path, i)
          BY <2>1, <4>2
        <5>2. CASE i = 1
          <6>1. i - 1 = 0
            BY <5>2
          <6> QED
            BY <2>4, <3>1, <5>1, <6>1
        <5>3. CASE i # 1
          <6>1. i - 1 \in 1..Len(path)
            BY <2>3, <5>3
          <6> QED
            BY <2>1, <2>4, <5>1, <6>1
        <5> QED
          BY <5>2, <5>3
      <4> QED
        BY <4>1, <4>2
    <3> QED
      BY <2>2, <3>1, <3>2 DEF IsTree
  <2>6. path \in all
    <3>1. path = Pre(path, Len(path))
      BY <1>5, SubSeqFull DEF Pre, Strings
    <3>2. Len(path) \in 1..Len(path)
      BY <2>3
    <3> QED
      BY <2>1, <3>1, <3>2
  <2>7. Patterns' = Patterns \cup {path}
    BY <1>4, <1>6, <2>3
  <2>8. DOMAIN matched' = DOMAIN matched \cup {path}
    BY <2>2
  <2>9. MatchesArePatterns'
    <3>1. Patterns' \subseteq DOMAIN matched' /\ DOMAIN matched' \subseteq ac_nodes'
      BY <1>2, <2>1, <2>2, <2>6, <2>7, <2>8 DEF MatchesArePatterns
    <3>2. ASSUME NEW v \in DOMAIN matched' PROVE \E p \in Patterns' : Ends(p, v)
      <4>1. CASE v = path
        BY <1>5, <2>7, <4>1, EndsTrivially
      <4>2. CASE v \in DOMAIN matched
        BY <1>2, <2>7, <4>2 DEF MatchesArePatterns
      <4> QED
        BY <2>8, <3>2, <4>1, <4>2
    <3> QED
      BY <3>1, <3>2 DEF MatchesArePatterns
  <2>10. LastIds'
    <3> SUFFICES ASSUME NEW p \in Patterns', Shortest(p, p)', NEW k, k = matched'[p]
                 PROVE  IsLastId(p, k)'
      BY DEF LastIds
    <3>1. CASE p = path
      <4>1. k = Len(suffixes) + 1
        BY <2>2, <3>1
      <4> QED
        BY <1>4, <3>1, <4>1
    <3>2. CASE p # path
      <4>1. p \in Patterns /\ p \in DOMAIN matched
        BY <1>2, <2>7, <3>2 DEF MatchesArePatterns
      <4>2. Shortest(p, p)
        BY <2>7, <4>1 DEF Shortest
      <4>3. k = matched[p]
        BY <2>2, <3>2, <4>1
      <4> QED
        BY <1>2, <1>4, <3>2, <4>1, <4>2, <4>3 DEF LastIds
    <3> QED
      BY <3>1, <3>2
  <2>11. BuiltRight'
    BY <2>2 DEF BuiltRight
  <2> QED
    BY <1>4, <2>5, <2>9, <2>10, <2>11 DEF AutomatonInv
<1> QED
    BY <1>7, <1>8

\* build() leaves the longest links, and every node that a pattern ends a
\* match with the last id of the shortest.
LEMMA BuildKeeps ==
    ASSUME AutomatonInv, BuildMatcher
    PROVE  AutomatonInv'
<1>1. /\ suffixes \in Seq(Rules) /\ IsTree /\ MatchesArePatterns /\ LastIds
    BY DEF AutomatonInv
<1>2. /\ suffixes' = suffixes /\ ac_nodes' = ac_nodes
      /\ fail_link' = FailLinks /\ matched' = Inherited(FailLinks)
    BY DEF BuildMatcher, Build, vars
<1>3. GoodLinks(FailLinks)
    BY <1>1, FailLinksAreGood
<1>4. /\ Patterns \subseteq DOMAIN matched /\ DOMAIN matched \subseteq ac_nodes
      /\ \A v \in DOMAIN matched : \E p \in Patterns : Ends(p, v)
    BY <1>1 DEF MatchesArePatterns
<1>5. ac_nodes \subseteq Strings
    BY <1>1 DEF IsTree
<1>6. /\ DOMAIN matched' = {v \in ac_nodes : HasMatch(v)}
      /\ \A v \in ac_nodes, p \in DOMAIN matched :
            ShortestMatch(p, v) => matched'[v] = matched[p]
    BY <1>1, <1>2, <1>3, <1>4, InheritedFacts
<1>7. Patterns' = Patterns /\ \A p, k : IsLastId(p, k)' <=> IsLastId(p, k)
    BY <1>2 DEF Patterns, IsLastId, Pattern
<1>8. \A p, v : Shortest(p, v)' <=> Shortest(p, v)
    BY <1>7 DEF Shortest
<1>9. \A v \in ac_nodes : HasMatch(v) <=> \E p \in Patterns : Ends(p, v)
  <2> SUFFICES ASSUME NEW v \in ac_nodes
               PROVE  HasMatch(v) <=> \E p \in Patterns : Ends(p, v)
    OBVIOUS
  <2>1. ASSUME HasMatch(v) PROVE \E p \in Patterns : Ends(p, v)
    <3>1. PICK q \in DOMAIN matched : Ends(q, v)
      BY <2>1 DEF HasMatch
    <3>2. PICK p \in Patterns : Ends(p, q)
      BY <1>4
    <3>3. Ends(p, v)
      BY <1>4, <1>5, <3>1, <3>2, EndsOfEnds
    <3> QED
      BY <3>3
  <2> QED
    BY <1>4, <2>1 DEF HasMatch
<1>10. ASSUME NEW v \in ac_nodes, NEW p \in Patterns, Shortest(p, v)
       PROVE  v \in DOMAIN matched' /\ IsLastId(p, matched'[v])
  <2>1. Ends(p, v) /\ \A q \in Patterns : Ends(q, v) => Ends(p, q)
    BY <1>10 DEF Shortest
  <2>2. p \in DOMAIN matched /\ p \in ac_nodes /\ p \in Strings /\ v \in Strings
    BY <1>4, <1>5
  <2>3. v \in DOMAIN matched'
    BY <1>6, <1>9, <2>1
  <2>4. ASSUME NEW q \in DOMAIN matched, Ends(q, v) PROVE Ends(p, q)
    <3>1. PICK r \in Patterns : Ends(r, q)
      BY <1>4
    <3>2. q \in Strings /\ r \in Strings
      BY <1>4, <1>5
    <3>3. Ends(r, v)
      BY <2>2, <2>4, <3>1, <3>2, EndsOfEnds
    <3>4. Ends(p, r)
      BY <2>1, <3>3
    <3> QED
      BY <2>2, <3>1, <3>2, <3>4, EndsOfEnds
  <2>5. ShortestMatch(p, v)
    BY <2>1, <2>2, <2>4 DEF ShortestMatch
  <2>6. Shortest(p, p)
    <3>1. Ends(p, p)
      BY <2>2, EndsTrivially
    <3>2. ASSUME NEW q \in Patterns, Ends(q, p) PROVE Ends(p, q)
      <4>1. q \in Strings
        BY <1>4, <1>5
      <4>2. Ends(q, v)
        BY <2>1, <2>2, <3>2, <4>1, EndsOfEnds
      <4> QED
        BY <2>1, <4>2
    <3> QED
      BY <3>1, <3>2 DEF Shortest
  <2>7. IsLastId(p, matched[p])
    BY <1>1, <2>6 DEF LastIds
  <2>8. matched'[v] = matched[p]
    BY <1>6, <2>2, <2>5
  <2> QED
    BY <2>3, <2>7, <2>8
<1>11. IsTree'
    BY <1>1, <1>2 DEF IsTree
<1>12. MatchesArePatterns'
  <2>1. Patterns \subseteq DOMAIN matched'
    <3> SUFFICES ASSUME NEW p \in Patterns PROVE p \in DOMAIN matched'
      OBVIOUS
    <3>1. p \in ac_nodes /\ Ends(p, p)
      BY <1>4, <1>5, EndsTrivially
    <3> QED
      BY <1>6, <1>9, <3>1
  <2>2. DOMAIN matched' \subseteq ac_nodes
    BY <1>6
  <2>3. \A v \in DOMAIN matched' : \E p \in Patterns : Ends(p, v)
    BY <1>6, <1>9
  <2> QED
    BY <1>2, <1>7, <2>1, <2>2, <2>3 DEF MatchesArePatterns
<1>13. LastIds'
  <2> SUFFICES ASSUME NEW p \in Patterns, Shortest(p, p)
               PROVE  IsLastId(p, matched'[p])
    BY <1>7, <1>8 DEF LastIds
  <2>1. p \in ac_nodes
    BY <1>4
  <2> QED
    BY <1>10, <2>1
<1>14. BuiltRight'
  <2>1. GoodLinks(fail_link)'
    <3>1. GoodLinks(FailLinks) <=>
            /\ FailLinks \in [ac_nodes -> ac_nodes]
            /\ \A v \in ac_nodes : v # <<>> => IsLink(FailLinks[v], v)
      BY DEF GoodLinks
    <3>2. PICK f : f = FailLinks
      OBVIOUS
    <3>3. fail_link' = f
      BY <1>2, <3>2
    <3> QED
      BY <1>2, <1>3, <3>1, <3>2, <3>3 DEF GoodLinks, IsLink
  <2>2. \A v \in ac_nodes, p \in Patterns :
            Shortest(p, v) => v \in DOMAIN matched' /\ IsLastId(p, matched'[v])
    BY <1>10
  <2> QED
    BY <1>2, <1>7, <1>8, <2>1, <2>2 DEF BuiltRight
<1> QED
    BY <1>1, <1>2, <1>11, <1>12, <1>13, <1>14 DEF AutomatonInv

\* A step that leaves the automaton and the list of suffixes alone.
LEMMA AutomatonStays ==
    ASSUME AutomatonInv, UNCHANGED aho_vars, suffixes' = suffixes
    PROVE  AutomatonInv'
<1>1. /\ ac_nodes' = ac_nodes /\ fail_link' = fail_link
      /\ matched' = matched /\ built_' = built_
    BY DEF aho_vars
<1>2. Patterns' = Patterns /\ \A p, k : IsLastId(p, k)' <=> IsLastId(p, k)
    BY DEF Patterns, IsLastId, Pattern
<1>3. \A p, v : Shortest(p, v)' <=> Shortest(p, v)
    BY <1>2 DEF Shortest
<1>4. GoodLinks(fail_link)' <=> GoodLinks(fail_link)
    BY <1>1 DEF GoodLinks, IsLink
<1>5. IsTree' /\ MatchesArePatterns'
    BY <1>1, <1>2 DEF AutomatonInv, IsTree, MatchesArePatterns
<1>6. LastIds'
    BY <1>1, <1>2, <1>3 DEF AutomatonInv, LastIds
<1>7. BuiltRight'
    BY <1>1, <1>2, <1>3, <1>4 DEF AutomatonInv, BuiltRight
<1> QED
    BY <1>5, <1>6, <1>7 DEF AutomatonInv

\* Every step keeps the invariant.
LEMMA ComparisonKeeps ==
    AutomatonInv /\ [ComparisonNext]_<<vars, aho_vars>> => AutomatonInv'
<1> SUFFICES ASSUME AutomatonInv, [ComparisonNext]_<<vars, aho_vars>>
             PROVE  AutomatonInv'
    OBVIOUS
<1>1. CASE \E rule \in Rules : AddRule(rule)
    BY <1>1, AddRuleKeeps
<1>2. CASE \E rule \in Rules : AddName(rule)
  <2>1. UNCHANGED aho_vars /\ suffixes' = suffixes
    BY <1>2 DEF AddName, AddExact, AddAllow
  <2> QED
    BY <2>1, AutomatonStays
<1>3. CASE BuildMatcher
    BY <1>3, BuildKeeps
<1>4. CASE UNCHANGED <<vars, aho_vars>>
  <2>1. UNCHANGED aho_vars /\ suffixes' = suffixes
    BY <1>4 DEF vars
  <2> QED
    BY <2>1, AutomatonStays
<1> QED
    BY <1>1, <1>2, <1>3, <1>4 DEF ComparisonNext

\* The invariant holds before the first rule.
LEMMA ComparisonInitEstablishes == ComparisonInit => AutomatonInv
<1> SUFFICES ASSUME ComparisonInit PROVE AutomatonInv
    OBVIOUS
<1>1. suffixes = <<>> /\ ac_nodes = {<<>>} /\ DOMAIN matched = {} /\ built_ = FALSE
    BY DEF ComparisonInit, Init, AhoInit
<1>2. suffixes \in Seq(Rules) /\ Patterns = {}
    BY <1>1, EmptySeq DEF Patterns
<1>3. IsTree
  <2>1. <<>> \in Strings
    BY EmptySeq DEF Strings
  <2> QED
    BY <1>1, <2>1 DEF IsTree
<1> QED
    BY <1>1, <1>2, <1>3 DEF AutomatonInv, MatchesArePatterns, LastIds, BuiltRight

\* The invariant of the automaton holds in every reachable state.
THEOREM AutomatonInvariantHolds == ComparisonSpec => []AutomatonInv
BY ComparisonInitEstablishes, ComparisonKeeps, PTL DEF ComparisonSpec

\* A node is a match exactly when a pattern ends it.
LEMMA MatchIffPattern ==
    ASSUME AutomatonInv, built_, NEW v \in ac_nodes
    PROVE  /\ v \in DOMAIN matched <=> \E p \in Patterns : Ends(p, v)
           /\ v \in DOMAIN matched =>
                \E p \in Patterns : Shortest(p, v) /\ IsLastId(p, matched[v])
<1>1. /\ suffixes \in Seq(Rules) /\ ac_nodes \subseteq Strings
      /\ \A w \in DOMAIN matched : \E p \in Patterns : Ends(p, w)
      /\ \A w \in ac_nodes, p \in Patterns :
            Shortest(p, w) => w \in DOMAIN matched /\ IsLastId(p, matched[w])
    BY DEF AutomatonInv, IsTree, MatchesArePatterns, BuiltRight
<1>2. Patterns \subseteq Strings /\ v \in Strings
    BY <1>1, PatternsAreStrings
<1>3. ASSUME \E p \in Patterns : Ends(p, v)
      PROVE  \E p \in Patterns : Shortest(p, v)
  <2> DEFINE U == {p \in Patterns : Ends(p, v)}
  <2>1. U \in SUBSET Strings /\ U # {} /\ \A p \in U : Ends(p, v)
    BY <1>2, <1>3
  <2>2. PICK p \in U : \A q \in U : Ends(p, q)
    <3> HIDE DEF U
    <3> QED
      BY <1>2, <2>1, ShortestEnd
  <2> QED
    BY <2>2 DEF Shortest
<1> QED
    BY <1>1, <1>3

\* In a state of the invariant the search finds the first place where a
\* pattern ends, and names the last rule of the shortest one.
LEMMA SearchFindsFirst ==
    ASSUME AutomatonInv PROVE AutomatonFindsSubstrings
<1> SUFFICES ASSUME built_, NEW text \in {Text(qname) : qname \in QNames}
             PROVE  LET first(i) == /\ Ending(text, i) # {}
                                    /\ \A j \in 1..(i - 1) : Ending(text, j) = {}
                    IN  Search(text) = UNION {{<<i, k>> : k \in Named(text, i)} :
                                                i \in {j \in 1..Len(text) : first(j)}}
    BY DEF AutomatonFindsSubstrings
<1> DEFINE length(k) == Len(Pattern(k))
           first(i) == /\ Ending(text, i) # {}
                       /\ \A j \in 1..(i - 1) : Ending(text, j) = {}
<1> text \in Strings
    BY TextsAreStrings
<1>1. /\ suffixes \in Seq(Rules) /\ IsTree /\ GoodLinks(fail_link)
      /\ ac_nodes \subseteq Strings /\ Patterns \subseteq ac_nodes
    BY DEF AutomatonInv, IsTree, MatchesArePatterns, BuiltRight
<1>2. /\ Len(suffixes) \in Nat
      /\ \A k \in 1..Len(suffixes) : Pattern(k) \in Strings
      /\ Patterns \subseteq Strings
      /\ \A k \in 1..Len(suffixes) : Pattern(k) # <<>> => Pattern(k) \in Patterns
      /\ \A p \in Patterns : p # <<>> /\ \E k \in 1..Len(suffixes) : p = Pattern(k)
    BY <1>1, PatternsAreStrings
<1>3. PICK t \in Strings, n \in Nat :
        t = Lowered(text) /\ n = Len(text) /\ Len(t) = n
    BY LoweredIsString
<1>4. PICK node :
        /\ \A i \in 0..n : Deepest(node[i], Pre(t, i))
        /\ MatchEnds(text) =
             LET ends == {i \in 1..n : node[i] \in DOMAIN matched}
             IN  {<<i, matched[node[i]]>> : i \in {j \in ends : \A k \in ends : j <= k}}
    BY <1>1, <1>3, SearchIsDeepest
<1>5. ASSUME NEW i \in 1..n
      PROVE  /\ Pre(t, i) \in Strings /\ node[i] \in ac_nodes /\ node[i] \in Strings
             /\ \A p \in Patterns : Ends(p, Pre(t, i)) <=> Ends(p, node[i])
  <2>1. i \in 0..n
    OBVIOUS
  <2>2. Pre(t, i) \in Strings
    BY <1>3, <2>1, StringPre
  <2>3. PICK w : w = node[i] /\ Deepest(w, Pre(t, i))
    BY <1>4, <2>1
  <2>4. /\ w \in ac_nodes /\ w \in Strings /\ Ends(w, Pre(t, i))
        /\ \A p \in Patterns : Ends(p, Pre(t, i)) => Ends(p, w)
    BY <1>1, <2>3 DEF Deepest
  <2>5. \A p \in Patterns : Ends(p, w) => Ends(p, Pre(t, i))
    BY <1>2, <2>2, <2>4, EndsOfEnds
  <2> QED
    BY <2>2, <2>3, <2>4, <2>5
<1>6. ASSUME NEW i \in 1..n, NEW k
      PROVE  k \in Ending(text, i) <=>
                k \in 1..Len(suffixes) /\ Pattern(k) \in Patterns /\ Ends(Pattern(k), node[i])
  <2>1. ASSUME NEW m \in 1..Len(suffixes)
        PROVE  length(m) \in 1..i /\ SubSeq(t, i - length(m) + 1, i) = Pattern(m)
                <=> Pattern(m) # <<>> /\ Ends(Pattern(m), Pre(t, i))
    <3>1. PICK p \in Strings : p = Pattern(m)
      BY <1>2
    <3>2. i \in 1..Len(t)
      BY <1>3
    <3>3. Len(p) \in 1..i /\ SubSeq(t, i - Len(p) + 1, i) = p
            <=> p # <<>> /\ Ends(p, Pre(t, i))
      BY <3>2, EndsAsSubSeq
    <3> QED
      BY <3>1, <3>3
  <2>2. k \in Ending(text, i) <=>
            k \in 1..Len(suffixes) /\ Pattern(k) # <<>> /\ Ends(Pattern(k), Pre(t, i))
    BY <1>3, <2>1 DEF Ending
  <2>3. k \in 1..Len(suffixes) => (Pattern(k) # <<>> <=> Pattern(k) \in Patterns)
    BY <1>2
  <2> QED
    BY <1>5, <2>2, <2>3
<1>7. ASSUME NEW i \in 1..n
      PROVE  Ending(text, i) # {} <=> node[i] \in DOMAIN matched
  <2>1. node[i] \in DOMAIN matched <=> \E p \in Patterns : Ends(p, node[i])
    BY <1>5, MatchIffPattern
  <2>2. (\E p \in Patterns : Ends(p, node[i])) <=> \E k : k \in Ending(text, i)
    BY <1>2, <1>6
  <2> QED
    BY <2>1, <2>2
<1>8. ASSUME NEW i \in 1..n, Ending(text, i) # {}
      PROVE  Named(text, i) = {matched[node[i]]}
  <2>1. node[i] \in DOMAIN matched /\ node[i] \in ac_nodes /\ node[i] \in Strings
    BY <1>5, <1>7, <1>8
  <2>2. PICK p \in Patterns, m \in 1..Len(suffixes) :
        /\ m = matched[node[i]]
        /\ Shortest(p, node[i]) /\ IsLastId(p, m)
    BY <2>1, MatchIffPattern DEF IsLastId
  <2>3. /\ m \in 1..Len(suffixes) /\ Pattern(m) = p
        /\ \A j \in 1..Len(suffixes) : Pattern(j) = p => j <= m
    BY <2>2 DEF IsLastId
  <2>4. Ends(p, node[i]) /\ \A q \in Patterns : Ends(q, node[i]) => Ends(p, q)
    BY <2>2 DEF Shortest
  <2>5. m \in Ending(text, i)
    BY <1>6, <2>3, <2>4
  <2>6. ASSUME NEW l \in Ending(text, i)
        PROVE  /\ l \in Nat /\ length(l) \in Nat /\ length(m) \in Nat
               /\ length(m) < length(l) \/ (length(m) = length(l) /\ m >= l)
    <3>1. l \in 1..Len(suffixes) /\ Pattern(l) \in Patterns /\ Ends(Pattern(l), node[i])
      BY <1>6
    <3>2. Ends(p, Pattern(l))
      BY <2>4, <3>1
    <3>3. PICK q \in Strings : q = Pattern(l)
      BY <1>2, <3>1
    <3>4. /\ Len(p) \in Nat /\ Len(q) \in Nat /\ Len(p) <= Len(q)
          /\ p # q => Len(p) < Len(q)
      BY <1>2, <3>2, <3>3, ProperEnds
    <3>5. p = q => l <= m
      BY <2>3, <3>1, <3>3
    <3>6. length(m) = Len(p) /\ length(l) = Len(q) /\ l \in Nat /\ m \in Nat
      BY <1>2, <2>3, <3>1, <3>3
    <3> HIDE DEF length
    <3> QED
      BY <3>4, <3>5, <3>6
  <2>7. \A k : k \in Named(text, i) <=>
            /\ k \in Ending(text, i)
            /\ \A l \in Ending(text, i) :
                length(k) < length(l) \/ (length(k) = length(l) /\ k >= l)
    BY DEF Named
  <2> HIDE DEF length
  <2>8. m \in Named(text, i)
    BY <2>5, <2>6, <2>7
  <2>9. ASSUME NEW k \in Named(text, i) PROVE k = m
    <3>1. k \in Ending(text, i)
      BY <2>7
    <3>2. length(k) < length(m) \/ (length(k) = length(m) /\ k >= m)
      BY <2>5, <2>7
    <3>3. length(m) < length(k) \/ (length(m) = length(k) /\ m >= k)
      BY <2>6, <3>1
    <3>4. k \in Nat /\ m \in Nat /\ length(k) \in Nat /\ length(m) \in Nat
      BY <2>5, <2>6, <3>1
    <3> QED
      BY <3>2, <3>3, <3>4
  <2> QED
    BY <2>2, <2>8, <2>9
<1> DEFINE ends == {i \in 1..n : node[i] \in DOMAIN matched}
           F == {j \in 1..n : first(j)}
<1>9. \A i : i \in ends <=> i \in 1..n /\ Ending(text, i) # {}
    BY <1>7
<1>10. {j \in ends : \A k \in ends : j <= k} = F
  <2>1. ASSUME NEW i \in 1..n, Ending(text, i) # {}
        PROVE  (\A k \in ends : i <= k) <=> \A j \in 1..(i - 1) : Ending(text, j) = {}
    <3>1. ASSUME \A k \in ends : i <= k, NEW j \in 1..(i - 1) PROVE Ending(text, j) = {}
      <4>1. j \in 1..n /\ ~(i <= j)
        OBVIOUS
      <4> QED
        BY <1>9, <3>1, <4>1
    <3>2. ASSUME \A j \in 1..(i - 1) : Ending(text, j) = {}, NEW k \in ends PROVE i <= k
      <4>1. k \in 1..n /\ Ending(text, k) # {}
        BY <1>9
      <4>2. k \notin 1..(i - 1)
        BY <3>2, <4>1
      <4> QED
        BY <4>1, <4>2
    <3> QED
      BY <3>1, <3>2
  <2> HIDE DEF ends
  <2> QED
    BY <1>9, <2>1
<1>11. Search(text) = {<<i, matched[node[i]]>> : i \in F}
  <2>1. Search(text) = MatchEnds(text)
    BY DEF Search
  <2>2. MatchEnds(text) =
            {<<i, matched[node[i]]>> : i \in {j \in ends : \A k \in ends : j <= k}}
    BY <1>4
  <2> HIDE DEF ends, F
  <2> QED
    BY <1>10, <2>1, <2>2
<1>12. \A i \in F : Named(text, i) = {matched[node[i]]}
    BY <1>8
<1>13. F = {j \in 1..Len(text) : first(j)}
    BY <1>3
<1> HIDE DEF F
<1>14. \A i \in F : {<<i, k>> : k \in Named(text, i)} = {<<i, matched[node[i]]>>}
    BY <1>12
<1>15. UNION {{<<i, k>> : k \in Named(text, i)} : i \in F} =
            {<<i, matched[node[i]]>> : i \in F}
    BY <1>14
<1> QED
    BY <1>11, <1>13, <1>15

\* Whatever the rules and in whatever order they came, with builds in
\* between, the automaton of the benchmark reports for every name the first
\* place where a pattern ends, under the last rule id of the shortest pattern
\* there (aho_corasick.cpp:73-100).
THEOREM AutomatonMeetsReference == ComparisonSpec => []AutomatonFindsSubstrings
<1>1. AutomatonInv => AutomatonFindsSubstrings
    BY SearchFindsFirst
<1> QED
    BY <1>1, AutomatonInvariantHolds, PTL

\* The automaton beside it changes nothing for a policy: what is proved of
\* Spec holds of the comparison too.
THEOREM ComparisonIsPolicy == ComparisonSpec => Spec
<1>1. ComparisonInit => Init
    BY DEF ComparisonInit
<1>2. [ComparisonNext]_<<vars, aho_vars>> => [Next]_vars
  <2> SUFFICES ASSUME [ComparisonNext]_<<vars, aho_vars>> PROVE [Next]_vars
    OBVIOUS
  <2>1. CASE \E rule \in Rules : AddRule(rule) \/ AddName(rule)
    BY <2>1 DEF AddRule, AddName, Next
  <2>2. CASE BuildMatcher
    BY <2>2 DEF BuildMatcher
  <2>3. CASE UNCHANGED <<vars, aho_vars>>
    BY <2>3
  <2> QED
    BY <2>1, <2>2, <2>3 DEF ComparisonNext
<1> QED
    BY <1>1, <1>2, PTL DEF ComparisonSpec, Spec

=============================================================================
