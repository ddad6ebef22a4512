--------------------------- MODULE DnsCacheProofs ---------------------------
(***************************************************************************)
(* Safety of DnsCache under any sequence of calls, for any keys, capacity, *)
(* TTL limits and generations.                                             *)
(*                                                                         *)
(* The first part says what each operation of std::list does to a list     *)
(* without repetitions: which keys it holds afterwards, and that an order  *)
(* of last use stays one.  The invariant needs all parts at once: the key  *)
(* an eviction pops is in the table because the list mirrors the table,    *)
(* and the capacity holds because what is popped is in the table.          *)
(***************************************************************************)
EXTENDS DnsCacheUse, FiniteSetTheorems, SequenceTheorems, TLAPS

\* The list holds exactly the keys of S, each once.
Lists(list, S) ==
    /\ list \in Seq(Keys)
    /\ \A i, j \in 1..Len(list) : list[i] = list[j] => i = j
    /\ \A i \in 1..Len(list) : list[i] \in S
    /\ \A k \in S : \E i \in 1..Len(list) : list[i] = k

\* Each key of the list was used after those behind it.
Ordered(list, rec) ==
    \A i, j \in 1..Len(list) : i < j => <<list[i], list[j]>> \in rec

-----------------------------------------------------------------------------
(* The list operations.                                                    *)

LEMMA FunctionIsSeq ==
    ASSUME NEW n \in Nat, NEW f \in [1..n -> Keys]
    PROVE  f \in Seq(Keys) /\ Len(f) = n
<1>1. f \in Seq(Keys)
    BY SeqDef
<1>2. DOMAIN f = 1..Len(f) /\ Len(f) \in Nat
    BY <1>1, LenProperties
<1> QED
    BY <1>1, <1>2

LEMMA PositionFacts ==
    ASSUME NEW S, NEW list, Lists(list, S), NEW k \in S
    PROVE  /\ PositionOf(k, list) \in 1..Len(list)
           /\ list[PositionOf(k, list)] = k
BY DEF Lists, PositionOf

\* Removing a key from anywhere in the list (cache.cpp:26, 33).
LEMMA EraseFacts ==
    ASSUME NEW S, NEW list, Lists(list, S), NEW k \in S,
           NEW rec, Ordered(list, rec)
    PROVE  Lists(Erase(k, list), S \ {k}) /\ Ordered(Erase(k, list), rec)
<1> DEFINE p == PositionOf(k, list)
           n == Len(list)
           e == Erase(k, list)
<1>1. n \in Nat /\ list \in [1..n -> Keys]
    BY LenProperties DEF Lists
<1>2. p \in 1..n /\ list[p] = k
    BY PositionFacts
<1>3. e = [i \in 1..(n - 1) |-> IF i < p THEN list[i] ELSE list[i + 1]]
    BY DEF Erase
<1> HIDE DEF p, n, e
<1>4. \A i \in 1..(n - 1) :
        /\ e[i] = list[IF i < p THEN i ELSE i + 1]
        /\ (IF i < p THEN i ELSE i + 1) \in (1..n) \ {p}
    BY <1>1, <1>2, <1>3
<1>5. e \in [1..(n - 1) -> Keys] /\ n - 1 \in Nat
    BY <1>1, <1>2, <1>3, <1>4
<1>6. e \in Seq(Keys) /\ Len(e) = n - 1
    BY <1>5, FunctionIsSeq
<1>7. \A i, j \in 1..n : list[i] = list[j] => i = j
    BY DEF Lists, n
<1>8. \A i, j \in 1..(n - 1) : e[i] = e[j] => i = j
  <2> SUFFICES ASSUME NEW i \in 1..(n - 1), NEW j \in 1..(n - 1), e[i] = e[j]
               PROVE  i = j
    OBVIOUS
  <2>1. (IF i < p THEN i ELSE i + 1) = (IF j < p THEN j ELSE j + 1)
    BY <1>4, <1>7
  <2> QED
    BY <1>1, <1>2, <2>1
<1>9. \A i \in 1..(n - 1) : e[i] \in S \ {k}
    BY <1>2, <1>4, <1>7 DEF Lists, n
<1>10. \A x \in S \ {k} : \E i \in 1..(n - 1) : e[i] = x
  <2> SUFFICES ASSUME NEW x \in S \ {k}
               PROVE  \E i \in 1..(n - 1) : e[i] = x
    OBVIOUS
  <2>1. PICK m \in 1..n : list[m] = x
    BY DEF Lists, n
  <2>2. m # p
    BY <1>2, <2>1
  <2>3. CASE m < p
    BY <1>1, <1>2, <1>3, <2>1, <2>3
  <2>4. CASE m > p
    <3>1. m - 1 \in 1..(n - 1) /\ ~(m - 1 < p) /\ (m - 1) + 1 = m
        BY <1>1, <1>2, <2>4
    <3>2. e[m - 1] = list[m]
        BY <1>3, <3>1
    <3> QED
        BY <2>1, <3>1, <3>2
  <2> QED
    BY <1>1, <1>2, <2>2, <2>3, <2>4
<1>11. Lists(e, S \ {k})
    BY <1>6, <1>8, <1>9, <1>10 DEF Lists
<1>12. Ordered(e, rec)
  <2> SUFFICES ASSUME NEW i \in 1..(n - 1), NEW j \in 1..(n - 1), i < j
               PROVE  <<e[i], e[j]>> \in rec
    BY <1>6 DEF Ordered
  <2>1. (IF i < p THEN i ELSE i + 1) < (IF j < p THEN j ELSE j + 1)
    BY <1>1, <1>2
  <2>2. \A a, b \in 1..n : a < b => <<list[a], list[b]>> \in rec
    BY DEF Ordered, n
  <2> QED
    BY <1>4, <2>1, <2>2
<1> QED
    BY <1>11, <1>12 DEF e

\* Moving a key to the front makes it the one used last (cache.cpp:39).
LEMMA MoveToFrontFacts ==
    ASSUME NEW S \in SUBSET Keys, NEW list, Lists(list, S), NEW k \in S,
           Ordered(list, recency)
    PROVE  /\ Lists(MoveToFront(k, list), S)
           /\ Ordered(MoveToFront(k, list), Used(k))
<1> DEFINE p == PositionOf(k, list)
           n == Len(list)
           e == MoveToFront(k, list)
           from(i) == IF i = 1 THEN p ELSE IF i <= p THEN i - 1 ELSE i
<1>1. n \in Nat /\ list \in [1..n -> Keys]
    BY LenProperties DEF Lists
<1>2. p \in 1..n /\ list[p] = k
    BY PositionFacts
<1>3. e = [i \in 1..n |-> IF i = 1 THEN k
                          ELSE IF i <= p THEN list[i - 1] ELSE list[i]]
    BY DEF MoveToFront
<1> HIDE DEF p, n, e
<1>4. \A i \in 1..n : e[i] = list[from(i)] /\ from(i) \in 1..n
    BY <1>1, <1>2, <1>3
<1>5. \A i, j \in 1..n : from(i) = from(j) => i = j
    BY <1>1, <1>2
<1>6. \A m \in 1..n : \E i \in 1..n : from(i) = m
  <2> SUFFICES ASSUME NEW m \in 1..n PROVE \E i \in 1..n : from(i) = m
    OBVIOUS
  <2>1. CASE m = p
    BY <1>1, <2>1
  <2>2. CASE m < p
    <3>1. m + 1 \in 1..n /\ from(m + 1) = m
        BY <1>1, <1>2, <2>2
    <3> QED
        BY <3>1
  <2>3. CASE m > p
    <3>1. from(m) = m
        BY <1>1, <1>2, <2>3
    <3> QED
        BY <3>1
  <2> QED
    BY <1>1, <1>2, <2>1, <2>2, <2>3
<1>7. \A i \in 1..n : i # 1 => from(i) # p
    BY <1>1, <1>2
<1>8. \A i, j \in 1..n : i < j /\ i # 1 => from(i) < from(j)
    BY <1>1, <1>2
<1> HIDE DEF from
<1>9. e \in [1..n -> Keys]
    BY <1>1, <1>3, <1>4
<1>10. e \in Seq(Keys) /\ Len(e) = n
    BY <1>1, <1>9, FunctionIsSeq
<1>11. \A i, j \in 1..n : list[i] = list[j] => i = j
    BY DEF Lists, n
<1>12. \A i, j \in 1..n : e[i] = e[j] => i = j
    BY <1>4, <1>5, <1>11
<1>13. \A i \in 1..n : e[i] \in S
    BY <1>4 DEF Lists, n
<1>14. \A x \in S : \E i \in 1..n : e[i] = x
  <2> SUFFICES ASSUME NEW x \in S PROVE \E i \in 1..n : e[i] = x
    OBVIOUS
  <2>1. PICK m \in 1..n : list[m] = x
    BY DEF Lists, n
  <2>2. PICK i \in 1..n : from(i) = m
    BY <1>6
  <2> QED
    BY <1>4, <2>1, <2>2
<1>15. Lists(e, S)
    BY <1>10, <1>12, <1>13, <1>14 DEF Lists
<1>16. Ordered(e, Used(k))
  <2> SUFFICES ASSUME NEW i \in 1..n, NEW j \in 1..n, i < j
               PROVE  <<e[i], e[j]>> \in Used(k)
    BY <1>10 DEF Ordered
  <2>1. e[i] \in Keys /\ e[j] \in Keys /\ e[j] # k
    BY <1>1, <1>2, <1>4, <1>7, <1>11, <1>13
  <2>2. CASE i = 1
    <3>1. e[i] = k
        BY <1>3, <2>2
    <3> QED
        BY <2>1, <3>1 DEF Used
  <2>3. CASE i # 1
    <3>1. e[i] # k
        BY <1>2, <1>4, <1>7, <1>11, <2>3
    <3>2. from(i) < from(j)
        BY <1>8, <2>3
    <3>3. <<e[i], e[j]>> \in recency
        BY <1>4, <3>2 DEF Ordered, n
    <3> QED
        BY <2>1, <3>1, <3>3 DEF Used
  <2> QED
    BY <2>2, <2>3
<1> QED
    BY <1>15, <1>16 DEF e

\* Dropping the last key of the list (cache.cpp:67).
LEMMA PopBackFacts ==
    ASSUME NEW S, NEW list, Lists(list, S), Len(list) # 0,
           NEW rec, Ordered(list, rec)
    PROVE  /\ list[Len(list)] \in S
           /\ Lists(PopBack(list), S \ {list[Len(list)]})
           /\ Ordered(PopBack(list), rec)
<1> DEFINE n == Len(list)
           e == PopBack(list)
<1>1. n \in Nat \ {0} /\ list \in [1..n -> Keys]
    BY LenProperties DEF Lists
<1>2. e = [i \in 1..(n - 1) |-> list[i]]
    BY DEF PopBack
<1> HIDE DEF n, e
<1>3. e \in [1..(n - 1) -> Keys] /\ n - 1 \in Nat
    BY <1>1, <1>2
<1>4. e \in Seq(Keys) /\ Len(e) = n - 1
    BY <1>3, FunctionIsSeq
<1>5. /\ \A i, j \in 1..n : list[i] = list[j] => i = j
      /\ \A i \in 1..n : list[i] \in S
      /\ \A x \in S : \E i \in 1..n : list[i] = x
    BY DEF Lists, n
<1>6. \A i \in 1..(n - 1) : i \in 1..n /\ i # n /\ e[i] = list[i]
    BY <1>1, <1>2
<1>7. Lists(e, S \ {list[n]})
  <2>1. \A i, j \in 1..(n - 1) : e[i] = e[j] => i = j
    BY <1>5, <1>6
  <2>2. \A i \in 1..(n - 1) : e[i] \in S \ {list[n]}
    BY <1>1, <1>5, <1>6
  <2>3. \A x \in S \ {list[n]} : \E i \in 1..(n - 1) : e[i] = x
    <3> SUFFICES ASSUME NEW x \in S \ {list[n]}
                 PROVE  \E i \in 1..(n - 1) : e[i] = x
        OBVIOUS
    <3>1. PICK i \in 1..n : list[i] = x
        BY <1>5
    <3>2. i \in 1..(n - 1)
        BY <1>1, <3>1
    <3> QED
        BY <1>6, <3>1, <3>2
  <2> QED
    BY <1>4, <2>1, <2>2, <2>3 DEF Lists
<1>8. Ordered(e, rec)
    BY <1>4, <1>6 DEF Ordered, n
<1>9. list[n] \in S
    BY <1>1, <1>5
<1> QED
    BY <1>7, <1>8, <1>9 DEF e, n

\* A new key goes to the front as the one used last (cache.cpp:70).
LEMMA PushFrontFacts ==
    ASSUME NEW S \in SUBSET Keys, NEW list, Lists(list, S),
           NEW k \in Keys \ S, Ordered(list, recency)
    PROVE  /\ Lists(PushFront(k, list), S \cup {k})
           /\ Ordered(PushFront(k, list), Used(k))
<1> DEFINE n == Len(list)
           e == PushFront(k, list)
<1>1. n \in Nat /\ list \in [1..n -> Keys]
    BY LenProperties DEF Lists
<1>2. e = [i \in 1..(n + 1) |-> IF i = 1 THEN k ELSE list[i - 1]]
    BY DEF PushFront
<1> HIDE DEF n, e
<1>3. e \in [1..(n + 1) -> Keys] /\ n + 1 \in Nat
    BY <1>1, <1>2
<1>4. e \in Seq(Keys) /\ Len(e) = n + 1
    BY <1>3, FunctionIsSeq
<1>5. /\ \A i, j \in 1..n : list[i] = list[j] => i = j
      /\ \A i \in 1..n : list[i] \in S
      /\ \A x \in S : \E i \in 1..n : list[i] = x
    BY DEF Lists, n
<1>6. /\ e[1] = k
      /\ \A i \in 1..(n + 1) : i # 1 => i - 1 \in 1..n /\ e[i] = list[i - 1]
    BY <1>1, <1>2
<1>7. \A i \in 1..(n + 1) : i # 1 => e[i] \in S /\ e[i] # k
    BY <1>5, <1>6
<1>8. Lists(e, S \cup {k})
  <2>1. \A i, j \in 1..(n + 1) : e[i] = e[j] => i = j
    <3> SUFFICES ASSUME NEW i \in 1..(n + 1), NEW j \in 1..(n + 1), e[i] = e[j]
                 PROVE  i = j
        OBVIOUS
    <3>1. CASE i = 1 \/ j = 1
        BY <1>6, <1>7, <3>1
    <3>2. CASE i # 1 /\ j # 1
      <4>1. i - 1 = j - 1
        BY <1>5, <1>6, <3>2
      <4> QED
        BY <1>1, <4>1
    <3> QED
        BY <3>1, <3>2
  <2>2. \A i \in 1..(n + 1) : e[i] \in S \cup {k}
    BY <1>6, <1>7
  <2>3. \A x \in S \cup {k} : \E i \in 1..(n + 1) : e[i] = x
    <3>1. 1 \in 1..(n + 1)
        BY <1>1
    <3>2. ASSUME NEW x \in S PROVE \E i \in 1..(n + 1) : e[i] = x
      <4>1. PICK i \in 1..n : list[i] = x
        BY <1>5
      <4>2. i + 1 \in 1..(n + 1) /\ i + 1 # 1 /\ (i + 1) - 1 = i
        BY <1>1
      <4>3. e[i + 1] = x
        BY <1>2, <4>1, <4>2
      <4> QED
        BY <4>2, <4>3
    <3> QED
        BY <1>6, <3>1, <3>2
  <2> QED
    BY <1>4, <2>1, <2>2, <2>3 DEF Lists
<1>9. Ordered(e, Used(k))
  <2> SUFFICES ASSUME NEW i \in 1..(n + 1), NEW j \in 1..(n + 1), i < j
               PROVE  <<e[i], e[j]>> \in Used(k)
    BY <1>4 DEF Ordered
  <2>1. j # 1
    BY <1>1
  <2>2. e[j] \in Keys /\ e[j] # k
    BY <1>7, <2>1
  <2>3. CASE i = 1
    BY <1>6, <2>2, <2>3 DEF Used
  <2>4. CASE i # 1
    <3>1. i - 1 < j - 1
        BY <1>1
    <3>2. <<e[i], e[j]>> \in recency
        BY <1>6, <2>1, <2>4, <3>1 DEF Ordered, n
    <3>3. e[i] # k
        BY <1>7, <2>4
    <3> QED
        BY <2>2, <3>2, <3>3 DEF Used
  <2> QED
    BY <2>3, <2>4
<1> QED
    BY <1>8, <1>9 DEF e

-----------------------------------------------------------------------------
(* The invariant.                                                          *)

\* What is cached is what was stored last, with its deadline.
StoredMatches ==
    \A k \in DOMAIN table :
        /\ stored[k].at \in Nat /\ stored[k].at <= clock
        /\ stored[k].ttl \in Nat
        /\ table[k].response = stored[k].response
        /\ table[k].policy_generation = stored[k].generation
        /\ table[k].expires_at = stored[k].at + Clamp(stored[k].ttl)

IInv ==
    /\ TypeOK
    /\ stored = [k \in Keys |-> stored[k]]
    /\ IsFiniteSet(DOMAIN table)
    /\ CapacityBound
    /\ Lists(lru_order, DOMAIN table)
    /\ Ordered(lru_order, recency)
    /\ StoredMatches

LEMMA ClampFacts ==
    ASSUME NEW ttl \in Nat
    PROVE  /\ Clamp(ttl) \in Nat
           /\ \A age \in Nat :
                age < Clamp(ttl) <=> age < MaxTtl /\ (age < ttl \/ age < MinTtl)
BY CacheAssumption DEF Clamp

LEMMA NewEntryFacts ==
    ASSUME TypeOK, NEW r \in Responses, NEW ttl \in Ttls, NEW g \in Generations
    PROVE  /\ NewEntry(r, ttl, g) \in Entries
           /\ NewEntry(r, ttl, g).response = r
           /\ NewEntry(r, ttl, g).policy_generation = g
           /\ NewEntry(r, ttl, g).expires_at = clock + Clamp(ttl)
<1>1. ttl \in Nat /\ g \in Nat /\ clock \in Nat
    BY UseAssumption DEF TypeOK
<1>2. clock + Clamp(ttl) \in Nat
    BY <1>1, ClampFacts
<1> QED
    BY <1>1, <1>2 DEF NewEntry, Entries

\* The types of the table, its matching what was stored, and its list in
\* order: the part of the invariant that an insert changes as a whole.
LEMMA StoringKeepsInvariant ==
    ASSUME IInv, NEW k \in Keys, NEW r \in Responses, NEW ttl \in Ttls,
           NEW g \in Generations, NEW t,
           DOMAIN t \subseteq DOMAIN table,
           \A x \in DOMAIN t : t[x] = table[x],
           table' = With(k, NewEntry(r, ttl, g), t),
           Lists(lru_order', DOMAIN t \cup {k}),
           Ordered(lru_order', recency'),
           Cardinality(DOMAIN t \cup {k}) <= MaxEntries,
           stored' = [stored EXCEPT ![k] =
                        [response |-> r, at |-> clock, ttl |-> ttl,
                         generation |-> g]],
           clock' = clock
    PROVE  IInv'
<1> DEFINE new == [response |-> r, at |-> clock, ttl |-> ttl, generation |-> g]
<1>1. /\ DOMAIN table' = DOMAIN t \cup {k}
      /\ table'[k] = NewEntry(r, ttl, g)
      /\ \A x \in DOMAIN table' : x # k => x \in DOMAIN table /\ table'[x] = table[x]
      /\ table' = [x \in DOMAIN table' |-> table'[x]]
    BY DEF With
<1>2. TypeOK'
  <2>1. \A x \in DOMAIN table' : table'[x] \in Entries
    BY <1>1, NewEntryFacts DEF IInv, TypeOK
  <2>2. DOMAIN table' \subseteq Keys
    BY <1>1 DEF IInv, TypeOK
  <2>3. lru_order' \in Seq(Keys)
    BY DEF Lists
  <2>4. clock' \in Nat
    BY DEF IInv, TypeOK
  <2> QED
    BY <1>1, <2>1, <2>2, <2>3, <2>4 DEF TypeOK
<1>3. /\ stored' = [x \in Keys |-> stored'[x]]
      /\ stored'[k] = new
      /\ \A x \in Keys : x # k => stored'[x] = stored[x]
    BY DEF IInv
<1>4. IsFiniteSet(DOMAIN table')
  <2>1. IsFiniteSet(DOMAIN t)
    BY FS_Subset DEF IInv
  <2> QED
    BY <1>1, <2>1, FS_AddElement
<1>5. StoredMatches'
  <2> SUFFICES ASSUME NEW x \in DOMAIN table'
               PROVE  /\ stored'[x].at \in Nat /\ stored'[x].at <= clock'
                      /\ stored'[x].ttl \in Nat
                      /\ table'[x].response = stored'[x].response
                      /\ table'[x].policy_generation = stored'[x].generation
                      /\ table'[x].expires_at
                            = stored'[x].at + Clamp(stored'[x].ttl)
    BY DEF StoredMatches, Clamp
  <2>1. CASE x = k
    <3>1. clock \in Nat /\ ttl \in Nat /\ clock' = clock
        BY UseAssumption DEF IInv, TypeOK
    <3>2. stored'[x] = new /\ table'[x] = NewEntry(r, ttl, g)
        BY <1>1, <1>3, <2>1
    <3>3. /\ new.at = clock /\ new.ttl = ttl
          /\ new.response = r /\ new.generation = g
        OBVIOUS
    <3>4. /\ NewEntry(r, ttl, g).response = r
          /\ NewEntry(r, ttl, g).policy_generation = g
          /\ NewEntry(r, ttl, g).expires_at = clock + Clamp(ttl)
        BY NewEntryFacts DEF IInv
    <3> HIDE DEF new
    <3> QED
        BY <3>1, <3>2, <3>3, <3>4
  <2>2. CASE x # k
    <3>1. x \in DOMAIN table /\ x \in Keys
        BY <1>1, <2>2 DEF IInv, TypeOK
    <3>2. table'[x] = table[x] /\ stored'[x] = stored[x]
        BY <1>1, <1>3, <2>2, <3>1
    <3> QED
        BY <3>1, <3>2 DEF IInv, StoredMatches
  <2> QED
    BY <2>1, <2>2
<1>6. CapacityBound'
    BY <1>1 DEF CapacityBound
<1> QED
    BY <1>1, <1>2, <1>3, <1>4, <1>5, <1>6 DEF IInv

\* An entry found stale leaves the table and the list.
LEMMA ErasingKeepsInvariant ==
    ASSUME IInv, NEW k \in Keys, NEW g, LookupStale(k, g),
           recency' = recency, UNCHANGED <<clock, stored>>
    PROVE  IInv'
<1> USE DEF IInv
<1>1. /\ k \in DOMAIN table
      /\ table' = Without(k)
      /\ lru_order' = Erase(k, lru_order)
    BY DEF LookupStale, Cached
<1>2. /\ DOMAIN table' = DOMAIN table \ {k}
      /\ \A x \in DOMAIN table' : table'[x] = table[x]
      /\ table' \in [DOMAIN table' -> Entries]
    BY <1>1 DEF Without, TypeOK
<1>3. Lists(lru_order', DOMAIN table') /\ Ordered(lru_order', recency')
    BY <1>1, <1>2, EraseFacts
<1>4. TypeOK'
    BY <1>2, <1>3 DEF TypeOK, Lists
<1>5. IsFiniteSet(DOMAIN table') /\ CapacityBound'
  <2>1. /\ IsFiniteSet(DOMAIN table')
        /\ Cardinality(DOMAIN table') <= Cardinality(DOMAIN table)
    BY <1>2, FS_Subset
  <2>2. Cardinality(DOMAIN table') \in Nat /\ Cardinality(DOMAIN table) \in Nat
    BY <2>1, FS_CardinalityType
  <2> QED
    BY <2>1, <2>2, CacheAssumption DEF CapacityBound
<1>6. StoredMatches'
    BY <1>2 DEF StoredMatches, Clamp
<1> QED
    BY <1>3, <1>4, <1>5, <1>6

\* A hit only moves its key to the front.
LEMMA HittingKeepsInvariant ==
    ASSUME IInv, NEW k \in Keys, NEW g, LookupHit(k, g),
           recency' = Used(k), UNCHANGED <<clock, stored>>
    PROVE  IInv'
<1> USE DEF IInv
<1>1. /\ k \in DOMAIN table
      /\ table' = table
      /\ lru_order' = MoveToFront(k, lru_order)
    BY DEF LookupHit, Cached
<1>2. Lists(lru_order', DOMAIN table') /\ Ordered(lru_order', recency')
    BY <1>1, MoveToFrontFacts DEF TypeOK
<1>3. TypeOK'
    BY <1>1, <1>2 DEF TypeOK, Lists
<1>4. CapacityBound' /\ StoredMatches'
    BY <1>1 DEF CapacityBound, StoredMatches, Clamp
<1> QED
    BY <1>1, <1>2, <1>3, <1>4

\* The entry an eviction drops: the last of the list, which is in the table.
LEMMA EvictionFacts ==
    ASSUME IInv, Cardinality(DOMAIN table) >= MaxEntries
    PROVE  LET oldest == lru_order[Len(lru_order)] IN
           /\ Len(lru_order) # 0
           /\ oldest \in DOMAIN table
           /\ Cardinality(DOMAIN table) = MaxEntries
           /\ Cardinality(DOMAIN table \ {oldest}) = MaxEntries - 1
           /\ \A y \in DOMAIN table \ {oldest} : <<y, oldest>> \in recency
<1> DEFINE n == Len(lru_order)
           oldest == lru_order[n]
<1>1. Cardinality(DOMAIN table) = MaxEntries /\ MaxEntries \in Nat \ {0}
  <2>1. Cardinality(DOMAIN table) \in Nat
    BY FS_CardinalityType DEF IInv
  <2> QED
    BY <2>1, CacheAssumption DEF IInv, CapacityBound
<1>2. PICK x \in DOMAIN table : TRUE
    BY <1>1, FS_EmptySet
<1>3. n \in Nat
    BY LenProperties DEF IInv, Lists
<1>4. n # 0
  <2>1. \E i \in 1..n : lru_order[i] = x
    BY DEF IInv, Lists
  <2> QED
    BY <1>3, <2>1
<1>5. oldest \in DOMAIN table
    BY <1>3, <1>4 DEF IInv, Lists
<1>6. Cardinality(DOMAIN table \ {oldest}) = MaxEntries - 1
    BY <1>1, <1>5, FS_RemoveElement DEF IInv
<1>7. \A y \in DOMAIN table \ {oldest} : <<y, oldest>> \in recency
  <2> SUFFICES ASSUME NEW y \in DOMAIN table \ {oldest}
               PROVE  <<y, oldest>> \in recency
    OBVIOUS
  <2>1. PICK i \in 1..n : lru_order[i] = y
    BY DEF IInv, Lists
  <2>2. i < n
    BY <1>3, <2>1
  <2>3. n \in 1..n
    BY <1>3, <1>4
  <2> QED
    BY <2>1, <2>2, <2>3 DEF IInv, Ordered
<1> QED
    BY <1>1, <1>4, <1>5, <1>6, <1>7

\* Each way an insert can go stores its key.
LEMMA InsertKeepsInvariant ==
    ASSUME IInv, NEW k \in Keys, NEW r \in Responses, NEW ttl \in Ttls,
           NEW g \in Generations, DoInsert(k, r, ttl, g)
    PROVE  IInv'
<1>1. /\ recency' = Used(k)
      /\ clock' = clock
      /\ stored' = [stored EXCEPT ![k] =
            [response |-> r, at |-> clock, ttl |-> ttl, generation |-> g]]
    BY DEF DoInsert
<1>2. DOMAIN table \subseteq Keys /\ table = [x \in DOMAIN table |-> table[x]]
    BY DEF IInv, TypeOK
<1>3. Cardinality(DOMAIN table) \in Nat /\ MaxEntries \in Nat \ {0}
    BY FS_CardinalityType, CacheAssumption DEF IInv
<1>4. CASE InsertUpdate(k, r, ttl, g)
  <2>1. /\ k \in DOMAIN table
        /\ table' = With(k, NewEntry(r, ttl, g), table)
        /\ lru_order' = MoveToFront(k, lru_order)
    BY <1>4 DEF InsertUpdate, Cached
  <2>2. DOMAIN table \cup {k} = DOMAIN table
    BY <2>1
  <2>3. Lists(lru_order', DOMAIN table) /\ Ordered(lru_order', recency')
    BY <1>1, <1>2, <2>1, MoveToFrontFacts DEF IInv
  <2>4. Cardinality(DOMAIN table) <= MaxEntries
    BY DEF IInv, CapacityBound
  <2> QED
    BY <1>1, <2>1, <2>2, <2>3, <2>4, StoringKeepsInvariant
<1>5. CASE InsertNew(k, r, ttl, g)
  <2>1. /\ k \in Keys \ DOMAIN table
        /\ ~(Cardinality(DOMAIN table) >= MaxEntries)
        /\ table' = With(k, NewEntry(r, ttl, g), table)
        /\ lru_order' = PushFront(k, lru_order)
    BY <1>5 DEF InsertNew, Cached
  <2>2. /\ Lists(lru_order', DOMAIN table \cup {k})
        /\ Ordered(lru_order', recency')
    BY <1>1, <1>2, <2>1, PushFrontFacts DEF IInv
  <2>3. Cardinality(DOMAIN table \cup {k}) = Cardinality(DOMAIN table) + 1
    BY <2>1, FS_AddElement DEF IInv
  <2>4. Cardinality(DOMAIN table \cup {k}) <= MaxEntries
    BY <1>3, <2>1, <2>3
  <2> QED
    BY <1>1, <2>1, <2>2, <2>4, StoringKeepsInvariant
<1>6. CASE InsertEvict(k, r, ttl, g)
  <2> DEFINE oldest == lru_order[Len(lru_order)]
  <2>1. /\ k \in Keys \ DOMAIN table
        /\ Cardinality(DOMAIN table) >= MaxEntries
        /\ table' = With(k, NewEntry(r, ttl, g), Without(oldest))
        /\ lru_order' = PushFront(k, PopBack(lru_order))
    BY <1>6 DEF InsertEvict, Cached
  <2>2. /\ Len(lru_order) # 0
        /\ oldest \in DOMAIN table
        /\ Cardinality(DOMAIN table \ {oldest}) = MaxEntries - 1
    BY <2>1, EvictionFacts
  <2> HIDE DEF oldest
  <2>3. /\ DOMAIN Without(oldest) = DOMAIN table \ {oldest}
        /\ \A x \in DOMAIN Without(oldest) : Without(oldest)[x] = table[x]
    BY DEF Without
  <2>4. /\ Lists(PopBack(lru_order), DOMAIN table \ {oldest})
        /\ Ordered(PopBack(lru_order), recency)
    BY <2>2, PopBackFacts DEF IInv, oldest
  <2>5. /\ Lists(lru_order', (DOMAIN table \ {oldest}) \cup {k})
        /\ Ordered(lru_order', recency')
    BY <1>1, <1>2, <2>1, <2>4, PushFrontFacts
  <2>6. IsFiniteSet(DOMAIN table \ {oldest})
    BY FS_Subset DEF IInv
  <2>7. Cardinality((DOMAIN table \ {oldest}) \cup {k})
            = Cardinality(DOMAIN table \ {oldest}) + 1
    BY <2>1, <2>6, FS_AddElement
  <2>8. Cardinality((DOMAIN table \ {oldest}) \cup {k}) <= MaxEntries
    BY <1>3, <2>2, <2>7
  <2> QED
    BY <1>1, <2>1, <2>3, <2>5, <2>8, StoringKeepsInvariant
<1> QED
    BY <1>4, <1>5, <1>6 DEF DoInsert, Insert

\* An empty cache satisfies the invariant, at the start and after a clear.
LEMMA EmptyFacts ==
    ASSUME NEW t, t = [k \in {} |-> 0]
    PROVE  /\ DOMAIN t = {} /\ t \in [DOMAIN t -> Entries]
           /\ IsFiniteSet(DOMAIN t) /\ Cardinality(DOMAIN t) <= MaxEntries
           /\ Lists(<<>>, DOMAIN t)
           /\ \A rec : Ordered(<<>>, rec)
<1>1. DOMAIN t = {} /\ t \in [DOMAIN t -> Entries]
    OBVIOUS
<1>2. IsFiniteSet(DOMAIN t) /\ Cardinality(DOMAIN t) = 0
    BY <1>1, FS_EmptySet
<1>3. <<>> \in Seq(Keys) /\ Len(<<>>) = 0
    BY EmptySeq
<1>4. 1..0 = {}
    OBVIOUS
<1> QED
    BY <1>1, <1>2, <1>3, <1>4, CacheAssumption DEF Lists, Ordered

LEMMA InvariantInitially == Init => IInv
<1> SUFFICES ASSUME Init PROVE IInv
    OBVIOUS
<1>1. table = [k \in {} |-> 0] /\ lru_order = <<>> /\ clock = 0
    BY DEF Init, CacheInit
<1>2. stored = [k \in Keys |-> stored[k]]
    BY DEF Init
<1>3. <<>> \in Seq(Keys)
    BY EmptySeq
<1> QED
    BY <1>1, <1>2, <1>3, EmptyFacts
       DEF IInv, TypeOK, CapacityBound, StoredMatches

LEMMA InvariantKept == IInv /\ [Next]_vars => IInv'
<1> SUFFICES ASSUME IInv, [Next]_vars PROVE IInv'
    OBVIOUS
<1>1. ASSUME NEW k \in Keys, NEW g \in Generations, DoLookup(k, g)
      PROVE  IInv'
  <2>1. CASE LookupAbsent(k)
    <3>1. UNCHANGED <<table, lru_order, recency, clock, stored>>
        BY <1>1, <2>1 DEF DoLookup, LookupAbsent
    <3> QED
        BY <3>1 DEF IInv, TypeOK, CapacityBound, StoredMatches, Clamp
  <2>2. CASE LookupStale(k, g)
    <3>1. recency' = recency /\ UNCHANGED <<clock, stored>>
        BY <1>1, <2>2 DEF DoLookup, LookupStale
    <3> QED
        BY <2>2, <3>1, ErasingKeepsInvariant
  <2>3. CASE LookupHit(k, g)
    <3>1. recency' = Used(k) /\ UNCHANGED <<clock, stored>>
        BY <1>1, <2>3 DEF DoLookup, LookupHit
    <3> QED
        BY <2>3, <3>1, HittingKeepsInvariant
  <2> QED
    BY <1>1, <2>1, <2>2, <2>3 DEF DoLookup, Lookup
<1>2. CASE DoClear
  <2>1. /\ table' = [k \in {} |-> 0] /\ lru_order' = <<>>
        /\ UNCHANGED <<clock, recency, stored>>
    BY <1>2 DEF DoClear, Clear
  <2>2. <<>> \in Seq(Keys)
    BY EmptySeq
  <2> QED
    BY <2>1, <2>2, EmptyFacts DEF IInv, TypeOK, CapacityBound, StoredMatches
<1>3. CASE Tick
  <2>1. /\ UNCHANGED <<table, lru_order, recency, stored>>
        /\ clock' \in Nat /\ clock' >= clock
    BY <1>3 DEF Tick, cache_vars, IInv, TypeOK
  <2>2. StoredMatches'
    BY <2>1 DEF IInv, TypeOK, StoredMatches, Clamp
  <2> QED
    BY <2>1, <2>2 DEF IInv, TypeOK, CapacityBound
<1>4. CASE UNCHANGED vars
    BY <1>4 DEF vars, cache_vars, IInv, TypeOK, CapacityBound, StoredMatches,
                Clamp
<1> QED
    BY <1>1, <1>2, <1>3, <1>4, InsertKeepsInvariant DEF Next

-----------------------------------------------------------------------------
(* The results.                                                            *)

THEOREM InvariantHolds == Spec => []IInv
<1> QED
    BY InvariantInitially, InvariantKept, PTL DEF Spec

\* The cache's variables keep their types.
THEOREM TypeCorrect == Spec => []TypeOK
<1>1. IInv => TypeOK
    BY DEF IInv
<1> QED
    BY <1>1, InvariantHolds, PTL

\* table_ and lru_order_ hold the same keys, each once, after any calls.
THEOREM ListMirrorsTable == Spec => []LruMirrorsTable
<1>1. IInv => LruMirrorsTable
  <2> SUFFICES ASSUME IInv PROVE LruMirrorsTable
    OBVIOUS
  <2> DEFINE held == {lru_order[i] : i \in 1..Len(lru_order)}
  <2>1. Lists(lru_order, DOMAIN table)
    BY DEF IInv
  <2>2. \A i, j \in 1..Len(lru_order) : lru_order[i] = lru_order[j] => i = j
    BY <2>1 DEF Lists
  <2>3. \A x \in held : x \in DOMAIN table
    BY <2>1 DEF Lists
  <2>4. \A x \in DOMAIN table : x \in held
    BY <2>1 DEF Lists
  <2> QED
    BY <2>2, <2>3, <2>4 DEF LruMirrorsTable
<1> QED
    BY <1>1, InvariantHolds, PTL

\* max_entries_ is never exceeded.
THEOREM Bounded == Spec => []CapacityBound
<1>1. IInv => CapacityBound
    BY DEF IInv
<1> QED
    BY <1>1, InvariantHolds, PTL

\* lru_order_ is the order of last use.
THEOREM ListIsRecency == Spec => []LruIsRecency
<1>1. IInv => LruIsRecency
    BY DEF IInv, Ordered, LruIsRecency
<1> QED
    BY <1>1, InvariantHolds, PTL

\* An entry's deadline has not passed exactly when its last insert is fresh.
LEMMA DeadlineIsFreshness ==
    ASSUME IInv, NEW k \in DOMAIN table
    PROVE  /\ table[k].response = stored[k].response
           /\ table[k].policy_generation = stored[k].generation
           /\ ~(clock >= table[k].expires_at) <=> StillFresh(k)
<1> DEFINE age == clock - stored[k].at
           ttl == stored[k].ttl
<1>1. /\ stored[k].at \in Nat /\ stored[k].at <= clock /\ ttl \in Nat
      /\ table[k].response = stored[k].response
      /\ table[k].policy_generation = stored[k].generation
      /\ table[k].expires_at = stored[k].at + Clamp(ttl)
    BY DEF IInv, StoredMatches
<1>2. clock \in Nat
    BY DEF IInv, TypeOK
<1>3. age \in Nat
    BY <1>1, <1>2
<1>4. Clamp(ttl) \in Nat
    BY <1>1, ClampFacts
<1>5. ~(clock >= table[k].expires_at) <=> age < Clamp(ttl)
    BY <1>1, <1>2, <1>4
<1>6. age < Clamp(ttl) <=> age < MaxTtl /\ (age < ttl \/ age < MinTtl)
    BY <1>1, <1>3, ClampFacts
<1> QED
    BY <1>1, <1>5, <1>6 DEF StillFresh

\* A hit returns the latest insert of its key, under its generation and
\* not a second beyond its clamped TTL (cache.cpp:22-42, 48).
THEOREM HitsAreFresh == Spec => HitIsLatestInsert
<1> DEFINE Fresh ==
        \A k \in Keys, g \in Generations :
            LookupHit(k, g) =>
                /\ table[k].response = stored[k].response
                /\ g = stored[k].generation
                /\ StillFresh(k)
<1>1. IInv => Fresh
    BY DeadlineIsFreshness DEF LookupHit, Cached, Usable
<1>2. IInv /\ [Next]_vars => [Fresh]_vars
    BY <1>1
<1> QED
    BY <1>2, InvariantHolds, PTL DEF Spec, HitIsLatestInsert

\* A lookup erases only entries of another generation or beyond their
\* clamped TTL (cache.cpp:22-36, 48).
THEOREM ErasesStale == Spec => ErasesOnlyStale
<1> DEFINE Stale ==
        \A k \in Keys, g \in Generations :
            LookupStale(k, g) =>
                \/ g # stored[k].generation
                \/ ~StillFresh(k)
<1>1. IInv => Stale
    BY DeadlineIsFreshness DEF LookupStale, Cached, Usable
<1>2. IInv /\ [Next]_vars => [Stale]_vars
    BY <1>1
<1> QED
    BY <1>2, InvariantHolds, PTL DEF Spec, ErasesOnlyStale

\* An eviction drops the least recently used key, and nothing else is lost
\* by an insert (cache.cpp:53-80).
THEOREM EvictsOldest == Spec => EvictsOnlyLeastRecentlyUsed
<1> DEFINE Evicts ==
        \A x \in DOMAIN table \ DOMAIN table' :
            \A k \in Keys, r \in Responses, ttl \in Ttls, g \in Generations :
                DoInsert(k, r, ttl, g) =>
                    /\ Cardinality(DOMAIN table) = MaxEntries
                    /\ ~Cached(k)
                    /\ \A y \in DOMAIN table \ {x} : <<y, x>> \in recency
<1>1. IInv => Evicts
  <2> SUFFICES ASSUME IInv, NEW k \in Keys, NEW r \in Responses,
                      NEW ttl \in Ttls, NEW g \in Generations,
                      Insert(k, r, ttl, g)
               PROVE  \A x \in DOMAIN table \ DOMAIN table' :
                          /\ Cardinality(DOMAIN table) = MaxEntries
                          /\ k \notin DOMAIN table
                          /\ \A y \in DOMAIN table \ {x} : <<y, x>> \in recency
    BY DEF DoInsert, Cached
  <2>1. CASE InsertUpdate(k, r, ttl, g) \/ InsertNew(k, r, ttl, g)
    <3>1. DOMAIN table' = DOMAIN table \cup {k}
        BY <2>1 DEF InsertUpdate, InsertNew, With
    <3> QED
        BY <3>1
  <2>2. CASE InsertEvict(k, r, ttl, g)
    <3> DEFINE oldest == lru_order[Len(lru_order)]
    <3>1. /\ k \notin DOMAIN table
          /\ Cardinality(DOMAIN table) >= MaxEntries
          /\ DOMAIN table' = (DOMAIN table \ {oldest}) \cup {k}
        BY <2>2 DEF InsertEvict, Cached, With, Without
    <3>2. /\ Cardinality(DOMAIN table) = MaxEntries
          /\ \A y \in DOMAIN table \ {oldest} : <<y, oldest>> \in recency
        BY <3>1, EvictionFacts
    <3> HIDE DEF oldest
    <3> QED
        BY <3>1, <3>2
  <2> QED
    BY <2>1, <2>2 DEF Insert
<1>2. IInv /\ [Next]_vars => [Evicts]_vars
    BY <1>1
<1> QED
    BY <1>2, InvariantHolds, PTL DEF Spec, EvictsOnlyLeastRecentlyUsed

=============================================================================
