------------------------------ MODULE DnsCache ------------------------------
(***************************************************************************)
(* dataplane::engine::DnsCache (cache.h/.cpp): answers kept by name, type  *)
(* and class, each with a deadline and the policy generation it was stored *)
(* under, at most MaxEntries of them, the least recently used one making   *)
(* room for a new one.  Every operation holds mutex_ from start to end and *)
(* is one step.                                                            *)
(*                                                                         *)
(* Keys stand for what make_key builds (the three parts are joined by ":"  *)
(* and the last two are numbers, so distinct questions have distinct keys) *)
(* and a response is a token.  An iterator into lru_order_ is the position *)
(* of the key it points to.                                                *)
(***************************************************************************)
EXTENDS Integers, Sequences, FiniteSets

CONSTANTS
    Keys,          \* name:type:class strings
    Responses,     \* cached wire answers
    MaxEntries,    \* max_entries_ (10000 in main)
    MinTtl,        \* lower clamp of a TTL (1 second)
    MaxTtl         \* upper clamp of a TTL (86400 seconds)

\* back() and pop_back() on an empty list would be undefined: a cache of
\* capacity 0 is never built (main.cpp:98, the default argument and the
\* tests all pass a positive size).
ASSUME CacheAssumption ==
    /\ MaxEntries \in Nat \ {0}
    /\ MinTtl \in Nat /\ MaxTtl \in Nat /\ MinTtl <= MaxTtl

VARIABLES
    table,           \* table_, a function on the keys it holds
    lru_order,       \* lru_order_, most recently used first
    clock            \* steady_clock, in seconds

cache_vars == <<table, lru_order>>

Entries == [response : Responses, expires_at : Nat, policy_generation : Nat]

Cached(k) == k \in DOMAIN table

-----------------------------------------------------------------------------
(* std::list with iterators.                                               *)

PositionOf(k, list) == CHOOSE i \in 1..Len(list) : list[i] = k

\* list.erase(it)
Erase(k, list) ==
    LET p == PositionOf(k, list) IN
    [i \in 1..(Len(list) - 1) |-> IF i < p THEN list[i] ELSE list[i + 1]]

\* list.splice(list.begin(), list, it)
MoveToFront(k, list) ==
    LET p == PositionOf(k, list) IN
    [i \in 1..Len(list) |->
        IF i = 1 THEN k ELSE IF i <= p THEN list[i - 1] ELSE list[i]]

\* list.pop_back() and list.push_front(k)
PopBack(list) == [i \in 1..(Len(list) - 1) |-> list[i]]
PushFront(k, list) ==
    [i \in 1..(Len(list) + 1) |-> IF i = 1 THEN k ELSE list[i - 1]]

-----------------------------------------------------------------------------
\* Fault: the lower limit is forgotten.
ClampFromAbove(ttl) == IF ttl > MaxTtl THEN MaxTtl ELSE ttl

Clamp(ttl) ==
    IF ttl < MinTtl THEN MinTtl ELSE IF ttl > MaxTtl THEN MaxTtl ELSE ttl

\* Fault: the deadline is computed into the past.
NewEntryBackwards(response, ttl, generation) ==
    [response |-> response, expires_at |-> clock - Clamp(ttl),
     policy_generation |-> generation]

NewEntry(response, ttl, generation) ==
    [response |-> response, expires_at |-> clock + Clamp(ttl),
     policy_generation |-> generation]

Without(k) == [x \in DOMAIN table \ {k} |-> table[x]]
With(k, e, t) == [x \in DOMAIN t \cup {k} |-> IF x = k THEN e ELSE t[x]]

\* Fault: an entry is still returned at its deadline.
UsableAtDeadline(e, current_generation) ==
    /\ ~(clock > e.expires_at)
    /\ e.policy_generation = current_generation

\* An entry lookup may return: before its deadline and stored under the
\* generation that is current.
Usable(e, current_generation) ==
    /\ ~(clock >= e.expires_at)
    /\ e.policy_generation = current_generation

CacheInit ==
    /\ table = [k \in {} |-> 0]
    /\ lru_order = <<>>

\* nullopt: the key is not there.
LookupAbsent(k) ==
    /\ ~Cached(k)
    /\ UNCHANGED <<table, lru_order>>

\* Fault: the key of an erased entry stays in the list.
LookupStaleKeepingKey(k, current_generation) ==
    /\ Cached(k)
    /\ ~Usable(table[k], current_generation)
    /\ table' = Without(k)
    /\ UNCHANGED lru_order

\* nullopt: a deadline passed or another policy; the entry is erased.
LookupStale(k, current_generation) ==
    /\ Cached(k)
    /\ ~Usable(table[k], current_generation)
    /\ table' = Without(k)
    /\ lru_order' = Erase(k, lru_order)

\* Fault: a hit does not count as a use.
LookupHitUnpromoted(k, current_generation) ==
    /\ Cached(k)
    /\ Usable(table[k], current_generation)
    /\ UNCHANGED <<table, lru_order>>

\* table[k] is returned and becomes the most recently used entry.
LookupHit(k, current_generation) ==
    /\ Cached(k)
    /\ Usable(table[k], current_generation)
    /\ lru_order' = MoveToFront(k, lru_order)
    /\ UNCHANGED table

Lookup(k, current_generation) ==
    \/ LookupAbsent(k)
    \/ LookupStale(k, current_generation)
    \/ LookupHit(k, current_generation)

InsertUpdate(k, response, ttl, generation) ==
    /\ Cached(k)
    /\ table' = With(k, NewEntry(response, ttl, generation), table)
    /\ lru_order' = MoveToFront(k, lru_order)

\* Fault: the size is compared with > instead of >=.
InsertNewOneMore(k, response, ttl, generation) ==
    /\ ~Cached(k)
    /\ ~(Cardinality(DOMAIN table) > MaxEntries)
    /\ table' = With(k, NewEntry(response, ttl, generation), table)
    /\ lru_order' = PushFront(k, lru_order)

InsertNew(k, response, ttl, generation) ==
    /\ ~Cached(k)
    /\ ~(Cardinality(DOMAIN table) >= MaxEntries)
    /\ table' = With(k, NewEntry(response, ttl, generation), table)
    /\ lru_order' = PushFront(k, lru_order)

\* Fault: the front of the list is dropped, the most recently used key.
InsertEvictFront(k, response, ttl, generation) ==
    /\ ~Cached(k)
    /\ Cardinality(DOMAIN table) >= MaxEntries
    /\ table' = With(k, NewEntry(response, ttl, generation), Without(lru_order[1]))
    /\ lru_order' = PushFront(k, Tail(lru_order))

\* A full cache drops the key at the back of the list first.
InsertEvict(k, response, ttl, generation) ==
    /\ ~Cached(k)
    /\ Cardinality(DOMAIN table) >= MaxEntries
    /\ LET oldest_key == lru_order[Len(lru_order)] IN
       table' = With(k, NewEntry(response, ttl, generation), Without(oldest_key))
    /\ lru_order' = PushFront(k, PopBack(lru_order))

Insert(k, response, ttl, generation) ==
    \/ InsertUpdate(k, response, ttl, generation)
    \/ InsertNew(k, response, ttl, generation)
    \/ InsertEvict(k, response, ttl, generation)

Clear ==
    /\ table' = [k \in {} |-> 0]
    /\ lru_order' = <<>>

=============================================================================
