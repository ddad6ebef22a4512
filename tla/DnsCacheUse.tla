---------------------------- MODULE DnsCacheUse ----------------------------
(***************************************************************************)
(* DnsCache driven by any sequence of calls while time passes, with two    *)
(* histories the code does not keep: which key was used after which, and   *)
(* what was last stored under each key.                                    *)
(***************************************************************************)
EXTENDS DnsCache

CONSTANTS
    Generations,   \* policy generations callers pass
    Ttls,          \* TTLs callers pass
    MaxTime        \* bound: the clock stops here

ASSUME UseAssumption ==
    /\ Generations \subseteq Nat
    /\ Ttls \subseteq Nat
    /\ MaxTime \in Nat

VARIABLES
    recency,   \* history: <<k, x>> when k was last used after x was
    stored     \* history: the last insert of each key, with its time and TTL

vars == <<cache_vars, clock, recency, stored>>

NotStored == [response |-> "none"]

\* Now k is the key used last.
Used(k) ==
    {p \in recency : p[1] # k /\ p[2] # k} \cup ({k} \X (Keys \ {k}))

Init ==
    /\ CacheInit
    /\ clock = 0
    /\ recency = {}
    /\ stored = [k \in Keys |-> NotStored]

\* A lookup uses a key only when it returns the entry.
DoLookup(k, g) ==
    /\ Lookup(k, g)
    /\ recency' = IF Cached(k) /\ Usable(table[k], g) THEN Used(k) ELSE recency
    /\ UNCHANGED <<clock, stored>>

DoInsert(k, r, ttl, g) ==
    /\ Insert(k, r, ttl, g)
    /\ recency' = Used(k)
    /\ stored' = [stored EXCEPT ![k] =
            [response |-> r, at |-> clock, ttl |-> ttl, generation |-> g]]
    /\ UNCHANGED clock

DoClear == Clear /\ UNCHANGED <<clock, recency, stored>>

Tick ==
    /\ clock < MaxTime
    /\ clock' = clock + 1
    /\ UNCHANGED <<cache_vars, recency, stored>>

Next ==
    \/ \E k \in Keys, g \in Generations :
        \/ DoLookup(k, g)
        \/ \E r \in Responses, ttl \in Ttls : DoInsert(k, r, ttl, g)
    \/ DoClear
    \/ Tick

Spec == Init /\ [][Next]_vars

-----------------------------------------------------------------------------
\* Types of the variables the code keeps.
TypeOK ==
    /\ DOMAIN table \subseteq Keys
    /\ table \in [DOMAIN table -> Entries]
    /\ lru_order \in Seq(Keys)
    /\ clock \in Nat

\* table_ and lru_order_ hold the same keys, each once: no stored iterator
\* dangles and no eviction pops a key that is not there.
LruMirrorsTable ==
    /\ \A i, j \in 1..Len(lru_order) : lru_order[i] = lru_order[j] => i = j
    /\ {lru_order[i] : i \in 1..Len(lru_order)} = DOMAIN table

\* The cache never holds more than max_entries_ answers.
CapacityBound == Cardinality(DOMAIN table) <= MaxEntries

\* lru_order_ is the order of last use, through hits, in-place updates,
\* erasures in the middle and evictions.
LruIsRecency ==
    \A i, j \in 1..Len(lru_order) :
        i < j => <<lru_order[i], lru_order[j]>> \in recency

\* Whether the last insert of k is young enough to be served: it lives as
\* long as its TTL, but at least MinTtl and never as long as MaxTtl allows.
StillFresh(k) ==
    LET age == clock - stored[k].at IN
    /\ age < MaxTtl
    /\ age < stored[k].ttl \/ age < MinTtl

\* A hit returns exactly what was last inserted for that key, under the
\* generation asked for, and not a second beyond the clamped TTL: a TTL of 0
\* is served for MinTtl and no longer.
HitIsLatestInsert ==
    [][\A k \in Keys, g \in Generations :
        LookupHit(k, g) =>
            /\ table[k].response = stored[k].response
            /\ g = stored[k].generation
            /\ StillFresh(k)]_vars

\* The other half: a lookup erases an entry only when its last insert is of
\* another generation or has outlived its clamped TTL, so an answer of TTL 0
\* is kept for MinTtl and an update in place renews the deadline.
ErasesOnlyStale ==
    [][\A k \in Keys, g \in Generations :
        LookupStale(k, g) =>
            \/ g # stored[k].generation
            \/ ~StillFresh(k)]_vars

\* An insert costs at most one other key: the least recently used one, and
\* only when a new key finds the cache full.
EvictsOnlyLeastRecentlyUsed ==
    [][\A x \in DOMAIN table \ DOMAIN table' :
        \A k \in Keys, r \in Responses, ttl \in Ttls, g \in Generations :
            DoInsert(k, r, ttl, g) =>
                /\ Cardinality(DOMAIN table) = MaxEntries
                /\ ~Cached(k)
                /\ \A y \in DOMAIN table \ {x} : <<y, x>> \in recency]_vars

=============================================================================
