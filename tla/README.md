# A TLA+ model of the DNS security dataplane

This directory specifies the core of the repository in TLA+, checks it with TLC
on small instances and proves the safety properties with TLAPS for all
instances. File
references are to the repository (`main.cpp` is `dataplane/src/main.cpp`).

## 1. The system

A C++ process (the *dataplane*) answers DNS queries over UDP: it blocks names
by policy, answers from a cache, or forwards to an upstream resolver and relays
the answer. A Go process (the *control plane*) takes policies over HTTP and
hands them to the dataplane over a Unix socket.

    clients --UDP--> main loop --UDP--> upstream resolver
                      |  |  |
         policy store +  |  +-- forwarder (pending transactions)
               ^         +----- cache
               |
    operator --HTTP--> control plane --Unix socket--> IPC thread

Two threads run in the dataplane: the main thread (poll loop) and the IPC
thread. They share the policy store, and nothing else the model needs.

### Inventory

| component | state | operations | interacts with | hard behaviour | correct when |
|---|---|---|---|---|---|
| policy store, `SnapshotManager` | `active_snapshot_`, `global_generation_` (two atomics) | `apply_candidate`, `get_active_snapshot`, `current_generation` | written by the IPC thread and by `main()`, read by the main thread | no lock around the pair: check-then-store, store order, load order | never goes back; the pair is at most one policy apart; the two atomics act as one |
| `DnsCache` | `table_`, `lru_order_`, iterators between them | `lookup`, `insert`, `clear` | main thread | two structures in step; TTL and generation invalidation; eviction at the limit | an entry is served under its generation for exactly its clamped TTL; LRU order; capacity |
| `UpstreamForwarder` | `pending_tx_` | `forward_query`, `validate_response` | main thread, upstream socket | lost, late, repeated answers; id reuse; pruning; failed send | one answer per query, of its own question; bounded table |
| main loop | socket queues, the packet in hand | start-up seed, `poll`, decision, relay | all of the above | policy updates in the middle of a query or between query and answer | one fitting answer per query; no block bypassed; queue drains |
| `PolicySnapshot` | allow list, exact blocks, suffix trie | filling from a request, `evaluate` | IPC thread fills it, main thread reads it | precedence of three containers | a rule affects the names it covers only |
| `DomainSuffixTrie` | nodes, rule ids, `size_` | `insert`, `matches` | in the snapshot | overlapping, repeated, differently written suffixes | matches the reference definition |
| `DnsParser` | offset, hop count, consumed bytes | `parse`, `decode_name` | main loop, forwarder | compression pointers | terminates; reads type and class at the right place |
| `ResponseBuilder` | none | error replies, sinkhole reply, id translation | main loop | the question is copied by its length in place | the reply repeats the question and points at its name |
| `IpcServer` | listening socket, `running_`, worker thread | `start`, `stop`, GET_STATUS, APPLY_POLICY | policy store, control plane | one `read` per request, blocking calls, shutdown, SIGPIPE | replies tell what was installed; `stop()` returns |
| control plane | two counters, HTTP handlers | apply, status, health, metrics | IPC server | a goroutine per call, no time-out behind the dial, either process restarts | the operator is told the truth; counters balance; calls end |
| Aho-Corasick | nodes, links, `built_` | `insert`, `build`, `search` | benchmark only | links and inherited matches | finds the first pattern in a text |
| `PolicyEngine`, entropy | rules / none | | tests, log | | |

### Hard behaviours

`PROJECT.json` lists each at its line under `hazards`. In short: the policy
store is two atomics without a lock; queries, upstream answers and policy
updates interleave; the upstream path loses, repeats, delays and reorders; ids
and cache slots are scarce and reused; compression pointers can form cycles; an
IPC request can be cut off, its reply lost, and either process restarted while
calls are under way.

## 2. Modules

| module | models | code |
|---|---|---|
| `SnapshotManager` | the policy store; one step per atomic access | `atomic_snapshot.h/.cpp` |
| `PolicyRegister` | what the store promises: one register, installed in one step | abstract |
| `SnapshotManagerProofs` | proofs for every instance of the store | |
| `DnsCache` | the cache's operations, one step per (mutex-protected) call | `cache.h/.cpp` |
| `DnsCacheUse` | the cache under any sequence of calls, with histories | |
| `DnsCacheProofs` | proofs for every instance of the cache | |
| `UpstreamForwarder` | the pending table's operations, by outcome | `forwarder.h/.cpp` |
| `UpstreamForwarderUse` | the forwarder with an unreliable network and time | |
| `UpstreamForwarderProofs` | proofs for every instance of the forwarder | |
| `Dataplane` | the process: main loop and IPC thread over *instances* of the three modules above | `main.cpp`, `ipc_server.cpp:119-156` |
| `DataplaneProofs` | proofs for every instance of the process, over those of its parts | |
| `SuffixTrie` | the label trie | `suffix_trie.h/.cpp` |
| `PolicySnapshot` | a candidate being filled, and `evaluate` | `atomic_snapshot.h`, `ipc_server.cpp:119-140` |
| `PolicySnapshotProofs` | proofs for every set of rules and names, trie and automaton | |
| `DnsParser` | header checks, name decoding and question, a step per loop iteration | `parser.cpp` |
| `ResponseBuilder` | the built replies in bytes, read back with the parser | `response.cpp` |
| `DnsParserProofs` | proofs for every packet and limit, parser and replies | |
| `AhoCorasick` | the automaton of the benchmark | `aho_corasick.h/.cpp` |
| `MatcherComparison` | trie and automaton filled with the same rules | `benchmark_matcher_comparison.cpp` |
| `IpcRequest` | a request on the wire, one `read` of it, and key extraction | `main.go`, `ipc_server.cpp:63-117` |
| `IpcServer` | worker thread, `stop()`, sockets, the end of the process | `ipc_server.h/.cpp` |
| `ControlPlane` | HTTP handlers as goroutines, `sendIpcCommand`, counters | `controlplane/main.go` |
| `Management` | the three above with other clients, signals and restarts | |
| `ManagementTypes`, `ManagementProofs` | proofs for every instance of the management path | |
| `MC*` | values for TLC | |

**How state and actions correspond.** Variables keep the code's names without
the trailing underscore (`pending_tx`, `lru_order`, `active_snapshot`,
`bytes_consumed`). An operation with several outcomes is a disjunction of one
action per outcome (`ForwardSent`, `ForwardRefused`, `ForwardSendFails`).
Operators whose comment begins with "Fault:" are not part of any
specification: each is a plausible bug, put in the place of the definition that
follows it to see that the property meant to catch it does.

*Policy store.* `AcceptCandidate` is the load of the counter and both checks,
`StoreSnapshot` and `StoreGeneration` are the two stores; a reader's two loads
are `LoadSnapshot` and `LoadGeneration`. Generations are natural numbers: they
are 64-bit in the code and only compared. `OneEffectiveWriter` is an assumption
of the module, discharged by the program: the IPC thread serves one request at
a time, and the only other caller, `main()`, offers generation 1, which no
store accepts. `reset()`, for tests only, is not modelled.

*Cache.* An iterator into `lru_order_` is the position of its key. The clock is
a variable of the caller, so a TTL is a number of ticks. `insert` never sees a
capacity of 0 (an assumption: no caller passes it).

*Forwarder.* The network is the set `asked` of everything ever sent: each member
may be answered at any later time, any number of times or never, intact or
garbled, next to stray datagrams of every kind `validate_response` tells apart.
This covers loss, delay, duplication and reordering without a bag of packets.

*Main loop.* Each socket has a receive queue. The resolver puts a datagram into
`upstream_queue` when it pleases (`ResolverAnswers`), of anything it was ever
asked; `poll()` reports a socket exactly when something waits in it. The main
thread takes one step per access to the shared store:
`ReceiveQuery` loads the snapshot, and one of `AnswerBlocked`, `AnswerSinkhole`,
`AnswerFromCache`, `ForwardQuery` or `ForwardFails` loads the counter and does
the rest of the iteration; the IPC thread may act in between. `RelayResponse`
takes a datagram off the queue,
validates it, caches it under the counter's present value and class 1, and relays
it; `DropResponse` takes off one that is turned down. Stray datagrams, which
touch no state, are left to the forwarder's own run. The seed is a
`RejectCandidate` step: the store starts at generation 1 and the
seed has generation 1. Policies are reduced to the names they block; how rules
decide that is `PolicySnapshot`'s business. `answers` and `floor` are
histories: what each client got, and what generation was in force when it sent.

*Rules.* A domain is a sequence of labels, an empty label standing for nothing
between two dots; a trie node is the path to it. Since every container only
grows and starts empty, checking every state checks every policy.

*Automaton.* A node is the string that leads to it, so a transition appends a
character and a fail link is a proper suffix. The loops that follow links and the
breadth-first pass are recursive functions, `build()` and `search()` one step each:
only the benchmark calls them, from one thread.

*Parser and replies.* Offsets, header and checks are as in the code, with a
smaller packet limit, hop limit and name limit. A reply is built as bytes, and
the same parser then reads it from the start, as a resolver would; after the
question it decodes the owner of the answer record. `translate_txid` is part of
`Dataplane`, whose answers carry the id they end up with.

*Requests.* The JSON text is a sequence of tokens (quoted strings, numbers,
brackets), and one `read()` returns the first `MaxRead` of them. A token cut in two
counts as missing, as it does for a search for the closing quote. Extraction
is the search the code makes, a quoted key and then the next value of the right
kind, not a JSON parser; a list without its closing bracket is empty.

*Sockets.* Each client opens one connection, which has its name. `conn` is the
server's end, `left` the client's, `backlog` the queue in between; a dial fails when
nobody listens or the queue is full. A request larger than `MaxBuffer` waits in
`Write()` until the server has read. Writing to a client that is gone is
`KilledBySigpipe`: no handler is installed, so the process ends.

*Handlers.* A post is counted and decoded in `ReceivePost`. Each of the five failures
has a step that counts it (`RefuseMalformed`, `RefuseGeneration`, `RefuseHash`,
`CountIpcError`, `CountRollback`) and a later one that answers (`AnswerInvalid`,
`AnswerUnreachable`, `AnswerRollback`), as the handlers do; other goroutines, a scrape
or the end of the control plane may come in between. `Return` is the end of
`sendIpcCommand`, with an error or a reply.

*Processes.* `Restart` is a new dataplane with an empty policy, `Outage` a new control
plane whose open calls are lost and whose counters start at 0. Other programs on
the socket write nothing or no command. `applied`, `counted`, `acknowledged`,
`expected` and `stale` are histories: whose policy was installed, which posts were
counted, and what a caller may expect of the running dataplane. The policy store
is one variable pair here, because the worker is its only effective writer
(`SnapshotManagerProofs`) and the readers are in `Dataplane`.

## 3. Runs

| run | instance | question | states |
|---|---|---|---|
| `policy_store` | 2 writers (the IPC thread with five candidates: newer, much newer, stale, unhashed; `main` with its seed), 2 readers | does the unlocked pair behave as one register that never goes back? | 11 thousand |
| `cache` | 3 keys, capacity 2, 2 responses, 2 generations, clamp 1..3, TTLs 0, 2 and 9, 3 ticks | do table and list stay in step and in the order of use; is an entry served for its clamped TTL and generation, no longer and no shorter; who is evicted? | 279 thousand |
| `forwarder` | 3 queries, 2 of one name, 3 ids, 2 slots, 4 ticks | one answer per query, of its own question, under every network behaviour | 16 thousand |
| `dataplane` | 2 queries for one question, one for another name and type, 1 pending slot, 2 ids, one-entry cache, a blocking and a later unblocking policy | one answer each, with id, name and type of its packet; no bypass of an acknowledged block | 5.6 million |
| `dataplane_live` | 2 queries for one name, one for the sinkholed name and a malformed packet, a policy that blocks the name, upstream datagrams | does the queue drain, is a blocked name answered with NXDOMAIN although its answer is cached? | 303 thousand |
| `policy_rules` | 7 rules (overlapping, capital, trailing dot, only a dot), up to 3 suffixes and one name per list, 9 query names; the same suffixes in an automaton over 5 characters, built and extended in any order | do trie and automaton match their references; does a rule act on what it covers only? | 55 thousand |
| `parser` | two headers with every body of up to 5 bytes over 6 byte values, with and without type and class; headers wrong in one point; a packet too short and one too long | does parsing end, read the type behind the name, and do replies repeat the question? | 179 thousand |
| `management` | a small policy (or no JSON, no generation, no hash) and a large one that is cut inside its second list, a scrape or a query, a stop, an outage | is the operator told the truth, do counters balance, what remains of a cut request? | 1.5 million |
| `management_live` | both posts, another program, a stop, an outage | does every call end, does `stop()` return? | 216 thousand |

Properties, and what would break them, are stated in comments above each.
The most telling ones:

- `ImplementsRegister`: seen through the pointer, two unlocked atomics are one
  register (`PolicyRegister`) with an indivisible install.
- `ReaderSkewBounded`: a query whose two loads straddle an update pairs
  a snapshot with a counter at most one policy older.
- `LruIsRecency`, `EvictsOnlyLeastRecentlyUsed`: the cache against a history of uses
  the code does not keep.
- `HitIsLatestInsert`, `ErasesOnlyStale`: a hit is the last insert of its key while that
  is younger than its clamped TTL, and a lookup erases only what is not. Together
  they fix the life of an entry from both sides: a TTL of 0 lives for `MinTtl`, one
  above the clamp for `MaxTtl`, one in between for itself.
- `AnsweredAtMostOnce` (forwarder and, end to end, dataplane): repeated and late
  answers, id reuse, cache hits and SERVFAIL never give one packet two answers.
- `AnswerFitsQuery`: neither a cache slot another question filled nor an id another
  question was sent under puts a foreign question into an answer.
- `BlockedIsAnswered`: a name is forwarded or cached, then blocked; the next query for it
  gets NXDOMAIN, whatever the cache holds and the resolver still sends.
- `ResolvedOnlyIfAllowed`: a query sent after policy *g* was acknowledged is
  resolved, from cache or upstream, only if a policy at least as new as *g*
  allows it. Cache, store and loop must cooperate for this.
- `MatchesReference`, `RulesActLocally`: precedence and matching of rules.
- `Terminates`, `QuestionFollowsName`: the parser with arbitrary pointers.
- `ReplyRepeatsQuestion`: lengths, counts, flags and the answer's pointer of a
  built reply agree, so that it reads back as the question that was asked.
- `AutomatonFindsSubstrings`: first match, and the rule id it reports, over fail links
  that chain and matches that are inherited.
- `OperatorToldTruth`, `StatusSeesActivation`: two posts, lost replies, SIGPIPE and
  restarts never make ACTIVATED, ROLLBACK or INVALID false, nor a later status older.
- `CountersBalance`: a caller that was told of a failure is in the failure counter, one
  that was told ACTIVATED is not, and only posts still under way may be ahead of their
  answer. A path that forgets its increment breaks it.
- `ScrapeNeverOverstates`: two counters, loaded one after the other while goroutines
  change them.
- `CutDropsWholeLists`: a cut request installs whole lists or none of them.
- `CallsAnswered`, `StopReturns`: blocking calls on both sides of a socket.

### Violations: documents against code

Each of these runs checks one statement of the repository that the code does not
keep; `PROJECT.json` quotes it under `findings`.

| run | statement | what happens |
|---|---|---|
| `dataplane_unanswered` | SERVFAIL instead of hanging (`upstream-timeout.md`) | the resolver stays silent: a forwarded query is never answered, SERVFAIL goes out only when it cannot be forwarded |
| `management_truncated` | a truncated IPC buffer is rolled back (`corrupt-policy.md`) | a request longer than one `read()` is installed without its last lists and reported ACTIVATED |
| `management_sigpipe` | packet processing continues while policies are pushed (`ARTICLE.md`) | a control plane that dies before the reply takes the dataplane with it |

Further differences between text and code were met and have no run, because they
follow from one line each:

- `main.cpp:110` "Seed initial default policy rules": the seed has the generation
  the store starts with and is rejected; the result is ignored.
- `upstream-timeout.md`, ADR-001: answers after 1.5 s are dropped. The age is not
  checked when an answer arrives; pruning starts after 2 s, on the next forward.
- `main.cpp:229` caches every answer as class 1, so a class IN query may get the
  packet that answers a class CH question (README: an answer "echoes and validates
  question section"). `AnswerFitsQuery` leaves the class out for this reason.
- `response.cpp:10` "An error response echoes the 12-byte header and the question
  section": of the header only the id is repeated. A query whose name points into its own
  header is answered with a question that reads differently, or not at all, behind the
  new flags and counts. `ReplyRepeatsQuestion` is about names written out for this reason.
- `corrupt-policy.md`: the daemon normalizes domains. Exact and allow rules are
  compared as they were sent; in capitals they never apply.
- ADR-004: an entry records the generation "at which it was evaluated". It records
  the one at which the answer arrives (harmless, by `ResolvedOnlyIfAllowed`).
- `parser.cpp:49`: a pointer must point before itself. This is checked for the first
  pointer of a name only, the hop limit ends the rest (`Terminates`).
- `response.cpp`: the comments say RD is preserved and AA is set. The constants
  always set RD, and AA is in sinkhole replies only.

### Bounds and why they suffice

- *Store:* two readers and three successive policies let a reader stand between
  its loads while a writer finishes one update and starts another. The proofs
  remove the bound.
- *Cache:* capacity 2 of 3 keys has hits at the front and at the back, erasure
  at either end, in-place updates and eviction. The TTLs
  lie below, inside and above the clamp, and time lasts as long as the longest life.
- *Forwarder:* a table of two for three queries fills up, is pruned, and has ids
  reused while the answer to their first use is still possible; the third id
  would let a third transaction in, were the limit wrong. `PruneAge` is one tick.
- *Dataplane:* a tick is longer than 2 s, so a pending transaction of an earlier
  tick is expired (`PruneAge` 0). One slot makes the table full at once. Three
  queries allow one answered, one pending and one arriving; two policies allow
  a block and its withdrawal. `MaxDatagrams` 1 lets the resolver put the next datagram
  into the socket as soon as the last has been read, so that answers repeat, cross
  and come late; with 0, in `dataplane_unanswered`, it is silent. The third question
  differs from the other two in name and type, so that an id or a cache slot may pass from
  either kind to the other; that each of the two is compared is left to the theorem
  `AnswersFit`, which is about any questions. In `dataplane_live` one id is enough,
  since the table has one slot.
- *Rules:* three suffixes can be a domain, its subdomain and a repetition; exact
  and allow lists interact with them by one name each. The characters make patterns
  that begin and end alike, so that two links are followed in a row; the name lists
  stay empty in states with a built automaton, in which they have no part.
- *Parser:* bodies of five bytes hold two labels, a label and a pointer, or pointers
  to each other and into the header; `MaxPacket` (40), hop limit and name limit
  are all reached.
- *Management:* `MaxRead` (14) lets the small policy through whole and cuts the large
  one inside its second list, so that the third is lost too; `MaxBuffer` (20) is
  less than the large request, so that its writer waits. `Backlog` 1 holds two
  connections: the third call finds it full. One stop and one outage
  (`Signals`, `Outages`) can fall between any two steps; each client connects once.
- `MaxTime`, `MaxDatagrams`, `MaxSuffixes`, `MaxNames`, `MaxBody`, `Signals` and `Outages` are the
  bounds added in guards or inputs. Deadlock checking is off where a run really
  ends: all queries served and no event left or `Stop` (dataplane), the lists full
  (rules), the packet answered (parser), all calls made (management).

### Fairness

- `Dataplane`: weak fairness of `MainThread`, which blocks only in `poll()` and
  there only while no socket is readable, and of `PublishPolicy`: `apply_candidate`
  takes no lock between check and stores. Clients,
  upstream, operator, clock and `Stop` have none: a resolver that never sends a
  datagram is a fair behaviour.
- `ResponseBuilder`: weak fairness of the parsing loop.
- `Management`: weak fairness of `Running`, the disjunction of everything a thread or
  goroutine does. One condition for all of them is enough because each
  connection is served once, so no thread can run for ever while another waits.
  Operators, signals and other programs have none. `read()` has no time-out, so
  a program that connects and stays silent blocks the worker, all calls behind it, and
  `stop()`. The model has these behaviours; `CallsAnswered` and
  `StopReturns` name them as their condition (`WorkerHeldUp` for good) and say that
  nothing else keeps a call or `stop()` from ending.

Liveness properties of `Dataplane` allow for `Stop` explicitly.

## 4. Proofs

`tlapm` checks every theorem below; none assumes more than the named assumptions
of the modules. They hold for every set of keys, writers, readers, ids and
queries and for every limit.

**`SnapshotManagerProofs`** (assumes `SnapshotAssumption`, `OneEffectiveWriter`):
`TypeCorrect`, `CounterTrails`, `SkewBounded`, `NoRollback` and
`RegisterRefined`, the refinement of `PolicyRegister`. That the counter trails
the pointer by at most one policy is not inductive alone: a store keeps it only
if the accepted candidate is still newer than the pointer when it is stored
(`CandidateFresh`). This holds because no second writer stands between check
and store (`SoleWriter`) and because the pointer is the newest generation there
ever was (`PointerIsNewest`). For readers, `ReaderBetweenLoads` carries the
bound from the first load to the second. Refinement: `StoreSnapshot` is the
abstract install, every other step stutters.

**`DnsCacheProofs`** (assumes `CacheAssumption`, `UseAssumption`): `TypeCorrect`,
`ListMirrorsTable`, `Bounded`, `ListIsRecency`, `HitsAreFresh`, `ErasesStale`,
`EvictsOldest`. The
first half shows for each list operation which keys the list holds afterwards,
each once, and that an order of last use stays one. The invariant `IInv` needs
its parts together: an eviction frees a slot only because the key it pops is in
the table, which is the mirror property; it pops the right key because the list
is ordered; a hit is fresh, and what is erased is not, because entries
carry the clamped deadline of the last insert (`StoredMatches`).

**`UpstreamForwarderProofs`** (assumes `ForwarderAssumption`): `TypeCorrect`,
`TableBounded`, `AtMostOnce`, `AnswerFits`, `YoungSurvives`. A packet is in one of
three places, unsent, waiting under one id, or answered, and every step moves
it forward; counting this needs the table finite. Pruning, failed sends and
rejected datagrams only shrink the table (`ShrinkingKeepsInvariant`), sending and
accepting are the two remaining cases. `AnswerFits` rests on every pending id
having been asked for its query.

**`ManagementTypes`, `ManagementProofs`** (assume `MaxReadAssumption`,
`IpcServerAssumption`, `ControlPlaneAssumption`, `ManagementAssumption`):
`TypeCorrect`, `CountersAlwaysBalance`, `NeverOverstated`, `OperatorAlwaysToldTruth`,
`StatusAlwaysSeesActivation`. The generation in a request is a number only because
what is read is made of tokens wherever it is cut, so requests are typed from the
decoded policy on. `SocketInv` says that the worker serves one open connection and
every waiting client waits once. On it rests `TruthInv`: a client's policy is
installed only while its connection is open, the reply closes it, and nobody
connects twice, so an answer cannot become wrong later. `GenerationInv` is the chain
expected <= acknowledged <= counter, with every undelivered reply between them;
replies of an earlier process are kept out by `stale`. The counters are exact once counted failures are
taken to be those answered and those between their count and their answer
(`CountersExact`): a counting step moves one post there, an answering step moves one out
(`CountingBalances`, `AnsweringBalances`), and a failure is answered only from a place that
is behind its count. `CountersBalance` follows, since posts in between are under way.

`CutDropsLists` is about what one `read()` leaves of a request. It has a hypothesis
of its own, `PlainPolicies`: no hash or rule is the first string of a request to be
spelled like a list's key (a rule may be spelled like the key of its own list or of an
earlier one that is not empty, which does no harm; `MCSmall` has such a rule). The
excluded case is the one section 5 leaves out. A wire is its head of six tokens and three list
fields, each ending a *beginning* of the wire; a key is first found in its own field
(`KeyFree`), so a list is extracted whole if the beginning it ends was read and not
at all otherwise (`ListCut`). Beginnings grow, hence the kept lists are the first
ones. `WireInv` carries this to the snapshot in force: bodies, texts written, the
request read and what was installed all come from posted policies, and only a
policy's text is taken for one (`OthersApplyNothing`).

**`DataplaneProofs`** (assumes `OfferAssumption`, `SeedAssumption` and those of the
three components): `StoreUsedAsSpecified`, `PoliciesAreRegister`, `TypeCorrect`,
`AtMostOnce`, `AnswersFit`, `ResolvedAllowed`. The process is first shown to use the
store as `SnapshotManager` specifies it: each of its steps is one of the store's or
leaves it alone. The store's theorems, the refinement included, then hold here
by `INSTANCE`. `IInv` has four parts beside the types: the main thread handles a
packet only if it has one (`HasWork`); a packet is in one place at a time, unsent,
queued, in hand, pending or answered (`Placed`), which gives at most one answer over
cache, table, SERVFAIL and reused ids together; everything stored or pending
belongs to the question it is stored under (`Fitting`); and a packet waits for
the upstream, or was answered with NOERROR, only after an installed policy not older than the one
in force when its client sent it allowed its name (`Governed`). For the last one the
snapshot in hand must be as new as the counter its client could know
(`HandSnapshotRecent`): the store publishes the pointer before the counter, so a
pointer loaded after the client sent is at least that new, whatever is published
between this load and that of the counter.

**`PolicySnapshotProofs`** (assumes `RuleAssumption`, `LabelAssumption`; for the automaton
also `CharAssumption`, `SpellingAssumption`): `TypeCorrect`,
`TrieStaysWellFormed`, `TrieMeetsReference`, `OneRuleActsLocally`,
`AutomatonMeetsReference`, `ComparisonIsPolicy`. The loop of
`matches()` stops at the shortest terminal prefix of the name, which exists by the
least-number principle. `IInv` adds to the types
that the first rule of each suffix keeps its id (`FirstListed`), that every node
lies on the way to a terminal (`NoDeadBranch`), and that `size_` counts the terminals
(`CountsTerminals`); the trie then answers as the reference does, and a new rule
changes the answer only where it is a suffix.

For the automaton everything is said in terms of what a string ends with (`Ends`).
A link is right when it leads to the longest other node a node ends with (`IsLink`).
`goto()` needs right links only up to the length of the node it starts from, and ends at
the longest node which that node and one more character end with (`GotoIsDeepest`); so
the links of one length make those of the next (`LinkStep`), `FailLinks` computes the
right ones, and the search stands at the longest node the text so far ends with
(`SearchIsDeepest`). `AutomatonInv` is inductive over insertions and builds in any order:
patterns are matches and a pattern stands at the end of every match
(`MatchesArePatterns`); a pattern that no other pattern ends has its last rule id
(`LastIds`), while the ids of the others may have been overwritten by an earlier build,
which is why nothing is said of them; and after a build every node that a pattern
ends is a match with the id of the shortest (`BuiltRight`).

**`DnsParserProofs`** (assumes `ParserAssumption`, `ResponseAssumption`,
`LimitAssumption`: a reply to the longest name, at most 34 bytes longer, fits a packet,
and a pointer may be followed; 253, 4096 and 8 in the code): `TypeCorrect`,
`NamesAreNormal`, `QuestionBehindName`, `RepliesRepeatQuestion`.
For the parser, `Inv` says where offset and consumed bytes may stand in each stage, that a name
so far is normal, and that after the first pointer the consumed bytes stay
behind it. For the replies, `IInv` adds that a name met without pointers stands in
the packet label by label as it was decoded (`WrittenOut`), and that re-reading a
built reply walks through a copy of the same bytes (`Repeats`). The theorem is about
names written out: with a pointer into the header it would be false (section 3).

Induction over numbers does work: `WFMin` with `NatLessThanWellFounded` gives the
least counterexample of a set, which needs no operator parameter. The proofs about
shortest prefixes, the labels of a packet and the automaton use it. A recursive function
`f[x \in S] == e` is whatever function solves its equation, so a proof about it
first gives a solution and then shows by such an induction that all have the values
claimed. `goto()` must be shown to have one for links that form a cycle too
(`FallsExist`), because the equation of `FailLinks` speaks of links not yet known right.

**Only model-checked:** liveness (`QueueDrains`,
`BlockedIsAnswered`, `Terminates`, `CallsAnswered`, `StopReturns`), which is beyond the
prover. Every invariant and every action property of a passing run is a theorem.

## 5. What is not modelled

- *`reset()` of the policy store:* for tests only. *`PolicyEngine`:* an earlier copy of
  `evaluate` used by tests alone. *Entropy score:* only logged, and floating point.
- *Characters of requests and pages.* Strings are values, none contains a quote or
  bracket; a rule spelled like a later or absent list's key, which the key search would
  mistake, is excluded. Wording of HTTP pages and the HTTP server's own time-outs (which cut
  off the client, not the handler) are left out.
- *Two dataplanes at once:* the `unlink` of the old one's `stop()` could remove the new
  one's socket.
- *The opcode of upstream answers,* and the sections of relayed answers behind the
  question, which nothing reads.
- *DNS over TCP:* documented, not implemented. *Common types:* no behaviour.
- *Memory reclamation of snapshots* (`shared_ptr` counts) is left to the language.

## 6. Plan

Done: store, cache, forwarder and their composition with the main loop; rules,
parser and replies; the management path; both matchers; and the proofs of all
safety and action properties the runs check. What could follow:

1. Two dataplanes on one socket path, of which the older one's `stop()` unlinks the
   socket of the newer one (section 5).
2. Requests as characters, for the rules that `PlainPolicies` excludes.
