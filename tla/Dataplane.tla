----------------------------- MODULE Dataplane -----------------------------
(***************************************************************************)
(* The dataplane process (main.cpp): the main thread serves client queries *)
(* and upstream answers from one poll() loop, using the policy store, the  *)
(* answer cache and the upstream forwarder, while the IPC thread offers    *)
(* new policies.  The three components are instances of their own modules  *)
(* on this module's variables.                                             *)
(*                                                                         *)
(* The main thread takes one step per access to the shared policy store    *)
(* (the cache and the forwarder are used by no other thread); clients, the *)
(* upstream resolver, the clock and the operator are the environment.  The *)
(* resolver may answer what it was asked late, several times, out of order *)
(* or never: a datagram of its waits in the upstream socket only once it   *)
(* has arrived there.  A policy's rules are reduced to the set of names    *)
(* they block, sinkhole.test to a name in Sinkholed.                       *)
(***************************************************************************)
EXTENDS Integers, Sequences, FiniteSets

CONSTANTS
    Queries,      \* tokens of client packets
    Question,     \* Question[q]: [qname, qtype, qclass]
    Malformed,    \* the packets DnsParser::parse rejects
    Sinkholed,    \* names main() answers itself: {"sinkhole.test"}
    Bootstrap,    \* the snapshot the SnapshotManager constructor makes
    Seed,         \* the candidate main() offers at startup
    IpcOffers,    \* the policies the control plane may send
    Ids, MaxPending, PruneAge,   \* of the forwarder
    MaxEntries,   \* of the cache
    AnswerTtl,    \* the TTL main() caches answers with (60 seconds)
    MaxTime,      \* bound: the clock stops here
    MaxDatagrams  \* bound: datagrams waiting in the upstream socket

\* The snapshot of the constructor and the seed both have generation 1
\* (atomic_snapshot.cpp:10-16, main.cpp:113), so the seed is never newer.
ASSUME SeedAssumption == Bootstrap.generation = 1 /\ Seed.generation = 1

\* The generation of a policy is a uint64_t.
ASSUME OfferAssumption == \A c \in IpcOffers : c.generation \in Nat

VARIABLES
    \* SnapshotManager, shared by the two threads
    active_snapshot, global_generation, writer_pc, candidate, result,
    reader_pc, snapshot, current_gen, installed,
    table, lru_order,       \* DnsCache
    pending_tx, asked,      \* UpstreamForwarder
    clock,
    main_pc,         \* where the main thread is
    revents,         \* what the last poll() reported and is still to do
    query,           \* the packet being served, or NoQuery
    client_queue,    \* receive queue of the client socket
    upstream_queue,  \* receive queue of the upstream socket
    unsent,          \* client packets not sent yet
    answers,         \* history: the packets each query was answered with
    floor            \* history: the counter when the client sent the query

store_vars     == <<active_snapshot, global_generation, writer_pc, candidate,
                    result, reader_pc, snapshot, current_gen, installed>>
cache_vars     == <<table, lru_order>>
forwarder_vars == <<pending_tx, asked>>
loop_vars      == <<main_pc, revents, query>>
client_vars    == <<client_queue, unsent, floor>>
vars == <<store_vars, cache_vars, forwarder_vars, clock, loop_vars,
          client_vars, upstream_queue, answers>>

NoQuery == "none"
\* What a datagram of the resolver can be, and one that is relayed and kept.
Datagrams ==
    [from : {"upstream"}, form : {"answer", "garbled"}, id : Ids,
     question : {Question[q] : q \in Queries}]
CachedPackets == {d \in Datagrams : d.form = "answer"}
CacheKey(qname, qtype, qclass) == <<qname, qtype, qclass>>
ClassIN == "IN"   \* the class 1 main() passes to insert

Manager == INSTANCE SnapshotManager
    WITH Writers <- {"main", "ipc"}, Readers <- {"main"},
         Offers <- [w \in {"main", "ipc"} |->
                        IF w = "main" THEN {Seed} ELSE IpcOffers]

Cache == INSTANCE DnsCache
    WITH Keys <- {CacheKey(Question[q].qname, Question[q].qtype, c) :
                    q \in Queries, c \in {ClassIN, "CH"}},
         Responses <- CachedPackets, MinTtl <- 1, MaxTtl <- 86400

Forwarder == INSTANCE UpstreamForwarder

Init ==
    /\ Manager!Init
    /\ Cache!CacheInit
    /\ Forwarder!ForwarderInit
    /\ clock = 0
    /\ main_pc = "seed"
    /\ revents = {}
    /\ query = NoQuery
    /\ client_queue = <<>>
    /\ upstream_queue = <<>>
    /\ unsent = Queries
    /\ answers = [q \in Queries |-> <<>>]
    /\ floor = [q \in Queries |-> 0]

-----------------------------------------------------------------------------
(* Startup, and the IPC thread, which is running before main() seeds.      *)

\* main() offers its seed policy and ignores what apply_candidate returns:
\* by SeedAssumption it is always a rejection.
SeedPolicy ==
    /\ main_pc = "seed"
    /\ Manager!RejectCandidate("main", Seed)
    /\ main_pc' = "poll"
    /\ UNCHANGED <<cache_vars, forwarder_vars, clock, revents, query,
                   client_vars, upstream_queue, answers>>

OfferPolicy(c) ==
    /\ \/ Manager!AcceptCandidate("ipc", c)
       \/ Manager!RejectCandidate("ipc", c)
    /\ UNCHANGED <<cache_vars, forwarder_vars, clock, loop_vars, client_vars,
                   upstream_queue, answers>>

PublishPolicy ==
    /\ Manager!Publish("ipc")
    /\ UNCHANGED <<cache_vars, forwarder_vars, clock, loop_vars, client_vars,
                   upstream_queue, answers>>

-----------------------------------------------------------------------------
(* The poll loop.                                                          *)

\* The loop goes on to the upstream socket if poll() reported it.
LeaveClientEvent ==
    /\ revents' = revents \ {"client"}
    /\ main_pc' = IF "upstream" \in revents THEN "upstream" ELSE "poll"

\* One datagram is read from the upstream socket per iteration.
LeaveUpstreamEvent ==
    /\ main_pc = "upstream"
    /\ upstream_queue' = Tail(upstream_queue)
    /\ revents' = {}
    /\ main_pc' = "poll"

\* Fault: the upstream socket is served alone whenever it is readable.
PollUpstreamOnly(events) ==
    /\ main_pc = "poll"
    /\ events # {}
    /\ "client" \in events <=> client_queue # <<>>
    /\ "upstream" \in events <=> upstream_queue # <<>>
    /\ revents' = events
    /\ main_pc' = IF "upstream" \in events THEN "upstream" ELSE "client"
    /\ UNCHANGED <<store_vars, cache_vars, forwarder_vars, clock, query,
                   client_vars, upstream_queue, answers>>

\* poll() reports each socket a datagram waits in; the client socket is
\* served first.  It reports nothing on a timeout, which is a stuttering step.
Poll(events) ==
    /\ main_pc = "poll"
    /\ events # {}
    /\ "client" \in events <=> client_queue # <<>>
    /\ "upstream" \in events <=> upstream_queue # <<>>
    /\ revents' = events
    /\ main_pc' = IF "client" \in events THEN "client" ELSE "upstream"
    /\ UNCHANGED <<store_vars, cache_vars, forwarder_vars, clock, query,
                   client_vars, upstream_queue, answers>>

\* A signal has cleared g_running, or poll() failed.
Stop ==
    /\ main_pc = "poll"
    /\ main_pc' = "stopped"
    /\ UNCHANGED <<store_vars, cache_vars, forwarder_vars, clock, revents,
                   query, client_vars, upstream_queue, answers>>

\* recvfrom and parse; a malformed packet is dropped without an answer.
ReceiveMalformed ==
    /\ main_pc = "client"
    /\ Head(client_queue) \in Malformed
    /\ client_queue' = Tail(client_queue)
    /\ LeaveClientEvent
    /\ UNCHANGED <<store_vars, cache_vars, forwarder_vars, clock, query,
                   unsent, floor, upstream_queue, answers>>

\* recvfrom, parse and get_active_snapshot().
ReceiveQuery ==
    /\ main_pc = "client"
    /\ Head(client_queue) \notin Malformed
    /\ query' = Head(client_queue)
    /\ client_queue' = Tail(client_queue)
    /\ Manager!LoadSnapshot("main")
    /\ main_pc' = "decide"
    /\ UNCHANGED <<cache_vars, forwarder_vars, clock, revents, unsent, floor,
                   upstream_queue, answers>>

LookupKey(q) ==
    CacheKey(Question[q].qname, Question[q].qtype, Question[q].qclass)

\* Fault: a cached answer is served without evaluating the policy.
BlockedUnlessCached(q) ==
    /\ Question[q].qname \in snapshot["main"].blocked
    /\ ~Cache!Cached(LookupKey(q))

\* PolicySnapshot::evaluate on the snapshot that was loaded.
Blocked(q) == Question[q].qname \in snapshot["main"].blocked

Answer(q, packet) == answers' = [answers EXCEPT ![q] = Append(@, packet)]

Synthesized(q, rcode) ==
    [rcode |-> rcode, txid |-> q, question |-> Question[q]]

\* An upstream packet with its transaction id overwritten.
Relayed(q, packet) ==
    [rcode |-> "NOERROR", txid |-> q, question |-> packet.question]

\* What every branch of the decision does: it reads current_generation(),
\* and leaves the client event.
Decide ==
    /\ main_pc = "decide"
    /\ Manager!LoadGeneration("main")
    /\ query' = NoQuery
    /\ LeaveClientEvent
    /\ UNCHANGED <<clock, client_vars, upstream_queue>>

AnswerBlocked ==
    /\ Decide
    /\ Blocked(query)
    /\ Answer(query, Synthesized(query, "NXDOMAIN"))
    /\ UNCHANGED <<cache_vars, forwarder_vars>>

AnswerSinkhole ==
    /\ Decide
    /\ ~Blocked(query) /\ Question[query].qname \in Sinkholed
    /\ Answer(query, Synthesized(query, "SINKHOLE"))
    /\ UNCHANGED <<cache_vars, forwarder_vars>>

Resolvable(q) == ~Blocked(q) /\ Question[q].qname \notin Sinkholed

AnswerFromCache ==
    /\ Decide
    /\ Resolvable(query)
    /\ Cache!LookupHit(LookupKey(query), global_generation)
    /\ Answer(query, Relayed(query, table[LookupKey(query)].response))
    /\ UNCHANGED forwarder_vars

CacheMiss(q) ==
    \/ Cache!LookupAbsent(LookupKey(q))
    \/ Cache!LookupStale(LookupKey(q), global_generation)

ForwardQuery ==
    /\ Decide
    /\ Resolvable(query)
    /\ CacheMiss(query)
    /\ \E id \in Ids : Forwarder!ForwardSent(query, id)
    /\ UNCHANGED answers

\* Fault: SERVFAIL goes out while the transaction stays pending.
ForwardFailsPending ==
    /\ Decide
    /\ Resolvable(query)
    /\ CacheMiss(query)
    /\ \E id \in Ids : Forwarder!ForwardSent(query, id)
    /\ Answer(query, Synthesized(query, "SERVFAIL"))

ForwardFails ==
    /\ Decide
    /\ Resolvable(query)
    /\ CacheMiss(query)
    /\ Forwarder!ForwardRefused(query) \/ Forwarder!ForwardSendFails(query)
    /\ Answer(query, Synthesized(query, "SERVFAIL"))

\* A datagram that validate_response turns down.
DropResponse ==
    /\ LeaveUpstreamEvent
    /\ LET d == Head(upstream_queue) IN
       Forwarder!DropStray(d) \/ Forwarder!DropMismatch(d)
    /\ UNCHANGED <<store_vars, cache_vars, clock, query, client_vars,
                   answers>>

\* The answer is cached under the counter's value now, as class 1, and
\* relayed to the client of the matched transaction.
RelayResponse ==
    /\ LeaveUpstreamEvent
    /\ LET d == Head(upstream_queue)
           q == pending_tx[d.id].query
       IN
       /\ Forwarder!AcceptResponse(d)
       /\ Cache!Insert(CacheKey(Question[q].qname, Question[q].qtype, ClassIN),
                       d, AnswerTtl, global_generation)
       /\ Answer(q, Relayed(q, d))
    /\ UNCHANGED <<store_vars, clock, query, client_vars>>

-----------------------------------------------------------------------------
(* The environment.                                                        *)

ClientSends(q) ==
    /\ q \in unsent
    /\ unsent' = unsent \ {q}
    /\ client_queue' = Append(client_queue, q)
    /\ floor' = [floor EXCEPT ![q] = global_generation]
    /\ UNCHANGED <<store_vars, cache_vars, forwarder_vars, clock, loop_vars,
                   upstream_queue, answers>>

\* A datagram of the resolver arrives: it answers, or garbles, something it
\* was once asked, no matter when or how often it has answered that before.
ResolverAnswers(d) ==
    /\ Len(upstream_queue) < MaxDatagrams
    /\ upstream_queue' = Append(upstream_queue, d)
    /\ UNCHANGED <<store_vars, cache_vars, forwarder_vars, clock, loop_vars,
                   client_vars, answers>>

Tick ==
    /\ clock < MaxTime
    /\ clock' = clock + 1
    /\ UNCHANGED <<store_vars, cache_vars, forwarder_vars, loop_vars,
                   client_vars, upstream_queue, answers>>

-----------------------------------------------------------------------------
ServeClient ==
    \/ ReceiveMalformed \/ ReceiveQuery
    \/ AnswerBlocked \/ AnswerSinkhole \/ AnswerFromCache
    \/ ForwardQuery \/ ForwardFails

MainThread ==
    \/ SeedPolicy
    \/ \E events \in SUBSET {"client", "upstream"} : Poll(events)
    \/ ServeClient
    \/ DropResponse
    \/ RelayResponse

Next ==
    \/ MainThread
    \/ Stop
    \/ \E c \in IpcOffers : OfferPolicy(c)
    \/ PublishPolicy
    \/ \E q \in Queries : ClientSends(q)
    \/ \E d \in Forwarder!UpstreamAnswers : ResolverAnswers(d)
    \/ Tick

\* The main thread blocks only in poll(), which returns once a datagram waits
\* in a socket; the IPC thread inside apply_candidate takes no lock.  Nothing
\* is assumed of clients, the upstream, the operator or the clock: the
\* resolver may stay silent for ever.
Fairness == WF_vars(MainThread) /\ WF_vars(PublishPolicy)

Spec == Init /\ [][Next]_vars
FairSpec == Spec /\ Fairness

-----------------------------------------------------------------------------
\* Types of the loop's own variables; the components have their own.
TypeOK ==
    /\ Manager!TypeOK
    /\ main_pc \in {"seed", "poll", "client", "decide", "upstream",
                    "stopped"}
    /\ revents \subseteq {"client", "upstream"}
    /\ query \in Queries \cup {NoQuery}
    /\ client_queue \in Seq(Queries)
    /\ upstream_queue \in Seq(Datagrams)
    /\ unsent \subseteq Queries
    /\ floor \in [Queries -> Nat]

AnswersTo(q) == {answers[q][i] : i \in 1..Len(answers[q])}

\* No packet is answered twice, whichever of the policy, the cache, the
\* forwarder and a late or repeated upstream answer serves it, and one that
\* still waits for the upstream has not been answered.
AnsweredAtMostOnce ==
    \A q \in Queries :
        Len(answers[q])
            + Cardinality({i \in DOMAIN pending_tx : pending_tx[i].query = q}) <= 1

\* Each answer carries the id of the packet it answers and a question with
\* its name and type, also when it was cached for another client or accepted
\* late, under an upstream id that another question has been given since
\* (main.cpp:190-194, 226-237).
AnswerFitsQuery ==
    \A q \in Queries : \A a \in AnswersTo(q) :
        /\ a.txid = q
        /\ a.question.qname = Question[q].qname
        /\ a.question.qtype = Question[q].qtype

\* A policy the control plane was told is active governs every query sent
\* from then on: no name is resolved, from cache or upstream, unless a
\* policy at least as new as that one allows it (ADR-004, "closes the
\* stale-cache security bypass immediately upon policy activation").
ResolvedOnlyIfAllowed ==
    \A q \in Queries : \A a \in AnswersTo(q) :
        a.rcode = "NOERROR" =>
            \E p \in Manager!Snapshots :
                /\ p.generation \in installed
                /\ p.generation >= floor[q]
                /\ Question[q].qname \notin p.blocked

\* Every packet in the client queue is taken off it, however many upstream
\* answers and policy updates interleave, unless the process is stopped.
QueueDrains ==
    \A q \in Queries :
        (\E i \in 1..Len(client_queue) : client_queue[i] = q)
            ~> \/ main_pc = "stopped"
               \/ ~\E i \in 1..Len(client_queue) : client_queue[i] = q

\* A name that every policy from the sender's on blocks is answered, and
\* with NXDOMAIN, whatever the cache holds from before the block and
\* whatever the resolver still answers (RUNBOOK, playbook A).
BlockedIsAnswered ==
    \A q \in Queries \ Malformed :
        /\ q \notin unsent
        /\ \A p \in Manager!Snapshots :
                p.generation >= floor[q] => Question[q].qname \in p.blocked
        ~> \/ main_pc = "stopped"
           \/ \E a \in AnswersTo(q) : a.rcode = "NXDOMAIN"

-----------------------------------------------------------------------------
(* What the documents say and the program does not do.                     *)

\* evidence/failures/upstream-timeout.md: a client is answered, with
\* SERVFAIL if the upstream fails, instead of hanging.
EveryQueryAnswered ==
    \A q \in Queries \ Malformed :
        q \notin unsent ~> main_pc = "stopped" \/ answers[q] # <<>>

=============================================================================
