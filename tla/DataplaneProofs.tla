-------------------------- MODULE DataplaneProofs --------------------------
(***************************************************************************)
(* Safety of the dataplane process for any queries, policies, cache size   *)
(* and upstream behaviour.                                                 *)
(*                                                                         *)
(* The policy store is not proved again: every step of the process is a    *)
(* step of SnapshotManager or leaves its variables alone, so its theorems  *)
(* hold here (StoreUsedAsSpecified).  For the rest,                        *)
(*   - a packet is in at most one of five places: not sent, queued, in the *)
(*     main thread's hands, waiting under one upstream id, answered;       *)
(*   - what the cache holds under a key is a datagram with that name and   *)
(*     type;                                                               *)
(*   - a query whose name passed the policy check has been allowed by an   *)
(*     installed policy not older than the counter its client saw, and     *)
(*     stays so while it waits, because installed policies are never       *)
(*     forgotten.                                                          *)
(***************************************************************************)
EXTENDS Dataplane, SequenceTheorems, FiniteSetTheorems, TLAPS

\* The policy store with its theorems, on the variables of the process.
Store == INSTANCE SnapshotManagerProofs
    WITH Writers <- {"main", "ipc"}, Readers <- {"main"},
         Offers <- [w \in {"main", "ipc"} |->
                        IF w = "main" THEN {Seed} ELSE IpcOffers]

-----------------------------------------------------------------------------
(* The invariant.                                                          *)

LoopTypeOK ==
    /\ main_pc \in {"seed", "poll", "client", "decide", "upstream",
                    "stopped"}
    /\ revents \subseteq {"client", "upstream"}
    /\ query \in Queries \cup {NoQuery}
    /\ client_queue \in Seq(Queries)
    /\ upstream_queue \in Seq(Datagrams)
    /\ unsent \subseteq Queries
    /\ floor \in [Queries -> Nat]

\* An event is served only while a datagram is there, and a decision is made
\* about a packet.
HasWork ==
    /\ main_pc = "client" => client_queue # <<>>
    /\ main_pc = "upstream" \/ "upstream" \in revents => upstream_queue # <<>>
    /\ main_pc = "decide" => query \in Queries

Queued(q) == \E i \in 1..Len(client_queue) : client_queue[i] = q
InHand(q) == main_pc = "decide" /\ query = q
Waiting(q) == {i \in DOMAIN pending_tx : pending_tx[i].query = q}

QueuedOnce ==
    \A i, j \in 1..Len(client_queue) : client_queue[i] = client_queue[j] => i = j

\* The five places a packet can be in exclude each other.
OnePlace ==
    \A q \in Queries :
        /\ q \in unsent => ~Queued(q)
        /\ q \in unsent \/ Queued(q) => ~InHand(q)
        /\ q \in unsent \/ Queued(q) \/ InHand(q) =>
               answers[q] = <<>> /\ Waiting(q) = {}
        /\ Waiting(q) # {} => answers[q] = <<>>
        /\ \A i, j \in Waiting(q) : i = j
        /\ answers[q] = <<>> \/ \E a \in AnswersTo(q) : answers[q] = <<a>>

Placed ==
    /\ DOMAIN answers = Queries
    /\ QueuedOnce
    /\ OnePlace

\* Whatever is pending or was asked concerns a packet that a client sent; an
\* entry is a datagram with its key's name and type.
PendingOK == \A i \in DOMAIN pending_tx : pending_tx[i].query \in Queries
AskedOK == asked \subseteq [id : Ids, query : Queries]
EntryFits(k, e) ==
    /\ e.response.question.qname = k[1]
    /\ e.response.question.qtype = k[2]
EntriesFit == \A k \in DOMAIN table : EntryFits(k, table[k])

Fits(q, a) ==
    /\ a.txid = q
    /\ a.question.qname = Question[q].qname
    /\ a.question.qtype = Question[q].qtype

Fitting ==
    /\ PendingOK
    /\ AskedOK
    /\ EntriesFit
    /\ AnswerFitsQuery

\* An installed policy, not older than the counter when the client sent q,
\* allows the name of q.
Allowed(q) ==
    \E p \in Store!Snapshots :
        /\ p.generation \in installed
        /\ p.generation >= floor[q]
        /\ Question[q].qname \notin p.blocked

SnapshotsInstalled ==
    /\ active_snapshot.generation \in installed
    /\ snapshot["main"].generation \in installed
FloorsReached == \A q \in Queries : floor[q] <= global_generation
HandSnapshotRecent ==
    main_pc = "decide" => floor[query] <= snapshot["main"].generation
WaitingAllowed == \A q \in Queries : Waiting(q) # {} => Allowed(q)
RelayedAllowed ==
    \A q \in Queries : \A a \in AnswersTo(q) : a.rcode = "NOERROR" => Allowed(q)

Governed ==
    /\ SnapshotsInstalled
    /\ FloorsReached
    /\ HandSnapshotRecent
    /\ WaitingAllowed
    /\ RelayedAllowed

IInv ==
    /\ LoopTypeOK
    /\ HasWork
    /\ Placed
    /\ Fitting
    /\ Governed

-----------------------------------------------------------------------------
(* The policy store.                                                       *)

\* main() and the control plane satisfy what SnapshotManager assumes of its
\* writers: main() never has a candidate accepted.
LEMMA StoreAssumptions == Store!SnapshotAssumption /\ Store!OneEffectiveWriter
<1>1. Bootstrap.generation = 1 /\ Seed.generation = 1
    BY SeedAssumption
<1>2. \A s \in Store!Snapshots : s.generation \in Nat
    BY <1>1, OfferAssumption DEF Store!Snapshots, Store!AllOffers
<1> QED
    BY <1>1, <1>2 DEF Store!SnapshotAssumption, Store!OneEffectiveWriter

StoreUnchanged == UNCHANGED store_vars

\* A step is one call into the policy store, or leaves it alone.
LEMMA StoreSteps ==
    ASSUME [Next]_vars
    PROVE  \/ StoreUnchanged
           \/ Manager!RejectCandidate("main", Seed)
           \/ \E c \in IpcOffers : \/ Manager!AcceptCandidate("ipc", c)
                                  \/ Manager!RejectCandidate("ipc", c)
           \/ Manager!Publish("ipc")
           \/ Manager!LoadSnapshot("main")
           \/ Manager!LoadGeneration("main")
BY DEF Next, MainThread, ServeClient, SeedPolicy, OfferPolicy,
       PublishPolicy, Poll, Stop, ReceiveMalformed, ReceiveQuery, Decide,
       AnswerBlocked, AnswerSinkhole, AnswerFromCache, ForwardQuery,
       ForwardFails, DropResponse, RelayResponse, ClientSends,
       ResolverAnswers, Tick, vars, StoreUnchanged

\* Every step of the process is a step of the store or none at all.
LEMMA StoreStep == [Next]_vars => [Store!Next]_(Store!vars)
<1> SUFFICES ASSUME [Next]_vars PROVE [Store!Next]_(Store!vars)
    OBVIOUS
<1>1. CASE StoreUnchanged
    BY <1>1 DEF StoreUnchanged, store_vars, Store!vars, Store!manager_vars,
        Store!writer_vars, Store!reader_vars
<1>2. CASE Manager!RejectCandidate("main", Seed)
    BY <1>2
    DEF Manager!RejectCandidate, Manager!Acceptable, Manager!HasVersionHash,
        Manager!manager_vars, Manager!reader_vars, Store!Next,
        Store!RejectCandidate, Store!Acceptable, Store!HasVersionHash,
        Store!manager_vars, Store!reader_vars
<1>3. ASSUME NEW c \in IpcOffers, Manager!AcceptCandidate("ipc", c)
      PROVE  Store!Next
    BY <1>3
    DEF Manager!AcceptCandidate, Manager!Acceptable, Manager!HasVersionHash,
        Manager!manager_vars, Manager!reader_vars, Store!Next,
        Store!AcceptCandidate, Store!Acceptable, Store!HasVersionHash,
        Store!manager_vars, Store!reader_vars
<1>4. ASSUME NEW c \in IpcOffers, Manager!RejectCandidate("ipc", c)
      PROVE  Store!Next
    BY <1>4
    DEF Manager!RejectCandidate, Manager!Acceptable, Manager!HasVersionHash,
        Manager!manager_vars, Manager!reader_vars, Store!Next,
        Store!RejectCandidate, Store!Acceptable, Store!HasVersionHash,
        Store!manager_vars, Store!reader_vars
<1>5. CASE Manager!Publish("ipc")
    BY <1>5
    DEF Manager!Publish, Manager!StoreSnapshot, Manager!StoreGeneration,
        Manager!reader_vars, Store!Next, Store!Publish, Store!StoreSnapshot,
        Store!StoreGeneration, Store!reader_vars
<1>6. CASE Manager!LoadSnapshot("main") \/ Manager!LoadGeneration("main")
    BY <1>6
    DEF Manager!LoadSnapshot, Manager!LoadGeneration, Manager!manager_vars,
        Manager!writer_vars, Store!Next, Store!LoadSnapshot,
        Store!LoadGeneration, Store!manager_vars, Store!writer_vars
<1> QED
    BY <1>1, <1>2, <1>3, <1>4, <1>5, <1>6, StoreSteps

\* The process uses the policy store as SnapshotManager specifies: all its
\* theorems hold of the running process (main.cpp:112-119, 158-159,
\* ipc_server.cpp).
THEOREM StoreUsedAsSpecified == Spec => Store!Spec
<1>1. Init => Store!Init
    BY DEF Init, Manager!Init, Store!Init
<1> QED
    BY <1>1, StoreStep, PTL DEF Spec, Store!Spec

\* So the store's inductive invariant holds in the process.
LEMMA StoreInvariant == Spec => []Store!IInv
BY StoreAssumptions, StoreUsedAsSpecified, Store!InductiveInvariant, PTL

\* Clients of the process see one policy register that only ever moves to a
\* newer policy (ADR-002).
THEOREM PoliciesAreRegister == Spec => Store!ImplementsRegister
BY StoreAssumptions, StoreUsedAsSpecified, Store!RegisterRefined, PTL

\* What the invariant needs to know of the store at a step.
StoreMoves ==
    /\ active_snapshot \in Store!Snapshots
    /\ snapshot["main"] \in Store!Snapshots
    /\ active_snapshot.generation \in Nat
    /\ snapshot["main"].generation \in Nat
    /\ global_generation \in Nat /\ global_generation' \in Nat
    /\ global_generation <= active_snapshot.generation
    /\ global_generation' >= global_generation
    /\ installed \subseteq installed'

\* That invariant gives the facts above, before and after a step.
LEMMA StoreFacts ==
    ASSUME Store!IInv, Store!IInv', [Next]_vars
    PROVE  StoreMoves
<1>1. \A s \in Store!Snapshots : s.generation \in Nat
    BY StoreAssumptions DEF Store!SnapshotAssumption
<1>2. /\ active_snapshot \in Store!Snapshots
      /\ snapshot["main"] \in Store!Snapshots
      /\ global_generation \in Nat
      /\ global_generation' \in Nat
    BY DEF Store!IInv, Store!TypeOK
<1>3. global_generation <= active_snapshot.generation
    BY DEF Store!IInv, Store!CounterTrailsPointer
<1>4. global_generation' >= global_generation
    BY StoreStep, StoreAssumptions, Store!StepMonotone
<1>5. installed \subseteq installed'
    BY StoreSteps
    DEF StoreUnchanged, store_vars, Manager!RejectCandidate,
        Manager!AcceptCandidate, Manager!Publish, Manager!StoreSnapshot,
        Manager!StoreGeneration, Manager!LoadSnapshot, Manager!LoadGeneration
<1> QED
    BY <1>1, <1>2, <1>3, <1>4, <1>5 DEF StoreMoves

\* What is loaded or held stays an installed policy.
LEMMA SnapshotsStayInstalled ==
    ASSUME StoreMoves, SnapshotsInstalled, [Next]_vars, Store!IInv
    PROVE  SnapshotsInstalled'
<1> USE DEF SnapshotsInstalled, StoreMoves
<1>1. CASE StoreUnchanged \/ Manager!RejectCandidate("main", Seed)
           \/ Manager!LoadGeneration("main")
    BY <1>1 DEF StoreUnchanged, store_vars, Manager!RejectCandidate,
        Manager!LoadGeneration, Manager!manager_vars, Manager!reader_vars
<1>2. ASSUME NEW c \in IpcOffers,
             Manager!AcceptCandidate("ipc", c) \/ Manager!RejectCandidate("ipc", c)
      PROVE  SnapshotsInstalled'
    BY <1>2 DEF Manager!AcceptCandidate, Manager!RejectCandidate,
        Manager!manager_vars, Manager!reader_vars
<1>3. CASE Manager!Publish("ipc")
    BY <1>3 DEF Manager!Publish, Manager!StoreSnapshot,
        Manager!StoreGeneration, Manager!reader_vars
<1>4. CASE Manager!LoadSnapshot("main")
  <2>1. snapshot'["main"] = active_snapshot
    BY <1>4 DEF Manager!LoadSnapshot, Store!IInv, Store!TypeOK
  <2> QED
    BY <1>4, <2>1 DEF Manager!LoadSnapshot, Manager!manager_vars
<1> QED
    BY <1>1, <1>2, <1>3, <1>4, StoreSteps

-----------------------------------------------------------------------------
(* What a step of the process does to packets, free of its other detail.   *)

\* Nothing is sent, taken, answered or forwarded, and what the main thread
\* has in hand stays there, with its snapshot, or nothing is in hand.
Keeps ==
    /\ UNCHANGED <<client_queue, unsent, floor, answers>>
    /\ main_pc' = "decide" => /\ main_pc = "decide"
                              /\ query' = query
                              /\ snapshot'["main"] = snapshot["main"]

\* The pending table loses records only.
PendingShrinks ==
    /\ DOMAIN pending_tx' \subseteq DOMAIN pending_tx
    /\ \A i \in DOMAIN pending_tx' : pending_tx'[i] = pending_tx[i]
    /\ asked' = asked

\* Entries are only dropped from the cache.
CacheShrinks ==
    /\ DOMAIN table' \subseteq DOMAIN table
    /\ \A k \in DOMAIN table' : table'[k] = table[k]

\* The packet q in hand is answered with the packet a.
Answered(q, a) ==
    /\ DOMAIN answers' = Queries
    /\ answers'[q] = <<a>>
    /\ \A r \in Queries \ {q} : answers'[r] = answers[r]

\* Answering a packet that has no answer yet makes the answer its only one.
LEMMA AnswerFacts ==
    ASSUME DOMAIN answers = Queries, NEW q \in Queries, answers[q] = <<>>,
           NEW a, Answer(q, a)
    PROVE  Answered(q, a)
<1>1. Append(<<>>, a) = <<a>>
    OBVIOUS
<1> QED
    BY <1>1 DEF Answer, Answered

\* The answers a packet has, as a set.
LEMMA AnswersToFacts ==
    /\ \A q : answers[q] = <<>> => AnswersTo(q) = {}
    /\ \A q, a : answers[q] = <<a>> => AnswersTo(q) = {a}
BY DEF AnswersTo

\* The same after one packet was answered: the others keep theirs.
LEMMA AnsweredFacts ==
    ASSUME NEW q \in Queries, NEW a, Answered(q, a)
    PROVE  /\ AnswersTo(q)' = {a}
           /\ \A r \in Queries \ {q} : AnswersTo(r)' = AnswersTo(r)
BY DEF Answered, AnswersTo

\* Steps on which packets do not move: pruning aside, only policies and the
\* loop's own position change.
Rests ==
    /\ Keeps
    /\ PendingShrinks
    /\ table' = table

Sends(q) ==
    /\ q \in unsent
    /\ unsent' = unsent \ {q}
    /\ client_queue' = Append(client_queue, q)
    /\ floor' = [floor EXCEPT ![q] = global_generation]
    /\ UNCHANGED <<answers, pending_tx, asked, table, main_pc, query, snapshot>>

\* A packet leaves the queue: it is dropped, or in hand with the policy of
\* now.
Takes ==
    /\ main_pc = "client"
    /\ client_queue' = Tail(client_queue)
    /\ main_pc' = "decide" => /\ query' = Head(client_queue)
                              /\ snapshot'["main"] = active_snapshot
    /\ UNCHANGED <<unsent, floor, answers, pending_tx, asked, table>>

\* The packet in hand is done with.
Decides ==
    /\ main_pc = "decide"
    /\ main_pc' # "decide"
    /\ UNCHANGED <<client_queue, unsent, floor>>

\* The packet in hand is answered with a; a name that is resolved is one the
\* loaded policy allows.
AnswersHand(a) ==
    /\ Decides
    /\ Answer(query, a)
    /\ Fits(query, a)
    /\ a.rcode = "NOERROR" => ~Blocked(query)
    /\ PendingShrinks
    /\ CacheShrinks

\* The packet in hand is sent upstream under an id that is not in use.
ForwardsHand(id) ==
    /\ Decides
    /\ ~Blocked(query)
    /\ id \in DOMAIN pending_tx'
    /\ pending_tx'[id].query = query
    /\ \A i \in DOMAIN pending_tx' \ {id} :
            i \in DOMAIN pending_tx /\ pending_tx'[i] = pending_tx[i]
    /\ asked' = asked \cup {[id |-> id, query |-> query]}
    /\ answers' = answers
    /\ CacheShrinks

\* The client of the pending id is answered with the packet, which is cached
\* under the client's name and type.
Relays(id, packet) ==
    LET q == pending_tx[id].query IN
    /\ id \in DOMAIN pending_tx
    /\ packet.question.qname = Question[q].qname
    /\ packet.question.qtype = Question[q].qtype
    /\ DOMAIN pending_tx' = DOMAIN pending_tx \ {id}
    /\ \A i \in DOMAIN pending_tx' : pending_tx'[i] = pending_tx[i]
    /\ Answer(q, Relayed(q, packet))
    /\ \A k \in DOMAIN table' :
           \/ k \in DOMAIN table /\ table'[k] = table[k]
           \/ EntryFits(k, table'[k])
    /\ main_pc' # "decide"
    /\ UNCHANGED <<client_queue, unsent, floor, asked>>

Moves ==
    \/ Rests
    \/ \E q \in Queries : Sends(q)
    \/ Takes
    \/ \E a : AnswersHand(a)
    \/ \E id \in Ids : ForwardsHand(id)
    \/ \E id, packet : Relays(id, packet)

\* Pruning removes transactions and changes none (forwarder.cpp:69-77).
LEMMA PrunedFacts ==
    /\ DOMAIN Forwarder!Pruned \subseteq DOMAIN pending_tx
    /\ \A i \in DOMAIN Forwarder!Pruned : Forwarder!Pruned[i] = pending_tx[i]
BY DEF Forwarder!Pruned

\* A lookup that finds nothing removes at most a stale entry.
LEMMA CacheMissFacts ==
    ASSUME NEW q, CacheMiss(q)
    PROVE  CacheShrinks
BY DEF CacheMiss, Cache!LookupAbsent, Cache!LookupStale, Cache!Without,
       CacheShrinks

\* An insertion keeps other entries or drops them, and the new one is stored
\* under its key (cache.cpp:40-70).
LEMMA InsertFacts ==
    ASSUME NEW k, NEW r, NEW ttl, NEW g, Cache!Insert(k, r, ttl, g)
    PROVE  \A x \in DOMAIN table' :
               \/ x \in DOMAIN table /\ table'[x] = table[x]
               \/ x = k /\ table'[x].response = r
<1> DEFINE e == Cache!NewEntry(r, ttl, g)
<1>1. e.response = r
    BY DEF Cache!NewEntry
<1>2. CASE table' = Cache!With(k, e, table)
    BY <1>1, <1>2 DEF Cache!With
<1>3. ASSUME NEW y, table' = Cache!With(k, e, Cache!Without(y))
      PROVE  \A x \in DOMAIN table' :
               \/ x \in DOMAIN table /\ table'[x] = table[x]
               \/ x = k /\ table'[x].response = r
    BY <1>1, <1>3 DEF Cache!With, Cache!Without
<1> QED
    BY <1>2, <1>3
    DEF Cache!Insert, Cache!InsertUpdate, Cache!InsertNew, Cache!InsertEvict

\* While another thread runs, the main thread holds what it held.
LEMMA PublishRests ==
    ASSUME PublishPolicy
    PROVE  Rests
BY DEF PublishPolicy, Manager!Publish, Manager!StoreSnapshot,
       Manager!StoreGeneration, Manager!reader_vars, cache_vars,
       forwarder_vars, loop_vars, client_vars, Rests, Keeps, PendingShrinks

\* An offer, accepted or not, touches only the writer's own state.
LEMMA OfferRests ==
    ASSUME NEW c \in IpcOffers, OfferPolicy(c)
    PROVE  Rests
BY DEF OfferPolicy, Manager!AcceptCandidate,
       Manager!RejectCandidate, Manager!reader_vars, cache_vars,
       forwarder_vars, loop_vars, client_vars, Rests, Keeps, PendingShrinks

\* The loop's own steps, the clock, and a datagram that arrives or is dropped.
LEMMA LoopRests ==
    ASSUME \/ SeedPolicy \/ Stop \/ Tick \/ UNCHANGED vars
           \/ \E events \in SUBSET {"client", "upstream"} : Poll(events)
           \/ \E d \in Forwarder!UpstreamAnswers : ResolverAnswers(d)
           \/ DropResponse
    PROVE  Rests
<1>1. CASE SeedPolicy
    BY <1>1 DEF SeedPolicy, cache_vars, forwarder_vars, client_vars, Rests,
        Keeps, PendingShrinks
<1>2. CASE Stop
    BY <1>2 DEF Stop, cache_vars, forwarder_vars, client_vars, Rests,
        Keeps, PendingShrinks
<1>3. CASE Tick \/ UNCHANGED vars
    BY <1>3 DEF Tick, vars, store_vars, cache_vars, forwarder_vars,
        loop_vars, client_vars, Rests, Keeps, PendingShrinks
<1>4. ASSUME NEW events, Poll(events) PROVE Rests
    BY <1>4 DEF Poll, cache_vars, forwarder_vars, client_vars, Rests,
        Keeps, PendingShrinks
<1>5. CASE DropResponse
  <2>1. PendingShrinks
    BY <1>5 DEF DropResponse, Forwarder!DropStray, Forwarder!DropMismatch,
        Forwarder!Forget, PendingShrinks
  <2> QED
    BY <1>5, <2>1 DEF DropResponse, LeaveUpstreamEvent, cache_vars,
        client_vars, Rests, Keeps
<1>6. ASSUME NEW d, ResolverAnswers(d) PROVE Rests
    BY <1>6 DEF ResolverAnswers, store_vars, cache_vars, forwarder_vars,
        loop_vars, client_vars, Rests, Keeps, PendingShrinks
<1> QED
    BY <1>1, <1>2, <1>3, <1>4, <1>5, <1>6

\* A client's send is the move Sends.
LEMMA SendingSends ==
    ASSUME NEW q \in Queries, ClientSends(q)
    PROVE  Sends(q)
BY DEF ClientSends, Sends, store_vars, cache_vars, forwarder_vars, loop_vars

\* Taking a packet from the client socket is the move Takes, answered or not.
LEMMA ReceivingTakes ==
    ASSUME ReceiveMalformed \/ ReceiveQuery, Store!IInv
    PROVE  Takes
<1>1. CASE ReceiveMalformed
    BY <1>1 DEF ReceiveMalformed, LeaveClientEvent, cache_vars,
        forwarder_vars, Takes
<1>2. CASE ReceiveQuery
  <2>1. snapshot'["main"] = active_snapshot
    BY <1>2 DEF ReceiveQuery, Manager!LoadSnapshot, Store!IInv, Store!TypeOK
  <2> QED
    BY <1>2, <2>1 DEF ReceiveQuery, cache_vars, forwarder_vars, Takes
<1> QED
    BY <1>1, <1>2

\* What every decision has in common.
LEMMA DecideDecides == Decide => Decides
BY DEF Decide, LeaveClientEvent, client_vars, Decides

\* An answer the process makes itself fits the packet it answers.
LEMMA SynthesizedFits ==
    ASSUME NEW q, NEW rcode
    PROVE  Fits(q, Synthesized(q, rcode)) /\ Synthesized(q, rcode).rcode = rcode
BY DEF Fits, Synthesized

\* So does an upstream answer to a question with its name and type.
LEMMA RelayedFits ==
    ASSUME NEW q, NEW packet,
           packet.question.qname = Question[q].qname,
           packet.question.qtype = Question[q].qtype
    PROVE  Fits(q, Relayed(q, packet)) /\ Relayed(q, packet).rcode = "NOERROR"
BY DEF Fits, Relayed

\* Every decision but the forwarded one answers the packet in hand.
LEMMA DecidingAnswers ==
    ASSUME EntriesFit,
           AnswerBlocked \/ AnswerSinkhole \/ ForwardFails \/ AnswerFromCache
    PROVE  \E a : AnswersHand(a)
<1>1. CASE AnswerBlocked
  <2>1. PendingShrinks /\ CacheShrinks
    BY <1>1 DEF AnswerBlocked, cache_vars, forwarder_vars, PendingShrinks,
        CacheShrinks
  <2> QED
    BY <1>1, <2>1, DecideDecides, SynthesizedFits DEF AnswerBlocked, AnswersHand
<1>2. CASE AnswerSinkhole
  <2>1. PendingShrinks /\ CacheShrinks
    BY <1>2 DEF AnswerSinkhole, cache_vars, forwarder_vars, PendingShrinks,
        CacheShrinks
  <2> QED
    BY <1>2, <2>1, DecideDecides, SynthesizedFits DEF AnswerSinkhole, AnswersHand
<1>3. CASE ForwardFails
  <2>1. CacheShrinks
    BY <1>3, CacheMissFacts DEF ForwardFails
  <2>2. PendingShrinks
    BY <1>3, PrunedFacts
    DEF ForwardFails, Forwarder!ForwardRefused, Forwarder!ForwardSendFails,
        PendingShrinks
  <2> QED
    BY <1>3, <2>1, <2>2, DecideDecides, SynthesizedFits
    DEF ForwardFails, AnswersHand
<1>4. CASE AnswerFromCache
  <2> DEFINE k == LookupKey(query)
             e == table[k]
  <2>1. k \in DOMAIN table /\ table' = table
    BY <1>4 DEF AnswerFromCache, Cache!LookupHit, Cache!Cached
  <2>2. EntryFits(k, e)
    BY <2>1 DEF EntriesFit
  <2>3. k[1] = Question[query].qname /\ k[2] = Question[query].qtype
    BY DEF LookupKey, CacheKey
  <2>4. PendingShrinks /\ CacheShrinks
    BY <1>4, <2>1 DEF AnswerFromCache, forwarder_vars, PendingShrinks,
        CacheShrinks
  <2>5. /\ Fits(query, Relayed(query, e.response))
        /\ Relayed(query, e.response).rcode = "NOERROR"
    BY <2>2, <2>3, RelayedFits DEF EntryFits
  <2>6. ~Blocked(query) /\ Answer(query, Relayed(query, e.response))
    BY <1>4 DEF AnswerFromCache, Resolvable
  <2>7. Decides
    BY <1>4, DecideDecides DEF AnswerFromCache
  <2> QED
    BY <2>4, <2>5, <2>6, <2>7 DEF AnswersHand
<1> QED
    BY <1>1, <1>2, <1>3, <1>4

\* A forwarded query is recorded under the id it is asked for with.
LEMMA ForwardingForwards ==
    ASSUME ForwardQuery
    PROVE  \E id \in Ids : ForwardsHand(id)
<1>1. PICK id \in Ids : Forwarder!ForwardSent(query, id)
    BY DEF ForwardQuery
<1>2. /\ pending_tx' = Forwarder!Recorded(Forwarder!Pruned, id, query)
      /\ asked' = asked \cup {[id |-> id, query |-> query]}
    BY <1>1 DEF Forwarder!ForwardSent
<1>3. /\ id \in DOMAIN pending_tx'
      /\ pending_tx'[id].query = query
      /\ \A i \in DOMAIN pending_tx' \ {id} :
            i \in DOMAIN pending_tx /\ pending_tx'[i] = pending_tx[i]
    BY <1>2, PrunedFacts DEF Forwarder!Recorded
<1>4. CacheShrinks
    BY CacheMissFacts DEF ForwardQuery
<1> QED
    BY <1>2, <1>3, <1>4, DecideDecides DEF ForwardQuery, Resolvable, ForwardsHand

\* A relayed answer belongs to the transaction under its id.
LEMMA RelayingRelays ==
    ASSUME RelayResponse
    PROVE  \E id, packet : Relays(id, packet)
<1> DEFINE d == Head(upstream_queue)
           q == pending_tx[d.id].query
           k == CacheKey(Question[q].qname, Question[q].qtype, ClassIN)
<1>1. /\ Forwarder!AcceptResponse(d)
      /\ LeaveUpstreamEvent
      /\ Cache!Insert(k, d, AnswerTtl, global_generation)
      /\ Answer(q, Relayed(q, d))
      /\ UNCHANGED client_vars
    BY DEF RelayResponse
<1>2. k[1] = Question[q].qname /\ k[2] = Question[q].qtype
    BY DEF CacheKey
<1> HIDE DEF d, k
<1>3. /\ d.id \in DOMAIN pending_tx
      /\ d.question.qname = Question[q].qname
      /\ d.question.qtype = Question[q].qtype
      /\ pending_tx' = Forwarder!Forget(d.id)
      /\ asked' = asked
    BY <1>1 DEF Forwarder!AcceptResponse, Forwarder!AnswersTransaction,
        Forwarder!Expected
<1>4. \A x \in DOMAIN table' :
           \/ x \in DOMAIN table /\ table'[x] = table[x]
           \/ EntryFits(x, table'[x])
    BY <1>1, <1>2, <1>3, InsertFacts DEF EntryFits
<1>5. /\ DOMAIN pending_tx' = DOMAIN pending_tx \ {d.id}
      /\ \A i \in DOMAIN pending_tx' : pending_tx'[i] = pending_tx[i]
    BY <1>3 DEF Forwarder!Forget
<1>6. Relays(d.id, d)
    BY <1>1, <1>3, <1>4, <1>5 DEF Relays, LeaveUpstreamEvent, client_vars
<1> QED
    BY <1>6

\* Every step of the process is one of these moves.
LEMMA StepsMove ==
    ASSUME [Next]_vars, EntriesFit, Store!IInv
    PROVE  Moves
<1>1. CASE ServeClient
    BY <1>1, ReceivingTakes, DecidingAnswers, ForwardingForwards
    DEF ServeClient, Moves
<1>2. CASE RelayResponse
    BY <1>2, RelayingRelays DEF Moves
<1> QED
    BY <1>1, <1>2, LoopRests, OfferRests, PublishRests, SendingSends
    DEF Next, MainThread, Moves

-----------------------------------------------------------------------------
(* The loop's own variables.                                               *)

\* Head and tail of the client socket's queue.
LEMMA QueueFacts ==
    ASSUME client_queue \in Seq(Queries), client_queue # <<>>
    PROVE  /\ Head(client_queue) \in Queries
           /\ Head(client_queue) = client_queue[1]
           /\ Tail(client_queue) \in Seq(Queries)
           /\ Len(client_queue) \in Nat \ {0}
           /\ Len(Tail(client_queue)) = Len(client_queue) - 1
           /\ \A i \in 1..Len(Tail(client_queue)) :
                Tail(client_queue)[i] = client_queue[i + 1]
BY HeadTailProperties, LenProperties, EmptySeq

\* The resolver's datagrams have the type the upstream socket's queue needs.
LEMMA UpstreamFacts ==
    ASSUME AskedOK
    PROVE  Forwarder!UpstreamAnswers \subseteq Datagrams
BY DEF AskedOK, Forwarder!UpstreamAnswers, Datagrams

\* Taking one datagram from the upstream socket's queue.
LEMMA UpstreamTailFacts ==
    ASSUME upstream_queue \in Seq(Datagrams), upstream_queue # <<>>
    PROVE  Tail(upstream_queue) \in Seq(Datagrams)
BY HeadTailProperties

\* The loop's own variables keep their types.
LEMMA LoopTyped ==
    ASSUME LoopTypeOK, HasWork, AskedOK, global_generation \in Nat, [Next]_vars
    PROVE  LoopTypeOK' /\ HasWork'
<1> USE DEF LoopTypeOK, HasWork
<1>1. CASE SeedPolicy \/ Stop
    BY <1>1 DEF SeedPolicy, Stop, client_vars
<1>2. CASE \/ Tick \/ PublishPolicy \/ UNCHANGED vars
           \/ \E c \in IpcOffers : OfferPolicy(c)
    BY <1>2 DEF Tick, PublishPolicy, OfferPolicy, vars, loop_vars, client_vars
<1>3. ASSUME NEW events \in SUBSET {"client", "upstream"}, Poll(events)
      PROVE  LoopTypeOK' /\ HasWork'
    BY <1>3 DEF Poll, client_vars
<1>4. CASE ReceiveMalformed \/ ReceiveQuery
  <2>1. main_pc = "client" /\ client_queue' = Tail(client_queue)
    BY <1>4 DEF ReceiveMalformed, ReceiveQuery
  <2>2. client_queue' \in Seq(Queries) /\ Head(client_queue) \in Queries
    BY <2>1, QueueFacts
  <2> QED
    BY <1>4, <2>2 DEF ReceiveMalformed, ReceiveQuery, LeaveClientEvent
<1>5. CASE Decide
    BY <1>5 DEF Decide, LeaveClientEvent, client_vars
<1>6. ASSUME NEW q \in Queries, ClientSends(q)
      PROVE  LoopTypeOK' /\ HasWork'
  <2>1. client_queue' \in Seq(Queries) /\ client_queue' # <<>>
    BY <1>6, AppendProperties, EmptySeq DEF ClientSends
  <2>2. floor' \in [Queries -> Nat]
    BY <1>6 DEF ClientSends
  <2> QED
    BY <1>6, <2>1, <2>2 DEF ClientSends, loop_vars
<1>7. CASE DropResponse \/ RelayResponse
  <2>1. LeaveUpstreamEvent /\ UNCHANGED <<query, client_vars>>
    BY <1>7 DEF DropResponse, RelayResponse
  <2>2. upstream_queue' \in Seq(Datagrams)
    BY <2>1, UpstreamTailFacts DEF LeaveUpstreamEvent
  <2> QED
    BY <2>1, <2>2 DEF LeaveUpstreamEvent, client_vars
<1>8. ASSUME NEW d \in Forwarder!UpstreamAnswers, ResolverAnswers(d)
      PROVE  LoopTypeOK' /\ HasWork'
  <2>1. d \in Datagrams
    BY UpstreamFacts
  <2>2. upstream_queue' \in Seq(Datagrams) /\ upstream_queue' # <<>>
    BY <1>8, <2>1, AppendProperties, EmptySeq DEF ResolverAnswers
  <2> QED
    BY <1>8, <2>2 DEF ResolverAnswers, loop_vars, client_vars
<1> QED
    BY <1>1, <1>2, <1>3, <1>4, <1>5, <1>6, <1>7, <1>8
    DEF Next, MainThread, ServeClient, AnswerBlocked,
        AnswerSinkhole, AnswerFromCache, ForwardQuery, ForwardFails

-----------------------------------------------------------------------------
(* Each move keeps the places apart.                                       *)

\* The queue holds the same packets, or one less, or one more.
LEMMA RestsKeepsPlaces ==
    ASSUME Placed, Rests
    PROVE  Placed'
<1>1. \A q : /\ Queued(q)' <=> Queued(q)
             /\ InHand(q)' => InHand(q)
             /\ Waiting(q)' \subseteq Waiting(q)
             /\ AnswersTo(q)' = AnswersTo(q)
    BY DEF Rests, Keeps, PendingShrinks, Queued, InHand, Waiting, AnswersTo
<1>2. UNCHANGED <<client_queue, unsent, answers>>
    BY DEF Rests, Keeps
<1> QED
    BY <1>1, <1>2 DEF Placed, QueuedOnce, OnePlace

\* A packet that is sent goes to the end of the queue and to no other place.
LEMMA SendsKeepsPlaces ==
    ASSUME Placed, LoopTypeOK, NEW q \in Queries, Sends(q)
    PROVE  Placed'
<1> DEFINE n == Len(client_queue)
<1>1. /\ n \in Nat
      /\ Len(client_queue') = n + 1
      /\ client_queue'[n + 1] = q
      /\ \A i \in 1..n : client_queue'[i] = client_queue[i]
    BY AppendProperties, LenProperties DEF LoopTypeOK, Sends
<1>2. ~Queued(q) /\ ~InHand(q)
    BY DEF Placed, OnePlace, Sends
<1>3. QueuedOnce'
    BY <1>1, <1>2 DEF Placed, QueuedOnce, Queued
<1>4. \A r : r # q => (Queued(r)' <=> Queued(r))
    BY <1>1 DEF Queued
<1>5. \A r : /\ InHand(r)' <=> InHand(r)
             /\ Waiting(r)' = Waiting(r)
             /\ AnswersTo(r)' = AnswersTo(r)
    BY DEF InHand, Waiting, AnswersTo, Sends
<1>6. /\ q \in unsent /\ unsent' = unsent \ {q} /\ answers' = answers
    BY DEF Sends
<1>7. OnePlace'
    BY <1>2, <1>4, <1>5, <1>6 DEF Placed, OnePlace
<1> QED
    BY <1>3, <1>6, <1>7 DEF Placed

\* The head of the queue goes into the loop's hand.
LEMMA TakesKeepsPlaces ==
    ASSUME Placed, LoopTypeOK, HasWork, Takes
    PROVE  Placed'
<1> DEFINE n == Len(client_queue)
<1>1. PICK h \in Queries : h = Head(client_queue)
    BY QueueFacts DEF LoopTypeOK, HasWork, Takes
<1>2. /\ n \in Nat \ {0}
      /\ h = client_queue[1]
      /\ Len(client_queue') = n - 1
      /\ \A i \in 1..(n - 1) : client_queue'[i] = client_queue[i + 1]
    BY <1>1, QueueFacts DEF LoopTypeOK, HasWork, Takes
<1> HIDE DEF n
<1>3. \A i, j \in 1..n : client_queue[i] = client_queue[j] => i = j
    BY DEF Placed, QueuedOnce, n
<1>4. QueuedOnce'
    BY <1>2, <1>3 DEF QueuedOnce
<1>5. Queued(h) /\ ~Queued(h)'
    BY <1>2, <1>3 DEF Queued, n
<1>6. \A q : Queued(q)' => Queued(q)
    BY <1>2 DEF Queued, n
<1>7. \A q : InHand(q)' => q = h
    BY <1>1 DEF InHand, Takes
<1>8. \A q : Waiting(q)' = Waiting(q) /\ AnswersTo(q)' = AnswersTo(q)
    BY DEF Waiting, AnswersTo, Takes
<1>9. unsent' = unsent /\ answers' = answers /\ main_pc = "client"
    BY DEF Takes
<1>10. OnePlace'
  <2>1. \A q : ~InHand(q)
    BY <1>9 DEF InHand
  <2> QED
    BY <1>5, <1>6, <1>7, <1>8, <1>9, <2>1 DEF Placed, OnePlace
<1> QED
    BY <1>4, <1>9, <1>10 DEF Placed

\* The packet in hand is nowhere else, and becomes answered.
LEMMA AnswersKeepsPlaces ==
    ASSUME Placed, HasWork, NEW a, AnswersHand(a)
    PROVE  Placed' /\ query \in Queries /\ Answered(query, a)
<1>1. query \in Queries /\ InHand(query)
    BY DEF HasWork, AnswersHand, Decides, InHand
<1>2. /\ answers[query] = <<>> /\ Waiting(query) = {}
      /\ query \notin unsent /\ ~Queued(query)
    BY <1>1 DEF Placed, OnePlace
<1>3. Answered(query, a)
    BY <1>1, <1>2, AnswerFacts DEF Placed, AnswersHand
<1>4. \A r : /\ Queued(r)' <=> Queued(r)
             /\ ~InHand(r)'
             /\ Waiting(r)' \subseteq Waiting(r)
    BY DEF AnswersHand, Decides, PendingShrinks, Queued, InHand, Waiting
<1>5. UNCHANGED <<client_queue, unsent>>
    BY DEF AnswersHand, Decides
<1>6. OnePlace'
    BY <1>1, <1>2, <1>3, <1>4, <1>5, AnsweredFacts
    DEF Placed, OnePlace, Answered
<1> QED
    BY <1>1, <1>3, <1>5, <1>6 DEF Placed, QueuedOnce, Answered

\* The packet in hand goes into the pending table, under one id.
LEMMA ForwardsKeepsPlaces ==
    ASSUME Placed, HasWork, NEW id, ForwardsHand(id)
    PROVE  Placed'
<1>1. PICK q \in Queries : q = query /\ InHand(q)
    BY DEF HasWork, ForwardsHand, Decides, InHand
<1>2. /\ answers[q] = <<>> /\ Waiting(q) = {}
      /\ q \notin unsent /\ ~Queued(q)
    BY <1>1 DEF Placed, OnePlace
<1>3. /\ Waiting(q)' \subseteq {id}
      /\ \A r : r # q => Waiting(r)' \subseteq Waiting(r)
    BY <1>1, <1>2 DEF ForwardsHand, Waiting
<1>4. \A r : /\ Queued(r)' <=> Queued(r)
             /\ ~InHand(r)'
             /\ AnswersTo(r)' = AnswersTo(r)
    BY DEF ForwardsHand, Decides, Queued, InHand, AnswersTo
<1>5. UNCHANGED <<client_queue, unsent, answers>>
    BY DEF ForwardsHand, Decides
<1>6. OnePlace'
    BY <1>1, <1>2, <1>3, <1>4, <1>5 DEF Placed, OnePlace
<1> QED
    BY <1>5, <1>6 DEF Placed, QueuedOnce

\* The packet that waited under the id waits no more, and becomes answered.
LEMMA RelaysKeepsPlaces ==
    ASSUME Placed, PendingOK, NEW id, NEW packet, Relays(id, packet)
    PROVE  LET q == pending_tx[id].query IN
           Placed' /\ q \in Queries /\ Answered(q, Relayed(q, packet))
<1>1. PICK q \in Queries : q = pending_tx[id].query /\ id \in Waiting(q)
    BY DEF PendingOK, Relays, Waiting
<1>2. /\ answers[q] = <<>>
      /\ q \notin unsent /\ ~Queued(q)
      /\ \A i \in Waiting(q) : i = id
    BY <1>1 DEF Placed, OnePlace
<1>3. Answered(q, Relayed(q, packet))
    BY <1>1, <1>2, AnswerFacts DEF Placed, Relays
<1>4. Waiting(q)' = {} /\ \A r : Waiting(r)' \subseteq Waiting(r)
    BY <1>2 DEF Relays, Waiting
<1>5. \A r : (Queued(r)' <=> Queued(r)) /\ ~InHand(r)'
    BY DEF Relays, Queued, InHand
<1>6. UNCHANGED <<client_queue, unsent>>
    BY DEF Relays
<1>7. OnePlace'
    BY <1>1, <1>2, <1>3, <1>4, <1>5, <1>6, AnsweredFacts
    DEF Placed, OnePlace, Answered
<1>8. Placed'
    BY <1>3, <1>6, <1>7 DEF Placed, QueuedOnce, Answered
<1> QED
    BY <1>1, <1>3, <1>8

-----------------------------------------------------------------------------
(* Each move keeps answers and entries fitting.                            *)

\* Entries that only disappear keep fitting.
LEMMA EntriesKept ==
    ASSUME EntriesFit, CacheShrinks
    PROVE  EntriesFit'
BY DEF EntriesFit, EntryFits, CacheShrinks

\* So do pending transactions.
LEMMA PendingKept ==
    ASSUME PendingOK, PendingShrinks
    PROVE  PendingOK'
BY DEF PendingOK, PendingShrinks

\* Answering one packet with a packet that fits it.
LEMMA AnswersStayFitting ==
    ASSUME AnswerFitsQuery, NEW q \in Queries, NEW a, Answered(q, a), Fits(q, a)
    PROVE  AnswerFitsQuery'
<1>1. \A r \in Queries : \A b \in AnswersTo(r)' : Fits(r, b)
    BY AnsweredFacts DEF AnswerFitsQuery, Fits
<1> QED
    BY <1>1 DEF AnswerFitsQuery, Fits

\* Answers, entries and transactions fit after every move.
LEMMA FittingKept ==
    ASSUME Fitting, Placed, HasWork, Moves
    PROVE  Fitting'
<1> USE DEF Fitting
<1>1. ASSUME UNCHANGED <<answers, asked, table>>, PendingShrinks
      PROVE  Fitting'
    BY <1>1, PendingKept
    DEF AskedOK, EntriesFit, EntryFits, AnswerFitsQuery, AnswersTo
<1>2. CASE Rests \/ (\E q \in Queries : Sends(q)) \/ Takes
  <2>1. UNCHANGED <<answers, asked, table>> /\ PendingShrinks
    BY <1>2 DEF Rests, Keeps, Sends, Takes, PendingShrinks
  <2> QED
    BY <1>1, <2>1
<1>3. ASSUME NEW a, AnswersHand(a) PROVE Fitting'
  <2>1. PICK q \in Queries : q = query /\ Answered(q, a)
    BY <1>3, AnswersKeepsPlaces
  <2>2. Fits(q, a) /\ PendingShrinks /\ CacheShrinks /\ asked' = asked
    BY <1>3, <2>1 DEF AnswersHand, PendingShrinks
  <2>3. AnswerFitsQuery'
    BY <2>1, <2>2, AnswersStayFitting
  <2> QED
    BY <2>2, <2>3, PendingKept, EntriesKept DEF AskedOK
<1>4. ASSUME NEW id \in Ids, ForwardsHand(id) PROVE Fitting'
  <2>1. query \in Queries
    BY <1>4 DEF HasWork, ForwardsHand, Decides
  <2>2. /\ asked' = asked \cup {[id |-> id, query |-> query]}
        /\ CacheShrinks
        /\ answers' = answers
    BY <1>4 DEF ForwardsHand
  <2>3. AskedOK'
    BY <2>1, <2>2 DEF AskedOK
  <2>4. EntriesFit'
    BY <2>2, EntriesKept
  <2>5. PendingOK'
    BY <1>4, <2>1 DEF PendingOK, ForwardsHand
  <2>6. AnswerFitsQuery'
    BY <2>2 DEF AnswerFitsQuery, AnswersTo
  <2> QED
    BY <2>3, <2>4, <2>5, <2>6
<1>5. ASSUME NEW id, NEW packet, Relays(id, packet) PROVE Fitting'
  <2>1. PICK q \in Queries : q = pending_tx[id].query
                            /\ Answered(q, Relayed(q, packet))
    BY <1>5, RelaysKeepsPlaces
  <2>2. Fits(q, Relayed(q, packet))
    BY <1>5, <2>1, RelayedFits DEF Relays
  <2>3. AnswerFitsQuery'
    BY <2>1, <2>2, AnswersStayFitting
  <2>4. asked' = asked /\ PendingOK'
    BY <1>5 DEF Relays, PendingOK
  <2>5. EntriesFit'
    BY <1>5 DEF Relays, EntriesFit, EntryFits
  <2> QED
    BY <2>3, <2>4, <2>5 DEF AskedOK
<1> QED
    BY <1>2, <1>3, <1>4, <1>5 DEF Moves

-----------------------------------------------------------------------------
(* Each move keeps what is resolved allowed.                               *)

\* An installed policy is never forgotten.
LEMMA AllowedStays ==
    ASSUME StoreMoves, NEW q, Allowed(q), floor'[q] = floor[q]
    PROVE  Allowed(q)'
BY DEF Allowed, StoreMoves

\* The policy in the main thread's hands allows the name it lets through.
LEMMA HandAllowed ==
    ASSUME StoreMoves, Governed, main_pc = "decide", query \in Queries,
           ~Blocked(query)
    PROVE  Allowed(query)
BY DEF Allowed, StoreMoves, Governed, SnapshotsInstalled, HandSnapshotRecent,
       Blocked

\* The parts that concern the counter and the snapshot in hand.
LEMMA FloorsKept ==
    ASSUME Governed, Placed, LoopTypeOK, HasWork, StoreMoves, Moves
    PROVE  FloorsReached' /\ HandSnapshotRecent'
<1>1. /\ global_generation \in Nat /\ global_generation' \in Nat
      /\ global_generation' >= global_generation
      /\ active_snapshot.generation \in Nat
      /\ global_generation <= active_snapshot.generation
    BY DEF StoreMoves
<1>2. \A q \in Queries : floor[q] \in Nat /\ floor[q] <= global_generation
    BY DEF Governed, FloorsReached, LoopTypeOK
<1>3. CASE floor' = floor
  <2>1. FloorsReached'
    BY <1>1, <1>2, <1>3 DEF FloorsReached
  <2>2. CASE main_pc' # "decide"
    BY <2>1, <2>2 DEF HandSnapshotRecent
  <2>3. CASE main_pc' = "decide" /\ Rests
    BY <1>3, <2>1, <2>3
    DEF Governed, HandSnapshotRecent, Rests, Keeps
  <2>4. CASE main_pc' = "decide" /\ Takes
    <3>1. Head(client_queue) \in Queries
        BY <2>4, QueueFacts DEF LoopTypeOK, HasWork, Takes
    <3>2. floor[Head(client_queue)] <= active_snapshot.generation
        BY <1>1, <1>2, <3>1
    <3> QED
        BY <1>3, <2>1, <2>4, <3>2 DEF HandSnapshotRecent, Takes
  <2>5. ASSUME NEW q \in Queries, Sends(q), main_pc' = "decide"
        PROVE  HandSnapshotRecent'
    BY <1>3, <2>5 DEF Governed, HandSnapshotRecent, Sends
  <2> QED
    BY <2>1, <2>2, <2>3, <2>4, <2>5
    DEF Moves, AnswersHand, ForwardsHand, Relays, Decides
<1>4. ASSUME NEW q \in Queries, Sends(q)
      PROVE  FloorsReached' /\ HandSnapshotRecent'
  <2>1. /\ floor'[q] = global_generation
        /\ \A r \in Queries \ {q} : floor'[r] = floor[r]
    BY <1>4 DEF Sends, LoopTypeOK
  <2>2. FloorsReached'
    BY <1>1, <1>2, <2>1 DEF FloorsReached
  <2>3. ~InHand(q)
    BY <1>4 DEF Placed, OnePlace, Sends
  <2>4. HandSnapshotRecent'
    BY <1>4, <2>1, <2>3
    DEF Governed, HandSnapshotRecent, HasWork, InHand, Sends
  <2> QED
    BY <2>2, <2>4
<1> QED
    BY <1>3, <1>4 DEF Moves, Rests, Keeps, Takes, AnswersHand, ForwardsHand,
        Relays, Decides

\* Answering one packet, whose name is allowed if it is resolved.
LEMMA AnswersStayAllowed ==
    ASSUME RelayedAllowed, StoreMoves, floor' = floor,
           NEW q \in Queries, NEW a, Answered(q, a),
           a.rcode = "NOERROR" => Allowed(q)
    PROVE  RelayedAllowed'
<1>1. \A r : Allowed(r) => Allowed(r)'
    BY AllowedStays
<1>2. \A r \in Queries : \A b \in AnswersTo(r)' :
        b.rcode = "NOERROR" => Allowed(r)
    BY AnsweredFacts DEF RelayedAllowed
<1> QED
    BY <1>1, <1>2 DEF RelayedAllowed

\* Answers stay governed by a policy in force when their query was sent or later.
LEMMA GovernedKept ==
    ASSUME Governed, Placed, PendingOK, LoopTypeOK, HasWork, StoreMoves, Moves,
           SnapshotsInstalled'
    PROVE  Governed'
<1>1. FloorsReached' /\ HandSnapshotRecent'
    BY FloorsKept
<1>2. ASSUME floor' = floor, NEW q, Allowed(q) PROVE Allowed(q)'
    BY <1>2, AllowedStays
<1>3. ASSUME floor' = floor, PendingShrinks PROVE WaitingAllowed'
  <2>1. \A q \in Queries : Waiting(q)' # {} => Waiting(q) # {}
    BY <1>3 DEF PendingShrinks, Waiting
  <2> QED
    BY <1>2, <1>3, <2>1 DEF Governed, WaitingAllowed
<1>4. ASSUME floor' = floor, answers' = answers PROVE RelayedAllowed'
    BY <1>2, <1>4 DEF Governed, RelayedAllowed, AnswersTo
<1>5. CASE Rests \/ Takes
  <2>1. floor' = floor /\ answers' = answers /\ PendingShrinks
    BY <1>5 DEF Rests, Keeps, Takes, PendingShrinks
  <2> QED
    BY <1>1, <1>3, <1>4, <2>1 DEF Governed
<1>6. ASSUME NEW q \in Queries, Sends(q) PROVE Governed'
  <2>1. Waiting(q) = {} /\ AnswersTo(q) = {}
    BY <1>6, AnswersToFacts DEF Placed, OnePlace, Sends
  <2>2. \A r \in Queries : Waiting(r)' = Waiting(r) /\ AnswersTo(r)' = AnswersTo(r)
    BY <1>6 DEF Sends, Waiting, AnswersTo
  <2>3. \A r \in Queries : r # q /\ Allowed(r) => Allowed(r)'
    BY <1>6, AllowedStays DEF Sends, LoopTypeOK
  <2> QED
    BY <1>1, <2>1, <2>2, <2>3 DEF Governed, WaitingAllowed, RelayedAllowed
<1>7. ASSUME NEW a, AnswersHand(a) PROVE Governed'
  <2>1. PICK q \in Queries : q = query /\ Answered(q, a)
    BY <1>7, AnswersKeepsPlaces
  <2>2. /\ floor' = floor /\ PendingShrinks /\ main_pc = "decide"
        /\ a.rcode = "NOERROR" => ~Blocked(q)
    BY <1>7, <2>1 DEF AnswersHand, Decides
  <2>3. a.rcode = "NOERROR" => Allowed(q)
    BY <2>1, <2>2, HandAllowed
  <2>4. RelayedAllowed'
    BY <2>1, <2>2, <2>3, AnswersStayAllowed DEF Governed
  <2> QED
    BY <1>1, <1>3, <2>2, <2>4 DEF Governed
<1>8. ASSUME NEW id \in Ids, ForwardsHand(id) PROVE Governed'
  <2>1. PICK q \in Queries : q = query
    BY <1>8 DEF HasWork, ForwardsHand, Decides
  <2>2. floor' = floor /\ answers' = answers
    BY <1>8 DEF ForwardsHand, Decides
  <2>3. Allowed(q)
    BY <1>8, <2>1, HandAllowed DEF ForwardsHand, Decides
  <2>4. \A r \in Queries : Waiting(r)' # {} => r = q \/ Waiting(r) # {}
    BY <1>8, <2>1 DEF ForwardsHand, Waiting
  <2>5. WaitingAllowed'
    BY <1>2, <2>2, <2>3, <2>4 DEF Governed, WaitingAllowed
  <2> QED
    BY <1>1, <1>4, <2>2, <2>5 DEF Governed
<1>9. ASSUME NEW id, NEW packet, Relays(id, packet)
      PROVE  Governed'
  <2>1. PICK q \in Queries : q = pending_tx[id].query
                            /\ Answered(q, Relayed(q, packet))
    BY <1>9, RelaysKeepsPlaces
  <2>2. floor' = floor /\ PendingShrinks
    BY <1>9 DEF Relays, PendingShrinks
  <2>3. Allowed(q)
    BY <1>9, <2>1 DEF Relays, Governed, WaitingAllowed, Waiting
  <2>4. RelayedAllowed'
    BY <2>1, <2>2, <2>3, AnswersStayAllowed DEF Governed
  <2> QED
    BY <1>1, <1>3, <2>2, <2>4 DEF Governed
<1> QED
    BY <1>5, <1>6, <1>7, <1>8, <1>9 DEF Moves

-----------------------------------------------------------------------------
\* Initially nothing is sent, pending or cached.
LEMMA InvariantInitially == Init => IInv
<1> SUFFICES ASSUME Init PROVE IInv
    OBVIOUS
<1>1. /\ client_queue = <<>> /\ Len(client_queue) = 0
      /\ main_pc = "seed" /\ unsent = Queries
      /\ DOMAIN pending_tx = {} /\ asked = {} /\ DOMAIN table = {}
      /\ answers = [q \in Queries |-> <<>>]
      /\ floor = [q \in Queries |-> 0]
    BY DEF Init, Forwarder!ForwarderInit, Cache!CacheInit
<1>2. \A q \in Queries : answers[q] = <<>> /\ AnswersTo(q) = {}
    BY <1>1, AnswersToFacts
<1>3. LoopTypeOK /\ HasWork
    BY <1>1, EmptySeq DEF Init, LoopTypeOK, HasWork
<1>4. Placed
    BY <1>1, <1>2
    DEF Placed, QueuedOnce, OnePlace, Queued, InHand, Waiting
<1>5. Fitting
    BY <1>1, <1>2
    DEF Fitting, PendingOK, AskedOK, EntriesFit, AnswerFitsQuery
<1>6. Governed
  <2>1. /\ SnapshotsInstalled
        /\ global_generation = 1
    BY SeedAssumption DEF Init, Manager!Init, SnapshotsInstalled
  <2>2. FloorsReached /\ HandSnapshotRecent
    BY <1>1, <2>1 DEF FloorsReached, HandSnapshotRecent
  <2>3. WaitingAllowed /\ RelayedAllowed
    BY <1>1, <1>2 DEF WaitingAllowed, RelayedAllowed, Waiting
  <2> QED
    BY <2>1, <2>2, <2>3 DEF Governed
<1> QED
    BY <1>3, <1>4, <1>5, <1>6 DEF IInv

\* A step preserves the invariant, given the store's before and after it.
LEMMA InvariantKept ==
    ASSUME IInv, Store!IInv, Store!IInv', [Next]_vars
    PROVE  IInv'
<1> USE DEF IInv
<1>1. StoreMoves
    BY StoreFacts
<1>2. SnapshotsInstalled'
    BY <1>1, SnapshotsStayInstalled DEF Governed
<1>3. Moves
    BY StepsMove DEF Fitting
<1>4. LoopTypeOK' /\ HasWork'
    BY <1>1, LoopTyped DEF StoreMoves, Fitting
<1>5. Placed'
    BY <1>3, RestsKeepsPlaces, SendsKeepsPlaces, TakesKeepsPlaces,
        AnswersKeepsPlaces, ForwardsKeepsPlaces, RelaysKeepsPlaces
    DEF Moves, Fitting
<1>6. Fitting'
    BY <1>3, FittingKept
<1>7. Governed'
    BY <1>1, <1>2, <1>3, GovernedKept DEF Fitting
<1> QED
    BY <1>4, <1>5, <1>6, <1>7

\* The inductive invariant of the process: a packet is in one place, what is
\* kept for it fits it, and what is resolved was allowed by a recent policy.
THEOREM InvariantHolds == Spec => []IInv
<1>1. IInv /\ Store!IInv /\ Store!IInv' /\ [Next]_vars => IInv'
    BY InvariantKept
<1> QED
    BY <1>1, InvariantInitially, StoreInvariant, PTL DEF Spec

\* The loop's variables and the store's keep their types.
THEOREM TypeCorrect == Spec => []TypeOK
<1>1. IInv /\ Store!IInv => TypeOK
    BY DEF IInv, LoopTypeOK, TypeOK, Store!IInv, Store!TypeOK,
        Store!Snapshots, Store!AllOffers, Manager!TypeOK, Manager!Snapshots,
        Manager!AllOffers
<1> QED
    BY <1>1, InvariantHolds, StoreInvariant, PTL

\* No packet is answered twice, nor answered while it waits for the upstream
\* (main.cpp:156-240, forwarder.cpp:131-137).
THEOREM AtMostOnce == Spec => []AnsweredAtMostOnce
<1>1. IInv => AnsweredAtMostOnce
  <2> SUFFICES ASSUME IInv, NEW q \in Queries
               PROVE  Len(answers[q]) + Cardinality(Waiting(q)) <= 1
    BY DEF AnsweredAtMostOnce, Waiting
  <2>1. /\ Waiting(q) # {} => answers[q] = <<>>
        /\ \A i, j \in Waiting(q) : i = j
        /\ answers[q] = <<>> \/ \E a \in AnswersTo(q) : answers[q] = <<a>>
    BY DEF IInv, Placed, OnePlace
  <2>2. Len(answers[q]) = 0 \/ Len(answers[q]) = 1
    <3>1. \A a : Len(<<a>>) = 1
        OBVIOUS
    <3>2. Len(<<>>) = 0
        OBVIOUS
    <3> QED
        BY <2>1, <3>1, <3>2
  <2>3. CASE Waiting(q) = {}
    <3>1. Cardinality(Waiting(q)) = 0
        BY <2>3, FS_EmptySet
    <3>2. CASE Len(answers[q]) = 0
        BY <3>1, <3>2
    <3>3. CASE Len(answers[q]) = 1
        BY <3>1, <3>3
    <3> QED
        BY <2>2, <3>2, <3>3
  <2>4. CASE Waiting(q) # {}
    <3>1. PICK i : Waiting(q) = {i}
        BY <2>1, <2>4
    <3>2. Cardinality(Waiting(q)) = 1
        BY <3>1, FS_Singleton
    <3>3. Len(answers[q]) = 0
        BY <2>1, <2>4
    <3> QED
        BY <3>2, <3>3
  <2> QED
    BY <2>3, <2>4
<1> QED
    BY <1>1, InvariantHolds, PTL

\* Every answer carries its packet's id, name and type, also from the cache
\* and under a reused upstream id (main.cpp:190-194, 226-237).
THEOREM AnswersFit == Spec => []AnswerFitsQuery
<1>1. IInv => AnswerFitsQuery
    BY DEF IInv, Fitting
<1> QED
    BY <1>1, InvariantHolds, PTL

\* A name is resolved only if a policy at least as new as the one the
\* client could know of allows it (main.cpp:158-186, ADR-004).
THEOREM ResolvedAllowed == Spec => []ResolvedOnlyIfAllowed
<1>1. Store!Snapshots = Manager!Snapshots
    BY DEF Store!Snapshots, Store!AllOffers, Manager!Snapshots, Manager!AllOffers
<1>2. IInv => ResolvedOnlyIfAllowed
    BY <1>1 DEF IInv, Governed, RelayedAllowed, Allowed, ResolvedOnlyIfAllowed
<1> QED
    BY <1>2, InvariantHolds, PTL

=============================================================================
