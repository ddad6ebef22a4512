---------------------- MODULE UpstreamForwarderProofs ----------------------
(***************************************************************************)
(* Safety of UpstreamForwarder for any queries, ids, limits and any number *)
(* of datagrams.                                                           *)
(*                                                                         *)
(* AnsweredAtMostOnce is inductive only with the facts that the table is   *)
(* finite (so that its parts can be counted) and that a packet is in at    *)
(* most one of three places: unsent, waiting under one id, or answered.    *)
(* That an answer fits the query needs that every pending id was really    *)
(* asked for that query (PendingWasAsked).                                 *)
(***************************************************************************)
EXTENDS UpstreamForwarderUse, FiniteSetTheorems, TLAPS

Waiting(q) == {i \in DOMAIN pending_tx : pending_tx[i].query = q}

PendingWasAsked ==
    \A i \in DOMAIN pending_tx :
        [id |-> i, query |-> pending_tx[i].query] \in asked

IInv ==
    /\ TypeOK
    /\ IsFiniteSet(DOMAIN pending_tx)
    /\ BoundedPending
    /\ AnsweredAtMostOnce
    /\ PendingWasAsked

-----------------------------------------------------------------------------
(* The tables the operations build.                                        *)

\* Pruning keeps a part of the table as it is.
LEMMA PrunedFacts ==
    ASSUME TypeOK
    PROVE  /\ DOMAIN Pruned \subseteq DOMAIN pending_tx
           /\ \A i \in DOMAIN Pruned : Pruned[i] = pending_tx[i]
           /\ \A i \in DOMAIN pending_tx :
                ~Expired(pending_tx[i]) => i \in DOMAIN Pruned
           /\ Pruned \in [DOMAIN Pruned -> Transactions]
BY DEF Pruned, TypeOK

\* Recording a transaction under a free id leaves the others alone.
LEMMA RecordedFacts ==
    ASSUME TypeOK, NEW q \in Queries, NEW id \in FreeIds(Pruned)
    PROVE  LET r == Recorded(Pruned, id, q) IN
           /\ DOMAIN r = DOMAIN Pruned \cup {id}
           /\ id \notin DOMAIN Pruned
           /\ r[id].query = q
           /\ \A i \in DOMAIN Pruned : r[i] = Pruned[i]
           /\ r \in [DOMAIN r -> Transactions]
<1>1. Pruned \in [DOMAIN Pruned -> Transactions]
    BY PrunedFacts
<1>2. [query |-> q, timestamp |-> clock] \in Transactions
    BY DEF TypeOK, Transactions
<1> QED
    BY <1>1, <1>2 DEF Recorded, FreeIds

\* Forgetting a transaction leaves the others alone.
LEMMA ForgetFacts ==
    ASSUME TypeOK, NEW id
    PROVE  /\ DOMAIN Forget(id) = DOMAIN pending_tx \ {id}
           /\ \A i \in DOMAIN Forget(id) : Forget(id)[i] = pending_tx[i]
           /\ Forget(id) \in [DOMAIN Forget(id) -> Transactions]
BY DEF Forget, TypeOK

-----------------------------------------------------------------------------
(* What a step does, free of the operations' detail.                       *)

\* The table shrinks and nothing else the properties count changes.
Shrinks ==
    /\ DOMAIN pending_tx' \subseteq DOMAIN pending_tx
    /\ pending_tx' \in [DOMAIN pending_tx' -> Transactions]
    /\ \A i \in DOMAIN pending_tx' : pending_tx'[i] = pending_tx[i]
    /\ asked' = asked
    /\ clock' \in Nat
    /\ unsent' \subseteq unsent
    /\ accepted' = accepted

LEMMA ShrinkingKeepsInvariant ==
    ASSUME IInv, Shrinks
    PROVE  IInv'
<1> USE DEF IInv, Shrinks
<1>1. TypeOK'
    BY DEF TypeOK
<1>2. IsFiniteSet(DOMAIN pending_tx)'
    BY FS_Subset
<1>3. BoundedPending'
  <2>1. /\ Cardinality(DOMAIN pending_tx) \in Nat
        /\ Cardinality(DOMAIN pending_tx') \in Nat
    BY <1>2, FS_CardinalityType
  <2>2. Cardinality(DOMAIN pending_tx') <= Cardinality(DOMAIN pending_tx)
    BY FS_Subset
  <2> QED
    BY <2>1, <2>2, ForwarderAssumption DEF BoundedPending
<1>4. AnsweredAtMostOnce'
  <2> SUFFICES ASSUME NEW q \in Queries
               PROVE  /\ q \in unsent' => accepted'[q] = 0 /\ Waiting(q)' = {}
                      /\ accepted'[q] + Cardinality(Waiting(q)') <= 1
    BY DEF AnsweredAtMostOnce, Waiting
  <2>1. Waiting(q)' \subseteq Waiting(q)
    BY DEF Waiting
  <2>2. IsFiniteSet(Waiting(q))
    BY FS_Subset DEF Waiting
  <2>3. /\ IsFiniteSet(Waiting(q)')
        /\ Cardinality(Waiting(q)') <= Cardinality(Waiting(q))
    BY <2>1, <2>2, FS_Subset
  <2>4. Cardinality(Waiting(q)) \in Nat /\ Cardinality(Waiting(q)') \in Nat
    BY <2>2, <2>3, FS_CardinalityType
  <2>5. /\ q \in unsent => accepted[q] = 0 /\ Waiting(q) = {}
        /\ accepted[q] + Cardinality(Waiting(q)) <= 1
    BY DEF AnsweredAtMostOnce, Waiting
  <2>6. accepted[q] \in Nat
    BY DEF TypeOK
  <2> QED
    BY <2>1, <2>3, <2>4, <2>5, <2>6
<1>5. PendingWasAsked'
    BY DEF PendingWasAsked
<1> QED
    BY <1>1, <1>2, <1>3, <1>4, <1>5

\* A query is sent under a free id after pruning.
LEMMA SendingKeepsInvariant ==
    ASSUME IInv, NEW q \in Queries, NEW id \in Ids,
           q \in unsent, ForwardSent(q, id), unsent' = unsent \ {q},
           clock' = clock, accepted' = accepted
    PROVE  IInv'
<1> USE DEF IInv
<1>1. /\ DOMAIN Pruned \subseteq DOMAIN pending_tx
      /\ \A i \in DOMAIN Pruned : Pruned[i] = pending_tx[i]
    BY PrunedFacts
<1>2. /\ DOMAIN pending_tx' = DOMAIN Pruned \cup {id}
      /\ id \notin DOMAIN Pruned
      /\ pending_tx'[id].query = q
      /\ \A i \in DOMAIN Pruned : pending_tx'[i] = Pruned[i]
      /\ pending_tx' \in [DOMAIN pending_tx' -> Transactions]
    BY RecordedFacts DEF ForwardSent
<1>3. asked' = asked \cup {[id |-> id, query |-> q]}
    BY DEF ForwardSent
<1>4. TypeOK'
    BY <1>1, <1>2, <1>3 DEF TypeOK
<1>5. IsFiniteSet(DOMAIN Pruned)
    BY <1>1, FS_Subset
<1>6. IsFiniteSet(DOMAIN pending_tx)'
    BY <1>2, <1>5, FS_AddElement
<1>7. BoundedPending'
  <2>1. Cardinality(DOMAIN Pruned) \in Nat
    BY <1>5, FS_CardinalityType
  <2>2. Cardinality(DOMAIN pending_tx') = Cardinality(DOMAIN Pruned) + 1
    BY <1>2, <1>5, FS_AddElement
  <2>3. Cardinality(DOMAIN Pruned) < MaxPending
    BY DEF ForwardSent
  <2> QED
    BY <2>1, <2>2, <2>3, ForwarderAssumption DEF BoundedPending
<1>8. AnsweredAtMostOnce'
  <2> SUFFICES ASSUME NEW p \in Queries
               PROVE  /\ p \in unsent' => accepted'[p] = 0 /\ Waiting(p)' = {}
                      /\ accepted'[p] + Cardinality(Waiting(p)') <= 1
    BY DEF AnsweredAtMostOnce, Waiting
  <2>1. /\ p \in unsent => accepted[p] = 0 /\ Waiting(p) = {}
        /\ accepted[p] + Cardinality(Waiting(p)) <= 1
        /\ accepted[p] \in Nat
    BY DEF AnsweredAtMostOnce, Waiting, TypeOK
  <2>2. CASE p = q
    <3>1. Waiting(p)' = {id}
        BY <1>1, <1>2, <2>1, <2>2 DEF Waiting
    <3>2. Cardinality(Waiting(p)') = 1
        BY <3>1, FS_Singleton
    <3> QED
        BY <2>1, <2>2, <3>2
  <2>3. CASE p # q
    <3>1. Waiting(p)' \subseteq Waiting(p)
        BY <1>1, <1>2, <2>3 DEF Waiting
    <3>2. IsFiniteSet(Waiting(p))
        BY FS_Subset DEF Waiting
    <3>3. /\ IsFiniteSet(Waiting(p)')
          /\ Cardinality(Waiting(p)') <= Cardinality(Waiting(p))
        BY <3>1, <3>2, FS_Subset
    <3>4. Cardinality(Waiting(p)) \in Nat /\ Cardinality(Waiting(p)') \in Nat
        BY <3>2, <3>3, FS_CardinalityType
    <3> QED
        BY <2>1, <2>3, <3>1, <3>3, <3>4
  <2> QED
    BY <2>2, <2>3
<1>9. PendingWasAsked'
    BY <1>1, <1>2, <1>3 DEF PendingWasAsked
<1> QED
    BY <1>4, <1>6, <1>7, <1>8, <1>9

\* A datagram is accepted: its transaction moves from waiting to answered.
LEMMA AcceptingKeepsInvariant ==
    ASSUME IInv, NEW d, AcceptResponse(d),
           accepted' = [accepted EXCEPT ![pending_tx[d.id].query] = @ + 1],
           UNCHANGED <<clock, unsent>>
    PROVE  IInv'
<1> USE DEF IInv
<1> DEFINE owner == pending_tx[d.id].query
<1>1. d.id \in DOMAIN pending_tx
    BY DEF AcceptResponse
<1>2. owner \in Queries
    BY <1>1 DEF TypeOK, Transactions
<1>3. /\ DOMAIN pending_tx' = DOMAIN pending_tx \ {d.id}
      /\ \A i \in DOMAIN pending_tx' : pending_tx'[i] = pending_tx[i]
      /\ pending_tx' \in [DOMAIN pending_tx' -> Transactions]
      /\ asked' = asked
    BY ForgetFacts DEF AcceptResponse
<1>4. TypeOK'
    BY <1>2, <1>3 DEF TypeOK
<1>5. IsFiniteSet(DOMAIN pending_tx)'
    BY <1>3, FS_Subset
<1>6. BoundedPending'
  <2>1. /\ Cardinality(DOMAIN pending_tx) \in Nat
        /\ Cardinality(DOMAIN pending_tx') \in Nat
    BY <1>5, FS_CardinalityType
  <2>2. Cardinality(DOMAIN pending_tx') <= Cardinality(DOMAIN pending_tx)
    BY <1>3, FS_Subset
  <2> QED
    BY <2>1, <2>2, ForwarderAssumption DEF BoundedPending
<1>7. AnsweredAtMostOnce'
  <2> SUFFICES ASSUME NEW q \in Queries
               PROVE  /\ q \in unsent' => accepted'[q] = 0 /\ Waiting(q)' = {}
                      /\ accepted'[q] + Cardinality(Waiting(q)') <= 1
    BY DEF AnsweredAtMostOnce, Waiting
  <2>1. /\ q \in unsent => accepted[q] = 0 /\ Waiting(q) = {}
        /\ accepted[q] + Cardinality(Waiting(q)) <= 1
        /\ accepted[q] \in Nat
    BY DEF AnsweredAtMostOnce, Waiting, TypeOK
  <2>2. IsFiniteSet(Waiting(q))
    BY FS_Subset DEF Waiting
  <2>3. Cardinality(Waiting(q)) \in Nat
    BY <2>2, FS_CardinalityType
  <2>4. CASE q = owner
    <3>1. d.id \in Waiting(q)
        BY <1>1, <2>4 DEF Waiting
    <3>2. Waiting(q)' = Waiting(q) \ {d.id}
        BY <1>3 DEF Waiting
    <3>3. Cardinality(Waiting(q)') = Cardinality(Waiting(q)) - 1
        BY <2>2, <3>1, <3>2, FS_RemoveElement
    <3>4. accepted'[q] = accepted[q] + 1
        BY <1>2, <2>4 DEF TypeOK
    <3>5. q \notin unsent'
        BY <2>1, <3>1
    <3> QED
        BY <2>1, <2>3, <3>3, <3>4, <3>5
  <2>5. CASE q # owner
    <3>1. Waiting(q)' = Waiting(q)
        BY <1>3, <2>5 DEF Waiting
    <3>2. accepted'[q] = accepted[q]
        BY <2>5 DEF TypeOK
    <3> QED
        BY <2>1, <3>1, <3>2
  <2> QED
    BY <2>4, <2>5
<1>8. PendingWasAsked'
    BY <1>3 DEF PendingWasAsked
<1> QED
    BY <1>4, <1>5, <1>6, <1>7, <1>8

-----------------------------------------------------------------------------
\* The invariant holds initially.
LEMMA InvariantInitially == Init => IInv
<1> SUFFICES ASSUME Init PROVE IInv
    OBVIOUS
<1>1. DOMAIN pending_tx = {} /\ asked = {}
    BY DEF Init, ForwarderInit
<1>2. TypeOK
    BY <1>1 DEF Init, TypeOK, ForwarderInit
<1>3. IsFiniteSet(DOMAIN pending_tx) /\ Cardinality(DOMAIN pending_tx) = 0
    BY <1>1, FS_EmptySet
<1>4. BoundedPending
    BY <1>3, ForwarderAssumption DEF BoundedPending
<1>5. AnsweredAtMostOnce
  <2> SUFFICES ASSUME NEW q \in Queries
               PROVE  /\ q \in unsent => accepted[q] = 0 /\ Waiting(q) = {}
                      /\ accepted[q] + Cardinality(Waiting(q)) <= 1
    BY DEF AnsweredAtMostOnce, Waiting
  <2>1. Waiting(q) = {}
    BY <1>1 DEF Waiting
  <2>2. Cardinality(Waiting(q)) = 0
    BY <2>1, FS_EmptySet
  <2>3. accepted[q] = 0
    BY DEF Init
  <2> QED
    BY <2>1, <2>2, <2>3
<1>6. PendingWasAsked
    BY <1>1 DEF PendingWasAsked
<1> QED
    BY <1>2, <1>3, <1>4, <1>5, <1>6 DEF IInv

\* Every step keeps the invariant.
LEMMA InvariantKept == IInv /\ [Next]_vars => IInv'
<1> SUFFICES ASSUME IInv, [Next]_vars PROVE IInv'
    OBVIOUS
<1>1. ASSUME NEW q \in Queries, Forward(q) PROVE IInv'
  <2>1. CASE \E id \in Ids : ForwardSent(q, id)
    BY <1>1, <2>1, SendingKeepsInvariant DEF Forward
  <2>2. CASE ForwardRefused(q) \/ ForwardSendFails(q)
    <3>1. pending_tx' = Pruned /\ asked' = asked
        BY <2>2 DEF ForwardRefused, ForwardSendFails
    <3>2. Shrinks
        BY <1>1, <3>1, PrunedFacts DEF Forward, Shrinks, IInv, TypeOK
    <3> QED
        BY <3>2, ShrinkingKeepsInvariant
  <2> QED
    BY <1>1, <2>1, <2>2 DEF Forward, ForwardQuery
<1>2. ASSUME NEW d, Receive(d) PROVE IInv'
  <2>1. CASE d.id \in DOMAIN pending_tx /\ AcceptResponse(d)
    BY <1>2, <2>1, AcceptingKeepsInvariant DEF Receive
  <2>2. CASE ~(d.id \in DOMAIN pending_tx /\ AcceptResponse(d))
    <3>1. accepted' = accepted /\ clock' = clock /\ unsent' = unsent
        BY <1>2, <2>2 DEF Receive
    <3>2. DropStray(d) \/ DropMismatch(d)
        BY <1>2, <2>2 DEF Receive, ValidateResponse, AcceptResponse
    <3>3. /\ pending_tx' = pending_tx \/ pending_tx' = Forget(d.id)
          /\ asked' = asked
        BY <3>2 DEF DropStray, DropMismatch
    <3>4. Shrinks
        BY <3>1, <3>3, ForgetFacts DEF Shrinks, IInv, TypeOK
    <3> QED
        BY <3>4, ShrinkingKeepsInvariant
  <2> QED
    BY <2>1, <2>2
<1>3. CASE Tick \/ UNCHANGED vars
  <2>1. Shrinks
    BY <1>3 DEF Tick, vars, forwarder_vars, Shrinks, IInv, TypeOK
  <2> QED
    BY <2>1, ShrinkingKeepsInvariant
<1> QED
    BY <1>1, <1>2, <1>3 DEF Next

THEOREM InvariantHolds == Spec => []IInv
<1> QED
    BY InvariantInitially, InvariantKept, PTL DEF Spec

\* The variables keep their types (pending_tx_ and its callers).
THEOREM TypeCorrect == Spec => []TypeOK
<1>1. IInv => TypeOK
    BY DEF IInv
<1> QED
    BY <1>1, InvariantHolds, PTL

\* The pending table never outgrows its limit (forwarder.cpp:79).
THEOREM TableBounded == Spec => []BoundedPending
<1>1. IInv => BoundedPending
    BY DEF IInv
<1> QED
    BY <1>1, InvariantHolds, PTL

\* Whatever the network repeats or delays, and however ids are reused, no
\* client packet is answered twice (forwarder.cpp:131-137).
THEOREM AtMostOnce == Spec => []AnsweredAtMostOnce
<1>1. IInv => AnsweredAtMostOnce
    BY DEF IInv
<1> QED
    BY <1>1, InvariantHolds, PTL

\* An accepted datagram carries an id the query was sent under, and its
\* question (forwarder.cpp:140-149).
THEOREM AnswerFits == Spec => AcceptedAnswersItsQuestion
<1> DEFINE Fits ==
        \A d \in UpstreamAnswers, q \in Queries :
            Receive(d) /\ accepted'[q] > accepted[q] =>
                /\ [id |-> d.id, query |-> q] \in asked
                /\ <<d.question.qname, d.question.qtype>> = Expected(q)
<1>1. IInv => Fits
  <2> SUFFICES ASSUME IInv, NEW d \in UpstreamAnswers, NEW q \in Queries,
                      Receive(d), accepted'[q] > accepted[q]
               PROVE  /\ [id |-> d.id, query |-> q] \in asked
                      /\ <<d.question.qname, d.question.qtype>> = Expected(q)
    OBVIOUS
  <2>1. accepted \in [Queries -> Nat]
    BY DEF IInv, TypeOK
  <2>2. d.id \in DOMAIN pending_tx /\ AcceptResponse(d)
    BY <2>1 DEF Receive
  <2>3. accepted' = [accepted EXCEPT ![pending_tx[d.id].query] = @ + 1]
    BY <2>2 DEF Receive
  <2>4. q = pending_tx[d.id].query
    BY <2>1, <2>3
  <2>5. <<d.question.qname, d.question.qtype>> = Expected(q)
    BY <2>2, <2>4 DEF AcceptResponse, AnswersTransaction
  <2> QED
    BY <2>2, <2>4, <2>5 DEF IInv, PendingWasAsked
<1>2. IInv /\ [Next]_vars => [Fits]_vars
    BY <1>1
<1> QED
    BY <1>2, InvariantHolds, PTL DEF Spec, AcceptedAnswersItsQuestion

\* A young transaction leaves the table only by an upstream datagram with its
\* id: pruning and id reuse never touch it (forwarder.cpp:45-55, 69-77).
THEOREM YoungSurvives == Spec => YoungTransactionSurvives
<1> DEFINE Survives ==
        \A i \in DOMAIN pending_tx :
            \/ Expired(pending_tx[i])
            \/ i \in DOMAIN pending_tx' /\ pending_tx'[i] = pending_tx[i]
            \/ \E d \in UpstreamAnswers : d.id = i /\ ValidateResponse(d)
<1>1. IInv /\ [Next]_vars => [Survives]_vars
  <2> SUFFICES ASSUME IInv, Next, NEW i \in DOMAIN pending_tx,
                      ~Expired(pending_tx[i]),
                      ~\E d \in UpstreamAnswers : d.id = i /\ ValidateResponse(d)
               PROVE  i \in DOMAIN pending_tx' /\ pending_tx'[i] = pending_tx[i]
    OBVIOUS
  <2> TypeOK
    BY DEF IInv
  <2>1. ASSUME NEW q \in Queries, Forward(q)
        PROVE  i \in DOMAIN pending_tx' /\ pending_tx'[i] = pending_tx[i]
    <3>1. i \in DOMAIN Pruned /\ Pruned[i] = pending_tx[i]
        BY PrunedFacts
    <3>2. CASE \E id \in Ids : ForwardSent(q, id)
      <4>1. PICK id \in Ids : ForwardSent(q, id)
        BY <3>2
      <4>2. id \in FreeIds(Pruned) /\ pending_tx' = Recorded(Pruned, id, q)
        BY <4>1 DEF ForwardSent
      <4>3. /\ DOMAIN pending_tx' = DOMAIN Pruned \cup {id}
            /\ \A j \in DOMAIN Pruned : pending_tx'[j] = Pruned[j]
        BY <4>2, RecordedFacts
      <4> QED
        BY <3>1, <4>3
    <3>3. CASE ForwardRefused(q) \/ ForwardSendFails(q)
        BY <3>1, <3>3 DEF ForwardRefused, ForwardSendFails
    <3> QED
        BY <2>1, <3>2, <3>3 DEF Forward, ForwardQuery
  <2>2. ASSUME NEW d \in UpstreamAnswers, Receive(d)
        PROVE  i \in DOMAIN pending_tx' /\ pending_tx'[i] = pending_tx[i]
    <3>1. ValidateResponse(d) /\ d.id # i
        BY <2>2 DEF Receive
    <3>2. pending_tx' = pending_tx \/ pending_tx' = Forget(d.id)
        BY <3>1 DEF ValidateResponse, DropStray, DropMismatch, AcceptResponse
    <3> QED
        BY <3>1, <3>2, ForgetFacts
  <2>3. ASSUME NEW d \in StrayDatagrams, Receive(d)
        PROVE  i \in DOMAIN pending_tx' /\ pending_tx'[i] = pending_tx[i]
    <3>1. ~WellFormed(d)
        BY DEF StrayDatagrams, WellFormed
    <3>2. pending_tx' = pending_tx
        BY <2>3, <3>1 DEF Receive, ValidateResponse, DropStray, DropMismatch,
                          AcceptResponse
    <3> QED
        BY <3>2
  <2>4. CASE Tick
    BY <2>4 DEF Tick, forwarder_vars
  <2> QED
    BY <2>1, <2>2, <2>3, <2>4 DEF Next
<1> QED
    BY <1>1, InvariantHolds, PTL DEF Spec, YoungTransactionSurvives

=============================================================================
