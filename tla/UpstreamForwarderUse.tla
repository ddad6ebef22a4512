------------------------ MODULE UpstreamForwarderUse ------------------------
(***************************************************************************)
(* UpstreamForwarder driven as main() drives it: each client packet is     *)
(* forwarded at most once, datagrams arrive in any order, time passes.     *)
(***************************************************************************)
EXTENDS UpstreamForwarder

CONSTANTS
    MaxTime    \* bound: the clock stops here

ASSUME UseAssumption == MaxTime \in Nat

VARIABLES
    unsent,     \* packets not yet passed to forward_query
    accepted    \* history: how often each query was answered

vars == <<forwarder_vars, clock, unsent, accepted>>

Init ==
    /\ ForwarderInit
    /\ clock = 0
    /\ unsent = Queries
    /\ accepted = [q \in Queries |-> 0]

Forward(q) ==
    /\ q \in unsent
    /\ ForwardQuery(q)
    /\ unsent' = unsent \ {q}
    /\ UNCHANGED <<clock, accepted>>

Receive(d) ==
    /\ ValidateResponse(d)
    /\ accepted' = IF d.id \in DOMAIN pending_tx /\ AcceptResponse(d)
                   THEN [accepted EXCEPT ![pending_tx[d.id].query] = @ + 1]
                   ELSE accepted
    /\ UNCHANGED <<clock, unsent>>

Tick ==
    /\ clock < MaxTime
    /\ clock' = clock + 1
    /\ UNCHANGED <<forwarder_vars, unsent, accepted>>

Next ==
    \/ \E q \in Queries : Forward(q)
    \/ \E d \in UpstreamAnswers \cup StrayDatagrams : Receive(d)
    \/ Tick

Spec == Init /\ [][Next]_vars

-----------------------------------------------------------------------------
\* Types of all variables.
TypeOK ==
    /\ DOMAIN pending_tx \subseteq Ids
    /\ pending_tx \in [DOMAIN pending_tx -> Transactions]
    /\ asked \subseteq [id : Ids, query : Queries]
    /\ clock \in Nat
    /\ unsent \subseteq Queries
    /\ accepted \in [Queries -> Nat]

\* The table is bounded, so a free id can always be drawn (ADR-001,
\* "bounded to 2,048 entries").
BoundedPending == Cardinality(DOMAIN pending_tx) <= MaxPending

\* Whatever the network duplicates or delays, a client gets at most one
\* upstream answer per packet, and none while the query is still pending.
AnsweredAtMostOnce ==
    \A q \in Queries :
        LET waiting == {i \in DOMAIN pending_tx : pending_tx[i].query = q} IN
        /\ q \in unsent => accepted[q] = 0 /\ waiting = {}
        /\ accepted[q] + Cardinality(waiting) <= 1

\* A query is answered only by a datagram that carries an id the query was
\* sent under and its name and type, even when the id was reused after
\* pruning and the datagram is a late answer to its previous use.
AcceptedAnswersItsQuestion ==
    [][\A d \in UpstreamAnswers, q \in Queries :
        Receive(d) /\ accepted'[q] > accepted[q] =>
            /\ [id |-> d.id, query |-> q] \in asked
            /\ <<d.question.qname, d.question.qtype>> = Expected(q)]_vars

\* A transaction younger than the pruning age leaves the table only by a
\* datagram of the upstream that carries its id: forwarding other queries
\* neither drops it nor takes its id.
YoungTransactionSurvives ==
    [][\A i \in DOMAIN pending_tx :
        \/ Expired(pending_tx[i])
        \/ i \in DOMAIN pending_tx' /\ pending_tx'[i] = pending_tx[i]
        \/ \E d \in UpstreamAnswers : d.id = i /\ ValidateResponse(d)]_vars

=============================================================================
