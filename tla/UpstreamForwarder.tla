------------------------- MODULE UpstreamForwarder -------------------------
(***************************************************************************)
(* dataplane::dns::UpstreamForwarder (forwarder.h/.cpp): client queries    *)
(* are sent to the upstream resolver under a fresh transaction id, and a   *)
(* datagram from the upstream socket is matched against the table of       *)
(* pending transactions.                                                   *)
(*                                                                         *)
(* Both operations run on the main thread; each is one step.  The upstream *)
(* resolver and the UDP path to it are outside the code: whatever was ever *)
(* sent (asked) may be answered at any later time, any number of times, in *)
(* any order, or never, which covers loss, delay, duplication and          *)
(* reordering without keeping the packets in flight.                       *)
(*                                                                         *)
(* The outcome an operation returns is the action that models it.          *)
(* A query token stands for one received client packet: its transaction    *)
(* id, its sender and its question, which the table copies.                *)
(***************************************************************************)
EXTENDS Integers, FiniteSets

CONSTANTS
    Queries,      \* tokens of client packets
    Question,     \* Question[q]: a record [qname, qtype, qclass]
    Ids,          \* upstream transaction ids (1..65535)
    MaxPending,   \* 2048
    PruneAge      \* 2000 ms

\* generate_unique_txid loops until it draws a free id: there is one as long
\* as the table limit is below the number of ids.
ASSUME ForwarderAssumption ==
    /\ MaxPending \in Nat \ {0}
    /\ PruneAge \in Nat
    /\ \A S \in SUBSET Ids : Cardinality(S) < MaxPending => Ids \ S # {}

VARIABLES
    pending_tx,   \* pending_tx_: function on the ids in use
    asked,        \* [id, query] pairs ever sent upstream
    clock         \* steady_clock

forwarder_vars == <<pending_tx, asked>>

\* PendingTransaction.  expected_qname and expected_qtype are those of the
\* packet the token stands for; its class is not recorded.
Transactions == [query : Queries, timestamp : Nat]
Expected(q) == <<Question[q].qname, Question[q].qtype>>

\* A datagram on the upstream socket, as far as validate_response looks: who
\* sent it, whether it is long enough, a response and parseable, its id and
\* its question.
UpstreamAnswers ==
    {[from |-> "upstream", form |-> f, id |-> a.id, question |-> Question[a.query]] :
        f \in {"answer", "garbled"}, a \in asked}
StrayDatagrams ==
    {[from |-> s, form |-> f, id |-> i, question |-> Question[q]] :
        s \in {"upstream", "other"}, f \in {"short", "query"},
        i \in Ids, q \in Queries}
    \cup {[from |-> "other", form |-> "answer", id |-> i, question |-> Question[q]] :
            i \in Ids, q \in Queries}

ForwarderInit ==
    /\ pending_tx = [i \in {} |-> 0]
    /\ asked = {}

-----------------------------------------------------------------------------
(* forward_query                                                           *)

Expired(tx) == clock - tx.timestamp > PruneAge

\* The table after the pruning loop every call starts with.
Pruned == [i \in {j \in DOMAIN pending_tx : ~Expired(pending_tx[j])}
                |-> pending_tx[i]]

\* Fault: a drawn id is not looked up in the table.
FreeIdsUnchecked(table) == Ids

FreeIds(table) == Ids \ DOMAIN table

Recorded(table, id, q) ==
    [i \in DOMAIN table \cup {id} |->
        IF i = id THEN [query |-> q, timestamp |-> clock] ELSE table[i]]

\* BUFFER_OVERFLOW: the table is full even after pruning.
ForwardRefused(q) ==
    /\ Cardinality(DOMAIN Pruned) >= MaxPending
    /\ pending_tx' = Pruned
    /\ UNCHANGED asked

\* Fault: the limit is compared with > instead of >=.
ForwardSentOneMore(q, id) ==
    /\ Cardinality(DOMAIN Pruned) <= MaxPending
    /\ id \in FreeIds(Pruned)
    /\ pending_tx' = Recorded(Pruned, id, q)
    /\ asked' = asked \cup {[id |-> id, query |-> q]}

ForwardSent(q, id) ==
    /\ Cardinality(DOMAIN Pruned) < MaxPending
    /\ id \in FreeIds(Pruned)
    /\ pending_tx' = Recorded(Pruned, id, q)
    /\ asked' = asked \cup {[id |-> id, query |-> q]}

\* Fault: after a failed sendto a record stays, under the id 0.
ForwardSendFailsRecorded(q) ==
    /\ Cardinality(DOMAIN Pruned) < MaxPending
    /\ pending_tx' = Recorded(Pruned, 0, q)
    /\ UNCHANGED asked

\* UPSTREAM_ERROR: sendto fails and the record just made is taken out again.
ForwardSendFails(q) ==
    /\ Cardinality(DOMAIN Pruned) < MaxPending
    /\ pending_tx' = Pruned
    /\ UNCHANGED asked

ForwardQuery(q) ==
    \/ ForwardRefused(q)
    \/ \E id \in Ids : ForwardSent(q, id)
    \/ ForwardSendFails(q)

-----------------------------------------------------------------------------
(* validate_response                                                       *)

\* The checks made before the table is consulted.
WellFormed(d) == d.from = "upstream" /\ d.form \notin {"short", "query"}

\* Fault: the question of the answer is not compared.
AnswersTransactionById(d, tx) == d.form # "garbled"

\* The check made after the matched transaction has been erased.
AnswersTransaction(d, tx) ==
    /\ d.form # "garbled"
    /\ <<d.question.qname, d.question.qtype>> = Expected(tx.query)

Forget(id) == [i \in DOMAIN pending_tx \ {id} |-> pending_tx[i]]

\* UNEXPECTED_RESPONSE or PACKET_TOO_SHORT: no transaction is touched.
DropStray(d) ==
    /\ ~(WellFormed(d) /\ d.id \in DOMAIN pending_tx)
    /\ UNCHANGED <<pending_tx, asked>>

\* UNEXPECTED_RESPONSE or a parse error: the id matches but the question does
\* not, and the transaction is gone.
DropMismatch(d) ==
    /\ WellFormed(d) /\ d.id \in DOMAIN pending_tx
    /\ ~AnswersTransaction(d, pending_tx[d.id])
    /\ pending_tx' = Forget(d.id)
    /\ UNCHANGED asked

\* Fault: the matched transaction is not erased.
AcceptResponseKeeping(d) ==
    /\ WellFormed(d) /\ d.id \in DOMAIN pending_tx
    /\ AnswersTransaction(d, pending_tx[d.id])
    /\ UNCHANGED <<pending_tx, asked>>

\* The transaction is returned to the caller and is pending no more.
AcceptResponse(d) ==
    /\ WellFormed(d) /\ d.id \in DOMAIN pending_tx
    /\ AnswersTransaction(d, pending_tx[d.id])
    /\ pending_tx' = Forget(d.id)
    /\ UNCHANGED asked

ValidateResponse(d) == DropStray(d) \/ DropMismatch(d) \/ AcceptResponse(d)

=============================================================================
