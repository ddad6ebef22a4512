-------------------------- MODULE ManagementProofs --------------------------
(***************************************************************************)
(* What the operator is told and shown by Management, for any calls,       *)
(* policies, clients, buffer sizes, stops and restarts.                    *)
(*                                                                         *)
(* The counters need that no call is counted twice: a post that is under   *)
(* way has been counted, an idle one has not, and a failure is counted in  *)
(* the step before its answer, and in no other.  The truth of an answer      *)
(* rests on the worker serving one connection at a time: a policy is       *)
(* installed while its connection is open, the connection closes with the  *)
(* reply, and no client connects twice, so nothing that was told can       *)
(* become wrong.  That a status is not older than an ACTIVATED needs the   *)
(* chain from what was acknowledged to the reply: nothing newer than the   *)
(* counter is ever told, and a get is answered from the counter.           *)
(***************************************************************************)
EXTENDS ManagementTypes, FiniteSetTheorems

-----------------------------------------------------------------------------
(* The counters.                                                           *)

\* The posts whose failure is counted, told or about to be told.
Failed ==
    {c \in counted : \/ call_pc[c] \in {"refused", "unreachable", "rejected"}
                     \/ call_pc[c] = "done" /\ answer[c].status # "ACTIVATED"}

CountersExact ==
    /\ reloadsTotal = Cardinality(counted)
    /\ reloadFailuresTotal = Cardinality(Failed)

EachPostIsCounted ==
    \A c \in Posts :
        /\ call_pc[c] = "idle" => c \notin counted
        /\ InFlight(c) => c \in counted
        /\ c \in counted => InFlight(c) \/ call_pc[c] = "done"

\* What a scrape has loaded is not more than there is.
LoadedInThePast ==
    \A c \in Gets : call_pc[c] = "scraping" => page[c].reloads <= reloadsTotal

CounterInv == CountersExact /\ EachPostIsCounted /\ LoadedInThePast

\* Posts can be counted.
LEMMA CountedIsFinite ==
    ASSUME CallTypes
    PROVE  /\ IsFiniteSet(counted) /\ IsFiniteSet(Failed)
           /\ Cardinality(counted) \in Nat /\ Cardinality(Failed) \in Nat
<1>1. IsFiniteSet(counted)
    BY FS_Subset, ControlPlaneAssumption DEF CallTypes, Calls
<1>2. IsFiniteSet(Failed)
    BY <1>1, FS_Subset DEF Failed
<1> QED
    BY <1>1, <1>2, FS_CardinalityType

\* A failure is counted once, by a post that had none.
LEMMA CountingBalances ==
    ASSUME CallTypes, CounterInv, NEW c \in Calls, Count(c)
    PROVE  CounterInv'
<1>1. PICK place \in {"refused", "unreachable", "rejected"} : CountFailure(c, place)
    BY CountSteps
<1>2. /\ call_pc' = [call_pc EXCEPT ![c] = place]
      /\ UNCHANGED <<reloadsTotal, counted, answer, page>>
      /\ reloadFailuresTotal' = reloadFailuresTotal + 1
    BY <1>1 DEF CountFailure, GoTo
<1>3. c \in Posts /\ call_pc[c] \in {"received", "failed", "returned"}
    BY CountSteps
<1>4. c \in counted /\ c \notin Failed
    BY <1>3 DEF CounterInv, EachPostIsCounted, InFlight, Failed
<1>5. Failed' = Failed \cup {c}
    BY <1>2, <1>4 DEF Failed, CallTypes, Calls
<1>6. Cardinality(Failed') = Cardinality(Failed) + 1
    BY <1>4, <1>5, CountedIsFinite, FS_AddElement
<1>7. CountersExact'
    BY <1>2, <1>6 DEF CounterInv, CountersExact
<1>8. EachPostIsCounted'
    BY <1>2, <1>3, <1>4 DEF CounterInv, EachPostIsCounted, InFlight, CallTypes, Calls
<1>9. LoadedInThePast'
    BY <1>2 DEF CounterInv, LoadedInThePast, CallTypes, Calls
<1> QED
    BY <1>7, <1>8, <1>9 DEF CounterInv

\* The answer that follows adds no failure.
LEMMA AnsweringBalances ==
    ASSUME CallTypes, CounterInv, NEW c \in Calls, Answer(c)
    PROVE  CounterInv'
<1>1. PICK st, n : /\ Tell(c, st, n)
                   /\ \/ c \in Gets
                      \/ st # "ACTIVATED" /\ call_pc[c] \in {"refused", "unreachable", "rejected"}
                      \/ st = "ACTIVATED" /\ call_pc[c] = "returned"
    BY AnswerSteps
<1>2. /\ call_pc' = [call_pc EXCEPT ![c] = "done"]
      /\ answer' = [answer EXCEPT ![c] = [status |-> st, generation |-> n]]
      /\ UNCHANGED <<reloadsTotal, reloadFailuresTotal, counted, page>>
    BY <1>1 DEF Tell, GoTo, counter_vars
<1>3. Failed' = Failed
    <2>1. counted \subseteq Posts /\ Posts \subseteq Calls /\ Gets \cap Posts = {}
        BY ControlPlaneAssumption DEF CallTypes, Calls
    <2> QED
        BY <1>1, <1>2, <2>1 DEF Failed, CallTypes
<1>4. CountersExact'
    BY <1>2, <1>3 DEF CounterInv, CountersExact
<1>5. InFlight(c)
    BY AnswerSteps DEF InFlight
<1>6. EachPostIsCounted'
    BY <1>2, <1>5 DEF CounterInv, EachPostIsCounted, InFlight, CallTypes, Calls
<1>7. LoadedInThePast'
    BY <1>2 DEF CounterInv, LoadedInThePast, CallTypes, Calls
<1> QED
    BY <1>4, <1>6, <1>7 DEF CounterInv

\* A call that moves on without an answer changes no failure.
LEMMA MovingOnBalances ==
    ASSUME CallTypes, CounterInv, NEW c \in Calls,
           call_pc[c] \in {"received", "scraping", "dial", "send", "sending", "await"},
           NEW place \in {"send", "sending", "await", "dial", "failed", "returned"}, GoTo(c, place),
           UNCHANGED <<counter_vars, answer>>,
           \A d \in Gets : d # c => page'[d] = page[d]
    PROVE  CounterInv'
<1>1. /\ call_pc' = [call_pc EXCEPT ![c] = place]
      /\ counted' = counted /\ answer' = answer
      /\ reloadsTotal' = reloadsTotal /\ reloadFailuresTotal' = reloadFailuresTotal
    BY DEF GoTo, counter_vars
<1>2. Failed' = Failed
    BY <1>1 DEF Failed, InFlight, CallTypes, Calls
<1>3. CountersExact'
    BY <1>1, <1>2 DEF CounterInv, CountersExact
<1>4. EachPostIsCounted'
    BY <1>1 DEF CounterInv, EachPostIsCounted, InFlight, CallTypes, Calls
<1>5. LoadedInThePast'
    <2> SUFFICES ASSUME NEW d \in Gets, call_pc'[d] = "scraping"
                 PROVE  page'[d].reloads <= reloadsTotal'
        BY DEF LoadedInThePast
    <2>1. d # c /\ call_pc[d] = "scraping"
        BY <1>1 DEF CallTypes, Calls
    <2> QED
        BY <1>1, <2>1 DEF CounterInv, LoadedInThePast
<1> QED
    BY <1>3, <1>4, <1>5 DEF CounterInv

\* A call that is received is no failure yet.
LEMMA ReceivingBalances ==
    ASSUME CallTypes, CounterInv, NEW c \in Calls, call_pc[c] = "idle",
           NEW place \in {"received", "scraping", "dial"}, GoTo(c, place),
           UNCHANGED <<answer, reloadFailuresTotal>>,
           \A d \in Gets : d # c => page'[d] = page[d],
           place = "scraping" => page'[c].reloads = reloadsTotal,
           \/ c \in Posts /\ counted' = counted \cup {c} /\ reloadsTotal' = reloadsTotal + 1
           \/ c \notin Posts /\ UNCHANGED <<counted, reloadsTotal>>
    PROVE  CounterInv'
<1>1. call_pc' = [call_pc EXCEPT ![c] = place] /\ answer' = answer
    BY DEF GoTo
<1>2. c \notin Failed
    BY DEF Failed
<1>3. Failed' = Failed
    BY <1>1, <1>2 DEF Failed, CallTypes, Calls
<1>4. reloadsTotal' \in Nat /\ reloadsTotal <= reloadsTotal' /\ reloadsTotal \in Nat
    BY DEF CallTypes
<1>5. CountersExact'
    <2>1. reloadsTotal' = Cardinality(counted')
        <3>1. CASE c \in Posts
            <4>1. c \notin counted
                BY <3>1 DEF CounterInv, EachPostIsCounted
            <4>2. Cardinality(counted \cup {c}) = Cardinality(counted) + 1
                BY <4>1, CountedIsFinite, FS_AddElement
            <4> QED
                BY <3>1, <4>2 DEF CounterInv, CountersExact
        <3> QED
            BY <3>1 DEF CounterInv, CountersExact
    <2> QED
        BY <1>3, <2>1 DEF CounterInv, CountersExact
<1>6. EachPostIsCounted'
    BY <1>1 DEF CounterInv, EachPostIsCounted, InFlight, CallTypes, Calls
<1>7. LoadedInThePast'
    <2> SUFFICES ASSUME NEW d \in Gets, call_pc'[d] = "scraping"
                 PROVE  page'[d].reloads <= reloadsTotal'
        BY DEF LoadedInThePast
    <2>1. CASE d = c
        <3>1. place = "scraping"
            BY <1>1, <2>1 DEF CallTypes, Calls
        <3> QED
            BY <1>4, <2>1, <3>1
    <2>2. CASE d # c
        <3>1. call_pc[d] = "scraping" /\ page[d].reloads \in Nat
            BY <1>1, <2>2 DEF CallTypes, Calls
        <3> QED
            BY <1>4, <2>2, <3>1 DEF CounterInv, LoadedInThePast
    <2> QED
        BY <2>1, <2>2
<1> QED
    BY <1>5, <1>6, <1>7 DEF CounterInv

\* The counters are kept in balance by every step,
LEMMA CounterInvKept ==
    ASSUME CallTypes, CounterInv, [Next]_mvars
    PROVE  CounterInv'
<1>1. ASSUME UNCHANGED <<counter_vars, call_pc, page, answer>>  PROVE CounterInv'
    BY <1>1 DEF CounterInv, CountersExact, Failed, EachPostIsCounted, LoadedInThePast, InFlight,
       counter_vars
<1>2. CASE UNCHANGED call_vars \/ DataplaneRestarts \/ UNCHANGED mvars
    BY <1>1, <1>2 DEF DataplaneRestarts, mvars, vars, call_vars
<1>3. ASSUME NEW c \in Posts, NEW b \in Bodies[c], ReceivePost(c, b)  PROVE CounterInv'
    BY <1>3, ReceivingBalances DEF ReceivePost, Calls
<1>4. ASSUME NEW c \in Gets, ReceiveQuery(c)  PROVE CounterInv'
    BY <1>4, ReceivingBalances, ControlPlaneAssumption DEF ReceiveQuery, Calls, counter_vars
<1>5. ASSUME NEW c \in Gets, LoadFirst(c)  PROVE CounterInv'
    <2>1. page' = [page EXCEPT ![c].reloads = reloadsTotal]
        BY <1>5 DEF LoadFirst, Load, LoadOrder
    <2>2. page'[c].reloads = reloadsTotal /\ \A d \in Gets : d # c => page'[d] = page[d]
        BY <2>1 DEF CallTypes
    <2> QED
        BY <1>5, <2>2, ReceivingBalances, ControlPlaneAssumption DEF LoadFirst, Calls, counter_vars
<1>6. ASSUME NEW c \in Gets, LoadSecond(c)  PROVE CounterInv'
    <2>1. page' = [page EXCEPT ![c].failures = reloadFailuresTotal]
        BY <1>6 DEF LoadSecond, Load, LoadOrder
    <2>2. \A d \in Gets : d # c => page'[d] = page[d]
        BY <2>1 DEF CallTypes
    <2>3. call_pc[c] = "scraping" /\ c \in Calls
        BY <1>6 DEF LoadSecond, Calls
    <2> QED
        BY <1>6, <2>2, <2>3, MovingOnBalances DEF LoadSecond
<1>7. ASSUME NEW c \in Calls, Count(c) \/ Answer(c)  PROVE CounterInv'
    BY <1>7, CountingBalances, AnsweringBalances
<1>8. ASSUME NEW c \in Calls, Dial(c) \/ Send(c) \/ SendRest(c) \/ Returns(c)  PROVE CounterInv'
    <2>1. call_pc[c] \in {"received", "scraping", "dial", "send", "sending", "await"}
        BY <1>8, ReturnSteps DEF Dial, ReadyToDial, Send, SendRest
    <2>2. \E place \in {"send", "sending", "await", "failed", "returned"} : GoTo(c, place)
        BY <1>8, ReturnSteps DEF Dial, Send, SendRest, Return
    <2>3. UNCHANGED <<counter_vars, page, answer>>
        BY <1>8, ReturnSteps DEF Dial, Send, SendRest, Return
    <2> QED
        BY <2>1, <2>2, <2>3, MovingOnBalances
<1>9. CASE Outage
    <2>1. /\ reloadsTotal' = 0 /\ reloadFailuresTotal' = 0 /\ counted' = {}
          /\ call_pc' = [c \in Calls |-> IF InFlight(c) THEN "lost" ELSE call_pc[c]]
        BY <1>9 DEF Outage, ControlPlaneRestarts
    <2>2. Failed' = {}
        BY <2>1 DEF Failed
    <2>3. CountersExact'
        BY <2>1, <2>2, FS_EmptySet DEF CountersExact
    <2>4. EachPostIsCounted'
        BY <2>1 DEF EachPostIsCounted, InFlight, Calls
    <2>5. LoadedInThePast'
        BY <2>1 DEF LoadedInThePast, InFlight, Calls
    <2> QED
        BY <2>3, <2>4, <2>5 DEF CounterInv
<1>10. ASSUME NEW o \in Others, Other(o)  PROVE CounterInv'
    BY <1>2, <1>10 DEF Other, OtherLeaves, OtherConnects
<1>11. ASSUME NEW c \in Calls, LocalStep(c)  PROVE CounterInv'
    <2>1. ReceiveQuery(c) \/ LoadFirst(c) \/ LoadSecond(c) => c \in Gets
        BY DEF ReceiveQuery, LoadFirst, LoadSecond
    <2> QED
        BY <1>3, <1>4, <1>5, <1>6, <1>7, <1>8, <1>11, <2>1 DEF LocalStep
<1> QED
    BY <1>2, <1>8, <1>9, <1>10, <1>11, StepKinds

\* and hence hold throughout.
LEMMA CounterInvHolds == Spec => []CounterInv
<1>1. Init => CounterInv
    <2> SUFFICES ASSUME Init  PROVE CounterInv
        OBVIOUS
    <2>1. Failed = {} /\ counted = {} /\ reloadsTotal = 0 /\ reloadFailuresTotal = 0
        BY DEF Init, ControlPlaneInit, Failed
    <2>2. CountersExact
        BY <2>1, FS_EmptySet DEF CountersExact
    <2>3. EachPostIsCounted /\ LoadedInThePast
        BY DEF Init, ControlPlaneInit, EachPostIsCounted, LoadedInThePast, InFlight, Calls
    <2> QED
        BY <2>2, <2>3 DEF CounterInv
<1>2. Types /\ CounterInv /\ [Next]_mvars => CounterInv'
    BY CounterInvKept DEF Types
<1> QED
    BY <1>1, <1>2, TypesHold, PTL DEF Spec

\* What the callers were told brackets the counters.
LEMMA ExactCountersBalance ==
    ASSUME CallTypes, CounterInv
    PROVE  CountersBalance
<1> DEFINE failed == {c \in counted : call_pc[c] = "done" /\ answer[c].status # "ACTIVATED"}
           activated == {c \in counted : call_pc[c] = "done" /\ answer[c].status = "ACTIVATED"}
           pending == {c \in counted : InFlight(c)}
<1>1. IsFiniteSet(failed) /\ IsFiniteSet(activated) /\ IsFiniteSet(pending)
    <2>1. failed \subseteq counted /\ activated \subseteq counted /\ pending \subseteq counted
        OBVIOUS
    <2> HIDE DEF failed, activated, pending
    <2> QED
        BY <2>1, CountedIsFinite, FS_Subset
<1>2. /\ failed \subseteq Failed /\ Failed \subseteq failed \cup pending
      /\ activated \subseteq counted \ Failed
      /\ failed \cap pending = {} /\ activated \cap pending = {}
    BY DEF Failed, InFlight
<1>3. counted \ Failed \subseteq activated \cup pending
    BY DEF Failed, CallTypes, CounterInv, EachPostIsCounted
<1>4. Failed \subseteq counted
    BY DEF Failed
<1> HIDE DEF failed, activated, pending
<1>5. /\ Cardinality(failed) \in Nat /\ Cardinality(activated) \in Nat
      /\ Cardinality(pending) \in Nat
      /\ IsFiniteSet(failed \cup pending) /\ IsFiniteSet(activated \cup pending)
    BY <1>1, FS_CardinalityType, FS_Union
<1>6. /\ Cardinality(failed \cup pending) = Cardinality(failed) + Cardinality(pending)
      /\ Cardinality(activated \cup pending) = Cardinality(activated) + Cardinality(pending)
    <2>1. Cardinality({}) = 0
        BY FS_EmptySet
    <2>2. Cardinality(failed \cup pending)
              = Cardinality(failed) + Cardinality(pending) - Cardinality(failed \cap pending)
        BY <1>1, FS_Union
    <2>3. Cardinality(activated \cup pending)
              = Cardinality(activated) + Cardinality(pending) - Cardinality(activated \cap pending)
        BY <1>1, FS_Union
    <2>4. Cardinality(failed \cap pending) = 0 /\ Cardinality(activated \cap pending) = 0
        BY <1>2, <2>1, Zenon
    <2> QED
        BY <1>5, <2>2, <2>3, <2>4
<1>7. /\ IsFiniteSet(counted \ Failed)
      /\ Cardinality(counted \ Failed) = Cardinality(counted) - Cardinality(Failed)
    <2>1. counted \cap Failed = Failed
        BY <1>4
    <2> QED
        BY <2>1, CountedIsFinite, FS_Difference
<1>8. /\ Cardinality(failed) <= Cardinality(Failed)
      /\ Cardinality(Failed) <= Cardinality(failed \cup pending)
    BY <1>2, <1>5, CountedIsFinite, FS_Subset
<1>9. /\ Cardinality(activated) <= Cardinality(counted \ Failed)
      /\ Cardinality(counted \ Failed) <= Cardinality(activated \cup pending)
    BY <1>2, <1>3, <1>5, <1>7, FS_Subset
<1>10. /\ Cardinality(failed) <= reloadFailuresTotal
       /\ reloadFailuresTotal <= Cardinality(failed) + Cardinality(pending)
       /\ Cardinality(activated) <= reloadsTotal - reloadFailuresTotal
       /\ reloadsTotal - reloadFailuresTotal <= Cardinality(activated) + Cardinality(pending)
    BY <1>6, <1>7, <1>8, <1>9 DEF CounterInv, CountersExact
<1> QED
    BY <1>10 DEF CountersBalance, failed, activated, pending

\* Nobody is told of a failure that is not counted, nothing else is counted as
\* one, and the counters are exact when no post is under way (main.go:152-207).
THEOREM CountersAlwaysBalance == Spec => []CountersBalance
<1>1. Types /\ CounterInv => CountersBalance
    BY ExactCountersBalance DEF Types
<1> QED
    BY <1>1, TypesHold, CounterInvHolds, PTL

\* Each step of a goroutine moves that goroutine only.
LEMMA GoroutinesMoveAlone ==
    ASSUME CallTypes, NEW c \in Calls, LocalStep(c) \/ Dial(c) \/ Send(c),
           NEW d \in Calls, d # c
    PROVE  call_pc'[d] = call_pc[d]
<1>1. PICK place : GoTo(c, place)
    <2>1. CASE Count(c) \/ Returns(c) \/ Answer(c)
        BY <2>1, CountSteps, ReturnSteps, AnswerSteps DEF CountFailure, Return, Tell
    <2> QED
        BY <2>1 DEF LocalStep, ReceivePost, ReceiveQuery, LoadFirst, LoadSecond, SendRest, Dial, Send
<1> QED
    BY <1>1 DEF GoTo, CallTypes

\* A scrape never shows more updates as successful or pending than there are.
THEOREM NeverOverstated == Spec => ScrapeNeverOverstates
<1>1. Types /\ CounterInv /\ [Next]_mvars =>
          [\A c \in Gets : call_pc[c] = "scraping" /\ call_pc'[c] = "dial" =>
              page'[c].reloads - page'[c].failures <= reloadsTotal - reloadFailuresTotal]_mvars
    <2> SUFFICES ASSUME Types, CounterInv, Next, NEW c \in Gets,
                        call_pc[c] = "scraping", call_pc'[c] = "dial"
                 PROVE  page'[c].reloads - page'[c].failures <= reloadsTotal - reloadFailuresTotal
        OBVIOUS
    <2>1. CallTypes /\ c \in Calls
        BY DEF Types, Calls
    <2>2. LoadSecond(c)
        <3>1. ~UNCHANGED call_pc
            OBVIOUS
        <3>2. ~Outage /\ ~DataplaneRestarts
            BY <2>1 DEF Outage, ControlPlaneRestarts, DataplaneRestarts, InFlight
        <3>3. \A o \in Others : ~Other(o)
            BY <3>1 DEF Other, OtherLeaves, OtherConnects, call_vars
        <3>4. PICK d \in Calls : LocalStep(d) \/ Dial(d) \/ Send(d)
            BY <3>1, <3>2, <3>3, StepKinds DEF call_vars
        <3>5. d = c
            BY <2>1, <3>4, GoroutinesMoveAlone
        <3>6. \A b \in Bodies[c] : ~ReceivePost(c, b)
            BY DEF ReceivePost
        <3>7. /\ ~ReceiveQuery(c) /\ ~LoadFirst(c) /\ ~SendRest(c) /\ ~Dial(c) /\ ~Send(c)
              /\ ~Count(c) /\ ~Returns(c) /\ ~Answer(c)
            BY CountSteps, ReturnSteps, AnswerSteps
            DEF ReceiveQuery, LoadFirst, SendRest, Dial, Send, ReadyToDial
        <3> QED
            BY <3>4, <3>5, <3>6, <3>7 DEF LocalStep
    <2>3. page' = [page EXCEPT ![c].failures = reloadFailuresTotal]
        BY <2>2 DEF LoadSecond, Load, LoadOrder
    <2>4. /\ page'[c].failures = reloadFailuresTotal
          /\ page'[c].reloads = page[c].reloads /\ page[c].reloads \in Nat
        BY <2>1, <2>3 DEF CallTypes
    <2>5. page[c].reloads <= reloadsTotal
        BY DEF CounterInv, LoadedInThePast
    <2>6. reloadsTotal \in Nat /\ reloadFailuresTotal \in Nat
        BY <2>1 DEF CallTypes
    <2> QED
        BY <2>4, <2>5, <2>6
<1> QED
    BY <1>1, TypesHold, CounterInvHolds, PTL DEF Spec, ScrapeNeverOverstates

-----------------------------------------------------------------------------
(* Connections.                                                            *)

Waiting == {backlog[i] : i \in DOMAIN backlog}

WaitsOnce == \A i, j \in DOMAIN backlog : backlog[i] = backlog[j] => i = j

\* Places at which a call has not dialled.
NotConnected == {"idle", "received", "refused", "scraping", "dial"}

SocketInv ==
    /\ WaitsOnce /\ \A c \in Waiting : conn[c] = "queued"
    /\ Busy => conn[client] = "accepted"
    /\ \A c \in Clients : conn[c] = "accepted" => Busy /\ client = c
    /\ stop_pc = "exited" => worker_pc = "exited"
    /\ \A c \in Calls : call_pc[c] \in NotConnected => conn[c] = "none"

\* Taking the oldest connection leaves the others, each once.
LEMMA QueueShrinks ==
    ASSUME backlog \in Seq(Clients), backlog # <<>>, WaitsOnce, backlog' = Tail(backlog)
    PROVE  WaitsOnce' /\ Head(backlog) \in Waiting /\ Waiting' \subseteq Waiting \ {Head(backlog)}
<1>1. /\ DOMAIN backlog = 1..Len(backlog) /\ Len(backlog) \in Nat \ {0}
      /\ backlog' \in Seq(Clients)
      /\ DOMAIN backlog' = 1..(Len(backlog) - 1)
      /\ \A i \in DOMAIN backlog' : i + 1 \in DOMAIN backlog /\ backlog'[i] = backlog[i + 1]
      /\ Head(backlog) = backlog[1] /\ 1 \in DOMAIN backlog
    BY HeadTailProperties, LenProperties
<1>2. WaitsOnce'
    BY <1>1 DEF WaitsOnce
<1>3. \A i \in DOMAIN backlog' : backlog'[i] # Head(backlog) /\ backlog'[i] \in Waiting
    BY <1>1 DEF WaitsOnce, Waiting
<1> QED
    BY <1>1, <1>2, <1>3 DEF Waiting

\* A connection that is not waiting yet waits once afterwards.
LEMMA QueueGrows ==
    ASSUME backlog \in Seq(Clients), WaitsOnce, NEW c \in Clients, c \notin Waiting,
           backlog' = Append(backlog, c)
    PROVE  WaitsOnce' /\ Waiting' = Waiting \cup {c}
<1>1. /\ DOMAIN backlog = 1..Len(backlog) /\ Len(backlog) \in Nat
      /\ DOMAIN backlog' = 1..(Len(backlog) + 1)
      /\ \A i \in DOMAIN backlog : i \in DOMAIN backlog' /\ backlog'[i] = backlog[i]
      /\ backlog'[Len(backlog) + 1] = c
    BY LenProperties
<1>2. \A i \in DOMAIN backlog' : i \in DOMAIN backlog \/ i = Len(backlog) + 1
    BY <1>1
<1>3. \A i \in DOMAIN backlog : backlog[i] # c
    BY DEF Waiting
<1>4. WaitsOnce'
    BY <1>1, <1>2, <1>3 DEF WaitsOnce
<1>5. Waiting' \subseteq Waiting \cup {c}
    BY <1>1, <1>2 DEF Waiting
<1>6. Waiting \cup {c} \subseteq Waiting'
    BY <1>1 DEF Waiting
<1> QED
    BY <1>4, <1>5, <1>6

\* A backlog that is thrown away leaves nobody waiting.
LEMMA QueueEmpties ==
    ASSUME backlog' = <<>>
    PROVE  WaitsOnce' /\ Waiting' = {}
BY DEF WaitsOnce, Waiting

\* A backlog that stays leaves the same clients waiting.
LEMMA SameQueue ==
    ASSUME UNCHANGED backlog
    PROVE  Waiting' = Waiting /\ (WaitsOnce => WaitsOnce')
BY DEF WaitsOnce, Waiting

\* The worker serves the connection it accepted last, and no other is open.
LEMMA WorkerSockets ==
    ASSUME ServerTypes, CallTypes, SocketInv, Worker \/ KilledBySigpipe, UNCHANGED call_vars
    PROVE  SocketInv' /\ \A c \in Clients : conn[c] = "closed" => conn'[c] = "closed"
<1> USE DEF SocketInv, Busy
<1>c. call_pc' = call_pc /\ Calls \subseteq Clients
    BY ControlPlaneAssumption DEF call_vars
<1>t. ServerTypes'
    BY WorkerTypes
<1>1. CASE CheckRunning \/ AcceptFails
    BY <1>1, <1>c, SameQueue DEF CheckRunning, AcceptFails, stop_vars, socket_vars, ServerTypes
<1>2. CASE Accept
    <2>1. WaitsOnce' /\ Head(backlog) \in Waiting /\ Waiting' \subseteq Waiting \ {Head(backlog)}
        BY <1>2, QueueShrinks DEF Accept, ServerTypes
    <2>2. /\ conn' = [conn EXCEPT ![Head(backlog)] = "accepted"]
          /\ client' = Head(backlog) /\ worker_pc' = "read" /\ worker_pc = "accept"
          /\ stop_pc' = stop_pc
        BY <1>2 DEF Accept, stop_vars
    <2>3. Head(backlog) \in Clients /\ Waiting \subseteq Clients
        <3>1. \A i \in DOMAIN backlog : backlog[i] \in Clients
            BY LenProperties, ElementOfSeq DEF ServerTypes
        <3> QED
            BY <2>1, <3>1 DEF Waiting
    <2>4. \A c \in Clients : c # Head(backlog) => conn'[c] = conn[c]
        BY <2>2 DEF ServerTypes
    <2>5. conn'[Head(backlog)] = "accepted" /\ conn[Head(backlog)] = "queued"
        BY <2>1, <2>2, <2>3 DEF ServerTypes
    <2>6. \A c \in Waiting' : conn'[c] = "queued"
        BY <2>1, <2>3, <2>4
    <2> QED
        BY <1>c, <2>1, <2>2, <2>4, <2>5, <2>6
<1>3. CASE Read \/ GetStatus \/ ApplyPolicy \/ RejectPolicy \/ UnknownCommand
    <2>1. /\ UNCHANGED <<client, conn, backlog, stop_pc>>
          /\ worker_pc \in {"read", "handle"} /\ worker_pc' \in {"handle", "write"}
        BY <1>3 DEF Read, GetStatus, ApplyPolicy, RejectPolicy, UnknownCommand, Respond,
           stop_vars, socket_vars
    <2> QED
        BY <1>c, <2>1, SameQueue
<1>4. CASE ReadNothing \/ WriteReply
    <2>1. /\ UNCHANGED <<backlog, stop_pc>> /\ worker_pc \in {"read", "write"}
          /\ conn' = [conn EXCEPT ![client] = "closed"] /\ worker_pc' = "loop"
        BY <1>4 DEF ReadNothing, WriteReply, NextConnection, stop_vars
    <2>2. client \in Clients /\ conn[client] = "accepted"
        BY <2>1 DEF ServerTypes
    <2>3. conn'[client] = "closed" /\ \A c \in Clients : c # client => conn'[c] = conn[c]
        BY <2>1, <2>2 DEF ServerTypes
    <2>4. Waiting' = Waiting /\ WaitsOnce' /\ Waiting \subseteq Clients
        <3>1. \A i \in DOMAIN backlog : backlog[i] \in Clients
            BY LenProperties, ElementOfSeq DEF ServerTypes
        <3> QED
            BY <2>1, <3>1, SameQueue DEF Waiting
    <2> QED
        BY <1>c, <2>1, <2>2, <2>3, <2>4
<1>5. CASE KilledBySigpipe
    <2>1. \A c \in Clients :
             conn'[c] = IF conn[c] \in {"queued", "accepted"} THEN "closed" ELSE conn[c]
        BY <1>5 DEF KilledBySigpipe, Closed
    <2>2. WaitsOnce' /\ Waiting' = {} /\ worker_pc' = "exited"
        BY <1>5, QueueEmpties DEF KilledBySigpipe
    <2> QED
        BY <1>c, <2>1, <2>2
<1> QED
    BY <1>1, <1>2, <1>3, <1>4, <1>5 DEF Worker

\* stop() closes the waiting ones, and a new process finds none open.
LEMMA StopSockets ==
    ASSUME ServerTypes, SocketInv, StopBegins \/ Stop \/ Restart, UNCHANGED call_pc
    PROVE  SocketInv' /\ \A c \in Clients : conn[c] = "closed" => conn'[c] = "closed"
<1> USE DEF SocketInv, Busy
<1>c. Calls \subseteq Clients
    BY ControlPlaneAssumption
<1>1. CASE StopBegins \/ StopJoins
    BY <1>1, SameQueue DEF StopBegins, StopJoins, worker_vars, socket_vars
<1>2. CASE StopListening
    <2>1. \A c \in Clients : conn'[c] = IF conn[c] \in {"queued"} THEN "closed" ELSE conn[c]
        BY <1>2 DEF StopListening, Closed
    <2>2. /\ WaitsOnce' /\ Waiting' = {} /\ UNCHANGED <<worker_pc, client>>
          /\ stop_pc' = "joining"
        BY <1>2, QueueEmpties DEF StopListening, worker_vars
    <2>3. Busy => client \in Clients
        BY DEF ServerTypes
    <2> QED
        BY <1>c, <2>1, <2>2, <2>3
<1>3. CASE Restart
    BY <1>3, SameQueue DEF Restart, socket_vars
<1> QED
    BY <1>1, <1>2, <1>3 DEF Stop

\* A new connection is that of a client that had none.
LEMMA NewSocket ==
    ASSUME ServerTypes, SocketInv, NEW c \in Clients, conn[c] = "none",
           backlog' = Append(backlog, c), conn' = [conn EXCEPT ![c] = "queued"],
           UNCHANGED <<worker_vars, stop_vars>>,
           \A d \in Calls : /\ d # c => call_pc'[d] = call_pc[d]
                            /\ d = c => call_pc'[d] = "send"
    PROVE  SocketInv' /\ \A d \in Clients : conn[d] = "closed" => conn'[d] = "closed"
<1> USE DEF SocketInv, Busy
<1>1. c \notin Waiting
    OBVIOUS
<1>2. WaitsOnce' /\ Waiting' = Waiting \cup {c}
    BY <1>1, QueueGrows DEF ServerTypes
<1>3. conn'[c] = "queued" /\ \A d \in Clients : d # c => conn'[d] = conn[d]
    BY DEF ServerTypes
<1>4. Waiting \subseteq Clients
    <2>1. \A i \in DOMAIN backlog : backlog[i] \in Clients
        BY LenProperties, ElementOfSeq DEF ServerTypes
    <2> QED
        BY <2>1 DEF Waiting
<1>5. Busy => client \in Clients
    BY DEF ServerTypes
<1>6. UNCHANGED <<worker_pc, client, stop_pc>> /\ Calls \subseteq Clients
    BY ControlPlaneAssumption DEF worker_vars, stop_vars
<1> QED
    BY <1>2, <1>3, <1>4, <1>5, <1>6 DEF NotConnected

ClosedStaysClosed == \A c \in Clients : conn[c] = "closed" => conn'[c] = "closed"

\* Where connections stay as they are, a goroutine may only move on.
LEMMA SameSockets ==
    ASSUME ServerTypes, SocketInv,
           UNCHANGED <<backlog, conn, client, worker_pc, stop_pc>>,
           \A c \in Calls : \/ call_pc'[c] = call_pc[c]
                            \/ call_pc'[c] \notin NotConnected
                            \/ call_pc[c] \in NotConnected
    PROVE  SocketInv' /\ ClosedStaysClosed
BY SameQueue DEF SocketInv, Busy, ClosedStaysClosed

\* What is known of connections is kept by every step.
LEMMA ConnectionsKept ==
    ASSUME Types, SocketInv, [Next]_mvars
    PROVE  SocketInv' /\ ClosedStaysClosed
<1> DEFINE Goal == SocketInv' /\ ClosedStaysClosed
           Same == UNCHANGED <<backlog, conn, client, worker_pc, stop_pc>>
<1>t. ServerTypes /\ CallTypes
    BY DEF Types
<1>1. CASE (Worker \/ KilledBySigpipe) /\ UNCHANGED call_vars
    BY <1>1, <1>t, WorkerSockets DEF ClosedStaysClosed
<1>2. CASE (Stop \/ StopBegins) /\ UNCHANGED call_vars
    BY <1>2, <1>t, StopSockets DEF ClosedStaysClosed, call_vars
<1>3. CASE DataplaneRestarts
    BY <1>3, <1>t, StopSockets DEF ClosedStaysClosed, DataplaneRestarts
<1>4. ASSUME NEW c \in Calls, LocalStep(c) \/ Send(c)  PROVE Goal
    <2>1. Same
        BY <1>4, LocalStepIsLocal
        DEF Send, Write, server_vars, worker_vars, stop_vars, socket_vars
    <2>2. \/ call_pc[c] \in NotConnected
          \/ \E place : place \notin NotConnected /\ GoTo(c, place)
        <3>1. CASE Count(c) \/ Returns(c) \/ Answer(c)
            BY <3>1, CountSteps, ReturnSteps, AnswerSteps
            DEF CountFailure, Return, Tell, ReadyToDial, NotConnected
        <3> QED
            BY <1>4, <3>1 DEF LocalStep, ReceivePost, ReceiveQuery, LoadFirst, LoadSecond,
               SendRest, Send, NotConnected
    <2>3. call_pc'[c] \notin NotConnected \/ call_pc[c] \in NotConnected
        BY <2>2, <1>t DEF GoTo, CallTypes
    <2>4. \A d \in Calls : d # c => call_pc'[d] = call_pc[d]
        BY <1>4, <1>t, GoroutinesMoveAlone
    <2> QED
        BY <1>t, <2>1, <2>3, <2>4, SameSockets
<1>5. ASSUME NEW c \in Calls, Dial(c)  PROVE Goal
    <2>1. conn[c] = "none" /\ c \in Clients
        BY <1>5, ControlPlaneAssumption DEF Dial, ReadyToDial, SocketInv, NotConnected
    <2>2. call_pc' = [call_pc EXCEPT ![c] = "send"]
        BY <1>5 DEF Dial, GoTo
    <2>3. \A d \in Calls : /\ d # c => call_pc'[d] = call_pc[d]
                           /\ d = c => call_pc'[d] = "send"
        BY <1>t, <2>2 DEF CallTypes
    <2>4. /\ backlog' = Append(backlog, c) /\ conn' = [conn EXCEPT ![c] = "queued"]
          /\ UNCHANGED <<worker_vars, stop_vars>>
        BY <1>5 DEF Dial, Connect
    <2> QED
        BY <1>t, <2>1, <2>3, <2>4, NewSocket DEF ClosedStaysClosed
<1>6. ASSUME NEW o \in Others, Other(o)  PROVE Goal
    <2>1. call_pc' = call_pc /\ o \in Clients /\ o \notin Calls
        BY <1>6, ManagementAssumption DEF Other, OtherLeaves, OtherConnects, call_vars
    <2>2. CASE OtherLeaves(o)
        BY <1>t, <2>1, <2>2, SameSockets DEF OtherLeaves, Leave, worker_vars, stop_vars
    <2>3. ASSUME NEW text, OtherConnects(o, text)  PROVE Goal
        <3>1. /\ backlog' = Append(backlog, o) /\ conn' = [conn EXCEPT ![o] = "queued"]
              /\ conn[o] = "none" /\ UNCHANGED <<worker_vars, stop_vars>>
            BY <2>3 DEF OtherConnects
        <3> QED
            BY <1>t, <2>1, <3>1, NewSocket DEF ClosedStaysClosed
    <2> QED
        BY <1>6, <2>2, <2>3 DEF Other
<1>7. CASE Outage
    <2>1. Same /\ call_pc' = [c \in Calls |-> IF InFlight(c) THEN "lost" ELSE call_pc[c]]
        BY <1>7 DEF Outage, ControlPlaneRestarts, Leave, worker_vars, stop_vars
    <2>2. \A c \in Calls : call_pc'[c] = call_pc[c] \/ call_pc'[c] = "lost"
        BY <2>1
    <2> QED
        BY <1>t, <2>1, <2>2, SameSockets DEF NotConnected
<1>8. CASE UNCHANGED mvars
    BY <1>8, <1>t, SameSockets
    DEF mvars, vars, server_vars, worker_vars, stop_vars, socket_vars, call_vars
<1> QED
    BY <1>1, <1>2, <1>3, <1>4, <1>5, <1>6, <1>7, <1>8, StepKinds

\* It holds throughout.
LEMMA SocketInvHolds == Spec => []SocketInv
<1>1. Init => SocketInv
    BY ControlPlaneAssumption
    DEF Init, IpcInit, ControlPlaneInit, SocketInv, WaitsOnce, Waiting, Busy
<1>2. Types /\ SocketInv /\ [Next]_mvars => SocketInv'
    BY ConnectionsKept
<1> QED
    BY <1>1, <1>2, TypesHold, PTL DEF Spec

-----------------------------------------------------------------------------
(* What the operator is told.                                              *)

\* The server's replies tell whether the client's policy was installed.
RepliesAreTrue ==
    /\ \A c \in applied : conn[c] = "closed" \/ (conn[c] = "accepted" /\ worker_pc = "write")
    /\ worker_pc = "write" => (response.status = "OK" <=> client \in applied)
    /\ \A c \in Clients : reply[c] # NoReply =>
          conn[c] = "closed" /\ (reply[c].status = "OK" <=> c \in applied)

\* Nothing that was told can become wrong afterwards.
AnswersStayTrue ==
    \A c \in Posts :
        /\ answer[c].status # "none" => call_pc[c] = "done"
        /\ answer[c].status = "ACTIVATED" => c \in applied
        /\ answer[c].status = "ROLLBACK" => c \notin applied /\ conn[c] = "closed"
        /\ answer[c].status = "INVALID" => conn[c] = "none"

\* What a handler has in hand before it answers.
ReturnsAreTrue ==
    \A c \in Calls :
        /\ call_pc[c] = "returned" => reply[c] # NoReply
        /\ call_pc[c] = "rejected" => c \notin applied /\ conn[c] = "closed"

TruthInv == RepliesAreTrue /\ ReturnsAreTrue /\ AnswersStayTrue

\* Replies stay true: a client enters applied while it is served, once.
LEMMA RepliesKept ==
    ASSUME Types, SocketInv, RepliesAreTrue, [Next]_mvars
    PROVE  /\ RepliesAreTrue'
           /\ applied \subseteq applied'
           /\ \A c \in Clients : c \in applied' => c \in applied \/ conn[c] = "accepted"
<1> DEFINE Goal == /\ RepliesAreTrue'
                   /\ applied \subseteq applied'
                   /\ \A c \in Clients : c \in applied' => c \in applied \/ conn[c] = "accepted"
<1>t. /\ ServerTypes /\ ServerTypes' /\ applied \subseteq Clients
      /\ Busy => client \in Clients /\ conn[client] = "accepted"
    BY ServerTypesKept DEF Types, ServerTypes, SocketInv
<1>s. SocketInv' /\ ClosedStaysClosed
    BY ConnectionsKept
\* The worker stands still.
<1>1. ASSUME UNCHANGED <<applied, reply, client, response, worker_pc>>,
             \A c \in Clients : conn[c] = "accepted" => conn'[c] = "accepted"
      PROVE  Goal
    BY <1>1, <1>t, <1>s DEF RepliesAreTrue, ClosedStaysClosed
\* No reply is at hand, and none is composed.
<1>2. ASSUME UNCHANGED <<applied, reply>>, worker_pc # "write", worker_pc' # "write"
      PROVE  Goal
    BY <1>2, <1>t, <1>s DEF RepliesAreTrue, ClosedStaysClosed
<1>3. CASE CheckRunning \/ Accept \/ AcceptFails \/ Read \/ ReadNothing
    BY <1>2, <1>3 DEF CheckRunning, Accept, AcceptFails, Read, ReadNothing, NextConnection,
       store_vars, socket_vars
<1>4. CASE GetStatus \/ RejectPolicy \/ UnknownCommand
    <2>1. /\ UNCHANGED <<applied, reply, client, conn>>
          /\ worker_pc = "handle" /\ worker_pc' = "write"
        BY <1>4 DEF GetStatus, RejectPolicy, UnknownCommand, Respond, store_vars, socket_vars
    <2>2. response'.status # "OK"
        BY <1>4 DEF GetStatus, RejectPolicy, UnknownCommand, Respond
    <2>3. client \notin applied
        BY <1>t, <2>1 DEF RepliesAreTrue, Busy
    <2> QED
        BY <1>t, <2>1, <2>2, <2>3 DEF RepliesAreTrue
<1>5. CASE ApplyPolicy
    <2>1. /\ UNCHANGED <<reply, client, conn>> /\ applied' = applied \cup {client}
          /\ worker_pc = "handle" /\ worker_pc' = "write"
        BY <1>5 DEF ApplyPolicy, Respond, socket_vars
    <2>2. response'.status = "OK"
        BY <1>5 DEF ApplyPolicy, Respond
    <2>3. client \in Clients /\ conn[client] = "accepted"
        BY <1>t, <2>1 DEF Busy
    <2> QED
        BY <1>t, <2>1, <2>2, <2>3 DEF RepliesAreTrue
<1>6. CASE WriteReply
    <2>1. /\ applied' = applied /\ worker_pc = "write" /\ worker_pc' = "loop"
          /\ reply' = [reply EXCEPT ![client] = response]
          /\ conn' = [conn EXCEPT ![client] = "closed"]
        BY <1>6 DEF WriteReply, NextConnection, store_vars
    <2>2. client \in Clients
        BY <1>t, <2>1 DEF Busy
    <2>3. /\ reply'[client] = response /\ conn'[client] = "closed"
          /\ \A c \in Clients : c # client => reply'[c] = reply[c] /\ conn'[c] = conn[c]
        BY <1>t, <2>1, <2>2 DEF ServerTypes
    <2>4. \A c \in applied : c # client => conn[c] = "closed"
        BY <1>t, <2>1 DEF RepliesAreTrue, SocketInv
    <2> QED
        BY <1>t, <2>1, <2>2, <2>3, <2>4 DEF RepliesAreTrue
<1>7. CASE KilledBySigpipe
    <2>1. /\ UNCHANGED <<applied, reply>> /\ worker_pc' = "exited"
          /\ \A c \in Clients :
                conn'[c] = IF conn[c] \in {"queued", "accepted"} THEN "closed" ELSE conn[c]
        BY <1>7 DEF KilledBySigpipe, Closed, store_vars
    <2> QED
        BY <1>t, <2>1 DEF RepliesAreTrue
<1>8. CASE StopBegins \/ Stop
    <2>1. UNCHANGED <<applied, reply, client, response, worker_pc>>
        BY <1>8 DEF StopBegins, Stop, StopListening, StopJoins, store_vars, worker_vars, socket_vars
    <2>2. \A c \in Clients : conn[c] = "accepted" => conn'[c] = "accepted"
        BY <1>8 DEF StopBegins, Stop, StopListening, StopJoins, socket_vars, Closed
    <2> QED
        BY <1>1, <2>1, <2>2
<1>9. CASE DataplaneRestarts
    <2>1. UNCHANGED <<applied, reply>> /\ worker_pc' = "loop" /\ stop_pc = "exited"
        BY <1>9 DEF DataplaneRestarts, Restart, socket_vars
    <2> QED
        BY <1>2, <2>1 DEF SocketInv
<1>10. ASSUME NEW c \in Calls, LocalStep(c) \/ Dial(c) \/ Send(c)  PROVE Goal
    <2>1. UNCHANGED <<applied, reply, client, response, worker_pc>>
        BY <1>10, LocalStepIsLocal DEF Dial, Connect, Send, Write, server_vars, store_vars,
           worker_vars, socket_vars
    <2>2. conn' = conn \/ (conn' = [conn EXCEPT ![c] = "queued"] /\ conn[c] = "none")
        BY <1>10, LocalStepIsLocal
        DEF Dial, ReadyToDial, Connect, Send, Write, server_vars, socket_vars, SocketInv,
            NotConnected
    <2>3. \A d \in Clients : conn[d] = "accepted" => conn'[d] = "accepted"
        BY <1>t, <2>2 DEF ServerTypes
    <2> QED
        BY <1>1, <2>1, <2>3
<1>11. ASSUME NEW o \in Others, Other(o)  PROVE Goal
    <2>1. UNCHANGED <<applied, reply, client, response, worker_pc>>
        BY <1>11 DEF Other, OtherLeaves, OtherConnects, Leave, store_vars, worker_vars
    <2>2. conn' = conn \/ (conn' = [conn EXCEPT ![o] = "queued"] /\ conn[o] = "none")
        BY <1>11 DEF Other, OtherLeaves, OtherConnects, Leave
    <2>3. \A d \in Clients : conn[d] = "accepted" => conn'[d] = "accepted"
        BY <1>t, <2>2 DEF ServerTypes
    <2> QED
        BY <1>1, <2>1, <2>3
<1>12. CASE Outage
    BY <1>1, <1>12 DEF Outage, ControlPlaneRestarts, Leave, store_vars, worker_vars
<1>13. CASE UNCHANGED mvars
    BY <1>1, <1>13 DEF mvars, vars, server_vars, store_vars, worker_vars, socket_vars
<1> QED
    BY <1>3, <1>4, <1>5, <1>6, <1>7, <1>8, <1>9, <1>10, <1>11, <1>12, <1>13, StepKinds DEF Worker

\* A reply that was written stays.
LEMMA ReplyStays ==
    ASSUME Types, SocketInv, RepliesAreTrue, [Next]_mvars, NEW c \in Clients, reply[c] # NoReply
    PROVE  reply'[c] # NoReply
<1>1. conn[c] = "closed"
    BY DEF RepliesAreTrue
<1>2. CASE WriteReply
    <2>1. c # client /\ client \in Clients
        BY <1>1, <1>2 DEF WriteReply, SocketInv, Busy, Types, ServerTypes
    <2> QED
        BY <1>2, <2>1 DEF WriteReply, Types, ServerTypes
<1>3. CASE CheckRunning \/ Accept \/ AcceptFails \/ Read \/ ReadNothing \/ GetStatus
           \/ ApplyPolicy \/ RejectPolicy \/ UnknownCommand \/ KilledBySigpipe \/ StopBegins \/ Stop
    BY <1>3 DEF CheckRunning, Accept, AcceptFails, Read, ReadNothing, NextConnection, GetStatus,
       ApplyPolicy, RejectPolicy, UnknownCommand, Respond, KilledBySigpipe, StopBegins, Stop,
       StopListening, StopJoins, socket_vars
<1>4. CASE DataplaneRestarts
    BY <1>4 DEF DataplaneRestarts, Restart, socket_vars
<1>5. ASSUME NEW d \in Calls, LocalStep(d) \/ Dial(d) \/ Send(d)  PROVE reply' = reply
    BY <1>5, LocalStepIsLocal DEF Dial, Connect, Send, Write, server_vars, socket_vars
<1>6. ASSUME NEW o \in Others, Other(o)  PROVE reply' = reply
    BY <1>6 DEF Other, OtherLeaves, OtherConnects, Leave
<1>7. CASE Outage \/ UNCHANGED mvars
    BY <1>7 DEF Outage, ControlPlaneRestarts, Leave, mvars, vars, server_vars, socket_vars
<1> QED
    BY <1>2, <1>3, <1>4, <1>5, <1>6, <1>7, StepKinds DEF Worker

\* What a handler has in hand stays true.
LEMMA ReturnsKept ==
    ASSUME Types, SocketInv, TruthInv, [Next]_mvars
    PROVE  ReturnsAreTrue'
<1> SUFFICES ASSUME NEW c \in Calls
             PROVE  /\ call_pc'[c] = "returned" => reply'[c] # NoReply
                    /\ call_pc'[c] = "rejected" => c \notin applied' /\ conn'[c] = "closed"
    BY DEF ReturnsAreTrue
<1> DEFINE Goal == /\ call_pc'[c] = "returned" => reply'[c] # NoReply
                   /\ call_pc'[c] = "rejected" => c \notin applied' /\ conn'[c] = "closed"
<1>t. c \in Clients /\ CallTypes
    BY ControlPlaneAssumption DEF Types
<1>1. ASSUME call_pc'[c] = call_pc[c]  PROVE Goal
    <2>1. reply[c] # NoReply => reply'[c] # NoReply
        BY <1>t, ReplyStays DEF TruthInv
    <2>2. c \in applied' => c \in applied \/ conn[c] = "accepted"
        BY <1>t, RepliesKept DEF TruthInv
    <2>3. conn[c] = "closed" => conn'[c] = "closed"
        BY <1>t, ConnectionsKept DEF ClosedStaysClosed
    <2> QED
        BY <1>1, <2>1, <2>2, <2>3 DEF TruthInv, ReturnsAreTrue
<1>2. ASSUME call_pc'[c] \notin {"returned", "rejected"}  PROVE Goal
    BY <1>2
<1> HIDE DEF Goal
<1>3. ASSUME LocalStep(c) \/ Dial(c) \/ Send(c)  PROVE Goal
    <2>1. ASSUME NEW place, GoTo(c, place), place \notin {"returned", "rejected"}  PROVE Goal
        BY <1>2, <1>t, <2>1 DEF GoTo, CallTypes
    <2>2. CASE Count(c)
        <3>1. CASE /\ call_pc[c] = "returned" /\ reply[c].status # "OK"
                   /\ CountFailure(c, "rejected")
            <4>1. c \notin applied /\ conn[c] = "closed"
                BY <1>t, <3>1 DEF TruthInv, ReturnsAreTrue, RepliesAreTrue
            <4>2. UNCHANGED <<applied, conn>> /\ call_pc'[c] = "rejected"
                BY <1>t, <3>1 DEF CountFailure, GoTo, CallTypes, server_vars, store_vars, socket_vars
            <4> QED
                BY <4>1, <4>2 DEF Goal
        <3> QED
            BY <2>1, <2>2, <3>1, CountSteps DEF CountFailure
    <2>3. CASE Returns(c)
        <3>1. CASE reply[c] # NoReply /\ Return(c, "returned")
            <4>1. reply' = reply /\ call_pc'[c] = "returned"
                BY <1>t, <3>1 DEF Return, GoTo, CallTypes, server_vars, socket_vars
            <4> QED
                BY <3>1, <4>1 DEF Goal
        <3> QED
            BY <2>1, <2>3, <3>1, ReturnSteps DEF Return
    <2>4. CASE Answer(c)
        BY <2>1, <2>4, AnswerSteps DEF Tell
    <2>5. CASE \/ Dial(c) \/ Send(c) \/ SendRest(c) \/ ReceiveQuery(c)
               \/ LoadFirst(c) \/ LoadSecond(c)
               \/ \E b \in Bodies[c] : ReceivePost(c, b)
        BY <2>1, <2>5 DEF Dial, Send, SendRest, ReceivePost, ReceiveQuery, LoadFirst, LoadSecond
    <2> QED
        BY <1>3, <2>2, <2>3, <2>4, <2>5 DEF LocalStep
<1>4. ASSUME NEW d \in Calls, d # c, LocalStep(d) \/ Dial(d) \/ Send(d)  PROVE Goal
    BY <1>1, <1>4, <1>t, GoroutinesMoveAlone
<1>5. ASSUME NEW o \in Others, Other(o)  PROVE Goal
    BY <1>1, <1>5 DEF Other, OtherLeaves, OtherConnects, call_vars
<1>6. ASSUME UNCHANGED call_vars \/ DataplaneRestarts \/ UNCHANGED mvars  PROVE Goal
    BY <1>1, <1>6 DEF call_vars, DataplaneRestarts, mvars, vars
<1>7. ASSUME Outage  PROVE Goal
    <2>1. call_pc'[c] = IF InFlight(c) THEN "lost" ELSE call_pc[c]
        BY <1>7, <1>t DEF Outage, ControlPlaneRestarts
    <2> QED
        BY <1>1, <1>2, <2>1
<1>8. Goal
    BY <1>3, <1>4, <1>5, <1>6, <1>7, StepKinds
<1> QED
    BY <1>8 DEF Goal

\* What an answer rests on does not change any more.
LEMMA OldAnswersKept ==
    ASSUME Types, SocketInv, TruthInv, [Next]_mvars, NEW c \in Posts,
           answer'[c] = answer[c],
           answer[c].status # "none" => call_pc'[c] = "done",
           answer[c].status = "INVALID" => conn'[c] = "none"
    PROVE  /\ answer'[c].status # "none" => call_pc'[c] = "done"
           /\ answer'[c].status = "ACTIVATED" => c \in applied'
           /\ answer'[c].status = "ROLLBACK" => c \notin applied' /\ conn'[c] = "closed"
           /\ answer'[c].status = "INVALID" => conn'[c] = "none"
<1>1. c \in Clients
    BY ControlPlaneAssumption DEF Calls
<1>2. applied \subseteq applied' /\ (c \in applied' => c \in applied \/ conn[c] = "accepted")
    BY <1>1, RepliesKept DEF TruthInv
<1>3. conn[c] = "closed" => conn'[c] = "closed"
    BY <1>1, ConnectionsKept DEF ClosedStaysClosed
<1> QED
    BY <1>2, <1>3 DEF TruthInv, AnswersStayTrue

\* Only the dial opens the connection of a call.
LEMMA OnlyDialConnects ==
    ASSUME Types, SocketInv, [Next]_mvars, NEW c \in Calls, ~Dial(c), conn[c] = "none"
    PROVE  conn'[c] = "none"
<1>t. /\ ServerTypes /\ c \in Clients /\ c \notin Others
      /\ Busy => client \in Clients /\ conn[client] = "accepted"
    BY ControlPlaneAssumption, ManagementAssumption DEF Types, ServerTypes, SocketInv
<1>1. CASE Accept
    <2>1. Head(backlog) \in Waiting
        BY <1>1, <1>t, QueueShrinks DEF Accept, SocketInv, ServerTypes
    <2>2. c # Head(backlog)
        BY <2>1 DEF SocketInv
    <2> QED
        BY <1>1, <1>t, <2>2 DEF Accept, ServerTypes
<1>2. CASE ReadNothing \/ WriteReply
    <2>1. c # client
        BY <1>2, <1>t DEF ReadNothing, WriteReply, Busy
    <2> QED
        BY <1>2, <1>t, <2>1 DEF ReadNothing, WriteReply, NextConnection, ServerTypes
<1>3. CASE KilledBySigpipe \/ StopListening
    BY <1>3, <1>t DEF KilledBySigpipe, StopListening, Closed
<1>4. CASE CheckRunning \/ AcceptFails \/ Read \/ GetStatus \/ ApplyPolicy \/ RejectPolicy
           \/ UnknownCommand \/ StopBegins \/ StopJoins
    BY <1>4 DEF CheckRunning, AcceptFails, Read, GetStatus, ApplyPolicy, RejectPolicy,
       UnknownCommand, Respond, StopBegins, StopJoins, socket_vars
<1>5. CASE DataplaneRestarts
    BY <1>5 DEF DataplaneRestarts, Restart, socket_vars
<1>6. ASSUME NEW d \in Calls, LocalStep(d) \/ Dial(d) \/ Send(d)  PROVE conn'[c] = "none"
    <2>1. conn' = conn \/ (Dial(d) /\ conn' = [conn EXCEPT ![d] = "queued"])
        BY <1>6, LocalStepIsLocal DEF Dial, Connect, Send, Write, server_vars, socket_vars
    <2> QED
        BY <1>t, <2>1 DEF ServerTypes
<1>7. ASSUME NEW o \in Others, Other(o)  PROVE conn'[c] = "none"
    <2>1. conn' = conn \/ conn' = [conn EXCEPT ![o] = "queued"]
        BY <1>7 DEF Other, OtherLeaves, OtherConnects, Leave
    <2> QED
        BY <1>t, <2>1 DEF ServerTypes
<1>8. CASE Outage
    BY <1>8 DEF Outage, ControlPlaneRestarts, Leave
<1>9. CASE UNCHANGED mvars
    BY <1>9 DEF mvars, vars, server_vars, socket_vars
<1> QED
    BY <1>1, <1>2, <1>3, <1>4, <1>5, <1>6, <1>7, <1>8, <1>9, StepKinds DEF Worker, Stop

\* Only the handler of a call answers it.
LEMMA AnswersAlone ==
    ASSUME NEW c \in Calls, LocalStep(c) \/ Dial(c) \/ Send(c)
    PROVE  answer' = answer \/ \E value : answer' = [answer EXCEPT ![c] = value]
<1>1. CASE Count(c) \/ Returns(c) \/ Answer(c)
    BY <1>1, CountSteps, ReturnSteps, AnswerSteps DEF CountFailure, Return, Tell
<1> QED
    BY <1>1 DEF LocalStep, ReceivePost, ReceiveQuery, LoadFirst, LoadSecond, SendRest, Dial, Send

\* Answers are true when told and stay so.
LEMMA AnswersKept ==
    ASSUME Types, SocketInv, TruthInv, [Next]_mvars
    PROVE  AnswersStayTrue'
<1> SUFFICES ASSUME NEW c \in Posts
             PROVE  /\ answer'[c].status # "none" => call_pc'[c] = "done"
                    /\ answer'[c].status = "ACTIVATED" => c \in applied'
                    /\ answer'[c].status = "ROLLBACK" => c \notin applied' /\ conn'[c] = "closed"
                    /\ answer'[c].status = "INVALID" => conn'[c] = "none"
    BY DEF AnswersStayTrue
<1> DEFINE Goal == /\ answer'[c].status # "none" => call_pc'[c] = "done"
                   /\ answer'[c].status = "ACTIVATED" => c \in applied'
                   /\ answer'[c].status = "ROLLBACK" => c \notin applied' /\ conn'[c] = "closed"
                   /\ answer'[c].status = "INVALID" => conn'[c] = "none"
<1>t. c \in Calls /\ c \in Clients /\ CallTypes /\ ServerTypes
    BY ControlPlaneAssumption DEF Calls, Types
<1>o. /\ answer[c].status # "none" => call_pc[c] = "done"
      /\ answer[c].status = "INVALID" => conn[c] = "none"
    BY DEF TruthInv, AnswersStayTrue
\* The call does not move.
<1>1. ASSUME answer'[c] = answer[c], call_pc'[c] = call_pc[c]
      PROVE  Goal
    <2>1. answer[c].status = "INVALID" => ~Dial(c)
        BY <1>o DEF Dial, ReadyToDial
    <2>2. answer[c].status = "INVALID" => conn'[c] = "none"
        BY <1>o, <1>t, <2>1, OnlyDialConnects
    <2> QED
        BY <1>1, <1>o, <2>2, OldAnswersKept
\* It moves and has no answer yet.
<1>2. ASSUME answer'[c] = answer[c], call_pc[c] # "done"
      PROVE  Goal
    BY <1>2, <1>o
<1>3. ASSUME NEW st, NEW n, Tell(c, st, n), UNCHANGED server_vars,
             st = "ACTIVATED" => c \in applied,
             st = "ROLLBACK" => c \notin applied /\ conn[c] = "closed",
             st = "INVALID" => conn[c] = "none"
      PROVE  Goal
    <2>1. answer'[c].status = st /\ call_pc'[c] = "done"
        BY <1>3, <1>t DEF Tell, GoTo, CallTypes
    <2>2. UNCHANGED <<applied, conn>>
        BY <1>3 DEF server_vars, store_vars, socket_vars
    <2> QED
        BY <1>3, <2>1, <2>2
<1> HIDE DEF Goal
<1>4. ASSUME LocalStep(c) \/ Dial(c) \/ Send(c)  PROVE Goal
    <2>1. CASE \/ Dial(c) \/ Send(c) \/ SendRest(c) \/ ReceiveQuery(c)
               \/ LoadFirst(c) \/ LoadSecond(c)
               \/ \E b \in Bodies[c] : ReceivePost(c, b)
        BY <1>2, <2>1 DEF Dial, ReadyToDial, Send, SendRest, ReceivePost, ReceiveQuery,
           LoadFirst, LoadSecond
    <2>2. CASE Count(c) \/ Returns(c)
        <3>1. answer' = answer /\ call_pc[c] # "done"
            BY <2>2, CountSteps, ReturnSteps DEF CountFailure, Return, ReadyToDial
        <3> QED
            BY <1>2, <3>1
    <2>3. CASE Answer(c)
        <3>1. PICK st, n : /\ Tell(c, st, n)
                           /\ st = "ACTIVATED" => reply[c].status = "OK"
                           /\ st = "ROLLBACK" => call_pc[c] = "rejected"
                           /\ st = "INVALID" => call_pc[c] = "refused"
            BY <2>3, AnswerSteps
        <3>2. UNCHANGED server_vars
            BY <3>1 DEF Tell
        <3>3. st = "ACTIVATED" => c \in applied
            <4>1. reply[c].status = "OK" => reply[c] # NoReply
                BY DEF NoReply
            <4> QED
                BY <1>t, <3>1, <4>1 DEF TruthInv, RepliesAreTrue
        <3>4. st = "ROLLBACK" => c \notin applied /\ conn[c] = "closed"
            BY <1>t, <3>1 DEF TruthInv, ReturnsAreTrue
        <3>5. st = "INVALID" => conn[c] = "none"
            BY <1>t, <3>1 DEF SocketInv, NotConnected
        <3> QED
            BY <1>3, <3>1, <3>2, <3>3, <3>4, <3>5
    <2> QED
        BY <1>4, <2>1, <2>2, <2>3 DEF LocalStep
<1>5. ASSUME NEW d \in Calls, d # c, LocalStep(d) \/ Dial(d) \/ Send(d)  PROVE Goal
    <2>1. answer' = answer \/ \E value : answer' = [answer EXCEPT ![d] = value]
        BY <1>5, AnswersAlone
    <2>2. answer'[c] = answer[c]
        BY <1>5, <1>t, <2>1 DEF CallTypes
    <2> QED
        BY <1>1, <1>5, <1>t, <2>2, GoroutinesMoveAlone
<1>6. ASSUME NEW o \in Others, Other(o)  PROVE Goal
    BY <1>1, <1>6 DEF Other, OtherLeaves, OtherConnects, call_vars
<1>7. ASSUME UNCHANGED call_vars \/ DataplaneRestarts \/ UNCHANGED mvars  PROVE Goal
    BY <1>1, <1>7 DEF call_vars, DataplaneRestarts, mvars, vars
<1>8. ASSUME Outage  PROVE Goal
    <2>1. answer' = answer /\ call_pc'[c] = IF InFlight(c) THEN "lost" ELSE call_pc[c]
        BY <1>8, <1>t DEF Outage, ControlPlaneRestarts
    <2> QED
        BY <1>1, <1>2, <2>1 DEF InFlight
<1>9. Goal
    BY <1>4, <1>5, <1>6, <1>7, <1>8, StepKinds
<1> QED
    BY <1>9 DEF Goal

\* Both hold throughout.
LEMMA TruthInvHolds == Spec => []TruthInv
<1>1. Init => TruthInv
    BY DEF Init, IpcInit, ControlPlaneInit, TruthInv, RepliesAreTrue, ReturnsAreTrue,
       AnswersStayTrue, NoAnswer, Calls
<1>2. Types /\ SocketInv /\ TruthInv /\ [Next]_mvars => TruthInv'
    BY RepliesKept, ReturnsKept, AnswersKept DEF TruthInv
<1> QED
    BY <1>1, <1>2, TypesHold, SocketInvHolds, PTL DEF Spec

\* The operator is told the truth, for any calls, policies, clients, buffer
\* sizes, stops and restarts (main.go:198-214).
THEOREM OperatorAlwaysToldTruth == Spec => []OperatorToldTruth
<1>1. TruthInv => OperatorToldTruth
    BY ControlPlaneAssumption
    DEF TruthInv, RepliesAreTrue, AnswersStayTrue, OperatorToldTruth, Calls
<1> QED
    BY <1>1, TruthInvHolds, PTL

-----------------------------------------------------------------------------
(* The generations callers see.                                            *)

\* A get asks for the status and nothing else, and is answered once.
GetsAskStatus ==
    /\ \A c \in Gets : sent[c] \in {<<>>, StatusWire}
    /\ worker_pc = "handle" /\ client \in Gets => Command = "GET_STATUS"
    /\ \A c \in Gets : answer[c].status # "none" => call_pc[c] = "done"

\* Arithmetic is kept apart from the strings of the model.
Composed == worker_pc = "write"
Replied(c) == reply[c] # NoReply
ToldStatus(c) == answer[c].status = "STATUS"

GenerationInv ==
    /\ acknowledged <= global_generation
    /\ \A c \in Calls : expected[c] <= acknowledged
    /\ Composed => response.generation <= global_generation
    /\ Composed /\ client \in Gets => expected[client] <= response.generation
    /\ \A c \in Calls \ stale : reply[c].generation <= global_generation
    /\ \A c \in Gets : Replied(c) => expected[c] <= reply[c].generation
    /\ \A c \in Gets : ToldStatus(c) => expected[c] <= answer[c].generation

\* Gets are recognized as such through every step.
LEMMA GetsKept ==
    ASSUME Types, SocketInv, GetsAskStatus, [Next]_mvars
    PROVE  GetsAskStatus'
<1>t. /\ ServerTypes /\ CallTypes /\ Gets \subseteq Calls /\ Calls \subseteq Clients
      /\ Gets \cap Others = {} /\ Gets \cap Posts = {}
      /\ Busy => client \in Clients
    BY ControlPlaneAssumption, ManagementAssumption DEF Types, ServerTypes, Calls
<1>1. ASSUME UNCHANGED <<sent, client, worker_pc, request, call_vars>>  PROVE GetsAskStatus'
    BY <1>1 DEF GetsAskStatus, Command, call_vars
<1>2. CASE Read /\ UNCHANGED call_vars
    <2>1. ASSUME client \in Gets  PROVE request' = Received(StatusWire)
        BY <1>2, <2>1 DEF Read, GetsAskStatus
    <2>2. client' = client /\ sent' = sent
        BY <1>2 DEF Read, socket_vars
    <2> QED
        BY <1>2, <2>1, <2>2, StatusIsRecognized DEF GetsAskStatus, Command, call_vars
<1>3. ASSUME UNCHANGED sent, worker_pc' # "handle",
             \A c \in Gets : UNCHANGED <<answer[c], call_pc[c]>>
      PROVE  GetsAskStatus'
    BY <1>3 DEF GetsAskStatus
<1>4. CASE (Worker \/ KilledBySigpipe) /\ ~Read /\ UNCHANGED call_vars
    <2>1. UNCHANGED sent /\ worker_pc' # "handle"
        BY <1>4 DEF Worker, CheckRunning, Accept, AcceptFails, ReadNothing, NextConnection,
           GetStatus, ApplyPolicy, RejectPolicy, UnknownCommand, Respond, WriteReply,
           KilledBySigpipe, socket_vars
    <2> QED
        BY <1>3, <1>4, <2>1 DEF call_vars
<1>5. CASE (Stop \/ StopBegins) /\ UNCHANGED call_vars
    BY <1>1, <1>5 DEF Stop, StopBegins, StopListening, StopJoins, worker_vars, socket_vars
<1>6. CASE DataplaneRestarts
    BY <1>3, <1>6 DEF DataplaneRestarts, Restart, socket_vars
<1>7. ASSUME NEW c \in Calls, LocalStep(c) \/ Dial(c)  PROVE GetsAskStatus'
    <2>1. UNCHANGED <<sent, client, worker_pc, request>>
        BY <1>7, LocalStepIsLocal
        DEF Dial, Connect, server_vars, worker_vars, socket_vars
    <2>2. \A d \in Gets : d # c => call_pc'[d] = call_pc[d]
        BY <1>7, <1>t, GoroutinesMoveAlone
    <2>3. \/ answer' = answer /\ call_pc[c] # "done"
          \/ \E st, n : Tell(c, st, n)
        <3>1. CASE Count(c) \/ Returns(c) \/ Answer(c)
            BY <3>1, CountSteps, ReturnSteps, AnswerSteps DEF CountFailure, Return, ReadyToDial
        <3> QED
            BY <1>7, <3>1 DEF LocalStep, ReceivePost, ReceiveQuery, LoadFirst, LoadSecond,
               SendRest, Dial, ReadyToDial
    <2>4. \/ answer' = answer /\ call_pc[c] # "done"
          \/ call_pc'[c] = "done" /\ \A d \in Gets : d # c => answer'[d] = answer[d]
        BY <1>t, <2>3 DEF Tell, GoTo, CallTypes
    <2> QED
        BY <2>1, <2>2, <2>4 DEF GetsAskStatus, Command
<1>8. ASSUME NEW c \in Calls, Send(c)  PROVE GetsAskStatus'
    <2>1. /\ sent' = [sent EXCEPT ![c] = Wire(c)] /\ call_pc[c] = "send"
          /\ UNCHANGED <<client, worker_pc, request, answer>>
        BY <1>8 DEF Send, Write, worker_vars
    <2>2. \A d \in Gets : d # c => call_pc'[d] = call_pc[d]
        BY <1>8, <1>t, GoroutinesMoveAlone
    <2>3. c \in Gets => Wire(c) = StatusWire
        BY <1>t DEF Wire
    <2>4. \A d \in Gets : sent'[d] \in {<<>>, StatusWire}
        BY <1>t, <2>1, <2>3 DEF ServerTypes, GetsAskStatus
    <2> QED
        BY <2>1, <2>2, <2>4 DEF GetsAskStatus, Command
<1>9. ASSUME NEW o \in Others, Other(o)  PROVE GetsAskStatus'
    <2>1. UNCHANGED <<client, worker_pc, request, answer, call_pc>>
        BY <1>9 DEF Other, OtherLeaves, OtherConnects, Leave, worker_vars, call_vars
    <2>2. sent' = sent \/ \E text : sent' = [sent EXCEPT ![o] = text]
        BY <1>9 DEF Other, OtherLeaves, OtherConnects, Leave
    <2>3. \A d \in Gets : sent'[d] = sent[d]
        BY <1>t, <2>2 DEF ServerTypes
    <2> QED
        BY <2>1, <2>3 DEF GetsAskStatus, Command
<1>10. CASE Outage
    <2>1. /\ UNCHANGED <<sent, client, worker_pc, request, answer>>
          /\ call_pc' = [c \in Calls |-> IF InFlight(c) THEN "lost" ELSE call_pc[c]]
        BY <1>10 DEF Outage, ControlPlaneRestarts, Leave, worker_vars
    <2> QED
        BY <1>t, <2>1 DEF GetsAskStatus, InFlight, Command
<1>11. CASE UNCHANGED mvars
    BY <1>1, <1>11 DEF mvars, vars, server_vars, worker_vars, socket_vars
<1> QED
    BY <1>2, <1>4, <1>5, <1>6, <1>7, <1>8, <1>9, <1>10, <1>11, StepKinds

\* Steps that neither compose nor deliver a generation.
QuietStep ==
    /\ UNCHANGED <<global_generation, reply, acknowledged, expected, stale>>
    /\ Composed' => Composed /\ UNCHANGED <<response, client>>
    /\ \A c \in Gets : ToldStatus(c)' => ToldStatus(c) /\ answer'[c] = answer[c]

\* They keep the order of generations.
LEMMA QuietSteps ==
    ASSUME GenerationInv, QuietStep
    PROVE  GenerationInv'
BY DEF GenerationInv, QuietStep, Composed, Replied, ToldStatus

\* A reply is composed from the counter, which never goes back.
LEMMA Composing ==
    ASSUME ServerTypes, CallTypes, GenerationInv,
           UNCHANGED <<client, reply, acknowledged, expected, stale, answer>>,
           global_generation <= global_generation', global_generation' \in Nat,
           \/ response'.generation = global_generation'
           \/ response'.generation = 0 /\ client \notin Gets
    PROVE  GenerationInv'
<1>1. /\ acknowledged \in Nat /\ global_generation \in Nat
      /\ \A c \in Calls : expected[c] \in Nat /\ reply[c].generation \in Nat
      /\ Gets \subseteq Calls
    BY ControlPlaneAssumption DEF ServerTypes, CallTypes, Calls, Replies
<1>2. acknowledged' <= global_generation' /\ \A c \in Calls : expected'[c] <= acknowledged'
    BY <1>1 DEF GenerationInv
<1>3. response'.generation <= global_generation'
    OBVIOUS
<1>4. client' \in Gets => expected'[client'] <= response'.generation
    BY <1>1 DEF GenerationInv
<1>5. \A c \in Calls \ stale' : reply'[c].generation <= global_generation'
    BY <1>1 DEF GenerationInv
<1>6. \A c \in Gets : Replied(c)' => expected'[c] <= reply'[c].generation
    BY DEF GenerationInv, Replied
<1>7. \A c \in Gets : ToldStatus(c)' => expected'[c] <= answer'[c].generation
    BY DEF GenerationInv, ToldStatus
<1> QED
    BY <1>2, <1>3, <1>4, <1>5, <1>6, <1>7 DEF GenerationInv

\* A call that is received expects what was told so far; it has no reply.
LEMMA Receiving ==
    ASSUME Types, GenerationInv, NEW c \in Calls, Expect(c),
           UNCHANGED <<server_vars, acknowledged, stale, answer>>,
           ~Replied(c), ~ToldStatus(c), ~(Composed /\ client = c)
    PROVE  GenerationInv'
<1>1. /\ UNCHANGED <<global_generation, reply, response, client, worker_pc>>
      /\ expected' = [expected EXCEPT ![c] = acknowledged]
      /\ expected \in [Calls -> Nat] /\ acknowledged \in Nat /\ Gets \subseteq Calls
    BY DEF Types, CallTypes, Expect, server_vars, store_vars, worker_vars, socket_vars, Calls
<1>2. \A d \in Calls : expected'[d] = IF d = c THEN acknowledged ELSE expected[d]
    BY <1>1
<1>3. \A d \in Calls : expected'[d] <= acknowledged'
    BY <1>1, <1>2 DEF GenerationInv
<1>4. Composed' /\ client' \in Gets => expected'[client'] <= response'.generation
    BY <1>1, <1>2 DEF GenerationInv, Composed
<1>5. \A d \in Gets : Replied(d)' => expected'[d] <= reply'[d].generation
    BY <1>1, <1>2 DEF GenerationInv, Replied
<1>6. \A d \in Gets : ToldStatus(d)' => expected'[d] <= answer'[d].generation
    BY <1>1, <1>2 DEF GenerationInv, ToldStatus
<1>7. /\ acknowledged' <= global_generation'
      /\ Composed' => response'.generation <= global_generation'
      /\ \A d \in Calls \ stale' : reply'[d].generation <= global_generation'
    BY <1>1 DEF GenerationInv, Composed
<1> QED
    BY <1>3, <1>4, <1>5, <1>6, <1>7 DEF GenerationInv

\* A reply that is written is not newer than the counter.
LEMMA DeliveringReply ==
    ASSUME Types, SocketInv, TruthInv, GenerationInv, WriteReply, UNCHANGED call_vars
    PROVE  GenerationInv'
<1>1. /\ reply' = [reply EXCEPT ![client] = response] /\ ~Composed' /\ Composed
      /\ global_generation' = global_generation
      /\ UNCHANGED <<acknowledged, expected, stale, answer>>
      /\ client \in Clients
    BY DEF WriteReply, NextConnection, Composed, store_vars, call_vars, history_vars, Types,
       ServerTypes, Busy
<1>2. \A d \in Clients : reply'[d] = IF d = client THEN response ELSE reply[d]
    BY <1>1 DEF Types, ServerTypes
<1>3. \A d \in Calls \ stale : reply'[d].generation <= global_generation
    BY <1>1, <1>2, ControlPlaneAssumption DEF GenerationInv
<1>4. \A d \in Gets : Replied(d)' => expected[d] <= reply'[d].generation
    BY <1>1, <1>2, ControlPlaneAssumption DEF GenerationInv, Replied, Calls
<1>5. \A d \in Gets : ToldStatus(d)' => expected[d] <= answer[d].generation
    BY <1>1 DEF GenerationInv, ToldStatus
<1> QED
    BY <1>1, <1>3, <1>4, <1>5 DEF GenerationInv

\* A reply reaches its caller.
LEMMA Acknowledging ==
    ASSUME Types, TruthInv, GenerationInv, NEW c \in Calls, Answer(c)
    PROVE  GenerationInv'
<1>1. /\ UNCHANGED <<global_generation, reply, response, client, worker_pc, expected, stale>>
      /\ \E st, n : /\ answer' = [answer EXCEPT ![c] = [status |-> st, generation |-> n]]
                    /\ c \in Gets /\ st = "STATUS" => Replied(c) /\ n = reply[c].generation
    <2>1. \E st, n : Tell(c, st, n) /\
              (c \in Gets /\ st = "STATUS" => call_pc[c] = "returned" /\ n = reply[c].generation)
        BY AnswerSteps
    <2>2. call_pc[c] = "returned" => Replied(c)
        BY DEF TruthInv, ReturnsAreTrue, Replied
    <2> QED
        BY <2>1, <2>2 DEF Tell, server_vars, store_vars, worker_vars, socket_vars
<1>2. PICK st, n : /\ answer' = [answer EXCEPT ![c] = [status |-> st, generation |-> n]]
                   /\ c \in Gets /\ st = "STATUS" => Replied(c) /\ n = reply[c].generation
    BY <1>1
<1>3. \A d \in Gets : ToldStatus(d)' => expected'[d] <= answer'[d].generation
    <2> SUFFICES ASSUME NEW d \in Gets, ToldStatus(d)'
                 PROVE  expected[d] <= answer'[d].generation
        BY <1>1
    <2>1. d \in Calls
        BY DEF Calls
    <2>2. CASE d = c
        <3>1. answer'[d].status = st /\ answer'[d].generation = n
            BY <1>2, <2>1, <2>2 DEF Types, CallTypes
        <3> QED
            BY <1>2, <2>2, <3>1 DEF GenerationInv, ToldStatus
    <2>3. CASE d # c
        BY <1>2, <2>1, <2>3 DEF GenerationInv, ToldStatus, Types, CallTypes
    <2> QED
        BY <2>2, <2>3
<1>4. /\ acknowledged \in Nat /\ global_generation \in Nat /\ reply[c].generation \in Nat
      /\ \A d \in Calls : expected[d] \in Nat
    BY ControlPlaneAssumption DEF Types, CallTypes, ServerTypes, Replies
<1>5. \/ acknowledged' = acknowledged
      \/ /\ c \notin stale /\ acknowledged < reply[c].generation
         /\ acknowledged' = reply[c].generation
    BY AnswerSteps
<1>6. acknowledged' <= global_generation /\ \A d \in Calls : expected[d] <= acknowledged'
    BY <1>4, <1>5 DEF GenerationInv
<1> QED
    BY <1>1, <1>3, <1>6 DEF GenerationInv, Composed, Replied

\* A new process knows none of the policies of the old one, and nobody
\* expects it to.
LEMMA StartingAnew ==
    ASSUME Types, SocketInv, TruthInv, DataplaneRestarts
    PROVE  GenerationInv'
<1>1. /\ ~Composed' /\ global_generation' = 1 /\ acknowledged' = 0
      /\ expected' = [c \in Calls |-> 0] /\ stale' = {c \in Calls : conn[c] # "none"}
      /\ reply' = reply /\ answer' = answer
    BY IpcServerAssumption DEF DataplaneRestarts, Restart, Composed, socket_vars
<1>2. Gets \subseteq Calls /\ Calls \subseteq Clients
    BY ControlPlaneAssumption DEF Calls
<1>3. \A c \in Calls : reply[c].generation \in Nat /\ answer[c].generation \in Nat
    BY <1>2 DEF Types, ServerTypes, CallTypes, Replies, Answers
<1>4. \A c \in Calls \ stale' : reply'[c] = NoReply
    BY <1>1, <1>2 DEF TruthInv, RepliesAreTrue
<1>5. NoReply.generation = 0
    BY DEF NoReply
<1> QED
    BY <1>1, <1>2, <1>3, <1>4, <1>5 DEF GenerationInv

\* The order of generations is kept by every step.
LEMMA GenerationKept ==
    ASSUME Types, SocketInv, TruthInv, GetsAskStatus, GenerationInv, [Next]_mvars
    PROVE  GenerationInv'
<1>t. /\ ServerTypes /\ CallTypes /\ Gets \subseteq Calls /\ Calls \subseteq Clients
      /\ Gets \cap Posts = {}
      /\ global_generation \in Nat
    BY ControlPlaneAssumption DEF Types, ServerTypes, Calls
<1>1. CASE (GetStatus \/ RejectPolicy) /\ UNCHANGED call_vars
    <2>1. /\ UNCHANGED <<client, reply, acknowledged, expected, stale, answer, global_generation>>
          /\ response'.generation = global_generation
        BY <1>1 DEF GetStatus, RejectPolicy, Respond, store_vars, socket_vars, call_vars,
           history_vars
    <2> QED
        BY <1>t, <2>1, Composing
<1>2. CASE ApplyPolicy /\ UNCHANGED call_vars
    <2>1. /\ UNCHANGED <<client, reply, acknowledged, expected, stale, answer>>
          /\ response'.generation = global_generation'
        BY <1>2 DEF ApplyPolicy, Respond, socket_vars, call_vars, history_vars
    <2>2. Candidate(request).generation \in Nat
        BY <1>t, ExtractedNumber DEF Candidate, ServerTypes
    <2>3. global_generation <= global_generation' /\ global_generation' \in Nat
        <3>1. /\ ~(Candidate(request).generation <= global_generation)
              /\ global_generation' = Candidate(request).generation
            BY <1>2, Zenon DEF ApplyPolicy, Acceptable
        <3> QED
            BY <1>t, <2>2, <3>1
    <2> QED
        BY <1>t, <2>1, <2>3, Composing
<1>3. CASE UnknownCommand /\ UNCHANGED call_vars
    <2>1. client \notin Gets
        BY <1>3 DEF UnknownCommand, GetsAskStatus
    <2>2. /\ UNCHANGED <<client, reply, acknowledged, expected, stale, answer, global_generation>>
          /\ response'.generation = 0
        BY <1>3 DEF UnknownCommand, Respond, store_vars, socket_vars, call_vars, history_vars
    <2> QED
        BY <1>t, <2>1, <2>2, Composing
<1>4. CASE WriteReply /\ UNCHANGED call_vars
    BY <1>4, DeliveringReply
<1>5. CASE /\ \/ CheckRunning \/ Accept \/ AcceptFails \/ Read \/ ReadNothing
              \/ KilledBySigpipe \/ StopBegins \/ Stop
           /\ UNCHANGED call_vars
    <2>1. QuietStep
        BY <1>5 DEF QuietStep, Composed, ToldStatus, CheckRunning, Accept, AcceptFails, Read,
           ReadNothing, NextConnection, KilledBySigpipe, StopBegins, Stop, StopListening,
           StopJoins, store_vars, worker_vars, socket_vars, call_vars, history_vars
    <2> QED
        BY <2>1, QuietSteps
<1>6. CASE DataplaneRestarts
    BY <1>6, StartingAnew
<1>7. ASSUME NEW c \in Calls,
             \/ \E b \in Bodies[c] : c \in Posts /\ ReceivePost(c, b)
             \/ ReceiveQuery(c) \/ LoadFirst(c)
      PROVE  GenerationInv'
    <2>1. /\ Expect(c) /\ UNCHANGED <<server_vars, acknowledged, stale, answer>>
          /\ call_pc[c] = "idle"
        BY <1>7 DEF ReceivePost, ReceiveQuery, LoadFirst
    <2>2. conn[c] = "none" /\ ~Replied(c)
        BY <1>t, <2>1 DEF SocketInv, NotConnected, TruthInv, RepliesAreTrue, Replied
    <2>3. ~(Composed /\ client = c)
        BY <2>2 DEF SocketInv, Composed, Busy
    <2>4. ~ToldStatus(c)
        <3>1. c \in Gets \/ c \in Posts
            BY DEF Calls
        <3> QED
            BY <2>1, <3>1 DEF GetsAskStatus, TruthInv, AnswersStayTrue, ToldStatus
    <2> QED
        BY <2>1, <2>2, <2>3, <2>4, Receiving
<1>8. ASSUME NEW c \in Calls,
             \/ LoadSecond(c) \/ SendRest(c) \/ Dial(c) \/ Send(c) \/ Count(c) \/ Returns(c)
      PROVE  GenerationInv'
    <2>1. /\ UNCHANGED <<global_generation, reply, acknowledged, expected, stale, answer>>
          /\ UNCHANGED <<worker_pc, response, client>>
        <3>1. CASE Count(c) \/ Returns(c)
            BY <3>1, CountSteps, ReturnSteps
            DEF CountFailure, Return, server_vars, store_vars, worker_vars, socket_vars, history_vars
        <3> QED
            BY <1>8, <3>1 DEF LoadSecond, SendRest, Dial, Connect, Send, Write, server_vars,
               store_vars, worker_vars, socket_vars, history_vars
    <2>2. QuietStep
        BY <2>1 DEF QuietStep, Composed, ToldStatus
    <2> QED
        BY <2>2, QuietSteps
<1>9. ASSUME NEW c \in Calls, Answer(c)  PROVE GenerationInv'
    BY <1>9, Acknowledging
<1>10. ASSUME NEW o \in Others, Other(o)  PROVE GenerationInv'
    <2>1. QuietStep
        BY <1>10 DEF QuietStep, Composed, ToldStatus, Other, OtherLeaves, OtherConnects, Leave,
           store_vars, worker_vars, call_vars, history_vars
    <2> QED
        BY <2>1, QuietSteps
<1>11. CASE Outage \/ UNCHANGED mvars
    <2>1. QuietStep
        BY <1>11 DEF QuietStep, Composed, ToldStatus, Outage, ControlPlaneRestarts, Leave, mvars,
           vars, server_vars, store_vars, worker_vars, socket_vars, call_vars, history_vars
    <2> QED
        BY <2>1, QuietSteps
<1>12. ASSUME NEW c \in Calls, LocalStep(c) \/ Dial(c) \/ Send(c)  PROVE GenerationInv'
    BY <1>7, <1>8, <1>9, <1>12 DEF LocalStep
<1> QED
    BY <1>1, <1>2, <1>3, <1>4, <1>5, <1>6, <1>10, <1>11, <1>12, StepKinds DEF Worker

\* Whoever asks after an ACTIVATED was told sees that policy or a later one
\* (ipc_server.cpp, main.go).
THEOREM StatusAlwaysSeesActivation == Spec => []StatusSeesActivation
<1>1. Init => GetsAskStatus /\ GenerationInv
    <2> SUFFICES ASSUME Init  PROVE GetsAskStatus /\ GenerationInv
        OBVIOUS
    <2>1. Gets \subseteq Calls /\ Calls \subseteq Clients
        BY ControlPlaneAssumption DEF Calls
    <2>2. GetsAskStatus
        BY <2>1 DEF Init, IpcInit, ControlPlaneInit, GetsAskStatus, NoAnswer
    <2>3. ~Composed /\ \A c \in Gets : ~Replied(c) /\ ~ToldStatus(c)
        BY <2>1 DEF Init, IpcInit, ControlPlaneInit, Composed, Replied, ToldStatus, NoAnswer
    <2>4. /\ acknowledged = 0 /\ global_generation = 1
          /\ \A c \in Calls : expected[c] = 0 /\ reply[c].generation = 0
        BY <2>1, IpcServerAssumption DEF Init, IpcInit, ControlPlaneInit, NoReply
    <2> QED
        BY <2>2, <2>3, <2>4 DEF GenerationInv
<1>2. /\ Types /\ SocketInv /\ TruthInv /\ GetsAskStatus /\ GenerationInv /\ [Next]_mvars
      => GetsAskStatus' /\ GenerationInv'
    BY GetsKept, GenerationKept
<1>3. Types /\ GenerationInv => StatusSeesActivation
    <2> SUFFICES ASSUME Types, GenerationInv, NEW c \in Gets, ToldStatus(c)
                 PROVE  answer[c].generation >= expected[c]
        BY DEF StatusSeesActivation, ToldStatus
    <2>1. answer[c].generation \in Nat /\ expected[c] \in Nat
        BY DEF Types, CallTypes, Answers, Calls
    <2> QED
        BY <2>1 DEF GenerationInv
<1> QED
    BY <1>1, <1>2, <1>3, TypesHold, SocketInvHolds, TruthInvHolds, PTL DEF Spec

-----------------------------------------------------------------------------
(* What is installed of a request that was cut off.                        *)

\* The keys of the lists, as strings.
ListKeys == {"suffix_blocks", "exact_blocks", "allowlist"}

\* No rule of the list is spelled like the key.
Without(list, key) == \A i \in DOMAIN list : list[i] # key

\* The hash is spelled like no list's key, and a rule at most like that of its own
\* list or of an earlier one that is not empty: the first occurrence of a key
\* counts (ipc_server.cpp:66), and there it is the list's own.
PlainPolicy(p) ==
    /\ p.version_hash \notin ListKeys
    /\ Without(p.suffix_blocks, "exact_blocks")
    /\ Without(p.suffix_blocks, "allowlist")
    /\ Without(p.exact_blocks, "allowlist")
    /\ p.suffix_blocks = <<>> => /\ Without(p.exact_blocks, "suffix_blocks")
                                 /\ Without(p.allowlist, "suffix_blocks")
    /\ p.exact_blocks = <<>> => Without(p.allowlist, "exact_blocks")

\* All policies that are posted are plain.
PlainPolicies == \A p \in Policies \ {Malformed} : PlainPolicy(p)

\* No token of a wire is the key.
KeyFree(wire, key) ==
    \A i \in DOMAIN wire : ~(wire[i].kind = "string" /\ wire[i].value = key)

\* What a read returns of a wire.
LEMMA ReceivedFacts ==
    ASSUME NEW wire \in Seq(Token)
    PROVE  /\ Received(wire) \in Seq(Token)
           /\ Len(Received(wire)) = IF Len(wire) < MaxRead THEN Len(wire) ELSE MaxRead
           /\ DOMAIN Received(wire) = 1..Len(Received(wire))
           /\ Len(Received(wire)) \in Nat /\ Len(Received(wire)) <= Len(wire)
           /\ Len(wire) \in Nat
           /\ \A i \in 1..Len(Received(wire)) : Received(wire)[i] = wire[i]
<1> DEFINE n == IF Len(wire) < MaxRead THEN Len(wire) ELSE MaxRead
<1>1. n \in Nat /\ n <= Len(wire) /\ Len(wire) \in Nat
    BY MaxReadAssumption, LenProperties
<1>2. \A i \in 1..n : wire[i] \in Token
    BY <1>1, ElementOfSeq
<1>3. Received(wire) = SubSeq(wire, 1, n)
    BY DEF Received
<1> HIDE DEF n
<1>4. Len(SubSeq(wire, 1, n)) = n /\ \A i \in 1..n : SubSeq(wire, 1, n)[i] = wire[i]
    BY <1>1, <1>2, SubSeqProperties
<1>5. Received(wire) \in Seq(Token)
    BY ReceivedIsWire
<1>6. DOMAIN Received(wire) = 1..Len(Received(wire))
    BY <1>5, LenProperties
<1> QED
    BY <1>1, <1>3, <1>4, <1>5, <1>6 DEF n

\* The first of some places is the smallest of them.
LEMMA FirstIs ==
    /\ First({}) = {}
    /\ \A S \in SUBSET Nat, x \in Nat :
          x \in S /\ (\A j \in S : x <= j) => First(S) = {x}
<1>1. First({}) = {}
    BY DEF First
<1>2. ASSUME NEW S \in SUBSET Nat, NEW x \in Nat, x \in S, \A j \in S : x <= j
      PROVE  First(S) = {x}
  <2>1. \A i \in S : i \in Nat /\ (i <= x => i = x)
    BY <1>2
  <2> QED
    BY <1>2, <2>1 DEF First
<1> QED
    BY <1>1, <1>2

\* A list whose key is nowhere is empty.
LEMMA AbsentList ==
    ASSUME NEW wire \in Seq(Token), NEW key, KeyFree(wire, key)
    PROVE  ExtractStrings(Received(wire), key) = {}
<1> DEFINE r == Received(wire)
           m == Len(r)
<1>1. /\ m \in Nat /\ DOMAIN r = 1..m /\ m <= Len(wire) /\ Len(wire) \in Nat
      /\ \A i \in 1..m : r[i] = wire[i]
    BY ReceivedFacts
<1>2. DOMAIN wire = 1..Len(wire)
    BY LenProperties
<1> HIDE DEF r, m
<1>3. {i \in DOMAIN r : r[i].kind = "string" /\ r[i].value = key} = {}
    BY <1>1, <1>2 DEF KeyFree
<1>4. KeyAt(r, key) = {}
    BY <1>3, FirstIs, Zenon DEF KeyAt
<1> QED
    BY <1>4, Zenon DEF ExtractStrings, r

\* Tokens as a search sees them.
IsString(token, s) == token.kind = "string" /\ token.value = s
IsOpen(token) == token.kind = "open"
IsClose(token) == token.kind = "close"

\* A token is of one kind only.
LEMMA TokenKinds ==
    /\ \A s : IsString(Str(s), s)
    /\ IsOpen(Open) /\ IsClose(Close)
    /\ \A t, s : IsString(t, s) => ~IsOpen(t) /\ ~IsClose(t)
    /\ \A t : IsOpen(t) => ~IsClose(t)
    /\ \A t, s : IsOpen(t) \/ IsClose(t) => ~IsString(t, s) /\ t.kind # "string"
    /\ \A t : t.kind = "string" => IsString(t, t.value)
    /\ \A t, s : IsString(t, s) => t.kind = "string" /\ t.value = s
BY DEF IsString, IsOpen, IsClose, Str, Open, Close

\* The list field key with a list of n elements stands in r behind the first
\* a tokens as far as r goes, and the key nowhere before.
Stands(r, m, key, list, n, a) ==
    /\ \A i \in 1..a : i <= m => ~IsString(r[i], key)
    /\ a + 1 <= m => IsString(r[a + 1], key)
    /\ a + 2 <= m => IsOpen(r[a + 2])
    /\ \A i \in 1..n : a + 2 + i <= m => IsString(r[a + 2 + i], list[i])
    /\ a + n + 3 <= m => IsClose(r[a + n + 3])

\* Key and brackets are found where they stand.
LEMMA ListFound ==
    ASSUME NEW r, NEW m \in Nat, DOMAIN r = 1..m, NEW key, NEW list,
           NEW n \in Nat, NEW a \in Nat, Stands(r, m, key, list, n, a)
    PROVE  /\ a + 1 <= m => KeyAt(r, key) = {a + 1}
           /\ a + 1 > m => KeyAt(r, key) = {}
           /\ a + 2 <= m => Behind(r, a + 1, "open") = {a + 2}
           /\ a + 2 > m => Behind(r, a + 1, "open") = {}
           /\ a + n + 3 <= m => Behind(r, a + 2, "close") = {a + n + 3}
           /\ a + n + 3 > m => Behind(r, a + 2, "close") = {}
<1> DEFINE K == {i \in DOMAIN r : r[i].kind = "string" /\ r[i].value = key}
           O == {j \in DOMAIN r : j > a + 1 /\ r[j].kind = "open"}
           C == {j \in DOMAIN r : j > a + 2 /\ r[j].kind = "close"}
<1>1. /\ K = {i \in 1..m : IsString(r[i], key)}
      /\ O = {j \in 1..m : j > a + 1 /\ IsOpen(r[j])}
      /\ C = {j \in 1..m : j > a + 2 /\ IsClose(r[j])}
    BY DEF IsString, IsOpen, IsClose
<1>2. /\ KeyAt(r, key) = First(K)
      /\ Behind(r, a + 1, "open") = First(O)
      /\ Behind(r, a + 2, "close") = First(C)
    BY DEF KeyAt, Behind
<1> HIDE DEF K, O, C
<1>3. K \in SUBSET Nat /\ O \in SUBSET Nat /\ C \in SUBSET Nat
    BY <1>1
<1>4. ASSUME a + 1 <= m  PROVE KeyAt(r, key) = {a + 1}
  <2>1. a + 1 \in K /\ \A j \in K : a + 1 <= j
    BY <1>1, <1>4 DEF Stands
  <2> QED
    BY <1>2, <1>3, <2>1, FirstIs
<1>5. ASSUME a + 1 > m  PROVE KeyAt(r, key) = {}
  <2>1. K = {}
    BY <1>1, <1>5 DEF Stands
  <2> QED
    BY <1>2, <2>1, FirstIs
<1>6. ASSUME a + 2 <= m  PROVE Behind(r, a + 1, "open") = {a + 2}
  <2>1. a + 2 \in O /\ \A j \in O : a + 2 <= j
    BY <1>1, <1>6 DEF Stands
  <2> QED
    BY <1>2, <1>3, <2>1, FirstIs
<1>7. ASSUME a + 2 > m  PROVE Behind(r, a + 1, "open") = {}
  <2>1. O = {}
    BY <1>1, <1>7
  <2> QED
    BY <1>2, <2>1, FirstIs
<1>8. ASSUME NEW j \in C  PROVE a + n + 3 <= j
  <2>1. j \in 1..m /\ j > a + 2 /\ IsClose(r[j])
    BY <1>1
  <2>2. ASSUME j < a + n + 3  PROVE FALSE
    <3>1. PICK i \in 1..n : a + 2 + i = j
      <4>1. j - (a + 2) \in 1..n /\ a + 2 + (j - (a + 2)) = j
        BY <2>1, <2>2
      <4> QED
        BY <4>1
    <3>2. IsString(r[j], list[i])
      BY <2>1, <3>1 DEF Stands
    <3> QED
      BY <2>1, <3>2, TokenKinds
  <2> QED
    BY <2>1, <2>2
<1>9. ASSUME a + n + 3 <= m  PROVE Behind(r, a + 2, "close") = {a + n + 3}
  <2>1. a + n + 3 \in C
    BY <1>1, <1>9 DEF Stands
  <2> QED
    BY <1>2, <1>3, <1>8, <2>1, FirstIs
<1>10. ASSUME a + n + 3 > m  PROVE Behind(r, a + 2, "close") = {}
  <2>1. C = {}
    BY <1>1, <1>8, <1>10
  <2> QED
    BY <1>2, <2>1, FirstIs
<1> QED
    BY <1>4, <1>5, <1>6, <1>7, <1>9, <1>10

\* A list is extracted as a whole if its end is there, and not at all if not.
LEMMA ListExtracted ==
    ASSUME NEW r, NEW m \in Nat, DOMAIN r = 1..m, NEW key, NEW list,
           NEW n \in Nat, NEW a \in Nat, Stands(r, m, key, list, n, a)
    PROVE  ExtractStrings(r, key) =
               IF a + n + 3 <= m THEN {list[j] : j \in 1..n} ELSE {}
<1> DEFINE e == a + n + 3
<1>1. /\ a + 1 <= m => KeyAt(r, key) = {a + 1}
      /\ a + 1 > m => KeyAt(r, key) = {}
      /\ a + 2 <= m => Behind(r, a + 1, "open") = {a + 2}
      /\ a + 2 > m => Behind(r, a + 1, "open") = {}
      /\ e <= m => Behind(r, a + 2, "close") = {e}
      /\ e > m => Behind(r, a + 2, "close") = {}
    BY ListFound
<1>2. CASE e <= m
  <2>0. a + 1 <= m /\ a + 2 <= m
    BY <1>2
  <2>1. /\ KeyAt(r, key) = {a + 1} /\ Behind(r, a + 1, "open") = {a + 2}
        /\ Behind(r, a + 2, "close") = {e}
    BY <1>1, <1>2, <2>0
  <2>2. ExtractStrings(r, key) = StringsBetween(r, a + 2, e)
    BY <2>1 DEF ExtractStrings
  <2>3. ASSUME NEW j \in (a + 2)..e, r[j].kind = "string"
        PROVE  \E i \in 1..n : r[j].value = list[i]
    <3>1. j # a + 2 /\ j # e
        BY <1>2, <2>0, <2>3, TokenKinds DEF Stands
    <3>2. PICK i \in 1..n : a + 2 + i = j
      <4>1. j - (a + 2) \in 1..n /\ a + 2 + (j - (a + 2)) = j
        BY <3>1
      <4> QED
        BY <4>1
    <3>3. IsString(r[j], list[i])
        BY <1>2, <3>2 DEF Stands
    <3> QED
        BY <3>3, TokenKinds
  <2>4. ASSUME NEW i \in 1..n
        PROVE  \E j \in (a + 2)..e : r[j].kind = "string" /\ r[j].value = list[i]
    <3>1. a + 2 + i \in (a + 2)..e /\ IsString(r[a + 2 + i], list[i])
        BY <1>2 DEF Stands
    <3> QED
        BY <3>1, TokenKinds
  <2> HIDE DEF e
  <2> DEFINE J == {j \in (a + 2)..e : r[j].kind = "string"}
  <2>5. /\ \A j \in J : \E i \in 1..n : r[j].value = list[i]
        /\ \A i \in 1..n : \E j \in J : r[j].value = list[i]
    BY <2>3, <2>4
  <2>6. StringsBetween(r, a + 2, e) = {r[j].value : j \in J}
    BY DEF StringsBetween
  <2> HIDE DEF J
  <2>7. {r[j].value : j \in J} = {list[i] : i \in 1..n}
    <3>1. ASSUME NEW v \in {r[j].value : j \in J}  PROVE v \in {list[i] : i \in 1..n}
      <4>1. PICK j \in J : v = r[j].value
        OBVIOUS
      <4>2. PICK i \in 1..n : r[j].value = list[i]
        BY <2>5
      <4> QED
        BY <4>1, <4>2
    <3>2. ASSUME NEW v \in {list[i] : i \in 1..n}  PROVE v \in {r[j].value : j \in J}
      <4>1. PICK i \in 1..n : v = list[i]
        OBVIOUS
      <4>2. PICK j \in J : r[j].value = list[i]
        BY <2>5
      <4> QED
        BY <4>1, <4>2
    <3> QED
      BY <3>1, <3>2
  <2> QED
    BY <1>2, <2>2, <2>6, <2>7 DEF e
<1>3. CASE e > m
  <2>1. \/ KeyAt(r, key) = {}
        \/ KeyAt(r, key) = {a + 1} /\ Behind(r, a + 1, "open") = {}
        \/ /\ KeyAt(r, key) = {a + 1} /\ Behind(r, a + 1, "open") = {a + 2}
           /\ Behind(r, a + 2, "close") = {}
    BY <1>1, <1>3
  <2>2. ExtractStrings(r, key) = {}
    BY <2>1 DEF ExtractStrings
  <2> QED
    BY <1>3, <2>2
<1> QED
    BY <1>2, <1>3

\* w is s, of length l, with t, of length k, behind it.
IsJoined(w, s, l, t, k) ==
    /\ l \in Nat /\ k \in Nat
    /\ w \in Seq(Token) /\ Len(w) = l + k
    /\ \A i \in 1..l : w[i] = s[i]
    /\ \A i \in 1..k : w[l + i] = t[i]
    /\ \A i \in 1..(l + k) : i \in 1..l \/ \E j \in 1..k : i = l + j

\* What \o does, named.
LEMMA Joined ==
    ASSUME NEW s \in Seq(Token), NEW t \in Seq(Token)
    PROVE  IsJoined(s \o t, s, Len(s), t, Len(t))
<1> DEFINE w == s \o t
           l == Len(s)
           k == Len(t)
<1>1. /\ l \in Nat /\ k \in Nat
      /\ w \in Seq(Token) /\ Len(w) = l + k
      /\ \A i \in 1..(l + k) : w[i] = IF i <= l THEN s[i] ELSE t[i - l]
    BY ConcatProperties, LenProperties
<1> HIDE DEF w, l, k
<1>2. \A i \in 1..l : w[i] = s[i]
    BY <1>1
<1>3. ASSUME NEW i \in 1..k  PROVE w[l + i] = t[i]
  <2>1. l + i \in 1..(l + k) /\ ~(l + i <= l) /\ (l + i) - l = i
    BY <1>1
  <2> QED
    BY <1>1, <2>1
<1>4. ASSUME NEW i \in 1..(l + k), i \notin 1..l  PROVE \E j \in 1..k : i = l + j
  <2>1. i - l \in 1..k /\ i = l + (i - l)
    BY <1>1, <1>4
  <2> QED
    BY <2>1
<1>5. IsJoined(w, s, l, t, k)
    BY <1>1, <1>2, <1>3, <1>4 DEF IsJoined
<1> QED
    BY <1>5 DEF w, l, k

\* The tokens of a list field.
LEMMA FieldTokens ==
    ASSUME NEW key \in Keys, NEW list \in Seq(STRING), list # <<>>
    PROVE  LET f == ListField(key, list)
               n == Len(list)
           IN  /\ f \in Seq(Token) /\ Len(f) = n + 3 /\ n \in Nat
               /\ IsString(f[1], key) /\ IsOpen(f[2]) /\ IsClose(f[n + 3])
               /\ \A i \in 1..n : IsString(f[2 + i], list[i])
<1> DEFINE f == ListField(key, list)
           n == Len(list)
           b == <<Str(key), Open>>
           s == Strings(list)
           c == <<Close>>
<1>1. n \in Nat /\ DOMAIN list = 1..n
    BY LenProperties
<1>2. f = (b \o s) \o c
    BY DEF ListField
<1>3. f \in Seq(Token)
    BY ListFieldIsWire
<1>4. Str(key) \in Token /\ Open \in Token /\ Close \in Token
    BY TokenFacts, Zenon DEF Text
<1>5. /\ b \in Seq(Token) /\ Len(b) = 2 /\ b[1] = Str(key) /\ b[2] = Open
      /\ c \in Seq(Token) /\ Len(c) = 1 /\ c[1] = Close
  <2> HIDE DEF Str, Open, Close
  <2>1. \A x, y \in Token : /\ <<x, y>> \in Seq(Token) /\ Len(<<x, y>>) = 2
                            /\ <<x, y>>[1] = x /\ <<x, y>>[2] = y
                            /\ <<x>> \in Seq(Token) /\ Len(<<x>>) = 1 /\ <<x>>[1] = x
    OBVIOUS
  <2> QED
    BY <1>4, <2>1, Zenon
<1>6. \A i \in 1..n : s[i] = Str(list[i]) /\ Str(list[i]) \in Token
    BY <1>1, TokenFacts, ElementOfSeq, Zenon DEF Strings, Text
<1>7. s \in Seq(Token) /\ Len(s) = n
  <2>1. s = [i \in 1..n |-> Str(list[i])]
    BY <1>1 DEF Strings
  <2> HIDE DEF s, n
  <2> QED
    BY <1>1, <1>6, <2>1
<1> HIDE DEF f, n, b, s, c
<1>8. /\ IsJoined(b \o s, b, 2, s, n)
      /\ b \o s \in Seq(Token) /\ Len(b \o s) = n + 2
  <2>1. IsJoined(b \o s, b, Len(b), s, Len(s))
    BY <1>5, <1>7, Joined, Zenon
  <2> QED
    BY <1>1, <1>5, <1>7, <2>1 DEF IsJoined
<1>9. /\ IsJoined(f, b \o s, n + 2, c, 1)
  <2>1. IsJoined(f, b \o s, Len(b \o s), c, Len(c))
    BY <1>2, <1>5, <1>8, Joined, Zenon
  <2> QED
    BY <1>5, <1>8, <2>1, Zenon
<1> HIDE DEF IsJoined
<1>10. PICK w : w = b \o s
    OBVIOUS
<1>11. /\ w[1] = b[1] /\ w[2] = b[2] /\ \A i \in 1..n : w[2 + i] = s[i]
       /\ f[1] = w[1] /\ f[2] = w[2] /\ f[n + 3] = c[1] /\ Len(f) = n + 3
       /\ \A i \in 1..n : f[2 + i] = w[2 + i]
  <2>1. IsJoined(w, b, 2, s, n) /\ IsJoined(f, w, n + 2, c, 1)
    BY <1>8, <1>9, <1>10
  <2>2. w[1] = b[1] /\ w[2] = b[2] /\ \A i \in 1..n : w[2 + i] = s[i]
    BY <2>1 DEF IsJoined
  <2>3. /\ \A i \in 1..(n + 2) : f[i] = w[i]
        /\ f[(n + 2) + 1] = c[1] /\ Len(f) = (n + 2) + 1
    BY <2>1 DEF IsJoined
  <2>4. /\ (n + 2) + 1 = n + 3 /\ 1 \in 1..(n + 2) /\ 2 \in 1..(n + 2)
        /\ \A i \in 1..n : 2 + i \in 1..(n + 2)
    BY <1>1
  <2> QED
    BY <2>2, <2>3, <2>4
<1>12. f[1] = Str(key) /\ f[2] = Open /\ f[n + 3] = Close
    BY <1>5, <1>11, Zenon
<1>13. \A i \in 1..n : f[2 + i] = Str(list[i])
    BY <1>6, <1>11, Zenon
<1>14. /\ IsString(f[1], key) /\ IsOpen(f[2]) /\ IsClose(f[n + 3])
       /\ \A i \in 1..n : IsString(f[2 + i], list[i])
  <2>1. IsString(f[1], key) /\ IsOpen(f[2]) /\ IsClose(f[n + 3])
    BY <1>12, TokenKinds
  <2>2. ASSUME NEW i \in 1..n  PROVE IsString(f[2 + i], list[i])
    BY <1>13, TokenKinds
  <2> QED
    BY <2>1, <2>2
<1> QED
    BY <1>1, <1>3, <1>11, <1>14, Zenon DEF f, n

\* The wire begins with the tokens of begin.
Begins(wire, begin) ==
    /\ Len(begin) <= Len(wire)
    /\ \A i \in 1..Len(begin) : wire[i] = begin[i]

\* What was read of a wire that begins with the tokens of begin, of which the
\* last are the list's field, holds the whole list or nothing of it.
LEMMA ListCut ==
    ASSUME NEW wire \in Seq(Token), NEW before \in Seq(Token), NEW key \in Keys,
           NEW list \in Seq(STRING), NEW begin, begin = before \o ListField(key, list),
           Begins(wire, begin),
           KeyFree(before, key), list = <<>> => KeyFree(wire, key)
    PROVE  ExtractStrings(Received(wire), key) =
               IF Len(begin) <= Len(Received(wire))
               THEN {list[j] : j \in DOMAIN list} ELSE {}
<1>1. CASE list = <<>>
  <2>1. ExtractStrings(Received(wire), key) = {}
    BY <1>1, AbsentList
  <2>2. {list[j] : j \in DOMAIN list} = {}
    BY <1>1
  <2> QED
    BY <2>1, <2>2
<1>2. CASE list # <<>>
  <2> DEFINE f == ListField(key, list)
             n == Len(list)
             a == Len(before)
             r == Received(wire)
             m == Len(r)
  <2>1. /\ f \in Seq(Token) /\ Len(f) = n + 3 /\ n \in Nat
        /\ IsString(f[1], key) /\ IsOpen(f[2]) /\ IsClose(f[n + 3])
        /\ \A i \in 1..n : IsString(f[2 + i], list[i])
    BY <1>2, FieldTokens
  <2>2. a \in Nat /\ DOMAIN before = 1..a /\ DOMAIN list = 1..n
    BY LenProperties
  <2>3. /\ m \in Nat /\ DOMAIN r = 1..m
        /\ \A i \in 1..m : r[i] = wire[i]
    BY ReceivedFacts
  <2> HIDE DEF f, n, a, r, m
  <2>4. /\ Len(begin) = a + n + 3
        /\ \A i \in 1..a : begin[i] = before[i]
        /\ \A i \in 1..(n + 3) : begin[a + i] = f[i]
    <3>1. IsJoined(before \o f, before, Len(before), f, Len(f))
      BY <2>1, Joined, Zenon
    <3>2. IsJoined(begin, before, a, f, n + 3)
      BY <2>1, <3>1, Zenon DEF f, a
    <3>3. /\ Len(begin) = a + (n + 3)
          /\ \A i \in 1..a : begin[i] = before[i]
          /\ \A i \in 1..(n + 3) : begin[a + i] = f[i]
      BY <3>2, Zenon DEF IsJoined
    <3>4. a + (n + 3) = a + n + 3
      BY <2>1, <2>2
    <3> QED
      BY <3>3, <3>4, Zenon
  <2>5. /\ \A i \in 1..a : i <= m => r[i] = before[i]
        /\ \A i \in 1..(n + 3) : a + i <= m => r[a + i] = f[i]
    <3>0. PICK l \in Nat : l = a + n + 3 /\ l = Len(begin)
      BY <2>1, <2>2, <2>4
    <3>1. \A i \in 1..l : wire[i] = begin[i]
      BY <3>0 DEF Begins
    <3>2. \A i \in 1..(n + 3) : a + i \in 1..l
      BY <2>1, <2>2, <3>0
    <3>3. \A i \in 1..a : i \in 1..l
      BY <2>1, <2>2, <3>0
    <3>4. \A i \in 1..a : i <= m => i \in 1..m
      BY <2>2, <2>3
    <3>5. \A i \in 1..(n + 3) : a + i <= m => a + i \in 1..m
      BY <2>1, <2>2, <2>3
    <3> QED
      BY <2>3, <2>4, <3>1, <3>2, <3>3, <3>4, <3>5, Zenon
  <2>6. \A i \in 1..a : ~IsString(before[i], key)
    BY <2>2, Zenon DEF KeyFree, IsString
  <2>7. Stands(r, m, key, list, n, a)
    <3>1. \A i \in 1..a : i <= m => ~IsString(r[i], key)
      BY <2>5, <2>6
    <3>2. /\ a + 1 <= m => IsString(r[a + 1], key)
          /\ a + 2 <= m => IsOpen(r[a + 2])
          /\ a + n + 3 <= m => IsClose(r[a + n + 3])
      <4>1. 1 \in 1..(n + 3) /\ 2 \in 1..(n + 3) /\ n + 3 \in 1..(n + 3)
        BY <2>1
      <4>2. a + (n + 3) = a + n + 3
        BY <2>1, <2>2
      <4> QED
        BY <2>1, <2>5, <4>1, <4>2
    <3>3. \A i \in 1..n : a + 2 + i <= m => IsString(r[a + 2 + i], list[i])
      <4> SUFFICES ASSUME NEW i \in 1..n, a + 2 + i <= m
                   PROVE  IsString(r[a + 2 + i], list[i])
        OBVIOUS
      <4>1. 2 + i \in 1..(n + 3) /\ a + (2 + i) = a + 2 + i
        BY <2>1, <2>2
      <4>2. r[a + 2 + i] = f[2 + i]
        BY <2>5, <4>1
      <4> QED
        BY <2>1, <4>2
    <3> QED
      BY <3>1, <3>2, <3>3 DEF Stands
  <2>8. ExtractStrings(r, key) = IF a + n + 3 <= m THEN {list[j] : j \in 1..n} ELSE {}
    BY <2>1, <2>2, <2>3, <2>7, ListExtracted
  <2> QED
    BY <2>2, <2>4, <2>8 DEF r, m
<1> QED
    BY <1>1, <1>2

-----------------------------------------------------------------------------
\* Wires without a key.
LEMMA FreeConcat ==
    ASSUME NEW s \in Seq(Token), NEW t \in Seq(Token), NEW key, KeyFree(s, key), KeyFree(t, key)
    PROVE  KeyFree(s \o t, key)
<1>1. \A i \in 1..Len(s \o t) : (\E j \in 1..Len(s) : (s \o t)[i] = s[j])
                                  \/ (\E j \in 1..Len(t) : (s \o t)[i] = t[j])
  <2>1. IsJoined(s \o t, s, Len(s), t, Len(t))
    BY Joined, Zenon
  <2>2. PICK w, l, k : w = s \o t /\ l = Len(s) /\ k = Len(t) /\ IsJoined(w, s, l, t, k)
    BY <2>1
  <2>3. ASSUME NEW i \in 1..(l + k)
        PROVE  (\E j \in 1..l : w[i] = s[j]) \/ (\E j \in 1..k : w[i] = t[j])
    <3>1. CASE i \in 1..l
      BY <2>2, <3>1 DEF IsJoined
    <3>2. CASE \E j \in 1..k : i = l + j
      BY <2>2, <3>2 DEF IsJoined
    <3> QED
      BY <2>2, <3>1, <3>2 DEF IsJoined
  <2>4. Len(w) = l + k
    BY <2>2 DEF IsJoined
  <2> QED
    BY <2>2, <2>3, <2>4
<1>2. /\ DOMAIN s = 1..Len(s) /\ DOMAIN t = 1..Len(t)
      /\ DOMAIN (s \o t) = 1..Len(s \o t)
    BY ConcatProperties, LenProperties
<1> QED
    BY <1>1, <1>2, Zenon DEF KeyFree

\* A field holds a key only as its own or as its value.
LEMMA FieldFree ==
    ASSUME NEW k \in Keys, NEW key, k # key, NEW value \in Token, ~IsString(value, key)
    PROVE  KeyFree(Field(k, value), key)
<1>1. Field(k, value) = <<Str(k), value>>
    BY DEF Field
<1>2. ~IsString(Str(k), key)
    BY DEF IsString, Str
<1>3. \A x, y : \A i \in DOMAIN <<x, y>> : <<x, y>>[i] = x \/ <<x, y>>[i] = y
    OBVIOUS
<1>4. \A i \in DOMAIN Field(k, value) : ~IsString(Field(k, value)[i], key)
    BY <1>1, <1>2, <1>3
<1> QED
    BY <1>4, Zenon DEF KeyFree, IsString

\* A list field holds a key only as its own or as one of its elements.
LEMMA ListFree ==
    ASSUME NEW k \in Keys, NEW key, k # key, NEW list \in Seq(STRING),
           \A i \in DOMAIN list : list[i] # key
    PROVE  KeyFree(ListField(k, list), key)
<1>1. CASE list = <<>>
    BY <1>1 DEF ListField, KeyFree
<1>2. CASE list # <<>>
  <2> DEFINE f == ListField(k, list)
             n == Len(list)
  <2>1. /\ f \in Seq(Token) /\ Len(f) = n + 3 /\ n \in Nat
        /\ IsString(f[1], k) /\ IsOpen(f[2]) /\ IsClose(f[n + 3])
        /\ \A i \in 1..n : IsString(f[2 + i], list[i])
    BY <1>2, FieldTokens
  <2>2. DOMAIN list = 1..n
    BY LenProperties
  <2>3. DOMAIN f = 1..(n + 3)
    BY <2>1, LenProperties
  <2> HIDE DEF f, n
  <2>4. ASSUME NEW i \in 1..(n + 3)  PROVE ~IsString(f[i], key)
    <3>1. CASE i = 1
      BY <2>1, <3>1, TokenKinds
    <3>2. CASE i = 2
      BY <2>1, <3>2, TokenKinds
    <3>3. CASE i = n + 3
      BY <2>1, <3>3, TokenKinds
    <3>4. CASE i > 2 /\ i < n + 3
      <4>1. PICK j \in 1..n : i = 2 + j
        <5>1. i - 2 \in 1..n /\ i = 2 + (i - 2)
          BY <2>1, <3>4
        <5> QED
          BY <5>1
      <4>2. IsString(f[i], list[j]) /\ list[j] # key
        BY <2>1, <2>2, <4>1
      <4> QED
        BY <4>2, TokenKinds
    <3> QED
      BY <2>1, <3>1, <3>2, <3>3, <3>4
  <2>5. KeyFree(f, key)
    BY <2>3, <2>4, Zenon DEF KeyFree, IsString
  <2> QED
    BY <2>5 DEF f
<1> QED
    BY <1>1, <1>2

-----------------------------------------------------------------------------
\* The six tokens every policy's wire begins with.
WireHead(p) == Field("command", Str("APPLY_POLICY")) \o Field("generation", Num(p.generation))
               \o Field("version_hash", Str(p.version_hash))

IsNumber(token, n) == token.kind = "number" /\ token.value = n

\* Command, generation and hash stand at the front of r, as far as it goes.
HeadStands(r, m, p) ==
    /\ 1 <= m => IsString(r[1], "command")
    /\ 2 <= m => IsString(r[2], "APPLY_POLICY")
    /\ 3 <= m => IsString(r[3], "generation")
    /\ 4 <= m => IsNumber(r[4], p.generation)
    /\ 5 <= m => IsString(r[5], "version_hash")
    /\ 6 <= m => IsString(r[6], p.version_hash)

\* They do in the head of a wire.
LEMMA HeadTokens ==
    ASSUME NEW p \in PolicyRequest
    PROVE  WireHead(p) \in Seq(Token) /\ Len(WireHead(p)) = 6 /\ HeadStands(WireHead(p), 6, p)
<1> DEFINE n == Num(p.generation)
           h == Str(p.version_hash)
           c == Str("APPLY_POLICY")
           k1 == Str("command")
           k2 == Str("generation")
           k3 == Str("version_hash")
<1>1. /\ n \in Token /\ h \in Token /\ c \in Token
      /\ k1 \in Token /\ k2 \in Token /\ k3 \in Token
  <2>1. /\ p.generation \in Nat /\ p.version_hash \in Text /\ "APPLY_POLICY" \in Text
        /\ "command" \in Text /\ "generation" \in Text /\ "version_hash" \in Text
    BY DEF Text, Keys, PolicyRequest
  <2> QED
    BY <2>1, TokenFacts, Zenon
<1>2. WireHead(p) = <<k1, c>> \o <<k2, n>> \o <<k3, h>>
    BY DEF WireHead, Field
<1>3. /\ IsNumber(n, p.generation) /\ IsString(h, p.version_hash)
      /\ IsString(c, "APPLY_POLICY") /\ IsString(k1, "command")
      /\ IsString(k2, "generation") /\ IsString(k3, "version_hash")
  <2>1. IsNumber(n, p.generation)
    BY DEF IsNumber, Num
  <2> QED
    BY <2>1, TokenKinds, Zenon
<1> HIDE DEF n, h, c, k1, k2, k3
<1>4. PICK a, b, d : a = <<k1, c>> /\ b = <<k2, n>> /\ d = <<k3, h>>
    OBVIOUS
<1>5. /\ a \in Seq(Token) /\ Len(a) = 2 /\ a[1] = k1 /\ a[2] = c
      /\ b \in Seq(Token) /\ Len(b) = 2 /\ b[1] = k2 /\ b[2] = n
      /\ d \in Seq(Token) /\ Len(d) = 2 /\ d[1] = k3 /\ d[2] = h
  <2>1. \A x, y \in Token : /\ <<x, y>> \in Seq(Token) /\ Len(<<x, y>>) = 2
                            /\ <<x, y>>[1] = x /\ <<x, y>>[2] = y
    OBVIOUS
  <2> QED
    BY <1>1, <1>4, <2>1, Zenon
<1>6. PICK u, t : /\ u = a \o b /\ t = u \o d /\ t = WireHead(p)
                  /\ IsJoined(u, a, 2, b, 2) /\ IsJoined(t, u, 4, d, 2)
  <2>1. PICK u : u = a \o b /\ IsJoined(u, a, 2, b, 2)
    <3>1. IsJoined(a \o b, a, Len(a), b, Len(b))
      BY <1>5, Joined, Zenon
    <3> QED
      BY <1>5, <3>1, Zenon
  <2>2. u \in Seq(Token) /\ Len(u) = 4
    BY <2>1 DEF IsJoined
  <2>3. IsJoined(u \o d, u, Len(u), d, Len(d))
    BY <1>5, <2>2, Joined, Zenon
  <2>4. IsJoined(u \o d, u, 4, d, 2)
    BY <1>5, <2>2, <2>3, Zenon
  <2> QED
    BY <1>2, <1>4, <2>1, <2>4, Zenon
<1>7. /\ t \in Seq(Token) /\ Len(t) = 6
       /\ t[1] = k1 /\ t[2] = c /\ t[3] = k2 /\ t[4] = n /\ t[5] = k3 /\ t[6] = h
  <2>1. u[1] = a[1] /\ u[2] = a[2] /\ u[2 + 1] = b[1] /\ u[2 + 2] = b[2]
    BY <1>6 DEF IsJoined
  <2>2. /\ t \in Seq(Token) /\ Len(t) = 6
        /\ t[1] = u[1] /\ t[2] = u[2] /\ t[3] = u[3] /\ t[4] = u[4]
        /\ t[4 + 1] = d[1] /\ t[4 + 2] = d[2]
    BY <1>6 DEF IsJoined
  <2> QED
    BY <1>5, <2>1, <2>2
<1>8. HeadStands(t, 6, p)
    BY <1>3, <1>7 DEF HeadStands
<1> QED
    BY <1>6, <1>7, <1>8, Zenon

\* Generation and hash are found in what was read, the hash if it was.
LEMMA HeadExtracted ==
    ASSUME NEW r, NEW m \in Nat, m >= 4, DOMAIN r = 1..m, NEW p, HeadStands(r, m, p)
    PROVE  /\ ExtractString(r, "command") = "APPLY_POLICY"
           /\ ExtractUint64(r, "generation") = p.generation
           /\ m >= 6 => ExtractString(r, "version_hash") = p.version_hash
           /\ m < 6 => ExtractString(r, "version_hash") = ""
<1> DEFINE K(key) == {i \in DOMAIN r : r[i].kind = "string" /\ r[i].value = key}
           V(i, kind) == {j \in DOMAIN r : j > i /\ r[j].kind = kind}
<1>1. /\ \A key : KeyAt(r, key) = First(K(key))
      /\ \A i, kind : Behind(r, i, kind) = First(V(i, kind))
    BY DEF KeyAt, Behind
<1>2. \A key, i, kind : K(key) \in SUBSET Nat /\ V(i, kind) \in SUBSET Nat
    OBVIOUS
<1>3. /\ \A key : \A i : i \in K(key) <=> i \in 1..m /\ IsString(r[i], key)
      /\ \A i, kind : \A j : j \in V(i, kind) <=> j \in 1..m /\ j > i /\ r[j].kind = kind
    BY DEF IsString
<1> HIDE DEF K, V
<1>4. /\ IsString(r[1], "command") /\ IsString(r[2], "APPLY_POLICY")
      /\ IsString(r[3], "generation") /\ IsNumber(r[4], p.generation)
      /\ m >= 5 => IsString(r[5], "version_hash")
      /\ m >= 6 => IsString(r[6], p.version_hash)
    BY DEF HeadStands
<1>5. /\ 1 \in 1..m /\ 2 \in 1..m /\ 3 \in 1..m /\ 4 \in 1..m
      /\ m >= 5 => 5 \in 1..m
      /\ m >= 6 => 6 \in 1..m
      /\ \A j \in 1..m : /\ 1 <= j
                         /\ j > 1 => 2 <= j
                         /\ j > 3 => 4 <= j
                         /\ j > 5 => 6 <= j
                         /\ 3 <= j \/ j = 1 \/ j = 2
                         /\ 5 <= j \/ j = 1 \/ j = 2 \/ j = 3 \/ j = 4
    OBVIOUS
<1>6. /\ ~IsString(r[1], "generation") /\ ~IsString(r[2], "generation")
      /\ ~IsString(r[1], "version_hash") /\ ~IsString(r[2], "version_hash")
      /\ ~IsString(r[3], "version_hash") /\ ~IsString(r[4], "version_hash")
      /\ r[2].kind = "string" /\ r[4].kind = "number"
      /\ m >= 6 => r[6].kind = "string"
    BY <1>4 DEF IsString, IsNumber
<1>7. /\ KeyAt(r, "command") = {1} /\ Behind(r, 1, "string") = {2}
      /\ KeyAt(r, "generation") = {3} /\ Behind(r, 3, "number") = {4}
  <2>1. /\ 1 \in K("command") /\ \A j \in K("command") : 1 <= j
        /\ 2 \in V(1, "string") /\ \A j \in V(1, "string") : 2 <= j
        /\ 3 \in K("generation") /\ \A j \in K("generation") : 3 <= j
        /\ 4 \in V(3, "number") /\ \A j \in V(3, "number") : 4 <= j
    BY <1>3, <1>4, <1>5, <1>6
  <2> QED
    BY <1>1, <1>2, <2>1, FirstIs
<1>8. /\ m >= 5 => KeyAt(r, "version_hash") = {5}
      /\ m < 5 => KeyAt(r, "version_hash") = {}
  <2>1. m >= 5 => 5 \in K("version_hash") /\ \A j \in K("version_hash") : 5 <= j
    BY <1>3, <1>4, <1>5, <1>6
  <2>2. m < 5 => K("version_hash") = {}
    BY <1>3, <1>4, <1>5, <1>6
  <2> QED
    BY <1>1, <1>2, <2>1, <2>2, FirstIs
<1>9. /\ m >= 6 => Behind(r, 5, "string") = {6}
      /\ m < 6 => Behind(r, 5, "string") = {}
  <2>1. m >= 6 => 6 \in V(5, "string") /\ \A j \in V(5, "string") : 6 <= j
    BY <1>3, <1>4, <1>5, <1>6
  <2>2. m < 6 => V(5, "string") = {}
    BY <1>3, <1>5
  <2>3. PICK S \in SUBSET Nat : S = V(5, "string") /\ Behind(r, 5, "string") = First(S)
    BY <1>1, <1>2
  <2> QED
    BY <2>1, <2>2, <2>3, FirstIs
<1>11. \A key, kind, default :
           (\A i \in KeyAt(r, key) : Behind(r, i, kind) = {}) =>
           Extract(r, key, kind, default) = default
  <2> SUFFICES ASSUME NEW key, NEW kind, NEW default,
                      \A i \in KeyAt(r, key) : Behind(r, i, kind) = {}
               PROVE  Extract(r, key, kind, default) = default
    OBVIOUS
  <2>1. UNION {Behind(r, k, kind) : k \in KeyAt(r, key)} = {}
    OBVIOUS
  <2> QED
    BY <2>1 DEF Extract
<1>12. /\ ExtractString(r, "command") = r[2].value
       /\ ExtractUint64(r, "generation") = r[4].value
  <2>1. UNION {Behind(r, k, "string") : k \in KeyAt(r, "command")} = {2}
    BY <1>7
  <2>2. UNION {Behind(r, k, "number") : k \in KeyAt(r, "generation")} = {4}
    BY <1>7
  <2> QED
    BY <2>1, <2>2 DEF ExtractString, ExtractUint64, Extract
<1>13. m >= 6 => ExtractString(r, "version_hash") = r[6].value
  <2> SUFFICES ASSUME m >= 6  PROVE ExtractString(r, "version_hash") = r[6].value
    OBVIOUS
  <2>1. KeyAt(r, "version_hash") = {5} /\ Behind(r, 5, "string") = {6}
    BY <1>8, <1>9
  <2>2. UNION {Behind(r, k, "string") : k \in KeyAt(r, "version_hash")} = {6}
    BY <2>1
  <2> QED
    BY <2>2 DEF ExtractString, Extract
<1>14. m < 6 => ExtractString(r, "version_hash") = ""
  <2> SUFFICES ASSUME m < 6  PROVE ExtractString(r, "version_hash") = ""
    OBVIOUS
  <2>1. \A i \in KeyAt(r, "version_hash") : Behind(r, i, "string") = {}
    BY <1>8, <1>9
  <2> QED
    BY <1>11, <2>1 DEF ExtractString
<1>15. /\ r[2].value = "APPLY_POLICY" /\ r[4].value = p.generation
       /\ m >= 6 => r[6].value = p.version_hash
    BY <1>4 DEF IsString, IsNumber
<1> QED
    BY <1>12, <1>13, <1>14, <1>15, Zenon

\* The head has no key of a list.
LEMMA HeadFree ==
    ASSUME NEW p \in PolicyRequest, p.version_hash \notin ListKeys, NEW key \in ListKeys
    PROVE  KeyFree(WireHead(p), key)
<1>1. PICK t : t = WireHead(p)
    OBVIOUS
<1>2. t \in Seq(Token) /\ Len(t) = 6 /\ HeadStands(t, 6, p)
    BY <1>1, HeadTokens
<1>3. DOMAIN t = 1..6
    BY <1>2, LenProperties
<1>4. /\ key # "command" /\ key # "APPLY_POLICY" /\ key # "generation"
      /\ key # "version_hash" /\ key # p.version_hash
    BY DEF ListKeys
<1>5. /\ IsString(t[1], "command") /\ IsString(t[2], "APPLY_POLICY")
      /\ IsString(t[3], "generation") /\ IsNumber(t[4], p.generation)
      /\ IsString(t[5], "version_hash") /\ IsString(t[6], p.version_hash)
    BY <1>2 DEF HeadStands
<1>6. /\ ~IsString(t[1], key) /\ ~IsString(t[2], key) /\ ~IsString(t[3], key)
      /\ ~IsString(t[4], key) /\ ~IsString(t[5], key) /\ ~IsString(t[6], key)
    BY <1>4, <1>5 DEF IsString, IsNumber
<1>7. \A i \in DOMAIN t : ~IsString(t[i], key)
    BY <1>3, <1>6
<1> QED
    BY <1>1, <1>7, Zenon DEF KeyFree, IsString

\* Each of the three lists of a policy of which a part was read is there as a
\* whole or empty, a later one only if the earlier ones are whole.
KeptWhole(s, p) ==
    LET lists == <<p.suffix_blocks, p.exact_blocks, p.allowlist>>
        kept  == <<s.suffix_blocks, s.exact_blocks, s.allowlist>>
        whole(i) == kept[i] = {lists[i][j] : j \in DOMAIN lists[i]}
    IN  /\ p.generation = s.generation
        /\ p.version_hash = s.version_hash
        /\ \E last \in 0..3 : \A i \in 1..3 :
               IF i <= last THEN whole(i) ELSE kept[i] = {}

\* The beginnings of a policy's wire, each ending with one more list.
ThroughSuffixes(p) == WireHead(p) \o ListField("suffix_blocks", p.suffix_blocks)
ThroughExacts(p) == ThroughSuffixes(p) \o ListField("exact_blocks", p.exact_blocks)

\* w is the wire of p; h, s and e are its beginnings.
WireOf(p, w, h, s, e) ==
    /\ w = PolicyWire(p) /\ h = WireHead(p)
    /\ s = ThroughSuffixes(p) /\ e = ThroughExacts(p)
    /\ w \in Seq(Token) /\ h \in Seq(Token) /\ s \in Seq(Token) /\ e \in Seq(Token)
    /\ Len(h) <= Len(s) /\ Len(s) <= Len(e) /\ Len(e) <= Len(w)
    /\ Begins(w, h) /\ Begins(w, s) /\ Begins(w, e) /\ Begins(w, w)

\* Each beginning is one of the whole wire.
LEMMA WireLayout ==
    ASSUME NEW p \in PolicyRequest
    PROVE  \E w, h, s, e : WireOf(p, w, h, s, e)
<1>0. PICK w, h, s, e : /\ w = PolicyWire(p) /\ h = WireHead(p)
                        /\ s = ThroughSuffixes(p) /\ e = ThroughExacts(p)
    OBVIOUS
<1> DEFINE f4 == ListField("suffix_blocks", p.suffix_blocks)
           f5 == ListField("exact_blocks", p.exact_blocks)
           f6 == ListField("allowlist", p.allowlist)
<1>1. f4 \in Seq(Token) /\ f5 \in Seq(Token) /\ f6 \in Seq(Token)
  <2>1. /\ p.suffix_blocks \in Seq(STRING) /\ p.exact_blocks \in Seq(STRING)
        /\ p.allowlist \in Seq(STRING)
    BY DEF PolicyRequest
  <2>2. "suffix_blocks" \in Keys /\ "exact_blocks" \in Keys /\ "allowlist" \in Keys
    BY DEF Keys
  <2> QED
    BY <2>1, <2>2, ListFieldIsWire, Zenon
<1>2. h \in Seq(Token)
    BY <1>0, HeadTokens
<1>3. s = h \o f4 /\ e = s \o f5 /\ w = e \o f6
    BY <1>0, Zenon DEF ThroughSuffixes, ThroughExacts, PolicyWire, WireHead
<1> HIDE DEF f4, f5, f6
<1>4. s \in Seq(Token) /\ IsJoined(s, h, Len(h), f4, Len(f4))
    BY <1>1, <1>2, <1>3, ConcatProperties, Joined, Zenon
<1>5. e \in Seq(Token) /\ IsJoined(e, s, Len(s), f5, Len(f5))
    BY <1>1, <1>3, <1>4, ConcatProperties, Joined, Zenon
<1>6. w \in Seq(Token) /\ IsJoined(w, e, Len(e), f6, Len(f6))
    BY <1>1, <1>3, <1>5, ConcatProperties, Joined, Zenon
<1>7. /\ Len(h) \in Nat /\ Len(s) \in Nat /\ Len(e) \in Nat /\ Len(w) \in Nat
      /\ Len(h) <= Len(s) /\ Len(s) <= Len(e) /\ Len(e) <= Len(w)
    BY <1>4, <1>5, <1>6, LenProperties DEF IsJoined
<1>8. /\ \A i \in 1..Len(h) : s[i] = h[i]
      /\ \A i \in 1..Len(s) : e[i] = s[i]
      /\ \A i \in 1..Len(e) : w[i] = e[i]
    BY <1>4, <1>5, <1>6, Zenon DEF IsJoined
<1>9. \A i \in 1..Len(s) : i \in 1..Len(e)
    BY <1>7
<1>10. \A i \in 1..Len(h) : i \in 1..Len(s)
    BY <1>7
<1>11. /\ \A i \in 1..Len(h) : w[i] = h[i]
       /\ \A i \in 1..Len(s) : w[i] = s[i]
    BY <1>8, <1>9, <1>10
<1>12. Begins(w, e) /\ Begins(w, w)
    BY <1>7, <1>8 DEF Begins
<1>13. Begins(w, s)
    BY <1>7, <1>11 DEF Begins
<1>14. Begins(w, h)
    BY <1>7, <1>11 DEF Begins
<1>15. WireOf(p, w, h, s, e)
    BY <1>0, <1>2, <1>4, <1>5, <1>6, <1>7, <1>12, <1>13, <1>14, Zenon DEF WireOf
<1> QED
    BY <1>15

\* A candidate with a version hash.
Hashed(c) == c.version_hash # ""

\* The rules of a list, as a set.
Rules(list) == {list[j] : j \in DOMAIN list}

\* ListCut with its two cases apart.
LEMMA ListCutCases ==
    ASSUME NEW wire \in Seq(Token), NEW before \in Seq(Token), NEW key \in Keys,
           NEW list \in Seq(STRING), NEW begin, begin = before \o ListField(key, list),
           Begins(wire, begin),
           KeyFree(before, key), list = <<>> => KeyFree(wire, key)
    PROVE  /\ Len(begin) <= Len(Received(wire))
                 => ExtractStrings(Received(wire), key) = Rules(list)
           /\ ~(Len(begin) <= Len(Received(wire)))
                 => ExtractStrings(Received(wire), key) = {}
<1>1. ExtractStrings(Received(wire), key) =
          IF Len(begin) <= Len(Received(wire)) THEN {list[j] : j \in DOMAIN list} ELSE {}
    BY ListCut
<1> QED
    BY <1>1 DEF Rules

\* Of three beginnings of growing length, a read has the first ones whole.
LEMMA FirstOnes ==
    ASSUME NEW ls \in Nat, NEW le \in Nat, NEW lw \in Nat, NEW m \in Nat,
           ls <= le, le <= lw
    PROVE  \E last \in 0..3 : /\ 1 <= last <=> ls <= m
                              /\ 2 <= last <=> le <= m
                              /\ 3 <= last <=> lw <= m
<1>1. CASE lw <= m
  <2>1. ls <= m /\ le <= m
    BY <1>1
  <2>2. 3 \in 0..3
    OBVIOUS
  <2> QED
    BY <1>1, <2>1, <2>2
<1>2. CASE ~(lw <= m) /\ le <= m
  <2>1. ls <= m
    BY <1>2
  <2>2. 2 \in 0..3
    OBVIOUS
  <2> QED
    BY <1>2, <2>1, <2>2
<1>3. CASE ~(le <= m) /\ ls <= m
  <2>1. ~(lw <= m)
    BY <1>3
  <2>2. 1 \in 0..3
    OBVIOUS
  <2> QED
    BY <1>3, <2>1, <2>2
<1>4. CASE ~(ls <= m)
  <2>1. ~(lw <= m) /\ ~(le <= m)
    BY <1>4
  <2>2. 0 \in 0..3
    OBVIOUS
  <2> QED
    BY <1>4, <2>1, <2>2
<1> QED
    BY <1>1, <1>2, <1>3, <1>4

\* What was read of a plain policy's wire is the policy with its first lists.
LEMMA WholeLists ==
    ASSUME NEW p \in PolicyRequest, PlainPolicy(p),
           NEW c, c = Candidate(Received(PolicyWire(p))), Hashed(c)
    PROVE  KeptWhole(c, p)
<1>0. PICK w, h, s, e : WireOf(p, w, h, s, e)
    BY WireLayout
<1>1. /\ w = PolicyWire(p) /\ h = WireHead(p)
      /\ s = ThroughSuffixes(p) /\ e = ThroughExacts(p)
    BY <1>0, Zenon DEF WireOf
<1>2. /\ w \in Seq(Token) /\ h \in Seq(Token) /\ s \in Seq(Token) /\ e \in Seq(Token)
      /\ Begins(w, h) /\ Begins(w, s) /\ Begins(w, e) /\ Begins(w, w)
    BY <1>0, Zenon DEF WireOf
<1>3. /\ s = h \o ListField("suffix_blocks", p.suffix_blocks)
      /\ e = s \o ListField("exact_blocks", p.exact_blocks)
      /\ w = e \o ListField("allowlist", p.allowlist)
    BY <1>1, Zenon DEF ThroughSuffixes, ThroughExacts, PolicyWire, WireHead
<1>4. /\ p.suffix_blocks \in Seq(STRING) /\ p.exact_blocks \in Seq(STRING)
      /\ p.allowlist \in Seq(STRING)
    BY DEF PolicyRequest
<1>5. PICK a, b, d : a = "suffix_blocks" /\ b = "exact_blocks" /\ d = "allowlist"
    OBVIOUS
<1>6. /\ a \in ListKeys /\ b \in ListKeys /\ d \in ListKeys
      /\ a \in Keys /\ b \in Keys /\ d \in Keys
      /\ a # b /\ b # d /\ a # d
    BY <1>5 DEF ListKeys, Keys
<1>7. PICK f4, f5, f6 : /\ f4 = ListField(a, p.suffix_blocks)
                        /\ f5 = ListField(b, p.exact_blocks)
                        /\ f6 = ListField(d, p.allowlist)
    OBVIOUS
<1>8. f4 \in Seq(Token) /\ f5 \in Seq(Token) /\ f6 \in Seq(Token)
    BY <1>4, <1>6, <1>7, ListFieldIsWire, Zenon
<1>9. s = h \o f4 /\ e = s \o f5 /\ w = e \o f6
    BY <1>3, <1>5, <1>7, Zenon
<1>10. KeyFree(h, a) /\ KeyFree(h, b) /\ KeyFree(h, d)
  <2>1. p.version_hash \notin ListKeys
    BY DEF PlainPolicy
  <2> QED
    BY <1>1, <1>6, <2>1, HeadFree, Zenon
<1>11. /\ KeyFree(f4, b) /\ KeyFree(f4, d) /\ KeyFree(f5, d)
       /\ p.suffix_blocks = <<>> => KeyFree(f5, a) /\ KeyFree(f6, a)
       /\ p.exact_blocks = <<>> => KeyFree(f6, b)
  <2>1. /\ Without(p.suffix_blocks, b) /\ Without(p.suffix_blocks, d)
        /\ Without(p.exact_blocks, d)
        /\ p.suffix_blocks = <<>> => Without(p.exact_blocks, a) /\ Without(p.allowlist, a)
        /\ p.exact_blocks = <<>> => Without(p.allowlist, b)
    BY <1>5, Zenon DEF PlainPolicy
  <2>2. ASSUME NEW k \in Keys, NEW key, k # key, NEW list \in Seq(STRING), Without(list, key)
        PROVE  KeyFree(ListField(k, list), key)
    BY <2>2, ListFree, Zenon DEF Without
  <2> QED
    BY <1>4, <1>6, <1>7, <2>1, <2>2, Zenon
<1>12. KeyFree(s, b) /\ KeyFree(s, d) /\ KeyFree(e, d)
    BY <1>2, <1>8, <1>9, <1>10, <1>11, FreeConcat, Zenon
<1>13. /\ p.suffix_blocks = <<>> => KeyFree(w, a)
       /\ p.exact_blocks = <<>> => KeyFree(w, b)
       /\ p.allowlist = <<>> => KeyFree(w, d)
  <2>1. ASSUME NEW f, f = <<>>, NEW key  PROVE KeyFree(f, key)
    <3>1. DOMAIN f = {}
      BY <2>1
    <3> QED
      BY <3>1 DEF KeyFree
  <2>2. /\ p.suffix_blocks = <<>> => KeyFree(f4, a)
        /\ p.exact_blocks = <<>> => KeyFree(f5, b)
        /\ p.allowlist = <<>> => KeyFree(f6, d)
    BY <1>7, <2>1, Zenon DEF ListField
  <2>3. ASSUME p.suffix_blocks = <<>>  PROVE KeyFree(w, a)
    <3>1. KeyFree(s, a)
      BY <1>2, <1>8, <1>9, <1>10, <2>2, <2>3, FreeConcat, Zenon
    <3>2. KeyFree(e, a)
      BY <1>2, <1>8, <1>9, <1>11, <2>3, <3>1, FreeConcat, Zenon
    <3> QED
      BY <1>2, <1>8, <1>9, <1>11, <2>3, <3>2, FreeConcat, Zenon
  <2>4. ASSUME p.exact_blocks = <<>>  PROVE KeyFree(w, b)
    <3>1. KeyFree(e, b)
      BY <1>2, <1>8, <1>9, <1>12, <2>2, <2>4, FreeConcat, Zenon
    <3> QED
      BY <1>2, <1>8, <1>9, <1>11, <2>4, <3>1, FreeConcat, Zenon
  <2>5. ASSUME p.allowlist = <<>>  PROVE KeyFree(w, d)
    BY <1>2, <1>8, <1>9, <1>12, <2>2, <2>5, FreeConcat, Zenon
  <2> QED
    BY <2>3, <2>4, <2>5
<1>14. PICK r : r = Received(w)
    OBVIOUS
<1>15. PICK ls \in Nat, le \in Nat, lw \in Nat, m \in Nat :
           ls = Len(s) /\ le = Len(e) /\ lw = Len(w) /\ m = Len(r)
    BY <1>2, <1>14, LenProperties, ReceivedFacts
<1>16. Len(h) = 6 /\ HeadStands(h, 6, p)
    BY <1>1, HeadTokens, Zenon
<1>17. 6 <= ls /\ ls <= le /\ le <= lw
  <2>1. Len(h) <= Len(s) /\ Len(s) <= Len(e) /\ Len(e) <= Len(w)
    BY <1>0, Zenon DEF WireOf
  <2> QED
    BY <1>15, <1>16, <2>1
<1>18. /\ m = IF lw < MaxRead THEN lw ELSE MaxRead
       /\ DOMAIN r = 1..m
       /\ \A i \in 1..m : r[i] = w[i]
    BY <1>2, <1>14, <1>15, ReceivedFacts, Zenon
<1>19. m >= 4 /\ m <= lw
    BY <1>17, <1>18, MaxReadAssumption
<1>20. /\ ls <= m => ExtractStrings(r, a) = Rules(p.suffix_blocks)
       /\ ~(ls <= m) => ExtractStrings(r, a) = {}
  <2>1. s = h \o ListField(a, p.suffix_blocks)
    BY <1>7, <1>9, Zenon
  <2> QED
    BY <1>2, <1>4, <1>6, <1>10, <1>13, <1>14, <1>15, <2>1, ListCutCases, Zenon
<1>21. /\ le <= m => ExtractStrings(r, b) = Rules(p.exact_blocks)
       /\ ~(le <= m) => ExtractStrings(r, b) = {}
  <2>1. e = s \o ListField(b, p.exact_blocks)
    BY <1>7, <1>9, Zenon
  <2> QED
    BY <1>2, <1>4, <1>6, <1>12, <1>13, <1>14, <1>15, <2>1, ListCutCases, Zenon
<1>22. /\ lw <= m => ExtractStrings(r, d) = Rules(p.allowlist)
       /\ ~(lw <= m) => ExtractStrings(r, d) = {}
  <2>1. w = e \o ListField(d, p.allowlist)
    BY <1>7, <1>9, Zenon
  <2>2. KeyFree(e, d) /\ (p.allowlist = <<>> => KeyFree(w, d)) /\ Begins(w, w)
    BY <1>2, <1>12, <1>13, Zenon
  <2>3. /\ Len(w) <= Len(Received(w)) => ExtractStrings(Received(w), d) = Rules(p.allowlist)
        /\ ~(Len(w) <= Len(Received(w))) => ExtractStrings(Received(w), d) = {}
    BY <1>2, <1>4, <1>6, <2>1, <2>2, ListCutCases, Zenon
  <2> QED
    BY <1>14, <1>15, <2>3, Zenon
<1>23. HeadStands(r, m, p)
  <2>1. \A i \in 1..6 : w[i] = h[i]
    BY <1>2, <1>16, Zenon DEF Begins
  <2>2. ASSUME NEW i \in 1..6, i <= m  PROVE r[i] = h[i]
    <3>1. i \in 1..m
      BY <2>2
    <3> QED
      BY <1>18, <2>1, <3>1, Zenon
  <2>3. /\ 1 <= m => r[1] = h[1]
        /\ 2 <= m => r[2] = h[2]
        /\ 3 <= m => r[3] = h[3]
        /\ 4 <= m => r[4] = h[4]
        /\ 5 <= m => r[5] = h[5]
        /\ 6 <= m => r[6] = h[6]
    BY <2>2
  <2>4. /\ IsString(h[1], "command") /\ IsString(h[2], "APPLY_POLICY")
        /\ IsString(h[3], "generation") /\ IsNumber(h[4], p.generation)
        /\ IsString(h[5], "version_hash") /\ IsString(h[6], p.version_hash)
    BY <1>16 DEF HeadStands
  <2> QED
    BY <2>3, <2>4, Zenon DEF HeadStands
<1>24. /\ c.generation = ExtractUint64(r, "generation")
       /\ c.version_hash = ExtractString(r, "version_hash")
       /\ c.suffix_blocks = ExtractStrings(r, a)
       /\ c.exact_blocks = ExtractStrings(r, b)
       /\ c.allowlist = ExtractStrings(r, d)
    BY <1>1, <1>5, <1>14 DEF Candidate
<1>25. c.generation = p.generation /\ c.version_hash = p.version_hash
  <2>1. /\ ExtractUint64(r, "generation") = p.generation
        /\ m >= 6 => ExtractString(r, "version_hash") = p.version_hash
        /\ m < 6 => ExtractString(r, "version_hash") = ""
    BY <1>18, <1>19, <1>23, HeadExtracted, Zenon
  <2>2. m >= 6 \/ m < 6
    OBVIOUS
  <2> QED
    BY <1>24, <2>1, <2>2, Zenon DEF Hashed
<1>26. PICK last \in 0..3 : /\ 1 <= last <=> ls <= m
                            /\ 2 <= last <=> le <= m
                            /\ 3 <= last <=> lw <= m
    BY <1>17, FirstOnes, SMT
<1>27. /\ 1 <= last => c.suffix_blocks = Rules(p.suffix_blocks)
       /\ ~(1 <= last) => c.suffix_blocks = {}
       /\ 2 <= last => c.exact_blocks = Rules(p.exact_blocks)
       /\ ~(2 <= last) => c.exact_blocks = {}
       /\ 3 <= last => c.allowlist = Rules(p.allowlist)
       /\ ~(3 <= last) => c.allowlist = {}
    BY <1>20, <1>21, <1>22, <1>24, <1>26, Zenon
<1> DEFINE lists == <<p.suffix_blocks, p.exact_blocks, p.allowlist>>
           kept == <<c.suffix_blocks, c.exact_blocks, c.allowlist>>
<1>28. /\ lists[1] = p.suffix_blocks /\ lists[2] = p.exact_blocks /\ lists[3] = p.allowlist
       /\ kept[1] = c.suffix_blocks /\ kept[2] = c.exact_blocks /\ kept[3] = c.allowlist
    OBVIOUS
<1> HIDE DEF lists, kept
<1>29. ASSUME NEW i \in 1..3
       PROVE  IF i <= last THEN kept[i] = {lists[i][j] : j \in DOMAIN lists[i]}
              ELSE kept[i] = {}
  <2>1. IF i <= last THEN kept[i] = Rules(lists[i]) ELSE kept[i] = {}
    <3>1. CASE i = 1
      BY <1>27, <1>28, <3>1
    <3>2. CASE i = 2
      BY <1>27, <1>28, <3>2
    <3>3. CASE i = 3
      BY <1>27, <1>28, <3>3
    <3> QED
      BY <3>1, <3>2, <3>3
  <2> QED
    BY <2>1, Zenon DEF Rules
<1> QED
    BY <1>25, <1>29, Zenon DEF KeptWhole, lists, kept

\* What a client of the socket can have written.
OtherTexts == {<<>>, <<Str("hello")>>, StatusWire}
Texts == OtherTexts \cup {PolicyWire(p) : p \in Policies \ {Malformed}}

\* Decoded policies, written texts, what was read of them, and what is in
\* force all come from the policies that were posted.
WireInv ==
    /\ \A c \in Posts : body[c] = Malformed \/ body[c] \in Policies
    /\ \A c \in Clients : sent[c] \in Texts
    /\ \E text \in Texts : request = Received(text)
    /\ active_snapshot = Bootstrap
          \/ \E p \in Policies \ {Malformed} : KeptWhole(active_snapshot, p)

\* Every policy is one the control plane can decode.
LEMMA PoliciesAreDecoded ==
    ASSUME NEW p \in Policies \ {Malformed}
    PROVE  p \in PolicyRequest
BY ControlPlaneAssumption DEF Policies

\* A text without the key command holds no command.
LEMMA NoCommand ==
    ASSUME NEW text \in Seq(Token), KeyFree(text, "command")
    PROVE  ExtractString(Received(text), "command") # "APPLY_POLICY"
<1> DEFINE r == Received(text)
           m == Len(r)
<1>1. /\ m \in Nat /\ DOMAIN r = 1..m /\ m <= Len(text) /\ Len(text) \in Nat
      /\ \A i \in 1..m : r[i] = text[i]
    BY ReceivedFacts
<1>2. DOMAIN text = 1..Len(text)
    BY LenProperties
<1> HIDE DEF r, m
<1>3. \A key : KeyFree(text, key)
                  => {i \in DOMAIN r : r[i].kind = "string" /\ r[i].value = key} = {}
    BY <1>1, <1>2 DEF KeyFree
<1>4. KeyAt(r, "command") = {}
    BY <1>3, FirstIs, Zenon DEF KeyAt
<1>5. UNION {Behind(r, k, "string") : k \in KeyAt(r, "command")} = {}
    BY <1>4
<1>6. ExtractString(r, "command") = ""
    BY <1>5, Zenon DEF ExtractString, Extract
<1>7. "" # "APPLY_POLICY"
    OBVIOUS
<1> QED
    BY <1>6, <1>7, Zenon DEF r

\* Only a policy's text is taken for a policy.
LEMMA OthersApplyNothing ==
    ASSUME NEW text \in OtherTexts
    PROVE  ExtractString(Received(text), "command") # "APPLY_POLICY"
<1>1. CASE text = <<>>
  <2>1. text \in Seq(Token) /\ DOMAIN text = {}
    BY <1>1
  <2> QED
    BY <2>1, NoCommand DEF KeyFree
<1>2. CASE text = <<Str("hello")>>
  <2>1. text \in Seq(Token)
    BY <1>2, TokenFacts, ShortSeqs DEF Text
  <2>2. KeyFree(text, "command")
    BY <1>2 DEF KeyFree, Str
  <2> QED
    BY <2>1, <2>2, NoCommand
<1>3. CASE text = StatusWire
  <2>1. "GET_STATUS" # "APPLY_POLICY"
    OBVIOUS
  <2> QED
    BY <1>3, <2>1, StatusIsRecognized, Zenon
<1> QED
    BY <1>1, <1>2, <1>3 DEF OtherTexts

\* Which steps change what is read and installed.
LEMMA StoreSteps ==
    ASSUME [Next]_mvars
    PROVE  /\ \/ UNCHANGED active_snapshot
              \/ ApplyPolicy
              \/ active_snapshot' = Bootstrap
           /\ \/ UNCHANGED request
              \/ request' = <<>>
              \/ Read
<1> DEFINE Goal == /\ \/ UNCHANGED active_snapshot
                      \/ ApplyPolicy
                      \/ active_snapshot' = Bootstrap
                   /\ \/ UNCHANGED request
                      \/ request' = <<>>
                      \/ Read
<1> USE DEF store_vars, worker_vars
<1>1. CASE Worker \/ KilledBySigpipe
    BY <1>1 DEF Worker, CheckRunning, Accept, AcceptFails, Read, ReadNothing, GetStatus,
       ApplyPolicy, RejectPolicy, UnknownCommand, WriteReply, KilledBySigpipe, Respond,
       NextConnection
<1>2. CASE Stop \/ StopBegins
    BY <1>2 DEF Stop, StopBegins, StopListening, StopJoins
<1>3. CASE DataplaneRestarts
    BY <1>3 DEF DataplaneRestarts, Restart
<1>4. ASSUME NEW c \in Calls, LocalStep(c)  PROVE Goal
    BY <1>4, LocalStepIsLocal DEF server_vars
<1>5. ASSUME NEW c \in Calls, Dial(c) \/ Send(c)  PROVE Goal
    BY <1>5 DEF Dial, Connect, Send, Write
<1>6. ASSUME NEW o \in Others, Other(o)  PROVE Goal
    BY <1>6 DEF Other, OtherLeaves, OtherConnects, Leave
<1>7. CASE Outage
    BY <1>7 DEF Outage, ControlPlaneRestarts, Leave
<1>8. CASE UNCHANGED mvars
    BY <1>8 DEF mvars, vars, server_vars
<1> QED
    BY <1>1, <1>2, <1>3, <1>4, <1>5, <1>6, <1>7, <1>8, StepKinds

\* Which steps change decoded policies and written texts.
LEMMA TextSteps ==
    ASSUME [Next]_mvars
    PROVE  /\ \/ UNCHANGED body
              \/ \E c \in Posts : \E b \in Bodies[c] : body' = [body EXCEPT ![c] = b]
           /\ \/ UNCHANGED sent
              \/ \E c \in Calls : call_pc[c] = "send" /\ sent' = [sent EXCEPT ![c] = Wire(c)]
              \/ \E o \in Others, text \in OtherTexts : sent' = [sent EXCEPT ![o] = text]
<1> DEFINE Goal ==
           /\ \/ UNCHANGED body
              \/ \E c \in Posts : \E b \in Bodies[c] : body' = [body EXCEPT ![c] = b]
           /\ \/ UNCHANGED sent
              \/ \E c \in Calls : call_pc[c] = "send" /\ sent' = [sent EXCEPT ![c] = Wire(c)]
              \/ \E o \in Others, text \in OtherTexts : sent' = [sent EXCEPT ![o] = text]
<1>1. ASSUME Worker \/ KilledBySigpipe  PROVE UNCHANGED sent
    BY <1>1 DEF Worker, CheckRunning, Accept, AcceptFails, Read, ReadNothing, GetStatus,
       ApplyPolicy, RejectPolicy, UnknownCommand, WriteReply, KilledBySigpipe, Respond,
       socket_vars
<1>2. ASSUME Stop \/ StopBegins  PROVE UNCHANGED sent
    BY <1>2 DEF Stop, StopBegins, StopListening, StopJoins, socket_vars
<1>3. CASE DataplaneRestarts
    BY <1>3 DEF DataplaneRestarts, Restart, socket_vars
<1>4. ASSUME NEW c \in Calls, LocalStep(c)  PROVE Goal
  <2>1. UNCHANGED sent
    BY <1>4, LocalStepIsLocal DEF server_vars, socket_vars
  <2>2. \/ UNCHANGED body
        \/ \E d \in Posts : \E b \in Bodies[d] : body' = [body EXCEPT ![d] = b]
    <3>1. CASE Count(c) \/ Returns(c) \/ Answer(c)
      BY <3>1, CountSteps, ReturnSteps, AnswerSteps DEF CountFailure, Return, Tell
    <3> QED
      BY <1>4, <3>1 DEF LocalStep, ReceivePost, ReceiveQuery, LoadFirst, LoadSecond, SendRest
  <2> QED
    BY <2>1, <2>2
<1>5. ASSUME NEW c \in Calls, Dial(c) \/ Send(c)  PROVE Goal
    BY <1>5 DEF Dial, Connect, Send, Write
<1>6. ASSUME NEW o \in Others, Other(o)  PROVE Goal
    BY <1>6 DEF Other, OtherLeaves, OtherConnects, Leave, OtherTexts, call_vars
<1>7. CASE Outage
    BY <1>7 DEF Outage, ControlPlaneRestarts, Leave
<1>8. CASE UNCHANGED mvars
    BY <1>8 DEF mvars, vars, server_vars, socket_vars, call_vars
<1>9. CASE (Worker \/ KilledBySigpipe \/ Stop \/ StopBegins) /\ UNCHANGED call_vars
    BY <1>1, <1>2, <1>9 DEF call_vars
<1> QED
    BY <1>3, <1>4, <1>5, <1>6, <1>7, <1>8, <1>9, StepKinds

\* What is installed of a text is a policy with its first lists.
LEMMA InstalledIsWhole ==
    ASSUME PlainPolicies, NEW text \in Texts, request = Received(text), ApplyPolicy
    PROVE  \E p \in Policies \ {Malformed} : KeptWhole(active_snapshot', p)
<1>1. /\ ExtractString(request, "command") = "APPLY_POLICY"
      /\ Hashed(Candidate(request)) /\ active_snapshot' = Candidate(request)
    BY DEF ApplyPolicy, Command, Acceptable, Hashed
<1>2. text \notin OtherTexts
    BY <1>1, OthersApplyNothing, Zenon
<1>3. PICK p \in Policies \ {Malformed} : text = PolicyWire(p)
    BY <1>2 DEF Texts
<1>4. p \in PolicyRequest /\ PlainPolicy(p)
    BY PoliciesAreDecoded, Zenon DEF PlainPolicies
<1>5. active_snapshot' = Candidate(Received(PolicyWire(p))) /\ Hashed(active_snapshot')
    BY <1>1, <1>3, Zenon
<1>6. KeptWhole(active_snapshot', p)
    BY <1>4, <1>5, WholeLists, Zenon
<1> QED
    BY <1>6, Zenon

\* Nothing was read is a text cut off as well.
LEMMA NothingIsText == <<>> \in Texts /\ Received(<<>>) = <<>>
<1>1. <<>> \in Texts
    BY DEF Texts, OtherTexts
<1>2. PICK e : e = <<>>
    OBVIOUS
<1>3. e \in Seq(Token) /\ Len(e) = 0
    BY <1>2
<1>4. Received(e) \in Seq(Token) /\ Len(Received(e)) = 0
  <2>1. /\ Received(e) \in Seq(Token)
        /\ Len(Received(e)) \in Nat /\ Len(Received(e)) <= Len(e)
    BY <1>3, ReceivedFacts, Zenon
  <2> QED
    BY <1>3, <2>1
<1>5. Received(e) = <<>>
    BY <1>4, EmptySeq
<1> QED
    BY <1>1, <1>2, <1>5, Zenon

\* Every step keeps the invariant.
LEMMA WireInvKept ==
    ASSUME PlainPolicies, Types, WireInv, [Next]_mvars
    PROVE  WireInv'
<1>1. \A c \in Posts : body'[c] = Malformed \/ body'[c] \in Policies
  <2>1. CASE UNCHANGED body
    BY <2>1 DEF WireInv
  <2>2. ASSUME NEW c \in Posts, NEW b \in Bodies[c], body' = [body EXCEPT ![c] = b]
        PROVE  \A d \in Posts : body'[d] = Malformed \/ body'[d] \in Policies
    <3>1. b \in Policies
      BY DEF Policies
    <3>2. DOMAIN body = Posts
      BY DEF Types, CallTypes
    <3> QED
      BY <2>2, <3>1, <3>2 DEF WireInv
  <2> QED
    BY <2>1, <2>2, TextSteps
<1>2. \A c \in Clients : sent'[c] \in Texts
  <2>1. CASE UNCHANGED sent
    BY <2>1 DEF WireInv
  <2>2. ASSUME NEW c \in Clients, NEW text \in Texts, sent' = [sent EXCEPT ![c] = text]
        PROVE  \A d \in Clients : sent'[d] \in Texts
    <3>1. DOMAIN sent = Clients
      BY DEF Types, ServerTypes
    <3> QED
      BY <2>2, <3>1 DEF WireInv
  <2>3. ASSUME NEW c \in Calls, call_pc[c] = "send"  PROVE Wire(c) \in Texts
    <3>1. CASE c \in Posts
      <4>1. body[c] \in Policies \ {Malformed}
        BY <2>3, <3>1 DEF WireInv, Types, CallTypes, SentIsValid, Valid
      <4> QED
        BY <3>1, <4>1, Zenon DEF Wire, Texts
    <3>2. CASE c \notin Posts
      BY <3>2 DEF Wire, Texts, OtherTexts
    <3> QED
      BY <3>1, <3>2
  <2>4. Calls \subseteq Clients /\ Others \subseteq Clients /\ OtherTexts \subseteq Texts
    BY ControlPlaneAssumption, ManagementAssumption DEF Texts
  <2> QED
    BY <2>1, <2>2, <2>3, <2>4, TextSteps
<1>3. \E text \in Texts : request' = Received(text)
  <2>1. CASE UNCHANGED request
    BY <2>1, Zenon DEF WireInv
  <2>2. CASE request' = <<>>
    BY <2>2, NothingIsText, Zenon
  <2>3. CASE Read
    <3>1. client \in Clients /\ request' = Received(sent[client])
      BY <2>3 DEF Read, Types, ServerTypes, Busy
    <3>2. sent[client] \in Texts
      BY <3>1 DEF WireInv
    <3> QED
      BY <3>1, <3>2, Zenon
  <2> QED
    BY <2>1, <2>2, <2>3, StoreSteps, Zenon
<1>4. active_snapshot' = Bootstrap
          \/ \E p \in Policies \ {Malformed} : KeptWhole(active_snapshot', p)
  <2>1. CASE UNCHANGED active_snapshot
    BY <2>1 DEF WireInv
  <2>2. CASE ApplyPolicy
    BY <2>2, InstalledIsWhole, Zenon DEF WireInv
  <2> QED
    BY <2>1, <2>2, StoreSteps, Zenon
<1> QED
    BY <1>1, <1>2, <1>3, <1>4, Zenon DEF WireInv, KeptWhole

\* A list of a request that was cut off by the one read() is dropped as a
\* whole, and so are all lists behind it (ipc_server.cpp:71-72), as long as
\* neither a hash nor a rule is the first string to be spelled like a list's key.
THEOREM CutDropsLists ==
    ASSUME PlainPolicies
    PROVE  Spec => []CutDropsWholeLists
<1>1. Init => WireInv
    BY NothingIsText DEF Init, IpcInit, ControlPlaneInit, WireInv
<1>2. Types /\ WireInv /\ [Next]_mvars => WireInv'
    BY WireInvKept
<1>3. WireInv => CutDropsWholeLists
    BY Zenon DEF WireInv, CutDropsWholeLists, KeptWhole
<1> QED
    BY <1>1, <1>2, <1>3, TypesHold, PTL DEF Spec

=============================================================================
