-------------------------- MODULE ManagementTypes ---------------------------
(***************************************************************************)
(* Types of Management for any calls, policies, clients, buffer sizes,     *)
(* stops and restarts.                                                     *)
(*                                                                         *)
(* The generation the server takes from a request is a number only because *)
(* a request is made of tokens wherever it is cut, so the requests, from   *)
(* the decoded policy to what one read() returns, are typed as well.       *)
(***************************************************************************)
EXTENDS Management, SequenceTheorems, TLAPS

\* The strings of a request.  The literals are named because the provers do
\* not know them to be strings.
Keys == {"command", "generation", "version_hash", "suffix_blocks",
         "exact_blocks", "allowlist"}
Text == STRING \cup Keys \cup {"", "GET_STATUS", "APPLY_POLICY", "hello"}

Token ==
    [kind : {"string", "open", "close"}, value : Text]
        \cup [kind : {"number"}, value : Nat]

\* What the constructors of tokens build is a token.
LEMMA TokenFacts ==
    /\ \A s \in Text : Str(s) \in Token
    /\ \A n \in Nat : Num(n) \in Token
    /\ Open \in Token /\ Close \in Token
<1>1. ASSUME NEW s \in Text  PROVE Str(s) \in Token
    BY DEF Token, Str
<1>2. ASSUME NEW n \in Nat  PROVE Num(n) \in Token
    BY DEF Token, Num
<1>3. Open \in Token
    <2>1. "open" \in {"string", "open", "close"} /\ "" \in Text
        BY DEF Text
    <2>2. Open \in [kind : {"string", "open", "close"}, value : Text]
        BY <2>1, Zenon DEF Open
    <2> QED
        BY <2>2, Zenon DEF Token
<1>4. Close \in Token
    <2>1. "close" \in {"string", "open", "close"} /\ "" \in Text
        BY DEF Text
    <2>2. Close \in [kind : {"string", "open", "close"}, value : Text]
        BY <2>1, Zenon DEF Close
    <2> QED
        BY <2>2, Zenon DEF Token
<1> QED
    BY <1>1, <1>2, <1>3, <1>4

\* Sequences written out.
LEMMA ShortSeqs ==
    ASSUME NEW S, NEW a \in S, NEW b \in S
    PROVE  <<>> \in Seq(S) /\ <<a>> \in Seq(S) /\ <<a, b>> \in Seq(S) /\ Len(<<a, b>>) = 2
OBVIOUS

\* A list field is a wire, left out or not.
LEMMA ListFieldIsWire ==
    ASSUME NEW key \in Keys, NEW list \in Seq(STRING)
    PROVE  ListField(key, list) \in Seq(Token)
<1>1. Strings(list) \in Seq(Token)
    <2>1. DOMAIN list = 1..Len(list) /\ Len(list) \in Nat
        BY LenProperties
    <2>2. \A i \in 1..Len(list) : Str(list[i]) \in Token
        BY <2>1, TokenFacts, ElementOfSeq, Zenon DEF Text
    <2>3. Strings(list) = [i \in 1..Len(list) |-> Str(list[i])]
        BY <2>1 DEF Strings
    <2> QED
        BY <2>1, <2>2, <2>3
<1>2. Str(key) \in Token /\ Open \in Token /\ Close \in Token
    BY TokenFacts, Zenon DEF Text
<1>2a. <<Str(key), Open>> \in Seq(Token) /\ <<Close>> \in Seq(Token)
    BY <1>2, ShortSeqs, Zenon
<1>3. <<Str(key), Open>> \o Strings(list) \in Seq(Token)
    BY <1>1, <1>2, ConcatProperties
<1>4. <<Str(key), Open>> \o Strings(list) \o <<Close>> \in Seq(Token)
    BY <1>2a, <1>3, ConcatProperties, Zenon
<1> QED
    BY <1>4, <1>2a, EmptySeq, Zenon DEF ListField

\* A field with one value is a wire of two tokens.
LEMMA FieldIsWire ==
    ASSUME NEW key \in Keys, NEW value \in Token
    PROVE  Field(key, value) \in Seq(Token) /\ Len(Field(key, value)) = 2
BY TokenFacts, ShortSeqs, Zenon DEF Field, Text

\* Every policy the control plane can decode makes a wire.
LEMMA PolicyWireIsWire ==
    ASSUME NEW p \in PolicyRequest
    PROVE  PolicyWire(p) \in Seq(Token)
<1> DEFINE f1 == Field("command", Str("APPLY_POLICY"))
           f2 == Field("generation", Num(p.generation))
           f3 == Field("version_hash", Str(p.version_hash))
           f4 == ListField("suffix_blocks", p.suffix_blocks)
           f5 == ListField("exact_blocks", p.exact_blocks)
           f6 == ListField("allowlist", p.allowlist)
<1>0. /\ p.generation \in Nat /\ p.version_hash \in STRING
      /\ p.suffix_blocks \in Seq(STRING) /\ p.exact_blocks \in Seq(STRING)
      /\ p.allowlist \in Seq(STRING)
    BY Zenon DEF PolicyRequest
<1>s. /\ "command" \in Keys /\ "APPLY_POLICY" \in Text
      /\ "generation" \in Keys /\ "version_hash" \in Keys
      /\ "suffix_blocks" \in Keys /\ "exact_blocks" \in Keys
      /\ "allowlist" \in Keys /\ p.version_hash \in Text
    BY <1>0 DEF Keys, Text
<1>1. f1 \in Seq(Token) /\ f2 \in Seq(Token) /\ f3 \in Seq(Token)
    BY <1>0, <1>s, FieldIsWire, TokenFacts, Zenon
<1>2. f4 \in Seq(Token) /\ f5 \in Seq(Token) /\ f6 \in Seq(Token)
    BY <1>0, <1>s, ListFieldIsWire, Zenon
<1>3. PolicyWire(p) = f1 \o f2 \o f3 \o f4 \o f5 \o f6
    BY DEF PolicyWire
<1> HIDE DEF f1, f2, f3, f4, f5, f6
<1>4. f1 \o f2 \in Seq(Token)
    BY <1>1, ConcatProperties
<1>5. f1 \o f2 \o f3 \in Seq(Token)
    BY <1>1, <1>4, ConcatProperties
<1>6. f1 \o f2 \o f3 \o f4 \in Seq(Token)
    BY <1>2, <1>5, ConcatProperties
<1>7. f1 \o f2 \o f3 \o f4 \o f5 \in Seq(Token)
    BY <1>2, <1>6, ConcatProperties
<1>8. f1 \o f2 \o f3 \o f4 \o f5 \o f6 \in Seq(Token)
    BY <1>2, <1>7, ConcatProperties
<1> QED
    BY <1>3, <1>8

\* The part of a wire that one read() returns is a wire.
LEMMA ReceivedIsWire ==
    ASSUME NEW wire \in Seq(Token)
    PROVE  Received(wire) \in Seq(Token)
<1> DEFINE n == IF Len(wire) < MaxRead THEN Len(wire) ELSE MaxRead
<1>1. n \in Int /\ \A i \in 1..n : wire[i] \in Token
    BY MaxReadAssumption, LenProperties, ElementOfSeq
<1> HIDE DEF n
<1>2. SubSeq(wire, 1, n) \in Seq(Token)
    BY <1>1, SubSeqProperties
<1> QED
    BY <1>2 DEF Received, n

\* extract_json_uint64 returns a number, whatever was received.
LEMMA ExtractedNumber ==
    ASSUME NEW json \in Seq(Token), NEW key
    PROVE  ExtractUint64(json, key) \in Nat
<1> DEFINE found == UNION {Behind(json, k, "number") : k \in KeyAt(json, key)}
<1>1. ASSUME NEW i \in found  PROVE json[i].value \in Nat
    <2>1. i \in DOMAIN json /\ json[i].kind = "number"
        BY <1>1 DEF Behind, First
    <2>2. json[i] \in Token
        BY <2>1
    <2> QED
        BY <2>1, <2>2 DEF Token
<1>2. CASE found = {}
    BY <1>2 DEF ExtractUint64, Extract
<1>3. CASE found # {}
    <2>1. (CHOOSE i \in found : TRUE) \in found
        BY <1>3
    <2> HIDE DEF found
    <2>2. json[CHOOSE i \in found : TRUE].value \in Nat
        BY <2>1, <1>1
    <2> QED
        BY <1>3, <2>2 DEF ExtractUint64, Extract, found
<1> QED
    BY <1>2, <1>3

\* A status request is recognized as one.
LEMMA StatusIsRecognized ==
    /\ StatusWire \in Seq(Token)
    /\ ExtractString(Received(StatusWire), "command") = "GET_STATUS"
<1>0. "command" \in Keys /\ "GET_STATUS" \in Text
    BY DEF Keys, Text
<1>1. StatusWire \in Seq(Token) /\ Len(StatusWire) = 2
    BY <1>0, TokenFacts, FieldIsWire, Zenon DEF StatusWire
<1>2. Received(StatusWire) = StatusWire
    BY <1>1, MaxReadAssumption, SubSeqFull DEF Received
<1>3. /\ DOMAIN StatusWire = {1, 2}
      /\ StatusWire[1].kind = "string" /\ StatusWire[1].value = "command"
      /\ StatusWire[2].kind = "string" /\ StatusWire[2].value = "GET_STATUS"
    BY DEF StatusWire, Field, Str
<1>4. KeyAt(StatusWire, "command") = {1}
    BY <1>3 DEF KeyAt, First
<1>5. Behind(StatusWire, 1, "string") = {2}
    BY <1>3 DEF Behind, First
<1>6. UNION {Behind(StatusWire, k, "string") : k \in KeyAt(StatusWire, "command")} = {2}
    BY <1>4, <1>5
<1> QED
    BY <1>1, <1>2, <1>3, <1>6 DEF ExtractString, Extract

-----------------------------------------------------------------------------
(* Types.                                                                  *)

Busy == worker_pc \in {"read", "handle", "write"}

ServerTypes ==
    /\ running_ \in BOOLEAN /\ listening \in BOOLEAN
    /\ stop_pc \in {"serving", "closing", "joining", "exited"}
    /\ worker_pc \in {"loop", "accept", "read", "handle", "write", "exited"}
    /\ client \in Clients \cup {NoClient}
    /\ Busy => client \in Clients
    /\ global_generation \in Nat
    /\ backlog \in Seq(Clients)
    /\ conn \in [Clients -> {"none", "queued", "accepted", "closed"}]
    /\ left \in [Clients -> BOOLEAN]
    /\ sent \in [Clients -> Seq(Token)]
    /\ reply \in [Clients -> Replies]
    /\ request \in Seq(Token)
    /\ response \in Replies
    /\ applied \subseteq Clients

BacklogFits == Len(backlog) <= Backlog + 1

\* A post that was sent is a valid policy; only posts count failures.
SentIsValid ==
    /\ \A c \in Posts :
        /\ body[c] = Malformed \/ body[c] \in PolicyRequest
        /\ call_pc[c] \notin {"scraping", "dial"}
        /\ call_pc[c] = "send" => Valid(body[c])
    /\ \A c \in Gets : call_pc[c] \notin {"received", "refused", "unreachable", "rejected"}

CallTypes ==
    /\ reloadsTotal \in Nat /\ reloadFailuresTotal \in Nat
    /\ call_pc \in [Calls -> CallPlaces]
    /\ counted \subseteq Posts
    /\ DOMAIN body = Posts
    /\ page \in [Gets -> [reloads : Nat, failures : Nat]]
    /\ answer \in [Calls -> Answers]
    /\ acknowledged \in Nat /\ expected \in [Calls -> Nat] /\ stale \subseteq Calls
    /\ SentIsValid

\* The replies the server composes.
LEMMA RepliesFacts ==
    /\ NoReply \in Replies
    /\ \A n \in Nat : /\ [status |-> "OK", generation |-> n] \in Replies
                      /\ [status |-> "STATUS", generation |-> n] \in Replies
                      /\ [status |-> "REJECTED", generation |-> n] \in Replies
                      /\ [status |-> "ERROR", generation |-> n] \in Replies
BY DEF Replies, NoReply

\* Closing connections keeps their type.
LEMMA ClosedTypes ==
    ASSUME ServerTypes, NEW ended, Closed(ended)
    PROVE  conn' \in [Clients -> {"none", "queued", "accepted", "closed"}]
BY DEF ServerTypes, Closed

\* The worker thread keeps the types of the server.
LEMMA WorkerTypes ==
    ASSUME ServerTypes, Worker \/ KilledBySigpipe
    PROVE  ServerTypes'
<1> USE DEF ServerTypes, Busy, store_vars, stop_vars, socket_vars
<1>1. CASE CheckRunning
    BY <1>1 DEF CheckRunning
<1>2. CASE Accept
    <2>1. Head(backlog) \in Clients /\ Tail(backlog) \in Seq(Clients)
        BY <1>2, HeadTailProperties DEF Accept
    <2> QED
        BY <1>2, <2>1 DEF Accept
<1>3. CASE AcceptFails
    BY <1>3 DEF AcceptFails
<1>4. CASE Read
    <2>1. sent[client] \in Seq(Token)
        BY <1>4 DEF Read
    <2>2. Received(sent[client]) \in Seq(Token)
        BY <2>1, ReceivedIsWire
    <2> QED
        BY <1>4, <2>2 DEF Read
<1>5. CASE ReadNothing
    BY <1>5, RepliesFacts DEF ReadNothing, NextConnection
<1>6. CASE GetStatus
    BY <1>6, RepliesFacts DEF GetStatus, Respond
<1>7. CASE ApplyPolicy
    <2>1. Candidate(request).generation \in Nat
        BY ExtractedNumber DEF Candidate
    <2> QED
        BY <1>7, <2>1, RepliesFacts DEF ApplyPolicy, Respond
<1>8. CASE RejectPolicy
    BY <1>8, RepliesFacts DEF RejectPolicy, Respond
<1>9. CASE UnknownCommand
    BY <1>9, RepliesFacts DEF UnknownCommand, Respond
<1>10. CASE WriteReply
    BY <1>10, RepliesFacts DEF WriteReply, NextConnection
<1>11. CASE KilledBySigpipe
    <2>1. conn' \in [Clients -> {"none", "queued", "accepted", "closed"}]
        BY <1>11, ClosedTypes DEF KilledBySigpipe
    <2>2. backlog' \in Seq(Clients)
        BY <1>11 DEF KilledBySigpipe
    <2> QED
        BY <1>11, <2>1, <2>2 DEF KilledBySigpipe
<1> QED
    BY <1>1, <1>2, <1>3, <1>4, <1>5, <1>6, <1>7, <1>8, <1>9, <1>10, <1>11 DEF Worker

\* So do stop() and a new process,
LEMMA StopTypes ==
    ASSUME ServerTypes, StopBegins \/ Stop \/ Restart
    PROVE  ServerTypes'
<1> USE DEF ServerTypes, Busy, store_vars, worker_vars, stop_vars, socket_vars
<1>1. CASE StopBegins
    BY <1>1 DEF StopBegins
<1>2. CASE StopListening
    <2>1. conn' \in [Clients -> {"none", "queued", "accepted", "closed"}]
        BY <1>2, ClosedTypes DEF StopListening
    <2>2. backlog' \in Seq(Clients)
        BY <1>2 DEF StopListening
    <2> QED
        BY <1>2, <2>1, <2>2 DEF StopListening
<1>3. CASE StopJoins
    BY <1>3 DEF StopJoins
<1>4. CASE Restart
    BY <1>4, RepliesFacts, IpcServerAssumption DEF Restart
<1> QED
    BY <1>1, <1>2, <1>3, <1>4 DEF Stop

\* a connection,
LEMMA ConnectTypes ==
    ASSUME ServerTypes, NEW c \in Clients, Connect(c)
    PROVE  ServerTypes'
BY DEF ServerTypes, Busy, Connect, store_vars, worker_vars, stop_vars

\* a request,
LEMMA WriteTypes ==
    ASSUME ServerTypes, NEW c \in Clients, NEW wire \in Seq(Token), Write(c, wire)
    PROVE  ServerTypes'
BY DEF ServerTypes, Busy, Write, store_vars, worker_vars, stop_vars

\* clients that leave,
LEMMA LeaveTypes ==
    ASSUME ServerTypes, NEW gone, Leave(gone)
    PROVE  ServerTypes'
BY DEF ServerTypes, Busy, Leave, store_vars, worker_vars, stop_vars

\* and another program.
LEMMA OtherConnectsTypes ==
    ASSUME ServerTypes, NEW o \in Clients, NEW text \in Seq(Token), OtherConnects(o, text)
    PROVE  ServerTypes'
BY DEF ServerTypes, Busy, OtherConnects, store_vars, worker_vars, stop_vars

\* A step that leaves the server alone keeps its types.
LEMMA SameServerTypes ==
    ASSUME ServerTypes, UNCHANGED server_vars
    PROVE  ServerTypes'
BY DEF ServerTypes, Busy, server_vars, store_vars, worker_vars, stop_vars, socket_vars

\* What goroutines write is a wire.
LEMMA WireIsWire ==
    ASSUME CallTypes, NEW c \in Calls, call_pc[c] = "send"
    PROVE  Wire(c) \in Seq(Token)
BY PolicyWireIsWire, StatusIsRecognized DEF Wire, CallTypes, SentIsValid, Valid

\* Steps of a goroutine that leave the server alone.
LocalStep(c) ==
    \/ c \in Posts /\ \E b \in Bodies[c] : ReceivePost(c, b)
    \/ ReceiveQuery(c) \/ LoadFirst(c) \/ LoadSecond(c)
    \/ SendRest(c) \/ Count(c) \/ Returns(c) \/ Answer(c)

\* A failure is counted by a post, on three ways,
LEMMA CountSteps ==
    ASSUME NEW c, Count(c)
    PROVE  /\ c \in Posts
           /\ \/ call_pc[c] = "received" /\ ~Valid(body[c]) /\ CountFailure(c, "refused")
              \/ call_pc[c] = "failed" /\ CountFailure(c, "unreachable")
              \/ /\ call_pc[c] = "returned" /\ reply[c].status # "OK"
                 /\ CountFailure(c, "rejected")
BY DEF Count, Refuse, RefuseMalformed, RefuseGeneration, RefuseHash, CountIpcError,
   CountRollback, Valid

\* sendIpcCommand returns without a reply or with one,
LEMMA ReturnSteps ==
    ASSUME NEW c, Returns(c)
    PROVE  \/ /\ ReadyToDial(c) \/ call_pc[c] \in {"send", "sending", "await"}
              /\ Return(c, "failed")
           \/ call_pc[c] = "await" /\ reply[c] # NoReply /\ Return(c, "returned")
BY DEF Returns, DialFails, SendFails, ReceiveReply, ConnectionLost

\* and an answer follows what was counted or returned.
LEMMA AnswerSteps ==
    ASSUME NEW c, Answer(c)
    PROVE  \/ call_pc[c] = "refused" /\ Tell(c, "INVALID", 0) /\ UNCHANGED acknowledged
           \/ /\ call_pc[c] = "unreachable" \/ (c \in Gets /\ call_pc[c] = "failed")
              /\ Tell(c, "UNREACHABLE", 0) /\ UNCHANGED acknowledged
           \/ /\ c \in Posts /\ call_pc[c] = "returned" /\ reply[c].status = "OK"
              /\ Tell(c, "ACTIVATED", reply[c].generation)
              /\ \/ UNCHANGED acknowledged
                 \/ /\ c \notin stale /\ acknowledged < reply[c].generation
                    /\ acknowledged' = reply[c].generation
           \/ /\ call_pc[c] = "rejected" /\ Tell(c, "ROLLBACK", reply[c].generation)
              /\ UNCHANGED acknowledged
           \/ /\ c \in Gets /\ call_pc[c] = "returned"
              /\ Tell(c, "STATUS", reply[c].generation) /\ UNCHANGED acknowledged
BY DEF Answer, AnswerInvalid, AnswerUnreachable, AnswerActivated, AnswerRollback, AnswerStatus

\* They do leave it alone.
LEMMA LocalStepIsLocal ==
    ASSUME NEW c, LocalStep(c)
    PROVE  UNCHANGED server_vars
<1>1. CASE Count(c) \/ Returns(c) \/ Answer(c)
    BY <1>1, CountSteps, ReturnSteps, AnswerSteps DEF CountFailure, Return, Tell
<1> QED
    BY <1>1 DEF LocalStep, ReceivePost, ReceiveQuery, LoadFirst, LoadSecond, SendRest

\* The steps of the specification, sorted by who takes them.
LEMMA StepKinds ==
    ASSUME Next
    PROVE  \/ (Worker \/ KilledBySigpipe \/ Stop \/ StopBegins) /\ UNCHANGED call_vars
           \/ DataplaneRestarts
           \/ \E c \in Calls : LocalStep(c) \/ Dial(c) \/ Send(c)
           \/ \E o \in Others : Other(o)
           \/ Outage
BY DEF Next, WorkerThread, MainThread, DataplaneStops, ReceiveCall, Handler, LocalStep

\* The types of the server are kept by every step.
LEMMA ServerTypesKept ==
    ASSUME ServerTypes, CallTypes, [Next]_mvars
    PROVE  ServerTypes'
<1>1. CASE Worker \/ KilledBySigpipe \/ Stop \/ StopBegins
    BY <1>1, WorkerTypes, StopTypes
<1>2. CASE DataplaneRestarts
    BY <1>2, StopTypes DEF DataplaneRestarts
<1>3. ASSUME NEW c \in Calls, LocalStep(c)  PROVE ServerTypes'
    BY <1>3, LocalStepIsLocal, SameServerTypes
<1>4. ASSUME NEW c \in Calls, Dial(c)  PROVE ServerTypes'
    BY <1>4, ConnectTypes, ControlPlaneAssumption DEF Dial
<1>5. ASSUME NEW c \in Calls, Send(c)  PROVE ServerTypes'
    BY <1>5, WriteTypes, WireIsWire, ControlPlaneAssumption DEF Send
<1>6. ASSUME NEW o \in Others, Other(o)  PROVE ServerTypes'
    <2>1. <<>> \in Seq(Token) /\ <<Str("hello")>> \in Seq(Token)
        BY TokenFacts, ShortSeqs DEF Text
    <2> QED
        BY <1>6, <2>1, OtherConnectsTypes, LeaveTypes, ManagementAssumption
        DEF Other, OtherLeaves
<1>7. CASE Outage
    BY <1>7, LeaveTypes DEF Outage, ControlPlaneRestarts
<1>8. CASE UNCHANGED mvars
    BY <1>8, SameServerTypes DEF mvars, vars
<1> QED
    BY <1>1, <1>2, <1>3, <1>4, <1>5, <1>6, <1>7, <1>8, StepKinds

\* The answers callers are told.
LEMMA AnswersFacts ==
    /\ NoAnswer \in Answers
    /\ \A n \in Nat : \A st \in {"INVALID", "UNREACHABLE", "STATUS", "ACTIVATED", "ROLLBACK"} :
          [status |-> st, generation |-> n] \in Answers
BY DEF Answers, NoAnswer

\* Telling an answer keeps the types of the calls.
LEMMA TellTypes ==
    ASSUME CallTypes, NEW c \in Calls, NEW n \in Nat,
           NEW st \in {"INVALID", "UNREACHABLE", "STATUS", "ACTIVATED", "ROLLBACK"},
           Tell(c, st, n), acknowledged' \in Nat
    PROVE  CallTypes'
<1>1. [status |-> st, generation |-> n] \in Answers
    BY AnswersFacts
<1>2. answer' \in [Calls -> Answers]
    BY <1>1 DEF Tell, CallTypes
<1>3. /\ reloadsTotal' \in Nat /\ counted' \subseteq Posts /\ DOMAIN body' = Posts
      /\ page' \in [Gets -> [reloads : Nat, failures : Nat]]
      /\ reloadFailuresTotal' \in Nat
      /\ expected' \in [Calls -> Nat] /\ stale' \subseteq Calls
    BY DEF Tell, CallTypes, counter_vars
<1>5. call_pc' = [call_pc EXCEPT ![c] = "done"] /\ body' = body
    BY DEF Tell, GoTo
<1>6. call_pc' \in [Calls -> CallPlaces]
    BY <1>5 DEF CallTypes, CallPlaces
<1>7. SentIsValid'
    BY <1>5, ControlPlaneAssumption DEF CallTypes, SentIsValid, Calls
<1> QED
    BY <1>2, <1>3, <1>6, <1>7 DEF CallTypes

\* The types of the calls are kept by every step.
LEMMA CallTypesKept ==
    ASSUME ServerTypes, CallTypes, [Next]_mvars
    PROVE  CallTypes'
<1> DEFINE Keeps == UNCHANGED <<counter_vars, body, answer, history_vars>>
<1>1. CASE UNCHANGED call_vars
    BY <1>1 DEF CallTypes, SentIsValid, call_vars, counter_vars, history_vars
<1>2. CASE DataplaneRestarts
    BY <1>2 DEF DataplaneRestarts, CallTypes, SentIsValid, counter_vars
<1>3. ASSUME NEW c \in Posts, NEW b \in Bodies[c], ReceivePost(c, b)  PROVE CallTypes'
    <2>1. b = Malformed \/ b \in PolicyRequest
        BY ControlPlaneAssumption
    <2>2. SentIsValid'
        BY <1>3, <2>1, ControlPlaneAssumption
        DEF ReceivePost, GoTo, CallTypes, SentIsValid, Calls
    <2>3. /\ call_pc' \in [Calls -> CallPlaces]
          /\ counted' \subseteq Posts /\ DOMAIN body' = Posts
          /\ page' = page /\ answer' = answer
        BY <1>3 DEF ReceivePost, GoTo, CallTypes, CallPlaces, Calls
    <2>4. /\ reloadsTotal' \in Nat /\ reloadFailuresTotal' \in Nat
          /\ acknowledged' \in Nat /\ expected' \in [Calls -> Nat] /\ stale' \subseteq Calls
        BY <1>3 DEF ReceivePost, Expect, CallTypes, Calls
    <2> QED
        BY <2>2, <2>3, <2>4 DEF CallTypes
<1>4. ASSUME NEW c \in Gets, ReceiveQuery(c)  PROVE CallTypes'
    <2>1. SentIsValid'
        BY <1>4, ControlPlaneAssumption DEF ReceiveQuery, GoTo, CallTypes, SentIsValid, Calls
    <2> QED
        BY <1>4, <2>1 DEF ReceiveQuery, GoTo, Expect, CallTypes, CallPlaces, Calls, counter_vars
<1>5. ASSUME NEW c \in Gets, LoadFirst(c)  PROVE CallTypes'
    <2>1. SentIsValid'
        BY <1>5, ControlPlaneAssumption DEF LoadFirst, GoTo, CallTypes, SentIsValid, Calls
    <2>2. page' = [page EXCEPT ![c].reloads = reloadsTotal]
        BY <1>5 DEF LoadFirst, Load, LoadOrder
    <2> QED
        BY <1>5, <2>1, <2>2
        DEF LoadFirst, GoTo, Expect, CallTypes, CallPlaces, Calls, counter_vars
<1>6. ASSUME NEW c \in Gets, LoadSecond(c)  PROVE CallTypes'
    <2>1. SentIsValid'
        BY <1>6, ControlPlaneAssumption DEF LoadSecond, GoTo, CallTypes, SentIsValid, Calls
    <2>2. page' = [page EXCEPT ![c].failures = reloadFailuresTotal]
        BY <1>6 DEF LoadSecond, Load, LoadOrder
    <2> QED
        BY <1>6, <2>1, <2>2
        DEF LoadSecond, GoTo, CallTypes, CallPlaces, Calls, counter_vars, history_vars
<1>7. ASSUME NEW c \in Calls, Answer(c)  PROVE CallTypes'
    <2>1. c \in Clients /\ reply[c].generation \in Nat
        BY ControlPlaneAssumption DEF ServerTypes, Replies
    <2>2. acknowledged' \in Nat
        BY <1>7, <2>1, AnswerSteps DEF CallTypes
    <2>3. PICK st \in {"INVALID", "UNREACHABLE", "STATUS", "ACTIVATED", "ROLLBACK"}, n \in Nat :
              Tell(c, st, n)
        BY <1>7, <2>1, AnswerSteps
    <2> QED
        BY <2>2, <2>3, TellTypes
<1>8. ASSUME NEW c \in Calls, Count(c)  PROVE CallTypes'
    <2>1. PICK place \in {"refused", "unreachable", "rejected"} : CountFailure(c, place)
        BY <1>8, CountSteps
    <2>2. SentIsValid'
        BY <1>8, <2>1, CountSteps, ControlPlaneAssumption
        DEF CountFailure, GoTo, CallTypes, SentIsValid, Calls
    <2>3. reloadFailuresTotal' \in Nat
        BY <2>1 DEF CountFailure, CallTypes
    <2> QED
        BY <2>1, <2>2, <2>3 DEF CountFailure, GoTo, CallTypes, CallPlaces, history_vars
<1>9. ASSUME NEW c \in Calls, Dial(c) \/ Send(c) \/ SendRest(c) \/ Returns(c)  PROVE CallTypes'
    <2>1. PICK place \in {"send", "sending", "await", "failed", "returned"} : GoTo(c, place)
        BY <1>9, ReturnSteps DEF Dial, Send, SendRest, Return
    <2>2. place = "send" => ReadyToDial(c)
        BY <1>9, <2>1, ReturnSteps DEF Dial, Send, SendRest, Return, GoTo, CallTypes
    <2>3. UNCHANGED <<counter_vars, body, page, answer, history_vars>>
        BY <1>9, ReturnSteps DEF Dial, Send, SendRest, Return
    <2>4. SentIsValid'
        BY <2>1, <2>2, <2>3, ControlPlaneAssumption
        DEF ReadyToDial, GoTo, CallTypes, SentIsValid, Calls
    <2> QED
        BY <2>1, <2>3, <2>4 DEF GoTo, CallTypes, CallPlaces, counter_vars, history_vars
<1>10. CASE Outage
    <2>1. SentIsValid'
        BY <1>10 DEF Outage, ControlPlaneRestarts, CallTypes, SentIsValid, Calls
    <2> QED
        BY <1>10, <2>1 DEF Outage, ControlPlaneRestarts, CallTypes, CallPlaces, history_vars
<1>11. ASSUME NEW o \in Others, Other(o)  PROVE UNCHANGED call_vars
    BY <1>11 DEF Other, OtherLeaves, OtherConnects
<1>12. CASE UNCHANGED mvars
    BY <1>1, <1>12 DEF mvars, vars
<1>13. ASSUME NEW c \in Calls, LocalStep(c)  PROVE CallTypes'
    <2>1. ReceiveQuery(c) \/ LoadFirst(c) \/ LoadSecond(c) => c \in Gets
        BY DEF ReceiveQuery, LoadFirst, LoadSecond
    <2> QED
        BY <1>3, <1>4, <1>5, <1>6, <1>7, <1>8, <1>9, <1>13, <2>1 DEF LocalStep
<1> QED
    BY <1>1, <1>2, <1>9, <1>10, <1>11, <1>12, <1>13, StepKinds

\* What can happen to the backlog.
LEMMA BacklogSteps ==
    ASSUME [Next]_mvars
    PROVE  \/ UNCHANGED backlog
           \/ backlog' = <<>>
           \/ backlog # <<>> /\ backlog' = Tail(backlog)
           \/ /\ CanConnect
              /\ \E c \in Clients : backlog' = Append(backlog, c)
<1> DEFINE Goal == \/ UNCHANGED backlog
                   \/ backlog' = <<>>
                   \/ backlog # <<>> /\ backlog' = Tail(backlog)
                   \/ /\ CanConnect
                      /\ \E c \in Clients : backlog' = Append(backlog, c)
<1>1. CASE Worker \/ KilledBySigpipe
    BY <1>1 DEF Worker, CheckRunning, Accept, AcceptFails, Read, ReadNothing, GetStatus,
       ApplyPolicy, RejectPolicy, UnknownCommand, WriteReply, KilledBySigpipe, Respond,
       socket_vars
<1>2. CASE Stop \/ StopBegins
    BY <1>2 DEF Stop, StopBegins, StopListening, StopJoins, socket_vars
<1>3. CASE DataplaneRestarts
    BY <1>3 DEF DataplaneRestarts, Restart, socket_vars
<1>4. ASSUME NEW c \in Calls, LocalStep(c)  PROVE Goal
    BY <1>4, LocalStepIsLocal DEF server_vars, socket_vars
<1>5. ASSUME NEW c \in Calls, Dial(c) \/ Send(c)  PROVE Goal
    BY <1>5, ControlPlaneAssumption DEF Dial, Connect, Send, Write
<1>6. ASSUME NEW o \in Others, Other(o)  PROVE Goal
    BY <1>6, ManagementAssumption DEF Other, OtherLeaves, OtherConnects, Leave
<1>7. CASE Outage
    BY <1>7 DEF Outage, ControlPlaneRestarts, Leave
<1>8. CASE UNCHANGED mvars
    BY <1>8 DEF mvars, vars, server_vars, socket_vars
<1> QED
    BY <1>1, <1>2, <1>3, <1>4, <1>5, <1>6, <1>7, <1>8, StepKinds

\* listen()'s limit holds because a connection needs room before it waits.
LEMMA BacklogFitsKept ==
    ASSUME ServerTypes, BacklogFits, [Next]_mvars
    PROVE  BacklogFits'
<1>1. backlog \in Seq(Clients) /\ Backlog \in Nat
    BY IpcServerAssumption DEF ServerTypes
<1>2. CASE UNCHANGED backlog
    BY <1>2 DEF BacklogFits
<1>3. CASE backlog' = <<>>
    BY <1>1, <1>3 DEF BacklogFits
<1>4. CASE backlog # <<>> /\ backlog' = Tail(backlog)
    BY <1>1, <1>4, HeadTailProperties, LenProperties DEF BacklogFits
<1>5. ASSUME CanConnect, NEW c \in Clients, backlog' = Append(backlog, c)
      PROVE  BacklogFits'
    BY <1>1, <1>5 DEF BacklogFits, CanConnect
<1> QED
    BY <1>2, <1>3, <1>4, <1>5, BacklogSteps

Types == ServerTypes /\ BacklogFits /\ CallTypes

\* Types and limits hold throughout.
LEMMA TypesHold == Spec => []Types
<1>1. Init => Types
    <2> SUFFICES ASSUME Init  PROVE Types
        OBVIOUS
    <2>1. ServerTypes
        <3>1. <<>> \in Seq(Token) /\ <<>> \in Seq(Clients)
            OBVIOUS
        <3> QED
            BY <3>1, RepliesFacts, IpcServerAssumption DEF Init, IpcInit, ServerTypes, Busy
    <2>2. BacklogFits
        BY IpcServerAssumption DEF Init, IpcInit, BacklogFits
    <2>3. CallTypes
        BY AnswersFacts, ControlPlaneAssumption
        DEF Init, ControlPlaneInit, CallTypes, CallPlaces, SentIsValid, Calls
    <2> QED
        BY <2>1, <2>2, <2>3 DEF Types
<1>2. Types /\ [Next]_mvars => Types'
    BY ServerTypesKept, BacklogFitsKept, CallTypesKept DEF Types
<1> QED
    BY <1>1, <1>2, PTL DEF Spec

Bounded == signals \in 0..Signals /\ outages \in 0..Outages

\* An operator signals and restarts no more often than the bounds say.
LEMMA BoundsHold == Spec => []Bounded
<1>1. Init => Bounded
    BY ManagementAssumption DEF Init, Bounded
<1>2. Bounded /\ [Next]_mvars => Bounded'
    BY ManagementAssumption DEF Bounded, Next, WorkerThread, MainThread, DataplaneStops,
       DataplaneRestarts, Restart, Outage, ControlPlaneRestarts, mvars
<1> QED
    BY <1>1, <1>2, PTL DEF Spec

\* Types of the variables and the limit of the backlog.
THEOREM TypeCorrect == Spec => []TypeOK
<1>1. Types /\ Bounded => TypeOK
    <2> SUFFICES ASSUME Types, Bounded  PROVE TypeOK
        OBVIOUS
    <2>1. backlog \in Seq(Clients) /\ Len(backlog) <= Backlog + 1
        BY DEF Types, ServerTypes, BacklogFits
    <2> QED
        BY <2>1 DEF Types, ServerTypes, CallTypes, TypeOK, Bounded, Busy
<1> QED
    BY <1>1, TypesHold, BoundsHold, PTL

=============================================================================
