---------------------------- MODULE ControlPlane ----------------------------
(***************************************************************************)
(* The Go control plane (main.go): an HTTP server that runs one goroutine  *)
(* per request, each of which opens one connection to the IPC server, and  *)
(* two counters.  A call is one HTTP request; its connection has its name. *)
(*                                                                         *)
(* Counter values scraped by /metrics are kept; what the pages say besides *)
(* and the HTTP server's own timeouts (which cut off the client, not the   *)
(* handler) are left out.                                                  *)
(***************************************************************************)
EXTENDS IpcServer, FiniteSets

CONSTANTS
    Posts,        \* calls POST /api/v1/policies
    Gets,         \* calls GET /metrics, GET /health or GET /api/v1/policies
    Bodies,       \* Bodies[c]: the policies post c may carry
    Malformed,    \* a body that is no JSON
    MaxBuffer     \* tokens a socket holds before a write() has to wait

Calls == Posts \cup Gets

\* PolicyRequest, as decoded: any numbers and strings.
PolicyRequest ==
    [generation : Nat, version_hash : STRING, suffix_blocks : Seq(STRING),
     exact_blocks : Seq(STRING), allowlist : Seq(STRING)]

ASSUME ControlPlaneAssumption ==
    /\ \A c \in Posts : \A b \in Bodies[c] : b = Malformed \/ b \in PolicyRequest
    /\ Posts \cap Gets = {}
    /\ Calls \subseteq Clients
    /\ IsFiniteSet(Clients)
    /\ MaxBuffer \in Nat /\ MaxBuffer >= MaxRead

VARIABLES
    reloadsTotal, reloadFailuresTotal,
    call_pc,      \* where the goroutine of each call stands
                  \*   (lost: gone with its control plane)
    body,         \* the decoded policy of each post
    page,         \* the counters each scrape has loaded
    answer,       \* what the caller was told
    counted,      \* history: posts received since the control plane started
    acknowledged, \* history: highest generation told ACTIVATED since the
                  \*   dataplane started
    expected,     \* history: acknowledged when each call was received
    stale         \* history: calls whose connection is to an earlier process

counter_vars == <<reloadsTotal, reloadFailuresTotal, counted>>
history_vars == <<acknowledged, expected, stale>>
call_vars == <<counter_vars, call_pc, body, page, answer, history_vars>>
vars == <<server_vars, call_vars>>

NoAnswer == [status |-> "none", generation |-> 0]

ControlPlaneInit ==
    /\ reloadsTotal = 0 /\ reloadFailuresTotal = 0 /\ counted = {}
    /\ call_pc = [c \in Calls |-> "idle"]
    /\ body = [c \in Posts |-> Malformed]
    /\ page = [c \in Gets |-> [reloads |-> 0, failures |-> 0]]
    /\ answer = [c \in Calls |-> NoAnswer]
    /\ acknowledged = 0
    /\ expected = [c \in Calls |-> 0]
    /\ stale = {}

GoTo(c, place) == call_pc' = [call_pc EXCEPT ![c] = place]
Expect(c) == expected' = [expected EXCEPT ![c] = acknowledged]

CallPlaces ==
    {"idle", "received", "refused", "scraping", "dial", "send", "sending", "await",
     "failed", "unreachable", "returned", "rejected", "done", "lost"}

\* The end of a handler: the caller is told what came of the call.
Tell(c, status, generation) ==
    /\ answer' = [answer EXCEPT ![c] = [status |-> status, generation |-> generation]]
    /\ GoTo(c, "done")
    /\ UNCHANGED <<server_vars, counter_vars, body, page, expected, stale>>

\* atomic.AddUint64(&reloadFailuresTotal, 1), one of five; the answer follows.
CountFailure(c, place) ==
    /\ reloadFailuresTotal' = reloadFailuresTotal + 1
    /\ GoTo(c, place)
    /\ UNCHANGED <<server_vars, reloadsTotal, counted, body, page, answer, history_vars>>

-----------------------------------------------------------------------------
\* The handlers up to the dial.

\* atomic.AddUint64(&reloadsTotal, 1), then the body is decoded.
ReceivePost(c, b) ==
    /\ call_pc[c] = "idle"
    /\ reloadsTotal' = reloadsTotal + 1
    /\ counted' = counted \cup {c}
    /\ body' = [body EXCEPT ![c] = b]
    /\ GoTo(c, "received")
    /\ Expect(c)
    /\ UNCHANGED <<server_vars, reloadFailuresTotal, page, answer, acknowledged, stale>>

Valid(b) == b # Malformed /\ b.generation # 0 /\ b.version_hash # ""

\* Three checks, each with a counter step and an answer of its own.
RefuseMalformed(c) ==
    /\ c \in Posts /\ call_pc[c] = "received" /\ body[c] = Malformed
    /\ CountFailure(c, "refused")

RefuseGeneration(c) ==
    /\ c \in Posts /\ call_pc[c] = "received"
    /\ body[c] # Malformed /\ body[c].generation = 0
    /\ CountFailure(c, "refused")

RefuseHash(c) ==
    /\ c \in Posts /\ call_pc[c] = "received"
    /\ body[c] # Malformed /\ body[c].generation # 0 /\ body[c].version_hash = ""
    /\ CountFailure(c, "refused")

Refuse(c) == RefuseMalformed(c) \/ RefuseGeneration(c) \/ RefuseHash(c)

\* 400 with the reason.
AnswerInvalid(c) ==
    /\ call_pc[c] = "refused"
    /\ Tell(c, "INVALID", 0)
    /\ UNCHANGED acknowledged

\* GET /health and GET /api/v1/policies ask for the status alone.
ReceiveQuery(c) ==
    /\ c \in Gets /\ call_pc[c] = "idle"
    /\ GoTo(c, "dial")
    /\ Expect(c)
    /\ UNCHANGED <<server_vars, counter_vars, body, page, answer, acknowledged, stale>>

\* Fault: the failures are loaded first.
LoadFailuresFirst == <<"failures", "reloads">>

\* A scrape loads one counter, then the other.
LoadOrder == <<"reloads", "failures">>

Load(c, counter) ==
    page' = [page EXCEPT ![c][counter] =
                IF counter = "reloads" THEN reloadsTotal ELSE reloadFailuresTotal]

LoadFirst(c) ==
    /\ c \in Gets /\ call_pc[c] = "idle"
    /\ Load(c, LoadOrder[1])
    /\ GoTo(c, "scraping")
    /\ Expect(c)
    /\ UNCHANGED <<server_vars, counter_vars, body, answer, acknowledged, stale>>

LoadSecond(c) ==
    /\ c \in Gets /\ call_pc[c] = "scraping"
    /\ Load(c, LoadOrder[2])
    /\ GoTo(c, "dial")
    /\ UNCHANGED <<server_vars, counter_vars, body, answer, history_vars>>

-----------------------------------------------------------------------------
\* sendIpcCommand.

\* It returns an error or the reply.
Return(c, place) ==
    /\ GoTo(c, place)
    /\ UNCHANGED <<server_vars, counter_vars, body, page, answer, history_vars>>

Wire(c) == IF c \in Posts THEN PolicyWire(body[c]) ELSE StatusWire

\* A valid policy is put into an IpcRequest and sent on.
ReadyToDial(c) ==
    \/ call_pc[c] = "dial"
    \/ call_pc[c] = "received" /\ Valid(body[c])

Dial(c) ==
    /\ ReadyToDial(c)
    /\ Connect(c)
    /\ GoTo(c, "send")
    /\ UNCHANGED <<counter_vars, body, page, answer, history_vars>>

\* Nobody listens, or the backlog is full: connect() fails at once.
DialFails(c) ==
    /\ ReadyToDial(c) /\ ~CanConnect
    /\ Return(c, "failed")

\* A request that does not fit the socket's buffer stays in Write() until
\* the server has read from it.
Send(c) ==
    /\ call_pc[c] = "send"
    /\ Write(c, Wire(c))
    /\ GoTo(c, IF Len(Wire(c)) <= MaxBuffer THEN "await" ELSE "sending")
    /\ UNCHANGED <<counter_vars, body, page, answer, history_vars>>

\* The one read() of the server has made enough room for the rest.
SendRest(c) ==
    /\ call_pc[c] = "sending"
    /\ client = c /\ worker_pc \in {"handle", "write"}
    /\ Len(Wire(c)) - MaxRead <= MaxBuffer
    /\ GoTo(c, "await")
    /\ UNCHANGED <<server_vars, counter_vars, body, page, answer, history_vars>>

\* The server closed the connection before all was written.
SendFails(c) ==
    /\ call_pc[c] \in {"send", "sending"} /\ conn[c] = "closed"
    /\ Return(c, "failed")

ReceiveReply(c) ==
    /\ call_pc[c] = "await" /\ reply[c] # NoReply
    /\ Return(c, "returned")

\* The connection ends without a reply, which is no JSON.
ConnectionLost(c) ==
    /\ call_pc[c] = "await" /\ reply[c] = NoReply /\ conn[c] = "closed"
    /\ Return(c, "failed")

Returns(c) == DialFails(c) \/ SendFails(c) \/ ReceiveReply(c) \/ ConnectionLost(c)

-----------------------------------------------------------------------------
\* The handlers behind sendIpcCommand.

\* Fault: a failed sendIpcCommand is not counted.
ForgetIpcError(c) ==
    /\ c \in Posts /\ call_pc[c] = "failed"
    /\ Return(c, "unreachable")

CountIpcError(c) ==
    /\ c \in Posts /\ call_pc[c] = "failed"
    /\ CountFailure(c, "unreachable")

\* The handlers of GET have nothing to count.
AnswerUnreachable(c) ==
    /\ call_pc[c] = "unreachable" \/ (c \in Gets /\ call_pc[c] = "failed")
    /\ Tell(c, "UNREACHABLE", 0)
    /\ UNCHANGED acknowledged

AnswerActivated(c) ==
    /\ c \in Posts /\ call_pc[c] = "returned" /\ reply[c].status = "OK"
    /\ Tell(c, "ACTIVATED", reply[c].generation)
    /\ acknowledged' =
          IF c \notin stale /\ acknowledged < reply[c].generation
          THEN reply[c].generation ELSE acknowledged

CountRollback(c) ==
    /\ c \in Posts /\ call_pc[c] = "returned" /\ reply[c].status # "OK"
    /\ CountFailure(c, "rejected")

AnswerRollback(c) ==
    /\ call_pc[c] = "rejected"
    /\ Tell(c, "ROLLBACK", reply[c].generation)
    /\ UNCHANGED acknowledged

AnswerStatus(c) ==
    /\ c \in Gets /\ call_pc[c] = "returned"
    /\ Tell(c, "STATUS", reply[c].generation)
    /\ UNCHANGED acknowledged

Count(c) == Refuse(c) \/ CountIpcError(c) \/ CountRollback(c)

Answer(c) ==
    \/ AnswerInvalid(c) \/ AnswerUnreachable(c) \/ AnswerActivated(c)
    \/ AnswerRollback(c) \/ AnswerStatus(c)

\* The steps a goroutine takes once its call is received.
Handler(c) ==
    \/ Count(c) \/ LoadSecond(c) \/ Dial(c) \/ Send(c) \/ SendRest(c)
    \/ Returns(c) \/ Answer(c)

ReceiveCall(c) ==
    \/ c \in Posts /\ \E b \in Bodies[c] : ReceivePost(c, b)
    \/ ReceiveQuery(c)
    \/ LoadFirst(c)

InFlight(c) == call_pc[c] \notin {"idle", "done", "lost"}

\* The control plane is killed and started again: its sockets close, its
\* counters begin with 0.
ControlPlaneRestarts ==
    /\ Leave({c \in Calls : InFlight(c)})
    /\ call_pc' = [c \in Calls |-> IF InFlight(c) THEN "lost" ELSE call_pc[c]]
    /\ reloadsTotal' = 0 /\ reloadFailuresTotal' = 0 /\ counted' = {}
    /\ UNCHANGED <<body, page, answer, history_vars>>

=============================================================================
