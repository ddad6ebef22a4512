----------------------------- MODULE Management -----------------------------
(***************************************************************************)
(* The management path as a whole: control plane, socket, IPC server and   *)
(* policy store, with the restarts of either process and with clients of   *)
(* the socket other than the control plane.                                *)
(***************************************************************************)
EXTENDS ControlPlane

CONSTANTS
    Others,       \* other clients of the socket
    Signals,      \* bound: times main() is told to stop
    Outages       \* bound: times the control plane is restarted

ASSUME ManagementAssumption ==
    /\ Clients = Calls \cup Others /\ Calls \cap Others = {}
    /\ Signals \in Nat /\ Outages \in Nat

VARIABLES signals, outages   \* how often either has happened

mvars == <<vars, signals, outages>>

Init ==
    /\ IpcInit /\ ControlPlaneInit
    /\ signals = 0 /\ outages = 0

\* Another program connects and writes something that is no command, or
\* nothing; it may close its end at any time.
OtherConnects(o, text) ==
    /\ conn[o] = "none" /\ CanConnect
    /\ backlog' = Append(backlog, o)
    /\ conn' = [conn EXCEPT ![o] = "queued"]
    /\ sent' = [sent EXCEPT ![o] = text]
    /\ UNCHANGED <<store_vars, worker_vars, stop_vars, left, reply, call_vars>>

OtherLeaves(o) ==
    conn[o] # "none" /\ ~left[o] /\ Leave({o}) /\ UNCHANGED call_vars

Other(o) ==
    OtherLeaves(o) \/ \E text \in {<<>>, <<Str("hello")>>} : OtherConnects(o, text)

DataplaneStops ==
    /\ signals < Signals /\ signals' = signals + 1
    /\ StopBegins
    /\ UNCHANGED <<call_vars, outages>>

\* What the operator was told of the old process's policies binds nobody.
DataplaneRestarts ==
    /\ Restart
    /\ acknowledged' = 0
    /\ expected' = [c \in Calls |-> 0]
    /\ stale' = {c \in Calls : conn[c] # "none"}
    /\ UNCHANGED <<counter_vars, call_pc, body, page, answer, signals, outages>>

Outage ==
    /\ outages < Outages /\ outages' = outages + 1
    /\ ControlPlaneRestarts
    /\ UNCHANGED signals

WorkerThread == (Worker \/ KilledBySigpipe) /\ UNCHANGED <<call_vars, signals, outages>>
MainThread == Stop /\ UNCHANGED <<call_vars, signals, outages>>

Next ==
    \/ WorkerThread \/ MainThread
    \/ \E c \in Calls :
          (ReceiveCall(c) \/ Handler(c)) /\ UNCHANGED <<signals, outages>>
    \/ \E o \in Others : Other(o) /\ UNCHANGED <<signals, outages>>
    \/ DataplaneStops \/ DataplaneRestarts \/ Outage

\* Running threads and goroutines go on; nothing obliges an operator, a
\* signal or another program to act.  Each connection is served once, so none
\* of them can run for ever and it is enough that some of them runs.
Running ==
    \/ WorkerThread \/ MainThread
    \/ \E c \in Calls : Handler(c) /\ UNCHANGED <<signals, outages>>

Fairness == WF_mvars(Running)

Spec == Init /\ [][Next]_mvars
FairSpec == Spec /\ Fairness

-----------------------------------------------------------------------------
Policies == UNION {Bodies[c] : c \in Posts}

Replies == [status : {"none", "OK", "STATUS", "REJECTED", "ERROR"}, generation : Nat]
Answers == [status : {"none", "INVALID", "UNREACHABLE", "STATUS", "ACTIVATED", "ROLLBACK"},
            generation : Nat]

\* Types of the variables, except for the texts that are sent and what is
\* taken from them (sent, request, body, active_snapshot).
TypeOK ==
    /\ running_ \in BOOLEAN /\ listening \in BOOLEAN
    /\ stop_pc \in {"serving", "closing", "joining", "exited"}
    /\ worker_pc \in {"loop", "accept", "read", "handle", "write", "exited"}
    /\ client \in Clients \cup {NoClient}
    /\ worker_pc \in {"read", "handle", "write"} => client \in Clients
    /\ response \in Replies /\ reply \in [Clients -> Replies]
    /\ global_generation \in Nat
    /\ backlog \in Seq(Clients) /\ Len(backlog) <= Backlog + 1
    /\ conn \in [Clients -> {"none", "queued", "accepted", "closed"}]
    /\ left \in [Clients -> BOOLEAN]
    /\ applied \subseteq Clients
    /\ reloadsTotal \in Nat /\ reloadFailuresTotal \in Nat
    /\ call_pc \in [Calls -> CallPlaces]
    /\ counted \subseteq Posts
    /\ page \in [Gets -> [reloads : Nat, failures : Nat]]
    /\ answer \in [Calls -> Answers]
    /\ acknowledged \in Nat /\ expected \in [Calls -> Nat] /\ stale \subseteq Calls
    /\ signals \in 0..Signals /\ outages \in 0..Outages

\* The operator is told the truth over any interleaving of calls, stops and
\* restarts: ACTIVATED only of a policy that was installed, ROLLBACK and
\* INVALID only of one that never was (main.go:198-214, corrupt-policy.md,
\* "the active pointer active_snapshot_ is untouched").
OperatorToldTruth ==
    \A c \in Posts :
        /\ answer[c].status = "ACTIVATED" => c \in applied
        /\ answer[c].status \in {"ROLLBACK", "INVALID"} => c \notin applied

\* Whoever asks after an ACTIVATED was told, through any goroutine, sees that
\* policy or a later one, unless the dataplane was restarted.
StatusSeesActivation ==
    \A c \in Gets :
        answer[c].status = "STATUS" => answer[c].generation >= expected[c]

\* Nobody is told of a failure that is not counted, nothing else is counted
\* as one, and the counters are exact whenever no post is under way, although
\* received posts and failures are counted in six places (main.go:152-207)
\* and a handler may still be stopped between counting and answering.
CountersBalance ==
    LET told(c) == call_pc[c] = "done"
        failed == {c \in counted : told(c) /\ answer[c].status # "ACTIVATED"}
        activated == {c \in counted : told(c) /\ answer[c].status = "ACTIVATED"}
        pending == Cardinality({c \in counted : InFlight(c)})
        others == reloadsTotal - reloadFailuresTotal
    IN  /\ Cardinality(failed) <= reloadFailuresTotal
        /\ reloadFailuresTotal <= Cardinality(failed) + pending
        /\ Cardinality(activated) <= others
        /\ others <= Cardinality(activated) + pending

\* A scrape never shows more updates as successful or pending than there are
\* when it is made, although it loads the counters one after the other
\* (main.go:117-118).
ScrapeNeverOverstates ==
    [][\A c \in Gets : call_pc[c] = "scraping" /\ call_pc'[c] = "dial" =>
          page'[c].reloads - page'[c].failures <= reloadsTotal - reloadFailuresTotal]_mvars

\* A list of a request that was cut off by the one read() is dropped as a
\* whole, and so are all lists behind it: never is a part of a list in force
\* (ipc_server.cpp:71-72).
CutDropsWholeLists ==
    active_snapshot = Bootstrap \/ \E p \in Policies \ {Malformed} :
        LET lists == <<p.suffix_blocks, p.exact_blocks, p.allowlist>>
            kept  == <<active_snapshot.suffix_blocks, active_snapshot.exact_blocks,
                       active_snapshot.allowlist>>
            whole(i) == kept[i] = {lists[i][j] : j \in DOMAIN lists[i]}
        IN  /\ p.generation = active_snapshot.generation
            /\ p.version_hash = active_snapshot.version_hash
            /\ \E last \in 0..3 : \A i \in 1..3 :
                   IF i <= last THEN whole(i) ELSE kept[i] = {}

\* Another program connected and neither writes nor leaves: read() has no
\* timeout (ipc_server.cpp:172), so the one worker waits for it.
WorkerHeldUp == worker_pc = "read" /\ sent[client] = <<>> /\ ~left[client] /\ client \in Others

\* Unless a silent program holds up the worker for good, each call is answered,
\* or lost with its control plane, whatever stops, restarts and clients come
\* in between (main.go:51-79 has no timeout behind the dial).
CallsAnswered ==
    []<>~WorkerHeldUp => \A c \in Calls : InFlight(c) ~> ~InFlight(c)

\* Unless a silent program holds up the worker for good, stop() returns: its
\* join() waits for a worker that may be anywhere (ipc_server.cpp:53-59).
StopReturns == []<>~WorkerHeldUp => (stop_pc = "closing" ~> stop_pc = "exited")

\* corrupt-policy.md counts a "truncated IPC buffer" among the payloads that
\* are rolled back: a policy reported ACTIVATED is the whole policy.
ActivatedIsComplete ==
    \A c \in Posts : answer[c].status = "ACTIVATED" /\ active_snapshot.version_hash = body[c].version_hash =>
        /\ active_snapshot.suffix_blocks =
               {body[c].suffix_blocks[i] : i \in DOMAIN body[c].suffix_blocks}
        /\ active_snapshot.exact_blocks =
               {body[c].exact_blocks[i] : i \in DOMAIN body[c].exact_blocks}
        /\ active_snapshot.allowlist =
               {body[c].allowlist[i] : i \in DOMAIN body[c].allowlist}

\* ARTICLE.md, "packet processing must continue uninterrupted" when the
\* control plane pushes updates: the process ends only when told to.
EndsOnlyWhenTold == stop_pc = "exited" => signals > 0

=============================================================================
