------------------------------ MODULE IpcServer -----------------------------
(***************************************************************************)
(* dataplane::runtime::IpcServer (ipc_server.h/.cpp) in one run of the     *)
(* dataplane process: the worker thread that serves one connection at a    *)
(* time, and stop(), which main() calls when it leaves its loop.           *)
(*                                                                         *)
(* A connection is named after the client that opened it (each client      *)
(* opens one).  Its state is what both ends can see of the socket: where   *)
(* the server end is, what the client has written, whether the client end  *)
(* is gone, and the reply.  server_fd_ is modelled by the state of the     *)
(* socket it names: once stop() has closed it, accept() fails whether the  *)
(* worker reads the old descriptor or -1.                                  *)
(*                                                                         *)
(* The worker is the only thread whose candidates the policy store takes   *)
(* (SnapshotManager!OneEffectiveWriter), so apply_candidate is one step    *)
(* here; its interleavings with readers are the subject of                 *)
(* SnapshotManager and Dataplane.                                          *)
(***************************************************************************)
EXTENDS IpcRequest

CONSTANTS
    Clients,      \* whoever connects to the socket
    NoClient,     \* no connection
    Bootstrap,    \* the snapshot of SnapshotManager's constructor
    Backlog       \* listen()'s backlog

ASSUME IpcServerAssumption ==
    /\ NoClient \notin Clients
    /\ Backlog \in Nat
    /\ Bootstrap.generation = 1

VARIABLES
    running_,
    listening,          \* the socket server_fd_ names accepts connections
    stop_pc,            \* main(): "serving", inside stop(), or "exited"
    worker_pc,
    client,             \* client_fd of the worker
    request,            \* what the worker has read
    response,           \* what handle_command returned
    active_snapshot, global_generation,
    backlog,            \* connections not accepted yet, oldest first
    conn,               \* server end: "none", "queued", "accepted", "closed"
    sent,               \* what the client has written
    left,               \* the client end is closed
    reply,              \* what the worker has written
    applied             \* history: clients whose candidate was installed

store_vars  == <<active_snapshot, global_generation, applied>>
worker_vars == <<worker_pc, client, request, response>>
stop_vars   == <<running_, listening, stop_pc>>
socket_vars == <<backlog, conn, sent, left, reply>>
server_vars == <<store_vars, worker_vars, stop_vars, socket_vars>>

NoReply == [status |-> "none", generation |-> 0]

\* main() starts the server; its seed is turned down because the store
\* begins with generation 1.
IpcInit ==
    /\ running_ = TRUE /\ listening = TRUE
    /\ stop_pc = "serving" /\ worker_pc = "loop"
    /\ client = NoClient
    /\ request = <<>>
    /\ response = NoReply
    /\ active_snapshot = Bootstrap
    /\ global_generation = Bootstrap.generation
    /\ applied = {}
    /\ backlog = <<>>
    /\ conn = [c \in Clients |-> "none"]
    /\ sent = [c \in Clients |-> <<>>]
    /\ left = [c \in Clients |-> FALSE]
    /\ reply = [c \in Clients |-> NoReply]

-----------------------------------------------------------------------------
\* The worker thread.

\* while (running_.load())
CheckRunning ==
    /\ worker_pc = "loop"
    /\ worker_pc' = IF running_ THEN "accept" ELSE "exited"
    /\ UNCHANGED <<client, request, response, store_vars, stop_vars, socket_vars>>

Accept ==
    /\ worker_pc = "accept" /\ listening /\ backlog # <<>>
    /\ client' = Head(backlog)
    /\ backlog' = Tail(backlog)
    /\ conn' = [conn EXCEPT ![Head(backlog)] = "accepted"]
    /\ worker_pc' = "read"
    /\ UNCHANGED <<request, response, store_vars, stop_vars, sent, left, reply>>

\* accept() returns -1 on a closed socket; the worker looks at running_
\* before it breaks or goes on.
AcceptFails ==
    /\ worker_pc = "accept" /\ ~listening
    /\ worker_pc' = IF running_ THEN "loop" ELSE "exited"
    /\ UNCHANGED <<client, request, response, store_vars, stop_vars, socket_vars>>

\* One read(), which waits until there is something to read.
Read ==
    /\ worker_pc = "read" /\ sent[client] # <<>>
    /\ request' = Received(sent[client])
    /\ worker_pc' = "handle"
    /\ UNCHANGED <<client, response, store_vars, stop_vars, socket_vars>>

\* The connection is closed; buffer and reply go out of scope.
NextConnection ==
    /\ conn' = [conn EXCEPT ![client] = "closed"]
    /\ client' = NoClient
    /\ request' = <<>>
    /\ response' = NoReply
    /\ worker_pc' = "loop"

\* read() returns 0: the client closed its end without a word.
ReadNothing ==
    /\ worker_pc = "read" /\ sent[client] = <<>> /\ left[client]
    /\ NextConnection
    /\ UNCHANGED <<store_vars, stop_vars, backlog, sent, left, reply>>

Command == ExtractString(request, "command")

Respond(status, generation) ==
    /\ response' = [status |-> status, generation |-> generation]
    /\ worker_pc' = "write"
    /\ UNCHANGED <<client, request, stop_vars, socket_vars>>

\* The snapshot and the counter are read by the thread that writes them.
GetStatus ==
    /\ worker_pc = "handle" /\ Command = "GET_STATUS"
    /\ Respond("STATUS", global_generation)
    /\ UNCHANGED store_vars

\* Fault: the generation is not compared.
AcceptableAnyGeneration(candidate) == candidate.version_hash # ""

Acceptable(candidate) ==
    /\ ~(candidate.generation <= global_generation)
    /\ candidate.version_hash # ""

\* Fault: the outcome of apply_candidate is not looked at.
RejectPolicyAsOk ==
    /\ worker_pc = "handle" /\ Command = "APPLY_POLICY"
    /\ ~Acceptable(Candidate(request))
    /\ Respond("OK", global_generation)
    /\ UNCHANGED store_vars

ApplyPolicy ==
    /\ worker_pc = "handle" /\ Command = "APPLY_POLICY"
    /\ Acceptable(Candidate(request))
    /\ active_snapshot' = Candidate(request)
    /\ global_generation' = Candidate(request).generation
    /\ applied' = applied \cup {client}
    /\ Respond("OK", global_generation')

RejectPolicy ==
    /\ worker_pc = "handle" /\ Command = "APPLY_POLICY"
    /\ ~Acceptable(Candidate(request))
    /\ Respond("REJECTED", global_generation)
    /\ UNCHANGED store_vars

UnknownCommand ==
    /\ worker_pc = "handle" /\ Command \notin {"GET_STATUS", "APPLY_POLICY"}
    /\ Respond("ERROR", 0)
    /\ UNCHANGED store_vars

\* The reply is written and the connection closed.
WriteReply ==
    /\ worker_pc = "write" /\ ~left[client]
    /\ reply' = [reply EXCEPT ![client] = response]
    /\ NextConnection
    /\ UNCHANGED <<store_vars, stop_vars, backlog, sent, left>>

Worker ==
    \/ CheckRunning \/ Accept \/ AcceptFails \/ Read \/ ReadNothing
    \/ GetStatus \/ ApplyPolicy \/ RejectPolicy \/ UnknownCommand \/ WriteReply

-----------------------------------------------------------------------------
\* The end of the process.

\* Every server end of a connection closes with the process or the socket.
Closed(ended) ==
    conn' = [c \in Clients |-> IF conn[c] \in ended THEN "closed" ELSE conn[c]]

\* A signal has ended main()'s loop; running_.exchange(false) in stop().
StopBegins ==
    /\ stop_pc = "serving"
    /\ running_' = FALSE
    /\ stop_pc' = "closing"
    /\ UNCHANGED <<listening, store_vars, worker_vars, socket_vars>>

\* Fault: the listening socket stays open.
StopListeningLate ==
    /\ stop_pc = "closing"
    /\ stop_pc' = "joining"
    /\ UNCHANGED <<running_, listening, store_vars, worker_vars, socket_vars>>

\* Fault: without shutdown(), a worker inside accept() stays there.
StopListeningAsleep ==
    /\ stop_pc = "closing"
    /\ listening' = (worker_pc = "accept")
    /\ backlog' = <<>>
    /\ Closed({"queued"})
    /\ stop_pc' = "joining"
    /\ UNCHANGED <<running_, store_vars, worker_vars, sent, left, reply>>

\* shutdown() and close() of the listening socket: the connections that
\* nobody has accepted are reset.
StopListening ==
    /\ stop_pc = "closing"
    /\ listening' = FALSE
    /\ backlog' = <<>>
    /\ Closed({"queued"})
    /\ stop_pc' = "joining"
    /\ UNCHANGED <<running_, store_vars, worker_vars, sent, left, reply>>

\* join() returns once the worker has ended; then main() returns.
StopJoins ==
    /\ stop_pc = "joining" /\ worker_pc = "exited"
    /\ stop_pc' = "exited"
    /\ UNCHANGED <<running_, listening, store_vars, worker_vars, socket_vars>>

\* The client end is gone when the reply is written: SIGPIPE, for which no
\* handler is installed, ends the whole process.
KilledBySigpipe ==
    /\ worker_pc = "write" /\ left[client]
    /\ stop_pc' = "exited"
    /\ worker_pc' = "exited"
    /\ running_' = FALSE
    /\ listening' = FALSE
    /\ backlog' = <<>>
    /\ Closed({"queued", "accepted"})
    /\ UNCHANGED <<client, request, response, store_vars, sent, left, reply>>

Stop == StopListening \/ StopJoins

\* A new process: nothing of the old one's policies is kept, and its start()
\* unlinks the old socket.
Restart ==
    /\ stop_pc = "exited"
    /\ running_' = TRUE /\ listening' = TRUE
    /\ stop_pc' = "serving" /\ worker_pc' = "loop"
    /\ client' = NoClient
    /\ request' = <<>>
    /\ response' = NoReply
    /\ active_snapshot' = Bootstrap
    /\ global_generation' = Bootstrap.generation
    /\ UNCHANGED <<applied, socket_vars>>

-----------------------------------------------------------------------------
\* What a client does to its end of the socket (system calls).

\* Fault: one connection too many waits.
CanConnectOneMore == listening /\ Len(backlog) <= Backlog + 1

CanConnect == listening /\ Len(backlog) <= Backlog

Connect(c) ==
    /\ CanConnect
    /\ backlog' = Append(backlog, c)
    /\ conn' = [conn EXCEPT ![c] = "queued"]
    /\ UNCHANGED <<store_vars, worker_vars, stop_vars, sent, left, reply>>

Write(c, wire) ==
    /\ conn[c] \in {"queued", "accepted"}
    /\ sent' = [sent EXCEPT ![c] = wire]
    /\ UNCHANGED <<store_vars, worker_vars, stop_vars, backlog, conn, left, reply>>

Leave(gone) ==
    /\ left' = [c \in Clients |-> left[c] \/ c \in gone]
    /\ UNCHANGED <<store_vars, worker_vars, stop_vars, backlog, conn, sent, reply>>

=============================================================================
