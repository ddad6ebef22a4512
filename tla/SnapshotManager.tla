-------------------------- MODULE SnapshotManager --------------------------
(***************************************************************************)
(* dataplane::runtime::SnapshotManager (atomic_snapshot.h/.cpp): the       *)
(* active policy is published through two atomics, active_snapshot_ (a     *)
(* shared_ptr) and global_generation_, with no lock around the pair.  A    *)
(* writer checks the generation, stores the pointer and then stores the    *)
(* counter; a reader loads the pointer and then the counter.  Every atomic *)
(* access is one step here, so all interleavings of a reader with a writer *)
(* are behaviours of the model.                                            *)
(*                                                                         *)
(* A snapshot is a record with at least the fields generation and          *)
(* version_hash; the rules it carries are opaque in this module.           *)
(***************************************************************************)
EXTENDS Integers

CONSTANTS
    Writers,     \* threads that call apply_candidate
    Readers,     \* threads that load the snapshot and then the generation
    Offers,      \* Offers[w]: the candidates writer w may pass
    Bootstrap    \* the snapshot built by the constructor (generation 1)

VARIABLES
    active_snapshot,     \* active_snapshot_
    global_generation,   \* global_generation_
    writer_pc,           \* where each writer is inside apply_candidate
    candidate,           \* the candidate each writer has had accepted
    result,              \* what each writer's last call returned
    reader_pc,           \* what each reader has loaded so far
    snapshot,            \* the pointer each reader holds
    current_gen,         \* the counter value each reader holds
    installed            \* history: generations that have been active

manager_vars == <<active_snapshot, global_generation>>
writer_vars  == <<writer_pc, candidate, result>>
reader_vars  == <<reader_pc, snapshot, current_gen>>
vars == <<manager_vars, writer_vars, reader_vars, installed>>

AllOffers  == UNION {Offers[w] : w \in Writers}
Snapshots  == {Bootstrap} \cup AllOffers

\* Generations are uint64_t and every version hash is a string; only their
\* order and emptiness are used.
ASSUME SnapshotAssumption ==
    /\ Offers = [w \in Writers |-> Offers[w]]
    /\ \A s \in Snapshots : s.generation \in Nat
    /\ Bootstrap.generation = 1

\* At most one writer can ever pass a candidate that the generation check
\* accepts.  In the program the writers are the IPC thread and main(), and
\* main()'s only candidate has generation 1 (main.cpp:112-119).
ASSUME OneEffectiveWriter ==
    \A v, w \in Writers :
        \/ v = w
        \/ \A c \in Offers[v] : c.generation <= Bootstrap.generation
        \/ \A c \in Offers[w] : c.generation <= Bootstrap.generation

-----------------------------------------------------------------------------
Init ==
    /\ active_snapshot = Bootstrap
    /\ global_generation = Bootstrap.generation
    /\ writer_pc = [w \in Writers |-> "idle"]
    /\ candidate = [w \in Writers |-> Bootstrap]
    /\ result = [w \in Writers |-> "none"]
    /\ reader_pc = [r \in Readers |-> "idle"]
    /\ snapshot = [r \in Readers |-> Bootstrap]
    /\ current_gen = [r \in Readers |-> Bootstrap.generation]
    /\ installed = {Bootstrap.generation}

HasVersionHash(c) == c.version_hash # ""

\* Fault: a candidate of the same generation passes.
AcceptableIfNotOlder(c) ==
    /\ c.generation >= global_generation
    /\ HasVersionHash(c)

\* Fault: the version hash is not checked.
AcceptableUnhashed(c) == ~(c.generation <= global_generation)

\* The two defensive checks of apply_candidate, against one load of the
\* counter.
Acceptable(c) ==
    /\ ~(c.generation <= global_generation)
    /\ HasVersionHash(c)

\* Fault: the check claims the generation by advancing the counter.
AcceptClaimingGeneration(w, c) ==
    /\ writer_pc[w] = "idle"
    /\ Acceptable(c)
    /\ writer_pc' = [writer_pc EXCEPT ![w] = "store_snapshot"]
    /\ candidate' = [candidate EXCEPT ![w] = c]
    /\ global_generation' = c.generation
    /\ UNCHANGED <<active_snapshot, result, reader_vars, installed>>

\* apply_candidate up to the checks, when they pass.
AcceptCandidate(w, c) ==
    /\ writer_pc[w] = "idle"
    /\ Acceptable(c)
    /\ writer_pc' = [writer_pc EXCEPT ![w] = "store_snapshot"]
    /\ candidate' = [candidate EXCEPT ![w] = c]
    /\ UNCHANGED <<manager_vars, result, reader_vars, installed>>

\* apply_candidate when a check fails: it returns false, nothing is stored.
RejectCandidate(w, c) ==
    /\ writer_pc[w] = "idle"
    /\ ~Acceptable(c)
    /\ result' = [result EXCEPT ![w] = "REJECTED"]
    /\ UNCHANGED <<manager_vars, writer_pc, candidate, reader_vars, installed>>

\* Fault: the published copy loses its version hash.
StoreSnapshotUnhashed(w) ==
    /\ writer_pc[w] = "store_snapshot"
    /\ active_snapshot' = [candidate[w] EXCEPT !.version_hash = ""]
    /\ installed' = installed \cup {candidate[w].generation}
    /\ writer_pc' = [writer_pc EXCEPT ![w] = "store_generation"]
    /\ UNCHANGED <<global_generation, candidate, result, reader_vars>>

\* std::atomic_store(&active_snapshot_, new_snapshot)
StoreSnapshot(w) ==
    /\ writer_pc[w] = "store_snapshot"
    /\ active_snapshot' = candidate[w]
    /\ installed' = installed \cup {candidate[w].generation}
    /\ writer_pc' = [writer_pc EXCEPT ![w] = "store_generation"]
    /\ UNCHANGED <<global_generation, candidate, result, reader_vars>>

\* global_generation_.store(new_snapshot->generation); return true
StoreGeneration(w) ==
    /\ writer_pc[w] = "store_generation"
    /\ global_generation' = candidate[w].generation
    /\ writer_pc' = [writer_pc EXCEPT ![w] = "idle"]
    /\ result' = [result EXCEPT ![w] = "OK"]
    /\ UNCHANGED <<active_snapshot, candidate, reader_vars, installed>>

\* get_active_snapshot(): a new query begins with this load.
LoadSnapshot(r) ==
    /\ reader_pc[r] # "snapshot_loaded"
    /\ snapshot' = [snapshot EXCEPT ![r] = active_snapshot]
    /\ reader_pc' = [reader_pc EXCEPT ![r] = "snapshot_loaded"]
    /\ UNCHANGED <<manager_vars, writer_vars, current_gen, installed>>

\* Fault: a reader loads the counter for its first query only.
LoadGenerationOnce(r) ==
    /\ reader_pc[r] = "snapshot_loaded"
    /\ reader_pc' = [reader_pc EXCEPT ![r] = "both_loaded"]
    /\ UNCHANGED <<manager_vars, writer_vars, snapshot, current_gen, installed>>

\* current_generation(), the second load of the same query.
LoadGeneration(r) ==
    /\ reader_pc[r] = "snapshot_loaded"
    /\ current_gen' = [current_gen EXCEPT ![r] = global_generation]
    /\ reader_pc' = [reader_pc EXCEPT ![r] = "both_loaded"]
    /\ UNCHANGED <<manager_vars, writer_vars, snapshot, installed>>

Publish(w) == StoreSnapshot(w) \/ StoreGeneration(w)

Next ==
    \/ \E w \in Writers :
        \/ \E c \in Offers[w] : AcceptCandidate(w, c) \/ RejectCandidate(w, c)
        \/ Publish(w)
    \/ \E r \in Readers : LoadSnapshot(r) \/ LoadGeneration(r)

Spec == Init /\ [][Next]_vars

-----------------------------------------------------------------------------
\* Types of all variables.
TypeOK ==
    /\ active_snapshot \in Snapshots
    /\ global_generation \in Nat
    /\ writer_pc \in [Writers -> {"idle", "store_snapshot", "store_generation"}]
    /\ candidate \in [Writers -> Snapshots]
    /\ result \in [Writers -> {"none", "OK", "REJECTED"}]
    /\ reader_pc \in [Readers -> {"idle", "snapshot_loaded", "both_loaded"}]
    /\ snapshot \in [Readers -> Snapshots]
    /\ current_gen \in [Readers -> Nat]
    /\ installed \in SUBSET Nat

\* No generation that has ever been active lies strictly between lo and hi.
Adjacent(lo, hi) == ~\E g \in installed : lo < g /\ g < hi

\* The counter never overtakes the pointer, and lags it by at most the one
\* policy whose writer stands between its two stores
\* (atomic_snapshot.cpp:50-53).
CounterTrailsPointer ==
    /\ global_generation <= active_snapshot.generation
    /\ Adjacent(global_generation, active_snapshot.generation)
    /\ (\A w \in Writers : writer_pc[w] # "store_generation")
           => global_generation = active_snapshot.generation

\* A query whose two loads straddle an update (main.cpp:158-159) never pairs
\* a snapshot with a counter two or more policies older than it.
ReaderSkewBounded ==
    \A r \in Readers : reader_pc[r] = "both_loaded"
        => Adjacent(current_gen[r], snapshot[r].generation)

\* Neither atomic ever goes back: a policy that was replaced, and one that
\* was rejected, never becomes active (ADR-002, "preserve the active
\* snapshot (rollback)").
NeverRollsBack ==
    [][/\ global_generation' >= global_generation
       /\ active_snapshot' # active_snapshot
            => active_snapshot'.generation > active_snapshot.generation]_vars

\* Seen through active_snapshot alone the two stores and the unlocked check
\* behave as one indivisible install.
Register == INSTANCE PolicyRegister
    WITH policy <- active_snapshot, Candidates <- AllOffers
ImplementsRegister == Register!Spec

=============================================================================
