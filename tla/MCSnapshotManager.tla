------------------------- MODULE MCSnapshotManager -------------------------
(***************************************************************************)
(* Two threads can call apply_candidate, as in the program: the IPC thread *)
(* with four candidates (a newer, a much newer, a stale one and one with   *)
(* no version hash) and main() with its generation-1 seed.  Two readers.   *)
(***************************************************************************)
EXTENDS SnapshotManager

Policy(g, h) == [generation |-> g, version_hash |-> h]

MCBootstrap == Policy(1, "bootstrap_v1")
MCWriters == {"main", "ipc"}
MCOffers == [main |-> {Policy(1, "bootstrap_v1")},
             ipc  |-> {Policy(1, "stale"), Policy(2, "two"),
                       Policy(3, "three"), Policy(4, "four"), Policy(5, "")}]
=============================================================================
