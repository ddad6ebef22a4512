---------------------------- MODULE MCManagement ----------------------------
(***************************************************************************)
(* Two posts that race with a scrape or a query, or with another program:  *)
(* one policy that a single read() takes whole, with a rule spelled like   *)
(* the key of an earlier list, and one of a later generation that fills    *)
(* the socket's buffer and is cut inside its second list; and bodies that  *)
(* the control plane refuses: without a generation, without a hash, and no *)
(* JSON at all.  To the liveness properties these refusals are the same.   *)
(***************************************************************************)
EXTENDS Management

CONSTANT garbage

Policy(generation, hash, suffixes, exacts, allows) ==
    [generation |-> generation, version_hash |-> hash, suffix_blocks |-> suffixes,
     exact_blocks |-> exacts, allowlist |-> allows]

MCSmall == Policy(2, "small", <<"a">>, <<>>, <<"suffix_blocks">>)
MCZero == Policy(0, "zero", <<>>, <<>>, <<>>)
MCUnnamed == Policy(2, "", <<>>, <<>>, <<>>)
MCLarge == Policy(3, "large", <<"a">>, [i \in 1..12 |-> IF i < 12 THEN "b" ELSE "d"], <<"c">>)

MCBodies ==
    [c \in Posts |-> IF c = "p1" THEN {MCSmall, MCZero, MCUnnamed, garbage} ELSE {MCLarge}]
MCFewBodies == [c \in Posts |-> IF c = "p1" THEN {MCSmall, garbage} ELSE {MCLarge}]
MCBootstrap == [generation |-> 1, version_hash |-> "bootstrap_v1",
                suffix_blocks |-> {}, exact_blocks |-> {}, allowlist |-> {}]
=============================================================================
