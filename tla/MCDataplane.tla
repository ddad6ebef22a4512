---------------------------- MODULE MCDataplane ----------------------------
(***************************************************************************)
(* Two queries with the same question, one for another name and type, a    *)
(* malformed packet, and one for the name main() sinks; a policy update    *)
(* that blocks the first name, and a later one that allows it again.       *)
(***************************************************************************)
EXTENDS Dataplane

Policy(g, h, names) == [generation |-> g, version_hash |-> h, blocked |-> names]

MCBootstrap == Policy(1, "bootstrap_v1", {})
MCSeed == Policy(1, "bootstrap_v1", {"blocked.test"})
MCTwoOffers == {Policy(2, "two", {"a.test"}), Policy(3, "three", {"b.test"})}
MCOneOffer == {Policy(2, "two", {"a.test"})}
MCQuestion == [q \in Queries |->
    [qname  |-> CASE q = "sink" -> "sinkhole.test"
                  [] q = "b6"   -> "b.test"
                  [] OTHER      -> "a.test",
     qtype  |-> IF q = "b6" THEN "AAAA" ELSE "A",
     qclass |-> "IN"]]
=============================================================================
