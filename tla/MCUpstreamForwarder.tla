------------------------ MODULE MCUpstreamForwarder ------------------------
(***************************************************************************)
(* Three client packets, two of them with one name and type but different  *)
(* classes, three upstream ids and a table of two: it fills up, is pruned, *)
(* and ids are reused while old answers are still on their way.            *)
(***************************************************************************)
EXTENDS UpstreamForwarderUse

MCQuestion == [q \in Queries |->
    CASE q = "q1" -> [qname |-> "a.test", qtype |-> "A", qclass |-> "IN"]
      [] q = "q2" -> [qname |-> "a.test", qtype |-> "A", qclass |-> "CH"]
      [] OTHER    -> [qname |-> "b.test", qtype |-> "A", qclass |-> "IN"]]
=============================================================================
