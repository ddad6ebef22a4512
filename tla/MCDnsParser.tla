---------------------------- MODULE MCDnsParser ----------------------------
(***************************************************************************)
(* Packets of a header, up to MaxBody bytes of question and either a type  *)
(* and class or nothing behind them.  The alphabet of the body has each    *)
(* kind of length byte: the end of a name, labels of one and two           *)
(* characters, one longer than the packet, a capital letter (as a length   *)
(* byte: reserved bits) and a pointer, whose low byte can be any of these: *)
(* the header, or the question itself.  The headers put a label or a       *)
(* pointer that leads forward where such pointers find it.                 *)
(***************************************************************************)
EXTENDS ResponseBuilder

CONSTANT MaxBody   \* bound: bytes of a question before its type

Header(id, flags, questions) ==
    id \o <<flags, 0, 0, questions, 0, 0, 0, 0, 0, 0>>

MCBytes == {0, 1, 2, 12, 65, 192}
MCBodies == UNION {[1..n -> MCBytes] : n \in 0..MaxBody}
MCTails == {<<>>, <<0, 1, 0, 3>>}
MCHeaders == {Header(<<1, 97>>, 0, 1), Header(<<192, 14>>, 1, 1)}

\* One header wrong at a time, and packets that are too short or too long.
MCRejected ==
    {h \o <<1, 65, 0, 0, 1, 0, 1>> :
        h \in {Header(<<1, 97>>, 8, 1), Header(<<1, 97>>, 128 + 8, 1),
               Header(<<1, 97>>, 0, 0), Header(<<1, 97>>, 0, 2)}}
    \cup {SubSeq(Header(<<1, 97>>, 1, 1), 1, 11)}
    \cup {Header(<<1, 97>>, 1, 1) \o [i \in 1..(MaxPacket - 11) |-> 0]}

MCPackets ==
    MCRejected \cup {h \o b \o t : h \in MCHeaders, b \in MCBodies, t \in MCTails}
MCAddress == <<127, 0, 0, 1>>
MCTtl == <<0, 0, 0, 60>>
=============================================================================
