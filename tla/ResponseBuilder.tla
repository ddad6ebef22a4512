--------------------------- MODULE ResponseBuilder --------------------------
(***************************************************************************)
(* ResponseBuilder (response.cpp): the replies main() builds itself from a *)
(* parsed query.  A reply is the packet in bytes, and it is read back with *)
(* the decoder of DnsParser as a resolver would: the question first, then  *)
(* the owner of the answer record.                                         *)
(***************************************************************************)
EXTENDS DnsParser

CONSTANTS
    Rcodes,       \* response codes of error replies
    Address, Ttl  \* of a sinkhole reply, four bytes each

ASSUME ResponseAssumption ==
    /\ Rcodes \subseteq 0..15
    /\ Address \in [1..4 -> 0..255] /\ Ttl \in [1..4 -> 0..255]

\* protocol.h: names of 253 characters, packets of 4096 bytes, 8 pointers.  A
\* reply is at most 34 bytes longer than its name.
ASSUME LimitAssumption == MaxName + 34 <= MaxPacket /\ MaxDepth > 0

VARIABLES
    query,        \* what parse() returned for the query, once it is answered
    section       \* the section of the packet whose name is decoded

rvars == <<vars, query, section>>

NoQuery == [name |-> <<>>, id |-> <<>>, qtype |-> 0, qclass |-> 0, jumped |-> TRUE]

ParsedPacket ==
    [name |-> name, id |-> SubSeq(buffer, 1, 2),
     qtype |-> QTypeOf, qclass |-> QClassOf, jumped |-> jumped]

ResponseInit == Init /\ query = NoQuery /\ section = "question"

ParserStep ==
    /\ \/ RejectHeader \/ ParseHeader \/ DecodeName
       \/ section = "question" /\ ParseQuestion
    /\ UNCHANGED <<query, section>>

-----------------------------------------------------------------------------
\* flags |= 0x0100
WithRd(high) == IF RD /\ high % 2 = 0 THEN high + 1 ELSE high

\* The id of the query, the flags and the counts.
HeaderOf(high, rcode, answers) ==
    SubSeq(buffer, 1, 2) \o <<WithRd(high), 128 + rcode>>
        \o <<0, 1, 0, answers, 0, 0, 0, 0>>

\* Fault: the length of the name alone is copied.
NameOnly == SubSeq(buffer, HeaderSize + 1, HeaderSize + bytes_consumed)

\* The question is copied as it stands (wire_bytes_consumed bytes).
Question == SubSeq(buffer, HeaderSize + 1, HeaderSize + bytes_consumed + TailSize)

\* A pointer to the name in the question, type A, class IN.
AnswerRecord == <<192, 12, 0, 1, 0, 1>> \o Ttl \o <<0, 4>> \o Address

\* The query is answered; the reply is read from its beginning.
Reply(packet) ==
    /\ status = "parsed" /\ query = NoQuery
    /\ buffer' = packet
    /\ query' = ParsedPacket
    /\ status' = "header"
    /\ curr_offset' = 0 /\ depth' = 0 /\ bytes_consumed' = 0
    /\ jumped' = FALSE
    /\ name' = <<>>
    /\ UNCHANGED section

BuildErrorResponse(rcode) == Reply(HeaderOf(129, rcode, 0) \o Question)

BuildSinkholeResponse == Reply(HeaderOf(133, 0, 1) \o Question \o AnswerRecord)

-----------------------------------------------------------------------------
\* Reading a reply on behind its question: the owner of the answer record.
ReadAnswer ==
    /\ query # NoQuery /\ section = "question" /\ status = "parsed"
    /\ AnCount = 1
    /\ section' = "answer"
    /\ status' = "decoding"
    /\ curr_offset' = HeaderSize + bytes_consumed + TailSize
    /\ depth' = 0 /\ bytes_consumed' = 0
    /\ jumped' = FALSE
    /\ name' = <<>>
    /\ UNCHANGED <<buffer, query>>

ResponseNext ==
    \/ ParserStep
    \/ \E rcode \in Rcodes : BuildErrorResponse(rcode)
    \/ BuildSinkholeResponse
    \/ ReadAnswer

\* A running thread goes on.
ResponseSpec == ResponseInit /\ [][ResponseNext]_rvars /\ WF_rvars(ResponseNext)

-----------------------------------------------------------------------------
\* A reply repeats what was asked: it has the id of the query and is marked
\* as a response to one question, that question reads back as the same name,
\* type and class, the answer record belongs to the name, and behind what the
\* counts announce there is no rest of the query.  It holds for every query
\* whose name is written out; a name that points into the header of the query
\* reads differently behind the header of the reply (response.cpp:34-37).
ReplyRepeatsQuestion ==
    query # NoQuery /\ ~query.jumped =>
        /\ status \notin Errors
        /\ SubSeq(buffer, 1, 2) = query.id /\ IsResponse
        /\ status = "parsed" =>
               /\ name = query.name
               /\ QTypeOf = query.qtype /\ QClassOf = query.qclass
               /\ Size = HeaderSize + bytes_consumed + TailSize + 16 * AnCount
        /\ section = "answer" /\ status = "question" => name = query.name

=============================================================================
