----------------------------- MODULE DnsParser ------------------------------
(***************************************************************************)
(* DnsParser::parse and decode_name (parser.cpp) on every packet up to a   *)
(* size: the name of the one question is decoded label by label, following *)
(* compression pointers, and then its type and class are read behind it.   *)
(*                                                                         *)
(* Offsets count from 0 as in the code.  One step is one iteration of the  *)
(* decoding loop.  The name is kept as the characters appended so far.     *)
(***************************************************************************)
EXTENDS Integers, Sequences

CONSTANTS
    Packets,      \* the packets parsed, sequences of bytes
    MaxPacket,    \* kMaxEdns0PayloadSize (4096)
    MaxDepth,     \* kMaxCompressionDepth (8)
    MaxName       \* kMaxDomainNameLength (253)

ASSUME ParserAssumption ==
    /\ Packets \subseteq Seq(0..255)
    /\ MaxPacket \in Nat /\ MaxDepth \in Nat /\ MaxName \in Nat

HeaderSize == 12   \* kDnsHeaderSize
TailSize == 4      \* QTYPE and QCLASS behind the name

VARIABLES
    buffer,           \* the packet
    status,           \* "header", "decoding", "question", "parsed", or an error
    curr_offset,
    jumped,           \* a pointer has been followed
    depth,            \* pointers followed
    bytes_consumed,   \* bytes the name takes where the question stands
    name

vars == <<buffer, status, curr_offset, jumped, depth, bytes_consumed, name>>

Errors == {"PACKET_TOO_SHORT", "PACKET_TOO_LARGE", "UNSUPPORTED_OPCODE",
           "INVALID_QDCOUNT", "POINTER_OUT_OF_BOUNDS", "POINTER_LOOP_DETECTED",
           "INVALID_LABEL_LENGTH", "NAME_TOO_LONG", "MALFORMED_QUESTION"}

Size == Len(buffer)
Byte(offset) == buffer[offset + 1]
Word(offset) == 256 * Byte(offset) + Byte(offset + 1)
Dot == 46

\* WireHeader: id, flags and the four counts, two bytes each.
IsResponse == Byte(2) >= 128
OpcodeOf   == (Byte(2) \div 8) % 16
RD         == Byte(2) % 2 = 1
QdCount    == Word(4)
AnCount    == Word(6)

\* The two high bits of a length byte.
IsPointer(len) == len >= 192
IsReserved(len) == 64 <= len /\ len < 192
Target(offset) == (Byte(offset) - 192) * 256 + Byte(offset + 1)

Lowered(c) == IF 65 <= c /\ c <= 90 THEN c + 32 ELSE c
Printable(c) == ~(c < 32) /\ c # 127

LabelAt(offset) == SubSeq(buffer, offset + 2, offset + 1 + Byte(offset))
\* Fault: characters are not lowered.
ExtendedAsIs(label) ==
    (IF name = <<>> THEN <<>> ELSE Append(name, Dot)) \o label

Extended(label) ==
    (IF name = <<>> THEN <<>> ELSE Append(name, Dot))
        \o [i \in DOMAIN label |-> Lowered(label[i])]

Init ==
    /\ buffer \in Packets
    /\ status = "header"
    /\ curr_offset = 0 /\ depth = 0 /\ bytes_consumed = 0
    /\ jumped = FALSE
    /\ name = <<>>

Fail(error) ==
    /\ status' = error
    /\ UNCHANGED <<buffer, curr_offset, jumped, depth, bytes_consumed, name>>

\* The checks of the header in their order, and the one decode_name begins
\* with.
HeaderError ==
    IF Size < HeaderSize THEN "PACKET_TOO_SHORT"
    ELSE IF Size > MaxPacket THEN "PACKET_TOO_LARGE"
    ELSE IF OpcodeOf # 0 THEN "UNSUPPORTED_OPCODE"
    ELSE IF QdCount # 1 THEN "INVALID_QDCOUNT"
    ELSE IF HeaderSize >= Size THEN "POINTER_OUT_OF_BOUNDS"
    ELSE "none"

RejectHeader ==
    /\ status = "header" /\ HeaderError # "none"
    /\ Fail(HeaderError)

\* decode_name(buffer, kDnsHeaderSize)
ParseHeader ==
    /\ status = "header" /\ HeaderError = "none"
    /\ status' = "decoding"
    /\ curr_offset' = HeaderSize
    /\ UNCHANGED <<buffer, jumped, depth, bytes_consumed, name>>

Decoding == status = "decoding" /\ curr_offset < Size

RunsOff ==
    /\ status = "decoding" /\ curr_offset >= Size
    /\ Fail("POINTER_OUT_OF_BOUNDS")

EndOfName ==
    /\ Decoding /\ Byte(curr_offset) = 0
    /\ status' = "question"
    /\ bytes_consumed' = IF jumped THEN bytes_consumed ELSE bytes_consumed + 1
    /\ UNCHANGED <<buffer, curr_offset, jumped, depth, name>>

AtPointer == Decoding /\ IsPointer(Byte(curr_offset))

\* Fault: the hop count is compared before it is increased.
PointerErrorOneMore ==
    IF curr_offset + 1 >= Size THEN "POINTER_OUT_OF_BOUNDS"
    ELSE IF depth > MaxDepth THEN "POINTER_LOOP_DETECTED"
    ELSE IF Target(curr_offset) >= Size THEN "POINTER_OUT_OF_BOUNDS"
    ELSE IF Target(curr_offset) >= curr_offset /\ ~jumped
         THEN "POINTER_LOOP_DETECTED"
    ELSE "none"

\* The checks of a pointer in their order; only the first pointer of a name
\* has its direction checked.
PointerError ==
    IF curr_offset + 1 >= Size THEN "POINTER_OUT_OF_BOUNDS"
    ELSE IF depth + 1 > MaxDepth THEN "POINTER_LOOP_DETECTED"
    ELSE IF Target(curr_offset) >= Size THEN "POINTER_OUT_OF_BOUNDS"
    ELSE IF Target(curr_offset) >= curr_offset /\ ~jumped
         THEN "POINTER_LOOP_DETECTED"
    ELSE "none"

RejectPointer ==
    /\ AtPointer /\ PointerError # "none"
    /\ Fail(PointerError)

\* Fault: bytes behind a pointer are counted as consumed.
FollowPointerCounting ==
    /\ AtPointer /\ PointerError = "none"
    /\ depth' = depth + 1
    /\ bytes_consumed' = bytes_consumed + 2
    /\ jumped' = TRUE
    /\ curr_offset' = Target(curr_offset)
    /\ UNCHANGED <<buffer, status, name>>

\* Fault: the hops are not counted.
FollowPointerUncounted ==
    /\ AtPointer /\ PointerError = "none"
    /\ bytes_consumed' = IF jumped THEN bytes_consumed ELSE bytes_consumed + 2
    /\ jumped' = TRUE
    /\ curr_offset' = Target(curr_offset)
    /\ UNCHANGED <<buffer, status, depth, name>>

FollowPointer ==
    /\ AtPointer /\ PointerError = "none"
    /\ depth' = depth + 1
    /\ bytes_consumed' = IF jumped THEN bytes_consumed ELSE bytes_consumed + 2
    /\ jumped' = TRUE
    /\ curr_offset' = Target(curr_offset)
    /\ UNCHANGED <<buffer, status, name>>

AtLabel == Decoding /\ Byte(curr_offset) # 0 /\ ~IsPointer(Byte(curr_offset))

LabelError ==
    LET len == Byte(curr_offset) IN
    IF IsReserved(len) THEN "INVALID_LABEL_LENGTH"
    ELSE IF curr_offset + 1 + len > Size THEN "POINTER_OUT_OF_BOUNDS"
    ELSE IF \E i \in 1..len : ~Printable(LabelAt(curr_offset)[i])
         THEN "INVALID_LABEL_LENGTH"
    ELSE IF Len(Extended(LabelAt(curr_offset))) > MaxName THEN "NAME_TOO_LONG"
    ELSE "none"

RejectLabel ==
    /\ AtLabel /\ LabelError # "none"
    /\ Fail(LabelError)

TakeLabel ==
    /\ AtLabel /\ LabelError = "none"
    /\ name' = Extended(LabelAt(curr_offset))
    /\ curr_offset' = curr_offset + 1 + Byte(curr_offset)
    /\ bytes_consumed' = IF jumped THEN bytes_consumed
                         ELSE bytes_consumed + 1 + Byte(curr_offset)
    /\ UNCHANGED <<buffer, status, jumped, depth>>

QTypeOf  == Word(HeaderSize + bytes_consumed)
QClassOf == Word(HeaderSize + bytes_consumed + 2)

\* QTYPE and QCLASS stand behind the name.
ParseQuestion ==
    /\ status = "question"
    /\ IF HeaderSize + bytes_consumed + TailSize > Size
       THEN Fail("MALFORMED_QUESTION")
       ELSE Fail("parsed")

DecodeName ==
    \/ RunsOff \/ EndOfName
    \/ RejectPointer \/ FollowPointer
    \/ RejectLabel \/ TakeLabel

Next == RejectHeader \/ ParseHeader \/ DecodeName \/ ParseQuestion

\* A running thread keeps executing the loop.
Spec == Init /\ [][Next]_vars /\ WF_vars(Next)

-----------------------------------------------------------------------------
Finished == status \in Errors \cup {"parsed"}

\* Types of all variables.
TypeOK ==
    /\ buffer \in Seq(0..255)
    /\ status \in {"header", "decoding", "question", "parsed"} \cup Errors
    /\ curr_offset \in Nat /\ depth \in 0..MaxDepth /\ bytes_consumed \in Nat
    /\ jumped \in BOOLEAN
    /\ name \in Seq(0..255)

\* Parsing ends on every packet, also on one whose later pointers point
\* forward or at themselves (only the hop count stops those).
Terminates == <>Finished

\* Where the name standing at offset o ends, by a reference definition that
\* looks only at the bytes in place: after a zero byte or after the first
\* pointer.
EndInPlace ==
    LET end[o \in 0..Size] ==
        IF o = Size THEN -1
        ELSE IF Byte(o) = 0 THEN o + 1
        ELSE IF IsPointer(Byte(o)) THEN o + 2
        ELSE IF o + 1 + Byte(o) <= Size THEN end[o + 1 + Byte(o)]
        ELSE -1
    IN  end[HeaderSize]

\* The type and class are read right behind the name as it stands in the
\* question, not behind the place a pointer led to, and inside the packet.
QuestionFollowsName ==
    status = "parsed" =>
        /\ HeaderSize + bytes_consumed = EndInPlace
        /\ EndInPlace + TailSize <= Size

\* A decoded name has no control character and no capital, does not begin or
\* end with a dot of its own, and stays within the limit: names that are the
\* same to DNS compare equal in rules, cache keys and the pending table.
NameIsNormal ==
    /\ Len(name) <= MaxName
    /\ \A i \in 1..Len(name) : Printable(name[i]) /\ Lowered(name[i]) = name[i]
    /\ name # <<>> /\ Dot \notin {buffer[i] : i \in 1..Size} =>
            name[1] # Dot /\ name[Len(name)] # Dot

=============================================================================
