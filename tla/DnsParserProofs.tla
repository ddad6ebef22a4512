-------------------------- MODULE DnsParserProofs ---------------------------
(***************************************************************************)
(* Safety of the decoder on every packet of bytes, for any limits, as it   *)
(* reads a query and then the reply built from it.                         *)
(*                                                                         *)
(* Where a name ends in place is a recursive function over the offsets,    *)
(* each value from one further on; that there is such a function is proved *)
(* by induction from the end of the packet.  While no pointer has been     *)
(* followed the decoder stands at an offset from which the name ends where *)
(* it ends from its beginning; bytes_consumed then leads to that offset,   *)
(* and behind the first pointer it no longer changes.                      *)
(***************************************************************************)
EXTENDS ResponseBuilder, SequenceTheorems, WellFoundedInduction, TLAPS

Bytes == 0..255

\* One equation of EndInPlace, for the offset o.
EndBody(f, o) ==
    IF o = Size THEN -1
    ELSE IF Byte(o) = 0 THEN o + 1
    ELSE IF IsPointer(Byte(o)) THEN o + 2
    ELSE IF o + 1 + Byte(o) <= Size THEN f[o + 1 + Byte(o)]
    ELSE -1

EndAt == CHOOSE f : f = [o \in 0..Size |-> EndBody(f, o)]

AtHeader == status = "header"
IsParsed == status = "parsed"
InName   == status = "decoding"
Active   == status \in {"decoding", "question", "parsed"}
Asking   == section = "question"

-----------------------------------------------------------------------------
(* Numbers.                                                                *)

\* A set of numbers that is not empty has a least one.
LEMMA LeastNumber ==
    ASSUME NEW T \in SUBSET Nat, T # {}
    PROVE  \E x \in T : \A y \in T : x <= y
<1> DEFINE R == OpToRel(<, Nat)
<1>1. IsWellFoundedOn(R, Nat)
    BY NatLessThanWellFounded
<1>2. \A x, y \in Nat : x < y => <<x, y>> \in R
    BY DEF OpToRel
<1> HIDE DEF R
<1>3. PICK x \in T : \A y \in T : ~(<<y, x>> \in R)
    BY <1>1, WFMin
<1>4. \A y \in T : ~(y < x)
    BY <1>2, <1>3
<1>5. \A y \in T : x <= y
    BY <1>4
<1> QED
    BY <1>5

\* Induction over the natural numbers, for the set of those that have the
\* property.
LEMMA SetInduction ==
    ASSUME NEW S \in SUBSET Nat, 0 \in S, \A n \in S : n + 1 \in S
    PROVE  S = Nat
<1> SUFFICES ASSUME S # Nat PROVE FALSE
    OBVIOUS
<1>1. PICK x \in Nat \ S : \A y \in Nat \ S : x <= y
    BY LeastNumber
<1>2. x # 0 /\ x - 1 \in Nat
    BY <1>1
<1>3. x - 1 \in S
    BY <1>1, <1>2
<1> QED
    BY <1>1, <1>2, <1>3

-----------------------------------------------------------------------------
(* Bytes, labels and names.                                                *)

\* Lower case of a byte (std::tolower).
LEMMA LoweredFacts ==
    \A c \in Bytes : /\ Lowered(c) \in Bytes
                     /\ Lowered(Lowered(c)) = Lowered(c)
                     /\ Printable(c) => Printable(Lowered(c))
                     /\ Lowered(c) = Dot => c = Dot
BY DEF Bytes, Lowered, Printable, Dot

\* The dot between labels is an ordinary byte.
LEMMA DotFacts == Dot \in Bytes /\ Lowered(Dot) = Dot /\ Printable(Dot)
BY DEF Bytes, Lowered, Printable, Dot

\* A byte read below the packet's size is a byte.
LEMMA ByteFacts ==
    ASSUME buffer \in Seq(Bytes), NEW o \in Nat, o < Size
    PROVE  Byte(o) \in Bytes /\ Byte(o) \in Nat /\ Size \in Nat
<1>1. Len(buffer) \in Nat /\ o + 1 \in 1..Len(buffer)
    BY LenProperties DEF Size
<1>2. buffer[o + 1] \in Bytes
    BY <1>1, ElementOfSeq
<1>3. Byte(o) \in Bytes
    BY <1>2 DEF Byte
<1>4. \A c \in Bytes : c \in Nat
    BY DEF Bytes
<1> QED
    BY <1>1, <1>3, <1>4 DEF Size

\* The characters of a label that lies inside the packet.
LEMMA LabelFacts ==
    ASSUME buffer \in Seq(Bytes), NEW o \in Nat, o < Size, o + 1 + Byte(o) <= Size
    PROVE  /\ LabelAt(o) \in Seq(Bytes)
           /\ Len(LabelAt(o)) = Byte(o)
           /\ \A i \in 1..Byte(o) : /\ o + 1 + i \in 1..Size
                                    /\ LabelAt(o)[i] = buffer[o + 1 + i]
<1>1. Byte(o) \in Nat /\ Size \in Nat
    BY ByteFacts
<1>2. PICK lo \in Int, hi \in Int : lo = o + 2 /\ hi = o + 1 + Byte(o)
    BY <1>1
<1>3. \A i \in lo..hi : buffer[i] \in Bytes
    BY <1>1, <1>2, ElementOfSeq DEF Size
<1>4. LabelAt(o) = SubSeq(buffer, lo, hi)
    BY <1>2 DEF LabelAt
<1>5. /\ SubSeq(buffer, lo, hi) \in Seq(Bytes)
      /\ Len(SubSeq(buffer, lo, hi)) = IF lo <= hi THEN hi - lo + 1 ELSE 0
      /\ \A i \in 1..(hi - lo + 1) : SubSeq(buffer, lo, hi)[i] = buffer[lo + i - 1]
    BY <1>3, SubSeqProperties
<1>6. hi - lo + 1 = Byte(o)
    BY <1>1, <1>2
<1>7. Len(LabelAt(o)) = Byte(o)
    BY <1>1, <1>2, <1>4, <1>5, <1>6
<1>8. ASSUME NEW i \in 1..Byte(o)
      PROVE  o + 1 + i \in 1..Size /\ LabelAt(o)[i] = buffer[o + 1 + i]
  <2>1. lo + i - 1 = o + 1 + i /\ o + 1 + i \in 1..Size
    BY <1>1, <1>2
  <2>2. LabelAt(o)[i] = buffer[lo + i - 1]
    BY <1>4, <1>5, <1>6
  <2> QED
    BY <2>1, <2>2
<1> QED
    BY <1>4, <1>5, <1>7, <1>8

\* One text behind another.
LEMMA ConcatFacts ==
    ASSUME NEW s \in Seq(Bytes), NEW t \in Seq(Bytes)
    PROVE  /\ s \o t \in Seq(Bytes) /\ Len(s \o t) = Len(s) + Len(t)
           /\ \A i \in 1..Len(s) : (s \o t)[i] = s[i]
           /\ \A i \in 1..Len(t) : (s \o t)[Len(s) + i] = t[i]
<1>1. Len(s) \in Nat /\ Len(t) \in Nat
    BY LenProperties
<1>2. /\ s \o t \in Seq(Bytes) /\ Len(s \o t) = Len(s) + Len(t)
      /\ \A i \in 1..(Len(s) + Len(t)) :
            (s \o t)[i] = IF i <= Len(s) THEN s[i] ELSE t[i - Len(s)]
    BY ConcatProperties
<1>3. \A i \in 1..Len(s) : (s \o t)[i] = s[i]
    BY <1>1, <1>2
<1>4. ASSUME NEW i \in 1..Len(t) PROVE (s \o t)[Len(s) + i] = t[i]
    <2>1. /\ Len(s) + i \in 1..(Len(s) + Len(t)) /\ ~(Len(s) + i <= Len(s))
          /\ Len(s) + i - Len(s) = i
        BY <1>1
    <2> QED
        BY <1>2, <2>1
<1> QED
    BY <1>2, <1>3, <1>4

LowerAll(label) == [i \in DOMAIN label |-> Lowered(label[i])]

\* Lowering a label keeps its length and lowers each byte (parser.cpp:81-87).
LEMMA LowerAllFacts ==
    ASSUME NEW label \in Seq(Bytes)
    PROVE  /\ LowerAll(label) \in Seq(Bytes)
           /\ Len(LowerAll(label)) = Len(label)
           /\ \A i \in 1..Len(label) : LowerAll(label)[i] = Lowered(label[i])
<1>1. DOMAIN label = 1..Len(label) /\ Len(label) \in Nat
    BY LenProperties
<1>2. \A i \in 1..Len(label) : Lowered(label[i]) \in Bytes
    BY ElementOfSeq, LoweredFacts
<1>3. LowerAll(label) \in [1..Len(label) -> Bytes]
    BY <1>1, <1>2 DEF LowerAll
<1>4. LowerAll(label) \in Seq(Bytes)
    BY <1>1, <1>3, SeqDef
<1>5. DOMAIN LowerAll(label) = 1..Len(LowerAll(label)) /\ Len(LowerAll(label)) \in Nat
    BY <1>4, LenProperties
<1>6. Len(LowerAll(label)) = Len(label)
    BY <1>1, <1>3, <1>5
<1> QED
    BY <1>1, <1>4, <1>6 DEF LowerAll

\* The name with one more label behind it (parser.cpp:77-91).
LEMMA ExtendedFacts ==
    ASSUME name \in Seq(Bytes), NEW label \in Seq(Bytes)
    PROVE  /\ Extended(label) \in Seq(Bytes)
           /\ name = <<>> => Extended(label) = LowerAll(label)
           /\ name # <<>> => Extended(label) = Append(name, Dot) \o LowerAll(label)
<1>1. Extended(label) = (IF name = <<>> THEN <<>> ELSE Append(name, Dot)) \o LowerAll(label)
    BY DEF Extended, LowerAll
<1>2. LowerAll(label) \in Seq(Bytes)
    BY LowerAllFacts
<1>3. Append(name, Dot) \in Seq(Bytes)
    BY DotFacts, AppendProperties
<1>4. Append(name, Dot) \o LowerAll(label) \in Seq(Bytes)
    BY <1>2, <1>3, ConcatProperties
<1>5. <<>> \o LowerAll(label) = LowerAll(label)
    BY <1>2, ConcatEmptySeq
<1> QED
    BY <1>1, <1>2, <1>4, <1>5

\* A text that could be a decoded name, without its length.
Normal(text) ==
    /\ \A i \in 1..Len(text) : Printable(text[i]) /\ Lowered(text[i]) = text[i]
    /\ text # <<>> /\ Dot \notin {buffer[i] : i \in 1..Size} =>
            text[1] # Dot /\ text[Len(text)] # Dot

\* A label of printable characters keeps a name normal.
LEMMA ExtendedNormal ==
    ASSUME buffer \in Seq(Bytes), name \in Seq(Bytes), Normal(name),
           NEW o \in Nat, o < Size, o + 1 + Byte(o) <= Size, Byte(o) # 0,
           \A i \in 1..Byte(o) : Printable(LabelAt(o)[i])
    PROVE  Normal(Extended(LabelAt(o)))
<1> DEFINE label == LabelAt(o)
           low == LowerAll(label)
           n == Byte(o)
           m == Len(name)
           new == Extended(label)
<1>1. /\ label \in Seq(Bytes) /\ Len(label) = n /\ n \in Nat /\ n # 0
      /\ \A i \in 1..n : o + 1 + i \in 1..Size /\ label[i] = buffer[o + 1 + i]
    BY LabelFacts, ByteFacts
<1>2. /\ low \in Seq(Bytes) /\ Len(low) = n
      /\ \A i \in 1..n : low[i] = Lowered(label[i])
    BY <1>1, LowerAllFacts
<1>3. ASSUME NEW i \in 1..n
      PROVE  /\ Printable(low[i]) /\ Lowered(low[i]) = low[i]
             /\ Dot \notin {buffer[j] : j \in 1..Size} => low[i] # Dot
  <2>1. label[i] \in Bytes
    BY <1>1, ElementOfSeq
  <2>2. Printable(label[i])
    OBVIOUS
  <2>3. Printable(low[i]) /\ Lowered(low[i]) = low[i] /\ (low[i] = Dot => label[i] = Dot)
    BY <1>2, <2>1, <2>2, LoweredFacts
  <2>4. label[i] \in {buffer[j] : j \in 1..Size}
    BY <1>1
  <2> QED
    BY <2>3, <2>4
<1>4. CASE name = <<>>
  <2>1. new = low
    BY <1>1, <1>4, ExtendedFacts
  <2>2. 1 \in 1..n /\ n \in 1..n
    BY <1>1
  <2> QED
    BY <1>2, <1>3, <2>1, <2>2 DEF Normal
<1>5. CASE name # <<>>
  <2> DEFINE pre == Append(name, Dot)
  <2>1. new = pre \o low
    BY <1>1, <1>5, ExtendedFacts
  <2>2. /\ pre \in Seq(Bytes) /\ Len(pre) = m + 1 /\ m \in Nat /\ m # 0
        /\ \A i \in 1..m : pre[i] = name[i]
        /\ pre[m + 1] = Dot
    BY <1>5, DotFacts, AppendProperties, LenProperties, EmptySeq
  <2> HIDE DEF pre, low, new, label, n, m
  <2>3. /\ Len(new) = m + 1 + n
        /\ \A i \in 1..(m + 1 + n) :
              new[i] = IF i <= m + 1 THEN pre[i] ELSE low[i - (m + 1)]
    <3>1. /\ Len(pre \o low) = Len(pre) + Len(low)
          /\ \A i \in 1..(Len(pre) + Len(low)) :
              (pre \o low)[i] = IF i <= Len(pre) THEN pre[i] ELSE low[i - Len(pre)]
        BY <1>2, <2>2, ConcatProperties
    <3> QED
        BY <1>2, <2>1, <2>2, <3>1
  <2>4. ASSUME NEW i \in 1..(m + 1 + n)
        PROVE  Printable(new[i]) /\ Lowered(new[i]) = new[i]
    <3>1. CASE i \in 1..m
        <4>1. new[i] = name[i]
            BY <1>1, <2>2, <2>3, <3>1
        <4> QED
            BY <3>1, <4>1 DEF Normal, m
    <3>2. CASE i = m + 1
        BY <1>1, <2>2, <2>3, <3>2, DotFacts
    <3>3. CASE i > m + 1
        <4>1. i - (m + 1) \in 1..n /\ new[i] = low[i - (m + 1)]
            BY <1>1, <2>2, <2>3, <3>3
        <4> QED
            BY <1>3, <4>1
    <3> QED
        BY <1>1, <2>2, <3>1, <3>2, <3>3
  <2>5. new[1] = name[1] /\ new[Len(new)] = low[n] /\ n \in 1..n
    <3>1. 1 \in 1..(m + 1 + n) /\ 1 <= m + 1 /\ 1 \in 1..m
        BY <1>1, <2>2
    <3>2. m + 1 + n \in 1..(m + 1 + n) /\ ~(m + 1 + n <= m + 1) /\ m + 1 + n - (m + 1) = n
        BY <1>1, <2>2
    <3> QED
        BY <1>1, <2>2, <2>3, <3>1, <3>2
  <2>6. Dot \notin {buffer[i] : i \in 1..Size} => new[1] # Dot /\ new[Len(new)] # Dot
    BY <1>3, <1>5, <2>5 DEF Normal
  <2>7. Normal(new)
    BY <2>3, <2>4, <2>6 DEF Normal
  <2> QED
    BY <2>7 DEF new, label
<1> QED
    BY <1>4, <1>5

-----------------------------------------------------------------------------
(* Where a name ends in place.                                             *)

\* The equations have a solution, each value from one further on.
LEMMA EndAtFacts ==
    ASSUME buffer \in Seq(Bytes)
    PROVE  \A o \in 0..Size : EndAt[o] = EndBody(EndAt, o)
<1> DEFINE Solves(f, a) == f = [o \in a..Size |-> EndBody(f, o)]
           S == {n \in Nat : n <= Size => \E f : Solves(f, Size - n)}
<1>1. Size \in Nat
    BY LenProperties DEF Size
<1>2. 0 \in S
  <2> DEFINE f == [o \in Size..Size |-> -1]
  <2>1. \A o \in Size..Size : o = Size
    BY <1>1
  <2>2. \A o \in Size..Size : EndBody(f, o) = -1
    BY <2>1 DEF EndBody
  <2>3. Solves(f, Size)
    <3>1. [o \in Size..Size |-> EndBody(f, o)] = [o \in Size..Size |-> -1]
        BY <2>2
    <3> QED
        BY <3>1
  <2>4. Size - 0 = Size
    BY <1>1
  <2> HIDE DEF Solves, f
  <2> QED
    BY <2>3, <2>4
<1>3. ASSUME NEW n \in S PROVE n + 1 \in S
  <2> SUFFICES ASSUME n + 1 <= Size PROVE \E f : Solves(f, Size - (n + 1))
    OBVIOUS
  <2> DEFINE a == Size - (n + 1)
  <2>1. n \in Nat /\ a \in Nat /\ a < Size /\ Size - n = a + 1
    BY <1>1
  <2>2. PICK f : Solves(f, a + 1)
    BY <1>1, <2>1
  <2> DEFINE g == [o \in a..Size |-> IF o = a THEN EndBody(f, a) ELSE f[o]]
  <2>3. \A o \in (a + 1)..Size : o \in a..Size /\ o # a /\ g[o] = f[o]
    BY <1>1, <2>1
  <2>4. \A o \in a..Size : o \in Nat /\ (o = Size \/ o < Size)
    BY <1>1, <2>1
  <2>5. ASSUME NEW o \in a..Size PROVE EndBody(g, o) = EndBody(f, o)
    <3>1. CASE o = Size
        BY <3>1 DEF EndBody
    <3>2. CASE o < Size
        <4>1. Byte(o) \in Nat
            BY <2>4, <3>2, ByteFacts
        <4>2. o + 1 + Byte(o) <= Size => o + 1 + Byte(o) \in (a + 1)..Size
            BY <1>1, <2>1, <4>1
        <4>3. o + 1 + Byte(o) <= Size => g[o + 1 + Byte(o)] = f[o + 1 + Byte(o)]
            BY <2>3, <4>2
        <4> HIDE DEF g
        <4> QED
            BY <4>3 DEF EndBody
    <3> QED
        BY <2>4, <3>1, <3>2
  <2>6. ASSUME NEW o \in a..Size PROVE g[o] = EndBody(g, o)
    <3>1. CASE o = a
        BY <2>5, <3>1
    <3>2. CASE o # a
        <4>1. o \in (a + 1)..Size
            BY <1>1, <2>1, <3>2
        <4> QED
            BY <2>2, <2>3, <2>5, <4>1
    <3> QED
        BY <3>1, <3>2
  <2>7. g = [o \in a..Size |-> g[o]]
    OBVIOUS
  <2>8. Solves(g, a)
    BY <2>6, <2>7
  <2> HIDE DEF Solves, g
  <2> QED
    BY <2>8
<1>4. S = Nat
    BY <1>2, <1>3, SetInduction
<1>5. PICK f : Solves(f, 0)
  <2>1. \A n \in S : n <= Size => \E f : Solves(f, Size - n)
    OBVIOUS
  <2> HIDE DEF Solves, S
  <2>2. \E f : Solves(f, Size - Size)
    BY <1>1, <1>4, <2>1
  <2>3. Size - Size = 0
    BY <1>1
  <2> QED
    BY <2>2, <2>3
<1>6. f = [o \in 0..Size |-> EndBody(f, o)]
    BY <1>5
<1>7. EndAt = [o \in 0..Size |-> EndBody(EndAt, o)]
    BY <1>6 DEF EndAt
<1> QED
    BY <1>7

\* EndInPlace is the solution at the beginning of the name.
LEMMA EndInPlaceIs == EndInPlace = EndAt[HeaderSize]
BY DEF EndInPlace, EndAt, EndBody

\* From a label the name ends where it ends from the next one.
LEMMA EndSteps ==
    ASSUME buffer \in Seq(Bytes), NEW o \in Nat, o < Size
    PROVE  /\ Byte(o) = 0 => EndAt[o] = o + 1
           /\ IsPointer(Byte(o)) => EndAt[o] = o + 2
           /\ Byte(o) # 0 /\ ~IsPointer(Byte(o)) /\ o + 1 + Byte(o) <= Size =>
                    EndAt[o] = EndAt[o + 1 + Byte(o)]
<1>1. Size \in Nat /\ o \in 0..Size /\ o # Size
    BY ByteFacts
<1>2. EndAt[o] = EndBody(EndAt, o)
    BY <1>1, EndAtFacts
<1>3. IsPointer(Byte(o)) => Byte(o) # 0
    BY DEF IsPointer
<1> QED
    BY <1>1, <1>2, <1>3 DEF EndBody

-----------------------------------------------------------------------------
(* The inductive invariant.                                                *)

Types == TypeOK /\ section \in {"question", "answer"}

\* Only the question is read from a header on and to the end.
Stages ==
    /\ AtHeader => Asking /\ bytes_consumed = 0 /\ ~jumped /\ name = <<>>
    /\ ~Asking => ~AtHeader /\ ~IsParsed
    /\ Active => HeaderSize < Size

\* Before the first pointer the decoder stands behind the bytes consumed,
\* from where the name ends as from its beginning; from then on the bytes
\* consumed lead to that end.
Position ==
    Asking /\ Active =>
        /\ InName /\ ~jumped =>
              /\ curr_offset = HeaderSize + bytes_consumed /\ curr_offset <= Size
              /\ EndAt[curr_offset] = EndAt[HeaderSize]
        /\ ~InName \/ jumped => HeaderSize + bytes_consumed = EndAt[HeaderSize]

Fits == IsParsed => HeaderSize + bytes_consumed + TailSize <= Size

NormalName == Len(name) <= MaxName /\ Normal(name)

Inv == Types /\ Stages /\ Position /\ Fits /\ NormalName

\* The steps below are about the stages, not about their names.
LEMMA StatusFacts ==
    /\ AtHeader => ~InName /\ ~IsParsed /\ ~Active
    /\ InName => Active /\ ~IsParsed
    /\ IsParsed => Active
    /\ status = "question" => Active /\ ~InName /\ ~AtHeader /\ ~IsParsed
    /\ status \in Errors => ~AtHeader /\ ~InName /\ ~IsParsed /\ ~Active
BY DEF AtHeader, InName, IsParsed, Active, Errors

\* What depends on the packet alone changes with it only.
LEMMA SameBuffer ==
    ASSUME buffer' = buffer
    PROVE  /\ Size' = Size /\ EndAt' = EndAt
           /\ \A o : Byte(o)' = Byte(o)
           /\ \A text : Normal(text)' <=> Normal(text)
<1>1. Size' = Size /\ \A o : Byte(o)' = Byte(o)
    BY DEF Size, Byte
<1>2. EndAt' = EndAt
    BY DEF EndAt, EndBody, Size, Byte
<1>3. \A text : Normal(text)' <=> Normal(text)
    BY DEF Normal, Size
<1> QED
    BY <1>1, <1>2, <1>3

\* What the checks of a step have established (parser.cpp:103-120, 33-52,
\* 63-91).
LEMMA HeaderGood ==
    ASSUME HeaderError = "none"
    PROVE  /\ ~(Size < HeaderSize) /\ ~(Size > MaxPacket) /\ OpcodeOf = 0
           /\ QdCount = 1 /\ ~(HeaderSize >= Size)
BY DEF HeaderError

\* What holds when the checks on a pointer pass (parser.cpp:33-52).
LEMMA PointerGood ==
    ASSUME PointerError = "none"
    PROVE  /\ ~(curr_offset + 1 >= Size) /\ ~(depth + 1 > MaxDepth)
           /\ ~(Target(curr_offset) >= Size)
           /\ ~(Target(curr_offset) >= curr_offset /\ ~jumped)
BY DEF PointerError

\* What holds when the checks on a label pass.
LEMMA LabelGood ==
    ASSUME LabelError = "none"
    PROVE  /\ ~IsReserved(Byte(curr_offset))
           /\ ~(curr_offset + 1 + Byte(curr_offset) > Size)
           /\ \A i \in 1..Byte(curr_offset) : Printable(LabelAt(curr_offset)[i])
           /\ ~(Len(Extended(LabelAt(curr_offset))) > MaxName)
BY DEF LabelError

\* Every check reports one of the errors.
LEMMA ErrorsAreErrors ==
    /\ HeaderError # "none" => HeaderError \in Errors
    /\ PointerError # "none" => PointerError \in Errors
    /\ LabelError # "none" => LabelError \in Errors
    /\ "POINTER_OUT_OF_BOUNDS" \in Errors /\ "MALFORMED_QUESTION" \in Errors
BY DEF HeaderError, PointerError, LabelError, Errors

-----------------------------------------------------------------------------
(* The steps.                                                              *)

\* The types the invariant gives.
LEMMA TypeFacts ==
    ASSUME Inv
    PROVE  /\ buffer \in Seq(Bytes) /\ name \in Seq(Bytes)
           /\ Size \in Nat /\ curr_offset \in Nat /\ bytes_consumed \in Nat
           /\ depth \in 0..MaxDepth /\ MaxDepth \in Nat /\ jumped \in BOOLEAN
BY LenProperties, ParserAssumption DEF Inv, Types, TypeOK, Bytes, Size

\* A failed check stops the parser where it is.
LEMMA FailKeeps ==
    ASSUME Inv, NEW error \in Errors, Fail(error), UNCHANGED <<query, section>>
    PROVE  Inv'
<1>1. /\ UNCHANGED <<buffer, curr_offset, jumped, depth, bytes_consumed, name, section>>
      /\ status' \in Errors
    BY DEF Fail
<1>2. ~AtHeader' /\ ~InName' /\ ~IsParsed' /\ ~Active'
    <2>1. (status \in Errors => ~AtHeader /\ ~InName /\ ~IsParsed /\ ~Active)'
        BY StatusFacts, PTL
    <2> QED
        BY <1>1, <2>1 DEF Errors
<1>3. Types'
    BY <1>1 DEF Inv, Types, TypeOK
<1>4. Stages' /\ Position' /\ Fits'
    BY <1>2 DEF Stages, Position, Fits
<1>5. NormalName'
    BY <1>1, SameBuffer DEF Inv, NormalName, Normal
<1> QED
    BY <1>3, <1>4, <1>5 DEF Inv

\* Behind the header the decoder starts with an empty name.
LEMMA ParseHeaderKeeps ==
    ASSUME Inv, ParseHeader, UNCHANGED <<query, section>>
    PROVE  Inv'
<1>1. /\ AtHeader /\ HeaderError = "none" /\ status' = "decoding"
      /\ curr_offset' = HeaderSize
      /\ UNCHANGED <<buffer, jumped, depth, bytes_consumed, name, section>>
    BY DEF ParseHeader, AtHeader
<1>2. InName' /\ Active' /\ ~AtHeader' /\ ~IsParsed'
    BY <1>1 DEF InName, Active, AtHeader, IsParsed
<1>3. Types'
    BY <1>1 DEF Inv, Types, TypeOK, HeaderSize
<1>4. /\ Asking /\ bytes_consumed = 0 /\ ~jumped /\ Asking'
      /\ Asking' <=> Asking
    BY <1>1 DEF Inv, Stages, Asking
<1>5. HeaderSize < Size /\ Size' = Size /\ EndAt' = EndAt
    <2>1. ~(HeaderSize >= Size)
        BY <1>1, HeaderGood
    <2>2. HeaderSize < Size
        BY <2>1, TypeFacts DEF HeaderSize
    <2> QED
        BY <1>1, <2>2, SameBuffer
<1>6. Stages'
    BY <1>2, <1>4, <1>5 DEF Stages
<1>7. Position'
    <2>1. /\ curr_offset' = HeaderSize + bytes_consumed'
          /\ curr_offset' <= Size'
          /\ EndAt'[curr_offset'] = EndAt'[HeaderSize]
        BY <1>1, <1>4, <1>5, TypeFacts DEF HeaderSize
    <2>2. InName' /\ ~jumped'
        BY <1>1, <1>2, <1>4
    <2> QED
        BY <2>1, <2>2 DEF Position
<1>8. Fits'
    BY <1>2 DEF Fits
<1>9. NormalName'
    BY <1>1, SameBuffer DEF Inv, NormalName, Normal
<1> QED
    BY <1>3, <1>6, <1>7, <1>8, <1>9 DEF Inv

\* The zero byte ends the name and, if no pointer was followed, its bytes.
LEMMA EndOfNameKeeps ==
    ASSUME Inv, EndOfName, UNCHANGED <<query, section>>
    PROVE  Inv'
<1>1. /\ InName /\ curr_offset < Size /\ Byte(curr_offset) = 0
      /\ status' = "question"
      /\ bytes_consumed' = IF jumped THEN bytes_consumed ELSE bytes_consumed + 1
      /\ UNCHANGED <<buffer, curr_offset, jumped, depth, name, section>>
    BY DEF EndOfName, Decoding, InName
<1>2. Active /\ ~AtHeader' /\ ~InName' /\ ~IsParsed' /\ Active'
    BY <1>1, StatusFacts DEF InName, Active, AtHeader, IsParsed
<1>3. Types'
    BY <1>1 DEF Inv, Types, TypeOK
<1>4. Size' = Size /\ EndAt' = EndAt /\ (Asking' <=> Asking)
    BY <1>1, SameBuffer DEF Asking
<1>5. Stages'
    BY <1>2, <1>4 DEF Inv, Stages
<1>6. Position'
    <2> SUFFICES ASSUME Asking
                 PROVE  HeaderSize + bytes_consumed' = EndAt[HeaderSize]
        BY <1>2, <1>4 DEF Position
    <2>1. CASE jumped
        BY <1>1, <1>2, <2>1 DEF Inv, Position
    <2>2. CASE ~jumped
        <3>1. EndAt[curr_offset] = curr_offset + 1
            BY <1>1, TypeFacts, EndSteps
        <3>2. curr_offset = HeaderSize + bytes_consumed /\ EndAt[curr_offset] = EndAt[HeaderSize]
            BY <1>1, <1>2, <2>2 DEF Inv, Position
        <3>3. bytes_consumed' = bytes_consumed + 1
            BY <1>1, <2>2
        <3> QED
            BY <3>1, <3>2, <3>3, TypeFacts DEF HeaderSize
    <2> QED
        BY <2>1, <2>2
<1>7. Fits'
    BY <1>2 DEF Fits
<1>8. NormalName'
    BY <1>1, SameBuffer DEF Inv, NormalName, Normal
<1> QED
    BY <1>3, <1>5, <1>6, <1>7, <1>8 DEF Inv

\* A pointer leads inside the packet.
LEMMA TargetFacts ==
    ASSUME Inv, AtPointer, PointerError = "none"
    PROVE  Target(curr_offset) \in Nat /\ Target(curr_offset) < Size
<1>1. curr_offset < Size /\ IsPointer(Byte(curr_offset))
    BY DEF AtPointer, Decoding
<1>2. ~(curr_offset + 1 >= Size) /\ ~(Target(curr_offset) >= Size)
    BY PointerGood
<1>3. curr_offset + 1 \in Nat /\ curr_offset + 1 < Size /\ Size \in Nat
    BY <1>2, TypeFacts
<1>4. Byte(curr_offset) \in Nat /\ Byte(curr_offset + 1) \in Nat
    BY <1>1, <1>3, TypeFacts, ByteFacts
<1>5. Target(curr_offset) \in Nat
    BY <1>1, <1>4 DEF Target, IsPointer
<1> QED
    BY <1>2, <1>3, <1>5

\* A pointer moves the decoder; only the first one is counted as consumed.
LEMMA FollowPointerKeeps ==
    ASSUME Inv, FollowPointer, UNCHANGED <<query, section>>
    PROVE  Inv'
<1>1. /\ InName /\ curr_offset < Size /\ IsPointer(Byte(curr_offset))
      /\ PointerError = "none" /\ depth' = depth + 1
      /\ bytes_consumed' = IF jumped THEN bytes_consumed ELSE bytes_consumed + 2
      /\ jumped' = TRUE /\ curr_offset' = Target(curr_offset)
      /\ UNCHANGED <<buffer, status, name, section>>
    BY DEF FollowPointer, AtPointer, Decoding, InName
<1>2. /\ Active /\ ~AtHeader /\ ~IsParsed
      /\ UNCHANGED <<Active, AtHeader, IsParsed, InName, Asking>>
    BY <1>1, StatusFacts DEF InName, Active, AtHeader, IsParsed, Asking
<1>3. Types'
    <2>1. ~(depth + 1 > MaxDepth)
        BY <1>1, PointerGood
    <2>2. depth' \in 0..MaxDepth /\ bytes_consumed' \in Nat
        BY <1>1, <2>1, TypeFacts
    <2>3. curr_offset' \in Nat
        BY <1>1, TargetFacts DEF FollowPointer
    <2> QED
        BY <1>1, <2>2, <2>3 DEF Inv, Types, TypeOK
<1>4. Size' = Size /\ EndAt' = EndAt
    BY <1>1, SameBuffer
<1>5. Stages'
    BY <1>2, <1>4 DEF Inv, Stages
<1>6. Position'
    <2> SUFFICES ASSUME Asking
                 PROVE  HeaderSize + bytes_consumed' = EndAt[HeaderSize]
        BY <1>1, <1>2, <1>4 DEF Position
    <2>1. CASE jumped
        BY <1>1, <1>2, <2>1 DEF Inv, Position
    <2>2. CASE ~jumped
        <3>1. EndAt[curr_offset] = curr_offset + 2
            BY <1>1, TypeFacts, EndSteps
        <3>2. curr_offset = HeaderSize + bytes_consumed /\ EndAt[curr_offset] = EndAt[HeaderSize]
            BY <1>1, <1>2, <2>2 DEF Inv, Position
        <3>3. bytes_consumed' = bytes_consumed + 2
            BY <1>1, <2>2
        <3> QED
            BY <3>1, <3>2, <3>3, TypeFacts DEF HeaderSize
    <2> QED
        BY <2>1, <2>2
<1>7. Fits'
    BY <1>2 DEF Fits
<1>8. NormalName'
    BY <1>1, SameBuffer DEF Inv, NormalName, Normal
<1> QED
    BY <1>3, <1>5, <1>6, <1>7, <1>8 DEF Inv

\* A label is appended to the name if the name stays short enough.
LEMMA TakeLabelKeeps ==
    ASSUME Inv, TakeLabel, UNCHANGED <<query, section>>
    PROVE  Inv'
<1> DEFINE o == curr_offset
<1>1. /\ InName /\ o < Size /\ Byte(o) # 0 /\ ~IsPointer(Byte(o))
      /\ LabelError = "none" /\ name' = Extended(LabelAt(o))
      /\ curr_offset' = o + 1 + Byte(o)
      /\ bytes_consumed' = IF jumped THEN bytes_consumed
                           ELSE bytes_consumed + 1 + Byte(o)
      /\ UNCHANGED <<buffer, status, jumped, depth, section>>
    BY DEF TakeLabel, AtLabel, Decoding, InName
<1>2. /\ Active /\ ~AtHeader /\ ~IsParsed
      /\ UNCHANGED <<Active, AtHeader, IsParsed, InName, Asking>>
    BY <1>1, StatusFacts DEF InName, Active, AtHeader, IsParsed, Asking
<1>3. /\ ~(o + 1 + Byte(o) > Size)
      /\ \A i \in 1..Byte(o) : Printable(LabelAt(o)[i])
      /\ ~(Len(Extended(LabelAt(o))) > MaxName)
    BY <1>1, LabelGood
<1>4. /\ Byte(o) \in Nat /\ o \in Nat /\ Size \in Nat /\ buffer \in Seq(Bytes)
      /\ name \in Seq(Bytes) /\ bytes_consumed \in Nat
    BY <1>1, TypeFacts, ByteFacts
<1>5. o + 1 + Byte(o) <= Size
    BY <1>3, <1>4
<1>6. LabelAt(o) \in Seq(Bytes)
    BY <1>1, <1>4, <1>5, LabelFacts
<1>7. Extended(LabelAt(o)) \in Seq(Bytes)
    BY <1>4, <1>6, ExtendedFacts
<1>8. Types'
    <2>1. curr_offset' \in Nat /\ bytes_consumed' \in Nat
        BY <1>1, <1>4
    <2> QED
        BY <1>1, <1>7, <2>1 DEF Inv, Types, TypeOK, Bytes
<1>9. Size' = Size /\ EndAt' = EndAt /\ \A text : Normal(text)' <=> Normal(text)
    BY <1>1, SameBuffer
<1>10. Stages'
    BY <1>2, <1>9 DEF Inv, Stages
<1>11. Position'
    <2>1. ASSUME Asking, ~jumped
          PROVE  /\ curr_offset' = HeaderSize + bytes_consumed'
                 /\ curr_offset' <= Size
                 /\ EndAt[curr_offset'] = EndAt[HeaderSize]
        <3>1. EndAt[o] = EndAt[o + 1 + Byte(o)]
            BY <1>1, <1>4, <1>5, EndSteps
        <3>2. o = HeaderSize + bytes_consumed /\ EndAt[o] = EndAt[HeaderSize]
            BY <1>1, <1>2, <2>1 DEF Inv, Position
        <3>3. bytes_consumed' = bytes_consumed + 1 + Byte(o)
            BY <1>1, <2>1
        <3>4. curr_offset' = HeaderSize + bytes_consumed'
            BY <1>1, <1>4, <3>2, <3>3 DEF HeaderSize
        <3> QED
            BY <1>1, <1>5, <3>1, <3>2, <3>4
    <2>2. ASSUME Asking, jumped
          PROVE  HeaderSize + bytes_consumed' = EndAt[HeaderSize]
        BY <1>1, <1>2, <2>2 DEF Inv, Position
    <2> QED
        BY <1>1, <1>2, <1>9, <2>1, <2>2 DEF Position
<1>12. Fits'
    BY <1>2 DEF Fits
<1>13. NormalName'
    <2>1. Normal(Extended(LabelAt(o)))
        BY <1>1, <1>3, <1>4, <1>5, ExtendedNormal DEF Inv, NormalName
    <2>2. Len(Extended(LabelAt(o))) <= MaxName
        BY <1>3, <1>7, LenProperties, ParserAssumption
    <2>3. Normal(Extended(LabelAt(o))) = Normal(name)'
        BY <1>1 DEF Normal, Size
    <2> QED
        BY <1>1, <2>1, <2>2, <2>3 DEF NormalName
<1> QED
    BY <1>8, <1>10, <1>11, <1>12, <1>13 DEF Inv

\* Type and class stand in the packet behind the consumed bytes.
LEMMA ParseQuestionKeeps ==
    ASSUME Inv, Asking, ParseQuestion, UNCHANGED <<query, section>>
    PROVE  Inv'
<1> DEFINE end == HeaderSize + bytes_consumed + TailSize
<1>1. status = "question" /\ Active /\ ~InName
    BY StatusFacts DEF ParseQuestion
<1>2. CASE end > Size
    <2>1. Fail("MALFORMED_QUESTION")
        BY <1>2 DEF ParseQuestion
    <2> QED
        BY <2>1, ErrorsAreErrors, FailKeeps
<1>3. CASE ~(end > Size)
    <2>1. /\ status' = "parsed"
          /\ UNCHANGED <<buffer, curr_offset, jumped, depth, bytes_consumed, name, section>>
        BY <1>3 DEF ParseQuestion, Fail
    <2>2. Active' /\ ~InName' /\ ~AtHeader' /\ IsParsed' /\ Asking'
        BY <2>1 DEF Active, InName, AtHeader, IsParsed, Asking
    <2>3. Size' = Size /\ EndAt' = EndAt
        BY <2>1, SameBuffer
    <2>4. Types'
        BY <2>1 DEF Inv, Types, TypeOK
    <2>5. Stages'
        BY <1>1, <2>2, <2>3 DEF Inv, Stages
    <2>6. Position'
        BY <1>1, <2>1, <2>2, <2>3 DEF Inv, Position
    <2>7. Fits'
        BY <1>3, <2>1, <2>3, TypeFacts DEF Fits, HeaderSize, TailSize
    <2>8. NormalName'
        BY <2>1, SameBuffer DEF Inv, NormalName, Normal
    <2> QED
        BY <2>4, <2>5, <2>6, <2>7, <2>8 DEF Inv
<1> QED
    BY <1>2, <1>3

\* The name a decoder starts with.
LEMMA EmptyNameIsNormal == MaxName \in Nat /\ Len(<<>>) = 0 /\ Normal(<<>>)
<1>1. Len(<<>>) = 0 /\ 1..0 = {}
    BY EmptySeq
<1> QED
    BY <1>1, ParserAssumption DEF Normal

\* A decoder started afresh, on the reply or on its answer record.
LEMMA ReplyKeeps ==
    ASSUME Inv, NEW packet \in Seq(Bytes), Reply(packet)
    PROVE  Inv'
<1>1. /\ IsParsed /\ buffer' = packet /\ status' = "header"
      /\ curr_offset' = 0 /\ depth' = 0 /\ bytes_consumed' = 0
      /\ jumped' = FALSE /\ name' = <<>> /\ section' = section
    BY DEF Reply, IsParsed
<1>2. ~Active' /\ ~InName' /\ AtHeader' /\ ~IsParsed' /\ (Asking' <=> Asking)
    BY <1>1 DEF Active, InName, AtHeader, IsParsed, Asking
<1>3. Types'
    <2>1. <<>> \in Seq(0..255) /\ 0 \in 0..MaxDepth
        BY ParserAssumption
    <2> QED
        BY <1>1, <2>1 DEF Inv, Types, TypeOK, Bytes
<1>4. Asking
    BY <1>1 DEF Inv, Stages
<1>5. Stages' /\ Position' /\ Fits'
    BY <1>1, <1>2, <1>4 DEF Stages, Position, Fits
<1>6. NormalName'
    <2>1. (Normal(<<>>))'
        BY EmptyNameIsNormal, PTL
    <2> QED
        BY <1>1, <2>1, EmptyNameIsNormal DEF NormalName, Normal
<1> QED
    BY <1>3, <1>5, <1>6 DEF Inv

\* The decoder goes on behind the question, at the answer's owner.
LEMMA ReadAnswerKeeps ==
    ASSUME Inv, ReadAnswer
    PROVE  Inv'
<1>1. /\ IsParsed /\ section' = "answer" /\ status' = "decoding"
      /\ curr_offset' = HeaderSize + bytes_consumed + TailSize
      /\ depth' = 0 /\ bytes_consumed' = 0
      /\ jumped' = FALSE /\ name' = <<>> /\ buffer' = buffer
    BY DEF ReadAnswer, IsParsed
<1>2. Active' /\ InName' /\ ~AtHeader' /\ ~IsParsed' /\ ~Asking' /\ Active
    BY <1>1, StatusFacts DEF Active, InName, AtHeader, IsParsed, Asking
<1>3. Types'
    <2>1. <<>> \in Seq(0..255) /\ 0 \in 0..MaxDepth
        BY ParserAssumption
    <2>2. curr_offset' \in Nat
        BY <1>1, TypeFacts DEF HeaderSize, TailSize
    <2> QED
        BY <1>1, <2>1, <2>2 DEF Inv, Types, TypeOK
<1>4. Stages' /\ Position' /\ Fits'
    BY <1>1, <1>2, SameBuffer DEF Inv, Stages, Position, Fits
<1>5. NormalName'
    BY <1>1, SameBuffer, EmptyNameIsNormal DEF NormalName, Normal
<1> QED
    BY <1>3, <1>4, <1>5 DEF Inv

-----------------------------------------------------------------------------
(* The replies.                                                            *)

\* The places of what a reply is made of: the header, the question as it
\* stands in the query, and the answer record (response.cpp:7-90).
ReplyTo(high, rcode, answers, rest) ==
    HeaderOf(high, rcode, answers) \o Question \o rest

Flags(high) == high \in {129, 133}

\* A reply's header: the id of the query, its own flags, one question.
LEMMA HeaderOfFacts ==
    ASSUME Inv, IsParsed, NEW high, Flags(high), NEW rcode \in 0..15, NEW answers \in 0..1
    PROVE  LET h == HeaderOf(high, rcode, answers) IN
           /\ h \in Seq(Bytes) /\ Len(h) = HeaderSize
           /\ h[1] = buffer[1] /\ h[2] = buffer[2] /\ h[3] = high
           /\ h[5] = 0 /\ h[6] = 1 /\ h[7] = 0 /\ h[8] = answers
<1> DEFINE id == SubSeq(buffer, 1, 2)
           flags == <<WithRd(high), 128 + rcode>>
           counts == <<0, 1, 0, answers, 0, 0, 0, 0>>
<1>1. high \in Nat /\ WithRd(high) = high /\ high \in Bytes
    <2>1. 129 % 2 = 1 /\ 133 % 2 = 1
        OBVIOUS
    <2> QED
        BY <2>1 DEF Flags, WithRd, Bytes
<1>2. buffer[1] \in Bytes /\ buffer[2] \in Bytes
    <2>1. HeaderSize < Size /\ Size \in Nat
        BY StatusFacts, TypeFacts DEF Inv, Stages
    <2>2. 1 \in 1..Len(buffer) /\ 2 \in 1..Len(buffer)
        BY <2>1 DEF Size, HeaderSize
    <2> QED
        BY <2>2, TypeFacts, ElementOfSeq
<1>3. id \in Seq(Bytes) /\ Len(id) = 2 /\ id[1] = buffer[1] /\ id[2] = buffer[2]
    <2>1. \A i \in 1..2 : i = 1 \/ i = 2
        OBVIOUS
    <2>2. \A i \in 1..2 : buffer[i] \in Bytes
        BY <1>2, <2>1
    <2>3. /\ id \in Seq(Bytes) /\ Len(id) = IF 1 <= 2 THEN 2 - 1 + 1 ELSE 0
          /\ \A i \in 1..(2 - 1 + 1) : id[i] = buffer[1 + i - 1]
        BY <2>2, SubSeqProperties
    <2> QED
        BY <2>3
<1>4. /\ flags \in Seq(Bytes) /\ Len(flags) = 2
      /\ flags[1] = high /\ flags[2] = 128 + rcode
    <2>1. 128 + rcode \in Bytes
        BY DEF Bytes
    <2> QED
        BY <1>1, <2>1
<1>5. /\ counts \in Seq(Bytes) /\ Len(counts) = 8
      /\ counts[1] = 0 /\ counts[2] = 1 /\ counts[3] = 0 /\ counts[4] = answers
    <2>1. answers \in Bytes /\ 0 \in Bytes /\ 1 \in Bytes
        BY DEF Bytes
    <2> QED
        BY <2>1
<1>6. HeaderOf(high, rcode, answers) = (id \o flags) \o counts
    BY DEF HeaderOf
<1> HIDE DEF id, flags, counts
<1> DEFINE front == id \o flags
           h == front \o counts
<1>7. /\ front \in Seq(Bytes) /\ Len(front) = 4
      /\ front[1] = buffer[1] /\ front[2] = buffer[2] /\ front[3] = high
    <2>1. /\ front \in Seq(Bytes) /\ Len(front) = Len(id) + Len(flags)
          /\ \A i \in 1..Len(id) : front[i] = id[i]
          /\ \A i \in 1..Len(flags) : front[Len(id) + i] = flags[i]
        BY <1>3, <1>4, ConcatFacts
    <2> HIDE DEF front
    <2>2. front[2 + 1] = flags[1] /\ front[1] = id[1] /\ front[2] = id[2]
        BY <1>3, <1>4, <2>1
    <2>3. Len(front) = 4 /\ front[3] = flags[1]
        BY <1>3, <1>4, <2>1, <2>2
    <2> QED
        BY <1>3, <1>4, <2>1, <2>2, <2>3
<1> HIDE DEF front
<1>8. /\ h \in Seq(Bytes) /\ Len(h) = 12
      /\ h[1] = front[1] /\ h[2] = front[2] /\ h[3] = front[3]
      /\ h[5] = 0 /\ h[6] = 1 /\ h[7] = 0 /\ h[8] = answers
    <2>1. /\ h \in Seq(Bytes) /\ Len(h) = Len(front) + Len(counts)
          /\ \A i \in 1..Len(front) : h[i] = front[i]
          /\ \A i \in 1..Len(counts) : h[Len(front) + i] = counts[i]
        BY <1>5, <1>7, ConcatFacts
    <2> HIDE DEF h
    <2>2. h[1] = front[1] /\ h[2] = front[2] /\ h[3] = front[3]
        BY <1>7, <2>1
    <2>3. \A i \in 1..8 : h[4 + i] = counts[i]
        BY <1>5, <1>7, <2>1
    <2>4. h[4 + 1] = 0 /\ h[4 + 2] = 1 /\ h[4 + 3] = 0 /\ h[4 + 4] = answers
        BY <1>5, <2>3
    <2>5. h[5] = 0 /\ h[6] = 1 /\ h[7] = 0 /\ h[8] = answers
        BY <2>4
    <2>6. Len(h) = 12
        BY <1>5, <1>7, <2>1
    <2> QED
        BY <2>1, <2>2, <2>5, <2>6
<1>9. h = HeaderOf(high, rcode, answers)
    BY <1>6 DEF front
<1> QED
    BY <1>7, <1>8, <1>9 DEF HeaderSize

\* The copied question is byte for byte the one in the query (response.cpp).
LEMMA QuestionFacts ==
    ASSUME Inv, IsParsed
    PROVE  /\ Question \in Seq(Bytes)
           /\ Len(Question) = bytes_consumed + TailSize
           /\ \A i \in 1..(bytes_consumed + TailSize) : Question[i] = buffer[HeaderSize + i]
<1> DEFINE hi == HeaderSize + bytes_consumed + TailSize
<1>1. hi \in Nat /\ hi <= Size /\ Size = Len(buffer) /\ bytes_consumed \in Nat
    BY TypeFacts DEF Inv, Fits, HeaderSize, TailSize, Size
<1>2. \A i \in 13..hi : buffer[i] \in Bytes
    BY <1>1, TypeFacts, ElementOfSeq
<1>3. Question = SubSeq(buffer, 13, hi) /\ hi = bytes_consumed + 16
    BY <1>1 DEF Question, HeaderSize, TailSize
<1> HIDE DEF hi
<1>4. /\ Question \in Seq(Bytes)
      /\ Len(Question) = IF 13 <= hi THEN hi - 13 + 1 ELSE 0
      /\ \A i \in 1..(hi - 13 + 1) : Question[i] = buffer[13 + i - 1]
    BY <1>1, <1>2, <1>3, SubSeqProperties
<1>5. Len(Question) = bytes_consumed + 4
    BY <1>1, <1>3, <1>4
<1>6. \A i \in 1..(bytes_consumed + 4) : Question[i] = buffer[12 + i]
    BY <1>1, <1>3, <1>4
<1> QED
    BY <1>4, <1>5, <1>6 DEF HeaderSize, TailSize

\* The answer record begins with a pointer to offset 12.
LEMMA RecordFacts ==
    /\ AnswerRecord \in Seq(Bytes) /\ Len(AnswerRecord) = 16
    /\ AnswerRecord[1] = 192 /\ AnswerRecord[2] = 12
<1> DEFINE owner == <<192, 12, 0, 1, 0, 1>>
           size == <<0, 4>>
<1>1. owner \in Seq(Bytes) /\ Len(owner) = 6 /\ owner[1] = 192 /\ owner[2] = 12
    <2>1. 192 \in Bytes /\ 12 \in Bytes /\ 0 \in Bytes /\ 1 \in Bytes
        BY DEF Bytes
    <2> QED
        BY <2>1
<1>2. size \in Seq(Bytes) /\ Len(size) = 2
    <2>1. 0 \in Bytes /\ 4 \in Bytes
        BY DEF Bytes
    <2> QED
        BY <2>1
<1>3. ASSUME NEW f \in [1..4 -> Bytes] PROVE f \in Seq(Bytes) /\ Len(f) = 4
    <2>1. f \in Seq(Bytes)
        BY SeqDef
    <2>2. DOMAIN f = 1..Len(f) /\ Len(f) \in Nat
        BY <2>1, LenProperties
    <2> QED
        BY <2>1, <2>2
<1>4. /\ Ttl \in Seq(Bytes) /\ Len(Ttl) = 4
      /\ Address \in Seq(Bytes) /\ Len(Address) = 4
    BY <1>3, ResponseAssumption DEF Bytes
<1>5. AnswerRecord = ((owner \o Ttl) \o size) \o Address
    BY DEF AnswerRecord
<1> DEFINE a == owner \o Ttl
           b == a \o size
           c == b \o Address
<1> HIDE DEF owner, size
<1>6. a \in Seq(Bytes) /\ Len(a) = 10 /\ a[1] = owner[1] /\ a[2] = owner[2]
    <2>1. /\ a \in Seq(Bytes) /\ Len(a) = Len(owner) + Len(Ttl)
          /\ \A i \in 1..Len(owner) : a[i] = owner[i]
        <3>1. owner \in Seq(Bytes) /\ Ttl \in Seq(Bytes)
            BY <1>1, <1>4
        <3> QED
            BY <3>1, ConcatFacts
    <2> HIDE DEF a
    <2> QED
        BY <1>1, <1>4, <2>1
<1> HIDE DEF a
<1>7. b \in Seq(Bytes) /\ Len(b) = 12 /\ b[1] = a[1] /\ b[2] = a[2]
    <2>1. /\ b \in Seq(Bytes) /\ Len(b) = Len(a) + Len(size)
          /\ \A i \in 1..Len(a) : b[i] = a[i]
        BY <1>2, <1>6, ConcatFacts
    <2> HIDE DEF b
    <2> QED
        BY <1>2, <1>6, <2>1
<1> HIDE DEF b
<1>8. c \in Seq(Bytes) /\ Len(c) = 16 /\ c[1] = b[1] /\ c[2] = b[2]
    <2>1. /\ c \in Seq(Bytes) /\ Len(c) = Len(b) + Len(Address)
          /\ \A i \in 1..Len(b) : c[i] = b[i]
        BY <1>4, <1>7, ConcatFacts
    <2> HIDE DEF c
    <2> QED
        BY <1>4, <1>7, <2>1
<1>9. c = AnswerRecord
    BY <1>5 DEF a, b
<1> QED
    BY <1>1, <1>6, <1>7, <1>8, <1>9

\* What a reply is in front of its answer record.
IsBody(body, high, answers) ==
    /\ body \in Seq(Bytes) /\ Len(body) = bytes_consumed + 16
    /\ body[1] = buffer[1] /\ body[2] = buffer[2] /\ body[3] = high
    /\ body[5] = 0 /\ body[6] = 1 /\ body[7] = 0 /\ body[8] = answers
    /\ \A i \in 13..(bytes_consumed + 16) : body[i] = buffer[i]

\* Header and question together.
LEMMA BodyFacts ==
    ASSUME Inv, IsParsed, NEW high, Flags(high), NEW rcode \in 0..15, NEW answers \in 0..1
    PROVE  IsBody(HeaderOf(high, rcode, answers) \o Question, high, answers)
<1> DEFINE body == HeaderOf(high, rcode, answers) \o Question
<1> DEFINE h == HeaderOf(high, rcode, answers)
<1>1. /\ h \in Seq(Bytes) /\ Len(h) = 12
      /\ h[1] = buffer[1] /\ h[2] = buffer[2] /\ h[3] = high
      /\ h[5] = 0 /\ h[6] = 1 /\ h[7] = 0 /\ h[8] = answers
    BY HeaderOfFacts DEF HeaderSize
<1>2. /\ Question \in Seq(Bytes) /\ Len(Question) = bytes_consumed + 4
      /\ \A i \in 1..(bytes_consumed + 4) : Question[i] = buffer[12 + i]
    BY QuestionFacts DEF HeaderSize, TailSize
<1> HIDE DEF h
<1>3. /\ h \o Question \in Seq(Bytes) /\ Len(h \o Question) = Len(h) + Len(Question)
      /\ \A i \in 1..Len(h) : (h \o Question)[i] = h[i]
      /\ \A i \in 1..Len(Question) : (h \o Question)[Len(h) + i] = Question[i]
    BY <1>1, <1>2, ConcatFacts
<1>4. body = h \o Question
    BY DEF h
<1> HIDE DEF body
<1>5. bytes_consumed \in Nat
    BY TypeFacts
<1>6. body \in Seq(Bytes) /\ Len(body) = bytes_consumed + 16
    BY <1>1, <1>2, <1>3, <1>4, <1>5
<1>7. \A i \in 1..12 : body[i] = h[i]
    BY <1>1, <1>3, <1>4
<1>8. ASSUME NEW i \in 13..(bytes_consumed + 16)
      PROVE  body[i] = buffer[i]
    <2>1. i - 12 \in 1..(bytes_consumed + 4) /\ 12 + (i - 12) = i
        BY <1>5
    <2>2. body[12 + (i - 12)] = Question[i - 12]
        BY <1>1, <1>2, <1>3, <1>4, <2>1
    <2>3. Question[i - 12] = buffer[12 + (i - 12)]
        BY <1>2, <2>1
    <2> QED
        BY <2>1, <2>2, <2>3
<1>9. /\ body[1] = buffer[1] /\ body[2] = buffer[2] /\ body[3] = high
      /\ body[5] = 0 /\ body[6] = 1 /\ body[7] = 0 /\ body[8] = answers
    <2>1. /\ body[1] = h[1] /\ body[2] = h[2] /\ body[3] = h[3]
          /\ body[5] = h[5] /\ body[6] = h[6] /\ body[7] = h[7] /\ body[8] = h[8]
        <3>1. /\ 1 \in 1..12 /\ 2 \in 1..12 /\ 3 \in 1..12 /\ 5 \in 1..12
              /\ 6 \in 1..12 /\ 7 \in 1..12 /\ 8 \in 1..12
            OBVIOUS
        <3> HIDE DEF h
        <3> QED
            BY <1>7, <3>1
    <2> QED
        BY <1>1, <2>1
<1>10. IsBody(body, high, answers)
    BY <1>6, <1>8, <1>9 DEF IsBody
<1> QED
    BY <1>10 DEF body

\* The two kinds of replies: an error reply has no record, a sinkhole reply
\* has one.
Replied(packet) ==
    \E high, rcode, answers :
        /\ Flags(high) /\ rcode \in 0..15 /\ answers \in 0..1
        /\ \/ /\ answers = 0
              /\ packet = HeaderOf(high, rcode, answers) \o Question
           \/ /\ answers = 1
              /\ packet = (HeaderOf(high, rcode, answers) \o Question) \o AnswerRecord

\* Every built reply has this layout, the answer's 16 bytes included.
LEMMA RepliedFacts ==
    ASSUME Inv, IsParsed, NEW packet, Replied(packet)
    PROVE  /\ packet \in Seq(Bytes)
           /\ packet[8] \in 0..1
           /\ Len(packet) = bytes_consumed + 16 + 16 * packet[8]
           /\ packet[1] = buffer[1] /\ packet[2] = buffer[2] /\ Flags(packet[3])
           /\ packet[5] = 0 /\ packet[6] = 1 /\ packet[7] = 0
           /\ \A i \in 13..(bytes_consumed + 16) : packet[i] = buffer[i]
           /\ packet[8] = 1 => /\ packet[bytes_consumed + 17] = 192
                               /\ packet[bytes_consumed + 18] = 12
<1>1. PICK high, rcode, answers :
        /\ Flags(high) /\ rcode \in 0..15 /\ answers \in 0..1
        /\ \/ /\ answers = 0
              /\ packet = HeaderOf(high, rcode, answers) \o Question
           \/ /\ answers = 1
              /\ packet = (HeaderOf(high, rcode, answers) \o Question) \o AnswerRecord
    BY DEF Replied
<1>0. PICK body : body = HeaderOf(high, rcode, answers) \o Question
    OBVIOUS
<1>4. \/ answers = 0 /\ packet = body
      \/ answers = 1 /\ packet = body \o AnswerRecord
    BY <1>0, <1>1
<1>7. Flags(high) /\ rcode \in 0..15 /\ answers \in 0..1
    BY <1>1
<1>2. /\ body \in Seq(Bytes) /\ Len(body) = bytes_consumed + 16
      /\ body[1] = buffer[1] /\ body[2] = buffer[2] /\ body[3] = high
      /\ body[5] = 0 /\ body[6] = 1 /\ body[7] = 0 /\ body[8] = answers
      /\ \A i \in 13..(bytes_consumed + 16) : body[i] = buffer[i]
  <2>1. IsBody(HeaderOf(high, rcode, answers) \o Question, high, answers)
    BY <1>7, BodyFacts
  <2>2. IsBody(body, high, answers)
    BY <1>0, <2>1
  <2> QED
    BY <2>2 DEF IsBody
<1>3. bytes_consumed \in Nat
    BY TypeFacts
<1>5. CASE answers = 0 /\ packet = body
    <2>1. packet[8] = 0
        BY <1>2, <1>5
    <2>2. Len(packet) = bytes_consumed + 16 + 16 * packet[8]
        BY <1>2, <1>3, <1>5, <2>1
    <2>3. packet[8] \in 0..1 /\ packet[8] # 1
        BY <2>1
    <2> QED
        BY <1>1, <1>2, <1>5, <2>2, <2>3
<1>6. CASE answers = 1 /\ packet = body \o AnswerRecord
    <2>1. /\ packet \in Seq(Bytes) /\ Len(packet) = Len(body) + Len(AnswerRecord)
          /\ \A i \in 1..Len(body) : packet[i] = body[i]
          /\ \A i \in 1..Len(AnswerRecord) : packet[Len(body) + i] = AnswerRecord[i]
        <3>1. body \in Seq(Bytes) /\ AnswerRecord \in Seq(Bytes)
            BY <1>2, RecordFacts
        <3> QED
            BY <1>6, <3>1, ConcatFacts
    <2>2. \A i \in 1..(bytes_consumed + 16) : packet[i] = body[i]
        BY <1>2, <2>1
    <2>3. /\ packet[1] = body[1] /\ packet[2] = body[2] /\ packet[3] = body[3]
          /\ packet[5] = body[5] /\ packet[6] = body[6] /\ packet[7] = body[7]
          /\ packet[8] = body[8]
        BY <1>3, <2>2
    <2>4. \A i \in 13..(bytes_consumed + 16) : packet[i] = buffer[i]
        BY <1>2, <1>3, <2>2
    <2>5. packet[8] = 1
        BY <1>2, <1>6, <2>3
    <2>6. Len(packet) = bytes_consumed + 32
        BY <1>2, <1>3, <2>1, RecordFacts
    <2>7. Len(packet) = bytes_consumed + 16 + 16 * packet[8]
        BY <1>3, <2>5, <2>6
    <2>8. /\ packet[bytes_consumed + 17] = 192
          /\ packet[bytes_consumed + 18] = 12
        <3>1. /\ packet[Len(body) + 1] = AnswerRecord[1]
              /\ packet[Len(body) + 2] = AnswerRecord[2]
            BY <2>1, RecordFacts
        <3>2. Len(body) + 1 = bytes_consumed + 17 /\ Len(body) + 2 = bytes_consumed + 18
            BY <1>2, <1>3
        <3> QED
            BY <3>1, <3>2, RecordFacts
    <2>9. packet[8] \in 0..1
        BY <2>5
    <2> QED
        BY <1>1, <1>2, <2>1, <2>3, <2>4, <2>7, <2>8, <2>9
<1> QED
    BY <1>4, <1>5, <1>6

\* Both builders make replies of this kind.
LEMMA RepliesAre ==
    /\ \A rcode \in Rcodes : BuildErrorResponse(rcode) =>
            \E packet : Replied(packet) /\ Reply(packet)
    /\ BuildSinkholeResponse => \E packet : Replied(packet) /\ Reply(packet)
<1>1. \A rcode \in Rcodes : rcode \in 0..15
    BY ResponseAssumption
<1>2. Flags(129) /\ Flags(133) /\ 0 \in 0..15 /\ 0 \in 0..1 /\ 1 \in 0..1
    BY DEF Flags
<1>3. ASSUME NEW rcode \in Rcodes
      PROVE  Replied(HeaderOf(129, rcode, 0) \o Question)
    BY <1>1, <1>2 DEF Replied
<1>4. Replied((HeaderOf(133, 0, 1) \o Question) \o AnswerRecord)
    BY <1>2 DEF Replied
<1> QED
    BY <1>3, <1>4 DEF BuildErrorResponse, BuildSinkholeResponse

-----------------------------------------------------------------------------
(* The first theorems.                                                     *)

\* A packet that nobody looked at yet has the invariant.
LEMMA InitEstablishes == ResponseInit => Inv
<1> SUFFICES ASSUME ResponseInit PROVE Inv
    OBVIOUS
<1>1. /\ buffer \in Packets /\ status = "header" /\ section = "question"
      /\ curr_offset = 0 /\ depth = 0 /\ bytes_consumed = 0
      /\ jumped = FALSE /\ name = <<>>
    BY DEF ResponseInit, Init
<1>2. ~Active /\ ~InName /\ AtHeader /\ ~IsParsed /\ Asking
    BY <1>1 DEF Active, InName, AtHeader, IsParsed, Asking
<1>3. Types
    <2>1. <<>> \in Seq(0..255) /\ 0 \in 0..MaxDepth
        BY ParserAssumption
    <2> QED
        BY <1>1, <2>1, ParserAssumption DEF Types, TypeOK
<1>4. Stages /\ Position /\ Fits
    BY <1>1, <1>2 DEF Stages, Position, Fits
<1>5. NormalName
    BY <1>1, EmptyNameIsNormal DEF NormalName
<1> QED
    BY <1>3, <1>4, <1>5 DEF Inv

\* Every step of the parser and of the builders preserves it.
LEMMA NextKeeps == Inv /\ [ResponseNext]_rvars => Inv'
<1> SUFFICES ASSUME Inv, [ResponseNext]_rvars PROVE Inv'
    OBVIOUS
<1>1. ASSUME RejectHeader \/ RunsOff \/ RejectPointer \/ RejectLabel,
             UNCHANGED <<query, section>>
      PROVE  Inv'
    <2>1. \E error \in Errors : Fail(error)
        BY <1>1, ErrorsAreErrors DEF RejectHeader, RunsOff, RejectPointer, RejectLabel
    <2> QED
        BY <1>1, <2>1, FailKeeps
<1>2. CASE ParserStep
    BY <1>1, <1>2, ParseHeaderKeeps, EndOfNameKeeps, FollowPointerKeeps,
       TakeLabelKeeps, ParseQuestionKeeps DEF ParserStep, DecodeName, Asking
<1>3. ASSUME NEW packet, Replied(packet), Reply(packet) PROVE Inv'
    <2>1. IsParsed
        BY <1>3 DEF Reply, IsParsed
    <2> QED
        BY <1>3, <2>1, RepliedFacts, ReplyKeeps
<1>4. CASE ReadAnswer
    BY <1>4, ReadAnswerKeeps
<1>5. CASE UNCHANGED rvars
    <2>1. UNCHANGED <<buffer, status, curr_offset, jumped, depth, bytes_consumed,
                      name, section>>
        BY <1>5 DEF rvars, vars
    <2>2. UNCHANGED <<AtHeader, InName, IsParsed, Active, Asking>>
        BY <2>1 DEF AtHeader, InName, IsParsed, Active, Asking
    <2>3. Types'
        BY <2>1 DEF Inv, Types, TypeOK
    <2>4. Stages' /\ Position' /\ Fits'
        BY <2>1, <2>2, SameBuffer DEF Inv, Stages, Position, Fits
    <2>5. NormalName'
        BY <2>1, SameBuffer DEF Inv, NormalName, Normal
    <2> QED
        BY <2>3, <2>4, <2>5 DEF Inv
<1> QED
    BY <1>2, <1>3, <1>4, <1>5, RepliesAre DEF ResponseNext

\* Inv holds in every state of the specification.
THEOREM InvariantHolds == ResponseSpec => []Inv
BY InitEstablishes, NextKeeps, PTL DEF ResponseSpec

\* Every variable keeps its type: a reply is made of bytes, the pointers
\* followed never exceed the limit (parser.cpp:38-41, response.cpp:7-90).
THEOREM TypeCorrect == ResponseSpec => []TypeOK
<1>1. Inv => TypeOK
    BY DEF Inv, Types
<1> QED
    BY <1>1, InvariantHolds, PTL

\* A decoded name is printable, in lower case, without a dot of its own at
\* either end and not too long (parser.cpp:77-91).
THEOREM NamesAreNormal == ResponseSpec => []NameIsNormal
<1>1. Inv => NameIsNormal
    BY DEF Inv, NormalName, Normal, NameIsNormal
<1> QED
    BY <1>1, InvariantHolds, PTL

\* Type and class are read right behind the name as it stands in the
\* question, wherever its pointers led (parser.cpp:54-57, 128-136).
THEOREM QuestionBehindName == ResponseSpec => []QuestionFollowsName
<1>1. Inv => QuestionFollowsName
    <2> SUFFICES ASSUME Inv, status = "parsed"
                 PROVE  /\ HeaderSize + bytes_consumed = EndInPlace
                        /\ EndInPlace + TailSize <= Size
        BY DEF QuestionFollowsName
    <2>1. IsParsed /\ Active /\ ~InName /\ Asking
        BY StatusFacts DEF IsParsed, Inv, Stages
    <2>2. HeaderSize + bytes_consumed = EndInPlace
        BY <2>1, EndInPlaceIs DEF Inv, Position
    <2>3. HeaderSize + bytes_consumed + TailSize <= Size
        BY <2>1 DEF Inv, Fits
    <2> QED
        BY <2>2, <2>3
<1> QED
    BY <1>1, InvariantHolds, PTL

-----------------------------------------------------------------------------
(* Reading a reply back.                                                   *)

\* D holds the offsets of the length bytes from the beginning of the
\* question's name to e: what stands between them are printable labels.
Layout(D, e) ==
    /\ HeaderSize \in D /\ e \in D /\ D \subseteq HeaderSize..e
    /\ \A o \in D \ {e} :
        /\ Byte(o) \in 1..63 /\ o + 1 + Byte(o) \in D
        /\ \A k \in 1..Byte(o) : o + k \notin D /\ Printable(Byte(o + k))

\* The name that stands there, up to the length byte at c.
Rendered(D, c) ==
    [i \in 1..(c - HeaderSize - 1) |->
        IF HeaderSize + i \in D THEN Dot ELSE Lowered(Byte(HeaderSize + i))]

\* A name without a pointer so far is what stands in place.
WrittenOut ==
    Asking /\ Active /\ ~jumped =>
        /\ \E D \in SUBSET Nat : Layout(D, curr_offset) /\ name = Rendered(D, curr_offset)
        /\ ~InName => /\ curr_offset < Size /\ Byte(curr_offset) = 0
                      /\ HeaderSize + bytes_consumed = curr_offset + 1

\* The packet is the reply to the query, whose name ends in the zero byte at e.
Carries(D, e) ==
    /\ Layout(D, e) /\ Byte(e) = 0
    /\ query.name = Rendered(D, e) /\ Len(query.name) <= MaxName
    /\ AnCount \in 0..1 /\ Size = e + 5 + 16 * AnCount
    /\ IsResponse /\ OpcodeOf = 0 /\ QdCount = 1
    /\ SubSeq(buffer, 1, 2) = query.id
    /\ Word(e + 1) = query.qtype /\ Word(e + 3) = query.qclass
    /\ AnCount = 1 => Byte(e + 5) = 192 /\ Byte(e + 6) = 12

\* Reading the question of the reply.
ReadsQuestion(D, e) ==
    /\ AtHeader \/ Active
    /\ ~jumped
    /\ InName => curr_offset \in D /\ name = Rendered(D, curr_offset)
    /\ Active /\ ~InName => name = Rendered(D, e) /\ HeaderSize + bytes_consumed = e + 1

\* Reading the owner of its answer record: the pointer, then the name that
\* stands in the question.
ReadsOwner(D, e) ==
    /\ Active /\ AnCount = 1
    /\ InName /\ ~jumped => curr_offset = e + 5 /\ depth = 0 /\ name = <<>>
    /\ InName /\ jumped => curr_offset \in D /\ name = Rendered(D, curr_offset)
    /\ ~InName => name = Rendered(D, e)

Reads(D, e) ==
    /\ Asking => ReadsQuestion(D, e)
    /\ ~Asking => ReadsOwner(D, e)

Repeats ==
    query # NoQuery /\ ~query.jumped =>
        \E D \in SUBSET Nat, e \in Nat : Carries(D, e) /\ Reads(D, e)

IInv == Inv /\ WrittenOut /\ Repeats

\* Intervals that are equal end at the same number.
LEMMA IntervalEnds == \A a, b \in Nat : 1..a = 1..b => a = b
<1> SUFFICES ASSUME NEW a \in Nat, NEW b \in Nat, 1..a = 1..b PROVE a = b
    OBVIOUS
<1>1. a # 0 => a \in 1..b
    BY a # 0 => a \in 1..a
<1>2. b # 0 => b \in 1..a
    BY b # 0 => b \in 1..b
<1> QED
    BY <1>1, <1>2

\* The text up to a length byte.
LEMMA RenderedFacts ==
    ASSUME buffer \in Seq(Bytes), NEW D, NEW c \in Nat, HeaderSize <= c, c <= Size
    PROVE  /\ Rendered(D, c) \in Seq(Bytes)
           /\ Len(Rendered(D, c)) = IF c = HeaderSize THEN 0 ELSE c - 13
           /\ c = HeaderSize => Rendered(D, c) = <<>>
           /\ c > 13 => Rendered(D, c) # <<>>
           /\ \A i \in 1..(c - 13) : Rendered(D, c)[i] =
                 IF HeaderSize + i \in D THEN Dot ELSE Lowered(Byte(HeaderSize + i))
<1> DEFINE n == c - HeaderSize - 1
           m == IF c = HeaderSize THEN 0 ELSE c - 13
           f == Rendered(D, c)
<1>1. /\ m \in Nat /\ 1..n = 1..m /\ 1..n = 1..(c - 13) /\ (c = HeaderSize => m = 0)
      /\ (c > 13 => m > 0)
    BY DEF HeaderSize
<1>2. ASSUME NEW i \in 1..n
      PROVE  (IF HeaderSize + i \in D THEN Dot ELSE Lowered(Byte(HeaderSize + i))) \in Bytes
    <2>1. HeaderSize + i \in Nat /\ HeaderSize + i < Size
        BY LenProperties DEF HeaderSize, Size
    <2>2. Byte(HeaderSize + i) \in Bytes
        BY <2>1, ByteFacts
    <2> QED
        BY <2>2, LoweredFacts, DotFacts
<1>3. f \in [1..m -> Bytes]
    BY <1>1, <1>2 DEF Rendered
<1> HIDE DEF m, n
<1>4. f \in Seq(Bytes)
    BY <1>1, <1>3, SeqDef
<1>5. Len(f) = m
    <2>1. DOMAIN f = 1..Len(f) /\ Len(f) \in Nat
        BY <1>4, LenProperties
    <2>2. DOMAIN f = 1..m
        BY <1>3
    <2> QED
        BY <1>1, <2>1, <2>2, IntervalEnds
<1>6. m = 0 <=> f = <<>>
    BY <1>1, <1>4, <1>5, EmptySeq
<1>7. \A i \in 1..n : f[i] =
            IF HeaderSize + i \in D THEN Dot ELSE Lowered(Byte(HeaderSize + i))
    BY DEF Rendered, n
<1>8. \A i \in 1..(c - 13) : f[i] =
            IF HeaderSize + i \in D THEN Dot ELSE Lowered(Byte(HeaderSize + i))
    BY <1>1, <1>7
<1>9. (c = HeaderSize => f = <<>>) /\ (c > 13 => f # <<>>)
    BY <1>1, <1>6
<1>10. Len(f) = IF c = HeaderSize THEN 0 ELSE c - 13
    BY <1>5 DEF m
<1> QED
    BY <1>4, <1>8, <1>9, <1>10

\* One more label of a layout is one more label of the text.
LEMMA RenderedNext ==
    ASSUME Inv, NEW D \in SUBSET Nat, NEW e \in Nat, Layout(D, e), NEW o \in D, o # e,
           e <= Size, name = Rendered(D, o)
    PROVE  /\ o \in Nat /\ o < Size /\ Byte(o) \in 1..63
           /\ o + 1 + Byte(o) \in D /\ o + 1 + Byte(o) <= e
           /\ \A i \in 1..Byte(o) : Printable(LabelAt(o)[i])
           /\ Extended(LabelAt(o)) = Rendered(D, o + 1 + Byte(o))
<1> DEFINE n == Byte(o)
           next == o + 1 + n
           label == LabelAt(o)
           low == LowerAll(label)
           new == Extended(label)
           text == Rendered(D, next)
<1>1. /\ o \in 12..e /\ 12 \in D /\ n \in 1..63 /\ next \in D /\ next \in 12..e
      /\ \A k \in 1..n : o + k \notin D /\ Printable(Byte(o + k))
    BY DEF Layout, HeaderSize
<1>2. o \in Nat /\ o < Size /\ n \in Nat /\ Size \in Nat /\ next \in Nat /\ next <= Size
    <2>1. Size \in Nat
        BY TypeFacts
    <2>2. o \in Nat /\ o < Size
        BY <1>1, <2>1
    <2> HIDE DEF n, next
    <2>3. n \in Nat
        BY <1>1
    <2>4. next \in Nat /\ next <= Size
        BY <1>1, <2>1
    <2> QED
        BY <2>1, <2>2, <2>3, <2>4
<1>3. buffer \in Seq(Bytes) /\ name \in Seq(Bytes)
    BY TypeFacts
<1>4. /\ label \in Seq(Bytes) /\ Len(label) = n
      /\ \A i \in 1..n : label[i] = Byte(o + i)
    <2>1. \A i \in 1..n : o + 1 + i = o + i + 1
        BY <1>2
    <2> QED
        BY <1>2, <1>3, <2>1, LabelFacts DEF Byte
<1> HIDE DEF label
<1>5. /\ low \in Seq(Bytes) /\ Len(low) = n
      /\ \A i \in 1..n : low[i] = Lowered(Byte(o + i))
    BY <1>4, LowerAllFacts
<1> HIDE DEF low
<1>6. /\ text \in Seq(Bytes) /\ Len(text) = next - 13
      /\ \A i \in 1..(next - 13) : text[i] =
            IF 12 + i \in D THEN Dot ELSE Lowered(Byte(12 + i))
    <2> HIDE DEF next
    <2>1. next \in Nat /\ HeaderSize <= next /\ next <= Size
        BY <1>1, <1>2 DEF HeaderSize
    <2>2. next # HeaderSize
        BY <1>1, <1>2 DEF HeaderSize, next
    <2> QED
        BY <1>3, <2>1, <2>2, RenderedFacts DEF HeaderSize
<1> HIDE DEF text
<1>7. new \in Seq(Bytes)
    BY <1>3, <1>4, ExtendedFacts
<1>8. CASE o = 12
    <2>1. name = <<>>
        BY <1>2, <1>3, <1>8, RenderedFacts DEF HeaderSize
    <2>2. new = low
        BY <1>3, <1>4, <2>1, ExtendedFacts DEF low
    <2>3. Len(text) = n
        BY <1>2, <1>6, <1>8
    <2>4. \A i \in 1..n : text[i] = Lowered(Byte(12 + i))
        BY <1>1, <1>2, <1>6, <1>8
    <2>5. \A i \in 1..n : new[i] = text[i]
        BY <1>5, <1>8, <2>2, <2>4
    <2>6. Len(new) = Len(text) /\ \A i \in 1..Len(new) : new[i] = text[i]
        BY <1>5, <2>2, <2>3, <2>5
    <2> HIDE DEF new
    <2> QED
        BY <1>1, <1>2, <1>4, <1>6, <1>7, <2>6, SeqEqual DEF label, new, text
<1>9. CASE o # 12
    <2>1. o > 13
        <3>1. 12 \in D \ {e}
            BY <1>1, <1>9
        <3>2. Byte(12) \in 1..63 /\ 12 + 1 \notin D
            BY <3>1 DEF Layout
        <3> QED
            BY <1>1, <1>9, <3>2
    <2> DEFINE m == o - 13
               pre == Append(name, Dot)
    <2>2. /\ name # <<>> /\ Len(name) = m
          /\ \A i \in 1..m : name[i] = IF 12 + i \in D THEN Dot ELSE Lowered(Byte(12 + i))
        BY <1>1, <1>2, <1>3, <2>1, RenderedFacts DEF HeaderSize
    <2>3. m \in Nat /\ m + 1 + n = next - 13 /\ 12 + (m + 1) = o
        BY <1>2, <2>1
    <2>4. /\ pre \in Seq(Bytes) /\ Len(pre) = m + 1
          /\ \A i \in 1..m : pre[i] = name[i]
          /\ pre[m + 1] = Dot
        BY <1>3, <2>2, DotFacts, AppendProperties
    <2>5. new = pre \o low
        BY <1>3, <1>4, <2>2, ExtendedFacts DEF low
    <2> HIDE DEF pre, new, m
    <2>6. /\ Len(new) = Len(pre) + Len(low)
          /\ \A i \in 1..Len(pre) : new[i] = pre[i]
          /\ \A i \in 1..Len(low) : new[Len(pre) + i] = low[i]
        BY <1>5, <2>4, <2>5, ConcatFacts
    <2>7. Len(new) = Len(text)
        BY <1>2, <1>5, <1>6, <2>3, <2>4, <2>6
    <2>8. ASSUME NEW i \in 1..(m + 1 + n) PROVE new[i] = text[i]
        <3>0. text[i] = IF 12 + i \in D THEN Dot ELSE Lowered(Byte(12 + i))
            BY <1>6, <2>3
        <3>1. CASE i \in 1..m
            <4>1. new[i] = name[i]
                BY <2>3, <2>4, <2>6, <3>1
            <4> QED
                BY <2>2, <3>0, <3>1, <4>1
        <3>2. CASE i = m + 1
            <4>1. new[i] = Dot
                BY <2>3, <2>4, <2>6, <3>2
            <4>2. 12 + i \in D
                BY <2>3, <3>2
            <4> QED
                BY <3>0, <4>1, <4>2
        <3>3. CASE i > m + 1
            <4> DEFINE j == i - (m + 1)
            <4>1. j \in 1..n /\ i = m + 1 + j /\ 12 + i = o + j
                BY <1>2, <2>3, <3>3
            <4> HIDE DEF j
            <4>2. new[m + 1 + j] = low[j]
                BY <1>5, <2>4, <2>6, <4>1
            <4>3. o + j \notin D
                BY <1>1, <4>1
            <4>4. text[i] = Lowered(Byte(o + j))
                BY <3>0, <4>1, <4>3
            <4>5. low[j] = Lowered(Byte(o + j))
                BY <1>5, <4>1
            <4> QED
                BY <4>1, <4>2, <4>4, <4>5
        <3> QED
            BY <1>2, <2>3, <3>1, <3>2, <3>3
    <2>9. \A i \in 1..Len(new) : new[i] = text[i]
        BY <1>6, <2>3, <2>7, <2>8
    <2>10. new = text
        BY <1>6, <1>7, <2>7, <2>9, SeqEqual
    <2> QED
        BY <1>1, <1>2, <1>4, <2>10 DEF label, new, text
<1> QED
    BY <1>8, <1>9

\* A valid label behind a layout extends it.
LEMMA LayoutGrows ==
    ASSUME Inv, NEW D \in SUBSET Nat, NEW o \in Nat, Layout(D, o),
           o < Size, Byte(o) \in 1..63, o + 1 + Byte(o) <= Size,
           \A i \in 1..Byte(o) : Printable(LabelAt(o)[i]),
           NEW next, next = o + 1 + Byte(o), NEW E, E = D \cup {next}
    PROVE  /\ E \in SUBSET Nat /\ Layout(E, next) /\ o \in E /\ o # next
           /\ Rendered(E, o) = Rendered(D, o)
<1>1. /\ Byte(o) \in Nat /\ next \in Nat /\ next > o /\ D \subseteq 12..o
      /\ 12 \in D /\ o \in D /\ next \notin D
    <2>1. D \subseteq 12..o /\ 12 \in D /\ o \in D
        BY DEF Layout, HeaderSize
    <2>2. Byte(o) \in Nat
        OBVIOUS
    <2>3. next \in Nat /\ next > o
        BY <2>2
    <2> QED
        BY <2>1, <2>2, <2>3
<1>2. ASSUME NEW p \in E \ {next}
      PROVE  /\ Byte(p) \in 1..63 /\ p + 1 + Byte(p) \in E
             /\ \A k \in 1..Byte(p) : p + k \notin E /\ Printable(Byte(p + k))
    <2>1. CASE p = o
        <3>1. ASSUME NEW k \in 1..Byte(o)
              PROVE  o + k \notin E /\ Printable(Byte(o + k))
            <4>1. o + k \notin D /\ o + k # next
                BY <1>1
            <4>2. LabelAt(o)[k] = buffer[o + 1 + k]
                BY TypeFacts, LabelFacts
            <4>3. Byte(o + k) = LabelAt(o)[k]
                <5>1. o + k + 1 = o + 1 + k
                    BY <1>1
                <5> QED
                    BY <4>2, <5>1 DEF Byte
            <4> QED
                BY <4>1, <4>3
        <3> QED
            BY <2>1, <3>1
    <2>2. CASE p # o
        <3>1. p \in D \ {o}
            BY <2>2
        <3>2. /\ Byte(p) \in 1..63 /\ p + 1 + Byte(p) \in D
              /\ \A k \in 1..Byte(p) : p + k \notin D /\ Printable(Byte(p + k))
            BY <3>1 DEF Layout
        <3>3. \A k \in 1..Byte(p) : p + k # next
            BY <1>1, <3>1, <3>2
        <3> QED
            BY <3>2, <3>3
    <2> QED
        BY <2>1, <2>2
<1>3. E \subseteq 12..next
    <2>1. 12..o \subseteq 12..next /\ next \in 12..next
        BY <1>1
    <2> QED
        BY <1>1, <2>1
<1>4. Layout(E, next)
    BY <1>1, <1>2, <1>3 DEF Layout, HeaderSize
<1>5. Rendered(E, o) = Rendered(D, o)
    <2>1. \A i \in 1..(o - HeaderSize - 1) : HeaderSize + i # next
        BY <1>1 DEF HeaderSize
    <2>2. \A i \in 1..(o - HeaderSize - 1) :
            (IF HeaderSize + i \in E THEN Dot ELSE Lowered(Byte(HeaderSize + i))) =
            (IF HeaderSize + i \in D THEN Dot ELSE Lowered(Byte(HeaderSize + i)))
        BY <2>1
    <2> QED
        BY <2>2 DEF Rendered
<1> QED
    BY <1>1, <1>4, <1>5

\* A layout depends on the packet alone.
LEMMA SameLayout ==
    ASSUME buffer' = buffer
    PROVE  \A D, c : (Layout(D, c)' <=> Layout(D, c)) /\ Rendered(D, c)' = Rendered(D, c)
BY DEF Layout, Rendered, Byte

\* An unfinished name: the decoder has taken a label, or begun.
LEMMA WrittenSoFar ==
    ASSUME NEW D \in SUBSET Nat, NEW c, InName', curr_offset' = c, buffer' = buffer,
           Layout(D, c), name' = Rendered(D, c)
    PROVE  WrittenOut'
<1>1. Layout(D, c)' /\ name' = Rendered(D, c)'
    BY SameLayout
<1>2. (\E E \in SUBSET Nat : Layout(E, curr_offset) /\ name = Rendered(E, curr_offset))'
    BY <1>1 DEF Layout, Rendered
<1> QED
    BY <1>2 DEF WrittenOut

\* A name that is only moved on from stays written out.
LEMMA WrittenKept ==
    ASSUME WrittenOut, Asking, Active, ~jumped,
           UNCHANGED <<buffer, curr_offset, name>>,
           ~InName' => /\ curr_offset < Size /\ Byte(curr_offset) = 0
                       /\ HeaderSize + bytes_consumed' = curr_offset + 1
    PROVE  WrittenOut'
<1>1. PICK D \in SUBSET Nat : Layout(D, curr_offset) /\ name = Rendered(D, curr_offset)
    BY DEF WrittenOut
<1>2. (\E E \in SUBSET Nat : Layout(E, curr_offset) /\ name = Rendered(E, curr_offset))'
    BY <1>1 DEF Layout, Rendered, Byte
<1>3. (Size' = Size) /\ Byte(curr_offset)' = Byte(curr_offset)
    BY DEF Size, Byte
<1> QED
    BY <1>2, <1>3 DEF WrittenOut

\* A name that is decoded without a pointer is written out in the packet.
LEMMA WrittenOutKept == Inv /\ WrittenOut /\ [ResponseNext]_rvars => WrittenOut'
<1> SUFFICES ASSUME Inv, WrittenOut, [ResponseNext]_rvars PROVE WrittenOut'
    OBVIOUS
<1>1. CASE ~Asking' \/ ~Active' \/ jumped'
    BY <1>1 DEF WrittenOut
<1> SUFFICES ASSUME Asking', Active', ~jumped' PROVE WrittenOut'
    BY <1>1
<1>2. ASSUME NEW error \in Errors, Fail(error) PROVE FALSE
    <2>1. status' \in Errors
        BY <1>2 DEF Fail
    <2> QED
        BY <2>1 DEF Active, Errors
<1>3. ~(RejectHeader \/ RunsOff \/ RejectPointer \/ RejectLabel)
    BY <1>2, ErrorsAreErrors DEF RejectHeader, RunsOff, RejectPointer, RejectLabel
<1>4. ASSUME ParseHeader, UNCHANGED <<query, section>> PROVE WrittenOut'
    <2>1. /\ AtHeader /\ InName' /\ curr_offset' = HeaderSize
          /\ UNCHANGED <<buffer, name>>
        BY <1>4 DEF ParseHeader, AtHeader, InName
    <2>2. name = <<>> /\ HeaderSize <= Size
        <3>1. HeaderError = "none"
            BY <1>4 DEF ParseHeader
        <3> QED
            BY <2>1, <3>1, HeaderGood, TypeFacts DEF Inv, Stages, HeaderSize
    <2>3. {HeaderSize} \in SUBSET Nat /\ HeaderSize \in Nat
        BY DEF HeaderSize
    <2>4. Layout({HeaderSize}, HeaderSize)
        BY DEF Layout, HeaderSize
    <2>5. Rendered({HeaderSize}, HeaderSize) = <<>>
        BY <2>2, <2>3, TypeFacts, RenderedFacts DEF HeaderSize
    <2> QED
        BY <2>1, <2>2, <2>3, <2>4, <2>5, WrittenSoFar
<1>5. ASSUME EndOfName, UNCHANGED <<query, section>> PROVE WrittenOut'
    <2>1. /\ InName /\ curr_offset < Size /\ Byte(curr_offset) = 0
          /\ bytes_consumed' = IF jumped THEN bytes_consumed ELSE bytes_consumed + 1
          /\ UNCHANGED <<buffer, curr_offset, jumped, name>>
        BY <1>5 DEF EndOfName, Decoding, InName
    <2>2. Asking /\ Active /\ ~jumped
        BY <1>5, <2>1, StatusFacts DEF Asking
    <2>3. curr_offset = HeaderSize + bytes_consumed
        BY <2>1, <2>2 DEF Inv, Position
    <2>4. HeaderSize + bytes_consumed' = curr_offset + 1
        BY <2>1, <2>2, <2>3, TypeFacts DEF HeaderSize
    <2> QED
        BY <2>1, <2>2, <2>4, WrittenKept
<1>6. ~FollowPointer
    BY DEF FollowPointer
<1>7. ASSUME TakeLabel, UNCHANGED <<query, section>> PROVE WrittenOut'
    <2> DEFINE o == curr_offset
    <2>1. /\ InName /\ o < Size /\ Byte(o) # 0 /\ ~IsPointer(Byte(o))
          /\ LabelError = "none" /\ name' = Extended(LabelAt(o))
          /\ curr_offset' = o + 1 + Byte(o)
          /\ UNCHANGED <<buffer, status, jumped>>
        BY <1>7 DEF TakeLabel, AtLabel, Decoding, InName
    <2>2. Asking /\ Active /\ ~jumped /\ InName'
        BY <1>7, <2>1, StatusFacts DEF Asking, InName
    <2>3. /\ ~IsReserved(Byte(o)) /\ ~(o + 1 + Byte(o) > Size)
          /\ \A i \in 1..Byte(o) : Printable(LabelAt(o)[i])
        BY <2>1, LabelGood
    <2>4. /\ Byte(o) \in Nat /\ o \in Nat /\ Size \in Nat
          /\ o + 1 + Byte(o) <= Size /\ Byte(o) \in 1..63
        <3>1. Byte(o) \in Nat /\ o \in Nat /\ Size \in Nat
            BY <2>1, TypeFacts, ByteFacts
        <3> QED
            BY <2>1, <2>3, <3>1 DEF IsReserved, IsPointer
    <2>5. PICK D \in SUBSET Nat : Layout(D, o) /\ name = Rendered(D, o)
        BY <2>2 DEF WrittenOut
    <2>6. PICK next : next = o + 1 + Byte(o)
        OBVIOUS
    <2>7. PICK E : E = D \cup {next}
        OBVIOUS
    <2>8. /\ E \in SUBSET Nat /\ Layout(E, next) /\ o \in E /\ o # next
          /\ Rendered(E, o) = Rendered(D, o)
        BY <2>1, <2>3, <2>4, <2>5, <2>6, <2>7, LayoutGrows
    <2>9. Extended(LabelAt(o)) = Rendered(E, next)
        <3>1. next \in Nat /\ next <= Size /\ name = Rendered(E, o)
            BY <2>4, <2>5, <2>6, <2>8
        <3> QED
            BY <2>6, <2>8, <3>1, RenderedNext
    <2> QED
        BY <2>1, <2>2, <2>6, <2>8, <2>9, WrittenSoFar
<1>8. ASSUME ParseQuestion, UNCHANGED <<query, section>> PROVE WrittenOut'
    <2>1. /\ status = "question"
          /\ UNCHANGED <<buffer, curr_offset, jumped, bytes_consumed, name>>
        BY <1>8 DEF ParseQuestion, Fail
    <2>2. Asking /\ Active /\ ~InName /\ ~jumped
        BY <1>8, <2>1, StatusFacts DEF Asking
    <2>3. /\ curr_offset < Size /\ Byte(curr_offset) = 0
          /\ HeaderSize + bytes_consumed = curr_offset + 1
        BY <2>2 DEF WrittenOut
    <2> QED
        BY <2>1, <2>2, <2>3, WrittenKept
<1>9. ASSUME NEW packet, Reply(packet) PROVE FALSE
    BY <1>9 DEF Reply, Active
<1>10. ~ReadAnswer
    BY DEF ReadAnswer, Asking
<1>11. CASE UNCHANGED rvars
    <2>1. /\ UNCHANGED <<buffer, curr_offset, jumped, bytes_consumed, name, status, section>>
        BY <1>11 DEF rvars, vars
    <2>2. Asking /\ Active /\ ~jumped /\ (InName' <=> InName)
        BY <2>1 DEF Asking, Active, InName
    <2> QED
        BY <2>1, <2>2, WrittenKept DEF WrittenOut
<1> QED
    BY <1>3, <1>4, <1>5, <1>6, <1>7, <1>8, <1>9, <1>10, <1>11, RepliesAre
       DEF ResponseNext, ParserStep, DecodeName

\* A length byte of the name carried by a reply: the last one ends the name,
\* each other one begins a valid label.
LEMMA CarriedByte ==
    ASSUME Inv, NEW D \in SUBSET Nat, NEW e \in Nat, Carries(D, e), NEW o \in D
    PROVE  /\ o \in Nat /\ HeaderSize <= o /\ o <= e /\ e + 5 <= Size
           /\ Byte(o) = 0 <=> o = e
           /\ ~IsPointer(Byte(o)) /\ ~IsReserved(Byte(o))
<1>1. e + 5 <= Size
    <2>1. Size = e + 5 + 16 * AnCount /\ AnCount \in 0..1
        BY DEF Carries
    <2> QED
        BY <2>1
<1>2. o \in Nat /\ HeaderSize <= o /\ o <= e
    BY DEF Carries, Layout, HeaderSize
<1>3. o # e => Byte(o) \in 1..63
    BY DEF Carries, Layout
<1>4. Byte(e) = 0
    BY DEF Carries
<1> QED
    BY <1>1, <1>2, <1>3, <1>4 DEF IsPointer, IsReserved

\* That the reply carries the query's name depends on packet and query alone.
LEMMA CarriesKept ==
    ASSUME NEW D, NEW e, Carries(D, e), UNCHANGED <<buffer, query>>
    PROVE  Carries(D, e)'
<1>1. (Layout(D, e)' <=> Layout(D, e)) /\ Rendered(D, e)' = Rendered(D, e)
    BY SameLayout
<1>2. /\ AnCount' = AnCount /\ (IsResponse' <=> IsResponse) /\ OpcodeOf' = OpcodeOf
      /\ QdCount' = QdCount /\ Size' = Size
      /\ \A o : Byte(o)' = Byte(o) /\ Word(o)' = Word(o)
    BY DEF AnCount, Word, Byte, Size, IsResponse, OpcodeOf, QdCount
<1> QED
    BY <1>1, <1>2 DEF Carries

\* The record's pointer leads to the name in the question.
LEMMA OwnerPointer ==
    ASSUME Inv, NEW D \in SUBSET Nat, NEW e \in Nat, Carries(D, e),
           InName, ReadsOwner(D, e), ~jumped
    PROVE  /\ curr_offset < Size /\ Byte(curr_offset) = 192 /\ IsPointer(Byte(curr_offset))
           /\ Target(curr_offset) = HeaderSize /\ PointerError = "none"
<1>1. curr_offset = e + 5 /\ depth = 0 /\ AnCount = 1
    BY DEF ReadsOwner
<1>2. Byte(e + 5) = 192 /\ Byte(e + 6) = 12 /\ Size = e + 21
    BY <1>1 DEF Carries
<1>3. HeaderSize <= e
    BY DEF Carries, Layout, HeaderSize
<1>4. curr_offset + 1 = e + 6 /\ curr_offset < Size
    BY <1>1, <1>2
<1>5. Byte(curr_offset) = 192 /\ Byte(curr_offset + 1) = 12
    BY <1>1, <1>2, <1>4
<1>6. Target(curr_offset) = HeaderSize /\ IsPointer(Byte(curr_offset))
    BY <1>5 DEF Target, IsPointer, HeaderSize
<1>7. /\ ~(curr_offset + 1 >= Size) /\ ~(depth + 1 > MaxDepth)
      /\ ~(Target(curr_offset) >= Size) /\ ~(Target(curr_offset) >= curr_offset)
    BY <1>1, <1>2, <1>3, <1>4, <1>6, TypeFacts, LimitAssumption DEF HeaderSize
<1>8. PointerError = "none"
    BY <1>7 DEF PointerError
<1> QED
    BY <1>4, <1>5, <1>6, <1>8

\* Where the decoder stands while it reads the name of a reply.
LEMMA StandsInName ==
    ASSUME Inv, NEW D \in SUBSET Nat, NEW e \in Nat, Carries(D, e), Reads(D, e), InName
    PROVE  \/ curr_offset \in D /\ name = Rendered(D, curr_offset) /\ (~Asking => jumped)
                                /\ (Asking => ~jumped)
           \/ ~Asking /\ ~jumped /\ ReadsOwner(D, e)
BY TypeFacts DEF Reads, ReadsQuestion, ReadsOwner

\* No check fails on a reply (parser.cpp:17-97, 103-133).
LEMMA ReplyIsValid ==
    ASSUME Inv, NEW D \in SUBSET Nat, NEW e \in Nat, Carries(D, e), Reads(D, e)
    PROVE  /\ AtHeader => HeaderError = "none"
           /\ InName => curr_offset < Size
           /\ AtPointer => PointerError = "none"
           /\ AtLabel => LabelError = "none"
<1>1. HeaderSize \in D /\ e \in D
    BY DEF Carries, Layout
<1>2. HeaderSize <= e /\ e + 5 <= Size /\ Size \in Nat
    BY <1>1, CarriedByte, TypeFacts
<1>3. AtHeader => HeaderError = "none"
    <2>1. e <= MaxName + 13 /\ MaxName \in Nat /\ MaxPacket \in Nat
        <3>1. Len(Rendered(D, e)) <= MaxName
            BY DEF Carries
        <3>2. Len(Rendered(D, e)) = IF e = HeaderSize THEN 0 ELSE e - 13
            <4>1. e <= Size
                BY <1>2
            <4> QED
                BY <1>2, <4>1, TypeFacts, RenderedFacts
        <3> QED
            BY <3>1, <3>2, ParserAssumption DEF HeaderSize
    <2>2. Size <= e + 21
        <3>1. Size = e + 5 + 16 * AnCount /\ AnCount \in 0..1
            BY DEF Carries
        <3> QED
            BY <3>1
    <2>3. ~(Size < HeaderSize) /\ ~(Size > MaxPacket) /\ ~(HeaderSize >= Size)
        BY <1>2, <2>1, <2>2, LimitAssumption DEF HeaderSize
    <2>4. OpcodeOf = 0 /\ QdCount = 1
        BY DEF Carries
    <2> QED
        BY <2>3, <2>4 DEF HeaderError
<1>4. InName => curr_offset < Size
    <2> SUFFICES ASSUME InName PROVE curr_offset < Size
        OBVIOUS
    <2>1. CASE curr_offset \in D
        BY <1>2, <2>1, CarriedByte
    <2>2. CASE ~jumped /\ ReadsOwner(D, e)
        BY <2>2, OwnerPointer
    <2> QED
        BY <2>1, <2>2, StandsInName
<1>5. AtPointer => PointerError = "none"
    <2> SUFFICES ASSUME AtPointer PROVE PointerError = "none"
        OBVIOUS
    <2>1. InName /\ IsPointer(Byte(curr_offset))
        BY DEF AtPointer, Decoding, InName
    <2>2. curr_offset \notin D
        BY <2>1, CarriedByte
    <2> QED
        BY <2>1, <2>2, StandsInName, OwnerPointer
<1>6. AtLabel => LabelError = "none"
    <2> SUFFICES ASSUME AtLabel PROVE LabelError = "none"
        OBVIOUS
    <2> DEFINE o == curr_offset
               next == o + 1 + Byte(o)
    <2>1. InName /\ Byte(o) # 0 /\ ~IsPointer(Byte(o))
        BY DEF AtLabel, Decoding, InName
    <2>2. o \in D /\ name = Rendered(D, o)
        BY <2>1, StandsInName, OwnerPointer
    <2>3. o # e /\ ~IsReserved(Byte(o))
        BY <2>1, <2>2, CarriedByte
    <2>4. /\ next \in D /\ next <= e /\ o \in Nat /\ Byte(o) \in 1..63
          /\ \A i \in 1..Byte(o) : Printable(LabelAt(o)[i])
          /\ Extended(LabelAt(o)) = Rendered(D, next)
        <3>1. e <= Size /\ Layout(D, e)
            BY <1>2 DEF Carries
        <3> QED
            BY <2>2, <2>3, <3>1, RenderedNext
    <2>5. next <= Size
        BY <1>2, <2>4
    <2>6. Len(Rendered(D, next)) \in Nat /\ Len(Rendered(D, next)) <= MaxName
        <3>1. Len(Rendered(D, e)) <= MaxName
            BY DEF Carries
        <3>2. next \in Nat /\ HeaderSize <= next
            BY <2>4, CarriedByte
        <3> HIDE DEF next
        <3>3. /\ Len(Rendered(D, e)) = IF e = HeaderSize THEN 0 ELSE e - 13
              /\ Len(Rendered(D, next)) = IF next = HeaderSize THEN 0 ELSE next - 13
            <4>1. e <= Size
                BY <1>2
            <4> QED
                BY <1>2, <2>5, <3>2, <4>1, TypeFacts, RenderedFacts
        <3>4. next <= e
            BY <2>4 DEF next
        <3> QED
            BY <1>2, <3>1, <3>2, <3>3, <3>4, ParserAssumption DEF HeaderSize
    <2>7. ~(o + 1 + Byte(o) > Size)
        BY <2>5, <1>2, <2>4
    <2>8. ~(Len(Extended(LabelAt(o))) > MaxName)
        <3> HIDE DEF next
        <3> QED
            BY <2>4, <2>6, ParserAssumption
    <2> QED
        BY <2>3, <2>4, <2>7, <2>8 DEF LabelError
<1> QED
    BY <1>3, <1>4, <1>5, <1>6

\* Every step of the decoder reads the reply on.
LEMMA ReadsOn ==
    ASSUME Inv, NEW D \in SUBSET Nat, NEW e \in Nat, Carries(D, e), Reads(D, e),
           ParserStep
    PROVE  Reads(D, e)'
<1>1. UNCHANGED <<query, section>> /\ (Asking' <=> Asking)
    BY DEF ParserStep, Asking
<1>2. /\ AtHeader => HeaderError = "none"
      /\ InName => curr_offset < Size
      /\ AtPointer => PointerError = "none"
      /\ AtLabel => LabelError = "none"
    BY ReplyIsValid
<1>3. Carries(D, e) /\ HeaderSize \in D /\ e \in D /\ Layout(D, e)
    BY DEF Carries, Layout
<1>4. HeaderSize <= e /\ e + 5 <= Size /\ Size \in Nat /\ e <= Size
    BY <1>3, CarriedByte, TypeFacts
<1>5. ~RejectHeader /\ ~RunsOff /\ ~RejectPointer /\ ~RejectLabel
    <2>1. ~RunsOff
        BY <1>2, TypeFacts DEF RunsOff, InName
    <2> QED
        BY <1>2, <2>1 DEF RejectHeader, RejectPointer, RejectLabel, AtHeader
<1>6. CASE ParseHeader
    <2>1. /\ AtHeader /\ InName' /\ Active' /\ ~AtHeader' /\ curr_offset' = HeaderSize
          /\ UNCHANGED <<buffer, name, jumped>>
        BY <1>6 DEF ParseHeader, AtHeader, InName, Active
    <2>2. name = <<>> /\ Asking /\ ~jumped
        BY <2>1 DEF Inv, Stages
    <2>3. Rendered(D, HeaderSize) = <<>> /\ Rendered(D, HeaderSize)' = Rendered(D, HeaderSize)
        <3>1. HeaderSize \in Nat /\ HeaderSize <= Size
            BY <1>4 DEF HeaderSize
        <3> QED
            BY <2>1, <3>1, TypeFacts, RenderedFacts, SameLayout DEF HeaderSize
    <2>4. (curr_offset \in D /\ name = Rendered(D, curr_offset))'
        BY <1>3, <2>1, <2>2, <2>3 DEF Rendered
    <2> QED
        BY <1>1, <2>1, <2>2, <2>4 DEF Reads, ReadsQuestion
<1>7. CASE EndOfName
    <2>1. /\ InName /\ Byte(curr_offset) = 0
          /\ bytes_consumed' = IF jumped THEN bytes_consumed ELSE bytes_consumed + 1
          /\ UNCHANGED <<buffer, curr_offset, jumped, name>>
          /\ ~InName' /\ Active'
        BY <1>7 DEF EndOfName, Decoding, InName, Active
    <2>2. curr_offset \in D /\ name = Rendered(D, curr_offset)
          /\ (~Asking => jumped) /\ (Asking => ~jumped)
        BY <2>1, StandsInName, OwnerPointer
    <2>3. curr_offset = e
        BY <2>1, <2>2, CarriedByte
    <2>4. name' = Rendered(D, e)'
        BY <2>1, <2>2, <2>3, SameLayout
    <2>5. Asking => HeaderSize + bytes_consumed' = e + 1
        <3> SUFFICES ASSUME Asking PROVE HeaderSize + bytes_consumed' = e + 1
            OBVIOUS
        <3>1. curr_offset = HeaderSize + bytes_consumed
            BY <2>1, <2>2, StatusFacts DEF Inv, Position
        <3>2. bytes_consumed' = bytes_consumed + 1
            BY <2>1, <2>2
        <3> QED
            BY <2>3, <3>1, <3>2, TypeFacts DEF HeaderSize
    <2>6. ~Asking => AnCount' = 1
        BY <2>1, CarriesKept DEF Reads, ReadsOwner, AnCount, Word, Byte
    <2> QED
        BY <1>1, <2>1, <2>2, <2>4, <2>5, <2>6 DEF Reads, ReadsQuestion, ReadsOwner
<1>8. CASE FollowPointer
    <2>1. /\ InName /\ IsPointer(Byte(curr_offset))
          /\ jumped' = TRUE /\ curr_offset' = Target(curr_offset)
          /\ UNCHANGED <<buffer, status, name>>
        BY <1>8 DEF FollowPointer, AtPointer, Decoding, InName
    <2>2. curr_offset \notin D
        BY <2>1, CarriedByte
    <2>3. ~Asking /\ ~jumped /\ ReadsOwner(D, e)
        BY <2>1, <2>2, StandsInName
    <2>4. curr_offset' = HeaderSize
        BY <2>1, <2>3, OwnerPointer
    <2>5. name = <<>> /\ AnCount = 1
        BY <2>1, <2>3 DEF ReadsOwner
    <2>6. Rendered(D, HeaderSize) = <<>> /\ Rendered(D, HeaderSize)' = Rendered(D, HeaderSize)
        <3>1. HeaderSize \in Nat /\ HeaderSize <= Size
            BY <1>4 DEF HeaderSize
        <3> QED
            BY <2>1, <3>1, TypeFacts, RenderedFacts, SameLayout DEF HeaderSize
    <2>7. (curr_offset \in D /\ name = Rendered(D, curr_offset))'
        BY <1>3, <2>1, <2>4, <2>5, <2>6 DEF Rendered
    <2>8. AnCount' = 1 /\ Active' /\ InName'
        BY <2>1, <2>5, StatusFacts DEF AnCount, Word, Byte, Active, InName
    <2> QED
        BY <1>1, <2>1, <2>3, <2>7, <2>8 DEF Reads, ReadsOwner
<1>9. CASE TakeLabel
    <2> DEFINE o == curr_offset
    <2>1. /\ InName /\ Byte(o) # 0 /\ ~IsPointer(Byte(o))
          /\ name' = Extended(LabelAt(o)) /\ curr_offset' = o + 1 + Byte(o)
          /\ UNCHANGED <<buffer, status, jumped>>
        BY <1>9 DEF TakeLabel, AtLabel, Decoding, InName
    <2>2. o \in D /\ name = Rendered(D, o) /\ (~Asking => jumped) /\ (Asking => ~jumped)
        BY <2>1, StandsInName, OwnerPointer
    <2>3. o # e
        BY <2>1, <2>2, CarriedByte
    <2>4. PICK next : next = o + 1 + Byte(o)
        OBVIOUS
    <2>5. next \in D /\ name' = Rendered(D, next)
        BY <1>3, <1>4, <2>1, <2>2, <2>3, <2>4, RenderedNext
    <2>6. Rendered(D, next)' = Rendered(D, next)
        BY <2>1, SameLayout
    <2>7. (curr_offset \in D /\ name = Rendered(D, curr_offset))'
        BY <2>1, <2>4, <2>5, <2>6 DEF Rendered
    <2>8. /\ Active' /\ InName' /\ (AtHeader' <=> AtHeader)
          /\ ~Asking => AnCount' = 1
        BY <2>1, StatusFacts DEF AnCount, Word, Byte, Active, InName, AtHeader, Reads, ReadsOwner
    <2> QED
        BY <1>1, <2>1, <2>2, <2>7, <2>8 DEF Reads, ReadsQuestion, ReadsOwner
<1>10. CASE Asking /\ ParseQuestion
    <2>1. status = "question" /\ Active /\ ~InName
        BY <1>10, StatusFacts DEF ParseQuestion
    <2>2. name = Rendered(D, e) /\ HeaderSize + bytes_consumed = e + 1 /\ ~jumped
        BY <1>10, <2>1 DEF Reads, ReadsQuestion
    <2>3. ~(HeaderSize + bytes_consumed + TailSize > Size)
        BY <1>4, <2>2 DEF TailSize
    <2>4. Fail("parsed")
        BY <1>10, <2>3 DEF ParseQuestion
    <2>5. /\ Active' /\ ~InName'
          /\ UNCHANGED <<buffer, name, jumped, bytes_consumed>>
        BY <2>4 DEF Fail, Active, InName
    <2>6. name' = Rendered(D, e)'
        BY <2>2, <2>5, SameLayout
    <2> QED
        BY <1>1, <1>10, <2>2, <2>5, <2>6 DEF Reads, ReadsQuestion
<1> QED
    BY <1>5, <1>6, <1>7, <1>8, <1>9, <1>10 DEF ParserStep, DecodeName, Asking

\* Behind the question the decoder goes on with the answer record.
LEMMA ReadsAnswer ==
    ASSUME Inv, NEW D \in SUBSET Nat, NEW e \in Nat, Carries(D, e), Reads(D, e),
           ReadAnswer
    PROVE  Reads(D, e)'
<1>1. /\ IsParsed /\ Asking /\ AnCount = 1 /\ buffer' = buffer
      /\ ~Asking' /\ Active' /\ InName' /\ ~jumped' /\ depth' = 0 /\ name' = <<>>
      /\ curr_offset' = HeaderSize + bytes_consumed + TailSize
    BY DEF ReadAnswer, IsParsed, Asking, Active, InName
<1>2. HeaderSize + bytes_consumed = e + 1
    BY <1>1, StatusFacts DEF Reads, ReadsQuestion
<1>3. curr_offset' = e + 5
    BY <1>1, <1>2 DEF TailSize
<1>4. AnCount' = 1
    BY <1>1 DEF AnCount, Word, Byte
<1> QED
    BY <1>1, <1>3, <1>4 DEF Reads, ReadsOwner

\* A reply carries the question of a query whose name is written out.
LEMMA ReplyCarries ==
    ASSUME Inv, WrittenOut, NEW packet, Replied(packet), Reply(packet), ~jumped
    PROVE  \E D \in SUBSET Nat, e \in Nat : Carries(D, e)' /\ Reads(D, e)'
<1>1. /\ IsParsed /\ buffer' = packet /\ query' = ParsedPacket /\ status' = "header"
      /\ jumped' = FALSE /\ section' = section
    BY DEF Reply, IsParsed
<1>2. Active /\ ~InName /\ Asking
    BY <1>1, StatusFacts DEF Inv, Stages
<1>3. PICK D \in SUBSET Nat : Layout(D, curr_offset) /\ name = Rendered(D, curr_offset)
    BY <1>2 DEF WrittenOut
<1>4. PICK e \in Nat : e = curr_offset
    BY TypeFacts
<1>5. /\ e < Size /\ Byte(e) = 0 /\ HeaderSize + bytes_consumed = e + 1
      /\ Layout(D, e) /\ name = Rendered(D, e)
    BY <1>2, <1>3, <1>4 DEF WrittenOut
<1>6. /\ packet \in Seq(Bytes) /\ packet[8] \in 0..1
      /\ Len(packet) = bytes_consumed + 16 + 16 * packet[8]
      /\ packet[1] = buffer[1] /\ packet[2] = buffer[2] /\ Flags(packet[3])
      /\ packet[5] = 0 /\ packet[6] = 1 /\ packet[7] = 0
      /\ \A i \in 13..(bytes_consumed + 16) : packet[i] = buffer[i]
      /\ packet[8] = 1 => /\ packet[bytes_consumed + 17] = 192
                          /\ packet[bytes_consumed + 18] = 12
    BY <1>1, RepliedFacts
<1>7. bytes_consumed = e - 11 /\ HeaderSize <= e /\ bytes_consumed \in Nat
    <2>1. HeaderSize <= e
        BY <1>5 DEF Layout, HeaderSize
    <2> QED
        BY <1>5, <2>1, TypeFacts DEF HeaderSize
<1>8. \A o : Byte(o)' = packet[o + 1]
    BY <1>1 DEF Byte
<1>9. \A o \in 12..(e + 4) : Byte(o)' = Byte(o)
    <2>1. \A o \in 12..(e + 4) : o + 1 \in 13..(bytes_consumed + 16)
        BY <1>7
    <2> QED
        BY <1>6, <1>8, <2>1 DEF Byte
<1>10. Layout(D, e)'
    <2>1. D \subseteq 12..e /\ 12 \in D /\ e \in D
        BY <1>5 DEF Layout, HeaderSize
    <2>2. ASSUME NEW o \in D \ {e}
          PROVE  /\ Byte(o)' \in 1..63 /\ o + 1 + Byte(o)' \in D
                 /\ \A k \in 1..(Byte(o)') : o + k \notin D /\ Printable(Byte(o + k)')
        <3>1. /\ Byte(o) \in 1..63 /\ o + 1 + Byte(o) \in D
              /\ \A k \in 1..Byte(o) : o + k \notin D /\ Printable(Byte(o + k))
            BY <1>5 DEF Layout
        <3>2. o \in 12..e /\ o + 1 + Byte(o) \in 12..e
            BY <2>1, <3>1
        <3>3. Byte(o)' = Byte(o)
            BY <1>9, <3>2
        <3>4. \A k \in 1..Byte(o) : o + k \in 12..(e + 4)
            BY <3>1, <3>2
        <3>5. \A k \in 1..Byte(o) : Byte(o + k)' = Byte(o + k)
            BY <1>9, <3>4
        <3> QED
            BY <3>1, <3>3, <3>5
    <2> QED
        BY <2>1, <2>2 DEF Layout, HeaderSize, Printable
<1>11. Rendered(D, e)' = Rendered(D, e)
    <2>1. \A i \in 1..(e - HeaderSize - 1) : HeaderSize + i \in 12..(e + 4)
        BY <1>7 DEF HeaderSize
    <2>2. \A i \in 1..(e - HeaderSize - 1) : Byte(HeaderSize + i)' = Byte(HeaderSize + i)
        BY <1>9, <2>1
    <2> QED
        BY <2>2 DEF Rendered
<1>12. /\ query'.name = name /\ query'.id = SubSeq(buffer, 1, 2)
       /\ query'.qtype = QTypeOf /\ query'.qclass = QClassOf
    BY <1>1 DEF ParsedPacket
<1>13. Byte(e)' = 0 /\ query'.name = Rendered(D, e)' /\ Len(query'.name) <= MaxName
    <2>1. e \in 12..(e + 4)
        BY <1>7 DEF HeaderSize
    <2> QED
        BY <1>5, <1>9, <1>11, <1>12, <2>1 DEF Inv, NormalName
<1>14. /\ Byte(2)' \in {129, 133} /\ Byte(4)' = 0 /\ Byte(5)' = 1
       /\ Byte(6)' = 0 /\ Byte(7)' = packet[8]
    <2>1. /\ Byte(2)' = packet[2 + 1] /\ Byte(4)' = packet[4 + 1] /\ Byte(5)' = packet[5 + 1]
          /\ Byte(6)' = packet[6 + 1] /\ Byte(7)' = packet[7 + 1]
        BY <1>8
    <2>2. /\ Byte(2)' = packet[3] /\ Byte(4)' = packet[5] /\ Byte(5)' = packet[6]
          /\ Byte(6)' = packet[7] /\ Byte(7)' = packet[8]
        BY <2>1
    <2> QED
        BY <1>6, <2>2 DEF Flags
<1>15. AnCount' = packet[8] /\ QdCount' = 1
    <2>1. AnCount' = 256 * Byte(6)' + Byte(7)' /\ QdCount' = 256 * Byte(4)' + Byte(5)'
        <3>1. AnCount' = 256 * Byte(6)' + Byte(6 + 1)' /\ QdCount' = 256 * Byte(4)' + Byte(4 + 1)'
            BY DEF AnCount, QdCount, Word
        <3>2. 6 + 1 = 7 /\ 4 + 1 = 5
            OBVIOUS
        <3> QED
            BY <3>1, <3>2
    <2> QED
        BY <1>6, <1>14, <2>1
<1>16. IsResponse' /\ OpcodeOf' = 0
    <2>1. /\ 129 >= 128 /\ 133 >= 128 /\ (129 \div 8) % 16 = 0 /\ (133 \div 8) % 16 = 0
        OBVIOUS
    <2> QED
        BY <1>14, <2>1 DEF IsResponse, OpcodeOf
<1>17. Size' = e + 5 + 16 * AnCount' /\ AnCount' \in 0..1
    <2>1. Size' = Len(packet)
        BY <1>1 DEF Size
    <2> QED
        BY <1>6, <1>7, <1>15, <2>1
<1>18. SubSeq(buffer, 1, 2)' = query'.id
    <2>1. \A i \in 1..2 : i = 1 \/ i = 2
        OBVIOUS
    <2>2. Len(packet) >= 2 /\ 2 <= Size /\ Len(packet) \in Nat /\ Size \in Nat
        <3>1. Len(packet) >= 16
            BY <1>6, <1>7
        <3>2. Size \in Nat
            BY TypeFacts
        <3> QED
            BY <1>5, <1>6, <1>7, <3>1, <3>2, LenProperties DEF HeaderSize
    <2>3. /\ \A i \in 1..2 : packet[i] \in Bytes
          /\ \A i \in 1..2 : buffer[i] \in Bytes
        BY <1>6, <2>2, TypeFacts, ElementOfSeq DEF Size
    <2>4. /\ SubSeq(packet, 1, 2) \in Seq(Bytes) /\ Len(SubSeq(packet, 1, 2)) = 2
          /\ \A i \in 1..2 : SubSeq(packet, 1, 2)[i] = packet[i]
        <3>1. /\ SubSeq(packet, 1, 2) \in Seq(Bytes)
              /\ Len(SubSeq(packet, 1, 2)) = IF 1 <= 2 THEN 2 - 1 + 1 ELSE 0
              /\ \A i \in 1..(2 - 1 + 1) : SubSeq(packet, 1, 2)[i] = packet[1 + i - 1]
            BY <2>3, SubSeqProperties
        <3> QED
            BY <3>1
    <2>5. /\ SubSeq(buffer, 1, 2) \in Seq(Bytes) /\ Len(SubSeq(buffer, 1, 2)) = 2
          /\ \A i \in 1..2 : SubSeq(buffer, 1, 2)[i] = buffer[i]
        <3>1. /\ SubSeq(buffer, 1, 2) \in Seq(Bytes)
              /\ Len(SubSeq(buffer, 1, 2)) = IF 1 <= 2 THEN 2 - 1 + 1 ELSE 0
              /\ \A i \in 1..(2 - 1 + 1) : SubSeq(buffer, 1, 2)[i] = buffer[1 + i - 1]
            BY <2>3, SubSeqProperties
        <3> QED
            BY <3>1
    <2>6. \A i \in 1..2 : SubSeq(packet, 1, 2)[i] = SubSeq(buffer, 1, 2)[i]
        BY <1>6, <2>1, <2>4, <2>5
    <2>7. SubSeq(packet, 1, 2) = SubSeq(buffer, 1, 2)
        BY <2>4, <2>5, <2>6, SeqEqual
    <2> QED
        BY <1>1, <1>12, <2>7
<1>19. Word(e + 1)' = query'.qtype /\ Word(e + 3)' = query'.qclass
    <2>1. /\ e + 1 \in 12..(e + 4) /\ e + 2 \in 12..(e + 4)
          /\ e + 3 \in 12..(e + 4) /\ e + 4 \in 12..(e + 4)
        BY <1>7 DEF HeaderSize
    <2>2. e + 1 + 1 = e + 2 /\ e + 3 + 1 = e + 4 /\ e + 1 + 2 = e + 3
        OBVIOUS
    <2>3. Word(e + 1)' = Word(e + 1) /\ Word(e + 3)' = Word(e + 3)
        BY <1>9, <2>1, <2>2 DEF Word
    <2>4. QTypeOf = Word(e + 1) /\ QClassOf = Word(e + 3)
        BY <1>5, <2>2 DEF QTypeOf, QClassOf
    <2> QED
        BY <1>12, <2>3, <2>4
<1>20. AnCount' = 1 => Byte(e + 5)' = 192 /\ Byte(e + 6)' = 12
    <2>1. e + 5 + 1 = bytes_consumed + 17 /\ e + 6 + 1 = bytes_consumed + 18
        BY <1>7
    <2> QED
        BY <1>6, <1>8, <1>15, <2>1
<1>21. Carries(D, e)'
    BY <1>10, <1>13, <1>15, <1>16, <1>17, <1>18, <1>19, <1>20 DEF Carries
<1>22. Reads(D, e)'
    <2>1. AtHeader' /\ ~Active' /\ ~InName' /\ ~jumped' /\ Asking'
        BY <1>1, <1>2 DEF AtHeader, Active, InName, Asking
    <2> QED
        BY <2>1 DEF Reads, ReadsQuestion
<1> QED
    BY <1>21, <1>22

-----------------------------------------------------------------------------
(* The replies.                                                            *)

\* A built reply carries the query's name, and reading it goes along that name.
LEMMA RepeatsKept == Inv /\ WrittenOut /\ Repeats /\ [ResponseNext]_rvars => Repeats'
<1> SUFFICES ASSUME Inv, WrittenOut, Repeats, [ResponseNext]_rvars,
                    query' # NoQuery, ~query'.jumped
             PROVE  \E D \in SUBSET Nat, e \in Nat : Carries(D, e)' /\ Reads(D, e)'
    BY DEF Repeats, NoQuery
<1>1. ASSUME NEW packet, Replied(packet), Reply(packet)
      PROVE  \E D \in SUBSET Nat, e \in Nat : Carries(D, e)' /\ Reads(D, e)'
    <2>1. query' = ParsedPacket
        BY <1>1 DEF Reply
    <2>2. ~jumped
        BY <2>1 DEF ParsedPacket
    <2> QED
        BY <1>1, <2>2, ReplyCarries
<1>2. ASSUME UNCHANGED <<buffer, query>>,
             ParserStep \/ ReadAnswer \/ UNCHANGED rvars
      PROVE  \E D \in SUBSET Nat, e \in Nat : Carries(D, e)' /\ Reads(D, e)'
    <2>1. PICK D \in SUBSET Nat, e \in Nat : Carries(D, e) /\ Reads(D, e)
        BY <1>2 DEF Repeats
    <2>2. Carries(D, e)'
        BY <1>2, <2>1, CarriesKept
    <2>3. CASE ParserStep \/ ReadAnswer
        BY <2>1, <2>2, <2>3, ReadsOn, ReadsAnswer
    <2>4. CASE UNCHANGED rvars
        <3>1. UNCHANGED <<buffer, status, curr_offset, jumped, depth, bytes_consumed,
                          name, section>>
            BY <2>4 DEF rvars, vars
        <3>2. UNCHANGED <<AtHeader, InName, IsParsed, Active, Asking, AnCount>>
            BY <3>1 DEF AtHeader, InName, IsParsed, Active, Asking, AnCount, Word, Byte
        <3>3. Rendered(D, e)' = Rendered(D, e)
              /\ Rendered(D, curr_offset)' = Rendered(D, curr_offset)
            BY <3>1 DEF Rendered, Byte
        <3>4. Reads(D, e)'
            BY <2>1, <3>1, <3>2, <3>3 DEF Reads, ReadsQuestion, ReadsOwner
        <3> QED
            BY <2>2, <3>4
    <2> QED
        BY <1>2, <2>3, <2>4
<1>3. ParserStep => UNCHANGED <<buffer, query>>
    BY DEF ParserStep, RejectHeader, ParseHeader, DecodeName, RunsOff, EndOfName,
           RejectPointer, FollowPointer, RejectLabel, TakeLabel, ParseQuestion, Fail
<1>4. ReadAnswer => UNCHANGED <<buffer, query>>
    BY DEF ReadAnswer
<1>5. UNCHANGED rvars => UNCHANGED <<buffer, query>>
    BY DEF rvars, vars
<1> QED
    BY <1>1, <1>2, <1>3, <1>4, <1>5, RepliesAre DEF ResponseNext

\* The invariant with what it says of replies.
LEMMA RepliesHold == ResponseSpec => []IInv
<1>1. ResponseInit => WrittenOut /\ Repeats
    BY DEF ResponseInit, Init, WrittenOut, Repeats, Active
<1>2. ResponseInit => IInv
    BY <1>1, InitEstablishes DEF IInv
<1>3. IInv /\ [ResponseNext]_rvars => IInv'
    BY NextKeeps, WrittenOutKept, RepeatsKept DEF IInv
<1> QED
    BY <1>2, <1>3, PTL DEF ResponseSpec

\* A reply to a query whose name is written out repeats what was asked and
\* answers it: read back, it has the id of the query, its name, type and
\* class, and the answer record's owner is that name; nothing else is behind
\* (response.cpp:7-90).  Names with a pointer are left out: one that points
\* into the header of its query reads differently in the reply, whose header
\* is another.
THEOREM RepliesRepeatQuestion == ResponseSpec => []ReplyRepeatsQuestion
<1>1. IInv => ReplyRepeatsQuestion
  <2> SUFFICES ASSUME IInv, query # NoQuery, ~query.jumped
               PROVE  /\ status \notin Errors
                      /\ SubSeq(buffer, 1, 2) = query.id /\ IsResponse
                      /\ status = "parsed" =>
                           /\ name = query.name
                           /\ QTypeOf = query.qtype /\ QClassOf = query.qclass
                           /\ Size = HeaderSize + bytes_consumed + TailSize + 16 * AnCount
                      /\ section = "answer" /\ status = "question" => name = query.name
    BY DEF ReplyRepeatsQuestion
  <2>1. PICK D \in SUBSET Nat, e \in Nat : Carries(D, e) /\ Reads(D, e)
    BY DEF IInv, Repeats
  <2>2. AtHeader \/ Active
    BY <2>1 DEF Reads, ReadsQuestion, ReadsOwner
  <2>3. status \notin Errors
    BY <2>2, StatusFacts
  <2>4. SubSeq(buffer, 1, 2) = query.id /\ IsResponse
    BY <2>1 DEF Carries
  <2>5. ASSUME status = "parsed"
        PROVE  /\ name = query.name
               /\ QTypeOf = query.qtype /\ QClassOf = query.qclass
               /\ Size = HeaderSize + bytes_consumed + TailSize + 16 * AnCount
    <3>1. IsParsed /\ Active /\ ~InName /\ Asking
        BY <2>5, StatusFacts DEF IsParsed, IInv, Inv, Stages
    <3>2. name = Rendered(D, e) /\ HeaderSize + bytes_consumed = e + 1
        BY <2>1, <3>1 DEF Reads, ReadsQuestion
    <3>3. QTypeOf = Word(e + 1) /\ QClassOf = Word(e + 3)
        <4>1. HeaderSize + bytes_consumed + 2 = e + 3
            BY <3>2
        <4> QED
            BY <3>2, <4>1 DEF QTypeOf, QClassOf
    <3>4. Size = HeaderSize + bytes_consumed + TailSize + 16 * AnCount
        <4>1. Size = e + 5 + 16 * AnCount /\ AnCount \in 0..1
            BY <2>1 DEF Carries
        <4> QED
            BY <3>2, <4>1 DEF TailSize
    <3> QED
        BY <2>1, <3>2, <3>3, <3>4 DEF Carries
  <2>6. section = "answer" /\ status = "question" => name = query.name
    <3>1. section = "answer" /\ status = "question" => ~Asking /\ ~InName
        BY DEF Asking, InName
    <3>2. ~Asking /\ ~InName => name = Rendered(D, e)
        BY <2>1 DEF Reads, ReadsOwner
    <3> QED
        BY <2>1, <3>1, <3>2 DEF Carries
  <2> QED
    BY <2>3, <2>4, <2>5, <2>6
<1> QED
    BY <1>1, RepliesHold, PTL

=============================================================================
