------------------------------ MODULE PacketProofs -----------------------------
(***************************************************************************)
(* What is proved of the way from a stream of bytes to the value of a      *)
(* field: the packet iterator and the decode command that drains it, the   *)
(* cursor that reads a packet, and the conversions that follow a read.     *)
(***************************************************************************)
EXTENDS DecodeCommand, Reads, SequenceTheorems, FiniteSetTheorems, Lists

(***************************************************************************)
(* The iterator and the command, for every stream, wrapper length, header  *)
(* length, limit and answer of the decoder.  The iterator's inductive      *)
(* invariant is its type invariant with Accounted: the items returned so   *)
(* far tile the stream up to the offset, or up to its end if the last of   *)
(* them is an error.  Every step of the command is a step of the iterator  *)
(* it drains, so this holds of the command too; Tallied adds that what has *)
(* been counted is what has been returned.                                 *)
(***************************************************************************)
\* What the assumptions say of the stream and the wrapper at hand.
LEMMA StreamFacts ==
  ASSUME FramingTypeOK
  PROVE  /\ stream \in Seq(Bytes)
         /\ Len(stream) \in Nat
         /\ 2 * Len(stream) <= MAX_USIZE
         /\ skip \in Nat
         /\ skip <= MAX_USIZE
         /\ MAX_USIZE \in Nat
BY StreamAssumption, SkipAssumption, LenProperties DEF FramingTypeOK

\* A header that lies in the stream declares a length, and more than a header.
LEMMA DeclaredLength ==
  ASSUME FramingTypeOK, NEW o \in Nat, o + PRIMARY_HEADER_BYTES <= Len(stream)
  PROVE  Declared(o) \in Nat /\ Declared(o) > 0
<1> DEFINE high == At(o + PRIMARY_HEADER_BYTES - 2)
           low  == At(o + PRIMARY_HEADER_BYTES - 1)
<1>1. \A i \in 1 .. Len(stream) : stream[i] \in 0 .. 255
  BY StreamFacts, ElementOfSeq, ByteAssumption
<1>2. /\ (o + PRIMARY_HEADER_BYTES - 2) + 1 \in 1 .. Len(stream)
      /\ (o + PRIMARY_HEADER_BYTES - 1) + 1 \in 1 .. Len(stream)
  BY StreamFacts, HeaderAssumption
<1>3. high \in 0 .. 255 /\ low \in 0 .. 255
  BY <1>1, <1>2 DEF At
<1>4. Declared(o) = PRIMARY_HEADER_BYTES + 256 * high + low + 1
  BY DEF Declared
<1> HIDE DEF high, low
<1> QED
  BY <1>3, <1>4, HeaderAssumption

\* What one call of next does, as far as the invariants need to know.
Rests  == UNCHANGED <<offset, items, finished>>
Ends ==
  /\ ~ finished
  /\ finished' \in BOOLEAN
  /\ UNCHANGED <<offset, items>>
  /\ Remaining <= 0
Yields ==
  /\ ~ finished
  /\ UNCHANGED finished
  /\ Declared(Start) \in Nat
  /\ Declared(Start) > 0
  /\ Start + Declared(Start) <= Len(stream)
  /\ offset' = Start + Declared(Start)
  /\ items' = Append(items, Packet(Start, Declared(Start)))
Errs ==
  /\ ~ finished
  /\ finished' = TRUE
  /\ UNCHANGED offset
  /\ Remaining > 0
  /\ \E item \in {ShortHeader(Start, Remaining), ShortPacket(Start, Remaining)} :
       items' = Append(items, item)

\* The four ways a call of next can go.
LEMMA FramingSteps ==
  ASSUME FramingTypeOK, [FramingNext]_framingVars
  PROVE  UNCHANGED <<stream, skip>> /\ (Rests \/ Ends \/ Yields \/ Errs)
<1>1. CASE EndOfStream
  <2>1. finished' \in BOOLEAN
    BY <1>1 DEF EndOfStream
  <2> QED
    BY <1>1, <2>1 DEF EndOfStream, Ends
<1>2. CASE YieldShortHeader
  BY <1>2 DEF YieldShortHeader, Errs
<1>3. CASE YieldShortPacket
  <2>1. Remaining > 0
    BY <1>3, StreamFacts, HeaderAssumption
       DEF YieldShortPacket, HasHeader, Remaining, Start, FramingTypeOK
  <2> QED
    BY <1>3, <2>1 DEF YieldShortPacket, HasHeader, Errs
<1>4. CASE YieldPacket
  <2>1. /\ Start \in Nat
        /\ Remaining = Len(stream) - Start
        /\ Start + PRIMARY_HEADER_BYTES <= Len(stream)
    BY <1>4, StreamFacts, HeaderAssumption
       DEF YieldPacket, HasHeader, Remaining, Start, FramingTypeOK
  <2>2. Declared(Start) \in Nat /\ Declared(Start) > 0
    BY <2>1, DeclaredLength
  <2>3. Start + Declared(Start) <= Len(stream)
    BY <1>4, <2>1, <2>2, StreamFacts DEF YieldPacket
  <2> QED
    BY <1>4, <2>2, <2>3 DEF YieldPacket, HasHeader, Yields
<1>5. CASE UNCHANGED framingVars
  BY <1>5 DEF framingVars, Rests
<1> QED
  <2>1. UNCHANGED <<stream, skip>>
    BY DEF FramingNext, framingVars, EndOfStream, YieldShortHeader,
       YieldShortPacket, YieldPacket
  <2> QED
    BY <1>1, <1>2, <1>3, <1>4, <1>5, <2>1 DEF FramingNext

\* The offset never leaves the stream, and what is returned is an item.
THEOREM FramingTyping == FramingSafety => []FramingTypeOK
<1>1. FramingInit => FramingTypeOK
  <2> SUFFICES ASSUME FramingInit PROVE FramingTypeOK
    OBVIOUS
  <2>1. Len(stream) \in Nat
    BY StreamAssumption, LenProperties DEF FramingInit
  <2>2. items \in Seq(Items)
    BY EmptySeq DEF FramingInit
  <2>3. finished \in BOOLEAN
    BY DEF FramingInit
  <2>4. offset \in 0 .. Len(stream)
    BY <2>1 DEF FramingInit
  <2> QED
    BY <2>2, <2>3, <2>4 DEF FramingInit, FramingTypeOK
<1>2. FramingTypeOK /\ [FramingNext]_framingVars => FramingTypeOK'
  <2> SUFFICES ASSUME FramingTypeOK, [FramingNext]_framingVars
               PROVE  FramingTypeOK'
    OBVIOUS
  <2>1. /\ Len(stream) \in Nat /\ Start \in Nat
        /\ Remaining = Len(stream) - Start
        /\ items \in Seq(Items)
    BY StreamFacts DEF FramingTypeOK, Start, Remaining
  <2>2. \A item \in Items : Append(items, item) \in Seq(Items)
    BY <2>1, AppendProperties
  <2>3. offset' \in 0 .. Len(stream')
    <3>1. stream' = stream /\ offset \in 0 .. Len(stream)
      BY FramingSteps DEF FramingTypeOK
    <3>2. CASE Yields
      BY <2>1, <3>1, <3>2 DEF Yields
    <3>3. CASE offset' = offset
      BY <3>1, <3>3
    <3> QED
      BY <3>2, <3>3, FramingSteps DEF Rests, Ends, Errs
  <2>4. finished' \in BOOLEAN
    BY FramingSteps DEF FramingTypeOK, Rests, Ends, Yields, Errs
  <2>5. items' \in Seq(Items)
    <3>1. CASE Yields
      <4>1. Packet(Start, Declared(Start)) \in Items
        BY <2>1, <3>1 DEF Yields, Packet, Items
      <4> QED
        BY <2>2, <3>1, <4>1 DEF Yields
    <3>2. CASE Errs
      <4>1. \A item \in {ShortHeader(Start, Remaining), ShortPacket(Start, Remaining)} :
              item \in Items
        <5>1. Remaining > 0
          BY <3>2 DEF Errs
        <5>2. Remaining \in Nat
          BY <2>1, <5>1
        <5> QED
          BY <2>1, <5>2 DEF Items, ShortHeader, ShortPacket
      <4> QED
        BY <2>2, <3>2, <4>1 DEF Errs
    <3> QED
      BY <2>1, <3>1, <3>2, FramingSteps DEF Rests, Ends
  <2> QED
    BY <2>3, <2>4, <2>5, FramingSteps DEF FramingTypeOK
<1> QED
  BY <1>1, <1>2, PTL DEF FramingSafety

\* Every wrapper is added to an offset inside the stream, or to 0 when it is
\* the first, and the sum fits: the iterator never gives up by overflow.
THEOREM OffsetsFit == FramingSafety => []OffsetsDoNotOverflow
<1> DEFINE IInv == OffsetsDoNotOverflow /\ (offset > 0 => skip <= Len(stream))
<1>1. FramingInit => IInv
  BY SkipAssumption DEF FramingInit, OffsetsDoNotOverflow, Start
<1>2. FramingTypeOK /\ IInv /\ [FramingNext]_framingVars => IInv'
  <2> SUFFICES ASSUME FramingTypeOK, IInv, [FramingNext]_framingVars PROVE IInv'
    OBVIOUS
  <2>1. stream' = stream /\ skip' = skip
    BY FramingSteps
  <2>2. CASE Yields
    <3>1. /\ offset' \in Nat /\ offset' <= Len(stream) /\ skip <= Len(stream)
      BY <2>2, StreamFacts DEF Yields, Start, FramingTypeOK
    <3> QED
      BY <2>1, <3>1, StreamFacts DEF OffsetsDoNotOverflow, Start
  <2>3. CASE offset' = offset
    BY <2>1, <2>3 DEF OffsetsDoNotOverflow, Start
  <2> QED
    BY <2>2, <2>3, FramingSteps DEF Rests, Ends, Errs
<1> QED
  BY <1>1, <1>2, FramingTyping, PTL DEF FramingSafety

\* While the iterator is not finished it has returned packets only, and its
\* offset is where the last of them ended.
OffsetIsEnd ==
  ~ finished =>
    /\ offset = EndOf(items, Len(items))
    /\ \A i \in 1 .. Len(items) : IsPacket(items[i])

\* One item more, placed where the last one ended, and the tiling holds.
LEMMA OneMoreTile ==
  ASSUME FramingTypeOK, Tiles(items), OffsetIsEnd, ~ finished,
         NEW item \in Items,
         item.start = offset + skip,
         item.length > 0,
         item.start + item.length <= Len(stream),
         IF IsPacket(item) THEN item.length = Declared(item.start)
         ELSE item.start + item.length = Len(stream)
  PROVE  LET new == Append(items, item) IN
         /\ Tiles(new)
         /\ EndOf(new, Len(new)) = item.start + item.length
         /\ IsPacket(item) => \A i \in 1 .. Len(new) : IsPacket(new[i])
<1> DEFINE n   == Len(items)
           new == Append(items, item)
<1>1. n \in Nat /\ items \in Seq(Items)
  BY LenProperties DEF FramingTypeOK
<1>2. /\ Len(new) = n + 1
      /\ \A i \in 1 .. n : new[i] = items[i]
      /\ new[n + 1] = item
  BY <1>1, AppendProperties
<1> HIDE DEF new
<1>3. \A i \in 0 .. n : EndOf(new, i) = EndOf(items, i)
  BY <1>1, <1>2 DEF EndOf
<1>4. EndOf(new, n + 1) = item.start + item.length
  BY <1>1, <1>2 DEF EndOf
<1>5. offset = EndOf(new, n) /\ \A i \in 1 .. n : IsPacket(new[i])
  BY <1>1, <1>2, <1>3 DEF OffsetIsEnd
<1>6. Tiles(new)
  <2> SUFFICES ASSUME NEW i \in 1 .. n + 1
               PROVE  /\ new[i].start = EndOf(new, i - 1) + skip
                      /\ new[i].length > 0
                      /\ EndOf(new, i) <= Len(stream)
                      /\ IF IsPacket(new[i]) THEN new[i].length = Declared(new[i].start)
                         ELSE EndOf(new, i) = Len(stream) /\ i = Len(new)
    BY <1>2 DEF Tiles
  <2>1. CASE i \in 1 .. n
    <3>1. i \in 0 .. n /\ i - 1 \in 0 .. n
      BY <1>1, <2>1
    <3>2. /\ items[i].start = EndOf(items, i - 1) + skip
          /\ items[i].length > 0
          /\ EndOf(items, i) <= Len(stream)
          /\ IsPacket(items[i]) => items[i].length = Declared(items[i].start)
      BY <2>1 DEF Tiles
    <3> QED
      BY <1>2, <1>3, <1>5, <2>1, <3>1, <3>2
  <2>2. CASE i = n + 1
    <3>1. i - 1 = n
      BY <1>1, <2>2
    <3> QED
      BY <1>2, <1>4, <1>5, <2>2, <3>1
  <2> QED
    BY <1>1, <2>1, <2>2
<1>7. IsPacket(item) => \A i \in 1 .. Len(new) : IsPacket(new[i])
  BY <1>1, <1>2, <1>5
<1> QED
  BY <1>2, <1>4, <1>6, <1>7 DEF new

\* The inductive invariant: what has been returned tiles the stream, and
\* nothing but wrapper bytes is left behind when the iterator finishes.
Accounted == ItemsTileStream /\ OffsetIsEnd /\ NoSilentTail

\* Every call of next keeps the accounts.
LEMMA AccountedStep ==
  ASSUME FramingTypeOK, Accounted, [FramingNext]_framingVars
  PROVE  Accounted'
<1>1. stream' = stream /\ skip' = skip /\ (Rests \/ Ends \/ Yields \/ Errs)
  BY FramingSteps
<1>2. /\ Len(stream) \in Nat /\ skip \in Nat /\ Start = offset + skip
      /\ Start \in Nat /\ Remaining = Len(stream) - Start
  BY StreamFacts DEF FramingTypeOK, Start, Remaining
<1>3. Remaining > 0 => Remaining \in Nat /\ Start + Remaining = Len(stream)
  <2>1. Len(stream) \in Nat /\ Start \in Nat /\ Remaining = Len(stream) - Start
    BY <1>2
  <2> QED
    BY <2>1
<1>4. CASE Rests
  BY <1>1, <1>4 DEF Rests, Accounted, ItemsTileStream, Tiles, EndOf, Declared, At,
     OffsetIsEnd, NoSilentTail
<1>5. CASE Ends
  <2>1. /\ offset = EndOf(items, Len(items))
        /\ \A i \in 1 .. Len(items) : IsPacket(items[i])
    BY <1>5 DEF Ends, Accounted, OffsetIsEnd
  <2>2. Len(stream) - offset <= skip
    BY <1>2, <1>5 DEF Ends, FramingTypeOK
  <2> QED
    BY <1>1, <1>5, <2>1, <2>2 DEF Ends, Accounted, ItemsTileStream, Tiles, EndOf,
       Declared, At, OffsetIsEnd, NoSilentTail
<1>6. CASE Yields
  <2> DEFINE item == Packet(Start, Declared(Start))
  <2>1. item \in Items /\ IsPacket(item)
    BY <1>2, <1>6 DEF Yields, Packet, Items, IsPacket
  <2>2. /\ Tiles(Append(items, item))
        /\ EndOf(Append(items, item), Len(Append(items, item))) = Start + Declared(Start)
        /\ \A i \in 1 .. Len(Append(items, item)) : IsPacket(Append(items, item)[i])
    <3>1. item.start = Start /\ item.length = Declared(Start)
      BY DEF Packet
    <3> HIDE DEF item
    <3> QED
      BY <1>2, <1>6, <2>1, <3>1, OneMoreTile DEF Yields, Accounted, ItemsTileStream
  <2>3. items' = Append(items, item) /\ offset' = Start + Declared(Start) /\ ~ finished'
    BY <1>6 DEF Yields
  <2> HIDE DEF item
  <2> QED
    BY <1>1, <2>2, <2>3 DEF Accounted, ItemsTileStream, Tiles, EndOf, Declared, At,
       OffsetIsEnd, NoSilentTail
<1>7. CASE Errs
  <2>1. Remaining \in Nat /\ Remaining > 0 /\ Start + Remaining = Len(stream)
    BY <1>3, <1>7 DEF Errs
  <2>2. PICK item \in Items :
          /\ items' = Append(items, item)
          /\ ~ IsPacket(item)
          /\ item.start = Start
          /\ item.length = Remaining
    <3>1. PICK item \in {ShortHeader(Start, Remaining), ShortPacket(Start, Remaining)} :
            items' = Append(items, item)
      BY <1>7 DEF Errs
    <3>2. item \in Items
      BY <1>2, <2>1 DEF Items, ShortHeader, ShortPacket
    <3>3. ~ IsPacket(item) /\ item.start = Start /\ item.length = Remaining
      BY DEF IsPacket, ShortHeader, ShortPacket
    <3> QED
      BY <3>1, <3>2, <3>3
  <2>3. Tiles(items) /\ OffsetIsEnd /\ ~ finished
    BY <1>7 DEF Errs, Accounted, ItemsTileStream
  <2>4. /\ item.start = offset + skip
        /\ item.length > 0
        /\ item.start + item.length = Len(stream)
    BY <1>2, <2>1, <2>2
  <2>5. item.start + item.length <= Len(stream)
    BY <1>2, <2>4
  <2>6. /\ Tiles(Append(items, item))
        /\ EndOf(Append(items, item), Len(Append(items, item))) = Len(stream)
    BY <2>2, <2>3, <2>4, <2>5, OneMoreTile
  <2>7. ItemsTileStream' /\ OffsetIsEnd'
    BY <1>1, <1>7, <2>2, <2>6
       DEF Errs, ItemsTileStream, Tiles, EndOf, Declared, At, OffsetIsEnd
  <2>8. NoSilentTail'
    <3>1. EndOf(items', Len(items')) = Len(stream')
      BY <1>1, <2>2, <2>6
    <3>2. Len(stream') \in Nat /\ skip' \in Nat
      BY <1>1, <1>2
    <3>3. Len(stream') - Len(stream') <= skip'
      BY <3>2
    <3> QED
      BY <3>1, <3>3 DEF NoSilentTail, EndOf
  <2> QED
    BY <2>7, <2>8 DEF Accounted
<1> QED
  BY <1>1, <1>4, <1>5, <1>6, <1>7

\* Accounted holds all along.
LEMMA FramingIsAccounted == FramingSafety => []Accounted
<1>1. FramingInit => Accounted
  BY EmptySeq DEF FramingInit, Accounted, ItemsTileStream, Tiles, OffsetIsEnd,
     NoSilentTail, EndOf
<1> QED
  BY <1>1, AccountedStep, FramingTyping, PTL DEF FramingSafety

\* No byte of the stream is read into two packets or lost between them.
THEOREM FramingTiles == FramingSafety => []ItemsTileStream
BY FramingIsAccounted, PTL DEF FramingSafety, Accounted

\* A truncated tail is never dropped in silence.
THEOREM TailIsReported == FramingSafety => []NoSilentTail
BY FramingIsAccounted, PTL DEF FramingSafety, Accounted

(***************************************************************************)
(* The command.                                                            *)
(***************************************************************************)
\* The command moves the iterator only by calling next.
LEMMA CommandMovesByNext ==
  ASSUME [CommandNext]_commandVars
  PROVE  [FramingNext]_framingVars
BY DEF CommandNext, commandVars, StopAtLimit, AbortOnFramingError, DecodePacket,
   Summarise, FramingNext

\* What holds of the iterator by itself holds of it inside the command.
LEMMA CommandFrames == CommandSpec => [](FramingTypeOK /\ Accounted)
<1>1. CommandInit => FramingInit
  BY DEF CommandInit
<1> QED
  BY <1>1, CommandMovesByNext, FramingTyping, FramingIsAccounted, PTL
     DEF CommandSpec, FramingSafety

Counts == [total : Nat, decoded : Nat, trailing : Nat, unrecognised : Nat,
           failed : Nat]

\* The inductive invariant.  While the command runs the iterator has not
\* finished, and every item it has returned has been counted.
Tallied ==
  /\ limit \in Limits
  /\ count \in Counts
  /\ status \in {"running", "ok", "failed", "badlyFramed"}
  /\ CountsAddUp
  /\ status = "running" => ~ finished /\ Len(items) = count.total
  /\ ItemsAreCounted
  /\ OkMeansAllSeen

\* The answer of one decode moves the counts as they should.
LEMMA TallyAdds ==
  ASSUME count \in Counts, CountsAddUp, status = "running",
         NEW answer \in Answers
  PROVE  LET new == Tally(answer) IN
         /\ new \in Counts
         /\ new.total = count.total + 1
         /\ new.total = new.decoded + new.unrecognised + new.failed
         /\ new.trailing <= new.decoded
<1> DEFINE new == Tally(answer)
<1>1. CASE answer = "decoded"
  BY <1>1 DEF Counts, CountsAddUp, Tally, One, Decodings
<1>2. CASE answer = "decodedTrailing"
  BY <1>2 DEF Counts, CountsAddUp, Tally, One, Decodings
<1>3. CASE answer = "notDescribed"
  BY <1>3 DEF Counts, CountsAddUp, Tally, One, Decodings
<1>4. CASE answer = "failed"
  BY <1>4 DEF Counts, CountsAddUp, Tally, One, Decodings
<1> QED
  BY <1>1, <1>2, <1>3, <1>4 DEF Answers, Decodings

\* An item more: the ones before it stay what they were.
LEMMA OneMoreItem ==
  ASSUME items \in Seq(Items), NEW item
  PROVE  /\ Len(Append(items, item)) = Len(items) + 1
         /\ \A i \in 1 .. Len(items) : Append(items, item)[i] = items[i]
         /\ Len(items) \in Nat
BY LenProperties, AppendProperties

\* A call of next that returns something returns one item.
LEMMA ItemReturned ==
  ASSUME FramingTypeOK, YieldPacket \/ YieldShortHeader \/ YieldShortPacket
  PROVE  /\ stream' = stream /\ skip' = skip
         /\ Len(items') = Len(items) + 1
         /\ \A i \in 1 .. Len(items) : items'[i] = items[i]
         /\ YieldPacket => finished' = finished
         /\ Len(items) \in Nat
BY OneMoreItem DEF FramingTypeOK, YieldPacket, YieldShortHeader, YieldShortPacket

\* Every step of the command keeps the counts in step with the items.
LEMMA TalliedStep ==
  ASSUME FramingTypeOK, Accounted, Tallied, [CommandNext]_commandVars
  PROVE  Tallied'
<1>1. CASE StopAtLimit
  <2>1. /\ status = "running" /\ LimitReached
        /\ status' \in {"ok", "failed"} /\ (status' = "ok" => count.failed = 0)
        /\ limit' = limit /\ count' = count
    BY <1>1 DEF StopAtLimit, Exit, Tallied, Counts
  <2>2. LimitReached'
    BY <2>1 DEF LimitReached
  <2>3. /\ Len(items') = count'.total + 1
        /\ \A i \in 1 .. count'.total : IsPacket(items'[i])
    BY <1>1, <2>1, ItemReturned
       DEF StopAtLimit, Tallied, Accounted, OffsetIsEnd, IsPacket
  <2>4. CountsAddUp'
    BY <2>1 DEF Tallied, CountsAddUp
  <2> QED
    BY <2>1, <2>2, <2>3, <2>4 DEF Tallied, ItemsAreCounted, OkMeansAllSeen
<1>2. CASE AbortOnFramingError
  <2>1. /\ status = "running" /\ status' = "badlyFramed" /\ limit' = limit
        /\ count' = [count EXCEPT !.total = @ + 1]
        /\ Len(items) = count.total
    BY <1>2 DEF AbortOnFramingError, Tallied
  <2>2. count' \in Counts /\ count'.total = count.total + 1
    BY <2>1 DEF Tallied, Counts
  <2>3. CountsAddUp'
    BY <2>1 DEF Tallied, Counts, CountsAddUp
  <2>4. Len(items') = count'.total
    BY <1>2, <2>1, <2>2, ItemReturned DEF AbortOnFramingError
  <2> QED
    BY <2>1, <2>2, <2>3, <2>4 DEF Tallied, ItemsAreCounted, OkMeansAllSeen
<1>3. ASSUME NEW answer \in Answers, DecodePacket(answer) PROVE Tallied'
  <2>1. /\ status = "running" /\ status' = status /\ limit' = limit
        /\ count' = Tally(answer) /\ YieldPacket
        /\ Len(items) = count.total /\ ~ finished
    BY <1>3 DEF DecodePacket, Tallied
  <2>2. /\ count' \in Counts /\ count'.total = count.total + 1
        /\ count'.total = count'.decoded + count'.unrecognised + count'.failed
        /\ count'.trailing <= count'.decoded
    BY <2>1, TallyAdds DEF Tallied
  <2>3. CountsAddUp'
    <3>1. count'.decoded + count'.unrecognised + count'.failed + 0
            = count'.decoded + count'.unrecognised + count'.failed
      BY <2>2 DEF Counts
    <3> QED
      BY <2>1, <2>2, <3>1 DEF CountsAddUp
  <2>4. Len(items') = count'.total /\ ~ finished'
    BY <2>1, <2>2, ItemReturned
  <2> QED
    BY <2>1, <2>2, <2>3, <2>4 DEF Tallied, ItemsAreCounted, OkMeansAllSeen
<1>4. CASE Summarise
  <2>1. /\ status = "running" /\ EndOfStream
        /\ status' \in {"ok", "failed"} /\ (status' = "ok" => count.failed = 0)
        /\ limit' = limit /\ count' = count /\ items' = items
        /\ stream' = stream /\ skip' = skip
    BY <1>4 DEF Summarise, EndOfStream, Exit, Tallied, Counts
  <2>2. Len(items') = count'.total /\ CountsAddUp'
    BY <2>1 DEF Tallied, CountsAddUp
  <2>3. \A i \in 1 .. count'.total : IsPacket(items'[i])
    BY <2>1 DEF Tallied, Accounted, OffsetIsEnd, IsPacket
  <2>4. Len(stream') - EndOf(items', Len(items')) <= skip'
    <3>1. offset = EndOf(items, Len(items))
      BY <2>1 DEF Tallied, Accounted, OffsetIsEnd
    <3>2. Len(stream) - offset <= skip
      BY <2>1, StreamFacts DEF EndOfStream, Remaining, Start, FramingTypeOK
    <3> QED
      BY <2>1, <3>1, <3>2
  <2> QED
    BY <2>1, <2>2, <2>3, <2>4 DEF Tallied, ItemsAreCounted, OkMeansAllSeen, EndOf
<1>5. CASE UNCHANGED commandVars
  BY <1>5 DEF commandVars, framingVars, Tallied, CountsAddUp, ItemsAreCounted,
     LimitReached, OkMeansAllSeen, EndOf, IsPacket
<1> QED
  BY <1>1, <1>2, <1>3, <1>4, <1>5 DEF CommandNext

\* What has been counted is what has been returned, all along.
LEMMA CommandIsTallied == CommandSpec => []Tallied
<1>1. CommandInit => Tallied
  BY DEF CommandInit, FramingInit, Tallied, Counts, CountsAddUp, ItemsAreCounted,
     OkMeansAllSeen
<1> QED
  BY <1>1, TalliedStep, CommandFrames, PTL DEF CommandSpec

\* The command's variables have their types, the iterator's among them.
THEOREM CommandTyping == CommandSpec => []CommandTypeOK
<1>1. FramingTypeOK /\ Tallied => CommandTypeOK
  BY DEF Tallied, Counts, CommandTypeOK
<1> QED
  BY <1>1, CommandIsTallied, CommandFrames, PTL

\* The figures of the summary add up, and trailing packets are decoded ones.
THEOREM CountsAlwaysAddUp == CommandSpec => []CountsAddUp
BY CommandIsTallied, PTL DEF Tallied

\* No item is lost between the iterator and the summary, but for the one taken
\* to find that the limit has been reached.
THEOREM EveryItemCounted == CommandSpec => []ItemsAreCounted
BY CommandIsTallied, PTL DEF Tallied

\* Success means that nothing failed and nothing was passed over.
THEOREM OkIsEarned == CommandSpec => []OkMeansAllSeen
BY CommandIsTallied, PTL DEF Tallied

(***************************************************************************)
(* The cursor, for every size of a byte and of a word, every packet, width *)
(* and position.  A packet is a stream of binary digits with zeros behind  *)
(* it; a load, a shift and a mask are each a statement about the number of *)
(* a window of that stream.                                                *)
(***************************************************************************)
\* Two to the n, step by step.
LEMMA Pow2Follows ==
  ASSUME NEW n \in Nat
  PROVE  \E h \in [0 .. n -> Nat \ {0}] :
           Pow2(n) = h[n] /\ h[0] = 1 /\ \A j \in 1 .. n : h[j] = 2 * h[j - 1]
<1> DEFINE V == Nat \ {0}
           Solves(g) == g = [k \in 0 .. n |-> IF k = 0 THEN 1 ELSE 2 * g[k - 1]]
           upto == CHOOSE g : Solves(g)
           step == [p \in (1 .. n) \X V |-> 2 * p[2]]
           x == 1
<1>1. \A j \in 1 .. n : \A v \in V : step[<<j, v>>] = 2 * v
  OBVIOUS
<1>2. \A v \in V : 2 * v \in V
  OBVIOUS
<1>3. x \in V
  OBVIOUS
<1> HIDE DEF step, V, x
<1>4. StaysIn(V, step, n)
  BY <1>1, <1>2 DEF StaysIn
<1>5. PICK g \in [0 .. n -> V] :
        g = [j \in 0 .. n |-> IF j = 0 THEN x ELSE step[<<j, g[j - 1]>>]]
  BY <1>3, <1>4, ChainRecursion
<1>6. Solves(g)
  <2>1. \A j \in 0 .. n : j # 0 => j \in 1 .. n /\ g[j - 1] \in V
    BY <1>5
  <2>2. \A j \in 0 .. n : g[j] = IF j = 0 THEN 1 ELSE 2 * g[j - 1]
    BY <1>1, <1>5, <2>1 DEF x
  <2> QED BY <1>5, <2>2
<1>7. Solves(upto)
  <2> HIDE DEF Solves
  <2> QED BY <1>6
<1>8. Pow2(n) = upto[n]
  BY DEF Pow2
<1> HIDE DEF upto
<1>9. upto[0] = 1 /\ \A j \in 1 .. n : upto[j] = 2 * upto[j - 1]
  <2>1. \A j \in 0 .. n : upto[j] = IF j = 0 THEN 1 ELSE 2 * upto[j - 1]
    BY <1>7
  <2>2. 0 \in 0 .. n /\ \A j \in 1 .. n : j \in 0 .. n /\ j # 0
    OBVIOUS
  <2> QED BY <2>1, <2>2
<1> DEFINE T == {j \in 0 .. n : upto[j] \in V}
<1>10. 0 \in T /\ \A j \in 1 .. n : j - 1 \in T => j \in T
  BY <1>2, <1>3, <1>9 DEF x
<1> HIDE DEF T
<1>11. 0 .. n \subseteq T
  BY <1>10, InductionTo
<1>12. upto \in [0 .. n -> V]
  BY <1>7, <1>11 DEF T
<1> QED BY <1>8, <1>9, <1>12 DEF V

\* Two to the n starts at one, doubles, and is never zero.
LEMMA Pow2Step ==
  /\ Pow2(0) = 1
  /\ \A n \in Nat : Pow2(n) \in Nat \ {0} /\ Pow2(n + 1) = 2 * Pow2(n)
<1>1. Pow2(0) = 1
  BY Pow2Follows
<1>2. ASSUME NEW n \in Nat PROVE Pow2(n) \in Nat \ {0} /\ Pow2(n + 1) = 2 * Pow2(n)
  <2>1. PICK g \in [0 .. n -> Nat \ {0}] :
          Pow2(n) = g[n] /\ g[0] = 1 /\ \A j \in 1 .. n : g[j] = 2 * g[j - 1]
    BY Pow2Follows
  <2>2. PICK h \in [0 .. n + 1 -> Nat \ {0}] :
          Pow2(n + 1) = h[n + 1] /\ h[0] = 1 /\ \A j \in 1 .. n + 1 : h[j] = 2 * h[j - 1]
    <3>1. n + 1 \in Nat
      OBVIOUS
    <3> QED BY <3>1, Pow2Follows
  <2> DEFINE T == {j \in 0 .. n : g[j] = h[j]}
  <2>3. 0 \in T /\ \A j \in 1 .. n : j - 1 \in T => j \in T
    BY <2>1, <2>2
  <2> HIDE DEF T
  <2>4. 0 .. n \subseteq T
    BY <2>3, InductionTo
  <2>5. g[n] = h[n]
    BY <2>4 DEF T
  <2>6. h[n + 1] = 2 * h[n]
    <3>1. n + 1 \in 1 .. n + 1 /\ (n + 1) - 1 = n
      OBVIOUS
    <3> QED BY <2>2, <3>1
  <2> QED BY <2>1, <2>2, <2>5, <2>6
<1> QED BY <1>1, <1>2

\* A quotient and a remainder are the only ones there are.
LEMMA DivisionIsOne ==
  ASSUME NEW x \in Int, NEW p \in Nat \ {0}, NEW y \in 0 .. p - 1
  PROVE  (x * p + y) \div p = x /\ (x * p + y) % p = y
<1>1. (x * p + y) \div p = x
  OBVIOUS
<1> QED BY <1>1

\* A number is its quotient times the divisor and its remainder.
LEMMA Division ==
  ASSUME NEW x \in Nat, NEW p \in Nat \ {0}
  PROVE  x = ((x \div p) * p) + (x % p) /\ x % p \in 0 .. p - 1 /\ x \div p \in Nat
OBVIOUS

\* Sums of exponents.
LEMMA Pow2Sum ==
  ASSUME NEW m \in Nat, NEW n \in Nat
  PROVE  Pow2(m + n) = Pow2(m) * Pow2(n)
<1> DEFINE S == {k \in Nat : Pow2(m + k) = Pow2(m) * Pow2(k)}
<1>1. 0 \in S
  BY Pow2Step
<1>2. ASSUME NEW k \in Nat, k \in S PROVE k + 1 \in S
  <2> DEFINE p == Pow2(m) q == Pow2(k) r == Pow2(m + k)
  <2>1. p \in Nat /\ q \in Nat /\ r \in Nat /\ r = p * q
    BY <1>2, Pow2Step
  <2>2. Pow2(k + 1) = 2 * q /\ Pow2((m + k) + 1) = 2 * r /\ (m + k) + 1 = m + (k + 1)
    BY Pow2Step
  <2> HIDE DEF p, q, r
  <2>3. 2 * r = p * (2 * q)
    BY <2>1
  <2>4. Pow2(m + (k + 1)) = p * Pow2(k + 1)
    BY <2>2, <2>3
  <2> QED BY <2>4 DEF p
<1> HIDE DEF S
<1>3. n \in S
  BY <1>1, <1>2, Induction
<1> QED BY <1>3 DEF S

\* Both halvings of a quotient are one.
LEMMA DivisionTwice ==
  ASSUME NEW x \in Nat, NEW p \in Nat \ {0}, NEW q \in Nat \ {0}
  PROVE  (x \div p) \div q = x \div (p * q)
<1> DEFINE a == x \div p
           r == x % p
           b == a \div q
           s == a % q
<1>1. x = (a * p) + r /\ r \in 0 .. p - 1 /\ a \in Nat
  BY Division
<1> HIDE DEF a, r
<1>2. a = (b * q) + s /\ s \in 0 .. q - 1 /\ b \in Nat
  BY <1>1, Division
<1>a. a \div q = b
  OBVIOUS
<1> HIDE DEF b, s
<1> DEFINE y == (s * p) + r
<1>3. (b * q) * p = b * (p * q)
  BY <1>2
<1>4. x = (b * (p * q)) + y
  BY <1>1, <1>2, <1>3
<1>5. y \in 0 .. (p * q) - 1
  <2>1. s * p <= (q - 1) * p
    BY <1>2
  <2>2. (q - 1) * p = (p * q) - p
    OBVIOUS
  <2>3. s * p \in Nat
    BY <1>2
  <2> QED BY <1>1, <2>1, <2>2, <2>3
<1>6. p * q \in Nat \ {0}
  OBVIOUS
<1> HIDE DEF y
<1>7. x \div (p * q) = b
  BY <1>2, <1>4, <1>5, <1>6, DivisionIsOne
<1> QED BY <1>7, <1>a DEF a

\* A remainder of a product, reduced by one factor, is that factor's remainder.
LEMMA RemainderTwice ==
  ASSUME NEW x \in Nat, NEW p \in Nat \ {0}, NEW q \in Nat \ {0}
  PROVE  (x % (p * q)) % q = x % q
<1> DEFINE n == p * q
           a == x \div n
           r == x % n
<1>0. n \in Nat \ {0}
  OBVIOUS
<1>1. x = (a * n) + r /\ r \in 0 .. n - 1 /\ a \in Nat
  BY <1>0, Division
<1>a. a * n = (a * p) * q
  <2>1. a \in Nat
    BY <1>1
  <2> HIDE DEF a
  <2> QED BY <2>1
<1> HIDE DEF a, r, n
<1> DEFINE b == r \div q
           s == r % q
<1>2. r = (b * q) + s /\ s \in 0 .. q - 1 /\ b \in Nat
  <2>1. r \in Nat
    BY <1>0, <1>1
  <2> QED BY <2>1, Division
<1>b. r % q = s
  OBVIOUS
<1> HIDE DEF b, s
<1>3. x = (((a * p) + b) * q) + s
  <2>1. ((a * p) + b) * q = ((a * p) * q) + (b * q)
    BY <1>1, <1>2
  <2> QED BY <1>1, <1>2, <1>a, <2>1
<1>4. (a * p) + b \in Nat
  BY <1>1, <1>2
<1>5. x % q = s
  <2> DEFINE c == (a * p) + b
  <2>1. c \in Int /\ x = c * q + s
    BY <1>3, <1>4
  <2> HIDE DEF c
  <2> QED BY <1>2, <2>1, DivisionIsOne
<1> QED BY <1>5, <1>b DEF r, n

\* A number read digit by digit: FromBe and Number follow it.
LEMMA Horner ==
  ASSUME NEW base \in Nat, NEW n \in Nat, NEW w \in [1 .. n -> Nat]
  PROVE  /\ \E g \in [0 .. n -> Nat] :
              \A k \in 0 .. n : g[k] = IF k = 0 THEN 0 ELSE g[k - 1] * base + w[k]
         /\ \A g : (\A k \in 0 .. n : g[k] = IF k = 0 THEN 0 ELSE g[k - 1] * base + w[k])
                     => \A k \in 0 .. n : g[k] \in Nat
<1> DEFINE U == Nat
           step == [p \in (1 .. n) \X U |-> p[2] * base + w[p[1]]]
           x == 0
<1>1. \A j \in 1 .. n : \A v \in U : step[<<j, v>>] = v * base + w[j]
  OBVIOUS
<1>2. \A j \in 1 .. n : \A v \in U : v * base + w[j] \in U
  OBVIOUS
<1>3. x \in U
  OBVIOUS
<1> HIDE DEF step, U, x
<1>4. StaysIn(U, step, n)
  BY <1>1, <1>2 DEF StaysIn
<1>5. PICK g \in [0 .. n -> U] :
        g = [j \in 0 .. n |-> IF j = 0 THEN x ELSE step[<<j, g[j - 1]>>]]
  BY <1>3, <1>4, ChainRecursion
<1>6. \A k \in 0 .. n : g[k] = IF k = 0 THEN 0 ELSE g[k - 1] * base + w[k]
  <2>1. \A j \in 0 .. n : j # 0 => j \in 1 .. n /\ g[j - 1] \in U
    BY <1>5
  <2> QED BY <1>1, <1>5, <2>1 DEF x
<1>7. ASSUME NEW h, \A k \in 0 .. n : h[k] = IF k = 0 THEN 0 ELSE h[k - 1] * base + w[k]
      PROVE  \A k \in 0 .. n : h[k] \in Nat
  <2>1. 0 \in 0 .. n /\ \A j \in 1 .. n : j \in 0 .. n /\ j # 0
    OBVIOUS
  <2>2. h[0] = 0 /\ \A j \in 1 .. n : h[j] = h[j - 1] * base + w[j]
    BY <1>7, <2>1
  <2> DEFINE T == {j \in 0 .. n : h[j] \in U}
  <2>3. 0 \in T /\ \A j \in 1 .. n : j - 1 \in T => j \in T
    BY <1>2, <1>3, <2>2 DEF x
  <2> HIDE DEF T
  <2>4. 0 .. n \subseteq T
    BY <2>3, InductionTo
  <2> QED BY <2>4 DEF T, U
<1> QED BY <1>5, <1>6, <1>7 DEF U

\* The number that n digits of a stream stand for, from digit a on.
Stream == [Nat -> {0, 1}]
Window(f, a, n) == [k \in 1 .. n |-> f[a + k - 1]]
NumberAt(f, a, n) == Number(Window(f, a, n))

\* The number of a window, digit by digit.
LEMMA NumberFollows ==
  ASSUME NEW f \in Stream, NEW a \in Nat, NEW n \in Nat
  PROVE  \E h \in [0 .. n -> Nat] :
           NumberAt(f, a, n) = h[n] /\ h[0] = 0 /\ \A j \in 1 .. n : h[j] = h[j - 1] * 2 + f[a + j - 1]
<1> DEFINE w == Window(f, a, n)
           upto == CHOOSE g : g = [k \in 0 .. n |-> IF k = 0 THEN 0 ELSE g[k - 1] * 2 + w[k]]
<1>1. w \in [1 .. n -> Nat] /\ Len(w) = n /\ \A j \in 1 .. n : w[j] = f[a + j - 1]
  BY DEF Window, Stream
<1>2. NumberAt(f, a, n) = upto[n]
  BY <1>1 DEF NumberAt, Number
<1> HIDE DEF w
<1> DEFINE Solves(g) == g = [k \in 0 .. n |-> IF k = 0 THEN 0 ELSE g[k - 1] * 2 + w[k]]
           base == 2
<1>2a. /\ \E g \in [0 .. n -> Nat] :
            \A k \in 0 .. n : g[k] = IF k = 0 THEN 0 ELSE g[k - 1] * base + w[k]
       /\ \A g : (\A k \in 0 .. n : g[k] = IF k = 0 THEN 0 ELSE g[k - 1] * base + w[k])
                   => \A k \in 0 .. n : g[k] \in Nat
  <2>1. base \in Nat
    OBVIOUS
  <2>2. w \in [1 .. n -> Nat]
    BY <1>1
  <2> HIDE DEF base, Solves, upto
  <2> QED BY <2>1, <2>2, Horner, Zenon
<1>3. \E g : Solves(g)
  BY <1>2a
<1>4. Solves(upto)
  <2>1. upto = CHOOSE h : Solves(h)
    OBVIOUS
  <2> HIDE DEF Solves, upto
  <2> QED BY <1>3, <2>1
<1> HIDE DEF upto
<1>5. \A k \in 0 .. n : upto[k] = IF k = 0 THEN 0 ELSE upto[k - 1] * 2 + w[k]
  BY <1>4
<1>6. \A k \in 0 .. n : upto[k] \in Nat
  BY <1>2a, <1>5
<1>7. upto \in [0 .. n -> Nat]
  BY <1>4, <1>6
<1>8. 0 \in 0 .. n /\ \A j \in 1 .. n : j \in 0 .. n /\ j # 0
  OBVIOUS
<1>9. upto[0] = 0 /\ \A j \in 1 .. n : upto[j] = upto[j - 1] * 2 + f[a + j - 1]
  BY <1>1, <1>5, <1>8
<1> QED BY <1>2, <1>7, <1>9

\* One digit more doubles the number and adds the digit.
LEMMA OneDigitMore ==
  ASSUME NEW f \in Stream, NEW a \in Nat
  PROVE  /\ NumberAt(f, a, 0) = 0
         /\ \A n \in Nat : /\ NumberAt(f, a, n) \in Nat
                          /\ NumberAt(f, a, n + 1) = (NumberAt(f, a, n) * 2) + f[a + n]
<1>1. NumberAt(f, a, 0) = 0
  <2>1. 0 \in Nat
    OBVIOUS
  <2>2. PICK h \in [0 .. 0 -> Nat] :
          NumberAt(f, a, 0) = h[0] /\ h[0] = 0 /\ \A j \in 1 .. 0 : h[j] = h[j - 1] * 2 + f[a + j - 1]
    BY <2>1, NumberFollows
  <2> QED BY <2>2
<1>2. ASSUME NEW n \in Nat
      PROVE  /\ NumberAt(f, a, n) \in Nat
             /\ NumberAt(f, a, n + 1) = (NumberAt(f, a, n) * 2) + f[a + n]
  <2>1. PICK g \in [0 .. n -> Nat] :
          NumberAt(f, a, n) = g[n] /\ g[0] = 0 /\ \A j \in 1 .. n : g[j] = g[j - 1] * 2 + f[a + j - 1]
    BY NumberFollows
  <2>2. PICK h \in [0 .. n + 1 -> Nat] :
          /\ NumberAt(f, a, n + 1) = h[n + 1]
          /\ h[0] = 0
          /\ \A j \in 1 .. n + 1 : h[j] = h[j - 1] * 2 + f[a + j - 1]
    <3>1. n + 1 \in Nat
      OBVIOUS
    <3> QED BY <3>1, NumberFollows
  <2> DEFINE T == {j \in 0 .. n : g[j] = h[j]}
  <2>3. 0 \in T /\ \A j \in 1 .. n : j - 1 \in T => j \in T
    BY <2>1, <2>2
  <2> HIDE DEF T
  <2>4. 0 .. n \subseteq T
    BY <2>3, InductionTo
  <2>5. g[n] = h[n]
    BY <2>4 DEF T
  <2>6. h[n + 1] = h[n] * 2 + f[a + n]
    <3>1. n + 1 \in 1 .. n + 1 /\ (n + 1) - 1 = n /\ a + (n + 1) - 1 = a + n
      OBVIOUS
    <3> QED BY <2>2, <3>1
  <2> QED BY <2>1, <2>2, <2>5, <2>6
<1> QED BY <1>1, <1>2

\* So many digits stand for less than two to their number.
LEMMA NumberBelow ==
  ASSUME NEW f \in Stream, NEW a \in Nat, NEW n \in Nat
  PROVE  NumberAt(f, a, n) \in 0 .. Pow2(n) - 1
<1> DEFINE S == {k \in Nat : NumberAt(f, a, k) \in 0 .. Pow2(k) - 1}
<1>1. 0 \in S
  <2>1. NumberAt(f, a, 0) = 0 /\ Pow2(0) = 1
    BY OneDigitMore, Pow2Step
  <2> QED BY <2>1
<1>2. ASSUME NEW k \in Nat, k \in S PROVE k + 1 \in S
  <2> DEFINE v == NumberAt(f, a, k) p == Pow2(k)
  <2>1. p \in Nat \ {0} /\ v \in 0 .. p - 1 /\ f[a + k] \in {0, 1} /\ a + k \in Nat
    BY <1>2, Pow2Step DEF Stream
  <2>2. NumberAt(f, a, k + 1) = (v * 2) + f[a + k] /\ Pow2(k + 1) = 2 * p
    BY OneDigitMore, Pow2Step
  <2> HIDE DEF v, p
  <2> QED BY <2>1, <2>2
<1> HIDE DEF S
<1>3. n \in S
  BY <1>1, <1>2, Induction
<1> QED BY <1>3 DEF S

\* A number is its upper digits, shifted, and its lower ones.
LEMMA NumberSplits ==
  ASSUME NEW f \in Stream, NEW a \in Nat, NEW m \in Nat, NEW n \in Nat
  PROVE  NumberAt(f, a, m + n) = (NumberAt(f, a, m) * Pow2(n)) + NumberAt(f, a + m, n)
<1> DEFINE S == {k \in Nat : NumberAt(f, a, m + k) = (NumberAt(f, a, m) * Pow2(k)) + NumberAt(f, a + m, k)}
<1>1. 0 \in S
  <2>1. NumberAt(f, a + m, 0) = 0 /\ NumberAt(f, a, m) \in Nat /\ a + m \in Nat
    BY OneDigitMore
  <2> QED BY <2>1, Pow2Step
<1>2. ASSUME NEW k \in Nat, k \in S PROVE k + 1 \in S
  <2> DEFINE v == NumberAt(f, a, m) p == Pow2(k) u == NumberAt(f, a + m, k) x == NumberAt(f, a, m + k)
  <2>0. a + m \in Nat /\ m + k \in Nat /\ a + (m + k) = (a + m) + k /\ (m + k) + 1 = m + (k + 1)
    OBVIOUS
  <2>1. p \in Nat \ {0} /\ v \in Nat /\ u \in Nat /\ x \in Nat /\ f[a + m + k] \in Nat /\ x = (v * p) + u
    <3>1. p \in Nat \ {0}
      BY Pow2Step
    <3>2. v \in Nat /\ u \in Nat /\ x \in Nat
      BY <2>0, OneDigitMore
    <3>3. f[a + m + k] \in Nat
      BY <2>0 DEF Stream
    <3>4. x = (v * p) + u
      BY <1>2
    <3> QED BY <3>1, <3>2, <3>3, <3>4
  <2>2. NumberAt(f, a, m + (k + 1)) = (x * 2) + f[a + m + k]
    BY <2>0, OneDigitMore
  <2>3. Pow2(k + 1) = 2 * p /\ NumberAt(f, a + m, k + 1) = (u * 2) + f[a + m + k]
    BY <2>0, OneDigitMore, Pow2Step, ZenonT(40)
  <2> HIDE DEF v, p, u, x
  <2>4. x * 2 = (v * (2 * p)) + (u * 2)
    BY <2>1
  <2>5. NumberAt(f, a, m + (k + 1)) = (v * Pow2(k + 1)) + NumberAt(f, a + m, k + 1)
    <3>1. v * (2 * p) \in Nat /\ u * 2 \in Nat
      BY <2>1
    <3> QED BY <2>1, <2>2, <2>3, <2>4, <3>1
  <2> QED BY <2>5 DEF v
<1> HIDE DEF S
<1>3. n \in S
  BY <1>1, <1>2, Induction
<1> QED BY <1>3 DEF S

\* A shift to the right leaves the upper digits, a mask the lower ones.
LEMMA NumberParts ==
  ASSUME NEW f \in Stream, NEW a \in Nat, NEW m \in Nat, NEW n \in Nat
  PROVE  /\ NumberAt(f, a, m + n) \div Pow2(n) = NumberAt(f, a, m)
         /\ NumberAt(f, a, m + n) % Pow2(n) = NumberAt(f, a + m, n)
<1>1. a + m \in Nat
  OBVIOUS
<1>2. NumberAt(f, a, m) \in Nat /\ Pow2(n) \in Nat \ {0} /\ NumberAt(f, a + m, n) \in 0 .. Pow2(n) - 1
  BY <1>1, OneDigitMore, NumberBelow, Pow2Step
<1>3. NumberAt(f, a, m + n) = (NumberAt(f, a, m) * Pow2(n)) + NumberAt(f, a + m, n)
  BY NumberSplits
<1> DEFINE v == NumberAt(f, a, m) p == Pow2(n) y == NumberAt(f, a + m, n) x == NumberAt(f, a, m + n)
<1>4. v \in Nat /\ p \in Nat \ {0} /\ y \in 0 .. p - 1 /\ x = (v * p) + y
  BY <1>2, <1>3
<1> HIDE DEF v, p, x, y
<1>5. x \div p = v /\ x % p = y
  BY <1>4, DivisionIsOne
<1> QED BY <1>5 DEF v, p, x, y

\* Two streams have the same n digits, each from its own place on.
SameOn(f, a, g, b, n) == \A k \in 0 .. n - 1 : f[a + k] = g[b + k]

\* Streams that agree on a window have the same number there.
LEMMA SameNumber ==
  ASSUME NEW f, NEW g, NEW a \in Nat, NEW b \in Nat, NEW n \in Nat,
         SameOn(f, a, g, b, n)
  PROVE  NumberAt(f, a, n) = NumberAt(g, b, n)
<1>0. \A k \in 0 .. n - 1 : f[a + k] = g[b + k]
  BY DEF SameOn
<1>1. \A k \in 1 .. n : f[a + k - 1] = g[b + k - 1]
  <2>1. \A k \in 1 .. n : k - 1 \in 0 .. n - 1 /\ a + (k - 1) = a + k - 1 /\ b + (k - 1) = b + k - 1
    OBVIOUS
  <2> QED BY <1>0, <2>1
<1>2. Window(f, a, n) = Window(g, b, n)
  BY <1>1 DEF Window
<1> QED BY <1>2 DEF NumberAt

\* Digits that are all zero stand for zero.
LEMMA ZeroDigits ==
  ASSUME NEW f \in Stream, NEW a \in Nat, NEW n \in Nat, \A k \in 0 .. n - 1 : f[a + k] = 0
  PROVE  NumberAt(f, a, n) = 0
<1> DEFINE S == {k \in Nat : k <= n => NumberAt(f, a, k) = 0}
<1>1. 0 \in S
  BY OneDigitMore
<1>2. ASSUME NEW k \in Nat, k \in S PROVE k + 1 \in S
  <2>1. NumberAt(f, a, k + 1) = (NumberAt(f, a, k) * 2) + f[a + k]
    BY OneDigitMore
  <2> QED BY <1>2, <2>1
<1> HIDE DEF S
<1>3. n \in S
  BY <1>1, <1>2, Induction
<1> QED BY <1>3 DEF S

\* A digit of a word.
LEMMA DigitOfNumber ==
  ASSUME NEW f \in Stream, NEW a \in Nat, NEW n \in Nat, NEW r \in 0 .. n - 1
  PROVE  (NumberAt(f, a, n) \div Pow2(n - 1 - r)) % 2 = f[a + r]
<1> DEFINE m == r + 1 k == n - 1 - r
<1>1. m \in Nat /\ k \in Nat /\ m + k = n /\ r \in Nat
  OBVIOUS
<1> HIDE DEF m, k
<1>2. NumberAt(f, a, n) \div Pow2(k) = NumberAt(f, a, m)
  <2>1. NumberAt(f, a, m + k) \div Pow2(k) = NumberAt(f, a, m)
    BY <1>1, NumberParts
  <2> QED BY <1>1, <2>1
<1>3. NumberAt(f, a, m) = (NumberAt(f, a, r) * 2) + f[a + r] /\ NumberAt(f, a, r) \in Nat
  BY <1>1, OneDigitMore DEF m
<1>4. f[a + r] \in {0, 1}
  BY <1>1 DEF Stream
<1> QED BY <1>2, <1>3, <1>4 DEF k

-------------------------------------------------------------------------------
\* A list of bytes, and the stream of its bits.
ByteLists == Seq(0 .. ByteLimit - 1)
Bits(bytes) == [k \in Nat |-> IF k < LenBits(bytes) THEN BitAt(bytes, k) ELSE 0]

\* What the sizes of a byte and of a word are.
LEMMA Sizes ==
  /\ ByteBits \in Nat \ {0} /\ WordBytes \in Nat \ {0} /\ MaxWidth \in Nat \ {0}
  /\ ByteBits <= MaxWidth
  /\ 2 * MaxWidth = ByteBits * (2 * WordBytes)
  /\ ByteLimit \in Nat \ {0}
  /\ WordLimit \in Nat \ {0}
<1> DEFINE b == ByteBits n == WordBytes
<1>1. b \in Nat \ {0} /\ n \in Nat \ {0}
  BY WordAssumption
<1> HIDE DEF b, n
<1>2. b * n \in Nat \ {0} /\ b <= b * n /\ 2 * (b * n) = b * (2 * n)
  <2>1. b * n >= b * 1
    BY <1>1
  <2> QED BY <1>1, <2>1
<1>3. MaxWidth = b * n
  BY DEF MaxWidth, b, n
<1> QED BY <1>1, <1>2, <1>3, Pow2Step DEF b, n, ByteLimit, WordLimit

\* A bit of byte i, counted from the byte's first, is in byte i.
LEMMA BitPlace ==
  ASSUME NEW i \in Nat, NEW r \in 0 .. ByteBits - 1
  PROVE  (ByteBits * i + r) \div ByteBits = i /\ (ByteBits * i + r) % ByteBits = r
<1> DEFINE b == ByteBits
<1>1. b \in Nat \ {0} /\ r \in 0 .. b - 1
  BY Sizes
<1> HIDE DEF b
<1>2. b * i = i * b
  BY <1>1
<1>3. (i * b + r) \div b = i /\ (i * b + r) % b = r
  BY <1>1, DivisionIsOne
<1> QED BY <1>2, <1>3 DEF b

\* Every bit is in one byte, and within the list exactly if its byte is.
LEMMA PlaceOfBit ==
  ASSUME NEW k \in Nat
  PROVE  /\ k \div ByteBits \in Nat
         /\ k % ByteBits \in 0 .. ByteBits - 1
         /\ k = ByteBits * (k \div ByteBits) + (k % ByteBits)
         /\ \A n \in Nat : k < ByteBits * n <=> k \div ByteBits < n
<1> DEFINE b == ByteBits
           q == k \div b
           r == k % b
<1>1. b \in Nat \ {0}
  BY Sizes
<1> HIDE DEF b
<1>2. k = (q * b) + r /\ r \in 0 .. b - 1 /\ q \in Nat
  BY <1>1, Division
<1> HIDE DEF q, r
<1>3. q * b = b * q
  BY <1>1, <1>2
<1>4. ASSUME NEW n \in Nat PROVE k < b * n <=> q < n
  <2>1. CASE q < n
    <3>1. b * (q + 1) <= b * n
      BY <1>1, <1>2, <2>1
    <3>2. b * (q + 1) = (b * q) + b
      BY <1>1, <1>2
    <3> QED BY <1>1, <1>2, <1>3, <2>1, <3>1, <3>2
  <2>2. CASE ~ q < n
    <3>1. b * n <= b * q
      BY <1>1, <1>2, <2>2
    <3> QED BY <1>1, <1>2, <1>3, <2>2, <3>1
  <2> QED BY <2>1, <2>2
<1> QED BY <1>2, <1>3, <1>4 DEF b, q, r

\* An element of a list of bytes is a byte.
LEMMA ByteIsByte ==
  ASSUME NEW bytes \in ByteLists, NEW i \in 1 .. Len(bytes)
  PROVE  bytes[i] \in 0 .. ByteLimit - 1
<1> DEFINE S == 0 .. ByteLimit - 1
<1>1. bytes \in Seq(S)
  BY DEF ByteLists
<1> HIDE DEF S
<1>2. bytes[i] \in S
  BY <1>1
<1> QED BY <1>2 DEF S

\* A bit of a list of bytes is zero or one.
LEMMA BitIsBit ==
  ASSUME NEW bytes \in ByteLists, NEW k \in Nat, k < LenBits(bytes)
  PROVE  BitAt(bytes, k) \in {0, 1}
<1>1. k \div ByteBits < Len(bytes) /\ k \div ByteBits \in Nat
  <2>1. Len(bytes) \in Nat
    BY DEF ByteLists
  <2> QED BY <2>1, PlaceOfBit DEF LenBits
<1> DEFINE x == bytes[k \div ByteBits + 1]
           n == ByteBits - 1 - (k % ByteBits)
           p == Pow2(n)
<1>2. x \in Nat
  <2>1. k \div ByteBits + 1 \in 1 .. Len(bytes)
    BY <1>1 DEF ByteLists
  <2>2. x \in 0 .. ByteLimit - 1
    BY <2>1, ByteIsByte
  <2> QED BY <2>2, Sizes
<1>3. n \in Nat
  BY PlaceOfBit, Sizes
<1> HIDE DEF x, n
<1>4. p \in Nat \ {0}
  BY <1>3, Pow2Step
<1> HIDE DEF p
<1>5. (x \div p) % 2 \in {0, 1}
  <2>1. x \div p \in Nat
    BY <1>2, <1>4
  <2> QED BY <2>1
<1> QED BY <1>5 DEF BitAt, x, p, n

\* The bits of a list of bytes, with zeros behind, are a stream.
LEMMA BitsStream ==
  ASSUME NEW bytes \in ByteLists
  PROVE  Bits(bytes) \in Stream
BY BitIsBit DEF Bits, Stream

\* The digits of a number below a power of two are the number.
LEMMA DigitsBack ==
  ASSUME NEW f \in Stream, NEW a \in Nat, NEW n \in Nat, NEW x \in 0 .. Pow2(n) - 1,
         \A r \in 0 .. n - 1 : f[a + r] = (x \div Pow2(n - 1 - r)) % 2
  PROVE  NumberAt(f, a, n) = x
<1> DEFINE S == {k \in Nat : k <= n => NumberAt(f, a, k) = x \div Pow2(n - k)}
<1>0. x \in Nat
  BY Pow2Step
<1>1. 0 \in S
  <2>1. NumberAt(f, a, 0) = 0
    BY OneDigitMore
  <2>2. x \div Pow2(n) = 0
    BY Pow2Step
  <2> QED BY <2>1, <2>2
<1>2. ASSUME NEW k \in Nat, k \in S PROVE k + 1 \in S
  <2> SUFFICES ASSUME k + 1 <= n PROVE NumberAt(f, a, k + 1) = x \div Pow2(n - (k + 1))
    OBVIOUS
  <2> DEFINE m == n - 1 - k
             q == Pow2(m)
             y == x \div q
  <2>1. m \in Nat /\ m + 1 = n - k /\ n - (k + 1) = m /\ k \in 0 .. n - 1
    OBVIOUS
  <2> HIDE DEF m
  <2>2. NumberAt(f, a, k + 1) = (NumberAt(f, a, k) * 2) + f[a + k]
    BY OneDigitMore
  <2>3. q \in Nat \ {0} /\ Pow2(n - k) = 2 * q /\ q * 2 = 2 * q
    BY <2>1, Pow2Step
  <2>4. NumberAt(f, a, k) = x \div (q * 2)
    BY <1>2, <2>3
  <2>5. f[a + k] = y % 2
    BY <2>1 DEF m
  <2> HIDE DEF q
  <2>6. y \in Nat
    BY <1>0, <2>3
  <2>7. y \div 2 = x \div (q * 2)
    BY <1>0, <2>3, DivisionTwice
  <2> HIDE DEF y
  <2>8. y = ((y \div 2) * 2) + (y % 2)
    BY <2>6
  <2>9. NumberAt(f, a, k + 1) = y
    BY <2>2, <2>4, <2>5, <2>7, <2>8
  <2> QED BY <2>1, <2>9 DEF y, q
<1> HIDE DEF S
<1>3. n \in S
  BY <1>1, <1>2, Induction
<1>4. NumberAt(f, a, n) = x \div Pow2(n - n)
  BY <1>3 DEF S
<1>5. n - n = 0 /\ Pow2(0) = 1
  BY Pow2Step
<1> QED BY <1>0, <1>4, <1>5

\* The bits of byte i stand for the byte.
LEMMA ByteBack ==
  ASSUME NEW bytes \in ByteLists, NEW i \in 1 .. Len(bytes)
  PROVE  NumberAt(Bits(bytes), ByteBits * (i - 1), ByteBits) = bytes[i]
<1> DEFINE a == ByteBits * (i - 1)
           f == Bits(bytes)
<1>0. Len(bytes) \in Nat /\ i - 1 \in Nat /\ i - 1 < Len(bytes)
  BY DEF ByteLists
<1>1. a \in Nat /\ f \in Stream /\ ByteBits \in Nat
  BY <1>0, BitsStream, Sizes
<1>2. bytes[i] \in 0 .. Pow2(ByteBits) - 1
  BY ByteIsByte DEF ByteLimit
<1>3. ASSUME NEW r \in 0 .. ByteBits - 1
      PROVE  f[a + r] = (bytes[i] \div Pow2(ByteBits - 1 - r)) % 2
  <2>1. (a + r) \div ByteBits = i - 1 /\ (a + r) % ByteBits = r
    BY <1>0, BitPlace
  <2>2. a + r \in Nat
    BY <1>1
  <2>3. a + r < LenBits(bytes)
    BY <1>0, <2>1, <2>2, PlaceOfBit DEF LenBits
  <2> HIDE DEF a
  <2>4. f[a + r] = BitAt(bytes, a + r)
    BY <2>2, <2>3 DEF Bits
  <2>5. (i - 1) + 1 = i
    OBVIOUS
  <2> QED BY <2>1, <2>4, <2>5 DEF BitAt
<1> HIDE DEF a, f
<1>4. NumberAt(f, a, ByteBits) = bytes[i]
  BY <1>1, <1>2, <1>3, DigitsBack
<1> QED BY <1>4 DEF a, f

\* Beyond the last byte there are only zeros.
LEMMA BeyondIsZero ==
  ASSUME NEW bytes \in ByteLists, NEW j \in Nat, j >= Len(bytes)
  PROVE  NumberAt(Bits(bytes), ByteBits * j, ByteBits) = 0
<1> DEFINE a == ByteBits * j
           f == Bits(bytes)
<1>1. a \in Nat /\ f \in Stream /\ ByteBits \in Nat
  BY BitsStream, Sizes
<1>2. ASSUME NEW r \in 0 .. ByteBits - 1
      PROVE  f[a + r] = 0
  <2>1. (a + r) \div ByteBits = j
    BY BitPlace
  <2>2. a + r \in Nat /\ Len(bytes) \in Nat
    BY <1>1 DEF ByteLists
  <2>3. ~ a + r < LenBits(bytes)
    <3>1. ~ j < Len(bytes)
      BY <2>2
    <3> QED BY <2>1, <2>2, <3>1, PlaceOfBit DEF LenBits
  <2> HIDE DEF a
  <2> QED BY <2>2, <2>3 DEF Bits
<1> HIDE DEF a, f
<1>4. NumberAt(f, a, ByteBits) = 0
  BY <1>1, <1>2, ZeroDigits
<1> QED BY <1>4 DEF a, f

\* from_be_bytes, byte by byte.
LEMMA FromBeFollows ==
  ASSUME NEW n \in Nat, NEW w \in [1 .. n -> Nat]
  PROVE  \E h \in [0 .. n -> Nat] :
           FromBe(w) = h[n] /\ h[0] = 0 /\ \A j \in 1 .. n : h[j] = h[j - 1] * ByteLimit + w[j]
<1> DEFINE upto == CHOOSE g : g = [k \in 0 .. n |-> IF k = 0 THEN 0 ELSE g[k - 1] * ByteLimit + w[k]]
           Solves(g) == g = [k \in 0 .. n |-> IF k = 0 THEN 0 ELSE g[k - 1] * ByteLimit + w[k]]
<1>1. FromBe(w) = upto[n]
  <2>1. Len(w) = n
    OBVIOUS
  <2> QED BY <2>1 DEF FromBe
<1>2. /\ \E g \in [0 .. n -> Nat] :
            \A k \in 0 .. n : g[k] = IF k = 0 THEN 0 ELSE g[k - 1] * ByteLimit + w[k]
      /\ \A g : (\A k \in 0 .. n : g[k] = IF k = 0 THEN 0 ELSE g[k - 1] * ByteLimit + w[k])
                   => \A k \in 0 .. n : g[k] \in Nat
  <2>1. ByteLimit \in Nat
    BY Sizes
  <2>2. w \in [1 .. n -> Nat]
    OBVIOUS
  <2> HIDE DEF Solves, upto
  <2> QED BY <2>1, <2>2, Horner, Zenon
<1>3. \E g : Solves(g)
  BY <1>2
<1>4. Solves(upto)
  <2>1. upto = CHOOSE h : Solves(h)
    OBVIOUS
  <2> HIDE DEF Solves, upto
  <2> QED BY <1>3, <2>1
<1> HIDE DEF upto
<1>5. \A k \in 0 .. n : upto[k] = IF k = 0 THEN 0 ELSE upto[k - 1] * ByteLimit + w[k]
  BY <1>4
<1>6. upto \in [0 .. n -> Nat]
  BY <1>2, <1>4, <1>5
<1>7. 0 \in 0 .. n /\ \A j \in 1 .. n : j \in 0 .. n /\ j # 0
  OBVIOUS
<1>8. upto[0] = 0 /\ \A j \in 1 .. n : upto[j] = upto[j - 1] * ByteLimit + w[j]
  BY <1>5, <1>7
<1> QED BY <1>1, <1>6, <1>8

\* A list of bytes that are a stream's, taken as one number.
LEMMA BytesAsNumber ==
  ASSUME NEW f \in Stream, NEW a \in Nat, NEW n \in Nat, NEW w \in [1 .. n -> Nat],
         \A i \in 1 .. n : w[i] = NumberAt(f, a + ByteBits * (i - 1), ByteBits)
  PROVE  FromBe(w) = NumberAt(f, a, ByteBits * n)
<1>1. PICK upto \in [0 .. n -> Nat] :
        /\ FromBe(w) = upto[n]
        /\ upto[0] = 0
        /\ \A j \in 1 .. n : upto[j] = upto[j - 1] * ByteLimit + w[j]
  BY FromBeFollows
<1> DEFINE T == {k \in 0 .. n : upto[k] = NumberAt(f, a, ByteBits * k)}
<1>6. 0 \in T
  <2>1. NumberAt(f, a, 0) = 0 /\ ByteBits * 0 = 0
    BY OneDigitMore, Sizes
  <2> QED BY <1>1, <2>1
<1>7. ASSUME NEW j \in 1 .. n, j - 1 \in T PROVE j \in T
  <2> DEFINE m == ByteBits * (j - 1)
  <2>1. m \in Nat /\ ByteBits \in Nat /\ ByteBits * j = m + ByteBits /\ j \in 0 .. n /\ j # 0
    <3>1. ByteBits * j = ByteBits * (j - 1) + ByteBits
      BY Sizes
    <3> QED BY <3>1, Sizes
  <2>2. upto[j] = upto[j - 1] * ByteLimit + w[j]
    BY <1>1
  <2>3. upto[j - 1] = NumberAt(f, a, m)
    BY <1>7
  <2>4. w[j] = NumberAt(f, a + m, ByteBits)
    OBVIOUS
  <2> HIDE DEF m
  <2>5. NumberAt(f, a, m + ByteBits) = (NumberAt(f, a, m) * Pow2(ByteBits)) + NumberAt(f, a + m, ByteBits)
    BY <2>1, NumberSplits
  <2>6. upto[j] = NumberAt(f, a, m + ByteBits)
    BY <2>2, <2>3, <2>4, <2>5 DEF ByteLimit
  <2> QED BY <2>1, <2>6
<1> HIDE DEF T
<1>8. 0 .. n \subseteq T
  BY <1>6, <1>7, InductionTo
<1>9. upto[n] = NumberAt(f, a, ByteBits * n)
  BY <1>8 DEF T
<1> QED BY <1>1, <1>9

\* What there is, and zeros behind it.
LEMMA WideLoadIs ==
  ASSUME NEW bytes \in ByteLists, NEW byte \in Nat
  PROVE  WideLoad(bytes, byte) = NumberAt(Bits(bytes), ByteBits * byte, 2 * MaxWidth)
<1> DEFINE n == 2 * WordBytes
           last == IF byte + n < Len(bytes) THEN byte + n ELSE Len(bytes)
           tail == Rest(bytes, byte, n)
           w == tail \o Zeros(n - Len(tail))
           f == Bits(bytes)
           a == ByteBits * byte
           size == IF last > byte THEN last - byte ELSE 0
<1>1. Len(bytes) \in Nat /\ n \in Nat \ {0} /\ f \in Stream /\ a \in Nat /\ ByteBits \in Nat
  BY BitsStream, Sizes DEF ByteLists
<1>2. size \in 0 .. n /\ last \in Nat
  BY <1>1
<1>3. tail = SubSeq(bytes, byte + 1, last)
  BY DEF Rest
<1> HIDE DEF n, tail, last
<1>4. Len(tail) = size /\ \A i \in 1 .. size : tail[i] = bytes[byte + i]
  <2>1. Len(SubSeq(bytes, byte + 1, last)) = size
    BY <1>1, <1>2 DEF ByteLists
  <2>2. ASSUME NEW i \in 1 .. size PROVE SubSeq(bytes, byte + 1, last)[i] = bytes[byte + i]
    <3>1. (byte + 1) + i - 1 = byte + i /\ i \in 1 .. (last - (byte + 1) + 1)
      BY <1>2
    <3> QED BY <1>1, <1>2, <3>1 DEF ByteLists
  <2> QED BY <1>3, <2>1, <2>2
<1>5. tail \in ByteLists /\ Zeros(n - size) \in Seq({0}) /\ Len(Zeros(n - size)) = n - size
  <2>1. tail \in ByteLists
    <3> DEFINE S == 0 .. ByteLimit - 1
    <3>1. bytes \in Seq(S) /\ \A i \in 1 .. Len(bytes) : bytes[i] \in S
      BY ByteIsByte DEF ByteLists
    <3>2. \A i \in byte + 1 .. last : bytes[i] \in S
      BY <1>1, <3>1 DEF last
    <3> HIDE DEF S
    <3>3. SubSeq(bytes, byte + 1, last) \in Seq(S)
      BY <1>1, <1>2, <3>1, <3>2
    <3> QED BY <1>3, <3>3 DEF ByteLists, S
  <2> QED BY <1>1, <1>2, <2>1 DEF Zeros
<1>6. /\ Len(w) = n
      /\ \A i \in 1 .. n : w[i] = IF i <= size THEN bytes[byte + i] ELSE 0
      /\ w = [i \in 1 .. n |-> w[i]]
  <2>1. IsList(tail) /\ IsList(Zeros(n - size))
    BY <1>5, SeqIsList DEF ByteLists
  <2>2. /\ Len(w) = size + (n - size)
        /\ \A i \in 1 .. Len(w) : w[i] = IF i <= size THEN tail[i] ELSE Zeros(n - size)[i - size]
        /\ IsList(w)
    <3> DEFINE z == Zeros(n - size)
    <3>1. IsList(tail) /\ IsList(z) /\ Len(tail) = size /\ Len(z) = n - size /\ w = tail \o z
      BY <1>4, <1>5, <2>1
    <3> HIDE DEF z, w, size
    <3>2. /\ IsList(w)
          /\ Len(w) = size + (n - size)
          /\ \A i \in 1 .. size : w[i] = tail[i]
          /\ \A i \in 1 .. n - size : w[size + i] = z[i]
      <4>1. /\ IsList(tail \o z)
            /\ Len(tail \o z) = Len(tail) + Len(z)
            /\ \A i \in 1 .. Len(tail) : (tail \o z)[i] = tail[i]
            /\ \A i \in 1 .. Len(z) : (tail \o z)[Len(tail) + i] = z[i]
        <5>1. IsList(tail) /\ IsList(z)
          BY <3>1
        <5> QED BY <5>1, ListConcat
      <4> QED BY <3>1, <4>1
    <3>3. ASSUME NEW i \in 1 .. Len(w), ~ i <= size PROVE w[i] = z[i - size]
      <4>1. i - size \in 1 .. n - size /\ size + (i - size) = i
        BY <1>1, <1>2, <3>2, <3>3
      <4> QED BY <3>2, <4>1
    <3>4. \A i \in 1 .. Len(w) : i <= size => i \in 1 .. size
      BY <1>2
    <3> QED BY <3>2, <3>3, <3>4 DEF z
  <2>3. size + (n - size) = n
    BY <1>1, <1>2
  <2>4. \A i \in 1 .. n : ~ i <= size => Zeros(n - size)[i - size] = 0
    BY <1>1, <1>2 DEF Zeros
  <2>5. \A i \in 1 .. n : i <= size => i \in 1 .. size
    BY <1>2
  <2> HIDE DEF w, size
  <2> QED BY <1>4, <2>2, <2>3, <2>4, <2>5 DEF IsList
<1>7. w \in [1 .. n -> Nat] /\ \A i \in 1 .. n : w[i] = NumberAt(f, a + ByteBits * (i - 1), ByteBits)
  <2>1. ASSUME NEW i \in 1 .. n
        PROVE  w[i] \in Nat /\ w[i] = NumberAt(f, a + ByteBits * (i - 1), ByteBits)
    <3>1. byte + (i - 1) \in Nat
      BY <1>1
    <3>2. ByteBits * (byte + (i - 1)) = a + ByteBits * (i - 1)
      BY <1>1
    <3>3. CASE i <= size
      <4>1. byte + i \in 1 .. Len(bytes) /\ (byte + i) - 1 = byte + (i - 1)
        BY <1>1, <1>2, <3>3 DEF last
      <4>2. NumberAt(f, ByteBits * ((byte + i) - 1), ByteBits) = bytes[byte + i]
        BY <4>1, ByteBack
      <4>3. bytes[byte + i] \in Nat
        BY <4>1, ByteIsByte, Sizes
      <4> HIDE DEF w
      <4>4. w[i] = bytes[byte + i]
        BY <1>6, <3>3
      <4> QED BY <3>2, <4>1, <4>2, <4>3, <4>4
    <3>4. CASE ~ i <= size
      <4>1. byte + (i - 1) >= Len(bytes)
        BY <1>1, <1>2, <3>4 DEF last
      <4>2. NumberAt(f, ByteBits * (byte + (i - 1)), ByteBits) = 0
        BY <3>1, <4>1, BeyondIsZero
      <4> HIDE DEF w
      <4>3. w[i] = 0
        BY <1>6, <3>4
      <4> QED BY <3>2, <4>2, <4>3
    <3> QED BY <3>3, <3>4
  <2> HIDE DEF w
  <2>2. w \in [1 .. n -> Nat]
    BY <1>6, <2>1
  <2> QED BY <2>1, <2>2
<1>8. WideLoad(bytes, byte) = FromBe(w)
  BY <1>4 DEF WideLoad, n, tail
<1> HIDE DEF w, f, a, size
<1>9. FromBe(w) = NumberAt(f, a, ByteBits * n)
  BY <1>1, <1>7, BytesAsNumber
<1> QED BY <1>8, <1>9, Sizes DEF n, f, a

\* A number read at a place is the number that the bits from there on stand
\* for.
LEMMA PeekIs ==
  ASSUME NEW bytes \in ByteLists, NEW at \in Nat, NEW width \in 1 .. MaxWidth,
         at + width <= LenBits(bytes)
  PROVE  PeekUint(bytes, at, width) = Ok(NumberAt(Bits(bytes), at, width))
<1> DEFINE byte == at \div ByteBits
           r == at % ByteBits
           shift == 2 * MaxWidth - r - width
           f == Bits(bytes)
           a == ByteBits * byte
           m == r + width
           rest == MaxWidth - width
<1>1. /\ byte \in Nat /\ r \in Nat /\ at = a + r /\ a \in Nat /\ m \in Nat /\ width \in Nat
      /\ shift \in Nat /\ m + shift = 2 * MaxWidth
      /\ rest \in Nat /\ rest + width = MaxWidth
  <2>1. byte \in Nat /\ r \in 0 .. ByteBits - 1 /\ at = a + r
    BY PlaceOfBit
  <2>2. ByteBits \in Nat /\ MaxWidth \in Nat /\ ByteBits <= MaxWidth
    BY Sizes
  <2>3. a \in Nat
    BY <2>1, <2>2
  <2> HIDE DEF byte, r, a
  <2> QED BY <2>1, <2>2, <2>3
<1>2. f \in Stream
  BY BitsStream
<1>3. PeekUint(bytes, at, width) =
        Ok(((WideLoad(bytes, byte) \div Pow2(shift)) % WordLimit) % Pow2(width))
  <2>1. /\ ~ width > MaxWidth
        /\ width # 0
        /\ ~ (width \in 1 .. MaxWidth /\ at + width > LenBits(bytes))
    <3>1. LenBits(bytes) \in Nat
      BY Sizes DEF LenBits, ByteLists
    <3> QED BY <3>1, Sizes
  <2> QED BY <2>1 DEF PeekUint, ShiftRight, Mask
<1> HIDE DEF byte, r, shift, f, a, m, rest
<1>4. WideLoad(bytes, byte) = NumberAt(f, a, m + shift)
  BY <1>1, WideLoadIs DEF f, a
<1>5. WideLoad(bytes, byte) \div Pow2(shift) = NumberAt(f, a, m)
  BY <1>1, <1>2, <1>4, NumberParts
<1>6. (NumberAt(f, a, m) % WordLimit) % Pow2(width) = NumberAt(f, a, m) % Pow2(width)
  <2>1. WordLimit = Pow2(rest) * Pow2(width)
    BY <1>1, Pow2Sum DEF WordLimit
  <2>2. Pow2(rest) \in Nat \ {0} /\ Pow2(width) \in Nat \ {0} /\ NumberAt(f, a, m) \in Nat
    BY <1>1, <1>2, Pow2Step, OneDigitMore
  <2> QED BY <2>1, <2>2, RemainderTwice
<1>7. NumberAt(f, a, m) % Pow2(width) = NumberAt(f, at, width)
  <2>0. f \in Stream /\ a \in Nat /\ width \in Nat /\ r \in Nat
    BY <1>1, <1>2
  <2>1. NumberAt(f, a, r + width) % Pow2(width) = NumberAt(f, a + r, width)
    BY <2>0, NumberParts, Zenon
  <2> QED BY <1>1, <2>1 DEF m
<1> QED BY <1>3, <1>5, <1>6, <1>7 DEF f

\* The field of the property is a window of the stream, and its number the window's.
LEMMA FieldIs ==
  ASSUME NEW bytes \in ByteLists, data = bytes, NEW at \in Nat, NEW width \in Nat,
         width = 0 \/ at + width <= LenBits(bytes)
  PROVE  /\ Field(at, width) = Window(Bits(bytes), at, width)
         /\ Number(Field(at, width)) = NumberAt(Bits(bytes), at, width)
<1>1. ASSUME NEW k \in 1 .. width
      PROVE  Bits(bytes)[at + k - 1] = BitAt(bytes, at + k - 1)
  <2>1. at + k - 1 \in Nat /\ LenBits(bytes) \in Nat
    BY Sizes DEF LenBits, ByteLists
  <2>2. at + k - 1 < LenBits(bytes)
    BY <1>1, <2>1
  <2> QED BY <2>1, <2>2 DEF Bits
<1>2. Field(at, width) = Window(Bits(bytes), at, width)
  BY <1>1 DEF Field, Window
<1> QED BY <1>2 DEF NumberAt

\* The bytes that a stream is made of, with its digits as their bits.
LEMMA StreamBits ==
  ASSUME NEW f \in Stream, NEW n \in Nat, NEW w \in [1 .. n -> Nat],
         \A i \in 1 .. n : w[i] = NumberAt(f, ByteBits * (i - 1), ByteBits)
  PROVE  BitsOf(w) = [k \in 1 .. ByteBits * n |-> f[k - 1]]
<1>1. Len(w) = n /\ ByteBits \in Nat
  BY Sizes
<1>2. ASSUME NEW k \in 1 .. ByteBits * n PROVE BitAt(w, k - 1) = f[k - 1]
  <2> DEFINE j == k - 1
             q == j \div ByteBits
             r == j % ByteBits
  <2>1. j \in Nat /\ j < ByteBits * n
    BY <1>1
  <2>2. q \in Nat /\ r \in 0 .. ByteBits - 1 /\ j = ByteBits * q + r /\ q < n
    BY <2>1, PlaceOfBit
  <2> HIDE DEF q, r, j
  <2>3. w[q + 1] = NumberAt(f, ByteBits * q, ByteBits)
    <3>1. q + 1 \in 1 .. n /\ (q + 1) - 1 = q
      BY <2>2
    <3> QED BY <3>1
  <2>4. ByteBits * q \in Nat
    BY <1>1, <2>2
  <2>5. (NumberAt(f, ByteBits * q, ByteBits) \div Pow2(ByteBits - 1 - r)) % 2 = f[ByteBits * q + r]
    BY <1>1, <2>2, <2>4, DigitOfNumber
  <2>6. BitAt(w, j) = f[j]
    BY <2>2, <2>3, <2>5 DEF BitAt, q, r
  <2> QED BY <2>6 DEF j
<1> QED BY <1>1, <1>2 DEF BitsOf, LenBits

\* How many bytes a width takes, and how many bits of them are left over.
LEMMA SlackIs ==
  ASSUME NEW width \in Nat
  PROVE  /\ BytesFor(width) \in Nat
         /\ ByteBits * BytesFor(width) - width \in 0 .. ByteBits - 1
         /\ width % ByteBits = 0 =>
              width = ByteBits * BytesFor(width) /\ width \div ByteBits = BytesFor(width)
<1> DEFINE b == ByteBits
           x == width + b - 1
           q == x \div b
<1>1. b \in Nat \ {0} /\ x \in Nat
  BY Sizes
<1>2. q \in Nat /\ x % b \in 0 .. b - 1 /\ x = b * q + (x % b)
  BY <1>1, PlaceOfBit
<1>3. BytesFor(width) = q
  BY DEF BytesFor
<1>4. width \div b \in Nat /\ width = b * (width \div b) + (width % b)
  BY PlaceOfBit
<1> HIDE DEF b, q
<1>5. b * q - width \in 0 .. b - 1
  BY <1>1, <1>2
<1>6. ASSUME width % b = 0 PROVE width = b * q /\ width \div b = q
  <2> DEFINE d == width \div b
  <2>1. width = b * d /\ d \in Nat
    BY <1>1, <1>4, <1>6
  <2> HIDE DEF d
  <2>2. b * q - b * d \in 0 .. b - 1
    BY <1>5, <2>1
  <2>3. q = d
    <3>1. CASE q < d
      <4>1. b * (q + 1) <= b * d
        BY <1>1, <1>2, <2>1, <3>1
      <4>2. b * (q + 1) = b * q + b
        BY <1>1, <1>2
      <4> QED BY <1>1, <1>2, <2>1, <2>2, <4>1, <4>2
    <3>2. CASE q > d
      <4>1. b * (d + 1) <= b * q
        BY <1>1, <1>2, <2>1, <3>2
      <4>2. b * (d + 1) = b * d + b
        BY <1>1, <2>1
      <4> QED BY <1>1, <1>2, <2>1, <2>2, <4>1, <4>2
    <3> QED BY <1>2, <2>1, <3>1, <3>2
  <2> QED BY <2>1, <2>3 DEF d
<1> QED BY <1>2, <1>3, <1>5, <1>6 DEF b

\* The bytes that are there already, where no copy is needed.
LEMMA SliceIs ==
  ASSUME NEW bytes \in ByteLists, data = bytes, NEW at \in Nat, NEW width \in Nat,
         NEW s \in AlignedSlice(bytes, at, width)
  PROVE  /\ at + width <= LenBits(bytes)
         /\ width = ByteBits * BytesFor(width)
         /\ BitsOf(s) = Field(at, width)
         /\ s \in ByteLists /\ Len(s) = BytesFor(width)
<1> DEFINE first == at \div ByteBits
           taken == width \div ByteBits
           f == Bits(bytes)
           g == [k \in Nat |-> f[at + k]]
           w == [i \in 1 .. taken |-> bytes[first + i]]
<1>1. /\ at % ByteBits = 0 /\ width % ByteBits = 0 /\ first + taken <= Len(bytes)
      /\ s = SubSeq(bytes, first + 1, first + taken)
  BY DEF AlignedSlice
<1>2. /\ taken \in Nat /\ width = ByteBits * taken /\ taken = BytesFor(width)
      /\ first \in Nat /\ at = ByteBits * first /\ Len(bytes) \in Nat /\ ByteBits \in Nat
  <2>1. first \in Nat /\ at = ByteBits * first + 0
    BY <1>1, PlaceOfBit
  <2>2. ByteBits \in Nat
    BY Sizes
  <2>3. width = ByteBits * BytesFor(width) /\ taken = BytesFor(width) /\ BytesFor(width) \in Nat
    BY <1>1, SlackIs
  <2> HIDE DEF first, taken
  <2>4. at = ByteBits * first
    BY <2>1, <2>2
  <2> QED BY <2>1, <2>2, <2>3, <2>4 DEF ByteLists
<1> HIDE DEF first, taken
<1>3. at + width <= LenBits(bytes)
  <2>1. ByteBits * (first + taken) <= ByteBits * Len(bytes)
    BY <1>1, <1>2, Sizes
  <2>2. ByteBits * (first + taken) = ByteBits * first + ByteBits * taken
    BY <1>2
  <2> QED BY <1>2, <2>1, <2>2 DEF LenBits
<1>4. s = w /\ s \in ByteLists /\ Len(s) = taken
  <2>1. \A i \in 1 .. taken : (first + 1) + i - 1 = first + i
    BY <1>2
  <2>2. first + taken - (first + 1) + 1 = taken
    BY <1>2
  <2> DEFINE S == 0 .. ByteLimit - 1
  <2>3. bytes \in Seq(S) /\ \A i \in 1 .. Len(bytes) : bytes[i] \in S
    BY ByteIsByte DEF ByteLists
  <2>4. \A i \in first + 1 .. first + taken : bytes[i] \in S
    BY <1>1, <1>2, <2>3
  <2> HIDE DEF S
  <2>5. s \in Seq(S) /\ Len(s) = taken /\ \A i \in 1 .. taken : s[i] = bytes[first + i]
    BY <1>1, <1>2, <2>1, <2>2, <2>3, <2>4
  <2> QED BY <2>5 DEF ByteLists, S
<1>5. f \in Stream /\ g \in Stream
  <2>1. f \in Stream
    BY BitsStream
  <2> HIDE DEF f
  <2> QED BY <2>1 DEF Stream
<1> HIDE DEF f
<1>6. ASSUME NEW i \in 1 .. taken
      PROVE  bytes[first + i] \in Nat /\ bytes[first + i] = NumberAt(g, ByteBits * (i - 1), ByteBits)
  <2> DEFINE c == ByteBits * (i - 1)
  <2>1. first + i \in 1 .. Len(bytes) /\ (first + i) - 1 = first + (i - 1)
    BY <1>1, <1>2
  <2>2. c \in Nat /\ ByteBits * (first + (i - 1)) = at + c
    BY <1>2
  <2>3. NumberAt(f, at + c, ByteBits) = bytes[first + i]
    BY <2>1, <2>2, ByteBack DEF f
  <2> HIDE DEF c
  <2> DEFINE d == at + c
  <2>4. SameOn(f, d, g, c, ByteBits)
    <3>1. \A k \in 0 .. ByteBits - 1 : c + k \in Nat /\ at + (c + k) = (at + c) + k
      BY <1>2, <2>2
    <3> QED BY <3>1 DEF SameOn
  <2> HIDE DEF g
  <2>5. NumberAt(f, d, ByteBits) = NumberAt(g, c, ByteBits)
    <3>1. d \in Nat
      BY <2>2
    <3> HIDE DEF f, d
    <3> QED BY <1>2, <2>2, <2>4, <3>1, SameNumber
  <2>6. bytes[first + i] \in Nat
    BY <2>1, ByteIsByte, Sizes
  <2> QED BY <2>3, <2>5, <2>6 DEF c
<1>7. w \in [1 .. taken -> Nat] /\ \A i \in 1 .. taken : w[i] = NumberAt(g, ByteBits * (i - 1), ByteBits)
  BY <1>6
<1> HIDE DEF w
<1>8. BitsOf(w) = [k \in 1 .. width |-> g[k - 1]]
  <2>1. BitsOf(w) = [k \in 1 .. ByteBits * taken |-> g[k - 1]]
    <3> HIDE DEF g
    <3> QED BY <1>2, <1>5, <1>7, StreamBits
  <2> QED BY <1>2, <2>1
<1>9. Field(at, width) = [k \in 1 .. width |-> f[at + k - 1]]
  <2>1. Field(at, width) = Window(f, at, width)
    BY <1>3, FieldIs DEF f
  <2> QED BY <2>1 DEF Window
<1>10. \A k \in 1 .. width : g[k - 1] = f[at + k - 1]
  <2>1. \A k \in 1 .. width : k - 1 \in Nat /\ at + (k - 1) = at + k - 1
    BY <1>2
  <2> QED BY <2>1
<1> HIDE DEF g
<1>11. BitsOf(s) = Field(at, width)
  BY <1>4, <1>8, <1>9, <1>10
<1> QED BY <1>2, <1>3, <1>4, <1>11

\* No zeros in front of a list, or behind it, leave it as it is.
LEMMA NothingInFront ==
  ASSUME NEW s, IsList(s)
  PROVE  Zeros(0) \o s = s /\ s \o Zeros(0) = s
<1> DEFINE S == {s[i] : i \in 1 .. Len(s)} \cup {0}
<1>1. s \in Seq(S)
  BY ListIsSeq
<1>2. Zeros(0) = <<>>
  BY DEF Zeros
<1> HIDE DEF S
<1> QED BY <1>1, <1>2, ConcatEmptySeq

\* The bytes read with the slack in front.
LEMMA ReadBytesIs ==
  ASSUME NEW bytes \in ByteLists, data = bytes, NEW at \in Nat, NEW width \in Nat,
         NEW slack, slack = ByteBits * BytesFor(width) - width,
         NEW answer, answer = ReadBytes(bytes, at, width)
  PROVE  /\ answer.error # "none" <=> at + width > LenBits(bytes)
         /\ answer.error = "none" =>
              /\ BitsOf(answer.v) = Zeros(slack) \o Field(at, width)
              /\ answer.v \in ByteLists /\ Len(answer.v) = BytesFor(width)
<1> DEFINE f == Bits(bytes)
           n == BytesFor(width)
           total == ByteBits * n
           pad == total - width
           g == [k \in Nat |-> IF k < pad THEN 0 ELSE f[at + k - pad]]
           ByteAt(index) ==
             IF ByteBits * index >= pad
             THEN PeekUint(bytes, at + ByteBits * index - pad, ByteBits).v
             ELSE PeekUint(bytes, at, ByteBits - pad).v
           w == [i \in 1 .. n |-> ByteAt(i - 1)]
<1>1. /\ n \in Nat /\ pad \in 0 .. ByteBits - 1 /\ pad \in Nat /\ ByteBits \in Nat \ {0} /\ f \in Stream
      /\ LenBits(bytes) \in Nat /\ ByteBits \in 1 .. MaxWidth
      /\ total \in Nat /\ total = pad + width
  <2>1. LenBits(bytes) \in Nat
    BY Sizes DEF LenBits, ByteLists
  <2>2. n \in Nat /\ pad \in 0 .. ByteBits - 1 /\ ByteBits \in Nat \ {0} /\ ByteBits <= MaxWidth
        /\ MaxWidth \in Nat
    BY SlackIs, Sizes
  <2>3. total \in Nat
    BY <2>2
  <2> HIDE DEF n, total
  <2> QED BY <2>1, <2>2, <2>3, BitsStream
<1>s. slack = pad
  OBVIOUS
<1>f. at + width <= LenBits(bytes) => Field(at, width) = Window(f, at, width)
  BY FieldIs
<1>2. CASE AlignedSlice(bytes, at, width) # {}
  <2>1. answer = Ok(CHOOSE s \in AlignedSlice(bytes, at, width) : TRUE)
    BY <1>2 DEF ReadBytes
  <2>2. PICK s \in AlignedSlice(bytes, at, width) : answer = Ok(s)
    BY <1>2, <2>1
  <2>3. at + width <= LenBits(bytes) /\ width = ByteBits * BytesFor(width) /\ BitsOf(s) = Field(at, width)
        /\ s \in ByteLists /\ Len(s) = BytesFor(width)
    BY SliceIs
  <2>4. slack = 0
    BY <2>3
  <2>5. Zeros(slack) \o Field(at, width) = Field(at, width)
    <3>1. IsList(Field(at, width))
      BY DEF IsList, Field
    <3> QED BY <2>4, <3>1, NothingInFront
  <2>6. answer.error = "none" /\ answer.v = s
    BY <2>2 DEF Ok
  <2>7. ~ at + width > LenBits(bytes)
    BY <1>1, <2>3
  <2> QED BY <2>3, <2>5, <2>6, <2>7
<1>3. CASE AlignedSlice(bytes, at, width) = {} /\ at + width > LenBits(bytes)
  BY <1>3 DEF ReadBytes, Err
<1>4. CASE AlignedSlice(bytes, at, width) = {} /\ ~ at + width > LenBits(bytes)
  <2>1. answer = Ok(w)
    BY <1>4 DEF ReadBytes
  <2>2. at + width <= LenBits(bytes)
    BY <1>1, <1>4
  <2> HIDE DEF f, n, total, pad
  <2>3. g \in Stream
    <3>1. \A k \in Nat : ~ k < pad => at + k - pad \in Nat
      BY <1>1
    <3> QED BY <1>1, <3>1 DEF Stream
  <2>4. ASSUME NEW i \in 1 .. n PROVE ByteAt(i - 1) = NumberAt(g, ByteBits * (i - 1), ByteBits)
    <3> DEFINE c == ByteBits * (i - 1)
    <3>1. c \in Nat /\ c + ByteBits <= total /\ (i = 1 => c = 0) /\ (i # 1 => c >= ByteBits)
      <4>1. ByteBits * i <= ByteBits * n /\ ByteBits * i = c + ByteBits
        BY <1>1
      <4>2. i # 1 => ByteBits * 1 <= ByteBits * (i - 1)
        BY <1>1
      <4> QED BY <1>1, <4>1, <4>2 DEF total
    <3> HIDE DEF g, c
    <3>2. CASE c >= pad
      <4> DEFINE a == at + c - pad
      <4>1. a \in Nat /\ a + ByteBits <= LenBits(bytes)
        BY <1>1, <2>2, <3>1, <3>2
      <4>2. ByteAt(i - 1) = PeekUint(bytes, a, ByteBits).v
        BY <3>2 DEF c
      <4>3. SameOn(f, a, g, c, ByteBits)
        <5>1. \A k \in 0 .. ByteBits - 1 :
                c + k \in Nat /\ ~ (c + k < pad) /\ at + (c + k) - pad = a + k
          BY <1>1, <3>1, <3>2
        <5> HIDE DEF a
        <5> QED BY <5>1 DEF g, SameOn
      <4> HIDE DEF a
      <4>4. PeekUint(bytes, a, ByteBits) = Ok(NumberAt(f, a, ByteBits))
        BY <1>1, <4>1, PeekIs DEF f
      <4>5. NumberAt(f, a, ByteBits) = NumberAt(g, c, ByteBits)
        BY <1>1, <3>1, <4>1, <4>3, SameNumber
      <4> QED BY <4>2, <4>4, <4>5 DEF Ok, c
    <3>3. CASE ~ c >= pad
      <4> DEFINE m == ByteBits - pad
      <4>1. i = 1 /\ c = 0 /\ m \in 1 .. MaxWidth /\ m \in Nat /\ pad + m = ByteBits
        <5>1. MaxWidth \in Nat
          BY Sizes
        <5>2. i = 1 /\ c = 0
          BY <1>1, <3>1, <3>3
        <5> QED BY <1>1, <5>1, <5>2
      <4>2. at + m <= LenBits(bytes)
        BY <1>1, <2>2, <3>1, <4>1
      <4>3. ByteAt(i - 1) = PeekUint(bytes, at, m).v
        BY <3>3 DEF c
      <4> HIDE DEF m
      <4>4. SameOn(f, at, g, pad, m)
        <5>1. \A k \in 0 .. m - 1 :
                pad + k \in Nat /\ ~ (pad + k < pad) /\ at + (pad + k) - pad = at + k
          BY <1>1, <4>1
        <5> QED BY <5>1 DEF g, SameOn
      <4>5. \A k \in 0 .. pad - 1 : g[0 + k] = 0
        <5>1. \A k \in 0 .. pad - 1 : 0 + k = k /\ k \in Nat /\ k < pad
          BY <1>1
        <5> QED BY <5>1 DEF g
      <4>6. PeekUint(bytes, at, m) = Ok(NumberAt(f, at, m))
        BY <1>1, <4>1, <4>2, PeekIs DEF f
      <4>7. NumberAt(f, at, m) = NumberAt(g, pad, m)
        BY <1>1, <4>1, <4>4, SameNumber
      <4>8. NumberAt(g, 0, pad) = 0
        BY <1>1, <2>3, <4>1, <4>5, ZeroDigits
      <4>9. NumberAt(g, 0, pad + m) = (NumberAt(g, 0, pad) * Pow2(m)) + NumberAt(g, 0 + pad, m)
        BY <1>1, <2>3, <4>1, NumberSplits
      <4>10. 0 * Pow2(m) = 0 /\ 0 + pad = pad /\ NumberAt(g, pad, m) \in Nat
        <5>1. Pow2(m) \in Nat
          BY <4>1, Pow2Step
        <5> HIDE DEF g
        <5>2. NumberAt(g, pad, m) \in Nat
          BY <1>1, <2>3, <4>1, OneDigitMore
        <5> QED BY <1>1, <5>1, <5>2
      <4>11. NumberAt(g, 0, ByteBits) = NumberAt(g, pad, m)
        BY <4>1, <4>8, <4>9, <4>10
      <4> QED BY <4>1, <4>3, <4>6, <4>7, <4>11 DEF Ok, c
    <3> QED BY <3>2, <3>3 DEF c
  <2>5. w \in [1 .. n -> Nat] /\ \A i \in 1 .. n : w[i] = NumberAt(g, ByteBits * (i - 1), ByteBits)
    <3>1. \A i \in 1 .. n : NumberAt(g, ByteBits * (i - 1), ByteBits) \in Nat
      <4>1. \A i \in 1 .. n : ByteBits * (i - 1) \in Nat
        BY <1>1
      <4> HIDE DEF g
      <4> QED BY <1>1, <2>3, <4>1, OneDigitMore
    <3> HIDE DEF ByteAt, g
    <3> QED BY <2>4, <3>1
  <2>9. w \in ByteLists /\ Len(w) = n
    <3>1. ASSUME NEW i \in 1 .. n PROVE w[i] \in 0 .. ByteLimit - 1
      <4>1. ByteBits * (i - 1) \in Nat
        BY <1>1
      <4> HIDE DEF g, w
      <4>2. NumberAt(g, ByteBits * (i - 1), ByteBits) \in 0 .. ByteLimit - 1
        BY <1>1, <2>3, <4>1, NumberBelow DEF ByteLimit
      <4> QED BY <2>5, <4>2
    <3> DEFINE S == 0 .. ByteLimit - 1
    <3>2. w \in [1 .. n -> Nat] /\ \A i \in 1 .. n : w[i] \in S
      BY <2>5, <3>1
    <3> HIDE DEF S, w
    <3>3. w \in Seq(S) /\ Len(w) = n
      BY <1>1, <3>2
    <3> QED BY <3>3 DEF S, ByteLists
  <2> HIDE DEF w
  <2>6. BitsOf(w) = [k \in 1 .. total |-> g[k - 1]]
    <3> HIDE DEF g
    <3> QED BY <1>1, <2>3, <2>5, StreamBits DEF total
  <2>7. Zeros(slack) \o Field(at, width) = [k \in 1 .. total |-> g[k - 1]]
    <3> DEFINE s == Zeros(slack) t == Field(at, width) u == s \o t
    <3>2. /\ IsList(s) /\ Len(s) = pad /\ \A k \in 1 .. pad : s[k] = 0
          /\ IsList(t) /\ Len(t) = width /\ \A k \in 1 .. width : t[k] = f[at + k - 1]
      BY <1>1, <1>s, <1>f, <2>2 DEF Window, Zeros, IsList
    <3> HIDE DEF s, t
    <3>3. /\ IsList(u) /\ Len(u) = Len(s) + Len(t)
          /\ \A k \in 1 .. Len(s) : u[k] = s[k]
          /\ \A k \in 1 .. Len(t) : u[Len(s) + k] = t[k]
      <4>1. IsList(s) /\ IsList(t)
        BY <3>2
      <4> QED BY <4>1, ListConcat
    <3> HIDE DEF u
    <3>4. ASSUME NEW k \in 1 .. total PROVE u[k] = g[k - 1]
      <4>1. CASE k <= pad
        <5>1. k \in 1 .. pad /\ k - 1 \in Nat /\ k - 1 < pad
          BY <1>1, <4>1
        <5> QED BY <3>2, <3>3, <5>1
      <4>2. CASE ~ k <= pad
        <5>1. /\ k - pad \in 1 .. width /\ pad + (k - pad) = k
              /\ k - 1 \in Nat /\ ~ (k - 1 < pad) /\ at + (k - pad) - 1 = at + (k - 1) - pad
          BY <1>1, <2>2, <4>2
        <5>2. u[k] = t[k - pad]
          BY <3>2, <3>3, <5>1
        <5> QED BY <3>2, <5>1, <5>2
      <4> QED BY <4>1, <4>2
    <3> HIDE DEF g
    <3>5. u = [k \in 1 .. total |-> g[k - 1]]
      BY <1>1, <2>2, <3>2, <3>3, <3>4 DEF IsList
    <3> QED BY <3>5 DEF u, s, t
  <2>8. answer.error = "none" /\ answer.v = w
    BY <2>1 DEF Ok
  <2> QED BY <1>4, <2>6, <2>7, <2>8, <2>9 DEF n
<1> QED BY <1>2, <1>3, <1>4

\* The bytes read with the slack behind.
LEMMA ReadBytesLeftAlignedIs ==
  ASSUME NEW bytes \in ByteLists, data = bytes, NEW at \in Nat, NEW width \in Nat,
         NEW slack, slack = ByteBits * BytesFor(width) - width,
         NEW answer, answer = ReadBytesLeftAligned(bytes, at, width)
  PROVE  /\ answer.error # "none" <=> at + width > LenBits(bytes)
         /\ answer.error = "none" => BitsOf(answer.v) = Field(at, width) \o Zeros(slack)
<1> DEFINE f == Bits(bytes)
           n == BytesFor(width)
           total == ByteBits * n
           pad == total - width
           g == [k \in Nat |-> IF k < width THEN f[at + k] ELSE 0]
           Rem(index) == width - ByteBits * index
           Take(index) == IF Rem(index) < ByteBits THEN Rem(index) ELSE ByteBits
           ByteAt(index) ==
             (PeekUint(bytes, at + ByteBits * index, Take(index)).v * Pow2(ByteBits - Take(index)))
               % ByteLimit
           w == [i \in 1 .. n |-> ByteAt(i - 1)]
<1>1. /\ n \in Nat /\ pad \in 0 .. ByteBits - 1 /\ pad \in Nat /\ ByteBits \in Nat \ {0} /\ f \in Stream
      /\ LenBits(bytes) \in Nat /\ ByteBits \in 1 .. MaxWidth
      /\ total \in Nat /\ total = width + pad
  <2>1. LenBits(bytes) \in Nat
    BY Sizes DEF LenBits, ByteLists
  <2>2. n \in Nat /\ pad \in 0 .. ByteBits - 1 /\ ByteBits \in Nat \ {0} /\ ByteBits <= MaxWidth
        /\ MaxWidth \in Nat
    BY SlackIs, Sizes
  <2>3. total \in Nat
    BY <2>2
  <2> HIDE DEF n, total
  <2> QED BY <2>1, <2>2, <2>3, BitsStream
<1>s. slack = pad
  OBVIOUS
<1>f. at + width <= LenBits(bytes) => Field(at, width) = Window(f, at, width)
  BY FieldIs
<1>2. CASE AlignedSlice(bytes, at, width) # {}
  <2>1. answer = Ok(CHOOSE s \in AlignedSlice(bytes, at, width) : TRUE)
    BY <1>2 DEF ReadBytesLeftAligned
  <2>2. PICK s \in AlignedSlice(bytes, at, width) : answer = Ok(s)
    BY <1>2, <2>1
  <2>3. at + width <= LenBits(bytes) /\ width = ByteBits * BytesFor(width) /\ BitsOf(s) = Field(at, width)
    BY SliceIs
  <2>4. slack = 0
    BY <2>3
  <2>5. Field(at, width) \o Zeros(slack) = Field(at, width)
    <3>1. IsList(Field(at, width))
      BY DEF IsList, Field
    <3> QED BY <2>4, <3>1, NothingInFront
  <2>6. answer.error = "none" /\ answer.v = s
    BY <2>2 DEF Ok
  <2>7. ~ at + width > LenBits(bytes)
    BY <1>1, <2>3
  <2> QED BY <2>3, <2>5, <2>6, <2>7
<1>3. CASE AlignedSlice(bytes, at, width) = {} /\ at + width > LenBits(bytes)
  BY <1>3 DEF ReadBytesLeftAligned, Err
<1>4. CASE AlignedSlice(bytes, at, width) = {} /\ ~ at + width > LenBits(bytes)
  <2>1. answer = Ok(w)
    BY <1>4 DEF ReadBytesLeftAligned
  <2>2. at + width <= LenBits(bytes)
    BY <1>1, <1>4
  <2> HIDE DEF f, n, total, pad
  <2>3. g \in Stream
    <3>1. \A k \in Nat : at + k \in Nat
      BY <1>1
    <3> QED BY <1>1, <3>1 DEF Stream
  <2>4. ASSUME NEW i \in 1 .. n PROVE ByteAt(i - 1) = NumberAt(g, ByteBits * (i - 1), ByteBits)
    <3> DEFINE c == ByteBits * (i - 1)
               take == Take(i - 1)
               rest == ByteBits - take
               d == at + c
               e == c + take
    <3>1. c \in Nat /\ c + ByteBits <= total
      <4>1. ByteBits * i <= ByteBits * n /\ ByteBits * i = c + ByteBits
        BY <1>1
      <4> QED BY <1>1, <4>1 DEF total
    <3>2. take = IF width - c < ByteBits THEN width - c ELSE ByteBits
      OBVIOUS
    <3> HIDE DEF c, take
    <3>3. /\ take \in 1 .. MaxWidth /\ take \in Nat /\ rest \in Nat /\ take + rest = ByteBits
          /\ c + take <= width /\ (take # ByteBits => c + take = width)
          /\ d \in Nat /\ e \in Nat
      <4>1. MaxWidth \in Nat
        BY Sizes
      <4>2. take >= 1 /\ take <= ByteBits /\ take \in Nat
        BY <1>1, <3>1, <3>2
      <4> QED BY <1>1, <3>1, <3>2, <4>1, <4>2
    <3>4. ByteAt(i - 1) = (PeekUint(bytes, d, take).v * Pow2(rest)) % ByteLimit
      BY DEF c, take
    <3>5. d + take <= LenBits(bytes)
      BY <1>1, <2>2, <3>1, <3>3
    <3>6. SameOn(f, d, g, c, take)
      <4>1. \A k \in 0 .. take - 1 : c + k \in Nat /\ c + k < width /\ at + (c + k) = d + k
        BY <1>1, <3>1, <3>3
      <4> HIDE DEF d
      <4> QED BY <4>1 DEF g, SameOn
    <3>7. \A k \in 0 .. rest - 1 : g[e + k] = 0
      <4>1. \A k \in 0 .. rest - 1 : e + k \in Nat /\ ~ (e + k < width)
        BY <1>1, <3>1, <3>3
      <4> HIDE DEF e
      <4> QED BY <4>1 DEF g
    <3> HIDE DEF g, ByteAt, d, rest
    <3>8. PeekUint(bytes, d, take) = Ok(NumberAt(f, d, take))
      BY <3>3, <3>5, PeekIs DEF f
    <3>9. NumberAt(f, d, take) = NumberAt(g, c, take)
      BY <3>1, <3>3, <3>6, SameNumber
    <3>10. NumberAt(g, c, take + rest) = (NumberAt(g, c, take) * Pow2(rest)) + NumberAt(g, e, rest)
      BY <2>3, <3>1, <3>3, NumberSplits
    <3> HIDE DEF e
    <3>11. NumberAt(g, e, rest) = 0
      BY <2>3, <3>3, <3>7, ZeroDigits
    <3>12. NumberAt(g, c, ByteBits) \in 0 .. ByteLimit - 1
      BY <1>1, <2>3, <3>1, NumberBelow DEF ByteLimit
    <3>13. NumberAt(g, c, ByteBits) = NumberAt(g, c, take) * Pow2(rest)
      <4>1. NumberAt(g, c, take) \in Nat /\ Pow2(rest) \in Nat
        BY <2>3, <3>1, <3>3, OneDigitMore, Pow2Step
      <4>2. NumberAt(g, c, take) * Pow2(rest) \in Nat
        BY <4>1
      <4> QED BY <3>3, <3>10, <3>11, <4>2
    <3>14. NumberAt(g, c, ByteBits) % ByteLimit = NumberAt(g, c, ByteBits)
      BY <3>12, Sizes
    <3>15. PeekUint(bytes, d, take).v = NumberAt(g, c, take)
      BY <3>8, <3>9 DEF Ok
    <3> QED BY <3>4, <3>13, <3>14, <3>15 DEF c
  <2>5. w \in [1 .. n -> Nat] /\ \A i \in 1 .. n : w[i] = NumberAt(g, ByteBits * (i - 1), ByteBits)
    <3>1. \A i \in 1 .. n : NumberAt(g, ByteBits * (i - 1), ByteBits) \in Nat
      <4>1. \A i \in 1 .. n : ByteBits * (i - 1) \in Nat
        BY <1>1
      <4> HIDE DEF g
      <4> QED BY <1>1, <2>3, <4>1, OneDigitMore
    <3> HIDE DEF ByteAt, g
    <3> QED BY <2>4, <3>1
  <2> HIDE DEF w
  <2>6. BitsOf(w) = [k \in 1 .. total |-> g[k - 1]]
    <3> HIDE DEF g
    <3> QED BY <1>1, <2>3, <2>5, StreamBits DEF total
  <2>7. Field(at, width) \o Zeros(slack) = [k \in 1 .. total |-> g[k - 1]]
    <3> DEFINE s == Field(at, width) t == Zeros(slack) u == s \o t
    <3>2. /\ IsList(s) /\ Len(s) = width /\ \A k \in 1 .. width : s[k] = f[at + k - 1]
          /\ IsList(t) /\ Len(t) = pad /\ \A k \in 1 .. pad : t[k] = 0
      BY <1>1, <1>s, <1>f, <2>2 DEF Window, Zeros, IsList
    <3> HIDE DEF s, t
    <3>3. /\ IsList(u) /\ Len(u) = Len(s) + Len(t)
          /\ \A k \in 1 .. Len(s) : u[k] = s[k]
          /\ \A k \in 1 .. Len(t) : u[Len(s) + k] = t[k]
      <4>1. IsList(s) /\ IsList(t)
        BY <3>2
      <4> QED BY <4>1, ListConcat
    <3> HIDE DEF u
    <3>4. ASSUME NEW k \in 1 .. total PROVE u[k] = g[k - 1]
      <4>1. CASE k <= width
        <5>1. k \in 1 .. width /\ k - 1 \in Nat /\ k - 1 < width /\ at + k - 1 = at + (k - 1)
          BY <1>1, <4>1
        <5> QED BY <3>2, <3>3, <5>1
      <4>2. CASE ~ k <= width
        <5>1. /\ k - width \in 1 .. pad /\ width + (k - width) = k
              /\ k - 1 \in Nat /\ ~ (k - 1 < width)
          BY <1>1, <2>2, <4>2
        <5>2. u[k] = t[k - width]
          BY <3>2, <3>3, <5>1
        <5> QED BY <3>2, <5>1, <5>2
      <4> QED BY <4>1, <4>2
    <3> HIDE DEF g
    <3>5. u = [k \in 1 .. total |-> g[k - 1]]
      BY <1>1, <2>2, <3>2, <3>3, <3>4 DEF IsList
    <3> QED BY <3>5 DEF u, s, t
  <2>8. answer.error = "none" /\ answer.v = w
    BY <2>1 DEF Ok
  <2> QED BY <1>4, <2>6, <2>7, <2>8
<1> QED BY <1>2, <1>3, <1>4

-------------------------------------------------------------------------------
\* The inductive invariant: a packet of bytes, a position, and the property.
CursorInv == data \in ByteLists /\ position \in Nat
ReadsInv == CursorInv /\ ReadsAreNaive

\* peek_uint, at the cursor, answers what ReadsAreNaive says.
LEMMA PeekAnswer ==
  ASSUME CursorInv, NEW width \in Nat, NEW answer, answer = PeekUint(data, position, width)
  PROVE  /\ answer.error # "none" <=>
              width > MaxWidth \/ (position + width > LenBits(data) /\ width # 0)
         /\ answer.error = "none" => answer.v = Number(Field(position, width))
<1>1. data \in ByteLists /\ position \in Nat /\ LenBits(data) \in Nat /\ MaxWidth \in Nat \ {0}
  BY Sizes DEF CursorInv, LenBits, ByteLists
<1>2. CASE width > MaxWidth
  <2>1. width # 0 /\ width \notin 1 .. MaxWidth
    BY <1>1, <1>2
  <2>2. PeekUint(data, position, width) = Err("TooWide")
    BY <1>2, <2>1 DEF PeekUint
  <2> QED BY <1>2, <2>2 DEF Err
<1>3. CASE width = 0
  <2>1. Number(Field(position, width)) = NumberAt(Bits(data), position, 0)
    BY <1>1, <1>3, FieldIs
  <2>2. NumberAt(Bits(data), position, 0) = 0
    BY <1>1, BitsStream, OneDigitMore
  <2>3. PeekUint(data, position, width) = Ok(0)
    BY <1>1, <1>3 DEF PeekUint
  <2> QED BY <1>1, <1>3, <2>1, <2>2, <2>3 DEF Ok
<1>4. CASE width \in 1 .. MaxWidth /\ position + width > LenBits(data)
  <2>1. PeekUint(data, position, width) = Err("OutOfBounds")
    BY <1>1, <1>4 DEF PeekUint
  <2> QED BY <1>1, <1>4, <2>1 DEF Err
<1>5. CASE width \in 1 .. MaxWidth /\ position + width <= LenBits(data)
  <2>1. PeekUint(data, position, width) = Ok(NumberAt(Bits(data), position, width))
    BY <1>1, <1>5, PeekIs
  <2>2. Number(Field(position, width)) = NumberAt(Bits(data), position, width)
    BY <1>1, <1>5, FieldIs
  <2> QED BY <1>1, <1>5, <2>1, <2>2 DEF Ok
<1> QED BY <1>1, <1>2, <1>3, <1>4, <1>5

\* What ReadsAreNaive says of one call at the cursor.
Correct(op, width, answer) ==
  LET beyond == position + width > LenBits(data)
      asNumber == op \in {"peek", "uint"}
      bits == Field(position, width)
      slack == Zeros(ByteBits * BytesFor(width) - width)
  IN /\ answer.error # "none" <=>
          IF asNumber THEN width > MaxWidth \/ (beyond /\ width # 0) ELSE beyond
     /\ answer.error = "none" =>
          /\ asNumber => answer.v = Number(bits)
          /\ op = "bytes" => BitsOf(answer.v) = slack \o bits
          /\ op = "text" => BitsOf(answer.v) = bits \o slack

\* A call that answers what is right keeps the invariant.
LEMMA ReadKept ==
  ASSUME CursorInv, NEW width \in Nat, NEW op, NEW answer, Correct(op, width, answer),
         data' = data, call' = Read(op, width, answer),
         position' = IF answer.error = "none" /\ op # "peek" THEN position + width ELSE position
  PROVE  ReadsInv'
<1>1. data' \in ByteLists /\ position' \in Nat
  BY DEF CursorInv
<1>2. call'.op = op /\ call'.at = position /\ call'.width = width /\ call'.answer = answer
  BY DEF Read
<1>3. \A a, n : Field(a, n)' = Field(a, n)
  BY DEF Field
<1>4. ReadsAreNaive'
  <2>1. Field(call.at, call.width)' = Field(position, width)
    BY <1>2 DEF Field
  <2> QED BY <1>2, <2>1 DEF ReadsAreNaive, Correct
<1> QED BY <1>1, <1>4 DEF ReadsInv, CursorInv

\* Every step keeps the invariant.
LEMMA ReadsStep ==
  ASSUME ReadsInv, [Next]_vars
  PROVE  ReadsInv'
<1>1. data \in ByteLists /\ position \in Nat /\ ReadsAreNaive /\ CursorInv
  BY DEF ReadsInv, CursorInv
<1>2. CASE UNCHANGED vars
  <2>1. data' = data /\ position' = position /\ call' = call
    BY <1>2 DEF vars
  <2> QED BY <1>1, <2>1 DEF ReadsInv, CursorInv, ReadsAreNaive, Field
<1>3. CASE data' = data /\ position' \in Nat /\ call'.op \notin {"peek", "uint", "bytes", "text", "skip"}
  BY <1>1, <1>3 DEF ReadsInv, CursorInv, ReadsAreNaive
<1>4. ASSUME NEW p \in Positions, call = NoCall, Seek(p) PROVE ReadsInv'
  <2>1. data' = data /\ position' \in Nat /\ call'.op = "none"
    BY <1>4, ReadsAssumption DEF Seek, NoCall
  <2> QED BY <1>3, <2>1
<1>5. ASSUME NEW width \in Widths PROVE width \in Nat
  BY ReadsAssumption
<1>6. ASSUME NEW width \in Widths, Skip(width) PROVE ReadsInv'
  <2>1. position + width > LenBits(data) =>
          /\ call' = Read("skip", width, Err("OutOfBounds"))
          /\ position' = position
          /\ Correct("skip", width, Err("OutOfBounds"))
    BY <1>6 DEF Skip, Correct, Err
  <2>2. ~ position + width > LenBits(data) =>
          /\ call' = Read("skip", width, Ok(0))
          /\ position' = position + width
          /\ Correct("skip", width, Ok(0))
    BY <1>6 DEF Skip, Correct, Ok
  <2>3. data' = data
    BY <1>6 DEF Skip
  <2>4. Ok(0).error = "none" /\ Err("OutOfBounds").error # "none"
    BY DEF Ok, Err
  <2>5. CASE position + width > LenBits(data)
    BY <1>1, <1>5, <2>1, <2>3, <2>4, <2>5, ReadKept
  <2>6. CASE ~ position + width > LenBits(data)
    <3>1. position' = IF Ok(0).error = "none" /\ "skip" # "peek" THEN position + width ELSE position
      BY <2>2, <2>4, <2>6
    <3> QED BY <1>1, <1>5, <2>2, <2>3, <2>6, <3>1, ReadKept
  <2> QED BY <2>5, <2>6
<1>7. ASSUME NEW width \in Widths, PeekNext(width) PROVE ReadsInv'
  <2> DEFINE answer == PeekUint(data, position, width)
  <2>1. call' = Read("peek", width, answer) /\ data' = data /\ position' = position
    BY <1>7 DEF PeekNext
  <2>2. Correct("peek", width, answer)
    BY <1>1, <1>5, PeekAnswer DEF Correct
  <2> HIDE DEF answer
  <2> QED BY <1>1, <1>5, <2>1, <2>2, ReadKept
<1>8. ASSUME NEW width \in Widths, ReadUint(width) PROVE ReadsInv'
  <2> DEFINE answer == PeekUint(data, position, width)
  <2>1. call' = Read("uint", width, answer) /\ data' = data
    BY <1>8 DEF ReadUint
  <2>2. Correct("uint", width, answer)
    BY <1>1, <1>5, PeekAnswer DEF Correct
  <2> HIDE DEF answer
  <2>3. position' = IF answer.error = "none" /\ "uint" # "peek" THEN position + width ELSE position
    BY <1>8, <2>1 DEF ReadUint, Moved, Read
  <2> QED BY <1>1, <1>5, <2>1, <2>2, <2>3, ReadKept
<1>9. ASSUME NEW width \in Widths, ReadBits(width) PROVE ReadsInv'
  <2> DEFINE slack == ByteBits * BytesFor(width) - width
  <2>0. data' = data
    BY <1>9 DEF ReadBits
  <2>1. ASSUME NEW op \in {"bytes", "text"}, NEW answer, call' = Read(op, width, answer),
               Correct(op, width, answer)
        PROVE  ReadsInv'
    <3>1. position' = IF answer.error = "none" /\ op # "peek" THEN position + width ELSE position
      BY <1>9, <2>1 DEF ReadBits, Moved, Read
    <3> QED BY <1>1, <1>5, <2>0, <2>1, <3>1, ReadKept
  <2>2. CASE call' = Read("bytes", width, ReadBytes(data, position, width))
    <3>1. Correct("bytes", width, ReadBytes(data, position, width))
      <4> DEFINE answer == ReadBytes(data, position, width)
      <4>1. /\ answer.error # "none" <=> position + width > LenBits(data)
            /\ answer.error = "none" => BitsOf(answer.v) = Zeros(slack) \o Field(position, width)
        <5> HIDE DEF answer
        <5> QED BY <1>1, <1>5, ReadBytesIs DEF answer
      <4> HIDE DEF answer
      <4>2. Correct("bytes", width, answer)
        BY <4>1 DEF Correct
      <4> QED BY <4>2 DEF answer
    <3> QED BY <2>1, <2>2, <3>1
  <2>3. CASE call' = Read("text", width, ReadBytesLeftAligned(data, position, width))
    <3>1. Correct("text", width, ReadBytesLeftAligned(data, position, width))
      <4> DEFINE answer == ReadBytesLeftAligned(data, position, width)
      <4>1. /\ answer.error # "none" <=> position + width > LenBits(data)
            /\ answer.error = "none" => BitsOf(answer.v) = Field(position, width) \o Zeros(slack)
        <5> HIDE DEF answer
        <5> QED BY <1>1, <1>5, ReadBytesLeftAlignedIs DEF answer
      <4> HIDE DEF answer
      <4>2. Correct("text", width, answer)
        BY <4>1 DEF Correct
      <4> QED BY <4>2 DEF answer
    <3> QED BY <2>1, <2>3, <3>1
  <2> QED BY <1>9, <2>2, <2>3 DEF ReadBits
<1>10. ASSUME NEW width \in Widths, AlignFixed(width) PROVE ReadsInv'
  <2>1. data' = data /\ position' \in Nat /\ call'.op = "fixed"
    BY <1>1, <1>10 DEF AlignFixed
  <2> QED BY <1>3, <2>1
<1>11. ASSUME NEW width \in Widths, NEW coding \in Codings, NEW swapped \in BOOLEAN,
              ReadField(width, coding, swapped)
       PROVE  ReadsInv'
  <2>1. data' = data /\ position' \in Nat /\ call'.op = "field"
    BY <1>1, <1>11 DEF ReadField
  <2> QED BY <1>3, <2>1
<1>12. ASSUME NEW spline, NEW x, Calibrate(spline, x) PROVE ReadsInv'
  <2>1. data' = data /\ position' \in Nat /\ call'.op = "spline"
    BY <1>1, <1>12 DEF Calibrate
  <2> QED BY <1>3, <2>1
<1>13. ASSUME NEW buffer, NEW delimiter, NEW charset, NEW order,
              DecodeText(buffer, delimiter, charset, order)
       PROVE  ReadsInv'
  <2>1. data' = data /\ position' \in Nat /\ call'.op = "string"
    BY <1>1, <1>13 DEF DecodeText
  <2> QED BY <1>3, <2>1
<1>14. CASE Return
  <2>1. data' = data /\ position' \in Nat /\ call'.op = "none"
    BY <1>1, <1>14 DEF Return, NoCall
  <2> QED BY <1>3, <2>1
<1> QED
  BY <1>2, <1>4, <1>6, <1>7, <1>8, <1>9, <1>10, <1>11, <1>12, <1>13, <1>14 DEF Next

\* Whatever the size of a byte and of a word, the packet and the order of the
\* calls, a read answers the bits behind the cursor and no others, fails exactly
\* where they are not there, and moves the cursor by its width or not at all
\* (bits.rs: peek_uint, read_uint, skip, read_bytes, read_bytes_left_aligned).
THEOREM ReadsAreRight == Spec => []ReadsAreNaive
<1>1. Init => ReadsInv
  BY ReadsAssumption DEF Init, ReadsInv, CursorInv, ReadsAreNaive, NoCall, ByteLists
<1>2. ReadsInv /\ [Next]_vars => ReadsInv'
  BY ReadsStep
<1>3. ReadsInv => ReadsAreNaive
  BY DEF ReadsInv
<1> QED BY <1>1, <1>2, <1>3, PTL DEF Spec

(***************************************************************************)
(* The numbers that a field's bits stand for.                              *)
(***************************************************************************)
Halves(w, p, q) ==
  /\ p \in Nat \ {0} /\ q \in Nat \ {0}
  /\ Pow2(w - 1) = p
  /\ Pow2(MaxWidth - w) = q
  /\ Pow2(w) = 2 * p
  /\ WordLimit = (2 * p) * q
  /\ WordLimit \div 2 = p * q
  /\ p * q \in Nat \ {0} /\ p <= p * q

\* Every width up to a word has such halves.
LEMMA HalvesOf ==
  ASSUME NEW w \in 1 .. MaxWidth
  PROVE  \E p, q : Halves(w, p, q)
<1> DEFINE p == Pow2(w - 1)
           q == Pow2(MaxWidth - w)
<1>1. w - 1 \in Nat /\ MaxWidth - w \in Nat /\ (w - 1) + 1 = w /\ w + (MaxWidth - w) = MaxWidth /\ w \in Nat
  BY Sizes
<1>2. p \in Nat \ {0} /\ q \in Nat \ {0} /\ Pow2(w) = 2 * p
  BY <1>1, Pow2Step
<1>3. WordLimit = Pow2(w) * q
  BY <1>1, Pow2Sum DEF WordLimit
<1> HIDE DEF p, q
<1>4. (2 * p) * q = (p * q) * 2 /\ p * q \in Nat \ {0}
  BY <1>2
<1>5. WordLimit = (p * q) * 2 + 0
  BY <1>2, <1>3, <1>4
<1>6. WordLimit \div 2 = p * q
  <2> DEFINE h == p * q
  <2>1. h \in Nat /\ WordLimit = h * 2
    BY <1>4, <1>5
  <2> HIDE DEF h
  <2>2. WordLimit \div 2 = h
    BY <2>1
  <2> QED BY <2>2 DEF h
<1>7. p * 1 <= p * q
  BY <1>2
<1>8. Halves(w, p, q)
  BY <1>2, <1>3, <1>4, <1>6, <1>7 DEF Halves, p, q
<1> QED BY <1>8

\* The top bit of a field is set where its number is in the upper half.
LEMMA TopBit ==
  ASSUME NEW p \in Nat \ {0}, NEW x \in 0 .. 2 * p - 1
  PROVE  /\ x < p => x \div p = 0 /\ x % p = x
         /\ ~ x < p => x \div p = 1 /\ x % p = x - p
<1>1. CASE x < p
  <2>1. x = 0 * p + x /\ x \in 0 .. p - 1
    BY <1>1
  <2> QED BY <1>1, <2>1, DivisionIsOne
<1>2. CASE ~ x < p
  <2>1. x = 1 * p + (x - p) /\ x - p \in 0 .. p - 1
    BY <1>2
  <2>2. (1 * p + (x - p)) \div p = 1 /\ (1 * p + (x - p)) % p = x - p
    BY <2>1, DivisionIsOne
  <2> QED BY <1>2, <2>1, <2>2
<1> QED BY <1>1, <1>2

\* A multiple of the low bits leaves the word where the product does.
LEMMA ShiftedBack ==
  ASSUME NEW w \in 1 .. MaxWidth, NEW x \in 0 .. Pow2(w) - 1
  PROVE  AsSigned((x * Pow2(MaxWidth - w)) % WordLimit) \div Pow2(MaxWidth - w)
           = IF x < Pow2(w - 1) THEN x ELSE x - Pow2(w)
<1>1. PICK p, q : Halves(w, p, q)
  BY HalvesOf
<1> DEFINE L == WordLimit
           y == x * q
<1>2. /\ p \in Nat \ {0} /\ q \in Nat \ {0} /\ Pow2(w - 1) = p /\ Pow2(MaxWidth - w) = q
      /\ Pow2(w) = 2 * p /\ L = (2 * p) * q /\ L \div 2 = p * q /\ p * q \in Nat \ {0}
  BY <1>1 DEF Halves
<1>3. x \in Nat /\ x <= 2 * p - 1
  BY <1>2
<1>4. y \in Nat /\ y <= (2 * p - 1) * q
  BY <1>2, <1>3
<1>5. (2 * p - 1) * q = (2 * p) * q - q
  BY <1>2
<1>6. y < L /\ L \in Nat \ {0}
  <2>1. (2 * p) * q \in Nat
    BY <1>2
  <2> HIDE DEF y, L
  <2> QED BY <1>2, <1>4, <1>5, <2>1
<1>7. y % L = y
  <2> HIDE DEF y, L
  <2> QED BY <1>4, <1>6
<1>8. x < p => y < p * q
  <2>1. x < p => x + 1 <= p
    BY <1>2, <1>3
  <2>2. x < p => (x + 1) * q <= p * q
    BY <1>2, <1>3, <2>1
  <2>3. (x + 1) * q = y + q
    BY <1>2, <1>3
  <2> HIDE DEF y
  <2> QED BY <1>2, <1>4, <2>2, <2>3
<1>9. ~ x < p => ~ y < p * q
  <2>1. ~ x < p => p * q <= x * q
    BY <1>2, <1>3
  <2> QED BY <1>2, <1>4, <2>1
<1>10. CASE x < p
  <2>1. AsSigned(y % L) = y
    <3> HIDE DEF y
    <3> QED BY <1>2, <1>7, <1>8, <1>10 DEF AsSigned
  <2>2. y \div q = x
    <3>1. (x * q + 0) \div q = x
      BY <1>2, <1>3, DivisionIsOne
    <3>2. x * q + 0 = x * q
      BY <1>2, <1>3
    <3> QED BY <3>1, <3>2
  <2> QED BY <1>2, <1>10, <2>1, <2>2
<1>11. CASE ~ x < p
  <2> DEFINE z == x - 2 * p
  <2>1. AsSigned(y % L) = y - L
    <3> HIDE DEF y
    <3> QED BY <1>2, <1>7, <1>9, <1>11 DEF AsSigned
  <2>2. y - L = z * q + 0 /\ z \in Int
    BY <1>2, <1>3
  <2> HIDE DEF z
  <2>3. (z * q + 0) \div q = z
    BY <1>2, <2>2, DivisionIsOne
  <2>4. (y - L) \div q = z
    BY <2>2, <2>3
  <2> QED BY <1>2, <1>11, <2>1, <2>4 DEF z
<1> QED BY <1>10, <1>11

\* A number below two to the width, in its coding: both readers' conversions.
LEMMA CodedIs ==
  ASSUME NEW w \in 1 .. MaxWidth, NEW x \in 0 .. Pow2(w) - 1
  PROVE  /\ TwosComplement(x, w) = Meaning(x, w, "twosComplement")
         /\ TwosComplementUnmasked(x, w) = Ok(Meaning(x, w, "twosComplement"))
         /\ SignMagnitude(x, w) = Meaning(x, w, "signMagnitude")
         /\ OnesComplement(x, w) = Meaning(x, w, "onesComplement")
         /\ x = Meaning(x, w, "unsigned")
<1>1. PICK p, q : Halves(w, p, q)
  BY HalvesOf
<1>2. /\ p \in Nat \ {0} /\ q \in Nat \ {0} /\ Pow2(w - 1) = p /\ Pow2(MaxWidth - w) = q
      /\ Pow2(w) = 2 * p /\ WordLimit = (2 * p) * q /\ WordLimit \div 2 = p * q
      /\ p * q \in Nat \ {0} /\ p <= p * q
  BY <1>1 DEF Halves
<1>3. x \in 0 .. 2 * p - 1 /\ x \in Nat
  BY <1>2
<1>w. w \in Nat \ {0} /\ MaxWidth \in Nat \ {0}
  BY Sizes
<1>4. /\ x < p => x \div p = 0 /\ x % p = x
      /\ ~ x < p => x \div p = 1 /\ x % p = x - p
  BY <1>2, <1>3, TopBit
<1>5. TestBit(x, w - 1) <=> ~ x < p
  BY <1>2, <1>4 DEF TestBit, ShiftRight
<1>6. Mask(x, w - 1) = x % p
  BY <1>2 DEF Mask
<1>7. x < p => AsSigned(x) = x
  <2>1. x < p => x < p * q
    BY <1>2, <1>3
  <2> QED BY <1>2, <2>1 DEF AsSigned
<1>8. TwosComplement(x, w) = Meaning(x, w, "twosComplement")
  <2>1. TwosComplement(x, w) = IF x < p THEN x ELSE x - 2 * p
    BY <1>2, ShiftedBack DEF TwosComplement
  <2>2. Meaning(x, w, "twosComplement") = IF x < p THEN x ELSE x - 2 * p
    BY <1>2, <1>3 DEF Meaning
  <2> QED BY <2>1, <2>2
<1>9. TwosComplementUnmasked(x, w) = Ok(Meaning(x, w, "twosComplement"))
  <2>1. Meaning(x, w, "twosComplement") = IF x < p THEN x ELSE x - 2 * p
    BY <1>2, <1>3 DEF Meaning
  <2>2. CASE w >= MaxWidth
    <3>1. w = MaxWidth /\ MaxWidth - w = 0
      BY <1>w, <2>2
    <3>2. q = 1
      BY <1>2, <3>1, Pow2Step
    <3>3. p * q = p /\ (2 * p) * q = 2 * p
      BY <1>2, <3>2
    <3>4. AsSigned(x) = IF x < p THEN x ELSE x - 2 * p
      BY <1>2, <1>3, <3>3 DEF AsSigned
    <3> QED BY <2>1, <2>2, <3>4 DEF TwosComplementUnmasked
  <2>3. CASE ~ w >= MaxWidth
    <3> DEFINE answer == IF x < p THEN x ELSE x - 2 * p
    <3>1. answer \in -p .. p - 1
      BY <1>2, <1>3
    <3> HIDE DEF answer
    <3>2. FitsSigned(answer)
      <4> DEFINE h == p * q
      <4>1. h \in Nat /\ p <= h /\ WordLimit \div 2 = h
        BY <1>2
      <4> HIDE DEF h
      <4> QED BY <1>2, <3>1, <4>1 DEF FitsSigned
    <3>3. w # 0
      BY <1>w
    <3>4. answer = IF TestBit(x, w - 1) THEN x - Pow2(w) ELSE x
      BY <1>2, <1>5 DEF answer
    <3>5. TwosComplementUnmasked(x, w) = Ok(answer)
      BY <2>3, <3>2, <3>3, <3>4 DEF TwosComplementUnmasked
    <3> QED BY <2>1, <3>5 DEF answer
  <2> QED BY <2>2, <2>3
<1>10. SignMagnitude(x, w) = Meaning(x, w, "signMagnitude")
  <2>1. Meaning(x, w, "signMagnitude") = IF x < p THEN x ELSE -(x % p)
    BY <1>2, <1>3 DEF Meaning
  <2> QED BY <1>4, <1>5, <1>6, <2>1 DEF SignMagnitude
<1>11. OnesComplement(x, w) = Meaning(x, w, "onesComplement")
  <2>1. Meaning(x, w, "onesComplement") = IF x < p THEN x ELSE x - 2 * p + 1
    BY <1>2, <1>3 DEF Meaning
  <2>2. Mask(WordLimit - 1 - x, w) = 2 * p - 1 - x
    <3> DEFINE r == 2 * p - 1 - x
               d == 2 * p
               e == q - 1
    <3>1. r \in 0 .. d - 1 /\ d \in Nat \ {0} /\ e \in Int
      BY <1>2, <1>3
    <3>2. d * q = e * d + d
      BY <1>2
    <3>3. WordLimit - 1 - x = e * d + r
      <4>1. e * d \in Int
        BY <3>1
      <4> QED BY <1>2, <1>3, <3>2, <4>1
    <3> HIDE DEF r, d, e
    <3>4. (e * d + r) % d = r
      BY <3>1, DivisionIsOne
    <3> QED BY <1>2, <3>3, <3>4 DEF r, d, Mask
  <2>3. -(2 * p - 1 - x) = x - 2 * p + 1
    BY <1>2, <1>3
  <2> QED BY <1>5, <1>7, <2>1, <2>2, <2>3 DEF OnesComplement
<1>12. x = Meaning(x, w, "unsigned")
  BY DEF Meaning
<1> QED BY <1>8, <1>9, <1>10, <1>11, <1>12

\* A list of bytes is its bits.
LEMMA NumberOfBytes ==
  ASSUME NEW w \in ByteLists
  PROVE  /\ FromBe(w) = NumberAt(Bits(w), 0, ByteBits * Len(w))
         /\ FromBe(w) \in 0 .. Pow2(ByteBits * Len(w)) - 1
         /\ FromBe(w) \in Nat
<1> DEFINE n == Len(w) f == Bits(w)
<1>1. n \in Nat /\ f \in Stream /\ ByteBits \in Nat /\ ByteBits * n \in Nat /\ 0 \in Nat
  BY BitsStream, Sizes DEF ByteLists
<1>2. ASSUME NEW i \in 1 .. n
      PROVE  w[i] \in Nat /\ w[i] = NumberAt(f, 0 + ByteBits * (i - 1), ByteBits)
  <2>1. w[i] \in Nat
    BY ByteIsByte, Sizes
  <2>2. 0 + ByteBits * (i - 1) = ByteBits * (i - 1)
    BY <1>1
  <2> QED BY <2>1, <2>2, ByteBack
<1>3. w \in [1 .. n -> Nat]
  BY <1>2, SeqIsList DEF ByteLists
<1> HIDE DEF n, f
<1>4. FromBe(w) = NumberAt(f, 0, ByteBits * n)
  BY <1>1, <1>2, <1>3, BytesAsNumber
<1>5. NumberAt(f, 0, ByteBits * n) \in 0 .. Pow2(ByteBits * n) - 1 /\ NumberAt(f, 0, ByteBits * n) \in Nat
  BY <1>1, NumberBelow, OneDigitMore
<1> QED BY <1>4, <1>5 DEF n, f

\* The bytes of a field fit a word.
LEMMA BytesFit ==
  ASSUME NEW width \in 1 .. MaxWidth
  PROVE  /\ BytesFor(width) \in 1 .. WordBytes
         /\ ByteBits * BytesFor(width) \in 1 .. MaxWidth
         /\ width <= ByteBits * BytesFor(width)
<1> DEFINE b == ByteBits n == BytesFor(width) t == b * n
<1>1. b \in Nat \ {0} /\ WordBytes \in Nat \ {0} /\ MaxWidth = b * WordBytes /\ width \in Nat \ {0}
      /\ MaxWidth \in Nat
  BY Sizes DEF MaxWidth
<1>2. n \in Nat /\ t - width \in 0 .. b - 1
  BY <1>1, SlackIs
<1> HIDE DEF b, n
<1>3. n < WordBytes + 1
  <2>1. b * (WordBytes + 1) = b * WordBytes + b
    BY <1>1
  <2>2. ~ n < WordBytes + 1 => b * (WordBytes + 1) <= b * n
    BY <1>1, <1>2
  <2>3. t \in Nat
    BY <1>1, <1>2
  <2> HIDE DEF t
  <2>4. t < MaxWidth + b
    BY <1>1, <1>2, <2>3
  <2> QED BY <1>1, <1>2, <2>1, <2>2, <2>3, <2>4 DEF t
<1>4. b * n <= b * WordBytes
  BY <1>1, <1>2, <1>3
<1>5. n # 0
  <2>1. n = 0 => t = 0
    BY <1>1, <1>2
  <2> HIDE DEF t
  <2> QED BY <1>1, <1>2, <2>1
<1>6. t \in Nat
  BY <1>1, <1>2
<1>7. t \in 1 .. MaxWidth /\ width <= t
  <2>1. t <= MaxWidth
    BY <1>1, <1>4
  <2> HIDE DEF t
  <2> QED BY <1>1, <1>2, <1>6, <2>1
<1> QED BY <1>1, <1>2, <1>3, <1>5, <1>7 DEF b, n

\* Powers of two grow with their exponent.
LEMMA Pow2Below ==
  ASSUME NEW m \in Nat, NEW n \in Nat, m <= n
  PROVE  Pow2(m) <= Pow2(n)
<1> DEFINE k == n - m p == Pow2(m) q == Pow2(k)
<1>1. k \in Nat /\ m + k = n
  OBVIOUS
<1>2. Pow2(n) = p * q
  BY <1>1, Pow2Sum
<1>3. p \in Nat \ {0} /\ q \in Nat \ {0}
  BY <1>1, Pow2Step
<1> HIDE DEF p, q
<1>4. p * 1 <= p * q
  BY <1>3
<1> QED BY <1>2, <1>3, <1>4 DEF p

\* A number below the divisor is its own remainder.
LEMMA Small ==
  ASSUME NEW x \in Nat, NEW p \in Nat \ {0}, x < p
  PROVE  x % p = x /\ x \div p = 0
OBVIOUS

\* The bytes of a number, the lowest first.
Little(value, n) == [i \in 1 .. n |-> (value \div Pow2(ByteBits * (i - 1))) % ByteLimit]

\* They are a list of bytes.
LEMMA LittleIsBytes ==
  ASSUME NEW value \in Nat, NEW n \in Nat
  PROVE  /\ Little(value, n) \in ByteLists
         /\ Len(Little(value, n)) = n
         /\ Little(value, n) \in [1 .. n -> Nat]
         /\ \A i \in 1 .. n : Little(value, n)[i] \in 0 .. ByteLimit - 1
<1>1. ASSUME NEW i \in 1 .. n
      PROVE  (value \div Pow2(ByteBits * (i - 1))) % ByteLimit \in 0 .. ByteLimit - 1
  <2> DEFINE p == Pow2(ByteBits * (i - 1)) x == value \div p
  <2>1. ByteBits * (i - 1) \in Nat
    BY Sizes
  <2>2. p \in Nat \ {0}
    BY <2>1, Pow2Step
  <2> HIDE DEF p
  <2>3. x \in Nat
    BY <2>2
  <2> HIDE DEF x
  <2>4. x % ByteLimit \in 0 .. ByteLimit - 1
    BY <2>3, Sizes
  <2> QED BY <2>4 DEF x, p
<1> DEFINE S == 0 .. ByteLimit - 1
<1>2. Little(value, n) = [i \in 1 .. n |-> Little(value, n)[i]] /\ \A i \in 1 .. n : Little(value, n)[i] \in S
  BY <1>1 DEF Little
<1>3. \A x \in S : x \in Nat
  BY Sizes
<1> HIDE DEF S
<1>4. Little(value, n) \in Seq(S) /\ Len(Little(value, n)) = n /\ Little(value, n) \in [1 .. n -> Nat]
  BY <1>2, <1>3
<1> QED BY <1>2, <1>4 DEF S, ByteLists

\* swap_byte_order, byte by byte.
SwapLoop(value, width, n, rest, out) ==
  /\ rest \in [0 .. n -> Nat] /\ out \in [0 .. n -> Nat]
  /\ SwapByteOrder(value, width) = out[n]
  /\ rest[0] = value /\ out[0] = 0
  /\ \A j \in 1 .. n :
       /\ rest[j] = rest[j - 1] \div ByteLimit
       /\ out[j] = (out[j - 1] * ByteLimit + (rest[j - 1] % ByteLimit)) % WordLimit

\* The two recursive functions of SwapByteOrder, step by step.
LEMMA SwapFollows ==
  ASSUME NEW value \in Nat, NEW width \in Nat, NEW n \in Nat, n = BytesFor(width), n > 1
  PROVE  \E rest, out : SwapLoop(value, width, n, rest, out)
<1> DEFINE U == Nat
           x == 0
           Shrinks(g) == g = [i \in 0 .. n |-> IF i = 0 THEN value ELSE g[i - 1] \div ByteLimit]
           rest == CHOOSE g : Shrinks(g)
           Grows(g) == g = [i \in 0 .. n |-> IF i = 0 THEN 0
                              ELSE (g[i - 1] * ByteLimit + (rest[i - 1] % ByteLimit)) % WordLimit]
           out == CHOOSE g : Grows(g)
           down == [p \in (1 .. n) \X U |-> p[2] \div ByteLimit]
           up == [p \in (1 .. n) \X U |-> (p[2] * ByteLimit + (rest[p[1] - 1] % ByteLimit)) % WordLimit]
<1>0. ByteLimit \in Nat \ {0} /\ WordLimit \in Nat \ {0}
  BY Sizes
<1>i. 0 \in 0 .. n /\ \A j \in 1 .. n : j \in 0 .. n /\ j # 0 /\ j - 1 \in 0 .. n
  OBVIOUS
<1>1. \A j \in 1 .. n : \A v \in U : down[<<j, v>>] = v \div ByteLimit /\ v \div ByteLimit \in U
  BY <1>0
<1>2. value \in U
  OBVIOUS
<1> HIDE DEF down, U, rest, out, up
<1>3. PICK g \in [0 .. n -> U] :
        g = [j \in 0 .. n |-> IF j = 0 THEN value ELSE down[<<j, g[j - 1]>>]]
  <2>1. StaysIn(U, down, n)
    BY <1>1 DEF StaysIn
  <2> QED BY <1>2, <2>1, ChainRecursion
<1>4. Shrinks(g)
  <2>1. \A j \in 0 .. n : j # 0 => j \in 1 .. n /\ g[j - 1] \in U
    BY <1>3
  <2>2. \A j \in 0 .. n : g[j] = IF j = 0 THEN value ELSE g[j - 1] \div ByteLimit
    BY <1>1, <1>3, <2>1
  <2> QED BY <1>3, <2>2
<1>5. Shrinks(rest)
  <2> HIDE DEF Shrinks
  <2> QED BY <1>4 DEF rest
<1>6. rest[0] = value /\ \A j \in 1 .. n : rest[j] = rest[j - 1] \div ByteLimit
  <2>1. \A j \in 0 .. n : rest[j] = IF j = 0 THEN value ELSE rest[j - 1] \div ByteLimit
    BY <1>5
  <2> QED BY <1>i, <2>1
<1>7. rest \in [0 .. n -> U]
  <2> DEFINE T == {j \in 0 .. n : rest[j] \in U}
  <2>1. 0 \in T /\ \A j \in 1 .. n : j - 1 \in T => j \in T
    BY <1>1, <1>2, <1>6, <1>i
  <2> HIDE DEF T
  <2>2. 0 .. n \subseteq T
    BY <2>1, InductionTo
  <2> QED BY <1>5, <2>2 DEF T
<1>8. \A j \in 1 .. n : \A v \in U :
        /\ up[<<j, v>>] = (v * ByteLimit + (rest[j - 1] % ByteLimit)) % WordLimit
        /\ (v * ByteLimit + (rest[j - 1] % ByteLimit)) % WordLimit \in U
  <2>1. ASSUME NEW j \in 1 .. n, NEW v \in U
        PROVE  /\ up[<<j, v>>] = (v * ByteLimit + (rest[j - 1] % ByteLimit)) % WordLimit
               /\ (v * ByteLimit + (rest[j - 1] % ByteLimit)) % WordLimit \in U
    <3> DEFINE r == rest[j - 1]
    <3>1. up[<<j, v>>] = (v * ByteLimit + (r % ByteLimit)) % WordLimit
      BY DEF up
    <3>2. r \in Nat /\ v \in Nat
      BY <1>7, <1>i DEF U
    <3> HIDE DEF r
    <3>3. r % ByteLimit \in Nat /\ v * ByteLimit \in Nat
      BY <1>0, <3>2
    <3> DEFINE y == v * ByteLimit + (r % ByteLimit)
    <3>4. y \in Nat
      BY <3>3
    <3> HIDE DEF y
    <3>5. y % WordLimit \in Nat
      BY <1>0, <3>4
    <3> QED BY <3>1, <3>5 DEF y, r, U
  <2> QED BY <2>1
<1>9. x \in U
  BY DEF U
<1> HIDE DEF x
<1>10. PICK h \in [0 .. n -> U] :
        h = [j \in 0 .. n |-> IF j = 0 THEN x ELSE up[<<j, h[j - 1]>>]]
  <2>1. StaysIn(U, up, n)
    BY <1>8 DEF StaysIn
  <2> QED BY <1>9, <2>1, ChainRecursion
<1>11. Grows(h)
  <2>1. \A j \in 0 .. n : j # 0 => j \in 1 .. n /\ h[j - 1] \in U
    BY <1>10
  <2>2. \A j \in 0 .. n : h[j] = IF j = 0 THEN 0
                           ELSE (h[j - 1] * ByteLimit + (rest[j - 1] % ByteLimit)) % WordLimit
    BY <1>8, <1>10, <2>1 DEF x
  <2> QED BY <1>10, <2>2
<1>12. Grows(out)
  <2> HIDE DEF Grows
  <2> QED BY <1>11 DEF out
<1>13. out[0] = 0 /\ \A j \in 1 .. n :
         out[j] = (out[j - 1] * ByteLimit + (rest[j - 1] % ByteLimit)) % WordLimit
  <2>1. \A j \in 0 .. n : out[j] = IF j = 0 THEN 0
                            ELSE (out[j - 1] * ByteLimit + (rest[j - 1] % ByteLimit)) % WordLimit
    BY <1>12
  <2> QED BY <1>i, <2>1
<1>14. out \in [0 .. n -> U]
  <2> DEFINE T == {j \in 0 .. n : out[j] \in U}
  <2>1. 0 \in T /\ \A j \in 1 .. n : j - 1 \in T => j \in T
    <3>1. 0 \in T
      BY <1>9, <1>13, <1>i DEF x
    <3>2. ASSUME NEW j \in 1 .. n, j - 1 \in T PROVE j \in T
      <4>1. out[j - 1] \in U
        BY <3>2
      <4>2. out[j] \in U
        BY <1>8, <1>13, <4>1
      <4> QED BY <1>i, <4>2
    <3> QED BY <3>1, <3>2
  <2> HIDE DEF T
  <2>2. 0 .. n \subseteq T
    BY <2>1, InductionTo
  <2> QED BY <1>12, <2>2 DEF T
<1>15. SwapByteOrder(value, width) = out[n]
  <2>1. ~ n <= 1
    OBVIOUS
  <2> QED BY <2>1 DEF SwapByteOrder, out, rest, Grows, Shrinks
<1>16. SwapLoop(value, width, n, rest, out)
  BY <1>6, <1>7, <1>13, <1>14, <1>15 DEF U, SwapLoop
<1> QED BY <1>16

\* After j bytes the number is below two to the number of their bits.
LEMMA FromBeBelow ==
  ASSUME NEW n \in Nat, NEW w \in [1 .. n -> Nat], \A i \in 1 .. n : w[i] \in 0 .. ByteLimit - 1,
         NEW h \in [0 .. n -> Nat],
         h[0] = 0 /\ \A j \in 1 .. n : h[j] = h[j - 1] * ByteLimit + w[j]
  PROVE  \A j \in 0 .. n : h[j] < Pow2(ByteBits * j)
<1> DEFINE T == {j \in 0 .. n : h[j] < Pow2(ByteBits * j)}
<1>1. 0 \in T
  <2>1. ByteBits * 0 = 0 /\ Pow2(0) = 1
    BY Sizes, Pow2Step
  <2> QED BY <2>1
<1>2. ASSUME NEW j \in 1 .. n, j - 1 \in T PROVE j \in T
  <2> DEFINE m == ByteBits * (j - 1) p == Pow2(m) b == ByteLimit x == h[j - 1] y == w[j]
  <2>1. m \in Nat /\ ByteBits \in Nat /\ ByteBits * j = m + ByteBits
    <3>1. ByteBits * j = ByteBits * (j - 1) + ByteBits
      BY Sizes
    <3> QED BY <3>1, Sizes
  <2> HIDE DEF m
  <2>2. Pow2(ByteBits * j) = p * b
    BY <2>1, Pow2Sum DEF ByteLimit
  <2>3. p \in Nat \ {0} /\ b \in Nat \ {0} /\ x \in Nat /\ y \in 0 .. b - 1
    <3>1. p \in Nat \ {0} /\ b \in Nat \ {0}
      BY <2>1, Sizes, Pow2Step
    <3>2. j - 1 \in 0 .. n
      OBVIOUS
    <3>3. x \in Nat
      BY <3>2
    <3>4. y \in 0 .. b - 1
      OBVIOUS
    <3> QED BY <3>1, <3>3, <3>4
  <2>4. x < p
    BY <1>2 DEF m
  <2>5. h[j] = x * b + y
    OBVIOUS
  <2> HIDE DEF p, b, x, y
  <2>6. (x + 1) * b <= p * b
    BY <2>3, <2>4
  <2>7. (x + 1) * b = x * b + b
    BY <2>3
  <2>8. x * b \in Nat /\ p * b \in Nat
    BY <2>3
  <2>9. x * b + y < p * b
    <3> DEFINE s == x * b t == p * b
    <3>1. s \in Nat /\ t \in Nat /\ s + b <= t
      BY <2>6, <2>7, <2>8
    <3> HIDE DEF s, t
    <3>2. s + y < t
      BY <2>3, <3>1
    <3> QED BY <3>2 DEF s, t
  <2> QED BY <2>2, <2>5, <2>9
<1> HIDE DEF T
<1>3. 0 .. n \subseteq T
  BY <1>1, <1>2, InductionTo
<1> QED BY <1>3 DEF T

\* Swapped, the bytes of a number are read from its lowest up, also where they
\* stand for more than the field.
LEMMA SwapIs ==
  ASSUME NEW width \in 1 .. MaxWidth, NEW value \in Nat,
         value < Pow2(ByteBits * BytesFor(width))
  PROVE  SwapByteOrder(value, width) = FromBe(Little(value, BytesFor(width)))
<1> DEFINE n == BytesFor(width)
           w == Little(value, n)
<1>1. n \in Nat \ {0} /\ width \in Nat /\ n = BytesFor(width) /\ ByteBits * n <= MaxWidth /\ MaxWidth \in Nat
      /\ ByteBits \in Nat \ {0} /\ ByteLimit \in Nat \ {0} /\ WordLimit \in Nat \ {0}
  BY BytesFit, Sizes
<1>2. w \in [1 .. n -> Nat] /\ \A i \in 1 .. n : w[i] \in 0 .. ByteLimit - 1
  BY <1>1, LittleIsBytes
<1>3. PICK h \in [0 .. n -> Nat] :
        FromBe(w) = h[n] /\ h[0] = 0 /\ \A j \in 1 .. n : h[j] = h[j - 1] * ByteLimit + w[j]
  <2> HIDE DEF w, n
  <2> QED BY <1>1, <1>2, FromBeFollows
<1>4. \A j \in 0 .. n : h[j] < WordLimit
  <2>1. \A j \in 0 .. n : h[j] < Pow2(ByteBits * j)
    <3> HIDE DEF w, n
    <3> QED BY <1>1, <1>2, <1>3, FromBeBelow
  <2>2. ASSUME NEW j \in 0 .. n PROVE Pow2(ByteBits * j) <= WordLimit /\ Pow2(ByteBits * j) \in Nat
    <3>1. ByteBits * j \in Nat /\ ByteBits * j <= ByteBits * n
      BY <1>1
    <3>2. ByteBits * j <= MaxWidth
      <4>1. ByteBits * n \in Nat
        BY <1>1
      <4> QED BY <1>1, <3>1, <4>1
    <3> QED BY <1>1, <3>1, <3>2, Pow2Below, Pow2Step DEF WordLimit
  <2>3. ASSUME NEW j \in 0 .. n PROVE h[j] < WordLimit
    <3>1. h[j] \in Nat
      OBVIOUS
    <3> QED BY <1>1, <2>1, <2>2, <3>1
  <2> QED BY <2>3
<1> HIDE DEF w
<1>5. CASE n = 1
  <2>1. SwapByteOrder(value, width) = value
    BY <1>5 DEF SwapByteOrder
  <2>2. w[1] = value
    <3>1. ByteBits * (1 - 1) = 0 /\ Pow2(0) = 1 /\ ByteBits * 1 = ByteBits /\ 1 \in 1 .. n
      BY <1>1, <1>5, Pow2Step
    <3>2. value < ByteLimit
      BY <1>5, <3>1 DEF ByteLimit
    <3>3. w[1] = (value \div 1) % ByteLimit
      BY <3>1 DEF w, Little
    <3> QED BY <1>1, <3>2, <3>3
  <2>3. FromBe(w) = h[1] /\ h[1] = h[0] * ByteLimit + w[1] /\ h[0] = 0
    <3>1. 1 \in 1 .. n /\ 1 - 1 = 0
      BY <1>5
    <3> QED BY <1>3, <1>5, <3>1
  <2>4. FromBe(w) = w[1]
    BY <1>1, <2>2, <2>3
  <2> QED BY <2>1, <2>2, <2>4 DEF w
<1>6. CASE n > 1
  <2>n. n \in Nat /\ 0 \in 0 .. n /\ \A j \in 1 .. n : j - 1 \in 0 .. n /\ j \in 0 .. n
    BY <1>1
  <2> HIDE DEF n
  <2>0. PICK rest, out : SwapLoop(value, width, n, rest, out)
    BY <1>1, <1>6, <2>n, SwapFollows
  <2>1. /\ rest \in [0 .. n -> Nat] /\ out \in [0 .. n -> Nat]
        /\ SwapByteOrder(value, width) = out[n]
        /\ rest[0] = value /\ out[0] = 0
        /\ \A j \in 1 .. n :
             /\ rest[j] = rest[j - 1] \div ByteLimit
             /\ out[j] = (out[j - 1] * ByteLimit + (rest[j - 1] % ByteLimit)) % WordLimit
    BY <2>0 DEF SwapLoop
  <2> DEFINE R == {j \in 0 .. n : rest[j] = value \div Pow2(ByteBits * j)}
             T == {j \in 0 .. n : out[j] = h[j]}
  <2>2. 0 \in R
    <3>1. ByteBits * 0 = 0 /\ Pow2(0) = 1 /\ value \div 1 = value
      BY <1>1, Pow2Step
    <3> QED BY <2>1, <2>n, <3>1
  <2>3. ASSUME NEW j \in 1 .. n, j - 1 \in R PROVE j \in R
    <3> DEFINE m == ByteBits * (j - 1) p == Pow2(m)
    <3>1. m \in Nat /\ ByteBits * j = m + ByteBits
      <4>1. ByteBits * j = ByteBits * (j - 1) + ByteBits
        BY <1>1
      <4> QED BY <4>1, <1>1
    <3> HIDE DEF m
    <3>2. Pow2(ByteBits * j) = p * ByteLimit /\ p \in Nat \ {0}
      BY <1>1, <3>1, Pow2Sum, Pow2Step DEF ByteLimit
    <3>3. rest[j - 1] = value \div p
      BY <2>3 DEF m
    <3> HIDE DEF p
    <3>4. (value \div p) \div ByteLimit = value \div (p * ByteLimit)
      BY <1>1, <3>2, DivisionTwice
    <3> QED BY <2>1, <3>2, <3>3, <3>4
  <2> HIDE DEF R
  <2>4. 0 .. n \subseteq R
    BY <1>1, <2>2, <2>3, InductionTo
  <2>5. 0 \in T
    BY <1>3, <2>1, <2>n
  <2>6. ASSUME NEW j \in 1 .. n, j - 1 \in T PROVE j \in T
    <3>1. j - 1 \in 0 .. n /\ j \in 0 .. n
      BY <2>n
    <3>2. rest[j - 1] = value \div Pow2(ByteBits * (j - 1))
      BY <2>4, <3>1 DEF R
    <3>3. rest[j - 1] % ByteLimit = w[j]
      BY <3>2 DEF w, Little
    <3>4. out[j] = h[j] % WordLimit
      BY <1>3, <2>1, <2>6, <3>3
    <3>5. h[j] % WordLimit = h[j]
      <4> DEFINE x == h[j]
      <4>1. x \in Nat /\ x < WordLimit
        BY <1>4, <3>1
      <4> HIDE DEF x
      <4>2. x % WordLimit = x
        <5>1. WordLimit \in Nat \ {0}
          BY Sizes
        <5> QED BY <4>1, <5>1, Small
      <4> QED BY <4>2 DEF x
    <3> QED BY <3>1, <3>4, <3>5
  <2> HIDE DEF T
  <2>7. 0 .. n \subseteq T
    BY <1>1, <2>5, <2>6, InductionTo
  <2>8. out[n] = h[n]
    BY <1>1, <2>7 DEF T
  <2> QED BY <1>3, <2>1, <2>8 DEF w, n
<1> QED BY <1>1, <1>5, <1>6

\* Zeros in front change nothing.
Padded(z, m, w, n) ==
  /\ z \in [1 .. m + n -> Nat]
  /\ \A i \in 1 .. m : z[i] = 0
  /\ \A i \in 1 .. n : z[m + i] = w[i]

\* Zero bytes in front of a list do not change its number.
LEMMA LeadingZeros ==
  ASSUME NEW n \in Nat, NEW w \in [1 .. n -> Nat], NEW m \in Nat, NEW z, Padded(z, m, w, n)
  PROVE  FromBe(z) = FromBe(w)
<1>0. /\ z \in [1 .. m + n -> Nat]
      /\ \A i \in 1 .. m : z[i] = 0
      /\ \A i \in 1 .. n : z[m + i] = w[i]
  BY DEF Padded
<1>1. PICK h \in [0 .. n -> Nat] :
        FromBe(w) = h[n] /\ h[0] = 0 /\ \A j \in 1 .. n : h[j] = h[j - 1] * ByteLimit + w[j]
  BY FromBeFollows
<1>2. PICK g \in [0 .. m + n -> Nat] :
        /\ FromBe(z) = g[m + n] /\ g[0] = 0
        /\ \A j \in 1 .. m + n : g[j] = g[j - 1] * ByteLimit + z[j]
  <2>1. m + n \in Nat
    OBVIOUS
  <2> QED BY <1>0, <2>1, FromBeFollows
<1> DEFINE S == {j \in 0 .. m : g[j] = 0}
           T == {j \in 0 .. n : g[m + j] = h[j]}
<1>3. 0 \in S
  BY <1>2
<1>4. ASSUME NEW j \in 1 .. m, j - 1 \in S PROVE j \in S
  <2>1. j \in 1 .. m + n
    OBVIOUS
  <2>2. g[j] = 0 * ByteLimit + 0
    BY <1>0, <1>2, <1>4, <2>1
  <2> QED BY <2>2, Sizes
<1> HIDE DEF S
<1>5. 0 .. m \subseteq S
  BY <1>3, <1>4, InductionTo
<1>6. 0 \in T
  <2>1. m \in 0 .. m /\ m + 0 = m
    OBVIOUS
  <2> QED BY <1>1, <1>5, <2>1 DEF S
<1>7. ASSUME NEW j \in 1 .. n, j - 1 \in T PROVE j \in T
  <2>1. m + j \in 1 .. m + n /\ (m + j) - 1 = m + (j - 1)
    OBVIOUS
  <2>2. g[m + j] = g[m + (j - 1)] * ByteLimit + w[j]
    BY <1>0, <1>2, <2>1
  <2> QED BY <1>1, <1>7, <2>2
<1> HIDE DEF T
<1>8. 0 .. n \subseteq T
  BY <1>6, <1>7, InductionTo
<1>9. g[m + n] = h[n]
  BY <1>8 DEF T
<1> QED BY <1>1, <1>2, <1>9

\* The word that a load goes through has room for what it loads.
LEMMA SlotsEnough ==
  ASSUME NEW span \in Nat \ {0}
  PROVE  Slots(span) - span \in Nat
<1> DEFINE S == {k \in Nat : Pow2(k) >= span}
           G == {k \in Nat : Pow2(k) >= k}
<1>1. 0 \in G
  BY Pow2Step
<1>2. ASSUME NEW k \in Nat, k \in G PROVE k + 1 \in G
  <2>1. Pow2(k) \in Nat \ {0} /\ Pow2(k + 1) = 2 * Pow2(k)
    BY Pow2Step
  <2> QED BY <1>2, <2>1
<1> HIDE DEF G
<1>3. span \in G
  BY <1>1, <1>2, Induction
<1>4. span \in S
  BY <1>3 DEF G
<1> HIDE DEF S
<1>5. PICK k \in S : \A j \in S : k <= j
  <2>1. S \subseteq Nat
    BY DEF S
  <2> QED BY <1>4, <2>1, Least
<1>6. k \in 0 .. span
  BY <1>4, <1>5 DEF S
<1> DEFINE n == Pow2(k)
           P(x) == x >= span /\ (x = 1 \/ x \div 2 < span)
           All == {Pow2(j) : j \in 0 .. span}
<1>7. P(n)
  <2>1. CASE k = 0
    BY <1>5, <2>1, Pow2Step DEF S
  <2>2. CASE k # 0
    <3>1. k - 1 \in Nat /\ (k - 1) + 1 = k
      BY <1>6, <2>2
    <3>2. Pow2(k) = 2 * Pow2(k - 1) /\ Pow2(k - 1) \in Nat
      BY <3>1, Pow2Step
    <3>3. ~ Pow2(k - 1) >= span
      BY <1>5, <3>1 DEF S
    <3>4. n \div 2 = Pow2(k - 1)
      BY <3>2
    <3> QED BY <1>5, <3>2, <3>3, <3>4 DEF S
  <2> QED BY <2>1, <2>2
<1>8. n \in All
  BY <1>6
<1>9. Slots(span) = CHOOSE x \in All : P(x)
  BY DEF Slots
<1>10. \A x \in All : x \in Nat
  BY Pow2Step
<1> HIDE DEF n, All
<1>11. Slots(span) \in All /\ P(Slots(span))
  <2> HIDE DEF P
  <2> QED BY <1>7, <1>8, <1>9
<1> QED BY <1>10, <1>11

\* A list of bytes with the bits of a field: its bytes are the field's, and the
\* other way round they are those of its number from the lowest up.
LEMMA FieldBytes ==
  ASSUME NEW bytes \in ByteLists, data = bytes, NEW at \in Nat, NEW width \in 1 .. MaxWidth,
         at + width <= LenBits(bytes), width % ByteBits = 0,
         NEW s \in ByteLists, NEW n, n = BytesFor(width), Len(s) = n, BitsOf(s) = Field(at, width),
         NEW x, x = NumberAt(Bits(bytes), at, width)
  PROVE  /\ n \in Nat /\ width = ByteBits * n
         /\ FromBe(s) = x
         /\ Reverse(s) = Little(x, n)
<1> DEFINE f == Bits(bytes) g == Bits(s)
<1>1. n \in Nat /\ width = ByteBits * n /\ ByteBits \in Nat \ {0} /\ width \in Nat
      /\ f \in Stream /\ g \in Stream /\ MaxWidth \in Nat
  BY SlackIs, Sizes, BitsStream
<1>2. ASSUME NEW k \in 0 .. width - 1 PROVE g[k] = f[at + k]
  <2>1. k \in Nat /\ k + 1 \in 1 .. width /\ (k + 1) - 1 = k /\ at + (k + 1) - 1 = at + k
    BY <1>1
  <2>2. LenBits(s) = width /\ k < width
    BY <1>1 DEF LenBits
  <2>3. g[k] = BitAt(s, k)
    BY <2>1, <2>2 DEF Bits
  <2>4. BitsOf(s)[k + 1] = BitAt(s, (k + 1) - 1)
    BY <2>1, <2>2 DEF BitsOf
  <2>5. Field(at, width) = Window(f, at, width)
    BY <1>1, FieldIs
  <2>6. Window(f, at, width)[k + 1] = f[at + (k + 1) - 1]
    BY <2>1 DEF Window
  <2> QED BY <2>1, <2>3, <2>4, <2>5, <2>6
<1> HIDE DEF f, g
<1>3. FromBe(s) = x
  <2>1. FromBe(s) = NumberAt(g, 0, width)
    BY <1>1, NumberOfBytes DEF g
  <2>2. SameOn(g, 0, f, at, width)
    <3>1. \A k \in 0 .. width - 1 : 0 + k = k
      BY <1>1
    <3> QED BY <1>2, <3>1 DEF SameOn
  <2>3. NumberAt(g, 0, width) = NumberAt(f, at, width)
    BY <1>1, <2>2, SameNumber
  <2> QED BY <2>1, <2>3 DEF f
<1>4. ASSUME NEW i \in 1 .. n PROVE s[(n - i) + 1] = (x \div Pow2(ByteBits * (i - 1))) % ByteLimit
  <2> DEFINE m == ByteBits * (n - i)
             k == ByteBits * (i - 1)
  <2>1. /\ m \in Nat /\ k \in Nat /\ ByteBits * n = m + ByteBits + k
        /\ (n - i) + 1 \in 1 .. n /\ ((n - i) + 1) - 1 = n - i
    <3>1. n - i \in Nat /\ i - 1 \in Nat
      BY <1>1
    <3>2. m \in Nat /\ k \in Nat
      BY <1>1, <3>1
    <3>3. ByteBits * n = ByteBits * (n - i) + ByteBits + ByteBits * (i - 1)
      BY <1>1
    <3>4. (n - i) + 1 \in 1 .. n /\ ((n - i) + 1) - 1 = n - i
      BY <1>1
    <3>5. ByteBits * n = m + ByteBits + k
      BY <3>3
    <3> QED BY <3>2, <3>4, <3>5
  <2>2. NumberAt(g, m, ByteBits) = s[(n - i) + 1]
    BY <2>1, ByteBack DEF g
  <2> HIDE DEF m, k
  <2>b. width = m + ByteBits + k
    BY <1>1, <2>1
  <2>3. SameOn(g, m, f, at + m, ByteBits)
    <3>1. \A j \in 0 .. ByteBits - 1 : m + j \in 0 .. width - 1 /\ at + (m + j) = (at + m) + j
      <4>1. ByteBits \in Nat \ {0}
        BY <1>1
      <4> QED BY <2>1, <2>b, <4>1
    <3> QED BY <1>2, <3>1 DEF SameOn
  <2>4. at + m \in Nat /\ m + ByteBits \in Nat /\ ByteBits \in Nat
    BY <1>1, <2>1
  <2>5. NumberAt(g, m, ByteBits) = NumberAt(f, at + m, ByteBits)
    BY <2>1, <2>3, <2>4, SameNumber
  <2> DEFINE t == m + ByteBits
  <2>6. x = NumberAt(f, at, t + k)
    BY <2>b DEF f
  <2>7. x \div Pow2(k) = NumberAt(f, at, t)
    <3>1. t \in Nat /\ k \in Nat /\ f \in Stream
      BY <1>1, <2>1, <2>4
    <3> HIDE DEF t
    <3> QED BY <2>6, <3>1, NumberParts
  <2>8. NumberAt(f, at, t) % Pow2(ByteBits) = NumberAt(f, at + m, ByteBits)
    <3>1. f \in Stream /\ m \in Nat /\ ByteBits \in Nat
      BY <1>1, <2>1
    <3> QED BY <3>1, NumberParts, Zenon
  <2> QED BY <2>2, <2>5, <2>7, <2>8 DEF ByteLimit, k
<1>5. Reverse(s) = Little(x, n)
  BY <1>4 DEF Reverse, Little
<1> QED BY <1>1, <1>3, <1>5

\* The load at a literal offset, shifted and masked, is the field.
LEMMA EmittedReadBitsIs ==
  ASSUME NEW bytes \in ByteLists, NEW at \in Nat, NEW width \in 1 .. MaxWidth,
         at + width <= LenBits(bytes)
  PROVE  EmittedReadBits(bytes, at, width) = NumberAt(Bits(bytes), at, width)
<1> DEFINE f == Bits(bytes)
           first == at \div ByteBits
           last == (at + width - 1) \div ByteBits
           span == last - first + 1
           c == SubSeq(bytes, first + 1, last + 1)
           z == Zeros(Slots(span) - span) \o c
           load == FromBe(z)
           r == at % ByteBits
           shift == span * ByteBits - r - width
           a == ByteBits * first
           m == r + width
<1>0. /\ ByteBits \in Nat \ {0} /\ MaxWidth \in Nat /\ width \in Nat /\ width > 0
      /\ Len(bytes) \in Nat /\ f \in Stream /\ at + width - 1 \in Nat
  BY Sizes, BitsStream DEF ByteLists
<1>1. first \in Nat /\ r \in 0 .. ByteBits - 1 /\ at = a + r
  BY PlaceOfBit
<1>2. last \in Nat /\ last < Len(bytes) /\ first <= last /\ at + width <= ByteBits * (last + 1)
  <2>1. last \in Nat /\ \A n \in Nat : at + width - 1 < ByteBits * n <=> last < n
    BY <1>0, PlaceOfBit
  <2> HIDE DEF last
  <2>2. last < Len(bytes)
    <3>1. at + width - 1 < ByteBits * Len(bytes)
      BY <1>0 DEF LenBits
    <3> QED BY <1>0, <2>1, <3>1
  <2>3. ~ last < first
    <3>1. ~ at + width - 1 < a
      <4>1. a \in Nat
        BY <1>0, <1>1
      <4> QED BY <1>0, <1>1, <4>1
    <3> QED BY <1>1, <2>1, <3>1
  <2>4. at + width - 1 < ByteBits * (last + 1)
    BY <2>1
  <2>5. ByteBits * (last + 1) \in Nat
    BY <1>0, <2>1
  <2> QED BY <1>0, <1>1, <2>1, <2>2, <2>3, <2>4, <2>5
<1>3. /\ span \in Nat \ {0} /\ a \in Nat /\ m \in Nat /\ shift \in Nat
      /\ m + shift = ByteBits * span /\ span * ByteBits = ByteBits * span
  <2>1. span \in Nat \ {0}
    BY <1>1, <1>2
  <2>2. ByteBits * (last + 1) = ByteBits * first + ByteBits * span
    BY <1>0, <1>1, <1>2
  <2>3. a \in Nat /\ ByteBits * span \in Nat /\ span * ByteBits = ByteBits * span
    BY <1>0, <1>1, <2>1
  <2>4. r + width <= ByteBits * span
    <3> HIDE DEF first, last, r, span
    <3> QED BY <1>0, <1>1, <1>2, <2>2, <2>3
  <2> HIDE DEF first, last, r, a, span
  <2> QED BY <1>0, <1>1, <2>1, <2>3, <2>4
<1> HIDE DEF f, first, last, r, a, m
<1>4. c \in [1 .. span -> Nat] /\ Len(c) = span /\ IsList(c)
      /\ \A i \in 1 .. span : c[i] = NumberAt(f, a + ByteBits * (i - 1), ByteBits)
  <2> DEFINE S == 0 .. ByteLimit - 1
  <2>1. bytes \in Seq(S) /\ \A i \in 1 .. Len(bytes) : bytes[i] \in S
    BY ByteIsByte DEF ByteLists
  <2>2. \A x \in S : x \in Nat
    BY Sizes
  <2>3. \A i \in first + 1 .. last + 1 : bytes[i] \in S
    BY <1>0, <1>1, <1>2, <2>1
  <2> HIDE DEF S
  <2>4. c \in Seq(S) /\ Len(c) = span /\ \A i \in 1 .. span : c[i] = bytes[first + i]
    <3>1. \A i \in 1 .. span : (first + 1) + i - 1 = first + i
      BY <1>1
    <3>2. (last + 1) - (first + 1) + 1 = span /\ first + 1 \in Nat /\ last + 1 \in Nat
      BY <1>1, <1>2
    <3> HIDE DEF span
    <3> QED BY <1>0, <1>1, <1>2, <1>3, <2>1, <2>3, <3>1, <3>2
  <2>5. ASSUME NEW i \in 1 .. span PROVE c[i] = NumberAt(f, a + ByteBits * (i - 1), ByteBits)
    <3>1. first + i \in 1 .. Len(bytes) /\ (first + i) - 1 = first + (i - 1)
      BY <1>0, <1>1, <1>2, <1>3
    <3>2. ByteBits * (first + (i - 1)) = a + ByteBits * (i - 1)
      BY <1>0, <1>1, <1>3 DEF a
    <3>3. NumberAt(f, ByteBits * ((first + i) - 1), ByteBits) = bytes[first + i]
      BY <3>1, ByteBack DEF f
    <3> QED BY <2>4, <3>1, <3>2, <3>3
  <2>6. c \in [1 .. span -> Nat] /\ IsList(c)
    <3> HIDE DEF c, span
    <3> QED BY <2>2, <2>4, SeqIsList
  <2> QED BY <2>4, <2>5, <2>6
<1>5. FromBe(c) = NumberAt(f, a, ByteBits * span)
  <2> HIDE DEF c, span
  <2>1. c \in [1 .. span -> Nat] /\ span \in Nat /\ f \in Stream /\ a \in Nat
    BY <1>0, <1>3, <1>4
  <2>2. \A i \in 1 .. span : c[i] = NumberAt(f, a + ByteBits * (i - 1), ByteBits)
    BY <1>4
  <2> QED BY <2>1, <2>2, BytesAsNumber
<1>6. load = FromBe(c)
  <2> DEFINE k == Slots(span) - span
             o == Zeros(k)
  <2>1. k \in Nat
    <3> HIDE DEF span
    <3> QED BY <1>3, SlotsEnough
  <2> HIDE DEF c, span, k
  <2>2. IsList(o) /\ Len(o) = k /\ \A i \in 1 .. k : o[i] = 0
    BY <2>1 DEF Zeros, IsList
  <2> HIDE DEF o
  <2> DEFINE y == o \o c
  <2>3. /\ IsList(y) /\ Len(y) = k + span
        /\ \A i \in 1 .. k : y[i] = o[i]
        /\ \A i \in 1 .. span : y[k + i] = c[i]
    <3>1. /\ IsList(y) /\ Len(y) = Len(o) + Len(c)
          /\ \A i \in 1 .. Len(o) : y[i] = o[i]
          /\ \A i \in 1 .. Len(c) : y[Len(o) + i] = c[i]
      <4>1. IsList(o) /\ IsList(c)
        BY <1>4, <2>2
      <4> QED BY <4>1, ListConcat
    <3> HIDE DEF y
    <3> QED BY <1>4, <2>2, <3>1
  <2> HIDE DEF y
  <2>4. y \in [1 .. k + span -> Nat]
    <3>1. ASSUME NEW i \in 1 .. k + span PROVE y[i] \in Nat
      <4>1. CASE i <= k
        BY <2>1, <2>2, <2>3, <4>1
      <4>2. CASE ~ i <= k
        <5>1. i - k \in 1 .. span /\ k + (i - k) = i
          BY <1>3, <2>1, <4>2
        <5> QED BY <1>4, <2>3, <5>1
      <4> QED BY <4>1, <4>2
    <3> QED BY <2>3, <3>1 DEF IsList
  <2>5. FromBe(y) = FromBe(c)
    <3>1. span \in Nat /\ c \in [1 .. span -> Nat]
      BY <1>3, <1>4
    <3>2. \A i \in 1 .. k : y[i] = 0
      BY <2>2, <2>3
    <3>3. \A i \in 1 .. span : y[k + i] = c[i]
      BY <2>3
    <3>4. Padded(y, k, c, span)
      BY <2>4, <3>2, <3>3 DEF Padded
    <3> QED BY <2>1, <3>1, <3>4, LeadingZeros
  <2> QED BY <2>5 DEF y, o, k
<1>7. EmittedReadBits(bytes, at, width) =
        IF shift = 0 /\ width = span * ByteBits THEN load
        ELSE (load \div Pow2(shift)) % Pow2(width)
  BY DEF EmittedReadBits, Mask, ShiftRight, first, last, r
<1> HIDE DEF c, z, load, span
<1>8. load = NumberAt(f, a, m + shift)
  BY <1>3, <1>5, <1>6
<1> HIDE DEF shift
<1>9. load \div Pow2(shift) = NumberAt(f, a, m)
  BY <1>0, <1>3, <1>8, NumberParts
<1>10. NumberAt(f, a, m) % Pow2(width) = NumberAt(f, at, width)
  <2>0. f \in Stream /\ a \in Nat /\ width \in Nat /\ r \in Nat
    BY <1>0, <1>1, <1>3
  <2>1. NumberAt(f, a, r + width) % Pow2(width) = NumberAt(f, a + r, width)
    BY <2>0, NumberParts, Zenon
  <2> QED BY <1>1, <2>1 DEF m
<1>11. ASSUME shift = 0, width = span * ByteBits PROVE load = NumberAt(f, at, width)
  <2>1. m = width /\ r = 0 /\ at = a /\ m + shift = width
    BY <1>0, <1>1, <1>3, <1>11 DEF m
  <2> QED BY <1>8, <2>1
<1> QED BY <1>7, <1>9, <1>10, <1>11 DEF f

\* The reversed load is the field's number with its bytes reversed.
LEMMA EmittedSwapIs ==
  ASSUME NEW bytes \in ByteLists, data = bytes, NEW at \in Nat, NEW width \in 1 .. MaxWidth,
         at + width <= LenBits(bytes), NEW x, x = NumberAt(Bits(bytes), at, width)
  PROVE  /\ EmittedSwap(bytes, at, width, x) = SwapByteOrder(x, width)
         /\ x \in Nat /\ x < Pow2(width) /\ x < Pow2(ByteBits * BytesFor(width))
<1> DEFINE n == BytesFor(width)
           first == at \div ByteBits
           s == SubSeq(bytes, first + 1, first + n)
           k == Slots(n) - n
           loaded == s \o Zeros(k)
<1>1. /\ n \in 1 .. WordBytes /\ n \in Nat /\ width <= ByteBits * n /\ ByteBits * n \in Nat /\ width \in Nat
      /\ WordBytes \in Nat
  <2>1. WordBytes \in Nat /\ MaxWidth \in Nat
    BY Sizes
  <2> HIDE DEF n
  <2> QED BY <2>1, BytesFit DEF n
<1>2. x \in Nat /\ x < Pow2(width)
  <2>1. Bits(bytes) \in Stream
    BY BitsStream
  <2> DEFINE f == Bits(bytes)
  <2> HIDE DEF f
  <2>2. f \in Stream /\ at \in Nat /\ width \in Nat
    BY <1>1, <2>1 DEF f
  <2>3. NumberAt(f, at, width) \in 0 .. Pow2(width) - 1 /\ Pow2(width) \in Nat
    BY <2>2, NumberBelow, Pow2Step
  <2>4. x = NumberAt(f, at, width)
    BY DEF f
  <2> QED BY <2>3, <2>4
<1>3. x < Pow2(ByteBits * n)
  <2>1. Pow2(width) <= Pow2(ByteBits * n) /\ Pow2(width) \in Nat /\ Pow2(ByteBits * n) \in Nat
    BY <1>1, Pow2Below, Pow2Step
  <2> QED BY <1>2, <2>1
<1>4. CASE n <= 1
  BY <1>2, <1>3, <1>4 DEF EmittedSwap, SwapByteOrder
<1>5. CASE ~ n <= 1 /\ ~ (at % ByteBits = 0 /\ width % ByteBits = 0)
  BY <1>2, <1>3, <1>5 DEF EmittedSwap
<1>6. CASE ~ n <= 1 /\ at % ByteBits = 0 /\ width % ByteBits = 0
  <2>1. EmittedSwap(bytes, at, width, x) = FromBe(Reverse(loaded))
    BY <1>6 DEF EmittedSwap
  <2>2. width = ByteBits * n /\ width \div ByteBits = n /\ first \in Nat /\ ByteBits \in Nat \ {0}
        /\ Len(bytes) \in Nat
    <3>1. width = ByteBits * n /\ width \div ByteBits = n
      BY <1>1, <1>6, SlackIs
    <3>2. first \in Nat
      BY PlaceOfBit
    <3>3. Len(bytes) \in Nat
      BY DEF ByteLists
    <3> QED BY <3>1, <3>2, <3>3, Sizes
  <2>3. first + n <= Len(bytes)
    <3>1. at = ByteBits * first
      <4>1. at = ByteBits * first + 0
        BY <1>6, PlaceOfBit
      <4>2. ByteBits * first \in Nat
        BY <2>2
      <4> QED BY <4>1, <4>2
    <3>0. first \in Nat /\ n \in Nat /\ ByteBits \in Nat /\ Len(bytes) \in Nat
      BY <1>1, <2>2
    <3> HIDE DEF n, first
    <3>2. ByteBits * (first + n) = ByteBits * first + ByteBits * n
      BY <3>0
    <3>3. ByteBits * (first + n) <= ByteBits * Len(bytes)
      BY <2>2, <3>1, <3>2 DEF LenBits
    <3>4. ASSUME Len(bytes) + 1 <= first + n
          PROVE  ByteBits * (Len(bytes) + 1) <= ByteBits * (first + n)
      <4> DEFINE d == (first + n) - (Len(bytes) + 1)
      <4>1. d \in Nat /\ first + n = (Len(bytes) + 1) + d
        BY <3>0, <3>4
      <4> HIDE DEF d
      <4>2. ByteBits * ((Len(bytes) + 1) + d) = ByteBits * (Len(bytes) + 1) + ByteBits * d
        BY <3>0, <4>1
      <4>3. ByteBits * d \in Nat /\ ByteBits * (Len(bytes) + 1) \in Nat
        BY <3>0, <4>1
      <4> QED BY <4>1, <4>2, <4>3
    <3>5. ByteBits * (Len(bytes) + 1) = ByteBits * Len(bytes) + ByteBits
      BY <3>0
    <3>6. ByteBits * Len(bytes) \in Nat /\ ByteBits * (first + n) \in Nat
      BY <3>0
    <3> QED BY <2>2, <3>0, <3>3, <3>4, <3>5, <3>6
  <2>4. s \in AlignedSlice(bytes, at, width)
    BY <1>6, <2>2, <2>3 DEF AlignedSlice
  <2> HIDE DEF s, k
  <2>5. s \in ByteLists /\ Len(s) = n /\ BitsOf(s) = Field(at, width)
    BY <1>1, <2>4, SliceIs
  <2> HIDE DEF n
  <2>6. Reverse(s) = Little(x, n)
    BY <1>6, <2>5, FieldBytes DEF n
  <2>7. k \in Nat
    <3>1. n \in Nat \ {0}
      BY <1>6, <1>1
    <3> QED BY <3>1, SlotsEnough DEF k
  <2> DEFINE z == Zeros(k) y == Reverse(loaded)
  <2>8. IsList(z) /\ Len(z) = k /\ \A i \in 1 .. k : z[i] = 0
    BY <2>7 DEF Zeros, IsList
  <2>9. IsList(s)
    BY <2>5, SeqIsList DEF ByteLists
  <2> HIDE DEF z
  <2>10. /\ IsList(loaded) /\ Len(loaded) = n + k
         /\ \A i \in 1 .. n : loaded[i] = s[i]
         /\ \A i \in 1 .. k : loaded[n + i] = 0
    <3> DEFINE u == s \o z
    <3>1. /\ IsList(u) /\ Len(u) = Len(s) + Len(z)
          /\ \A i \in 1 .. Len(s) : u[i] = s[i]
          /\ \A i \in 1 .. Len(z) : u[Len(s) + i] = z[i]
      <4>1. IsList(s) /\ IsList(z)
        BY <2>8, <2>9
      <4> QED BY <4>1, ListConcat
    <3>2. loaded = u
      BY DEF z
    <3> HIDE DEF u, loaded
    <3> QED BY <2>5, <2>8, <3>1, <3>2
  <2> DEFINE w == Little(x, n)
  <2>11. w \in [1 .. n -> Nat]
    BY <1>1, <1>2, LittleIsBytes
  <2>12. \A i \in 1 .. n : w[i] = s[(n - i) + 1]
    BY <2>5, <2>6 DEF Reverse
  <2> HIDE DEF w
  <2>13. y = [i \in 1 .. Len(loaded) |-> loaded[(Len(loaded) - i) + 1]] /\ Len(loaded) = n + k
    BY <2>10 DEF Reverse
  <2> HIDE DEF loaded, y
  <2>14. ASSUME NEW i \in 1 .. k PROVE y[i] = 0
    <3>1. i \in 1 .. n + k /\ (k - i) + 1 \in 1 .. k /\ (n + k - i) + 1 = n + ((k - i) + 1)
      BY <1>1, <2>7
    <3>2. i \in 1 .. Len(loaded) /\ (Len(loaded) - i) + 1 = n + ((k - i) + 1)
      BY <1>1, <2>7, <2>13, <3>1
    <3>3. y[i] = loaded[(Len(loaded) - i) + 1]
      BY <2>13, <3>2
    <3>4. loaded[n + ((k - i) + 1)] = 0
      BY <2>10, <3>1
    <3> QED BY <3>2, <3>3, <3>4
  <2>15. ASSUME NEW i \in 1 .. n PROVE y[k + i] = w[i]
    <3>1. k + i \in 1 .. n + k /\ (n - i) + 1 \in 1 .. n /\ (n + k - (k + i)) + 1 = (n - i) + 1
      BY <1>1, <2>7
    <3>2. k + i \in 1 .. Len(loaded) /\ (Len(loaded) - (k + i)) + 1 = (n - i) + 1
      BY <1>1, <2>7, <2>13, <3>1
    <3>3. y[k + i] = loaded[(Len(loaded) - (k + i)) + 1]
      BY <2>13, <3>2
    <3>4. loaded[(n - i) + 1] = s[(n - i) + 1]
      BY <2>10, <3>1
    <3> QED BY <2>12, <3>2, <3>3, <3>4
  <2>16. y \in [1 .. k + n -> Nat]
    <3>1. ASSUME NEW i \in 1 .. k + n PROVE y[i] \in Nat
      <4>1. CASE i <= k
        BY <2>7, <2>14, <4>1
      <4>2. CASE ~ i <= k
        <5>1. i - k \in 1 .. n /\ k + (i - k) = i
          BY <1>1, <2>7, <4>2
        <5>2. y[i] = w[i - k]
          BY <2>15, <5>1
        <5> QED BY <2>11, <5>1, <5>2
      <4> QED BY <4>1, <4>2
    <3>2. k + n = n + k
      BY <1>1, <2>7
    <3> QED BY <2>13, <3>1, <3>2
  <2>17. FromBe(y) = FromBe(w)
    <3>1. Padded(y, k, w, n)
      BY <2>14, <2>15, <2>16 DEF Padded
    <3> QED BY <1>1, <2>7, <2>11, <3>1, LeadingZeros
  <2>18. SwapByteOrder(x, width) = FromBe(w)
    BY <1>2, <1>3, SwapIs DEF n, w
  <2> QED BY <1>2, <1>3, <2>1, <2>17, <2>18 DEF y, n
<1> QED BY <1>4, <1>5, <1>6


\* What read_raw makes of a field's bits.
Interpreted(bits, width, coding, swapped) ==
  CASE coding = "unsigned" -> Ok(bits)
    [] coding = "twosComplement" ->
         IF swapped THEN TwosComplementUnmasked(bits, width)
         ELSE Ok(TwosComplement(bits, width))
    [] coding = "signMagnitude"  -> Ok(SignMagnitude(bits, width))
    [] coding = "onesComplement" -> Ok(OnesComplement(bits, width))

\* A swapped field whose sign is not masked and that the plan compiles leaves
\* the top bit of a word free.
LEMMA RoomForSign ==
  ASSUME NEW width \in 1 .. MaxWidth, width % ByteBits # 0, width <= MaxWidth - ByteBits,
         NEW x \in Nat, x < Pow2(ByteBits * BytesFor(width))
  PROVE  /\ width # 0 /\ width < MaxWidth
         /\ x < WordLimit \div 2
         /\ Pow2(width) \in Nat /\ Pow2(width) <= WordLimit \div 2
         /\ WordLimit \div 2 \in Nat
<1> DEFINE b == ByteBits n == BytesFor(width) m == WordBytes h == Pow2(MaxWidth - 1)
<1>1. /\ b \in Nat \ {0} /\ m \in Nat \ {0} /\ MaxWidth \in Nat \ {0} /\ MaxWidth = b * m
      /\ width \in Nat \ {0} /\ n \in Nat
  <2>1. width \in Nat
    BY Sizes
  <2> QED BY <2>1, Sizes, SlackIs DEF MaxWidth
<1>2. b * n - width \in 0 .. b - 1
  BY <1>1, SlackIs
<1>3. b * (n + 1) = b * n + b /\ b * n \in Nat /\ b * m \in Nat
  <2> HIDE DEF b, n, m
  <2> QED BY <1>1
<1>4. n < m
  <2> SUFFICES ASSUME m <= n PROVE FALSE
    BY <1>1
  <2> DEFINE d == n - m
  <2>1. d \in Nat /\ n = m + d
    BY <1>1
  <2> HIDE DEF d, b, n, m
  <2>2. b * (m + d) = b * m + b * d /\ b * d \in Nat
    BY <1>1, <2>1
  <2>3. b * n >= b * m
    BY <1>3, <2>1, <2>2
  <2> QED BY <1>1, <1>2, <1>3, <2>3 DEF b
<1>5. b * n <= MaxWidth - 1
  <2> DEFINE d == m - (n + 1)
  <2>1. d \in Nat /\ m = (n + 1) + d
    BY <1>1, <1>4
  <2> HIDE DEF d, b, n, m
  <2>2. b * ((n + 1) + d) = b * (n + 1) + b * d /\ b * d \in Nat
    BY <1>1, <2>1
  <2> QED BY <1>1, <1>3, <2>1, <2>2
<1>6. MaxWidth - 1 \in Nat /\ (MaxWidth - 1) + 1 = MaxWidth
  BY <1>1
<1>7. h \in Nat \ {0} /\ WordLimit = 2 * h
  BY <1>6, Pow2Step DEF WordLimit
<1> HIDE DEF h
<1>8. WordLimit \div 2 = h
  BY <1>7
<1>9. Pow2(b * n) <= h /\ Pow2(b * n) \in Nat
  BY <1>3, <1>5, <1>6, Pow2Below, Pow2Step DEF h
<1>10. width <= MaxWidth - 1
  BY <1>1
<1>11. Pow2(width) <= h /\ Pow2(width) \in Nat
  BY <1>1, <1>6, <1>10, Pow2Below, Pow2Step DEF h
<1> QED BY <1>1, <1>7, <1>8, <1>9, <1>10, <1>11

\* The generated conversion of a field that the plan compiles is the
\* interpreter's.
LEMMA CodingAgrees ==
  ASSUME NEW width \in 1 .. MaxWidth, NEW x \in Nat, x < Pow2(ByteBits * BytesFor(width)),
         NEW swapped \in BOOLEAN,
         NEW coding \in {"unsigned", "twosComplement", "signMagnitude", "onesComplement"},
         ~ SwapRefused(width, coding, swapped),
         x < Pow2(width) \/ (swapped /\ width % ByteBits # 0)
  PROVE  Interpreted(x, width, coding, swapped) = Ok(EmittedSigned(x, width, coding, swapped))
<1>1. CASE coding = "unsigned"
  BY <1>1 DEF Interpreted, EmittedSigned
<1>2. CASE coding = "signMagnitude"
  BY <1>2 DEF Interpreted, EmittedSigned, SignMagnitude, Mask
<1>3. CASE coding = "onesComplement"
  BY <1>3 DEF Interpreted, EmittedSigned, OnesComplement
<1>4. CASE coding = "twosComplement" /\ ~ swapped
  <2>1. ~ UnmaskedSign(width, swapped)
    BY <1>4 DEF UnmaskedSign
  <2>2. Interpreted(x, width, coding, swapped) = Ok(TwosComplement(x, width))
    BY <1>4 DEF Interpreted
  <2> QED BY <1>4, <2>1, <2>2 DEF EmittedSigned, TwosComplement
<1>5. CASE coding = "twosComplement" /\ swapped /\ width % ByteBits = 0
  <2>1. ~ UnmaskedSign(width, swapped)
    BY <1>5 DEF UnmaskedSign
  <2>2. Interpreted(x, width, coding, swapped) = TwosComplementUnmasked(x, width)
    BY <1>5 DEF Interpreted
  <2>3. x \in 0 .. Pow2(width) - 1
    <3>1. width \in Nat
      BY Sizes
    <3>2. Pow2(width) \in Nat
      BY <3>1, Pow2Step
    <3> QED BY <1>5, <3>2
  <2>4. TwosComplementUnmasked(x, width) = Ok(TwosComplement(x, width))
    BY <2>3, CodedIs
  <2>5. EmittedSigned(x, width, coding, swapped) = TwosComplement(x, width)
    BY <1>5, <2>1 DEF EmittedSigned, TwosComplement
  <2> QED BY <2>2, <2>4, <2>5
<1>6. CASE coding = "twosComplement" /\ swapped /\ width % ByteBits # 0
  <2>1. UnmaskedSign(width, swapped)
    BY <1>6 DEF UnmaskedSign
  <2>2. Interpreted(x, width, coding, swapped) = TwosComplementUnmasked(x, width)
    BY <1>6 DEF Interpreted
  <2>3. width <= MaxWidth - ByteBits
    BY <1>6, Sizes DEF SwapRefused
  <2>4. /\ width # 0 /\ width < MaxWidth
        /\ x < WordLimit \div 2
        /\ Pow2(width) \in Nat /\ Pow2(width) <= WordLimit \div 2
        /\ WordLimit \div 2 \in Nat
    BY <1>6, <2>3, RoomForSign
  <2> DEFINE h == WordLimit \div 2 p == Pow2(width)
  <2>5. AsSigned(x) = x
    BY <2>4 DEF AsSigned
  <2> HIDE DEF h, p
  <2>6. FitsSigned(x) /\ FitsSigned(x - p)
    <3>1. h \in Nat /\ p \in Nat /\ p <= h /\ x < h
      BY <2>4 DEF h, p
    <3>2. x \in -h .. h - 1 /\ x - p \in -h .. h - 1
      BY <3>1
    <3> QED BY <3>2 DEF FitsSigned, h
  <2>7. ~ (width = 0 \/ width >= MaxWidth)
    BY <2>4, Sizes
  <2>8. EmittedSigned(x, width, coding, swapped) = IF TestBit(x, width - 1) THEN x - p ELSE x
    BY <1>6, <2>1, <2>5 DEF EmittedSigned, p
  <2>9. TwosComplementUnmasked(x, width) = Ok(IF TestBit(x, width - 1) THEN x - p ELSE x)
    BY <2>6, <2>7 DEF TwosComplementUnmasked, p
  <2> QED BY <2>2, <2>8, <2>9
<1> QED BY <1>1, <1>2, <1>3, <1>4, <1>5, <1>6

\* The number whose coding a field's value is.
FieldNumber(at, width, swapped) ==
  LET x == NumberAt(Bits(data), at, width) IN IF swapped THEN SwapByteOrder(x, width) ELSE x

\* It is a number of that many bytes; only where part of a byte was reversed may
\* it be too wide for the field; whole bytes are those that read_bytes answers, in
\* reverse.
LEMMA FieldNumberIs ==
  ASSUME CursorInv, NEW at \in Nat, NEW width \in 1 .. MaxWidth, at + width <= LenBits(data),
         NEW swapped \in BOOLEAN, NEW y, y = FieldNumber(at, width, swapped)
  PROVE  /\ y \in Nat /\ y < Pow2(ByteBits * BytesFor(width))
         /\ y < Pow2(width) \/ (swapped /\ width % ByteBits # 0)
         /\ ~ swapped => y = Number(Field(at, width))
         /\ swapped /\ width % ByteBits = 0 =>
              y = FromBe(Reverse(ReadBytes(data, at, width).v))
<1> DEFINE n == BytesFor(width) x == NumberAt(Bits(data), at, width) w == Little(x, n)
           s == ReadBytes(data, at, width).v
<1>1. data \in ByteLists /\ width \in Nat /\ n \in Nat /\ width <= ByteBits * n
  <2>1. width \in Nat
    BY Sizes
  <2> QED BY <2>1, BytesFit, SlackIs DEF CursorInv
<1>2. x \in Nat /\ x < Pow2(width) /\ x < Pow2(ByteBits * n)
  BY <1>1, EmittedSwapIs
<1>3. CASE ~ swapped
  <2>1. y = x
    BY <1>3 DEF FieldNumber
  <2>2. Number(Field(at, width)) = x
    BY <1>1, FieldIs
  <2> QED BY <1>2, <1>3, <2>1, <2>2
<1>4. CASE swapped
  <2>1. y = SwapByteOrder(x, width)
    BY <1>4 DEF FieldNumber
  <2>2. SwapByteOrder(x, width) = FromBe(w)
    <3> HIDE DEF x
    <3> QED BY <1>2, SwapIs
  <2>3. w \in ByteLists /\ Len(w) = n
    <3> HIDE DEF x, n
    <3> QED BY <1>1, <1>2, LittleIsBytes
  <2> HIDE DEF w
  <2>4. FromBe(w) \in 0 .. Pow2(ByteBits * n) - 1 /\ FromBe(w) \in Nat
    BY <2>3, NumberOfBytes
  <2>5. y \in Nat /\ y < Pow2(ByteBits * n)
    <3> DEFINE z == Pow2(ByteBits * n)
    <3>1. z \in Nat
      <4>1. ByteBits * n \in Nat
        BY <1>1, Sizes
      <4> QED BY <4>1, Pow2Step
    <3> HIDE DEF z, n
    <3>2. y \in 0 .. z - 1
      BY <2>1, <2>2, <2>4 DEF z
    <3> QED BY <3>1, <3>2 DEF z
  <2>6. ASSUME width % ByteBits = 0
        PROVE  y < Pow2(width) /\ y = FromBe(Reverse(s))
    <3>1. width = ByteBits * n
      BY <1>1, <2>6, SlackIs
    <3>2. BitsOf(s) = Field(at, width) /\ s \in ByteLists /\ Len(s) = n
      <4> DEFINE slack == ByteBits * BytesFor(width) - width answer == ReadBytes(data, at, width)
      <4>1. slack = 0
        BY <1>1, <3>1
      <4>2. /\ answer.error # "none" <=> at + width > LenBits(data)
            /\ answer.error = "none" =>
                 /\ BitsOf(answer.v) = Zeros(slack) \o Field(at, width)
                 /\ answer.v \in ByteLists /\ Len(answer.v) = BytesFor(width)
        <5> HIDE DEF slack, answer
        <5> QED BY <1>1, ReadBytesIs DEF slack, answer
      <4>3. answer.error = "none"
        <5>1. LenBits(data) \in Nat
          BY <1>1, Sizes DEF LenBits, ByteLists
        <5> HIDE DEF answer
        <5> QED BY <1>1, <4>2, <5>1
      <4>4. IsList(Field(at, width))
        BY <1>1 DEF Field, IsList
      <4>5. Zeros(0) \o Field(at, width) = Field(at, width)
        BY <4>4, NothingInFront
      <4> HIDE DEF slack, answer
      <4>6. s = answer.v
        BY DEF answer
      <4> QED BY <4>1, <4>2, <4>3, <4>5, <4>6
    <3> HIDE DEF s
    <3>3. Reverse(s) = w
      <4> DEFINE k == n z == x
      <4>1. k = BytesFor(width) /\ z = NumberAt(Bits(data), at, width) /\ Len(s) = k
        BY <3>2
      <4> HIDE DEF k, z
      <4>2. Reverse(s) = Little(z, k)
        BY <1>1, <2>6, <3>2, <4>1, FieldBytes
      <4> QED BY <4>1, <4>2 DEF w
    <3> QED BY <2>1, <2>2, <2>5, <3>1, <3>3
  <2> QED BY <1>4, <2>5, <2>6
<1> QED BY <1>3, <1>4

\* read_raw of a field in the packet.
LEMMA RawIs ==
  ASSUME CursorInv, NEW at \in Nat, NEW width \in 1 .. MaxWidth, at + width <= LenBits(data),
         NEW swapped \in BOOLEAN,
         NEW coding \in {"unsigned", "twosComplement", "signMagnitude", "onesComplement"}
  PROVE  RawInteger(data, at, width, coding, swapped)
           = Interpreted(FieldNumber(at, width, swapped), width, coding, swapped)
<1>1. PeekUint(data, at, width) = Ok(NumberAt(Bits(data), at, width))
  BY PeekIs DEF CursorInv
<1>2. /\ Ok(NumberAt(Bits(data), at, width)).error = "none"
      /\ Ok(NumberAt(Bits(data), at, width)).v = NumberAt(Bits(data), at, width)
  BY DEF Ok
<1> QED BY <1>1, <1>2 DEF RawInteger, Interpreted, FieldNumber

\* It answers where the field is in the packet and no wider than a word.
LEMMA RawAnswers ==
  ASSUME CursorInv, NEW at \in Nat, NEW width \in Nat, width > 0, NEW swapped, NEW coding,
         RawInteger(data, at, width, coding, swapped).error = "none"
  PROVE  width \in 1 .. MaxWidth /\ at + width <= LenBits(data)
<1>1. LenBits(data) \in Nat /\ MaxWidth \in Nat
  BY Sizes DEF CursorInv, LenBits, ByteLists
<1>2. PeekUint(data, at, width).error = "none"
  BY DEF RawInteger
<1>3. CASE width > MaxWidth
  <2>1. PeekUint(data, at, width) = Err("TooWide")
    <3>1. width # 0 /\ width \notin 1 .. MaxWidth
      BY <1>1, <1>3
    <3> QED BY <1>3, <3>1 DEF PeekUint
  <2> QED BY <1>2, <2>1 DEF Err
<1>4. CASE width \in 1 .. MaxWidth /\ at + width > LenBits(data)
  <2>1. PeekUint(data, at, width) = Err("OutOfBounds")
    <3>1. width # 0 /\ ~ width > MaxWidth
      BY <1>1, <1>4
    <3> QED BY <1>4, <3>1 DEF PeekUint
  <2> QED BY <1>2, <2>1 DEF Err
<1> QED BY <1>1, <1>3, <1>4

\* Both generated reads find the number that the interpreter finds.
LEMMA EmittedIs ==
  ASSUME CursorInv, NEW at \in Nat, NEW width \in 1 .. MaxWidth, at + width <= LenBits(data),
         NEW swapped \in BOOLEAN, NEW coding
  PROVE  /\ EmittedReadAt(data, at, width).v = NumberAt(Bits(data), at, width)
         /\ EmittedInteger(data, at, width, coding, swapped)
              = EmittedSigned(FieldNumber(at, width, swapped), width, coding, swapped)
<1>1. data \in ByteLists /\ width # 0 /\ ~ width > MaxWidth /\ LenBits(data) \in Nat /\ width \in Nat
  BY Sizes DEF CursorInv, LenBits, ByteLists
<1>2. PeekUint(data, at, width) = Ok(NumberAt(Bits(data), at, width))
  BY <1>1, PeekIs
<1>3. EmittedReadAt(data, at, width) = PeekUint(data, at, width)
  BY <1>1 DEF EmittedReadAt, PeekUint
<1>4. EmittedReadAt(data, at, width).v = NumberAt(Bits(data), at, width)
  BY <1>2, <1>3 DEF Ok
<1>5. EmittedReadBits(data, at, width) = NumberAt(Bits(data), at, width)
  BY <1>1, EmittedReadBitsIs
<1>6. EmittedSwap(data, at, width, NumberAt(Bits(data), at, width))
        = SwapByteOrder(NumberAt(Bits(data), at, width), width)
  BY <1>1, EmittedSwapIs
<1> QED BY <1>4, <1>5, <1>6 DEF EmittedInteger, FieldNumber


\* The last bytes of a list, with zeros in front where it has too few.
LastBytes(bytes, n) ==
  LET taken == IF Len(bytes) < n THEN Len(bytes) ELSE n
  IN Zeros(n - taken) \o SubSeq(bytes, Len(bytes) - taken + 1, Len(bytes))

\* They are so many bytes, and the low digits of the number.
LEMMA LastBytesAre ==
  ASSUME NEW bytes \in ByteLists, NEW n \in Nat, NEW z, z = LastBytes(bytes, n)
  PROVE  /\ z \in ByteLists /\ Len(z) = n
         /\ FromBe(z) = FromBe(bytes) % Pow2(ByteBits * n)
<1> DEFINE f == Bits(bytes)
           l == Len(bytes)
           taken == IF l < n THEN l ELSE n
           k == n - taken
           c == SubSeq(bytes, l - taken + 1, l)
           o == Zeros(k)
<1>1. /\ l \in Nat /\ taken \in Nat /\ taken <= l /\ k \in Nat /\ k + taken = n
      /\ ByteBits \in Nat \ {0} /\ f \in Stream /\ l - taken \in Nat
  BY Sizes, BitsStream DEF ByteLists
<1>2. c = [i \in 1 .. taken |-> bytes[(l - taken) + i]] /\ Len(c) = taken /\ c \in ByteLists
      /\ \A i \in 1 .. taken : c[i] \in 0 .. ByteLimit - 1 /\ c[i] = bytes[(l - taken) + i]
  <2> DEFINE p == (l - taken) + 1
  <2>1. p \in Nat \ {0} /\ l \in Nat /\ p - 1 = l - taken /\ (l - p) + 1 = taken /\ p <= l + 1
    <3> HIDE DEF taken, l
    <3> QED BY <1>1
  <2>2. c = [i \in 1 .. (l - p) + 1 |-> bytes[(p + i) - 1]]
    <3> HIDE DEF taken
    <3> QED BY <1>1, <2>1 DEF ByteLists
  <2>3. \A i \in 1 .. taken : (l - taken) + i \in 1 .. l /\ (p + i) - 1 = (l - taken) + i
    <3> HIDE DEF taken
    <3> QED BY <1>1
  <2>4. \A i \in 1 .. taken : bytes[(l - taken) + i] \in 0 .. ByteLimit - 1
    BY <2>3, ByteIsByte
  <2> DEFINE S == 0 .. ByteLimit - 1 d == l - taken
  <2> HIDE DEF p, taken, c
  <2>5. c = [i \in 1 .. taken |-> bytes[d + i]]
    BY <2>1, <2>2, <2>3
  <2> HIDE DEF S, d
  <2>6. \A i \in 1 .. taken : bytes[d + i] \in S
    BY <2>4 DEF S, d
  <2>7. c \in Seq(S) /\ Len(c) = taken /\ \A i \in 1 .. taken : c[i] \in S /\ c[i] = bytes[d + i]
    BY <1>1, <2>5, <2>6
  <2> QED BY <2>5, <2>7 DEF S, d, ByteLists
<1> HIDE DEF c
<1>3. FromBe(c) = NumberAt(f, ByteBits * (l - taken), ByteBits * taken)
  <2> DEFINE a == ByteBits * (l - taken)
  <2>1. a \in Nat
    <3> HIDE DEF taken, l
    <3> QED BY <1>1
  <2>2. c \in [1 .. taken -> Nat]
    <3>1. \A i \in 1 .. taken : c[i] \in Nat
      <4> HIDE DEF taken
      <4>1. \A i \in 1 .. taken : c[i] \in 0 .. ByteLimit - 1
        BY <1>2
      <4> QED BY <4>1
    <3> HIDE DEF taken, l
    <3> QED BY <1>2, <3>1
  <2>3. ASSUME NEW i \in 1 .. taken PROVE c[i] = NumberAt(f, a + ByteBits * (i - 1), ByteBits)
    <3>1. (l - taken) + i \in 1 .. l /\ ((l - taken) + i) - 1 = (l - taken) + (i - 1)
      <4> HIDE DEF taken, l
      <4> QED BY <1>1
    <3>2. ByteBits * ((l - taken) + (i - 1)) = a + ByteBits * (i - 1)
      <4> DEFINE d == l - taken
      <4>1. d \in Nat /\ i - 1 \in Nat /\ ByteBits \in Nat
        BY <1>1
      <4> HIDE DEF d
      <4>2. ByteBits * (d + (i - 1)) = ByteBits * d + ByteBits * (i - 1)
        BY <4>1
      <4> QED BY <4>2 DEF d
    <3>3. NumberAt(f, ByteBits * (((l - taken) + i) - 1), ByteBits) = bytes[(l - taken) + i]
      BY <3>1, ByteBack
    <3> QED BY <1>2, <3>1, <3>2, <3>3
  <2> HIDE DEF a, f, taken
  <2>4. FromBe(c) = NumberAt(f, a, ByteBits * taken)
    BY <1>1, <2>1, <2>2, <2>3, BytesAsNumber
  <2> QED BY <2>4 DEF a
<1>4. z = o \o c
  BY DEF LastBytes, c
<1>5. /\ IsList(z) /\ Len(z) = k + taken
      /\ \A i \in 1 .. k : z[i] = 0
      /\ \A i \in 1 .. taken : z[k + i] = c[i]
  <2>1. IsList(o) /\ Len(o) = k /\ \A i \in 1 .. k : o[i] = 0
    <3> HIDE DEF k
    <3> QED BY <1>1 DEF Zeros, IsList
  <2>2. IsList(c)
    BY <1>2, SeqIsList DEF ByteLists
  <2> DEFINE u == o \o c
  <2> HIDE DEF o
  <2>3. /\ IsList(u) /\ Len(u) = Len(o) + Len(c)
        /\ \A i \in 1 .. Len(o) : u[i] = o[i]
        /\ \A i \in 1 .. Len(c) : u[Len(o) + i] = c[i]
    <3>1. IsList(o) /\ IsList(c)
      BY <2>1, <2>2
    <3> QED BY <3>1, ListConcat
  <2> HIDE DEF u, k, taken
  <2>4. z = u
    BY <1>4 DEF u
  <2> QED BY <1>2, <2>1, <2>3, <2>4
<1> HIDE DEF o, k, taken
<1>6. ASSUME NEW i \in 1 .. n PROVE z[i] \in 0 .. ByteLimit - 1
  <2>1. CASE i <= k
    <3>1. i \in 1 .. k /\ 0 \in 0 .. ByteLimit - 1
      BY <1>1, <2>1, Sizes
    <3> QED BY <1>5, <3>1
  <2>2. CASE ~ i <= k
    <3>1. i - k \in 1 .. taken /\ k + (i - k) = i
      BY <1>1, <2>2
    <3>2. z[i] = c[i - k]
      BY <1>5, <3>1
    <3> QED BY <1>2, <3>1, <3>2
  <2> QED BY <2>1, <2>2
<1>7. z \in ByteLists /\ Len(z) = n
  <2> DEFINE S == 0 .. ByteLimit - 1
  <2>1. Len(z) = n /\ z = [i \in 1 .. n |-> z[i]]
    BY <1>1, <1>5 DEF IsList
  <2> HIDE DEF S
  <2>2. \A i \in 1 .. n : z[i] \in S
    BY <1>6 DEF S
  <2>3. z \in Seq(S)
    BY <2>1, <2>2
  <2> QED BY <2>1, <2>3 DEF S, ByteLists
<1>8. FromBe(z) = FromBe(c)
  <2>1. Padded(z, k, c, taken)
    <3>1. z \in [1 .. k + taken -> Nat]
      <4>1. \A i \in 1 .. n : z[i] \in Nat
        BY <1>6, Sizes
      <4> QED BY <1>1, <1>5, <4>1 DEF IsList
    <3> QED BY <1>5, <3>1 DEF Padded
  <2>2. c \in [1 .. taken -> Nat]
    <3>1. \A i \in 1 .. taken : c[i] \in Nat
      <4> HIDE DEF taken
      <4>1. \A i \in 1 .. taken : c[i] \in 0 .. ByteLimit - 1
        BY <1>2
      <4> QED BY <4>1
    <3> QED BY <1>2, <3>1
  <2> QED BY <1>1, <2>1, <2>2, LeadingZeros
<1>9. FromBe(bytes) = NumberAt(f, 0, ByteBits * l) /\ FromBe(bytes) \in 0 .. Pow2(ByteBits * l) - 1
  BY NumberOfBytes
<1>10. CASE l < n
  <2>1. taken = l /\ l - taken = 0 /\ ByteBits * (l - taken) = 0
    BY <1>1, <1>10 DEF taken
  <2>2. FromBe(c) = FromBe(bytes)
    BY <1>3, <1>9, <2>1
  <2>3. ByteBits * l \in Nat /\ ByteBits * n \in Nat /\ ByteBits * l <= ByteBits * n
    <3> DEFINE d == n - l
    <3>1. d \in Nat /\ n = l + d
      BY <1>1, <1>10
    <3> HIDE DEF d, l
    <3>2. ByteBits * (l + d) = ByteBits * l + ByteBits * d /\ ByteBits * l \in Nat /\ ByteBits * d \in Nat
      BY <1>1, <3>1
    <3> QED BY <3>1, <3>2
  <2>4. Pow2(ByteBits * l) <= Pow2(ByteBits * n) /\ Pow2(ByteBits * l) \in Nat /\ Pow2(ByteBits * n) \in Nat \ {0}
    BY <2>3, Pow2Below, Pow2Step
  <2>5. FromBe(bytes) \in Nat /\ FromBe(bytes) < Pow2(ByteBits * n)
    BY <1>9, <2>4
  <2>6. FromBe(bytes) % Pow2(ByteBits * n) = FromBe(bytes)
    BY <2>4, <2>5, Small
  <2> QED BY <1>7, <1>8, <2>2, <2>6
<1>11. CASE ~ l < n
  <2>1. taken = n /\ n <= l
    BY <1>1, <1>11 DEF taken
  <2> DEFINE m == ByteBits * (l - n) t == ByteBits * n
  <2>2. m \in Nat /\ t \in Nat /\ ByteBits * l = m + t
    <3> DEFINE d == l - n
    <3>1. d \in Nat /\ l = d + n
      BY <1>1, <2>1
    <3> HIDE DEF d, l
    <3>2. ByteBits * (d + n) = ByteBits * d + ByteBits * n /\ ByteBits * d \in Nat /\ ByteBits * n \in Nat
      BY <1>1, <3>1
    <3> QED BY <3>1, <3>2 DEF d
  <2> HIDE DEF m, t, f
  <2>3. NumberAt(f, 0, m + t) % Pow2(t) = NumberAt(f, 0 + m, t) /\ 0 + m = m
    <3>1. 0 \in Nat /\ 0 + m = m
      BY <2>2
    <3> QED BY <1>1, <2>2, <3>1, NumberParts
  <2>4. FromBe(c) = NumberAt(f, m, t)
    BY <1>3, <2>1 DEF m, t
  <2>5. FromBe(c) = FromBe(bytes) % Pow2(t)
    BY <1>9, <2>2, <2>3, <2>4
  <2> QED BY <1>7, <1>8, <2>5 DEF t
<1> QED BY <1>10, <1>11

\* A list of bytes with only so many bits left of the first.
FirstMasked(w, bits) == [w EXCEPT ![1] = Mask(@, bits)]

\* With its first bits masked a list of bytes keeps the others.
LEMMA MaskedFirst ==
  ASSUME NEW n \in Nat \ {0}, NEW w \in ByteLists, Len(w) = n, NEW spare \in 1 .. ByteBits - 1,
         NEW width \in Nat, spare + width = ByteBits * n,
         NEW z, z = FirstMasked(w, ByteBits - spare)
  PROVE  Len(z) = n /\ FromBe(z) = FromBe(w) % Pow2(width)
<1> DEFINE f == Bits(w)
           g == [k \in Nat |-> IF k < spare THEN 0 ELSE f[k]]
           rest == ByteBits - spare
<1>1. /\ f \in Stream /\ n \in Nat /\ ByteBits \in Nat \ {0} /\ spare \in Nat /\ rest \in Nat
      /\ spare + rest = ByteBits /\ 0 \in Nat /\ 0 + spare = spare /\ ByteBits * n \in Nat
  BY BitsStream, Sizes
<1>2. g \in Stream
  <2> HIDE DEF f
  <2> QED BY <1>1 DEF Stream
<1>3. /\ z = [i \in 1 .. n |-> z[i]] /\ Len(z) = n
      /\ z[1] = w[1] % Pow2(rest) /\ \A i \in 2 .. n : z[i] = w[i]
  <2>1. w = [i \in 1 .. n |-> w[i]] /\ DOMAIN w = 1 .. n
    BY DEF ByteLists
  <2>2. 1 \in 1 .. n /\ \A i \in 2 .. n : i \in 1 .. n /\ i # 1
    BY <1>1
  <2>3. z = [i \in 1 .. n |-> IF i = 1 THEN w[1] % Pow2(rest) ELSE w[i]]
    BY <2>1, <2>2 DEF Mask, FirstMasked
  <2> HIDE DEF rest
  <2>4. Len(z) = n
    BY <1>1, <2>3
  <2> QED BY <2>2, <2>3, <2>4
<1> HIDE DEF rest
<1>4. ASSUME NEW i \in 1 .. n PROVE z[i] = NumberAt(g, 0 + ByteBits * (i - 1), ByteBits)
  <2>1. NumberAt(f, ByteBits * (i - 1), ByteBits) = w[i]
    BY ByteBack
  <2>2. ByteBits * (i - 1) \in Nat /\ 0 + ByteBits * (i - 1) = ByteBits * (i - 1)
    BY <1>1
  <2>3. CASE i = 1
    <3>1. ByteBits * (i - 1) = 0
      BY <1>1, <2>3
    <3>2. NumberAt(f, 0, ByteBits) = w[1]
      BY <2>1, <2>3, <3>1
    <3>3. NumberAt(f, 0, spare + rest) % Pow2(rest) = NumberAt(f, 0 + spare, rest)
      <4> HIDE DEF f
      <4> QED BY <1>1, NumberParts
    <3>4. z[1] = NumberAt(f, spare, rest)
      BY <1>1, <1>3, <3>2, <3>3
    <3>5. NumberAt(g, 0, spare + rest) = NumberAt(g, 0, spare) * Pow2(rest) + NumberAt(g, 0 + spare, rest)
      <4> HIDE DEF g
      <4> QED BY <1>1, <1>2, NumberSplits
    <3>6. NumberAt(g, 0, spare) = 0
      <4>1. \A k \in 0 .. spare - 1 : g[0 + k] = 0
        <5> HIDE DEF f
        <5> QED BY <1>1
      <4> HIDE DEF g
      <4> QED BY <1>1, <1>2, <4>1, ZeroDigits
    <3>7. NumberAt(g, spare, rest) = NumberAt(f, spare, rest)
      <4>1. SameOn(g, spare, f, spare, rest)
        <5>1. ASSUME NEW k \in 0 .. rest - 1 PROVE g[spare + k] = f[spare + k]
          <6>1. spare + k \in Nat /\ ~ (spare + k < spare)
            BY <1>1
          <6> HIDE DEF f
          <6> QED BY <6>1
        <5> QED BY <5>1 DEF SameOn
      <4> HIDE DEF f, g
      <4> QED BY <1>1, <4>1, SameNumber
    <3>8. NumberAt(f, spare, rest) \in Nat /\ Pow2(rest) \in Nat
      <4> HIDE DEF f
      <4> QED BY <1>1, OneDigitMore, Pow2Step
    <3> HIDE DEF f, g
    <3>9. NumberAt(g, 0, ByteBits) = NumberAt(f, spare, rest)
      BY <1>1, <3>5, <3>6, <3>7, <3>8
    <3> QED BY <2>2, <2>3, <3>1, <3>4, <3>9
  <2>4. CASE i # 1
    <3> DEFINE a == ByteBits * (i - 1)
    <3>1. a >= spare
      <4> DEFINE d == i - 2
      <4>1. d \in Nat /\ i - 1 = d + 1
        BY <1>1, <2>4
      <4> HIDE DEF d
      <4>2. ByteBits * (d + 1) = ByteBits * d + ByteBits /\ ByteBits * d \in Nat
        BY <1>1, <4>1
      <4> QED BY <1>1, <4>1, <4>2
    <3> HIDE DEF a
    <3>2. a \in Nat
      BY <2>2 DEF a
    <3>3. SameOn(g, a, f, a, ByteBits)
      <4>1. ASSUME NEW k \in 0 .. ByteBits - 1 PROVE g[a + k] = f[a + k]
        <5>1. a + k \in Nat /\ ~ (a + k < spare)
          BY <1>1, <3>1, <3>2
        <5> HIDE DEF f
        <5> QED BY <5>1
      <4> QED BY <4>1 DEF SameOn
    <3>4. NumberAt(g, a, ByteBits) = NumberAt(f, a, ByteBits)
      <4> HIDE DEF f, g
      <4> QED BY <1>1, <3>2, <3>3, SameNumber
    <3>5. i \in 2 .. n
      BY <1>1, <2>4
    <3> QED BY <1>3, <2>1, <2>2, <3>4, <3>5 DEF a
  <2> QED BY <2>3, <2>4
<1>5. FromBe(z) = NumberAt(g, 0, ByteBits * n)
  <2>1. \A i \in 1 .. n : NumberAt(g, 0 + ByteBits * (i - 1), ByteBits) \in Nat
    <3>1. \A i \in 1 .. n : 0 + ByteBits * (i - 1) \in Nat
      BY <1>1
    <3> HIDE DEF g
    <3> QED BY <1>1, <1>2, <3>1, OneDigitMore
  <2> HIDE DEF g
  <2>2. \A i \in 1 .. n : z[i] = NumberAt(g, 0 + ByteBits * (i - 1), ByteBits)
    BY <1>4
  <2>3. \A i \in 1 .. n : z[i] \in Nat
    BY <2>1, <2>2
  <2>4. z \in [1 .. n -> Nat]
    BY <1>3, <2>3
  <2> DEFINE a == 0
  <2>5. \A i \in 1 .. n : z[i] = NumberAt(g, a + ByteBits * (i - 1), ByteBits)
    BY <2>2
  <2>6. a \in Nat /\ n \in Nat /\ g \in Stream
    BY <1>1, <1>2
  <2> HIDE DEF a
  <2>7. FromBe(z) = NumberAt(g, a, ByteBits * n)
    BY <2>4, <2>5, <2>6, BytesAsNumber
  <2> QED BY <2>7 DEF a
<1>6. NumberAt(g, 0, spare + width) = NumberAt(f, spare, width)
  <2>1. NumberAt(g, 0, spare + width) = NumberAt(g, 0, spare) * Pow2(width) + NumberAt(g, 0 + spare, width)
    <3> HIDE DEF g
    <3> QED BY <1>1, <1>2, NumberSplits
  <2>2. NumberAt(g, 0, spare) = 0
    <3>1. \A k \in 0 .. spare - 1 : g[0 + k] = 0
      <4> HIDE DEF f
      <4> QED BY <1>1
    <3> HIDE DEF g
    <3> QED BY <1>1, <1>2, <3>1, ZeroDigits
  <2>3. NumberAt(g, spare, width) = NumberAt(f, spare, width)
    <3>1. SameOn(g, spare, f, spare, width)
      <4>1. ASSUME NEW k \in 0 .. width - 1 PROVE g[spare + k] = f[spare + k]
        <5>1. spare + k \in Nat /\ ~ (spare + k < spare)
          BY <1>1
        <5> HIDE DEF f
        <5> QED BY <5>1
      <4> QED BY <4>1 DEF SameOn
    <3> HIDE DEF f, g
    <3> QED BY <1>1, <3>1, SameNumber
  <2>4. NumberAt(f, spare, width) \in Nat /\ Pow2(width) \in Nat
    <3> HIDE DEF f
    <3> QED BY <1>1, OneDigitMore, Pow2Step
  <2> HIDE DEF f, g
  <2> QED BY <1>1, <2>1, <2>2, <2>3, <2>4
<1>7. NumberAt(f, 0, spare + width) % Pow2(width) = NumberAt(f, 0 + spare, width)
  <2> HIDE DEF f
  <2> QED BY <1>1, NumberParts
<1>8. FromBe(w) = NumberAt(f, 0, ByteBits * n)
  BY NumberOfBytes
<1> HIDE DEF f, g
<1>9. FromBe(z) = FromBe(w) % Pow2(width)
  BY <1>1, <1>5, <1>6, <1>7, <1>8
<1> QED BY <1>1, <1>3, <1>9

\* A fixed value is brought to its width: as many bytes, and the low bits.
LEMMA RightAlignedIs ==
  ASSUME NEW bytes \in ByteLists, NEW width \in Nat, NEW z, z = RightAligned(bytes, width)
  PROVE  Len(z) = BytesFor(width) /\ FromBe(z) = FromBe(bytes) % Pow2(width)
<1> DEFINE n == BytesFor(width)
           w == LastBytes(bytes, n)
           spare == n * ByteBits - width
<1>1. n \in Nat /\ ByteBits \in Nat \ {0} /\ ByteBits * n - width \in 0 .. ByteBits - 1
  BY SlackIs, Sizes
<1>2. n * ByteBits = ByteBits * n /\ ByteBits * n \in Nat
  <2> HIDE DEF n
  <2> QED BY <1>1
<1>3. spare \in 0 .. ByteBits - 1 /\ spare + width = ByteBits * n
  BY <1>1, <1>2
<1>4. w \in ByteLists /\ Len(w) = n /\ FromBe(w) = FromBe(bytes) % Pow2(ByteBits * n)
  BY <1>1, LastBytesAre
<1>5. z = IF spare > 0 THEN FirstMasked(w, ByteBits - spare) ELSE w
  BY DEF RightAligned, LastBytes, FirstMasked
<1> HIDE DEF n, w, spare
<1>6. CASE ~ spare > 0
  <2>1. width = ByteBits * n
    BY <1>1, <1>2, <1>3, <1>6
  <2> QED BY <1>4, <1>5, <1>6, <2>1 DEF n
<1>7. CASE spare > 0
  <2>1. n \in Nat \ {0} /\ spare \in 1 .. ByteBits - 1
    <3>1. n = 0 => ByteBits * n = 0
      BY <1>1
    <3> QED BY <1>1, <1>2, <1>3, <1>7, <3>1
  <2>2. z = FirstMasked(w, ByteBits - spare)
    BY <1>5, <1>7
  <2>3. Len(z) = n /\ FromBe(z) = FromBe(w) % Pow2(width)
    BY <1>3, <1>4, <2>1, <2>2, MaskedFirst
  <2> DEFINE p == Pow2(spare) q == Pow2(width) x == FromBe(bytes)
  <2>4. p \in Nat \ {0} /\ q \in Nat \ {0} /\ x \in Nat /\ Pow2(ByteBits * n) = p * q
    <3>1. spare \in Nat /\ width \in Nat
      BY <2>1
    <3>2. p \in Nat \ {0} /\ q \in Nat \ {0}
      BY <3>1, Pow2Step
    <3>3. x \in Nat
      BY NumberOfBytes
    <3>4. Pow2(spare + width) = p * q
      BY <3>1, Pow2Sum
    <3> QED BY <1>3, <3>2, <3>3, <3>4
  <2> HIDE DEF p, q, x
  <2>5. (x % (p * q)) % q = x % q
    BY <2>4, RemainderTwice
  <2>6. FromBe(w) = x % (p * q)
    BY <1>4, <2>4 DEF x
  <2>7. FromBe(z) = x % q
    BY <2>3, <2>5, <2>6 DEF q
  <2> QED BY <2>3, <2>7 DEF n, x, q
<1> QED BY <1>6, <1>7


\* The codings of an integer encoding.
KnownCodings == {"unsigned", "twosComplement", "signMagnitude", "onesComplement"}

\* The interpreter's value of a number below two to the width is what its
\* coding says.
LEMMA InterpretedIs ==
  ASSUME NEW width \in 1 .. MaxWidth, NEW x \in Nat, x < Pow2(width),
         NEW swapped \in BOOLEAN, NEW coding \in KnownCodings
  PROVE  Interpreted(x, width, coding, swapped) = Ok(Meaning(x, width, coding))
<1>1. x \in 0 .. Pow2(width) - 1
  <2>1. width \in Nat
    BY Sizes
  <2>2. Pow2(width) \in Nat
    BY <2>1, Pow2Step
  <2> QED BY <2>2
<1>2. CASE coding = "unsigned"
  BY <1>1, <1>2, CodedIs DEF Interpreted
<1>3. CASE coding = "signMagnitude"
  BY <1>1, <1>3, CodedIs DEF Interpreted
<1>4. CASE coding = "onesComplement"
  BY <1>1, <1>4, CodedIs DEF Interpreted
<1>5. CASE coding = "twosComplement"
  <2>1. /\ TwosComplement(x, width) = Meaning(x, width, "twosComplement")
        /\ TwosComplementUnmasked(x, width) = Ok(Meaning(x, width, "twosComplement"))
    BY <1>1, CodedIs
  <2>2. CASE swapped
    BY <1>5, <2>1, <2>2 DEF Interpreted
  <2>3. CASE ~ swapped
    BY <1>5, <2>1, <2>3 DEF Interpreted
  <2> QED BY <2>2, <2>3
<1> QED BY <1>2, <1>3, <1>4, <1>5 DEF KnownCodings

\* What ValuesAreExact says of one field at the cursor.
FieldExact(width, coding, swapped, answer, compiled) ==
  LET n == Number(Field(position, width)) IN
  /\ answer.error = "none" /\ width > 0 =>
       /\ ~ swapped => answer.v = Meaning(n, width, coding)
       /\ swapped /\ width % ByteBits = 0 =>
            answer.v = Meaning(FromBe(Reverse(ReadBytes(data, position, width).v)), width, coding)
  /\ compiled # {} => answer.error = "none" /\ compiled = {answer.v}

\* The value of a field is what its coding says, and what generated code
\* answers where it has the field.
LEMMA FieldIsExact ==
  ASSUME CursorInv, NEW width \in Nat, NEW coding \in KnownCodings, NEW swapped \in BOOLEAN,
         NEW answer, answer = RawInteger(data, position, width, coding, swapped),
         NEW compiled,
         compiled = {} \/
           /\ width \in 1 .. MaxWidth /\ position + width <= LenBits(data)
           /\ ~ SwapRefused(width, coding, swapped)
           /\ LET raw == EmittedReadAt(data, position, width).v
                  unsigned == IF swapped THEN SwapByteOrder(raw, width) ELSE raw
              IN compiled = {EmittedInteger(data, position, width, coding, swapped),
                             EmittedSigned(unsigned, width, coding, swapped)}
  PROVE  FieldExact(width, coding, swapped, answer, compiled)
<1> DEFINE y == FieldNumber(position, width, swapped)
           e == EmittedSigned(y, width, coding, swapped)
           n == Number(Field(position, width))
<1>1. position \in Nat
  BY DEF CursorInv
<1>2. ASSUME width \in 1 .. MaxWidth, position + width <= LenBits(data)
      PROVE  /\ answer = Interpreted(y, width, coding, swapped)
             /\ y \in Nat /\ y < Pow2(ByteBits * BytesFor(width))
             /\ y < Pow2(width) \/ (swapped /\ width % ByteBits # 0)
             /\ ~ swapped => y = n
             /\ swapped /\ width % ByteBits = 0 =>
                  y = FromBe(Reverse(ReadBytes(data, position, width).v))
  <2>1. answer = Interpreted(y, width, coding, swapped)
    BY <1>1, <1>2, RawIs DEF KnownCodings
  <2> HIDE DEF y
  <2>2. /\ y \in Nat /\ y < Pow2(ByteBits * BytesFor(width))
        /\ y < Pow2(width) \/ (swapped /\ width % ByteBits # 0)
        /\ ~ swapped => y = n
        /\ swapped /\ width % ByteBits = 0 =>
             y = FromBe(Reverse(ReadBytes(data, position, width).v))
    BY <1>1, <1>2, FieldNumberIs DEF y
  <2> QED BY <2>1, <2>2
<1> HIDE DEF y, n
<1>3. ASSUME answer.error = "none", width > 0
      PROVE  /\ ~ swapped => answer.v = Meaning(n, width, coding)
             /\ swapped /\ width % ByteBits = 0 =>
                  answer.v = Meaning(FromBe(Reverse(ReadBytes(data, position, width).v)), width, coding)
  <2>1. width \in 1 .. MaxWidth /\ position + width <= LenBits(data)
    BY <1>1, <1>3, RawAnswers
  <2>2. ASSUME ~ swapped \/ width % ByteBits = 0 PROVE answer.v = Meaning(y, width, coding)
    <3>1. y \in Nat /\ y < Pow2(width)
      BY <1>2, <2>1, <2>2
    <3>2. Interpreted(y, width, coding, swapped) = Ok(Meaning(y, width, coding))
      BY <2>1, <3>1, InterpretedIs
    <3>3. answer = Ok(Meaning(y, width, coding))
      BY <1>2, <2>1, <3>2
    <3> QED BY <3>3 DEF Ok
  <2>3. ASSUME ~ swapped PROVE answer.v = Meaning(n, width, coding)
    <3>1. y = n
      BY <1>2, <2>1, <2>3
    <3>2. answer.v = Meaning(y, width, coding)
      BY <2>2, <2>3
    <3> QED BY <3>1, <3>2
  <2>4. ASSUME swapped, width % ByteBits = 0
        PROVE  answer.v = Meaning(FromBe(Reverse(ReadBytes(data, position, width).v)), width, coding)
    <3>1. y = FromBe(Reverse(ReadBytes(data, position, width).v))
      BY <1>2, <2>1, <2>4
    <3>2. answer.v = Meaning(y, width, coding)
      BY <2>2, <2>4
    <3> QED BY <3>1, <3>2
  <2> QED BY <2>3, <2>4
<1>4. ASSUME compiled # {} PROVE answer.error = "none" /\ compiled = {answer.v}
  <2>1. width \in 1 .. MaxWidth /\ position + width <= LenBits(data) /\ ~ SwapRefused(width, coding, swapped)
    BY <1>4
  <2>2. EmittedInteger(data, position, width, coding, swapped) = e
    BY <1>1, <2>1, EmittedIs DEF y
  <2>3. EmittedReadAt(data, position, width).v = NumberAt(Bits(data), position, width)
    BY <1>1, <2>1, EmittedIs
  <2>4. (IF swapped THEN SwapByteOrder(EmittedReadAt(data, position, width).v, width)
         ELSE EmittedReadAt(data, position, width).v) = y
    BY <2>3 DEF y, FieldNumber
  <2>5. EmittedSigned(IF swapped THEN SwapByteOrder(EmittedReadAt(data, position, width).v, width)
                      ELSE EmittedReadAt(data, position, width).v, width, coding, swapped) = e
    BY <2>4
  <2>6. compiled = {e, e}
    BY <1>4, <2>2, <2>5
  <2>7. Interpreted(y, width, coding, swapped) = Ok(e)
    <3>1. coding \in {"unsigned", "twosComplement", "signMagnitude", "onesComplement"}
      BY DEF KnownCodings
    <3> QED BY <1>2, <2>1, <3>1, CodingAgrees
  <2> HIDE DEF e
  <2>8. answer = Ok(e)
    BY <1>2, <2>1, <2>7
  <2> QED BY <2>6, <2>8 DEF Ok
<1> QED BY <1>3, <1>4 DEF FieldExact, n

\* Every call keeps the values exact.
LEMMA ValuesStep ==
  ASSUME CursorInv, ValuesAreExact, [Next]_vars
  PROVE  ValuesAreExact'
<1>1. data \in ByteLists /\ position \in Nat
  BY DEF CursorInv
<1>2. CASE UNCHANGED vars
  <2>1. data' = data /\ call' = call
    BY <1>2 DEF vars
  <2> QED BY <2>1 DEF ValuesAreExact, Field
<1>3. CASE call'.op \notin {"field", "fixed"}
  BY <1>3 DEF ValuesAreExact
<1>4. ASSUME NEW width \in Widths PROVE width \in Nat
  BY ReadsAssumption
<1>5. ASSUME NEW width \in Widths, NEW coding \in Codings, NEW swapped \in BOOLEAN,
             ReadField(width, coding, swapped)
      PROVE  ValuesAreExact'
  <2> DEFINE raw == EmittedReadAt(data, position, width).v
             unsigned == IF swapped THEN SwapByteOrder(raw, width) ELSE raw
             answer == RawInteger(data, position, width, coding, swapped)
             known == /\ width \in 1 .. MaxWidth
                      /\ position + width <= LenBits(data)
                      /\ ~ SwapRefused(width, coding, swapped)
             compiled == IF known
                         THEN {EmittedInteger(data, position, width, coding, swapped),
                               EmittedSigned(unsigned, width, coding, swapped)}
                         ELSE {}
  <2>1. /\ data' = data /\ call'.op = "field" /\ call'.at = position /\ call'.width = width
        /\ call'.coding = coding /\ call'.swapped = swapped
        /\ call'.answer = answer /\ call'.compiled = compiled
    BY <1>5 DEF ReadField
  <2>2. FieldExact(width, coding, swapped, answer, compiled)
    <3>1. coding \in KnownCodings
      BY ReadsAssumption DEF KnownCodings
    <3>2. compiled = {} \/
            /\ width \in 1 .. MaxWidth /\ position + width <= LenBits(data)
            /\ ~ SwapRefused(width, coding, swapped)
            /\ compiled = {EmittedInteger(data, position, width, coding, swapped),
                           EmittedSigned(unsigned, width, coding, swapped)}
      OBVIOUS
    <3> HIDE DEF answer, compiled
    <3>3. answer = RawInteger(data, position, width, coding, swapped)
      BY DEF answer
    <3> QED BY <1>4, <3>1, <3>2, <3>3, FieldIsExact
  <2> HIDE DEF answer, compiled
  <2>3. Field(call.at, call.width)' = Field(position, width)
    BY <2>1 DEF Field
  <2>4. call'.op # "fixed"
    BY <2>1
  <2> QED BY <2>1, <2>2, <2>3, <2>4 DEF ValuesAreExact, FieldExact
<1>6. ASSUME NEW width \in Widths, AlignFixed(width) PROVE ValuesAreExact'
  <2> DEFINE answer == RightAligned(data, width)
  <2>1. data' = data /\ call'.op = "fixed" /\ call'.width = width /\ call'.answer = answer
    BY <1>6 DEF AlignFixed
  <2> HIDE DEF answer
  <2>2. Len(answer) = BytesFor(width) /\ FromBe(answer) = FromBe(data) % Pow2(width)
    BY <1>1, <1>4, RightAlignedIs DEF answer
  <2>3. call'.op # "field"
    BY <2>1
  <2> QED BY <2>1, <2>2, <2>3 DEF ValuesAreExact
<1>7. ASSUME NEW p \in Positions, call = NoCall, Seek(p) PROVE ValuesAreExact'
  <2>1. call'.op = "none"
    BY <1>7 DEF Seek, NoCall
  <2> QED BY <1>3, <2>1
<1>8. ASSUME NEW width, Skip(width) \/ PeekNext(width) \/ ReadUint(width) \/ ReadBits(width)
      PROVE  ValuesAreExact'
  <2>1. call'.op \in {"skip", "peek", "uint", "bytes", "text"}
    BY <1>8 DEF Skip, PeekNext, ReadUint, ReadBits, Read
  <2> QED BY <1>3, <2>1
<1>9. ASSUME NEW spline, NEW x, Calibrate(spline, x) PROVE ValuesAreExact'
  <2>1. call'.op = "spline"
    BY <1>9 DEF Calibrate
  <2> QED BY <1>3, <2>1
<1>10. ASSUME NEW buffer, NEW delimiter, NEW charset, NEW order,
              DecodeText(buffer, delimiter, charset, order)
       PROVE  ValuesAreExact'
  <2>1. call'.op = "string"
    BY <1>10 DEF DecodeText
  <2> QED BY <1>3, <2>1
<1>11. CASE Return
  <2>1. call'.op = "none"
    BY <1>11 DEF Return, NoCall
  <2> QED BY <1>3, <2>1
<1> QED BY <1>2, <1>5, <1>6, <1>7, <1>8, <1>9, <1>10, <1>11 DEF Next

\* Whatever the size of a byte and of a word, the packet and the order of the
\* calls, an integer field's value is what its coding says of the bits at the
\* cursor, or of its bytes in reverse, the compiled reads answer the same value
\* wherever the plan compiles the field, and a fixed value keeps its low bits
\* (bits.rs, decoder.rs read_raw, emit.rs, plan.rs right_aligned).
THEOREM ValuesAreRight == Spec => []ValuesAreExact
<1> DEFINE Inv == ReadsInv /\ ValuesAreExact
<1>1. Init => Inv
  BY ReadsAssumption DEF Init, ReadsInv, CursorInv, ReadsAreNaive, ValuesAreExact, NoCall, ByteLists
<1>2. Inv /\ [Next]_vars => Inv'
  BY ReadsStep, ValuesStep DEF ReadsInv
<1> QED BY <1>1, <1>2, PTL DEF Spec

(***************************************************************************)
(* Splines.                                                                *)
(***************************************************************************)
IsPoints(P) ==
  /\ IsList(P)
  /\ \A i \in 1 .. Len(P) : P[i].raw \in Int /\ P[i].cal \in Int
  /\ \A i, j \in 1 .. Len(P) : i <= j => P[i].raw <= P[j].raw

\* The place of the last point at or below a query.
LEMMA HiIs ==
  ASSUME NEW P, IsPoints(P), Len(P) # 0, NEW x \in Int, P[1].raw <= x
  PROVE  /\ Hi(P, x) \in 1 .. Len(P) /\ P[Hi(P, x)].raw <= x
         /\ \A i \in 1 .. Len(P) : P[i].raw <= x => i <= Hi(P, x)
<1> DEFINE I == {i \in 1 .. Len(P) : P[i].raw <= x}
           n == IF I # {} THEN Max(I) ELSE 0
<1>1. Hi(P, x) = IF n = 0 THEN 1 ELSE n
  BY DEF Hi, SelectLastInSeq
<1>2. Len(P) \in Nat /\ I \subseteq 1 .. Len(P) /\ 1 \in I
  BY DEF IsPoints, IsList
<1>3. \A i \in I : P[i].raw <= x
  OBVIOUS
<1>4. \A i \in 1 .. Len(P) : P[i].raw <= x => i \in I
  OBVIOUS
<1> HIDE DEF I
<1> DEFINE T == {Len(P) - i : i \in I}
<1>5. T \subseteq Nat /\ T # {}
  BY <1>2
<1> HIDE DEF T
<1>6. PICK t \in T : \A u \in T : t <= u
  BY <1>5, Least
<1>7. PICK m \in I : t = Len(P) - m
  BY DEF T
<1>8. ASSUME NEW i \in I PROVE i <= m
  <2>1. Len(P) - i \in T
    BY DEF T
  <2>2. i \in 1 .. Len(P) /\ m \in 1 .. Len(P)
    BY <1>2
  <2> QED BY <1>2, <1>6, <1>7, <2>1, <2>2
<1>9. Max(I) \in I /\ \A i \in I : i <= Max(I)
  BY <1>8 DEF Max
<1>10. n = Max(I) /\ n \in 1 .. Len(P) /\ n # 0
  <2>1. n = Max(I)
    BY <1>2
  <2> HIDE DEF n
  <2>2. n \in 1 .. Len(P)
    BY <1>2, <1>9, <2>1
  <2> QED BY <1>2, <2>1, <2>2
<1> HIDE DEF n
<1> QED BY <1>1, <1>3, <1>4, <1>9, <1>10

\* Distances grow away from a query.
LEMMA Nearer ==
  ASSUME NEW x \in Int, NEW a \in Int, NEW b \in Int,
         (x <= a /\ a <= b) \/ (b <= a /\ a <= x)
  PROVE  (a - x) * (a - x) <= (b - x) * (b - x)
<1>1. ASSUME NEW m \in Nat, NEW n \in Nat, m <= n PROVE m * m <= n * n
  <2>1. m * m <= m * n /\ m * n <= n * n
    BY <1>1
  <2>2. m * m \in Nat /\ m * n \in Nat /\ n * n \in Nat
    OBVIOUS
  <2> QED BY <2>1, <2>2
<1>2. CASE x <= a /\ a <= b
  <2>1. a - x \in Nat /\ b - x \in Nat /\ a - x <= b - x
    BY <1>2
  <2> QED BY <1>1, <2>1
<1>3. CASE b <= a /\ a <= x
  <2>1. x - a \in Nat /\ x - b \in Nat /\ x - a <= x - b
    BY <1>3
  <2>2. (x - a) * (x - a) <= (x - b) * (x - b)
    BY <1>1, <2>1
  <2>3. (x - a) * (x - a) = (a - x) * (a - x) /\ (x - b) * (x - b) = (b - x) * (b - x)
    OBVIOUS
  <2> QED BY <2>2, <2>3
<1> QED BY <1>2, <1>3

\* And only there.
LEMMA Farther ==
  ASSUME NEW x \in Int, NEW a \in Int, NEW b \in Int,
         (x <= a /\ a < b) \/ (b < a /\ a <= x)
  PROVE  ~ ((b - x) * (b - x) <= (a - x) * (a - x))
<1>1. ASSUME NEW m \in Nat, NEW n \in Nat, m < n PROVE m * m < n * n
  <2>1. m * m <= m * n /\ m * n < n * n
    BY <1>1
  <2>2. m * m \in Nat /\ m * n \in Nat /\ n * n \in Nat
    OBVIOUS
  <2> QED BY <2>1, <2>2
<1>2. CASE x <= a /\ a < b
  <2>1. a - x \in Nat /\ b - x \in Nat /\ a - x < b - x
    BY <1>2
  <2>2. (a - x) * (a - x) < (b - x) * (b - x)
    BY <1>1, <2>1
  <2>3. (a - x) * (a - x) \in Int /\ (b - x) * (b - x) \in Int
    OBVIOUS
  <2> QED BY <2>2, <2>3
<1>3. CASE b < a /\ a <= x
  <2>1. x - a \in Nat /\ x - b \in Nat /\ x - a < x - b
    BY <1>3
  <2>2. (x - a) * (x - a) < (x - b) * (x - b)
    BY <1>1, <2>1
  <2>3. (x - a) * (x - a) = (a - x) * (a - x) /\ (x - b) * (x - b) = (b - x) * (b - x)
    OBVIOUS
  <2>4. (a - x) * (a - x) \in Int /\ (b - x) * (b - x) \in Int
    OBVIOUS
  <2> QED BY <2>2, <2>3, <2>4
<1> QED BY <1>2, <1>3

\* The line through two points goes through them, and is a line.
LEMMA LineIs ==
  ASSUME NEW x \in Int, NEW p, NEW q, p.raw \in Int, q.raw \in Int, p.cal \in Int, q.cal \in Int
  PROVE  /\ p.raw # q.raw => OnLine(Line(x, p, q), x, p, q)
         /\ x = p.raw => Exactly(Line(x, p, q), p.cal)
         /\ x = q.raw /\ p.raw # q.raw => Exactly(Line(x, p, q), q.cal)
         /\ p.raw = q.raw => Exactly(Line(x, p, q), p.cal)
<1> DEFINE a == p.raw
           b == q.raw
           c == p.cal
           d == q.cal
           v == Line(x, p, q)
<1>1. a \in Int /\ b \in Int /\ c \in Int /\ d \in Int
  OBVIOUS
<1>2. CASE a = b
  <2>1. v = [num |-> c, den |-> 1]
    BY <1>2 DEF Line, Value
  <2>2. v.num = c /\ v.den = 1 /\ c * 1 = c
    BY <1>1, <2>1
  <2>3. Exactly(v, c)
    BY <2>2 DEF Exactly
  <2> QED BY <1>2, <2>3
<1>3. CASE a # b
  <2>1. v = [num |-> (d - c) * (x - a) + c * (b - a), den |-> b - a]
    BY <1>3 DEF Line
  <2>2. v.num = (d - c) * (x - a) + c * (b - a) /\ v.den = b - a
    BY <2>1
  <2> HIDE DEF v, a, b, c, d
  <2>3. v.num * (b - a) = v.den * ((d - c) * (x - a) + c * (b - a))
    BY <1>1, <2>2
  <2>4. x = a => v.num = c * v.den
    <3>1. ASSUME x = a PROVE x - a = 0
      BY <1>1, <3>1
    <3>2. (d - c) * 0 = 0 /\ 0 + c * (b - a) = c * (b - a)
      BY <1>1
    <3> QED BY <2>2, <3>1, <3>2
  <2>5. x = b => v.num = d * v.den
    <3> DEFINE e == b - a
    <3>1. e \in Int
      BY <1>1
    <3> HIDE DEF e
    <3>2. (d - c) * e + c * e = d * e
      BY <1>1, <3>1
    <3> QED BY <2>2, <3>2 DEF e
  <2> QED BY <1>3, <2>3, <2>4, <2>5 DEF OnLine, Exactly, a, b, c, d, v
<1> QED BY <1>2, <1>3


\* The points of a spline around a query, and those nearest to it.
PointsOf(P) == {P[i] : i \in 1 .. Len(P)}
LowerOf(S, x) == {p \in S : p.raw < x}
UpperOf(S, x) == {p \in S : p.raw > x}
SameOf(S, x)  == {p \in S : p.raw = x}
NearestOf(S, x) ==
  {p \in S : \A q \in S : (p.raw - x) * (p.raw - x) <= (q.raw - x) * (q.raw - x)}
OuterOf(S, x) == SameOf(S, x) = {} /\ (LowerOf(S, x) = {} \/ UpperOf(S, x) = {})

\* What SplineInterpolates says of a value.
OnSpline(s, x, value) ==
  LET S == PointsOf(s.points)
      lower == LowerOf(S, x)
      upper == UpperOf(S, x)
      same == SameOf(S, x)
  IN /\ same # {} => \E p \in same : Exactly(value, p.cal)
     /\ same = {} /\ s.order = 0 =>
          \E p \in NearestOf(IF lower # {} THEN lower ELSE upper, x) : Exactly(value, p.cal)
     /\ same = {} /\ s.order = 1 /\ ~ OuterOf(S, x) =>
          \E p \in NearestOf(lower, x), q \in NearestOf(upper, x) : OnLine(value, x, p, q)
     /\ OuterOf(S, x) /\ s.order = 1 /\ Cardinality({p.raw : p \in S}) = Len(s.points) =>
          \/ Len(s.points) = 1
          \/ \E p \in NearestOf(S, x), q \in NearestOf(S \ NearestOf(S, x), x) :
               IF p.raw < q.raw THEN OnLine(value, x, p, q) ELSE OnLine(value, x, q, p)

\* A constant is what it is.
LEMMA ConstantIs ==
  ASSUME NEW n \in Int
  PROVE  Exactly(Value(n), n)
  BY DEF Exactly, Value

\* Points whose raw values differ are as many as these.
LEMMA PointsDiffer ==
  ASSUME NEW P, IsPoints(P), Cardinality({p.raw : p \in PointsOf(P)}) = Len(P),
         NEW i \in 1 .. Len(P), NEW j \in 1 .. Len(P), i # j
  PROVE  P[i].raw # P[j].raw
<1> DEFINE S == 1 .. Len(P)
           T == {p.raw : p \in PointsOf(P)}
           f == [k \in S |-> P[k].raw]
<1>1. Len(P) \in Nat
  BY DEF IsPoints, IsList
<1>2. IsFiniteSet(S) /\ Cardinality(S) = Len(P)
  <2>1. 1 \in Int /\ Len(P) \in Int /\ (IF 1 > Len(P) THEN 0 ELSE Len(P) - 1 + 1) = Len(P)
    BY <1>1
  <2> QED BY <2>1, FS_Interval
<1>3. f \in Surjection(S, T)
  <2>1. \A k \in S : f[k] \in T
    BY DEF PointsOf
  <2>2. \A t \in T : \E k \in S : f[k] = t
    BY DEF PointsOf
  <2>3. f \in [S -> T]
    BY <2>1
  <2> HIDE DEF f, T, S
  <2> QED BY <2>2, <2>3 DEF Surjection
<1>4. f[i] = P[i].raw /\ f[j] = P[j].raw
  OBVIOUS
<1> HIDE DEF f, T, S
<1>5. f \in Injection(S, T)
  BY <1>2, <1>3, FS_Surjection DEF T
<1>6. f[i] # f[j]
  <2>1. \A a, b \in S : f[a] = f[b] => a = b
    BY <1>5 DEF Injection, IsInjective
  <2>2. i \in S /\ j \in S
    BY DEF S
  <2> QED BY <2>1, <2>2
<1> QED BY <1>4, <1>6

\* The nearest of a set of points.
LEMMA NearestIs ==
  ASSUME NEW S, NEW x \in Int, NEW p \in S, p.raw \in Int,
         \A q \in S : q.raw \in Int /\ ((x <= p.raw /\ p.raw <= q.raw) \/ (q.raw <= p.raw /\ p.raw <= x))
  PROVE  p \in NearestOf(S, x)
<1>1. ASSUME NEW q \in S PROVE (p.raw - x) * (p.raw - x) <= (q.raw - x) * (q.raw - x)
  BY Nearer
<1> QED BY <1>1 DEF NearestOf

\* A query before the first point, or behind the last: the end is the nearest,
\* and the point next to it the nearest of the others.
LEMMA EndIsNearest ==
  ASSUME NEW P, IsPoints(P), NEW x \in Int, NEW e \in 1 .. Len(P),
         (e = 1 /\ x < P[e].raw) \/ (e = Len(P) /\ x > P[e].raw)
  PROVE  LET S == PointsOf(P) IN
         /\ P[e] \in NearestOf(S, x) /\ SameOf(S, x) = {}
         /\ IF e = 1 /\ x < P[e].raw THEN LowerOf(S, x) = {} /\ UpperOf(S, x) = S
            ELSE UpperOf(S, x) = {} /\ LowerOf(S, x) = S
<1> DEFINE S == PointsOf(P)
<1>1. \A q \in S : \E i \in 1 .. Len(P) : q = P[i]
  BY DEF PointsOf
<1>2. P[e] \in S /\ P[e].raw \in Int
  BY DEF PointsOf, IsPoints
<1>3. ASSUME NEW q \in S
      PROVE  /\ q.raw \in Int
             /\ IF e = 1 /\ x < P[e].raw THEN x < P[e].raw /\ P[e].raw <= q.raw
                ELSE x > P[e].raw /\ q.raw <= P[e].raw
  <2>1. PICK i \in 1 .. Len(P) : q = P[i]
    BY <1>1
  <2>2. q.raw \in Int /\ i >= 1 /\ i <= Len(P) /\ Len(P) \in Nat
    BY <2>1 DEF IsPoints, IsList
  <2> QED BY <2>1, <2>2 DEF IsPoints
<1> HIDE DEF S
<1>4. P[e] \in NearestOf(S, x)
  BY <1>2, <1>3, NearestIs
<1>5. CASE e = 1 /\ x < P[e].raw
  <2>1. \A q \in S : q.raw \in Int /\ x < q.raw
    BY <1>2, <1>3, <1>5
  <2> QED BY <1>4, <1>5, <2>1 DEF SameOf, LowerOf, UpperOf, S
<1>6. CASE ~ (e = 1 /\ x < P[e].raw)
  <2>1. \A q \in S : q.raw \in Int /\ x > q.raw
    BY <1>2, <1>3, <1>6
  <2> QED BY <1>4, <1>6, <2>1 DEF SameOf, LowerOf, UpperOf, S
<1> QED BY <1>5, <1>6

\* A value beyond an end is on the spline.
LEMMA BeyondIs ==
  ASSUME NEW s, IsPoints(s.points), NEW x \in Int, s.order \in Nat,
         NEW e \in 1 .. Len(s.points), NEW o, NEW value,
         \/ e = 1 /\ x < s.points[e].raw /\ o = 2
         \/ e = Len(s.points) /\ x > s.points[e].raw /\ o = Len(s.points) - 1,
         IF s.order = 0 \/ Len(s.points) < 2 THEN value = Value(s.points[e].cal)
         ELSE value = IF x < s.points[e].raw THEN Line(x, s.points[e], s.points[o])
                      ELSE Line(x, s.points[o], s.points[e])
  PROVE  OuterOf(PointsOf(s.points), x) /\ OnSpline(s, x, value)
<1> DEFINE P == s.points
           S == PointsOf(P)
           first == e = 1 /\ x < P[e].raw
<1>1. /\ P[e] \in NearestOf(S, x) /\ SameOf(S, x) = {}
      /\ IF first THEN LowerOf(S, x) = {} /\ UpperOf(S, x) = S
         ELSE UpperOf(S, x) = {} /\ LowerOf(S, x) = S
  BY EndIsNearest
<1>2. OuterOf(S, x)
  BY <1>1 DEF OuterOf
<1>3. P[e].raw \in Int /\ P[e].cal \in Int /\ Len(P) \in Nat /\ P[e] \in S
  BY DEF IsPoints, IsList, PointsOf
<1>4. s.order = 0 => Exactly(value, P[e].cal)
  BY <1>3, ConstantIs
<1>5. (IF LowerOf(S, x) # {} THEN LowerOf(S, x) ELSE UpperOf(S, x)) = S
  BY <1>1, <1>3
<1>6. ASSUME s.order = 1, Cardinality({p.raw : p \in S}) = Len(P), Len(P) # 1
      PROVE  \E p \in NearestOf(S, x), q \in NearestOf(S \ NearestOf(S, x), x) :
               IF p.raw < q.raw THEN OnLine(value, x, p, q) ELSE OnLine(value, x, q, p)
  <2>1. Len(P) >= 2 /\ o \in 1 .. Len(P) /\ o # e
    <3>1. e \in Nat /\ 1 <= e /\ e <= Len(P) /\ Len(P) \in Nat /\ Len(P) # 1
      BY <1>3, <1>6
    <3>2. \A k, m \in Nat : 1 <= m /\ m <= k /\ k # 1 => k >= 2
      OBVIOUS
    <3>3. Len(P) >= 2
      BY <3>1, <3>2
    <3>4. CASE e = 1 /\ o = 2
      BY <3>3, <3>4
    <3>5. CASE e = Len(P) /\ o = Len(P) - 1
      BY <3>1, <3>3, <3>5
    <3> QED BY <3>3, <3>4, <3>5
  <2>2. /\ \A i, j \in 1 .. Len(P) : i # j => P[i].raw # P[j].raw
        /\ \A i \in 1 .. Len(P) : P[i].raw \in Int /\ P[i].cal \in Int
        /\ \A i, j \in 1 .. Len(P) : i <= j => P[i].raw <= P[j].raw
    BY <1>6, PointsDiffer DEF IsPoints
  <2>3. ASSUME NEW q \in S
        PROVE  \E i \in 1 .. Len(P) : q = P[i] /\ (i = e <=> q = P[e])
    BY <2>2 DEF PointsOf
  <2>4. ASSUME NEW q \in S, q # P[e] PROVE q \notin NearestOf(S, x)
    <3>1. PICK i \in 1 .. Len(P) : q = P[i] /\ i # e
      BY <2>3, <2>4
    <3>2. (x <= P[e].raw /\ P[e].raw < q.raw) \/ (q.raw < P[e].raw /\ P[e].raw <= x)
      <4>1. P[i].raw # P[e].raw /\ P[i].raw \in Int
        BY <2>2, <3>1
      <4>2. CASE e = 1 /\ x < P[e].raw
        <5>1. P[e].raw <= P[i].raw
          BY <2>2, <4>2
        <5> QED BY <1>3, <3>1, <4>1, <4>2, <5>1
      <4>3. CASE e = Len(P) /\ x > P[e].raw
        <5>1. P[i].raw <= P[e].raw
          BY <2>2, <4>3
        <5> QED BY <1>3, <3>1, <4>1, <4>3, <5>1
      <4> QED BY <4>2, <4>3
    <3>3. q.raw \in Int
      BY <2>2, <3>1
    <3>4. ~ ((q.raw - x) * (q.raw - x) <= (P[e].raw - x) * (P[e].raw - x))
      BY <1>3, <3>2, <3>3, Farther
    <3> QED BY <1>3, <3>4 DEF NearestOf
  <2>5. S \ NearestOf(S, x) = S \ {P[e]}
    <3>1. NearestOf(S, x) \subseteq S
      BY DEF NearestOf
    <3> QED BY <1>1, <2>4, <3>1
  <2>6. P[o] \in S \ {P[e]}
    BY <2>1, <2>2 DEF PointsOf
  <2>7. ASSUME NEW q \in S \ {P[e]}
        PROVE  q.raw \in Int /\ ((x <= P[o].raw /\ P[o].raw <= q.raw) \/ (q.raw <= P[o].raw /\ P[o].raw <= x))
    <3>1. PICK i \in 1 .. Len(P) : q = P[i] /\ i # e
      BY <2>3
    <3>2. P[i].raw \in Int /\ P[o].raw \in Int
      BY <2>1, <2>2
    <3>3. CASE e = 1 /\ x < P[e].raw /\ o = 2
      <4>1. P[e].raw <= P[o].raw /\ P[o].raw <= P[i].raw
        BY <2>1, <2>2, <3>1, <3>3
      <4> QED BY <1>3, <3>1, <3>2, <3>3, <4>1
    <3>4. CASE e = Len(P) /\ x > P[e].raw /\ o = Len(P) - 1
      <4>0. o <= e /\ i <= o
        BY <1>3, <2>1, <3>1, <3>4
      <4>1. P[o].raw <= P[e].raw /\ P[i].raw <= P[o].raw
        BY <2>1, <2>2, <3>1, <4>0
      <4> QED BY <1>3, <3>1, <3>2, <3>4, <4>1
    <3> QED BY <3>3, <3>4
  <2>8. P[o].raw \in Int /\ P[o].cal \in Int /\ P[o].raw # P[e].raw
    BY <2>1, <2>2
  <2>9. P[o] \in NearestOf(S \ {P[e]}, x)
    <3> HIDE DEF P, S
    <3> QED BY <2>6, <2>7, <2>8, NearestIs
  <2>10. IF P[e].raw < P[o].raw THEN OnLine(value, x, P[e], P[o]) ELSE OnLine(value, x, P[o], P[e])
    <3>1. CASE e = 1 /\ x < P[e].raw /\ o = 2
      <4>1. P[e].raw <= P[o].raw
        BY <2>1, <2>2, <3>1
      <4>2. value = Line(x, P[e], P[o])
        BY <1>6, <2>1, <3>1
      <4>3. P[e].raw < P[o].raw
        BY <1>3, <2>8, <4>1
      <4>4. OnLine(Line(x, P[e], P[o]), x, P[e], P[o])
        BY <1>3, <2>8, LineIs
      <4> QED BY <4>2, <4>3, <4>4
    <3>2. CASE e = Len(P) /\ x > P[e].raw /\ o = Len(P) - 1
      <4>1. o <= e
        BY <1>3, <3>2
      <4>2. P[o].raw <= P[e].raw
        BY <2>1, <2>2, <4>1
      <4>3. value = Line(x, P[o], P[e])
        BY <1>3, <1>6, <2>1, <3>2
      <4>4. ~ (P[e].raw < P[o].raw)
        BY <1>3, <2>8, <4>2
      <4>5. OnLine(Line(x, P[o], P[e]), x, P[o], P[e])
        BY <1>3, <2>8, LineIs
      <4> QED BY <4>3, <4>4, <4>5
    <3> QED BY <3>1, <3>2
  <2> QED BY <1>1, <2>5, <2>9, <2>10
<1> HIDE DEF P, S
<1>7. (LET T == PointsOf(s.points) IN T) = S
  BY DEF S, P
<1> QED BY <1>1, <1>2, <1>4, <1>5, <1>6 DEF OnSpline, S, P

\* A query within the points.
LEMMA WithinIs ==
  ASSUME NEW s, IsPoints(s.points), NEW x \in Int, s.order \in Nat, s.order <= 1,
         Len(s.points) # 0, s.points[1].raw <= x, x <= s.points[Len(s.points)].raw,
         NEW h, h = Hi(s.points, x), NEW value,
         IF s.order = 0 THEN value = Value(s.points[h].cal)
         ELSE IF Len(s.points) < 2 THEN value = Value(s.points[1].cal)
         ELSE IF h < Len(s.points) THEN value = Line(x, s.points[h], s.points[h + 1])
         ELSE value = Line(x, s.points[h - 1], s.points[h])
  PROVE  ~ OuterOf(PointsOf(s.points), x) /\ OnSpline(s, x, value)
<1> DEFINE P == s.points
           S == PointsOf(P)
           n == Len(P)
<1>1. /\ h \in 1 .. n /\ P[h].raw <= x
      /\ \A i \in 1 .. n : P[i].raw <= x => i <= h
  BY HiIs
<1>2. /\ n \in Nat /\ n # 0
      /\ \A i \in 1 .. n : P[i].raw \in Int /\ P[i].cal \in Int /\ P[i] \in S
      /\ \A i, j \in 1 .. n : i <= j => P[i].raw <= P[j].raw
      /\ \A q \in S : \E i \in 1 .. n : q = P[i]
  BY DEF IsPoints, IsList, PointsOf
<1>3. P[1].raw <= x /\ x <= P[n].raw /\ h \in Nat /\ 1 <= h /\ h <= n
  BY <1>1, <1>2
<1>0. /\ (s.order = 0 => value = Value(P[h].cal))
      /\ (s.order = 1 /\ n < 2 => value = Value(P[1].cal))
      /\ (s.order = 1 /\ ~ (n < 2) /\ h < n => value = Line(x, P[h], P[h + 1]))
      /\ (s.order = 1 /\ ~ (n < 2) /\ ~ (h < n) => value = Line(x, P[h - 1], P[h]))
  OBVIOUS
<1> HIDE DEF P, S, n
<1>4. ASSUME h < n PROVE h + 1 \in 1 .. n /\ x < P[h + 1].raw
  <2>1. h + 1 \in 1 .. n /\ ~ (h + 1 <= h)
    BY <1>2, <1>3, <1>4
  <2>2. P[h + 1].raw \in Int /\ ~ (P[h + 1].raw <= x)
    BY <1>1, <1>2, <2>1
  <2> QED BY <2>1, <2>2
<1>5. ASSUME ~ (h < n) PROVE h = n /\ P[h].raw = x
  <2>1. h = n
    BY <1>2, <1>3, <1>5
  <2>2. P[h].raw \in Int
    BY <1>1, <1>2
  <2> QED BY <1>1, <1>3, <2>1, <2>2
<1>6. ASSUME SameOf(S, x) # {} PROVE P[h].raw = x
  <2>1. PICK q \in S : q.raw = x
    BY <1>6 DEF SameOf
  <2>2. PICK i \in 1 .. n : q = P[i]
    BY <1>2
  <2>3. P[i].raw <= x /\ i <= h
    BY <1>1, <2>1, <2>2
  <2>4. P[i].raw <= P[h].raw /\ P[h].raw \in Int
    BY <1>1, <1>2, <2>3
  <2> QED BY <1>1, <2>1, <2>2, <2>4
<1>7. ASSUME P[h].raw = x PROVE P[h] \in SameOf(S, x)
  BY <1>1, <1>2, <1>7 DEF SameOf
<1>8. ASSUME SameOf(S, x) = {} PROVE h < n /\ P[h].raw < x
  <2>1. P[h].raw # x
    BY <1>7, <1>8
  <2>2. P[h].raw \in Int
    BY <1>1, <1>2
  <2> QED BY <1>1, <1>5, <2>1, <2>2
<1>9. ASSUME SameOf(S, x) = {}
      PROVE  /\ P[h] \in NearestOf(LowerOf(S, x), x)
             /\ P[h + 1] \in NearestOf(UpperOf(S, x), x)
  <2>1. P[h].raw < x /\ x < P[h + 1].raw /\ h + 1 \in 1 .. n
    BY <1>4, <1>8, <1>9
  <2>2. P[h] \in LowerOf(S, x) /\ P[h + 1] \in UpperOf(S, x)
    BY <1>1, <1>2, <2>1 DEF LowerOf, UpperOf
  <2>3. P[h].raw \in Int /\ P[h + 1].raw \in Int
    BY <1>1, <1>2, <2>1
  <2>4. ASSUME NEW q \in LowerOf(S, x)
        PROVE  q.raw \in Int /\ q.raw <= P[h].raw /\ P[h].raw <= x
    <3>1. PICK i \in 1 .. n : q = P[i]
      BY <1>2 DEF LowerOf
    <3>2. q.raw \in Int /\ q.raw < x
      BY <1>2, <3>1 DEF LowerOf
    <3>3. i <= h
      BY <1>1, <3>1, <3>2
    <3> QED BY <1>1, <1>2, <3>1, <3>2, <3>3
  <2>5. ASSUME NEW q \in UpperOf(S, x)
        PROVE  q.raw \in Int /\ x <= P[h + 1].raw /\ P[h + 1].raw <= q.raw
    <3>1. PICK i \in 1 .. n : q = P[i]
      BY <1>2 DEF UpperOf
    <3>2. q.raw \in Int /\ q.raw > x
      BY <1>2, <3>1 DEF UpperOf
    <3>3. ~ (i <= h)
      <4>1. ASSUME i <= h PROVE FALSE
        <5>1. P[i].raw <= P[h].raw
          BY <1>1, <1>2, <4>1
        <5> QED BY <1>1, <2>3, <3>1, <3>2, <5>1
      <4> QED BY <4>1
    <3>4. h + 1 <= i
      BY <1>3, <3>3
    <3> QED BY <1>2, <2>1, <2>3, <3>1, <3>2, <3>4
  <2> QED BY <2>2, <2>3, <2>4, <2>5, NearestIs
<1>10. ~ OuterOf(S, x)
  <2>1. ASSUME SameOf(S, x) = {} PROVE LowerOf(S, x) # {} /\ UpperOf(S, x) # {}
    BY <1>9, <2>1 DEF NearestOf
  <2> QED BY <2>1 DEF OuterOf
<1>11. ASSUME s.order = 0 PROVE Exactly(value, P[h].cal)
  BY <1>0, <1>1, <1>2, <1>11, ConstantIs
<1>12. ASSUME SameOf(S, x) # {}, s.order = 1 PROVE \E p \in SameOf(S, x) : Exactly(value, p.cal)
  <2>1. P[h].raw = x /\ P[h] \in SameOf(S, x)
    BY <1>6, <1>7, <1>12
  <2>2. P[h].raw \in Int /\ P[h].cal \in Int
    BY <1>1, <1>2
  <2>3. CASE n < 2
    <3>1. h = 1 /\ value = Value(P[1].cal)
      BY <1>0, <1>2, <1>3, <1>12, <2>3
    <3> QED BY <2>1, <2>2, <3>1, ConstantIs
  <2>4. CASE ~ (n < 2) /\ h < n
    <3>1. value = Line(x, P[h], P[h + 1])
      BY <1>0, <1>12, <2>4
    <3>2. P[h + 1].raw \in Int /\ P[h + 1].cal \in Int
      BY <1>2, <1>4, <2>4
    <3>3. Exactly(Line(x, P[h], P[h + 1]), P[h].cal)
      BY <2>1, <2>2, <3>2, LineIs
    <3> QED BY <2>1, <3>1, <3>3
  <2>5. CASE ~ (n < 2) /\ ~ (h < n)
    <3>1. value = Line(x, P[h - 1], P[h])
      BY <1>0, <1>12, <2>5
    <3>2. h - 1 \in 1 .. n
      BY <1>2, <1>5, <2>5
    <3>3. P[h - 1].raw \in Int /\ P[h - 1].cal \in Int /\ P[h - 1] \in S
      BY <1>2, <3>2
    <3>4. CASE P[h - 1].raw = P[h].raw
      <4>1. Exactly(Line(x, P[h - 1], P[h]), P[h - 1].cal)
        BY <2>2, <3>3, <3>4, LineIs
      <4>2. P[h - 1] \in SameOf(S, x)
        BY <2>1, <3>3, <3>4 DEF SameOf
      <4> QED BY <3>1, <4>1, <4>2
    <3>5. CASE P[h - 1].raw # P[h].raw
      <4>1. Exactly(Line(x, P[h - 1], P[h]), P[h].cal)
        BY <2>1, <2>2, <3>3, <3>5, LineIs
      <4> QED BY <2>1, <3>1, <4>1
    <3> QED BY <3>4, <3>5
  <2> QED BY <2>3, <2>4, <2>5
<1>13. ASSUME SameOf(S, x) = {}, s.order = 1
       PROVE  \E p \in NearestOf(LowerOf(S, x), x), q \in NearestOf(UpperOf(S, x), x) : OnLine(value, x, p, q)
  <2>1. h < n /\ P[h].raw < x /\ x < P[h + 1].raw /\ h + 1 \in 1 .. n
    BY <1>4, <1>8, <1>13
  <2>2. /\ P[h].raw \in Int /\ P[h].cal \in Int
        /\ P[h + 1].raw \in Int /\ P[h + 1].cal \in Int
    BY <1>1, <1>2, <2>1
  <2>3. value = Line(x, P[h], P[h + 1])
    <3>1. ~ (n < 2)
      BY <1>2, <1>3, <2>1
    <3> QED BY <1>0, <1>13, <2>1, <3>1
  <2>4. P[h].raw # P[h + 1].raw
    BY <2>1, <2>2
  <2>5. OnLine(Line(x, P[h], P[h + 1]), x, P[h], P[h + 1])
    BY <2>2, <2>4, LineIs
  <2> QED BY <1>9, <1>13, <2>3, <2>5
<1>14. ASSUME SameOf(S, x) # {} PROVE \E p \in SameOf(S, x) : Exactly(value, p.cal)
  <2>1. s.order = 0 \/ s.order = 1
    OBVIOUS
  <2>2. CASE s.order = 0
    BY <1>6, <1>7, <1>11, <1>14, <2>2
  <2> QED BY <1>12, <1>14, <2>1, <2>2
<1>15. ASSUME SameOf(S, x) = {}, s.order = 0
       PROVE  \E p \in NearestOf(IF LowerOf(S, x) # {} THEN LowerOf(S, x) ELSE UpperOf(S, x), x) :
                Exactly(value, p.cal)
  <2>1. P[h] \in NearestOf(LowerOf(S, x), x)
    BY <1>9, <1>15
  <2>2. LowerOf(S, x) # {}
    BY <2>1 DEF NearestOf
  <2> QED BY <1>11, <1>15, <2>1, <2>2
<1>16. OnSpline(s, x, value)
  BY <1>10, <1>13, <1>14, <1>15 DEF OnSpline, S, P
<1> QED BY <1>10, <1>16 DEF S, P

\* What the interpreter answers of a sorted spline.
SplineRight(s, x, answer) ==
  LET S == PointsOf(s.points) IN
  /\ answer.error = "none" <=> S # {} /\ s.order <= 1 /\ (OuterOf(S, x) => s.extrapolate)
  /\ answer.error = "none" => OnSpline(s, x, answer.value)

\* The interpreter's answer.
LEMMA InterpolateIs ==
  ASSUME NEW s, IsPoints(s.points), NEW x \in Int, s.order \in Nat, s.extrapolate \in BOOLEAN
  PROVE  SplineRight(s, x, Interpolate(s, x))
<1> DEFINE P == s.points
           S == PointsOf(P)
           n == Len(P)
           h == Hi(P, x)
           upper == IF h + 1 < n THEN h + 1 ELSE n
           answer == Interpolate(s, x)
<1>1. n \in Nat /\ (P = <<>> <=> n = 0) /\ Head(P) = P[1] /\ (n # 0 => Last(P) = P[n])
  BY DEF IsPoints, IsList, Last
<1>2. CASE n = 0
  <2>1. P = <<>>
    BY <1>1, <1>2
  <2>2. answer.error = "EmptySpline" /\ answer.error # "none"
    BY <2>1 DEF Interpolate, Failed
  <2>3. S = {}
    BY <1>2 DEF PointsOf
  <2> HIDE DEF answer, S
  <2>4. SplineRight(s, x, answer)
    BY <2>2, <2>3 DEF SplineRight, S
  <2> QED BY <2>4 DEF answer
<1>3. CASE n # 0
  <2>1. /\ \A i \in 1 .. n : P[i].raw \in Int /\ P[i].cal \in Int /\ P[i] \in S
        /\ 1 \in 1 .. n /\ n \in 1 .. n /\ P # <<>>
    BY <1>1, <1>3 DEF IsPoints, PointsOf
  <2>2. P[1].raw \in Int /\ P[n].raw \in Int /\ S # {}
    BY <2>1
  <2>3. answer =
          IF x < P[1].raw \/ x > P[n].raw
          THEN IF ~ s.extrapolate THEN Failed("OutsideSplineRange")
               ELSE IF x < P[1].raw THEN Beyond(s, x, P[1], P[1], P[2])
               ELSE Beyond(s, x, P[n], P[n - 1], P[n])
          ELSE CASE s.order = 0 -> Found(Value(P[h].cal))
                 [] s.order = 1 ->
                      Found(IF n < 2 THEN Value(P[1].cal) ELSE Line(x, P[upper - 1], P[upper]))
                 [] OTHER -> Failed("UnsupportedOrder")
    <3> HIDE DEF h
    <3> QED BY <1>1, <1>3, <2>1 DEF Interpolate, h
  <2>4. CASE x < P[1].raw \/ x > P[n].raw
    <3> DEFINE e == IF x < P[1].raw THEN 1 ELSE n
               o == IF x < P[1].raw THEN 2 ELSE n - 1
               line == IF x < P[e].raw THEN Line(x, P[e], P[o]) ELSE Line(x, P[o], P[e])
               value == IF s.order = 0 \/ n < 2 THEN Value(P[e].cal) ELSE line
    <3>1. /\ e \in 1 .. n
          /\ \/ e = 1 /\ x < P[e].raw /\ o = 2
             \/ e = n /\ x > P[e].raw /\ o = n - 1
      BY <2>1, <2>4
    <3>2. answer = IF ~ s.extrapolate THEN Failed("OutsideSplineRange")
                   ELSE IF s.order <= 1 THEN Found(value) ELSE Failed("UnsupportedOrder")
      <4>1. CASE x < P[1].raw
        <5>1. Beyond(s, x, P[1], P[1], P[2]) =
                IF s.order <= 1 THEN Found(value) ELSE Failed("UnsupportedOrder")
          <6>1. e = 1 /\ o = 2 /\ line = Line(x, P[1], P[2])
            BY <4>1
          <6> HIDE DEF e, o, line
          <6>2. value = IF s.order = 0 \/ n < 2 THEN Value(P[1].cal) ELSE Line(x, P[1], P[2])
            BY <6>1
          <6> HIDE DEF value
          <6>3. s.order = 0 \/ s.order = 1 \/ (s.order # 0 /\ s.order # 1 /\ ~ (s.order <= 1))
            OBVIOUS
          <6> QED BY <6>2, <6>3 DEF Beyond
        <5> HIDE DEF value, answer
        <5> QED BY <2>3, <4>1, <5>1
      <4>2. CASE ~ (x < P[1].raw)
        <5>1. Beyond(s, x, P[n], P[n - 1], P[n]) =
                IF s.order <= 1 THEN Found(value) ELSE Failed("UnsupportedOrder")
          <6>1. e = n /\ o = n - 1
            BY <4>2
          <6>2. x > P[n].raw /\ ~ (x < P[n].raw)
            BY <2>2, <2>4, <4>2
          <6>3. line = Line(x, P[n - 1], P[n])
            BY <6>1, <6>2
          <6> HIDE DEF e, o, line
          <6>4. value = IF s.order = 0 \/ n < 2 THEN Value(P[n].cal) ELSE Line(x, P[n - 1], P[n])
            BY <6>1, <6>3
          <6> HIDE DEF value
          <6>5. s.order = 0 \/ s.order = 1 \/ (s.order # 0 /\ s.order # 1 /\ ~ (s.order <= 1))
            OBVIOUS
          <6> QED BY <6>4, <6>5 DEF Beyond
        <5> HIDE DEF value, answer
        <5> QED BY <2>3, <2>4, <4>2, <5>1
      <4> QED BY <4>1, <4>2
    <3>3. IF s.order = 0 \/ n < 2 THEN value = Value(P[e].cal) ELSE value = line
      OBVIOUS
    <3>4. OuterOf(S, x) /\ OnSpline(s, x, value)
      <4> HIDE DEF value, e, o
      <4>1. e \in 1 .. n
        BY <3>1
      <4> QED BY <3>1, <3>3, <4>1, BeyondIs
    <3> HIDE DEF value, answer, S
    <3>5. answer.error = "none" <=> s.extrapolate /\ s.order <= 1
      BY <3>2 DEF Failed, Found
    <3>6. answer.error = "none" => answer.value = value
      BY <3>2 DEF Failed, Found
    <3>7. answer.error = "none" => OnSpline(s, x, answer.value)
      BY <3>4, <3>6
    <3>8. SplineRight(s, x, answer)
      BY <2>2, <3>4, <3>5, <3>7 DEF SplineRight, S
    <3> QED BY <3>8 DEF answer
  <2>5. CASE ~ (x < P[1].raw \/ x > P[n].raw)
    <3>1. P[1].raw <= x /\ x <= P[n].raw
      BY <2>2, <2>5
    <3>2. h \in 1 .. n
      BY <1>3, <3>1, HiIs
    <3> HIDE DEF h
    <3> DEFINE value == IF s.order = 0 THEN Value(P[h].cal)
                        ELSE IF n < 2 THEN Value(P[1].cal) ELSE Line(x, P[upper - 1], P[upper])
    <3>3. answer = IF s.order <= 1 THEN Found(value) ELSE Failed("UnsupportedOrder")
      <4>1. s.order = 0 \/ s.order = 1 \/ (s.order # 0 /\ s.order # 1 /\ ~ (s.order <= 1))
        OBVIOUS
      <4> HIDE DEF answer, upper
      <4> QED BY <2>3, <2>5, <4>1
    <3>4. IF s.order = 0 THEN value = Value(P[h].cal)
          ELSE IF n < 2 THEN value = Value(P[1].cal)
          ELSE IF h < n THEN value = Line(x, P[h], P[h + 1])
          ELSE value = Line(x, P[h - 1], P[h])
      <4>1. h < n => upper = h + 1 /\ upper - 1 = h
        BY <1>1, <3>2
      <4>2. ~ (h < n) => upper = h /\ upper - 1 = h - 1
        BY <1>1, <3>2
      <4> HIDE DEF upper
      <4> QED BY <4>1, <4>2
    <3> HIDE DEF value, answer
    <3>5. ASSUME s.order <= 1 PROVE ~ OuterOf(S, x) /\ OnSpline(s, x, value)
      BY <1>3, <3>1, <3>4, <3>5, WithinIs DEF h
    <3> HIDE DEF S
    <3>6. answer.error = "none" <=> s.order <= 1
      BY <3>3 DEF Failed, Found
    <3>7. answer.error = "none" => answer.value = value
      BY <3>3 DEF Failed, Found
    <3>8. SplineRight(s, x, answer)
      BY <2>2, <3>5, <3>6, <3>7 DEF SplineRight, S
    <3> QED BY <3>8 DEF answer
  <2> QED BY <2>4, <2>5
<1> QED BY <1>2, <1>3

\* The compiled spline answers the same, refusals included.
CompiledAgrees(compiled, answer) ==
  /\ (compiled.error = "none") = (answer.error = "none")
  /\ compiled.error = "none" => compiled.value = answer.value

LEMMA SplineValueAgrees ==
  ASSUME NEW s, IsPoints(s.points), NEW x \in Int, s.order \in Nat, s.extrapolate \in BOOLEAN,
         Compilable(s)
  PROVE  CompiledAgrees(SplineValue(s.points, s.order, s.extrapolate, x), Interpolate(s, x))
<1> DEFINE P == s.points
           n == Len(P)
           h == Hi(P, x)
           up == IF h + 1 < n THEN h + 1 ELSE n
           mid == IF h < n - 1 THEN h ELSE n - 1
           compiled == SplineValue(s.points, s.order, s.extrapolate, x)
           answer == Interpolate(s, x)
<1>1. /\ n \in Nat /\ n # 0 /\ P # <<>> /\ Head(P) = P[1] /\ Last(P) = P[n]
      /\ (s.order = 0 \/ s.order = 1)
  BY DEF IsPoints, IsList, Last, Compilable
<1>2. P[1].raw \in Int /\ P[n].raw \in Int
  BY <1>1 DEF IsPoints
<1>3. CASE x < P[1].raw
  <2>1. compiled = IF ~ s.extrapolate THEN Failed("Calibration")
                   ELSE Found(IF s.order = 0 \/ n < 2 THEN Value(P[1].cal) ELSE Line(x, P[1], P[2]))
    BY <1>1, <1>3 DEF SplineValue
  <2>2. answer = IF ~ s.extrapolate THEN Failed("OutsideSplineRange")
                 ELSE Beyond(s, x, P[1], P[1], P[2])
    BY <1>1, <1>3 DEF Interpolate
  <2>3. Beyond(s, x, P[1], P[1], P[2]) =
          Found(IF s.order = 0 \/ n < 2 THEN Value(P[1].cal) ELSE Line(x, P[1], P[2]))
    BY <1>1 DEF Beyond
  <2> DEFINE v == Found(IF s.order = 0 \/ n < 2 THEN Value(P[1].cal) ELSE Line(x, P[1], P[2]))
  <2>4. v.error = "none"
    BY DEF Found
  <2> HIDE DEF compiled, answer
  <2>5. CompiledAgrees(compiled, answer)
    BY <2>1, <2>2, <2>3, <2>4 DEF CompiledAgrees, Failed
  <2> QED BY <2>5 DEF compiled, answer
<1>4. CASE ~ (x < P[1].raw) /\ x > P[n].raw
  <2>1. compiled = IF ~ s.extrapolate THEN Failed("Calibration")
                   ELSE Found(IF s.order = 0 \/ n < 2 THEN Value(P[n].cal) ELSE Line(x, P[n - 1], P[n]))
    BY <1>1, <1>4 DEF SplineValue
  <2>2. answer = IF ~ s.extrapolate THEN Failed("OutsideSplineRange")
                 ELSE Beyond(s, x, P[n], P[n - 1], P[n])
    BY <1>1, <1>4 DEF Interpolate
  <2>3. Beyond(s, x, P[n], P[n - 1], P[n]) =
          Found(IF s.order = 0 \/ n < 2 THEN Value(P[n].cal) ELSE Line(x, P[n - 1], P[n]))
    BY <1>1 DEF Beyond
  <2> DEFINE v == Found(IF s.order = 0 \/ n < 2 THEN Value(P[n].cal) ELSE Line(x, P[n - 1], P[n]))
  <2>4. v.error = "none"
    BY DEF Found
  <2> HIDE DEF compiled, answer
  <2>5. CompiledAgrees(compiled, answer)
    BY <2>1, <2>2, <2>3, <2>4 DEF CompiledAgrees, Failed
  <2> QED BY <2>5 DEF compiled, answer
<1>5. CASE ~ (x < P[1].raw) /\ ~ (x > P[n].raw)
  <2>1. h \in 1 .. n
    <3>1. P[1].raw <= x
      BY <1>2, <1>5
    <3> QED BY <1>1, <3>1, HiIs
  <2>2. up - 1 = mid /\ up = mid + 1
    <3> HIDE DEF h
    <3> QED BY <1>1, <2>1
  <2> HIDE DEF h
  <2>3. compiled = IF s.order = 0 THEN Found(Value(P[h].cal))
                   ELSE IF n < 2 THEN Found(Value(P[1].cal))
                   ELSE Found(Line(x, P[mid], P[mid + 1]))
    BY <1>1, <1>5 DEF SplineValue, h
  <2>4. answer = CASE s.order = 0 -> Found(Value(P[h].cal))
                   [] s.order = 1 ->
                        Found(IF n < 2 THEN Value(P[1].cal) ELSE Line(x, P[up - 1], P[up]))
                   [] OTHER -> Failed("UnsupportedOrder")
    BY <1>1, <1>5 DEF Interpolate, h
  <2> HIDE DEF compiled, answer, up, mid
  <2>5. answer = compiled
    BY <1>1, <2>2, <2>3, <2>4
  <2>6. CompiledAgrees(compiled, answer)
    BY <2>5 DEF CompiledAgrees
  <2> QED BY <2>6 DEF compiled, answer
<1> QED BY <1>3, <1>4, <1>5

\* Every call leaves the splines right.
LEMMA SplinesStep ==
  ASSUME SplineInterpolates, [Next]_vars
  PROVE  SplineInterpolates'
<1>1. CASE UNCHANGED vars
  <2>1. call' = call
    BY <1>1 DEF vars
  <2> QED BY <2>1 DEF SplineInterpolates, Exactly, OnLine
<1>2. CASE call'.op # "spline"
  BY <1>2 DEF SplineInterpolates
<1>3. ASSUME NEW s \in SplineSet, NEW x \in Queries, Calibrate(s, x) PROVE SplineInterpolates'
  <2> DEFINE answer == Interpolate(s, x)
             value == SplineValue(s.points, s.order, s.extrapolate, x)
             compiled == IF Compilable(s) THEN {value} ELSE {}
  <2>1. /\ call'.op = "spline" /\ call'.spline = s /\ call'.query = x
        /\ call'.answer = answer /\ call'.compiled = compiled
    BY <1>3 DEF Calibrate
  <2>2. /\ s.points \in Seq([raw : Int, cal : Int]) /\ x \in Int
        /\ s.order \in Nat /\ s.extrapolate \in BOOLEAN
        /\ \A i, j \in DOMAIN s.points : i <= j => s.points[i].raw <= s.points[j].raw
    BY SplinesAssumption
  <2>3. IsPoints(s.points) /\ ToSet(s.points) = PointsOf(s.points)
    <3>1. DOMAIN s.points = 1 .. Len(s.points) /\ Len(s.points) \in Nat
      BY <2>2
    <3>2. \A i \in 1 .. Len(s.points) : s.points[i] \in [raw : Int, cal : Int]
      BY <2>2, ElementOfSeq
    <3>3. s.points = [i \in 1 .. Len(s.points) |-> s.points[i]]
      BY <2>2
    <3> QED BY <2>2, <3>1, <3>2, <3>3 DEF IsPoints, IsList, PointsOf, ToSet
  <2>4. SplineRight(s, x, answer)
    BY <2>2, <2>3, InterpolateIs
  <2>5. \A c \in compiled : CompiledAgrees(c, answer)
    <3>1. ASSUME Compilable(s) PROVE CompiledAgrees(value, answer)
      BY <2>2, <2>3, <3>1, SplineValueAgrees
    <3> HIDE DEF value, answer
    <3> QED BY <3>1
  <2> DEFINE S == PointsOf(s.points)
             outside == OuterOf(S, x)
             v == answer.value
  <2>6. answer.error = "none" <=> S # {} /\ s.order <= 1 /\ (outside => s.extrapolate)
    BY <2>4 DEF SplineRight
  <2>7. answer.error = "none" => OnSpline(s, x, v)
    BY <2>4 DEF SplineRight
  <2>8. \A c \in compiled :
          /\ (c.error = "none") = (answer.error = "none")
          /\ c.error = "none" => c.value = v
    BY <2>5 DEF CompiledAgrees
  <2> HIDE DEF answer, compiled, S
  <2>9. ToSet(s.points) = S
    BY <2>3 DEF S
  <2>10. SplineInterpolates' <=>
           /\ answer.error = "none" <=> S # {} /\ s.order <= 1 /\ (outside => s.extrapolate)
           /\ answer.error = "none" => OnSpline(s, x, v)
           /\ \A c \in compiled :
                /\ (c.error = "none") = (answer.error = "none")
                /\ c.error = "none" => c.value = v
    BY <2>1, <2>9
    DEF SplineInterpolates, OnSpline, LowerOf, UpperOf, SameOf, NearestOf, OuterOf, Exactly, OnLine, S
  <2> QED BY <2>6, <2>7, <2>8, <2>10
<1>4. ASSUME NEW p \in Positions, call = NoCall, Seek(p) PROVE SplineInterpolates'
  <2>1. call'.op = "none"
    BY <1>4 DEF Seek, NoCall
  <2> QED BY <1>2, <2>1
<1>5. ASSUME NEW width, Skip(width) \/ PeekNext(width) \/ ReadUint(width) \/ ReadBits(width)
      PROVE  SplineInterpolates'
  <2>1. call'.op \in {"skip", "peek", "uint", "bytes", "text"}
    BY <1>5 DEF Skip, PeekNext, ReadUint, ReadBits, Read
  <2> QED BY <1>2, <2>1
<1>6. ASSUME NEW width, NEW coding, NEW swapped, ReadField(width, coding, swapped)
      PROVE  SplineInterpolates'
  <2>1. call'.op = "field"
    BY <1>6 DEF ReadField
  <2> QED BY <1>2, <2>1
<1>7. ASSUME NEW width, AlignFixed(width) PROVE SplineInterpolates'
  <2>1. call'.op = "fixed"
    BY <1>7 DEF AlignFixed
  <2> QED BY <1>2, <2>1
<1>8. ASSUME NEW buffer, NEW delimiter, NEW charset, NEW order,
             DecodeText(buffer, delimiter, charset, order)
      PROVE  SplineInterpolates'
  <2>1. call'.op = "string"
    BY <1>8 DEF DecodeText
  <2> QED BY <1>2, <2>1
<1>9. CASE Return
  <2>1. call'.op = "none"
    BY <1>9 DEF Return, NoCall
  <2> QED BY <1>2, <2>1
<1> QED BY <1>1, <1>3, <1>4, <1>5, <1>6, <1>7, <1>8, <1>9 DEF Next

\* Whatever the points of a spline, its order, whether it extrapolates and the
\* query, the interpreter's value lies on the spline, it refuses exactly the
\* queries it should, and the compiled spline answers the same (calibrate.rs
\* interpolate, emit.rs spline_value).
THEOREM SplinesAreRight == Spec => []SplineInterpolates
<1>1. Init => SplineInterpolates
  BY DEF Init, NoCall, SplineInterpolates
<1>2. SplineInterpolates /\ [Next]_vars => SplineInterpolates'
  BY SplinesStep
<1> QED BY <1>1, <1>2, PTL DEF Spec

(***************************************************************************)
(* Texts, for every buffer of bytes, delimiter and character set.  What    *)
(* decodes is a list of characters, one for each place that starts one;    *)
(* the bytes are cut at these places into pieces, each piece is what its   *)
(* character encodes to, and the pieces put together are the bytes.        *)
(***************************************************************************)
\* The places a list of m is cut at, into n pieces.
IsCut(e, n, m) ==
  /\ n \in Nat /\ m \in Nat
  /\ \A k \in 0 .. n : e[k] \in 0 .. m
  /\ e[0] = 0 /\ e[n] = m
  /\ \A k \in 1 .. n : e[k - 1] <= e[k]

\* A piece of a list.
IsPiece(s, w, from, upto) ==
  /\ IsList(s)
  /\ Len(s) = upto - from
  /\ \A i \in 1 .. Len(s) : s[i] = w[from + i]

\* A list cut into pieces is what they are flattened to.
LEMMA FlattenIs ==
  ASSUME NEW seqs, IsList(seqs), NEW w, IsList(w), NEW e, IsCut(e, Len(seqs), Len(w)),
         \A k \in 1 .. Len(seqs) : IsPiece(seqs[k], w, e[k - 1], e[k])
  PROVE  FlattenSeq(seqs) = w
<1> DEFINE n == Len(seqs)
           g == [k \in 1 .. n |-> [i \in 1 .. e[k] |-> w[i]]]
           Solves(f) == f = [i \in 1 .. n |-> IF i = 1 THEN seqs[i] ELSE f[i - 1] \o seqs[i]]
           flatten == CHOOSE f : Solves(f)
<1>1. /\ n \in Nat /\ Len(w) \in Nat
      /\ \A k \in 0 .. n : e[k] \in Nat
      /\ e[0] = 0 /\ e[n] = Len(w)
      /\ \A k \in 1 .. n : e[k - 1] <= e[k]
  BY DEF IsCut
<1>2. CASE n = 0
  <2>1. FlattenSeq(seqs) = seqs
    BY <1>2 DEF FlattenSeq
  <2>2. Len(w) = 0
    BY <1>1, <1>2
  <2>3. seqs = w
    BY <1>2, <2>2 DEF IsList
  <2> QED BY <2>1, <2>3
<1>3. CASE n # 0
  <2>1. FlattenSeq(seqs) = flatten[n]
    BY <1>3 DEF FlattenSeq
  <2> HIDE DEF flatten
  <2>2. ASSUME NEW k \in 1 .. n
        PROVE  g[k] = IF k = 1 THEN seqs[k] ELSE g[k - 1] \o seqs[k]
    <3> DEFINE s == seqs[k]
    <3>1. /\ IsList(s) /\ Len(s) = e[k] - e[k - 1]
          /\ \A i \in 1 .. Len(s) : s[i] = w[e[k - 1] + i]
      BY DEF IsPiece
    <3>2. e[k] \in Nat /\ e[k - 1] \in Nat /\ e[k - 1] <= e[k]
      BY <1>1
    <3> HIDE DEF s
    <3>3. CASE k = 1
      <4>1. Len(s) = e[1] /\ \A i \in 1 .. e[1] : s[i] = w[i]
        BY <1>1, <3>1, <3>2, <3>3
      <4>2. s = g[1]
        BY <1>3, <3>3, <4>1, <3>1 DEF IsList
      <4> QED BY <3>3, <4>2 DEF s
    <3>4. CASE k # 1
      <4> DEFINE r == g[k - 1]
                 t == r \o s
      <4>1. k - 1 \in 1 .. n
        BY <1>1, <3>4
      <4>2. r = [i \in 1 .. e[k - 1] |-> w[i]]
        BY <4>1
      <4>3. IsList(r) /\ Len(r) = e[k - 1] /\ \A i \in 1 .. e[k - 1] : r[i] = w[i]
        <5> HIDE DEF r
        <5> QED BY <3>2, <4>2 DEF IsList
      <4> HIDE DEF r
      <4>4. /\ IsList(t) /\ Len(t) = Len(r) + Len(s)
            /\ \A i \in 1 .. Len(r) : t[i] = r[i]
            /\ \A i \in 1 .. Len(s) : t[Len(r) + i] = s[i]
        <5>1. IsList(r)
          BY <4>3
        <5>2. IsList(s)
          BY <3>1
        <5> QED BY <5>1, <5>2, ListConcat
      <4> HIDE DEF t
      <4>5. Len(t) = e[k]
        BY <3>1, <3>2, <4>3, <4>4
      <4>6. ASSUME NEW i \in 1 .. e[k] PROVE t[i] = w[i]
        <5>1. CASE i <= e[k - 1]
          <6>1. i \in 1 .. e[k - 1]
            BY <3>2, <5>1
          <6> QED BY <4>3, <4>4, <6>1
        <5>2. CASE ~ (i <= e[k - 1])
          <6>1. i - e[k - 1] \in 1 .. Len(s) /\ e[k - 1] + (i - e[k - 1]) = i
            BY <3>1, <3>2, <5>2
          <6>2. t[e[k - 1] + (i - e[k - 1])] = w[e[k - 1] + (i - e[k - 1])]
            BY <3>1, <4>3, <4>4, <6>1
          <6> QED BY <6>1, <6>2
        <5> QED BY <5>1, <5>2
      <4>7. t = g[k]
        BY <4>4, <4>5, <4>6 DEF IsList
      <4> QED BY <3>4, <4>7 DEF t, r, s
    <3> QED BY <3>3, <3>4
  <2>3. Solves(g)
    <3>1. DOMAIN g = 1 .. n
      OBVIOUS
    <3> DEFINE h == [k \in 1 .. n |-> IF k = 1 THEN seqs[k] ELSE g[k - 1] \o seqs[k]]
    <3>2. \A k \in 1 .. n : g[k] = h[k]
      BY <2>2
    <3>3. g = h
      <4>1. g = [k \in 1 .. n |-> g[k]] /\ h = [k \in 1 .. n |-> h[k]]
        OBVIOUS
      <4> HIDE DEF g, h
      <4> QED BY <3>2, <4>1
    <3> QED BY <3>3
  <2>4. Solves(flatten)
    <3> HIDE DEF Solves, g
    <3> QED BY <2>3 DEF flatten
  <2>5. \A i \in 1 .. n : flatten[i] = IF i = 1 THEN seqs[i] ELSE flatten[i - 1] \o seqs[i]
    BY <2>4
  <2> HIDE DEF Solves
  <2> DEFINE T == {k \in 0 .. n : k = 0 \/ flatten[k] = g[k]}
  <2>6. 0 \in T
    BY <1>1
  <2>7. ASSUME NEW k \in 1 .. n, k - 1 \in T PROVE k \in T
    <3>1. k - 1 = 0 \/ flatten[k - 1] = g[k - 1]
      BY <2>7
    <3>2. g[k] = IF k = 1 THEN seqs[k] ELSE g[k - 1] \o seqs[k]
      BY <2>2
    <3>3. flatten[k] = IF k = 1 THEN seqs[k] ELSE flatten[k - 1] \o seqs[k]
      BY <2>5
    <3> HIDE DEF g
    <3>4. flatten[k] = g[k]
      BY <3>1, <3>2, <3>3
    <3> QED BY <1>1, <3>4
  <2> HIDE DEF T
  <2>8. 0 .. n \subseteq T
    BY <1>1, <2>6, <2>7, InductionTo
  <2>9. flatten[n] = g[n]
    BY <1>1, <1>3, <2>8 DEF T
  <2>10. g[n] = w
    <3>1. n \in 1 .. n /\ e[n] = Len(w)
      BY <1>1, <1>3
    <3>2. g[n] = [i \in 1 .. e[n] |-> w[i]]
      BY <3>1
    <3>3. g[n] = [i \in 1 .. Len(w) |-> w[i]]
      <4> HIDE DEF g
      <4> QED BY <3>1, <3>2
    <3> QED BY <3>3 DEF IsList
  <2> QED BY <2>1, <2>9, <2>10
<1> QED BY <1>2, <1>3

\* A list that goes up, of the first places of pieces.
CutOf(starts, n) == [k \in 0 .. Len(starts) |-> IF k = Len(starts) THEN n ELSE starts[k + 1] - 1]
CutAtStarts(S, n, starts, e) ==
  /\ IsList(starts) /\ IsCut(e, Len(starts), n)
  /\ \A k \in 1 .. Len(starts) :
       /\ starts[k] \in S /\ e[k - 1] = starts[k] - 1 /\ starts[k] <= e[k]
       /\ \A i \in starts[k] + 1 .. e[k] : i \notin S
       /\ e[k] = n \/ e[k] + 1 \in S
LEMMA StartsCut ==
  ASSUME NEW S, NEW n \in Nat, S \subseteq 1 .. n, n = 0 \/ 1 \in S,
         NEW starts, starts = InOrder(S, n), NEW e, e = CutOf(starts, n)
  PROVE  CutAtStarts(S, n, starts, e)
<1> DEFINE m == Len(starts)
<1>1. /\ IsList(starts) /\ m \in Nat
      /\ \A i \in 1 .. m : starts[i] \in Nat
      /\ \A i, j \in 1 .. m : i < j => starts[i] < starts[j]
      /\ {starts[i] : i \in 1 .. m} = S
  <2>1. Ascends(starts) /\ Members(starts) = S \cap (1 .. n)
    BY InOrderLists
  <2> QED BY <2>1 DEF Ascends, Members, IsList
<1>2. \A i \in 1 .. m : starts[i] \in S /\ starts[i] \in 1 .. n
  BY <1>1
<1>3. /\ \A k \in 0 .. m : e[k] = IF k = m THEN n ELSE starts[k + 1] - 1
  BY DEF CutOf
<1>4. e[0] = 0
  <2>1. CASE n = 0
    <3>1. m = 0
      BY <1>1, <1>2, <2>1
    <3> QED BY <1>3, <2>1, <3>1
  <2>2. CASE n # 0
    <3>1. PICK i \in 1 .. m : starts[i] = 1
      BY <1>1, <2>2
    <3>2. i = 1
      <4>1. CASE i > 1
        <5>1. 1 \in 1 .. m /\ starts[1] < starts[i]
          BY <1>1, <4>1
        <5> QED BY <1>2, <3>1, <5>1
      <4> QED BY <1>1, <4>1
    <3>3. m # 0 /\ 0 \in 0 .. m /\ 0 + 1 = 1
      BY <1>1
    <3> QED BY <1>3, <3>1, <3>2, <3>3
  <2> QED BY <2>1, <2>2
<1>5. ASSUME NEW k \in 1 .. m
      PROVE  /\ starts[k] \in S /\ e[k - 1] = starts[k] - 1 /\ starts[k] <= e[k]
             /\ \A i \in starts[k] + 1 .. e[k] : i \notin S
             /\ e[k] = n \/ e[k] + 1 \in S
             /\ e[k] \in 0 .. n
  <2>1. starts[k] \in S /\ starts[k] \in 1 .. n
    BY <1>2
  <2>2. e[k - 1] = starts[k] - 1
    <3>1. k - 1 \in 0 .. m /\ k - 1 # m /\ (k - 1) + 1 = k
      BY <1>1
    <3> QED BY <1>3, <3>1
  <2>3. CASE k = m
    <3>1. e[k] = n
      BY <1>1, <1>3, <2>3
    <3>2. ASSUME NEW i \in starts[k] + 1 .. e[k] PROVE i \notin S
      <4>1. SUFFICES ASSUME i \in S PROVE FALSE
        OBVIOUS
      <4>2. PICK j \in 1 .. m : starts[j] = i
        BY <1>1, <4>1
      <4>3. j = m \/ starts[j] < starts[m]
        BY <1>1, <2>3
      <4> QED BY <1>1, <2>1, <2>3, <3>1, <4>2, <4>3
    <3> QED BY <2>1, <2>2, <3>1, <3>2
  <2>4. CASE k # m
    <3>1. k + 1 \in 1 .. m /\ k \in 0 .. m
      BY <1>1, <2>4
    <3>2. e[k] = starts[k + 1] - 1
      BY <1>3, <2>4, <3>1
    <3>3. starts[k] < starts[k + 1] /\ starts[k + 1] \in S /\ starts[k + 1] \in 1 .. n
      BY <1>1, <1>2, <3>1
    <3>4. ASSUME NEW i \in starts[k] + 1 .. e[k] PROVE i \notin S
      <4>1. SUFFICES ASSUME i \in S PROVE FALSE
        OBVIOUS
      <4>2. PICK j \in 1 .. m : starts[j] = i
        BY <1>1, <4>1
      <4>3. i > starts[k] /\ i < starts[k + 1] /\ i \in Nat
        BY <2>1, <3>2, <3>3
      <4>4. CASE j <= k
        <5>1. j = k \/ starts[j] < starts[k]
          BY <1>1, <4>4
        <5> QED BY <2>1, <4>2, <4>3, <5>1
      <4>5. CASE ~ (j <= k)
        <5>1. j = k + 1 \/ starts[k + 1] < starts[j]
          BY <1>1, <3>1, <4>5
        <5> QED BY <3>3, <4>2, <4>3, <5>1
      <4> QED BY <4>4, <4>5
    <3> QED BY <2>1, <2>2, <3>2, <3>3, <3>4
  <2> QED BY <2>3, <2>4
<1>6. \A k \in 0 .. m : e[k] \in 0 .. n
  BY <1>4, <1>5
<1>7. \A k \in 1 .. m : e[k - 1] <= e[k]
  <2>1. ASSUME NEW k \in 1 .. m PROVE e[k - 1] <= e[k]
    <3>1. e[k - 1] = starts[k] - 1 /\ starts[k] <= e[k] /\ starts[k] \in Nat /\ e[k] \in Nat
      BY <1>1, <1>5
    <3> QED BY <3>1
  <2> QED BY <2>1
<1>8. e[m] = n
  BY <1>1, <1>3
<1>9. IsCut(e, m, n)
  BY <1>1, <1>4, <1>6, <1>7, <1>8 DEF IsCut
<1> QED BY <1>1, <1>5, <1>9 DEF CutAtStarts

\* A list of bytes.
IsBytes(b) == IsList(b) /\ \A i \in 1 .. Len(b) : b[i] \in 0 .. 255

\* One byte to a character.
LEMMA SingleBytes ==
  ASSUME NEW bytes, IsList(bytes), NEW seqs, seqs = [i \in 1 .. Len(bytes) |-> <<bytes[i]>>]
  PROVE  FlattenSeq(seqs) = bytes
<1> DEFINE n == Len(bytes)
           e == [k \in 0 .. n |-> k]
<1>1. n \in Nat
  BY DEF IsList
<1>2. IsList(seqs) /\ Len(seqs) = n
  BY <1>1 DEF IsList
<1>3. IsCut(e, n, n)
  BY <1>1 DEF IsCut
<1>4. ASSUME NEW k \in 1 .. n PROVE IsPiece(seqs[k], bytes, e[k - 1], e[k])
  <2>1. seqs[k] = <<bytes[k]>> /\ e[k - 1] = k - 1 /\ e[k] = k
    BY <1>1
  <2>2. IsList(<<bytes[k]>>) /\ Len(<<bytes[k]>>) = 1 /\ <<bytes[k]>>[1] = bytes[k]
    BY DEF IsList
  <2>3. k - (k - 1) = 1 /\ (k - 1) + 1 = k
    BY <1>1
  <2> HIDE DEF e
  <2> QED BY <2>1, <2>2, <2>3 DEF IsPiece
<1> HIDE DEF e
<1> QED BY <1>2, <1>3, <1>4, FlattenIs

\* US-ASCII and ISO-8859-1 are their code points.
LEMMA EncodedLatin ==
  ASSUME NEW bytes, IsList(bytes), NEW charset \in {"US-ASCII", "ISO-8859-1"}, NEW order
  PROVE  Encoded(bytes, charset, order) = bytes
<1> DEFINE seqs == [i \in 1 .. Len(bytes) |-> <<bytes[i]>>]
<1>1. DOMAIN bytes = 1 .. Len(bytes)
  BY ListDomain
<1>2. Encoded(bytes, charset, order) = FlattenSeq([i \in DOMAIN bytes |-> <<bytes[i]>>])
  <2>1. CASE charset = "US-ASCII"
    BY <2>1 DEF Encoded
  <2>2. CASE charset = "ISO-8859-1"
    BY <2>2 DEF Encoded
  <2> QED BY <2>1, <2>2
<1>3. FlattenSeq(seqs) = bytes
  <2> HIDE DEF seqs
  <2> QED BY SingleBytes DEF seqs
<1> QED BY <1>1, <1>2, <1>3

\* A byte of Windows-1252, there and back.
WindowsChar(c) == IF c >= 8000 THEN <<c - 8000>> ELSE <<c>>
LEMMA WindowsBack ==
  ASSUME NEW b \in 0 .. 255
  PROVE  WindowsChar(Windows1252(b)) = <<b>>
<1>1. CASE b \in 128 .. 159
  <2>1. Windows1252(b) = 8000 + b
    BY <1>1 DEF Windows1252
  <2>2. 8000 + b >= 8000 /\ (8000 + b) - 8000 = b
    OBVIOUS
  <2> QED BY <2>1, <2>2 DEF WindowsChar
<1>2. CASE b \notin 128 .. 159
  <2>1. Windows1252(b) = b /\ ~ (b >= 8000)
    BY <1>2 DEF Windows1252
  <2> QED BY <2>1 DEF WindowsChar
<1> QED BY <1>1, <1>2

\* Windows-1252 maps each byte to a character of its own.
LEMMA EncodedWindows ==
  ASSUME NEW bytes, IsBytes(bytes), NEW order,
         NEW text, text = [i \in DOMAIN bytes |-> Windows1252(bytes[i])]
  PROVE  Encoded(text, "Windows-1252", order) = bytes
<1> DEFINE seqs == [i \in 1 .. Len(bytes) |-> <<bytes[i]>>]
<1>1. /\ DOMAIN bytes = 1 .. Len(bytes) /\ DOMAIN text = 1 .. Len(bytes)
      /\ \A i \in 1 .. Len(bytes) : bytes[i] \in 0 .. 255
  BY ListDomain DEF IsBytes
<1>2. Encoded(text, "Windows-1252", order) = FlattenSeq([i \in DOMAIN text |-> WindowsChar(text[i])])
  BY DEF Encoded, WindowsChar
<1>3. ASSUME NEW i \in 1 .. Len(bytes) PROVE WindowsChar(text[i]) = <<bytes[i]>>
  <2>1. text[i] = Windows1252(bytes[i]) /\ bytes[i] \in 0 .. 255
    BY <1>1
  <2> QED BY <2>1, WindowsBack
<1>4. [i \in DOMAIN text |-> WindowsChar(text[i])] = seqs
  BY <1>1, <1>3
<1>5. FlattenSeq(seqs) = bytes
  <2>1. IsList(bytes)
    BY DEF IsBytes
  <2> HIDE DEF seqs
  <2> QED BY <2>1, SingleBytes DEF seqs
<1> HIDE DEF seqs
<1> QED BY <1>2, <1>4, <1>5

-------------------------------------------------------------------------------
\* UTF-8: what it decodes to, by name.
Utf8Valid(bytes) ==
  \A i \in DOMAIN bytes :
    /\ bytes[i] < 128 \/ Lead(bytes[i]) \/ Continuation(bytes[i])
    /\ Lead(bytes[i]) => i < Len(bytes) /\ Continuation(bytes[i + 1])
    /\ Continuation(bytes[i]) => i > 1 /\ Lead(bytes[i - 1])
Utf8Starts(bytes) == {i \in DOMAIN bytes : ~ Continuation(bytes[i])}
Utf8At(bytes, i) ==
  IF bytes[i] < 128 THEN bytes[i] ELSE (bytes[i] - 192) * 64 + (bytes[i + 1] - 128)
Utf8Text(bytes) ==
  LET starts == InOrder(Utf8Starts(bytes), Len(bytes))
  IN [k \in DOMAIN starts |-> Utf8At(bytes, starts[k])]
Utf8Char(c) == IF c < 128 THEN <<c>> ELSE <<192 + c \div 64, 128 + (c % 64)>>

\* FromUtf8 in these words.
LEMMA FromUtf8Is ==
  ASSUME NEW bytes
  PROVE  FromUtf8(bytes) = IF Utf8Valid(bytes) THEN {Utf8Text(bytes)} ELSE {}
  BY DEF FromUtf8, Utf8Valid, Utf8Text, Utf8Starts, Utf8At

\* A start, and its continuations up to the next start.
Utf8Run(bytes, i, upto) ==
  /\ i \in 1 .. Len(bytes) /\ upto \in 1 .. Len(bytes) /\ i <= upto
  /\ ~ Continuation(bytes[i])
  /\ \A j \in i + 1 .. upto : Continuation(bytes[j])
  /\ upto = Len(bytes) \/ ~ Continuation(bytes[upto + 1])

\* A lead byte and a continuation, there and back.
LEMMA Utf8Pair ==
  ASSUME NEW a \in 194 .. 223, NEW b \in 128 .. 191
  PROVE  Utf8Char((a - 192) * 64 + (b - 128)) = <<a, b>>
<1> DEFINE x == a - 192
           y == b - 128
           c == x * 64 + y
<1>1. x \in 2 .. 31 /\ y \in 0 .. 63 /\ 192 + x = a /\ 128 + y = b
  OBVIOUS
<1> HIDE DEF x, y
<1>2. ~ (c < 128) /\ c \div 64 = x /\ c % 64 = y
  BY <1>1
<1> HIDE DEF c
<1>3. Utf8Char(c) = <<a, b>>
  BY <1>1, <1>2 DEF Utf8Char
<1> QED BY <1>3 DEF c, x, y

\* A character is one byte, or two.
LEMMA Utf8Piece ==
  ASSUME NEW bytes, IsBytes(bytes), Utf8Valid(bytes), NEW i, NEW upto, Utf8Run(bytes, i, upto)
  PROVE  IsPiece(Utf8Char(Utf8At(bytes, i)), bytes, i - 1, upto)
<1> DEFINE n == Len(bytes)
           c == Utf8At(bytes, i)
           s == Utf8Char(c)
<1>1. n \in Nat /\ DOMAIN bytes = 1 .. n /\ \A j \in 1 .. n : bytes[j] \in 0 .. 255
  BY ListDomain DEF IsBytes, IsList
<1>2. ASSUME NEW j \in 1 .. n
      PROVE  /\ bytes[j] < 128 \/ Lead(bytes[j]) \/ Continuation(bytes[j])
             /\ Lead(bytes[j]) => j < n /\ Continuation(bytes[j + 1])
             /\ Continuation(bytes[j]) => j > 1 /\ Lead(bytes[j - 1])
  BY <1>1 DEF Utf8Valid
<1>3. ASSUME NEW b, Lead(b) PROVE b \in 194 .. 223 /\ ~ (b < 128) /\ ~ Continuation(b)
  BY <1>3 DEF Lead, Continuation
<1>4. ASSUME NEW b, Continuation(b) PROVE b \in 128 .. 191 /\ ~ Lead(b)
  BY <1>4 DEF Lead, Continuation
<1>5. i \in 1 .. n /\ upto \in 1 .. n /\ i <= upto /\ i \in Nat /\ upto \in Nat
  <2>1. i \in 1 .. n /\ upto \in 1 .. n /\ i <= upto
    BY DEF Utf8Run
  <2> QED BY <2>1
<1>6. ASSUME NEW j \in i + 1 .. upto PROVE Continuation(bytes[j])
  BY DEF Utf8Run
<1>7. ~ Continuation(bytes[i]) /\ (upto = n \/ ~ Continuation(bytes[upto + 1]))
  BY DEF Utf8Run
<1>8. CASE bytes[i] < 128
  <2>1. ~ Lead(bytes[i])
    BY <1>3, <1>8
  <2>2. upto = i
    <3>1. SUFFICES ASSUME upto # i PROVE FALSE
      OBVIOUS
    <3>2. i + 1 \in i + 1 .. upto /\ i + 1 \in 1 .. n /\ (i + 1) - 1 = i
      BY <1>1, <1>5, <3>1
    <3>3. Continuation(bytes[i + 1])
      BY <1>6, <3>2
    <3> QED BY <1>2, <2>1, <3>2, <3>3
  <2>3. c = bytes[i] /\ s = <<bytes[i]>>
    BY <1>8 DEF Utf8At, Utf8Char
  <2>4. IsList(<<bytes[i]>>) /\ Len(<<bytes[i]>>) = 1 /\ <<bytes[i]>>[1] = bytes[i]
    BY DEF IsList
  <2>5. i - (i - 1) = 1 /\ (i - 1) + 1 = i
    BY <1>5
  <2> HIDE DEF s
  <2>6. IsPiece(s, bytes, i - 1, upto)
    BY <2>2, <2>3, <2>4, <2>5 DEF IsPiece
  <2> QED BY <2>6 DEF s
<1>9. CASE Lead(bytes[i])
  <2>1. i < n /\ Continuation(bytes[i + 1]) /\ i + 1 \in 1 .. n
    BY <1>1, <1>2, <1>5, <1>9
  <2>2. bytes[i + 1] \in 128 .. 191 /\ ~ Lead(bytes[i + 1])
    BY <1>4, <2>1
  <2>3. upto = i + 1
    <3>1. upto # i
      <4>1. SUFFICES ASSUME upto = i PROVE FALSE
        OBVIOUS
      <4>2. i # n
        BY <1>1, <2>1
      <4> QED BY <1>7, <2>1, <4>1, <4>2
    <3>2. SUFFICES ASSUME upto # i + 1 PROVE FALSE
      OBVIOUS
    <3>3. i + 2 \in i + 1 .. upto /\ i + 2 \in 1 .. n /\ (i + 2) - 1 = i + 1
      BY <1>1, <1>5, <3>1, <3>2
    <3>4. Continuation(bytes[i + 2])
      BY <1>6, <3>3
    <3> QED BY <1>2, <2>2, <3>3, <3>4
  <2> DEFINE a == bytes[i]
             b == bytes[i + 1]
  <2>4. a \in 194 .. 223 /\ b \in 128 .. 191 /\ ~ (a < 128)
    BY <1>3, <1>9, <2>2
  <2>5. c = (a - 192) * 64 + (b - 128)
    BY <2>4 DEF Utf8At
  <2> HIDE DEF a, b, c
  <2>6. s = <<a, b>>
    BY <2>4, <2>5, Utf8Pair
  <2>7. IsList(<<a, b>>) /\ Len(<<a, b>>) = 2 /\ <<a, b>>[1] = a /\ <<a, b>>[2] = b
    BY DEF IsList
  <2>8. (i + 1) - (i - 1) = 2 /\ (i - 1) + 1 = i /\ (i - 1) + 2 = i + 1
    BY <1>5
  <2>9. \A k \in 1 .. 2 : k = 1 \/ k = 2
    OBVIOUS
  <2> HIDE DEF s
  <2>10. IsPiece(s, bytes, i - 1, upto)
    BY <2>3, <2>6, <2>7, <2>8, <2>9 DEF IsPiece, a, b
  <2> QED BY <2>10 DEF s, c
<1> QED BY <1>2, <1>5, <1>7, <1>8, <1>9

\* UTF-8 is cut at the bytes that continue nothing.
LEMMA EncodedUtf8 ==
  ASSUME NEW bytes, IsBytes(bytes), Utf8Valid(bytes), NEW order
  PROVE  Encoded(Utf8Text(bytes), "UTF-8", order) = bytes
<1> DEFINE n == Len(bytes)
           S == Utf8Starts(bytes)
           starts == InOrder(S, n)
           m == Len(starts)
           e == CutOf(starts, n)
           text == Utf8Text(bytes)
           seqs == [k \in DOMAIN text |-> Utf8Char(text[k])]
<1>1. n \in Nat /\ DOMAIN bytes = 1 .. n /\ IsList(bytes)
  BY ListDomain DEF IsBytes, IsList
<1>2. S \subseteq 1 .. n
  BY <1>1 DEF Utf8Starts
<1>3. n = 0 \/ 1 \in S
  <2>1. SUFFICES ASSUME n # 0 PROVE 1 \in S
    OBVIOUS
  <2>2. 1 \in 1 .. n /\ ~ (1 > 1)
    BY <1>1, <2>1
  <2>3. ~ Continuation(bytes[1])
    BY <1>1, <2>2 DEF Utf8Valid
  <2> QED BY <1>1, <2>2, <2>3 DEF Utf8Starts
<1>4. Encoded(text, "UTF-8", order) = FlattenSeq(seqs)
  <2> HIDE DEF text
  <2> QED BY DEF Encoded, Utf8Char
<1>5. text = [k \in DOMAIN starts |-> Utf8At(bytes, starts[k])]
  BY DEF Utf8Text
<1> HIDE DEF S, starts, e, text
<1>6. /\ IsList(starts) /\ IsCut(e, m, n)
      /\ \A k \in 1 .. m :
           /\ starts[k] \in S /\ e[k - 1] = starts[k] - 1 /\ starts[k] <= e[k]
           /\ \A i \in starts[k] + 1 .. e[k] : i \notin S
           /\ e[k] = n \/ e[k] + 1 \in S
  <2>1. starts = InOrder(S, n) /\ e = CutOf(starts, n)
    BY DEF starts, e
  <2> HIDE DEF n, m
  <2>2. CutAtStarts(S, n, starts, e)
    BY <1>1, <1>2, <1>3, <2>1, StartsCut
  <2> QED BY <2>2 DEF CutAtStarts, m
<1>7. DOMAIN starts = 1 .. m /\ DOMAIN text = 1 .. m /\ m \in Nat
  <2>1. IsList(starts)
    BY <1>6
  <2> QED BY <1>5, <2>1, ListDomain DEF IsList
<1>8. IsList(seqs) /\ Len(seqs) = m
  BY <1>7 DEF IsList
<1>9. ASSUME NEW k \in 1 .. m PROVE IsPiece(seqs[k], bytes, e[k - 1], e[k])
  <2> DEFINE i == starts[k]
             upto == e[k]
  <2>1. i \in S /\ i \in 1 .. n /\ upto \in 0 .. n /\ i <= upto
    <3>1. i \in S /\ i <= upto
      BY <1>6
    <3>2. k \in 0 .. m
      BY <1>7
    <3>3. upto \in 0 .. n
      BY <1>6, <3>2 DEF IsCut
    <3> QED BY <1>2, <3>1, <3>3
  <2>2. upto \in 1 .. n /\ e[k - 1] = i - 1
    <3>1. e[k - 1] = i - 1
      BY <1>6
    <3> HIDE DEF i, upto
    <3> QED BY <1>1, <2>1, <3>1
  <2>3. ~ Continuation(bytes[i])
    BY <2>1 DEF S, Utf8Starts
  <2>4. ASSUME NEW j \in i + 1 .. upto PROVE Continuation(bytes[j])
    <3>1. j \notin S
      BY <1>6
    <3>2. j \in 1 .. n
      <4>1. i \in 1 .. n /\ upto \in 1 .. n /\ n \in Nat /\ j \in i + 1 .. upto
        BY <1>1, <2>1, <2>2
      <4> HIDE DEF i, upto
      <4> QED BY <4>1
    <3> QED BY <1>1, <3>1, <3>2 DEF S, Utf8Starts
  <2>5. upto = n \/ ~ Continuation(bytes[upto + 1])
    BY <1>6 DEF S, Utf8Starts
  <2>6. seqs[k] = Utf8Char(Utf8At(bytes, i))
    BY <1>5, <1>7
  <2> HIDE DEF i, upto, seqs
  <2>7. IsPiece(Utf8Char(Utf8At(bytes, i)), bytes, i - 1, upto)
    BY <1>1, <2>1, <2>2, <2>3, <2>4, <2>5, Utf8Piece DEF Utf8Run
  <2> QED BY <2>2, <2>6, <2>7 DEF upto
<1> HIDE DEF seqs
<1>10. FlattenSeq(seqs) = bytes
  BY <1>1, <1>6, <1>8, <1>9, FlattenIs
<1> QED BY <1>4, <1>10 DEF text

\* Text in US-ASCII is its bytes, in UTF-8 as well.
LEMMA AsciiIsUtf8 ==
  ASSUME NEW bytes, IsBytes(bytes), IsAscii(bytes)
  PROVE  FromUtf8(bytes) = {bytes}
<1> DEFINE n == Len(bytes)
           S == Utf8Starts(bytes)
           id == [i \in 1 .. n |-> i]
<1>1. n \in Nat /\ DOMAIN bytes = 1 .. n /\ \A i \in 1 .. n : bytes[i] \in 0 .. 127
  <2>1. n \in Nat /\ DOMAIN bytes = 1 .. n
    BY ListDomain DEF IsBytes, IsList
  <2>2. ASSUME NEW i \in 1 .. n PROVE bytes[i] \in 0 .. 127
    <3>1. bytes[i] \in 0 .. 255
      BY DEF IsBytes
    <3>2. bytes[i] < 128
      BY <2>1 DEF IsAscii
    <3>3. \A b \in 0 .. 255 : b < 128 => b \in 0 .. 127
      OBVIOUS
    <3> HIDE DEF n
    <3>4. bytes[i] \in 0 .. 255 /\ bytes[i] < 128 => bytes[i] \in 0 .. 127
      BY <3>3
    <3> QED BY <3>1, <3>2, <3>4
  <2> QED BY <2>1, <2>2
<1>2. \A i \in 1 .. n : ~ Lead(bytes[i]) /\ ~ Continuation(bytes[i]) /\ bytes[i] < 128
  <2>1. \A b \in 0 .. 127 : ~ Lead(b) /\ ~ Continuation(b) /\ b < 128
    BY DEF Lead, Continuation
  <2> QED BY <1>1, <2>1
<1>3. Utf8Valid(bytes) /\ S = 1 .. n
  BY <1>1, <1>2 DEF Utf8Valid, Utf8Starts
<1>4. InOrder(S, n) = id
  <2>1. IsList(id) /\ Len(id) = n
    BY <1>1 DEF IsList
  <2>2. Ascends(id) /\ Members(id) = 1 .. n
    BY <1>1, <2>1 DEF Ascends, Members
  <2>3. Ascends(InOrder(S, n)) /\ Members(InOrder(S, n)) = S \cap (1 .. n)
    BY <1>1, InOrderLists
  <2> HIDE DEF id, S
  <2> QED BY <1>3, <2>2, <2>3, AscendingIsOne
<1>5. Utf8Text(bytes) = [k \in 1 .. n |-> bytes[k]]
  <2>1. Utf8Text(bytes) = [k \in DOMAIN id |-> Utf8At(bytes, id[k])]
    BY <1>4 DEF Utf8Text
  <2>2. \A k \in 1 .. n : Utf8At(bytes, k) = bytes[k]
    BY <1>2 DEF Utf8At
  <2> QED BY <2>1, <2>2
<1>6. Utf8Text(bytes) = bytes
  BY <1>5 DEF IsBytes, IsList
<1> QED BY <1>3, <1>6, FromUtf8Is

-------------------------------------------------------------------------------
\* UTF-16 and UTF-32: the units, in either order.
OrderedBytes(bytes, order) == IF order = "msbFirst" THEN bytes ELSE Reverse(bytes)
PairOf(value, order) == OrderedBytes(<<value \div 256, value % 256>>, order)
TwoDigits(x, y) == 256 * x + y
UnitValue(bytes, i, order) ==
  LET unit == Unit(bytes, i, 2, order) IN TwoDigits(unit[1], unit[2])
UnitValues(bytes, order) == [i \in 1 .. Len(bytes) \div 2 |-> UnitValue(bytes, i, order)]

\* A pair, and its reverse.
LEMMA TwoBytes ==
  ASSUME NEW a, NEW b
  PROVE  /\ IsList(<<a, b>>) /\ Len(<<a, b>>) = 2 /\ <<a, b>>[1] = a /\ <<a, b>>[2] = b
         /\ Reverse(<<a, b>>) = <<b, a>>
  BY DEF IsList, Reverse

\* A quotient and a remainder, with the divisor in front.
LEMMA DivisionBack ==
  ASSUME NEW x \in Nat, NEW p \in Nat \ {0}, NEW y \in Nat, y < p
  PROVE  (p * x + y) \div p = x /\ (p * x + y) % p = y
<1>1. p * x + y = x * p + y
  OBVIOUS
<1>2. (x * p + y) \div p = x
  OBVIOUS
<1>3. (x * p + y) % p = y
  BY <1>2
<1> QED BY <1>1, <1>2, <1>3

HasDigits(v, x, y) == v \in Nat /\ v < 65536 /\ v \div 256 = x /\ v % 256 = y
\* Two bytes make a unit, and come apart again.
LEMMA DigitsApart ==
  ASSUME NEW x \in 0 .. 255, NEW y \in 0 .. 255
  PROVE  HasDigits(TwoDigits(x, y), x, y)
<1>1. x \in Nat /\ 256 \in Nat \ {0} /\ y \in Nat /\ y < 256
  OBVIOUS
<1>2. (256 * x + y) \div 256 = x /\ (256 * x + y) % 256 = y
  BY <1>1, DivisionBack
<1>3. 256 * x + y \in Nat /\ 256 * x + y < 65536
  <2>1. x \in Int /\ y \in Int /\ 0 <= x /\ x <= 255 /\ 0 <= y /\ y <= 255
    OBVIOUS
  <2>2. 256 * x + y \in Int /\ 0 <= 256 * x + y /\ 256 * x + y <= 65535
    BY <2>1
  <2> QED BY <2>2
<1>4. TwoDigits(x, y) = 256 * x + y
  BY DEF TwoDigits
<1> QED BY <1>2, <1>3, <1>4 DEF HasDigits

\* A unit has its bytes, and they are had back.
IsUnit(bytes, i, order) ==
  /\ UnitValue(bytes, i, order) \in Nat /\ UnitValue(bytes, i, order) < 65536
  /\ PairOf(UnitValue(bytes, i, order), order) = <<bytes[2 * i - 1], bytes[2 * i]>>
LEMMA UnitBack ==
  ASSUME NEW bytes, IsBytes(bytes), NEW i \in Nat \ {0}, 2 * i <= Len(bytes), NEW order
  PROVE  IsUnit(bytes, i, order)
<1> DEFINE a == bytes[2 * i - 1]
           b == bytes[2 * i]
           chunk == SubSeq(bytes, 2 * (i - 1) + 1, 2 * i)
<1>1. 2 * i - 1 \in 1 .. Len(bytes) /\ 2 * i \in 1 .. Len(bytes)
  BY DEF IsBytes, IsList
<1>2. a \in 0 .. 255 /\ b \in 0 .. 255
  BY <1>1 DEF IsBytes
<1>3. chunk = <<a, b>>
  <2>1. 2 * (i - 1) + 1 = 2 * i - 1 /\ 2 * i - (2 * i - 1) + 1 = 2
    OBVIOUS
  <2>2. chunk = [k \in 1 .. 2 |-> bytes[k + (2 * i - 1) - 1]]
    BY <2>1
  <2>3. 1 + (2 * i - 1) - 1 = 2 * i - 1 /\ 2 + (2 * i - 1) - 1 = 2 * i
    OBVIOUS
  <2>4. \A k \in 1 .. 2 : k = 1 \/ k = 2
    OBVIOUS
  <2>5. [k \in 1 .. 2 |-> bytes[k + (2 * i - 1) - 1]] = [k \in 1 .. 2 |-> IF k = 1 THEN a ELSE b]
    BY <2>3, <2>4
  <2>6. [k \in 1 .. 2 |-> IF k = 1 THEN a ELSE b] = <<a, b>>
    <3> HIDE DEF a, b
    <3> QED OBVIOUS
  <2> QED BY <2>2, <2>5, <2>6
<1> HIDE DEF a, b, chunk
<1>5. CASE order = "msbFirst"
  <2>1. Unit(bytes, i, 2, order) = <<a, b>>
    BY <1>3, <1>5 DEF Unit, chunk
  <2>2. UnitValue(bytes, i, order) = TwoDigits(a, b)
    BY <2>1, TwoBytes DEF UnitValue
  <2> DEFINE v == TwoDigits(a, b)
  <2>3. v \in Nat /\ v < 65536 /\ v \div 256 = a /\ v % 256 = b
    <3>1. a \in 0 .. 255
      BY <1>2
    <3>2. b \in 0 .. 255
      BY <1>2, Zenon
    <3>3. HasDigits(v, a, b)
      BY <3>1, <3>2, DigitsApart
    <3> QED BY <3>3 DEF HasDigits
  <2> HIDE DEF v
  <2>4. PairOf(v, order) = <<a, b>>
    BY <1>5, <2>3 DEF PairOf, OrderedBytes
  <2>5. UnitValue(bytes, i, order) = v
    BY <2>2 DEF v
  <2> QED BY <2>3, <2>4, <2>5 DEF IsUnit, a, b
<1>6. CASE order # "msbFirst"
  <2>1. Unit(bytes, i, 2, order) = <<b, a>>
    BY <1>3, <1>6, TwoBytes DEF Unit, chunk
  <2>2. UnitValue(bytes, i, order) = TwoDigits(b, a)
    BY <2>1, TwoBytes DEF UnitValue
  <2> DEFINE v == TwoDigits(b, a)
  <2>3. v \in Nat /\ v < 65536 /\ v \div 256 = b /\ v % 256 = a
    <3>1. a \in 0 .. 255
      BY <1>2
    <3>2. b \in 0 .. 255
      BY <1>2
    <3>3. HasDigits(v, b, a)
      BY <3>1, <3>2, DigitsApart
    <3> QED BY <3>3 DEF HasDigits
  <2> HIDE DEF v
  <2>4. PairOf(v, order) = Reverse(<<b, a>>)
    BY <1>6, <2>3 DEF PairOf, OrderedBytes
  <2>5. PairOf(v, order) = <<a, b>>
    BY <2>4, TwoBytes
  <2>6. UnitValue(bytes, i, order) = v
    BY <2>2 DEF v
  <2> QED BY <2>3, <2>5, <2>6 DEF IsUnit, a, b
<1> QED BY <1>5, <1>6

\* Units flattened are the bytes they were read from.
LEMMA UnitsFlatten ==
  ASSUME NEW bytes, IsBytes(bytes), NEW order, NEW from \in Nat, NEW m \in Nat,
         2 * (from + m) <= Len(bytes),
         NEW seqs, seqs = [i \in 1 .. m |-> PairOf(UnitValue(bytes, from + i, order), order)]
  PROVE  IsPiece(FlattenSeq(seqs), bytes, 2 * from, 2 * (from + m))
<1> DEFINE w == [i \in 1 .. 2 * m |-> bytes[2 * from + i]]
           e == [k \in 0 .. m |-> 2 * k]
<1>1. IsList(w) /\ Len(w) = 2 * m /\ \A i \in 1 .. 2 * m : w[i] = bytes[2 * from + i]
  BY DEF IsList
<1>2. IsList(seqs) /\ Len(seqs) = m
  BY DEF IsList
<1>3. IsCut(e, m, 2 * m)
  BY DEF IsCut
<1>4. ASSUME NEW k \in 1 .. m PROVE IsPiece(seqs[k], w, e[k - 1], e[k])
  <2> DEFINE i == from + k
             a == bytes[2 * i - 1]
             b == bytes[2 * i]
  <2>1. i \in Nat \ {0} /\ 2 * i <= Len(bytes)
    BY DEF IsBytes, IsList
  <2>2. IsUnit(bytes, i, order)
    BY <2>1, UnitBack
  <2>3. seqs[k] = <<a, b>>
    <3>1. seqs[k] = PairOf(UnitValue(bytes, i, order), order)
      OBVIOUS
    <3>2. PairOf(UnitValue(bytes, i, order), order) = <<a, b>>
      <4> HIDE DEF i
      <4> QED BY <2>2 DEF IsUnit
    <3> HIDE DEF i, a, b
    <3> QED BY <3>1, <3>2
  <2>4. e[k - 1] = 2 * (k - 1) /\ e[k] = 2 * k
    OBVIOUS
  <2>5. 2 * (k - 1) + 1 \in 1 .. 2 * m /\ 2 * (k - 1) + 2 \in 1 .. 2 * m
    OBVIOUS
  <2>6. 2 * from + (2 * (k - 1) + 1) = 2 * i - 1 /\ 2 * from + (2 * (k - 1) + 2) = 2 * i
    OBVIOUS
  <2>7. w[2 * (k - 1) + 1] = a /\ w[2 * (k - 1) + 2] = b
    <3> HIDE DEF w, i
    <3> QED BY <1>1, <2>5, <2>6
  <2>8. 2 * k - 2 * (k - 1) = 2 /\ \A j \in 1 .. 2 : j = 1 \/ j = 2
    OBVIOUS
  <2> HIDE DEF w, e, a, b
  <2>9. /\ IsList(seqs[k]) /\ Len(seqs[k]) = 2 /\ seqs[k][1] = a /\ seqs[k][2] = b
    BY <2>3, TwoBytes
  <2> QED BY <2>4, <2>7, <2>8, <2>9 DEF IsPiece
<1> HIDE DEF w, e
<1>5. FlattenSeq(seqs) = w
  BY <1>1, <1>2, <1>3, <1>4, FlattenIs
<1>6. 2 * (from + m) - 2 * from = 2 * m
  OBVIOUS
<1> QED BY <1>1, <1>5, <1>6 DEF IsPiece

\* What UTF-16 decodes to, by name.
Utf16Valid(v) ==
  \A i \in DOMAIN v :
    /\ High(v[i]) => i < Len(v) /\ Low(v[i + 1])
    /\ Low(v[i]) => i > 1 /\ High(v[i - 1])
Utf16Starts(v) == {i \in DOMAIN v : ~ Low(v[i])}
Utf16At(v, i) ==
  IF High(v[i]) THEN 65536 + (v[i] - 55296) * 1024 + (v[i + 1] - 56320) ELSE v[i]
Utf16Text(v) ==
  LET starts == InOrder(Utf16Starts(v), Len(v))
  IN [k \in DOMAIN starts |-> Utf16At(v, starts[k])]
InUnits16(c) ==
  IF c < 65536 THEN <<c>>
  ELSE <<55296 + (c - 65536) \div 1024, 56320 + ((c - 65536) % 1024)>>
Utf16Char(c, order) ==
  FlattenSeq([i \in DOMAIN InUnits16(c) |-> PairOf(InUnits16(c)[i], order)])

\* FromUtf16 in these words.
LEMMA FromUtf16Is ==
  ASSUME NEW v
  PROVE  FromUtf16(v) = IF Utf16Valid(v) THEN {Utf16Text(v)} ELSE {}
  BY DEF FromUtf16, Utf16Valid, Utf16Text, Utf16Starts, Utf16At

\* A pair of surrogates, there and back.
LEMMA SurrogatesBack ==
  ASSUME NEW a, High(a), NEW b, Low(b)
  PROVE  InUnits16(65536 + (a - 55296) * 1024 + (b - 56320)) = <<a, b>>
<1> DEFINE x == a - 55296
           y == b - 56320
           d == x * 1024 + y
           c == 65536 + x * 1024 + y
<1>1. a \in Nat /\ b \in Nat /\ a >= 55296 /\ b >= 56320 /\ b < 57344
  BY DEF High, Low
<1>2. x \in Nat /\ y \in Nat /\ y < 1024 /\ 55296 + x = a /\ 56320 + y = b
  BY <1>1
<1> HIDE DEF x, y
<1>3. 1024 \in Nat \ {0} /\ d = 1024 * x + y
  BY <1>2
<1>4. d \div 1024 = x /\ d % 1024 = y
  BY <1>2, <1>3, DivisionBack
<1>5. ~ (c < 65536) /\ c - 65536 = d
  BY <1>2
<1> HIDE DEF c, d
<1>6. InUnits16(c) = <<55296 + d \div 1024, 56320 + (d % 1024)>>
  BY <1>5 DEF InUnits16
<1>7. InUnits16(c) = <<a, b>>
  BY <1>2, <1>4, <1>6
<1> QED BY <1>7 DEF c, x, y

\* The units of a text.
IsUnits(v) == IsList(v) /\ \A i \in 1 .. Len(v) : v[i] \in Nat /\ v[i] < 65536

\* A start, and the low surrogates up to the next start.
Utf16Run(v, i, upto) ==
  /\ i \in 1 .. Len(v) /\ upto \in 1 .. Len(v) /\ i <= upto
  /\ ~ Low(v[i])
  /\ \A j \in i + 1 .. upto : Low(v[j])
  /\ upto = Len(v) \/ ~ Low(v[upto + 1])

\* A character is one unit, or two.
LEMMA Utf16Units ==
  ASSUME NEW v, IsUnits(v), Utf16Valid(v), NEW i, NEW upto, Utf16Run(v, i, upto)
  PROVE  IsPiece(InUnits16(Utf16At(v, i)), v, i - 1, upto)
<1> DEFINE n == Len(v)
           c == Utf16At(v, i)
           s == InUnits16(c)
<1>1. n \in Nat /\ DOMAIN v = 1 .. n /\ \A j \in 1 .. n : v[j] \in Nat /\ v[j] < 65536
  BY ListDomain DEF IsUnits, IsList
<1>2. ASSUME NEW j \in 1 .. n
      PROVE  /\ High(v[j]) => j < n /\ Low(v[j + 1])
             /\ Low(v[j]) => j > 1 /\ High(v[j - 1])
  BY <1>1 DEF Utf16Valid
<1>3. ASSUME NEW b, Low(b) PROVE ~ High(b)
  <2>1. SUFFICES ASSUME High(b) PROVE FALSE
    OBVIOUS
  <2>2. b \in Int /\ b <= 56319
    BY <2>1 DEF High
  <2>3. b >= 56320
    BY <1>3 DEF Low
  <2> QED BY <2>2, <2>3
<1>5. i \in 1 .. n /\ upto \in 1 .. n /\ i <= upto /\ i \in Nat /\ upto \in Nat
  <2>1. i \in 1 .. n /\ upto \in 1 .. n /\ i <= upto
    BY DEF Utf16Run
  <2> QED BY <2>1
<1>6. ASSUME NEW j \in i + 1 .. upto PROVE Low(v[j])
  BY DEF Utf16Run
<1>7. ~ Low(v[i]) /\ (upto = n \/ ~ Low(v[upto + 1]))
  BY DEF Utf16Run
<1>8. CASE ~ High(v[i])
  <2>2. upto = i
    <3>1. SUFFICES ASSUME upto # i PROVE FALSE
      OBVIOUS
    <3>2. i + 1 \in i + 1 .. upto /\ i + 1 \in 1 .. n /\ (i + 1) - 1 = i
      BY <1>1, <1>5, <3>1
    <3>3. Low(v[i + 1])
      BY <1>6, <3>2
    <3> QED BY <1>2, <1>8, <3>2, <3>3
  <2>3. c = v[i] /\ s = <<v[i]>>
    <3>1. v[i] < 65536
      BY <1>1, <1>5
    <3> QED BY <1>8, <3>1 DEF Utf16At, InUnits16
  <2>4. IsList(<<v[i]>>) /\ Len(<<v[i]>>) = 1 /\ <<v[i]>>[1] = v[i]
    BY DEF IsList
  <2>5. i - (i - 1) = 1 /\ (i - 1) + 1 = i
    BY <1>5
  <2> HIDE DEF s
  <2>6. IsPiece(s, v, i - 1, upto)
    BY <2>2, <2>3, <2>4, <2>5 DEF IsPiece
  <2> QED BY <2>6 DEF s
<1>9. CASE High(v[i])
  <2>1. i < n /\ Low(v[i + 1]) /\ i + 1 \in 1 .. n
    BY <1>1, <1>2, <1>5, <1>9
  <2>2. ~ High(v[i + 1])
    BY <1>3, <2>1
  <2>3. upto = i + 1
    <3>1. upto # i
      <4>1. SUFFICES ASSUME upto = i PROVE FALSE
        OBVIOUS
      <4>2. i # n
        BY <1>1, <2>1
      <4> QED BY <1>7, <2>1, <4>1, <4>2
    <3>2. SUFFICES ASSUME upto # i + 1 PROVE FALSE
      OBVIOUS
    <3>3. i + 2 \in i + 1 .. upto /\ i + 2 \in 1 .. n /\ (i + 2) - 1 = i + 1
      BY <1>1, <1>5, <3>1, <3>2
    <3>4. Low(v[i + 2])
      BY <1>6, <3>3
    <3> QED BY <1>2, <2>2, <3>3, <3>4
  <2> DEFINE a == v[i]
             b == v[i + 1]
  <2>4. c = 65536 + (a - 55296) * 1024 + (b - 56320)
    BY <1>9 DEF Utf16At
  <2>5. High(a) /\ Low(b)
    BY <1>9, <2>1
  <2> HIDE DEF a, b, c
  <2>6. s = <<a, b>>
    BY <2>4, <2>5, SurrogatesBack
  <2>7. IsList(<<a, b>>) /\ Len(<<a, b>>) = 2 /\ <<a, b>>[1] = a /\ <<a, b>>[2] = b
    BY TwoBytes
  <2>8. (i + 1) - (i - 1) = 2 /\ (i - 1) + 1 = i /\ (i - 1) + 2 = i + 1
    BY <1>5
  <2>9. \A k \in 1 .. 2 : k = 1 \/ k = 2
    OBVIOUS
  <2> HIDE DEF s
  <2>10. IsPiece(s, v, i - 1, upto)
    BY <2>3, <2>6, <2>7, <2>8, <2>9 DEF IsPiece, a, b
  <2> QED BY <2>10 DEF s, c
<1> QED BY <1>8, <1>9

\* Its units are the bytes of one piece.
LEMMA Utf16Piece ==
  ASSUME NEW bytes, IsBytes(bytes), NEW order, NEW v, v = UnitValues(bytes, order),
         IsUnits(v), 2 * Len(v) = Len(bytes), Utf16Valid(v),
         NEW i, NEW upto, Utf16Run(v, i, upto)
  PROVE  IsPiece(Utf16Char(Utf16At(v, i), order), bytes, 2 * (i - 1), 2 * upto)
<1> DEFINE c == Utf16At(v, i)
           u == InUnits16(c)
           m == upto - (i - 1)
           from == i - 1
           seqs == [k \in DOMAIN u |-> PairOf(u[k], order)]
<1>1. i \in 1 .. Len(v) /\ upto \in 1 .. Len(v) /\ i <= upto /\ Len(v) \in Nat
  BY DEF Utf16Run, IsUnits, IsList
<1>2. from \in Nat /\ m \in Nat /\ from + m = upto /\ 2 * (from + m) <= Len(bytes)
  BY <1>1
<1>3. IsPiece(u, v, from, upto)
  BY Utf16Units
<1>4. Utf16Char(c, order) = FlattenSeq(seqs)
  BY DEF Utf16Char
<1> HIDE DEF c, u
<1>5. IsList(u) /\ Len(u) = m /\ DOMAIN u = 1 .. m /\ \A k \in 1 .. m : u[k] = v[from + k]
  <2>1. IsList(u) /\ Len(u) = m /\ \A k \in 1 .. m : u[k] = v[from + k]
    BY <1>3 DEF IsPiece
  <2> HIDE DEF m
  <2> QED BY <2>1, ListDomain
<1>6. ASSUME NEW k \in 1 .. m PROVE u[k] = UnitValue(bytes, from + k, order)
  <2>1. from + k \in 1 .. Len(v)
    BY <1>1
  <2>2. DOMAIN v = 1 .. Len(v)
    BY ListDomain DEF IsUnits
  <2>3. v[from + k] = UnitValue(bytes, from + k, order)
    <3> HIDE DEF from
    <3> QED BY <2>1, <2>2 DEF UnitValues
  <2> QED BY <1>5, <2>3
<1> HIDE DEF m, from
<1>7. seqs = [k \in 1 .. m |-> PairOf(UnitValue(bytes, from + k, order), order)]
  BY <1>5, <1>6
<1> HIDE DEF seqs
<1>8. IsPiece(FlattenSeq(seqs), bytes, 2 * from, 2 * (from + m))
  BY <1>2, <1>7, UnitsFlatten
<1> QED BY <1>2, <1>4, <1>8 DEF c, from

\* UTF-16 is cut at the units that are no low surrogates.
LEMMA EncodedUtf16 ==
  ASSUME NEW bytes, IsBytes(bytes), NEW order, NEW v, v = UnitValues(bytes, order),
         IsUnits(v), 2 * Len(v) = Len(bytes), Utf16Valid(v)
  PROVE  Encoded(Utf16Text(v), "UTF-16", order) = bytes
<1> DEFINE n == Len(v)
           S == Utf16Starts(v)
           starts == InOrder(S, n)
           m == Len(starts)
           e == CutOf(starts, n)
           cut == [k \in 0 .. m |-> 2 * e[k]]
           text == Utf16Text(v)
           seqs == [k \in DOMAIN text |-> Utf16Char(text[k], order)]
<1>1. n \in Nat /\ DOMAIN v = 1 .. n /\ IsList(v) /\ IsList(bytes)
  BY ListDomain DEF IsUnits, IsBytes, IsList
<1>2. S \subseteq 1 .. n
  BY <1>1 DEF Utf16Starts
<1>3. n = 0 \/ 1 \in S
  <2>1. SUFFICES ASSUME n # 0 PROVE 1 \in S
    OBVIOUS
  <2>2. 1 \in 1 .. n /\ ~ (1 > 1)
    BY <1>1, <2>1
  <2>3. ~ Low(v[1])
    BY <1>1, <2>2 DEF Utf16Valid
  <2> QED BY <1>1, <2>2, <2>3 DEF Utf16Starts
<1>4. Encoded(text, "UTF-16", order) = FlattenSeq(seqs)
  <2> HIDE DEF text
  <2> QED BY DEF Encoded, Utf16Char, InUnits16, PairOf, OrderedBytes
<1>5. text = [k \in DOMAIN starts |-> Utf16At(v, starts[k])]
  BY DEF Utf16Text
<1> HIDE DEF S, starts, e, text
<1>6. /\ IsList(starts) /\ IsCut(e, m, n)
      /\ \A k \in 1 .. m :
           /\ starts[k] \in S /\ e[k - 1] = starts[k] - 1 /\ starts[k] <= e[k]
           /\ \A i \in starts[k] + 1 .. e[k] : i \notin S
           /\ e[k] = n \/ e[k] + 1 \in S
  <2>1. starts = InOrder(S, n) /\ e = CutOf(starts, n)
    BY DEF starts, e
  <2> HIDE DEF n, m
  <2>2. CutAtStarts(S, n, starts, e)
    BY <1>1, <1>2, <1>3, <2>1, StartsCut
  <2> QED BY <2>2 DEF CutAtStarts, m
<1>7. DOMAIN starts = 1 .. m /\ DOMAIN text = 1 .. m /\ m \in Nat
  <2>1. IsList(starts)
    BY <1>6
  <2> QED BY <1>5, <2>1, ListDomain DEF IsList
<1>8. IsList(seqs) /\ Len(seqs) = m
  BY <1>7 DEF IsList
<1>9. IsCut(cut, m, 2 * n)
  <2>1. /\ \A k \in 0 .. m : e[k] \in 0 .. n
        /\ e[0] = 0 /\ e[m] = n
        /\ \A k \in 1 .. m : e[k - 1] <= e[k]
    BY <1>6 DEF IsCut
  <2>2. \A k \in 0 .. m : cut[k] = 2 * e[k]
    OBVIOUS
  <2> HIDE DEF cut
  <2>3. ASSUME NEW k \in 0 .. m PROVE cut[k] \in 0 .. 2 * n
    BY <1>1, <2>1, <2>2
  <2>4. ASSUME NEW k \in 1 .. m PROVE cut[k - 1] <= cut[k]
    <3>1. k \in 0 .. m /\ k - 1 \in 0 .. m
      BY <1>7
    <3>2. e[k] \in Nat /\ e[k - 1] \in Nat /\ e[k - 1] <= e[k]
      BY <2>1, <3>1
    <3> QED BY <2>2, <3>1, <3>2
  <2>5. 0 \in 0 .. m /\ m \in 0 .. m /\ 2 * n \in Nat
    BY <1>1, <1>7
  <2> QED BY <1>7, <2>1, <2>2, <2>3, <2>4, <2>5 DEF IsCut
<1>10. ASSUME NEW k \in 1 .. m PROVE IsPiece(seqs[k], bytes, cut[k - 1], cut[k])
  <2> DEFINE i == starts[k]
             upto == e[k]
  <2>0. k \in 0 .. m /\ k - 1 \in 0 .. m
    BY <1>7
  <2>1. i \in S /\ i \in 1 .. n /\ upto \in 0 .. n /\ i <= upto
    <3>1. i \in S /\ i <= upto
      BY <1>6
    <3>3. upto \in 0 .. n
      BY <1>6, <2>0 DEF IsCut
    <3> QED BY <1>2, <3>1, <3>3
  <2>2. upto \in 1 .. n /\ e[k - 1] = i - 1
    <3>1. e[k - 1] = i - 1
      BY <1>6
    <3> HIDE DEF i, upto
    <3> QED BY <1>1, <2>1, <3>1
  <2>3. ~ Low(v[i])
    BY <2>1 DEF S, Utf16Starts
  <2>4. ASSUME NEW j \in i + 1 .. upto PROVE Low(v[j])
    <3>1. j \notin S
      BY <1>6
    <3>2. j \in 1 .. n
      BY <1>1, <2>1, <2>2
    <3> QED BY <1>1, <3>1, <3>2 DEF S, Utf16Starts
  <2>5. upto = n \/ ~ Low(v[upto + 1])
    BY <1>6 DEF S, Utf16Starts
  <2>6. seqs[k] = Utf16Char(Utf16At(v, i), order)
    BY <1>5, <1>7
  <2>7. cut[k] = 2 * upto /\ cut[k - 1] = 2 * (i - 1)
    BY <2>0, <2>2
  <2> HIDE DEF i, upto, seqs, cut
  <2>8. Utf16Run(v, i, upto)
    BY <2>1, <2>2, <2>3, <2>4, <2>5 DEF Utf16Run
  <2>9. IsPiece(Utf16Char(Utf16At(v, i), order), bytes, 2 * (i - 1), 2 * upto)
    BY <2>8, Utf16Piece
  <2> QED BY <2>6, <2>7, <2>9
<1> HIDE DEF seqs, cut
<1>11. FlattenSeq(seqs) = bytes
  <2>1. 2 * n = Len(bytes)
    OBVIOUS
  <2>2. IsCut(cut, Len(seqs), Len(bytes))
    BY <1>8, <1>9, <2>1
  <2>3. \A k \in 1 .. Len(seqs) : IsPiece(seqs[k], bytes, cut[k - 1], cut[k])
    BY <1>8, <1>10
  <2> QED BY <1>1, <1>8, <2>2, <2>3, FlattenIs
<1> QED BY <1>4, <1>11 DEF text

\* UTF-32: a scalar and its four bytes.
WordValue(x, y, z) == 65536 * x + 256 * y + z
WordOf(c, order) ==
  OrderedBytes(<<0, c \div 65536, (c \div 256) % 256, c % 256>>, order)
IsWord(c, x, y, z) == c \div 65536 = x /\ (c \div 256) % 256 = y /\ c % 256 = z
\* Three bytes make a scalar, and come apart again.
LEMMA WordApart ==
  ASSUME NEW x \in Nat, NEW y \in 0 .. 255, NEW z \in 0 .. 255
  PROVE  IsWord(WordValue(x, y, z), x, y, z)
<1> DEFINE c == WordValue(x, y, z)
<1>1. /\ y \in Nat /\ y < 256 /\ z \in Nat /\ z < 256
      /\ 256 \in Nat \ {0} /\ 65536 \in Nat \ {0}
  OBVIOUS
<1>2. c \div 256 = 256 * x + y /\ c % 256 = z
  <2> DEFINE h == 256 * x + y
  <2>1. h \in Nat /\ c = 256 * h + z
    BY <1>1 DEF WordValue
  <2> HIDE DEF h, c
  <2>2. c \div 256 = h /\ c % 256 = z
    BY <1>1, <2>1, DivisionBack
  <2> QED BY <2>2 DEF h
<1>3. (256 * x + y) % 256 = y
  BY <1>1, DivisionBack
<1>4. c \div 65536 = x
  <2> DEFINE l == 256 * y + z
  <2>1. l \in Nat /\ l < 65536 /\ c = 65536 * x + l
    BY <1>1 DEF WordValue
  <2> HIDE DEF l, c
  <2> QED BY <1>1, <2>1, DivisionBack
<1> HIDE DEF c
<1>5. IsWord(c, x, y, z)
  BY <1>2, <1>3, <1>4 DEF IsWord
<1> QED BY <1>5 DEF c

\* Four bytes, and their reverse.
LEMMA FourBytes ==
  ASSUME NEW a, NEW b, NEW c, NEW d
  PROVE  /\ IsList(<<a, b, c, d>>) /\ Len(<<a, b, c, d>>) = 4
         /\ <<a, b, c, d>>[1] = a /\ <<a, b, c, d>>[2] = b
         /\ <<a, b, c, d>>[3] = c /\ <<a, b, c, d>>[4] = d
         /\ Reverse(<<a, b, c, d>>) = <<d, c, b, a>>
<1>1. Reverse(<<a, b, c, d>>) = [i \in 1 .. 4 |-> <<a, b, c, d>>[(4 - i) + 1]]
  BY DEF Reverse
<1>2. \A i \in 1 .. 4 : i = 1 \/ i = 2 \/ i = 3 \/ i = 4
  OBVIOUS
<1>3. \A i \in 1 .. 4 : <<a, b, c, d>>[(4 - i) + 1] = <<d, c, b, a>>[i]
  BY <1>2
<1>4. [i \in 1 .. 4 |-> <<a, b, c, d>>[(4 - i) + 1]] = <<d, c, b, a>>
  BY <1>3
<1> QED BY <1>1, <1>4 DEF IsList

UnitWord(unit) == WordValue(unit[2], unit[3], unit[4])
FourAt(bytes, i) == <<bytes[4 * i - 3], bytes[4 * i - 2], bytes[4 * i - 1], bytes[4 * i]>>
\* A unit of four bytes that is a scalar is had back.
LEMMA WordBack ==
  ASSUME NEW bytes, IsBytes(bytes), NEW i \in Nat \ {0}, 4 * i <= Len(bytes), NEW order,
         NEW unit, unit = Unit(bytes, i, 4, order), Scalar(unit)
  PROVE  WordOf(UnitWord(unit), order) = FourAt(bytes, i)
<1> DEFINE a == bytes[4 * i - 3]
           b == bytes[4 * i - 2]
           c == bytes[4 * i - 1]
           d == bytes[4 * i]
           chunk == SubSeq(bytes, 4 * (i - 1) + 1, 4 * i)
<1>1. /\ 4 * i - 3 \in 1 .. Len(bytes) /\ 4 * i - 2 \in 1 .. Len(bytes)
      /\ 4 * i - 1 \in 1 .. Len(bytes) /\ 4 * i \in 1 .. Len(bytes)
  BY DEF IsBytes, IsList
<1>2. a \in 0 .. 255 /\ b \in 0 .. 255 /\ c \in 0 .. 255 /\ d \in 0 .. 255
  BY <1>1 DEF IsBytes
<1>3. chunk = <<a, b, c, d>>
  <2>1. 4 * (i - 1) + 1 = 4 * i - 3 /\ 4 * i - (4 * i - 3) + 1 = 4
    OBVIOUS
  <2>2. chunk = [k \in 1 .. 4 |-> bytes[k + (4 * i - 3) - 1]]
    BY <2>1
  <2>3. /\ 1 + (4 * i - 3) - 1 = 4 * i - 3 /\ 2 + (4 * i - 3) - 1 = 4 * i - 2
        /\ 3 + (4 * i - 3) - 1 = 4 * i - 1 /\ 4 + (4 * i - 3) - 1 = 4 * i
    OBVIOUS
  <2>4. \A k \in 1 .. 4 : k = 1 \/ k = 2 \/ k = 3 \/ k = 4
    OBVIOUS
  <2>5. \A k \in 1 .. 4 : bytes[k + (4 * i - 3) - 1] = <<a, b, c, d>>[k]
    <3>1. /\ bytes[1 + (4 * i - 3) - 1] = a /\ bytes[2 + (4 * i - 3) - 1] = b
          /\ bytes[3 + (4 * i - 3) - 1] = c /\ bytes[4 + (4 * i - 3) - 1] = d
      BY <2>3
    <3> DEFINE place(k) == k + (4 * i - 3) - 1
               w == <<a, b, c, d>>
    <3>2. w[1] = a /\ w[2] = b /\ w[3] = c /\ w[4] = d
      OBVIOUS
    <3>3. /\ bytes[place(1)] = w[1] /\ bytes[place(2)] = w[2]
          /\ bytes[place(3)] = w[3] /\ bytes[place(4)] = w[4]
      BY <3>1, <3>2
    <3> HIDE DEF place, w
    <3>4. \A k \in 1 .. 4 : bytes[place(k)] = w[k]
      BY <2>4, <3>3
    <3> QED BY <3>4 DEF place, w
  <2>6. [k \in 1 .. 4 |-> bytes[k + (4 * i - 3) - 1]] = <<a, b, c, d>>
    <3> HIDE DEF a, b, c, d
    <3> QED BY <2>5
  <2> QED BY <2>2, <2>6
<1>4. FourAt(bytes, i) = <<a, b, c, d>>
  BY DEF FourAt
<1> HIDE DEF a, b, c, d, chunk
<1>5. CASE order = "msbFirst"
  <2>1. unit = <<a, b, c, d>>
    BY <1>3, <1>5 DEF Unit, chunk
  <2> DEFINE w == WordValue(b, c, d)
  <2>2. UnitWord(unit) = w /\ a = 0
    BY <2>1, FourBytes DEF UnitWord, Scalar
  <2>3. IsWord(w, b, c, d)
    <3>1. b \in Nat
      BY <1>2
    <3>2. c \in 0 .. 255
      BY <1>2
    <3>3. d \in 0 .. 255
      BY <1>2
    <3> QED BY <3>1, <3>2, <3>3, WordApart
  <2> HIDE DEF w
  <2>4. WordOf(w, order) = <<a, b, c, d>>
    BY <1>5, <2>2, <2>3 DEF WordOf, OrderedBytes, IsWord
  <2> QED BY <1>4, <2>2, <2>4
<1>6. CASE order # "msbFirst"
  <2>1. unit = <<d, c, b, a>>
    <3>1. unit = Reverse(chunk)
      BY <1>6 DEF Unit, chunk
    <3>2. Reverse(<<a, b, c, d>>) = <<d, c, b, a>>
      BY FourBytes
    <3> QED BY <1>3, <3>1, <3>2
  <2> DEFINE w == WordValue(c, b, a)
  <2>2. UnitWord(unit) = w /\ d = 0
    BY <2>1, FourBytes DEF UnitWord, Scalar
  <2>3. IsWord(w, c, b, a)
    <3>1. c \in Nat
      BY <1>2
    <3>2. b \in 0 .. 255
      BY <1>2
    <3>3. a \in 0 .. 255
      BY <1>2
    <3> QED BY <3>1, <3>2, <3>3, WordApart
  <2> HIDE DEF w
  <2>4. WordOf(w, order) = Reverse(<<d, c, b, a>>)
    BY <1>6, <2>2, <2>3 DEF WordOf, OrderedBytes, IsWord
  <2>5. WordOf(w, order) = <<a, b, c, d>>
    BY <2>4, FourBytes
  <2> QED BY <1>4, <2>2, <2>5
<1> QED BY <1>5, <1>6

\* Words flattened are the bytes they were read from.
AreScalars(bytes, order) ==
  \A i \in 1 .. Len(bytes) \div 4 : Scalar(Unit(bytes, i, 4, order))
Utf32Text(bytes, order) ==
  [i \in 1 .. Len(bytes) \div 4 |-> UnitWord(Unit(bytes, i, 4, order))]
LEMMA EncodedUtf32 ==
  ASSUME NEW bytes, IsBytes(bytes), Len(bytes) % 4 = 0, NEW order, AreScalars(bytes, order)
  PROVE  Encoded(Utf32Text(bytes, order), "UTF-32", order) = bytes
<1> DEFINE n == Len(bytes) \div 4
           text == Utf32Text(bytes, order)
           seqs == [k \in 1 .. n |-> WordOf(text[k], order)]
           e == [k \in 0 .. n |-> 4 * k]
<1>1. n \in Nat /\ 4 * n = Len(bytes) /\ IsList(bytes)
  <2>1. Len(bytes) \in Nat /\ IsList(bytes)
    BY DEF IsBytes, IsList
  <2>2. Len(bytes) = 4 * (Len(bytes) \div 4) + (Len(bytes) % 4) /\ Len(bytes) \div 4 \in Nat
    BY <2>1
  <2> HIDE DEF n
  <2>3. Len(bytes) = 4 * (Len(bytes) \div 4)
    BY <2>1, <2>2
  <2> QED BY <2>1, <2>2, <2>3 DEF n
<1>2. DOMAIN text = 1 .. n
  BY DEF Utf32Text
<1>3. Encoded(text, "UTF-32", order) = FlattenSeq([k \in DOMAIN text |-> WordOf(text[k], order)])
  <2> HIDE DEF text
  <2> QED BY DEF Encoded, WordOf, OrderedBytes
<1>4. Encoded(text, "UTF-32", order) = FlattenSeq(seqs)
  <2> HIDE DEF text
  <2> QED BY <1>2, <1>3
<1> HIDE DEF n
<1>5. IsList(seqs) /\ Len(seqs) = n
  BY <1>1 DEF IsList
<1>6. IsCut(e, n, Len(bytes))
  <2>1. \A k \in 0 .. n : e[k] = 4 * k
    OBVIOUS
  <2>2. 0 \in 0 .. n /\ n \in 0 .. n /\ Len(bytes) \in Nat
    BY <1>1
  <2> HIDE DEF e
  <2>3. ASSUME NEW k \in 0 .. n PROVE e[k] \in 0 .. Len(bytes)
    BY <1>1, <2>1
  <2>4. ASSUME NEW k \in 1 .. n PROVE e[k - 1] <= e[k]
    <3>1. k \in 0 .. n /\ k - 1 \in 0 .. n
      BY <1>1
    <3> QED BY <2>1, <3>1
  <2> QED BY <1>1, <2>1, <2>2, <2>3, <2>4 DEF IsCut
<1>7. ASSUME NEW k \in 1 .. n PROVE IsPiece(seqs[k], bytes, e[k - 1], e[k])
  <2> DEFINE unit == Unit(bytes, k, 4, order)
             a == bytes[4 * k - 3]
             b == bytes[4 * k - 2]
             c == bytes[4 * k - 1]
             d == bytes[4 * k]
  <2>1. k \in Nat \ {0} /\ 4 * k <= Len(bytes)
    BY <1>1
  <2>2. Scalar(unit)
    BY DEF AreScalars, n
  <2>3. text[k] = UnitWord(unit)
    BY DEF Utf32Text, n
  <2> HIDE DEF unit
  <2>4. WordOf(UnitWord(unit), order) = FourAt(bytes, k)
    BY <2>1, <2>2, WordBack DEF unit
  <2>5. seqs[k] = <<a, b, c, d>>
    <3>1. seqs[k] = WordOf(text[k], order)
      OBVIOUS
    <3> HIDE DEF seqs, text
    <3> QED BY <2>3, <2>4, <3>1 DEF FourAt
  <2>6. e[k - 1] = 4 * (k - 1) /\ e[k] = 4 * k /\ 4 * k - 4 * (k - 1) = 4
    <3>1. k \in 0 .. n /\ k - 1 \in 0 .. n
      BY <1>1
    <3>2. e[k - 1] = 4 * (k - 1) /\ e[k] = 4 * k
      BY <3>1
    <3>3. 4 * k - 4 * (k - 1) = 4
      BY <2>1
    <3> QED BY <3>2, <3>3
  <2>7. /\ 4 * (k - 1) + 1 = 4 * k - 3 /\ 4 * (k - 1) + 2 = 4 * k - 2
        /\ 4 * (k - 1) + 3 = 4 * k - 1 /\ 4 * (k - 1) + 4 = 4 * k
    BY <2>1
  <2>8. \A j \in 1 .. 4 : j = 1 \/ j = 2 \/ j = 3 \/ j = 4
    OBVIOUS
  <2> HIDE DEF seqs, e
  <2>9. /\ IsList(seqs[k]) /\ Len(seqs[k]) = 4
        /\ seqs[k][1] = a /\ seqs[k][2] = b /\ seqs[k][3] = c /\ seqs[k][4] = d
    <3> HIDE DEF a, b, c, d
    <3> QED BY <2>5, FourBytes
  <2> QED BY <2>6, <2>7, <2>8, <2>9 DEF IsPiece
<1> HIDE DEF seqs, e
<1>8. FlattenSeq(seqs) = bytes
  BY <1>1, <1>5, <1>6, <1>7, FlattenIs
<1> QED BY <1>4, <1>8 DEF text

-------------------------------------------------------------------------------
\* Whatever decodes stands for its bytes, in every character set.
AllCharsets ==
  {"UTF-8", "US-ASCII", "ISO-8859-1", "Windows-1252", "UTF-16", "UTF-32"}
LEMMA DecodedBack ==
  ASSUME NEW bytes, IsBytes(bytes), NEW charset \in AllCharsets, NEW order,
         NEW text \in Decode(bytes, charset, order)
  PROVE  Encoded(text, charset, order) = bytes
<1>0. /\ IsList(bytes) /\ Len(bytes) \in Nat
      /\ \A i \in 1 .. Len(bytes) : bytes[i] \in 0 .. 255
  BY DEF IsBytes, IsList
<1>1. CASE charset = "UTF-8"
  <2>1. text \in FromUtf8(bytes)
    BY <1>1 DEF Decode
  <2>2. Utf8Valid(bytes) /\ text = Utf8Text(bytes)
    BY <2>1, FromUtf8Is
  <2> QED BY <1>1, <2>2, EncodedUtf8
<1>2. CASE charset = "US-ASCII"
  <2>1. text = bytes
    BY <1>2 DEF Decode
  <2>2. charset \in {"US-ASCII", "ISO-8859-1"}
    BY <1>2
  <2> QED BY <1>0, <2>1, <2>2, EncodedLatin
<1>3. CASE charset = "ISO-8859-1"
  <2>1. text = bytes
    BY <1>3 DEF Decode
  <2>2. charset \in {"US-ASCII", "ISO-8859-1"}
    BY <1>3
  <2> QED BY <1>0, <2>1, <2>2, EncodedLatin
<1>4. CASE charset = "Windows-1252"
  <2>1. text = [i \in DOMAIN bytes |-> Windows1252(bytes[i])]
    BY <1>4 DEF Decode
  <2> QED BY <1>4, <2>1, EncodedWindows
<1>5. CASE charset = "UTF-16"
  <2> DEFINE v == UnitValues(bytes, order)
             h == Len(bytes) \div 2
  <2>1. text \in DecodeUtf16(bytes, order)
    BY <1>5 DEF Decode
  <2>2. Len(bytes) % 2 = 0
    BY <2>1 DEF DecodeUtf16
  <2>3. h \in Nat /\ 2 * h = Len(bytes)
    <3>1. Len(bytes) = 2 * (Len(bytes) \div 2) + (Len(bytes) % 2) /\ Len(bytes) \div 2 \in Nat
      BY <1>0
    <3>2. h \in Nat /\ Len(bytes) = 2 * h + (Len(bytes) % 2)
      BY <3>1
    <3> HIDE DEF h
    <3> QED BY <1>0, <2>2, <3>2
  <2>4. DecodeUtf16(bytes, order) = FromUtf16(v)
    <3> DEFINE units == Units(bytes, 2, order)
    <3>1. DOMAIN units = 1 .. h
      BY DEF Units
    <3>2. \A i \in 1 .. h : 256 * units[i][1] + units[i][2] = UnitValue(bytes, i, order)
      BY DEF Units, UnitValue, TwoDigits
    <3>3. DecodeUtf16(bytes, order)
            = FromUtf16([i \in DOMAIN units |-> 256 * units[i][1] + units[i][2]])
      BY <2>2 DEF DecodeUtf16
    <3> HIDE DEF units
    <3>4. [i \in DOMAIN units |-> 256 * units[i][1] + units[i][2]] = v
      BY <3>1, <3>2 DEF UnitValues
    <3> QED BY <3>3, <3>4
  <2>5. Utf16Valid(v) /\ text = Utf16Text(v)
    <3> HIDE DEF v
    <3> QED BY <2>1, <2>4, FromUtf16Is
  <2>6. IsList(v) /\ Len(v) = h
    BY <2>3 DEF IsList, UnitValues
  <2>7. ASSUME NEW i \in 1 .. h PROVE v[i] \in Nat /\ v[i] < 65536
    <3>1. i \in Nat \ {0} /\ 2 * i <= Len(bytes)
      <4> HIDE DEF h
      <4> QED BY <2>3
    <3>2. IsUnit(bytes, i, order)
      BY <3>1, UnitBack
    <3>3. v[i] = UnitValue(bytes, i, order)
      BY DEF UnitValues
    <3> QED BY <3>2, <3>3 DEF IsUnit
  <2> HIDE DEF h
  <2>8. IsUnits(v) /\ 2 * Len(v) = Len(bytes)
    <3> HIDE DEF v
    <3> QED BY <2>3, <2>6, <2>7 DEF IsUnits
  <2>9. Encoded(Utf16Text(v), "UTF-16", order) = bytes
    BY <2>5, <2>8, EncodedUtf16
  <2> QED BY <1>5, <2>5, <2>9
<1>6. CASE charset = "UTF-32"
  <2> DEFINE units == Units(bytes, 4, order)
             h == Len(bytes) \div 4
  <2>1. text \in DecodeUtf32(bytes, order)
    BY <1>6 DEF Decode
  <2>2. DOMAIN units = 1 .. h /\ \A i \in 1 .. h : units[i] = Unit(bytes, i, 4, order)
    BY DEF Units
  <2>3. /\ Len(bytes) % 4 = 0
        /\ \A i \in DOMAIN units : Scalar(units[i])
        /\ text = [i \in DOMAIN units |->
                     65536 * units[i][2] + 256 * units[i][3] + units[i][4]]
    BY <2>1 DEF DecodeUtf32
  <2> HIDE DEF units
  <2>4. AreScalars(bytes, order)
    BY <2>2, <2>3 DEF AreScalars
  <2>5. text = Utf32Text(bytes, order)
    <3>1. \A i \in 1 .. h : 65536 * units[i][2] + 256 * units[i][3] + units[i][4]
                              = UnitWord(Unit(bytes, i, 4, order))
      BY <2>2 DEF UnitWord, WordValue
    <3>2. Utf32Text(bytes, order) = [i \in 1 .. h |-> UnitWord(Unit(bytes, i, 4, order))]
      BY DEF Utf32Text
    <3> HIDE DEF h
    <3> QED BY <2>2, <2>3, <3>1, <3>2
  <2>6. Encoded(Utf32Text(bytes, order), "UTF-32", order) = bytes
    BY <2>3, <2>4, EncodedUtf32
  <2> QED BY <1>6, <2>5, <2>6
<1> QED BY <1>1, <1>2, <1>3, <1>4, <1>5, <1>6 DEF AllCharsets

\* The text of some bytes, or the error of bytes that are no text.
DecodedText(bytes, charset, order) ==
  LET decoded == Decode(bytes, charset, order)
  IN IF decoded = {} THEN NoText("InvalidText") ELSE TextOf(CHOOSE text \in decoded : TRUE)

\* A text that decodes is encoded to the bytes it was decoded from.
LEMMA DecodedTextStands ==
  ASSUME NEW bytes, IsBytes(bytes), NEW charset \in AllCharsets, NEW order,
         DecodedText(bytes, charset, order).error = "none"
  PROVE  Encoded(DecodedText(bytes, charset, order).v, charset, order) = bytes
<1> DEFINE decoded == Decode(bytes, charset, order)
           text == CHOOSE t \in decoded : TRUE
<1>1. decoded # {}
  BY DEF DecodedText, NoText
<1>2. DecodedText(bytes, charset, order).v = text
  BY <1>1 DEF DecodedText, TextOf
<1>3. text \in decoded
  BY <1>1
<1> HIDE DEF text
<1> QED BY <1>2, <1>3, DecodedBack

\* The compiled text is the one that is interpreted.
LEMMA CheckedIsDecoded ==
  ASSUME NEW bytes, IsBytes(bytes), NEW charset \in {"UTF-8", "US-ASCII"}, NEW order
  PROVE  TextChecked(bytes, charset = "US-ASCII") = DecodedText(bytes, charset, order)
<1>1. CASE charset = "UTF-8"
  <2>1. Decode(bytes, charset, order) = FromUtf8(bytes)
    BY <1>1 DEF Decode
  <2>2. ~ (charset = "US-ASCII")
    BY <1>1
  <2> QED BY <2>1, <2>2 DEF TextChecked, DecodedText
<1>2. CASE charset = "US-ASCII"
  <2>1. Decode(bytes, charset, order) = IF IsAscii(bytes) THEN {bytes} ELSE {}
    BY <1>2 DEF Decode
  <2>2. CASE IsAscii(bytes)
    <3>1. FromUtf8(bytes) = {bytes}
      BY <2>2, AsciiIsUtf8
    <3>2. {bytes} # {}
      OBVIOUS
    <3> QED BY <1>2, <2>1, <2>2, <3>1, <3>2 DEF TextChecked, DecodedText
  <2>3. CASE ~ IsAscii(bytes)
    <3>1. TextChecked(bytes, charset = "US-ASCII") = NoText("InvalidText")
      BY <1>2, <2>3 DEF TextChecked
    <3>2. DecodedText(bytes, charset, order) = NoText("InvalidText")
      BY <2>1, <2>3 DEF DecodedText
    <3> QED BY <3>1, <3>2
  <2> QED BY <2>2, <2>3
<1> QED BY <1>1, <1>2

\* A slice of a list, named by where it starts and how long it is.
Slice(s, a, n) == SubSeq(s, a + 1, a + n)
\* Its length and its elements.
LEMMA SliceOf ==
  ASSUME NEW s, IsList(s), NEW a \in Nat, NEW n \in Nat
  PROVE  /\ IsList(Slice(s, a, n)) /\ Len(Slice(s, a, n)) = n
         /\ \A i \in 1 .. n : Slice(s, a, n)[i] = s[a + i]
<1>1. (a + n) - (a + 1) + 1 = n /\ \A i \in 1 .. n : i + (a + 1) - 1 = a + i
  OBVIOUS
<1>2. Slice(s, a, n) = [i \in 1 .. n |-> s[i + (a + 1) - 1]]
  BY <1>1 DEF Slice
<1>3. Slice(s, a, n) = [i \in 1 .. n |-> s[a + i]]
  BY <1>1, <1>2
<1> QED BY <1>3 DEF IsList

\* A slice of bytes is bytes.
LEMMA SliceBytes ==
  ASSUME NEW s, IsBytes(s), NEW a \in Nat, NEW n \in Nat, a + n <= Len(s)
  PROVE  IsBytes(Slice(s, a, n)) /\ Len(Slice(s, a, n)) = n
<1>1. IsList(s) /\ Len(s) \in Nat /\ \A i \in 1 .. Len(s) : s[i] \in 0 .. 255
  BY DEF IsBytes, IsList
<1>2. /\ IsList(Slice(s, a, n)) /\ Len(Slice(s, a, n)) = n
      /\ \A i \in 1 .. n : Slice(s, a, n)[i] = s[a + i]
  BY <1>1, SliceOf
<1>3. \A i \in 1 .. n : a + i \in 1 .. Len(s)
  BY <1>1
<1> QED BY <1>1, <1>2, <1>3 DEF IsBytes

\* Two slices that touch are one.
LEMMA SlicesTouch ==
  ASSUME NEW s, IsList(s), NEW a \in Nat, NEW m \in Nat, NEW n \in Nat
  PROVE  Slice(s, a, m) \o Slice(s, a + m, n) = Slice(s, a, m + n)
<1> DEFINE u == Slice(s, a, m)
           v == Slice(s, a + m, n)
           w == Slice(s, a, m + n)
           t == u \o v
<1>0. a + m \in Nat /\ m + n \in Nat
  OBVIOUS
<1>1. IsList(u) /\ Len(u) = m /\ \A i \in 1 .. m : u[i] = s[a + i]
  BY SliceOf
<1>2. IsList(v) /\ Len(v) = n /\ \A i \in 1 .. n : v[i] = s[(a + m) + i]
  BY <1>0, SliceOf
<1>3. IsList(w) /\ Len(w) = m + n /\ \A i \in 1 .. m + n : w[i] = s[a + i]
  BY <1>0, SliceOf
<1> HIDE DEF u, v, w
<1>4. /\ IsList(t) /\ Len(t) = Len(u) + Len(v)
      /\ \A i \in 1 .. Len(u) : t[i] = u[i]
      /\ \A i \in 1 .. Len(v) : t[Len(u) + i] = v[i]
  <2>1. IsList(u)
    BY <1>1
  <2>2. IsList(v)
    BY <1>2
  <2> QED BY <2>1, <2>2, ListConcat
<1> HIDE DEF t
<1>5. ASSUME NEW i \in 1 .. m + n PROVE t[i] = w[i]
  <2>1. CASE i <= m
    <3>1. i \in 1 .. m
      BY <2>1
    <3> QED BY <1>1, <1>3, <1>4, <3>1
  <2>2. CASE ~ (i <= m)
    <3>1. i - m \in 1 .. n /\ m + (i - m) = i /\ (a + m) + (i - m) = a + i
      BY <2>2
    <3>2. t[m + (i - m)] = v[i - m] /\ v[i - m] = s[(a + m) + (i - m)]
      BY <1>1, <1>2, <1>4, <3>1
    <3> QED BY <1>3, <3>1, <3>2
  <2> QED BY <2>1, <2>2
<1>6. t = w
  BY <1>1, <1>2, <1>3, <1>4, <1>5 DEF IsList
<1> QED BY <1>6 DEF t, u, v, w

\* decode_string: what has been found is decoded.
LEMMA DecodeStringIs ==
  ASSUME NEW buffer, NEW d, NEW charset, NEW order, NEW found, found = Delimited(buffer, d)
  PROVE  DecodeString(buffer, d, charset, order)
           = IF found.error # "none" THEN found ELSE DecodedText(found.v, charset, order)
  BY DEF DecodeString, DecodedText

\* A text ends at the first terminator.
EndsAt(buffer, terminator, p) ==
  /\ p \in Nat
  /\ p + Len(terminator) <= Len(buffer)
  /\ Slice(buffer, 0, p + Len(terminator)) = Slice(buffer, 0, p) \o terminator
  /\ \A i \in 0 .. p - 1 : Slice(buffer, i, Len(terminator)) # terminator
\* The first place of a terminator is where the text ends.
LEMMA FirstPlaceEnds ==
  ASSUME NEW buffer, IsBytes(buffer), NEW terminator, IsList(terminator),
         NEW places, places = PlacesOf(buffer, terminator), places # {}
  PROVE  EndsAt(buffer, terminator, FirstPlace(places))
<1> DEFINE p == FirstPlace(places)
           n == Len(buffer)
           t == Len(terminator)
<1>1. n \in Nat /\ t \in Nat /\ IsList(buffer)
  BY DEF IsBytes, IsList
<1>2. places \subseteq Nat
  BY <1>1 DEF PlacesOf
<1>3. \E m \in places : \A k \in places : m <= k
  BY <1>2, Least
<1>4. p \in places /\ \A k \in places : p <= k
  BY <1>3 DEF FirstPlace
<1> HIDE DEF p
<1>5. p \in Nat /\ p + t <= n /\ Slice(buffer, p, t) = terminator
  <2>1. p \in 0 .. n - t /\ SubSeq(buffer, p + 1, p + t) = terminator
    BY <1>4 DEF PlacesOf
  <2> QED BY <1>1, <2>1 DEF Slice
<1>6. Slice(buffer, 0, p + t) = Slice(buffer, 0, p) \o terminator
  <2>1. Slice(buffer, 0, p) \o Slice(buffer, 0 + p, t) = Slice(buffer, 0, p + t)
    <3>1. 0 \in Nat /\ p \in Nat /\ t \in Nat /\ IsList(buffer)
      BY <1>1, <1>5
    <3> HIDE DEF t
    <3> QED BY <3>1, SlicesTouch
  <2>2. 0 + p = p
    BY <1>5
  <2> QED BY <1>5, <2>1, <2>2
<1>7. ASSUME NEW i \in 0 .. p - 1 PROVE Slice(buffer, i, t) # terminator
  <2>1. SUFFICES ASSUME Slice(buffer, i, t) = terminator PROVE FALSE
    OBVIOUS
  <2>2. i \in 0 .. n - t
    BY <1>1, <1>5
  <2>3. i \in places
    BY <2>1, <2>2 DEF PlacesOf, Slice
  <2> QED BY <1>4, <1>5, <2>3
<1>8. EndsAt(buffer, terminator, p)
  BY <1>5, <1>6, <1>7 DEF EndsAt
<1> QED BY <1>8 DEF p

\* An empty terminator ends a text at once.
LEMMA EmptyTerminator ==
  ASSUME NEW buffer, IsBytes(buffer),
         NEW places, places = PlacesOf(buffer, <<>>)
  PROVE  places # {} /\ FirstPlace(places) = 0
<1>1. Len(buffer) \in Nat /\ IsList(buffer)
  BY DEF IsBytes, IsList
<1>2. Len(<<>>) = 0 /\ IsList(<<>>)
  BY DEF IsList
<1>3. SubSeq(buffer, 0 + 1, 0 + 0) = <<>>
  <2>1. 0 + 1 = 1 /\ 0 + 0 = 0
    OBVIOUS
  <2>2. IsList(Slice(buffer, 0, 0)) /\ Len(Slice(buffer, 0, 0)) = 0
    BY <1>1, SliceOf
  <2>3. Slice(buffer, 0, 0) = <<>>
    BY <2>2 DEF IsList
  <2> QED BY <2>1, <2>3 DEF Slice
<1>4. 0 \in places
  <2>1. 0 \in 0 .. Len(buffer) - 0
    BY <1>1
  <2> QED BY <1>2, <1>3, <2>1 DEF PlacesOf
<1>5. places \subseteq Nat
  BY <1>1, <1>2 DEF PlacesOf
<1>6. \E m \in places : \A k \in places : m <= k
  <2>1. places # {}
    BY <1>4
  <2> QED BY <1>5, <2>1, Least
<1>7. FirstPlace(places) \in places /\ \A k \in places : FirstPlace(places) <= k
  BY <1>6 DEF FirstPlace
<1> HIDE DEF FirstPlace
<1>8. FirstPlace(places) \in Nat /\ FirstPlace(places) <= 0
  BY <1>4, <1>5, <1>7
<1> QED BY <1>4, <1>8

-------------------------------------------------------------------------------
\* The words a length is read into have the same powers, and bytes of 8 bits.
LEMMA WordsPow2 ==
  ASSUME NEW n
  PROVE  Words!Pow2(n) = Pow2(n)
  BY DEF Words!Pow2, Pow2
\* A byte has 256 values.
LEMMA Pow2Eight == Pow2(8) = 256 /\ Words!ByteLimit = 256
<1>1. Pow2(0) = 1 /\ \A n \in Nat : Pow2(n + 1) = 2 * Pow2(n)
  BY Pow2Step
<1>2. Pow2(0 + 1) = 2
  BY <1>1
<1>3. Pow2(1 + 1) = 4
  BY <1>1, <1>2
<1>4. Pow2(2 + 1) = 8
  BY <1>1, <1>3
<1>5. Pow2(3 + 1) = 16
  BY <1>1, <1>4
<1>6. Pow2(4 + 1) = 32
  BY <1>1, <1>5
<1>7. Pow2(5 + 1) = 64
  BY <1>1, <1>6
<1>8. Pow2(6 + 1) = 128
  BY <1>1, <1>7
<1>9. Pow2(7 + 1) = 256
  BY <1>1, <1>8
<1>10. 7 + 1 = 8
  OBVIOUS
<1> QED BY <1>9, <1>10, WordsPow2 DEF Words!ByteLimit

\* from_be_bytes, byte by byte.
LEMMA WordsFollow ==
  ASSUME NEW n \in Nat, NEW w \in [1 .. n -> Nat]
  PROVE  \E h \in [0 .. n -> Nat] :
           Words!FromBe(w) = h[n] /\ h[0] = 0 /\ \A j \in 1 .. n : h[j] = h[j - 1] * Words!ByteLimit + w[j]
<1> DEFINE upto == CHOOSE g : g = [k \in 0 .. n |-> IF k = 0 THEN 0 ELSE g[k - 1] * Words!ByteLimit + w[k]]
           Solves(g) == g = [k \in 0 .. n |-> IF k = 0 THEN 0 ELSE g[k - 1] * Words!ByteLimit + w[k]]
<1>1. Words!FromBe(w) = upto[n]
  <2>1. Len(w) = n
    OBVIOUS
  <2> QED BY <2>1 DEF Words!FromBe
<1>2. /\ \E g \in [0 .. n -> Nat] :
            \A k \in 0 .. n : g[k] = IF k = 0 THEN 0 ELSE g[k - 1] * Words!ByteLimit + w[k]
      /\ \A g : (\A k \in 0 .. n : g[k] = IF k = 0 THEN 0 ELSE g[k - 1] * Words!ByteLimit + w[k])
                   => \A k \in 0 .. n : g[k] \in Nat
  <2>1. Words!ByteLimit \in Nat
    BY Pow2Eight
  <2>2. w \in [1 .. n -> Nat]
    OBVIOUS
  <2> HIDE DEF Solves, upto
  <2> QED BY <2>1, <2>2, Horner, Zenon
<1>3. \E g : Solves(g)
  BY <1>2
<1>4. Solves(upto)
  <2>1. upto = CHOOSE h : Solves(h)
    OBVIOUS
  <2> HIDE DEF Solves, upto
  <2> QED BY <1>3, <2>1
<1> HIDE DEF upto
<1>5. \A k \in 0 .. n : upto[k] = IF k = 0 THEN 0 ELSE upto[k - 1] * Words!ByteLimit + w[k]
  BY <1>4
<1>6. upto \in [0 .. n -> Nat]
  BY <1>2, <1>4, <1>5
<1>7. 0 \in 0 .. n /\ \A j \in 1 .. n : j \in 0 .. n /\ j # 0
  OBVIOUS
<1>8. upto[0] = 0 /\ \A j \in 1 .. n : upto[j] = upto[j - 1] * Words!ByteLimit + w[j]
  BY <1>5, <1>7
<1> QED BY <1>1, <1>6, <1>8

\* The same of a list of bytes.
Counts256(h, w, n) ==
  /\ h \in [0 .. n -> Nat] /\ h[0] = 0
  /\ \A j \in 1 .. n : h[j] = h[j - 1] * 256 + w[j]
LEMMA WordsFromBe ==
  ASSUME NEW w, IsBytes(w), NEW n, n = Len(w)
  PROVE  \E h : Counts256(h, w, n) /\ Words!FromBe(w) = h[n]
<1>1. n \in Nat /\ w \in [1 .. n -> Nat]
  <2>1. Len(w) \in Nat /\ w = [i \in 1 .. Len(w) |-> w[i]] /\ \A i \in 1 .. Len(w) : w[i] \in 0 .. 255
    BY DEF IsBytes, IsList
  <2>2. \A b \in 0 .. 255 : b \in Nat
    OBVIOUS
  <2>3. \A i \in 1 .. n : w[i] \in Nat
    BY <2>1, <2>2, Zenon
  <2> QED BY <2>1, <2>3
<1>2. PICK h \in [0 .. n -> Nat] :
        /\ Words!FromBe(w) = h[n] /\ h[0] = 0
        /\ \A j \in 1 .. n : h[j] = h[j - 1] * Words!ByteLimit + w[j]
  BY <1>1, WordsFollow
<1>3. Counts256(h, w, n)
  BY <1>2, Pow2Eight DEF Counts256
<1> QED BY <1>2, <1>3

\* The same digits count to the same number.
LEMMA CountsSame ==
  ASSUME NEW n \in Nat, NEW m \in Nat, n <= m, NEW w, NEW u, \A i \in 1 .. n : w[i] = u[i],
         NEW g, Counts256(g, w, n), NEW h, Counts256(h, u, m)
  PROVE  g[n] = h[n]
<1> DEFINE T == {k \in 0 .. n : g[k] = h[k]}
<1>1. g[0] = 0 /\ h[0] = 0
  BY DEF Counts256
<1>2. ASSUME NEW k \in 1 .. n, k - 1 \in T PROVE k \in T
  <2>1. k \in 1 .. m
    OBVIOUS
  <2>2. g[k] = g[k - 1] * 256 + w[k]
    BY DEF Counts256
  <2>3. h[k] = h[k - 1] * 256 + u[k]
    BY <2>1 DEF Counts256
  <2> QED BY <1>2, <2>2, <2>3
<1>3. 0 \in T
  BY <1>1
<1> HIDE DEF T
<1>4. 0 .. n \subseteq T
  BY <1>2, <1>3, InductionTo
<1> QED BY <1>4 DEF T

\* The first bytes of a number: below their power, and what a shift leaves.
LEMMA CountsBelow ==
  ASSUME NEW n \in Nat, NEW w, \A i \in 1 .. n : w[i] \in 0 .. 255,
         NEW h, Counts256(h, w, n), NEW k \in 0 .. n
  PROVE  h[k] \in Nat /\ h[k] < Pow2(8 * k)
<1> DEFINE T == {j \in 0 .. n : h[j] \in Nat /\ h[j] < Pow2(8 * j)}
<1>1. 0 \in T
  <2>1. h[0] = 0 /\ Pow2(8 * 0) = 1
    BY Pow2Step DEF Counts256
  <2> QED BY <2>1
<1>2. ASSUME NEW j \in 1 .. n, j - 1 \in T PROVE j \in T
  <2> DEFINE a == h[j - 1]
             p == Pow2(8 * (j - 1))
  <2>1. a \in Nat /\ a < p
    BY <1>2
  <2>2. h[j] = a * 256 + w[j] /\ w[j] \in 0 .. 255
    BY DEF Counts256
  <2>3. 8 * (j - 1) \in Nat /\ 8 * (j - 1) + 8 = 8 * j
    OBVIOUS
  <2>4. Pow2(8 * j) = p * 256 /\ p \in Nat
    <3> DEFINE e == 8 * (j - 1)
    <3>1. e \in Nat /\ 8 \in Nat /\ e + 8 = 8 * j
      BY <2>3
    <3> HIDE DEF e
    <3>2. Pow2(e + 8) = Pow2(e) * Pow2(8) /\ Pow2(e) \in Nat
      BY <3>1, Pow2Sum, Pow2Step
    <3>3. Pow2(8 * j) = Pow2(e) * 256 /\ Pow2(e) \in Nat
      BY <3>1, <3>2, Pow2Eight
    <3> QED BY <3>3 DEF e
  <2> HIDE DEF a, p
  <2>5. h[j] \in Nat
    BY <2>1, <2>2
  <2>6. a + 1 <= p
    BY <2>1, <2>4
  <2>7. h[j] < p * 256
    BY <2>1, <2>2, <2>4, <2>6
  <2> QED BY <2>4, <2>5, <2>7
<1> HIDE DEF T
<1>3. 0 .. n \subseteq T
  BY <1>1, <1>2, InductionTo
<1> QED BY <1>3 DEF T

\* What a shift leaves is the number of the first bytes.
LEMMA CountsShifted ==
  ASSUME NEW n \in Nat, NEW w, \A i \in 1 .. n : w[i] \in 0 .. 255,
         NEW h, Counts256(h, w, n), NEW k \in 0 .. n
  PROVE  h[n] \div Pow2(8 * (n - k)) = h[k]
<1> DEFINE m == n - k
           T == {i \in 0 .. m : h[k + i] \div Pow2(8 * i) = h[k]}
<1>0. m \in Nat /\ \A j \in 0 .. n : h[j] \in Nat
  BY DEF Counts256
<1>1. 0 \in T
  <2>1. k + 0 = k /\ Pow2(8 * 0) = 1
    BY Pow2Step
  <2>2. h[k] \div 1 = h[k]
    BY <1>0
  <2> QED BY <1>0, <2>1, <2>2
<1>2. ASSUME NEW i \in 1 .. m, i - 1 \in T PROVE i \in T
  <2> DEFINE a == h[k + (i - 1)]
             b == h[k + i]
             p == Pow2(8 * (i - 1))
  <2>1. a \div p = h[k]
    BY <1>2
  <2>2. k + i \in 1 .. n /\ (k + i) - 1 = k + (i - 1) /\ k + (i - 1) \in 0 .. n
    OBVIOUS
  <2>3. b = a * 256 + w[k + i] /\ w[k + i] \in 0 .. 255 /\ a \in Nat
    BY <1>0, <2>2 DEF Counts256
  <2>4. b \div 256 = a /\ b \in Nat
    <3> HIDE DEF a, b
    <3> QED BY <2>3
  <2>5. 8 * (i - 1) \in Nat /\ 8 + 8 * (i - 1) = 8 * i
    OBVIOUS
  <2>6. Pow2(8 * i) = 256 * p /\ p \in Nat \ {0}
    <3> DEFINE e == 8 * (i - 1)
    <3>1. e \in Nat /\ 8 \in Nat /\ 8 + e = 8 * i
      BY <2>5
    <3> HIDE DEF e
    <3>2. Pow2(8 + e) = Pow2(8) * Pow2(e) /\ Pow2(e) \in Nat \ {0}
      BY <3>1, Pow2Sum, Pow2Step
    <3>3. Pow2(8 * i) = 256 * Pow2(e) /\ Pow2(e) \in Nat \ {0}
      BY <3>1, <3>2, Pow2Eight
    <3> QED BY <3>3 DEF e
  <2>7. (b \div 256) \div p = b \div (256 * p)
    <3>1. b \in Nat /\ 256 \in Nat \ {0} /\ p \in Nat \ {0}
      BY <2>4, <2>6
    <3> HIDE DEF b, p
    <3> QED BY <3>1, DivisionTwice
  <2> HIDE DEF a, p
  <2> QED BY <2>1, <2>4, <2>6, <2>7
<1> HIDE DEF T
<1>3. 0 .. m \subseteq T
  BY <1>0, <1>1, <1>2, InductionTo
<1>4. k + m = n /\ m \in 0 .. m
  BY <1>0
<1> QED BY <1>3, <1>4 DEF T

\* A prefix of whole bytes, as the reader of a word has it.
LEMMA PrefixFails ==
  ASSUME NEW buffer, IsBytes(buffer), NEW k \in Nat, Len(buffer) < k,
         NEW answer, answer = Words!PeekUint(buffer, 0, 8 * k)
  PROVE  answer.error # "none"
<1>1. Len(buffer) \in Nat
  BY DEF IsBytes, IsList
<1>2. 8 * k # 0 /\ 8 * k \in Nat /\ 0 + 8 * k > 8 * Len(buffer)
  BY <1>1
<1>3. Words!LenBits(buffer) = 8 * Len(buffer)
  BY DEF Words!LenBits
<1>4. CASE 8 * k > Words!MaxWidth
  <2>1. answer = Words!Err("TooWide")
    <3>1. Words!MaxWidth \in Nat
      BY TextsAssumption DEF Words!MaxWidth
    <3>2. 8 * k # 0 /\ 8 * k \notin 1 .. Words!MaxWidth
      BY <1>2, <1>4, <3>1
    <3> QED BY <1>4, <3>2 DEF Words!PeekUint
  <2> QED BY <2>1 DEF Words!Err
<1>5. CASE ~ (8 * k > Words!MaxWidth)
  <2>1. Words!MaxWidth \in Nat
    BY TextsAssumption DEF Words!MaxWidth
  <2>2. 8 * k \in 1 .. Words!MaxWidth
    BY <1>2, <1>5, <2>1
  <2>3. answer = Words!Err("OutOfBounds")
    BY <1>2, <1>3, <1>5, <2>2 DEF Words!PeekUint
  <2> QED BY <2>3 DEF Words!Err
<1> QED BY <1>4, <1>5

\* A list, cut or filled up with zeros to so many bytes.
Filled(w, buffer, n) ==
  /\ IsBytes(w) /\ Len(w) = n
  /\ \A i \in 1 .. n : i <= Len(buffer) => w[i] = buffer[i]
\* The load of a prefix.
LEMMA LoadIsFilled ==
  ASSUME NEW buffer, IsBytes(buffer), NEW n, n = 2 * LengthBytes
  PROVE  \E w : Filled(w, buffer, n) /\ Words!WideLoad(buffer, 0) = Words!FromBe(w)
<1> DEFINE m == Len(buffer)
           last == IF n < m THEN n ELSE m
           tail == Slice(buffer, 0, last)
           z == Words!Zeros(n - last)
           w == tail \o z
<1>1. n \in Nat /\ m \in Nat /\ last \in Nat /\ last <= n /\ last <= m /\ n - last \in Nat
  BY TextsAssumption DEF IsBytes, IsList
<1>2. IsBytes(tail) /\ Len(tail) = last
  <2>1. 0 \in Nat /\ 0 + last <= m
    BY <1>1
  <2> HIDE DEF last
  <2> QED BY <1>1, <2>1, SliceBytes
<1>3. \A i \in 1 .. last : tail[i] = buffer[i]
  <2>1. IsList(buffer) /\ 0 \in Nat
    BY DEF IsBytes
  <2> HIDE DEF last
  <2>2. \A i \in 1 .. last : tail[i] = buffer[0 + i]
    BY <1>1, <2>1, SliceOf
  <2> QED BY <1>1, <2>2
<1>4. IsList(z) /\ Len(z) = n - last /\ \A i \in 1 .. n - last : z[i] = 0
  <2> HIDE DEF last
  <2> QED BY <1>1 DEF Words!Zeros, IsList
<1>5. Words!WideLoad(buffer, 0) = Words!FromBe(w)
  <2>1. Words!Rest(buffer, 0, 2 * LengthBytes) = tail
    <3>1. Words!Rest(buffer, 0, n) = SubSeq(buffer, 0 + 1, IF 0 + n < m THEN 0 + n ELSE m)
      BY DEF Words!Rest
    <3>2. 0 + n = n /\ 0 + last = last
      BY <1>1
    <3>3. Words!Rest(buffer, 0, n) = SubSeq(buffer, 0 + 1, last)
      BY <3>1, <3>2
    <3> HIDE DEF last
    <3> QED BY <3>2, <3>3 DEF Slice
  <2> HIDE DEF tail, last
  <2> QED BY <1>2, <2>1 DEF Words!WideLoad
<1> HIDE DEF tail, z, last
<1>6. /\ IsList(w) /\ Len(w) = Len(tail) + Len(z)
      /\ \A i \in 1 .. Len(tail) : w[i] = tail[i]
      /\ \A i \in 1 .. Len(z) : w[Len(tail) + i] = z[i]
  <2>1. IsList(tail)
    BY <1>2 DEF IsBytes
  <2>2. IsList(z)
    BY <1>4
  <2> QED BY <2>1, <2>2, ListConcat
<1> HIDE DEF w
<1>7. Len(w) = n
  BY <1>1, <1>2, <1>4, <1>6
<1>8. ASSUME NEW i \in 1 .. n
      PROVE  w[i] \in 0 .. 255 /\ (i <= m => w[i] = buffer[i])
  <2>1. CASE i <= last
    <3>1. i \in 1 .. last
      BY <1>1, <2>1
    <3>2. w[i] = tail[i]
      BY <1>2, <1>6, <3>1
    <3>3. tail[i] \in 0 .. 255
      BY <1>2, <3>1 DEF IsBytes
    <3> QED BY <1>3, <3>1, <3>2, <3>3
  <2>2. CASE ~ (i <= last)
    <3>1. i - last \in 1 .. n - last /\ last + (i - last) = i
      BY <1>1, <2>2
    <3>2. w[i] = 0
      BY <1>2, <1>4, <1>6, <3>1
    <3>3. ~ (i <= m)
      BY <1>1, <2>2 DEF last
    <3> QED BY <3>2, <3>3
  <2> QED BY <2>1, <2>2
<1>9. Filled(w, buffer, n)
  BY <1>6, <1>7, <1>8 DEF Filled, IsBytes
<1> QED BY <1>5, <1>9

\* A prefix that is in the buffer is read as the number of its bytes.
LEMMA PrefixIs ==
  ASSUME NEW buffer, IsBytes(buffer), NEW k \in 0 .. LengthBytes, k <= Len(buffer)
  PROVE  /\ Words!FromBe(Slice(buffer, 0, k)) \in Nat
         /\ Words!PeekUint(buffer, 0, 8 * k) = Words!Ok(Words!FromBe(Slice(buffer, 0, k)))
<1> DEFINE p == Slice(buffer, 0, k)
           n == 2 * LengthBytes
           max == 8 * LengthBytes
<1>1. /\ LengthBytes \in Nat \ {0} /\ k \in Nat /\ n \in Nat /\ max \in Nat /\ k <= n
      /\ Words!MaxWidth = max
  BY TextsAssumption DEF Words!MaxWidth
<1>2. IsBytes(p) /\ Len(p) = k /\ \A i \in 1 .. k : p[i] = buffer[i]
  <2>1. 0 \in Nat /\ 0 + k <= Len(buffer) /\ IsList(buffer) /\ k \in Nat
    BY <1>1 DEF IsBytes
  <2>2. IsBytes(p) /\ Len(p) = k
    BY <2>1, SliceBytes
  <2>3. \A i \in 1 .. k : p[i] = buffer[0 + i]
    BY <2>1, SliceOf
  <2> QED BY <1>1, <2>2, <2>3
<1> HIDE DEF p, n, max
<1>3. PICK g : Counts256(g, p, k) /\ Words!FromBe(p) = g[k]
  BY <1>2, WordsFromBe
<1>4. g[k] \in Nat
  BY <1>1, <1>3 DEF Counts256
<1>5. CASE k = 0
  <2>1. g[k] = 0
    BY <1>3, <1>5 DEF Counts256
  <2>2. 8 * k = 0 /\ ~ (8 * k > Words!MaxWidth)
    BY <1>1, <1>5
  <2>3. Words!PeekUint(buffer, 0, 8 * k) = Words!Ok(0)
    BY <2>2 DEF Words!PeekUint
  <2> QED BY <1>3, <1>4, <2>1, <2>3 DEF p
<1>6. CASE k # 0
  <2>1. PICK w : Filled(w, buffer, n) /\ Words!WideLoad(buffer, 0) = Words!FromBe(w)
    BY LoadIsFilled DEF n
  <2>2. IsBytes(w) /\ Len(w) = n /\ \A i \in 1 .. n : w[i] \in 0 .. 255
    BY <2>1 DEF Filled, IsBytes
  <2>3. PICK h : Counts256(h, w, n) /\ Words!FromBe(w) = h[n]
    BY <2>2, WordsFromBe
  <2>4. g[k] = h[k]
    <3>1. \A i \in 1 .. k : p[i] = w[i]
      <4>1. ASSUME NEW i \in 1 .. k PROVE p[i] = w[i]
        <5>1. i \in 1 .. n /\ i <= Len(buffer)
          BY <1>1 DEF IsBytes, IsList
        <5>2. w[i] = buffer[i]
          BY <2>1, <5>1 DEF Filled
        <5> QED BY <1>2, <5>2
      <4> QED BY <4>1
    <3> QED BY <1>1, <1>3, <2>3, <3>1, CountsSame
  <2> DEFINE x == h[k]
             shift == 8 * (n - k)
  <2>5. k \in 0 .. n
    BY <1>1
  <2>6. h[n] \div Pow2(shift) = x
    <3>1. /\ n \in Nat /\ k \in 0 .. n /\ Counts256(h, w, n)
          /\ \A i \in 1 .. n : w[i] \in 0 .. 255
      BY <1>1, <2>2, <2>3, <2>5
    <3> QED BY <3>1, CountsShifted
  <2>7. x \in Nat /\ x < Pow2(8 * k)
    BY <1>1, <2>2, <2>3, <2>5, CountsBelow
  <2>8. 8 * k \in Nat /\ 8 * k <= max /\ 8 * k # 0 /\ ~ (8 * k > max)
    BY <1>1, <1>6 DEF max
  <2>9. Pow2(8 * k) <= Pow2(max) /\ Pow2(8 * k) \in Nat \ {0} /\ Pow2(max) \in Nat \ {0}
    <3>1. Pow2(8 * k) <= Pow2(max)
      BY <1>1, <2>8, Pow2Below
    <3> QED BY <1>1, <2>8, <3>1, Pow2Step
  <2>10. Words!WordLimit = Pow2(max)
    BY <1>1, WordsPow2 DEF Words!WordLimit
  <2>11. 2 * max - (0 % 8) - 8 * k = shift
    <3>1. 0 % 8 = 0
      OBVIOUS
    <3> QED BY <1>1, <3>1 DEF max, n
  <2>12. 0 \div 8 = 0
    OBVIOUS
  <2>13. ~ (0 + 8 * k > Words!LenBits(buffer))
    <3>1. Len(buffer) \in Nat
      BY DEF IsBytes, IsList
    <3> QED BY <1>1, <3>1 DEF Words!LenBits
  <2>14. Words!PeekUint(buffer, 0, 8 * k)
           = Words!Ok(Words!Mask(Words!ShiftRight(Words!WideLoad(buffer, 0), shift)
                                   % Words!WordLimit, 8 * k))
    <3>1. Words!PeekUint(buffer, 0, 8 * k)
            = Words!Ok(Words!Mask(Words!ShiftRight(Words!WideLoad(buffer, 0 \div 8),
                                                   2 * Words!MaxWidth - (0 % 8) - 8 * k)
                                    % Words!WordLimit, 8 * k))
      BY <1>1, <2>8, <2>13 DEF Words!PeekUint
    <3> HIDE DEF shift
    <3> QED BY <1>1, <2>11, <2>12, <3>1
  <2>15. Words!ShiftRight(Words!WideLoad(buffer, 0), shift) = x
    <3> HIDE DEF x, shift
    <3> QED BY <2>1, <2>3, <2>6, WordsPow2 DEF Words!ShiftRight
  <2> HIDE DEF x, shift
  <2>16. x % Pow2(max) = x
    BY <1>1, <2>7, <2>8, <2>9, Small
  <2>17. x % Pow2(8 * k) = x
    BY <2>7, <2>9, Small
  <2>18. Words!PeekUint(buffer, 0, 8 * k) = Words!Ok(x)
    BY <2>10, <2>14, <2>15, <2>16, <2>17, WordsPow2 DEF Words!Mask
  <2> QED BY <1>3, <1>4, <2>4, <2>18 DEF p, x
<1> QED BY <1>5, <1>6

-------------------------------------------------------------------------------
\* A text behind a prefix of so many whole bytes.
PrefixOf(buffer, k) == Words!FromBe(Slice(buffer, 0, k))
Fits(buffer, k) ==
  /\ k <= Len(buffer)
  /\ PrefixOf(buffer, k) % 8 = 0
  /\ k + PrefixOf(buffer, k) \div 8 <= Len(buffer)

\* Bits that are whole bytes, divided.
LEMMA EightTimes ==
  ASSUME NEW v \in Nat, v % 8 = 0
  PROVE  v \div 8 \in Nat /\ 8 * (v \div 8) = v
<1> DEFINE q == v \div 8
<1>1. q \in Nat
  OBVIOUS
<1>2. v = 8 * q + (v % 8)
  OBVIOUS
<1> HIDE DEF q
<1>3. 8 * q = v
  BY <1>1, <1>2
<1> QED BY <1>1, <1>3 DEF q

\* Whole bytes in bits, divided again.
LEMMA EightBack ==
  ASSUME NEW k \in Nat
  PROVE  /\ (8 * k) \div 8 = k /\ (8 * k) % 8 = 0
         /\ (8 * k + 7) \div 8 = k
<1>1. 8 * k + 0 = 8 * k /\ 0 \in Nat /\ 0 < 8 /\ 7 \in Nat /\ 7 < 8 /\ 8 \in Nat \ {0}
  OBVIOUS
<1>2. (8 * k + 0) \div 8 = k /\ (8 * k + 0) % 8 = 0
  BY <1>1, DivisionBack
<1>3. (8 * k + 7) \div 8 = k
  BY <1>1, DivisionBack
<1> QED BY <1>1, <1>2, <1>3

\* Whole bytes on a byte boundary are read as they are.
LEMMA AlignedRead ==
  ASSUME NEW buffer, IsBytes(buffer), NEW k \in Nat, NEW v \in Nat, v % 8 = 0,
         NEW answer, answer = Words!ReadBytes(buffer, 8 * k, v)
  PROVE  /\ k + v \div 8 <= Len(buffer) => answer = Words!Ok(Slice(buffer, k, v \div 8))
         /\ ~ (k + v \div 8 <= Len(buffer)) => answer.error # "none"
<1> DEFINE n == v \div 8
           s == Slice(buffer, k, n)
           slices == Words!AlignedSlice(buffer, 8 * k, v)
<1>1. n \in Nat /\ 8 * n = v /\ Len(buffer) \in Nat
  BY EightTimes DEF IsBytes, IsList
<1>2. (8 * k) \div 8 = k /\ (8 * k) % 8 = 0
  BY EightBack
<1>3. slices = IF k + n <= Len(buffer) THEN {s} ELSE {}
  <2> HIDE DEF n
  <2>1. slices = IF (8 * k) % 8 = 0 /\ v % 8 = 0 /\ (8 * k) \div 8 + n <= Len(buffer)
                 THEN {SubSeq(buffer, (8 * k) \div 8 + 1, (8 * k) \div 8 + n)} ELSE {}
    BY DEF Words!AlignedSlice, n
  <2> QED BY <1>2, <2>1 DEF Slice
<1> HIDE DEF n, s
<1>4. CASE k + n <= Len(buffer)
  <2>1. slices # {} /\ (CHOOSE x \in slices : TRUE) = s
    BY <1>3, <1>4
  <2>2. answer = Words!Ok(s)
    <3> HIDE DEF slices
    <3>1. answer = Words!Ok(CHOOSE x \in slices : TRUE)
      BY <2>1 DEF Words!ReadBytes, slices
    <3> QED BY <2>1, <3>1
  <2> QED BY <1>4, <2>2 DEF s, n
<1>5. CASE ~ (k + n <= Len(buffer))
  <2>1. slices = {}
    BY <1>3, <1>5
  <2>2. 8 * k + v > Words!LenBits(buffer)
    <3>1. 8 * (k + n) > 8 * Len(buffer) /\ 8 * k + v = 8 * (k + n)
      BY <1>1, <1>5
    <3> QED BY <3>1 DEF Words!LenBits
  <2>3. answer = Words!Err("OutOfBounds")
    BY <2>1, <2>2 DEF Words!ReadBytes
  <2>4. answer.error # "none"
    BY <2>3 DEF Words!Err
  <2> QED BY <1>5, <2>4 DEF n
<1> QED BY <1>4, <1>5

\* The interpreter finds a text behind a prefix exactly where it fits.
LEMMA LeadingIs ==
  ASSUME NEW buffer, IsBytes(buffer), NEW k \in 0 .. LengthBytes,
         NEW d, d.kind = "leading", d.size = 8 * k
  PROVE  /\ Fits(buffer, k) =>
              Delimited(buffer, d) = TextOf(Slice(buffer, k, PrefixOf(buffer, k) \div 8))
         /\ ~ Fits(buffer, k) => Delimited(buffer, d).error # "none"
<1> DEFINE size == Words!PeekUint(buffer, 0, 8 * k)
           v == PrefixOf(buffer, k)
           text == Words!ReadBytes(buffer, 8 * k, size.v)
           found == Delimited(buffer, d)
<1>1. k \in Nat /\ Len(buffer) \in Nat
  BY TextsAssumption DEF IsBytes, IsList
<1>2. found = IF size.error # "none" THEN NoText("Bits")
              ELSE IF size.v % 8 # 0 THEN NoText("BadFieldSize")
              ELSE IF text.error # "none" THEN NoText("Bits")
              ELSE TextOf(text.v)
  BY DEF Delimited
<1>3. NoText("Bits").error # "none" /\ NoText("BadFieldSize").error # "none"
  BY DEF NoText
<1> HIDE DEF found
<1>4. CASE ~ (k <= Len(buffer))
  <2>1. size.error # "none"
    <3>1. Len(buffer) < k
      BY <1>1, <1>4
    <3> QED BY <1>1, <3>1, PrefixFails
  <2>2. found.error # "none"
    <3> HIDE DEF size, text
    <3> QED BY <1>2, <1>3, <2>1
  <2> QED BY <1>4, <2>2 DEF Fits, found
<1>5. CASE k <= Len(buffer)
  <2>1. v \in Nat /\ size = Words!Ok(v)
    BY <1>5, PrefixIs DEF PrefixOf
  <2> HIDE DEF size, v
  <2>2. size.error = "none" /\ size.v = v
    BY <2>1 DEF Words!Ok
  <2>3. CASE v % 8 # 0
    <3>1. found.error # "none"
      <4> HIDE DEF text
      <4> QED BY <1>2, <1>3, <2>2, <2>3
    <3> QED BY <2>3, <3>1 DEF Fits, found, v
  <2>4. CASE v % 8 = 0
    <3>1. text = Words!ReadBytes(buffer, 8 * k, v)
      BY <2>2
    <3> HIDE DEF text
    <3>2. /\ k + v \div 8 <= Len(buffer) => text = Words!Ok(Slice(buffer, k, v \div 8))
          /\ ~ (k + v \div 8 <= Len(buffer)) => text.error # "none"
      BY <1>1, <2>1, <2>4, <3>1, AlignedRead
    <3>3. CASE k + v \div 8 <= Len(buffer)
      <4>1. text.error = "none" /\ text.v = Slice(buffer, k, v \div 8)
        BY <3>2, <3>3 DEF Words!Ok
      <4>2. found = TextOf(Slice(buffer, k, v \div 8))
        BY <1>2, <2>2, <2>4, <4>1
      <4>3. Fits(buffer, k)
        BY <1>5, <2>4, <3>3 DEF Fits, v
      <4> QED BY <4>2, <4>3 DEF found, v
    <3>4. CASE ~ (k + v \div 8 <= Len(buffer))
      <4>1. found.error # "none"
        BY <1>2, <1>3, <2>2, <2>4, <3>2, <3>4
      <4>2. ~ Fits(buffer, k)
        BY <3>4 DEF Fits, v
      <4> QED BY <4>1, <4>2 DEF found
    <3> QED BY <3>3, <3>4
  <2> QED BY <2>3, <2>4
<1> QED BY <1>4, <1>5

\* So does the compiled helper.
LEMMA TextLeadingIs ==
  ASSUME NEW buffer, IsBytes(buffer), NEW k \in 0 .. LengthBytes, NEW ascii
  PROVE  TextLeading(buffer, 8 * k, ascii)
           = IF Fits(buffer, k)
             THEN TextChecked(Slice(buffer, k, PrefixOf(buffer, k) \div 8), ascii)
             ELSE NoText("BadStringLength")
<1> DEFINE bytes == (8 * k + 7) \div 8
           slack == 8 * bytes - 8 * k
           bits == Words!FromBe(SubSeq(buffer, 1, bytes)) \div Words!Pow2(slack)
           v == PrefixOf(buffer, k)
           answer == TextLeading(buffer, 8 * k, ascii)
<1>1. k \in Nat /\ Len(buffer) \in Nat
  BY TextsAssumption DEF IsBytes, IsList
<1>2. answer = IF Len(buffer) < bytes \/ bits % 8 # 0 \/ bytes + bits \div 8 > Len(buffer)
               THEN NoText("BadStringLength")
               ELSE TextChecked(SubSeq(buffer, bytes + 1, bytes + bits \div 8), ascii)
  BY DEF TextLeading
<1>3. bytes = k /\ slack = 0
  <2>1. bytes = k
    BY <1>1, EightBack
  <2> HIDE DEF bytes
  <2> QED BY <1>1, <2>1
<1>4. bits = v \div 1
  <2>1. Words!Pow2(0) = 1
    BY WordsPow2, Pow2Step
  <2>2. 0 + 1 = 1 /\ 0 + k = k
    BY <1>1
  <2> HIDE DEF bytes, slack
  <2> QED BY <1>3, <2>1, <2>2 DEF PrefixOf, Slice
<1> HIDE DEF bytes, slack, bits, answer, v
<1>5. CASE Len(buffer) < k
  <2>1. answer = NoText("BadStringLength")
    BY <1>2, <1>3, <1>5
  <2>2. ~ Fits(buffer, k)
    BY <1>1, <1>5 DEF Fits
  <2> QED BY <2>1, <2>2 DEF answer
<1>6. CASE ~ (Len(buffer) < k)
  <2>1. k <= Len(buffer)
    BY <1>1, <1>6
  <2>2. v \in Nat
    BY <2>1, PrefixIs DEF PrefixOf, v
  <2>3. bits = v
    BY <1>4, <2>2
  <2> DEFINE n == v \div 8
  <2>4. n \in Nat
    BY <2>2
  <2>5. answer = IF v % 8 # 0 \/ k + n > Len(buffer)
                 THEN NoText("BadStringLength")
                 ELSE TextChecked(SubSeq(buffer, k + 1, k + n), ascii)
    BY <1>2, <1>3, <1>6, <2>3
  <2>6. Fits(buffer, k) <=> v % 8 = 0 /\ k + n <= Len(buffer)
    BY <2>1 DEF Fits, v
  <2> HIDE DEF n
  <2>7. k + n > Len(buffer) <=> ~ (k + n <= Len(buffer))
    BY <1>1, <2>4
  <2>8. answer = IF Fits(buffer, k) THEN TextChecked(Slice(buffer, k, n), ascii)
                 ELSE NoText("BadStringLength")
    BY <2>5, <2>6, <2>7 DEF Slice
  <2> QED BY <2>8 DEF answer, n, v
<1> QED BY <1>5, <1>6

-------------------------------------------------------------------------------
\* The property, of one answer.
IsDelimited(buffer, d, bytes) ==
  LET n == Len(bytes)
  IN /\ d.kind = "whole" => bytes = buffer
     /\ d.kind = "terminated" =>
          /\ n + Len(d.terminator) <= Len(buffer)
          /\ SubSeq(buffer, 1, n + Len(d.terminator)) = bytes \o d.terminator
          /\ \A i \in 0 .. n - 1 :
               SubSeq(buffer, i + 1, i + Len(d.terminator)) # d.terminator
     /\ d.kind = "leading" /\ d.size % 8 = 0 =>
          /\ 8 * n = Words!FromBe(SubSeq(buffer, 1, d.size \div 8))
          /\ bytes = SubSeq(buffer, d.size \div 8 + 1, d.size \div 8 + n)
Whole8(d) == d.kind = "leading" => d.size % 8 = 0
AgreesWith(compiled, answer) ==
  /\ (compiled.error = "none") = (answer.error = "none")
  /\ compiled.error = "none" => compiled.v = answer.v
IsDelimiter(d) ==
  /\ d.kind \in {"whole", "terminated", "leading"}
  /\ d.kind = "terminated" => IsBytes(d.terminator)
  /\ d.kind = "leading" => d.size \in 0 .. 8 * LengthBytes

\* A prefix of whole bytes, by how many.
LEMMA SizeInBytes ==
  ASSUME NEW d, IsDelimiter(d), Whole8(d), d.kind = "leading"
  PROVE  \E k \in 0 .. LengthBytes : d.size = 8 * k /\ d.size \div 8 = k
<1> DEFINE k == d.size \div 8
<1>1. d.size \in Nat /\ d.size <= 8 * LengthBytes /\ d.size % 8 = 0 /\ LengthBytes \in Nat
  BY TextsAssumption DEF IsDelimiter, Whole8
<1>2. k \in Nat /\ 8 * k = d.size
  BY <1>1, EightTimes
<1> HIDE DEF k
<1>3. k \in 0 .. LengthBytes
  BY <1>1, <1>2
<1> QED BY <1>2, <1>3 DEF k

\* What is found is bytes, and those that are meant.
LEMMA FoundIs ==
  ASSUME NEW buffer, IsBytes(buffer), NEW d, IsDelimiter(d), Whole8(d),
         NEW found, found = Delimited(buffer, d), found.error = "none"
  PROVE  IsBytes(found.v) /\ IsDelimited(buffer, d, found.v)
<1>0. Len(buffer) \in Nat /\ IsList(buffer)
  BY DEF IsBytes, IsList
<1>1. CASE d.kind = "whole"
  <2>1. found.v = buffer
    BY <1>1 DEF Delimited, TextOf
  <2> QED BY <1>1, <2>1 DEF IsDelimited
<1>2. CASE d.kind = "terminated"
  <2> DEFINE t == d.terminator
             places == PlacesOf(buffer, t)
             p == FirstPlace(places)
             bytes == Slice(buffer, 0, p)
  <2>1. found = IF places = {} THEN NoText("UnterminatedString")
                ELSE TextOf(SubSeq(buffer, 1, p))
    BY <1>2 DEF Delimited
  <2>2. places # {} /\ found.v = SubSeq(buffer, 1, p)
    <3> HIDE DEF places, p
    <3>1. NoText("UnterminatedString").error # "none"
      BY DEF NoText
    <3>2. places # {}
      BY <2>1, <3>1
    <3>3. found = TextOf(SubSeq(buffer, 1, p))
      BY <2>1, <3>2
    <3>4. found.v = SubSeq(buffer, 1, p)
      <4> DEFINE s == SubSeq(buffer, 1, p)
      <4>1. found = TextOf(s)
        BY <3>3
      <4> HIDE DEF s
      <4>2. found.v = s
        BY <4>1 DEF TextOf
      <4> QED BY <4>2 DEF s
    <3> QED BY <3>2, <3>4
  <2>3. IsBytes(t) /\ IsList(t)
    BY <1>2 DEF IsDelimiter, IsBytes
  <2>4. EndsAt(buffer, t, p)
    <3> HIDE DEF t
    <3> QED BY <2>2, <2>3, FirstPlaceEnds
  <2> HIDE DEF places, p
  <2>5. /\ p \in Nat /\ p + Len(t) <= Len(buffer)
        /\ Slice(buffer, 0, p + Len(t)) = bytes \o t
        /\ \A i \in 0 .. p - 1 : Slice(buffer, i, Len(t)) # t
        /\ Len(t) \in Nat
    BY <2>3, <2>4 DEF EndsAt, IsList
  <2>6. IsBytes(bytes) /\ Len(bytes) = p
    <3>1. 0 \in Nat /\ 0 + p <= Len(buffer)
      BY <1>0, <2>5
    <3> QED BY <2>5, <3>1, SliceBytes
  <2>7. 0 + 1 = 1 /\ 0 + p = p /\ 0 + (p + Len(t)) = p + Len(t)
    BY <2>5
  <2>8. found.v = bytes
    BY <2>2, <2>7 DEF Slice
  <2>9. SubSeq(buffer, 1, p + Len(t)) = bytes \o t
    <3> HIDE DEF bytes, t
    <3> QED BY <2>5, <2>7 DEF Slice
  <2>10. \A i \in 0 .. p - 1 : SubSeq(buffer, i + 1, i + Len(t)) # t
    BY <2>5 DEF Slice
  <2> HIDE DEF bytes
  <2>11. IsDelimited(buffer, d, bytes)
    BY <1>2, <2>5, <2>6, <2>9, <2>10 DEF IsDelimited
  <2> QED BY <2>6, <2>8, <2>11
<1>3. CASE d.kind = "leading"
  <2>1. PICK k \in 0 .. LengthBytes : d.size = 8 * k /\ d.size \div 8 = k
    BY <1>3, SizeInBytes
  <2> DEFINE v == PrefixOf(buffer, k)
             n == v \div 8
             bytes == Slice(buffer, k, n)
  <2>2. Fits(buffer, k) /\ found = TextOf(bytes)
    <3>1. Fits(buffer, k)
      BY <1>3, <2>1, LeadingIs
    <3> QED BY <1>3, <2>1, <3>1, LeadingIs
  <2>3. k \in Nat /\ k <= Len(buffer) /\ v % 8 = 0 /\ k + n <= Len(buffer)
    BY <2>2, TextsAssumption DEF Fits
  <2>4. v \in Nat
    BY <2>3, PrefixIs DEF PrefixOf
  <2>5. n \in Nat /\ 8 * n = v
    <3> HIDE DEF v
    <3> QED BY <2>3, <2>4, EightTimes
  <2> HIDE DEF n, v
  <2>6. IsBytes(bytes) /\ Len(bytes) = n
    BY <2>3, <2>5, SliceBytes
  <2>7. v = Words!FromBe(SubSeq(buffer, 1, k))
    <3>1. 0 + 1 = 1 /\ 0 + k = k
      BY <2>3
    <3> QED BY <3>1 DEF v, PrefixOf, Slice
  <2>8. bytes = SubSeq(buffer, k + 1, k + n)
    BY DEF Slice
  <2> HIDE DEF bytes
  <2>9. found.v = bytes
    BY <2>2 DEF TextOf
  <2>10. IsDelimited(buffer, d, bytes)
    BY <1>3, <2>1, <2>5, <2>6, <2>7, <2>8 DEF IsDelimited
  <2> QED BY <2>6, <2>9, <2>10
<1> QED BY <1>1, <1>2, <1>3 DEF IsDelimiter

\* What the compiled helper answers.
LEMMA EmittedAgrees ==
  ASSUME NEW buffer, IsBytes(buffer), NEW d, IsDelimiter(d), Whole8(d),
         NEW charset \in {"UTF-8", "US-ASCII"}, NEW order,
         NEW answer, answer = DecodeString(buffer, d, charset, order)
  PROVE  AgreesWith(EmittedText(buffer, d, charset), answer)
<1> DEFINE ascii == charset = "US-ASCII"
           found == Delimited(buffer, d)
           emitted == EmittedText(buffer, d, charset)
<1>1. answer = IF found.error # "none" THEN found ELSE DecodedText(found.v, charset, order)
  BY DecodeStringIs
<1>2. ASSUME NEW bytes, IsBytes(bytes)
      PROVE  TextChecked(bytes, ascii) = DecodedText(bytes, charset, order)
  BY <1>2, CheckedIsDecoded
<1>3. ASSUME found.error = "none", IsBytes(found.v), emitted = TextChecked(found.v, ascii)
      PROVE  AgreesWith(emitted, answer)
  <2>1. emitted = answer
    BY <1>1, <1>2, <1>3
  <2> HIDE DEF emitted
  <2> QED BY <2>1 DEF AgreesWith
<1>4. ASSUME found.error # "none", NEW error, error # "none", emitted = NoText(error)
      PROVE  AgreesWith(emitted, answer)
  <2>1. answer = found
    BY <1>1, <1>4
  <2>2. emitted.error # "none"
    BY <1>4 DEF NoText
  <2> HIDE DEF emitted, found
  <2> QED BY <1>4, <2>1, <2>2 DEF AgreesWith
<1>5. found.error = "none" => IsBytes(found.v)
  <2> HIDE DEF found
  <2> QED BY FoundIs DEF found
<1>6. CASE d.kind = "whole"
  <2>1. found = TextOf(buffer) /\ emitted = TextChecked(buffer, ascii)
    BY <1>6 DEF Delimited, EmittedText
  <2> HIDE DEF found, emitted, ascii
  <2>2. found.error = "none" /\ found.v = buffer
    BY <2>1 DEF TextOf
  <2> QED BY <1>3, <2>1, <2>2 DEF found, emitted, ascii
<1>7. CASE d.kind = "terminated"
  <2> DEFINE t == d.terminator
             places == PlacesOf(buffer, t)
             p == FirstPlace(places)
  <2>1. found = IF places = {} THEN NoText("UnterminatedString")
                ELSE TextOf(SubSeq(buffer, 1, p))
    BY <1>7 DEF Delimited
  <2>2. emitted = TextTerminated(buffer, t, ascii)
    BY <1>7 DEF EmittedText
  <2>3. emitted = IF t = <<>> THEN TextChecked(<<>>, ascii)
                  ELSE IF places = {} THEN NoText("UnterminatedString")
                  ELSE TextChecked(SubSeq(buffer, 1, p), ascii)
    <3> HIDE DEF emitted, ascii
    <3> QED BY <2>2 DEF TextTerminated
  <2> HIDE DEF found, emitted, ascii, places, p
  <2>4. CASE places = {}
    <3>1. t # <<>>
      BY <2>4, EmptyTerminator DEF places
    <3>2. emitted = NoText("UnterminatedString") /\ found = NoText("UnterminatedString")
      BY <2>1, <2>3, <2>4, <3>1
    <3>3. found.error # "none"
      BY <3>2 DEF NoText
    <3> QED BY <1>4, <3>2, <3>3 DEF found, emitted
  <2>5. CASE places # {}
    <3>1. found.error = "none" /\ found.v = SubSeq(buffer, 1, p)
      BY <2>1, <2>5 DEF TextOf
    <3>2. emitted = TextChecked(SubSeq(buffer, 1, p), ascii)
      <4>1. CASE t = <<>>
        <5>1. p = 0
          BY <4>1, EmptyTerminator DEF places, p
        <5>2. IsList(buffer)
          BY DEF IsBytes
        <5>3. Len(Slice(buffer, 0, 0)) = 0 /\ IsList(Slice(buffer, 0, 0))
          BY <5>2, SliceOf
        <5>4. Slice(buffer, 0, 0) = <<>>
          BY <5>3 DEF IsList
        <5>5. 0 + 1 = 1 /\ 0 + 0 = 0
          OBVIOUS
        <5>6. SubSeq(buffer, 1, 0) = <<>>
          BY <5>4, <5>5 DEF Slice
        <5> QED BY <2>3, <4>1, <5>1, <5>6
      <4>2. CASE t # <<>>
        BY <2>3, <2>5, <4>2
      <4> QED BY <4>1, <4>2
    <3>3. emitted = TextChecked(found.v, ascii)
      BY <3>1, <3>2
    <3> QED BY <1>3, <1>5, <3>1, <3>3 DEF found, emitted, ascii
  <2> QED BY <2>4, <2>5
<1>8. CASE d.kind = "leading"
  <2>1. PICK k \in 0 .. LengthBytes : d.size = 8 * k /\ d.size \div 8 = k
    BY <1>8, SizeInBytes
  <2> DEFINE bytes == Slice(buffer, k, PrefixOf(buffer, k) \div 8)
  <2>2. /\ Fits(buffer, k) => found = TextOf(bytes)
        /\ ~ Fits(buffer, k) => found.error # "none"
    BY <1>8, <2>1, LeadingIs
  <2>3. emitted = TextLeading(buffer, 8 * k, ascii)
    BY <1>8, <2>1 DEF EmittedText
  <2>4. emitted = IF Fits(buffer, k) THEN TextChecked(bytes, ascii)
                  ELSE NoText("BadStringLength")
    <3> HIDE DEF emitted, ascii
    <3> QED BY <2>3, TextLeadingIs
  <2> HIDE DEF found, emitted, ascii, bytes
  <2>5. CASE Fits(buffer, k)
    <3>1. found.error = "none" /\ found.v = bytes /\ emitted = TextChecked(found.v, ascii)
      BY <2>2, <2>4, <2>5 DEF TextOf
    <3> QED BY <1>3, <1>5, <3>1 DEF found, emitted, ascii
  <2>6. CASE ~ Fits(buffer, k)
    <3>1. found.error # "none" /\ emitted = NoText("BadStringLength")
      BY <2>2, <2>4, <2>6
    <3> QED BY <1>4, <3>1 DEF found, emitted
  <2> QED BY <2>5, <2>6
<1> QED BY <1>6, <1>7, <1>8 DEF IsDelimiter

\* Every call leaves the texts true.
LEMMA TextsStep ==
  ASSUME TextsAreFaithful, [Next]_vars
  PROVE  TextsAreFaithful'
<1>1. CASE UNCHANGED vars
  <2>1. call' = call
    BY <1>1 DEF vars
  <2> QED BY <2>1 DEF TextsAreFaithful
<1>2. CASE call'.op # "string"
  BY <1>2 DEF TextsAreFaithful
<1>3. ASSUME NEW buffer \in TextBuffers, NEW d \in Delimiters, NEW charset \in Charsets, NEW order,
             DecodeText(buffer, d, charset, order)
      PROVE  TextsAreFaithful'
  <2> DEFINE answer == DecodeString(buffer, d, charset, order)
             emitted == EmittedText(buffer, d, charset)
             compiled == IF charset \in {"UTF-8", "US-ASCII"} THEN {emitted} ELSE {}
             found == Delimited(buffer, d)
             bytes == Encoded(answer.v, charset, order)
  <2>1. /\ call'.op = "string" /\ call'.buffer = buffer /\ call'.delimiter = d
        /\ call'.charset = charset /\ call'.order = order
        /\ call'.answer = answer /\ call'.compiled = compiled
    BY <1>3 DEF DecodeText
  <2>2. IsBytes(buffer) /\ charset \in AllCharsets
    <3>1. buffer \in Seq(0 .. 255)
      BY TextsAssumption
    <3>2. IsList(buffer)
      BY <3>1, SeqIsList
    <3>3. \A i \in 1 .. Len(buffer) : buffer[i] \in 0 .. 255
      BY <3>1, ElementOfSeq
    <3>4. charset \in AllCharsets
      BY TextsAssumption DEF AllCharsets
    <3> QED BY <3>2, <3>3, <3>4 DEF IsBytes
  <2>3. IsDelimiter(d)
    <3>1. ASSUME d.kind = "terminated" PROVE IsBytes(d.terminator)
      <4>1. d.terminator \in Seq(0 .. 255)
        BY <3>1, TextsAssumption
      <4>2. IsList(d.terminator)
        BY <4>1, SeqIsList
      <4>3. \A i \in 1 .. Len(d.terminator) : d.terminator[i] \in 0 .. 255
        BY <4>1, ElementOfSeq
      <4> QED BY <4>2, <4>3 DEF IsBytes
    <3> QED BY <3>1, TextsAssumption DEF IsDelimiter
  <2> HIDE DEF answer, emitted, found
  <2>4. answer = IF found.error # "none" THEN found ELSE DecodedText(found.v, charset, order)
    BY DecodeStringIs DEF answer, found
  <2>5. ASSUME answer.error = "none", Whole8(d) PROVE IsDelimited(buffer, d, bytes)
    <3>1. found.error = "none"
      BY <2>4, <2>5
    <3>2. IsBytes(found.v) /\ IsDelimited(buffer, d, found.v)
      BY <2>2, <2>3, <2>5, <3>1, FoundIs DEF found
    <3>3. answer = DecodedText(found.v, charset, order)
      BY <2>4, <3>1
    <3>4. Encoded(answer.v, charset, order) = found.v
      BY <2>2, <2>5, <3>2, <3>3, DecodedTextStands
    <3> HIDE DEF bytes
    <3> QED BY <3>2, <3>4 DEF bytes
  <2>6. ASSUME Whole8(d), NEW c \in compiled PROVE AgreesWith(c, answer)
    <3>1. charset \in {"UTF-8", "US-ASCII"} /\ c = emitted
      BY <2>6
    <3> QED BY <2>2, <2>3, <2>6, <3>1, EmittedAgrees DEF answer, emitted
  <2> HIDE DEF compiled, bytes
  <2>7. answer.error = "none" => IsDelimited(buffer, d, bytes)
    <3>1. CASE Whole8(d)
      BY <2>5, <3>1
    <3>2. CASE ~ Whole8(d)
      <4>1. d.kind = "leading" /\ d.size % 8 # 0
        BY <3>2 DEF Whole8
      <4> QED BY <4>1 DEF IsDelimited
    <3> QED BY <3>1, <3>2
  <2>8. Whole8(d) => \A c \in compiled : AgreesWith(c, answer)
    BY <2>6
  <2>9. TextsAreFaithful' <=>
          /\ answer.error = "none" => IsDelimited(buffer, d, bytes)
          /\ Whole8(d) => \A c \in compiled : AgreesWith(c, answer)
    BY <2>1 DEF TextsAreFaithful, IsDelimited, Whole8, AgreesWith, bytes
  <2> QED BY <2>7, <2>8, <2>9
<1>4. ASSUME NEW p \in Positions, call = NoCall, Seek(p) PROVE TextsAreFaithful'
  <2>1. call'.op = "none"
    BY <1>4 DEF Seek, NoCall
  <2> QED BY <1>2, <2>1
<1>5. ASSUME NEW width, Skip(width) \/ PeekNext(width) \/ ReadUint(width) \/ ReadBits(width)
      PROVE  TextsAreFaithful'
  <2>1. call'.op \in {"skip", "peek", "uint", "bytes", "text"}
    BY <1>5 DEF Skip, PeekNext, ReadUint, ReadBits, Read
  <2> QED BY <1>2, <2>1
<1>6. ASSUME NEW width, NEW coding, NEW swapped, ReadField(width, coding, swapped)
      PROVE  TextsAreFaithful'
  <2>1. call'.op = "field"
    BY <1>6 DEF ReadField
  <2> QED BY <1>2, <2>1
<1>7. ASSUME NEW width, AlignFixed(width) PROVE TextsAreFaithful'
  <2>1. call'.op = "fixed"
    BY <1>7 DEF AlignFixed
  <2> QED BY <1>2, <2>1
<1>8. ASSUME NEW s, NEW x, Calibrate(s, x) PROVE TextsAreFaithful'
  <2>1. call'.op = "spline"
    BY <1>8 DEF Calibrate
  <2> QED BY <1>2, <2>1
<1>9. CASE Return
  <2>1. call'.op = "none"
    BY <1>9 DEF Return, NoCall
  <2> QED BY <1>2, <2>1
<1> QED BY <1>1, <1>3, <1>4, <1>5, <1>6, <1>7, <1>8, <1>9 DEF Next

\* Whatever the buffer, the delimiter and the character set, a text that is
\* answered stands for exactly the bytes it was delimited by, and the compiled
\* helpers answer the same (decoder.rs decode_string, charset.rs decode,
\* emit.rs text_checked, text_terminated and text_leading).
THEOREM TextsAreRight == Spec => []TextsAreFaithful
<1>1. Init => TextsAreFaithful
  BY DEF Init, NoCall, TextsAreFaithful
<1>2. TextsAreFaithful /\ [Next]_vars => TextsAreFaithful'
  BY TextsStep
<1> QED BY <1>1, <1>2, PTL DEF Spec
================================================================================
