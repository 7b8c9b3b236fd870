-------------------------------- MODULE Framing --------------------------------
(***************************************************************************)
(* Splitting a byte stream into CCSDS space packets (ccsds.rs, PacketIter). *)
(* Each packet is preceded by `skip` wrapper bytes, starts with a primary  *)
(* header whose last two bytes say how long it is, and is followed by the  *)
(* next.  One step is one call of Iterator::next that does not find the    *)
(* iterator finished; `items` is the history of what next has returned.    *)
(*                                                                         *)
(* Offsets count bytes from 0 as in the code, so the byte at an offset is  *)
(* stream[offset + 1].                                                     *)
(***************************************************************************)
EXTENDS Integers, Sequences

CONSTANTS
  Bytes,                  \* byte values
  Streams,                \* the streams a run considers
  Skips,                  \* the wrapper lengths a caller may ask for
  PRIMARY_HEADER_BYTES,   \* 6 in the code
  MAX_USIZE               \* largest offset the machine can hold

ASSUME HeaderAssumption == PRIMARY_HEADER_BYTES \in Nat /\ PRIMARY_HEADER_BYTES >= 2
ASSUME ByteAssumption   == Bytes \subseteq 0 .. 255
ASSUME SkipAssumption   == MAX_USIZE \in Nat /\ Skips \subseteq 0 .. MAX_USIZE

\* A Rust slice is at most isize::MAX bytes long.
ASSUME StreamAssumption ==
  \A s \in Streams : s \in Seq(Bytes) /\ 2 * Len(s) <= MAX_USIZE

VARIABLES
  stream,     \* the bytes, fixed
  skip,       \* wrapper bytes before every packet, fixed
  offset,     \* where the last packet ended
  finished,   \* next has returned its last item
  items       \* what next has returned so far

framingVars == <<stream, skip, offset, finished, items>>

Start     == offset + skip
Remaining == Len(stream) - Start
At(o)     == stream[o + 1]

\* The packet data length field counts one byte less than there are.
Declared(o) ==
  PRIMARY_HEADER_BYTES
  + 256 * At(o + PRIMARY_HEADER_BYTES - 2) + At(o + PRIMARY_HEADER_BYTES - 1)
  + 1

Packet(start, length) == [kind |-> "packet", start |-> start, length |-> length]
ShortHeader(start, length) == [kind |-> "shortHeader", start |-> start, length |-> length]
ShortPacket(start, length) == [kind |-> "shortPacket", start |-> start, length |-> length]

FramingInit ==
  /\ stream \in Streams
  /\ skip \in Skips
  /\ offset = 0
  /\ finished = FALSE
  /\ items = <<>>

\* Mutant: too few bytes for a header are taken for padding.
EndOfStreamDropsTail ==
  /\ ~ finished
  /\ Remaining < PRIMARY_HEADER_BYTES
  /\ finished' = TRUE
  /\ UNCHANGED <<stream, skip, offset, items>>

\* The stream stops at a packet boundary.  A start that overflows is answered
\* in the same way, but without marking the iterator finished.
EndOfStream ==
  /\ ~ finished
  /\ Remaining <= 0
  /\ finished' = (Start <= MAX_USIZE)
  /\ UNCHANGED <<stream, skip, offset, items>>

YieldShortHeader ==
  /\ ~ finished
  /\ Remaining > 0
  /\ Remaining < PRIMARY_HEADER_BYTES
  /\ finished' = TRUE
  /\ items'    = Append(items, ShortHeader(Start, Remaining))
  /\ UNCHANGED <<stream, skip, offset>>

HasHeader == ~ finished /\ Remaining >= PRIMARY_HEADER_BYTES

YieldShortPacket ==
  /\ HasHeader
  /\ Declared(Start) > Remaining
  /\ finished' = TRUE
  /\ items'    = Append(items, ShortPacket(Start, Remaining))
  /\ UNCHANGED <<stream, skip, offset>>

\* Mutant: the next packet is looked for without its wrapper.
YieldPacketSkipsOnce ==
  /\ HasHeader
  /\ Declared(Start) <= Remaining
  /\ offset' = Start + Declared(Start) - skip
  /\ items'  = Append(items, Packet(Start, Declared(Start)))
  /\ UNCHANGED <<stream, skip, finished>>

\* Mutant: the declared length is believed without asking for the bytes.
YieldPacketUnchecked ==
  /\ HasHeader
  /\ offset' = Start + Declared(Start)
  /\ items'  = Append(items, Packet(Start, Declared(Start)))
  /\ UNCHANGED <<stream, skip, finished>>

YieldPacket ==
  /\ HasHeader
  /\ Declared(Start) <= Remaining
  /\ offset' = Start + Declared(Start)
  /\ items'  = Append(items, Packet(Start, Declared(Start)))
  /\ UNCHANGED <<stream, skip, finished>>

FramingNext == EndOfStream \/ YieldShortHeader \/ YieldShortPacket \/ YieldPacket

FramingSafety == FramingInit /\ [][FramingNext]_framingVars

-------------------------------------------------------------------------------
Items == [kind : {"packet", "shortHeader", "shortPacket"}, start : Nat, length : Nat]
IsPacket(item) == item.kind = "packet"

FramingTypeOK ==
  /\ stream \in Streams
  /\ skip \in Skips
  /\ offset \in 0 .. Len(stream)
  /\ finished \in BOOLEAN
  /\ items \in Seq(Items)

EndOf(s, i) == IF i = 0 THEN 0 ELSE s[i].start + s[i].length

\* Every item of s starts one wrapper after the end of the one before it, lies
\* in the stream and is as long as its own header says; an error covers all
\* that was left, and is the last item.
Tiles(s) ==
  \A i \in 1 .. Len(s) :
    /\ s[i].start = EndOf(s, i - 1) + skip
    /\ s[i].length > 0
    /\ EndOf(s, i) <= Len(stream)
    /\ IF IsPacket(s[i]) THEN s[i].length = Declared(s[i].start)
       ELSE EndOf(s, i) = Len(stream) /\ i = Len(s)

\* PacketIter yields the packets of the stream back to back: no byte is read
\* into two of them or lost between them, and nothing follows an error.
ItemsTileStream == Tiles(items)

\* "A truncated tail surfaces as an error on the final item rather than
\* silently ending the stream": once the iterator is finished, the packets and
\* the error cover the stream up to its end, but for wrapper bytes with no
\* packet behind them.
NoSilentTail == finished => Len(stream) - EndOf(items, Len(items)) <= skip

\* `offset.checked_add(skip)` never overflows: a wrapper longer than the stream
\* ends the iteration before anything is added to it, so the early return that
\* would leave the iterator unfinished is never taken.
OffsetsDoNotOverflow == Start <= MAX_USIZE
===============================================================================
