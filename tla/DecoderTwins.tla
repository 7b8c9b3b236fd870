------------------------------ MODULE DecoderTwins ------------------------------
(***************************************************************************)
(* Two decodes compared.  What a packet decodes to must not depend on what *)
(* its buffer held before, on the order in which inheritors are listed, or *)
(* on what comes behind the bits an entry needs; none of that can be said  *)
(* of one decode alone.  So here a call of decode_into on a reused buffer  *)
(* goes along, step by step, with a call of decode for the same packet or  *)
(* for a part of it, in a decoder of the same database up to the order of  *)
(* the inheritors.  The two share nothing: taking their steps in turn      *)
(* leaves out no answer of either.                                         *)
(***************************************************************************)
EXTENDS Decoder

VARIABLES db2, packet2, position2, current2, stack2, phase2, result2

otherVars == <<db2, packet2, position2, current2, stack2, phase2, result2>>
twinVars  == <<vars, otherVars>>

Other ==
  INSTANCE Decoder WITH
    db <- db2, packet <- packet2, position <- position2, current <- current2,
    stack <- stack2, phase <- phase2, result <- result2

\* The same database, but for the order in which inheritors are listed.
SameButOrder(a, b) ==
  /\ a.root = b.root /\ a.abstract = b.abstract /\ a.types = b.types
  /\ a.entries = b.entries /\ a.restriction = b.restriction
  /\ \A c \in Containers : Range(a.inheritors[c]) = Range(b.inheritors[c])

BothIdle == phase = "idle" /\ phase2 = "idle"

\* Decoder::decode: decode_into with a buffer of its own.
Decode(d) ==
  /\ packet2'   = Reset(NewPacket(d, db2.root), d, db2.root)
  /\ position2' = 0
  /\ current2'  = db2.root
  /\ stack2'    = <<Frame(db2.root, 0)>>
  /\ phase2'    = "entries"
  /\ result2'   = "none"
  /\ UNCHANGED db2

TwinInit == Init /\ Other!Init /\ SameButOrder(db, db2)

\* Both are called, the other one with the packet or the beginning of it.
Call ==
  /\ BothIdle
  /\ \E d \in Packets :
       /\ DecodeInto(d)
       /\ \E e \in Packets : IsPrefix(e, d) /\ Decode(e)

\* Each takes a step, unless it has answered.
Advance ==
  /\ ~ BothIdle
  /\ IF phase  = "idle" THEN UNCHANGED vars      ELSE Step
  /\ IF phase2 = "idle" THEN UNCHANGED otherVars ELSE Other!Step

TwinNext == Call \/ Advance

TwinSpec == TwinInit /\ [][TwinNext]_twinVars
-------------------------------------------------------------------------------
Answered == BothIdle /\ result # "none"

\* "Decodes one packet into an existing buffer": what the buffer was used for
\* before is in neither the answer nor the values, after an error as well.
ReuseIsInvisible ==
  Answered /\ db2 = db /\ packet2.data = packet.data =>
    result2 = result /\ packet2 = packet

\* Which inheritor a packet is must not depend on the document order of the
\* inheritors: every one is tested before the walk descends, and none wins
\* by being first.  (Which of several errors is reported may depend on it.)
InheritorOrderIrrelevant ==
  Answered /\ packet2.data = packet.data =>
    packet2 = packet /\ (result2 = "ok" <=> result = "ok")

\* A packet cut short either decodes to the very same values, because what
\* was cut is beyond every entry, or is reported as out of bounds: it never
\* decodes to something else, and no other error hides the truncation.
\* Nor does what comes behind a packet mend or spoil it.
TruncationIsReported ==
  Answered =>
    \/ result2 = "Bits"
    \/ /\ result2 = "ok" <=> result = "ok"
       /\ packet2 = [packet EXCEPT !.data = packet2.data]
===============================================================================
