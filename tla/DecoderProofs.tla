----------------------------- MODULE DecoderProofs -----------------------------
(***************************************************************************)
(* What is proved of the decoder, for every database, packet and depth     *)
(* bound the assumptions of Decoder allow.                                 *)
(*                                                                         *)
(* First what one field can be (a width and a raw value read from bits     *)
(* that are there), then what Insert keeps of a packet buffer, then what   *)
(* the stack looks like, and then the theorems.  Typing is inductive by    *)
(* itself; the map, the values and the failure marks each follow from it   *)
(* and from PacketSteps, the only four things a step does to the buffer.   *)
(*                                                                         *)
(* The second part is about the two decodes of DecoderTwins.  Criteria,    *)
(* sizes and calibrations depend on the decoded values alone; the bits of  *)
(* a field inside the beginning of a packet are the packet's; Together is  *)
(* inductive, and the three properties follow from it.                     *)
(*                                                                         *)
(* The third part is about what a finished packet still selects.  A        *)
(* verdict that is no error stands when the buffer gains a value; Entered  *)
(* says that what is decoded next has no value yet; OnTheWay is inductive. *)
(*                                                                         *)
(* The fourth part is about the contract of decode_into: the stack machine *)
(* answers what the function Outcome of DecoderReference does.  Doing is   *)
(* what is left to do in one active call, Behind what is left when it has  *)
(* returned; Answering, which is inductive, says that the walk that is     *)
(* left comes to what the walk from the start comes to.                    *)
(***************************************************************************)
EXTENDS DecoderTwins, DecoderReference, FiniteSetTheorems, Lists

\* A computed size is a number of bits, even where it is not used.
LEMMA SizeIsNat ==
  ASSUME NEW spec, NEW pkt
  PROVE  ResolveSize(spec, pkt).bits \in Nat
<1>1. \A n : Size(n).bits \in Nat
  BY DEF Size
<1>2. \A error : NoSize(error).bits \in Nat
  BY DEF NoSize
<1>3. DynamicSize(spec, pkt).bits \in Nat
  BY <1>1, <1>2 DEF DynamicSize
<1>4. DiscreteLookup(spec.lookups, pkt).bits \in Nat
  BY <1>1, <1>2 DEF DiscreteLookup, With
<1> QED
  BY <1>1, <1>2, <1>3, <1>4 DEF ResolveSize

\* A field that has bits was read where the packet has them: its raw value is
\* what the encoding makes of those bits.
LEMMA ReadRawSound ==
  ASSUME NEW encoding, NEW pkt, NEW p \in Nat,
         encoding.form = "integer" => encoding.width \in Nat,
         ReadRaw(encoding, pkt, p).error = "none"
  PROVE  LET read == ReadRaw(encoding, pkt, p) IN
         /\ read.width \in Nat
         /\ read.width > 0 => InBounds(pkt.data, p, read.width)
         /\ read.raw = RawAt(encoding, pkt.data, p, read.width)
<1>1. CASE encoding.form = "integer"
  BY <1>1 DEF ReadRaw, ReadInteger, Read, NoRead
<1>2. CASE encoding.form = "binary"
  <2> DEFINE size == ResolveSize(encoding.size, pkt)
  <2>1. size.bits \in Nat
    BY SizeIsNat
  <2>2. size.error = "none" /\ InBounds(pkt.data, p, size.bits)
    <3>1. CASE size.error # "none"
      <4>1. ReadRaw(encoding, pkt, p) = NoRead(size.error)
        BY <1>2, <3>1 DEF ReadRaw, ReadBinary, With
      <4> QED
        BY <3>1, <4>1 DEF NoRead
    <3>2. CASE size.error = "none" /\ ~ InBounds(pkt.data, p, size.bits)
      <4>1. ReadRaw(encoding, pkt, p) = NoRead("Bits")
        BY <1>2, <3>2 DEF ReadRaw, ReadBinary, With
      <4> QED
        BY <4>1 DEF NoRead
    <3> QED
      BY <3>1, <3>2
  <2>3. ReadRaw(encoding, pkt, p) = Read(size.bits, RawAt(encoding, pkt.data, p, size.bits))
    BY <1>2, <2>2 DEF ReadRaw, ReadBinary, With
  <2> QED
    BY <2>1, <2>2, <2>3 DEF Read
<1>3. CASE encoding.form \notin {"integer", "binary"}
  BY <1>3 DEF ReadRaw, NoRead
<1> QED
  BY <1>1, <1>2, <1>3

\* The same of a parameter: its type only decides what is made of the raw
\* value.
LEMMA DecodeValueSound ==
  ASSUME NEW type, NEW pkt, NEW p \in Nat, WellFormedType(type),
         DecodeValue(type, pkt, p).error = "none"
  PROVE  LET v == DecodeValue(type, pkt, p) IN
         /\ v.width \in Nat
         /\ v.width > 0 => InBounds(pkt.data, p, v.width)
         /\ v.raw = RawAt(type.encoding, pkt.data, p, v.width)
<1> DEFINE read == ReadRaw(type.encoding, pkt, p)
           made == Engineer(type, read, pkt)
<1>1. type.kind # "unsupported"
  BY DEF DecodeValue, NoValue
<1>2. read.error = "none"
  <2>1. SUFFICES ASSUME read.error # "none" PROVE FALSE
    OBVIOUS
  <2>2. DecodeValue(type, pkt, p) = NoValue(read.error)
    BY <1>1, <2>1 DEF DecodeValue, With
  <2> QED
    BY <2>1, <2>2 DEF NoValue
<1>3. made.error = "none"
  <2>1. SUFFICES ASSUME made.error # "none" PROVE FALSE
    OBVIOUS
  <2>2. DecodeValue(type, pkt, p) = NoValue(made.error)
    BY <1>1, <1>2, <2>1 DEF DecodeValue, With
  <2> QED
    BY <2>1, <2>2 DEF NoValue
<1>4. DecodeValue(type, pkt, p) =
        [error |-> "none", width |-> read.width, raw |-> read.raw, eng |-> made.eng]
  BY <1>1, <1>2, <1>3 DEF DecodeValue, With
<1>5. type.encoding.form = "integer" => type.encoding.width \in Nat
  BY DEF WellFormedType
<1> QED
  BY <1>2, <1>4, <1>5, ReadRawSound

-------------------------------------------------------------------------------
IsBuffer(pkt) ==
  /\ pkt = [data         |-> pkt.data,
            values       |-> pkt.values,
            slots        |-> pkt.slots,
            container    |-> pkt.container,
            bitsConsumed |-> pkt.bitsConsumed]
  /\ IsSequence(pkt.values)

\* A sequence of anything is a sequence.
LEMMA IsSequenceOf ==
  ASSUME NEW T, NEW s \in Seq(T)
  PROVE  IsSequence(s)
BY SeqOfRange DEF IsSequence

\* Appending to a sequence gives a sequence, whose elements are the old ones
\* and the new one.
LEMMA AppendedSequence ==
  ASSUME NEW s, NEW v, IsSequence(s)
  PROVE  /\ IsSequence(Append(s, v))
         /\ Len(s) \in Nat
         /\ DOMAIN s = 1 .. Len(s)
         /\ Len(Append(s, v)) = Len(s) + 1
         /\ \A i \in 1 .. Len(s) : Append(s, v)[i] = s[i]
         /\ Append(s, v)[Len(s) + 1] = v
<1> DEFINE T == Range(s) \cup {v}
<1>1. s \in Seq(T)
  BY SeqMonotonic DEF IsSequence
<1>2. v \in T
  OBVIOUS
<1>3. IsSequence(Append(s, v))
  <2>1. Append(s, v) \in Seq(T)
    BY <1>1, <1>2, AppendProperties
  <2> QED
    BY <2>1, IsSequenceOf
<1>4. /\ Len(Append(s, v)) = Len(s) + 1
      /\ \A i \in 1 .. Len(s) : Append(s, v)[i] = s[i]
      /\ Append(s, v)[Len(s) + 1] = v
  BY <1>1, <1>2, AppendProperties
<1> QED
  BY <1>1, <1>3, <1>4, LenProperties

\* So does replacing one of its elements.
LEMMA OverwrittenSequence ==
  ASSUME NEW s, NEW v, IsSequence(s), NEW i \in DOMAIN s
  PROVE  /\ IsSequence([s EXCEPT ![i] = v])
         /\ Len(s) \in Nat
         /\ DOMAIN s = 1 .. Len(s)
         /\ Len([s EXCEPT ![i] = v]) = Len(s)
         /\ \A j \in 1 .. Len(s) :
              [s EXCEPT ![i] = v][j] = IF j = i THEN v ELSE s[j]
<1> DEFINE T == Range(s) \cup {v}
<1>1. s \in Seq(T)
  BY SeqMonotonic DEF IsSequence
<1>2. v \in T
  OBVIOUS
<1>3. Len(s) \in Nat /\ DOMAIN s = 1 .. Len(s)
  BY <1>1, LenProperties
<1>4. IsSequence([s EXCEPT ![i] = v])
  <2>1. [s EXCEPT ![i] = v] \in Seq(T)
    BY <1>1, <1>2, <1>3, ExceptSeq
  <2> QED
    BY <2>1, IsSequenceOf
<1>5. /\ Len([s EXCEPT ![i] = v]) = Len(s)
      /\ \A j \in 1 .. Len(s) :
           [s EXCEPT ![i] = v][j] = IF j = i THEN v ELSE s[j]
  BY <1>1, <1>2, <1>3, ExceptSeq
<1> QED
  BY <1>3, <1>4, <1>5

\* Insert keeps the shape of a buffer, and every value it then holds is the one
\* inserted or was there, in the same place, before.
LEMMA InsertSound ==
  ASSUME NEW pkt, NEW v, IsBuffer(pkt)
  PROVE  LET new == Insert(pkt, v) IN
         /\ IsBuffer(new)
         /\ new.data = pkt.data
         /\ new.container = pkt.container
         /\ new.bitsConsumed = pkt.bitsConsumed
         /\ \A j \in 1 .. Len(new.values) :
              \/ new.values[j] = v
              \/ j \in 1 .. Len(pkt.values) /\ new.values[j] = pkt.values[j]
<1> DEFINE index == pkt.slots[v.parameter]
           new   == Insert(pkt, v)
<1>1. CASE v.parameter \in DOMAIN pkt.slots /\ index \in DOMAIN pkt.values
  <2>1. Insert(pkt, v) = [pkt EXCEPT !.values[index] = v]
    BY <1>1 DEF Insert
  <2>2. Insert(pkt, v) = [pkt EXCEPT !.values = [pkt.values EXCEPT ![index] = v]]
    BY <2>1
  <2> HIDE DEF new
  <2>3. /\ new = [data         |-> new.data,
                  values       |-> new.values,
                  slots        |-> new.slots,
                  container    |-> new.container,
                  bitsConsumed |-> new.bitsConsumed]
        /\ new.values = [pkt.values EXCEPT ![index] = v]
        /\ new.data = pkt.data
        /\ new.container = pkt.container
        /\ new.bitsConsumed = pkt.bitsConsumed
    BY <2>2 DEF IsBuffer, new
  <2>4. /\ IsSequence(new.values)
        /\ \A j \in 1 .. Len(new.values) :
             \/ new.values[j] = v
             \/ j \in 1 .. Len(pkt.values) /\ new.values[j] = pkt.values[j]
    <3>1. IsSequence(pkt.values) /\ index \in DOMAIN pkt.values
      BY <1>1 DEF IsBuffer
    <3>2. /\ IsSequence([pkt.values EXCEPT ![index] = v])
          /\ Len([pkt.values EXCEPT ![index] = v]) = Len(pkt.values)
          /\ \A j \in 1 .. Len(pkt.values) :
               [pkt.values EXCEPT ![index] = v][j] =
                 IF j = index THEN v ELSE pkt.values[j]
      BY <3>1, OverwrittenSequence
    <3> QED
      BY <2>3, <3>2
  <2> QED
    BY <2>3, <2>4 DEF IsBuffer, new
<1>2. CASE v.parameter \in DOMAIN pkt.slots /\ index \notin DOMAIN pkt.values
  <2>1. Insert(pkt, v) = pkt
    BY <1>2 DEF Insert
  <2> QED
    BY <2>1
<1>3. CASE v.parameter \notin DOMAIN pkt.slots
  <2>1. Insert(pkt, v) =
          [pkt EXCEPT !.slots  = Extend(@, v.parameter, Len(pkt.values) + 1),
                      !.values = Append(@, v)]
    BY <1>3 DEF Insert
  <2> HIDE DEF new
  <2>2. /\ new = [data         |-> new.data,
                  values       |-> new.values,
                  slots        |-> new.slots,
                  container    |-> new.container,
                  bitsConsumed |-> new.bitsConsumed]
        /\ new.values = Append(pkt.values, v)
        /\ new.data = pkt.data
        /\ new.container = pkt.container
        /\ new.bitsConsumed = pkt.bitsConsumed
    BY <2>1 DEF IsBuffer, new
  <2>3. /\ IsSequence(new.values)
        /\ \A j \in 1 .. Len(new.values) :
             \/ new.values[j] = v
             \/ j \in 1 .. Len(pkt.values) /\ new.values[j] = pkt.values[j]
    <3>1. /\ IsSequence(new.values)
          /\ Len(pkt.values) \in Nat
          /\ Len(new.values) = Len(pkt.values) + 1
          /\ \A j \in 1 .. Len(pkt.values) : new.values[j] = pkt.values[j]
          /\ new.values[Len(pkt.values) + 1] = v
      BY <2>2, AppendedSequence DEF IsBuffer
    <3> QED
      BY <3>1
  <2> QED
    BY <2>2, <2>3 DEF IsBuffer, new
<1> QED
  BY <1>1, <1>2, <1>3

\* Insert keeps vector and table inverse to each other, and moves no parameter
\* that has a slot.
LEMMA InsertKeepsMap ==
  ASSUME NEW pkt, NEW v, IsBuffer(pkt), IsMap(pkt), v.parameter \in Params
  PROVE  LET new == Insert(pkt, v) IN
         /\ IsMap(new)
         /\ \A p \in DOMAIN pkt.slots :
              p \in DOMAIN new.slots /\ new.slots[p] = pkt.slots[p]
<1> DEFINE index == pkt.slots[v.parameter]
           new   == Insert(pkt, v)
<1>1. CASE v.parameter \in DOMAIN pkt.slots
  <2>1. index \in 1 .. Len(pkt.values) /\ index \in DOMAIN pkt.values
    BY <1>1, LenProperties DEF IsMap, IsBuffer, IsSequence
  <2>2. new = [pkt EXCEPT !.values = [pkt.values EXCEPT ![index] = v]]
    BY <1>1, <2>1 DEF Insert
  <2>3. new.slots = pkt.slots /\ new.values = [pkt.values EXCEPT ![index] = v]
    BY <2>2 DEF IsBuffer
  <2>4. /\ Len(new.values) = Len(pkt.values)
        /\ \A j \in 1 .. Len(pkt.values) :
             new.values[j] = IF j = index THEN v ELSE pkt.values[j]
    BY <2>1, <2>3, OverwrittenSequence DEF IsBuffer
  <2> HIDE DEF new
  <2>5. DOMAIN new.slots \subseteq Params
    BY <2>3 DEF IsMap
  <2>6. \A p \in DOMAIN new.slots :
          /\ new.slots[p] \in 1 .. Len(new.values)
          /\ new.values[new.slots[p]].parameter = p
    BY <1>1, <2>1, <2>3, <2>4 DEF IsMap
  <2>7. ASSUME NEW i \in 1 .. Len(new.values)
        PROVE  /\ new.values[i].parameter \in DOMAIN new.slots
               /\ new.slots[new.values[i].parameter] = i
    <3>1. /\ i \in 1 .. Len(pkt.values)
          /\ pkt.values[i].parameter \in DOMAIN pkt.slots
          /\ pkt.slots[pkt.values[i].parameter] = i
      BY <2>4 DEF IsMap
    <3>2. CASE i = index
      BY <1>1, <2>3, <2>4, <3>1, <3>2
    <3>3. CASE i # index
      BY <2>3, <2>4, <3>1, <3>3
    <3> QED
      BY <3>2, <3>3
  <2> QED
    BY <2>3, <2>5, <2>6, <2>7 DEF IsMap, new
<1>2. CASE v.parameter \notin DOMAIN pkt.slots
  <2> DEFINE last == Len(pkt.values) + 1
  <2>1. new.slots = Extend(pkt.slots, v.parameter, last) /\ new.values = Append(pkt.values, v)
    BY <1>2 DEF Insert, IsBuffer
  <2>2. /\ DOMAIN new.slots = DOMAIN pkt.slots \cup {v.parameter}
        /\ new.slots[v.parameter] = last
        /\ \A p \in DOMAIN pkt.slots : new.slots[p] = pkt.slots[p]
    BY <1>2, <2>1 DEF Extend
  <2>3. /\ Len(pkt.values) \in Nat
        /\ Len(new.values) = last
        /\ \A j \in 1 .. Len(pkt.values) : new.values[j] = pkt.values[j]
        /\ new.values[last] = v
    BY <2>1, AppendedSequence DEF IsBuffer
  <2> HIDE DEF new
  <2>4. ASSUME NEW p \in DOMAIN new.slots
        PROVE  /\ new.slots[p] \in 1 .. Len(new.values)
               /\ new.values[new.slots[p]].parameter = p
    <3>1. CASE p = v.parameter
      BY <2>2, <2>3, <3>1
    <3>2. CASE p \in DOMAIN pkt.slots
      <4>1. /\ pkt.slots[p] \in 1 .. Len(pkt.values)
            /\ pkt.values[pkt.slots[p]].parameter = p
        BY <3>2 DEF IsMap
      <4>2. new.slots[p] = pkt.slots[p]
        BY <2>2, <3>2
      <4>3. new.values[pkt.slots[p]] = pkt.values[pkt.slots[p]]
        BY <2>3, <4>1
      <4> QED
        BY <2>3, <4>1, <4>2, <4>3
    <3> QED
      BY <2>2, <3>1, <3>2
  <2>5. ASSUME NEW i \in 1 .. Len(new.values)
        PROVE  /\ new.values[i].parameter \in DOMAIN new.slots
               /\ new.slots[new.values[i].parameter] = i
    <3>1. CASE i = last
      BY <2>2, <2>3, <3>1
    <3>2. CASE i \in 1 .. Len(pkt.values)
      <4>1. new.values[i] = pkt.values[i]
        BY <2>3, <3>2
      <4>2. /\ pkt.values[i].parameter \in DOMAIN pkt.slots
            /\ pkt.slots[pkt.values[i].parameter] = i
        BY <3>2 DEF IsMap
      <4> QED
        BY <2>2, <4>1, <4>2
    <3> QED
      BY <2>3, <3>1, <3>2
  <2> QED
    BY <2>2, <2>4, <2>5 DEF IsMap, new
<1> QED
  BY <1>1, <1>2

-------------------------------------------------------------------------------
\* While entries are decoded there is an active call of decode_container.
LEMMA TopIsFrame ==
  ASSUME TypeOK, stack # <<>>
  PROVE  /\ Len(stack) \in Nat \ {0}
         /\ Len(stack) \in DOMAIN stack
         /\ Top \in Frames
<1>1. stack \in Seq(Frames)
  BY DEF TypeOK
<1>2. Len(stack) \in Nat \ {0} /\ DOMAIN stack = 1 .. Len(stack)
  BY <1>1, EmptySeq, LenProperties
<1> QED
  BY <1>1, <1>2, ElementOfSeq DEF Top

\* Its entry is one the loader lets through.
LEMMA EntryWellFormed ==
  ASSUME TypeOK, stack # <<>>, ~ AtEnd
  PROVE  /\ Entry.repeat \in Nat
         /\ Entry.kind = "parameter" => Entry.parameter \in Params
         /\ Entry.kind = "container" => Entry.child \in Containers
         /\ Entry.kind = "fixed" => Entry.size \in Nat
         /\ \A l \in Entry.location : l.offset \in Int
<1>1. Top.container \in Containers /\ Top.entry \in Nat \ {0}
  BY TopIsFrame DEF Frames
<1>2. db \in Databases
  BY DEF TypeOK
<1>3. IsSequence(db.entries[Top.container])
  BY <1>1, <1>2, DatabaseAssumption
<1>4. Top.entry \in DOMAIN db.entries[Top.container]
  <2>1. /\ Len(db.entries[Top.container]) \in Nat
        /\ DOMAIN db.entries[Top.container] = 1 .. Len(db.entries[Top.container])
    BY <1>3, LenProperties DEF IsSequence
  <2> QED
    BY <1>1, <2>1 DEF AtEnd
<1> QED
  BY <1>1, <1>2, <1>4, DatabaseAssumption DEF Entry

\* Wherever an entry says it starts, it starts at a bit offset of the packet.
LEMMA EntryStartIsNat ==
  ASSUME TypeOK, stack # <<>>, ~ AtEnd
  PROVE  EntryStart \in Nat
<1>1. position \in Nat /\ Top.start \in Nat
  BY TopIsFrame DEF TypeOK, Frames
<1>2. \A l \in Entry.location : l.offset \in Int
  BY EntryWellFormed
<1>3. \A base \in Nat, offset \in Int : Located(base, offset) \in Nat
  BY DEF Located
<1> QED
  BY <1>1, <1>2, <1>3 DEF EntryStart

\* Counting a repetition keeps the stack a stack.
LEMMA RepeatedIsStack ==
  ASSUME TypeOK, stack # <<>>
  PROVE  /\ Repeated \in Seq(Frames)
         /\ Repeated # <<>>
         /\ Len(Repeated) = Len(stack)
<1>1. stack \in Seq(Frames)
  BY DEF TypeOK
<1>2. [Top EXCEPT !.repetition = @ + 1] \in Frames
  BY TopIsFrame DEF Frames
<1>3. Repeated = [stack EXCEPT ![Len(stack)] = [Top EXCEPT !.repetition = @ + 1]]
  BY DEF Repeated, Top
<1>4. Len(stack) \in 1 .. Len(stack)
  BY TopIsFrame
<1>5. Repeated \in Seq(Frames) /\ Len(Repeated) = Len(stack)
  BY <1>1, <1>2, <1>3, <1>4, ExceptSeq
<1> QED
  BY <1>4, <1>5, EmptySeq, TopIsFrame

\* The value decode_parameter reports is read from the current packet.
LEMMA ParameterSound ==
  ASSUME TypeOK, stack # <<>>, ~ AtEnd, Entry.kind = "parameter",
         DecodeValue(db.types[Entry.parameter], packet, EntryStart).error = "none"
  PROVE  LET v == DecodeValue(db.types[Entry.parameter], packet, EntryStart) IN
         /\ v.width \in Nat
         /\ v.width > 0 => InBounds(packet.data, EntryStart, v.width)
         /\ v.raw = RawAt(db.types[Entry.parameter].encoding, packet.data,
                          EntryStart, v.width)
<1>1. Entry.parameter \in Params /\ EntryStart \in Nat
  BY EntryWellFormed, EntryStartIsNat
<1>2. WellFormedType(db.types[Entry.parameter])
  BY <1>1, DatabaseAssumption DEF TypeOK
<1> QED
  BY <1>1, <1>2, DecodeValueSound

-------------------------------------------------------------------------------
\* An error leaves every variable with its type.
LEMMA FailTyped ==
  ASSUME TypeOK, NEW error, Fail(error)
  PROVE  TypeOK'
BY EmptySeq DEF TypeOK, Fail

LEMMA TypingStarts == Init => TypeOK
<1> SUFFICES ASSUME Init PROVE TypeOK
  OBVIOUS
<1>1. db.root \in Containers
  BY DatabaseAssumption DEF Init
<1>2. IsSequence(<<>>)
  BY EmptySeq DEF IsSequence
<1> QED
  BY <1>1, <1>2, EmptySeq DEF Init, TypeOK, NewPacket

LEMMA TypingSteps == TypeOK /\ [Next]_vars => TypeOK'
<1> SUFFICES ASSUME TypeOK, [Next]_vars PROVE TypeOK'
  OBVIOUS
<1>1. ASSUME NEW d \in Packets, DecodeInto(d) PROVE TypeOK'
  <2>1. db.root \in Containers
    BY DatabaseAssumption DEF TypeOK
  <2>2. IsSequence(<<>>)
    BY EmptySeq DEF IsSequence
  <2>3. packet' = NewPacket(d, db.root)
    BY <1>1 DEF DecodeInto, Reset, NewPacket, TypeOK
  <2>4. stack' \in Seq(Frames) /\ stack' # <<>>
    BY <1>1, <2>1 DEF DecodeInto, Frame, Frames
  <2> QED
    BY <1>1, <2>1, <2>2, <2>3, <2>4 DEF DecodeInto, NewPacket, TypeOK
<1>2. CASE RejectLocation
  BY <1>2, FailTyped DEF RejectLocation
<1>3. CASE DecodeParameter
  <2> DEFINE v == DecodeValue(db.types[Entry.parameter], packet, EntryStart)
  <2>1. CASE v.error # "none"
    BY <1>3, <2>1, FailTyped DEF DecodeParameter
  <2>2. CASE v.error = "none"
    <3>1. /\ stack # <<>> /\ ~ AtEnd /\ phase = "entries"
          /\ Entry.kind = "parameter"
      BY <1>3 DEF DecodeParameter, InEntries, Repeating
    <3>2. /\ packet' = Insert(packet, Reported(v))
          /\ position' = EntryStart + v.width
          /\ stack' = Repeated
          /\ UNCHANGED <<db, current, phase, result>>
      BY <1>3, <2>2 DEF DecodeParameter
    <3>3. position' \in Nat
      BY <2>2, <3>1, <3>2, EntryStartIsNat, ParameterSound
    <3>4. IsBuffer(packet)
      BY DEF TypeOK, IsBuffer
    <3>5. /\ IsBuffer(packet')
          /\ packet'.data = packet.data
          /\ packet'.container = packet.container
          /\ packet'.bitsConsumed = packet.bitsConsumed
      BY <3>2, <3>4, InsertSound
    <3> QED
      BY <3>1, <3>2, <3>3, <3>5, RepeatedIsStack DEF TypeOK, IsBuffer
  <2> QED
    BY <2>1, <2>2
<1>4. CASE EnterContainer
  <2>1. CASE Len(stack) > MAX_CONTAINER_DEPTH
    BY <1>4, <2>1, FailTyped DEF EnterContainer
  <2>2. CASE ~ Len(stack) > MAX_CONTAINER_DEPTH
    <3>1. /\ stack # <<>> /\ ~ AtEnd /\ phase = "entries"
          /\ Entry.kind = "container"
      BY <1>4 DEF EnterContainer, InEntries, Repeating
    <3>2. /\ position' = EntryStart
          /\ stack' = Append(Repeated, Frame(Entry.child, EntryStart))
          /\ UNCHANGED <<db, packet, current, phase, result>>
      BY <1>4, <2>2 DEF EnterContainer
    <3>3. Frame(Entry.child, EntryStart) \in Frames
      BY <3>1, EntryWellFormed, EntryStartIsNat DEF Frame, Frames
    <3>4. stack' \in Seq(Frames) /\ stack' # <<>>
      BY <3>1, <3>2, <3>3, RepeatedIsStack, AppendProperties
    <3> QED
      BY <3>1, <3>2, <3>4, EntryStartIsNat DEF TypeOK
  <2> QED
    BY <2>1, <2>2
<1>5. CASE SkipFixedValue
  <2>1. CASE ~ InBounds(packet.data, EntryStart, Entry.size)
    BY <1>5, <2>1, FailTyped DEF SkipFixedValue
  <2>2. CASE InBounds(packet.data, EntryStart, Entry.size)
    <3>1. /\ stack # <<>> /\ ~ AtEnd /\ phase = "entries"
          /\ Entry.kind = "fixed"
      BY <1>5 DEF SkipFixedValue, InEntries, Repeating
    <3>2. /\ position' = EntryStart + Entry.size
          /\ stack' = Repeated
          /\ UNCHANGED <<db, packet, current, phase, result>>
      BY <1>5, <2>2 DEF SkipFixedValue
    <3>3. position' \in Nat
      BY <3>1, <3>2, EntryStartIsNat, EntryWellFormed
    <3> QED
      BY <3>1, <3>2, <3>3, RepeatedIsStack DEF TypeOK
  <2> QED
    BY <2>1, <2>2
<1>6. CASE RejectEntry
  BY <1>6, FailTyped DEF RejectEntry
<1>7. CASE NextEntry
  <2>1. stack # <<>> /\ ~ AtEnd /\ phase = "entries"
    BY <1>7 DEF NextEntry, InEntries
  <2>2. [Top EXCEPT !.entry = @ + 1, !.repetition = 0] \in Frames
    <3>1. Top \in Frames
      BY <2>1, TopIsFrame
    <3>2. [Top EXCEPT !.entry = @ + 1] \in Frames
      BY <3>1 DEF Frames
    <3> QED
      BY <3>2 DEF Frames
  <2>3. stack' = [stack EXCEPT ![Len(stack)] =
                    [Top EXCEPT !.entry = @ + 1, !.repetition = 0]]
    BY <1>7, <2>1, TopIsFrame DEF NextEntry, Top
  <2>4. stack' \in Seq(Frames) /\ Len(stack') = Len(stack)
    BY <2>1, <2>2, <2>3, TopIsFrame, ExceptSeq DEF TypeOK
  <2>5. stack' # <<>>
    BY <2>1, <2>4, TopIsFrame, EmptySeq
  <2> QED
    BY <1>7, <2>1, <2>4, <2>5, EntryStartIsNat DEF NextEntry, TypeOK
<1>8. CASE LeaveContainer
  <2>1. stack # <<>> /\ phase = "entries"
    BY <1>8 DEF LeaveContainer, InEntries
  <2>2. Len(stack) \in Nat \ {0} /\ stack \in Seq(Frames)
    BY <2>1, TopIsFrame DEF TypeOK
  <2>3. stack' = SubSeq(stack, 1, Len(stack) - 1)
    BY <1>8 DEF LeaveContainer
  <2>4. stack' \in Seq(Frames) /\ Len(stack') = Len(stack) - 1
    <3> DEFINE n    == Len(stack) - 1
               rest == SubSeq(stack, 1, n)
    <3>1. n \in Nat /\ \A i \in 1 .. n : stack[i] \in Frames
      BY <2>2, ElementOfSeq
    <3> HIDE DEF n
    <3>2. rest \in Seq(Frames) /\ Len(rest) = IF 1 <= n THEN n - 1 + 1 ELSE 0
      BY <3>1, SubSeqProperties
    <3> HIDE DEF rest
    <3>3. rest \in Seq(Frames) /\ Len(rest) = n
      BY <3>1, <3>2
    <3> QED
      BY <2>3, <3>3 DEF rest, n
  <2>5. stack' = <<>> <=> Len(stack) = 1
    BY <2>2, <2>4, EmptySeq
  <2> QED
    BY <1>8, <2>4, <2>5 DEF LeaveContainer, TypeOK
<1>9. CASE RejectCriteria
  BY <1>9, FailTyped DEF RejectCriteria
<1>10. CASE RejectAmbiguous
  BY <1>10, FailTyped DEF RejectAmbiguous
<1>11. CASE Descend
  <2>1. PICK c \in Matching :
          /\ current' = c
          /\ stack' = <<Frame(c, position)>>
          /\ phase' = "entries"
          /\ UNCHANGED <<db, packet, position, result>>
    BY <1>11 DEF Descend
  <2>2. c \in Containers
    BY DatabaseAssumption DEF TypeOK, Matching, Inheritors
  <2>3. stack' \in Seq(Frames) /\ stack' # <<>>
    BY <2>1, <2>2 DEF TypeOK, Frame, Frames
  <2> QED
    BY <2>1, <2>2, <2>3 DEF TypeOK
<1>12. CASE RejectUnrecognized
  BY <1>12, FailTyped DEF RejectUnrecognized
<1>13. CASE Succeed
  BY <1>13 DEF Succeed, Selecting, Finish, TypeOK
<1>14. CASE UNCHANGED vars
  BY <1>14 DEF vars, TypeOK
<1> QED
  BY <1>1, <1>2, <1>3, <1>4, <1>5, <1>6, <1>7, <1>8, <1>9, <1>10, <1>11,
     <1>12, <1>13, <1>14 DEF Next, Step

\* Every variable keeps its shape.  The packet stays a record whose values are
\* a sequence, the cursor a bit offset, and a call of decode_container is
\* active exactly while entries are decoded.
THEOREM Typing == Spec => []TypeOK
<1> QED
  BY TypingStarts, TypingSteps, PTL DEF Spec

-------------------------------------------------------------------------------
\* The value DecodeParameter reports, and the condition under which it does.
Decoded == DecodeValue(db.types[Entry.parameter], packet, EntryStart)
Reports ==
  /\ stack # <<>>
  /\ ~ AtEnd
  /\ Entry.kind = "parameter"
  /\ Decoded.error = "none"
  /\ packet' = Insert(packet, Reported(Decoded))

\* The four things a step can do to the packet buffer.
LEMMA PacketSteps ==
  ASSUME TypeOK, [Next]_vars
  PROVE  /\ db' = db
         /\ \/ packet' = packet /\ (phase # "idle" \/ result' = result)
            \/ /\ phase = "idle" /\ result' = "none"
               /\ \E d \in Packets : packet' = NewPacket(d, db.root)
            \/ /\ phase # "idle" /\ result' = "ok"
               /\ packet' = Finish(packet, current, position)
            \/ phase # "idle" /\ result' = result /\ Reports
<1>1. ASSUME NEW d \in Packets, DecodeInto(d)
      PROVE  /\ db' = db /\ phase = "idle" /\ result' = "none"
             /\ packet' = NewPacket(d, db.root)
  BY <1>1 DEF DecodeInto, Reset, NewPacket, TypeOK
<1>2. ASSUME NEW error, Fail(error)
      PROVE  db' = db /\ packet' = packet
  BY <1>2 DEF Fail
<1>3. ASSUME DecodeParameter
      PROVE  /\ db' = db /\ phase # "idle"
             /\ packet' = packet \/ (result' = result /\ Reports)
  <2>1. CASE Decoded.error # "none"
    BY <1>2, <1>3, <2>1 DEF DecodeParameter, InEntries, Decoded
  <2>2. CASE Decoded.error = "none"
    BY <1>3, <2>2 DEF DecodeParameter, InEntries, Repeating, Decoded, Reports
  <2> QED
    BY <2>1, <2>2
<1>4. ASSUME Succeed
      PROVE  /\ db' = db /\ phase # "idle" /\ result' = "ok"
             /\ packet' = Finish(packet, current, position)
  BY <1>4 DEF Succeed, Selecting
<1>5. ASSUME Step, ~ DecodeParameter, ~ Succeed
      PROVE  db' = db /\ packet' = packet /\ phase # "idle"
  BY <1>2, <1>5 DEF Step, RejectLocation, EnterContainer, SkipFixedValue,
     RejectEntry, NextEntry, LeaveContainer, RejectCriteria, RejectAmbiguous,
     Descend, RejectUnrecognized, InEntries, Selecting
<1> QED
  BY <1>1, <1>3, <1>4, <1>5 DEF Next, vars

\* In every reachable state, of every database and packet stream, the slot
\* table and the vector of values are inverse to each other.
THEOREM BufferReadsAsMap == Spec => []ReadsAsMap
<1>1. Init => ReadsAsMap
  BY DEF Init, NewPacket, NoSlots, ReadsAsMap, IsMap
<1>2. TypeOK /\ ReadsAsMap /\ [Next]_vars => ReadsAsMap'
  <2> SUFFICES ASSUME TypeOK, ReadsAsMap, [Next]_vars PROVE ReadsAsMap'
    OBVIOUS
  <2>1. CASE packet' = packet
    BY <2>1 DEF ReadsAsMap, IsMap
  <2>2. CASE \E d \in Packets : packet' = NewPacket(d, db.root)
    BY <2>2 DEF NewPacket, NoSlots, ReadsAsMap, IsMap
  <2>3. CASE packet' = Finish(packet, current, position)
    BY <2>3 DEF Finish, TypeOK, ReadsAsMap, IsMap
  <2>4. CASE Reports
    <3>1. IsBuffer(packet) /\ IsMap(packet)
      BY DEF TypeOK, IsBuffer, ReadsAsMap
    <3>2. Reported(Decoded).parameter \in Params
      BY <2>4, EntryWellFormed DEF Reports, Reported
    <3>3. IsMap(Insert(packet, Reported(Decoded)))
      BY <3>1, <3>2, InsertKeepsMap
    <3> QED
      BY <2>4, <3>3 DEF Reports, ReadsAsMap, IsMap
  <2> QED
    BY <2>1, <2>2, <2>3, <2>4, PacketSteps
<1> QED
  BY <1>1, <1>2, Typing, PTL DEF Spec

\* What a step of a running call does to the decode order: nothing, but for
\* one parameter more at its end.
THEOREM DecodeOrderIsStable == Spec => OrderIsStable
<1> DEFINE Kept == \A p \in DOMAIN packet.slots :
                     p \in DOMAIN packet'.slots /\ packet'.slots[p] = packet.slots[p]
<1>1. TypeOK /\ ReadsAsMap /\ [Next]_vars => [phase # "idle" => Kept]_vars
  <2> SUFFICES ASSUME TypeOK, ReadsAsMap, [Next]_vars, phase # "idle" PROVE Kept
    OBVIOUS
  <2>1. CASE packet' = packet
    BY <2>1
  <2>2. CASE packet' = Finish(packet, current, position)
    BY <2>2 DEF Finish, TypeOK
  <2>3. CASE Reports
    <3>1. IsBuffer(packet) /\ IsMap(packet)
      BY DEF TypeOK, IsBuffer, ReadsAsMap
    <3>2. Reported(Decoded).parameter \in Params
      BY <2>3, EntryWellFormed DEF Reports, Reported
    <3> QED
      BY <2>3, <3>1, <3>2, InsertKeepsMap DEF Reports
  <2> QED
    BY <2>1, <2>2, <2>3, PacketSteps
<1> QED
  BY <1>1, Typing, BufferReadsAsMap, PTL DEF Spec, OrderIsStable

\* Whatever the buffer was used for before, and wherever the cursor was sent,
\* a value is made of bits of the packet being decoded.
THEOREM ValuesComeFromThisPacket == Spec => []ValuesOfThisPacket
<1>1. Init => ValuesOfThisPacket
  BY DEF Init, NewPacket, ValuesOfThisPacket
<1>2. TypeOK /\ ValuesOfThisPacket /\ [Next]_vars => ValuesOfThisPacket'
  <2> SUFFICES ASSUME TypeOK, ValuesOfThisPacket, [Next]_vars
               PROVE  ValuesOfThisPacket'
    OBVIOUS
  <2> DEFINE Sound(v, d) ==
        /\ v.bitOffset \in Nat
        /\ v.bitWidth \in Nat
        /\ v.bitWidth > 0 => InBounds(d, v.bitOffset, v.bitWidth)
        /\ v.raw = RawAt(db.types[v.parameter].encoding, d, v.bitOffset, v.bitWidth)
  <2>1. db' = db
    BY PacketSteps
  <2>2. CASE packet' = packet
    BY <2>1, <2>2 DEF ValuesOfThisPacket
  <2>3. CASE \E d \in Packets : packet' = NewPacket(d, db.root)
    BY <2>3 DEF NewPacket, ValuesOfThisPacket
  <2>4. CASE packet' = Finish(packet, current, position)
    <3>1. packet'.values = packet.values /\ packet'.data = packet.data
      BY <2>4 DEF Finish, TypeOK
    <3> QED
      BY <2>1, <3>1 DEF ValuesOfThisPacket
  <2>5. CASE Reports
    <3>1. Sound(Reported(Decoded), packet.data)
      <4>1. EntryStart \in Nat
        BY <2>5, EntryStartIsNat DEF Reports
      <4>2. /\ Decoded.width \in Nat
            /\ Decoded.width > 0 => InBounds(packet.data, EntryStart, Decoded.width)
            /\ Decoded.raw = RawAt(db.types[Entry.parameter].encoding, packet.data,
                                   EntryStart, Decoded.width)
        BY <2>5, ParameterSound DEF Reports, Decoded
      <4> QED
        BY <4>1, <4>2 DEF Reported
    <3>2. \A j \in 1 .. Len(packet.values) : Sound(packet.values[j], packet.data)
      BY DEF ValuesOfThisPacket
    <3>3. IsBuffer(packet) /\ packet' = Insert(packet, Reported(Decoded))
      BY <2>5 DEF TypeOK, IsBuffer, Reports
    <3>4. /\ packet'.data = packet.data
          /\ \A j \in 1 .. Len(packet'.values) :
               \/ packet'.values[j] = Reported(Decoded)
               \/ j \in 1 .. Len(packet.values) /\ packet'.values[j] = packet.values[j]
      BY <3>3, InsertSound
    <3>5. \A j \in 1 .. Len(packet'.values) : Sound(packet'.values[j], packet'.data)
      <4> HIDE DEF Sound
      <4> QED
        BY <3>1, <3>2, <3>4
    <3> QED
      BY <2>1, <3>5 DEF ValuesOfThisPacket
  <2> QED
    BY <2>2, <2>3, <2>4, <2>5, PacketSteps
<1> QED
  BY <1>1, <1>2, Typing, PTL DEF Spec

\* A call has no result until it is over: without this a failing step could
\* follow a success, and UnfinishedIsUnmarked would not be inductive.
NoResultYet == phase # "idle" => result = "none"

\* The buffer of a decode that failed or is running never looks finished.
THEOREM FailureLeavesNoMark == Spec => []UnfinishedIsUnmarked
<1> DEFINE IInv == UnfinishedIsUnmarked /\ NoResultYet
<1>1. Init => IInv
  BY DEF Init, NewPacket, UnfinishedIsUnmarked, NoResultYet
<1>2. TypeOK /\ IInv /\ [Next]_vars => IInv'
  <2> SUFFICES ASSUME TypeOK, IInv, [Next]_vars PROVE IInv'
    OBVIOUS
  <2>1. NoResultYet'
    BY DEF NoResultYet, Next, Step, vars, Fail, DecodeInto, RejectLocation,
       DecodeParameter, EnterContainer, SkipFixedValue, RejectEntry, NextEntry,
       LeaveContainer, RejectCriteria, RejectAmbiguous, Descend,
       RejectUnrecognized, Succeed, InEntries, Selecting
  <2>2. UnfinishedIsUnmarked'
    <3>1. CASE packet' = packet /\ (phase # "idle" \/ result' = result)
      BY <3>1, PacketSteps DEF UnfinishedIsUnmarked, NoResultYet
    <3>2. CASE \E d \in Packets : packet' = NewPacket(d, db.root)
      BY <3>2, PacketSteps DEF NewPacket, UnfinishedIsUnmarked
    <3>3. CASE result' = "ok"
      BY <3>3 DEF UnfinishedIsUnmarked
    <3>4. CASE phase # "idle" /\ result' = result /\ Reports
      <4>1. IsBuffer(packet)
        BY DEF TypeOK, IsBuffer
      <4>2. packet'.container = packet.container /\ packet'.bitsConsumed = packet.bitsConsumed
        BY <3>4, <4>1, InsertSound DEF Reports
      <4> QED
        BY <3>4, <4>2, PacketSteps DEF UnfinishedIsUnmarked
    <3> QED
      BY <3>1, <3>2, <3>3, <3>4, PacketSteps
  <2> QED
    BY <2>1, <2>2
<1> QED
  BY <1>1, <1>2, Typing, PTL DEF Spec

\* However the containers refer to each other, the calls of decode_container
\* are never nested deeper than the bound.
THEOREM NestingIsBounded == Spec => []NestingBounded
<1>1. Init => NestingBounded
  BY DepthAssumption, EmptySeq DEF Init, NestingBounded
<1>2. TypeOK /\ NestingBounded /\ [Next]_vars => NestingBounded'
  <2> SUFFICES ASSUME TypeOK, NestingBounded, [Next]_vars PROVE NestingBounded'
    OBVIOUS
  <2>1. CASE stack' = stack
    BY <2>1 DEF NestingBounded
  <2>2. CASE stack' = <<>>
    BY <2>2, DepthAssumption, EmptySeq DEF NestingBounded
  <2>3. CASE \E c, start : stack' = <<Frame(c, start)>>
    BY <2>3, DepthAssumption DEF NestingBounded
  <2>4. CASE InEntries /\ stack' = Repeated
    BY <2>4, RepeatedIsStack DEF NestingBounded, InEntries
  <2>5. CASE EnterContainer
    <3>1. CASE Len(stack) > MAX_CONTAINER_DEPTH
      BY <2>2, <2>5, <3>1 DEF EnterContainer, Fail
    <3>2. CASE ~ Len(stack) > MAX_CONTAINER_DEPTH
      <4>1. stack # <<>> /\ ~ AtEnd /\ Entry.kind = "container"
        BY <2>5 DEF EnterContainer, InEntries, Repeating
      <4>2. Repeated \in Seq(Frames) /\ Len(Repeated) = Len(stack)
        BY <4>1, RepeatedIsStack
      <4>3. Frame(Entry.child, EntryStart) \in Frames
        BY <4>1, EntryWellFormed, EntryStartIsNat DEF Frame, Frames
      <4>4. stack' = Append(Repeated, Frame(Entry.child, EntryStart))
        BY <2>5, <3>2 DEF EnterContainer
      <4>5. Len(stack') = Len(stack) + 1
        BY <4>2, <4>3, <4>4, AppendProperties
      <4> QED
        BY <3>2, <4>1, <4>5, TopIsFrame, DepthAssumption DEF NestingBounded
    <3> QED
      BY <3>1, <3>2
  <2>6. CASE NextEntry
    <3>1. stack \in Seq(Frames) /\ stack # <<>>
      BY <2>6 DEF TypeOK, NextEntry, InEntries
    <3>2. Len(stack') = Len(stack)
      BY <2>6, <3>1 DEF NextEntry
    <3> QED
      BY <3>2 DEF NestingBounded
  <2>7. CASE LeaveContainer
    <3> DEFINE n == Len(stack) - 1
    <3>1. stack # <<>> /\ stack' = SubSeq(stack, 1, n)
      BY <2>7 DEF LeaveContainer, InEntries
    <3>2. n \in Nat /\ \A i \in 1 .. n : stack[i] \in Frames
      BY <3>1, TopIsFrame, ElementOfSeq DEF TypeOK
    <3> HIDE DEF n
    <3>3. Len(stack') = IF 1 <= n THEN n - 1 + 1 ELSE 0
      BY <3>1, <3>2, SubSeqProperties
    <3>4. Len(stack') = n
      BY <3>2, <3>3
    <3> QED
      BY <3>2, <3>4, DepthAssumption, TopIsFrame, <3>1 DEF NestingBounded, n
  <2> QED
    BY <2>1, <2>2, <2>3, <2>4, <2>5, <2>6, <2>7 DEF Next, Step, vars, Fail,
       DecodeInto, RejectLocation, DecodeParameter, SkipFixedValue, RejectEntry,
       RejectCriteria, RejectAmbiguous, Descend, RejectUnrecognized, Succeed
<1> QED
  BY <1>1, <1>2, Typing, PTL DEF Spec

-------------------------------------------------------------------------------
\* Two buffers that hold the same values in the same places.
SameValues(p, q) == p.values = q.values /\ p.slots = q.slots

\* What a loop over verdicts ends with.
First(verdicts, neutral) ==
  LET i == SelectInSeq(verdicts, LAMBDA v : v # neutral)
  IN IF i = 0 THEN neutral ELSE verdicts[i]

\* Buffers with the same values answer every look-up alike,
LEMMA SameHas ==
  ASSUME NEW p, NEW q, SameValues(p, q), NEW x
  PROVE  Has(p, x) = Has(q, x) /\ Get(p, x) = Get(q, x)
  BY DEF SameValues, Has, Get

\* and so every comparison,
LEMMA SameCompares ==
  ASSUME NEW p, NEW q, SameValues(p, q), NEW c, NEW current_
  PROVE  EvaluateComparison(c, p, current_) = EvaluateComparison(c, q, current_)
  BY SameHas DEF EvaluateComparison

\* every condition
LEMMA SameConditions ==
  ASSUME NEW p, NEW q, SameValues(p, q), NEW c
  PROVE  EvaluateCondition(c, p) = EvaluateCondition(c, q)
  BY SameHas DEF EvaluateCondition

\* and every group of conditions,
LEMMA SameInner ==
  ASSUME NEW p, NEW q, SameValues(p, q), NEW e
  PROVE  EvaluateInner(e, p) = EvaluateInner(e, q)
  <1>1. [i \in DOMAIN e.of |-> EvaluateCondition(e.of[i], p)]
          = [i \in DOMAIN e.of |-> EvaluateCondition(e.of[i], q)]
    BY SameConditions
  <1>2. EvaluateCondition(e, p) = EvaluateCondition(e, q)
    BY SameConditions
  <1>3. First([i \in DOMAIN e.of |-> EvaluateCondition(e.of[i], p)], Yes)
          = First([i \in DOMAIN e.of |-> EvaluateCondition(e.of[i], q)], Yes)
    BY <1>1
  <1>4. First([i \in DOMAIN e.of |-> EvaluateCondition(e.of[i], p)], No)
          = First([i \in DOMAIN e.of |-> EvaluateCondition(e.of[i], q)], No)
    BY <1>1
  <1>5. ASSUME NEW r
        PROVE  EvaluateInner(e, r) =
                 IF e.kind = "condition" THEN EvaluateCondition(e, r)
                 ELSE IF e.kind = "and"
                 THEN First([i \in DOMAIN e.of |-> EvaluateCondition(e.of[i], r)], Yes)
                 ELSE First([i \in DOMAIN e.of |-> EvaluateCondition(e.of[i], r)], No)
    BY DEF EvaluateInner, EvaluateGroup, AllOf, AnyOf, UpTo, With, First
  <1> QED BY <1>2, <1>3, <1>4, <1>5

\* nested or not.
LEMMA SameBoolean ==
  ASSUME NEW p, NEW q, SameValues(p, q), NEW e
  PROVE  EvaluateBoolean(e, p) = EvaluateBoolean(e, q)
  <1>1. [i \in DOMAIN e.of |-> EvaluateInner(e.of[i], p)]
          = [i \in DOMAIN e.of |-> EvaluateInner(e.of[i], q)]
    BY SameInner
  <1>2. EvaluateCondition(e, p) = EvaluateCondition(e, q)
    BY SameConditions
  <1>3. First([i \in DOMAIN e.of |-> EvaluateInner(e.of[i], p)], Yes)
          = First([i \in DOMAIN e.of |-> EvaluateInner(e.of[i], q)], Yes)
    BY <1>1
  <1>4. First([i \in DOMAIN e.of |-> EvaluateInner(e.of[i], p)], No)
          = First([i \in DOMAIN e.of |-> EvaluateInner(e.of[i], q)], No)
    BY <1>1
  <1>5. ASSUME NEW r
        PROVE  EvaluateBoolean(e, r) =
                 IF e.kind = "condition" THEN EvaluateCondition(e, r)
                 ELSE IF e.kind = "and"
                 THEN First([i \in DOMAIN e.of |-> EvaluateInner(e.of[i], r)], Yes)
                 ELSE First([i \in DOMAIN e.of |-> EvaluateInner(e.of[i], r)], No)
    BY DEF EvaluateBoolean, EvaluateGroup, AllOf, AnyOf, UpTo, With, First
  <1> QED BY <1>2, <1>3, <1>4, <1>5

\* One criterion of whatever kind.
LEMMA SameEvaluates ==
  ASSUME NEW p, NEW q, SameValues(p, q), NEW c, NEW current_
  PROVE  Evaluate(c, p, current_) = Evaluate(c, q, current_)
  <1>1. EvaluateComparison(c, p, current_) = EvaluateComparison(c, q, current_)
    BY SameCompares
  <1>2. EvaluateBoolean(c.expr, p) = EvaluateBoolean(c.expr, q)
    BY SameBoolean
  <1> QED BY <1>1, <1>2 DEF Evaluate

\* Criteria are verdicts about what is decoded, and about nothing else.
LEMMA VerdictsAgree ==
  ASSUME NEW p, NEW q, SameValues(p, q), NEW criteria, NEW current_
  PROVE  EvaluateAll(criteria, p, current_) = EvaluateAll(criteria, q, current_)
  <1>1. [i \in DOMAIN criteria |-> Evaluate(criteria[i], p, current_)]
          = [i \in DOMAIN criteria |-> Evaluate(criteria[i], q, current_)]
    BY SameEvaluates
  <1> QED BY <1>1 DEF EvaluateAll, AllOf, UpTo, With, SelectInSeq

\* So a size that is computed from what is decoded is the same,
LEMMA SizesAgree ==
  ASSUME NEW p, NEW q, SameValues(p, q), NEW spec
  PROVE  ResolveSize(spec, p) = ResolveSize(spec, q)
  <1>1. DynamicSize(spec, p) = DynamicSize(spec, q)
    <2>1. /\ Has(p, spec.parameter) = Has(q, spec.parameter)
          /\ Get(p, spec.parameter) = Get(q, spec.parameter)
      BY SameHas
    <2> QED BY <2>1 DEF DynamicSize
  <1>2. \A l : LookupVerdict(l, p) = LookupVerdict(l, q)
    BY VerdictsAgree DEF LookupVerdict
  <1>3. LookupIndex(spec.lookups, p) = LookupIndex(spec.lookups, q)
    BY <1>2 DEF LookupIndex, SelectInSeq
  <1>4. DiscreteLookup(spec.lookups, p) = DiscreteLookup(spec.lookups, q)
    BY <1>2, <1>3 DEF DiscreteLookup, With
  <1> QED BY <1>1, <1>4 DEF ResolveSize

\* and so are the calibrator a context selects and what it computes.
LEMMA CalibrationsAgree ==
  ASSUME NEW p, NEW q, SameValues(p, q), NEW encoding, NEW raw
  PROVE  Calibrate(encoding, raw, p) = Calibrate(encoding, raw, q)
  <1>1. \A c : EvaluateAll(c.criteria, p, {raw}) = EvaluateAll(c.criteria, q, {raw})
    BY VerdictsAgree
  <1> DEFINE I(r) == SelectInSeq(encoding.contexts, LAMBDA c : EvaluateAll(c.criteria, r, {raw}) # No)
             All(i, r) == EvaluateAll(encoding.contexts[i].criteria, r, {raw})
  <1>2. I(p) = I(q)
    BY <1>1 DEF SelectInSeq
  <1>3. All(I(p), p) = All(I(q), q)
    BY <1>1, <1>2
  <1>4. ASSUME NEW r
        PROVE  Calibrate(encoding, raw, r) =
                 IF raw.kind = "bytes" THEN Uncalibrated(raw)
                 ELSE IF I(r) # 0 /\ All(I(r), r) # Yes THEN NoEng(All(I(r), r))
                 ELSE IF I(r) # 0 THEN RunCalibrator(encoding.contexts[I(r)].calibrator, raw.v)
                 ELSE IF encoding.default # {}
                 THEN RunCalibrator(CHOOSE c \in encoding.default : TRUE, raw.v)
                 ELSE Uncalibrated(raw)
    BY DEF Calibrate, With
  <1> HIDE DEF I, All
  <1> QED BY <1>2, <1>3, <1>4

\* The engineering value is made of the raw value and of nothing else read.
LEMMA EngineeringAgrees ==
  ASSUME NEW p, NEW q, SameValues(p, q), NEW type, NEW read
  PROVE  Engineer(type, read, p) = Engineer(type, read, q)
  BY CalibrationsAgree DEF Engineer

\* The same bits are the same number.
LEMMA PeeksAgree ==
  ASSUME NEW d, NEW e, NEW n, NEW w,
         \A k \in 0 .. w : k # 0 => d[n + k] = e[n + k]
  PROVE  PeekUInt(d, n, w) = PeekUInt(e, n, w)
  <1>1. \A f : [k \in 0 .. w |-> IF k = 0 THEN 0 ELSE 2 * f[k - 1] + d[n + k]]
                 = [k \in 0 .. w |-> IF k = 0 THEN 0 ELSE 2 * f[k - 1] + e[n + k]]
    OBVIOUS
  <1> QED BY <1>1 DEF PeekUInt

\* e is d or the beginning of d.
Begins(e, d) ==
  /\ Len(e) \in Nat /\ Len(d) \in Nat /\ Len(e) <= Len(d)
  /\ \A i \in 1 .. Len(e) : e[i] = d[i]

\* A field inside the part reads as in the whole.
LEMMA FieldsAgree ==
  ASSUME NEW d, NEW e, Begins(e, d), NEW encoding, NEW n \in Nat, NEW w \in Nat,
         w > 0 => InBounds(e, n, w)
  PROVE  /\ InBounds(e, n, w) => InBounds(d, n, w)
         /\ w > 0 => InBounds(d, n, w)
         /\ RawAt(encoding, d, n, w) = RawAt(encoding, e, n, w)
  <1>1. InBounds(e, n, w) => InBounds(d, n, w)
    BY DEF Begins, InBounds
  <1>2. ASSUME NEW k \in 0 .. w, k # 0 PROVE d[n + k] = e[n + k]
    <2>1. w > 0 /\ n + k \in 1 .. Len(e)
      BY <1>2 DEF InBounds, Begins
    <2> QED BY <2>1 DEF Begins
  <1>3. PeekUInt(d, n, w) = PeekUInt(e, n, w)
    BY <1>2, PeeksAgree
  <1> QED BY <1>1, <1>3 DEF RawAt

\* A raw value reads alike in part and whole, or runs past the end of the part.
LEMMA ReadsAgree ==
  ASSUME NEW p, NEW q, SameValues(p, q), Begins(q.data, p.data), NEW encoding, NEW n \in Nat,
         encoding.form = "integer" => encoding.width \in Nat
  PROVE  \/ ReadRaw(encoding, q, n) = ReadRaw(encoding, p, n)
         \/ ReadRaw(encoding, q, n).error = "Bits" /\ q.data # p.data
  <1>1. CASE encoding.form = "integer"
    <2> DEFINE w == encoding.width
    <2>1. w \in Nat
      BY <1>1
    <2>2. CASE w > MAX_UINT_BITS \/ (w > 0 => InBounds(q.data, n, w))
      <3>1. CASE w > MAX_UINT_BITS
        BY <1>1, <3>1 DEF ReadRaw, ReadInteger
      <3>2. CASE ~ w > MAX_UINT_BITS /\ (w > 0 => InBounds(q.data, n, w))
        <4>1. /\ w > 0 => InBounds(p.data, n, w)
              /\ RawAt(encoding, p.data, n, w) = RawAt(encoding, q.data, n, w)
          BY <2>1, <3>2, FieldsAgree
        <4> QED BY <1>1, <3>2, <4>1 DEF ReadRaw, ReadInteger
      <3> QED BY <2>2, <3>1, <3>2
    <2>3. CASE ~ w > MAX_UINT_BITS /\ w > 0 /\ ~ InBounds(q.data, n, w)
      <3>1. ReadRaw(encoding, q, n) = NoRead("Bits")
        BY <1>1, <2>3 DEF ReadRaw, ReadInteger
      <3>2. q.data = p.data => ReadRaw(encoding, p, n) = NoRead("Bits")
        BY <1>1, <2>3 DEF ReadRaw, ReadInteger
      <3> QED BY <3>1, <3>2 DEF NoRead
    <2> QED BY <2>1, <2>2, <2>3
  <1>2. CASE encoding.form = "binary"
    <2> DEFINE size == ResolveSize(encoding.size, p)
               Made(d) == IF size.error # "none" THEN NoRead(size.error)
                          ELSE IF ~ InBounds(d, n, size.bits) THEN NoRead("Bits")
                          ELSE Read(size.bits, RawAt(encoding, d, n, size.bits))
    <2>1. size = ResolveSize(encoding.size, q) /\ size.bits \in Nat
      BY SizesAgree, SizeIsNat
    <2>2. ReadRaw(encoding, p, n) = Made(p.data) /\ ReadRaw(encoding, q, n) = Made(q.data)
      BY <1>2, <2>1 DEF ReadRaw, ReadBinary, With
    <2> HIDE DEF size
    <2>3. CASE InBounds(q.data, n, size.bits)
      <3>1. /\ InBounds(p.data, n, size.bits)
            /\ RawAt(encoding, p.data, n, size.bits) = RawAt(encoding, q.data, n, size.bits)
        BY <2>1, <2>3, FieldsAgree
      <3> QED BY <2>2, <2>3, <3>1
    <2>4. CASE size.error # "none"
      BY <2>2, <2>4
    <2>5. CASE size.error = "none" /\ ~ InBounds(q.data, n, size.bits)
      <3>1. Made(q.data) = NoRead("Bits")
        BY <2>5
      <3> QED BY <2>2, <3>1 DEF NoRead
    <2> QED BY <2>3, <2>4, <2>5
  <1>3. CASE encoding.form \notin {"integer", "binary"}
    BY <1>3 DEF ReadRaw
  <1> QED BY <1>1, <1>2, <1>3

\* So does a parameter; beyond the part it is out of bounds.
LEMMA DecodesAgree ==
  ASSUME NEW p, NEW q, SameValues(p, q), Begins(q.data, p.data), NEW type, NEW n \in Nat,
         WellFormedType(type)
  PROVE  \/ DecodeValue(type, q, n) = DecodeValue(type, p, n)
         \/ DecodeValue(type, q, n).error = "Bits" /\ q.data # p.data
  <1> DEFINE Raw(r) == ReadRaw(type.encoding, r, n)
             Made(r) == Engineer(type, Raw(r), r)
  <1>1. type.encoding.form = "integer" => type.encoding.width \in Nat
    BY DEF WellFormedType
  <1>2. \/ Raw(q) = Raw(p)
        \/ Raw(q).error = "Bits" /\ q.data # p.data
    BY <1>1, ReadsAgree
  <1>3. Raw(q) = Raw(p) => Made(q) = Made(p)
    BY EngineeringAgrees
  <1>4. ASSUME NEW r
        PROVE  DecodeValue(type, r, n) =
                 IF type.kind = "unsupported" THEN NoValue("Unsupported")
                 ELSE IF Raw(r).error # "none" THEN NoValue(Raw(r).error)
                 ELSE IF Made(r).error # "none" THEN NoValue(Made(r).error)
                 ELSE [error |-> "none", width |-> Raw(r).width, raw |-> Raw(r).raw,
                       eng |-> Made(r).eng]
    BY DEF DecodeValue, With
  <1>5. \A error : NoValue(error).error = error
    BY DEF NoValue
  <1> HIDE DEF Raw, Made
  <1> QED BY <1>2, <1>3, <1>4, <1>5

\* What is next in a call is decided by its state: one step at most can be.
LEMMA StepIs ==
  ASSUME Step
  PROVE  /\ phase # "idle"
         /\ InEntries /\ AtEnd => LeaveContainer
         /\ InEntries /\ ~ AtEnd /\ Unlocatable => RejectLocation
         /\ InEntries /\ ~ AtEnd /\ ~ Unlocatable /\ ~ Repeating => NextEntry
         /\ InEntries /\ Repeating /\ ~ Top.repetition >= Entry.repeat =>
               DecodeParameter \/ EnterContainer \/ SkipFixedValue \/ RejectEntry
         /\ Selecting =>
               RejectCriteria \/ RejectAmbiguous \/ Descend \/ RejectUnrecognized \/ Succeed
         /\ InEntries \/ Selecting
  BY DEF Step, RejectLocation, DecodeParameter, EnterContainer, SkipFixedValue, RejectEntry,
     NextEntry, LeaveContainer, RejectCriteria, RejectAmbiguous, Descend, RejectUnrecognized,
     Succeed, InEntries, Repeating, Selecting

\* The same of the other call.
LEMMA OtherStepIs ==
  ASSUME Other!Step
  PROVE  /\ phase2 # "idle"
         /\ Other!InEntries /\ Other!AtEnd => Other!LeaveContainer
         /\ Other!InEntries /\ ~ Other!AtEnd /\ Other!Unlocatable => Other!RejectLocation
         /\ Other!InEntries /\ ~ Other!AtEnd /\ ~ Other!Unlocatable /\ ~ Other!Repeating =>
               Other!NextEntry
         /\ Other!InEntries /\ Other!Repeating /\ ~ Other!Top.repetition >= Other!Entry.repeat =>
               \/ Other!DecodeParameter \/ Other!EnterContainer
               \/ Other!SkipFixedValue \/ Other!RejectEntry
         /\ Other!Selecting =>
               \/ Other!RejectCriteria \/ Other!RejectAmbiguous \/ Other!Descend
               \/ Other!RejectUnrecognized \/ Other!Succeed
         /\ Other!InEntries \/ Other!Selecting
  BY DEF Other!Step, Other!RejectLocation, Other!DecodeParameter, Other!EnterContainer,
     Other!SkipFixedValue, Other!RejectEntry, Other!NextEntry, Other!LeaveContainer,
     Other!RejectCriteria, Other!RejectAmbiguous, Other!Descend, Other!RejectUnrecognized,
     Other!Succeed, Other!InEntries, Other!Repeating, Other!Selecting

\* Both calls are at the same place and have decoded the same.
SamePacket == packet2 = [packet EXCEPT !.data = packet2.data]
InStep ==
  /\ phase # "idle" /\ phase2 = phase
  /\ position2 = position /\ current2 = current /\ stack2 = stack /\ result2 = result
  /\ SamePacket

\* So what comes next is the same.
LEMMA SamePlace ==
  ASSUME InStep, SameButOrder(db, db2)
  PROVE  /\ Other!Top = Top /\ Other!AtEnd = AtEnd /\ Other!Entry = Entry
         /\ Other!EntryStart = EntryStart /\ Other!Unlocatable = Unlocatable
         /\ Other!InEntries = InEntries /\ Other!Repeating = Repeating
         /\ Other!Repeated = Repeated /\ Other!Selecting = Selecting
  <1> USE DEF InStep, SameButOrder
  <1>1. Other!Top = Top
    BY DEF Top, Other!Top
  <1>2. Other!AtEnd = AtEnd /\ Other!Entry = Entry
    BY <1>1 DEF AtEnd, Other!AtEnd, Entry, Other!Entry
  <1>3. Other!EntryStart = EntryStart
    BY <1>1, <1>2 DEF EntryStart, Other!EntryStart, Located, Other!Located
  <1>4. Other!Unlocatable = Unlocatable
    BY <1>2 DEF Unlocatable, Other!Unlocatable
  <1>5. Other!InEntries = InEntries /\ Other!Selecting = Selecting
    BY DEF InEntries, Other!InEntries, Selecting, Other!Selecting
  <1>6. Other!Repeating = Repeating
    BY <1>1, <1>2, <1>4 DEF Repeating, Other!Repeating
  <1>7. Other!Repeated = Repeated
    BY DEF Repeated, Other!Repeated
  <1> QED BY <1>1, <1>2, <1>3, <1>4, <1>5, <1>6, <1>7

OtherFirst(verdicts, neutral) ==
  LET i == Other!SelectInSeq(verdicts, LAMBDA v : v # neutral)
  IN IF i = 0 THEN neutral ELSE verdicts[i]

\* The other decoder evaluates and decodes by the same definitions.
LEMMA OtherTests ==
  /\ \A p, x : Other!Has(p, x) = Has(p, x) /\ Other!Get(p, x) = Get(p, x)
  /\ \A v, u : Other!Side(v, u) = Side(v, u)
  /\ \A v : Other!Scalar(v) = Scalar(v)
  /\ \A s, op, lit : Other!TestLiteral(s, op, lit) = TestLiteral(s, op, lit)
  /\ \A l, op, r : Other!TestScalars(l, op, r) = TestScalars(l, op, r)
  <1>1. \A p, x : Other!Has(p, x) = Has(p, x) /\ Other!Get(p, x) = Get(p, x)
    BY DEF Has, Other!Has, Get, Other!Get
  <1>2. \A v : Other!Scalar(v) = Scalar(v)
    BY DEF Scalar, Other!Scalar, ScalarKind, Other!ScalarKind
  <1>3. \A v, u : Other!Side(v, u) = Side(v, u)
    BY <1>2 DEF Side, Other!Side
  <1>4. \A op, a, b : Other!Matches(op, a, b) = Matches(op, a, b)
    BY DEF Matches, Other!Matches
  <1>5. \A b : Other!Verdict(b) = Verdict(b)
    BY DEF Verdict, Other!Verdict, Yes, Other!Yes, No, Other!No
  <1>6. \A s, op, lit : Other!TestLiteral(s, op, lit) = TestLiteral(s, op, lit)
    BY <1>4, <1>5 DEF TestLiteral, Other!TestLiteral
  <1>7. \A l, op, r : Other!TestScalars(l, op, r) = TestScalars(l, op, r)
    BY <1>4, <1>5 DEF TestScalars, Other!TestScalars, Yes, Other!Yes, No, Other!No
  <1> QED BY <1>1, <1>2, <1>3, <1>6, <1>7

\* The criteria, from the comparison to the list,
LEMMA OtherEvaluates ==
  ASSUME NEW p
  PROVE  \A criteria, x : Other!EvaluateAll(criteria, p, x) = EvaluateAll(criteria, p, x)
  <1> USE DEF Yes, Other!Yes, No, Other!No
  <1>0. \A v, n : OtherFirst(v, n) = First(v, n)
    BY DEF OtherFirst, First, SelectInSeq, Other!SelectInSeq, Min, Other!Min
  <1>1. \A c, x : Other!EvaluateComparison(c, p, x) = EvaluateComparison(c, p, x)
    BY OtherTests DEF EvaluateComparison, Other!EvaluateComparison
  <1>2. \A c : Other!EvaluateCondition(c, p) = EvaluateCondition(c, p)
    BY OtherTests DEF EvaluateCondition, Other!EvaluateCondition
  <1>3. ASSUME NEW e PROVE Other!EvaluateInner(e, p) = EvaluateInner(e, p)
    <2> DEFINE V == [i \in DOMAIN e.of |-> EvaluateCondition(e.of[i], p)]
               W == [i \in DOMAIN e.of |-> Other!EvaluateCondition(e.of[i], p)]
    <2>1. V = W
      BY <1>2
    <2>2. EvaluateInner(e, p) =
            IF e.kind = "condition" THEN EvaluateCondition(e, p)
            ELSE IF e.kind = "and" THEN First(V, Yes) ELSE First(V, No)
      BY DEF EvaluateInner, EvaluateGroup, AllOf, AnyOf, UpTo, With, First
    <2>3. Other!EvaluateInner(e, p) =
            IF e.kind = "condition" THEN Other!EvaluateCondition(e, p)
            ELSE IF e.kind = "and" THEN OtherFirst(W, Yes) ELSE OtherFirst(W, No)
      BY DEF Other!EvaluateInner, Other!EvaluateGroup, Other!AllOf, Other!AnyOf, Other!UpTo,
             Other!With, OtherFirst
    <2> HIDE DEF V, W
    <2> QED BY <1>0, <1>2, <2>1, <2>2, <2>3
  <1>4. ASSUME NEW e PROVE Other!EvaluateBoolean(e, p) = EvaluateBoolean(e, p)
    <2> DEFINE V == [i \in DOMAIN e.of |-> EvaluateInner(e.of[i], p)]
               W == [i \in DOMAIN e.of |-> Other!EvaluateInner(e.of[i], p)]
    <2>1. V = W
      BY <1>2, <1>3
    <2>2. EvaluateBoolean(e, p) =
            IF e.kind = "condition" THEN EvaluateCondition(e, p)
            ELSE IF e.kind = "and" THEN First(V, Yes) ELSE First(V, No)
      BY DEF EvaluateBoolean, EvaluateGroup, AllOf, AnyOf, UpTo, With, First
    <2>3. Other!EvaluateBoolean(e, p) =
            IF e.kind = "condition" THEN Other!EvaluateCondition(e, p)
            ELSE IF e.kind = "and" THEN OtherFirst(W, Yes) ELSE OtherFirst(W, No)
      BY DEF Other!EvaluateBoolean, Other!EvaluateGroup, Other!AllOf, Other!AnyOf, Other!UpTo,
             Other!With, OtherFirst
    <2> HIDE DEF V, W
    <2> QED BY <1>0, <1>2, <2>1, <2>2, <2>3
  <1>5. \A c, x : Other!Evaluate(c, p, x) = Evaluate(c, p, x)
    BY <1>1, <1>4 DEF Evaluate, Other!Evaluate
  <1>6. ASSUME NEW criteria, NEW x
        PROVE  Other!EvaluateAll(criteria, p, x) = EvaluateAll(criteria, p, x)
    <2> DEFINE V == [i \in DOMAIN criteria |-> Evaluate(criteria[i], p, x)]
               W == [i \in DOMAIN criteria |-> Other!Evaluate(criteria[i], p, x)]
    <2>1. V = W
      BY <1>5
    <2>2. EvaluateAll(criteria, p, x) = First(V, Yes)
      BY DEF EvaluateAll, AllOf, UpTo, With, First
    <2>3. Other!EvaluateAll(criteria, p, x) = OtherFirst(W, Yes)
      BY DEF Other!EvaluateAll, Other!AllOf, Other!UpTo, Other!With, OtherFirst
    <2> HIDE DEF V, W
    <2> QED BY <1>0, <2>1, <2>2, <2>3
  <1> QED BY <1>6

\* the label of an enumeration,
LEMMA OtherLabels ==
  \A labels, v : Other!LabelFor(labels, v) = LabelFor(labels, v)
  BY DEF LabelFor, Other!LabelFor, SelectLastInSeq, Other!SelectLastInSeq, Max, Other!Max

\* a polynomial,
LEMMA OtherPolynomials ==
  \A terms, v : Other!Polynomial(terms, v) = Polynomial(terms, v)
  BY DEF Polynomial, Other!Polynomial, FoldLeft, Other!FoldLeft, MapThenFoldSet, Other!MapThenFoldSet, Max, Other!Max, Power, Other!Power

\* the bits of a field
LEMMA OtherPeeks ==
  \A d, n, w : Other!PeekUInt(d, n, w) = PeekUInt(d, n, w)
  BY DEF PeekUInt, Other!PeekUInt

\* and what they mean,
LEMMA OtherRaw ==
  \A encoding, d, n, w : Other!RawAt(encoding, d, n, w) = RawAt(encoding, d, n, w)
  <1>1. \A coding, bits, w : Other!Interpret(coding, bits, w) = Interpret(coding, bits, w)
    BY DEF Interpret, Other!Interpret
  <1> QED BY <1>1, OtherPeeks DEF RawAt, Other!RawAt

\* the least of a set of numbers,
LEMMA OtherLeast ==
  \A S : Other!Min(S) = Min(S)
  BY DEF Min, Other!Min

\* the size of a field,
LEMMA OtherSizes ==
  ASSUME NEW p
  PROVE  \A spec : Other!ResolveSize(spec, p) = ResolveSize(spec, p)
  <1>1. \A n : Other!Size(n) = Size(n) /\ Other!NoSize(n) = NoSize(n)
    BY DEF Size, Other!Size, NoSize, Other!NoSize
  <1>2. \A v, u : Other!NumericSide(v, u) = NumericSide(v, u)
    BY DEF NumericSide, Other!NumericSide, Numeric, Other!Numeric, Integral, Other!Integral
  <1>3. ASSUME NEW spec PROVE Other!DynamicSize(spec, p) = DynamicSize(spec, p)
    <2> DEFINE x == spec.parameter
    <2>1. Other!Has(p, x) = Has(p, x) /\ Other!Get(p, x) = Get(p, x)
      BY OtherTests
    <2>2. Other!NumericSide(Other!Get(p, x), spec.useCalibrated)
            = NumericSide(Get(p, x), spec.useCalibrated)
      BY <1>2, <2>1
    <2> DEFINE v == NumericSide(Get(p, x), spec.useCalibrated)
               n == spec.slope * (CHOOSE k \in v : TRUE) + spec.intercept
    <2>3. DynamicSize(spec, p) =
            IF ~ Has(p, x) THEN NoSize("ParameterNotYetDecoded")
            ELSE IF v = {} THEN NoSize("BadFieldSize") ELSE Size(n)
      BY DEF DynamicSize
    <2>4. Other!DynamicSize(spec, p) =
            IF ~ Has(p, x) THEN Other!NoSize("ParameterNotYetDecoded")
            ELSE IF v = {} THEN Other!NoSize("BadFieldSize") ELSE Other!Size(n)
      BY <2>1, <2>2 DEF Other!DynamicSize
    <2> HIDE DEF v, n
    <2> QED BY <1>1, <2>3, <2>4
  <1>4. \A l : Other!LookupVerdict(l, p) = LookupVerdict(l, p)
    BY OtherEvaluates DEF LookupVerdict, Other!LookupVerdict
  <1>5. ASSUME NEW list PROVE Other!LookupIndex(list, p) = LookupIndex(list, p)
    <2>1. {i \in 1 .. Len(list) : LookupVerdict(list[i], p) # No}
            = {i \in 1 .. Len(list) : Other!LookupVerdict(list[i], p) # No}
      BY <1>4
    <2> QED BY <2>1, OtherLeast DEF LookupIndex, Other!LookupIndex, SelectInSeq,
               Other!SelectInSeq, No, Other!No
  <1>6. \A list : Other!DiscreteLookup(list, p) = DiscreteLookup(list, p)
    BY <1>1, <1>4, <1>5 DEF DiscreteLookup, Other!DiscreteLookup, With, Other!With, Yes, Other!Yes
  <1> QED BY <1>1, <1>3, <1>6 DEF ResolveSize, Other!ResolveSize

\* the read,
LEMMA OtherReads ==
  ASSUME NEW p
  PROVE  \A encoding, n : Other!ReadRaw(encoding, p, n) = ReadRaw(encoding, p, n)
  <1>1. \A a, b : Other!Read(a, b) = Read(a, b) /\ Other!NoRead(a) = NoRead(a)
    BY DEF Read, Other!Read, NoRead, Other!NoRead, NoRaw, Other!NoRaw
  <1>2. \A d, n, w : Other!InBounds(d, n, w) = InBounds(d, n, w)
    BY DEF InBounds, Other!InBounds
  <1>3. \A encoding, n : Other!ReadInteger(encoding, p, n) = ReadInteger(encoding, p, n)
    BY <1>1, <1>2, OtherRaw DEF ReadInteger, Other!ReadInteger, MAX_UINT_BITS, Other!MAX_UINT_BITS
  <1>4. \A encoding, n : Other!ReadBinary(encoding, p, n) = ReadBinary(encoding, p, n)
    BY <1>1, <1>2, OtherRaw, OtherSizes DEF ReadBinary, Other!ReadBinary, With, Other!With
  <1> QED BY <1>1, <1>3, <1>4 DEF ReadRaw, Other!ReadRaw

\* the calibration and the label,
LEMMA OtherEngineers ==
  ASSUME NEW p
  PROVE  \A type, read : Other!Engineer(type, read, p) = Engineer(type, read, p)
  <1>1. \A a : /\ Other!NoEng(a) = NoEng(a) /\ Other!Calibrated(a) = Calibrated(a)
               /\ Other!Uncalibrated(a) = Uncalibrated(a)
    BY DEF NoEng, Other!NoEng, Calibrated, Other!Calibrated, Uncalibrated, Other!Uncalibrated,
       NoRaw, Other!NoRaw
  <1>2. \A c, v : Other!RunCalibrator(c, v) = RunCalibrator(c, v)
    BY <1>1, OtherPolynomials DEF RunCalibrator, Other!RunCalibrator
  <1>3. ASSUME NEW encoding, NEW raw
        PROVE  Other!Calibrate(encoding, raw, p) = Calibrate(encoding, raw, p)
    <2> DEFINE I == SelectInSeq(encoding.contexts, LAMBDA c : EvaluateAll(c.criteria, p, {raw}) # No)
               J == Other!SelectInSeq(encoding.contexts,
                                      LAMBDA c : Other!EvaluateAll(c.criteria, p, {raw}) # Other!No)
               All(i) == EvaluateAll(encoding.contexts[i].criteria, p, {raw})
               OtherAll(i) == Other!EvaluateAll(encoding.contexts[i].criteria, p, {raw})
    <2>0. {i \in 1 .. Len(encoding.contexts) :
              EvaluateAll(encoding.contexts[i].criteria, p, {raw}) # No}
            = {i \in 1 .. Len(encoding.contexts) :
                  Other!EvaluateAll(encoding.contexts[i].criteria, p, {raw}) # No}
      BY OtherEvaluates
    <2>1. I = J
      BY <2>0, OtherLeast DEF SelectInSeq, Other!SelectInSeq, No, Other!No
    <2>2. \A i : All(i) = OtherAll(i)
      BY OtherEvaluates
    <2>3. Calibrate(encoding, raw, p) =
            IF raw.kind = "bytes" THEN Uncalibrated(raw)
            ELSE IF I # 0 /\ All(I) # Yes THEN NoEng(All(I))
            ELSE IF I # 0 THEN RunCalibrator(encoding.contexts[I].calibrator, raw.v)
            ELSE IF encoding.default # {}
            THEN RunCalibrator(CHOOSE c \in encoding.default : TRUE, raw.v)
            ELSE Uncalibrated(raw)
      BY DEF Calibrate, With
    <2>4. Other!Calibrate(encoding, raw, p) =
            IF raw.kind = "bytes" THEN Other!Uncalibrated(raw)
            ELSE IF J # 0 /\ OtherAll(J) # Yes THEN Other!NoEng(OtherAll(J))
            ELSE IF J # 0 THEN Other!RunCalibrator(encoding.contexts[J].calibrator, raw.v)
            ELSE IF encoding.default # {}
            THEN Other!RunCalibrator(CHOOSE c \in encoding.default : TRUE, raw.v)
            ELSE Other!Uncalibrated(raw)
      BY DEF Other!Calibrate, Other!With, Yes, Other!Yes
    <2> HIDE DEF I, J, All, OtherAll
    <2> QED BY <1>1, <1>2, <2>1, <2>2, <2>3, <2>4
  <1> QED BY <1>1, <1>3, OtherLabels DEF Engineer, Other!Engineer

\* a whole parameter,
LEMMA OtherDecodes ==
  ASSUME NEW p
  PROVE  \A type, n : Other!DecodeValue(type, p, n) = DecodeValue(type, p, n)
  <1>1. \A a : Other!NoValue(a) = NoValue(a)
    BY DEF NoValue, Other!NoValue, NoRaw, Other!NoRaw
  <1> QED BY <1>1, OtherReads, OtherEngineers DEF DecodeValue, Other!DecodeValue, With, Other!With

\* and what is done to a buffer.
LEMMA OtherBuffers ==
  /\ \A p, v : Other!Insert(p, v) = Insert(p, v)
  /\ \A p, c, n : Other!Finish(p, c, n) = Finish(p, c, n)
  /\ \A c, n : Other!Frame(c, n) = Frame(c, n)
  /\ \A d, n, w : Other!InBounds(d, n, w) = InBounds(d, n, w)
  /\ \A d, c : Other!NewPacket(d, c) = NewPacket(d, c)
  <1>1. \A s, x, i : Other!Extend(s, x, i) = Extend(s, x, i)
    BY DEF Extend, Other!Extend
  <1>2. \A p, v : Other!Insert(p, v) = Insert(p, v)
    BY <1>1 DEF Insert, Other!Insert
  <1>3. \A p, c, n : Other!Finish(p, c, n) = Finish(p, c, n)
    BY DEF Finish, Other!Finish
  <1> QED BY <1>2, <1>3 DEF Frame, Other!Frame, InBounds, Other!InBounds, NewPacket,
             Other!NewPacket, NoSlots, Other!NoSlots

\* What selects among the inheritors is the same whatever their order.
LEMMA SameChoice ==
  ASSUME TypeOK, InStep, SameButOrder(db, db2)
  PROVE  /\ Other!Matching = Matching /\ Other!NoneFails = NoneFails
         /\ (\E i \in DOMAIN Other!Inheritors : Other!Fails(Other!Inheritors[i])) = ~ NoneFails
         /\ \A c : Other!Selects(c) = Selects(c)
  <1> USE DEF InStep, SameButOrder
  <1>1. SameValues(packet2, packet)
    BY DEF SameValues, SamePacket, TypeOK
  <1>2. \A c : Other!Selects(c) = Selects(c)
    BY <1>1, VerdictsAgree, OtherEvaluates DEF Selects, Other!Selects
  <1>3. \A c : Other!Fails(c) = Fails(c)
    BY <1>2 DEF Fails, Other!Fails, Yes, Other!Yes, No, Other!No
  <1>4. /\ \A i \in DOMAIN Inheritors : \E j \in DOMAIN Other!Inheritors : Other!Inheritors[j] = Inheritors[i]
        /\ \A j \in DOMAIN Other!Inheritors : \E i \in DOMAIN Inheritors : Other!Inheritors[j] = Inheritors[i]
    <2>1. Range(Inheritors) = Range(Other!Inheritors)
      BY DEF TypeOK, Inheritors, Other!Inheritors
    <2> QED BY <2>1 DEF Range
  <1>5. Matching = {c \in Range(Inheritors) : Selects(c) = Yes}
    BY DEF Matching, Range
  <1>6. Other!Matching = {c \in Range(Other!Inheritors) : Other!Selects(c) = Yes}
    BY DEF Other!Matching, Range, Yes, Other!Yes
  <1>7. Range(Inheritors) = Range(Other!Inheritors)
    BY DEF TypeOK, Inheritors, Other!Inheritors
  <1>8. Other!Matching = Matching
    BY <1>2, <1>5, <1>6, <1>7
  <1>9. NoneFails = ~ \E i \in DOMAIN Inheritors : Fails(Inheritors[i])
    BY DEF NoneFails
  <1>10. Other!NoneFails = ~ \E i \in DOMAIN Other!Inheritors : Other!Fails(Other!Inheritors[i])
    BY DEF Other!NoneFails
  <1>11. (\E i \in DOMAIN Other!Inheritors : Other!Fails(Other!Inheritors[i]))
           = (\E i \in DOMAIN Inheritors : Fails(Inheritors[i]))
    BY <1>3, <1>4
  <1> QED BY <1>2, <1>8, <1>9, <1>10, <1>11

\* A verdict is yes, no or one of three errors.
Verdicts == {Yes, No, "IncomparableValue", "ParameterNotYetDecoded", "Unsupported"}

\* A loop over verdicts ends with one of them, or with the neutral one.
LEMMA FirstIsOneOf ==
  ASSUME NEW verdicts, IsSequence(verdicts), NEW neutral,
         NEW S, neutral \in S, \A i \in DOMAIN verdicts : verdicts[i] \in S
  PROVE  First(verdicts, neutral) \in S
  <1> DEFINE I == {i \in 1 .. Len(verdicts) : verdicts[i] # neutral}
             k == SelectInSeq(verdicts, LAMBDA v : v # neutral)
  <1>1. Len(verdicts) \in Nat /\ DOMAIN verdicts = 1 .. Len(verdicts)
    BY LenProperties DEF IsSequence
  <1>2. k = IF I # {} THEN Min(I) ELSE 0
    BY DEF SelectInSeq
  <1>3. I # {} => Min(I) \in I
    <2>1. I \subseteq Nat
      BY <1>1
    <2> HIDE DEF I
    <2>2. I # {} => \E m \in I : \A n \in I : m <= n
      BY <2>1, Least
    <2> QED BY <2>2 DEF Min
  <1>4. First(verdicts, neutral) = IF k = 0 THEN neutral ELSE verdicts[k]
    BY DEF First
  <1> HIDE DEF k
  <1>5. k # 0 => k \in DOMAIN verdicts
    BY <1>1, <1>2, <1>3
  <1> QED BY <1>4, <1>5

\* What is made for each element of a sequence is a sequence.
LEMMA MadeOverSequence ==
  ASSUME NEW s, IsSequence(s), NEW t, t = [i \in DOMAIN s |-> t[i]]
  PROVE  IsSequence(t)
  <1>1. Len(s) \in Nat /\ DOMAIN s = 1 .. Len(s)
    BY LenProperties DEF IsSequence
  <1>2. t = [i \in 1 .. Len(s) |-> t[i]]
    BY <1>1
  <1>3. \A i \in 1 .. Len(s) : t[i] \in Range(t)
    BY <1>2 DEF Range
  <1> HIDE DEF IsSequence
  <1>4. t \in [1 .. Len(s) -> Range(t)]
    BY <1>2, <1>3
  <1> QED BY <1>1, <1>4 DEF IsSequence

\* So an inheritor whose criteria fail never makes a call return "ok".
LEMMA VerdictKinds ==
  ASSUME NEW criteria, WellFormedCriteria(criteria), NEW p, NEW x
  PROVE  EvaluateAll(criteria, p, x) \in Verdicts
  <1>1. \A s, op, lit : TestLiteral(s, op, lit) \in Verdicts
    BY DEF TestLiteral, Verdict, Verdicts
  <1>2. \A l, op, r : TestScalars(l, op, r) \in Verdicts
    BY DEF TestScalars, Verdict, Verdicts
  <1>3. \A c : EvaluateComparison(c, p, x) \in Verdicts
    BY <1>1 DEF EvaluateComparison, Verdicts
  <1>4. \A c : EvaluateCondition(c, p) \in Verdicts
    BY <1>1, <1>2 DEF EvaluateCondition, Verdicts
  <1>5. Yes \in Verdicts /\ No \in Verdicts
    BY DEF Verdicts
  <1>6. ASSUME NEW e, e.kind # "condition" => IsSequence(e.of)
        PROVE  EvaluateInner(e, p) \in Verdicts
    <2> DEFINE V == [i \in DOMAIN e.of |-> EvaluateCondition(e.of[i], p)]
    <2>1. EvaluateInner(e, p) =
            IF e.kind = "condition" THEN EvaluateCondition(e, p)
            ELSE IF e.kind = "and" THEN First(V, Yes) ELSE First(V, No)
      BY DEF EvaluateInner, EvaluateGroup, AllOf, AnyOf, UpTo, With, First
    <2>2. /\ V = [i \in DOMAIN e.of |-> V[i]]
          /\ \A i \in DOMAIN V : V[i] \in Verdicts
      BY <1>4
    <2> HIDE DEF V
    <2>3. e.kind # "condition" => IsSequence(V)
      BY <1>6, <2>2, MadeOverSequence
    <2> QED BY <1>4, <1>5, <2>1, <2>2, <2>3, FirstIsOneOf
  <1>7. ASSUME NEW e,
               e.kind # "condition" =>
                 /\ IsSequence(e.of)
                 /\ \A j \in DOMAIN e.of : e.of[j].kind # "condition" => IsSequence(e.of[j].of)
        PROVE  EvaluateBoolean(e, p) \in Verdicts
    <2> DEFINE V == [i \in DOMAIN e.of |-> EvaluateInner(e.of[i], p)]
    <2>1. EvaluateBoolean(e, p) =
            IF e.kind = "condition" THEN EvaluateCondition(e, p)
            ELSE IF e.kind = "and" THEN First(V, Yes) ELSE First(V, No)
      BY DEF EvaluateBoolean, EvaluateGroup, AllOf, AnyOf, UpTo, With, First
    <2>2. /\ V = [i \in DOMAIN e.of |-> V[i]]
          /\ e.kind # "condition" => \A i \in DOMAIN V : V[i] \in Verdicts
      BY <1>6, <1>7
    <2> HIDE DEF V
    <2>3. e.kind # "condition" => IsSequence(V)
      BY <1>7, <2>2, MadeOverSequence
    <2> QED BY <1>4, <1>5, <2>1, <2>2, <2>3, FirstIsOneOf
  <1>8. ASSUME NEW i \in DOMAIN criteria PROVE Evaluate(criteria[i], p, x) \in Verdicts
    <2>1. criteria[i].kind = "boolean" => EvaluateBoolean(criteria[i].expr, p) \in Verdicts
      BY <1>7 DEF WellFormedCriteria
    <2> QED BY <1>3, <2>1 DEF Evaluate, Verdicts
  <1> DEFINE V == [i \in DOMAIN criteria |-> Evaluate(criteria[i], p, x)]
  <1>9. EvaluateAll(criteria, p, x) = First(V, Yes)
    BY DEF EvaluateAll, AllOf, UpTo, With, First
  <1>10. V = [i \in DOMAIN criteria |-> V[i]] /\ \A i \in DOMAIN V : V[i] \in Verdicts
    BY <1>8
  <1> HIDE DEF V
  <1>11. IsSequence(V)
    BY <1>10, MadeOverSequence DEF WellFormedCriteria
  <1> QED BY <1>5, <1>9, <1>10, <1>11, FirstIsOneOf

\* The part ended early, or both have ended and agree.
CutShort == phase2 = "idle" /\ result2 = "Bits" /\ packet2.data # packet.data
Agreed ==
  /\ BothIdle /\ SamePacket
  /\ result2 = "ok" <=> result = "ok"
  /\ db2 = db /\ packet2.data = packet.data => result2 = result

\* Two calls that fail together agree if their errors do.
LEMMA BothFail ==
  ASSUME TypeOK, InStep, NEW e, NEW f, Fail(e), Other!Fail(f),
         f = "ok" <=> e = "ok", db2 = db /\ packet2.data = packet.data => f = e
  PROVE  Agreed'
  BY DEF InStep, Fail, Other!Fail, Agreed, BothIdle, SamePacket

\* One entry, or the return from a container, in both.
LEMMA EntryTogether ==
  ASSUME TypeOK, InStep, SameButOrder(db, db2), Begins(packet2.data, packet.data),
         Step, Other!Step, InEntries
  PROVE  InStep' \/ CutShort' \/ Agreed'
  <1>1. /\ Other!Top = Top /\ Other!AtEnd = AtEnd /\ Other!Entry = Entry
        /\ Other!EntryStart = EntryStart /\ Other!Unlocatable = Unlocatable
        /\ Other!InEntries = InEntries /\ Other!Repeating = Repeating
        /\ Other!Repeated = Repeated /\ Other!Selecting = Selecting
    BY SamePlace
  <1>2. CASE AtEnd
    <2>1. LeaveContainer /\ Other!LeaveContainer
      BY <1>1, <1>2, StepIs, OtherStepIs
    <2> QED BY <2>1 DEF LeaveContainer, Other!LeaveContainer, InStep, SamePacket
  <1>3. CASE ~ AtEnd /\ Unlocatable
    <2>1. RejectLocation /\ Other!RejectLocation
      BY <1>1, <1>3, StepIs, OtherStepIs
    <2>2. Fail("Unsupported") /\ Other!Fail("Unsupported")
      BY <2>1 DEF RejectLocation, Other!RejectLocation
    <2> QED BY <2>2, BothFail
  <1>4. CASE ~ AtEnd /\ ~ Unlocatable /\ ~ Repeating
    <2>1. NextEntry /\ Other!NextEntry
      BY <1>1, <1>4, StepIs, OtherStepIs
    <2> QED BY <1>1, <2>1 DEF NextEntry, Other!NextEntry, InStep, SamePacket
  <1>5. CASE Repeating
    <2>0. stack # <<>> /\ ~ AtEnd
      BY <1>5 DEF InEntries, Repeating
    <2>1. /\ DecodeParameter \/ EnterContainer \/ SkipFixedValue \/ RejectEntry
          /\ \/ Other!DecodeParameter \/ Other!EnterContainer
             \/ Other!SkipFixedValue \/ Other!RejectEntry
      <3>1. ~ Top.repetition >= Entry.repeat
        <4>1. Top.repetition \in Nat /\ Entry.repeat \in Nat
          BY <2>0, TopIsFrame, EntryWellFormed DEF Frames
        <4> QED BY <1>5, <4>1 DEF Repeating
      <3> QED BY <1>1, <1>5, <3>1, StepIs, OtherStepIs
    <2>2. CASE Entry.kind = "parameter"
      <3>1. DecodeParameter /\ Other!DecodeParameter
        BY <1>1, <2>1, <2>2 DEF EnterContainer, SkipFixedValue, RejectEntry,
           Other!EnterContainer, Other!SkipFixedValue, Other!RejectEntry
      <3> DEFINE v == DecodeValue(db.types[Entry.parameter], packet, EntryStart)
                 u == DecodeValue(db.types[Entry.parameter], packet2, EntryStart)
      <3>2. \/ u = v
            \/ u.error = "Bits" /\ packet2.data # packet.data
        <4>1. Entry.parameter \in Params /\ EntryStart \in Nat
          BY <2>0, <2>2, EntryWellFormed, EntryStartIsNat
        <4>2. WellFormedType(db.types[Entry.parameter])
          BY <4>1, DatabaseAssumption DEF TypeOK
        <4>3. SameValues(packet, packet2)
          BY DEF SameValues, InStep, SamePacket, TypeOK
        <4> QED BY <4>1, <4>2, <4>3, DecodesAgree
      <3>3. u = Other!DecodeValue(db2.types[Other!Entry.parameter], packet2, Other!EntryStart)
        BY <1>1, OtherDecodes DEF SameButOrder
      <3> HIDE DEF u, v
      <3>4. IF v.error # "none" THEN Fail(v.error)
            ELSE /\ packet'   = Insert(packet, Reported(v))
                 /\ position' = EntryStart + v.width
                 /\ stack'    = Repeated
                 /\ UNCHANGED <<db, current, phase, result>>
        BY <3>1 DEF DecodeParameter, v
      <3>5. IF u.error # "none" THEN Other!Fail(u.error)
            ELSE /\ packet2'   = Other!Insert(packet2, Other!Reported(u))
                 /\ position2' = Other!EntryStart + u.width
                 /\ stack2'    = Other!Repeated
                 /\ UNCHANGED <<db2, current2, phase2, result2>>
        BY <3>1, <3>3 DEF Other!DecodeParameter
      <3>6. CASE u = v /\ v.error # "none"
        BY <3>4, <3>5, <3>6, BothFail
      <3>7. CASE u = v /\ v.error = "none"
        <4>1. Other!Insert(packet2, Other!Reported(u)) = Insert(packet2, Reported(v))
          BY <1>1, <3>7, OtherBuffers DEF Reported, Other!Reported
        <4>2. Insert(packet2, Reported(v)) = [Insert(packet, Reported(v)) EXCEPT !.data = packet2.data]
          BY DEF Insert, InStep, SamePacket, TypeOK
        <4> QED BY <1>1, <3>4, <3>5, <3>7, <4>1, <4>2 DEF InStep, SamePacket
      <3>8. CASE u.error = "Bits" /\ packet2.data # packet.data
        <4>1. Other!Fail("Bits")
          BY <3>5, <3>8
        <4>2. packet'.data = packet.data
          <5>1. packet' = packet \/ packet' = Insert(packet, Reported(v))
            BY <3>4 DEF Fail
          <5> QED BY <5>1, InsertSound DEF TypeOK, IsBuffer
        <4> QED BY <3>8, <4>1, <4>2 DEF CutShort, Other!Fail
      <3> QED BY <3>2, <3>6, <3>7, <3>8
    <2>3. CASE Entry.kind = "container"
      <3>1. EnterContainer /\ Other!EnterContainer
        BY <1>1, <2>1, <2>3 DEF DecodeParameter, SkipFixedValue, RejectEntry,
           Other!DecodeParameter, Other!SkipFixedValue, Other!RejectEntry
      <3>2. CASE Len(stack) > MAX_CONTAINER_DEPTH
        <4>1. Fail("Unsupported") /\ Other!Fail("Unsupported")
          BY <3>1, <3>2 DEF EnterContainer, Other!EnterContainer, InStep
        <4> QED BY <4>1, BothFail
      <3>3. CASE ~ Len(stack) > MAX_CONTAINER_DEPTH
        BY <1>1, <3>1, <3>3, OtherBuffers DEF EnterContainer, Other!EnterContainer, InStep, SamePacket
      <3> QED BY <3>2, <3>3
    <2>4. CASE Entry.kind = "fixed"
      <3>1. SkipFixedValue /\ Other!SkipFixedValue
        BY <1>1, <2>1, <2>4 DEF DecodeParameter, EnterContainer, RejectEntry,
           Other!DecodeParameter, Other!EnterContainer, Other!RejectEntry
      <3>2. InBounds(packet2.data, EntryStart, Entry.size) => InBounds(packet.data, EntryStart, Entry.size)
        <4>1. EntryStart \in Nat /\ Entry.size \in Nat
          BY <2>0, <2>4, EntryWellFormed, EntryStartIsNat
        <4> QED BY <4>1, FieldsAgree
      <3>3. CASE InBounds(packet2.data, EntryStart, Entry.size)
        <4>1. /\ position' = EntryStart + Entry.size /\ stack' = Repeated
              /\ UNCHANGED <<db, packet, current, phase, result>>
          BY <3>1, <3>2, <3>3 DEF SkipFixedValue
        <4>2. /\ position2' = EntryStart + Entry.size /\ stack2' = Repeated
              /\ UNCHANGED <<db2, packet2, current2, phase2, result2>>
          BY <1>1, <3>1, <3>3, OtherBuffers DEF Other!SkipFixedValue
        <4> QED BY <4>1, <4>2 DEF InStep, SamePacket
      <3>4. CASE ~ InBounds(packet2.data, EntryStart, Entry.size)
        <4>1. Other!Fail("Bits")
          BY <1>1, <3>1, <3>4, OtherBuffers DEF Other!SkipFixedValue
        <4>2. CASE ~ InBounds(packet.data, EntryStart, Entry.size)
          <5>1. Fail("Bits")
            BY <3>1, <4>2 DEF SkipFixedValue
          <5> QED BY <4>1, <5>1, BothFail
        <4>3. CASE InBounds(packet.data, EntryStart, Entry.size)
          BY <3>1, <3>4, <4>1, <4>3 DEF SkipFixedValue, CutShort, Other!Fail
        <4> QED BY <4>2, <4>3
      <3> QED BY <3>3, <3>4
    <2>5. CASE Entry.kind = "unsupported"
      <3>1. RejectEntry /\ Other!RejectEntry
        BY <1>1, <2>1, <2>5 DEF DecodeParameter, EnterContainer, SkipFixedValue,
           Other!DecodeParameter, Other!EnterContainer, Other!SkipFixedValue
      <3>2. Fail("Unsupported") /\ Other!Fail("Unsupported")
        BY <3>1 DEF RejectEntry, Other!RejectEntry
      <3> QED BY <3>2, BothFail
    <2> QED BY <2>1, <2>2, <2>3, <2>4, <2>5 DEF DecodeParameter, EnterContainer,
               SkipFixedValue, RejectEntry
  <1> QED BY <1>2, <1>3, <1>4, <1>5

\* The choice of an inheritor, or the end of the call, in both.
LEMMA SelectTogether ==
  ASSUME TypeOK, InStep, SameButOrder(db, db2), Begins(packet2.data, packet.data),
         Step, Other!Step, Selecting
  PROVE  InStep' \/ Agreed'
  <1>1. /\ RejectCriteria \/ RejectAmbiguous \/ Descend \/ RejectUnrecognized \/ Succeed
        /\ \/ Other!RejectCriteria \/ Other!RejectAmbiguous \/ Other!Descend
           \/ Other!RejectUnrecognized \/ Other!Succeed
    BY SamePlace, StepIs, OtherStepIs
  <1>2. /\ Other!Matching = Matching /\ Other!NoneFails = NoneFails
        /\ (\E i \in DOMAIN Other!Inheritors : Other!Fails(Other!Inheritors[i])) = ~ NoneFails
        /\ \A c : Other!Selects(c) = Selects(c)
    BY SameChoice
  <1>3. \A c : Other!Fails(c) = Fails(c)
    BY <1>2 DEF Fails, Other!Fails, Yes, Other!Yes, No, Other!No
  <1>4. CASE ~ NoneFails
    <2>1. RejectCriteria /\ Other!RejectCriteria
      BY <1>1, <1>2, <1>4 DEF RejectAmbiguous, Descend, RejectUnrecognized, Succeed,
         Other!RejectAmbiguous, Other!Descend, Other!RejectUnrecognized, Other!Succeed
    <2>2. PICK i \in DOMAIN Inheritors :
            /\ Fails(Inheritors[i])
            /\ \A j \in 1 .. i - 1 : ~ Fails(Inheritors[j])
            /\ Fail(Selects(Inheritors[i]))
      BY <2>1 DEF RejectCriteria
    <2>3. PICK k \in DOMAIN Other!Inheritors :
            /\ Fails(Other!Inheritors[k])
            /\ \A j \in 1 .. k - 1 : ~ Fails(Other!Inheritors[j])
            /\ Other!Fail(Selects(Other!Inheritors[k]))
      BY <1>2, <1>3, <2>1 DEF Other!RejectCriteria
    <2>4. \A b \in Databases, c \in Containers : EvaluateAll(b.restriction[c], packet, {}) \in Verdicts
      BY VerdictKinds, DatabaseAssumption
    <2>5. /\ IsSequence(Inheritors)
          /\ \A j \in DOMAIN Inheritors : Inheritors[j] \in Containers
      BY DatabaseAssumption DEF TypeOK, Inheritors
    <2>6. Selects(Inheritors[i]) \in Verdicts \ {Yes, No}
      BY <2>2, <2>4, <2>5 DEF Fails, Selects, TypeOK
    <2>7. \E j \in DOMAIN Inheritors : Inheritors[j] = Other!Inheritors[k]
      <3>1. Range(Inheritors) = Range(Other!Inheritors)
        BY DEF InStep, SameButOrder, TypeOK, Inheritors, Other!Inheritors
      <3> QED BY <3>1 DEF Range
    <2>8. Selects(Other!Inheritors[k]) \in Verdicts \ {Yes, No}
      BY <2>3, <2>4, <2>5, <2>7 DEF Fails, Selects, TypeOK
    <2>9. "ok" \notin Verdicts
      BY DEF Verdicts, Yes, No
    <2>10. ASSUME db2 = db PROVE Other!Inheritors[k] = Inheritors[i]
      <3>1. Other!Inheritors = Inheritors
        BY <2>10 DEF Inheritors, Other!Inheritors, InStep
      <3>2. DOMAIN Inheritors \subseteq Nat \ {0}
        BY <2>5, LenProperties DEF IsSequence
      <3>3. ~ k < i /\ ~ i < k
        BY <2>2, <2>3, <3>1, <3>2
      <3> QED BY <2>2, <2>3, <3>1, <3>2, <3>3
    <2> QED BY <2>2, <2>3, <2>6, <2>8, <2>9, <2>10, BothFail
  <1>5. CASE NoneFails /\ \E c, e \in Matching : c # e
    <2>1. RejectAmbiguous /\ Other!RejectAmbiguous
      BY <1>1, <1>2, <1>5 DEF RejectCriteria, Descend, RejectUnrecognized, Succeed,
         Other!RejectCriteria, Other!Descend, Other!RejectUnrecognized, Other!Succeed, NoneFails
    <2>2. Fail("AmbiguousPacket") /\ Other!Fail("AmbiguousPacket")
      BY <2>1 DEF RejectAmbiguous, Other!RejectAmbiguous
    <2> QED BY <2>2, BothFail
  <1>6. CASE NoneFails /\ \E c \in Matching : Matching = {c}
    <2>1. Descend /\ Other!Descend
      BY <1>1, <1>2, <1>6 DEF RejectCriteria, RejectAmbiguous, RejectUnrecognized, Succeed,
         Other!RejectCriteria, Other!RejectAmbiguous, Other!RejectUnrecognized, Other!Succeed, NoneFails
    <2>2. PICK c \in Matching :
            /\ Matching = {c} /\ current' = c /\ stack' = <<Frame(c, position)>>
            /\ phase' = "entries" /\ UNCHANGED <<db, packet, position, result>>
      BY <2>1 DEF Descend
    <2>3. PICK e \in Matching :
            /\ Matching = {e} /\ current2' = e /\ stack2' = <<Frame(e, position2)>>
            /\ phase2' = "entries" /\ UNCHANGED <<db2, packet2, position2, result2>>
      BY <1>2, <2>1, OtherBuffers DEF Other!Descend
    <2>4. c = e
      BY <2>2, <2>3
    <2> QED BY <2>2, <2>3, <2>4 DEF InStep, SamePacket
  <1>7. CASE NoneFails /\ Matching = {}
    <2>1. /\ RejectUnrecognized \/ Succeed
          /\ Other!RejectUnrecognized \/ Other!Succeed
      BY <1>1, <1>2, <1>7 DEF RejectCriteria, RejectAmbiguous, Descend,
         Other!RejectCriteria, Other!RejectAmbiguous, Other!Descend, NoneFails
    <2>2. current2 = current /\ db2.abstract = db.abstract /\ position2 = position
      BY DEF InStep, SameButOrder
    <2>3. CASE current \in db.abstract
      <3>1. Fail("UnrecognizedPacket") /\ Other!Fail("UnrecognizedPacket")
        BY <2>1, <2>2, <2>3 DEF RejectUnrecognized, Succeed, Other!RejectUnrecognized, Other!Succeed
      <3> QED BY <3>1, BothFail
    <2>4. CASE current \notin db.abstract
      <3>1. /\ result' = "ok" /\ phase' = "idle"
            /\ packet' = Finish(packet, current, position)
        BY <2>1, <2>4 DEF RejectUnrecognized, Succeed
      <3>2. /\ result2' = "ok" /\ phase2' = "idle"
            /\ packet2' = Finish(packet2, current, position)
        BY <2>1, <2>2, <2>4, OtherBuffers DEF Other!RejectUnrecognized, Other!Succeed
      <3>3. Finish(packet2, current, position)
              = [Finish(packet, current, position) EXCEPT !.data = packet2.data]
        BY DEF InStep, SamePacket, Finish, TypeOK
      <3>4. Finish(packet2, current, position).data = packet2.data
        BY DEF InStep, SamePacket, Finish, TypeOK
      <3>5. SamePacket'
        BY <3>1, <3>2, <3>3, <3>4 DEF SamePacket
      <3> QED BY <3>1, <3>2, <3>5 DEF Agreed, BothIdle
    <2> QED BY <2>3, <2>4
  <1> QED
    <2>1. \/ Matching = {} \/ \E c \in Matching : Matching = {c}
          \/ \E c, e \in Matching : c # e
      OBVIOUS
    <2> QED BY <1>4, <1>5, <1>6, <1>7, <2>1

\* The two go along until one of them is cut short, or both have answered;
\* before the first call there is nothing to compare.
Together ==
  /\ SameButOrder(db, db2)
  /\ Begins(packet2.data, packet.data)
  /\ \/ BothIdle /\ result = "none"
     \/ InStep
     \/ CutShort
     \/ Agreed

\* A prefix of a packet is the beginning of it.
LEMMA PartsBegin ==
  ASSUME NEW d \in Packets, NEW e \in Packets, IsPrefix(e, d)
  PROVE  Begins(e, d)
  <1>1. d \in Seq({0, 1}) /\ e \in Seq({0, 1})
    BY PacketAssumption
  <1>2. \A i \in 1 .. Len(e) : e[i] = d[i]
    BY <1>1 DEF IsPrefix
  <1>3. Len(e) <= Len(d)
    BY <1>1 DEF IsPrefix
  <1> QED BY <1>1, <1>2, <1>3, LenProperties DEF Begins

\* Reset leaves nothing behind: a reused buffer starts like a new one.
LEMMA CallTogether ==
  ASSUME TypeOK, Together, Call
  PROVE  Together'
  <1>1. PICK d \in Packets, e \in Packets :
          DecodeInto(d) /\ IsPrefix(e, d) /\ Decode(e)
    BY DEF Call
  <1>2. /\ packet' = NewPacket(d, db.root)
        /\ packet2' = NewPacket(e, db.root)
    <2>1. packet' = NewPacket(d, db.root)
      BY <1>1 DEF DecodeInto, Reset, NewPacket, TypeOK
    <2>2. packet2' = NewPacket(e, db.root)
      BY <1>1 DEF Decode, Reset, NewPacket, Together, SameButOrder
    <2> QED BY <2>1, <2>2
  <1>3. Begins(packet2'.data, packet'.data)
    BY <1>1, <1>2, PartsBegin DEF NewPacket
  <1>4. SamePacket'
    BY <1>2 DEF SamePacket, NewPacket
  <1>5. InStep'
    BY <1>1, <1>4 DEF InStep, DecodeInto, Decode, Together, SameButOrder
  <1>6. SameButOrder(db', db2')
    BY <1>1 DEF DecodeInto, Decode, Together
  <1> QED BY <1>3, <1>5, <1>6 DEF Together

\* A step of a call changes neither the packet nor the database.
LEMMA StepKeeps ==
  ASSUME TypeOK, Step
  PROVE  db' = db /\ packet'.data = packet.data
  <1>1. phase # "idle" /\ [Next]_vars
    BY StepIs DEF Next
  <1>2. /\ db' = db
        /\ \/ packet' = packet
           \/ packet' = Finish(packet, current, position)
           \/ packet' = Insert(packet, Reported(Decoded))
    BY <1>1, PacketSteps DEF Reports
  <1>3. Finish(packet, current, position).data = packet.data
    BY DEF Finish, TypeOK
  <1>4. Insert(packet, Reported(Decoded)).data = packet.data
    BY InsertSound DEF TypeOK, IsBuffer
  <1> QED BY <1>2, <1>3, <1>4

\* The same of the other call, while it goes along.
LEMMA OtherStepKeeps ==
  ASSUME TypeOK, InStep, Other!Step
  PROVE  db2' = db2 /\ packet2'.data = packet2.data
  <1>1. \A v : Insert(packet2, v).data = packet2.data
    BY InsertSound DEF Insert, InStep, SamePacket, TypeOK
  <1>2. \A c, n : Finish(packet2, c, n).data = packet2.data
    BY DEF Finish, InStep, SamePacket, TypeOK
  <1>3. ASSUME NEW e, Other!Fail(e) PROVE db2' = db2 /\ packet2' = packet2
    BY <1>3 DEF Other!Fail
  <1> QED BY <1>1, <1>2, <1>3, OtherBuffers DEF Other!Step, Other!RejectLocation,
       Other!DecodeParameter, Other!EnterContainer, Other!SkipFixedValue, Other!RejectEntry,
       Other!NextEntry, Other!LeaveContainer, Other!RejectCriteria, Other!RejectAmbiguous,
       Other!Descend, Other!RejectUnrecognized, Other!Succeed

\* A step of both keeps them together; after the part was cut short only the
\* whole goes on, and compares no more.
LEMMA AdvanceTogether ==
  ASSUME TypeOK, Together, Advance
  PROVE  Together'
  <1>1. CASE InStep
    <2>1. Step /\ Other!Step
      BY <1>1 DEF Advance, InStep
    <2>2. InEntries \/ Selecting
      BY <2>1, StepIs
    <2>3. InStep' \/ CutShort' \/ Agreed'
      BY <1>1, <2>1, <2>2, EntryTogether, SelectTogether DEF Together
    <2> QED BY <1>1, <2>1, <2>3, StepKeeps, OtherStepKeeps DEF Together
  <1>2. CASE CutShort /\ phase # "idle"
    <2>1. Step /\ UNCHANGED otherVars
      BY <1>2 DEF Advance, CutShort
    <2> QED BY <1>2, <2>1, StepKeeps DEF Together, CutShort, otherVars
  <1>3. ~ BothIdle
    BY DEF Advance
  <1> QED BY <1>1, <1>2, <1>3 DEF Together, Agreed, CutShort, BothIdle

\* Both buffers are empty before the first call.
LEMMA TogetherStarts == TwinInit => Together
  <1>1. TwinInit => /\ Len(packet.data) = 0 /\ Len(packet2.data) = 0
                    /\ SameButOrder(db, db2) /\ BothIdle /\ result = "none"
    BY EmptySeq, OtherBuffers DEF TwinInit, Init, Other!Init, NewPacket, BothIdle
  <1> QED BY <1>1 DEF Together, Begins

\* Every step of the two keeps them together.
LEMMA TogetherSteps == TypeOK /\ Together /\ [TwinNext]_twinVars => Together'
  <1> SUFFICES ASSUME TypeOK, Together, [TwinNext]_twinVars PROVE Together'
    OBVIOUS
  <1>1. CASE UNCHANGED twinVars
    BY <1>1 DEF twinVars, vars, otherVars, Together, SameButOrder, Begins, BothIdle, InStep,
       CutShort, Agreed, SamePacket
  <1> QED BY <1>1, CallTogether, AdvanceTogether DEF TwinNext

\* Each of the two takes the steps of a decoder, so it has its shape.
LEMMA TwinTyping == TwinSpec => []TypeOK
  <1>1. TwinInit => TypeOK
    BY TypingStarts DEF TwinInit
  <1>2. TypeOK /\ [TwinNext]_twinVars => TypeOK'
    <2>1. [TwinNext]_twinVars => [Next]_vars
      BY DEF TwinNext, twinVars, vars, Call, Advance, Next
    <2> QED BY <2>1, TypingSteps
  <1> QED BY <1>1, <1>2, PTL DEF TwinSpec

\* In every reachable state of every two decoders that have the same database
\* but for the order of the inheritors, the calls go together: this is the
\* inductive invariant of the three theorems that follow.
THEOREM TwinsGoTogether == TwinSpec => []Together
  BY TogetherStarts, TogetherSteps, TwinTyping, PTL DEF TwinSpec

\* Buffers that differ at most in their packet, and do not, are the same.
LEMMA SameBuffers ==
  ASSUME TypeOK, SamePacket, packet2.data = packet.data
  PROVE  packet2 = packet
  BY DEF TypeOK, SamePacket

\* decode_into on a buffer, whatever calls it went through and however they
\* ended, answers and fills it as decode with a new buffer does.
THEOREM ReuseNeverShows == TwinSpec => []ReuseIsInvisible
  <1>1. TypeOK /\ Together => ReuseIsInvisible
    BY SameBuffers DEF Together, ReuseIsInvisible, Answered, BothIdle, InStep, CutShort, Agreed
  <1> QED BY <1>1, TwinTyping, TwinsGoTogether, PTL

\* Whether a packet decodes and to what does not depend on the order of the
\* inheritors, in any database.
THEOREM OrderNeverDecides == TwinSpec => []InheritorOrderIrrelevant
  <1>1. TypeOK /\ Together => InheritorOrderIrrelevant
    BY SameBuffers DEF Together, InheritorOrderIrrelevant, Answered, BothIdle, InStep, CutShort, Agreed
  <1> QED BY <1>1, TwinTyping, TwinsGoTogether, PTL

\* The beginning of a packet decodes to what the packet does, fails where it
\* fails, or is out of bounds: there is no fourth possibility.
THEOREM TruncationNeverHides == TwinSpec => []TruncationIsReported
  <1>1. TypeOK /\ Together => TruncationIsReported
    BY DEF Together, TruncationIsReported, Answered, BothIdle, InStep, CutShort, Agreed, SamePacket
  <1> QED BY <1>1, TwinTyping, TwinsGoTogether, PTL

-------------------------------------------------------------------------------
\* A verdict that is no error.
Definite == {Yes, No}

\* q holds every value p holds, and perhaps more.
Grown(p, q) ==
  \A x \in DOMAIN p.slots : Has(p, x) => Has(q, x) /\ Get(q, x) = Get(p, x)

\* A loop over verdicts ends with the first that is not the neutral one.
LEMMA FirstIs ==
  ASSUME NEW v, IsSequence(v), NEW n
  PROVE  \/ First(v, n) = n /\ \A i \in DOMAIN v : v[i] = n
         \/ \E m \in DOMAIN v : /\ First(v, n) = v[m] /\ v[m] # n
                                /\ \A j \in DOMAIN v : j < m => v[j] = n
  <1> DEFINE I == {i \in 1 .. Len(v) : v[i] # n}
             k == SelectInSeq(v, LAMBDA x : x # n)
  <1>1. Len(v) \in Nat /\ DOMAIN v = 1 .. Len(v)
    BY LenProperties DEF IsSequence
  <1>2. k = IF I # {} THEN Min(I) ELSE 0
    BY DEF SelectInSeq
  <1>3. First(v, n) = IF k = 0 THEN n ELSE v[k]
    BY DEF First
  <1>4. I # {} => Min(I) \in I /\ \A i \in I : Min(I) <= i
    <2>1. I \subseteq Nat
      BY <1>1
    <2> HIDE DEF I
    <2>2. I # {} => \E m \in I : \A i \in I : m <= i
      BY <2>1, Least
    <2> QED BY <2>2 DEF Min
  <1> HIDE DEF k
  <1>5. CASE I = {}
    <2>1. First(v, n) = n
      BY <1>2, <1>3, <1>5
    <2>2. \A i \in DOMAIN v : v[i] = n
      BY <1>1, <1>5
    <2> QED BY <2>1, <2>2
  <1>6. CASE I # {}
    <2> DEFINE m == Min(I)
    <2>1. m \in I /\ (\A i \in I : m <= i) /\ k = m
      BY <1>2, <1>4, <1>6
    <2> HIDE DEF m
    <2>2. m \in DOMAIN v /\ v[m] # n /\ m # 0 /\ m \in Nat
      BY <1>1, <2>1
    <2>3. First(v, n) = v[m]
      BY <1>3, <2>1, <2>2
    <2>4. ASSUME NEW j \in DOMAIN v, j < m PROVE v[j] = n
      <3>1. j \in Nat
        BY <1>1
      <3>2. j \notin I
        BY <2>1, <2>2, <2>4, <3>1
      <3> QED BY <1>1, <3>2
    <2> QED BY <2>2, <2>3, <2>4
  <1> QED BY <1>5, <1>6

\* The end of a loop that came to a definite verdict stands as long as every
\* definite verdict does.
LEMMA FirstStands ==
  ASSUME NEW n \in Definite, NEW v, NEW w, IsSequence(v), IsSequence(w),
         DOMAIN w = DOMAIN v, \A i \in DOMAIN v : v[i] \in Definite => w[i] = v[i],
         First(v, n) \in Definite
  PROVE  First(w, n) = First(v, n)
  <1>1. DOMAIN v \subseteq Nat
    BY LenProperties DEF IsSequence
  <1>2. CASE First(v, n) = n /\ \A i \in DOMAIN v : v[i] = n
    <2>1. \A i \in DOMAIN w : w[i] = n
      BY <1>2
    <2> QED BY <1>2, <2>1, FirstIs
  <1>3. ASSUME NEW m \in DOMAIN v, First(v, n) = v[m], v[m] # n,
               \A j \in DOMAIN v : j < m => v[j] = n
        PROVE  First(w, n) = First(v, n)
    <2>1. w[m] = v[m] /\ \A j \in DOMAIN v : j < m => w[j] = n
      BY <1>3
    <2>2. ~ \A i \in DOMAIN w : w[i] = n
      BY <1>3, <2>1
    <2>3. PICK l \in DOMAIN w : /\ First(w, n) = w[l] /\ w[l] # n
                                /\ \A j \in DOMAIN w : j < l => w[j] = n
      BY <2>2, FirstIs
    <2>4. ~ m < l /\ ~ l < m /\ m \in Nat /\ l \in Nat
      BY <1>1, <1>3, <2>1, <2>3
    <2>5. l = m
      BY <2>4
    <2> QED BY <1>3, <2>1, <2>3, <2>5
  <1> QED BY <1>2, <1>3, FirstIs

\* What a buffer has answered it answers when it holds more:
LEMMA StillHas ==
  ASSUME NEW p, NEW q, Grown(p, q), NEW x, Has(p, x)
  PROVE  Has(q, x) /\ Get(q, x) = Get(p, x)
  BY DEF Grown, Has

\* a comparison, which without a value only fails,
LEMMA StillCompares ==
  ASSUME NEW p, NEW q, Grown(p, q), NEW c,
         EvaluateComparison(c, p, {}) \in Definite
  PROVE  EvaluateComparison(c, q, {}) = EvaluateComparison(c, p, {})
  <1>1. Has(p, c.parameter)
    BY DEF EvaluateComparison, Definite, Yes, No
  <1> QED BY <1>1, StillHas DEF EvaluateComparison

\* a condition,
LEMMA StillConditions ==
  ASSUME NEW p, NEW q, Grown(p, q), NEW c, EvaluateCondition(c, p) \in Definite
  PROVE  EvaluateCondition(c, q) = EvaluateCondition(c, p)
  <1>1. Has(p, c.left.parameter)
    BY DEF EvaluateCondition, Definite, Yes, No
  <1>2. c.right.kind # "literal" => Has(p, c.right.parameter)
    BY DEF EvaluateCondition, Definite, Yes, No
  <1> QED BY <1>1, <1>2, StillHas DEF EvaluateCondition

\* a group of conditions
LEMMA StillInner ==
  ASSUME NEW p, NEW q, Grown(p, q), NEW e, e.kind # "condition" => IsSequence(e.of),
         EvaluateInner(e, p) \in Definite
  PROVE  EvaluateInner(e, q) = EvaluateInner(e, p)
  <1> DEFINE V(r) == [i \in DOMAIN e.of |-> EvaluateCondition(e.of[i], r)]
  <1>1. ASSUME NEW r
        PROVE  /\ EvaluateInner(e, r) =
                    IF e.kind = "condition" THEN EvaluateCondition(e, r)
                    ELSE IF e.kind = "and" THEN First(V(r), Yes) ELSE First(V(r), No)
               /\ V(r) = [i \in DOMAIN e.of |-> V(r)[i]]
    BY DEF EvaluateInner, EvaluateGroup, AllOf, AnyOf, UpTo, With, First
  <1>2. \A i \in DOMAIN V(p) : V(p)[i] \in Definite => V(q)[i] = V(p)[i]
    BY StillConditions
  <1> HIDE DEF V
  <1>3. DOMAIN V(p) = DOMAIN e.of /\ DOMAIN V(q) = DOMAIN e.of
    BY <1>1
  <1>4. e.kind # "condition" => IsSequence(V(p)) /\ IsSequence(V(q))
    BY <1>1, MadeOverSequence
  <1>5. Yes \in Definite /\ No \in Definite
    BY DEF Definite
  <1>6. CASE e.kind = "condition"
    BY <1>1, <1>6, StillConditions
  <1>7. CASE e.kind # "condition"
    <2>1. \A n \in Definite : First(V(p), n) \in Definite => First(V(q), n) = First(V(p), n)
      BY <1>2, <1>3, <1>4, <1>7, FirstStands
    <2> QED BY <1>1, <1>5, <1>7, <2>1
  <1> QED BY <1>6, <1>7

\* and of groups,
LEMMA StillBoolean ==
  ASSUME NEW p, NEW q, Grown(p, q), NEW e,
         e.kind # "condition" =>
           /\ IsSequence(e.of)
           /\ \A j \in DOMAIN e.of : e.of[j].kind # "condition" => IsSequence(e.of[j].of),
         EvaluateBoolean(e, p) \in Definite
  PROVE  EvaluateBoolean(e, q) = EvaluateBoolean(e, p)
  <1> DEFINE V(r) == [i \in DOMAIN e.of |-> EvaluateInner(e.of[i], r)]
  <1>1. ASSUME NEW r
        PROVE  /\ EvaluateBoolean(e, r) =
                    IF e.kind = "condition" THEN EvaluateCondition(e, r)
                    ELSE IF e.kind = "and" THEN First(V(r), Yes) ELSE First(V(r), No)
               /\ V(r) = [i \in DOMAIN e.of |-> V(r)[i]]
    BY DEF EvaluateBoolean, EvaluateGroup, AllOf, AnyOf, UpTo, With, First
  <1>2. e.kind # "condition" =>
          \A i \in DOMAIN V(p) : V(p)[i] \in Definite => V(q)[i] = V(p)[i]
    BY StillInner
  <1> HIDE DEF V
  <1>3. DOMAIN V(p) = DOMAIN e.of /\ DOMAIN V(q) = DOMAIN e.of
    BY <1>1
  <1>4. e.kind # "condition" => IsSequence(V(p)) /\ IsSequence(V(q))
    BY <1>1, MadeOverSequence
  <1>5. Yes \in Definite /\ No \in Definite
    BY DEF Definite
  <1>6. CASE e.kind = "condition"
    BY <1>1, <1>6, StillConditions
  <1>7. CASE e.kind # "condition"
    <2>1. \A n \in Definite : First(V(p), n) \in Definite => First(V(q), n) = First(V(p), n)
      BY <1>2, <1>3, <1>4, <1>7, FirstStands
    <2> QED BY <1>1, <1>5, <1>7, <2>1
  <1> QED BY <1>6, <1>7

\* and so the criteria of an inheritor.
LEMMA VerdictsStand ==
  ASSUME NEW p, NEW q, Grown(p, q), NEW criteria, WellFormedCriteria(criteria),
         EvaluateAll(criteria, p, {}) \in Definite
  PROVE  EvaluateAll(criteria, q, {}) = EvaluateAll(criteria, p, {})
  <1> DEFINE V(r) == [i \in DOMAIN criteria |-> Evaluate(criteria[i], r, {})]
  <1>1. ASSUME NEW r
        PROVE  /\ EvaluateAll(criteria, r, {}) = First(V(r), Yes)
               /\ V(r) = [i \in DOMAIN criteria |-> V(r)[i]]
    BY DEF EvaluateAll, AllOf, UpTo, With, First
  <1>2. ASSUME NEW i \in DOMAIN V(p), V(p)[i] \in Definite PROVE V(q)[i] = V(p)[i]
    <2> DEFINE c == criteria[i]
    <2>1. i \in DOMAIN criteria
      BY <1>1
    <2>2. V(p)[i] = Evaluate(c, p, {}) /\ V(q)[i] = Evaluate(c, q, {})
      BY <2>1
    <2> HIDE DEF V
    <2>3. CASE c.kind = "comparison"
      <3>1. \A r : Evaluate(c, r, {}) = EvaluateComparison(c, r, {})
        BY <2>3 DEF Evaluate
      <3> HIDE DEF c
      <3> QED BY <1>2, <2>2, <3>1, StillCompares
    <2>4. CASE c.kind = "boolean"
      <3>1. \A r : Evaluate(c, r, {}) = EvaluateBoolean(c.expr, r)
        BY <2>4 DEF Evaluate
      <3>2. c.expr.kind # "condition" =>
              /\ IsSequence(c.expr.of)
              /\ \A j \in DOMAIN c.expr.of :
                   c.expr.of[j].kind # "condition" => IsSequence(c.expr.of[j].of)
        BY <2>1, <2>4 DEF WellFormedCriteria
      <3> HIDE DEF c
      <3> QED BY <1>2, <2>2, <3>1, <3>2, StillBoolean
    <2>5. CASE c.kind \notin {"comparison", "boolean"}
      BY <1>2, <2>2, <2>5 DEF Evaluate, Definite, Yes, No
    <2> QED BY <2>3, <2>4, <2>5
  <1> HIDE DEF V
  <1>3. DOMAIN V(p) = DOMAIN criteria /\ DOMAIN V(q) = DOMAIN criteria
    BY <1>1
  <1>4. IsSequence(V(p)) /\ IsSequence(V(q))
    BY <1>1, MadeOverSequence DEF WellFormedCriteria
  <1>5. Yes \in Definite /\ First(V(p), Yes) \in Definite
    BY <1>1 DEF Definite
  <1>6. First(V(q), Yes) = First(V(p), Yes)
    BY <1>2, <1>3, <1>4, <1>5, FirstStands
  <1> QED BY <1>1, <1>6

\* What one error of a field can be.
FieldErrors ==
  {"none", "Bits", "Unsupported", "BadFieldSize", "ParameterNotYetDecoded",
   "NoDiscreteLookupMatch", "UnknownEnumeration", "IncomparableValue", Yes, No}

\* The search through a sequence finds none, or an element.
LEMMA FoundIsElement ==
  ASSUME NEW s, IsSequence(s), NEW Test(_)
  PROVE  SelectInSeq(s, Test) # 0 => SelectInSeq(s, Test) \in DOMAIN s
  <1> DEFINE I == {i \in 1 .. Len(s) : Test(s[i])}
  <1>1. Len(s) \in Nat /\ DOMAIN s = 1 .. Len(s)
    BY LenProperties DEF IsSequence
  <1>2. SelectInSeq(s, Test) = IF I # {} THEN Min(I) ELSE 0
    BY DEF SelectInSeq
  <1>3. I # {} => Min(I) \in I
    <2>1. I \subseteq Nat
      BY <1>1
    <2> HIDE DEF I
    <2>2. I # {} => \E m \in I : \A n \in I : m <= n
      BY <2>1, Least
    <2> QED BY <2>2 DEF Min
  <1> QED BY <1>1, <1>2, <1>3

\* A field that cannot be decoded is an error a call can return, never "ok".
LEMMA ErrorKinds ==
  ASSUME NEW type, WellFormedType(type), NEW p, NEW n
  PROVE  DecodeValue(type, p, n).error # "ok"
  <1> DEFINE e == type.encoding
  <1>1. ASSUME e.form = "binary" PROVE ResolveSize(e.size, p).error \in FieldErrors
    <2> DEFINE k == LookupIndex(e.size.lookups, p)
    <2>1. \A bits : Size(bits).error \in FieldErrors
      BY DEF Size, FieldErrors
    <2>2. DynamicSize(e.size, p).error \in FieldErrors
      BY <2>1 DEF DynamicSize, NoSize, FieldErrors
    <2>3. ASSUME e.size.kind = "lookup" PROVE DiscreteLookup(e.size.lookups, p).error \in FieldErrors
      <3>1. k # 0 => k \in DOMAIN e.size.lookups
        <4>1. IsSequence(e.size.lookups)
          BY <1>1, <2>3 DEF WellFormedType
        <4>2. k = SelectInSeq(e.size.lookups, LAMBDA l : LookupVerdict(l, p) # No)
          BY DEF LookupIndex
        <4> HIDE DEF k
        <4> DEFINE T(l) == LookupVerdict(l, p) # No
        <4>3. SelectInSeq(e.size.lookups, T) # 0 => SelectInSeq(e.size.lookups, T) \in DOMAIN e.size.lookups
          BY <4>1, FoundIsElement
        <4> QED BY <4>2, <4>3
      <3>2. k # 0 => LookupVerdict(e.size.lookups[k], p) \in Verdicts
        BY <1>1, <2>3, <3>1, VerdictKinds DEF WellFormedType, LookupVerdict
      <3>3. DiscreteLookup(e.size.lookups, p) =
              IF k = 0 THEN NoSize("NoDiscreteLookupMatch")
              ELSE IF LookupVerdict(e.size.lookups[k], p) # Yes
              THEN NoSize(LookupVerdict(e.size.lookups[k], p))
              ELSE Size(e.size.lookups[k].value)
        BY DEF DiscreteLookup, With
      <3> HIDE DEF k
      <3> QED BY <2>1, <3>2, <3>3 DEF NoSize, FieldErrors, Verdicts
    <2> QED BY <2>1, <2>2, <2>3 DEF ResolveSize, NoSize, FieldErrors
  <1>2. ReadRaw(e, p, n).error \in FieldErrors
    <2>1. CASE e.form = "integer"
      BY <2>1 DEF ReadRaw, ReadInteger, NoRead, Read, FieldErrors
    <2>2. CASE e.form = "binary"
      BY <1>1, <2>2 DEF ReadRaw, ReadBinary, With, NoRead, Read, FieldErrors
    <2>3. CASE e.form \notin {"integer", "binary"}
      BY <2>3 DEF ReadRaw, NoRead, FieldErrors
    <2> QED BY <2>1, <2>2, <2>3
  <1> DEFINE raw == ReadRaw(e, p, n).raw
  <1>3. e.form # "integer" => raw.kind = "bytes"
    BY DEF ReadRaw, ReadBinary, With, NoRead, Read, RawAt, NoRaw
  <1>4. Calibrate(e, raw, p).error \in FieldErrors
    <2>1. CASE raw.kind = "bytes"
      BY <2>1 DEF Calibrate, Uncalibrated, FieldErrors
    <2>2. CASE raw.kind # "bytes"
      <3> DEFINE T(c) == EvaluateAll(c.criteria, p, {raw}) # No
                 k == SelectInSeq(e.contexts, T)
                 v == EvaluateAll(e.contexts[k].criteria, p, {raw})
      <3>1. e.form = "integer"
        BY <1>3, <2>2
      <3>2. IsSequence(e.contexts)
        BY <3>1 DEF WellFormedType
      <3> HIDE DEF T
      <3>3. k # 0 => k \in DOMAIN e.contexts
        BY <3>2, FoundIsElement
      <3> USE DEF T
      <3>4. k # 0 => v \in Verdicts
        BY <3>1, <3>3, VerdictKinds DEF WellFormedType
      <3>5. Calibrate(e, raw, p) =
              IF k # 0 /\ v # Yes THEN NoEng(v)
              ELSE IF k # 0 THEN RunCalibrator(e.contexts[k].calibrator, raw.v)
              ELSE IF e.default # {}
              THEN RunCalibrator(CHOOSE c \in e.default : TRUE, raw.v)
              ELSE Uncalibrated(raw)
        BY <2>2 DEF Calibrate, With
      <3>6. \A c, x : RunCalibrator(c, x).error \in FieldErrors
        BY DEF RunCalibrator, NoEng, Calibrated, FieldErrors
      <3>7. Uncalibrated(raw).error \in FieldErrors
        BY DEF Uncalibrated, FieldErrors
      <3> HIDE DEF k, v
      <3> QED BY <3>4, <3>5, <3>6, <3>7 DEF NoEng, FieldErrors, Verdicts
    <2> QED BY <2>1, <2>2
  <1>5. Engineer(type, ReadRaw(e, p, n), p).error \in FieldErrors
    <2>1. CASE type.kind = "enumerated"
      BY <2>1 DEF Engineer, NoEng, FieldErrors
    <2>2. CASE type.kind = "boolean"
      BY <2>2 DEF Engineer, FieldErrors
    <2>3. CASE type.kind \notin {"enumerated", "boolean"}
      BY <1>4, <2>3 DEF Engineer
    <2> QED BY <2>1, <2>2, <2>3
  <1> HIDE DEF raw
  <1>6. DecodeValue(type, p, n).error \in FieldErrors
    BY <1>2, <1>5 DEF DecodeValue, With, NoValue, FieldErrors
  <1> QED BY <1>6 DEF FieldErrors, Yes, No

\* The way up from a container starts with it, and goes on to every base.
LEMMA PathIsClosed ==
  ASSUME NEW b, NEW c \in Containers
  PROVE  c \in PathTo(b, c) /\ ClosedUpwards(b, PathTo(b, c)) /\ PathTo(b, c) \subseteq Containers
  <1>1. c \in PathTo(b, c) /\ PathTo(b, c) \subseteq Containers
    BY DEF PathTo
  <1>2. ASSUME NEW k \in PathTo(b, c) \ {b.root}, NEW a \in Containers,
               Contains(b.inheritors[a], k)
        PROVE  a \in PathTo(b, c)
    <2>1. ASSUME NEW S \in SUBSET Containers, c \in S, ClosedUpwards(b, S) PROVE a \in S
      <3>1. k \in S
        BY <1>2, <2>1 DEF PathTo
      <3> QED BY <1>2, <2>1, <3>1 DEF ClosedUpwards
    <2> QED BY <2>1 DEF PathTo
  <1>3. ClosedUpwards(b, PathTo(b, c))
    BY <1>2 DEF ClosedUpwards
  <1> QED BY <1>1, <1>3

\* It is the least such set.
LEMMA PathIsLeast ==
  ASSUME NEW b, NEW c, NEW S \in SUBSET Containers, c \in S, ClosedUpwards(b, S)
  PROVE  PathTo(b, c) \subseteq S
  BY DEF PathTo

\* It ends at the root,
LEMMA PathOfRoot ==
  ASSUME NEW b, b.root \in Containers
  PROVE  PathTo(b, b.root) = {b.root}
  <1>1. ClosedUpwards(b, {b.root})
    BY DEF ClosedUpwards
  <1>2. PathTo(b, b.root) \subseteq {b.root}
    BY <1>1, PathIsLeast
  <1> QED BY <1>2, PathIsClosed

\* and grows by the inheritor descended to.
LEMMA PathGrows ==
  ASSUME NEW b \in Databases, NEW a \in Containers, NEW c \in Containers,
         Contains(b.inheritors[a], c), c # b.root
  PROVE  PathTo(b, c) = PathTo(b, a) \cup {c}
  <1>1. /\ a \in PathTo(b, a) /\ ClosedUpwards(b, PathTo(b, a))
        /\ c \in PathTo(b, c) /\ ClosedUpwards(b, PathTo(b, c))
        /\ PathTo(b, a) \subseteq Containers /\ PathTo(b, c) \subseteq Containers
    BY PathIsClosed
  <1>2. a \in PathTo(b, c)
    BY <1>1 DEF ClosedUpwards
  <1>3. PathTo(b, a) \subseteq PathTo(b, c)
    BY <1>1, <1>2, PathIsLeast
  <1>4. ClosedUpwards(b, PathTo(b, a) \cup {c})
    <2>1. ASSUME NEW e \in Containers, Contains(b.inheritors[e], c) PROVE e = a
      BY <2>1, TreeAssumption
    <2> QED BY <1>1, <2>1 DEF ClosedUpwards
  <1>5. PathTo(b, c) \subseteq PathTo(b, a) \cup {c}
    BY <1>1, <1>4, PathIsLeast
  <1> QED BY <1>1, <1>3, <1>5

\* Inheritance being founded, going down never comes back to the way taken.
LEMMA NoWayBack ==
  ASSUME NEW b \in Databases, NEW c \in Containers, NEW k \in Containers,
         Contains(b.inheritors[c], k)
  PROVE  k \notin PathTo(b, c)
  <1> SUFFICES ASSUME k \in PathTo(b, c) PROVE FALSE
    OBVIOUS
  <1> DEFINE S == PathTo(b, c)
  <1>1. c \in S /\ ClosedUpwards(b, S) /\ S \subseteq Containers
    BY PathIsClosed
  <1>2. ASSUME NEW x \in S PROVE \E y \in S : Contains(b.inheritors[x], y)
    <2>1. CASE x = c
      BY <2>1
    <2>2. ASSUME x # c, ~ \E y \in S : Contains(b.inheritors[x], y) PROVE FALSE
      <3>1. ClosedUpwards(b, S \ {x})
        <4> HIDE DEF S
        <4> QED BY <1>1, <2>2 DEF ClosedUpwards
      <3>2. c \in S \ {x} /\ S \ {x} \in SUBSET Containers
        BY <1>1, <2>2
      <3>3. PathTo(b, c) \subseteq S \ {x}
        BY <3>1, <3>2, PathIsLeast
      <3> QED BY <3>3
    <2> QED BY <2>1, <2>2
  <1> HIDE DEF S
  <1>3. S = {}
    BY <1>1, <1>2, TreeAssumption
  <1> QED BY <1>1, <1>3

-------------------------------------------------------------------------------
\* In every call of decode_container that is active, the entry u is behind: it
\* comes before the one at hand, or is that one and decoded.
Passed(stk, u) ==
  \A k \in DOMAIN stk : stk[k].container = u[1] =>
    \/ u[2] < stk[k].entry
    \/ u[2] = stk[k].entry /\ stk[k].repetition > 0

\* S are the containers entered so far, each once: what has been decoded is
\* from their entries, and what they refer to has been entered from behind.
Entered(b, S, stk, cur, decoded) ==
  /\ cur \in S
  /\ \A k \in DOMAIN stk : stk[k].container \in S
  /\ \A k, l \in DOMAIN stk : stk[k].container = stk[l].container => k = l
  /\ \A p \in decoded : \E u \in Uses(b) :
       /\ Used(b, u).kind = "parameter" /\ Used(b, u).parameter = p
       /\ u[1] \in S /\ Passed(stk, u)
  /\ \A u \in Uses(b) : Used(b, u).kind = "container" /\ Used(b, u).child \in S =>
       u[1] \in S /\ Passed(stk, u)
  /\ \A a \in Containers, k \in S : Contains(b.inheritors[a], k) => k \in PathTo(b, cur)

\* What is used is an entry of a container.
LEMMA UsesAreEntries ==
  ASSUME NEW b \in Databases, NEW u \in Uses(b)
  PROVE  /\ u[1] \in Containers /\ u[2] \in Nat
         /\ Used(b, u).kind = "container" => Used(b, u).child \in Containers
  <1>1. PICK c \in Containers : u \in {c} \X DOMAIN b.entries[c]
    BY DEF Uses
  <1>2. u[1] = c /\ u[2] \in DOMAIN b.entries[c]
    BY <1>1
  <1>3. DOMAIN b.entries[c] \subseteq Nat
    BY DatabaseAssumption, LenProperties DEF IsSequence
  <1>4. Used(b, u) = b.entries[c][u[2]]
    BY <1>2 DEF Used
  <1> QED BY <1>2, <1>3, <1>4, DatabaseAssumption

\* A frame g that is where the frame f was, or further.
Further(f, g) ==
  /\ g.container = f.container
  /\ g.entry > f.entry \/ (g.entry = f.entry /\ g.repetition >= f.repetition)

\* Going on in the active calls, or returning from one, leaves what is behind
\* behind.
LEMMA EnteredGoesOn ==
  ASSUME NEW b \in Databases, NEW S, NEW cur, NEW decoded,
         NEW s \in Seq(Frames), NEW t \in Seq(Frames),
         DOMAIN t \subseteq DOMAIN s, \A k \in DOMAIN t : Further(s[k], t[k]),
         Entered(b, S, s, cur, decoded)
  PROVE  Entered(b, S, t, cur, decoded) /\ \A u \in Uses(b) : Passed(s, u) => Passed(t, u)
  <1>1. ASSUME NEW u \in Uses(b), Passed(s, u) PROVE Passed(t, u)
    <2>1. ASSUME NEW k \in DOMAIN t, t[k].container = u[1]
          PROVE  u[2] < t[k].entry \/ (u[2] = t[k].entry /\ t[k].repetition > 0)
      <3>1. s[k] \in Frames /\ t[k] \in Frames
        BY ElementOfSeq, LenProperties
      <3>2. /\ s[k].entry \in Nat /\ t[k].entry \in Nat
            /\ s[k].repetition \in Nat /\ t[k].repetition \in Nat
        BY <3>1 DEF Frames
      <3>3. u[2] \in Nat
        BY UsesAreEntries
      <3>4. Further(s[k], t[k]) /\ s[k].container = u[1]
        BY <2>1 DEF Further
      <3>5. u[2] < s[k].entry \/ (u[2] = s[k].entry /\ s[k].repetition > 0)
        BY <1>1, <3>4 DEF Passed
      <3> QED BY <3>2, <3>3, <3>4, <3>5 DEF Further
    <2> QED BY <2>1 DEF Passed
  <1>2. \A k \in DOMAIN t : t[k].container = s[k].container /\ k \in DOMAIN s
    BY DEF Further
  <1>3. Entered(b, S, t, cur, decoded)
    BY <1>1, <1>2 DEF Entered
  <1> QED BY <1>1, <1>3

\* The entry behind which the walk is has been decoded.
LEMMA EnteredDecodes ==
  ASSUME NEW b, NEW S, NEW stk, NEW cur, NEW decoded, Entered(b, S, stk, cur, decoded),
         NEW u \in Uses(b), Used(b, u).kind = "parameter", u[1] \in S, Passed(stk, u)
  PROVE  Entered(b, S, stk, cur, decoded \cup {Used(b, u).parameter})
  BY DEF Entered

\* The entry behind which the walk is has been entered: nothing else refers to
\* its container.
LEMMA EnteredCalls ==
  ASSUME NEW b \in Databases, ParametersDecodedOnce(b),
         NEW S, NEW s \in Seq(Frames), NEW cur, NEW decoded, Entered(b, S, s, cur, decoded),
         NEW u \in Uses(b), Used(b, u).kind = "container", u[1] \in S, Passed(s, u),
         NEW f \in Frames, f.container = Used(b, u).child, f.container \notin S
  PROVE  Entered(b, S \cup {f.container}, Append(s, f), cur, decoded)
  <1> DEFINE c == Used(b, u).child
             t == Append(s, f)
  <1>1. /\ Len(s) \in Nat /\ DOMAIN s = 1 .. Len(s) /\ DOMAIN t = 1 .. Len(s) + 1
        /\ (\A k \in DOMAIN s : t[k] = s[k]) /\ t[Len(s) + 1] = f
    BY AppendProperties, LenProperties
  <1> HIDE DEF t
  <1>2. /\ c # b.root /\ \A a \in Containers : ~ Contains(b.inheritors[a], c)
        /\ \A w \in Uses(b) : Used(b, w).kind = "container" /\ Used(b, w).child = c => w = u
    BY DEF ParametersDecodedOnce
  <1>3. ASSUME NEW w, w[1] \in S, Passed(s, w) PROVE Passed(t, w)
    BY <1>1, <1>3 DEF Passed
  <1>4. \A k \in DOMAIN t : t[k].container \in S \cup {c}
    BY <1>1 DEF Entered
  <1>5. \A k, l \in DOMAIN t : t[k].container = t[l].container => k = l
    BY <1>1 DEF Entered
  <1>6. \A p \in decoded : \E w \in Uses(b) :
          /\ Used(b, w).kind = "parameter" /\ Used(b, w).parameter = p
          /\ w[1] \in S \cup {c} /\ Passed(t, w)
    BY <1>3 DEF Entered
  <1>7. \A w \in Uses(b) : Used(b, w).kind = "container" /\ Used(b, w).child \in S \cup {c} =>
          w[1] \in S \cup {c} /\ Passed(t, w)
    BY <1>2, <1>3 DEF Entered
  <1>8. \A a \in Containers, k \in S \cup {c} :
          Contains(b.inheritors[a], k) => k \in PathTo(b, cur)
    BY <1>2 DEF Entered
  <1>9. cur \in S \cup {c}
    BY DEF Entered
  <1> QED BY <1>4, <1>5, <1>6, <1>7, <1>8, <1>9 DEF Entered, t

\* So has the inheritor descended to.
LEMMA EnteredDescends ==
  ASSUME NEW b \in Databases, ParametersDecodedOnce(b),
         NEW S, NEW cur \in Containers, NEW decoded, Entered(b, S, <<>>, cur, decoded),
         b.root \in PathTo(b, cur),
         NEW c \in Containers, Contains(b.inheritors[cur], c),
         NEW f \in Frames, f.container = c
  PROVE  /\ Entered(b, S \cup {c}, <<f>>, c, decoded)
         /\ PathTo(b, c) = PathTo(b, cur) \cup {c}
         /\ c \notin PathTo(b, cur)
  <1>1. c \notin PathTo(b, cur) /\ c # b.root
    BY NoWayBack
  <1>2. PathTo(b, c) = PathTo(b, cur) \cup {c}
    BY <1>1, PathGrows
  <1>3. c \notin S
    BY <1>1 DEF Entered
  <1>4. DOMAIN <<f>> = {1} /\ <<f>>[1] = f
    OBVIOUS
  <1>5. ASSUME NEW w, w[1] \in S PROVE Passed(<<f>>, w)
    BY <1>3, <1>4, <1>5 DEF Passed
  <1>6. \A w \in Uses(b) : Used(b, w).kind = "container" => Used(b, w).child # c
    BY DEF ParametersDecodedOnce
  <1>7. \A k \in DOMAIN <<f>> : <<f>>[k].container \in S \cup {c}
    BY <1>4
  <1>8. \A k, l \in DOMAIN <<f>> : <<f>>[k].container = <<f>>[l].container => k = l
    BY <1>4
  <1>9. \A p \in decoded : \E w \in Uses(b) :
          /\ Used(b, w).kind = "parameter" /\ Used(b, w).parameter = p
          /\ w[1] \in S \cup {c} /\ Passed(<<f>>, w)
    BY <1>5 DEF Entered
  <1>10. \A w \in Uses(b) : Used(b, w).kind = "container" /\ Used(b, w).child \in S \cup {c} =>
           w[1] \in S \cup {c} /\ Passed(<<f>>, w)
    BY <1>5, <1>6 DEF Entered
  <1>11. \A a \in Containers, k \in S \cup {c} :
           Contains(b.inheritors[a], k) => k \in PathTo(b, c)
    BY <1>2 DEF Entered
  <1>12. Entered(b, S \cup {c}, <<f>>, c, decoded)
    BY <1>7, <1>8, <1>9, <1>10, <1>11 DEF Entered
  <1> QED BY <1>1, <1>2, <1>12

\* What is entered at the start is the root.
LEMMA EnteredAtFirst ==
  ASSUME NEW b \in Databases, ParametersDecodedOnce(b), NEW f \in Frames, f.container = b.root
  PROVE  Entered(b, {b.root}, <<f>>, b.root, {})
  <1>1. DOMAIN <<f>> = {1} /\ <<f>>[1] = f /\ b.root \in PathTo(b, b.root)
    BY DatabaseAssumption, PathIsClosed
  <1>2. \A w \in Uses(b) : Used(b, w).kind = "container" => Used(b, w).child # b.root
    BY DEF ParametersDecodedOnce
  <1> QED BY <1>1, <1>2 DEF Entered

-------------------------------------------------------------------------------
\* On the way down from the root the criteria hold for the child taken, and
\* for no other.
StillSelected(b, cur, pkt) ==
  /\ b.root \in PathTo(b, cur)
  /\ \A a \in PathTo(b, cur) \ {cur}, k \in Containers :
       Contains(b.inheritors[a], k) =>
         EvaluateAll(b.restriction[k], pkt, {}) = IF k \in PathTo(b, cur) THEN Yes ELSE No

\* They go on to, when a value is added.
LEMMA SelectionStands ==
  ASSUME NEW b \in Databases, NEW cur, NEW p, NEW q, Grown(p, q), StillSelected(b, cur, p)
  PROVE  StillSelected(b, cur, q)
  <1>1. \A k \in Containers : WellFormedCriteria(b.restriction[k])
    BY DatabaseAssumption
  <1>2. \A k \in Containers : EvaluateAll(b.restriction[k], p, {}) \in Definite =>
          EvaluateAll(b.restriction[k], q, {}) = EvaluateAll(b.restriction[k], p, {})
    BY <1>1, VerdictsStand
  <1> QED BY <1>2 DEF StillSelected, Definite

\* Inserting a parameter that has no value yet adds one.
LEMMA InsertGrows ==
  ASSUME NEW pkt, NEW v, IsBuffer(pkt), IsMap(pkt), v.parameter \notin DOMAIN pkt.slots
  PROVE  /\ Grown(pkt, Insert(pkt, v))
         /\ DOMAIN Insert(pkt, v).slots = DOMAIN pkt.slots \cup {v.parameter}
  <1> DEFINE new == Insert(pkt, v)
  <1>1. /\ new.slots = Extend(pkt.slots, v.parameter, Len(pkt.values) + 1)
        /\ new.values = Append(pkt.values, v)
    BY DEF Insert, IsBuffer
  <1>2. /\ DOMAIN new.slots = DOMAIN pkt.slots \cup {v.parameter}
        /\ \A p \in DOMAIN pkt.slots : new.slots[p] = pkt.slots[p]
    BY <1>1 DEF Extend
  <1>3. /\ Len(pkt.values) \in Nat
        /\ DOMAIN new.values = 1 .. Len(pkt.values) + 1
        /\ \A j \in 1 .. Len(pkt.values) : new.values[j] = pkt.values[j]
    BY <1>1, AppendedSequence DEF IsBuffer
  <1> HIDE DEF new
  <1>4. ASSUME NEW x \in DOMAIN pkt.slots
        PROVE  Has(new, x) /\ Get(new, x) = Get(pkt, x)
    <2>1. pkt.slots[x] \in 1 .. Len(pkt.values)
      BY DEF IsMap
    <2> QED BY <1>2, <1>3, <2>1 DEF Has, Get
  <1> QED BY <1>2, <1>4 DEF Grown, new

\* The entry at hand, as a use of its container.
TopUse == <<Top.container, Top.entry>>

\* Frames that are where they were are not behind.
LEMMA FurtherStays ==
  ASSUME NEW f \in Frames
  PROVE  Further(f, f)
  BY DEF Frames, Further

\* Counting a repetition takes the innermost call on.
LEMMA RepeatedGoesOn ==
  ASSUME TypeOK, stack # <<>>
  PROVE  /\ DOMAIN Repeated = DOMAIN stack
         /\ \A k \in DOMAIN Repeated : Further(stack[k], Repeated[k])
         /\ Repeated[Len(stack)].entry = Top.entry
         /\ Repeated[Len(stack)].repetition = Top.repetition + 1
  <1>1. Len(stack) \in DOMAIN stack /\ Top \in Frames /\ stack \in Seq(Frames)
    BY TopIsFrame DEF TypeOK
  <1>2. /\ DOMAIN Repeated = DOMAIN stack
        /\ Repeated[Len(stack)] = [Top EXCEPT !.repetition = Top.repetition + 1]
        /\ \A k \in DOMAIN stack : k # Len(stack) => Repeated[k] = stack[k]
    BY <1>1 DEF Repeated, Top
  <1>3. Further(Top, [Top EXCEPT !.repetition = Top.repetition + 1])
    BY <1>1 DEF Frames, Further
  <1>4. \A k \in DOMAIN stack : stack[k] \in Frames
    BY <1>1, ElementOfSeq, LenProperties
  <1>5. ASSUME NEW k \in DOMAIN stack PROVE Further(stack[k], Repeated[k])
    <2>1. CASE k = Len(stack)
      BY <1>2, <1>3, <2>1 DEF Top
    <2>2. CASE k # Len(stack)
      BY <1>2, <1>4, <2>2, FurtherStays
    <2> QED BY <2>1, <2>2
  <1> QED BY <1>1, <1>2, <1>5 DEF Frames

\* What is at hand is used once, and not yet; counted, it is behind.
LEMMA AtHand ==
  ASSUME TypeOK, InEntries, Repeating, ParametersDecodedOnce(db),
         NEW S, NEW D, Entered(db, S, stack, current, D)
  PROVE  /\ TopUse \in Uses(db) /\ Used(db, TopUse) = Entry /\ TopUse[1] \in S
         /\ ~ Passed(stack, TopUse) /\ Passed(Repeated, TopUse)
         /\ Entered(db, S, Repeated, current, D)
         /\ Entry.kind = "parameter" => Entry.parameter \notin D
         /\ Entry.kind = "container" => Entry.child \notin S
  <1> DEFINE u == TopUse
             n == Len(stack)
  <1>1. stack # <<>> /\ ~ AtEnd
    BY DEF InEntries, Repeating
  <1>2. n \in DOMAIN stack /\ Top \in Frames /\ stack \in Seq(Frames) /\ Top = stack[n]
    BY <1>1, TopIsFrame DEF TypeOK, Top
  <1>3. Top.container \in Containers /\ Top.entry \in Nat /\ Top.entry > 0 /\ Top.repetition \in Nat
    BY <1>2 DEF Frames
  <1>4. Top.entry \in DOMAIN db.entries[Top.container]
    <2>1. IsSequence(db.entries[Top.container])
      BY <1>3, DatabaseAssumption DEF TypeOK
    <2>2. /\ Len(db.entries[Top.container]) \in Nat
          /\ DOMAIN db.entries[Top.container] = 1 .. Len(db.entries[Top.container])
      BY <2>1, LenProperties DEF IsSequence
    <2> QED BY <1>1, <1>3, <2>2 DEF AtEnd
  <1>5. u[1] = Top.container /\ u[2] = Top.entry /\ Used(db, u) = Entry
    BY DEF TopUse, Used, Entry
  <1>6. Entry.repeat \in Nat /\ Top.repetition < Entry.repeat
    BY <1>1, EntryWellFormed DEF Repeating
  <1>7. u \in Uses(db)
    <2>1. u \in {Top.container} \X DOMAIN db.entries[Top.container]
      BY <1>4 DEF TopUse
    <2>2. u \in UNION {{c} \X DOMAIN db.entries[c] : c \in Containers}
      BY <1>3, <2>1
    <2>3. db.entries[u[1]][u[2]].repeat > 0
      BY <1>3, <1>5, <1>6 DEF Used
    <2> QED BY <2>2, <2>3 DEF Uses
  <1>8. Entry.repeat = 1 /\ Top.repetition = 0
    <2>1. Entry.repeat = 1
      BY <1>5, <1>7 DEF ParametersDecodedOnce
    <2> QED BY <1>3, <1>6, <2>1
  <1>9. u[1] \in S
    BY <1>2, <1>5 DEF Entered
  <1> HIDE DEF u
  <1>10. ~ Passed(stack, u)
    BY <1>2, <1>3, <1>5, <1>8 DEF Passed
  <1>11. /\ DOMAIN Repeated = DOMAIN stack
         /\ \A k \in DOMAIN Repeated : Further(stack[k], Repeated[k])
         /\ Repeated[n].entry = Top.entry
         /\ Repeated[n].repetition = 1
    BY <1>1, <1>8, RepeatedGoesOn
  <1>12. Repeated \in Seq(Frames)
    BY <1>1, RepeatedIsStack
  <1>13. Passed(Repeated, u)
    <2>1. ASSUME NEW k \in DOMAIN Repeated, Repeated[k].container = u[1] PROVE k = n
      <3>1. stack[k].container = stack[n].container
        BY <1>2, <1>5, <1>11, <2>1 DEF Further
      <3> QED BY <1>2, <1>11, <3>1 DEF Entered
    <2> QED BY <1>5, <1>11, <2>1 DEF Passed
  <1>14. Entered(db, S, Repeated, current, D)
    <2>1. db \in Databases /\ DOMAIN Repeated \subseteq DOMAIN stack
      BY <1>11 DEF TypeOK
    <2> QED BY <1>2, <1>11, <1>12, <2>1, EnteredGoesOn
  <1>15. ASSUME Entry.kind = "parameter", Entry.parameter \in D PROVE FALSE
    <2>1. PICK w \in Uses(db) : /\ Used(db, w).kind = "parameter"
                                /\ Used(db, w).parameter = Entry.parameter
                                /\ Passed(stack, w)
      BY <1>15 DEF Entered
    <2>2. w = u
      BY <1>5, <1>7, <1>15, <2>1 DEF ParametersDecodedOnce
    <2> QED BY <1>10, <2>1, <2>2
  <1>16. ASSUME Entry.kind = "container", Entry.child \in S PROVE FALSE
    BY <1>5, <1>7, <1>10, <1>16 DEF Entered
  <1> QED BY <1>5, <1>7, <1>9, <1>10, <1>13, <1>14, <1>15, <1>16 DEF u

\* What is known while a call runs, and of the finished packet: the selection
\* made so far stands, because what will be decoded has no value yet.
OnTheWay ==
  ParametersDecodedOnce(db) =>
    /\ phase # "idle" =>
         /\ StillSelected(db, current, packet)
         /\ \E S \in SUBSET Containers :
              Entered(db, S, stack, current, DOMAIN packet.slots)
    /\ phase = "idle" /\ result = "ok" =>
         /\ packet.container = current
         /\ StillSelected(db, current, packet)
         /\ \A k \in Containers : Contains(Inheritors, k) => Selects(k) = No

\* A step that goes on in the entries without reporting a value.
LEMMA WayGoesOn ==
  ASSUME TypeOK, TypeOK', OnTheWay, phase # "idle", phase' # "idle",
         db' = db, packet' = packet, current' = current,
         DOMAIN stack' \subseteq DOMAIN stack,
         \A k \in DOMAIN stack' : Further(stack[k], stack'[k])
  PROVE  OnTheWay'
  <1> SUFFICES ASSUME ParametersDecodedOnce(db)
               PROVE  /\ StillSelected(db, current, packet)
                      /\ \E S \in SUBSET Containers :
                           Entered(db, S, stack', current, DOMAIN packet.slots)
    BY DEF OnTheWay
  <1>1. PICK S \in SUBSET Containers : Entered(db, S, stack, current, DOMAIN packet.slots)
    BY DEF OnTheWay
  <1>2. db \in Databases /\ stack \in Seq(Frames) /\ stack' \in Seq(Frames)
    BY DEF TypeOK
  <1>3. Entered(db, S, stack', current, DOMAIN packet.slots)
    BY <1>1, <1>2, EnteredGoesOn
  <1> QED BY <1>3 DEF OnTheWay

\* A step that fails.
LEMMA WayFails ==
  ASSUME NEW error, error # "ok", Fail(error)
  PROVE  OnTheWay'
  BY DEF Fail, OnTheWay

\* A parameter decoded is one more that is behind, and no verdict can have
\* been about it.
LEMMA WayDecodes ==
  ASSUME TypeOK, ReadsAsMap, OnTheWay, DecodeParameter
  PROVE  OnTheWay'
  <1> DEFINE v == Decoded
  <1>1. InEntries /\ Repeating /\ Entry.kind = "parameter" /\ stack # <<>> /\ ~ AtEnd
    BY DEF DecodeParameter, InEntries, Repeating
  <1>2. Entry.parameter \in Params
    BY <1>1, EntryWellFormed
  <1>3. v.error # "ok"
    <2>1. WellFormedType(db.types[Entry.parameter])
      BY <1>2, DatabaseAssumption DEF TypeOK
    <2> QED BY <2>1, ErrorKinds DEF Decoded
  <1>4. CASE v.error # "none"
    <2>1. Fail(v.error)
      BY <1>4 DEF DecodeParameter, Decoded
    <2> QED BY <1>3, <2>1, WayFails
  <1>5. CASE v.error = "none"
    <2>1. /\ packet' = Insert(packet, Reported(v)) /\ stack' = Repeated
          /\ db' = db /\ current' = current /\ phase' = phase /\ result' = result
      BY <1>5 DEF DecodeParameter, Decoded
    <2>2. phase # "idle"
      BY <1>1 DEF InEntries
    <2> HIDE DEF v
    <2> SUFFICES ASSUME ParametersDecodedOnce(db)
                 PROVE  /\ StillSelected(db, current, packet')
                        /\ \E S \in SUBSET Containers :
                             Entered(db, S, Repeated, current, DOMAIN packet'.slots)
      BY <2>1, <2>2 DEF OnTheWay
    <2>3. PICK S \in SUBSET Containers : Entered(db, S, stack, current, DOMAIN packet.slots)
      BY <2>2 DEF OnTheWay
    <2>4. /\ TopUse \in Uses(db) /\ Used(db, TopUse) = Entry /\ TopUse[1] \in S
          /\ Passed(Repeated, TopUse)
          /\ Entered(db, S, Repeated, current, DOMAIN packet.slots)
          /\ Entry.parameter \notin DOMAIN packet.slots
      BY <1>1, <2>3, AtHand
    <2>5. Reported(v).parameter = Entry.parameter
      BY DEF Reported
    <2>6. IsBuffer(packet) /\ IsMap(packet)
      BY DEF TypeOK, IsBuffer, ReadsAsMap
    <2>7. /\ Grown(packet, packet')
          /\ DOMAIN packet'.slots = DOMAIN packet.slots \cup {Entry.parameter}
      BY <2>1, <2>4, <2>5, <2>6, InsertGrows
    <2>8. StillSelected(db, current, packet')
      BY <2>2, <2>7, SelectionStands DEF OnTheWay, TypeOK
    <2>9. Entered(db, S, Repeated, current, DOMAIN packet.slots \cup {Entry.parameter})
      BY <1>1, <2>4, EnteredDecodes
    <2> QED BY <2>7, <2>8, <2>9
  <1> QED BY <1>4, <1>5

\* A container entered is one more, and was not before.
LEMMA WayEnters ==
  ASSUME TypeOK, OnTheWay, EnterContainer
  PROVE  OnTheWay'
  <1>1. InEntries /\ Repeating /\ Entry.kind = "container" /\ stack # <<>> /\ ~ AtEnd
    BY DEF EnterContainer, InEntries, Repeating
  <1>2. CASE Len(stack) > MAX_CONTAINER_DEPTH
    <2>1. Fail("Unsupported")
      BY <1>2 DEF EnterContainer
    <2> QED BY <2>1, WayFails
  <1>3. CASE ~ Len(stack) > MAX_CONTAINER_DEPTH
    <2> DEFINE f == Frame(Entry.child, EntryStart)
    <2>1. /\ stack' = Append(Repeated, f)
          /\ packet' = packet /\ db' = db /\ current' = current
          /\ phase' = phase /\ result' = result
      BY <1>3 DEF EnterContainer
    <2>2. phase # "idle" /\ db \in Databases
      BY <1>1 DEF InEntries, TypeOK
    <2>3. f \in Frames /\ f.container = Entry.child
      BY <1>1, EntryWellFormed, EntryStartIsNat DEF Frame, Frames
    <2>4. Repeated \in Seq(Frames)
      BY <1>1, RepeatedIsStack
    <2> HIDE DEF f
    <2> SUFFICES ASSUME ParametersDecodedOnce(db)
                 PROVE  \E S \in SUBSET Containers :
                          Entered(db, S, stack', current, DOMAIN packet.slots)
      BY <2>1, <2>2 DEF OnTheWay
    <2>5. PICK S \in SUBSET Containers : Entered(db, S, stack, current, DOMAIN packet.slots)
      BY <2>2 DEF OnTheWay
    <2>6. /\ TopUse \in Uses(db) /\ Used(db, TopUse) = Entry /\ TopUse[1] \in S
          /\ Passed(Repeated, TopUse)
          /\ Entered(db, S, Repeated, current, DOMAIN packet.slots)
          /\ Entry.child \notin S
      BY <1>1, <2>5, AtHand
    <2>7. Entered(db, S \cup {f.container}, Append(Repeated, f), current, DOMAIN packet.slots)
      BY <1>1, <2>2, <2>3, <2>4, <2>6, EnteredCalls
    <2>8. S \cup {f.container} \in SUBSET Containers
      BY <2>3 DEF Frames
    <2> QED BY <2>1, <2>7, <2>8
  <1> QED BY <1>2, <1>3

\* A call begins on the way: nothing is decoded, and the way is the root.
LEMMA WayBegins ==
  ASSUME TypeOK, NEW d \in Packets, DecodeInto(d)
  PROVE  OnTheWay'
  <1>1. /\ packet' = NewPacket(d, db.root) /\ current' = db.root /\ phase' = "entries"
        /\ stack' = <<Frame(db.root, 0)>> /\ db' = db
    BY DEF DecodeInto, Reset, NewPacket, TypeOK
  <1>2. db \in Databases /\ db.root \in Containers
    BY DatabaseAssumption DEF TypeOK
  <1>3. DOMAIN packet'.slots = {}
    BY <1>1 DEF NewPacket, NoSlots
  <1> DEFINE f == Frame(db.root, 0)
  <1>4. f \in Frames /\ f.container = db.root
    BY <1>2 DEF Frame, Frames
  <1> HIDE DEF f
  <1>5. ParametersDecodedOnce(db) => Entered(db, {db.root}, <<f>>, db.root, {})
    BY <1>2, <1>4, EnteredAtFirst
  <1>6. StillSelected(db, db.root, packet')
    BY <1>2, PathOfRoot DEF StillSelected
  <1>7. {db.root} \in SUBSET Containers
    BY <1>2
  <1> QED BY <1>1, <1>3, <1>5, <1>6, <1>7 DEF OnTheWay, f

\* A fixed value is behind once it is skipped,
LEMMA WaySkips ==
  ASSUME TypeOK, TypeOK', OnTheWay, SkipFixedValue
  PROVE  OnTheWay'
  <1>1. CASE ~ InBounds(packet.data, EntryStart, Entry.size)
    <2>1. Fail("Bits")
      BY <1>1 DEF SkipFixedValue
    <2> QED BY <2>1, WayFails
  <1>2. CASE InBounds(packet.data, EntryStart, Entry.size)
    <2>1. /\ stack' = Repeated /\ stack # <<>> /\ phase # "idle" /\ phase' = phase
          /\ db' = db /\ packet' = packet /\ current' = current
      BY <1>2 DEF SkipFixedValue, InEntries
    <2>2. /\ DOMAIN Repeated = DOMAIN stack
          /\ \A k \in DOMAIN Repeated : Further(stack[k], Repeated[k])
      BY <2>1, RepeatedGoesOn
    <2> QED BY <2>1, <2>2, WayGoesOn
  <1> QED BY <1>1, <1>2

\* an entry when the next one is begun,
LEMMA WayToNextEntry ==
  ASSUME TypeOK, TypeOK', OnTheWay, NextEntry
  PROVE  OnTheWay'
  <1>1. /\ stack # <<>> /\ phase # "idle" /\ phase' = phase
        /\ db' = db /\ packet' = packet /\ current' = current
        /\ stack' = [stack EXCEPT ![Len(stack)].entry = @ + 1,
                                  ![Len(stack)].repetition = 0]
    BY DEF NextEntry, InEntries
  <1>2. Len(stack) \in DOMAIN stack /\ Top \in Frames /\ stack \in Seq(Frames)
    BY <1>1, TopIsFrame DEF TypeOK
  <1>3. /\ DOMAIN stack' = DOMAIN stack
        /\ \A k \in DOMAIN stack : k # Len(stack) => stack'[k] = stack[k]
        /\ stack'[Len(stack)].container = Top.container
        /\ stack'[Len(stack)].entry = Top.entry + 1
    BY <1>1, <1>2 DEF Top, Frames
  <1>4. ASSUME NEW k \in DOMAIN stack' PROVE Further(stack[k], stack'[k])
    <2>1. CASE k = Len(stack)
      <3>1. Top.entry \in Nat
        BY <1>2 DEF Frames
      <3>2. Top.entry + 1 > Top.entry
        BY <3>1
      <3> QED BY <1>3, <2>1, <3>2 DEF Top, Further
    <2>2. CASE k # Len(stack)
      <3>1. stack[k] \in Frames
        BY <1>2, <1>3, ElementOfSeq, LenProperties
      <3> QED BY <1>3, <2>2, <3>1, FurtherStays
    <2> QED BY <2>1, <2>2
  <1> QED BY <1>1, <1>3, <1>4, WayGoesOn

\* and a container when its entries are.
LEMMA WayLeaves ==
  ASSUME TypeOK, TypeOK', OnTheWay, LeaveContainer
  PROVE  OnTheWay'
  <1>1. /\ stack # <<>> /\ phase # "idle" /\ phase' # "idle"
        /\ db' = db /\ packet' = packet /\ current' = current
        /\ stack' = SubSeq(stack, 1, Len(stack) - 1)
    BY DEF LeaveContainer, InEntries
  <1> DEFINE n == Len(stack) - 1
  <1>2. stack \in Seq(Frames) /\ Len(stack) \in Nat \ {0} /\ DOMAIN stack = 1 .. Len(stack)
    BY <1>1, TopIsFrame, LenProperties DEF TypeOK
  <1>3. n \in Nat /\ \A i \in 1 .. n : stack[i] \in Frames
    BY <1>2, ElementOfSeq
  <1>4. \A i \in 1 .. Len(stack) : stack[i] \in Frames
    BY <1>2, ElementOfSeq
  <1>5. 1 .. n \subseteq DOMAIN stack
    BY <1>2
  <1> HIDE DEF n
  <1>6. Len(stack') = IF 1 <= n THEN n - 1 + 1 ELSE 0
    BY <1>1, <1>3, SubSeqProperties DEF n
  <1>7. Len(stack') = n
    BY <1>3, <1>6
  <1>8. DOMAIN stack' = 1 .. n
    BY <1>7, LenProperties DEF TypeOK
  <1>9. \A k \in 1 .. n : stack'[k] = stack[k]
    <2>1. stack' = SubSeq(stack, 1, n)
      BY <1>1 DEF n
    <2>2. \A i \in 1 .. n - 1 + 1 : SubSeq(stack, 1, n)[i] = stack[1 + i - 1]
      BY <1>3, SubSeqProperties
    <2> QED BY <1>3, <2>1, <2>2
  <1>10. \A k \in DOMAIN stack' : Further(stack[k], stack'[k])
    BY <1>3, <1>8, <1>9, FurtherStays
  <1> QED BY <1>1, <1>5, <1>8, <1>10, WayGoesOn

\* The only inheritor that matches joins the way; the others do not hold.
LEMMA WayDescends ==
  ASSUME TypeOK, OnTheWay, Descend
  PROVE  OnTheWay'
  <1>1. PICK c \in Matching : Matching = {c} /\ current' = c /\ stack' = <<Frame(c, position)>>
    BY DEF Descend
  <1>2. /\ phase = "select" /\ phase' = "entries" /\ db' = db /\ packet' = packet /\ NoneFails
    BY DEF Descend, Selecting
  <1>3. db \in Databases /\ current \in Containers /\ stack = <<>> /\ position \in Nat
    BY <1>2 DEF TypeOK
  <1>4. IsSequence(Inheritors) /\ \A i \in DOMAIN Inheritors : Inheritors[i] \in Containers
    BY <1>3, DatabaseAssumption DEF Inheritors
  <1>5. DOMAIN Inheritors = 1 .. Len(Inheritors)
    BY <1>4, LenProperties DEF IsSequence
  <1>6. \A k : Contains(Inheritors, k) <=> \E i \in DOMAIN Inheritors : Inheritors[i] = k
    BY <1>5 DEF Contains
  <1>7. \A k : Contains(Inheritors, k) => Selects(k) \in {Yes, No}
    BY <1>2, <1>6 DEF NoneFails, Fails
  <1>8. \A k : Contains(Inheritors, k) => (Selects(k) = Yes <=> k = c)
    BY <1>1, <1>6 DEF Matching
  <1>9. Contains(Inheritors, c) /\ c \in Containers
    BY <1>1, <1>4, <1>6 DEF Matching
  <1> SUFFICES ASSUME ParametersDecodedOnce(db)
               PROVE  /\ StillSelected(db, c, packet)
                      /\ \E S \in SUBSET Containers :
                           Entered(db, S, stack', c, DOMAIN packet.slots)
    BY <1>1, <1>2 DEF OnTheWay
  <1>10. PICK S \in SUBSET Containers : Entered(db, S, <<>>, current, DOMAIN packet.slots)
    BY <1>2, <1>3 DEF OnTheWay
  <1>11. StillSelected(db, current, packet)
    BY <1>2 DEF OnTheWay
  <1> DEFINE f == Frame(c, position)
  <1>12. f \in Frames /\ f.container = c
    BY <1>3, <1>9 DEF Frame, Frames
  <1> HIDE DEF f
  <1>13. /\ Entered(db, S \cup {c}, <<f>>, c, DOMAIN packet.slots)
         /\ PathTo(db, c) = PathTo(db, current) \cup {c}
         /\ c \notin PathTo(db, current)
    <2>1. db.root \in PathTo(db, current) /\ Contains(db.inheritors[current], c)
      BY <1>9, <1>11 DEF StillSelected, Inheritors
    <2> QED BY <1>3, <1>9, <1>10, <1>12, <2>1, EnteredDescends
  <1>14. ASSUME NEW a \in PathTo(db, c) \ {c}, NEW k \in Containers,
                Contains(db.inheritors[a], k)
         PROVE  EvaluateAll(db.restriction[k], packet, {}) =
                  IF k \in PathTo(db, c) THEN Yes ELSE No
    <2>1. CASE a = current
      <3>1. k \notin PathTo(db, current)
        BY <1>3, <1>14, <2>1, NoWayBack
      <3>2. Selects(k) = IF k = c THEN Yes ELSE No
        BY <1>7, <1>8, <1>14, <2>1 DEF Inheritors
      <3> QED BY <1>13, <3>1, <3>2 DEF Selects
    <2>2. CASE a # current
      <3>1. a \in PathTo(db, current) \ {current} /\ a \in Containers
        BY <1>3, <1>13, <1>14, <2>2, PathIsClosed
      <3>2. k # c
        BY <1>3, <1>9, <1>14, <2>2, <3>1, TreeAssumption DEF Inheritors
      <3> QED BY <1>11, <1>13, <1>14, <3>1, <3>2 DEF StillSelected
    <2> QED BY <2>1, <2>2
  <1>15. StillSelected(db, c, packet)
    BY <1>11, <1>13, <1>14 DEF StillSelected
  <1>16. S \cup {c} \in SUBSET Containers
    BY <1>9
  <1> QED BY <1>1, <1>13, <1>15, <1>16 DEF f

\* Where none holds the way ends, with the container that is reported.
LEMMA WaySucceeds ==
  ASSUME TypeOK, OnTheWay, Succeed
  PROVE  OnTheWay'
  <1>1. /\ phase = "select" /\ phase' = "idle" /\ db' = db /\ current' = current
        /\ packet' = Finish(packet, current, position) /\ NoneFails /\ Matching = {}
    BY DEF Succeed, Selecting
  <1>2. /\ packet'.container = current /\ packet'.slots = packet.slots
        /\ packet'.values = packet.values
    BY <1>1 DEF Finish, TypeOK
  <1>3. SameValues(packet, packet')
    BY <1>2 DEF SameValues
  <1>4. \A criteria : EvaluateAll(criteria, packet', {}) = EvaluateAll(criteria, packet, {})
    BY <1>3, VerdictsAgree
  <1>5. db \in Databases /\ current \in Containers
    BY DEF TypeOK
  <1>6. IsSequence(Inheritors)
    BY <1>5, DatabaseAssumption DEF Inheritors
  <1>7. DOMAIN Inheritors = 1 .. Len(Inheritors)
    BY <1>6, LenProperties DEF IsSequence
  <1>8. ASSUME NEW k, Contains(Inheritors, k)
        PROVE  EvaluateAll(db.restriction[k], packet', {}) = No
    <2>1. PICK i \in DOMAIN Inheritors : Inheritors[i] = k
      BY <1>7, <1>8 DEF Contains
    <2>2. Selects(k) \in {Yes, No}
      BY <1>1, <2>1 DEF NoneFails, Fails
    <2>3. Selects(k) # Yes
      BY <1>1, <2>1 DEF Matching
    <2> QED BY <1>4, <2>2, <2>3 DEF Selects
  <1> SUFFICES ASSUME ParametersDecodedOnce(db)
               PROVE  /\ StillSelected(db, current, packet')
                      /\ \A k \in Containers : Contains(Inheritors, k) =>
                           EvaluateAll(db.restriction[k], packet', {}) = No
    BY <1>1, <1>2 DEF OnTheWay, Inheritors, Selects
  <1>9. StillSelected(db, current, packet)
    BY <1>1 DEF OnTheWay
  <1>10. StillSelected(db, current, packet')
    BY <1>4, <1>9 DEF StillSelected
  <1> QED BY <1>8, <1>10

\* Nothing is claimed of a decoder that has not been called.
LEMMA WayStarts == Init => OnTheWay
  BY DEF Init, OnTheWay

\* OnTheWay is inductive.
LEMMA WaySteps == TypeOK /\ ReadsAsMap /\ TypeOK' /\ OnTheWay /\ [Next]_vars => OnTheWay'
<1> SUFFICES ASSUME TypeOK, ReadsAsMap, TypeOK', OnTheWay, [Next]_vars PROVE OnTheWay'
  OBVIOUS
<1>1. CASE UNCHANGED vars
  BY <1>1 DEF vars, OnTheWay, Inheritors, Selects
<1>2. ASSUME NEW d \in Packets, DecodeInto(d) PROVE OnTheWay'
  BY <1>2, WayBegins
<1>3. CASE RejectLocation
  BY <1>3, WayFails DEF RejectLocation
<1>4. CASE DecodeParameter
  BY <1>4, WayDecodes
<1>5. CASE EnterContainer
  BY <1>5, WayEnters
<1>6. CASE SkipFixedValue
  BY <1>6, WaySkips
<1>7. CASE RejectEntry
  BY <1>7, WayFails DEF RejectEntry
<1>8. CASE NextEntry
  BY <1>8, WayToNextEntry
<1>9. CASE LeaveContainer
  BY <1>9, WayLeaves
<1>10. CASE RejectCriteria
  <2>1. PICK i \in DOMAIN Inheritors : Fail(Selects(Inheritors[i]))
    BY <1>10 DEF RejectCriteria
  <2>2. WellFormedCriteria(db.restriction[Inheritors[i]])
    BY DatabaseAssumption DEF TypeOK, Inheritors
  <2>3. Selects(Inheritors[i]) # "ok"
    BY <2>2, VerdictKinds DEF Selects, Verdicts, Yes, No
  <2> QED BY <2>1, <2>3, WayFails
<1>11. CASE RejectAmbiguous
  BY <1>11, WayFails DEF RejectAmbiguous
<1>12. CASE Descend
  BY <1>12, WayDescends
<1>13. CASE RejectUnrecognized
  BY <1>13, WayFails DEF RejectUnrecognized
<1>14. CASE Succeed
  BY <1>14, WaySucceeds
<1> QED BY <1>1, <1>2, <1>3, <1>4, <1>5, <1>6, <1>7, <1>8, <1>9, <1>10, <1>11, <1>12,
           <1>13, <1>14 DEF Next, Step

\* Later values never change what a packet was taken to be: where no parameter
\* is decoded twice, the container reported is the one, and the only one, that
\* the finished packet selects.
THEOREM SelectionIsFinal == Spec => []PathStillSelected
<1>1. TypeOK /\ OnTheWay => PathStillSelected
  <2> SUFFICES ASSUME TypeOK, OnTheWay, phase = "idle", result = "ok", ParametersDecodedOnce(db),
                      NEW path, path = PathTo(db, current)
               PROVE  /\ packet.container = current /\ db.root \in path
                      /\ \A a \in path :
                           {k \in ToSet(db.inheritors[a]) :
                              EvaluateAll(db.restriction[k], packet, {}) = Yes}
                           = {k \in path : Contains(db.inheritors[a], k)}
    BY DEF PathStillSelected, OnTheWay
  <2>1. db \in Databases /\ current \in Containers
    BY DEF TypeOK
  <2>2. /\ packet.container = current /\ StillSelected(db, current, packet)
        /\ \A k \in Containers : Contains(Inheritors, k) => Selects(k) = No
    BY DEF OnTheWay
  <2>3. path \subseteq Containers
    BY <2>1, PathIsClosed
  <2>4. ASSUME NEW a \in path, NEW k
        PROVE  /\ k \in ToSet(db.inheritors[a]) <=> Contains(db.inheritors[a], k)
               /\ Contains(db.inheritors[a], k) => k \in Containers
    <3>1. /\ IsSequence(db.inheritors[a])
          /\ \A i \in DOMAIN db.inheritors[a] : db.inheritors[a][i] \in Containers
      BY <2>1, <2>3, DatabaseAssumption
    <3>2. DOMAIN db.inheritors[a] = 1 .. Len(db.inheritors[a])
      BY <3>1, LenProperties DEF IsSequence
    <3> QED BY <3>1, <3>2 DEF ToSet, Contains
  <2>5. ASSUME NEW a \in path, NEW k, Contains(db.inheritors[a], k)
        PROVE  EvaluateAll(db.restriction[k], packet, {}) = Yes <=> k \in path
    <3>1. k \in Containers
      BY <2>4, <2>5
    <3>2. CASE a = current
      <4>1. Selects(k) = No
        BY <2>2, <2>5, <3>1, <3>2 DEF Inheritors
      <4>2. k \notin path
        BY <2>1, <2>5, <3>1, <3>2, NoWayBack
      <4> QED BY <4>1, <4>2 DEF Selects, Yes, No
    <3>3. CASE a # current
      BY <2>2, <2>5, <3>1, <3>3 DEF StillSelected, Yes, No
    <3> QED BY <3>2, <3>3
  <2> QED BY <2>2, <2>4, <2>5 DEF StillSelected
<1> QED
  BY <1>1, WayStarts, WaySteps, Typing, BufferReadsAsMap, PTL DEF Spec

-------------------------------------------------------------------------------
\* r has the walks from w on, one for each instruction.
Runs(r, b, is, w) ==
  /\ r[0] = w
  /\ \A k \in 1 .. Len(is) : r[k] = Execute(b, is[k], r[k - 1])
  /\ Run(b, is, w) = r[Len(is)]

\* A list of instructions is executed one by one.
LEMMA RunIs ==
  ASSUME NEW b, NEW is, IsList(is), NEW w
  PROVE  \E r : Runs(r, b, is, w)
  <1> DEFINE n == Len(is)
             One(k, x) == Execute(b, is[k], x)
             Solves(f) == f = [k \in 0 .. n |-> IF k = 0 THEN w ELSE One(k, f[k - 1])]
             rec == CHOOSE f : Solves(f)
  <1>1. n \in Nat
    BY DEF IsList
  <1> HIDE DEF n, One
  <1>2. HasChain(n, w, One)
    BY <1>1, FiniteRecursion
  <1>3. rec = [k \in 0 .. n |-> IF k = 0 THEN w ELSE One(k, rec[k - 1])]
    BY <1>2 DEF HasChain
  <1>4. Run(b, is, w) = rec[n]
    BY DEF Run, With, One, n
  <1> HIDE DEF rec
  <1>5. rec[0] = w
    BY <1>1, <1>3
  <1>6. ASSUME NEW k \in 1 .. n PROVE rec[k] = Execute(b, is[k], rec[k - 1])
    <2>1. k \in 0 .. n /\ k # 0
      BY <1>1
    <2>2. rec[k] = One(k, rec[k - 1])
      BY <1>3, <2>1
    <2> QED BY <2>2 DEF One
  <1> QED BY <1>4, <1>5, <1>6 DEF n, Runs

\* Nothing to do.
LEMMA RunOfNothing ==
  ASSUME NEW b, NEW w
  PROVE  Run(b, <<>>, w) = w
  <1>1. IsList(<<>>) /\ Len(<<>>) = 0
    BY DEF IsList
  <1>2. PICK r : Runs(r, b, <<>>, w)
    BY <1>1, RunIs
  <1> QED BY <1>1, <1>2 DEF Runs

\* One thing to do.
LEMMA RunOfOne ==
  ASSUME NEW b, NEW i, NEW w
  PROVE  Run(b, <<i>>, w) = Execute(b, i, w)
  <1>1. IsList(<<i>>) /\ Len(<<i>>) = 1 /\ <<i>>[1] = i
    BY DEF IsList
  <1> DEFINE is == <<i>>
  <1> HIDE DEF is
  <1>2. PICK r : Runs(r, b, is, w)
    BY <1>1, RunIs DEF is
  <1> USE DEF Runs
  <1>3. Len(is) = 1 /\ is[1] = i
    BY <1>1 DEF is
  <1>4. 1 \in 1 .. Len(is) /\ 1 - 1 = 0
    BY <1>3
  <1>5. r[1] = Execute(b, is[1], r[0])
    BY <1>2, <1>4
  <1> QED BY <1>2, <1>3, <1>5 DEF is

\* One list after the other.
LEMMA RunOfBoth ==
  ASSUME NEW b, NEW p, IsList(p), NEW q, IsList(q), NEW w
  PROVE  Run(b, p \o q, w) = Run(b, q, Run(b, p, w))
  <1> DEFINE n == Len(p)
             m == Len(q)
             pq == p \o q
  <1>1. n \in Nat /\ m \in Nat
    BY DEF IsList
  <1>2. /\ IsList(pq) /\ Len(pq) = n + m
        /\ \A k \in 1 .. n : pq[k] = p[k]
        /\ \A k \in 1 .. m : pq[n + k] = q[k]
    <2>1. IsList(p) /\ IsList(q)
      OBVIOUS
    <2> QED BY <2>1, ListConcat
  <1> HIDE DEF pq
  <1>3. PICK r : Runs(r, b, pq, w)
    BY <1>2, RunIs
  <1>4. PICK s : Runs(s, b, p, w)
    BY RunIs
  <1>5. PICK t : Runs(t, b, q, Run(b, p, w))
    BY RunIs
  <1> USE DEF Runs
  <1> HIDE DEF n, m
  <1> DEFINE S == {k \in Nat : r[k] = s[k]}
             T == {k \in Nat : r[n + k] = t[k]}
  <1>6. n \in S
    <2>1. 0 \in S
      BY <1>3, <1>4
    <2>2. ASSUME NEW k \in 1 .. n, k - 1 \in S PROVE k \in S
      <3>1. k \in 1 .. n + m /\ k \in Nat
        BY <1>1
      <3>2. r[k] = Execute(b, pq[k], r[k - 1])
        BY <1>2, <1>3, <3>1
      <3>3. s[k] = Execute(b, p[k], s[k - 1])
        BY <1>4 DEF n
      <3>4. pq[k] = p[k] /\ r[k - 1] = s[k - 1]
        BY <1>2, <2>2
      <3> QED BY <3>1, <3>2, <3>3, <3>4
    <2> HIDE DEF S
    <2>3. 0 .. n \subseteq S
      BY <1>1, <2>1, <2>2, InductionTo
    <2> QED BY <1>1, <2>3
  <1>7. m \in T
    <2>1. 0 \in T
      <3>1. n + 0 = n
        BY <1>1
      <3>2. r[n] = s[n]
        BY <1>6
      <3>3. t[0] = s[n]
        BY <1>4, <1>5 DEF n
      <3> QED BY <3>1, <3>2, <3>3
    <2>2. ASSUME NEW k \in 1 .. m, k - 1 \in T PROVE k \in T
      <3>1. n + k \in 1 .. n + m /\ k \in Nat /\ n + (k - 1) = (n + k) - 1
        BY <1>1
      <3>2. r[n + k] = Execute(b, pq[n + k], r[(n + k) - 1])
        BY <1>2, <1>3, <3>1
      <3>3. t[k] = Execute(b, q[k], t[k - 1])
        BY <1>5 DEF m
      <3>4. r[n + (k - 1)] = t[k - 1]
        BY <2>2
      <3>5. pq[n + k] = q[k] /\ r[(n + k) - 1] = t[k - 1]
        BY <1>2, <3>1, <3>4
      <3> QED BY <3>1, <3>2, <3>3, <3>5
    <2> HIDE DEF T
    <2>3. 0 .. m \subseteq T
      BY <1>1, <2>1, <2>2, InductionTo
    <2> QED BY <1>1, <2>3
  <1>8. r[n + m] = t[m]
    BY <1>7
  <1>9. Run(b, pq, w) = t[m]
    BY <1>2, <1>3, <1>8
  <1> QED BY <1>5, <1>9 DEF pq, m

\* An error ends it all.
LEMMA RunIsStopped ==
  ASSUME NEW b, NEW is, IsList(is), NEW w, w.error # "none"
  PROVE  Run(b, is, w) = w
  <1>1. PICK r : Runs(r, b, is, w)
    BY RunIs
  <1> USE DEF Runs
  <1> DEFINE n == Len(is)
             S == {k \in Nat : r[k] = w}
  <1>2. n \in Nat
    BY DEF IsList
  <1>3. 0 \in S
    BY <1>1
  <1>4. ASSUME NEW k \in 1 .. n, k - 1 \in S PROVE k \in S
    <2>1. r[k] = Execute(b, is[k], w)
      BY <1>1, <1>4
    <2>2. r[k] = w
      BY <2>1 DEF Execute
    <2> QED BY <1>2, <2>2
  <1>5. n \in S
    <2> HIDE DEF S, n
    <2>1. 0 .. n \subseteq S
      BY <1>2, <1>3, <1>4, InductionTo
    <2> QED BY <1>2, <2>1
  <1> QED BY <1>1, <1>5

AllLists(f, D) == \A x \in D : IsList(f[x])

\* The instructions of one thing are a list,
LEMMA OneIsList ==
  ASSUME NEW i
  PROVE  IsList(<<i>>)
  BY DEF IsList

\* a repetition has a list of them,
LEMMA OnceIsList ==
  ASSUME NEW nested, AllLists(nested, Containers), NEW e,
         e.kind = "container" => e.child \in Containers
  PROVE  IsList(Once(e, nested))
  <1>1. CASE e.kind = "container"
    <2>1. IsList(Enter)
      BY OneIsList DEF Enter
    <2>2. IsList(nested[e.child])
      BY <1>1 DEF AllLists
    <2>3. IsList(Enter \o nested[e.child])
      BY <2>1, <2>2, ListConcat
    <2> QED BY <1>1, <2>3 DEF Once
  <1>2. CASE e.kind # "container"
    BY <1>2, OneIsList DEF Once, Perform
  <1> QED BY <1>1, <1>2

\* the repetitions that are left have, one after the other,
LEMMA RepetitionsAre ==
  ASSUME NEW nested, AllLists(nested, Containers), NEW e, e.repeat \in Nat,
         e.kind = "container" => e.child \in Containers
  PROVE  /\ Repetitions(e, nested)[0] = <<>>
         /\ \A n \in 1 .. e.repeat :
              Repetitions(e, nested)[n] = Once(e, nested) \o Repetitions(e, nested)[n - 1]
         /\ AllLists(Repetitions(e, nested), 0 .. e.repeat)
  <1> DEFINE m == e.repeat
             One(k, x) == Once(e, nested) \o x
             rec == CHOOSE f : f = [k \in 0 .. m |-> IF k = 0 THEN <<>> ELSE One(k, f[k - 1])]
             S == {k \in Nat : IsList(rec[k])}
  <1>0. IsList(Once(e, nested))
    BY OnceIsList
  <1>1. m \in Nat
    OBVIOUS
  <1> HIDE DEF m, One
  <1>2. HasChain(m, <<>>, One)
    <2> DEFINE none == <<>>
    <2> HIDE DEF none
    <2>1. HasChain(m, none, One)
      BY <1>1, FiniteRecursion
    <2> QED BY <2>1 DEF none
  <1>3. rec = [k \in 0 .. m |-> IF k = 0 THEN <<>> ELSE One(k, rec[k - 1])]
    BY <1>2 DEF HasChain
  <1>4. Repetitions(e, nested) = rec
    BY DEF Repetitions, One, m
  <1> HIDE DEF rec
  <1>5. rec[0] = <<>>
    BY <1>1, <1>3
  <1>6. ASSUME NEW k \in 1 .. m PROVE rec[k] = Once(e, nested) \o rec[k - 1]
    <2>1. k \in 0 .. m /\ k # 0
      BY <1>1
    <2>2. rec[k] = One(k, rec[k - 1])
      BY <1>3, <2>1
    <2> QED BY <2>2 DEF One
  <1>7. 0 \in S
    BY <1>5 DEF IsList
  <1>8. ASSUME NEW k \in 1 .. m, k - 1 \in S PROVE k \in S
    <2>1. IsList(rec[k - 1]) /\ k \in Nat
      BY <1>1, <1>8
    <2>2. IsList(Once(e, nested) \o rec[k - 1])
      BY <1>0, <2>1, ListConcat
    <2> QED BY <1>6, <2>1, <2>2
  <1>9. AllLists(rec, 0 .. m)
    <2>1. 0 .. m \subseteq S
      <3> HIDE DEF S
      <3> QED BY <1>1, <1>7, <1>8, InductionTo
    <2> QED BY <2>1 DEF AllLists
  <1> QED BY <1>4, <1>5, <1>6, <1>9 DEF m

\* What is known of the entries of a container.
GoodEntries(es) ==
  /\ IsList(es)
  /\ \A i \in 1 .. Len(es) : /\ es[i].repeat \in Nat
                             /\ es[i].kind = "container" => es[i].child \in Containers

\* All of an entry, and then more.
WholeThen(e, nested, rest) == PlaceAt(e) \o (Repetitions(e, nested)[e.repeat] \o rest)

\* and so have the entries that are left.
LEMMA EntriesAre ==
  ASSUME NEW nested, AllLists(nested, Containers), NEW es, GoodEntries(es)
  PROVE  /\ Entries(es, nested)[0] = Leave
         /\ \A n \in 1 .. Len(es) : \A e : e = es[Len(es) + 1 - n] =>
              Entries(es, nested)[n] = WholeThen(e, nested, Entries(es, nested)[n - 1])
         /\ AllLists(Entries(es, nested), 0 .. Len(es))
  <1> DEFINE m == Len(es)
             One(k, x) == PlaceAt(es[m + 1 - k])
                          \o (Repetitions(es[m + 1 - k], nested)[es[m + 1 - k].repeat] \o x)
             rec == CHOOSE f : f = [k \in 0 .. m |-> IF k = 0 THEN Leave ELSE One(k, f[k - 1])]
             S == {k \in Nat : IsList(rec[k])}
  <1>1. m \in Nat
    BY DEF GoodEntries, IsList
  <1>2. ASSUME NEW k \in 1 .. m, NEW x, IsList(x) PROVE IsList(One(k, x))
    <2> DEFINE e == es[m + 1 - k]
               t == Repetitions(e, nested)[e.repeat]
    <2>1. m + 1 - k \in 1 .. m
      BY <1>1
    <2>2. e.repeat \in Nat /\ (e.kind = "container" => e.child \in Containers)
      BY <2>1 DEF GoodEntries
    <2> HIDE DEF e
    <2>3. e.repeat \in 0 .. e.repeat
      BY <2>2
    <2>4. IsList(t)
      BY <2>2, <2>3, RepetitionsAre DEF AllLists
    <2>5. IsList(x)
      BY <1>2
    <2> HIDE DEF t
    <2>6. IsList(t \o x)
      BY <2>4, <2>5, ListConcat
    <2>7. IsList(PlaceAt(e))
      BY OneIsList DEF PlaceAt
    <2>8. IsList(PlaceAt(e) \o (t \o x))
      BY <2>6, <2>7, ListConcat
    <2> QED BY <2>8 DEF e, t
  <1> DEFINE end == Leave
  <1> HIDE DEF m, One, end
  <1>3. HasChain(m, end, One)
    BY <1>1, FiniteRecursion
  <1>4. rec = [k \in 0 .. m |-> IF k = 0 THEN Leave ELSE One(k, rec[k - 1])]
    BY <1>3 DEF HasChain, end
  <1>5. Entries(es, nested) = rec
    BY DEF Entries, One, m
  <1> HIDE DEF rec
  <1>6. rec[0] = Leave
    BY <1>1, <1>4
  <1>7. ASSUME NEW k \in 1 .. m PROVE rec[k] = One(k, rec[k - 1])
    <2>1. k \in 0 .. m /\ k # 0
      BY <1>1
    <2> QED BY <1>4, <2>1
  <1>8. 0 \in S
    BY <1>6, OneIsList DEF Leave
  <1>9. ASSUME NEW k \in 1 .. m, k - 1 \in S PROVE k \in S
    <2>1. IsList(rec[k - 1]) /\ k \in Nat
      BY <1>1, <1>9
    <2>2. IsList(One(k, rec[k - 1]))
      BY <1>2, <2>1
    <2> QED BY <1>7, <2>1, <2>2
  <1>10. AllLists(rec, 0 .. m)
    <2>1. 0 .. m \subseteq S
      <3> HIDE DEF S
      <3> QED BY <1>1, <1>8, <1>9, InductionTo
    <2> QED BY <2>1 DEF AllLists
  <1> QED BY <1>5, <1>6, <1>7, <1>10 DEF m, One, WholeThen

\* What the loader lets through are such entries.
LEMMA EntriesAreGood ==
  ASSUME NEW b \in Databases, NEW c \in Containers
  PROVE  GoodEntries(b.entries[c])
  <1> DEFINE es == b.entries[c]
  <1>1. IsSequence(es)
    BY DatabaseAssumption
  <1>2. IsList(es) /\ DOMAIN es = 1 .. Len(es)
    BY <1>1, SeqIsList, LenProperties DEF IsSequence
  <1>3. ASSUME NEW i \in DOMAIN es
        PROVE  es[i].repeat \in Nat /\ (es[i].kind = "container" => es[i].child \in Containers)
    BY DatabaseAssumption
  <1> HIDE DEF es
  <1>4. GoodEntries(es)
    BY <1>2, <1>3 DEF GoodEntries
  <1> QED BY <1>4 DEF es

\* The deepest containers are given up; any other has what its entries have.
LEMMA InstructionsAre ==
  ASSUME NEW b \in Databases
  PROVE  /\ \A c \in Containers : Instructions(b, 0)[c] = GiveUp
         /\ \A l \in 1 .. MAX_CONTAINER_DEPTH + 1, c \in Containers :
              Instructions(b, l)[c] =
                Entries(b.entries[c], Instructions(b, l - 1))[Len(b.entries[c])]
         /\ \A l \in 0 .. MAX_CONTAINER_DEPTH + 1 : AllLists(Instructions(b, l), Containers)
  <1> DEFINE m == MAX_CONTAINER_DEPTH + 1
             base == [c \in Containers |-> GiveUp]
             One(k, x) == [c \in Containers |-> Entries(b.entries[c], x)[Len(b.entries[c])]]
             rec == CHOOSE f : f = [k \in 0 .. m |-> IF k = 0 THEN base ELSE One(k, f[k - 1])]
             S == {k \in Nat : AllLists(rec[k], Containers)}
             raw == CHOOSE p : p = [l \in 0 .. m |->
                      [c \in Containers |->
                        IF l = 0 THEN GiveUp
                        ELSE Entries(b.entries[c], p[l - 1])[Len(b.entries[c])]]]
  <1>1. m \in Nat
    BY DepthAssumption
  <1>2. raw = rec
    <2>1. ASSUME NEW f
          PROVE  [l \in 0 .. m |->
                      [c \in Containers |->
                        IF l = 0 THEN GiveUp
                        ELSE Entries(b.entries[c], f[l - 1])[Len(b.entries[c])]]]
                 = [k \in 0 .. m |-> IF k = 0 THEN base ELSE One(k, f[k - 1])]
      <3> HIDE DEF m
      <3>1. ASSUME NEW l \in 0 .. m
            PROVE  [c \in Containers |->
                        IF l = 0 THEN GiveUp
                        ELSE Entries(b.entries[c], f[l - 1])[Len(b.entries[c])]]
                   = IF l = 0 THEN base ELSE One(l, f[l - 1])
        <4>1. CASE l = 0
          BY <4>1
        <4>2. CASE l # 0
          BY <4>2
        <4> QED BY <4>1, <4>2
      <3> QED BY <3>1
    <2> HIDE DEF m, base, One
    <2> QED BY <2>1
  <1>3. \A l : Instructions(b, l) = raw[l]
    BY DEF Instructions
  <1> HIDE DEF m, base, One, raw
  <1>4. HasChain(m, base, One)
    BY <1>1, FiniteRecursion
  <1>5. rec = [k \in 0 .. m |-> IF k = 0 THEN base ELSE One(k, rec[k - 1])]
    BY <1>4 DEF HasChain
  <1> HIDE DEF rec
  <1>6. rec[0] = base
    BY <1>1, <1>5
  <1>7. ASSUME NEW k \in 1 .. m PROVE rec[k] = One(k, rec[k - 1])
    <2>1. k \in 0 .. m /\ k # 0
      BY <1>1
    <2> QED BY <1>5, <2>1
  <1>8. ASSUME NEW k \in 1 .. m, NEW c \in Containers
        PROVE  rec[k][c] = Entries(b.entries[c], rec[k - 1])[Len(b.entries[c])]
    BY <1>7 DEF One
  <1>9. \A c \in Containers : rec[0][c] = GiveUp
    BY <1>6 DEF base
  <1>10. 0 \in S
    BY <1>9, OneIsList DEF GiveUp, AllLists
  <1>11. ASSUME NEW k \in 1 .. m, k - 1 \in S PROVE k \in S
    <2>1. AllLists(rec[k - 1], Containers) /\ k \in Nat
      BY <1>1, <1>11
    <2>2. ASSUME NEW c \in Containers PROVE IsList(rec[k][c])
      <3> DEFINE es == b.entries[c]
      <3>1. GoodEntries(es)
        BY EntriesAreGood
      <3> HIDE DEF es
      <3>2. Len(es) \in 0 .. Len(es)
        BY <3>1 DEF GoodEntries, IsList
      <3>3. IsList(Entries(es, rec[k - 1])[Len(es)])
        BY <2>1, <3>1, <3>2, EntriesAre DEF AllLists
      <3> QED BY <1>8, <3>3 DEF es
    <2> QED BY <2>1, <2>2 DEF AllLists
  <1>12. 0 .. m \subseteq S
    <2> HIDE DEF S
    <2> QED BY <1>1, <1>10, <1>11, InductionTo
  <1>13. \A l \in 0 .. m : AllLists(rec[l], Containers)
    BY <1>12
  <1> QED BY <1>2, <1>3, <1>8, <1>9, <1>13 DEF m

\* The descent goes on round by round,
LEMMA DescentIs ==
  ASSUME NEW b, NEW d
  PROVE  /\ Cardinality(Containers) \in Nat
         /\ Descent(b, d)[0] = Reached(b.root, Walk(NewPacket(d, b.root), 0, <<>>), "none")
         /\ \A n \in 1 .. Cardinality(Containers) :
              Descent(b, d)[n] = Round(b, Descent(b, d)[n - 1])
  <1> DEFINE m == Cardinality(Containers)
             base == Reached(b.root, Walk(NewPacket(d, b.root), 0, <<>>), "none")
             One(k, x) == Round(b, x)
             rec == CHOOSE f : f = [k \in 0 .. m |-> IF k = 0 THEN base ELSE One(k, f[k - 1])]
  <1>1. m \in Nat
    BY ContainersAssumption, FS_CardinalityType
  <1>2. Descent(b, d) = rec
    BY DEF Descent, With
  <1> HIDE DEF m, base, One
  <1>3. HasChain(m, base, One)
    BY <1>1, FiniteRecursion
  <1>4. rec = [k \in 0 .. m |-> IF k = 0 THEN base ELSE One(k, rec[k - 1])]
    BY <1>3 DEF HasChain
  <1> HIDE DEF rec
  <1>5. rec[0] = base
    BY <1>1, <1>4
  <1>6. ASSUME NEW k \in 1 .. m PROVE rec[k] = Round(b, rec[k - 1])
    <2>1. k \in 0 .. m /\ k # 0
      BY <1>1
    <2>2. rec[k] = One(k, rec[k - 1])
      BY <1>4, <2>1
    <2> QED BY <2>2 DEF One
  <1> QED BY <1>1, <1>2, <1>5, <1>6 DEF m, base

\* until there is an answer: that is the outcome.
LEMMA OutcomeIs ==
  ASSUME NEW b, NEW d, NEW n \in 0 .. Cardinality(Containers),
         NEW s, s = Descent(b, d)[n], s.answer # "none"
  PROVE  Outcome(b, d) = Reply(s.answer, s.walk.pkt)
  <1> DEFINE m == Cardinality(Containers)
             S == {k \in Nat : n <= k => Descent(b, d)[k] = s}
  <1>1. m \in Nat /\ n \in Nat /\ n <= m
    BY DescentIs
  <1> HIDE DEF m
  <1>2. 0 \in S
    BY <1>1
  <1>3. ASSUME NEW k \in 1 .. m, k - 1 \in S PROVE k \in S
    <2>1. CASE n <= k - 1
      <3>1. Descent(b, d)[k - 1] = s
        BY <1>3, <2>1
      <3>2. Descent(b, d)[k] = Round(b, Descent(b, d)[k - 1])
        BY DescentIs DEF m
      <3>3. Descent(b, d)[k] = s
        BY <3>1, <3>2 DEF Round
      <3> QED BY <1>1, <3>3
    <2>2. CASE n = k
      BY <1>1, <2>2
    <2>3. CASE ~ n <= k
      BY <1>1, <2>3
    <2>4. n <= k - 1 \/ n = k \/ ~ n <= k
      BY <1>1
    <2> QED BY <2>1, <2>2, <2>3, <2>4
  <1>4. m \in S
    <2> HIDE DEF S
    <2>1. 0 .. m \subseteq S
      BY <1>1, <1>2, <1>3, InductionTo
    <2> QED BY <1>1, <2>1
  <1>5. Descent(b, d)[m] = s
    BY <1>1, <1>4
  <1> QED BY <1>5 DEF Outcome, With, m

\* How many containers have been come to.
Depth(b, c) == Cardinality(PathTo(b, c))

\* Some have been come to, and no more than there are;
LEMMA DepthIs ==
  ASSUME NEW b \in Databases, NEW c \in Containers
  PROVE  /\ IsFiniteSet(PathTo(b, c))
         /\ Depth(b, c) \in 1 .. Cardinality(Containers)
  <1>1. PathTo(b, c) \subseteq Containers /\ c \in PathTo(b, c)
    BY PathIsClosed
  <1>2. /\ IsFiniteSet(PathTo(b, c))
        /\ Cardinality(PathTo(b, c)) <= Cardinality(Containers)
    BY <1>1, ContainersAssumption, FS_Subset
  <1>3. Cardinality(PathTo(b, c)) \in Nat /\ Cardinality(Containers) \in Nat
    BY <1>2, ContainersAssumption, FS_CardinalityType
  <1>4. Cardinality(PathTo(b, c)) # 0
    BY <1>1, <1>2, FS_EmptySet
  <1> QED BY <1>2, <1>3, <1>4 DEF Depth

\* the root is the first,
LEMMA DepthOfRoot ==
  ASSUME NEW b \in Databases
  PROVE  Depth(b, b.root) = 1
  <1>1. b.root \in Containers
    BY DatabaseAssumption
  <1> QED BY <1>1, PathOfRoot, FS_Singleton DEF Depth

\* and an inheritor is one more.
LEMMA DepthGrows ==
  ASSUME NEW b \in Databases, NEW a \in Containers, NEW c \in Containers,
         Contains(b.inheritors[a], c), c # b.root
  PROVE  Depth(b, c) = Depth(b, a) + 1
  <1>1. PathTo(b, c) = PathTo(b, a) \cup {c}
    BY PathGrows
  <1>2. c \notin PathTo(b, a) /\ IsFiniteSet(PathTo(b, a))
    BY NoWayBack, DepthIs
  <1>3. Cardinality(PathTo(b, a) \cup {c}) = Cardinality(PathTo(b, a)) + 1
    BY <1>2, FS_AddElement
  <1> QED BY <1>1, <1>3 DEF Depth

-------------------------------------------------------------------------------
\* An entry that cannot be located.
Nowhere(e) == \E l \in e.location : l.reference \in {"containerEnd", "nextEntry"}

Left(e, f) == IF e.repeat > f.repetition THEN e.repeat - f.repetition ELSE 0

\* What is left to do in an active call of decode_container.
Doing(b, f, nested) ==
  LET es == b.entries[f.container]
      e  == es[f.entry]
  IN IF f.entry > Len(es) THEN Leave
     ELSE (IF f.repetition = 0 \/ Nowhere(e) THEN PlaceAt(e) ELSE <<>>)
          \o (Repetitions(e, nested)[Left(e, f)] \o Entries(es, nested)[Len(es) - f.entry])

\* The rest of an entry, and then more.
RestThen(e, f, nested, more) ==
  (IF f.repetition = 0 \/ Nowhere(e) THEN PlaceAt(e) ELSE <<>>)
  \o (Repetitions(e, nested)[Left(e, f)] \o more)

\* The same, of an entry that is there.
LEMMA DoingAnEntry ==
  ASSUME NEW b \in Databases, NEW f \in Frames, NEW es, es = b.entries[f.container],
         NEW e, e = es[f.entry], f.entry <= Len(es),
         NEW nested, AllLists(nested, Containers)
  PROVE  /\ GoodEntries(es) /\ Len(es) \in Nat
         /\ e.repeat \in Nat /\ (e.kind = "container" => e.child \in Containers)
         /\ Left(e, f) \in 0 .. e.repeat
         /\ IsList(Repetitions(e, nested)[Left(e, f)])
         /\ Len(es) - f.entry \in 0 .. Len(es)
         /\ IsList(Entries(es, nested)[Len(es) - f.entry])
         /\ IsList(Repetitions(e, nested)[Left(e, f)] \o Entries(es, nested)[Len(es) - f.entry])
         /\ IsList(PlaceAt(e))
         /\ Doing(b, f, nested) = RestThen(e, f, nested, Entries(es, nested)[Len(es) - f.entry])
  <1>1. f.container \in Containers /\ f.entry \in Nat /\ f.entry > 0 /\ f.repetition \in Nat
    BY DEF Frames
  <1>2. GoodEntries(es)
    BY <1>1, EntriesAreGood
  <1>3. Len(es) \in Nat
    BY <1>2 DEF GoodEntries, IsList
  <1>4. f.entry \in 1 .. Len(es)
    BY <1>1, <1>3
  <1>5. e.repeat \in Nat /\ (e.kind = "container" => e.child \in Containers)
    BY <1>2, <1>4 DEF GoodEntries
  <1>6. Left(e, f) \in 0 .. e.repeat
    BY <1>1, <1>5 DEF Left
  <1>7. IsList(Repetitions(e, nested)[Left(e, f)])
    BY <1>5, <1>6, RepetitionsAre DEF AllLists
  <1>8. Len(es) - f.entry \in 0 .. Len(es)
    BY <1>1, <1>3, <1>4
  <1>9. IsList(Entries(es, nested)[Len(es) - f.entry])
    BY <1>2, <1>8, EntriesAre DEF AllLists
  <1>10. IsList(Repetitions(e, nested)[Left(e, f)] \o Entries(es, nested)[Len(es) - f.entry])
    BY <1>7, <1>9, ListConcat
  <1>11. ~ f.entry > Len(es)
    BY <1>1, <1>3, <1>4
  <1>12. Doing(b, f, nested) = RestThen(e, f, nested, Entries(es, nested)[Len(es) - f.entry])
    BY <1>11 DEF Doing, RestThen
  <1> QED BY <1>2, <1>3, <1>5, <1>6, <1>7, <1>8, <1>9, <1>10, <1>12, OneIsList DEF PlaceAt

\* What is left is a list.
LEMMA DoingIsList ==
  ASSUME NEW b \in Databases, NEW f \in Frames, NEW nested, AllLists(nested, Containers)
  PROVE  IsList(Doing(b, f, nested))
  <1> DEFINE es == b.entries[f.container]
             e  == es[f.entry]
  <1>1. CASE f.entry > Len(es)
    BY <1>1, OneIsList DEF Doing, Leave
  <1>2. CASE f.entry <= Len(es)
    <2> DEFINE head == IF f.repetition = 0 \/ Nowhere(e) THEN PlaceAt(e) ELSE <<>>
               rest == Repetitions(e, nested)[Left(e, f)] \o Entries(es, nested)[Len(es) - f.entry]
    <2>1. Doing(b, f, nested) = head \o rest /\ IsList(rest) /\ IsList(PlaceAt(e))
      BY <1>2, DoingAnEntry DEF RestThen
    <2>2. IsList(head)
      <3>1. IsList(<<>>)
        BY DEF IsList
      <3> QED BY <2>1, <3>1
    <2> HIDE DEF head, rest
    <2>3. IsList(head \o rest)
      BY <2>1, <2>2, ListConcat
    <2> QED BY <2>1, <2>3
  <1>3. f.container \in Containers /\ f.entry \in Nat
    BY DEF Frames
  <1>4. Len(es) \in Nat
    BY <1>3, EntriesAreGood DEF GoodEntries, IsList
  <1>5. f.entry > Len(es) \/ f.entry <= Len(es)
    BY <1>3, <1>4
  <1> QED BY <1>1, <1>2, <1>5

\* Before the first repetition of an entry all of it is left, and all behind it.
LEMMA DoingFrom ==
  ASSUME NEW b \in Databases, NEW f \in Frames, NEW es, es = b.entries[f.container],
         f.repetition = 0, f.entry <= Len(es) + 1,
         NEW nested, AllLists(nested, Containers)
  PROVE  Doing(b, f, nested) = Entries(es, nested)[Len(es) + 1 - f.entry]
  <1>1. f.container \in Containers /\ f.entry \in Nat /\ f.entry > 0
    BY DEF Frames
  <1>2. GoodEntries(es) /\ Len(es) \in Nat
    BY <1>1, EntriesAreGood DEF GoodEntries, IsList
  <1>3. CASE f.entry = Len(es) + 1
    <2>1. Len(es) + 1 - f.entry = 0 /\ f.entry > Len(es)
      BY <1>1, <1>2, <1>3
    <2>2. Doing(b, f, nested) = Leave
      BY <2>1 DEF Doing
    <2>3. Entries(es, nested)[0] = Leave
      BY <1>2, EntriesAre
    <2> QED BY <2>1, <2>2, <2>3
  <1>4. CASE f.entry <= Len(es)
    <2> DEFINE m == Len(es)
               k == f.entry
               n == m + 1 - k
               e == es[k]
    <2>1. n \in 1 .. m /\ m + 1 - n = k /\ n - 1 = m - k
      <3>1. m \in Nat /\ k \in Nat /\ k > 0 /\ k <= m
        BY <1>1, <1>2, <1>4
      <3> HIDE DEF m, k
      <3> QED BY <3>1
    <2>2. /\ e.repeat \in Nat
          /\ Doing(b, f, nested) = RestThen(e, f, nested, Entries(es, nested)[Len(es) - f.entry])
      BY <1>4, DoingAnEntry
    <2>3. Entries(es, nested)[n] = WholeThen(e, nested, Entries(es, nested)[n - 1])
      BY <1>2, <2>1, EntriesAre
    <2> HIDE DEF e, n, m, k
    <2>4. Left(e, f) = e.repeat
      BY <2>2 DEF Left
    <2>5. RestThen(e, f, nested, Entries(es, nested)[Len(es) - f.entry])
            = WholeThen(e, nested, Entries(es, nested)[Len(es) - f.entry])
      BY <2>4 DEF RestThen, WholeThen
    <2> QED BY <2>1, <2>2, <2>3, <2>5 DEF n, m, k
  <1>5. f.entry = Len(es) + 1 \/ f.entry <= Len(es)
    BY <1>1, <1>2
  <1> QED BY <1>3, <1>4, <1>5

\* A call that begins has all of its container to do.
LEMMA DoingFromStart ==
  ASSUME NEW b \in Databases, NEW c \in Containers, NEW start \in Nat,
         NEW l \in 1 .. MAX_CONTAINER_DEPTH + 1
  PROVE  Doing(b, Frame(c, start), Instructions(b, l - 1)) = Instructions(b, l)[c]
  <1> DEFINE f == Frame(c, start)
             es == b.entries[c]
             nested == Instructions(b, l - 1)
  <1>1. f \in Frames /\ f.container = c /\ f.entry = 1 /\ f.repetition = 0
    BY DEF Frame, Frames
  <1>2. l - 1 \in 0 .. MAX_CONTAINER_DEPTH + 1
    BY DepthAssumption
  <1>3. AllLists(nested, Containers) /\ Instructions(b, l)[c] = Entries(es, nested)[Len(es)]
    BY <1>2, InstructionsAre
  <1>4. Len(es) \in Nat
    BY EntriesAreGood DEF GoodEntries, IsList
  <1> HIDE DEF f, es, nested
  <1>5. f.entry <= Len(es) + 1 /\ Len(es) + 1 - f.entry = Len(es)
    BY <1>1, <1>4
  <1>6. es = b.entries[f.container]
    BY <1>1 DEF es
  <1>7. Doing(b, f, nested) = Entries(es, nested)[Len(es) + 1 - f.entry]
    BY <1>1, <1>3, <1>5, <1>6, DoingFrom
  <1> QED BY <1>3, <1>5, <1>7 DEF f, nested

\* Where the walk is when the entry has been located.
Placed(e, f, w) == IF f.repetition = 0 \/ Nowhere(e) THEN Place(e, w) ELSE w

\* Where an entry can be located the walk goes on.
LEMMA PlaceGoesOn ==
  ASSUME NEW e, NEW f, NEW w, w.error = "none", ~ Nowhere(e)
  PROVE  Placed(e, f, w).error = "none"
  <1>1. Place(e, w).error = "none"
    BY DEF Place, Nowhere, Walk
  <1> QED BY <1>1 DEF Placed

\* The entry is located, what is left of its repetitions is done, and then the
\* rest.
LEMMA RunOfRest ==
  ASSUME NEW b, NEW e, NEW f, NEW nested, NEW more, IsList(more),
         NEW left, left = Repetitions(e, nested)[Left(e, f)], IsList(left),
         NEW w, f.repetition = 0 \/ Nowhere(e) => w.error = "none"
  PROVE  Run(b, RestThen(e, f, nested, more), w) = Run(b, more, Run(b, left, Placed(e, f, w)))
  <1> DEFINE head == IF f.repetition = 0 \/ Nowhere(e) THEN PlaceAt(e) ELSE <<>>
             rest == left \o more
  <1>1. RestThen(e, f, nested, more) = head \o rest
    BY DEF RestThen
  <1>2. IsList(head)
    <2>1. IsList(<<>>) /\ IsList(PlaceAt(e))
      BY OneIsList DEF IsList, PlaceAt
    <2> QED BY <2>1
  <1>3. IsList(left) /\ IsList(more)
    OBVIOUS
  <1>4. IsList(rest)
    BY <1>3, ListConcat
  <1>5. Run(b, head, w) = Placed(e, f, w)
    <2>1. CASE f.repetition = 0 \/ Nowhere(e)
      <3> DEFINE i == [do |-> "place", entry |-> e]
      <3>1. Run(b, <<i>>, w) = Execute(b, i, w)
        BY RunOfOne
      <3>2. Execute(b, i, w) = Place(e, w)
        BY <2>1 DEF Execute
      <3>3. head = <<i>>
        BY <2>1 DEF PlaceAt
      <3> HIDE DEF head, i
      <3> QED BY <2>1, <3>1, <3>2, <3>3 DEF Placed
    <2>2. CASE ~ (f.repetition = 0 \/ Nowhere(e))
      <3>1. head = <<>>
        BY <2>2
      <3> HIDE DEF head
      <3> QED BY <2>2, <3>1, RunOfNothing DEF Placed
    <2> QED BY <2>1, <2>2
  <1> HIDE DEF head
  <1>6. Run(b, rest, Placed(e, f, w)) = Run(b, more, Run(b, left, Placed(e, f, w)))
    BY <1>3, RunOfBoth
  <1> HIDE DEF rest
  <1>7. Run(b, head \o rest, w) = Run(b, rest, Run(b, head, w))
    BY <1>2, <1>4, RunOfBoth
  <1> QED BY <1>1, <1>5, <1>6, <1>7

\* One more repetition.
LEMMA DoingOnce ==
  ASSUME NEW b \in Databases, NEW f \in Frames, NEW es, es = b.entries[f.container],
         NEW e, e = es[f.entry], f.entry <= Len(es), ~ Nowhere(e),
         f.repetition < e.repeat,
         NEW g \in Frames, g.container = f.container, g.entry = f.entry,
         g.repetition = f.repetition + 1,
         NEW nested, AllLists(nested, Containers), NEW w, w.error = "none"
  PROVE  Run(b, Doing(b, f, nested), w)
           = Run(b, Doing(b, g, nested), Run(b, Once(e, nested), Placed(e, f, w)))
  <1> DEFINE more == Entries(es, nested)[Len(es) - f.entry]
             left == Repetitions(e, nested)[Left(e, f)]
             less == Repetitions(e, nested)[Left(e, g)]
             x    == Placed(e, f, w)
             y    == Run(b, Once(e, nested), x)
  <1>1. /\ e.repeat \in Nat /\ (e.kind = "container" => e.child \in Containers)
        /\ IsList(left) /\ IsList(more)
        /\ Doing(b, f, nested) = RestThen(e, f, nested, more)
    BY DoingAnEntry
  <1>2. f.repetition \in Nat
    BY DEF Frames
  <1>3. IsList(less) /\ Doing(b, g, nested) = RestThen(e, g, nested, more)
    <2>1. es = b.entries[g.container] /\ e = es[g.entry] /\ g.entry <= Len(es)
      OBVIOUS
    <2>2. /\ IsList(Repetitions(e, nested)[Left(e, g)])
          /\ Doing(b, g, nested) = RestThen(e, g, nested, Entries(es, nested)[Len(es) - g.entry])
      BY <2>1, DoingAnEntry
    <2> QED BY <2>2
  <1>4. Left(e, f) \in 1 .. e.repeat /\ Left(e, g) = Left(e, f) - 1
    <2> DEFINE n == e.repeat
               r == f.repetition
    <2>1. n \in Nat /\ r \in Nat /\ r < n /\ g.repetition = r + 1
      BY <1>1, <1>2
    <2>2. Left(e, f) = (IF n > r THEN n - r ELSE 0) /\ Left(e, g) = IF n > r + 1 THEN n - (r + 1) ELSE 0
      BY <2>1 DEF Left
    <2> HIDE DEF n, r
    <2>3. Left(e, f) \in 1 .. n /\ Left(e, g) = Left(e, f) - 1
      BY <2>1, <2>2
    <2> QED BY <2>3 DEF n
  <1>5. left = Once(e, nested) \o less
    <2> DEFINE n == Left(e, f)
    <2>1. n \in 1 .. e.repeat /\ Left(e, g) = n - 1
      BY <1>4
    <2> HIDE DEF n
    <2>2. Repetitions(e, nested)[n] = Once(e, nested) \o Repetitions(e, nested)[n - 1]
      BY <1>1, <2>1, RepetitionsAre
    <2> QED BY <2>1, <2>2 DEF n
  <1>6. IsList(Once(e, nested))
    BY <1>1, OnceIsList
  <1> HIDE DEF more, left, less
  <1>7. Run(b, Doing(b, f, nested), w) = Run(b, more, Run(b, left, x))
    BY <1>1, RunOfRest DEF left
  <1>8. Run(b, left, x) = Run(b, less, y)
    <2> DEFINE one == Once(e, nested)
    <2>1. IsList(one) /\ IsList(less) /\ left = one \o less /\ y = Run(b, one, x)
      BY <1>3, <1>5, <1>6 DEF less
    <2> HIDE DEF one, x, y
    <2>2. Run(b, one \o less, x) = Run(b, less, Run(b, one, x))
      BY <2>1, RunOfBoth
    <2> QED BY <2>1, <2>2
  <1>9. Run(b, Doing(b, g, nested), y) = Run(b, more, Run(b, less, y))
    <2>1. g.repetition # 0
      BY <1>2
    <2> HIDE DEF y
    <2>2. Placed(e, g, y) = y
      BY <2>1 DEF Placed
    <2>3. Run(b, RestThen(e, g, nested, more), y) = Run(b, more, Run(b, less, Placed(e, g, y)))
      <3>1. IsList(less) /\ IsList(more) /\ less = Repetitions(e, nested)[Left(e, g)]
        BY <1>1, <1>3 DEF less
      <3> QED BY <2>1, <3>1, RunOfRest
    <2> QED BY <1>3, <2>2, <2>3
  <1> QED BY <1>7, <1>8, <1>9

\* The repetitions are over.
LEMMA DoingNext ==
  ASSUME NEW b \in Databases, NEW f \in Frames, NEW es, es = b.entries[f.container],
         NEW e, e = es[f.entry], f.entry <= Len(es), ~ Nowhere(e),
         f.repetition >= e.repeat,
         NEW g \in Frames, g.container = f.container, g.entry = f.entry + 1,
         g.repetition = 0,
         NEW nested, AllLists(nested, Containers), NEW w, w.error = "none"
  PROVE  Run(b, Doing(b, f, nested), w) = Run(b, Doing(b, g, nested), Placed(e, f, w))
  <1> DEFINE more == Entries(es, nested)[Len(es) - f.entry]
             left == Repetitions(e, nested)[Left(e, f)]
             x    == Placed(e, f, w)
  <1>1. /\ e.repeat \in Nat /\ (e.kind = "container" => e.child \in Containers)
        /\ IsList(left) /\ IsList(more) /\ Len(es) \in Nat
        /\ Doing(b, f, nested) = RestThen(e, f, nested, more)
    BY DoingAnEntry
  <1>2. f.repetition \in Nat /\ f.entry \in Nat
    BY DEF Frames
  <1>3. Left(e, f) = 0
    <2> DEFINE n == e.repeat
               r == f.repetition
    <2>1. n \in Nat /\ r \in Nat /\ r >= n
      BY <1>1, <1>2
    <2>2. Left(e, f) = IF n > r THEN n - r ELSE 0
      BY DEF Left
    <2> HIDE DEF n, r
    <2> QED BY <2>1, <2>2
  <1>4. left = <<>>
    BY <1>1, <1>3, RepetitionsAre
  <1>5. Doing(b, g, nested) = more
    <2>1. es = b.entries[g.container] /\ g.entry <= Len(es) + 1
      BY <1>1, <1>2
    <2>2. Doing(b, g, nested) = Entries(es, nested)[Len(es) + 1 - g.entry]
      BY <1>2, <2>1, DoingFrom
    <2>3. Len(es) + 1 - g.entry = Len(es) - f.entry
      BY <1>1, <1>2
    <2> QED BY <2>2, <2>3
  <1> HIDE DEF more, left
  <1>6. Run(b, Doing(b, f, nested), w) = Run(b, more, Run(b, left, x))
    BY <1>1, RunOfRest DEF left
  <1> HIDE DEF x
  <1>7. Run(b, left, x) = x
    BY <1>4, RunOfNothing
  <1> QED BY <1>5, <1>6, <1>7 DEF x

\* There is no locating the entry.
LEMMA DoingNowhere ==
  ASSUME NEW b \in Databases, NEW f \in Frames, NEW es, es = b.entries[f.container],
         NEW e, e = es[f.entry], f.entry <= Len(es), Nowhere(e),
         NEW nested, AllLists(nested, Containers), NEW w, w.error = "none", Stop(w, "Unsupported").error = "Unsupported"
  PROVE  Run(b, Doing(b, f, nested), w) = Stop(w, "Unsupported")
  <1> DEFINE more == Entries(es, nested)[Len(es) - f.entry]
             left == Repetitions(e, nested)[Left(e, f)]
             x    == Placed(e, f, w)
  <1>1. /\ IsList(left) /\ IsList(more)
        /\ Doing(b, f, nested) = RestThen(e, f, nested, more)
    BY DoingAnEntry
  <1>2. x = Stop(w, "Unsupported") /\ x.error # "none"
    BY DEF Placed, Place, Nowhere
  <1> HIDE DEF more, left
  <1>3. Run(b, Doing(b, f, nested), w) = Run(b, more, Run(b, left, x))
    BY <1>1, RunOfRest DEF left
  <1> HIDE DEF x
  <1>4. Run(b, left, x) = x /\ Run(b, more, x) = x
    BY <1>1, <1>2, RunIsStopped
  <1> QED BY <1>2, <1>3, <1>4

\* What the containers referred to from the call at this depth are expanded to.
Nested(b, depth) == Instructions(b, MAX_CONTAINER_DEPTH + 1 - depth)

\* ts[i] is what is to do when the i-th active call has returned.
Behind(b, stk, ts) ==
  /\ Len(ts) = Len(stk)
  /\ ts = [i \in 1 .. Len(stk) |-> ts[i]]
  /\ AllLists(ts, 1 .. Len(stk))
  /\ Len(stk) > 0 => ts[1] = <<>>
  /\ \A i \in 1 .. Len(stk) - 1 : ts[i + 1] = Doing(b, stk[i], Nested(b, i)) \o ts[i]

\* The walk when all active calls have returned.
WalkLeft(b, stk, ts, w) ==
  IF stk = <<>> THEN w
  ELSE Run(b, ts[Len(stk)], Run(b, Doing(b, stk[Len(stk)], Nested(b, Len(stk))), w))

\* They are lists.
LEMMA NestedAre ==
  ASSUME NEW b \in Databases, NEW depth \in 1 .. MAX_CONTAINER_DEPTH + 1
  PROVE  AllLists(Nested(b, depth), Containers)
  <1>1. MAX_CONTAINER_DEPTH + 1 - depth \in 0 .. MAX_CONTAINER_DEPTH + 1
    BY DepthAssumption
  <1> QED BY <1>1, InstructionsAre DEF Nested

\* No call is active.
LEMMA BehindNothing ==
  ASSUME NEW b
  PROVE  Behind(b, <<>>, <<>>)
  <1>1. Len(<<>>) = 0 /\ <<>> = [i \in 1 .. 0 |-> <<>>[i]]
    OBVIOUS
  <1>2. \A i \in 1 .. 0 : FALSE
    OBVIOUS
  <1>3. \A i \in 1 .. 0 - 1 : FALSE
    OBVIOUS
  <1> QED BY <1>1, <1>2, <1>3 DEF Behind, AllLists

\* One call is active.
LEMMA BehindOne ==
  ASSUME NEW b, NEW stk, Len(stk) = 1
  PROVE  \E ts : Behind(b, stk, ts) /\ ts[1] = <<>>
  <1> DEFINE ts == <<<<>>>>
  <1>1. Len(ts) = 1 /\ ts = [i \in 1 .. 1 |-> ts[i]] /\ ts[1] = <<>>
    OBVIOUS
  <1>2. \A i \in 1 .. 1 - 1 : FALSE
    OBVIOUS
  <1>3. AllLists(ts, 1 .. 1)
    <2>1. IsList(<<>>)
      BY DEF IsList
    <2>2. \A i \in 1 .. 1 : i = 1
      OBVIOUS
    <2> HIDE DEF ts
    <2> QED BY <1>1, <2>1, <2>2 DEF AllLists
  <1> HIDE DEF ts
  <1>4. Behind(b, stk, ts)
    BY <1>1, <1>2, <1>3 DEF Behind
  <1> QED BY <1>1, <1>4

\* Only the innermost call goes on.
LEMMA BehindTop ==
  ASSUME NEW b, NEW stk, NEW ts, Behind(b, stk, ts),
         NEW stk2, Len(stk2) = Len(stk), \A i \in 1 .. Len(stk) - 1 : stk2[i] = stk[i]
  PROVE  Behind(b, stk2, ts)
  BY DEF Behind

\* The innermost of the calls returns to this.
ReturnsTo(b, stk, t) == \E ts : Behind(b, stk, ts) /\ ts[Len(stk)] = t

\* One more at the end.
LEMMA OneMore ==
  ASSUME NEW n \in Nat, NEW ts, NEW t,
         NEW us, us = [i \in 1 .. n + 1 |-> IF i = n + 1 THEN t ELSE ts[i]]
  PROVE  /\ Len(us) = n + 1 /\ us = [i \in 1 .. n + 1 |-> us[i]]
         /\ us[n + 1] = t /\ \A i \in 1 .. n : us[i] = ts[i]
  OBVIOUS

\* A call is made.
LEMMA BehindCall ==
  ASSUME NEW b, NEW stk, NEW n, n = Len(stk), n \in Nat \ {0}, NEW ts, Behind(b, stk, ts),
         NEW stk2, Len(stk2) = n + 1, \A i \in 1 .. n - 1 : stk2[i] = stk[i],
         NEW doing, doing = Doing(b, stk2[n], Nested(b, n)), IsList(doing),
         NEW t, t = doing \o ts[n]
  PROVE  ReturnsTo(b, stk2, t)
  <1> DEFINE us == [i \in 1 .. n + 1 |-> IF i = n + 1 THEN t ELSE ts[i]]
  <1>1. IsList(t)
    <2>1. IsList(ts[n]) /\ IsList(doing)
      BY DEF Behind, AllLists
    <2> QED BY <2>1, ListConcat
  <1>2. /\ Len(us) = n + 1 /\ us = [i \in 1 .. n + 1 |-> us[i]]
        /\ us[n + 1] = t /\ \A i \in 1 .. n : us[i] = ts[i]
    <2>1. us = [i \in 1 .. n + 1 |-> IF i = n + 1 THEN t ELSE ts[i]]
      OBVIOUS
    <2>2. n \in Nat
      OBVIOUS
    <2> HIDE DEF us
    <2> QED BY ONLY <2>1, <2>2, OneMore
  <1> HIDE DEF us
  <1>3. AllLists(us, 1 .. n + 1)
    <2>1. ASSUME NEW i \in 1 .. n + 1 PROVE IsList(us[i])
      <3>1. CASE i = n + 1
        BY <1>1, <1>2, <3>1
      <3>2. CASE i # n + 1
        <4>1. i \in 1 .. n
          BY <3>2
        <4> QED BY <1>2, <4>1 DEF Behind, AllLists
      <3> QED BY <3>1, <3>2
    <2> QED BY <2>1 DEF AllLists
  <1>4. us[1] = <<>>
    <2>1. 1 \in 1 .. n /\ n > 0
      OBVIOUS
    <2> QED BY <1>2, <2>1 DEF Behind
  <1>5. ASSUME NEW i \in 1 .. n PROVE us[i + 1] = Doing(b, stk2[i], Nested(b, i)) \o us[i]
    <2>1. CASE i = n
      BY <1>2, <2>1
    <2>2. CASE i # n
      <3>1. i \in 1 .. n - 1 /\ i + 1 \in 1 .. n
        BY <2>2
      <3>2. ts[i + 1] = Doing(b, stk[i], Nested(b, i)) \o ts[i]
        BY <3>1 DEF Behind
      <3> QED BY <1>2, <3>1, <3>2
    <2> QED BY <2>1, <2>2
  <1>6. 1 .. Len(stk2) - 1 = 1 .. n /\ 1 .. Len(stk2) = 1 .. n + 1 /\ Len(us) = Len(stk2)
    BY <1>2
  <1>7. \A i \in 1 .. Len(stk2) - 1 : us[i + 1] = Doing(b, stk2[i], Nested(b, i)) \o us[i]
    BY <1>5, <1>6
  <1>8. us = [i \in 1 .. Len(stk2) |-> us[i]] /\ AllLists(us, 1 .. Len(stk2))
    BY <1>2, <1>3, <1>6
  <1>9. Behind(b, stk2, us)
    BY <1>4, <1>6, <1>7, <1>8 DEF Behind
  <1> QED BY <1>2, <1>9 DEF ReturnsTo

\* A call returns.
LEMMA BehindReturn ==
  ASSUME NEW b, NEW stk, NEW n, n = Len(stk), n \in Nat, n > 1, NEW ts, Behind(b, stk, ts),
         NEW stk2, Len(stk2) = n - 1, \A i \in 1 .. n - 1 : stk2[i] = stk[i],
         NEW t, t = ts[n - 1]
  PROVE  ReturnsTo(b, stk2, t)
  <1> DEFINE us == [i \in 1 .. n - 1 |-> ts[i]]
  <1>1. /\ Len(us) = n - 1 /\ us = [i \in 1 .. n - 1 |-> us[i]]
        /\ \A i \in 1 .. n - 1 : us[i] = ts[i]
    OBVIOUS
  <1> HIDE DEF us
  <1>2. AllLists(us, 1 .. n - 1)
    <2>1. ASSUME NEW i \in 1 .. n - 1 PROVE IsList(us[i])
      <3>1. i \in 1 .. Len(stk)
        OBVIOUS
      <3>2. IsList(ts[i])
        BY <3>1 DEF Behind, AllLists
      <3> QED BY <1>1, <3>2
    <2> QED BY <2>1 DEF AllLists
  <1>3. us[1] = <<>>
    <2>1. 1 \in 1 .. n - 1 /\ n > 0
      OBVIOUS
    <2> QED BY <1>1, <2>1 DEF Behind
  <1>4. ASSUME NEW i \in 1 .. n - 1 - 1 PROVE us[i + 1] = Doing(b, stk2[i], Nested(b, i)) \o us[i]
    <2>1. i \in 1 .. n - 1 /\ i + 1 \in 1 .. n - 1
      OBVIOUS
    <2>2. ts[i + 1] = Doing(b, stk[i], Nested(b, i)) \o ts[i]
      BY <2>1 DEF Behind
    <2> QED BY <1>1, <2>1, <2>2
  <1>5. Behind(b, stk2, us)
    BY <1>1, <1>2, <1>3, <1>4 DEF Behind
  <1>6. n - 1 \in 1 .. n - 1
    OBVIOUS
  <1> QED BY <1>1, <1>5, <1>6 DEF ReturnsTo

-------------------------------------------------------------------------------
\* Where the active calls start.
Starts(stk) == [i \in 1 .. Len(stk) |-> stk[i].start]

\* The walk as the decoder has it.
Here == Walk(packet, position, Starts(stack))

\* A walk has nothing but these.
LEMMA WalkIs ==
  ASSUME NEW pkt, NEW pos, NEW starts, NEW error
  PROVE  LET w == Walk(pkt, pos, starts) IN
         /\ w.pkt = pkt /\ w.pos = pos /\ w.starts = starts /\ w.error = "none"
         /\ Stop(w, error).error = error /\ Stop(w, error).pkt = pkt
  BY DEF Walk, Stop

\* The outcome is the one of the container reached, if there is one yet: what
\* the walk comes to from here is what it comes to from the start.
Answering ==
  phase # "idle" =>
    /\ db.root \in PathTo(db, current)
    /\ \E ts : /\ Behind(db, stack, ts)
               /\ Descent(db, packet.data)[Depth(db, current)]
                    = Choose(db, current, WalkLeft(db, stack, ts, Here))

\* A step inside the call is not seen.
LEMMA NotSeen ==
  ASSUME phase # "idle", phase' # "idle", db' = db, packet'.data = packet.data
  PROVE  UNCHANGED <<db, Pending, Shown>>
  BY DEF Pending, Shown

\* A call made is seen.
LEMMA CallSeen ==
  ASSUME NEW d \in Packets, DecodeInto(d)
  PROVE  Contract!Next
  <1>1. phase = "idle" /\ phase' = "entries" /\ db' = db /\ packet'.data = d
    BY DEF DecodeInto, Reset
  <1>2. Pending = {} /\ Pending' = {d} /\ Shown' = Busy(db)
    BY <1>1 DEF Pending, Shown, Busy
  <1> QED BY <1>1, <1>2 DEF Contract!Next, Contract!Call

\* An answer is seen.
LEMMA AnswerSeen ==
  ASSUME phase # "idle", phase' = "idle", db' = db,
         Outcome(db, packet.data) = Reply(result', packet')
  PROVE  Contract!Next
  <1>1. Pending = {packet.data} /\ Pending' = {} /\ Shown' = Reply(result', packet')
    BY DEF Pending, Shown
  <1> QED BY <1>1 DEF Contract!Next, Contract!Answer

\* The entry at hand starts where the walk goes for it.
LEMMA PlacedIs ==
  ASSUME TypeOK, stack # <<>>, ~ AtEnd, ~ Unlocatable
  PROVE  Placed(Entry, Top, Here) = Walk(packet, EntryStart, Starts(stack))
  <1>1. ~ Nowhere(Entry)
    BY DEF Nowhere, Unlocatable
  <1>2. Len(stack) \in Nat \ {0} /\ Top \in Frames
    BY TopIsFrame
  <1>3. Len(Starts(stack)) = Len(stack) /\ Starts(stack)[Len(stack)] = Top.start
    BY <1>2 DEF Starts, Top
  <1>4. position \in Nat /\ Top.start \in Nat
    BY <1>2 DEF TypeOK, Frames
  <1>5. CASE Top.repetition # 0
    <2>1. EntryStart = position
      BY <1>5 DEF EntryStart
    <2> QED BY <1>1, <1>5, <2>1 DEF Placed, Here
  <1>6. CASE Top.repetition = 0 /\ Entry.location = {}
    <2>1. EntryStart = position
      BY <1>6 DEF EntryStart
    <2> QED BY <1>1, <1>6, <2>1 DEF Placed, Place, Here, Nowhere
  <1>7. CASE Top.repetition = 0 /\ Entry.location # {}
    <2> DEFINE l    == CHOOSE l \in Entry.location : TRUE
               base == IF l.reference = "containerStart" THEN Top.start ELSE position
    <2>1. l \in Entry.location
      BY <1>7
    <2>2. l.offset \in Int
      BY <2>1, EntryWellFormed
    <2>3. base \in Nat
      BY <1>4
    <2>4. EntryStart = Located(base, l.offset)
      BY <1>7 DEF EntryStart
    <2>5. Placed(Entry, Top, Here) =
            Walk(packet, IF base + l.offset < 0 THEN 0 ELSE base + l.offset, Starts(stack))
      <3>1. Here.pkt = packet /\ Here.pos = position /\ Here.starts = Starts(stack)
        BY WalkIs DEF Here
      <3>2. Placed(Entry, Top, Here) = Place(Entry, Here)
        BY <1>7 DEF Placed
      <3> QED BY <1>1, <1>3, <1>7, <3>1, <3>2 DEF Place, Nowhere
    <2> HIDE DEF base, l
    <2>6. Located(base, l.offset) = IF base + l.offset < 0 THEN 0 ELSE base + l.offset
      BY <2>2, <2>3 DEF Located
    <2> QED BY <2>4, <2>5, <2>6
  <1> QED BY <1>5, <1>6, <1>7

\* What is known of the innermost call.
LEMMA InTop ==
  ASSUME TypeOK, NestingBounded, stack # <<>>
  PROVE  /\ db \in Databases /\ Top \in Frames /\ Top = stack[Len(stack)]
         /\ Len(stack) \in 1 .. MAX_CONTAINER_DEPTH + 1
         /\ AllLists(Nested(db, Len(stack)), Containers)
         /\ IsList(Doing(db, Top, Nested(db, Len(stack))))
         /\ Here.error = "none"
  <1>1. db \in Databases /\ Top \in Frames /\ Top = stack[Len(stack)]
    BY TopIsFrame DEF TypeOK, Top
  <1>2. Len(stack) \in 1 .. MAX_CONTAINER_DEPTH + 1
    BY TopIsFrame, DepthAssumption DEF NestingBounded
  <1>3. AllLists(Nested(db, Len(stack)), Containers)
    BY <1>1, <1>2, NestedAre
  <1>4. IsList(Doing(db, Top, Nested(db, Len(stack))))
    BY <1>1, <1>3, DoingIsList
  <1> QED BY <1>1, <1>2, <1>3, <1>4, WalkIs DEF Here

\* Its entry, if there is one.
LEMMA InEntry ==
  ASSUME TypeOK, NestingBounded, stack # <<>>, ~ AtEnd
  PROVE  /\ Entry = db.entries[Top.container][Top.entry]
         /\ Top.entry <= Len(db.entries[Top.container])
         /\ Top.entry \in Nat /\ Top.repetition \in Nat /\ Entry.repeat \in Nat
         /\ Top.container \in Containers
         /\ Nowhere(Entry) <=> Unlocatable
  <1>1. Top \in Frames
    BY InTop
  <1>2. Top.entry \in Nat /\ Top.container \in Containers /\ Top.repetition \in Nat
    BY <1>1 DEF Frames
  <1>3. Len(db.entries[Top.container]) \in Nat
    BY <1>2, EntriesAreGood DEF GoodEntries, IsList, TypeOK
  <1>4. Top.entry <= Len(db.entries[Top.container])
    BY <1>2, <1>3 DEF AtEnd
  <1> QED BY <1>2, <1>4, EntryWellFormed DEF Entry, Nowhere, Unlocatable

\* The innermost call goes on and the walk with it.
LEMMA WalkGoesOn ==
  ASSUME TypeOK, Answering, InEntries, phase' # "idle",
         db' = db, current' = current, packet'.data = packet.data,
         NEW n, n = Len(stack), Len(stack') = n, stack' # <<>>,
         \A i \in 1 .. n - 1 : stack'[i] = stack[i],
         Run(db, Doing(db, Top, Nested(db, n)), Here)
           = Run(db, Doing(db, stack'[n], Nested(db, n)), Here')
  PROVE  Answering'
  <1>1. PICK ts : /\ Behind(db, stack, ts)
                  /\ Descent(db, packet.data)[Depth(db, current)]
                       = Choose(db, current, WalkLeft(db, stack, ts, Here))
    BY DEF Answering, InEntries
  <1>2. Behind(db, stack', ts)
    BY <1>1, BehindTop
  <1>3. stack # <<>> /\ db.root \in PathTo(db, current)
    BY DEF InEntries, Answering
  <1>4. WalkLeft(db, stack, ts, Here) = WalkLeft(db, stack', ts, Here')
    BY <1>3 DEF WalkLeft, Top
  <1> QED BY <1>1, <1>2, <1>3, <1>4 DEF Answering

\* The walk is over.
LEMMA WalkEnds ==
  ASSUME TypeOK, NestingBounded, Answering, InEntries, NEW error, error # "none", Fail(error),
         NEW x, x = Run(db, Doing(db, Top, Nested(db, Len(stack))), Here),
         x.error = error, x.pkt = packet
  PROVE  Contract!Next
  <1>1. phase # "idle" /\ stack # <<>> /\ db \in Databases /\ current \in Containers
    BY DEF InEntries, TypeOK
  <1>2. PICK ts : /\ Behind(db, stack, ts)
                  /\ Descent(db, packet.data)[Depth(db, current)]
                       = Choose(db, current, WalkLeft(db, stack, ts, Here))
    BY <1>1 DEF Answering
  <1>3. IsList(ts[Len(stack)])
    <2>1. Len(stack) \in 1 .. Len(stack)
      BY <1>1, TopIsFrame
    <2> QED BY <1>2, <2>1 DEF Behind, AllLists
  <1>4. WalkLeft(db, stack, ts, Here) = x
    BY <1>1, <1>3, RunIsStopped DEF WalkLeft, Top
  <1> DEFINE s == Choose(db, current, x)
             n == Depth(db, current)
  <1>5. s.answer = error /\ s.walk = x
    BY DEF Choose, Reached
  <1>6. s = Descent(db, packet.data)[n]
    BY <1>2, <1>4
  <1>7. n \in 0 .. Cardinality(Containers)
    BY <1>1, DepthIs
  <1> HIDE DEF s, n
  <1>8. Outcome(db, packet.data) = Reply(error, packet)
    BY <1>5, <1>6, <1>7, OutcomeIs
  <1>9. db' = db /\ phase' = "idle" /\ result' = error /\ packet' = packet
    BY DEF Fail
  <1> QED BY <1>1, <1>8, <1>9, AnswerSeen

\* The entry's location is unsupported.
LEMMA WalkRejectsLocation ==
  ASSUME TypeOK, NestingBounded, Answering, RejectLocation
  PROVE  Contract!Next
  <1>1. InEntries /\ stack # <<>> /\ ~ AtEnd /\ Unlocatable /\ Fail("Unsupported")
    BY DEF RejectLocation, InEntries
  <1> DEFINE x == Run(db, Doing(db, Top, Nested(db, Len(stack))), Here)
             y == Stop(Here, "Unsupported")
  <1>2. y.error = "Unsupported" /\ y.pkt = packet
    BY WalkIs DEF Here
  <1>3. x = y
    BY <1>1, <1>2, InTop, InEntry, DoingNowhere
  <1> HIDE DEF x
  <1> QED BY <1>1, <1>2, <1>3, WalkEnds DEF x

\* One more repetition, as the walk does it.
LEMMA WalkRepeats ==
  ASSUME TypeOK, NestingBounded, InEntries, Repeating,
         NEW n, n = Len(stack), NEW g \in Frames,
         g.container = Top.container, g.entry = Top.entry, g.repetition = Top.repetition + 1
  PROVE  Run(db, Doing(db, Top, Nested(db, n)), Here)
           = Run(db, Doing(db, g, Nested(db, n)),
                 Run(db, Once(Entry, Nested(db, n)), Walk(packet, EntryStart, Starts(stack))))
  <1>1. stack # <<>> /\ ~ AtEnd /\ ~ Unlocatable /\ Top.repetition < Entry.repeat
    BY DEF InEntries, Repeating
  <1>2. Placed(Entry, Top, Here) = Walk(packet, EntryStart, Starts(stack))
    BY <1>1, PlacedIs
  <1> DEFINE es == db.entries[Top.container]
             nested == Nested(db, n)
  <1>3. /\ db \in Databases /\ Top \in Frames /\ AllLists(nested, Containers)
        /\ Here.error = "none"
    BY <1>1, InTop
  <1>4. Entry = es[Top.entry] /\ Top.entry <= Len(es) /\ ~ Nowhere(Entry)
    BY <1>1, InEntry
  <1> HIDE DEF nested
  <1>5. Run(db, Doing(db, Top, nested), Here)
           = Run(db, Doing(db, g, nested), Run(db, Once(Entry, nested), Placed(Entry, Top, Here)))
    BY <1>1, <1>3, <1>4, DoingOnce
  <1> QED BY <1>2, <1>5 DEF nested

\* A counted repetition changes the innermost call alone.
LEMMA RepeatedIs ==
  ASSUME TypeOK, stack # <<>>, NEW n, n = Len(stack)
  PROVE  /\ n \in Nat \ {0} /\ Len(Repeated) = n /\ Repeated # <<>>
         /\ \A i \in 1 .. n - 1 : Repeated[i] = stack[i]
         /\ Repeated[n] \in Frames
         /\ Repeated[n].container = Top.container /\ Repeated[n].entry = Top.entry
         /\ Repeated[n].repetition = Top.repetition + 1
         /\ Starts(Repeated) = Starts(stack)
  <1> DEFINE g == [Top EXCEPT !.repetition = Top.repetition + 1]
  <1>1. n \in Nat \ {0} /\ n \in DOMAIN stack /\ Top \in Frames /\ Top = stack[n]
    BY TopIsFrame DEF Top
  <1>2. Len(Repeated) = n /\ Repeated # <<>>
    BY RepeatedIsStack
  <1>3. stack = [i \in 1 .. n |-> stack[i]]
    BY DEF TypeOK
  <1>4. Repeated = [stack EXCEPT ![n] = g]
    BY <1>1 DEF Repeated
  <1>5. /\ g \in Frames /\ g.container = Top.container /\ g.entry = Top.entry
        /\ g.repetition = Top.repetition + 1 /\ g.start = Top.start
    BY <1>1 DEF Frames
  <1> HIDE DEF g
  <1>6. Repeated[n] = g /\ \A i \in 1 .. n : i # n => Repeated[i] = stack[i]
    BY <1>1, <1>3, <1>4
  <1>7. ASSUME NEW i \in 1 .. n PROVE Repeated[i].start = stack[i].start
    BY <1>1, <1>5, <1>6
  <1>8. Starts(Repeated) = Starts(stack)
    BY <1>2, <1>7 DEF Starts
  <1>9. \A i \in 1 .. n - 1 : i \in 1 .. n /\ i # n
    BY <1>1
  <1> QED BY <1>1, <1>2, <1>5, <1>6, <1>8, <1>9

\* A repetition that is done.
LEMMA WalkStepsTo ==
  ASSUME TypeOK, NestingBounded, Answering, InEntries, Repeating,
         db' = db, current' = current, packet'.data = packet.data, phase' = phase,
         stack' = Repeated,
         Run(db, Once(Entry, Nested(db, Len(stack))), Walk(packet, EntryStart, Starts(stack)))
           = Walk(packet', position', Starts(stack))
  PROVE  Answering'
  <1> DEFINE n == Len(stack)
             g == Repeated[n]
  <1>1. stack # <<>> /\ phase # "idle"
    BY DEF InEntries
  <1>2. /\ Len(Repeated) = n /\ Repeated # <<>>
        /\ \A i \in 1 .. n - 1 : Repeated[i] = stack[i]
        /\ g \in Frames
        /\ g.container = Top.container /\ g.entry = Top.entry
        /\ g.repetition = Top.repetition + 1
        /\ Starts(Repeated) = Starts(stack)
    BY <1>1, RepeatedIs
  <1>3. Here' = Walk(packet', position', Starts(stack))
    BY <1>2 DEF Here
  <1> HIDE DEF n, g
  <1>4. Run(db, Doing(db, Top, Nested(db, n)), Here) = Run(db, Doing(db, g, Nested(db, n)), Here')
    BY <1>2, <1>3, WalkRepeats DEF n
  <1>5. stack'[n] = g
    BY DEF g
  <1> QED BY <1>1, <1>2, <1>4, <1>5, WalkGoesOn DEF n

\* A repetition that fails.
LEMMA WalkFailsAt ==
  ASSUME TypeOK, NestingBounded, Answering, InEntries, Repeating,
         NEW error, error # "none", Fail(error),
         NEW x, x.error = error, x.pkt = packet,
         x = Run(db, Once(Entry, Nested(db, Len(stack))), Walk(packet, EntryStart, Starts(stack)))
  PROVE  Contract!Next
  <1> DEFINE n == Len(stack)
             g == Repeated[n]
  <1>1. stack # <<>>
    BY DEF InEntries
  <1>2. /\ g \in Frames
        /\ g.container = Top.container /\ g.entry = Top.entry
        /\ g.repetition = Top.repetition + 1
    BY <1>1, RepeatedIs
  <1> HIDE DEF n, g
  <1>3. Run(db, Doing(db, Top, Nested(db, n)), Here) = Run(db, Doing(db, g, Nested(db, n)), x)
    BY <1>2, WalkRepeats DEF n
  <1>4. IsList(Doing(db, g, Nested(db, n)))
    BY <1>1, <1>2, InTop, DoingIsList DEF n
  <1>5. Run(db, Doing(db, Top, Nested(db, n)), Here) = x
    BY <1>3, <1>4, RunIsStopped
  <1> QED BY <1>5, WalkEnds DEF n

\* What is neither a container nor repeated is one instruction.
LEMMA OnceIs ==
  ASSUME NEW b, NEW e, NEW nested, NEW w, e.kind # "container"
  PROVE  Run(b, Once(e, nested), w) = Execute(b, [do |-> e.kind, entry |-> e], w)
  BY RunOfOne DEF Once, Perform

\* A parameter is decoded as the walk decodes it.
LEMMA WalkDecodes ==
  ASSUME TypeOK, NestingBounded, Answering, DecodeParameter
  PROVE  IF phase' = "idle" THEN Contract!Next ELSE Answering' /\ packet'.data = packet.data
  <1> DEFINE w == Walk(packet, EntryStart, Starts(stack))
             v == Decoded
             x == Run(db, Once(Entry, Nested(db, Len(stack))), w)
  <1>1. InEntries /\ Repeating /\ Entry.kind = "parameter" /\ stack # <<>> /\ phase = "entries"
    BY DEF DecodeParameter, InEntries
  <1>2. w.pkt = packet /\ w.pos = EntryStart /\ w.starts = Starts(stack) /\ w.error = "none"
    BY WalkIs
  <1>3. x = DecodeOne(db, Entry, w)
    <2> HIDE DEF w
    <2> DEFINE i == [do |-> Entry.kind, entry |-> Entry]
    <2>1. Execute(db, i, w) = DecodeOne(db, Entry, w)
      BY <1>1, <1>2 DEF Execute
    <2> HIDE DEF i
    <2>2. x = Execute(db, i, w)
      BY <1>1, OnceIs DEF i
    <2> QED BY <2>1, <2>2
  <1>4. CASE v.error # "none"
    <2>1. Fail(v.error) /\ phase' = "idle"
      BY <1>4 DEF DecodeParameter, Decoded, Fail
    <2>2. x = Stop(w, v.error)
      <3> HIDE DEF w
      <3> QED BY <1>2, <1>3, <1>4 DEF DecodeOne, With, Decoded
    <2>3. x.error = v.error /\ x.pkt = packet
      BY <2>2, WalkIs
    <2> HIDE DEF v
    <2>4. Contract!Next
      BY <1>1, <1>4, <2>1, <2>3, WalkFailsAt
    <2> QED BY <2>1, <2>4
  <1>5. CASE v.error = "none"
    <2>1. /\ packet' = Insert(packet, Reported(v)) /\ position' = EntryStart + v.width
          /\ stack' = Repeated /\ db' = db /\ current' = current /\ phase' = phase
      BY <1>5 DEF DecodeParameter, Decoded
    <2>2. packet'.data = packet.data
      <3>1. IsBuffer(packet)
        BY DEF TypeOK, IsBuffer
      <3> QED BY <2>1, <3>1, InsertSound
    <2>3. x = Walk(packet', position', Starts(stack))
      <3> HIDE DEF w
      <3>1. x = Walk(Insert(packet, Reported(v)), EntryStart + v.width, Starts(stack))
        BY <1>2, <1>3, <1>5 DEF DecodeOne, With, Decoded, Reported
      <3> QED BY <2>1, <3>1
    <2>4. Answering'
      BY <1>1, <2>1, <2>2, <2>3, WalkStepsTo
    <2> QED BY <1>1, <2>1, <2>2, <2>4
  <1> QED BY <1>4, <1>5

\* A fixed value is skipped as the walk skips it.
LEMMA WalkSkips ==
  ASSUME TypeOK, NestingBounded, Answering, SkipFixedValue
  PROVE  IF phase' = "idle" THEN Contract!Next ELSE Answering' /\ packet'.data = packet.data
  <1> DEFINE w == Walk(packet, EntryStart, Starts(stack))
             x == Run(db, Once(Entry, Nested(db, Len(stack))), w)
  <1>1. InEntries /\ Repeating /\ Entry.kind = "fixed" /\ stack # <<>> /\ phase = "entries"
    BY DEF SkipFixedValue, InEntries
  <1>2. w.pkt = packet /\ w.pos = EntryStart /\ w.starts = Starts(stack) /\ w.error = "none"
    BY WalkIs
  <1>3. x = SkipOne(Entry, w)
    <2> HIDE DEF w
    <2> DEFINE i == [do |-> Entry.kind, entry |-> Entry]
    <2>1. Execute(db, i, w) = SkipOne(Entry, w)
      BY <1>1, <1>2 DEF Execute
    <2> HIDE DEF i
    <2>2. x = Execute(db, i, w)
      BY <1>1, OnceIs DEF i
    <2> QED BY <2>1, <2>2
  <1>4. CASE ~ InBounds(packet.data, EntryStart, Entry.size)
    <2>1. Fail("Bits") /\ phase' = "idle"
      BY <1>4 DEF SkipFixedValue, Fail
    <2>2. x = Stop(w, "Bits")
      <3> HIDE DEF w
      <3> QED BY <1>2, <1>3, <1>4 DEF SkipOne
    <2>3. x.error = "Bits" /\ x.pkt = packet
      BY <2>2, WalkIs
    <2>4. Contract!Next
      BY <1>1, <2>1, <2>3, WalkFailsAt
    <2> QED BY <2>1, <2>4
  <1>5. CASE InBounds(packet.data, EntryStart, Entry.size)
    <2>1. /\ packet' = packet /\ position' = EntryStart + Entry.size
          /\ stack' = Repeated /\ db' = db /\ current' = current /\ phase' = phase
      BY <1>5 DEF SkipFixedValue
    <2>2. x = Walk(packet', position', Starts(stack))
      <3> HIDE DEF w
      <3> QED BY <1>2, <1>3, <1>5, <2>1 DEF SkipOne
    <2>3. Answering'
      BY <1>1, <2>1, <2>2, WalkStepsTo
    <2> QED BY <1>1, <2>1, <2>3
  <1> QED BY <1>4, <1>5

\* An unsupported entry is given up.
LEMMA WalkRejectsEntry ==
  ASSUME TypeOK, NestingBounded, Answering, RejectEntry
  PROVE  Contract!Next
  <1> DEFINE w == Walk(packet, EntryStart, Starts(stack))
             x == Run(db, Once(Entry, Nested(db, Len(stack))), w)
  <1>1. InEntries /\ Repeating /\ Entry.kind = "unsupported" /\ Fail("Unsupported")
    BY DEF RejectEntry
  <1>2. w.error = "none"
    BY WalkIs
  <1>3. x = Stop(w, "Unsupported")
    <2> HIDE DEF w
    <2> DEFINE i == [do |-> Entry.kind, entry |-> Entry]
    <2>1. Execute(db, i, w) = Stop(w, "Unsupported")
      BY <1>1, <1>2 DEF Execute
    <2> HIDE DEF i
    <2>2. x = Execute(db, i, w)
      BY <1>1, OnceIs DEF i
    <2> QED BY <2>1, <2>2
  <1>4. x.error = "Unsupported" /\ x.pkt = packet
    BY <1>3, WalkIs
  <1> QED BY <1>1, <1>4, WalkFailsAt

\* A container is entered: what it refers to is expanded in its place.
LEMMA WalkEnters ==
  ASSUME TypeOK, NestingBounded, Answering, EnterContainer
  PROVE  IF phase' = "idle" THEN Contract!Next ELSE Answering' /\ packet'.data = packet.data
  <1> DEFINE n      == Len(stack)
             c      == Entry.child
             nested == Nested(db, n)
             w      == Walk(packet, EntryStart, Starts(stack))
             inside == Walk(packet, EntryStart, Append(Starts(stack), EntryStart))
             x      == Run(db, Once(Entry, nested), w)
  <1>1. /\ InEntries /\ Repeating /\ Entry.kind = "container" /\ phase = "entries"
        /\ stack # <<>> /\ ~ AtEnd
    BY DEF EnterContainer, InEntries, Repeating
  <1>2. w.pkt = packet /\ w.pos = EntryStart /\ w.starts = Starts(stack) /\ w.error = "none"
    BY WalkIs
  <1>3. /\ db \in Databases /\ n \in 1 .. MAX_CONTAINER_DEPTH + 1 /\ AllLists(nested, Containers)
        /\ c \in Containers /\ EntryStart \in Nat
    BY <1>1, InTop, EntryWellFormed, EntryStartIsNat
  <1>4. x = Run(db, nested[c], inside)
    <2> HIDE DEF w, nested, inside, n
    <2> DEFINE i == [do |-> "enter"]
    <2>1. Execute(db, i, w) = inside
      BY <1>2 DEF Execute, inside
    <2>2. Once(Entry, nested) = <<i>> \o nested[c]
      BY <1>1 DEF Once, Enter
    <2> HIDE DEF i
    <2>3. IsList(<<i>>) /\ IsList(nested[c])
      BY <1>3, OneIsList DEF AllLists
    <2> HIDE DEF c
    <2>4. Run(db, <<i>> \o nested[c], w) = Run(db, nested[c], Run(db, <<i>>, w))
      BY <2>3, RunOfBoth
    <2> QED BY <2>1, <2>2, <2>4, RunOfOne
  <1>5. CASE n > MAX_CONTAINER_DEPTH
    <2>1. Fail("Unsupported") /\ phase' = "idle"
      BY <1>5 DEF EnterContainer, Fail
    <2>2. MAX_CONTAINER_DEPTH + 1 - n = 0
      BY <1>3, <1>5, DepthAssumption
    <2>3. nested[c] = GiveUp
      BY <1>3, <2>2, InstructionsAre DEF Nested
    <2>4. x = Stop(inside, "Unsupported")
      <3> DEFINE i == [do |-> "give up"]
      <3>1. inside.error = "none"
        BY WalkIs
      <3> HIDE DEF inside
      <3>2. Execute(db, i, inside) = Stop(inside, "Unsupported")
        BY <3>1 DEF Execute
      <3>3. nested[c] = <<i>>
        BY <2>3 DEF GiveUp
      <3> HIDE DEF i, x
      <3> QED BY <1>4, <3>2, <3>3, RunOfOne
    <2>5. x.error = "Unsupported" /\ x.pkt = packet
      BY <2>4, WalkIs
    <2>6. Contract!Next
      BY <1>1, <2>1, <2>5, WalkFailsAt
    <2> QED BY <2>1, <2>6
  <1>6. CASE ~ n > MAX_CONTAINER_DEPTH
    <2> DEFINE g == Repeated[n]
               f == Frame(c, EntryStart)
               doing == Doing(db, g, nested)
    <2>1. /\ position' = EntryStart /\ stack' = Append(Repeated, f)
          /\ db' = db /\ packet' = packet /\ current' = current /\ phase' = phase
      BY <1>6 DEF EnterContainer
    <2>2. /\ Len(Repeated) = n /\ \A i \in 1 .. n - 1 : Repeated[i] = stack[i]
          /\ g \in Frames
          /\ g.container = Top.container /\ g.entry = Top.entry
          /\ g.repetition = Top.repetition + 1
          /\ Starts(Repeated) = Starts(stack)
      BY <1>1, RepeatedIs
    <2>3. /\ Len(stack') = n + 1 /\ stack' # <<>>
          /\ stack'[n + 1] = f /\ stack'[n] = g
          /\ \A i \in 1 .. n - 1 : stack'[i] = stack[i]
          /\ \A i \in 1 .. n : stack'[i] = Repeated[i]
      <3>1. IsList(Repeated)
        BY <1>1, RepeatedIsStack, SeqIsList
      <3>2. /\ Len(stack') = n + 1 /\ stack'[n + 1] = f
            /\ \A i \in 1 .. n : stack'[i] = Repeated[i]
        BY <2>1, <2>2, <3>1, ListAppend
      <3>3. stack' # <<>>
        BY <1>3, <3>2
      <3>4. n \in 1 .. n /\ \A i \in 1 .. n - 1 : i \in 1 .. n
        BY <1>3
      <3> HIDE DEF f, n
      <3> QED BY <2>2, <3>2, <3>3, <3>4
    <2>4. Starts(stack') = Append(Starts(stack), EntryStart)
      <3>1. IsList(Starts(stack)) /\ Len(Starts(stack)) = n
        BY <1>3 DEF Starts, IsList
      <3>2. /\ IsList(Append(Starts(stack), EntryStart))
            /\ Len(Append(Starts(stack), EntryStart)) = n + 1
            /\ \A i \in 1 .. n : Append(Starts(stack), EntryStart)[i] = Starts(stack)[i]
            /\ Append(Starts(stack), EntryStart)[n + 1] = EntryStart
        BY <3>1, ListAppend
      <3>3. f.start = EntryStart
        BY DEF Frame
      <3> HIDE DEF f
      <3>4. ASSUME NEW i \in 1 .. n + 1
            PROVE  stack'[i].start = Append(Starts(stack), EntryStart)[i]
        <4>1. CASE i = n + 1
          BY <2>3, <3>2, <3>3, <4>1
        <4>2. CASE i # n + 1
          <5>1. i \in 1 .. n
            BY <1>3, <4>2
          <5>2. stack'[i].start = Repeated[i].start
            BY <2>3, <5>1
          <5>3. Repeated[i].start = Starts(Repeated)[i]
            BY <2>2, <5>1 DEF Starts
          <5> QED BY <2>2, <3>2, <5>1, <5>2, <5>3
        <4> QED BY <4>1, <4>2
      <3>5. Starts(stack') = [i \in 1 .. n + 1 |-> stack'[i].start]
        BY <2>3 DEF Starts
      <3> QED BY <3>2, <3>4, <3>5 DEF IsList
    <2>5. Here' = inside
      BY <2>1, <2>4 DEF Here
    <2>6. nested[c] = Doing(db, f, Nested(db, n + 1))
      <3> DEFINE l == MAX_CONTAINER_DEPTH + 1 - n
      <3>1. l \in 1 .. MAX_CONTAINER_DEPTH + 1 /\ l - 1 = MAX_CONTAINER_DEPTH + 1 - (n + 1)
        BY <1>3, <1>6, DepthAssumption
      <3> HIDE DEF l, f
      <3>2. Doing(db, Frame(c, EntryStart), Instructions(db, l - 1)) = Instructions(db, l)[c]
        BY <1>3, <3>1, DoingFromStart
      <3> QED BY <3>1, <3>2 DEF Nested, l, f
    <2>7. Run(db, Doing(db, Top, nested), Here) = Run(db, doing, x)
      BY <1>1, <2>2, WalkRepeats
    <2>8. IsList(doing)
      BY <1>3, <2>2, DoingIsList
    <2>9. PICK ts : /\ Behind(db, stack, ts)
                    /\ Descent(db, packet.data)[Depth(db, current)]
                         = Choose(db, current, WalkLeft(db, stack, ts, Here))
      BY <1>1 DEF Answering
    <2>10. PICK us : Behind(db, stack', us) /\ us[n + 1] = doing \o ts[n]
      <3> DEFINE stk == stack
                 t   == doing \o ts[n]
                 stk2 == stack'
      <3>1. /\ n = Len(stk) /\ n \in Nat \ {0} /\ Behind(db, stk, ts)
            /\ Len(stk2) = n + 1 /\ \A i \in 1 .. n - 1 : stk2[i] = stk[i]
            /\ doing = Doing(db, stk2[n], Nested(db, n))
        BY <1>3, <2>3, <2>9
      <3>a. IsList(doing)
        BY <2>8
      <3>g. t = doing \o ts[n]
        OBVIOUS
      <3> HIDE DEF stk, stk2, doing, n, t
      <3>b. n = Len(stk) /\ n \in Nat \ {0}
        BY <3>1
      <3>c. Behind(db, stk, ts)
        BY <3>1
      <3>d. Len(stk2) = n + 1
        BY <3>1
      <3>e. \A i \in 1 .. n - 1 : stk2[i] = stk[i]
        BY <3>1
      <3>f. doing = Doing(db, stk2[n], Nested(db, n))
        BY <3>1
      <3>2. ReturnsTo(db, stk2, t)
        BY <3>a, <3>b, <3>c, <3>d, <3>e, <3>f, <3>g, BehindCall
      <3> QED BY <3>2, <3>d DEF ReturnsTo, stk2, t
    <2>11. WalkLeft(db, stack', us, Here') = WalkLeft(db, stack, ts, Here)
      <3>1. WalkLeft(db, stack', us, Here') = Run(db, us[n + 1], x)
        BY <1>4, <2>3, <2>5, <2>6 DEF WalkLeft
      <3>2. WalkLeft(db, stack, ts, Here) = Run(db, ts[n], Run(db, doing, x))
        BY <1>1, <2>7 DEF WalkLeft, Top
      <3>3. IsList(ts[n])
        BY <1>3, <2>9 DEF Behind, AllLists
      <3> HIDE DEF doing, x, n
      <3>4. Run(db, doing \o ts[n], x) = Run(db, ts[n], Run(db, doing, x))
        BY <2>8, <3>3, RunOfBoth
      <3> QED BY <2>10, <3>1, <3>2, <3>4
    <2>12. Answering'
      BY <1>1, <2>1, <2>9, <2>10, <2>11 DEF Answering
    <2> QED BY <1>1, <2>1, <2>12
  <1> QED BY <1>5, <1>6

\* An entry is behind: the walk goes on with the one after it.
LEMMA WalkToNextEntry ==
  ASSUME TypeOK, NestingBounded, Answering, NextEntry
  PROVE  Answering' /\ packet'.data = packet.data /\ phase' # "idle"
  <1> DEFINE n == Len(stack)
             g == [Top EXCEPT !.entry = Top.entry + 1, !.repetition = 0]
             es == db.entries[Top.container]
             nested == Nested(db, n)
  <1>1. /\ InEntries /\ stack # <<>> /\ ~ AtEnd /\ ~ Unlocatable /\ phase = "entries"
        /\ Top.repetition >= Entry.repeat
        /\ position' = EntryStart /\ db' = db /\ packet' = packet /\ current' = current
        /\ phase' = phase
    BY DEF NextEntry, InEntries
  <1>2. /\ n \in Nat \ {0} /\ n \in DOMAIN stack /\ Top \in Frames /\ Top = stack[n]
        /\ stack \in Seq(Frames)
    BY <1>1, TopIsFrame DEF Top, TypeOK
  <1>3. /\ g \in Frames /\ g.container = Top.container /\ g.entry = Top.entry + 1
        /\ g.repetition = 0 /\ g.start = Top.start
    <2>1. Top.entry \in Nat \ {0}
      BY <1>2 DEF Frames
    <2>2. Top.entry + 1 \in Nat \ {0}
      BY <2>1
    <2> QED BY <1>2, <2>2 DEF Frames
  <1>4. stack' = [stack EXCEPT ![n] = g]
    <2>1. stack' = [stack EXCEPT ![Len(stack)].entry = @ + 1, ![Len(stack)].repetition = 0]
      BY DEF NextEntry
    <2> QED BY <1>2, <2>1 DEF Top
  <1> HIDE DEF g
  <1>5. /\ Len(stack') = n /\ stack' # <<>> /\ stack'[n] = g
        /\ \A i \in 1 .. n : i # n => stack'[i] = stack[i]
    <2>1. n \in 1 .. n
      BY <1>2
    <2>2. stack' \in Seq(Frames) /\ Len(stack') = n
      BY <1>2, <1>3, <1>4, <2>1, ExceptSeq
    <2>3. stack'[n] = g /\ \A i \in 1 .. n : i # n => stack'[i] = stack[i]
      BY <1>2, <1>4, LenProperties
    <2> QED BY <1>2, <2>2, <2>3, EmptySeq
  <1>6. \A i \in 1 .. n - 1 : stack'[i] = stack[i]
    <2>1. \A i \in 1 .. n - 1 : i \in 1 .. n /\ i # n
      BY <1>2
    <2> QED BY <1>5, <2>1
  <1>7. Starts(stack') = Starts(stack)
    <2>1. ASSUME NEW i \in 1 .. n PROVE stack'[i].start = stack[i].start
      BY <1>2, <1>3, <1>5
    <2> QED BY <1>5, <2>1 DEF Starts
  <1>8. Here' = Walk(packet, EntryStart, Starts(stack))
    BY <1>1, <1>7 DEF Here
  <1>9. Placed(Entry, Top, Here) = Walk(packet, EntryStart, Starts(stack))
    BY <1>1, PlacedIs
  <1>10. /\ db \in Databases /\ AllLists(nested, Containers) /\ Here.error = "none"
    BY <1>1, InTop
  <1>11. Entry = es[Top.entry] /\ Top.entry <= Len(es) /\ ~ Nowhere(Entry)
    BY <1>1, InEntry
  <1> HIDE DEF nested
  <1>12. Run(db, Doing(db, Top, nested), Here) = Run(db, Doing(db, g, nested), Placed(Entry, Top, Here))
    BY <1>1, <1>2, <1>3, <1>10, <1>11, DoingNext
  <1>13. Run(db, Doing(db, Top, Nested(db, n)), Here)
           = Run(db, Doing(db, stack'[n], Nested(db, n)), Here')
    BY <1>5, <1>8, <1>9, <1>12 DEF nested
  <1> HIDE DEF n
  <1>14. Answering'
    BY <1>1, <1>5, <1>6, <1>13, WalkGoesOn DEF n
  <1> QED BY <1>1, <1>14

\* A container is behind: the walk goes on where it was referred to, and when
\* that was nowhere, with the choice of an inheritor.
LEMMA WalkLeaves ==
  ASSUME TypeOK, NestingBounded, Answering, LeaveContainer
  PROVE  Answering' /\ packet'.data = packet.data /\ phase' # "idle"
  <1> DEFINE n == Len(stack)
             nested == Nested(db, n)
  <1>1. /\ InEntries /\ stack # <<>> /\ AtEnd /\ phase = "entries"
        /\ position' = position /\ db' = db /\ packet' = packet /\ current' = current
        /\ stack' = SubSeq(stack, 1, n - 1) /\ phase' # "idle"
    BY DEF LeaveContainer, InEntries
  <1>2. n \in Nat \ {0} /\ stack \in Seq(Frames)
    BY <1>1, TopIsFrame DEF TypeOK
  <1>3. IsList(stack) /\ IsList(Starts(stack)) /\ Len(Starts(stack)) = n
    <2>1. IsList(stack)
      BY <1>2, SeqIsList
    <2> QED BY <1>2, <2>1 DEF Starts, IsList
  <1>4. Len(stack') = n - 1 /\ IsList(stack') /\ \A i \in 1 .. n - 1 : stack'[i] = stack[i]
    <2> DEFINE stk == stack
               stk2 == stack'
    <2>1. IsList(stk) /\ stk # <<>> /\ stk2 = SubSeq(stk, 1, Len(stk) - 1)
      BY <1>1, <1>3
    <2> HIDE DEF stk, stk2
    <2>2. IsList(stk2) /\ Len(stk2) = Len(stk) - 1 /\ \A i \in 1 .. Len(stk2) : stk2[i] = stk[i]
      BY <2>1, ListFront
    <2> QED BY <2>2 DEF stk, stk2
  <1>5. Starts(stack') = SubSeq(Starts(stack), 1, n - 1)
    <2> DEFINE all == Starts(stack)
               front == SubSeq(all, 1, n - 1)
    <2>1. IsList(all) /\ Len(all) = n /\ all # <<>> /\ \A i \in 1 .. n : all[i] = stack[i].start
      BY <1>2, <1>3 DEF Starts
    <2>2. front = SubSeq(all, 1, Len(all) - 1)
      BY <2>1
    <2> HIDE DEF all, front
    <2>3. IsList(front) /\ Len(front) = n - 1 /\ \A i \in 1 .. Len(front) : front[i] = all[i]
      BY <2>1, <2>2, ListFront
    <2>4. ASSUME NEW i \in 1 .. n - 1 PROVE stack'[i].start = front[i]
      <3>1. i \in 1 .. n
        BY <1>2
      <3> QED BY <1>4, <2>1, <2>3, <3>1
    <2>5. Starts(stack') = [i \in 1 .. n - 1 |-> stack'[i].start]
      BY <1>4 DEF Starts
    <2>6. front = [i \in 1 .. n - 1 |-> front[i]]
      BY <2>3 DEF IsList
    <2>7. Starts(stack') = front
      BY <2>4, <2>5, <2>6
    <2> QED BY <2>7 DEF front, all
  <1>6. Run(db, Doing(db, Top, nested), Here) = Here'
    <2> DEFINE i == [do |-> "leave"]
               h == Here
    <2>1. Doing(db, Top, nested) = <<i>>
      BY <1>1 DEF Doing, AtEnd, Leave
    <2>2. h.pkt = packet /\ h.pos = position /\ h.starts = Starts(stack) /\ h.error = "none"
      BY WalkIs DEF Here
    <2>3. Here' = Walk(packet, position, SubSeq(Starts(stack), 1, Len(Starts(stack)) - 1))
      BY <1>1, <1>3, <1>5 DEF Here
    <2> HIDE DEF h
    <2>4. Execute(db, i, h) = Walk(h.pkt, h.pos, SubSeq(h.starts, 1, Len(h.starts) - 1))
      BY <2>2 DEF Execute
    <2> HIDE DEF i
    <2>5. Run(db, <<i>>, h) = Execute(db, i, h)
      BY RunOfOne
    <2>6. Execute(db, i, h) = Here'
      BY <2>2, <2>3, <2>4
    <2> QED BY <2>1, <2>5, <2>6 DEF h
  <1>7. PICK ts : /\ Behind(db, stack, ts)
                  /\ Descent(db, packet.data)[Depth(db, current)]
                       = Choose(db, current, WalkLeft(db, stack, ts, Here))
    BY <1>1 DEF Answering
  <1>8. WalkLeft(db, stack, ts, Here) = Run(db, ts[n], Here')
    BY <1>1, <1>6 DEF WalkLeft, Top
  <1>9. db.root \in PathTo(db, current)
    BY <1>1 DEF Answering
  <1>10. CASE n = 1
    <2>1. stack' = <<>>
      BY <1>4, <1>10 DEF IsList
    <2>2. ts[1] = <<>>
      BY <1>7, <1>10 DEF Behind
    <2>3. WalkLeft(db, stack, ts, Here) = Here'
      BY <1>8, <1>10, <2>2, RunOfNothing
    <2>4. WalkLeft(db, stack', <<>>, Here') = Here'
      BY <2>1 DEF WalkLeft
    <2>5. Behind(db, stack', <<>>)
      BY <2>1, BehindNothing
    <2> QED BY <1>1, <1>7, <1>9, <2>3, <2>4, <2>5 DEF Answering
  <1>11. CASE n # 1
    <2> DEFINE doing == Doing(db, stack[n - 1], Nested(db, n - 1))
               rest  == ts[n - 1]
    <2>1. n - 1 \in 1 .. n - 1 /\ n > 1 /\ n - 1 \in 1 .. MAX_CONTAINER_DEPTH + 1
      <3>1. n \in 1 .. MAX_CONTAINER_DEPTH + 1
        BY <1>1, InTop
      <3>2. MAX_CONTAINER_DEPTH \in Nat
        BY DepthAssumption
      <3> HIDE DEF n
      <3> QED BY <1>2, <1>11, <3>1, <3>2
    <2>2. IsList(rest)
      BY <1>7, <2>1 DEF Behind, AllLists
    <2>3. IsList(doing)
      <3>1. stack[n - 1] \in Frames
        BY <1>2, <2>1, ElementOfSeq
      <3>2. db \in Databases
        BY DEF TypeOK
      <3>3. AllLists(Nested(db, n - 1), Containers)
        BY <2>1, <3>2, NestedAre
      <3> QED BY <3>1, <3>2, <3>3, DoingIsList
    <2>4. ts[n] = doing \o rest
      <3> DEFINE k == n - 1
      <3>1. k + 1 = n /\ k \in 1 .. Len(stack) - 1
        BY <1>2, <2>1
      <3> HIDE DEF k
      <3>2. ts[k + 1] = Doing(db, stack[k], Nested(db, k)) \o ts[k]
        BY <1>7, <3>1 DEF Behind
      <3> QED BY <3>1, <3>2 DEF k
    <2>5. ReturnsTo(db, stack', rest)
      <3> DEFINE stk == stack
                 stk2 == stack'
      <3>1. n = Len(stk) /\ n \in Nat /\ n > 1
        BY <1>2, <2>1
      <3>2. Behind(db, stk, ts)
        BY <1>7
      <3>3. Len(stk2) = n - 1 /\ \A i \in 1 .. n - 1 : stk2[i] = stk[i]
        BY <1>4
      <3>4. rest = ts[n - 1]
        OBVIOUS
      <3> HIDE DEF stk, stk2, n, rest
      <3>5. ReturnsTo(db, stk2, rest)
        BY <3>1, <3>2, <3>3, <3>4, BehindReturn
      <3> QED BY <3>5 DEF stk2
    <2>6. PICK us : Behind(db, stack', us) /\ us[n - 1] = rest
      BY <1>4, <2>5 DEF ReturnsTo
    <2>7. Run(db, ts[n], Here') = Run(db, rest, Run(db, doing, Here'))
      <3> HIDE DEF doing, rest
      <3>1. Run(db, doing \o rest, Here') = Run(db, rest, Run(db, doing, Here'))
        BY <2>2, <2>3, RunOfBoth
      <3> QED BY <2>4, <3>1
    <2>8. WalkLeft(db, stack', us, Here') = Run(db, rest, Run(db, doing, Here'))
      <3>1. stack' # <<>> /\ Len(stack') = n - 1 /\ stack'[n - 1] = stack[n - 1]
        <4>1. Len(stack') > 0
          BY <1>4, <2>1
        <4> QED BY <1>4, <2>1, <4>1
      <3> HIDE DEF rest
      <3> QED BY <2>6, <3>1 DEF WalkLeft
    <2> QED BY <1>1, <1>7, <1>8, <1>9, <2>6, <2>7, <2>8 DEF Answering
  <1> QED BY <1>1, <1>10, <1>11

\* All that is left of a round, whose outcome is r, is the call for c.
Begun(b, c, pkt, pos, stk, r) ==
  /\ Starts(stk) = <<pos>>
  /\ \E ts : Behind(b, stk, ts) /\ r = Choose(b, c, WalkLeft(b, stk, ts, Walk(pkt, pos, <<pos>>)))

\* A round of the descent starts with the call for the container reached.
LEMMA RoundBegins ==
  ASSUME NEW b \in Databases, NEW c \in Containers, NEW pkt, NEW pos \in Nat, NEW starts,
         NEW s, s = Reached(c, Walk(pkt, pos, starts), "none"),
         NEW stk, stk = <<Frame(c, pos)>>
  PROVE  Begun(b, c, pkt, pos, stk, Round(b, s))
  <1> DEFINE l == MAX_CONTAINER_DEPTH + 1
             f == Frame(c, pos)
             is == Instructions(b, l)[c]
             w == Walk(pkt, pos, <<pos>>)
  <1>1. Len(stk) = 1 /\ stk[1] = f /\ stk # <<>> /\ f.start = pos
    BY DEF Frame
  <1>2. Starts(stk) = <<pos>>
    BY <1>1 DEF Starts
  <1>3. Round(b, s) = Choose(b, c, Run(b, is, w))
    <2> DEFINE v == Walk(pkt, pos, starts)
    <2>1. v.pkt = pkt /\ v.pos = pos
      BY WalkIs
    <2> HIDE DEF v
    <2>2. s.at = c /\ s.answer = "none" /\ s.walk = v
      BY DEF Reached, v
    <2> HIDE DEF w
    <2>3. w = Walk(s.walk.pkt, s.walk.pos, <<s.walk.pos>>)
      BY <2>1, <2>2 DEF w
    <2> QED BY <2>2, <2>3 DEF Round, With
  <1>4. Doing(b, f, Nested(b, 1)) = is
    <2>1. l \in 1 .. MAX_CONTAINER_DEPTH + 1 /\ l - 1 = MAX_CONTAINER_DEPTH + 1 - 1
      BY DepthAssumption
    <2> HIDE DEF l
    <2>2. Doing(b, Frame(c, pos), Instructions(b, l - 1)) = Instructions(b, l)[c]
      BY <2>1, DoingFromStart
    <2> QED BY <2>1, <2>2 DEF Nested
  <1> HIDE DEF f, is, w
  <1>5. PICK ts : Behind(b, stk, ts) /\ ts[1] = <<>>
    BY <1>1, BehindOne
  <1>6. WalkLeft(b, stk, ts, w) = Run(b, is, w)
    BY <1>1, <1>4, <1>5, RunOfNothing DEF WalkLeft
  <1> QED BY <1>2, <1>3, <1>5, <1>6 DEF Begun, w

\* A call begins with the first round.
LEMMA WalkBegins ==
  ASSUME TypeOK, NEW d \in Packets, DecodeInto(d)
  PROVE  Answering'
  <1>1. /\ packet' = NewPacket(d, db.root) /\ current' = db.root /\ phase' = "entries"
        /\ stack' = <<Frame(db.root, 0)>> /\ db' = db /\ position' = 0
    BY DEF DecodeInto, Reset, NewPacket, TypeOK
  <1>2. db \in Databases /\ db.root \in Containers
    BY DatabaseAssumption DEF TypeOK
  <1>3. packet'.data = d
    BY <1>1 DEF NewPacket
  <1> DEFINE pkt == packet'
             s == Reached(db.root, Walk(NewPacket(d, db.root), 0, <<>>), "none")
             stk == stack'
  <1>4. Descent(db, d)[0] = s
    BY DescentIs
  <1>5. Descent(db, d)[1] = Round(db, s)
    <2>1. Cardinality(Containers) \in Nat /\ 1 \in 1 .. Cardinality(Containers) /\ 1 - 1 = 0
      <3>1. Depth(db, db.root) = 1 /\ Depth(db, db.root) \in 1 .. Cardinality(Containers)
        BY <1>2, DepthIs, DepthOfRoot
      <3>2. Cardinality(Containers) \in Nat
        BY DescentIs
      <3> QED BY <3>1, <3>2
    <2>2. Descent(db, d)[1] = Round(db, Descent(db, d)[1 - 1])
      BY <2>1, DescentIs
    <2> QED BY <1>4, <2>1, <2>2
  <1>6. s = Reached(db.root, Walk(pkt, 0, <<>>), "none") /\ stk = <<Frame(db.root, 0)>>
    BY <1>1
  <1> HIDE DEF pkt, s, stk
  <1>7. /\ Starts(stk) = <<0>>
        /\ \E ts : /\ Behind(db, stk, ts)
                   /\ Round(db, s) = Choose(db, db.root, WalkLeft(db, stk, ts, Walk(pkt, 0, <<0>>)))
    <2> DEFINE c == db.root
               pos == 0
    <2>1. c \in Containers /\ pos \in Nat
      BY <1>2
    <2>2. s = Reached(c, Walk(pkt, pos, <<>>), "none")
      BY <1>6
    <2>3. stk = <<Frame(c, pos)>>
      BY <1>6
    <2> HIDE DEF c, pos
    <2>4. Begun(db, c, pkt, pos, stk, Round(db, s))
      BY <1>2, <2>1, <2>2, <2>3, RoundBegins
    <2> QED BY <2>4 DEF Begun, c, pos
  <1>8. Here' = Walk(pkt, 0, <<0>>)
    BY <1>1, <1>7 DEF Here, pkt, stk
  <1>9. db.root \in PathTo(db, db.root) /\ Depth(db, db.root) = 1
    BY <1>2, PathOfRoot, DepthOfRoot
  <1> QED BY <1>1, <1>3, <1>5, <1>7, <1>8, <1>9 DEF Answering, stk

\* Behind the entries the choice alone is left.
LEMMA ChoiceIsLeft ==
  ASSUME TypeOK, Answering, Selecting
  PROVE  /\ db \in Databases /\ current \in Containers /\ stack = <<>>
         /\ Here = Walk(packet, position, <<>>)
         /\ db.root \in PathTo(db, current)
         /\ Depth(db, current) \in 1 .. Cardinality(Containers)
         /\ Cardinality(Containers) \in Nat
         /\ Descent(db, packet.data)[Depth(db, current)] = Choose(db, current, Here)
  <1>1. db \in Databases /\ current \in Containers /\ stack = <<>> /\ phase # "idle"
    BY DEF TypeOK, Selecting
  <1>2. Starts(stack) = <<>>
    BY <1>1 DEF Starts
  <1>3. PICK ts : /\ Behind(db, stack, ts)
                  /\ Descent(db, packet.data)[Depth(db, current)]
                       = Choose(db, current, WalkLeft(db, stack, ts, Here))
    BY <1>1 DEF Answering
  <1>4. WalkLeft(db, stack, ts, Here) = Here
    BY <1>1 DEF WalkLeft
  <1>5. db.root \in PathTo(db, current)
    BY <1>1 DEF Answering
  <1> QED BY <1>1, <1>2, <1>3, <1>4, <1>5, DepthIs, DescentIs DEF Here

\* What the descent chooses is what the decoder does.
LEMMA ChoiceIs ==
  ASSUME NEW heirs, heirs = Inheritors, NEW w, w.pkt = packet, w.pos = position, w.error = "none",
         NEW s, s = Choose(db, current, w),
         NEW failing, failing = {i \in DOMAIN heirs : Fails(heirs[i])}
  PROVE  /\ NoneFails <=> failing = {}
         /\ failing # {} =>
              s = Reached(current, w,
                    Selects(heirs[CHOOSE i \in failing : \A j \in failing : i <= j]))
         /\ NoneFails /\ (\E c, e \in Matching : c # e) =>
              s = Reached(current, w, "AmbiguousPacket")
         /\ \A c : NoneFails /\ Matching = {c} => s = Reached(c, w, "none")
         /\ NoneFails /\ Matching = {} /\ current \in db.abstract =>
              s = Reached(current, w, "UnrecognizedPacket")
         /\ NoneFails /\ Matching = {} /\ current \notin db.abstract =>
              s = Reached(current, [w EXCEPT !.pkt = Finish(packet, current, position)], "ok")
  <1> DEFINE all        == db.inheritors[current]
             verdict(i) == EvaluateAll(db.restriction[all[i]], w.pkt, {})
             bad        == {i \in DOMAIN all : verdict(i) \notin {Yes, No}}
             matching   == {all[i] : i \in {j \in DOMAIN all : verdict(j) = Yes}}
             done       == [w EXCEPT !.pkt = Finish(w.pkt, current, w.pos)]
  <1>1. Choose(db, current, w) =
          IF w.error # "none" THEN Reached(current, w, w.error)
          ELSE IF bad # {}
          THEN Reached(current, w, verdict(CHOOSE i \in bad : \A j \in bad : i <= j))
          ELSE IF \E k, l \in matching : k # l THEN Reached(current, w, "AmbiguousPacket")
          ELSE IF matching # {} THEN Reached(CHOOSE k \in matching : TRUE, w, "none")
          ELSE IF current \in db.abstract THEN Reached(current, w, "UnrecognizedPacket")
          ELSE Reached(current, done, "ok")
    BY DEF Choose
  <1>2. all = heirs /\ \A i : verdict(i) = Selects(heirs[i])
    BY DEF Selects, Inheritors
  <1>3. bad = failing
    BY <1>2 DEF Fails
  <1>4. matching = Matching
    BY <1>2 DEF Matching
  <1>5. done = [w EXCEPT !.pkt = Finish(packet, current, position)]
    OBVIOUS
  <1>6. NoneFails <=> failing = {}
    BY DEF NoneFails
  <1> HIDE DEF all, verdict, bad, matching, done
  <1>7. \A c : Matching = {c} => (CHOOSE k \in matching : TRUE) = c
    BY <1>4
  <1> QED BY <1>1, <1>2, <1>3, <1>4, <1>5, <1>6, <1>7

\* The inheritor chosen begins the next round.
LEMMA WalkDescends ==
  ASSUME TypeOK, Answering, Descend
  PROVE  Answering' /\ packet'.data = packet.data /\ phase' # "idle"
  <1>1. PICK c \in Matching : Matching = {c} /\ current' = c /\ stack' = <<Frame(c, position)>>
    BY DEF Descend
  <1>2. /\ Selecting /\ NoneFails /\ phase' = "entries"
        /\ db' = db /\ packet' = packet /\ position' = position
    BY DEF Descend
  <1>3. /\ db \in Databases /\ current \in Containers /\ position \in Nat
        /\ Here = Walk(packet, position, <<>>)
        /\ db.root \in PathTo(db, current)
        /\ Depth(db, current) \in 1 .. Cardinality(Containers)
        /\ Descent(db, packet.data)[Depth(db, current)] = Choose(db, current, Here)
    BY <1>2, ChoiceIsLeft DEF TypeOK
  <1>4. c \in Containers /\ Contains(db.inheritors[current], c)
    <2>1. IsSequence(Inheritors) /\ \A i \in DOMAIN Inheritors : Inheritors[i] \in Containers
      BY <1>3, DatabaseAssumption DEF Inheritors
    <2>2. DOMAIN Inheritors = 1 .. Len(Inheritors)
      BY <2>1, LenProperties DEF IsSequence
    <2>3. PICK i \in DOMAIN Inheritors : Inheritors[i] = c
      BY <1>1 DEF Matching
    <2> QED BY <2>1, <2>2, <2>3 DEF Contains, Inheritors
  <1>5. c # db.root
    BY <1>3, <1>4, NoWayBack
  <1>6. db.root \in PathTo(db, c)
    BY <1>3, <1>4, <1>5, PathGrows
  <1> DEFINE m == Cardinality(Containers)
             n == Depth(db, current)
             s == Choose(db, current, Here)
             d == packet.data
  <1>7. m \in Nat /\ n \in 1 .. m /\ Depth(db, c) = n + 1 /\ n + 1 \in 1 .. m
    <2>1. Depth(db, c) = n + 1 /\ Depth(db, c) \in 1 .. m
      BY <1>3, <1>4, <1>5, DepthGrows, DepthIs
    <2>2. m \in Nat
      BY DescentIs
    <2> QED BY <1>3, <2>1, <2>2
  <1>8. Descent(db, d)[n + 1] = Round(db, s)
    <2> DEFINE k == n + 1
    <2>1. k \in 1 .. m /\ k - 1 = n
      BY <1>7
    <2> HIDE DEF k, n, s, d
    <2>2. Descent(db, d)[k] = Round(db, Descent(db, d)[k - 1])
      BY <2>1, DescentIs DEF m
    <2>3. Descent(db, d)[n] = s
      BY <1>3 DEF n, s, d
    <2> QED BY <2>1, <2>2, <2>3 DEF k
  <1>9. s = Reached(c, Walk(packet, position, <<>>), "none")
    <2> DEFINE heirs   == Inheritors
               failing == {i \in DOMAIN heirs : Fails(heirs[i])}
               w       == Here
    <2>1. w.pkt = packet /\ w.pos = position /\ w.error = "none"
      BY WalkIs DEF Here
    <2> HIDE DEF w, heirs, failing
    <2>2. s = Choose(db, current, w)
      BY DEF w
    <2> HIDE DEF s
    <2>3. \A x : NoneFails /\ Matching = {x} => s = Reached(x, w, "none")
      BY <2>1, <2>2, ChoiceIs DEF heirs, failing
    <2> QED BY <1>1, <1>2, <1>3, <2>3 DEF w
  <1> DEFINE stk == stack'
  <1>10. stk = <<Frame(c, position)>>
    BY <1>1
  <1> HIDE DEF stk, s, n, d, m
  <1>11. Begun(db, c, packet, position, stk, Round(db, s))
    BY <1>3, <1>4, <1>9, <1>10, RoundBegins
  <1>12. Here' = Walk(packet, position, <<position>>)
    BY <1>2, <1>11 DEF Begun, Here, stk
  <1>13. Descent(db, packet.data)[Depth(db, c)] = Round(db, s)
    BY <1>7, <1>8 DEF d
  <1> QED BY <1>1, <1>2, <1>6, <1>11, <1>12, <1>13 DEF Answering, Begun, stk

\* The answer of the choice is the answer of the call.
LEMMA WalkAnswers ==
  ASSUME TypeOK, Answering, Selecting, NEW s, s = Choose(db, current, Here),
         s.answer # "none", phase' = "idle", db' = db,
         result' = s.answer, packet' = s.walk.pkt
  PROVE  Contract!Next
  <1> DEFINE n == Depth(db, current)
  <1>1. /\ n \in 1 .. Cardinality(Containers) /\ Cardinality(Containers) \in Nat
        /\ Descent(db, packet.data)[n] = s
    BY ChoiceIsLeft
  <1>2. n \in 0 .. Cardinality(Containers)
    BY <1>1
  <1> HIDE DEF n
  <1>3. Outcome(db, packet.data) = Reply(s.answer, s.walk.pkt)
    BY <1>1, <1>2, OutcomeIs
  <1>4. phase # "idle"
    BY DEF Selecting
  <1> QED BY <1>3, <1>4, AnswerSeen

\* An error of the choice.
LEMMA WalkRejects ==
  ASSUME TypeOK, Answering, Selecting, NEW error, error # "none", Fail(error),
         Choose(db, current, Here) = Reached(current, Here, error)
  PROVE  Contract!Next
  <1> DEFINE s == Choose(db, current, Here)
             w == Here
  <1>1. w.pkt = packet
    BY WalkIs DEF Here
  <1>2. s.answer = error /\ s.walk.pkt = packet
    <2> HIDE DEF w
    <2>1. s = Reached(current, w, error)
      BY DEF w
    <2> HIDE DEF s
    <2> QED BY <1>1, <2>1 DEF Reached
  <1>3. phase' = "idle" /\ db' = db /\ result' = error /\ packet' = packet
    BY DEF Fail
  <1> HIDE DEF s
  <1>4. s = Choose(db, current, Here)
    BY DEF s
  <1> QED BY <1>2, <1>3, <1>4, WalkAnswers

\* What the choice is, of the walk as the decoder has it.
LEMMA ChoiceHere ==
  ASSUME NEW failing, failing = {i \in DOMAIN Inheritors : Fails(Inheritors[i])}
  PROVE  /\ failing # {} =>
              Choose(db, current, Here) =
                Reached(current, Here,
                  Selects(Inheritors[CHOOSE i \in failing : \A j \in failing : i <= j]))
         /\ NoneFails /\ (\E c, e \in Matching : c # e) =>
              Choose(db, current, Here) = Reached(current, Here, "AmbiguousPacket")
         /\ NoneFails /\ Matching = {} /\ current \in db.abstract =>
              Choose(db, current, Here) = Reached(current, Here, "UnrecognizedPacket")
         /\ NoneFails /\ Matching = {} /\ current \notin db.abstract =>
              Choose(db, current, Here) =
                Reached(current, [Here EXCEPT !.pkt = Finish(packet, current, position)], "ok")
  <1> DEFINE heirs == Inheritors
             w == Here
             s == Choose(db, current, w)
  <1>1. w.pkt = packet /\ w.pos = position /\ w.error = "none"
    BY WalkIs DEF Here
  <1>2. heirs = Inheritors /\ failing = {i \in DOMAIN heirs : Fails(heirs[i])}
    OBVIOUS
  <1>3. s = Choose(db, current, w)
    OBVIOUS
  <1> HIDE DEF w, heirs, s
  <1>4. /\ failing # {} =>
             s = Reached(current, w,
                   Selects(heirs[CHOOSE i \in failing : \A j \in failing : i <= j]))
        /\ NoneFails /\ (\E c, e \in Matching : c # e) =>
             s = Reached(current, w, "AmbiguousPacket")
        /\ NoneFails /\ Matching = {} /\ current \in db.abstract =>
             s = Reached(current, w, "UnrecognizedPacket")
        /\ NoneFails /\ Matching = {} /\ current \notin db.abstract =>
             s = Reached(current, [w EXCEPT !.pkt = Finish(packet, current, position)], "ok")
    BY <1>1, <1>2, <1>3, ChoiceIs
  <1> QED BY <1>4 DEF w, heirs, s

\* Criteria that fail are reported, the first in document order.
LEMMA WalkRejectsCriteria ==
  ASSUME TypeOK, Answering, RejectCriteria
  PROVE  Contract!Next
  <1>1. Selecting
    BY DEF RejectCriteria
  <1>2. PICK i \in DOMAIN Inheritors :
          /\ Fails(Inheritors[i])
          /\ \A j \in 1 .. i - 1 : ~ Fails(Inheritors[j])
          /\ Fail(Selects(Inheritors[i]))
    BY DEF RejectCriteria
  <1> DEFINE heirs   == Inheritors
             failing == {k \in DOMAIN heirs : Fails(heirs[k])}
             first   == CHOOSE k \in failing : \A j \in failing : k <= j
             error   == Selects(heirs[i])
  <1>3. IsSequence(heirs) /\ \A k \in DOMAIN heirs : heirs[k] \in Containers
    BY DatabaseAssumption DEF TypeOK, Inheritors
  <1>4. DOMAIN heirs = 1 .. Len(heirs) /\ Len(heirs) \in Nat
    BY <1>3, LenProperties DEF IsSequence
  <1>5. error \in Verdicts
    <2>1. WellFormedCriteria(db.restriction[heirs[i]])
      BY <1>3, DatabaseAssumption DEF TypeOK
    <2> QED BY <2>1, VerdictKinds DEF Selects
  <1>6. error # "none"
    BY <1>5 DEF Verdicts, Yes, No
  <1>7. i \in failing /\ failing \subseteq 1 .. Len(heirs) /\ \A j \in failing : ~ j <= i - 1
    BY <1>2, <1>4
  <1> HIDE DEF heirs, failing
  <1>8. first = i
    <2>1. \A j \in failing : i <= j
      BY <1>4, <1>7
    <2>2. \A k \in failing : (\A j \in failing : k <= j) => k = i
      BY <1>4, <1>7, <2>1
    <2> QED BY <1>7, <2>1, <2>2
  <1>9. Choose(db, current, Here) = Reached(current, Here, Selects(heirs[first]))
    BY <1>7, ChoiceHere DEF heirs, failing
  <1> HIDE DEF first
  <1>10. Choose(db, current, Here) = Reached(current, Here, error)
    BY <1>8, <1>9
  <1>11. Fail(error)
    BY <1>2 DEF heirs
  <1> HIDE DEF error
  <1> QED BY <1>1, <1>6, <1>10, <1>11, WalkRejects

\* A match that is not the only one.
LEMMA WalkRejectsAmbiguity ==
  ASSUME TypeOK, Answering, RejectAmbiguous
  PROVE  Contract!Next
  <1>1. Selecting /\ NoneFails /\ (\E c, e \in Matching : c # e) /\ Fail("AmbiguousPacket")
    BY DEF RejectAmbiguous
  <1>2. Choose(db, current, Here) = Reached(current, Here, "AmbiguousPacket")
    BY <1>1, ChoiceHere
  <1> QED BY <1>1, <1>2, WalkRejects

\* No match, in a container that is never the last one.
LEMMA WalkRejectsPacket ==
  ASSUME TypeOK, Answering, RejectUnrecognized
  PROVE  Contract!Next
  <1>1. /\ Selecting /\ NoneFails /\ Matching = {} /\ current \in db.abstract
        /\ Fail("UnrecognizedPacket")
    BY DEF RejectUnrecognized
  <1>2. Choose(db, current, Here) = Reached(current, Here, "UnrecognizedPacket")
    BY <1>1, ChoiceHere
  <1> QED BY <1>1, <1>2, WalkRejects

\* No match: the packet is finished.
LEMMA WalkSucceeds ==
  ASSUME TypeOK, Answering, Succeed
  PROVE  Contract!Next
  <1>1. /\ Selecting /\ NoneFails /\ Matching = {} /\ current \notin db.abstract
        /\ phase' = "idle" /\ db' = db /\ result' = "ok"
        /\ packet' = Finish(packet, current, position)
    BY DEF Succeed
  <1> DEFINE p == Finish(packet, current, position)
             w == [Here EXCEPT !.pkt = p]
             s == Choose(db, current, Here)
  <1>2. s = Reached(current, w, "ok")
    BY <1>1, ChoiceHere
  <1>3. w.pkt = p
    BY DEF Here, Walk
  <1> HIDE DEF w, s
  <1>4. s.answer = "ok" /\ s.walk.pkt = p
    BY <1>2, <1>3 DEF Reached
  <1>5. s = Choose(db, current, Here)
    BY DEF s
  <1> QED BY <1>1, <1>4, <1>5, WalkAnswers

\* Nothing is asked of a decoder yet, and nothing shown.
LEMMA WalkStarts == Init => Answering /\ Contract!Init
  BY DEF Init, Answering, Contract!Init, Unasked, Pending, Shown

\* A step inside a call is not seen, and keeps the walk; the others are the
\* contract's.
LEMMA WalkSteps ==
  TypeOK /\ NestingBounded /\ Answering /\ [Next]_vars
    => Answering' /\ [Contract!Next]_(Contract!contractVars)
<1> SUFFICES ASSUME TypeOK, NestingBounded, Answering, [Next]_vars
             PROVE  Answering' /\ [Contract!Next]_(Contract!contractVars)
  OBVIOUS
<1>1. phase' = "idle" => Answering'
  BY DEF Answering
<1>2. ASSUME Answering', packet'.data = packet.data, phase # "idle", phase' # "idle", db' = db
      PROVE  Answering' /\ [Contract!Next]_(Contract!contractVars)
  BY <1>2, NotSeen DEF Contract!contractVars
<1>3. CASE UNCHANGED vars
  <2>1. Answering'
    BY <1>3 DEF vars, Answering, Here, Starts
  <2>2. UNCHANGED <<db, Pending, Shown>>
    BY <1>3 DEF vars, Pending, Shown
  <2> QED BY <2>1, <2>2 DEF Contract!contractVars
<1>4. ASSUME NEW d \in Packets, DecodeInto(d)
      PROVE  Answering' /\ [Contract!Next]_(Contract!contractVars)
  BY <1>4, WalkBegins, CallSeen
<1>5. CASE RejectLocation
  BY <1>1, <1>5, WalkRejectsLocation DEF RejectLocation, Fail
<1>6. CASE DecodeParameter
  <2>1. IF phase' = "idle" THEN Contract!Next ELSE Answering' /\ packet'.data = packet.data
    BY <1>6, WalkDecodes
  <2>2. phase # "idle" /\ db' = db
    BY <1>6 DEF DecodeParameter, InEntries, Fail
  <2> QED BY <1>1, <1>2, <2>1, <2>2
<1>7. CASE EnterContainer
  <2>1. IF phase' = "idle" THEN Contract!Next ELSE Answering' /\ packet'.data = packet.data
    BY <1>7, WalkEnters
  <2>2. phase # "idle" /\ db' = db
    BY <1>7 DEF EnterContainer, InEntries, Fail
  <2> QED BY <1>1, <1>2, <2>1, <2>2
<1>8. CASE SkipFixedValue
  <2>1. IF phase' = "idle" THEN Contract!Next ELSE Answering' /\ packet'.data = packet.data
    BY <1>8, WalkSkips
  <2>2. phase # "idle" /\ db' = db
    BY <1>8 DEF SkipFixedValue, InEntries, Fail
  <2> QED BY <1>1, <1>2, <2>1, <2>2
<1>9. CASE RejectEntry
  BY <1>1, <1>9, WalkRejectsEntry DEF RejectEntry, Fail
<1>10. CASE NextEntry
  <2>1. phase # "idle" /\ db' = db
    BY <1>10 DEF NextEntry, InEntries
  <2> QED BY <1>2, <1>10, <2>1, WalkToNextEntry
<1>11. CASE LeaveContainer
  <2>1. phase # "idle" /\ db' = db
    BY <1>11 DEF LeaveContainer, InEntries
  <2> QED BY <1>2, <1>11, <2>1, WalkLeaves
<1>12. CASE RejectCriteria
  BY <1>1, <1>12, WalkRejectsCriteria DEF RejectCriteria, Fail
<1>13. CASE RejectAmbiguous
  BY <1>1, <1>13, WalkRejectsAmbiguity DEF RejectAmbiguous, Fail
<1>14. CASE Descend
  <2>1. phase # "idle" /\ db' = db
    BY <1>14 DEF Descend, Selecting
  <2> QED BY <1>2, <1>14, <2>1, WalkDescends
<1>15. CASE RejectUnrecognized
  BY <1>1, <1>15, WalkRejectsPacket DEF RejectUnrecognized, Fail
<1>16. CASE Succeed
  BY <1>1, <1>16, WalkSucceeds DEF Succeed
<1> QED BY <1>3, <1>4, <1>5, <1>6, <1>7, <1>8, <1>9, <1>10, <1>11, <1>12, <1>13, <1>14,
           <1>15, <1>16 DEF Next, Step

\* Decoding into a reused buffer answers exactly what decoding into a fresh one
\* would, error or not, whatever was decoded before: the decoder implements the
\* contract of decode_into.
THEOREM DecoderImplementsContract == Spec => AnswersContract
<1>1. Spec => [](TypeOK /\ NestingBounded)
  BY Typing, NestingIsBounded, PTL
<1> QED
  BY <1>1, WalkStarts, WalkSteps, PTL DEF Spec, AnswersContract, Contract!Safety
===============================================================================
