-------------------------------- MODULE Decoder --------------------------------
(***************************************************************************)
(* The interpreted decoder of xtce-decode (decoder.rs): Decoder::decode_into *)
(* over one reused packet buffer.                                          *)
(*                                                                         *)
(* A call starts at the root container, decodes its entry list (expanding   *)
(* container references inline, to a bounded depth), then tests every      *)
(* inheritor's restriction criteria against what has been decoded and      *)
(* descends to the only one that matches, until a concrete container has   *)
(* no match below it.  The recursion of decode_container is the explicit   *)
(* stack `stack`; one step decodes one repetition of one entry.            *)
(*                                                                         *)
(* A database is a record                                                  *)
(*   root        the container a decode starts from                        *)
(*   entries     container -> sequence of entries                          *)
(*   inheritors  container -> sequence of containers, in document order    *)
(*   restriction container -> sequence of criteria                         *)
(*   abstract    the set of abstract containers                            *)
(*   types       parameter -> type, see FieldDecoding                      *)
(* and an entry is                                                         *)
(*   [kind |-> "parameter", parameter, location, repeat]                   *)
(*   [kind |-> "container", child, location, repeat]                       *)
(*   [kind |-> "fixed", size, location, repeat]                            *)
(*   [kind |-> "unsupported", location, repeat]                            *)
(* where location is {} or {[reference, offset]} and repeat is the code's  *)
(* entry.repeat.unwrap_or(1).                                              *)
(***************************************************************************)
EXTENDS FieldDecoding

CONSTANTS
  Containers,           \* container identifiers
  Databases,            \* the databases a run considers
  Packets,              \* the packets a caller may hand over
  MAX_CONTAINER_DEPTH   \* bound on nested container references, 64 in the code

ASSUME DepthAssumption == MAX_CONTAINER_DEPTH \in Nat

\* A packet is a whole number of bytes.
ASSUME PacketAssumption ==
  \A d \in Packets : d \in Seq({0, 1}) /\ Len(d) % 8 = 0

\* What the lowering pass guarantees of a database, as far as decoding needs.
ASSUME DatabaseAssumption ==
  \A b \in Databases :
    /\ b.root \in Containers
    /\ b.abstract \subseteq Containers
    /\ \A p \in Params : WellFormedType(b.types[p])
    /\ \A c \in Containers :
         /\ IsSequence(b.inheritors[c]) /\ IsSequence(b.entries[c])
         /\ WellFormedCriteria(b.restriction[c])
         /\ \A i \in DOMAIN b.inheritors[c] : b.inheritors[c][i] \in Containers
         /\ \A i \in DOMAIN b.entries[c] :
              LET e == b.entries[c][i] IN
              /\ e.repeat \in Nat
              /\ e.kind \in {"parameter", "container", "fixed", "unsupported"}
              /\ e.kind = "parameter" => e.parameter \in Params
              /\ e.kind = "container" => e.child \in Containers
              /\ e.kind = "fixed" => e.size \in Nat
              /\ \A l \in e.location : l.offset \in Int

\* What link_inheritors and check_acyclic guarantee: a container is in the list
\* of one base at most, and going down from inheritor to inheritor ends
\* (Inheritance checks that, DescentEnds).
ASSUME TreeAssumption ==
  \A b \in Databases :
    /\ \A a, e, k \in Containers :
         Contains(b.inheritors[a], k) /\ Contains(b.inheritors[e], k) => a = e
    /\ \A S \in SUBSET Containers :
         (\A a \in S : \E k \in S : Contains(b.inheritors[a], k)) => S = {}

VARIABLES
  db,         \* the database of this decoder, fixed when it is built
  packet,     \* the caller's packet buffer, reused from call to call
  position,   \* the bit cursor
  current,    \* the container reached in the inheritance tree
  stack,      \* the active calls of decode_container, innermost last
  phase,      \* idle, or inside decode_into: entries or select
  result      \* what the last call returned: none, ok or an error

vars == <<db, packet, position, current, stack, phase, result>>

Frame(container, start) ==
  [container |-> container, start |-> start, entry |-> 1, repetition |-> 0]

Top      == stack[Len(stack)]
AtEnd    == Top.entry > Len(db.entries[Top.container])
Entry    == db.entries[Top.container][Top.entry]

\* usize::try_from(target).unwrap_or(0): a target before the packet is bit 0.
Located(base, offset) == IF base + offset >= 0 THEN base + offset ELSE 0

\* Where the entry starts: its location applies once, before the repetitions.
EntryStart ==
  IF Top.repetition # 0 \/ Entry.location = {} THEN position
  ELSE LET l == CHOOSE l \in Entry.location : TRUE
       IN Located(IF l.reference = "containerStart" THEN Top.start ELSE position,
                  l.offset)

\* containerEnd and nextEntry need a size the decoder does not know yet.
Unlocatable ==
  \E l \in Entry.location : l.reference \in {"containerEnd", "nextEntry"}

InEntries == phase = "entries" /\ stack # <<>>
Repeating == ~ AtEnd /\ ~ Unlocatable /\ Top.repetition < Entry.repeat

\* The top frame after one more repetition of its entry.
Repeated == [stack EXCEPT ![Len(stack)].repetition = @ + 1]

\* An error leaves decode_into at once: the buffer keeps what it holds.
Fail(error) ==
  /\ result' = error
  /\ phase'  = "idle"
  /\ stack'  = <<>>
  /\ UNCHANGED <<db, packet, position, current>>

-------------------------------------------------------------------------------
Init ==
  /\ db \in Databases
  /\ packet   = NewPacket(<<>>, db.root)
  /\ position = 0
  /\ current  = db.root
  /\ stack    = <<>>
  /\ phase    = "idle"
  /\ result   = "none"

\* decode_into is called with the next packet of the stream.
DecodeInto(d) ==
  /\ phase = "idle"
  /\ packet'   = Reset(packet, d, db.root)
  /\ position' = 0
  /\ current'  = db.root
  /\ stack'    = <<Frame(db.root, 0)>>
  /\ phase'    = "entries"
  /\ result'   = "none"
  /\ UNCHANGED db

RejectLocation ==
  /\ InEntries
  /\ ~ AtEnd
  /\ Unlocatable
  /\ Fail("Unsupported")

Reported(v) ==
  [parameter |-> Entry.parameter,
   raw       |-> v.raw,
   eng       |-> v.eng,
   bitOffset |-> EntryStart,
   bitWidth  |-> v.width]

\* decode_parameter: on success the value is inserted and the cursor moves on.
DecodeParameter ==
  /\ InEntries
  /\ Repeating
  /\ Entry.kind = "parameter"
  /\ \E v \in {DecodeValue(db.types[Entry.parameter], packet, EntryStart)} :
     IF v.error # "none" THEN Fail(v.error)
     ELSE /\ packet'   = Insert(packet, Reported(v))
          /\ position' = EntryStart + v.width
          /\ stack'    = Repeated
          /\ UNCHANGED <<db, current, phase, result>>

\* The recursive call of decode_container for a container reference; the
\* callee's depth is the number of callers above it.
EnterContainer ==
  /\ InEntries
  /\ Repeating
  /\ Entry.kind = "container"
  /\ IF Len(stack) > MAX_CONTAINER_DEPTH THEN Fail("Unsupported")
     ELSE /\ position' = EntryStart
          /\ stack'    = Append(Repeated, Frame(Entry.child, EntryStart))
          /\ UNCHANGED <<db, packet, current, phase, result>>

\* BitCursor::skip over a fixed value: bounds-checked, and nothing reported.
SkipFixedValue ==
  /\ InEntries
  /\ Repeating
  /\ Entry.kind = "fixed"
  /\ IF ~ InBounds(packet.data, EntryStart, Entry.size) THEN Fail("Bits")
     ELSE /\ position' = EntryStart + Entry.size
          /\ stack'    = Repeated
          /\ UNCHANGED <<db, packet, current, phase, result>>

RejectEntry ==
  /\ InEntries
  /\ Repeating
  /\ Entry.kind = "unsupported"
  /\ Fail("Unsupported")

\* The repetitions of an entry are over (there may have been none at all).
NextEntry ==
  /\ InEntries
  /\ ~ AtEnd
  /\ ~ Unlocatable
  /\ Top.repetition >= Entry.repeat
  /\ position' = EntryStart
  /\ stack' = [stack EXCEPT ![Len(stack)].entry = @ + 1,
                            ![Len(stack)].repetition = 0]
  /\ UNCHANGED <<db, packet, current, phase, result>>

\* decode_container returns to its caller, or to the loop of decode_into.
LeaveContainer ==
  /\ InEntries
  /\ AtEnd
  /\ stack' = SubSeq(stack, 1, Len(stack) - 1)
  /\ phase' = IF Len(stack) = 1 THEN "select" ELSE "entries"
  /\ UNCHANGED <<db, packet, position, current, result>>
-------------------------------------------------------------------------------
\* inheritor_matches, tested against everything decoded so far.
Inheritors == db.inheritors[current]
Selects(c) == EvaluateAll(db.restriction[c], packet, {})
Fails(c)   == Selects(c) \notin {Yes, No}
NoneFails  == \A i \in DOMAIN Inheritors : ~ Fails(Inheritors[i])

\* Mutant: the search stops at the first inheritor that matches.
FirstMatching ==
  LET i == SelectInSeq(Inheritors, LAMBDA c : Selects(c) = Yes)
  IN IF i = 0 THEN {} ELSE {Inheritors[i]}

\* Every inheritor is tested: a second match makes the packet ambiguous.
Matching == {Inheritors[i] : i \in {j \in DOMAIN Inheritors :
                                      Selects(Inheritors[j]) = Yes}}

Selecting == phase = "select"

RejectCriteria ==
  /\ Selecting
  /\ \E i \in DOMAIN Inheritors :
       /\ Fails(Inheritors[i])
       /\ \A j \in 1 .. i - 1 : ~ Fails(Inheritors[j])
       /\ Fail(Selects(Inheritors[i]))

RejectAmbiguous ==
  /\ Selecting
  /\ NoneFails
  /\ \E c, e \in Matching : c # e
  /\ Fail("AmbiguousPacket")

\* Mutant: the container that matched is decoded but not descended to.
DescendStays ==
  /\ Selecting
  /\ NoneFails
  /\ \E c \in Matching : Matching = {c} /\ stack' = <<Frame(c, position)>>
  /\ phase' = "entries"
  /\ UNCHANGED <<db, packet, position, current, result>>

\* Base entries were decoded on the way down; the cursor carries on.
Descend ==
  /\ Selecting
  /\ NoneFails
  /\ \E c \in Matching :
       /\ Matching = {c}
       /\ current' = c
       /\ stack'   = <<Frame(c, position)>>
  /\ phase' = "entries"
  /\ UNCHANGED <<db, packet, position, result>>

RejectUnrecognized ==
  /\ Selecting
  /\ NoneFails
  /\ Matching = {}
  /\ current \in db.abstract
  /\ Fail("UnrecognizedPacket")

Succeed ==
  /\ Selecting
  /\ NoneFails
  /\ Matching = {}
  /\ current \notin db.abstract
  /\ result' = "ok"
  /\ phase'  = "idle"
  /\ packet' = Finish(packet, current, position)
  /\ UNCHANGED <<db, position, current, stack>>

\* The steps a call takes by itself, once it has been made.
Step ==
  \/ RejectLocation
  \/ DecodeParameter
  \/ EnterContainer
  \/ SkipFixedValue
  \/ RejectEntry
  \/ NextEntry
  \/ LeaveContainer
  \/ RejectCriteria
  \/ RejectAmbiguous
  \/ Descend
  \/ RejectUnrecognized
  \/ Succeed

Next == (\E d \in Packets : DecodeInto(d)) \/ Step

\* A call runs to its end; nobody has to make another one.
Spec == Init /\ [][Next]_vars /\ WF_vars(Step)

-------------------------------------------------------------------------------
(***************************************************************************)
(* Safety.                                                                 *)
(***************************************************************************)

Frames ==
  [container : Containers, start : Nat, entry : Nat \ {0}, repetition : Nat]

\* The shape of every variable.  What a raw value is, ValuesOfThisPacket says.
TypeOK ==
  /\ db \in Databases
  /\ packet = [data         |-> packet.data,
               values       |-> packet.values,
               slots        |-> packet.slots,
               container    |-> packet.container,
               bitsConsumed |-> packet.bitsConsumed]
  /\ packet.data \in Packets \cup {<<>>}
  /\ IsSequence(packet.values)
  /\ packet.container \in Containers
  /\ packet.bitsConsumed \in Nat
  /\ position \in Nat
  /\ current \in Containers
  /\ stack \in Seq(Frames)
  /\ phase \in {"idle", "entries", "select"}
  /\ phase = "entries" <=> stack # <<>>

\* Between any two steps, and whatever the buffer was used for before, the
\* slot table and the value vector describe the same map: criteria, sizes and
\* callers look values up through the one and iterate over the other.
ReadsAsMap == IsMap(packet)

\* The buffer never shows the values of another packet, and "every out-of-range
\* read returns BitError": a value that has bits has all of them inside the
\* current packet, wherever a location entry moved the cursor, and its raw
\* value is what those bits hold.
ValuesOfThisPacket ==
  \A i \in 1 .. Len(packet.values) :
    LET v == packet.values[i] IN
    /\ v.bitOffset \in Nat
    /\ v.bitWidth \in Nat
    /\ v.bitWidth > 0 => InBounds(packet.data, v.bitOffset, v.bitWidth)
    /\ v.raw = RawAt(db.types[v.parameter].encoding, packet.data, v.bitOffset, v.bitWidth)

\* "On failure the buffer holds whatever was decoded before the error, which
\* must not be mistaken for a complete packet": until a call has succeeded
\* the buffer names the root container and claims no consumed bits.
UnfinishedIsUnmarked ==
  result # "ok" => packet.container = db.root /\ packet.bitsConsumed = 0

\* "Bounding the depth turns what would be a stack overflow into an error".
NestingBounded == Len(stack) <= MAX_CONTAINER_DEPTH + 1

\* While a call runs, a parameter that has been reported stays reported, at
\* the same place in the decode order: a later decode of it replaces only
\* its value.
OrderIsStable ==
  [][phase # "idle" =>
       \A p \in DOMAIN packet.slots :
         p \in DOMAIN packet'.slots /\ packet'.slots[p] = packet.slots[p]]_vars
-------------------------------------------------------------------------------
\* A set of containers that has, with each but the root, the base of each.
ClosedUpwards(b, S) ==
  \A k \in S \ {b.root}, a \in Containers : Contains(b.inheritors[a], k) => a \in S

\* The containers from c up to the root.
PathTo(b, c) ==
  {a \in Containers :
     \A S \in SUBSET Containers : c \in S /\ ClosedUpwards(b, S) => a \in S}

\* The entries that are decoded when their container is: all but those with a
\* repeat count of zero.
Uses(b) ==
  {u \in UNION {{c} \X DOMAIN b.entries[c] : c \in Containers} :
     b.entries[u[1]][u[2]].repeat > 0}
Used(b, u) == b.entries[u[1]][u[2]]

\* No packet of this database has a parameter twice: an entry is not repeated,
\* and a parameter or a container is in one place only, be that an entry, the
\* root or the inheritors of a base.
ParametersDecodedOnce(b) ==
  \A u \in Uses(b) :
    /\ Used(b, u).repeat = 1
    /\ Used(b, u).kind = "container" =>
         /\ Used(b, u).child # b.root
         /\ \A a \in Containers : ~ Contains(b.inheritors[a], Used(b, u).child)
    /\ \A w \in Uses(b) \ {u} :
         /\ Used(b, u).kind = "parameter" /\ Used(b, w).kind = "parameter" =>
              Used(b, u).parameter # Used(b, w).parameter
         /\ Used(b, u).kind = "container" /\ Used(b, w).kind = "container" =>
              Used(b, u).child # Used(b, w).child

\* The container reported is the only one the finished packet can be: on the
\* whole way down the criteria still hold of the final values for the child
\* taken and for no other, and below the reported one for none.
PathStillSelected ==
  phase = "idle" /\ result = "ok" /\ ParametersDecodedOnce(db) =>
    LET path == PathTo(db, packet.container) IN
    /\ db.root \in path
    /\ \A a \in path :
         {k \in ToSet(db.inheritors[a]) :
            EvaluateAll(db.restriction[k], packet, {}) = Yes}
         = {k \in path : Contains(db.inheritors[a], k)}
===============================================================================
