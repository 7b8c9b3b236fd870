----------------------------- MODULE PacketBuffer -----------------------------
(***************************************************************************)
(* The reusable packet buffer of xtce-decode (value.rs, DecodedPacket): a  *)
(* vector of parameter values in decode order, and a hash table `slots`    *)
(* from a parameter to the index of its value.  The two are kept in step   *)
(* by Insert and Reset alone, and everything that reads a decoded value    *)
(* (match criteria, dynamic sizes, callers) goes through `slots`.          *)
(*                                                                         *)
(* A packet buffer is a record.  Indices are 1-based where the code's are  *)
(* 0-based.                                                                *)
(***************************************************************************)
EXTENDS Integers, Sequences

CONSTANT Params             \* the parameters of the loaded databases

NoSlots == [p \in {} |-> 0]

\* DecodedPacket::with_capacity: a buffer that has decoded nothing yet.
NewPacket(d, root) ==
  [data         |-> d,
   values       |-> <<>>,
   slots        |-> NoSlots,
   container    |-> root,
   bitsConsumed |-> 0]

\* Mutant: the table survives the clearing of the vector it indexes.
ResetKeepsSlots(pkt, d, root) ==
  [NewPacket(d, root) EXCEPT !.slots = pkt.slots]

\* Mutant: the previous packet's values survive, with their slots.
ResetKeepsValues(pkt, d, root) ==
  [pkt EXCEPT !.data = d, !.container = root, !.bitsConsumed = 0]

\* DecodedPacket::reset: empties the buffer, keeping only its allocations.
Reset(pkt, d, root) ==
  [pkt EXCEPT !.values       = <<>>,
              !.slots        = NoSlots,
              !.data         = d,
              !.container    = root,
              !.bitsConsumed = 0]

\* DecodedPacket::get.
Has(pkt, p) == p \in DOMAIN pkt.slots /\ pkt.slots[p] \in DOMAIN pkt.values
Get(pkt, p) == pkt.values[pkt.slots[p]]

Extend(slots, p, index) ==
  [q \in DOMAIN slots \cup {p} |-> IF q = p THEN index ELSE slots[q]]

\* Mutant: a repeated parameter is appended again and the table re-pointed.
InsertAlwaysAppends(pkt, v) ==
  [pkt EXCEPT !.slots  = Extend(@, v.parameter, Len(pkt.values) + 1),
              !.values = Append(@, v)]

\* DecodedPacket::insert: a parameter that already has a slot is overwritten
\* in place; a slot that points outside the vector drops the value silently.
Insert(pkt, v) ==
  IF v.parameter \in DOMAIN pkt.slots
  THEN IF pkt.slots[v.parameter] \in DOMAIN pkt.values
       THEN [pkt EXCEPT !.values[pkt.slots[v.parameter]] = v]
       ELSE pkt
  ELSE [pkt EXCEPT !.slots  = Extend(@, v.parameter, Len(pkt.values) + 1),
                   !.values = Append(@, v)]

\* DecodedPacket::set_container and set_bits_consumed, called on success only.
Finish(pkt, c, bits) == [pkt EXCEPT !.container = c, !.bitsConsumed = bits]

\* DecodedPacket::trailing_bits.
TrailingBits(pkt) == Len(pkt.data) - pkt.bitsConsumed

-------------------------------------------------------------------------------
(***************************************************************************)
(* "The packet reads as a map with stable ordering": the table and the     *)
(* vector are inverse to each other, so no parameter is reported twice and *)
(* no value is unreachable.                                                *)
(***************************************************************************)
IsMap(pkt) ==
  /\ DOMAIN pkt.slots \subseteq Params
  /\ \A p \in DOMAIN pkt.slots :
       /\ pkt.slots[p] \in 1 .. Len(pkt.values)
       /\ pkt.values[pkt.slots[p]].parameter = p
  /\ \A i \in 1 .. Len(pkt.values) :
       /\ pkt.values[i].parameter \in DOMAIN pkt.slots
       /\ pkt.slots[pkt.values[i].parameter] = i
===============================================================================
