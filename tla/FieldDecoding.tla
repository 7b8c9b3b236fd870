----------------------------- MODULE FieldDecoding -----------------------------
(***************************************************************************)
(* Decoding one parameter (decoder.rs, decode_value and what it calls): the *)
(* bits of the field, its raw value, and the engineering value made from   *)
(* it by an enumeration, a boolean or a calibrator.                        *)
(*                                                                         *)
(* A packet is a sequence of bits whose length is a multiple of eight.  A  *)
(* parameter type is a record                                              *)
(*   [kind, encoding, labels]                                              *)
(* with kind numeric, enumerated, boolean, binary or unsupported, and      *)
(* encoding one of                                                         *)
(*   [form |-> "integer", coding, width, contexts, default]                *)
(*   [form |-> "binary", size]                                             *)
(*   [form |-> "none"].                                                    *)
(* Outside this module: float and string encodings and little-endian       *)
(* integers, spline calibrators, and the width of machine integers.        *)
(***************************************************************************)
EXTENDS Criteria

WellFormedType(type) ==
  LET encoding == type.encoding IN
  /\ encoding.form \in {"integer", "binary", "none"}
  /\ encoding.form = "integer" =>
       /\ encoding.width \in Nat
       /\ IsSequence(encoding.contexts)
       /\ \A i \in DOMAIN encoding.contexts : WellFormedCriteria(encoding.contexts[i].criteria)
  /\ encoding.form = "binary" =>
       /\ encoding.size.kind \in {"fixed", "dynamic", "lookup", "unsupported"}
       /\ encoding.size.kind = "lookup" =>
            /\ IsSequence(encoding.size.lookups)
            /\ \A i \in DOMAIN encoding.size.lookups :
                 WellFormedCriteria(encoding.size.lookups[i].criteria)

MAX_UINT_BITS == 64         \* widest integer field, BitError::TooWide above

\* BitCursor::bounds_check and the checks of skip and peek_uint.
InBounds(d, position, width) == position + width <= Len(d)

\* BitCursor::peek_uint: the bits from `position`, most significant first.
PeekUInt(d, position, width) ==
  LET read[k \in 0 .. width] ==
        IF k = 0 THEN 0 ELSE 2 * read[k - 1] + d[position + k]
  IN read[width]

\* bits.rs twos_complement, sign_magnitude and ones_complement.
Interpret(coding, bits, width) ==
  LET negative == width > 0 /\ bits >= 2 ^ (width - 1)
  IN CASE coding = "unsigned" \/ ~ negative -> bits
       [] coding = "twosComplement" -> bits - 2 ^ width
       [] coding = "onesComplement" -> bits - (2 ^ width - 1)
       [] coding = "signMagnitude"  -> 2 ^ (width - 1) - bits

Integral(value) == value.kind \in {"unsigned", "signed", "bool"}
Numeric(value)  == Integral(value) \/ value.kind = "float"

\* The value a dynamic size or an enumeration is computed from, if numeric.
NumericSide(v, useCalibrated) ==
  LET value == IF useCalibrated THEN v.eng ELSE v.raw
  IN IF Numeric(value) THEN {value.v} ELSE {}

\* usize::try_from at the end of resolve_size refuses a negative size.
Size(bits) == IF bits \in Nat THEN [error |-> "none", bits |-> bits]
              ELSE [error |-> "BadFieldSize", bits |-> 0]
NoSize(error) == [error |-> error, bits |-> 0]

\* resolve_size, SizeSpec::Dynamic; [slope 1, intercept 0] is no adjustment.
DynamicSize(spec, pkt) ==
  IF ~ Has(pkt, spec.parameter) THEN NoSize("ParameterNotYetDecoded")
  ELSE LET v == NumericSide(Get(pkt, spec.parameter), spec.useCalibrated) IN
    IF v = {} THEN NoSize("BadFieldSize")
    ELSE Size(spec.slope * (CHOOSE n \in v : TRUE) + spec.intercept)

\* discrete_lookup: the first lookup whose criteria all hold.
LookupVerdict(l, pkt) == EvaluateAll(l.criteria, pkt, {})
LookupIndex(lookups, pkt) ==
  SelectInSeq(lookups, LAMBDA l : LookupVerdict(l, pkt) # No)
DiscreteLookup(lookups, pkt) ==
  With(LookupIndex(lookups, pkt), LAMBDA i :
    IF i = 0 THEN NoSize("NoDiscreteLookupMatch")
    ELSE IF LookupVerdict(lookups[i], pkt) # Yes
    THEN NoSize(LookupVerdict(lookups[i], pkt))
    ELSE Size(lookups[i].value))

\* resolve_size.
ResolveSize(spec, pkt) ==
  IF spec.kind = "fixed" THEN Size(spec.bits)
  ELSE IF spec.kind = "dynamic" THEN DynamicSize(spec, pkt)
  ELSE IF spec.kind = "lookup" THEN DiscreteLookup(spec.lookups, pkt)
  ELSE NoSize("Unsupported")

NoRaw == [kind |-> "bytes", v |-> 0]
Read(width, raw) == [error |-> "none", width |-> width, raw |-> raw]
NoRead(error)    == [error |-> error, width |-> 0, raw |-> NoRaw]

\* The raw value a field of this encoding has, given where it lies.
RawAt(encoding, d, position, width) ==
  LET bits == PeekUInt(d, position, width)
  IN IF encoding.form = "binary" THEN [kind |-> "bytes", v |-> bits]
     ELSE [kind |-> IF encoding.coding = "unsigned" THEN "unsigned" ELSE "signed",
           v    |-> Interpret(encoding.coding, bits, width)]

\* Mutant: a field past the end of the packet reads as zero.
ReadRawPadded(encoding, pkt, position) ==
  LET width == IF encoding.form = "integer" THEN encoding.width
               ELSE ResolveSize(encoding.size, pkt).bits
  IN IF encoding.form = "none" THEN NoRead("Unsupported")
     ELSE IF InBounds(pkt.data, position, width)
     THEN Read(width, RawAt(encoding, pkt.data, position, width))
     ELSE Read(width, RawAt(encoding, pkt.data, 0, 0))

\* read_raw.  An empty integer field reads as 0 wherever the cursor is; an
\* empty binary field past the end is still out of bounds.
ReadInteger(encoding, pkt, position) ==
  LET width == encoding.width
  IN IF \/ width > MAX_UINT_BITS
        \/ width > 0 /\ ~ InBounds(pkt.data, position, width)
     THEN NoRead("Bits")
     ELSE Read(width, RawAt(encoding, pkt.data, position, width))

ReadBinary(encoding, pkt, position) ==
  With(ResolveSize(encoding.size, pkt), LAMBDA size :
    IF size.error # "none" THEN NoRead(size.error)
    ELSE IF ~ InBounds(pkt.data, position, size.bits) THEN NoRead("Bits")
    ELSE Read(size.bits, RawAt(encoding, pkt.data, position, size.bits)))

ReadRaw(encoding, pkt, position) ==
  IF encoding.form = "integer" THEN ReadInteger(encoding, pkt, position)
  ELSE IF encoding.form = "binary" THEN ReadBinary(encoding, pkt, position)
  ELSE NoRead("Unsupported")

\* EnumerationList::label_for: the last entry starting at or below the value,
\* then one check of its upper bound.  Entries are sorted by their start.
LabelFor(labels, value) ==
  LET i == SelectLastInSeq(labels, LAMBDA e : e.value <= value)
  IN IF i = 0 THEN {}
     ELSE IF value <= labels[i].max THEN {labels[i].label} ELSE {}

\* run_calibrator over a polynomial: terms in document order, and x^0 is 1.
Power(x, n) == IF n = 0 THEN 1 ELSE x ^ n
Polynomial(terms, x) ==
  FoldLeft(LAMBDA sum, t : sum + t.coefficient * Power(x, t.exponent), 0, terms)

Calibrated(v)  == [error |-> "none", eng |-> [kind |-> "float", v |-> v]]
Uncalibrated(raw) == [error |-> "none", eng |-> raw]
NoEng(error)   == [error |-> error, eng |-> NoRaw]

RunCalibrator(calibrator, x) ==
  IF calibrator.kind = "unsupported" THEN NoEng("Unsupported")
  ELSE Calibrated(Polynomial(calibrator.terms, x))

\* calibrate: the first context calibrator whose criteria all hold, else the
\* default one, else the raw value itself.
Calibrate(encoding, raw, pkt) ==
  IF raw.kind = "bytes" THEN Uncalibrated(raw)
  ELSE LET Holds(c) == EvaluateAll(c.criteria, pkt, {raw})
       IN With(SelectInSeq(encoding.contexts, LAMBDA c : Holds(c) # No), LAMBDA i :
            IF i # 0 /\ Holds(encoding.contexts[i]) # Yes
            THEN NoEng(Holds(encoding.contexts[i]))
            ELSE IF i # 0 THEN RunCalibrator(encoding.contexts[i].calibrator, raw.v)
            ELSE IF encoding.default # {}
            THEN RunCalibrator(CHOOSE c \in encoding.default : TRUE, raw.v)
            ELSE Uncalibrated(raw))

\* The engineering value of a raw value: enumerations and booleans look at
\* the raw value, never at a calibrated one.
Engineer(type, read, pkt) ==
  CASE type.kind = "enumerated" ->
         LET label == IF read.raw.kind = "bytes" THEN {}
                      ELSE LabelFor(type.labels, read.raw.v)
         IN IF label = {} THEN NoEng("UnknownEnumeration")
            ELSE [error |-> "none",
                  eng |-> [kind |-> "label", v |-> CHOOSE l \in label : TRUE]]
    [] type.kind = "boolean" ->
         LET truthy == IF read.raw.kind = "bytes" THEN read.width > 0
                       ELSE read.raw.v # 0
         IN [error |-> "none",
             eng |-> [kind |-> "bool", v |-> IF truthy THEN 1 ELSE 0]]
    [] OTHER -> Calibrate(type.encoding, read.raw, pkt)

NoValue(error) == [error |-> error, width |-> 0, raw |-> NoRaw, eng |-> NoRaw]

\* decode_value.
DecodeValue(type, pkt, position) ==
  IF type.kind = "unsupported" THEN NoValue("Unsupported")
  ELSE With(ReadRaw(type.encoding, pkt, position), LAMBDA read :
    IF read.error # "none" THEN NoValue(read.error)
    ELSE With(Engineer(type, read, pkt), LAMBDA made :
      IF made.error # "none" THEN NoValue(made.error)
      ELSE [error |-> "none", width |-> read.width, raw |-> read.raw,
            eng |-> made.eng]))
===============================================================================
