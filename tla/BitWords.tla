-------------------------------- MODULE BitWords -------------------------------
(***************************************************************************)
(* Reading a field out of bytes with machine words: the interpreter's      *)
(* cursor (xtce-decode, bits.rs) and the reads the code generator emits    *)
(* (xtce-codegen, emit.rs).  A byte has ByteBits bits, 8 in the code, and  *)
(* a word WordBytes bytes, also 8; the wide word that a load goes through  *)
(* has twice as many.  Words are numbers below their limit, so a shift to  *)
(* the left and a negation are taken modulo it.                            *)
(***************************************************************************)
EXTENDS Integers, SequencesExt

CONSTANTS ByteBits, WordBytes
ASSUME WordAssumption == ByteBits \in Nat \ {0} /\ WordBytes \in Nat \ {0}

\* Two to the n.
Pow2(n) ==
  LET upto[k \in 0 .. n] == IF k = 0 THEN 1 ELSE 2 * upto[k - 1] IN upto[n]

MaxWidth == ByteBits * WordBytes
ByteLimit == Pow2(ByteBits)
WordLimit == Pow2(MaxWidth)

Ok(v) == [error |-> "none", v |-> v]
Err(error) == [error |-> error, v |-> 0]
LenBits(data) == ByteBits * Len(data)
BytesFor(width) == (width + ByteBits - 1) \div ByteBits
Zeros(n) == [i \in 1 .. n |-> 0]

\* from_be_bytes, a right shift, a mask, and a cast from u64 to i64.
FromBe(bytes) ==
  LET upto[n \in 0 .. Len(bytes)] ==
        IF n = 0 THEN 0 ELSE upto[n - 1] * ByteLimit + bytes[n]
  IN upto[Len(bytes)]
ShiftRight(n, by) == n \div Pow2(by)
Mask(n, width) == n % Pow2(width)
AsSigned(n) == IF n < WordLimit \div 2 THEN n ELSE n - WordLimit
TestBit(n, k) == ShiftRight(n, k) % 2 = 1

\* What there is of so many bytes from a byte on.
Rest(data, byte, count) ==
  SubSeq(data, byte + 1, IF byte + count < Len(data) THEN byte + count ELSE Len(data))

\* Mutant: the load is one word, as "the obvious implementation" has it.
WideLoadOfWord(data, byte) ==
  LET tail == Rest(data, byte, WordBytes)
  IN FromBe(tail \o Zeros(2 * WordBytes - Len(tail)))

\* The load of peek_uint and read_at: a wide word from a byte on, short ends
\* filled with zeros.
WideLoad(data, byte) ==
  LET tail == Rest(data, byte, 2 * WordBytes)
  IN FromBe(tail \o Zeros(2 * WordBytes - Len(tail)))

\* BitCursor::peek_uint.
PeekUint(data, at, width) ==
  CASE width > MaxWidth -> Err("TooWide")
    [] width = 0        -> Ok(0)
    [] width \in 1 .. MaxWidth /\ at + width > LenBits(data) -> Err("OutOfBounds")
    [] OTHER ->
         LET shift == 2 * MaxWidth - (at % ByteBits) - width
         IN Ok(Mask(ShiftRight(WideLoad(data, at \div ByteBits), shift) % WordLimit, width))

\* aligned_slice: the bytes themselves, where no copy is needed.
AlignedSlice(data, at, width) ==
  LET first == at \div ByteBits
      count == width \div ByteBits
  IN IF at % ByteBits = 0 /\ width % ByteBits = 0 /\ first + count <= Len(data)
     THEN {SubSeq(data, first + 1, first + count)} ELSE {}

\* read_bytes: the slack is in front of the first byte.
ReadBytes(data, at, width) ==
  LET pad == ByteBits * BytesFor(width) - width
      ByteAt(index) ==
        IF ByteBits * index >= pad
        THEN PeekUint(data, at + ByteBits * index - pad, ByteBits).v
        ELSE PeekUint(data, at, ByteBits - pad).v
  IN IF AlignedSlice(data, at, width) # {}
     THEN Ok(CHOOSE s \in AlignedSlice(data, at, width) : TRUE)
     ELSE IF at + width > LenBits(data) THEN Err("OutOfBounds")
     ELSE Ok([i \in 1 .. BytesFor(width) |-> ByteAt(i - 1)])

\* read_bytes_left_aligned: the slack is behind the last one.
ReadBytesLeftAligned(data, at, width) ==
  LET ByteAt(index) ==
        LET rest == width - ByteBits * index
            take == IF rest < ByteBits THEN rest ELSE ByteBits
        IN (PeekUint(data, at + ByteBits * index, take).v * Pow2(ByteBits - take)) % ByteLimit
  IN IF AlignedSlice(data, at, width) # {}
     THEN Ok(CHOOSE s \in AlignedSlice(data, at, width) : TRUE)
     ELSE IF at + width > LenBits(data) THEN Err("OutOfBounds")
     ELSE Ok([i \in 1 .. BytesFor(width) |-> ByteAt(i - 1)])

\* twos_complement, by two shifts.
TwosComplement(value, width) ==
  IF width \notin 1 .. MaxWidth THEN AsSigned(value)
  ELSE LET shift == Pow2(MaxWidth - width)
       IN AsSigned((value * shift) % WordLimit) \div shift

\* twos_complement_unmasked: None where the answer does not fit an i64.
FitsSigned(n) == n \in -(WordLimit \div 2) .. WordLimit \div 2 - 1
TwosComplementUnmasked(value, width) ==
  LET answer == IF TestBit(value, width - 1) THEN value - Pow2(width) ELSE value
  IN IF width = 0 \/ width >= MaxWidth THEN Ok(AsSigned(value))
     ELSE IF FitsSigned(answer) THEN Ok(answer) ELSE Err("Unsupported")

\* sign_magnitude and ones_complement.
SignMagnitude(value, width) ==
  IF width \notin 1 .. MaxWidth THEN AsSigned(value)
  ELSE LET magnitude == Mask(value, width - 1)
       IN IF TestBit(value, width - 1) THEN -magnitude ELSE magnitude
OnesComplement(value, width) ==
  IF width \notin 1 .. MaxWidth THEN AsSigned(value)
  ELSE IF TestBit(value, width - 1) THEN -Mask(WordLimit - 1 - value, width)
  ELSE AsSigned(value)

\* swap_byte_order: the bytes of the number, last one first.
SwapByteOrder(value, width) ==
  LET n == BytesFor(width)
      rest[i \in 0 .. n] == IF i = 0 THEN value ELSE rest[i - 1] \div ByteLimit
      out[i \in 0 .. n] ==
        IF i = 0 THEN 0 ELSE (out[i - 1] * ByteLimit + (rest[i - 1] % ByteLimit)) % WordLimit
  IN IF n <= 1 THEN value ELSE out[n]

\* read_raw, for an integer encoding.
RawInteger(data, at, width, coding, swapped) ==
  LET read == PeekUint(data, at, width)
      bits == IF swapped THEN SwapByteOrder(read.v, width) ELSE read.v
  IN IF read.error # "none" THEN read
     ELSE CASE coding = "unsigned" -> Ok(bits)
            [] coding = "twosComplement" ->
                 IF swapped THEN TwosComplementUnmasked(bits, width)
                 ELSE Ok(TwosComplement(bits, width))
            [] coding = "signMagnitude"  -> Ok(SignMagnitude(bits, width))
            [] coding = "onesComplement" -> Ok(OnesComplement(bits, width))

-------------------------------------------------------------------------------
(***************************************************************************)
(* The generated reads.  Offset and width are literals, the buffer has     *)
(* been narrowed, and the load is the smallest word that spans the field.  *)
(***************************************************************************)
Slots(span) == CHOOSE n \in {Pow2(k) : k \in 0 .. span} : n >= span /\ (n = 1 \/ n \div 2 < span)

\* read_bits: zeros go in front.
EmittedReadBits(data, offset, width) ==
  LET first == offset \div ByteBits
      last  == (offset + width - 1) \div ByteBits
      span  == last - first + 1
      load  == FromBe(Zeros(Slots(span) - span) \o SubSeq(data, first + 1, last + 1))
      shift == span * ByteBits - (offset % ByteBits) - width
  IN IF shift = 0 /\ width = span * ByteBits THEN load
     ELSE Mask(ShiftRight(load, shift), width)

\* swap_bytes_of: where the field is whole bytes on a byte boundary the load
\* itself is reversed, with zeros behind.
EmittedSwap(data, offset, width, raw) ==
  LET first == offset \div ByteBits
      bytes == BytesFor(width)
      loaded == SubSeq(data, first + 1, first + bytes) \o Zeros(Slots(bytes) - bytes)
  IN IF bytes <= 1 THEN raw
     ELSE IF offset % ByteBits = 0 /\ width % ByteBits = 0 THEN FromBe(Reverse(loaded))
     ELSE SwapByteOrder(raw, width)

\* unmasked_sign and signed.
UnmaskedSign(width, swapped) == swapped /\ width % ByteBits # 0
EmittedSigned(raw, width, coding, swapped) ==
  CASE coding = "unsigned" -> raw
    [] coding = "twosComplement" /\ UnmaskedSign(width, swapped) ->
         IF TestBit(raw, width - 1) THEN AsSigned(raw) - Pow2(width) ELSE AsSigned(raw)
    [] coding = "twosComplement" /\ ~ UnmaskedSign(width, swapped) ->
         LET shift == Pow2(MaxWidth - width)
         IN AsSigned((raw * shift) % WordLimit) \div shift
    [] coding = "signMagnitude" ->
         LET magnitude == raw % Pow2(width - 1)
         IN IF TestBit(raw, width - 1) THEN -magnitude ELSE magnitude
    [] coding = "onesComplement" ->
         IF TestBit(raw, width - 1) THEN -Mask(WordLimit - 1 - raw, width) ELSE AsSigned(raw)

\* Mutant: the widths just below a word are taken to fit.
SwapRefusedLate(width, coding, swapped) ==
  /\ swapped
  /\ coding # "unsigned"
  /\ width % ByteBits # 0
  /\ width >= MaxWidth

\* What the plan does not compile: a swapped signed field so wide that a number
\* may not fit (Builder::field).
SwapRefused(width, coding, swapped) ==
  /\ swapped
  /\ coding # "unsigned"
  /\ width % ByteBits # 0
  /\ width > MaxWidth - ByteBits

\* read_field_bits, at a literal offset.
EmittedInteger(data, offset, width, coding, swapped) ==
  LET raw == EmittedReadBits(data, offset, width)
  IN EmittedSigned(IF swapped THEN EmittedSwap(data, offset, width, raw) ELSE raw,
                   width, coding, swapped)

\* read_at, at an offset the packet decides (cursor_helpers).
EmittedReadAt(data, at, width) ==
  IF width = 0 THEN Ok(0)
  ELSE IF at + width > LenBits(data) THEN Err("TooShort")
  ELSE LET shift == 2 * MaxWidth - (at % ByteBits) - width
       IN Ok(Mask(ShiftRight(WideLoad(data, at \div ByteBits), shift) % WordLimit, width))

\* right_aligned: a fixed value's bytes, cut or filled to the width of its
\* entry (plan.rs).
RightAligned(bytes, width) ==
  LET wanted == BytesFor(width)
      taken  == IF Len(bytes) < wanted THEN Len(bytes) ELSE wanted
      copied == Zeros(wanted - taken) \o SubSeq(bytes, Len(bytes) - taken + 1, Len(bytes))
      spare  == wanted * ByteBits - width
  IN IF spare > 0 THEN [copied EXCEPT ![1] = Mask(@, ByteBits - spare)] ELSE copied
===============================================================================
