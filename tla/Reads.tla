--------------------------------- MODULE Reads ---------------------------------
(***************************************************************************)
(* A cursor and its reads (xtce-decode, bits.rs), and the conversions that *)
(* follow a read, beside their counterparts in generated code.  A step is  *)
(* one call; `call` shows what it was given, where the cursor stood and    *)
(* what it answered, until the caller takes it.                            *)
(***************************************************************************)
EXTENDS BitWords, Splines, Texts, FiniteSets

CONSTANTS
  Buffers,      \* the packets to read from
  Positions,    \* positions to seek to
  Widths,       \* widths to read
  Codings,
  SplineSet, Queries,
  TextBuffers, Delimiters, Charsets
ASSUME ReadsAssumption ==
  /\ Buffers \subseteq Seq(0 .. ByteLimit - 1)
  /\ Positions \subseteq Nat /\ Widths \subseteq Nat
  /\ Codings \subseteq {"unsigned", "twosComplement", "signMagnitude", "onesComplement"}

\* The loader sorts the points of a spline.
ASSUME SplinesAssumption ==
  /\ Queries \subseteq Int
  /\ \A s \in SplineSet :
       /\ s.points \in Seq([raw : Int, cal : Int])
       /\ s.order \in Nat /\ s.extrapolate \in BOOLEAN
       /\ \A i, j \in DOMAIN s.points : i <= j => s.points[i].raw <= s.points[j].raw

\* Texts are made of bytes, and the prefix of a length is no wider than a word.
ASSUME TextsAssumption ==
  /\ LengthBytes \in Nat \ {0}
  /\ TextBuffers \subseteq Seq(0 .. 255)
  /\ Charsets \subseteq {"UTF-8", "US-ASCII", "ISO-8859-1", "Windows-1252", "UTF-16", "UTF-32"}
  /\ \A d \in Delimiters :
       /\ d.kind \in {"whole", "terminated", "leading"}
       /\ d.kind = "terminated" => d.terminator \in Seq(0 .. 255)
       /\ d.kind = "leading" => d.size \in 0 .. 8 * LengthBytes

VARIABLES data, position, call
vars == <<data, position, call>>

NoCall == [op |-> "none"]
Read(op, width, answer) == [op |-> op, at |-> position, width |-> width, answer |-> answer]

Init ==
  /\ data \in Buffers
  /\ position = 0
  /\ call = NoCall

\* BitCursor::seek goes anywhere, skip no further than the end.
Seek(p) ==
  /\ position' = p
  /\ UNCHANGED <<data, call>>
Skip(width) ==
  /\ IF position + width > LenBits(data)
     THEN UNCHANGED position /\ call' = Read("skip", width, Err("OutOfBounds"))
     ELSE position' = position + width /\ call' = Read("skip", width, Ok(0))
  /\ UNCHANGED data

\* peek_next, read_uint, read_bytes and read_bytes_left_aligned: the cursor
\* moves when the read succeeds.
Moved(answer, width) == IF answer.error = "none" THEN position + width ELSE position
PeekNext(width) ==
  /\ call' = Read("peek", width, PeekUint(data, position, width))
  /\ UNCHANGED <<data, position>>
ReadUint(width) ==
  /\ call' = Read("uint", width, PeekUint(data, position, width))
  /\ position' = Moved(call'.answer, width)
  /\ UNCHANGED data
ReadBits(width) ==
  /\ \/ call' = Read("bytes", width, ReadBytes(data, position, width))
     \/ call' = Read("text", width, ReadBytesLeftAligned(data, position, width))
  /\ position' = Moved(call'.answer, width)
  /\ UNCHANGED data

\* The value of an integer field at the cursor, in the interpreter and, if it
\* is compiled, by a literal and by a run-time offset.
ReadField(width, coding, swapped) ==
  LET compiled == /\ width \in 1 .. MaxWidth
                  /\ position + width <= LenBits(data)
                  /\ ~ SwapRefused(width, coding, swapped)
      raw == EmittedReadAt(data, position, width).v
      unsigned == IF swapped THEN SwapByteOrder(raw, width) ELSE raw
  IN /\ call' = [op |-> "field", at |-> position, width |-> width, coding |-> coding,
                 swapped  |-> swapped,
                 answer   |-> RawInteger(data, position, width, coding, swapped),
                 compiled |->
                   IF compiled
                   THEN {EmittedInteger(data, position, width, coding, swapped),
                         EmittedSigned(unsigned, width, coding, swapped)}
                   ELSE {}]
     /\ UNCHANGED <<data, position>>

\* A fixed value is brought to its width.
AlignFixed(width) ==
  /\ position = 0
  /\ call' = [op |-> "fixed", width |-> width, answer |-> RightAligned(data, width)]
  /\ UNCHANGED <<data, position>>

Calibrate(spline, x) ==
  /\ call' = [op |-> "spline", spline |-> spline, query |-> x,
              answer   |-> Interpolate(spline, x),
              compiled |-> IF Compilable(spline)
                           THEN {SplineValue(spline.points, spline.order,
                                             spline.extrapolate, x)}
                           ELSE {}]
  /\ UNCHANGED <<data, position>>
Orders(charset) ==
  IF charset \in {"UTF-16", "UTF-32"} THEN {"msbFirst", "lsbFirst"} ELSE {"msbFirst"}
DecodeText(buffer, delimiter, charset, order) ==
  /\ call' = [op |-> "string", buffer |-> buffer, delimiter |-> delimiter,
              charset |-> charset, order |-> order,
              answer   |-> DecodeString(buffer, delimiter, charset, order),
              compiled |-> IF charset \in {"UTF-8", "US-ASCII"}
                           THEN {EmittedText(buffer, delimiter, charset)} ELSE {}]
  /\ UNCHANGED <<data, position>>

Return ==
  /\ call # NoCall
  /\ call' = NoCall
  /\ UNCHANGED <<data, position>>

\* Calls that read nothing are made once, beside an empty buffer.
Next ==
  \/ /\ call = NoCall
     /\ \/ \E p \in Positions : Seek(p)
        \/ \E width \in Widths :
             \/ Skip(width) \/ PeekNext(width) \/ ReadUint(width)
             \/ ReadBits(width)
             \/ AlignFixed(width)
             \/ \E coding \in Codings, swapped \in BOOLEAN : ReadField(width, coding, swapped)
  \/ /\ call = NoCall /\ data = <<>> /\ position = 0
     /\ \/ \E spline \in SplineSet, x \in Queries : Calibrate(spline, x)
        \/ \E buffer \in TextBuffers, delimiter \in Delimiters, charset \in Charsets :
             \E order \in Orders(charset) : DecodeText(buffer, delimiter, charset, order)
  \/ Return

Spec == Init /\ [][Next]_vars

-------------------------------------------------------------------------------
(***************************************************************************)
(* A buffer as its bits, the first the most significant.                   *)
(***************************************************************************)
BitAt(bytes, k) == (bytes[k \div ByteBits + 1] \div Pow2(ByteBits - 1 - (k % ByteBits))) % 2
BitsOf(bytes) == [k \in 1 .. LenBits(bytes) |-> BitAt(bytes, k - 1)]
Field(at, width) == [k \in 1 .. width |-> BitAt(data, at + k - 1)]
Number(bits) ==
  LET upto[n \in 0 .. Len(bits)] == IF n = 0 THEN 0 ELSE upto[n - 1] * 2 + bits[n]
  IN upto[Len(bits)]

\* Every read answers the bits behind the cursor and no others, at any offset
\* and for any width, also where a field of a whole word spans one byte more
\* and near the end of the buffer, as a number or as bytes with the slack in
\* front or behind; it fails exactly when the field is not in the buffer or a
\* number is too wide, and moves by its width or, when it fails, not at all.
ReadsAreNaive ==
  call.op \in {"peek", "uint", "bytes", "text", "skip"} =>
    LET beyond == call.at + call.width > LenBits(data)
        asNumber == call.op \in {"peek", "uint"}
        bits == Field(call.at, call.width)
        slack == Zeros(ByteBits * BytesFor(call.width) - call.width)
    IN /\ call.answer.error # "none" <=>
            IF asNumber THEN call.width > MaxWidth \/ (beyond /\ call.width # 0) ELSE beyond
       /\ call.answer.error = "none" =>
            /\ asNumber => call.answer.v = Number(bits)
            /\ call.op = "bytes" => BitsOf(call.answer.v) = slack \o bits
            /\ call.op = "text" => BitsOf(call.answer.v) = bits \o slack
       /\ position = IF call.answer.error = "none" /\ call.op # "peek"
                     THEN call.at + call.width ELSE call.at

\* The number a field of these bits stands for in its coding.
Meaning(n, width, coding) ==
  LET negative == n >= Pow2(width - 1)
      body == n % Pow2(width - 1)
  IN CASE ~ negative \/ coding = "unsigned" -> n
       [] negative /\ coding = "twosComplement" -> n - Pow2(width)
       [] negative /\ coding = "onesComplement" -> n - Pow2(width) + 1
       [] negative /\ coding = "signMagnitude" -> -body

\* The value of an integer field is what its coding says, at every width up to
\* a word; reversed bytes are those of the field; and the compiled reads, at a
\* literal and at a run-time offset, answer what the interpreter answers,
\* wherever the plan has not refused the field for a value too wide for a word.
\* A fixed value keeps its low bits.
ValuesAreExact ==
  /\ call.op = "field" =>
       LET n == Number(Field(call.at, call.width)) IN
       /\ call.answer.error = "none" /\ call.width > 0 =>
            /\ ~ call.swapped => call.answer.v = Meaning(n, call.width, call.coding)
            /\ call.swapped /\ call.width % ByteBits = 0 =>
                 call.answer.v =
                   Meaning(FromBe(Reverse(ReadBytes(data, call.at, call.width).v)),
                           call.width, call.coding)
       /\ call.compiled # {} => call.answer.error = "none" /\ call.compiled = {call.answer.v}
  /\ call.op = "fixed" =>
       /\ Len(call.answer) = BytesFor(call.width)
       /\ FromBe(call.answer) = FromBe(data) % Pow2(call.width)

\* A spline passes through its points and is straight between two that are
\* next to each other, or constant from each to the next; beyond them it is
\* refused, or goes on as at that end.  Where points share a raw value one of
\* them is hit.  The compiled spline answers the same.
Exactly(value, n) == value.num = n * value.den
OnLine(value, x, p, q) ==
  value.num * (q.raw - p.raw) = value.den * ((q.cal - p.cal) * (x - p.raw) + p.cal * (q.raw - p.raw))
SplineInterpolates ==
  call.op = "spline" =>
    LET points == ToSet(call.spline.points)
        order == call.spline.order
        x == call.query
        below == {p \in points : p.raw < x}
        above == {p \in points : p.raw > x}
        there == {p \in points : p.raw = x}
        Nearest(set) == {p \in set : \A q \in set : (p.raw - x) * (p.raw - x)
                                                      <= (q.raw - x) * (q.raw - x)}
        outside == there = {} /\ (below = {} \/ above = {})
        value == call.answer.value
    IN /\ call.answer.error = "none" <=>
            points # {} /\ order <= 1 /\ (outside => call.spline.extrapolate)
       /\ call.answer.error = "none" =>
            /\ there # {} => \E p \in there : Exactly(value, p.cal)
            /\ there = {} /\ order = 0 =>
                 \E p \in Nearest(IF below # {} THEN below ELSE above) : Exactly(value, p.cal)
            /\ there = {} /\ order = 1 /\ ~ outside =>
                 \E p \in Nearest(below), q \in Nearest(above) : OnLine(value, x, p, q)
            /\ outside /\ order = 1 /\ Cardinality({p.raw : p \in points}) = Len(call.spline.points) =>
                 \/ Len(call.spline.points) = 1
                 \/ \E p \in Nearest(points), q \in Nearest(points \ Nearest(points)) :
                      IF p.raw < q.raw THEN OnLine(value, x, p, q) ELSE OnLine(value, x, q, p)
       /\ \A compiled \in call.compiled :
            /\ (compiled.error = "none") = (call.answer.error = "none")
            /\ compiled.error = "none" => compiled.value = value

\* The bytes that stand for a text.
Encoded(text, charset, order) ==
  LET InUnits(char) ==
        IF char < 65536 THEN <<char>>
        ELSE <<55296 + (char - 65536) \div 1024, 56320 + ((char - 65536) % 1024)>>
      Ordered(bytes) == IF order = "msbFirst" THEN bytes ELSE Reverse(bytes)
      EncodedChar(c) ==
        CASE charset \in {"US-ASCII", "ISO-8859-1"} -> <<c>>
          [] charset = "UTF-8" -> IF c < 128 THEN <<c>> ELSE <<192 + c \div 64, 128 + (c % 64)>>
          [] charset = "Windows-1252" -> IF c >= 8000 THEN <<c - 8000>> ELSE <<c>>
          [] charset = "UTF-16" ->
               FlattenSeq([i \in DOMAIN InUnits(c) |->
                             Ordered(<<InUnits(c)[i] \div 256, InUnits(c)[i] % 256>>)])
          [] charset = "UTF-32" ->
               Ordered(<<0, c \div 65536, (c \div 256) % 256, c % 256>>)
  IN FlattenSeq([i \in DOMAIN text |-> EncodedChar(text[i])])

\* A text that decodes stands for exactly the bytes it was delimited by,
\* nothing dropped or replaced: as many as its prefix says, or those before
\* the first terminator, or all.  The compiled helpers answer the same, where
\* a length prefix is whole bytes.
TextsAreFaithful ==
  call.op = "string" =>
    LET bytes == Encoded(call.answer.v, call.charset, call.order)
        d == call.delimiter
        n == Len(bytes)
    IN /\ call.answer.error = "none" =>
            /\ d.kind = "whole" => bytes = call.buffer
            /\ d.kind = "terminated" =>
                 /\ n + Len(d.terminator) <= Len(call.buffer)
                 /\ SubSeq(call.buffer, 1, n + Len(d.terminator)) = bytes \o d.terminator
                 /\ \A i \in 0 .. n - 1 :
                      SubSeq(call.buffer, i + 1, i + Len(d.terminator)) # d.terminator
            /\ d.kind = "leading" /\ d.size % 8 = 0 =>
                 /\ 8 * n = Words!FromBe(SubSeq(call.buffer, 1, d.size \div 8))
                 /\ bytes = SubSeq(call.buffer, d.size \div 8 + 1, d.size \div 8 + n)
       /\ (d.kind = "leading" => d.size % 8 = 0) =>
            \A compiled \in call.compiled :
              /\ (compiled.error = "none") = (call.answer.error = "none")
              /\ compiled.error = "none" => compiled.v = call.answer.v
===============================================================================
