--------------------------------- MODULE Texts ---------------------------------
(***************************************************************************)
(* Strings: the interpreter finds the text in its buffer (`decode_string`, *)
(* decoder.rs) and decodes its character set (charset.rs); the generated   *)
(* code has helpers of its own for UTF-8 and US-ASCII (emit.rs).  A byte   *)
(* is a number below 256 and a character its code point.                   *)
(*                                                                         *)
(* The standard library's decoders are external: UTF-8 as far as sequences *)
(* of two bytes, UTF-16 with its surrogates.                               *)
(***************************************************************************)
EXTENDS Integers, SequencesExt, Ordering

CONSTANT LengthBytes    \* the bytes of the word a length is read into, 8 in the code
Words == INSTANCE BitWords WITH ByteBits <- 8, WordBytes <- LengthBytes

NoText(error) == [error |-> error, v |-> <<>>]
TextOf(bytes) == [error |-> "none", v |-> bytes]

\* Mutant: the search comes from the end.
LastPlace(places) == CHOOSE i \in places : \A j \in places : j <= i

\* find_subslice and windows().position(): the first place, at any byte, where
\* the terminator occurs; an empty one occurs at once.
PlacesOf(bytes, terminator) ==
  {i \in 0 .. Len(bytes) - Len(terminator) :
     SubSeq(bytes, i + 1, i + Len(terminator)) = terminator}
FirstPlace(places) == CHOOSE i \in places : \A j \in places : i <= j

\* decode_string, up to the character set.
Delimited(buffer, delimiter) ==
  LET size   == Words!PeekUint(buffer, 0, delimiter.size)
      places == PlacesOf(buffer, delimiter.terminator)
      text   == Words!ReadBytes(buffer, delimiter.size, size.v)
  IN CASE delimiter.kind = "whole" -> TextOf(buffer)
       [] delimiter.kind = "terminated" ->
            IF places = {} THEN NoText("UnterminatedString")
            ELSE TextOf(SubSeq(buffer, 1, FirstPlace(places)))
       [] delimiter.kind = "leading" ->
            IF size.error # "none" THEN NoText("Bits")
            ELSE IF size.v % 8 # 0 THEN NoText("BadFieldSize")
            ELSE IF text.error # "none" THEN NoText("Bits")
            ELSE TextOf(text.v)

\* The standard library: a sequence of characters, or none at all.
IsAscii(bytes) == \A i \in DOMAIN bytes : bytes[i] < 128
Lead(byte) == byte \in 194 .. 223
Continuation(byte) == byte \in 128 .. 191
FromUtf8(bytes) ==
  LET Starts == {i \in DOMAIN bytes : ~ Continuation(bytes[i])}
      CharAt(i) == IF bytes[i] < 128 THEN bytes[i]
                   ELSE (bytes[i] - 192) * 64 + (bytes[i + 1] - 128)
      valid == \A i \in DOMAIN bytes :
                 /\ bytes[i] < 128 \/ Lead(bytes[i]) \/ Continuation(bytes[i])
                 /\ Lead(bytes[i]) => i < Len(bytes) /\ Continuation(bytes[i + 1])
                 /\ Continuation(bytes[i]) => i > 1 /\ Lead(bytes[i - 1])
      starts == InOrder(Starts, Len(bytes))
  IN IF valid THEN {[k \in DOMAIN starts |-> CharAt(starts[k])]} ELSE {}
High(unit) == unit \in 55296 .. 56319
Low(unit) == unit \in 56320 .. 57343
FromUtf16(units) ==
  LET valid == \A i \in DOMAIN units :
                 /\ High(units[i]) => i < Len(units) /\ Low(units[i + 1])
                 /\ Low(units[i]) => i > 1 /\ High(units[i - 1])
      CharAt(i) == IF High(units[i])
                   THEN 65536 + (units[i] - 55296) * 1024 + (units[i + 1] - 56320)
                   ELSE units[i]
      starts == InOrder({i \in DOMAIN units : ~ Low(units[i])}, Len(units))
  IN IF valid THEN {[k \in DOMAIN starts |-> CharAt(starts[k])]} ELSE {}

\* decode_windows_1252: 128 to 159 are looked up in a table with five holes,
\* the other bytes are their code points.  The table is not spelled out: its
\* entries are distinct code points from 338 up.
Undefined1252 == {129, 141, 143, 144, 157}
Windows1252(byte) == IF byte \in 128 .. 159 THEN 8000 + byte ELSE byte

\* chunks_exact, in the byte order of the encoding.
Unit(bytes, i, size, order) ==
  LET chunk == SubSeq(bytes, size * (i - 1) + 1, size * i)
  IN IF order = "msbFirst" THEN chunk ELSE Reverse(chunk)
Units(bytes, size, order) ==
  [i \in 1 .. Len(bytes) \div size |-> Unit(bytes, i, size, order)]

\* decode_utf16 and decode_utf32, where a scalar is below 110000 (hex) and no
\* surrogate.
DecodeUtf16(bytes, order) ==
  LET units == Units(bytes, 2, order)
  IN IF Len(bytes) % 2 # 0 THEN {}
     ELSE FromUtf16([i \in DOMAIN units |-> 256 * units[i][1] + units[i][2]])
Scalar(word) ==
  /\ word[1] = 0
  /\ word[2] <= 16
  /\ ~ (word[2] = 0 /\ word[3] \in 216 .. 223)
DecodeUtf32(bytes, order) ==
  LET units == Units(bytes, 4, order)
  IN IF Len(bytes) % 4 # 0 \/ \E i \in DOMAIN units : ~ Scalar(units[i]) THEN {}
     ELSE {[i \in DOMAIN units |-> 65536 * units[i][2] + 256 * units[i][3] + units[i][4]]}

\* charset::decode.
Decode(bytes, charset, order) ==
  CASE charset = "UTF-8"        -> FromUtf8(bytes)
    [] charset = "US-ASCII"     -> IF IsAscii(bytes) THEN {bytes} ELSE {}
    [] charset = "ISO-8859-1"   -> {bytes}
    [] charset = "Windows-1252" ->
         IF ToSet(bytes) \cap Undefined1252 # {} THEN {}
         ELSE {[i \in DOMAIN bytes |-> Windows1252(bytes[i])]}
    [] charset = "UTF-16"       -> DecodeUtf16(bytes, order)
    [] charset = "UTF-32"       -> DecodeUtf32(bytes, order)

\* decode_string.
DecodeString(buffer, delimiter, charset, order) ==
  LET found   == Delimited(buffer, delimiter)
      decoded == Decode(found.v, charset, order)
  IN IF found.error # "none" THEN found
     ELSE IF decoded = {} THEN NoText("InvalidText")
     ELSE TextOf(CHOOSE text \in decoded : TRUE)

-------------------------------------------------------------------------------
\* text_checked, and the three helpers that end in it.
TextChecked(bytes, ascii) ==
  LET decoded == FromUtf8(bytes)
  IN IF (ascii /\ ~ IsAscii(bytes)) \/ decoded = {} THEN NoText("InvalidText")
     ELSE TextOf(CHOOSE text \in decoded : TRUE)
TextTerminated(buffer, terminator, ascii) ==
  LET places == PlacesOf(buffer, terminator)
  IN IF terminator = <<>> THEN TextChecked(<<>>, ascii)
     ELSE IF places = {} THEN NoText("UnterminatedString")
     ELSE TextChecked(SubSeq(buffer, 1, FirstPlace(places)), ascii)

\* text_leading: the prefix is whole bytes with slack at their end, and the
\* text starts on a byte.
TextLeading(buffer, size, ascii) ==
  LET bytes  == (size + 7) \div 8
      slack  == 8 * bytes - size
      bits   == Words!FromBe(SubSeq(buffer, 1, bytes)) \div Words!Pow2(slack)
      length == bits \div 8
  IN IF Len(buffer) < bytes \/ bits % 8 # 0 \/ bytes + length > Len(buffer)
     THEN NoText("BadStringLength")
     ELSE TextChecked(SubSeq(buffer, bytes + 1, bytes + length), ascii)
EmittedText(buffer, delimiter, charset) ==
  LET ascii == charset = "US-ASCII"
  IN CASE delimiter.kind = "whole"      -> TextChecked(buffer, ascii)
       [] delimiter.kind = "terminated" -> TextTerminated(buffer, delimiter.terminator, ascii)
       [] delimiter.kind = "leading"    -> TextLeading(buffer, delimiter.size, ascii)
===============================================================================
