-------------------------------- MODULE MCReads --------------------------------
(***************************************************************************)
(* Bytes of two bits and words of four of them: every buffer of up to      *)
(* three bytes, and six and nine bytes with one bit that differs from all  *)
(* others, so that each bit of an answer is told where it comes from.      *)
(***************************************************************************)
EXTENDS Reads

Bytes(n) == [1 .. n -> 0 .. ByteLimit - 1]
OneBit(n) ==
  {[i \in 1 .. n |-> IF i = k THEN b ELSE 0] : k \in 1 .. n, b \in {1, 2}}
    \cup {[i \in 1 .. n |-> IF i = k THEN b ELSE 3] : k \in 1 .. n, b \in {1, 2}}
MCBuffers   == UNION {Bytes(n) : n \in 0 .. 3} \cup OneBit(6) \cup OneBit(9)
MCPositions == 0 .. 9
MCWidths    == 0 .. 10
MCCodings   == {"unsigned", "twosComplement", "signMagnitude", "onesComplement"}

\* Splines of up to three points, sorted, also at one raw value.
Points == [raw : {0, 2, 3}, cal : {-1, 0, 4}]
MCSplines ==
  [order : 0 .. 2, extrapolate : BOOLEAN,
   points : {s \in UNION {[1 .. n -> Points] : n \in 0 .. 3} :
               \A i, j \in DOMAIN s : i < j => s[i].raw <= s[j].raw}]
MCQueries == -1 .. 5

\* Texts: NUL, a small length, a letter, the first bytes of a high and of a
\* low surrogate, which also begin two-byte characters, and a byte that ends
\* one and that Windows-1252 does not define.
TextBytes == {0, 8, 65, 216, 220, 129}
MCTextBuffers == UNION {[1 .. n -> TextBytes] : n \in 0 .. 4}
Delimiter(kind, size, terminator) == [kind |-> kind, size |-> size, terminator |-> terminator]
MCDelimiters ==
  {Delimiter("whole", 0, <<>>), Delimiter("terminated", 0, <<0>>),
   Delimiter("terminated", 0, <<0, 0>>), Delimiter("terminated", 0, <<>>),
   Delimiter("leading", 8, <<>>), Delimiter("leading", 5, <<>>)}
MCCharsets == {"UTF-8", "US-ASCII", "ISO-8859-1", "Windows-1252", "UTF-16", "UTF-32"}
===============================================================================
