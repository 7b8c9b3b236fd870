------------------------------ MODULE MCReadClaims -----------------------------
(***************************************************************************)
(* What a comment of decode_string says of the search for a terminator, on *)
(* terminators of a whole code unit.                                       *)
(***************************************************************************)
EXTENDS MCReads

ClaimBuffers    == {<<>>}
ClaimTexts      == UNION {[1 .. n -> {0, 8, 65}] : n \in {2, 4}}
ClaimDelimiters == {Delimiter("terminated", 0, <<0, 0>>), Delimiter("whole", 0, <<>>)}
ClaimCharsets   == {"UTF-16"}
ClaimSplines    == {[order |-> 0, extrapolate |-> FALSE, points |-> <<>>]}

-------------------------------------------------------------------------------
\* decode_string: "For UTF-16 and UTF-32 the terminator is a whole code unit,
\* so this cannot split one": what is before the terminator is whole code
\* units too.
TerminatorSplitsNothing ==
  call.op = "string" /\ call.charset = "UTF-16" /\ call.delimiter.kind = "terminated" =>
    Len(Delimited(call.buffer, call.delimiter).v) % 2 = 0
===============================================================================
