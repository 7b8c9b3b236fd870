-------------------------------- MODULE Ordering -------------------------------
(***************************************************************************)
(* The numbers of a set as a list that goes up: the places of a text that  *)
(* start a character, the elements of a document that are kept.            *)
(***************************************************************************)
EXTENDS Naturals, Sequences

\* The numbers of a set up to n, in their order.
InOrder(S, n) ==
  LET Upto[k \in 0 .. n] ==
        IF k = 0 THEN <<>> ELSE IF k \in S THEN Append(Upto[k - 1], k) ELSE Upto[k - 1]
  IN Upto[n]
===============================================================================
