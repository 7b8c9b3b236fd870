---------------------------- MODULE MCDecodeCommand ----------------------------
(***************************************************************************)
(* Every stream of at most seven bytes over {0, 1, 2}, with a two-byte     *)
(* header that is the length field itself: a first byte that is not zero   *)
(* declares a packet longer than any stream, and a second byte from zero   *)
(* to two a packet of three to five bytes.  Longer streams of zeros hold   *)
(* three packets.                                                          *)
(***************************************************************************)
EXTENDS DecodeCommand, SequencesExt

MCBytes   == 0 .. 2
MCStreams == BoundedSeq(MCBytes, 7) \cup {[i \in 1 .. n |-> 0] : n \in 8 .. 11}
MCSkips   == {0, 1, 2, 20}
MCLimits  == {{}, {0}, {1}, {2}}
===============================================================================
