---------------------------- MODULE MCDecoderTwins -----------------------------
(***************************************************************************)
(* Two decodes on the sample databases, and on the same with the           *)
(* inheritors in the opposite order.                                       *)
(***************************************************************************)
EXTENDS DecoderTwins, SampleDatabases

Reordered(b) == [b EXCEPT !.inheritors = [c \in Containers |-> Reverse(@[c])]]
TwinDatabases == MCDatabases \cup {Reordered(b) : b \in MCDatabases}
===============================================================================
