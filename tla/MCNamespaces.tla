------------------------------ MODULE MCNamespaces ------------------------------
(***************************************************************************)
(* Every document of up to five systems and definitions, with two names    *)
(* for everything.                                                         *)
(***************************************************************************)
EXTENDS Namespaces, TLC

NoBodies == [kind \in Kinds |-> {"none"}]

TwoNames == Permutations(Names)
=============================================================================
