------------------------------ MODULE NameTable ------------------------------
(***************************************************************************)
(* What the interner of crates/xtce-model/src/intern.rs promises: a list   *)
(* of distinct names that only grows at its end.  Interning a name answers *)
(* the place it has, or the place it is given now; looking a name up       *)
(* answers its place, or 0 when it was never interned.  There are no hash  *)
(* values, buckets or rehashes here: they must not be observable.          *)
(***************************************************************************)
EXTENDS Naturals, Sequences

CONSTANTS Names, NoName

VARIABLES names, reply

tableVars == <<names, reply>>

Has(name) == \E i \in DOMAIN names : names[i] = name

TableInit ==
    /\ names = <<>>
    /\ reply = [name |-> NoName, slot |-> 0]

\* A name that is known is answered its place and nothing is added.
Known(name) ==
    /\ \E i \in DOMAIN names :
          /\ names[i] = name
          /\ reply' = [name |-> name, slot |-> i]
    /\ UNCHANGED names

\* Interning an unknown name gives it the next place.
Added(name) ==
    /\ ~Has(name)
    /\ names' = Append(names, name)
    /\ reply' = [name |-> name, slot |-> Len(names) + 1]

\* Looking an unknown name up finds nothing.
Unknown(name) ==
    /\ ~Has(name)
    /\ reply' = [name |-> name, slot |-> 0]
    /\ UNCHANGED names

TableNext ==
    \E name \in Names : Known(name) \/ Added(name) \/ Unknown(name)

TableSpec == TableInit /\ [][TableNext]_tableVars
=============================================================================
