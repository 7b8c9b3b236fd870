------------------------------ MODULE MCComposites ------------------------------
(***************************************************************************)
(* Three types of which the last is a field.  The others are every array   *)
(* and aggregate over the three: nested either way, mutually circular,     *)
(* with members of one name or of two, with one or two dimensions that do  *)
(* not all begin at 0.                                                     *)
(***************************************************************************)
EXTENDS Composites

CONSTANTS p, q

From(start, end) == [start |-> start, end |-> end]

SomeDimensions == {<<From(0, 1)>>, <<From(1, 2), From(0, 2)>>, <<From(0, 2), From(0, 2)>>}

Field == [shape |-> "field"]

Composite ==
    [shape : {"array"}, element : TypeIds, dimensions : SomeDimensions]
    \union {[shape |-> "aggregate", members |-> <<[name |-> p, type |-> t]>>] : t \in TypeIds}
    \union {[shape |-> "aggregate", members |-> <<[name |-> p, type |-> t],
                                                 [name |-> n, type |-> u]>>] :
               t \in TypeIds, u \in TypeIds, n \in MemberNames}

SomeDeclarations == {<<a, b, Field>> : a \in Composite, b \in Composite \union {Field}}

\* No subset, one element, one beyond the end, one behind the beginning, and
\* part of two dimensions.
SomeSubsets ==
    {<<>>} \union {<<s>> : s \in {<<From(1, 1)>>, <<From(1, 3)>>,
                                  <<From(2, 2), From(1, 2)>>, <<From(0, 1), From(1, 1)>>}}
=============================================================================
