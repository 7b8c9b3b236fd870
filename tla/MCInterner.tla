------------------------------ MODULE MCInterner ------------------------------
(* An instance of the interner for TLC.  The hashes collide on the last      *)
(* bucket of every table size, so that probes run into each other and wrap.  *)
EXTENDS Interner, TLC

CONSTANTS n1, n2, n3, n4, n5

MCNames == {n1, n2, n3, n4, n5}
MCHash == n1 :> 31 @@ n2 :> 31 @@ n3 :> 15 @@ n4 :> 14 @@ n5 :> 0
MCCapacities == {4, 8, 16}
=============================================================================
