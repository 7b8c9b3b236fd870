---------------------------- MODULE DecodeContract -----------------------------
(***************************************************************************)
(* What Decoder::decode_into promises its caller (decoder.rs, the doc of   *)
(* decode and decode_into): every call is answered, and the answer, error  *)
(* or not, together with what the buffer then holds, is a function of the  *)
(* database and of the packet handed over -- never of the packets decoded  *)
(* into the same buffer before.  How the walk proceeds is not visible.     *)
(***************************************************************************)
CONSTANTS
  Databases,
  Packets,
  Outcome(_, _),      \* database and packet to the answer
  Unasked(_),         \* what a buffer nobody decoded into shows
  Busy(_)             \* while the call runs the buffer is the decoder's

VARIABLES
  db,
  pending,            \* the packet of the running call, if one runs
  answer

contractVars == <<db, pending, answer>>

Init ==
  /\ db \in Databases
  /\ pending = {}
  /\ answer  = Unasked(db)

Call(d) ==
  /\ pending = {}
  /\ pending' = {d}
  /\ answer'  = Busy(db)
  /\ UNCHANGED db

Answer ==
  /\ \E d \in pending : answer' = Outcome(db, d)
  /\ pending' = {}
  /\ UNCHANGED db

Next == (\E d \in Packets : Call(d)) \/ Answer

\* What is promised of every finite behaviour, and that every call returns.
Safety   == Init /\ [][Next]_contractVars
Liveness == pending # {} ~> pending = {}
===============================================================================
