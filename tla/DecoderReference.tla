--------------------------- MODULE DecoderReference ----------------------------
(***************************************************************************)
(* The decoder as a function: the answer to a call from a buffer nobody    *)
(* used before.  The entries of a container, with the containers they      *)
(* refer to expanded in their places, are a list of instructions; a walk   *)
(* executes the list of the root, and then, as long as there is an         *)
(* inheritor to go down to, the list of that.  The stack machine of        *)
(* Decoder is shown to answer with exactly this function (AnswersContract).*)
(***************************************************************************)
EXTENDS Decoder, FiniteSets

\* A loaded database is finite.
ASSUME ContainersAssumption == IsFiniteSet(Containers)

-------------------------------------------------------------------------------
\* The instructions: to go where an entry is located, to decode or skip what
\* has one, to enter and to leave a container, and to give up.
PlaceAt(e) == <<[do |-> "place", entry |-> e]>>
Perform(e) == <<[do |-> e.kind, entry |-> e]>>
Enter      == <<[do |-> "enter"]>>
Leave      == <<[do |-> "leave"]>>
GiveUp     == <<[do |-> "give up"]>>

\* One repetition of an entry, where nested has the instructions of the
\* containers it may refer to.
Once(e, nested) ==
  IF e.kind = "container" THEN Enter \o nested[e.child] ELSE Perform(e)

\* What is to do for an entry when n of its repetitions are left.
Repetitions(e, nested) ==
  LET c[n \in 0 .. e.repeat] == IF n = 0 THEN <<>> ELSE Once(e, nested) \o c[n - 1]
  IN c

\* What is to do in a container when n of its entries are left.
Entries(es, nested) ==
  LET c[n \in 0 .. Len(es)] ==
        IF n = 0 THEN Leave
        ELSE LET e == es[Len(es) + 1 - n]
             IN PlaceAt(e) \o (Repetitions(e, nested)[e.repeat] \o c[n - 1])
  IN c

\* The instructions of every container in which at most `levels` containers,
\* itself included, are open at a time: nothing is decoded any deeper.
Instructions(b, levels) ==
  LET p[l \in 0 .. MAX_CONTAINER_DEPTH + 1] ==
        [c \in Containers |->
           IF l = 0 THEN GiveUp
           ELSE Entries(b.entries[c], p[l - 1])[Len(b.entries[c])]]
  IN p[levels]

-------------------------------------------------------------------------------
\* A walk in progress: the buffer, the cursor, where the open containers start
\* and the error that ended it.
Walk(pkt, pos, starts) ==
  [pkt |-> pkt, pos |-> pos, starts |-> starts, error |-> "none"]
Stop(w, error) == [w EXCEPT !.error = error]

DecodeOne(b, e, w) ==
  With(DecodeValue(b.types[e.parameter], w.pkt, w.pos), LAMBDA v :
    IF v.error # "none" THEN Stop(w, v.error)
    ELSE Walk(Insert(w.pkt, [parameter |-> e.parameter, raw |-> v.raw,
                             eng |-> v.eng, bitOffset |-> w.pos,
                             bitWidth |-> v.width]),
              w.pos + v.width, w.starts))

SkipOne(e, w) ==
  IF InBounds(w.pkt.data, w.pos, e.size)
  THEN Walk(w.pkt, w.pos + e.size, w.starts)
  ELSE Stop(w, "Bits")

Place(e, w) ==
  IF \E l \in e.location : l.reference \in {"containerEnd", "nextEntry"}
  THEN Stop(w, "Unsupported")
  ELSE IF e.location = {} THEN w
  ELSE LET l    == CHOOSE l \in e.location : TRUE
           base == IF l.reference = "containerStart"
                   THEN w.starts[Len(w.starts)] ELSE w.pos
       IN Walk(w.pkt, IF base + l.offset < 0 THEN 0 ELSE base + l.offset, w.starts)

\* One more instruction, unless an error has ended the walk.
Execute(b, i, w) ==
  IF w.error # "none" THEN w
  ELSE CASE i.do = "place"     -> Place(i.entry, w)
         [] i.do = "parameter" -> DecodeOne(b, i.entry, w)
         [] i.do = "fixed"     -> SkipOne(i.entry, w)
         [] i.do = "enter"     -> Walk(w.pkt, w.pos, Append(w.starts, w.pos))
         [] i.do = "leave"     -> Walk(w.pkt, w.pos,
                                       SubSeq(w.starts, 1, Len(w.starts) - 1))
         [] OTHER              -> Stop(w, "Unsupported")

Run(b, is, w) ==
  LET r[k \in 0 .. Len(is)] ==
        IF k = 0 THEN w ELSE With(r[k - 1], LAMBDA x : Execute(b, is[k], x))
  IN r[Len(is)]

-------------------------------------------------------------------------------
\* How far down the inheritance tree a call has come, and what it returns.
Reached(c, w, answer) == [at |-> c, walk |-> w, answer |-> answer]

\* What follows when the entries of c have been decoded.
Choose(b, c, w) ==
  LET heirs      == b.inheritors[c]
      verdict(i) == EvaluateAll(b.restriction[heirs[i]], w.pkt, {})
      failing    == {i \in DOMAIN heirs : verdict(i) \notin {Yes, No}}
      matching   == {heirs[i] : i \in {j \in DOMAIN heirs : verdict(j) = Yes}}
  IN IF w.error # "none" THEN Reached(c, w, w.error)
     ELSE IF failing # {}
     THEN Reached(c, w, verdict(CHOOSE i \in failing : \A j \in failing : i <= j))
     ELSE IF \E k, l \in matching : k # l THEN Reached(c, w, "AmbiguousPacket")
     ELSE IF matching # {} THEN Reached(CHOOSE k \in matching : TRUE, w, "none")
     ELSE IF c \in b.abstract THEN Reached(c, w, "UnrecognizedPacket")
     ELSE Reached(c, [w EXCEPT !.pkt = Finish(w.pkt, c, w.pos)], "ok")

\* The entries of the container reached, and the choice behind them.
Round(b, s) ==
  IF s.answer # "none" THEN s
  ELSE With(Run(b, Instructions(b, MAX_CONTAINER_DEPTH + 1)[s.at],
                Walk(s.walk.pkt, s.walk.pos, <<s.walk.pos>>)),
            LAMBDA w : Choose(b, s.at, w))

\* No container is come to twice: a round for each of them is enough.
Descent(b, d) ==
  LET s[n \in 0 .. Cardinality(Containers)] ==
        IF n = 0 THEN Reached(b.root, Walk(NewPacket(d, b.root), 0, <<>>), "none")
        ELSE With(s[n - 1], LAMBDA x : Round(b, x))
  IN s

Reply(r, pkt) == [result |-> r, packet |-> pkt]

\* What one call answers, and what it leaves in the buffer.
Outcome(b, d) ==
  With(Descent(b, d)[Cardinality(Containers)], LAMBDA s : Reply(s.answer, s.walk.pkt))

-------------------------------------------------------------------------------
\* What a caller sees: nothing of the walk.
Unasked(b) == Reply("none", NewPacket(<<>>, b.root))
Busy(b)    == Reply("busy", NewPacket(<<>>, b.root))

Pending == IF phase = "idle" THEN {} ELSE {packet.data}
Shown   == IF phase = "idle" THEN Reply(result, packet) ELSE Busy(db)

Contract == INSTANCE DecodeContract WITH pending <- Pending, answer <- Shown

\* Decoding into a reused buffer answers exactly what a fresh one would: the
\* stack machine implements the contract.
AnswersContract == Contract!Safety

\* Every call returns, whatever the container tree and the packet are: no
\* cycle of references and no empty inheritor keeps the decoder busy.
EveryCallReturns == Contract!Liveness
===============================================================================
