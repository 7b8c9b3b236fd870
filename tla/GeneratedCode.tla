----------------------------- MODULE GeneratedCode -----------------------------
(***************************************************************************)
(* What the code emitted for a plan does (xtce-codegen, emit.rs), as a     *)
(* function of a packet.  A decoder narrows the packet to an array of the  *)
(* bytes its literal offsets need, tests the discriminators of the whole   *)
(* container tree on it and decodes the one container that is left; past   *)
(* the first width that only the packet knows, it walks with a cursor.     *)
(*                                                                         *)
(* The emitted functions are straight-line code whose local variables are  *)
(* the fields themselves, next to `data`, the packet, and `packet`, the    *)
(* array: a field of one of these names takes its place for what follows.  *)
(* Names that would not pass rustc (a field `at`, or a number named        *)
(* `data`, where a cursor is in use) are left out.                         *)
(***************************************************************************)
EXTENDS CodegenPlan

Bytes(bits) == (bits + 7) \div 8

\* What an emitted read of a field's bits stores: numeric_from_u64 and signed.
\* Only a signed number looks at the coding.
Stored(repr, bits, width) ==
  CASE repr.kind = "signed" -> [kind |-> "signed", v |-> Interpret(repr.coding, bits, width)]
    [] repr.kind = "binary" -> [kind |-> "bytes", v |-> bits]
    [] OTHER                -> [kind |-> "unsigned", v |-> bits]

\* A literal read of a guard's or a field's span in an array.
ReadSpan(repr, span, array) ==
  Stored(repr, PeekUInt(array, span.offset, span.width), span.width)

\* Mutant: a negative literal taken for one above every unsigned value.
ConstantOutcomeAbove(op) == op \in {"neq", "lt", "leq"}

\* constant_outcome: a negative literal is below every unsigned value.
ConstantOutcome(op) == op \in {"neq", "gt", "geq"}

\* guard_test and label_membership: in an unsigned field a range with a
\* negative end is left out of the patterns.
GuardHolds(g, array) ==
  LET value  == ReadSpan(g.repr, g, array).v
      signed == g.repr.kind = "signed"
  IN IF g.test.kind = "labels"
     THEN \E i \in DOMAIN g.test.ranges :
            LET r == g.test.ranges[i] IN
            /\ signed \/ (r[1] >= 0 /\ r[2] >= 0)
            /\ value \in r[1] .. r[2]
     ELSE IF ~ signed /\ g.test.value < 0 THEN ConstantOutcome(g.test.op)
     ELSE Matches(g.test.op, value, g.test.value)

\* criterion_condition and nested_condition.
RECURSIVE Condition(_, _)
Condition(t, array) ==
  CASE t.kind = "test" -> GuardHolds(t.guard, array)
    [] t.kind = "all"  -> \A i \in DOMAIN t.of : Condition(t.of[i], array)
    [] t.kind = "any"  -> \E i \in DOMAIN t.of : Condition(t.of[i], array)

\* calibrate and apply_calibration: the first context that holds, or else the
\* default; the criteria are read from the array, not from the fields.
Applied(f, array) ==
  LET i == SelectInSeq(f.contexts, LAMBDA c : Condition(c.criteria, array))
  IN IF i # 0 THEN f.contexts[i].calibration
     ELSE CHOOSE c \in f.calibration : TRUE

\* accessor and visit_values: what a stored field is reported as.  A value in
\* no range has the empty label.
EmptyLabel == 0
Engineering(f, raw, array) ==
  CASE f.calibration # {} ->
         [kind |-> "float", v |-> Polynomial(Applied(f, array).terms, raw.v)]
    [] f.repr.kind = "bool" -> [kind |-> "bool", v |-> IF raw.v # 0 THEN 1 ELSE 0]
    [] f.repr.kind = "enumerated" ->
         LET i == SelectInSeq(f.repr.labels, LAMBDA e : e.value <= raw.v /\ raw.v <= e.max)
         IN [kind |-> "label", v |-> IF i = 0 THEN EmptyLabel ELSE f.repr.labels[i].label]
    [] OTHER -> raw
Visited(f, raw, array) ==
  [parameter |-> f.parameter, raw |-> raw, eng |-> Engineering(f, raw, array)]

\* The body of a container's decode in progress: the two slices in scope, the
\* cursor, and what has been decoded, one entry per field.
Body(data, prefixBytes, at) ==
  [data   |-> data,
   packet |-> SubSeq(data, 1, 8 * prefixBytes),
   at     |-> at,
   out    |-> <<>>,
   error  |-> "none"]
Abort(s, error) == [s EXCEPT !.error = error]

\* `let <name> = ...` for a field; a slice may hide one of the slices in scope.
Let(s, f, raw, slice) ==
  LET hides(name) == Borrows(f.repr) /\ f.ident = <<name>>
  IN [s EXCEPT !.data   = IF hides("data") THEN slice ELSE @,
               !.packet = IF hides("packet") THEN slice ELSE @,
               !.out    = Append(@, Visited(f, raw, s.packet))]

\* read_field, at a literal offset.  Indexing past the end panics.
LiteralField(s, f) ==
  LET span == CHOOSE x \in StaticSpan(f) : TRUE
  IN IF ~ InBounds(s.packet, span.offset, span.width) THEN Abort(s, "panic")
     ELSE Let(s, f, ReadSpan(f.repr, span, s.packet),
              SubSeq(s.packet, span.offset + 1, span.offset + span.width))

\* runtime_field, with take_bytes and read_at: the width comes from a field
\* already decoded, the offset from the cursor.
RuntimeWidth(s, f) ==
  IF f.width.kind = "fixed" THEN Size(f.width.bits)
  ELSE Size(f.width.slope * s.out[f.width.source].raw.v + f.width.intercept)
RuntimeField(s, f) ==
  With(RuntimeWidth(s, f), LAMBDA size :
    IF size.error # "none" THEN Abort(s, size.error)
    ELSE IF Borrows(f.repr) /\ (s.at % 8 # 0 \/ size.bits % 8 # 0)
    THEN Abort(s, "Unaligned")
    ELSE IF ~ InBounds(s.data, s.at, size.bits) THEN Abort(s, "TooShort")
    ELSE [Let(s, f, ReadSpan(f.repr, [offset |-> s.at, width |-> size.bits], s.data),
              SubSeq(s.data, s.at + 1, s.at + size.bits))
          EXCEPT !.at = @ + size.bits])

\* decode_body: the cursor starts where the literal prefix ends.
PrefixBits(plan) ==
  IF plan.bitLength = {} THEN plan.prefixBits ELSE CHOOSE n \in plan.bitLength : TRUE
DecodeField(s, f) ==
  IF s.error # "none" THEN s
  ELSE IF StaticSpan(f) # {} THEN LiteralField(s, f) ELSE RuntimeField(s, f)
DecodeBody(plan, data) ==
  LET bytes == Bytes(PrefixBits(plan))
  IN IF Len(data) < 8 * bytes THEN Abort(Body(<<>>, 0, 0), "TooShort")
     ELSE FoldLeft(DecodeField, Body(data, bytes, plan.prefixBits), plan.fields)

\* A container of known length is one struct literal, which introduces no
\* names, so nothing is hidden in it.
Unhidden(plan) ==
  IF plan.bitLength = {} THEN plan
  ELSE [plan EXCEPT !.fields = [i \in DOMAIN @ |-> [@[i] EXCEPT !.ident = <<>>]]]

\* reported_fields: one value per parameter, placed where it is first decoded
\* and carrying what it was last decoded to.
ReportedFields(out) ==
  LET LastOf(p)  == SelectLastInSeq(out, LAMBDA v : v.parameter = p)
      FirstOf(p) == SelectInSeq(out, LAMBDA v : v.parameter = p)
      firsts == SelectSeq([i \in DOMAIN out |-> i], LAMBDA i : FirstOf(out[i].parameter) = i)
  IN [i \in DOMAIN firsts |-> out[LastOf(out[firsts[i]].parameter)]]

Answer(result, c, values) == [result |-> result, container |-> c, values |-> values]
Refusal(result) == Answer(result, "", <<>>)

\* Mutant: the discriminators of the root's own inheritors only.
HeadBytesOfRoot(root) ==
  Bytes(Max({0} \cup {g.offset + g.width :
                       g \in UNION {GuardsIn(root.children[i].criteria) :
                                      i \in DOMAIN root.children}}))

\* head_bytes: what the dispatcher needs before it tests anything, at most over
\* the whole tree.
HeadBytes(root) ==
  Bytes(Max({0} \cup {g.offset + g.width : g \in GuardsOf(root)}))

\* descend: every inheritor of a node is tested on the same array.
RECURSIVE DescendTo(_, _, _)
DescendTo(node, head, data) ==
  LET matched == {i \in DOMAIN node.children : Condition(node.children[i].criteria, head)}
      Decoded(plan) == With(DecodeBody(Unhidden(plan), data), LAMBDA s :
        IF s.error # "none" THEN Refusal(s.error)
        ELSE Answer("ok", plan.container, ReportedFields(s.out)))
  IN IF Cardinality(matched) > 1 THEN Refusal("AmbiguousPacket")
     ELSE IF matched # {}
     THEN DescendTo(node.children[CHOOSE i \in matched : TRUE].node, head, data)
     ELSE IF node.plan = {} THEN Refusal("UnrecognizedPacket")
     ELSE Decoded(CHOOSE plan \in node.plan : TRUE)

\* dispatcher: the emitted `decode`.
GeneratedDecode(root, data) ==
  LET head == HeadBytes(root)
  IN IF Len(data) < 8 * head THEN Refusal("TooShort")
     ELSE DescendTo(root, SubSeq(data, 1, 8 * head), data)
===============================================================================
