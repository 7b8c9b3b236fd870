------------------------------- MODULE Criteria -------------------------------
(***************************************************************************)
(* Match criteria (decoder.rs, evaluate and below): what decides which     *)
(* inheritor a packet is, which context calibrator applies and which       *)
(* discrete lookup gives a size.                                           *)
(*                                                                         *)
(* A verdict is Yes, No or the name of a DecodeError.  Texts (labels and   *)
(* literals) are numbered in their byte order, so a text comparison is a   *)
(* comparison of numbers; an optional reading of a literal is a set with   *)
(* at most one element.  Raw values are [kind, v] with kind unsigned,      *)
(* signed or bytes; engineering values add float, bool (0 or 1) and label. *)
(***************************************************************************)
EXTENDS PacketBuffer, SequencesExt

Yes == "yes"
No  == "no"
Verdict(b) == IF b THEN Yes ELSE No

\* LET x == value IN Body(x), with the value computed once: TLC may compute a
\* LET's right-hand side again at each use.
With(value, Body(_)) == [x \in {value} |-> Body(x)][value]

\* CompareOp::matches over an ordering of a and b.
Matches(op, a, b) ==
  CASE op = "eq"  -> a = b
    [] op = "neq" -> a # b
    [] op = "lt"  -> a < b
    [] op = "leq" -> a <= b
    [] op = "gt"  -> a > b
    [] op = "geq" -> a >= b

\* Scalar::from_raw and Scalar::from_eng: the comparable view of a value.
ScalarKind(kind) ==
  CASE kind \in {"unsigned", "signed", "bool"} -> "integer"
    [] kind = "float" -> "float"
    [] kind = "label" -> "text"
    [] kind = "bytes" -> "opaque"
Scalar(value) == [kind |-> ScalarKind(value.kind), v |-> value.v]
Side(value, useCalibrated) ==
  Scalar(IF useCalibrated THEN value.eng ELSE value.raw)

\* test_literal: the value's own kind picks the reading of the literal.
TestLiteral(s, op, lit) ==
  LET readings == CASE s.kind = "integer" -> lit.int
                    [] s.kind = "float"   -> lit.float
                    [] s.kind = "text"    -> {lit.text}
                    [] s.kind = "opaque"  -> {}
  IN IF readings = {} THEN "IncomparableValue"
     ELSE Verdict(\E right \in readings : Matches(op, s.v, right))

\* test_scalars: numbers with numbers, text with text, and otherwise only
\* equality is defined.
TestScalars(l, op, r) ==
  LET numeric == {"integer", "float"}
  IN IF \/ l.kind \in numeric /\ r.kind \in numeric
        \/ l.kind = "text" /\ r.kind = "text"
     THEN Verdict(Matches(op, l.v, r.v))
     ELSE CASE op = "eq"  -> No
            [] op = "neq" -> Yes
            [] OTHER      -> "IncomparableValue"

\* What is a list of the source is a sequence.
IsSequence(s) == s \in Seq(Range(s))

\* A grouping has a list of conditions or of groupings of conditions.
WellFormedCriteria(criteria) ==
  /\ IsSequence(criteria)
  /\ \A i \in DOMAIN criteria :
       LET e == criteria[i].expr IN
       criteria[i].kind = "boolean" /\ e.kind # "condition" =>
         /\ IsSequence(e.of)
         /\ \A j \in DOMAIN e.of : e.of[j].kind # "condition" => IsSequence(e.of[j].of)

\* The loops over a criteria list stop at the first element that does not
\* hold, or that fails; those over an OR at the first that holds or fails.
UpTo(s, neutral, Eval(_)) ==
  With([i \in DOMAIN s |-> Eval(s[i])], LAMBDA verdicts :
    LET i == SelectInSeq(verdicts, LAMBDA v : v # neutral)
    IN IF i = 0 THEN neutral ELSE verdicts[i])
AllOf(s, Eval(_)) == UpTo(s, Yes, Eval)
AnyOf(s, Eval(_)) == UpTo(s, No, Eval)

\* evaluate_comparison.  `current` is {} or the one raw value being decoded.
EvaluateComparison(c, pkt, current) ==
  IF Has(pkt, c.parameter)
  THEN TestLiteral(Side(Get(pkt, c.parameter), c.useCalibrated), c.op, c.literal)
  ELSE IF current # {}
  THEN TestLiteral(Scalar(CHOOSE raw \in current : TRUE), c.op, c.literal)
  ELSE "ParameterNotYetDecoded"

\* operand_value and evaluate_condition.
EvaluateCondition(c, pkt) ==
  IF ~ Has(pkt, c.left.parameter) THEN "ParameterNotYetDecoded"
  ELSE LET left == Side(Get(pkt, c.left.parameter), c.left.useCalibrated) IN
    IF c.right.kind = "literal"
    THEN TestLiteral(left, c.op, c.right.literal)
    ELSE IF ~ Has(pkt, c.right.parameter) THEN "ParameterNotYetDecoded"
    ELSE TestScalars(left, c.op,
                     Side(Get(pkt, c.right.parameter), c.right.useCalibrated))

\* evaluate_boolean, for an expression with at most one level of grouping
\* inside a group (BOOLEAN_DEPTH = 2); the code recurses without a bound.
EvaluateGroup(e, Eval(_)) ==
  IF e.kind = "and" THEN AllOf(e.of, Eval) ELSE AnyOf(e.of, Eval)
EvaluateInner(e, pkt) ==
  IF e.kind = "condition" THEN EvaluateCondition(e, pkt)
  ELSE EvaluateGroup(e, LAMBDA x : EvaluateCondition(x, pkt))
EvaluateBoolean(e, pkt) ==
  IF e.kind = "condition" THEN EvaluateCondition(e, pkt)
  ELSE EvaluateGroup(e, LAMBDA x : EvaluateInner(x, pkt))

\* evaluate: a boolean expression never sees the value being decoded.
Evaluate(c, pkt, current) ==
  CASE c.kind = "comparison"  -> EvaluateComparison(c, pkt, current)
    [] c.kind = "boolean"     -> EvaluateBoolean(c.expr, pkt)
    [] OTHER                  -> "Unsupported"

\* The criteria loop of inheritor_matches, calibrate and discrete_lookup:
\* all must hold, an empty list holds, an error ends the decode.
EvaluateAll(criteria, pkt, current) ==
  AllOf(criteria, LAMBDA c : Evaluate(c, pkt, current))
===============================================================================
