-------------------------------- MODULE Splines --------------------------------
(***************************************************************************)
(* Spline calibrators: `interpolate` of the interpreter (xtce-decode,      *)
(* calibrate.rs) and `spline_value` of the generated code (xtce-codegen,   *)
(* emit.rs).  A spline is [order, points, extrapolate], its points a       *)
(* sequence of [raw, cal] that the loader has sorted by raw value, where   *)
(* two points may have the same.  Numbers are exact: a value is a fraction *)
(* [num, den]; NaN and rounding are outside.                               *)
(***************************************************************************)
EXTENDS Integers, SequencesExt

Value(n) == [num |-> n, den |-> 1]
Found(value) == [error |-> "none", value |-> value]
Failed(error) == [error |-> error, value |-> Value(0)]

\* line and spline_line.
Line(x, p, q) ==
  IF q.raw = p.raw THEN Value(p.cal)
  ELSE [num |-> (q.cal - p.cal) * (x - p.raw) + p.cal * (q.raw - p.raw),
        den |-> q.raw - p.raw]

\* Mutant: the segment starts above the query where one point is at it.
HiBelow(points, query) ==
  LET n == SelectLastInSeq(points, LAMBDA p : p.raw < query)
  IN IF n = 0 THEN 1 ELSE n

\* partition_point: how many points are at or below the query, at least one;
\* in their order that is the place of the last of them.
Hi(points, query) ==
  LET n == SelectLastInSeq(points, LAMBDA p : p.raw <= query)
  IN IF n = 0 THEN 1 ELSE n

\* What a query beyond an end gives: the nearer point, or the line through it
\* and the next.
Beyond(spline, x, end, p, q) ==
  CASE spline.order = 0 -> Found(Value(end.cal))
    [] spline.order = 1 -> Found(IF Len(spline.points) < 2 THEN Value(end.cal)
                                 ELSE Line(x, p, q))
    [] OTHER -> Failed("UnsupportedOrder")

\* interpolate.
Interpolate(spline, x) ==
  LET points == spline.points
      first == Head(points)
      last == Last(points)
      upper == IF Hi(points, x) + 1 < Len(points) THEN Hi(points, x) + 1 ELSE Len(points)
  IN IF points = <<>> THEN Failed("EmptySpline")
     ELSE IF x < first.raw \/ x > last.raw
     THEN IF ~ spline.extrapolate THEN Failed("OutsideSplineRange")
          ELSE IF x < first.raw THEN Beyond(spline, x, first, first, points[2])
          ELSE Beyond(spline, x, last, points[Len(points) - 1], last)
     ELSE CASE spline.order = 0 -> Found(Value(points[Hi(points, x)].cal))
            [] spline.order = 1 ->
                 Found(IF Len(points) < 2 THEN Value(first.cal)
                       ELSE Line(x, points[upper - 1], points[upper]))
            [] OTHER -> Failed("UnsupportedOrder")

\* A spline the generator compiles (calibration_for).
Compilable(spline) == spline.order <= 1 /\ spline.points # <<>>

\* spline_value: any order but 0 is a line, and a refusal has one reason.
SplineValue(points, order, extrapolate, x) ==
  LET count == Len(points)
      hi == Hi(points, x)
      upper == IF hi < count - 1 THEN hi ELSE count - 1
      Outer(end, p, q) ==
        IF ~ extrapolate THEN Failed("Calibration")
        ELSE Found(IF order = 0 \/ count < 2 THEN Value(end.cal) ELSE Line(x, p, q))
  IN IF count = 0 THEN Failed("Calibration")
     ELSE IF x < Head(points).raw THEN Outer(Head(points), Head(points), points[2])
     ELSE IF x > Last(points).raw THEN Outer(Last(points), points[count - 1], Last(points))
     ELSE IF order = 0 THEN Found(Value(points[hi].cal))
     ELSE IF count < 2 THEN Found(Value(Head(points).cal))
     ELSE Found(Line(x, points[upper], points[upper + 1]))
===============================================================================
