---------------------------- MODULE SampleDatabases ----------------------------
(***************************************************************************)
(* Small databases and packets for the decoder.  Each database is built    *)
(* around one thing that can go wrong; a parameter is named for its use.   *)
(***************************************************************************)
EXTENDS Decoder

MCParams     == {"id", "sub", "len", "body", "tail"}
MCContainers == {"root", "one", "two", "leaf"}

\* Types.
IntType(coding, width, contexts, default) ==
  [kind     |-> "numeric",
   encoding |-> [form |-> "integer", coding |-> coding, width |-> width,
                 contexts |-> contexts, default |-> default],
   labels   |-> <<>>]
UInt(width) == IntType("unsigned", width, <<>>, {})
Binary(size) == [kind |-> "binary", encoding |-> [form |-> "binary", size |-> size],
                 labels |-> <<>>]
Fixed(bits) == [kind |-> "fixed", bits |-> bits]
Sized(p, useCalibrated, slope, intercept) ==
  [kind |-> "dynamic", parameter |-> p, useCalibrated |-> useCalibrated,
   slope |-> slope, intercept |-> intercept]
Enum(width, labels) == [UInt(width) EXCEPT !.kind = "enumerated", !.labels = labels]
Bool(width) == [UInt(width) EXCEPT !.kind = "boolean"]
Range1(lo, hi, label) == [value |-> lo, max |-> hi, label |-> label]

\* Entries.
Par(p)  == [kind |-> "parameter", parameter |-> p, location |-> {}, repeat |-> 1]
Ref(c)  == [kind |-> "container", child |-> c, location |-> {}, repeat |-> 1]
Fix(n)  == [kind |-> "fixed", size |-> n, location |-> {}, repeat |-> 1]
Unsup   == [kind |-> "unsupported", location |-> {}, repeat |-> 1]
At(e, reference, offset) ==
  [e EXCEPT !.location = {[reference |-> reference, offset |-> offset]}]
Times(e, n) == [e EXCEPT !.repeat = n]

\* Criteria.  The text number of a literal that is a number is out of the way
\* of the labels.
Num(n)   == [int |-> {n}, float |-> {n}, text |-> 1000 + n]
Label(l) == [int |-> {}, float |-> {}, text |-> l]
Cmp(p, op, literal, useCalibrated) ==
  [kind |-> "comparison", parameter |-> p, op |-> op, literal |-> literal,
   useCalibrated |-> useCalibrated]
Raw(p) == [kind |-> "parameter", parameter |-> p, useCalibrated |-> FALSE]
Eng(p) == [kind |-> "parameter", parameter |-> p, useCalibrated |-> TRUE]
Lit(l) == [kind |-> "literal", literal |-> l]
Cond(l, op, r) == [kind |-> "condition", left |-> l, op |-> op, right |-> r]
Tree(e) == [kind |-> "boolean", expr |-> e]
Custom  == [kind |-> "unsupported"]

Linear(scale, shift) ==
  [kind |-> "polynomial", terms |-> <<[coefficient |-> shift, exponent |-> 0],
                                      [coefficient |-> scale, exponent |-> 1]>>]
MathOperation == [kind |-> "unsupported"]

\* A database: what is not said is empty.
Base == [root        |-> "root",
         entries     |-> [c \in MCContainers |-> <<>>],
         inheritors  |-> [c \in MCContainers |-> <<>>],
         restriction |-> [c \in MCContainers |-> <<>>],
         abstract    |-> {},
         types       |-> [p \in MCParams |-> UInt(2)]]

\* A type field whose values pick one inheritor, two, or none: 0 leaf (twice
\* derived), 1 two, 2 both, 3 neither.
Selection ==
  [Base EXCEPT
    !.abstract    = {"root"},
    !.entries     = [@ EXCEPT !["root"] = <<Par("id")>>,
                              !["one"]  = <<Par("sub"), Fix(1)>>,
                              !["two"]  = <<Par("body")>>,
                              !["leaf"] = <<Par("tail")>>],
    !.inheritors  = [@ EXCEPT !["root"] = <<"one", "two">>, !["one"] = <<"leaf">>],
    !.restriction = [@ EXCEPT !["one"]  = <<Cmp("id", "neq", Num(1), TRUE),
                                            Cmp("id", "lt", Num(3), FALSE)>>,
                              !["two"]  = <<Cmp("id", "geq", Num(1), TRUE),
                                            Cmp("id", "leq", Num(2), TRUE)>>,
                              !["leaf"] = <<Cmp("sub", "gt", Num(0), FALSE)>>]]

\* Selection by a label, by a float and by boolean trees over two parameters.
Expressions ==
  [Base EXCEPT
    !.types       = [@ EXCEPT !["id"]  = Enum(2, <<Range1(0, 0, 1), Range1(1, 2, 2)>>),
                              !["sub"] = IntType("twosComplement", 2, <<>>, {Linear(2, 1)})],
    !.entries     = [@ EXCEPT !["root"] = <<Par("id"), Par("sub"), Par("len")>>,
                              !["leaf"] = <<Par("tail")>>],
    !.inheritors  = [@ EXCEPT !["root"] = <<"one", "two", "leaf">>],
    !.restriction =
      [@ EXCEPT
        !["one"]  = <<Cmp("id", "eq", Label(1), TRUE), Cmp("sub", "lt", Num(0), TRUE)>>,
        !["two"]  = <<Tree([kind |-> "and", of |->
                        <<Cond(Eng("id"), "neq", Lit(Label(1))),
                          [kind |-> "or", of |->
                             <<Cond(Raw("sub"), "eq", Raw("len")),
                               Cond(Eng("sub"), "gt", Lit(Num(2)))>>]>>])>>,
        !["leaf"] = <<Tree(Cond(Eng("id"), "eq", Raw("len")))>>]]

\* Comparisons that cannot be evaluated: an ordering of a label and a number,
\* a parameter this packet does not carry, a criterion of another kind, a
\* label literal met by a number.
BadCriteria ==
  [Base EXCEPT
    !.types       = [@ EXCEPT !["sub"] = Enum(1, <<Range1(0, 1, 1)>>),
                              !["body"] = Binary(Fixed(1))],
    !.entries     = [@ EXCEPT !["root"] = <<Par("id"), Par("sub"), Par("body")>>],
    !.inheritors  = [@ EXCEPT !["root"] = <<"one", "two", "leaf">>],
    !.restriction =
      [@ EXCEPT
        !["one"]  = <<Cmp("id", "eq", Num(0), TRUE), Cmp("tail", "eq", Num(0), TRUE)>>,
        !["two"]  = <<Cmp("id", "eq", Num(1), TRUE), Custom>>,
        !["leaf"] = <<Cmp("id", "geq", Num(2), TRUE),
                      Tree([kind |-> "or", of |->
                        <<Cond(Raw("id"), "eq", Lit(Num(2))),
                          Cond(Eng("sub"), "lt", Raw("body"))>>])>>]]

\* Repeated parameters, a nested container used twice, fixed bits.
Repeats ==
  [Base EXCEPT
    !.entries = [@ EXCEPT
      !["root"] = <<Par("id"), Times(Ref("one"), 2), Par("id")>>,
      !["one"]  = <<Times(Par("sub"), 2), Fix(1), Times(Par("len"), 0)>>,
      !["two"]  = <<Par("tail")>>],
    !.types       = [@ EXCEPT !["id"] = UInt(1), !["sub"] = UInt(1)],
    !.inheritors  = [@ EXCEPT !["root"] = <<"two">>],
    !.restriction = [@ EXCEPT !["two"] = <<Cmp("sub", "eq", Num(1), FALSE)>>]]

\* A container reference that comes back around, but only for some packets.
Cyclic ==
  [Base EXCEPT
    !.entries     = [@ EXCEPT !["root"] = <<Par("id")>>,
                              !["one"]  = <<Par("sub"), Ref("two")>>,
                              !["two"]  = <<Ref("one")>>,
                              !["leaf"] = <<Ref("two")>>],
    !.types       = [@ EXCEPT !["sub"] = UInt(0)],
    !.inheritors  = [@ EXCEPT !["root"] = <<"leaf">>],
    !.restriction = [@ EXCEPT !["leaf"] = <<Cmp("id", "eq", Num(3), TRUE)>>]]

\* Explicit locations: back to the start, before the packet, past its end.
Locations ==
  [Base EXCEPT
    !.types       = [@ EXCEPT !["body"] = UInt(0), !["tail"] = Binary(Fixed(0))],
    !.entries     = [@ EXCEPT
      !["root"] = <<Par("id"), At(Par("sub"), "previousEntry", -3),
                    At(Ref("one"), "containerStart", 4)>>,
      !["one"]  = <<At(Times(Par("len"), 2), "containerStart", 1)>>,
      !["two"]  = <<At(Par("body"), "previousEntry", 1), Par("tail")>>,
      !["leaf"] = <<At(Times(Par("id"), 0), "nextEntry", 0)>>],
    !.inheritors  = [@ EXCEPT !["root"] = <<"two", "leaf">>],
    !.restriction = [@ EXCEPT !["two"]  = <<Cmp("id", "eq", Num(1), TRUE)>>,
                              !["leaf"] = <<Cmp("id", "eq", Num(2), TRUE)>>]]

\* Sizes read from the packet: calibrated, adjusted below zero, looked up, and
\* one of them in a container of its own.
Sizes ==
  [Base EXCEPT
    !.types       = [@ EXCEPT
      !["sub"]  = Binary(Sized("id", FALSE, 2, -1)),
      !["len"]  = IntType("signMagnitude", 2, <<>>, {Linear(3, 0)}),
      !["body"] = Binary(Sized("len", TRUE, 1, 1)),
      !["tail"] = Binary([kind |-> "lookup", lookups |->
                    <<[criteria |-> <<Cmp("id", "eq", Num(1), FALSE),
                                      Cmp("len", "leq", Num(1), FALSE)>>, value |-> 3],
                      [criteria |-> <<Cmp("id", "eq", Num(2), FALSE)>>, value |-> -1]>>])],
    !.entries     = [@ EXCEPT
      !["root"] = <<Par("id"), Par("sub")>>,
      !["one"]  = <<Par("len"), Ref("two"), Par("tail")>>,
      !["two"]  = <<Par("body")>>],
    !.inheritors  = [@ EXCEPT !["root"] = <<"one">>],
    !.restriction = [@ EXCEPT !["one"] = <<Cmp("id", "neq", Num(3), TRUE)>>]]

\* Sizes that cannot be computed: of a label, of nothing decoded, unmodelled.
BadSizes ==
  [Base EXCEPT
    !.types       = [@ EXCEPT
      !["len"]  = Enum(1, <<Range1(0, 1, 1)>>),
      !["sub"]  = Binary(Sized("len", TRUE, 8, 0)),
      !["body"] = Binary(Sized("tail", FALSE, 8, 0)),
      !["tail"] = Binary([kind |-> "unsupported"])],
    !.entries     = [@ EXCEPT !["root"] = <<Par("id"), Par("len")>>,
                              !["one"]  = <<Par("sub")>>,
                              !["two"]  = <<Par("body")>>,
                              !["leaf"] = <<Par("tail")>>],
    !.inheritors  = [@ EXCEPT !["root"] = <<"one", "two", "leaf">>],
    !.restriction = [@ EXCEPT !["one"]  = <<Cmp("id", "eq", Num(1), TRUE)>>,
                              !["two"]  = <<Cmp("id", "eq", Num(2), TRUE)>>,
                              !["leaf"] = <<Cmp("id", "eq", Num(3), TRUE)>>]]

\* Calibrators: contexts on another parameter and on the value itself.
Calibration ==
  [Base EXCEPT
    !.types       = [@ EXCEPT
      !["id"]  = Bool(1),
      !["sub"] = IntType("onesComplement", 2,
                     <<[criteria |-> <<Cmp("id", "eq", Num(1), TRUE)>>,
                        calibrator |-> Linear(2, 0)],
                       [criteria |-> <<Cmp("sub", "lt", Num(0), TRUE)>>,
                        calibrator |-> Linear(1, 5)]>>, {Linear(3, 1)}),
      !["len"] = IntType("unsigned", 2,
                     <<[criteria |-> <<Cmp("len", "eq", Num(3), FALSE)>>,
                        calibrator |-> MathOperation],
                       [criteria |-> <<Cmp("len", "eq", Label(1), FALSE)>>,
                        calibrator |-> Linear(1, 0)]>>, {})],
    !.entries     = [@ EXCEPT !["root"] = <<Par("id"), Par("sub")>>,
                              !["one"]  = <<Par("len")>>],
    !.inheritors  = [@ EXCEPT !["root"] = <<"one">>],
    !.restriction = [@ EXCEPT !["one"] = <<Cmp("sub", "geq", Num(4), TRUE)>>]]

\* Entries and types out of scope, which only some packets meet.
OutOfScope ==
  [Base EXCEPT
    !.types       = [@ EXCEPT !["sub"] = [UInt(1) EXCEPT !.kind = "unsupported"],
                              !["len"] = [UInt(1) EXCEPT !.encoding = [form |-> "none"]]],
    !.entries     = [@ EXCEPT !["root"] = <<Par("id")>>,
                              !["one"]  = <<Unsup>>,
                              !["two"]  = <<Par("sub")>>,
                              !["leaf"] = <<Par("len")>>],
    !.inheritors  = [@ EXCEPT !["root"] = <<"one", "two", "leaf">>],
    !.restriction = [@ EXCEPT !["one"]  = <<Cmp("id", "eq", Num(1), TRUE)>>,
                              !["two"]  = <<Cmp("id", "eq", Num(2), TRUE)>>,
                              !["leaf"] = <<Cmp("id", "eq", Num(3), TRUE)>>]]

\* Layouts that compile.  Discriminators: labels merged into one range, a
\* negative literal, a boolean tree and calibrators chosen by context.
Discriminators ==
  [Base EXCEPT
    !.abstract    = {"root"},
    !.types       = [@ EXCEPT
      !["id"]  = Enum(2, <<Range1(0, 0, 1), Range1(1, 1, 2), Range1(2, 2, 3)>>),
      !["sub"] = IntType("twosComplement", 2, <<>>, {Linear(2, 1)}),
      !["len"] = IntType("unsigned", 2,
                     <<[criteria |-> <<Cmp("sub", "lt", Num(0), FALSE),
                                       Cmp("id", "eq", Label(2), TRUE)>>,
                        calibrator |-> Linear(3, 0)],
                       [criteria |-> <<Cmp("len", "eq", Num(3), FALSE)>>,
                        calibrator |-> Linear(1, 5)]>>, {Linear(1, 0)}),
      !["body"] = Enum(1, <<Range1(1, 1, 1)>>),
      !["tail"] = IntType("signMagnitude", 3, <<>>, {Linear(1, 1)})],
    !.entries     = [@ EXCEPT !["root"] = <<Par("id"), Par("sub")>>,
                              !["one"]  = <<Par("len")>>,
                              !["two"]  = <<Fix(1), Par("body"), Par("len")>>,
                              !["leaf"] = <<Fix(2), Par("tail")>>],
    !.inheritors  = [@ EXCEPT !["root"] = <<"one", "two">>, !["one"] = <<"leaf">>],
    !.restriction =
      [@ EXCEPT
        !["one"]  = <<Cmp("id", "leq", Label(2), TRUE), Cmp("id", "geq", Num(-1), FALSE)>>,
        !["two"]  = <<Tree([kind |-> "or", of |->
                        <<Cond(Eng("id"), "eq", Lit(Label(3))),
                          [kind |-> "and", of |->
                             <<Cond(Raw("sub"), "lt", Lit(Num(-1))),
                               Cond(Raw("id"), "eq", Lit(Num(1)))>>]>>])>>,
        !["leaf"] = <<Cmp("len", "neq", Num(2), FALSE)>>]]

\* A slice whose width the packet gives, four bits at a time, and a number
\* behind it; 0 makes the width negative.
DynamicSlices ==
  [Base EXCEPT
    !.types       = [@ EXCEPT !["id"]   = UInt(3), !["len"] = UInt(5),
                              !["body"] = Binary(Sized("id", FALSE, 4, -4)),
                              !["tail"] = IntType("onesComplement", 3, <<>>, {Linear(1, 2)})],
    !.entries     = [@ EXCEPT !["root"] = <<Par("id"), Par("len"), Par("body")>>,
                              !["one"]  = <<Par("tail"), Par("sub")>>],
    !.inheritors  = [@ EXCEPT !["root"] = <<"one">>],
    !.restriction = [@ EXCEPT !["one"] = <<Cmp("id", "lt", Num(3), TRUE)>>]]

\* A container used twice, and its parameter once more in an inheritor.
UsedTwice ==
  [Base EXCEPT
    !.types       = [@ EXCEPT !["id"] = UInt(1), !["sub"] = UInt(1), !["len"] = Bool(2)],
    !.entries     = [@ EXCEPT !["root"] = <<Par("id"), Times(Ref("one"), 2), Par("len")>>,
                              !["one"]  = <<Par("sub"), Fix(1)>>,
                              !["two"]  = <<Par("sub"), Par("tail")>>],
    !.inheritors  = [@ EXCEPT !["root"] = <<"two">>],
    !.restriction = [@ EXCEPT !["two"] = <<Cmp("id", "eq", Num(1), TRUE)>>]]

\* A short packet beside one whose inheritor is told by a far discriminator.
FarDiscriminator ==
  [Base EXCEPT
    !.types       = [@ EXCEPT !["sub"] = UInt(3)],
    !.entries     = [@ EXCEPT !["root"] = <<Par("id")>>,
                              !["two"]  = <<Fix(6), Par("sub")>>,
                              !["leaf"] = <<Par("tail")>>],
    !.inheritors  = [@ EXCEPT !["root"] = <<"one", "two">>, !["two"] = <<"leaf">>],
    !.restriction = [@ EXCEPT !["one"]  = <<Cmp("id", "eq", Num(0), TRUE)>>,
                              !["two"]  = <<Cmp("id", "eq", Num(1), TRUE)>>,
                              !["leaf"] = <<Cmp("sub", "eq", Num(5), TRUE)>>]]

MCDatabases ==
  {Selection, Expressions, BadCriteria, Repeats, Cyclic, Locations, Sizes,
   BadSizes, Calibration, OutOfScope, Discriminators, DynamicSlices, UsedTwice,
   FarDiscriminator}

\* Packets: none, every byte whose last bit is clear, and two bytes with the
\* first six bits free.
Byte(bits) == bits \o [i \in 1 .. 8 - Len(bits) |-> 0]
MCPackets ==
  {<<>>} \cup {Byte(bits) : bits \in [1 .. 6 -> {0, 1}]}
         \cup {Byte(bits) \o Byte(<<1, 0, 1>>) : bits \in [1 .. 4 -> {0, 1}]}
===============================================================================
