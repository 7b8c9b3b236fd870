-------------------------- MODULE GeneratedAgreement ---------------------------
(***************************************************************************)
(* The generated decoder beside the interpreted one, on the same packets:  *)
(* "the generated decoder equals the interpreted one on all 7200 JPSS      *)
(* packets, field by field" (README.md), here for the layouts and packets  *)
(* of a run.  The interpreter is the stack machine of Decoder; the         *)
(* generated code is a function of the packet.                             *)
(***************************************************************************)
EXTENDS DecoderReference, GeneratedCode

\* The plan of every database, computed once.
Plans == [b \in Databases |-> Build(b)]
Compiled(b) == ~ Plans[b].refused

\* What the interpreter's buffer reports: parameters and values, in order.
Interpreted ==
  Answer(result, packet.container,
         [i \in DOMAIN packet.values |->
            [parameter |-> packet.values[i].parameter, raw |-> packet.values[i].raw,
             eng |-> packet.values[i].eng]])

(***************************************************************************)
(* Where the two differ by construction, found while stating the agreement *)
(* and left out of it by these conditions.                                 *)
(***************************************************************************)
ContainerPlans(b) == PlansOf(Plans[b])
FieldsOf(plan) == ToSet(plan.fields)

\* A dynamic size is read from the raw value of its source, calibrated or not.
SizesAreOfRawValues(b) ==
  \A plan \in ContainerPlans(b) : \A f \in FieldsOf(plan) :
    f.width.kind = "dynamic" =>
      \/ ~ b.types[f.parameter].encoding.size.useCalibrated
      \/ plan.fields[f.width.source].calibration = {}

\* A criterion or a size that names a parameter decoded twice means its first
\* field in the generated code and its latest value in the interpreter.
NamedParameters(b) ==
  UNION {{c.parameter : c \in {x \in ToSet(b.restriction[k]) : x.kind = "comparison"}}
           : k \in Containers}
    \cup {b.types[p].encoding.size.parameter : p \in
            {q \in Params : /\ b.types[q].encoding.form = "binary"
                            /\ b.types[q].encoding.size.kind = "dynamic"}}
NamedOnce(b) ==
  \A plan \in ContainerPlans(b) : \A i, j \in DOMAIN plan.fields :
    /\ plan.fields[i].parameter = plan.fields[j].parameter
    /\ plan.fields[i].parameter \in NamedParameters(b)
    => i = j

\* An enumeration or a boolean is stored unsigned whatever its encoding says,
\* and overlapping or negative ranges are searched differently.
LabelsAreUnsigned(b) ==
  \A plan \in ContainerPlans(b) : \A f \in FieldsOf(plan) :
    f.repr.kind \in {"bool", "enumerated"} =>
      /\ b.types[f.parameter].encoding.coding = "unsigned"
      /\ \A i \in DOMAIN f.repr.labels :
           /\ f.repr.labels[i].value >= 0
           /\ \A j \in 1 .. i - 1 : f.repr.labels[j].max < f.repr.labels[i].value

\* The cursor starts behind the last literal field, not behind fixed bits
\* that follow it.
CursorStartsInPlace(b) ==
  \A plan \in ContainerPlans(b) :
    \A i \in DOMAIN plan.fields :
      plan.fields[i].width.kind = "dynamic" =>
        \A o \in plan.fields[i].offset : o = plan.prefixBits

\* A slice named like one of the decoder's own variables hides it.
NothingIsHidden(b) ==
  \A plan \in ContainerPlans(b) : plan.bitLength = {} =>
    \A f \in FieldsOf(plan) : Borrows(f.repr) => f.ident \notin {<<"data">>, <<"packet">>}

Ordinary(b) ==
  /\ SizesAreOfRawValues(b)
  /\ NamedOnce(b)
  /\ LabelsAreUnsigned(b)
  /\ CursorStartsInPlace(b)
  /\ NothingIsHidden(b)

\* The compiled decoder answers what the interpreter answers: the container
\* and every raw and engineering value, in the same order, although it tests
\* every criterion before it decodes anything, reads at offsets computed long
\* before and never looks a value up.  It may answer where the interpreter
\* stops at a value with no label (the label is then empty), and refuse a
\* slice off a byte boundary or a packet shorter than the discriminators of
\* the whole tree, where the interpreter answers.
GeneratedAgrees ==
  phase = "idle" /\ result # "none" /\ Compiled(db) /\ Ordinary(db) =>
    \E generated \in {GeneratedDecode(Plans[db], packet.data)} :
      /\ generated.result = "ok" =>
           generated = Interpreted \/ result = "UnknownEnumeration"
      /\ result \in {"ok", "AmbiguousPacket", "UnrecognizedPacket"} =>
           \/ generated.result = result
           \/ generated.result = "Unaligned"
           \/ /\ generated.result = "TooShort"
              /\ Len(packet.data) < 8 * HeadBytes(Plans[db])

\* "Makes every generated field name unique within a container": fields and
\* the companions that hold engineering values, also where a parameter is
\* already named like a companion; and what a field is called in one container
\* it is called in every inheritor.
FieldNamesAreUnique ==
  Compiled(db) =>
    \A plan \in ContainerPlans(db) :
      LET names == {<<i, plan.fields[i].ident>> : i \in DOMAIN plan.fields}
                     \cup UNION {{<<-i, e>> : e \in plan.fields[i].engIdent}
                                   : i \in DOMAIN plan.fields}
      IN /\ \A m, n \in names : m[2] = n[2] => m = n
         /\ \A other \in ContainerPlans(db) :
              \A i \in DOMAIN plan.fields \cap DOMAIN other.fields :
                (\A j \in 1 .. i : plan.fields[j].parameter = other.fields[j].parameter)
                => plan.fields[i].ident = other.fields[i].ident
===============================================================================
