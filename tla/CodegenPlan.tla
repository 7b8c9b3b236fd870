------------------------------ MODULE CodegenPlan ------------------------------
(***************************************************************************)
(* The layout the code generator computes (xtce-codegen, plan.rs): the     *)
(* container tree walked once, every inheritance chain flattened into one  *)
(* list of fields with literal offsets, and every restriction turned into  *)
(* a test on the bits of an earlier field -- or a refusal.                 *)
(*                                                                         *)
(* A container plan is [container, bitLength, prefixBits, fields, fixed],  *)
(* a field                                                                 *)
(*   [parameter, ident, engIdent, offset, width, repr, calibration,        *)
(*    contexts, refused]                                                   *)
(* and a guard [offset, width, repr, test].  What the code has as an       *)
(* Option is a set with at most one element, and a refusal is a flag: a    *)
(* single one stops the whole build, so which comes first is left out.     *)
(* Outside: text and float fields, byte swaps and splines, as in           *)
(* FieldDecoding, and the names of the generated types.                    *)
(***************************************************************************)
EXTENDS FieldDecoding, FiniteSets

CONSTANTS MAX_DEPTH,        \* nesting the generator follows, 64 in the code
          FieldIdent        \* the words of a parameter's sanitised name

FixedWidth(bits) == [kind |-> "fixed", bits |-> bits]
NoWidth == [kind |-> "refused"]
Repr(kind) == [kind |-> kind, coding |-> "unsigned", labels |-> <<>>]

\* Repr::is_comparable and Repr::borrows.
Comparable(repr) == repr.kind \in {"unsigned", "signed", "bool", "enumerated"}
Borrows(repr) == repr.kind = "binary"

\* Field::static_span: the offset and the width, when both are known.
StaticSpan(f) ==
  IF f.width.kind = "fixed"
  THEN {[offset |-> o, width |-> f.width.bits] : o \in f.offset} ELSE {}

\* Cursor::advance: past a width only the packet knows, no offset is known.
Advance(offset, width) ==
  IF width.kind = "fixed" THEN {o + width.bits : o \in offset} ELSE {}

\* size_width: the field a dynamic size is read from is the first one of that
\* parameter, and has to be a plain integer.
SizeWidth(size, preceding) ==
  LET source == SelectInSeq(preceding, LAMBDA f : f.parameter = size.parameter)
  IN IF size.kind = "fixed" THEN FixedWidth(size.bits)
     ELSE IF \/ size.kind # "dynamic"
             \/ source = 0
             \/ preceding[source].repr.kind \notin {"unsigned", "signed"}
     THEN NoWidth
     ELSE [kind |-> "dynamic", source |-> source,
           slope |-> size.slope, intercept |-> size.intercept]

\* encoding_repr.
EncodingWidth(encoding, preceding) ==
  CASE encoding.form = "integer" -> FixedWidth(encoding.width)
    [] encoding.form = "binary"  -> SizeWidth(encoding.size, preceding)
    [] encoding.form = "none"    -> NoWidth
EncodingRepr(encoding) ==
  CASE encoding.form = "binary" -> Repr("binary")
    [] encoding.form = "none"   -> Repr("refused")
    [] encoding.form = "integer" ->
         IF encoding.coding = "unsigned" THEN Repr("unsigned")
         ELSE [Repr("signed") EXCEPT !.coding = encoding.coding]

\* Builder::kind_repr: a boolean and an enumeration forget the coding.
KindRepr(type) ==
  LET numeric == EncodingRepr(type.encoding)
  IN IF \/ type.kind = "unsupported"
        \/ Borrows(numeric) # (type.kind = "binary")
     THEN Repr("refused")
     ELSE CASE type.kind = "boolean"    -> Repr("bool")
            [] type.kind = "enumerated" -> [Repr("enumerated") EXCEPT !.labels = type.labels]
            [] OTHER                    -> numeric

\* The refusals of Builder::field: a borrowed field is whole bytes on a byte
\* boundary, as far as that is known; a number has a width of 1 to 64 bits.
LayoutRefused(repr, offset, width) ==
  \/ repr.kind = "refused"
  \/ width.kind = "refused"
  \/ Borrows(repr) /\ width.kind = "fixed"
       /\ (\/ \E o \in offset : o % 8 # 0
           \/ width.bits % 8 # 0
           \/ width.bits = 0)
  \/ ~ Borrows(repr)
       /\ (width.kind = "dynamic" \/ width.bits \notin 1 .. MAX_UINT_BITS)

\* Builder::calibration_for: only a number is calibrated.
DefaultFor(type, repr) ==
  IF repr.kind \in {"unsigned", "signed"} THEN type.encoding.default ELSE {}

\* labels_satisfying: the raw values whose labels compare so with a literal,
\* adjoining entries merged.
LabelsSatisfying(labels, op, text) ==
  FoldLeft(LAMBDA ranges, e :
             IF ranges # <<>> /\ Last(ranges)[2] + 1 >= e.value
                              /\ e.value >= Last(ranges)[1]
             THEN [ranges EXCEPT ![Len(ranges)][2] = Max({@, e.max})]
             ELSE Append(ranges, <<e.value, e.max>>),
           <<>>,
           SelectSeq(labels, LAMBDA e : Matches(op, e.label, text)))

\* guard_test: an enumeration compared by its engineering value is compared
\* by label, anything else by its number.
GuardTest(repr, c) ==
  IF repr.kind = "enumerated" /\ c.useCalibrated
  THEN [kind |-> "labels", ranges |-> LabelsSatisfying(repr.labels, c.op, c.literal.text)]
  ELSE IF c.literal.int = {} THEN [kind |-> "refused"]
  ELSE [kind |-> "value", op |-> c.op, value |-> CHOOSE n \in c.literal.int : TRUE]

GuardOn(span, repr, test) ==
  [offset |-> span.offset, width |-> span.width, repr |-> repr, test |-> test]
RefusedGuard == GuardOn([offset |-> 0, width |-> 0], Repr("refused"), [kind |-> "refused"])

\* The checks Builder::guard and context_guard share, on the field they found.
FieldGuard(f, c) ==
  IF \/ StaticSpan(f) = {}
     \/ ~ Comparable(f.repr)
     \/ c.useCalibrated /\ (f.calibration # {} \/ f.repr.kind = "bool")
  THEN RefusedGuard
  ELSE GuardOn(CHOOSE s \in StaticSpan(f) : TRUE, f.repr, GuardTest(f.repr, c))

\* Builder::context_guard: the last preceding field of that parameter, or else
\* the raw value of the field being calibrated.
ContextGuard(c, preceding, current) ==
  LET named == SelectLastInSeq(preceding, LAMBDA f : f.parameter = c.parameter)
  IN IF named # 0 THEN FieldGuard(preceding[named], c)
     ELSE IF c.useCalibrated \/ ~ Comparable(current.repr) \/ c.literal.int = {}
     THEN RefusedGuard
     ELSE [current EXCEPT !.test = [kind |-> "value", op |-> c.op,
                                    value |-> CHOOSE n \in c.literal.int : TRUE]]

TestOf(guard) == [kind |-> "test", guard |-> guard]
Every(of) == [kind |-> "all", of |-> of]
Some(of)  == [kind |-> "any", of |-> of]
RefusedTest == TestOf(RefusedGuard)

\* Criterion::simplified and flatten: nested groups of the same connective
\* are spliced, a group of one is its element.
RECURSIVE Simplified(_)
Simplified(t) ==
  IF t.kind = "test" THEN t
  ELSE LET Spliced(child) == IF child.kind = t.kind THEN child.of ELSE <<child>>
       IN With(FlattenSeq([i \in DOMAIN t.of |-> Spliced(Simplified(t.of[i]))]),
               LAMBDA out : IF Len(out) = 1 THEN out[1] ELSE [t EXCEPT !.of = out])

\* Every guard of a tree.
RECURSIVE GuardsIn(_)
GuardsIn(t) == IF t.kind = "test" THEN {t.guard}
               ELSE UNION {GuardsIn(t.of[i]) : i \in DOMAIN t.of}
TreeRefused(t) == \E g \in GuardsIn(t) : g.test.kind = "refused"

\* Builder::contexts_for and context_criterion: only comparisons, and only
\* with a default calibrator to fall back on.
ContextTree(criteria, preceding, current) ==
  Simplified(Every([i \in DOMAIN criteria |->
    IF criteria[i].kind = "comparison"
    THEN TestOf(ContextGuard(criteria[i], preceding, current))
    ELSE RefusedTest]))
ContextsFor(list, preceding, current) ==
  [i \in DOMAIN list |->
     [criteria    |-> ContextTree(list[i].criteria, preceding, current),
      calibration |-> list[i].calibrator]]
ContextsRefused(contexts, offset, default) ==
  /\ contexts # <<>>
  /\ \/ offset = {}
     \/ default = {}
     \/ \E i \in DOMAIN contexts : \/ TreeRefused(contexts[i].criteria)
                                   \/ contexts[i].calibration.kind = "unsupported"

\* Builder::field.
FieldOf(b, p, offset, preceding) ==
  LET type     == b.types[p]
      repr     == KindRepr(type)
      width    == EncodingWidth(type.encoding, preceding)
      default  == DefaultFor(type, repr)
      start    == IF offset = {} THEN 0 ELSE CHOOSE o \in offset : TRUE
      bits     == IF width.kind = "fixed" THEN width.bits ELSE 0
      current  == GuardOn([offset |-> start, width |-> bits], repr, [kind |-> "refused"])
      listed   == IF type.encoding.form = "integer" THEN type.encoding.contexts ELSE <<>>
      contexts == ContextsFor(listed, preceding, current)
  IN [parameter |-> p, ident |-> FieldIdent[p], engIdent |-> {}, offset |-> offset,
      width |-> width, repr |-> repr, calibration |-> default, contexts |-> contexts,
      refused |-> \/ LayoutRefused(repr, offset, width)
                  \/ \E c \in default : c.kind = "unsupported"
                  \/ ContextsRefused(contexts, offset, default)]

\* A layout in progress: the fields and the fixed bits so far, and the offset
\* reached while it is still known.
EmptyLayout == [fields |-> <<>>, fixed |-> <<>>, offset |-> {0}, refused |-> FALSE]
Refuse(l) == [l EXCEPT !.refused = TRUE]

AddField(b, p, l) ==
  With(FieldOf(b, p, l.offset, l.fields), LAMBDA f :
    IF f.refused THEN Refuse(l)
    ELSE [l EXCEPT !.fields = Append(@, f), !.offset = Advance(@, f.width)])

\* Fixed bits are placed by the generator, so their offset has to be known.
AddFixed(e, l) ==
  IF l.offset = {} THEN Refuse(l)
  ELSE [l EXCEPT !.fixed  = Append(@, [offset |-> CHOOSE o \in l.offset : TRUE,
                                       width  |-> e.size]),
                 !.offset = Advance(@, FixedWidth(e.size))]

\* Builder::flatten: a container's entries, references expanded in place.
RECURSIVE Flatten(_, _, _, _)
Flatten(b, c, layout, depth) ==
  LET Times(e, l, Once(_)) ==
        FoldLeft(LAMBDA x, k : IF x.refused THEN x ELSE Once(x), l,
                 [k \in 1 .. e.repeat |-> k])
      Place(l, e) ==
        IF \/ l.refused
           \/ e.location # {}
           \/ e.kind = "unsupported"
           \/ e.kind = "parameter" /\ e.repeat # 1
        THEN Refuse(l)
        ELSE CASE e.kind = "parameter" -> AddField(b, e.parameter, l)
               [] e.kind = "fixed"     -> Times(e, l, LAMBDA x : AddFixed(e, x))
               [] e.kind = "container" ->
                    Times(e, l, LAMBDA x : Flatten(b, e.child, x, depth + 1))
  IN IF depth > MAX_DEPTH THEN Refuse(layout)
     ELSE FoldLeft(Place, layout, b.entries[c])

\* assign_unique_idents: every field claims its name, and the companion that
\* holds its engineering value claims one derived from it, suffixed from 2 on
\* until it is free.  A keyword's escape, an empty last word, is trimmed.
Claimed(wanted, used) ==
  IF wanted \notin used THEN wanted
  ELSE LET Suffixed(n) == Append(wanted, ToString(n))
           free == {n \in 2 .. Cardinality(used) + 2 : Suffixed(n) \notin used}
       IN Suffixed(Min(free))
EngIdent(ident) ==
  Append(IF Last(ident) = "" THEN Front(ident) ELSE ident, "eng")

\* Mutant: the companions are named without looking at the names in use.
ClaimForBlindly(done, f) ==
  LET name == Claimed(f.ident, done.used)
      eng  == IF f.calibration = {} THEN {} ELSE {EngIdent(name)}
  IN [fields |-> Append(done.fields, [f EXCEPT !.ident = name, !.engIdent = eng]),
      used   |-> done.used \cup {name} \cup eng]

ClaimFor(done, f) ==
  LET name == Claimed(f.ident, done.used)
      eng  == IF f.calibration = {} THEN {}
              ELSE {Claimed(EngIdent(name), done.used \cup {name})}
  IN [fields |-> Append(done.fields, [f EXCEPT !.ident = name, !.engIdent = eng]),
      used   |-> done.used \cup {name} \cup eng]

AssignUniqueIdents(fields) ==
  FoldLeft(ClaimFor, [fields |-> <<>>, used |-> {}], fields).fields

\* Builder::guard: the first field of that parameter, wherever it is decoded
\* again later.
Guard(c, fields) ==
  LET named == SelectInSeq(fields, LAMBDA f : f.parameter = c.parameter)
  IN IF named = 0 THEN RefusedGuard ELSE FieldGuard(fields[named], c)

\* Builder::boolean: a condition compiles when it tests a parameter against a
\* literal.
RECURSIVE BooleanTree(_, _)
BooleanTree(e, fields) ==
  CASE e.kind = "and" -> Every([i \in DOMAIN e.of |-> BooleanTree(e.of[i], fields)])
    [] e.kind = "or"  -> Some([i \in DOMAIN e.of |-> BooleanTree(e.of[i], fields)])
    [] e.kind = "condition" ->
         IF e.right.kind # "literal" THEN RefusedTest
         ELSE TestOf(Guard([parameter     |-> e.left.parameter, op |-> e.op,
                            useCalibrated |-> e.left.useCalibrated,
                            literal       |-> e.right.literal], fields))

\* Builder::criteria: the restriction of an inheritor, a conjunction.
CriteriaTree(restriction, fields) ==
  LET TreeOf(c) == CASE c.kind = "comparison"  -> TestOf(Guard(c, fields))
                     [] c.kind = "boolean"     -> BooleanTree(c.expr, fields)
                     [] c.kind = "unsupported" -> RefusedTest
  IN Simplified(Every([i \in DOMAIN restriction |-> TreeOf(restriction[i])]))

\* The ContainerPlan of a concrete node.  The prefix is what the leading
\* fields of known offset and width reach to.
StaticPrefix(fields) ==
  LET known == SelectInSeq(fields, LAMBDA f : f.offset = {})
      run   == IF known = 0 THEN fields ELSE SubSeq(fields, 1, known - 1)
      spans == SelectSeq(run, LAMBDA f : StaticSpan(f) # {})
  IN IF spans = <<>> THEN 0
     ELSE LET s == CHOOSE s \in StaticSpan(Last(spans)) : TRUE IN s.offset + s.width
ContainerPlan(c, l) ==
  [container  |-> c,
   bitLength  |-> IF \E i \in DOMAIN l.fields : l.fields[i].offset = {} THEN {} ELSE l.offset,
   prefixBits |-> StaticPrefix(l.fields),
   fields     |-> l.fields,
   fixed      |-> l.fixed]

\* Builder::node: the container's own entries after everything it inherits,
\* its plan if a packet may stop here, and its inheritors.
RefusedNode(c) == [container |-> c, plan |-> {}, children |-> <<>>, refused |-> TRUE]
RECURSIVE NodeOf(_, _, _, _)
NodeOf(b, c, inherited, depth) ==
  LET Child(k, l) == [criteria |-> CriteriaTree(b.restriction[k], l.fields),
                      node     |-> NodeOf(b, k, l, depth + 1)]
      Built(l, children) ==
        [container |-> c,
         plan      |-> IF c \in b.abstract THEN {} ELSE {ContainerPlan(c, l)},
         children  |-> children,
         refused   |-> \E i \in DOMAIN children : \/ TreeRefused(children[i].criteria)
                                                  \/ children[i].node.refused]
      Named(l) == [l EXCEPT !.fields = AssignUniqueIdents(@)]
  IN IF depth > MAX_DEPTH THEN RefusedNode(c)
     ELSE With(Flatten(b, c, inherited, 0), LAMBDA l :
            IF l.refused THEN RefusedNode(c)
            ELSE With(Named(l), LAMBDA n :
                   Built(n, [i \in DOMAIN b.inheritors[c] |-> Child(b.inheritors[c][i], n)])))

\* build.
Build(b) == NodeOf(b, b.root, EmptyLayout, 0)

\* Every container plan below a node, and every guard of its dispatcher.
RECURSIVE PlansOf(_)
PlansOf(node) ==
  node.plan \cup UNION {PlansOf(node.children[i].node) : i \in DOMAIN node.children}
RECURSIVE GuardsOf(_)
GuardsOf(node) ==
  UNION {GuardsIn(node.children[i].criteria) \cup GuardsOf(node.children[i].node)
           : i \in DOMAIN node.children}
===============================================================================
