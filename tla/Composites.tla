------------------------------ MODULE Composites ------------------------------
(***************************************************************************)
(* The expansion of an array or an aggregate into its fields when a        *)
(* database is loaded: collect_leaves of crates/xtce-model/src/lower.rs,   *)
(* which walks a type and lists every field it eventually contains.  The   *)
(* recursion is the variable frames; a step is one call of collect_leaves  *)
(* or one return from it.                                                  *)
(*                                                                         *)
(* A field's name is the sequence of what the code prints after the        *)
(* parameter's name: the indices of an array element, the name of a        *)
(* member.  References to types have been resolved and dimensions that run *)
(* backwards refused before (lower_array_type, lower_aggregate_type).      *)
(***************************************************************************)
EXTENDS Integers, Sequences, FiniteSetsExt

CONSTANTS
    TypeIds,
    MemberNames,
    Declarations,        \* the type declarations a document may have
    Subsets,             \* the entry's own dimensions: <<>> or <<dimensions>>
    MaxExpandedFields,   \* MAX_EXPANDED_FIELDS, 4096 in the code
    MaxUsize             \* the largest number of elements a usize counts

Dimension == [start : Nat, end : Nat]

\* What is not composite is a field.
Shapes ==
    [shape : {"field"}]
    \union [shape : {"array"}, element : TypeIds, dimensions : Seq(Dimension)]
    \union [shape : {"aggregate"}, members : Seq([name : MemberNames, type : TypeIds])]

ASSUME DeclarationsAssumption ==
    \A types \in Declarations : \A t \in TypeIds :
        /\ types[t] \in Shapes
        /\ types[t].shape = "array" =>
              /\ types[t].dimensions # <<>>
              /\ \A i \in DOMAIN types[t].dimensions :
                    types[t].dimensions[i].start <= types[t].dimensions[i].end
        /\ types[t].shape = "aggregate" => types[t].members # <<>>

\* A document has finitely many declarations.
ASSUME TypeIdsAssumption == IsFiniteSet(TypeIds)

\* The dimensions an entry gives, if it does.
ASSUME SubsetsAssumption ==
    \A s \in Subsets : s # <<>> => s = <<s[1]>> /\ s[1] \in Seq(Dimension)

ASSUME LimitsAssumption == MaxExpandedFields \in Nat /\ MaxUsize \in Nat

VARIABLES
    types,     \* the lowered types
    root,      \* the type of the entry's parameter
    subset,    \* the dimensions the entry chooses, if it does
    frames,    \* the calls in progress, the innermost last
    fields,    \* the fields found so far: [name, type]
    verdict    \* "walking", then "expanded" or "refused"

compositeVars == <<types, root, subset, frames, fields, verdict>>
-----------------------------------------------------------------------------
IsField(t) == types[t].shape = "field"
IsArray(t) == types[t].shape = "array"

\* ArrayDimension::len
Width(dimension) == dimension.end - dimension.start + 1

\* How many elements there are: the product of the widths.
Elements(dimensions) ==
    LET upTo[i \in 0..Len(dimensions)] ==
            IF i = 0 THEN 1 ELSE upTo[i - 1] * Width(dimensions[i])
    IN  upTo[Len(dimensions)]

\* Mutant: where a subset ends is not looked at.
FitsFrom(chosen, declared) ==
    /\ Len(chosen) = Len(declared)
    /\ \A i \in DOMAIN chosen :
          declared[i].start <= chosen[i].start /\ chosen[i].start <= chosen[i].end

\* The chosen dimensions lie inside the declared ones.
Fits(chosen, declared) ==
    /\ Len(chosen) = Len(declared)
    /\ \A i \in DOMAIN chosen :
          /\ declared[i].start <= chosen[i].start
          /\ chosen[i].end <= declared[i].end
          /\ chosen[i].start <= chosen[i].end

\* The dimensions an array is expanded with.
Spans(t, chosen) == IF chosen = <<>> THEN types[t].dimensions ELSE chosen[1]

\* Mutant: the first index varies fastest.
FollowingFirst(indices, dimensions) ==
    LET axes == {i \in DOMAIN indices : indices[i] < dimensions[i].end}
    IN  [i \in DOMAIN indices |->
            IF \A a \in axes : i < a THEN dimensions[i].start
            ELSE IF \A a \in axes : i <= a THEN indices[i] + 1
            ELSE indices[i]]

\* The indices after these: the last axis that can advances and those behind
\* it begin again; so do all of them when none can.
Following(indices, dimensions) ==
    LET axes == {i \in DOMAIN indices : indices[i] < dimensions[i].end}
    IN  [i \in DOMAIN indices |->
            IF \A a \in axes : i > a THEN dimensions[i].start
            ELSE IF \A a \in axes : i >= a THEN indices[i] + 1
            ELSE indices[i]]

\* visiting: the composites the walk is inside of.
Visiting == {frames[i].type : i \in DOMAIN frames}

\* Mutant: the limit is tested after the field is listed.
AcceptedOver(t, chosen) ==
    IF IsField(t) THEN Len(fields) <= MaxExpandedFields
    ELSE /\ t \notin Visiting
         /\ IsArray(t) =>
               /\ chosen # <<>> => Fits(chosen[1], types[t].dimensions)
               /\ Elements(Spans(t, chosen)) <= MaxUsize

\* What collect_leaves refuses: a field too many, a subset that does not fit,
\* a type inside itself, a number of elements that overflows.
Accepted(t, chosen) ==
    IF IsField(t) THEN Len(fields) < MaxExpandedFields
    ELSE /\ t \notin Visiting
         /\ IsArray(t) =>
               /\ chosen # <<>> => Fits(chosen[1], types[t].dimensions)
               /\ Elements(Spans(t, chosen)) <= MaxUsize

\* A call on composite t, before its first element or member.
FrameOf(t, name, chosen) ==
    LET spans == IF IsArray(t) THEN Spans(t, chosen) ELSE <<>>
    IN  [type |-> t, name |-> name, done |-> 0, spans |-> spans,
         indices |-> [i \in DOMAIN spans |-> spans[i].start]]

\* A call of collect_leaves on t, made when the calls below are in progress.
Collect(t, name, chosen, below) ==
    IF ~ Accepted(t, chosen)
    THEN verdict' = "refused" /\ UNCHANGED <<frames, fields>>
    ELSE IF IsField(t)
    THEN /\ fields' = Append(fields, [name |-> name, type |-> t])
         /\ frames' = below
         /\ UNCHANGED verdict
    ELSE /\ frames' = Append(below, FrameOf(t, name, chosen))
         /\ UNCHANGED <<fields, verdict>>
-----------------------------------------------------------------------------
CompositeInit ==
    /\ types \in Declarations
    /\ root \in {t \in TypeIds : ~ IsField(t)}
    /\ subset \in Subsets
    /\ frames = <<>>
    /\ fields = <<>>
    /\ verdict = "walking"

Begin ==
    /\ verdict = "walking"
    /\ frames = <<>> /\ fields = <<>>
    /\ Collect(root, <<>>, subset, <<>>)
    /\ UNCHANGED <<types, root, subset>>

Top == frames[Len(frames)]
Below == SubSeq(frames, 1, Len(frames) - 1)

\* How many elements or members a call walks through.
Parts(frame) ==
    IF IsArray(frame.type) THEN Elements(frame.spans)
                           ELSE Len(types[frame.type].members)

\* The call, one part further.
Advanced(frame) ==
    [frame EXCEPT !.done = @ + 1, !.indices = Following(@, frame.spans)]

\* The next element or member; nothing inside is subset.
Descend ==
    /\ verdict = "walking"
    /\ frames # <<>> /\ Top.done < Parts(Top)
    /\ LET member == types[Top.type].members[Top.done + 1]
           below  == Append(Below, Advanced(Top))
       IN  IF IsArray(Top.type)
           THEN Collect(types[Top.type].element, Append(Top.name, Top.indices), <<>>, below)
           ELSE Collect(member.type, Append(Top.name, member.name), <<>>, below)
    /\ UNCHANGED <<types, root, subset>>

\* All parts done: visiting.pop().
Return ==
    /\ verdict = "walking"
    /\ frames # <<>> /\ Top.done = Parts(Top)
    /\ frames' = Below
    /\ UNCHANGED <<types, root, subset, fields, verdict>>

Finish ==
    /\ verdict = "walking"
    /\ frames = <<>> /\ fields # <<>>
    /\ verdict' = "expanded"
    /\ UNCHANGED <<types, root, subset, frames, fields>>

CompositeNext == Begin \/ Descend \/ Return \/ Finish

CompositeSafety == CompositeInit /\ [][CompositeNext]_compositeVars

\* The walk is one call and runs until it returns.
CompositeSpec == CompositeSafety /\ WF_compositeVars(CompositeNext)
-----------------------------------------------------------------------------
N == Cardinality(TypeIds)

Children(t) ==
    IF IsField(t) THEN {}
    ELSE IF IsArray(t) THEN {types[t].element}
    ELSE {types[t].members[i].type : i \in DOMAIN types[t].members}

\* The types d steps inside t.
Reached(t) ==
    LET reached[d \in 0..N] ==
            IF d = 0 THEN {t} ELSE UNION {Children(c) : c \in reached[d - 1]}
    IN  reached

\* A type somewhere inside t contains itself.
Circular(t) == Reached(t)[N] # {}

\* The fields of the first i members of t, when each type has `count' of them.
FirstMembers(t, i, count) ==
    LET upTo[j \in 0..i] ==
            IF j = 0 THEN 0 ELSE upTo[j - 1] + count[types[t].members[j].type]
    IN  upTo[i]

\* The number of fields in each type, when no type is circular.
FieldCounts ==
    LET counts[d \in 0..N] ==
            [t \in TypeIds |->
                IF IsField(t) THEN 1
                ELSE IF d = 0 THEN 0
                ELSE IF IsArray(t)
                THEN Elements(types[t].dimensions) * counts[d - 1][types[t].element]
                ELSE FirstMembers(t, Len(types[t].members), counts[d - 1])]
    IN  counts[N]

\* The subset matters to the entry's own type, when that is an array.
RootSpans == Spans(root, subset)

\* The number of fields the entry stands for.
Total ==
    IF IsArray(root) THEN Elements(RootSpans) * FieldCounts[types[root].element]
                     ELSE FieldCounts[root]

\* The place of indices in row-major order, from 0.
RowMajor(indices, dimensions) ==
    LET place[i \in 0..Len(indices)] ==
            IF i = 0 THEN 0
            ELSE place[i - 1] * Width(dimensions[i]) + indices[i] - dimensions[i].start
    IN  place[Len(indices)]

\* Which member of t has a name.
MemberOf(t, name) == CHOOSE i \in DOMAIN types[t].members : types[t].members[i].name = name

\* What a name leads to: the type, and how many fields come before its first.
Led(name) ==
    LET led[k \in 0..Len(name)] ==
            IF k = 0 THEN [type |-> root, before |-> 0]
            ELSE LET t == led[k - 1].type
                     i == MemberOf(t, name[k])
                 IN  IF IsArray(t)
                     THEN [type |-> types[t].element,
                           before |-> led[k - 1].before
                               + RowMajor(name[k], IF k = 1 THEN RootSpans
                                                            ELSE types[t].dimensions)
                                 * FieldCounts[types[t].element]]
                     ELSE [type |-> types[t].members[i].type,
                           before |-> led[k - 1].before
                               + FirstMembers(t, i - 1, FieldCounts)]
    IN  led[Len(name)]

\* The arrays the entry expands.
ArraysInside == {t \in UNION {Reached(root)[d] : d \in 0..N} : IsArray(t)}

\* The elements some dimensions are of, by their indices.
ElementsOf(dimensions) ==
    {i \in [DOMAIN dimensions -> UNION {d.start..d.end : d \in Range(dimensions)}] :
        \A a \in DOMAIN dimensions : i[a] \in dimensions[a].start..dimensions[a].end}

\* The code takes members of one name as they come, and their fields have one
\* name then.
MembersDiffer ==
    \A t \in TypeIds : ~ IsField(t) /\ ~ IsArray(t) =>
        \A i, j \in DOMAIN types[t].members :
            types[t].members[i].name = types[t].members[j].name => i = j

\* The fields come in the order their bits have: each stands at the place its
\* name computes to, the last index varying fastest and members in document
\* order, whatever is nested in what; so none is left out and none comes twice.
FieldsAreInPlace ==
    ~ Circular(root) /\ MembersDiffer =>
        \A i \in DOMAIN fields :
            /\ Led(fields[i].name).before = i - 1
            /\ Led(fields[i].name).type = fields[i].type

\* An expansion is complete, and one that is refused could not be: a type
\* contains itself, the subset leaves the array, or there are too many fields.
RefusalIsJustified ==
    LET unfit    == /\ IsArray(root) /\ subset # <<>>
                    /\ \/ ElementsOf(subset[1]) = {}
                       \/ ~ ElementsOf(subset[1]) \subseteq ElementsOf(types[root].dimensions)
        overflow == \/ IsArray(root) /\ Elements(RootSpans) > MaxUsize
                    \/ \E t \in ArraysInside \ {root} :
                          Elements(types[t].dimensions) > MaxUsize
    IN  /\ verdict = "expanded" =>
              ~ Circular(root) /\ ~ unfit /\ ~ overflow /\ Len(fields) = Total
        /\ verdict = "refused" =>
              Circular(root) \/ unfit \/ overflow \/ Total > MaxExpandedFields

\* What the walk may cost: no more fields than the limit, and no deeper than
\* there are types.
ExpansionIsBounded ==
    /\ Len(fields) <= MaxExpandedFields
    /\ Len(frames) <= N
    /\ \A i, j \in DOMAIN frames : frames[i].type = frames[j].type => i = j

=============================================================================
