-------------------------------- MODULE Loader --------------------------------
(***************************************************************************)
(* The passes of the loader after registration                             *)
(* (crates/xtce-model/src/lower.rs, Lowering::run): command bases and the  *)
(* arguments a command can name, types, parameters, containers with their  *)
(* entries and criteria, inheritance.  Each step lowers one definition; an *)
(* error ends the load.  References are resolved as in Namespaces.         *)
(*                                                                         *)
(* What an element holds is its body:                                      *)
(*   a type        [valid, members]: whether its sizes are numbers, and    *)
(*                 the references of its members (none unless composite;   *)
(*                 an array is an aggregate whose members have one type)   *)
(*   a parameter   [type], as an argument                                  *)
(*   a command     [abstract, base, assignments]: names of arguments       *)
(*   a container   [abstract, base, criteria, entries], with criteria      *)
(*                 [form, refs], the parameters compared, and entries      *)
(*                 [tag, ref, outOfScope, placed], see Entered             *)
(* Formats, calibrators and criteria inside types are left out.            *)
(***************************************************************************)
EXTENDS Namespaces, SequencesExt

CONSTANTS
    NoRef,              \* an element or attribute that is not there
    NoAttribute,        \* a BaseMetaCommand without its reference
    RootNames,          \* the conventional names of a root, in order
    MaxExpandedFields

EntryTags == {"parameterRef", "argumentRef", "containerRef", "fixedValue", "other"}

\* The children of an element are in order.
ASSUME BodyShapes ==
    /\ \A kind \in {"parameterType", "commandType", "argumentType"} :
          \A body \in Bodies[kind] : body.members \in Seq(Range(body.members))
    /\ \A body \in Bodies["container"] :
          /\ body.entries \in Seq(Range(body.entries))
          /\ \A entry \in Range(body.entries) : entry.tag \in EntryTags

ASSUME ExpansionAssumption == MaxExpandedFields \in Nat \ {0}

VARIABLES
    pass,          \* which pass is running, "failed" or "loaded"
    base,          \* the base of each command, 0 for none
    arguments,     \* command_arguments: by name, for each command
    members,       \* of each lowered type: [supported, types]
    typeOf,        \* the type of each parameter and argument
    extra,         \* the types of the parameters made for leaves
    containers,    \* the lowered containers
    failure,       \* the kind of the error
    report         \* the chain of an InheritanceCycle among commands

loaderVars == <<pass, base, arguments, members, typeOf, extra, containers,
                failure, report>>
-----------------------------------------------------------------------------
Of(kinds) == {i \in DOMAIN definitions : definitions[i].kind \in kinds}

Commands == Of({"command"})
Types == Of({"parameterType", "commandType", "argumentType"})
Parameters == Of({"parameter", "argument"})
Containers == Of({"container"})

Body(i) == definitions[i].body
NameOf(i) == LastOf(definitions[i].path)

\* The definition a pass comes to next, 0 when it has come to its end.
NextOf(all, done) == SetMin(all \ DOMAIN done)

With(f, i, value) == [j \in DOMAIN f \union {i} |-> IF j = i THEN value ELSE f[j]]

Find(ref, i, t) == Resolve(ref, definitions[i].system, t)

Fail(kind) ==
    /\ failure' = kind
    /\ pass' = "failed"
    /\ UNCHANGED <<base, arguments, members, typeOf, extra, containers>>
-----------------------------------------------------------------------------
\* resolve_command_bases, the first loop.
ResolveBase ==
    LET c == NextOf(Commands, base)
        ref == Body(c).base
        found == IF ref = NoRef THEN 0 ELSE Find(ref, c, "command")
    IN  /\ pass = "bases" /\ c # 0
        /\ IF ref = NoAttribute THEN Fail("missing")
           ELSE IF ref # NoRef /\ found = 0 THEN Fail("unresolved")
           ELSE /\ base' = With(base, c, found)
                /\ UNCHANGED <<pass, arguments, members, typeOf, extra,
                               containers, failure>>
        /\ UNCHANGED report

\* The commands from c up, then 0.  As many steps as there are commands lead
\* past a root or around a cycle.
Lineage(c) ==
    LET up[k \in 0..Len(definitions)] ==
            IF k = 0 THEN c
            ELSE IF up[k - 1] = 0 THEN 0 ELSE base[up[k - 1]]
    IN  up

\* Where the walk up from c meets a command it has met, 0 if it does not.
Meets(c) ==
    SetMin({k \in 1..Len(definitions) :
               /\ Lineage(c)[k] # 0
               /\ \E j \in 0..(k - 1) : Lineage(c)[j] = Lineage(c)[k]})

OwnArguments(c) == {i \in Of({"argument"}) : definitions[i].owner = c}

\* The arguments declared k commands up from c.
DeclaredAt(c, k) ==
    IF Lineage(c)[k] = 0 THEN {} ELSE OwnArguments(Lineage(c)[k])

\* Mutant: an inherited argument replaces one the command declares.
InheritedBaseFirst(c) ==
    LET all == UNION {DeclaredAt(c, k) : k \in 0..Len(definitions)}
        Levels(n) == {k \in 0..Len(definitions) : \E i \in DeclaredAt(c, k) : NameOf(i) = n}
    IN  [n \in {NameOf(i) : i \in all} |->
            CHOOSE i \in all : /\ NameOf(i) = n
                               /\ \A k \in Levels(n) : \E j \in Levels(n) :
                                     j >= k /\ i \in DeclaredAt(c, j)]

\* The arguments c can name: the nearest command up the chain that declares
\* the name has it (root-first insertion).
Inherited(c) ==
    LET all == UNION {DeclaredAt(c, k) : k \in 0..Len(definitions)}
        nearest(n) == SetMin({k \in 0..Len(definitions) :
                                 \E i \in DeclaredAt(c, k) : NameOf(i) = n})
    IN  [n \in {NameOf(i) : i \in all} |->
            CHOOSE i \in DeclaredAt(c, nearest(n)) : NameOf(i) = n]

\* Mutant: the walk around a cycle is not stopped.
InheritArgumentsForever ==
    LET c == NextOf(Commands, arguments)
    IN  /\ pass = "arguments" /\ c # 0
        /\ arguments' = IF Meets(c) # 0 THEN arguments
                        ELSE With(arguments, c, Inherited(c))
        /\ UNCHANGED <<pass, base, members, typeOf, extra, containers, failure, report>>

\* resolve_command_bases, the second loop; a cycle is reported with the walk
\* that led to it.
InheritArguments ==
    LET c == NextOf(Commands, arguments)
    IN  /\ pass = "arguments" /\ c # 0
        /\ IF Meets(c) # 0
           THEN /\ Fail("commandCycle")
                /\ report' = [k \in 1..(Meets(c) + 1) |-> Lineage(c)[k - 1]]
           ELSE /\ arguments' = With(arguments, c, Inherited(c))
                /\ UNCHANGED <<pass, base, members, typeOf, extra, containers,
                               failure, report>>

\* lower_type: a composite with a member whose type is not found is kept as
\* unsupported.  The members of an argument type are looked for among the
\* parameter types, too.
LowerType ==
    LET t == NextOf(Types, members)
        found == [i \in DOMAIN Body(t).members |->
                     Find(Body(t).members[i], t, "parameterType")]
        supported == \A i \in DOMAIN found : found[i] # 0
    IN  /\ pass = "types" /\ t # 0
        /\ IF ~ Body(t).valid THEN Fail("invalid")
           ELSE /\ members' = With(members, t, [supported |-> supported,
                                    types |-> IF supported THEN found ELSE <<>>])
                /\ UNCHANGED <<pass, base, arguments, typeOf, extra, containers,
                               failure>>
        /\ UNCHANGED report

\* lower_parameters
LowerParameter ==
    LET p == NextOf(Parameters, typeOf)
        ref == Body(p).type
        found == IF ref = NoRef THEN 0
                 ELSE Find(ref, p, IF definitions[p].kind = "argument"
                                   THEN "argumentType" ELSE "parameterType")
    IN  /\ pass = "parameters" /\ p # 0
        /\ IF ref = NoRef THEN Fail("missing")
           ELSE IF found = 0 THEN Fail("unresolved")
           ELSE /\ typeOf' = With(typeOf, p, found)
                /\ UNCHANGED <<pass, base, arguments, members, extra, containers,
                               failure>>
        /\ UNCHANGED report
-----------------------------------------------------------------------------
\* Mutant: an aggregate of one member is taken for its member.
IsCompositeOfMany(t) == Len(members[t].types) > 1

IsComposite(t) == members[t].types # <<>>

NotExpanded == [ok |-> FALSE, types |-> <<>>]

\* The fields of what is read one after the other; none when one has none.
Together(parts) ==
    LET joined[i \in 0..Len(parts)] ==
            IF i = 0 THEN [ok |-> TRUE, types |-> <<>>]
            ELSE IF joined[i - 1].ok /\ parts[i].ok
            THEN [ok |-> TRUE, types |-> joined[i - 1].types \o parts[i].types]
            ELSE NotExpanded
    IN  joined[Len(parts)]

\* The fields of a type in order (collect_leaves, whose walk is the module
\* Composites): none when a type is inside itself or there are too many.
Leaves(t) ==
    LET leaves[visiting \in SUBSET Types] ==
            [u \in Types |->
                IF ~ IsComposite(u) THEN [ok |-> TRUE, types |-> <<u>>]
                ELSE IF u \in visiting THEN NotExpanded
                ELSE Together([i \in DOMAIN members[u].types |->
                                  leaves[visiting \union {u}][members[u].types[i]]])]
        all == leaves[{}][t]
    IN  IF Len(all.types) > MaxExpandedFields THEN NotExpanded ELSE all

\* lower_argument_lookup: the reference is one name, looked for in the
\* command's own scope, and there is none outside of commands.
ArgumentNamed(ref, command) ==
    IF command = 0 \/ IsPath(ref) THEN 0
    ELSE Lookup(arguments[command], ref.segments[1])

\* What an entry of container c refers to, 0 if nothing.
Meant(entry, c) ==
    IF entry.tag = "argumentRef" THEN ArgumentNamed(entry.ref, definitions[c].owner)
    ELSE Find(entry.ref, c, IF entry.tag = "containerRef" THEN "container" ELSE "parameter")

Lowered(failed, entries, types) ==
    [failure |-> failed, entries |-> entries, extra |-> types]

Unsupported == [kind |-> "unsupported", target |-> 0]

\* lower_entry, with the parameters made so far.  A tag that is none of the
\* four is out of scope like an IncludeCondition or a count in the packet; ref
\* is NoRef when the element lacks an attribute it must have.  placed: there is
\* a location or a repetition, which a composite cannot carry.
Entered(entry, c, types) ==
    LET meant  == Meant(entry, c)
        leaves == Leaves(typeOf[meant]).types
    IN  IF entry.outOfScope \/ entry.tag = "other"
        THEN Lowered("none", <<Unsupported>>, types)
        ELSE IF entry.ref = NoRef THEN Lowered("missing", <<>>, types)
        ELSE IF entry.tag = "fixedValue"
        THEN Lowered("none", <<[kind |-> "fixedValue", target |-> 0]>>, types)
        ELSE IF meant = 0 THEN Lowered("unresolved", <<>>, types)
        ELSE IF entry.tag = "containerRef"
        THEN Lowered("none", <<[kind |-> "container", target |-> meant]>>, types)
        ELSE IF ~ IsComposite(typeOf[meant])
        THEN Lowered("none", <<[kind |-> "parameter", target |-> meant]>>, types)
        ELSE IF ~ Leaves(typeOf[meant]).ok THEN Lowered("notExpanded", <<>>, types)
        ELSE IF entry.placed THEN Lowered("none", <<Unsupported>>, types \o leaves)
        ELSE Lowered("none",
                [i \in DOMAIN leaves |-> [kind |-> "parameter",
                    target |-> Len(definitions) + Len(types) + i]], types \o leaves)

\* The entries of a container, up to the first that fails.
EntriesOf(c) ==
    LET list == Body(c).entries
        upTo[i \in 0..Len(list)] ==
            IF i = 0 THEN Lowered("none", <<>>, extra)
            ELSE IF upTo[i - 1].failure # "none" THEN upTo[i - 1]
            ELSE LET next == Entered(list[i], c, upTo[i - 1].extra)
                 IN  [next EXCEPT !.entries = upTo[i - 1].entries \o @]
    IN  upTo[Len(list)]

\* The parameters that are found, in order.
Found(refs, c) ==
    SelectSeq([i \in DOMAIN refs |-> Find(refs[i], c, "parameter")], LAMBDA p : p # 0)

\* lower_criteria_children: a comparison with an unknown parameter stays, as
\* one that cannot be evaluated; a condition of a list is left out.
Criterion(criterion, c) ==
    LET found == Found(criterion.refs, c)
    IN  IF criterion.form = "comparison" /\ found = <<>>
        THEN [form |-> "unsupported", parameters |-> <<>>]
        ELSE [form |-> criterion.form, parameters |-> found]

\* argument_assignments: the arguments a command pins, 0 for one not found.
Assigned(command) ==
    IF command = 0 \/ Body(command).base = NoRef THEN <<>>
    ELSE [i \in DOMAIN Body(command).assignments |->
             Lookup(arguments[command], Body(command).assignments[i])]

\* lower_containers, one of them.
LowerContainer ==
    LET c        == NextOf(Containers, containers)
        body     == Body(c)
        owner    == definitions[c].owner
        found    == IF body.base = NoRef THEN 0 ELSE Find(body.base, c, "container")
        assigned == Assigned(owner)
        entries  == EntriesOf(c)
    IN  /\ pass = "containers" /\ c # 0
        /\ IF body.base # NoRef /\ found = 0 THEN Fail("unresolved")
           ELSE IF \E i \in DOMAIN assigned : assigned[i] = 0 THEN Fail("unresolved")
           ELSE IF entries.failure # "none" THEN Fail(entries.failure)
           ELSE /\ containers' = With(containers, c,
                      [base |-> found,
                       abstract |-> body.abstract \/ (owner # 0 /\ Body(owner).abstract),
                       command |-> definitions[c].shared \/ owner # 0,
                       restriction |->
                          [i \in DOMAIN body.criteria |-> Criterion(body.criteria[i], c)]
                          \o [i \in DOMAIN assigned |->
                                [form |-> "comparison", parameters |-> <<assigned[i]>>]],
                       entries |-> entries.entries])
                /\ extra' = entries.extra
                /\ UNCHANGED <<pass, base, arguments, members, typeOf, failure>>
        /\ UNCHANGED report
-----------------------------------------------------------------------------
\* Mutant: only a container that extends itself is a cycle.
UnfoundedAlone(S) == S # {} /\ \A c \in S : containers[c].base = c

\* A set of containers each of which extends one of the set.
Unfounded(S) == S # {} /\ \A c \in S : containers[c].base \in S

\* check_acyclic, whose walk is the module Inheritance.
CheckInheritance ==
    /\ pass = "inheritance"
    /\ IF \E S \in SUBSET DOMAIN containers : Unfounded(S)
       THEN Fail("containerCycle")
       ELSE /\ pass' = "loaded"
            /\ UNCHANGED <<base, arguments, members, typeOf, extra, containers, failure>>
    /\ UNCHANGED report

\* run goes on to the next pass when one has come to its end.
After(from, all, done, to) ==
    /\ pass = from
    /\ NextOf(all, done) = 0
    /\ pass' = to

NextPass ==
    /\ \/ pass = "register" /\ progress = "registered" /\ pass' = "bases"
       \/ After("bases", Commands, base, "arguments")
       \/ After("arguments", Commands, arguments, "types")
       \/ After("types", Types, members, "parameters")
       \/ After("parameters", Parameters, typeOf, "containers")
       \/ After("containers", Containers, containers, "inheritance")
    /\ UNCHANGED <<base, arguments, members, typeOf, extra, containers, failure, report>>

LoaderInit ==
    /\ NamespaceInit
    /\ pass = "register"
    /\ base = <<>> /\ arguments = <<>> /\ members = <<>> /\ typeOf = <<>>
    /\ extra = <<>> /\ containers = <<>>
    /\ failure = "none"
    /\ report = <<>>

Lower ==
    /\ \/ NextPass
       \/ ResolveBase
       \/ InheritArguments
       \/ LowerType
       \/ LowerParameter
       \/ LowerContainer
       \/ CheckInheritance
    /\ UNCHANGED namespaceVars

\* A load is one call, which goes on until it returns.
LoaderNext ==
    \/ Register /\ UNCHANGED loaderVars
    \/ Lower

LoaderSpec ==
    /\ LoaderInit
    /\ [][LoaderNext]_<<namespaceVars, loaderVars>>
    /\ WF_<<namespaceVars, loaderVars>>(LoaderNext)
-----------------------------------------------------------------------------
\* root_containers
Roots == {c \in DOMAIN containers : containers[c].base = 0}

\* default_root_container: the first conventional name that any container has,
\* else the only root of the telemetry; 0 for none.
DefaultRoot ==
    LET named == {i \in DOMAIN RootNames : Lookup(leaf["container"], RootNames[i]) # 0}
        telemetry == {c \in Roots : ~ containers[c].command}
    IN  IF named # {} THEN Lookup(leaf["container"], RootNames[SetMin(named)])
        ELSE IF \E c \in telemetry : telemetry = {c} THEN SetMin(telemetry) ELSE 0
-----------------------------------------------------------------------------
Total(numbers) == FoldLeft(LAMBDA sum, n : sum + n, 0, numbers)

\* How many fields a type has; too many for one that is inside itself, which
\* is deeper than there are types.
FieldsIn(t) ==
    LET fields[depth \in 0..Len(definitions)] ==
            [u \in Types |->
                IF ~ IsComposite(u) THEN 1
                ELSE IF depth = 0 THEN MaxExpandedFields + 1
                ELSE Total([i \in DOMAIN members[u].types |->
                               fields[depth - 1][members[u].types[i]]])]
    IN  fields[Len(definitions)][t]

\* The types of what the entries of a container name, as far as they are read.
NamedTypes(c) ==
    {typeOf[Meant(entry, c)] :
        entry \in {e \in Range(Body(c).entries) :
                     /\ e.tag \in {"parameterRef", "argumentRef"}
                     /\ ~ e.outOfScope /\ e.ref # NoRef /\ Meant(e, c) # 0}}

\* How many entries one of container c becomes.
Places(entry, c) ==
    IF entry.outOfScope \/ entry.placed \/ entry.tag \notin {"parameterRef", "argumentRef"}
    THEN 1 ELSE FieldsIn(typeOf[Meant(entry, c)])

\* The parameters of the database: those of the document, then those made.
ParameterIds ==
    Parameters \union ((Len(definitions) + 1)..(Len(definitions) + Len(extra)))

TypeOfParameter(p) ==
    IF p \in Parameters THEN typeOf[p] ELSE extra[p - Len(definitions)]

EntryOk(e) ==
    \/ e.kind \in {"unsupported", "fixedValue"} /\ e.target = 0
    \/ e.kind = "container" /\ e.target \in Containers
    \/ e.kind = "parameter" /\ e.target \in ParameterIds

\* Part: what is built has identifiers of the right kind only, and a failed load
\* has a reason.
LoaderTypeOK ==
    /\ pass \in {"register", "bases", "arguments", "types", "parameters",
                 "containers", "inheritance", "loaded", "failed"}
    /\ \A c \in DOMAIN base : c \in Commands /\ base[c] \in Commands \union {0}
    /\ \A c \in DOMAIN arguments : Range(arguments[c]) \subseteq Of({"argument"})
    /\ \A t \in DOMAIN members : t \in Types /\ Range(members[t].types) \subseteq Types
    /\ \A p \in DOMAIN typeOf : p \in Parameters /\ typeOf[p] \in Types
    /\ Range(extra) \subseteq Types
    /\ \A c \in DOMAIN containers :
          /\ c \in Containers /\ containers[c].base \in Containers \union {0}
          /\ \A e \in Range(containers[c].entries) : EntryOk(e)
    /\ pass = "failed" <=> failure # "none"

\* Part: each entry keeps its place and its bits: it becomes as many entries as
\* its type has fields, and every field is a parameter of its own.
FieldsAreFresh ==
    /\ \A c \in DOMAIN containers :
          Len(containers[c].entries) =
             Total([i \in DOMAIN Body(c).entries |-> Places(Body(c).entries[i], c)])
    /\ \A c, d \in DOMAIN containers :
          \A i \in DOMAIN containers[c].entries, j \in DOMAIN containers[d].entries :
             LET e == containers[c].entries[i]
             IN  e.target > Len(definitions) /\ e = containers[d].entries[j] =>
                    c = d /\ i = j

\* What the decoder takes for granted of a loaded database: everything is
\* lowered, an entry is read as one field, never as an array or an aggregate,
\* every field is there once, and a container's bases lead to a root.
LoadedIsClosed ==
    pass = "loaded" =>
        /\ DOMAIN base = Commands /\ DOMAIN members = Types
        /\ DOMAIN typeOf = Parameters /\ DOMAIN containers = Containers
        /\ \A c \in Containers : \A e \in Range(containers[c].entries) :
              e.kind = "parameter" => members[TypeOfParameter(e.target)].types = <<>>
        /\ \A c \in Containers : \E path \in UNION {[1..n -> Containers] : n \in 1..Len(definitions)} :
              /\ path[1] = c /\ containers[LastOf(path)].base = 0
              /\ \A k \in 1..(Len(path) - 1) : path[k + 1] = containers[path[k]].base
        /\ FieldsAreFresh /\ LoaderTypeOK

\* Part: an argument entry is a local reference: it is an argument of the
\* container's command or of one it extends, and never a parameter of the
\* telemetry.
ArgumentsAreLocal ==
    \A c \in DOMAIN containers :
        (\A e \in Range(Body(c).entries) : e.tag = "argumentRef") =>
            \A e \in Range(containers[c].entries) :
                e.kind = "parameter" /\ e.target \in Parameters =>
                    /\ definitions[e.target].kind = "argument"
                    /\ definitions[e.target].owner \in Range(Lineage(definitions[c].owner))

\* A command can name what it declares and what its base can name, its own
\* first, however long the chain and whichever command is first in the file,
\* and its containers take their arguments from nowhere else.
ArgumentsAreInherited ==
  /\ ArgumentsAreLocal
  /\ \A c \in DOMAIN arguments :
        LET own == [n \in {NameOf(i) : i \in OwnArguments(c)} |->
                       CHOOSE i \in OwnArguments(c) : NameOf(i) = n]
            all == DOMAIN own \union
                   (IF base[c] \in DOMAIN arguments THEN DOMAIN arguments[base[c]] ELSE {})
        IN  base[c] \in DOMAIN arguments \union {0} =>
                /\ DOMAIN arguments[c] = all
                /\ \A n \in all : arguments[c][n] =
                      IF n \in DOMAIN own THEN own[n] ELSE arguments[base[c]][n]

\* A document with a command, a container or a read type inside itself is
\* refused and nothing else is refused for that.
CircularDefinitionsAreRefused ==
    LET circular == \E S \in SUBSET DOMAIN base : S # {} /\ \A c \in S : base[c] \in S
        inherits == {c \in Containers : Body(c).base # NoRef}
        endless  == \E S \in SUBSET inherits :
                       S # {} /\ \A c \in S : Find(Body(c).base, c, "container") \in S
    IN  /\ failure = "commandCycle" => circular
        /\ DOMAIN members # {} => ~ circular
        /\ failure = "containerCycle" => endless
        /\ failure = "notExpanded" => \E c \in Containers : \E t \in NamedTypes(c) :
              FieldsIn(t) > MaxExpandedFields
        /\ pass = "loaded" =>
              /\ ~ endless
              /\ \A c \in Containers : \A t \in NamedTypes(c) :
                    FieldsIn(t) <= MaxExpandedFields

\* A load ends, whatever is circular in the document.
LoadingEnds == <>(pass \in {"loaded", "failed"} \/ progress = "refused")
=============================================================================
