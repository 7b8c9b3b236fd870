------------------------------ MODULE Namespaces ------------------------------
(***************************************************************************)
(* The first pass of the loader (crates/xtce-model/src/lower.rs), which    *)
(* gives every definition of a document an identifier and enters its name  *)
(* in the tables, and the resolution of references against these tables.   *)
(*                                                                         *)
(* The document is read as the code reads it: a space system, its sections *)
(* in a fixed order, then the systems inside it.  What it holds is not     *)
(* known beforehand, each step reads one more definition, so the states    *)
(* are the prefixes of all documents up to the bounds.  A name is an       *)
(* element of Names and a qualified name, "/SS/CMD/ARG" in the code, the   *)
(* sequence of its segments.  The code numbers types, parameters,          *)
(* containers and commands apart; here they have one numbering, which      *)
(* keeps the order within each of them.                                    *)
(***************************************************************************)
EXTENDS Integers, Sequences

CONSTANTS
    Names,              \* the names of systems and definitions
    NoName,             \* the name of an element without one
    Here, Up, Blank,    \* the segments ".", ".." and "" of a reference
    Bodies,             \* what an element may hold besides its name, per kind
    MaxElements         \* bound: the systems and definitions of a document

Kinds == {"parameterType", "commandType", "argumentType", "parameter",
          "argument", "container", "command"}

ASSUME NamesAreNoSegments ==
    /\ Names \intersect {NoName, Here, Up, Blank} = {}
    /\ Blank \notin {Here, Up} /\ Here # Up

ASSUME BodiesAssumption == DOMAIN Bodies = Kinds

ASSUME BoundAssumption == MaxElements \in Nat \ {0}

VARIABLES
    systems,        \* [path, parent] of each space system, parent 0 for the root
    section,        \* the section of the last system that is being read
    definitions,    \* what is registered, in order
    qualified,      \* the *_by_qualified tables: from qualified name to place
    leaf,           \* the *_by_leaf tables: from unqualified name to place
    progress        \* "reading", then "registered" or "refused"

namespaceVars == <<systems, section, definitions, qualified, leaf, progress>>
-----------------------------------------------------------------------------
\* The tables, one for each kind a reference can ask for.
Tables == {"parameterType", "argumentType", "parameter", "container", "command"}

\* The tables that hold a kind of definition.  The types of the command half
\* are in two; an argument is lowered as a parameter.
TablesOf(kind) ==
    IF kind = "commandType" THEN {"parameterType", "argumentType"}
    ELSE IF kind = "argument" THEN {"parameter"}
    ELSE {kind}

\* The sections of a system, in the order they are read: telemetry types,
\* parameters and containers, then command types, argument types, parameters,
\* shared containers, and the commands.
SectionsOf(kind) ==
    IF kind = "parameterType" THEN {1}
    ELSE IF kind = "parameter" THEN {2, 6}
    ELSE IF kind = "container" THEN {3, 7}
    ELSE IF kind = "commandType" THEN {4}
    ELSE IF kind = "argumentType" THEN {5}
    ELSE {8}

LastOf(s) == s[Len(s)]

\* A table with more places entered under their keys; the first one stays
\* (or_insert; insert_unique has refused a second one).
Indexed(table, keys) ==
    [k \in DOMAIN table \union {keys[i] : i \in DOMAIN keys} |->
        IF k \in DOMAIN table THEN table[k]
        ELSE CHOOSE i \in DOMAIN keys : keys[i] = k]

\* The places the next definitions get, of those that go into table t.
PlacesIn(t, new) ==
    {i \in (Len(definitions) + 1)..(Len(definitions) + Len(new)) :
        t \in TablesOf(new[i - Len(definitions)].kind)}

\* An argument is local to its command and not found by its unqualified name.
FoundByLeaf(t, new) ==
    {i \in PlacesIn(t, new) : new[i - Len(definitions)].kind # "argument"}

\* insert_unique meets a qualified name that is taken, or an element has none.
Clashes(new) ==
    \E i \in DOMAIN new :
        \/ LastOf(new[i].path) = NoName
        \/ \E t \in TablesOf(new[i].kind) :
              \/ new[i].path \in DOMAIN qualified[t]
              \/ \E j \in 1..(i - 1) :
                    new[j].path = new[i].path /\ t \in TablesOf(new[j].kind)

\* How many elements more the bound allows.
Room == MaxElements - Len(systems) - Len(definitions)

\* Register definitions, or refuse the document.
Enter(new) ==
    /\ Len(new) <= Room
    /\ IF Clashes(new)
       THEN /\ progress' = "refused"
            /\ UNCHANGED <<definitions, qualified, leaf>>
       ELSE /\ definitions' = definitions \o new
            /\ qualified' = [t \in Tables |-> Indexed(qualified[t],
                  [i \in PlacesIn(t, new) |-> new[i - Len(definitions)].path])]
            /\ leaf' = [t \in Tables |-> Indexed(leaf[t],
                  [i \in FoundByLeaf(t, new) |->
                      LastOf(new[i - Len(definitions)].path)])]
            /\ UNCHANGED progress
-----------------------------------------------------------------------------
NamespaceInit ==
    /\ \E root \in Names : systems = <<[path |-> <<root>>, parent |-> 0]>>
    /\ section = 1
    /\ definitions = <<>>
    /\ qualified = [t \in Tables |-> <<>>]
    /\ leaf = [t \in Tables |-> <<>>]
    /\ progress = "reading"

\* The systems around system s, and s itself, by their parents.
Ancestors(s) ==
    LET above[x \in 0..Len(systems)] ==
            IF x = 0 THEN {} ELSE {x} \union above[systems[x].parent]
    IN  above[s]

\* register_space_system for a system inside one that is not closed yet.
\* Nothing keeps two of them from having one name.
OpenSystem(name, parent) ==
    /\ progress = "reading"
    /\ Room > 0
    /\ parent \in Ancestors(Len(systems))
    /\ systems' = Append(systems,
          [path |-> Append(systems[parent].path, name), parent |-> parent])
    /\ section' = 1
    /\ UNCHANGED <<definitions, qualified, leaf, progress>>

Path(name) == Append(LastOf(systems).path, name)

\* Mutant: the sections are read in the order the file has them.
DefineAnywhere(kind, at, name, body) ==
    /\ progress = "reading"
    /\ at \in SectionsOf(kind)
    /\ Enter(<<[kind |-> kind, path |-> Path(name), system |-> Len(systems),
                shared |-> at = 7, owner |-> 0, body |-> body]>>)
    /\ section' = at
    /\ UNCHANGED systems

\* register, for a definition of its own in the system's section at.  The
\* containers of section 7 are shared by the commands.
Define(kind, at, name, body) ==
    /\ progress = "reading"
    /\ at \in SectionsOf(kind) /\ section <= at
    /\ Enter(<<[kind |-> kind, path |-> Path(name), system |-> Len(systems),
                shared |-> at = 7, owner |-> 0, body |-> body]>>)
    /\ section' = at
    /\ UNCHANGED systems

\* What is inside a command is named after it.  parts: [name, body]s.
Inner(kind, command, parts) ==
    [i \in DOMAIN parts |->
        [kind |-> kind, path |-> Append(Path(command), parts[i].name),
         system |-> Len(systems), shared |-> FALSE,
         owner |-> Len(definitions) + 1, body |-> parts[i].body]]

\* register_meta_command: the command, its arguments and its own container.
DefineCommand(name, body, arguments, container) ==
    /\ progress = "reading"
    /\ section <= 8
    /\ Enter(<<[kind |-> "command", path |-> Path(name), system |-> Len(systems),
                shared |-> FALSE, owner |-> 0, body |-> body]>>
             \o Inner("argument", name, arguments)
             \o Inner("container", name, container))
    /\ section' = 8
    /\ UNCHANGED systems

\* The document's end.
Registered ==
    /\ progress = "reading"
    /\ progress' = "registered"
    /\ UNCHANGED <<systems, section, definitions, qualified, leaf>>

\* At most n elements of a kind inside a command.
Parts(kind, n) ==
    UNION {[1..k -> [name : Names \union {NoName}, body : Bodies[kind]]] : k \in 0..n}

Register ==
    \/ \E name \in Names, parent \in 1..Len(systems) : OpenSystem(name, parent)
    \/ \E kind \in Kinds \ {"argument", "command"}, at \in 1..7,
          name \in Names \union {NoName} :
          \E body \in Bodies[kind] : Define(kind, at, name, body)
    \/ \E name \in Names \union {NoName}, body \in Bodies["command"],
          arguments \in Parts("argument", Room - 1),
          container \in Parts("container", 1) :
          DefineCommand(name, body, arguments, container)
    \/ Registered

NamespaceSpec == NamespaceInit /\ [][Register]_namespaceVars
-----------------------------------------------------------------------------
\* A reference is [absolute, segments]; absolute when it begins with "/".
Plain(name) == [absolute |-> FALSE, segments |-> <<name>>]

\* reference.contains('/')
IsPath(ref) == ref.absolute \/ Len(ref.segments) > 1

\* Mutant: ".." is not looked for.
NeedsNormalisingHere(ref) ==
    \E i \in DOMAIN ref.segments :
        ref.segments[i] = Here \/ (ref.segments[i] = Blank /\ i < Len(ref.segments))

\* needs_normalising; a "/" at the end alone is no reason.
NeedsNormalising(ref) ==
    \E i \in DOMAIN ref.segments :
        \/ ref.segments[i] \in {Here, Up}
        \/ ref.segments[i] = Blank /\ i < Len(ref.segments)

\* The general case of normalize_into: ".." drops a segment if there is one.
Walked(base, segments) ==
    LET walk[i \in 0..Len(segments)] ==
            IF i = 0 THEN base
            ELSE IF segments[i] = Up
                 THEN SubSeq(walk[i - 1], 1, Len(walk[i - 1]) - 1)
            ELSE IF segments[i] \in {Here, Blank} THEN walk[i - 1]
            ELSE Append(walk[i - 1], segments[i])
    IN  walk[Len(segments)]

\* normalize_into
Located(base, ref) ==
    LET from == IF ref.absolute THEN <<>> ELSE base
    IN  IF NeedsNormalising(ref) THEN Walked(from, ref.segments)
                                 ELSE from \o ref.segments

\* A table's answer, 0 for None.
Lookup(table, key) == IF key \in DOMAIN table THEN table[key] ELSE 0

\* The plain name in the system itself, then in each one around it.
Climb(ref, from, t) ==
    LET climb[s \in 0..Len(systems)] ==
            IF s = 0 THEN 0
            ELSE LET found == Lookup(qualified[t], Located(systems[s].path, ref))
                 IN  IF found # 0 THEN found ELSE climb[systems[s].parent]
    IN  climb[from]

\* resolve_by_path: a path is not looked for in the systems around.
ResolveByPath(ref, from, t) ==
    IF IsPath(ref) THEN Lookup(qualified[t], Located(systems[from].path, ref))
                   ELSE Climb(ref, from, t)

\* Mutant: the unqualified name is looked for first.
ResolveLeafFirst(ref, from, t) ==
    LET found == Lookup(leaf[t], LastOf(ref.segments))
    IN  IF found # 0 THEN found ELSE ResolveByPath(ref, from, t)

\* resolve: the place of the definition a reference names, 0 for None.
Resolve(ref, from, t) ==
    IF ~ IsPath(ref) /\ Len(systems) = 1
    THEN Lookup(leaf[t], LastOf(ref.segments))
    ELSE LET found == ResolveByPath(ref, from, t)
         IN  IF found # 0 THEN found ELSE Lookup(leaf[t], LastOf(ref.segments))
-----------------------------------------------------------------------------
\* The definitions a table is for.
In(t) == {i \in DOMAIN definitions : t \in TablesOf(definitions[i].kind)}

\* The definition of table t with a path.
At(path, t) == {i \in In(t) : definitions[i].path = path}

\* The tables with something in them: the others find nothing.
Used == {t \in Tables : DOMAIN leaf[t] # {} \/ DOMAIN qualified[t] # {}}

SetMin(S) == IF S = {} THEN 0 ELSE CHOOSE i \in S : \A j \in S : i <= j

\* Every definition, also one inside a command, is found from everywhere by
\* its qualified name, in each table it is for: so no two that a reference
\* could mean have one qualified name, in either of the namespaces a command's
\* types belong to.
DefinitionsAreFound ==
    \A t \in Tables : \A i \in In(t) : \A s \in DOMAIN systems :
        Resolve([absolute |-> TRUE, segments |-> definitions[i].path], s, t) = i

\* The definitions with an unqualified name that are not inside a command, and
\* the containers that are.
Outside(t, name) ==
    {i \in In(t) : LastOf(definitions[i].path) = name /\ definitions[i].owner = 0}
Private(t, name) ==
    {i \in In(t) : /\ LastOf(definitions[i].path) = name
                   /\ definitions[i].kind = "container" /\ definitions[i].owner # 0}

\* What a plain name means is decided by where systems and definitions are:
\* the innermost system around the reference that has the name, and when none
\* has, the first definition of the document with it that is not inside a
\* command; never an argument (resolve and register in lower.rs).  In a
\* document of one system, resolve does not take that way at all.
\* Nothing is said of a name that a system around shares with what is inside a
\* command, which takes a system with the path of that command, nor of one
\* that the document has first for the private container of a command.
PlainNamesAreScoped ==
    \A t \in Used, name \in Names : \A s \in DOMAIN systems :
        LET Has(x) == At(Append(systems[x].path, name), t)
            having == {x \in Ancestors(s) : Has(x) # {}}
        IN  (\A x \in having : Has(x) \subseteq Outside(t, name)) =>
            /\ having # {} =>
                  \E x \in having :
                    /\ \A y \in having : Len(systems[y].path) <= Len(systems[x].path)
                    /\ Resolve(Plain(name), s, t) \in Has(x)
            /\ (/\ having = {}
                /\ \A i \in Private(t, name) : \E j \in Outside(t, name) : j < i) =>
                  Resolve(Plain(name), s, t) = SetMin(Outside(t, name))

\* Where a path goes does not depend on how it is written: "." and a detour
\* into a system and back leave its meaning alone, as long as it is a path.
DetoursDoNotMatter ==
    \A t \in Used, name, last \in Names, absolute \in BOOLEAN :
      \A s \in DOMAIN systems :
        LET direct == Resolve([absolute |-> absolute, segments |-> <<name, last>>], s, t)
        IN  \A way \in {<<Here, name, last>>, <<name, Here, last>>, <<name, Blank, last>>,
                        <<last, Up, name, last>>, <<name, last, Up, last>>} :
                Resolve([absolute |-> absolute, segments |-> way], s, t) = direct
=============================================================================
