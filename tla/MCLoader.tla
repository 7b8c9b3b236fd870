-------------------------------- MODULE MCLoader --------------------------------
(***************************************************************************)
(* Loads of small documents.  A document is a sequence of the steps by     *)
(* which Namespaces reads it; each family is about one of the passes and   *)
(* varies the references of two or three definitions over each other, a    *)
(* name that is not there and no reference.                                *)
(***************************************************************************)
EXTENDS Loader

VARIABLES
    document,   \* what is loaded
    read        \* how many of its elements are registered
-----------------------------------------------------------------------------
AllNames == {"root", "sub", "t", "p", "q", "r", "x", "y", "a", "b", "c", "k", "m", "z"}

Optional(n) == IF n = NoRef THEN NoRef ELSE Plain(n)

System(name) == [tag |-> "system", name |-> name]

Define1(kind, at, name, body) ==
    [tag |-> "define", kind |-> kind, at |-> at, name |-> name, body |-> body]

Type(kind, at, name, of) ==
    Define1(kind, at, name, [valid |-> TRUE, members |-> [i \in DOMAIN of |-> Plain(of[i])]])

Parameter(name, type) == Define1("parameter", 2, name, [type |-> Optional(type)])

Entry(tag, name) ==
    [tag |-> tag, ref |-> Optional(name), outOfScope |-> FALSE, placed |-> FALSE]

Layout(extends, criteria, entries) ==
    [abstract |-> FALSE, base |-> Optional(extends), criteria |-> criteria,
     entries |-> entries]

Container(name, extends, criteria, entries) ==
    Define1("container", 3, name, Layout(extends, criteria, entries))

Command(name, extends, assignments, own, packaging) ==
    [tag |-> "command", name |-> name,
     body |-> [abstract |-> FALSE,
               base |-> IF extends = NoAttribute THEN NoAttribute ELSE Optional(extends),
               assignments |-> assignments],
     arguments |-> [i \in DOMAIN own |-> [name |-> own[i], body |-> [type |-> Plain("t")]]],
     container |-> packaging]

Packaging(name, body) == <<[name |-> name, body |-> body]>>
-----------------------------------------------------------------------------
Lists(S, n) == UNION {[1..k -> S] : k \in 0..n}

\* Three commands that extend each other and have arguments of one name; the
\* last one packs one or pins one.  The telemetry has a parameter named alike.
CommandDocuments ==
    {<<Type("parameterType", 1, "t", <<>>), Parameter("x", "t"),
       Type("argumentType", 5, "t", <<>>),
       Command("a", e1, <<>>, own1, <<>>), Command("b", e2, <<>>, own2, <<>>),
       Command("c", e3, pins, own3, Packaging("k", Layout(NoRef, <<>>, entries)))>> :
        e1 \in {NoRef, NoAttribute, "a", "b", "c", "z"}, e2 \in {NoRef, "a", "c"},
        e3 \in {NoRef, "a", "b"}, own1 \in {<<>>, <<"x">>}, own2 \in {<<>>, <<"x">>},
        own3 \in {<<>>, <<"x">>}, pins \in {<<>>, <<"x">>},
        entries \in {<<>>, <<Entry("argumentRef", "x")>>}}

\* Two types of up to two members over each other, a field and an unknown
\* type, and a container that reads them.
TypeDocuments ==
    LET x == Entry("parameterRef", "x")
    IN  {<<Type("parameterType", 1, "p", of1), Type("parameterType", 1, "q", of2),
           Type("parameterType", 1, "r", <<>>), Parameter("x", "p"),
           Parameter("y", "q"), Container("k", NoRef, <<>>, entries)>> :
            of1 \in Lists({"p", "q", "r", "z"}, 2), of2 \in Lists({"p", "q", "r"}, 2),
            entries \in {<<x>>, <<[x EXCEPT !.placed = TRUE], x>>,
                         <<[x EXCEPT !.outOfScope = TRUE]>>,
                         <<x, Entry("parameterRef", "y"), x>>}}

Criterion1 ==
    {[form |-> "conditions", refs |-> <<Plain("x"), Plain("z")>>]} \union
    {[form |-> "comparison", refs |-> <<Plain(n)>>] : n \in {"x", "z"}}

\* Three containers over each other: of the telemetry, shared and private to a
\* command, in one system or with the commands in one of their own.
ContainerDocuments ==
    {<<Type("parameterType", 1, "t", <<>>), Parameter("x", "t"),
       Container("a", e1, <<>>, entries)>> \o inner \o
     <<Define1("container", 7, "b", Layout(e2, <<criterion>>, <<>>)),
       Command("m", NoRef, <<>>, <<>>, Packaging("k", Layout(e3, <<>>, <<>>)))>> :
        inner \in {<<>>, <<System("sub")>>},
        e1 \in {NoRef, "a", "b", "k", "z"}, e2 \in {NoRef, "a", "k"},
        e3 \in {NoRef, "a", "b"}, criterion \in Criterion1,
        entries \in {<<>>, <<Entry("containerRef", "b"), Entry("parameterRef", "x")>>}
                    \union {<<Entry(tag, n)>> : tag \in {"containerRef", "fixedValue",
                            "argumentRef", "other"}, n \in {NoRef, "k"}}}

\* A type whose sizes are no numbers, and parameters without a type.
InvalidDocuments ==
    {<<Define1("parameterType", 1, "t", [valid |-> FALSE, members |-> <<>>])>>}
    \union {<<Parameter("x", n)>> : n \in {NoRef, "z"}}

Documents ==
    CommandDocuments \union TypeDocuments \union ContainerDocuments \union InvalidDocuments

\* What the elements of the documents hold.
DocumentBodies ==
    LET elements == UNION {Range(d) : d \in Documents}
        commands == {e \in elements : e.tag = "command"}
        defined(kind) == {e.body : e \in {d \in elements : d.tag = "define" /\ d.kind = kind}}
        inside == [argument  |-> UNION {Range(c.arguments) : c \in commands},
                   container |-> UNION {Range(c.container) : c \in commands},
                   command   |-> commands]
    IN  [kind \in Kinds |-> defined(kind) \union
            IF kind \in DOMAIN inside THEN {part.body : part \in inside[kind]} ELSE {}]

FirstRoots == <<"a", "b">>
-----------------------------------------------------------------------------
\* A load of one of some documents begins.
Begins(documents) ==
    /\ LoaderInit
    /\ systems[1].path = <<"root">>
    /\ document \in documents
    /\ read = 0

\* Registration reads the next element of the document.
Feed ==
    /\ IF read = Len(document) THEN Registered /\ UNCHANGED read
       ELSE LET e == document[read + 1]
            IN  /\ IF e.tag = "system" THEN OpenSystem(e.name, 1)
                   ELSE IF e.tag = "define" THEN Define(e.kind, e.at, e.name, e.body)
                   ELSE DefineCommand(e.name, e.body, e.arguments, e.container)
                /\ read' = read + 1
    /\ UNCHANGED <<loaderVars, document>>

MCNext ==
    \/ Feed
    \/ Lower /\ UNCHANGED <<document, read>>

MCVars == <<namespaceVars, loaderVars, document, read>>

MCSpec == Begins(Documents) /\ [][MCNext]_MCVars /\ WF_MCVars(MCNext)
=============================================================================
